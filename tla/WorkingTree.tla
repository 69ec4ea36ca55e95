---------------------------- MODULE WorkingTree ----------------------------
(***************************************************************************)
(* The commands of tools/dev that write (tools/devtool): module new,       *)
(* migration new, project init and release package, run one after another  *)
(* or at the same time on one working tree.                                *)
(*                                                                         *)
(* A command that is refused when it begins, or has --dry-run, changes     *)
(* nothing and is no step.  Reading one file, writing one, replacing one   *)
(* by a rename and reading a directory are atomic, and so is what a        *)
(* command reads first to be accepted; any of them may fail, and a command *)
(* may be killed between them.                                             *)
(***************************************************************************)
EXTENDS Naturals, Sequences

CONSTANTS
    Commands,    \* commands that may run at once
    MaxStarts,   \* bounds the commands that are run
    Domains,     \* the domains of modules, numbers in the order of their names
    Realms,      \* what --realm may say
    Installed,   \* the modules that the tree begins with
    Names,       \* names of migrations
    First,       \* the name of the migration that the tree begins with
    MaxVersion,  \* the latest version that six digits can say
    Paths,       \* the text files that name the project, in the order of their paths
    ConfigYaml, GoMod, ModulesGo,   \* configs/config.local.yaml, go.mod, internal/app/modules.go
    Ids,         \* project identities: a module path, and a name that is spelled as it is
    OldId,
    None

Entry == [domain : Domains, realm : Realms]

\* A module's registration in modules.go: its import, whose path begins with a
\* project's, and its assembly.
Import == [domain : Domains, realm : Realms, id : Ids]
Content == [id : Ids, imports : Seq(Import)]
Migration == [version : Nat, name : Names \cup {First}, direction : {"up", "down"}]

Generated == 3   \* api.go, service.go, repository.go
Dir == [files : 0 .. Generated, realm : Realms]
Archive == [complete : BOOLEAN, migrations : SUBSET Migration]

Stages == {"idle", "read", "mkdir", "write", "replace", "undo", "up", "down",
           "scan", "apply", "restore", "finish", "stage", "copy", "create", "fill"}

\* What a command carries: a module's entry and the modules.go that was read, a
\* migration, the texts that a renaming read and what it has to do, or the
\* migrations to package.
Run ==
    [stage   : Stages,
     entry   : Import \cup {None},
     source  : Content \cup {None},
     version : Nat,
     name    : Names \cup {None},
     id      : Ids \cup {None},
     old     : SUBSET Ids,
     texts   : [Paths -> Content] \cup {None},
     todo    : SUBSET Paths,
     done    : SUBSET Paths,
     picked  : SUBSET Migration]

TreeAssumption ==
    /\ Domains \subseteq Nat
    /\ {ConfigYaml, GoMod, ModulesGo} \subseteq Paths /\ Paths \subseteq Nat
    /\ Installed \in Seq(Import)
    /\ \A i \in DOMAIN Installed : Installed[i].id = OldId
    /\ \A i, j \in DOMAIN Installed : i < j => Installed[i].domain < Installed[j].domain
    /\ MaxVersion \in Nat \ {0}
    /\ OldId \in Ids
    /\ None \notin Domains \cup Dir \cup Archive \cup Content \cup [Paths -> Content]
    /\ None \notin Ids \cup Names \cup Import

ASSUME TreeAssumption

VARIABLES
    files,        \* the project's text files
    dirs,         \* internal/modules/<domain>
    migrations,   \* migrations/*.sql
    archive,      \* the release archive of the commit
    run,          \* the commands that run
    starts,       \* how many have been started
    raced,        \* history: two have run at the same time
    made,         \* history: what commands have reported as created
    spoiled       \* history: what a kill or a failed removal has left behind

tree == <<files, dirs, migrations, archive>>
history == <<raced, made, spoiled>>
vars == <<tree, run, starts, history>>

NoRun == [stage |-> "idle", entry |-> None, source |-> None, version |-> 0, name |-> None,
          id |-> None, old |-> {}, texts |-> None, todo |-> {}, done |-> {}, picked |-> {}]

\* The smallest and the largest of a set of numbers.
Least(S) == CHOOSE x \in S : \A y \in S : x <= y
Greatest(S) == CHOOSE x \in S : \A y \in S : x >= y

Begin(c, new) ==
    /\ run[c].stage = "idle" /\ starts < MaxStarts
    /\ run' = [run EXCEPT ![c] = new]
    /\ starts' = starts + 1
    /\ raced' = (raced \/ \E d \in Commands \ {c} : run[d].stage # "idle")
    /\ UNCHANGED <<made, spoiled>>

To(c, stage) == run' = [run EXCEPT ![c].stage = stage]
End(c) == run' = [run EXCEPT ![c] = NoRun]
At(c, stage) == run[c].stage = stage /\ UNCHANGED <<starts, raced>>

-----------------------------------------------------------------------------
(* module new                                                              *)

Imported(imports, e) ==
    \E i \in DOMAIN imports : imports[i].domain = e.domain /\ imports[i].id = e.id

\* A new import goes before the first of its project that has a greater path, or
\* last.
Insert(imports, e) ==
    LET greater == {i \in DOMAIN imports : imports[i].id = e.id /\ imports[i].domain > e.domain} IN
    IF greater = {} THEN Append(imports, e)
    ELSE LET i == Least(greater) IN
         SubSeq(imports, 1, i - 1) \o <<e>> \o SubSeq(imports, i, Len(imports))

Registered(i) == [domain |-> i.domain, realm |-> i.realm]

NewModule(c, e) ==
    /\ dirs[e.domain] = None
    /\ Begin(c, [NoRun EXCEPT !.stage = "read",
                  !.entry = [domain |-> e.domain, realm |-> e.realm, id |-> files[GoMod].id]])
    /\ UNCHANGED tree

\* modules.go is read and its new text is made from what was read.
ReadModules(c) ==
    /\ At(c, "read")
    /\ IF Imported(files[ModulesGo].imports, run[c].entry) THEN End(c)
       ELSE run' = [run EXCEPT ![c].stage = "mkdir", ![c].source = files[ModulesGo]]
    /\ UNCHANGED <<tree, made, spoiled>>

MakeDir(c, ok) ==
    /\ At(c, "mkdir")
    /\ IF ~ok \/ dirs[run[c].entry.domain] # None THEN End(c) /\ UNCHANGED dirs
       ELSE /\ dirs' = [dirs EXCEPT ![run[c].entry.domain] =
                          [files |-> 0, realm |-> run[c].entry.realm]]
            /\ To(c, "write")
    /\ UNCHANGED <<files, migrations, archive, made, spoiled>>

\* Faulty: one file too many.
WriteFileMore(c, ok) ==
    LET d == run[c].entry.domain IN
    /\ At(c, "write")
    /\ IF ~ok THEN To(c, "undo") /\ UNCHANGED dirs
       ELSE /\ dirs' = [dirs EXCEPT ![d].files = @ + 1]
            /\ To(c, IF dirs[d].files = Generated THEN "replace" ELSE "write")
    /\ UNCHANGED <<files, migrations, archive, made, spoiled>>

\* The next of the generated files.
WriteFile(c, ok) ==
    LET d == run[c].entry.domain IN
    /\ At(c, "write")
    /\ IF ~ok THEN To(c, "undo") /\ UNCHANGED dirs
       ELSE /\ dirs' = [dirs EXCEPT ![d].files = @ + 1]
            /\ To(c, IF dirs[d].files + 1 = Generated THEN "replace" ELSE "write")
    /\ UNCHANGED <<files, migrations, archive, made, spoiled>>

\* Faulty: when modules.go cannot be replaced the command just ends.
ReplaceModulesOrEnd(c, ok) ==
    LET q == run[c] IN
    /\ At(c, "replace")
    /\ IF ~ok THEN End(c) /\ UNCHANGED <<files, made>>
       ELSE /\ files' = [files EXCEPT ![ModulesGo] =
                           [q.source EXCEPT !.imports = Insert(@, q.entry)]]
            /\ made' = [made EXCEPT !.modules = @ \cup {Registered(q.entry)}]
            /\ End(c)
    /\ UNCHANGED <<dirs, migrations, archive, spoiled>>

ReplaceModules(c, ok) ==
    LET q == run[c] IN
    /\ At(c, "replace")
    /\ IF ~ok THEN To(c, "undo") /\ UNCHANGED <<files, made>>
       ELSE /\ files' = [files EXCEPT ![ModulesGo] =
                           [q.source EXCEPT !.imports = Insert(@, q.entry)]]
            /\ made' = [made EXCEPT !.modules = @ \cup {Registered(q.entry)}]
            /\ End(c)
    /\ UNCHANGED <<dirs, migrations, archive, spoiled>>

\* What was created is removed; errors of the removal are dropped.
UndoModule(c, ok) ==
    LET d == run[c].entry.domain IN
    /\ At(c, "undo")
    /\ \E left \in 0 .. dirs[d].files :
         dirs' = [dirs EXCEPT ![d] = IF ok THEN None ELSE [@ EXCEPT !.files = left]]
    /\ spoiled' = IF ok THEN spoiled ELSE [spoiled EXCEPT !.dirs = @ \cup {d}]
    /\ End(c)
    /\ UNCHANGED <<files, migrations, archive, made>>

-----------------------------------------------------------------------------
(* migration new                                                           *)

\* validateMigrations: six digits, one name for a version, both directions.
Valid(ms) ==
    /\ \A m \in ms : m.version \in 1 .. MaxVersion
    /\ \A m, n \in ms : m.version = n.version => m.name = n.name
    /\ \A m \in ms : \A d \in {"up", "down"} : [m EXCEPT !.direction = d] \in ms

Latest(ms) == IF ms = {} THEN 0 ELSE Greatest({m.version : m \in ms})

New(c, direction) ==
    [version |-> run[c].version, name |-> run[c].name, direction |-> direction]

NewMigration(c, n) ==
    /\ Valid(migrations)
    /\ Begin(c, [NoRun EXCEPT !.stage = "up", !.name = n, !.version = Latest(migrations) + 1])
    /\ UNCHANGED tree

\* Faulty: the file is written over one that exists.
WriteUpOver(c, ok) ==
    /\ At(c, "up")
    /\ IF ~ok THEN End(c) /\ UNCHANGED migrations
       ELSE migrations' = migrations \cup {New(c, "up")} /\ To(c, "down")
    /\ UNCHANGED <<files, dirs, archive, made, spoiled>>

WriteUp(c, ok) ==
    /\ At(c, "up")
    /\ IF ~ok \/ New(c, "up") \in migrations THEN End(c) /\ UNCHANGED migrations
       ELSE migrations' = migrations \cup {New(c, "up")} /\ To(c, "down")
    /\ UNCHANGED <<files, dirs, archive, made, spoiled>>

\* If the second file cannot be written the first is removed, if it can be.
WriteDown(c, ok, removed) ==
    LET up == New(c, "up")
        down == New(c, "down")
        written == ok /\ down \notin migrations IN
    /\ At(c, "down")
    /\ migrations' = IF written THEN migrations \cup {down}
                     ELSE IF removed THEN migrations \ {up} ELSE migrations
    /\ made' = IF written THEN [made EXCEPT !.migrations = @ \cup {up, down}] ELSE made
    /\ spoiled' = IF written \/ removed THEN spoiled
                  ELSE [spoiled EXCEPT !.migrations = @ \cup {up}]
    /\ End(c)
    /\ UNCHANGED <<files, dirs, archive>>

-----------------------------------------------------------------------------
(* project init                                                            *)

\* The text with every old identity replaced.
Renamed(text, old, id) ==
    LET Instead(x) == IF x \in old THEN id ELSE x IN
    [id |-> Instead(text.id),
     imports |-> [i \in DOMAIN text.imports |-> [text.imports[i] EXCEPT !.id = Instead(@)]]]

\* go.mod says what the old module path is and the configuration what the old
\* name is; then every file is to be read.  The text of a file that has not been
\* read yet is that of the beginning, and nothing uses it.
InitProject(c, id) ==
    LET old == {files[GoMod].id, files[ConfigYaml].id} IN
    /\ old # {id}
    /\ Begin(c, [NoRun EXCEPT !.stage = "scan", !.id = id, !.old = old,
                               !.texts = files, !.todo = Paths])
    /\ UNCHANGED tree

\* The next file is read, and is one to change if it has an old identity.  Until
\* they are all read, todo has those that are left, and done those to change.
ScanFile(c) ==
    LET q == run[c]
        p == Least(q.todo)
        changes == IF Renamed(files[p], q.old, q.id) = files[p] THEN q.done ELSE q.done \cup {p}
        read == [q EXCEPT !.texts = [q.texts EXCEPT ![p] = files[p]]]
    IN
    /\ At(c, "scan")
    /\ IF q.todo # {p}
       THEN run' = [run EXCEPT ![c] = [read EXCEPT !.todo = @ \ {p}, !.done = changes]]
       ELSE IF changes = {} THEN End(c)
       ELSE run' = [run EXCEPT ![c] = [read EXCEPT !.stage = "apply", !.todo = changes, !.done = {}]]
    /\ UNCHANGED <<tree, made, spoiled>>

\* Faulty: the files that were changed before a failure stay changed.
ApplyFileOrEnd(c, ok) ==
    LET q == run[c]
        p == Least(q.todo) IN
    /\ At(c, "apply")
    /\ IF ok THEN /\ files' = [files EXCEPT ![p] = Renamed(q.texts[p], q.old, q.id)]
                  /\ run' = [run EXCEPT ![c].todo = @ \ {p}, ![c].done = @ \cup {p},
                               ![c].stage = IF q.todo = {p} THEN "finish" ELSE "apply"]
       ELSE UNCHANGED files /\ End(c)
    /\ UNCHANGED <<dirs, migrations, archive, made, spoiled>>

\* The next of them is replaced, or those before it are to be restored.
ApplyFile(c, ok) ==
    LET q == run[c]
        p == Least(q.todo) IN
    /\ At(c, "apply")
    /\ IF ok THEN /\ files' = [files EXCEPT ![p] = Renamed(q.texts[p], q.old, q.id)]
                  /\ run' = [run EXCEPT ![c].todo = @ \ {p}, ![c].done = @ \cup {p},
                               ![c].stage = IF q.todo = {p} THEN "finish" ELSE "apply"]
       ELSE UNCHANGED files /\ IF q.done = {} THEN End(c) ELSE To(c, "restore")
    /\ UNCHANGED <<dirs, migrations, archive, made, spoiled>>

\* The last that was replaced gets its old text; an error is dropped.
RestoreFile(c, ok) ==
    LET q == run[c]
        p == Greatest(q.done) IN
    /\ At(c, "restore")
    /\ files' = IF ok THEN [files EXCEPT ![p] = q.texts[p]] ELSE files
    /\ spoiled' = IF ok THEN spoiled ELSE [spoiled EXCEPT !.project = TRUE]
    /\ IF q.done = {p} THEN End(c) ELSE run' = [run EXCEPT ![c].done = @ \ {p}]
    /\ UNCHANGED <<dirs, migrations, archive, made>>

\* go mod tidy, go fmt, the documents and the checks, which leave the names alone.
Finish(c) ==
    /\ At(c, "finish")
    /\ End(c)
    /\ UNCHANGED <<tree, made, spoiled>>

-----------------------------------------------------------------------------
(* release package                                                         *)

PackageRelease(c) ==
    /\ Valid(migrations) /\ archive = None
    /\ Begin(c, [NoRun EXCEPT !.stage = "stage"])
    /\ UNCHANGED tree

\* The migrations are listed, when the other files have been copied.
Stage(c, ok) ==
    /\ At(c, "stage")
    /\ IF ok THEN run' = [run EXCEPT ![c].stage = "copy", ![c].picked = migrations] ELSE End(c)
    /\ UNCHANGED <<tree, made, spoiled>>

\* They are copied, and the server is built.
Copy(c, ok) ==
    /\ At(c, "copy")
    /\ IF ok /\ run[c].picked \subseteq migrations THEN To(c, "create") ELSE End(c)
    /\ UNCHANGED <<tree, made, spoiled>>

CreateArchive(c, ok) ==
    /\ At(c, "create")
    /\ IF ~ok \/ archive # None THEN End(c) /\ UNCHANGED archive
       ELSE archive' = [complete |-> FALSE, migrations |-> {}] /\ To(c, "fill")
    /\ UNCHANGED <<files, dirs, migrations, made, spoiled>>

\* The archive is written, or removed if it can be.
FillArchive(c, ok, removed) ==
    /\ At(c, "fill")
    /\ archive' = IF ok THEN [complete |-> TRUE, migrations |-> run[c].picked]
                  ELSE IF removed THEN None ELSE archive
    /\ made' = IF ok THEN [made EXCEPT !.archive = TRUE] ELSE made
    /\ spoiled' = IF ok \/ removed THEN spoiled ELSE [spoiled EXCEPT !.archive = TRUE]
    /\ End(c)
    /\ UNCHANGED <<files, dirs, migrations>>

-----------------------------------------------------------------------------

Kill(c) ==
    LET q == run[c] IN
    /\ q.stage # "idle"
    /\ spoiled' = [spoiled EXCEPT
         !.dirs = IF q.stage \in {"write", "replace", "undo"} THEN @ \cup {q.entry.domain} ELSE @,
         !.migrations = IF q.stage = "down" THEN @ \cup {New(c, "up")} ELSE @,
         !.project = @ \/ q.stage = "restore" \/ (q.stage = "apply" /\ q.done # {}),
         !.archive = @ \/ q.stage = "fill"]
    /\ End(c)
    /\ UNCHANGED <<tree, starts, raced, made>>

\* The modules that a list of imports registers.
Entries(imports) == {Registered(imports[i]) : i \in DOMAIN imports}

Init ==
    /\ files = [p \in Paths |-> [id |-> OldId,
                              imports |-> IF p = ModulesGo THEN Installed ELSE <<>>]]
    /\ dirs = [d \in Domains |->
         IF \E e \in Entries(Installed) : e.domain = d
         THEN [files |-> Generated,
               realm |-> (CHOOSE e \in Entries(Installed) : e.domain = d).realm]
         ELSE None]
    /\ migrations \in {[version : {v}, name : {First}, direction : {"up", "down"}] :
                         v \in {1, MaxVersion}}
    /\ archive = None
    /\ run = [c \in Commands |-> NoRun]
    /\ starts = 0 /\ raced = FALSE
    /\ made = [modules |-> {}, migrations |-> migrations, archive |-> FALSE]
    /\ spoiled = [dirs |-> {}, migrations |-> {}, project |-> FALSE, archive |-> FALSE]

Next == \E c \in Commands :
    \/ \E e \in Entry : NewModule(c, e)
    \/ \E n \in Names : NewMigration(c, n)
    \/ \E id \in Ids : InitProject(c, id)
    \/ PackageRelease(c)
    \/ ReadModules(c) \/ ScanFile(c) \/ Finish(c) \/ Kill(c)
    \/ \E ok \in BOOLEAN :
         \/ MakeDir(c, ok) \/ WriteFile(c, ok) \/ ReplaceModules(c, ok) \/ UndoModule(c, ok)
         \/ WriteUp(c, ok) \/ ApplyFile(c, ok) \/ RestoreFile(c, ok)
         \/ Stage(c, ok) \/ Copy(c, ok) \/ CreateArchive(c, ok)
         \/ \E removed \in BOOLEAN : WriteDown(c, ok, removed) \/ FillArchive(c, ok, removed)

Spec == Init /\ [][Next]_vars

-----------------------------------------------------------------------------
(* Properties                                                              *)

Routes == files[ModulesGo].imports
Quiet == \A c \in Commands : run[c].stage = "idle"

\* Every variable stays within the values the code can give it.
TypeOK ==
    /\ files \in [Paths -> Content]
    /\ dirs \in [Domains -> Dir \cup {None}]
    /\ migrations \subseteq Migration
    /\ archive \in Archive \cup {None}
    /\ run \in [Commands -> Run]
    /\ starts \in Nat /\ raced \in BOOLEAN
    /\ made \in [modules : SUBSET Entry, migrations : SUBSET Migration, archive : BOOLEAN]
    /\ spoiled \in [dirs : SUBSET Domains, migrations : SUBSET Migration,
                    project : BOOLEAN, archive : BOOLEAN]

NoDirLeft ==
    \A d \in Domains : dirs[d] # None =>
        \/ d \in {e.domain : e \in made.modules \cup Entries(Installed)} \cup spoiled.dirs
        \/ \E c \in Commands : run[c].stage \in {"write", "replace", "undo"} /\ run[c].entry.domain = d

NoMigrationLeft ==
    \A m \in migrations :
        \/ m \in made.migrations \cup spoiled.migrations
        \/ \E c \in Commands : run[c].stage = "down" /\ m = New(c, "up")

NoArchiveLeft ==
    archive # None =>
        \/ archive.complete \/ spoiled.archive
        \/ \E c \in Commands : run[c].stage = "fill"

\* A command that fails leaves nothing behind: what is in the tree was there, was
\* reported, belongs to a command that runs, or was left by a kill or by a removal
\* that failed (module.go:339-351, migration.go:56-59, release.go:228-235).
NothingLeftBehind == NoDirLeft /\ NoMigrationLeft /\ NoArchiveLeft

\* "不覆盖文件" (docs/persistence.md:176): whatever commands race, fail or are
\* killed, the files that one has reported no other takes away: a module's directory,
\* a migration's two files, an archive.  A module that modules.go registers, once
\* only, is there in full and takes the realm that it is given; the registration
\* itself can be lost, which this does not say (module.go:332-357,
\* migration.go:159-174, release.go:224).
ReportedStays ==
    /\ made.migrations \subseteq migrations
    /\ \A e \in made.modules \cup Entries(Routes) :
         dirs[e.domain] = [files |-> Generated, realm |-> e.realm]
    /\ \A i, j \in DOMAIN Routes : Routes[i].domain = Routes[j].domain => i = j
    /\ made.archive => archive # None /\ archive.complete

\* Commands that do not overlap and are not killed keep the tree consistent,
\* however they fail: all files name one project, every module that was reported
\* is registered, in order, and the migrations pass their check until six digits
\* no longer suffice (project.go:205-217, module.go:289-316, migration.go:95-157).
AloneIsConsistent ==
    ~raced /\ Quiet =>
        /\ ~spoiled.project => \A p \in Paths :
             /\ files[p].id = files[GoMod].id
             /\ \A i \in DOMAIN files[p].imports : files[p].imports[i].id = files[GoMod].id
        /\ made.modules \subseteq Entries(Routes)
        /\ ~spoiled.project => \A i, j \in DOMAIN Routes :
             i < j => Routes[i].domain < Routes[j].domain
        /\ spoiled.migrations = {} => Valid(migrations) \/ Latest(migrations) > MaxVersion
        /\ made.archive => Valid(archive.migrations)
=============================================================================
