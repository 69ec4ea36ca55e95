------------------------- MODULE WorkingTreeProofs -------------------------
(***************************************************************************)
(* Proofs about WorkingTree.  The commands touch three parts of the tree,  *)
(* each with its own part of the invariant, and a step of one command      *)
(* leaves what the others carry as it was.                                 *)
(***************************************************************************)
EXTENDS WorkingTree, WellFoundedInduction, SequenceTheorems, TLAPS

-----------------------------------------------------------------------------
(* The inductive invariant                                                 *)

\* The stages at which a module's directory is its command's own.
Making == {"write", "replace", "undo"}

\* The module is there in full, and no command is still making it.
Known(e) ==
    /\ dirs[e.domain] = [files |-> Generated, realm |-> e.realm]
    /\ \A c \in Commands : run[c].stage \in Making => run[c].entry.domain # e.domain

\* Every list of imports that is or may yet be written to modules.go.
Sound(imports) ==
    /\ \A i \in DOMAIN imports : Known(imports[i])
    /\ \A i, j \in DOMAIN imports : imports[i].domain = imports[j].domain => i = j

\* A module's command: its directory is nobody else's.
MakesModule(c) ==
    LET q == run[c] IN
    /\ q.stage \in {"read", "mkdir"} \cup Making => q.entry # None
    /\ q.stage \in {"mkdir"} \cup Making => q.source # None /\ Sound(q.source.imports)
    /\ q.stage \in Making =>
         /\ dirs[q.entry.domain] # None
         /\ dirs[q.entry.domain].realm = q.entry.realm
         /\ \A d \in Commands \ {c} :
              run[d].stage \in Making => run[d].entry.domain # q.entry.domain
    /\ q.stage = "write" => dirs[q.entry.domain].files < Generated
    /\ q.stage = "replace" => dirs[q.entry.domain].files = Generated

\* A migration's command: the first file is there, not yet reported, and its own.
MakesMigration(c) ==
    /\ run[c].stage \in {"up", "down"} => run[c].name # None
    /\ run[c].stage = "down" =>
         /\ New(c, "up") \in migrations \ made.migrations
         /\ \A d \in Commands \ {c} : run[d].stage = "down" => New(d, "up") # New(c, "up")

\* A renaming has the texts that it read, and something to do.
Renames(c) ==
    LET q == run[c] IN
    /\ q.stage \in {"scan", "apply", "restore"} =>
         q.texts # None /\ q.id # None /\ Sound(q.texts[ModulesGo].imports)
    /\ q.stage \in {"scan", "apply"} => q.todo # {}

\* An archive that is not yet whole is one command's.
Packages(c) ==
    run[c].stage = "fill" =>
        /\ archive # None /\ ~archive.complete
        /\ \A d \in Commands \ {c} : run[d].stage # "fill"

ModulesOK ==
    /\ \A e \in made.modules : Known(e)
    /\ Sound(Routes)
    /\ \A c \in Commands : MakesModule(c) /\ Renames(c)
    /\ NoDirLeft

MigrationsOK ==
    /\ made.migrations \subseteq migrations
    /\ \A c \in Commands : MakesMigration(c)
    /\ NoMigrationLeft

ArchiveOK ==
    /\ made.archive => archive # None /\ archive.complete
    /\ \A c \in Commands : Packages(c)
    /\ NoArchiveLeft

IInv == TypeOK /\ ModulesOK /\ MigrationsOK /\ ArchiveOK

-----------------------------------------------------------------------------
(* What holds besides as long as commands do not overlap                   *)

\* The text names one project.
OneProject(text, id) == text.id = id /\ \A i \in DOMAIN text.imports : text.imports[i].id = id

Ordered(imports) == \A i, j \in DOMAIN imports : i < j => imports[i].domain < imports[j].domain

\* A module's command: the project and modules.go are still what it has read.
ModuleAlone(c) ==
    LET q == run[c] IN
    /\ q.stage \in {"read", "mkdir"} \cup Making => q.entry.id = files[GoMod].id
    /\ q.stage \in {"mkdir"} \cup Making => q.source = files[ModulesGo]

\* A renaming's reading: the files are what they were when it began, and each that
\* was read is to be changed.
ScanAlone(q) ==
    /\ q.texts = files /\ q.todo # {}
    /\ ~spoiled.project =>
         q.old = {files[GoMod].id} /\ q.id \notin q.old /\ Paths = q.done \cup q.todo

\* A renaming's files: the changed ones have the new name, and the others their
\* text.  They are changed in order, and restored before any other is.
RenameAlone(c) ==
    LET q == run[c] IN
    /\ q.stage = "scan" => ScanAlone(q)
    /\ q.stage \in {"apply", "restore"} =>
        /\ made.modules \subseteq Entries(q.texts[ModulesGo].imports)
        /\ q.todo # {} /\ \A p \in q.done, r \in q.todo : p < r
        /\ q.stage = "restore" => q.done # {}
        /\ ~spoiled.project =>
             /\ \A p \in Paths : OneProject(q.texts[p], q.texts[GoMod].id)
             /\ q.old = {q.texts[GoMod].id}
             /\ Ordered(q.texts[ModulesGo].imports)
             /\ files = [p \in Paths |-> IF p \in q.done THEN Renamed(q.texts[p], q.old, q.id)
                                         ELSE q.texts[p]]
             /\ q.stage = "apply" => Paths = q.done \cup q.todo

\* A migration's command: without its first file the migrations pass their check,
\* and its version is the next.
MigrationAlone(c) ==
    /\ run[c].stage = "up" => Valid(migrations) /\ run[c].version = Latest(migrations) + 1
    /\ run[c].stage = "down" =>
         LET before == migrations \ {New(c, "up")} IN
         Valid(before) /\ run[c].version = Latest(before) + 1

\* A release's command packages migrations that pass their check.
PackageAlone(c) ==
    /\ run[c].stage = "stage" => Valid(migrations)
    /\ run[c].stage \in {"copy", "create", "fill"} => Valid(run[c].picked)

\* The project, when no renaming is halfway; what was reported is registered even
\* when one is.
ProjectAlone ==
    /\ ~spoiled.project =>
         /\ (\A c \in Commands : run[c].stage \notin {"apply", "restore"}) =>
              \A p \in Paths : OneProject(files[p], files[GoMod].id)
         /\ Ordered(Routes)
    /\ made.modules \subseteq Entries(Routes)

\* The migrations, when no command is between its two files.
MigrationsAlone ==
    spoiled.migrations = {} /\ (\A c \in Commands : run[c].stage # "down") =>
        Valid(migrations) \/ Latest(migrations) > MaxVersion

ArchiveAlone == made.archive => Valid(archive.migrations)

Alone ==
    /\ \A c, d \in Commands : run[c].stage # "idle" /\ run[d].stage # "idle" => c = d
    /\ \A c \in Commands :
         ModuleAlone(c) /\ RenameAlone(c) /\ MigrationAlone(c) /\ PackageAlone(c)
    /\ ProjectAlone /\ MigrationsAlone /\ ArchiveAlone

AInv == IInv /\ (~raced => Alone)

-----------------------------------------------------------------------------
(* Operators                                                               *)

\* Numbers have a least one in every set of them.
LEMMA LeastIn ==
  ASSUME NEW S, S \subseteq Nat, S # {}
  PROVE  Least(S) \in S /\ \A x \in S : Least(S) <= x
<1> DEFINE R == OpToRel(<, Nat)
<1>1. IsWellFoundedOn(R, Nat)
  BY NatLessThanWellFounded
<1>2. \E x \in S : \A y \in S : ~ (<<y, x>> \in R)
  <2> HIDE DEF R
  <2> QED BY <1>1, WFMin
<1>3. \A x, y \in Nat : <<y, x>> \notin R => x <= y
  BY DEF OpToRel
<1>4. \E x \in S : \A y \in S : x <= y
  <2> HIDE DEF R
  <2> QED BY <1>2, <1>3
<1> QED BY <1>4, Zenon DEF Least

\* A set of numbers with a bound has a greatest one.
LEMMA GreatestIn ==
  ASSUME NEW S, NEW bound \in Nat, S \subseteq 0 .. bound, S # {}
  PROVE  Greatest(S) \in S /\ \A x \in S : Greatest(S) >= x
<1> DEFINE T == {bound - x : x \in S}
<1>1. T \subseteq Nat /\ T # {}
  <2>1. \A x \in S : x \in Int /\ x <= bound /\ bound - x \in Nat
    OBVIOUS
  <2>2. PICK x \in S : TRUE
    OBVIOUS
  <2> QED BY <2>1, <2>2
<1>2. PICK z \in T : \A y \in T : z <= y
  <2> HIDE DEF T
  <2> QED BY <1>1, LeastIn
<1>3. PICK x \in S : z = bound - x
  BY <1>2
<1>4. \A y \in S : x >= y
  BY <1>2, <1>3
<1> QED BY <1>3, <1>4, Zenon DEF Greatest

\* Imports of different domains.
Distinct(imports) ==
  \A i, j \in DOMAIN imports : imports[i].domain = imports[j].domain => i = j

\* An import put between two others.
LEMMA Between ==
  ASSUME NEW s \in Seq(Import), NEW e \in Import, NEW i \in 1 .. Len(s)
  PROVE  LET t == SubSeq(s, 1, i - 1) \o <<e>> \o SubSeq(s, i, Len(s)) IN
         /\ t \in Seq(Import)
         /\ Len(t) = Len(s) + 1
         /\ \A k \in 1 .. Len(s) + 1 :
              t[k] = IF k < i THEN s[k] ELSE IF k = i THEN e ELSE s[k - 1]
<1> DEFINE a == SubSeq(s, 1, i - 1)
           b == SubSeq(s, i, Len(s))
<1>0. Len(s) \in Nat /\ i \in Nat /\ i >= 1 /\ i <= Len(s)
  BY LenProperties
<1>1. \A k \in 1 .. Len(s) : s[k] \in Import
  BY ElementOfSeq
<1>2. /\ a \in Seq(Import) /\ Len(a) = i - 1
      /\ \A k \in 1 .. i - 1 : a[k] = s[k]
  <2>1. 1 \in Int /\ i - 1 \in Int /\ \A k \in 1 .. i - 1 : s[k] \in Import
    BY <1>0, <1>1
  <2>2. /\ a \in Seq(Import) /\ Len(a) = IF 1 <= i - 1 THEN i - 1 - 1 + 1 ELSE 0
        /\ \A k \in 1 .. i - 1 - 1 + 1 : a[k] = s[1 + k - 1]
    BY <2>1, SubSeqProperties
  <2> HIDE DEF a
  <2> QED BY <2>2, <1>0
<1>3. /\ b \in Seq(Import) /\ Len(b) = Len(s) - i + 1
      /\ \A k \in 1 .. Len(s) - i + 1 : b[k] = s[i + k - 1]
  <2>1. i \in Int /\ Len(s) \in Int /\ \A k \in i .. Len(s) : s[k] \in Import
    BY <1>0, <1>1
  <2>2. /\ b \in Seq(Import) /\ Len(b) = IF i <= Len(s) THEN Len(s) - i + 1 ELSE 0
        /\ \A k \in 1 .. Len(s) - i + 1 : b[k] = s[i + k - 1]
    BY <2>1, SubSeqProperties
  <2> HIDE DEF b
  <2> QED BY <2>2, <1>0
<1>4. <<e>> \in Seq(Import) /\ Len(<<e>>) = 1 /\ <<e>>[1] = e
  OBVIOUS
<1> DEFINE ae == a \o <<e>>
<1>5. /\ ae \in Seq(Import) /\ Len(ae) = i
      /\ \A k \in 1 .. i : ae[k] = IF k < i THEN s[k] ELSE e
  <2> HIDE DEF a
  <2>1. /\ ae \in Seq(Import) /\ Len(ae) = Len(a) + 1
        /\ \A k \in 1 .. Len(a) + 1 :
             ae[k] = IF k <= Len(a) THEN a[k] ELSE <<e>>[k - Len(a)]
    BY <1>2, <1>4, ConcatProperties
  <2> HIDE DEF ae
  <2>2. Len(ae) = i
    BY <2>1, <1>2, <1>0
  <2>3. ASSUME NEW k \in 1 .. i PROVE ae[k] = IF k < i THEN s[k] ELSE e
    <3>1. CASE k < i
      BY <3>1, <2>1, <1>2, <1>0
    <3>2. CASE k = i
      <4>1. ae[k] = <<e>>[1]
        BY <3>2, <2>1, <1>2, <1>0
      <4> QED BY <4>1, <1>4, <3>2, <1>0
    <3> QED BY <3>1, <3>2, <1>0
  <2> QED BY <2>1, <2>2, <2>3
<1> DEFINE t == ae \o b
<1>6. /\ t \in Seq(Import) /\ Len(t) = Len(s) + 1
      /\ \A k \in 1 .. Len(s) + 1 :
           t[k] = IF k < i THEN s[k] ELSE IF k = i THEN e ELSE s[k - 1]
  <2> HIDE DEF ae, b
  <2>1. /\ t \in Seq(Import) /\ Len(t) = Len(ae) + Len(b)
        /\ \A k \in 1 .. Len(ae) + Len(b) :
             t[k] = IF k <= Len(ae) THEN ae[k] ELSE b[k - Len(ae)]
    BY <1>5, <1>3, ConcatProperties
  <2> HIDE DEF t
  <2>2. Len(t) = Len(s) + 1
    BY <2>1, <1>5, <1>3, <1>0
  <2>3. ASSUME NEW k \in 1 .. Len(s) + 1
        PROVE  t[k] = IF k < i THEN s[k] ELSE IF k = i THEN e ELSE s[k - 1]
    <3>1. CASE k <= i
      BY <3>1, <2>1, <1>5, <1>3, <1>0
    <3>2. CASE k > i
      <4>1. t[k] = b[k - i]
        BY <3>2, <2>1, <1>5, <1>3, <1>0
      <4>2. k - i \in 1 .. Len(s) - i + 1
        BY <3>2, <1>0
      <4>3. b[k - i] = s[i + (k - i) - 1]
        BY <4>2, <1>3
      <4>4. i + (k - i) - 1 = k - 1
        BY <1>0
      <4> QED BY <4>1, <4>3, <4>4, <3>2, <1>0
    <3> QED BY <3>1, <3>2, <1>0
  <2> QED BY <2>1, <2>2, <2>3
<1> QED BY <1>6

\* Insert adds the import to the others, loses none and keeps domains distinct.
LEMMA InsertProperties ==
  ASSUME NEW s \in Seq(Import), NEW e \in Import
  PROVE  /\ Insert(s, e) \in Seq(Import)
         /\ \A k \in DOMAIN Insert(s, e) :
              Insert(s, e)[k] = e \/ \E j \in DOMAIN s : Insert(s, e)[k] = s[j]
         /\ \A j \in DOMAIN s : \E k \in DOMAIN Insert(s, e) : Insert(s, e)[k] = s[j]
         /\ \E k \in DOMAIN Insert(s, e) : Insert(s, e)[k] = e
         /\ Distinct(s) /\ (\A j \in DOMAIN s : s[j].domain # e.domain) => Distinct(Insert(s, e))
<1>0. Len(s) \in Nat /\ DOMAIN s = 1 .. Len(s)
  BY LenProperties
<1> DEFINE greater == {i \in DOMAIN s : s[i].id = e.id /\ s[i].domain > e.domain}
<1>1. CASE greater = {}
  <2> DEFINE t == Append(s, e)
  <2>1. /\ t \in Seq(Import) /\ Len(t) = Len(s) + 1
        /\ \A k \in 1 .. Len(s) : t[k] = s[k]
        /\ t[Len(s) + 1] = e
    BY AppendProperties
  <2>2. DOMAIN t = 1 .. Len(s) + 1
    BY <2>1, LenProperties
  <2>3. Insert(s, e) = t
    BY <1>1 DEF Insert
  <2> HIDE DEF t
  <2>4. /\ \A k \in DOMAIN t : k \in DOMAIN s \/ k = Len(s) + 1
        /\ DOMAIN s \subseteq DOMAIN t /\ Len(s) + 1 \in DOMAIN t
    BY <2>2, <1>0
  <2> QED BY SMTT(30), <2>1, <2>2, <2>3, <2>4, <1>0 DEF Distinct
<1>2. CASE greater # {}
  <2> DEFINE i == Least(greater)
             t == SubSeq(s, 1, i - 1) \o <<e>> \o SubSeq(s, i, Len(s))
  <2>1. i \in greater
    <3>1. greater \subseteq Nat
      BY <1>0
    <3> QED BY <3>1, <1>2, LeastIn
  <2>2. i \in 1 .. Len(s)
    BY <2>1, <1>0
  <2>3. Insert(s, e) = t
    BY <1>2, Zenon DEF Insert
  <2> HIDE DEF i
  <2>4. /\ t \in Seq(Import)
        /\ Len(t) = Len(s) + 1
        /\ \A k \in 1 .. Len(s) + 1 :
             t[k] = IF k < i THEN s[k] ELSE IF k = i THEN e ELSE s[k - 1]
    BY <2>2, Between
  <2> HIDE DEF t
  <2>5. DOMAIN t = 1 .. Len(s) + 1
    BY <2>4, LenProperties
  <2>6. ASSUME NEW k \in DOMAIN t
        PROVE  \/ k < i /\ k \in DOMAIN s /\ t[k] = s[k]
               \/ k = i /\ t[k] = e
               \/ k > i /\ k - 1 \in DOMAIN s /\ t[k] = s[k - 1]
    BY <2>2, <2>4, <2>5, <2>6, <1>0
  <2>8. /\ \A j \in DOMAIN s : \E k \in DOMAIN t : t[k] = s[j]
        /\ i \in DOMAIN t /\ t[i] = e
    <3>1. ASSUME NEW j \in DOMAIN s PROVE \E k \in DOMAIN t : t[k] = s[j]
      <4>1. CASE j < i
        BY <4>1, <2>2, <2>4, <2>5, <1>0
      <4>2. CASE j >= i
        <5>1. /\ j + 1 \in 1 .. Len(s) + 1 /\ (j + 1) - 1 = j
              /\ ~(j + 1 < i) /\ j + 1 # i
          BY <4>2, <2>2, <1>0
        <5>2. t[j + 1] = s[j]
          BY <5>1, <2>4
        <5> QED BY <5>1, <5>2, <2>5
      <4> QED BY <4>1, <4>2, <2>2, <1>0
    <3>2. i \in 1 .. Len(s) + 1
      BY <2>2, <1>0
    <3>3. t[i] = e
      BY <3>2, <2>4
    <3> QED BY <3>1, <3>2, <3>3, <2>5
  <2>7. ASSUME Distinct(s), \A j \in DOMAIN s : s[j].domain # e.domain
        PROVE  Distinct(t)
    <3> SUFFICES ASSUME NEW k \in DOMAIN t, NEW l \in DOMAIN t, t[k].domain = t[l].domain
                 PROVE  k = l
      BY DEF Distinct
    <3>1. k \in Int /\ l \in Int /\ i \in Int
      BY <2>5, <2>2, <1>0
    <3> QED BY <3>1, <2>6, <2>7 DEF Distinct
  <2> QED BY <2>3, <2>4, <2>6, <2>7, <2>8
<1> QED BY <1>1, <1>2

\* A renaming changes the project of the imports, and nothing else of them.
LEMMA RenamedProperties ==
  ASSUME NEW text \in Content, NEW old \in SUBSET Ids, NEW id \in Ids
  PROVE  LET new == Renamed(text, old, id) IN
         /\ new \in Content
         /\ DOMAIN new.imports = DOMAIN text.imports
         /\ \A i \in DOMAIN text.imports :
              /\ new.imports[i].domain = text.imports[i].domain
              /\ new.imports[i].realm = text.imports[i].realm
<1> DEFINE new == Renamed(text, old, id)
           s == text.imports
           f == [i \in DOMAIN s |->
                   [s[i] EXCEPT !.id = IF s[i].id \in old THEN id ELSE s[i].id]]
<1>1. s \in Seq(Import) /\ text.id \in Ids
  BY DEF Content
<1>2. Len(s) \in Nat /\ DOMAIN s = 1 .. Len(s) /\ \A i \in DOMAIN s : s[i] \in Import
  BY <1>1, LenProperties, ElementOfSeq
<1>3. new.imports = f /\ new.id \in Ids /\ new = [id |-> new.id, imports |-> f]
  BY <1>1 DEF Renamed
<1>4. \A i \in DOMAIN s : f[i] \in Import /\ f[i].domain = s[i].domain /\ f[i].realm = s[i].realm
  BY <1>2 DEF Import
<1>5. f \in Seq(Import)
  <2>1. f \in [1 .. Len(s) -> Import]
    BY <1>2, <1>4
  <2> HIDE DEF f
  <2> QED BY <2>1, <1>2
<1>6. DOMAIN f = DOMAIN s
  OBVIOUS
<1> HIDE DEF f, new
<1> QED BY <1>3, <1>4, <1>5, <1>6 DEF Content, new

\* Insert loses none of the imports: it registers what they do and the new one.
LEMMA InsertEntries ==
  ASSUME NEW s \in Seq(Import), NEW e \in Import
  PROVE  Entries(Insert(s, e)) = Entries(s) \cup {Registered(e)}
<1> DEFINE t == Insert(s, e)
<1>1. /\ \A k \in DOMAIN t : t[k] = e \/ \E j \in DOMAIN s : t[k] = s[j]
      /\ \A j \in DOMAIN s : \E k \in DOMAIN t : t[k] = s[j]
      /\ \E k \in DOMAIN t : t[k] = e
  BY InsertProperties
<1> HIDE DEF t
<1>2. Entries(t) \subseteq Entries(s) \cup {Registered(e)}
  BY <1>1 DEF Entries
<1>3. Entries(s) \subseteq Entries(t)
  BY <1>1 DEF Entries
<1>4. Registered(e) \in Entries(t)
  BY <1>1 DEF Entries
<1> QED BY <1>2, <1>3, <1>4 DEF t

\* A renaming registers the modules that were registered.
LEMMA RenamedEntries ==
  ASSUME NEW text \in Content, NEW old \in SUBSET Ids, NEW id \in Ids
  PROVE  Entries(Renamed(text, old, id).imports) = Entries(text.imports)
<1> DEFINE s == text.imports
           t == Renamed(text, old, id).imports
<1>1. /\ DOMAIN t = DOMAIN s
      /\ \A i \in DOMAIN s : t[i].domain = s[i].domain /\ t[i].realm = s[i].realm
  BY RenamedProperties
<1> HIDE DEF s, t
<1>2. \A i \in DOMAIN s : Registered(t[i]) = Registered(s[i])
  BY <1>1 DEF Registered
<1>3. Entries(t) = Entries(s)
  BY <1>1, <1>2 DEF Entries
<1> QED BY <1>3 DEF s, t

\* A text that names one project names the new one when it has been renamed, and
\* is changed unless the new one is the old one.
LEMMA RenamedOneProject ==
  ASSUME NEW text \in Content, NEW t \in Ids, NEW id \in Ids, OneProject(text, t)
  PROVE  LET new == Renamed(text, {t}, id) IN
         OneProject(new, id) /\ (new = text <=> id = t)
<1> DEFINE s == text.imports
           new == Renamed(text, {t}, id)
           f == [i \in DOMAIN s |-> [s[i] EXCEPT !.id = IF s[i].id \in {t} THEN id ELSE s[i].id]]
<1>0. s \in Seq(Import) /\ text = [id |-> text.id, imports |-> s] /\ text.id = t
  BY DEF Content, OneProject
<1>1. \A i \in DOMAIN s : s[i] \in Import /\ s[i].id = t
  BY <1>0, LenProperties, ElementOfSeq DEF OneProject
<1>2. new = [id |-> id, imports |-> f]
  BY <1>0 DEF Renamed
<1>3. \A i \in DOMAIN s : f[i].id = id /\ (id = t => f[i] = s[i])
  BY <1>1 DEF Import
<1>4. DOMAIN f = DOMAIN s /\ f = [i \in DOMAIN s |-> f[i]] /\ s = [i \in DOMAIN s |-> s[i]]
  BY <1>0
<1> HIDE DEF f, new, s
<1>5. OneProject(new, id)
  BY <1>2, <1>3, <1>4 DEF OneProject
<1>6. ASSUME id = t PROVE new = text
  <2>1. f = s
    BY <1>3, <1>4, <1>6
  <2> QED BY <2>1, <1>0, <1>2, <1>6
<1>7. ASSUME new = text PROVE id = t
  BY <1>0, <1>2, <1>7
<1> QED BY <1>5, <1>6, <1>7 DEF new

\* Among the imports of one project, Insert keeps the order.
LEMMA InsertOrdered ==
  ASSUME NEW s \in Seq(Import), NEW e \in Import, Ordered(s),
         \A j \in DOMAIN s : s[j].id = e.id /\ s[j].domain # e.domain
  PROVE  Ordered(Insert(s, e)) /\ \A k \in DOMAIN Insert(s, e) : Insert(s, e)[k].id = e.id
<1>0. /\ Len(s) \in Nat /\ DOMAIN s = 1 .. Len(s)
      /\ e.domain \in Nat /\ \A j \in DOMAIN s : s[j] \in Import /\ s[j].domain \in Nat
  <2>1. Len(s) \in Nat /\ DOMAIN s = 1 .. Len(s) /\ \A j \in DOMAIN s : s[j] \in Import
    BY LenProperties, ElementOfSeq
  <2>2. \A i \in Import : i.domain \in Nat
    BY TreeAssumption DEF Import, TreeAssumption
  <2> QED BY <2>1, <2>2
<1> DEFINE greater == {i \in DOMAIN s : s[i].id = e.id /\ s[i].domain > e.domain}
<1>1. ASSUME NEW k \in DOMAIN Insert(s, e) PROVE Insert(s, e)[k].id = e.id
  <2>1. Insert(s, e)[k] = e \/ \E j \in DOMAIN s : Insert(s, e)[k] = s[j]
    BY InsertProperties
  <2>2. \A j \in DOMAIN s : s[j].id = e.id
    OBVIOUS
  <2> QED BY <2>1, <2>2
<1>2. CASE greater = {}
  <2> DEFINE t == Append(s, e)
  <2>1. /\ t \in Seq(Import) /\ Len(t) = Len(s) + 1
        /\ \A k \in 1 .. Len(s) : t[k] = s[k]
        /\ t[Len(s) + 1] = e
    BY AppendProperties
  <2>2. DOMAIN t = 1 .. Len(s) + 1
    BY <2>1, LenProperties
  <2>3. Insert(s, e) = t
    BY <1>2 DEF Insert
  <2>4. \A j \in DOMAIN s : s[j].domain < e.domain
    BY <1>0, <1>2
  <2> HIDE DEF t, greater
  <2>5. Ordered(t)
    <3> SUFFICES ASSUME NEW i \in DOMAIN t, NEW j \in DOMAIN t, i < j
                 PROVE  t[i].domain < t[j].domain
      BY DEF Ordered
    <3>0. i \in 1 .. Len(s) + 1 /\ j \in 1 .. Len(s) + 1 /\ Len(s) \in Nat
      BY <2>2, <1>0
    <3>1. i \in 1 .. Len(s) /\ t[i] = s[i]
      BY <3>0, <2>1
    <3>2. CASE j = Len(s) + 1
      <4>1. t[j] = e /\ s[i].domain < e.domain
        BY <3>1, <3>2, <2>1, <2>4, <1>0
      <4> QED BY <4>1, <3>1
    <3>3. CASE j \in 1 .. Len(s)
      BY <3>1, <3>3, <2>1, <1>0 DEF Ordered
    <3> QED BY <3>0, <3>2, <3>3
  <2> QED BY <1>1, <2>3, <2>5
<1>3. CASE greater # {}
  <2> DEFINE m == Least(greater)
             t == SubSeq(s, 1, m - 1) \o <<e>> \o SubSeq(s, m, Len(s))
  <2>1. m \in greater /\ \A x \in greater : m <= x
    <3>1. greater \subseteq Nat
      BY <1>0
    <3> QED BY <3>1, <1>3, LeastIn
  <2>2. m \in 1 .. Len(s) /\ s[m].domain > e.domain
    BY <2>1, <1>0
  <2>3. Insert(s, e) = t
    BY <1>3, Zenon DEF Insert
  <2>a. \A j \in DOMAIN s : j < m => s[j].domain < e.domain
    <3> SUFFICES ASSUME NEW j \in DOMAIN s, j < m PROVE s[j].domain < e.domain
      OBVIOUS
    <3>1. j \notin greater
      <4>1. j \in Nat /\ m \in Nat
        BY <1>0, <2>2
      <4> HIDE DEF m, greater
      <4> QED BY <4>1, <2>1
    <3> HIDE DEF m
    <3> QED BY <3>1, <1>0
  <2>b. \A j \in DOMAIN s : m <= j => e.domain < s[j].domain
    <3> HIDE DEF m, greater
    <3> SUFFICES ASSUME NEW j \in DOMAIN s, m <= j PROVE e.domain < s[j].domain
      OBVIOUS
    <3>1. CASE j = m
      BY <3>1, <2>2, <1>0
    <3>2. CASE m < j
      <4>1. s[m].domain < s[j].domain
        BY <3>2, <2>2, <1>0 DEF Ordered
      <4> QED BY <4>1, <2>2, <1>0
    <3> QED BY <3>1, <3>2, <1>0, <2>2
  <2> HIDE DEF m, greater
  <2>4. /\ t \in Seq(Import)
        /\ Len(t) = Len(s) + 1
        /\ \A k \in 1 .. Len(s) + 1 :
             t[k] = IF k < m THEN s[k] ELSE IF k = m THEN e ELSE s[k - 1]
    BY <2>2, Between
  <2> HIDE DEF t
  <2>5. DOMAIN t = 1 .. Len(s) + 1
    BY <2>4, LenProperties
  <2>6. ASSUME NEW k \in DOMAIN t
        PROVE  \/ k < m /\ k \in DOMAIN s /\ t[k] = s[k]
               \/ k = m /\ t[k] = e
               \/ k > m /\ k - 1 \in DOMAIN s /\ t[k] = s[k - 1]
    BY <2>2, <2>4, <2>5, <2>6, <1>0
  <2>7. Ordered(t)
    <3> SUFFICES ASSUME NEW i \in DOMAIN t, NEW j \in DOMAIN t, i < j
                 PROVE  t[i].domain < t[j].domain
      BY DEF Ordered
    <3>0. i \in Int /\ j \in Int /\ m \in Int
      BY <2>5, <2>2, <1>0
    <3>1. CASE j < m
      BY <3>0, <3>1, <2>6 DEF Ordered
    <3>2. CASE j = m
      BY <3>0, <3>2, <2>6, <2>a
    <3>3. CASE j > m /\ i < m
      <4>1. t[i] = s[i] /\ i \in DOMAIN s /\ t[j] = s[j - 1] /\ j - 1 \in DOMAIN s
        BY <3>0, <3>3, <2>6
      <4>2. s[i].domain < e.domain /\ e.domain < s[j - 1].domain
        BY <4>1, <3>0, <3>3, <2>a, <2>b
      <4> QED BY <4>1, <4>2, <1>0
    <3>4. CASE j > m /\ i = m
      BY <3>0, <3>4, <2>6, <2>b
    <3>5. CASE i > m
      <4>1. t[i] = s[i - 1] /\ i - 1 \in DOMAIN s /\ t[j] = s[j - 1] /\ j - 1 \in DOMAIN s
        BY <3>0, <3>5, <2>6
      <4>2. i - 1 < j - 1
        BY <3>0
      <4> QED BY <4>1, <4>2 DEF Ordered
    <3> QED BY <3>0, <3>1, <3>2, <3>3, <3>4, <3>5
  <2> QED BY <1>1, <2>3, <2>7
<1> QED BY <1>2, <1>3

\* The latest version of migrations that pass their check.
LEMMA LatestOfValid ==
  ASSUME NEW ms, Valid(ms)
  PROVE  /\ Latest(ms) \in 0 .. MaxVersion
         /\ \A m \in ms : m.version <= Latest(ms)
<1> DEFINE S == {m.version : m \in ms}
<1>1. CASE ms = {}
  BY <1>1, TreeAssumption DEF Latest, TreeAssumption
<1>2. CASE ms # {}
  <2>1. S \subseteq 0 .. MaxVersion /\ S # {} /\ MaxVersion \in Nat
    BY <1>2, TreeAssumption DEF Valid, TreeAssumption
  <2>2. Latest(ms) = Greatest(S)
    BY <1>2, Zenon DEF Latest
  <2>3. \A m \in ms : m.version \in S
    OBVIOUS
  <2> HIDE DEF S
  <2>4. Greatest(S) \in S /\ \A x \in S : Greatest(S) >= x
    BY <2>1, GreatestIn
  <2>5. PICK v : v = Greatest(S)
    OBVIOUS
  <2>6. v \in 0 .. MaxVersion /\ Latest(ms) = v /\ \A m \in ms : m.version \in 0 .. MaxVersion /\ v >= m.version
    BY <2>1, <2>2, <2>3, <2>4, <2>5
  <2> QED BY <2>6, <2>1
<1> QED BY <1>1, <1>2

\* The next migration is new, and with it the migrations pass their check until
\* six digits no longer suffice for its version.
LEMMA NextMigration ==
  ASSUME NEW ms, Valid(ms), NEW name, NEW v, v = Latest(ms) + 1
  PROVE  LET m(d) == [version |-> v, name |-> name, direction |-> d]
             all == ms \cup {m("up"), m("down")} IN
         /\ m("up") \notin ms /\ m("down") \notin ms
         /\ Valid(all) \/ Latest(all) > MaxVersion
<1> DEFINE up == [version |-> v, name |-> name, direction |-> "up"]
           down == [version |-> v, name |-> name, direction |-> "down"]
           all == ms \cup {up, down}
<1>0. /\ MaxVersion \in Nat /\ v \in Nat /\ v >= 1 /\ v <= MaxVersion + 1
      /\ \A m \in ms : m.version \in 1 .. MaxVersion /\ m.version < v
  <2>0. \A m \in ms : m.version \in 1 .. MaxVersion
    BY DEF Valid
  <2>1. PICK l : l = Latest(ms) /\ l \in 0 .. MaxVersion /\ \A m \in ms : m.version <= l
    BY LatestOfValid
  <2>2. MaxVersion \in Nat /\ l \in 0 .. MaxVersion /\ v = l + 1
        /\ \A m \in ms : m.version \in 1 .. MaxVersion /\ m.version <= l
    BY <2>0, <2>1, TreeAssumption DEF TreeAssumption
  <2> QED BY <2>2
<1>1. up.version = v /\ down.version = v /\ up.name = name /\ down.name = name
  OBVIOUS
<1>2. up \notin ms /\ down \notin ms
  BY <1>0, <1>1
<1>3. CASE v <= MaxVersion
  <2>1. \A m \in all : m.version \in 1 .. MaxVersion
    BY <1>0, <1>1, <1>3
  <2>2. \A m, n \in all : m.version = n.version => m.name = n.name
    <3>1. \A m \in ms, n \in {up, down} : m.version # n.version
      BY <1>0, <1>1
    <3>2. \A m, n \in {up, down} : m.name = n.name
      BY <1>1
    <3>3. \A m, n \in ms : m.version = n.version => m.name = n.name
      BY DEF Valid
    <3> HIDE DEF up, down
    <3> QED BY <3>1, <3>2, <3>3
  <2>3. \A m \in all : \A d \in {"up", "down"} : [m EXCEPT !.direction = d] \in all
    <3>1. \A m \in ms : \A d \in {"up", "down"} : [m EXCEPT !.direction = d] \in ms
      BY DEF Valid
    <3>2. \A m \in {up, down} : \A d \in {"up", "down"} : [m EXCEPT !.direction = d] \in {up, down}
      OBVIOUS
    <3> HIDE DEF up, down
    <3> QED BY <3>1, <3>2
  <2> HIDE DEF all
  <2>4. Valid(all)
    BY <2>1, <2>2, <2>3 DEF Valid
  <2> QED BY <1>2, <2>4 DEF all
<1>4. CASE v = MaxVersion + 1
  <2> DEFINE S == {m.version : m \in all}
  <2>1. S \subseteq 0 .. MaxVersion + 1 /\ v \in S
    <3>1. up \in all /\ \A m \in all : m \in ms \/ m = up \/ m = down
      OBVIOUS
    <3> HIDE DEF up, down, all
    <3>2. \A m \in all : m.version \in 0 .. MaxVersion + 1
      BY <3>1, <1>0, <1>1
    <3> QED BY <3>1, <3>2, <1>1
  <2>2. Latest(all) = Greatest(S)
    <3>1. all # {}
      OBVIOUS
    <3> HIDE DEF all
    <3> QED BY <3>1, Zenon DEF Latest
  <2> HIDE DEF S, all
  <2>3. Greatest(S) \in S /\ \A x \in S : Greatest(S) >= x
    <3>1. MaxVersion + 1 \in Nat
      BY <1>0
    <3> QED BY <3>1, <2>1, GreatestIn
  <2>4. PICK g : g = Greatest(S)
    OBVIOUS
  <2>5. g \in 0 .. MaxVersion + 1 /\ g >= v /\ Latest(all) = g
    BY <2>1, <2>2, <2>3, <2>4
  <2>6. Latest(all) > MaxVersion
    BY <2>5, <1>0, <1>4
  <2> QED BY <1>2, <2>6 DEF all
<1> QED BY <1>0, <1>3, <1>4

-----------------------------------------------------------------------------
(* Frames                                                                  *)

\* A step of one command leaves the others'.
Others(c) == \A d \in Commands \ {c} : run'[d] = run[d]

\* The stages that carry something for the modules or a renaming.
Carrying == {"read", "mkdir", "scan", "apply", "restore"} \cup Making

LEMMA NoRunTyped == NoRun \in Run
BY DEF NoRun, Run, Stages

LEMMA RunReplaced ==
  ASSUME TypeOK, NEW c \in Commands, NEW new \in Run, run' = [run EXCEPT ![c] = new]
  PROVE  run' \in [Commands -> Run] /\ run'[c] = new /\ Others(c)
BY DEF TypeOK, Others

LEMMA RunEnded ==
  ASSUME TypeOK, NEW c \in Commands, End(c)
  PROVE  run' \in [Commands -> Run] /\ run'[c] = NoRun /\ run'[c].stage = "idle" /\ Others(c)
BY NoRunTyped, RunReplaced DEF End, NoRun

LEMMA RunGoesTo ==
  ASSUME TypeOK, NEW c \in Commands, NEW stage \in Stages, To(c, stage)
  PROVE  /\ run' \in [Commands -> Run]
         /\ run'[c] = [run[c] EXCEPT !.stage = stage]
         /\ run'[c].stage = stage
         /\ Others(c)
<1>1. run[c] \in Run
  BY DEF TypeOK
<1>2. [run[c] EXCEPT !.stage = stage] \in Run
  BY <1>1 DEF Run
<1>3. run' = [run EXCEPT ![c] = [run[c] EXCEPT !.stage = stage]]
  BY DEF To
<1>4. [run[c] EXCEPT !.stage = stage].stage = stage
  BY <1>1 DEF Run
<1> QED BY <1>2, <1>3, <1>4, RunReplaced

\* What one command does to its own directory, or to one that was not there,
\* harms neither what is known nor what other commands carry.
LEMMA ModulesKept ==
  ASSUME IInv, TypeOK', NEW c \in Commands, Others(c),
         \A x \in Domains : \/ dirs'[x] = dirs[x]
                            \/ dirs[x] = None
                            \/ run[c].stage \in Making /\ x = run[c].entry.domain,
         run'[c].stage \in Making =>
             \/ run[c].stage \in Making /\ run'[c].entry = run[c].entry
             \/ dirs[run'[c].entry.domain] = None
  PROVE  /\ \A e \in Entry \cup Import : Known(e) => Known(e)'
         /\ \A s \in Seq(Import) : Sound(s) => Sound(s)'
         /\ \A d \in Commands \ {c} : MakesModule(d)' /\ Renames(d)'
<1>0. TypeOK /\ ModulesOK
  BY DEF IInv
<1>1. ASSUME NEW e \in Entry \cup Import, Known(e) PROVE Known(e)'
  <2>1. e.domain \in Domains
    BY DEF Entry, Import
  <2>2. dirs[e.domain] # None
    <3>1. [files |-> Generated, realm |-> e.realm] \in Dir
      BY DEF Dir, Generated, Entry, Import
    <3> QED BY <1>1, <3>1, TreeAssumption DEF Known, TreeAssumption
  <2>3. dirs'[e.domain] = dirs[e.domain]
    BY <1>1, <2>1, <2>2 DEF Known
  <2>4. ASSUME NEW d \in Commands, run'[d].stage \in Making
        PROVE  run'[d].entry.domain # e.domain
    <3>1. CASE d = c
      BY <3>1, <2>4, <2>2, <1>1 DEF Known
    <3>2. CASE d # c
      BY <3>2, <2>4, <1>1 DEF Known, Others
    <3> QED BY <3>1, <3>2
  <2> QED BY <1>1, <2>3, <2>4 DEF Known
<1>2. ASSUME NEW s \in Seq(Import), Sound(s) PROVE Sound(s)'
  <2>1. \A i \in DOMAIN s : s[i] \in Import
    BY LenProperties, ElementOfSeq
  <2> QED BY <1>1, <1>2, <2>1 DEF Sound
<1>3. ASSUME NEW d \in Commands \ {c} PROVE MakesModule(d)' /\ Renames(d)'
  <2> DEFINE q == run[d]
  <2>1. q \in Run /\ run'[d] = q /\ MakesModule(d) /\ Renames(d)
    BY <1>0 DEF TypeOK, ModulesOK, Others
  <2>2. q.source # None => q.source.imports \in Seq(Import)
    BY <2>1 DEF Run, Content
  <2>3. q.texts # None => q.texts[ModulesGo].imports \in Seq(Import)
    BY <2>1, TreeAssumption DEF Run, Content, TreeAssumption
  <2>4. q.stage \in Making => /\ q.entry \in Import
                              /\ dirs[q.entry.domain] # None
                              /\ dirs'[q.entry.domain] = dirs[q.entry.domain]
    <3>1. ASSUME q.stage \in Making
          PROVE q.entry \in Import /\ dirs[q.entry.domain] # None
      BY <3>1, <2>1 DEF MakesModule, Run, Making
    <3>2. ASSUME q.stage \in Making PROVE q.entry.domain \in Domains
      BY <3>1, <3>2 DEF Import
    <3>3. ASSUME q.stage \in Making, run[c].stage \in Making
          PROVE q.entry.domain # run[c].entry.domain
      BY <3>3, <2>1 DEF MakesModule
    <3> QED BY <3>1, <3>2, <3>3
  <2>5. q.stage \in Making /\ run'[c].stage \in Making => run'[c].entry.domain # q.entry.domain
    BY <2>1, <2>4 DEF MakesModule
  <2>6. q.stage \in Making => \A o \in Commands \ {d} :
          run'[o].stage \in Making => run'[o].entry.domain # q.entry.domain
    <3> SUFFICES ASSUME q.stage \in Making, NEW o \in Commands \ {d}, run'[o].stage \in Making
                 PROVE  run'[o].entry.domain # q.entry.domain
      OBVIOUS
    <3>1. CASE o = c
      BY <3>1, <2>5
    <3>2. CASE o # c
      BY <3>2, <2>1 DEF MakesModule, Others
    <3> QED BY <3>1, <3>2
  <2>7. MakesModule(d)'
    BY <2>1, <2>2, <2>4, <2>6, <1>2 DEF MakesModule, Making
  <2>8. Renames(d)'
    BY <2>1, <2>3, <1>2 DEF Renames
  <2> QED BY <2>7, <2>8
<1> QED BY <1>1, <1>2, <1>3

\* What is in modules.go is of its type.
LEMMA RoutesTyped ==
  ASSUME TypeOK
  PROVE  Routes \in Seq(Import) /\ files[ModulesGo] \in Content
BY TreeAssumption DEF TypeOK, TreeAssumption, Content, Routes

\* Directories that belong to somebody still do.
LEMMA NoDirFrame ==
  ASSUME IInv, NEW c \in Commands, Others(c), UNCHANGED dirs,
         made.modules \subseteq made'.modules, spoiled.dirs \subseteq spoiled'.dirs,
         run[c].stage \in Making =>
             \/ run'[c].stage \in Making /\ run'[c].entry = run[c].entry
             \/ run[c].entry.domain \in spoiled'.dirs \cup {e.domain : e \in made'.modules}
  PROVE  NoDirLeft'
<1> SUFFICES ASSUME NEW x \in Domains, dirs[x] # None
             PROVE  \/ x \in {e.domain : e \in made'.modules \cup Entries(Installed)} \cup spoiled'.dirs
                    \/ \E d \in Commands : run'[d].stage \in {"write", "replace", "undo"}
                                             /\ run'[d].entry.domain = x
  BY DEF NoDirLeft
<1>1. CASE x \in {e.domain : e \in made.modules \cup Entries(Installed)} \cup spoiled.dirs
  BY <1>1
<1>2. ASSUME NEW d \in Commands, run[d].stage \in Making, run[d].entry.domain = x
      PROVE  \/ x \in {e.domain : e \in made'.modules \cup Entries(Installed)} \cup spoiled'.dirs
             \/ \E o \in Commands : run'[o].stage \in {"write", "replace", "undo"}
                                      /\ run'[o].entry.domain = x
  <2>1. CASE d = c
    BY <2>1, <1>2 DEF Making
  <2>2. CASE d # c
    BY <2>2, <1>2 DEF Making, Others
  <2> QED BY <2>1, <2>2
<1> QED BY <1>1, <1>2 DEF IInv, ModulesOK, NoDirLeft, Making

\* A step that is not about modules.
LEMMA ModulesFrame ==
  ASSUME IInv, TypeOK', NEW c \in Commands, Others(c), UNCHANGED dirs,
         files'[ModulesGo] = files[ModulesGo],
         made'.modules = made.modules, spoiled.dirs \subseteq spoiled'.dirs,
         run[c].stage \notin Making, run'[c].stage \notin Carrying
  PROVE  ModulesOK'
<1>1. /\ \A e \in Entry \cup Import : Known(e) => Known(e)'
      /\ \A s \in Seq(Import) : Sound(s) => Sound(s)'
      /\ \A d \in Commands \ {c} : MakesModule(d)' /\ Renames(d)'
  BY ModulesKept DEF Carrying
<1>2. Sound(Routes) /\ (\A e \in made.modules : Known(e)) /\ made.modules \subseteq Entry
  BY DEF IInv, ModulesOK, TypeOK
<1>3. Sound(Routes)'
  BY <1>1, <1>2, RoutesTyped DEF IInv, Routes, Sound
<1>4. MakesModule(c)' /\ Renames(c)'
  BY DEF Carrying, Making, MakesModule, Renames
<1>5. NoDirLeft'
  BY NoDirFrame
<1>6. \A e \in made'.modules : Known(e)'
  BY <1>1, <1>2
<1> QED BY <1>1, <1>3, <1>4, <1>5, <1>6 DEF ModulesOK

\* A step that is not about migrations.
LEMMA MigrationsFrame ==
  ASSUME IInv, NEW c \in Commands, Others(c), UNCHANGED migrations,
         made'.migrations = made.migrations, spoiled.migrations \subseteq spoiled'.migrations,
         run[c].stage # "down", run'[c].stage \notin {"up", "down"}
  PROVE  MigrationsOK'
<1>0. MigrationsOK
  BY DEF IInv
<1>1. ASSUME NEW d \in Commands PROVE MakesMigration(d)'
  BY <1>0 DEF MigrationsOK, MakesMigration, New, Others
<1>2. NoMigrationLeft'
  BY <1>0 DEF MigrationsOK, NoMigrationLeft, New, Others
<1> QED BY <1>0, <1>1, <1>2 DEF MigrationsOK

\* A step that is not about the archive.
LEMMA ArchiveFrame ==
  ASSUME IInv, NEW c \in Commands, Others(c), UNCHANGED archive,
         made'.archive = made.archive, spoiled'.archive = spoiled.archive,
         run[c].stage # "fill", run'[c].stage # "fill"
  PROVE  ArchiveOK'
<1>0. ArchiveOK
  BY DEF IInv
<1>1. ASSUME NEW d \in Commands PROVE Packages(d)'
  BY <1>0 DEF ArchiveOK, Packages, Others
<1>2. NoArchiveLeft'
  BY <1>0 DEF ArchiveOK, NoArchiveLeft, Others
<1> QED BY <1>0, <1>1, <1>2 DEF ArchiveOK

\* A step of a command that makes no directory at the time.
LEMMA ModulesUnmade ==
  ASSUME IInv, TypeOK', NEW c \in Commands, Others(c), UNCHANGED dirs,
         made'.modules = made.modules, spoiled.dirs \subseteq spoiled'.dirs,
         run[c].stage \notin Making, run'[c].stage \notin Making,
         NEW routes \in Seq(Import), Sound(routes), files'[ModulesGo].imports = routes,
         NEW s \in Seq(Import), Sound(s),
         run'[c].stage \in {"read", "mkdir"} => run'[c].entry # None,
         run'[c].stage = "mkdir" => run'[c].source # None /\ run'[c].source.imports = s,
         run'[c].stage \in {"scan", "apply", "restore"} =>
             /\ run'[c].texts # None /\ run'[c].id # None
             /\ run'[c].texts[ModulesGo].imports = s,
         run'[c].stage \in {"scan", "apply"} => run'[c].todo # {}
  PROVE  ModulesOK'
<1>1. /\ \A e \in Entry \cup Import : Known(e) => Known(e)'
      /\ \A t \in Seq(Import) : Sound(t) => Sound(t)'
      /\ \A d \in Commands \ {c} : MakesModule(d)' /\ Renames(d)'
  BY ModulesKept
<1>2. Sound(routes)' /\ Sound(s)'
  BY <1>1
<1>3. Sound(Routes)'
  BY <1>2 DEF Routes
<1>4. MakesModule(c)' /\ Renames(c)'
  BY <1>2 DEF MakesModule, Renames, Making
<1>5. NoDirLeft'
  BY NoDirFrame
<1>6. \A e \in made'.modules : Known(e)'
  BY <1>1 DEF IInv, ModulesOK, TypeOK
<1> QED BY <1>1, <1>3, <1>4, <1>5, <1>6 DEF ModulesOK

-----------------------------------------------------------------------------
(* The initial states                                                      *)

LEMMA InitInv == Init => IInv
<1> SUFFICES ASSUME Init PROVE IInv
  OBVIOUS
<1>0. /\ \A i \in DOMAIN Installed : Installed[i] \in Import
      /\ <<>> \in Seq(Import)
  BY TreeAssumption, LenProperties, ElementOfSeq, EmptySeq DEF TreeAssumption
<1>d. Distinct(Installed)
  <2>1. \A i \in DOMAIN Installed : i \in Nat /\ Installed[i].domain \in Nat
    BY <1>0, TreeAssumption, LenProperties DEF TreeAssumption, Import
  <2> QED BY <2>1, TreeAssumption DEF TreeAssumption, Distinct
<1>1. files \in [Paths -> Content] /\ Routes = Installed
  BY <1>0, TreeAssumption DEF Init, TreeAssumption, Content, Routes
<1>2. ASSUME NEW i \in DOMAIN Installed
      PROVE  dirs[Installed[i].domain] = [files |-> Generated, realm |-> Installed[i].realm]
  <2> DEFINE x == Installed[i].domain
             e == CHOOSE e \in Entries(Installed) : e.domain = x
  <2>1. x \in Domains
    BY <1>0 DEF Import
  <2>2. Registered(Installed[i]) \in Entries(Installed) /\ Registered(Installed[i]).domain = x
    BY DEF Entries, Registered
  <2>3. e \in Entries(Installed) /\ e.domain = x
    BY <2>2
  <2> HIDE DEF e
  <2>4. e = Registered(Installed[i])
    <3>1. PICK j \in DOMAIN Installed : e = Registered(Installed[j])
      BY <2>3 DEF Entries
    <3>2. Installed[j].domain = Installed[i].domain
      BY <3>1, <2>3 DEF Registered
    <3> QED BY <3>1, <3>2, <1>d DEF Distinct
  <2>5. dirs[x] = [files |-> Generated, realm |-> e.realm]
    BY <2>1, <2>2 DEF Init, e
  <2> QED BY <2>4, <2>5 DEF Registered
<1>3. dirs \in [Domains -> Dir \cup {None}]
  <2>1. \A i \in DOMAIN Installed : dirs[Installed[i].domain] \in Dir
    <3> SUFFICES ASSUME NEW i \in DOMAIN Installed
                 PROVE  dirs[Installed[i].domain] \in Dir
      OBVIOUS
    <3>1. Installed[i].realm \in Realms
      BY <1>0 DEF Import
    <3>2. [files |-> Generated, realm |-> Installed[i].realm] \in Dir
      BY <3>1 DEF Dir, Generated
    <3> QED BY <1>2, <3>2
  <2>2. \A x \in Domains : (\E e \in Entries(Installed) : e.domain = x) =>
          \E i \in DOMAIN Installed : Installed[i].domain = x
    BY DEF Entries, Registered
  <2>3. ASSUME NEW x \in Domains PROVE dirs[x] \in Dir \cup {None}
    <3>1. CASE \E e \in Entries(Installed) : e.domain = x
      BY <3>1, <2>1, <2>2
    <3>2. CASE ~ \E e \in Entries(Installed) : e.domain = x
      <4>1. dirs[x] = None
        BY <3>2, Zenon DEF Init
      <4> QED BY <4>1
    <3> QED BY <3>1, <3>2
  <2>4. DOMAIN dirs = Domains /\ dirs = [x \in Domains |-> dirs[x]]
    BY DEF Init
  <2> QED BY <2>3, <2>4
<1>4. migrations \subseteq Migration
  <2>1. PICK v \in {1, MaxVersion} :
          migrations = [version : {v}, name : {First}, direction : {"up", "down"}]
    BY DEF Init
  <2>2. v \in Nat
    BY TreeAssumption DEF TreeAssumption
  <2> QED BY <2>1, <2>2 DEF Migration
<1>5. TypeOK
  <2>1. run \in [Commands -> Run]
    BY NoRunTyped DEF Init
  <2>2. /\ made \in [modules : SUBSET Entry, migrations : SUBSET Migration, archive : BOOLEAN]
        /\ spoiled \in [dirs : SUBSET Domains, migrations : SUBSET Migration,
                        project : BOOLEAN, archive : BOOLEAN]
    BY <1>4 DEF Init
  <2>3. archive = None /\ starts \in Nat /\ raced \in BOOLEAN
    BY DEF Init
  <2> QED BY <1>1, <1>3, <1>4, <2>1, <2>2, <2>3 DEF TypeOK
<1>6. \A c \in Commands : run[c].stage = "idle"
  BY DEF Init, NoRun
<1>7. Sound(Routes)
  BY <1>1, <1>2, <1>6, <1>d DEF Sound, Known, Making, Distinct
<1>8. NoDirLeft
  BY DEF Init, NoDirLeft
<1>9. ModulesOK
  BY <1>6, <1>7, <1>8 DEF ModulesOK, Init, MakesModule, Renames, Making
<1>10. MigrationsOK
  BY <1>6 DEF MigrationsOK, Init, MakesMigration, NoMigrationLeft
<1>11. ArchiveOK
  BY <1>6 DEF ArchiveOK, Init, Packages, NoArchiveLeft
<1> QED BY <1>5, <1>9, <1>10, <1>11 DEF IInv

-----------------------------------------------------------------------------
(* module new                                                              *)

LEMMA InvNewModule ==
  ASSUME IInv, NEW c \in Commands, NEW e \in Entry, NewModule(c, e)
  PROVE  IInv'
<1> DEFINE new == [NoRun EXCEPT !.stage = "read",
                     !.entry = [domain |-> e.domain, realm |-> e.realm, id |-> files[GoMod].id]]
<1>0. TypeOK /\ Sound(Routes) /\ run[c].stage = "idle"
  BY DEF IInv, ModulesOK, NewModule, Begin
<1>1. new \in Run
  <2>1. files[GoMod].id \in Ids
    BY <1>0, TreeAssumption DEF TypeOK, TreeAssumption, Content
  <2>2. [domain |-> e.domain, realm |-> e.realm, id |-> files[GoMod].id] \in Import
    BY <2>1 DEF Entry, Import
  <2> QED BY <2>2 DEF NoRun, Run, Stages
<1>2. new.stage = "read" /\ new.entry # None
  <2>1. new.stage = "read"
        /\ new.entry = [domain |-> e.domain, realm |-> e.realm, id |-> files[GoMod].id]
    BY DEF NoRun
  <2>2. new.entry \in Import
    BY <1>0, <2>1, TreeAssumption DEF TypeOK, TreeAssumption, Content, Entry, Import
  <2> QED BY <2>1, <2>2, TreeAssumption DEF TreeAssumption
<1>3. run' = [run EXCEPT ![c] = new]
  BY DEF NewModule, Begin
<1> HIDE DEF new
<1>4. run' \in [Commands -> Run] /\ run'[c] = new /\ Others(c)
  BY <1>0, <1>1, <1>3, RunReplaced
<1>5. UNCHANGED <<files, dirs, migrations, archive, made, spoiled>>
  BY DEF NewModule, Begin, tree
<1>6. TypeOK'
  BY <1>0, <1>4, <1>5 DEF TypeOK, NewModule, Begin
<1>7. ModulesOK'
  <2>1. Routes \in Seq(Import) /\ files'[ModulesGo].imports = Routes
    BY <1>0, <1>5, RoutesTyped DEF Routes
  <2> QED BY <1>0, <1>2, <1>4, <1>5, <1>6, <2>1, ModulesUnmade DEF Making
<1>8. MigrationsOK'
  BY <1>0, <1>2, <1>4, <1>5, MigrationsFrame
<1>9. ArchiveOK'
  BY <1>0, <1>2, <1>4, <1>5, ArchiveFrame
<1> QED BY <1>6, <1>7, <1>8, <1>9 DEF IInv

LEMMA InvReadModules ==
  ASSUME IInv, NEW c \in Commands, ReadModules(c)
  PROVE  IInv'
<1> DEFINE new == [run[c] EXCEPT !.stage = "mkdir", !.source = files[ModulesGo]]
<1>0. TypeOK /\ Sound(Routes) /\ run[c].stage = "read" /\ run[c].entry # None /\ run[c] \in Run
  BY DEF IInv, ModulesOK, ReadModules, At, MakesModule, TypeOK
<1>1. UNCHANGED <<files, dirs, migrations, archive, made, spoiled, starts, raced>>
  BY DEF ReadModules, At, tree
<1>2. /\ run' \in [Commands -> Run] /\ Others(c)
      /\ \/ run'[c].stage = "idle"
         \/ /\ run'[c].stage = "mkdir" /\ run'[c].entry # None
            /\ run'[c].source # None /\ run'[c].source.imports = Routes
  <2>1. CASE Imported(files[ModulesGo].imports, run[c].entry)
    BY <1>0, <2>1, RunEnded DEF ReadModules
  <2>2. CASE ~Imported(files[ModulesGo].imports, run[c].entry)
    <3>1. run' = [run EXCEPT ![c] = new]
      BY <2>2 DEF ReadModules
    <3>2. files[ModulesGo] \in Content
      BY <1>0, RoutesTyped
    <3>3. new \in Run
      BY <1>0, <3>2 DEF Run, Stages
    <3>4. new.stage = "mkdir" /\ new.entry = run[c].entry /\ new.source = files[ModulesGo]
      BY <1>0 DEF Run
    <3> HIDE DEF new
    <3>5. run' \in [Commands -> Run] /\ run'[c] = new /\ Others(c)
      BY <1>0, <3>1, <3>3, RunReplaced
    <3> QED BY <1>0, <3>2, <3>4, <3>5, TreeAssumption DEF TreeAssumption, Routes
  <2> QED BY <2>1, <2>2
<1>3. TypeOK'
  BY <1>0, <1>1, <1>2 DEF TypeOK
<1>4. ModulesOK'
  <2>1. Routes \in Seq(Import) /\ files'[ModulesGo].imports = Routes
    BY <1>0, <1>1, RoutesTyped DEF Routes
  <2> QED BY <1>0, <1>1, <1>2, <1>3, <2>1, ModulesUnmade DEF Making
<1>5. MigrationsOK'
  BY <1>0, <1>1, <1>2, MigrationsFrame
<1>6. ArchiveOK'
  BY <1>0, <1>1, <1>2, ArchiveFrame
<1> QED BY <1>3, <1>4, <1>5, <1>6 DEF IInv

LEMMA InvMakeDir ==
  ASSUME IInv, NEW c \in Commands, NEW ok \in BOOLEAN, MakeDir(c, ok)
  PROVE  IInv'
<1> DEFINE x == run[c].entry.domain
           dir == [files |-> 0, realm |-> run[c].entry.realm]
<1>0. /\ TypeOK /\ ModulesOK /\ run[c].stage = "mkdir" /\ run[c] \in Run
      /\ run[c].entry \in Import /\ x \in Domains /\ dir \in Dir /\ dir # None
      /\ MakesModule(c) /\ run[c].source # None
  <2>1. TypeOK /\ ModulesOK /\ run[c].stage = "mkdir" /\ run[c] \in Run /\ MakesModule(c)
    BY DEF IInv, ModulesOK, MakeDir, At, TypeOK
  <2>2. run[c].entry \in Import /\ run[c].source # None
    BY <2>1 DEF MakesModule, Run
  <2>3. x \in Domains /\ dir \in Dir
    BY <2>2 DEF Import, Dir, Generated
  <2> QED BY <2>1, <2>2, <2>3, TreeAssumption DEF TreeAssumption
<1>1. UNCHANGED <<files, migrations, archive, made, spoiled, starts, raced>>
  BY DEF MakeDir, At
<1>2. CASE ~ok \/ dirs[x] # None
  <2>1. run' \in [Commands -> Run] /\ run'[c].stage = "idle" /\ Others(c) /\ UNCHANGED dirs
    BY <1>0, <1>2, RunEnded DEF MakeDir
  <2>2. TypeOK'
    BY <1>0, <1>1, <2>1 DEF TypeOK
  <2>3. ModulesOK'
    BY <1>0, <1>1, <2>1, <2>2, ModulesFrame DEF Carrying, Making
  <2>4. MigrationsOK' /\ ArchiveOK'
    BY <1>0, <1>1, <2>1, MigrationsFrame, ArchiveFrame
  <2> QED BY <2>2, <2>3, <2>4 DEF IInv
<1>3. CASE ok /\ dirs[x] = None
  <2>1. dirs' = [dirs EXCEPT ![x] = dir] /\ To(c, "write")
    BY <1>3 DEF MakeDir
  <2>2. /\ run' \in [Commands -> Run] /\ run'[c] = [run[c] EXCEPT !.stage = "write"]
        /\ run'[c].stage = "write" /\ Others(c)
    BY <1>0, <2>1, RunGoesTo DEF Stages
  <2>3. run'[c].entry = run[c].entry /\ run'[c].source = run[c].source
    BY <1>0, <2>2 DEF Run
  <2>4. /\ dirs' \in [Domains -> Dir \cup {None}] /\ dirs'[x] = dir
        /\ \A y \in Domains : y # x => dirs'[y] = dirs[y]
    <3> HIDE DEF dir, x
    <3> QED BY <1>0, <2>1 DEF TypeOK
  <2>5. TypeOK'
    BY <1>0, <1>1, <2>2, <2>4 DEF TypeOK
  <2>6. /\ \A e \in Entry \cup Import : Known(e) => Known(e)'
        /\ \A s \in Seq(Import) : Sound(s) => Sound(s)'
        /\ \A d \in Commands \ {c} : MakesModule(d)' /\ Renames(d)'
    BY <1>3, <2>2, <2>3, <2>4, <2>5, ModulesKept
  <2>7. MakesModule(c)' /\ Renames(c)'
    <3>1. Sound(run[c].source.imports)'
      <4>1. PICK s \in Seq(Import) : s = run[c].source.imports
        BY <1>0 DEF Run, Content
      <4>2. Sound(s) /\ run'[c].source.imports = s
        BY <1>0, <4>1, <2>3 DEF MakesModule
      <4>3. Sound(s)'
        BY <4>2, <2>6
      <4> QED BY <4>2, <4>3
    <3>2. \A d \in Commands \ {c} : run'[d].stage \in Making => run'[d].entry.domain # x
      BY <1>0, <1>3, <2>2 DEF ModulesOK, MakesModule, Others
    <3>3. dirs'[x] # None /\ dirs'[x].realm = run[c].entry.realm /\ dirs'[x].files < Generated
      BY <1>0, <2>4 DEF Generated
    <3>4. run'[c].entry # None /\ run'[c].source # None
      BY <1>0, <2>3, TreeAssumption DEF TreeAssumption
    <3> QED BY <3>1, <3>2, <3>3, <3>4, <2>2, <2>3 DEF MakesModule, Renames, Making
  <2>8. Sound(Routes)' /\ \A e \in made'.modules : Known(e)'
    <3>1. PICK s \in Seq(Import) : s = Routes
      BY <1>0, RoutesTyped
    <3>2. Sound(s)' /\ Routes' = s
      BY <1>0, <1>1, <3>1, <2>6 DEF ModulesOK, Routes
    <3>3. Sound(Routes)'
      BY <3>2
    <3> QED BY <3>3, <1>0, <1>1, <2>6 DEF ModulesOK, TypeOK
  <2>9. NoDirLeft'
    <3> SUFFICES ASSUME NEW y \in Domains, dirs'[y] # None
                 PROVE  \/ y \in {e.domain : e \in made'.modules \cup Entries(Installed)} \cup spoiled'.dirs
                        \/ \E d \in Commands : run'[d].stage \in {"write", "replace", "undo"}
                                                 /\ run'[d].entry.domain = y
      BY DEF NoDirLeft
    <3>1. CASE y = x
      BY <3>1, <2>2, <2>3
    <3>2. CASE y # x
      <4>1. dirs[y] # None
        BY <3>2, <2>4
      <4>2. \A d \in Commands : run[d].stage \in {"write", "replace", "undo"} => run'[d] = run[d]
        BY <1>0, <2>2 DEF Others
      <4>3. \/ y \in {e.domain : e \in made.modules \cup Entries(Installed)} \cup spoiled.dirs
            \/ \E d \in Commands : run[d].stage \in {"write", "replace", "undo"}
                                     /\ run[d].entry.domain = y
        BY <4>1, <1>0 DEF ModulesOK, NoDirLeft
      <4> HIDE DEF x, dir
      <4> QED BY <4>2, <4>3, <1>1
    <3> QED BY <3>1, <3>2
  <2>10. MigrationsOK' /\ ArchiveOK'
    BY <1>0, <1>1, <2>2, MigrationsFrame, ArchiveFrame
  <2> QED BY <2>5, <2>6, <2>7, <2>8, <2>9, <2>10 DEF IInv, ModulesOK
<1> QED BY <1>2, <1>3

\* A command at work on its own directory.
LEMMA MakingFacts ==
  ASSUME IInv, NEW c \in Commands, run[c].stage \in Making
  PROVE  /\ run[c] \in Run /\ run[c].entry \in Import /\ run[c].entry.domain \in Domains
         /\ run[c].source \in Content /\ run[c].source.imports \in Seq(Import)
         /\ Sound(run[c].source.imports)
         /\ dirs[run[c].entry.domain] \in Dir
         /\ dirs[run[c].entry.domain].realm = run[c].entry.realm
         /\ \A d \in Commands \ {c} :
              run[d].stage \in Making => run[d].entry.domain # run[c].entry.domain
<1>1. TypeOK /\ MakesModule(c) /\ run[c] \in Run
  BY DEF IInv, ModulesOK, TypeOK
<1>2. run[c].entry \in Import /\ run[c].source \in Content
  BY <1>1 DEF MakesModule, Run, Making
<1>3. run[c].entry.domain \in Domains /\ run[c].source.imports \in Seq(Import)
  BY <1>2 DEF Import, Content
<1>4. dirs[run[c].entry.domain] \in Dir
  BY <1>1, <1>3 DEF TypeOK, MakesModule
<1> QED BY <1>1, <1>2, <1>3, <1>4 DEF MakesModule

\* A command that goes on making its directory.
LEMMA MakingOn ==
  ASSUME IInv, TypeOK', NEW c \in Commands, Others(c), run[c].stage \in Making,
         run'[c].stage \in Making, run'[c].entry = run[c].entry, run'[c].source = run[c].source,
         UNCHANGED <<files, made, spoiled>>,
         \A y \in Domains : y # run[c].entry.domain => dirs'[y] = dirs[y],
         dirs'[run[c].entry.domain] \in Dir,
         dirs'[run[c].entry.domain].realm = run[c].entry.realm,
         run'[c].stage = "write" => dirs'[run[c].entry.domain].files < Generated,
         run'[c].stage = "replace" => dirs'[run[c].entry.domain].files = Generated
  PROVE  ModulesOK'
<1> DEFINE x == run[c].entry.domain
<1>0. /\ TypeOK /\ ModulesOK /\ run[c].entry \in Import /\ run[c].source \in Content
      /\ x \in Domains
  BY MakingFacts DEF IInv
<1>1. /\ \A e \in Entry \cup Import : Known(e) => Known(e)'
      /\ \A s \in Seq(Import) : Sound(s) => Sound(s)'
      /\ \A d \in Commands \ {c} : MakesModule(d)' /\ Renames(d)'
  BY ModulesKept
<1>2. MakesModule(c)' /\ Renames(c)'
  <2>1. Sound(run[c].source.imports)'
    <3>1. PICK s \in Seq(Import) : s = run[c].source.imports
      BY MakingFacts
    <3>2. Sound(s) /\ run'[c].source.imports = s
      BY <3>1, MakingFacts
    <3>3. Sound(s)'
      BY <3>2, <1>1
    <3> QED BY <3>2, <3>3
  <2>2. \A d \in Commands \ {c} : run'[d].stage \in Making => run'[d].entry.domain # x
    BY MakingFacts DEF Others
  <2>3. dirs'[x] # None /\ run'[c].entry # None /\ run'[c].source # None
    BY <1>0, TreeAssumption DEF TreeAssumption
  <2> QED BY <2>1, <2>2, <2>3 DEF MakesModule, Renames, Making
<1>3. Sound(Routes)' /\ \A e \in made'.modules : Known(e)'
  <2>1. PICK s \in Seq(Import) : s = Routes
    BY <1>0, RoutesTyped
  <2>2. Sound(s)' /\ Routes' = s
    BY <1>0, <2>1, <1>1 DEF ModulesOK, Routes
  <2>3. Sound(Routes)'
    BY <2>2
  <2> QED BY <2>3, <1>0, <1>1 DEF ModulesOK, TypeOK
<1>4. NoDirLeft'
  <2> SUFFICES ASSUME NEW y \in Domains, dirs'[y] # None
               PROVE  \/ y \in {e.domain : e \in made'.modules \cup Entries(Installed)} \cup spoiled'.dirs
                      \/ \E d \in Commands : run'[d].stage \in {"write", "replace", "undo"}
                                               /\ run'[d].entry.domain = y
    BY DEF NoDirLeft
  <2>1. CASE y = x
    BY <2>1 DEF Making
  <2>2. CASE y # x
    <3>1. dirs[y] # None
      BY <2>2
    <3>2. \A d \in Commands : run[d].stage \in Making /\ run[d].entry.domain = y => run'[d] = run[d]
      BY <2>2 DEF Others
    <3> QED BY <3>1, <3>2, <1>0 DEF ModulesOK, NoDirLeft, Making
  <2> QED BY <2>1, <2>2
<1> QED BY <1>1, <1>2, <1>3, <1>4 DEF ModulesOK

LEMMA InvWriteFile ==
  ASSUME IInv, NEW c \in Commands, NEW ok \in BOOLEAN, WriteFile(c, ok)
  PROVE  IInv'
<1> DEFINE x == run[c].entry.domain
           more == [dirs[x] EXCEPT !.files = @ + 1]
<1>0. TypeOK /\ run[c].stage = "write" /\ run[c] \in Run /\ x \in Domains /\ dirs[x] \in Dir
      /\ dirs[x].files < Generated /\ dirs[x].realm = run[c].entry.realm
  BY MakingFacts DEF IInv, ModulesOK, MakesModule, WriteFile, At, Making
<1>1. UNCHANGED <<files, migrations, archive, made, spoiled, starts, raced>>
  BY DEF WriteFile, At
<1>2. /\ run' \in [Commands -> Run] /\ Others(c)
      /\ run'[c].entry = run[c].entry /\ run'[c].source = run[c].source
      /\ dirs' \in [Domains -> Dir \cup {None}]
      /\ \A y \in Domains : y # x => dirs'[y] = dirs[y]
      /\ dirs'[x] \in Dir /\ dirs'[x].realm = run[c].entry.realm
      /\ \/ run'[c].stage = "undo"
         \/ run'[c].stage = "write" /\ dirs'[x].files < Generated
         \/ run'[c].stage = "replace" /\ dirs'[x].files = Generated
  <2>1. CASE ~ok
    <3>1. To(c, "undo") /\ UNCHANGED dirs
      BY <2>1 DEF WriteFile
    <3>2. /\ run' \in [Commands -> Run] /\ Others(c)
          /\ run'[c] = [run[c] EXCEPT !.stage = "undo"] /\ run'[c].stage = "undo"
      BY <1>0, <3>1, RunGoesTo DEF Stages
    <3> QED BY <1>0, <3>1, <3>2 DEF Run, TypeOK
  <2>2. CASE ok
    <3> DEFINE next == IF dirs[x].files + 1 = Generated THEN "replace" ELSE "write"
    <3>1. dirs' = [dirs EXCEPT ![x] = more] /\ To(c, next)
      BY <2>2 DEF WriteFile
    <3>2. more \in Dir /\ more.realm = dirs[x].realm /\ more.files = dirs[x].files + 1
      BY <1>0 DEF Dir, Generated
    <3> HIDE DEF more
    <3>3. next \in Stages
      BY DEF Stages
    <3>4. /\ run' \in [Commands -> Run] /\ Others(c)
          /\ run'[c] = [run[c] EXCEPT !.stage = next] /\ run'[c].stage = next
      BY <1>0, <3>1, <3>3, RunGoesTo
    <3>5. run'[c].entry = run[c].entry /\ run'[c].source = run[c].source
      BY <1>0, <3>4 DEF Run
    <3>6. /\ dirs' \in [Domains -> Dir \cup {None}] /\ dirs'[x] = more
          /\ \A y \in Domains : y # x => dirs'[y] = dirs[y]
      <4> HIDE DEF x
      <4> QED BY <1>0, <3>1, <3>2 DEF TypeOK
    <3>7. dirs[x].files + 1 # Generated => dirs[x].files + 1 < Generated
      BY <1>0 DEF Dir, Generated
    <3> HIDE DEF x
    <3> QED BY <1>0, <3>2, <3>4, <3>5, <3>6, <3>7
  <2> QED BY <2>1, <2>2
<1>3. TypeOK'
  BY SMTT(30), <1>0, <1>1, <1>2 DEF TypeOK
<1>4. ModulesOK'
  BY <1>0, <1>1, <1>2, <1>3, MakingOn DEF Making
<1>5. MigrationsOK' /\ ArchiveOK'
  BY <1>0, <1>1, <1>2, MigrationsFrame, ArchiveFrame
<1> QED BY <1>3, <1>4, <1>5 DEF IInv

LEMMA InvReplaceModules ==
  ASSUME IInv, NEW c \in Commands, NEW ok \in BOOLEAN, ReplaceModules(c, ok)
  PROVE  IInv'
<1> DEFINE q == run[c]
           x == q.entry.domain
           s == q.source.imports
           t == Insert(s, q.entry)
<1>0. /\ TypeOK /\ ModulesOK /\ q.stage = "replace" /\ q \in Run /\ q.entry \in Import
      /\ x \in Domains /\ q.source \in Content /\ s \in Seq(Import) /\ Sound(s)
      /\ dirs[x] \in Dir /\ dirs[x].realm = q.entry.realm /\ dirs[x].files = Generated
      /\ \A d \in Commands \ {c} : run[d].stage \in Making => run[d].entry.domain # x
  <2>1. q.stage = "replace" /\ TypeOK /\ ModulesOK /\ MakesModule(c)
    BY DEF IInv, ModulesOK, ReplaceModules, At
  <2>2. q.stage \in Making
    BY <2>1 DEF Making
  <2> QED BY <2>1, <2>2, MakingFacts DEF MakesModule
<1>1. UNCHANGED <<dirs, migrations, archive, spoiled, starts, raced>>
  BY DEF ReplaceModules, At
<1>2. CASE ~ok
  <2>1. To(c, "undo") /\ UNCHANGED <<files, made>>
    BY <1>2 DEF ReplaceModules
  <2>2. /\ run' \in [Commands -> Run] /\ Others(c)
        /\ run'[c] = [run[c] EXCEPT !.stage = "undo"] /\ run'[c].stage = "undo"
    BY <1>0, <2>1, RunGoesTo DEF Stages
  <2>3. run'[c].entry = run[c].entry /\ run'[c].source = run[c].source
    BY <1>0, <2>2 DEF Run
  <2>4. TypeOK'
    BY <1>0, <1>1, <2>1, <2>2 DEF TypeOK
  <2>5. ModulesOK'
    BY <1>0, <1>1, <2>1, <2>2, <2>3, <2>4, MakingOn DEF Making
  <2>6. MigrationsOK' /\ ArchiveOK'
    BY <1>0, <1>1, <2>1, <2>2, MigrationsFrame, ArchiveFrame
  <2> QED BY <2>4, <2>5, <2>6 DEF IInv
<1>3. CASE ok
  <2> DEFINE text == [q.source EXCEPT !.imports = Insert(@, q.entry)]
             e == Registered(q.entry)
  <2>1. /\ files' = [files EXCEPT ![ModulesGo] = text]
        /\ made' = [made EXCEPT !.modules = @ \cup {e}]
        /\ End(c)
    BY <1>3 DEF ReplaceModules
  <2>2. t \in Seq(Import) /\ text \in Content /\ text.imports = t
    <3>1. t \in Seq(Import)
      BY <1>0, InsertProperties
    <3> QED BY <3>1, <1>0 DEF Content
  <2>3. e \in Entry /\ e.domain = x /\ e.realm = q.entry.realm
    BY <1>0 DEF Entry, Import, Registered
  <2>4. run' \in [Commands -> Run] /\ run'[c].stage = "idle" /\ Others(c)
    BY <1>0, <2>1, RunEnded
  <2>5. files' \in [Paths -> Content] /\ Routes' = t
    BY <1>0, <2>1, <2>2, TreeAssumption DEF TypeOK, TreeAssumption, Routes
  <2>6. /\ made' \in [modules : SUBSET Entry, migrations : SUBSET Migration, archive : BOOLEAN]
        /\ made'.modules = made.modules \cup {e}
        /\ made'.migrations = made.migrations /\ made'.archive = made.archive
    <3> HIDE DEF e
    <3> QED BY <1>0, <2>1, <2>3 DEF TypeOK
  <2>7. TypeOK'
    BY <1>0, <1>1, <2>4, <2>5, <2>6 DEF TypeOK
  <2>8. /\ \A o \in Entry \cup Import : Known(o) => Known(o)'
        /\ \A u \in Seq(Import) : Sound(u) => Sound(u)'
        /\ \A d \in Commands \ {c} : MakesModule(d)' /\ Renames(d)'
    BY <1>1, <2>4, <2>7, ModulesKept DEF Making
  <2>9. ASSUME NEW o, o.domain = x, o.realm = q.entry.realm PROVE Known(o)'
    <3>1. dirs[x] = [files |-> Generated, realm |-> q.entry.realm]
      BY <1>0 DEF Dir
    <3>2. \A d \in Commands : run'[d].stage \in Making => run'[d].entry.domain # x
      BY <1>0, <2>4 DEF Others, Making
    <3> QED BY <3>1, <3>2, <1>1, <2>9 DEF Known
  <2>10. Sound(Routes)'
    <3>1. PICK u \in Seq(Import), w \in Import : u = s /\ w = q.entry
      BY <1>0
    <3>2. \A j \in DOMAIN u : u[j] \in Import /\ Known(u[j]) /\ u[j].domain # x
      <4>1. ASSUME NEW j \in DOMAIN u PROVE u[j] \in Import /\ Known(u[j])
        BY <1>0, <3>1, LenProperties, ElementOfSeq DEF Sound
      <4>2. ASSUME NEW j \in DOMAIN u PROVE u[j].domain # x
        BY <4>1, <1>0 DEF Known, Making
      <4> QED BY <4>1, <4>2
    <3>3. \A j \in DOMAIN u : Known(u[j])'
      BY <3>2, <2>8
    <3>4. Distinct(u)
      BY <1>0, <3>1 DEF Sound, Distinct
    <3>5. /\ \A k \in DOMAIN Insert(u, w) :
               Insert(u, w)[k] = w \/ \E j \in DOMAIN u : Insert(u, w)[k] = u[j]
          /\ Distinct(Insert(u, w))
      <4>1. \A j \in DOMAIN u : u[j].domain # w.domain
        BY <3>1, <3>2
      <4> HIDE DEF q, x, s, t, text, e
      <4>2. \A k \in DOMAIN Insert(u, w) :
              Insert(u, w)[k] = w \/ \E j \in DOMAIN u : Insert(u, w)[k] = u[j]
        BY InsertProperties
      <4>3. Distinct(Insert(u, w))
        BY <3>4, <4>1, InsertProperties
      <4> QED BY <4>2, <4>3
    <3>6. Known(w)'
      BY <3>1, <2>9
    <3>7. Sound(Insert(u, w))'
      BY <3>3, <3>5, <3>6 DEF Sound, Distinct
    <3> QED BY <3>1, <3>7, <2>5
  <2>11. \A o \in made'.modules : Known(o)'
    BY <1>0, <2>3, <2>6, <2>8, <2>9 DEF ModulesOK, TypeOK
  <2>12. MakesModule(c)' /\ Renames(c)'
    BY <2>4 DEF MakesModule, Renames, Making
  <2>13. NoDirLeft'
    BY <1>1, <2>3, <2>4, <2>6, NoDirFrame
  <2>14. MigrationsOK' /\ ArchiveOK'
    BY <1>0, <1>1, <2>4, <2>6, MigrationsFrame, ArchiveFrame
  <2> QED BY <2>7, <2>8, <2>10, <2>11, <2>12, <2>13, <2>14 DEF IInv, ModulesOK
<1> QED BY <1>2, <1>3

LEMMA InvUndoModule ==
  ASSUME IInv, NEW c \in Commands, NEW ok \in BOOLEAN, UndoModule(c, ok)
  PROVE  IInv'
<1> DEFINE x == run[c].entry.domain
<1>0. /\ TypeOK /\ ModulesOK /\ run[c].stage = "undo" /\ x \in Domains /\ dirs[x] \in Dir
  <2>1. run[c].stage = "undo"
    BY DEF UndoModule, At
  <2> QED BY <2>1, MakingFacts DEF IInv, Making
<1>1. UNCHANGED <<files, migrations, archive, made, starts, raced>>
  BY DEF UndoModule, At
<1>2. /\ dirs' \in [Domains -> Dir \cup {None}]
      /\ \A y \in Domains : y # x => dirs'[y] = dirs[y]
      /\ ok => dirs'[x] = None
  <2>1. PICK left \in 0 .. dirs[x].files :
          dirs' = [dirs EXCEPT ![x] = IF ok THEN None ELSE [dirs[x] EXCEPT !.files = left]]
    BY DEF UndoModule
  <2>2. [dirs[x] EXCEPT !.files = left] \in Dir
    BY <1>0 DEF Dir, Generated
  <2> HIDE DEF x
  <2> QED BY <1>0, <2>1, <2>2 DEF TypeOK
<1>3. /\ spoiled' \in [dirs : SUBSET Domains, migrations : SUBSET Migration,
                        project : BOOLEAN, archive : BOOLEAN]
      /\ spoiled.dirs \subseteq spoiled'.dirs /\ (~ok => x \in spoiled'.dirs)
      /\ spoiled'.migrations = spoiled.migrations /\ spoiled'.archive = spoiled.archive
  <2>1. spoiled' = IF ok THEN spoiled ELSE [spoiled EXCEPT !.dirs = @ \cup {x}]
    BY DEF UndoModule
  <2> HIDE DEF x
  <2> QED BY <1>0, <2>1 DEF TypeOK
<1>4. run' \in [Commands -> Run] /\ run'[c].stage = "idle" /\ Others(c)
  BY <1>0, RunEnded DEF UndoModule
<1>5. TypeOK'
  BY <1>0, <1>1, <1>2, <1>3, <1>4 DEF TypeOK
<1>6. /\ \A e \in Entry \cup Import : Known(e) => Known(e)'
      /\ \A s \in Seq(Import) : Sound(s) => Sound(s)'
      /\ \A d \in Commands \ {c} : MakesModule(d)' /\ Renames(d)'
  BY <1>0, <1>2, <1>4, <1>5, ModulesKept DEF Making
<1>7. Sound(Routes)' /\ \A e \in made'.modules : Known(e)'
  <2>1. PICK s \in Seq(Import) : s = Routes
    BY <1>0, RoutesTyped
  <2>2. Sound(s)' /\ Routes' = s
    BY <1>0, <1>1, <2>1, <1>6 DEF ModulesOK, Routes
  <2>3. Sound(Routes)'
    BY <2>2
  <2> QED BY <2>3, <1>0, <1>1, <1>6 DEF ModulesOK, TypeOK
<1>8. MakesModule(c)' /\ Renames(c)'
  BY <1>4 DEF MakesModule, Renames, Making
<1>9. NoDirLeft'
  <2> SUFFICES ASSUME NEW y \in Domains, dirs'[y] # None
               PROVE  \/ y \in {e.domain : e \in made'.modules \cup Entries(Installed)} \cup spoiled'.dirs
                      \/ \E d \in Commands : run'[d].stage \in {"write", "replace", "undo"}
                                               /\ run'[d].entry.domain = y
    BY DEF NoDirLeft
  <2>1. CASE y = x
    BY <2>1, <1>2, <1>3
  <2>2. CASE y # x
    <3>1. dirs[y] # None
      BY <2>2, <1>2
    <3>2. \A d \in Commands : run[d].stage \in Making /\ run[d].entry.domain = y => run'[d] = run[d]
      BY <2>2, <1>4 DEF Others
    <3>3. \/ y \in {e.domain : e \in made.modules \cup Entries(Installed)} \cup spoiled.dirs
          \/ \E d \in Commands : run[d].stage \in {"write", "replace", "undo"}
                                   /\ run[d].entry.domain = y
      BY <3>1, <1>0 DEF ModulesOK, NoDirLeft
    <3> HIDE DEF x
    <3> QED BY <3>2, <3>3, <1>1, <1>3 DEF Making
  <2> QED BY <2>1, <2>2
<1>10. MigrationsOK' /\ ArchiveOK'
  BY <1>0, <1>1, <1>3, <1>4, MigrationsFrame, ArchiveFrame
<1> QED BY <1>5, <1>6, <1>7, <1>8, <1>9, <1>10 DEF IInv, ModulesOK

-----------------------------------------------------------------------------
(* migration new                                                           *)

LEMMA InvNewMigration ==
  ASSUME IInv, NEW c \in Commands, NEW n \in Names, NewMigration(c, n)
  PROVE  IInv'
<1> DEFINE new == [NoRun EXCEPT !.stage = "up", !.name = n, !.version = Latest(migrations) + 1]
<1>0. TypeOK /\ MigrationsOK /\ run[c].stage = "idle"
  BY DEF IInv, NewMigration, Begin
<1>1. Latest(migrations) \in Nat
  <2> DEFINE S == {m.version : m \in migrations}
  <2>1. CASE migrations = {}
    BY <2>1 DEF Latest
  <2>2. CASE migrations # {}
    <3>1. S \subseteq 0 .. MaxVersion /\ S # {} /\ MaxVersion \in Nat
      BY <2>2, TreeAssumption DEF NewMigration, Valid, TreeAssumption
    <3>2. Latest(migrations) = Greatest(S)
      BY <2>2, Zenon DEF Latest
    <3> HIDE DEF S
    <3>3. Greatest(S) \in S
      BY <3>1, GreatestIn
    <3>4. S \subseteq Nat
      BY <3>1
    <3> QED BY <3>2, <3>3, <3>4, Zenon
  <2> QED BY <2>1, <2>2
<1>2. new \in Run /\ new.stage = "up" /\ new.name = n
  <2>1. Latest(migrations) + 1 \in Nat
    BY <1>1
  <2>2. PICK v \in Nat : v = Latest(migrations) + 1
    BY <2>1
  <2>3. new = [NoRun EXCEPT !.stage = "up", !.name = n, !.version = v]
    BY <2>2, Zenon
  <2> HIDE DEF new
  <2> QED BY <2>3 DEF NoRun, Run, Stages
<1>3. run' = [run EXCEPT ![c] = new]
  BY DEF NewMigration, Begin
<1> HIDE DEF new
<1>4. run' \in [Commands -> Run] /\ run'[c] = new /\ Others(c)
  BY <1>0, <1>2, <1>3, RunReplaced
<1>5. UNCHANGED <<files, dirs, migrations, archive, made, spoiled>>
  BY DEF NewMigration, Begin, tree
<1>6. TypeOK'
  BY <1>0, <1>4, <1>5 DEF TypeOK, NewMigration, Begin
<1>7. ModulesOK'
  BY <1>0, <1>2, <1>4, <1>5, <1>6, ModulesFrame DEF Carrying, Making
<1>8. MigrationsOK'
  <2>1. ASSUME NEW d \in Commands PROVE MakesMigration(d)'
    <3>1. n # None
      BY TreeAssumption DEF TreeAssumption
    <3>2. CASE d = c
      BY <3>1, <3>2, <1>2, <1>4 DEF MakesMigration
    <3>3. CASE d # c
      BY <3>3, <1>0, <1>2, <1>4, <1>5 DEF MigrationsOK, MakesMigration, New, Others
    <3> QED BY <3>2, <3>3
  <2>2. NoMigrationLeft'
    BY <1>0, <1>4, <1>5 DEF MigrationsOK, NoMigrationLeft, New, Others
  <2> QED BY <2>1, <2>2, <1>0, <1>5 DEF MigrationsOK
<1>9. ArchiveOK'
  BY <1>0, <1>2, <1>4, <1>5, ArchiveFrame
<1> QED BY <1>6, <1>7, <1>8, <1>9 DEF IInv

LEMMA InvWriteUp ==
  ASSUME IInv, NEW c \in Commands, NEW ok \in BOOLEAN, WriteUp(c, ok)
  PROVE  IInv'
<1> DEFINE up == New(c, "up")
<1>0. /\ TypeOK /\ MigrationsOK /\ run[c].stage = "up" /\ run[c] \in Run
      /\ up \in Migration
  <2>1. TypeOK /\ MigrationsOK /\ run[c].stage = "up" /\ run[c] \in Run
    BY DEF IInv, TypeOK, WriteUp, At
  <2>2. run[c].name \in Names
    BY <2>1 DEF MigrationsOK, MakesMigration, Run
  <2> QED BY <2>1, <2>2 DEF New, Migration, Run
<1>1. UNCHANGED <<files, dirs, archive, made, spoiled, starts, raced>>
  BY DEF WriteUp, At
<1>2. CASE ~ok \/ up \in migrations
  <2>1. run' \in [Commands -> Run] /\ run'[c].stage = "idle" /\ Others(c) /\ UNCHANGED migrations
    BY <1>0, <1>2, RunEnded DEF WriteUp
  <2>2. TypeOK'
    BY <1>0, <1>1, <2>1 DEF TypeOK
  <2>3. ModulesOK'
    BY <1>0, <1>1, <2>1, <2>2, ModulesFrame DEF Carrying, Making
  <2>4. MigrationsOK' /\ ArchiveOK'
    BY <1>0, <1>1, <2>1, MigrationsFrame, ArchiveFrame
  <2> QED BY <2>2, <2>3, <2>4 DEF IInv
<1>3. CASE ok /\ up \notin migrations
  <2>1. migrations' = migrations \cup {up} /\ To(c, "down")
    BY <1>3 DEF WriteUp
  <2>2. /\ run' \in [Commands -> Run] /\ Others(c)
        /\ run'[c] = [run[c] EXCEPT !.stage = "down"] /\ run'[c].stage = "down"
    BY <1>0, <2>1, RunGoesTo DEF Stages
  <2>3. run'[c].name = run[c].name /\ run'[c].version = run[c].version /\ New(c, "up")' = up
    BY <1>0, <2>2 DEF Run, New
  <2>4. TypeOK'
    BY <1>0, <1>1, <2>1, <2>2 DEF TypeOK
  <2>5. ModulesOK'
    BY <1>0, <1>1, <2>2, <2>4, ModulesFrame DEF Carrying, Making
  <2>6. MigrationsOK'
    <3> HIDE DEF up
    <3>1. \A d \in Commands \ {c} : run'[d].stage = "down" =>
            New(d, "up")' = New(d, "up") /\ New(d, "up") \in migrations \ made.migrations
      BY <1>0, <2>2 DEF MigrationsOK, MakesMigration, Others, New
    <3>2. MakesMigration(c)'
      BY <1>0, <1>1, <1>3, <2>1, <2>2, <2>3, <3>1 DEF MigrationsOK, MakesMigration
    <3>3. ASSUME NEW d \in Commands \ {c} PROVE MakesMigration(d)'
      <4>1. run'[d] = run[d] /\ MakesMigration(d)
        BY <1>0, <2>2 DEF Others, MigrationsOK
      <4>2. ASSUME run[d].stage = "down", NEW o \in Commands \ {d}, run'[o].stage = "down"
            PROVE  New(o, "up")' # New(d, "up")'
        <5>1. New(d, "up")' = New(d, "up") /\ New(d, "up") \in migrations
          BY <4>1, <4>2, <3>1
        <5>2. CASE o = c
          BY <5>1, <5>2, <1>3, <2>3
        <5>3. CASE o # c
          BY <5>1, <5>3, <4>1, <4>2, <3>1, <2>2 DEF MakesMigration, Others
        <5> QED BY <5>2, <5>3
      <4> QED BY <4>1, <4>2, <3>1, <1>1, <2>1 DEF MakesMigration
    <3>4. NoMigrationLeft'
      <4> SUFFICES ASSUME NEW m \in migrations'
                   PROVE  \/ m \in made'.migrations \cup spoiled'.migrations
                          \/ \E d \in Commands : run'[d].stage = "down" /\ m = New(d, "up")'
        BY DEF NoMigrationLeft
      <4>1. CASE m = up
        BY <4>1, <2>2, <2>3
      <4>2. ASSUME NEW d \in Commands, run[d].stage = "down", m = New(d, "up")
            PROVE  \E o \in Commands : run'[o].stage = "down" /\ m = New(o, "up")'
        BY <4>2, <1>0, <2>2, <3>1 DEF Others
      <4> QED BY <4>1, <4>2, <1>0, <1>1, <2>1 DEF MigrationsOK, NoMigrationLeft
    <3> QED BY <3>2, <3>3, <3>4, <1>0, <1>1, <2>1 DEF MigrationsOK
  <2>7. ArchiveOK'
    BY <1>0, <1>1, <2>2, ArchiveFrame
  <2> QED BY <2>4, <2>5, <2>6, <2>7 DEF IInv
<1> QED BY <1>2, <1>3

LEMMA InvWriteDown ==
  ASSUME IInv, NEW c \in Commands, NEW ok \in BOOLEAN, NEW removed \in BOOLEAN,
         WriteDown(c, ok, removed)
  PROVE  IInv'
<1> DEFINE up == New(c, "up")
           down == New(c, "down")
<1>0. /\ TypeOK /\ MigrationsOK /\ run[c].stage = "down" /\ run[c] \in Run
      /\ up \in Migration /\ down \in Migration /\ up \in migrations \ made.migrations
      /\ MakesMigration(c)
  <2>1. TypeOK /\ MigrationsOK /\ run[c].stage = "down" /\ run[c] \in Run /\ MakesMigration(c)
    BY DEF IInv, TypeOK, WriteDown, At, MigrationsOK
  <2>2. run[c].name \in Names /\ up \in migrations \ made.migrations
    BY <2>1 DEF MakesMigration, Run
  <2> QED BY <2>1, <2>2 DEF New, Migration, Run
<1>1. UNCHANGED <<files, dirs, archive, starts, raced>> /\ End(c)
  BY DEF WriteDown, At
<1>2. run' \in [Commands -> Run] /\ run'[c].stage = "idle" /\ Others(c)
  BY <1>0, <1>1, RunEnded
<1>3. /\ made' \in [modules : SUBSET Entry, migrations : SUBSET Migration, archive : BOOLEAN]
      /\ spoiled' \in [dirs : SUBSET Domains, migrations : SUBSET Migration,
                        project : BOOLEAN, archive : BOOLEAN]
      /\ made'.modules = made.modules /\ made'.archive = made.archive
      /\ spoiled'.dirs = spoiled.dirs /\ spoiled'.archive = spoiled.archive
      /\ \/ /\ migrations' = migrations \cup {down}
            /\ made'.migrations = made.migrations \cup {up, down}
            /\ spoiled'.migrations = spoiled.migrations
         \/ /\ migrations' = migrations \ {up}
            /\ made'.migrations = made.migrations /\ spoiled'.migrations = spoiled.migrations
         \/ /\ migrations' = migrations /\ made'.migrations = made.migrations
            /\ spoiled'.migrations = spoiled.migrations \cup {up}
  <2> DEFINE written == ok /\ down \notin migrations
  <2>1. /\ migrations' = IF written THEN migrations \cup {down}
                         ELSE IF removed THEN migrations \ {up} ELSE migrations
        /\ made' = IF written THEN [made EXCEPT !.migrations = @ \cup {up, down}] ELSE made
        /\ spoiled' = IF written \/ removed THEN spoiled
                      ELSE [spoiled EXCEPT !.migrations = @ \cup {up}]
    BY DEF WriteDown
  <2> HIDE DEF up, down, written
  <2>2. CASE written
    BY <2>1, <2>2, <1>0 DEF TypeOK
  <2>3. CASE ~written /\ removed
    BY <2>1, <2>3, <1>0 DEF TypeOK
  <2>4. CASE ~written /\ ~removed
    BY <2>1, <2>4, <1>0 DEF TypeOK
  <2> QED BY <2>2, <2>3, <2>4
<1>4. TypeOK'
  <2> HIDE DEF up, down
  <2> QED BY <1>0, <1>1, <1>2, <1>3 DEF TypeOK
<1>5. ModulesOK'
  BY <1>0, <1>1, <1>2, <1>3, <1>4, ModulesFrame DEF Carrying, Making
<1>6. MigrationsOK'
  <2>1. up # down /\ \A d \in Commands : New(d, "up") # down
    BY DEF New
  <2> HIDE DEF up, down
  <2>2. \A d \in Commands \ {c} : run'[d].stage = "down" =>
          /\ New(d, "up")' = New(d, "up") /\ New(d, "up") \in migrations \ made.migrations
          /\ New(d, "up") # up
    BY <1>0, <1>2 DEF MigrationsOK, MakesMigration, Others, New, up
  <2>3. ASSUME NEW d \in Commands PROVE MakesMigration(d)'
    <3>1. CASE d = c
      BY <3>1, <1>2 DEF MakesMigration
    <3>2. CASE d # c
      <4>1. run'[d] = run[d] /\ MakesMigration(d)
        BY <1>0, <1>2, <3>2 DEF Others, MigrationsOK
      <4>2. run[d].stage = "down" => New(d, "up")' \in migrations' \ made'.migrations
        BY <3>2, <4>1, <2>1, <2>2, <1>3
      <4>3. ASSUME run[d].stage = "down", NEW o \in Commands \ {d}, run'[o].stage = "down"
            PROVE  New(o, "up")' # New(d, "up")'
        <5>1. o # c
          BY <4>3, <1>2
        <5> QED BY <5>1, <3>2, <4>1, <4>3, <2>2, <1>2 DEF MakesMigration, Others
      <4> QED BY <4>1, <4>2, <4>3 DEF MakesMigration
    <3> QED BY <3>1, <3>2
  <2>4. NoMigrationLeft'
    <3> SUFFICES ASSUME NEW m \in migrations'
                 PROVE  \/ m \in made'.migrations \cup spoiled'.migrations
                        \/ \E d \in Commands : run'[d].stage = "down" /\ m = New(d, "up")'
      BY DEF NoMigrationLeft
    <3>1. CASE m = up \/ m \notin migrations
      BY <3>1, <1>3
    <3>2. ASSUME NEW d \in Commands, run[d].stage = "down", m = New(d, "up"), m # up
          PROVE  \E o \in Commands : run'[o].stage = "down" /\ m = New(o, "up")'
      <4>1. d # c
        BY <3>2 DEF up
      <4> QED BY <4>1, <3>2, <2>2, <1>2 DEF Others
    <3> QED BY <3>1, <3>2, <1>0, <1>3 DEF MigrationsOK, NoMigrationLeft
  <2>5. made'.migrations \subseteq migrations'
    BY <1>0, <1>3 DEF MigrationsOK
  <2> QED BY <2>3, <2>4, <2>5 DEF MigrationsOK
<1>7. ArchiveOK'
  BY <1>0, <1>1, <1>2, <1>3, ArchiveFrame
<1> QED BY <1>4, <1>5, <1>6, <1>7 DEF IInv

-----------------------------------------------------------------------------
(* project init                                                            *)

\* What a renaming begins with.
Renaming(id, old, texts, todo) ==
    [NoRun EXCEPT !.stage = "scan", !.id = id, !.old = old, !.texts = texts, !.todo = todo]

LEMMA BeginsRenaming ==
  ASSUME NEW id \in Ids, NEW old \in SUBSET Ids, NEW texts \in [Paths -> Content],
         NEW todo \in SUBSET Paths
  PROVE  LET new == Renaming(id, old, texts, todo) IN
         /\ new \in Run /\ new.stage = "scan" /\ new.id = id /\ new.texts = texts
         /\ new.todo = todo /\ new.old = old /\ new.done = {}
<1> DEFINE r1 == [NoRun EXCEPT !.stage = "scan"]
           r2 == [r1 EXCEPT !.id = id]
           r3 == [r2 EXCEPT !.old = old]
           r4 == [r3 EXCEPT !.texts = texts]
           r5 == [r4 EXCEPT !.todo = todo]
<1>0. Renaming(id, old, texts, todo) = r5
  BY DEF Renaming
<1>1. r1 \in Run /\ r1.stage = "scan" /\ r1.done = {}
  BY NoRunTyped DEF NoRun, Run, Stages
<1> HIDE DEF r1
<1>2. r2 \in Run /\ r2.stage = r1.stage /\ r2.id = id /\ r2.done = r1.done
  BY <1>1 DEF Run
<1> HIDE DEF r2
<1>3. r3 \in Run /\ r3.stage = r2.stage /\ r3.id = r2.id /\ r3.old = old /\ r3.done = r2.done
  BY <1>2 DEF Run
<1> HIDE DEF r3
<1>4. /\ r4 \in Run /\ r4.stage = r3.stage /\ r4.id = r3.id /\ r4.old = r3.old
      /\ r4.texts = texts /\ r4.done = r3.done
  BY <1>3 DEF Run
<1> HIDE DEF r4
<1>5. /\ r5 \in Run /\ r5.stage = r4.stage /\ r5.id = r4.id /\ r5.texts = r4.texts
      /\ r5.todo = todo /\ r5.old = r4.old /\ r5.done = r4.done
  BY <1>4 DEF Run
<1> HIDE DEF r5
<1> QED BY <1>0, <1>1, <1>2, <1>3, <1>4, <1>5

LEMMA InvInitProject ==
  ASSUME IInv, NEW c \in Commands, NEW id \in Ids, InitProject(c, id)
  PROVE  IInv'
<1> DEFINE old == {files[GoMod].id, files[ConfigYaml].id}
           new == [NoRun EXCEPT !.stage = "scan", !.id = id, !.old = old,
                                !.texts = files, !.todo = Paths]
<1>0. TypeOK /\ Sound(Routes) /\ run[c].stage = "idle" /\ Paths # {}
  BY TreeAssumption DEF IInv, ModulesOK, InitProject, Begin, TreeAssumption
<1>1. /\ new \in Run /\ new.stage = "scan" /\ new.texts = files /\ new.texts # None
      /\ new.id = id /\ new.id # None /\ new.todo # {}
  <2>1. old \subseteq Ids
    <3>1. files[GoMod].id \in Ids /\ files[ConfigYaml].id \in Ids
      BY <1>0, TreeAssumption DEF TypeOK, TreeAssumption, Content
    <3> HIDE DEF new
    <3> QED BY <3>1
  <2>3. files \in [Paths -> Content]
    BY <1>0 DEF TypeOK
  <2>4. files # None /\ id # None
    BY <2>3, TreeAssumption DEF TreeAssumption
  <2> HIDE DEF old
  <2>5. PICK o \in SUBSET Ids, t \in [Paths -> Content], d \in SUBSET Paths :
          o = old /\ t = files /\ d = Paths
    BY <2>1, <2>3
  <2>6. new = Renaming(id, o, t, d)
    BY <2>5, Zenon DEF Renaming
  <2> HIDE DEF new
  <2>7. new \in Run /\ new.stage = "scan" /\ new.id = id /\ new.texts = t /\ new.todo = d
    BY <2>6, BeginsRenaming
  <2> QED BY <1>0, <2>4, <2>5, <2>7
<1>2. run' = [run EXCEPT ![c] = new]
  BY DEF InitProject, Begin
<1> HIDE DEF new
<1>3. run' \in [Commands -> Run] /\ run'[c] = new /\ Others(c)
  BY <1>0, <1>1, <1>2, RunReplaced
<1>4. UNCHANGED <<files, dirs, migrations, archive, made, spoiled>>
  BY DEF InitProject, Begin, tree
<1>5. TypeOK'
  BY <1>0, <1>3, <1>4 DEF TypeOK, InitProject, Begin
<1>6. ModulesOK'
  <2>1. Routes \in Seq(Import) /\ files'[ModulesGo].imports = Routes
        /\ run'[c].texts[ModulesGo].imports = Routes
    BY <1>0, <1>1, <1>3, <1>4, RoutesTyped DEF Routes
  <2> QED BY <1>0, <1>1, <1>3, <1>4, <1>5, <2>1, ModulesUnmade DEF Making
<1>7. MigrationsOK' /\ ArchiveOK'
  BY <1>0, <1>1, <1>3, <1>4, MigrationsFrame, ArchiveFrame
<1> QED BY <1>5, <1>6, <1>7 DEF IInv

\* What a renaming carries.
LEMMA RenamingFacts ==
  ASSUME IInv, NEW c \in Commands, run[c].stage \in {"scan", "apply", "restore"}
  PROVE  /\ run[c] \in Run /\ run[c].texts \in [Paths -> Content] /\ run[c].id \in Ids
         /\ run[c].texts # None /\ run[c].id # None
         /\ run[c].texts[ModulesGo].imports \in Seq(Import)
         /\ Sound(run[c].texts[ModulesGo].imports)
<1>1. run[c] \in Run /\ Renames(c)
  BY DEF IInv, TypeOK, ModulesOK
<1>2. run[c].texts \in [Paths -> Content] /\ run[c].id \in Ids
  BY <1>1 DEF Renames, Run
<1>3. run[c].texts[ModulesGo].imports \in Seq(Import)
  BY <1>2, TreeAssumption DEF TreeAssumption, Content
<1> QED BY <1>1, <1>2, <1>3 DEF Renames

\* A step of a renaming: the command goes on with the same texts or ends, and
\* modules.go has what it had or a sound list.
LEMMA RenamingStep ==
  ASSUME IInv, TypeOK', NEW c \in Commands, Others(c), run[c].stage \in {"apply", "restore"},
         UNCHANGED <<dirs, migrations, archive, made>>,
         spoiled'.dirs = spoiled.dirs, spoiled'.migrations = spoiled.migrations,
         spoiled'.archive = spoiled.archive,
         \/ run'[c].stage \in {"idle", "finish"}
         \/ /\ run'[c].stage \in {"apply", "restore"}
            /\ run'[c].texts = run[c].texts /\ run'[c].id = run[c].id
            /\ run'[c].stage = "apply" => run'[c].todo # {},
         NEW routes \in Seq(Import), Sound(routes), files'[ModulesGo].imports = routes
  PROVE  IInv'
<1>1. ModulesOK'
  <2>1. /\ run[c].texts # None /\ run[c].id # None
        /\ run[c].texts[ModulesGo].imports \in Seq(Import)
        /\ Sound(run[c].texts[ModulesGo].imports)
    BY RenamingFacts
  <2>2. PICK s \in Seq(Import) : s = run[c].texts[ModulesGo].imports
    BY <2>1
  <2>3. /\ Sound(s)
        /\ run'[c].stage \in {"scan", "apply", "restore"} =>
             /\ run'[c].texts # None /\ run'[c].id # None
             /\ run'[c].texts[ModulesGo].imports = s
        /\ run'[c].stage \in {"scan", "apply"} => run'[c].todo # {}
    BY <2>1, <2>2
  <2> QED BY <2>3, ModulesUnmade DEF Making
<1>2. MigrationsOK' /\ ArchiveOK'
  BY MigrationsFrame, ArchiveFrame
<1> QED BY <1>1, <1>2 DEF IInv

\* What reading a file makes of a renaming's command: the text is the file's, and
\* it goes on reading, goes on to change files, or ends.
Scanned(c, new) ==
    LET q == run[c] IN
    /\ new.texts = [q.texts EXCEPT ![Least(q.todo)] = files[Least(q.todo)]]
    /\ new.id = q.id /\ new.old = q.old
    /\ \/ /\ new.stage = "scan"
          /\ new.todo = q.todo \ {Least(q.todo)} /\ q.todo # {Least(q.todo)}
       \/ /\ new.stage = "apply" /\ new.done = {}
          /\ new.todo # {} /\ q.todo = {Least(q.todo)}
    /\ LET changes == IF Renamed(files[Least(q.todo)], q.old, q.id) = files[Least(q.todo)]
                      THEN q.done ELSE q.done \cup {Least(q.todo)}
       IN  IF new.stage = "scan" THEN new.done = changes ELSE new.todo = changes

LEMMA ScanEffect ==
  ASSUME IInv, NEW c \in Commands, ScanFile(c)
  PROVE  /\ TypeOK /\ run[c].stage = "scan" /\ Others(c) /\ run' \in [Commands -> Run]
         /\ UNCHANGED <<files, dirs, migrations, archive, made, spoiled, starts, raced>>
         /\ Least(run[c].todo) \in run[c].todo /\ Least(run[c].todo) \in Paths
         /\ run'[c].stage = "idle" \/ Scanned(c, run'[c])
<1> DEFINE q == run[c]
           p == Least(q.todo)
           changes == IF Renamed(files[p], q.old, q.id) = files[p] THEN q.done ELSE q.done \cup {p}
           texts == [q.texts EXCEPT ![p] = files[p]]
           read == [q EXCEPT !.texts = texts]
<1>0. /\ TypeOK /\ q.stage = "scan" /\ q \in Run /\ files \in [Paths -> Content]
      /\ q.texts \in [Paths -> Content] /\ q.todo # {} /\ q.todo \subseteq Paths
      /\ q.done \subseteq Paths
  <2>1. TypeOK /\ q.stage = "scan" /\ q \in Run /\ Renames(c)
    BY DEF IInv, ModulesOK, TypeOK, ScanFile, At
  <2> QED BY <2>1, RenamingFacts DEF Renames, Run, TypeOK
<1>1. p \in q.todo /\ p \in Paths
  <2>1. q.todo \subseteq Nat
    BY <1>0, TreeAssumption DEF TreeAssumption
  <2> QED BY <1>0, <2>1, LeastIn
<1>2. UNCHANGED <<files, dirs, migrations, archive, made, spoiled, starts, raced>>
  BY DEF ScanFile, At, tree
<1>3. changes \subseteq Paths /\ texts \in [Paths -> Content]
  BY <1>0, <1>1
<1> HIDE DEF p, changes, texts
<1>4. /\ read \in Run /\ read.texts = texts /\ read.id = q.id /\ read.old = q.old
      /\ read.stage = "scan" /\ read.todo = q.todo
  BY <1>0, <1>3 DEF Run
<1> HIDE DEF read
<1>5. CASE q.todo # {p}
  <2> DEFINE new == [read EXCEPT !.todo = @ \ {p}, !.done = changes]
  <2>1. run' = [run EXCEPT ![c] = new]
    BY <1>5 DEF ScanFile, p, changes, texts, read
  <2>2. /\ new \in Run /\ new.texts = texts /\ new.id = q.id /\ new.old = q.old
        /\ new.stage = "scan" /\ new.todo = q.todo \ {p} /\ new.done = changes
    BY <1>0, <1>3, <1>4 DEF Run
  <2> HIDE DEF new
  <2>3. run' \in [Commands -> Run] /\ run'[c] = new /\ Others(c)
    BY <1>0, <2>1, <2>2, RunReplaced
  <2>4. Scanned(c, new)
    BY <1>5, <2>2 DEF Scanned, p, changes, texts
  <2> QED BY <1>0, <1>1, <1>2, <2>3, <2>4 DEF p
<1>6. CASE q.todo = {p} /\ changes # {}
  <2> DEFINE new == [read EXCEPT !.stage = "apply", !.todo = changes, !.done = {}]
  <2>1. run' = [run EXCEPT ![c] = new]
    BY <1>6 DEF ScanFile, p, changes, texts, read
  <2>2. /\ new \in Run /\ new.texts = texts /\ new.id = q.id /\ new.old = q.old
        /\ new.stage = "apply" /\ new.todo = changes /\ new.done = {}
    BY <1>0, <1>3, <1>4 DEF Run, Stages
  <2> HIDE DEF new
  <2>3. run' \in [Commands -> Run] /\ run'[c] = new /\ Others(c)
    BY <1>0, <2>1, <2>2, RunReplaced
  <2>4. Scanned(c, new)
    BY <1>6, <2>2 DEF Scanned, p, changes, texts
  <2> QED BY <1>0, <1>1, <1>2, <2>3, <2>4 DEF p
<1>7. CASE q.todo = {p} /\ changes = {}
  <2>1. End(c)
    BY <1>7 DEF ScanFile, p, changes
  <2> QED BY <1>0, <1>1, <1>2, <2>1, RunEnded DEF p
<1> QED BY <1>5, <1>6, <1>7

LEMMA InvScanFile ==
  ASSUME IInv, NEW c \in Commands, ScanFile(c)
  PROVE  IInv'
<1>1. /\ TypeOK /\ run[c].stage = "scan" /\ Others(c) /\ run' \in [Commands -> Run]
      /\ UNCHANGED <<files, dirs, migrations, archive, made, spoiled, starts, raced>>
      /\ Least(run[c].todo) \in run[c].todo /\ Least(run[c].todo) \in Paths
      /\ run'[c].stage = "idle" \/ Scanned(c, run'[c])
  BY ScanEffect
<1>2. TypeOK'
  BY <1>1 DEF TypeOK
<1>3. PICK routes \in Seq(Import) : routes = Routes /\ Sound(routes)
  BY <1>1, RoutesTyped DEF IInv, ModulesOK, Routes
<1>4. PICK p \in Paths : p = Least(run[c].todo)
  BY <1>1
<1>5. /\ run[c].texts \in [Paths -> Content] /\ run[c].id # None
      /\ run[c].texts[ModulesGo].imports \in Seq(Import)
      /\ Sound(run[c].texts[ModulesGo].imports)
  BY <1>1, RenamingFacts
<1>6. \E s \in Seq(Import) :
        /\ Sound(s)
        /\ run'[c].stage # "idle" =>
             /\ run'[c].texts # None /\ run'[c].id # None
             /\ run'[c].texts[ModulesGo].imports = s /\ run'[c].todo # {}
  <2>1. CASE run'[c].stage = "idle"
    BY <1>3, <2>1
  <2>2. CASE Scanned(c, run'[c])
    <3>1. /\ run'[c].texts = [run[c].texts EXCEPT ![p] = files[p]] /\ run'[c].id = run[c].id
          /\ run'[c].todo # {}
      BY <1>1, <1>4, <2>2 DEF Scanned
    <3>2. run'[c].texts \in [Paths -> Content] /\ run'[c].texts # None
      <4>1. files[p] \in Content
        BY <1>1 DEF TypeOK
      <4>2. run'[c].texts \in [Paths -> Content]
        BY <1>5, <3>1, <4>1
      <4> QED BY <4>2, TreeAssumption DEF TreeAssumption
    <3>3. /\ p = ModulesGo => run'[c].texts[ModulesGo].imports = routes
          /\ p # ModulesGo => run'[c].texts[ModulesGo].imports = run[c].texts[ModulesGo].imports
      BY <1>3, <1>5, <3>1, TreeAssumption DEF TreeAssumption, Routes
    <3> QED BY <1>3, <1>5, <3>1, <3>2, <3>3
  <2> QED BY <1>1, <2>1, <2>2
<1>7. PICK s \in Seq(Import) :
        /\ Sound(s)
        /\ run'[c].stage # "idle" =>
             /\ run'[c].texts # None /\ run'[c].id # None
             /\ run'[c].texts[ModulesGo].imports = s /\ run'[c].todo # {}
  BY <1>6
<1>8. run'[c].stage \in {"idle", "scan", "apply"}
  BY <1>1 DEF Scanned
<1>9. ModulesOK'
  BY <1>1, <1>2, <1>3, <1>7, <1>8, ModulesUnmade DEF Making, Routes
<1>10. MigrationsOK' /\ ArchiveOK'
  BY <1>1, <1>8, MigrationsFrame, ArchiveFrame
<1> QED BY <1>2, <1>9, <1>10 DEF IInv

LEMMA InvApplyFile ==
  ASSUME IInv, NEW c \in Commands, NEW ok \in BOOLEAN, ApplyFile(c, ok)
  PROVE  IInv'
<1> DEFINE q == run[c]
           p == Least(q.todo)
           text == Renamed(q.texts[p], q.old, q.id)
           next == IF q.todo = {p} THEN "finish" ELSE "apply"
           new == [q EXCEPT !.todo = @ \ {p}, !.done = @ \cup {p}, !.stage = next]
<1>0. /\ TypeOK /\ Sound(Routes) /\ q.stage = "apply" /\ q \in Run
      /\ q.texts \in [Paths -> Content] /\ q.id \in Ids /\ q.old \in SUBSET Ids /\ p \in Paths
      /\ p \in q.todo
  <2>1. TypeOK /\ Sound(Routes) /\ q.stage = "apply" /\ q \in Run /\ Renames(c)
    BY DEF IInv, ModulesOK, TypeOK, ApplyFile, At
  <2>2. q.texts \in [Paths -> Content] /\ q.id \in Ids
    BY <2>1, RenamingFacts
  <2>3. q.todo # {} /\ q.todo \subseteq Paths /\ q.todo \subseteq Nat /\ q.old \in SUBSET Ids
    BY <2>1, TreeAssumption DEF Renames, Run, TreeAssumption
  <2>4. p \in q.todo
    BY <2>3, LeastIn
  <2> QED BY <2>1, <2>2, <2>3, <2>4
<1>1. UNCHANGED <<dirs, migrations, archive, made, spoiled, starts, raced>>
  BY DEF ApplyFile, At
<1>2. CASE ok
  <2>1. files' = [files EXCEPT ![p] = text] /\ run' = [run EXCEPT ![c] = new]
    BY <1>2 DEF ApplyFile
  <2>2. /\ text \in Content
        /\ DOMAIN text.imports = DOMAIN q.texts[p].imports
        /\ \A i \in DOMAIN text.imports :
             /\ text.imports[i].domain = q.texts[p].imports[i].domain
             /\ text.imports[i].realm = q.texts[p].imports[i].realm
    <3>1. q.texts[p] \in Content
      BY <1>0
    <3> HIDE DEF p, q
    <3> QED BY <3>1, <1>0, RenamedProperties
  <2> HIDE DEF p, text
  <2>3. next \in Stages /\ (next = "apply" => q.todo \ {p} # {})
    BY <1>0 DEF Stages
  <2>4. /\ new \in Run /\ new.stage = next /\ new.texts = q.texts /\ new.id = q.id
        /\ new.todo = q.todo \ {p}
    <3> HIDE DEF next
    <3> QED BY <1>0, <2>3 DEF Run
  <2>5. run' \in [Commands -> Run] /\ run'[c] = new /\ Others(c)
    <3> HIDE DEF new
    <3> QED BY <1>0, <2>1, <2>4, RunReplaced
  <2> HIDE DEF new
  <2>6. files' \in [Paths -> Content]
    BY <1>0, <2>1, <2>2 DEF TypeOK
  <2>7. TypeOK'
    BY <1>0, <1>1, <2>5, <2>6 DEF TypeOK
  <2>8. \E routes \in Seq(Import) : Sound(routes) /\ files'[ModulesGo].imports = routes
    <3>1. CASE p = ModulesGo
      <4>1. files'[ModulesGo] = text
        BY <3>1, <1>0, <2>1 DEF TypeOK
      <4>2. Sound(q.texts[p].imports)
        BY <1>0, <3>1, RenamingFacts
      <4>3. text.imports \in Seq(Import)
        BY SMTT(30), <2>2 DEF Content
      <4>4. Sound(text.imports)
        BY <2>2, <4>2 DEF Sound, Known
      <4> QED BY <4>1, <4>3, <4>4
    <3>2. CASE p # ModulesGo
      <4>1. files'[ModulesGo].imports = Routes
        BY <3>2, <1>0, <2>1, TreeAssumption DEF TypeOK, TreeAssumption, Routes
      <4> QED BY <4>1, <1>0, RoutesTyped
    <3> QED BY <3>1, <3>2
  <2>9. PICK routes \in Seq(Import) : Sound(routes) /\ files'[ModulesGo].imports = routes
    BY <2>8
  <2>10. \/ run'[c].stage \in {"idle", "finish"}
         \/ /\ run'[c].stage \in {"apply", "restore"}
            /\ run'[c].texts = run[c].texts /\ run'[c].id = run[c].id
            /\ run'[c].stage = "apply" => run'[c].todo # {}
    BY <2>3, <2>4, <2>5
  <2> QED BY <1>0, <1>1, <2>5, <2>7, <2>9, <2>10, RenamingStep
<1>3. CASE ~ok
  <2>1. UNCHANGED files /\ IF q.done = {} THEN End(c) ELSE To(c, "restore")
    BY <1>3 DEF ApplyFile
  <2>2. /\ run' \in [Commands -> Run] /\ Others(c)
        /\ \/ run'[c].stage = "idle"
           \/ /\ run'[c].stage = "restore" /\ run'[c].texts = run[c].texts
              /\ run'[c].id = run[c].id
    <3>1. CASE q.done = {}
      BY <1>0, <2>1, <3>1, RunEnded
    <3>2. CASE q.done # {}
      <4>1. To(c, "restore")
        BY <2>1, <3>2
      <4>2. /\ run' \in [Commands -> Run] /\ Others(c)
            /\ run'[c] = [run[c] EXCEPT !.stage = "restore"] /\ run'[c].stage = "restore"
        BY <1>0, <4>1, RunGoesTo DEF Stages
      <4> QED BY <1>0, <4>2 DEF Run
    <3> QED BY <3>1, <3>2
  <2>3. TypeOK'
    BY <1>0, <1>1, <2>1, <2>2 DEF TypeOK
  <2>4. PICK routes \in Seq(Import) : Sound(routes) /\ files'[ModulesGo].imports = routes
    BY <1>0, <2>1, RoutesTyped DEF Routes
  <2> QED BY <1>0, <1>1, <2>2, <2>3, <2>4, RenamingStep
<1> QED BY <1>2, <1>3

LEMMA InvRestoreFile ==
  ASSUME IInv, NEW c \in Commands, NEW ok \in BOOLEAN, RestoreFile(c, ok)
  PROVE  IInv'
<1> DEFINE q == run[c]
           p == Greatest(q.done)
           new == [q EXCEPT !.done = @ \ {p}]
<1>0. /\ TypeOK /\ Sound(Routes) /\ q.stage = "restore" /\ q \in Run
      /\ q.texts \in [Paths -> Content]
  BY RenamingFacts DEF IInv, ModulesOK, TypeOK, RestoreFile, At
<1>1. UNCHANGED <<dirs, migrations, archive, made, starts, raced>>
  BY DEF RestoreFile, At
<1>2. /\ spoiled' \in [dirs : SUBSET Domains, migrations : SUBSET Migration,
                        project : BOOLEAN, archive : BOOLEAN]
      /\ spoiled'.dirs = spoiled.dirs /\ spoiled'.migrations = spoiled.migrations
      /\ spoiled'.archive = spoiled.archive
  <2>1. spoiled' = IF ok THEN spoiled ELSE [spoiled EXCEPT !.project = TRUE]
    BY DEF RestoreFile
  <2> QED BY <1>0, <2>1 DEF TypeOK
<1>3. /\ run' \in [Commands -> Run] /\ Others(c)
      /\ \/ run'[c].stage = "idle"
         \/ /\ run'[c].stage = "restore" /\ run'[c].texts = run[c].texts
            /\ run'[c].id = run[c].id
  <2>1. CASE q.done = {p}
    BY <1>0, <2>1, RunEnded DEF RestoreFile
  <2>2. CASE q.done # {p}
    <3>1. run' = [run EXCEPT ![c] = new]
      BY <2>2 DEF RestoreFile
    <3> HIDE DEF p
    <3>2. new \in Run /\ new.stage = q.stage /\ new.texts = q.texts /\ new.id = q.id
      BY <1>0 DEF Run
    <3> HIDE DEF new
    <3> QED BY <1>0, <3>1, <3>2, RunReplaced
  <2> QED BY <2>1, <2>2
<1>4. files' = IF ok THEN [files EXCEPT ![p] = q.texts[p]] ELSE files
  BY DEF RestoreFile
<1> HIDE DEF p
<1>5. files' \in [Paths -> Content]
  <2>1. CASE p \in Paths
    BY <1>0, <1>4, <2>1 DEF TypeOK
  <2>2. CASE p \notin Paths
    BY <1>0, <1>4, <2>2 DEF TypeOK
  <2> QED BY <2>1, <2>2
<1>6. TypeOK'
  BY <1>0, <1>1, <1>2, <1>3, <1>5 DEF TypeOK
<1>7. \E routes \in Seq(Import) : Sound(routes) /\ files'[ModulesGo].imports = routes
  <2>1. CASE ok /\ p = ModulesGo
    <3>1. files'[ModulesGo] = q.texts[ModulesGo]
      BY <1>0, <1>4, <2>1, TreeAssumption DEF TypeOK, TreeAssumption
    <3> QED BY <1>0, <3>1, RenamingFacts
  <2>2. CASE ~(ok /\ p = ModulesGo)
    <3>1. files'[ModulesGo].imports = Routes
      BY <1>0, <1>4, <2>2, TreeAssumption DEF TypeOK, TreeAssumption, Routes
    <3> QED BY <1>0, <3>1, RoutesTyped
  <2> QED BY <2>1, <2>2
<1>8. PICK routes \in Seq(Import) : Sound(routes) /\ files'[ModulesGo].imports = routes
  BY <1>7
<1> QED BY <1>0, <1>1, <1>2, <1>3, <1>6, <1>8, RenamingStep

LEMMA InvFinish ==
  ASSUME IInv, NEW c \in Commands, Finish(c)
  PROVE  IInv'
<1>0. TypeOK /\ run[c].stage = "finish" /\ run[c].stage \notin Making
  BY DEF IInv, Finish, At, Making
<1>1. UNCHANGED <<files, dirs, migrations, archive, made, spoiled, starts, raced>>
  BY DEF Finish, At, tree
<1>2. run' \in [Commands -> Run] /\ run'[c].stage = "idle" /\ Others(c)
  BY <1>0, RunEnded DEF Finish
<1>3. TypeOK'
  BY <1>0, <1>1, <1>2 DEF TypeOK
<1>4. ModulesOK'
  BY <1>0, <1>1, <1>2, <1>3, ModulesFrame DEF Carrying, Making
<1>5. MigrationsOK' /\ ArchiveOK'
  BY <1>0, <1>1, <1>2, MigrationsFrame, ArchiveFrame
<1> QED BY <1>3, <1>4, <1>5 DEF IInv

-----------------------------------------------------------------------------
(* release package                                                         *)

LEMMA InvPackageRelease ==
  ASSUME IInv, NEW c \in Commands, PackageRelease(c)
  PROVE  IInv'
<1> DEFINE new == [NoRun EXCEPT !.stage = "stage"]
<1>0. TypeOK /\ run[c].stage = "idle" /\ run[c].stage \notin Making
  BY DEF IInv, PackageRelease, Begin, Making
<1>1. UNCHANGED <<files, dirs, migrations, archive, made, spoiled>>
  BY DEF PackageRelease, Begin, tree
<1>2. new \in Run /\ new.stage = "stage"
  BY DEF NoRun, Run, Stages
<1>3. run' = [run EXCEPT ![c] = new]
  BY DEF PackageRelease, Begin
<1> HIDE DEF new
<1>4. run' \in [Commands -> Run] /\ run'[c].stage = "stage" /\ Others(c)
  BY <1>0, <1>2, <1>3, RunReplaced
<1>5. TypeOK'
  BY <1>0, <1>1, <1>4 DEF TypeOK, PackageRelease, Begin
<1>6. ModulesOK'
  BY <1>0, <1>1, <1>4, <1>5, ModulesFrame DEF Carrying, Making
<1>7. MigrationsOK' /\ ArchiveOK'
  BY <1>0, <1>1, <1>4, MigrationsFrame, ArchiveFrame
<1> QED BY <1>5, <1>6, <1>7 DEF IInv

LEMMA InvStage ==
  ASSUME IInv, NEW c \in Commands, NEW ok \in BOOLEAN, Stage(c, ok)
  PROVE  IInv'
<1> DEFINE new == [run[c] EXCEPT !.stage = "copy", !.picked = migrations]
<1>0. TypeOK /\ run[c].stage = "stage" /\ run[c].stage \notin Making /\ run[c] \in Run
  BY DEF IInv, Stage, At, Making, TypeOK
<1>1. UNCHANGED <<files, dirs, migrations, archive, made, spoiled, starts, raced>>
  BY DEF Stage, At, tree
<1>2. run' \in [Commands -> Run] /\ run'[c].stage \in {"copy", "idle"} /\ Others(c)
  <2>1. CASE ok
    <3>1. run' = [run EXCEPT ![c] = new]
      BY <2>1 DEF Stage
    <3>2. new \in Run /\ new.stage = "copy"
      BY <1>0 DEF Run, Stages, TypeOK
    <3> HIDE DEF new
    <3> QED BY <1>0, <3>1, <3>2, RunReplaced
  <2>2. CASE ~ok
    BY <1>0, <2>2, RunEnded DEF Stage
  <2> QED BY <2>1, <2>2
<1>3. TypeOK'
  BY <1>0, <1>1, <1>2 DEF TypeOK
<1>4. ModulesOK'
  BY <1>0, <1>1, <1>2, <1>3, ModulesFrame DEF Carrying, Making
<1>5. MigrationsOK' /\ ArchiveOK'
  BY <1>0, <1>1, <1>2, MigrationsFrame, ArchiveFrame
<1> QED BY <1>3, <1>4, <1>5 DEF IInv

LEMMA InvCopy ==
  ASSUME IInv, NEW c \in Commands, NEW ok \in BOOLEAN, Copy(c, ok)
  PROVE  IInv'
<1>0. TypeOK /\ run[c].stage = "copy" /\ run[c].stage \notin Making
  BY DEF IInv, Copy, At, Making
<1>1. UNCHANGED <<files, dirs, migrations, archive, made, spoiled, starts, raced>>
  BY DEF Copy, At, tree
<1>2. To(c, "create") \/ End(c)
  BY DEF Copy
<1>3. run' \in [Commands -> Run] /\ run'[c].stage \in {"create", "idle"} /\ Others(c)
  BY <1>0, <1>2, RunEnded, RunGoesTo DEF Stages
<1>4. TypeOK'
  BY <1>0, <1>1, <1>3 DEF TypeOK
<1>5. ModulesOK'
  BY <1>0, <1>1, <1>3, <1>4, ModulesFrame DEF Carrying, Making
<1>6. MigrationsOK' /\ ArchiveOK'
  BY <1>0, <1>1, <1>3, MigrationsFrame, ArchiveFrame
<1> QED BY <1>4, <1>5, <1>6 DEF IInv

LEMMA InvCreateArchive ==
  ASSUME IInv, NEW c \in Commands, NEW ok \in BOOLEAN, CreateArchive(c, ok)
  PROVE  IInv'
<1> DEFINE empty == [complete |-> FALSE, migrations |-> {}]
<1>0. TypeOK /\ ArchiveOK /\ run[c].stage = "create" /\ run[c].stage \notin Making
  BY DEF IInv, CreateArchive, At, Making
<1>1. UNCHANGED <<files, dirs, migrations, made, spoiled, starts, raced>>
  BY DEF CreateArchive, At
<1>2. CASE ~ok \/ archive # None
  <2>1. run' \in [Commands -> Run] /\ run'[c].stage = "idle" /\ Others(c) /\ UNCHANGED archive
    BY <1>0, <1>2, RunEnded DEF CreateArchive
  <2>2. TypeOK'
    BY <1>0, <1>1, <2>1 DEF TypeOK
  <2>3. ModulesOK'
    BY <1>0, <1>1, <2>1, <2>2, ModulesFrame DEF Carrying, Making
  <2>4. MigrationsOK' /\ ArchiveOK'
    BY <1>0, <1>1, <2>1, MigrationsFrame, ArchiveFrame
  <2> QED BY <2>2, <2>3, <2>4 DEF IInv
<1>3. CASE ok /\ archive = None
  <2>1. archive' = empty /\ To(c, "fill")
    BY <1>3 DEF CreateArchive
  <2>2. empty \in Archive /\ empty # None /\ ~empty.complete
    <3>1. empty \in Archive /\ ~empty.complete
      BY DEF Archive
    <3> HIDE DEF empty
    <3> QED BY <3>1, TreeAssumption DEF TreeAssumption
  <2> HIDE DEF empty
  <2>3. run' \in [Commands -> Run] /\ run'[c].stage = "fill" /\ Others(c)
    BY <1>0, <2>1, RunGoesTo DEF Stages
  <2>4. TypeOK'
    BY <1>0, <1>1, <2>1, <2>2, <2>3 DEF TypeOK
  <2>5. ModulesOK'
    BY <1>0, <1>1, <2>3, <2>4, ModulesFrame DEF Carrying, Making
  <2>6. MigrationsOK'
    BY <1>0, <1>1, <2>3, MigrationsFrame
  <2>7. \A d \in Commands \ {c} : run'[d].stage # "fill"
    BY <1>0, <1>3, <2>3 DEF ArchiveOK, Packages, Others
  <2>8. \A d \in Commands : Packages(d)'
    BY <2>1, <2>2, <2>7 DEF Packages
  <2>9. NoArchiveLeft' /\ ~made'.archive
    BY <1>0, <1>1, <1>3, <2>3 DEF NoArchiveLeft, ArchiveOK
  <2> QED BY <2>4, <2>5, <2>6, <2>8, <2>9 DEF IInv, ArchiveOK
<1> QED BY <1>2, <1>3

LEMMA InvFillArchive ==
  ASSUME IInv, NEW c \in Commands, NEW ok \in BOOLEAN, NEW removed \in BOOLEAN,
         FillArchive(c, ok, removed)
  PROVE  IInv'
<1> DEFINE whole == [complete |-> TRUE, migrations |-> run[c].picked]
<1>0. /\ TypeOK /\ ArchiveOK /\ run[c].stage = "fill" /\ run[c].stage \notin Making
      /\ whole \in Archive /\ whole # None /\ whole.complete
      /\ archive # None /\ ~archive.complete /\ ~made.archive
      /\ \A d \in Commands \ {c} : run[d].stage # "fill"
  <2>1. TypeOK /\ ArchiveOK /\ run[c].stage = "fill" /\ run[c].stage \notin Making
    BY DEF IInv, FillArchive, At, Making
  <2>2. whole \in Archive /\ whole.complete
    BY <2>1 DEF TypeOK, Run, Archive
  <2> HIDE DEF whole
  <2>3. whole # None
    BY <2>2, TreeAssumption DEF TreeAssumption
  <2> QED BY <2>1, <2>2, <2>3 DEF ArchiveOK, Packages
<1>1. UNCHANGED <<files, dirs, migrations, starts, raced>> /\ End(c)
  BY DEF FillArchive, At
<1>2. run' \in [Commands -> Run] /\ run'[c].stage = "idle" /\ Others(c)
  BY <1>0, <1>1, RunEnded
<1>3. /\ made' \in [modules : SUBSET Entry, migrations : SUBSET Migration, archive : BOOLEAN]
      /\ spoiled' \in [dirs : SUBSET Domains, migrations : SUBSET Migration,
                        project : BOOLEAN, archive : BOOLEAN]
      /\ made'.modules = made.modules /\ made'.migrations = made.migrations
      /\ spoiled'.dirs = spoiled.dirs /\ spoiled'.migrations = spoiled.migrations
      /\ \/ archive' = whole
         \/ archive' = None /\ made' = made
         \/ archive' = archive /\ made' = made /\ spoiled'.archive
  <2> HIDE DEF whole
  <2>1. /\ archive' = IF ok THEN whole ELSE IF removed THEN None ELSE archive
        /\ made' = IF ok THEN [made EXCEPT !.archive = TRUE] ELSE made
        /\ spoiled' = IF ok \/ removed THEN spoiled ELSE [spoiled EXCEPT !.archive = TRUE]
    BY DEF FillArchive, whole
  <2>2. CASE ok
    BY <2>1, <2>2, <1>0 DEF TypeOK
  <2>3. CASE ~ok /\ removed
    BY <2>1, <2>3, <1>0 DEF TypeOK
  <2>4. CASE ~ok /\ ~removed
    BY <2>1, <2>4, <1>0 DEF TypeOK
  <2> QED BY <2>2, <2>3, <2>4
<1> HIDE DEF whole
<1>4. TypeOK'
  BY <1>0, <1>1, <1>2, <1>3 DEF TypeOK
<1>5. ModulesOK'
  BY <1>0, <1>1, <1>2, <1>3, <1>4, ModulesFrame DEF Carrying, Making
<1>6. MigrationsOK'
  BY <1>0, <1>1, <1>2, <1>3, MigrationsFrame
<1>7. ArchiveOK'
  <2>1. \A d \in Commands : Packages(d)'
    BY <1>0, <1>2 DEF Packages, Others
  <2>2. NoArchiveLeft' /\ (made'.archive => archive' # None /\ archive'.complete)
    BY <1>0, <1>3 DEF NoArchiveLeft
  <2> QED BY <2>1, <2>2 DEF ArchiveOK
<1> QED BY <1>4, <1>5, <1>6, <1>7 DEF IInv

-----------------------------------------------------------------------------
(* A kill                                                                  *)

LEMMA InvKill ==
  ASSUME IInv, NEW c \in Commands, Kill(c)
  PROVE  IInv'
<1> DEFINE q == run[c]
           ds == IF q.stage \in Making THEN spoiled.dirs \cup {q.entry.domain} ELSE spoiled.dirs
           ms == IF q.stage = "down" THEN spoiled.migrations \cup {New(c, "up")}
                 ELSE spoiled.migrations
           pr == spoiled.project \/ q.stage = "restore" \/ (q.stage = "apply" /\ q.done # {})
           ar == spoiled.archive \/ q.stage = "fill"
<1>0. TypeOK /\ ModulesOK /\ MigrationsOK /\ ArchiveOK /\ q \in Run
  BY DEF IInv, TypeOK
<1>1. UNCHANGED <<files, dirs, migrations, archive, made, starts, raced>> /\ End(c)
  BY DEF Kill, tree
<1>2. run' \in [Commands -> Run] /\ run'[c].stage = "idle" /\ Others(c)
  BY <1>0, <1>1, RunEnded
<1>3. ds \in SUBSET Domains /\ ms \in SUBSET Migration /\ pr \in BOOLEAN /\ ar \in BOOLEAN
  <2>1. q.stage \in Making => q.entry.domain \in Domains
    BY MakingFacts
  <2>2. q.stage = "down" => New(c, "up") \in Migration
    BY <1>0 DEF MigrationsOK, MakesMigration, TypeOK
  <2>3. ds \in SUBSET Domains /\ ms \in SUBSET Migration
    BY <1>0, <2>1, <2>2 DEF TypeOK
  <2>4. pr \in BOOLEAN /\ ar \in BOOLEAN
    BY <1>0 DEF TypeOK
  <2> QED BY <2>3, <2>4
<1>4. spoiled' = [spoiled EXCEPT !.dirs = ds, !.migrations = ms, !.project = pr, !.archive = ar]
  BY DEF Kill, Making
<1> HIDE DEF ds, ms, pr, ar
<1>5. /\ spoiled' \in [dirs : SUBSET Domains, migrations : SUBSET Migration,
                        project : BOOLEAN, archive : BOOLEAN]
      /\ spoiled'.dirs = ds /\ spoiled'.migrations = ms /\ spoiled'.archive = ar
  BY <1>0, <1>3, <1>4 DEF TypeOK
<1>6. TypeOK'
  BY <1>0, <1>1, <1>2, <1>5 DEF TypeOK
<1>7. ModulesOK'
  <2>1. /\ \A e \in Entry \cup Import : Known(e) => Known(e)'
        /\ \A s \in Seq(Import) : Sound(s) => Sound(s)'
        /\ \A d \in Commands \ {c} : MakesModule(d)' /\ Renames(d)'
    BY <1>1, <1>2, <1>6, ModulesKept DEF Making
  <2>2. PICK s \in Seq(Import) : s = Routes
    BY <1>0, RoutesTyped
  <2>3. Sound(s)' /\ Routes' = s
    BY <1>0, <1>1, <2>1, <2>2 DEF ModulesOK, Routes
  <2>4. Sound(Routes)'
    BY <2>3
  <2>5. \A e \in made'.modules : Known(e)'
    BY <1>0, <1>1, <2>1 DEF ModulesOK, TypeOK
  <2>6. MakesModule(c)' /\ Renames(c)'
    BY <1>2 DEF MakesModule, Renames, Making
  <2>7. spoiled.dirs \subseteq spoiled'.dirs
        /\ (run[c].stage \in Making => run[c].entry.domain \in spoiled'.dirs)
    BY <1>5 DEF ds
  <2>8. NoDirLeft'
    BY <1>1, <1>2, <2>7, NoDirFrame
  <2> QED BY <2>1, <2>4, <2>5, <2>6, <2>8 DEF ModulesOK
<1>8. MigrationsOK'
  <2>1. ASSUME NEW d \in Commands PROVE MakesMigration(d)'
    BY <1>0, <1>1, <1>2 DEF MigrationsOK, MakesMigration, New, Others
  <2>2. spoiled.migrations \subseteq spoiled'.migrations
        /\ (run[c].stage = "down" => New(c, "up") \in spoiled'.migrations)
    BY <1>5 DEF ms
  <2>3. \A d \in Commands : run[d].stage = "down" /\ d # c =>
          run'[d].stage = "down" /\ New(d, "up")' = New(d, "up")
    BY <1>2 DEF Others, New
  <2>4. NoMigrationLeft'
    <3> SUFFICES ASSUME NEW m \in migrations'
                 PROVE  \/ m \in made'.migrations \cup spoiled'.migrations
                        \/ \E d \in Commands : run'[d].stage = "down" /\ m = New(d, "up")'
      BY DEF NoMigrationLeft
    <3> QED BY <1>0, <1>1, <2>2, <2>3 DEF MigrationsOK, NoMigrationLeft
  <2> QED BY <1>0, <1>1, <2>1, <2>4 DEF MigrationsOK
<1>9. ArchiveOK'
  <2>1. ASSUME NEW d \in Commands PROVE Packages(d)'
    BY <1>0, <1>1, <1>2 DEF ArchiveOK, Packages, Others
  <2>2. spoiled'.archive = (spoiled.archive \/ run[c].stage = "fill")
    BY <1>5, Zenon DEF ar
  <2>3. NoArchiveLeft'
    BY <1>0, <1>1, <1>2, <2>2 DEF ArchiveOK, NoArchiveLeft, Others
  <2> QED BY <1>0, <1>1, <2>1, <2>3 DEF ArchiveOK
<1> QED BY <1>6, <1>7, <1>8, <1>9 DEF IInv

-----------------------------------------------------------------------------
(* Steps and theorems                                                      *)

LEMMA InvStutter == IInv /\ UNCHANGED vars => IInv'
<1> SUFFICES ASSUME IInv, UNCHANGED vars PROVE IInv'
  OBVIOUS
<1>1. UNCHANGED <<files, dirs, migrations, archive, run, starts, raced, made, spoiled>>
  BY DEF vars, tree, history
<1>2. TypeOK'
  BY <1>1 DEF IInv, TypeOK
<1>3. ModulesOK'
  <2>1. \A e : Known(e)' <=> Known(e)
    BY <1>1 DEF Known
  <2>2. \A s : Sound(s)' <=> Sound(s)
    BY <1>1, <2>1 DEF Sound
  <2>3. Sound(Routes)'
    BY <1>1 DEF IInv, ModulesOK, Sound, Known, Routes
  <2>4. ASSUME NEW d \in Commands PROVE MakesModule(d)' /\ Renames(d)'
    <3>1. MakesModule(d) /\ Renames(d)
      BY DEF IInv, ModulesOK
    <3>2. MakesModule(d)'
      BY <1>1, <2>2, <3>1 DEF MakesModule
    <3>3. Renames(d)'
      BY <1>1, <2>2, <3>1 DEF Renames
    <3> QED BY <3>2, <3>3
  <2>5. NoDirLeft'
    BY <1>1 DEF IInv, ModulesOK, NoDirLeft
  <2>6. \A e \in made'.modules : Known(e)'
    BY <1>1, <2>1 DEF IInv, ModulesOK
  <2> QED BY <2>3, <2>4, <2>5, <2>6 DEF ModulesOK
<1>4. MigrationsOK'
  BY <1>1 DEF IInv, MigrationsOK, MakesMigration, NoMigrationLeft, New
<1>5. ArchiveOK'
  BY <1>1 DEF IInv, ArchiveOK, Packages, NoArchiveLeft
<1> QED BY <1>2, <1>3, <1>4, <1>5 DEF IInv

LEMMA StepInv == IInv /\ [Next]_vars => IInv'
<1> SUFFICES ASSUME IInv, Next PROVE IInv'
  BY InvStutter
<1>1. PICK c \in Commands :
        \/ \E e \in Entry : NewModule(c, e)
        \/ \E n \in Names : NewMigration(c, n)
        \/ \E id \in Ids : InitProject(c, id)
        \/ PackageRelease(c)
        \/ ReadModules(c) \/ ScanFile(c) \/ Finish(c) \/ Kill(c)
        \/ \E ok \in BOOLEAN :
             \/ MakeDir(c, ok) \/ WriteFile(c, ok) \/ ReplaceModules(c, ok) \/ UndoModule(c, ok)
             \/ WriteUp(c, ok) \/ ApplyFile(c, ok) \/ RestoreFile(c, ok)
             \/ Stage(c, ok) \/ Copy(c, ok) \/ CreateArchive(c, ok)
             \/ \E removed \in BOOLEAN : WriteDown(c, ok, removed) \/ FillArchive(c, ok, removed)
  BY DEF Next
<1>2. CASE \E e \in Entry : NewModule(c, e)
  BY <1>2, InvNewModule
<1>3. CASE \E n \in Names : NewMigration(c, n)
  BY <1>3, InvNewMigration
<1>4. CASE \E id \in Ids : InitProject(c, id)
  BY <1>4, InvInitProject
<1>5. CASE PackageRelease(c)
  BY <1>5, InvPackageRelease
<1>6. CASE ReadModules(c) \/ ScanFile(c) \/ Finish(c) \/ Kill(c)
  BY <1>6, InvReadModules, InvScanFile, InvFinish, InvKill
<1>7. ASSUME NEW ok \in BOOLEAN,
             \/ MakeDir(c, ok) \/ WriteFile(c, ok) \/ ReplaceModules(c, ok) \/ UndoModule(c, ok)
             \/ WriteUp(c, ok) \/ ApplyFile(c, ok) \/ RestoreFile(c, ok)
             \/ Stage(c, ok) \/ Copy(c, ok) \/ CreateArchive(c, ok)
      PROVE  IInv'
  <2>1. CASE MakeDir(c, ok) \/ WriteFile(c, ok) \/ ReplaceModules(c, ok) \/ UndoModule(c, ok)
    BY <2>1, InvMakeDir, InvWriteFile, InvReplaceModules, InvUndoModule
  <2>2. CASE WriteUp(c, ok) \/ ApplyFile(c, ok) \/ RestoreFile(c, ok)
    BY <2>2, InvWriteUp, InvApplyFile, InvRestoreFile
  <2>3. CASE Stage(c, ok) \/ Copy(c, ok) \/ CreateArchive(c, ok)
    BY <2>3, InvStage, InvCopy, InvCreateArchive
  <2> QED BY <1>7, <2>1, <2>2, <2>3
<1>8. ASSUME NEW ok \in BOOLEAN, NEW removed \in BOOLEAN,
             WriteDown(c, ok, removed) \/ FillArchive(c, ok, removed)
      PROVE  IInv'
  BY <1>8, InvWriteDown, InvFillArchive
<1> QED BY <1>1, <1>2, <1>3, <1>4, <1>5, <1>6, <1>7, <1>8

\* Whatever commands run at once, and whichever of them fail or are killed, each
\* directory, migration file and archive that is being made has one maker, and
\* no list of imports that is or may yet be written to modules.go names a module
\* that is not there in full (module.go:318-385, project.go:105-203,
\* migration.go:36-65, release.go:57-244).
THEOREM Invariant == Spec => []IInv
BY InitInv, StepInv, PTL DEF Spec

\* Every variable of the working tree's specification stays within its type.
THEOREM TypeCorrect == Spec => []TypeOK
<1>1. IInv => TypeOK
  BY DEF IInv
<1> QED BY <1>1, Invariant, PTL

\* However commands race and fail, what is in the tree was there before, was
\* reported, belongs to a command that runs, or was left by a kill or by a removal
\* that failed (module.go:339-351, migration.go:56-59, release.go:228-235).
THEOREM LeavesNothing == Spec => []NothingLeftBehind
<1>1. IInv => NothingLeftBehind
  BY DEF IInv, ModulesOK, MigrationsOK, ArchiveOK, NothingLeftBehind
<1> QED BY <1>1, Invariant, PTL

\* The files that one command has reported no other takes away, and modules.go never names
\* a module twice, or one that is not there in full (module.go:332-357,
\* migration.go:159-174, release.go:224).
THEOREM ReportedIsKept == Spec => []ReportedStays
<1>1. ASSUME IInv PROVE ReportedStays
  <2>1. ASSUME NEW e \in made.modules \cup Entries(Routes)
        PROVE  dirs[e.domain] = [files |-> Generated, realm |-> e.realm]
    <3>1. CASE e \in made.modules
      BY <1>1, <3>1 DEF IInv, ModulesOK, Known
    <3>2. CASE e \in Entries(Routes)
      <4>1. PICK i \in DOMAIN Routes : e = Registered(Routes[i])
        BY <3>2 DEF Entries
      <4>2. e.domain = Routes[i].domain /\ e.realm = Routes[i].realm /\ Known(Routes[i])
        BY <1>1, <4>1 DEF IInv, ModulesOK, Sound, Registered
      <4> QED BY <4>2 DEF Known
    <3> QED BY <2>1, <3>1, <3>2
  <2> QED BY <1>1, <2>1 DEF IInv, ModulesOK, MigrationsOK, ArchiveOK, Sound, ReportedStays
<1> QED BY <1>1, Invariant, PTL

-----------------------------------------------------------------------------
(* Commands that run alone                                                 *)

\* No other command runs.
Only(c) == \A d \in Commands \ {c} : run[d].stage = "idle"

\* Nothing changes of a command but its stage.
SameBut(q, r) ==
  /\ r.entry = q.entry /\ r.source = q.source /\ r.version = q.version /\ r.name = q.name
  /\ r.id = q.id /\ r.old = q.old /\ r.texts = q.texts /\ r.todo = q.todo /\ r.done = q.done
  /\ r.picked = q.picked

LEMMA StageOnly ==
  ASSUME NEW q \in Run, NEW stage \in Stages
  PROVE  SameBut(q, [q EXCEPT !.stage = stage])
BY DEF Run, SameBut

LEMMA AloneOnly ==
  ASSUME Alone, NEW c \in Commands, run[c].stage # "idle"
  PROVE  Only(c)
BY DEF Alone, Only

\* A step keeps what holds of commands that run alone when it keeps it for its own
\* command and the tree.
LEMMA AloneStep ==
  ASSUME NEW c \in Commands, Only(c), Others(c),
         ModuleAlone(c)', RenameAlone(c)', MigrationAlone(c)', PackageAlone(c)',
         ProjectAlone', MigrationsAlone', ArchiveAlone'
  PROVE  Alone'
<1>1. \A d \in Commands \ {c} : run'[d].stage = "idle"
  BY DEF Only, Others
<1>2. \A d, e \in Commands : run'[d].stage # "idle" /\ run'[e].stage # "idle" => d = e
  BY <1>1
<1>3. ASSUME NEW d \in Commands
      PROVE  ModuleAlone(d)' /\ RenameAlone(d)' /\ MigrationAlone(d)' /\ PackageAlone(d)'
  <2>1. CASE d = c
    BY <2>1
  <2>2. CASE d # c
    BY <1>1, <2>2 DEF ModuleAlone, RenameAlone, MigrationAlone, PackageAlone, Making
  <2> QED BY <2>1, <2>2
<1> QED BY <1>2, <1>3 DEF Alone

\* A step that is not about the project.
LEMMA ProjectAloneFrame ==
  ASSUME Alone, NEW c \in Commands, Only(c), Others(c), UNCHANGED files,
         made'.modules = made.modules, spoiled'.project = spoiled.project,
         run[c].stage \notin {"apply", "restore"},
         run'[c].stage \notin {"scan", "apply", "restore"}
  PROVE  RenameAlone(c)' /\ ProjectAlone'
<1>1. \A d \in Commands : run[d].stage \notin {"apply", "restore"}
  BY DEF Only
<1>2. \A d \in Commands : run'[d].stage \notin {"apply", "restore"}
  BY <1>1 DEF Others
<1>3. ProjectAlone'
  BY <1>1 DEF Alone, ProjectAlone, OneProject, Ordered, Entries, Routes
<1> QED BY <1>3 DEF RenameAlone

\* A step that is not about migrations.
LEMMA MigrationsAloneFrame ==
  ASSUME Alone, NEW c \in Commands, Only(c), Others(c), UNCHANGED migrations,
         spoiled.migrations \subseteq spoiled'.migrations,
         run[c].stage # "down", run'[c].stage \notin {"up", "down"}
  PROVE  MigrationAlone(c)' /\ MigrationsAlone'
<1>1. \A d \in Commands : run[d].stage # "down"
  BY DEF Only
<1>2. MigrationsAlone'
  BY <1>1 DEF Alone, MigrationsAlone
<1> QED BY <1>2 DEF MigrationAlone

\* A step that is not about the archive.
LEMMA ArchiveAloneFrame ==
  ASSUME Alone, NEW c \in Commands, UNCHANGED archive, made'.archive = made.archive,
         run'[c].stage \notin {"stage", "copy", "create", "fill"}
  PROVE  PackageAlone(c)' /\ ArchiveAlone'
BY DEF Alone, ArchiveAlone, PackageAlone

\* A command that is not about modules.
LEMMA NoModuleAlone ==
  ASSUME NEW c \in Commands, run'[c].stage \notin {"read", "mkdir"} \cup Making
  PROVE  ModuleAlone(c)'
BY DEF ModuleAlone

-----------------------------------------------------------------------------
(* The initial states and steps of the one command                        *)

LEMMA AloneInit == Init => Alone
<1> SUFFICES ASSUME Init PROVE Alone
  OBVIOUS
<1>1. \A c \in Commands : run[c].stage = "idle"
  BY DEF Init, NoRun
<1>2. \A p \in Paths : OneProject(files[p], OldId)
  BY TreeAssumption DEF Init, OneProject, TreeAssumption
<1>3. files[GoMod].id = OldId /\ Routes = Installed
  BY TreeAssumption DEF Init, TreeAssumption, Routes
<1>4. ProjectAlone
  BY <1>2, <1>3, TreeAssumption DEF ProjectAlone, TreeAssumption, Ordered, Init
<1>5. Valid(migrations)
  <2>1. PICK v \in {1, MaxVersion} :
          migrations = [version : {v}, name : {First}, direction : {"up", "down"}]
    BY DEF Init
  <2>2. v \in 1 .. MaxVersion
    BY TreeAssumption DEF TreeAssumption
  <2> QED BY <2>1, <2>2 DEF Valid
<1>6. MigrationsAlone /\ ArchiveAlone
  BY <1>5 DEF MigrationsAlone, ArchiveAlone, Init
<1>7. \A c \in Commands :
        ModuleAlone(c) /\ RenameAlone(c) /\ MigrationAlone(c) /\ PackageAlone(c)
  BY <1>1 DEF ModuleAlone, RenameAlone, MigrationAlone, PackageAlone, Making
<1> QED BY <1>1, <1>4, <1>6, <1>7 DEF Alone

\* The command that begins is the only one.
LEMMA BeginsAlone ==
  ASSUME IInv, ~raced => Alone, ~raced', NEW c \in Commands, NEW new \in Run, Begin(c, new)
  PROVE  Alone /\ Only(c) /\ Others(c) /\ run'[c] = new /\ run[c].stage = "idle"
         /\ UNCHANGED <<made, spoiled>>
<1>1. run' = [run EXCEPT ![c] = new]
  BY DEF Begin
<1>2. TypeOK
  BY DEF IInv
<1> QED BY <1>1, <1>2, RunReplaced DEF Begin, Only

LEMMA AloneNewModule ==
  ASSUME IInv, ~raced => Alone, ~raced', NEW c \in Commands, NEW e \in Entry, NewModule(c, e)
  PROVE  Alone'
<1> DEFINE new == [NoRun EXCEPT !.stage = "read",
                     !.entry = [domain |-> e.domain, realm |-> e.realm, id |-> files[GoMod].id]]
<1>1. new \in Run
  <2>1. files[GoMod].id \in Ids
    BY TreeAssumption DEF IInv, TypeOK, TreeAssumption, Content
  <2>2. [domain |-> e.domain, realm |-> e.realm, id |-> files[GoMod].id] \in Import
    BY <2>1 DEF Entry, Import
  <2> QED BY <2>2 DEF NoRun, Run, Stages
<1>2. new.stage = "read" /\ new.entry.id = files[GoMod].id
  BY DEF NoRun
<1>3. Begin(c, new) /\ UNCHANGED <<files, dirs, migrations, archive>>
  BY DEF NewModule, tree
<1> HIDE DEF new
<1>4. Alone /\ Only(c) /\ Others(c) /\ run'[c] = new /\ run[c].stage = "idle"
      /\ UNCHANGED <<made, spoiled>>
  BY <1>1, <1>3, BeginsAlone
<1>5. ModuleAlone(c)'
  BY <1>2, <1>3, <1>4 DEF ModuleAlone, Making
<1>6. RenameAlone(c)' /\ ProjectAlone'
  BY <1>2, <1>3, <1>4, ProjectAloneFrame
<1>7. MigrationAlone(c)' /\ MigrationsAlone' /\ PackageAlone(c)' /\ ArchiveAlone'
  BY <1>2, <1>3, <1>4, MigrationsAloneFrame, ArchiveAloneFrame
<1> QED BY <1>4, <1>5, <1>6, <1>7, AloneStep

LEMMA AloneReadModules ==
  ASSUME IInv, Alone, NEW c \in Commands, ReadModules(c)
  PROVE  Alone'
<1> DEFINE new == [run[c] EXCEPT !.stage = "mkdir", !.source = files[ModulesGo]]
<1>0. TypeOK /\ run[c].stage = "read" /\ run[c] \in Run /\ Only(c) /\ ModuleAlone(c)
  BY AloneOnly DEF IInv, ReadModules, At, TypeOK, Alone
<1>1. UNCHANGED <<files, dirs, migrations, archive, made, spoiled>>
  BY DEF ReadModules, tree
<1>2. /\ Others(c)
      /\ \/ run'[c].stage = "idle"
         \/ /\ run'[c].stage = "mkdir" /\ run'[c].entry = run[c].entry
            /\ run'[c].source = files[ModulesGo]
  <2>1. CASE Imported(files[ModulesGo].imports, run[c].entry)
    BY <1>0, <2>1, RunEnded DEF ReadModules
  <2>2. CASE ~Imported(files[ModulesGo].imports, run[c].entry)
    <3>1. run' = [run EXCEPT ![c] = new]
      BY <2>2 DEF ReadModules
    <3>2. files[ModulesGo] \in Content
      BY <1>0, RoutesTyped
    <3>3. new \in Run
      BY <1>0, <3>2 DEF Run, Stages
    <3>4. new.stage = "mkdir" /\ new.entry = run[c].entry /\ new.source = files[ModulesGo]
      BY <1>0 DEF Run
    <3> HIDE DEF new
    <3> QED BY <1>0, <3>1, <3>3, <3>4, RunReplaced
  <2> QED BY <2>1, <2>2
<1>3. ModuleAlone(c)'
  BY <1>0, <1>1, <1>2 DEF ModuleAlone, Making
<1>4. RenameAlone(c)' /\ ProjectAlone' /\ MigrationAlone(c)' /\ MigrationsAlone'
      /\ PackageAlone(c)' /\ ArchiveAlone'
  BY <1>0, <1>1, <1>2, ProjectAloneFrame, MigrationsAloneFrame, ArchiveAloneFrame
<1> QED BY <1>0, <1>2, <1>3, <1>4, AloneStep

\* A module's command that goes on with what it has read, or ends.
LEMMA ModuleGoesOn ==
  ASSUME Alone, NEW c \in Commands, Only(c), Others(c), run[c].stage \in {"mkdir"} \cup Making,
         UNCHANGED <<files, migrations, archive, made>>, spoiled'.project = spoiled.project,
         spoiled'.migrations = spoiled.migrations,
         \/ run'[c].stage = "idle"
         \/ /\ run'[c].stage \in Making
            /\ run'[c].entry = run[c].entry /\ run'[c].source = run[c].source
  PROVE  Alone'
<1>1. run[c].stage \in {"mkdir", "write", "replace", "undo"}
      /\ run'[c].stage \in {"idle", "write", "replace", "undo"}
  BY DEF Making
<1>2. ModuleAlone(c)'
  BY <1>1 DEF ModuleAlone, Alone, Making
<1>3. RenameAlone(c)' /\ ProjectAlone'
  BY <1>1, ProjectAloneFrame
<1>4. MigrationAlone(c)' /\ MigrationsAlone'
  BY <1>1, MigrationsAloneFrame
<1>5. PackageAlone(c)' /\ ArchiveAlone'
  BY <1>1, ArchiveAloneFrame
<1> QED BY <1>2, <1>3, <1>4, <1>5, AloneStep

\* A command that goes to another stage, or ends.
LEMMA GoesOrEnds ==
  ASSUME TypeOK, NEW c \in Commands, NEW stage \in Stages, To(c, stage) \/ End(c)
  PROVE  /\ Others(c)
         /\ \/ run'[c].stage = stage /\ SameBut(run[c], run'[c])
            \/ run'[c].stage = "idle"
<1>1. CASE End(c)
  BY <1>1, RunEnded
<1>2. CASE To(c, stage)
  <2>1. run[c] \in Run
    BY DEF TypeOK
  <2>2. run'[c] = [run[c] EXCEPT !.stage = stage] /\ run'[c].stage = stage /\ Others(c)
    BY <1>2, RunGoesTo
  <2> QED BY <2>1, <2>2, StageOnly
<1> QED BY <1>1, <1>2

LEMMA AloneMakeDir ==
  ASSUME IInv, Alone, NEW c \in Commands, NEW ok \in BOOLEAN, MakeDir(c, ok)
  PROVE  Alone'
<1>0. TypeOK /\ run[c].stage = "mkdir" /\ Only(c)
  BY AloneOnly DEF IInv, MakeDir, At
<1>1. UNCHANGED <<files, migrations, archive, made, spoiled>>
  BY DEF MakeDir
<1>2. To(c, "write") \/ End(c)
  BY DEF MakeDir
<1>3. Others(c) /\ ((run'[c].stage = "write" /\ SameBut(run[c], run'[c])) \/ run'[c].stage = "idle")
  BY <1>0, <1>2, GoesOrEnds DEF Stages
<1> QED BY <1>0, <1>1, <1>3, ModuleGoesOn DEF Making, SameBut

LEMMA AloneWriteFile ==
  ASSUME IInv, Alone, NEW c \in Commands, NEW ok \in BOOLEAN, WriteFile(c, ok)
  PROVE  Alone'
<1>0. TypeOK /\ run[c].stage = "write" /\ Only(c)
  BY AloneOnly DEF IInv, WriteFile, At
<1>1. UNCHANGED <<files, migrations, archive, made, spoiled>>
  BY DEF WriteFile
<1>2. \E stage \in Making : To(c, stage)
  BY DEF WriteFile, Making
<1>3. PICK stage \in Making : To(c, stage)
  BY <1>2
<1>4. stage \in Stages /\ stage # "idle"
  BY DEF Making, Stages
<1>5. Others(c) /\ ((run'[c].stage = stage /\ SameBut(run[c], run'[c])) \/ run'[c].stage = "idle")
  BY <1>0, <1>3, <1>4, GoesOrEnds
<1> QED BY <1>0, <1>1, <1>5, ModuleGoesOn DEF Making, SameBut

LEMMA AloneUndoModule ==
  ASSUME IInv, Alone, NEW c \in Commands, NEW ok \in BOOLEAN, UndoModule(c, ok)
  PROVE  Alone'
<1>0. TypeOK /\ run[c].stage = "undo" /\ Only(c)
  BY AloneOnly DEF IInv, UndoModule, At
<1>1. UNCHANGED <<files, migrations, archive, made>>
  BY DEF UndoModule
<1>2. run'[c].stage = "idle" /\ Others(c)
  BY <1>0, RunEnded DEF UndoModule
<1>3. spoiled'.project = spoiled.project /\ spoiled'.migrations = spoiled.migrations
  BY <1>0 DEF UndoModule, TypeOK
<1> QED BY <1>0, <1>1, <1>2, <1>3, ModuleGoesOn DEF Making

LEMMA AloneReplaceModules ==
  ASSUME IInv, Alone, NEW c \in Commands, NEW ok \in BOOLEAN, ReplaceModules(c, ok)
  PROVE  Alone'
<1> DEFINE q == run[c]
           s == q.source.imports
           t == Insert(s, q.entry)
           text == [q.source EXCEPT !.imports = Insert(@, q.entry)]
           e == Registered(q.entry)
<1>0. /\ TypeOK /\ q.stage = "replace" /\ Only(c) /\ q.stage \in Making
      /\ q.source = files[ModulesGo] /\ q.entry.id = files[GoMod].id
  <2>1. TypeOK /\ q.stage = "replace" /\ ModuleAlone(c)
    BY DEF IInv, ReplaceModules, At, Alone
  <2> QED BY <2>1, AloneOnly DEF ModuleAlone, Making
<1>1. UNCHANGED <<dirs, migrations, archive, spoiled>>
  BY DEF ReplaceModules
<1>2. CASE ~ok
  <2>1. To(c, "undo") /\ UNCHANGED <<files, made>>
    BY <1>2 DEF ReplaceModules
  <2>2. /\ Others(c)
        /\ \/ run'[c].stage = "undo" /\ SameBut(run[c], run'[c])
           \/ run'[c].stage = "idle"
    BY <1>0, <2>1, GoesOrEnds DEF Stages
  <2> QED BY <1>0, <1>1, <2>1, <2>2, ModuleGoesOn DEF Making, SameBut
<1>3. CASE ok
  <2>0. /\ q.entry \in Import /\ q.source \in Content /\ s \in Seq(Import)
        /\ files \in [Paths -> Content] /\ ModulesGo \in Paths /\ GoMod \in Paths
    BY <1>0, MakingFacts, TreeAssumption DEF TypeOK, TreeAssumption
  <2>1. /\ files' = [files EXCEPT ![ModulesGo] = text]
        /\ made' = [made EXCEPT !.modules = @ \cup {e}]
        /\ End(c)
    BY <1>3 DEF ReplaceModules
  <2>2. run'[c].stage = "idle" /\ Others(c)
    BY <1>0, <2>1, RunEnded
  <2>3. text.id = q.source.id /\ text.imports = t
    BY <2>0 DEF Content
  <2> HIDE DEF text
  <2>4. files'[ModulesGo] = text /\ \A p \in Paths : p # ModulesGo => files'[p] = files[p]
    BY <2>0, <2>1
  <2>5. \A p \in Paths : files'[p].id = files[p].id
    BY <1>0, <2>3, <2>4
  <2>6. made'.modules = made.modules \cup {e} /\ made'.archive = made.archive
    <3> HIDE DEF e
    <3> QED BY <1>0, <2>1 DEF TypeOK
  <2>7. s = Routes /\ t = Routes'
    BY <1>0, <2>3, <2>4 DEF Routes
  <2>8. made'.modules \subseteq Entries(Routes')
    <3>1. Entries(t) = Entries(s) \cup {e}
      BY <2>0, InsertEntries
    <3>2. made.modules \subseteq Entries(s)
      BY <2>7 DEF Alone, ProjectAlone
    <3> HIDE DEF s, t, e
    <3> QED BY <3>1, <3>2, <2>6, <2>7
  <2>9. ASSUME ~spoiled.project
        PROVE  Ordered(Routes') /\ \A p \in Paths : OneProject(files'[p], files'[GoMod].id)
    <3>1. \A d \in Commands : run[d].stage \notin {"apply", "restore"}
      BY <1>0 DEF Only
    <3>2. Ordered(s) /\ \A p \in Paths : OneProject(files[p], files[GoMod].id)
      BY <2>7, <2>9, <3>1 DEF Alone, ProjectAlone
    <3>3. \A j \in DOMAIN s : s[j].id = q.entry.id
      BY <3>2, <2>0, <1>0 DEF OneProject
    <3>4. \A j \in DOMAIN s : s[j].domain # q.entry.domain
      <4>1. \A j \in DOMAIN s : Known(s[j])
        BY <1>0, MakingFacts DEF Sound
      <4> QED BY <4>1, <1>0 DEF Known
    <3>5. Ordered(t) /\ \A k \in DOMAIN t : t[k].id = q.entry.id
      <4> HIDE DEF q, s
      <4> QED BY <3>2, <3>3, <3>4, <2>0, InsertOrdered
    <3>6. OneProject(files'[ModulesGo], files[GoMod].id)
      BY <3>5, <3>2, <2>0, <2>3, <2>4, <1>0 DEF OneProject
    <3>7. \A p \in Paths : OneProject(files'[p], files[GoMod].id)
      BY <3>2, <3>6, <2>4
    <3> QED BY <3>5, <3>7, <2>0, <2>5, <2>7
  <2>10. ProjectAlone'
    BY <2>8, <2>9, <1>1 DEF ProjectAlone, OneProject, Ordered, Entries, Routes
  <2>11. ModuleAlone(c)' /\ RenameAlone(c)'
    BY <2>2 DEF ModuleAlone, RenameAlone, Making
  <2>12. MigrationAlone(c)' /\ MigrationsAlone' /\ PackageAlone(c)' /\ ArchiveAlone'
    BY <1>0, <1>1, <2>2, <2>6, MigrationsAloneFrame, ArchiveAloneFrame
  <2> QED BY <1>0, <2>2, <2>10, <2>11, <2>12, AloneStep
<1> QED BY <1>2, <1>3

LEMMA AloneNewMigration ==
  ASSUME IInv, ~raced => Alone, ~raced', NEW c \in Commands, NEW n \in Names, NewMigration(c, n)
  PROVE  Alone'
<1>1. Valid(migrations) /\ UNCHANGED <<files, dirs, migrations, archive>>
  BY DEF NewMigration, tree
<1>2. PICK v : v = Latest(migrations) + 1
  OBVIOUS
<1>3. v \in Nat
  <2>1. PICK l : l = Latest(migrations)
    OBVIOUS
  <2>2. l \in 0 .. MaxVersion /\ v = l + 1
    BY <1>1, <1>2, <2>1, LatestOfValid
  <2> QED BY <2>2
<1> DEFINE new == [NoRun EXCEPT !.stage = "up", !.name = n, !.version = v]
<1>4. new \in Run /\ new.stage = "up" /\ new.version = v
  BY <1>3 DEF NoRun, Run, Stages
<1>5. Begin(c, new)
  BY <1>2, Zenon DEF NewMigration
<1> HIDE DEF new
<1>6. Alone /\ Only(c) /\ Others(c) /\ run'[c] = new /\ run[c].stage = "idle"
      /\ UNCHANGED <<made, spoiled>>
  BY <1>4, <1>5, BeginsAlone
<1>7. MigrationAlone(c)'
  BY <1>1, <1>2, <1>4, <1>6 DEF MigrationAlone
<1>8. MigrationsAlone'
  BY <1>1 DEF MigrationsAlone
<1>9. ModuleAlone(c)' /\ RenameAlone(c)' /\ ProjectAlone' /\ PackageAlone(c)' /\ ArchiveAlone'
  BY <1>1, <1>4, <1>6, NoModuleAlone, ProjectAloneFrame, ArchiveAloneFrame DEF Making
<1> QED BY <1>6, <1>7, <1>8, <1>9, AloneStep

LEMMA AloneWriteUp ==
  ASSUME IInv, Alone, NEW c \in Commands, NEW ok \in BOOLEAN, WriteUp(c, ok)
  PROVE  Alone'
<1> DEFINE up == New(c, "up")
<1>0. /\ TypeOK /\ run[c].stage = "up" /\ Only(c)
      /\ Valid(migrations) /\ run[c].version = Latest(migrations) + 1
  BY AloneOnly DEF IInv, WriteUp, At, Alone, MigrationAlone
<1>1. UNCHANGED <<files, dirs, archive, made, spoiled>>
  BY DEF WriteUp
<1>2. CASE ~ok \/ up \in migrations
  <2>1. run'[c].stage = "idle" /\ Others(c) /\ UNCHANGED migrations
    BY <1>0, <1>2, RunEnded DEF WriteUp
  <2> QED BY <1>0, <1>1, <2>1, NoModuleAlone, ProjectAloneFrame, MigrationsAloneFrame,
             ArchiveAloneFrame, AloneStep DEF Making
<1>3. CASE ok /\ up \notin migrations
  <2>1. migrations' = migrations \cup {up} /\ To(c, "down")
    BY <1>3 DEF WriteUp
  <2>2. run[c] \in Run /\ run'[c] = [run[c] EXCEPT !.stage = "down"]
        /\ run'[c].stage = "down" /\ Others(c)
    BY <1>0, <2>1, RunGoesTo DEF Stages, TypeOK
  <2>3. SameBut(run[c], run'[c])
    BY <2>2, StageOnly DEF Stages
  <2>4. New(c, "up")' = up
    BY <2>3 DEF New, SameBut
  <2> HIDE DEF up
  <2>5. migrations' \ {New(c, "up")'} = migrations
    BY <1>3, <2>1, <2>4
  <2>6. MigrationAlone(c)'
    <3>1. Valid(migrations' \ {New(c, "up")'})
          /\ run'[c].version = Latest(migrations' \ {New(c, "up")'}) + 1
      BY <1>0, <2>3, <2>5 DEF SameBut
    <3> QED BY <3>1, <2>2 DEF MigrationAlone
  <2>7. MigrationsAlone'
    BY <2>2 DEF MigrationsAlone
  <2> QED BY <1>0, <1>1, <2>2, <2>6, <2>7, NoModuleAlone, ProjectAloneFrame,
             ArchiveAloneFrame, AloneStep DEF Making
<1> QED BY <1>2, <1>3

LEMMA AloneWriteDown ==
  ASSUME IInv, Alone, NEW c \in Commands, NEW ok \in BOOLEAN, NEW removed \in BOOLEAN,
         WriteDown(c, ok, removed)
  PROVE  Alone'
<1> DEFINE up == New(c, "up")
           down == New(c, "down")
           before == migrations \ {up}
           written == ok /\ down \notin migrations
<1>0. /\ TypeOK /\ run[c].stage = "down" /\ Only(c) /\ up \in migrations
      /\ Valid(before) /\ run[c].version = Latest(before) + 1
  BY AloneOnly DEF IInv, WriteDown, At, Alone, MigrationAlone, MigrationsOK, MakesMigration
<1>1. UNCHANGED <<files, dirs, archive>> /\ End(c)
  BY DEF WriteDown
<1>2. run'[c].stage = "idle" /\ Others(c)
  BY <1>0, <1>1, RunEnded
<1>3. /\ migrations' = IF written THEN migrations \cup {down}
                       ELSE IF removed THEN before ELSE migrations
      /\ made' = IF written THEN [made EXCEPT !.migrations = @ \cup {up, down}] ELSE made
      /\ spoiled' = IF written \/ removed THEN spoiled
                    ELSE [spoiled EXCEPT !.migrations = @ \cup {up}]
  BY DEF WriteDown
<1>4. /\ made'.modules = made.modules /\ made'.archive = made.archive
      /\ spoiled'.project = spoiled.project
  <2> HIDE DEF up, down, before, written
  <2> QED BY <1>0, <1>3 DEF TypeOK
<1>5. MigrationsAlone'
  <2>1. CASE written
    <3>1. \E v, name : v = run[c].version /\ name = run[c].name
      OBVIOUS
    <3>2. PICK v, name : v = run[c].version /\ name = run[c].name
      BY <3>1
    <3>3. /\ up = [version |-> v, name |-> name, direction |-> "up"]
          /\ down = [version |-> v, name |-> name, direction |-> "down"]
      BY <3>2 DEF New
    <3>4. migrations' = before \cup {up, down}
      BY <1>0, <1>3, <2>1
    <3>5. v = Latest(before) + 1
      BY <1>0, <3>2
    <3> HIDE DEF up, down, before
    <3>6. LET m(d) == [version |-> v, name |-> name, direction |-> d]
              all == before \cup {m("up"), m("down")} IN
          Valid(all) \/ Latest(all) > MaxVersion
      BY <1>0, <3>5, NextMigration
    <3>7. migrations' = before \cup {[version |-> v, name |-> name, direction |-> "up"],
                                     [version |-> v, name |-> name, direction |-> "down"]}
      BY <3>3, <3>4
    <3>8. Valid(migrations') \/ Latest(migrations') > MaxVersion
      BY <3>6, <3>7
    <3> QED BY <3>8 DEF MigrationsAlone, Valid, Latest
  <2>2. CASE ~written /\ removed
    <3> HIDE DEF up, down, before, written
    <3>1. Valid(migrations')
      BY <1>0, <1>3, <2>2
    <3> QED BY <3>1 DEF MigrationsAlone, Valid
  <2>3. CASE ~written /\ ~removed
    <3> HIDE DEF up, down, before, written
    <3>1. up \in spoiled'.migrations
      BY <1>0, <1>3, <2>3 DEF TypeOK
    <3> QED BY <3>1 DEF MigrationsAlone
  <2> QED BY <2>1, <2>2, <2>3
<1>6. MigrationAlone(c)'
  BY <1>2 DEF MigrationAlone
<1> QED BY <1>0, <1>1, <1>2, <1>4, <1>5, <1>6, NoModuleAlone, ProjectAloneFrame,
           ArchiveAloneFrame, AloneStep DEF Making

-----------------------------------------------------------------------------
(* release package                                                         *)

\* A release's command that goes on or ends, the archive not being made.
LEMMA PackageGoesOn ==
  ASSUME Alone, NEW c \in Commands, Only(c), Others(c),
         UNCHANGED <<files, migrations, made>>,
         spoiled'.project = spoiled.project, spoiled'.migrations = spoiled.migrations,
         run[c].stage \in {"idle", "stage", "copy", "create", "fill"},
         run'[c].stage \in {"idle", "stage", "copy", "create", "fill"},
         PackageAlone(c)', made.archive => archive' = archive
  PROVE  Alone'
<1>1. ArchiveAlone'
  BY DEF Alone, ArchiveAlone
<1>2. ModuleAlone(c)' /\ RenameAlone(c)' /\ ProjectAlone'
  BY NoModuleAlone, ProjectAloneFrame DEF Making
<1>3. MigrationAlone(c)' /\ MigrationsAlone'
  BY MigrationsAloneFrame
<1> QED BY <1>1, <1>2, <1>3, AloneStep

LEMMA AlonePackageRelease ==
  ASSUME IInv, ~raced => Alone, ~raced', NEW c \in Commands, PackageRelease(c)
  PROVE  Alone'
<1> DEFINE new == [NoRun EXCEPT !.stage = "stage"]
<1>1. new \in Run /\ new.stage = "stage"
  BY DEF NoRun, Run, Stages
<1>2. Begin(c, new) /\ UNCHANGED <<files, dirs, migrations, archive>> /\ Valid(migrations)
  BY DEF PackageRelease, tree
<1> HIDE DEF new
<1>3. Alone /\ Only(c) /\ Others(c) /\ run'[c] = new /\ run[c].stage = "idle"
      /\ UNCHANGED <<made, spoiled>>
  BY <1>1, <1>2, BeginsAlone
<1>4. PackageAlone(c)'
  BY <1>1, <1>2, <1>3 DEF PackageAlone
<1> QED BY <1>1, <1>2, <1>3, <1>4, PackageGoesOn

LEMMA AloneStage ==
  ASSUME IInv, Alone, NEW c \in Commands, NEW ok \in BOOLEAN, Stage(c, ok)
  PROVE  Alone'
<1> DEFINE new == [run[c] EXCEPT !.stage = "copy", !.picked = migrations]
<1>0. TypeOK /\ run[c].stage = "stage" /\ run[c] \in Run /\ Only(c) /\ Valid(migrations)
  BY AloneOnly DEF IInv, Stage, At, TypeOK, Alone, PackageAlone
<1>1. UNCHANGED <<files, dirs, migrations, archive, made, spoiled>>
  BY DEF Stage, tree
<1>2. /\ Others(c)
      /\ \/ run'[c].stage = "idle"
         \/ run'[c].stage = "copy" /\ run'[c].picked = migrations
  <2>1. CASE ok
    <3>1. run' = [run EXCEPT ![c] = new]
      BY <2>1 DEF Stage
    <3>2. new \in Run /\ new.stage = "copy" /\ new.picked = migrations
      BY <1>0 DEF Run, Stages, TypeOK
    <3> HIDE DEF new
    <3> QED BY <1>0, <3>1, <3>2, RunReplaced
  <2>2. CASE ~ok
    BY <1>0, <2>2, RunEnded DEF Stage
  <2> QED BY <2>1, <2>2
<1>3. PackageAlone(c)'
  BY <1>0, <1>2 DEF PackageAlone
<1> QED BY <1>0, <1>1, <1>2, <1>3, PackageGoesOn

LEMMA AloneCopy ==
  ASSUME IInv, Alone, NEW c \in Commands, NEW ok \in BOOLEAN, Copy(c, ok)
  PROVE  Alone'
<1>0. TypeOK /\ run[c].stage = "copy" /\ Only(c) /\ Valid(run[c].picked)
  BY AloneOnly DEF IInv, Copy, At, Alone, PackageAlone
<1>1. UNCHANGED <<files, dirs, migrations, archive, made, spoiled>> /\ (To(c, "create") \/ End(c))
  BY DEF Copy, tree
<1>2. Others(c) /\ ((run'[c].stage = "create" /\ SameBut(run[c], run'[c])) \/ run'[c].stage = "idle")
  BY <1>0, <1>1, GoesOrEnds DEF Stages
<1>3. PackageAlone(c)'
  BY <1>0, <1>2 DEF PackageAlone, SameBut
<1> QED BY <1>0, <1>1, <1>2, <1>3, PackageGoesOn

LEMMA AloneCreateArchive ==
  ASSUME IInv, Alone, NEW c \in Commands, NEW ok \in BOOLEAN, CreateArchive(c, ok)
  PROVE  Alone'
<1>0. /\ TypeOK /\ run[c].stage = "create" /\ Only(c) /\ Valid(run[c].picked)
      /\ made.archive => archive # None
  BY AloneOnly DEF IInv, CreateArchive, At, Alone, PackageAlone, ArchiveOK
<1>1. /\ UNCHANGED <<files, dirs, migrations, made, spoiled>> /\ (To(c, "fill") \/ End(c))
      /\ archive # None => UNCHANGED archive
  BY DEF CreateArchive
<1>2. Others(c) /\ ((run'[c].stage = "fill" /\ SameBut(run[c], run'[c])) \/ run'[c].stage = "idle")
  BY <1>0, <1>1, GoesOrEnds DEF Stages
<1>3. PackageAlone(c)'
  BY <1>0, <1>2 DEF PackageAlone, SameBut
<1> QED BY <1>0, <1>1, <1>2, <1>3, PackageGoesOn

LEMMA AloneFillArchive ==
  ASSUME IInv, Alone, NEW c \in Commands, NEW ok \in BOOLEAN, NEW removed \in BOOLEAN,
         FillArchive(c, ok, removed)
  PROVE  Alone'
<1>0. /\ TypeOK /\ run[c].stage = "fill" /\ Only(c) /\ Valid(run[c].picked) /\ ~made.archive
  BY AloneOnly DEF IInv, FillArchive, At, Alone, PackageAlone, ArchiveOK, Packages
<1>1. UNCHANGED <<files, dirs, migrations>> /\ End(c)
  BY DEF FillArchive
<1>2. run'[c].stage = "idle" /\ Others(c)
  BY <1>0, <1>1, RunEnded
<1>3. /\ archive' = IF ok THEN [complete |-> TRUE, migrations |-> run[c].picked]
                    ELSE IF removed THEN None ELSE archive
      /\ made' = IF ok THEN [made EXCEPT !.archive = TRUE] ELSE made
      /\ spoiled' = IF ok \/ removed THEN spoiled ELSE [spoiled EXCEPT !.archive = TRUE]
  BY DEF FillArchive
<1>4. /\ made'.modules = made.modules
      /\ spoiled'.project = spoiled.project /\ spoiled'.migrations = spoiled.migrations
  BY <1>0, <1>3 DEF TypeOK
<1>5. ArchiveAlone'
  <2>1. CASE ok
    <3>1. archive'.migrations = run[c].picked
      BY <1>3, <2>1
    <3>2. Valid(archive'.migrations)
      BY <1>0, <3>1
    <3> QED BY <3>2 DEF ArchiveAlone, Valid
  <2>2. CASE ~ok
    BY <1>0, <1>3, <2>2 DEF ArchiveAlone
  <2> QED BY <2>1, <2>2
<1>6. PackageAlone(c)'
  BY <1>2 DEF PackageAlone
<1> QED BY <1>0, <1>1, <1>2, <1>4, <1>5, <1>6, NoModuleAlone, ProjectAloneFrame,
           MigrationsAloneFrame, AloneStep DEF Making

-----------------------------------------------------------------------------
(* project init                                                            *)

LEMMA AloneInitProject ==
  ASSUME IInv, ~raced => Alone, ~raced', NEW c \in Commands, NEW id \in Ids, InitProject(c, id)
  PROVE  Alone'
<1> DEFINE olds == {files[GoMod].id, files[ConfigYaml].id}
<1>0. /\ TypeOK /\ files \in [Paths -> Content] /\ olds # {id} /\ Paths # {}
      /\ GoMod \in Paths /\ ConfigYaml \in Paths
      /\ UNCHANGED <<files, dirs, migrations, archive>>
  BY TreeAssumption DEF IInv, TypeOK, InitProject, tree, TreeAssumption
<1>1. files[GoMod].id \in Ids /\ files[ConfigYaml].id \in Ids
  BY <1>0 DEF Content
<1>2. PICK old \in SUBSET Ids, texts \in [Paths -> Content], todo \in SUBSET Paths :
        old = olds /\ texts = files /\ todo = Paths
  BY <1>0, <1>1
<1> DEFINE new == Renaming(id, old, texts, todo)
<1>3. Begin(c, new)
  BY <1>2, Zenon DEF InitProject, Renaming
<1>4. /\ new \in Run /\ new.stage = "scan" /\ new.id = id /\ new.texts = texts
      /\ new.todo = todo /\ new.old = old /\ new.done = {}
  BY BeginsRenaming
<1> HIDE DEF new
<1>5. Alone /\ Only(c) /\ Others(c) /\ run'[c] = new /\ run[c].stage = "idle"
      /\ UNCHANGED <<made, spoiled>>
  BY <1>3, <1>4, BeginsAlone
<1>6. \A d \in Commands : run[d].stage \notin {"apply", "restore"}
  BY <1>5 DEF Only
<1>7. ASSUME ~spoiled.project
      PROVE  old = {files[GoMod].id} /\ id \notin old
  <2>1. \A p \in Paths : OneProject(files[p], files[GoMod].id)
    BY <1>5, <1>6, <1>7 DEF Alone, ProjectAlone
  <2>2. olds = {files[GoMod].id}
    BY <2>1, <1>0 DEF OneProject
  <2> QED BY <2>2, <1>0, <1>2
<1>8. RenameAlone(c)'
  <2> HIDE DEF olds
  <2>1. ScanAlone(run[c])'
    BY <1>0, <1>2, <1>4, <1>5, <1>7 DEF ScanAlone
  <2> QED BY <2>1, <1>4, <1>5 DEF RenameAlone
<1>9. ProjectAlone'
  BY <1>0, <1>5, <1>6 DEF Alone, ProjectAlone, OneProject, Ordered, Entries, Routes
<1>10. ModuleAlone(c)' /\ MigrationAlone(c)' /\ MigrationsAlone' /\ PackageAlone(c)' /\ ArchiveAlone'
  <2> HIDE DEF olds
  <2> QED BY <1>0, <1>4, <1>5, NoModuleAlone, MigrationsAloneFrame, ArchiveAloneFrame DEF Making
<1> QED BY <1>5, <1>8, <1>9, <1>10, AloneStep

LEMMA AloneScanFile ==
  ASSUME IInv, Alone, NEW c \in Commands, ScanFile(c)
  PROVE  Alone'
<1> DEFINE q == run[c]
           r == run'[c]
<1>0. /\ TypeOK /\ q.stage = "scan" /\ Others(c)
      /\ UNCHANGED <<files, dirs, migrations, archive, made, spoiled, starts, raced>>
      /\ Least(q.todo) \in q.todo /\ Least(q.todo) \in Paths
      /\ r.stage = "idle" \/ Scanned(c, r)
  BY ScanEffect
<1>1. PICK p \in Paths : p = Least(q.todo)
  BY <1>0
<1>2. Only(c) /\ ScanAlone(q) /\ files \in [Paths -> Content] /\ q.id \in Ids
      /\ GoMod \in Paths /\ Paths \subseteq Nat
  BY <1>0, AloneOnly, RenamingFacts, TreeAssumption
  DEF Alone, RenameAlone, TypeOK, TreeAssumption
<1>3. \A d \in Commands : run[d].stage \notin {"apply", "restore"}
  BY <1>0, <1>2 DEF Only
<1>4. ASSUME ~spoiled.project
      PROVE  /\ \A x \in Paths : OneProject(files[x], files[GoMod].id)
             /\ Ordered(Routes)
             /\ q.old = {files[GoMod].id} /\ Paths = q.done \cup q.todo
             /\ Renamed(files[p], q.old, q.id) # files[p]
  <2>1. Ordered(Routes) /\ \A x \in Paths : OneProject(files[x], files[GoMod].id)
    BY <1>3, <1>4 DEF Alone, ProjectAlone
  <2>2. q.old = {files[GoMod].id} /\ q.id \notin q.old /\ Paths = q.done \cup q.todo
    BY <1>2, <1>4 DEF ScanAlone
  <2>3. PICK t \in Ids : t = files[GoMod].id
    BY <1>2 DEF Content
  <2>4. PICK text \in Content : text = files[p]
    BY <1>2
  <2>5. OneProject(text, t)
    BY <2>1, <2>3, <2>4
  <2>6. q.old = {t} /\ q.id # t
    BY <2>2, <2>3
  <2> HIDE DEF q
  <2>7. Renamed(text, {t}, q.id) = text <=> q.id = t
    BY <1>2, <2>5, RenamedOneProject
  <2> QED BY <2>1, <2>2, <2>4, <2>6, <2>7
<1>5. ProjectAlone'
  BY <1>0, <1>3 DEF Alone, ProjectAlone, OneProject, Ordered, Entries, Routes
<1>6. r.stage \in {"idle", "scan", "apply"}
  BY <1>0 DEF Scanned
<1>7. ModuleAlone(c)' /\ MigrationAlone(c)' /\ MigrationsAlone' /\ PackageAlone(c)' /\ ArchiveAlone'
  BY <1>0, <1>2, <1>6, NoModuleAlone, MigrationsAloneFrame, ArchiveAloneFrame DEF Making
<1>8. RenameAlone(c)'
  <2>1. CASE r.stage = "idle"
    BY <2>1 DEF RenameAlone
  <2>2. CASE Scanned(c, r)
    <3>1. r.texts = files /\ r.id = q.id /\ r.old = q.old
      <4>1. q.texts = files
        BY <1>2 DEF ScanAlone
      <4> QED BY <2>2, <1>1, <1>2, <4>1 DEF Scanned
    <3>2. ASSUME ~spoiled.project
          PROVE  IF r.stage = "scan" THEN r.done = q.done \cup {p} ELSE r.todo = q.done \cup {p}
      BY <2>2, <1>1, <1>4, <3>2 DEF Scanned
    <3>3. CASE r.stage = "scan"
      <4>1. r.todo = q.todo \ {p} /\ r.todo # {}
        BY <2>2, <3>3, <1>0, <1>1 DEF Scanned
      <4>2. ~spoiled.project =>
              r.old = {files[GoMod].id} /\ r.id \notin r.old /\ Paths = r.done \cup r.todo
        BY <1>0, <1>1, <1>2, <1>4, <3>1, <3>2, <3>3, <4>1 DEF ScanAlone
      <4>3. ScanAlone(run[c])'
        BY <1>0, <3>1, <4>1, <4>2 DEF ScanAlone
      <4> QED BY <3>3, <4>3 DEF RenameAlone
    <3>4. CASE r.stage = "apply"
      <4>1. r.done = {} /\ r.todo # {} /\ q.todo = {p}
        BY <2>2, <3>4, <1>1 DEF Scanned
      <4>2. made'.modules \subseteq Entries(r.texts[ModulesGo].imports)
        BY <1>0, <3>1 DEF Alone, ProjectAlone, Routes
      <4>3. r.todo # {} /\ \A x \in r.done, y \in r.todo : x < y
        BY <4>1
      <4>4. ASSUME ~spoiled'.project
            PROVE  /\ \A x \in Paths : OneProject(r.texts[x], r.texts[GoMod].id)
                   /\ r.old = {r.texts[GoMod].id}
                   /\ Ordered(r.texts[ModulesGo].imports)
                   /\ Paths = r.done \cup r.todo
                   /\ files' = [x \in Paths |->
                         IF x \in r.done THEN Renamed(r.texts[x], r.old, r.id) ELSE r.texts[x]]
        <5>1. files = [x \in Paths |-> IF x \in {} THEN Renamed(r.texts[x], r.old, r.id)
                                       ELSE r.texts[x]]
          BY <1>2, <3>1
        <5>2. ~spoiled.project
          BY <1>0, <4>4
        <5>3. Paths = r.done \cup r.todo
          BY <5>2, <1>4, <3>2, <3>4, <4>1
        <5>4. Ordered(r.texts[ModulesGo].imports)
          BY <5>2, <1>4, <3>1 DEF Routes
        <5> HIDE DEF r, q
        <5> QED BY <5>1, <5>2, <5>3, <5>4, <1>0, <1>4, <3>1, <4>1
      <4> QED BY <3>4, <4>2, <4>3, <4>4 DEF RenameAlone, OneProject, Ordered, Entries, Renamed
    <3> QED BY <2>2, <3>3, <3>4 DEF Scanned
  <2> QED BY <1>0, <2>1, <2>2
<1> QED BY <1>0, <1>2, <1>5, <1>7, <1>8, AloneStep

\* The files when a renaming has changed those in S.
Partly(q, S) == [p \in Paths |-> IF p \in S THEN Renamed(q.texts[p], q.old, q.id) ELSE q.texts[p]]

\* A renaming that has changed no file, or every file, leaves one project.
LEMMA PartlyRenamed ==
  ASSUME NEW q, q.texts \in [Paths -> Content], q.id \in Ids, NEW S \in SUBSET Paths,
         \A p \in Paths : OneProject(q.texts[p], q.texts[GoMod].id),
         q.old = {q.texts[GoMod].id}, Ordered(q.texts[ModulesGo].imports)
  PROVE  /\ Ordered(Partly(q, S)[ModulesGo].imports)
         /\ S \in {{}, Paths} =>
              \A p \in Paths : OneProject(Partly(q, S)[p], Partly(q, S)[GoMod].id)
<1>0. GoMod \in Paths /\ ModulesGo \in Paths /\ q.texts[GoMod].id \in Ids
      /\ \A p \in Paths : q.texts[p] \in Content
  BY TreeAssumption DEF TreeAssumption, Content
<1>1. PICK t \in Ids, id \in Ids, texts \in [Paths -> Content] :
        t = q.texts[GoMod].id /\ id = q.id /\ texts = q.texts
  BY <1>0
<1>2. \A p \in Paths : OneProject(Renamed(texts[p], {t}, id), id)
  BY <1>1, RenamedOneProject
<1>3. ASSUME NEW p \in Paths
      PROVE  Partly(q, S)[p] = IF p \in S THEN Renamed(texts[p], {t}, id) ELSE texts[p]
  BY <1>1 DEF Partly
<1>4. Ordered(Renamed(texts[ModulesGo], {t}, id).imports)
  <2>1. texts[ModulesGo] \in Content /\ {t} \in SUBSET Ids
    BY <1>0
  <2>2. LET new == Renamed(texts[ModulesGo], {t}, id) IN
        /\ DOMAIN new.imports = DOMAIN texts[ModulesGo].imports
        /\ \A i \in DOMAIN texts[ModulesGo].imports :
             new.imports[i].domain = texts[ModulesGo].imports[i].domain
    BY <2>1, RenamedProperties
  <2>3. Ordered(texts[ModulesGo].imports)
    BY <1>1
  <2> QED BY <2>2, <2>3 DEF Ordered
<1>5. Ordered(Partly(q, S)[ModulesGo].imports)
  BY <1>0, <1>1, <1>3, <1>4
<1>6. CASE S = {}
  <2>1. \A p \in Paths : Partly(q, S)[p] = q.texts[p]
    BY <1>1, <1>3, <1>6
  <2> QED BY <2>1, <1>0, <1>5
<1>7. CASE S = Paths
  <2>1. \A p \in Paths : OneProject(Partly(q, S)[p], id)
    BY <1>2, <1>3, <1>7
  <2>2. Partly(q, S)[GoMod].id = id
    BY <2>1, <1>0 DEF OneProject
  <2> QED BY <2>1, <2>2, <1>5
<1> QED BY <1>5, <1>6, <1>7

\* A step of a renaming, after which the files in S are changed.
LEMMA RenamingAlone ==
  ASSUME IInv, Alone, NEW c \in Commands, Only(c), Others(c),
         run[c].stage \in {"apply", "restore"},
         UNCHANGED <<migrations, archive, made>>, spoiled'.migrations = spoiled.migrations,
         spoiled.project => spoiled'.project,
         run'[c].stage \in {"idle", "apply", "restore", "finish"},
         made.modules \subseteq Entries(files'[ModulesGo].imports),
         run'[c].stage \in {"apply", "restore"} =>
             /\ run'[c].texts = run[c].texts /\ run'[c].old = run[c].old /\ run'[c].id = run[c].id
             /\ run'[c].todo # {} /\ \A p \in run'[c].done, r \in run'[c].todo : p < r,
         run'[c].stage = "restore" => run'[c].done # {},
         NEW S \in SUBSET Paths,
         ~spoiled'.project =>
             /\ files' = Partly(run[c], S)
             /\ run'[c].stage \in {"apply", "restore"} => S = run'[c].done
             /\ run'[c].stage \in {"idle", "finish"} => S \in {{}, Paths}
             /\ run'[c].stage = "apply" => Paths = run'[c].done \cup run'[c].todo
  PROVE  Alone'
<1> DEFINE q == run[c]
<1>0. q.texts \in [Paths -> Content] /\ q.id \in Ids /\ RenameAlone(c)
  BY RenamingFacts DEF Alone
<1>1. ASSUME ~spoiled'.project
      PROVE  /\ Ordered(files'[ModulesGo].imports)
             /\ S \in {{}, Paths} =>
                  \A p \in Paths : OneProject(files'[p], files'[GoMod].id)
  <2>1. /\ \A p \in Paths : OneProject(q.texts[p], q.texts[GoMod].id)
        /\ q.old = {q.texts[GoMod].id} /\ Ordered(q.texts[ModulesGo].imports)
    BY <1>0, <1>1 DEF RenameAlone
  <2>2. /\ Ordered(Partly(q, S)[ModulesGo].imports)
        /\ S \in {{}, Paths} =>
             \A p \in Paths : OneProject(Partly(q, S)[p], Partly(q, S)[GoMod].id)
    <3> HIDE DEF q
    <3> QED BY <1>0, <2>1, PartlyRenamed
  <2> QED BY <2>2, <1>1
<1>2. ProjectAlone'
  <2>1. ASSUME ~spoiled'.project, \A d \in Commands : run'[d].stage \notin {"apply", "restore"}
        PROVE  \A p \in Paths : OneProject(files'[p], files'[GoMod].id)
    BY SMTT(30), <1>1, <2>1
  <2> QED BY <1>1, <2>1 DEF ProjectAlone, OneProject, Ordered, Entries, Routes
<1>3. RenameAlone(c)'
  <2> SUFFICES ASSUME run'[c].stage \in {"apply", "restore"} PROVE RenameAlone(c)'
    BY DEF RenameAlone
  <2>1. made'.modules \subseteq Entries(run'[c].texts[ModulesGo].imports)
    BY <1>0 DEF RenameAlone
  <2>2. ASSUME ~spoiled'.project
        PROVE  /\ \A p \in Paths : OneProject(run'[c].texts[p], run'[c].texts[GoMod].id)
               /\ run'[c].old = {run'[c].texts[GoMod].id}
               /\ Ordered(run'[c].texts[ModulesGo].imports)
               /\ files' = [p \in Paths |->
                     IF p \in run'[c].done
                     THEN Renamed(run'[c].texts[p], run'[c].old, run'[c].id)
                     ELSE run'[c].texts[p]]
               /\ run'[c].stage = "apply" => Paths = run'[c].done \cup run'[c].todo
    <3>1. /\ \A p \in Paths : OneProject(q.texts[p], q.texts[GoMod].id)
          /\ q.old = {q.texts[GoMod].id} /\ Ordered(q.texts[ModulesGo].imports)
      BY <1>0, <2>2 DEF RenameAlone
    <3>2. files' = Partly(q, run'[c].done)
      BY <2>2
    <3> QED BY <3>1, <3>2, <2>2 DEF Partly
  <2> QED BY <2>1, <2>2 DEF RenameAlone, OneProject, Ordered, Entries, Renamed
<1>4. ModuleAlone(c)' /\ MigrationAlone(c)' /\ MigrationsAlone' /\ PackageAlone(c)' /\ ArchiveAlone'
  BY NoModuleAlone, MigrationsAloneFrame, ArchiveAloneFrame DEF Making
<1> QED BY <1>2, <1>3, <1>4, AloneStep

\* What a renaming that runs alone has.
LEMMA RenamingAloneFacts ==
  ASSUME IInv, Alone, NEW c \in Commands, run[c].stage \in {"apply", "restore"}
  PROVE  /\ TypeOK /\ Only(c) /\ run[c] \in Run
         /\ run[c].texts \in [Paths -> Content] /\ run[c].id \in Ids /\ run[c].old \in SUBSET Ids
         /\ run[c].todo \subseteq Paths /\ run[c].done \subseteq Paths /\ Paths \subseteq Nat
         /\ ModulesGo \in Paths
         /\ made.modules \subseteq Entries(Routes)
         /\ made.modules \subseteq Entries(run[c].texts[ModulesGo].imports)
         /\ run[c].todo # {} /\ \A p \in run[c].done, r \in run[c].todo : p < r
         /\ run[c].stage = "restore" => run[c].done # {}
         /\ ~spoiled.project => files = Partly(run[c], run[c].done)
         /\ ~spoiled.project /\ run[c].stage = "apply" => Paths = run[c].done \cup run[c].todo
<1>1. /\ run[c].texts \in [Paths -> Content] /\ run[c].id \in Ids /\ TypeOK /\ Only(c)
      /\ run[c] \in Run /\ RenameAlone(c)
  BY RenamingFacts, AloneOnly DEF IInv, TypeOK, Alone
<1>2. Paths \subseteq Nat /\ ModulesGo \in Paths
  BY TreeAssumption DEF TreeAssumption
<1>3. /\ run[c].todo \subseteq Paths /\ run[c].done \subseteq Paths /\ run[c].old \in SUBSET Ids
  BY <1>1 DEF Run
<1>4. made.modules \subseteq Entries(Routes)
  BY DEF Alone, ProjectAlone
<1>5. ~spoiled.project => files = Partly(run[c], run[c].done)
  BY <1>1 DEF RenameAlone, Partly
<1> QED BY <1>1, <1>2, <1>3, <1>4, <1>5 DEF RenameAlone

LEMMA AloneApplyFile ==
  ASSUME IInv, Alone, NEW c \in Commands, NEW ok \in BOOLEAN, ApplyFile(c, ok)
  PROVE  Alone'
<1> DEFINE q == run[c]
           p == Least(q.todo)
           next == IF q.todo = {p} THEN "finish" ELSE "apply"
           new == [q EXCEPT !.todo = @ \ {p}, !.done = @ \cup {p}, !.stage = next]
<1>0. q.stage = "apply"
  BY DEF ApplyFile, At
<1>1. UNCHANGED <<dirs, migrations, archive, made, spoiled>>
  BY DEF ApplyFile
<1>2. p \in q.todo /\ \A x \in q.todo : p <= x
  <2>1. q.todo \subseteq Nat /\ q.todo # {}
    BY <1>0, RenamingAloneFacts
  <2> QED BY <2>1, LeastIn
<1> HIDE DEF p
<1>3. CASE ok
  <2>1. files' = [files EXCEPT ![p] = Renamed(q.texts[p], q.old, q.id)]
        /\ run' = [run EXCEPT ![c] = new]
    BY <1>3 DEF ApplyFile, p
  <2>2. next \in {"finish", "apply"} /\ next \in Stages /\ p \in Paths
    BY <1>0, <1>2, RenamingAloneFacts DEF Stages
  <2>3. /\ new \in Run /\ new.stage = next /\ new.texts = q.texts /\ new.id = q.id
        /\ new.old = q.old /\ new.todo = q.todo \ {p} /\ new.done = q.done \cup {p}
    <3>1. q \in Run
      BY <1>0, RenamingAloneFacts
    <3> HIDE DEF next, q
    <3> QED BY <3>1, <2>2 DEF Run
  <2>4. run'[c] = new /\ Others(c)
    <3>1. TypeOK
      BY DEF IInv
    <3> HIDE DEF new
    <3> QED BY <3>1, <2>1, <2>3, RunReplaced
  <2>5. /\ files'[p] = Renamed(q.texts[p], q.old, q.id)
        /\ \A x \in Paths : x # p => files'[x] = files[x]
        /\ files' = [x \in Paths |-> files'[x]]
    <3>1. files \in [Paths -> Content]
      BY DEF IInv, TypeOK
    <3> QED BY <2>1, <2>2, <3>1
  <2>6. made.modules \subseteq Entries(files'[ModulesGo].imports)
    <3>1. CASE p = ModulesGo
      <4>1. q.texts[ModulesGo] \in Content /\ q.old \in SUBSET Ids /\ q.id \in Ids
        BY <1>0, RenamingAloneFacts
      <4>2. Entries(Renamed(q.texts[ModulesGo], q.old, q.id).imports)
              = Entries(q.texts[ModulesGo].imports)
        <5> HIDE DEF q
        <5> QED BY <4>1, RenamedEntries
      <4>3. made.modules \subseteq Entries(q.texts[ModulesGo].imports)
        BY <1>0, RenamingAloneFacts
      <4> QED BY <3>1, <4>2, <4>3, <2>5
    <3>2. CASE p # ModulesGo
      <4>1. made.modules \subseteq Entries(Routes) /\ ModulesGo \in Paths
        BY <1>0, RenamingAloneFacts
      <4> QED BY <3>2, <4>1, <2>5 DEF Routes
    <3> QED BY <3>1, <3>2
  <2>7. ASSUME next = "apply"
        PROVE  q.todo \ {p} # {} /\ \A x \in q.done \cup {p}, r \in q.todo \ {p} : x < r
    <3>1. /\ q.todo # {p} /\ \A x \in q.done, r \in q.todo : x < r
          /\ q.todo \subseteq Nat
      BY <1>0, <2>7, RenamingAloneFacts
    <3>2. \A r \in q.todo \ {p} : p < r
      <4> SUFFICES ASSUME NEW r \in q.todo \ {p} PROVE p < r
        OBVIOUS
      <4>1. p \in Nat /\ r \in Nat /\ p <= r /\ p # r
        BY <1>2, <3>1
      <4> QED BY <4>1
    <3> QED BY <1>2, <3>1, <3>2
  <2>8. q.done \cup {p} \in SUBSET Paths
    BY <1>0, <2>2, RenamingAloneFacts
  <2>9. ASSUME ~spoiled.project
        PROVE  /\ files' = Partly(q, q.done \cup {p})
               /\ next = "finish" => q.done \cup {p} = Paths
               /\ Paths = (q.done \cup {p}) \cup (q.todo \ {p})
    <3>1. files = Partly(q, q.done) /\ Paths = q.done \cup q.todo
      BY <1>0, <2>9, RenamingAloneFacts
    <3>2. \A x \in Paths : files'[x] = Partly(q, q.done \cup {p})[x]
      BY <2>5, <3>1 DEF Partly
    <3>3. files' = Partly(q, q.done \cup {p})
      BY <2>5, <3>2 DEF Partly
    <3> QED BY <3>1, <3>3, <1>2
  <2> DEFINE S == q.done \cup {p}
  <2>10. /\ run'[c].stage = next /\ run'[c].texts = q.texts /\ run'[c].old = q.old
         /\ run'[c].id = q.id /\ run'[c].todo = q.todo \ {p} /\ run'[c].done = S
    BY <2>3, <2>4
  <2>11. Only(c) /\ run[c].stage \in {"apply", "restore"}
    BY <1>0, RenamingAloneFacts
  <2> HIDE DEF next, new
  <2>12. ~spoiled'.project =>
           /\ files' = Partly(run[c], S)
           /\ run'[c].stage \in {"apply", "restore"} => S = run'[c].done
           /\ run'[c].stage \in {"idle", "finish"} => S \in {{}, Paths}
           /\ run'[c].stage = "apply" => Paths = run'[c].done \cup run'[c].todo
    BY <1>1, <2>2, <2>9, <2>10
  <2>13. run'[c].stage \in {"apply", "restore"} =>
           /\ run'[c].texts = run[c].texts /\ run'[c].old = run[c].old /\ run'[c].id = run[c].id
           /\ run'[c].todo # {} /\ \A x \in run'[c].done, r \in run'[c].todo : x < r
    BY <2>2, <2>7, <2>10
  <2>14. run'[c].stage \in {"finish", "apply"}
    BY <2>2, <2>10
  <2> HIDE DEF S, q
  <2> QED BY <1>1, <2>4, <2>6, <2>8, <2>11, <2>12, <2>13, <2>14, RenamingAlone DEF S
<1>4. CASE ~ok
  <2>1. UNCHANGED files /\ IF q.done = {} THEN End(c) ELSE To(c, "restore")
    BY <1>4 DEF ApplyFile
  <2>2. TypeOK /\ Only(c) /\ q.done \in SUBSET Paths
    BY <1>0, RenamingAloneFacts
  <2>3. /\ Others(c)
        /\ \/ run'[c].stage = "idle" /\ q.done = {}
           \/ run'[c].stage = "restore" /\ SameBut(q, run'[c]) /\ q.done # {}
    <3>1. CASE q.done = {}
      BY <2>1, <2>2, <3>1, RunEnded
    <3>2. CASE q.done # {}
      <4>1. run'[c] = [run[c] EXCEPT !.stage = "restore"] /\ run'[c].stage = "restore" /\ Others(c)
        BY <2>1, <2>2, <3>2, RunGoesTo DEF Stages
      <4>2. run[c] \in Run
        BY <2>2 DEF TypeOK
      <4> QED BY <3>2, <4>1, <4>2, StageOnly DEF Stages
    <3> QED BY <3>1, <3>2
  <2>4. made.modules \subseteq Entries(files'[ModulesGo].imports)
    BY <1>0, <2>1, RenamingAloneFacts DEF Routes
  <2>5. run'[c].stage \in {"apply", "restore"} =>
          /\ run'[c].texts = run[c].texts /\ run'[c].old = run[c].old /\ run'[c].id = run[c].id
          /\ run'[c].todo # {} /\ \A x \in run'[c].done, r \in run'[c].todo : x < r
    BY <1>0, <2>3, RenamingAloneFacts DEF SameBut
  <2>6. run'[c].stage = "restore" => run'[c].done # {} /\ run'[c].done = q.done
    BY <2>3 DEF SameBut
  <2>7. ~spoiled'.project => files' = Partly(run[c], q.done)
    BY <1>0, <1>1, <2>1, RenamingAloneFacts
  <2> HIDE DEF q
  <2> QED BY <1>0, <1>1, <2>1, <2>2, <2>3, <2>4, <2>5, <2>6, <2>7, RenamingAlone DEF q
<1> QED BY <1>3, <1>4

LEMMA AloneRestoreFile ==
  ASSUME IInv, Alone, NEW c \in Commands, NEW ok \in BOOLEAN, RestoreFile(c, ok)
  PROVE  Alone'
<1> DEFINE q == run[c]
           p == Greatest(q.done)
           new == [q EXCEPT !.done = @ \ {p}]
           S == q.done \ {p}
<1>0. q.stage = "restore"
  BY DEF RestoreFile, At
<1>1. /\ TypeOK /\ Only(c) /\ q \in Run /\ q.texts \in [Paths -> Content]
      /\ q.done \in SUBSET Paths /\ q.todo # {} /\ \A x \in q.done, r \in q.todo : x < r
      /\ files \in [Paths -> Content] /\ ModulesGo \in Paths
  BY <1>0, RenamingAloneFacts DEF TypeOK
<1>2. UNCHANGED <<dirs, migrations, archive, made>>
      /\ files' = (IF ok THEN [files EXCEPT ![p] = q.texts[p]] ELSE files)
      /\ spoiled' = (IF ok THEN spoiled ELSE [spoiled EXCEPT !.project = TRUE])
      /\ IF q.done = {p} THEN End(c) ELSE run' = [run EXCEPT ![c] = new]
  BY DEF RestoreFile
<1>3. p \in q.done
  <2>1. q.done # {} /\ Paths \subseteq Nat /\ q.todo \subseteq Paths
    BY <1>0, RenamingAloneFacts
  <2>2. PICK r \in q.todo : TRUE
    BY <1>1
  <2>3. r \in Nat /\ q.done \subseteq 0 .. r
    <3>1. r \in Nat /\ \A x \in q.done : x \in Nat /\ x < r
      BY <1>1, <2>1
    <3> HIDE DEF q
    <3> QED BY <3>1
  <2> HIDE DEF q
  <2> QED BY <2>1, <2>3, GreatestIn
<1> HIDE DEF p
<1>4. /\ Others(c)
      /\ \/ run'[c].stage = "idle" /\ S = {}
         \/ /\ run'[c].stage = "restore" /\ run'[c].texts = q.texts /\ run'[c].id = q.id
            /\ run'[c].old = q.old /\ run'[c].todo = q.todo /\ run'[c].done = S /\ S # {}
  <2>1. CASE q.done = {p}
    BY <1>1, <1>2, <2>1, RunEnded
  <2>2. CASE q.done # {p}
    <3>1. /\ new \in Run /\ new.stage = q.stage /\ new.texts = q.texts /\ new.id = q.id
          /\ new.old = q.old /\ new.todo = q.todo /\ new.done = S
      <4> HIDE DEF q
      <4> QED BY <1>1 DEF Run
    <3>2. run'[c] = new /\ Others(c)
      <4> HIDE DEF new
      <4> QED BY <1>1, <1>2, <2>2, <3>1, RunReplaced
    <3>3. S # {}
      BY <1>3, <2>2
    <3> QED BY <1>0, <3>1, <3>2, <3>3
  <2> QED BY <2>1, <2>2
<1>5. /\ spoiled'.migrations = spoiled.migrations
      /\ spoiled.project => spoiled'.project
      /\ ~spoiled'.project => ok /\ ~spoiled.project
  BY <1>1, <1>2 DEF TypeOK
<1>6. made.modules \subseteq Entries(files'[ModulesGo].imports)
  <2>1. /\ made.modules \subseteq Entries(Routes)
        /\ made.modules \subseteq Entries(q.texts[ModulesGo].imports)
    BY <1>0, RenamingAloneFacts
  <2>2. files'[ModulesGo] \in {files[ModulesGo], q.texts[ModulesGo]}
    BY <1>1, <1>2
  <2> QED BY <2>1, <2>2 DEF Routes
<1>7. ASSUME ~spoiled'.project PROVE files' = Partly(q, S)
  <2>1. files = Partly(q, q.done) /\ files' = [files EXCEPT ![p] = q.texts[p]]
    BY <1>0, <1>2, <1>5, <1>7, RenamingAloneFacts
  <2>2. \A x \in Paths : files'[x] = Partly(q, S)[x]
    BY <1>1, <1>3, <2>1 DEF Partly
  <2>3. files' = [x \in Paths |-> files'[x]]
    BY <1>1, <2>1
  <2> QED BY <2>2, <2>3 DEF Partly
<1>8. S \in SUBSET Paths /\ \A x \in S, r \in q.todo : x < r
  BY <1>1
<1> HIDE DEF S
<1>9. run'[c].stage \in {"apply", "restore"} =>
        /\ run'[c].texts = run[c].texts /\ run'[c].old = run[c].old /\ run'[c].id = run[c].id
        /\ run'[c].todo # {} /\ \A x \in run'[c].done, r \in run'[c].todo : x < r
  BY <1>1, <1>4, <1>8
<1>10. ~spoiled'.project =>
         /\ files' = Partly(run[c], S)
         /\ run'[c].stage \in {"apply", "restore"} => S = run'[c].done
         /\ run'[c].stage \in {"idle", "finish"} => S \in {{}, Paths}
         /\ run'[c].stage = "apply" => Paths = run'[c].done \cup run'[c].todo
  BY <1>4, <1>7
<1>11. /\ run'[c].stage \in {"idle", "apply", "restore", "finish"}
       /\ run'[c].stage = "restore" => run'[c].done # {}
       /\ run[c].stage \in {"apply", "restore"}
  BY <1>0, <1>4
<1> HIDE DEF q
<1> QED BY <1>1, <1>2, <1>4, <1>5, <1>6, <1>8, <1>9, <1>10, <1>11, RenamingAlone

LEMMA AloneFinish ==
  ASSUME IInv, Alone, NEW c \in Commands, Finish(c)
  PROVE  Alone'
<1>0. TypeOK /\ run[c].stage = "finish" /\ Only(c)
  BY AloneOnly DEF IInv, Finish, At
<1>1. UNCHANGED <<files, dirs, migrations, archive, made, spoiled>>
  BY DEF Finish, tree
<1>2. run'[c].stage = "idle" /\ Others(c)
  BY <1>0, RunEnded DEF Finish
<1> QED BY <1>0, <1>1, <1>2, NoModuleAlone, ProjectAloneFrame, MigrationsAloneFrame,
           ArchiveAloneFrame, AloneStep DEF Making

-----------------------------------------------------------------------------
(* A kill                                                                  *)

LEMMA AloneKill ==
  ASSUME IInv, Alone, NEW c \in Commands, Kill(c)
  PROVE  Alone'
<1> DEFINE q == run[c]
           ds == IF q.stage \in Making THEN spoiled.dirs \cup {q.entry.domain} ELSE spoiled.dirs
           ms == IF q.stage = "down" THEN spoiled.migrations \cup {New(c, "up")}
                 ELSE spoiled.migrations
           pr == spoiled.project \/ q.stage = "restore" \/ (q.stage = "apply" /\ q.done # {})
           ar == spoiled.archive \/ q.stage = "fill"
<1>0. TypeOK /\ Only(c) /\ q.stage # "idle"
  BY AloneOnly DEF IInv, Kill
<1>1. UNCHANGED <<files, dirs, migrations, archive, made>> /\ End(c)
  BY DEF Kill, tree
<1>2. run'[c].stage = "idle" /\ Others(c)
  BY <1>0, <1>1, RunEnded
<1>3. spoiled' = [spoiled EXCEPT !.dirs = ds, !.migrations = ms, !.project = pr, !.archive = ar]
  BY DEF Kill, Making
<1> HIDE DEF ds, ms, pr, ar
<1>4. spoiled'.migrations = ms /\ spoiled'.project = pr
  BY <1>0, <1>3 DEF TypeOK
<1>5. CASE q.stage \in {"apply", "restore"}
  <2>1. spoiled'.migrations = spoiled.migrations /\ (spoiled.project => spoiled'.project)
        /\ (~spoiled'.project => ~spoiled.project /\ q.done = {})
    BY <1>4, <1>5 DEF ms, pr
  <2>2. made.modules \subseteq Entries(files'[ModulesGo].imports)
    BY <1>1, <1>5, RenamingAloneFacts DEF Routes
  <2>3. ~spoiled'.project => files' = Partly(run[c], {})
    BY <1>1, <1>5, <2>1, RenamingAloneFacts
  <2>4. {} \in SUBSET Paths
    OBVIOUS
  <2> QED BY <1>0, <1>1, <1>2, <1>5, <2>1, <2>2, <2>3, <2>4, RenamingAlone
<1>6. CASE q.stage \notin {"apply", "restore"}
  <2>1. RenameAlone(c)' /\ ProjectAlone'
    <3>1. spoiled'.project = spoiled.project
      <4>1. spoiled.project \in BOOLEAN
        BY <1>0 DEF TypeOK
      <4> QED BY <1>4, <1>6, <4>1 DEF pr
    <3> QED BY <1>0, <1>1, <1>2, <1>6, <3>1, ProjectAloneFrame
  <2>2. MigrationAlone(c)'
    BY <1>2 DEF MigrationAlone
  <2>3. MigrationsAlone'
    <3>1. CASE q.stage = "down"
      BY <1>4, <3>1 DEF ms, MigrationsAlone
    <3>2. CASE q.stage # "down"
      <4>1. \A d \in Commands : run[d].stage # "down"
        BY <1>0, <3>2 DEF Only
      <4> QED BY <1>1, <1>4, <3>2, <4>1 DEF ms, Alone, MigrationsAlone
    <3> QED BY <3>1, <3>2
  <2> QED BY <1>0, <1>1, <1>2, <2>1, <2>2, <2>3, NoModuleAlone, ArchiveAloneFrame, AloneStep
             DEF Making
<1> QED BY <1>5, <1>6

-----------------------------------------------------------------------------
(* Steps and theorems                                                      *)

LEMMA AloneStutter == Alone /\ UNCHANGED vars => Alone'
<1> SUFFICES ASSUME Alone, UNCHANGED vars PROVE Alone'
  OBVIOUS
<1>1. UNCHANGED <<files, migrations, archive, run, made, spoiled>>
  BY DEF vars, tree, history
<1>2. ASSUME NEW c \in Commands
      PROVE  ModuleAlone(c)' /\ RenameAlone(c)' /\ MigrationAlone(c)' /\ PackageAlone(c)'
  <2>1. ModuleAlone(c) /\ RenameAlone(c) /\ MigrationAlone(c) /\ PackageAlone(c)
    BY DEF Alone
  <2>2. ModuleAlone(c)'
    BY <1>1, <2>1 DEF ModuleAlone
  <2>3. RenameAlone(c)'
    BY <1>1, <2>1 DEF RenameAlone, ScanAlone
  <2>4. MigrationAlone(c)' /\ PackageAlone(c)'
    BY <1>1, <2>1 DEF MigrationAlone, PackageAlone, New
  <2> QED BY <2>2, <2>3, <2>4
<1>3. ProjectAlone'
  BY <1>1 DEF Alone, ProjectAlone, Routes
<1>4. MigrationsAlone' /\ ArchiveAlone'
  BY <1>1 DEF Alone, MigrationsAlone, ArchiveAlone
<1>5. \A c, d \in Commands : run'[c].stage # "idle" /\ run'[d].stage # "idle" => c = d
  BY <1>1 DEF Alone
<1> QED BY <1>2, <1>3, <1>4, <1>5 DEF Alone

\* Each step of the one command that runs.
LEMMA AloneNext ==
  ASSUME IInv, ~raced => Alone, Next, ~raced'
  PROVE  Alone'
<1>1. PICK c \in Commands :
        \/ \E e \in Entry : NewModule(c, e)
        \/ \E n \in Names : NewMigration(c, n)
        \/ \E id \in Ids : InitProject(c, id)
        \/ PackageRelease(c)
        \/ ReadModules(c) \/ ScanFile(c) \/ Finish(c) \/ Kill(c)
        \/ \E ok \in BOOLEAN :
             \/ MakeDir(c, ok) \/ WriteFile(c, ok) \/ ReplaceModules(c, ok) \/ UndoModule(c, ok)
             \/ WriteUp(c, ok) \/ ApplyFile(c, ok) \/ RestoreFile(c, ok)
             \/ Stage(c, ok) \/ Copy(c, ok) \/ CreateArchive(c, ok)
             \/ \E removed \in BOOLEAN : WriteDown(c, ok, removed) \/ FillArchive(c, ok, removed)
  BY DEF Next
<1>2. CASE \E e \in Entry : NewModule(c, e)
  BY <1>2, AloneNewModule
<1>3. CASE \E n \in Names : NewMigration(c, n)
  BY <1>3, AloneNewMigration
<1>4. CASE \E id \in Ids : InitProject(c, id)
  BY <1>4, AloneInitProject
<1>5. CASE PackageRelease(c)
  BY <1>5, AlonePackageRelease
<1>6. CASE ReadModules(c) \/ ScanFile(c) \/ Finish(c) \/ Kill(c)
  <2>1. ~raced
    BY <1>6 DEF ReadModules, ScanFile, Finish, Kill, At
  <2> QED BY <1>6, <2>1, AloneReadModules, AloneScanFile, AloneFinish, AloneKill
<1>7. ASSUME NEW ok \in BOOLEAN,
             \/ MakeDir(c, ok) \/ WriteFile(c, ok) \/ ReplaceModules(c, ok) \/ UndoModule(c, ok)
             \/ WriteUp(c, ok) \/ ApplyFile(c, ok) \/ RestoreFile(c, ok)
             \/ Stage(c, ok) \/ Copy(c, ok) \/ CreateArchive(c, ok)
      PROVE  Alone'
  <2>1. CASE MakeDir(c, ok) \/ WriteFile(c, ok) \/ ReplaceModules(c, ok) \/ UndoModule(c, ok)
    <3>1. ~raced
      BY <2>1 DEF MakeDir, WriteFile, ReplaceModules, UndoModule, At
    <3> QED BY SMTT(30), <2>1, <3>1, AloneMakeDir, AloneWriteFile, AloneReplaceModules, AloneUndoModule
  <2>2. CASE WriteUp(c, ok) \/ ApplyFile(c, ok) \/ RestoreFile(c, ok)
    <3>1. ~raced
      BY <2>2 DEF WriteUp, ApplyFile, RestoreFile, At
    <3> QED BY <2>2, <3>1, AloneWriteUp, AloneApplyFile, AloneRestoreFile
  <2>3. CASE Stage(c, ok) \/ Copy(c, ok) \/ CreateArchive(c, ok)
    <3>1. ~raced
      BY <2>3 DEF Stage, Copy, CreateArchive, At
    <3> QED BY <2>3, <3>1, AloneStage, AloneCopy, AloneCreateArchive
  <2> QED BY <1>7, <2>1, <2>2, <2>3
<1>8. ASSUME NEW ok \in BOOLEAN, NEW removed \in BOOLEAN,
             WriteDown(c, ok, removed) \/ FillArchive(c, ok, removed)
      PROVE  Alone'
  <2>1. ~raced
    BY <1>8 DEF WriteDown, FillArchive, At
  <2> QED BY <1>8, <2>1, AloneWriteDown, AloneFillArchive
<1> QED BY <1>1, <1>2, <1>3, <1>4, <1>5, <1>6, <1>7, <1>8

\* As long as commands do not overlap, a renaming's changed files are known from
\* the texts that it read, and a migration's first file from its version.
THEOREM AloneInvariant == Spec => []AInv
<1>1. Init => AInv
  BY InitInv, AloneInit DEF AInv
<1>2. AInv /\ [Next]_vars => AInv'
  <2> SUFFICES ASSUME AInv, [Next]_vars PROVE AInv'
    OBVIOUS
  <2>1. IInv'
    BY StepInv DEF AInv
  <2>2. ASSUME ~raced' PROVE Alone'
    <3>1. CASE Next
      BY <2>2, <3>1, AloneNext DEF AInv
    <3>2. CASE UNCHANGED vars
      <4>1. raced' = raced
        BY <3>2 DEF vars, history
      <4> QED BY <2>2, <3>2, <4>1, AloneStutter DEF AInv
    <3> QED BY <3>1, <3>2
  <2> QED BY <2>1, <2>2 DEF AInv
<1> QED BY <1>1, <1>2, PTL DEF Spec

\* Commands that do not overlap and are not killed keep the tree consistent,
\* however they fail (project.go:205-217, module.go:289-316, migration.go:95-157).
THEOREM AloneConsistent == Spec => []AloneIsConsistent
<1>1. ASSUME AInv PROVE AloneIsConsistent
  <2> SUFFICES ASSUME ~raced, Quiet PROVE AloneIsConsistent
    BY DEF AloneIsConsistent
  <2>1. ProjectAlone /\ MigrationsAlone /\ ArchiveAlone
    BY <1>1 DEF AInv, Alone
  <2>2. \A c \in Commands : run[c].stage \notin {"apply", "restore", "down"}
    BY DEF Quiet
  <2>3. /\ ~spoiled.project => \A p \in Paths : OneProject(files[p], files[GoMod].id)
        /\ ~spoiled.project => Ordered(Routes)
        /\ made.modules \subseteq Entries(Routes)
    BY <2>1, <2>2 DEF ProjectAlone
  <2>4. spoiled.migrations = {} => Valid(migrations) \/ Latest(migrations) > MaxVersion
    BY <2>1, <2>2 DEF MigrationsAlone
  <2> QED BY <2>1, <2>3, <2>4 DEF AloneIsConsistent, OneProject, Ordered, ArchiveAlone
<1> QED BY <1>1, AloneInvariant, PTL
=============================================================================
