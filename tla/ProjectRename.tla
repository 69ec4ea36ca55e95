--------------------------- MODULE ProjectRename ---------------------------
(***************************************************************************)
(* How a project is given a new module path and a new name: by the         *)
(* developer tool (tools/devtool/project.go) and by the script that does   *)
(* the same without Go (scripts/rename.sh).                                *)
(*                                                                         *)
(* A text is a sequence of tokens, and so are a module path, a name and    *)
(* each word of the program that stands beside one.  A token may be a word *)
(* or a single letter: "-", "_", "/", ":", the blank and the quote are     *)
(* always tokens of their own.                                             *)
(***************************************************************************)
EXTENDS Integers, Sequences

CONSTANTS
    Identities,     \* the module paths and names of projects: [module, name]
    Spelling,       \* the tokens of each word of the program, which a name may be in
    None

VARIABLES
    asked,          \* what is renamed: [kind, file, from, to]
    renamed         \* the line that the tool and the script leave: [tool, script]

vars == <<asked, renamed>>

\* Both have one placeholder, which no text holds.
Placeholder == <<"#">>

Quote == "\""

Underscore == "_"

Words == {"module", "name", "user", "internal", "local", "auth", "app"}

Directive == Spelling["module"] \o <<" ">>

Occurs(part, text, i) ==
    /\ i + Len(part) <= Len(text) + 1
    /\ \A k \in DOMAIN part : text[i + k - 1] = part[k]

Holds(text, part) == \E i \in DOMAIN text : Occurs(part, text, i)

\* Each occurrence from the left, none inside of another.
Replace(text, old, new) ==
    LET rest[i \in 1 .. Len(text) + 1] ==
          IF i > Len(text) THEN <<>>
          ELSE IF Occurs(old, text, i) THEN new \o rest[i + Len(old)]
          ELSE <<text[i]>> \o rest[i + 1]
    IN  rest[1]

Underscored(name) == [i \in DOMAIN name |-> IF name[i] = "-" THEN Underscore ELSE name[i]]

-----------------------------------------------------------------------------
(* The files that are read, and what becomes of a line of theirs           *)

IsProjectTextFile(file) == file \in {"go", "go.mod", "text", "rename.sh"}

IsTargetFile(file) == file \in {"go", "go.mod", "text", "json"}

Quoted(module, next) == <<Quote>> \o module \o <<next>>

\* With one word for both, only what can be nothing but the module path is kept
\* from the replacement of the name.
KeepModule(file, text, old) ==
    IF old.module # old.name THEN Replace(text, old.module, Placeholder)
    ELSE IF file = "go"
         THEN Replace(Replace(text, Quoted(old.module, "/"), Quoted(Placeholder, "/")),
                      Quoted(old.module, Quote), Quoted(Placeholder, Quote))
    ELSE IF file = "go.mod"
         THEN Replace(text, Directive \o old.module, Directive \o Placeholder)
    ELSE text

\* The script replaces the line of go.mod only as a whole.
KeepModuleOfScript(file, text, old) ==
    IF old.module = old.name /\ file = "go.mod"
    THEN IF text = Directive \o old.module THEN Directive \o Placeholder ELSE text
    ELSE KeepModule(file, text, old)

\* Faulty: the module path is put in before the name is replaced.
ReplaceNamesLast(text, old, new) ==
    LET restored == Replace(text, Placeholder, new.module)
        database == Replace(restored, Underscored(old.name), Underscored(new.name))
    IN  Replace(database, old.name, new.name)

ReplaceNames(text, old, new) ==
    LET database == Replace(text, Underscored(old.name), Underscored(new.name))
        named == Replace(database, old.name, new.name)
    IN  Replace(named, Placeholder, new.module)

ReplaceProjectContent(file, text, old, new) ==
    IF IsProjectTextFile(file) THEN ReplaceNames(KeepModule(file, text, old), old, new)
    ELSE text

Rewrite(file, text, old, new) ==
    IF IsTargetFile(file) THEN ReplaceNames(KeepModuleOfScript(file, text, old), old, new)
    ELSE text

-----------------------------------------------------------------------------
(* The lines of a project, as they are to be in a project of that identity *)

Before(kind) ==
    CASE kind = "module"   -> Directive
      [] kind = "name"     -> Spelling["name"] \o <<":">>
      [] kind = "database" -> Spelling["user"] \o <<":">>
      [] OTHER             -> <<Quote>>

After(kind) ==
    CASE kind = "import"  -> <<"/">> \o (Spelling["internal"] \o <<Quote>>)
      [] kind = "literal" -> <<Quote>>
      [] kind = "prefix"  ->
           <<":">> \o (Spelling["local"] \o <<":">> \o Spelling["auth"] \o <<":">>
                         \o Spelling["app"] \o <<":">> \o <<Quote>>)
      [] OTHER            -> <<>>

Identity(kind, project) ==
    CASE kind \in {"import", "module"} -> project.module
      [] kind = "database"             -> Underscored(project.name)
      [] OTHER                         -> project.name

Line(kind, project) == Before(kind) \o (Identity(kind, project) \o After(kind))

FilesOf(kind) ==
    CASE kind = "import" -> {"go"}
      [] kind = "module" -> {"go.mod"}
      [] kind = "literal" -> {"go", "json"}
      [] OTHER -> {"go", "text", "json", "rename.sh"}

Kinds == {"import", "module", "name", "literal", "database", "prefix"}

Rename ==
    /\ asked = None
    /\ \E from \in Identities, to \in Identities, kind \in Kinds :
       \E file \in FilesOf(kind) :
          /\ from # to
          /\ to.module # to.name
          /\ asked' = [kind |-> kind, file |-> file, from |-> from, to |-> to]
          /\ renamed' =
                [tool   |-> ReplaceProjectContent(file, Line(kind, from), from, to),
                 script |-> Rewrite(file, Line(kind, from), from, to)]

Init == asked = None /\ renamed = None

-----------------------------------------------------------------------------
\* A renamed project reads as if it had been written under its new module path
\* and name, whichever of the two programs renamed it (project.go:159-186,
\* rename.sh:146-178).  That does not hold of
\*   - a name that stands alone in quotes in a Go file while module path and name
\*     are one word, as in config.go:19: it becomes the module path;
\*   - a name without a dash: it is its own database name and is replaced twice,
\*     first by the new one's underscored form and, if that holds the old name,
\*     then again inside of it;
\*   - a line with a word that the name occurs in, or is: local or app in the
\*     prefix of a key (config.go:48), user in that of a database, name in the
\*     configuration, internal in imports, module in go.mod;
\*   - JSON, which the tool leaves alone, and the script itself, which the
\*     script leaves alone.
RenameIsRight ==
    asked # None =>
        LET from == asked.from
            to == asked.to
            wanted == Line(asked.kind, to)
            literal == asked.kind = "literal" /\ asked.file = "go" /\ from.module = from.name
            twice == /\ Underscored(from.name) = from.name
                     /\ \/ Underscored(to.name) # to.name
                        \/ from.name # to.name /\ Holds(to.name, from.name)
            inWord == \/ Holds(Before(asked.kind), from.name)
                      \/ Holds(After(asked.kind), from.name)
            exempt == (twice /\ asked.kind \notin {"import", "module"}) \/ inWord
        IN  /\ \/ renamed.tool = (IF literal THEN Quoted(to.module, Quote) ELSE wanted)
               \/ exempt
               \/ asked.file = "json" /\ renamed.tool = Line(asked.kind, from)
            /\ \/ renamed.script = renamed.tool
               \/ asked.file = "json" /\ (renamed.script = wanted \/ exempt)
               \/ asked.file = "rename.sh" /\ renamed.script = Line(asked.kind, from)
=============================================================================
