----------------------------- MODULE Contracts -----------------------------
(***************************************************************************)
(* The rules that are computed rather than run: how an error is answered   *)
(* (ErrorContract), which settings are accepted (ConfigRules) and what a   *)
(* renaming leaves (ProjectRename).  A step puts a question to one of      *)
(* them.                                                                   *)
(***************************************************************************)
EXTENDS Integers, Sequences

CONSTANTS
    Codes, Statuses, Fields, MaxErrors, MaxDepth,            \* of ErrorContract
    Defaults, Timeouts, Files, Ids, Digest, Limit, Blank,    \* of ConfigRules
    Identities, Spelling,                                    \* of ProjectRename
    Hosts,      \* tokens with a dot, which no name has
    Tokens,     \* the words that the prefix of a key may be made of
    None

VARIABLES chain, answer, file, loaded, realms, asked, renamed

vars == <<chain, answer, file, loaded, realms, asked, renamed>>

Error == INSTANCE ErrorContract

Config == INSTANCE ConfigRules

Project == INSTANCE ProjectRename

\* Codes and statuses are Go integers, and None is not the name of a field.
ASSUME ErrorAssumption ==
    /\ Codes \subseteq Int /\ Statuses \subseteq Int
    /\ MaxErrors \in Nat /\ MaxDepth \in Nat
    /\ None \notin Fields

\* What decoding into Config makes sure of (config.go:132-137): a setting that is
\* a duration or a text is one.
HasTypes(settings) ==
    /\ \A timeout \in Timeouts \cap DOMAIN settings : settings[timeout] \in -Limit .. Limit - 1
    /\ \A prefix \in {"app", "admin"} \cap DOMAIN settings : settings[prefix] \in Seq(Tokens)

ASSUME ConfigAssumption ==
    /\ Limit \in Nat \ {0}
    /\ {"lifetime", "idleTimeout"} \subseteq Timeouts
    /\ Timeouts \cup {"name", "env", "host", "logLevel", "app", "admin"} \subseteq DOMAIN Defaults
    /\ HasTypes(Defaults)
    /\ \A f \in Files \ {Blank} : HasTypes(f)

\* The digest of a token is not a word that ends a key, and None is neither a
\* prefix nor a pair of realms.
ASSUME KeyAssumption ==
    /\ Digest \notin {"sessions", "devices"} /\ ":" \in Tokens
    /\ None \notin Seq(Tokens)
    /\ None \notin [app : Seq(Tokens), admin : Seq(Tokens), retention : Int]

\* What a name cannot hold (project.go:18), nor a word of the program.
Marks == {"#", "/", ":", " ", Project!Quote, Project!Underscore}

\* A module path has a slash, which it does not begin with (rename.sh:107-113), or
\* a host (project.go:110); only the template's own is its name.  No text holds the
\* placeholder.
ASSUME IdentityAssumption ==
    /\ Hosts \subseteq STRING \ Marks
    /\ Spelling \in [Project!Words -> Seq(STRING \ (Marks \cup Hosts \cup {"-"}))]
    /\ \A p \in Identities :
         /\ p.name \in Seq(STRING \ (Marks \cup Hosts)) /\ p.name # <<>>
         /\ p.module \in Seq(STRING \ {"#", " ", Project!Quote}) /\ p.module # <<>>
         /\ p.module # p.name =>
              \E i \in DOMAIN p.module : p.module[i] \in Hosts \/ (i > 1 /\ p.module[i] = "/")

Init == Error!Init /\ Config!Init /\ Project!Init

Next ==
    \/ Error!HandleError /\ UNCHANGED <<file, loaded, realms, asked, renamed>>
    \/ Config!Configure /\ UNCHANGED <<chain, answer, asked, renamed>>
    \/ Project!Rename /\ UNCHANGED <<chain, answer, file, loaded, realms>>

Spec == Init /\ [][Next]_vars

-----------------------------------------------------------------------------
\* README.md:296: a failure's code begins with its status (response.go:44-88).
StatusIsInCode == Error!StatusIsInCode

\* Settings that are accepted serve both realms (config.go:207-316, realm.go:52-79).
LoadSuffices == Config!LoadSuffices

\* A renamed project reads as a project of that name (project.go:159-186,
\* rename.sh:146-178).
RenameIsRight == Project!RenameIsRight
=============================================================================
