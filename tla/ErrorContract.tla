--------------------------- MODULE ErrorContract ---------------------------
(***************************************************************************)
(* How a failed request is answered (internal/apperror, internal/httpx and *)
(* the error handler of internal/httpserver): what becomes of an error     *)
(* chain in the answer and in the log.                                     *)
(*                                                                         *)
(* An error chain is a sequence, the outermost error first, as errors.As   *)
(* walks it.  A validation error is the path of the field, whose first     *)
(* part is the name of the request type; None stands for a type without a  *)
(* name.                                                                   *)
(***************************************************************************)
EXTENDS Integers, Sequences, SequencesExt

CONSTANTS
    Codes,      \* the business codes that application errors carry
    Statuses,   \* the statuses that errors of the web framework carry
    Fields,     \* the names of request types and fields
    MaxErrors,  \* bound on the length of a chain
    MaxDepth,   \* bound on the number of fields in a path
    None

VARIABLES
    chain,      \* the error that a handler returned
    answer      \* what the client is sent and whether the error is logged

vars == <<chain, answer>>

Paths ==
    {path \in SeqOf(Fields \cup {None}, 1 + MaxDepth) :
        Len(path) > 1 /\ \A i \in 2 .. Len(path) : path[i] # None}

Errors ==
    [kind : {"app"}, code : Codes] \cup [kind : {"fiber"}, status : Statuses]
        \cup [kind : {"validation"}, path : Paths] \cup [kind : {"bind", "other"}]

IsFailure(status) == status \in 400 .. 599

\* Faulty: the prefix of a code is taken to be one digit shorter.
HTTPStatusOfThousands(code) ==
    IF code = 0 THEN 200 ELSE IF IsFailure(code \div 1000) THEN code \div 1000 ELSE 500

HTTPStatus(code) ==
    IF code = 0 THEN 200 ELSE IF IsFailure(code \div 100) THEN code \div 100 ELSE 500

\* Every status that codeFromHTTPStatus lists stands for its first code.
CodeFromHTTPStatus(status) == IF IsFailure(status) THEN status * 100 ELSE 50000

\* Every 5xx but three is worded alike, so that no failure of the server shows.
MessageFromHTTPStatus(status) ==
    IF status \in {400, 401, 403, 404, 405, 408, 409, 413, 415, 429, 502, 503, 504}
    THEN <<"worded", status>>
    ELSE IF status >= 500 THEN <<"worded", 500>> ELSE <<"standard", status>>

\* A path is shown as its parts without the type; a path of one part has no
\* separator and is shown as it is.
Named(path) == IF Head(path) = None THEN Tail(path) ELSE path

ValidationField(path) ==
    LET named == Named(path) IN IF Len(named) > 1 THEN Tail(named) ELSE named

\* The kinds that are looked for, one after the other in the whole chain.
Kinds == <<"app", "validation", "bind", "fiber">>

Answered(errors) ==
    LET k == SelectInSeq(Kinds, LAMBDA kind : \E i \in DOMAIN errors : errors[i].kind = kind)
    IN  IF k = 0 THEN [kind |-> "other"]
        ELSE errors[SelectInSeq(errors, LAMBDA e : e.kind = Kinds[k])]

Failure(status, code, message, field) ==
    [status |-> status, code |-> code, message |-> message, field |-> field]

ResolveError(errors) ==
    LET e == Answered(errors) IN
    CASE e.kind = "app" -> Failure(HTTPStatus(e.code), e.code, <<"own">>, None)
      [] e.kind = "validation" ->
           Failure(400, 40001, <<"validation">>, ValidationField(e.path))
      [] e.kind = "bind" -> Failure(400, 40000, <<"binding">>, None)
      [] e.kind = "fiber" ->
           Failure(e.status, CodeFromHTTPStatus(e.status),
                   MessageFromHTTPStatus(e.status), None)
      [] e.kind = "other" -> Failure(500, 50000, <<"internal">>, None)

HandleError ==
    /\ chain = None
    /\ \E errors \in SeqOf(Errors, MaxErrors) \ {<<>>} :
          /\ chain' = errors
          /\ answer' = [failure |-> ResolveError(errors),
                        logged  |-> ResolveError(errors).status >= 500]

Init == chain = None /\ answer = None

-----------------------------------------------------------------------------
Holds(errors, kind) == \E i \in DOMAIN errors : errors[i].kind = kind

Outermost(errors, i) == \A j \in 1 .. i - 1 : errors[j].kind # errors[i].kind

\* The chains whose answer cannot keep to the convention: the outermost application
\* error has a code outside of 40000 .. 59999, or there is no error but of the
\* framework and the outermost has a status that is not a failure.
Unconventional(errors) ==
    \E i \in DOMAIN errors :
        /\ Outermost(errors, i)
        /\ \/ errors[i].kind = "app" /\ ~ IsFailure(errors[i].code \div 100)
           \/ /\ errors[i].kind = "fiber" /\ ~ IsFailure(errors[i].status)
              /\ \A kind \in {"app", "validation", "bind"} : ~ Holds(errors, kind)

\* README.md:296: the code of a failure is its HTTP status and two digits more.
\* Whatever kinds of errors a chain holds and in whatever order, the answer
\* keeps to it, an application error answers for all it wraps and all that wraps
\* it, an error of the server is always logged, and the client is told the field
\* it sent, below the name of the request type (response.go:44-88,
\* error.go:37-48, server.go:79-93).  Outside of it are the errors that have no
\* such code, and a nested field of a request type without a name: its first
\* part is dropped for the type's (validator.go:87-93).
StatusIsInCode ==
    chain # None =>
        LET failure == answer.failure IN
        /\ failure.code \div 100 = failure.status \/ Unconventional(chain)
        /\ failure.code >= 50000 /\ ~ Unconventional(chain) => answer.logged
        /\ Holds(chain, "app") =>
              \E i \in DOMAIN chain :
                  /\ chain[i].kind = "app" /\ Outermost(chain, i)
                  /\ failure.code = chain[i].code
        /\ failure.message = <<"validation">> =>
              \E i \in DOMAIN chain :
                  /\ chain[i].kind = "validation"
                  /\ \/ failure.field = Tail(chain[i].path)
                     \/ Head(chain[i].path) = None /\ Len(chain[i].path) > 2
=============================================================================
