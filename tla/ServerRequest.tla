----------------------------- MODULE ServerRequest -----------------------------
(***************************************************************************)
(* ProcessRequest of the test server: which visitor a session gets for the *)
(* :path of its request, and the parameters of the devious-baton visitor,  *)
(* which are read from the query.                                          *)
(*                                                                         *)
(* A query is a sequence of key-value pairs, as url::ExtractQueryKeyValue  *)
(* yields them.  A value is an int, or NotANumber for whatever SimpleAtoi  *)
(* does not parse: text, an empty value, a number that needs more than 32  *)
(* bits.  The call is synchronous; one iteration of its loop is one step.  *)
(***************************************************************************)
EXTENDS Integers, Sequences

CONSTANTS
    Key,            \* the keys of queries, "count" and "baton" among them
    IntValue,       \* the numbers that occur as values
    NotANumber,     \* a value that is no number
    Draw,           \* what RandUint64 may return
    MaxQuery        \* no query has more pairs

ASSUME ServerRequestAssumption ==
    /\ {"count", "baton"} \subseteq Key
    /\ IntValue \subseteq Int
    /\ NotANumber \notin Int
    /\ Draw \subseteq Nat
    /\ MaxQuery \in Nat

Value == IntValue \cup {NotANumber}

Param == [key : Key, value : Value]

Path == {"invalid", "/webtransport/echo", "/webtransport/devious-baton", "unknown"}

VARIABLES
    path, query,    \* the request, parsed by GURL
    read,           \* how many pairs of the query the loop has read
    count, initial_value,
    answer          \* what ProcessRequest returns, "none" before it does

vars == <<path, query, read, count, initial_value, answer>>

Answers == {"none", "InvalidArgument", "NotFound", "echo", "devious-baton"}

TypeOK ==
    /\ path \in Path
    /\ query \in Seq(Param)
    /\ read \in 0..Len(query)
    /\ count \in 0..255
    /\ initial_value \in 0..255
    /\ answer \in Answers

-----------------------------------------------------------------------------

\* What an int becomes when it is assigned to a DeviousBatonValue, an 8-bit
\* unsigned integer.
DeviousBatonValue(n) == n % 256

\* (count and initial_value exist only on the path of the baton.)
Init ==
    /\ path \in Path
    /\ \E n \in 0..MaxQuery : query \in [1..n -> Param]
    /\ read = 0
    /\ count = 1
    /\ \E random \in Draw : initial_value = DeviousBatonValue(random)
    /\ answer = "none"

\* The path decides on everything but the baton's parameters.
ChooseVisitor ==
    /\ answer = "none"
    /\ \/ path = "invalid" /\ answer' = "InvalidArgument"
       \/ path = "/webtransport/echo" /\ answer' = "echo"
       \/ path = "unknown" /\ answer' = "NotFound"
    /\ UNCHANGED <<path, query, read, count, initial_value>>

\* Mutation: the upper bound is off by one, so that 256 becomes a baton of 0.
OneTooMany(value) == value = NotANumber \/ value < 0 \/ value > 256

\* Mutation: the sign is not looked at.
NotTooLarge(value) == value = NotANumber \/ value > 255

OutOfRange(value) == value = NotANumber \/ value < 0 \/ value > 255

\* Mutation: any key with a bad value is an error.
RefuseAnyKey(key, value) ==
    /\ IF OutOfRange(value)
       THEN answer' = "InvalidArgument" /\ UNCHANGED <<count, initial_value>>
       ELSE /\ count' = IF key = "count" THEN value ELSE count
            /\ initial_value' = IF key = "baton" THEN DeviousBatonValue(value)
                                                 ELSE initial_value
            /\ UNCHANGED answer
    /\ read' = read + 1
    /\ UNCHANGED <<path, query>>

\* One pair of the query.  A value that does not fit is an error for the two
\* keys the visitor knows, and is skipped for any other.
ReadParam(key, value) ==
    /\ IF OutOfRange(value)
       THEN /\ answer' = IF key \in {"count", "baton"} THEN "InvalidArgument" ELSE answer
            /\ UNCHANGED <<count, initial_value>>
       ELSE /\ count' = IF key = "count" THEN value ELSE count
            /\ initial_value' = IF key = "baton" THEN DeviousBatonValue(value)
                                                 ELSE initial_value
            /\ UNCHANGED answer
    /\ read' = read + 1
    /\ UNCHANGED <<path, query>>

ReadQuery ==
    /\ answer = "none" /\ path = "/webtransport/devious-baton"
    /\ read < Len(query)
    /\ ReadParam(query[read + 1].key, query[read + 1].value)

MakeBatonVisitor ==
    /\ answer = "none" /\ path = "/webtransport/devious-baton"
    /\ read = Len(query)
    /\ answer' = "devious-baton"
    /\ UNCHANGED <<path, query, read, count, initial_value>>

Next == ChooseVisitor \/ ReadQuery \/ MakeBatonVisitor

Spec == Init /\ [][Next]_vars

-----------------------------------------------------------------------------
(* Properties. *)

\* `used' is what the first n pairs ask for under a key: the value of the last
\* pair with that key.
LastOf(key, n, used) ==
    \E i \in 1..n :
        /\ query[i].key = key /\ query[i].value = used
        /\ \A j \in (i+1)..n : query[j].key # key

Absent(key, n) == \A i \in 1..n : query[i].key # key

\* A visitor for the baton is made with the count and the first baton that the
\* request asked for: the last value of each key, unchanged by the narrowing
\* to 8 bits, or a count of 1 where the query has none.
BatonAsAsked ==
    answer = "devious-baton" =>
        /\ \/ LastOf("count", Len(query), count)
           \/ Absent("count", Len(query)) /\ count = 1
        /\ \/ LastOf("baton", Len(query), initial_value)
           \/ Absent("baton", Len(query))

Malformed ==
    \E i \in 1..Len(query) :
        /\ query[i].key \in {"count", "baton"}
        /\ query[i].value \notin 0..255

\* A request for the baton is refused for a count or baton out of range at any
\* place of the query, also when a later pair would overrule it, and for
\* nothing else: a pair with another key never decides.
RefusedIfMalformed ==
    path = "/webtransport/devious-baton" /\ answer # "none" =>
        answer = IF Malformed THEN "InvalidArgument" ELSE "devious-baton"

=============================================================================
