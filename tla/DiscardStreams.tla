--------------------------- MODULE DiscardStreams ---------------------------
(***************************************************************************)
(* The streams a server opens on the test client's session                 *)
(* (samples/web_transport_test_client.cc, 64-86 and 111-136).              *)
(* EchoClientVisitor accepts them and DiscardStreamVisitor throws away     *)
(* what they carry.  They matter to the echo because all streams of a      *)
(* connection share one flow-control window: a byte that nobody reads      *)
(* keeps its place in it for good, and the response of the echo, read by   *)
(* CompleteBufferVisitor, would have to do without.                        *)
(*                                                                         *)
(* External: the session, which queues incoming streams until they are     *)
(* accepted, skips those that were reset before that, and makes no         *)
(* callback for a stream without a visitor; and QUIC, which counts every   *)
(* byte from its arrival until it is read or its stream reset.             *)
(***************************************************************************)
EXTENDS Naturals, FiniteSetsExt

CONSTANTS
    Bidi, Uni,          \* the streams the server may open, by kind
    Window,             \* the connection's receive window, in bytes
    MaxPush,            \* bytes the server writes to one of them (model bound)
    ResponseLength      \* bytes of the echo's response

ASSUME DiscardAssumption ==
    /\ Bidi \intersect Uni = {}
    /\ Window \in Nat \ {0} /\ MaxPush \in Nat /\ ResponseLength \in Nat

Incoming == Bidi \union Uni
Kinds == {"bidirectional", "unidirectional"}
StreamsOf(kind) == IF kind = "bidirectional" THEN Bidi ELSE Uni

VARIABLES
    \* The streams of the server.
    stage,              \* "none", "waiting", "attached", or "over" for reading
    pushed,             \* bytes written to each so far
    finished,           \* those whose FIN has arrived
    unread,             \* bytes of each that arrived and were not read
    acceptOwed,         \* the kinds whose OnIncoming...StreamAvailable is due
    readOwed,           \* the attached streams whose OnCanRead is due
    \* The response of the echo.
    answered,           \* bytes of it that have arrived
    received            \* ... and that CompleteBufferVisitor has read

streamVars == <<stage, pushed, finished, unread, acceptOwed, readOwed>>
responseVars == <<answered, received>>
vars == <<streamVars, responseVars>>

TypeOK ==
    /\ stage \in [Incoming -> {"none", "waiting", "attached", "over"}]
    /\ pushed \in [Incoming -> 0..MaxPush] /\ unread \in [Incoming -> 0..MaxPush]
    /\ finished \in SUBSET Incoming
    /\ acceptOwed \in SUBSET Kinds /\ readOwed \in SUBSET Incoming
    /\ answered \in 0..ResponseLength /\ received \in 0..ResponseLength

Init ==
    /\ stage = [s \in Incoming |-> "none"]
    /\ pushed = [s \in Incoming |-> 0] /\ unread = [s \in Incoming |-> 0]
    /\ finished = {} /\ acceptOwed = {} /\ readOwed = {}
    /\ answered = 0 /\ received = 0

-----------------------------------------------------------------------------
(* The client. *)

\* DiscardStreamVisitor::OnCanRead reads a stream until there is nothing left
\* or the FIN was read: the streams in `read' come out empty.
Discard(read) ==
    /\ unread' = [s \in Incoming |-> IF s \in read THEN 0 ELSE unread[s]]
    /\ readOwed' = readOwed \ read

\* What becomes of streams that are read, and those of them that are at an end.
StageAfterRead(read) ==
    [s \in Incoming |-> IF s \notin read THEN stage[s]
                        ELSE IF s \in finished THEN "over" ELSE "attached"]

Waiting(kind) == {s \in StreamsOf(kind) : stage[s] = "waiting"}

\* Mutation: accepted streams are left to their next callback.
AcceptOnly(kind) ==
    /\ kind \in acceptOwed
    /\ acceptOwed' = acceptOwed \ {kind}
    /\ stage' = [s \in Incoming |-> IF s \in Waiting(kind) THEN "attached" ELSE stage[s]]
    /\ UNCHANGED <<pushed, finished, unread, readOwed, responseVars>>

\* Every stream of the kind that waits is accepted, and read at once.
AcceptAndDiscard(kind) ==
    /\ kind \in acceptOwed
    /\ acceptOwed' = acceptOwed \ {kind}
    /\ stage' = StageAfterRead(Waiting(kind))
    /\ Discard(Waiting(kind))
    /\ UNCHANGED <<pushed, finished, responseVars>>

\* Mutation: one byte is read, and no loop drains the rest.
ReadsOnce(s) ==
    /\ stage[s] = "attached" /\ s \in readOwed
    /\ unread' = [unread EXCEPT ![s] = IF @ > 0 THEN @ - 1 ELSE 0]
    /\ readOwed' = readOwed \ {s}
    /\ UNCHANGED <<stage, pushed, finished, acceptOwed, responseVars>>

OnCanRead(s) ==
    /\ stage[s] = "attached" /\ s \in readOwed
    /\ stage' = StageAfterRead({s})
    /\ Discard({s})
    /\ UNCHANGED <<pushed, finished, acceptOwed, responseVars>>

\* CompleteBufferVisitor collects the response.
ResponseOnCanRead ==
    /\ received < answered
    /\ received' = answered
    /\ UNCHANGED <<streamVars, answered>>

-----------------------------------------------------------------------------
(* The server and the network. *)

\* Bytes that take up the window.
Held == (answered - received) + MapThenSumSet(LAMBDA s : unread[s], Incoming)

\* The new stream waits to be accepted, and the visitor is told.
ServerOpens(kind) ==
    \E s \in StreamsOf(kind) :
        /\ stage[s] = "none"
        /\ stage' = [stage EXCEPT ![s] = "waiting"]
        /\ acceptOwed' = acceptOwed \union {kind}
        /\ UNCHANGED <<pushed, finished, unread, readOwed, responseVars>>

\* What arrives on an attached stream is announced to its visitor.
Announce(s) == readOwed' = IF stage[s] = "attached" THEN readOwed \union {s} ELSE readOwed

ServerPushes(s) ==
    /\ stage[s] \in {"waiting", "attached"} /\ s \notin finished
    /\ pushed[s] < MaxPush /\ Held < Window
    /\ pushed' = [pushed EXCEPT ![s] = @ + 1]
    /\ unread' = [unread EXCEPT ![s] = @ + 1]
    /\ Announce(s)
    /\ UNCHANGED <<stage, finished, acceptOwed, responseVars>>

ServerFinishes(s) ==
    /\ stage[s] \in {"waiting", "attached"} /\ s \notin finished
    /\ finished' = finished \union {s}
    /\ Announce(s)
    /\ UNCHANGED <<stage, pushed, unread, acceptOwed, responseVars>>

\* A reset gives back the place of what was not read.
ServerResets(s) ==
    /\ stage[s] \in {"waiting", "attached"}
    /\ stage' = [stage EXCEPT ![s] = "over"]
    /\ unread' = [unread EXCEPT ![s] = 0]
    /\ readOwed' = readOwed \ {s}
    /\ UNCHANGED <<pushed, finished, acceptOwed, responseVars>>

ServerAnswers ==
    /\ answered < ResponseLength /\ Held < Window
    /\ answered' = answered + 1
    /\ UNCHANGED <<streamVars, received>>

-----------------------------------------------------------------------------

Next ==
    \/ \E kind \in Kinds : AcceptAndDiscard(kind) \/ ServerOpens(kind)
    \/ \E s \in Incoming :
          OnCanRead(s) \/ ServerPushes(s) \/ ServerFinishes(s) \/ ServerResets(s)
    \/ ResponseOnCanRead \/ ServerAnswers

Spec == Init /\ [][Next]_vars

\* The client's event loop makes the calls that are due, and the server goes
\* on with its answer whenever the window lets it.
Fairness ==
    /\ \A kind \in Kinds : WF_vars(AcceptAndDiscard(kind))
    /\ \A s \in Incoming : WF_vars(OnCanRead(s))
    /\ WF_vars(ResponseOnCanRead)
    /\ WF_vars(ServerAnswers)

FairSpec == Spec /\ Fairness

-----------------------------------------------------------------------------
(* Properties. *)

\* A byte that holds a place in the window has a callback to come that reads
\* it: the stream's own, or that of the accept loop while the stream waits.
\* Bytes that came before the visitor have none of their own, so accepting
\* has to read (133-134), and reading has to go on to the end (70-78).
NoByteForgotten ==
    \A s \in Incoming :
        unread[s] > 0 =>
            \/ stage[s] = "attached" /\ s \in readOwed
            \/ stage[s] = "waiting" /\ \E kind \in acceptOwed : s \in StreamsOf(kind)

\* Whatever else the server sends, the whole response of the echo is read in
\* the end: the discarded streams cannot starve it.
ResponseReceived == <>(received = ResponseLength)

=============================================================================
