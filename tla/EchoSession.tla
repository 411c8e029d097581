----------------------------- MODULE EchoSession -----------------------------
(***************************************************************************)
(* WebTransportEchoVisitor (samples/web_transport_echo_visitor.cc,         *)
(* 104-182) on one session: the unidirectional streams that come in, the   *)
(* queue of payloads that wait for an outgoing stream, and the one         *)
(* bidirectional stream the server opens itself.  EchoStream models what   *)
(* happens on a bidirectional stream.                                      *)
(*                                                                         *)
(* External: the session, which grants outgoing streams (MAX_STREAMS) and  *)
(* returns no stream once it is going away, and CompleteBufferVisitor,     *)
(* which collects an incoming stream up to its FIN and then calls back, or *)
(* writes its data and a FIN to an outgoing one.                           *)
(*                                                                         *)
(* A unidirectional stream stands for its payload: what is echoed for      *)
(* stream u is the payload that arrived on u.  Datagrams are echoed by one *)
(* stateless call (142-150) and are not in the state.                      *)
(***************************************************************************)
EXTENDS Naturals, Sequences, Functions, FiniteSets

CONSTANTS
    Uni,                \* the unidirectional streams the client may open
    MaxCredit,          \* how many streams of a kind the client ever allows
    ServerInitiated     \* open_server_initiated_echo_stream

ASSUME EchoSessionAssumption ==
    /\ MaxCredit \in Nat
    /\ ServerInitiated \in BOOLEAN

VARIABLES
    \* The client and the transport.
    arrived,            \* per stream: "none", "open" or "fin"
    waiting,            \* streams opened by the client and not accepted
    acceptOwed,         \* an OnIncomingUnidirectionalStreamAvailable is due
    readOwed,           \* accepted streams with an OnCanRead due
    uniCredit,          \* outgoing unidirectional streams allowed now
    uniGranted,         \* ... and altogether
    bidiCredit,         \* outgoing bidirectional streams allowed now
    bidiGranted,        \* ... and altogether
    ready,              \* has OnSessionReady been called?
    closing,            \* is the session going away?
    \* WebTransportEchoVisitor.
    echo_stream_opened_,
    streams_to_echo_back_,
    \* History.
    completed,          \* streams in the order their payloads were complete
    echoed,             \* payloads in the order outgoing streams took them
    bidiOpened          \* how many bidirectional streams the server opened

clientVars == <<arrived, waiting, acceptOwed, readOwed>>
uniVars == <<uniCredit, uniGranted, streams_to_echo_back_, completed, echoed>>
bidiVars == <<bidiCredit, bidiGranted, echo_stream_opened_, bidiOpened>>
vars == <<clientVars, uniVars, bidiVars, ready, closing>>

TypeOK ==
    /\ arrived \in [Uni -> {"none", "open", "fin"}]
    /\ waiting \in Seq(Uni) /\ completed \in Seq(Uni)
    /\ echoed \in Seq(Uni) /\ streams_to_echo_back_ \in Seq(Uni)
    /\ readOwed \in SUBSET Uni
    /\ {uniCredit, uniGranted, bidiCredit, bidiGranted} \subseteq 0..MaxCredit
    /\ bidiOpened \in Nat
    /\ {acceptOwed, ready, closing, echo_stream_opened_} \subseteq BOOLEAN

\* The transport parameters allow some outgoing streams from the start.
Init ==
    /\ arrived = [u \in Uni |-> "none"]
    /\ waiting = <<>> /\ acceptOwed = FALSE /\ readOwed = {}
    /\ uniCredit \in 0..MaxCredit /\ uniGranted = uniCredit
    /\ bidiCredit \in 0..MaxCredit /\ bidiGranted = bidiCredit
    /\ ready = FALSE /\ closing = FALSE
    /\ echo_stream_opened_ = ~ServerInitiated
    /\ streams_to_echo_back_ = <<>>
    /\ completed = <<>> /\ echoed = <<>> /\ bidiOpened = 0

-----------------------------------------------------------------------------
(* TrySendingUnidirectionalStreams, with `queue' in streams_to_echo_back_   *)
(* and `credit' streams allowed.                                            *)

\* How many payloads the loop takes: it stops at an empty queue, at the
\* stream limit, and at a stream that could not be opened.
Taken(queue, credit) ==
    IF closing THEN 0
    ELSE IF Len(queue) <= credit THEN Len(queue) ELSE credit

\* Mutation: the payload is taken off the queue before the stream is opened.
PopBeforeOpen(queue, credit) ==
    LET n == IF Len(queue) <= credit THEN Len(queue) ELSE credit
    IN  /\ echoed' = IF closing THEN echoed ELSE echoed \o SubSeq(queue, 1, n)
        /\ streams_to_echo_back_' = SubSeq(queue, n + 1, Len(queue))
        /\ uniCredit' = credit - n

\* Mutation: the stream limit is not asked for.
IgnoreLimit(queue, credit) ==
    /\ echoed' = IF closing THEN echoed ELSE echoed \o queue
    /\ streams_to_echo_back_' = IF closing THEN queue ELSE <<>>
    /\ uniCredit' = IF closing THEN credit ELSE credit - Len(queue)

TrySendingUnidirectionalStreams(queue, credit) ==
    LET n == Taken(queue, credit)
    IN  /\ echoed' = echoed \o SubSeq(queue, 1, n)
        /\ streams_to_echo_back_' = SubSeq(queue, n + 1, Len(queue))
        /\ uniCredit' = credit - n

\* The callback of the CompleteBufferVisitors of `streams', in this order:
\* each payload is queued and the queue is tried.  Nothing runs in between,
\* so trying once behind the last one opens the same streams in the same
\* order.
Complete(streams) ==
    /\ completed' = completed \o streams
    /\ TrySendingUnidirectionalStreams(streams_to_echo_back_ \o streams, uniCredit)

-----------------------------------------------------------------------------
(* The bidirectional stream of the server. *)

\* Mutation: opening the stream is not remembered.
ForgetsOpening(credit) ==
    \/ /\ ~echo_stream_opened_ /\ ~closing /\ credit > 0
       /\ bidiOpened' = bidiOpened + 1
       /\ bidiCredit' = credit - 1
       /\ UNCHANGED echo_stream_opened_
    \/ /\ echo_stream_opened_ \/ closing \/ credit = 0
       /\ bidiCredit' = credit
       /\ UNCHANGED <<echo_stream_opened_, bidiOpened>>

\* The body of OnCanCreateNewOutgoingBidirectionalStream, with `credit'
\* streams allowed: a stream that could not be opened is tried again later.
OpenEchoStream(credit) ==
    \/ /\ ~echo_stream_opened_ /\ ~closing /\ credit > 0
       /\ bidiOpened' = bidiOpened + 1
       /\ bidiCredit' = credit - 1
       /\ echo_stream_opened_' = TRUE
    \/ /\ echo_stream_opened_ \/ closing \/ credit = 0
       /\ bidiCredit' = credit
       /\ UNCHANGED <<echo_stream_opened_, bidiOpened>>

-----------------------------------------------------------------------------
(* The callbacks. *)

OnSessionReady ==
    /\ ~ready /\ ~closing
    /\ ready' = TRUE
    /\ OpenEchoStream(bidiCredit)
    /\ UNCHANGED <<clientVars, uniVars, bidiGranted, closing>>

OnCanCreateNewOutgoingBidirectionalStream ==
    /\ ready
    /\ bidiGranted < MaxCredit
    /\ bidiGranted' = bidiGranted + 1
    /\ OpenEchoStream(bidiCredit + 1)
    /\ UNCHANGED <<clientVars, uniVars, ready, closing>>

\* Mutation: the new credit is left unused until the next stream comes in.
GrantWithoutTry ==
    /\ ready
    /\ uniGranted < MaxCredit
    /\ uniGranted' = uniGranted + 1
    /\ uniCredit' = uniCredit + 1
    /\ UNCHANGED <<clientVars, bidiVars, streams_to_echo_back_, completed,
                   echoed, ready, closing>>

OnCanCreateNewOutgoingUnidirectionalStream ==
    /\ ready
    /\ uniGranted < MaxCredit
    /\ uniGranted' = uniGranted + 1
    /\ TrySendingUnidirectionalStreams(streams_to_echo_back_, uniCredit + 1)
    /\ UNCHANGED <<clientVars, bidiVars, completed, ready, closing>>

\* Mutation: accepted streams are read at their next callback only.
AcceptWithoutRead ==
    /\ ready /\ acceptOwed
    /\ waiting' = <<>>
    /\ acceptOwed' = FALSE
    /\ UNCHANGED <<arrived, readOwed, uniVars, bidiVars, ready, closing>>

\* The places in the queue of waiting streams that have ended.
Ended == {i \in DOMAIN waiting : arrived[waiting[i]] = "fin"}

\* Every waiting stream is accepted and read; the ones that have ended are
\* complete at once, in their order.
OnIncomingUnidirectionalStreamAvailable ==
    /\ ready /\ acceptOwed
    /\ waiting' = <<>>
    /\ acceptOwed' = FALSE
    /\ \E at \in [1..Cardinality(Ended) -> Ended] :
          /\ \A i, j \in DOMAIN at : i < j => at[i] < at[j]
          /\ Complete([i \in DOMAIN at |-> waiting[at[i]]])
    /\ UNCHANGED <<arrived, readOwed, uniGranted, bidiVars, ready, closing>>

\* CompleteBufferVisitor::OnCanRead on an accepted stream.
OnCanRead ==
    /\ \E u \in readOwed :
          /\ readOwed' = readOwed \ {u}
          /\ Complete(IF arrived[u] = "fin" THEN <<u>> ELSE <<>>)
    /\ UNCHANGED <<arrived, waiting, acceptOwed, uniGranted, bidiVars, ready,
                   closing>>

-----------------------------------------------------------------------------
(* The client and the network. *)

\* The first bytes of a stream arrive, perhaps before the session is ready.
ClientOpens ==
    /\ ~closing
    /\ \E u \in Uni :
          /\ arrived[u] = "none"
          /\ arrived' = [arrived EXCEPT ![u] = "open"]
          /\ waiting' = Append(waiting, u)
    /\ acceptOwed' = TRUE
    /\ UNCHANGED <<readOwed, uniVars, bidiVars, ready, closing>>

\* Its last bytes arrive; a stream nobody accepted yet has no one to tell.
ClientFinishes ==
    /\ ~closing
    /\ \E u \in Uni :
          /\ arrived[u] = "open"
          /\ arrived' = [arrived EXCEPT ![u] = "fin"]
          /\ readOwed' = IF u \in Range(waiting) THEN readOwed
                                                  ELSE readOwed \union {u}
    /\ UNCHANGED <<waiting, acceptOwed, uniVars, bidiVars, ready, closing>>

SessionGoesAway ==
    /\ ~closing
    /\ closing' = TRUE
    /\ UNCHANGED <<clientVars, uniVars, bidiVars, ready>>

-----------------------------------------------------------------------------

Next ==
    \/ OnSessionReady
    \/ OnCanCreateNewOutgoingBidirectionalStream
    \/ OnCanCreateNewOutgoingUnidirectionalStream
    \/ OnIncomingUnidirectionalStreamAvailable
    \/ OnCanRead
    \/ ClientOpens \/ ClientFinishes \/ SessionGoesAway

Spec == Init /\ [][Next]_vars

\* The event loop makes the calls that are due, and the client raises its
\* stream limits up to MaxCredit.
Fairness ==
    /\ WF_vars(OnSessionReady)
    /\ WF_vars(OnIncomingUnidirectionalStreamAvailable)
    /\ WF_vars(OnCanRead)
    /\ WF_vars(OnCanCreateNewOutgoingUnidirectionalStream)

FairSpec == Spec /\ Fairness

-----------------------------------------------------------------------------
(* Properties. *)

\* Payloads leave in the order in which they became complete, each once, and
\* none is dropped when an outgoing stream cannot be opened (166-182).
EchoedInOrder ==
    /\ echoed \o streams_to_echo_back_ = completed
    /\ IsInjective(completed)

\* No payload waits while the client would take it, and the server's own
\* stream is open as soon as it may be: each of the calls that change the
\* queue or the limits ends by using them (109-113, 152-164).
NoIdleCredit ==
    ~closing =>
        /\ streams_to_echo_back_ = <<>> \/ uniCredit = 0
        /\ ready => echo_stream_opened_ \/ bidiCredit = 0

\* The server opens its own stream at most once, however often and in
\* whatever order OnSessionReady and the limit callbacks come, and never if
\* it was told not to (104-113, 152-160).
EchoStreamOpenedOnce ==
    /\ bidiOpened <= 1
    /\ bidiOpened = 1 <=> (ServerInitiated /\ echo_stream_opened_)

\* Every unidirectional stream the client finishes is echoed, wherever it
\* was when its end arrived, as long as the client allows as many streams
\* as it opens and the session stays up (126-140, 162-182).
EveryStreamEchoed ==
    \A u \in Uni : arrived[u] = "fin" ~> u \in Range(echoed) \/ closing

=============================================================================
