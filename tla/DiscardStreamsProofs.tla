----------------------- MODULE DiscardStreamsProofs -----------------------
(***************************************************************************)
(* Proofs about DiscardStreams, for any streams, window and pushes.        *)
(***************************************************************************)
EXTENDS DiscardStreams, TLAPS

\* A stream that waits has the callback of the accept loop to come.
WaitingAnnounced ==
    \A s \in Incoming :
        stage[s] = "waiting" => \E kind \in acceptOwed : s \in StreamsOf(kind)

\* What is unread was written.
UnreadPushed == \A s \in Incoming : unread[s] <= pushed[s]

DiscardInvariant == TypeOK /\ UnreadPushed /\ WaitingAnnounced /\ NoByteForgotten

-----------------------------------------------------------------------------

LEMMA InitEstablishes == Init => DiscardInvariant
<1> SUFFICES ASSUME Init PROVE DiscardInvariant
    OBVIOUS
<1>1. TypeOK
    BY DiscardAssumption DEF Init, TypeOK
<1>2. UnreadPushed /\ WaitingAnnounced /\ NoByteForgotten
    BY DEF Init, UnreadPushed, WaitingAnnounced, NoByteForgotten
<1>3. QED BY <1>1, <1>2 DEF DiscardInvariant

\* Accepting and reading: what was read is empty, the rest keeps its callback.
LEMMA AcceptPreserves ==
    ASSUME DiscardInvariant, NEW kind \in Kinds, AcceptAndDiscard(kind)
    PROVE  DiscardInvariant'
<1> DEFINE read == Waiting(kind)
<1> USE DEF DiscardInvariant
<1>1. /\ read \subseteq Incoming
      /\ \A s \in StreamsOf(kind) : stage[s] = "waiting" => s \in read
    BY DEF Waiting, StreamsOf, Incoming
<1>2. /\ acceptOwed' = acceptOwed \ {kind} /\ readOwed' = readOwed \ read
      /\ stage' = [s \in Incoming |-> IF s \notin read THEN stage[s]
                                      ELSE IF s \in finished THEN "over" ELSE "attached"]
      /\ unread' = [s \in Incoming |-> IF s \in read THEN 0 ELSE unread[s]]
      /\ UNCHANGED <<pushed, finished, answered, received>>
    BY DEF AcceptAndDiscard, StageAfterRead, Discard, responseVars
<1> HIDE DEF read
<1>3. TypeOK' /\ UnreadPushed'
    BY <1>1, <1>2, DiscardAssumption DEF TypeOK, UnreadPushed
<1>4. ASSUME NEW s \in Incoming, stage'[s] = "waiting"
      PROVE  \E k \in acceptOwed' : s \in StreamsOf(k)
    <2>1. stage[s] = "waiting" /\ s \notin read
        BY <1>2, <1>4
    <2>2. PICK k \in acceptOwed : s \in StreamsOf(k)
        BY <2>1 DEF WaitingAnnounced
    <2>3. k # kind
        BY <1>1, <2>1, <2>2
    <2>4. QED BY <1>2, <2>2, <2>3
<1>5. WaitingAnnounced'
    BY <1>4 DEF WaitingAnnounced
<1>6. ASSUME NEW s \in Incoming, unread'[s] > 0
      PROVE  stage'[s] = "waiting" \/ (stage'[s] = "attached" /\ s \in readOwed')
    <2>1. s \notin read /\ unread[s] > 0 /\ stage'[s] = stage[s]
        BY <1>2, <1>6
    <2>2. stage[s] = "waiting" \/ (stage[s] = "attached" /\ s \in readOwed)
        BY <2>1 DEF NoByteForgotten
    <2>3. QED BY <1>2, <2>1, <2>2
<1>7. NoByteForgotten'
    BY <1>4, <1>6 DEF NoByteForgotten
<1>8. QED BY <1>3, <1>5, <1>7

\* A callback of one stream, or a step of the server on it.
LEMMA StreamPreserves ==
    ASSUME DiscardInvariant, NEW t \in Incoming,
           OnCanRead(t) \/ ServerPushes(t) \/ ServerFinishes(t) \/ ServerResets(t)
    PROVE  DiscardInvariant'
<1> USE DEF DiscardInvariant
<1>1. CASE OnCanRead(t)
    <2>1. TypeOK' /\ UnreadPushed'
        BY <1>1, DiscardAssumption DEF OnCanRead, StageAfterRead, Discard, responseVars, TypeOK, UnreadPushed
    <2>2. WaitingAnnounced'
        BY <1>1 DEF OnCanRead, StageAfterRead, WaitingAnnounced
    <2>3. NoByteForgotten'
        BY <1>1 DEF OnCanRead, StageAfterRead, Discard, NoByteForgotten
    <2>4. QED BY <2>1, <2>2, <2>3
<1>2. CASE ServerPushes(t)
    <2>1. TypeOK' /\ UnreadPushed'
        BY <1>2, DiscardAssumption DEF ServerPushes, Announce, responseVars, TypeOK, UnreadPushed
    <2>2. WaitingAnnounced'
        BY <1>2 DEF ServerPushes, WaitingAnnounced
    <2>3. NoByteForgotten'
        BY <1>2 DEF ServerPushes, Announce, TypeOK, WaitingAnnounced, NoByteForgotten
    <2>4. QED BY <2>1, <2>2, <2>3
<1>3. CASE ServerFinishes(t)
    <2>1. TypeOK' /\ UnreadPushed'
        BY <1>3 DEF ServerFinishes, Announce, responseVars, TypeOK, UnreadPushed
    <2>2. WaitingAnnounced' /\ NoByteForgotten'
        BY <1>3 DEF ServerFinishes, Announce, WaitingAnnounced, NoByteForgotten
    <2>3. QED BY <2>1, <2>2
<1>4. CASE ServerResets(t)
    <2>1. TypeOK' /\ UnreadPushed'
        BY <1>4, DiscardAssumption DEF ServerResets, responseVars, TypeOK, UnreadPushed
    <2>2. WaitingAnnounced' /\ NoByteForgotten'
        BY <1>4 DEF ServerResets, TypeOK, WaitingAnnounced, NoByteForgotten
    <2>3. QED BY <2>1, <2>2
<1>5. QED BY <1>1, <1>2, <1>3, <1>4

LEMMA StepPreserves == DiscardInvariant /\ [Next]_vars => DiscardInvariant'
<1> SUFFICES ASSUME DiscardInvariant, [Next]_vars PROVE DiscardInvariant'
    OBVIOUS
<1> USE DEF DiscardInvariant
<1>1. ASSUME NEW kind \in Kinds, ServerOpens(kind) PROVE DiscardInvariant'
    <2>1. PICK t \in StreamsOf(kind) :
              /\ stage[t] = "none"
              /\ stage' = [stage EXCEPT ![t] = "waiting"]
              /\ acceptOwed' = acceptOwed \union {kind}
              /\ UNCHANGED <<pushed, finished, unread, readOwed, responseVars>>
        BY <1>1 DEF ServerOpens
    <2>2. t \in Incoming
        BY DEF StreamsOf, Incoming
    <2>3. TypeOK' /\ UnreadPushed'
        BY <2>1, <2>2 DEF TypeOK, UnreadPushed, responseVars
    <2>4. WaitingAnnounced'
        BY <2>1, <2>2 DEF TypeOK, WaitingAnnounced
    <2>5. NoByteForgotten'
        BY <2>1, <2>2 DEF TypeOK, NoByteForgotten
    <2>6. QED BY <2>3, <2>4, <2>5
<1>2. CASE ResponseOnCanRead \/ ServerAnswers
    BY <1>2, DiscardAssumption
    DEF ResponseOnCanRead, ServerAnswers, streamVars, TypeOK, UnreadPushed, WaitingAnnounced, NoByteForgotten
<1>3. CASE UNCHANGED vars
    BY <1>3 DEF vars, streamVars, responseVars, TypeOK, UnreadPushed, WaitingAnnounced, NoByteForgotten
<1>4. QED BY <1>1, <1>2, <1>3, AcceptPreserves, StreamPreserves DEF Next

-----------------------------------------------------------------------------

\* Whatever the server opens, writes, ends or resets, every byte that is
\* unread has a callback to come (test_client.cc 64-86, 125-136).
THEOREM BytesAreRead == Spec => []NoByteForgotten
<1>1. DiscardInvariant => NoByteForgotten
    BY DEF DiscardInvariant
<1>2. QED BY InitEstablishes, StepPreserves, <1>1, PTL DEF Spec

\* Every variable of DiscardStreams keeps its type.
THEOREM TypeCorrect == Spec => []TypeOK
<1>1. DiscardInvariant => TypeOK
    BY DEF DiscardInvariant
<1>2. QED BY InitEstablishes, StepPreserves, <1>1, PTL DEF Spec

=============================================================================
