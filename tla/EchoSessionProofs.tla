-------------------------- MODULE EchoSessionProofs --------------------------
(***************************************************************************)
(* Proofs about EchoSession, for any streams and stream limits.            *)
(*                                                                         *)
(* A unidirectional stream is echoed once because it is in one place at a  *)
(* time: in the queue of streams to accept, among those with a callback    *)
(* due, or among the completed ones.  What is completed has left or waits, *)
(* in this order, since each call ends by sending what the limit allows.   *)
(***************************************************************************)
EXTENDS EchoSession, SequenceTheorems, FiniteSetTheorems, TLAPS

\* A stream is in one place at a time, and none is completed before its end.
OnePlace ==
    /\ IsInjective(waiting)
    /\ \A u \in Range(waiting) :
          arrived[u] # "none" /\ u \notin readOwed /\ u \notin Range(completed)
    /\ \A u \in readOwed : arrived[u] = "fin" /\ u \notin Range(completed)
    /\ \A u \in Range(completed) : arrived[u] = "fin"

\* A stream that has ended is completed, or is to be read, or waits for the
\* accept loop, which is due.
NothingLost ==
    /\ waiting # <<>> => acceptOwed
    /\ \A u \in Uni : arrived[u] = "fin" =>
          u \in Range(waiting) \union readOwed \union Range(completed)

\* The incoming streams.
ClientOK ==
    /\ arrived \in [Uni -> {"none", "open", "fin"}]
    /\ waiting \in Seq(Uni) /\ readOwed \in SUBSET Uni /\ acceptOwed \in BOOLEAN
    /\ OnePlace /\ NothingLost

\* The payloads and the limit of outgoing unidirectional streams, of which no
\* more is left than was granted.
QueueOK ==
    /\ completed \in Seq(Uni) /\ echoed \in Seq(Uni)
    /\ streams_to_echo_back_ \in Seq(Uni)
    /\ uniCredit \in 0..MaxCredit /\ uniGranted \in 0..MaxCredit
    /\ uniCredit <= uniGranted
    /\ EchoedInOrder
    /\ ~closing => streams_to_echo_back_ = <<>> \/ uniCredit = 0

\* The server's own stream: where none is asked for it counts as opened.
BidiOK ==
    /\ {ready, closing, echo_stream_opened_} \subseteq BOOLEAN
    /\ bidiOpened \in Nat
    /\ bidiCredit \in 0..MaxCredit /\ bidiGranted \in 0..MaxCredit
    /\ bidiCredit <= bidiGranted
    /\ ~ServerInitiated => echo_stream_opened_
    /\ EchoStreamOpenedOnce
    /\ ~closing /\ ready => echo_stream_opened_ \/ bidiCredit = 0

SessionInvariant == ClientOK /\ QueueOK /\ BidiOK

-----------------------------------------------------------------------------
(* Sequences. *)

LEMMA InRange ==
    ASSUME NEW s, NEW x
    PROVE  x \in Range(s) <=> \E i \in DOMAIN s : s[i] = x
    BY DEF Range

\* Two sequences without repetition and without a common element make one
\* without repetition.
LEMMA InjectiveConcat ==
    ASSUME NEW S, NEW s \in Seq(S), NEW t \in Seq(S),
           IsInjective(s), IsInjective(t), Range(s) \intersect Range(t) = {}
    PROVE  IsInjective(s \o t)
<1>1. /\ s \o t \in Seq(S) /\ Len(s \o t) = Len(s) + Len(t)
      /\ \A i \in 1 .. Len(s) + Len(t) :
            (s \o t)[i] = IF i <= Len(s) THEN s[i] ELSE t[i - Len(s)]
    BY ConcatProperties
<1>2. /\ DOMAIN (s \o t) = 1 .. Len(s) + Len(t)
      /\ DOMAIN s = 1 .. Len(s) /\ DOMAIN t = 1 .. Len(t)
      /\ Len(s) \in Nat /\ Len(t) \in Nat
    BY <1>1, LenProperties
<1>3. \A i \in 1 .. Len(s), j \in 1 .. Len(t) : s[i] # t[j]
    BY <1>2 DEF Range
<1>4. SUFFICES ASSUME NEW i \in 1 .. Len(s) + Len(t), NEW j \in 1 .. Len(s) + Len(t),
                      (s \o t)[i] = (s \o t)[j]
               PROVE  i = j
    BY <1>2 DEF IsInjective
<1>5. CASE i <= Len(s) /\ j <= Len(s)
    <2>1. i \in DOMAIN s /\ j \in DOMAIN s /\ s[i] = s[j]
        BY <1>1, <1>2, <1>4, <1>5
    <2>2. QED BY <2>1 DEF IsInjective
<1>6. CASE i > Len(s) /\ j > Len(s)
    <2>1. i - Len(s) \in DOMAIN t /\ j - Len(s) \in DOMAIN t
        BY <1>2, <1>6
    <2>2. t[i - Len(s)] = t[j - Len(s)]
        BY <1>1, <1>2, <1>4, <1>6
    <2>3. i - Len(s) = j - Len(s)
        BY <2>1, <2>2 DEF IsInjective
    <2>4. QED BY <1>2, <2>3
<1>7. CASE i <= Len(s) /\ j > Len(s)
    <2>1. i \in 1 .. Len(s) /\ j - Len(s) \in 1 .. Len(t)
        BY <1>2, <1>7
    <2>2. s[i] = t[j - Len(s)]
        BY <1>1, <1>2, <1>4, <1>7
    <2>3. QED BY <1>3, <2>1, <2>2
<1>8. CASE i > Len(s) /\ j <= Len(s)
    <2>1. j \in 1 .. Len(s) /\ i - Len(s) \in 1 .. Len(t)
        BY <1>2, <1>8
    <2>2. s[j] = t[i - Len(s)]
        BY <1>1, <1>2, <1>4, <1>8
    <2>3. QED BY <1>3, <2>1, <2>2
<1>9. QED BY <1>2, <1>5, <1>6, <1>7, <1>8

LEMMA RangeOfAppend ==
    ASSUME NEW S, NEW s \in Seq(S), NEW e \in S
    PROVE  Range(Append(s, e)) = Range(s) \union {e}
<1>1. /\ Len(s) \in Nat /\ DOMAIN s = 1..Len(s)
      /\ DOMAIN Append(s, e) = 1..Len(s) + 1
      /\ \A i \in 1..Len(s) : Append(s, e)[i] = s[i]
      /\ Append(s, e)[Len(s) + 1] = e
    BY AppendProperties, LenProperties
<1>2. ASSUME NEW x \in Range(Append(s, e)) PROVE x \in Range(s) \union {e}
    <2>1. PICK i \in DOMAIN Append(s, e) : Append(s, e)[i] = x
        BY <1>2, InRange, Zenon
    <2>2. CASE i = Len(s) + 1
        BY <1>1, <2>1, <2>2
    <2>3. CASE i \in 1..Len(s)
        BY <1>1, <2>1, <2>3, InRange
    <2>4. QED BY <1>1, <2>1, <2>2, <2>3
<1>3. ASSUME NEW x \in Range(s) PROVE x \in Range(Append(s, e))
    <2>1. PICK i \in 1..Len(s) : s[i] = x
        BY <1>1, <1>3, InRange
    <2>2. i \in 1..Len(s) + 1 /\ Append(s, e)[i] = x
        BY <1>1, <2>1
    <2>3. QED BY <1>1, <2>2, InRange
<1>4. e \in Range(Append(s, e))
    <2>1. Len(s) + 1 \in 1..Len(s) + 1
        BY <1>1
    <2>2. QED BY <1>1, <2>1, InRange
<1>5. QED BY <1>2, <1>3, <1>4

LEMMA UniAssociative ==
    \A s, t, u \in Seq(Uni) : (s \o t) \o u = s \o (t \o u)
<1>1. ASSUME NEW s \in Seq(Uni), NEW t \in Seq(Uni), NEW u \in Seq(Uni)
      PROVE  (s \o t) \o u = s \o (t \o u)
    BY ConcatAssociative
<1>2. QED BY <1>1

\* A function onto its own size that never repeats reaches every element.
LEMMA InjectionIsOnto ==
    ASSUME NEW S, IsFiniteSet(S), NEW f \in [1..Cardinality(S) -> S],
           \A i, j \in 1..Cardinality(S) : f[i] = f[j] => i = j
    PROVE  \A x \in S : \E i \in 1..Cardinality(S) : f[i] = x
<1> DEFINE n == Cardinality(S)
           T == {f[i] : i \in 1..n}
<1>1. n \in Nat
    BY FS_CardinalityType
<1>2. T \subseteq S
    OBVIOUS
<1>3. f \in Bijection(1..n, T)
    BY DEF Bijection, Injection, Surjection, IsInjective
<1>4. ExistsBijection(1..n, T)
    BY <1>3 DEF ExistsBijection
<1>5. IsFiniteSet(T) /\ Cardinality(T) = n
    BY <1>1, <1>4, FS_CountingElements, FS_NatBijection
<1>6. T = S
    BY <1>2, <1>5, FS_Subset
<1>7. QED BY <1>6

-----------------------------------------------------------------------------
(* The queue and its limit. *)

\* Trying a queue with some credit sends a prefix of it, no longer than the
\* credit, keeps the rest, and stops early only if the session is closing.
LEMMA TryingSends ==
    ASSUME echoed \in Seq(Uni), NEW queue \in Seq(Uni), NEW credit \in Nat,
           TrySendingUnidirectionalStreams(queue, credit)
    PROVE  /\ echoed' \in Seq(Uni) /\ streams_to_echo_back_' \in Seq(Uni)
           /\ uniCredit' \in 0..credit
           /\ echoed' \o streams_to_echo_back_' = echoed \o queue
           /\ ~closing => streams_to_echo_back_' = <<>> \/ uniCredit' = 0
<1> DEFINE n == Taken(queue, credit)
           sent == SubSeq(queue, 1, n)
           kept == SubSeq(queue, n + 1, Len(queue))
<1>1. /\ Len(queue) \in Nat /\ n \in 0..Len(queue) /\ n <= credit
      /\ ~closing => n = Len(queue) \/ n = credit
    BY LenProperties DEF Taken
<1>2. echoed' = echoed \o sent /\ streams_to_echo_back_' = kept /\ uniCredit' = credit - n
    BY DEF TrySendingUnidirectionalStreams
<1> HIDE DEF n
<1>3. \A i \in 1..Len(queue) : queue[i] \in Uni
    BY ElementOfSeq
<1>4. sent \in Seq(Uni)
    BY <1>1, <1>3, SubSeqProperties
<1>5. kept \in Seq(Uni)
    BY <1>1, <1>3, SubSeqProperties
<1>6. sent \o kept = queue
    <2>1. 1 \in 1..Len(queue) + 1 /\ n \in 1 - 1..Len(queue) /\ Len(queue) \in n..Len(queue)
        BY <1>1
    <2>2. sent \o kept = SubSeq(queue, 1, Len(queue))
        BY <2>1, ConcatAdjacentSubSeq, Zenon
    <2>3. QED BY <2>2, SubSeqFull
<1> HIDE DEF sent, kept
<1>7. echoed' \o streams_to_echo_back_' = echoed \o queue
    <2>1. (echoed \o sent) \o kept = echoed \o (sent \o kept)
        BY <1>4, <1>5, UniAssociative
    <2>2. QED BY <1>2, <1>6, <2>1, Zenon
<1>8. echoed' \in Seq(Uni)
    BY <1>2, <1>4, ConcatProperties
<1>9. n = Len(queue) => kept = <<>>
    BY <1>1, SubSeqEmpty DEF kept
<1>10. uniCredit' \in 0..credit /\ (~closing => kept = <<>> \/ uniCredit' = 0)
    BY <1>1, <1>2, <1>9
<1>11. QED BY <1>2, <1>5, <1>7, <1>8, <1>10, Zenon

\* Completing streams that were not completed before, each once.
LEMMA CompletePreserves ==
    ASSUME QueueOK, NEW streams \in Seq(Uni), Complete(streams),
           UNCHANGED <<uniGranted, closing>>,
           IsInjective(streams), Range(completed) \intersect Range(streams) = {}
    PROVE  /\ QueueOK'
           /\ Range(completed') = Range(completed) \union Range(streams)
<1> USE DEF QueueOK
<1>1. /\ completed' = completed \o streams
      /\ TrySendingUnidirectionalStreams(streams_to_echo_back_ \o streams, uniCredit)
    BY DEF Complete
<1>2. /\ completed' \in Seq(Uni)
      /\ Range(completed') = Range(completed) \union Range(streams)
    BY <1>1, ConcatProperties, RangeConcatenation
<1>3. IsInjective(completed')
    BY <1>1, InjectiveConcat DEF EchoedInOrder
<1>4. streams_to_echo_back_ \o streams \in Seq(Uni) /\ uniCredit \in Nat
    BY EchoSessionAssumption, ConcatProperties
<1>5. /\ echoed' \in Seq(Uni) /\ streams_to_echo_back_' \in Seq(Uni)
      /\ uniCredit' \in 0..uniCredit
      /\ echoed' \o streams_to_echo_back_' = echoed \o (streams_to_echo_back_ \o streams)
      /\ ~closing => streams_to_echo_back_' = <<>> \/ uniCredit' = 0
    BY <1>1, <1>4, TryingSends
<1>6. echoed' \o streams_to_echo_back_' = completed'
    <2>1. (echoed \o streams_to_echo_back_) \o streams = echoed \o (streams_to_echo_back_ \o streams)
        BY UniAssociative
    <2>2. QED BY <1>1, <1>5, <2>1, Zenon DEF EchoedInOrder
<1>7. uniCredit' \in 0..MaxCredit /\ uniCredit' <= uniGranted'
    BY <1>5, EchoSessionAssumption
<1>8. QED BY <1>2, <1>3, <1>5, <1>6, <1>7 DEF EchoedInOrder

\* A new stream allowed by the client is used at once if there is need.
LEMMA GrantPreserves ==
    ASSUME QueueOK, OnCanCreateNewOutgoingUnidirectionalStream
    PROVE  QueueOK'
<1> USE DEF QueueOK
<1>1. /\ uniGranted < MaxCredit /\ uniGranted' = uniGranted + 1
      /\ TrySendingUnidirectionalStreams(streams_to_echo_back_, uniCredit + 1)
      /\ completed' = completed /\ closing' = closing
    BY DEF OnCanCreateNewOutgoingUnidirectionalStream
<1>2. uniCredit + 1 \in Nat
    BY EchoSessionAssumption
<1>3. /\ echoed' \in Seq(Uni) /\ streams_to_echo_back_' \in Seq(Uni)
      /\ uniCredit' \in 0..uniCredit + 1
      /\ echoed' \o streams_to_echo_back_' = echoed \o streams_to_echo_back_
      /\ ~closing => streams_to_echo_back_' = <<>> \/ uniCredit' = 0
    BY <1>1, <1>2, TryingSends
<1>4. EchoedInOrder'
    BY <1>1, <1>3 DEF EchoedInOrder
<1>5. uniCredit' \in 0..MaxCredit /\ uniGranted' \in 0..MaxCredit /\ uniCredit' <= uniGranted'
    BY <1>1, <1>3, EchoSessionAssumption
<1>6. QED BY <1>1, <1>3, <1>4, <1>5

-----------------------------------------------------------------------------
(* The incoming streams. *)

\* Accepting what waits completes the streams that have ended, each once and
\* none left behind.
LEMMA AcceptPreserves ==
    ASSUME ClientOK, QueueOK, OnIncomingUnidirectionalStreamAvailable
    PROVE  ClientOK' /\ QueueOK'
<1> USE DEF ClientOK
<1>1. PICK at \in [1..Cardinality(Ended) -> Ended] :
          /\ \A i, j \in DOMAIN at : i < j => at[i] < at[j]
          /\ Complete([i \in DOMAIN at |-> waiting[at[i]]])
    BY DEF OnIncomingUnidirectionalStreamAvailable
<1> DEFINE n == Cardinality(Ended)
           streams == [i \in 1..n |-> waiting[at[i]]]
<1>2. DOMAIN waiting = 1..Len(waiting) /\ Len(waiting) \in Nat
      /\ \A k \in 1..Len(waiting) : waiting[k] \in Uni
    BY LenProperties, ElementOfSeq
<1>3. IsFiniteSet(Ended) /\ Ended \in SUBSET (1..Len(waiting))
    <2>1. Ended \in SUBSET (1..Len(waiting))
        BY <1>2 DEF Ended
    <2>2. IsFiniteSet(1..Len(waiting))
        BY <1>2, FS_Interval
    <2>3. QED BY <2>1, <2>2, FS_Subset
<1>4. n \in Nat
    BY <1>3, FS_CardinalityType
<1>5. \A i \in 1..n : at[i] \in Ended /\ at[i] \in 1..Len(waiting)
                      /\ waiting[at[i]] \in Uni /\ arrived[waiting[at[i]]] = "fin"
    BY <1>2, <1>3 DEF Ended
<1>6. \A i, j \in 1..n : at[i] = at[j] => i = j
    <2> SUFFICES ASSUME NEW i \in 1..n, NEW j \in 1..n, at[i] = at[j], i # j
                 PROVE  FALSE
        OBVIOUS
    <2>1. at[i] \in Nat /\ (at[i] < at[j] \/ at[j] < at[i])
        BY <1>1, <1>4, <1>5
    <2>2. QED BY <1>5, <2>1
<1>7. streams \in Seq(Uni) /\ DOMAIN streams = 1..n
    BY <1>4, <1>5, IsASeq
<1>8. IsInjective(streams)
    <2> SUFFICES ASSUME NEW i \in 1..n, NEW j \in 1..n, waiting[at[i]] = waiting[at[j]]
                 PROVE  i = j
        BY DEF IsInjective
    <2>1. at[i] = at[j]
        BY <1>2, <1>5 DEF OnePlace, IsInjective
    <2>2. QED BY <1>6, <2>1
<1>9. \A u : u \in Range(streams) <=> u \in Range(waiting) /\ arrived[u] = "fin"
    <2>1. ASSUME NEW u \in Range(streams)
          PROVE  u \in Range(waiting) /\ arrived[u] = "fin"
        <3>1. PICK i \in 1..n : u = waiting[at[i]]
            BY <1>7 DEF Range
        <3>2. QED BY <1>2, <1>5, <3>1 DEF Range
    <2>2. ASSUME NEW u \in Range(waiting), arrived[u] = "fin"
          PROVE  u \in Range(streams)
        <3>1. PICK k \in DOMAIN waiting : waiting[k] = u
            BY DEF Range
        <3>2. k \in Ended
            BY <2>2, <3>1 DEF Ended
        <3>3. PICK i \in 1..n : at[i] = k
            BY <1>3, <1>6, <3>2, InjectionIsOnto
        <3>4. streams[i] = u
            BY <3>1, <3>3
        <3>5. QED BY <1>7, <3>4 DEF Range
    <2>3. QED BY <2>1, <2>2
<1>10. Range(completed) \intersect Range(streams) = {}
    BY <1>9 DEF OnePlace
<1>11. waiting' = <<>> /\ UNCHANGED <<arrived, readOwed, uniGranted, closing>>
       /\ acceptOwed' = FALSE
    BY DEF OnIncomingUnidirectionalStreamAvailable
<1>12. Complete(streams)
    BY <1>1
<1> HIDE DEF streams
<1>13. QueueOK' /\ Range(completed') = Range(completed) \union Range(streams)
    BY <1>7, <1>8, <1>10, <1>11, <1>12, CompletePreserves
<1>14. /\ waiting' \in Seq(Uni) /\ Range(waiting') = {} /\ IsInjective(waiting')
    BY <1>11 DEF Range, IsInjective
<1>15. OnePlace'
    BY <1>9, <1>11, <1>13, <1>14 DEF OnePlace
<1>16. NothingLost'
    BY <1>9, <1>11, <1>13, <1>14 DEF NothingLost
<1>17. QED BY <1>11, <1>13, <1>14, <1>15, <1>16

\* Reading an accepted stream completes it if it has ended.
LEMMA ReadPreserves ==
    ASSUME ClientOK, QueueOK, OnCanRead
    PROVE  ClientOK' /\ QueueOK'
<1> USE DEF ClientOK
<1>1. PICK u \in readOwed :
          /\ readOwed' = readOwed \ {u}
          /\ Complete(IF arrived[u] = "fin" THEN <<u>> ELSE <<>>)
    BY DEF OnCanRead
<1>2. UNCHANGED <<arrived, waiting, acceptOwed, uniGranted, closing>>
    BY DEF OnCanRead
<1>3. arrived[u] = "fin" /\ u \in Uni /\ u \notin Range(completed)
    BY DEF OnePlace
<1>4. <<u>> \in Seq(Uni) /\ IsInjective(<<u>>) /\ Range(<<u>>) = {u}
    BY <1>3 DEF IsInjective, Range
<1>5. Complete(<<u>>)
    BY <1>1, <1>3
<1>6. QueueOK' /\ Range(completed') = Range(completed) \union {u}
    BY <1>2, <1>3, <1>4, <1>5, CompletePreserves
<1>7. OnePlace'
    BY <1>1, <1>2, <1>3, <1>6 DEF OnePlace
<1>8. NothingLost'
    BY <1>1, <1>2, <1>3, <1>6 DEF NothingLost
<1>9. QED BY <1>1, <1>2, <1>6, <1>7, <1>8

\* A stream begins, at the end of the queue of those to accept.
LEMMA OpensPreserves ==
    ASSUME ClientOK, QueueOK, ClientOpens
    PROVE  ClientOK' /\ QueueOK'
<1> USE DEF ClientOK
<1>1. PICK u \in Uni :
          /\ arrived[u] = "none"
          /\ arrived' = [arrived EXCEPT ![u] = "open"]
          /\ waiting' = Append(waiting, u)
    BY DEF ClientOpens
<1>2. /\ acceptOwed' = TRUE
      /\ UNCHANGED <<readOwed, uniVars, closing>>
    BY DEF ClientOpens
<1>3. u \notin Range(waiting) /\ u \notin readOwed /\ u \notin Range(completed)
    BY <1>1 DEF OnePlace
<1>4. <<u>> \in Seq(Uni) /\ IsInjective(<<u>>) /\ Range(<<u>>) = {u}
    BY DEF IsInjective, Range
<1>5. /\ waiting' = waiting \o <<u>> /\ waiting' \in Seq(Uni)
    BY <1>1, AppendProperties, AppendIsConcat
<1>6. Range(waiting') = Range(waiting) \union {u}
    BY <1>1, RangeOfAppend
<1>7. IsInjective(waiting')
    BY <1>3, <1>4, <1>5, InjectiveConcat DEF OnePlace
<1>8. OnePlace'
    BY <1>1, <1>2, <1>3, <1>6, <1>7 DEF OnePlace, uniVars
<1>9. NothingLost'
    BY <1>1, <1>2, <1>6 DEF NothingLost, uniVars
<1>10. QueueOK'
    BY <1>2 DEF QueueOK, EchoedInOrder, uniVars
<1>11. QED BY <1>1, <1>2, <1>5, <1>8, <1>9, <1>10

\* A stream ends: it is read now if it was accepted, and then if it was not.
LEMMA FinishesPreserves ==
    ASSUME ClientOK, QueueOK, ClientFinishes
    PROVE  ClientOK' /\ QueueOK'
<1> USE DEF ClientOK
<1>1. PICK u \in Uni :
          /\ arrived[u] = "open"
          /\ arrived' = [arrived EXCEPT ![u] = "fin"]
          /\ readOwed' = IF u \in Range(waiting) THEN readOwed
                                                  ELSE readOwed \union {u}
    BY DEF ClientFinishes
<1>2. UNCHANGED <<waiting, acceptOwed, uniVars, closing>>
    BY DEF ClientFinishes
<1>3. u \notin Range(completed)
    BY <1>1 DEF OnePlace
<1>4. OnePlace'
    BY <1>1, <1>2, <1>3 DEF OnePlace, uniVars
<1>5. NothingLost'
    BY <1>1, <1>2 DEF NothingLost, uniVars
<1>6. QueueOK'
    BY <1>2 DEF QueueOK, EchoedInOrder, uniVars
<1>7. QED BY <1>1, <1>2, <1>4, <1>5, <1>6

-----------------------------------------------------------------------------
(* The server's own stream. *)

\* OpenEchoStream, with a credit no larger than what is granted then.
LEMMA OpenPreserves ==
    ASSUME BidiOK, NEW credit \in Nat, OpenEchoStream(credit),
           credit <= bidiGranted', bidiGranted' \in 0..MaxCredit,
           ready' \in BOOLEAN, UNCHANGED closing
    PROVE  BidiOK'
<1> USE EchoSessionAssumption DEF BidiOK, EchoStreamOpenedOnce
<1>1. CASE /\ ~echo_stream_opened_ /\ ~closing /\ credit > 0
           /\ bidiOpened' = bidiOpened + 1
           /\ bidiCredit' = credit - 1
           /\ echo_stream_opened_' = TRUE
    <2>1. bidiOpened = 0 /\ ServerInitiated
        BY <1>1
    <2>2. bidiOpened' = 1
        BY <1>1, <2>1
    <2>3. QED BY <1>1, <2>1, <2>2
<1>2. CASE /\ echo_stream_opened_ \/ closing \/ credit = 0
           /\ bidiCredit' = credit
           /\ UNCHANGED <<echo_stream_opened_, bidiOpened>>
    BY <1>2
<1>3. QED BY <1>1, <1>2 DEF OpenEchoStream

-----------------------------------------------------------------------------
(* The invariant. *)

LEMMA InitEstablishes == Init => SessionInvariant
<1> SUFFICES ASSUME Init PROVE SessionInvariant
    OBVIOUS
<1> USE EchoSessionAssumption DEF Init
<1>1. /\ <<>> \in Seq(Uni) /\ <<>> \o <<>> = <<>>
      /\ IsInjective(<<>>) /\ Range(<<>>) = {}
    BY EmptySeq, ConcatEmptySeq DEF IsInjective, Range
<1>2. ClientOK
    BY <1>1 DEF ClientOK, OnePlace, NothingLost
<1>3. QueueOK
    BY <1>1 DEF QueueOK, EchoedInOrder
<1>4. BidiOK
    <2>1. echo_stream_opened_ \in BOOLEAN /\ (echo_stream_opened_ <=> ~ServerInitiated)
        BY Zenon
    <2>2. {ready, closing, echo_stream_opened_} \subseteq BOOLEAN
        BY <2>1
    <2>3. /\ bidiOpened = 0 /\ bidiCredit \in 0..MaxCredit /\ bidiGranted \in 0..MaxCredit
          /\ bidiCredit <= bidiGranted /\ ~ready
        OBVIOUS
    <2>4. EchoStreamOpenedOnce
        BY <2>1, <2>3 DEF EchoStreamOpenedOnce
    <2>5. QED BY <2>1, <2>2, <2>3, <2>4 DEF BidiOK
<1>5. QED BY <1>2, <1>3, <1>4 DEF SessionInvariant

LEMMA StepPreserves == SessionInvariant /\ [Next]_vars => SessionInvariant'
<1> SUFFICES ASSUME SessionInvariant, [Next]_vars PROVE SessionInvariant'
    OBVIOUS
<1> USE DEF SessionInvariant
<1>1. ASSUME UNCHANGED clientVars, UNCHANGED completed PROVE ClientOK'
    BY <1>1 DEF clientVars, ClientOK, OnePlace, NothingLost
<1>2. ASSUME UNCHANGED uniVars, closing' = closing \/ closing' PROVE QueueOK'
    BY <1>2 DEF uniVars, QueueOK, EchoedInOrder, BidiOK
<1>3. ASSUME UNCHANGED bidiVars, UNCHANGED ready, closing' = closing \/ closing' = TRUE
      PROVE  BidiOK'
    BY <1>3 DEF bidiVars, BidiOK, EchoStreamOpenedOnce
<1>4. CASE OnSessionReady
    <2>1. BidiOK'
        <3>1. /\ bidiCredit \in Nat /\ bidiCredit <= bidiGranted' /\ bidiGranted' \in 0..MaxCredit
              /\ ready' \in BOOLEAN /\ closing' = closing /\ OpenEchoStream(bidiCredit)
            BY <1>4, EchoSessionAssumption DEF OnSessionReady, BidiOK
        <3>2. QED BY <3>1, OpenPreserves
    <2>2. QED BY <1>1, <1>2, <1>4, <2>1 DEF OnSessionReady, uniVars
<1>5. CASE OnCanCreateNewOutgoingBidirectionalStream
    <2>1. BidiOK'
        <3>1. /\ bidiCredit + 1 \in Nat /\ bidiCredit + 1 <= bidiGranted'
              /\ bidiGranted' \in 0..MaxCredit /\ ready' \in BOOLEAN
              /\ closing' = closing /\ OpenEchoStream(bidiCredit + 1)
            BY <1>5, EchoSessionAssumption
            DEF OnCanCreateNewOutgoingBidirectionalStream, BidiOK
        <3>2. QED BY <3>1, OpenPreserves
    <2>2. QED BY <1>1, <1>2, <1>5, <2>1
          DEF OnCanCreateNewOutgoingBidirectionalStream, uniVars
<1>6. CASE OnCanCreateNewOutgoingUnidirectionalStream
    BY <1>1, <1>3, <1>6, GrantPreserves DEF OnCanCreateNewOutgoingUnidirectionalStream
<1>7. CASE OnIncomingUnidirectionalStreamAvailable
    BY <1>3, <1>7, AcceptPreserves DEF OnIncomingUnidirectionalStreamAvailable
<1>8. CASE OnCanRead
    BY <1>3, <1>8, ReadPreserves DEF OnCanRead
<1>9. CASE ClientOpens
    BY <1>3, <1>9, OpensPreserves DEF ClientOpens
<1>10. CASE ClientFinishes
    BY <1>3, <1>10, FinishesPreserves DEF ClientFinishes
<1>11. CASE SessionGoesAway
    BY <1>1, <1>2, <1>3, <1>11 DEF SessionGoesAway, uniVars
<1>12. CASE UNCHANGED vars
    BY <1>1, <1>2, <1>3, <1>12 DEF vars, uniVars
<1>13. QED BY <1>4, <1>5, <1>6, <1>7, <1>8, <1>9, <1>10, <1>11, <1>12 DEF Next

\* Every stream that came is in one place on its way to being echoed, and what
\* is queued waits for a higher limit, for any streams and limits.
THEOREM InvariantHolds == Spec => []SessionInvariant
    BY InitEstablishes, StepPreserves, PTL DEF Spec

-----------------------------------------------------------------------------

\* Every variable of EchoSession keeps its type.
THEOREM TypeCorrect == Spec => []TypeOK
<1>1. SessionInvariant => TypeOK
    BY DEF SessionInvariant, ClientOK, QueueOK, BidiOK, TypeOK
<1>2. QED BY <1>1, InvariantHolds, PTL

\* Payloads are echoed in the order in which they were complete, each once,
\* for any number of streams, whichever limits the client raises and whenever
\* the session goes away (echo_visitor.cc 166-182).
THEOREM PayloadsEchoedInOrder == Spec => []EchoedInOrder
<1>1. SessionInvariant => EchoedInOrder
    BY DEF SessionInvariant, QueueOK
<1>2. QED BY <1>1, InvariantHolds, PTL

\* A stream that has ended is never forgotten: it is completed, or a call that
\* completes it is due (echo_visitor.cc 126-140).
THEOREM EndedStreamsAccountedFor == Spec => []NothingLost
<1>1. SessionInvariant => NothingLost
    BY DEF SessionInvariant, ClientOK
<1>2. QED BY <1>1, InvariantHolds, PTL

\* Nothing waits while the client would take it (echo_visitor.cc 109-113,
\* 152-164).
THEOREM CreditIsUsed == Spec => []NoIdleCredit
<1>1. SessionInvariant => NoIdleCredit
    BY DEF SessionInvariant, QueueOK, BidiOK, NoIdleCredit
<1>2. QED BY <1>1, InvariantHolds, PTL

\* The server opens its own stream at most once, and only if told to
\* (echo_visitor.cc 104-113, 152-160).
THEOREM OpenedOnce == Spec => []EchoStreamOpenedOnce
<1>1. SessionInvariant => EchoStreamOpenedOnce
    BY DEF SessionInvariant, BidiOK
<1>2. QED BY <1>1, InvariantHolds, PTL

=============================================================================
