-------------------------- MODULE EchoStreamProofs --------------------------
(***************************************************************************)
(* Proofs about EchoStream, for every Byte, MaxBytes and SendThreshold: its *)
(* type invariant, that the echo conserves the bytes, that the FIN comes    *)
(* last, that nothing is left without a call to come, and that the stream   *)
(* implements the safety part of EchoPipe.                                  *)
(***************************************************************************)
EXTENDS EchoStream, SequenceTheorems, TLAPS

\* How the visitor's fields follow the two halves of the stream.  A reset sets
\* send_fin_ only if the visitor was attached, so nothing is said of it here.
FinFieldsAgree ==
    /\ fin_sent_ = finBuffered
    /\ finBuffered => send_fin_ /\ buffer_ = <<>>
    /\ finEchoed => finBuffered /\ outbound = <<>>
    /\ send_fin_ => attached /\ peerEnd # "open"
    /\ peerEnd = "fin" /\ send_fin_ => inbound = <<>>
    /\ stop_sending_received_ => attached /\ stopped

\* The inductive invariant of one echo stream.
EchoInvariant == TypeOK /\ EchoConserved /\ FinFieldsAgree

(***************************************************************************)
(* Facts about sequences cut into four parts a, b, c, d: what was echoed,   *)
(* what the transport holds, what the visitor holds and what it has not     *)
(* read.                                                                    *)
(***************************************************************************)

\* A byte that arrives extends the last part and the whole alike.
LEMMA ArrivalExtends ==
    ASSUME NEW S, NEW p \in Seq(S), NEW d \in Seq(S), NEW e \in S
    PROVE  p \o Append(d, e) = Append(p \o d, e)
<1>1. p \o d \in Seq(S) /\ <<e>> \in Seq(S)
  BY ConcatProperties
<1>2. Append(d, e) = d \o <<e>> /\ Append(p \o d, e) = (p \o d) \o <<e>>
  BY <1>1, AppendIsConcat
<1>3. (p \o d) \o <<e>> = p \o (d \o <<e>>)
  BY <1>1, ConcatAssociative
<1> QED BY <1>2, <1>3

\* Reading moves the last part into the one before, p standing for the others.
LEMMA ReadMoves ==
    ASSUME NEW S, NEW p \in Seq(S), NEW c \in Seq(S), NEW d \in Seq(S)
    PROVE  p \o (c \o d) \o <<>> = p \o c \o d
<1>1. c \o d \in Seq(S) /\ p \o (c \o d) \in Seq(S)
  BY ConcatProperties
<1>2. p \o (c \o d) \o <<>> = p \o (c \o d)
  BY <1>1, ConcatEmptySeq
<1>3. p \o (c \o d) = p \o c \o d
  BY ConcatAssociative, SMTT(30)
<1> QED BY <1>2, <1>3

\* Writing moves the third part into the second one.
LEMMA WriteMoves ==
    ASSUME NEW S, NEW a \in Seq(S), NEW b \in Seq(S), NEW c \in Seq(S)
    PROVE  a \o (b \o c) \o <<>> = a \o b \o c
<1>1. b \o c \in Seq(S) /\ a \o (b \o c) \in Seq(S)
  BY ConcatProperties
<1>2. a \o (b \o c) \o <<>> = a \o (b \o c)
  BY <1>1, ConcatEmptySeq
<1>3. (a \o b) \o c = a \o (b \o c)
  BY ConcatAssociative, SMTT(30)
<1> QED BY <1>2, <1>3

\* Delivering moves the head of the second part to the end of the first one.
LEMMA DeliveryMoves ==
    ASSUME NEW S, NEW a \in Seq(S), NEW b \in Seq(S), b # <<>>
    PROVE  Append(a, Head(b)) \o Tail(b) = a \o b
<1> DEFINE h == Head(b)
<1> DEFINE t == Tail(b)
<1>1. h \in S /\ t \in Seq(S) /\ <<h>> \in Seq(S)
  BY HeadTailProperties
<1>2. b = <<h>> \o t
  <2>1. Len(<<h>> \o t) = Len(b)
    BY <1>1, ConcatProperties, HeadTailProperties, LenProperties
  <2>2. \A i \in 1..Len(b) : (<<h>> \o t)[i] = b[i]
    BY <1>1, ConcatProperties, HeadTailProperties, LenProperties
  <2>3. <<h>> \o t \in Seq(S)
    BY <1>1, ConcatProperties
  <2> QED BY <2>1, <2>2, <2>3, SeqEqual
<1>3. Append(a, h) = a \o <<h>>
  BY <1>1, AppendIsConcat
<1>4. (a \o <<h>>) \o t = a \o (<<h>> \o t)
  BY <1>1, ConcatAssociative
<1> QED BY <1>2, <1>3, <1>4

\* What is appended to a sequence changes no cell of it.
LEMMA PrefixStays ==
    ASSUME NEW S, NEW p \in Seq(S), NEW d \in Seq(S), NEW i \in 1..Len(p)
    PROVE  p \o d \in Seq(S) /\ i \in 1..Len(p \o d) /\ (p \o d)[i] = p[i]
<1>1. p \o d \in Seq(S) /\ Len(p \o d) = Len(p) + Len(d)
  BY ConcatProperties
<1>2. Len(p) \in Nat /\ Len(d) \in Nat
  BY LenProperties
<1>3. (p \o d)[i] = p[i]
  BY <1>2, ConcatProperties
<1> QED BY <1>1, <1>2, <1>3

\* The byte after the first part is the head of the second.
LEMMA NextByte ==
    ASSUME NEW S, NEW a \in Seq(S), NEW b \in Seq(S), NEW c \in Seq(S),
           NEW d \in Seq(S), b # <<>>
    PROVE  /\ Len(a) < Len(a \o b \o c \o d)
           /\ (a \o b \o c \o d)[Len(a) + 1] = Head(b)
<1> DEFINE n == Len(a) + 1
<1> DEFINE p == a \o b
<1> DEFINE q == p \o c
<1>1. Len(b) \in Nat \ {0} /\ Len(a) \in Nat /\ Len(c) \in Nat /\ Len(d) \in Nat
  BY EmptySeq, LenProperties
<1>2. p \in Seq(S) /\ n \in 1..Len(p) /\ p[n] = b[1]
  BY <1>1, ConcatProperties
<1> HIDE DEF n, p
<1>3. q \in Seq(S) /\ n \in 1..Len(q) /\ q[n] = p[n]
  BY <1>2, PrefixStays
<1> HIDE DEF q
<1>4. n \in 1..Len(q \o d) /\ (q \o d)[n] = q[n]
  BY <1>3, PrefixStays
<1> QED BY <1>1, <1>2, <1>3, <1>4 DEF n, p, q

\* No part is longer than the whole.
LEMMA PartIsShorter ==
    ASSUME NEW S, NEW a \in Seq(S), NEW b \in Seq(S), NEW c \in Seq(S),
           NEW d \in Seq(S)
    PROVE  Len(c) <= Len(a \o b \o c \o d)
<1>1. a \o b \in Seq(S) /\ a \o b \o c \in Seq(S)
  BY ConcatProperties
<1>2. /\ Len(a \o b \o c \o d) = Len(a \o b \o c) + Len(d)
      /\ Len(a \o b \o c) = Len(a \o b) + Len(c)
  BY <1>1, ConcatProperties
<1> QED BY <1>1, <1>2, LenProperties

-----------------------------------------------------------------------------
(* The inductive invariant. *)

\* The invariant holds of a stream nobody has used yet.
LEMMA InitEstablishes == Init => EchoInvariant
<1> SUFFICES ASSUME Init PROVE EchoInvariant
  OBVIOUS
<1>1. <<>> \in Seq(Byte) /\ Len(<<>>) = 0
  BY EmptySeq
<1>2. TypeOK
  <2>1. Len(sent) <= MaxBytes /\ Len(buffer_) <= MaxBytes
    BY <1>1, EchoStreamAssumption DEF Init
  <2>2. /\ sent \in Seq(Byte) /\ echoed \in Seq(Byte) /\ inbound \in Seq(Byte)
        /\ outbound \in Seq(Byte) /\ buffer_ \in Seq(Byte)
    BY <1>1 DEF Init
  <2> QED BY <2>1, <2>2 DEF Init, TypeOK
<1>3. EchoConserved
  BY <1>1, ConcatEmptySeq DEF Init, EchoConserved
<1>4. FinFieldsAgree
  BY DEF Init, FinFieldsAgree
<1> QED BY <1>2, <1>3, <1>4 DEF EchoInvariant

\* What one pass of OnCanWrite does to the parts of the stream, whoever
\* calls it: with buf in buffer_ it keeps outbound and buffer_ together what
\* they were, and a FIN leaves buffer_ empty (36-55).
LEMMA FlushKeepsOrder ==
    ASSUME EchoInvariant,
           NEW buf \in Seq(Byte), NEW fin \in BOOLEAN,
           NEW rest \in Seq(Byte),
           FlushEcho(buf, fin),
           finBuffered => fin /\ buf = <<>>
    PROVE  /\ outbound' \in Seq(Byte) /\ buffer_' \in Seq(Byte)
           /\ fin_sent_' \in BOOLEAN /\ finBuffered' \in BOOLEAN
           /\ fin_sent_' = finBuffered'
           /\ finBuffered => finBuffered' /\ outbound' = outbound
           /\ finBuffered' => fin /\ buffer_' = <<>>
           /\ echoed \o outbound' \o buffer_' \o rest
                 = echoed \o outbound \o buf \o rest
<1>1. /\ echoed \in Seq(Byte) /\ outbound \in Seq(Byte)
      /\ fin_sent_ \in BOOLEAN /\ finBuffered \in BOOLEAN
      /\ fin_sent_ = finBuffered
  BY DEF EchoInvariant, TypeOK, FinFieldsAgree
<1>2. CASE stop_sending_received_ \/ WriteRefused(buf)
  <2>1. /\ buffer_' = buf
        /\ UNCHANGED <<outbound, finBuffered, fin_sent_>>
    BY <1>2 DEF FlushEcho
  <2> QED BY <1>1, <2>1
<1>3. CASE ~stop_sending_received_ /\ ~WriteRefused(buf)
  <2>1. /\ outbound' = outbound \o buf
        /\ buffer_' = <<>>
        /\ fin_sent_' = (fin_sent_ \/ SendsFin(fin, outbound'))
        /\ finBuffered' = (finBuffered \/ SendsFin(fin, outbound'))
    BY <1>3 DEF FlushEcho, BufferAfterWrite
  <2>2. outbound' \in Seq(Byte) /\ buffer_' \in Seq(Byte)
    BY <1>1, <2>1, ConcatProperties, EmptySeq
  <2>3. finBuffered => outbound' = outbound
    BY <1>1, <2>1, ConcatEmptySeq
  <2>4. SendsFin(fin, outbound') => fin
    BY DEF SendsFin
  <2>5. SendsFin(fin, outbound') \in BOOLEAN
    BY <2>2 DEF SendsFin, Accepts
  <2>6. echoed \o (outbound \o buf) \o <<>> \o rest
          = echoed \o outbound \o buf \o rest
    <3>1. echoed \in Seq(Byte) /\ outbound \in Seq(Byte)
      BY <1>1
    <3>2. echoed \o (outbound \o buf) \o <<>> = echoed \o outbound \o buf
      BY <3>1, WriteMoves, SMTT(30)
    <3> QED BY <3>2
  <2> QED BY <1>1, <2>1, <2>2, <2>3, <2>4, <2>5, <2>6
<1> QED BY <1>2, <1>3

\* A read that takes everything and then echoes keeps the invariant (23-34).
LEMMA ReadAndEchoPreserves ==
    ASSUME EchoInvariant, ReadAndEcho, peerEnd # "reset",
           attached',
           UNCHANGED <<peerVars, writeOwed, stopped, stop_sending_received_>>
    PROVE  EchoInvariant'
<1> DEFINE buf == buffer_ \o inbound
<1>1. /\ sent \in Seq(Byte) /\ Len(sent) <= MaxBytes
      /\ echoed \in Seq(Byte) /\ outbound \in Seq(Byte)
      /\ buffer_ \in Seq(Byte) /\ inbound \in Seq(Byte)
      /\ send_fin_ \in BOOLEAN
  BY DEF EchoInvariant, TypeOK
<1>2. /\ inbound' = <<>> /\ readOwed' = FALSE
      /\ send_fin_' = (send_fin_ \/ FinRead)
      /\ FlushEcho(buf, send_fin_')
  BY DEF ReadAndEcho, Readable
<1>3. buf \in Seq(Byte) /\ <<>> \in Seq(Byte) /\ send_fin_' \in BOOLEAN
  BY <1>1, <1>2, ConcatProperties, EmptySeq DEF FinRead
<1>4. finBuffered => send_fin_' /\ buf = <<>>
  <2>1. finBuffered => send_fin_ /\ buffer_ = <<>> /\ inbound = <<>>
    BY DEF EchoInvariant, FinFieldsAgree, TypeOK
  <2> QED BY <1>1, <1>2, <2>1, ConcatEmptySeq
<1>5. /\ outbound' \in Seq(Byte) /\ buffer_' \in Seq(Byte)
      /\ fin_sent_' \in BOOLEAN /\ finBuffered' \in BOOLEAN
      /\ fin_sent_' = finBuffered'
      /\ finBuffered => finBuffered' /\ outbound' = outbound
      /\ finBuffered' => send_fin_' /\ buffer_' = <<>>
      /\ echoed \o outbound' \o buffer_' \o <<>>
            = echoed \o outbound \o buf \o <<>>
  BY <1>2, <1>3, <1>4, FlushKeepsOrder
<1>6. EchoConserved'
  <2>1. echoed \o outbound \o (buffer_ \o inbound) \o <<>>
          = echoed \o outbound \o buffer_ \o inbound
    <3> DEFINE p == echoed \o outbound
    <3>1. p \in Seq(Byte) /\ buffer_ \in Seq(Byte) /\ inbound \in Seq(Byte)
      BY <1>1, ConcatProperties
    <3> HIDE DEF p
    <3>2. p \o (buffer_ \o inbound) \o <<>> = p \o buffer_ \o inbound
      BY <3>1, ReadMoves, SMTT(30)
    <3> QED BY <3>2 DEF p
  <2>2. echoed' = echoed /\ sent' = sent
    BY DEF peerVars
  <2> QED BY <1>2, <1>5, <2>1, <2>2 DEF EchoConserved, EchoInvariant
<1>7. TypeOK'
  <2>1. /\ sent' = sent /\ peerEnd' = peerEnd /\ echoed' = echoed
        /\ finEchoed' = finEchoed /\ writeOwed' = writeOwed
        /\ stop_sending_received_' = stop_sending_received_ /\ stopped' = stopped
    BY DEF peerVars
  <2>2. Len(buffer_)' <= MaxBytes
    <3>1. Len(buffer_') <= Len(echoed \o outbound' \o buffer_' \o <<>>)
      BY <1>1, <1>3, <1>5, PartIsShorter
    <3>2. echoed \o outbound' \o buffer_' \o <<>> = sent
      BY <1>2, <1>6, <2>1 DEF EchoConserved
    <3> QED BY <1>1, <1>5, <3>1, <3>2, LenProperties, EchoStreamAssumption
  <2>3. attached' \in BOOLEAN
    BY DEF ReadAndEcho
  <2> QED BY <1>1, <1>2, <1>3, <1>5, <2>1, <2>2, <2>3
          DEF EchoInvariant, TypeOK
<1>8. FinFieldsAgree'
  <2>1. peerEnd' = peerEnd /\ finEchoed' = finEchoed
    BY DEF peerVars
  <2> QED BY <1>2, <1>5, <2>1
          DEF EchoInvariant, FinFieldsAgree, TypeOK, FinRead
<1> QED BY <1>6, <1>7, <1>8 DEF EchoInvariant

\* A flush outside a read keeps the invariant: what was not read stays where
\* it is, and the FIN may follow once the peer's half has ended (36-60).
LEMMA FlushPreserves ==
    ASSUME EchoInvariant, NEW fin \in BOOLEAN, FlushEcho(buffer_, fin),
           send_fin_' = fin, send_fin_ => fin,
           UNCHANGED <<sent, echoed, finEchoed, inbound, stopped,
                       stop_sending_received_>>,
           attached' \in BOOLEAN, attached => attached',
           readOwed' \in BOOLEAN, writeOwed' \in BOOLEAN,
           peerEnd' \in {"open", "fin", "reset"},
           fin => attached' /\ peerEnd' # "open",
           peerEnd' = "fin" /\ fin => inbound = <<>>
    PROVE  EchoInvariant'
<1>1. /\ sent \in Seq(Byte) /\ Len(sent) <= MaxBytes
      /\ echoed \in Seq(Byte) /\ outbound \in Seq(Byte)
      /\ buffer_ \in Seq(Byte) /\ inbound \in Seq(Byte)
  BY DEF EchoInvariant, TypeOK
<1>2. finBuffered => fin /\ buffer_ = <<>>
  BY DEF EchoInvariant, FinFieldsAgree, TypeOK
<1>3. /\ outbound' \in Seq(Byte) /\ buffer_' \in Seq(Byte)
      /\ fin_sent_' \in BOOLEAN /\ finBuffered' \in BOOLEAN
      /\ fin_sent_' = finBuffered'
      /\ finBuffered => finBuffered' /\ outbound' = outbound
      /\ finBuffered' => fin /\ buffer_' = <<>>
      /\ echoed \o outbound' \o buffer_' \o inbound
            = echoed \o outbound \o buffer_ \o inbound
  BY <1>1, <1>2, FlushKeepsOrder, ZenonT(60)
<1>4. EchoConserved'
  BY <1>3 DEF EchoConserved, EchoInvariant
<1>5. TypeOK'
  <2>1. Len(buffer_)' <= MaxBytes
    <3>1. Len(buffer_') <= Len(echoed \o outbound' \o buffer_' \o inbound)
      BY <1>1, <1>3, PartIsShorter
    <3>2. echoed \o outbound' \o buffer_' \o inbound = sent
      BY <1>4 DEF EchoConserved
    <3> QED BY <1>1, <1>3, <3>1, <3>2, LenProperties, EchoStreamAssumption
  <2> QED BY <1>3, <2>1 DEF EchoInvariant, TypeOK
<1>6. FinFieldsAgree'
  BY <1>3 DEF EchoInvariant, FinFieldsAgree, TypeOK
<1> QED BY <1>4, <1>5, <1>6 DEF EchoInvariant

\* Every step keeps the invariant.
LEMMA NextPreserves == EchoInvariant /\ [Next]_vars => EchoInvariant'
<1> SUFFICES ASSUME EchoInvariant, [Next]_vars PROVE EchoInvariant'
  OBVIOUS
<1> USE DEF EchoInvariant
<1>1. CASE AcceptIncoming
  <2>1. CASE peerEnd # "reset"
    BY <1>1, <2>1, ReadAndEchoPreserves DEF AcceptIncoming
  <2>2. CASE peerEnd = "reset"
    <3>1. send_fin_' = send_fin_ /\ inbound' = inbound /\ FlushEcho(buffer_, send_fin_)
      <4>1. buffer_ \o <<>> = buffer_
        BY ConcatEmptySeq DEF TypeOK
      <4>2. send_fin_' = (send_fin_ \/ FALSE)
        BY <1>1, <2>2 DEF AcceptIncoming, ReadAndEcho, FinRead
      <4>3. send_fin_' = send_fin_
        BY <4>2 DEF TypeOK
      <4> QED BY <1>1, <2>2, <4>1, <4>3 DEF AcceptIncoming, ReadAndEcho, Readable
    <3> QED BY <1>1, <2>2, <3>1, FlushPreserves
            DEF AcceptIncoming, ReadAndEcho, peerVars, TypeOK, FinFieldsAgree
  <2> QED BY <2>1, <2>2
<1>2. CASE OnCanRead
  BY <1>2, ReadAndEchoPreserves DEF OnCanRead
<1>3. CASE OnCanWrite
  BY <1>3, FlushPreserves
     DEF OnCanWrite, peerVars, TypeOK, FinFieldsAgree
<1>4. CASE OnResetStreamReceived
  BY <1>4, FlushPreserves DEF OnResetStreamReceived, TypeOK
<1>5. CASE OnStopSendingReceived \/ StopBeforeAccept
  <2>1. /\ stopped' = TRUE
        /\ UNCHANGED <<peerVars, attached, inbound, readOwed, outbound, finBuffered,
                       writeOwed, buffer_, send_fin_, fin_sent_>>
    BY <1>5 DEF OnStopSendingReceived, StopBeforeAccept, visitorVars
  <2>2. CASE stop_sending_received_' = TRUE /\ attached
    BY <2>1, <2>2 DEF peerVars, TypeOK, EchoConserved, FinFieldsAgree
  <2>3. CASE stop_sending_received_' = stop_sending_received_
    BY <2>1, <2>3 DEF peerVars, TypeOK, EchoConserved, FinFieldsAgree
  <2> QED BY <1>5, <2>2, <2>3 DEF OnStopSendingReceived, StopBeforeAccept, visitorVars
<1>11. CASE ResetBeforeAccept
  BY <1>11 DEF ResetBeforeAccept, streamVars, visitorVars, TypeOK, EchoConserved,
               FinFieldsAgree
<1>6. CASE PeerSend
  <2>1. PICK b \in Byte : /\ sent' = Append(sent, b)
                          /\ inbound' = Append(inbound, b)
    BY <1>6 DEF PeerSend
  <2>2. /\ UNCHANGED <<peerEnd, echoed, finEchoed, attached, outbound,
                       finBuffered, writeOwed, stopped, visitorVars>>
        /\ peerEnd = "open" /\ Len(sent) < MaxBytes /\ readOwed' = attached
    BY <1>6 DEF PeerSend
  <2>3. TypeOK'
    BY <2>1, <2>2, AppendProperties, EchoStreamAssumption, LenProperties
       DEF TypeOK, visitorVars
  <2>4. EchoConserved'
    <3> DEFINE p == echoed \o outbound \o buffer_
    <3>1. p \in Seq(Byte) /\ inbound \in Seq(Byte) /\ b \in Byte
      BY <2>1, ConcatProperties DEF TypeOK
    <3>2. p' = p /\ p \o inbound = sent
      BY <2>2 DEF EchoConserved, visitorVars
    <3> HIDE DEF p
    <3>3. p \o Append(inbound, b) = Append(p \o inbound, b)
      BY <3>1, ArrivalExtends
    <3>4. p' \o inbound' = sent'
      BY <2>1, <3>2, <3>3
    <3> QED BY <3>4 DEF EchoConserved, p
  <2>5. FinFieldsAgree'
    BY <2>2 DEF FinFieldsAgree, visitorVars, TypeOK
  <2> QED BY <2>3, <2>4, <2>5
<1>7. CASE PeerFin
  BY <1>7 DEF PeerFin, visitorVars, TypeOK, EchoConserved, FinFieldsAgree
<1>8. CASE Deliver
  <2>1. /\ outbound # <<>>
        /\ echoed' = Append(echoed, Head(outbound))
        /\ outbound' = Tail(outbound)
        /\ writeOwed' = (writeOwed \/ Accepts(outbound'))
        /\ UNCHANGED <<sent, peerEnd, finEchoed, attached, inbound, readOwed,
                       finBuffered, stopped, visitorVars>>
    BY <1>8 DEF Deliver
  <2>2. echoed \in Seq(Byte) /\ outbound \in Seq(Byte)
    BY DEF TypeOK
  <2>3. Head(outbound) \in Byte /\ Tail(outbound) \in Seq(Byte)
    BY <2>1, <2>2, HeadTailProperties
  <2>4. TypeOK'
    <3>1. Append(echoed, Head(outbound)) \in Seq(Byte)
      BY <2>2, <2>3, AppendProperties
    <3>2. writeOwed' \in BOOLEAN
      BY <2>1 DEF TypeOK, Accepts
    <3> QED BY <2>1, <2>3, <3>1, <3>2 DEF TypeOK, visitorVars
  <2>5. EchoConserved'
    <3>1. Append(echoed, Head(outbound)) \o Tail(outbound) = echoed \o outbound
      BY <2>1, <2>2, DeliveryMoves
    <3> QED BY <2>1, <3>1 DEF EchoConserved, visitorVars
  <2>6. FinFieldsAgree'
    BY <2>1 DEF FinFieldsAgree, visitorVars
  <2> QED BY <2>4, <2>5, <2>6
<1>9. CASE DeliverFin
  BY <1>9 DEF DeliverFin, streamVars, visitorVars, TypeOK, EchoConserved,
              FinFieldsAgree
<1>10. CASE UNCHANGED vars
  BY <1>10 DEF vars, peerVars, streamVars, visitorVars, TypeOK,
               EchoConserved, FinFieldsAgree
<1> QED BY <1>1, <1>2, <1>3, <1>4, <1>5, <1>6, <1>7, <1>8, <1>9, <1>10, <1>11
        DEF Next

-----------------------------------------------------------------------------
(* Nothing is left without a call to come. *)

\* What OnCanWrite leaves unwritten, bytes or the FIN, was refused because
\* the send buffer is full: bytes are on their way that will make room (36-55).
LEMMA FlushLeavesBytes ==
    ASSUME EchoInvariant, ~stopped,
           NEW buf \in Seq(Byte), NEW fin \in BOOLEAN,
           FlushEcho(buf, fin),
           finBuffered => buf = <<>>,
           outbound' \in Seq(Byte)
    PROVE  buffer_' # <<>> \/ (fin /\ ~finBuffered') => outbound' # <<>>
<1>1. /\ outbound \in Seq(Byte) /\ SendThreshold \in Nat \ {0}
      /\ ~stop_sending_received_
      /\ fin_sent_ = finBuffered
  BY EchoStreamAssumption DEF EchoInvariant, TypeOK, FinFieldsAgree
<1>2. ASSUME NEW out \in Seq(Byte), ~finBuffered, ~Accepts(out) PROVE out # <<>>
  <2>1. ~(Len(out) < SendThreshold)
    BY <1>2 DEF Accepts
  <2>2. Len(<<>>) = 0
    BY EmptySeq
  <2> QED BY <1>1, <2>1, <2>2
<1>3. CASE WriteRefused(buf)
  <2>1. outbound' = outbound /\ finBuffered' = finBuffered
    BY <1>1, <1>3 DEF FlushEcho
  <2>2. ~finBuffered /\ ~Accepts(outbound)
    BY <1>3 DEF WriteRefused
  <2> QED BY <1>1, <1>2, <2>1, <2>2
<1>4. CASE ~WriteRefused(buf)
  <2>1. /\ buffer_' = <<>>
        /\ finBuffered' = (finBuffered \/ SendsFin(fin, outbound'))
    BY <1>1, <1>4 DEF FlushEcho, BufferAfterWrite
  <2>2. ASSUME fin, ~finBuffered' PROVE outbound' # <<>>
    <3>1. ~finBuffered /\ ~SendsFin(fin, outbound')
      BY <2>1, <2>2
    <3>2. ~Accepts(outbound')
      BY <1>1, <2>2, <3>1 DEF SendsFin
    <3> QED BY <1>2, <3>1, <3>2
  <2> QED BY <2>1, <2>2
<1> QED BY <1>3, <1>4

\* A stream nobody has used yet owes nothing.
LEMMA InitOwesNothing == Init => NothingStuck
BY DEF Init, NothingStuck, FinRead

\* Every step that leaves something behind leaves a call to come for it.
LEMMA StepLeavesCall ==
    EchoInvariant /\ EchoInvariant' /\ NothingStuck /\ [Next]_vars => NothingStuck'
<1> SUFFICES ASSUME EchoInvariant, EchoInvariant', NothingStuck, [Next]_vars,
                    attached', ~stopped'
             PROVE  /\ peerEnd' # "reset"
                          /\ (inbound' # <<>> \/ (FinRead' /\ ~send_fin_')) => readOwed'
                    /\ buffer_' # <<>> \/ (send_fin_' /\ ~finBuffered')
                          => writeOwed' \/ outbound' # <<>>
  BY DEF NothingStuck
<1>1. /\ buffer_ \in Seq(Byte) /\ inbound \in Seq(Byte)
      /\ outbound \in Seq(Byte) /\ outbound' \in Seq(Byte)
      /\ send_fin_' \in BOOLEAN
      /\ finBuffered => buffer_ = <<>> /\ send_fin_
      /\ send_fin_ => peerEnd # "open"
      /\ peerEnd = "fin" /\ send_fin_ => inbound = <<>>
  BY DEF EchoInvariant, TypeOK, FinFieldsAgree
<1>2. CASE AcceptIncoming \/ OnCanRead
  <2>1. ReadAndEcho /\ ~stopped /\ peerEnd' = peerEnd
    <3>1. ReadAndEcho /\ stopped' = stopped /\ peerEnd' = peerEnd
      BY <1>2 DEF AcceptIncoming, OnCanRead, peerVars
    <3> QED BY <3>1
  <2>2. /\ inbound' = IF peerEnd = "reset" THEN inbound ELSE <<>>
        /\ send_fin_' = (send_fin_ \/ FinRead)
        /\ FlushEcho(buffer_ \o Readable, send_fin_')
    BY <2>1 DEF ReadAndEcho
  <2>3. peerEnd' # "reset" => inbound' = <<>> /\ ~(FinRead' /\ ~send_fin_')
    BY <2>1, <2>2 DEF FinRead
  <2>4. Readable \in Seq(Byte) /\ buffer_ \o Readable \in Seq(Byte)
    BY <1>1, EmptySeq, ConcatProperties DEF Readable
  <2>5. finBuffered => buffer_ \o Readable = <<>>
    <3>1. finBuffered => buffer_ = <<>> /\ Readable = <<>>
      BY <1>1 DEF Readable, EchoInvariant, TypeOK
    <3> QED BY <1>1, <3>1, ConcatEmptySeq
  <2>6. buffer_' # <<>> \/ (send_fin_' /\ ~finBuffered') => outbound' # <<>>
    BY <1>1, <2>1, <2>2, <2>4, <2>5, FlushLeavesBytes
  <2> QED BY <2>3, <2>6
<1>3. CASE OnCanWrite
  <2>1. /\ FlushEcho(buffer_, send_fin_) /\ ~stopped /\ attached
        /\ send_fin_' = send_fin_ /\ inbound' = inbound /\ peerEnd' = peerEnd
        /\ readOwed' = readOwed
    BY <1>3 DEF OnCanWrite, peerVars
  <2>2. buffer_' # <<>> \/ (send_fin_' /\ ~finBuffered') => outbound' # <<>>
    BY <1>1, <2>1, FlushLeavesBytes
  <2> QED BY <2>1, <2>2 DEF NothingStuck, FinRead
<1>4. CASE OnResetStreamReceived
  <2>1. /\ FlushEcho(buffer_, TRUE) /\ ~stopped /\ peerEnd' = "reset"
    BY <1>4 DEF OnResetStreamReceived
  <2>2. buffer_' # <<>> \/ (TRUE /\ ~finBuffered') => outbound' # <<>>
    BY <1>1, <2>1, FlushLeavesBytes
  <2> QED BY <2>1, <2>2
<1>5. CASE OnStopSendingReceived \/ StopBeforeAccept \/ ResetBeforeAccept
  BY <1>5 DEF OnStopSendingReceived, StopBeforeAccept, ResetBeforeAccept, streamVars
<1>6. CASE PeerSend \/ PeerFin
  <2>1. /\ readOwed' = attached /\ attached' = attached /\ stopped' = stopped
        /\ buffer_' = buffer_ /\ send_fin_' = send_fin_
        /\ finBuffered' = finBuffered /\ writeOwed' = writeOwed /\ outbound' = outbound
    BY <1>6 DEF PeerSend, PeerFin, visitorVars
  <2> QED BY <2>1 DEF NothingStuck
<1>7. CASE Deliver
  <2>1. /\ outbound # <<>> /\ outbound' = Tail(outbound)
        /\ writeOwed' = (writeOwed \/ Accepts(outbound'))
        /\ UNCHANGED <<peerEnd, attached, inbound, readOwed, finBuffered, stopped,
                       buffer_, send_fin_>>
    BY <1>7 DEF Deliver, visitorVars
  <2>2. ASSUME ~finBuffered, outbound' = <<>> PROVE writeOwed'
    <3>1. Accepts(outbound')
      BY <2>1, <2>2, EmptySeq, EchoStreamAssumption DEF Accepts
    <3> QED BY <2>1, <3>1
  <2>3. peerEnd # "reset" /\ (inbound # <<>> \/ (FinRead /\ ~send_fin_)) => readOwed
    BY <2>1 DEF NothingStuck
  <2>4. buffer_ # <<>> \/ (send_fin_ /\ ~finBuffered) => ~finBuffered
    BY <1>1
  <2> QED BY <2>1, <2>2, <2>3, <2>4 DEF FinRead
<1>8. CASE DeliverFin \/ UNCHANGED vars
  <2>1. UNCHANGED <<peerEnd, streamVars, visitorVars>>
    BY <1>8 DEF DeliverFin, vars, peerVars
  <2> QED BY <2>1 DEF streamVars, visitorVars, NothingStuck, FinRead
<1> QED BY <1>2, <1>3, <1>4, <1>5, <1>6, <1>7, <1>8 DEF Next

-----------------------------------------------------------------------------
(* The theorems. *)

\* The fields of the visitor and its stream stay in step, in every order of
\* callbacks: the inductive invariant of BidirectionalEchoVisitor (18-72).
THEOREM InvariantHolds == Spec => []EchoInvariant
<1>1. Init => EchoInvariant
  BY InitEstablishes
<1>2. EchoInvariant /\ [Next]_vars => EchoInvariant'
  BY NextPreserves
<1> QED BY <1>1, <1>2, PTL DEF Spec

\* Every variable keeps its type, and buffer_ never outgrows what was sent.
THEOREM TypeCorrect == Spec => []TypeOK
<1>1. EchoInvariant => TypeOK
  BY DEF EchoInvariant
<1> QED BY <1>1, InvariantHolds, PTL

\* No byte is lost, duplicated or reordered by OnCanRead and OnCanWrite,
\* however many writes are refused (23-55).
THEOREM BytesConserved == Spec => []EchoConserved
<1>1. EchoInvariant => EchoConserved
  BY DEF EchoInvariant
<1> QED BY <1>1, InvariantHolds, PTL

\* The FIN is written behind the echo of everything that was read, and of
\* everything that was sent unless the peer reset its half (43-54).
THEOREM FinComesLast == Spec => []FinBehindEcho
<1>1. EchoInvariant => FinBehindEcho
  <2> SUFFICES ASSUME EchoInvariant, finBuffered PROVE
        /\ buffer_ = <<>>
        /\ peerEnd # "open"
        /\ peerEnd = "fin" => echoed \o outbound = sent
    BY DEF FinBehindEcho
  <2>1. buffer_ = <<>> /\ peerEnd # "open" /\ (peerEnd = "fin" => inbound = <<>>)
    BY DEF EchoInvariant, FinFieldsAgree
  <2>2. echoed \o outbound \in Seq(Byte)
    BY ConcatProperties DEF EchoInvariant, TypeOK
  <2>3. ASSUME peerEnd = "fin" PROVE echoed \o outbound = sent
    <3>1. echoed \o outbound \o <<>> \o <<>> = sent
      BY <2>1, <2>3 DEF EchoInvariant, EchoConserved
    <3>2. echoed \o outbound \o <<>> = echoed \o outbound
      BY <2>2, ConcatEmptySeq
    <3> QED BY <2>2, <3>1, <3>2, ConcatEmptySeq
  <2> QED BY <2>1, <2>3
<1> QED BY <1>1, InvariantHolds, PTL

\* What can still be echoed always has a call to come, or bytes on their way
\* that cause one: the visitor never waits for a callback nobody will make,
\* whatever was refused and whatever arrived before it (23-55, 122).
THEOREM NothingIsStuck == Spec => []NothingStuck
<1>1. Init => NothingStuck
  BY InitOwesNothing
<1>2. EchoInvariant /\ EchoInvariant' /\ NothingStuck /\ [Next]_vars => NothingStuck'
  BY StepLeavesCall
<1> QED BY <1>1, <1>2, InvariantHolds, PTL DEF Spec

\* Every step of the visitor, the stream or the peer is a step of the echo
\* pipe or leaves it alone: what the peer sees is what EchoPipe promises.
THEOREM PipeImplemented == Spec => Pipe!Spec
<1>1. Init => Pipe!Init
  BY DEF Init, Pipe!Init
<1>2. EchoInvariant /\ [Next]_vars => [Pipe!Next]_(Pipe!vars)
  <2> SUFFICES ASSUME EchoInvariant, [Next]_vars
               PROVE  Pipe!Next \/ UNCHANGED Pipe!vars
    OBVIOUS
  <2> USE DEF EchoInvariant
  <2>0. finEchoed => peerEnd # "open" /\ send_fin_ /\ outbound = <<>>
    BY DEF FinFieldsAgree
  <2>1. CASE AcceptIncoming \/ OnCanRead \/ OnCanWrite
    BY <2>1 DEF AcceptIncoming, OnCanRead, OnCanWrite, ReadAndEcho, peerVars,
                Pipe!vars
  <2>2. CASE OnResetStreamReceived \/ ResetBeforeAccept
    <3>1. ~finEchoed
      BY <2>0, <2>2 DEF OnResetStreamReceived, ResetBeforeAccept, FinFieldsAgree
    <3>2. /\ peerEnd \in {"open", "fin"} /\ peerEnd' = "reset"
          /\ UNCHANGED <<sent, echoed, finEchoed, stopped>>
      BY <2>2 DEF OnResetStreamReceived, ResetBeforeAccept, streamVars
    <3> QED BY <3>1, <3>2 DEF Pipe!Next, Pipe!EndInput
  <2>3. CASE OnStopSendingReceived \/ StopBeforeAccept
    <3>1. ~finEchoed
      BY <2>3 DEF OnStopSendingReceived, StopBeforeAccept, FinFieldsAgree
    <3> QED BY <2>3, <3>1 DEF OnStopSendingReceived, StopBeforeAccept, peerVars,
                              Pipe!Next, Pipe!Cancel
  <2>4. CASE PeerSend
    BY <2>4 DEF PeerSend, visitorVars, Pipe!Next, Pipe!Offer
  <2>5. CASE PeerFin
    BY <2>0, <2>5 DEF PeerFin, visitorVars, Pipe!Next, Pipe!EndInput
  <2>6. CASE Deliver
    <3>1. /\ outbound # <<>> /\ ~stopped
          /\ echoed' = Append(echoed, Head(outbound))
          /\ UNCHANGED <<sent, peerEnd, finEchoed, stopped>>
      BY <2>6 DEF Deliver, visitorVars
    <3>2. /\ echoed \in Seq(Byte) /\ outbound \in Seq(Byte)
          /\ buffer_ \in Seq(Byte) /\ inbound \in Seq(Byte)
      BY DEF TypeOK
    <3>3. LET whole == echoed \o outbound \o buffer_ \o inbound
          IN  Len(echoed) < Len(whole) /\ whole[Len(echoed) + 1] = Head(outbound)
      BY <3>1, <3>2, NextByte, ZenonT(30)
    <3>4. Len(echoed) < Len(sent) /\ sent[Len(echoed) + 1] = Head(outbound)
      BY <3>3 DEF EchoConserved
    <3> QED BY <2>0, <3>1, <3>4 DEF Pipe!Next, Pipe!Echo
  <2>7. CASE DeliverFin
    <3>1. /\ finBuffered /\ outbound = <<>>
          /\ ~finEchoed /\ ~stopped /\ finEchoed'
          /\ UNCHANGED <<sent, peerEnd, echoed, stopped>>
      BY <2>7 DEF DeliverFin, streamVars
    <3>2. peerEnd = "fin" => echoed = sent
      <4>1. buffer_ = <<>> /\ (peerEnd = "fin" => inbound = <<>>)
        BY <3>1 DEF FinFieldsAgree
      <4>2. echoed \in Seq(Byte)
        BY DEF TypeOK
      <4> QED BY <3>1, <4>1, <4>2, ConcatEmptySeq DEF EchoConserved
    <3>3. peerEnd \in {"fin", "reset"}
      BY <3>1 DEF FinFieldsAgree, TypeOK
    <3> QED BY <2>7, <3>1, <3>2, <3>3 DEF DeliverFin, Pipe!Next, Pipe!Finish
  <2>8. CASE UNCHANGED vars
    BY <2>8 DEF vars, peerVars, streamVars, Pipe!vars
  <2> QED BY <2>1, <2>2, <2>3, <2>4, <2>5, <2>6, <2>7, <2>8 DEF Next
<1> QED BY <1>1, <1>2, InvariantHolds, PTL DEF Spec, Pipe!Spec

=============================================================================
