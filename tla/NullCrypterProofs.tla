-------------------------- MODULE NullCrypterProofs --------------------------
(***************************************************************************)
(* Proofs about NullCrypter for every size, plaintext, room and buffer.    *)
(*                                                                         *)
(* The argument: the three writes of EncryptPacket do not touch each       *)
(* other, and the plaintext was saved before the first of them, so that    *)
(* the packet is prefix, hash and plaintext wherever the input lay.  Each  *)
(* cell of the hash names the payload and the side it was computed for: a  *)
(* packet whose first hash cell survives is accepted only with that        *)
(* payload and by that side's peer, whatever else was done to it.          *)
(***************************************************************************)
EXTENDS NullCrypter, SequenceTheorems, TLAPS

\* What an encrypted packet consists of, cell by cell.
Size == kSamplePrefixSize + (HashSize + Len(plaintext))
Cell(i) ==
    IF i <= kSamplePrefixSize THEN Zero
    ELSE IF i <= kSamplePrefixSize + HashSize
         THEN <<"hash", sender, plaintext, i - kSamplePrefixSize>>
         ELSE plaintext[i - (kSamplePrefixSize + HashSize)]
Ciphertext == [i \in 1..Size |-> Cell(i)]

\* Inputs, which no step changes.
InputsOK ==
    /\ stage \in {"plain", "refused", "sent", "arrived", "done"}
    /\ sender \in Perspective /\ receiver \in Perspective
    /\ plaintext \in Plaintexts
    /\ room \in Rooms /\ inPlace \in BOOLEAN
    /\ damaged \in BOOLEAN

\* The packet on its way: what was encrypted, or something whose first hash
\* cell, if it is long enough to have one, is the one computed or changed.
PacketOK ==
    /\ stage = "refused" => NoRoom
    /\ stage \in {"sent", "arrived", "done"} =>
          /\ packet \in Seq({packet[i] : i \in DOMAIN packet})
          /\ ~damaged => packet = Ciphertext
          /\ Len(packet) > kSamplePrefixSize =>
                packet[kSamplePrefixSize + 1]
                    \in {Cell(kSamplePrefixSize + 1), Flipped}
    /\ stage = "sent" => ~NoRoom
    /\ stage \in {"plain", "sent"} => ~damaged

OutcomeOK ==
    IF stage = "done" THEN outcome \in DecryptPacket ELSE outcome = Failed

NullInvariant == InputsOK /\ PacketOK /\ OutcomeOK

-----------------------------------------------------------------------------
(* Memory. *)

\* A write changes the cells it covers, and no other.
LEMMA Written ==
    ASSUME NEW mem, NEW at, NEW cells
    PROVE  /\ DOMAIN WriteAt(mem, at, cells) = DOMAIN mem
           /\ \A i \in DOMAIN mem :
                 WriteAt(mem, at, cells)[i]
                    = IF i \in at .. at + Len(cells) - 1
                      THEN cells[i - at + 1] ELSE mem[i]
    BY DEF WriteAt

\* The sizes a packet is made of.
LEMMA Sizes ==
    ASSUME InputsOK
    PROVE  /\ kSamplePrefixSize \in Nat /\ HashSize \in Nat /\ HashSize > 0
           /\ Len(plaintext) \in Nat /\ BufferSize \in Nat /\ room \in Nat
           /\ plaintext \in Seq(Byte)
           /\ Size <= BufferSize /\ Size \in Nat
<1>1. plaintext \in Plaintexts /\ Plaintexts \subseteq Seq(Byte) /\ Rooms \subseteq Nat
      /\ room \in Rooms
    BY NullCrypterAssumption DEF InputsOK
<1>2. /\ kSamplePrefixSize \in Nat /\ HashSize \in Nat \ {0} /\ BufferSize \in Nat
      /\ kSamplePrefixSize + HashSize + Len(plaintext) <= BufferSize
    BY <1>1, NullCrypterAssumption
<1>3. plaintext \in Seq(Byte) /\ Len(plaintext) \in Nat
    BY <1>1, LenProperties
<1>4. QED BY <1>1, <1>2, <1>3 DEF Size

\* The plaintext is read back as it was, wherever it lay.
LEMMA Saved ==
    ASSUME InputsOK
    PROVE  /\ DOMAIN PlainBuffer = 0 .. 2 * BufferSize - 1
           /\ PlaintextCopy(PlainBuffer) = plaintext
<1> DEFINE L == Len(plaintext)
           empty == [i \in 0 .. 2 * BufferSize - 1 |-> Junk]
<1>1. L \in Nat /\ L <= BufferSize /\ BufferSize \in Nat /\ plaintext \in Seq(Byte)
    BY Sizes DEF Size
<1>2. PlaintextAt \in {0, BufferSize}
    BY DEF PlaintextAt
<1>3. DOMAIN empty = 0 .. 2 * BufferSize - 1 /\ PlainBuffer = WriteAt(empty, PlaintextAt, plaintext)
    BY DEF PlainBuffer
<1> HIDE DEF empty
<1>4. /\ DOMAIN PlainBuffer = 0 .. 2 * BufferSize - 1
      /\ \A i \in 0 .. 2 * BufferSize - 1 :
            i \in PlaintextAt .. PlaintextAt + L - 1 =>
                PlainBuffer[i] = plaintext[i - PlaintextAt + 1]
    <2>1. PlaintextAt \in Nat
        BY <1>1, <1>2
    <2>2. /\ DOMAIN PlainBuffer = DOMAIN empty
          /\ \A i \in DOMAIN empty :
                PlainBuffer[i] = IF i \in PlaintextAt .. PlaintextAt + L - 1
                                 THEN plaintext[i - PlaintextAt + 1] ELSE empty[i]
        BY <1>1, <1>3, <2>1, Written
    <2>3. QED BY <1>3, <2>2
<1> HIDE DEF L
<1>5. \A k \in 1..L : PlainBuffer[PlaintextAt + k - 1] = plaintext[k]
    <2> TAKE k \in 1..L
    <2>1. /\ PlaintextAt + k - 1 \in 0 .. 2 * BufferSize - 1
          /\ PlaintextAt + k - 1 \in PlaintextAt .. PlaintextAt + L - 1
          /\ (PlaintextAt + k - 1) - PlaintextAt + 1 = k
        BY <1>1, <1>2
    <2>2. QED BY <1>4, <2>1
<1>6. PlaintextCopy(PlainBuffer) = [k \in 1..L |-> plaintext[k]]
    BY <1>5 DEF PlaintextCopy, ReadAt, L
<1>7. plaintext = [k \in 1..L |-> plaintext[k]]
    BY <1>1 DEF L
<1>8. QED BY <1>4, <1>6, <1>7

LEMMA Encrypted ==
    ASSUME InputsOK
    PROVE  EncryptPacket = Ciphertext
<1> DEFINE K == kSamplePrefixSize
           H == HashSize
           L == Len(plaintext)
           prefix == [k \in 1..K |-> Zero]
           hash == HashOf(sender, plaintext)
           prefixed == WriteAt(PlainBuffer, 0, prefix)
           moved == WriteAt(prefixed, K + H, plaintext)
           hashed == WriteAt(moved, K, hash)
<1>1. /\ K \in Nat /\ H \in Nat /\ H > 0 /\ L \in Nat /\ BufferSize \in Nat
      /\ plaintext \in Seq(Byte) /\ K + (H + L) <= BufferSize
    BY Sizes DEF Size
<1>2. EncryptPacket = ReadAt(hashed, 0, K + (H + L))
    BY Saved DEF EncryptPacket
<1>3. DOMAIN PlainBuffer = 0 .. 2 * BufferSize - 1
    BY Saved
<1>4. prefix \in Seq({Zero}) /\ Len(prefix) = K /\ \A k \in 1..K : prefix[k] = Zero
    BY <1>1
<1>5. PICK S : hash \in Seq(S)
    <2> DEFINE S == {<<"hash", sender, plaintext, k>> : k \in 1..H}
    <2>1. \A k \in 1..H : <<"hash", sender, plaintext, k>> \in S
        OBVIOUS
    <2> HIDE DEF S
    <2>2. hash \in Seq(S)
        BY <1>1, <2>1, IsASeq DEF HashOf
    <2>3. QED BY <2>2
<1>6. Len(hash) = H /\ \A k \in 1..H : hash[k] = <<"hash", sender, plaintext, k>>
    BY <1>1, <1>5 DEF HashOf
<1> HIDE DEF prefix, hash
<1>7. /\ DOMAIN prefixed = 0 .. 2 * BufferSize - 1
      /\ \A i \in 0 .. 2 * BufferSize - 1 : i \in 0 .. K - 1 => prefixed[i] = Zero
    <2>1. /\ DOMAIN prefixed = DOMAIN PlainBuffer
          /\ \A i \in DOMAIN PlainBuffer :
                prefixed[i] = IF i \in 0 .. 0 + K - 1 THEN prefix[i - 0 + 1]
                                                      ELSE PlainBuffer[i]
        BY <1>4, Written
    <2>2. QED BY <1>1, <1>3, <1>4, <2>1
<1> HIDE DEF prefixed
<1>8. /\ DOMAIN moved = 0 .. 2 * BufferSize - 1
      /\ \A i \in 0 .. 2 * BufferSize - 1 :
            moved[i] = IF i \in K + H .. K + H + L - 1
                       THEN plaintext[i - (K + H) + 1] ELSE prefixed[i]
    BY <1>1, <1>7, Written
<1> HIDE DEF moved
<1>9. /\ DOMAIN hashed = 0 .. 2 * BufferSize - 1
      /\ \A i \in 0 .. 2 * BufferSize - 1 :
            hashed[i] = IF i \in K .. K + H - 1 THEN hash[i - K + 1] ELSE moved[i]
    <2>1. /\ DOMAIN hashed = DOMAIN moved
          /\ \A i \in DOMAIN moved :
                hashed[i] = IF i \in K .. K + Len(hash) - 1 THEN hash[i - K + 1]
                                                           ELSE moved[i]
        BY Written
    <2>2. QED BY <1>6, <1>8, <2>1
<1> HIDE DEF hashed
<1>10. ASSUME NEW i \in 1 .. K + (H + L)
       PROVE  hashed[0 + i - 1] = Cell(i)
    <2>1. i - 1 \in 0 .. 2 * BufferSize - 1 /\ 0 + i - 1 = i - 1
        BY <1>1
    <2>2. CASE i <= K
        BY <1>1, <1>7, <1>8, <1>9, <2>1, <2>2 DEF Cell
    <2>3. CASE i > K /\ i <= K + H
        <3>1. i - 1 \in K .. K + H - 1 /\ i - 1 - K + 1 = i - K /\ i - K \in 1..H
            BY <1>1, <2>3
        <3>2. hashed[i - 1] = hash[i - K]
            BY <1>9, <2>1, <3>1
        <3>3. QED BY <1>1, <1>6, <2>1, <2>3, <3>1, <3>2 DEF Cell
    <2>4. CASE i > K + H
        <3>1. /\ i - 1 \notin K .. K + H - 1 /\ i - 1 \in K + H .. K + H + L - 1
              /\ i - 1 - (K + H) + 1 = i - (K + H)
            BY <1>1, <2>4
        <3>2. hashed[i - 1] = plaintext[i - (K + H)]
            BY <1>8, <1>9, <2>1, <3>1
        <3>3. QED BY <1>1, <2>1, <2>4, <3>2 DEF Cell
    <2>5. QED BY <1>1, <2>2, <2>3, <2>4
<1>11. QED BY <1>2, <1>10 DEF ReadAt, Ciphertext, Size

LEMMA CiphertextCells ==
    ASSUME InputsOK
    PROVE  /\ Ciphertext \in Seq({Ciphertext[i] : i \in DOMAIN Ciphertext})
           /\ Len(Ciphertext) = Size /\ DOMAIN Ciphertext = 1..Size
           /\ \A i \in 1..Size : Ciphertext[i] = Cell(i)
<1>1. Size \in Nat
    BY Sizes
<1>2. DOMAIN Ciphertext = 1..Size /\ \A i \in 1..Size : Ciphertext[i] = Cell(i)
    BY DEF Ciphertext
<1>3. Ciphertext \in Seq({Ciphertext[i] : i \in DOMAIN Ciphertext})
    <2> DEFINE S == {Ciphertext[i] : i \in DOMAIN Ciphertext}
    <2>1. \A i \in 1..Size : Cell(i) \in S
        BY <1>2
    <2> HIDE DEF S
    <2>2. [i \in 1..Size |-> Cell(i)] \in Seq(S)
        BY <1>1, <2>1, IsASeq
    <2>3. QED BY <2>2 DEF Ciphertext, S
<1>4. Len(Ciphertext) = Size
    BY <1>1, <1>2, <1>3, LenProperties
<1>5. QED BY <1>2, <1>3, <1>4

-----------------------------------------------------------------------------
(* Decryption. *)

\* The payload QUICHE's decrypter is left with.
NullPart == SubSeq(packet, kSamplePrefixSize + 1, Len(packet))
Payload == SubSeq(NullPart, HashSize + 1, Len(NullPart))

\* Whatever decryption accepts has a first hash cell that names it.
LEMMA Accepted ==
    ASSUME InputsOK, packet \in Seq({packet[i] : i \in DOMAIN packet}),
           NEW o \in DecryptPacket
    PROVE  \/ o = Failed
           \/ /\ Len(packet) > kSamplePrefixSize
              /\ packet[kSamplePrefixSize + 1] = <<"hash", Peer(receiver), o, 1>>
<1>1. kSamplePrefixSize \in Nat /\ HashSize \in Nat /\ HashSize > 0
    BY Sizes
<1>2. SUFFICES ASSUME o # Failed
               PROVE  /\ Len(packet) > kSamplePrefixSize
                      /\ packet[kSamplePrefixSize + 1]
                            = <<"hash", Peer(receiver), o, 1>>
    OBVIOUS
<1>3. ~(Len(packet) < kSamplePrefixSize) /\ Genuine(NullPart) /\ o = Payload
    BY <1>2 DEF DecryptPacket, CopiedOut, NullPart, Payload
<1>4. /\ Len(NullPart) >= HashSize
      /\ SubSeq(NullPart, 1, HashSize) = HashOf(Peer(receiver), Payload)
    BY <1>3 DEF Genuine, Payload
<1>5. PICK S : packet \in Seq(S)
    OBVIOUS
<1>6. /\ Len(packet) \in Nat
      /\ Len(packet) >= kSamplePrefixSize
      /\ NullPart \in Seq(S) /\ Len(NullPart) = Len(packet) - kSamplePrefixSize
      /\ \A i \in 1..Len(NullPart) : NullPart[i] = packet[kSamplePrefixSize + i]
    BY <1>1, <1>3, <1>5 DEF NullPart
<1>7. SubSeq(NullPart, 1, HashSize)[1] = NullPart[1]
    BY <1>1, <1>4, <1>6
<1>8. HashOf(Peer(receiver), Payload)[1] = <<"hash", Peer(receiver), Payload, 1>>
    BY <1>1 DEF HashOf
<1>9. Len(packet) > kSamplePrefixSize /\ NullPart[1] = packet[kSamplePrefixSize + 1]
    BY <1>1, <1>4, <1>6
<1>10. NullPart[1] = <<"hash", Peer(receiver), Payload, 1>>
    BY <1>4, <1>7, <1>8
<1>11. QED BY <1>3, <1>9, <1>10

\* The peer of the sender decrypts an undamaged packet to the plaintext.
LEMMA Undamaged ==
    ASSUME InputsOK, packet = Ciphertext, receiver = Peer(sender)
    PROVE  DecryptPacket = {plaintext}
<1> DEFINE K == kSamplePrefixSize
           H == HashSize
           L == Len(plaintext)
<1>1. /\ K \in Nat /\ H \in Nat /\ H > 0 /\ L \in Nat
      /\ plaintext \in Seq(Byte) /\ Size = K + (H + L)
    BY Sizes DEF Size
<1>2. Peer(receiver) = sender
    BY DEF InputsOK, Perspective, Peer
<1>3. PICK S : packet \in Seq(S)
    BY CiphertextCells
<1>4. Len(packet) = K + (H + L) /\ \A i \in 1 .. K + (H + L) : packet[i] = Cell(i)
    BY <1>1, CiphertextCells
<1>5. /\ NullPart \in Seq(S) /\ Len(NullPart) = H + L
      /\ \A i \in 1 .. H + L : NullPart[i] = Cell(K + i)
    BY <1>1, <1>3, <1>4 DEF NullPart
<1>6. Payload = plaintext
    <2>1. /\ Payload \in Seq(S) /\ Len(Payload) = L
          /\ \A i \in 1..L : Payload[i] = NullPart[H + i]
        BY <1>1, <1>5 DEF Payload
    <2>2. \A i \in 1..L : Cell(K + (H + i)) = plaintext[i]
        BY <1>1 DEF Cell
    <2>3. \A i \in 1..L : Payload[i] = plaintext[i]
        BY <1>1, <1>5, <2>1, <2>2
    <2>4. QED BY <1>1, <2>1, <2>3
<1>7. SubSeq(NullPart, 1, H) = HashOf(sender, plaintext)
    <2> DEFINE head == SubSeq(NullPart, 1, H)
    <2>1. head \in Seq(S) /\ Len(head) = H /\ \A i \in 1..H : head[i] = NullPart[i]
        BY <1>1, <1>5
    <2>2. \A i \in 1..H : Cell(K + i) = <<"hash", sender, plaintext, i>>
        BY <1>1 DEF Cell
    <2>3. \A i \in 1..H : head[i] = <<"hash", sender, plaintext, i>>
        BY <1>1, <1>5, <2>1, <2>2
    <2> HIDE DEF head
    <2>4. head = [i \in 1..H |-> head[i]]
        BY <2>1
    <2>5. QED BY <2>3, <2>4 DEF HashOf, head
<1>8. Genuine(NullPart)
    <2>1. SubSeq(NullPart, H + 1, Len(NullPart)) = plaintext
        BY <1>6 DEF Payload
    <2>2. Len(NullPart) >= H
        BY <1>1, <1>5
    <2>3. QED BY <1>2, <1>7, <2>1, <2>2 DEF Genuine
<1>9. ~(Len(packet) < K)
    BY <1>1, <1>4
<1>10. QED BY <1>6, <1>8, <1>9 DEF DecryptPacket, CopiedOut, NullPart, Payload

-----------------------------------------------------------------------------
(* The invariant. *)

LEMMA OwnCells ==
    ASSUME NEW S, NEW q \in Seq(S)
    PROVE  q \in Seq({q[i] : i \in DOMAIN q})
<1> DEFINE C == {q[i] : i \in DOMAIN q}
<1>1. Len(q) \in Nat /\ q = [i \in 1..Len(q) |-> q[i]] /\ DOMAIN q = 1..Len(q)
    BY LenProperties
<1>2. \A i \in 1..Len(q) : q[i] \in C
    BY <1>1
<1> HIDE DEF C
<1>3. [i \in 1..Len(q) |-> q[i]] \in Seq(C)
    BY <1>1, <1>2, IsASeq
<1>4. QED BY <1>1, <1>3 DEF C

LEMMA InitEstablishes == Init => NullInvariant
    BY DEF Init, NullInvariant, InputsOK, PacketOK, OutcomeOK

LEMMA EncryptPreserves ==
    ASSUME NullInvariant, Encrypt
    PROVE  NullInvariant'
<1>1. InputsOK /\ OutcomeOK /\ stage = "plain"
    BY DEF NullInvariant, Encrypt
<1>2. /\ UNCHANGED <<sender, receiver, plaintext, inPlace, room, damaged, outcome>>
      /\ \/ NoRoom /\ stage' = "refused" /\ UNCHANGED packet
         \/ ~NoRoom /\ stage' = "sent" /\ packet' = Ciphertext
    BY <1>1, Encrypted DEF Encrypt
<1>3. InputsOK' /\ OutcomeOK'
    BY <1>1, <1>2 DEF InputsOK, OutcomeOK
<1>4. CASE NoRoom /\ stage' = "refused" /\ UNCHANGED packet
    BY <1>2, <1>3, <1>4 DEF NullInvariant, PacketOK, NoRoom
<1>5. CASE ~NoRoom /\ stage' = "sent" /\ packet' = Ciphertext
    <2>1. Ciphertext' = Ciphertext
        BY <1>2 DEF Ciphertext, Size, Cell
    <2>2. Cell(kSamplePrefixSize + 1)' = Cell(kSamplePrefixSize + 1)
        BY <1>2 DEF Cell
    <2>3. /\ packet' \in Seq({packet'[i] : i \in DOMAIN packet'})
          /\ packet'[kSamplePrefixSize + 1] = Cell(kSamplePrefixSize + 1)
        <3>1. kSamplePrefixSize + 1 \in 1..Size
            BY <1>1, Sizes DEF Size
        <3>2. QED BY <1>1, <1>5, <3>1, CiphertextCells
    <2>4. ~damaged' /\ ~NoRoom'
        BY <1>1, <1>2, <1>5 DEF NullInvariant, PacketOK, NoRoom
    <2>5. QED BY <1>3, <1>5, <2>1, <2>2, <2>3, <2>4 DEF NullInvariant, PacketOK
<1>6. QED BY <1>2, <1>4, <1>5

LEMMA ArrivePreserves ==
    ASSUME NullInvariant, Arrive
    PROVE  NullInvariant'
<1> DEFINE K == kSamplePrefixSize
<1>1. /\ InputsOK /\ stage = "sent" /\ stage' = "arrived" /\ outcome = Failed
      /\ packet = Ciphertext
      /\ packet \in Seq({packet[i] : i \in DOMAIN packet})
      /\ Len(packet) > K => packet[K + 1] \in {Cell(K + 1), Flipped}
      /\ receiver' \in Perspective /\ damaged' \in BOOLEAN
      /\ UNCHANGED <<sender, plaintext, inPlace, room, outcome>>
    BY DEF NullInvariant, PacketOK, OutcomeOK, Arrive
<1>2. K \in Nat
    BY <1>1, Sizes
<1>3. PICK S : packet \in Seq(S)
    BY <1>1
<1>4. InputsOK' /\ OutcomeOK'
    BY <1>1 DEF InputsOK, OutcomeOK
<1>5. Ciphertext' = Ciphertext /\ Cell(K + 1)' = Cell(K + 1)
    BY <1>1 DEF Ciphertext, Size, Cell
<1>6. /\ \E T : packet' \in Seq(T)
      /\ ~damaged' => packet' = Ciphertext
      /\ Len(packet') > K => packet'[K + 1] \in {Cell(K + 1), Flipped}
    <2>1. CASE damaged' = FALSE /\ UNCHANGED packet
        BY <1>1, <2>1
    <2>2. ASSUME NEW i \in DOMAIN packet, damaged' = TRUE,
                 packet' = [packet EXCEPT ![i] = Flipped]
          PROVE  /\ packet' \in Seq(S \union {Flipped})
                 /\ Len(packet') > K => packet'[K + 1] \in {Cell(K + 1), Flipped}
        <3>1. /\ packet \in Seq(S \union {Flipped}) /\ Len(packet) \in Nat
              /\ DOMAIN packet = 1..Len(packet)
            BY <1>3
        <3>2. packet' \in Seq(S \union {Flipped}) /\ Len(packet') = Len(packet)
            BY <2>2, <3>1
        <3>3. QED BY <1>1, <1>2, <2>2, <3>1, <3>2
    <2>3. ASSUME NEW i \in DOMAIN packet, damaged' = TRUE,
                 packet' = SubSeq(packet, 1, i - 1)
          PROVE  /\ packet' \in Seq(S)
                 /\ Len(packet') > K => packet'[K + 1] \in {Cell(K + 1), Flipped}
        <3>1. i \in 1..Len(packet) /\ Len(packet) \in Nat
            BY <1>3
        <3>2. /\ packet' \in Seq(S) /\ Len(packet') = i - 1
              /\ \A k \in 1 .. i - 1 : packet'[k] = packet[k]
            BY <1>3, <2>3, <3>1
        <3>3. QED BY <1>1, <1>2, <3>1, <3>2
    <2>4. QED BY <2>1, <2>2, <2>3, <1>1, <1>3 DEF Arrive
<1>7. packet' \in Seq({packet'[i] : i \in DOMAIN packet'})
    BY <1>6, OwnCells
<1>8. PacketOK'
    BY <1>1, <1>5, <1>6, <1>7 DEF PacketOK
<1>9. QED BY <1>4, <1>8 DEF NullInvariant

LEMMA DecryptPreserves ==
    ASSUME NullInvariant, Decrypt
    PROVE  NullInvariant'
<1>1. /\ InputsOK /\ PacketOK /\ stage = "arrived" /\ stage' = "done"
      /\ outcome' \in DecryptPacket
      /\ UNCHANGED <<sender, receiver, plaintext, inPlace, room, packet, damaged>>
    BY DEF NullInvariant, Decrypt
<1>2. DecryptPacket' = DecryptPacket
    BY <1>1 DEF DecryptPacket, Genuine, CopiedOut
<1>3. Ciphertext' = Ciphertext /\ Cell(kSamplePrefixSize + 1)' = Cell(kSamplePrefixSize + 1)
    BY <1>1 DEF Ciphertext, Size, Cell
<1>4. InputsOK' /\ OutcomeOK'
    BY <1>1, <1>2 DEF InputsOK, OutcomeOK
<1>5. PacketOK'
    BY <1>1, <1>3 DEF PacketOK
<1>6. QED BY <1>4, <1>5 DEF NullInvariant

LEMMA NextPreserves == NullInvariant /\ [Next]_vars => NullInvariant'
<1>1. ASSUME NullInvariant, UNCHANGED vars PROVE NullInvariant'
    <2>1. UNCHANGED <<stage, sender, receiver, plaintext, inPlace, room, packet,
                      damaged, outcome>>
        BY <1>1 DEF vars
    <2>2. /\ Ciphertext' = Ciphertext /\ DecryptPacket' = DecryptPacket
          /\ Cell(kSamplePrefixSize + 1)' = Cell(kSamplePrefixSize + 1)
          /\ NoRoom' <=> NoRoom
        BY <2>1 DEF Ciphertext, Size, Cell, DecryptPacket, Genuine, CopiedOut, NoRoom
    <2>3. QED BY <1>1, <2>1, <2>2 DEF NullInvariant, InputsOK, PacketOK, OutcomeOK
<1>2. QED BY <1>1, EncryptPreserves, ArrivePreserves, DecryptPreserves DEF Next

\* A packet is prefix, hash and plaintext until something is done to it, and
\* its hash keeps naming payload and sender after that, for all sizes
\* (null_encrypter.cc EncryptPacket).
THEOREM NullInvariantHolds == Spec => []NullInvariant
    BY InitEstablishes, NextPreserves, PTL DEF Spec

-----------------------------------------------------------------------------
(* What follows from it. *)

\* A packet whose first hash cell was changed names nobody.
LEMMA Named ==
    ASSUME NullInvariant, stage = "done", outcome # Failed
    PROVE  outcome = plaintext /\ receiver = Peer(sender)
<1>1. /\ InputsOK /\ outcome \in DecryptPacket
      /\ packet \in Seq({packet[i] : i \in DOMAIN packet})
      /\ Len(packet) > kSamplePrefixSize =>
            packet[kSamplePrefixSize + 1] \in {Cell(kSamplePrefixSize + 1), Flipped}
    BY DEF NullInvariant, PacketOK, OutcomeOK
<1>2. packet[kSamplePrefixSize + 1] = <<"hash", Peer(receiver), outcome, 1>>
    BY <1>1, Accepted
<1>3. packet[kSamplePrefixSize + 1] \in {Cell(kSamplePrefixSize + 1), Flipped}
    BY <1>1, Accepted
<1>4. Cell(kSamplePrefixSize + 1) = <<"hash", sender, plaintext, 1>>
    BY <1>1, Sizes DEF Cell
<1>5. <<"hash", Peer(receiver), outcome, 1>> # Flipped
    BY DEF Flipped
<1>6. Peer(receiver) = sender /\ outcome = plaintext
    BY <1>2, <1>3, <1>4, <1>5
<1>7. receiver = Peer(sender)
    BY <1>1, <1>6 DEF InputsOK, Perspective, Peer
<1>8. QED BY <1>6, <1>7

\* The types: an outcome is one of the plaintexts, or Failed.
THEOREM TypeCorrect == Spec => []TypeOK
<1>1. NullInvariant => TypeOK
    BY Named DEF NullInvariant, InputsOK, OutcomeOK, TypeOK
<1>2. QED BY <1>1, NullInvariantHolds, PTL

\* Whatever the sizes and wherever input and output lie, the peer of the sender
\* gets back the plaintext of an unchanged packet.
THEOREM RoundTripIsExact == Spec => []RoundTrip
<1>1. NullInvariant => RoundTrip
    BY Undamaged DEF NullInvariant, PacketOK, OutcomeOK, RoundTrip
<1>2. QED BY <1>1, NullInvariantHolds, PTL

\* Nothing is accepted but what the other side sent.
THEOREM OnlyGenuineAccepted == Spec => []AcceptedIsGenuine
<1>1. NullInvariant => AcceptedIsGenuine
    BY Named DEF AcceptedIsGenuine
<1>2. QED BY <1>1, NullInvariantHolds, PTL

\* What a packet on its way looks like; before it arrives it is whole.
LEMMA SentPacket ==
    ASSUME NullInvariant, stage = "sent"
    PROVE  /\ Len(packet) = kSamplePrefixSize + (HashSize + Len(plaintext))
           /\ ~NoRoom
<1>1. packet = Ciphertext /\ ~NoRoom
    BY DEF NullInvariant, PacketOK
<1>2. Len(Ciphertext) = Size
    BY CiphertextCells DEF NullInvariant
<1>3. QED BY <1>1, <1>2 DEF Size

\* The sizes announced to the packet creator are those of the encryption.
THEOREM AnnouncedSizesHold == Spec => []SizesAgree
<1>1. NullInvariant => SizesAgree
    <2> SUFFICES ASSUME NullInvariant PROVE SizesAgree
        OBVIOUS
    <2>1. /\ kSamplePrefixSize \in Nat /\ HashSize \in Nat /\ room \in Nat
          /\ Len(plaintext) \in Nat
        BY Sizes DEF NullInvariant
    <2>2. stage = "refused" => NoRoom
        BY DEF NullInvariant, PacketOK
    <2>3. QED BY <2>1, <2>2, SentPacket
              DEF SizesAgree, NoRoom, GetCiphertextSize, GetMaxPlaintextSize
<1>2. QED BY <1>1, NullInvariantHolds, PTL

\* The header protection sample exists in every packet if the prefix is long
\* enough for that of an empty one, as the prefix of 8 bytes is.
THEOREM SampleExists ==
    ASSUME 1 + kSamplePrefixSize + HashSize >= SampleOffset + SampleSize
    PROVE  Spec => []SampleAvailable
<1>1. NullInvariant => SampleAvailable
    <2> SUFFICES ASSUME NullInvariant, stage = "sent"
                 PROVE  1 + Len(packet) >= SampleOffset + SampleSize
        BY DEF SampleAvailable
    <2>1. /\ kSamplePrefixSize \in Nat /\ HashSize \in Nat /\ Len(plaintext) \in Nat
          /\ SampleOffset \in Nat /\ SampleSize \in Nat
        BY Sizes, NullCrypterAssumption DEF NullInvariant
    <2>2. QED BY <2>1, SentPacket
<1>2. QED BY <1>1, NullInvariantHolds, PTL

=============================================================================
