----------------------------- MODULE NullCrypter -----------------------------
(***************************************************************************)
(* The 1-RTT null crypter: WebTransportNullEncrypter and                    *)
(* WebTransportNullDecrypter (samples/web_transport_null_encrypter.cc,      *)
(* samples/web_transport_null_decrypter.cc) on one packet, from the buffer  *)
(* the packet creator built to the bytes the peer's framer gets back.       *)
(*                                                                          *)
(* A ciphertext is kSamplePrefixSize zero bytes, the hash QUICHE's          *)
(* NullEncrypter computes over the plaintext and the sender's role, and the *)
(* plaintext.  Encryption and decryption may run in place: the plaintext    *)
(* then lies where the output begins, and the output where the ciphertext   *)
(* does.                                                                    *)
(*                                                                          *)
(* External: NullEncrypter and NullDecrypter of QUICHE, with a hash taken   *)
(* to have no collisions.  The associated data is left out: it is part of   *)
(* what is hashed and both ends take it from the same header.               *)
(***************************************************************************)
EXTENDS Integers, Sequences

CONSTANTS
    kSamplePrefixSize,   \* bytes put before QUICHE's null ciphertext
    HashSize,            \* bytes of QUICHE's null hash
    SampleSize,          \* ciphertext bytes that header protection samples
    SampleOffset,        \* ... this far behind the start of the packet number
    Byte,                \* the values of a plaintext byte
    Plaintexts,          \* the plaintexts tried (model bound)
    Rooms,               \* values of max_output_length tried (model bound)
    BufferSize           \* cells of a packet buffer (model bound)

ASSUME NullCrypterAssumption ==
    /\ kSamplePrefixSize \in Nat
    /\ HashSize \in Nat \ {0}
    /\ SampleSize \in Nat /\ SampleOffset \in Nat
    /\ Plaintexts \subseteq Seq(Byte)
    /\ Rooms \subseteq Nat
    /\ BufferSize \in Nat
    /\ \A p \in Plaintexts :
          kSamplePrefixSize + HashSize + Len(p) <= BufferSize

VARIABLES
    stage,          \* "plain", "refused", "sent", "arrived" or "done"
    sender,         \* the perspective of the encrypter
    receiver,       \* the perspective of the decrypter that got the packet
    plaintext,      \* what the packet creator wants to send
    inPlace,        \* do input and output share a buffer?
    room,           \* max_output_length of the encryption
    packet,         \* the ciphertext
    damaged,        \* did the network change it?
    outcome         \* what decryption gave: bytes, or Failed

vars == <<stage, sender, receiver, plaintext, inPlace, room, packet,
          damaged, outcome>>

Perspective == {"IS_CLIENT", "IS_SERVER"}
Peer(p) == CHOOSE q \in Perspective : q # p

\* The value of a buffer that holds no answer.
Failed == <<"failed">>

Zero == <<"zero">>
Junk == <<"junk">>
Flipped == <<"flipped">>

-----------------------------------------------------------------------------
(* Sizes. *)

\* Mutation: the prefix is not counted.
NativeCiphertextSize(plaintext_size) == plaintext_size + HashSize

GetCiphertextSize(plaintext_size) ==
    kSamplePrefixSize + (plaintext_size + HashSize)

\* The largest plaintext that fits; QUICHE's own part never goes below 0.
GetMaxPlaintextSize(ciphertext_size) ==
    IF ciphertext_size < kSamplePrefixSize + HashSize
        THEN 0
        ELSE ciphertext_size - kSamplePrefixSize - HashSize

-----------------------------------------------------------------------------
(* Memory: a buffer is a function from offsets to cells. *)

\* The buffer with `cells' written from offset `at' on.
WriteAt(mem, at, cells) ==
    [i \in DOMAIN mem |->
        IF i \in at .. at + Len(cells) - 1 THEN cells[i - at + 1] ELSE mem[i]]

\* The `n' cells from offset `at' on.
ReadAt(mem, at, n) == [k \in 1..n |-> mem[at + k - 1]]

\* The hash QUICHE's null crypter puts before a payload sent from this side.
HashOf(perspective, payload) ==
    [k \in 1..HashSize |-> <<"hash", perspective, payload, k>>]

\* Where the plaintext lies: where the output begins, or in another buffer.
PlaintextAt == IF inPlace THEN 0 ELSE BufferSize

\* Memory as the packet creator hands it over, output buffer first.
PlainBuffer ==
    WriteAt([i \in 0 .. 2 * BufferSize - 1 |-> Junk], PlaintextAt, plaintext)

-----------------------------------------------------------------------------
(* EncryptPacket. *)

\* Mutation: the prefix is written before the plaintext is saved.
ReadBehindPrefix(mem) ==
    ReadAt(WriteAt(mem, 0, [k \in 1..kSamplePrefixSize |-> Zero]),
           PlaintextAt, Len(plaintext))

\* The plaintext as EncryptPacket saves it before it writes to the output.
PlaintextCopy(mem) == ReadAt(mem, PlaintextAt, Len(plaintext))

\* Does the encryption fail for want of room?
NoRoom ==
    \/ room < kSamplePrefixSize
    \/ room - kSamplePrefixSize < Len(plaintext) + HashSize

\* Mutation: QUICHE's own null ciphertext, without a prefix.
NativeCiphertext == HashOf(sender, plaintext) \o plaintext

\* The output: the prefix, the plaintext behind prefix and hash, and the hash,
\* written in this order, and as long as prefix and null output together.
EncryptPacket ==
    LET copy == PlaintextCopy(PlainBuffer)
        prefixed == WriteAt(PlainBuffer, 0, [k \in 1..kSamplePrefixSize |-> Zero])
        moved == WriteAt(prefixed, kSamplePrefixSize + HashSize, copy)
        hashed == WriteAt(moved, kSamplePrefixSize, HashOf(sender, copy))
    IN  ReadAt(hashed, 0, kSamplePrefixSize + (HashSize + Len(copy)))

-----------------------------------------------------------------------------
(* DecryptPacket. *)

\* Mutation: the hash is not compared.
AnyHash(null_ciphertext) == Len(null_ciphertext) >= HashSize

\* What QUICHE's NullDecrypter accepts from its peer.
Genuine(null_ciphertext) ==
    /\ Len(null_ciphertext) >= HashSize
    /\ SubSeq(null_ciphertext, 1, HashSize)
          = HashOf(Peer(receiver),
                   SubSeq(null_ciphertext, HashSize + 1, Len(null_ciphertext)))

\* memcpy of n cells down by `d' within one buffer: overlapping copies are
\* undefined, and give here what copying forwards or backwards gives.
OverlappingCopies(cells, d) ==
    LET n == Len(cells)
        backwards == [k \in 1..n |-> cells[k + d * ((n - k) \div d)]]
    IN  {cells, backwards}

\* Mutation: the payload is copied from the packet itself, which in place
\* means down by the length of prefix and hash.
CopiedFromPacket(payload) ==
    IF inPlace THEN OverlappingCopies(payload, kSamplePrefixSize + HashSize)
               ELSE {payload}

\* The payload as the output may receive it: the null ciphertext was copied
\* away from the buffer first, so where the output lies does not matter.
CopiedOut(payload) == {payload}

\* The outcomes decryption may have: the prefix is cut off unread, the rest
\* is checked and its payload given back.  The framer gives the output room for
\* the whole packet, so that max_output_length refuses nothing.
DecryptPacket ==
    LET null_ciphertext ==
            SubSeq(packet, kSamplePrefixSize + 1, Len(packet))
    IN  IF Len(packet) < kSamplePrefixSize \/ ~Genuine(null_ciphertext)
        THEN {Failed}
        ELSE CopiedOut(SubSeq(null_ciphertext, HashSize + 1, Len(null_ciphertext)))

-----------------------------------------------------------------------------

Init ==
    /\ stage = "plain"
    /\ sender \in Perspective /\ receiver = sender
    /\ plaintext \in Plaintexts
    /\ inPlace \in BOOLEAN
    /\ room \in Rooms
    /\ packet = <<>> /\ damaged = FALSE /\ outcome = Failed

\* A refusal leaves no packet; what the output holds by then, the prefix if only
\* QUICHE's encrypter refused, is not looked at by the caller.
Encrypt ==
    /\ stage = "plain"
    /\ \/ NoRoom /\ stage' = "refused" /\ UNCHANGED packet
       \/ ~NoRoom /\ stage' = "sent" /\ packet' = EncryptPacket
    /\ UNCHANGED <<sender, receiver, plaintext, inPlace, room, damaged,
                   outcome>>

\* The packet arrives, at the peer or reflected to its sender; whole, with
\* one byte changed, or cut short.
Arrive ==
    /\ stage = "sent"
    /\ stage' = "arrived"
    /\ receiver' \in Perspective
    /\ \/ damaged' = FALSE /\ UNCHANGED packet
       \/ /\ damaged' = TRUE
          /\ \E i \in DOMAIN packet :
                \/ packet' = [packet EXCEPT ![i] = Flipped]
                \/ packet' = SubSeq(packet, 1, i - 1)
    /\ UNCHANGED <<sender, plaintext, inPlace, room, outcome>>

Decrypt ==
    /\ stage = "arrived"
    /\ stage' = "done"
    /\ outcome' \in DecryptPacket
    /\ UNCHANGED <<sender, receiver, plaintext, inPlace, room, packet,
                   damaged>>

Next == Encrypt \/ Arrive \/ Decrypt

Spec == Init /\ [][Next]_vars

-----------------------------------------------------------------------------
(* Properties. *)

TypeOK ==
    /\ stage \in {"plain", "refused", "sent", "arrived", "done"}
    /\ sender \in Perspective /\ receiver \in Perspective
    /\ plaintext \in Plaintexts
    /\ room \in Rooms /\ inPlace \in BOOLEAN
    /\ damaged \in BOOLEAN
    /\ outcome \in Plaintexts \union {Failed}

\* What the peer decrypts from an unchanged packet is the plaintext, byte for
\* byte, even if both sides work in place (encrypter 19-27, decrypter 23-29).
RoundTrip ==
    stage = "done" /\ ~damaged /\ receiver = Peer(sender)
        => outcome = plaintext

\* Whatever is accepted is what the other side sent: a changed or shortened
\* packet, or one's own, is refused (decrypter 17-22, 27-35).
AcceptedIsGenuine ==
    stage = "done" /\ outcome # Failed
        => outcome = plaintext /\ receiver = Peer(sender)

\* The sizes the packet creator plans with are those of the encryption: it
\* fails exactly when the room is too small, a packet is as long as announced,
\* and a plaintext as long as allowed fits unless not even an empty one does
\* (encrypter 16-18, 30-47).
SizesAgree ==
    /\ stage = "sent" =>
          /\ Len(packet) = GetCiphertextSize(Len(plaintext))
          /\ Len(packet) <= room
          /\ Len(plaintext) <= GetMaxPlaintextSize(room)
    /\ stage = "refused" =>
          /\ room < GetCiphertextSize(Len(plaintext))
          /\ \/ Len(plaintext) > GetMaxPlaintextSize(room)
             \/ room < GetCiphertextSize(0)

\* Every packet, an empty one with a one-byte packet number included, has the
\* bytes header protection samples (comment in null_encrypter.h, 11-12).
SampleAvailable ==
    stage = "sent" => 1 + Len(packet) >= SampleOffset + SampleSize

=============================================================================
