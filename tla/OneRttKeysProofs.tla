--------------------------- MODULE OneRttKeysProofs ---------------------------
(***************************************************************************)
(* Proofs about OneRttKeys for any number of packets and key updates, in   *)
(* three parts: what is null and what is not, how the two directions of an *)
(* endpoint change keys, and which packets are refused.                    *)
(*                                                                         *)
(* The first part: every crypter that is installed is null exactly where   *)
(* the side's flag asks for it (KindsFollowFlag), which each of the        *)
(* overrides keeps up.  So every packet in the network is of its sender's  *)
(* kind, a packet is opened only by a decrypter equal to its key, and then *)
(* sender and receiver have the same flag.                                 *)
(***************************************************************************)
EXTENDS OneRttKeys, TLAPS

\* Is key k, if there is one, of the kind side s uses at level l?
Fits(s, l, k) == k = None \/ (k.kind = "null" <=> Replaces(s, l))

\* The strengthening: all crypters of a side are of the kind its flag asks
\* for, and so are all packets it sent.
CryptersFit ==
    \A s \in Perspective :
        /\ \A l \in Level :
              Fits(s, l, encrypter[s][l]) /\ Fits(s, l, decrypter[s][l])
        /\ Fits(s, OneRtt, previous[s]) /\ Fits(s, OneRtt, next[s])

PacketsFit ==
    \A s \in Perspective : \A n \in 1..Len(packets[s]) :
        /\ packets[s][n].key # None
        /\ Fits(s, OneRtt, packets[s][n].key)

\* The part of TypeOK about crypters.
CrypterTypes ==
    /\ encrypter \in [Perspective -> [Level -> Key]]
    /\ decrypter \in [Perspective -> [Level -> Key]]
    /\ previous \in [Perspective -> Key] /\ next \in [Perspective -> Key]
    /\ \A s \in Perspective, l \in Level :
          /\ encrypter[s][l] \in KeyBy(s) \union {None}
          /\ {decrypter[s][l], previous[s], next[s]}
                \subseteq KeyBy(Peer(s)) \union {None}

KindsFollowFlag == CryptersFit /\ PacketsFit

KeysInvariant == TypeOK /\ KindsFollowFlag /\ NothingOpensAcrossModes

-----------------------------------------------------------------------------
(* Keys. *)

\* The two perspectives are each other's peers.
LEMMA Peers ==
    ASSUME NEW s \in Perspective
    PROVE  Peer(s) \in Perspective /\ Peer(Peer(s)) = s /\ OneRtt \in Level
    BY DEF Perspective, Peer, OneRtt, Level

\* Every key belongs to Key, and none of them is None.
LEMMA KeyOfASide ==
    ASSUME NEW s \in Perspective, NEW k \in KeyBy(s)
    PROVE  k \in Key /\ k # None /\ k.kind \in {"aead", "null"}
    BY DEF Perspective, KeyBy, Key, None

LEMMA NoneIsNoKey == None \in Key /\ None.kind = "none"
    BY DEF Key, None

LEMMA AeadKeys ==
    ASSUME NEW s \in Perspective, NEW l \in Level, NEW e \in Nat
    PROVE  Aead(s, l, e) \in KeyBy(s) /\ Aead(s, l, e).kind = "aead"
    BY DEF KeyBy, Aead

LEMMA NullKeys ==
    ASSUME NEW s \in Perspective
    PROVE  Null(s) \in KeyBy(s) /\ Null(s).kind = "null"
    BY Peers DEF KeyBy, Null

\* What the overrides hand to the base class, or return in its place: a key
\* of the right owner, of the kind the flag asks for.
LEMMA InstalledKeys ==
    ASSUME NEW s \in Perspective, NEW l \in Level
    PROVE  /\ OnNewEncryptionKeyAvailable(s, l) \in KeyBy(s)
           /\ OnNewDecryptionKeyAvailable(s, l) \in KeyBy(Peer(s))
           /\ Fits(s, l, OnNewEncryptionKeyAvailable(s, l))
           /\ Fits(s, l, OnNewDecryptionKeyAvailable(s, l))
<1>1. CASE Replaces(s, l)
    BY <1>1, Peers, NullKeys
    DEF OnNewEncryptionKeyAvailable, OnNewDecryptionKeyAvailable, Fits,
        WebTransportNullEncrypter, WebTransportNullDecrypter
<1>2. CASE ~Replaces(s, l)
    BY <1>2, Peers, AeadKeys
    DEF OnNewEncryptionKeyAvailable, OnNewDecryptionKeyAvailable, Fits
<1>3. QED BY <1>1, <1>2

LEMMA UpdatedKeys ==
    ASSUME NEW s \in Perspective, TypeOK, KindsFollowFlag
    PROVE  /\ NextDecrypter(s) \in KeyBy(Peer(s))
           /\ Fits(s, OneRtt, NextDecrypter(s))
           /\ NextSecret(s) \in Nat
           /\ CreateCurrentOneRttEncrypter(s, NextSecret(s)) \in KeyBy(s)
           /\ Fits(s, OneRtt, CreateCurrentOneRttEncrypter(s, NextSecret(s)))
<1>1. /\ secret[s] \in Nat /\ secret[s] + 1 \in Nat
      /\ use_null_one_rtt_crypter[s] \in BOOLEAN
    BY DEF TypeOK
<1>2. next[s] \in KeyBy(Peer(s)) \union {None} /\ Fits(s, OneRtt, next[s])
    BY Peers DEF TypeOK, KindsFollowFlag, CryptersFit
<1>3. NextSecret(s) \in Nat
    BY <1>1 DEF NextSecret, AdvancedSecret
<1>4. CASE use_null_one_rtt_crypter[s]
    BY <1>2, <1>3, <1>4, Peers, NullKeys
    DEF NextDecrypter, AdvanceKeysAndCreateCurrentOneRttDecrypter,
        CreateCurrentOneRttEncrypter, Fits, Replaces,
        WebTransportNullEncrypter, WebTransportNullDecrypter
<1>5. CASE ~use_null_one_rtt_crypter[s]
    BY <1>1, <1>2, <1>3, <1>5, Peers, AeadKeys
    DEF NextDecrypter, AdvanceKeysAndCreateCurrentOneRttDecrypter,
        CreateCurrentOneRttEncrypter, Fits, Replaces
<1>6. QED BY <1>3, <1>4, <1>5

\* A packet opened by a key that fits the receiver was sent by a side with
\* the same flag.
LEMMA OpenedAcross ==
    ASSUME NEW s \in Perspective, TypeOK, KindsFollowFlag,
           NEW n \in 1..Len(packets[Peer(s)]),
           NEW k, Fits(s, OneRtt, k), packets[Peer(s)][n].key = k
    PROVE  ModesAgree
<1>1. k # None /\ Fits(Peer(s), OneRtt, k)
    BY Peers DEF KindsFollowFlag, PacketsFit
<1>2. use_null_one_rtt_crypter[s] = use_null_one_rtt_crypter[Peer(s)]
    BY <1>1, Peers DEF Fits, Replaces, TypeOK
<1>3. QED BY <1>2 DEF ModesAgree, Perspective, Peer

-----------------------------------------------------------------------------
(* Steps. *)

\* A packet sent under a key that fits keeps the packets in order.
LEMMA SendKeeps ==
    ASSUME TypeOK, PacketsFit, NEW s \in Perspective,
           NEW key \in KeyBy(s), Fits(s, OneRtt, key),
           SendWith(s, key), UNCHANGED use_null_one_rtt_crypter
    PROVE  /\ packets' \in
                 [Perspective -> Seq([key : Key, phase : BOOLEAN, ack : SUBSET Nat])]
           /\ lowest' \in [Perspective -> Nat]
           /\ PacketsFit'
<1> DEFINE Packet == [key : Key, phase : BOOLEAN, ack : SUBSET Nat]
           p == [key |-> key, phase |-> phase[s], ack |-> opened[s]]
<1>1. packets \in [Perspective -> Seq(Packet)] /\ p \in Packet /\ p.key = key
    BY KeyOfASide DEF TypeOK
<1>2. packets' = [packets EXCEPT ![s] = Append(packets[s], p)]
    BY DEF SendWith
<1>3. lowest' \in [Perspective -> Nat]
    <2>1. Len(packets[s]) + 1 \in Nat
        <3>1. packets[s] \in Seq(Packet) BY <1>1
        <3> HIDE DEF Packet
        <3>2. QED BY <3>1, SMT
    <2>2. QED BY <2>1 DEF SendWith, TypeOK
<1> HIDE DEF Packet, p
<1>4. packets' \in [Perspective -> Seq(Packet)]
    BY <1>1, <1>2
<1>5. PacketsFit'
    <2> SUFFICES ASSUME NEW t \in Perspective, NEW n \in 1..Len(packets'[t])
                 PROVE  /\ packets'[t][n].key # None
                        /\ Fits(t, OneRtt, packets'[t][n].key)
        BY DEF PacketsFit, Fits, Replaces
    <2>1. \/ packets'[t][n].key = key /\ t = s
          \/ n \in 1..Len(packets[t]) /\ packets'[t][n] = packets[t][n]
        <3>1. CASE t = s
            <4>1. packets'[t] = Append(packets[t], p) /\ packets[t] \in Seq(Packet)
                BY <1>1, <1>2, <3>1
            <4>2. QED BY <1>1, <3>1, <4>1
        <3>2. CASE t # s
            BY <1>1, <1>2, <3>2
        <3>3. QED BY <3>1, <3>2
    <2>2. key # None
        BY KeyOfASide
    <2>3. QED
        BY <2>1, <2>2 DEF PacketsFit
<1>6. QED BY <1>3, <1>4, <1>5 DEF Packet

\* One side's crypters are replaced by ones that are its own and fit.
LEMMA CryptersAfter ==
    ASSUME TypeOK, CryptersFit, NEW s \in Perspective,
           NEW e \in [Level -> KeyBy(s) \union {None}],
           NEW d \in [Level -> KeyBy(Peer(s)) \union {None}],
           NEW p \in KeyBy(Peer(s)) \union {None},
           NEW x \in KeyBy(Peer(s)) \union {None},
           \A l \in Level : Fits(s, l, e[l]) /\ Fits(s, l, d[l]),
           Fits(s, OneRtt, p), Fits(s, OneRtt, x),
           encrypter' = [encrypter EXCEPT ![s] = e],
           decrypter' = [decrypter EXCEPT ![s] = d],
           previous' = [previous EXCEPT ![s] = p],
           next' = [next EXCEPT ![s] = x],
           UNCHANGED use_null_one_rtt_crypter
    PROVE  CrypterTypes' /\ CryptersFit'
<1>1. KeyBy(s) \union {None} \subseteq Key /\ KeyBy(Peer(s)) \union {None} \subseteq Key
    BY KeyOfASide, NoneIsNoKey, Peers
<1>2. e \in [Level -> Key] /\ d \in [Level -> Key] /\ p \in Key /\ x \in Key
    BY <1>1
<1>3. /\ encrypter \in [Perspective -> [Level -> Key]]
      /\ decrypter \in [Perspective -> [Level -> Key]]
      /\ previous \in [Perspective -> Key] /\ next \in [Perspective -> Key]
    BY DEF TypeOK
<1>4. /\ encrypter' \in [Perspective -> [Level -> Key]]
      /\ decrypter' \in [Perspective -> [Level -> Key]]
      /\ previous' \in [Perspective -> Key] /\ next' \in [Perspective -> Key]
    BY <1>2, <1>3
<1>5. \A t \in Perspective :
        IF t = s
        THEN /\ encrypter'[t] = e /\ decrypter'[t] = d
             /\ previous'[t] = p /\ next'[t] = x
        ELSE /\ encrypter'[t] = encrypter[t] /\ decrypter'[t] = decrypter[t]
             /\ previous'[t] = previous[t] /\ next'[t] = next[t]
    BY <1>3
<1>6. CrypterTypes'
    BY <1>4, <1>5 DEF CrypterTypes, TypeOK
<1>7. CryptersFit'
    <2>1. \A t \in Perspective :
            /\ \A l \in Level :
                  Fits(t, l, encrypter'[t][l]) /\ Fits(t, l, decrypter'[t][l])
            /\ Fits(t, OneRtt, previous'[t]) /\ Fits(t, OneRtt, next'[t])
        BY <1>5 DEF CryptersFit
    <2>2. QED
        BY <2>1 DEF CryptersFit, Fits, Replaces
<1>8. QED BY <1>6, <1>7

\* Both directions move to the next key phase.
LEMMA UpdateKeeps ==
    ASSUME TypeOK, KindsFollowFlag, NEW s \in Perspective, NEW n \in Nat,
           Complete(s), DoKeyUpdate(s, n), UNCHANGED use_null_one_rtt_crypter
    PROVE  /\ CrypterTypes' /\ CryptersFit'
           /\ phase' \in [Perspective -> BOOLEAN]
           /\ first' \in [Perspective -> Nat] /\ lowest' \in [Perspective -> Nat]
           /\ secret' \in [Perspective -> Nat]
<1> DEFINE e == [encrypter[s] EXCEPT ![OneRtt] =
                    CreateCurrentOneRttEncrypter(s, NextSecret(s))]
           d == [decrypter[s] EXCEPT ![OneRtt] = NextDecrypter(s)]
<1>1. /\ encrypter' = [encrypter EXCEPT ![s] = e]
      /\ decrypter' = [decrypter EXCEPT ![s] = d]
      /\ previous' = [previous EXCEPT ![s] = decrypter[s][OneRtt]]
      /\ next' = [next EXCEPT ![s] = None]
    BY DEF DoKeyUpdate
<1>2. /\ encrypter[s] \in [Level -> KeyBy(s) \union {None}]
      /\ decrypter[s] \in [Level -> KeyBy(Peer(s)) \union {None}]
      /\ \A l \in Level : Fits(s, l, encrypter[s][l]) /\ Fits(s, l, decrypter[s][l])
    BY DEF TypeOK, KindsFollowFlag, CryptersFit
<1>3. /\ CreateCurrentOneRttEncrypter(s, NextSecret(s)) \in KeyBy(s)
      /\ NextDecrypter(s) \in KeyBy(Peer(s))
      /\ Fits(s, OneRtt, CreateCurrentOneRttEncrypter(s, NextSecret(s)))
      /\ Fits(s, OneRtt, NextDecrypter(s)) /\ NextSecret(s) \in Nat
    BY UpdatedKeys
<1>4. /\ e \in [Level -> KeyBy(s) \union {None}]
      /\ d \in [Level -> KeyBy(Peer(s)) \union {None}]
      /\ \A l \in Level : Fits(s, l, e[l]) /\ Fits(s, l, d[l])
    BY <1>2, <1>3, KeyOfASide, Peers
<1>5. /\ decrypter[s][OneRtt] \in KeyBy(Peer(s)) \union {None}
      /\ Fits(s, OneRtt, decrypter[s][OneRtt]) /\ Fits(s, OneRtt, None)
    BY <1>2, Peers DEF Fits
<1> HIDE DEF e, d
<1>6. CrypterTypes' /\ CryptersFit'
    BY <1>1, <1>4, <1>5, CryptersAfter DEF KindsFollowFlag
<1>7. QED BY <1>3, <1>6 DEF DoKeyUpdate, TypeOK

\* The keys that the handshake brings.
LEMMA HandshakeKeeps ==
    ASSUME KeysInvariant, Handshake
    PROVE  KeysInvariant'
<1> USE DEF KeysInvariant
<1>1. ASSUME NEW s \in Perspective,
             NEW e \in [Level -> KeyBy(s) \union {None}],
             NEW d \in [Level -> KeyBy(Peer(s)) \union {None}],
             \A l \in Level : Fits(s, l, e[l]) /\ Fits(s, l, d[l]),
               encrypter' = [encrypter EXCEPT ![s] = e],
             decrypter' = [decrypter EXCEPT ![s] = d],
             UNCHANGED <<use_null_one_rtt_crypter, previous, next>>
      PROVE  CrypterTypes' /\ CryptersFit'
    <2>1. /\ previous[s] \in KeyBy(Peer(s)) \union {None}
          /\ next[s] \in KeyBy(Peer(s)) \union {None}
          /\ Fits(s, OneRtt, previous[s]) /\ Fits(s, OneRtt, next[s])
        BY Peers DEF TypeOK, KindsFollowFlag, CryptersFit
    <2>2. previous' = [previous EXCEPT ![s] = previous[s]]
          /\ next' = [next EXCEPT ![s] = next[s]]
        BY <1>1 DEF TypeOK
    <2>3. QED BY <1>1, <2>1, <2>2, CryptersAfter DEF KindsFollowFlag
<1>2. \A s \in Perspective :
        /\ encrypter[s] \in [Level -> KeyBy(s) \union {None}]
        /\ decrypter[s] \in [Level -> KeyBy(Peer(s)) \union {None}]
        /\ \A l \in Level : Fits(s, l, encrypter[s][l]) /\ Fits(s, l, decrypter[s][l])
    BY DEF TypeOK, KindsFollowFlag, CryptersFit
<1>3. /\ "IS_CLIENT" \in Perspective /\ "IS_SERVER" \in Perspective
      /\ "ENCRYPTION_HANDSHAKE" \in Level /\ OneRtt \in Level
      /\ OneRtt # "ENCRYPTION_HANDSHAKE"
    BY DEF Perspective, Level, OneRtt
<1>4. CASE ServerHello
    <2> DEFINE s == "IS_SERVER"
               e == [l \in Level |-> OnNewEncryptionKeyAvailable(s, l)]
               d == [decrypter[s] EXCEPT !["ENCRYPTION_HANDSHAKE"] =
                        OnNewDecryptionKeyAvailable(s, "ENCRYPTION_HANDSHAKE")]
    <2>1. /\ e \in [Level -> KeyBy(s) \union {None}]
          /\ \A l \in Level : Fits(s, l, e[l])
            BY <1>3, InstalledKeys, KeyOfASide
    <2>2. /\ d \in [Level -> KeyBy(Peer(s)) \union {None}]
          /\ \A l \in Level : Fits(s, l, d[l])
        BY <1>2, <1>3, InstalledKeys
    <2>3. /\ encrypter' = [encrypter EXCEPT ![s] = e]
          /\ decrypter' = [decrypter EXCEPT ![s] = d]
          /\ SendWith(s, OnNewEncryptionKeyAvailable(s, OneRtt))
          /\ UNCHANGED <<use_null_one_rtt_crypter, previous, next, phase, first,
                         acked, opened, refused, updates, secret>>
        BY <1>4 DEF ServerHello
    <2> HIDE DEF e, d
    <2>4. CrypterTypes' /\ CryptersFit'
        BY <1>1, <1>3, <2>1, <2>2, <2>3
    <2>5. /\ packets' \in
                [Perspective -> Seq([key : Key, phase : BOOLEAN, ack : SUBSET Nat])]
          /\ lowest' \in [Perspective -> Nat]
          /\ PacketsFit'
        BY <1>3, <2>3, InstalledKeys, SendKeeps DEF KindsFollowFlag
    <2>6. QED
        BY <2>3, <2>4, <2>5
        DEF TypeOK, CrypterTypes, KindsFollowFlag, NothingOpensAcrossModes, ModesAgree
<1>5. CASE ServerHelloReceived
    <2> DEFINE s == "IS_CLIENT"
               e == [encrypter[s] EXCEPT !["ENCRYPTION_HANDSHAKE"] =
                        OnNewEncryptionKeyAvailable(s, "ENCRYPTION_HANDSHAKE")]
               d == [decrypter[s] EXCEPT !["ENCRYPTION_HANDSHAKE"] =
                        OnNewDecryptionKeyAvailable(s, "ENCRYPTION_HANDSHAKE")]
    <2>1. /\ e \in [Level -> KeyBy(s) \union {None}]
          /\ d \in [Level -> KeyBy(Peer(s)) \union {None}]
          /\ \A l \in Level : Fits(s, l, e[l]) /\ Fits(s, l, d[l])
        BY <1>2, <1>3, InstalledKeys
    <2>2. /\ encrypter' = [encrypter EXCEPT ![s] = e]
          /\ decrypter' = [decrypter EXCEPT ![s] = d]
          /\ UNCHANGED <<use_null_one_rtt_crypter, previous, next, phase, first,
                         connectionVars, secret>>
        BY <1>5 DEF ServerHelloReceived
    <2> HIDE DEF e, d
    <2>3. CrypterTypes' /\ CryptersFit'
        BY <1>1, <1>3, <2>1, <2>2
    <2>4. PacketsFit'
        BY <2>2 DEF KindsFollowFlag, PacketsFit, Fits, Replaces, connectionVars
    <2>5. QED
        BY <2>2, <2>3, <2>4
        DEF TypeOK, CrypterTypes, KindsFollowFlag, NothingOpensAcrossModes,
            ModesAgree, connectionVars
<1>6. CASE ServerFinishedReceived
    <2> DEFINE s == "IS_CLIENT"
               e == [encrypter[s] EXCEPT ![OneRtt] = OnNewEncryptionKeyAvailable(s, OneRtt)]
               d == [decrypter[s] EXCEPT ![OneRtt] = OnNewDecryptionKeyAvailable(s, OneRtt)]
    <2>1. /\ e \in [Level -> KeyBy(s) \union {None}]
          /\ d \in [Level -> KeyBy(Peer(s)) \union {None}]
          /\ \A l \in Level : Fits(s, l, e[l]) /\ Fits(s, l, d[l])
            BY <1>2, <1>3, InstalledKeys, KeyOfASide
    <2>2. /\ encrypter' = [encrypter EXCEPT ![s] = e]
          /\ decrypter' = [decrypter EXCEPT ![s] = d]
          /\ SendWith(s, OnNewEncryptionKeyAvailable(s, OneRtt))
          /\ UNCHANGED <<use_null_one_rtt_crypter, previous, next, phase, first,
                         acked, opened, refused, updates, secret>>
        BY <1>6 DEF ServerFinishedReceived
    <2> HIDE DEF e, d
    <2>3. CrypterTypes' /\ CryptersFit'
        BY <1>1, <1>3, <2>1, <2>2
    <2>4. /\ packets' \in
                [Perspective -> Seq([key : Key, phase : BOOLEAN, ack : SUBSET Nat])]
          /\ lowest' \in [Perspective -> Nat]
          /\ PacketsFit'
        BY <1>3, <2>2, InstalledKeys, SendKeeps DEF KindsFollowFlag
    <2>5. QED
        BY <2>2, <2>3, <2>4
        DEF TypeOK, CrypterTypes, KindsFollowFlag, NothingOpensAcrossModes, ModesAgree
<1>7. CASE ClientFinishedReceived
    <2> DEFINE s == "IS_SERVER"
               e == encrypter[s]
               d == [decrypter[s] EXCEPT ![OneRtt] = OnNewDecryptionKeyAvailable(s, OneRtt)]
    <2>1. /\ e \in [Level -> KeyBy(s) \union {None}]
          /\ d \in [Level -> KeyBy(Peer(s)) \union {None}]
          /\ \A l \in Level : Fits(s, l, e[l]) /\ Fits(s, l, d[l])
        BY <1>2, <1>3, InstalledKeys
    <2>2. /\ encrypter' = [encrypter EXCEPT ![s] = e]
          /\ decrypter' = [decrypter EXCEPT ![s] = d]
          /\ UNCHANGED <<use_null_one_rtt_crypter, previous, next, phase, first,
                         connectionVars, secret>>
        BY <1>7 DEF ClientFinishedReceived, TypeOK
    <2> HIDE DEF e, d
    <2>3. CrypterTypes' /\ CryptersFit'
        BY <1>1, <1>3, <2>1, <2>2
    <2>4. PacketsFit'
        BY <2>2 DEF KindsFollowFlag, PacketsFit, Fits, Replaces, connectionVars
    <2>5. QED
        BY <2>2, <2>3, <2>4
        DEF TypeOK, CrypterTypes, KindsFollowFlag, NothingOpensAcrossModes,
            ModesAgree, connectionVars
<1>8. QED BY <1>4, <1>5, <1>6, <1>7 DEF Handshake

\* One side makes the decrypter of the next key phase, or forgets that of the
\* previous one.
LEMMA ReplaceKeeps ==
    ASSUME TypeOK, KindsFollowFlag, NEW s \in Perspective,
           NEW p \in KeyBy(Peer(s)) \union {None}, Fits(s, OneRtt, p),
           NEW x \in KeyBy(Peer(s)) \union {None}, Fits(s, OneRtt, x),
           previous' = [previous EXCEPT ![s] = p],
           next' = [next EXCEPT ![s] = x],
           UNCHANGED <<use_null_one_rtt_crypter, encrypter, decrypter>>
    PROVE  CrypterTypes' /\ CryptersFit'
<1>1. /\ encrypter[s] \in [Level -> KeyBy(s) \union {None}]
      /\ decrypter[s] \in [Level -> KeyBy(Peer(s)) \union {None}]
      /\ \A l \in Level : Fits(s, l, encrypter[s][l]) /\ Fits(s, l, decrypter[s][l])
    BY DEF TypeOK, KindsFollowFlag, CryptersFit
<1>2. /\ encrypter' = [encrypter EXCEPT ![s] = encrypter[s]]
      /\ decrypter' = [decrypter EXCEPT ![s] = decrypter[s]]
    BY DEF TypeOK
<1>3. QED BY <1>1, <1>2, CryptersAfter DEF KindsFollowFlag

\* Everything that happens to one side from then on.
LEMMA SideKeeps ==
    ASSUME KeysInvariant, NEW s \in Perspective,
           \/ Send(s) \/ Receive(s) \/ InitiateKeyUpdate(s)
           \/ ReceiveDamaged(s) \/ DiscardPreviousOneRttKeys(s)
    PROVE  KeysInvariant'
<1> USE DEF KeysInvariant
<1>1. CASE Send(s)
    <2>1. encrypter[s][OneRtt] \in KeyBy(s) /\ Fits(s, OneRtt, encrypter[s][OneRtt])
        BY <1>1, Peers DEF Send, TypeOK, KindsFollowFlag, CryptersFit
    <2>2. UNCHANGED <<use_null_one_rtt_crypter, framerVars, acked, opened,
                      refused, updates, secret>>
        BY <1>1 DEF Send
    <2>3. /\ packets' \in
                [Perspective -> Seq([key : Key, phase : BOOLEAN, ack : SUBSET Nat])]
          /\ lowest' \in [Perspective -> Nat]
          /\ PacketsFit'
        BY <1>1, <2>1, <2>2, SendKeeps DEF Send, KindsFollowFlag
    <2>4. CryptersFit'
        BY <2>2 DEF KindsFollowFlag, CryptersFit, Fits, Replaces, framerVars
    <2>5. QED
        BY <2>2, <2>3, <2>4
        DEF TypeOK, KindsFollowFlag, NothingOpensAcrossModes, ModesAgree, framerVars
<1>2. CASE InitiateKeyUpdate(s)
    <2>1. /\ Complete(s) /\ DoKeyUpdate(s, 0)
          /\ updates' \in [Perspective -> Nat]
          /\ UNCHANGED <<use_null_one_rtt_crypter, packets, acked, opened, refused>>
        BY <1>2 DEF InitiateKeyUpdate, TypeOK
    <2>2. /\ CrypterTypes' /\ CryptersFit'
          /\ phase' \in [Perspective -> BOOLEAN]
          /\ first' \in [Perspective -> Nat] /\ lowest' \in [Perspective -> Nat]
          /\ secret' \in [Perspective -> Nat]
        BY <2>1, UpdateKeeps
    <2>3. PacketsFit'
        BY <2>1 DEF KindsFollowFlag, PacketsFit, Fits, Replaces
    <2>4. QED
        BY <2>1, <2>2, <2>3
        DEF TypeOK, CrypterTypes, KindsFollowFlag, NothingOpensAcrossModes, ModesAgree
<1>3. /\ previous[s] \in KeyBy(Peer(s)) \union {None}
      /\ next[s] \in KeyBy(Peer(s)) \union {None}
      /\ Fits(s, OneRtt, previous[s]) /\ Fits(s, OneRtt, next[s])
      /\ Fits(s, OneRtt, None)
      /\ previous = [previous EXCEPT ![s] = previous[s]]
      /\ next = [next EXCEPT ![s] = next[s]]
    BY Peers DEF TypeOK, KindsFollowFlag, CryptersFit, Fits
<1>4. /\ NextDecrypter(s) \in KeyBy(Peer(s)) \union {None}
      /\ Fits(s, OneRtt, NextDecrypter(s)) /\ NextSecret(s) \in Nat
    BY UpdatedKeys
<1>5. CASE ReceiveDamaged(s)
    <2>1. /\ previous' = [previous EXCEPT ![s] = previous[s]]
          /\ next' = [next EXCEPT ![s] = NextDecrypter(s)]
          /\ secret' = [secret EXCEPT ![s] = NextSecret(s)]
          /\ UNCHANGED <<use_null_one_rtt_crypter, encrypter, decrypter, phase,
                         first, connectionVars>>
        BY <1>3, <1>5 DEF ReceiveDamaged
    <2>2. CrypterTypes' /\ CryptersFit'
        BY <1>3, <1>4, <2>1, ReplaceKeeps
    <2>3. secret' \in [Perspective -> Nat]
        BY <1>4, <2>1 DEF TypeOK
    <2>4. PacketsFit'
        BY <2>1 DEF KindsFollowFlag, PacketsFit, Fits, Replaces, connectionVars
    <2>5. QED
        BY <2>1, <2>2, <2>3, <2>4
        DEF TypeOK, CrypterTypes, KindsFollowFlag, NothingOpensAcrossModes,
            ModesAgree, connectionVars
<1>6. CASE DiscardPreviousOneRttKeys(s)
    <2>1. /\ previous' = [previous EXCEPT ![s] = None]
          /\ next' = [next EXCEPT ![s] = next[s]]
          /\ UNCHANGED <<use_null_one_rtt_crypter, encrypter, decrypter, phase,
                         first, connectionVars, secret>>
        BY <1>3, <1>6 DEF DiscardPreviousOneRttKeys
    <2>2. CrypterTypes' /\ CryptersFit'
        BY <1>3, <2>1, ReplaceKeeps
    <2>3. PacketsFit'
        BY <2>1 DEF KindsFollowFlag, PacketsFit, Fits, Replaces, connectionVars
    <2>4. QED
        BY <2>1, <2>2, <2>3
        DEF TypeOK, CrypterTypes, KindsFollowFlag, NothingOpensAcrossModes,
            ModesAgree, connectionVars
<1>7. ASSUME NEW n \in 1..MaxPackets, ReceivePacket(s, n) PROVE KeysInvariant'
    <2>1. /\ Complete(s) /\ n \in Nat
          /\ n \in 1..Len(packets[Peer(s)])
          /\ ReceiveCurrent(s, n) \/ ReceivePrevious(s, n) \/ ReceiveNext(s, n)
          /\ UNCHANGED use_null_one_rtt_crypter
        BY <1>7 DEF ReceivePacket
    <2>2. ASSUME Open(s, n), NEW k, Fits(s, OneRtt, k),
                 packets[Peer(s)][n].key = k
          PROVE  /\ opened' \in [Perspective -> SUBSET Nat]
                 /\ acked' \in [Perspective -> SUBSET Nat]
                 /\ NothingOpensAcrossModes' /\ PacketsFit'
                 /\ UNCHANGED <<packets, refused, updates>>
        <3>1. ModesAgree
            BY <2>1, <2>2, OpenedAcross
        <3>2. packets[Peer(s)][n].ack \in SUBSET Nat
            <4> DEFINE Packet == [key : Key, phase : BOOLEAN, ack : SUBSET Nat]
            <4>1. packets[Peer(s)] \in Seq(Packet)
                BY Peers DEF TypeOK
            <4>2. packets[Peer(s)][n] \in Packet
                <5> HIDE DEF Packet
                <5>1. QED BY <2>1, <4>1
            <4>3. QED BY <4>2
        <3>3. NothingOpensAcrossModes'
            BY <2>1, <3>1 DEF NothingOpensAcrossModes, ModesAgree
        <3>4. PacketsFit'
            BY <2>1, <2>2 DEF Open, KindsFollowFlag, PacketsFit, Fits, Replaces
        <3>5. QED BY <2>1, <2>2, <3>2, <3>3, <3>4 DEF Open, TypeOK
    <2>3. ASSUME Refuse(s, n)
          PROVE  /\ refused' \in [Perspective -> SUBSET Nat]
                 /\ NothingOpensAcrossModes' /\ PacketsFit'
                 /\ UNCHANGED <<packets, lowest, acked, opened, updates>>
        <3>1. refused' \in [Perspective -> SUBSET Nat]
            <4>1. refused[s] \union {n} \in SUBSET Nat
                BY <2>1 DEF TypeOK
            <4>2. QED BY <2>3, <4>1 DEF Refuse, TypeOK
        <3>2. UNCHANGED <<packets, lowest, acked, opened, updates>>
            BY <2>3 DEF Refuse
        <3>3. NothingOpensAcrossModes'
            BY <2>1, <3>2 DEF NothingOpensAcrossModes, ModesAgree
        <3>4. PacketsFit'
            BY <2>1, <3>2 DEF KindsFollowFlag, PacketsFit, Fits, Replaces
        <3>5. QED BY <3>1, <3>2, <3>3, <3>4
    <2>4. Fits(s, OneRtt, decrypter[s][OneRtt])
        BY Peers DEF KindsFollowFlag, CryptersFit
    <2>5. CASE ReceiveCurrent(s, n)
        <3>1. /\ first' \in [Perspective -> Nat]
              /\ UNCHANGED <<encrypter, decrypter, previous, next, phase, secret>>
            <4>1. first \in [Perspective -> Nat]
                BY DEF TypeOK
            <4>2. \/ first' = [first EXCEPT ![s] = IF @ = 0 THEN n ELSE @]
                  \/ UNCHANGED first
                BY <2>5 DEF ReceiveCurrent
            <4>3. first' \in [Perspective -> Nat]
                BY <2>1, <4>1, <4>2
            <4>4. QED BY <2>5, <4>3 DEF ReceiveCurrent
        <3>2. CryptersFit'
            BY <2>1, <3>1 DEF KindsFollowFlag, CryptersFit, Fits, Replaces
        <3>3. CASE /\ packets[Peer(s)][n].key = decrypter[s][OneRtt]
                   /\ Open(s, n) /\ UNCHANGED lowest
            BY <2>1, <2>2, <2>4, <3>1, <3>2, <3>3 DEF TypeOK, KindsFollowFlag
        <3>4. CASE Refuse(s, n)
            BY <2>1, <2>3, <3>1, <3>2, <3>4 DEF TypeOK, KindsFollowFlag
        <3>5. QED BY <2>5, <3>3, <3>4 DEF ReceiveCurrent
    <2>6. CASE ReceivePrevious(s, n)
        <3>1. UNCHANGED <<framerVars, secret>>
            BY <2>6 DEF ReceivePrevious
        <3>2. CryptersFit'
            BY <2>1, <3>1 DEF KindsFollowFlag, CryptersFit, Fits, Replaces, framerVars
        <3>3. CASE /\ packets[Peer(s)][n].key = previous[s]
                   /\ Open(s, n) /\ UNCHANGED lowest
            <4>1. /\ opened' \in [Perspective -> SUBSET Nat]
                  /\ acked' \in [Perspective -> SUBSET Nat]
                  /\ NothingOpensAcrossModes' /\ PacketsFit'
                  /\ UNCHANGED <<packets, refused, updates>>
                BY <1>3, <2>2, <3>3
            <4>2. TypeOK'
                BY <2>1, <3>1, <3>3, <4>1 DEF TypeOK, framerVars
            <4>3. QED BY <3>2, <4>1, <4>2 DEF KindsFollowFlag
        <3>4. CASE Refuse(s, n)
            BY <2>1, <2>3, <3>1, <3>2, <3>4 DEF TypeOK, KindsFollowFlag, framerVars
        <3>5. QED BY <2>6, <3>3, <3>4 DEF ReceivePrevious
    <2>7. CASE ReceiveNext(s, n)
        <3>1. CASE /\ packets[Peer(s)][n].key = NextDecrypter(s)
                   /\ DoKeyUpdate(s, n) /\ Open(s, n)
            <4>1. /\ CrypterTypes' /\ CryptersFit'
                  /\ phase' \in [Perspective -> BOOLEAN]
                  /\ first' \in [Perspective -> Nat]
                  /\ lowest' \in [Perspective -> Nat]
                  /\ secret' \in [Perspective -> Nat]
                BY <2>1, <3>1, UpdateKeeps
            <4>2. QED
                BY <1>4, <2>1, <2>2, <3>1, <4>1
                DEF TypeOK, CrypterTypes, KindsFollowFlag
        <3>2. CASE /\ next' = [next EXCEPT ![s] = NextDecrypter(s)]
                   /\ secret' = [secret EXCEPT ![s] = NextSecret(s)]
                   /\ Refuse(s, n)
                   /\ UNCHANGED <<encrypter, decrypter, previous, phase, first>>
            <4>1. CrypterTypes' /\ CryptersFit'
                BY <1>3, <1>4, <2>1, <3>2, ReplaceKeeps
            <4>2. secret' \in [Perspective -> Nat]
                BY <1>4, <3>2 DEF TypeOK
            <4>3. QED
                BY <2>1, <2>3, <3>2, <4>1, <4>2
                DEF TypeOK, CrypterTypes, KindsFollowFlag
        <3>3. QED BY <2>7, <3>1, <3>2 DEF ReceiveNext
    <2>8. QED BY <2>1, <2>5, <2>6, <2>7
<1>8. CASE Receive(s)
    BY <1>7, <1>8 DEF Receive
<1>9. QED BY <1>1, <1>2, <1>5, <1>6, <1>8

-----------------------------------------------------------------------------
(* The invariant and what follows from it. *)

LEMMA InitEstablishes == Init => KeysInvariant
<1> SUFFICES ASSUME Init PROVE KeysInvariant
    OBVIOUS
<1>1. \A s \in Perspective, l \in Level :
        /\ encrypter[s][l] = None /\ decrypter[s][l] = None
        /\ previous[s] = None /\ next[s] = None
        /\ packets[s] = <<>> /\ opened[s] = {}
    BY DEF Init, Sides
<1>2. TypeOK
    BY NoneIsNoKey DEF Init, Sides, TypeOK
<1>3. CryptersFit
    BY <1>1, Peers DEF CryptersFit, Fits
<1>4. PacketsFit
    BY <1>1, Peers DEF PacketsFit
<1>5. QED BY <1>1, <1>2, <1>3, <1>4, Peers
    DEF KeysInvariant, KindsFollowFlag, NothingOpensAcrossModes

LEMMA NextPreserves == KeysInvariant /\ [Next]_vars => KeysInvariant'
<1>1. ASSUME KeysInvariant, UNCHANGED vars PROVE KeysInvariant'
    <2>1. TypeOK'
        BY <1>1 DEF vars, framerVars, connectionVars, KeysInvariant, TypeOK
    <2>2. CryptersFit'
        BY <1>1 DEF vars, framerVars, KeysInvariant, KindsFollowFlag, CryptersFit,
                    Fits, Replaces
    <2>3. PacketsFit'
        BY <1>1 DEF vars, connectionVars, KeysInvariant, KindsFollowFlag, PacketsFit,
                    Fits, Replaces
    <2>4. NothingOpensAcrossModes'
        BY <1>1 DEF vars, connectionVars, KeysInvariant, NothingOpensAcrossModes,
                    ModesAgree
    <2>5. QED BY <2>1, <2>2, <2>3, <2>4 DEF KeysInvariant, KindsFollowFlag
<1>2. QED BY <1>1, HandshakeKeeps, SideKeeps DEF Next

\* The null crypters stay where the flags put them: the invariant holds of
\* every reachable state, whatever the handshake, the network and the key
\* updates of both sides do.
THEOREM KeysInvariantHolds == Spec => []KeysInvariant
    BY InitEstablishes, NextPreserves, PTL DEF Spec

\* Every variable keeps its type, and every crypter its owner: encrypters
\* the side's own, decrypters the peer's (the perspectives handed to the
\* null crypters).
THEOREM TypeCorrect == Spec => []TypeOK
<1>1. KeysInvariant => TypeOK
    BY DEF KeysInvariant
<1>2. QED BY <1>1, KeysInvariantHolds, PTL

\* The failing rows of the mode matrix: a null and a standard endpoint never
\* exchange a 1-RTT packet, before or after any number of key updates.
THEOREM ModesDoNotMix == Spec => []NothingOpensAcrossModes
<1>1. KeysInvariant => NothingOpensAcrossModes
    BY DEF KeysInvariant
<1>2. QED BY <1>1, KeysInvariantHolds, PTL

\* The flag decides what 1-RTT packets are sealed with, through every key
\* update, and the handshake is never null.
THEOREM NullWhereAsked == Spec => []NullExactlyWhereAsked
<1>1. KeysInvariant => NullExactlyWhereAsked
    <2> SUFFICES ASSUME KeysInvariant, NEW s \in Perspective
                 PROVE  /\ \A n \in 1..Len(packets[s]) :
                              packets[s][n].key.kind = "null"
                                 <=> use_null_one_rtt_crypter[s]
                        /\ encrypter[s]["ENCRYPTION_HANDSHAKE"] # None =>
                              encrypter[s]["ENCRYPTION_HANDSHAKE"].kind = "aead"
        BY DEF NullExactlyWhereAsked
    <2>1. \A n \in 1..Len(packets[s]) :
            packets[s][n].key.kind = "null" <=> use_null_one_rtt_crypter[s]
        BY DEF KeysInvariant, KindsFollowFlag, PacketsFit, Fits, Replaces, TypeOK
    <2>2. "ENCRYPTION_HANDSHAKE" \in Level /\ "ENCRYPTION_HANDSHAKE" # OneRtt
        BY DEF Level, OneRtt
    <2>3. /\ encrypter[s]["ENCRYPTION_HANDSHAKE"] \in KeyBy(s) \union {None}
          /\ Fits(s, "ENCRYPTION_HANDSHAKE", encrypter[s]["ENCRYPTION_HANDSHAKE"])
        BY <2>2 DEF KeysInvariant, TypeOK, KindsFollowFlag, CryptersFit
    <2>4. encrypter[s]["ENCRYPTION_HANDSHAKE"] # None =>
            encrypter[s]["ENCRYPTION_HANDSHAKE"].kind = "aead"
        BY <2>2, <2>3, KeyOfASide DEF Fits, Replaces
    <2>5. QED BY <2>1, <2>4
<1>2. QED BY <1>1, KeysInvariantHolds, PTL

-----------------------------------------------------------------------------
(***************************************************************************)
(* The two directions of an endpoint change keys together, for any number  *)
(* of packets and key updates.                                             *)
(*                                                                         *)
(* The decrypter of the next phase is made ahead of the update, for any    *)
(* packet that may be of that phase, and the secrets are advanced with it. *)
(* What keeps the directions in step is that the secrets are one ahead of  *)
(* the installed keys exactly while such a decrypter is kept: the          *)
(* encrypter, made from the secrets at the update, then meets it.          *)
(***************************************************************************)

\* The 1-RTT keys of side s: of one phase, with the secrets in that phase, or
\* one further while the next decrypter exists.
InStep(s) ==
    /\ use_null_one_rtt_crypter[s] =>
          /\ encrypter[s][OneRtt] \in {None, Null(s)}
          /\ decrypter[s][OneRtt] \in {None, Null(Peer(s))}
          /\ next[s] \in {None, Null(Peer(s))}
    /\ ~use_null_one_rtt_crypter[s] =>
          /\ next[s] \in {None, Aead(Peer(s), OneRtt, secret[s])}
          /\ \E e \in Nat :
                /\ secret[s] = IF next[s] = None THEN e ELSE e + 1
                /\ encrypter[s][OneRtt] \in {None, Aead(s, OneRtt, e)}
                /\ decrypter[s][OneRtt] \in {None, Aead(Peer(s), OneRtt, e)}
    /\ decrypter[s][OneRtt] = None => secret[s] = 0 /\ next[s] = None
    /\ decrypter[s][OneRtt] # None => encrypter[s][OneRtt] # None

\* The order in which a side gets its keys: no decrypter before the encrypter
\* of the handshake, and at the server none before that of 1-RTT either.
KeysInOrder(s) ==
    /\ decrypter[s][OneRtt] # None \/ decrypter[s]["ENCRYPTION_HANDSHAKE"] # None
          => encrypter[s]["ENCRYPTION_HANDSHAKE"] # None
    /\ s = "IS_SERVER" /\ decrypter[s]["ENCRYPTION_HANDSHAKE"] # None
          => encrypter[s][OneRtt] # None

UpdatesInvariant == \A s \in Perspective : InStep(s) /\ KeysInOrder(s)

-----------------------------------------------------------------------------
(* Keys. *)

\* No key is None, and real keys of different phases differ.
LEMMA KeysAreDistinct ==
    ASSUME NEW s, NEW l, NEW e
    PROVE  /\ Null(s) # None /\ Null(s).kind = "null" /\ Null(s).epoch = 0
           /\ Aead(s, l, e) # None
           /\ Aead(s, l, e).kind = "aead" /\ Aead(s, l, e).epoch = e
    BY DEF Null, Aead, None

\* The two levels.
LEMMA TwoLevels ==
    /\ OneRtt \in Level /\ "ENCRYPTION_HANDSHAKE" \in Level
    /\ OneRtt # "ENCRYPTION_HANDSHAKE"
    BY DEF OneRtt, Level

\* What the hooks answer, by mode.
LEMMA HookAnswers ==
    ASSUME NEW s \in Perspective, TypeOK
    PROVE  /\ use_null_one_rtt_crypter[s] =>
                 /\ OnNewEncryptionKeyAvailable(s, OneRtt) = Null(s)
                 /\ OnNewDecryptionKeyAvailable(s, OneRtt) = Null(Peer(s))
                 /\ AdvanceKeysAndCreateCurrentOneRttDecrypter(s) = Null(Peer(s))
                 /\ \A n : CreateCurrentOneRttEncrypter(s, n) = Null(s)
                 /\ AdvancedSecret(s) = secret[s]
           /\ ~use_null_one_rtt_crypter[s] =>
                 /\ OnNewEncryptionKeyAvailable(s, OneRtt) = Aead(s, OneRtt, 0)
                 /\ OnNewDecryptionKeyAvailable(s, OneRtt)
                       = Aead(Peer(s), OneRtt, 0)
                 /\ AdvanceKeysAndCreateCurrentOneRttDecrypter(s)
                       = Aead(Peer(s), OneRtt, secret[s] + 1)
                 /\ \A n : CreateCurrentOneRttEncrypter(s, n) = Aead(s, OneRtt, n)
                 /\ AdvancedSecret(s) = secret[s] + 1
    BY DEF OnNewEncryptionKeyAvailable, OnNewDecryptionKeyAvailable, Replaces,
           AdvanceKeysAndCreateCurrentOneRttDecrypter, AdvancedSecret,
           CreateCurrentOneRttEncrypter, WebTransportNullEncrypter,
           WebTransportNullDecrypter

-----------------------------------------------------------------------------
(* Steps. *)

\* The keys of side t do not change.
SameKeys(t) ==
    /\ use_null_one_rtt_crypter'[t] = use_null_one_rtt_crypter[t]
    /\ encrypter'[t] = encrypter[t] /\ decrypter'[t] = decrypter[t]
    /\ next'[t] = next[t] /\ secret'[t] = secret[t]

LEMMA SameKeysKeep ==
    ASSUME NEW t \in Perspective, InStep(t), KeysInOrder(t), SameKeys(t)
    PROVE  InStep(t)' /\ KeysInOrder(t)'
    BY DEF InStep, KeysInOrder, SameKeys

\* A step that changes the keys of one side keeps the invariant if it keeps
\* that side in step.
LEMMA OneSide ==
    ASSUME UpdatesInvariant, NEW s \in Perspective,
           InStep(s)', KeysInOrder(s)',
           \A t \in Perspective \ {s} : SameKeys(t)
    PROVE  UpdatesInvariant'
<1> SUFFICES ASSUME NEW t \in Perspective PROVE InStep(t)' /\ KeysInOrder(t)'
    BY DEF UpdatesInvariant
<1>1. CASE t = s
    BY <1>1
<1>2. CASE t # s
    BY <1>2, SameKeysKeep DEF UpdatesInvariant
<1>3. QED BY <1>1, <1>2

\* The decrypter of the next phase and the secrets behind it.
LEMMA NextPhase ==
    ASSUME TypeOK, NEW s \in Perspective, InStep(s), Complete(s)
    PROVE  /\ NextDecrypter(s) # None /\ NextSecret(s) \in Nat
           /\ use_null_one_rtt_crypter[s] => NextDecrypter(s) = Null(Peer(s))
           /\ ~use_null_one_rtt_crypter[s] =>
                 /\ NextDecrypter(s) = Aead(Peer(s), OneRtt, NextSecret(s))
                 /\ next[s] = None => NextSecret(s) = secret[s] + 1
                 /\ next[s] # None => NextSecret(s) = secret[s]
<1>1. secret[s] \in Nat /\ use_null_one_rtt_crypter[s] \in BOOLEAN
    BY DEF TypeOK
<1>2. CASE use_null_one_rtt_crypter[s]
    BY <1>1, <1>2, HookAnswers, KeysAreDistinct
    DEF NextDecrypter, NextSecret, InStep
<1>3. CASE ~use_null_one_rtt_crypter[s]
    BY <1>1, <1>3, HookAnswers, KeysAreDistinct
    DEF NextDecrypter, NextSecret, InStep
<1>4. QED BY <1>2, <1>3

\* The next decrypter is made, ahead of an update that may never come.
LEMMA PreparedInStep ==
    ASSUME TypeOK, UpdatesInvariant, NEW s \in Perspective, Complete(s),
           next' = [next EXCEPT ![s] = NextDecrypter(s)],
           secret' = [secret EXCEPT ![s] = NextSecret(s)],
           UNCHANGED <<use_null_one_rtt_crypter, encrypter, decrypter>>
    PROVE  UpdatesInvariant'
<1>1. /\ next'[s] = NextDecrypter(s) /\ secret'[s] = NextSecret(s)
      /\ \A t \in Perspective \ {s} : SameKeys(t)
    BY DEF TypeOK, SameKeys
<1>2. InStep(s) /\ KeysInOrder(s) /\ decrypter[s][OneRtt] # None
    BY DEF UpdatesInvariant, Complete
<1>3. InStep(s)'
    <2>1. CASE use_null_one_rtt_crypter[s]
        BY <1>1, <1>2, <2>1, NextPhase DEF InStep
    <2>2. CASE ~use_null_one_rtt_crypter[s]
        <3>1. PICK e \in Nat :
                /\ secret[s] = IF next[s] = None THEN e ELSE e + 1
                /\ encrypter[s][OneRtt] \in {None, Aead(s, OneRtt, e)}
                /\ decrypter[s][OneRtt] \in {None, Aead(Peer(s), OneRtt, e)}
            BY <1>2, <2>2 DEF InStep
        <3>2. /\ NextSecret(s) = e + 1
              /\ NextDecrypter(s) = Aead(Peer(s), OneRtt, NextSecret(s))
              /\ NextDecrypter(s) # None
            BY <1>2, <2>2, <3>1, NextPhase
        <3>3. QED BY <1>1, <1>2, <2>2, <3>1, <3>2 DEF InStep
    <2>3. QED BY <2>1, <2>2
<1>4. KeysInOrder(s)'
    BY <1>2 DEF KeysInOrder
<1>5. QED BY <1>1, <1>3, <1>4, OneSide

\* An update installs both keys of the next phase.
LEMMA UpdatedInStep ==
    ASSUME TypeOK, UpdatesInvariant, NEW s \in Perspective, NEW n, Complete(s),
           DoKeyUpdate(s, n), UNCHANGED use_null_one_rtt_crypter
    PROVE  UpdatesInvariant'
<1>1. InStep(s) /\ KeysInOrder(s)
    BY DEF UpdatesInvariant
<1>2. /\ encrypter'[s][OneRtt] = CreateCurrentOneRttEncrypter(s, NextSecret(s))
      /\ decrypter'[s][OneRtt] = NextDecrypter(s)
      /\ next'[s] = None /\ secret'[s] = NextSecret(s)
      /\ encrypter'[s]["ENCRYPTION_HANDSHAKE"] = encrypter[s]["ENCRYPTION_HANDSHAKE"]
      /\ decrypter'[s]["ENCRYPTION_HANDSHAKE"] = decrypter[s]["ENCRYPTION_HANDSHAKE"]
    BY TwoLevels DEF DoKeyUpdate, TypeOK
<1>3. \A t \in Perspective \ {s} : SameKeys(t)
    BY DEF DoKeyUpdate, TypeOK, SameKeys
<1>4. /\ NextDecrypter(s) # None /\ NextSecret(s) \in Nat
      /\ encrypter'[s][OneRtt] # None
      /\ use_null_one_rtt_crypter[s] =>
            /\ encrypter'[s][OneRtt] = Null(s)
            /\ decrypter'[s][OneRtt] = Null(Peer(s))
      /\ ~use_null_one_rtt_crypter[s] =>
            /\ encrypter'[s][OneRtt] = Aead(s, OneRtt, NextSecret(s))
            /\ decrypter'[s][OneRtt] = Aead(Peer(s), OneRtt, NextSecret(s))
    <2>1. use_null_one_rtt_crypter[s] \in BOOLEAN
        BY DEF TypeOK
    <2>2. CASE use_null_one_rtt_crypter[s]
        <3>1. /\ CreateCurrentOneRttEncrypter(s, NextSecret(s)) = Null(s)
              /\ Null(s) # None
            BY <2>2, HookAnswers, KeysAreDistinct
        <3>2. QED BY <1>1, <1>2, <2>2, <3>1, NextPhase
    <2>3. CASE ~use_null_one_rtt_crypter[s]
        <3>1. /\ CreateCurrentOneRttEncrypter(s, NextSecret(s))
                    = Aead(s, OneRtt, NextSecret(s))
              /\ Aead(s, OneRtt, NextSecret(s)) # None
            BY <2>3, HookAnswers, KeysAreDistinct
        <3>2. QED BY <1>1, <1>2, <2>3, <3>1, NextPhase
    <2>4. QED BY <2>1, <2>2, <2>3
<1>5. InStep(s)'
    BY <1>2, <1>4 DEF InStep
<1>6. KeysInOrder(s)'
    BY <1>1, <1>2, <1>4 DEF KeysInOrder, Complete
<1>7. QED BY <1>3, <1>5, <1>6, OneSide

\* The handshake installs the keys of phase 0, in order.
LEMMA HandshakeInStep ==
    ASSUME TypeOK, UpdatesInvariant, Handshake
    PROVE  UpdatesInvariant'
<1>1. /\ "IS_CLIENT" \in Perspective /\ "IS_SERVER" \in Perspective
      /\ "IS_CLIENT" # "IS_SERVER"
    BY DEF Perspective
<1>2. \A s \in Perspective : InStep(s) /\ KeysInOrder(s)
    BY DEF UpdatesInvariant
<1>3. \A s \in Perspective, l \in Level :
        /\ OnNewEncryptionKeyAvailable(s, l) # None
        /\ OnNewDecryptionKeyAvailable(s, l) # None
    BY InstalledKeys, KeyOfASide, Peers
<1>4. CASE ServerHello
    <2> DEFINE s == "IS_SERVER"
    <2>1. /\ encrypter[s]["ENCRYPTION_HANDSHAKE"] = None
          /\ \A l \in Level : encrypter'[s][l] = OnNewEncryptionKeyAvailable(s, l)
          /\ decrypter'[s][OneRtt] = decrypter[s][OneRtt]
          /\ next'[s] = next[s] /\ secret'[s] = secret[s]
          /\ use_null_one_rtt_crypter' = use_null_one_rtt_crypter
        BY <1>1, <1>4, TwoLevels DEF ServerHello, TypeOK
    <2>2. \A t \in Perspective \ {s} : SameKeys(t)
        BY <1>1, <1>4 DEF ServerHello, TypeOK, SameKeys
    <2>3. decrypter[s][OneRtt] = None /\ secret[s] = 0 /\ next[s] = None
        BY <1>1, <1>2, <2>1 DEF InStep, KeysInOrder
    <2>4. InStep(s)'
        BY <1>1, <2>1, <2>3, HookAnswers, TwoLevels DEF InStep
    <2>5. KeysInOrder(s)'
        BY <1>1, <1>3, <2>1, <2>3, TwoLevels DEF KeysInOrder
    <2>6. QED BY <1>1, <2>2, <2>4, <2>5, OneSide
<1>5. CASE ServerHelloReceived
    <2> DEFINE s == "IS_CLIENT"
    <2>1. /\ encrypter'[s]["ENCRYPTION_HANDSHAKE"]
                = OnNewEncryptionKeyAvailable(s, "ENCRYPTION_HANDSHAKE")
          /\ encrypter'[s][OneRtt] = encrypter[s][OneRtt]
          /\ decrypter'[s][OneRtt] = decrypter[s][OneRtt]
          /\ next'[s] = next[s] /\ secret'[s] = secret[s]
          /\ use_null_one_rtt_crypter' = use_null_one_rtt_crypter
        BY <1>1, <1>5, TwoLevels DEF ServerHelloReceived, TypeOK
    <2>2. \A t \in Perspective \ {s} : SameKeys(t)
        BY <1>1, <1>5 DEF ServerHelloReceived, TypeOK, SameKeys
    <2>3. InStep(s)'
        BY <1>1, <1>2, <2>1 DEF InStep
    <2>4. KeysInOrder(s)'
        BY <1>1, <1>3, <2>1, TwoLevels DEF KeysInOrder
    <2>5. QED BY <1>1, <2>2, <2>3, <2>4, OneSide
<1>6. CASE ServerFinishedReceived
    <2> DEFINE s == "IS_CLIENT"
    <2>1. /\ OpensHandshake(s) /\ decrypter[s][OneRtt] = None
          /\ encrypter'[s][OneRtt] = OnNewEncryptionKeyAvailable(s, OneRtt)
          /\ decrypter'[s][OneRtt] = OnNewDecryptionKeyAvailable(s, OneRtt)
          /\ encrypter'[s]["ENCRYPTION_HANDSHAKE"]
                = encrypter[s]["ENCRYPTION_HANDSHAKE"]
          /\ next'[s] = next[s] /\ secret'[s] = secret[s]
          /\ use_null_one_rtt_crypter' = use_null_one_rtt_crypter
        BY <1>1, <1>6, TwoLevels DEF ServerFinishedReceived, TypeOK
    <2>2. \A t \in Perspective \ {s} : SameKeys(t)
        BY <1>1, <1>6 DEF ServerFinishedReceived, TypeOK, SameKeys
    <2>3. /\ secret[s] = 0 /\ next[s] = None
          /\ encrypter[s]["ENCRYPTION_HANDSHAKE"] # None
        BY <1>1, <1>2, <2>1 DEF InStep, KeysInOrder, OpensHandshake
    <2>4. InStep(s)'
        BY <1>1, <1>3, <2>1, <2>3, HookAnswers, TwoLevels DEF InStep
    <2>5. KeysInOrder(s)'
        BY <1>1, <2>1, <2>3 DEF KeysInOrder
    <2>6. QED BY <1>1, <2>2, <2>4, <2>5, OneSide
<1>7. CASE ClientFinishedReceived
    <2> DEFINE s == "IS_SERVER"
    <2>1. /\ OpensHandshake(s) /\ decrypter[s][OneRtt] = None
          /\ encrypter'[s] = encrypter[s]
          /\ decrypter'[s][OneRtt] = OnNewDecryptionKeyAvailable(s, OneRtt)
          /\ next'[s] = next[s] /\ secret'[s] = secret[s]
          /\ use_null_one_rtt_crypter' = use_null_one_rtt_crypter
        BY <1>1, <1>7, TwoLevels DEF ClientFinishedReceived, TypeOK
    <2>2. \A t \in Perspective \ {s} : SameKeys(t)
        BY <1>1, <1>7 DEF ClientFinishedReceived, TypeOK, SameKeys
    <2>3. /\ secret[s] = 0 /\ next[s] = None
          /\ encrypter[s]["ENCRYPTION_HANDSHAKE"] # None
          /\ encrypter[s][OneRtt] # None
        BY <1>1, <1>2, <2>1 DEF InStep, KeysInOrder, OpensHandshake
    <2>4. InStep(s)'
        BY <1>1, <1>2, <1>3, <2>1, <2>3, HookAnswers, TwoLevels DEF InStep
    <2>5. KeysInOrder(s)'
        BY <1>1, <2>1, <2>3 DEF KeysInOrder
    <2>6. QED BY <1>1, <2>2, <2>4, <2>5, OneSide
<1>8. QED BY <1>4, <1>5, <1>6, <1>7 DEF Handshake

\* A step that touches no key, or that of another phase only.
LEMMA NoKeysChange ==
    ASSUME UpdatesInvariant,
           UNCHANGED <<use_null_one_rtt_crypter, encrypter, decrypter, next, secret>>
    PROVE  UpdatesInvariant'
    BY SameKeysKeep DEF UpdatesInvariant, SameKeys

\* A packet is received.
LEMMA ReceiveInStep ==
    ASSUME TypeOK, UpdatesInvariant, NEW s \in Perspective, NEW n,
           ReceivePacket(s, n)
    PROVE  UpdatesInvariant'
<1>1. Complete(s) /\ UNCHANGED use_null_one_rtt_crypter
    BY DEF ReceivePacket
<1>2. CASE ReceiveCurrent(s, n)
    BY <1>1, <1>2, NoKeysChange DEF ReceiveCurrent
<1>3. CASE ReceivePrevious(s, n)
    BY <1>1, <1>3, NoKeysChange DEF ReceivePrevious, framerVars
<1>4. CASE ReceiveNext(s, n)
    <2>1. CASE DoKeyUpdate(s, n)
        BY <1>1, <2>1, UpdatedInStep
    <2>2. CASE /\ next' = [next EXCEPT ![s] = NextDecrypter(s)]
               /\ secret' = [secret EXCEPT ![s] = NextSecret(s)]
               /\ UNCHANGED <<encrypter, decrypter, previous, phase, first>>
        BY <1>1, <2>2, PreparedInStep
    <2>3. QED BY <1>4, <2>1, <2>2 DEF ReceiveNext
<1>5. QED BY <1>2, <1>3, <1>4 DEF ReceivePacket

LEMMA SideInStep ==
    ASSUME TypeOK, UpdatesInvariant, NEW s \in Perspective,
           \/ Send(s) \/ Receive(s) \/ InitiateKeyUpdate(s)
           \/ ReceiveDamaged(s) \/ DiscardPreviousOneRttKeys(s)
    PROVE  UpdatesInvariant'
<1>1. CASE Send(s)
    BY <1>1, NoKeysChange DEF Send, framerVars
<1>2. CASE Receive(s)
    BY <1>2, ReceiveInStep DEF Receive
<1>3. CASE InitiateKeyUpdate(s)
    BY <1>3, UpdatedInStep DEF InitiateKeyUpdate
<1>4. CASE ReceiveDamaged(s)
    BY <1>4, PreparedInStep DEF ReceiveDamaged
<1>5. CASE DiscardPreviousOneRttKeys(s)
    BY <1>5, NoKeysChange DEF DiscardPreviousOneRttKeys
<1>6. QED BY <1>1, <1>2, <1>3, <1>4, <1>5

-----------------------------------------------------------------------------
(* The invariant and what follows from it. *)

LEMMA InStepAtFirst == Init => UpdatesInvariant
<1> SUFFICES ASSUME Init, NEW s \in Perspective
             PROVE  InStep(s) /\ KeysInOrder(s)
    BY DEF UpdatesInvariant
<1>1. /\ \A l \in Level : encrypter[s][l] = None /\ decrypter[s][l] = None
      /\ next[s] = None /\ secret[s] = 0
    BY DEF Init, Sides
<1>2. QED BY <1>1, TwoLevels DEF InStep, KeysInOrder

LEMMA StaysInStep == TypeOK /\ UpdatesInvariant /\ [Next]_vars => UpdatesInvariant'
<1>1. ASSUME UpdatesInvariant, UNCHANGED vars PROVE UpdatesInvariant'
    BY <1>1, NoKeysChange DEF vars, framerVars
<1>2. QED BY <1>1, HandshakeInStep, SideInStep DEF Next

\* The secrets are ahead of the installed keys exactly while the decrypter of
\* the next phase is kept, and both directions are of one phase.
THEOREM UpdatesInvariantHolds == Spec => []UpdatesInvariant
    BY InStepAtFirst, StaysInStep, TypeCorrect, PTL DEF Spec

\* Both directions of an endpoint change keys together, however often and by
\* whomever keys are updated, and whatever was received in between.
THEOREM UpdatedTogether == Spec => []DirectionsUpdateTogether
<1>1. TypeOK /\ UpdatesInvariant => DirectionsUpdateTogether
    <2> SUFFICES ASSUME TypeOK, UpdatesInvariant, NEW s \in Perspective, Complete(s)
                 PROVE  /\ encrypter[s][OneRtt].kind = decrypter[s][OneRtt].kind
                        /\ encrypter[s][OneRtt].epoch = decrypter[s][OneRtt].epoch
        BY DEF DirectionsUpdateTogether
    <2>1. InStep(s) /\ decrypter[s][OneRtt] # None /\ encrypter[s][OneRtt] # None
        BY DEF UpdatesInvariant, InStep, Complete
    <2>2. CASE use_null_one_rtt_crypter[s]
        BY <2>1, <2>2, KeysAreDistinct DEF InStep
    <2>3. CASE ~use_null_one_rtt_crypter[s]
        BY <2>1, <2>3, KeysAreDistinct DEF InStep
    <2>4. QED BY <2>2, <2>3
<1>2. QED BY <1>1, UpdatesInvariantHolds, TypeCorrect, PTL

-----------------------------------------------------------------------------
(***************************************************************************)
(* Between endpoints of one mode only late packets are refused, for any    *)
(* number of packets and key updates.                                      *)
(*                                                                         *)
(* What a side refuses depends on how far its keys are from those of the   *)
(* packet.  Packets are numbered in the order of the phases they are sent  *)
(* in, and the two sides are never more than a phase apart: an update      *)
(* waits for an acknowledgement, which only a side that was in the phase   *)
(* itself can give, and the other follows with the first packet it opens   *)
(* of the new phase.  So a packet that is neither of the current phase nor *)
(* of the next one is of an older one.  Null keys do not tell phases       *)
(* apart; there it is enough that as long as a side has nothing of its     *)
(* phase and no previous decrypter, nobody has updated.                    *)
(*                                                                         *)
(* Every step is first shown to be one of a few effects on what the        *)
(* invariant speaks of, and each effect to keep it.                        *)
(***************************************************************************)

\* The phase the installed 1-RTT keys of side s are of; null keys have none.
Epoch(s) ==
    IF use_null_one_rtt_crypter[s] THEN 0
    ELSE IF next[s] = None THEN secret[s] ELSE secret[s] - 1

\* The phase of packet n of side s.
EpochOf(s, n) == packets[s][n].key.epoch

\* The key phase bit of a phase.
PhaseBit(e) == e % 2 = 1

\* What s knows of its peer's packets is true, and its acknowledgements say
\* no more than it knows; every packet was sent under a key.
ReceiptsOK(s) ==
    /\ opened[s] \subseteq 1..Len(packets[Peer(s)])
    /\ acked[Peer(s)] \subseteq opened[s]
    /\ \A n \in 1..Len(packets[s]) :
          packets[s][n].ack \subseteq opened[s] /\ packets[s][n].key # None
    /\ first[s] \in 0..Len(packets[Peer(s)])
    /\ lowest[s] \in 0..Len(packets[s])

\* Null keys do not tell phases apart, but as long as s has nothing of this
\* phase and no previous decrypter, nobody has updated.
UntouchedOK(s) ==
    first[s] = 0 /\ previous[s] = None =>
        /\ opened[s] = {} /\ ~phase[s] /\ ~phase[Peer(s)]
        /\ \A n \in 1..Len(packets[s]) : ~packets[s][n].phase
        /\ \A n \in 1..Len(packets[Peer(s)]) : ~packets[Peer(s)][n].phase

NullOK(s) ==
    /\ previous[s] \in {None, Null(Peer(s))}
    /\ \A n \in 1..Len(packets[s]) : packets[s][n].key = Null(s)
    /\ UntouchedOK(s)

\* The packets s sent are of the phases s went through, in this order.
PacketsDated(s) ==
    /\ phase[s] <=> PhaseBit(Epoch(s))
    /\ \A n \in 1..Len(packets[s]) :
          /\ packets[s][n].key = Aead(s, OneRtt, EpochOf(s, n))
          /\ EpochOf(s, n) \in 0..Epoch(s)
          /\ packets[s][n].phase <=> PhaseBit(EpochOf(s, n))
    /\ \A m, n \in 1..Len(packets[s]) : m <= n => EpochOf(s, m) <= EpochOf(s, n)
    /\ lowest[s] # 0 => EpochOf(s, lowest[s]) = Epoch(s)

\* The receiver's view of the phases of its peer: of the current one it has
\* packet `first', and the peer is ahead of it only by one, and only if such a
\* packet came.
PhasesClose(s) ==
    /\ previous[s] = None => Epoch(s) = 0 \/ first[s] # 0
    /\ previous[s] # None =>
          Epoch(s) > 0 /\ previous[s] = Aead(Peer(s), OneRtt, Epoch(s) - 1)
    /\ first[s] # 0 => EpochOf(Peer(s), first[s]) = Epoch(s)
    /\ \A n \in opened[s] :
          /\ EpochOf(Peer(s), n) <= Epoch(s)
          /\ EpochOf(Peer(s), n) = Epoch(s) => first[s] # 0
    /\ Epoch(Peer(s)) <= Epoch(s) + 1
    /\ Epoch(Peer(s)) = Epoch(s) + 1 => first[s] # 0

\* The two modes in which packets get through.
Both(mode) == \A s \in Perspective : use_null_one_rtt_crypter[s] = mode

StaleInvariant ==
    /\ \A s \in Perspective : ReceiptsOK(s)
    /\ Both(TRUE) => \A s \in Perspective : NullOK(s)
    /\ Both(FALSE) => \A s \in Perspective : PacketsDated(s) /\ PhasesClose(s)

-----------------------------------------------------------------------------
(* Keys by phase. *)

LEMMA TwoSides ==
    ASSUME NEW s \in Perspective
    PROVE  /\ Peer(s) \in Perspective /\ Peer(s) # s /\ Peer(Peer(s)) = s
           /\ \A t \in Perspective : t = s \/ t = Peer(s)
    BY DEF Perspective, Peer

LEMMA AeadDiffer ==
    ASSUME NEW s, NEW e, NEW f
    PROVE  Aead(s, OneRtt, e) = Aead(s, OneRtt, f) <=> e = f
    BY DEF Aead

\* The keys of side s, in the phase the others of its mode can be compared by.
SealsWith(s) ==
    IF use_null_one_rtt_crypter[s] THEN Null(s) ELSE Aead(s, OneRtt, Epoch(s))
OpensAt(s, e) ==
    IF use_null_one_rtt_crypter[s] THEN Null(Peer(s)) ELSE Aead(Peer(s), OneRtt, e)

LEMMA KeysAtEpoch ==
    ASSUME TypeOK, UpdatesInvariant, NEW s \in Perspective
    PROVE  /\ encrypter[s][OneRtt] \in {None, SealsWith(s)}
           /\ decrypter[s][OneRtt] \in {None, OpensAt(s, Epoch(s))}
           /\ decrypter[s][OneRtt] = None => Epoch(s) = 0
           /\ Complete(s) => NextDecrypter(s) = OpensAt(s, Epoch(s) + 1)
           /\ ~use_null_one_rtt_crypter[s] =>
                 /\ Epoch(s) \in Nat
                 /\ Complete(s) => NextSecret(s) = Epoch(s) + 1
<1>1. InStep(s) /\ secret[s] \in Nat /\ use_null_one_rtt_crypter[s] \in BOOLEAN
    BY DEF UpdatesInvariant, TypeOK
<1>2. decrypter[s][OneRtt] = None => Epoch(s) = 0
    BY <1>1 DEF InStep, Epoch
<1>3. CASE use_null_one_rtt_crypter[s]
    BY <1>1, <1>2, <1>3, NextPhase DEF InStep, SealsWith, OpensAt
<1>4. CASE ~use_null_one_rtt_crypter[s]
    <2>1. PICK e \in Nat :
            /\ secret[s] = IF next[s] = None THEN e ELSE e + 1
            /\ encrypter[s][OneRtt] \in {None, Aead(s, OneRtt, e)}
            /\ decrypter[s][OneRtt] \in {None, Aead(Peer(s), OneRtt, e)}
        BY <1>1, <1>4 DEF InStep
    <2>2. Epoch(s) = e
        BY <1>4, <2>1 DEF Epoch
    <2>3. Complete(s) => /\ NextSecret(s) = e + 1
                         /\ NextDecrypter(s) = Aead(Peer(s), OneRtt, e + 1)
        BY <1>1, <1>4, <2>1, NextPhase
    <2>4. QED BY <1>2, <1>4, <2>1, <2>2, <2>3 DEF SealsWith, OpensAt
<1>5. QED BY <1>1, <1>3, <1>4

-----------------------------------------------------------------------------
(* What a step changes, of all that the invariant speaks of. *)

SameQueue(s) == packets'[s] = packets[s] /\ lowest'[s] = lowest[s]
SameReceipts(s) == opened'[s] = opened[s] /\ acked'[s] = acked[s]
SamePhase(s) == phase'[s] = phase[s] /\ Epoch(s)' = Epoch(s)
SameSide(s) ==
    /\ SameQueue(s) /\ SameReceipts(s) /\ SamePhase(s)
    /\ previous'[s] = previous[s] /\ first'[s] = first[s]

\* Side s sends a packet.
Sends(s) ==
    /\ packets'[s] = Append(packets[s], [key |-> SealsWith(s), phase |-> phase[s],
                                         ack |-> opened[s]])
    /\ lowest'[s] = IF lowest[s] = 0 THEN Len(packets[s]) + 1 ELSE lowest[s]
    /\ SameReceipts(s) /\ SamePhase(s)
    /\ previous'[s] = previous[s] /\ first'[s] = first[s]

\* Side s decrypts packet n of its peer and takes note of it.
Notes(s, n) ==
    /\ n \in 1..Len(packets[Peer(s)])
    /\ opened'[s] = opened[s] \union {n}
    /\ acked'[s] = acked[s] \union packets[Peer(s)][n].ack

\* ... with the current decrypter, or the previous one.
Opens(s, n) ==
    /\ Notes(s, n) /\ SameQueue(s) /\ SamePhase(s)
    /\ previous'[s] = previous[s]
    /\ \/ /\ packets[Peer(s)][n].key = OpensAt(s, Epoch(s))
          /\ first'[s] = IF first[s] = 0 THEN n ELSE first[s]
       \/ /\ packets[Peer(s)][n].key = previous[s] /\ previous[s] # None
          /\ first[s] = 0 \/ n < first[s]
          /\ first'[s] = first[s]

\* Side s changes its keys, by itself or because packet n opened so.
Updates(s) ==
    /\ packets'[s] = packets[s] /\ lowest'[s] = 0
    /\ phase'[s] = ~phase[s]
    /\ ~use_null_one_rtt_crypter[s] => Epoch(s)' = Epoch(s) + 1
    /\ previous'[s] = OpensAt(s, Epoch(s))

UpdatesFirst(s) ==
    /\ Updates(s) /\ SameReceipts(s) /\ first'[s] = 0
    /\ lowest[s] # 0 /\ \E n \in acked[s] : n >= lowest[s]

Follows(s, n) ==
    /\ Updates(s) /\ Notes(s, n) /\ first'[s] = n
    /\ first[s] # 0 /\ n > first[s]
    /\ packets[Peer(s)][n].key = OpensAt(s, Epoch(s) + 1)
    /\ packets[Peer(s)][n].phase = ~phase[s]

Discards(s) ==
    /\ SameQueue(s) /\ SameReceipts(s) /\ SamePhase(s)
    /\ first[s] # 0 /\ first'[s] = first[s] /\ previous'[s] = None

-----------------------------------------------------------------------------
(* Each of these keeps the invariant. *)

\* The invariant at side s, in the form a step from one side needs it.
StaleOK(s) ==
    /\ ReceiptsOK(s)
    /\ Both(TRUE) => NullOK(s)
    /\ Both(FALSE) => PacketsDated(s) /\ PhasesClose(s)

LEMMA StaleBySide ==
    ASSUME NEW s \in Perspective
    PROVE  StaleInvariant <=> StaleOK(s) /\ StaleOK(Peer(s))
    BY TwoSides DEF StaleInvariant, StaleOK

LEMMA ModeStays == ASSUME UNCHANGED use_null_one_rtt_crypter, NEW m
                   PROVE  Both(m)' <=> Both(m)
    BY DEF Both

\* The types of one side, and of its phase.
SideTypes(s) ==
    /\ packets[s] \in Seq([key : Key, phase : BOOLEAN, ack : SUBSET Nat])
    /\ Len(packets[s]) \in Nat
    /\ \A n \in 1..Len(packets[s]) : packets[s][n].phase \in BOOLEAN
    /\ phase[s] \in BOOLEAN
    /\ first[s] \in Nat /\ lowest[s] \in Nat
    /\ opened[s] \subseteq Nat /\ acked[s] \subseteq Nat
    /\ Both(FALSE) => Epoch(s) \in Nat

LEMMA SeqFacts ==
    ASSUME NEW R, NEW q \in Seq(R)
    PROVE  Len(q) \in Nat /\ \A n \in 1..Len(q) : q[n] \in R
    OBVIOUS

LEMMA SideTypesHold ==
    ASSUME TypeOK, UpdatesInvariant, NEW s \in Perspective
    PROVE  SideTypes(s)
<1>1. /\ packets[s] \in Seq([key : Key, phase : BOOLEAN, ack : SUBSET Nat])
      /\ phase[s] \in BOOLEAN /\ first[s] \in Nat /\ lowest[s] \in Nat
      /\ opened[s] \subseteq Nat /\ acked[s] \subseteq Nat
    BY DEF TypeOK
<1>2. /\ Len(packets[s]) \in Nat
      /\ \A n \in 1..Len(packets[s]) :
            packets[s][n] \in [key : Key, phase : BOOLEAN, ack : SUBSET Nat]
    BY <1>1, SeqFacts
<1>3. \A n \in 1..Len(packets[s]) : packets[s][n].phase \in BOOLEAN
    BY <1>2
<1>4. Both(FALSE) => Epoch(s) \in Nat
    BY KeysAtEpoch DEF Both
<1>5. QED BY <1>1, <1>2, <1>3, <1>4 DEF SideTypes

\* A packet more.
LEMMA OneMore ==
    ASSUME NEW R, NEW q \in Seq(R), NEW r, NEW l, l = Len(q)
    PROVE  /\ l \in Nat /\ Len(Append(q, r)) = l + 1
           /\ \A n \in 1..l : Append(q, r)[n] = q[n]
           /\ Append(q, r)[l + 1] = r
           /\ \A n \in 1..l + 1 : n \in 1..l \/ n = l + 1
    OBVIOUS

LEMMA SendsKeeps ==
    ASSUME TypeOK, UpdatesInvariant, StaleInvariant, NEW s \in Perspective,
           Sends(s), SameSide(Peer(s)), UNCHANGED use_null_one_rtt_crypter
    PROVE  StaleInvariant'
<1> DEFINE t == Peer(s)
<1>1. t \in Perspective /\ Peer(t) = s /\ t # s
    BY TwoSides
<1>2. StaleOK(s) /\ StaleOK(t)
    BY StaleBySide
<1>3. SideTypes(s) /\ SideTypes(t)
    BY <1>1, SideTypesHold
<1> HIDE DEF t
<1>4. PICK l : l = Len(packets[s])
    OBVIOUS
<1>5. /\ l \in Nat /\ Len(packets'[s]) = l + 1
      /\ \A n \in 1..l : packets'[s][n] = packets[s][n]
      /\ packets'[s][l + 1].key = SealsWith(s)
      /\ packets'[s][l + 1].phase = phase[s]
      /\ packets'[s][l + 1].ack = opened[s]
      /\ \A n \in 1..l + 1 : n \in 1..l \/ n = l + 1
    <2>1. PICK p : /\ p = [key |-> SealsWith(s), phase |-> phase[s], ack |-> opened[s]]
                   /\ packets'[s] = Append(packets[s], p)
        BY DEF Sends
    <2>2. p.key = SealsWith(s) /\ p.phase = phase[s] /\ p.ack = opened[s]
        BY <2>1
    <2>3. packets[s] \in Seq([key : Key, phase : BOOLEAN, ack : SUBSET Nat])
        BY <1>3 DEF SideTypes
    <2>4. QED BY <1>4, <2>1, <2>2, <2>3, OneMore
<1>6. /\ lowest'[s] = IF lowest[s] = 0 THEN l + 1 ELSE lowest[s]
      /\ opened'[s] = opened[s] /\ acked'[s] = acked[s]
      /\ phase'[s] = phase[s] /\ Epoch(s)' = Epoch(s)
      /\ previous'[s] = previous[s] /\ first'[s] = first[s]
    BY <1>4 DEF Sends, SameReceipts, SamePhase
<1>7. /\ packets'[t] = packets[t] /\ lowest'[t] = lowest[t]
      /\ opened'[t] = opened[t] /\ acked'[t] = acked[t]
      /\ phase'[t] = phase[t] /\ Epoch(t)' = Epoch(t)
      /\ previous'[t] = previous[t] /\ first'[t] = first[t]
    BY DEF SameSide, SameQueue, SameReceipts, SamePhase, t
<1>8. ReceiptsOK(s) /\ ReceiptsOK(t) /\ Peer(s) = t
    BY <1>2 DEF StaleOK, t
<1>9. ReceiptsOK(s)'
    <2>1. SealsWith(s) # None
        BY KeysAreDistinct DEF SealsWith
    <2>3. \A n \in 1..l + 1 : /\ packets'[s][n].ack \subseteq opened'[s]
                              /\ packets'[s][n].key # None
        BY <1>4, <1>5, <1>6, <1>8, <2>1 DEF ReceiptsOK
    <2>2. lowest'[s] \in 0..l + 1
        BY <1>4, <1>5, <1>6, <1>8 DEF ReceiptsOK
    <2>4. QED BY <1>5, <1>6, <1>7, <1>8, <2>2, <2>3 DEF ReceiptsOK
<1>10. ReceiptsOK(t)'
    <2>1. opened'[t] \subseteq 1..l + 1 /\ first'[t] \in 0..l + 1
        BY <1>1, <1>4, <1>5, <1>7, <1>8 DEF ReceiptsOK
    <2>2. QED BY <1>1, <1>5, <1>6, <1>7, <1>8, <2>1 DEF ReceiptsOK
<1>11. ASSUME Both(TRUE) PROVE NullOK(s)' /\ NullOK(t)'
    <2>1. NullOK(s) /\ NullOK(t)
        BY <1>2, <1>11 DEF StaleOK
    <2>2. SealsWith(s) = Null(s)
        BY <1>11 DEF SealsWith, Both
    <2>3. \A n \in 1..l + 1 : packets'[s][n].key = Null(s)
        BY <1>4, <1>5, <2>1, <2>2 DEF NullOK
    <2>4. UntouchedOK(s)'
        BY <1>4, <1>5, <1>6, <1>7, <1>8, <2>1, SMTT(30) DEF NullOK, UntouchedOK
    <2>5. UntouchedOK(t)'
        BY <1>1, <1>4, <1>5, <1>6, <1>7, <2>1 DEF NullOK, UntouchedOK
    <2>6. QED BY <1>1, <1>5, <1>6, <1>7, <2>1, <2>3, <2>4, <2>5 DEF NullOK
<1>12. ASSUME Both(FALSE)
       PROVE  /\ PacketsDated(s)' /\ PhasesClose(s)'
              /\ PacketsDated(t)' /\ PhasesClose(t)'
    <2>1. PacketsDated(s) /\ PhasesClose(s) /\ PacketsDated(t) /\ PhasesClose(t)
        BY <1>2, <1>12 DEF StaleOK
    <2>2. SealsWith(s) = Aead(s, OneRtt, Epoch(s)) /\ Epoch(s) \in Nat /\ Epoch(t) \in Nat
        BY <1>3, <1>12 DEF SealsWith, Both, SideTypes
    <2>3. packets'[s][l + 1].key.epoch = Epoch(s)
        BY <1>5, <2>2 DEF Aead
    <2>4. PacketsDated(s)'
        <3>1. \A n \in 1..l + 1 :
                /\ packets'[s][n].key = Aead(s, OneRtt, packets'[s][n].key.epoch)
                /\ packets'[s][n].key.epoch \in 0..Epoch(s)
                /\ packets'[s][n].phase <=> PhaseBit(packets'[s][n].key.epoch)
            <4> SUFFICES ASSUME NEW n \in 1..l + 1
                         PROVE  /\ packets'[s][n].key
                                      = Aead(s, OneRtt, packets'[s][n].key.epoch)
                                /\ packets'[s][n].key.epoch \in 0..Epoch(s)
                                /\ packets'[s][n].phase
                                      <=> PhaseBit(packets'[s][n].key.epoch)
                OBVIOUS
            <4>1. CASE n \in 1..l
                BY <1>4, <1>5, <2>1, <4>1 DEF PacketsDated, EpochOf
            <4>2. CASE n = l + 1
                <5>1. packets'[s][n].key = Aead(s, OneRtt, Epoch(s))
                    BY <1>5, <2>2, <4>2
                <5>2. packets'[s][n].key.epoch = Epoch(s) /\ packets'[s][n].phase = phase[s]
                    BY <1>5, <2>3, <4>2
                <5>3. phase[s] <=> PhaseBit(Epoch(s))
                    BY <2>1 DEF PacketsDated
                <5>4. packets'[s][n].key.epoch \in 0..Epoch(s)
                    BY <2>2, <5>2
                <5>5. QED BY <5>1, <5>2, <5>3, <5>4
            <4>3. QED BY <1>5, <4>1, <4>2
        <3>2. \A m, n \in 1..l + 1 :
                m <= n => packets'[s][m].key.epoch <= packets'[s][n].key.epoch
            <4> SUFFICES ASSUME NEW m \in 1..l + 1, NEW n \in 1..l + 1, m <= n
                         PROVE  packets'[s][m].key.epoch <= packets'[s][n].key.epoch
                OBVIOUS
            <4>1. CASE n = l + 1
                BY <2>2, <2>3, <3>1, <4>1
            <4>2. CASE n \in 1..l
                <5>1. m \in 1..l
                    BY <1>5, <4>2
                <5>2. QED BY <1>4, <1>5, <2>1, <4>2, <5>1 DEF PacketsDated, EpochOf
            <4>3. QED BY <1>5, <4>1, <4>2
        <3>3. lowest'[s] # 0 => packets'[s][lowest'[s]].key.epoch = Epoch(s)
            <4>1. CASE lowest[s] = 0
                BY <1>6, <2>3, <4>1
            <4>2. CASE lowest[s] # 0
                <5>1. lowest[s] \in 1..l /\ lowest'[s] = lowest[s]
                    BY <1>4, <1>5, <1>6, <1>8, <4>2 DEF ReceiptsOK
                <5>2. QED BY <1>5, <2>1, <4>2, <5>1 DEF PacketsDated, EpochOf
            <4>3. QED BY <4>1, <4>2
        <3>4. QED BY <1>5, <1>6, <2>1, <3>1, <3>2, <3>3 DEF PacketsDated, EpochOf
    <2>5. PacketsDated(t)'
        BY <1>7, <2>1 DEF PacketsDated, EpochOf
    <2>6. PhasesClose(s)'
        BY <1>6, <1>7, <1>8, <2>1 DEF PhasesClose, EpochOf
    <2>7. PhasesClose(t)'
        <3>1. /\ first[t] # 0 => first[t] \in 1..l
              /\ opened[t] \subseteq 1..l
            BY <1>1, <1>4, <1>5, <1>8 DEF ReceiptsOK
        <3>2. /\ first'[t] # 0 => packets'[s][first'[t]].key.epoch = Epoch(t)
              /\ \A n \in opened'[t] :
                    /\ packets'[s][n].key.epoch <= Epoch(t)
                    /\ packets'[s][n].key.epoch = Epoch(t) => first'[t] # 0
            BY <1>1, <1>5, <1>7, <2>1, <3>1 DEF PhasesClose, EpochOf
        <3>3. QED BY <1>1, <1>6, <1>7, <2>1, <3>2 DEF PhasesClose, EpochOf
    <2>8. QED BY <2>4, <2>5, <2>6, <2>7
<1>13. StaleOK(s)' /\ StaleOK(t)'
    BY <1>9, <1>10, <1>11, <1>12, ModeStays DEF StaleOK
<1>14. QED
    BY <1>13, TwoSides DEF StaleInvariant, StaleOK, t

\* What each of the lemmas below starts from, and what it comes to.
LEMMA BothSides ==
    ASSUME TypeOK, UpdatesInvariant, StaleInvariant, NEW s \in Perspective
    PROVE  /\ Peer(s) \in Perspective /\ Peer(Peer(s)) = s /\ Peer(s) # s
           /\ StaleOK(s) /\ StaleOK(Peer(s))
           /\ SideTypes(s) /\ SideTypes(Peer(s))
    BY TwoSides, StaleBySide, SideTypesHold

LEMMA StaleAfter ==
    ASSUME NEW s \in Perspective, StaleOK(s)', StaleOK(Peer(s))'
    PROVE  StaleInvariant'
    BY TwoSides DEF StaleInvariant, StaleOK

LEMMA QuietKeeps ==
    ASSUME TypeOK, UpdatesInvariant, StaleInvariant, NEW s \in Perspective,
           SameSide(s), SameSide(Peer(s)), UNCHANGED use_null_one_rtt_crypter
    PROVE  StaleInvariant'
<1>1. \A r \in Perspective : SameSide(r) /\ StaleOK(r)
    BY BothSides, TwoSides
<1>2. ASSUME NEW r \in Perspective PROVE StaleOK(r)'
    <2>1. \A q \in {r, Peer(r)} :
            /\ packets'[q] = packets[q] /\ lowest'[q] = lowest[q]
            /\ opened'[q] = opened[q] /\ acked'[q] = acked[q]
            /\ phase'[q] = phase[q] /\ Epoch(q)' = Epoch(q)
            /\ previous'[q] = previous[q] /\ first'[q] = first[q]
        BY <1>1, TwoSides DEF SameSide, SameQueue, SameReceipts, SamePhase
    <2>2. ReceiptsOK(r)'
        BY <1>1, <2>1 DEF StaleOK, ReceiptsOK
    <2>3. ASSUME NullOK(r) PROVE NullOK(r)'
        BY <2>1, <2>3 DEF NullOK, UntouchedOK
    <2>4. ASSUME PacketsDated(r) PROVE PacketsDated(r)'
        BY <2>1, <2>4 DEF PacketsDated, EpochOf
    <2>5. ASSUME PhasesClose(r) PROVE PhasesClose(r)'
        BY <2>1, <2>5 DEF PhasesClose, EpochOf
    <2>6. QED BY <1>1, <2>2, <2>3, <2>4, <2>5, ModeStays DEF StaleOK
<1>3. QED BY <1>2, StaleAfter, TwoSides

\* What the two sides are told by a packet that opens.
LEMMA NotesKeep ==
    ASSUME TypeOK, UpdatesInvariant, StaleInvariant, NEW s \in Perspective, NEW n,
           Notes(s, n), SameSide(Peer(s)), packets'[s] = packets[s],
           first'[s] \in {n, first[s]}, lowest'[s] \in {0, lowest[s]}
    PROVE  ReceiptsOK(s)' /\ ReceiptsOK(Peer(s))'
<1> DEFINE t == Peer(s)
<1>1. t \in Perspective /\ Peer(t) = s /\ Peer(s) = t
    BY BothSides
<1>2. ReceiptsOK(s) /\ ReceiptsOK(t)
    BY BothSides DEF StaleOK
<1>3. /\ packets'[t] = packets[t] /\ lowest'[t] = lowest[t]
      /\ opened'[t] = opened[t] /\ acked'[t] = acked[t] /\ first'[t] = first[t]
    BY DEF SameSide, SameQueue, SameReceipts
<1>4. /\ n \in 1..Len(packets[t]) /\ opened'[s] = opened[s] \union {n}
      /\ acked'[s] = acked[s] \union packets[t][n].ack
    BY DEF Notes
<1>5. Len(packets[s]) \in Nat /\ Len(packets[t]) \in Nat
    BY BothSides DEF SideTypes
<1> HIDE DEF t
<1>6. ReceiptsOK(s)'
    BY <1>1, <1>2, <1>3, <1>4, <1>5 DEF ReceiptsOK
<1>7. ReceiptsOK(t)'
    BY <1>1, <1>2, <1>3, <1>4 DEF ReceiptsOK
<1>8. QED BY <1>6, <1>7 DEF t

LEMMA OpensKeeps ==
    ASSUME TypeOK, UpdatesInvariant, StaleInvariant, NEW s \in Perspective, NEW n,
           Opens(s, n), SameSide(Peer(s)), UNCHANGED use_null_one_rtt_crypter
    PROVE  StaleInvariant'
<1> DEFINE t == Peer(s)
<1>1. t \in Perspective /\ Peer(t) = s /\ Peer(s) = t
    BY BothSides
<1>2. StaleOK(s) /\ StaleOK(t) /\ SideTypes(s) /\ SideTypes(t)
    BY BothSides
<1>3. /\ packets'[t] = packets[t] /\ lowest'[t] = lowest[t]
      /\ opened'[t] = opened[t] /\ acked'[t] = acked[t]
      /\ phase'[t] = phase[t] /\ Epoch(t)' = Epoch(t)
      /\ previous'[t] = previous[t] /\ first'[t] = first[t]
    BY DEF SameSide, SameQueue, SameReceipts, SamePhase
<1>4. /\ n \in 1..Len(packets[t]) /\ opened'[s] = opened[s] \union {n}
      /\ packets'[s] = packets[s] /\ lowest'[s] = lowest[s]
      /\ phase'[s] = phase[s] /\ Epoch(s)' = Epoch(s) /\ previous'[s] = previous[s]
      /\ \/ first'[s] = IF first[s] = 0 THEN n ELSE first[s]
         \/ first'[s] = first[s] /\ previous[s] # None
    BY DEF Opens, Notes, SameQueue, SamePhase
<1>5. n \in Nat /\ n # 0 /\ first[s] \in Nat
    BY <1>2, <1>4 DEF SideTypes
<1>6. ReceiptsOK(s)' /\ ReceiptsOK(t)'
    BY <1>4, NotesKeep DEF Opens
<1> HIDE DEF t
<1>7. ASSUME Both(TRUE) PROVE NullOK(s)' /\ NullOK(t)'
    <2>1. NullOK(s) /\ NullOK(t)
        BY <1>2, <1>7 DEF StaleOK
    <2>2. ~(first'[s] = 0 /\ previous'[s] = None)
        BY <1>4, <1>5
    <2>3. UntouchedOK(t)'
        BY <1>1, <1>3, <1>4, <2>1 DEF NullOK, UntouchedOK
    <2>4. QED BY <1>1, <1>3, <1>4, <2>1, <2>2, <2>3 DEF NullOK, UntouchedOK
<1>8. ASSUME Both(FALSE)
      PROVE  /\ PacketsDated(s)' /\ PhasesClose(s)'
             /\ PacketsDated(t)' /\ PhasesClose(t)'
    <2>1. PacketsDated(s) /\ PhasesClose(s) /\ PacketsDated(t) /\ PhasesClose(t)
        BY <1>2, <1>8 DEF StaleOK
    <2>2. PacketsDated(s)' /\ PacketsDated(t)'
        BY <1>3, <1>4, <2>1 DEF PacketsDated, EpochOf
    <2>3. PhasesClose(t)'
        BY <1>1, <1>3, <1>4, <2>1 DEF PhasesClose, EpochOf
    <2>4. Epoch(s) \in Nat
        BY <1>2, <1>8 DEF SideTypes
    <2>5. \/ /\ packets[t][n].key.epoch = Epoch(s)
             /\ first'[s] = IF first[s] = 0 THEN n ELSE first[s]
          \/ /\ packets[t][n].key.epoch = Epoch(s) - 1
             /\ first'[s] = first[s]
        <3>1. CASE /\ packets[t][n].key = OpensAt(s, Epoch(s))
                   /\ first'[s] = IF first[s] = 0 THEN n ELSE first[s]
            BY <1>1, <1>8, <3>1 DEF OpensAt, Both, Aead
        <3>2. CASE /\ packets[t][n].key = previous[s] /\ previous[s] # None
                   /\ first'[s] = first[s]
            <4>1. previous[s] = Aead(t, OneRtt, Epoch(s) - 1)
                BY <1>1, <2>1, <3>2 DEF PhasesClose
            <4>2. QED BY <3>2, <4>1 DEF Aead
        <3>3. QED BY <3>1, <3>2 DEF Opens, t
    <2>6. first'[s] # 0 => packets[t][first'[s]].key.epoch = Epoch(s)
        BY <1>1, <1>5, <2>1, <2>5 DEF PhasesClose, EpochOf
    <2>7. first[s] # 0 => first'[s] # 0
        BY <2>5
    <2>8. \A m \in opened'[s] :
            /\ packets[t][m].key.epoch <= Epoch(s)
            /\ packets[t][m].key.epoch = Epoch(s) => first'[s] # 0
        <3> SUFFICES ASSUME NEW m \in opened'[s]
                     PROVE  /\ packets[t][m].key.epoch <= Epoch(s)
                            /\ packets[t][m].key.epoch = Epoch(s) => first'[s] # 0
            OBVIOUS
        <3>1. CASE m \in opened[s]
            BY <1>1, <2>1, <2>7, <3>1 DEF PhasesClose, EpochOf
        <3>2. CASE m = n
            BY <1>5, <2>4, <2>5, <3>2
        <3>3. QED BY <1>4, <3>1, <3>2
    <2>9. PhasesClose(s)'
        <3>1. /\ previous[s] = None => Epoch(s) = 0 \/ first'[s] # 0
              /\ previous[s] # None =>
                    Epoch(s) > 0 /\ previous[s] = Aead(t, OneRtt, Epoch(s) - 1)
              /\ Epoch(t) <= Epoch(s) + 1
              /\ Epoch(t) = Epoch(s) + 1 => first'[s] # 0
            BY <1>1, <2>1, <2>7 DEF PhasesClose
        <3>2. /\ previous'[s] = previous[s] /\ Epoch(s)' = Epoch(s)
              /\ packets'[Peer(s)] = packets[t] /\ Epoch(Peer(s))' = Epoch(t)
            BY <1>1, <1>3, <1>4
        <3>3. \A m : packets'[Peer(s)][m] = packets[t][m]
            BY <3>2
        <3>4. ASSUME NEW m, m \in opened'[s]
              PROVE  /\ packets'[Peer(s)][m].key.epoch <= Epoch(s)'
                     /\ packets'[Peer(s)][m].key.epoch = Epoch(s)' => first'[s] # 0
            BY <2>4, <2>8, <3>2, <3>3, <3>4
        <3>5. QED BY <1>1, <2>6, <3>1, <3>2, <3>4 DEF PhasesClose, EpochOf
    <2>10. QED BY <2>2, <2>3, <2>9
<1>9. StaleOK(s)' /\ StaleOK(t)'
    BY <1>6, <1>7, <1>8, ModeStays DEF StaleOK
<1>10. QED BY <1>9, StaleAfter DEF t

LEMMA DiscardsKeep ==
    ASSUME TypeOK, UpdatesInvariant, StaleInvariant, NEW s \in Perspective,
           Discards(s), SameSide(Peer(s)), UNCHANGED use_null_one_rtt_crypter
    PROVE  StaleInvariant'
<1> DEFINE t == Peer(s)
<1>1. t \in Perspective /\ Peer(t) = s /\ Peer(s) = t
    BY BothSides
<1>2. StaleOK(s) /\ StaleOK(t) /\ SideTypes(s) /\ SideTypes(t)
    BY BothSides
<1>3. /\ packets'[t] = packets[t] /\ lowest'[t] = lowest[t]
      /\ opened'[t] = opened[t] /\ acked'[t] = acked[t]
      /\ phase'[t] = phase[t] /\ Epoch(t)' = Epoch(t)
      /\ previous'[t] = previous[t] /\ first'[t] = first[t]
    BY DEF SameSide, SameQueue, SameReceipts, SamePhase
<1>4. /\ packets'[s] = packets[s] /\ lowest'[s] = lowest[s]
      /\ opened'[s] = opened[s] /\ acked'[s] = acked[s]
      /\ phase'[s] = phase[s] /\ Epoch(s)' = Epoch(s)
      /\ previous'[s] = None /\ first'[s] = first[s] /\ first[s] # 0
    BY DEF Discards, SameQueue, SameReceipts, SamePhase
<1> HIDE DEF t
<1>5. ReceiptsOK(s)' /\ ReceiptsOK(t)'
    BY <1>1, <1>2, <1>3, <1>4 DEF StaleOK, ReceiptsOK
<1>6. ASSUME Both(TRUE) PROVE NullOK(s)' /\ NullOK(t)'
    <2>1. NullOK(s) /\ NullOK(t)
        BY <1>2, <1>6 DEF StaleOK
    <2>2. UntouchedOK(t)'
        BY <1>1, <1>3, <1>4, <2>1 DEF NullOK, UntouchedOK
    <2>3. QED BY <1>1, <1>3, <1>4, <2>1, <2>2 DEF NullOK, UntouchedOK
<1>7. ASSUME Both(FALSE)
      PROVE  /\ PacketsDated(s)' /\ PhasesClose(s)'
             /\ PacketsDated(t)' /\ PhasesClose(t)'
    <2>1. PacketsDated(s) /\ PhasesClose(s) /\ PacketsDated(t) /\ PhasesClose(t)
        BY <1>2, <1>7 DEF StaleOK
    <2>2. PacketsDated(s)' /\ PacketsDated(t)'
        BY <1>3, <1>4, <2>1 DEF PacketsDated, EpochOf
    <2>3. PhasesClose(s)'
        BY <1>1, <1>3, <1>4, <2>1 DEF PhasesClose, EpochOf
    <2>4. PhasesClose(t)'
        BY <1>1, <1>3, <1>4, <2>1 DEF PhasesClose, EpochOf
    <2>5. QED BY <2>2, <2>3, <2>4
<1>8. StaleOK(s)' /\ StaleOK(t)'
    BY <1>5, <1>6, <1>7, ModeStays DEF StaleOK
<1>9. QED BY <1>8, StaleAfter DEF t

\* The next phase has the other phase bit.
LEMMA PhaseBits == ASSUME NEW e \in Nat PROVE PhaseBit(e + 1) <=> ~PhaseBit(e)
    BY DEF PhaseBit

\* What side s sent before it updated its keys is of the phases it was in.
LEMMA UpdateDates ==
    ASSUME TypeOK, UpdatesInvariant, NEW s \in Perspective,
           Updates(s), Both(FALSE), PacketsDated(s)
    PROVE  PacketsDated(s)' /\ Epoch(s)' = Epoch(s) + 1 /\ Epoch(s) \in Nat
<1>1. Epoch(s) \in Nat /\ phase[s] \in BOOLEAN /\ Len(packets[s]) \in Nat
    BY SideTypesHold DEF SideTypes
<1>2. /\ Epoch(s)' = Epoch(s) + 1 /\ packets'[s] = packets[s] /\ lowest'[s] = 0
      /\ phase'[s] = ~phase[s]
    BY DEF Updates, Both
<1>3. phase'[s] <=> PhaseBit(Epoch(s) + 1)
    BY <1>1, <1>2, PhaseBits DEF PacketsDated
<1>4. \A n \in 1..Len(packets[s]) :
        /\ packets[s][n].key = Aead(s, OneRtt, packets[s][n].key.epoch)
        /\ packets[s][n].key.epoch \in 0..Epoch(s) + 1
        /\ packets[s][n].phase <=> PhaseBit(packets[s][n].key.epoch)
    BY <1>1 DEF PacketsDated, EpochOf
<1>5. \A m, n \in 1..Len(packets[s]) :
        m <= n => packets[s][m].key.epoch <= packets[s][n].key.epoch
    BY DEF PacketsDated, EpochOf
<1>6. PacketsDated(s)'
    BY <1>2, <1>3, <1>4, <1>5 DEF PacketsDated, EpochOf
<1>7. QED BY <1>1, <1>2, <1>6

LEMMA UpdatesFirstKeeps ==
    ASSUME TypeOK, UpdatesInvariant, StaleInvariant, NEW s \in Perspective,
           UpdatesFirst(s), SameSide(Peer(s)), UNCHANGED use_null_one_rtt_crypter
    PROVE  StaleInvariant'
<1> DEFINE t == Peer(s)
<1>1. t \in Perspective /\ Peer(t) = s /\ Peer(s) = t
    BY BothSides
<1>2. StaleOK(s) /\ StaleOK(t) /\ SideTypes(s) /\ SideTypes(t)
    BY BothSides
<1>3. /\ packets'[t] = packets[t] /\ lowest'[t] = lowest[t]
      /\ opened'[t] = opened[t] /\ acked'[t] = acked[t]
      /\ phase'[t] = phase[t] /\ Epoch(t)' = Epoch(t)
      /\ previous'[t] = previous[t] /\ first'[t] = first[t]
    BY DEF SameSide, SameQueue, SameReceipts, SamePhase
<1>4. /\ packets'[s] = packets[s] /\ lowest'[s] = 0
      /\ opened'[s] = opened[s] /\ acked'[s] = acked[s]
      /\ previous'[s] = OpensAt(s, Epoch(s)) /\ first'[s] = 0
    BY DEF UpdatesFirst, Updates, SameReceipts
\* A packet of this phase the peer opened before it acknowledged it.
<1>5. PICK n \in acked[s] : n >= lowest[s] /\ lowest[s] # 0
    BY DEF UpdatesFirst
<1> HIDE DEF t
<1>6. n \in opened[t] /\ n \in 1..Len(packets[s]) /\ lowest[s] \in 1..Len(packets[s])
    BY <1>1, <1>2, <1>5 DEF StaleOK, ReceiptsOK, SideTypes
<1>7. ReceiptsOK(s)' /\ ReceiptsOK(t)'
    BY <1>1, <1>2, <1>3, <1>4 DEF StaleOK, ReceiptsOK, SideTypes
<1>8. ASSUME Both(TRUE) PROVE NullOK(s)' /\ NullOK(t)'
    <2>1. NullOK(s) /\ NullOK(t)
        BY <1>2, <1>8 DEF StaleOK
    <2>2. previous'[s] = Null(t) /\ Null(t) # None
        BY <1>1, <1>4, <1>8, KeysAreDistinct DEF OpensAt, Both
    <2>3. ~(first[t] = 0 /\ previous[t] = None)
        BY <1>6, <2>1 DEF NullOK, UntouchedOK
    <2>4. QED BY <1>1, <1>3, <1>4, <2>1, <2>2, <2>3 DEF NullOK, UntouchedOK
<1>9. ASSUME Both(FALSE)
      PROVE  /\ PacketsDated(s)' /\ PhasesClose(s)'
             /\ PacketsDated(t)' /\ PhasesClose(t)'
    <2>1. PacketsDated(s) /\ PhasesClose(s) /\ PacketsDated(t) /\ PhasesClose(t)
        BY <1>2, <1>9 DEF StaleOK
    <2>2. PacketsDated(s)' /\ Epoch(s)' = Epoch(s) + 1 /\ Epoch(s) \in Nat
        BY <1>9, <2>1, UpdateDates DEF UpdatesFirst
    <2>3. PacketsDated(t)'
        BY <1>3, <2>1 DEF PacketsDated, EpochOf
    <2>4. Epoch(t) \in Nat
        BY <1>2, <1>9 DEF SideTypes
    <2>5. previous'[s] = Aead(t, OneRtt, Epoch(s)) /\ previous'[s] # None
        BY <1>1, <1>4, <1>9, KeysAreDistinct DEF OpensAt, Both
    <2>6. PhasesClose(s)'
        <3>1. ASSUME NEW m \in opened[s]
              PROVE  /\ packets[t][m].key.epoch <= Epoch(s) + 1
                     /\ packets[t][m].key.epoch # Epoch(s) + 1
            <4>1. m \in 1..Len(packets[t]) /\ packets[t][m].key.epoch <= Epoch(s)
                BY <1>1, <1>2, <2>1 DEF PhasesClose, EpochOf, StaleOK, ReceiptsOK
            <4>2. packets[t][m].key.epoch \in 0..Epoch(t)
                BY <2>1, <4>1 DEF PacketsDated, EpochOf
            <4>3. QED BY <2>2, <2>4, <4>1, <4>2
        <3>2. Epoch(t) <= Epoch(s) + 2 /\ Epoch(t) # Epoch(s) + 2
            BY <1>1, <2>1, <2>2, <2>4 DEF PhasesClose
        <3>3. QED BY <1>1, <1>3, <1>4, <2>2, <2>4, <2>5, <3>1, <3>2
                  DEF PhasesClose, EpochOf
    <2>7. Epoch(s) <= Epoch(t) /\ (Epoch(s) = Epoch(t) => first[t] # 0)
        <3>1. /\ EpochOf(s, lowest[s]) = Epoch(s)
              /\ EpochOf(s, lowest[s]) <= EpochOf(s, n)
              /\ EpochOf(s, n) \in 0..Epoch(s)
            BY <1>5, <1>6, <2>1 DEF PacketsDated
        <3>2. EpochOf(s, n) = Epoch(s)
            BY <2>2, <3>1
        <3>3. QED BY <1>1, <1>6, <2>1, <3>2 DEF PhasesClose
    <2>8. PhasesClose(t)'
        <3>1. /\ Epoch(s) + 1 <= Epoch(t) + 1
              /\ Epoch(s) + 1 = Epoch(t) + 1 => first[t] # 0
            BY <2>2, <2>4, <2>7
        <3>2. QED BY <1>1, <1>3, <1>4, <2>1, <2>2, <3>1 DEF PhasesClose, EpochOf
    <2>9. QED BY <2>2, <2>3, <2>6, <2>8
<1>10. StaleOK(s)' /\ StaleOK(t)'
    BY <1>7, <1>8, <1>9, ModeStays DEF StaleOK
<1>11. QED BY <1>10, StaleAfter DEF t

LEMMA FollowsKeeps ==
    ASSUME TypeOK, UpdatesInvariant, StaleInvariant, NEW s \in Perspective, NEW n,
           Follows(s, n), SameSide(Peer(s)), UNCHANGED use_null_one_rtt_crypter
    PROVE  StaleInvariant'
<1> DEFINE t == Peer(s)
<1>1. t \in Perspective /\ Peer(t) = s /\ Peer(s) = t
    BY BothSides
<1>2. StaleOK(s) /\ StaleOK(t) /\ SideTypes(s) /\ SideTypes(t)
    BY BothSides
<1>3. /\ packets'[t] = packets[t] /\ lowest'[t] = lowest[t]
      /\ opened'[t] = opened[t] /\ acked'[t] = acked[t]
      /\ phase'[t] = phase[t] /\ Epoch(t)' = Epoch(t)
      /\ previous'[t] = previous[t] /\ first'[t] = first[t]
    BY DEF SameSide, SameQueue, SameReceipts, SamePhase
<1>4. /\ n \in 1..Len(packets[t]) /\ opened'[s] = opened[s] \union {n}
      /\ packets'[s] = packets[s] /\ lowest'[s] = 0 /\ first'[s] = n
      /\ previous'[s] = OpensAt(s, Epoch(s))
      /\ packets[t][n].key = OpensAt(s, Epoch(s) + 1)
      /\ packets[t][n].phase = ~phase[s]
    BY DEF Follows, Updates, Notes
<1>5. n \in Nat /\ n # 0
    BY <1>2, <1>4 DEF SideTypes
<1>6. ReceiptsOK(s)' /\ ReceiptsOK(t)'
    BY <1>4, NotesKeep DEF Follows
<1> HIDE DEF t
<1>7. ASSUME Both(TRUE) PROVE NullOK(s)' /\ NullOK(t)'
    <2>1. NullOK(s) /\ NullOK(t)
        BY <1>2, <1>7 DEF StaleOK
    <2>2. previous'[s] = Null(t)
        BY <1>1, <1>4, <1>7 DEF OpensAt, Both
    <2>3. ~(first[t] = 0 /\ previous[t] = None)
        BY <1>1, <1>4, <2>1 DEF NullOK, UntouchedOK
    <2>4. QED BY <1>1, <1>3, <1>4, <1>5, <2>1, <2>2, <2>3 DEF NullOK, UntouchedOK
<1>8. ASSUME Both(FALSE)
      PROVE  /\ PacketsDated(s)' /\ PhasesClose(s)'
             /\ PacketsDated(t)' /\ PhasesClose(t)'
    <2>1. PacketsDated(s) /\ PhasesClose(s) /\ PacketsDated(t) /\ PhasesClose(t)
        BY <1>2, <1>8 DEF StaleOK
    <2>2. PacketsDated(s)' /\ Epoch(s)' = Epoch(s) + 1 /\ Epoch(s) \in Nat
        BY <1>8, <2>1, UpdateDates DEF Follows
    <2>3. PacketsDated(t)'
        BY <1>3, <2>1 DEF PacketsDated, EpochOf
    <2>4. Epoch(t) \in Nat
        BY <1>2, <1>8 DEF SideTypes
    <2>5. previous'[s] = Aead(t, OneRtt, Epoch(s)) /\ previous'[s] # None
        BY <1>1, <1>4, <1>8, KeysAreDistinct DEF OpensAt, Both
    <2>6. packets[t][n].key.epoch = Epoch(s) + 1
        BY <1>1, <1>4, <1>8 DEF OpensAt, Both, Aead
    <2>7. Epoch(s) + 1 <= Epoch(t)
        BY <1>4, <2>1, <2>2, <2>4, <2>6 DEF PacketsDated, EpochOf
    <2>8. PhasesClose(s)'
        <3>1. ASSUME NEW m, m \in opened'[s]
              PROVE  packets[t][m].key.epoch <= Epoch(s) + 1
            <4>1. CASE m \in opened[s]
                <5>1. m \in 1..Len(packets[t]) /\ packets[t][m].key.epoch <= Epoch(s)
                    BY <1>1, <1>2, <2>1, <4>1
                    DEF PhasesClose, EpochOf, StaleOK, ReceiptsOK
                <5>2. packets[t][m].key.epoch \in 0..Epoch(t)
                    BY <2>1, <5>1 DEF PacketsDated, EpochOf
                <5>3. QED BY <2>2, <2>4, <5>1, <5>2
            <4>2. CASE m = n
                BY <2>2, <2>6, <4>2
            <4>3. QED BY <1>4, <3>1, <4>1, <4>2
        <3>2. Epoch(t) <= Epoch(s) + 1
            BY <1>1, <2>1, <2>2, <2>4 DEF PhasesClose
        <3>3. /\ packets'[Peer(s)] = packets[t] /\ Epoch(Peer(s))' = Epoch(t)
              /\ Epoch(s)' > 0 /\ Epoch(s) = Epoch(s)' - 1
              /\ previous'[s] = Aead(Peer(s), OneRtt, Epoch(s)' - 1)
            BY <1>1, <1>3, <2>2, <2>5
        <3>4. \A m \in opened'[s] : packets[t][m].key.epoch <= Epoch(s)'
            BY <2>2, <3>1
        <3>5. Epoch(t) <= Epoch(s)' + 1 /\ Epoch(t) # Epoch(s)' + 1
            BY <2>2, <2>4, <3>2
        <3>6. QED BY <1>4, <1>5, <2>2, <2>5, <2>6, <3>3, <3>4, <3>5
                  DEF PhasesClose, EpochOf
    <2>9. PhasesClose(t)'
        <3>1. Epoch(s) + 1 <= Epoch(t) + 1 /\ Epoch(s) + 1 # Epoch(t) + 1
            BY <2>2, <2>4, <2>7
        <3>2. QED BY <1>1, <1>3, <1>4, <2>1, <2>2, <3>1 DEF PhasesClose, EpochOf
    <2>10. QED BY <2>2, <2>3, <2>8, <2>9
<1>9. StaleOK(s)' /\ StaleOK(t)'
    BY <1>6, <1>7, <1>8, ModeStays DEF StaleOK
<1>10. QED BY <1>9, StaleAfter DEF t

-----------------------------------------------------------------------------
(* Every step is one of these. *)

LEMMA SendWithSends ==
    ASSUME TypeOK, NEW s \in Perspective, SendWith(s, SealsWith(s)),
           UNCHANGED <<use_null_one_rtt_crypter, previous, next, phase, first,
                       acked, opened, secret>>
    PROVE  Sends(s) /\ SameSide(Peer(s))
<1>1. Peer(s) \in Perspective /\ Peer(s) # s
    BY TwoSides
<1>2. \A r \in Perspective : SameReceipts(r) /\ SamePhase(r)
    BY DEF SameReceipts, SamePhase, Epoch
<1>3. Sends(s)
    BY <1>2 DEF SendWith, Sends, TypeOK
<1>4. SameSide(Peer(s))
    BY <1>1, <1>2 DEF SendWith, SameSide, SameQueue, TypeOK
<1>5. QED BY <1>3, <1>4

\* A step that leaves all of it alone.
LEMMA NothingChanges ==
    ASSUME UNCHANGED <<use_null_one_rtt_crypter, previous, next, phase, first,
                       packets, lowest, acked, opened, secret>>
    PROVE  \A r \in Perspective : SameSide(r)
    BY DEF SameSide, SameQueue, SameReceipts, SamePhase, Epoch

LEMMA HandshakeStale ==
    ASSUME TypeOK, UpdatesInvariant, StaleInvariant, Handshake
    PROVE  StaleInvariant'
<1>1. "IS_CLIENT" \in Perspective /\ "IS_SERVER" \in Perspective
    BY DEF Perspective
<1>2. ASSUME NEW s \in Perspective, decrypter[s][OneRtt] = None
      PROVE  OnNewEncryptionKeyAvailable(s, OneRtt) = SealsWith(s)
    <2>1. use_null_one_rtt_crypter[s] \in BOOLEAN /\ Epoch(s) = 0
        BY <1>2, KeysAtEpoch DEF TypeOK
    <2>2. QED BY <2>1, HookAnswers DEF SealsWith
<1>3. CASE ServerHello
    <2> DEFINE s == "IS_SERVER"
    <2>1. /\ encrypter[s]["ENCRYPTION_HANDSHAKE"] = None
          /\ SendWith(s, OnNewEncryptionKeyAvailable(s, OneRtt))
          /\ UNCHANGED <<use_null_one_rtt_crypter, previous, next, phase, first,
                         acked, opened, secret>>
        BY <1>3 DEF ServerHello
    <2>2. decrypter[s][OneRtt] = None
        BY <1>1, <2>1 DEF UpdatesInvariant, KeysInOrder
    <2>3. SendWith(s, SealsWith(s))
        BY <1>1, <1>2, <2>1, <2>2
    <2>4. QED BY <1>1, <2>1, <2>3, SendWithSends, SendsKeeps
<1>4. CASE ServerFinishedReceived
    <2> DEFINE s == "IS_CLIENT"
    <2>1. /\ decrypter[s][OneRtt] = None
          /\ SendWith(s, OnNewEncryptionKeyAvailable(s, OneRtt))
          /\ UNCHANGED <<use_null_one_rtt_crypter, previous, next, phase, first,
                         acked, opened, secret>>
        BY <1>4 DEF ServerFinishedReceived
    <2>2. SendWith(s, SealsWith(s))
        BY <1>1, <1>2, <2>1
    <2>3. QED BY <1>1, <2>1, <2>2, SendWithSends, SendsKeeps
<1>5. CASE ServerHelloReceived \/ ClientFinishedReceived
    <2>1. \A r \in Perspective : SameSide(r)
        BY <1>5, NothingChanges
        DEF ServerHelloReceived, ClientFinishedReceived, connectionVars
    <2>2. UNCHANGED use_null_one_rtt_crypter
        BY <1>5 DEF ServerHelloReceived, ClientFinishedReceived
    <2>3. QED BY <1>1, <2>1, <2>2, TwoSides, QuietKeeps
<1>6. QED BY <1>3, <1>4, <1>5 DEF Handshake

\* The decrypter of the next phase is made, and the keys stay as they are.
LEMMA PreparedQuiet ==
    ASSUME TypeOK, UpdatesInvariant, NEW s \in Perspective, Complete(s),
           next' = [next EXCEPT ![s] = NextDecrypter(s)],
           secret' = [secret EXCEPT ![s] = NextSecret(s)],
           UNCHANGED <<use_null_one_rtt_crypter, previous, phase, first,
                       packets, lowest, acked, opened>>
    PROVE  SameSide(s) /\ SameSide(Peer(s))
<1>1. Peer(s) \in Perspective /\ Peer(s) # s
    BY TwoSides
<1>2. /\ next'[s] = NextDecrypter(s) /\ secret'[s] = NextSecret(s)
      /\ next'[Peer(s)] = next[Peer(s)] /\ secret'[Peer(s)] = secret[Peer(s)]
    BY <1>1 DEF TypeOK
<1>3. NextDecrypter(s) # None
    BY NextPhase DEF UpdatesInvariant
<1>4. ~use_null_one_rtt_crypter[s] => NextSecret(s) - 1 = Epoch(s)
    BY KeysAtEpoch
<1>5. Epoch(s)' = Epoch(s)
    BY <1>2, <1>3, <1>4 DEF Epoch
<1>6. Epoch(Peer(s))' = Epoch(Peer(s))
    BY <1>2 DEF Epoch
<1>7. QED BY <1>5, <1>6 DEF SameSide, SameQueue, SameReceipts, SamePhase

\* A key update is one, whoever began it.
LEMMA KeyUpdateUpdates ==
    ASSUME TypeOK, UpdatesInvariant, NEW s \in Perspective, NEW n, Complete(s),
           DoKeyUpdate(s, n), UNCHANGED <<use_null_one_rtt_crypter, packets>>
    PROVE  /\ Updates(s) /\ first'[s] = n
           /\ UNCHANGED <<opened[Peer(s)], acked[Peer(s)]>> => SameSide(Peer(s))
<1>1. Peer(s) \in Perspective /\ Peer(s) # s
    BY TwoSides
<1>2. /\ previous'[s] = decrypter[s][OneRtt] /\ next'[s] = None
      /\ secret'[s] = NextSecret(s) /\ phase'[s] = ~phase[s]
      /\ first'[s] = n /\ lowest'[s] = 0
    BY DEF DoKeyUpdate, TypeOK
<1>3. previous'[s] = OpensAt(s, Epoch(s))
    BY <1>2, KeysAtEpoch DEF Complete
<1>4. ~use_null_one_rtt_crypter[s] => Epoch(s)' = Epoch(s) + 1
    BY <1>2, KeysAtEpoch DEF Epoch
<1>5. /\ previous'[Peer(s)] = previous[Peer(s)] /\ next'[Peer(s)] = next[Peer(s)]
      /\ secret'[Peer(s)] = secret[Peer(s)] /\ phase'[Peer(s)] = phase[Peer(s)]
      /\ first'[Peer(s)] = first[Peer(s)] /\ lowest'[Peer(s)] = lowest[Peer(s)]
    BY <1>1 DEF DoKeyUpdate, TypeOK
<1>6. Epoch(Peer(s))' = Epoch(Peer(s))
    BY <1>5 DEF Epoch
<1>7. QED BY <1>2, <1>3, <1>4, <1>5, <1>6
          DEF Updates, SameSide, SameQueue, SameReceipts, SamePhase

LEMMA ReceiveStale ==
    ASSUME TypeOK, UpdatesInvariant, StaleInvariant, NEW s \in Perspective, NEW n,
           ReceivePacket(s, n)
    PROVE  StaleInvariant'
<1> DEFINE p == packets[Peer(s)][n]
<1>1. Peer(s) \in Perspective /\ Peer(s) # s
    BY TwoSides
<1>2. /\ Complete(s) /\ n \in 1..Len(packets[Peer(s)])
      /\ UNCHANGED use_null_one_rtt_crypter
    BY DEF ReceivePacket
<1>3. /\ decrypter[s][OneRtt] = OpensAt(s, Epoch(s))
      /\ NextDecrypter(s) = OpensAt(s, Epoch(s) + 1)
    BY <1>2, KeysAtEpoch DEF Complete
<1>4. p.key # None
    BY <1>1, <1>2, TwoSides DEF StaleInvariant, ReceiptsOK
<1>5. ASSUME Open(s, n) PROVE Notes(s, n) /\ SameReceipts(Peer(s))
    BY <1>1, <1>2, <1>5 DEF Open, Notes, SameReceipts, TypeOK
<1>6. CASE ReceiveCurrent(s, n)
    <2>1. CASE /\ p.key = decrypter[s][OneRtt] /\ Open(s, n) /\ UNCHANGED lowest
               /\ first' = [first EXCEPT ![s] = IF @ = 0 THEN n ELSE @]
        <3>1. /\ first'[s] = IF first[s] = 0 THEN n ELSE first[s]
              /\ first'[Peer(s)] = first[Peer(s)]
              /\ UNCHANGED <<packets, lowest, previous, next, phase, secret>>
            BY <1>1, <1>6, <2>1 DEF ReceiveCurrent, Open, TypeOK
        <3>2. Opens(s, n)
            BY <1>2, <1>3, <1>5, <2>1, <3>1 DEF Opens, SameQueue, SamePhase, Epoch
        <3>3. SameSide(Peer(s))
            BY <1>2, <1>5, <2>1, <3>1 DEF SameSide, SameQueue, SamePhase, Epoch
        <3>4. QED BY <1>2, <3>2, <3>3, OpensKeeps
    <2>2. CASE Refuse(s, n) /\ UNCHANGED first
        <3>1. SameSide(s) /\ SameSide(Peer(s))
            BY <1>1, <1>2, <1>6, <2>2, NothingChanges DEF ReceiveCurrent, Refuse
        <3>2. QED BY <1>2, <3>1, QuietKeeps
    <2>3. QED BY <1>6, <2>1, <2>2 DEF ReceiveCurrent
<1>7. CASE ReceivePrevious(s, n)
    <2>1. CASE p.key = previous[s] /\ Open(s, n) /\ UNCHANGED lowest
        <3>1. /\ UNCHANGED <<packets, lowest, previous, next, phase, first, secret>>
              /\ first[s] = 0 \/ n < first[s]
            BY <1>7, <2>1 DEF ReceivePrevious, Open, framerVars
        <3>2. Opens(s, n)
            BY <1>2, <1>4, <1>5, <2>1, <3>1 DEF Opens, SameQueue, SamePhase, Epoch
        <3>3. SameSide(Peer(s))
            BY <1>2, <1>5, <2>1, <3>1 DEF SameSide, SameQueue, SamePhase, Epoch
        <3>4. QED BY <1>2, <3>2, <3>3, OpensKeeps
    <2>2. CASE Refuse(s, n)
        <3>1. SameSide(s) /\ SameSide(Peer(s))
            BY <1>1, <1>2, <1>7, <2>2, NothingChanges
            DEF ReceivePrevious, Refuse, framerVars
        <3>2. QED BY <1>2, <3>1, QuietKeeps
    <2>3. QED BY <1>7, <2>1, <2>2 DEF ReceivePrevious
<1>8. CASE ReceiveNext(s, n)
    <2>1. CASE p.key = NextDecrypter(s) /\ DoKeyUpdate(s, n) /\ Open(s, n)
        <3>1. Notes(s, n) /\ UNCHANGED packets
            BY <1>5, <2>1 DEF Open
        <3>2. Updates(s) /\ first'[s] = n /\ SameSide(Peer(s))
            BY <1>2, <1>5, <2>1, <3>1, KeyUpdateUpdates DEF SameReceipts
        <3>3. p.key.kind = decrypter[s][OneRtt].kind
            BY <1>3, <2>1 DEF OpensAt, Null, Aead
        <3>4. p.phase = ~phase[s] /\ first[s] # 0 /\ n > first[s]
            <4>1. PhaseRead(s, n) = {p.phase}
                BY <3>3 DEF PhaseRead
            <4> HIDE DEF p
            <4>2. (~phase[s]) \in PhaseRead(s, n)
                BY <1>8 DEF ReceiveNext
            <4>3. p.phase = ~phase[s]
                BY <4>1, <4>2, Zenon
            <4>4. QED BY <1>8, <4>3 DEF ReceiveNext
        <3>5. Follows(s, n)
            BY <1>3, <2>1, <3>1, <3>2, <3>4 DEF Follows
        <3>6. QED BY <1>2, <3>2, <3>5, FollowsKeeps
    <2>2. CASE /\ next' = [next EXCEPT ![s] = NextDecrypter(s)]
               /\ secret' = [secret EXCEPT ![s] = NextSecret(s)]
               /\ Refuse(s, n)
               /\ UNCHANGED <<encrypter, decrypter, previous, phase, first>>
        <3>1. SameSide(s) /\ SameSide(Peer(s))
            BY <1>2, <2>2, PreparedQuiet DEF Refuse
        <3>2. QED BY <1>2, <3>1, QuietKeeps
    <2>3. QED BY <1>8, <2>1, <2>2 DEF ReceiveNext
<1>9. QED BY <1>6, <1>7, <1>8 DEF ReceivePacket

LEMMA SideStale ==
    ASSUME TypeOK, UpdatesInvariant, StaleInvariant, NEW s \in Perspective,
           \/ Send(s) \/ Receive(s) \/ InitiateKeyUpdate(s)
           \/ ReceiveDamaged(s) \/ DiscardPreviousOneRttKeys(s)
    PROVE  StaleInvariant'
<1>1. Peer(s) \in Perspective /\ Peer(s) # s
    BY TwoSides
<1>2. CASE Send(s)
    <2>1. encrypter[s][OneRtt] = SealsWith(s)
        BY <1>2, KeysAtEpoch DEF Send
    <2>2. SendWith(s, SealsWith(s))
        BY <1>2, <2>1 DEF Send
    <2>3. QED BY <1>2, <2>2, SendWithSends, SendsKeeps DEF Send, framerVars
<1>3. CASE Receive(s)
    BY <1>3, ReceiveStale DEF Receive
<1>4. CASE InitiateKeyUpdate(s)
    <2>1. /\ Complete(s) /\ DoKeyUpdate(s, 0)
          /\ UNCHANGED <<use_null_one_rtt_crypter, packets, acked, opened>>
          /\ lowest[s] # 0 /\ \E n \in acked[s] : n >= lowest[s]
        BY <1>4 DEF InitiateKeyUpdate
    <2>2. Updates(s) /\ first'[s] = 0 /\ SameSide(Peer(s))
        BY <2>1, KeyUpdateUpdates
    <2>3. UpdatesFirst(s)
        BY <2>1, <2>2 DEF UpdatesFirst, SameReceipts
    <2>4. QED BY <2>1, <2>2, <2>3, UpdatesFirstKeeps
<1>5. CASE ReceiveDamaged(s)
    <2>1. SameSide(s) /\ SameSide(Peer(s)) /\ UNCHANGED use_null_one_rtt_crypter
        BY <1>5, PreparedQuiet DEF ReceiveDamaged, connectionVars
    <2>2. QED BY <2>1, QuietKeeps
<1>6. CASE DiscardPreviousOneRttKeys(s)
    <2>1. /\ previous'[s] = None /\ previous'[Peer(s)] = previous[Peer(s)]
          /\ first[s] # 0
          /\ UNCHANGED <<use_null_one_rtt_crypter, next, phase, first, packets,
                         lowest, acked, opened, secret>>
        BY <1>1, <1>6 DEF DiscardPreviousOneRttKeys, connectionVars, TypeOK
    <2>2. Discards(s) /\ SameSide(Peer(s))
        BY <2>1 DEF Discards, SameSide, SameQueue, SameReceipts, SamePhase, Epoch
    <2>3. QED BY <2>1, <2>2, DiscardsKeep
<1>7. QED BY <1>2, <1>3, <1>4, <1>5, <1>6

-----------------------------------------------------------------------------
(* The invariant and what follows from it. *)

LEMMA StaleAtFirst == Init => StaleInvariant
<1> SUFFICES ASSUME Init PROVE StaleInvariant
    OBVIOUS
<1>1. \A s \in Perspective :
        /\ packets[s] = <<>> /\ Len(packets[s]) = 0 /\ opened[s] = {} /\ acked[s] = {}
        /\ first[s] = 0 /\ lowest[s] = 0 /\ phase[s] = FALSE
        /\ previous[s] = None /\ Epoch(s) = 0
    BY DEF Init, Sides, Epoch
<1>2. ASSUME NEW s \in Perspective
      PROVE  ReceiptsOK(s) /\ NullOK(s) /\ PacketsDated(s) /\ PhasesClose(s)
    <2>1. Peer(s) \in Perspective
        BY TwoSides
    <2>2. ReceiptsOK(s)
        BY <1>1, <2>1 DEF ReceiptsOK
    <2>3. NullOK(s)
        BY <1>1, <2>1 DEF NullOK, UntouchedOK
    <2>4. PacketsDated(s)
        BY <1>1 DEF PacketsDated, PhaseBit
    <2>5. PhasesClose(s)
        BY <1>1, <2>1 DEF PhasesClose
    <2>6. QED BY <2>2, <2>3, <2>4, <2>5
<1>3. QED BY <1>2 DEF StaleInvariant

LEMMA StaysStale ==
    TypeOK /\ UpdatesInvariant /\ StaleInvariant /\ [Next]_vars => StaleInvariant'
<1>1. ASSUME TypeOK, UpdatesInvariant, StaleInvariant, UNCHANGED vars
      PROVE  StaleInvariant'
    <2>1. "IS_CLIENT" \in Perspective
        BY DEF Perspective
    <2>2. UNCHANGED use_null_one_rtt_crypter /\ \A r \in Perspective : SameSide(r)
        BY <1>1, NothingChanges DEF vars, framerVars, connectionVars
    <2>3. QED BY <1>1, <2>1, <2>2, TwoSides, QuietKeeps
<1>2. QED BY <1>1, HandshakeStale, SideStale DEF Next

\* The keys of the two sides are never more than a phase apart, and what each
\* knows of the other's phase is what it has received.
THEOREM StaleInvariantHolds == Spec => []StaleInvariant
    BY StaleAtFirst, StaysStale, TypeCorrect, UpdatesInvariantHolds, PTL DEF Spec

\* A refused packet comes from Refuse, in one of three places.
LEMMA RefusedBy ==
    ASSUME TypeOK, NEW s \in Perspective, NEW n \in refused'[s] \ refused[s], Next
    PROVE  /\ Complete(s) /\ n \in 1..Len(packets[Peer(s)])
           /\ n \notin opened[s] \union refused[s]
           /\ \/ /\ phase[s] \in PhaseRead(s, n)
                 /\ packets[Peer(s)][n].key # decrypter[s][OneRtt]
              \/ /\ (~phase[s]) \in PhaseRead(s, n)
                 /\ first[s] = 0 \/ n < first[s]
                 /\ packets[Peer(s)][n].key # previous[s]
              \/ /\ (~phase[s]) \in PhaseRead(s, n)
                 /\ first[s] # 0 /\ n > first[s]
                 /\ packets[Peer(s)][n].key # NextDecrypter(s)
<1>1. ASSUME UNCHANGED refused PROVE FALSE
    BY <1>1
<1>2. ASSUME Handshake PROVE FALSE
    BY <1>1, <1>2 DEF Handshake, ServerHello, ServerHelloReceived,
                      ServerFinishedReceived, ClientFinishedReceived, connectionVars
<1>3. PICK r \in Perspective :
        \/ Send(r) \/ Receive(r) \/ InitiateKeyUpdate(r)
        \/ ReceiveDamaged(r) \/ DiscardPreviousOneRttKeys(r)
    BY <1>2 DEF Next
<1>4. CASE Send(r) \/ InitiateKeyUpdate(r) \/ ReceiveDamaged(r)
              \/ DiscardPreviousOneRttKeys(r)
    BY <1>1, <1>4 DEF Send, InitiateKeyUpdate, ReceiveDamaged,
                      DiscardPreviousOneRttKeys, connectionVars
<1>5. CASE Receive(r)
    <2>1. PICK m \in 1..MaxPackets : ReceivePacket(r, m)
        BY <1>5 DEF Receive
    <2>2. ASSUME Open(r, m) PROVE FALSE
        BY <1>1, <2>2 DEF Open
    <2>3. ASSUME Refuse(r, m) PROVE r = s /\ m = n
        BY <2>3 DEF Refuse, TypeOK
    <2>4. QED BY <2>1, <2>2, <2>3 DEF ReceivePacket, ReceiveCurrent, ReceivePrevious,
                                      ReceiveNext
<1>6. QED BY <1>3, <1>4, <1>5

\* Null crypters decrypt what they did before an update.
LEMMA NullRefusal ==
    ASSUME TypeOK, UpdatesInvariant, StaleInvariant, Both(TRUE), Next,
           NEW s \in Perspective, NEW n \in refused'[s] \ refused[s]
    PROVE  previous[s] = None /\ n < first[s]
<1> DEFINE p == packets[Peer(s)][n]
<1>1. Peer(s) \in Perspective
    BY TwoSides
<1>2. Complete(s) /\ n \in 1..Len(packets[Peer(s)])
    BY RefusedBy
<1>3. NullOK(s) /\ NullOK(Peer(s))
    BY <1>1 DEF StaleInvariant
<1>4. /\ decrypter[s][OneRtt] = Null(Peer(s)) /\ NextDecrypter(s) = Null(Peer(s))
      /\ p.key = Null(Peer(s))
    BY <1>2, <1>3, KeysAtEpoch DEF OpensAt, Both, Complete, NullOK
<1>5. PhaseRead(s, n) = {p.phase}
    BY <1>4 DEF PhaseRead, Null
<1>6. /\ (~phase[s]) \in {p.phase} /\ previous[s] = None
      /\ first[s] = 0 \/ n < first[s]
    BY <1>3, <1>4, <1>5, RefusedBy DEF NullOK
<1>7. first[s] # 0
    <2>1. phase[s] \in BOOLEAN
        BY DEF TypeOK
    <2>2. SUFFICES ASSUME first[s] = 0 PROVE FALSE
        OBVIOUS
    <2>3. ~phase[s] /\ ~p.phase
        BY <1>2, <1>3, <1>6, <2>2 DEF NullOK, UntouchedOK
    <2>4. p.phase = ~phase[s]
        BY <1>6, Zenon
    <2>5. QED BY <2>3, <2>4
<1>8. QED BY <1>6, <1>7

\* Phases of one phase bit are not neighbours.
LEMMA SameBit ==
    ASSUME NEW e \in Nat, NEW f \in Nat, PhaseBit(e) <=> PhaseBit(f), e # f, e <= f + 1
    PROVE  e + 1 < f
<1>1. e # f + 1 /\ f # e + 1
    BY PhaseBits
<1>2. QED BY <1>1

\* Under real keys it is of an older phase than the previous decrypter.
LEMMA StandardRefusal ==
    ASSUME TypeOK, UpdatesInvariant, StaleInvariant, Both(FALSE), Next,
           NEW s \in Perspective, NEW n \in refused'[s] \ refused[s]
    PROVE  \/ previous[s] = None /\ n < first[s]
           \/ packets[Peer(s)][n].key.epoch < previous[s].epoch
<1> DEFINE t == Peer(s)
           p == packets[t][n]
           e == p.key.epoch
<1>1. t \in Perspective
    BY TwoSides
<1>2. Complete(s) /\ n \in 1..Len(packets[t])
    BY RefusedBy
<1>3. PacketsDated(s) /\ PacketsDated(t) /\ PhasesClose(s) /\ ReceiptsOK(s)
    BY <1>1 DEF StaleInvariant
<1>4. /\ Epoch(s) \in Nat /\ Epoch(t) \in Nat /\ phase[s] \in BOOLEAN
      /\ p.phase \in BOOLEAN /\ Len(packets[t]) \in Nat
    BY <1>1, <1>2, SideTypesHold DEF SideTypes
<1>5. /\ decrypter[s][OneRtt] = Aead(t, OneRtt, Epoch(s))
      /\ NextDecrypter(s) = Aead(t, OneRtt, Epoch(s) + 1)
    BY <1>2, KeysAtEpoch DEF OpensAt, Both, Complete
<1>6. /\ p.key = Aead(t, OneRtt, e) /\ e \in 0..Epoch(t) /\ Epoch(t) <= Epoch(s) + 1
      /\ p.phase <=> PhaseBit(e)
    BY <1>2, <1>3 DEF PacketsDated, PhasesClose, EpochOf
<1>7. PhaseRead(s, n) = {p.phase}
    BY <1>5, <1>6 DEF PhaseRead, Aead
<1>8. first[s] # 0 => /\ first[s] \in 1..Len(packets[t])
                      /\ packets[t][first[s]].key.epoch = Epoch(s)
                      /\ n <= first[s] => e <= Epoch(s)
                      /\ first[s] <= n => Epoch(s) <= e
    <2>1. first[s] # 0 => first[s] \in 1..Len(packets[t])
        BY <1>3, <1>4 DEF ReceiptsOK
    <2>2. QED BY <1>2, <1>3, <2>1 DEF PhasesClose, PacketsDated, EpochOf
<1>9. /\ previous[s] = None => Epoch(s) = 0 \/ first[s] # 0
      /\ previous[s] # None => /\ previous[s] = Aead(t, OneRtt, Epoch(s) - 1)
                               /\ previous[s].epoch = Epoch(s) - 1
      /\ Epoch(t) = Epoch(s) + 1 => first[s] # 0
    BY <1>3 DEF PhasesClose, Aead
<1> HIDE DEF t, p, e
<1>10. CASE phase[s] \in PhaseRead(s, n) /\ p.key # decrypter[s][OneRtt]
    <2>1. p.phase = phase[s]
        BY <1>7, <1>10, Zenon
    <2>2. PhaseBit(e) <=> PhaseBit(Epoch(s))
        BY <1>3, <1>6, <2>1 DEF PacketsDated
    <2>3. e # Epoch(s)
        BY <1>5, <1>6, <1>10
    <2>4. e + 1 < Epoch(s)
        BY <1>4, <1>6, <2>2, <2>3, SameBit
    <2>5. CASE previous[s] = None
        BY <1>2, <1>4, <1>6, <1>8, <1>9, <2>4, <2>5
    <2>6. CASE previous[s] # None
        BY <1>4, <1>6, <1>9, <2>4, <2>6 DEF p, t, e
    <2>7. QED BY <2>5, <2>6
<1>11. CASE /\ (~phase[s]) \in PhaseRead(s, n)
            /\ first[s] = 0 \/ n < first[s]
            /\ p.key # previous[s]
    <2>1. p.phase = ~phase[s]
        BY <1>7, <1>11, Zenon
    <2>2. e # Epoch(s)
        BY <1>3, <1>4, <1>6, <2>1 DEF PacketsDated
    <2>3. e < Epoch(s)
        BY <1>2, <1>4, <1>6, <1>8, <1>9, <1>11, <2>2
    <2>4. CASE previous[s] = None
        BY <1>4, <1>6, <1>9, <1>11, <2>3, <2>4
    <2>5. CASE previous[s] # None
        <3>1. e # Epoch(s) - 1
            BY <1>6, <1>9, <1>11, <2>5
        <3>2. QED BY <1>4, <1>6, <1>9, <2>3, <2>5, <3>1 DEF p, t, e
    <2>6. QED BY <2>4, <2>5
<1>12. CASE /\ (~phase[s]) \in PhaseRead(s, n)
            /\ first[s] # 0 /\ n > first[s]
            /\ p.key # NextDecrypter(s)
    <2>1. p.phase = ~phase[s]
        BY <1>7, <1>12, Zenon
    <2>2. e # Epoch(s)
        BY <1>3, <1>4, <1>6, <2>1 DEF PacketsDated
    <2>3. e = Epoch(s) + 1
        BY <1>2, <1>4, <1>6, <1>8, <1>12, <2>2
    <2>4. QED BY <1>5, <1>6, <1>12, <2>3
<1>13. QED BY <1>10, <1>11, <1>12, RefusedBy DEF p, t

\* Between endpoints of one mode only late packets are refused, however many
\* updates either side made and in whatever order packets come.
THEOREM RefusedOnlyIfLate == Spec => OnlyStaleRefused
<1> DEFINE Late(s, n) ==
        \/ previous[s] = None /\ n < first[s]
        \/ /\ ~use_null_one_rtt_crypter[s]
           /\ packets[Peer(s)][n].key.epoch < previous[s].epoch
    A == \A s \in Perspective : \A n \in refused'[s] \ refused[s] :
            ModesAgree => Late(s, n)
<1>1. TypeOK /\ UpdatesInvariant /\ StaleInvariant /\ [Next]_vars => [A]_vars
    <2> SUFFICES ASSUME TypeOK, UpdatesInvariant, StaleInvariant, Next, ModesAgree,
                        NEW s \in Perspective, NEW n \in refused'[s] \ refused[s]
                 PROVE  Late(s, n)
        OBVIOUS
    <2>1. Both(TRUE) \/ Both(FALSE)
        BY DEF Both, ModesAgree, TypeOK, Perspective
    <2>2. CASE Both(TRUE)
        BY <2>2, NullRefusal
    <2>3. CASE Both(FALSE)
        BY <2>3, StandardRefusal DEF Both
    <2>4. QED BY <2>1, <2>2, <2>3
<1>2. QED
    BY <1>1, TypeCorrect, UpdatesInvariantHolds, StaleInvariantHolds, PTL
    DEF Spec, OnlyStaleRefused

=============================================================================
