------------------------------ MODULE OneRttKeys ------------------------------
(***************************************************************************)
(* The keys of one connection between the demo client and the demo server: *)
(* the four overrides of WebTransportClientSession and                     *)
(* WebTransportServerSession that put null crypters in the place of the    *)
(* 1-RTT keys (samples/web_transport_client_session.cc, 24-67, and         *)
(* samples/web_transport_server_session.cc, 25-68; they differ in the      *)
(* perspective only), under a handshake, reordering and key updates.       *)
(*                                                                         *)
(* External: TLS, which makes the keys, and the QUIC framer, which holds   *)
(* the previous, current and next 1-RTT decrypter and chooses one by the   *)
(* key phase bit and the packet number.  Every packet the sender numbered  *)
(* stays in `packets': the network may deliver it late, in any order or    *)
(* never.  0-RTT keys do not occur: the client keeps no session cache.     *)
(***************************************************************************)
EXTENDS Naturals, Sequences

CONSTANTS
    MaxPackets,      \* 1-RTT packets each side sends (model bound)
    MaxUpdates       \* key updates each side starts (model bound)

ASSUME OneRttKeysAssumption ==
    /\ MaxPackets \in Nat \ {0}
    /\ MaxUpdates \in Nat

VARIABLES
    use_null_one_rtt_crypter,    \* per side: its command line flag
    \* QuicFramer, per side.
    encrypter,       \* the handshake and the 1-RTT encrypter
    decrypter,       \* the handshake and the (current) 1-RTT decrypter
    previous,        \* the 1-RTT decrypter of the phase before
    next,            \* the 1-RTT decrypter of the phase to come
    phase,           \* the key phase bit
    first,           \* first packet number received in this phase, or 0
    \* QuicConnection, per side.
    packets,         \* the 1-RTT packets sent
    lowest,          \* first packet number sent in this phase, or 0
    acked,           \* those of them the peer acknowledged
    opened,          \* packet numbers of the peer that were decrypted
    refused,         \* ... and that could not be
    updates,         \* key updates started here
    \* TlsHandshaker, per side.
    secret           \* how often its 1-RTT secrets were advanced

framerVars == <<encrypter, decrypter, previous, next, phase, first>>
connectionVars == <<packets, lowest, acked, opened, refused, updates>>
vars == <<use_null_one_rtt_crypter, framerVars, connectionVars, secret>>

Perspective == {"IS_CLIENT", "IS_SERVER"}
Peer(s) == IF s = "IS_CLIENT" THEN "IS_SERVER" ELSE "IS_CLIENT"
Level == {"ENCRYPTION_HANDSHAKE", "ENCRYPTION_FORWARD_SECURE"}
OneRtt == "ENCRYPTION_FORWARD_SECURE"

-----------------------------------------------------------------------------
(* A key is named by the side that encrypts with it; a decrypter is the key *)
(* it opens.                                                                *)

\* The place of a crypter that is not installed.
None == [kind |-> "none", by |-> "IS_CLIENT", level |-> OneRtt, epoch |-> 0]

KeyBy(s) == [kind : {"aead", "null"}, by : {s}, level : Level, epoch : Nat]
Key == KeyBy("IS_CLIENT") \union KeyBy("IS_SERVER") \union {None}

Aead(s, level, epoch) ==
    [kind |-> "aead", by |-> s, level |-> level, epoch |-> epoch]

\* There is one null crypter per perspective, whatever the key phase.
Null(s) == [kind |-> "null", by |-> s, level |-> OneRtt, epoch |-> 0]

WebTransportNullEncrypter(s) == Null(s)
WebTransportNullDecrypter(s) == Null(Peer(s))

-----------------------------------------------------------------------------
(* The overrides, at side s. *)

\* Mutations: null crypters at every level; the flag is not looked at.
NullAtEveryLevel(s, level) == use_null_one_rtt_crypter[s]
NullForEveryone(s, level) == level = OneRtt

\* Is the key TLS hands over replaced?
Replaces(s, level) == use_null_one_rtt_crypter[s] /\ level = OneRtt

\* The encrypter the base class gets to install.
OnNewEncryptionKeyAvailable(s, level) ==
    IF Replaces(s, level) THEN WebTransportNullEncrypter(s)
                          ELSE Aead(s, level, 0)

\* Mutation: the decrypter is built for the perspective of the peer.
PeerPerspective(s, level) ==
    IF Replaces(s, level) THEN WebTransportNullDecrypter(Peer(s))
                          ELSE Aead(Peer(s), level, 0)

OnNewDecryptionKeyAvailable(s, level) ==
    IF Replaces(s, level) THEN WebTransportNullDecrypter(s)
                          ELSE Aead(Peer(s), level, 0)

\* The 1-RTT secrets of TLS once AdvanceKeysAndCreateCurrentOneRttDecrypter
\* was called: only the base class advances them.
AdvancedSecret(s) ==
    IF use_null_one_rtt_crypter[s] THEN secret[s] ELSE secret[s] + 1

\* Mutation: key updates are left to the base class.
AeadDecrypter(s) == Aead(Peer(s), OneRtt, secret[s] + 1)

AdvanceKeysAndCreateCurrentOneRttDecrypter(s) ==
    IF use_null_one_rtt_crypter[s] THEN WebTransportNullDecrypter(s)
                                   ELSE Aead(Peer(s), OneRtt, secret[s] + 1)

\* Mutations: key updates are left to the base class; an update advances the
\* secrets a second time.
AeadEncrypter(s, latest) == Aead(s, OneRtt, latest)
AdvancesAgain(s, latest) ==
    IF use_null_one_rtt_crypter[s] THEN WebTransportNullEncrypter(s)
                                   ELSE Aead(s, OneRtt, latest + 1)

\* `latest' is what the secrets have been advanced to.
CreateCurrentOneRttEncrypter(s, latest) ==
    IF use_null_one_rtt_crypter[s] THEN WebTransportNullEncrypter(s)
                                   ELSE Aead(s, OneRtt, latest)

-----------------------------------------------------------------------------

Sides(x) == [s \in Perspective |-> x]

Init ==
    /\ use_null_one_rtt_crypter \in [Perspective -> BOOLEAN]
    /\ encrypter = Sides([l \in Level |-> None])
    /\ decrypter = Sides([l \in Level |-> None])
    /\ previous = Sides(None) /\ next = Sides(None)
    /\ phase = Sides(FALSE) /\ first = Sides(0)
    /\ packets = Sides(<<>>) /\ lowest = Sides(0) /\ acked = Sides({})
    /\ opened = Sides({}) /\ refused = Sides({})
    /\ updates = Sides(0) /\ secret = Sides(0)

\* A packet leaves s under `key', with an acknowledgement of what s opened.
SendWith(s, key) ==
    /\ packets' = [packets EXCEPT ![s] =
          Append(@, [key |-> key, phase |-> phase[s], ack |-> opened[s]])]
    /\ lowest' = [lowest EXCEPT ![s] = IF @ = 0 THEN Len(packets[s]) + 1 ELSE @]

-----------------------------------------------------------------------------
(* The handshake.  Its packets arrive sooner or later; what matters is that *)
(* each side can open what the other sent at the handshake level.           *)

OpensHandshake(s) ==
    /\ encrypter[Peer(s)]["ENCRYPTION_HANDSHAKE"] # None
    /\ encrypter[Peer(s)]["ENCRYPTION_HANDSHAKE"]
          = decrypter[s]["ENCRYPTION_HANDSHAKE"]

\* The keys that follow from the two hellos.  The server gets its 1-RTT
\* encrypter along with them, and the base class then sends SETTINGS.
ServerHello ==
    LET s == "IS_SERVER" IN
    /\ encrypter[s]["ENCRYPTION_HANDSHAKE"] = None
    /\ encrypter' = [encrypter EXCEPT ![s] =
          [l \in Level |-> OnNewEncryptionKeyAvailable(s, l)]]
    /\ decrypter' = [decrypter EXCEPT ![s]["ENCRYPTION_HANDSHAKE"] =
          OnNewDecryptionKeyAvailable(s, "ENCRYPTION_HANDSHAKE")]
    /\ SendWith(s, OnNewEncryptionKeyAvailable(s, OneRtt))
    /\ UNCHANGED <<use_null_one_rtt_crypter, previous, next, phase, first,
                   acked, opened, refused, updates, secret>>

ServerHelloReceived ==
    LET s == "IS_CLIENT" IN
    /\ encrypter["IS_SERVER"]["ENCRYPTION_HANDSHAKE"] # None
    /\ encrypter[s]["ENCRYPTION_HANDSHAKE"] = None
    /\ encrypter' = [encrypter EXCEPT ![s]["ENCRYPTION_HANDSHAKE"] =
          OnNewEncryptionKeyAvailable(s, "ENCRYPTION_HANDSHAKE")]
    /\ decrypter' = [decrypter EXCEPT ![s]["ENCRYPTION_HANDSHAKE"] =
          OnNewDecryptionKeyAvailable(s, "ENCRYPTION_HANDSHAKE")]
    /\ UNCHANGED <<use_null_one_rtt_crypter, previous, next, phase, first,
                   connectionVars, secret>>

\* The server's Finished gives the client both 1-RTT keys; it answers with
\* its own Finished, and the base class sends SETTINGS.
ServerFinishedReceived ==
    LET s == "IS_CLIENT" IN
    /\ OpensHandshake(s)
    /\ decrypter[s][OneRtt] = None
    /\ encrypter' = [encrypter EXCEPT ![s][OneRtt] =
          OnNewEncryptionKeyAvailable(s, OneRtt)]
    /\ decrypter' = [decrypter EXCEPT ![s][OneRtt] =
          OnNewDecryptionKeyAvailable(s, OneRtt)]
    /\ SendWith(s, OnNewEncryptionKeyAvailable(s, OneRtt))
    /\ UNCHANGED <<use_null_one_rtt_crypter, previous, next, phase, first,
                   acked, opened, refused, updates, secret>>

ClientFinishedReceived ==
    LET s == "IS_SERVER" IN
    /\ encrypter["IS_CLIENT"][OneRtt] # None
    /\ OpensHandshake(s)
    /\ decrypter[s][OneRtt] = None
    /\ decrypter' = [decrypter EXCEPT ![s][OneRtt] =
          OnNewDecryptionKeyAvailable(s, OneRtt)]
    /\ UNCHANGED <<use_null_one_rtt_crypter, encrypter, previous, next, phase,
                   first, connectionVars, secret>>

-----------------------------------------------------------------------------
(* 1-RTT packets and key updates. *)

Complete(s) == decrypter[s][OneRtt] # None

Send(s) ==
    /\ encrypter[s][OneRtt] # None
    /\ Len(packets[s]) < MaxPackets
    /\ SendWith(s, encrypter[s][OneRtt])
    /\ UNCHANGED <<use_null_one_rtt_crypter, framerVars, acked, opened,
                   refused, updates, secret>>

\* The decrypter of the phase to come, and the secrets once it exists.
NextDecrypter(s) ==
    IF next[s] = None THEN AdvanceKeysAndCreateCurrentOneRttDecrypter(s)
                      ELSE next[s]

NextSecret(s) == IF next[s] = None THEN AdvancedSecret(s) ELSE secret[s]

\* Both directions move to the next phase, in which `n' is the first packet
\* received, or none if n is 0.
DoKeyUpdate(s, n) ==
    /\ previous' = [previous EXCEPT ![s] = decrypter[s][OneRtt]]
    /\ decrypter' = [decrypter EXCEPT ![s][OneRtt] = NextDecrypter(s)]
    /\ encrypter' = [encrypter EXCEPT ![s][OneRtt] =
          CreateCurrentOneRttEncrypter(s, NextSecret(s))]
    /\ secret' = [secret EXCEPT ![s] = NextSecret(s)]
    /\ next' = [next EXCEPT ![s] = None]
    /\ phase' = [phase EXCEPT ![s] = ~phase[s]]
    /\ first' = [first EXCEPT ![s] = n]
    /\ lowest' = [lowest EXCEPT ![s] = 0]

\* Allowed once the peer has acknowledged a packet of the current phase.
InitiateKeyUpdate(s) ==
    /\ Complete(s)
    /\ lowest[s] # 0 /\ \E n \in acked[s] : n >= lowest[s]
    /\ updates[s] < MaxUpdates
    /\ updates' = [updates EXCEPT ![s] = @ + 1]
    /\ DoKeyUpdate(s, 0)
    /\ UNCHANGED <<use_null_one_rtt_crypter, packets, acked, opened, refused>>

\* Packet n of the peer decrypts.
Open(s, n) ==
    /\ opened' = [opened EXCEPT ![s] = @ \union {n}]
    /\ acked' = [acked EXCEPT ![s] = @ \union packets[Peer(s)][n].ack]
    /\ UNCHANGED <<packets, refused, updates>>

Refuse(s, n) ==
    /\ refused' = [refused EXCEPT ![s] = @ \union {n}]
    /\ UNCHANGED <<packets, lowest, acked, opened, updates>>

\* The key phase bit as s reads it from packet n: header protection that
\* was not applied the way it is removed leaves either value.
PhaseRead(s, n) ==
    LET p == packets[Peer(s)][n]
    IN  IF p.key.kind = decrypter[s][OneRtt].kind THEN {p.phase} ELSE BOOLEAN

\* A packet of the current phase.
ReceiveCurrent(s, n) ==
    /\ phase[s] \in PhaseRead(s, n)
    /\ \/ /\ packets[Peer(s)][n].key = decrypter[s][OneRtt]
          /\ first' = [first EXCEPT ![s] = IF @ = 0 THEN n ELSE @]
          /\ Open(s, n)
          /\ UNCHANGED lowest
       \/ /\ packets[Peer(s)][n].key # decrypter[s][OneRtt]
          /\ Refuse(s, n)
          /\ UNCHANGED first
    /\ UNCHANGED <<encrypter, decrypter, previous, next, phase, secret>>

\* A packet of the other phase, older than the first of this one.
ReceivePrevious(s, n) ==
    /\ (~phase[s]) \in PhaseRead(s, n)
    /\ first[s] = 0 \/ n < first[s]
    /\ \/ packets[Peer(s)][n].key = previous[s] /\ Open(s, n) /\ UNCHANGED lowest
       \/ packets[Peer(s)][n].key # previous[s] /\ Refuse(s, n)
    /\ UNCHANGED <<framerVars, secret>>

\* A packet of the other phase, newer than the first of this one: the peer
\* has updated its keys if the next decrypter opens it.
ReceiveNext(s, n) ==
    /\ (~phase[s]) \in PhaseRead(s, n)
    /\ first[s] # 0 /\ n > first[s]
    /\ \/ /\ packets[Peer(s)][n].key = NextDecrypter(s)
          /\ DoKeyUpdate(s, n)
          /\ Open(s, n)
       \/ /\ packets[Peer(s)][n].key # NextDecrypter(s)
          /\ next' = [next EXCEPT ![s] = NextDecrypter(s)]
          /\ secret' = [secret EXCEPT ![s] = NextSecret(s)]
          /\ Refuse(s, n)
          /\ UNCHANGED <<encrypter, decrypter, previous, phase, first>>

\* A packet that came before the 1-RTT decrypter was kept until now.
ReceivePacket(s, n) ==
    /\ Complete(s)
    /\ n \in 1..Len(packets[Peer(s)])
    /\ n \notin opened[s] \union refused[s]
    /\ ReceiveCurrent(s, n) \/ ReceivePrevious(s, n) \/ ReceiveNext(s, n)
    /\ UNCHANGED use_null_one_rtt_crypter

Receive(s) == \E n \in 1..MaxPackets : ReceivePacket(s, n)

\* A damaged packet looks like one of the next phase: no decrypter opens it,
\* but the next one has been made.
ReceiveDamaged(s) ==
    /\ Complete(s)
    /\ first[s] # 0 /\ next[s] = None
    /\ next' = [next EXCEPT ![s] = NextDecrypter(s)]
    /\ secret' = [secret EXCEPT ![s] = NextSecret(s)]
    /\ UNCHANGED <<use_null_one_rtt_crypter, encrypter, decrypter, previous,
                   phase, first, connectionVars>>

\* The timer that ends the use of the previous keys.
DiscardPreviousOneRttKeys(s) ==
    /\ previous[s] # None /\ first[s] # 0
    /\ previous' = [previous EXCEPT ![s] = None]
    /\ UNCHANGED <<use_null_one_rtt_crypter, encrypter, decrypter, next, phase,
                   first, connectionVars, secret>>

-----------------------------------------------------------------------------

Handshake ==
    ServerHello \/ ServerHelloReceived \/ ServerFinishedReceived
        \/ ClientFinishedReceived

Next ==
    \/ Handshake
    \/ \E s \in Perspective :
          \/ Send(s) \/ Receive(s) \/ InitiateKeyUpdate(s)
          \/ ReceiveDamaged(s) \/ DiscardPreviousOneRttKeys(s)

Spec == Init /\ [][Next]_vars

\* The handshake goes on and SETTINGS, packet 1 of either side, is sent again
\* until it arrives.
FairSpec ==
    /\ Spec
    /\ WF_vars(Handshake)
    /\ \A s \in Perspective : WF_vars(ReceivePacket(s, 1))

-----------------------------------------------------------------------------
(* Properties. *)

TypeOK ==
    /\ use_null_one_rtt_crypter \in [Perspective -> BOOLEAN]
    /\ encrypter \in [Perspective -> [Level -> Key]]
    /\ decrypter \in [Perspective -> [Level -> Key]]
    /\ previous \in [Perspective -> Key] /\ next \in [Perspective -> Key]
    /\ \A s \in Perspective, l \in Level :
          /\ encrypter[s][l] \in KeyBy(s) \union {None}
          /\ {decrypter[s][l], previous[s], next[s]}
                \subseteq KeyBy(Peer(s)) \union {None}
    /\ phase \in [Perspective -> BOOLEAN]
    /\ packets \in
          [Perspective -> Seq([key : Key, phase : BOOLEAN, ack : SUBSET Nat])]
    /\ first \in [Perspective -> Nat] /\ lowest \in [Perspective -> Nat]
    /\ updates \in [Perspective -> Nat]
    /\ acked \in [Perspective -> SUBSET Nat]
    /\ opened \in [Perspective -> SUBSET Nat]
    /\ refused \in [Perspective -> SUBSET Nat]
    /\ secret \in [Perspective -> Nat]

ModesAgree ==
    use_null_one_rtt_crypter["IS_CLIENT"] = use_null_one_rtt_crypter["IS_SERVER"]

\* The rows of the mode matrix that must fail do: no 1-RTT packet is ever
\* accepted between a null and a standard endpoint, so that no key update
\* of the other side is followed either
\* (docs/WEBTRANSPORT_NULL_CRYPTER_PLAN.md:369-376).
NothingOpensAcrossModes ==
    \A s \in Perspective : opened[s] # {} => ModesAgree

\* The flag changes 1-RTT and nothing else: what a null endpoint sends stays
\* null through every key update, what a standard one sends never is, and
\* the handshake keys are TLS's own (PLAN:210-226, 393-403).
NullExactlyWhereAsked ==
    \A s \in Perspective :
        /\ \A n \in 1..Len(packets[s]) :
              packets[s][n].key.kind = "null" <=> use_null_one_rtt_crypter[s]
        /\ encrypter[s]["ENCRYPTION_HANDSHAKE"] # None =>
              encrypter[s]["ENCRYPTION_HANDSHAKE"].kind = "aead"

\* The two directions of an endpoint change keys together, however many
\* damaged packets and key updates of either side came in between: sending
\* under keys the peer has no reason to have yet would break the connection
\* (client session 50-67, server session 51-68).  Null keys have one phase, so
\* that for null endpoints this says that both directions stay null.
DirectionsUpdateTogether ==
    \A s \in Perspective :
        Complete(s) =>
            /\ encrypter[s][OneRtt].kind = decrypter[s][OneRtt].kind
            /\ encrypter[s][OneRtt].epoch = decrypter[s][OneRtt].epoch

\* Between endpoints of one mode a whole packet is refused only if it is
\* late: the phase it was sent in is over at the receiver and its decrypter
\* discarded, or, under real keys, another phase has ended since.  Null
\* crypters decrypt what they did before an update, at both ends and through
\* updates by either side (PLAN:210-226 asks to test delayed packets of old
\* key phases).
OnlyStaleRefused ==
    [][\A s \in Perspective : \A n \in refused'[s] \ refused[s] :
          ModesAgree =>
              \/ previous[s] = None /\ n < first[s]
              \/ /\ ~use_null_one_rtt_crypter[s]
                 /\ packets[Peer(s)][n].key.epoch < previous[s].epoch]_vars

\* The handshake completes in all four combinations of modes, and where the
\* modes agree 1-RTT packets get through both ways (PLAN:369-376, 380).
HandshakeCompletes == <>(\A s \in Perspective : Complete(s))

ConnectionUsable ==
    ModesAgree => <>(\A s \in Perspective : opened[s] # {})

=============================================================================
