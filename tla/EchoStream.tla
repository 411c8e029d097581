----------------------------- MODULE EchoStream -----------------------------
(***************************************************************************)
(* BidirectionalEchoVisitor (samples/web_transport_echo_visitor.cc, 18-72) *)
(* on one bidirectional WebTransport stream, with the peer and the QUICHE  *)
(* stream under it.                                                        *)
(*                                                                         *)
(* The visitor is a callback object: QUICHE calls OnCanRead, OnCanWrite,   *)
(* OnResetStreamReceived and OnStopSendingReceived in whatever order the   *)
(* network produces.  Each callback runs to its end before the next one    *)
(* (one event loop, one thread), so a callback is one action, the call of  *)
(* OnCanWrite at its end included.                                         *)
(*                                                                         *)
(* The transport is external.  What the visitor relies on is modelled:     *)
(* in-order delivery, Read taking everything that has arrived, a write     *)
(* that is accepted whole or refused whole, a send buffer that refuses     *)
(* once it holds SendThreshold bytes and calls OnCanWrite when it drains,  *)
(* and no callback at all while no visitor is attached: what the peer does *)
(* until the accept loop comes to the stream, RESET_STREAM and             *)
(* STOP_SENDING included, the visitor can only find out by reading.        *)
(***************************************************************************)
EXTENDS Naturals, Sequences

CONSTANTS
    Byte,            \* the values a byte of application data can take
    MaxBytes,        \* how many bytes the peer sends at most (model bound)
    SendThreshold    \* buffered bytes at which the stream refuses a write

ASSUME EchoStreamAssumption ==
    /\ MaxBytes \in Nat
    /\ SendThreshold \in Nat \ {0}

VARIABLES
    \* The peer.
    sent,            \* every byte the peer has put on the stream
    peerEnd,         \* its half of the stream: "open", "fin" or "reset"
    echoed,          \* the echoed bytes that have reached the peer
    finEchoed,       \* has the FIN of the echo reached the peer?
    \* The QUICHE stream at the server.
    attached,        \* has SetVisitor been called?
    inbound,         \* bytes that arrived and were not read, lost to a reset or not
    readOwed,        \* an OnCanRead call is due
    outbound,        \* bytes accepted for sending and not delivered
    finBuffered,     \* has a FIN been accepted for sending?
    writeOwed,       \* an OnCanWrite call is due
    stopped,         \* has STOP_SENDING closed the write side?
    \* The fields of BidirectionalEchoVisitor.
    buffer_,
    send_fin_,
    fin_sent_,
    stop_sending_received_

peerVars == <<sent, peerEnd, echoed, finEchoed>>
streamVars ==
    <<attached, inbound, readOwed, outbound, finBuffered, writeOwed, stopped>>
visitorVars == <<buffer_, send_fin_, fin_sent_, stop_sending_received_>>
vars == <<peerVars, streamVars, visitorVars>>

TypeOK ==
    /\ sent \in Seq(Byte) /\ Len(sent) <= MaxBytes
    /\ peerEnd \in {"open", "fin", "reset"}
    /\ echoed \in Seq(Byte)
    /\ inbound \in Seq(Byte)
    /\ outbound \in Seq(Byte)
    /\ buffer_ \in Seq(Byte) /\ Len(buffer_) <= MaxBytes
    /\ finEchoed \in BOOLEAN /\ attached \in BOOLEAN
    /\ readOwed \in BOOLEAN /\ writeOwed \in BOOLEAN
    /\ finBuffered \in BOOLEAN /\ stopped \in BOOLEAN
    /\ send_fin_ \in BOOLEAN /\ fin_sent_ \in BOOLEAN
    /\ stop_sending_received_ \in BOOLEAN

\* A stream the peer opened waits for OnIncomingBidirectionalStreamAvailable;
\* one the server opened has its visitor from the start.
Init ==
    /\ sent = <<>> /\ peerEnd = "open"
    /\ echoed = <<>> /\ finEchoed = FALSE
    /\ attached \in BOOLEAN
    /\ inbound = <<>> /\ readOwed = FALSE
    /\ outbound = <<>> /\ finBuffered = FALSE /\ writeOwed = FALSE
    /\ stopped = FALSE
    /\ buffer_ = <<>>
    /\ send_fin_ = FALSE /\ fin_sent_ = FALSE
    /\ stop_sending_received_ = FALSE

-----------------------------------------------------------------------------
(* The transport's answers. *)

\* The stream takes a write or a FIN when its write side is open and its send
\* buffer, here `out', is below the threshold.
Accepts(out) ==
    /\ ~finBuffered
    /\ ~stopped
    /\ Len(out) < SendThreshold

\* Read takes all that arrived, but nothing from a stream that was reset.
Readable == IF peerEnd = "reset" THEN <<>> ELSE inbound

\* Read reports the end of the stream with its last bytes, and again whenever
\* it is called afterwards.  A reset is not an end.
FinRead == peerEnd = "fin"

-----------------------------------------------------------------------------
(* OnCanWrite, as the visitor runs it with `buf' in buffer_ and `fin' in   *)
(* send_fin_: both callbacks that change those fields end by calling it.   *)

\* Does a step with this buffer return early, its data refused?
WriteRefused(buf) == buf # <<>> /\ ~Accepts(outbound)

\* Mutation: the buffer survives its write.
KeepsBuffer(buf) == buf

\* What buffer_ holds once its data has been written.
BufferAfterWrite(buf) == <<>>

\* Is the FIN written now, after `out' went into the send buffer?
SendsFin(fin, out) == fin /\ ~fin_sent_ /\ Accepts(out)

\* Mutation: a FIN counts as sent whether the stream took it or not.
FinTakenForSent(buf, fin) ==
    \/ /\ stop_sending_received_ \/ WriteRefused(buf)
       /\ buffer_' = buf
       /\ UNCHANGED <<outbound, finBuffered, fin_sent_>>
    \/ /\ ~stop_sending_received_ /\ ~WriteRefused(buf)
       /\ outbound' = outbound \o buf
       /\ buffer_' = BufferAfterWrite(buf)
       /\ fin_sent_' = (fin_sent_ \/ fin)
       /\ finBuffered' = (finBuffered \/ SendsFin(fin, outbound'))

\* Mutation: a refused write does not keep the FIN from being written.
FinJumpsQueue(buf, fin) ==
    LET fits == buf = <<>> \/ Accepts(outbound)
    IN  /\ outbound' = IF fits THEN outbound \o buf ELSE outbound
        /\ buffer_' = IF fits THEN <<>> ELSE buf
        /\ fin_sent_' = (fin_sent_ \/ fin)
        /\ finBuffered' = (finBuffered \/ fin)

FlushEcho(buf, fin) ==
    \/ /\ stop_sending_received_ \/ WriteRefused(buf)
       /\ buffer_' = buf
       /\ UNCHANGED <<outbound, finBuffered, fin_sent_>>
    \/ /\ ~stop_sending_received_ /\ ~WriteRefused(buf)
       /\ outbound' = outbound \o buf
       /\ buffer_' = BufferAfterWrite(buf)
       /\ fin_sent_' = (fin_sent_ \/ SendsFin(fin, outbound'))
       /\ finBuffered' = (finBuffered \/ SendsFin(fin, outbound'))

-----------------------------------------------------------------------------
(* The callbacks. *)

\* Mutation: what was read stays in the stream.
PeekAndEcho ==
    /\ UNCHANGED inbound
    /\ readOwed' = FALSE
    /\ send_fin_' = (send_fin_ \/ FinRead)
    /\ FlushEcho(buffer_ \o inbound, send_fin_')

\* Read appends everything that arrived to whatever is still unsent, notes
\* the end of the stream and tries to write.
ReadAndEcho ==
    /\ inbound' = IF peerEnd = "reset" THEN inbound ELSE <<>>
    /\ readOwed' = FALSE
    /\ send_fin_' = (send_fin_ \/ FinRead)
    /\ FlushEcho(buffer_ \o Readable, send_fin_')

\* Mutation: what arrived before the visitor is left to the next callback.
AcceptWithoutRead ==
    /\ ~attached
    /\ attached' = TRUE
    /\ UNCHANGED <<peerVars, inbound, readOwed, outbound, finBuffered,
                   writeOwed, stopped, visitorVars>>

\* A stream that was reset and stopped is closed, and no longer offered.
Open == ~(peerEnd = "reset" /\ stopped)

\* Accepting a stream attaches the visitor and reads what arrived before it.
AcceptIncoming ==
    /\ ~attached /\ Open
    /\ attached' = TRUE
    /\ ReadAndEcho
    /\ UNCHANGED <<peerVars, writeOwed, stopped, stop_sending_received_>>

OnCanRead ==
    /\ attached
    /\ peerEnd # "reset"
    /\ ReadAndEcho
    /\ UNCHANGED <<peerVars, attached, writeOwed, stopped, stop_sending_received_>>

\* Mutation: a write that was refused is not tried again.
OnCanWriteOnlyFin ==
    /\ attached
    /\ writeOwed' = FALSE
    /\ fin_sent_' = (fin_sent_ \/ (buffer_ = <<>> /\ SendsFin(send_fin_, outbound)))
    /\ finBuffered' = fin_sent_'
    /\ UNCHANGED <<peerVars, attached, inbound, readOwed, outbound, stopped,
                   buffer_, send_fin_, stop_sending_received_>>

OnCanWrite ==
    /\ attached
    /\ writeOwed' = FALSE
    /\ FlushEcho(buffer_, send_fin_)
    /\ UNCHANGED <<peerVars, attached, inbound, readOwed, stopped, send_fin_,
                   stop_sending_received_>>

\* A RESET_STREAM closes the read side with whatever was not read still in
\* it; one that follows a FIN already read is ignored by the transport.
OnResetStreamReceived ==
    /\ attached
    /\ peerEnd = "open" \/ (peerEnd = "fin" /\ ~send_fin_)
    /\ peerEnd' = "reset"
    /\ readOwed' = FALSE
    /\ send_fin_' = TRUE
    /\ FlushEcho(buffer_, TRUE)
    /\ UNCHANGED <<sent, echoed, finEchoed, attached, inbound, writeOwed, stopped,
                   stop_sending_received_>>

OnStopSendingReceived ==
    /\ attached
    /\ ~finEchoed /\ ~stopped
    /\ stopped' = TRUE
    /\ stop_sending_received_' = TRUE
    /\ UNCHANGED <<peerVars, attached, inbound, readOwed, outbound, finBuffered,
                   writeOwed, buffer_, send_fin_, fin_sent_>>

-----------------------------------------------------------------------------
(* The same without a visitor: the stream changes, and nobody is told. *)

\* With nothing left to read but the FIN, the FIN counts.
ResetBeforeAccept ==
    /\ ~attached
    /\ peerEnd = "open" \/ (peerEnd = "fin" /\ inbound # <<>>)
    /\ peerEnd' = "reset"
    /\ UNCHANGED <<sent, echoed, finEchoed, streamVars, visitorVars>>

StopBeforeAccept ==
    /\ ~attached /\ ~stopped
    /\ stopped' = TRUE
    /\ UNCHANGED <<peerVars, attached, inbound, readOwed, outbound, finBuffered,
                   writeOwed, visitorVars>>

-----------------------------------------------------------------------------
(* The peer and the network. *)

\* The peer writes a byte, and it arrives; an attached visitor is told.
PeerSend ==
    /\ peerEnd = "open"
    /\ Len(sent) < MaxBytes
    /\ \E b \in Byte :
          /\ sent' = Append(sent, b)
          /\ inbound' = Append(inbound, b)
    /\ readOwed' = attached
    /\ UNCHANGED <<peerEnd, echoed, finEchoed, attached, outbound,
                   finBuffered, writeOwed, stopped, visitorVars>>

PeerFin ==
    /\ peerEnd = "open"
    /\ peerEnd' = "fin"
    /\ readOwed' = attached
    /\ UNCHANGED <<sent, echoed, finEchoed, attached, inbound, outbound,
                   finBuffered, writeOwed, stopped, visitorVars>>

\* A buffered byte reaches the peer, whose flow control decides when.  The
\* stream asks for more once it can take more.
Deliver ==
    /\ outbound # <<>>
    /\ ~stopped
    /\ echoed' = Append(echoed, Head(outbound))
    /\ outbound' = Tail(outbound)
    /\ writeOwed' = (writeOwed \/ Accepts(outbound'))
    /\ UNCHANGED <<sent, peerEnd, finEchoed, attached, inbound, readOwed,
                   finBuffered, stopped, visitorVars>>

DeliverFin ==
    /\ finBuffered /\ outbound = <<>>
    /\ ~finEchoed /\ ~stopped
    /\ finEchoed' = TRUE
    /\ UNCHANGED <<sent, peerEnd, echoed, streamVars, visitorVars>>

-----------------------------------------------------------------------------

Next ==
    \/ AcceptIncoming \/ OnCanRead \/ OnCanWrite
    \/ OnResetStreamReceived \/ OnStopSendingReceived
    \/ ResetBeforeAccept \/ StopBeforeAccept
    \/ PeerSend \/ PeerFin \/ Deliver \/ DeliverFin

Spec == Init /\ [][Next]_vars

\* The event loop makes every call that is due, and the peer keeps granting
\* flow-control credit.  Nothing obliges the peer to send, finish or cancel.
Fairness ==
    /\ WF_vars(AcceptIncoming)
    /\ WF_vars(readOwed /\ OnCanRead)
    /\ WF_vars(writeOwed /\ OnCanWrite)
    /\ WF_vars(Deliver)
    /\ WF_vars(DeliverFin)

FairSpec == Spec /\ Fairness

-----------------------------------------------------------------------------
(* Properties. *)

\* No byte is lost, duplicated or overtaken between the peer's write and its
\* echo: what came back, what the transport holds, what the visitor holds
\* and what it has not read make up exactly what was sent.
\* (OnCanRead appending to buffer_, OnCanWrite clearing it, 23-55.)
EchoConserved == echoed \o outbound \o buffer_ \o inbound = sent

\* A FIN is written only behind everything the visitor has read, and unless
\* the peer reset its half it read all that was sent up to the peer's FIN.
\* A write-blocked OnCanWrite must therefore return before the FIN (43-45).
FinBehindEcho ==
    finBuffered =>
        /\ buffer_ = <<>>
        /\ peerEnd # "open"
        /\ peerEnd = "fin" => echoed \o outbound = sent

\* Nothing that can still be echoed is left without a call to come: what
\* arrived on an accepted stream has an OnCanRead due, and what the visitor
\* keeps back, bytes or the FIN, has an OnCanWrite due or bytes on their way
\* that cause one when they leave (23-55, 122).
NothingStuck ==
    attached /\ ~stopped =>
        /\ peerEnd # "reset" /\ (inbound # <<>> \/ (FinRead /\ ~send_fin_)) => readOwed
        /\ buffer_ # <<>> \/ (send_fin_ /\ ~finBuffered) => writeOwed \/ outbound # <<>>

\* Every byte the peer sent is echoed, however often writes were refused on
\* the way, unless the peer resets its half or cancels the echo.
EveryByteEchoed ==
    \A n \in 1..MaxBytes :
        Len(sent) >= n ~>
            \/ Len(echoed) >= n
            \/ peerEnd = "reset"
            \/ stopped

\* A FIN of the peer is answered with a FIN, even if it came before the
\* stream was accepted or the answer was refused at first, unless a reset
\* follows or the peer cancels the echo; on a stream that was accepted before,
\* so is a reset.  One that comes earlier is not: no callback tells the
\* visitor of it (30-33, 51-54, 57-60, 118-124).
EndAnswered ==
    /\ peerEnd = "fin" ~> finEchoed \/ stopped \/ peerEnd = "reset"
    /\ attached /\ peerEnd # "reset" ~> finEchoed \/ stopped \/ [](peerEnd = "open")

\* The visitor and its transport implement the echo pipe.
Pipe == INSTANCE EchoPipe WITH cancelled <- stopped

PipeRefined == Pipe!FairSpec

=============================================================================
