------------------------------ MODULE EchoPipe ------------------------------
(***************************************************************************)
(* What one bidirectional echo stream promises its peer, with no buffers,  *)
(* callbacks or flow control: the bytes come back in order, each once, and *)
(* a FIN comes back only when everything has.  A peer that resets its half *)
(* gives up the bytes the server had not read; one that sends STOP_SENDING *)
(* gives up the echo.  EchoStream is shown to implement this module.       *)
(***************************************************************************)
EXTENDS Naturals, Sequences

CONSTANTS
    Byte,          \* the values a byte of application data can take
    MaxBytes       \* how many bytes the peer sends at most (model bound)

VARIABLES
    sent,          \* the bytes the peer has put on the stream
    peerEnd,       \* how the peer's half of the stream stands
    echoed,        \* the bytes that have come back to the peer
    finEchoed,     \* has the echo half ended with a FIN?
    cancelled      \* has the peer asked the server to stop sending?

vars == <<sent, peerEnd, echoed, finEchoed, cancelled>>

Init ==
    /\ sent = <<>>
    /\ peerEnd = "open"
    /\ echoed = <<>>
    /\ finEchoed = FALSE
    /\ cancelled = FALSE

\* The peer puts one more byte on its half of the stream.
Offer ==
    /\ peerEnd = "open"
    /\ Len(sent) < MaxBytes
    /\ \E b \in Byte : sent' = Append(sent, b)
    /\ UNCHANGED <<peerEnd, echoed, finEchoed, cancelled>>

\* The peer ends its half, or abandons it before its end was echoed.
EndInput ==
    /\ ~finEchoed
    /\ \/ peerEnd = "open" /\ peerEnd' \in {"fin", "reset"}
       \/ peerEnd = "fin" /\ peerEnd' = "reset"
    /\ UNCHANGED <<sent, echoed, finEchoed, cancelled>>

\* The peer wants no more echo.
Cancel ==
    /\ ~cancelled /\ ~finEchoed
    /\ cancelled' = TRUE
    /\ UNCHANGED <<sent, peerEnd, echoed, finEchoed>>

\* The next byte comes back.
Echo ==
    /\ ~cancelled /\ ~finEchoed
    /\ Len(echoed) < Len(sent)
    /\ echoed' = Append(echoed, sent[Len(echoed) + 1])
    /\ UNCHANGED <<sent, peerEnd, finEchoed, cancelled>>

\* The FIN comes back: after the whole of a finished input, or after as much
\* of an abandoned one as had been read.
Finish ==
    /\ ~cancelled /\ ~finEchoed
    /\ \/ peerEnd = "fin" /\ echoed = sent
       \/ peerEnd = "reset"
    /\ finEchoed' = TRUE
    /\ UNCHANGED <<sent, peerEnd, echoed, cancelled>>

Next == Offer \/ EndInput \/ Cancel \/ Echo \/ Finish

Spec == Init /\ [][Next]_vars

\* The server keeps its side of the bargain as long as the peer does.  A peer
\* that resets its half may get a FIN and may not: its reset can come before
\* the server looks at the stream.
FairSpec ==
    /\ Spec
    /\ WF_vars(peerEnd # "reset" /\ Echo)
    /\ WF_vars(peerEnd = "fin" /\ Finish)

=============================================================================
