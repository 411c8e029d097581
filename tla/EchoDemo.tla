------------------------------- MODULE EchoDemo -------------------------------
(***************************************************************************)
(* The two programs together: RunClient of the test client, as in          *)
(* EchoClient, against BidirectionalEchoVisitor of the test server, as in  *)
(* EchoStream, in the place of EchoClient's arbitrary server.              *)
(*                                                                         *)
(* Echoes are serial, so there is one echo stream at a time: the variables *)
(* of EchoStream are those of the stream opened last, and its peer is the  *)
(* client's CompleteBufferVisitor, which writes the message with a FIN and *)
(* hands over what it read when the FIN of the echo arrives.               *)
(***************************************************************************)
EXTENDS EchoClient, Sequences

CONSTANTS
    Message,           \* the message argument, a sequence of bytes
    SendThreshold      \* as in EchoStream

\* The bytes of the message.
MessageBytes == {Message[i] : i \in 1..Len(Message)}

ASSUME EchoDemoAssumption ==
    /\ Message \in Seq(MessageBytes)
    /\ SendThreshold \in Nat \ {0}

VARIABLES
    sent, peerEnd, echoed, finEchoed,
    attached, inbound, readOwed, outbound, finBuffered, writeOwed, stopped,
    buffer_, send_fin_, fin_sent_, stop_sending_received_

Stream == INSTANCE EchoStream
    WITH Byte <- MessageBytes, MaxBytes <- Len(Message)

echoVars ==
    <<sent, peerEnd, echoed, finEchoed, attached, inbound, readOwed, outbound,
      finBuffered, writeOwed, stopped, buffer_, send_fin_, fin_sent_,
      stop_sending_received_>>
demoVars == <<vars, echoVars>>

DemoInit == Init /\ Stream!Init /\ ~attached

-----------------------------------------------------------------------------
(* The client. *)

\* OpenOutgoingBidirectionalStream: a stream the server knows nothing of yet.
FreshStream ==
    /\ sent' = <<>> /\ peerEnd' = "open" /\ echoed' = <<>> /\ finEchoed' = FALSE
    /\ attached' = FALSE /\ inbound' = <<>> /\ readOwed' = FALSE
    /\ outbound' = <<>> /\ finBuffered' = FALSE /\ writeOwed' = FALSE
    /\ buffer_' = <<>> /\ send_fin_' = FALSE /\ fin_sent_' = FALSE
    /\ stopped' = FALSE /\ stop_sending_received_' = FALSE

OpenEchoStream == StartEcho /\ opened' = opened + 1 /\ FreshStream

\* Everything else RunClient does leaves the stream alone, and so does what
\* the event loop runs for the connection and the session.
RunClient ==
    \/ OpenEchoStream
    \/ Steps /\ opened' = opened /\ UNCHANGED echoVars

\* A message kept back by the stream is taken later.
MessageTaken == OnCanWrite /\ UNCHANGED echoVars

SessionEvents ==
    /\ SettingsReceived \/ OnSessionReady \/ OnSessionClosed \/ StreamAllowed
    /\ UNCHANGED echoVars

TimePasses == Tick /\ UNCHANGED echoVars

\* Mutation: the callback comes with the first bytes, and only these are compared.
RespondsEarly ==
    /\ echoed # <<>>
    /\ ResponseComplete
    /\ operation' = IF echoed = SubSeq(Message, 1, Len(echoed)) THEN "match" ELSE "mismatch"
    /\ UNCHANGED echoVars

\* The FIN of the echo makes CompleteBufferVisitor call back with all it read.
ResponseArrives ==
    /\ finEchoed
    /\ ResponseComplete
    /\ operation' = IF echoed = Message THEN "match" ELSE "mismatch"
    /\ UNCHANGED echoVars

-----------------------------------------------------------------------------
(* The network and the server. *)

\* The message, once the client's stream has taken it, arrives in pieces, and
\* its FIN alone or with the last of them.
MessageArrives ==
    /\ written
    /\ \/ Stream!PeerSend /\ sent' = SubSeq(Message, 1, Len(sent) + 1)
       \/ sent = Message /\ Stream!PeerFin
    /\ UNCHANGED vars

EchoArrives == (Stream!Deliver \/ Stream!DeliverFin) /\ UNCHANGED vars

ServerAccepts == opened > 0 /\ Stream!AcceptIncoming /\ UNCHANGED vars

ServerReads == Stream!OnCanRead /\ UNCHANGED vars

ServerWrites == Stream!OnCanWrite /\ UNCHANGED vars

\* The streams of a session that is gone are reset in both directions.
SessionGone ==
    /\ opened > 0
    /\ ~alive \/ phase = "done"
    /\ \/ Stream!OnResetStreamReceived \/ Stream!OnStopSendingReceived
       \/ Stream!ResetBeforeAccept \/ Stream!StopBeforeAccept
    /\ UNCHANGED vars

DemoNext ==
    \/ RunClient \/ MessageTaken \/ SessionEvents \/ TimePasses \/ ResponseArrives
    \/ MessageArrives \/ EchoArrives
    \/ ServerAccepts \/ ServerReads \/ ServerWrites \/ SessionGone

DemoSpec == DemoInit /\ [][DemoNext]_demoVars

\* Both event loops run, QUIC delivers, and either side keeps granting credit.
\* Time need not pass: an echo must not need a timeout to be over.
DemoFairness ==
    /\ WF_demoVars(RunClient)
    /\ WF_demoVars(MessageTaken)
    /\ WF_demoVars(ResponseArrives)
    /\ WF_demoVars(MessageArrives)
    /\ WF_demoVars(EchoArrives)
    /\ WF_demoVars(ServerAccepts)
    /\ WF_demoVars(readOwed /\ ServerReads)
    /\ WF_demoVars(writeOwed /\ ServerWrites)

DemoFairSpec == DemoSpec /\ DemoFairness

-----------------------------------------------------------------------------
(* Properties. *)

\* With the echo server a response that is complete is the message, however
\* it was cut up, delayed and refused on its way: `verify=failed' is never
\* the server's fault (test_client.cc 303, echo_visitor.cc 23-55).
EchoMatches == operation # "mismatch"

\* Every echo the client started is answered, unless the session fails or its
\* time runs out first: no callback is missing on either side.
EveryEchoAnswered ==
    phase = "echo" ~> operation = "match" \/ failed \/ waited = timeout

\* The next stream is opened only when the server is through with the last
\* one: nothing of the earlier message is on its way or held back, as
\* docs/WEBTRANSPORT_DEMO.md 163-164 has it of the test's serial echoes.
ServerDoneBetweenEchoes ==
    [][opened' # opened /\ opened > 0 =>
           /\ fin_sent_ /\ finEchoed /\ echoed = Message
           /\ inbound = <<>> /\ buffer_ = <<>> /\ outbound = <<>>]_demoVars

=============================================================================
