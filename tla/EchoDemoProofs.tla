--------------------------- MODULE EchoDemoProofs ---------------------------
(***************************************************************************)
(* Proofs about EchoClient, and about EchoDemo, in which it runs.          *)
(***************************************************************************)
EXTENDS EchoDemo, SequenceTheorems, TLAPS

-----------------------------------------------------------------------------
(***************************************************************************)
(* The client, for any --count and any timeouts: what exit code 0 means,   *)
(* that echoes are serial, and that the session is not used once it is     *)
(* gone.                                                                   *)
(*                                                                         *)
(* The argument: the loop's index counts the responses that were the       *)
(* message, less the one that has come and was not looked at yet, and an   *)
(* echo is on its way only while index < count.  A session that once was   *)
(* ready stays alive or has set `failed'.                                  *)
(***************************************************************************)

\* Responses that were the message and that RunClient has not looked at.
Unseen == IF phase = "echo" /\ operation = "match" THEN 1 ELSE 0

\* Echoes whose stream is open and whose response was not looked at.
Pending == IF phase = "echo" THEN 1 ELSE 0

BeforeLoop == {"main", "setup", "connect", "settings", "ready"}
InLoop == {"open", "echo", "pause"}

\* How far the loop is, phase by phase.
LoopProgress ==
    /\ phase # "done" =>
          /\ exit = "none"
          /\ matched = index + Unseen
          /\ opened = index + Pending
    /\ phase \notin {"main", "done"} => count > 0
    /\ phase \in BeforeLoop => index = 0
    /\ phase \in InLoop => index < count
    /\ phase = "done" => opened <= matched + 1

\* What is known of the session, phase by phase.
SessionKnown ==
    /\ phase \in {"main", "setup", "connect", "settings"} => ~alive /\ ~ready
    /\ ready => alive \/ failed
    /\ phase \in InLoop => ready

ClientInvariant == TypeOK /\ LoopProgress /\ SessionKnown /\ SuccessMeansEchoed

-----------------------------------------------------------------------------

LEMMA InitEstablishes == Init => ClientInvariant
<1> SUFFICES ASSUME Init PROVE ClientInvariant
    OBVIOUS
<1>1. TypeOK
    <2>1. /\ phase \in Phases /\ exit \in {"none", "0", "1"}
          /\ operation \in {"none", "waiting", "match", "mismatch"}
        BY DEF Init, Phases
    <2>2. /\ count \in 0..MaxCount
          /\ timeout \in {0, Timeout} /\ interval \in {0, Interval}
          /\ waited \in Nat /\ opened \in 0..MaxCount /\ index \in 0..MaxCount
          /\ matched \in 0..MaxCount
        BY EchoClientAssumption DEF Init
    <2>3. /\ ready \in BOOLEAN /\ failed \in BOOLEAN /\ settings \in BOOLEAN
          /\ alive \in BOOLEAN /\ canOpen \in BOOLEAN /\ written \in BOOLEAN
        BY DEF Init
    <2>4. QED BY <2>1, <2>2, <2>3 DEF TypeOK
<1>2. LoopProgress
    BY DEF Init, LoopProgress, Unseen, Pending, BeforeLoop, InLoop
<1>3. SessionKnown
    BY DEF Init, SessionKnown, InLoop
<1>4. SuccessMeansEchoed
    BY DEF Init, SuccessMeansEchoed
<1>5. QED BY <1>1, <1>2, <1>3, <1>4 DEF ClientInvariant

\* What RunClient and main do between two runs of the event loop.
LEMMA StepsPreserve ==
    ASSUME ClientInvariant, Steps
    PROVE  ClientInvariant'
<1> USE EchoClientAssumption
    DEF ClientInvariant, TypeOK, LoopProgress, SessionKnown, Unseen, Pending,
        SuccessMeansEchoed, Phases, Waits, BeforeLoop, InLoop, Return, Proceed,
        flags, progress, stateVars, responseVars, transport
<1>1. CASE Main
    BY <1>1 DEF Main, ValidFlags
<1>2. CASE SetUp
    BY <1>2 DEF SetUp
<1>3. CASE Connected
    BY <1>3 DEF Connected
<1>4. CASE RequestSession
    <2>1. CASE Return("1") /\ UNCHANGED transport
        BY <1>4, <2>1 DEF RequestSession
    <2>2. CASE /\ Proceed("ready") /\ alive' \in BOOLEAN
               /\ UNCHANGED <<settings, canOpen, written>>
        BY <1>4, <2>2 DEF RequestSession
    <2>3. QED BY <1>4, <2>1, <2>2 DEF RequestSession
<1>5. CASE SessionAnswered
    <2>1. CASE failed /\ Return("1")
        BY <1>5, <2>1 DEF SessionAnswered
    <2>2. CASE ~failed /\ index < count /\ Proceed("open")
        BY <1>5, <2>2 DEF SessionAnswered
    <2>3. CASE ~failed /\ index >= count /\ Return("0")
        BY <1>5, <2>3 DEF SessionAnswered
    <2>4. QED BY <1>5, <2>1, <2>2, <2>3 DEF SessionAnswered
<1>6. CASE StartEcho
    <2>1. CASE Return("1") /\ UNCHANGED <<progress, failed, responseVars, transport>>
        BY <1>6, <2>1 DEF StartEcho
    <2>2. CASE /\ ~failed /\ Proceed("echo")
               /\ opened' = opened + 1 /\ operation' = "waiting"
               /\ canOpen' \in BOOLEAN /\ WriteMessage
               /\ UNCHANGED <<index, matched, settings>>
        <3>1. /\ phase = "open" /\ phase' = "echo" /\ ready /\ ~failed
              /\ opened = index /\ index < count /\ count \in 0..MaxCount
              /\ UNCHANGED <<count, timeout, interval, exit, ready, index, matched, settings>>
            BY <1>6, <2>2 DEF StartEcho
        <3>2. opened' \in 0..MaxCount
            BY <2>2, <3>1
        <3>3. alive' \in BOOLEAN /\ failed' \in BOOLEAN /\ written' \in BOOLEAN
            BY <2>2 DEF WriteMessage
        <3>4. alive' \/ failed'
            BY <2>2, <3>1 DEF WriteMessage
        <3>5. TypeOK'
            BY <2>2, <3>1, <3>2, <3>3
        <3>6. LoopProgress'
            BY <2>2, <3>1
        <3>7. SessionKnown' /\ SuccessMeansEchoed'
            BY <3>1, <3>4
        <3>8. QED BY <3>5, <3>6, <3>7
    <2>3. QED BY <1>6, <2>1, <2>2 DEF StartEcho
<1>7. CASE FinishEcho
    <2>1. CASE ~Verified /\ Return("1") /\ UNCHANGED index
        BY <1>7, <2>1 DEF FinishEcho
    <2>2. CASE Verified /\ index' = index + 1 /\ LastEcho /\ Return("0")
        BY <1>7, <2>2 DEF FinishEcho, Verified, LastEcho
    <2>3. CASE /\ Verified /\ index' = index + 1 /\ ~LastEcho
               /\ Proceed("pause") \/ Proceed("open")
        BY <1>7, <2>3 DEF FinishEcho, Verified, LastEcho
    <2>4. QED BY <1>7, <2>1, <2>2, <2>3 DEF FinishEcho
<1>8. CASE PauseOver
    BY <1>8 DEF PauseOver
<1>9. CASE TimedOut
    BY <1>9 DEF TimedOut
<1>10. QED BY <1>1, <1>2, <1>3, <1>4, <1>5, <1>6, <1>7, <1>8, <1>9 DEF Steps

\* What the event loop runs, and the clock.
LEMMA EventsPreserve ==
    ASSUME ClientInvariant, Events \/ Tick
    PROVE  ClientInvariant'
<1> USE DEF ClientInvariant, TypeOK, LoopProgress, SessionKnown, Unseen, Pending,
        SuccessMeansEchoed, Phases, Waits, BeforeLoop, InLoop, InEventLoop,
        flags, progress, stateVars, responseVars, transport
<1>1. CASE SettingsReceived
    BY <1>1 DEF SettingsReceived
<1>2. CASE OnSessionReady
    BY <1>2 DEF OnSessionReady
<1>3. CASE OnSessionClosed
    <2>1. /\ alive' = FALSE /\ failed' = TRUE
          /\ phase \in Waits \cup {"pause"}
          /\ UNCHANGED <<flags, phase, exit, waited, progress, ready,
                         responseVars, settings, canOpen, written>>
        BY <1>3 DEF OnSessionClosed
    <2>2. alive /\ (phase \in {"main", "setup", "connect", "settings"} => ~alive)
        BY <1>3 DEF OnSessionClosed
    <2>3. TypeOK'
        BY <2>1
    <2>4. LoopProgress'
        BY <2>1
    <2>5. SessionKnown' /\ SuccessMeansEchoed'
        BY <2>1, <2>2
    <2>6. QED BY <2>3, <2>4, <2>5
<1>4. CASE StreamAllowed
    BY <1>4 DEF StreamAllowed
<1>5. CASE OnCanWrite
    BY <1>5 DEF OnCanWrite
<1>6. CASE ResponseComplete
    BY <1>6 DEF ResponseComplete
<1>7. CASE Tick
    BY <1>7 DEF Tick
<1>8. QED BY <1>1, <1>2, <1>3, <1>4, <1>5, <1>6, <1>7 DEF Events

LEMMA NextPreserves == ClientInvariant /\ [Next]_vars => ClientInvariant'
<1>1. ASSUME ClientInvariant, UNCHANGED vars PROVE ClientInvariant'
    BY <1>1
    DEF vars, flags, progress, stateVars, responseVars, transport,
        ClientInvariant, TypeOK, LoopProgress, SessionKnown, Unseen, Pending,
        SuccessMeansEchoed
<1>2. QED BY <1>1, StepsPreserve, EventsPreserve DEF Next

\* How far the loop is and what is known of the session, in every reachable
\* state and for every count.
THEOREM ClientInvariantHolds == Spec => []ClientInvariant
    BY InitEstablishes, NextPreserves, PTL DEF Spec

\* The counters of the client stay within the number of echoes asked for.
THEOREM TypeCorrect == Spec => []TypeOK
<1>1. ClientInvariant => TypeOK
    BY DEF ClientInvariant
<1>2. QED BY <1>1, ClientInvariantHolds, PTL

\* Exit code 0 means that every echo asked for came back equal and that the
\* session was not known to have failed.
THEOREM SuccessIsEarned == Spec => []SuccessMeansEchoed
<1>1. ClientInvariant => SuccessMeansEchoed
    BY DEF ClientInvariant
<1>2. QED BY <1>1, ClientInvariantHolds, PTL

\* No stream is opened before all earlier echoes were verified.
THEOREM EchoesAreSerial == Spec => []OneEchoAtATime
<1>1. ClientInvariant => OneEchoAtATime
    BY DEF ClientInvariant, TypeOK, LoopProgress, Unseen, Pending, OneEchoAtATime
<1>2. QED BY <1>1, ClientInvariantHolds, PTL

\* The raw session pointer is dereferenced only while the session exists.
THEOREM SessionOutlivesUse == Spec => []NoUseAfterClose
<1>1. ClientInvariant => NoUseAfterClose
    BY DEF ClientInvariant, SessionKnown, InLoop, TouchesSession, NoUseAfterClose
<1>2. QED BY <1>1, ClientInvariantHolds, PTL

-----------------------------------------------------------------------------
(***************************************************************************)
(* The demo, for every message, count, timeout and interval, from what is  *)
(* shown above of the client and in EchoStreamProofs of the stream: each   *)
(* step of the demo is a step of the client and, but for the opening of a  *)
(* new stream, a step of the echo stream.                                  *)
(***************************************************************************)

Server == INSTANCE EchoStreamProofs
    WITH Byte <- MessageBytes, MaxBytes <- Len(Message)

\* How the two parts are tied to each other.
Tied ==
    /\ EchoMatches
    /\ peerEnd = "fin" => sent = Message
    /\ peerEnd = "reset" => opened > 0 /\ (~alive \/ phase = "done")
    /\ operation = "match" => finEchoed /\ echoed = Message /\ inbound = <<>>
    /\ phase \in {"open", "pause"} /\ opened > 0 => operation = "match"

DemoInvariant == ClientInvariant /\ Server!EchoInvariant /\ Tied

-----------------------------------------------------------------------------
(* The two descriptions of the stream are the same. *)

LEMMA StreamAssumption == Server!EchoStreamAssumption
    BY EchoDemoAssumption DEF Server!EchoStreamAssumption

\* A step of the stream preserves the invariant of its proofs.
LEMMA StreamPreserves ==
    ASSUME Server!EchoInvariant, Stream!Next
    PROVE  Server!EchoInvariant'
<1>1. Server!Next
    BY DEF Stream!Next, Server!Next,
       Stream!AcceptIncoming, Server!AcceptIncoming, Stream!OnCanRead, Server!OnCanRead,
       Stream!OnCanWrite, Server!OnCanWrite, Stream!ReadAndEcho, Server!ReadAndEcho,
       Stream!OnResetStreamReceived, Server!OnResetStreamReceived,
       Stream!OnStopSendingReceived, Server!OnStopSendingReceived,
       Stream!ResetBeforeAccept, Server!ResetBeforeAccept,
       Stream!StopBeforeAccept, Server!StopBeforeAccept,
       Stream!Open, Server!Open, Stream!Readable, Server!Readable,
       Stream!PeerSend, Server!PeerSend, Stream!PeerFin, Server!PeerFin,
       Stream!Deliver, Server!Deliver, Stream!DeliverFin, Server!DeliverFin,
       Stream!FlushEcho, Server!FlushEcho, Stream!WriteRefused, Server!WriteRefused,
       Stream!BufferAfterWrite, Server!BufferAfterWrite, Stream!SendsFin, Server!SendsFin,
       Stream!Accepts, Server!Accepts, Stream!FinRead, Server!FinRead,
       Stream!peerVars, Server!peerVars, Stream!streamVars, Server!streamVars,
       Stream!visitorVars, Server!visitorVars
<1>2. QED BY <1>1, StreamAssumption, Server!NextPreserves

\* What does not touch the stream preserves it too.
LEMMA IdleStream ==
    ASSUME Server!EchoInvariant, UNCHANGED echoVars
    PROVE  Server!EchoInvariant'
<1>1. UNCHANGED Server!vars
    BY DEF echoVars, Server!vars, Server!peerVars, Server!streamVars, Server!visitorVars
<1>2. QED BY <1>1, StreamAssumption, Server!NextPreserves

LEMMA NewStream ==
    ASSUME FreshStream
    PROVE  Server!EchoInvariant'
<1>1. <<>> \in Seq(MessageBytes) /\ Len(<<>>) = 0 /\ Len(<<>>) <= Len(Message)
    BY EmptySeq, StreamAssumption DEF Server!EchoStreamAssumption
<1>2. <<>> \o <<>> \o <<>> \o <<>> = <<>>
    BY <1>1, ConcatEmptySeq
<1>3. Server!TypeOK'
    <2>1. Len(sent)' <= Len(Message) /\ Len(buffer_)' <= Len(Message)
        BY <1>1 DEF FreshStream
    <2>2. /\ sent' \in Seq(MessageBytes) /\ echoed' \in Seq(MessageBytes)
          /\ inbound' \in Seq(MessageBytes) /\ outbound' \in Seq(MessageBytes)
          /\ buffer_' \in Seq(MessageBytes)
        BY <1>1 DEF FreshStream
    <2>3. QED BY <2>1, <2>2 DEF FreshStream, Server!TypeOK
<1>4. Server!EchoConserved' /\ Server!FinFieldsAgree'
    BY <1>2 DEF FreshStream, Server!EchoConserved, Server!FinFieldsAgree
<1>5. QED BY <1>3, <1>4 DEF Server!EchoInvariant

\* A finished echo of a stream that was not reset is all that was sent.
LEMMA FinishedEcho ==
    ASSUME Server!EchoInvariant, finEchoed, peerEnd # "reset"
    PROVE  peerEnd = "fin" /\ echoed = sent /\ inbound = <<>>
<1>1. /\ outbound = <<>> /\ buffer_ = <<>> /\ inbound = <<>> /\ peerEnd = "fin"
      /\ echoed \in Seq(MessageBytes)
    BY DEF Server!EchoInvariant, Server!FinFieldsAgree, Server!TypeOK
<1>2. echoed \o <<>> \o <<>> \o <<>> = echoed
    BY <1>1
<1>3. QED BY <1>1, <1>2 DEF Server!EchoInvariant, Server!EchoConserved

-----------------------------------------------------------------------------

LEMMA DemoInitEstablishes == DemoInit => DemoInvariant
<1> SUFFICES ASSUME DemoInit PROVE DemoInvariant
    OBVIOUS
<1>1. ClientInvariant
    BY InitEstablishes DEF DemoInit
<1>2. Server!Init
    BY DEF DemoInit, Stream!Init, Server!Init
<1>3. Server!EchoInvariant
    BY <1>2, StreamAssumption, Server!InitEstablishes
<1>4. Tied
    BY DEF DemoInit, Init, Stream!Init, Tied, EchoMatches
<1>5. QED BY <1>1, <1>3, <1>4 DEF DemoInvariant

\* The client opens a stream, or goes on without touching it.
LEMMA ClientStepTied ==
    ASSUME DemoInvariant, RunClient
    PROVE  Tied'
<1> USE DEF DemoInvariant
<1>1. CASE OpenEchoStream
    <2>1. /\ peerEnd' = "open" /\ operation' = "waiting" /\ phase' = "echo"
        BY <1>1 DEF OpenEchoStream, FreshStream, StartEcho, Return, Proceed, responseVars,
           progress, ClientInvariant, TypeOK
    <2>2. QED BY <2>1 DEF Tied, EchoMatches
<1>2. CASE Steps /\ opened' = opened /\ UNCHANGED echoVars
    <2>1. operation' = operation
        BY <1>2 DEF Steps, Main, SetUp, Connected, RequestSession, SessionAnswered, StartEcho,
           FinishEcho, PauseOver, TimedOut, responseVars, ClientInvariant, TypeOK
    <2>2. phase # "done"
        BY <1>2 DEF Steps, Main, SetUp, Connected, RequestSession, SessionAnswered, StartEcho,
           FinishEcho, PauseOver, TimedOut, Waits
    <2>3. alive' # alive /\ opened > 0 => alive
        <3>1. phase = "settings" => opened = 0
            BY DEF ClientInvariant, LoopProgress, BeforeLoop, Pending
        <3>2. QED BY <1>2, <3>1
              DEF Steps, Main, SetUp, Connected, RequestSession, SessionAnswered, StartEcho,
              FinishEcho, PauseOver, TimedOut, transport, WriteMessage, ClientInvariant, TypeOK
    <2>4. phase' \in {"open", "pause"} /\ opened > 0 => operation = "match"
        <3>1. phase = "ready" => opened = 0
            BY DEF ClientInvariant, LoopProgress, BeforeLoop, Pending
        <3>2. QED BY <1>2, <3>1
              DEF Tied, Steps, Main, SetUp, Connected, RequestSession, SessionAnswered, StartEcho,
              FinishEcho, PauseOver, TimedOut, Return, Proceed, Verified, ClientInvariant, TypeOK
    <2>5. QED BY <1>2, <2>1, <2>2, <2>3, <2>4
          DEF Tied, EchoMatches, echoVars, ClientInvariant, TypeOK
<1>3. QED BY <1>1, <1>2 DEF RunClient

\* What the event loop runs, and time: the session may end, and the answer
\* that came is the message.
LEMMA EventTied ==
    ASSUME DemoInvariant, MessageTaken \/ SessionEvents \/ TimePasses \/ ResponseArrives
    PROVE  Tied'
<1> USE DEF DemoInvariant
<1>1. CASE MessageTaken \/ SessionEvents \/ TimePasses
    <2>1. /\ UNCHANGED <<operation, phase, opened>> /\ UNCHANGED echoVars
          /\ alive' => alive
        BY <1>1 DEF MessageTaken, SessionEvents, TimePasses, OnCanWrite, SettingsReceived,
           OnSessionReady, OnSessionClosed, StreamAllowed, Tick, progress, responseVars, transport
    <2>2. QED BY <2>1 DEF Tied, EchoMatches, echoVars, ClientInvariant, TypeOK
<1>2. CASE ResponseArrives
    <2>1. /\ UNCHANGED <<phase, opened, alive>> /\ UNCHANGED echoVars
          /\ phase = "echo" /\ alive /\ finEchoed
          /\ operation' = IF echoed = Message THEN "match" ELSE "mismatch"
        BY <1>2 DEF ResponseArrives, ResponseComplete, progress, transport
    <2>2. peerEnd # "reset"
        BY <2>1 DEF Tied
    <2>3. echoed = Message /\ inbound = <<>>
        BY <2>1, <2>2, FinishedEcho DEF Tied
    <2>4. QED BY <2>1, <2>2, <2>3 DEF Tied, EchoMatches, echoVars
<1>3. QED BY <1>1, <1>2

\* A step of the network or the server: what was compared is not disturbed.
LEMMA ServerStepTied ==
    ASSUME DemoInvariant, UNCHANGED vars,
           \/ MessageArrives \/ EchoArrives \/ ServerAccepts
           \/ ServerReads \/ ServerWrites \/ SessionGone
    PROVE  Tied'
<1> USE DEF DemoInvariant
<1>1. UNCHANGED <<operation, phase, opened, alive>>
    BY DEF vars, progress, responseVars, transport
<1>2. /\ peerEnd' = "fin" => sent' = Message
      /\ peerEnd' = "reset" => peerEnd = "reset" \/ (opened > 0 /\ (~alive \/ phase = "done"))
    BY DEF Tied, MessageArrives, EchoArrives, ServerAccepts, ServerReads, ServerWrites,
       SessionGone, Stream!PeerSend, Stream!PeerFin, Stream!Deliver, Stream!DeliverFin,
       Stream!AcceptIncoming, Stream!OnCanRead, Stream!OnCanWrite,
       Stream!OnResetStreamReceived, Stream!OnStopSendingReceived,
       Stream!ResetBeforeAccept, Stream!StopBeforeAccept, Stream!peerVars
<1>3. finEchoed => peerEnd # "open" /\ outbound = <<>> /\ attached
    BY DEF Server!EchoInvariant, Server!FinFieldsAgree
<1>4. finEchoed => finEchoed' /\ echoed' = echoed /\ inbound' \in {inbound, <<>>}
    BY <1>3 DEF MessageArrives, EchoArrives, ServerAccepts, ServerReads, ServerWrites,
       SessionGone, Stream!PeerSend, Stream!PeerFin, Stream!Deliver, Stream!DeliverFin,
       Stream!AcceptIncoming, Stream!OnCanRead, Stream!OnCanWrite, Stream!ReadAndEcho,
       Stream!OnResetStreamReceived, Stream!OnStopSendingReceived,
       Stream!ResetBeforeAccept, Stream!StopBeforeAccept, Stream!peerVars,
       Stream!streamVars
<1>5. QED BY <1>1, <1>2, <1>4 DEF Tied, EchoMatches

-----------------------------------------------------------------------------

\* Each step is one of the client's and one of the stream's.
LEMMA DemoNextPreserves == DemoInvariant /\ [DemoNext]_demoVars => DemoInvariant'
<1> SUFFICES ASSUME DemoInvariant, [DemoNext]_demoVars PROVE DemoInvariant'
    OBVIOUS
<1> USE DEF DemoInvariant
<1>1. CASE RunClient
    <2>1. Steps
        BY <1>1 DEF RunClient, OpenEchoStream, Steps
    <2>2. ClientInvariant'
        BY <2>1, NextPreserves DEF Next
    <2>3. Server!EchoInvariant'
        BY <1>1, IdleStream, NewStream DEF RunClient, OpenEchoStream
    <2>4. QED BY <1>1, <2>2, <2>3, ClientStepTied
<1>2. CASE MessageTaken \/ SessionEvents \/ TimePasses \/ ResponseArrives
    <2>1. /\ UNCHANGED echoVars
          /\ Events \/ Tick
        BY <1>2 DEF MessageTaken, SessionEvents, TimePasses, ResponseArrives, Events
    <2>2. ClientInvariant'
        BY <2>1, NextPreserves DEF Next
    <2>3. QED BY <1>2, <2>1, <2>2, IdleStream, EventTied
<1>3. CASE \/ MessageArrives \/ EchoArrives \/ ServerAccepts
           \/ ServerReads \/ ServerWrites \/ SessionGone
    <2>1. UNCHANGED vars /\ Stream!Next
        BY <1>3 DEF MessageArrives, EchoArrives, ServerAccepts, ServerReads, ServerWrites,
           SessionGone, Stream!Next
    <2>2. ClientInvariant'
        BY <2>1, NextPreserves
    <2>3. QED BY <1>3, <2>1, <2>2, StreamPreserves, ServerStepTied
<1>4. CASE UNCHANGED demoVars
    <2>1. UNCHANGED vars /\ UNCHANGED echoVars
        BY <1>4 DEF demoVars
    <2>2. ClientInvariant' /\ Server!EchoInvariant'
        BY <2>1, NextPreserves, IdleStream
    <2>3. Tied'
        BY <2>1 DEF Tied, EchoMatches, echoVars, vars, progress, responseVars, transport
    <2>4. QED BY <2>2, <2>3
<1>5. QED BY <1>1, <1>2, <1>3, <1>4 DEF DemoNext

\* The client and the echo server keep step through any number of echoes.
THEOREM DemoInvariantHolds == DemoSpec => []DemoInvariant
    BY DemoInitEstablishes, DemoNextPreserves, PTL DEF DemoSpec

\* The client of the demo is EchoClient's: it does nothing with the echo server
\* that it may not do with any other, so that all that is shown of RunClient
\* (test_client.cc 156-328) holds in the demo.
THEOREM ClientImplemented == DemoSpec => Spec
<1>1. DemoInit => Init
    BY DEF DemoInit
<1>2. [DemoNext]_demoVars => [Next]_vars
    <2>1. ASSUME DemoNext PROVE Next \/ UNCHANGED vars
        <3>1. CASE RunClient
            BY <3>1 DEF RunClient, OpenEchoStream, Next, Steps
        <3>2. CASE MessageTaken \/ SessionEvents \/ TimePasses \/ ResponseArrives
            BY <3>2 DEF MessageTaken, SessionEvents, TimePasses, ResponseArrives,
                        Next, Events
        <3>3. CASE MessageArrives \/ EchoArrives
            BY <3>3 DEF MessageArrives, EchoArrives
        <3>4. CASE ServerAccepts \/ ServerReads \/ ServerWrites \/ SessionGone
            BY <3>4 DEF ServerAccepts, ServerReads, ServerWrites, SessionGone
        <3>5. QED BY <2>1, <3>1, <3>2, <3>3, <3>4 DEF DemoNext
    <2>2. QED BY <2>1 DEF demoVars
<1>3. QED BY <1>1, <1>2, PTL DEF DemoSpec, Spec

\* With the echo server, no message of any length and content ever fails to
\* verify (test_client.cc 303, echo_visitor.cc 23-55).
THEOREM EveryAnswerMatches == DemoSpec => []EchoMatches
<1>1. DemoInvariant => EchoMatches
    BY DEF DemoInvariant, Tied
<1>2. QED BY <1>1, DemoInvariantHolds, PTL

\* When the client opens its next stream the server is through with the last.
THEOREM EchoesDoNotOverlap == DemoSpec => ServerDoneBetweenEchoes
<1>1. DemoInvariant /\ [DemoNext]_demoVars =>
        [opened' # opened /\ opened > 0 =>
           /\ fin_sent_ /\ finEchoed /\ echoed = Message
           /\ inbound = <<>> /\ buffer_ = <<>> /\ outbound = <<>>]_demoVars
    <2> SUFFICES ASSUME DemoInvariant, DemoNext, opened' # opened, opened > 0
                 PROVE  /\ fin_sent_ /\ finEchoed /\ echoed = Message
                        /\ inbound = <<>> /\ buffer_ = <<>> /\ outbound = <<>>
        OBVIOUS
    <2>1. phase = "open"
        BY DEF DemoNext, RunClient, OpenEchoStream, MessageTaken, SessionEvents, TimePasses,
           ResponseArrives, MessageArrives, EchoArrives, ServerAccepts, ServerReads,
           ServerWrites, SessionGone, StartEcho, OnCanWrite, SettingsReceived, OnSessionReady,
           OnSessionClosed, StreamAllowed, Tick, ResponseComplete, progress, vars
    <2>2. finEchoed /\ echoed = Message /\ inbound = <<>>
        BY <2>1 DEF DemoInvariant, Tied
    <2>3. QED BY <2>2 DEF DemoInvariant, Server!EchoInvariant, Server!FinFieldsAgree
<1>2. QED BY <1>1, DemoInvariantHolds, PTL DEF DemoSpec, ServerDoneBetweenEchoes

=============================================================================
