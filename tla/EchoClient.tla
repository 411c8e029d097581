----------------------------- MODULE EchoClient -----------------------------
(***************************************************************************)
(* The test client (samples/web_transport_test_client.cc): main, RunClient *)
(* and the callbacks of EchoClientVisitor and of the echo operation.       *)
(*                                                                         *)
(* RunClient is one thread of straight-line code that hands control to the *)
(* event loop in five places; `phase' says in which of them it is, and the *)
(* code between two of them is one action.  Callbacks run inside the event *)
(* loop only.  quic::ProcessEventsUntil (external) tests its condition     *)
(* between passes of the loop and once more at the deadline, and one pass  *)
(* may run several callbacks: more of them may follow the one that made    *)
(* the condition true before RunClient looks again.                        *)
(*                                                                         *)
(* Time is counted in ticks spent in the current phase.                    *)
(***************************************************************************)
EXTENDS Naturals

CONSTANTS
    MaxCount,          \* largest --count tried (model bound)
    Timeout,           \* a legal --timeout_ms, in ticks
    Interval,          \* a positive --interval_ms, in ticks
    ConnectLimit       \* when QUICHE itself gives a handshake up, in ticks

ASSUME EchoClientAssumption ==
    /\ MaxCount \in Nat
    /\ Timeout \in Nat \ {0}
    /\ Interval \in Nat \ {0}
    /\ ConnectLimit \in Nat \ {0}

VARIABLES
    \* The command line: 0 stands for a value main refuses, or no interval.
    count, timeout, interval,
    \* RunClient.
    phase,             \* where it is
    exit,              \* what main returned
    waited,            \* ticks spent in this phase
    opened,            \* echo streams opened so far
    index,             \* the loop's i: echoes it has verified
    \* EchoClientVisitor::State and the current EchoOperation.
    ready, failed,
    operation,         \* "none", "waiting", or what the response was
    \* The transport.
    settings,          \* have the HTTP/3 SETTINGS arrived?
    alive,             \* does the WebTransport session exist?
    canOpen,           \* may another bidirectional stream be opened?
    written,           \* was the current message taken by its stream?
    \* History.
    matched            \* responses so far that were the message

flags == <<count, timeout, interval>>
progress == <<opened, index>>
stateVars == <<ready, failed>>
transport == <<settings, alive, canOpen, written>>
responseVars == <<operation, matched>>
vars == <<flags, phase, exit, waited, progress, stateVars, responseVars,
          transport>>

Waits == {"settings", "ready", "open", "echo"}
Phases == {"main", "setup", "connect", "pause", "done"} \union Waits

TypeOK ==
    /\ count \in 0..MaxCount
    /\ timeout \in {0, Timeout} /\ interval \in {0, Interval}
    /\ phase \in Phases
    /\ exit \in {"none", "0", "1"}
    /\ waited \in Nat
    /\ opened \in 0..MaxCount /\ index \in 0..MaxCount
    /\ matched \in 0..MaxCount
    /\ ready \in BOOLEAN /\ failed \in BOOLEAN
    /\ operation \in {"none", "waiting", "match", "mismatch"}
    /\ settings \in BOOLEAN /\ alive \in BOOLEAN
    /\ canOpen \in BOOLEAN /\ written \in BOOLEAN

Init ==
    /\ count \in 0..MaxCount
    /\ timeout \in {0, Timeout} /\ interval \in {0, Interval}
    /\ phase = "main" /\ exit = "none" /\ waited = 0
    /\ opened = 0 /\ index = 0
    /\ ready = FALSE /\ failed = FALSE
    /\ operation = "none" /\ matched = 0
    /\ settings = FALSE /\ alive = FALSE
    /\ canOpen = FALSE /\ written = FALSE

-----------------------------------------------------------------------------
(* Leaving a phase. *)

Return(code) ==
    /\ phase' = "done"
    /\ exit' = code
    /\ waited' = 0
    /\ UNCHANGED flags

Proceed(next) ==
    /\ phase' = next
    /\ waited' = 0
    /\ UNCHANGED <<flags, exit>>

\* Mutation: any number of echoes will do.
AcceptsAnyCount == timeout > 0

\* The flags main lets through.
ValidFlags == count > 0 /\ timeout > 0

\* Wrong arguments, flags or URLs end main with 1.
Main ==
    /\ phase = "main"
    /\ \/ Return("1")
       \/ ValidFlags /\ Proceed("setup")
    /\ UNCHANGED <<progress, stateVars, responseVars, transport>>

\* RunClient up to the call of Connect: an unresolved host, no certificate
\* verifier or a client that does not initialize end it with 1.
SetUp ==
    /\ phase = "setup"
    /\ Return("1") \/ Proceed("connect")
    /\ UNCHANGED <<progress, stateVars, responseVars, transport>>

Connected ==
    /\ phase = "connect"
    /\ \/ Return("1")
       \/ Proceed("settings")
    /\ UNCHANGED <<progress, stateVars, responseVars, transport>>

-----------------------------------------------------------------------------
(* The conditions RunClient waits for. *)

\* Mutation: the session is asked before `failed' is looked at.
AsksSessionFirst == phase = "open"

\* Does testing the condition for a new stream dereference the session?
TouchesSession == phase = "open" /\ ~failed

Condition ==
    CASE phase = "settings" -> settings
      [] phase = "ready" -> ready \/ failed
      [] phase = "open" -> failed \/ canOpen
      [] phase = "echo" -> operation \in {"match", "mismatch"} \/ failed
      [] OTHER -> FALSE

\* Mutation: a wait that times out starts over.
WaitsAgain ==
    /\ phase \in Waits
    /\ ~Condition
    /\ waited = timeout
    /\ waited' = 0
    /\ UNCHANGED <<flags, phase, exit, progress, stateVars, responseVars, transport>>

\* The deadline passed and the last look found nothing.
TimedOut ==
    /\ phase \in Waits
    /\ ~Condition
    /\ waited = timeout
    /\ Return("1")
    /\ UNCHANGED <<progress, stateVars, responseVars, transport>>

\* With the SETTINGS there, the CONNECT request is sent and the visitor set.
\* The server may not support WebTransport, a stream or the session may be
\* missing, and a write error may end the session before it has a visitor.
RequestSession ==
    /\ phase = "settings" /\ settings
    /\ \/ Return("1") /\ UNCHANGED transport
       \/ /\ Proceed("ready")
          /\ alive' \in BOOLEAN
          /\ UNCHANGED <<settings, canOpen, written>>
    /\ UNCHANGED <<progress, stateVars, responseVars>>

\* The session has answered, and the loop begins.
SessionAnswered ==
    /\ phase = "ready" /\ (ready \/ failed)
    /\ \/ failed /\ Return("1")
       \/ ~failed /\ index < count /\ Proceed("open")
       \/ ~failed /\ index >= count /\ Return("0")
    /\ UNCHANGED <<progress, stateVars, responseVars, transport>>

-----------------------------------------------------------------------------
(* One echo. *)

\* Writing the message: the stream takes it, or keeps it back for a later
\* OnCanWrite, or a write error ends the session.
WriteMessage ==
    \/ written' = TRUE /\ UNCHANGED <<alive, failed>>
    \/ written' = FALSE /\ UNCHANGED <<alive, failed>>
    \/ written' = FALSE /\ alive' = FALSE /\ failed' = TRUE

\* The wait for a stream is over: no stream, or the next echo is on its way,
\* whatever became of the write.
StartEcho ==
    /\ phase = "open" /\ (failed \/ canOpen)
    /\ \/ /\ Return("1")
          /\ UNCHANGED <<progress, failed, responseVars, transport>>
       \/ /\ ~failed
          /\ Proceed("echo")
          /\ opened' = opened + 1
          /\ operation' = "waiting"
          /\ canOpen' \in BOOLEAN
          /\ WriteMessage
          /\ UNCHANGED <<index, matched, settings>>
    /\ UNCHANGED ready

\* Mutation: the response is not compared.
AnyResponse == ~failed

\* What makes an echo count as verified.
Verified == ~failed /\ operation = "match"

\* Mutations: the loop ends one echo too early, or one too late.
EndsEarly == index + 2 >= count
EndsLate == index + 1 > count

\* Is this the last echo?
LastEcho == index + 1 >= count

\* The wait for the response is over: it is compared, and the next echo
\* begins now or after the interval.
FinishEcho ==
    /\ phase = "echo" /\ (operation \in {"match", "mismatch"} \/ failed)
    /\ \/ ~Verified /\ Return("1") /\ UNCHANGED index
       \/ /\ Verified
          /\ index' = index + 1
          /\ \/ LastEcho /\ Return("0")
             \/ ~LastEcho /\ interval > 0 /\ Proceed("pause")
             \/ ~LastEcho /\ interval = 0 /\ Proceed("open")
    /\ UNCHANGED <<opened, stateVars, responseVars, transport>>

\* RunEventLoopFor is over.
PauseOver ==
    /\ phase = "pause" /\ waited = interval
    /\ \/ failed /\ Return("1")
       \/ ~failed /\ Proceed("open")
    /\ UNCHANGED <<progress, stateVars, responseVars, transport>>

-----------------------------------------------------------------------------
(* What the event loop runs. *)

InEventLoop == phase \in Waits \union {"pause"}

SettingsReceived ==
    /\ InEventLoop \/ phase = "connect"
    /\ ~settings
    /\ settings' = TRUE
    /\ UNCHANGED <<flags, phase, exit, waited, progress, stateVars, responseVars,
                   alive, canOpen, written>>

OnSessionReady ==
    /\ InEventLoop /\ alive /\ ~ready
    /\ ready' = TRUE
    /\ UNCHANGED <<flags, phase, exit, waited, progress, failed, responseVars,
                   transport>>

OnSessionClosed ==
    /\ InEventLoop /\ alive
    /\ alive' = FALSE
    /\ failed' = TRUE
    /\ UNCHANGED <<flags, phase, exit, waited, progress, ready, responseVars,
                   settings, canOpen, written>>

StreamAllowed ==
    /\ InEventLoop /\ alive /\ ~canOpen
    /\ canOpen' = TRUE
    /\ UNCHANGED <<flags, phase, exit, waited, progress, stateVars, responseVars,
                   settings, alive, written>>

\* A write that was kept back goes out.
OnCanWrite ==
    /\ phase = "echo" /\ alive /\ ~written
    /\ written' = TRUE
    /\ UNCHANGED <<flags, phase, exit, waited, progress, stateVars, responseVars,
                   settings, alive, canOpen>>

\* The server ends its half of the stream.  A server that is not an echo
\* server may answer anything, and without having seen the message.
ResponseComplete ==
    /\ phase = "echo" /\ alive /\ operation = "waiting"
    /\ \/ written /\ operation' = "match" /\ matched' = matched + 1
       \/ operation' = "mismatch" /\ UNCHANGED matched
    /\ UNCHANGED <<flags, phase, exit, waited, progress, stateVars, transport>>

\* Time passes: a wait ends at its timeout, the pause after its interval, and
\* Connect when QUICHE gives up.
PhaseLimit ==
    CASE phase \in Waits -> timeout
      [] phase = "pause" -> interval
      [] phase = "connect" -> ConnectLimit
      [] OTHER -> 0

Tick ==
    /\ waited < PhaseLimit
    /\ ~Condition
    /\ waited' = waited + 1
    /\ UNCHANGED <<flags, phase, exit, progress, stateVars, responseVars, transport>>

-----------------------------------------------------------------------------

Steps ==
    \/ Main \/ SetUp \/ Connected \/ RequestSession \/ SessionAnswered
    \/ StartEcho \/ FinishEcho \/ PauseOver \/ TimedOut

Events ==
    \/ SettingsReceived \/ OnSessionReady \/ OnSessionClosed
    \/ StreamAllowed \/ OnCanWrite \/ ResponseComplete

Next == Steps \/ Events \/ Tick

Spec == Init /\ [][Next]_vars

\* The program runs and time passes; nothing is assumed of the server.
FairSpec == Spec /\ WF_vars(Steps) /\ WF_vars(Tick)

-----------------------------------------------------------------------------
(* Properties. *)

\* 0 means every echo asked for came back equal to the message, at least one
\* was asked for, and the session was not known to have failed; the README
\* and docs/WEBTRANSPORT_DEMO.md:279-280 promise it of the exit code
\* (249-252, 265, 303-312, 320-323, 327, 349-355).
SuccessMeansEchoed ==
    exit = "0" => count > 0 /\ matched = count /\ ~failed

\* Echoes are strictly one after the other: a stream is opened only when all
\* earlier ones came back verified (257-325).
OneEchoAtATime == opened <= matched + 1

\* The session is dereferenced only while it exists: RunClient keeps a raw
\* pointer to it and relies on `failed' being set before it dies and being
\* looked at first (258-270).  The use in SetVisitor (241) needs neither: the
\* event loop, which deletes what is closed, does not run before it.
NoUseAfterClose == TouchesSession => alive

\* The client ends whatever the server does or fails to do.
Terminates == <>(phase = "done")

\* --timeout_ms bounds the wait for the connection too: the flag's help
\* (test_client.cc:46) and docs/WEBTRANSPORT_DEMO.md:415.
ConnectionWaitBounded == phase = "connect" => waited <= timeout

=============================================================================
