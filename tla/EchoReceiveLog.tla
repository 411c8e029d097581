--------------------------- MODULE EchoReceiveLog ---------------------------
(***************************************************************************)
(* The receive log of the echo visitor, beside EchoStream.  OnCanRead logs *)
(* the payload of buffer_ after every Read that returned bytes             *)
(* (samples/web_transport_echo_visitor.cc, 24-29).                         *)
(***************************************************************************)
EXTENDS EchoStream

VARIABLE rxLog     \* the payloads of the [echo_receive] lines, put together

\* Read appended to buffer_, and the whole of buffer_ is logged.
LogReceived == rxLog' = rxLog \o buffer_ \o inbound

\* A step read something exactly when the unread bytes went away.
BytesRead == inbound # <<>> /\ inbound' = <<>>

LogInit == Init /\ rxLog = <<>>

LogNext ==
    /\ Next
    /\ \/ BytesRead /\ LogReceived
       \/ ~BytesRead /\ UNCHANGED rxLog

LogSpec == LogInit /\ [][LogNext]_<<vars, rxLog>>

\* The log shows each byte of application data once.
\* docs/WEBTRANSPORT_NULL_CRYPTER_PLAN.md:278 asks for it under partial and
\* blocked writes: "avoid recording application bytes more than once".
BytesLoggedOnce == rxLog \o inbound = sent

=============================================================================
