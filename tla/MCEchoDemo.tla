------------------------------ MODULE MCEchoDemo ------------------------------
(* A message for EchoDemo in which a lost, doubled or swapped byte shows.  *)
EXTENDS EchoDemo

CONSTANTS b1, b2

MCMessage == <<b1, b2, b2>>

=============================================================================
