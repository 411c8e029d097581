---------------------------- MODULE MCServerRequest ----------------------------
(***************************************************************************)
(* ServerRequest with the numbers at both ends of the range.               *)
(***************************************************************************)
EXTENDS ServerRequest

Boundaries == {-1, 0, 255, 256}

=============================================================================
