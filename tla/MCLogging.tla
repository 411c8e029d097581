------------------------------- MODULE MCLogging -------------------------------
(* Call sites for Logging: conditions `a', `a || b' and `a && b || c', and  *)
(* verbosities from the default to 1.                                       *)
EXTENDS Logging

MCCondition == { << <<"a">> >>, << <<"a">>, <<"b">> >>, << <<"a", "b">>, <<"c">> >> }

MCLevel == -1..1

=============================================================================
