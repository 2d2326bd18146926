------------------------------ MODULE MCShell ------------------------------
(* A small instance of Shell.                                              *)
EXTENDS Shell

\* What a user types and pastes; the last fills more than one element.
MCInputs == {<<"a">>, <<"r", "cr", "lf">>, <<"a", "a", "del", "cr">>}
=============================================================================
