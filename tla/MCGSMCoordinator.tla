-------------------------- MODULE MCGSMCoordinator --------------------------
(* Small instances of GSMCoordinator.                                      *)
EXTENDS GSMCoordinator, TLC

\* The order in which a SIM800L prints its boot messages.
MCBootOrder == <<"Ready", "CFUN", "CPIN", "CallReady", "SMSReady">>

\* A modem of which only the first and the last are seen.
MCShortBoot == <<"Ready", "SMSReady">>

\* A modem of which only the first is seen.
MCOneBoot == <<"Ready">>

Symmetry == Permutations(Callers)
=============================================================================
