--------------------------- MODULE MCInterReboot ---------------------------
(* A small instance of InterReboot: names of two characters.               *)
EXTENDS InterReboot

MCNoFire == [status |-> 0, who |-> <<"a", "b">>]
MCHardFault == [status |-> 1, who |-> <<"a">>]

\* Fires whose names fit, two of them with one status, and one whose name
\* does not fit, like "ISR mallocator failed".
MCFires == {MCHardFault,
            [status |-> 1, who |-> <<"a", "b">>],
            [status |-> 2, who |-> <<>>],
            [status |-> 2, who |-> <<"a", "b", "a", "b">>]}
=============================================================================
