--------------------------- MODULE CommandService ---------------------------
(***************************************************************************)
(* What the coordinator promises the tasks that send it commands: a call   *)
(* that has been accepted is answered once, while its task waits for it,   *)
(* and calls are answered in the order in which they were accepted.  Who   *)
(* answers (the modem, or the coordinator when it sees the modem boot) and *)
(* what the answer says is left open.                                      *)
(***************************************************************************)
CONSTANT Callers

VARIABLES
    status,  \* of each caller: idle, invoked, accepted or answered
    ahead    \* pairs of accepted calls, the earlier one first

TypeInvariant ==
    /\ status \in [Callers -> {"idle", "invoked", "accepted", "answered"}]
    /\ ahead \subseteq Callers \X Callers

Init ==
    /\ status = [c \in Callers |-> "idle"]
    /\ ahead = {}

Invoke(c) ==
    /\ status[c] = "idle"
    /\ status' = [status EXCEPT ![c] = "invoked"]
    /\ UNCHANGED ahead

Accept(c) ==
    /\ status[c] = "invoked"
    /\ status' = [status EXCEPT ![c] = "accepted"]
    /\ ahead' = ahead \cup {<<d, c>> : d \in {e \in Callers :
                                                status[e] = "accepted"}}

Answer(c) ==
    /\ status[c] = "accepted"
    /\ \A d \in Callers : <<d, c>> \notin ahead
    /\ status' = [status EXCEPT ![c] = "answered"]
    /\ ahead' = {p \in ahead : p[1] # c}

Return(c) ==
    /\ status[c] = "answered"
    /\ status' = [status EXCEPT ![c] = "idle"]
    /\ UNCHANGED ahead

Next == \E c \in Callers : Invoke(c) \/ Accept(c) \/ Answer(c) \/ Return(c)

Spec == Init /\ [][Next]_<<status, ahead>>
=============================================================================
