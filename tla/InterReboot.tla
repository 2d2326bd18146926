---------------------------- MODULE InterReboot ----------------------------
(***************************************************************************)
(* The record that tells the next life of the board why the last one ended *)
(* (InterRebootData in Core/Src/Watchdog.cpp).  It is kept in a memory     *)
(* that a reset leaves alone and that holds anything after a power loss,   *)
(* and carries a CRC.                                                      *)
(*                                                                         *)
(* The watchdog task checks the record at boot, reports a fire and writes  *)
(* "no fire" over it; halt_and_catch_fire, with interrupts disabled,       *)
(* writes a fire and resets the board.  The board may be reset between any *)
(* two stores.  The CRC is taken to tell all records apart.                *)
(***************************************************************************)
EXTENDS Integers, Sequences

CONSTANTS
    NameLen,    \* configMAX_TASK_NAME_LEN
    Char,       \* the characters of names
    Fires,      \* the fires of the program: [status, who]
    NoFire,     \* what the watchdog calls catched_fire with
    HardFault,  \* the fire of HardFault_Handler
    MaxResets   \* bound: resets and power losses

\* HCF_DIDNT_CATCH_FIRE is 0.
ASSUME RebootAssumption ==
    /\ NameLen \in Nat \ {0}
    /\ "nul" \notin Char
    /\ Fires \subseteq [status : Nat \ {0}, who : Seq(Char)]
    /\ NoFire \in [status : {0}, who : Seq(Char)] /\ Len(NoFire.who) <= NameLen
    /\ HardFault \in Fires /\ Len(HardFault.who) <= NameLen
    /\ MaxResets \in Nat

VARIABLES
    record,    \* g_inter_reboot_data
    pc,        \* the next store of whoever runs
    burning,   \* TRUE: halt_and_catch_fire runs, else the watchdog task
    arg,       \* the arguments of catched_fire
    i,         \* its loop index
    old, sum,  \* old_sum of self_check, and what it returned
    then,      \* where self_check returns to
    reported,  \* the fire the watchdog has reported in this life
    resets,    \* resets and power losses so far
    \* history: the last fire that was written to the end and has not been
    \* followed by "no fire"; that fire, if it ended the last life
    pending, due

calls == <<arg, i>>
check == <<old, sum, then>>
history == <<pending, due>>
vars == <<record, pc, burning, calls, check, reported, resets, history>>

Letters == Char \cup {"nul"}
\* What the CRC is computed on, the field crc_sum being 0.
Contents(r) == [status |-> r.status, name |-> r.name, size |-> r.size]
Valid(r) == r.crc = Contents(r)

\* What a report is made of, and the one a fire should lead to.
Report(r) == Contents(r)
Expected(f) ==
    LET n == IF Len(f.who) < NameLen THEN Len(f.who) ELSE NameLen
    IN  [status |-> f.status, size |-> n,
         name |-> [k \in 1..NameLen |-> IF k <= n THEN f.who[k] ELSE "nul"]]
Nothing == Expected([status |-> 0, who |-> <<>>])

\* Neither is a CRC of a record.
Zero == [crc |-> "zero"]
Junk == [crc |-> "junk"]
JunkRecord == [status |-> 1, name |-> [k \in 1..NameLen |-> "nul"],
               size |-> NameLen, crc |-> Junk]

Init ==
    /\ record = JunkRecord
    /\ pc = "boot" /\ burning = FALSE
    /\ arg = NoFire /\ i = 0
    /\ old = Zero /\ sum = Zero /\ then = "compare"
    /\ reported = Nothing /\ resets = 0
    /\ pending = Nothing /\ due = Nothing

-----------------------------------------------------------------------------
(* self_check: clears crc_sum, sums up, and puts the old value back.       *)

ClearCrc(from, to) ==
    /\ pc = from
    /\ old' = record.crc
    /\ record' = [record EXCEPT !.crc = Zero]
    /\ then' = to
    /\ pc' = "sum"
    /\ UNCHANGED <<burning, calls, sum, reported, resets, history>>

RestoreCrc ==
    /\ pc = "sum"
    /\ sum' = Contents(record)
    /\ record' = [record EXCEPT !.crc = old]
    /\ pc' = then
    /\ UNCHANGED <<burning, calls, old, then, reported, resets, history>>

-----------------------------------------------------------------------------
(* The watchdog task at boot.                                              *)

\* initialize_if_needed begins.
StartCheck == ClearCrc("boot", "compare")

\* Mutant: the record of the last life is believed whatever its CRC.
CompareNot ==
    /\ pc = "compare"
    /\ reported' = IF record.status # 0 THEN Report(record) ELSE reported
    /\ arg' = NoFire
    /\ pc' = "status"
    /\ UNCHANGED <<record, burning, i, check, resets, history>>

\* A record whose CRC is right is reported when it is that of a fire, and
\* overwritten; any other is initialised.
Compare ==
    /\ pc = "compare"
    /\ IF sum = record.crc
       THEN /\ reported' = IF record.status # 0 THEN Report(record)
                           ELSE reported
            /\ arg' = NoFire
            /\ pc' = "status"
       ELSE /\ pc' = "initialise"
            /\ UNCHANGED <<reported, arg>>
    /\ UNCHANGED <<record, burning, i, check, resets, history>>

Initialise ==
    /\ pc = "initialise"
    /\ record' = [record EXCEPT !.status = 0]
    /\ pc' = "clear"
    /\ UNCHANGED <<burning, calls, check, reported, resets, history>>

-----------------------------------------------------------------------------
(* catched_fire, of the watchdog task or of a fire.                        *)

StoreStatus ==
    /\ pc = "status"
    /\ record' = [record EXCEPT !.status = arg.status]
    /\ pc' = "size"
    /\ UNCHANGED <<burning, calls, check, reported, resets, history>>

\* The loop that measures the name stops one character late.
StoreSize ==
    /\ pc = "size"
    /\ record' = [record EXCEPT !.size = IF Len(arg.who) <= NameLen + 1
                                         THEN Len(arg.who) ELSE NameLen + 1]
    /\ i' = 1
    /\ pc' = "name"
    /\ UNCHANGED <<burning, arg, check, reported, resets, history>>

\* Mutant: the rest of the old name stays.
StoreNameUnpadded ==
    /\ pc = "name"
    /\ i <= NameLen
    /\ record' = IF i <= record.size
                 THEN [record EXCEPT !.name[i] = arg.who[i]] ELSE record
    /\ i' = i + 1
    /\ UNCHANGED <<pc, burning, arg, check, reported, resets, history>>

\* Mutant: the name is copied as it is.
StoreNameAsItIs ==
    /\ pc = "name"
    /\ i <= NameLen
    /\ record' = [record EXCEPT !.name = arg.who]
    /\ i' = NameLen + 1
    /\ UNCHANGED <<pc, burning, arg, check, reported, resets, history>>

\* The two loops over the name: its characters, and zeroes.
StoreName ==
    /\ pc = "name"
    /\ i <= NameLen
    /\ record' = [record EXCEPT !.name[i] = IF i <= record.size
                                            THEN arg.who[i] ELSE "nul"]
    /\ i' = i + 1
    /\ UNCHANGED <<pc, burning, arg, check, reported, resets, history>>

\* A store past the name falls on hcf_task_name_sz, which bounds the loop:
\* depending on how it was compiled it ends, or goes on through the memory
\* and faults.
StorePastName ==
    /\ pc = "name"
    /\ i = NameLen + 1
    /\ record.size > NameLen
    /\ record' = [record EXCEPT !.size = NameLen + 2]
    /\ i' = i + 1
    /\ pc' \in {"clear", "fault"}
    /\ UNCHANGED <<burning, arg, check, reported, resets, history>>

\* The handler of that fault is one more halt_and_catch_fire.
FaultInFire ==
    /\ pc = "fault"
    /\ arg' = HardFault
    /\ burning' = TRUE
    /\ pc' = "status"
    /\ UNCHANGED <<record, i, check, reported, resets, history>>

NameStored ==
    /\ pc = "name"
    /\ i > NameLen
    /\ record.size <= NameLen
    /\ pc' = "clear"
    /\ UNCHANGED <<record, burning, calls, check, reported, resets, history>>

SumUp == ClearCrc("clear", "seal")

\* Mutant: the CRC is stored by a fire only.
SealFireOnly ==
    /\ pc = "seal"
    /\ record' = IF burning THEN [record EXCEPT !.crc = sum] ELSE record
    /\ IF burning
       THEN /\ pc' = "boot"
            /\ reported' = Nothing
            /\ pending' = Expected(arg) /\ due' = Expected(arg)
       ELSE /\ pc' = "running"
            /\ pending' = Nothing
            /\ UNCHANGED <<due, reported>>
    /\ burning' = FALSE
    /\ UNCHANGED <<calls, check, resets>>

\* The CRC is stored.  Then the watchdog task enters its loop, or
\* NVIC_SystemReset ends this life.
Seal ==
    /\ pc = "seal"
    /\ record' = [record EXCEPT !.crc = sum]
    /\ IF burning
       THEN /\ pc' = "boot"
            /\ reported' = Nothing
            /\ pending' = Expected(arg) /\ due' = Expected(arg)
       ELSE /\ pc' = "running"
            /\ pending' = Nothing
            /\ UNCHANGED <<due, reported>>
    /\ burning' = FALSE
    /\ UNCHANGED <<calls, check, resets>>

-----------------------------------------------------------------------------
(* What ends a life.                                                       *)

\* halt_and_catch_fire, in a task or an interrupt: nothing else runs then.
CatchFire ==
    /\ ~burning
    /\ \E f \in Fires : arg' = f
    /\ burning' = TRUE
    /\ pc' = "status"
    /\ UNCHANGED <<record, i, check, reported, resets, history>>

\* The reset pin, the brown-out detector, the shell's "restart".
Reset ==
    /\ resets < MaxResets
    /\ resets' = resets + 1
    /\ pc' = "boot" /\ burning' = FALSE
    /\ reported' = Nothing
    /\ due' = Nothing
    /\ UNCHANGED <<record, calls, check, pending>>

PowerLoss ==
    /\ resets < MaxResets
    /\ resets' = resets + 1
    /\ record' = JunkRecord
    /\ pc' = "boot" /\ burning' = FALSE
    /\ reported' = Nothing
    /\ pending' = Nothing /\ due' = Nothing
    /\ UNCHANGED <<calls, check>>

Watchdog == StartCheck \/ Compare \/ Initialise

CatchedFire ==
    \/ StoreStatus
    \/ StoreSize
    \/ StoreName
    \/ StorePastName
    \/ FaultInFire
    \/ NameStored

Next ==
    \/ Watchdog
    \/ CatchedFire
    \/ RestoreCrc
    \/ SumUp
    \/ Seal
    \/ CatchFire
    \/ Reset
    \/ PowerLoss

Spec == Init /\ [][Next]_vars

-----------------------------------------------------------------------------
(* Properties.                                                             *)

Reports == [status : Nat, name : [1..NameLen -> Letters], size : Nat]
Sums == Reports \cup {Zero, Junk}

\* Every variable has a value of its type.
TypeOK ==
    /\ record \in [status : Nat, name : [1..NameLen -> Letters],
                   size : Nat, crc : Sums]
    /\ pc \in {"boot", "sum", "compare", "initialise", "status", "size",
               "name", "clear", "seal", "running", "fault"}
    /\ burning \in BOOLEAN
    /\ arg \in Fires \cup {NoFire}
    /\ i \in 0..(NameLen + 2)
    /\ old \in Sums /\ sum \in Sums /\ then \in {"compare", "seal"}
    /\ reported \in Reports
    /\ resets \in 0..MaxResets
    /\ pending \in Reports /\ due \in Reports

\* The size of the name never exceeds the name: "we don't trust that `who` is
\* null terminated either".
NameFits == record.size <= NameLen

\* A report tells of a fire: its status, and its name unless the size of the
\* name has been overwritten.
TellsOf(report, fire) ==
    /\ report.status = fire.status
    /\ report.size <= NameLen => report = fire

\* What the watchdog reports at boot was written to the end by a fire, was the
\* last one, and has not been reported by a life that came to its loop: a
\* record that a reset cut short or that a power loss left is never reported.
ReportIsTrue ==
    ~burning /\ pc # "running" /\ reported # Nothing =>
        TellsOf(reported, pending)

\* A fire that was written to the end is reported by the next life, unless a
\* reset cuts that life short before the watchdog has come to its loop.
FireIsReported ==
    pc = "running" /\ due # Nothing => TellsOf(reported, due)

\* Once in its loop, the watchdog has left a record that is valid and tells
\* of no fire: a later reset is not taken for a fire.
RunningIsClean == pc = "running" => Valid(record) /\ record.status = 0
=============================================================================
