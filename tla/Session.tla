------------------------------ MODULE Session ------------------------------
(***************************************************************************)
(* The main task (Core/Src/MainGSMModule.cpp): it starts the modem, opens  *)
(* a session with the server, and posts the packets of the forger for      *)
(* ever.  It runs over the command service of the GSM coordinator          *)
(* (CommandService): a command is sent and its replies come back in one    *)
(* step here.                                                              *)
(*                                                                         *)
(* The modem, the network and the server are external: the modem knows     *)
(* whether its bearer is open, whether its HTTP service is initialised and *)
(* whether a request is out.  They misbehave at most MaxFaults times.      *)
(***************************************************************************)
EXTENDS PacketForger

CONSTANTS
    FailLimit,  \* packet_loop's failures before the device is restarted
    MaxFaults   \* bound: brown-outs, bad answers, answers too late

ASSUME SessionAssumption == FailLimit \in Nat /\ MaxFaults \in Nat

VARIABLES
    pc,        \* the routine and the step the main task is at
    task,      \* its variables: established, main() has a session; good,
               \* what http_request will return is right; failures, j of
               \* main(); batch, the packets packet_loop has taken; taken,
               \* what wait_for_http has copied
    response,  \* m_last_http_response, and to which request it is
    flags,     \* the coordinator's boot flags are set
    mark,      \* its m_state_inconsistent
    modem,     \* [up, bearer, http, request]
    faults,    \* faults so far
    posted,    \* history: the packets sent with a request
    late       \* history: a wait has ended while its request was out

device == <<flags, mark, modem>>
history == <<posted, late>>
vars == <<forger, pc, task, response, device, faults, history>>

-----------------------------------------------------------------------------
(* The routines, step by step.  A command whose replies are ignored and    *)
(* the next one are one step.                                              *)

Steps == [
    device |-> <<"cfun", "reset", "boot", "open", "queryBearer", "attach",
                 "queryGPRS", "queryTime">>,
    get |-> <<"init", "parameters", "action", "wait", "clear", "read",
              "term">>,
    post |-> <<"init", "parameters", "data", "action", "wait", "clear",
               "read", "term">>,
    sequencer |-> <<"ready", "seq", "rng">>,
    setup |-> <<"init", "parameters">>,
    loop |-> <<"pop", "data", "action", "wait", "clear", "read">>,
    failed |-> <<"retry">>]

At(step) == Steps[pc.in][pc.at] = step
Enter(routine) == pc' = [in |-> routine, at |-> 1]
Continue == IF pc.in = "setup" /\ At("parameters") THEN Enter("loop")
            ELSE pc' = [pc EXCEPT !.at = @ + 1]

InRequest == pc.in \in {"get", "post"}
ModemOff == [up |-> FALSE, bearer |-> FALSE, http |-> FALSE,
             request |-> FALSE]

\* The modem and the board boot at the same time.
Init ==
    /\ ForgerInit
    /\ pc = [in |-> "device", at |-> 1]
    /\ task = [established |-> FALSE, good |-> FALSE, failures |-> 0,
               batch |-> <<>>, taken |-> "none"]
    /\ response = "none"
    /\ flags = FALSE /\ mark = FALSE
    /\ modem = ModemOff
    /\ faults = 0
    /\ posted = <<>> /\ late = FALSE

\* Something outside the board goes wrong.
Fault == faults < MaxFaults /\ faults' = faults + 1

\* It does if it has to, or by a fault.
Fails(reason) == Fault \/ (reason /\ UNCHANGED faults)

-----------------------------------------------------------------------------
(* initialize_device.  When it fails, main() returns and is called again,  *)
(* or reinitialize_device tries again: the same from here.                 *)

\* CFUN restarts the modem; its answer, or that of a modem that is booting
\* anyway, is ignored.
Restart ==
    /\ At("cfun")
    /\ modem' = ModemOff
    /\ Continue
    /\ UNCHANGED <<task, flags, mark, faults>>

\* reset_state: GSMCoordinator has the stores one by one.
ResetState ==
    /\ At("reset")
    /\ flags' = FALSE /\ mark' = FALSE
    /\ Continue
    /\ UNCHANGED <<task, modem, faults>>

\* The wait for the boot messages, of at most 150 times 100 ms.
AwaitBoot ==
    /\ At("boot")
    /\ \/ flags /\ Continue /\ UNCHANGED faults
       \/ Fails(modem.up /\ ~flags) /\ Enter("device")
    /\ UNCHANGED <<task, device>>

\* SetBearerParameter twice and OpenBearer.
OpenBearer ==
    /\ At("open")
    /\ modem' = [modem EXCEPT !.bearer = modem.up]
    /\ Continue
    /\ UNCHANGED <<task, flags, mark, faults>>

Attach ==
    /\ At("attach")
    /\ Continue
    /\ UNCHANGED <<task, device, faults>>

\* QueryBearerParameters and QueryGPRS are repeated up to 150 times,
\* QueryPositionAndTime is sent once.  main() calls initialize_device before
\* there is a session, and between packet_loops.
Query ==
    /\ \E step \in {"queryBearer", "queryGPRS", "queryTime"} : At(step)
    /\ \/ /\ modem.up /\ modem.bearer
          /\ IF ~At("queryTime") THEN Continue
             ELSE Enter(IF task.established THEN "setup" ELSE "get")
          /\ UNCHANGED faults
       \/ /\ Fails(~modem.bearer \/ (At("queryTime") /\ ~modem.up))
          /\ Enter("device")
    /\ UNCHANGED <<task, device>>

InitializeDevice ==
    /\ Restart \/ ResetState \/ AwaitBoot \/ OpenBearer \/ Attach \/ Query
    /\ UNCHANGED <<forger, response, history>>

-----------------------------------------------------------------------------
(* The commands of http_request and of packet_loop.                        *)

\* What the modem can do.
Able(step) ==
    CASE step = "init" -> ~modem.http
      [] step \in {"parameters", "data"} -> modem.http
      [] step = "action" -> modem.http /\ ~modem.request

Done(step) ==
    CASE step = "init" -> [modem EXCEPT !.http = TRUE]
      [] step = "action" -> [modem EXCEPT !.request = TRUE]
      [] OTHER -> modem

\* The modem's first boot line: it sets a flag, or finds it set and marks
\* the state as inconsistent for as long as the coordinator handles it.
ModemBoots ==
    /\ ~modem.up
    /\ modem' = [modem EXCEPT !.up = TRUE]
    /\ mark' = flags
    /\ flags' = TRUE

\* The replies are other ones than expected: packet_loop fails, http_request
\* does not look at them.
Unexpected(t) ==
    IF InRequest
    THEN Continue /\ task' = t
    ELSE Enter("failed") /\ task' = [t EXCEPT !.batch = <<>>]

\* A response to an earlier request is stale once the next one is made.
Aged(step) ==
    IF step = "action" /\ response = "own" THEN "stale" ELSE response

\* A boot line releases the command of a modem that has lost it.
Command(step) ==
    /\ At(step)
    /\ \/ /\ modem.up /\ Able(step)
          /\ modem' = Done(step)
          /\ posted' = IF pc.in = "loop" /\ step = "action"
                       THEN posted \o task.batch ELSE posted
          /\ Continue
          /\ UNCHANGED <<task, flags, mark>>
       \/ /\ \/ modem.up /\ ~Able(step) /\ UNCHANGED device
             \/ ModemBoots
          /\ Unexpected(task)
          /\ UNCHANGED posted
    /\ response' = Aged(step)
    /\ UNCHANGED <<forger, faults, late>>

\* HTTPRead: of a session request it returns the server's answer, right or
\* wrong; of a post it has to return an empty body.  A modem whose request is
\* still out refuses, or has nothing to return.
Read ==
    /\ At("read")
    /\ \/ /\ modem.up /\ modem.http
          /\ IF InRequest
             THEN /\ ~modem.request
                  /\ task' = [task EXCEPT !.good = TRUE]
                  /\ Continue
             ELSE /\ task' = [task EXCEPT !.batch = <<>>]
                  /\ Enter("loop")
          /\ UNCHANGED <<device, faults>>
       \/ /\ \/ /\ modem.up /\ UNCHANGED device
                /\ Fails(~modem.http \/ modem.request)
             \/ ModemBoots /\ UNCHANGED faults
          /\ Unexpected([task EXCEPT !.good = FALSE])
    /\ UNCHANGED <<forger, response, history>>

\* HTTPTerm ends http_request.  Without the right answer initialize_session
\* fails and main() is called again.
Terminate ==
    /\ At("term")
    /\ modem' = [modem EXCEPT !.http = FALSE, !.request = FALSE]
    /\ Enter(IF ~task.good THEN "device"
             ELSE IF pc.in = "get" THEN "post" ELSE "sequencer")
    /\ task' = [task EXCEPT !.good = FALSE]
    /\ UNCHANGED <<forger, response, flags, mark, faults, history>>

-----------------------------------------------------------------------------
(* wait_for_http.                                                          *)

\* std::swap reads the optional and then clears it.
TakeResponse ==
    /\ At("wait")
    /\ response # "none"
    /\ task' = [task EXCEPT !.taken = response]
    /\ Continue
    /\ UNCHANGED <<forger, response, device, faults, history>>

\* Mutant: the response is copied, and stays.
ClearResponseNot ==
    /\ At("clear")
    /\ Continue
    /\ UNCHANGED <<forger, task, response, device, faults, history>>

ClearResponse ==
    /\ At("clear")
    /\ response' = "none"
    /\ Continue
    /\ UNCHANGED <<forger, task, device, faults, history>>

\* Mutant: packet_loop goes on without a response.
GiveUpWaitingLoops ==
    /\ At("wait")
    /\ response = "none"
    /\ Fails(~modem.request)
    /\ late' = (late \/ modem.request)
    /\ Enter(IF InRequest THEN "device" ELSE "loop")
    /\ task' = [task EXCEPT !.batch = <<>>]
    /\ UNCHANGED <<forger, response, device, posted>>

\* 180 seconds without a response: http_request and packet_loop return,
\* without HTTPTerm.
GiveUpWaiting ==
    /\ At("wait")
    /\ response = "none"
    /\ Fails(~modem.request)
    /\ late' = (late \/ modem.request)
    /\ Enter(IF InRequest THEN "device" ELSE "failed")
    /\ task' = [task EXCEPT !.batch = <<>>]
    /\ UNCHANGED <<forger, response, device, posted>>

-----------------------------------------------------------------------------
(* main(): the sequencer, and packet_loop for ever.                        *)

ResetSequencer ==
    /\ \/ At("ready") /\ SetReady /\ Continue /\ UNCHANGED task
       \/ At("seq") /\ ResetSeq /\ Continue /\ UNCHANGED task
       \/ /\ At("rng") /\ ResetRng /\ Enter("setup")
          /\ task' = [task EXCEPT !.established = TRUE]
    /\ UNCHANGED <<response, device, faults, history>>

TakePackets ==
    /\ At("pop")
    /\ PopPackets
    /\ task' = [task EXCEPT !.batch = PendingPackets]
    /\ Continue
    /\ UNCHANGED <<response, device, faults, history>>

\* Mutant: packet_loop is called again without ever restarting the device.
RetryForEver ==
    /\ At("retry")
    /\ Enter("setup")
    /\ UNCHANGED <<forger, task, response, device, faults, history>>

\* Some failures restart the device, and so does the coordinator's mark if it
\* is up at this very moment.  j is set to 0 before it is incremented.
Retry ==
    /\ At("retry")
    /\ LET j == task.failures
       IN  /\ Enter(IF j >= FailLimit \/ mark THEN "device" ELSE "setup")
           /\ task' = [task EXCEPT !.failures =
                           IF j >= FailLimit THEN 1 ELSE j + 1]
    /\ UNCHANGED <<forger, response, device, faults, history>>

Main ==
    \/ InitializeDevice
    \/ \E step \in {"init", "parameters", "data", "action"} : Command(step)
    \/ Read
    \/ Terminate
    \/ TakeResponse
    \/ ClearResponse
    \/ GiveUpWaiting
    \/ ResetSequencer
    \/ TakePackets
    \/ Retry

-----------------------------------------------------------------------------
(* The forger, the coordinator and the modem.                              *)

ForgerSteps ==
    /\ Forge(pc.in = "sequencer" /\ ~At("ready"))
    /\ UNCHANGED <<pc, task, response, device, faults, history>>

\* incoming_reply, in the coordinator's task.  The modem answers a request it
\* has no bearer for too, with a status nobody looks at.
IncomingReply ==
    /\ modem.up /\ modem.request
    /\ modem' = [modem EXCEPT !.request = FALSE]
    /\ response' = "own"
    /\ UNCHANGED <<forger, pc, task, flags, mark, faults, history>>

\* It takes the modem seconds to boot; the main task clears the flags at once
\* when it has restarted it.
Boots ==
    /\ ~At("reset")
    /\ ModemBoots
    /\ UNCHANGED <<forger, pc, task, response, faults, history>>

\* The coordinator comes to the end of the line that set the mark.
Unmark ==
    /\ mark
    /\ mark' = FALSE
    /\ UNCHANGED <<forger, pc, task, response, flags, modem, faults, history>>

BrownOut ==
    /\ Fault
    /\ modem.up
    /\ modem' = ModemOff
    /\ UNCHANGED <<forger, pc, task, response, flags, mark, history>>

Next ==
    \/ Main
    \/ ForgerSteps
    \/ IncomingReply
    \/ Boots
    \/ Unmark
    \/ BrownOut

Spec == Init /\ [][Next]_vars

\* Tasks that can run do; the modem boots, and answers a request it has.
FairSpec ==
    /\ Spec
    /\ WF_vars(Main) /\ WF_vars(ForgerSteps) /\ WF_vars(Unmark)
    /\ WF_vars(IncomingReply) /\ WF_vars(Boots)

-----------------------------------------------------------------------------
(* Properties.                                                             *)

Responses == {"none", "own", "stale"}

\* Every variable has a value of its type.
TypeOK ==
    /\ ForgerTypeOK
    /\ pc.in \in DOMAIN Steps /\ pc.at \in DOMAIN Steps[pc.in]
    /\ task \in [established : BOOLEAN, good : BOOLEAN,
                 failures : 0..(FailLimit + 1), batch : Seq(Packet),
                 taken : Responses]
    /\ Len(task.batch) <= BatchSize
    /\ response \in Responses
    /\ flags \in BOOLEAN /\ mark \in BOOLEAN
    /\ modem \in [up : BOOLEAN, bearer : BOOLEAN, http : BOOLEAN,
                  request : BOOLEAN]
    /\ faults \in 0..MaxFaults
    /\ posted \in Seq(Packet) /\ late \in BOOLEAN

\* "Make ABSOLUTELY SURE that there are no more than one requests being made
\* at a time": a response left by a wait that ended too early aside, no
\* request is attempted while another is out, although packet_loop leaves
\* without HTTPTerm, because HTTPInit then fails until the device restarts.
OneRequestAtATime ==
    At("action") /\ modem.up /\ modem.request => task.taken = "stale"

\* wait_for_http hands out the response to the request that has just been
\* made, unless an earlier wait has ended before its response came.
ResponsesAreOwn == ~late /\ At("clear") => task.taken = "own"

\* Unless the forger came between the stores of reset_sequencer, every packet
\* carries a number and a random number of the session, and packets reach the
\* server in the order of their numbers, each number at most once, whatever
\* the queue dropped and failed requests lost.
NumbersIncrease ==
    LET unsent == IF At("data") \/ At("action") THEN task.batch ELSE <<>>
        line == posted \o unsent \o packets
    IN  ~raced =>
            /\ \A k \in DOMAIN line : line[k].rng = "iv"
            /\ \A k, l \in DOMAIN line : k < l => line[k].seq < line[l].seq

\* The board comes back to posting packets, again and again, however a
\* packet_loop failed, as long as no response has come too late: after that
\* every wait may take the response before its own.
KeepsPosting == [](~late) => []<>(pc.in = "loop" /\ At("wait"))
=============================================================================
