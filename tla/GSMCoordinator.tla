--------------------------- MODULE GSMCoordinator ---------------------------
(***************************************************************************)
(* The coordinator task of the GSM modem (Tele/Src/GSMCoordinator.cpp),    *)
(* the tasks that send it commands, and the modem at the other end of the  *)
(* serial line.                                                            *)
(*                                                                         *)
(* A caller puts a command in the coordinator's queue and blocks on a      *)
(* semaphore; the reply container, the semaphore and the payload of the    *)
(* command live on the caller's stack.  The receive interrupt puts the     *)
(* modem's lines in the same queue.  The coordinator takes one element at  *)
(* a time: it sends the commands one after the other, collects the replies *)
(* of the active one, and hands them over when a final reply arrives.      *)
(*                                                                         *)
(* Atomicity: a step of a task ends before it touches state that another   *)
(* task writes: the queue, the boot flags, a caller's container and        *)
(* semaphore.  One element of data stands for one parsed line.             *)
(***************************************************************************)
EXTENDS Integers, Sequences, FiniteSets

CONSTANTS
    Callers,        \* tasks that call send_command_async
    Coordinator,    \* the coordinator's own task
    QueueSize,      \* k_queue_size
    Commands,       \* the command types the callers use
    BootOrder,      \* the lines the modem prints while it boots, in order
    Booted,         \* TRUE: start after a complete boot; FALSE: at power on
    Lossy,          \* TRUE: the serial line may lose commands and lines
    MaxCalls,       \* bound: calls of a caller that are told apart
    MaxResets,      \* bound: resets of the modem nobody asked for
    MaxStrays,      \* bound: final lines that answer no command
    MaxUnsolicited  \* bound: HTTPACTION lines

-----------------------------------------------------------------------------
(* The command and reply types.                                            *)

CommandTypes ==
    {"AT", "SetBaud", "SetErrorVerbosity", "SaveToNVRAM", "Echo", "CFUN",
     "SetBearerParameter", "QueryBearerParameters", "OpenBearer",
     "CloseBearer", "AttachToGPRS", "QueryGPRS", "DetachFromGPRS",
     "QueryPositionAndTime", "HTTPInit", "HTTPTerm", "HTTPSetBearer",
     "HTTPSetURL", "HTTPSetUA", "HTTPMakeRequest", "HTTPRead",
     "HTTPContentType", "HTTPData"}

FinalReplies == {"Okay", "Error"}

\* solicit_type of each reply type the parser produces.
SolicitType ==
    [Okay |-> "always", Error |-> "always", Ready |-> "never",
     CFUN |-> "CFUN", CPIN |-> "never", CallReady |-> "never",
     SMSReady |-> "never", HTTPResponseReady |-> "never",
     BearerParameters |-> "QueryBearerParameters",
     GPRSStatus |-> "QueryGPRS",
     PositionAndTime |-> "QueryPositionAndTime",
     HTTPResponse |-> "HTTPRead", HTTPReadyForData |-> "HTTPData",
     ResetChallenge |-> "HTTPRead", ResetFailure |-> "HTTPRead",
     ResetSuccess |-> "HTTPRead"]

ReplyTypes == DOMAIN SolicitType

\* The flags of the coordinator, in the order reset_state clears them.
ResetOrder == <<"Ready", "CFUN", "CPIN", "CallReady", "SMSReady">>
BootMessages == {ResetOrder[i] : i \in 1..5}

ASSUME CoordinatorAssumption ==
    /\ Coordinator \notin Callers
    /\ QueueSize \in Nat \ {0}
    /\ Commands \subseteq CommandTypes
    /\ BootOrder \in Seq(BootMessages)
    /\ Booted \in BOOLEAN /\ Lossy \in BOOLEAN
    /\ MaxCalls \in Nat \ {0}
    /\ MaxResets \in Nat /\ MaxStrays \in Nat /\ MaxUnsolicited \in Nat

-----------------------------------------------------------------------------
VARIABLES
    \* the callers' tasks and what lives on their stacks
    task,         \* where each caller is
    command,      \* the command of its current call
    calls,        \* the number of its last call, modulo MaxCalls (history)
    sema,         \* TRUE: the semaphore of the call has been given
    container,    \* the reply container of the call
    \* the coordinator's queue, task and helper
    queue, at, reply, active, cmdq, buffer,
    \* the boot flags, and how far each task's reset_state has come
    flags, inconsistent, stores,
    \* m_last_http_response of the main module is engaged
    httpResponse,
    \* the modem (external): commands it has received, boot lines printed,
    \* and the misbehaviours that are left
    inbox, boot, budget

callerVars == <<task, command, calls, sema, container>>
helperVars == <<active, cmdq, buffer>>
flagVars   == <<flags, inconsistent, stores>>
modemVars  == <<inbox, boot, budget>>
vars == <<callerVars, queue, at, reply, helperVars, flagVars, httpResponse,
          modemVars>>

\* A call: who made it, and the how many-th of that task it is.
Calls == Callers \X (1..MaxCalls)
NoCall == <<Coordinator, 0>>

\* `for' is history: the call the modem answers with the line, if any.
Lines == [kind : ReplyTypes, for : Calls \cup {NoCall}]
NoLine == [kind |-> "Okay", for |-> NoCall]

CommandElements ==
    [type : {"command"}, who : Callers, call : 1..MaxCalls,
     command : Commands]
DataElements == [type : {"data"}, line : Lines]
NoCommand == [type |-> "none"]

CommandElement(c) ==
    [type |-> "command", who |-> c, call |-> calls[c],
     command |-> command[c]]
DataElement(line) == [type |-> "data", line |-> line]

\* What the modem holds of a command: `told' is the information it has
\* printed for it, `fed' the call whose payload it has been sent.
ModemCommands ==
    [for : Calls, command : Commands, told : BOOLEAN,
     fed : Calls \cup {NoCall}]
Outstanding(e) ==
    [for |-> <<e.who, e.call>>, command |-> e.command, told |-> FALSE,
     fed |-> NoCall]

Budgets ==
    [resets : 0..MaxResets, strays : 0..MaxStrays,
     unsolicited : 0..MaxUnsolicited]

Init ==
    /\ task = [c \in Callers |-> "idle"]
    /\ command = [c \in Callers |-> "none"]
    /\ calls = [c \in Callers |-> 0]
    /\ sema = [c \in Callers |-> FALSE]
    /\ container = [c \in Callers |-> <<>>]
    /\ queue = <<>>
    /\ at = "receive"
    /\ reply = NoLine
    /\ active = NoCommand
    /\ cmdq = <<>>
    /\ buffer = <<>>
    /\ flags = IF Booted THEN {BootOrder[i] : i \in DOMAIN BootOrder} ELSE {}
    /\ inconsistent = FALSE
    /\ stores = [t \in Callers \cup {Coordinator} |-> 0]
    /\ httpResponse = FALSE
    /\ inbox = <<>>
    /\ boot = IF Booted THEN Len(BootOrder) ELSE 0
    /\ budget = [resets |-> MaxResets, strays |-> MaxStrays,
                 unsolicited |-> MaxUnsolicited]

-----------------------------------------------------------------------------
(* The callers: send_command_async.                                        *)

\* An empty container and an empty semaphore for the call.
Call(c) ==
    /\ task[c] = "idle"
    /\ \E k \in Commands : command' = [command EXCEPT ![c] = k]
    /\ calls' = [calls EXCEPT ![c] = IF @ = MaxCalls THEN 1 ELSE @ + 1]
    /\ sema' = [sema EXCEPT ![c] = FALSE]
    /\ container' = [container EXCEPT ![c] = <<>>]
    /\ task' = [task EXCEPT ![c] = "calling"]
    /\ UNCHANGED <<queue, at, reply, helperVars, flagVars, httpResponse,
                   modemVars>>

\* xQueueSend(..., portMAX_DELAY): blocks while the queue is full.
Enqueue(c) ==
    /\ task[c] = "calling"
    /\ Len(queue) < QueueSize
    /\ queue' = Append(queue, CommandElement(c))
    /\ task' = [task EXCEPT ![c] = "waiting"]
    /\ UNCHANGED <<command, calls, sema, container, at, reply, helperVars,
                   flagVars, httpResponse, modemVars>>

\* xSemaphoreTake succeeds: the call returns its container.  The one caller
\* of CFUN, initialize_device, goes on to clear the boot flags.
Take(c) ==
    /\ task[c] = "waiting"
    /\ sema[c]
    /\ sema' = [sema EXCEPT ![c] = FALSE]
    /\ task' = [task EXCEPT ![c] = IF command[c] = "CFUN" THEN "resetting"
                                                          ELSE "idle"]
    /\ UNCHANGED <<command, calls, container, queue, at, reply, helperVars,
                   flagVars, httpResponse, modemVars>>

\* Mutant: reset_state forgets its last store.
StoreFlagsOnly(t) ==
    /\ stores' = [stores EXCEPT ![t] = IF @ = 5 THEN 0 ELSE @ + 1]
    /\ flags' = flags \ {ResetOrder[i] : i \in {stores[t] + 1} \cap (1..5)}
    /\ UNCHANGED inconsistent

\* The next store of reset_state, executed by task t.
Store(t) ==
    /\ stores' = [stores EXCEPT ![t] = IF @ = 5 THEN 0 ELSE @ + 1]
    /\ IF stores[t] < 5
       THEN /\ flags' = flags \ {ResetOrder[stores[t] + 1]}
            /\ UNCHANGED inconsistent
       ELSE /\ inconsistent' = FALSE
            /\ UNCHANGED flags

CallerResets(c) ==
    /\ task[c] = "resetting"
    /\ Store(c)
    /\ task' = [task EXCEPT ![c] = IF stores[c] = 5 THEN "idle" ELSE @]
    /\ UNCHANGED <<command, calls, sema, container, queue, at, reply,
                   helperVars, httpResponse, modemVars>>

\* wait_for_http finds m_last_http_response engaged and swaps it out.
TakeHttpResponse(c) ==
    /\ task[c] = "idle"
    /\ httpResponse
    /\ httpResponse' = FALSE
    /\ UNCHANGED <<callerVars, queue, at, reply, helperVars, flagVars,
                   modemVars>>

-----------------------------------------------------------------------------
(* The coordinator: one element of the queue at a time.                    *)

\* Mutants: the started command stays in command_queue; a command is sent
\* although one is active; the youngest command goes first.
QueueActionWithoutPop(held, q) ==
    IF held = NoCommand /\ q # <<>>
    THEN /\ active' = Head(q)
         /\ cmdq' = q
         /\ inbox' = Append(inbox, Outstanding(Head(q)))
    ELSE active' = held /\ cmdq' = q /\ UNCHANGED inbox

QueueActionAlways(held, q) ==
    IF q # <<>>
    THEN /\ active' = Head(q)
         /\ cmdq' = Tail(q)
         /\ inbox' = Append(inbox, Outstanding(Head(q)))
    ELSE active' = held /\ cmdq' = q /\ UNCHANGED inbox

QueueActionYoungest(held, q) ==
    IF held = NoCommand /\ q # <<>>
    THEN /\ active' = q[Len(q)]
         /\ cmdq' = SubSeq(q, 1, Len(q) - 1)
         /\ inbox' = Append(inbox, Outstanding(q[Len(q)]))
    ELSE active' = held /\ cmdq' = q /\ UNCHANGED inbox

\* send_command_now, when no command is active: the oldest command of `q'
\* becomes the active one and goes out on the serial line.
QueueAction(held, q) ==
    IF held = NoCommand /\ q # <<>>
    THEN /\ active' = Head(q)
         /\ cmdq' = Tail(q)
         /\ inbox' = Append(inbox, Outstanding(Head(q)))
    ELSE /\ active' = held
         /\ cmdq' = q
         /\ UNCHANGED inbox

\* fullfill_command: copies the replies and gives the semaphore, both on the
\* stack of the task that made the call.
Fulfill(e, replies) ==
    /\ container' = [container EXCEPT ![e.who] = @ \o replies]
    /\ sema' = [sema EXCEPT ![e.who] = TRUE]

ReceiveCommand ==
    /\ at = "receive"
    /\ queue # <<>>
    /\ Head(queue).type = "command"
    /\ queue' = Tail(queue)
    /\ QueueAction(active, Append(cmdq, Head(queue)))
    /\ UNCHANGED <<callerVars, at, reply, buffer, flagVars, httpResponse,
                   boot, budget>>

\* Mutant: every line goes through the flags of update_state.
ReceiveDataAsBoot ==
    /\ at = "receive"
    /\ queue # <<>>
    /\ Head(queue).type = "data"
    /\ queue' = Tail(queue)
    /\ reply' = Head(queue).line
    /\ at' = "test"
    /\ UNCHANGED <<callerVars, helperVars, flagVars, httpResponse, modemVars>>

ReceiveData ==
    /\ at = "receive"
    /\ queue # <<>>
    /\ Head(queue).type = "data"
    /\ queue' = Tail(queue)
    /\ reply' = Head(queue).line
    /\ at' = IF reply'.kind \in BootMessages THEN "test" ELSE "decide"
    /\ UNCHANGED <<callerVars, helperVars, flagVars, httpResponse, modemVars>>

\* update_state: the flag of a boot message is read, and found set it marks
\* the state inconsistent; then it is set.  reset_state of a caller may run
\* between any two of these.
TestBoot ==
    /\ at = "test"
    /\ at' = IF reply.kind \in flags THEN "mark" ELSE "set"
    /\ UNCHANGED <<callerVars, queue, reply, helperVars, flagVars,
                   httpResponse, modemVars>>

MarkInconsistent ==
    /\ at = "mark"
    /\ inconsistent' = TRUE
    /\ at' = "set"
    /\ UNCHANGED <<callerVars, queue, reply, helperVars, flags, stores,
                   httpResponse, modemVars>>

SetBoot ==
    /\ at = "set"
    /\ flags' = flags \cup {reply.kind}
    /\ at' = "decide"
    /\ UNCHANGED <<callerVars, queue, reply, helperVars, inconsistent,
                   stores, httpResponse, modemVars>>

\* is_solicited.
Solicited(kind) ==
    \/ SolicitType[kind] = "always"
    \/ active # NoCommand /\ active.command = SolicitType[kind]

\* incoming_reply of the registered modules: the main module keeps the last
\* HTTPACTION; the timer reacts only to a message that is never parsed.
Snoop == httpResponse' = (httpResponse \/ reply.kind = "HTTPResponseReady")

\* The branches of new_reply in a consistent state.
IgnoreUnsolicited ==
    /\ at = "decide"
    /\ ~inconsistent
    /\ ~Solicited(reply.kind)
    /\ Snoop
    /\ at' = "receive"
    /\ UNCHANGED <<callerVars, queue, reply, helperVars, flagVars, modemVars>>

\* A solicited reply that does not finish the active command, or a final one
\* with no command active: it stays in the buffer.  DOWNLOAD during HTTPDATA
\* makes the coordinator send the payload.
BufferReply ==
    /\ at = "decide"
    /\ ~inconsistent
    /\ Solicited(reply.kind)
    /\ reply.kind \in FinalReplies => active = NoCommand
    /\ Snoop
    /\ buffer' = Append(buffer, reply)
    /\ inbox' = IF /\ reply.kind = "HTTPReadyForData"
                   /\ inbox # <<>>
                   /\ Head(inbox).command = "HTTPData"
                   /\ Head(inbox).told
                THEN [inbox EXCEPT ![1].fed = <<active.who, active.call>>]
                ELSE inbox
    /\ at' = "receive"
    /\ UNCHANGED <<callerVars, queue, reply, active, cmdq, flagVars, boot,
                   budget>>

\* Mutants: queue_action is not called; the command stays active; the buffer
\* is not cleared.
FinishWithoutNext ==
    /\ at = "decide"
    /\ ~inconsistent
    /\ reply.kind \in FinalReplies
    /\ active # NoCommand
    /\ Snoop
    /\ Fulfill(active, Append(buffer, reply))
    /\ buffer' = <<>>
    /\ active' = NoCommand
    /\ at' = "receive"
    /\ UNCHANGED <<task, command, calls, queue, reply, cmdq, flagVars,
                   modemVars>>

FinishKeepsBuffer ==
    /\ at = "decide"
    /\ ~inconsistent
    /\ reply.kind \in FinalReplies
    /\ active # NoCommand
    /\ Snoop
    /\ Fulfill(active, Append(buffer, reply))
    /\ QueueAction(NoCommand, cmdq)
    /\ at' = "receive"
    /\ UNCHANGED <<task, command, calls, queue, reply, buffer, flagVars, boot,
                   budget>>

FinishCommand ==
    /\ at = "decide"
    /\ ~inconsistent
    /\ reply.kind \in FinalReplies
    /\ active # NoCommand
    /\ Snoop
    /\ Fulfill(active, Append(buffer, reply))
    /\ buffer' = <<>>
    /\ QueueAction(NoCommand, cmdq)
    /\ at' = "receive"
    /\ UNCHANGED <<task, command, calls, queue, reply, flagVars, boot, budget>>

\* Mutants: the flush leaves the command active; it forgets its caller.
FlushActiveKeeps ==
    /\ at = "decide"
    /\ inconsistent
    /\ IF active = NoCommand THEN UNCHANGED <<container, sema>>
                             ELSE Fulfill(active, buffer)
    /\ buffer' = <<>>
    /\ at' = "flush"
    /\ UNCHANGED <<task, command, calls, queue, reply, active, cmdq, flagVars,
                   httpResponse, modemVars>>

FlushActiveForgets ==
    /\ at = "decide"
    /\ inconsistent
    /\ active' = NoCommand
    /\ buffer' = <<>>
    /\ at' = "flush"
    /\ UNCHANGED <<callerVars, queue, reply, cmdq, flagVars, httpResponse,
                   modemVars>>

\* The branch of new_reply in an inconsistent state: the active command gets
\* what has been collected, the queued ones nothing, and the flags go.
FlushActive ==
    /\ at = "decide"
    /\ inconsistent
    /\ IF active = NoCommand THEN UNCHANGED <<container, sema>>
                             ELSE Fulfill(active, buffer)
    /\ active' = NoCommand
    /\ buffer' = <<>>
    /\ at' = "flush"
    /\ UNCHANGED <<task, command, calls, queue, reply, cmdq, flagVars,
                   httpResponse, modemVars>>

\* Mutant: the flush releases one caller and clears the rest of the queue.
FlushQueuedOnce ==
    /\ at = "flush"
    /\ cmdq # <<>>
    /\ Fulfill(Head(cmdq), <<>>)
    /\ cmdq' = <<>>
    /\ UNCHANGED <<task, command, calls, queue, at, reply, active, buffer,
                   flagVars, httpResponse, modemVars>>

FlushQueued ==
    /\ at = "flush"
    /\ cmdq # <<>>
    /\ Fulfill(Head(cmdq), <<>>)
    /\ cmdq' = Tail(cmdq)
    /\ UNCHANGED <<task, command, calls, queue, at, reply, active, buffer,
                   flagVars, httpResponse, modemVars>>

CoordinatorResets ==
    /\ at = "flush"
    /\ cmdq = <<>>
    /\ Store(Coordinator)
    /\ at' = IF stores[Coordinator] = 5 THEN "receive" ELSE "flush"
    /\ UNCHANGED <<callerVars, queue, reply, helperVars, httpResponse,
                   modemVars>>

-----------------------------------------------------------------------------
(* The modem and the serial line (external).  A line goes through the      *)
(* receive interrupt into the queue, and is lost when the queue is full.   *)

Say(kind, for) ==
    \/ /\ Len(queue) < QueueSize
       /\ queue' = Append(queue, DataElement([kind |-> kind, for |-> for]))
    \/ /\ Lossy \/ Len(queue) = QueueSize
       /\ UNCHANGED queue

coordinatorVars == <<at, reply, helperVars, flagVars, httpResponse>>

\* Information the modem prints in answer to a command.
ModemInfo ==
    /\ inbox # <<>>
    /\ ~Head(inbox).told
    /\ \E kind \in ReplyTypes \ BootMessages :
          /\ SolicitType[kind] = Head(inbox).command
          /\ Say(kind, Head(inbox).for)
    /\ inbox' = [inbox EXCEPT ![1].told = TRUE]
    /\ UNCHANGED <<callerVars, coordinatorVars, boot, budget>>

\* The final reply.  CFUN makes the modem boot again and forget the rest.
\* It is OK to HTTPDATA only after DOWNLOAD, when the payload has come or the
\* time it was given has passed.
ModemFinish ==
    /\ inbox # <<>>
    /\ \E kind \in FinalReplies :
          /\ kind = "Okay" /\ Head(inbox).command = "HTTPData"
                => Head(inbox).told
          /\ Say(kind, Head(inbox).for)
    /\ IF Head(inbox).command = "CFUN"
       THEN inbox' = <<>> /\ boot' = 0
       ELSE inbox' = Tail(inbox) /\ UNCHANGED boot
    /\ UNCHANGED <<callerVars, coordinatorVars, budget>>

ModemBoots ==
    /\ boot < Len(BootOrder)
    /\ Say(BootOrder[boot + 1], NoCall)
    /\ boot' = boot + 1
    /\ UNCHANGED <<callerVars, coordinatorVars, inbox, budget>>

\* A brownout: the modem boots again and forgets the commands it holds.
ModemResets ==
    /\ budget.resets > 0
    /\ budget' = [budget EXCEPT !.resets = @ - 1]
    /\ inbox' = <<>>
    /\ boot' = 0
    /\ UNCHANGED <<callerVars, coordinatorVars, queue>>

\* A command the modem does not get or does not answer.
ModemIgnores ==
    /\ Lossy
    /\ inbox # <<>>
    /\ inbox' = Tail(inbox)
    /\ UNCHANGED <<callerVars, coordinatorVars, queue, boot, budget>>

\* A final line that answers no command, such as the late OK of a command
\* that was flushed.
ModemStrays ==
    /\ budget.strays > 0
    /\ budget' = [budget EXCEPT !.strays = @ - 1]
    /\ \E kind \in FinalReplies : Say(kind, NoCall)
    /\ UNCHANGED <<callerVars, coordinatorVars, inbox, boot>>

ModemSignalsHttp ==
    /\ budget.unsolicited > 0
    /\ budget' = [budget EXCEPT !.unsolicited = @ - 1]
    /\ Say("HTTPResponseReady", NoCall)
    /\ UNCHANGED <<callerVars, coordinatorVars, inbox, boot>>

-----------------------------------------------------------------------------
CallerNext(c) ==
    \/ Call(c)
    \/ Enqueue(c)
    \/ Take(c)
    \/ CallerResets(c)
    \/ TakeHttpResponse(c)

CoordinatorNext ==
    \/ ReceiveCommand
    \/ ReceiveData
    \/ TestBoot
    \/ MarkInconsistent
    \/ SetBoot
    \/ IgnoreUnsolicited
    \/ BufferReply
    \/ FinishCommand
    \/ FlushActive
    \/ FlushQueued
    \/ CoordinatorResets

ModemAnswers == ModemInfo \/ ModemFinish \/ ModemBoots

ModemNext ==
    \/ ModemAnswers
    \/ ModemResets
    \/ ModemIgnores
    \/ ModemStrays
    \/ ModemSignalsHttp

Next ==
    \/ \E c \in Callers : CallerNext(c)
    \/ CoordinatorNext
    \/ ModemNext

Spec == Init /\ [][Next]_vars

-----------------------------------------------------------------------------
(* Types.                                                                  *)

\* Every variable has a value of its type; a call number is 0 only before
\* the first call.
TypeOK ==
    /\ task \in [Callers -> {"idle", "calling", "waiting", "resetting"}]
    /\ command \in [Callers -> Commands \cup {"none"}]
    /\ calls \in [Callers -> 0..MaxCalls]
    /\ \A c \in Callers :
          calls[c] = 0 => task[c] = "idle"
    /\ \A c \in Callers :
          command[c] = "none" => task[c] = "idle"
    /\ sema \in [Callers -> BOOLEAN]
    /\ container \in [Callers -> Seq(Lines)]
    /\ queue \in Seq(CommandElements \cup DataElements)
    /\ at \in {"receive", "test", "mark", "set", "decide", "flush"}
    /\ reply \in Lines
    /\ at \in {"test", "mark", "set"} => reply.kind \in BootMessages
    /\ active \in CommandElements \cup {NoCommand}
    /\ cmdq \in Seq(CommandElements)
    /\ buffer \in Seq(Lines)
    /\ flags \subseteq BootMessages
    /\ inconsistent \in BOOLEAN
    /\ stores \in [Callers \cup {Coordinator} -> 0..5]
    /\ httpResponse \in BOOLEAN
    /\ inbox \in Seq(ModemCommands)
    /\ boot \in 0..Len(BootOrder)
    /\ budget \in Budgets

-----------------------------------------------------------------------------
(* Safety.                                                                 *)

\* The coordinator's pipeline of elements, oldest first: the active command,
\* command_queue, the coordinator's queue.
Positions == {<<0, 0>>} \cup {<<1, i>> : i \in DOMAIN cmdq}
                        \cup {<<2, i>> : i \in DOMAIN queue}
Element(p) == IF p[1] = 0 THEN active
              ELSE IF p[1] = 1 THEN cmdq[p[2]]
              ELSE queue[p[2]]
Before(p, q) == p[1] < q[1] \/ (p[1] = q[1] /\ p[2] < q[2])

\* Where the pipeline holds a command of caller c.
Places(c) ==
    {p \in Positions : Element(p).type = "command" /\ Element(p).who = c}

\* A command the coordinator still refers to is that of a call in progress:
\* its task blocks on the semaphore, which is still empty, so the container,
\* the semaphore and the payload on its stack are alive, and the give in
\* fullfill_command cannot fail.
Live(e) ==
    /\ task[e.who] = "waiting"
    /\ ~sema[e.who]
    /\ container[e.who] = <<>>
    /\ e = CommandElement(e.who)

HeldCommandsAreLive ==
    \A p \in Positions : Element(p).type = "command" => Live(Element(p))

\* A call is in one place of the pipeline at most: it is sent once and
\* fulfilled once.
HeldOnce == \A c \in Callers : \A p, q \in Places(c) : p = q

\* A caller that waits is never forgotten: its command is in the pipeline
\* until its semaphore is given.
WaitingIsHeld ==
    \A c \in Callers : task[c] = "waiting" /\ ~sema[c] => Places(c) # {}

\* No command waits for its turn while none is active, except within a flush:
\* whatever ended the active command has started the next one.
NeverIdle == active = NoCommand /\ at # "flush" => cmdq = <<>>

\* The inconsistent mark does not outlive the handling of the line that set
\* it: new_reply resets the state before the next element is received, so the
\* test of MainModule::main can see it only inside that window.
InconsistentIsTransient == at = "receive" => ~inconsistent

\* Commands overtake neither each other nor their answers: the modem holds
\* one command at most, it is the active one, and no other call's payload
\* goes into it.  (While the modem neither resets nor strays.)
OneOutstanding ==
    inbox # <<>> =>
        /\ Len(inbox) = 1
        /\ active # NoCommand
        /\ Head(inbox).for = <<active.who, active.call>>
        /\ Head(inbox).fed \in {NoCall, Head(inbox).for}

\* What a call returns is the answer to that very call, complete: replies to
\* it alone, the last and only the last a final one.  (While the modem neither
\* resets nor strays; the line may lose anything.)
AnswersAreOwn ==
    \A c \in Callers : task[c] = "waiting" /\ sema[c] =>
        /\ container[c] # <<>>
        /\ \A i \in DOMAIN container[c] :
              /\ container[c][i].for = <<c, calls[c]>>
              /\ container[c][i].kind \in FinalReplies
                    <=> i = Len(container[c])

-----------------------------------------------------------------------------
(* Refinement.                                                             *)

Status(c) ==
    CASE task[c] \in {"idle", "resetting"} -> "idle"
      [] task[c] = "calling" -> "invoked"
      [] task[c] = "waiting" -> IF sema[c] THEN "answered" ELSE "accepted"

Ahead == {r \in Callers \X Callers :
             \E p \in Places(r[1]), q \in Places(r[2]) : Before(p, q)}

Service == INSTANCE CommandService
           WITH status <- [c \in Callers |-> Status(c)], ahead <- Ahead

\* The coordinator implements the service: each accepted call is answered
\* exactly once and in the order of acceptance, whether by new_reply finishing
\* a command or by its flush.
ImplementsService == Service!Spec

-----------------------------------------------------------------------------
(* Liveness.  Every task that can run does, in time; the modem boots, and  *)
(* answers a command it has.                                               *)

Fairness ==
    /\ \A c \in Callers : WF_vars(Enqueue(c)) /\ WF_vars(Take(c))
                          /\ WF_vars(CallerResets(c))
    /\ WF_vars(CoordinatorNext)
    /\ WF_vars(ModemFinish) /\ WF_vars(ModemInfo) /\ WF_vars(ModemBoots)

FairSpec == Spec /\ Fairness

\* A call returns: send_command_async has no timeout, so it is either answered
\* or released when the modem is seen to boot again.
CallReturns == \A c \in Callers : task[c] = "waiting" ~> task[c] # "waiting"
=============================================================================
