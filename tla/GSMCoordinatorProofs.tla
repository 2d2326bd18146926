------------------------ MODULE GSMCoordinatorProofs ------------------------
(***************************************************************************)
(* Proofs about GSMCoordinator, for any callers, any queue size and any    *)
(* behaviour of the modem.                                                 *)
(***************************************************************************)
EXTENDS GSMCoordinator, SequenceTheorems, TLAPS

USE CoordinatorAssumption

-----------------------------------------------------------------------------
(* Type correctness.                                                       *)

\* The reply types are those of the table, boot messages and final replies
\* among them.
LEMMA ReplyTypesFacts ==
    /\ BootMessages \subseteq ReplyTypes
    /\ FinalReplies \subseteq ReplyTypes
    /\ "HTTPResponseReady" \in ReplyTypes
    /\ \A i \in 1..5 : ResetOrder[i] \in BootMessages
<1>1. ReplyTypes = {"Okay", "Error", "Ready", "CFUN", "CPIN", "CallReady",
                    "SMSReady", "HTTPResponseReady", "BearerParameters",
                    "GPRSStatus", "PositionAndTime", "HTTPResponse",
                    "HTTPReadyForData", "ResetChallenge", "ResetFailure",
                    "ResetSuccess"}
  BY DEF ReplyTypes, SolicitType
<1>2. BootMessages = {"Ready", "CFUN", "CPIN", "CallReady", "SMSReady"}
  BY DEF BootMessages, ResetOrder
<1>3. QED BY <1>1, <1>2 DEF FinalReplies, BootMessages

\* An element of the queue is a command or a line, as its tag says.
LEMMA ElementFacts ==
    ASSUME NEW e \in CommandElements \cup DataElements
    PROVE  /\ e.type = "command" => e \in CommandElements
           /\ e.type = "data" => e.line \in Lines
           /\ e.type \in {"command", "data"}
BY DEF CommandElements, DataElements

\* The initial state has the right types, at power on or after the boot.
LEMMA InitType == Init => TypeOK
<1> SUFFICES ASSUME Init PROVE TypeOK
  OBVIOUS
<1>1. NoLine \in Lines
  BY ReplyTypesFacts DEF NoLine, Lines, NoCall, FinalReplies
<1>2. /\ boot \in 0..Len(BootOrder)
      /\ flags \subseteq BootMessages
  <2>1. BootOrder \in Seq(BootMessages)
    OBVIOUS
  <2> QED BY <2>1 DEF Init
<1>3. budget \in Budgets
  BY DEF Init, Budgets
<1>4. stores \in [Callers \cup {Coordinator} -> 0..5]
  BY DEF Init
<1>5. active \in CommandElements \cup {NoCommand}
  BY DEF Init
<1>6. /\ queue \in Seq(CommandElements \cup DataElements)
      /\ cmdq \in Seq(CommandElements)
      /\ buffer \in Seq(Lines)
      /\ inbox \in Seq(ModemCommands)
      /\ container \in [Callers -> Seq(Lines)]
  BY DEF Init
<1>7. /\ task \in [Callers -> {"idle", "calling", "waiting", "resetting"}]
      /\ command \in [Callers -> Commands \cup {"none"}]
      /\ calls \in [Callers -> 0..MaxCalls]
      /\ \A c \in Callers : calls[c] = 0 => task[c] = "idle"
      /\ \A c \in Callers : command[c] = "none" => task[c] = "idle"
      /\ sema \in [Callers -> BOOLEAN]
      /\ at = "receive"
  BY DEF Init
<1>8. /\ reply \in Lines
      /\ inconsistent \in BOOLEAN
      /\ httpResponse \in BOOLEAN
  BY <1>1 DEF Init
<1> QED BY <1>2, <1>3, <1>4, <1>5, <1>6, <1>7, <1>8 DEF TypeOK

\* Handing over replies keeps the types of containers and semaphores.
LEMMA FulfillType ==
    ASSUME TypeOK, NEW e \in CommandElements, NEW replies \in Seq(Lines),
           Fulfill(e, replies)
    PROVE  /\ container' \in [Callers -> Seq(Lines)]
           /\ sema' \in [Callers -> BOOLEAN]
<1>1. e.who \in Callers
  BY DEF CommandElements
<1>2. container \in [Callers -> Seq(Lines)] /\ sema \in [Callers -> BOOLEAN]
  BY DEF TypeOK
<1>3. container[e.who] \o replies \in Seq(Lines)
  BY <1>1, <1>2, ConcatProperties
<1> QED BY <1>1, <1>2, <1>3 DEF Fulfill

\* Starting the next command keeps the types of the helper and of the modem.
LEMMA QueueActionType ==
    ASSUME TypeOK, NEW held \in CommandElements \cup {NoCommand},
           NEW q \in Seq(CommandElements), QueueAction(held, q)
    PROVE  /\ active' \in CommandElements \cup {NoCommand}
           /\ cmdq' \in Seq(CommandElements)
           /\ inbox' \in Seq(ModemCommands)
<1>0. inbox \in Seq(ModemCommands)
  BY DEF TypeOK
<1>1. CASE held = NoCommand /\ q # <<>>
  <2>1. Head(q) \in CommandElements /\ Tail(q) \in Seq(CommandElements)
    BY <1>1
  <2>2. Outstanding(Head(q)) \in ModemCommands
    BY <2>1 DEF Outstanding, CommandElements, ModemCommands, Calls
  <2>3. /\ active' = Head(q)
        /\ cmdq' = Tail(q)
        /\ inbox' = Append(inbox, Outstanding(Head(q)))
    BY <1>1 DEF QueueAction
  <2>4. inbox' \in Seq(ModemCommands)
    BY <1>0, <2>2, <2>3, AppendProperties
  <2> QED BY <2>1, <2>3, <2>4
<1>2. CASE ~(held = NoCommand /\ q # <<>>)
  BY <1>0, <1>2 DEF QueueAction
<1> QED BY <1>1, <1>2

\* A line on its way keeps the type of the queue.
LEMMA SayType ==
    ASSUME TypeOK, NEW kind \in ReplyTypes, NEW for \in Calls \cup {NoCall},
           Say(kind, for)
    PROVE  queue' \in Seq(CommandElements \cup DataElements)
<1>1. DataElement([kind |-> kind, for |-> for]) \in DataElements
  BY DEF DataElement, DataElements, Lines
<1>2. queue \in Seq(CommandElements \cup DataElements)
  BY DEF TypeOK
<1> QED BY <1>1, <1>2, AppendProperties DEF Say

\* The store of reset_state keeps the types of the flags.
LEMMA StoreType ==
    ASSUME TypeOK, NEW t \in Callers \cup {Coordinator}, Store(t)
    PROVE  /\ flags' \subseteq BootMessages
           /\ inconsistent' \in BOOLEAN
           /\ stores' \in [Callers \cup {Coordinator} -> 0..5]
<1>1. /\ flags \subseteq BootMessages
      /\ inconsistent \in BOOLEAN
      /\ stores \in [Callers \cup {Coordinator} -> 0..5]
  BY DEF TypeOK
<1>2. flags' \subseteq BootMessages /\ inconsistent' \in BOOLEAN
  BY <1>1 DEF Store
<1>3. stores' \in [Callers \cup {Coordinator} -> 0..5]
  BY <1>1 DEF Store
<1> QED BY <1>2, <1>3

\* The definitions of the groups of variables are visible from here on.
USE DEF callerVars, helperVars, flagVars, modemVars, coordinatorVars

\* The steps of send_command_async and of a caller's reset_state keep the
\* types.
LEMMA TypeOfCallers ==
    ASSUME TypeOK, NEW c \in Callers, CallerNext(c)
    PROVE  TypeOK'
<1>1. CASE Call(c)
  <2>1. PICK k \in Commands : command' = [command EXCEPT ![c] = k]
    BY <1>1 DEF Call
  <2>2. <<>> \in Seq(Lines)
    OBVIOUS
  <2>3. /\ calls' \in [Callers -> 0..MaxCalls]
        /\ calls'[c] # 0
        /\ \A d \in Callers : d # c => calls'[d] = calls[d]
    BY <1>1 DEF Call, TypeOK
  <2>4. k # "none"
    BY DEF CommandTypes
  <2> QED BY <1>1, <2>1, <2>2, <2>3, <2>4 DEF Call, TypeOK
<1>2. CASE Enqueue(c)
  <2>1. CommandElement(c) \in CommandElements
    BY <1>2 DEF Enqueue, TypeOK, CommandElement, CommandElements
  <2>2. queue' \in Seq(CommandElements \cup DataElements)
    BY <1>2, <2>1, AppendProperties DEF Enqueue, TypeOK
  <2> QED BY <1>2, <2>2 DEF Enqueue, TypeOK
<1>3. CASE Take(c)
  BY <1>3 DEF Take, TypeOK
<1>4. CASE CallerResets(c)
  BY <1>4, StoreType DEF CallerResets, TypeOK
<1>5. CASE TakeHttpResponse(c)
  BY <1>5 DEF TakeHttpResponse, TypeOK
<1> QED BY <1>1, <1>2, <1>3, <1>4, <1>5 DEF CallerNext

\* Snooping keeps m_last_http_response engaged or not.
LEMMA SnoopType ==
    ASSUME Snoop, httpResponse \in BOOLEAN
    PROVE  httpResponse' \in BOOLEAN
BY DEF Snoop

\* The steps of the coordinator's task keep the types.
LEMMA TypeOfCoordinator ==
    ASSUME TypeOK, CoordinatorNext
    PROVE  TypeOK'
<1>0. /\ queue \in Seq(CommandElements \cup DataElements)
      /\ cmdq \in Seq(CommandElements)
      /\ buffer \in Seq(Lines)
      /\ inbox \in Seq(ModemCommands)
      /\ httpResponse \in BOOLEAN
      /\ <<>> \in Seq(Lines)
  BY DEF TypeOK
<1>1. CASE ReceiveCommand
  <2>1. /\ Head(queue) \in CommandElements
        /\ queue' \in Seq(CommandElements \cup DataElements)
    BY <1>0, <1>1, ElementFacts DEF ReceiveCommand
  <2>2. Append(cmdq, Head(queue)) \in Seq(CommandElements)
    BY <1>0, <2>1, AppendProperties
  <2>3. active \in CommandElements \cup {NoCommand}
    BY DEF TypeOK
  <2>4. QueueAction(active, Append(cmdq, Head(queue)))
    BY <1>1 DEF ReceiveCommand
  <2>5. /\ active' \in CommandElements \cup {NoCommand}
        /\ cmdq' \in Seq(CommandElements)
        /\ inbox' \in Seq(ModemCommands)
    BY <2>2, <2>3, <2>4, QueueActionType
  <2> QED BY <1>1, <2>1, <2>5 DEF ReceiveCommand, TypeOK
<1>2. CASE ReceiveData
  <2>1. /\ Head(queue).line \in Lines
        /\ queue' \in Seq(CommandElements \cup DataElements)
    BY <1>0, <1>2, ElementFacts DEF ReceiveData
  <2> QED BY <1>2, <2>1 DEF ReceiveData, TypeOK
<1>3. CASE TestBoot
  BY <1>3 DEF TestBoot, TypeOK
<1>4. CASE MarkInconsistent
  BY <1>4 DEF MarkInconsistent, TypeOK
<1>5. CASE SetBoot
  BY <1>5 DEF SetBoot, TypeOK
<1>6. CASE IgnoreUnsolicited
  BY <1>6, SnoopType DEF IgnoreUnsolicited, TypeOK
<1>7. CASE BufferReply
  <2>1. buffer' \in Seq(Lines)
    BY <1>0, <1>7, AppendProperties DEF BufferReply, TypeOK
  <2>2. inbox' \in Seq(ModemCommands)
    <3>1. CASE UNCHANGED inbox
      BY <1>0, <3>1
    <3>2. CASE ~UNCHANGED inbox
      <4>1. /\ reply.kind = "HTTPReadyForData"
            /\ inbox # <<>>
            /\ inbox' = [inbox EXCEPT ![1].fed = <<active.who, active.call>>]
        BY <1>7, <3>2 DEF BufferReply
      <4>2. active \in CommandElements
        <5>1. SolicitType["HTTPReadyForData"] = "HTTPData"
          BY DEF SolicitType
        <5> QED BY <1>7, <4>1, <5>1 DEF BufferReply, Solicited, TypeOK
      <4>3. <<active.who, active.call>> \in Calls
        BY <4>2 DEF CommandElements, Calls
      <4>4. 1 \in 1..Len(inbox) /\ inbox[1] \in ModemCommands
        BY <1>0, <4>1
      <4>5. [inbox[1] EXCEPT !.fed = <<active.who, active.call>>]
               \in ModemCommands
        BY <4>3, <4>4 DEF ModemCommands
      <4> QED BY <1>0, <4>1, <4>4, <4>5, ExceptSeq
    <3> QED BY <3>1, <3>2
  <2>3. httpResponse' \in BOOLEAN
    BY <1>0, <1>7, SnoopType DEF BufferReply
  <2> QED BY <1>7, <2>1, <2>2, <2>3 DEF BufferReply, TypeOK
<1>8. CASE FinishCommand
  <2>1. active \in CommandElements
    BY <1>8 DEF FinishCommand, TypeOK
  <2>2. Append(buffer, reply) \in Seq(Lines)
    BY <1>0, AppendProperties DEF TypeOK
  <2>3. /\ container' \in [Callers -> Seq(Lines)]
        /\ sema' \in [Callers -> BOOLEAN]
    BY <1>8, <2>1, <2>2, FulfillType DEF FinishCommand
  <2>4. QueueAction(NoCommand, cmdq)
    BY <1>8 DEF FinishCommand
  <2>5. /\ active' \in CommandElements \cup {NoCommand}
        /\ cmdq' \in Seq(CommandElements)
        /\ inbox' \in Seq(ModemCommands)
    BY <1>0, <2>4, QueueActionType
  <2>6. httpResponse' \in BOOLEAN
    BY <1>0, <1>8, SnoopType DEF FinishCommand
  <2> QED BY <1>8, <2>3, <2>5, <2>6 DEF FinishCommand, TypeOK
<1>9. CASE FlushActive
  <2>1. /\ container' \in [Callers -> Seq(Lines)]
        /\ sema' \in [Callers -> BOOLEAN]
    <3>1. CASE active = NoCommand
      BY <1>9, <3>1 DEF FlushActive, TypeOK
    <3>2. CASE active # NoCommand
      <4>1. active \in CommandElements /\ Fulfill(active, buffer)
        BY <1>9, <3>2 DEF FlushActive, TypeOK
      <4> QED BY <1>0, <4>1, FulfillType
    <3> QED BY <3>1, <3>2
  <2> QED BY <1>9, <2>1 DEF FlushActive, TypeOK
<1>10. CASE FlushQueued
  <2>1. Head(cmdq) \in CommandElements /\ cmdq' \in Seq(CommandElements)
    BY <1>0, <1>10 DEF FlushQueued
  <2>2. Fulfill(Head(cmdq), <<>>)
    BY <1>10 DEF FlushQueued
  <2>3. /\ container' \in [Callers -> Seq(Lines)]
        /\ sema' \in [Callers -> BOOLEAN]
    BY <1>0, <2>1, <2>2, FulfillType
  <2> QED BY <1>10, <2>1, <2>3 DEF FlushQueued, TypeOK
<1>11. CASE CoordinatorResets
  BY <1>11, StoreType DEF CoordinatorResets, TypeOK
<1> QED BY <1>1, <1>2, <1>3, <1>4, <1>5, <1>6, <1>7, <1>8, <1>9, <1>10,
           <1>11 DEF CoordinatorNext

\* A misbehaviour that is left can be spent.
LEMMA BudgetType ==
    ASSUME TypeOK
    PROVE  /\ budget.resets > 0
                 => [budget EXCEPT !.resets = @ - 1] \in Budgets
           /\ budget.strays > 0
                 => [budget EXCEPT !.strays = @ - 1] \in Budgets
           /\ budget.unsolicited > 0
                 => [budget EXCEPT !.unsolicited = @ - 1] \in Budgets
<1>1. budget \in Budgets
  BY DEF TypeOK
<1>2. /\ budget.resets > 0 => budget.resets - 1 \in 0..MaxResets
      /\ budget.strays > 0 => budget.strays - 1 \in 0..MaxStrays
      /\ budget.unsolicited > 0
            => budget.unsolicited - 1 \in 0..MaxUnsolicited
  BY <1>1 DEF Budgets
<1> QED BY <1>1, <1>2 DEF Budgets

\* The steps of the modem and of the serial line keep the types.
LEMMA TypeOfModem ==
    ASSUME TypeOK, ModemNext
    PROVE  TypeOK'
<1>0. /\ inbox \in Seq(ModemCommands)
      /\ inbox # <<>> => Head(inbox) \in ModemCommands
      /\ NoCall \in Calls \cup {NoCall}
      /\ BootOrder \in Seq(BootMessages)
  BY DEF TypeOK
<1>1. CASE ModemInfo
  <2>1. PICK kind \in ReplyTypes : Say(kind, Head(inbox).for)
    BY <1>1 DEF ModemInfo
  <2>2. Head(inbox).for \in Calls
    BY <1>0, <1>1 DEF ModemInfo, ModemCommands
  <2>3. queue' \in Seq(CommandElements \cup DataElements)
    BY <2>1, <2>2, SayType
  <2>4. inbox' \in Seq(ModemCommands)
    <3>1. 1 \in 1..Len(inbox) /\ inbox[1] \in ModemCommands
      BY <1>0, <1>1 DEF ModemInfo
    <3>2. [inbox[1] EXCEPT !.told = TRUE] \in ModemCommands
      BY <3>1 DEF ModemCommands
    <3> QED BY <1>0, <1>1, <3>1, <3>2, ExceptSeq DEF ModemInfo
  <2> QED BY <1>1, <2>3, <2>4 DEF ModemInfo, TypeOK
<1>2. CASE ModemFinish
  <2>1. PICK kind \in FinalReplies : Say(kind, Head(inbox).for)
    BY <1>2 DEF ModemFinish
  <2>2. Head(inbox).for \in Calls
    BY <1>0, <1>2 DEF ModemFinish, ModemCommands
  <2>3. queue' \in Seq(CommandElements \cup DataElements)
    BY <2>1, <2>2, ReplyTypesFacts, SayType
  <2>4. inbox' \in Seq(ModemCommands)
    <3>1. inbox # <<>> /\ (inbox' = <<>> \/ inbox' = Tail(inbox))
      BY <1>2 DEF ModemFinish
    <3>2. <<>> \in Seq(ModemCommands)
      OBVIOUS
    <3>3. Tail(inbox) \in Seq(ModemCommands)
      BY <1>0, <3>1
    <3> QED BY <3>1, <3>2, <3>3
  <2>5. boot' \in 0..Len(BootOrder)
    BY <1>0, <1>2 DEF ModemFinish, TypeOK
  <2> QED BY <1>2, <2>3, <2>4, <2>5 DEF ModemFinish, TypeOK
<1>3. CASE ModemBoots
  <2>1. boot' \in 0..Len(BootOrder) /\ BootOrder[boot + 1] \in BootMessages
    BY <1>0, <1>3 DEF ModemBoots, TypeOK
  <2>2. queue' \in Seq(CommandElements \cup DataElements)
    BY <1>0, <1>3, <2>1, ReplyTypesFacts, SayType DEF ModemBoots
  <2> QED BY <1>3, <2>1, <2>2 DEF ModemBoots, TypeOK
<1>4. CASE ModemResets
  <2>1. budget' \in Budgets
    BY <1>4, BudgetType DEF ModemResets
  <2>2. <<>> \in Seq(ModemCommands) /\ 0 \in 0..Len(BootOrder)
    BY <1>0
  <2> QED BY <1>4, <2>1, <2>2 DEF ModemResets, TypeOK
<1>5. CASE ModemIgnores
  BY <1>0, <1>5 DEF ModemIgnores, TypeOK
<1>6. CASE ModemStrays
  <2>1. queue' \in Seq(CommandElements \cup DataElements)
    BY <1>0, <1>6, ReplyTypesFacts, SayType DEF ModemStrays
  <2>2. budget' \in Budgets
    BY <1>6, BudgetType DEF ModemStrays
  <2> QED BY <1>6, <2>1, <2>2 DEF ModemStrays, TypeOK
<1>7. CASE ModemSignalsHttp
  <2>1. queue' \in Seq(CommandElements \cup DataElements)
    BY <1>0, <1>7, ReplyTypesFacts, SayType DEF ModemSignalsHttp
  <2>2. budget' \in Budgets
    BY <1>7, BudgetType DEF ModemSignalsHttp
  <2> QED BY <1>7, <2>1, <2>2 DEF ModemSignalsHttp, TypeOK
<1> QED BY <1>1, <1>2, <1>3, <1>4, <1>5, <1>6, <1>7
    DEF ModemNext, ModemAnswers

\* Every step keeps the types.
LEMMA TypeStep == TypeOK /\ [Next]_vars => TypeOK'
<1> SUFFICES ASSUME TypeOK, [Next]_vars PROVE TypeOK'
  OBVIOUS
<1>1. CASE Next
  BY <1>1, TypeOfCallers, TypeOfCoordinator, TypeOfModem DEF Next
<1>2. CASE UNCHANGED vars
  BY <1>2 DEF vars, TypeOK
<1> QED BY <1>1, <1>2

\* Every variable of the coordinator, its callers and the modem keeps its
\* type, whatever the number of callers and the misbehaviour of the modem.
THEOREM TypeCorrect == Spec => []TypeOK
<1> QED BY InitType, TypeStep, PTL DEF Spec

-----------------------------------------------------------------------------
(* The pipeline: every call in it is live, and every call that waits is in *)
(* it exactly once.  The invariant is stated over the three stages of the  *)
(* pipeline, from which the properties over its positions follow.          *)

StagesLive ==
    /\ active # NoCommand => Live(active)
    /\ \A i \in 1..Len(cmdq) : Live(cmdq[i])
    /\ \A i \in 1..Len(queue) : queue[i].type = "command" => Live(queue[i])

StagesDisjoint ==
    /\ active # NoCommand =>
          /\ \A i \in 1..Len(cmdq) : cmdq[i].who # active.who
          /\ \A i \in 1..Len(queue) : queue[i].type = "command"
                                         => queue[i].who # active.who
    /\ \A i, j \in 1..Len(cmdq) : cmdq[i].who = cmdq[j].who => i = j
    /\ \A i \in 1..Len(cmdq), j \in 1..Len(queue) :
          queue[j].type = "command" => queue[j].who # cmdq[i].who
    /\ \A i, j \in 1..Len(queue) :
          queue[i].type = "command" /\ queue[j].type = "command"
             => (queue[i].who = queue[j].who => i = j)

Held(c) ==
    \/ active # NoCommand /\ active.who = c
    \/ \E i \in 1..Len(cmdq) : cmdq[i].who = c
    \/ \E i \in 1..Len(queue) : queue[i].type = "command" /\ queue[i].who = c

WaitingHeld == \A c \in Callers : task[c] = "waiting" /\ ~sema[c] => Held(c)

\* A call that is about to be queued has an empty container and semaphore.
CallingIsFresh ==
    \A c \in Callers : task[c] = "calling" => ~sema[c] /\ container[c] = <<>>

FlushingIsIdle == at = "flush" => active = NoCommand

PipelineInv ==
    /\ TypeOK
    /\ StagesLive
    /\ StagesDisjoint
    /\ WaitingHeld
    /\ CallingIsFresh
    /\ FlushingIsIdle
    /\ NeverIdle

\* What the stages hold.
LEMMA StageTypes ==
    ASSUME TypeOK
    PROVE  /\ active # NoCommand => active \in CommandElements
           /\ Len(cmdq) \in Nat /\ Len(queue) \in Nat
           /\ \A i \in 1..Len(cmdq) : cmdq[i] \in CommandElements
           /\ \A i \in 1..Len(queue) :
                 /\ queue[i].type = "command" => queue[i] \in CommandElements
                 /\ queue[i].type \in {"command", "data"}
           /\ \A e \in CommandElements : e.type = "command"
                                         /\ e.who \in Callers
           /\ NoCommand.type # "command"
<1>1. /\ active \in CommandElements \cup {NoCommand}
      /\ cmdq \in Seq(CommandElements)
      /\ queue \in Seq(CommandElements \cup DataElements)
  BY DEF TypeOK
<1>2. \A i \in 1..Len(queue) : queue[i] \in CommandElements \cup DataElements
  BY <1>1
<1>3. \A e \in CommandElements : e.type = "command" /\ e.who \in Callers
  BY DEF CommandElements
<1>4. NoCommand.type # "command"
  BY DEF NoCommand
<1>5. \A i \in 1..Len(cmdq) : cmdq[i] \in CommandElements
  BY <1>1
<1>6. Len(cmdq) \in Nat /\ Len(queue) \in Nat
  BY <1>1
<1> QED BY <1>1, <1>2, <1>3, <1>4, <1>5, <1>6, ElementFacts

\* The properties over positions follow from those over stages.
LEMMA PipelineProperties ==
    PipelineInv => HeldCommandsAreLive /\ HeldOnce /\ WaitingIsHeld
<1> SUFFICES ASSUME PipelineInv
             PROVE  HeldCommandsAreLive /\ HeldOnce /\ WaitingIsHeld
  OBVIOUS
<1>1. /\ DOMAIN cmdq = 1..Len(cmdq)
      /\ DOMAIN queue = 1..Len(queue)
  BY DEF PipelineInv, TypeOK
<1>2. ASSUME NEW p \in Positions
      PROVE  \/ p = <<0, 0>> /\ Element(p) = active
             \/ /\ p[1] = 1 /\ p = <<1, p[2]>> /\ p[2] \in 1..Len(cmdq)
                /\ Element(p) = cmdq[p[2]]
             \/ /\ p[1] = 2 /\ p = <<2, p[2]>> /\ p[2] \in 1..Len(queue)
                /\ Element(p) = queue[p[2]]
  BY <1>1, <1>2 DEF Positions, Element
<1>3. HeldCommandsAreLive
  BY <1>2, StageTypes DEF PipelineInv, StagesLive, HeldCommandsAreLive
<1>4. HeldOnce
  <2> SUFFICES ASSUME NEW c \in Callers, NEW p \in Places(c),
                      NEW q \in Places(c)
               PROVE  p = q
    BY DEF HeldOnce
  <2>1. /\ p \in Positions /\ q \in Positions
        /\ Element(p).type = "command" /\ Element(p).who = c
        /\ Element(q).type = "command" /\ Element(q).who = c
    BY DEF Places
  <2>2. /\ \A i, j \in 1..Len(cmdq) : cmdq[i].who = cmdq[j].who => i = j
        /\ \A i, j \in 1..Len(queue) :
              queue[i].type = "command" /\ queue[j].type = "command"
                 => (queue[i].who = queue[j].who => i = j)
        /\ \A i \in 1..Len(cmdq), j \in 1..Len(queue) :
              queue[j].type = "command" => queue[j].who # cmdq[i].who
    BY DEF PipelineInv, StagesDisjoint
  <2>3. active.type = "command" =>
           /\ \A i \in 1..Len(cmdq) : cmdq[i].who # active.who
           /\ \A i \in 1..Len(queue) : queue[i].type = "command"
                                          => queue[i].who # active.who
    BY StageTypes DEF PipelineInv, StagesDisjoint
  <2>4. CASE p = <<0, 0>> /\ Element(p) = active
    <3>1. ~(q[1] = 1) /\ ~(q[1] = 2)
      BY <1>2, <2>1, <2>3, <2>4
    <3> QED BY <1>2, <2>1, <2>4, <3>1
  <2>5. CASE /\ p = <<1, p[2]>> /\ p[2] \in 1..Len(cmdq)
             /\ Element(p) = cmdq[p[2]]
    <3>1. /\ q = <<1, q[2]>> /\ q[2] \in 1..Len(cmdq)
          /\ Element(q) = cmdq[q[2]]
      BY <1>2, <2>1, <2>2, <2>3, <2>5
    <3>2. p[2] = q[2]
      BY <2>1, <2>2, <2>5, <3>1
    <3> QED BY <2>5, <3>1, <3>2
  <2>6. CASE /\ p = <<2, p[2]>> /\ p[2] \in 1..Len(queue)
             /\ Element(p) = queue[p[2]]
    <3>1. /\ q = <<2, q[2]>> /\ q[2] \in 1..Len(queue)
          /\ Element(q) = queue[q[2]]
      BY <1>2, <2>1, <2>2, <2>3, <2>6
    <3>2. p[2] = q[2]
      BY <2>1, <2>2, <2>6, <3>1
    <3> QED BY <2>6, <3>1, <3>2
  <2> QED BY <1>2, <2>1, <2>4, <2>5, <2>6
<1>5. WaitingIsHeld
  <2> SUFFICES ASSUME NEW c \in Callers, task[c] = "waiting", ~sema[c]
               PROVE  Places(c) # {}
    BY DEF WaitingIsHeld
  <2>1. Held(c)
    BY DEF PipelineInv, WaitingHeld
  <2>2. CASE active # NoCommand /\ active.who = c
    <3>1. <<0, 0>> \in Positions /\ Element(<<0, 0>>) = active
      BY DEF Positions, Element
    <3> QED BY <2>2, <3>1, StageTypes DEF PipelineInv, Places
  <2>3. ASSUME NEW i \in 1..Len(cmdq), cmdq[i].who = c
        PROVE  Places(c) # {}
    <3>1. <<1, i>> \in Positions /\ Element(<<1, i>>) = cmdq[i]
      BY <1>1 DEF Positions, Element
    <3> QED BY <2>3, <3>1, StageTypes DEF PipelineInv, Places
  <2>4. ASSUME NEW i \in 1..Len(queue), queue[i].type = "command",
               queue[i].who = c
        PROVE  Places(c) # {}
    <3>1. <<2, i>> \in Positions /\ Element(<<2, i>>) = queue[i]
      BY <1>1 DEF Positions, Element
    <3> QED BY <2>4, <3>1, StageTypes DEF PipelineInv, Places
  <2> QED BY <2>1, <2>2, <2>3, <2>4 DEF Held
<1> QED BY <1>3, <1>4, <1>5

\* The pipeline is empty at first.
LEMMA PipelineInit == Init => PipelineInv
<1> SUFFICES ASSUME Init PROVE PipelineInv
  OBVIOUS
<1>1. TypeOK
  BY InitType
<1>2. StagesLive /\ StagesDisjoint
  BY DEF Init, StagesLive, StagesDisjoint
<1>3. WaitingHeld /\ CallingIsFresh /\ FlushingIsIdle /\ NeverIdle
  BY DEF Init, WaitingHeld, CallingIsFresh, FlushingIsIdle, NeverIdle
<1> QED BY <1>1, <1>2, <1>3 DEF PipelineInv

\* A step that touches neither the stages nor the calls in them.
LEMMA PipelineFrame ==
    ASSUME PipelineInv, TypeOK',
           UNCHANGED <<command, calls, sema, container, active, cmdq, queue>>,
           \A c \in Callers : task[c] \in {"waiting", "calling"}
                              \/ task'[c] \in {"waiting", "calling"}
                                 => task'[c] = task[c],
           at' = "flush" => at = "flush",
           at = "flush" /\ at' # "flush" => cmdq = <<>>
    PROVE  PipelineInv'
<1> USE DEF PipelineInv
<1>1. \A e \in CommandElements : Live(e) => Live(e)'
  BY StageTypes DEF Live, CommandElement
<1>2. StagesLive'
  BY <1>1, StageTypes DEF StagesLive
<1>3. StagesDisjoint'
  BY DEF StagesDisjoint
<1>4. WaitingHeld'
  BY DEF WaitingHeld, Held
<1>5. CallingIsFresh' /\ FlushingIsIdle' /\ NeverIdle'
  BY DEF CallingIsFresh, FlushingIsIdle, NeverIdle
<1> QED BY <1>2, <1>3, <1>4, <1>5

\* A line that enters the queue, or is lost.
LEMMA PipelineSay ==
    ASSUME PipelineInv, TypeOK', NEW kind, NEW for, Say(kind, for),
           UNCHANGED <<callerVars, at, active, cmdq>>
    PROVE  PipelineInv'
<1> USE DEF PipelineInv
<1> DEFINE line == DataElement([kind |-> kind, for |-> for])
<1>1. CASE UNCHANGED queue
  BY <1>1, PipelineFrame
<1>2. CASE queue' = Append(queue, line)
  <2>1. line.type = "data"
    BY DEF DataElement
  <2>2. /\ Len(queue') = Len(queue) + 1
        /\ \A i \in 1..Len(queue) : queue'[i] = queue[i]
        /\ queue'[Len(queue) + 1] = line
    BY <1>2 DEF TypeOK
  <2>3. \A i \in 1..Len(queue') :
           queue'[i].type = "command" => i \in 1..Len(queue)
    BY <2>1, <2>2, StageTypes
  <2>4. \A e \in CommandElements : Live(e) => Live(e)'
    BY StageTypes DEF Live, CommandElement
  <2>5. StagesLive'
    BY <2>2, <2>3, <2>4, StageTypes DEF StagesLive
  <2>6. StagesDisjoint'
    BY <2>2, <2>3 DEF StagesDisjoint
  <2>7. WaitingHeld'
    BY <2>2, StageTypes DEF WaitingHeld, Held
  <2>8. CallingIsFresh' /\ FlushingIsIdle' /\ NeverIdle'
    BY DEF CallingIsFresh, FlushingIsIdle, NeverIdle
  <2> QED BY <2>5, <2>6, <2>7, <2>8
<1> QED BY <1>1, <1>2 DEF Say

\* The steps of a caller: what it changes is its own, and its command is not
\* in the pipeline unless it waits.
LEMMA PipelineCallers ==
    ASSUME PipelineInv, TypeOK', NEW c \in Callers, CallerNext(c)
    PROVE  PipelineInv'
<1> USE DEF PipelineInv
<1>1. CASE Call(c)
  <2>1. \A e \in CommandElements : Live(e) => Live(e)'
    BY <1>1, StageTypes DEF Call, Live, CommandElement, TypeOK
  <2>2. StagesLive'
    BY <1>1, <2>1, StageTypes DEF Call, StagesLive
  <2>3. StagesDisjoint'
    BY <1>1 DEF Call, StagesDisjoint
  <2>4. WaitingHeld'
    <3>1. \A d \in Callers : Held(d) => Held(d)'
      BY <1>1 DEF Call, Held
    <3>2. \A d \in Callers : task'[d] = "waiting" /\ ~sema'[d]
                             => task[d] = "waiting" /\ ~sema[d]
      BY <1>1 DEF Call, TypeOK
    <3> QED BY <3>1, <3>2 DEF WaitingHeld
  <2>5. CallingIsFresh' /\ FlushingIsIdle' /\ NeverIdle'
    BY <1>1 DEF Call, CallingIsFresh, FlushingIsIdle, NeverIdle, TypeOK
  <2> QED BY <2>2, <2>3, <2>4, <2>5
<1>2. CASE Enqueue(c)
  <2>1. /\ Len(queue') = Len(queue) + 1
        /\ \A i \in 1..Len(queue) : queue'[i] = queue[i]
        /\ queue'[Len(queue) + 1] = CommandElement(c)
    BY <1>2 DEF Enqueue, TypeOK
  <2>2. /\ CommandElement(c).type = "command"
        /\ CommandElement(c).who = c
    BY DEF CommandElement
  <2>3. \A e \in CommandElements : Live(e) => e.who # c /\ Live(e)'
    BY <1>2, StageTypes DEF Enqueue, Live, CommandElement, TypeOK
  <2>4. Live(CommandElement(c))'
    BY <1>2, <2>2 DEF Enqueue, Live, CommandElement, CallingIsFresh, TypeOK
  <2>5. UNCHANGED CommandElement(c)
    BY <1>2 DEF Enqueue, CommandElement
  <2>6. \A i \in 1..Len(queue') : i \in 1..Len(queue) \/ i = Len(queue) + 1
    BY <2>1, StageTypes
  <2>7. StagesLive'
    <3>1. active' = active /\ cmdq' = cmdq
      BY <1>2 DEF Enqueue
    <3>2. \A i \in 1..Len(queue') : queue'[i].type = "command"
                                       => Live(queue[i])'
      <4> SUFFICES ASSUME NEW i \in 1..Len(queue'),
                          queue'[i].type = "command"
                   PROVE  Live(queue[i])'
        OBVIOUS
      <4>1. CASE i \in 1..Len(queue)
        BY <2>1, <2>3, <4>1, StageTypes DEF StagesLive, Live
      <4>2. CASE i = Len(queue) + 1
        BY <2>1, <2>4, <2>5, <4>2, StageTypes DEF Live
      <4> QED BY <2>6, <4>1, <4>2
    <3> QED BY <2>3, <3>1, <3>2, StageTypes DEF StagesLive
  <2>8. StagesDisjoint'
    <3>1. active' = active /\ cmdq' = cmdq
      BY <1>2 DEF Enqueue
    <3>2. /\ active # NoCommand => active.who # c
          /\ \A i \in 1..Len(cmdq) : cmdq[i].who # c
          /\ \A i \in 1..Len(queue) : queue[i].type = "command"
                                         => queue[i].who # c
      BY <2>3, StageTypes DEF StagesLive
    <3> QED BY <2>1, <2>2, <2>6, <3>1, <3>2 DEF StagesDisjoint
  <2>9. WaitingHeld'
    <3>1. \A d \in Callers : Held(d) \/ d = c => Held(d)'
      BY <1>2, <2>1, <2>2, StageTypes DEF Enqueue, Held
    <3> QED BY <1>2, <3>1 DEF Enqueue, WaitingHeld, TypeOK
  <2>10. CallingIsFresh' /\ FlushingIsIdle' /\ NeverIdle'
    BY <1>2 DEF Enqueue, CallingIsFresh, FlushingIsIdle, NeverIdle, TypeOK
  <2> QED BY <2>7, <2>8, <2>9, <2>10
<1>3. CASE Take(c)
  <2>1. \A e \in CommandElements : Live(e) => Live(e)'
    BY <1>3, StageTypes DEF Take, Live, CommandElement, TypeOK
  <2>2. StagesLive'
    BY <1>3, <2>1, StageTypes DEF Take, StagesLive
  <2>3. StagesDisjoint'
    BY <1>3 DEF Take, StagesDisjoint
  <2>4. WaitingHeld'
    <3>1. \A d \in Callers : Held(d) => Held(d)'
      BY <1>3 DEF Take, Held
    <3>2. \A d \in Callers : task'[d] = "waiting" /\ ~sema'[d]
                             => task[d] = "waiting" /\ ~sema[d]
      BY <1>3 DEF Take, TypeOK
    <3> QED BY <3>1, <3>2 DEF WaitingHeld
  <2>5. CallingIsFresh' /\ FlushingIsIdle' /\ NeverIdle'
    BY <1>3 DEF Take, CallingIsFresh, FlushingIsIdle, NeverIdle, TypeOK
  <2> QED BY <2>2, <2>3, <2>4, <2>5
<1>4. CASE CallerResets(c)
  BY <1>4, PipelineFrame DEF CallerResets, TypeOK
<1>5. CASE TakeHttpResponse(c)
  BY <1>5, PipelineFrame DEF TakeHttpResponse
<1> QED BY <1>1, <1>2, <1>3, <1>4, <1>5 DEF CallerNext

\* Fulfilling one call leaves the other calls as they are.
LEMMA PipelineFulfill ==
    ASSUME PipelineInv, NEW e \in CommandElements, NEW replies, Live(e),
           Fulfill(e, replies), UNCHANGED <<task, command, calls>>
    PROVE  /\ \A f \in CommandElements : f.who # e.who /\ Live(f) => Live(f)'
           /\ \A d \in Callers : task'[d] = "waiting" /\ ~sema'[d] =>
                 d # e.who /\ task[d] = "waiting" /\ ~sema[d]
           /\ CallingIsFresh'
<1>1. /\ e.who \in Callers
      /\ \A d \in Callers : d # e.who => sema'[d] = sema[d]
      /\ \A d \in Callers : d # e.who => container'[d] = container[d]
      /\ sema'[e.who] = TRUE
  BY StageTypes DEF PipelineInv, TypeOK, Fulfill
<1>2. \A f \in CommandElements : f.who # e.who /\ Live(f) => Live(f)'
  BY <1>1, StageTypes DEF Live, CommandElement, PipelineInv
<1>3. \A d \in Callers : task'[d] = "waiting" /\ ~sema'[d] =>
                 d # e.who /\ task[d] = "waiting" /\ ~sema[d]
  BY <1>1
<1>4. CallingIsFresh'
  BY <1>1 DEF CallingIsFresh, PipelineInv, Live
<1> QED BY <1>2, <1>3, <1>4

\* The elements of a tail, by their place in the sequence.
LEMMA TailFacts ==
    ASSUME NEW S, NEW s \in Seq(S), s # <<>>
    PROVE  /\ Head(s) = s[1] /\ Len(s) \in Nat /\ 1 \in 1..Len(s)
           /\ Len(Tail(s)) = Len(s) - 1
           /\ \A i \in 1..Len(Tail(s)) : /\ Tail(s)[i] = s[i + 1]
                                         /\ i + 1 \in 1..Len(s)
                                         /\ i + 1 # 1
           /\ \A i \in 1..Len(s) : \/ i = 1
                                   \/ /\ i - 1 \in 1..Len(Tail(s))
                                      /\ Tail(s)[i - 1] = s[i]
OBVIOUS

\* What is left of the queue still belongs to different calls.
LEMMA TailDisjoint ==
    ASSUME TypeOK, StagesDisjoint, queue # <<>>, queue' = Tail(queue)
    PROVE  /\ \A i, j \in 1..Len(queue') :
                 queue'[i].type = "command" /\ queue'[j].type = "command"
                    => (queue'[i].who = queue'[j].who => i = j)
           /\ queue[1].type = "command" =>
                 \A i \in 1..Len(queue') : queue'[i].type = "command"
                    => queue'[i].who # queue[1].who
           /\ \A i \in 1..Len(cmdq), j \in 1..Len(queue') :
                 queue'[j].type = "command" => queue'[j].who # cmdq[i].who
           /\ active # NoCommand => \A i \in 1..Len(queue') :
                 queue'[i].type = "command" => queue'[i].who # active.who
<1>1. /\ 1 \in 1..Len(queue)
      /\ \A i \in 1..Len(queue') : /\ queue'[i] = queue[i + 1]
                                   /\ i + 1 \in 1..Len(queue)
                                   /\ i + 1 # 1
  BY TailFacts DEF TypeOK
<1>2. ASSUME NEW i \in 1..Len(queue'), NEW j \in 1..Len(queue'),
             queue'[i].type = "command", queue'[j].type = "command",
             queue'[i].who = queue'[j].who
      PROVE  i = j
  <2>1. /\ i + 1 \in 1..Len(queue) /\ j + 1 \in 1..Len(queue)
        /\ queue[i + 1].type = "command" /\ queue[j + 1].type = "command"
        /\ queue[i + 1].who = queue[j + 1].who
    BY <1>1, <1>2
  <2>2. i + 1 = j + 1
    BY <2>1 DEF StagesDisjoint
  <2> QED BY <2>2
<1>3. ASSUME NEW i \in 1..Len(queue'), queue'[i].type = "command",
             queue[1].type = "command"
      PROVE  queue'[i].who # queue[1].who
  <2>1. /\ i + 1 \in 1..Len(queue) /\ i + 1 # 1
        /\ queue[i + 1].type = "command" /\ queue'[i] = queue[i + 1]
    BY <1>1, <1>3
  <2> QED BY <1>1, <1>3, <2>1 DEF StagesDisjoint
<1>4. ASSUME NEW i \in 1..Len(cmdq), NEW j \in 1..Len(queue'),
             queue'[j].type = "command"
      PROVE  queue'[j].who # cmdq[i].who
  <2>1. /\ j + 1 \in 1..Len(queue)
        /\ queue[j + 1].type = "command" /\ queue'[j] = queue[j + 1]
    BY <1>1, <1>4
  <2> QED BY <2>1 DEF StagesDisjoint
<1>5. ASSUME active # NoCommand, NEW i \in 1..Len(queue'),
             queue'[i].type = "command"
      PROVE  queue'[i].who # active.who
  <2>1. /\ i + 1 \in 1..Len(queue)
        /\ queue[i + 1].type = "command" /\ queue'[i] = queue[i + 1]
    BY <1>1, <1>5
  <2> QED BY <1>5, <2>1 DEF StagesDisjoint
<1> QED BY <1>2, <1>3, <1>4, <1>5

\* A command leaves the queue and goes behind the others, or becomes active.
LEMMA PipelineReceiveCommand ==
    ASSUME PipelineInv, TypeOK', ReceiveCommand
    PROVE  PipelineInv'
<1> USE DEF PipelineInv
<1> DEFINE h == Head(queue)
<1>1. /\ queue # <<>> /\ h = queue[1] /\ 1 \in 1..Len(queue)
      /\ h.type = "command" /\ h \in CommandElements
      /\ \A i \in 1..Len(queue') : /\ queue'[i] = queue[i + 1]
                                   /\ i + 1 \in 1..Len(queue)
                                   /\ i + 1 # 1
      /\ \A i \in 1..Len(queue) : \/ i = 1
                                  \/ /\ i - 1 \in 1..Len(queue')
                                     /\ queue'[i - 1] = queue[i]
  BY StageTypes, TailFacts DEF ReceiveCommand, TypeOK
<1>2. at = "receive" /\ at' = at
  BY DEF ReceiveCommand
<1>3. \A e \in CommandElements : Live(e) => Live(e)'
  BY StageTypes DEF ReceiveCommand, Live, CommandElement
<1>4. CallingIsFresh' /\ FlushingIsIdle'
  BY <1>2 DEF ReceiveCommand, CallingIsFresh, FlushingIsIdle
<1>5. CASE active # NoCommand
  <2>1. active' = active /\ cmdq' = Append(cmdq, h)
    BY <1>5 DEF ReceiveCommand, QueueAction
  <2>2. /\ Len(cmdq') = Len(cmdq) + 1
        /\ \A i \in 1..Len(cmdq) : cmdq'[i] = cmdq[i]
        /\ cmdq'[Len(cmdq) + 1] = h
        /\ \A i \in 1..Len(cmdq') : i \in 1..Len(cmdq) \/ i = Len(cmdq) + 1
    <3>1. cmdq \in Seq(CommandElements) /\ h \in CommandElements
      BY <1>1 DEF TypeOK
    <3> QED BY <2>1, <3>1, AppendProperties
  <2>3. StagesLive'
    BY <1>1, <1>3, <2>1, <2>2, StageTypes DEF StagesLive
  <2>4. StagesDisjoint'
    <3>1. /\ \A i, j \in 1..Len(queue') :
                queue'[i].type = "command" /\ queue'[j].type = "command"
                   => (queue'[i].who = queue'[j].who => i = j)
          /\ \A i \in 1..Len(queue') :
                queue'[i].type = "command" => queue'[i].who # h.who
      BY <1>1, TailDisjoint DEF ReceiveCommand
    <3>2. \A i \in 1..Len(cmdq), j \in 1..Len(queue') :
             queue'[j].type = "command" => queue'[j].who # cmdq[i].who
      BY <1>1, TailDisjoint DEF ReceiveCommand
    <3>3. \A i \in 1..Len(queue') :
             queue'[i].type = "command" => queue'[i].who # active.who
      BY <1>1, <1>5, TailDisjoint DEF ReceiveCommand
    <3>4. /\ h.who # active.who
          /\ \A i \in 1..Len(cmdq) : cmdq[i].who # h.who
      BY <1>1, <1>5 DEF StagesDisjoint
    <3>5. \A i, j \in 1..Len(cmdq') : cmdq'[i].who = cmdq'[j].who => i = j
      BY <2>2, <3>4 DEF StagesDisjoint
    <3>6. \A i \in 1..Len(cmdq') : cmdq'[i].who # active.who
      BY <1>5, <2>2, <3>4 DEF StagesDisjoint
    <3>7. \A i \in 1..Len(cmdq'), j \in 1..Len(queue') :
             queue'[j].type = "command" => queue'[j].who # cmdq'[i].who
      BY <2>2, <3>1, <3>2
    <3> QED BY <2>1, <3>1, <3>3, <3>5, <3>6, <3>7 DEF StagesDisjoint
  <2>5. \A d \in Callers : Held(d) => Held(d)'
    <3> SUFFICES ASSUME NEW d \in Callers, Held(d)
                 PROVE  Held(d)'
      OBVIOUS
    <3>1. CASE active.who = d
      BY <1>5, <2>1, <3>1 DEF Held
    <3>2. CASE \E i \in 1..Len(cmdq) : cmdq[i].who = d
      <4>1. PICK i \in 1..Len(cmdq) : cmdq[i].who = d
        BY <3>2
      <4>2. i \in 1..Len(cmdq') /\ cmdq'[i].who = d
        BY <2>2, <4>1, StageTypes
      <4> QED BY <4>2 DEF Held
    <3>3. CASE h.who = d
      <4>1. Len(cmdq) + 1 \in 1..Len(cmdq')
        BY <2>2, StageTypes
      <4> QED BY <2>2, <3>3, <4>1 DEF Held
    <3>4. CASE /\ h.who # d
               /\ \E i \in 1..Len(queue) :
                     queue[i].type = "command" /\ queue[i].who = d
      <4>1. PICK i \in 1..Len(queue) :
               queue[i].type = "command" /\ queue[i].who = d
        BY <3>4
      <4>2. /\ i - 1 \in 1..Len(queue')
            /\ queue'[i - 1].type = "command" /\ queue'[i - 1].who = d
        BY <1>1, <3>4, <4>1
      <4> QED BY <4>2 DEF Held
    <3> QED BY <3>1, <3>2, <3>3, <3>4 DEF Held
  <2>6. WaitingHeld'
    BY <2>5 DEF ReceiveCommand, WaitingHeld
  <2>7. NeverIdle'
    BY <1>5, <2>1 DEF NeverIdle
  <2> QED BY <1>4, <2>3, <2>4, <2>6, <2>7
<1>6. CASE active = NoCommand
  <2>1. cmdq = <<>>
    BY <1>2, <1>6 DEF NeverIdle
  <2>2. active' = h /\ cmdq' = <<>>
    BY <1>6, <2>1 DEF ReceiveCommand, QueueAction
  <2>3. StagesLive'
    <3>1. \A i \in 1..Len(queue') : queue'[i].type = "command" =>
             queue'[i] \in CommandElements /\ Live(queue'[i])
      <4> SUFFICES ASSUME NEW i \in 1..Len(queue'),
                          queue'[i].type = "command"
                   PROVE  queue'[i] \in CommandElements /\ Live(queue'[i])
        OBVIOUS
      <4>1. i + 1 \in 1..Len(queue) /\ queue'[i] = queue[i + 1]
        BY <1>1
      <4> QED BY <4>1, StageTypes DEF StagesLive
    <3>2. Live(h)
      BY <1>1 DEF StagesLive
    <3>3. \A i \in 1..Len(queue'), e \in CommandElements :
             e = queue'[i] /\ e.type = "command" => Live(e)'
      BY <1>3, <3>1
    <3>4. \A e \in CommandElements : e = h => Live(e)'
      BY <1>3, <3>2
    <3>5. active' \in CommandElements /\ \A e \in CommandElements :
             e = active' => Live(e)'
      BY <1>1, <2>2, <3>4
    <3>6. Len(cmdq') = 0
      BY <2>2
    <3> HIDE DEF h, Live
    <3> QED BY <3>1, <3>3, <3>5, <3>6 DEF StagesLive
  <2>4. StagesDisjoint'
    <3>1. /\ \A i, j \in 1..Len(queue') :
                queue'[i].type = "command" /\ queue'[j].type = "command"
                   => (queue'[i].who = queue'[j].who => i = j)
          /\ \A i \in 1..Len(queue') :
                queue'[i].type = "command" => queue'[i].who # h.who
      BY <1>1, TailDisjoint DEF ReceiveCommand
    <3>2. \A i \in 1..Len(cmdq') : FALSE
      <4>1. Len(cmdq') = 0
        BY <2>2
      <4> QED BY <4>1
    <3>3. active' = h
      BY <2>2
    <3> HIDE DEF h
    <3> QED BY <3>1, <3>2, <3>3 DEF StagesDisjoint
  <2>5. \A d \in Callers : Held(d) => Held(d)'
    <3> SUFFICES ASSUME NEW d \in Callers, Held(d)
                 PROVE  Held(d)'
      OBVIOUS
    <3>1. active' = h /\ active' # NoCommand
      BY <1>1, <2>2, StageTypes
    <3>2. CASE h.who = d
      <4> HIDE DEF h
      <4> QED BY <3>1, <3>2 DEF Held
    <3>3. CASE h.who # d
      <4>1. PICK i \in 1..Len(queue) :
               queue[i].type = "command" /\ queue[i].who = d
        BY <1>6, <2>1 DEF Held
      <4>2. /\ i - 1 \in 1..Len(queue')
            /\ queue'[i - 1].type = "command" /\ queue'[i - 1].who = d
        BY <1>1, <3>3, <4>1
      <4> QED BY <4>2 DEF Held
    <3> QED BY <3>2, <3>3
  <2>6. WaitingHeld'
    BY <2>5 DEF ReceiveCommand, WaitingHeld
  <2>7. NeverIdle'
    BY <2>2 DEF NeverIdle
  <2> QED BY <1>4, <2>3, <2>4, <2>6, <2>7
<1> QED BY <1>5, <1>6

\* A line that leaves the queue leaves the commands behind it in order.
LEMMA PipelineReceiveData ==
    ASSUME PipelineInv, TypeOK', ReceiveData
    PROVE  PipelineInv'
<1> USE DEF PipelineInv
<1>1. /\ queue # <<>> /\ queue[1].type = "data" /\ 1 \in 1..Len(queue)
      /\ \A i \in 1..Len(queue') : /\ queue'[i] = queue[i + 1]
                                   /\ i + 1 \in 1..Len(queue)
                                   /\ i + 1 # 1
      /\ \A i \in 1..Len(queue) : \/ i = 1
                                  \/ /\ i - 1 \in 1..Len(queue')
                                     /\ queue'[i - 1] = queue[i]
  BY StageTypes, TailFacts DEF ReceiveData, TypeOK
<1>2. at = "receive" /\ at' # "flush" /\ active' = active /\ cmdq' = cmdq
  BY DEF ReceiveData
<1>3. \A e \in CommandElements : Live(e) => Live(e)'
  BY StageTypes DEF ReceiveData, Live, CommandElement
<1>4. StagesLive'
  BY <1>1, <1>2, <1>3, StageTypes DEF StagesLive
<1>5. StagesDisjoint'
  <2>1. \A i, j \in 1..Len(queue') :
           queue'[i].type = "command" /\ queue'[j].type = "command"
              => (queue'[i].who = queue'[j].who => i = j)
    BY <1>1, TailDisjoint DEF ReceiveData
  <2>2. \A i \in 1..Len(cmdq), j \in 1..Len(queue') :
           queue'[j].type = "command" => queue'[j].who # cmdq[i].who
    BY <1>1, TailDisjoint DEF ReceiveData
  <2>3. active # NoCommand => \A i \in 1..Len(queue') :
           queue'[i].type = "command" => queue'[i].who # active.who
    BY <1>1, TailDisjoint DEF ReceiveData
  <2> QED BY <1>2, <2>1, <2>2, <2>3 DEF StagesDisjoint
<1>6. \A d \in Callers : Held(d) => Held(d)'
  <2> SUFFICES ASSUME NEW d \in Callers, Held(d)
               PROVE  Held(d)'
    OBVIOUS
  <2>1. CASE \/ active # NoCommand /\ active.who = d
             \/ \E i \in 1..Len(cmdq) : cmdq[i].who = d
    BY <1>2, <2>1 DEF Held
  <2>2. CASE \E i \in 1..Len(queue) :
                queue[i].type = "command" /\ queue[i].who = d
    <3>1. PICK i \in 1..Len(queue) :
             queue[i].type = "command" /\ queue[i].who = d
      BY <2>2
    <3>2. /\ i - 1 \in 1..Len(queue')
          /\ queue'[i - 1].type = "command" /\ queue'[i - 1].who = d
      BY <1>1, <3>1
    <3> QED BY <3>2 DEF Held
  <2> QED BY <2>1, <2>2 DEF Held
<1>7. WaitingHeld'
  BY <1>6 DEF ReceiveData, WaitingHeld
<1>8. CallingIsFresh' /\ FlushingIsIdle' /\ NeverIdle'
  BY <1>2 DEF ReceiveData, CallingIsFresh, FlushingIsIdle, NeverIdle
<1> QED BY <1>4, <1>5, <1>7, <1>8

\* What is left of command_queue still belongs to different calls.
LEMMA CmdqTailDisjoint ==
    ASSUME TypeOK, StagesDisjoint, cmdq # <<>>, cmdq' = Tail(cmdq)
    PROVE  /\ \A i \in 1..Len(cmdq') : /\ cmdq'[i] = cmdq[i + 1]
                                       /\ i + 1 \in 1..Len(cmdq)
           /\ \A i, j \in 1..Len(cmdq') : cmdq'[i].who = cmdq'[j].who => i = j
           /\ \A i \in 1..Len(cmdq') : cmdq'[i].who # cmdq[1].who
<1>1. /\ 1 \in 1..Len(cmdq)
      /\ \A i \in 1..Len(cmdq') : /\ cmdq'[i] = cmdq[i + 1]
                                  /\ i + 1 \in 1..Len(cmdq)
                                  /\ i + 1 # 1
  BY TailFacts DEF TypeOK
<1>2. ASSUME NEW i \in 1..Len(cmdq'), NEW j \in 1..Len(cmdq'),
             cmdq'[i].who = cmdq'[j].who
      PROVE  i = j
  <2>1. /\ i + 1 \in 1..Len(cmdq) /\ j + 1 \in 1..Len(cmdq)
        /\ cmdq[i + 1].who = cmdq[j + 1].who
    BY <1>1, <1>2
  <2>2. i + 1 = j + 1
    BY <2>1 DEF StagesDisjoint
  <2> QED BY <2>2
<1>3. ASSUME NEW i \in 1..Len(cmdq')
      PROVE  cmdq'[i].who # cmdq[1].who
  <2>1. /\ i + 1 \in 1..Len(cmdq) /\ i + 1 # 1 /\ cmdq'[i] = cmdq[i + 1]
    BY <1>1
  <2> QED BY <1>1, <2>1 DEF StagesDisjoint
<1> QED BY <1>1, <1>2, <1>3

\* new_reply finishing a command: the active call is answered and the next one
\* becomes active.
LEMMA PipelineFinish ==
    ASSUME PipelineInv, TypeOK', FinishCommand
    PROVE  PipelineInv'
<1> USE DEF PipelineInv
<1>1. /\ active # NoCommand /\ active \in CommandElements /\ Live(active)
      /\ at' = "receive" /\ at = "decide" /\ queue' = queue
      /\ Fulfill(active, Append(buffer, reply))
      /\ UNCHANGED <<task, command, calls>>
  BY StageTypes DEF FinishCommand, StagesLive
<1>2. /\ \A f \in CommandElements : f.who # active.who /\ Live(f) => Live(f)'
      /\ \A d \in Callers : task'[d] = "waiting" /\ ~sema'[d] =>
            d # active.who /\ task[d] = "waiting" /\ ~sema[d]
      /\ CallingIsFresh'
  BY <1>1, PipelineFulfill
<1>3. \A i \in 1..Len(queue') : queue'[i].type = "command" =>
         /\ Live(queue[i])'
         /\ queue'[i].who # active.who
  BY <1>1, <1>2, StageTypes DEF StagesLive, StagesDisjoint
<1>4. FlushingIsIdle'
  BY <1>1 DEF FlushingIsIdle
<1>5. CASE cmdq = <<>>
  <2>1. active' = NoCommand /\ cmdq' = <<>>
    BY <1>5 DEF FinishCommand, QueueAction
  <2>2. StagesLive'
    BY <1>3, <2>1 DEF StagesLive
  <2>3. StagesDisjoint'
    BY <1>1, <2>1 DEF StagesDisjoint
  <2>4. \A d \in Callers : Held(d) /\ d # active.who => Held(d)'
    BY <1>1, <1>5, <2>1 DEF Held
  <2>5. WaitingHeld' /\ NeverIdle'
    BY <1>2, <2>1, <2>4 DEF WaitingHeld, NeverIdle
  <2> QED BY <1>2, <1>4, <2>2, <2>3, <2>5
<1>6. CASE cmdq # <<>>
  <2>1. active' = cmdq[1] /\ cmdq' = Tail(cmdq) /\ 1 \in 1..Len(cmdq)
    BY <1>6 DEF FinishCommand, QueueAction, TypeOK
  <2>2. /\ cmdq[1] \in CommandElements
        /\ cmdq[1] # NoCommand
    BY <2>1, StageTypes
  <2>3. /\ \A i \in 1..Len(cmdq') : /\ cmdq'[i] = cmdq[i + 1]
                                    /\ i + 1 \in 1..Len(cmdq)
        /\ \A i, j \in 1..Len(cmdq') : cmdq'[i].who = cmdq'[j].who => i = j
        /\ \A i \in 1..Len(cmdq') : cmdq'[i].who # cmdq[1].who
    BY <1>6, <2>1, CmdqTailDisjoint
  <2>4. \A e \in CommandElements :
           (\E i \in 1..Len(cmdq) : e = cmdq[i]) => Live(e)'
    <3> SUFFICES ASSUME NEW i \in 1..Len(cmdq), NEW e \in CommandElements,
                        e = cmdq[i]
                 PROVE  Live(e)'
      OBVIOUS
    <3>1. Live(e) /\ e.who # active.who
      BY <1>1 DEF StagesLive, StagesDisjoint
    <3> QED BY <1>2, <3>1
  <2>5. StagesLive'
    <3>1. Live(active)'
      BY <2>1, <2>2, <2>4
    <3>2. \A i \in 1..Len(cmdq') : Live(cmdq[i])'
      BY <2>3, <2>4, StageTypes
    <3> QED BY <1>3, <3>1, <3>2 DEF StagesLive
  <2>6. \A i \in 1..Len(cmdq), j \in 1..Len(queue') :
           queue'[j].type = "command" => queue'[j].who # cmdq[i].who
    BY <1>1 DEF StagesDisjoint
  <2>7. StagesDisjoint'
    BY <1>1, <2>1, <2>2, <2>3, <2>6 DEF StagesDisjoint
  <2>8. \A d \in Callers : Held(d) /\ d # active.who => Held(d)'
    <3>1. \A i \in 1..Len(cmdq) : \/ i = 1
                                  \/ /\ i - 1 \in 1..Len(cmdq')
                                     /\ cmdq'[i - 1] = cmdq[i]
      BY <1>6, <2>1, TailFacts DEF TypeOK
    <3> QED BY <1>1, <2>1, <2>2, <3>1 DEF Held
  <2>9. WaitingHeld' /\ NeverIdle'
    BY <1>2, <2>1, <2>2, <2>8 DEF WaitingHeld, NeverIdle
  <2> QED BY <1>2, <1>4, <2>5, <2>7, <2>9
<1> QED BY <1>5, <1>6

\* The flush releases the caller of the active command.
LEMMA PipelineFlushActive ==
    ASSUME PipelineInv, TypeOK', FlushActive
    PROVE  PipelineInv'
<1> USE DEF PipelineInv
<1>1. /\ active' = NoCommand /\ cmdq' = cmdq /\ queue' = queue
      /\ at' = "flush" /\ UNCHANGED <<task, command, calls>>
  BY DEF FlushActive
<1>2. FlushingIsIdle' /\ NeverIdle'
  BY <1>1 DEF FlushingIsIdle, NeverIdle
<1>3. StagesDisjoint'
  BY <1>1 DEF StagesDisjoint
<1>4. CASE active = NoCommand
  <2>1. UNCHANGED <<container, sema>>
    BY <1>4 DEF FlushActive
  <2>2. \A e \in CommandElements : Live(e) => Live(e)'
    BY <1>1, <2>1, StageTypes DEF Live, CommandElement
  <2>3. StagesLive'
    BY <1>1, <2>2, StageTypes DEF StagesLive
  <2>4. WaitingHeld' /\ CallingIsFresh'
    BY <1>1, <1>4, <2>1 DEF WaitingHeld, Held, CallingIsFresh
  <2> QED BY <1>2, <1>3, <2>3, <2>4
<1>5. CASE active # NoCommand
  <2>1. /\ active \in CommandElements /\ Live(active)
        /\ Fulfill(active, buffer)
    BY <1>5, StageTypes DEF FlushActive, StagesLive
  <2>2. /\ \A f \in CommandElements :
              f.who # active.who /\ Live(f) => Live(f)'
        /\ \A d \in Callers : task'[d] = "waiting" /\ ~sema'[d] =>
              d # active.who /\ task[d] = "waiting" /\ ~sema[d]
        /\ CallingIsFresh'
    BY <1>1, <2>1, PipelineFulfill
  <2>3. StagesLive'
    BY <1>1, <1>5, <2>2, StageTypes DEF StagesLive, StagesDisjoint
  <2>4. \A d \in Callers : Held(d) /\ d # active.who => Held(d)'
    BY <1>1 DEF Held
  <2>5. WaitingHeld'
    BY <2>2, <2>4 DEF WaitingHeld
  <2> QED BY <1>2, <1>3, <2>2, <2>3, <2>5
<1> QED BY <1>4, <1>5

\* The flush releases the caller of the oldest queued command.
LEMMA PipelineFlushQueued ==
    ASSUME PipelineInv, TypeOK', FlushQueued
    PROVE  PipelineInv'
<1> USE DEF PipelineInv
<1> DEFINE h == cmdq[1]
<1>1. /\ cmdq # <<>> /\ cmdq' = Tail(cmdq) /\ 1 \in 1..Len(cmdq)
      /\ h = Head(cmdq) /\ Fulfill(h, <<>>)
      /\ active' = active /\ queue' = queue /\ at = "flush" /\ at' = "flush"
      /\ active = NoCommand
      /\ UNCHANGED <<task, command, calls>>
  BY DEF FlushQueued, FlushingIsIdle, TypeOK
<1>2. h \in CommandElements /\ Live(h)
  BY <1>1, StageTypes DEF StagesLive
<1>3. /\ \A f \in CommandElements : f.who # h.who /\ Live(f) => Live(f)'
      /\ \A d \in Callers : task'[d] = "waiting" /\ ~sema'[d] =>
            d # h.who /\ task[d] = "waiting" /\ ~sema[d]
      /\ CallingIsFresh'
  <2> HIDE DEF h
  <2> QED BY <1>1, <1>2, PipelineFulfill
<1>4. /\ \A i \in 1..Len(cmdq') : /\ cmdq'[i] = cmdq[i + 1]
                                  /\ i + 1 \in 1..Len(cmdq)
      /\ \A i, j \in 1..Len(cmdq') : cmdq'[i].who = cmdq'[j].who => i = j
      /\ \A i \in 1..Len(cmdq') : cmdq'[i].who # h.who
  BY <1>1, CmdqTailDisjoint
<1>5. StagesLive'
  <2>1. \A i \in 1..Len(cmdq') : Live(cmdq[i])'
    <3> SUFFICES ASSUME NEW i \in 1..Len(cmdq') PROVE Live(cmdq[i])'
      OBVIOUS
    <3>1. /\ cmdq[i + 1] \in CommandElements /\ Live(cmdq[i + 1])
          /\ cmdq[i + 1].who # h.who
      BY <1>4, StageTypes DEF StagesLive
    <3> QED BY <1>3, <1>4, <3>1
  <2>2. \A i \in 1..Len(queue) : queue[i].type = "command" => Live(queue[i])'
    BY <1>1, <1>3, StageTypes DEF StagesLive, StagesDisjoint
  <2> QED BY <1>1, <2>1, <2>2 DEF StagesLive
<1>6. StagesDisjoint'
  <2>1. \A i \in 1..Len(cmdq'), j \in 1..Len(queue) :
           queue[j].type = "command" => queue[j].who # cmdq'[i].who
    BY <1>4 DEF StagesDisjoint
  <2> QED BY <1>1, <1>4, <2>1 DEF StagesDisjoint
<1>7. WaitingHeld'
  <2>1. \A i \in 1..Len(cmdq) : \/ i = 1
                                \/ /\ i - 1 \in 1..Len(cmdq')
                                   /\ cmdq'[i - 1] = cmdq[i]
    BY <1>1, TailFacts DEF TypeOK
  <2>2. \A d \in Callers : Held(d) /\ d # h.who => Held(d)'
    BY <1>1, <2>1 DEF Held
  <2> QED BY <1>3, <2>2 DEF WaitingHeld
<1>8. FlushingIsIdle' /\ NeverIdle'
  BY <1>1 DEF FlushingIsIdle, NeverIdle
<1> QED BY <1>3, <1>5, <1>6, <1>7, <1>8

\* Every step keeps the pipeline invariant.
LEMMA PipelineStep == PipelineInv /\ [Next]_vars => PipelineInv'
<1> SUFFICES ASSUME PipelineInv, [Next]_vars PROVE PipelineInv'
  OBVIOUS
<1>0. TypeOK'
  BY TypeStep DEF PipelineInv
<1>1. CASE \E c \in Callers : CallerNext(c)
  BY <1>0, <1>1, PipelineCallers
<1>2. CASE CoordinatorNext
  <2>1. CASE \/ TestBoot \/ MarkInconsistent \/ SetBoot
             \/ IgnoreUnsolicited \/ BufferReply
    BY <1>0, <2>1, PipelineFrame
    DEF TestBoot, MarkInconsistent, SetBoot, IgnoreUnsolicited, BufferReply
  <2>2. CASE CoordinatorResets
    BY <1>0, <2>2, PipelineFrame DEF CoordinatorResets
  <2> QED BY <1>0, <1>2, <2>1, <2>2, PipelineReceiveCommand,
             PipelineReceiveData, PipelineFinish, PipelineFlushActive,
             PipelineFlushQueued DEF CoordinatorNext
<1>3. CASE ModemNext
  <2>1. CASE ModemResets \/ ModemIgnores
    BY <1>0, <2>1, PipelineFrame DEF ModemResets, ModemIgnores
  <2>2. CASE ModemInfo
    BY <1>0, <2>2, PipelineSay DEF ModemInfo
  <2>3. CASE ModemFinish
    BY <1>0, <2>3, PipelineSay DEF ModemFinish
  <2>4. CASE ModemBoots
    BY <1>0, <2>4, PipelineSay DEF ModemBoots
  <2>5. CASE ModemStrays
    BY <1>0, <2>5, PipelineSay DEF ModemStrays
  <2>6. CASE ModemSignalsHttp
    BY <1>0, <2>6, PipelineSay DEF ModemSignalsHttp
  <2> QED BY <1>3, <2>1, <2>2, <2>3, <2>4, <2>5, <2>6
      DEF ModemNext, ModemAnswers
<1>4. CASE UNCHANGED vars
  BY <1>0, <1>4, PipelineFrame DEF vars
<1> QED BY <1>1, <1>2, <1>3, <1>4 DEF Next

\* The pipeline invariant holds throughout.
LEMMA PipelineInvariant == Spec => []PipelineInv
<1> QED BY PipelineInit, PipelineStep, PTL DEF Spec

\* The stack of a caller outlives every reference to it: whatever the modem
\* loses, repeats or resets, the commands the coordinator holds are those of
\* tasks that still wait for them, with an empty semaphore.
THEOREM CommandsAreLive == Spec => []HeldCommandsAreLive
<1> QED BY PipelineInvariant, PipelineProperties, PTL

\* No call is held twice, so none is sent or fulfilled twice.
THEOREM CommandsAreHeldOnce == Spec => []HeldOnce
<1> QED BY PipelineInvariant, PipelineProperties, PTL

\* No waiting call is dropped by the coordinator.
THEOREM WaitersAreHeld == Spec => []WaitingIsHeld
<1> QED BY PipelineInvariant, PipelineProperties, PTL

\* The next command is sent as soon as none is active.
THEOREM CoordinatorIsNeverIdle == Spec => []NeverIdle
<1>1. PipelineInv => NeverIdle
  BY DEF PipelineInv
<1> QED BY <1>1, PipelineInvariant, PTL

-----------------------------------------------------------------------------
(* The inconsistent mark.                                                  *)

MarkInv ==
    /\ TypeOK
    /\ at \in {"receive", "test", "mark"} => ~inconsistent

\* Every step keeps the mark inside the handling of a boot line.
LEMMA MarkStep == MarkInv /\ [Next]_vars => MarkInv'
<1> SUFFICES ASSUME MarkInv, [Next]_vars PROVE MarkInv'
  OBVIOUS
<1> USE DEF MarkInv
<1>0. TypeOK'
  BY TypeStep
<1>1. CASE \E c \in Callers : CallerNext(c)
  BY <1>0, <1>1 DEF CallerNext, Call, Enqueue, Take, CallerResets, Store,
                    TakeHttpResponse
<1>2. CASE CoordinatorNext
  <2>1. CASE ReceiveCommand \/ ReceiveData \/ TestBoot
    BY <1>0, <2>1 DEF ReceiveCommand, ReceiveData, TestBoot
  <2>2. CASE MarkInconsistent \/ SetBoot
    BY <1>0, <2>2 DEF MarkInconsistent, SetBoot
  <2>3. CASE IgnoreUnsolicited \/ BufferReply \/ FinishCommand
    BY <1>0, <2>3 DEF IgnoreUnsolicited, BufferReply, FinishCommand
  <2>4. CASE FlushActive \/ FlushQueued
    BY <1>0, <2>4 DEF FlushActive, FlushQueued
  <2>5. CASE CoordinatorResets
    BY <1>0, <2>5 DEF CoordinatorResets, Store, TypeOK
  <2> QED BY <1>2, <2>1, <2>2, <2>3, <2>4, <2>5 DEF CoordinatorNext
<1>3. CASE ModemNext
  BY <1>0, <1>3 DEF ModemNext, ModemAnswers, ModemInfo, ModemFinish,
                    ModemBoots, ModemResets, ModemIgnores, ModemStrays,
                    ModemSignalsHttp
<1>4. CASE UNCHANGED vars
  BY <1>0, <1>4 DEF vars
<1> QED BY <1>1, <1>2, <1>3, <1>4 DEF Next

\* The mark that MainModule::main looks for is gone before the coordinator
\* receives anything else, whoever resets the flags meanwhile.
THEOREM MarkIsTransient == Spec => []InconsistentIsTransient
<1>1. Init => MarkInv
  BY InitType DEF Init, MarkInv
<1>2. MarkInv => InconsistentIsTransient
  BY DEF MarkInv, InconsistentIsTransient
<1> QED BY <1>1, <1>2, MarkStep, PTL DEF Spec

-----------------------------------------------------------------------------
(* The answers a call gets: the inductive invariant follows the lines of   *)
(* the active command from the modem through the queue and the buffer.     *)

\* The modem the answers are promised for: it neither resets on its own nor by
\* CFUN, prints nothing that answers no command, and each boot line once.
ReliableModem ==
    /\ MaxResets = 0 /\ MaxStrays = 0
    /\ "CFUN" \notin Commands
    /\ \A i, j \in 1..Len(BootOrder) : BootOrder[i] = BootOrder[j] => i = j

\* The lines under way, by place: 0 is the one in the coordinator's hands.
Under(p) == IF p = 0 THEN at # "receive" ELSE queue[p].type = "data"
Line(p) == IF p = 0 THEN reply ELSE queue[p].line
Owner == <<active.who, active.call>>

\* A line answers the active command, or none and is then never solicited.
LinesAreOwned ==
    \A p \in 0..Len(queue) : Under(p) =>
        \/ /\ Line(p).for = NoCall
           /\ Line(p).kind \in BootMessages \cup {"HTTPResponseReady"}
        \/ /\ active # NoCommand
           /\ Line(p).for = Owner
           /\ Line(p).kind \notin BootMessages

\* Behind a final line comes no other line of the command, nor will one.
FinalIsLast ==
    \A p \in 0..Len(queue) : Under(p) /\ Line(p).kind \in FinalReplies =>
        /\ inbox = <<>>
        /\ \A q \in 0..Len(queue) : p < q /\ Under(q) => Line(q).for = NoCall

\* What has been collected answers the active command, and goes on.
BufferIsOwned ==
    \A i \in 1..Len(buffer) :
        /\ active # NoCommand
        /\ buffer[i].for = Owner
        /\ buffer[i].kind \notin FinalReplies

\* The boot lines that the modem has printed, each of which comes once.
Printed == {BootOrder[i] : i \in 1..boot}
BootLinesAreNew ==
    /\ flags \subseteq Printed
    /\ \A p \in 0..Len(queue) : Under(p) /\ Line(p).kind \in BootMessages =>
          /\ Line(p).kind \in Printed
          /\ Line(p).kind \in flags => p = 0 /\ at = "decide"
          /\ \A q \in 0..Len(queue) :
                Under(q) /\ Line(q).kind = Line(p).kind => q = p

NeverInconsistent == ~inconsistent /\ at \notin {"mark", "flush"}

AnswerInv ==
    /\ LinesAreOwned
    /\ FinalIsLast
    /\ BufferIsOwned
    /\ BootLinesAreNew
    /\ NeverInconsistent
    /\ OneOutstanding
    /\ AnswersAreOwn

\* The initial state: nothing is under way.
LEMMA AnswerInit == Init => AnswerInv
<1> SUFFICES ASSUME Init PROVE AnswerInv
  OBVIOUS
<1>1. /\ queue = <<>> /\ at = "receive" /\ buffer = <<>> /\ inbox = <<>>
      /\ ~inconsistent /\ \A c \in Callers : task[c] = "idle"
      /\ Len(queue) = 0 /\ Len(buffer) = 0
  BY DEF Init
<1>2. \A p \in 0..Len(queue) : ~Under(p)
  BY <1>1 DEF Under
<1>3. flags \subseteq Printed
  <2>1. BootOrder \in Seq(BootMessages)
    OBVIOUS
  <2> QED BY <2>1 DEF Init, Printed
<1> QED BY <1>1, <1>2, <1>3 DEF AnswerInv, LinesAreOwned, FinalIsLast,
           BufferIsOwned, BootLinesAreNew, NeverInconsistent, OneOutstanding,
           AnswersAreOwn

\* The lines under way after a step were so before it, at most one place
\* further back, in the same order.
Kept(d) ==
    \A p \in 0..Len(queue') : Under(p)' =>
        /\ p + d \in 0..Len(queue)
        /\ Under(p + d)
        /\ Line(p)' = Line(p + d)

\* Lines that move on still answer the command that stays active.
LEMMA OwnedKept ==
    ASSUME LinesAreOwned, NEW d \in {0, 1}, Kept(d), UNCHANGED active
    PROVE  LinesAreOwned'
BY DEF LinesAreOwned, Kept, Owner

\* Lines that move on do not overtake the final one.
LEMMA FinalKept ==
    ASSUME TypeOK, TypeOK', FinalIsLast, NEW d \in {0, 1}, Kept(d),
           inbox = <<>> => inbox' = <<>>
    PROVE  FinalIsLast'
<1> SUFFICES ASSUME NEW p \in 0..Len(queue'), Under(p)',
                    Line(p)'.kind \in FinalReplies
             PROVE  /\ inbox' = <<>>
                    /\ \A q \in 0..Len(queue') :
                          p < q /\ Under(q)' => Line(q)'.for = NoCall
  BY DEF FinalIsLast
<1>0. Len(queue) \in Nat /\ Len(queue') \in Nat
  BY DEF TypeOK
<1>1. /\ p + d \in 0..Len(queue) /\ Under(p + d)
      /\ Line(p + d).kind \in FinalReplies
  BY DEF Kept
<1>2. inbox = <<>> /\ \A q \in 0..Len(queue) :
         p + d < q /\ Under(q) => Line(q).for = NoCall
  BY <1>1 DEF FinalIsLast
<1>3. ASSUME NEW q \in 0..Len(queue'), p < q, Under(q)'
      PROVE  Line(q)'.for = NoCall
  <2>1. /\ q + d \in 0..Len(queue) /\ Under(q + d)
        /\ Line(q)' = Line(q + d)
    BY <1>3 DEF Kept
  <2>2. p + d < q + d
    BY <1>0, <1>3
  <2> QED BY <1>2, <2>1, <2>2
<1> QED BY <1>2, <1>3

\* Boot lines that move on are as new as they were, unless a flag was set.
LEMMA BootKept ==
    ASSUME TypeOK, TypeOK', BootLinesAreNew, NEW d \in {0, 1}, Kept(d),
           flags' \subseteq flags, UNCHANGED boot,
           d = 0 => at' \in {at, "receive"} \/ at # "decide",
           d = 1 => at # "decide"
    PROVE  BootLinesAreNew'
<1>0. /\ Len(queue) \in Nat /\ Len(queue') \in Nat
      /\ Printed' = Printed
  BY DEF TypeOK, Printed
<1>1. ASSUME NEW p \in 0..Len(queue'), Under(p)',
             Line(p)'.kind \in BootMessages
      PROVE  /\ Line(p)'.kind \in Printed
             /\ Line(p)'.kind \in flags' => p = 0 /\ at' = "decide"
             /\ \A q \in 0..Len(queue') :
                   Under(q)' /\ Line(q)'.kind = Line(p)'.kind => q = p
  <2>1. /\ p + d \in 0..Len(queue) /\ Under(p + d)
        /\ Line(p)' = Line(p + d)
    BY <1>1 DEF Kept
  <2>2. /\ Line(p + d).kind \in Printed
        /\ Line(p + d).kind \in flags => p + d = 0 /\ at = "decide"
        /\ \A q \in 0..Len(queue) :
              Under(q) /\ Line(q).kind = Line(p + d).kind => q = p + d
    BY <1>1, <2>1 DEF BootLinesAreNew
  <2>3. ASSUME Line(p)'.kind \in flags' PROVE p = 0 /\ at' = "decide"
    <3>1. p + d = 0 /\ at = "decide"
      BY <2>1, <2>2, <2>3
    <3>2. p = 0 /\ d = 0
      BY <3>1
    <3>3. at' # "receive"
      BY <1>1, <3>2 DEF Under
    <3> QED BY <3>1, <3>2, <3>3
  <2>4. ASSUME NEW q \in 0..Len(queue'), Under(q)',
               Line(q)'.kind = Line(p)'.kind
        PROVE  q = p
    <3>1. /\ q + d \in 0..Len(queue) /\ Under(q + d)
          /\ Line(q)' = Line(q + d)
      BY <2>4 DEF Kept
    <3>2. q + d = p + d
      BY <2>1, <2>2, <2>4, <3>1
    <3> QED BY <3>2
  <2> QED BY <2>1, <2>2, <2>3, <2>4
<1>2. flags' \subseteq Printed
  BY DEF BootLinesAreNew
<1> QED BY <1>0, <1>1, <1>2 DEF BootLinesAreNew

\* A step that releases no caller leaves the answers as they are.
LEMMA AnswersKept ==
    ASSUME AnswersAreOwn,
           \A c \in Callers : task'[c] = "waiting" /\ sema'[c] =>
              /\ task[c] = "waiting" /\ sema[c]
              /\ container'[c] = container[c] /\ calls'[c] = calls[c]
    PROVE  AnswersAreOwn'
BY DEF AnswersAreOwn

\* The helper and the modem as they were.
LEMMA HelperKept ==
    ASSUME BufferIsOwned, OneOutstanding, UNCHANGED <<active, buffer, inbox>>
    PROVE  BufferIsOwned' /\ OneOutstanding'
BY DEF BufferIsOwned, OneOutstanding, Owner

\* The callers take nothing from the lines under way.
LEMMA AnswerCallers ==
    ASSUME PipelineInv, TypeOK', AnswerInv, NEW c \in Callers,
           CallerNext(c)
    PROVE  AnswerInv'
<1> USE DEF AnswerInv, PipelineInv
<1>1. /\ UNCHANGED <<at, reply, active, buffer, inbox, boot>>
      /\ flags' \subseteq flags /\ (inconsistent' => inconsistent)
  BY DEF CallerNext, Call, Enqueue, Take, CallerResets, Store,
         TakeHttpResponse
<1>2. Kept(0)
  <2>1. CASE UNCHANGED queue
    BY <1>1, <2>1 DEF Kept, Under, Line, TypeOK
  <2>2. CASE Enqueue(c)
    <3>1. queue \in Seq(CommandElements \cup DataElements)
      BY DEF TypeOK
    <3>2. queue' = Append(queue, CommandElement(c))
          /\ CommandElement(c).type = "command"
      BY <2>2 DEF Enqueue, CommandElement
    <3>3. /\ Len(queue) \in Nat
          /\ Len(queue') = Len(queue) + 1
          /\ \A i \in 1..Len(queue) : queue'[i] = queue[i]
          /\ queue'[Len(queue) + 1] = CommandElement(c)
      BY <3>1, <3>2
    <3> QED BY <1>1, <3>2, <3>3 DEF Kept, Under, Line
  <2> QED BY <2>1, <2>2
      DEF CallerNext, Call, Take, CallerResets, TakeHttpResponse
<1>3. AnswersAreOwn'
  <2>1. \A e \in Callers : task'[e] = "waiting" /\ sema'[e] =>
           /\ task[e] = "waiting" /\ sema[e]
           /\ container'[e] = container[e] /\ calls'[e] = calls[e]
    <3>1. CASE Call(c)
      BY <3>1 DEF Call, TypeOK
    <3>2. CASE Enqueue(c)
      BY <3>2 DEF Enqueue, TypeOK, CallingIsFresh
    <3>3. CASE Take(c)
      BY <3>3 DEF Take, TypeOK
    <3>4. CASE CallerResets(c)
      BY <3>4 DEF CallerResets, TypeOK
    <3>5. CASE TakeHttpResponse(c)
      BY <3>5 DEF TakeHttpResponse, TypeOK
    <3> QED BY <3>1, <3>2, <3>3, <3>4, <3>5 DEF CallerNext
  <2> QED BY <2>1, AnswersKept
<1>4. LinesAreOwned' /\ FinalIsLast'
  BY <1>1, <1>2, OwnedKept, FinalKept
<1>5. BootLinesAreNew'
  BY <1>1, <1>2, BootKept
<1>6. BufferIsOwned' /\ OneOutstanding' /\ NeverInconsistent'
  BY <1>1, HelperKept DEF NeverInconsistent
<1> QED BY <1>3, <1>4, <1>5, <1>6

\* Which replies are final and which come unasked.
LEMMA KindFacts ==
    ASSUME ReliableModem, TypeOK
    PROVE  /\ FinalReplies \cap (BootMessages \cup {"HTTPResponseReady"}) = {}
           /\ \A kind \in FinalReplies : SolicitType[kind] = "always"
           /\ \A kind \in BootMessages \cup {"HTTPResponseReady"} :
                 ~Solicited(kind)
<1>1. BootMessages = {"Ready", "CFUN", "CPIN", "CallReady", "SMSReady"}
  BY DEF BootMessages, ResetOrder
<1>2. active # NoCommand => active.command \in CommandTypes \ {"CFUN"}
  <2>1. active # NoCommand => active.command \in Commands
    BY DEF TypeOK, CommandElements
  <2> QED BY <2>1 DEF ReliableModem
<1>3. "never" \notin CommandTypes
  BY DEF CommandTypes
<1>4. /\ \A kind \in BootMessages \cup {"HTTPResponseReady"} :
            SolicitType[kind] \in {"never", "CFUN"}
      /\ \A kind \in FinalReplies : SolicitType[kind] = "always"
  BY <1>1 DEF SolicitType, FinalReplies
<1>5. FinalReplies \cap (BootMessages \cup {"HTTPResponseReady"}) = {}
  BY <1>1 DEF FinalReplies
<1>6. ASSUME NEW kind \in BootMessages \cup {"HTTPResponseReady"}
      PROVE  ~Solicited(kind)
  <2>1. SolicitType[kind] # "always"
    BY <1>4
  <2>2. active # NoCommand => active.command # SolicitType[kind]
    BY <1>2, <1>3, <1>4
  <2> QED BY <2>1, <2>2 DEF Solicited
<1> QED BY <1>4, <1>5, <1>6

\* The line in hand, when it is decided upon.
LEMMA ReplyFacts ==
    ASSUME ReliableModem, TypeOK, AnswerInv, at = "decide",
           Solicited(reply.kind)
    PROVE  /\ active # NoCommand
           /\ reply.for = Owner
           /\ reply.kind \in FinalReplies =>
                 /\ inbox = <<>>
                 /\ \A q \in 1..Len(queue) : queue[q].type = "data" =>
                       queue[q].line.for = NoCall
<1>1. /\ 0 \in 0..Len(queue) /\ Under(0) /\ Line(0) = reply
      /\ Len(queue) \in Nat
  BY DEF Under, Line, TypeOK
<1>2. active # NoCommand /\ reply.for = Owner
  BY <1>1, KindFacts DEF AnswerInv, LinesAreOwned
<1>3. reply.kind \in FinalReplies =>
         /\ inbox = <<>>
         /\ \A q \in 0..Len(queue) : 0 < q /\ Under(q) => Line(q).for = NoCall
  BY <1>1 DEF AnswerInv, FinalIsLast
<1>4. \A q \in 1..Len(queue) : q \in 0..Len(queue) /\ 0 < q
         /\ (queue[q].type = "data" => Under(q)) /\ Line(q) = queue[q].line
  BY <1>1 DEF Under, Line
<1> QED BY <1>2, <1>3, <1>4

\* A command that becomes active when no line of another is under way.
LEMMA NewlyActive ==
    ASSUME TypeOK, TypeOK', LinesAreOwned, FinalIsLast,
           NEW d \in {0, 1}, Kept(d),
           \A p \in 0..Len(queue') : Under(p)' => Line(p)'.for = NoCall,
           NEW e \in CommandElements, active' = e,
           inbox' = <<Outstanding(e)>>, buffer' = <<>>
    PROVE  LinesAreOwned' /\ FinalIsLast' /\ BufferIsOwned' /\ OneOutstanding'
<1>1. \A p \in 0..Len(queue') : Under(p)' =>
         Line(p)'.kind \in BootMessages \cup {"HTTPResponseReady"}
  <2> SUFFICES ASSUME NEW p \in 0..Len(queue'), Under(p)'
               PROVE  Line(p)'.kind \in BootMessages \cup {"HTTPResponseReady"}
    OBVIOUS
  <2>1. /\ p + d \in 0..Len(queue) /\ Under(p + d)
        /\ Line(p)' = Line(p + d)
    BY DEF Kept
  <2>2. Line(p + d).for = NoCall
    BY <2>1
  <2>3. active # NoCommand => Owner # NoCall
    BY SMTT(20) DEF Owner, NoCall, TypeOK, CommandElements
  <2> QED BY <2>1, <2>2, <2>3 DEF LinesAreOwned
<1>2. LinesAreOwned'
  BY <1>1 DEF LinesAreOwned
<1>3. FinalIsLast'
  <2>1. FinalReplies \cap (BootMessages \cup {"HTTPResponseReady"}) = {}
    BY DEF FinalReplies, BootMessages, ResetOrder
  <2> QED BY <1>1, <2>1 DEF FinalIsLast
<1>4. BufferIsOwned'
  BY DEF BufferIsOwned
<1>5. OneOutstanding'
  <2>1. e # NoCommand
    BY DEF CommandElements, NoCommand
  <2>2. Len(inbox') = 1 /\ Head(inbox') = Outstanding(e)
    OBVIOUS
  <2> QED BY <2>1, <2>2 DEF OneOutstanding, Outstanding
<1> QED BY <1>2, <1>3, <1>4, <1>5

\* While no command is active, every line under way is unasked for and the
\* modem holds no command.
LEMMA NoneActive ==
    ASSUME TypeOK, LinesAreOwned, BufferIsOwned, OneOutstanding,
           active = NoCommand
    PROVE  /\ inbox = <<>> /\ buffer = <<>>
           /\ \A p \in 0..Len(queue) : Under(p) => Line(p).for = NoCall
<1>1. inbox = <<>>
  BY DEF OneOutstanding
<1>2. buffer = <<>>
  <2>1. ~\E i \in 1..Len(buffer) : TRUE
    BY DEF BufferIsOwned
  <2>2. buffer \in Seq(Lines) /\ Len(buffer) \in Nat
    BY DEF TypeOK
  <2> QED BY <2>1, <2>2, EmptySeq
<1>3. \A p \in 0..Len(queue) : Under(p) => Line(p).for = NoCall
  BY DEF LinesAreOwned
<1> QED BY <1>1, <1>2, <1>3

\* An element leaves the queue.
LEMMA KeptByReceive ==
    ASSUME TypeOK, at = "receive", queue # <<>>, queue' = Tail(queue),
           \/ Head(queue).type = "command" /\ at' = at
           \/ Head(queue).type = "data" /\ reply' = Head(queue).line
    PROVE  Kept(1)
<1>1. queue \in Seq(CommandElements \cup DataElements)
  BY DEF TypeOK
<1>2. /\ Head(queue) = queue[1] /\ Len(queue) \in Nat /\ 1 \in 1..Len(queue)
      /\ Len(queue') = Len(queue) - 1
      /\ \A i \in 1..Len(queue') : /\ queue'[i] = queue[i + 1]
                                   /\ i + 1 \in 1..Len(queue)
                                   /\ i + 1 # 1
  BY <1>1, TailFacts
<1>3. \A p \in 0..Len(queue') : p = 0 \/ p \in 1..Len(queue')
  BY <1>2
<1>4. ASSUME NEW p \in 1..Len(queue'), Under(p)'
      PROVE  /\ p + 1 \in 0..Len(queue)
             /\ Under(p + 1)
             /\ Line(p)' = Line(p + 1)
  <2>1. p # 0 /\ p + 1 # 0 /\ queue'[p] = queue[p + 1]
        /\ p + 1 \in 0..Len(queue)
    BY <1>2
  <2> QED BY <1>4, <2>1 DEF Under, Line
<1>5. ASSUME Under(0)'
      PROVE  /\ 0 + 1 \in 0..Len(queue)
             /\ Under(0 + 1)
             /\ Line(0)' = Line(0 + 1)
  BY <1>2, <1>5 DEF Under, Line
<1> QED BY <1>3, <1>4, <1>5 DEF Kept

\* A sequence one longer: its elements, then the new one.
LEMMA AppendedFacts ==
    ASSUME NEW S, NEW s \in Seq(S), NEW e \in S
    PROVE  /\ Len(s) \in Nat /\ Append(s, e) # <<>>
           /\ Append(s, e) \in Seq(S)
           /\ DOMAIN Append(s, e) = 1..Len(Append(s, e))
           /\ Len(Append(s, e)) = Len(s) + 1
           /\ \A i \in 1..Len(s) : Append(s, e)[i] = s[i]
           /\ Append(s, e)[Len(s) + 1] = e
<1>1. Append(s, e) \in Seq(S) /\ Len(Append(s, e)) = Len(s) + 1
      /\ Len(s) \in Nat
  BY AppendProperties
<1>2. Append(s, e) # <<>>
  BY <1>1, EmptySeq
<1> QED BY <1>1, <1>2, AppendProperties

\* A command is received: it waits behind the active one, or goes out.
LEMMA AnswerReceiveCommand ==
    ASSUME PipelineInv, TypeOK', AnswerInv, ReceiveCommand
    PROVE  AnswerInv'
<1> USE DEF AnswerInv, PipelineInv
<1>1. /\ at = "receive" /\ at' = at /\ queue # <<>> /\ queue' = Tail(queue)
      /\ Head(queue).type = "command"
      /\ UNCHANGED <<task, calls, sema, container, reply, buffer, flags,
                     inconsistent, boot>>
  BY DEF ReceiveCommand
<1>2. Kept(1)
  BY <1>1, KeptByReceive
<1>3. AnswersAreOwn'
  BY <1>1, AnswersKept
<1>4. BootLinesAreNew' /\ NeverInconsistent'
  BY <1>1, <1>2, BootKept DEF NeverInconsistent
<1>5. CASE active # NoCommand
  <2>1. UNCHANGED <<active, inbox>>
    BY <1>5 DEF ReceiveCommand, QueueAction
  <2>2. LinesAreOwned' /\ FinalIsLast'
    BY <1>2, <2>1, OwnedKept, FinalKept
  <2>3. BufferIsOwned' /\ OneOutstanding'
    BY <1>1, <2>1, HelperKept
  <2> QED BY <1>3, <1>4, <2>2, <2>3
<1>6. CASE active = NoCommand
  <2> DEFINE e == Head(queue)
  <2>1. e \in CommandElements
    BY <1>1, StageTypes, TailFacts DEF TypeOK
  <2>2. cmdq = <<>>
    BY <1>1, <1>6 DEF NeverIdle
  <2>3. /\ inbox = <<>> /\ buffer = <<>>
        /\ \A p \in 0..Len(queue) : Under(p) => Line(p).for = NoCall
    BY <1>6, NoneActive
  <2>4. /\ active' = e /\ inbox' = <<Outstanding(e)>> /\ buffer' = <<>>
    <3>1. /\ active' = e
          /\ inbox' = Append(<<>>, Outstanding(e))
      BY <1>6, <2>2, <2>3 DEF ReceiveCommand, QueueAction
    <3> QED BY <1>1, <2>3, <3>1
  <2>5. \A p \in 0..Len(queue') : Under(p)' => Line(p)'.for = NoCall
    BY <1>2, <2>3 DEF Kept
  <2>6. LinesAreOwned' /\ FinalIsLast' /\ BufferIsOwned' /\ OneOutstanding'
    <3> HIDE DEF e
    <3> QED BY <1>2, <2>1, <2>4, <2>5, NewlyActive
  <2> QED BY <1>3, <1>4, <2>6
<1> QED BY <1>5, <1>6

\* A line is taken in hand, and taken through the flags if it is a boot line,
\* which it finds clear.
LEMMA AnswerReceiveData ==
    ASSUME PipelineInv, TypeOK', AnswerInv,
           ReceiveData \/ TestBoot \/ MarkInconsistent \/ SetBoot
    PROVE  AnswerInv'
<1> USE DEF AnswerInv, PipelineInv
<1>1. /\ UNCHANGED <<task, calls, sema, container, active, inbox, buffer,
                     boot>>
      /\ at \notin {"mark", "flush"}
  BY DEF ReceiveData, TestBoot, MarkInconsistent, SetBoot, NeverInconsistent
<1>2. ~MarkInconsistent
  BY <1>1 DEF MarkInconsistent
<1>3. AnswersAreOwn'
  BY <1>1, AnswersKept
<1>4. BufferIsOwned' /\ OneOutstanding'
  BY <1>1, HelperKept
<1>5. CASE ReceiveData
  <2>1. /\ at = "receive" /\ queue # <<>> /\ queue' = Tail(queue)
        /\ Head(queue).type = "data" /\ reply' = Head(queue).line
        /\ UNCHANGED <<flags, inconsistent>>
        /\ at' \in {"test", "decide"}
    BY <1>5 DEF ReceiveData
  <2>2. Kept(1)
    BY <2>1, KeptByReceive
  <2>3. LinesAreOwned' /\ FinalIsLast'
    BY <1>1, <2>2, OwnedKept, FinalKept
  <2>4. BootLinesAreNew'
    BY <1>1, <2>1, <2>2, BootKept
  <2>5. NeverInconsistent'
    BY <2>1 DEF NeverInconsistent
  <2> QED BY <1>3, <1>4, <2>3, <2>4, <2>5
<1>6. CASE TestBoot
  <2>1. at = "test" /\ UNCHANGED <<queue, reply, flags, inconsistent>>
    BY <1>6 DEF TestBoot
  <2>2. reply.kind \notin flags
    <3>1. 0 \in 0..Len(queue) /\ Under(0) /\ Line(0) = reply
      BY <2>1 DEF Under, Line, TypeOK
    <3> QED BY <2>1, <3>1 DEF BootLinesAreNew, TypeOK
  <2>3. at' = "set"
    BY <1>6, <2>2 DEF TestBoot
  <2>4. Kept(0)
    BY <2>1, <2>3 DEF Kept, Under, Line, TypeOK
  <2>5. LinesAreOwned' /\ FinalIsLast'
    BY <1>1, <2>4, OwnedKept, FinalKept
  <2>6. BootLinesAreNew'
    BY <1>1, <2>1, <2>4, BootKept
  <2>7. NeverInconsistent'
    BY <2>1, <2>3 DEF NeverInconsistent
  <2> QED BY <1>3, <1>4, <2>5, <2>6, <2>7
<1>7. CASE SetBoot
  <2>1. /\ at = "set" /\ at' = "decide" /\ flags' = flags \cup {reply.kind}
        /\ UNCHANGED <<queue, reply, inconsistent>>
    BY <1>7 DEF SetBoot
  <2>2. Kept(0)
    BY <2>1 DEF Kept, Under, Line, TypeOK
  <2>3. LinesAreOwned' /\ FinalIsLast'
    BY <1>1, <2>2, OwnedKept, FinalKept
  <2>4. BootLinesAreNew'
    <3>1. /\ 0 \in 0..Len(queue) /\ Under(0) /\ Line(0) = reply
          /\ Line(0).kind \in BootMessages
      BY <2>1 DEF Under, Line, TypeOK
    <3>2. /\ reply.kind \in Printed
          /\ \A q \in 0..Len(queue) :
                Under(q) /\ Line(q).kind = reply.kind => q = 0
      BY <3>1 DEF BootLinesAreNew
    <3>3. Printed' = Printed
      BY <1>1 DEF Printed
    <3>4. flags' \subseteq Printed
      BY <2>1, <3>2 DEF BootLinesAreNew
    <3>5. \A p \in 0..Len(queue) : (Under(p)' <=> Under(p))
                                   /\ Line(p)' = Line(p)
      BY <2>1 DEF Under, Line
    <3>6. ASSUME NEW p \in 0..Len(queue), Under(p),
                 Line(p).kind \in BootMessages
          PROVE  /\ Line(p).kind \in Printed
                 /\ Line(p).kind \in flags' => p = 0 /\ at' = "decide"
                 /\ \A q \in 0..Len(queue) :
                       Under(q) /\ Line(q).kind = Line(p).kind => q = p
      <4>1. /\ Line(p).kind \in Printed
            /\ Line(p).kind \in flags => p = 0 /\ at = "decide"
            /\ \A q \in 0..Len(queue) :
                  Under(q) /\ Line(q).kind = Line(p).kind => q = p
        BY <3>6 DEF BootLinesAreNew
      <4>2. Line(p).kind = reply.kind => p = 0
        BY <3>2, <3>6
      <4> QED BY <2>1, <4>1, <4>2
    <3> QED BY <2>1, <3>3, <3>4, <3>5, <3>6 DEF BootLinesAreNew
  <2>5. NeverInconsistent'
    BY <2>1 DEF NeverInconsistent
  <2> QED BY <1>3, <1>4, <2>3, <2>4, <2>5
<1> QED BY <1>2, <1>5, <1>6, <1>7

\* A line has been decided upon: it is no longer under way.
LEMMA KeptByDecide ==
    ASSUME TypeOK, at' = "receive", UNCHANGED queue
    PROVE  Kept(0)
BY DEF Kept, Under, Line, TypeOK

\* An unasked line is dropped.
LEMMA AnswerIgnore ==
    ASSUME PipelineInv, TypeOK', AnswerInv, IgnoreUnsolicited
    PROVE  AnswerInv'
<1> USE DEF AnswerInv, PipelineInv
<1>1. /\ at' = "receive"
      /\ UNCHANGED <<task, calls, sema, container, queue, active, inbox,
                     buffer, boot, flags, inconsistent>>
  BY DEF IgnoreUnsolicited
<1>2. Kept(0)
  BY <1>1, KeptByDecide
<1>3. LinesAreOwned' /\ FinalIsLast'
  BY <1>1, <1>2, OwnedKept, FinalKept
<1>4. BootLinesAreNew' /\ NeverInconsistent'
  BY <1>1, <1>2, BootKept DEF NeverInconsistent
<1>5. BufferIsOwned' /\ OneOutstanding' /\ AnswersAreOwn'
  BY <1>1, HelperKept, AnswersKept
<1> QED BY <1>3, <1>4, <1>5

\* A solicited line that is not final is collected; the payload DOWNLOAD asks
\* for is that of the command the modem holds.
LEMMA AnswerBuffer ==
    ASSUME ReliableModem, PipelineInv, TypeOK', AnswerInv, BufferReply
    PROVE  AnswerInv'
<1> USE DEF AnswerInv, PipelineInv
<1>1. /\ at = "decide" /\ at' = "receive" /\ Solicited(reply.kind)
      /\ reply.kind \in FinalReplies => active = NoCommand
      /\ buffer' = Append(buffer, reply)
      /\ UNCHANGED <<task, calls, sema, container, queue, active, boot,
                     flags, inconsistent>>
  BY DEF BufferReply
<1>2. /\ active # NoCommand /\ reply.for = Owner
      /\ reply.kind \notin FinalReplies
  BY <1>1, ReplyFacts
<1>3. Kept(0)
  BY <1>1, KeptByDecide
<1>4. /\ Len(inbox') = Len(inbox)
      /\ inbox # <<>> => /\ inbox' # <<>>
                         /\ Head(inbox').for = Head(inbox).for
                         /\ Head(inbox').fed \in {Head(inbox).fed, Owner}
  <2>1. inbox \in Seq(ModemCommands)
    BY DEF TypeOK
  <2>2. CASE UNCHANGED inbox
    BY <2>1, <2>2
  <2>3. CASE inbox # <<>> /\ inbox' = [inbox EXCEPT ![1].fed = Owner]
    <3>1. 1 \in 1..Len(inbox) /\ inbox[1] \in ModemCommands
          /\ Head(inbox) = inbox[1] /\ Len(inbox) \in Nat
      BY <2>1, <2>3
    <3>2. inbox' = [inbox EXCEPT ![1] = [inbox[1] EXCEPT !.fed = Owner]]
      BY <2>3, <3>1
    <3>3. [inbox[1] EXCEPT !.fed = Owner].for = inbox[1].for
          /\ [inbox[1] EXCEPT !.fed = Owner].fed = Owner
      BY <3>1 DEF ModemCommands
    <3>4. DOMAIN inbox' = 1..Len(inbox)
          /\ inbox'[1] = [inbox[1] EXCEPT !.fed = Owner]
      BY <3>1, <3>2, <2>1
    <3>5. inbox' \in Seq(ModemCommands)
      BY DEF TypeOK
    <3>6. Len(inbox') = Len(inbox) /\ inbox' # <<>>
          /\ Head(inbox') = inbox'[1]
      BY <3>1, <3>4, <3>5
    <3> QED BY <3>1, <3>3, <3>4, <3>6
  <2> QED BY <2>2, <2>3 DEF BufferReply, Owner
<1>5. inbox = <<>> => inbox' = <<>>
  BY <1>4, EmptySeq DEF TypeOK
<1>6. LinesAreOwned' /\ FinalIsLast'
  BY <1>1, <1>3, <1>5, OwnedKept, FinalKept
<1>7. BootLinesAreNew' /\ NeverInconsistent'
  BY <1>1, <1>3, BootKept DEF NeverInconsistent
<1>8. BufferIsOwned'
  <2>1. /\ Len(buffer) \in Nat /\ Len(buffer') = Len(buffer) + 1
        /\ \A i \in 1..Len(buffer) : buffer'[i] = buffer[i]
        /\ buffer'[Len(buffer) + 1] = reply
    BY <1>1 DEF TypeOK
  <2> QED BY <1>1, <1>2, <2>1 DEF BufferIsOwned, Owner
<1>9. OneOutstanding'
  <2>1. inbox' # <<>> => inbox # <<>>
    BY <1>5
  <2>2. Owner' = Owner /\ active' = active
    BY <1>1 DEF Owner
  <2> QED BY <1>2, <1>4, <2>1, <2>2 DEF OneOutstanding, Owner
<1>10. AnswersAreOwn'
  BY <1>1, AnswersKept
<1> QED BY <1>6, <1>7, <1>8, <1>9, <1>10

\* The final line ends the command: its caller gets what has been collected
\* and the line, and the next command goes out.
LEMMA AnswerFinish ==
    ASSUME ReliableModem, PipelineInv, TypeOK', AnswerInv, FinishCommand
    PROVE  AnswerInv'
<1> USE DEF AnswerInv, PipelineInv
<1>1. /\ at = "decide" /\ at' = "receive" /\ reply.kind \in FinalReplies
      /\ active # NoCommand
      /\ Fulfill(active, Append(buffer, reply))
      /\ buffer' = <<>>
      /\ UNCHANGED <<task, command, calls, queue, boot, flags, inconsistent>>
  BY DEF FinishCommand
<1>2. /\ reply.for = Owner /\ inbox = <<>>
      /\ \A q \in 1..Len(queue) : queue[q].type = "data" =>
            queue[q].line.for = NoCall
  <2>1. Solicited(reply.kind)
    BY <1>1, KindFacts DEF Solicited
  <2> QED BY <1>1, <2>1, ReplyFacts
<1>3. Kept(0)
  BY <1>1, KeptByDecide
<1>4. BootLinesAreNew' /\ NeverInconsistent'
  BY <1>1, <1>3, BootKept DEF NeverInconsistent
<1>5. AnswersAreOwn'
  <2>1. /\ active \in CommandElements /\ active.who \in Callers
        /\ container[active.who] = <<>>
        /\ active.call = calls[active.who]
    BY <1>1, StageTypes DEF StagesLive, Live, CommandElement
  <2>2. /\ container'[active.who] = Append(buffer, reply)
        /\ \A c \in Callers : c # active.who =>
              sema'[c] = sema[c] /\ container'[c] = container[c]
    <3>1. container'[active.who] = <<>> \o Append(buffer, reply)
      BY <1>1, <2>1 DEF Fulfill, TypeOK
    <3>2. Append(buffer, reply) \in Seq(Lines)
      BY AppendProperties DEF TypeOK
    <3>3. <<>> \o Append(buffer, reply) = Append(buffer, reply)
      BY <3>2, ConcatEmptySeq
    <3> QED BY <1>1, <2>1, <3>1, <3>3 DEF Fulfill, TypeOK
  <2> DEFINE s == Append(buffer, reply)
  <2>3. /\ Len(buffer) \in Nat /\ s # <<>>
        /\ DOMAIN s = 1..Len(s) /\ Len(s) = Len(buffer) + 1
        /\ \A i \in 1..Len(buffer) : s[i] = buffer[i]
        /\ s[Len(buffer) + 1] = reply
    <3>1. buffer \in Seq(Lines) /\ reply \in Lines
      BY DEF TypeOK
    <3> QED BY <3>1, AppendedFacts
  <2> HIDE DEF s
  <2>4. \A i \in DOMAIN s :
           /\ s[i].for = Owner
           /\ s[i].kind \in FinalReplies <=> i = Len(s)
    BY <1>1, <1>2, <2>3 DEF BufferIsOwned
  <2>5. ASSUME NEW c \in Callers, task'[c] = "waiting", sema'[c]
        PROVE  /\ container'[c] # <<>>
               /\ \A i \in DOMAIN container'[c] :
                     /\ container'[c][i].for = <<c, calls'[c]>>
                     /\ container'[c][i].kind \in FinalReplies
                           <=> i = Len(container'[c])
    <3>1. CASE c = active.who
      <4>1. Owner = <<c, calls'[c]>>
        BY <1>1, <2>1, <3>1 DEF Owner
      <4>2. container'[c] = s
        BY <2>2, <3>1 DEF s
      <4> QED BY <2>3, <2>4, <4>1, <4>2
    <3>2. CASE c # active.who
      <4>1. /\ container'[c] = container[c] /\ calls'[c] = calls[c]
            /\ task[c] = "waiting" /\ sema[c]
        BY <1>1, <2>2, <2>5, <3>2
      <4> QED BY <4>1 DEF AnswersAreOwn
    <3> QED BY <3>1, <3>2
  <2> QED BY <2>5 DEF AnswersAreOwn
<1>6. \A p \in 0..Len(queue') : Under(p)' => Line(p)'.for = NoCall
  <2>1. \A p \in 0..Len(queue) : p = 0 \/ p \in 1..Len(queue)
    BY DEF TypeOK
  <2> QED BY <1>1, <1>2, <2>1 DEF Under, Line
<1>7. CASE cmdq # <<>>
  <2> DEFINE e == Head(cmdq)
  <2>1. e \in CommandElements
    BY <1>7 DEF TypeOK
  <2>2. active' = e /\ inbox' = <<Outstanding(e)>>
    <3>1. active' = e /\ inbox' = Append(<<>>, Outstanding(e))
      BY <1>2, <1>7 DEF FinishCommand, QueueAction
    <3> QED BY <3>1
  <2>3. LinesAreOwned' /\ FinalIsLast' /\ BufferIsOwned' /\ OneOutstanding'
    <3> HIDE DEF e
    <3> QED BY <1>1, <1>3, <1>6, <2>1, <2>2, NewlyActive
  <2> QED BY <1>4, <1>5, <2>3
<1>8. CASE cmdq = <<>>
  <2>1. active' = NoCommand /\ inbox' = <<>>
    BY <1>2, <1>8 DEF FinishCommand, QueueAction
  <2>2. LinesAreOwned'
    <3> SUFFICES ASSUME NEW p \in 0..Len(queue'), Under(p)'
                 PROVE  /\ Line(p)'.for = NoCall
                        /\ Line(p)'.kind
                              \in BootMessages \cup {"HTTPResponseReady"}
      BY DEF LinesAreOwned
    <3>1. /\ p \in 0..Len(queue) /\ Under(p) /\ Line(p)' = Line(p)
          /\ Line(p).for = NoCall
      <4>1. p + 0 = p
        BY DEF TypeOK
      <4> QED BY <1>3, <1>6, <4>1 DEF Kept
    <3>2. Owner # NoCall
      BY <1>1 DEF Owner, NoCall, TypeOK, CommandElements
    <3> QED BY <3>1, <3>2 DEF LinesAreOwned
  <2>3. FinalIsLast'
    BY <1>2, <1>3, <2>1, FinalKept
  <2>4. BufferIsOwned' /\ OneOutstanding'
    BY <1>1, <2>1 DEF BufferIsOwned, OneOutstanding
  <2> QED BY <1>4, <1>5, <2>2, <2>3, <2>4
<1> QED BY <1>7, <1>8

\* A line the modem prints, or loses, leaves those under way as they are.
LEMMA KeptBySay ==
    ASSUME TypeOK, NEW kind \in ReplyTypes, NEW for \in Calls \cup {NoCall},
           Say(kind, for), UNCHANGED <<at, reply>>
    PROVE  /\ Len(queue) \in Nat /\ Len(queue') \in Nat
           /\ \A p \in 0..Len(queue') : Under(p)' =>
                 \/ p \in 0..Len(queue) /\ Under(p) /\ Line(p)' = Line(p)
                 \/ /\ p = Len(queue) + 1
                    /\ Line(p)'.kind = kind /\ Line(p)'.for = for
<1> DEFINE e == DataElement([kind |-> kind, for |-> for])
<1>0. /\ queue \in Seq(CommandElements \cup DataElements)
      /\ Len(queue) \in Nat
  BY DEF TypeOK
<1>1. CASE UNCHANGED queue
  BY <1>0, <1>1 DEF Under, Line
<1>2. CASE queue' = Append(queue, e)
  <2>1. /\ e \in CommandElements \cup DataElements
        /\ e.type = "data" /\ e.line.kind = kind /\ e.line.for = for
    BY DEF DataElement, DataElements, Lines
  <2> HIDE DEF e
  <2>2. /\ Len(queue') = Len(queue) + 1
        /\ \A i \in 1..Len(queue) : queue'[i] = queue[i]
        /\ queue'[Len(queue) + 1] = e
    BY <1>0, <1>2, <2>1, AppendedFacts
  <2>3. PICK n \in Nat : n = Len(queue)
    BY <1>0
  <2>4. Len(queue') = n + 1
    BY <2>2, <2>3
  <2>5. \A p \in 0..(n + 1) : p = 0 \/ p \in 1..n \/ (p = n + 1 /\ p # 0)
    OBVIOUS
  <2> QED BY <1>0, <2>1, <2>2, <2>3, <2>4, <2>5 DEF Under, Line
<1> QED BY <1>1, <1>2 DEF Say

\* The modem prints a line of the command it holds, or an unasked one: either
\* comes behind all the lines under way.
LEMMA AnswerSay ==
    ASSUME ReliableModem, PipelineInv, TypeOK', AnswerInv,
           NEW kind \in ReplyTypes, NEW for \in Calls \cup {NoCall},
           Say(kind, for),
           UNCHANGED <<task, calls, sema, container, at, reply, active, buffer,
                       flags, inconsistent>>,
           boot' \in {boot, boot + 1},
           \/ /\ inbox # <<>> /\ for = Head(inbox).for
              /\ kind \notin BootMessages /\ boot' = boot
              /\ kind \in FinalReplies => inbox' = <<>>
           \/ /\ for = NoCall /\ UNCHANGED inbox
              /\ \/ kind = "HTTPResponseReady" /\ boot' = boot
                 \/ /\ boot < Len(BootOrder)
                    /\ boot' = boot + 1 /\ kind = BootOrder[boot + 1]
    PROVE  /\ LinesAreOwned' /\ FinalIsLast' /\ BufferIsOwned'
           /\ BootLinesAreNew' /\ NeverInconsistent' /\ AnswersAreOwn'
<1> USE DEF AnswerInv, PipelineInv
<1>1. /\ Len(queue) \in Nat /\ Len(queue') \in Nat
      /\ \A p \in 0..Len(queue') : Under(p)' =>
            \/ p \in 0..Len(queue) /\ Under(p) /\ Line(p)' = Line(p)
            \/ /\ p = Len(queue) + 1
               /\ Line(p)'.kind = kind /\ Line(p)'.for = for
  BY KeptBySay
<1>2. /\ \A i \in 1..Len(BootOrder) : BootOrder[i] \in BootMessages
      /\ Len(BootOrder) \in Nat /\ boot \in 0..Len(BootOrder)
  <2>1. BootOrder \in Seq(BootMessages)
    OBVIOUS
  <2> QED BY <2>1 DEF TypeOK
<1>3. FinalReplies \cap (BootMessages \cup {"HTTPResponseReady"}) = {}
  BY KindFacts
<1>4. Owner' = Owner
  BY DEF Owner
<1>5. inbox # <<>> => active # NoCommand /\ Head(inbox).for = Owner
  BY DEF OneOutstanding, Owner
<1>6. LinesAreOwned'
  <2> SUFFICES ASSUME NEW p \in 0..Len(queue'), Under(p)'
               PROVE  \/ /\ Line(p)'.for = NoCall
                         /\ Line(p)'.kind
                               \in BootMessages \cup {"HTTPResponseReady"}
                      \/ /\ active # NoCommand
                         /\ Line(p)'.for = Owner
                         /\ Line(p)'.kind \notin BootMessages
    BY <1>4 DEF LinesAreOwned
  <2>1. CASE p \in 0..Len(queue) /\ Under(p) /\ Line(p)' = Line(p)
    BY <2>1 DEF LinesAreOwned
  <2>2. CASE Line(p)'.kind = kind /\ Line(p)'.for = for
    <3>1. \/ kind \notin BootMessages /\ for = Head(inbox).for /\ inbox # <<>>
          \/ for = NoCall /\ kind = "HTTPResponseReady"
          \/ for = NoCall /\ kind \in BootMessages
      BY <1>2
    <3> QED BY <1>5, <2>2, <3>1
  <2> QED BY <1>1, <2>1, <2>2
<1>7. FinalIsLast'
  <2> SUFFICES ASSUME NEW p \in 0..Len(queue'), Under(p)',
                      Line(p)'.kind \in FinalReplies
               PROVE  /\ inbox' = <<>>
                      /\ \A q \in 0..Len(queue') :
                            p < q /\ Under(q)' => Line(q)'.for = NoCall
    BY DEF FinalIsLast
  <2>1. CASE p \in 0..Len(queue) /\ Under(p) /\ Line(p)' = Line(p)
    <3>1. inbox = <<>> /\ \A q \in 0..Len(queue) :
             p < q /\ Under(q) => Line(q).for = NoCall
      BY <2>1 DEF FinalIsLast
    <3>2. for = NoCall /\ inbox' = <<>>
      BY <3>1
    <3>3. ASSUME NEW q \in 0..Len(queue'), p < q, Under(q)'
          PROVE  Line(q)'.for = NoCall
      BY <1>1, <3>1, <3>2, <3>3
    <3> QED BY <3>2, <3>3
  <2>2. CASE p = Len(queue) + 1 /\ Line(p)'.kind = kind
    <3>1. \A q \in 0..Len(queue') : Under(q)' => ~(p < q)
      BY <1>1, <2>2
    <3>2. kind \in FinalReplies
      BY <2>2
    <3>3. inbox' = <<>>
      BY <1>2, <1>3, <3>2
    <3> QED BY <3>1, <3>3
  <2> QED BY <1>1, <2>1, <2>2
<1>8. BufferIsOwned'
  BY <1>4 DEF BufferIsOwned
<1>9. BootLinesAreNew'
  <2>1. Printed \subseteq Printed'
    BY <1>2 DEF Printed
  <2>2. kind \in BootMessages => kind \in Printed' /\ kind \notin Printed
    <3>1. "HTTPResponseReady" \notin BootMessages
      BY DEF BootMessages, ResetOrder
    <3>2. kind \in BootMessages => /\ boot < Len(BootOrder)
                                   /\ boot' = boot + 1
                                   /\ kind = BootOrder[boot + 1]
      BY <3>1
    <3> QED BY <1>2, <3>2 DEF Printed, ReliableModem
  <2>3. ASSUME NEW p \in 0..Len(queue'), Under(p)',
               Line(p)'.kind \in BootMessages
        PROVE  /\ Line(p)'.kind \in Printed'
               /\ Line(p)'.kind \in flags => p = 0 /\ at = "decide"
               /\ \A q \in 0..Len(queue') :
                     Under(q)' /\ Line(q)'.kind = Line(p)'.kind => q = p
    <3>1. CASE p \in 0..Len(queue) /\ Under(p) /\ Line(p)' = Line(p)
      <4>1. /\ Line(p).kind \in Printed
            /\ Line(p).kind \in flags => p = 0 /\ at = "decide"
            /\ \A q \in 0..Len(queue) :
                  Under(q) /\ Line(q).kind = Line(p).kind => q = p
        BY <2>3, <3>1 DEF BootLinesAreNew
      <4>2. Line(p)'.kind # kind
        BY <2>2, <2>3, <3>1, <4>1
      <4>3. \A q \in 0..Len(queue') :
               Under(q)' /\ Line(q)'.kind = Line(p)'.kind => q = p
        BY <1>1, <3>1, <4>1, <4>2
      <4> QED BY <2>1, <3>1, <4>1, <4>3
    <3>2. CASE p = Len(queue) + 1 /\ Line(p)'.kind = kind
      <4>1. kind \in Printed' /\ kind \notin Printed
        BY <2>2, <2>3, <3>2
      <4>2. \A q \in 0..Len(queue) :
               Under(q) /\ Line(q).kind \in BootMessages
                  => Line(q).kind # kind
        BY <4>1 DEF BootLinesAreNew
      <4>3. kind \notin flags
        BY <4>1 DEF BootLinesAreNew
      <4>4. kind \in BootMessages
        BY <2>3, <3>2
      <4>5. \A q \in 0..Len(queue') :
               Under(q)' /\ Line(q)'.kind = Line(p)'.kind => q = p
        BY <1>1, <3>2, <4>2, <4>4
      <4> QED BY <3>2, <4>1, <4>3, <4>5
    <3> QED BY <1>1, <2>3, <3>1, <3>2
  <2>4. flags \subseteq Printed'
    BY <2>1 DEF BootLinesAreNew
  <2> QED BY <2>3, <2>4 DEF BootLinesAreNew
<1>10. NeverInconsistent' /\ AnswersAreOwn'
  BY AnswersKept DEF NeverInconsistent
<1> QED BY <1>6, <1>7, <1>8, <1>9, <1>10

\* The modem: it answers the one command it holds, boots, or loses commands.
LEMMA AnswerModem ==
    ASSUME ReliableModem, PipelineInv, TypeOK', AnswerInv, ModemNext
    PROVE  AnswerInv'
<1> USE DEF AnswerInv, PipelineInv
<1>0. /\ UNCHANGED <<task, calls, sema, container, at, reply, active, buffer,
                     flags, inconsistent>>
      /\ inbox \in Seq(ModemCommands) /\ Len(inbox) \in Nat
      /\ boot \in 0..Len(BootOrder)
  BY DEF ModemNext, ModemAnswers, ModemInfo, ModemFinish, ModemBoots,
         ModemResets, ModemIgnores, ModemStrays, ModemSignalsHttp, TypeOK
<1>1. inbox # <<>> => /\ Len(inbox) = 1 /\ Head(inbox) \in ModemCommands
                      /\ Head(inbox).for \in Calls
                      /\ Head(inbox).command # "CFUN"
                      /\ Tail(inbox) = <<>>
  <2> SUFFICES ASSUME inbox # <<>>
               PROVE  /\ Len(inbox) = 1 /\ Head(inbox) \in ModemCommands
                      /\ Head(inbox).for \in Calls
                      /\ Head(inbox).command # "CFUN"
                      /\ Tail(inbox) = <<>>
    OBVIOUS
  <2>1. Len(inbox) = 1
    BY DEF OneOutstanding
  <2>2. Head(inbox) \in ModemCommands
    BY <1>0
  <2>3. Tail(inbox) = <<>>
    <3>1. Tail(inbox) \in Seq(ModemCommands) /\ Len(Tail(inbox)) = 0
      BY <1>0, <2>1
    <3> QED BY <3>1, EmptySeq
  <2> QED BY <2>1, <2>2, <2>3 DEF ModemCommands, ReliableModem
<1>2. budget.resets = 0 /\ budget.strays = 0
  BY DEF TypeOK, Budgets, ReliableModem
<1>3. CASE ModemInfo
  <2>1. PICK kind \in ReplyTypes \ BootMessages :
           /\ SolicitType[kind] = Head(inbox).command
           /\ Say(kind, Head(inbox).for)
    BY <1>3 DEF ModemInfo
  <2>2. /\ inbox # <<>> /\ inbox' = [inbox EXCEPT ![1].told = TRUE]
        /\ boot' = boot
    BY <1>3 DEF ModemInfo
  <2>3. kind \notin FinalReplies
    <3>1. "always" \notin CommandTypes
      BY DEF CommandTypes
    <3>2. Head(inbox).command \in CommandTypes
      BY <1>1, <2>2 DEF ModemCommands
    <3> QED BY <2>1, <3>1, <3>2, KindFacts
  <2>4. /\ LinesAreOwned' /\ FinalIsLast' /\ BufferIsOwned'
        /\ BootLinesAreNew' /\ NeverInconsistent' /\ AnswersAreOwn'
    BY <1>0, <1>1, <2>1, <2>2, <2>3, AnswerSay
  <2>5. OneOutstanding'
    <3>1. /\ inbox[1] = Head(inbox) /\ 1 \in 1..Len(inbox)
          /\ inbox' = [inbox EXCEPT ![1] = [inbox[1] EXCEPT !.told = TRUE]]
      BY <1>0, <1>1, <2>2
    <3>2. /\ [inbox[1] EXCEPT !.told = TRUE].for = inbox[1].for
          /\ [inbox[1] EXCEPT !.told = TRUE].fed = inbox[1].fed
      BY <1>1, <2>2, <3>1 DEF ModemCommands
    <3>3. /\ inbox' \in Seq(ModemCommands) /\ DOMAIN inbox' = 1..Len(inbox)
          /\ inbox'[1] = [inbox[1] EXCEPT !.told = TRUE]
      <4>1. inbox' \in Seq(ModemCommands)
        BY DEF TypeOK
      <4>2. DOMAIN inbox = 1..Len(inbox)
        BY <1>0
      <4> QED BY <3>1, <4>1, <4>2
    <3>4. Len(inbox') = Len(inbox) /\ Head(inbox') = inbox'[1]
      BY <1>0, <1>1, <2>2, <3>3
    <3> QED BY <1>0, <2>2, <3>1, <3>2, <3>3, <3>4 DEF OneOutstanding
  <2> QED BY <2>4, <2>5
<1>4. CASE ModemFinish
  <2>1. PICK kind \in FinalReplies : Say(kind, Head(inbox).for)
    BY <1>4 DEF ModemFinish
  <2>2. inbox # <<>> /\ inbox' = <<>> /\ boot' = boot
    BY <1>1, <1>4 DEF ModemFinish
  <2>3. kind \notin BootMessages /\ kind \in ReplyTypes
    BY KindFacts, ReplyTypesFacts
  <2>4. /\ LinesAreOwned' /\ FinalIsLast' /\ BufferIsOwned'
        /\ BootLinesAreNew' /\ NeverInconsistent' /\ AnswersAreOwn'
    BY <1>0, <1>1, <2>1, <2>2, <2>3, AnswerSay
  <2> QED BY <2>2, <2>4 DEF OneOutstanding
<1>5. CASE ModemBoots
  <2>1. /\ boot < Len(BootOrder) /\ Say(BootOrder[boot + 1], NoCall)
        /\ boot' = boot + 1 /\ UNCHANGED inbox
    BY <1>5 DEF ModemBoots
  <2>2. BootOrder[boot + 1] \in ReplyTypes
    <3>1. BootOrder \in Seq(BootMessages)
      OBVIOUS
    <3> QED BY <1>0, <2>1, <3>1, ReplyTypesFacts
  <2>3. /\ LinesAreOwned' /\ FinalIsLast' /\ BufferIsOwned'
        /\ BootLinesAreNew' /\ NeverInconsistent' /\ AnswersAreOwn'
    BY <1>0, <2>1, <2>2, AnswerSay
  <2>4. OneOutstanding'
    BY <1>0, <2>1 DEF OneOutstanding
  <2> QED BY <2>3, <2>4
<1>6. CASE ModemSignalsHttp
  <2>1. Say("HTTPResponseReady", NoCall) /\ UNCHANGED <<inbox, boot>>
    BY <1>6 DEF ModemSignalsHttp
  <2>2. /\ LinesAreOwned' /\ FinalIsLast' /\ BufferIsOwned'
        /\ BootLinesAreNew' /\ NeverInconsistent' /\ AnswersAreOwn'
    BY <1>0, <2>1, ReplyTypesFacts, AnswerSay
  <2>3. OneOutstanding'
    BY <1>0, <2>1 DEF OneOutstanding
  <2> QED BY <2>2, <2>3
<1>7. CASE ModemIgnores
  <2>1. inbox' = <<>> /\ UNCHANGED <<queue, boot>>
    BY <1>1, <1>7 DEF ModemIgnores
  <2>2. Kept(0)
    BY <1>0, <2>1 DEF Kept, Under, Line, TypeOK
  <2>3. LinesAreOwned' /\ FinalIsLast'
    BY <1>0, <2>1, <2>2, OwnedKept, FinalKept
  <2>4. BootLinesAreNew' /\ NeverInconsistent' /\ AnswersAreOwn'
    BY <1>0, <2>1, <2>2, BootKept, AnswersKept DEF NeverInconsistent
  <2>5. BufferIsOwned' /\ OneOutstanding'
    BY <1>0, <2>1 DEF BufferIsOwned, OneOutstanding, Owner
  <2> QED BY <2>3, <2>4, <2>5
<1>8. ~ModemResets /\ ~ModemStrays
  BY <1>2 DEF ModemResets, ModemStrays
<1> QED BY <1>3, <1>4, <1>5, <1>6, <1>7, <1>8 DEF ModemNext, ModemAnswers

-----------------------------------------------------------------------------
(* The theorems.                                                           *)

\* Every step keeps the lines of the active command in order.
LEMMA AnswerStep ==
    ReliableModem /\ PipelineInv /\ AnswerInv /\ [Next]_vars => AnswerInv'
<1> SUFFICES ASSUME ReliableModem, PipelineInv, AnswerInv, [Next]_vars
             PROVE  AnswerInv'
  OBVIOUS
<1>0. TypeOK'
  BY TypeStep DEF PipelineInv
<1>1. CASE \E c \in Callers : CallerNext(c)
  BY <1>0, <1>1, AnswerCallers
<1>2. CASE CoordinatorNext
  <2>1. at # "flush" /\ ~inconsistent
    BY DEF AnswerInv, NeverInconsistent
  <2>2. ~FlushActive /\ ~FlushQueued /\ ~CoordinatorResets
    BY <2>1 DEF FlushActive, FlushQueued, CoordinatorResets
  <2> QED BY <1>0, <1>2, <2>2, AnswerReceiveCommand, AnswerReceiveData,
             AnswerIgnore, AnswerBuffer, AnswerFinish DEF CoordinatorNext
<1>3. CASE ModemNext
  BY <1>0, <1>3, AnswerModem
<1>4. CASE UNCHANGED vars
  BY <1>4 DEF vars, AnswerInv, LinesAreOwned, FinalIsLast, BufferIsOwned,
              BootLinesAreNew, NeverInconsistent, OneOutstanding,
              AnswersAreOwn, Under, Line, Owner, Printed
<1> QED BY <1>1, <1>2, <1>3, <1>4 DEF Next

\* The lines of the active command stay in order throughout.
LEMMA AnswerInvariant ==
    ASSUME ReliableModem
    PROVE  Spec => []AnswerInv
<1>1. PipelineInv /\ AnswerInv /\ [Next]_vars => AnswerInv'
  BY AnswerStep
<1> QED BY <1>1, AnswerInit, PipelineInvariant, PTL DEF Spec

\* What send_command_async returns is the answer to that very call, whole and
\* ended by its one final line, however callers, the coordinator and the modem
\* interleave and whatever the serial line loses.
THEOREM AnswersBelongToTheirCalls ==
    ASSUME ReliableModem
    PROVE  Spec => []AnswersAreOwn
<1>1. AnswerInv => AnswersAreOwn
  BY DEF AnswerInv
<1> QED BY <1>1, AnswerInvariant, PTL

\* The modem is never sent a command before the one it holds is answered or
\* lost, and the payload it is sent is that command's.
THEOREM OneCommandAtATime ==
    ASSUME ReliableModem
    PROVE  Spec => []OneOutstanding
<1>1. AnswerInv => OneOutstanding
  BY DEF AnswerInv
<1> QED BY <1>1, AnswerInvariant, PTL
=============================================================================
