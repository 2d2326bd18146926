--------------------------- MODULE SessionProofs ---------------------------
(***************************************************************************)
(* Theorems about Session, and with it about PacketForger: for every       *)
(* QueueSize, BatchSize, MaxPackets, FailLimit and MaxFaults.              *)
(***************************************************************************)
EXTENDS Session, SequenceTheorems, TLAPS

-----------------------------------------------------------------------------
(* The routines: where the main task can be.                               *)

Places == {p \in [in : DOMAIN Steps, at : Nat] : p.at \in DOMAIN Steps[p.in]}

Is(p, routine, at) == p.in = routine /\ p.at = at

LEMMA PlacesAre ==
    ASSUME NEW p \in Places
    PROVE  /\ p = [in |-> p.in, at |-> p.at]
           /\ \/ p.in = "device" /\ p.at \in 1..8
              \/ p.in = "get" /\ p.at \in 1..7
              \/ p.in = "post" /\ p.at \in 1..8
              \/ p.in = "sequencer" /\ p.at \in 1..3
              \/ p.in = "setup" /\ p.at \in 1..2
              \/ p.in = "loop" /\ p.at \in 1..6
              \/ p.in = "failed" /\ p.at = 1
BY DEF Places, Steps

\* Every routine begins at its first step, and goes on to the next.
LEMMA EntriesArePlaces ==
    \A routine \in DOMAIN Steps : [in |-> routine, at |-> 1] \in Places
BY DEF Places, Steps

LEMMA StepsAre ==
    ASSUME NEW p \in Places
    PROVE  LET Step(s) == Steps[p.in][p.at] = s
           IN  /\ Step("cfun") <=> Is(p, "device", 1)
               /\ Step("reset") <=> Is(p, "device", 2)
               /\ Step("boot") <=> Is(p, "device", 3)
               /\ Step("open") <=> Is(p, "device", 4)
               /\ Step("queryBearer") <=> Is(p, "device", 5)
               /\ Step("attach") <=> Is(p, "device", 6)
               /\ Step("queryGPRS") <=> Is(p, "device", 7)
               /\ Step("queryTime") <=> Is(p, "device", 8)
               /\ Step("init") <=> \/ Is(p, "get", 1) \/ Is(p, "post", 1)
                                   \/ Is(p, "setup", 1)
               /\ Step("parameters") <=> \/ Is(p, "get", 2)
                                         \/ Is(p, "post", 2)
                                         \/ Is(p, "setup", 2)
               /\ Step("data") <=> Is(p, "post", 3) \/ Is(p, "loop", 2)
               /\ Step("action") <=> \/ Is(p, "get", 3) \/ Is(p, "post", 4)
                                     \/ Is(p, "loop", 3)
               /\ Step("wait") <=> \/ Is(p, "get", 4) \/ Is(p, "post", 5)
                                   \/ Is(p, "loop", 4)
               /\ Step("clear") <=> \/ Is(p, "get", 5) \/ Is(p, "post", 6)
                                    \/ Is(p, "loop", 5)
               /\ Step("read") <=> \/ Is(p, "get", 6) \/ Is(p, "post", 7)
                                   \/ Is(p, "loop", 6)
               /\ Step("term") <=> Is(p, "get", 7) \/ Is(p, "post", 8)
               /\ Step("ready") <=> Is(p, "sequencer", 1)
               /\ Step("seq") <=> Is(p, "sequencer", 2)
               /\ Step("rng") <=> Is(p, "sequencer", 3)
               /\ Step("pop") <=> Is(p, "loop", 1)
               /\ Step("retry") <=> Is(p, "failed", 1)
BY PlacesAre DEF Steps, Is

\* The steps a routine goes on from.
LEMMA MiddlesGoOn ==
    ASSUME NEW p \in Places,
           Steps[p.in][p.at] \notin {"queryTime", "term", "rng", "retry"},
           ~Is(p, "setup", 2), ~Is(p, "loop", 6)
    PROVE  [p EXCEPT !.at = @ + 1] \in Places
BY PlacesAre DEF Places, Steps, Is

-----------------------------------------------------------------------------
(* Type correctness.  Numbers stay below the bound because a packet is     *)
(* numbered only while the bound is not reached, and the sequence never    *)
(* runs ahead of the packets made.                                         *)

Counting ==
    /\ forging # "test" => made < MaxPackets
    /\ draft.seq <= made
    /\ forging \in {"test", "load", "store"} => seq <= made
    /\ forging \in {"loadRng", "storeRng", "queue"} => seq <= made + 1

\* The main task's variables, and the modem's.
TaskTypes == [established : BOOLEAN, good : BOOLEAN,
              failures : 0..(FailLimit + 1), batch : Seq(Packet),
              taken : Responses]
ModemTypes == [up : BOOLEAN, bearer : BOOLEAN, http : BOOLEAN,
               request : BOOLEAN]

TypeInv ==
    /\ ForgerTypeOK /\ Counting
    /\ pc \in Places
    /\ task \in TaskTypes /\ Len(task.batch) <= BatchSize
    /\ response \in Responses
    /\ flags \in BOOLEAN /\ mark \in BOOLEAN
    /\ modem \in ModemTypes
    /\ faults \in 0..MaxFaults
    /\ posted \in Seq(Packet) /\ late \in BOOLEAN

LEMMA TypeInvIsTypeCorrectness == TypeInv => TypeOK
BY DEF TypeInv, TypeOK, TaskTypes, ModemTypes, Places

LEMMA InitTypeInv == Init => TypeInv
<1> SUFFICES ASSUME Init PROVE TypeInv
  OBVIOUS
<1>1. pc \in Places
  BY EntriesArePlaces, PlacesAre DEF Init, Steps
<1>2. <<>> \in Seq(Packet) /\ Len(<<>>) = 0
  BY EmptySeq
<1>3. [seq |-> 0, rng |-> "default"] \in Packet
  BY ForgerAssumption DEF Packet, Vectors
<1>4. ForgerTypeOK /\ Counting
  <2>1. /\ ready \in BOOLEAN /\ raced \in BOOLEAN /\ rng \in Vectors
        /\ forging \in {"test", "load", "store", "loadRng", "storeRng",
                        "queue"}
    BY Zenon DEF Init, ForgerInit, Vectors
  <2>2. seq \in 0..MaxPackets /\ made \in 0..MaxPackets
    BY ForgerAssumption DEF Init, ForgerInit
  <2>3. draft \in Packet
    BY <1>3 DEF Init, ForgerInit
  <2>4. packets \in Seq(Packet) /\ Len(packets) <= QueueSize
    BY <1>2, ForgerAssumption DEF Init, ForgerInit
  <2>5. Counting
    BY ForgerAssumption DEF Init, ForgerInit, Counting
  <2> QED BY <2>1, <2>2, <2>3, <2>4, <2>5 DEF ForgerTypeOK
<1>5. task \in TaskTypes /\ task.batch = <<>>
  BY <1>2, SessionAssumption DEF Init, TaskTypes, Responses
<1>6. modem \in ModemTypes
  BY DEF Init, ModemOff, ModemTypes
<1>7. posted \in Seq(Packet) /\ Len(task.batch) <= BatchSize
  BY <1>2, <1>5, ForgerAssumption DEF Init
<1>8. flags \in BOOLEAN /\ mark \in BOOLEAN /\ late \in BOOLEAN
  BY Zenon DEF Init
<1>9. response \in Responses /\ faults \in 0..MaxFaults
  BY SessionAssumption DEF Init, Responses
<1> QED BY <1>1, <1>4, <1>5, <1>6, <1>7, <1>8, <1>9 DEF TypeInv

\* A step of the forger keeps the types of its own variables.
LEMMA ForgeKeepsTypes ==
    ASSUME ForgerTypeOK, Counting, NEW resetting \in BOOLEAN,
           Forge(resetting)
    PROVE  ForgerTypeOK' /\ Counting'
<1> USE ForgerAssumption DEF ForgerTypeOK, Counting, Packet
<1>1. CASE TestReady(resetting)
  BY <1>1 DEF TestReady
<1>2. CASE LoadSeq
  BY <1>2 DEF LoadSeq
<1>3. CASE StoreSeq
  BY <1>3 DEF StoreSeq
<1>4. CASE LoadRng
  BY <1>4 DEF LoadRng
<1>5. CASE StoreRng
  BY <1>5 DEF StoreRng
<1>6. CASE QueuePacket
  <2>1. /\ Append(packets, draft) \in Seq(Packet)
        /\ Len(Append(packets, draft)) = Len(packets) + 1
        /\ Len(packets) \in Nat
    BY AppendProperties, LenProperties
  <2>2. packets' \in Seq(Packet) /\ Len(packets') <= QueueSize
    <3>1. CASE Len(packets) < QueueSize
      <4>1. packets' = Append(packets, draft)
        BY <1>6, <3>1 DEF QueuePacket
      <4> QED BY <2>1, <3>1, <4>1
    <3>2. CASE ~(Len(packets) < QueueSize)
      BY <1>6, <3>2 DEF QueuePacket
    <3> QED BY <3>1, <3>2
  <2>3. /\ UNCHANGED <<ready, seq, rng, draft, raced>>
        /\ forging = "queue" /\ made' = made + 1 /\ forging' = "test"
    BY <1>6 DEF QueuePacket
  <2> QED BY <2>2, <2>3
<1> QED BY <1>1, <1>2, <1>3, <1>4, <1>5, <1>6 DEF Forge

\* Wherever the main task is, the next place is one.
LEMMA NextPlaces ==
    ASSUME pc \in Places
    PROVE  /\ \A routine \in DOMAIN Steps : Enter(routine) => pc' \in Places
           /\ /\ Continue
              /\ ~At("queryTime") /\ ~At("term") /\ ~At("rng")
              /\ ~At("retry") /\ (At("read") => InRequest)
              => pc' \in Places
<1>1. \A routine \in DOMAIN Steps : Enter(routine) => pc' \in Places
  BY EntriesArePlaces DEF Enter
<1>2. ASSUME Continue, ~At("queryTime"), ~At("term"), ~At("rng"),
             ~At("retry"), At("read") => InRequest
      PROVE  pc' \in Places
  <2>1. CASE pc.in = "setup" /\ At("parameters")
    BY <1>1, <1>2, <2>1, PlacesAre DEF Continue, Steps
  <2>2. CASE ~(pc.in = "setup" /\ At("parameters"))
    <3>1. ~Is(pc, "setup", 2) /\ ~Is(pc, "loop", 6)
      BY <1>2, <2>2, StepsAre DEF At, Is, InRequest
    <3>2. [pc EXCEPT !.at = @ + 1] \in Places
      BY <1>2, <3>1, MiddlesGoOn DEF At
    <3> QED BY <1>2, <2>2, <3>2 DEF Continue
  <2> QED BY <2>1, <2>2
<1> QED BY <1>1, <1>2

LEMMA ModemOffIsTyped == ModemOff \in ModemTypes
BY DEF ModemOff, ModemTypes

LEMMA RoutinesAre ==
    DOMAIN Steps = {"device", "get", "post", "sequencer", "setup", "loop",
                    "failed"}
BY DEF Steps

LEMMA UnchangedForger ==
    ForgerTypeOK /\ Counting /\ UNCHANGED forger => ForgerTypeOK' /\ Counting'
BY DEF forger, ForgerTypeOK, Counting

\* Packets that are given up leave an empty batch.
LEMMA EmptyBatch ==
    ASSUME NEW t \in TaskTypes
    PROVE  /\ [t EXCEPT !.batch = <<>>] \in TaskTypes
           /\ [t EXCEPT !.batch = <<>>].batch = <<>>
           /\ Len(<<>>) <= BatchSize
<1>1. <<>> \in Seq(Packet) /\ Len(<<>>) = 0
  BY EmptySeq
<1>2. Len(<<>>) <= BatchSize
  BY <1>1, ForgerAssumption
<1> QED BY <1>1, <1>2 DEF TaskTypes

LEMMA DeviceKeepsTypes ==
    ASSUME TypeInv, InitializeDevice PROVE TypeInv'
<1> USE DEF TypeInv
<1>1. ForgerTypeOK' /\ Counting' /\ UNCHANGED <<response, posted, late>>
  BY UnchangedForger DEF InitializeDevice, history
<1>2. faults' \in 0..MaxFaults
  BY SessionAssumption
     DEF InitializeDevice, Restart, ResetState, AwaitBoot, OpenBearer, Attach,
         Query, Fails, Fault
<1>3. UNCHANGED task
  BY DEF InitializeDevice, Restart, ResetState, AwaitBoot, OpenBearer, Attach,
         Query
<1>4. flags' \in BOOLEAN /\ mark' \in BOOLEAN
  BY Zenon DEF InitializeDevice, Restart, ResetState, AwaitBoot, OpenBearer,
         Attach, Query, device
<1>5. modem' \in ModemTypes
  BY ModemOffIsTyped
     DEF InitializeDevice, Restart, ResetState, AwaitBoot, OpenBearer, Attach,
         Query, device, ModemTypes
<1>6. pc' \in Places
  BY NextPlaces, StepsAre, RoutinesAre
     DEF InitializeDevice, Restart, ResetState, AwaitBoot, OpenBearer, Attach,
         Query, At, Is
<1> QED BY <1>1, <1>2, <1>3, <1>4, <1>5, <1>6

LEMMA ModemBootsKeepsTypes ==
    ASSUME modem \in ModemTypes, flags \in BOOLEAN, ModemBoots
    PROVE  modem' \in ModemTypes /\ flags' \in BOOLEAN /\ mark' \in BOOLEAN
BY DEF ModemBoots, ModemTypes

LEMMA CommandKeepsTypes ==
    ASSUME TypeInv, NEW step \in {"init", "parameters", "data", "action"},
           Command(step)
    PROVE  TypeInv'
<1> USE DEF TypeInv
<1>1. ForgerTypeOK' /\ Counting' /\ UNCHANGED <<faults, late>>
  BY UnchangedForger DEF Command
<1>2. response' \in Responses
  BY DEF Command, Aged, Responses
<1>3. CASE /\ modem.up /\ Able(step)
           /\ modem' = Done(step)
           /\ posted' = IF pc.in = "loop" /\ step = "action"
                        THEN posted \o task.batch ELSE posted
           /\ Continue
           /\ UNCHANGED <<task, flags, mark>>
  <2>1. posted \o task.batch \in Seq(Packet)
    BY ConcatProperties DEF TaskTypes
  <2>2. posted' \in Seq(Packet)
    BY <1>3, <2>1
  <2>3. modem' \in ModemTypes
    BY <1>3 DEF Done, ModemTypes
  <2>4. pc' \in Places
    BY <1>3, NextPlaces, StepsAre DEF Command, At, Is
  <2> QED BY <1>1, <1>2, <1>3, <2>2, <2>3, <2>4
<1>4. CASE /\ \/ modem.up /\ ~Able(step) /\ UNCHANGED device
              \/ ModemBoots
           /\ Unexpected(task)
           /\ UNCHANGED posted
  <2>1. /\ modem' \in ModemTypes /\ flags' \in BOOLEAN
        /\ mark' \in BOOLEAN
    BY <1>4, ModemBootsKeepsTypes, Zenon DEF device
  <2>2. task' \in TaskTypes /\ Len(task'.batch) <= BatchSize
    BY <1>4, EmptyBatch DEF Unexpected
  <2>3. pc' \in Places
    BY <1>4, NextPlaces, StepsAre, RoutinesAre DEF Command, Unexpected, At, Is
  <2> QED BY <1>1, <1>2, <1>4, <2>1, <2>2, <2>3
<1> QED BY <1>3, <1>4 DEF Command

LEMMA ReadKeepsTypes ==
    ASSUME TypeInv, Read PROVE TypeInv'
<1> USE DEF TypeInv
<1>1. /\ ForgerTypeOK' /\ Counting'
      /\ UNCHANGED <<response, posted, late>>
  BY UnchangedForger DEF Read, history
<1>2. faults' \in 0..MaxFaults
  BY SessionAssumption DEF Read, Fails, Fault
<1>3. /\ modem' \in ModemTypes /\ flags' \in BOOLEAN
      /\ mark' \in BOOLEAN
  BY ModemBootsKeepsTypes, Zenon DEF Read, device
<1>4. /\ [task EXCEPT !.good = FALSE] \in TaskTypes
      /\ [task EXCEPT !.good = FALSE].batch = task.batch
      /\ [task EXCEPT !.good = TRUE] \in TaskTypes
      /\ [task EXCEPT !.good = TRUE].batch = task.batch
  BY DEF TaskTypes
<1>5. task' \in TaskTypes /\ Len(task'.batch) <= BatchSize
  BY <1>4, EmptyBatch DEF Read, Unexpected
<1>6. pc' \in Places
  BY NextPlaces, StepsAre, RoutinesAre DEF Read, Unexpected, At, Is
<1> QED BY <1>1, <1>2, <1>3, <1>5, <1>6

LEMMA WaitingKeepsTypes ==
    ASSUME TypeInv,
           Terminate \/ TakeResponse \/ ClearResponse \/ GiveUpWaiting \/ Retry
    PROVE  TypeInv'
<1> USE DEF TypeInv
<1>1. ForgerTypeOK' /\ Counting' /\ UNCHANGED <<flags, mark, posted>>
  BY UnchangedForger
     DEF Terminate, TakeResponse, ClearResponse, GiveUpWaiting, Retry,
         history, device
<1>2. faults' \in 0..MaxFaults
  BY SessionAssumption DEF Terminate, TakeResponse, ClearResponse,
     GiveUpWaiting, Retry, Fails, Fault
<1>3. late' \in BOOLEAN
  BY Zenon DEF Terminate, TakeResponse, ClearResponse, GiveUpWaiting, Retry,
     history
<1>4. response' \in Responses
  BY DEF Terminate, TakeResponse, ClearResponse, GiveUpWaiting, Retry,
     Responses
<1>5. modem' \in ModemTypes
  BY DEF Terminate, TakeResponse, ClearResponse, GiveUpWaiting, Retry, device,
     ModemTypes
<1>6. task' \in TaskTypes /\ Len(task'.batch) <= BatchSize
  <2>1. CASE Terminate
    BY <2>1 DEF Terminate, TaskTypes
  <2>2. CASE TakeResponse
    BY <2>2 DEF TakeResponse, TaskTypes
  <2>3. CASE ClearResponse
    BY <2>3 DEF ClearResponse
  <2>4. CASE GiveUpWaiting
    BY <2>4, EmptyBatch DEF GiveUpWaiting
  <2>5. CASE Retry
    <3> DEFINE next == IF task.failures >= FailLimit THEN 1
                       ELSE task.failures + 1
    <3>1. next \in 0..(FailLimit + 1)
      BY SessionAssumption DEF TaskTypes
    <3>2. task' = [task EXCEPT !.failures = next]
      BY <2>5 DEF Retry
    <3> QED BY <3>1, <3>2 DEF TaskTypes
  <2> QED BY <2>1, <2>2, <2>3, <2>4, <2>5
<1>7. pc' \in Places
  BY NextPlaces, StepsAre, RoutinesAre
     DEF Terminate, TakeResponse, ClearResponse, GiveUpWaiting, Retry, At, Is
<1> QED BY <1>1, <1>2, <1>3, <1>4, <1>5, <1>6, <1>7

LEMMA PendingIsABatch ==
    ASSUME packets \in Seq(Packet)
    PROVE  /\ Pending \in 0..Len(packets) /\ Pending <= BatchSize
           /\ PendingPackets \in Seq(Packet)
           /\ Len(PendingPackets) = Pending
           /\ \A k \in 1..Pending : PendingPackets[k] = packets[k]
<1>1. Len(packets) \in Nat
  BY LenProperties
<1>2. Pending \in 0..Len(packets) /\ Pending <= BatchSize
  BY <1>1, ForgerAssumption DEF Pending
<1>3. \A k \in 1..Pending : packets[k] \in Packet
  BY <1>1, <1>2, ElementOfSeq
<1> QED BY <1>1, <1>2, <1>3, SubSeqProperties DEF PendingPackets

LEMMA RestIsASequence ==
    ASSUME packets \in Seq(Packet), PopPackets
    PROVE  /\ packets' \in Seq(Packet)
           /\ Len(packets') = Len(packets) - Pending
           /\ \A k \in 1..Len(packets') : packets'[k] = packets[k + Pending]
<1>1. Len(packets) \in Nat /\ Pending \in 0..Len(packets)
  BY LenProperties, PendingIsABatch
<1>2. \A k \in (Pending + 1)..Len(packets) : packets[k] \in Packet
  BY <1>1, ElementOfSeq
<1> QED BY <1>1, <1>2, SubSeqProperties DEF PopPackets

LEMMA SequencerKeepsTypes ==
    ASSUME TypeInv, ResetSequencer \/ TakePackets
    PROVE  TypeInv'
<1> USE DEF TypeInv
<1>1. /\ UNCHANGED <<response, faults, posted, late, flags, mark, modem>>
      /\ UNCHANGED <<forging, draft, made, raced>>
  BY DEF ResetSequencer, TakePackets, SetReady, ResetSeq, ResetRng,
         PopPackets, history, device
<1>2. pc' \in Places
  BY NextPlaces, StepsAre, RoutinesAre DEF ResetSequencer, TakePackets, At, Is
<1>3. CASE ResetSequencer
  <2>1. task' \in TaskTypes /\ task'.batch = task.batch
    BY <1>3 DEF ResetSequencer, TaskTypes
  <2>2. ready' \in BOOLEAN
    BY <1>3, Zenon
       DEF ResetSequencer, SetReady, ResetSeq, ResetRng, ForgerTypeOK
  <2>3. (seq \in 0..MaxPackets /\ rng \in Vectors)' /\ seq' <= seq
    BY <1>3, ForgerAssumption
       DEF ResetSequencer, SetReady, ResetSeq, ResetRng, ForgerTypeOK, Vectors
  <2>4. UNCHANGED packets
    BY <1>3 DEF ResetSequencer, SetReady, ResetSeq, ResetRng
  <2>5. ForgerTypeOK'
    BY <1>1, <2>2, <2>3, <2>4 DEF ForgerTypeOK
  <2>6. Counting'
    BY <1>1, <2>3 DEF ForgerTypeOK, Counting
  <2> QED BY <1>1, <1>2, <2>1, <2>5, <2>6
<1>4. CASE TakePackets
  <2>1. packets \in Seq(Packet) /\ Len(packets) \in Nat
    BY LenProperties DEF ForgerTypeOK
  <2>2. task' \in TaskTypes /\ Len(task'.batch) <= BatchSize
    BY <1>4, <2>1, PendingIsABatch DEF TakePackets, TaskTypes
  <2>3. packets' \in Seq(Packet) /\ Len(packets') <= Len(packets)
    BY <1>4, <2>1, PendingIsABatch, RestIsASequence DEF TakePackets
  <2>4. Len(packets') \in Nat
    BY <2>3, LenProperties
  <2>5. UNCHANGED <<ready, seq, rng>>
    BY <1>4 DEF TakePackets, PopPackets
  <2>6. ForgerTypeOK'
    BY <1>1, <2>1, <2>3, <2>4, <2>5, ForgerAssumption DEF ForgerTypeOK
  <2>7. Counting'
    BY <1>1, <2>5 DEF Counting
  <2> QED BY <1>1, <1>2, <2>2, <2>6, <2>7
<1> QED BY <1>3, <1>4

\* The steps of the others.
LEMMA OthersKeepTypes ==
    ASSUME TypeInv,
           ForgerSteps \/ IncomingReply \/ Boots \/ Unmark \/ BrownOut
    PROVE  TypeInv'
<1> USE DEF TypeInv
<1>1. UNCHANGED <<pc, task, posted, late>>
  BY DEF ForgerSteps, IncomingReply, Boots, Unmark, BrownOut, history
<1>2. ForgerTypeOK' /\ Counting'
  <2>1. CASE ForgerSteps
    BY <2>1, ForgeKeepsTypes, Zenon DEF ForgerSteps
  <2>2. CASE ~ForgerSteps
    BY <2>2, UnchangedForger DEF IncomingReply, Boots, Unmark, BrownOut
  <2> QED BY <2>1, <2>2
<1>3. response' \in Responses /\ faults' \in 0..MaxFaults
  BY SessionAssumption
     DEF ForgerSteps, IncomingReply, Boots, Unmark, BrownOut, Responses, Fault
<1>4. modem' \in ModemTypes
  BY ModemBootsKeepsTypes, ModemOffIsTyped
     DEF ForgerSteps, IncomingReply, Boots, Unmark, BrownOut, device,
         ModemTypes
<1>5. flags' \in BOOLEAN /\ mark' \in BOOLEAN
  BY ModemBootsKeepsTypes, Zenon
     DEF ForgerSteps, IncomingReply, Boots, Unmark, BrownOut, device
<1> QED BY <1>1, <1>2, <1>3, <1>4, <1>5

LEMMA TypeInvHolds == Spec => []TypeInv
<1>1. Init => TypeInv
  BY InitTypeInv
<1>2. TypeInv /\ [Next]_vars => TypeInv'
  <2> SUFFICES ASSUME TypeInv, [Next]_vars PROVE TypeInv'
    OBVIOUS
  <2>1. CASE Main
    BY <2>1, DeviceKeepsTypes, CommandKeepsTypes, ReadKeepsTypes,
       WaitingKeepsTypes, SequencerKeepsTypes DEF Main
  <2>2. CASE ForgerSteps \/ IncomingReply \/ Boots \/ Unmark \/ BrownOut
    BY <2>2, OthersKeepTypes
  <2>3. CASE UNCHANGED vars
    BY <2>3, UnchangedForger DEF vars, TypeInv, forger, device, history
  <2> QED BY <2>1, <2>2, <2>3 DEF Next
<1> QED BY <1>1, <1>2, PTL DEF Spec

\* In every state every variable of the session, and of the forger in it,
\* has a value of its type; in particular the queue and the numbers stay
\* within their bounds (Session over PacketForger).
THEOREM SessionTypeCorrect == Spec => []TypeOK
BY TypeInvHolds, TypeInvIsTypeCorrectness, PTL

-----------------------------------------------------------------------------
(* Requests and responses.                                                 *)

\* A request that is out keeps HTTPInit from succeeding, so that it can only
\* be waited for, have been overtaken by a stale response, or be given up;
\* and its response has not come.
RequestInv ==
    modem.request =>
        /\ modem.http /\ response # "own"
        /\ \/ /\ pc.in \in {"get", "post", "loop"}
              /\ At("wait") \/ task.taken = "stale"
           \/ Is(pc, "setup", 1)
           \/ Is(pc, "failed", 1)
           \/ Is(pc, "device", 1)

\* As long as no wait has ended too early a response is there only between
\* its request and the end of the wait for it.
ResponseInv ==
    ~late =>
        /\ \/ response = "none"
           \/ response = "own" /\ (At("wait") \/ At("clear"))
        /\ modem.request => At("wait") /\ response = "none"
        /\ At("clear") => task.taken = "own"

RequestsInv == RequestInv /\ ResponseInv

LEMMA DeviceKeepsRequests ==
    ASSUME TypeInv, TypeInv', RequestsInv, InitializeDevice
    PROVE  RequestsInv'
<1> USE StepsAre DEF RequestsInv, RequestInv, ResponseInv, At, Is
<1>1. UNCHANGED <<response, late, task>>
  BY DEF InitializeDevice, history, Restart, ResetState, AwaitBoot, OpenBearer,
         Attach, Query
<1>2. pc.in = "device" /\ ~At("wait") /\ ~At("clear") /\ pc \in Places
  BY DEF InitializeDevice, Restart, ResetState, AwaitBoot, OpenBearer, Attach,
         Query, TypeInv
<1>3. ~modem'.request
  <2>1. CASE Restart
    BY <2>1 DEF Restart, ModemOff
  <2>2. CASE ~Restart
    <3>1. ~Is(pc, "device", 1)
      BY <1>2, <2>2 DEF InitializeDevice, ResetState, AwaitBoot, OpenBearer,
             Attach, Query
    <3>2. ~modem.request
      BY <1>2, <3>1
    <3>3. modem'.request = modem.request
      BY <2>2 DEF InitializeDevice, ResetState, AwaitBoot, OpenBearer, Attach,
             Query, device, TypeInv, ModemTypes
    <3> QED BY <3>2, <3>3
  <2> QED BY <2>1, <2>2
<1>4. ~At("clear")'
  <2>1. pc' \in Places
    BY DEF TypeInv
  <2>2. /\ pc'.in \in {"device", "setup", "get"}
        /\ pc'.in # "device" => pc'.at = 1
    BY <1>2, <2>1, PlacesAre
       DEF InitializeDevice, Restart, ResetState, AwaitBoot, OpenBearer,
           Attach, Query, Continue, Enter
  <2> QED BY <2>1, <2>2
<1> QED BY <1>1, <1>2, <1>3, <1>4

LEMMA CommandKeepsRequests ==
    ASSUME TypeInv, TypeInv', RequestsInv,
           NEW step \in {"init", "parameters", "data", "action"},
           Command(step)
    PROVE  RequestsInv'
<1> USE StepsAre DEF RequestsInv, RequestInv, ResponseInv, At, Is
<1>1. /\ pc \in Places /\ pc' \in Places
      /\ modem \in ModemTypes
      /\ UNCHANGED late
      /\ At(step) /\ response' = Aged(step)
      /\ modem.request \/ step = "action" => response' # "own"
      /\ ~At("wait") /\ ~At("clear")
  BY DEF Command, TypeInv, Aged
<1>2. ~late => response' = "none"
  BY <1>1 DEF Aged
<1>3. CASE /\ modem.up /\ Able(step)
           /\ modem' = Done(step)
           /\ Continue
           /\ UNCHANGED <<task, flags, mark>>
  <2>1. CASE step = "action"
    <3>1. At("wait")'
      BY <1>1, <1>3, <2>1, PlacesAre DEF Continue, Steps
    <3>2. modem'.http /\ modem'.request
      BY <1>1, <1>3, <2>1 DEF Able, Done, ModemTypes
    <3>3. pc'.in \in {"get", "post", "loop"}
      BY <1>1, <3>1
    <3> QED BY <1>1, <1>2, <2>1, <3>1, <3>2, <3>3
  <2>2. CASE step # "action"
    <3>1. ~At("clear")'
      BY <1>1, <1>3, <2>2, PlacesAre DEF Continue, Enter, Steps
    <3>2. modem'.request = modem.request /\ (modem.http => modem'.http)
      BY <1>1, <1>3, <2>2 DEF Done, ModemTypes
    <3>3. modem.request => pc.in = pc'.in /\ pc.in \in {"get", "post", "loop"}
      BY <1>1, <1>3, <2>2, PlacesAre DEF Able, Continue, Enter
    <3> QED BY <1>1, <1>2, <1>3, <3>1, <3>2, <3>3
  <2> QED BY <2>1, <2>2
<1>4. CASE /\ \/ modem.up /\ ~Able(step) /\ UNCHANGED device
              \/ ModemBoots
           /\ Unexpected(task)
  <2>1. modem'.request = modem.request /\ modem'.http = modem.http
    BY <1>1, <1>4 DEF ModemBoots, device, ModemTypes
  <2>2. CASE InRequest
    <3>1. Continue /\ task' = task
      BY <1>4, <2>2 DEF Unexpected
    <3>2. pc'.in = pc.in /\ ~At("clear")'
      BY <1>1, <2>2, <3>1, PlacesAre DEF Continue, Enter, InRequest, Steps
    <3> QED BY <1>1, <1>2, <2>1, <2>2, <3>1, <3>2 DEF InRequest
  <2>3. CASE ~InRequest
    <3>1. Is(pc', "failed", 1)
      BY <1>4, <2>3 DEF Unexpected, Enter
    <3> QED BY <1>1, <1>2, <2>1, <3>1
  <2> QED BY <2>2, <2>3
<1> QED BY <1>3, <1>4 DEF Command

LEMMA ReadKeepsRequests ==
    ASSUME TypeInv, TypeInv', RequestsInv, Read
    PROVE  RequestsInv'
<1> USE StepsAre DEF RequestsInv, RequestInv, ResponseInv, At, Is
<1>1. /\ pc \in Places /\ pc' \in Places
      /\ task \in TaskTypes
      /\ UNCHANGED <<response, late>>
      /\ ~At("wait") /\ ~At("clear")
  BY DEF Read, TypeInv, history
<1>2. ~late => response' = "none" /\ ~modem.request
  BY <1>1
<1>3. modem'.request = modem.request /\ modem'.http = modem.http
  BY DEF Read, ModemBoots, device, TypeInv, ModemTypes
<1>4. task'.taken = task.taken
  BY <1>1 DEF Read, Unexpected, TaskTypes
<1>5. /\ ~At("clear")'
      /\ pc'.in \in {"get", "post", "loop"} \/ Is(pc', "failed", 1)
  BY <1>1, PlacesAre DEF Read, Unexpected, Continue, Enter, InRequest, Steps
<1>6. modem.request => task.taken = "stale" /\ modem.http /\ response # "own"
  BY <1>1 DEF Read
<1> QED BY <1>1, <1>2, <1>3, <1>4, <1>5, <1>6

LEMMA WaitingKeepsRequests ==
    ASSUME TypeInv, TypeInv', RequestsInv,
           Terminate \/ TakeResponse \/ ClearResponse \/ GiveUpWaiting \/ Retry
    PROVE  RequestsInv'
<1> USE StepsAre DEF RequestsInv, RequestInv, ResponseInv, At, Is
<1>1. /\ pc \in Places /\ pc' \in Places
      /\ task \in TaskTypes /\ modem \in ModemTypes
      /\ response \in Responses
  BY DEF TypeInv
<1>2. CASE Terminate
  <2>1. ~modem'.request
    BY <1>1, <1>2 DEF Terminate, ModemTypes
  <2>2. ~At("clear")' /\ ~At("wait") /\ ~At("clear")
    BY <1>1, <1>2 DEF Terminate, Enter
  <2> QED BY <1>2, <2>1, <2>2 DEF Terminate, history
<1>3. CASE TakeResponse
  <2>1. At("clear")' /\ pc'.in = pc.in /\ pc.in \in {"get", "post", "loop"}
    BY <1>1, <1>3, PlacesAre DEF TakeResponse, Continue, Steps
  <2>2. task'.taken = response /\ response # "none" /\ At("wait")
    BY <1>1, <1>3 DEF TakeResponse, TaskTypes
  <2>3. UNCHANGED <<response, modem, late>>
    BY <1>3 DEF TakeResponse, device, history
  <2>4. modem.request => response = "stale"
    BY <1>1, <2>2 DEF Responses
  <2>5. ~late => response = "own" /\ ~modem.request
    BY <2>2
  <2> QED BY <2>1, <2>2, <2>3, <2>4, <2>5
<1>4. CASE ClearResponse
  <2>1. ~At("clear")' /\ pc'.in = pc.in /\ pc.in \in {"get", "post", "loop"}
    BY <1>1, <1>4, PlacesAre DEF ClearResponse, Continue, Steps
  <2>2. UNCHANGED <<task, modem, late>> /\ response' = "none"
        /\ At("clear") /\ ~At("wait")
    BY <1>1, <1>4 DEF ClearResponse, device, history
  <2> QED BY <2>1, <2>2
<1>5. CASE GiveUpWaiting
  <2>1. Is(pc', "device", 1) \/ Is(pc', "failed", 1)
    BY <1>5 DEF GiveUpWaiting, Enter
  <2>2. /\ UNCHANGED <<response, modem>> /\ response = "none"
        /\ ~late' => ~modem.request
    BY <1>5 DEF GiveUpWaiting, device
  <2> QED BY <1>1, <2>1, <2>2
<1>6. CASE Retry
  <2>1. /\ Is(pc', "device", 1) \/ Is(pc', "setup", 1)
        /\ ~At("wait") /\ ~At("clear")
    BY <1>1, <1>6 DEF Retry, Enter
  <2>2. UNCHANGED <<response, modem, late>>
    BY <1>6 DEF Retry, device, history
  <2> QED BY <1>1, <2>1, <2>2
<1> QED BY <1>2, <1>3, <1>4, <1>5, <1>6

LEMMA OthersKeepRequests ==
    ASSUME TypeInv, TypeInv', RequestsInv,
           \/ ResetSequencer \/ TakePackets
           \/ ForgerSteps \/ IncomingReply \/ Boots \/ Unmark \/ BrownOut
    PROVE  RequestsInv'
<1> USE StepsAre DEF RequestsInv, RequestInv, ResponseInv, At, Is
<1>1. /\ pc \in Places /\ pc' \in Places
      /\ task \in TaskTypes /\ modem \in ModemTypes
  BY DEF TypeInv
<1>2. UNCHANGED late
  BY DEF ResetSequencer, TakePackets, ForgerSteps, IncomingReply, Boots,
         Unmark, BrownOut, history
<1>3. CASE ResetSequencer \/ TakePackets
  <2>1. /\ pc.in = "sequencer" \/ Is(pc, "loop", 1)
        /\ pc'.in \in {"sequencer", "setup"} \/ Is(pc', "loop", 2)
    <3>1. CASE ResetSequencer
      BY <1>1, <3>1, PlacesAre DEF ResetSequencer, Continue, Enter
    <3>2. CASE TakePackets
      BY <1>1, <3>2, PlacesAre DEF TakePackets, Continue
    <3> QED BY <1>3, <3>1, <3>2
  <2>2. UNCHANGED <<response, modem>> /\ task'.taken = task.taken
    BY <1>1, <1>3 DEF ResetSequencer, TakePackets, device, TaskTypes
  <2>3. modem.request => pc'.in = "loop" /\ task.taken = "stale"
    BY <1>1, <1>3, PlacesAre
       DEF ResetSequencer, TakePackets, Continue, Enter
  <2> QED BY <1>1, <1>2, <2>1, <2>2, <2>3
<1>4. CASE ForgerSteps \/ Unmark
  BY <1>2, <1>4 DEF ForgerSteps, Unmark, device
<1>5. CASE IncomingReply
  BY <1>1, <1>2, <1>5 DEF IncomingReply, ModemTypes
<1>6. CASE Boots
  <2>1. modem'.request = modem.request /\ modem'.http = modem.http
    BY <1>1, <1>6 DEF Boots, ModemBoots, ModemTypes
  <2> QED BY <1>2, <1>6, <2>1 DEF Boots
<1>7. CASE BrownOut
  BY <1>2, <1>7 DEF BrownOut, ModemOff
<1> QED BY <1>3, <1>4, <1>5, <1>6, <1>7

LEMMA RequestsInvHolds == Spec => [](TypeInv /\ RequestsInv)
<1>1. Init => RequestsInv
  <2> SUFFICES ASSUME Init PROVE RequestsInv
    OBVIOUS
  <2>1. pc \in Places /\ Is(pc, "device", 1)
    BY EntriesArePlaces, RoutinesAre DEF Init, Is
  <2> QED BY <2>1, StepsAre
          DEF Init, ModemOff, RequestsInv, RequestInv, ResponseInv, At, Is
<1>2. TypeInv /\ TypeInv' /\ RequestsInv /\ [Next]_vars => RequestsInv'
  <2> SUFFICES ASSUME TypeInv, TypeInv', RequestsInv, [Next]_vars
               PROVE  RequestsInv'
    OBVIOUS
  <2>1. CASE Next
    BY <2>1, DeviceKeepsRequests, CommandKeepsRequests,
       ReadKeepsRequests, WaitingKeepsRequests, OthersKeepRequests
       DEF Next, Main
  <2>2. CASE UNCHANGED vars
    BY <2>2 DEF vars, device, history, RequestsInv, RequestInv, ResponseInv,
            At, Is
  <2> QED BY <2>1, <2>2
<1>3. Spec => []TypeInv
  BY TypeInvHolds
<1> QED BY <1>1, <1>2, <1>3, PTL DEF Spec

\* While a request is out no other one is made, unless a response that came
\* after its wait had ended has been taken for an answer: HTTPInit fails until
\* the device is restarted, and its failure ends packet_loop (Session,
\* MainGSMModule.cpp:322).
THEOREM RequestsAreOneAtATime == Spec => []OneRequestAtATime
<1>1. TypeInv /\ RequestsInv => OneRequestAtATime
  <2> SUFFICES ASSUME TypeInv, RequestsInv, At("action"), modem.request
               PROVE  task.taken = "stale"
    BY DEF OneRequestAtATime
  <2>1. pc \in Places
    BY DEF TypeInv
  <2> QED BY <2>1, StepsAre DEF RequestsInv, RequestInv, At, Is
<1> QED BY <1>1, RequestsInvHolds, PTL

\* A wait hands out the response to the request just made, as long as no wait
\* has ended before its response came (Session, wait_for_http).
THEOREM ResponsesAreTheirs == Spec => []ResponsesAreOwn
<1>1. RequestsInv => ResponsesAreOwn
  BY DEF RequestsInv, ResponseInv, ResponsesAreOwn
<1> QED BY <1>1, RequestsInvHolds, PTL

-----------------------------------------------------------------------------
(* The order of the packets.  The packets posted, those the main task has  *)
(* taken and those in the queue have increasing numbers, all below the     *)
(* next one.                                                               *)

Sorted(s) == \A k, l \in 1..Len(s) : k < l => s[k].seq < s[l].seq
Under(s, t) ==
    \A k \in 1..Len(s), l \in 1..Len(t) : s[k].seq < t[l].seq
Numbered(s, next) ==
    \A k \in 1..Len(s) : s[k].seq < next /\ s[k].rng = "iv"

Ordered(sent, taken, queued, next) ==
    /\ Numbered(sent, next) /\ Numbered(taken, next) /\ Numbered(queued, next)
    /\ Sorted(sent) /\ Sorted(taken) /\ Sorted(queued)
    /\ Under(sent, taken) /\ Under(sent, queued) /\ Under(taken, queued)

LEMMA NothingIsOrdered ==
    ASSUME NEW next PROVE Ordered(<<>>, <<>>, <<>>, next)
<1>1. Len(<<>>) = 0
  BY EmptySeq
<1> QED BY <1>1 DEF Ordered, Numbered, Sorted, Under

LEMMA LosingKeepsOrder ==
    ASSUME NEW sent, NEW taken, NEW queued, NEW next,
           Ordered(sent, taken, queued, next)
    PROVE  Ordered(sent, <<>>, queued, next)
<1>1. Len(<<>>) = 0
  BY EmptySeq
<1> QED BY <1>1 DEF Ordered, Numbered, Sorted, Under

LEMMA PostingKeepsOrder ==
    ASSUME NEW sent \in Seq(Packet), NEW taken \in Seq(Packet), NEW queued,
           NEW next, Ordered(sent, taken, queued, next)
    PROVE  Ordered(sent \o taken, <<>>, queued, next)
<1> DEFINE both == sent \o taken
<1>1. Len(<<>>) = 0 /\ Len(sent) \in Nat /\ Len(taken) \in Nat
  BY EmptySeq, LenProperties
<1>2. /\ Len(both) = Len(sent) + Len(taken)
      /\ \A k \in 1..Len(both) :
            both[k] = IF k <= Len(sent) THEN sent[k] ELSE taken[k - Len(sent)]
  BY ConcatProperties
<1>3. \A k \in 1..Len(both) :
         \/ k \in 1..Len(sent) /\ both[k] = sent[k]
         \/ /\ k - Len(sent) \in 1..Len(taken)
            /\ both[k] = taken[k - Len(sent)]
            /\ k > Len(sent)
  BY <1>1, <1>2
<1> HIDE DEF both
<1>4. Numbered(both, next)
  BY <1>3 DEF Ordered, Numbered
<1>5. Sorted(both)
  <2> SUFFICES ASSUME NEW k \in 1..Len(both), NEW l \in 1..Len(both), k < l
               PROVE  both[k].seq < both[l].seq
    BY DEF Sorted
  <2>1. CASE k \in 1..Len(sent) /\ l \in 1..Len(sent)
    BY <1>1, <1>3, <2>1 DEF Ordered, Sorted
  <2>2. CASE k \in 1..Len(sent) /\ ~(l \in 1..Len(sent))
    BY <1>1, <1>3, <2>2 DEF Ordered, Under
  <2>3. CASE ~(k \in 1..Len(sent))
    <3>1. /\ k - Len(sent) \in 1..Len(taken)
          /\ l - Len(sent) \in 1..Len(taken)
          /\ k - Len(sent) < l - Len(sent)
          /\ both[k] = taken[k - Len(sent)] /\ both[l] = taken[l - Len(sent)]
      BY <1>1, <1>3, <2>3
    <3> QED BY <3>1 DEF Ordered, Sorted
  <2> QED BY <2>1, <2>2, <2>3
<1>6. Under(both, queued)
  BY <1>3 DEF Ordered, Under
<1>7. /\ Numbered(<<>>, next) /\ Sorted(<<>>) /\ Under(both, <<>>)
      /\ Under(<<>>, queued)
  BY <1>1 DEF Numbered, Sorted, Under
<1> QED BY <1>4, <1>5, <1>6, <1>7 DEF Ordered, both

LEMMA TakingKeepsOrder ==
    ASSUME packets \in Seq(Packet), PopPackets, NEW sent, NEW next,
           Ordered(sent, <<>>, packets, next)
    PROVE  Ordered(sent, PendingPackets, packets', next)
<1>1. /\ Len(packets) \in Nat /\ Pending \in 0..Len(packets)
      /\ Len(PendingPackets) = Pending
      /\ \A k \in 1..Pending : PendingPackets[k] = packets[k]
  BY PendingIsABatch, LenProperties
<1>2. /\ Len(packets') = Len(packets) - Pending
      /\ \A k \in 1..Len(packets') : packets'[k] = packets[k + Pending]
  BY RestIsASequence
<1>3. /\ \A k \in 1..Pending : k \in 1..Len(packets)
      /\ \A k \in 1..Len(packets') : /\ k + Pending \in 1..Len(packets)
                                     /\ k + Pending > Pending
  BY <1>1, <1>2
<1>4. Numbered(PendingPackets, next) /\ Numbered(packets', next)
  BY <1>1, <1>2, <1>3 DEF Ordered, Numbered
<1>5. Sorted(PendingPackets)
  BY <1>1, <1>3 DEF Ordered, Sorted
<1>6. Sorted(packets')
  BY <1>1, <1>2, <1>3 DEF Ordered, Sorted
<1>7. Under(sent, PendingPackets) /\ Under(sent, packets')
  BY <1>1, <1>2, <1>3 DEF Ordered, Under
<1>8. Under(PendingPackets, packets')
  BY <1>1, <1>2, <1>3 DEF Ordered, Sorted, Under
<1> QED BY <1>4, <1>5, <1>6, <1>7, <1>8 DEF Ordered

LEMMA LaterNumbers ==
    ASSUME NEW s \in Seq(Packet), NEW number \in Nat, Numbered(s, number)
    PROVE  Numbered(s, number + 1)
<1>1. \A k \in 1..Len(s) : s[k] \in Packet
  BY ElementOfSeq
<1> QED BY <1>1 DEF Numbered, Packet

LEMMA LaterKeepsOrder ==
    ASSUME NEW sent \in Seq(Packet), NEW taken \in Seq(Packet),
           NEW queued \in Seq(Packet), NEW number \in Nat,
           Ordered(sent, taken, queued, number)
    PROVE  Ordered(sent, taken, queued, number + 1)
BY LaterNumbers DEF Ordered

LEMMA QueueingKeepsOrder ==
    ASSUME NEW queued \in Seq(Packet), NEW new \in Packet, new.rng = "iv",
           NEW sent \in Seq(Packet), NEW taken \in Seq(Packet),
           Ordered(sent, taken, queued, new.seq)
    PROVE  Ordered(sent, taken, Append(queued, new), new.seq + 1)
<1> DEFINE longer == Append(queued, new)
           number == new.seq
<1>1. /\ Len(queued) \in Nat /\ Len(longer) = Len(queued) + 1
      /\ \A k \in 1..Len(queued) : longer[k] = queued[k]
      /\ longer[Len(queued) + 1] = new
  BY AppendProperties, LenProperties
<1>2. \A k \in 1..Len(longer) :
         \/ k \in 1..Len(queued) /\ longer[k] = queued[k]
         \/ k = Len(queued) + 1 /\ longer[k] = new
  BY <1>1
<1>3. number \in Nat
  BY DEF Packet
<1> HIDE DEF longer
<1>5. /\ Numbered(sent, number + 1) /\ Numbered(taken, number + 1)
      /\ Numbered(longer, number + 1)
  <2>1. /\ Numbered(sent, number + 1) /\ Numbered(taken, number + 1)
        /\ Numbered(queued, number + 1)
    BY <1>3, LaterNumbers DEF Ordered
  <2>2. new.seq < number + 1
    BY <1>3
  <2> HIDE DEF number
  <2>3. Numbered(longer, number + 1)
    BY <1>2, <2>1, <2>2 DEF Numbered
  <2> QED BY <2>1, <2>3
<1>6. Sorted(longer)
  BY <1>1, <1>2 DEF Ordered, Numbered, Sorted
<1>7. Under(sent, longer) /\ Under(taken, longer)
  BY <1>2 DEF Ordered, Numbered, Under
<1> QED BY <1>5, <1>6, <1>7 DEF Ordered, longer

Unsent == IF At("data") \/ At("action") THEN task.batch ELSE <<>>

\* Before there is a session nothing has been forged, unless the forger came
\* between the stores of reset_sequencer.
BeforeInv ==
    ~task.established =>
        /\ pc.in \in {"device", "get", "post", "sequencer"}
        /\ ready <=> pc.in = "sequencer" /\ pc.at > 1
        /\ posted = <<>>
        /\ ~raced => forging = "test" /\ packets = <<>>

\* How far the forger has taken the number from the sequence.
InHand == forging \in {"loadRng", "storeRng", "queue"}
NextNumber == IF InHand THEN draft.seq ELSE seq

SequenceInv ==
    task.established =>
        /\ pc.in \in {"device", "setup", "loop", "failed"}
        /\ ~raced =>
              /\ rng = "iv"
              /\ forging = "store" => draft.seq = seq
              /\ InHand => seq = draft.seq + 1
              /\ forging \in {"storeRng", "queue"} => draft.rng = "iv"
              /\ Ordered(posted, Unsent, packets, NextNumber)

BatchInv == pc.in # "loop" => task.batch = <<>>

OrderInv == BeforeInv /\ SequenceInv /\ BatchInv

\* What a step of the main task other than TakePackets and ResetSequencer
\* does to the packets: it gives up those in hand, or posts them, or nothing.
Delivery ==
    /\ UNCHANGED forger
    /\ \/ posted' = posted /\ Unsent' \in {Unsent, <<>>}
       \/ posted' = posted \o Unsent /\ Unsent' = <<>>

LEMMA DeliveryKeepsOrder ==
    ASSUME TypeInv, Delivery,
           Ordered(posted, Unsent, packets, NextNumber)
    PROVE  Ordered(posted, Unsent, packets, NextNumber)'
<1>1. UNCHANGED <<packets, NextNumber>>
  BY DEF Delivery, forger, NextNumber, InHand
<1>2. posted \in Seq(Packet) /\ Unsent \in Seq(Packet)
  BY EmptySeq DEF TypeInv, TaskTypes, Unsent
<1>3. CASE posted' = posted /\ Unsent' = Unsent
  BY <1>1, <1>3
<1>4. CASE posted' = posted /\ Unsent' = <<>>
  BY <1>1, <1>4, LosingKeepsOrder
<1>5. CASE posted' = posted \o Unsent /\ Unsent' = <<>>
  BY <1>1, <1>2, <1>5, PostingKeepsOrder
<1> QED BY <1>3, <1>4, <1>5 DEF Delivery

LEMMA DeliveryKeepsOrderInv ==
    ASSUME TypeInv, TypeInv', OrderInv, Delivery,
           task'.established = task.established,
           BatchInv',
           ~task.established =>
               /\ pc'.in \in {"device", "get", "post", "sequencer"}
               /\ pc'.in = "sequencer" => pc'.at = 1
               /\ pc.in # "sequencer",
           task.established => pc'.in \in {"device", "setup", "loop", "failed"}
    PROVE  OrderInv'
<1>1. UNCHANGED <<ready, seq, rng, forging, draft, packets, raced>>
  BY DEF Delivery, forger
<1>2. ~task.established => posted' = <<>>
  <2> SUFFICES ASSUME ~task.established PROVE posted' = <<>>
    OBVIOUS
  <2>1. posted = <<>> /\ Unsent = <<>>
    BY DEF OrderInv, BeforeInv, BatchInv, Unsent
  <2>2. <<>> \o <<>> = <<>>
    BY ConcatEmptySeq, EmptySeq
  <2> QED BY <2>1, <2>2 DEF Delivery
<1>3. BeforeInv'
  BY <1>1, <1>2 DEF OrderInv, BeforeInv
<1>4. SequenceInv'
  BY <1>1, DeliveryKeepsOrder DEF OrderInv, SequenceInv, InHand
<1> QED BY <1>3, <1>4 DEF OrderInv

LEMMA DeviceDelivers ==
    ASSUME TypeInv, TypeInv', OrderInv, InitializeDevice
    PROVE  OrderInv'
<1>1. UNCHANGED <<task, posted>> /\ UNCHANGED forger
  BY DEF InitializeDevice, history, Restart, ResetState, AwaitBoot, OpenBearer,
         Attach, Query
<1>2. pc \in Places /\ pc' \in Places /\ pc.in = "device"
  BY StepsAre DEF TypeInv, InitializeDevice, Restart, ResetState,
         AwaitBoot, OpenBearer, Attach, Query, At, Is
<1>3. pc'.in \in {"device", IF task.established THEN "setup" ELSE "get"}
  BY <1>2, PlacesAre DEF InitializeDevice, Restart, ResetState, AwaitBoot,
         OpenBearer, Attach, Query, Continue, Enter
<1>4. task.batch = <<>> /\ task'.batch = <<>>
  BY <1>1, <1>2 DEF OrderInv, BatchInv
<1>5. Delivery
  BY <1>1, <1>4 DEF Delivery, Unsent
<1> QED BY <1>1, <1>2, <1>3, <1>4, <1>5, DeliveryKeepsOrderInv DEF BatchInv

LEMMA CommandDelivers ==
    ASSUME TypeInv, TypeInv', OrderInv,
           NEW step \in {"init", "parameters", "data", "action"},
           Command(step)
    PROVE  OrderInv'
<1> USE StepsAre DEF At, Is
<1>1. /\ UNCHANGED forger
      /\ pc \in Places /\ pc' \in Places /\ task \in TaskTypes
      /\ At(step) /\ pc.in \in {"get", "post", "setup", "loop"}
      /\ BatchInv
  BY DEF Command, TypeInv, OrderInv
<1>2. CASE /\ modem' = Done(step)
           /\ posted' = IF pc.in = "loop" /\ step = "action"
                        THEN posted \o task.batch ELSE posted
           /\ Continue
           /\ UNCHANGED <<task, flags, mark>>
  <2>1. /\ pc'.in = "loop" \/ pc'.in = pc.in
        /\ pc'.in = "loop" => pc.in \in {"setup", "loop"}
        /\ pc.in = "loop" => pc'.in = "loop" /\ pc'.at = pc.at + 1
        /\ pc.in = "setup" => ~At("data")' /\ ~At("action")'
    BY <1>1, <1>2, PlacesAre DEF Continue, Enter
  <2>2. BatchInv'
    BY <1>1, <1>2, <2>1 DEF BatchInv
  <2>3. CASE pc.in = "loop" /\ step = "action"
    <3>1. Unsent = task.batch /\ Unsent' = <<>>
      BY <1>1, <2>1, <2>3 DEF Unsent
    <3> QED BY <1>1, <1>2, <2>1, <2>2, <2>3, <3>1, DeliveryKeepsOrderInv
            DEF Delivery, OrderInv, BeforeInv, SequenceInv
  <2>4. CASE pc.in = "loop" /\ step # "action"
    <3>1. Unsent = task.batch /\ Unsent' = task.batch
      BY <1>1, <1>2, <2>1, <2>4 DEF Unsent
    <3> QED BY <1>1, <1>2, <2>1, <2>2, <2>4, <3>1, DeliveryKeepsOrderInv
            DEF Delivery, OrderInv, BeforeInv, SequenceInv
  <2>5. CASE pc.in # "loop"
    <3>1. Unsent = <<>> /\ Unsent' = <<>>
      BY <1>1, <1>2, <2>1, <2>5 DEF BatchInv, Unsent
    <3> QED BY <1>1, <1>2, <2>1, <2>2, <2>5, <3>1, DeliveryKeepsOrderInv
            DEF Delivery, OrderInv, BeforeInv, SequenceInv
  <2> QED BY <2>3, <2>4, <2>5
<1>3. CASE Unexpected(task) /\ UNCHANGED posted
  <2>1. CASE InRequest
    <3>1. task' = task /\ pc'.in = pc.in /\ task.batch = <<>>
      BY <1>1, <1>3, <2>1, PlacesAre
         DEF Unexpected, Continue, Enter, InRequest, BatchInv
    <3>2. Delivery /\ BatchInv'
      BY <1>1, <1>3, <3>1 DEF Delivery, Unsent, BatchInv
    <3> QED BY <1>1, <2>1, <3>1, <3>2, DeliveryKeepsOrderInv
            DEF InRequest, OrderInv, SequenceInv
  <2>2. CASE ~InRequest
    <3>1. /\ task' = [task EXCEPT !.batch = <<>>] /\ Is(pc', "failed", 1)
          /\ task'.batch = <<>> /\ task'.established = task.established
      BY <1>1, <1>3, <2>2 DEF Unexpected, Enter, TaskTypes
    <3>2. Delivery /\ BatchInv'
      BY <1>1, <1>3, <3>1 DEF Delivery, Unsent, BatchInv
    <3> QED BY <1>1, <2>2, <3>1, <3>2, DeliveryKeepsOrderInv
            DEF InRequest, OrderInv, BeforeInv
  <2> QED BY <2>1, <2>2
<1> QED BY <1>2, <1>3 DEF Command

LEMMA ReadDelivers ==
    ASSUME TypeInv, TypeInv', OrderInv, Read PROVE OrderInv'
<1> USE StepsAre DEF At, Is
<1>1. /\ UNCHANGED forger /\ UNCHANGED posted
      /\ pc \in Places /\ pc' \in Places /\ task \in TaskTypes
      /\ At("read") /\ pc.in \in {"get", "post", "loop"}
  BY DEF Read, TypeInv, history
<1>2. CASE InRequest
  <2>1. /\ pc'.in = pc.in /\ task.batch = <<>> /\ task'.batch = <<>>
        /\ task'.established = task.established
    BY <1>1, <1>2, PlacesAre
       DEF Read, Unexpected, Continue, Enter, InRequest, OrderInv, BatchInv,
           TaskTypes
  <2>2. Delivery /\ BatchInv'
    BY <1>1, <2>1 DEF Delivery, Unsent, BatchInv
  <2> QED BY <1>1, <1>2, <2>1, <2>2, DeliveryKeepsOrderInv
          DEF InRequest, OrderInv, SequenceInv
<1>3. CASE ~InRequest
  <2>1. /\ pc.in = "loop"
        /\ Is(pc', "loop", 1) \/ Is(pc', "failed", 1)
        /\ task'.batch = <<>> /\ task'.established = task.established
    <3>1. task' \in {[task EXCEPT !.batch = <<>>],
                     [[task EXCEPT !.good = FALSE] EXCEPT !.batch = <<>>]}
      BY <1>3 DEF Read, Unexpected
    <3>2. task'.batch = <<>> /\ task'.established = task.established
      BY <1>1, <3>1 DEF TaskTypes
    <3>3. Is(pc', "loop", 1) \/ Is(pc', "failed", 1)
      BY <1>3 DEF Read, Unexpected, Enter
    <3> QED BY <1>1, <1>3, <3>2, <3>3 DEF InRequest
  <2>2. Delivery /\ BatchInv'
    BY <1>1, <2>1 DEF Delivery, Unsent, BatchInv
  <2> QED BY <1>1, <1>3, <2>1, <2>2, DeliveryKeepsOrderInv
          DEF InRequest, OrderInv, BeforeInv
<1> QED BY <1>2, <1>3

LEMMA WaitingDelivers ==
    ASSUME TypeInv, TypeInv', OrderInv,
           Terminate \/ TakeResponse \/ ClearResponse \/ GiveUpWaiting \/ Retry
    PROVE  OrderInv'
<1> USE StepsAre DEF At, Is
<1>1. /\ UNCHANGED forger /\ UNCHANGED posted
      /\ pc \in Places /\ pc' \in Places /\ task \in TaskTypes
      /\ task'.established = task.established
  BY DEF Terminate, TakeResponse, ClearResponse, GiveUpWaiting, Retry,
         TypeInv, TaskTypes, history
<1>2. CASE Terminate
  <2>1. /\ pc.in \in {"get", "post"}
        /\ pc'.in \in {"device", "post", "sequencer"} /\ pc'.at = 1
        /\ task.batch = <<>> /\ task'.batch = <<>>
    BY <1>1, <1>2 DEF Terminate, Enter, OrderInv, BatchInv, TaskTypes
  <2>2. Delivery /\ BatchInv'
    BY <1>1, <2>1 DEF Delivery, Unsent, BatchInv
  <2> QED BY <1>1, <2>1, <2>2, DeliveryKeepsOrderInv DEF OrderInv, SequenceInv
<1>3. CASE TakeResponse \/ ClearResponse
  <2>1. /\ pc.in \in {"get", "post", "loop"} /\ pc'.in = pc.in
        /\ ~At("data")' /\ ~At("action")'
        /\ task'.batch = task.batch
    BY <1>1, <1>3, PlacesAre
       DEF TakeResponse, ClearResponse, Continue, Enter, TaskTypes
  <2>2. Delivery /\ BatchInv'
    BY <1>1, <2>1 DEF Delivery, Unsent, OrderInv, BatchInv
  <2> QED BY <1>1, <2>1, <2>2, DeliveryKeepsOrderInv
          DEF OrderInv, BeforeInv, SequenceInv
<1>4. CASE GiveUpWaiting
  <2>1. /\ pc'.in = IF pc.in = "loop" THEN "failed" ELSE "device"
        /\ pc.in \in {"get", "post", "loop"} /\ task'.batch = <<>>
        /\ pc'.at = 1
    BY <1>1, <1>4, PlacesAre DEF GiveUpWaiting, Enter, InRequest, TaskTypes
  <2>2. Delivery /\ BatchInv'
    BY <1>1, <2>1 DEF Delivery, Unsent, BatchInv
  <2> QED BY <1>1, <2>1, <2>2, DeliveryKeepsOrderInv
          DEF OrderInv, BeforeInv, SequenceInv
<1>5. CASE Retry
  <2>1. /\ pc.in = "failed" /\ pc'.in \in {"device", "setup"}
        /\ task'.batch = <<>> /\ task.batch = <<>>
    BY <1>1, <1>5, PlacesAre DEF Retry, Enter, OrderInv, BatchInv, TaskTypes
  <2>2. Delivery /\ BatchInv'
    BY <1>1, <2>1 DEF Delivery, Unsent, BatchInv
  <2> QED BY <1>1, <2>1, <2>2, DeliveryKeepsOrderInv DEF OrderInv, BeforeInv
<1> QED BY <1>2, <1>3, <1>4, <1>5

LEMMA SequencerDelivers ==
    ASSUME TypeInv, TypeInv', OrderInv,
           ResetSequencer \/ TakePackets
    PROVE  OrderInv'
<1> USE StepsAre DEF At, Is
<1>1. /\ pc \in Places /\ pc' \in Places /\ task \in TaskTypes
      /\ UNCHANGED <<forging, draft, raced, posted>>
  BY DEF ResetSequencer, TakePackets, TypeInv, SetReady, ResetSeq,
         ResetRng, PopPackets, history
<1>2. CASE ResetSequencer
  <2>1. /\ pc.in = "sequencer" /\ ~task.established
        /\ UNCHANGED packets /\ task'.batch = task.batch /\ task.batch = <<>>
        /\ posted = <<>> /\ (~raced => forging = "test" /\ packets = <<>>)
    BY <1>1, <1>2 DEF ResetSequencer, SetReady, ResetSeq, ResetRng, TaskTypes,
       OrderInv, BeforeInv, SequenceInv, BatchInv
  <2>2. BatchInv'
    BY <2>1 DEF BatchInv
  <2>3. CASE At("rng")
    <3>1. /\ task'.established /\ Is(pc', "setup", 1) /\ rng' = "iv"
          /\ Unsent' = <<>>
      BY <1>1, <1>2, <2>3
         DEF ResetSequencer, ResetRng, Enter, TaskTypes, Unsent
    <3>2. Ordered(<<>>, <<>>, <<>>, NextNumber')
      BY NothingIsOrdered
    <3> QED BY <1>1, <2>1, <2>2, <3>1, <3>2
            DEF OrderInv, BeforeInv, SequenceInv, InHand
  <2>4. CASE ~At("rng")
    <3>1. /\ ~task'.established /\ pc'.in = "sequencer" /\ pc'.at > 1
          /\ ready'
      BY <1>1, <1>2, <2>1, <2>4, PlacesAre
         DEF ResetSequencer, SetReady, ResetSeq, Continue, Enter, OrderInv,
             BeforeInv
    <3> QED BY <1>1, <2>1, <2>2, <3>1 DEF OrderInv, BeforeInv, SequenceInv
  <2> QED BY <2>3, <2>4
<1>3. CASE TakePackets
  <2>1. /\ Is(pc, "loop", 1) /\ Is(pc', "loop", 2) /\ PopPackets
        /\ task'.batch = PendingPackets
        /\ task'.established = task.established
        /\ UNCHANGED <<ready, seq, rng>>
    BY <1>1, <1>3, PlacesAre DEF TakePackets, PopPackets, Continue, TaskTypes
  <2>2. task.established
    BY <2>1 DEF OrderInv, BeforeInv
  <2>3. Unsent = <<>> /\ Unsent' = PendingPackets
    BY <1>1, <2>1 DEF Unsent
  <2>4. UNCHANGED NextNumber /\ packets \in Seq(Packet)
    BY <1>1, <2>1 DEF NextNumber, InHand, TypeInv, ForgerTypeOK
  <2>5. Ordered(posted, Unsent, packets, NextNumber) =>
            Ordered(posted, Unsent, packets, NextNumber)'
    BY <1>1, <2>1, <2>3, <2>4, TakingKeepsOrder
  <2> QED BY <1>1, <2>1, <2>2, <2>5
          DEF OrderInv, BeforeInv, SequenceInv, BatchInv, InHand
<1> QED BY <1>2, <1>3

LEMMA ForgerDelivers ==
    ASSUME TypeInv, TypeInv', OrderInv, ForgerSteps
    PROVE  OrderInv'
<1>1. /\ UNCHANGED <<pc, task, posted, Unsent>>
      /\ pc \in Places
      /\ posted \in Seq(Packet) /\ Unsent \in Seq(Packet)
      /\ packets \in Seq(Packet) /\ draft \in Packet /\ seq \in Nat
  BY EmptySeq DEF ForgerSteps, history, Unsent, TypeInv, TaskTypes, At,
     ForgerTypeOK
<1>2. BatchInv'
  BY <1>1 DEF OrderInv, BatchInv
<1>3. UNCHANGED ready
  BY DEF ForgerSteps, Forge, TestReady, LoadSeq, StoreSeq, LoadRng, StoreRng,
         QueuePacket
<1>4. raced => raced'
  BY Zenon DEF ForgerSteps, Forge, TestReady, LoadSeq, StoreSeq, LoadRng,
         StoreRng, QueuePacket
<1>5. BeforeInv'
  <2> SUFFICES ASSUME ~task.established, ~raced'
               PROVE  forging' = "test" /\ packets' = <<>>
    BY <1>1, <1>3 DEF OrderInv, BeforeInv
  <2>1. /\ forging = "test" /\ ~raced
        /\ ready => pc.in = "sequencer" /\ pc.at > 1
    BY <1>4 DEF OrderInv, BeforeInv
  <2>2. TestReady(pc.in = "sequencer" /\ ~At("ready"))
    BY <2>1 DEF ForgerSteps, Forge, LoadSeq, StoreSeq, LoadRng, StoreRng,
           QueuePacket
  <2>3. pc.in = "sequencer" /\ ~At("ready")
    BY <1>1, <2>1, <2>2, StepsAre DEF TestReady, At, Is
  <2> QED BY <2>2, <2>3 DEF TestReady
<1>6. SequenceInv'
  <2> SUFFICES ASSUME task.established, ~raced, ~raced' PROVE SequenceInv'
    BY <1>1, <1>4 DEF OrderInv, SequenceInv
  <2>1. /\ pc.in \in {"device", "setup", "loop", "failed"} /\ rng = "iv"
        /\ forging = "store" => draft.seq = seq
        /\ InHand => seq = draft.seq + 1
        /\ forging \in {"storeRng", "queue"} => draft.rng = "iv"
        /\ Ordered(posted, Unsent, packets, NextNumber)
    BY DEF OrderInv, SequenceInv
  <2> USE <1>1, <2>1 DEF InHand, NextNumber, SequenceInv
  <2>2. CASE forging = "test" /\ forging' = "load"
             /\ UNCHANGED <<seq, rng, draft, packets>>
    BY <2>2
  <2>3. CASE LoadSeq
    BY <2>3 DEF LoadSeq, Packet
  <2>4. CASE StoreSeq
    BY <2>4 DEF StoreSeq
  <2>5. CASE LoadRng
    BY <2>5 DEF LoadRng, Packet
  <2>6. CASE StoreRng
    BY <2>6 DEF StoreRng
  <2>7. CASE QueuePacket /\ Len(packets) < QueueSize
    <3>1. /\ packets' = Append(packets, draft) /\ forging' = "test"
          /\ UNCHANGED <<seq, rng, draft>>
          /\ NextNumber = draft.seq /\ NextNumber' = draft.seq + 1
          /\ draft.rng = "iv"
      BY <2>7 DEF QueuePacket
    <3>2. Ordered(posted, Unsent, packets', draft.seq + 1)
      BY <3>1, QueueingKeepsOrder
    <3> QED BY <3>1, <3>2
  <2>8. CASE QueuePacket /\ ~(Len(packets) < QueueSize)
    <3>1. /\ packets' = packets /\ forging' = "test"
          /\ UNCHANGED <<seq, rng, draft>>
          /\ NextNumber = draft.seq /\ NextNumber' = draft.seq + 1
      BY <2>8 DEF QueuePacket
    <3>2. Ordered(posted, Unsent, packets, draft.seq + 1)
      <4>1. draft.seq \in Nat /\ Ordered(posted, Unsent, packets, draft.seq)
        BY <3>1 DEF Packet
      <4> HIDE DEF NextNumber
      <4> QED BY <4>1, LaterKeepsOrder
    <3> QED BY <3>1, <3>2
  <2>9. CASE TestReady(pc.in = "sequencer" /\ ~At("ready"))
    BY <2>2, <2>9 DEF TestReady
  <2> QED BY <2>3, <2>4, <2>5, <2>6, <2>7, <2>8, <2>9 DEF ForgerSteps, Forge
<1> QED BY <1>2, <1>5, <1>6 DEF OrderInv

LEMMA OthersDeliver ==
    ASSUME TypeInv, TypeInv', OrderInv,
           \/ IncomingReply \/ Boots \/ Unmark \/ BrownOut
           \/ UNCHANGED vars
    PROVE  OrderInv'
<1>1. /\ UNCHANGED <<ready, seq, rng, forging, draft, packets, raced>>
      /\ UNCHANGED <<pc, task, posted>>
  BY DEF IncomingReply, Boots, Unmark, BrownOut, vars, forger, history
<1>2. UNCHANGED <<Unsent, NextNumber>>
  BY <1>1 DEF Unsent, NextNumber, InHand, At
<1> QED BY <1>1, <1>2
        DEF OrderInv, BeforeInv, SequenceInv, BatchInv, InHand

\* The order of three sequences is that of one after the other.
LEMMA OrderedInLine ==
    ASSUME NEW sent \in Seq(Packet), NEW taken \in Seq(Packet),
           NEW queued \in Seq(Packet), NEW next,
           Ordered(sent, taken, queued, next)
    PROVE  LET line == sent \o taken \o queued
           IN  /\ \A k \in DOMAIN line : line[k].rng = "iv"
               /\ \A k, l \in DOMAIN line : k < l => line[k].seq < line[l].seq
<1>1. /\ sent \o taken \in Seq(Packet)
      /\ Ordered(sent \o taken, <<>>, queued, next)
  BY PostingKeepsOrder, ConcatProperties
<1>2. Ordered(sent \o taken, queued, <<>>, next)
  <2>1. Len(<<>>) = 0
    BY EmptySeq
  <2> QED BY <1>1, <2>1 DEF Ordered, Numbered, Sorted, Under
<1>3. Ordered((sent \o taken) \o queued, <<>>, <<>>, next)
  BY <1>1, <1>2, PostingKeepsOrder
<1>4. DOMAIN ((sent \o taken) \o queued) = 1..Len((sent \o taken) \o queued)
  BY <1>1, ConcatProperties, LenProperties
<1> QED BY <1>3, <1>4 DEF Ordered, Numbered, Sorted

\* Packets reach the server in the order of their numbers, no number twice,
\* and with a random number of the session, whatever was dropped, given up or
\* lost, unless the forger came between the stores of reset_sequencer
\* (Session over PacketForger; m_last_seq_id is only reset before posting).
THEOREM PacketsAreInOrder == Spec => []NumbersIncrease
<1>1. Init => OrderInv
  BY RoutinesAre
     DEF Init, ForgerInit, OrderInv, BeforeInv, SequenceInv, BatchInv
<1>2. TypeInv /\ TypeInv' /\ OrderInv /\ [Next]_vars => OrderInv'
  <2> SUFFICES ASSUME TypeInv, TypeInv', OrderInv, [Next]_vars
               PROVE  OrderInv'
    OBVIOUS
  <2> QED BY DeviceDelivers, CommandDelivers, ReadDelivers,
             WaitingDelivers, SequencerDelivers, ForgerDelivers, OthersDeliver
          DEF Next, Main
<1>3. TypeInv /\ OrderInv => NumbersIncrease
  <2> SUFFICES ASSUME TypeInv, OrderInv, ~raced PROVE NumbersIncrease
    BY DEF NumbersIncrease
  <2>1. Ordered(posted, Unsent, packets, NextNumber)
    <3>1. CASE task.established
      BY <3>1 DEF OrderInv, SequenceInv
    <3>2. CASE ~task.established
      <4>1. posted = <<>> /\ packets = <<>> /\ Unsent = <<>>
        BY <3>2 DEF OrderInv, BeforeInv, BatchInv, Unsent
      <4> QED BY <4>1, NothingIsOrdered
    <3> QED BY <3>1, <3>2
  <2>2. /\ posted \in Seq(Packet) /\ Unsent \in Seq(Packet)
        /\ packets \in Seq(Packet)
    BY EmptySeq
       DEF TypeInv, ForgerTypeOK, TaskTypes, Unsent
  <2> QED BY <2>1, <2>2, OrderedInLine DEF NumbersIncrease, Unsent
<1>4. Spec => []TypeInv
  BY TypeInvHolds
<1> QED BY <1>1, <1>2, <1>3, <1>4, PTL DEF Spec
=============================================================================
