---------------------------- MODULE ServiceProofs ----------------------------
(***************************************************************************)
(* The coordinator implements CommandService, for any callers, any queue   *)
(* size and any behaviour of the modem: its initial states are those of    *)
(* the service, and each of its steps is one of the service's or none.     *)
(***************************************************************************)
EXTENDS GSMCoordinatorProofs

USE DEF callerVars, helperVars, flagVars, modemVars, coordinatorVars

-----------------------------------------------------------------------------
(* The order of the calls, by stages of the pipeline.                      *)

IsActive(c) == active # NoCommand /\ active.who = c
InCmdq(c) == \E i \in 1..Len(cmdq) : cmdq[i].who = c
CallAt(i, c) == queue[i].type = "command" /\ queue[i].who = c
InQueue(c) == \E i \in 1..Len(queue) : CallAt(i, c)

Precedes(c, d) ==
    \/ IsActive(c) /\ InCmdq(d)
    \/ IsActive(c) /\ InQueue(d)
    \/ InCmdq(c) /\ InQueue(d)
    \/ \E i, j \in 1..Len(cmdq) : i < j /\ cmdq[i].who = c /\ cmdq[j].who = d
    \/ \E i, j \in 1..Len(queue) : i < j /\ CallAt(i, c) /\ CallAt(j, d)

Accepted(c) == task[c] = "waiting" /\ ~sema[c]

\* What the stages of a position are.
LEMMA PositionsAre ==
    ASSUME TypeOK
    PROVE  /\ \A p \in Positions :
                 \/ p = <<0, 0>> /\ Element(p) = active
                 \/ \E i \in 1..Len(cmdq) :
                       p = <<1, i>> /\ Element(p) = cmdq[i]
                 \/ \E i \in 1..Len(queue) :
                       p = <<2, i>> /\ Element(p) = queue[i]
           /\ <<0, 0>> \in Positions /\ Element(<<0, 0>>) = active
           /\ \A i \in 1..Len(cmdq) :
                 <<1, i>> \in Positions /\ Element(<<1, i>>) = cmdq[i]
           /\ \A i \in 1..Len(queue) :
                 <<2, i>> \in Positions /\ Element(<<2, i>>) = queue[i]
<1>1. /\ DOMAIN cmdq = 1..Len(cmdq)
      /\ DOMAIN queue = 1..Len(queue)
  BY DEF TypeOK
<1> QED BY <1>1 DEF Positions, Element

\* The places of a caller's command.
LEMMA PlacesAre ==
    ASSUME TypeOK, NEW c \in Callers
    PROVE  /\ \A p \in Places(c) :
                 \/ p = <<0, 0>> /\ IsActive(c)
                 \/ \E i \in 1..Len(cmdq) : p = <<1, i>> /\ cmdq[i].who = c
                 \/ \E i \in 1..Len(queue) : p = <<2, i>> /\ CallAt(i, c)
           /\ IsActive(c) => <<0, 0>> \in Places(c)
           /\ \A i \in 1..Len(cmdq) :
                 cmdq[i].who = c => <<1, i>> \in Places(c)
           /\ \A i \in 1..Len(queue) :
                 CallAt(i, c) => <<2, i>> \in Places(c)
<1>1. ASSUME NEW p \in Places(c)
      PROVE  \/ p = <<0, 0>> /\ IsActive(c)
             \/ \E i \in 1..Len(cmdq) : p = <<1, i>> /\ cmdq[i].who = c
             \/ \E i \in 1..Len(queue) : p = <<2, i>> /\ CallAt(i, c)
  <2>1. p \in Positions /\ Element(p).type = "command" /\ Element(p).who = c
    BY DEF Places
  <2> QED BY <2>1, PositionsAre, StageTypes DEF IsActive, CallAt
<1>2. ASSUME IsActive(c) PROVE <<0, 0>> \in Places(c)
  BY <1>2, PositionsAre, StageTypes DEF Places, IsActive
<1>3. ASSUME NEW i \in 1..Len(cmdq), cmdq[i].who = c
      PROVE  <<1, i>> \in Places(c)
  BY <1>3, PositionsAre, StageTypes DEF Places
<1>4. ASSUME NEW i \in 1..Len(queue), CallAt(i, c)
      PROVE  <<2, i>> \in Places(c)
  BY <1>4, PositionsAre, StageTypes DEF Places, CallAt
<1> QED BY <1>1, <1>2, <1>3, <1>4

\* Ahead, without positions.
LEMMA AheadIs ==
    ASSUME TypeOK
    PROVE  /\ Ahead \subseteq Callers \X Callers
           /\ \A c, d \in Callers : <<c, d>> \in Ahead <=> Precedes(c, d)
<1>1. Ahead \subseteq Callers \X Callers
  BY DEF Ahead
<1>2. ASSUME NEW c \in Callers, NEW d \in Callers
      PROVE  <<c, d>> \in Ahead <=> \E p \in Places(c), q \in Places(d) :
                                       Before(p, q)
  BY DEF Ahead
<1>3. ASSUME NEW c \in Callers, NEW d \in Callers,
             NEW p \in Places(c), NEW q \in Places(d), Before(p, q)
      PROVE  Precedes(c, d)
  <2>1. CASE p = <<0, 0>> /\ IsActive(c)
    BY <1>3, <2>1, PlacesAre, StageTypes
       DEF Before, Precedes, InCmdq, InQueue
  <2>2. ASSUME NEW i \in 1..Len(cmdq), p = <<1, i>>, cmdq[i].who = c
        PROVE  Precedes(c, d)
    <3>1. CASE q = <<0, 0>>
      BY <1>3, <2>2, <3>1, StageTypes DEF Before
    <3>2. ASSUME NEW j \in 1..Len(cmdq), q = <<1, j>>, cmdq[j].who = d
          PROVE  Precedes(c, d)
      <4>1. i < j
        BY <1>3, <2>2, <3>2 DEF Before
      <4> QED BY <2>2, <3>2, <4>1 DEF Precedes
    <3>3. ASSUME NEW j \in 1..Len(queue), CallAt(j, d)
          PROVE  Precedes(c, d)
      BY <2>2, <3>3 DEF Precedes, InCmdq, InQueue
    <3> QED BY <3>1, <3>2, <3>3, PlacesAre
  <2>3. ASSUME NEW i \in 1..Len(queue), p = <<2, i>>, CallAt(i, c)
        PROVE  Precedes(c, d)
    <3>1. CASE q = <<0, 0>>
      BY <1>3, <2>3, <3>1, StageTypes DEF Before
    <3>2. ASSUME NEW j \in 1..Len(cmdq), q = <<1, j>>
          PROVE  FALSE
      BY <1>3, <2>3, <3>2 DEF Before
    <3>3. ASSUME NEW j \in 1..Len(queue), q = <<2, j>>, CallAt(j, d)
          PROVE  Precedes(c, d)
      <4>1. i < j
        BY <1>3, <2>3, <3>3 DEF Before
      <4> QED BY <2>3, <3>3, <4>1 DEF Precedes
    <3> QED BY <3>1, <3>2, <3>3, PlacesAre
  <2> QED BY <2>1, <2>2, <2>3, PlacesAre
<1>4. ASSUME NEW c \in Callers, NEW d \in Callers, Precedes(c, d)
      PROVE  \E p \in Places(c), q \in Places(d) : Before(p, q)
  <2>1. ASSUME IsActive(c), InCmdq(d)
        PROVE  \E p \in Places(c), q \in Places(d) : Before(p, q)
    <3>1. PICK j \in 1..Len(cmdq) : cmdq[j].who = d
      BY <2>1 DEF InCmdq
    <3>2. <<0, 0>> \in Places(c) /\ <<1, j>> \in Places(d)
      BY <2>1, <3>1, PlacesAre
    <3>3. Before(<<0, 0>>, <<1, j>>)
      BY DEF Before
    <3> QED BY <3>2, <3>3
  <2>2. ASSUME IsActive(c), InQueue(d)
        PROVE  \E p \in Places(c), q \in Places(d) : Before(p, q)
    <3>1. PICK j \in 1..Len(queue) : CallAt(j, d)
      BY <2>2 DEF InQueue
    <3>2. <<0, 0>> \in Places(c) /\ <<2, j>> \in Places(d)
      BY <2>2, <3>1, PlacesAre
    <3>3. Before(<<0, 0>>, <<2, j>>)
      BY DEF Before
    <3> QED BY <3>2, <3>3
  <2>3. ASSUME InCmdq(c), InQueue(d)
        PROVE  \E p \in Places(c), q \in Places(d) : Before(p, q)
    <3>1. PICK i \in 1..Len(cmdq) : cmdq[i].who = c
      BY <2>3 DEF InCmdq
    <3>2. PICK j \in 1..Len(queue) : CallAt(j, d)
      BY <2>3 DEF InQueue
    <3>3. <<1, i>> \in Places(c) /\ <<2, j>> \in Places(d)
      BY <3>1, <3>2, PlacesAre
    <3>4. Before(<<1, i>>, <<2, j>>)
      BY DEF Before
    <3> QED BY <3>3, <3>4
  <2>4. ASSUME NEW i \in 1..Len(cmdq), NEW j \in 1..Len(cmdq), i < j,
               cmdq[i].who = c, cmdq[j].who = d
        PROVE  \E p \in Places(c), q \in Places(d) : Before(p, q)
    <3>1. <<1, i>> \in Places(c) /\ <<1, j>> \in Places(d)
      BY <2>4, PlacesAre
    <3>2. Before(<<1, i>>, <<1, j>>)
      BY <2>4 DEF Before
    <3> QED BY <3>1, <3>2
  <2>5. ASSUME NEW i \in 1..Len(queue), NEW j \in 1..Len(queue), i < j,
               CallAt(i, c), CallAt(j, d)
        PROVE  \E p \in Places(c), q \in Places(d) : Before(p, q)
    <3>1. <<2, i>> \in Places(c) /\ <<2, j>> \in Places(d)
      BY <2>5, PlacesAre
    <3>2. Before(<<2, i>>, <<2, j>>)
      BY <2>5 DEF Before
    <3> QED BY <3>1, <3>2
  <2> QED BY <1>4, <2>1, <2>2, <2>3, <2>4, <2>5 DEF Precedes
<1> QED BY <1>1, <1>2, <1>3, <1>4

\* The calls in the pipeline are those that have been accepted.
LEMMA HeldIsAccepted ==
    ASSUME PipelineInv, NEW c \in Callers
    PROVE  /\ Held(c) <=> Accepted(c)
           /\ Held(c) <=> IsActive(c) \/ InCmdq(c) \/ InQueue(c)
<1>1. Held(c) <=> IsActive(c) \/ InCmdq(c) \/ InQueue(c)
  BY DEF Held, IsActive, InCmdq, InQueue, CallAt
<1>2. ASSUME Held(c) PROVE Accepted(c)
  BY <1>2, StageTypes DEF Held, PipelineInv, StagesLive, Live, Accepted
<1>3. ASSUME Accepted(c) PROVE Held(c)
  BY <1>3 DEF Accepted, PipelineInv, WaitingHeld
<1> QED BY <1>1, <1>2, <1>3

\* A caller has a call in one stage at most.
LEMMA StagesApart ==
    ASSUME PipelineInv, NEW c \in Callers
    PROVE  /\ ~(IsActive(c) /\ InCmdq(c))
           /\ ~(IsActive(c) /\ InQueue(c))
           /\ ~(InCmdq(c) /\ InQueue(c))
           /\ \A i, j \in 1..Len(cmdq) :
                 cmdq[i].who = c /\ cmdq[j].who = c => i = j
           /\ \A i, j \in 1..Len(queue) : CallAt(i, c) /\ CallAt(j, c) => i = j
BY DEF PipelineInv, StagesDisjoint, IsActive, InCmdq, InQueue, CallAt

\* The calls in the pipeline have an order: of two, one precedes the other.
LEMMA OneOrder ==
    ASSUME PipelineInv, NEW c \in Callers, NEW d \in Callers
    PROVE  /\ Precedes(c, d) => Held(c) /\ Held(d) /\ c # d
           /\ ~(Precedes(c, d) /\ Precedes(d, c))
           /\ Held(c) /\ Held(d) /\ c # d => Precedes(c, d) \/ Precedes(d, c)
<1>1. Len(cmdq) \in Nat /\ Len(queue) \in Nat
  BY StageTypes DEF PipelineInv
<1>2. ASSUME Precedes(c, d)
      PROVE  Held(c) /\ Held(d) /\ c # d /\ ~Precedes(d, c)
  <2>1. CASE IsActive(c) /\ (InCmdq(d) \/ InQueue(d))
    <3>1. ~IsActive(d) /\ ~InCmdq(c) /\ ~InQueue(c)
      BY <2>1, StagesApart
    <3>2. ~Precedes(d, c)
      BY <3>1 DEF Precedes, InCmdq, InQueue
    <3> QED BY <2>1, <3>1, <3>2, HeldIsAccepted
  <2>2. CASE InCmdq(c) /\ InQueue(d)
    <3>1. ~IsActive(d) /\ ~InCmdq(d) /\ ~InQueue(c)
      BY <2>2, StagesApart
    <3>2. ~Precedes(d, c)
      BY <3>1 DEF Precedes, InCmdq, InQueue
    <3> QED BY <2>2, <3>1, <3>2, HeldIsAccepted
  <2>3. ASSUME NEW i \in 1..Len(cmdq), NEW j \in 1..Len(cmdq), i < j,
               cmdq[i].who = c, cmdq[j].who = d
        PROVE  Held(c) /\ Held(d) /\ c # d /\ ~Precedes(d, c)
    <3>1. InCmdq(c) /\ InCmdq(d)
      BY <2>3 DEF InCmdq
    <3>2. /\ ~IsActive(d) /\ ~IsActive(c) /\ ~InQueue(c) /\ ~InQueue(d)
          /\ c # d
          /\ \A k, l \in 1..Len(cmdq) :
                ~(k < l /\ cmdq[k].who = d /\ cmdq[l].who = c)
      BY <1>1, <2>3, <3>1, StagesApart
    <3>3. ~Precedes(d, c)
      BY <3>2 DEF Precedes, InQueue
    <3> QED BY <3>1, <3>2, <3>3, HeldIsAccepted
  <2>4. ASSUME NEW i \in 1..Len(queue), NEW j \in 1..Len(queue), i < j,
               CallAt(i, c), CallAt(j, d)
        PROVE  Held(c) /\ Held(d) /\ c # d /\ ~Precedes(d, c)
    <3>1. InQueue(c) /\ InQueue(d)
      BY <2>4 DEF InQueue
    <3>2. /\ ~IsActive(d) /\ ~IsActive(c) /\ ~InCmdq(c) /\ ~InCmdq(d)
          /\ c # d
          /\ \A k, l \in 1..Len(queue) :
                ~(k < l /\ CallAt(k, d) /\ CallAt(l, c))
      BY <1>1, <2>4, <3>1, StagesApart
    <3>3. ~Precedes(d, c)
      BY <3>2 DEF Precedes, InCmdq
    <3> QED BY <3>1, <3>2, <3>3, HeldIsAccepted
  <2> QED BY <1>2, <2>1, <2>2, <2>3, <2>4 DEF Precedes
<1>3. ASSUME Held(c), Held(d), c # d
      PROVE  Precedes(c, d) \/ Precedes(d, c)
  <2>1. /\ IsActive(c) \/ InCmdq(c) \/ InQueue(c)
        /\ IsActive(d) \/ InCmdq(d) \/ InQueue(d)
    BY <1>3, HeldIsAccepted
  <2>2. ~(IsActive(c) /\ IsActive(d))
    BY <1>3 DEF IsActive
  <2>3. CASE InCmdq(c) /\ InCmdq(d)
    <3>1. PICK i \in 1..Len(cmdq) : cmdq[i].who = c
      BY <2>3 DEF InCmdq
    <3>2. PICK j \in 1..Len(cmdq) : cmdq[j].who = d
      BY <2>3 DEF InCmdq
    <3>3. i < j \/ j < i
      BY <1>1, <1>3, <3>1, <3>2
    <3> QED BY <3>1, <3>2, <3>3 DEF Precedes
  <2>4. CASE InQueue(c) /\ InQueue(d)
    <3>1. PICK i \in 1..Len(queue) : CallAt(i, c)
      BY <2>4 DEF InQueue
    <3>2. PICK j \in 1..Len(queue) : CallAt(j, d)
      BY <2>4 DEF InQueue
    <3>3. i < j \/ j < i
      BY <1>1, <1>3, <3>1, <3>2 DEF CallAt
    <3> QED BY <3>1, <3>2, <3>3 DEF Precedes
  <2> QED BY <2>1, <2>2, <2>3, <2>4 DEF Precedes
<1> QED BY <1>2, <1>3

\* What has been shown of the calls, of this state and of the next.
Facts ==
    /\ Ahead \subseteq Callers \X Callers
    /\ \A c, d \in Callers : <<c, d>> \in Ahead <=> Precedes(c, d)
    /\ \A c \in Callers : Held(c) <=> Accepted(c)
    /\ \A c, d \in Callers :
          /\ Precedes(c, d) => Accepted(c) /\ Accepted(d) /\ c # d
          /\ ~(Precedes(c, d) /\ Precedes(d, c))
          /\ Accepted(c) /\ Accepted(d) /\ c # d
                => Precedes(c, d) \/ Precedes(d, c)

\* The pipeline's invariant gives them.
LEMMA FactsNow == PipelineInv => Facts
<1> SUFFICES ASSUME PipelineInv PROVE Facts
  OBVIOUS
<1>1. TypeOK
  BY DEF PipelineInv
<1> QED BY <1>1, AheadIs, HeldIsAccepted, OneOrder DEF Facts

\* So does the next state's.
LEMMA FactsThen == PipelineInv' => Facts'
BY FactsNow, PTL

\* If the order of the calls that stay is kept one way, it is the same.
LEMMA OrderKept ==
    ASSUME Facts, Facts',
           \A c, d \in Callers :
              Precedes(c, d) /\ Accepted(c)' /\ Accepted(d)'
                 => Precedes(c, d)'
    PROVE  \A c, d \in Callers :
              Accepted(c) /\ Accepted(d) /\ Accepted(c)' /\ Accepted(d)'
                 => (<<c, d>> \in Ahead <=> <<c, d>> \in Ahead')
<1> SUFFICES ASSUME NEW c \in Callers, NEW d \in Callers,
                    Accepted(c), Accepted(d), Accepted(c)', Accepted(d)'
             PROVE  Precedes(c, d) <=> Precedes(c, d)'
  BY DEF Facts
<1>1. ASSUME Precedes(c, d)' PROVE Precedes(c, d)
  <2>1. c # d /\ ~Precedes(d, c)'
    BY <1>1 DEF Facts
  <2>2. ~Precedes(d, c)
    BY <2>1
  <2> QED BY <2>1, <2>2 DEF Facts
<1> QED BY <1>1

\* The calls stay, and so does their order.
LEMMA NobodyMoves ==
    ASSUME Facts, Facts', \A c \in Callers : Accepted(c)' <=> Accepted(c),
           \A c, d \in Callers : Precedes(c, d) => Precedes(c, d)'
    PROVE  Ahead' = Ahead
<1>1. \A c, d \in Callers : <<c, d>> \in Ahead <=> <<c, d>> \in Ahead'
  BY OrderKept DEF Facts
<1> QED BY <1>1 DEF Facts

\* The call nobody is ahead of leaves, and the others keep their order.
LEMMA FirstLeaves ==
    ASSUME Facts, Facts', NEW x \in Callers,
           \A c \in Callers : Accepted(c)' <=> Accepted(c) /\ c # x,
           \A c \in Callers : ~Precedes(c, x),
           \A c, d \in Callers :
              c # x /\ d # x /\ Precedes(c, d) => Precedes(c, d)'
    PROVE  /\ \A c \in Callers : <<c, x>> \notin Ahead
           /\ Ahead' = {p \in Ahead : p[1] # x}
<1>1. \A c \in Callers : <<c, x>> \notin Ahead
  BY DEF Facts
<1>2. \A c, d \in Callers : <<c, d>> \in Ahead' <=>
                               <<c, d>> \in Ahead /\ c # x
  <2> SUFFICES ASSUME NEW c \in Callers, NEW d \in Callers
               PROVE  <<c, d>> \in Ahead' <=> <<c, d>> \in Ahead /\ c # x
    OBVIOUS
  <2>1. CASE Accepted(c) /\ Accepted(d) /\ c # x /\ d # x
    BY <2>1, OrderKept
  <2>2. CASE ~(Accepted(c) /\ Accepted(d) /\ c # x /\ d # x)
    BY <1>1, <2>2 DEF Facts
  <2> QED BY <2>1, <2>2
<1>3. \A p \in Callers \X Callers :
         p = <<p[1], p[2]>> /\ p[1] \in Callers /\ p[2] \in Callers
  OBVIOUS
<1>4. \A p : p \in Ahead' <=> p \in Ahead /\ p[1] # x
  <2>1. /\ Ahead \subseteq Callers \X Callers
        /\ Ahead' \subseteq Callers \X Callers
    BY DEF Facts
  <2>2. \A p \in Callers \X Callers : p \in Ahead' <=> p \in Ahead /\ p[1] # x
    BY <1>2, <1>3
  <2> QED BY <2>1, <2>2
<1> QED BY <1>1, <1>4

\* A call comes in behind all others.
LEMMA LastEnters ==
    ASSUME Facts, Facts', NEW x \in Callers, ~Accepted(x),
           \A c \in Callers : Accepted(c)' <=> Accepted(c) \/ c = x,
           \A c \in Callers : Accepted(c) => Precedes(c, x)',
           \A c, d \in Callers : Precedes(c, d) => Precedes(c, d)'
    PROVE  Ahead' = Ahead \cup {<<c, x>> : c \in {e \in Callers : Accepted(e)}}
<1> DEFINE more == {<<c, x>> : c \in {e \in Callers : Accepted(e)}}
<1>1. ASSUME NEW c \in Callers, NEW d \in Callers
      PROVE  <<c, d>> \in more <=> Accepted(c) /\ d = x
  OBVIOUS
<1>2. more \subseteq Callers \X Callers
  OBVIOUS
<1> HIDE DEF more
<1>3. ASSUME NEW c \in Callers, NEW d \in Callers
      PROVE  <<c, d>> \in Ahead' <=> <<c, d>> \in Ahead \cup more
  <2>1. CASE Accepted(c) /\ Accepted(d)
    <3>1. <<c, d>> \in Ahead' <=> <<c, d>> \in Ahead
      BY <2>1, OrderKept
    <3>2. d # x
      BY <2>1
    <3> QED BY <1>1, <3>1, <3>2
  <2>2. CASE Accepted(c) /\ d = x
    <3>1. Precedes(c, d)'
      BY <2>2
    <3> QED BY <1>1, <2>2, <3>1 DEF Facts
  <2>3. CASE c = x
    <3>1. <<c, d>> \notin Ahead /\ <<c, d>> \notin more
      BY <1>1, <2>3 DEF Facts
    <3>2. ASSUME Precedes(c, d)' PROVE FALSE
      <4>1. c # d /\ Accepted(d)' /\ ~Precedes(d, c)'
        BY <3>2 DEF Facts
      <4>2. Accepted(d)
        BY <2>3, <4>1
      <4>3. Precedes(d, c)'
        BY <2>3, <4>2
      <4> QED BY <4>1, <4>3
    <3> QED BY <3>1, <3>2 DEF Facts
  <2>4. CASE ~Accepted(c) /\ c # x
    BY <1>1, <2>4 DEF Facts
  <2>5. CASE ~Accepted(d) /\ d # x
    BY <1>1, <2>5 DEF Facts
  <2> QED BY <2>1, <2>2, <2>3, <2>4, <2>5
<1>4. Ahead \subseteq Callers \X Callers /\ Ahead' \subseteq Callers \X Callers
  BY DEF Facts
<1>5. \A p \in Callers \X Callers : p \in Ahead' <=> p \in Ahead \cup more
  <2> SUFFICES ASSUME NEW p \in Callers \X Callers
               PROVE  p \in Ahead' <=> p \in Ahead \cup more
    OBVIOUS
  <2>1. PICK c \in Callers, d \in Callers : p = <<c, d>>
    OBVIOUS
  <2> QED BY <1>3, <2>1
<1> QED BY <1>2, <1>4, <1>5 DEF more

-----------------------------------------------------------------------------
(* The steps.  A step of the service is one of its actions, under the      *)
(* refinement mapping, or leaves its variables alone.                      *)

Statuses == [c \in Callers |-> Status(c)]
ServiceStep == [Service!Next]_<<Statuses, Ahead>>

\* The status of a caller.
StatusFacts ==
    \A c \in Callers :
        /\ task[c] \in {"idle", "resetting"} => Status(c) = "idle"
        /\ task[c] = "calling" => Status(c) = "invoked"
        /\ Accepted(c) => Status(c) = "accepted"
        /\ task[c] = "waiting" /\ sema[c] => Status(c) = "answered"

\* Its definition, case by case.
LEMMA StatusNow == StatusFacts
BY DEF StatusFacts, Status, Accepted

\* And in the next state.
LEMMA StatusThen == StatusFacts'
BY StatusNow, PTL

\* What the steps below assume: the facts of both states.
Both == PipelineInv /\ PipelineInv' /\ Facts /\ Facts' /\ StatusFacts
        /\ StatusFacts'

\* A step of the service changes one status; the others are kept.
LEMMA StatusChanges ==
    ASSUME Both, NEW x \in Callers, NEW s, Status(x)' = s,
           \A c \in Callers : c # x => task'[c] = task[c] /\ sema'[c] = sema[c]
    PROVE  Statuses' = [Statuses EXCEPT ![x] = s]
<1>1. \A c \in Callers : c # x => Status(c)' = Status(c)
  BY DEF Status
<1>2. Statuses' = [c \in Callers |-> Status(c)']
  BY DEF Statuses
<1> QED BY <1>1, <1>2 DEF Statuses

\* No status changes.
LEMMA StatusStays ==
    ASSUME UNCHANGED <<task, sema>>
    PROVE  Statuses' = Statuses
<1>1. \A c \in Callers : Status(c)' = Status(c)
  BY DEF Status
<1> QED BY <1>1 DEF Statuses

\* A step that touches neither the pipeline nor who waits.
LEMMA FrameKeeps ==
    ASSUME Both, UNCHANGED <<active, cmdq, queue>>,
           \A c \in Callers : Accepted(c)' <=> Accepted(c)
    PROVE  Ahead' = Ahead
<1>1. \A c, d \in Callers : Precedes(c, d) => Precedes(c, d)'
  BY DEF Precedes, IsActive, InCmdq, InQueue, CallAt
<1> QED BY <1>1, NobodyMoves DEF Both

\* send_command_async begins.
LEMMA CallInvokes ==
    ASSUME Both, NEW c \in Callers, Call(c)
    PROVE  Service!Invoke(c)
<1>1. /\ task \in [Callers -> {"idle", "calling", "waiting", "resetting"}]
      /\ sema \in [Callers -> BOOLEAN]
  BY DEF Both, PipelineInv, TypeOK
<1>2. /\ task[c] = "idle" /\ task'[c] = "calling"
      /\ \A d \in Callers : d # c => task'[d] = task[d] /\ sema'[d] = sema[d]
      /\ UNCHANGED <<active, cmdq, queue>>
  BY <1>1 DEF Call
<1>3. Ahead' = Ahead
  BY <1>2, FrameKeeps DEF Accepted
<1>4. Status(c) = "idle" /\ Status(c)' = "invoked"
  BY <1>2 DEF Both, StatusFacts
<1>5. Statuses' = [Statuses EXCEPT ![c] = "invoked"]
  BY <1>2, <1>4, StatusChanges
<1> QED BY <1>3, <1>4, <1>5 DEF Service!Invoke, Statuses

\* The command is in the queue, behind all others.
LEMMA EnqueueAccepts ==
    ASSUME Both, NEW c \in Callers, Enqueue(c)
    PROVE  Service!Accept(c)
<1>1. /\ task \in [Callers -> {"idle", "calling", "waiting", "resetting"}]
      /\ sema \in [Callers -> BOOLEAN]
      /\ queue \in Seq(CommandElements \cup DataElements)
  BY DEF Both, PipelineInv, TypeOK
<1>2. /\ task[c] = "calling" /\ task'[c] = "waiting" /\ ~sema[c] /\ ~sema'[c]
      /\ \A d \in Callers : d # c => task'[d] = task[d] /\ sema'[d] = sema[d]
      /\ active' = active /\ cmdq' = cmdq
  BY <1>1 DEF Enqueue, Both, PipelineInv, CallingIsFresh
<1> PICK last \in Nat : last = Len(queue) + 1
  BY <1>1
<1>3. /\ Len(queue) \in Nat /\ Len(queue') = last /\ last \in 1..Len(queue')
      /\ \A i \in 1..Len(queue) :
            /\ queue'[i] = queue[i] /\ i \in 1..Len(queue') /\ i < last
      /\ queue'[last] = CommandElement(c)
  BY <1>1 DEF Enqueue
<1>4. /\ CommandElement(c).type = "command" /\ CommandElement(c).who = c
  BY DEF CommandElement
<1>5. Accepted(c)' /\ ~Accepted(c)
      /\ \A d \in Callers : Accepted(d)' <=> Accepted(d) \/ d = c
  BY <1>2 DEF Accepted
<1>6. /\ \A d \in Callers : IsActive(d) => IsActive(d)'
      /\ \A d \in Callers : InCmdq(d) => InCmdq(d)'
      /\ \A d \in Callers, i \in 1..Len(queue) :
            CallAt(i, d) => i \in 1..Len(queue') /\ CallAt(i, d)'
      /\ last \in 1..Len(queue') /\ CallAt(last, c)'
  BY <1>2, <1>3, <1>4 DEF IsActive, InCmdq, CallAt
<1>7. \A d \in Callers : InQueue(d) => InQueue(d)'
  BY <1>6 DEF InQueue
<1>8. InQueue(c)'
  BY <1>6 DEF InQueue
<1>9. ASSUME NEW d \in Callers, Accepted(d) PROVE Precedes(d, c)'
  <2>1. IsActive(d) \/ InCmdq(d) \/ InQueue(d)
    BY <1>9, HeldIsAccepted DEF Both
  <2>2. ASSUME NEW i \in 1..Len(queue), CallAt(i, d)
        PROVE  Precedes(d, c)'
    <3>1. /\ i \in 1..Len(queue') /\ CallAt(i, d)' /\ i < last
          /\ last \in 1..Len(queue') /\ CallAt(last, c)'
      BY <1>3, <1>6, <2>2
    <3> QED BY <3>1 DEF Precedes
  <2> QED BY <1>6, <1>8, <2>1, <2>2 DEF Precedes, InQueue
<1>10. ASSUME NEW d \in Callers, NEW e \in Callers, Precedes(d, e)
       PROVE  Precedes(d, e)'
  <2>1. ASSUME NEW i \in 1..Len(queue), NEW j \in 1..Len(queue), i < j,
               CallAt(i, d), CallAt(j, e)
        PROVE  Precedes(d, e)'
    <3>1. /\ i \in 1..Len(queue') /\ CallAt(i, d)'
          /\ j \in 1..Len(queue') /\ CallAt(j, e)'
      BY <1>6, <2>1
    <3> QED BY <2>1, <3>1 DEF Precedes
  <2>2. ASSUME NEW i \in 1..Len(cmdq), NEW j \in 1..Len(cmdq), i < j,
               cmdq[i].who = d, cmdq[j].who = e
        PROVE  Precedes(d, e)'
    BY <1>2, <2>2 DEF Precedes
  <2> QED BY <1>6, <1>7, <1>10, <2>1, <2>2 DEF Precedes
<1>11. Ahead' = Ahead \cup {<<d, c>> : d \in {e \in Callers : Accepted(e)}}
  BY <1>5, <1>9, <1>10, LastEnters DEF Both
<1>12. Status(c) = "invoked" /\ Status(c)' = "accepted"
  BY <1>2, <1>5 DEF Both, StatusFacts
<1>13. Statuses' = [Statuses EXCEPT ![c] = "accepted"]
  BY <1>2, <1>12, StatusChanges
<1>14. {e \in Callers : Accepted(e)} =
          {e \in Callers : Statuses[e] = "accepted"}
  BY <1>1 DEF Both, StatusFacts, Statuses, Accepted
<1> QED BY <1>11, <1>12, <1>13, <1>14 DEF Service!Accept, Statuses

\* send_command_async returns.
LEMMA TakeReturns ==
    ASSUME Both, NEW c \in Callers, Take(c)
    PROVE  Service!Return(c)
<1>1. /\ task \in [Callers -> {"idle", "calling", "waiting", "resetting"}]
      /\ sema \in [Callers -> BOOLEAN]
  BY DEF Both, PipelineInv, TypeOK
<1>2. /\ task[c] = "waiting" /\ sema[c] /\ task'[c] \in {"idle", "resetting"}
      /\ \A d \in Callers : d # c => task'[d] = task[d] /\ sema'[d] = sema[d]
      /\ UNCHANGED <<active, cmdq, queue>>
  BY <1>1 DEF Take
<1>3. Ahead' = Ahead
  BY <1>2, FrameKeeps DEF Accepted
<1>4. Status(c) = "answered" /\ Status(c)' = "idle"
  BY <1>2 DEF Both, StatusFacts
<1>5. Statuses' = [Statuses EXCEPT ![c] = "idle"]
  BY <1>2, <1>4, StatusChanges
<1> QED BY <1>3, <1>4, <1>5 DEF Service!Return, Statuses

\* A line enters the queue, or is lost.
LEMMA SayKeeps ==
    ASSUME Both, NEW kind, NEW for, Say(kind, for),
           UNCHANGED <<task, sema, active, cmdq>>
    PROVE  Ahead' = Ahead
<1>1. queue \in Seq(CommandElements \cup DataElements)
  BY DEF Both, PipelineInv, TypeOK
<1>2. \A i \in 1..Len(queue) : i \in 1..Len(queue') /\ queue'[i] = queue[i]
  BY <1>1 DEF Say
<1>3. /\ \A d \in Callers : IsActive(d) => IsActive(d)'
      /\ \A d \in Callers : InCmdq(d) => InCmdq(d)'
      /\ \A d \in Callers, i \in 1..Len(queue) :
            CallAt(i, d) => i \in 1..Len(queue') /\ CallAt(i, d)'
  BY <1>2 DEF IsActive, InCmdq, CallAt
<1>4. \A d \in Callers : InQueue(d) => InQueue(d)'
  BY <1>3 DEF InQueue
<1>5. ASSUME NEW d \in Callers, NEW e \in Callers, Precedes(d, e)
      PROVE  Precedes(d, e)'
  <2>1. ASSUME NEW i \in 1..Len(queue), NEW j \in 1..Len(queue), i < j,
               CallAt(i, d), CallAt(j, e)
        PROVE  Precedes(d, e)'
    <3>1. /\ i \in 1..Len(queue') /\ CallAt(i, d)'
          /\ j \in 1..Len(queue') /\ CallAt(j, e)'
      BY <1>3, <2>1
    <3> QED BY <2>1, <3>1 DEF Precedes
  <2>2. ASSUME NEW i \in 1..Len(cmdq), NEW j \in 1..Len(cmdq), i < j,
               cmdq[i].who = d, cmdq[j].who = e
        PROVE  Precedes(d, e)'
    BY <2>2 DEF Precedes
  <2> QED BY <1>3, <1>4, <1>5, <2>1, <2>2 DEF Precedes
<1> QED BY <1>5, NobodyMoves DEF Both, Accepted

\* The head of the queue: where the calls behind it are afterwards.
LEMMA QueueShifts ==
    ASSUME Both, queue # <<>>, queue' = Tail(queue)
    PROVE  /\ \A d \in Callers : InQueue(d) => CallAt(1, d) \/ InQueue(d)'
           /\ \A d, e \in Callers, i, j \in 1..Len(queue) :
                 i < j /\ CallAt(i, d) /\ CallAt(j, e) /\ i # 1
                    => Precedes(d, e)'
           /\ \A e \in Callers, j \in 1..Len(queue) :
                 1 < j /\ CallAt(j, e) => InQueue(e)'
<1>1. queue \in Seq(CommandElements \cup DataElements) /\ Len(queue) \in Nat
  BY DEF Both, PipelineInv, TypeOK
<1>2. ASSUME NEW i \in 1..Len(queue), i # 1
      PROVE  i - 1 \in 1..Len(queue') /\ queue'[i - 1] = queue[i]
  BY <1>1, <1>2, TailFacts
<1>3. ASSUME NEW i \in 1..Len(queue), i # 1, NEW d \in Callers, CallAt(i, d)
      PROVE  \E k \in 1..Len(queue') : k = i - 1 /\ CallAt(k, d)'
  BY <1>2, <1>3 DEF CallAt
<1>4. ASSUME NEW d \in Callers, NEW e \in Callers,
             NEW i \in 1..Len(queue), NEW j \in 1..Len(queue),
             i < j, CallAt(i, d), CallAt(j, e), i # 1
      PROVE  Precedes(d, e)'
  <2>1. PICK k \in 1..Len(queue') : k = i - 1 /\ CallAt(k, d)'
    BY <1>3, <1>4
  <2>2. j # 1
    BY <1>1, <1>4
  <2>3. PICK l \in 1..Len(queue') : l = j - 1 /\ CallAt(l, e)'
    BY <1>3, <1>4, <2>2
  <2>4. k < l
    BY <1>1, <1>4, <2>1, <2>3
  <2> QED BY <2>1, <2>3, <2>4 DEF Precedes
<1>5. \A d \in Callers : InQueue(d) => CallAt(1, d) \/ InQueue(d)'
  BY <1>3 DEF InQueue
<1>6. ASSUME NEW e \in Callers, NEW j \in 1..Len(queue), 1 < j, CallAt(j, e)
      PROVE  InQueue(e)'
  BY <1>1, <1>3, <1>6 DEF InQueue
<1> QED BY <1>4, <1>5, <1>6

\* A line leaves the queue.
LEMMA ReceiveDataKeeps ==
    ASSUME Both, ReceiveData
    PROVE  Ahead' = Ahead
<1>1. /\ queue # <<>> /\ queue' = Tail(queue) /\ queue[1].type = "data"
      /\ UNCHANGED <<task, sema, active, cmdq>>
  BY TailFacts DEF ReceiveData, Both, PipelineInv, TypeOK
<1>2. \A d \in Callers : ~CallAt(1, d)
  BY <1>1 DEF CallAt
<1>3. /\ \A d \in Callers : IsActive(d) => IsActive(d)'
      /\ \A d \in Callers : InCmdq(d) => InCmdq(d)'
      /\ \A d \in Callers : InQueue(d) => InQueue(d)'
  BY <1>1, <1>2, QueueShifts DEF IsActive, InCmdq
<1>4. ASSUME NEW d \in Callers, NEW e \in Callers, Precedes(d, e)
      PROVE  Precedes(d, e)'
  <2>1. ASSUME NEW i \in 1..Len(queue), NEW j \in 1..Len(queue), i < j,
               CallAt(i, d), CallAt(j, e)
        PROVE  Precedes(d, e)'
    BY <1>1, <1>2, <2>1, QueueShifts
  <2>2. ASSUME NEW i \in 1..Len(cmdq), NEW j \in 1..Len(cmdq), i < j,
               cmdq[i].who = d, cmdq[j].who = e
        PROVE  Precedes(d, e)'
    BY <1>1, <2>2 DEF Precedes
  <2> QED BY <1>3, <1>4, <2>1, <2>2 DEF Precedes
<1> QED BY <1>1, <1>4, NobodyMoves DEF Both, Accepted

\* A command leaves the queue and stays ahead of those behind it.
LEMMA ReceiveCommandKeeps ==
    ASSUME Both, ReceiveCommand
    PROVE  Ahead' = Ahead
<1> DEFINE h == queue[1]
<1>1. /\ queue # <<>> /\ queue' = Tail(queue) /\ Head(queue) = h
      /\ h.type = "command" /\ 1 \in 1..Len(queue) /\ h \in CommandElements
      /\ UNCHANGED <<task, sema>> /\ at = "receive"
      /\ QueueAction(active, Append(cmdq, h))
      /\ Len(queue) \in Nat /\ cmdq \in Seq(CommandElements)
  BY TailFacts, StageTypes DEF ReceiveCommand, Both, PipelineInv, TypeOK
<1>2. \A d \in Callers : CallAt(1, d) => d = h.who
  BY DEF CallAt
<1>3. CASE active = NoCommand
  <2>1. cmdq = <<>>
    BY <1>1, <1>3 DEF Both, PipelineInv, NeverIdle
  <2>2. active' = h /\ h # NoCommand
    BY <1>1, <1>3, <2>1, StageTypes
       DEF QueueAction, Both, PipelineInv, NoCommand
  <2>3. \A d \in Callers : ~IsActive(d) /\ ~InCmdq(d)
    BY <1>3, <2>1 DEF IsActive, InCmdq
  <2>4. \A d \in Callers : CallAt(1, d) => IsActive(d)'
    BY <1>2, <2>2 DEF IsActive
  <2>5. ASSUME NEW d \in Callers, NEW e \in Callers, Precedes(d, e)
        PROVE  Precedes(d, e)'
    <3>1. PICK i \in 1..Len(queue), j \in 1..Len(queue) :
             i < j /\ CallAt(i, d) /\ CallAt(j, e)
      BY <2>1, <2>3, <2>5 DEF Precedes
    <3>2. CASE i = 1
      <4>1. IsActive(d)' /\ InQueue(e)'
        BY <1>1, <2>4, <3>1, <3>2, QueueShifts
      <4> QED BY <4>1 DEF Precedes
    <3>3. CASE i # 1
      BY <1>1, <3>1, <3>3, QueueShifts
    <3> QED BY <3>2, <3>3
  <2> QED BY <1>1, <2>5, NobodyMoves DEF Both, Accepted
<1>4. CASE active # NoCommand
  <2>1. active' = active /\ cmdq' = Append(cmdq, h)
    BY <1>4 DEF QueueAction, ReceiveCommand
  <2> PICK last \in Nat : last = Len(cmdq) + 1
    BY <1>1
  <2>2. /\ last \in 1..Len(cmdq') /\ cmdq'[last] = h
        /\ \A i \in 1..Len(cmdq) : /\ i \in 1..Len(cmdq') /\ i < last
                                   /\ cmdq'[i] = cmdq[i]
    BY <1>1, <2>1
  <2>3. /\ \A d \in Callers : IsActive(d) => IsActive(d)'
        /\ \A d \in Callers : InCmdq(d) \/ CallAt(1, d) => InCmdq(d)'
    BY <1>2, <2>1, <2>2 DEF IsActive, InCmdq
  <2>4. \A d \in Callers : InQueue(d) => InCmdq(d)' \/ InQueue(d)'
    BY <1>1, <2>3, QueueShifts
  <2>5. ASSUME NEW d \in Callers, NEW e \in Callers, Precedes(d, e)
        PROVE  Precedes(d, e)'
    <3>1. CASE IsActive(d) /\ (InCmdq(e) \/ InQueue(e))
      BY <2>3, <2>4, <3>1 DEF Precedes
    <3>2. CASE InCmdq(d) /\ InQueue(e)
      <4>1. CASE CallAt(1, e)
        <5>1. PICK i \in 1..Len(cmdq) : cmdq[i].who = d
          BY <3>2 DEF InCmdq
        <5>2. /\ i \in 1..Len(cmdq') /\ cmdq'[i].who = d /\ i < last
              /\ last \in 1..Len(cmdq') /\ cmdq'[last].who = e
          BY <1>2, <2>2, <4>1, <5>1
        <5> QED BY <5>2 DEF Precedes
      <4>2. CASE ~CallAt(1, e)
        BY <1>1, <2>3, <3>2, <4>2, QueueShifts DEF Precedes
      <4> QED BY <4>1, <4>2
    <3>3. ASSUME NEW i \in 1..Len(cmdq), NEW j \in 1..Len(cmdq), i < j,
                 cmdq[i].who = d, cmdq[j].who = e
          PROVE  Precedes(d, e)'
      BY <2>2, <3>3 DEF Precedes
    <3>4. ASSUME NEW i \in 1..Len(queue), NEW j \in 1..Len(queue), i < j,
                 CallAt(i, d), CallAt(j, e)
          PROVE  Precedes(d, e)'
      <4>1. CASE i = 1
        <5>1. InCmdq(d)' /\ InQueue(e)'
          BY <1>1, <2>3, <3>4, <4>1, QueueShifts
        <5> QED BY <5>1 DEF Precedes
      <4>2. CASE i # 1
        BY <1>1, <3>4, <4>2, QueueShifts
      <4> QED BY <4>1, <4>2
    <3> QED BY <2>5, <3>1, <3>2, <3>3, <3>4 DEF Precedes
  <2> QED BY <1>1, <2>5, NobodyMoves DEF Both, Accepted
<1> QED BY <1>3, <1>4

\* The first of command_queue goes: where the calls behind it are afterwards.
LEMMA CmdqShifts ==
    ASSUME Both, cmdq # <<>>, cmdq' = Tail(cmdq)
    PROVE  /\ 1 \in 1..Len(cmdq) /\ Head(cmdq) = cmdq[1]
           /\ cmdq[1] \in CommandElements
           /\ \A d \in Callers : InCmdq(d) => d = cmdq[1].who \/ InCmdq(d)'
           /\ \A d, e \in Callers, i, j \in 1..Len(cmdq) :
                 i < j /\ cmdq[i].who = d /\ cmdq[j].who = e /\ i # 1
                    => Precedes(d, e)'
           /\ \A e \in Callers, j \in 1..Len(cmdq) :
                 1 < j /\ cmdq[j].who = e => InCmdq(e)'
<1>1. /\ cmdq \in Seq(CommandElements) /\ Len(cmdq) \in Nat
      /\ 1 \in 1..Len(cmdq) /\ Head(cmdq) = cmdq[1]
      /\ cmdq[1] \in CommandElements
  BY TailFacts DEF Both, PipelineInv, TypeOK
<1>2. ASSUME NEW i \in 1..Len(cmdq), i # 1
      PROVE  \E k \in 1..Len(cmdq') : k = i - 1 /\ cmdq'[k] = cmdq[i]
  BY <1>1, <1>2, TailFacts
<1>3. ASSUME NEW d \in Callers, NEW e \in Callers,
             NEW i \in 1..Len(cmdq), NEW j \in 1..Len(cmdq),
             i < j, cmdq[i].who = d, cmdq[j].who = e, i # 1
      PROVE  Precedes(d, e)'
  <2>1. PICK k \in 1..Len(cmdq') : k = i - 1 /\ cmdq'[k] = cmdq[i]
    BY <1>2, <1>3
  <2>2. j # 1
    BY <1>1, <1>3
  <2>3. PICK l \in 1..Len(cmdq') : l = j - 1 /\ cmdq'[l] = cmdq[j]
    BY <1>2, <2>2
  <2>4. k < l
    BY <1>1, <1>3, <2>1, <2>3
  <2> QED BY <1>3, <2>1, <2>3, <2>4 DEF Precedes
<1>4. \A d \in Callers : InCmdq(d) => d = cmdq[1].who \/ InCmdq(d)'
  BY <1>2 DEF InCmdq
<1>5. ASSUME NEW e \in Callers, NEW j \in 1..Len(cmdq), 1 < j,
             cmdq[j].who = e
      PROVE  InCmdq(e)'
  BY <1>1, <1>2, <1>5 DEF InCmdq
<1> QED BY <1>1, <1>3, <1>4, <1>5

\* Whoever is given the semaphore is answered.
LEMMA FulfillAnswers ==
    ASSUME Both, NEW e \in CommandElements, NEW replies, Live(e),
           Fulfill(e, replies), UNCHANGED task,
           \A c \in Callers : ~Precedes(c, e.who),
           \A c, d \in Callers :
              c # e.who /\ d # e.who /\ Precedes(c, d) => Precedes(c, d)'
    PROVE  Service!Answer(e.who)
<1> DEFINE x == e.who
<1>1. /\ x \in Callers
      /\ task \in [Callers -> {"idle", "calling", "waiting", "resetting"}]
      /\ sema \in [Callers -> BOOLEAN]
  BY StageTypes DEF Both, PipelineInv, TypeOK
<1>2. /\ task[x] = "waiting" /\ ~sema[x] /\ sema'[x] /\ task' = task
      /\ \A c \in Callers : c # x => sema'[c] = sema[c]
  BY <1>1 DEF Live, Fulfill
<1>3. \A c \in Callers : Accepted(c)' <=> Accepted(c) /\ c # x
  BY <1>2 DEF Accepted
<1>4. Accepted(x) /\ Status(x) = "accepted" /\ Status(x)' = "answered"
  BY <1>1, <1>2 DEF Both, StatusFacts, Accepted
<1> HIDE DEF x
<1>5. /\ \A c \in Callers : <<c, x>> \notin Ahead
      /\ Ahead' = {p \in Ahead : p[1] # x}
  BY <1>1, <1>3, FirstLeaves DEF Both, x
<1>6. Statuses' = [Statuses EXCEPT ![x] = "answered"]
  BY <1>1, <1>2, <1>4, StatusChanges
<1>7. Service!Answer(x)
  BY <1>1, <1>4, <1>5, <1>6 DEF Service!Answer, Statuses
<1> QED BY <1>7 DEF x

\* new_reply finishes the active command.
LEMMA FinishAnswers ==
    ASSUME Both, FinishCommand
    PROVE  \E c \in Callers : Service!Answer(c)
<1>1. /\ active # NoCommand /\ active \in CommandElements /\ Live(active)
      /\ active.who \in Callers /\ UNCHANGED <<task, queue>>
      /\ Fulfill(active, Append(buffer, reply))
      /\ QueueAction(NoCommand, cmdq)
  BY StageTypes DEF FinishCommand, Both, PipelineInv, StagesLive
<1>2. IsActive(active.who) /\ \A c \in Callers : IsActive(c) => c = active.who
  BY <1>1 DEF IsActive
<1>3. \A c \in Callers : ~Precedes(c, active.who)
  <2>1. ~InCmdq(active.who) /\ ~InQueue(active.who)
    BY <1>1, <1>2, StagesApart DEF Both
  <2> QED BY <2>1 DEF Precedes, InCmdq, InQueue
<1>4. \A c \in Callers : InQueue(c) => InQueue(c)'
  BY <1>1 DEF InQueue, CallAt
<1>5. ASSUME NEW c \in Callers, NEW d \in Callers, c # active.who,
             d # active.who, Precedes(c, d)
      PROVE  Precedes(c, d)'
  <2>1. ASSUME NEW i \in 1..Len(queue), NEW j \in 1..Len(queue), i < j,
               CallAt(i, c), CallAt(j, d)
        PROVE  Precedes(c, d)'
    BY <1>1, <2>1 DEF Precedes, CallAt
  <2>2. CASE cmdq = <<>>
    <3>1. ~InCmdq(c)
      BY <2>2 DEF InCmdq
    <3> QED BY <1>2, <1>5, <2>1, <2>2, <3>1 DEF Precedes
  <2>3. CASE cmdq # <<>>
    <3>1. /\ active' = cmdq[1] /\ cmdq' = Tail(cmdq)
          /\ cmdq[1] \in CommandElements /\ cmdq[1] # NoCommand
      BY <1>1, <2>3, CmdqShifts, StageTypes
         DEF QueueAction, Both, PipelineInv, NoCommand
    <3>3. \A e \in Callers : e = cmdq[1].who => IsActive(e)'
      BY <3>1 DEF IsActive
    <3>4. CASE InCmdq(c) /\ InQueue(d)
      <4>1. IsActive(c)' \/ InCmdq(c)'
        BY <2>3, <3>1, <3>3, <3>4, CmdqShifts
      <4> QED BY <1>4, <3>4, <4>1 DEF Precedes
    <3>5. ASSUME NEW i \in 1..Len(cmdq), NEW j \in 1..Len(cmdq), i < j,
                 cmdq[i].who = c, cmdq[j].who = d
          PROVE  Precedes(c, d)'
      <4>1. CASE i = 1
        <5>1. IsActive(c)' /\ InCmdq(d)'
          BY <2>3, <3>1, <3>3, <3>5, <4>1, CmdqShifts
        <5> QED BY <5>1 DEF Precedes
      <4>2. CASE i # 1
        BY <2>3, <3>1, <3>5, <4>2, CmdqShifts
      <4> QED BY <4>1, <4>2
    <3> QED BY <1>2, <1>5, <2>1, <3>4, <3>5 DEF Precedes
  <2> QED BY <2>2, <2>3
<1> QED BY <1>1, <1>3, <1>5, FulfillAnswers

\* The flush releases the caller of the active command, if there is one.
LEMMA FlushAnswersActive ==
    ASSUME Both, FlushActive, active # NoCommand
    PROVE  \E c \in Callers : Service!Answer(c)
<1>1. /\ active \in CommandElements /\ Live(active)
      /\ active.who \in Callers /\ UNCHANGED <<task, queue, cmdq>>
      /\ Fulfill(active, buffer)
  BY StageTypes DEF FlushActive, Both, PipelineInv, StagesLive
<1>2. IsActive(active.who) /\ \A c \in Callers : IsActive(c) => c = active.who
  BY DEF IsActive
<1>3. \A c \in Callers : ~Precedes(c, active.who)
  <2>1. ~InCmdq(active.who) /\ ~InQueue(active.who)
    BY <1>1, <1>2, StagesApart DEF Both
  <2> QED BY <2>1 DEF Precedes, InCmdq, InQueue
<1>4. ASSUME NEW c \in Callers, NEW d \in Callers, c # active.who,
             Precedes(c, d)
      PROVE  Precedes(c, d)'
  BY <1>1, <1>2, <1>4 DEF Precedes, InCmdq, InQueue, CallAt
<1> QED BY <1>1, <1>3, <1>4, FulfillAnswers

\* The flush releases the caller of the oldest queued command.
LEMMA FlushAnswersQueued ==
    ASSUME Both, FlushQueued
    PROVE  \E c \in Callers : Service!Answer(c)
<1> DEFINE h == cmdq[1]
<1>1. /\ cmdq # <<>> /\ cmdq' = Tail(cmdq) /\ active = NoCommand
      /\ Fulfill(Head(cmdq), <<>>) /\ UNCHANGED <<task, queue>>
  BY DEF FlushQueued, Both, PipelineInv, FlushingIsIdle
<1>2. /\ h \in CommandElements /\ h = Head(cmdq) /\ 1 \in 1..Len(cmdq)
      /\ Live(h) /\ h.who \in Callers /\ InCmdq(h.who)
  BY <1>1, CmdqShifts, StageTypes
     DEF Both, PipelineInv, StagesLive, InCmdq
<1>3. \A c \in Callers : ~IsActive(c)
  BY <1>1 DEF IsActive
<1>4. \A c \in Callers : ~Precedes(c, h.who)
  <2>1. /\ ~InQueue(h.who)
        /\ \A i \in 1..Len(cmdq) : cmdq[i].who = h.who => i = 1
    BY <1>2, StagesApart DEF Both
  <2>2. Len(cmdq) \in Nat
    BY StageTypes DEF Both, PipelineInv
  <2> QED BY <1>3, <2>1, <2>2 DEF Precedes, InQueue
<1>5. ASSUME NEW c \in Callers, NEW d \in Callers, c # h.who, d # h.who,
             Precedes(c, d)
      PROVE  Precedes(c, d)'
  <2>1. CASE InCmdq(c) /\ InQueue(d)
    <3>1. InCmdq(c)' /\ InQueue(d)'
      BY <1>1, <1>5, <2>1, CmdqShifts DEF InQueue, CallAt
    <3> QED BY <3>1 DEF Precedes
  <2>2. ASSUME NEW i \in 1..Len(cmdq), NEW j \in 1..Len(cmdq), i < j,
               cmdq[i].who = c, cmdq[j].who = d
        PROVE  Precedes(c, d)'
    BY <1>1, <1>5, <2>2, CmdqShifts
  <2>3. ASSUME NEW i \in 1..Len(queue), NEW j \in 1..Len(queue), i < j,
               CallAt(i, c), CallAt(j, d)
        PROVE  Precedes(c, d)'
    BY <1>1, <2>3 DEF Precedes, CallAt
  <2> QED BY <1>3, <1>5, <2>1, <2>2, <2>3 DEF Precedes
<1> HIDE DEF h
<1> QED BY <1>1, <1>2, <1>4, <1>5, FulfillAnswers

\* Each step of a caller is one of the service, or none.
LEMMA CallersImplement ==
    ASSUME Both, NEW c \in Callers, CallerNext(c)
    PROVE  ServiceStep
<1>1. CASE CallerResets(c) \/ TakeHttpResponse(c)
  <2>1. /\ task \in [Callers -> {"idle", "calling", "waiting", "resetting"}]
        /\ \A d \in Callers : d # c => task'[d] = task[d]
        /\ \A d \in Callers : task[d] = "waiting" <=> task'[d] = "waiting"
        /\ task[c] \in {"idle", "resetting"}
        /\ task'[c] \in {"idle", "resetting"}
        /\ UNCHANGED <<sema, active, cmdq, queue>>
    BY <1>1 DEF Both, PipelineInv, TypeOK, CallerResets, TakeHttpResponse
  <2>2. Ahead' = Ahead
    BY <2>1, FrameKeeps DEF Accepted
  <2>3. Status(c) = "idle" /\ Status(c)' = "idle"
    BY <2>1 DEF Both, StatusFacts
  <2>4. Statuses' = [Statuses EXCEPT ![c] = "idle"]
    BY <2>1, <2>3, StatusChanges
  <2>5. Statuses' = Statuses
    BY <2>3, <2>4 DEF Statuses
  <2> QED BY <2>2, <2>5 DEF ServiceStep
<1>2. CASE Call(c) \/ Enqueue(c) \/ Take(c)
  BY <1>2, CallInvokes, EnqueueAccepts, TakeReturns
     DEF ServiceStep, Service!Next
<1> QED BY <1>1, <1>2 DEF CallerNext

\* Each step of the coordinator.
LEMMA CoordinatorImplements ==
    ASSUME Both, CoordinatorNext
    PROVE  ServiceStep
<1>1. CASE \/ TestBoot \/ MarkInconsistent \/ SetBoot \/ IgnoreUnsolicited
           \/ BufferReply \/ CoordinatorResets
  <2>1. UNCHANGED <<task, sema, active, cmdq, queue>>
    BY <1>1 DEF TestBoot, MarkInconsistent, SetBoot, IgnoreUnsolicited,
                BufferReply, CoordinatorResets
  <2>2. Ahead' = Ahead
    BY <2>1, FrameKeeps DEF Accepted
  <2>3. Statuses' = Statuses
    BY <2>1, StatusStays
  <2> QED BY <2>2, <2>3 DEF ServiceStep
<1>2. CASE ReceiveCommand \/ ReceiveData
  <2>1. Ahead' = Ahead
    BY <1>2, ReceiveCommandKeeps, ReceiveDataKeeps
  <2>2. UNCHANGED <<task, sema>>
    BY <1>2 DEF ReceiveCommand, ReceiveData
  <2>3. Statuses' = Statuses
    BY <2>2, StatusStays
  <2> QED BY <2>1, <2>3 DEF ServiceStep
<1>3. CASE FlushActive /\ active = NoCommand
  <2>1. UNCHANGED <<task, sema, active, cmdq, queue>>
    BY <1>3 DEF FlushActive
  <2>2. Ahead' = Ahead
    BY <2>1, FrameKeeps DEF Accepted
  <2>3. Statuses' = Statuses
    BY <2>1, StatusStays
  <2> QED BY <2>2, <2>3 DEF ServiceStep
<1>4. CASE FinishCommand \/ FlushQueued \/ (FlushActive /\ active # NoCommand)
  <2>1. \E c \in Callers : Service!Answer(c)
    BY <1>4, FinishAnswers, FlushAnswersQueued, FlushAnswersActive
  <2> QED BY <2>1 DEF ServiceStep, Service!Next
<1> QED BY <1>1, <1>2, <1>3, <1>4 DEF CoordinatorNext

\* Each step of the modem.
LEMMA ModemImplements ==
    ASSUME Both, ModemNext
    PROVE  ServiceStep
<1>1. UNCHANGED <<task, sema, active, cmdq>>
  BY DEF ModemNext, ModemAnswers, ModemInfo, ModemFinish, ModemBoots,
         ModemResets, ModemIgnores, ModemStrays, ModemSignalsHttp
<1>2. Statuses' = Statuses
  BY <1>1, StatusStays
<1>3. CASE ModemResets \/ ModemIgnores
  <2>1. UNCHANGED queue
    BY <1>3 DEF ModemResets, ModemIgnores
  <2> QED BY <1>1, <1>2, <2>1, FrameKeeps DEF ServiceStep, Accepted
<1>4. CASE ModemInfo
  <2>1. PICK kind, for : Say(kind, for)
    BY <1>4 DEF ModemInfo
  <2> QED BY <1>1, <1>2, <2>1, SayKeeps DEF ServiceStep
<1>5. CASE ModemFinish
  <2>1. PICK kind, for : Say(kind, for)
    BY <1>5 DEF ModemFinish
  <2> QED BY <1>1, <1>2, <2>1, SayKeeps DEF ServiceStep
<1>6. CASE ModemBoots
  <2>1. PICK kind, for : Say(kind, for)
    BY <1>6 DEF ModemBoots
  <2> QED BY <1>1, <1>2, <2>1, SayKeeps DEF ServiceStep
<1>7. CASE ModemStrays
  <2>1. PICK kind, for : Say(kind, for)
    BY <1>7 DEF ModemStrays
  <2> QED BY <1>1, <1>2, <2>1, SayKeeps DEF ServiceStep
<1>8. CASE ModemSignalsHttp
  <2>1. PICK kind, for : Say(kind, for)
    BY <1>8 DEF ModemSignalsHttp
  <2> QED BY <1>1, <1>2, <2>1, SayKeeps DEF ServiceStep
<1> QED BY <1>3, <1>4, <1>5, <1>6, <1>7, <1>8 DEF ModemNext, ModemAnswers

\* Each step is one of the service, or none.
LEMMA StepImplements ==
    PipelineInv /\ PipelineInv' /\ [Next]_vars => ServiceStep
<1> SUFFICES ASSUME PipelineInv, PipelineInv', [Next]_vars
             PROVE  ServiceStep
  OBVIOUS
<1>1. Both
  BY FactsNow, FactsThen, StatusNow, StatusThen DEF Both
<1>2. CASE UNCHANGED vars
  <2>1. UNCHANGED <<task, sema, active, cmdq, queue>>
    BY <1>2 DEF vars
  <2> QED BY <1>1, <2>1, FrameKeeps, StatusStays DEF ServiceStep, Accepted
<1> QED BY <1>1, <1>2, CallersImplement, CoordinatorImplements,
           ModemImplements DEF Next

\* All callers are idle at first, and none is ahead of another.
LEMMA InitImplements == Init => Service!Init
<1> SUFFICES ASSUME Init PROVE Service!Init
  OBVIOUS
<1>1. PipelineInv /\ \A c \in Callers : task[c] = "idle"
  BY PipelineInit DEF Init
<1>2. Facts /\ StatusFacts
  BY <1>1, FactsNow, StatusNow
<1>3. \A c \in Callers : Status(c) = "idle"
  BY <1>1, <1>2 DEF StatusFacts
<1>4. \A c, d \in Callers : <<c, d>> \notin Ahead
  BY <1>1, <1>2 DEF Facts, Accepted
<1>5. Ahead = {}
  BY <1>2, <1>4 DEF Facts
<1> QED BY <1>3, <1>5 DEF Service!Init

\* Each call of send_command_async that the coordinator has accepted is
\* answered once and in the order of acceptance, whether new_reply finishes it
\* or flushes it, whatever the modem and the line do.
THEOREM CoordinatorImplementsService == Spec => ImplementsService
<1>1. PipelineInv /\ PipelineInv' /\ [Next]_vars =>
         [Service!Next]_<<[c \in Callers |-> Status(c)], Ahead>>
  BY StepImplements DEF ServiceStep, Statuses
<1> QED BY <1>1, InitImplements, PipelineInvariant, PTL
        DEF Spec, ImplementsService, Service!Spec
=============================================================================
