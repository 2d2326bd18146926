-------------------------- MODULE TelemetryProofs --------------------------
(***************************************************************************)
(* Theorems about Telemetry, for every size of frames, arrays and FIFO     *)
(* and any number of messages.                                             *)
(***************************************************************************)
EXTENDS Telemetry, SequenceTheorems, TLAPS

\* The keys of no array, by the task that sets them.
CanKeys == ElementsOf(Engine) \cup ElementsOf(Consumption)
                              \cup ElementsOf(Hydro)
GpsKeys == ElementsOf(Position)

Names == {"engine_rpm", "engine_speed", "can_spent_mah", "can_spent_mwh",
          "can_current", "can_soc_percent", "can_hydro_ppm", "can_hydro_temp",
          "gps_latitude", "gps_longitude",
          "can_battery_voltage", "can_battery_temp"}
Measured == [name : Names, at : Int]
CanTodos == {key \in Measured : key.at < 0 => key \in CanKeys}
GpsTodos == GpsKeys

\* The names of the single measurements, spelled out.
LEMMA KeysAre ==
    /\ CanKeys = {Key("engine_rpm"), Key("engine_speed"),
                  Key("can_spent_mah"), Key("can_spent_mwh"),
                  Key("can_current"), Key("can_soc_percent"),
                  Key("can_hydro_ppm"), Key("can_hydro_temp")}
    /\ GpsKeys = {Key("gps_latitude"), Key("gps_longitude")}
    /\ Scalars = CanKeys \cup GpsKeys
    /\ Scalars \subseteq Keys
<1>1. /\ ElementsOf(Engine) = {Key("engine_rpm"), Key("engine_speed")}
      /\ ElementsOf(Consumption) = {Key("can_spent_mah"), Key("can_spent_mwh"),
                                    Key("can_current"), Key("can_soc_percent")}
      /\ ElementsOf(Hydro) = {Key("can_hydro_ppm"), Key("can_hydro_temp")}
      /\ ElementsOf(Position) = {Key("gps_latitude"), Key("gps_longitude")}
  BY DEF ElementsOf, Engine, Consumption, Hydro, Position
<1>2. Scalars = CanKeys \cup GpsKeys
  BY DEF Scalars, Groups, CanKeys, GpsKeys
<1> QED BY <1>1, <1>2 DEF CanKeys, GpsKeys, Keys

\* A set of a key of no array reaches that key only; one of an array reaches
\* none of the others.
LEMMA ScalarsAreNotConfused ==
    ASSUME NEW key \in Measured, NEW entry \in Confused(key),
           NEW other \in Scalars
    PROVE  entry = other => key = other
<1>1. other.at = -1
  BY KeysAre DEF Key
<1> QED BY <1>1 DEF Confused

\* What the groups set, in order, are sequences of keys of their task.
LEMMA GroupsAreSequences ==
    /\ GpsKeys \subseteq Measured
    /\ Engine \in Seq(CanTodos) /\ Consumption \in Seq(CanTodos)
    /\ Hydro \in Seq(CanTodos) /\ Position \in Seq(GpsTodos)
<1>2. CanKeys \subseteq Measured /\ GpsKeys \subseteq Measured
  <2>1. CanKeys \cup GpsKeys \subseteq [name : Names, at : {-1}]
    BY KeysAre DEF Key, Names
  <2> QED BY <2>1 DEF Measured
<1>3. CanKeys \subseteq CanTodos
  BY <1>2 DEF CanTodos
<1> QED BY <1>2, <1>3, KeysAre
        DEF Engine, Consumption, Hydro, Position, GpsTodos

\* set_array sets elements of its array.
LEMMA ArraysAreSequences ==
    ASSUME NEW name \in Names, NEW first \in Nat, NEW size \in Nat
    PROVE  Array(name, first, size) \in Seq(CanTodos)
<1>1. \A k \in 1..size : Element(name, first + k - 1) \in CanTodos
  BY DEF Element, CanTodos, Measured
<1> DEFINE array == [k \in 1..size |-> Element(name, first + k - 1)]
<1>2. array \in [1..size -> CanTodos]
  BY <1>1
<1> HIDE DEF array
<1>3. array \in Seq(CanTodos)
  BY <1>2, SeqDef
<1> QED BY <1>3 DEF Array, array

Frames == [id : Ids, full : BOOLEAN, number : Nat]

\* What a frame sets are keys of the CAN task, and elements of arrays.
LEMMA WritesAreCanTodos ==
    ASSUME NEW frame \in Frames PROVE Writes(frame) \in Seq(CanTodos)
<1> USE TelemetryAssumption
<1>1. <<>> \in Seq(CanTodos)
  BY EmptySeq
<1>2. EngineWrites(frame) \in Seq(CanTodos)
  BY <1>1, GroupsAreSequences DEF EngineWrites
<1>3. ASSUME NEW first \in Nat, NEW size \in Nat
      PROVE  Voltages(first, size) \in Seq(CanTodos)
  <2>1. "can_battery_voltage" \in Names
    BY DEF Names
  <2>2. Array("can_battery_voltage", first, size) \in Seq(CanTodos)
    BY <2>1, ArraysAreSequences
  <2> QED BY <2>2 DEF Voltages
<1>4. BatteryTemps \in Seq(CanTodos)
  <2>1. Temperatures \in Nat /\ 0 \in Nat /\ "can_battery_temp" \in Names
    BY DEF Names
  <2>2. Array("can_battery_temp", 0, Temperatures) \in Seq(CanTodos)
    BY <2>1, ArraysAreSequences
  <2> QED BY <2>2 DEF BatteryTemps
<1>5. CASE frame.id \in {"BMS1", "BMS2", "BMS3"}
  <2>1. BatteryIndex(frame.id) * FrameCells \in Nat
    BY <1>5 DEF BatteryIndex
  <2>2. Writes(frame) =
            Voltages(BatteryIndex(frame.id) * FrameCells, FrameCells)
                \o Consumption
    BY <1>5 DEF Writes
  <2> QED BY <1>3, <2>1, <2>2, GroupsAreSequences, ConcatProperties
<1>6. CASE frame.id = "BMS4"
  <2>1. Writes(frame) =
            (Voltages(3 * FrameCells, FrameCells) \o BatteryTemps)
                \o Consumption
    BY <1>6 DEF Writes
  <2>2. Voltages(3 * FrameCells, FrameCells) \in Seq(CanTodos)
    BY <1>3
  <2> QED BY <1>4, <2>1, <2>2, GroupsAreSequences, ConcatProperties
<1>7. CASE frame.id \notin {"BMS1", "BMS2", "BMS3", "BMS4"}
  BY <1>1, <1>2, <1>7, GroupsAreSequences DEF Writes
<1> QED BY <1>5, <1>6, <1>7

-----------------------------------------------------------------------------
(* No measurement is newer than the message in hand, none that a reader    *)
(* has got is newer than the one in the map, and the frames in the FIFO    *)
(* are newer than that in hand and in order.                               *)

Types ==
    /\ messages \in Nat
    /\ fifo \in Seq(Frames)
    /\ can \in [level : Nat, todo : Seq(CanTodos)]
    /\ gps \in Seq(GpsTodos)
    /\ stamp \in [can : Nat, gps : Nat]
    /\ map \in [Keys -> Nat] /\ got \in [Scalars -> Nat]
    /\ can.level <= Len(fifo)

FramesInOrder ==
    /\ stamp.can <= messages /\ stamp.gps <= messages
    /\ \A k \in 1..Len(fifo) : stamp.can < fifo[k].number
                               /\ fifo[k].number <= messages
    /\ \A k, l \in 1..Len(fifo) : k < l => fifo[k].number < fifo[l].number

MapIsBehind ==
    /\ \A key \in CanKeys : map[key] <= stamp.can
    /\ \A key \in GpsKeys : map[key] <= stamp.gps

ReadersAreBehind == \A key \in Scalars : got[key] <= map[key]

NumbersInv == Types /\ FramesInOrder /\ MapIsBehind /\ ReadersAreBehind

\* At start-up nothing has been measured.
LEMMA InitNumbersInv == Init => NumbersInv
<1> SUFFICES ASSUME Init PROVE NumbersInv
  OBVIOUS
<1>1. /\ <<>> \in Seq(Frames) /\ <<>> \in Seq(CanTodos)
      /\ <<>> \in Seq(GpsTodos) /\ Len(<<>>) = 0
  BY EmptySeq
<1>2. Types
  BY <1>1 DEF Init, Types
<1>3. FramesInOrder
  BY <1>1 DEF Init, FramesInOrder
<1>4. MapIsBehind /\ ReadersAreBehind
  BY KeysAre DEF Init, MapIsBehind, ReadersAreBehind
<1> QED BY <1>2, <1>3, <1>4 DEF NumbersInv

\* A frame that the controller accepts is the newest of the FIFO.
LEMMA FrameKeepsNumbers ==
    ASSUME NumbersInv, NEW id \in Ids, NEW full \in BOOLEAN, Frame(id, full)
    PROVE  NumbersInv'
<1> DEFINE frame == [id |-> id, full |-> full, number |-> messages + 1]
           longer == Append(fifo, frame)
<1>1. messages \in Nat /\ messages' = messages + 1
  BY DEF NumbersInv, Types, Frame
<1>2. frame \in Frames /\ frame.number = messages + 1
  BY <1>1 DEF Frames
<1>3. fifo' \in {fifo, longer}
  BY DEF Frame
<1> HIDE DEF frame
<1>4. /\ fifo \in Seq(Frames) /\ longer \in Seq(Frames)
      /\ Len(fifo) \in Nat /\ Len(longer) = Len(fifo) + 1
      /\ \A k \in 1..Len(fifo) : longer[k] = fifo[k]
      /\ longer[Len(fifo) + 1] = frame
  BY <1>2, AppendProperties, LenProperties DEF NumbersInv, Types
<1> HIDE DEF longer
<1>5. \A k \in 1..Len(fifo) : fifo[k].number \in Nat
  <2>1. \A k \in 1..Len(fifo) : fifo[k] \in Frames
    BY <1>4, ElementOfSeq
  <2> QED BY <2>1 DEF Frames
<1>6. UNCHANGED <<can, gps, stamp, map, got>>
  BY DEF Frame
<1>7. Types'
  BY <1>1, <1>3, <1>4, <1>6 DEF NumbersInv, Types
<1>8. FramesInOrder'
  <2>1. CASE fifo' = fifo
    BY <1>1, <1>5, <1>6, <2>1 DEF NumbersInv, Types, FramesInOrder
  <2>2. CASE fifo' = longer
    <3>1. stamp.can \in Nat /\ stamp.gps \in Nat
          /\ stamp.can <= messages /\ stamp.gps <= messages
      BY DEF NumbersInv, Types, FramesInOrder
    <3>2. ASSUME NEW k \in 1..Len(longer)
          PROVE  stamp.can < longer[k].number
                 /\ longer[k].number <= messages + 1
      <4>1. CASE k \in 1..Len(fifo)
        BY <1>1, <1>4, <1>5, <3>1, <4>1 DEF NumbersInv, FramesInOrder
      <4>2. CASE k = Len(fifo) + 1
        BY <1>1, <1>2, <1>4, <3>1, <4>2
      <4> QED BY <1>4, <4>1, <4>2
    <3>3. ASSUME NEW k \in 1..Len(longer), NEW l \in 1..Len(longer), k < l
          PROVE  longer[k].number < longer[l].number
      <4>1. k \in 1..Len(fifo) /\ longer[k] = fifo[k]
        BY <1>4, <3>3
      <4>2. CASE l \in 1..Len(fifo)
        BY <1>4, <3>3, <4>1, <4>2 DEF NumbersInv, FramesInOrder
      <4>3. CASE l = Len(fifo) + 1
        <5>1. longer[l].number = messages + 1
          BY <1>2, <1>4, <4>3
        <5>2. fifo[k].number <= messages /\ fifo[k].number \in Nat
          BY <1>5, <4>1 DEF NumbersInv, FramesInOrder
        <5> QED BY <1>1, <4>1, <5>1, <5>2
      <4> QED BY <1>4, <4>2, <4>3
    <3> QED BY <1>1, <1>6, <2>2, <3>1, <3>2, <3>3 DEF FramesInOrder
  <2> QED BY <1>3, <2>1, <2>2
<1>9. MapIsBehind' /\ ReadersAreBehind'
  BY <1>6 DEF NumbersInv, MapIsBehind, ReadersAreBehind
<1> QED BY <1>7, <1>8, <1>9 DEF NumbersInv

\* The frame taken is newer than the one before it and older than the rest.
LEMMA TakingKeepsNumbers ==
    ASSUME NumbersInv, FillLevel \/ TakeFrame PROVE NumbersInv'
<1>1. /\ fifo \in Seq(Frames) /\ Len(fifo) \in Nat
      /\ can \in [level : Nat, todo : Seq(CanTodos)]
      /\ stamp \in [can : Nat, gps : Nat] /\ messages \in Nat
  BY LenProperties DEF NumbersInv, Types
<1>2. CASE FillLevel
  <2>1. UNCHANGED <<fifo, gps, stamp, map, got, messages>>
    BY <1>2 DEF FillLevel
  <2>2. can' \in [level : Nat, todo : Seq(CanTodos)] /\ can'.level = Len(fifo)
    BY <1>1, <1>2 DEF FillLevel
  <2> QED BY <1>1, <2>1, <2>2
          DEF NumbersInv, Types, FramesInOrder, MapIsBehind, ReadersAreBehind
<1>3. CASE TakeFrame
  <2>1. fifo # <<>> /\ Len(fifo) > 0 /\ can.level \in Nat \ {0}
    <3>1. can.level > 0 /\ can.level <= Len(fifo) /\ can.level \in Nat
      BY <1>1, <1>3 DEF TakeFrame, NumbersInv, Types
    <3> QED BY <1>1, <3>1, EmptySeq
  <2>2. /\ Head(fifo) = fifo[1] /\ Head(fifo) \in Frames
        /\ Tail(fifo) \in Seq(Frames) /\ Len(Tail(fifo)) = Len(fifo) - 1
        /\ \A k \in 1..Len(Tail(fifo)) : Tail(fifo)[k] = fifo[k + 1]
    BY <1>1, <2>1, HeadTailProperties, ElementOfSeq
  <2> DEFINE first == Head(fifo)
             rest == Tail(fifo)
  <2>3. /\ can' = [level |-> can.level - 1, todo |-> Writes(first)]
        /\ fifo' = rest /\ stamp' = [stamp EXCEPT !.can = first.number]
        /\ UNCHANGED <<gps, map, got, messages>>
    BY <1>3 DEF TakeFrame
  <2>4. Writes(first) \in Seq(CanTodos) /\ first.number \in Nat
    BY <2>2, WritesAreCanTodos DEF Frames
  <2>5. /\ stamp.can < first.number /\ first.number <= messages
        /\ \A k \in 1..Len(rest) : first.number < rest[k].number
                                 /\ rest[k].number <= messages
        /\ \A k, l \in 1..Len(rest) : k < l => rest[k].number < rest[l].number
    BY <1>1, <2>1, <2>2 DEF NumbersInv, FramesInOrder
  <2>6. /\ stamp' \in [can : Nat, gps : Nat]
        /\ stamp'.can = first.number /\ stamp'.gps = stamp.gps
    BY <1>1, <2>3, <2>4
  <2>7. /\ can' \in [level : Nat, todo : Seq(CanTodos)]
        /\ can'.level <= Len(rest)
    BY <1>1, <2>1, <2>2, <2>3, <2>4 DEF NumbersInv, Types
  <2> HIDE DEF first, rest
  <2>8. Types'
    BY <2>2, <2>3, <2>6, <2>7 DEF NumbersInv, Types, rest
  <2>9. FramesInOrder'
    BY <2>3, <2>5, <2>6 DEF NumbersInv, FramesInOrder
  <2>10. MapIsBehind' /\ ReadersAreBehind'
    <3>1. \A key \in CanKeys : map[key] \in Nat
      BY KeysAre DEF NumbersInv, Types
    <3> QED BY <1>1, <2>3, <2>4, <2>5, <2>6, <3>1
            DEF NumbersInv, MapIsBehind, ReadersAreBehind
  <2> QED BY <2>8, <2>9, <2>10 DEF NumbersInv
<1> QED BY <1>2, <1>3

\* What a set of a key leaves: the key, or elements of arrays, have changed.
LEMMA SetReachesItsKeyOnly ==
    ASSUME Types, NEW key \in Measured, NEW number \in Nat, Set(key, number)
    PROVE  /\ map' \in [Keys -> Nat]
           /\ \A other \in Scalars : \/ map'[other] = map[other]
                                     \/ other = key /\ map'[other] = number
<1>1. PICK entry \in Confused(key) : map' = [map EXCEPT ![entry] = number]
  BY DEF Set
<1>2. map \in [Keys -> Nat] /\ Scalars \subseteq Keys
  BY KeysAre DEF Types
<1>3. \A other \in Scalars : entry = other => key = other
  BY <1>1, ScalarsAreNotConfused
<1> QED BY <1>1, <1>2, <1>3

\* The CAN task and the GPS task set no name in common.
LEMMA KeysAreApart == CanKeys \cap GpsKeys = {}
<1> QED BY KeysAre DEF Key

\* A set puts the message in hand where an older one was, or the same.
LEMMA SettingKeepsNumbers ==
    ASSUME NumbersInv, CanSets \/ GpsSets PROVE NumbersInv'
<1>1. /\ stamp \in [can : Nat, gps : Nat]
      /\ can \in [level : Nat, todo : Seq(CanTodos)] /\ gps \in Seq(GpsTodos)
      /\ got \in [Scalars -> Nat] /\ map \in [Keys -> Nat] /\ Types
      /\ Scalars = CanKeys \cup GpsKeys /\ Scalars \subseteq Keys
  BY KeysAre DEF NumbersInv, Types
<1>2. CASE CanSets
  <2> DEFINE key == Head(can.todo)
  <2>1. can.todo \in Seq(CanTodos) /\ can.todo # <<>>
    BY <1>1, <1>2 DEF CanSets
  <2>2. key \in CanTodos /\ Tail(can.todo) \in Seq(CanTodos)
    BY <2>1, HeadTailProperties
  <2>3. /\ Set(key, stamp.can) /\ can' = [can EXCEPT !.todo = Tail(@)]
        /\ UNCHANGED <<fifo, stamp, got, messages, gps>>
    BY <1>2 DEF CanSets, Set
  <2>4. key \in Measured /\ stamp.can \in Nat
    BY <1>1, <2>2 DEF CanTodos
  <2> HIDE DEF key
  <2>5. /\ map' \in [Keys -> Nat]
        /\ \A other \in Scalars : \/ map'[other] = map[other]
                                  \/ other = key /\ map'[other] = stamp.can
    BY <1>1, <2>3, <2>4, SetReachesItsKeyOnly
  <2>6. \A other \in GpsKeys : other # key
    <3>1. \A other \in GpsKeys : other.at < 0
      BY KeysAre DEF Key
    <3> QED BY <2>2, <3>1, KeysAreApart DEF CanTodos
  <2>7. can' \in [level : Nat, todo : Seq(CanTodos)] /\ can'.level = can.level
    BY <1>1, <2>2, <2>3
  <2>8. Types'
    BY <2>3, <2>5, <2>7 DEF NumbersInv, Types
  <2>9. FramesInOrder'
    BY <2>3 DEF NumbersInv, FramesInOrder
  <2>10. MapIsBehind'
    <3>1. /\ \A other \in CanKeys : other \in Scalars /\ map[other] \in Nat
          /\ \A other \in GpsKeys : other \in Scalars /\ map[other] \in Nat
      BY <1>1
    <3> QED BY <2>3, <2>4, <2>5, <2>6, <3>1 DEF NumbersInv, MapIsBehind
  <2>11. ReadersAreBehind'
    <3>1. ASSUME NEW other \in Scalars PROVE got[other] <= map'[other]
      <4>1. got[other] <= map[other] /\ got[other] \in Nat /\ map[other] \in Nat
        BY <1>1 DEF NumbersInv, ReadersAreBehind
      <4>2. CASE other = key /\ map'[other] = stamp.can
        <5>1. map[other] <= stamp.can
          BY <1>1, <2>6, <4>2 DEF NumbersInv, MapIsBehind
        <5> QED BY <2>4, <4>1, <4>2, <5>1
      <4> QED BY <2>5, <4>1, <4>2
    <3> QED BY <2>3, <3>1 DEF ReadersAreBehind
  <2> QED BY <2>8, <2>9, <2>10, <2>11 DEF NumbersInv
<1>3. CASE GpsSets
  <2> DEFINE key == Head(gps)
  <2>1. gps # <<>>
    BY <1>3 DEF GpsSets
  <2>2. key \in GpsKeys /\ Tail(gps) \in Seq(GpsTodos)
    BY <1>1, <2>1, HeadTailProperties DEF GpsTodos
  <2>3. /\ Set(key, stamp.gps) /\ gps' = Tail(gps)
        /\ UNCHANGED <<fifo, stamp, got, messages, can>>
    BY <1>3 DEF GpsSets, Set
  <2>4. key \in Measured /\ stamp.gps \in Nat
    BY <1>1, <2>2, GroupsAreSequences
  <2> HIDE DEF key
  <2>5. /\ map' \in [Keys -> Nat]
        /\ \A other \in Scalars : \/ map'[other] = map[other]
                                  \/ other = key /\ map'[other] = stamp.gps
    BY <1>1, <2>3, <2>4, SetReachesItsKeyOnly
  <2>6. \A other \in CanKeys : other # key
    BY <2>2, KeysAreApart
  <2>7. Types'
    BY <2>2, <2>3, <2>5 DEF NumbersInv, Types
  <2>8. FramesInOrder'
    BY <2>3 DEF NumbersInv, FramesInOrder
  <2>9. MapIsBehind'
    <3>1. /\ \A other \in CanKeys : other \in Scalars /\ map[other] \in Nat
          /\ \A other \in GpsKeys : other \in Scalars /\ map[other] \in Nat
      BY <1>1
    <3> QED BY <2>3, <2>4, <2>5, <2>6, <3>1 DEF NumbersInv, MapIsBehind
  <2>10. ReadersAreBehind'
    <3>1. ASSUME NEW other \in Scalars PROVE got[other] <= map'[other]
      <4>1. got[other] <= map[other] /\ got[other] \in Nat /\ map[other] \in Nat
        BY <1>1 DEF NumbersInv, ReadersAreBehind
      <4>2. CASE other = key /\ map'[other] = stamp.gps
        <5>1. map[other] <= stamp.gps
          BY <1>1, <2>6, <4>2 DEF NumbersInv, MapIsBehind
        <5> QED BY <2>4, <4>1, <4>2, <5>1
      <4> QED BY <2>5, <4>1, <4>2
    <3> QED BY <2>3, <3>1 DEF ReadersAreBehind
  <2> QED BY <2>7, <2>8, <2>9, <2>10 DEF NumbersInv
<1> QED BY <1>2, <1>3

\* A position line is newer than the one before it.
LEMMA LineKeepsNumbers == ASSUME NumbersInv, GpsLine PROVE NumbersInv'
<1>1. /\ messages \in Nat /\ messages' = messages + 1
      /\ stamp \in [can : Nat, gps : Nat]
      /\ stamp' = [stamp EXCEPT !.gps = messages + 1] /\ gps' = Position
      /\ UNCHANGED <<fifo, can, map, got>>
  BY DEF NumbersInv, Types, GpsLine
<1>2. /\ stamp' \in [can : Nat, gps : Nat] /\ stamp'.can = stamp.can
      /\ stamp'.gps = messages + 1 /\ stamp.gps <= messages
      /\ stamp.can \in Nat /\ stamp.gps \in Nat
  BY <1>1 DEF NumbersInv, FramesInOrder
<1>3. Types'
  BY <1>1, <1>2, GroupsAreSequences DEF NumbersInv, Types
<1>4. FramesInOrder'
  <2>1. \A k \in 1..Len(fifo) : fifo[k].number \in Nat
    <3>1. \A k \in 1..Len(fifo) : fifo[k] \in Frames
      BY ElementOfSeq DEF NumbersInv, Types
    <3> QED BY <3>1 DEF Frames
  <2> QED BY <1>1, <1>2, <2>1 DEF NumbersInv, FramesInOrder
<1>5. MapIsBehind'
  <2>1. \A key \in GpsKeys : map[key] \in Nat
    BY KeysAre DEF NumbersInv, Types
  <2> QED BY <1>1, <1>2, <2>1 DEF NumbersInv, MapIsBehind
<1>6. ReadersAreBehind'
  BY <1>1 DEF NumbersInv, ReadersAreBehind
<1> QED BY <1>3, <1>4, <1>5, <1>6 DEF NumbersInv

\* A reader changes what it has got only, to what the map has.
LEMMA ReadingKeepsNumbers == ASSUME NumbersInv, Reader PROVE NumbersInv'
<1>1. UNCHANGED <<fifo, can, gps, stamp, map, messages>>
  BY DEF Reader, Begin, Get
<1>2. \/ got' = got
      \/ \E key : got' = [got EXCEPT ![key] = map[key]]
  BY DEF Reader, Begin, Get, Got
<1>3. /\ got \in [Scalars -> Nat] /\ map \in [Keys -> Nat]
      /\ Scalars \subseteq Keys
  BY KeysAre DEF NumbersInv, Types
<1>4. got' \in [Scalars -> Nat]
  BY <1>2, <1>3
<1>5. \A key \in Scalars : got'[key] <= map[key]
  BY <1>2, <1>3 DEF NumbersInv, ReadersAreBehind
<1> QED BY <1>1, <1>4, <1>5
        DEF NumbersInv, Types, FramesInOrder, MapIsBehind, ReadersAreBehind

\* Every step keeps the order of the messages.
LEMMA NextNumbersInv == NumbersInv /\ [Next]_vars => NumbersInv'
<1> SUFFICES ASSUME NumbersInv, [Next]_vars PROVE NumbersInv'
  OBVIOUS
<1>1. ASSUME NEW id \in Ids, NEW full \in BOOLEAN, Frame(id, full)
      PROVE  NumbersInv'
  BY <1>1, FrameKeepsNumbers
<1>2. CASE CanTask
  BY <1>2, TakingKeepsNumbers, SettingKeepsNumbers DEF CanTask
<1>3. CASE GpsLine
  BY <1>3, LineKeepsNumbers
<1>4. CASE GpsSets
  BY <1>4, SettingKeepsNumbers
<1>5. CASE Reader
  BY <1>5, ReadingKeepsNumbers
<1>6. CASE UNCHANGED vars
  BY <1>6 DEF vars, NumbersInv, Types, FramesInOrder, MapIsBehind,
              ReadersAreBehind
<1> QED BY <1>1, <1>2, <1>3, <1>4, <1>5, <1>6 DEF Next

-----------------------------------------------------------------------------
(* A reader that gets a key gets what the map has, and that is no older    *)
(* than what the reader before has got.                                    *)

\* A step gets what is no older than what was got before.
LEMMA StepNeverBack ==
    ASSUME NumbersInv, [Next]_vars
    PROVE  \A key \in Scalars : got'[key] >= got[key]
<1>1. \/ got' = got
      \/ \E key : got' = [got EXCEPT ![key] = map[key]]
  BY DEF Next, vars, Frame, CanTask, FillLevel, TakeFrame, CanSets, GpsSets,
         Set, GpsLine, Reader, Begin, Get, Got
<1>2. /\ got \in [Scalars -> Nat] /\ map \in [Keys -> Nat]
      /\ Scalars \subseteq Keys
  BY KeysAre DEF NumbersInv, Types
<1> QED BY <1>1, <1>2 DEF NumbersInv, ReadersAreBehind

\* No packet or display has an older measurement under a name than was read
\* before, whatever the tasks set and read in between.
THEOREM MeasurementsNeverGoBack == Spec => NeverBack
<1>1. NumbersInv /\ [Next]_vars
          => [\A key \in Scalars : got'[key] >= got[key]]_vars
  BY StepNeverBack
<1> QED BY <1>1, InitNumbersInv, NextNumbersInv, PTL DEF Spec, NeverBack

-----------------------------------------------------------------------------
(* Whole groups: what a message sets it sets entirely, so while its keys   *)
(* are set the ones already set hold the message in hand.                  *)

\* The keys of a sequence joined of two, and of one without its first.
LEMMA ElementsOfJoin ==
    ASSUME NEW S, NEW s \in Seq(S), NEW t \in Seq(S)
    PROVE  ElementsOf(s \o t) = ElementsOf(s) \cup ElementsOf(t)
<1>1. /\ DOMAIN s = 1..Len(s) /\ DOMAIN t = 1..Len(t)
      /\ DOMAIN (s \o t) = 1..(Len(s) + Len(t))
      /\ Len(s) \in Nat /\ Len(t) \in Nat
      /\ \A k \in 1..(Len(s) + Len(t)) :
            (s \o t)[k] = IF k <= Len(s) THEN s[k] ELSE t[k - Len(s)]
  BY ConcatProperties, LenProperties
<1>2. ElementsOf(s) \subseteq ElementsOf(s \o t)
  BY <1>1 DEF ElementsOf
<1>3. ASSUME NEW k \in 1..Len(t) PROVE t[k] \in ElementsOf(s \o t)
  <2>1. PICK l \in 1..(Len(s) + Len(t)) : l = k + Len(s)
    BY <1>1
  <2>2. (s \o t)[l] = t[k]
    BY <1>1, <2>1
  <2> QED BY <1>1, <2>2 DEF ElementsOf
<1>4. ASSUME NEW k \in 1..(Len(s) + Len(t))
      PROVE  (s \o t)[k] \in ElementsOf(s) \cup ElementsOf(t)
  <2>1. CASE k <= Len(s)
    BY <1>1, <2>1 DEF ElementsOf
  <2>2. CASE k > Len(s)
    <3>1. k - Len(s) \in 1..Len(t) /\ (s \o t)[k] = t[k - Len(s)]
      BY <1>1, <2>2
    <3> QED BY <1>1, <3>1 DEF ElementsOf
  <2> QED BY <1>1, <2>1, <2>2
<1> HIDE DEF ElementsOf
<1>5. ElementsOf(t) \subseteq ElementsOf(s \o t)
  BY <1>1, <1>3 DEF ElementsOf
<1>6. ElementsOf(s \o t) \subseteq ElementsOf(s) \cup ElementsOf(t)
  <2>1. \A e \in ElementsOf(s \o t) :
           \E k \in 1..(Len(s) + Len(t)) : e = (s \o t)[k]
    BY <1>1 DEF ElementsOf
  <2> QED BY <1>4, <2>1
<1> QED BY <1>2, <1>5, <1>6

\* The keys of a sequence are its first one and those behind it.
LEMMA ElementsOfTail ==
    ASSUME NEW S, NEW s \in Seq(S), s # <<>>
    PROVE  ElementsOf(s) = {Head(s)} \cup ElementsOf(Tail(s))
<1>1. /\ DOMAIN s = 1..Len(s) /\ Len(s) \in Nat \ {0} /\ Head(s) = s[1]
      /\ DOMAIN Tail(s) = 1..(Len(s) - 1)
      /\ \A k \in 1..(Len(s) - 1) : Tail(s)[k] = s[k + 1]
  BY HeadTailProperties, LenProperties, EmptySeq
<1>2. ASSUME NEW k \in 1..Len(s)
      PROVE  s[k] \in {Head(s)} \cup ElementsOf(Tail(s))
  <2>1. CASE k # 1
    <3>1. PICK l \in 1..(Len(s) - 1) : k = l + 1
      BY <1>1, <2>1
    <3> QED BY <1>1, <3>1 DEF ElementsOf
  <2> QED BY <1>1, <2>1
<1>3. \A k \in 1..(Len(s) - 1) : Tail(s)[k] \in ElementsOf(s)
  BY <1>1 DEF ElementsOf
<1>4. Head(s) \in ElementsOf(s)
  BY <1>1 DEF ElementsOf
<1>5. ElementsOf(Tail(s)) \subseteq ElementsOf(s)
  <2>1. \A e \in ElementsOf(Tail(s)) :
           \E k \in 1..(Len(s) - 1) : e = Tail(s)[k]
    BY <1>1 DEF ElementsOf
  <2> QED BY <1>3, <2>1
<1>6. ElementsOf(s) \subseteq {Head(s)} \cup ElementsOf(Tail(s))
  <2>1. \A e \in ElementsOf(s) : \E k \in 1..Len(s) : e = s[k]
    BY <1>1 DEF ElementsOf
  <2> QED BY <1>2, <2>1
<1> QED BY <1>4, <1>5, <1>6

CanGroups == {ElementsOf(Engine), ElementsOf(Consumption), ElementsOf(Hydro)}

\* The groups are those of the CAN task and that of the GPS task, of single
\* measurements, and no two have a measurement in common.
LEMMA GroupsAre ==
    /\ Groups = CanGroups \cup {GpsKeys}
    /\ \A group \in CanGroups : group \subseteq CanKeys
    /\ \A g, h \in CanGroups : g = h \/ g \cap h = {}
    /\ \A key \in Scalars : key.at = -1 /\ key \in Measured
<1>1. /\ ElementsOf(Engine) = {Key("engine_rpm"), Key("engine_speed")}
      /\ ElementsOf(Consumption) = {Key("can_spent_mah"), Key("can_spent_mwh"),
                                    Key("can_current"), Key("can_soc_percent")}
      /\ ElementsOf(Hydro) = {Key("can_hydro_ppm"), Key("can_hydro_temp")}
  BY DEF ElementsOf, Engine, Consumption, Hydro
<1>2. \A g, h \in CanGroups : g = h \/ g \cap h = {}
  <2>1. /\ ElementsOf(Engine) \cap ElementsOf(Consumption) = {}
        /\ ElementsOf(Engine) \cap ElementsOf(Hydro) = {}
        /\ ElementsOf(Consumption) \cap ElementsOf(Hydro) = {}
    BY <1>1 DEF Key
  <2> QED BY <2>1 DEF CanGroups
<1>3. \A key \in Scalars : key.at = -1 /\ key \in Measured
  <2>1. CanKeys \cup GpsKeys \subseteq [name : Names, at : {-1}]
    BY KeysAre DEF Key, Names
  <2> QED BY <2>1, KeysAre DEF Measured
<1> QED BY <1>2, <1>3 DEF Groups, CanGroups, GpsKeys, CanKeys

\* Arrays have no single measurement among their elements.
LEMMA ArraysHaveNoScalars ==
    ASSUME NEW name, NEW first \in Nat, NEW size \in Nat
    PROVE  ElementsOf(Array(name, first, size)) \cap Scalars = {}
<1>1. \A e \in ElementsOf(Array(name, first, size)) : e.at >= 0
  BY DEF ElementsOf, Array, Element
<1> QED BY <1>1, GroupsAre

\* No path through process_can_rx sets a part of a group: a frame sets all
\* of its keys or none.
LEMMA WritesAreWholeGroups ==
    ASSUME NEW frame \in Frames, NEW group \in CanGroups
    PROVE  \/ group \subseteq ElementsOf(Writes(frame))
           \/ group \cap ElementsOf(Writes(frame)) = {}
<1> USE TelemetryAssumption
<1>0. ElementsOf(<<>>) = {}
  BY DEF ElementsOf
<1>1. group \subseteq Scalars /\ ElementsOf(Consumption) \in CanGroups
      /\ ElementsOf(Engine) \in CanGroups /\ ElementsOf(Hydro) \in CanGroups
  BY GroupsAre, KeysAre DEF CanGroups
<1>2. ASSUME NEW first \in Nat
      PROVE  /\ Voltages(first, FrameCells) \in Seq(CanTodos)
             /\ ElementsOf(Voltages(first, FrameCells)) \cap group = {}
  <2>1. "can_battery_voltage" \in Names /\ FrameCells \in Nat
    BY DEF Names
  <2> QED BY <1>1, <2>1, ArraysAreSequences, ArraysHaveNoScalars DEF Voltages
<1>3. /\ BatteryTemps \in Seq(CanTodos)
      /\ ElementsOf(BatteryTemps) \cap group = {}
  <2>1. "can_battery_temp" \in Names /\ Temperatures \in Nat /\ 0 \in Nat
    BY DEF Names
  <2> QED BY <1>1, <2>1, ArraysAreSequences, ArraysHaveNoScalars
          DEF BatteryTemps
<1>4. CASE frame.id \in {"BMS1", "BMS2", "BMS3"}
  <2> DEFINE first == BatteryIndex(frame.id) * FrameCells
  <2>1. first \in Nat
    BY <1>4 DEF BatteryIndex
  <2>2. Writes(frame) = Voltages(first, FrameCells) \o Consumption
    BY <1>4 DEF Writes
  <2> HIDE DEF first
  <2>3. ElementsOf(Writes(frame)) = ElementsOf(Voltages(first, FrameCells))
                                       \cup ElementsOf(Consumption)
    BY <1>2, <2>1, <2>2, GroupsAreSequences, ElementsOfJoin
  <2> QED BY <1>1, <1>2, <2>1, <2>3, GroupsAre
<1>5. CASE frame.id = "BMS4"
  <2> DEFINE volts == Voltages(3 * FrameCells, FrameCells)
  <2>1. /\ volts \in Seq(CanTodos)
        /\ ElementsOf(volts) \cap group = {}
    <3>1. 3 * FrameCells \in Nat
      OBVIOUS
    <3> QED BY <1>2, <3>1
  <2>2. Writes(frame) = (volts \o BatteryTemps) \o Consumption
    BY <1>5 DEF Writes
  <2> HIDE DEF volts
  <2>3. /\ volts \o BatteryTemps \in Seq(CanTodos)
        /\ ElementsOf(volts \o BatteryTemps)
              = ElementsOf(volts) \cup ElementsOf(BatteryTemps)
    BY <1>3, <2>1, ConcatProperties, ElementsOfJoin
  <2>4. ElementsOf(Writes(frame)) = ElementsOf(volts \o BatteryTemps)
                                       \cup ElementsOf(Consumption)
    <3> DEFINE both == volts \o BatteryTemps
    <3>1. both \in Seq(CanTodos) /\ Writes(frame) = both \o Consumption
      BY <2>2, <2>3
    <3> HIDE DEF both
    <3>2. ElementsOf(Writes(frame)) = ElementsOf(both)
                                         \cup ElementsOf(Consumption)
      BY <3>1, GroupsAreSequences, ElementsOfJoin
    <3> QED BY <3>2 DEF both
  <2> QED BY <1>1, <1>3, <2>1, <2>3, <2>4, GroupsAre
<1>6. CASE frame.id \notin {"BMS1", "BMS2", "BMS3", "BMS4"}
  <2>1. Writes(frame) \in {Engine, Consumption, Hydro, <<>>}
    BY <1>6 DEF Writes, EngineWrites
  <2> QED BY <1>0, <1>1, <2>1, GroupsAre
<1> QED BY <1>4, <1>5, <1>6

\* A group while its task still has to set keys: it holds one message, or
\* some of it is left and the rest holds the message in hand.
InProgress(group, todo, number) ==
    \/ group \cap ElementsOf(todo) = {} /\ Agree(map, group)
    \/ /\ group \cap ElementsOf(todo) # {}
       /\ \A key \in group \ ElementsOf(todo) : map[key] = number

GroupsInv ==
    /\ Types
    /\ \A group \in CanGroups : InProgress(group, can.todo, stamp.can)
    /\ InProgress(GpsKeys, gps, stamp.gps)

\* A packet that is read while nothing is set: the groups agree, and what has
\* been read is what the map has.
QuietInv ==
    /\ reading \in Seq(Measured)
    /\ quiet =>
          /\ \A group \in Groups : Agree(map, group)
          /\ \A key \in Scalars \ ElementsOf(reading) : got[key] = map[key]

\* A single measurement is set to the message in hand, and no other changes.
LEMMA SetsItsKey ==
    ASSUME Types, NEW key \in Measured, NEW number \in Nat, Set(key, number)
    PROVE  \A other \in Scalars :
              map'[other] = IF other = key THEN number ELSE map[other]
<1>1. PICK entry \in Confused(key) : map' = [map EXCEPT ![entry] = number]
  BY DEF Set
<1>2. map \in [Keys -> Nat] /\ Scalars \subseteq Keys
  BY KeysAre DEF Types
<1>3. \A other \in Scalars : entry = other => key = other
  BY <1>1, ScalarsAreNotConfused
<1>4. key \in Scalars => entry = key
  <2>1. key \in Scalars => key.at = -1
    BY GroupsAre
  <2> QED BY <1>1, <2>1 DEF Confused
<1> QED BY <1>1, <1>2, <1>3, <1>4

\* Setting the next key of a message leaves every group in progress.
LEMMA SettingKeepsProgress ==
    ASSUME Types, NEW todo \in Seq(Measured), todo # <<>>,
           NEW number \in Nat, Set(Head(todo), number),
           NEW group \in SUBSET Scalars, InProgress(group, todo, number)
    PROVE  InProgress(group, Tail(todo), number)'
<1> DEFINE key == Head(todo)
           left == ElementsOf(todo)
           rest == ElementsOf(Tail(todo))
<1>1. key \in Measured /\ left = {key} \cup rest
  BY ElementsOfTail, HeadTailProperties
<1>2. \A other \in group :
         map'[other] = IF other = key THEN number ELSE map[other]
  BY <1>1, SetsItsKey
<1> HIDE DEF key, left, rest
<1>3. CASE group \cap left = {} /\ Agree(map, group)
  <2>1. group \cap rest = {} /\ key \notin group
    BY <1>1, <1>3
  <2>2. Agree(map', group)
    BY <1>2, <1>3, <2>1 DEF Agree
  <2> QED BY <2>1, <2>2 DEF InProgress, rest
<1>4. CASE /\ group \cap left # {}
           /\ \A other \in group \ left : map[other] = number
  <2>1. \A other \in group \ rest : map'[other] = number
    BY <1>1, <1>2, <1>4
  <2>2. group \cap rest = {} => Agree(map', group)
    BY <2>1 DEF Agree
  <2> QED BY <2>1, <2>2 DEF InProgress, rest
<1> QED BY <1>3, <1>4 DEF InProgress, left

\* A group no key of which is set stays as far as it is.
LEMMA OthersKeepProgress ==
    ASSUME Types, NEW key \in Measured, NEW number \in Nat, Set(key, number),
           NEW group \in SUBSET Scalars, key \notin group, NEW todo, NEW other,
           InProgress(group, todo, other)
    PROVE  InProgress(group, todo, other)'
<1>1. \A k \in group : map'[k] = map[k]
  BY SetsItsKey
<1> QED BY <1>1 DEF InProgress, Agree

\* A group of which a new message sets all or nothing is begun.
LEMMA BeginsInProgress ==
    ASSUME NEW group, NEW todo, NEW number, Agree(map, group),
           \/ group \subseteq ElementsOf(todo)
           \/ group \cap ElementsOf(todo) = {}
    PROVE  InProgress(group, todo, number)
BY DEF InProgress

\* Every step keeps the groups in progress.
LEMMA GroupsStep ==
    GroupsInv /\ NumbersInv /\ [Next]_vars => GroupsInv'
<1> SUFFICES ASSUME GroupsInv, NumbersInv, [Next]_vars PROVE GroupsInv'
  OBVIOUS
<1>0. Types /\ Types'
  BY NextNumbersInv DEF NumbersInv
<1>1. /\ \A group \in CanGroups : group \in SUBSET Scalars
      /\ GpsKeys \in SUBSET Scalars /\ CanKeys \cap GpsKeys = {}
      /\ \A group \in CanGroups : group \subseteq CanKeys
  BY GroupsAre, KeysAre, KeysAreApart
<1>2. /\ can.todo \in Seq(CanTodos) /\ gps \in Seq(GpsTodos)
      /\ CanTodos \subseteq Measured /\ GpsTodos \subseteq Measured
      /\ stamp.can \in Nat /\ stamp.gps \in Nat
  BY <1>0, GroupsAreSequences DEF Types, CanTodos, GpsTodos
<1>3. ElementsOf(<<>>) = {}
  BY DEF ElementsOf
<1>4. CASE UNCHANGED <<can, gps, stamp, map>>
  BY <1>0, <1>4 DEF GroupsInv, InProgress
<1>5. CASE FillLevel
  <2>1. UNCHANGED <<gps, stamp, map>> /\ can'.todo = can.todo
    BY <1>0, <1>5 DEF FillLevel, Types
  <2> QED BY <1>0, <2>1 DEF GroupsInv, InProgress
<1>6. CASE TakeFrame
  <2>1. /\ can.todo = <<>> /\ can'.todo = Writes(Head(fifo))
        /\ UNCHANGED <<gps, map>> /\ stamp'.gps = stamp.gps
    BY <1>0, <1>6 DEF TakeFrame, Types
  <2>2. Head(fifo) \in Frames
    <3>1. fifo \in Seq(Frames) /\ can.level > 0 /\ can.level <= Len(fifo)
          /\ can.level \in Nat
      BY <1>0, <1>6 DEF TakeFrame, Types
    <3>2. fifo # <<>>
      BY <3>1
    <3> QED BY <3>1, <3>2, HeadTailProperties
  <2>3. ASSUME NEW group \in CanGroups
        PROVE  InProgress(group, can'.todo, stamp'.can)
    <3>1. Agree(map, group)
      BY <1>3, <2>1 DEF GroupsInv, InProgress
    <3> QED BY <2>1, <2>2, <3>1, WritesAreWholeGroups, BeginsInProgress
  <2>4. \A group \in CanGroups : InProgress(group, can.todo, stamp.can)'
    BY <2>1, <2>3 DEF InProgress
  <2>5. InProgress(GpsKeys, gps, stamp.gps)'
    BY <2>1 DEF GroupsInv, InProgress
  <2> QED BY <1>0, <2>4, <2>5 DEF GroupsInv
<1>7. CASE CanSets
  <2> DEFINE key == Head(can.todo)
  <2>1. /\ can.todo # <<>> /\ Set(key, stamp.can)
        /\ can'.todo = Tail(can.todo) /\ UNCHANGED <<gps, stamp>>
    BY <1>0, <1>7 DEF CanSets, Set, Types
  <2>2. can.todo \in Seq(Measured) /\ key \in CanTodos /\ key \in Measured
    BY <1>2, <2>1, HeadTailProperties
  <2>3. key \notin GpsKeys
    <3>1. \A other \in GpsKeys : other.at = -1
      BY <1>1, GroupsAre
    <3> QED BY <1>1, <2>2, <3>1 DEF CanTodos
  <2> HIDE DEF key
  <2>4. ASSUME NEW group \in CanGroups
        PROVE  InProgress(group, can.todo, stamp.can)'
    <3>1. PICK todo \in Seq(Measured) : todo = can.todo
      BY <2>2
    <3>2. PICK number \in Nat : number = stamp.can
      BY <1>2
    <3>3. InProgress(group, todo, number) /\ Set(Head(todo), number)
          /\ todo # <<>>
      BY <2>1, <3>1, <3>2 DEF GroupsInv, key
    <3>4. InProgress(group, Tail(todo), number)'
      BY <1>0, <1>1, <3>3, SettingKeepsProgress
    <3> QED BY <2>1, <3>1, <3>2, <3>4 DEF InProgress
  <2>5. InProgress(GpsKeys, gps, stamp.gps)'
    <3>1. PICK todo, other : todo = gps /\ other = stamp.gps
      OBVIOUS
    <3>2. InProgress(GpsKeys, todo, other)'
      BY <1>0, <1>1, <1>2, <2>1, <2>2, <2>3, <3>1, OthersKeepProgress
      DEF GroupsInv
    <3> QED BY <2>1, <3>1, <3>2 DEF InProgress
  <2> QED BY <1>0, <2>4, <2>5 DEF GroupsInv
<1>8. CASE GpsSets
  <2> DEFINE key == Head(gps)
  <2>1. /\ gps # <<>> /\ Set(key, stamp.gps)
        /\ gps' = Tail(gps) /\ UNCHANGED <<can, stamp>>
    BY <1>8 DEF GpsSets, Set
  <2>2. gps \in Seq(Measured) /\ key \in GpsKeys /\ key \in Measured
    BY <1>2, <2>1, HeadTailProperties DEF GpsTodos
  <2> HIDE DEF key
  <2>3. ASSUME NEW group \in CanGroups
        PROVE  InProgress(group, can.todo, stamp.can)'
    <3>1. PICK todo, other : todo = can.todo /\ other = stamp.can
      OBVIOUS
    <3>2. key \notin group
      BY <1>1, <2>2
    <3>3. InProgress(group, todo, other)'
      BY <1>0, <1>1, <1>2, <2>1, <2>2, <3>1, <3>2, OthersKeepProgress
      DEF GroupsInv
    <3> QED BY <2>1, <3>1, <3>3 DEF InProgress
  <2>4. InProgress(GpsKeys, gps, stamp.gps)'
    <3>1. PICK todo \in Seq(Measured) : todo = gps
      BY <2>2
    <3>2. PICK number \in Nat : number = stamp.gps
      BY <1>2
    <3>3. InProgress(GpsKeys, todo, number) /\ Set(Head(todo), number)
          /\ todo # <<>>
      BY <2>1, <3>1, <3>2 DEF GroupsInv, key
    <3>4. InProgress(GpsKeys, Tail(todo), number)'
      BY <1>0, <1>1, <3>3, SettingKeepsProgress
    <3> QED BY <2>1, <3>1, <3>2, <3>4 DEF InProgress
  <2> QED BY <1>0, <2>3, <2>4 DEF GroupsInv
<1>9. CASE GpsLine
  <2>1. /\ gps = <<>> /\ gps' = Position /\ UNCHANGED <<can, map>>
        /\ stamp'.can = stamp.can
    BY <1>0, <1>9 DEF GpsLine, Types
  <2>2. InProgress(GpsKeys, gps', stamp'.gps)
    <3>1. Agree(map, GpsKeys)
      BY <1>3, <2>1 DEF GroupsInv, InProgress
    <3> QED BY <2>1, <3>1, BeginsInProgress DEF GpsKeys
  <2>3. \A group \in CanGroups : InProgress(group, can.todo, stamp.can)'
    BY <2>1 DEF GroupsInv, InProgress
  <2>4. InProgress(GpsKeys, gps, stamp.gps)'
    BY <2>1, <2>2 DEF InProgress
  <2> QED BY <1>0, <2>3, <2>4 DEF GroupsInv
<1>10. CASE \/ \E id \in Ids, full \in BOOLEAN : Frame(id, full)
            \/ Reader \/ UNCHANGED vars
  BY <1>4, <1>10 DEF Frame, Reader, Begin, Get, vars
<1> QED BY <1>5, <1>6, <1>7, <1>8, <1>9, <1>10 DEF Next, CanTask

\* The groups are in progress throughout.
LEMMA GroupsInvariant == Spec => [](NumbersInv /\ GroupsInv)
<1>1. Init => GroupsInv
  <2> SUFFICES ASSUME Init PROVE GroupsInv
    OBVIOUS
  <2>1. Types
    BY InitNumbersInv DEF NumbersInv
  <2>2. ElementsOf(<<>>) = {} /\ can.todo = <<>> /\ gps = <<>>
    BY DEF Init, ElementsOf
  <2>3. \A group \in Groups : Agree(map, group)
    <3>1. \A group \in Groups : group \subseteq Keys
      BY GroupsAre, KeysAre
    <3> QED BY <3>1 DEF Init, Agree
  <2> QED BY <2>1, <2>2, <2>3, GroupsAre DEF GroupsInv, InProgress
<1> QED BY <1>1, GroupsStep, InitNumbersInv, NextNumbersInv, PTL DEF Spec

\* At rest no group is left half set.
LEMMA AtRest == GroupsInv => GroupsAgreeAtRest
<1>1. ElementsOf(<<>>) = {}
  BY DEF ElementsOf
<1> QED BY <1>1, GroupsAre DEF GroupsInv, InProgress, GroupsAgreeAtRest

\* When the tasks have nothing left to set, the measurements of a group are
\* those of one message, whatever frames and lines came and were lost.
THEOREM GroupsAreOfOneMessage == Spec => []GroupsAgreeAtRest
<1> QED BY GroupsInvariant, AtRest, PTL

-----------------------------------------------------------------------------
(* Packets that are read while nothing is set.                             *)

\* The orders in which the readers get keys are sequences of keys, and that of
\* the packet has every single measurement.
LEMMA ReadsAre ==
    /\ PacketReads \in Seq(Measured) /\ DisplayReads \in Seq(Measured)
    /\ Scalars \subseteq ElementsOf(PacketReads)
<1> USE TelemetryAssumption
<1> DEFINE turned == <<Position[2], Position[1]>>
           swapped == <<Engine[2], Engine[1]>>
<1>1. CanTodos \subseteq Measured
  BY DEF CanTodos
<1>2. \A s \in Seq(CanTodos) : s \in Seq(Measured)
  BY <1>1
<1>3. /\ Engine \in Seq(Measured) /\ Consumption \in Seq(Measured)
      /\ Hydro \in Seq(Measured) /\ swapped \in Seq(Measured)
      /\ turned \in Seq(Measured)
  <2>1. Engine \in Seq(Measured) /\ Consumption \in Seq(Measured)
        /\ Hydro \in Seq(Measured)
    BY <1>2, GroupsAreSequences
  <2>2. \A key \in Scalars : key \in Measured
    BY GroupsAre
  <2>3. /\ Engine[1] \in Scalars /\ Engine[2] \in Scalars
        /\ Position[1] \in Scalars /\ Position[2] \in Scalars
    BY KeysAre DEF Engine, Position
  <2> QED BY <2>1, <2>2, <2>3
<1>4. Voltages(0, CellCount) \in Seq(Measured)
      /\ BatteryTemps \in Seq(Measured)
  <2>1. "can_battery_temp" \in Names /\ Temperatures \in Nat /\ 0 \in Nat
        /\ "can_battery_voltage" \in Names /\ CellCount \in Nat
    BY DEF Names
  <2> QED BY <1>2, <2>1, ArraysAreSequences DEF Voltages, BatteryTemps
<1>5. \A s, t \in Seq(Measured) :
         /\ s \o t \in Seq(Measured)
         /\ ElementsOf(s \o t) = ElementsOf(s) \cup ElementsOf(t)
  BY ConcatProperties, ElementsOfJoin
<1>6. /\ PacketReads = ((((Consumption \o Hydro) \o Engine) \o turned)
                          \o Voltages(0, CellCount)) \o BatteryTemps
      /\ DisplayReads = ((((BatteryTemps \o Voltages(0, CellCount))
                          \o Consumption) \o swapped) \o Hydro)
  BY DEF PacketReads, DisplayReads
<1>7. ElementsOf(turned) = GpsKeys
  BY DEF ElementsOf, GpsKeys, Position
<1> HIDE DEF turned, swapped
<1>8. DisplayReads \in Seq(Measured)
  <2>1. BatteryTemps \o Voltages(0, CellCount) \in Seq(Measured)
    BY <1>4, <1>5
  <2>2. (BatteryTemps \o Voltages(0, CellCount)) \o Consumption
           \in Seq(Measured)
    BY <1>3, <1>5, <2>1
  <2> QED BY <1>3, <1>5, <1>6, <2>2
<1>9. PICK a, b, c, d \in Seq(Measured) :
         /\ a = Consumption \o Hydro /\ b = a \o Engine /\ c = b \o turned
         /\ d = c \o Voltages(0, CellCount)
  <2>1. Consumption \o Hydro \in Seq(Measured)
    BY <1>3, <1>5
  <2> DEFINE a == Consumption \o Hydro
             b == a \o Engine
             c == b \o turned
  <2>2. b \in Seq(Measured)
    BY <1>3, <1>5, <2>1
  <2>3. c \in Seq(Measured)
    BY <1>3, <1>5, <2>2
  <2>4. c \o Voltages(0, CellCount) \in Seq(Measured)
    BY <1>4, <1>5, <2>3
  <2> QED BY <2>1, <2>2, <2>3, <2>4
<1>10. PacketReads = d \o BatteryTemps
  BY <1>6, <1>9
<1>11. /\ PacketReads \in Seq(Measured)
       /\ ElementsOf(PacketReads) = ElementsOf(d) \cup ElementsOf(BatteryTemps)
  BY <1>4, <1>5, <1>10
<1>12. /\ ElementsOf(a) = ElementsOf(Consumption) \cup ElementsOf(Hydro)
       /\ ElementsOf(b) = ElementsOf(a) \cup ElementsOf(Engine)
       /\ ElementsOf(c) = ElementsOf(b) \cup ElementsOf(turned)
       /\ ElementsOf(c) \subseteq ElementsOf(d)
  <2>1. ElementsOf(a) = ElementsOf(Consumption) \cup ElementsOf(Hydro)
    BY <1>3, <1>5, <1>9
  <2>2. ElementsOf(b) = ElementsOf(a) \cup ElementsOf(Engine)
    BY <1>3, <1>5, <1>9
  <2>3. ElementsOf(c) = ElementsOf(b) \cup ElementsOf(turned)
    BY <1>3, <1>5, <1>9
  <2>4. ElementsOf(d) = ElementsOf(c) \cup ElementsOf(Voltages(0, CellCount))
    BY <1>4, <1>5, <1>9
  <2> QED BY <2>1, <2>2, <2>3, <2>4
<1>13. Scalars \subseteq ElementsOf(PacketReads)
  <2>1. Scalars = ElementsOf(Engine) \cup ElementsOf(Consumption)
                     \cup ElementsOf(Hydro) \cup GpsKeys
    BY KeysAre DEF CanKeys
  <2> QED BY <1>7, <1>11, <1>12, <2>1
<1> QED BY <1>8, <1>11, <1>13

\* Every step keeps what a quiet packet has read in agreement with the map.
LEMMA QuietStep ==
    NumbersInv /\ GroupsInv /\ QuietInv /\ [Next]_vars => QuietInv'
<1> SUFFICES ASSUME NumbersInv, GroupsInv, QuietInv, [Next]_vars
             PROVE  QuietInv'
  OBVIOUS
<1>0. /\ Types /\ reading \in Seq(Measured) /\ got \in [Scalars -> Nat]
  BY DEF NumbersInv, Types, QuietInv
<1>1. CASE UNCHANGED <<map, reading, got, quiet>>
  BY <1>1 DEF QuietInv, Agree
<1>2. CASE CanSets \/ GpsSets
  BY <1>0, <1>2 DEF CanSets, GpsSets, Set, QuietInv
<1>3. CASE \E reads \in {PacketReads, DisplayReads} : Begin(reads)
  <2>1. PICK reads \in {PacketReads, DisplayReads} :
           /\ reading' = reads /\ UNCHANGED <<map, got>>
           /\ quiet' = (reads = PacketReads /\ can.todo = <<>> /\ gps = <<>>)
    BY <1>3 DEF Begin
  <2>2. reading' \in Seq(Measured)
    BY <2>1, ReadsAre
  <2>3. quiet' => Scalars \ ElementsOf(reading') = {}
    BY <2>1, ReadsAre
  <2>4. quiet' => \A group \in Groups : Agree(map', group)
    BY <2>1, AtRest DEF GroupsAgreeAtRest, Agree
  <2> QED BY <2>2, <2>3, <2>4 DEF QuietInv
<1>4. CASE Get
  <2> DEFINE key == Head(reading)
             left == ElementsOf(reading)
             rest == ElementsOf(Tail(reading))
  <2>1. /\ key \in Measured /\ left = {key} \cup rest
        /\ Tail(reading) \in Seq(Measured)
    <3>1. reading # <<>>
      BY <1>4 DEF Get
    <3> QED BY <1>0, <3>1, ElementsOfTail, HeadTailProperties
  <2>2. /\ UNCHANGED <<map, quiet>> /\ reading' = Tail(reading)
        /\ \/ key.at >= 0 /\ got' = got
           \/ got' = [got EXCEPT ![key] = map[key]]
    BY <1>4 DEF Get, Got
  <2> HIDE DEF key, left, rest
  <2>3. key \in Scalars => key.at = -1
    BY GroupsAre
  <2>4. ASSUME quiet, NEW other \in Scalars \ rest
        PROVE  got'[other] = map[other]
    <3>1. CASE other = key
      BY <1>0, <2>2, <2>3, <3>1
    <3>2. CASE other # key
      <4>1. other \in Scalars \ left
        BY <2>1, <3>2
      <4>2. got[other] = map[other]
        BY <2>4, <4>1 DEF QuietInv, left
      <4> QED BY <1>0, <2>2, <3>2, <4>2
    <3> QED BY <3>1, <3>2
  <2>5. quiet => \A group \in Groups : Agree(map', group)
    BY <2>2 DEF QuietInv, Agree
  <2> QED BY <2>1, <2>2, <2>4, <2>5 DEF QuietInv, rest
<1> QED BY <1>1, <1>2, <1>3, <1>4
        DEF Next, vars, Frame, CanTask, FillLevel, TakeFrame, GpsLine, Reader

\* A packet that is read while nothing is set mixes no two messages: every
\* group in it is of one frame, or of one position.
THEOREM QuietPacketsHoldOneMessage == Spec => []QuietPacketsAreWhole
<1>1. Init => QuietInv
  <2> SUFFICES ASSUME Init PROVE QuietInv
    OBVIOUS
  <2>1. \A group \in Groups : group \subseteq Scalars
    BY GroupsAre, KeysAre
  <2>2. reading \in Seq(Measured) /\ Scalars \subseteq Keys
    BY EmptySeq, KeysAre DEF Init
  <2> QED BY <2>1, <2>2 DEF Init, QuietInv, Agree
<1>2. NumbersInv /\ QuietInv => QuietPacketsAreWhole
  <2> SUFFICES ASSUME QuietInv, reading = <<>>, quiet, NEW group \in Groups,
                      NEW k \in group, NEW l \in group
               PROVE  got[k] = got[l]
    BY DEF QuietPacketsAreWhole, Agree
  <2>1. ElementsOf(<<>>) = {}
    BY DEF ElementsOf
  <2>2. group \subseteq Scalars
    BY GroupsAre, KeysAre
  <2>3. got[k] = map[k] /\ got[l] = map[l]
    BY <2>1, <2>2 DEF QuietInv
  <2> QED BY <2>3 DEF QuietInv, Agree
<1> QED BY <1>1, <1>2, GroupsInvariant, QuietStep, PTL DEF Spec
=============================================================================
