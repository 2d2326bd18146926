----------------------------- MODULE Telemetry -----------------------------
(***************************************************************************)
(* The measurements on their way from the CAN bus and the GPS receiver     *)
(* through the data collector (Tele/DataCollector.hpp) into packets        *)
(* (produce_full_packet) and onto the driver's display (NextionTask).      *)
(*                                                                         *)
(* A measurement is the number of the message it came with, 0 the absence  *)
(* of one; how bytes become volts is left out.  Every set and every get    *)
(* locks the collector on its own, and is one step.                        *)
(***************************************************************************)
EXTENDS Integers, Sequences

CONSTANTS
    FrameCells,    \* voltages in a battery frame: 8
    CellCount,     \* cells of the battery: 27, or 20
    Temperatures,  \* temperatures of the battery: 5
    FifoDepth,     \* the CAN controller's receive FIFO: 3
    Ids,           \* the frames on the bus, of CANIDs
    MaxMessages    \* bound: frames and GPS lines

ASSUME TelemetryAssumption ==
    /\ {FrameCells, CellCount, Temperatures, FifoDepth} \subseteq Nat \ {0}
    /\ MaxMessages \in Nat

-----------------------------------------------------------------------------
(* Keys.  The keys of arrays are formatted into a string that dies when    *)
(* set_array has stored a view of it: a later lookup of an array key finds *)
(* its own entry, that of another key of the same length, or none,         *)
(* depending on where the heap puts the next string.                       *)

Key(name) == [name |-> name, at |-> -1]
Element(name, k) == [name |-> name, at |-> k]

Engine == <<Key("engine_rpm"), Key("engine_speed")>>
Consumption == <<Key("can_spent_mah"), Key("can_spent_mwh"),
                 Key("can_current"), Key("can_soc_percent")>>
Hydro == <<Key("can_hydro_ppm"), Key("can_hydro_temp")>>
Position == <<Key("gps_latitude"), Key("gps_longitude")>>
Array(name, first, size) ==
    [k \in 1..size |-> Element(name, first + k - 1)]
Voltages(first, size) == Array("can_battery_voltage", first, size)
BatteryTemps == Array("can_battery_temp", 0, Temperatures)

ElementsOf(seq) == {seq[k] : k \in DOMAIN seq}
Groups == {ElementsOf(Engine), ElementsOf(Consumption), ElementsOf(Hydro),
           ElementsOf(Position)}
Scalars == UNION Groups
Keys == Scalars \cup ElementsOf(Voltages(0, 4 * FrameCells))
                \cup ElementsOf(BatteryTemps)

Confused(key) ==
    IF key.at < 0 THEN {key}
    ELSE {other \in Keys : /\ other.name = key.name /\ other.at >= 0
                           /\ (other.at < 10) = (key.at < 10)}

VARIABLES
    fifo,      \* the frames in the controller: [id, full, number]
    can,       \* the CAN task: messages left in this round, keys to set
    gps,       \* the GPS task: keys to set
    stamp,     \* the number of the frame, and of the line, in hand
    map,       \* m_float_map
    reading,   \* a reader: the keys it has still to get
    got,       \* what it has got, the keys of arrays aside; what the last
               \* reader has got where it has not yet
    messages,  \* messages so far
    quiet      \* history: a packet is being read, and no key has been set
               \* since it was begun

vars == <<fifo, can, gps, stamp, map, reading, got,
          messages, quiet>>

Init ==
    /\ fifo = <<>>
    /\ can = [level |-> 0, todo |-> <<>>]
    /\ gps = <<>>
    /\ stamp = [can |-> 0, gps |-> 0]
    /\ map = [key \in Keys |-> 0]
    /\ reading = <<>> /\ got = [key \in Scalars |-> 0]
    /\ messages = 0
    /\ quiet = TRUE

-----------------------------------------------------------------------------
(* The bus and the CAN task.                                               *)

\* A full FIFO loses the frame.  `full` is a DLC of 8.
Frame(id, full) ==
    /\ messages < MaxMessages
    /\ messages' = messages + 1
    /\ fifo' = IF Len(fifo) < FifoDepth
               THEN Append(fifo, [id |-> id, full |-> full,
                                  number |-> messages + 1])
               ELSE fifo
    /\ UNCHANGED <<can, gps, stamp, map, reading, got,
                   quiet>>

BatteryIndex(id) ==
    CASE id = "BMS1" -> 0 [] id = "BMS2" -> 1
      [] id = "BMS3" -> 2 [] id = "BMS4" -> 3

\* Mutant: frames of the right size are the ones left out.
EngineWritesSwapped(frame) == IF frame.full THEN <<>> ELSE Engine

\* Mutant: the size of the frame is tested too late.
EngineWritesUnchecked(frame) == IF frame.full THEN Engine ELSE <<Engine[1]>>

\* Only the engine's frame is held against its size.
EngineWrites(frame) == IF frame.full THEN Engine ELSE <<>>

\* process_can_rx: the keys a frame sets, in order.  The cases of the battery
\* frames have no break: they set the consumption, from the same bytes.
Writes(frame) ==
    CASE frame.id = "EngineRPMTemp" -> EngineWrites(frame)
      [] frame.id \in {"BMS1", "BMS2", "BMS3"} ->
            Voltages(BatteryIndex(frame.id) * FrameCells, FrameCells)
                \o Consumption
      [] frame.id = "BMS4" ->
            Voltages(3 * FrameCells, FrameCells) \o BatteryTemps \o Consumption
      [] frame.id = "BMS5" -> Consumption
      [] frame.id = "Hydrogen" -> Hydro
      [] OTHER -> <<>>

\* The task looks how many frames there are and takes that many.
FillLevel ==
    /\ can.level = 0 /\ can.todo = <<>>
    /\ fifo # <<>>
    /\ can' = [can EXCEPT !.level = Len(fifo)]
    /\ UNCHANGED <<fifo, gps, stamp, map, reading, got,
                   messages, quiet>>

TakeFrame ==
    /\ can.level > 0 /\ can.todo = <<>>
    /\ fifo' = Tail(fifo)
    /\ can' = [level |-> can.level - 1, todo |-> Writes(Head(fifo))]
    /\ stamp' = [stamp EXCEPT !.can = Head(fifo).number]
    /\ UNCHANGED <<gps, map, reading, got, messages, quiet>>

-----------------------------------------------------------------------------
(* DataCollectorTask.                                                      *)

\* set: what an entry is found by may not be the key any more.
Set(key, number) ==
    /\ \E entry \in Confused(key) : map' = [map EXCEPT ![entry] = number]
    /\ quiet' = FALSE
    /\ UNCHANGED <<fifo, stamp, reading, got, messages>>

CanSets ==
    /\ can.todo # <<>>
    /\ Set(Head(can.todo), stamp.can)
    /\ can' = [can EXCEPT !.todo = Tail(@)]
    /\ UNCHANGED gps

GpsSets ==
    /\ gps # <<>>
    /\ Set(Head(gps), stamp.gps)
    /\ gps' = Tail(gps)
    /\ UNCHANGED can

\* Mutant: the lock is not waited for, and the default is taken without it.
GotUnlessLocked(key) == IF can.todo = <<>> THEN map[key] ELSE 0

\* get: the entry, or the default where there is none.
Got(key) == map[key]

\* A line that is not a position is deleted; a position is set field by field.
GpsLine ==
    /\ messages < MaxMessages
    /\ gps = <<>>
    /\ messages' = messages + 1
    /\ gps' = Position
    /\ stamp' = [stamp EXCEPT !.gps = messages + 1]
    /\ UNCHANGED <<fifo, can, map, reading, got, quiet>>

-----------------------------------------------------------------------------
(* The readers change nothing, so one of them is followed at a time.       *)

\* produce_full_packet, in the order of the initializer; the engine_rpm that
\* is read before it is not used.
PacketReads ==
    Consumption \o Hydro \o Engine \o <<Position[2], Position[1]>>
        \o Voltages(0, CellCount) \o BatteryTemps

\* NextionTask, every 200 ms; the defaults it passes differ.
DisplayReads ==
    BatteryTemps \o Voltages(0, CellCount) \o Consumption
        \o <<Engine[2], Engine[1]>> \o Hydro

Begin(reads) ==
    /\ reading = <<>>
    /\ reading' = reads
    /\ quiet' = (reads = PacketReads /\ can.todo = <<>> /\ gps = <<>>)
    /\ UNCHANGED <<fifo, can, gps, stamp, map, got, messages>>

Get ==
    /\ reading # <<>>
    /\ LET key == Head(reading)
       IN  \/ key.at >= 0 /\ UNCHANGED got
           \/ key.at < 0 /\ got' = [got EXCEPT ![key] = Got(key)]
    /\ reading' = Tail(reading)
    /\ UNCHANGED <<fifo, can, gps, stamp, map, messages, quiet>>

CanTask == FillLevel \/ TakeFrame \/ CanSets
Reader == Begin(PacketReads) \/ Begin(DisplayReads) \/ Get

Next ==
    \/ \E id \in Ids, full \in BOOLEAN : Frame(id, full)
    \/ CanTask
    \/ GpsLine
    \/ GpsSets
    \/ Reader

Spec == Init /\ [][Next]_vars

\* Tasks that can run do.
FairSpec ==
    /\ Spec
    /\ WF_vars(CanTask) /\ WF_vars(GpsSets) /\ WF_vars(Reader)

-----------------------------------------------------------------------------
(* Properties.                                                             *)

Agree(values, group) == \A k, l \in group : values[k] = values[l]

\* When the CAN task and the GPS task have nothing left to set, the keys one
\* message sets together hold one message: no path through process_can_rx
\* sets one of them only.
GroupsAgreeAtRest ==
    can.todo = <<>> /\ gps = <<>> =>
        \A group \in Groups : Agree(map, group)

\* A packet during whose making nothing was set mixes no messages.  Others
\* may: each key is locked on its own.
QuietPacketsAreWhole ==
    reading = <<>> /\ quiet => \A group \in Groups : Agree(got, group)

\* No packet has an older measurement under a name than was read before: a key
\* that has been set is found again, and the confusion of the keys of arrays
\* never reaches the others.
NeverBack == [][\A key \in Scalars : got'[key] >= got[key]]_vars

\* An engine frame of the right size that the controller has accepted is read
\* out of the collector, or a later one is, sooner or later.
FramesGetThrough ==
    \A number \in 1..MaxMessages :
        (\E k \in DOMAIN fifo : /\ fifo[k].number = number
                                /\ fifo[k].id = "EngineRPMTemp"
                                /\ fifo[k].full)
            ~> (\A key \in ElementsOf(Engine) : got[key] >= number)
=============================================================================
