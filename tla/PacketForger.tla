---------------------------- MODULE PacketForger ----------------------------
(***************************************************************************)
(* The packet forger (Core/Src/PacketForger.cpp) and its sequencer         *)
(* (Core/Src/Packets.cpp): a task numbers one packet after the other and   *)
(* queues it; another task starts the sequence with the vector of the      *)
(* session, and takes packets out of the queue.                            *)
(*                                                                         *)
(* A packet is its number and where its random number comes from: "iv",    *)
(* the vector of the session, or "default", what m_rng_state is            *)
(* initialised with.  Nothing guards the sequencer: the mutex is in        *)
(* comments, so each of its loads and stores is a step.                    *)
(***************************************************************************)
EXTENDS Integers, Sequences

CONSTANTS
    QueueSize,   \* queue_size
    BatchSize,   \* the size of the array packet_loop passes
    MaxPackets   \* bound: packets numbered

ASSUME ForgerAssumption ==
    /\ QueueSize \in Nat \ {0}
    /\ BatchSize \in Nat \ {0}
    /\ MaxPackets \in Nat

VARIABLES
    ready,     \* m_sequencer_ready
    seq,       \* m_last_seq_id
    rng,       \* m_rng_state
    forging,   \* where the forger is
    draft,     \* the number and the random number it has loaded
    packets,   \* m_packet_queue
    made,      \* packets numbered so far
    raced      \* history: the forger has begun while a reset was half done

forger == <<ready, seq, rng, forging, draft, packets, made, raced>>

Vectors == {"default", "iv"}
Packet == [seq : 0..MaxPackets, rng : Vectors]

ForgerInit ==
    /\ ready = FALSE
    /\ seq = 0
    /\ rng = "default"
    /\ forging = "test"
    /\ draft = [seq |-> 0, rng |-> "default"]
    /\ packets = <<>>
    /\ made = 0
    /\ raced = FALSE

\* Every variable of the forger has a value of its type.
ForgerTypeOK ==
    /\ ready \in BOOLEAN /\ seq \in 0..MaxPackets /\ rng \in Vectors
    /\ forging \in {"test", "load", "store", "loadRng", "storeRng", "queue"}
    /\ draft \in Packet
    /\ packets \in Seq(Packet) /\ Len(packets) <= QueueSize
    /\ made \in 0..MaxPackets /\ raced \in BOOLEAN

-----------------------------------------------------------------------------
(* reset_sequencer, in the task of the caller, store by store.             *)

SetReady ==
    /\ ready' = TRUE
    /\ UNCHANGED <<seq, rng, forging, draft, packets, made, raced>>

ResetSeq ==
    /\ seq' = 0
    /\ UNCHANGED <<ready, rng, forging, draft, packets, made, raced>>

\* The copy of the four words of the vector.
ResetRng ==
    /\ rng' = "iv"
    /\ UNCHANGED <<ready, seq, forging, draft, packets, made, raced>>

-----------------------------------------------------------------------------
(* The forger's task.  The measurements of the packet are DataCollector's  *)
(* subject.                                                                *)

\* While the sequencer is not ready the forger comes back every tick.
TestReady(resetting) ==
    /\ forging = "test"
    /\ made < MaxPackets
    /\ ready
    /\ raced' = (raced \/ resetting)
    /\ forging' = "load"
    /\ UNCHANGED <<ready, seq, rng, draft, packets, made>>

\* m_last_seq_id++ and xoshiro_next: loads, then stores.
LoadSeq ==
    /\ forging = "load"
    /\ draft' = [draft EXCEPT !.seq = seq]
    /\ forging' = "store"
    /\ UNCHANGED <<ready, seq, rng, packets, made, raced>>

StoreSeq ==
    /\ forging = "store"
    /\ seq' = draft.seq + 1
    /\ forging' = "loadRng"
    /\ UNCHANGED <<ready, rng, draft, packets, made, raced>>

LoadRng ==
    /\ forging = "loadRng"
    /\ draft' = [draft EXCEPT !.rng = rng]
    /\ forging' = "storeRng"
    /\ UNCHANGED <<ready, seq, rng, packets, made, raced>>

StoreRng ==
    /\ forging = "storeRng"
    /\ rng' = draft.rng
    /\ forging' = "queue"
    /\ UNCHANGED <<ready, seq, draft, packets, made, raced>>

\* Mutant: the queue is taken to have room.
QueuePacketAlways ==
    /\ forging = "queue"
    /\ packets' = Append(packets, draft)
    /\ made' = made + 1
    /\ forging' = "test"
    /\ UNCHANGED <<ready, seq, rng, draft, raced>>

\* xQueueSend does not wait: a full queue loses the newest packet.  Then the
\* forger sleeps until its next packet is due.
QueuePacket ==
    /\ forging = "queue"
    /\ packets' = IF Len(packets) < QueueSize
                  THEN Append(packets, draft) ELSE packets
    /\ made' = made + 1
    /\ forging' = "test"
    /\ UNCHANGED <<ready, seq, rng, draft, raced>>

Forge(resetting) ==
    \/ TestReady(resetting)
    \/ LoadSeq
    \/ StoreSeq
    \/ LoadRng
    \/ StoreRng
    \/ QueuePacket

-----------------------------------------------------------------------------
(* get_pending_packets, in the task of the caller: the first packets leave *)
(* the queue, whatever becomes of them.                                    *)

Pending == IF Len(packets) < BatchSize THEN Len(packets) ELSE BatchSize
PendingPackets == SubSeq(packets, 1, Pending)

\* Mutant: packets are looked at and stay in the queue.
PopPacketsNot ==
    UNCHANGED forger

PopPackets ==
    /\ packets' = SubSeq(packets, Pending + 1, Len(packets))
    /\ UNCHANGED <<ready, seq, rng, forging, draft, made, raced>>
=============================================================================
