---------------------------- MODULE UartReceiver ----------------------------
(***************************************************************************)
(* The receive path of a serial line: TxDelimitedRxTask                    *)
(* (Tele/Src/UARTTasks.cpp), of which Coordinator::isr_rx_event and        *)
(* begin_rx are copies.                                                    *)
(*                                                                         *)
(* The DMA controller writes the bytes round and round a buffer.  It       *)
(* interrupts when it has filled half of it and all of it, and the UART    *)
(* when the line falls idle; the handler finds the new bytes from the      *)
(* offset of the event and the last one, and puts them in a queue, in      *)
(* chunks.  The task cuts them into lines, which go through a second       *)
(* queue.  When the line errs the DMA is stopped and started again at the  *)
(* beginning of the buffer.                                                *)
(***************************************************************************)
EXTENDS DelimitedReader, Integers, SequencesExt

CONSTANTS
    RingSize,       \* the size of m_uart_rx_buffer
    ChunkSize,      \* UARTQueueElement::chunk_size, DataElement::size
    QueueSize,      \* the length of m_uart_queue
    LineQueueSize,  \* the length of m_line_queue
    Messages,       \* what the peer sends: messages without delimiters
    MaxBytes,       \* bound: the bytes the peer sends
    MaxErrors       \* bound: the errors on the line

ASSUME ReceiverAssumption ==
    /\ RingSize \in Nat /\ RingSize > 0 /\ RingSize % 2 = 0
    /\ ChunkSize \in Nat \ {0}
    /\ QueueSize \in Nat \ {0} /\ LineQueueSize \in Nat \ {0}
    /\ Messages \subseteq Seq(STRING)
    /\ MaxBytes \in Nat /\ MaxErrors \in Nat

\* Two different characters end a message, and messages hold neither, as with
\* the CR LF of the modem and the GPS.  (The reader skips what is between the
\* two: a lone CR in a message would be moved.)
CleanMessages ==
    /\ Len(Delimiter) = 2 /\ Delimiter[1] # Delimiter[2]
    /\ \A m \in Messages : \A i \in 1..Len(m) :
          m[i] # Delimiter[1] /\ m[i] # Delimiter[2]

Half == RingSize \div 2

VARIABLES
    \* the peer (external): what it still has to send of a message, and what
    \* it has sent
    say, sent,
    \* DMA and UART (external): the buffer, the place of the next byte, the
    \* interrupts that are pending, whether the line has been idle since the
    \* last byte, and how much had been sent at each restart of the DMA
    ring, pos, irq, idle, restarts,
    \* m_last_uart_offset, m_uart_queue
    offset, queue,
    \* the task: what it has yet to read of an element, its line reader
    chunk, reader,
    \* m_line_queue
    lineQueue,
    \* history: bytes dropped at a full queue, bytes given to the reader,
    \* lines it has called back with
    dropped, fed, lines

peerVars == <<say, sent>>
dmaVars  == <<ring, pos, irq, idle, restarts>>
taskVars == <<chunk, reader, lineQueue, lines>>
vars == <<peerVars, dmaVars, offset, queue, taskVars, dropped, fed>>

NoByte == [n |-> 0, c |-> "none"]

Init ==
    /\ say = <<>> /\ sent = <<>>
    /\ ring = [i \in 0..(RingSize - 1) |-> NoByte]
    /\ pos = 0 /\ irq = {} /\ idle = TRUE /\ restarts = <<>>
    /\ offset = 0 /\ queue = <<>>
    /\ chunk = <<>> /\ reader = EmptyReader /\ lineQueue = <<>>
    /\ dropped = {} /\ fed = <<>> /\ lines = <<>>

-----------------------------------------------------------------------------
(* The peer and the hardware (external).                                   *)

\* The DMA puts a byte in the buffer.  Deadline: an event of the DMA has been
\* handled before the next half of the buffer is full.
Write(b) ==
    LET next == pos + 1 IN
    /\ next \in {Half, RingSize} => irq \cap {"half", "full"} = {}
    /\ ring' = [ring EXCEPT ![pos] = b]
    /\ pos' = next % RingSize
    /\ irq' = irq \cup (IF next = Half THEN {"half"}
                        ELSE IF next = RingSize THEN {"full"} ELSE {})
    /\ idle' = FALSE

Byte ==
    /\ Len(sent) < MaxBytes
    /\ \E message \in IF say # <<>> THEN {say}
                      ELSE {m \o Delimiter : m \in Messages} :
          /\ say' = Tail(message)
          /\ LET b == [n |-> Len(sent) + 1, c |-> Head(message)]
             IN  sent' = Append(sent, b) /\ Write(b)
    /\ UNCHANGED <<restarts, offset, queue, taskVars, dropped, fed>>

FallIdle ==
    /\ ~idle
    /\ idle' = TRUE
    /\ irq' = irq \cup {"idle"}
    /\ UNCHANGED <<peerVars, ring, pos, restarts, offset, queue, taskVars,
                   dropped, fed>>

-----------------------------------------------------------------------------
(* The interrupt handlers.                                                 *)

\* The bytes in [from, to) of the buffer, in pieces of ChunkSize.
Chunks(from, to) ==
    LET pieces == (to - from + ChunkSize - 1) \div ChunkSize
        end(k) == IF from + k * ChunkSize < to THEN from + k * ChunkSize
                                               ELSE to
    IN  [k \in 1..pieces |->
            [i \in 1..(end(k) - end(k - 1)) |-> ring[end(k - 1) + i - 1]]]

\* xQueueSendFromISR: what the queue has no room for is dropped.
SendChunks(chunks) ==
    LET room == IF Len(chunks) < QueueSize - Len(queue) THEN Len(chunks)
                ELSE QueueSize - Len(queue)
    IN  /\ queue' = queue \o SubSeq(chunks, 1, room)
        /\ dropped' = dropped \cup
              UNION {ToSet(chunks[k]) : k \in (room + 1)..Len(chunks)}

\* Mutants: an event behind the offset only moves it; the offset is not kept.
RxEventWithoutWrap(to) ==
    /\ IF offset >= to THEN UNCHANGED <<queue, dropped>>
                       ELSE SendChunks(Chunks(offset, to))
    /\ offset' = to

RxEventWithoutStore(to) ==
    IF offset = to
    THEN UNCHANGED <<offset, queue, dropped>>
    ELSE /\ SendChunks(Chunks(IF offset > to THEN 0 ELSE offset, to))
         /\ offset' = IF offset > to THEN 0 ELSE offset

\* isr_rx_event.
RxEvent(to) ==
    IF offset = to
    THEN UNCHANGED <<offset, queue, dropped>>
    ELSE /\ SendChunks(Chunks(IF offset > to THEN 0 ELSE offset, to))
         /\ offset' = to

\* Both interrupts have one priority; of two that wait, the DMA's is first.
\* The idle event carries the place of the DMA, unless that is the beginning.
HalfEvent ==
    /\ "half" \in irq
    /\ irq' = irq \ {"half"}
    /\ RxEvent(Half)
    /\ UNCHANGED <<peerVars, ring, pos, idle, restarts, taskVars, fed>>

FullEvent ==
    /\ "full" \in irq
    /\ irq' = irq \ {"full"}
    /\ RxEvent(RingSize)
    /\ UNCHANGED <<peerVars, ring, pos, idle, restarts, taskVars, fed>>

\* Mutant: the end of what was sent is left to the DMA's events.
IdleEventIgnored ==
    /\ irq = {"idle"}
    /\ irq' = {}
    /\ UNCHANGED <<peerVars, ring, pos, idle, restarts, offset, queue,
                   taskVars, dropped, fed>>

IdleEvent ==
    /\ irq = {"idle"}
    /\ irq' = {}
    /\ IF pos = 0 THEN UNCHANGED <<offset, queue, dropped>> ELSE RxEvent(pos)
    /\ UNCHANGED <<peerVars, ring, pos, idle, restarts, taskVars, fed>>

\* HAL_UART_ErrorCallback: HAL_UART_DMAStop and begin_rx.  The offset stays.
ErrorEvent ==
    /\ Len(restarts) < MaxErrors
    /\ irq \cap {"half", "full"} = {}
    /\ restarts' = Append(restarts, Len(sent))
    /\ pos' = 0
    /\ irq' = {}
    /\ idle' = TRUE
    /\ UNCHANGED <<peerVars, ring, offset, queue, taskVars, dropped, fed>>

-----------------------------------------------------------------------------
(* The task, and the one that receives its lines.                          *)

ReceiveChunk ==
    /\ chunk = <<>>
    /\ queue # <<>>
    /\ chunk' = Head(queue)
    /\ queue' = Tail(queue)
    /\ UNCHANGED <<peerVars, dmaVars, offset, reader, lineQueue, lines,
                   dropped, fed>>

\* add_chars, a character at a time; a line the second queue has no room for
\* is deleted.
ReadByte ==
    /\ chunk # <<>>
    /\ chunk' = Tail(chunk)
    /\ fed' = Append(fed, Head(chunk))
    /\ reader' = NextReader(reader, Head(chunk))
    /\ LET out == LinesOut(reader, Head(chunk))
       IN  /\ lines' = lines \o out
           /\ lineQueue' = IF Len(lineQueue) < LineQueueSize
                           THEN lineQueue \o out ELSE lineQueue
    /\ UNCHANGED <<peerVars, dmaVars, offset, queue, dropped>>

\* receive_line.
ReceiveLine ==
    /\ lineQueue # <<>>
    /\ lineQueue' = Tail(lineQueue)
    /\ UNCHANGED <<peerVars, dmaVars, offset, queue, chunk, reader, lines,
                   dropped, fed>>

-----------------------------------------------------------------------------
Interrupt == HalfEvent \/ FullEvent \/ IdleEvent
Task == ReceiveChunk \/ ReadByte

Next ==
    \/ Byte
    \/ FallIdle
    \/ Interrupt
    \/ ErrorEvent
    \/ Task
    \/ ReceiveLine

Spec == Init /\ [][Next]_vars

-----------------------------------------------------------------------------
(* Properties.                                                             *)

\* What has been sent, by its numbers; what the handler has put in the queue,
\* oldest first.
Bytes == [n : 1..MaxBytes, c : STRING] \cup {NoByte}
Pieces == <<fed, chunk>> \o queue
Handled ==
    {b.n : b \in dropped \cup UNION {ToSet(p) : p \in ToSet(Pieces)}}

\* Every variable has a value of its type; the queues keep to their lengths.
TypeOK ==
    /\ say \in Seq(STRING) /\ sent \in Seq(Bytes)
    /\ ring \in [0..(RingSize - 1) -> Bytes]
    /\ pos \in 0..(RingSize - 1) /\ offset \in 0..RingSize
    /\ irq \subseteq {"half", "full", "idle"} /\ idle \in BOOLEAN
    /\ restarts \in Seq(0..MaxBytes)
    /\ queue \in Seq(Seq(Bytes)) /\ Len(queue) <= QueueSize
    /\ chunk \in Seq(Bytes) /\ fed \in Seq(Bytes) /\ dropped \subseteq Bytes
    /\ reader \in [matched : 0..(Len(Delimiter) - 1), text : Seq(Bytes),
                   overflown : BOOLEAN]
    /\ Len(reader.text) <= LineSize
    /\ lines \in Seq([text : Seq(Bytes), overflown : BOOLEAN])
    /\ lineQueue \in Seq([text : Seq(Bytes), overflown : BOOLEAN])
    /\ Len(lineQueue) <= LineQueueSize

\* The reader gets the bytes in the order in which they were sent, each once
\* at most: no lap of the DMA is read twice, and after a restart nothing of
\* the time before it is.
InOrder ==
    \A k, l \in DOMAIN Pieces :
        \A i \in DOMAIN Pieces[k], j \in DOMAIN Pieces[l] :
            k < l \/ (k = l /\ i < j) => Pieces[k][i].n < Pieces[l][j].n

\* A byte that the handler skips was sent within a buffer's length of a
\* restart of the DMA; otherwise only a full queue loses anything.
LossIsLocal ==
    \A n \in 1..Len(sent) : n \notin Handled /\ (\E m \in Handled : n < m) =>
        \E i \in DOMAIN restarts :
            restarts[i] - RingSize < n /\ n <= restarts[i] + RingSize

\* Where a delimiter ends in what was sent, and the beginning.
Ends ==
    {0} \cup {n \in Len(Delimiter)..Len(sent) :
                 \A i \in 1..Len(Delimiter) :
                    sent[n - Len(Delimiter) + i].c = Delimiter[i]}

\* The reader falls into step again: a message that reached it whole, along
\* with the delimiter before it, is called back exactly, cut at the size of
\* the line buffer and marked when it was cut, whatever was lost before.
IntactMessagesAreCalledBack ==
    \A from, to \in Ends :
        LET body == to - Len(Delimiter) - from
            start == IF from = 0 THEN 1 ELSE from - Len(Delimiter) + 1
        IN  /\ from < to
            /\ ~\E n \in Ends : from < n /\ n < to
            /\ start..to \subseteq {b.n : b \in ToSet(fed)}
            => \E i \in DOMAIN lines :
                  lines[i] =
                     [text |-> SubSeq(sent, from + 1, from +
                                 (IF body < LineSize THEN body ELSE LineSize)),
                      overflown |-> body > LineSize]

\* Once the peer is silent (it sends MaxBytes at most), what it has sent
\* reaches the reader, although nobody receives the lines.
EverythingArrives ==
    <>[](restarts = <<>> =>
            {b.n : b \in ToSet(fed) \cup dropped} = 1..Len(sent))
=============================================================================
