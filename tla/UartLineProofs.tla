-------------------------- MODULE UartLineProofs ---------------------------
(***************************************************************************)
(* Proofs about the serial line, for every delimiter of two characters,    *)
(* every message and every size of the buffers and the queues.             *)
(*                                                                         *)
(* The receive path: the line reader stays within its buffer, every        *)
(* variable has its type, the bytes come out in the order they were sent   *)
(* in, only a restart of the DMA or a full queue loses any, and a message  *)
(* that comes through whole is called back exactly.  The transmit path:    *)
(* bytes come out in the order they were transmitted in, and only a stop   *)
(* of the DMA loses any.  And both together, with the error callback.      *)
(***************************************************************************)
EXTENDS UartLine, SequenceTheorems, TLAPS

\* The states of a reader between two characters.
Readers(B) ==
    {r \in [matched : 0..(Len(Delimiter) - 1), text : Seq(B),
            overflown : BOOLEAN] : Len(r.text) <= LineSize}

\* A reader keeps within its buffer, and never waits with a whole delimiter:
\* try_finish has been called, so the retry in add_char is never needed.
THEOREM ReaderStaysBounded ==
    ASSUME NEW B, NEW r \in Readers(B), NEW b \in B
    PROVE  NextReader(r, b) \in Readers(B)
<1> USE ReaderAssumption
<1>1. Len(Delimiter) \in Nat \ {0}
  OBVIOUS
<1>2. EmptyReader \in Readers(B)
  BY <1>1 DEF EmptyReader, Readers
<1>3. CASE b.c = Delimiter[r.matched + 1]
  <2>1. AddByte(r, b) = [r EXCEPT !.matched = @ + 1]
    BY <1>3 DEF AddByte
  <2>2. r.matched + 1 # Len(Delimiter) =>
           [r EXCEPT !.matched = @ + 1] \in Readers(B)
    BY <1>1 DEF Readers
  <2> QED BY <1>2, <2>1, <2>2 DEF NextReader, Ready, Readers
<1>4. CASE b.c # Delimiter[r.matched + 1] /\ Len(r.text) >= LineSize
  <2>1. AddByte(r, b) = [r EXCEPT !.overflown = TRUE]
    BY <1>4 DEF AddByte
  <2>2. [r EXCEPT !.overflown = TRUE] \in Readers(B)
    BY DEF Readers
  <2> QED BY <1>2, <2>1, <2>2 DEF NextReader
<1>5. CASE b.c # Delimiter[r.matched + 1] /\ ~(Len(r.text) >= LineSize)
  <2>1. AddByte(r, b) = [r EXCEPT !.text = Append(@, b)]
    BY <1>5 DEF AddByte
  <2>2. /\ Append(r.text, b) \in Seq(B)
        /\ Len(Append(r.text, b)) = Len(r.text) + 1
    BY AppendProperties DEF Readers
  <2>3. [r EXCEPT !.text = Append(@, b)] \in Readers(B)
    <3> DEFINE t == Append(r.text, b)
    <3>1. t \in Seq(B) /\ Len(t) <= LineSize
      BY <1>5, <2>2 DEF Readers
    <3> HIDE DEF t
    <3>2. [r EXCEPT !.text = t] \in Readers(B)
      BY <3>1 DEF Readers
    <3> QED BY <3>2 DEF t
  <2> QED BY <1>2, <2>1, <2>3 DEF NextReader
<1> QED BY <1>3, <1>4, <1>5

\* Whatever bytes were lost before, a delimiter that arrives whole ends the
\* line and leaves the reader at the start of the next one.  (For CR LF, as
\* the modem and the GPS use; a delimiter that repeats its first character
\* would not do.)
THEOREM DelimiterSynchronises ==
    ASSUME NEW B, NEW r \in Readers(B), NEW first \in B, NEW second \in B,
           Len(Delimiter) = 2, Delimiter[1] # Delimiter[2],
           first.c = Delimiter[1], second.c = Delimiter[2]
    PROVE  NextReader(NextReader(r, first), second) = EmptyReader
<1> USE ReaderAssumption
<1> DEFINE s == NextReader(r, first)
<1>1. r.matched \in {0, 1}
  BY DEF Readers
<1>2. s.matched = 1
  <2>1. CASE r.matched = 0
    <3>1. AddByte(r, first) = [r EXCEPT !.matched = @ + 1]
      BY <2>1 DEF AddByte
    <3> QED BY <2>1, <3>1 DEF NextReader, Ready, Readers
  <2>2. CASE r.matched = 1
    <3>1. AddByte(r, first) = [r EXCEPT !.overflown = TRUE] \/
          AddByte(r, first) = [r EXCEPT !.text = Append(@, first)]
      BY <2>2 DEF AddByte
    <3> QED BY <2>2, <3>1 DEF NextReader, Ready, Readers
  <2> QED BY <1>1, <2>1, <2>2
<1>3. s \in Readers(B)
  BY ReaderStaysBounded
<1>4. AddByte(s, second) = [s EXCEPT !.matched = @ + 1]
  BY <1>2 DEF AddByte
<1>5. AddByte(s, second).matched = 2
  BY <1>2, <1>3, <1>4 DEF Readers
<1> HIDE DEF s
<1>6. NextReader(s, second) = EmptyReader
  BY <1>5 DEF NextReader, Ready
<1> QED BY <1>6 DEF s
-----------------------------------------------------------------------------
(* Types.                                                                  *)

LinesOf(B) == [text : Seq(B), overflown : BOOLEAN]

\* A byte ends one line at most, of what the reader has.
LEMMA LinesOutAreLines ==
    ASSUME NEW B, NEW r \in Readers(B), NEW b \in B
    PROVE  LinesOut(r, b) \in Seq(LinesOf(B)) /\ Len(LinesOut(r, b)) <= 1
<1> USE ReaderAssumption
<1>1. AddByte(r, b).text \in Seq(B) /\ AddByte(r, b).overflown \in BOOLEAN
  <2>1. Append(r.text, b) \in Seq(B)
    BY AppendProperties DEF Readers
  <2> QED BY <2>1 DEF AddByte, Readers
<1> DEFINE line == [text |-> AddByte(r, b).text,
                    overflown |-> AddByte(r, b).overflown]
<1>2. line \in LinesOf(B)
  BY <1>1 DEF LinesOf
<1>3. LinesOut(r, b) \in {<<line>>, <<>>}
  BY DEF LinesOut
<1> HIDE DEF line
<1>4. <<line>> \in Seq(LinesOf(B)) /\ Len(<<line>>) = 1
  BY <1>2
<1>5. <<>> \in Seq(LinesOf(B)) /\ Len(<<>>) = 0
  OBVIOUS
<1>6. CASE LinesOut(r, b) = <<line>>
  BY <1>4, <1>6
<1>7. CASE LinesOut(r, b) = <<>>
  BY <1>5, <1>7
<1> QED BY <1>3, <1>6, <1>7

\* Where a piece of what the handler reads ends.
End(first, to, k) ==
    IF first + k * ChunkSize < to THEN first + k * ChunkSize ELSE to

\* The ends are in the range that is read, and in order.
LEMMA EndsInOrder ==
    ASSUME NEW first \in Nat, NEW to \in Nat, first <= to,
           NEW k \in Nat, NEW l \in Nat, k <= l
    PROVE  /\ End(first, to, k) \in first..to
           /\ End(first, to, k) <= End(first, to, l)
<1> USE ReceiverAssumption
<1> DEFINE d == l - k
<1>1. d \in Nat /\ l = k + d
  OBVIOUS
<1> HIDE DEF d
<1>2. k * ChunkSize \in Nat /\ d * ChunkSize \in Nat
  BY <1>1
<1>3. l * ChunkSize = k * ChunkSize + d * ChunkSize
  BY <1>1
<1> DEFINE ck == k * ChunkSize
           cl == l * ChunkSize
           cd == d * ChunkSize
<1>4. ck \in Nat /\ cd \in Nat /\ cl = ck + cd
  BY <1>2, <1>3
<1> HIDE DEF ck, cl, cd
<1>5. /\ End(first, to, k) = IF first + ck < to THEN first + ck ELSE to
      /\ End(first, to, l) = IF first + cl < to THEN first + cl ELSE to
  BY DEF End, ck, cl
<1> QED BY <1>4, <1>5

\* The pieces hold the bytes of the buffer from `first' on, in its order.
LEMMA ChunksAre ==
    ASSUME ring \in [0..(RingSize - 1) -> Bytes],
           NEW first \in Nat, NEW to \in 0..RingSize, first <= to
    PROVE  LET chunks == Chunks(first, to)
           IN  /\ chunks \in Seq(Seq(Bytes))
               /\ \A k \in DOMAIN chunks :
                     /\ DOMAIN chunks[k] =
                           1..(End(first, to, k) - End(first, to, k - 1))
                     /\ \A i \in DOMAIN chunks[k] :
                           chunks[k][i] = ring[End(first, to, k - 1) + i - 1]
<1> USE ReceiverAssumption
<1> DEFINE pieces == (to - first + ChunkSize - 1) \div ChunkSize
           piece(k) == [i \in 1..(End(first, to, k) - End(first, to, k - 1)) |->
                            ring[End(first, to, k - 1) + i - 1]]
           chunks == Chunks(first, to)
<1>1. chunks = [k \in 1..pieces |-> piece(k)]
  BY DEF Chunks, End
<1>2. pieces \in Nat
  <2> DEFINE size == to - first + ChunkSize - 1
  <2>1. size \in Nat /\ ChunkSize \in Nat \ {0}
    OBVIOUS
  <2> HIDE DEF size
  <2>2. size \div ChunkSize \in Nat
    BY <2>1
  <2> QED BY <2>2 DEF size
<1> HIDE DEF pieces
<1>3. ASSUME NEW k \in 1..pieces PROVE piece(k) \in Seq(Bytes)
  <2> DEFINE begin == End(first, to, k - 1)
             end == End(first, to, k)
  <2>1. k - 1 \in Nat /\ k \in Nat /\ k - 1 <= k
    BY <1>2
  <2>2. begin \in first..to /\ end \in first..to /\ begin <= end
    <3>1. first \in Nat /\ to \in Nat /\ first <= to /\ k <= k
      BY <2>1
    <3>2. begin \in first..to /\ begin <= end
      BY <2>1, <3>1, EndsInOrder
    <3>3. end \in first..to
      BY <2>1, <3>1, EndsInOrder
    <3> QED BY <3>2, <3>3
  <2>3. piece(k) = [i \in 1..(end - begin) |-> ring[begin + i - 1]]
    OBVIOUS
  <2> HIDE DEF begin, end, piece
  <2>4. /\ end - begin \in Nat
        /\ \A i \in 1..(end - begin) : ring[begin + i - 1] \in Bytes
    BY <2>2
  <2>5. piece(k) \in [1..(end - begin) -> Bytes]
    BY <2>3, <2>4
  <2> QED BY <2>4, <2>5, SeqDef
<1> HIDE DEF piece
<1>4. chunks \in [1..pieces -> Seq(Bytes)]
  BY <1>1, <1>3
<1> HIDE DEF chunks
<1>5. chunks \in Seq(Seq(Bytes))
  BY <1>2, <1>4, SeqDef
<1>6. ASSUME NEW k \in DOMAIN chunks
      PROVE  /\ DOMAIN chunks[k] =
                   1..(End(first, to, k) - End(first, to, k - 1))
             /\ \A i \in DOMAIN chunks[k] :
                   chunks[k][i] = ring[End(first, to, k - 1) + i - 1]
  <2>1. chunks[k] = piece(k)
    BY <1>1, <1>6
  <2> QED BY <2>1 DEF piece
<1> QED BY <1>5, <1>6 DEF chunks

\* What SendChunks leaves in the queue: the pieces there was room for.
LEMMA SentAre ==
    ASSUME queue \in Seq(Seq(Bytes)), Len(queue) <= QueueSize,
           dropped \subseteq Bytes,
           NEW chunks \in Seq(Seq(Bytes)), SendChunks(chunks)
    PROVE  /\ queue' \in Seq(Seq(Bytes)) /\ Len(queue') <= QueueSize
           /\ dropped' \subseteq Bytes
           /\ Len(queue) <= Len(queue')
           /\ Len(queue') - Len(queue) <= Len(chunks)
           /\ \A k \in 1..Len(queue') :
                 queue'[k] = IF k <= Len(queue) THEN queue[k]
                             ELSE chunks[k - Len(queue)]
<1> USE ReceiverAssumption
<1> DEFINE room == IF Len(chunks) < QueueSize - Len(queue) THEN Len(chunks)
                   ELSE QueueSize - Len(queue)
           kept == SubSeq(chunks, 1, room)
<1>1. /\ queue' = queue \o kept
      /\ dropped' = dropped \cup
            UNION {ToSet(chunks[k]) : k \in (room + 1)..Len(chunks)}
  BY DEF SendChunks
<1>2. Len(queue) \in Nat /\ Len(chunks) \in Nat
  BY LenProperties
<1>3. room \in 0..Len(chunks) /\ Len(queue) + room <= QueueSize
  BY <1>2
<1> HIDE DEF room
<1>4. /\ kept \in Seq(Seq(Bytes)) /\ Len(kept) = room
      /\ \A k \in 1..room : kept[k] = chunks[k]
  BY <1>2, <1>3, SubSeqProperties
<1> HIDE DEF kept
<1>5. \A k \in (room + 1)..Len(chunks) : ToSet(chunks[k]) \subseteq Bytes
  <2> SUFFICES ASSUME NEW k \in (room + 1)..Len(chunks)
               PROVE  ToSet(chunks[k]) \subseteq Bytes
    OBVIOUS
  <2>1. k \in 1..Len(chunks)
    BY <1>2, <1>3
  <2>2. chunks[k] \in Seq(Bytes)
    BY <2>1, ElementOfSeq
  <2> QED BY <2>2, ElementOfSeq, LenProperties DEF ToSet
<1>6. /\ queue' \in Seq(Seq(Bytes)) /\ Len(queue') = Len(queue) + room
      /\ \A k \in 1..Len(queue') :
            queue'[k] = IF k <= Len(queue) THEN queue[k]
                        ELSE kept[k - Len(queue)]
  <2> DEFINE longer == queue \o kept
  <2>1. /\ longer \in Seq(Seq(Bytes)) /\ Len(longer) = Len(queue) + room
        /\ \A k \in 1..Len(longer) :
              longer[k] = IF k <= Len(queue) THEN queue[k]
                          ELSE kept[k - Len(queue)]
    <3>1. \A s, t \in Seq(Seq(Bytes)) :
             /\ s \o t \in Seq(Seq(Bytes)) /\ Len(s \o t) = Len(s) + Len(t)
             /\ \A k \in 1..Len(s \o t) :
                   (s \o t)[k] = IF k <= Len(s) THEN s[k]
                                 ELSE t[k - Len(s)]
      BY ConcatProperties
    <3>2. queue \in Seq(Seq(Bytes))
      OBVIOUS
    <3> QED BY <1>4, <3>1, <3>2, Zenon
  <2> HIDE DEF longer
  <2>2. queue' = longer
    BY <1>1 DEF longer
  <2> QED BY <2>1, <2>2
<1>7. \A k \in 1..Len(queue') : k > Len(queue) =>
         kept[k - Len(queue)] = chunks[k - Len(queue)]
  BY <1>2, <1>3, <1>4, <1>6
<1>8. dropped' \subseteq Bytes
  BY <1>1, <1>5
<1>9. /\ Len(queue') <= QueueSize /\ Len(queue) <= Len(queue')
      /\ Len(queue') - Len(queue) <= Len(chunks)
  BY <1>2, <1>3, <1>6
<1>10. \A k \in 1..Len(queue') :
          queue'[k] = IF k <= Len(queue) THEN queue[k]
                      ELSE chunks[k - Len(queue)]
  <2> SUFFICES ASSUME NEW k \in 1..Len(queue')
               PROVE  queue'[k] = IF k <= Len(queue) THEN queue[k]
                                  ELSE chunks[k - Len(queue)]
    OBVIOUS
  <2>1. k \in Int /\ Len(queue) \in Int
    BY <1>2, <1>6
  <2>2. queue'[k] = IF k <= Len(queue) THEN queue[k] ELSE kept[k - Len(queue)]
    BY <1>6
  <2>3. k > Len(queue) => kept[k - Len(queue)] = chunks[k - Len(queue)]
    BY <1>7
  <2>4. CASE k <= Len(queue)
    BY <2>2, <2>4
  <2>5. CASE k > Len(queue)
    BY <2>1, <2>2, <2>3, <2>5
  <2> QED BY <2>1, <2>4, <2>5
<1> QED BY <1>6, <1>8, <1>9, <1>10
TypeInv == TypeOK /\ Len(sent) <= MaxBytes

\* What an event leaves, whatever the buffer holds.
LEMMA EventTypes ==
    ASSUME TypeOK, NEW to \in 0..RingSize, RxEvent(to)
    PROVE  /\ queue' \in Seq(Seq(Bytes)) /\ Len(queue') <= QueueSize
           /\ dropped' \subseteq Bytes /\ offset' = to
<1> USE ReceiverAssumption
<1>1. /\ queue \in Seq(Seq(Bytes)) /\ Len(queue) <= QueueSize
      /\ dropped \subseteq Bytes /\ offset \in 0..RingSize
      /\ ring \in [0..(RingSize - 1) -> Bytes]
  BY DEF TypeOK
<1>2. CASE offset = to
  BY <1>1, <1>2 DEF RxEvent
<1>3. CASE offset # to
  <2> DEFINE first == IF offset > to THEN 0 ELSE offset
  <2>1. first \in Nat /\ first <= to
    BY <1>1
  <2>2. SendChunks(Chunks(first, to)) /\ offset' = to
    BY <1>3 DEF RxEvent
  <2> HIDE DEF first
  <2>3. Chunks(first, to) \in Seq(Seq(Bytes))
    BY <1>1, <2>1, ChunksAre
  <2> QED BY <1>1, <2>2, <2>3, SentAre
<1> QED BY <1>2, <1>3

\* Nothing has been sent or received.
LEMMA InitTypes == Init => TypeInv
<1> USE ReceiverAssumption, ReaderAssumption
<1> SUFFICES ASSUME Init PROVE TypeInv
  OBVIOUS
<1>1. \A S : <<>> \in Seq(S)
  OBVIOUS
<1>2. reader \in [matched : 0..(Len(Delimiter) - 1), text : Seq(Bytes),
                  overflown : BOOLEAN] /\ Len(reader.text) <= LineSize
  BY <1>1 DEF Init, EmptyReader
<1>3. ring \in [0..(RingSize - 1) -> Bytes]
  BY DEF Init, Bytes
<1> QED BY <1>1, <1>2, <1>3, SMTT(20) DEF Init, TypeInv, TypeOK

\* The peer goes on with its message, or begins one.
LEMMA ByteTypes == ASSUME TypeInv, Byte PROVE TypeInv'
<1> USE ReceiverAssumption, ReaderAssumption
<1>1. PICK message \in IF say # <<>> THEN {say}
                       ELSE {m \o Delimiter : m \in Messages} :
         /\ say' = Tail(message)
         /\ LET b == [n |-> Len(sent) + 1, c |-> Head(message)]
            IN  sent' = Append(sent, b) /\ Write(b)
  BY DEF Byte
<1>2. message \in Seq(STRING) /\ message # <<>>
  <2>1. CASE say # <<>>
    BY <1>1, <2>1 DEF TypeInv, TypeOK
  <2>2. CASE say = <<>>
    <3>1. PICK m \in Messages : message = m \o Delimiter
      BY <1>1, <2>2
    <3>2. m \in Seq(STRING) /\ Delimiter \in Seq(STRING) /\ Delimiter # <<>>
      OBVIOUS
    <3>3. /\ m \o Delimiter \in Seq(STRING)
          /\ Len(m \o Delimiter) = Len(m) + Len(Delimiter)
      BY <3>2, ConcatProperties
    <3>4. Len(m) \in Nat /\ Len(Delimiter) \in Nat \ {0}
      BY <3>2, EmptySeq, LenProperties
    <3> QED BY <3>1, <3>3, <3>4
  <2> QED BY <2>1, <2>2
<1>3. Tail(message) \in Seq(STRING) /\ Head(message) \in STRING
  BY <1>2, HeadTailProperties
<1> DEFINE b == [n |-> Len(sent) + 1, c |-> Head(message)]
<1>4. Len(sent) \in Nat /\ Len(sent) < MaxBytes /\ sent \in Seq(Bytes)
  BY LenProperties DEF Byte, TypeInv, TypeOK
<1>5. b \in Bytes
  BY <1>3, <1>4 DEF Bytes
<1>6. say' = Tail(message) /\ sent' = Append(sent, b) /\ Write(b)
  BY <1>1
<1> HIDE DEF b
<1>7. sent' \in Seq(Bytes) /\ Len(sent') = Len(sent) + 1
  BY <1>4, <1>5, <1>6, AppendProperties
<1>8. /\ ring \in [0..(RingSize - 1) -> Bytes] /\ pos \in 0..(RingSize - 1)
      /\ irq \subseteq {"half", "full", "idle"}
  BY DEF TypeInv, TypeOK
<1>9. /\ ring' \in [0..(RingSize - 1) -> Bytes]
      /\ irq' \subseteq {"half", "full", "idle"} /\ idle' = FALSE
  BY <1>5, <1>6, <1>8 DEF Write
<1>10. pos' \in 0..(RingSize - 1)
  BY <1>6, <1>8 DEF Write
<1>11. UNCHANGED <<restarts, offset, queue, chunk, reader, lineQueue, lines,
                   dropped, fed>>
  BY DEF Byte, taskVars
<1>12. say' \in Seq(STRING) /\ Len(sent') <= MaxBytes
  BY <1>3, <1>4, <1>6, <1>7
<1> QED BY <1>7, <1>9, <1>10, <1>11, <1>12 DEF TypeInv, TypeOK

\* What a handler reads from the buffer are bytes, in pieces.
LEMMA InterruptTypes == ASSUME TypeInv, Interrupt PROVE TypeInv'
<1> USE ReceiverAssumption
<1>1. /\ Half \in 0..RingSize /\ RingSize \in 0..RingSize /\ pos \in 0..RingSize
      /\ irq \subseteq {"half", "full", "idle"} /\ offset \in 0..RingSize
      /\ queue \in Seq(Seq(Bytes)) /\ Len(queue) <= QueueSize
      /\ dropped \subseteq Bytes
  BY DEF TypeInv, TypeOK, Half
<1>2. /\ irq' \subseteq irq
      /\ UNCHANGED <<say, sent, ring, pos, idle, restarts, chunk, reader,
                     lineQueue, lines, fed>>
  BY DEF Interrupt, HalfEvent, FullEvent, IdleEvent, peerVars, taskVars
<1>3. \/ UNCHANGED <<offset, queue, dropped>>
      \/ \E to \in 0..RingSize : RxEvent(to)
  BY <1>1 DEF Interrupt, HalfEvent, FullEvent, IdleEvent
<1>4. /\ queue' \in Seq(Seq(Bytes)) /\ Len(queue') <= QueueSize
      /\ dropped' \subseteq Bytes /\ offset' \in 0..RingSize
  <2>1. CASE UNCHANGED <<offset, queue, dropped>>
    BY <1>1, <2>1
  <2>2. ASSUME NEW to \in 0..RingSize, RxEvent(to)
        PROVE  /\ queue' \in Seq(Seq(Bytes)) /\ Len(queue') <= QueueSize
               /\ dropped' \subseteq Bytes /\ offset' \in 0..RingSize
    BY <2>2, EventTypes DEF TypeInv
  <2> QED BY <1>3, <2>1, <2>2
<1> QED BY <1>1, <1>2, <1>4 DEF TypeInv, TypeOK

\* A task takes a part of what is there.
LEMMA TaskTypes == ASSUME TypeInv, Task \/ ReceiveLine PROVE TypeInv'
<1> USE ReceiverAssumption
<1>1. /\ queue \in Seq(Seq(Bytes)) /\ Len(queue) <= QueueSize
      /\ chunk \in Seq(Bytes) /\ fed \in Seq(Bytes)
      /\ reader \in Readers(Bytes)
      /\ lines \in Seq(LinesOf(Bytes)) /\ lineQueue \in Seq(LinesOf(Bytes))
      /\ Len(lineQueue) <= LineQueueSize
      /\ Len(queue) \in Nat /\ Len(lineQueue) \in Nat
  <2>1. reader \in Readers(Bytes)
    BY DEF TypeInv, TypeOK, Readers
  <2>2. lines \in Seq(LinesOf(Bytes)) /\ lineQueue \in Seq(LinesOf(Bytes))
    BY DEF TypeInv, TypeOK, LinesOf
  <2> QED BY <2>1, <2>2, LenProperties DEF TypeInv, TypeOK
<1>2. CASE ReceiveChunk
  <2>1. queue # <<>>
    BY <1>2 DEF ReceiveChunk
  <2>2. /\ Head(queue) \in Seq(Bytes) /\ Tail(queue) \in Seq(Seq(Bytes))
        /\ Len(Tail(queue)) = Len(queue) - 1
    BY <1>1, <2>1, HeadTailProperties
  <2>3. /\ chunk' = Head(queue) /\ queue' = Tail(queue)
        /\ UNCHANGED <<say, sent, ring, pos, irq, idle, restarts, offset,
                       reader, lineQueue, lines, dropped, fed>>
    BY <1>2 DEF ReceiveChunk, peerVars, dmaVars
  <2> QED BY <1>1, <2>2, <2>3, SMTT(20) DEF TypeInv, TypeOK
<1>3. CASE ReadByte
  <2> DEFINE b == Head(chunk)
             ready == LinesOut(reader, b)
  <2>1. chunk # <<>>
    BY <1>3 DEF ReadByte
  <2>2. b \in Bytes /\ Tail(chunk) \in Seq(Bytes)
    BY <1>1, <2>1, HeadTailProperties
  <2>3. /\ chunk' = Tail(chunk) /\ fed' = Append(fed, b)
        /\ reader' = NextReader(reader, b) /\ lines' = lines \o ready
        /\ lineQueue' = IF Len(lineQueue) < LineQueueSize
                        THEN lineQueue \o ready ELSE lineQueue
        /\ UNCHANGED <<say, sent, ring, pos, irq, idle, restarts, offset,
                       queue, dropped>>
    BY <1>3 DEF ReadByte, peerVars, dmaVars
  <2>4. ready \in Seq(LinesOf(Bytes)) /\ Len(ready) <= 1 /\ Len(ready) \in Nat
    <3>1. ready \in Seq(LinesOf(Bytes)) /\ Len(ready) <= 1
      BY <1>1, <2>2, LinesOutAreLines
    <3> QED BY <3>1, LenProperties
  <2>5. NextReader(reader, b) \in Readers(Bytes)
    BY <1>1, <2>2, ReaderStaysBounded
  <2> HIDE DEF b, ready
  <2>6. Append(fed, b) \in Seq(Bytes)
    BY <1>1, <2>2, AppendProperties
  <2>7. /\ lines \o ready \in Seq(LinesOf(Bytes))
        /\ lineQueue \o ready \in Seq(LinesOf(Bytes))
        /\ Len(lineQueue \o ready) = Len(lineQueue) + Len(ready)
    BY <1>1, <2>4, ConcatProperties
  <2>8. lineQueue' \in Seq(LinesOf(Bytes)) /\ Len(lineQueue') <= LineQueueSize
    BY <1>1, <2>3, <2>4, <2>7
  <2>9. /\ reader' \in [matched : 0..(Len(Delimiter) - 1), text : Seq(Bytes),
                        overflown : BOOLEAN]
        /\ Len(reader'.text) <= LineSize
    BY <2>3, <2>5 DEF Readers
  <2>10. /\ lines' \in Seq([text : Seq(Bytes), overflown : BOOLEAN])
         /\ lineQueue' \in Seq([text : Seq(Bytes), overflown : BOOLEAN])
    BY <2>3, <2>7, <2>8 DEF LinesOf
  <2> QED BY <1>1, <2>2, <2>3, <2>6, <2>8, <2>9, <2>10 DEF TypeInv, TypeOK
<1>4. CASE ReceiveLine
  <2>1. lineQueue # <<>>
    BY <1>4 DEF ReceiveLine
  <2>2. /\ Tail(lineQueue) \in Seq(LinesOf(Bytes))
        /\ Len(Tail(lineQueue)) = Len(lineQueue) - 1
    BY <1>1, <2>1, HeadTailProperties
  <2>3. /\ lineQueue' = Tail(lineQueue)
        /\ UNCHANGED <<say, sent, ring, pos, irq, idle, restarts, offset,
                       queue, chunk, reader, lines, dropped, fed>>
    BY <1>4 DEF ReceiveLine, peerVars, dmaVars
  <2> QED BY <1>1, <2>2, <2>3, SMTT(20) DEF TypeInv, TypeOK, LinesOf
<1> QED BY <1>2, <1>3, <1>4 DEF Task

\* The types are inductive.
LEMMA NextTypes == TypeInv /\ [Next]_vars => TypeInv'
<1> USE ReceiverAssumption
<1> SUFFICES ASSUME TypeInv, [Next]_vars PROVE TypeInv'
  OBVIOUS
<1>1. CASE FallIdle
  BY <1>1 DEF FallIdle, TypeInv, TypeOK, peerVars, taskVars
<1>2. CASE ErrorEvent
  <2>1. /\ restarts \in Seq(0..MaxBytes) /\ Len(sent) \in 0..MaxBytes
    BY LenProperties DEF TypeInv, TypeOK
  <2>2. Append(restarts, Len(sent)) \in Seq(0..MaxBytes)
    BY <2>1, AppendProperties
  <2>3. /\ restarts' = Append(restarts, Len(sent))
        /\ pos' = 0 /\ irq' = {} /\ idle' = TRUE
        /\ UNCHANGED <<say, sent, ring, offset, queue, chunk, reader,
                       lineQueue, lines, dropped, fed>>
    BY <1>2 DEF ErrorEvent, peerVars, taskVars
  <2> QED BY <2>2, <2>3, SMTT(20) DEF TypeInv, TypeOK
<1>3. CASE UNCHANGED vars
  BY <1>3 DEF TypeInv, TypeOK, vars, peerVars, dmaVars, taskVars
<1> QED BY <1>1, <1>2, <1>3, ByteTypes, InterruptTypes, TaskTypes DEF Next

\* The receiver's variables have their types and the queues keep to their
\* lengths, for every size of the buffer, of chunks, queues and lines.
THEOREM ReceiverTypeCorrect == Spec => []TypeOK
<1> QED BY InitTypes, NextTypes, PTL DEF Spec, TypeInv
-----------------------------------------------------------------------------
(* Order.                                                                  *)

\* What InOrder says, and what is ahead of no byte, of any pieces.
Ordered(pieces) ==
    \A k, l \in DOMAIN pieces :
        \A i \in DOMAIN pieces[k], j \in DOMAIN pieces[l] :
            k < l \/ (k = l /\ i < j) => pieces[k][i].n < pieces[l][j].n
UpTo(pieces, m) ==
    \A k \in DOMAIN pieces : \A i \in DOMAIN pieces[k] : pieces[k][i].n <= m

\* The pieces: what has been read, the element in hand, the queue.
LEMMA PiecesAre ==
    ASSUME NEW f \in Seq(Bytes), NEW c \in Seq(Bytes),
           NEW q \in Seq(Seq(Bytes))
    PROVE  LET pieces == <<f, c>> \o q
           IN  /\ pieces \in Seq(Seq(Bytes))
               /\ Len(q) \in Nat /\ DOMAIN pieces = 1..(Len(q) + 2)
               /\ pieces[1] = f /\ pieces[2] = c
               /\ \A k \in 3..(Len(q) + 2) : pieces[k] = q[k - 2]
               /\ \A k \in DOMAIN pieces :
                     /\ Len(pieces[k]) \in Nat
                     /\ DOMAIN pieces[k] = 1..Len(pieces[k])
                     /\ \A i \in DOMAIN pieces[k] : pieces[k][i].n \in Nat
<1> USE ReceiverAssumption
<1> DEFINE two == <<f, c>>
           pieces == two \o q
<1>1. /\ two \in Seq(Seq(Bytes)) /\ Len(two) = 2
      /\ two[1] = f /\ two[2] = c
  OBVIOUS
<1> HIDE DEF two
<1>2. /\ pieces \in Seq(Seq(Bytes)) /\ Len(pieces) = 2 + Len(q)
      /\ \A k \in 1..(2 + Len(q)) :
            pieces[k] = IF k <= 2 THEN two[k] ELSE q[k - 2]
  <2>1. /\ pieces \in Seq(Seq(Bytes)) /\ Len(pieces) = Len(two) + Len(q)
        /\ \A k \in 1..(Len(two) + Len(q)) :
              pieces[k] = IF k <= Len(two) THEN two[k] ELSE q[k - Len(two)]
    <3>1. two \in Seq(Seq(Bytes))
      BY <1>1
    <3> QED BY <3>1, ConcatProperties, Zenon
  <2> HIDE DEF pieces
  <2> QED BY <1>1, <2>1
<1>3. Len(q) \in Nat
  BY LenProperties
<1> HIDE DEF pieces
<1>4. DOMAIN pieces = 1..(Len(q) + 2)
  BY <1>2, <1>3, LenProperties
<1>5. ASSUME NEW k \in DOMAIN pieces
      PROVE  /\ Len(pieces[k]) \in Nat
             /\ DOMAIN pieces[k] = 1..Len(pieces[k])
             /\ \A i \in DOMAIN pieces[k] : pieces[k][i].n \in Nat
  <2>1. pieces[k] \in Seq(Bytes)
    BY <1>2, <1>3, <1>4, ElementOfSeq
  <2>2. Len(pieces[k]) \in Nat /\ DOMAIN pieces[k] = 1..Len(pieces[k])
    BY <2>1, LenProperties
  <2>3. \A b \in Bytes : b.n \in Nat
    BY DEF Bytes, NoByte
  <2>4. \A i \in DOMAIN pieces[k] : pieces[k][i] \in Bytes
    BY <2>1, <2>2, ElementOfSeq
  <2> QED BY <2>2, <2>3, <2>4
<1>6. pieces[1] = f /\ pieces[2] = c
  <2>1. 1 \in 1..(2 + Len(q)) /\ 2 \in 1..(2 + Len(q))
    BY <1>3
  <2>2. pieces[1] = two[1] /\ pieces[2] = two[2]
    BY <1>2, <2>1
  <2> QED BY <1>1, <2>2
<1>7. \A k \in 3..(Len(q) + 2) : pieces[k] = q[k - 2]
  BY <1>2, <1>3
<1> QED BY <1>2, <1>3, <1>4, <1>5, <1>6, <1>7 DEF pieces, two

\* Where the bytes of the next event begin.
First(to) == IF offset > to THEN 0 ELSE offset

\* An event keeps the order if the bytes it reads are those that follow what
\* has been handled, in the buffer's order.
LEMMA EventKeepsOrder ==
    ASSUME TypeOK, UNCHANGED <<fed, chunk>>,
           NEW to \in 0..RingSize, RxEvent(to),
           NEW base \in Int,
           \A i \in First(to)..(to - 1) : ring[i].n = base + i + 1,
           Ordered(Pieces), UpTo(Pieces, base + First(to))
    PROVE  Ordered(Pieces') /\ UpTo(Pieces', base + to)
<1> USE ReceiverAssumption
<1>1. /\ queue \in Seq(Seq(Bytes)) /\ Len(queue) <= QueueSize
      /\ dropped \subseteq Bytes /\ offset \in 0..RingSize
      /\ ring \in [0..(RingSize - 1) -> Bytes]
      /\ fed \in Seq(Bytes) /\ chunk \in Seq(Bytes)
  BY DEF TypeOK
<1>2. CASE offset = to
  <2>1. First(to) = to /\ queue' = queue
    BY <1>1, <1>2 DEF First, RxEvent
  <2> QED BY <2>1 DEF Pieces
<1>3. CASE offset # to
  <2> DEFINE first == First(to)
             chunks == Chunks(first, to)
             size == Len(queue) + 2
  <2>1. first \in Nat /\ first <= to
    BY <1>1 DEF First
  <2>2. SendChunks(chunks)
    BY <1>3 DEF RxEvent, First
  <2> HIDE DEF first
  <2>3. /\ chunks \in Seq(Seq(Bytes))
        /\ \A k \in DOMAIN chunks :
              /\ DOMAIN chunks[k] =
                    1..(End(first, to, k) - End(first, to, k - 1))
              /\ \A i \in DOMAIN chunks[k] :
                    chunks[k][i] = ring[End(first, to, k - 1) + i - 1]
    BY <1>1, <2>1, ChunksAre
  <2> HIDE DEF chunks
  <2>4. /\ queue' \in Seq(Seq(Bytes)) /\ Len(queue) <= Len(queue')
        /\ Len(queue') - Len(queue) <= Len(chunks)
        /\ \A k \in 1..Len(queue') :
              queue'[k] = IF k <= Len(queue) THEN queue[k]
                          ELSE chunks[k - Len(queue)]
    BY <1>1, <2>2, <2>3, SentAre
  <2>5. /\ Len(queue) \in Nat /\ DOMAIN Pieces = 1..size
        /\ Pieces[1] = fed /\ Pieces[2] = chunk
        /\ \A k \in 3..size : Pieces[k] = queue[k - 2]
        /\ \A k \in DOMAIN Pieces :
              \A i \in DOMAIN Pieces[k] : Pieces[k][i].n \in Nat
    BY <1>1, PiecesAre DEF Pieces
  <2>6. /\ Len(queue') \in Nat /\ DOMAIN Pieces' = 1..(Len(queue') + 2)
        /\ Pieces'[1] = fed /\ Pieces'[2] = chunk
        /\ \A k \in 3..(Len(queue') + 2) : Pieces'[k] = queue'[k - 2]
        /\ \A k \in DOMAIN Pieces' :
              Len(Pieces'[k]) \in Nat /\ DOMAIN Pieces'[k] = 1..Len(Pieces'[k])
    BY <1>1, <2>4, PiecesAre DEF Pieces
  <2>7. Len(chunks) \in Nat /\ DOMAIN chunks = 1..Len(chunks)
    BY <2>3, LenProperties
  <2>8. /\ \A k \in DOMAIN Pieces :
              k \in DOMAIN Pieces' /\ Pieces'[k] = Pieces[k]
        /\ \A k \in DOMAIN Pieces' : k \notin DOMAIN Pieces =>
              k > size /\ k - size \in DOMAIN chunks
              /\ Pieces'[k] = chunks[k - size]
    <3>1. ASSUME NEW k \in DOMAIN Pieces
          PROVE  k \in DOMAIN Pieces' /\ Pieces'[k] = Pieces[k]
      <4>1. k \in 1..(Len(queue') + 2)
        BY <2>4, <2>5, <2>6
      <4>2. CASE k \in {1, 2}
        BY <2>5, <2>6, <4>1, <4>2
      <4>3. CASE k \in 3..size
        <5>1. k - 2 \in 1..Len(queue') /\ k - 2 <= Len(queue)
          BY <2>4, <2>5, <2>6, <4>3, SMTT(20)
        <5>2. queue'[k - 2] = queue[k - 2]
          BY <2>4, <5>1
        <5>3. k \in 3..(Len(queue') + 2)
          BY <2>5, <2>6, <4>1, <4>3
        <5> QED BY <2>5, <2>6, <4>1, <4>3, <5>2, <5>3
      <4> QED BY <2>5, <4>2, <4>3
    <3>2. ASSUME NEW k \in DOMAIN Pieces', k \notin DOMAIN Pieces
          PROVE  k > size /\ k - size \in DOMAIN chunks
                 /\ Pieces'[k] = chunks[k - size]
      <4>1. k \in 3..(Len(queue') + 2) /\ k > size
        BY <2>5, <2>6, <3>2
      <4>2. k - 2 \in 1..Len(queue') /\ ~(k - 2 <= Len(queue))
            /\ k - 2 - Len(queue) = k - size
        BY <2>5, <2>6, <4>1
      <4>3. k - size \in 1..Len(chunks)
        BY <2>4, <2>5, <2>6, <2>7, <4>1, SMTT(20)
      <4>4. queue'[k - 2] = chunks[k - size]
        BY <2>4, <4>2
      <4> QED BY <2>6, <2>7, <4>1, <4>3, <4>4
    <3> QED BY <3>1, <3>2
  \* Where in the buffer a new byte comes from.
  <2> DEFINE place(k, i) == End(first, to, k - size - 1) + i - 1
  <2>9. ASSUME NEW k \in DOMAIN Pieces', k \notin DOMAIN Pieces,
               NEW i \in DOMAIN Pieces'[k]
        PROVE  /\ place(k, i) \in first..(to - 1)
               /\ place(k, i) < End(first, to, k - size)
               /\ End(first, to, k - size - 1) <= place(k, i)
               /\ Pieces'[k][i].n = base + place(k, i) + 1
    <3> DEFINE kk == k - size
               begin == End(first, to, kk - 1)
               end == End(first, to, kk)
    <3>1. kk \in 1..Len(chunks) /\ Pieces'[k] = chunks[kk]
      BY <2>7, <2>8, <2>9
    <3> HIDE DEF kk
    <3>2. /\ i \in 1..(end - begin)
          /\ Pieces'[k][i] = ring[begin + i - 1]
      BY <2>3, <2>7, <2>9, <3>1
    <3>3. begin \in first..to /\ end \in first..to
      <4>1. kk - 1 \in Nat /\ kk \in Nat /\ to \in Nat
            /\ kk <= kk /\ kk - 1 <= kk - 1
        BY <2>7, <3>1
      <4>2. begin \in first..to
        BY <2>1, <4>1, EndsInOrder
      <4>3. end \in first..to
        BY <2>1, <4>1, EndsInOrder
      <4> QED BY <4>2, <4>3
    <3> HIDE DEF begin, end
    <3>4. begin + i - 1 \in first..(to - 1) /\ begin + i - 1 < end
          /\ begin <= begin + i - 1
      BY <2>1, <3>2, <3>3
    <3>5. ring[begin + i - 1].n = base + (begin + i - 1) + 1
      BY <3>4 DEF first
    <3>6. place(k, i) = begin + i - 1 /\ end = End(first, to, k - size)
          /\ begin = End(first, to, k - size - 1)
      BY DEF begin, end, kk
    <3> QED BY <3>2, <3>4, <3>5, <3>6
  <2>10. UpTo(Pieces', base + to)
    <3>1. ASSUME NEW k \in DOMAIN Pieces', NEW i \in DOMAIN Pieces'[k]
          PROVE  Pieces'[k][i].n <= base + to
      <4>1. CASE k \in DOMAIN Pieces
        <5>1. Pieces[k][i].n <= base + first /\ Pieces[k][i].n \in Nat
          BY <2>5, <2>8, <3>1, <4>1 DEF UpTo, first
        <5> QED BY <2>1, <2>8, <4>1, <5>1
      <4>2. CASE k \notin DOMAIN Pieces
        BY <2>1, <2>9, <4>2
      <4> QED BY <4>1, <4>2
    <3> QED BY <3>1 DEF UpTo
  <2>11. Ordered(Pieces')
    <3>1. ASSUME NEW k \in DOMAIN Pieces', NEW l \in DOMAIN Pieces',
                 NEW i \in DOMAIN Pieces'[k], NEW j \in DOMAIN Pieces'[l],
                 k < l \/ (k = l /\ i < j)
          PROVE  Pieces'[k][i].n < Pieces'[l][j].n
      <4>1. CASE k \in DOMAIN Pieces /\ l \in DOMAIN Pieces
        BY <2>8, <3>1, <4>1 DEF Ordered
      <4>2. CASE k \in DOMAIN Pieces /\ l \notin DOMAIN Pieces
        <5>1. Pieces'[k][i].n <= base + first /\ Pieces'[k][i].n \in Nat
          BY <2>5, <2>8, <4>2 DEF UpTo, first
        <5>2. /\ place(l, j) \in first..(to - 1)
              /\ Pieces'[l][j].n = base + place(l, j) + 1
          BY <2>9, <4>2
        <5> HIDE DEF place
        <5> QED BY <2>1, <5>1, <5>2
      <4>3. CASE k \notin DOMAIN Pieces /\ l \in DOMAIN Pieces
        <5>1. k > size /\ l <= size /\ k \in Int /\ l \in Int
          BY <2>5, <2>6, <2>8, <4>3
        <5> QED BY <2>5, <3>1, <5>1
      <4>4. CASE k \notin DOMAIN Pieces /\ l \notin DOMAIN Pieces
        <5>1. /\ place(k, i) \in first..(to - 1)
              /\ place(k, i) < End(first, to, k - size)
              /\ Pieces'[k][i].n = base + place(k, i) + 1
          BY <2>9, <4>4
        <5>2. /\ place(l, j) \in first..(to - 1)
              /\ End(first, to, l - size - 1) <= place(l, j)
              /\ Pieces'[l][j].n = base + place(l, j) + 1
          BY <2>9, <4>4
        <5>3. CASE k = l /\ i < j
          <6>1. i \in Int /\ j \in Int /\ place(l, j) = place(k, i) + j - i
            <7>1. /\ DOMAIN Pieces'[k] = 1..Len(Pieces'[k])
                  /\ DOMAIN Pieces'[l] = 1..Len(Pieces'[l])
                  /\ Len(Pieces'[k]) \in Nat /\ Len(Pieces'[l]) \in Nat
              BY <2>6
            <7>2. i \in Int /\ j \in Int
              BY <7>1
            <7>3. End(first, to, k - size - 1) \in Int
              <8>1. PICK m \in Nat : m = k - size - 1
                BY <2>5, <2>6, <4>4
              <8>2. to \in Nat /\ m <= m /\ first..to \subseteq Int
                BY <2>1, <8>1
              <8>3. End(first, to, m) \in first..to
                BY <2>1, <8>2, EndsInOrder, Zenon
              <8> QED BY <8>1, <8>2, <8>3
            <7> QED BY <5>3, <7>2, <7>3
          <6> HIDE DEF place
          <6> QED BY <2>1, <5>1, <5>2, <5>3, <6>1
        <5>4. CASE k < l
          <6>1. /\ to \in Nat /\ l - size - 1 <= l - size - 1
                /\ k - size \in Nat /\ l - size - 1 \in Nat
                /\ k - size <= l - size - 1
            <7>1. k > size /\ l > size
              BY <2>8, <4>4
            <7>2. k \in Nat /\ l \in Nat /\ size \in Nat
              <8>1. size \in Nat
                BY <2>5
              <8> HIDE DEF size
              <8> QED BY <2>6, <8>1
            <7> HIDE DEF size
            <7> QED BY <5>4, <7>1, <7>2
          <6>2. /\ End(first, to, k - size) <= End(first, to, l - size - 1)
                /\ End(first, to, k - size) \in first..to
            BY <2>1, <6>1, EndsInOrder
          <6>3. End(first, to, l - size - 1) \in first..to
            BY <2>1, <6>1, EndsInOrder
          <6> HIDE DEF place
          <6> QED BY <2>1, <5>1, <5>2, <6>2, <6>3
        <5> QED BY <3>1, <5>3, <5>4
      <4> QED BY <4>1, <4>2, <4>3, <4>4
    <3> QED BY <3>1 DEF Ordered
  <2> QED BY <2>10, <2>11
<1> QED BY <1>2, <1>3
\* The place of the event that is due, or of one if the line fell idle now;
\* and the number of the byte before the first of the lap it is in.
NextEvent ==
    IF "full" \in irq THEN RingSize ELSE IF "half" \in irq THEN Half ELSE pos
LapStart == Len(sent) - pos - (IF "full" \in irq THEN RingSize ELSE 0)

\* The DMA is never more than half a buffer ahead of the handler.
PlaceInv ==
    /\ ~("half" \in irq /\ "full" \in irq)
    /\ "half" \in irq => pos >= Half
    /\ "full" \in irq => pos < Half /\ Half <= offset /\ offset < RingSize
    /\ pos >= Half /\ "half" \notin irq => Half <= offset /\ offset <= pos

\* The bytes of this lap, and those of the last one the handler still needs.
RingInv ==
    /\ \A i \in 0..(pos - 1) : ring[i].n = Len(sent) - pos + i + 1
    /\ "full" \in irq => \A i \in Half..(RingSize - 1) :
                            ring[i].n = LapStart + i + 1

\* What has been handled was sent before what the next event reads.
SeenInv == UpTo(Pieces, LapStart + First(NextEvent))

OrderInv == TypeInv /\ PlaceInv /\ RingInv /\ SeenInv /\ InOrder

\* The types of the buffer, as the proofs use them.
LEMMA RingFacts ==
    ASSUME TypeInv
    PROVE  /\ Half \in Nat \ {0} /\ RingSize = 2 * Half
           /\ pos \in 0..(RingSize - 1) /\ offset \in 0..RingSize
           /\ Len(sent) \in Nat /\ irq \subseteq {"half", "full", "idle"}
           /\ ring \in [0..(RingSize - 1) -> Bytes]
<1> USE ReceiverAssumption
<1>1. Half \in Nat \ {0} /\ RingSize = 2 * Half
  BY DEF Half
<1> QED BY <1>1, LenProperties DEF TypeInv, TypeOK

\* Every handled byte has a number.
LEMMA PiecesHaveNumbers ==
    ASSUME TypeInv
    PROVE  \A k \in DOMAIN Pieces : \A i \in DOMAIN Pieces[k] :
              Pieces[k][i].n \in Nat
<1>1. fed \in Seq(Bytes) /\ chunk \in Seq(Bytes) /\ queue \in Seq(Seq(Bytes))
  BY DEF TypeInv, TypeOK
<1> QED BY <1>1, PiecesAre DEF Pieces

\* What is ahead of no byte is ahead of no later one.
LEMMA UpToMore ==
    ASSUME TypeInv, NEW m \in Int, NEW n \in Int, m <= n, UpTo(Pieces, m)
    PROVE  UpTo(Pieces, n)
<1> SUFFICES ASSUME NEW k \in DOMAIN Pieces, NEW i \in DOMAIN Pieces[k]
             PROVE  Pieces[k][i].n <= n
  BY DEF UpTo
<1>1. Pieces[k][i].n <= m /\ Pieces[k][i].n \in Nat
  BY PiecesHaveNumbers DEF UpTo
<1> QED BY <1>1

\* Nothing has been handled, and the DMA is at the beginning.
LEMMA InitOrder == Init => OrderInv
<1> SUFFICES ASSUME Init PROVE OrderInv
  OBVIOUS
<1>1. TypeInv
  BY InitTypes
<1>2. PlaceInv /\ RingInv
  BY <1>1, RingFacts DEF Init, PlaceInv, RingInv
<1>3. /\ \A k \in DOMAIN Pieces : DOMAIN Pieces[k] = {}
  <2>1. Pieces = <<<<>>, <<>>>> \o <<>> /\ <<>> \in Seq(Seq(Bytes))
        /\ <<>> \in Seq(Bytes)
    BY DEF Init, Pieces
  <2>2. Pieces = <<<<>>, <<>>>>
    BY <2>1
  <2> QED BY <2>2
<1>4. SeenInv /\ InOrder
  BY <1>3 DEF SeenInv, UpTo, InOrder
<1> QED BY <1>1, <1>2, <1>4 DEF OrderInv

\* The place after the last is the first.
LEMMA PlacesWrap ==
    ASSUME NEW size \in Nat \ {0}, NEW n \in 1..size
    PROVE  n % size = IF n = size THEN 0 ELSE n
<1>1. CASE n = size
  <2>1. size % size = 0
    OBVIOUS
  <2> QED BY <1>1, <2>1
<1>2. CASE n # size
  <2>1. n \in 0..(size - 1)
    BY <1>2
  <2>2. n % size = n
    BY <2>1
  <2> QED BY <1>2, <2>2
<1> QED BY <1>1, <1>2

\* A byte goes where no event that is due will read.
LEMMA ByteKeepsOrder == ASSUME OrderInv, Byte PROVE OrderInv'
<1>1. TypeInv /\ TypeInv'
  BY ByteTypes DEF OrderInv
<1>2. PICK b : sent' = Append(sent, b) /\ b.n = Len(sent) + 1 /\ Write(b)
  <2>1. PICK message \in IF say # <<>> THEN {say}
                         ELSE {m \o Delimiter : m \in Messages} :
           LET b == [n |-> Len(sent) + 1, c |-> Head(message)]
           IN  sent' = Append(sent, b) /\ Write(b)
    BY DEF Byte
  <2> QED BY <2>1
<1> DEFINE next == pos + 1
<1>3. /\ Half \in Nat \ {0} /\ RingSize = 2 * Half
      /\ pos \in 0..(RingSize - 1) /\ offset \in 0..RingSize
      /\ Len(sent) \in Nat /\ irq \subseteq {"half", "full", "idle"}
      /\ ring \in [0..(RingSize - 1) -> Bytes]
  BY <1>1, RingFacts
<1>4. Len(sent') = Len(sent) + 1
  BY <1>1, <1>2, <1>3 DEF TypeInv, TypeOK
<1>5. /\ next \in {Half, RingSize} => "half" \notin irq /\ "full" \notin irq
      /\ ring' = [ring EXCEPT ![pos] = b]
      /\ irq' = irq \cup (IF next = Half THEN {"half"}
                          ELSE IF next = RingSize THEN {"full"} ELSE {})
  BY <1>2 DEF Write
<1>6. pos' = IF next = RingSize THEN 0 ELSE next
  <2>1. pos' = next % RingSize
    BY <1>2 DEF Write
  <2>2. RingSize \in Nat \ {0} /\ next \in 1..RingSize
    BY <1>3
  <2> HIDE DEF next
  <2> QED BY <2>1, <2>2, PlacesWrap
<1>7. UNCHANGED <<offset, queue, chunk, fed>> /\ Pieces' = Pieces
  BY DEF Byte, taskVars, Pieces
<1>8. PlaceInv'
  BY <1>3, <1>5, <1>6, <1>7 DEF OrderInv, PlaceInv
<1>9. RingInv'
  <2>1. CASE next = RingSize
    <3>1. /\ pos' = 0 /\ "full" \in irq' /\ "full" \notin irq
          /\ LapStart' = Len(sent) - pos
      BY <1>3, <1>4, <1>5, <1>6, <2>1 DEF LapStart
    <3>2. ASSUME NEW i \in Half..(RingSize - 1)
          PROVE  ring'[i].n = Len(sent) - pos + i + 1
      BY <1>2, <1>3, <1>5, <2>1 DEF OrderInv, RingInv
    <3> QED BY <1>3, <3>1, <3>2 DEF RingInv
  <2>2. CASE next # RingSize
    <3>1. /\ pos' = pos + 1 /\ Len(sent') - pos' = Len(sent) - pos
          /\ ("full" \in irq' <=> "full" \in irq)
      BY <1>3, <1>4, <1>5, <1>6, <2>2
    <3>4. LapStart' = LapStart
      BY <3>1 DEF LapStart
    <3>2. ASSUME NEW i \in 0..(pos' - 1)
          PROVE  ring'[i].n = Len(sent') - pos' + i + 1
      <4>1. CASE i = pos
        BY <1>2, <1>3, <1>4, <1>5, <3>1, <4>1
      <4>2. CASE i \in 0..(pos - 1)
        <5>1. ring'[i] = ring[i]
          BY <1>3, <1>5, <4>2
        <5> QED BY <3>1, <4>2, <5>1 DEF OrderInv, RingInv
      <4> QED BY <1>3, <3>1, <4>1, <4>2
    <3>3. ASSUME "full" \in irq, NEW i \in Half..(RingSize - 1)
          PROVE  ring'[i].n = LapStart + i + 1
      <4>1. pos < Half
        BY <3>3 DEF OrderInv, PlaceInv
      <4>2. ring'[i] = ring[i]
        BY <1>3, <1>5, <4>1
      <4> QED BY <3>3, <4>2 DEF OrderInv, RingInv
    <3> QED BY <3>1, <3>2, <3>3, <3>4 DEF RingInv
  <2> QED BY <2>1, <2>2
<1>10. SeenInv'
  <2> DEFINE m == LapStart + First(NextEvent)
             n == LapStart' + First(NextEvent)'
  <2>1. m \in Int /\ n \in Int /\ m <= n
    <3>1. PlaceInv
      BY DEF OrderInv
    <3>2. CASE next = RingSize
      <4>1. /\ "full" \in irq' /\ "full" \notin irq /\ "half" \notin irq
            /\ pos >= Half /\ pos' = 0 /\ Half <= offset /\ offset <= pos
        BY <1>3, <1>5, <1>6, <3>1, <3>2 DEF PlaceInv
      <4>2. m = Len(sent) - pos + offset
        BY <1>3, <4>1 DEF LapStart, NextEvent, First
      <4>3. n = Len(sent) + 1 - RingSize + offset
        BY <1>3, <1>4, <1>7, <4>1 DEF LapStart, NextEvent, First
      <4> QED BY <1>3, <3>2, <4>2, <4>3
    <3>3. CASE next # RingSize
      <4>1. /\ pos' = pos + 1 /\ ("full" \in irq' <=> "full" \in irq)
            /\ Len(sent') - pos' = Len(sent) - pos
        BY <1>3, <1>4, <1>5, <1>6, <3>3
      <4>2. LapStart' = LapStart /\ LapStart \in Int
        <5>1. CASE "full" \in irq
          <6>1. "full" \in irq'
            BY <4>1, <5>1
          <6> QED BY <1>3, <1>4, <4>1, <5>1, <6>1 DEF LapStart
        <5>2. CASE "full" \notin irq
          <6>1. "full" \notin irq'
            BY <4>1, <5>2
          <6> QED BY <1>3, <1>4, <4>1, <5>2, <6>1 DEF LapStart
        <5> QED BY <5>1, <5>2
      <4>3. NextEvent \in Int /\ NextEvent' \in Int /\ NextEvent <= NextEvent'
        <5>1. CASE "full" \in irq
          <6>1. NextEvent = RingSize /\ NextEvent' = RingSize
            BY <4>1, <5>1 DEF NextEvent
          <6> QED BY <1>3, <6>1
        <5>2. CASE "half" \in irq /\ "full" \notin irq
          <6>1. "half" \in irq' /\ "full" \notin irq'
            BY <1>5, <4>1, <5>2
          <6>2. NextEvent = Half /\ NextEvent' = Half
            BY <5>2, <6>1 DEF NextEvent
          <6> QED BY <1>3, <6>2
        <5>3. CASE "half" \notin irq /\ "full" \notin irq /\ next = Half
          <6>1. "half" \in irq' /\ "full" \notin irq'
            BY <1>5, <4>1, <5>3
          <6>2. NextEvent = pos /\ NextEvent' = Half
            BY <5>3, <6>1 DEF NextEvent
          <6> QED BY <1>3, <5>3, <6>2
        <5>4. CASE "half" \notin irq /\ "full" \notin irq /\ next # Half
          <6>1. "half" \notin irq' /\ "full" \notin irq'
            BY <1>5, <3>3, <4>1, <5>4
          <6>2. NextEvent = pos /\ NextEvent' = pos'
            BY <5>4, <6>1 DEF NextEvent
          <6> QED BY <1>3, <4>1, <6>2
        <5> QED BY <5>1, <5>2, <5>3, <5>4
      <4>4. First(NextEvent) \in Nat /\ First(NextEvent)' \in Nat
            /\ First(NextEvent) <= First(NextEvent)'
        BY <1>3, <1>7, <4>3 DEF First
      <4> HIDE DEF next
      <4> QED BY <4>2, <4>4
    <3> QED BY <3>2, <3>3
  <2>2. UpTo(Pieces, m)
    BY DEF OrderInv, SeenInv
  <2> HIDE DEF m, n
  <2>3. UpTo(Pieces, n)
    BY <1>1, <2>1, <2>2, UpToMore
  <2> QED BY <1>7, <2>3 DEF SeenInv, n
<1>11. InOrder'
  BY <1>7 DEF OrderInv, InOrder
<1> QED BY <1>1, <1>8, <1>9, <1>10, <1>11 DEF OrderInv
\* An event reads the bytes that follow what has been handled.
LEMMA EventReads ==
    ASSUME OrderInv
    PROVE  \A i \in First(NextEvent)..(NextEvent - 1) :
              ring[i].n = LapStart + i + 1
<1> DEFINE to == NextEvent
           base == LapStart
<1>1. /\ Half \in Nat \ {0} /\ RingSize = 2 * Half
      /\ pos \in 0..(RingSize - 1) /\ offset \in 0..RingSize
      /\ Len(sent) \in Nat /\ irq \subseteq {"half", "full", "idle"}
  BY RingFacts DEF OrderInv
<1>2. to \in 0..RingSize /\ base \in Int
  BY <1>1 DEF NextEvent, LapStart
<1>3. First(to) \in 0..to
  BY <1>1, <1>2 DEF First
<1>4. CASE "full" \in irq
  <2>1. to = RingSize /\ First(to) = offset /\ Half <= offset
    BY <1>1, <1>4 DEF OrderInv, PlaceInv, NextEvent, First
  <2> QED BY <1>1, <1>4, <2>1 DEF OrderInv, RingInv
<1>5. CASE "full" \notin irq
  <2>1. to <= pos /\ base = Len(sent) - pos
    BY <1>1, <1>5 DEF OrderInv, PlaceInv, NextEvent, LapStart
  <2> HIDE DEF to, base
  <2>2. \A i \in First(to)..(to - 1) : ring[i].n = base + i + 1
    BY <1>1, <1>2, <1>3, <2>1 DEF OrderInv, RingInv
  <2> QED BY <2>2 DEF to, base
<1> QED BY <1>4, <1>5

\* The one after it goes on from its place.
LEMMA EventReaches ==
    ASSUME OrderInv, UNCHANGED <<sent, pos>>,
           "half" \notin irq', "full" \notin irq', offset' = NextEvent
    PROVE  LapStart' + First(NextEvent)' = LapStart + NextEvent
<1> DEFINE to == NextEvent
           base == LapStart
<1>1. /\ Half \in Nat \ {0} /\ RingSize = 2 * Half
      /\ pos \in 0..(RingSize - 1) /\ offset \in 0..RingSize
      /\ Len(sent) \in Nat /\ irq \subseteq {"half", "full", "idle"}
  BY RingFacts DEF OrderInv
<1>2. to \in 0..RingSize /\ base \in Int
  BY <1>1 DEF NextEvent, LapStart
<1>3. LapStart' = Len(sent) - pos /\ NextEvent' = pos
  BY <1>1 DEF LapStart, NextEvent
<1>4. First(NextEvent)' = IF to > pos THEN 0 ELSE to
  BY <1>3 DEF First
<1>5. CASE "full" \in irq
  <2>1. to = RingSize /\ base = Len(sent) - pos - RingSize
    BY <1>5 DEF NextEvent, LapStart
  <2> QED BY <1>1, <1>3, <1>4, <2>1
<1>6. CASE "full" \notin irq
  <2>1. to <= pos /\ base = Len(sent) - pos
    BY <1>1, <1>6 DEF OrderInv, PlaceInv, NextEvent, LapStart
  <2> QED BY <1>1, <1>2, <1>3, <1>4, <2>1
<1> QED BY <1>5, <1>6

\* An event reads what has not been handled yet, from where the last one ended.
LEMMA EventKeepsOrderInv ==
    ASSUME OrderInv, UNCHANGED <<sent, pos, ring, fed, chunk>>, TypeInv',
           "half" \notin irq', "full" \notin irq',
           RxEvent(NextEvent)
    PROVE  OrderInv'
<1> DEFINE to == NextEvent
           base == LapStart
<1>1. /\ Half \in Nat \ {0} /\ RingSize = 2 * Half
      /\ pos \in 0..(RingSize - 1) /\ offset \in 0..RingSize
      /\ Len(sent) \in Nat /\ irq \subseteq {"half", "full", "idle"}
      /\ ring \in [0..(RingSize - 1) -> Bytes]
  BY RingFacts DEF OrderInv
<1>2. to \in 0..RingSize /\ base \in Int
  BY <1>1 DEF NextEvent, LapStart
<1>3. First(to) \in 0..to
  BY <1>1, <1>2 DEF First
<1>4. \A i \in First(to)..(to - 1) : ring[i].n = base + i + 1
  BY EventReads
<1>5. offset' = to
  BY <1>2, EventTypes DEF OrderInv, TypeInv
<1>6. LapStart' + First(NextEvent)' = base + to
  BY <1>5, EventReaches
<1>7. PlaceInv'
  <2>1. CASE "full" \in irq
    <3>1. pos < Half /\ pos' = pos
      BY <2>1 DEF OrderInv, PlaceInv
    <3> QED BY <1>1, <3>1 DEF PlaceInv
  <2>2. CASE "full" \notin irq /\ "half" \in irq
    <3>1. pos >= Half /\ offset' = Half
      BY <1>5, <2>2 DEF OrderInv, PlaceInv, NextEvent
    <3> QED BY <1>1, <3>1 DEF PlaceInv
  <2>3. CASE "full" \notin irq /\ "half" \notin irq
    <3>1. offset' = pos
      BY <1>5, <2>3 DEF NextEvent
    <3> QED BY <1>1, <3>1 DEF PlaceInv
  <2> QED BY <2>1, <2>2, <2>3
<1>8. RingInv'
  BY <1>1 DEF OrderInv, RingInv
<1> HIDE DEF to, base
<1>9. Ordered(Pieces') /\ UpTo(Pieces', base + to)
  <2>1. /\ TypeOK /\ UNCHANGED <<fed, chunk>> /\ RxEvent(to)
        /\ Ordered(Pieces) /\ UpTo(Pieces, base + First(to))
    BY DEF OrderInv, TypeInv, InOrder, Ordered, SeenInv, to, base
  <2> QED BY <1>2, <1>4, <2>1, EventKeepsOrder
<1>10. SeenInv' /\ InOrder'
  BY <1>6, <1>9 DEF SeenInv, InOrder, Ordered, UpTo
<1> QED BY <1>7, <1>8, <1>10 DEF OrderInv

\* An event reads the bytes that follow what was handled: its place is the
\* next one's, or that of a line that fell idle.
LEMMA InterruptKeepsOrder == ASSUME OrderInv, Interrupt PROVE OrderInv'
<1>1. TypeInv'
  BY InterruptTypes DEF OrderInv
<1>2. UNCHANGED <<sent, pos, ring, fed, chunk>>
  BY DEF Interrupt, HalfEvent, FullEvent, IdleEvent, peerVars, taskVars
<1>3. CASE HalfEvent
  <2>1. /\ "full" \notin irq' /\ "half" \notin irq' /\ NextEvent = Half
        /\ RxEvent(Half)
    BY <1>3 DEF HalfEvent, OrderInv, PlaceInv, NextEvent
  <2> QED BY <1>1, <1>2, <2>1, EventKeepsOrderInv
<1>4. CASE FullEvent
  <2>1. /\ "full" \notin irq' /\ "half" \notin irq' /\ NextEvent = RingSize
        /\ RxEvent(RingSize)
    BY <1>4 DEF FullEvent, OrderInv, PlaceInv, NextEvent
  <2> QED BY <1>1, <1>2, <2>1, EventKeepsOrderInv
<1>5. CASE IdleEvent
  <2>1. /\ "full" \notin irq' /\ "half" \notin irq' /\ NextEvent = pos
        /\ "full" \notin irq /\ "half" \notin irq
    BY <1>5 DEF IdleEvent, NextEvent
  <2>2. CASE pos = 0
    <3>1. UNCHANGED <<offset, queue>>
      BY <1>5, <2>2 DEF IdleEvent
    <3>2. PlaceInv' /\ RingInv' /\ SeenInv' /\ InOrder'
      BY <1>2, <2>1, <3>1
         DEF OrderInv, PlaceInv, RingInv, SeenInv, InOrder, LapStart,
             NextEvent, First, Pieces, UpTo
    <3> QED BY <1>1, <3>2 DEF OrderInv
  <2>3. CASE pos # 0
    <3>1. RxEvent(pos)
      BY <1>5, <2>3 DEF IdleEvent
    <3> QED BY <1>1, <1>2, <2>1, <3>1, EventKeepsOrderInv
  <2> QED BY <2>2, <2>3
<1> QED BY <1>3, <1>4, <1>5 DEF Interrupt

\* After an error the buffer is filled from its beginning with bytes that are
\* newer than all that were handled; the offset that stays can only skip some.
LEMMA ErrorKeepsOrder == ASSUME OrderInv, ErrorEvent, TypeInv' PROVE OrderInv'
<1>1. /\ Half \in Nat \ {0} /\ RingSize = 2 * Half
      /\ pos \in 0..(RingSize - 1) /\ offset \in 0..RingSize
      /\ Len(sent) \in Nat
  BY RingFacts DEF OrderInv
<1>2. /\ "half" \notin irq /\ "full" \notin irq /\ pos' = 0 /\ irq' = {}
      /\ UNCHANGED <<sent, ring, offset, queue, chunk, fed>>
  BY DEF ErrorEvent, peerVars, taskVars
<1>3. PlaceInv' /\ RingInv'
  BY <1>1, <1>2 DEF PlaceInv, RingInv
<1> DEFINE m == LapStart + First(NextEvent)
<1>4. m \in Int /\ m <= Len(sent) /\ LapStart' + First(NextEvent)' = Len(sent)
  <2>1. LapStart = Len(sent) - pos /\ NextEvent = pos
    BY <1>1, <1>2 DEF LapStart, NextEvent
  <2>2. First(NextEvent) \in 0..pos
    BY <1>1, <2>1 DEF First
  <2>3. LapStart' = Len(sent) /\ NextEvent' = 0
    BY <1>1, <1>2 DEF LapStart, NextEvent
  <2>4. First(NextEvent)' = 0
    BY <1>1, <1>2, <2>3 DEF First
  <2> QED BY <1>1, <2>1, <2>2, <2>3, <2>4
<1> HIDE DEF m
<1>5. UpTo(Pieces, Len(sent))
  <2>1. UpTo(Pieces, m)
    BY DEF OrderInv, SeenInv, m
  <2> QED BY <1>1, <1>4, <2>1, UpToMore DEF OrderInv
<1>6. SeenInv' /\ InOrder'
  <2>1. Pieces' = Pieces
    BY <1>2 DEF Pieces
  <2>2. SeenInv'
    BY <1>4, <1>5, <2>1 DEF SeenInv, UpTo
  <2>3. InOrder'
    BY <2>1 DEF OrderInv, InOrder
  <2> QED BY <2>2, <2>3
<1> QED BY <1>3, <1>6 DEF OrderInv

\* The task moves bytes on and leaves them in their order: there is an old
\* place for each of the new ones.
LEMMA TaskKeepsOrder == ASSUME OrderInv, Task, TypeInv' PROVE OrderInv'
<1>1. UNCHANGED <<sent, ring, pos, irq, offset>>
  BY DEF Task, ReceiveChunk, ReadByte, peerVars, dmaVars
<1>2. /\ fed \in Seq(Bytes) /\ chunk \in Seq(Bytes) /\ queue \in Seq(Seq(Bytes))
      /\ fed' \in Seq(Bytes) /\ chunk' \in Seq(Bytes)
      /\ queue' \in Seq(Seq(Bytes))
  BY DEF OrderInv, TypeInv, TypeOK
<1>3. /\ Len(queue) \in Nat /\ DOMAIN Pieces = 1..(Len(queue) + 2)
      /\ Pieces[1] = fed /\ Pieces[2] = chunk
      /\ \A k \in 3..(Len(queue) + 2) : Pieces[k] = queue[k - 2]
  BY <1>2, PiecesAre DEF Pieces
<1>4. /\ Len(queue') \in Nat /\ DOMAIN Pieces' = 1..(Len(queue') + 2)
      /\ Pieces'[1] = fed' /\ Pieces'[2] = chunk'
      /\ \A k \in 3..(Len(queue') + 2) : Pieces'[k] = queue'[k - 2]
      /\ \A k \in DOMAIN Pieces' :
            Len(Pieces'[k]) \in Nat /\ DOMAIN Pieces'[k] = 1..Len(Pieces'[k])
  BY <1>2, PiecesAre DEF Pieces
<1>5. Ordered(Pieces) /\ UpTo(Pieces, LapStart + First(NextEvent))
  BY DEF OrderInv, InOrder, Ordered, SeenInv
<1>6. Ordered(Pieces') /\ UpTo(Pieces', LapStart + First(NextEvent))
  <2>1. CASE ReceiveChunk
    <3>1. /\ chunk = <<>> /\ queue # <<>> /\ chunk' = Head(queue)
          /\ queue' = Tail(queue) /\ fed' = fed
      BY <2>1 DEF ReceiveChunk
    <3>2. /\ Head(queue) = queue[1] /\ Len(queue') = Len(queue) - 1
          /\ \A k \in 1..Len(queue') : queue'[k] = queue[k + 1]
      BY <1>2, <3>1, HeadTailProperties
    <3> DEFINE old(k) == IF k = 1 THEN 1 ELSE k + 1
    <3>3. ASSUME NEW k \in DOMAIN Pieces'
          PROVE  old(k) \in DOMAIN Pieces /\ Pieces'[k] = Pieces[old(k)]
      <4>1. CASE k = 1
        BY <1>3, <1>4, <3>1, <4>1
      <4>2. CASE k = 2
        BY <1>3, <1>4, <3>1, <3>2, <4>2
      <4>3. CASE k \in 3..(Len(queue') + 2)
        <5>1. PICK p \in 3..(Len(queue) + 2) : p = k + 1
          BY <1>3, <1>4, <3>2, <4>3
        <5>2. k - 2 \in 1..Len(queue') /\ k - 2 + 1 = p - 2 /\ k # 1
          BY <1>3, <1>4, <3>2, <4>3, <5>1
        <5>3. Pieces'[k] = queue[p - 2]
          BY <1>4, <3>2, <4>3, <5>2
        <5>4. Pieces[p] = queue[p - 2] /\ p \in DOMAIN Pieces
          <6>1. p \in 1..(Len(queue) + 2)
            BY <5>1
          <6> QED BY <1>3, <6>1, Zenon
        <5> QED BY <5>1, <5>2, <5>3, <5>4
      <4> QED BY <1>4, <4>1, <4>2, <4>3
    <3>4. \A k, l \in DOMAIN Pieces' :
             (k < l => old(k) < old(l)) /\ (k = l => old(k) = old(l))
      BY <1>4
    <3> HIDE DEF old
    <3> QED BY <1>5, <3>3, <3>4 DEF Ordered, UpTo
  <2>2. CASE ReadByte
    <3>1. /\ chunk # <<>> /\ chunk' = Tail(chunk) /\ queue' = queue
          /\ fed' = Append(fed, Head(chunk))
      BY <2>2 DEF ReadByte
    <3>2. /\ Head(chunk) = chunk[1] /\ Head(chunk) \in Bytes
          /\ Len(chunk') = Len(chunk) - 1
          /\ \A i \in 1..Len(chunk') : chunk'[i] = chunk[i + 1]
      BY <1>2, <3>1, HeadTailProperties
    <3>3. /\ Len(fed) \in Nat /\ Len(chunk) \in Nat \ {0}
          /\ DOMAIN fed = 1..Len(fed) /\ DOMAIN chunk = 1..Len(chunk)
          /\ DOMAIN fed' = 1..(Len(fed) + 1)
          /\ DOMAIN chunk' = 1..Len(chunk')
          /\ \A i \in 1..Len(fed) : fed'[i] = fed[i]
          /\ fed'[Len(fed) + 1] = chunk[1]
      <4>1. /\ Len(fed') = Len(fed) + 1
            /\ \A i \in 1..Len(fed) : fed'[i] = fed[i]
            /\ fed'[Len(fed) + 1] = chunk[1]
        BY <1>2, <3>1, <3>2, AppendProperties
      <4>2. Len(chunk) \in Nat \ {0}
        BY <1>2, <3>1, EmptySeq
      <4> QED BY <1>2, <4>1, <4>2, LenProperties
    \* The piece a byte was in, and its place there.
    <3> DEFINE oldPiece(k, i) == IF k = 1 /\ i = Len(fed) + 1 THEN 2 ELSE k
               oldPlace(k, i) == IF k = 1 /\ i = Len(fed) + 1 THEN 1
                                 ELSE IF k = 2 THEN i + 1 ELSE i
    <3>4. ASSUME NEW k \in DOMAIN Pieces', NEW i \in DOMAIN Pieces'[k]
          PROVE  /\ oldPiece(k, i) \in DOMAIN Pieces
                 /\ oldPlace(k, i) \in DOMAIN Pieces[oldPiece(k, i)]
                 /\ Pieces'[k][i] = Pieces[oldPiece(k, i)][oldPlace(k, i)]
      <4>1. CASE k = 1 /\ i = Len(fed) + 1
        BY <1>3, <1>4, <3>3, <4>1
      <4>2. CASE k = 1 /\ i # Len(fed) + 1
        <5>1. i \in 1..Len(fed)
          BY <1>4, <3>3, <3>4, <4>2
        <5>2. Pieces'[k] = fed' /\ Pieces[k] = fed /\ k \in DOMAIN Pieces
          BY <1>3, <1>4, <4>2
        <5>3. fed'[i] = fed[i] /\ i \in DOMAIN fed
          BY <3>3, <5>1, Zenon
        <5>4. k # 2
          BY <4>2
        <5> QED BY <4>2, <5>2, <5>3, <5>4, Zenon
      <4>3. CASE k = 2
        <5>1. i \in 1..Len(chunk') /\ i + 1 \in 1..Len(chunk)
          BY <1>4, <3>2, <3>3, <3>4, <4>3
        <5>2. Pieces'[k] = chunk' /\ Pieces[k] = chunk /\ k \in DOMAIN Pieces
          BY <1>3, <1>4, <4>3
        <5>3. chunk'[i] = chunk[i + 1] /\ i + 1 \in DOMAIN chunk
          BY <3>2, <3>3, <5>1, Zenon
        <5>4. k # 1
          BY <4>3
        <5> QED BY <4>3, <5>2, <5>3, <5>4, Zenon
      <4>4. CASE k \in 3..(Len(queue') + 2)
        <5>1. Pieces'[k] = Pieces[k] /\ k \in DOMAIN Pieces
          BY <1>3, <1>4, <3>1, <4>4
        <5> QED BY <3>4, <4>4, <5>1
      <4> QED BY <1>4, <4>1, <4>2, <4>3, <4>4
    <3>5. ASSUME NEW k \in DOMAIN Pieces', NEW l \in DOMAIN Pieces',
                 NEW i \in DOMAIN Pieces'[k], NEW j \in DOMAIN Pieces'[l],
                 k < l \/ (k = l /\ i < j)
          PROVE  \/ oldPiece(k, i) < oldPiece(l, j)
                 \/ /\ oldPiece(k, i) = oldPiece(l, j)
                    /\ oldPlace(k, i) < oldPlace(l, j)
      <4>1. /\ k \in 1..(Len(queue') + 2) /\ l \in 1..(Len(queue') + 2)
            /\ i \in Nat \ {0} /\ j \in Nat \ {0}
            /\ (l = 1 => j <= Len(fed) + 1) /\ (k = 1 => i <= Len(fed) + 1)
        <5>1. /\ i \in 1..Len(Pieces'[k]) /\ Len(Pieces'[k]) \in Nat
              /\ j \in 1..Len(Pieces'[l]) /\ Len(Pieces'[l]) \in Nat
          BY <1>4
        <5>2. (l = 1 => j \in 1..(Len(fed) + 1))
              /\ (k = 1 => i \in 1..(Len(fed) + 1))
          BY <1>4, <3>3
        <5> QED BY <1>4, <3>3, <5>1, <5>2
      <4> HIDE DEF oldPiece, oldPlace
      <4>2. CASE k = 1 /\ i = Len(fed) + 1
        <5>1. oldPiece(k, i) = 2 /\ oldPlace(k, i) = 1
          BY <4>2 DEF oldPiece, oldPlace
        <5>2. CASE l = 1
          <6>1. i < j /\ j <= Len(fed) + 1
            BY <3>5, <4>1, <4>2, <5>2
          <6> QED BY <3>3, <4>1, <4>2, <6>1
        <5>3. CASE l = 2
          <6>1. oldPiece(l, j) = 2 /\ oldPlace(l, j) = j + 1
            BY <5>3 DEF oldPiece, oldPlace
          <6> QED BY <4>1, <5>1, <6>1
        <5>4. CASE l # 1 /\ l # 2
          <6>1. oldPiece(l, j) = l /\ l > 2
            BY <4>1, <5>4 DEF oldPiece
          <6> QED BY <5>1, <6>1
        <5> QED BY <5>2, <5>3, <5>4
      <4>3. CASE ~(k = 1 /\ i = Len(fed) + 1)
        <5>1. /\ oldPiece(k, i) = k
              /\ oldPlace(k, i) = IF k = 2 THEN i + 1 ELSE i
          BY <4>3 DEF oldPiece, oldPlace
        <5>2. CASE l = 1 /\ j = Len(fed) + 1
          <6>1. oldPiece(l, j) = 2 /\ k = 1
            BY <3>5, <4>1, <5>2 DEF oldPiece
          <6> QED BY <5>1, <6>1
        <5>3. CASE ~(l = 1 /\ j = Len(fed) + 1)
          <6>1. /\ oldPiece(l, j) = l
                /\ oldPlace(l, j) = IF l = 2 THEN j + 1 ELSE j
            BY <5>3 DEF oldPiece, oldPlace
          <6>2. CASE k < l
            BY <5>1, <6>1, <6>2
          <6>3. CASE k = l /\ i < j
            BY <4>1, <5>1, <6>1, <6>3
          <6> QED BY <3>5, <6>2, <6>3
        <5> QED BY <5>2, <5>3
      <4> QED BY <4>2, <4>3
    <3> HIDE DEF oldPiece, oldPlace
    <3>6. Ordered(Pieces')
      <4> SUFFICES ASSUME NEW k \in DOMAIN Pieces', NEW l \in DOMAIN Pieces',
                          NEW i \in DOMAIN Pieces'[k],
                          NEW j \in DOMAIN Pieces'[l],
                          k < l \/ (k = l /\ i < j)
                   PROVE  Pieces'[k][i].n < Pieces'[l][j].n
        BY DEF Ordered
      <4> QED BY <1>5, <3>4, <3>5 DEF Ordered
    <3>7. UpTo(Pieces', LapStart + First(NextEvent))
      BY <1>5, <3>4 DEF UpTo
    <3> QED BY <3>6, <3>7
  <2> QED BY <2>1, <2>2 DEF Task
<1>7. SeenInv' /\ InOrder'
  BY <1>1, <1>6
     DEF SeenInv, InOrder, Ordered, UpTo, LapStart, NextEvent, First
<1>8. PlaceInv' /\ RingInv'
  BY <1>1 DEF OrderInv, PlaceInv, RingInv, LapStart
<1> QED BY <1>7, <1>8 DEF OrderInv

\* OrderInv is inductive.
LEMMA NextOrder == OrderInv /\ [Next]_vars => OrderInv'
<1> SUFFICES ASSUME OrderInv, [Next]_vars PROVE OrderInv'
  OBVIOUS
<1>1. TypeInv'
  BY NextTypes DEF OrderInv
<1>2. CASE FallIdle \/ ReceiveLine \/ UNCHANGED vars
  <2>1. /\ UNCHANGED <<sent, ring, pos, offset, queue, chunk, fed>>
        /\ ("half" \in irq' <=> "half" \in irq)
        /\ ("full" \in irq' <=> "full" \in irq)
    BY <1>2 DEF FallIdle, ReceiveLine, vars, peerVars, dmaVars, taskVars
  <2>2. LapStart' = LapStart /\ NextEvent' = NextEvent
    BY <2>1 DEF LapStart, NextEvent
  <2>3. First(NextEvent)' = First(NextEvent) /\ Pieces' = Pieces
    BY <2>1, <2>2 DEF First, Pieces
  <2>4. PlaceInv' /\ RingInv'
    BY <2>1, <2>2 DEF OrderInv, PlaceInv, RingInv
  <2>5. SeenInv' /\ InOrder'
    BY <2>2, <2>3 DEF OrderInv, SeenInv, InOrder, UpTo
  <2> QED BY <1>1, <2>4, <2>5 DEF OrderInv
<1> QED BY <1>1, <1>2, ByteKeepsOrder, InterruptKeepsOrder, ErrorKeepsOrder,
           TaskKeepsOrder
        DEF Next

\* Whatever the sizes, however interrupts, tasks and errors interleave, the
\* reader gets the bytes in the order in which they were sent, each at most
\* once.
THEOREM BytesAreInOrder == Spec => []InOrder
<1> QED BY InitOrder, NextOrder, PTL DEF Spec, OrderInv

-----------------------------------------------------------------------------
(* What is lost.  Every byte before what the next event reads has been     *)
(* handled, or was sent near a restart of the DMA.                         *)

\* All bytes in some sequences of bytes.
AllIn(q) == UNION {ToSet(p) : p \in ToSet(q)}

\* The bytes the handler has got hold of.
Got == dropped \cup AllIn(Pieces)

\* The elements of sequences that are put together or taken apart.
LEMMA ElementsAre ==
    ASSUME NEW S, NEW s \in Seq(S), NEW t \in Seq(S), NEW e \in S
    PROVE  /\ ToSet(s \o t) = ToSet(s) \cup ToSet(t)
           /\ ToSet(Append(s, e)) = ToSet(s) \cup {e}
           /\ s # <<>> => ToSet(s) = {Head(s)} \cup ToSet(Tail(s))
           /\ ToSet(<<>>) = {} /\ ToSet(s) \subseteq S
<1>1. Len(s) \in Nat /\ Len(t) \in Nat
  BY LenProperties
<1>2. ToSet(s \o t) = ToSet(s) \cup ToSet(t)
  <2>1. /\ Len(s \o t) = Len(s) + Len(t) /\ s \o t \in Seq(S)
        /\ \A i \in 1..(Len(s) + Len(t)) :
              (s \o t)[i] = IF i <= Len(s) THEN s[i] ELSE t[i - Len(s)]
    BY ConcatProperties
  <2>2. /\ DOMAIN (s \o t) = 1..(Len(s) + Len(t))
        /\ DOMAIN s = 1..Len(s) /\ DOMAIN t = 1..Len(t)
    BY <2>1, LenProperties
  <2>3. ASSUME NEW i \in 1..Len(t)
        PROVE  Len(s) + i \in 1..(Len(s) + Len(t))
               /\ (s \o t)[Len(s) + i] = t[i]
    <3>1. PICK k \in 1..(Len(s) + Len(t)) : k = Len(s) + i
      BY <1>1
    <3>2. ~(k <= Len(s)) /\ k - Len(s) = i
      BY <1>1, <3>1
    <3> QED BY <2>1, <3>1, <3>2
  <2>4. \A i \in 1..Len(s) : i \in 1..(Len(s) + Len(t))
                             /\ (s \o t)[i] = s[i]
    BY <1>1, <2>1
  <2>5. \A i \in 1..(Len(s) + Len(t)) :
           \/ i \in 1..Len(s)
           \/ i - Len(s) \in 1..Len(t) /\ (s \o t)[i] = t[i - Len(s)]
    BY <1>1, <2>1
  <2> QED BY <2>2, <2>3, <2>4, <2>5 DEF ToSet
<1>3. ToSet(Append(s, e)) = ToSet(s) \cup {e}
  <2>1. /\ Len(Append(s, e)) = Len(s) + 1 /\ Append(s, e) \in Seq(S)
        /\ \A i \in 1..Len(s) : Append(s, e)[i] = s[i]
        /\ Append(s, e)[Len(s) + 1] = e
    BY AppendProperties
  <2>2. DOMAIN Append(s, e) = 1..(Len(s) + 1) /\ DOMAIN s = 1..Len(s)
    BY <2>1, LenProperties
  <2>3. 1..(Len(s) + 1) = 1..Len(s) \cup {Len(s) + 1}
    BY <1>1
  <2> QED BY <2>1, <2>2, <2>3 DEF ToSet
<1>4. s # <<>> => ToSet(s) = {Head(s)} \cup ToSet(Tail(s))
  <2> SUFFICES ASSUME s # <<>>
               PROVE  ToSet(s) = {Head(s)} \cup ToSet(Tail(s))
    OBVIOUS
  <2>1. /\ Head(s) = s[1] /\ Tail(s) \in Seq(S) /\ Len(Tail(s)) = Len(s) - 1
        /\ \A i \in 1..Len(Tail(s)) : Tail(s)[i] = s[i + 1]
    BY HeadTailProperties
  <2>2. PICK n \in Nat : n + 1 = Len(s)
    <3>1. Len(s) \in Nat \ {0}
      BY EmptySeq, <1>1
    <3>2. Len(s) - 1 \in Nat /\ Len(s) - 1 + 1 = Len(s)
      BY <3>1
    <3> QED BY <3>2
  <2>3. DOMAIN s = 1..(n + 1) /\ DOMAIN Tail(s) = 1..n /\ Len(Tail(s)) = n
    <3>1. Len(Tail(s)) = n
      <4>1. PICK k \in Nat : k = Len(s) /\ Len(Tail(s)) = k - 1
        BY <1>1, <2>1
      <4> QED BY <2>2, <4>1
    <3>2. DOMAIN s = 1..Len(s) /\ DOMAIN Tail(s) = 1..Len(Tail(s))
      BY <2>1, LenProperties
    <3> QED BY <2>2, <3>1, <3>2
  <2>4. \A i \in 1..(n + 1) :
           i = 1 \/ (i - 1 \in 1..n /\ s[i] = Tail(s)[i - 1])
    <3> SUFFICES ASSUME NEW i \in 1..(n + 1), i # 1
                 PROVE  i - 1 \in 1..n /\ s[i] = Tail(s)[i - 1]
      OBVIOUS
    <3>1. PICK k \in 1..n : i = k + 1
      <4>1. i - 1 \in 1..n /\ i = i - 1 + 1
        OBVIOUS
      <4> QED BY <4>1
    <3>2. i - 1 = k
      BY <3>1
    <3> QED BY <2>1, <2>3, <3>1, <3>2
  <2>5. 1 \in 1..(n + 1) /\ \A i \in 1..n : i + 1 \in 1..(n + 1)
    OBVIOUS
  <2>6. ToSet(s) \subseteq {Head(s)} \cup ToSet(Tail(s))
    <3> SUFFICES ASSUME NEW i \in 1..(n + 1)
                 PROVE  s[i] \in {Head(s)} \cup ToSet(Tail(s))
      BY <2>3 DEF ToSet
    <3>1. \A j \in 1..n : Tail(s)[j] \in ToSet(Tail(s))
      BY <2>3 DEF ToSet
    <3> QED BY <2>1, <2>4, <3>1
  <2>7. {Head(s)} \cup ToSet(Tail(s)) \subseteq ToSet(s)
    <3>1. s[1] \in ToSet(s)
      BY <2>3, <2>5 DEF ToSet
    <3>2. \A i \in 1..n : Tail(s)[i] \in ToSet(s)
      BY <2>1, <2>3, <2>5 DEF ToSet
    <3> QED BY <2>1, <2>3, <3>1, <3>2 DEF ToSet
  <2> QED BY <2>6, <2>7
<1>5. ToSet(<<>>) = {} /\ ToSet(s) \subseteq S
  <2>1. DOMAIN s = 1..Len(s) /\ \A i \in 1..Len(s) : s[i] \in S
    BY LenProperties, ElementOfSeq
  <2>2. \A i : i \notin DOMAIN <<>>
    OBVIOUS
  <2> QED BY <2>1, <2>2 DEF ToSet
<1> QED BY <1>2, <1>3, <1>4, <1>5

\* What all the sequences hold that are in a queue, put behind one another.
LEMMA AllInAre ==
    ASSUME NEW q \in Seq(Seq(Bytes)), NEW r \in Seq(Seq(Bytes))
    PROVE  /\ AllIn(q \o r) = AllIn(q) \cup AllIn(r)
           /\ q # <<>> => AllIn(q) = ToSet(Head(q)) \cup AllIn(Tail(q))
           /\ AllIn(q) \subseteq Bytes
<1>1. <<>> \in Seq(Bytes)
  OBVIOUS
<1>2. ToSet(q \o r) = ToSet(q) \cup ToSet(r)
      /\ (q # <<>> => ToSet(q) = {Head(q)} \cup ToSet(Tail(q)))
      /\ ToSet(q) \subseteq Seq(Bytes)
  BY <1>1, ElementsAre
<1>3. \A p \in Seq(Bytes) : ToSet(p) \subseteq Bytes
  BY ElementsAre, ReceiverAssumption DEF Bytes
<1> QED BY <1>2, <1>3 DEF AllIn

\* The bytes: those dropped, read, in hand and in the queue.
LEMMA GotAre ==
    ASSUME NEW f \in Seq(Bytes), NEW c \in Seq(Bytes),
           NEW q \in Seq(Seq(Bytes))
    PROVE  AllIn(<<f, c>> \o q) = ToSet(f) \cup ToSet(c) \cup AllIn(q)
<1>1. <<f, c>> \in Seq(Seq(Bytes))
  OBVIOUS
<1>2. AllIn(<<f, c>> \o q) = AllIn(<<f, c>>) \cup AllIn(q)
  BY <1>1, AllInAre
<1>3. ToSet(<<f, c>>) = {f, c}
  <2>1. DOMAIN <<f, c>> = {1, 2}
    OBVIOUS
  <2> QED BY <2>1 DEF ToSet
<1>4. AllIn(<<f, c>>) = ToSet(f) \cup ToSet(c)
  BY <1>3 DEF AllIn
<1> QED BY <1>2, <1>4

\* Dividing undoes what multiplying did, and leaves a rest.
LEMMA Dividing ==
    ASSUME NEW x \in Nat, NEW size \in Nat \ {0}
    PROVE  /\ x \div size \in Nat /\ (x \div size) * size <= x
           /\ x < (x \div size + 1) * size
           /\ \A m \in Nat : m * size <= x => m <= x \div size
<1> DEFINE d == x \div size
<1>1. d \in Nat /\ d * size <= x /\ x < d * size + size
  OBVIOUS
<1> HIDE DEF d
<1>2. (d + 1) * size = d * size + size
  BY <1>1
<1>3. ASSUME NEW m \in Nat, m * size <= x PROVE m <= d
  <2> SUFFICES ASSUME m > d PROVE FALSE
    BY <1>1
  <2>1. PICK e \in Nat : m = d + 1 + e
    <3>1. m - d - 1 \in Nat /\ m = d + 1 + (m - d - 1)
      BY <1>1
    <3> QED BY <3>1
  <2>2. m * size = (d + 1) * size + e * size /\ e * size >= 0
    BY <1>1, <2>1
  <2>3. (d + 1) * size \in Int /\ e * size \in Int
    BY <1>1
  <2> QED BY <1>1, <1>2, <1>3, <2>2, <2>3
<1> QED BY <1>1, <1>2, <1>3 DEF d

\* Every byte that an event reads is in one of the pieces.
LEMMA PiecesCover ==
    ASSUME NEW first \in Nat, NEW to \in Nat, NEW i \in first..(to - 1)
    PROVE  \E k \in 1..((to - first + ChunkSize - 1) \div ChunkSize) :
              End(first, to, k - 1) <= i /\ i < End(first, to, k)
<1> USE ReceiverAssumption
<1> DEFINE x == i - first
           k == x \div ChunkSize + 1
           all == to - first + ChunkSize - 1
<1>1. x \in Nat /\ all \in Nat /\ ChunkSize \in Nat \ {0}
  OBVIOUS
<1>2. x + ChunkSize <= all
  BY <1>1
<1> HIDE DEF x, all
<1>3. /\ x \div ChunkSize \in Nat /\ (x \div ChunkSize) * ChunkSize <= x
      /\ x < (x \div ChunkSize + 1) * ChunkSize
  BY <1>1, Dividing
<1>4. k \in Nat \ {0} /\ k - 1 = x \div ChunkSize
  BY <1>3
<1> HIDE DEF k
<1>5. (k - 1) * ChunkSize <= x /\ x < k * ChunkSize
  <2>1. x \div ChunkSize + 1 = k
    BY DEF k
  <2> QED BY <1>3, <1>4, <2>1
<1>6. (k - 1) * ChunkSize \in Nat /\ k * ChunkSize \in Nat
      /\ k * ChunkSize = (k - 1) * ChunkSize + ChunkSize
  BY <1>1, <1>4
<1>7. k * ChunkSize <= all
  BY <1>1, <1>2, <1>5, <1>6
<1>8. k <= all \div ChunkSize /\ all \div ChunkSize \in Nat
  BY <1>1, <1>4, <1>7, Dividing
<1>9. k \in 1..(all \div ChunkSize)
  BY <1>4, <1>8
<1> DEFINE a == (k - 1) * ChunkSize
           b == k * ChunkSize
<1>10. a \in Nat /\ b \in Nat /\ a <= i - first /\ i - first < b
  BY <1>5, <1>6 DEF x
<1>11. /\ End(first, to, k - 1) = IF first + a < to THEN first + a ELSE to
       /\ End(first, to, k) = IF first + b < to THEN first + b ELSE to
  BY DEF End
<1> HIDE DEF a, b
<1>12. End(first, to, k - 1) <= i /\ i < End(first, to, k)
  BY <1>10, <1>11
<1> QED BY <1>9, <1>12 DEF all

\* The pieces hold what is in the buffer where the event reads.
LEMMA ChunksHold ==
    ASSUME ring \in [0..(RingSize - 1) -> Bytes],
           NEW first \in Nat, NEW to \in 0..RingSize, first <= to
    PROVE  AllIn(Chunks(first, to)) = {ring[i] : i \in first..(to - 1)}
<1> USE ReceiverAssumption
<1> DEFINE pieces == (to - first + ChunkSize - 1) \div ChunkSize
           chunks == Chunks(first, to)
<1>1. DOMAIN chunks = 1..pieces
  BY DEF Chunks
<1>2. /\ chunks \in Seq(Seq(Bytes))
      /\ \A k \in DOMAIN chunks :
            /\ DOMAIN chunks[k] =
                  1..(End(first, to, k) - End(first, to, k - 1))
            /\ \A i \in DOMAIN chunks[k] :
                  chunks[k][i] = ring[End(first, to, k - 1) + i - 1]
  BY ChunksAre
<1>3. \A i \in first..(to - 1) : \E k \in 1..pieces :
         End(first, to, k - 1) <= i /\ i < End(first, to, k)
  <2>1. first \in Nat /\ to \in Nat
    OBVIOUS
  <2> QED BY <2>1, PiecesCover
<1>4. pieces \in Nat
  <2>1. DOMAIN chunks = 1..Len(chunks) /\ Len(chunks) \in Nat
    BY <1>2, LenProperties
  <2>2. to - first + ChunkSize - 1 \in Nat
    OBVIOUS
  <2> DEFINE all == to - first + ChunkSize - 1
  <2> HIDE DEF all
  <2>3. all \div ChunkSize \in Nat
    BY <2>2, Dividing DEF all
  <2> QED BY <2>3 DEF all
<1> HIDE DEF pieces, chunks
<1>5. ASSUME NEW k \in 1..pieces
      PROVE  /\ End(first, to, k - 1) \in first..to
             /\ End(first, to, k) \in first..to
  <2>1. k - 1 \in Nat /\ k \in Nat /\ k <= k /\ k - 1 <= k - 1 /\ to \in Nat
    BY <1>4
  <2> QED BY <2>1, EndsInOrder
<1>6. AllIn(chunks) \subseteq {ring[i] : i \in first..(to - 1)}
  <2> SUFFICES ASSUME NEW k \in 1..pieces, NEW j \in DOMAIN chunks[k]
               PROVE  chunks[k][j] \in {ring[i] : i \in first..(to - 1)}
    BY <1>1 DEF AllIn, ToSet
  <2> DEFINE begin == End(first, to, k - 1)
             end == End(first, to, k)
  <2>1. begin \in first..to /\ end \in first..to
    BY <1>5
  <2>2. j \in 1..(end - begin) /\ chunks[k][j] = ring[begin + j - 1]
    BY <1>1, <1>2
  <2> HIDE DEF begin, end
  <2>3. begin + j - 1 \in first..(to - 1)
    BY <2>1, <2>2
  <2> QED BY <2>2, <2>3
<1>7. {ring[i] : i \in first..(to - 1)} \subseteq AllIn(chunks)
  <2> SUFFICES ASSUME NEW i \in first..(to - 1)
               PROVE  ring[i] \in AllIn(chunks)
    OBVIOUS
  <2>1. PICK k \in 1..pieces :
           End(first, to, k - 1) <= i /\ i < End(first, to, k)
    BY <1>3
  <2> DEFINE begin == End(first, to, k - 1)
             end == End(first, to, k)
  <2>2. begin \in first..to /\ end \in first..to /\ begin <= i /\ i < end
    BY <1>5, <2>1
  <2>3. /\ DOMAIN chunks[k] = 1..(end - begin)
        /\ \A j \in DOMAIN chunks[k] : chunks[k][j] = ring[begin + j - 1]
    BY <1>1, <1>2
  <2> HIDE DEF begin, end
  <2>4. PICK j \in 1..(end - begin) : begin + j - 1 = i
    <3>1. i - begin + 1 \in 1..(end - begin) /\ begin + (i - begin + 1) - 1 = i
      BY <2>2
    <3> QED BY <3>1
  <2>5. ring[i] = chunks[k][j] /\ j \in DOMAIN chunks[k]
    BY <2>3, <2>4
  <2> QED BY <1>1, <2>5 DEF AllIn, ToSet
<1> QED BY <1>6, <1>7 DEF chunks

\* An event gets hold of the bytes it reads: what does not find room in the
\* queue is dropped, and remembered as such.
LEMMA EventGets ==
    ASSUME TypeOK, UNCHANGED <<fed, chunk, ring>>,
           NEW to \in 0..RingSize, RxEvent(to)
    PROVE  Got' = Got \cup {ring[i] : i \in First(to)..(to - 1)}
<1> USE ReceiverAssumption
<1>1. /\ queue \in Seq(Seq(Bytes)) /\ Len(queue) <= QueueSize
      /\ dropped \subseteq Bytes /\ offset \in 0..RingSize
      /\ ring \in [0..(RingSize - 1) -> Bytes]
      /\ fed \in Seq(Bytes) /\ chunk \in Seq(Bytes)
  BY DEF TypeOK
<1>2. CASE offset = to
  <2>1. First(to) = to /\ queue' = queue /\ dropped' = dropped
    BY <1>1, <1>2 DEF First, RxEvent
  <2>2. First(to)..(to - 1) = {}
    BY <2>1
  <2>3. Got' = Got
    BY <2>1 DEF Got, Pieces
  <2> QED BY <2>2, <2>3
<1>3. CASE offset # to
  <2> DEFINE first == First(to)
             chunks == Chunks(first, to)
             room == IF Len(chunks) < QueueSize - Len(queue) THEN Len(chunks)
                     ELSE QueueSize - Len(queue)
             kept == SubSeq(chunks, 1, room)
             lost == UNION {ToSet(chunks[k]) : k \in (room + 1)..Len(chunks)}
  <2>1. first \in Nat /\ first <= to
    BY <1>1 DEF First
  <2>2. queue' = queue \o kept /\ dropped' = dropped \cup lost
    BY <1>3 DEF RxEvent, First, SendChunks
  <2> HIDE DEF first
  <2>3. /\ chunks \in Seq(Seq(Bytes))
        /\ AllIn(chunks) = {ring[i] : i \in first..(to - 1)}
    BY <1>1, <2>1, ChunksAre, ChunksHold
  <2> HIDE DEF chunks
  <2>4. Len(queue) \in Nat /\ Len(chunks) \in Nat
    BY <1>1, <2>3, LenProperties
  <2>5. room \in 0..Len(chunks)
    BY <1>1, <2>4
  <2> HIDE DEF room
  <2>6. /\ kept \in Seq(Seq(Bytes)) /\ Len(kept) = room
        /\ \A k \in 1..room : kept[k] = chunks[k]
    BY <2>3, <2>4, <2>5, SubSeqProperties
  <2> HIDE DEF kept
  <2>7. AllIn(kept) \cup lost = AllIn(chunks)
    <3>1. DOMAIN kept = 1..room /\ DOMAIN chunks = 1..Len(chunks)
      BY <2>3, <2>6, LenProperties
    <3>2. ToSet(kept) = {chunks[k] : k \in 1..room}
      BY <2>6, <3>1 DEF ToSet
    <3>3. AllIn(kept) = UNION {ToSet(chunks[k]) : k \in 1..room}
      BY <3>2 DEF AllIn
    <3>4. AllIn(chunks) = UNION {ToSet(chunks[k]) : k \in 1..Len(chunks)}
      BY <3>1 DEF AllIn, ToSet
    <3>5. 1..Len(chunks) = 1..room \cup (room + 1)..Len(chunks)
      BY <2>4, <2>5
    <3> HIDE DEF AllIn
    <3> QED BY <3>3, <3>4, <3>5
  <2> HIDE DEF lost
  <2>8. AllIn(queue') = AllIn(queue) \cup AllIn(kept)
    BY <1>1, <2>2, <2>6, AllInAre
  <2>9. queue' \in Seq(Seq(Bytes))
    BY <1>1, <2>2, <2>6, ConcatProperties
  <2>10. /\ AllIn(Pieces) = ToSet(fed) \cup ToSet(chunk) \cup AllIn(queue)
         /\ AllIn(Pieces') = ToSet(fed) \cup ToSet(chunk) \cup AllIn(queue')
    BY <1>1, <2>9, GotAre DEF Pieces
  <2>11. Got' = dropped' \cup AllIn(Pieces')
    BY DEF Got
  <2>12. Got = dropped \cup AllIn(Pieces)
    BY DEF Got
  <2> HIDE DEF Got, Pieces
  <2> QED BY <2>2, <2>3, <2>7, <2>8, <2>10, <2>11, <2>12 DEF first
<1> QED BY <1>2, <1>3

\* The task moves bytes on and loses none of them.
LEMMA TaskKeepsGot ==
    ASSUME TypeOK, Task
    PROVE  Got' = Got
<1>1. /\ queue \in Seq(Seq(Bytes)) /\ fed \in Seq(Bytes)
      /\ chunk \in Seq(Bytes) /\ dropped' = dropped
  BY DEF TypeOK, Task, ReceiveChunk, ReadByte
<1>2. AllIn(Pieces) = ToSet(fed) \cup ToSet(chunk) \cup AllIn(queue)
  BY <1>1, GotAre DEF Pieces
<1>3. CASE ReceiveChunk
  <2>1. /\ chunk = <<>> /\ queue # <<>> /\ chunk' = Head(queue)
        /\ queue' = Tail(queue) /\ fed' = fed
    BY <1>3 DEF ReceiveChunk
  <2>2. chunk' \in Seq(Bytes) /\ queue' \in Seq(Seq(Bytes))
    BY <1>1, <2>1, HeadTailProperties
  <2>3. AllIn(Pieces') = ToSet(fed) \cup ToSet(chunk') \cup AllIn(queue')
    <3>1. Pieces' = <<fed, chunk'>> \o queue'
      BY <2>1 DEF Pieces
    <3> QED BY <1>1, <2>2, <3>1, GotAre
  <2>4. AllIn(queue) = ToSet(chunk') \cup AllIn(queue')
    BY <1>1, <2>1, AllInAre
  <2>5. ToSet(chunk) = {}
    BY <2>1, <1>1, ElementsAre, ReceiverAssumption
  <2>6. AllIn(Pieces') = AllIn(Pieces)
    BY <1>2, <2>3, <2>4, <2>5
  <2> QED BY <1>1, <2>6 DEF Got
<1>4. CASE ReadByte
  <2>1. /\ chunk # <<>> /\ chunk' = Tail(chunk) /\ queue' = queue
        /\ fed' = Append(fed, Head(chunk))
    BY <1>4 DEF ReadByte
  <2>2. Head(chunk) \in Bytes /\ chunk' \in Seq(Bytes)
    BY <1>1, <2>1, HeadTailProperties
  <2>3. fed' \in Seq(Bytes)
    BY <1>1, <2>1, <2>2, AppendProperties
  <2>4. AllIn(Pieces') = ToSet(fed') \cup ToSet(chunk') \cup AllIn(queue)
    <3>1. Pieces' = <<fed', chunk'>> \o queue
      BY <2>1 DEF Pieces
    <3> QED BY <1>1, <2>2, <2>3, <3>1, GotAre
  <2>5. ToSet(fed') = ToSet(fed) \cup {Head(chunk)}
        /\ ToSet(chunk) = {Head(chunk)} \cup ToSet(chunk')
    BY <1>1, <2>1, <2>2, ElementsAre
  <2>6. AllIn(Pieces') = AllIn(Pieces)
    BY <1>2, <2>4, <2>5
  <2> QED BY <1>1, <2>6 DEF Got
<1> QED BY <1>3, <1>4 DEF Task

\* The number of the last byte before what the next event reads.
Reached == LapStart + First(NextEvent)

\* Bytes within a buffer's length of a restart of the DMA.
Near(n) ==
    \E i \in DOMAIN restarts :
        restarts[i] - RingSize < n /\ n <= restarts[i] + RingSize

\* The offset is ahead of the DMA in the first lap after a restart only.
LossInv ==
    /\ \A n \in 1..Reached : (\E b \in Got : b.n = n) \/ Near(n)
    /\ \A b \in Got : b.n <= Reached
    /\ "full" \notin irq /\ pos < offset /\ offset < RingSize =>
          \E i \in DOMAIN restarts : restarts[i] = LapStart

\* Bytes have numbers, and what is handled are the numbers of those got.
LEMMA GotNumbers ==
    ASSUME TypeInv
    PROVE  /\ Got \subseteq Bytes /\ \A b \in Got : b.n \in Nat
           /\ Handled = {b.n : b \in Got}
           /\ Reached \in Int
           /\ \A i \in DOMAIN restarts : restarts[i] \in Nat
<1>1. /\ queue \in Seq(Seq(Bytes)) /\ fed \in Seq(Bytes)
      /\ chunk \in Seq(Bytes) /\ dropped \subseteq Bytes
      /\ restarts \in Seq(0..MaxBytes)
  BY DEF TypeInv, TypeOK
<1>2. Pieces \in Seq(Seq(Bytes))
  BY <1>1, PiecesAre DEF Pieces
<1>3. Got \subseteq Bytes
  BY <1>1, <1>2, AllInAre DEF Got
<1>4. \A b \in Bytes : b.n \in Nat
  BY DEF Bytes, NoByte
<1>5. Handled = {b.n : b \in Got}
  BY DEF Handled, Got, AllIn
<1>6. Reached \in Int
  BY RingFacts DEF Reached, LapStart, NextEvent, First
<1>7. \A i \in DOMAIN restarts : restarts[i] \in Nat
  <2>1. DOMAIN restarts = 1..Len(restarts)
    BY <1>1, LenProperties
  <2>2. \A i \in DOMAIN restarts : restarts[i] \in 0..MaxBytes
    BY <1>1, <2>1, ElementOfSeq
  <2> QED BY <2>2
<1> QED BY <1>3, <1>4, <1>5, <1>6, <1>7

\* Nothing has been sent.
LEMMA InitLoss == Init => LossInv
<1> SUFFICES ASSUME Init PROVE LossInv
  OBVIOUS
<1>1. Reached = 0
  <2>1. Len(sent) = 0 /\ pos = 0 /\ offset = 0 /\ irq = {}
    BY DEF Init
  <2> QED BY <2>1 DEF Reached, LapStart, NextEvent, First
<1>2. Got = {}
  <2>1. /\ dropped = {} /\ Pieces = <<<<>>, <<>>>> \o <<>>
        /\ <<>> \in Seq(Bytes) /\ <<>> \in Seq(Seq(Bytes))
    BY DEF Init, Pieces
  <2>2. AllIn(Pieces) = ToSet(<<>>) \cup ToSet(<<>>) \cup AllIn(<<>>)
    BY <2>1, GotAre
  <2>3. \A i : i \notin DOMAIN <<>>
    OBVIOUS
  <2>4. ToSet(<<>>) = {} /\ AllIn(<<>>) = {}
    BY <2>3 DEF ToSet, AllIn
  <2> QED BY <2>1, <2>2, <2>4 DEF Got
<1>3. ~(pos < offset)
  BY DEF Init
<1> QED BY <1>1, <1>2, <1>3 DEF LossInv

\* A byte moves the place of the next event on.  It skips bytes only when the
\* DMA reaches an offset that has been ahead of it.
LEMMA ByteMoves ==
    ASSUME OrderInv, Byte
    PROVE  /\ \/ Reached' = Reached
              \/ /\ "full" \notin irq /\ pos < offset /\ offset < RingSize
                 /\ Reached = LapStart /\ Reached' = LapStart + offset
           /\ "full" \notin irq' /\ pos' < offset =>
                 "full" \notin irq /\ pos < offset /\ LapStart' = LapStart
<1>1. TypeInv /\ PlaceInv
  BY DEF OrderInv
<1>2. PICK b : sent' = Append(sent, b) /\ Write(b)
  <2>1. PICK message \in IF say # <<>> THEN {say}
                         ELSE {m \o Delimiter : m \in Messages} :
           LET b == [n |-> Len(sent) + 1, c |-> Head(message)]
           IN  sent' = Append(sent, b) /\ Write(b)
    BY DEF Byte
  <2> QED BY <2>1
<1> DEFINE next == pos + 1
<1>3. /\ Half \in Nat \ {0} /\ RingSize = 2 * Half
      /\ pos \in 0..(RingSize - 1) /\ offset \in 0..RingSize
      /\ Len(sent) \in Nat /\ irq \subseteq {"half", "full", "idle"}
  BY <1>1, RingFacts
<1>4. Len(sent') = Len(sent) + 1
  BY <1>1, <1>2, <1>3 DEF TypeInv, TypeOK
<1>5. /\ next \in {Half, RingSize} => "half" \notin irq /\ "full" \notin irq
      /\ irq' = irq \cup (IF next = Half THEN {"half"}
                          ELSE IF next = RingSize THEN {"full"} ELSE {})
  BY <1>2 DEF Write
<1>6. pos' = IF next = RingSize THEN 0 ELSE next
  <2>1. pos' = next % RingSize
    BY <1>2 DEF Write
  <2>2. RingSize \in Nat \ {0} /\ next \in 1..RingSize
    BY <1>3
  <2> HIDE DEF next
  <2> QED BY <2>1, <2>2, PlacesWrap
<1>7. offset' = offset
  BY DEF Byte
<1>8. CASE next = RingSize
  <2>1. /\ "full" \in irq' /\ "full" \notin irq /\ "half" \notin irq
        /\ pos >= Half /\ pos' = 0 /\ Half <= offset /\ offset <= pos
    BY <1>1, <1>3, <1>5, <1>6, <1>8 DEF PlaceInv
  <2>2. Reached = Len(sent) - pos + offset
    BY <1>3, <2>1 DEF Reached, LapStart, NextEvent, First
  <2>3. Reached' = Len(sent) + 1 - RingSize + offset
    BY <1>3, <1>4, <1>7, <2>1 DEF Reached, LapStart, NextEvent, First
  <2> QED BY <1>3, <1>8, <2>1, <2>2, <2>3
<1>9. CASE next # RingSize
  <2>1. /\ pos' = pos + 1 /\ ("full" \in irq' <=> "full" \in irq)
        /\ Len(sent') - pos' = Len(sent) - pos
    BY <1>3, <1>4, <1>5, <1>6, <1>9
  <2>2. LapStart' = LapStart /\ LapStart \in Int
    <3>1. CASE "full" \in irq
      <4>1. "full" \in irq'
        BY <2>1, <3>1
      <4> QED BY <1>3, <1>4, <2>1, <3>1, <4>1 DEF LapStart
    <3>2. CASE "full" \notin irq
      <4>1. "full" \notin irq'
        BY <2>1, <3>2
      <4> QED BY <1>3, <1>4, <2>1, <3>2, <4>1 DEF LapStart
    <3> QED BY <3>1, <3>2
  <2>3. CASE NextEvent' = NextEvent
    <3>1. First(NextEvent)' = First(NextEvent)
      BY <1>7, <2>3 DEF First
    <3>2. Reached' = Reached
      BY <2>2, <3>1 DEF Reached
    <3> QED BY <1>3, <2>1, <2>2, <3>2
  <2>4. CASE NextEvent' # NextEvent
    <3>1. "full" \notin irq /\ "half" \notin irq
      <4>1. "full" \in irq => NextEvent = RingSize /\ NextEvent' = RingSize
        BY <2>1 DEF NextEvent
      <4>2. "full" \notin irq /\ "half" \in irq =>
               NextEvent = Half /\ NextEvent' = Half
        BY <1>5, <2>1 DEF NextEvent
      <4> QED BY <2>4, <4>1, <4>2
    <3>2. NextEvent = pos /\ NextEvent' = pos + 1
      <4>1. CASE next = Half
        <5>1. "half" \in irq' /\ "full" \notin irq'
          BY <1>5, <2>1, <3>1, <4>1
        <5> QED BY <3>1, <4>1, <5>1 DEF NextEvent
      <4>2. CASE next # Half
        <5>1. "half" \notin irq' /\ "full" \notin irq'
          BY <1>5, <1>9, <2>1, <3>1, <4>2
        <5> QED BY <2>1, <3>1, <5>1 DEF NextEvent
      <4> QED BY <4>1, <4>2
    <3>3. First(NextEvent) = IF offset > pos THEN 0 ELSE offset
      BY <3>2 DEF First
    <3>4. First(NextEvent)' = IF offset > pos + 1 THEN 0 ELSE offset
      BY <1>7, <3>2 DEF First
    <3>5. /\ Reached = LapStart + (IF offset > pos THEN 0 ELSE offset)
          /\ Reached' = LapStart + (IF offset > pos + 1 THEN 0 ELSE offset)
      BY <2>2, <3>3, <3>4 DEF Reached
    <3> QED BY <1>3, <1>9, <2>1, <2>2, <3>1, <3>5
  <2> QED BY <2>3, <2>4
<1> QED BY <1>8, <1>9

\* The peer sends a byte.
LEMMA ByteKeepsLoss ==
    ASSUME OrderInv, LossInv, Byte
    PROVE  LossInv'
<1>1. /\ \/ Reached' = Reached
         \/ /\ "full" \notin irq /\ pos < offset /\ offset < RingSize
            /\ Reached = LapStart /\ Reached' = LapStart + offset
      /\ "full" \notin irq' /\ pos' < offset =>
            "full" \notin irq /\ pos < offset /\ LapStart' = LapStart
  BY ByteMoves
<1>2. UNCHANGED <<offset, queue, chunk, fed, dropped, restarts>>
  BY DEF Byte, taskVars
<1>3. Got' = Got
  BY <1>2 DEF Got, Pieces
<1>4. TypeInv /\ offset \in 0..RingSize
  BY DEF OrderInv, TypeInv, TypeOK
<1>5. /\ \A b \in Got : b.n \in Nat /\ b.n <= Reached
      /\ Reached \in Int /\ \A i \in DOMAIN restarts : restarts[i] \in Nat
  BY <1>4, GotNumbers DEF LossInv
<1>6. Reached' \in Int /\ Reached <= Reached'
  BY <1>1, <1>4, <1>5
<1>7. \A b \in Got' : b.n <= Reached'
  BY <1>3, <1>5, <1>6
<1>8. ASSUME NEW n \in 1..Reached' PROVE (\E b \in Got : b.n = n) \/ Near(n)
  <2>1. CASE n <= Reached
    <3>1. n \in 1..Reached
      BY <1>5, <2>1
    <3> QED BY <3>1 DEF LossInv
  <2>2. CASE n > Reached
    <3>1. /\ Reached = LapStart /\ Reached' = LapStart + offset
          /\ "full" \notin irq /\ pos < offset /\ offset < RingSize
      BY <1>1, <1>5, <1>6, <2>2
    <3>2. PICK i \in DOMAIN restarts : restarts[i] = LapStart
      BY <3>1 DEF LossInv
    <3>3. restarts[i] < n /\ n <= restarts[i] + offset
      BY <1>5, <1>6, <2>2, <3>1, <3>2
    <3>4. restarts[i] - RingSize < n /\ n <= restarts[i] + RingSize
      BY <1>4, <1>5, <3>2, <3>3, ReceiverAssumption
    <3> QED BY <3>4 DEF Near
  <2> QED BY <1>5, <2>1, <2>2
<1>9. \A n \in 1..Reached' : (\E b \in Got' : b.n = n) \/ Near(n)'
  BY <1>2, <1>3, <1>8 DEF Near
<1>10. "full" \notin irq' /\ pos' < offset' /\ offset' < RingSize =>
          \E i \in DOMAIN restarts' : restarts'[i] = LapStart'
  BY <1>1, <1>2 DEF LossInv
<1> QED BY <1>7, <1>9, <1>10 DEF LossInv

\* An event gets all bytes up to its place.
LEMMA EventKeepsLoss ==
    ASSUME OrderInv, LossInv, TypeInv', UNCHANGED <<sent, pos, ring, fed,
                                                    chunk, restarts>>,
           "half" \notin irq', "full" \notin irq',
           RxEvent(NextEvent)
    PROVE  LossInv'
<1> DEFINE to == NextEvent
           base == LapStart
<1>1. /\ Half \in Nat \ {0} /\ RingSize = 2 * Half
      /\ pos \in 0..(RingSize - 1) /\ offset \in 0..RingSize
      /\ Len(sent) \in Nat /\ irq \subseteq {"half", "full", "idle"}
      /\ ring \in [0..(RingSize - 1) -> Bytes]
  BY RingFacts DEF OrderInv
<1>2. to \in 0..RingSize /\ base \in Int
  BY <1>1 DEF NextEvent, LapStart
<1>3. First(to) \in 0..to
  BY <1>1, <1>2 DEF First
<1>4. \A i \in First(to)..(to - 1) : ring[i].n = base + i + 1
  BY EventReads
<1>5. offset' = to
  BY <1>2, EventTypes DEF OrderInv, TypeInv
<1>6. Reached' = base + to
  BY <1>5, EventReaches DEF Reached
<1> HIDE DEF to, base
<1>7. Got' = Got \cup {ring[i] : i \in First(to)..(to - 1)}
  <2>1. TypeOK /\ UNCHANGED <<fed, chunk, ring>> /\ RxEvent(to)
    BY DEF OrderInv, TypeInv, to
  <2> QED BY <1>2, <2>1, EventGets
<1>8. Reached = base + First(to)
  BY DEF Reached, base, to
<1>9. \A b \in Got : b.n \in Nat /\ b.n <= Reached
  BY GotNumbers DEF OrderInv, LossInv
<1>10. \A b \in Got' : b.n <= Reached'
  <2>1. \A b \in Got : b.n <= Reached'
    BY <1>2, <1>3, <1>6, <1>8, <1>9
  <2>2. \A i \in First(to)..(to - 1) : ring[i].n <= Reached'
    BY <1>2, <1>3, <1>4, <1>6
  <2> QED BY <1>7, <2>1, <2>2
<1>11. ASSUME NEW n \in 1..Reached'
       PROVE  (\E b \in Got' : b.n = n) \/ Near(n)
  <2>1. CASE n <= Reached
    <3>1. n \in 1..Reached
      BY <1>2, <1>3, <1>8, <2>1
    <3> QED BY <1>7, <3>1 DEF LossInv
  <2>2. CASE n > Reached
    <3>1. PICK i \in First(to)..(to - 1) : n = base + i + 1
      <4>1. /\ n - base - 1 \in First(to)..(to - 1)
            /\ n = base + (n - base - 1) + 1
        BY <1>2, <1>3, <1>6, <1>8, <2>2
      <4> QED BY <4>1
    <3>2. ring[i].n = n /\ ring[i] \in Got'
      BY <1>4, <1>7, <3>1
    <3> QED BY <3>2
  <2> QED BY <1>2, <1>3, <1>8, <2>1, <2>2
<1>12. \A n \in 1..Reached' : (\E b \in Got' : b.n = n) \/ Near(n)'
  BY <1>11 DEF Near
<1>13. ~(pos' < offset' /\ offset' < RingSize)
  <2>1. to = RingSize \/ to <= pos
    BY <1>1 DEF to, NextEvent, OrderInv, PlaceInv
  <2> QED BY <1>1, <1>2, <1>5, <2>1
<1> QED BY <1>10, <1>12, <1>13 DEF LossInv

\* The events are those that are due, or that of a line that fell idle.
LEMMA InterruptKeepsLoss ==
    ASSUME OrderInv, LossInv, Interrupt
    PROVE  LossInv'
<1>1. TypeInv'
  BY InterruptTypes DEF OrderInv
<1>2. UNCHANGED <<sent, pos, ring, fed, chunk, restarts>>
  BY DEF Interrupt, HalfEvent, FullEvent, IdleEvent, peerVars, taskVars
<1>3. CASE HalfEvent
  <2>1. /\ "full" \notin irq' /\ "half" \notin irq' /\ NextEvent = Half
        /\ RxEvent(Half)
    BY <1>3 DEF HalfEvent, OrderInv, PlaceInv, NextEvent
  <2> QED BY <1>1, <1>2, <2>1, EventKeepsLoss
<1>4. CASE FullEvent
  <2>1. /\ "full" \notin irq' /\ "half" \notin irq' /\ NextEvent = RingSize
        /\ RxEvent(RingSize)
    BY <1>4 DEF FullEvent, OrderInv, PlaceInv, NextEvent
  <2> QED BY <1>1, <1>2, <2>1, EventKeepsLoss
<1>5. CASE IdleEvent
  <2>1. /\ "full" \notin irq' /\ "half" \notin irq' /\ NextEvent = pos
        /\ "full" \notin irq /\ "half" \notin irq
    BY <1>5 DEF IdleEvent, NextEvent
  <2>2. CASE pos = 0
    <3>1. UNCHANGED <<offset, queue, dropped>>
      BY <1>5, <2>2 DEF IdleEvent
    <3>2. Reached' = Reached /\ LapStart' = LapStart
      BY <1>2, <2>1, <3>1 DEF Reached, LapStart, NextEvent, First
    <3>3. Got' = Got
      BY <1>2, <3>1 DEF Got, Pieces
    <3> QED BY <1>2, <2>1, <3>1, <3>2, <3>3 DEF LossInv, Near
  <2>3. CASE pos # 0
    <3>1. RxEvent(pos)
      BY <1>5, <2>3 DEF IdleEvent
    <3> QED BY <1>1, <1>2, <2>1, <3>1, EventKeepsLoss
  <2> QED BY <2>2, <2>3
<1> QED BY <1>3, <1>4, <1>5 DEF Interrupt

\* A restart: what has not been handled yet was sent less than a lap before.
LEMMA ErrorKeepsLoss ==
    ASSUME OrderInv, LossInv, ErrorEvent, TypeInv'
    PROVE  LossInv'
<1>1. /\ Half \in Nat \ {0} /\ RingSize = 2 * Half
      /\ pos \in 0..(RingSize - 1) /\ offset \in 0..RingSize
      /\ Len(sent) \in Nat /\ RingSize \in Nat
  BY RingFacts, ReceiverAssumption DEF OrderInv
<1>2. /\ "half" \notin irq /\ "full" \notin irq /\ pos' = 0 /\ irq' = {}
      /\ restarts' = Append(restarts, Len(sent))
      /\ UNCHANGED <<sent, ring, offset, queue, chunk, fed, dropped>>
  BY DEF ErrorEvent, peerVars, taskVars
<1>3. /\ Len(sent) - pos <= Reached /\ Reached <= Len(sent)
      /\ Reached \in Int /\ Reached' = Len(sent) /\ LapStart' = Len(sent)
  <2>1. LapStart = Len(sent) - pos /\ NextEvent = pos
    BY <1>1, <1>2 DEF LapStart, NextEvent
  <2>2. First(NextEvent) \in 0..pos
    BY <1>1, <2>1 DEF First
  <2>3. LapStart' = Len(sent) /\ NextEvent' = 0
    BY <1>1, <1>2 DEF LapStart, NextEvent
  <2>4. First(NextEvent)' = 0
    BY <1>1, <1>2, <2>3 DEF First
  <2> QED BY <1>1, <2>1, <2>2, <2>3, <2>4 DEF Reached
<1>4. PICK last \in Nat :
         /\ last \in DOMAIN restarts' /\ restarts'[last] = Len(sent)
         /\ \A i \in DOMAIN restarts :
               i \in DOMAIN restarts' /\ restarts'[i] = restarts[i]
  <2>1. restarts \in Seq(0..MaxBytes) /\ restarts' \in Seq(0..MaxBytes)
    BY DEF OrderInv, TypeInv, TypeOK
  <2>2. PICK n \in Nat : n = Len(restarts)
    BY <2>1, LenProperties
  <2>3. Len(sent) \in 0..MaxBytes
    BY <1>1 DEF OrderInv, TypeInv
  <2>4. /\ Len(restarts') = n + 1 /\ restarts'[n + 1] = Len(sent)
        /\ \A i \in 1..n : restarts'[i] = restarts[i]
    BY <1>2, <2>1, <2>2, <2>3, AppendProperties
  <2>5. DOMAIN restarts = 1..n /\ DOMAIN restarts' = 1..(n + 1)
    BY <2>1, <2>2, <2>4, LenProperties
  <2>6. n + 1 \in Nat /\ n + 1 \in 1..(n + 1)
        /\ \A i \in 1..n : i \in 1..(n + 1)
    OBVIOUS
  <2> QED BY <2>4, <2>5, <2>6
<1>5. Got' = Got
  BY <1>2 DEF Got, Pieces
<1>6. \A b \in Got' : b.n <= Reached'
  <2>1. \A b \in Got : b.n \in Nat /\ b.n <= Reached
    BY GotNumbers DEF OrderInv, LossInv
  <2> QED BY <1>1, <1>3, <1>5, <2>1
<1>7. \A n : Near(n) => Near(n)'
  BY <1>4 DEF Near
<1>8. ASSUME NEW n \in 1..Reached'
      PROVE  (\E b \in Got : b.n = n) \/ Near(n)'
  <2>1. CASE n <= Reached
    <3>1. n \in 1..Reached
      BY <1>3, <2>1
    <3> QED BY <1>7, <3>1 DEF LossInv
  <2>2. CASE n > Reached
    <3>1. Len(sent) - RingSize < n /\ n <= Len(sent) + RingSize
      BY <1>1, <1>3, <2>2
    <3> QED BY <1>4, <3>1 DEF Near
  <2> QED BY <1>1, <1>3, <2>1, <2>2
<1>9. \A n \in 1..Reached' : (\E b \in Got' : b.n = n) \/ Near(n)'
  BY <1>5, <1>8
<1>10. \E i \in DOMAIN restarts' : restarts'[i] = LapStart'
  BY <1>3, <1>4
<1> QED BY <1>6, <1>9, <1>10 DEF LossInv

\* Every step.
LEMMA NextLoss == OrderInv /\ LossInv /\ [Next]_vars => LossInv'
<1> SUFFICES ASSUME OrderInv, LossInv, [Next]_vars PROVE LossInv'
  OBVIOUS
<1>1. TypeInv'
  BY NextTypes DEF OrderInv
<1>2. ASSUME UNCHANGED <<sent, ring, pos, offset, restarts>>, Got' = Got,
             "half" \in irq' <=> "half" \in irq,
             "full" \in irq' <=> "full" \in irq
      PROVE  LossInv'
  <2>1. LapStart' = LapStart /\ NextEvent' = NextEvent
    BY <1>2 DEF LapStart, NextEvent
  <2>2. Reached' = Reached
    BY <1>2, <2>1 DEF Reached, First
  <2> QED BY <1>2, <2>1, <2>2 DEF LossInv, Near
<1>3. CASE Task
  <2>1. UNCHANGED <<sent, ring, pos, irq, offset, restarts>>
    BY <1>3 DEF Task, ReceiveChunk, ReadByte, peerVars, dmaVars
  <2>2. Got' = Got
    BY <1>3, TaskKeepsGot DEF OrderInv, TypeInv
  <2> QED BY <1>2, <2>1, <2>2
<1>4. CASE FallIdle \/ ReceiveLine \/ UNCHANGED vars
  <2>1. /\ UNCHANGED <<sent, ring, pos, offset, restarts, queue, chunk, fed,
                       dropped>>
        /\ ("half" \in irq' <=> "half" \in irq)
        /\ ("full" \in irq' <=> "full" \in irq)
    BY <1>4 DEF FallIdle, ReceiveLine, vars, peerVars, dmaVars, taskVars
  <2>2. Got' = Got
    BY <2>1 DEF Got, Pieces
  <2> QED BY <1>2, <2>1, <2>2
<1> QED BY <1>1, <1>3, <1>4, ByteKeepsLoss, InterruptKeepsLoss, ErrorKeepsLoss
        DEF Next

\* isr_rx_event, HAL_UART_ErrorCallback: whatever the sizes, and however many
\* errors the line has, only bytes sent within a buffer's length of a restart
\* are skipped; any other that is missing found the queue full.
THEOREM OnlyRestartsSkipBytes == Spec => []LossIsLocal
<1>1. Init => OrderInv /\ LossInv
  BY InitOrder, InitLoss
<1>2. OrderInv /\ LossInv /\ [Next]_vars => OrderInv' /\ LossInv'
  BY NextOrder, NextLoss
<1>3. OrderInv /\ LossInv => LossIsLocal
  <2> SUFFICES ASSUME OrderInv, LossInv, NEW n \in 1..Len(sent),
                      n \notin Handled, NEW m \in Handled, n < m
               PROVE  Near(n)
    BY DEF LossIsLocal, Near
  <2>1. /\ \A b \in Got : b.n \in Nat /\ b.n <= Reached
        /\ Handled = {b.n : b \in Got} /\ Reached \in Int
    BY GotNumbers DEF OrderInv, LossInv
  <2>2. m <= Reached /\ m \in Nat
    BY <2>1
  <2>3. n \in 1..Reached
    <3>1. n \in Int /\ n >= 1
      OBVIOUS
    <3> QED BY <2>1, <2>2, <3>1
  <2> QED BY <2>1, <2>3 DEF LossInv
<1> QED BY <1>1, <1>2, <1>3, PTL DEF Spec
-----------------------------------------------------------------------------
(* What is called back.                                                    *)

\* What ends with the two, and has neither before.
Ended(m) ==
    \A i \in 1..Len(m) : /\ m[i] = Delimiter[2] <=> i = Len(m)
                         /\ m[i] = Delimiter[1] <=> i = Len(m) - 1

\* The peer sends the second character of a delimiter behind the first, and
\* neither on its own.
PeerInv ==
    /\ Ended(say)
    /\ \A n \in 1..Len(sent) :
          /\ sent[n].n = n
          /\ sent[n].c = Delimiter[2] =>
                n > 1 /\ sent[n - 1].c = Delimiter[1]
          /\ sent[n].c = Delimiter[1] =>
                \/ n < Len(sent) /\ sent[n + 1].c = Delimiter[2]
                \/ n = Len(sent) /\ Len(say) = 1
    /\ Len(say) = 1 =>
          sent # <<>> /\ sent[Len(sent)].c = Delimiter[1]

\* What the buffer holds and what the handler has got are bytes that were
\* sent.
SentInv ==
    /\ LapStart >= 0
    /\ \A i \in 0..(RingSize - 1) : ring[i] = NoByte \/ ring[i] \in ToSet(sent)
    /\ Got \subseteq ToSet(sent)

\* The numbers of the bytes read, and of the last of them.
Read == {b.n : b \in ToSet(fed)}
Latest == IF fed = <<>> THEN 0 ELSE fed[Len(fed)].n

\* All of a message from the delimiter before it up to n has been read, and
\* there is no other delimiter behind it before n.
Start(begin) == IF begin = 0 THEN 1 ELSE begin - 1
Intact(begin, n) ==
    /\ begin <= n /\ Start(begin)..n \subseteq Read
    /\ ~\E m \in Ends : begin < m /\ m < n

\* What the line buffer has of the bytes from begin + 1 to n of s.
Cut(s, begin, n) ==
    SubSeq(s, begin + 1, begin + (IF n - begin < LineSize THEN n - begin
                                  ELSE LineSize))

\* The reader, with those bytes read, and the line it makes of them.
ReaderOf(s, begin, n, matched) ==
    [matched |-> matched, text |-> Cut(s, begin, n),
     overflown |-> n - begin > LineSize]
LineOf(s, begin, n) ==
    [text |-> Cut(s, begin, n), overflown |-> n - begin > LineSize]

\* A reader of a message that is whole so far has all of it.
ReaderInv ==
    /\ fed # <<>> /\ fed[Len(fed)].c = Delimiter[1] => reader.matched = 1
    /\ \A begin \in Ends :
          Intact(begin, Latest) /\ (begin = Latest \/ Latest \notin Ends) =>
             IF begin < Latest /\ sent[Latest].c = Delimiter[1]
             THEN reader = ReaderOf(sent, begin, Latest - 1, 1)
             ELSE reader = ReaderOf(sent, begin, Latest, 0)

\* Those that were whole have been called back with.
LinesInv ==
    \A begin, to \in Ends :
        begin < to /\ Intact(begin, to) =>
            \E i \in DOMAIN lines : lines[i] = LineOf(sent, begin, to - 2)

IntactInv == PeerInv /\ SentInv /\ ReaderInv /\ LinesInv

\* The delimiters, in a sequence of bytes.
EndsOf(s) ==
    {0} \cup {n \in 2..Len(s) : /\ s[n - 1].c = Delimiter[1]
                                /\ s[n].c = Delimiter[2]}

\* A delimiter of two characters.
LEMMA EndsAre ==
    ASSUME CleanMessages
    PROVE  Ends = EndsOf(sent) /\ Ends' = EndsOf(sent')
<1>1. Len(Delimiter) = 2
  BY DEF CleanMessages
<1>2. \A n \in Nat : n - 2 + 1 = n - 1 /\ n - 2 + 2 = n
  OBVIOUS
<1>3. 1..2 = {1, 2}
  OBVIOUS
<1>4. \A s : \A n \in 2..Len(s) :
         (\A i \in 1..2 : s[n - 2 + i].c = Delimiter[i]) <=>
         s[n - 1].c = Delimiter[1] /\ s[n].c = Delimiter[2]
  <2> SUFFICES ASSUME NEW s, NEW n \in 2..Len(s)
               PROVE  (\A i \in 1..2 : s[n - 2 + i].c = Delimiter[i]) <=>
                      s[n - 1].c = Delimiter[1] /\ s[n].c = Delimiter[2]
    OBVIOUS
  <2>1. n - 2 + 1 = n - 1 /\ n - 2 + 2 = n
    OBVIOUS
  <2> QED BY <1>3, <2>1
<1>5. Ends = EndsOf(sent)
  BY <1>1, <1>4 DEF Ends, EndsOf
<1>6. Ends' = EndsOf(sent')
  BY <1>1, <1>4 DEF Ends, EndsOf
<1> QED BY <1>5, <1>6

\* The elements of a sequence of bytes.
LEMMA BytesAre ==
    ASSUME NEW s \in Seq(Bytes)
    PROVE  /\ Len(s) \in Nat /\ DOMAIN s = 1..Len(s)
           /\ \A n \in 1..Len(s) : s[n] \in Bytes
           /\ ToSet(s) = {s[n] : n \in 1..Len(s)}
           /\ \A b \in Bytes : b.n \in Nat
<1>1. Len(s) \in Nat /\ DOMAIN s = 1..Len(s)
  BY LenProperties
<1>2. \A n \in 1..Len(s) : s[n] \in Bytes
  BY ElementOfSeq
<1>3. ToSet(s) = {s[n] : n \in 1..Len(s)}
  BY <1>1 DEF ToSet
<1>4. \A b \in Bytes : b.n \in Nat
  BY DEF Bytes, NoByte
<1> QED BY <1>1, <1>2, <1>3, <1>4

\* The byte the peer sends is the first of what is left of a message, or of
\* a new one.
LEMMA ByteSends ==
    ASSUME CleanMessages, TypeInv, PeerInv, Byte
    PROVE  \E m \in Seq(STRING) :
              /\ m # <<>> /\ Ended(m) /\ say' = Tail(m)
              /\ sent' = Append(sent, [n |-> Len(sent) + 1, c |-> Head(m)])
              /\ m = say \/ (Len(m) >= 2 /\ say = <<>>)
<1> USE ReceiverAssumption, ReaderAssumption
<1>1. PICK m \in IF say # <<>> THEN {say}
                 ELSE {d \o Delimiter : d \in Messages} :
         /\ say' = Tail(m)
         /\ sent' = Append(sent, [n |-> Len(sent) + 1, c |-> Head(m)])
  BY DEF Byte
<1>2. CASE say # <<>>
  <2>1. m = say /\ say \in Seq(STRING)
    BY <1>1, <1>2 DEF TypeInv, TypeOK
  <2>2. Ended(say)
    BY DEF PeerInv
  <2> QED BY <1>1, <1>2, <2>1, <2>2
<1>3. CASE say = <<>>
  <2>1. PICK d \in Messages : m = d \o Delimiter
    BY <1>1, <1>3
  <2>2. d \in Seq(STRING) /\ Delimiter \in Seq(STRING) /\ Len(Delimiter) = 2
    BY DEF CleanMessages
  <2>3. PICK l \in Nat : l = Len(d)
    BY <2>2, LenProperties
  <2>4. /\ m \in Seq(STRING) /\ Len(m) = l + 2
        /\ \A i \in 1..(l + 2) :
              m[i] = IF i <= l THEN d[i] ELSE Delimiter[i - l]
    <3>1. /\ m \in Seq(STRING) /\ Len(m) = l + Len(Delimiter)
          /\ \A i \in 1..(l + Len(Delimiter)) :
                m[i] = IF i <= l THEN d[i] ELSE Delimiter[i - l]
      <4>1. d \in Seq(STRING) /\ Delimiter \in Seq(STRING)
        BY <2>2
      <4> HIDE ReceiverAssumption, ReaderAssumption
      <4> QED BY <2>1, <2>3, <4>1, ConcatProperties, Zenon
    <3> QED BY <2>2, <3>1
  <2>5. ASSUME NEW i \in 1..(l + 2)
        PROVE  /\ m[i] = Delimiter[2] <=> i = l + 2
               /\ m[i] = Delimiter[1] <=> i = l + 1
    <3>1. CASE i <= l
      <4>1. i \in 1..Len(d) /\ m[i] = d[i]
        BY <2>3, <2>4, <3>1
      <4>2. d[i] # Delimiter[1] /\ d[i] # Delimiter[2]
        BY <4>1 DEF CleanMessages
      <4> QED BY <3>1, <4>1, <4>2
    <3>2. CASE i = l + 1
      <4>1. m[i] = Delimiter[1]
        <5>1. ~(i <= l) /\ i - l = 1
          BY <3>2
        <5> QED BY <2>4, <5>1
      <4> QED BY <3>2, <4>1 DEF CleanMessages
    <3>3. CASE i = l + 2
      <4>1. m[i] = Delimiter[2]
        <5>1. ~(i <= l) /\ i - l = 2
          BY <3>3
        <5> QED BY <2>4, <5>1
      <4> QED BY <3>3, <4>1 DEF CleanMessages
    <3> QED BY <3>1, <3>2, <3>3
  <2>6. Ended(m)
    <3>1. Len(m) - 1 = l + 1
      BY <2>4
    <3> QED BY <2>4, <2>5, <3>1 DEF Ended
  <2>7. m # <<>> /\ Len(m) >= 2
    BY <2>4, EmptySeq
  <2> QED BY <1>1, <1>3, <2>4, <2>6, <2>7
<1> QED BY <1>2, <1>3

\* What is sent next keeps the delimiters whole.
LEMMA ByteKeepsPeer ==
    ASSUME CleanMessages, TypeInv, PeerInv, Byte
    PROVE  PeerInv'
<1>1. PICK m \in Seq(STRING) :
         /\ m # <<>> /\ Ended(m) /\ say' = Tail(m)
         /\ sent' = Append(sent, [n |-> Len(sent) + 1, c |-> Head(m)])
         /\ m = say \/ (Len(m) >= 2 /\ say = <<>>)
  BY ByteSends
<1>2. PICK l \in Nat \ {0} : l = Len(m)
  BY <1>1, LenProperties, EmptySeq
<1>3. /\ Head(m) = m[1] /\ Len(say') = l - 1
      /\ \A i \in 1..(l - 1) : say'[i] = m[i + 1]
  BY <1>1, <1>2, HeadTailProperties
<1>4. PICK k \in Nat : k = Len(sent)
  BY LenProperties DEF TypeInv, TypeOK
<1>5. PICK b : b = [n |-> Len(sent) + 1, c |-> Head(m)]
  OBVIOUS
<1>6. b.n = k + 1 /\ b.c = m[1]
  BY <1>3, <1>4, <1>5
<1>7. /\ Len(sent') = k + 1 /\ sent'[k + 1] = b
      /\ \A n \in 1..k : sent'[n] = sent[n]
  BY <1>1, <1>4, <1>5 DEF TypeInv, TypeOK
<1>8. \A i \in 1..l : /\ m[i] = Delimiter[2] <=> i = l
                      /\ m[i] = Delimiter[1] <=> i = l - 1
  BY <1>1, <1>2 DEF Ended
<1>9. /\ b.c = Delimiter[2] <=> l = 1
      /\ b.c = Delimiter[1] <=> l = 2
  <2>1. 1 \in 1..l
    OBVIOUS
  <2>2. /\ m[1] = Delimiter[2] <=> 1 = l
        /\ m[1] = Delimiter[1] <=> 1 = l - 1
    BY <1>8, <2>1
  <2> QED BY <1>6, <2>2
<1>10. l = 1 => k > 0 /\ sent[k].c = Delimiter[1] /\ Len(say) = 1
  <2> SUFFICES ASSUME l = 1
               PROVE  k > 0 /\ sent[k].c = Delimiter[1] /\ Len(say) = 1
    OBVIOUS
  <2>1. m = say /\ Len(say) = 1
    BY <1>1, <1>2
  <2>2. sent # <<>> /\ sent[k].c = Delimiter[1]
    BY <1>4, <2>1 DEF PeerInv
  <2>3. k # 0
    BY <1>4, <2>2, EmptySeq DEF TypeInv, TypeOK
  <2> QED BY <2>1, <2>2, <2>3
<1>11. Ended(say')
  <2> SUFFICES ASSUME NEW i \in 1..(l - 1)
               PROVE  /\ say'[i] = Delimiter[2] <=> i = l - 1
                      /\ say'[i] = Delimiter[1] <=> i = l - 1 - 1
    BY <1>3 DEF Ended
  <2>1. i + 1 \in 1..l /\ say'[i] = m[i + 1]
    BY <1>3
  <2>2. /\ m[i + 1] = Delimiter[2] <=> i + 1 = l
        /\ m[i + 1] = Delimiter[1] <=> i + 1 = l - 1
    BY <1>8, <2>1
  <2> QED BY <2>1, <2>2
<1>12. ASSUME NEW n \in 1..(k + 1)
       PROVE  /\ sent'[n].n = n
              /\ sent'[n].c = Delimiter[2] =>
                    n > 1 /\ sent'[n - 1].c = Delimiter[1]
              /\ sent'[n].c = Delimiter[1] =>
                    \/ n < k + 1 /\ sent'[n + 1].c = Delimiter[2]
                    \/ n = k + 1 /\ l - 1 = 1
  <2>1. CASE n = k + 1
    <3>1. sent'[n] = b
      BY <1>7, <2>1
    <3>2. b.n = n /\ (b.c = Delimiter[1] => l - 1 = 1)
      BY <1>6, <1>9, <2>1
    <3>3. b.c = Delimiter[2] => n > 1 /\ sent'[n - 1].c = Delimiter[1]
      <4>1. n - 1 = k /\ (k > 0 => n > 1 /\ k \in 1..k)
        BY <2>1
      <4> QED BY <1>7, <1>9, <1>10, <4>1
    <3> QED BY <2>1, <3>1, <3>2, <3>3
  <2>2. CASE n \in 1..k
    <3>1. sent'[n] = sent[n] /\ (n > 1 => sent'[n - 1] = sent[n - 1])
      BY <1>7, <2>2
    <3>2. /\ sent[n].n = n
          /\ sent[n].c = Delimiter[2] =>
                n > 1 /\ sent[n - 1].c = Delimiter[1]
          /\ sent[n].c = Delimiter[1] =>
                \/ n < k /\ sent[n + 1].c = Delimiter[2]
                \/ n = k /\ Len(say) = 1
      BY <1>4, <2>2 DEF PeerInv
    <3>3. n < k => sent'[n + 1] = sent[n + 1]
      BY <1>7, <2>2
    <3>4. Len(say) = 1 => b.c = Delimiter[2] \/ sent[k].c # Delimiter[1]
      <4> SUFFICES ASSUME Len(say) = 1 PROVE b.c = Delimiter[2]
        OBVIOUS
      <4>1. m = say
        <5>1. say # <<>>
          <6>1. Len(<<>>) = 0
            BY EmptySeq
          <6>2. 0 # 1
            OBVIOUS
          <6> QED BY <6>1, <6>2, Zenon
        <5> QED BY <1>1, <5>1
      <4> QED BY <1>2, <1>9, <4>1
    <3>5. n = k => sent'[n + 1] = b
      BY <1>7
    <3> QED BY <2>2, <3>1, <3>2, <3>3, <3>4, <3>5
  <2> QED BY <2>1, <2>2
<1>13. Len(say') = 1 => sent' # <<>> /\ sent'[Len(sent')].c = Delimiter[1]
  <2>1. Len(say') = 1 => l = 2
    <3>1. PICK j \in Nat : j = l - 1 /\ Len(say') = j
      BY <1>3
    <3>2. j = 1 => l = 2
      BY <3>1
    <3> QED BY <3>1, <3>2, Zenon
  <2>2. sent' # <<>>
    BY <1>7
  <2> QED BY <1>7, <1>9, <2>1, <2>2
<1> QED BY <1>3, <1>7, <1>11, <1>12, <1>13 DEF PeerInv

\* Two delimiters do not overlap.
LEMMA EndsApart ==
    ASSUME CleanMessages, NEW begin \in Ends, NEW to \in Ends, begin < to
    PROVE  begin \in Nat /\ to \in Nat /\ begin <= to - 2 /\ to <= Len(sent)
<1>1. begin \in EndsOf(sent) /\ to \in EndsOf(sent)
  BY EndsAre
<1>2. begin = 0 \/ begin \in 2..Len(sent)
  BY <1>1 DEF EndsOf
<1>3. begin # 0 => sent[begin].c = Delimiter[2]
  BY <1>1 DEF EndsOf
<1>4. to \in 2..Len(sent) /\ sent[to - 1].c = Delimiter[1]
  <2>1. to # 0
    BY <1>2
  <2> QED BY <1>1, <2>1 DEF EndsOf
<1>5. begin # to - 1
  <2>1. begin = to - 1 => begin # 0
    BY <1>4
  <2>2. Delimiter[1] # Delimiter[2]
    BY DEF CleanMessages
  <2> QED BY <1>3, <1>4, <2>1, <2>2
<1> QED BY <1>2, <1>4, <1>5

\* A byte that was sent has its number.
LEMMA SentAreNumbered ==
    ASSUME TypeInv, PeerInv, NEW b \in ToSet(sent)
    PROVE  b.n \in 1..Len(sent) /\ sent[b.n] = b
<1>1. PICK n \in 1..Len(sent) : b = sent[n]
  BY BytesAre DEF TypeInv, TypeOK
<1>2. sent[n].n = n
  BY DEF PeerInv
<1> QED BY <1>1, <1>2

\* Nothing has been sent.
LEMMA InitSent == Init => PeerInv /\ SentInv /\ ReaderInv /\ LinesInv
<1> SUFFICES ASSUME Init PROVE PeerInv /\ SentInv /\ ReaderInv /\ LinesInv
  OBVIOUS
<1>1. say = <<>> /\ sent = <<>> /\ Len(sent) = 0 /\ Len(say) = 0
  BY DEF Init
<1>2. PeerInv
  BY <1>1 DEF PeerInv, Ended
<1>3. SentInv
  <2>1. LapStart = 0
    BY <1>1 DEF Init, LapStart
  <2>2. Got = {}
    <3>1. /\ dropped = {} /\ Pieces = <<<<>>, <<>>>> \o <<>>
          /\ <<>> \in Seq(Bytes) /\ <<>> \in Seq(Seq(Bytes))
      BY DEF Init, Pieces
    <3>2. AllIn(Pieces) = ToSet(<<>>) \cup ToSet(<<>>) \cup AllIn(<<>>)
      BY <3>1, GotAre
    <3>3. \A i : i \notin DOMAIN <<>>
      OBVIOUS
    <3>4. ToSet(<<>>) = {} /\ AllIn(<<>>) = {}
      BY <3>3 DEF ToSet, AllIn
    <3> QED BY <3>1, <3>2, <3>4 DEF Got
  <2> QED BY <2>1, <2>2 DEF Init, SentInv
<1>4. Ends = {0}
  <2>1. Len(Delimiter) \in Nat \ {0}
    BY EmptySeq, ReaderAssumption
  <2> QED BY <1>1, <2>1 DEF Ends
<1>5. ReaderInv
  <2>1. fed = <<>> /\ reader = EmptyReader /\ Latest = 0
    BY DEF Init, Latest
  <2>2. Cut(sent, 0, 0) = <<>>
    <3>1. \A m \in Int : m <= 0 => SubSeq(<<>>, 1, m) = <<>>
      OBVIOUS
    <3>2. 0 + (IF 0 - 0 < LineSize THEN 0 - 0 ELSE LineSize) = 0
      BY ReaderAssumption
    <3>3. SubSeq(<<>>, 1, 0) = <<>>
      BY <3>1
    <3> QED BY <1>1, <3>2, <3>3 DEF Cut
  <2>3. ReaderOf(sent, 0, 0, 0) = EmptyReader
    <3>1. ~(0 - 0 > LineSize)
      BY ReaderAssumption
    <3>2. (0 - 0 > LineSize) = FALSE
      BY <3>1
    <3> QED BY <2>2, <3>2 DEF ReaderOf, EmptyReader
  <2>4. ~(0 < 0)
    OBVIOUS
  <2> QED BY <1>4, <2>1, <2>3, <2>4 DEF ReaderInv
<1>6. LinesInv
  BY <1>4 DEF LinesInv
<1> QED BY <1>2, <1>3, <1>5, <1>6

\* A byte the DMA writes was sent; the lap goes on, or the next begins.
LEMMA ByteKeepsSent ==
    ASSUME OrderInv, SentInv, Byte
    PROVE  SentInv'
<1>1. PICK b : sent' = Append(sent, b) /\ Write(b)
  <2>1. PICK message \in IF say # <<>> THEN {say}
                         ELSE {m \o Delimiter : m \in Messages} :
           LET b == [n |-> Len(sent) + 1, c |-> Head(message)]
           IN  sent' = Append(sent, b) /\ Write(b)
    BY DEF Byte
  <2> QED BY <2>1
<1>2. TypeInv /\ TypeInv'
  BY ByteTypes DEF OrderInv
<1>3. /\ Half \in Nat \ {0} /\ RingSize = 2 * Half
      /\ pos \in 0..(RingSize - 1) /\ offset \in 0..RingSize
      /\ Len(sent) \in Nat /\ irq \subseteq {"half", "full", "idle"}
      /\ ring \in [0..(RingSize - 1) -> Bytes]
  BY <1>2, RingFacts
<1>4. /\ Len(sent') = Len(sent) + 1 /\ sent'[Len(sent) + 1] = b
      /\ \A n \in 1..Len(sent) : sent'[n] = sent[n]
  BY <1>1, <1>2, <1>3 DEF TypeInv, TypeOK
<1>5. b \in ToSet(sent') /\ ToSet(sent) \subseteq ToSet(sent')
  <2>1. /\ ToSet(sent) = {sent[n] : n \in 1..Len(sent)}
        /\ ToSet(sent') = {sent'[n] : n \in 1..Len(sent')}
    BY <1>2, BytesAre DEF TypeInv, TypeOK
  <2>2. Len(sent) + 1 \in 1..Len(sent')
        /\ \A n \in 1..Len(sent) : n \in 1..Len(sent')
    BY <1>3, <1>4
  <2> QED BY <1>4, <2>1, <2>2
<1>6. \A i \in 0..(RingSize - 1) :
         ring'[i] = NoByte \/ ring'[i] \in ToSet(sent')
  <2>1. ring' = [ring EXCEPT ![pos] = b]
    BY <1>1 DEF Write
  <2>2. \A i \in 0..(RingSize - 1) :
           ring'[i] = b \/ ring'[i] = ring[i]
    BY <1>3, <2>1
  <2> QED BY <1>5, <2>2 DEF SentInv
<1>7. Got' = Got
  BY DEF Byte, taskVars, Got, Pieces
<1>8. LapStart' = LapStart
  <2> DEFINE next == pos + 1
  <2>1. /\ next \in {Half, RingSize} => "half" \notin irq /\ "full" \notin irq
        /\ irq' = irq \cup (IF next = Half THEN {"half"}
                            ELSE IF next = RingSize THEN {"full"} ELSE {})
    BY <1>1 DEF Write
  <2>2. pos' = IF next = RingSize THEN 0 ELSE next
    <3>1. pos' = next % RingSize
      BY <1>1 DEF Write
    <3>2. RingSize \in Nat \ {0} /\ next \in 1..RingSize
      BY <1>3
    <3> HIDE DEF next
    <3> QED BY <3>1, <3>2, PlacesWrap
  <2>3. CASE next = RingSize
    <3>1. "full" \in irq' /\ "full" \notin irq /\ pos' = 0
      BY <1>3, <2>1, <2>2, <2>3
    <3> QED BY <1>3, <1>4, <2>3, <3>1 DEF LapStart
  <2>4. CASE next # RingSize
    <3>1. pos' = pos + 1 /\ ("full" \in irq' <=> "full" \in irq)
      BY <2>1, <2>2, <2>4
    <3>2. CASE "full" \in irq
      <4>1. "full" \in irq'
        BY <3>1, <3>2
      <4> QED BY <1>3, <1>4, <3>1, <3>2, <4>1 DEF LapStart
    <3>3. CASE "full" \notin irq
      <4>1. "full" \notin irq'
        BY <3>1, <3>3
      <4> QED BY <1>3, <1>4, <3>1, <3>3, <4>1 DEF LapStart
    <3> QED BY <3>2, <3>3
  <2> QED BY <2>3, <2>4
<1> QED BY <1>5, <1>6, <1>7, <1>8 DEF SentInv

\* An event reads what was sent: what it reads has a number.
LEMMA EventKeepsSent ==
    ASSUME OrderInv, SentInv, UNCHANGED <<sent, pos, ring, fed, chunk>>,
           "half" \notin irq', "full" \notin irq', RxEvent(NextEvent)
    PROVE  SentInv'
<1>1. /\ Half \in Nat \ {0} /\ RingSize = 2 * Half
      /\ pos \in 0..(RingSize - 1) /\ offset \in 0..RingSize
      /\ Len(sent) \in Nat /\ irq \subseteq {"half", "full", "idle"}
  BY RingFacts DEF OrderInv
<1>2. NextEvent \in 0..RingSize
  BY <1>1 DEF NextEvent
<1>3. First(NextEvent) \in 0..NextEvent
  BY <1>1, <1>2 DEF First
<1>4. LapStart \in Int /\ LapStart >= 0
  BY <1>1 DEF LapStart, SentInv
<1>5. LapStart' >= 0
  <2>1. LapStart' = Len(sent) - pos /\ LapStart <= Len(sent) - pos
    BY <1>1 DEF LapStart
  <2> QED BY <1>1, <1>4, <2>1
<1>6. ASSUME NEW i \in First(NextEvent)..(NextEvent - 1)
      PROVE  ring[i] \in ToSet(sent)
  <2>1. ring[i].n = LapStart + i + 1
    BY EventReads
  <2>2. i \in 0..(RingSize - 1)
    BY <1>1, <1>2, <1>3
  <2>3. ring[i].n # 0
    BY <1>4, <2>1, <2>2
  <2> QED BY <2>2, <2>3 DEF SentInv, NoByte
<1>7. Got' = Got \cup {ring[i] : i \in First(NextEvent)..(NextEvent - 1)}
  <2>1. TypeOK /\ UNCHANGED <<fed, chunk, ring>>
    BY DEF OrderInv, TypeInv
  <2> QED BY <1>2, <2>1, EventGets
<1>8. Got' \subseteq ToSet(sent)
  BY <1>6, <1>7 DEF SentInv
<1> QED BY <1>5, <1>8 DEF SentInv

\* The events are those that are due, or that of a line that fell idle.
LEMMA InterruptKeepsSent ==
    ASSUME OrderInv, SentInv, Interrupt
    PROVE  SentInv'
<1>1. UNCHANGED <<sent, pos, ring, fed, chunk>>
  BY DEF Interrupt, HalfEvent, FullEvent, IdleEvent, peerVars, taskVars
<1>2. CASE HalfEvent
  <2>1. /\ "full" \notin irq' /\ "half" \notin irq' /\ NextEvent = Half
        /\ RxEvent(Half)
    BY <1>2 DEF HalfEvent, OrderInv, PlaceInv, NextEvent
  <2> QED BY <1>1, <2>1, EventKeepsSent
<1>3. CASE FullEvent
  <2>1. /\ "full" \notin irq' /\ "half" \notin irq' /\ NextEvent = RingSize
        /\ RxEvent(RingSize)
    BY <1>3 DEF FullEvent, OrderInv, PlaceInv, NextEvent
  <2> QED BY <1>1, <2>1, EventKeepsSent
<1>4. CASE IdleEvent
  <2>1. /\ "full" \notin irq' /\ "half" \notin irq' /\ NextEvent = pos
        /\ "full" \notin irq /\ "half" \notin irq
    BY <1>4 DEF IdleEvent, NextEvent
  <2>2. CASE pos = 0
    <3>1. UNCHANGED <<offset, queue, dropped>>
      BY <1>4, <2>2 DEF IdleEvent
    <3>2. LapStart' = LapStart
      BY <1>1, <2>1 DEF LapStart
    <3>3. Got' = Got
      BY <1>1, <3>1 DEF Got, Pieces
    <3> QED BY <1>1, <3>2, <3>3 DEF SentInv
  <2>3. CASE pos # 0
    <3>1. RxEvent(pos)
      BY <1>4, <2>3 DEF IdleEvent
    <3> QED BY <1>1, <2>1, <3>1, EventKeepsSent
  <2> QED BY <2>2, <2>3
<1> QED BY <1>2, <1>3, <1>4 DEF Interrupt

\* Every step.
LEMMA NextSent == OrderInv /\ SentInv /\ [Next]_vars => SentInv'
<1> SUFFICES ASSUME OrderInv, SentInv, [Next]_vars PROVE SentInv'
  OBVIOUS
<1>1. CASE ErrorEvent
  <2>1. /\ pos' = 0 /\ irq' = {}
        /\ UNCHANGED <<sent, ring, queue, chunk, fed, dropped>>
    BY <1>1 DEF ErrorEvent, peerVars, taskVars
  <2>2. LapStart' = Len(sent) /\ Len(sent) \in Nat
    BY <2>1, RingFacts DEF LapStart, OrderInv
  <2>3. Got' = Got
    BY <2>1 DEF Got, Pieces
  <2> QED BY <2>1, <2>2, <2>3 DEF SentInv
<1>2. CASE Task
  <2>1. UNCHANGED <<sent, ring, pos, irq>>
    BY <1>2 DEF Task, ReceiveChunk, ReadByte, peerVars, dmaVars
  <2>2. Got' = Got
    BY <1>2, TaskKeepsGot DEF OrderInv, TypeInv
  <2>3. LapStart' = LapStart
    BY <2>1 DEF LapStart
  <2> QED BY <2>1, <2>2, <2>3 DEF SentInv
<1>3. CASE FallIdle \/ ReceiveLine \/ UNCHANGED vars
  <2>1. /\ UNCHANGED <<sent, ring, pos, queue, chunk, fed, dropped>>
        /\ ("full" \in irq' <=> "full" \in irq)
    BY <1>3 DEF FallIdle, ReceiveLine, vars, peerVars, dmaVars, taskVars
  <2>2. Got' = Got
    BY <2>1 DEF Got, Pieces
  <2>3. LapStart' = LapStart
    BY <2>1 DEF LapStart
  <2> QED BY <2>1, <2>2, <2>3 DEF SentInv
<1> QED BY <1>1, <1>2, <1>3, ByteKeepsSent, InterruptKeepsSent DEF Next

\* What is cut off a sequence.
LEMMA CutIs ==
    ASSUME NEW s \in Seq(Bytes), NEW n \in 0..Len(s), NEW begin \in 0..n
    PROVE  /\ Cut(s, begin, n) \in Seq(Bytes)
           /\ Len(Cut(s, begin, n)) =
                 IF n - begin < LineSize THEN n - begin ELSE LineSize
<1>1. Len(s) \in Nat /\ n \in Nat /\ begin \in Nat /\ begin <= n
  <2>1. Len(s) \in Nat
    BY LenProperties
  <2> QED BY <2>1
<1>2. PICK size \in Nat :
         size = IF n - begin < LineSize THEN n - begin ELSE LineSize
  <2>1. (IF n - begin < LineSize THEN n - begin ELSE LineSize) \in Nat
    BY <1>1, ReaderAssumption
  <2> QED BY <2>1
<1>3. begin + size <= n
  BY <1>1, <1>2, ReaderAssumption
<1>4. \A i \in (begin + 1)..(begin + size) : s[i] \in Bytes
  <2> SUFFICES ASSUME NEW i \in (begin + 1)..(begin + size)
               PROVE  s[i] \in Bytes
    OBVIOUS
  <2>1. i \in 1..Len(s)
    BY <1>1, <1>3
  <2> QED BY <2>1, BytesAre
<1>5. PICK first \in Int, last \in Int :
         first = begin + 1 /\ last = begin + size
  BY <1>1
<1>6. /\ SubSeq(s, first, last) \in Seq(Bytes)
      /\ Len(SubSeq(s, first, last)) =
            IF first <= last THEN last - first + 1 ELSE 0
  BY <1>4, <1>5, SubSeqProperties
<1>7. (IF first <= last THEN last - first + 1 ELSE 0) = size
  BY <1>1, <1>5
<1>8. Cut(s, begin, n) = SubSeq(s, first, last)
  BY <1>2, <1>5 DEF Cut
<1> QED BY <1>2, <1>6, <1>7, <1>8

\* The next byte is added, if the line buffer has room for it.
LEMMA CutGrows ==
    ASSUME NEW s \in Seq(Bytes), NEW n \in 1..Len(s), NEW begin \in 0..(n - 1)
    PROVE  /\ n - 1 - begin < LineSize =>
                 Cut(s, begin, n) = Append(Cut(s, begin, n - 1), s[n])
           /\ ~(n - 1 - begin < LineSize) =>
                 Cut(s, begin, n) = Cut(s, begin, n - 1)
<1>1. Len(s) \in Nat
  BY LenProperties
<1>2. PICK m \in Nat : m = n - 1
  BY <1>1
<1>3. begin \in Nat /\ begin <= m /\ n = m + 1 /\ n <= Len(s)
  BY <1>1, <1>2
<1>4. ASSUME m - begin < LineSize
      PROVE  Cut(s, begin, n) = Append(Cut(s, begin, m), s[n])
  <2>1. Cut(s, begin, m) = SubSeq(s, begin + 1, m)
    <3>1. begin + (IF m - begin < LineSize THEN m - begin ELSE LineSize) = m
      BY <1>3, <1>4
    <3> QED BY <3>1 DEF Cut
  <2>2. Cut(s, begin, n) = SubSeq(s, begin + 1, n)
    <3>1. begin + (IF n - begin < LineSize THEN n - begin ELSE LineSize) = n
      BY <1>3, <1>4, ReaderAssumption
    <3> QED BY <3>1 DEF Cut
  <2>3. SubSeq(s, begin + 1, n) = SubSeq(s, begin + 1, n - 1) \o <<s[n]>>
    <3>1. PICK first : first = begin + 1
      OBVIOUS
    <3>2. first \in 1..Len(s) /\ n \in first..Len(s)
      BY <1>1, <1>3, <3>1
    <3> QED BY <3>1, <3>2, SubSeqRecursiveSecond
  <2>4. SubSeq(s, begin + 1, m) \in Seq(Bytes) /\ s[n] \in Bytes
    <3>1. Cut(s, begin, m) \in Seq(Bytes)
      <4>1. m \in 0..Len(s) /\ begin \in 0..m
        BY <1>1, <1>3
      <4> QED BY <4>1, CutIs
    <3> QED BY <2>1, <3>1, BytesAre
  <2>5. SubSeq(s, begin + 1, m) \o <<s[n]>> =
           Append(SubSeq(s, begin + 1, m), s[n])
    BY <2>4, AppendIsConcat
  <2> QED BY <1>2, <2>1, <2>2, <2>3, <2>5
<1>5. ASSUME ~(m - begin < LineSize)
      PROVE  Cut(s, begin, n) = Cut(s, begin, m)
  <2>1. ~(n - begin < LineSize)
    BY <1>3, <1>5, ReaderAssumption
  <2> QED BY <1>5, <2>1 DEF Cut
<1> QED BY <1>2, <1>4, <1>5

\* What is sent later is not in it.
LEMMA CutStays ==
    ASSUME NEW s \in Seq(Bytes), NEW b \in Bytes, NEW n \in 0..Len(s),
           NEW begin \in 0..n
    PROVE  Cut(Append(s, b), begin, n) = Cut(s, begin, n)
<1>1. Len(s) \in Nat
  BY LenProperties
<1>2. PICK last \in Nat :
         last = begin + (IF n - begin < LineSize THEN n - begin ELSE LineSize)
  BY <1>1, ReaderAssumption
<1>3. last <= n
  BY <1>1, <1>2, ReaderAssumption
<1>4. PICK first \in Nat : first = begin + 1
  BY <1>1
<1>5. SubSeq(Append(s, b), first, last) = SubSeq(s, first, last)
  <2>1. CASE last < first
    BY <2>1, SubSeqEmpty
  <2>2. CASE first <= last
    <3>1. Append(s, b) = s \o <<b>> /\ <<b>> \in Seq(Bytes)
      BY AppendIsConcat
    <3>2. first \in 1..Len(s) /\ last \in 1..Len(s)
      BY <1>1, <1>3, <1>4, <2>2
    <3> QED BY <3>1, <3>2, SubSeqOfConcat1
  <2>3. last < first \/ first <= last
    OBVIOUS
  <2> QED BY <2>1, <2>2, <2>3, Zenon
<1> QED BY <1>2, <1>4, <1>5 DEF Cut

\* The reader at the start of a line.
LEMMA ReaderStarts ==
    ASSUME NEW s \in Seq(Bytes), NEW n \in 0..Len(s)
    PROVE  ReaderOf(s, n, n, 0) = EmptyReader
<1>1. Len(s) \in Nat
  BY LenProperties
<1>2. Cut(s, n, n) = <<>>
  <2>1. n \in 0..n
    BY <1>1
  <2>2. /\ Cut(s, n, n) \in Seq(Bytes)
        /\ Len(Cut(s, n, n)) = IF n - n < LineSize THEN n - n ELSE LineSize
    BY <2>1, CutIs
  <2>3. Len(Cut(s, n, n)) = 0
    BY <1>1, <2>2, ReaderAssumption
  <2> QED BY <2>2, <2>3, EmptySeq
<1>3. (n - n > LineSize) = FALSE
  BY <1>1, ReaderAssumption
<1> QED BY <1>2, <1>3 DEF ReaderOf, EmptyReader

\* A byte that is no delimiter goes on with the line.
LEMMA ReaderGoesOn ==
    ASSUME Len(Delimiter) = 2, NEW s \in Seq(Bytes), NEW n \in 1..Len(s),
           NEW begin \in 0..(n - 1)
    PROVE  /\ s[n].c # Delimiter[1] =>
                 NextReader(ReaderOf(s, begin, n - 1, 0), s[n]) =
                    ReaderOf(s, begin, n, 0)
           /\ s[n].c = Delimiter[1] =>
                 NextReader(ReaderOf(s, begin, n - 1, 0), s[n]) =
                    ReaderOf(s, begin, n - 1, 1)
<1>1. Len(s) \in Nat /\ n \in Nat /\ begin \in Nat /\ begin <= n - 1
  BY LenProperties
<1>2. PICK t : t = Cut(s, begin, n - 1)
  OBVIOUS
<1>3. PICK o : o = (n - 1 - begin > LineSize)
  OBVIOUS
<1>4. PICK b : b = s[n]
  OBVIOUS
<1>5. PICK r : r = [matched |-> 0, text |-> t, overflown |-> o]
  OBVIOUS
<1>6. r = ReaderOf(s, begin, n - 1, 0)
  BY <1>2, <1>3, <1>5 DEF ReaderOf
<1>7. Len(t) = IF n - 1 - begin < LineSize THEN n - 1 - begin ELSE LineSize
  <2>1. PICK m \in Nat : m = n - 1
    BY <1>1
  <2>2. m \in 0..Len(s) /\ begin \in 0..m
    BY <1>1, <2>1
  <2>3. Len(Cut(s, begin, m)) =
           IF m - begin < LineSize THEN m - begin ELSE LineSize
    BY <2>2, CutIs
  <2> QED BY <1>2, <2>1, <2>3
<1>8. Delimiter[r.matched + 1] = Delimiter[1]
  BY <1>5
<1>9. ASSUME b.c # Delimiter[1]
      PROVE  NextReader(r, b) = ReaderOf(s, begin, n, 0)
  <2>1. CASE n - 1 - begin < LineSize
    <3>1. ~(Len(r.text) >= LineSize)
      BY <1>1, <1>5, <1>7, <2>1, ReaderAssumption
    <3>2. AddByte(r, b) = [r EXCEPT !.text = Append(@, b)]
      BY <1>8, <1>9, <3>1 DEF AddByte
    <3>3. AddByte(r, b) = [matched |-> 0, text |-> Append(t, b),
                           overflown |-> o]
      BY <1>5, <3>2
    <3>4. NextReader(r, b) = [matched |-> 0, text |-> Append(t, b),
                              overflown |-> o]
      BY <3>3 DEF NextReader, Ready
    <3>5. Append(t, b) = Cut(s, begin, n)
      BY <1>2, <1>4, <2>1, CutGrows
    <3>6. o = (n - begin > LineSize)
      BY <1>1, <1>3, <2>1, ReaderAssumption
    <3> QED BY <3>4, <3>5, <3>6 DEF ReaderOf
  <2>2. CASE ~(n - 1 - begin < LineSize)
    <3>1. Len(r.text) >= LineSize
      BY <1>1, <1>5, <1>7, <2>2, ReaderAssumption
    <3>2. AddByte(r, b) = [r EXCEPT !.overflown = TRUE]
      BY <1>8, <1>9, <3>1 DEF AddByte
    <3>3. AddByte(r, b) = [matched |-> 0, text |-> t, overflown |-> TRUE]
      BY <1>5, <3>2
    <3>4. NextReader(r, b) = [matched |-> 0, text |-> t, overflown |-> TRUE]
      BY <3>3 DEF NextReader, Ready
    <3>5. t = Cut(s, begin, n)
      BY <1>2, <2>2, CutGrows
    <3>6. (n - begin > LineSize) = TRUE
      BY <1>1, <2>2, ReaderAssumption
    <3> QED BY <3>4, <3>5, <3>6 DEF ReaderOf
  <2> QED BY <2>1, <2>2
<1>10. ASSUME b.c = Delimiter[1]
       PROVE  NextReader(r, b) = ReaderOf(s, begin, n - 1, 1)
  <2>1. AddByte(r, b) = [r EXCEPT !.matched = @ + 1]
    BY <1>8, <1>10 DEF AddByte
  <2>2. AddByte(r, b) = [matched |-> 1, text |-> t, overflown |-> o]
    BY <1>5, <2>1
  <2>3. NextReader(r, b) = [matched |-> 1, text |-> t, overflown |-> o]
    BY <2>2 DEF NextReader, Ready
  <2> QED BY <1>2, <1>3, <2>3 DEF ReaderOf
<1> QED BY <1>4, <1>6, <1>9, <1>10

\* The first character of a delimiter is matched, and the second ends a line.
LEMMA ReaderMatches ==
    ASSUME Len(Delimiter) = 2, Delimiter[1] # Delimiter[2], NEW B,
           NEW r \in Readers(B), NEW b
    PROVE  /\ b.c = Delimiter[1] => NextReader(r, b).matched = 1
           /\ b.c = Delimiter[2] /\ r.matched = 1 =>
                 /\ NextReader(r, b) = EmptyReader
                 /\ LinesOut(r, b) =
                       <<[text |-> r.text, overflown |-> r.overflown]>>
<1>1. r.matched \in {0, 1}
  BY DEF Readers
<1>2. r \in [matched : 0..1, text : Seq(B), overflown : BOOLEAN]
  BY DEF Readers
<1>3. ASSUME b.c = Delimiter[1]
      PROVE  NextReader(r, b).matched = 1
  <2>1. CASE r.matched = 0
    <3>1. AddByte(r, b) = [r EXCEPT !.matched = @ + 1]
      BY <1>3, <2>1 DEF AddByte
    <3> QED BY <1>2, <2>1, <3>1 DEF NextReader, Ready
  <2>2. CASE r.matched = 1
    <3>1. AddByte(r, b) = [r EXCEPT !.overflown = TRUE] \/
          AddByte(r, b) = [r EXCEPT !.text = Append(@, b)]
      BY <1>3, <2>2 DEF AddByte
    <3> QED BY <1>2, <2>2, <3>1 DEF NextReader, Ready
  <2> QED BY <1>1, <2>1, <2>2
<1>4. ASSUME b.c = Delimiter[2], r.matched = 1
      PROVE  /\ NextReader(r, b) = EmptyReader
             /\ LinesOut(r, b) =
                   <<[text |-> r.text, overflown |-> r.overflown]>>
  <2>1. AddByte(r, b) = [r EXCEPT !.matched = @ + 1]
    BY <1>4 DEF AddByte
  <2>2. /\ AddByte(r, b).matched = 2 /\ AddByte(r, b).text = r.text
        /\ AddByte(r, b).overflown = r.overflown
    BY <1>2, <1>4, <2>1
  <2> QED BY <2>2 DEF NextReader, LinesOut, Ready
<1> QED BY <1>3, <1>4

\* What has been read was sent, in this order: the last of it is the latest.
LEMMA ReadAre ==
    ASSUME OrderInv, PeerInv, SentInv
    PROVE  /\ Latest \in 0..Len(sent) /\ Read \subseteq 1..Latest
           /\ Latest # 0 => fed # <<>> /\ fed[Len(fed)] = sent[Latest]
           /\ \A b \in ToSet(fed) \cup ToSet(chunk) : b \in ToSet(sent)
<1>1. /\ fed \in Seq(Bytes) /\ chunk \in Seq(Bytes)
      /\ queue \in Seq(Seq(Bytes)) /\ sent \in Seq(Bytes) /\ TypeInv
  BY DEF OrderInv, TypeInv, TypeOK
<1>2. \A b \in ToSet(fed) \cup ToSet(chunk) : b \in ToSet(sent)
  <2>1. AllIn(Pieces) = ToSet(fed) \cup ToSet(chunk) \cup AllIn(queue)
    BY <1>1, GotAre DEF Pieces
  <2> QED BY <2>1 DEF SentInv, Got
<1>3. PICK l \in Nat : l = Len(fed)
  BY <1>1, LenProperties
<1>4. ToSet(fed) = {fed[i] : i \in 1..l}
  BY <1>1, <1>3, BytesAre
<1>5. Len(sent) \in Nat
  BY <1>1, LenProperties
<1>6. CASE l = 0
  <2>1. fed = <<>>
    BY <1>1, <1>3, <1>6, EmptySeq
  <2>2. Latest = 0
    BY <2>1 DEF Latest
  <2>3. ToSet(fed) = {}
    BY <1>4, <1>6
  <2>4. Read = {}
    BY <2>3 DEF Read
  <2> QED BY <1>2, <1>5, <2>2, <2>4
<1>7. CASE l # 0
  <2>1. fed # <<>> /\ Latest = fed[l].n
    BY <1>1, <1>3, <1>7, EmptySeq DEF Latest
  <2>2. fed[l] \in ToSet(fed)
    BY <1>4, <1>7
  <2>3. Latest \in 1..Len(sent) /\ sent[Latest] = fed[l]
    BY <1>1, <1>2, <2>1, <2>2, SentAreNumbered
  <2>4. ASSUME NEW i \in 1..l PROVE fed[i].n \in 1..Latest
    <3>1. fed[i] \in ToSet(fed)
      BY <1>4
    <3>2. fed[i].n \in 1..Len(sent)
      BY <1>1, <1>2, <3>1, SentAreNumbered
    <3>3. i # l => fed[i].n < fed[l].n
      <4>1. 1 \in DOMAIN Pieces /\ Pieces[1] = fed
        BY <1>1, PiecesAre DEF Pieces
      <4>2. DOMAIN Pieces[1] = 1..l /\ i \in 1..l /\ l \in 1..l
        BY <1>1, <1>3, <1>7, <4>1, LenProperties
      <4>3. i # l => i < l
        OBVIOUS
      <4> QED BY <4>1, <4>2, <4>3 DEF OrderInv, InOrder
    <3> QED BY <1>5, <2>1, <2>3, <3>2, <3>3
  <2>5. Read \subseteq 1..Latest
    BY <1>4, <2>4 DEF Read
  <2> QED BY <1>2, <1>3, <1>5, <2>1, <2>3, <2>5
<1> QED BY <1>6, <1>7

\* The task reads a byte that was sent after all it has read.
LEMMA ReadsNext ==
    ASSUME OrderInv, PeerInv, SentInv, ReadByte
    PROVE  \E n \in 1..Len(sent) :
              /\ Latest < n /\ Latest' = n /\ Read' = Read \cup {n}
              /\ Head(chunk) = sent[n]
              /\ fed' # <<>> /\ fed'[Len(fed')] = sent[n]
<1>1. /\ fed \in Seq(Bytes) /\ chunk \in Seq(Bytes)
      /\ queue \in Seq(Seq(Bytes)) /\ sent \in Seq(Bytes) /\ TypeInv
  BY DEF OrderInv, TypeInv, TypeOK
<1>2. chunk # <<>> /\ fed' = Append(fed, Head(chunk))
  BY DEF ReadByte
<1>3. PICK b \in Bytes : b = Head(chunk)
  BY <1>1, <1>2, HeadTailProperties
<1>4. b \in ToSet(sent)
  <2>1. b \in ToSet(chunk)
    BY <1>1, <1>2, <1>3, ElementsAre
  <2> QED BY <2>1, ReadAre
<1>5. PICK n \in 1..Len(sent) : n = b.n /\ sent[n] = b
  BY <1>1, <1>4, SentAreNumbered
<1>6. PICK l \in Nat : l = Len(fed)
  BY <1>1, LenProperties
<1>7. fed' # <<>> /\ Len(fed') = l + 1 /\ fed'[l + 1] = b
  BY <1>1, <1>2, <1>3, <1>6
<1>8. Latest' = n
  BY <1>5, <1>7 DEF Latest
<1>9. Read' = Read \cup {n}
  <2>1. ToSet(fed') = ToSet(fed) \cup {b}
    BY <1>1, <1>2, <1>3, ElementsAre
  <2> QED BY <1>5, <2>1 DEF Read
<1>10. Latest < n
  <2>1. CASE l = 0
    <3>1. fed = <<>>
      BY <1>1, <1>6, <2>1, EmptySeq
    <3> QED BY <3>1 DEF Latest
  <2>2. CASE l # 0
    <3>1. fed # <<>> /\ Latest = fed[l].n
      BY <1>1, <1>6, <2>2, EmptySeq DEF Latest
    <3>2. /\ 1 \in DOMAIN Pieces /\ Pieces[1] = fed
          /\ 2 \in DOMAIN Pieces /\ Pieces[2] = chunk
      BY <1>1, PiecesAre DEF Pieces
    <3>3. l \in DOMAIN fed /\ 1 \in DOMAIN chunk /\ chunk[1] = b
      <4>1. Len(chunk) \in Nat \ {0}
        BY <1>1, <1>2, EmptySeq
      <4>2. DOMAIN fed = 1..l /\ DOMAIN chunk = 1..Len(chunk)
        BY <1>1, <1>6, LenProperties
      <4>3. Head(chunk) = chunk[1]
        BY <1>1, <1>2
      <4> QED BY <1>3, <2>2, <4>1, <4>2, <4>3
    <3>4. fed[l].n < chunk[1].n
      BY <3>2, <3>3 DEF OrderInv, InOrder
    <3> QED BY <1>5, <3>1, <3>3, <3>4
  <2> QED BY <2>1, <2>2
<1> QED BY <1>3, <1>5, <1>7, <1>8, <1>9, <1>10

\* What is read of a message is as it was, whatever is sent behind it.
LEMMA ByteKeepsLines ==
    ASSUME CleanMessages, OrderInv, PeerInv, SentInv, ReaderInv, LinesInv, Byte
    PROVE  ReaderInv' /\ LinesInv'
<1>1. TypeInv /\ sent \in Seq(Bytes)
  BY DEF OrderInv, TypeInv, TypeOK
<1>2. PICK k \in Nat : k = Len(sent)
  BY <1>1, LenProperties
<1>3. PICK b \in Bytes : sent' = Append(sent, b)
  <2>1. sent' \in Seq(Bytes)
    BY <1>1, ByteTypes DEF TypeInv, TypeOK
  <2>2. PICK b : sent' = Append(sent, b)
    BY DEF Byte
  <2>3. Len(sent') = k + 1 /\ sent'[k + 1] = b
    BY <1>1, <1>2, <2>2
  <2>4. k + 1 \in 1..Len(sent')
    BY <2>3
  <2>5. b \in Bytes
    BY <2>1, <2>3, <2>4, BytesAre
  <2> QED BY <2>2, <2>5
<1>4. /\ Len(sent') = k + 1
      /\ \A n \in 1..k : sent'[n] = sent[n]
  BY <1>1, <1>2, <1>3
<1>5. UNCHANGED <<fed, reader, lines>> /\ Read' = Read /\ Latest' = Latest
  BY DEF Byte, taskVars, Read, Latest
<1>6. Latest \in 0..k /\ Read \subseteq 1..Latest
  BY <1>2, ReadAre
<1>7. \A n \in 0..k : n \in Ends' <=> n \in Ends
  <2>1. Ends = EndsOf(sent) /\ Ends' = EndsOf(sent')
    BY EndsAre
  <2>2. \A n \in 2..k : sent'[n - 1] = sent[n - 1] /\ sent'[n] = sent[n]
    BY <1>4
  <2>3. \A n \in 0..k : n \in 2..k \/ (n \notin 2..k /\ n \notin 2..(k + 1))
    OBVIOUS
  <2>4. \A n \in 2..k : n \in 2..(k + 1)
    OBVIOUS
  <2> QED BY <1>2, <1>4, <2>1, <2>2, <2>3, <2>4, Zenon DEF EndsOf
<1>8. Ends \subseteq Nat /\ Ends' \subseteq Nat
  BY EndsAre DEF EndsOf
<1>9. ASSUME NEW begin \in Ends', NEW n \in 0..k, Intact(begin, n)'
      PROVE  begin \in Ends /\ begin \in 0..n /\ Intact(begin, n)
  <2>1. /\ begin <= n /\ Start(begin)..n \subseteq Read
        /\ ~\E m \in Ends' : begin < m /\ m < n
    BY <1>5, <1>9 DEF Intact
  <2>2. begin \in 0..n /\ begin \in 0..k
    BY <1>8, <2>1
  <2>3. \A m \in Ends : m < n => m \in Ends'
    <3> SUFFICES ASSUME NEW m \in Ends, m < n PROVE m \in Ends'
      OBVIOUS
    <3>1. m \in 0..k
      BY <1>8
    <3> QED BY <1>7, <3>1
  <2> QED BY <1>7, <2>1, <2>2, <2>3 DEF Intact
<1>10. ASSUME NEW n \in 0..k, NEW begin \in 0..n
       PROVE  Cut(sent', begin, n) = Cut(sent, begin, n)
  BY <1>1, <1>2, <1>3, CutStays
<1>11. ReaderInv'
  <2> SUFFICES ASSUME NEW begin \in Ends', Intact(begin, Latest)',
                      begin = Latest \/ Latest \notin Ends'
               PROVE  IF begin < Latest /\ sent'[Latest].c = Delimiter[1]
                      THEN reader = ReaderOf(sent', begin, Latest - 1, 1)
                      ELSE reader = ReaderOf(sent', begin, Latest, 0)
    BY <1>5 DEF ReaderInv
  <2>1. begin \in Ends /\ begin \in 0..Latest /\ Intact(begin, Latest)
    <3>1. PICK last \in 0..k : last = Latest
      BY <1>6
    <3>2. Intact(begin, last)'
      BY <1>5, <3>1 DEF Intact
    <3> QED BY <1>9, <3>1, <3>2
  <2>2. begin = Latest \/ Latest \notin Ends
    BY <1>6, <1>7
  <2>3. IF begin < Latest /\ sent[Latest].c = Delimiter[1]
        THEN reader = ReaderOf(sent, begin, Latest - 1, 1)
        ELSE reader = ReaderOf(sent, begin, Latest, 0)
    BY <2>1, <2>2 DEF ReaderInv
  <2>4. begin < Latest => sent'[Latest] = sent[Latest]
    BY <1>4, <1>6, <2>1
  <2>5. ReaderOf(sent', begin, Latest, 0) = ReaderOf(sent, begin, Latest, 0)
    BY <1>6, <1>10, <2>1 DEF ReaderOf
  <2>6. begin < Latest => ReaderOf(sent', begin, Latest - 1, 1) =
                             ReaderOf(sent, begin, Latest - 1, 1)
    <3> SUFFICES ASSUME begin < Latest
                 PROVE  ReaderOf(sent', begin, Latest - 1, 1) =
                           ReaderOf(sent, begin, Latest - 1, 1)
      OBVIOUS
    <3>1. Latest - 1 \in 0..k /\ begin \in 0..(Latest - 1)
      BY <1>6, <2>1
    <3> QED BY <1>10, <3>1 DEF ReaderOf
  <2> QED BY <2>3, <2>4, <2>5, <2>6, Zenon
<1>12. LinesInv'
  <2> SUFFICES ASSUME NEW begin \in Ends', NEW to \in Ends', begin < to,
                      Intact(begin, to)'
               PROVE  \E i \in DOMAIN lines :
                         lines[i] = LineOf(sent', begin, to - 2)
    BY <1>5 DEF LinesInv
  <2>1. to \in 0..k
    <3>1. to \in Read
      <4>1. Start(begin)..to \subseteq Read
        BY <1>5 DEF Intact
      <4>2. to \in Start(begin)..to
        BY <1>8 DEF Start
      <4> QED BY <4>1, <4>2
    <3> QED BY <1>6, <3>1
  <2>2. begin \in Ends /\ to \in Ends /\ Intact(begin, to) /\ begin \in 0..to
    BY <1>7, <1>9, <2>1
  <2>3. PICK i \in DOMAIN lines : lines[i] = LineOf(sent, begin, to - 2)
    BY <2>2 DEF LinesInv
  <2>4. to - 2 \in 0..k /\ begin \in 0..(to - 2)
    <3>1. /\ begin \in Nat /\ to \in Nat /\ begin <= to - 2
          /\ to <= Len(sent)
      BY <2>2, EndsApart
    <3> QED BY <1>2, <3>1
  <2>5. LineOf(sent', begin, to - 2) = LineOf(sent, begin, to - 2)
    BY <1>10, <2>4 DEF LineOf
  <2> QED BY <2>3, <2>5
<1> QED BY <1>11, <1>12

\* A byte of a message that is whole so far follows what has been read of it.
LEMMA ReadFollows ==
    ASSUME CleanMessages, OrderInv, PeerInv, SentInv, NEW begin \in Ends,
           NEW n \in 1..Len(sent), begin < n, Latest < n,
           Start(begin)..n \subseteq Read \cup {n},
           ~\E m \in Ends : begin < m /\ m < n
    PROVE  Latest = n - 1 /\ Intact(begin, n - 1)
<1>1. Latest \in Nat /\ Read \subseteq 1..Latest
  BY ReadAre
<1>2. Len(sent) \in Nat /\ n \in Nat \ {0}
  BY LenProperties DEF OrderInv, TypeInv, TypeOK
<1>3. begin \in Nat /\ begin # 1
  BY EndsAre DEF EndsOf
<1>4. Start(begin) \in Nat /\ Start(begin) <= n /\ 1 <= Start(begin)
  BY <1>2, <1>3 DEF Start
<1>5. n \notin Read
  BY <1>1, <1>2
<1>6. Start(begin)..(n - 1) \subseteq Read
  <2> SUFFICES ASSUME NEW i \in Start(begin)..(n - 1) PROVE i \in Read
    OBVIOUS
  <2>1. i \in Start(begin)..n /\ i # n
    BY <1>2, <1>4
  <2> QED BY <2>1
<1>7. Latest = n - 1
  <2>1. CASE Start(begin) <= n - 1
    <3>1. n - 1 \in Start(begin)..(n - 1)
      BY <1>2, <1>4, <2>1
    <3>2. n - 1 <= Latest
      BY <1>1, <1>6, <3>1
    <3> QED BY <1>1, <1>2, <3>2
  <2>2. CASE ~(Start(begin) <= n - 1)
    <3>1. n = 1
      BY <1>2, <1>3, <1>4, <2>2 DEF Start
    <3> QED BY <1>1, <3>1
  <2> QED BY <2>1, <2>2
<1>8. begin <= n - 1
  BY <1>2, <1>3
<1>9. ~\E m \in Ends : begin < m /\ m < n - 1
  <2>1. Ends \subseteq Nat
    BY EndsAre DEF EndsOf
  <2> QED BY <1>2, <2>1
<1> QED BY <1>6, <1>7, <1>8, <1>9 DEF Intact

\* With a byte more the reader has all that has been read, or a line.
LEMMA ReadKeepsLines ==
    ASSUME CleanMessages, OrderInv, PeerInv, SentInv, ReaderInv, LinesInv,
           ReadByte
    PROVE  ReaderInv' /\ LinesInv'
<1>1. /\ TypeInv /\ sent \in Seq(Bytes) /\ reader \in Readers(Bytes)
      /\ lines \in Seq(LinesOf(Bytes))
  BY DEF OrderInv, TypeInv, TypeOK, Readers, LinesOf
<1>2. PICK n \in 1..Len(sent) :
         /\ Latest < n /\ Latest' = n /\ Read' = Read \cup {n}
         /\ Head(chunk) = sent[n]
         /\ fed' # <<>> /\ fed'[Len(fed')] = sent[n]
  BY ReadsNext
<1>3. PICK b \in Bytes : b = sent[n]
  BY <1>1, BytesAre
<1>4. /\ sent' = sent /\ reader' = NextReader(reader, b)
      /\ lines' = lines \o LinesOut(reader, b)
  BY <1>2, <1>3 DEF ReadByte, peerVars
<1>5. Len(Delimiter) = 2 /\ Delimiter[1] # Delimiter[2]
  BY DEF CleanMessages
<1>6. Ends' = Ends /\ Ends = EndsOf(sent)
  BY <1>4, EndsAre
<1>7. Len(sent) \in Nat /\ n \in Nat \ {0} /\ Ends \subseteq Nat
  BY <1>1, <1>6, LenProperties DEF EndsOf
<1>8. /\ Latest \in 0..Len(sent) /\ Read \subseteq 1..Latest
      /\ Latest # 0 => fed # <<>> /\ fed[Len(fed)] = sent[Latest]
  BY ReadAre
\* A delimiter ends at n if its second character is there.
<1>9. b.c = Delimiter[2] => n \in Ends /\ n > 1 /\ sent[n - 1].c = Delimiter[1]
  <2> SUFFICES ASSUME b.c = Delimiter[2]
               PROVE  n \in Ends /\ n > 1 /\ sent[n - 1].c = Delimiter[1]
    OBVIOUS
  <2>1. n > 1 /\ sent[n - 1].c = Delimiter[1]
    BY <1>3 DEF PeerInv
  <2>2. n \in 2..Len(sent)
    BY <1>7, <2>1
  <2> QED BY <1>3, <1>6, <2>1, <2>2 DEF EndsOf
<1>10. n \in Ends => b.c = Delimiter[2] /\ n > 1 /\ sent[n - 1].c = Delimiter[1]
  BY <1>3, <1>6, <1>7 DEF EndsOf
\* Behind a delimiter's first character the reader has matched it.
<1>11. Latest # 0 /\ sent[Latest].c = Delimiter[1] => reader.matched = 1
  BY <1>8 DEF ReaderInv
<1>12. ASSUME NEW begin \in Ends, begin < n, n \notin Ends,
              Start(begin)..n \subseteq Read \cup {n},
              ~\E m \in Ends : begin < m /\ m < n
       PROVE  reader' = IF b.c = Delimiter[1]
                        THEN ReaderOf(sent, begin, n - 1, 1)
                        ELSE ReaderOf(sent, begin, n, 0)
  <2>1. Latest = n - 1 /\ Intact(begin, n - 1)
    BY <1>2, <1>12, ReadFollows
  <2>2. b.c # Delimiter[2]
    BY <1>9, <1>12
  <2>3. ~(begin < n - 1 /\ sent[n - 1].c = Delimiter[1])
    <3> SUFFICES ASSUME begin < n - 1, sent[n - 1].c = Delimiter[1]
                 PROVE  FALSE
      OBVIOUS
    <3>1. PICK p \in 1..Len(sent) : p = n - 1
      BY <1>7
    <3>2. p < Len(sent) /\ sent[p + 1] = b
      BY <1>3, <1>7, <3>1
    <3>3. sent[p].c = Delimiter[1]
      BY <3>1
    <3>4. \/ p < Len(sent) /\ sent[p + 1].c = Delimiter[2]
          \/ p = Len(sent) /\ Len(say) = 1
      BY <3>3 DEF PeerInv
    <3> QED BY <1>7, <2>2, <3>2, <3>4
  <2>4. begin = n - 1 \/ n - 1 \notin Ends
    <3>1. n - 1 < n
      BY <1>7
    <3>2. begin <= n - 1
      BY <1>7, <1>12
    <3> QED BY <1>7, <1>12, <3>1, <3>2
  <2>5. reader = ReaderOf(sent, begin, n - 1, 0)
    BY <2>1, <2>3, <2>4 DEF ReaderInv
  <2>6. begin \in 0..(n - 1)
    BY <1>7, <1>12
  <2> QED BY <1>1, <1>3, <1>4, <1>5, <2>5, <2>6, ReaderGoesOn
<1>13. ReaderInv'
  <2>1. b.c = Delimiter[1] => reader'.matched = 1
    BY <1>1, <1>4, <1>5, ReaderMatches
  <2>2. ASSUME NEW begin \in Ends, Intact(begin, n)',
               begin = n \/ n \notin Ends
        PROVE  IF begin < n /\ sent[n].c = Delimiter[1]
               THEN reader' = ReaderOf(sent, begin, n - 1, 1)
               ELSE reader' = ReaderOf(sent, begin, n, 0)
    <3>1. /\ begin <= n /\ Start(begin)..n \subseteq Read \cup {n}
          /\ ~\E m \in Ends : begin < m /\ m < n
      BY <1>2, <1>6, <2>2 DEF Intact
    <3>2. CASE begin = n
      <4>1. b.c = Delimiter[2] /\ n > 1 /\ sent[n - 1].c = Delimiter[1]
        BY <1>10, <3>2
      <4>2. Latest = n - 1
        <5>1. n - 1 \in Read \cup {n}
          <6>1. n - 1 \in Start(begin)..n
            BY <1>7, <3>2, <4>1 DEF Start
          <6> QED BY <3>1, <6>1
        <5>2. n - 1 \in Read
          BY <1>7, <5>1
        <5> QED BY <1>2, <1>7, <1>8, <5>2
      <4>3. reader.matched = 1
        BY <1>7, <1>11, <4>1, <4>2
      <4>4. reader' = EmptyReader
        BY <1>1, <1>4, <1>5, <4>1, <4>3, ReaderMatches
      <4>5. n \in 0..Len(sent)
        OBVIOUS
      <4>6. ReaderOf(sent, n, n, 0) = EmptyReader
        BY <1>1, <4>5, ReaderStarts
      <4> QED BY <1>7, <3>2, <4>4, <4>6
    <3>3. CASE begin # n
      <4>1. begin < n /\ n \notin Ends
        BY <1>7, <2>2, <3>1, <3>3
      <4>2. reader' = IF b.c = Delimiter[1]
                      THEN ReaderOf(sent, begin, n - 1, 1)
                      ELSE ReaderOf(sent, begin, n, 0)
        BY <1>12, <3>1, <4>1
      <4> QED BY <1>3, <4>1, <4>2
    <3> QED BY <3>2, <3>3
  <2>3. \A begin \in Ends' :
           Intact(begin, Latest)' /\ (begin = n \/ n \notin Ends) =>
              IF begin < n /\ sent[n].c = Delimiter[1]
              THEN reader' = ReaderOf(sent, begin, n - 1, 1)
              ELSE reader' = ReaderOf(sent, begin, n, 0)
    BY <1>2, <1>6, <2>2 DEF Intact
  <2> QED BY <1>2, <1>3, <1>4, <1>6, <2>1, <2>3 DEF ReaderInv
<1>14. \A i \in DOMAIN lines : i \in DOMAIN lines' /\ lines'[i] = lines[i]
  <2>1. LinesOut(reader, b) \in Seq(LinesOf(Bytes))
    BY <1>1, LinesOutAreLines
  <2> QED BY <1>1, <1>4, <2>1
<1>15. LinesInv'
  <2> SUFFICES ASSUME NEW begin \in Ends, NEW to \in Ends, begin < to,
                      Intact(begin, to)'
               PROVE  \E i \in DOMAIN lines' :
                         lines'[i] = LineOf(sent, begin, to - 2)
    BY <1>4, <1>6 DEF LinesInv
  <2>1. /\ begin \in Nat /\ to \in Nat /\ begin <= to - 2
        /\ to <= Len(sent)
    BY EndsApart
  <2>2. /\ begin <= to /\ Start(begin)..to \subseteq Read \cup {n}
        /\ ~\E m \in Ends : begin < m /\ m < to
    BY <1>2, <1>6 DEF Intact
  <2>3. Start(begin) \in Nat /\ Start(begin) <= to
    BY <2>1, <1>6 DEF Start, EndsOf
  <2>4. CASE to = n
    <3>1. b.c = Delimiter[2] /\ sent[n - 1].c = Delimiter[1]
      BY <1>10, <2>4
    <3>2. Latest = n - 1 /\ Intact(begin, n - 1)
      BY <1>2, <2>2, <2>4, ReadFollows
    <3>3. n - 1 \notin Ends
      <4>1. n - 1 \in Ends => begin < n - 1 /\ n - 1 < n
        BY <2>1, <2>4
      <4> QED BY <2>2, <2>4, <4>1
    <3>4. reader = ReaderOf(sent, begin, n - 1 - 1, 1)
      <4>1. begin < n - 1
        BY <2>1, <2>4
      <4> QED BY <3>1, <3>2, <3>3, <4>1 DEF ReaderInv
    <3>5. n - 1 - 1 = to - 2
      BY <2>1, <2>4
    <3>6. reader = ReaderOf(sent, begin, to - 2, 1)
      BY <3>4, <3>5
    <3>7. reader.matched = 1 /\ LineOf(sent, begin, to - 2) =
             [text |-> reader.text, overflown |-> reader.overflown]
      BY <3>6 DEF ReaderOf, LineOf
    <3>8. lines' = lines \o <<LineOf(sent, begin, to - 2)>>
      BY <1>1, <1>4, <1>5, <3>1, <3>7, ReaderMatches
    <3>9. PICK l : l = LineOf(sent, begin, to - 2)
      OBVIOUS
    <3>10. l \in LinesOf(Bytes)
      BY <1>1, <3>7, <3>9 DEF Readers, LinesOf
    <3>11. PICK k \in Nat : k = Len(lines)
      BY <1>1, LenProperties
    <3>12. k + 1 \in DOMAIN lines' /\ lines'[k + 1] = l
      BY <1>1, <3>8, <3>9, <3>10, <3>11
    <3> QED BY <3>9, <3>12
  <2>5. CASE to # n
    <3>1. Intact(begin, to)
      <4>1. n \notin Start(begin)..to
        <5> SUFFICES ASSUME n \in Start(begin)..to PROVE FALSE
          OBVIOUS
        <5>1. n < to /\ to \in Start(begin)..to
          BY <1>7, <2>1, <2>3, <2>5
        <5>2. to \in Read
          BY <2>2, <2>5, <5>1
        <5> QED BY <1>2, <1>7, <1>8, <2>1, <5>1, <5>2
      <4> QED BY <2>2, <4>1 DEF Intact
    <3>2. PICK i \in DOMAIN lines : lines[i] = LineOf(sent, begin, to - 2)
      BY <3>1 DEF LinesInv
    <3> QED BY <1>14, <3>2
  <2> QED BY <2>4, <2>5
<1> QED BY <1>13, <1>15

\* Every step.
LEMMA NextLines ==
    ASSUME CleanMessages, OrderInv, PeerInv, SentInv, ReaderInv, LinesInv,
           [Next]_vars
    PROVE  PeerInv' /\ SentInv' /\ ReaderInv' /\ LinesInv'
<1>1. SentInv'
  BY NextSent
<1>2. CASE Byte
  BY <1>1, <1>2, ByteKeepsPeer, ByteKeepsLines DEF OrderInv
<1>3. ASSUME UNCHANGED <<say, sent>>
      PROVE  PeerInv' /\ Ends' = Ends
  BY <1>3 DEF PeerInv, Ends
<1>4. CASE ReadByte
  <2>1. UNCHANGED <<say, sent>>
    BY <1>4 DEF ReadByte, peerVars
  <2> QED BY <1>1, <1>3, <1>4, <2>1, ReadKeepsLines
<1>5. CASE \/ FallIdle \/ Interrupt \/ ErrorEvent \/ ReceiveChunk
           \/ ReceiveLine \/ UNCHANGED vars
  <2>1. UNCHANGED <<say, sent, fed, reader, lines>>
    BY <1>5 DEF FallIdle, Interrupt, HalfEvent, FullEvent, IdleEvent,
                ErrorEvent, ReceiveChunk, ReceiveLine, vars, peerVars,
                taskVars
  <2>2. Ends' = Ends /\ Read' = Read /\ Latest' = Latest
    BY <1>3, <2>1 DEF Read, Latest
  <2>3. \A begin, n : Intact(begin, n)' <=> Intact(begin, n)
    BY <2>2 DEF Intact
  <2>4. ReaderInv'
    BY <2>1, <2>2, <2>3 DEF ReaderInv, Intact
  <2>5. LinesInv'
    BY <2>1, <2>2, <2>3 DEF LinesInv
  <2> QED BY <1>1, <1>3, <2>1, <2>4, <2>5
<1> QED BY <1>2, <1>4, <1>5 DEF Next, Task

\* UARTTasks.cpp, Delimited.hpp: a message that reaches the task whole, with
\* the delimiter before it, is called back exactly, up to the size of the
\* line buffer, whatever was lost before: for every delimiter of two
\* characters, and messages that hold neither.
THEOREM IntactMessagesArrive ==
    ASSUME CleanMessages
    PROVE  Spec => []IntactMessagesAreCalledBack
<1>1. Init => OrderInv /\ IntactInv
  BY InitOrder, InitSent DEF IntactInv
<1>2. OrderInv /\ IntactInv /\ [Next]_vars => OrderInv' /\ IntactInv'
  BY NextOrder, NextLines DEF IntactInv
<1>3. OrderInv /\ IntactInv => IntactMessagesAreCalledBack
  <2> SUFFICES ASSUME OrderInv, LinesInv
               PROVE  IntactMessagesAreCalledBack
    BY DEF IntactInv
  <2>1. Len(Delimiter) = 2 /\ Ends \subseteq Nat
    BY EndsAre DEF CleanMessages, EndsOf
  <2> SUFFICES ASSUME NEW begin \in Ends, NEW to \in Ends, begin < to,
                      ~\E n \in Ends : begin < n /\ n < to,
                      (IF begin = 0 THEN 1
                       ELSE begin - 2 + 1)..to \subseteq Read
               PROVE  \E i \in DOMAIN lines :
                         lines[i] = LineOf(sent, begin, to - 2)
    BY <2>1 DEF IntactMessagesAreCalledBack, Read, LineOf, Cut
  <2>2. Start(begin) = IF begin = 0 THEN 1 ELSE begin - 2 + 1
    BY <2>1 DEF Start
  <2>3. begin <= to
    BY <2>1
  <2> QED BY <2>2, <2>3 DEF LinesInv, Intact
<1> QED BY <1>1, <1>2, <1>3, PTL DEF Spec

-----------------------------------------------------------------------------
(* The transmit path.                                                      *)

\* How many bytes the task has taken from the stream, and how many of them
\* the DMA has done with, having sent them or been stopped.
Taken == transmitted - Len(out) - Len(stream)
Done ==
    IF busy THEN Taken - pending + (from - 1)
    ELSE IF txTask = "start" THEN Taken - pending ELSE Taken

TxTypes ==
    /\ transmitted \in Nat /\ out \in Seq(Nat) /\ stream \in Seq(Nat)
    /\ txBuffer \in Seq(Nat) /\ Len(txBuffer) = TxBufferSize
    /\ pending \in 0..TxBufferSize /\ txTask \in {"data", "start", "ready"}
    /\ from \in Nat /\ busy \in BOOLEAN /\ wire \in Seq(Nat)
    /\ Len(out) + Len(stream) + pending <= transmitted

\* The bytes of each place follow one another up to the beginning of the next.
InTheOut ==
    \A k \in 1..Len(out) : out[k] = transmitted - Len(out) + k
InTheStream ==
    \A k \in 1..Len(stream) : stream[k] = Taken + k
InTheBuffer ==
    txTask # "data" =>
        \A k \in 1..pending : txBuffer[k] = Taken - pending + k
InTheDma ==
    busy => txTask = "ready" /\ upto = pending /\ from \in 1..(pending + 1)
OnTheWire ==
    /\ \A i \in 1..Len(wire) : wire[i] \in 1..Done
    /\ \A i, j \in 1..Len(wire) : i < j => wire[i] < wire[j]
SentOrStopped ==
    \A byte \in 1..Done :
       (\E k \in 1..Len(wire) : wire[k] = byte) \/ Stopped(byte)

TxInv ==
    /\ TxTypes /\ InTheOut /\ InTheStream /\ InTheBuffer /\ InTheDma
    /\ OnTheWire /\ SentOrStopped

LEMMA TxFacts ==
    /\ StreamSize \in Nat /\ TxChunk \in Nat \ {0}
    /\ TxBufferSize \in Nat \ {0} /\ Transmissions \subseteq Nat
BY TransmitterAssumption

LEMMA TwoParts ==
    ASSUME NEW s \in Seq(Nat), NEW n \in Nat
    PROVE  \E m \in 0..Len(s) :
              /\ m <= n /\ (n > 0 /\ s # <<>> => m > 0)
              /\ Prefix(s, n) \in Seq(Nat) /\ Len(Prefix(s, n)) = m
              /\ \A k \in 1..m : Prefix(s, n)[k] = s[k]
              /\ Suffix(s, n) \in Seq(Nat) /\ Len(Suffix(s, n)) = Len(s) - m
              /\ \A k \in 1..(Len(s) - m) : Suffix(s, n)[k] = s[m + k]
<1> DEFINE m == IF n < Len(s) THEN n ELSE Len(s)
<1>1. Len(s) \in Nat /\ m \in 0..Len(s) /\ m <= n
  OBVIOUS
<1>2. n > 0 /\ s # <<>> => m > 0
  <2>1. s # <<>> => Len(s) # 0
    BY EmptySeq
  <2> QED BY <1>1, <2>1
<1>3. Prefix(s, n) = SubSeq(s, 1, m) /\ Suffix(s, n) = SubSeq(s, m + 1, Len(s))
  BY DEF Prefix, Suffix
<1> HIDE DEF m
<1>4. /\ SubSeq(s, 1, m) \in Seq(Nat) /\ Len(SubSeq(s, 1, m)) = m
      /\ \A k \in 1..m : SubSeq(s, 1, m)[k] = s[k]
  BY <1>1
<1>5. /\ SubSeq(s, m + 1, Len(s)) \in Seq(Nat)
      /\ Len(SubSeq(s, m + 1, Len(s))) = Len(s) - m
      /\ \A k \in 1..(Len(s) - m) : SubSeq(s, m + 1, Len(s))[k] = s[m + k]
  BY <1>1
<1> QED BY <1>1, <1>2, <1>3, <1>4, <1>5

LEMMA Joined ==
    ASSUME NEW s \in Seq(Nat), NEW t \in Seq(Nat)
    PROVE  /\ s \o t \in Seq(Nat) /\ Len(s \o t) = Len(s) + Len(t)
           /\ \A k \in 1..Len(s) : (s \o t)[k] = s[k]
           /\ \A k \in 1..Len(t) : (s \o t)[Len(s) + k] = t[k]
<1>1. Len(s) \in Nat /\ Len(t) \in Nat
  OBVIOUS
<1>2. /\ s \o t \in Seq(Nat) /\ Len(s \o t) = Len(s) + Len(t)
      /\ \A i \in 1..(Len(s) + Len(t)) :
            (s \o t)[i] = IF i <= Len(s) THEN s[i] ELSE t[i - Len(s)]
  BY ConcatProperties
<1>3. ASSUME NEW k \in 1..Len(s) PROVE (s \o t)[k] = s[k]
  BY <1>1, <1>2
<1>4. ASSUME NEW k \in 1..Len(t) PROVE (s \o t)[Len(s) + k] = t[k]
  <2>1. PICK i \in 1..(Len(s) + Len(t)) :
           i = Len(s) + k /\ ~(i <= Len(s)) /\ i - Len(s) = k
    <3> DEFINE i == Len(s) + k
    <3>1. /\ i \in 1..(Len(s) + Len(t)) /\ ~(i <= Len(s))
          /\ i - Len(s) = k
      BY <1>1
    <3> HIDE DEF i
    <3> QED BY <3>1 DEF i
  <2> QED BY <1>2, <2>1
<1> QED BY <1>2, <1>3, <1>4

LEMMA TxBegins == ASSUME TxInit PROVE TxInv
<1>1. /\ transmitted = 0 /\ pending = 0 /\ txTask = "data" /\ from = 1
      /\ busy = FALSE
      /\ out \in Seq(Nat) /\ stream \in Seq(Nat) /\ wire \in Seq(Nat)
      /\ Len(out) = 0 /\ Len(stream) = 0 /\ Len(wire) = 0
  BY EmptySeq DEF TxInit
<1>2. txBuffer \in Seq(Nat) /\ Len(txBuffer) = TxBufferSize
  BY TxFacts DEF TxInit
<1>3. Taken = 0 /\ Done = 0
  BY <1>1 DEF Taken, Done
<1>4. TxTypes
  <2>1. pending \in 0..TxBufferSize /\ Len(out) + Len(stream) + pending = 0
    BY <1>1, TxFacts
  <2>2. /\ transmitted \in Nat /\ from \in Nat
        /\ Len(out) + Len(stream) + pending <= transmitted
    BY <1>1
  <2>3. busy \in BOOLEAN /\ txTask \in {"data", "start", "ready"}
    BY <1>1
  <2> QED BY <1>1, <1>2, <2>1, <2>2, <2>3, Zenon DEF TxTypes
<1> QED BY <1>1, <1>3, <1>4 DEF TxInv, InTheOut, InTheStream, InTheBuffer,
                                InTheDma, OnTheWire, SentOrStopped

\* What a step does not move stays where it is.
LEMMA TransmitKeeps ==
    ASSUME TxInv, NEW size \in Transmissions, Transmit(size) PROVE TxInv'
<1>1. /\ out' = [k \in 1..size |-> transmitted + k] /\ out = <<>>
      /\ transmitted' = transmitted + size /\ size \in Nat
      /\ UNCHANGED <<stream, txBuffer, pending, txTask, from, upto, busy,
                     wire, stops>>
  BY TxFacts DEF Transmit, bufferVars, uartVars, historyVars
<1>2. /\ Len(out) = 0 /\ Len(out') = size /\ out' \in Seq(Nat)
      /\ \A k \in 1..size : out'[k] = transmitted + k
  BY <1>1 DEF TxInv, TxTypes
<1>3. Taken' = Taken /\ Done' = Done
  BY <1>1, <1>2 DEF Taken, Done, TxInv, TxTypes
<1>4. TxTypes'
  BY <1>1, <1>2 DEF TxInv, TxTypes
<1>5. InTheOut'
  BY <1>1, <1>2 DEF TxInv, TxTypes, InTheOut
<1>6. InTheStream' /\ InTheBuffer' /\ InTheDma' /\ OnTheWire'
  BY <1>1, <1>3 DEF TxInv, InTheStream, InTheBuffer, InTheDma, OnTheWire
<1>7. SentOrStopped'
  BY <1>1, <1>3 DEF TxInv, SentOrStopped, Stopped
<1> QED BY <1>4, <1>5, <1>6, <1>7 DEF TxInv

LEMMA SendToStreamKeeps == ASSUME TxInv, SendToStream PROVE TxInv'
<1> DEFINE part == Prefix(out, TxChunk)
<1>1. /\ stream' = stream \o part /\ out' = Suffix(out, TxChunk)
      /\ UNCHANGED <<transmitted, txBuffer, pending, txTask, from, upto, busy,
                     wire, stops>>
  BY DEF SendToStream, bufferVars, uartVars, historyVars
<1>2. out \in Seq(Nat) /\ stream \in Seq(Nat) /\ TxChunk \in Nat
  BY TxFacts DEF TxInv, TxTypes
<1>3. PICK m \in 0..Len(out) :
         /\ part \in Seq(Nat) /\ Len(part) = m
         /\ \A k \in 1..m : part[k] = out[k]
         /\ Suffix(out, TxChunk) \in Seq(Nat)
         /\ Len(Suffix(out, TxChunk)) = Len(out) - m
         /\ \A k \in 1..(Len(out) - m) : Suffix(out, TxChunk)[k] = out[m + k]
  BY <1>2, TwoParts
<1> HIDE DEF part
<1>4. /\ stream' \in Seq(Nat) /\ Len(stream') = Len(stream) + m
      /\ \A k \in 1..Len(stream) : stream'[k] = stream[k]
      /\ \A k \in 1..m : stream'[Len(stream) + k] = part[k]
  BY <1>1, <1>2, <1>3, Joined
<1>5. /\ out' \in Seq(Nat) /\ Len(out') = Len(out) - m
      /\ \A k \in 1..(Len(out) - m) : out'[k] = out[m + k]
  BY <1>1, <1>3
<1>6. Taken' = Taken /\ Done' = Done
  BY <1>1, <1>2, <1>4, <1>5 DEF Taken, Done, TxInv, TxTypes
<1>7. TxTypes'
  BY <1>1, <1>2, <1>4, <1>5 DEF TxInv, TxTypes
<1>8. InTheOut'
  <2> SUFFICES ASSUME NEW k \in 1..Len(out')
               PROVE  out'[k] = transmitted' - Len(out') + k
    BY DEF InTheOut
  <2>1. m + k \in 1..Len(out) /\ out'[k] = out[m + k]
    BY <1>2, <1>5
  <2>2. out[m + k] = transmitted - Len(out) + (m + k)
    BY <2>1 DEF TxInv, InTheOut
  <2> QED BY <1>1, <1>2, <1>5, <2>1, <2>2 DEF TxInv, TxTypes
<1>9. InTheStream'
  <2> SUFFICES ASSUME NEW k \in 1..Len(stream')
               PROVE  stream'[k] = Taken + k
    BY <1>6 DEF InTheStream
  <2>1. CASE k \in 1..Len(stream)
    BY <1>4, <2>1 DEF TxInv, InTheStream
  <2>2. CASE k \notin 1..Len(stream)
    <3>1. PICK h \in 1..m : k = Len(stream) + h
      <4>1. k - Len(stream) \in 1..m /\ k = Len(stream) + (k - Len(stream))
        BY <1>2, <1>4, <2>2
      <4> QED BY <4>1
    <3>2. stream'[k] = transmitted - Len(out) + h
      <4>1. stream'[k] = part[h] /\ part[h] = out[h] /\ h \in 1..Len(out)
        BY <1>2, <1>3, <1>4, <3>1
      <4> QED BY <4>1 DEF TxInv, InTheOut
    <3> QED BY <1>2, <3>1, <3>2 DEF TxInv, TxTypes, Taken
  <2> QED BY <2>1, <2>2
<1>10. InTheBuffer' /\ InTheDma' /\ OnTheWire'
  BY <1>1, <1>6 DEF TxInv, InTheBuffer, InTheDma, OnTheWire
<1>11. SentOrStopped'
  BY <1>1, <1>6 DEF TxInv, SentOrStopped, Stopped
<1> QED BY <1>7, <1>8, <1>9, <1>10, <1>11 DEF TxInv

LEMMA ReceiveFromStreamKeeps == ASSUME TxInv, ReceiveFromStream PROVE TxInv'
<1> DEFINE received == Prefix(stream, TxBufferSize)
           rest == Suffix(txBuffer, Len(received))
<1>1. /\ txTask = "data" /\ txTask' = "start"
      /\ txBuffer' = received \o rest /\ pending' = Len(received)
      /\ stream' = Suffix(stream, TxBufferSize)
      /\ UNCHANGED <<transmitted, out, from, upto, busy, wire, stops>>
  BY DEF ReceiveFromStream, callerVars, uartVars, historyVars
<1>2. /\ out \in Seq(Nat) /\ stream \in Seq(Nat) /\ txBuffer \in Seq(Nat)
      /\ TxBufferSize \in Nat /\ Len(txBuffer) = TxBufferSize
  BY TxFacts DEF TxInv, TxTypes
<1>3. PICK m \in 0..Len(stream) :
         /\ m <= TxBufferSize
         /\ received \in Seq(Nat) /\ Len(received) = m
         /\ \A k \in 1..m : received[k] = stream[k]
         /\ Suffix(stream, TxBufferSize) \in Seq(Nat)
         /\ Len(Suffix(stream, TxBufferSize)) = Len(stream) - m
         /\ \A k \in 1..(Len(stream) - m) :
               Suffix(stream, TxBufferSize)[k] = stream[m + k]
  BY <1>2, TwoParts
<1>4. rest \in Seq(Nat) /\ Len(rest) = TxBufferSize - m
  <2>1. m \in Nat /\ Len(received) = m
    BY <1>3
  <2>2. PICK h \in 0..Len(txBuffer) :
           h <= m /\ Suffix(txBuffer, m) \in Seq(Nat)
           /\ Len(Suffix(txBuffer, m)) = Len(txBuffer) - h
    BY <1>2, <2>1, TwoParts
  <2>3. Len(Suffix(txBuffer, m)) = Len(txBuffer) - m
    BY <1>2, <1>3 DEF Suffix
  <2> QED BY <1>2, <2>1, <2>2, <2>3
<1> HIDE DEF received, rest
<1>5. /\ txBuffer' \in Seq(Nat) /\ Len(txBuffer') = TxBufferSize
      /\ \A k \in 1..m : txBuffer'[k] = stream[k]
  <2>1. /\ txBuffer' \in Seq(Nat) /\ Len(txBuffer') = m + (TxBufferSize - m)
        /\ \A k \in 1..m : txBuffer'[k] = received[k]
    BY <1>1, <1>3, <1>4, Joined
  <2>2. m + (TxBufferSize - m) = TxBufferSize
    BY <1>2, <1>3
  <2>3. \A k \in 1..m : txBuffer'[k] = stream[k]
    BY <1>3, <2>1
  <2> QED BY <2>1, <2>2, <2>3
<1>6. /\ stream' \in Seq(Nat) /\ Len(stream') = Len(stream) - m
      /\ \A k \in 1..(Len(stream) - m) : stream'[k] = stream[m + k]
      /\ pending' = m
  BY <1>1, <1>3
<1>7. ~busy
  BY <1>1 DEF TxInv, InTheDma
<1>8. Taken' = Taken + m /\ Done' = Done /\ Taken \in Nat
  BY <1>1, <1>2, <1>6, <1>7 DEF Taken, Done, TxInv, TxTypes
<1>9. TxTypes'
  BY <1>1, <1>2, <1>3, <1>5, <1>6 DEF TxInv, TxTypes
<1>10. InTheOut' /\ InTheDma'
  BY <1>1, <1>7 DEF TxInv, InTheOut, InTheDma
<1>11. InTheStream'
  <2> SUFFICES ASSUME NEW k \in 1..Len(stream')
               PROVE  stream'[k] = Taken' + k
    BY DEF InTheStream
  <2>1. m + k \in 1..Len(stream) /\ stream'[k] = stream[m + k]
    BY <1>2, <1>6
  <2>2. stream[m + k] = Taken + (m + k)
    BY <2>1 DEF TxInv, InTheStream
  <2> QED BY <1>8, <2>1, <2>2
<1>12. InTheBuffer'
  <2> SUFFICES ASSUME NEW k \in 1..m
               PROVE  txBuffer'[k] = Taken' - m + k
    BY <1>6 DEF InTheBuffer
  <2>1. k \in 1..Len(stream)
    BY <1>2, <1>3
  <2> QED BY <1>5, <1>8, <2>1 DEF TxInv, InTheStream
<1>13. OnTheWire'
  BY <1>1, <1>8 DEF TxInv, OnTheWire
<1>14. SentOrStopped'
  BY <1>1, <1>8 DEF TxInv, SentOrStopped, Stopped
<1> QED BY <1>9, <1>10, <1>11, <1>12, <1>13, <1>14 DEF TxInv

LEMMA StartDmaKeeps == ASSUME TxInv, StartDma PROVE TxInv'
<1>1. /\ txTask = "start" /\ txTask' = "ready" /\ ~busy
      /\ busy' = TRUE /\ from' = 1 /\ upto' = pending
      /\ UNCHANGED <<transmitted, out, stream, txBuffer, pending, wire, stops>>
  BY DEF StartDma, callerVars, bufferVars, historyVars
<1>2. Taken' = Taken /\ Done' = Done
  BY <1>1 DEF Taken, Done, TxInv, TxTypes
<1>3. TxTypes' /\ InTheOut' /\ InTheStream' /\ InTheBuffer' /\ InTheDma'
  BY <1>1, <1>2 DEF TxInv, TxTypes, InTheOut, InTheStream, InTheBuffer,
                    InTheDma
<1>4. OnTheWire' /\ SentOrStopped'
  BY <1>1, <1>2 DEF TxInv, OnTheWire, SentOrStopped, Stopped
<1> QED BY <1>3, <1>4 DEF TxInv

LEMMA WaitUntilReadyKeeps == ASSUME TxInv, WaitUntilReady PROVE TxInv'
<1>1. /\ txTask = "ready" /\ txTask' = "data" /\ ~busy /\ pending' = 0
      /\ UNCHANGED <<transmitted, out, stream, txBuffer, from, upto, busy,
                     wire, stops>>
  BY DEF WaitUntilReady, callerVars, uartVars, historyVars
<1>2. Taken' = Taken /\ Done' = Done
  BY <1>1 DEF Taken, Done, TxInv, TxTypes
<1>3. TxTypes' /\ InTheOut' /\ InTheStream' /\ InTheBuffer' /\ InTheDma'
  BY <1>1, <1>2, TxFacts DEF TxInv, TxTypes, InTheOut, InTheStream,
                             InTheBuffer, InTheDma
<1>4. OnTheWire' /\ SentOrStopped'
  BY <1>1, <1>2 DEF TxInv, OnTheWire, SentOrStopped, Stopped
<1> QED BY <1>3, <1>4 DEF TxInv

LEMMA SendByteKeeps == ASSUME TxInv, SendByte PROVE TxInv'
<1>1. /\ busy /\ from <= upto
      /\ wire' = Append(wire, txBuffer[from]) /\ from' = from + 1
      /\ UNCHANGED <<transmitted, out, stream, txBuffer, pending, txTask, upto,
                     busy, stops>>
  BY DEF SendByte, callerVars, bufferVars
<1>2. /\ txTask = "ready" /\ from \in 1..pending /\ wire \in Seq(Nat)
      /\ Taken \in Nat /\ pending <= Taken /\ pending \in Nat /\ upto = pending
  BY <1>1, TxFacts DEF TxInv, TxTypes, InTheDma, Taken
<1>3. /\ Taken' = Taken /\ Done' = Done + 1 /\ Done \in Nat
      /\ Done = Taken - pending + (from - 1)
  <2>1. Taken' = Taken /\ Done = Taken - pending + (from - 1)
    BY <1>1 DEF Taken, Done
  <2>2. Done' = Taken - pending + (from + 1 - 1)
    BY <1>1, <1>2, <2>1 DEF Done
  <2> QED BY <1>2, <2>1, <2>2
<1>4. txBuffer[from] = Done + 1
  <2>1. txBuffer[from] = Taken - pending + from
    BY <1>2 DEF TxInv, InTheBuffer
  <2> QED BY <1>2, <1>3, <2>1
<1>5. /\ wire' \in Seq(Nat) /\ Len(wire') = Len(wire) + 1
      /\ \A i \in 1..Len(wire) : wire'[i] = wire[i]
      /\ wire'[Len(wire) + 1] = Done + 1 /\ Len(wire) \in Nat
  BY <1>1, <1>2, <1>3, <1>4
<1>6. TxTypes' /\ InTheOut' /\ InTheStream' /\ InTheBuffer' /\ InTheDma'
  BY <1>1, <1>2, <1>3, <1>5 DEF TxInv, TxTypes, InTheOut, InTheStream,
                                InTheBuffer, InTheDma
<1>7. OnTheWire'
  <2>1. \A i \in 1..Len(wire') : i \in 1..Len(wire) \/ i = Len(wire) + 1
    BY <1>5
  <2>2. ASSUME NEW i \in 1..Len(wire') PROVE wire'[i] \in 1..Done'
    BY <1>3, <1>5, <2>1 DEF TxInv, OnTheWire
  <2>3. ASSUME NEW i \in 1..Len(wire'), NEW j \in 1..Len(wire'), i < j
        PROVE  wire'[i] < wire'[j]
    <3>1. i \in 1..Len(wire) /\ wire'[i] = wire[i]
      BY <1>5, <2>1, <2>3
    <3>2. CASE j \in 1..Len(wire)
      BY <1>5, <2>3, <3>1, <3>2 DEF TxInv, OnTheWire
    <3>3. CASE j = Len(wire) + 1
      BY <1>3, <1>5, <3>1, <3>3 DEF TxInv, OnTheWire
    <3> QED BY <2>1, <3>2, <3>3
  <2> QED BY <2>2, <2>3 DEF OnTheWire
<1>8. SentOrStopped'
  <2> SUFFICES ASSUME NEW byte \in 1..Done'
               PROVE  (\E k \in 1..Len(wire') : wire'[k] = byte)
                         \/ Stopped(byte)'
    BY DEF SentOrStopped
  <2>1. CASE byte = Done + 1
    BY <1>5, <2>1
  <2>2. CASE byte \in 1..Done
    <3>1. CASE \E k \in 1..Len(wire) : wire[k] = byte
      BY <1>5, <3>1
    <3>2. CASE Stopped(byte)
      BY <1>1, <3>2 DEF Stopped
    <3> QED BY <2>2, <3>1, <3>2 DEF TxInv, SentOrStopped
  <2> QED BY <1>3, <2>1, <2>2
<1> QED BY <1>6, <1>7, <1>8 DEF TxInv

LEMMA TransmissionCompleteKeeps ==
    ASSUME TxInv, TransmissionComplete PROVE TxInv'
<1>1. /\ busy /\ from > upto /\ busy' = FALSE
      /\ UNCHANGED <<transmitted, out, stream, txBuffer, pending, txTask, from,
                     upto, wire, stops>>
  BY DEF TransmissionComplete, callerVars, bufferVars, historyVars
<1>2. /\ txTask = "ready" /\ from = pending + 1
      /\ Taken \in Nat /\ pending \in Nat
  BY <1>1, TxFacts DEF TxInv, TxTypes, InTheDma, Taken
<1>3. Taken' = Taken /\ Done' = Done
  BY <1>1, <1>2 DEF Taken, Done
<1>4. TxTypes' /\ InTheOut' /\ InTheStream' /\ InTheBuffer' /\ InTheDma'
  BY <1>1, <1>2, <1>3 DEF TxInv, TxTypes, InTheOut, InTheStream,
                          InTheBuffer, InTheDma
<1>5. OnTheWire' /\ SentOrStopped'
  BY <1>1, <1>3 DEF TxInv, OnTheWire, SentOrStopped, Stopped
<1> QED BY <1>4, <1>5 DEF TxInv

LEMMA TxStands == ASSUME TxInv, UNCHANGED txVars PROVE TxInv'
BY DEF txVars, callerVars, bufferVars, uartVars, historyVars, TxInv, TxTypes,
       InTheOut, InTheStream, InTheBuffer, InTheDma, OnTheWire, SentOrStopped,
       Stopped, Taken, Done

\* The rest of the buffer is what a stop has been charged with.
LEMMA StopKeeps == ASSUME TxInv, StopTransmission PROVE TxInv'
<1>1. CASE UNCHANGED txVars
  BY <1>1, TxStands
<1>2. CASE /\ busy /\ from <= upto /\ busy' = FALSE
           /\ stops' = stops \cup {txBuffer[from]}
           /\ UNCHANGED <<callerVars, stream, bufferVars, txTask, from, upto,
                          wire>>
  <2>1. /\ UNCHANGED <<transmitted, out, stream, txBuffer, pending, txTask,
                       from, upto, wire>>
    BY <1>2 DEF callerVars, bufferVars
  <2>2. /\ txTask = "ready" /\ from \in 1..pending /\ pending \in Nat
        /\ Taken \in Nat /\ pending <= Taken /\ pending <= TxBufferSize
        /\ TxBufferSize \in Nat
    BY <1>2, TxFacts DEF TxInv, TxTypes, InTheDma, Taken
  <2>3. /\ Taken' = Taken /\ Done' = Taken /\ Done \in Nat /\ Done <= Taken
        /\ Done = Taken - pending + (from - 1)
    BY <1>2, <2>1, <2>2 DEF Taken, Done
  <2>4. TxTypes' /\ InTheOut' /\ InTheStream' /\ InTheBuffer' /\ InTheDma'
    BY <1>2, <2>1, <2>2, <2>3 DEF TxInv, TxTypes, InTheOut, InTheStream,
                                  InTheBuffer, InTheDma
  <2>5. OnTheWire'
    <3>1. \A n \in 1..Done : n \in 1..Done'
      BY <2>2, <2>3
    <3> QED BY <2>1, <3>1 DEF TxInv, OnTheWire
  <2>6. txBuffer[from] = Done + 1
    <3>1. txBuffer[from] = Taken - pending + from
      BY <2>2 DEF TxInv, InTheBuffer
    <3> QED BY <2>2, <2>3, <3>1
  <2>7. SentOrStopped'
    <3> SUFFICES ASSUME NEW byte \in 1..Done'
                 PROVE  (\E k \in 1..Len(wire') : wire'[k] = byte)
                           \/ Stopped(byte)'
      BY DEF SentOrStopped
    <3>1. CASE byte \in 1..Done
      <4>1. CASE \E k \in 1..Len(wire) : wire[k] = byte
        BY <2>1, <4>1
      <4>2. CASE Stopped(byte)
        BY <1>2, <4>2 DEF Stopped
      <4> QED BY <3>1, <4>1, <4>2 DEF TxInv, SentOrStopped
    <3>2. CASE byte \notin 1..Done
      <4>1. Done + 1 <= byte /\ byte < Done + 1 + TxBufferSize
        BY <2>2, <2>3, <3>2
      <4>2. Done + 1 \in stops'
        BY <1>2, <2>6
      <4> QED BY <4>1, <4>2 DEF Stopped
    <3> QED BY <3>1, <3>2
  <2> QED BY <2>4, <2>5, <2>7 DEF TxInv
<1> QED BY <1>1, <1>2 DEF StopTransmission

LEMMA TxStep == ASSUME TxInv, [LineNext]_allVars PROVE TxInv'
<1>1. CASE UNCHANGED txVars
  BY <1>1, TxStands
<1>2. CASE TxNext
  BY <1>2, TransmitKeeps, SendToStreamKeeps, ReceiveFromStreamKeeps,
     StartDmaKeeps, WaitUntilReadyKeeps, SendByteKeeps,
     TransmissionCompleteKeeps DEF TxNext, TransmitTask, Uart
<1>3. CASE StopTransmission
  BY <1>3, StopKeeps
<1> QED BY <1>1, <1>2, <1>3 DEF LineNext, Transmitting, ErrorCallback, allVars

\* For every size of the stream, its chunks and the buffer, however callers,
\* the task, the UART and line errors interleave: bytes come out of the line
\* in the order they were transmitted in, each once, and one is passed over
\* only in the rest of a buffer whose transmission the error callback stopped.
THEOREM TransmittedInOrder == LineSpec => []NothingIsPassedOver
<1>1. LineInit => TxInv
  BY TxBegins DEF LineInit
<1>2. ASSUME TxInv PROVE NothingIsPassedOver
  <2>1. wire \in Seq(Nat) /\ DOMAIN wire = 1..Len(wire) /\ Done \in Int
    BY TxFacts, <1>2 DEF TxInv, TxTypes, Done, Taken
  <2>2. ASSUME NEW i \in DOMAIN wire, NEW byte \in 1..(wire[i] - 1)
        PROVE  byte \in {wire[k] : k \in DOMAIN wire} \/ Stopped(byte)
    <3>1. byte \in 1..Done
      BY <1>2, <2>1 DEF TxInv, OnTheWire
    <3> QED BY <1>2, <2>1, <3>1 DEF TxInv, SentOrStopped
  <2> QED BY <1>2, <2>1, <2>2 DEF NothingIsPassedOver, TxInv, OnTheWire
<1> QED BY <1>1, <1>2, TxStep, PTL DEF LineSpec

\* The line is a receive path, as `UartReceiver` has it, whatever is
\* transmitted meanwhile: what is proved of the one holds of the other.
THEOREM LineReceives == LineSpec => Spec
<1>1. LineInit => Init
  BY DEF LineInit
<1>2. [LineNext]_allVars => [Next]_vars
  BY DEF LineNext, Receiving, Transmitting, ErrorCallback, Next, allVars
<1> QED BY <1>1, <1>2, PTL DEF LineSpec, Spec
=============================================================================
