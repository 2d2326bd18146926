-------------------------- MODULE UartTransmitter --------------------------
(***************************************************************************)
(* The transmit path of a serial line: TransmitTask (Tele/UARTTasks.hpp).  *)
(*                                                                         *)
(* A caller puts what it transmits in a stream buffer, a chunk at a time;  *)
(* the task takes what there is, hands its buffer to the DMA controller    *)
(* and waits until the UART is done with it.  When the line errs the DMA   *)
(* is stopped, whatever it is sending.                                     *)
(***************************************************************************)
EXTENDS Integers, Sequences

CONSTANTS
    StreamSize,    \* what m_stream holds: 31, m_buffer_storage less one
    TxChunk,       \* what transmit sends to it at a time: 16
    TxBufferSize,  \* the size of m_uart_buffer: 32
    Transmissions, \* the sizes of what a caller transmits
    MaxTransmitted \* bound: the bytes transmitted

ASSUME TransmitterAssumption ==
    /\ StreamSize \in Nat /\ TxChunk \in 1..StreamSize
    /\ TxBufferSize \in Nat \ {0}
    /\ Transmissions \subseteq Nat /\ MaxTransmitted \in Nat

VARIABLES
    \* bytes transmitted so far, what transmit has yet to put in m_stream
    transmitted, out,
    stream,     \* m_stream
    txBuffer,   \* m_uart_buffer
    pending,    \* pending_size
    txTask,     \* what the task waits for: "data", "start" or "ready"
    \* the UART (external): the bytes of m_uart_buffer the DMA has yet to
    \* send, as places in it, and whether it transmits
    from, upto, busy,
    \* history: what has come out of the line, where a transmission was
    \* stopped
    wire, stops

callerVars  == <<transmitted, out>>
bufferVars  == <<txBuffer, pending>>
uartVars    == <<from, upto, busy>>
historyVars == <<wire, stops>>
txVars == <<callerVars, stream, bufferVars, txTask, uartVars, historyVars>>

TxInit ==
    /\ transmitted = 0 /\ out = <<>> /\ stream = <<>>
    /\ txBuffer = [k \in 1..TxBufferSize |-> 0] /\ pending = 0
    /\ txTask = "data"
    /\ from = 1 /\ upto = 0 /\ busy = FALSE
    /\ wire = <<>> /\ stops = {}

Prefix(s, n) == SubSeq(s, 1, IF n < Len(s) THEN n ELSE Len(s))
Suffix(s, n) == SubSeq(s, (IF n < Len(s) THEN n ELSE Len(s)) + 1, Len(s))

-----------------------------------------------------------------------------
(* The caller.  The stream has one: the coordinator's task sends commands  *)
(* and the data of HTTPDATA, the display's task what it shows.             *)

Transmit(size) ==
    /\ out = <<>>
    /\ transmitted + size <= MaxTransmitted
    /\ out' = [k \in 1..size |-> transmitted + k]
    /\ transmitted' = transmitted + size
    /\ UNCHANGED <<stream, bufferVars, txTask, uartVars, historyVars>>

\* xStreamBufferSend waits until there is room for the whole chunk.
SendToStream ==
    /\ out # <<>>
    /\ LET chunk == Prefix(out, TxChunk)
       IN  /\ Len(stream) + Len(chunk) <= StreamSize
           /\ stream' = stream \o chunk
    /\ out' = Suffix(out, TxChunk)
    /\ UNCHANGED <<transmitted, bufferVars, txTask, uartVars, historyVars>>

-----------------------------------------------------------------------------
(* The task.                                                               *)

ReceiveFromStream ==
    /\ txTask = "data"
    /\ stream # <<>>
    /\ LET received == Prefix(stream, TxBufferSize)
       IN  /\ txBuffer' = received \o Suffix(txBuffer, Len(received))
           /\ pending' = Len(received)
    /\ stream' = Suffix(stream, TxBufferSize)
    /\ txTask' = "start"
    /\ UNCHANGED <<callerVars, uartVars, historyVars>>

\* HAL_UART_Transmit_DMA is tried until it is not busy.
StartDma ==
    /\ txTask = "start"
    /\ ~busy
    /\ busy' = TRUE /\ from' = 1 /\ upto' = pending
    /\ txTask' = "ready"
    /\ UNCHANGED <<callerVars, stream, bufferVars, historyVars>>

\* Mutant: the next bytes are received into the buffer the DMA is sending.
WaitUntilReadyNot ==
    /\ txTask = "ready"
    /\ txTask' = "data" /\ pending' = 0
    /\ UNCHANGED <<callerVars, stream, txBuffer, uartVars, historyVars>>

WaitUntilReady ==
    /\ txTask = "ready"
    /\ ~busy
    /\ txTask' = "data" /\ pending' = 0
    /\ UNCHANGED <<callerVars, stream, txBuffer, uartVars, historyVars>>

-----------------------------------------------------------------------------
(* The UART (external).                                                    *)

SendByte ==
    /\ busy /\ from <= upto
    /\ wire' = Append(wire, txBuffer[from])
    /\ from' = from + 1
    /\ UNCHANGED <<callerVars, stream, bufferVars, txTask, upto, busy, stops>>

\* The interrupt after the last byte.
TransmissionComplete ==
    /\ busy /\ from > upto
    /\ busy' = FALSE
    /\ UNCHANGED <<callerVars, stream, bufferVars, txTask, from, upto,
                   historyVars>>

\* HAL_UART_DMAStop: a transmission whose bytes have all been fetched goes on.
StopTransmission ==
    IF busy /\ from <= upto
    THEN /\ busy' = FALSE
         /\ stops' = stops \cup {txBuffer[from]}
         /\ UNCHANGED <<callerVars, stream, bufferVars, txTask, from, upto,
                        wire>>
    ELSE UNCHANGED txVars

-----------------------------------------------------------------------------
Uart == SendByte \/ TransmissionComplete
TransmitTask == ReceiveFromStream \/ StartDma \/ WaitUntilReady

TxNext ==
    \/ \E size \in Transmissions : Transmit(size)
    \/ SendToStream
    \/ TransmitTask
    \/ Uart

\* The bytes that a stop has taken out of the buffer: a buffer's length from
\* the one that was next.
Stopped(byte) ==
    \E stop \in stops : stop <= byte /\ byte < stop + TxBufferSize

\* What has come out is what was transmitted, in order and each byte once,
\* but for the rest of a buffer behind each stop.
ComesOutInOrder(bytes) ==
    /\ \A i, j \in DOMAIN bytes : i < j => bytes[i] < bytes[j]
    /\ \A byte \in 1..transmitted :
          byte \in {bytes[i] : i \in DOMAIN bytes} \/ Stopped(byte)

\* As it comes out: a byte that is passed over was in the rest of a buffer
\* behind a stop, and nothing else is lost, doubled or overwritten in the
\* buffer before it is sent (UARTTasks.hpp:116).
NothingIsPassedOver ==
    /\ \A i, j \in DOMAIN wire : i < j => wire[i] < wire[j]
    /\ \A i \in DOMAIN wire : \A byte \in 1..(wire[i] - 1) :
          byte \in {wire[k] : k \in DOMAIN wire} \/ Stopped(byte)

\* Every transmit returns, and what it was given has come out of the line in
\* the end: no byte is overwritten in the buffer before it is sent, and a stop
\* loses the rest of that buffer and nothing behind it.
EverythingIsTransmitted == <>[](out = <<>> /\ ComesOutInOrder(wire))
=============================================================================
