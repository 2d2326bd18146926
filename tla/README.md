# TLA+ models of the TeleV2 telemetry firmware

TeleV2 is the firmware of a telemetry unit in a race car: an STM32F4 running
FreeRTOS collects measurements from CAN, GPS and a gyroscope, forges signed,
numbered packets of them, and posts these over HTTP through a SIM800L GSM modem
on a serial line. This directory holds TLA+ modules of its core, the TLC runs
that check them on small instances, and TLAPS proofs about them for all
instances.

    tlc -config coordinator_service.cfg MCGSMCoordinator    # a run
    tlapm GSMCoordinatorProofs.tla                          # the proofs

## 1. Inventory

All application tasks have priority `tskIDLE_PRIORITY + 2` and preempt one
another by time slice; interrupts preempt tasks.

| Component | State | Operations | Interacts with | Hard |
|---|---|---|---|---|
| GSM coordinator (`Tele/Src/GSMCoordinator.cpp`) | queue of commands and data, active command, command queue, reply buffer, five boot flags and an inconsistent mark | `send_command_async`, `isr_rx_event`, `new_command`, `new_reply`, `update_state`, `reset_state` | callers' stacks (container, semaphore, payload), modem over UART, modules by callback | concurrency of callers, coordinator, interrupt; lost lines; modem resets; no timeouts |
| UART receive path (`Tele/Src/UARTTasks.cpp`, `cppmain.cpp` callbacks) | DMA ring, last offset, chunk queue, line queue | `isr_rx_event`, `operator()`, `receive_line`, `begin_rx`, error callback | DMA and UART interrupts, GPS and Nextion tasks | wrap-around, coinciding interrupts, full queues, restart with a stale offset |
| Line reader (`Tele/Inc/Tele/Delimited.hpp`) | match size, buffer, overflow | `add_char` | callback | resynchronising after loss, overflow |
| Reboot record (`Core/Src/Watchdog.cpp`) | status, name, size, CRC in memory that survives a reset | `self_check`, `initialize_if_needed`, `catched_fire`, `halt_and_catch_fire` | fault handlers, hooks, the next life | reset between two stores, fire during the watchdog's own writes |
| Main module (`Core/Src/MainGSMModule.cpp`) | phase of the session, last HTTP response | `initialize_device`, `initialize_session`, `packet_loop`, `wait_for_http` | coordinator (calls and callback), packet forger | stale and racing responses, partial failure, retries |
| Packet forger and sequencer (`Core/Src/PacketForger.cpp`, `Packets.cpp`) | sequence number, generator state, queue of 100 | `reset_sequencer`, `operator()`, `get_pending_packets` | main module, data collector | unguarded reset, queue limit |
| Data collector (`DataCollector.hpp`) | two maps, a mutex | `set`, `get`, arrays key by key | CAN, GPS, gyroscope write; forger reads | snapshots across keys |
| CAN receiver (`CANTask.cpp`) | fill level of a round | `process_can_rx` and what it sets | controller's FIFO, data collector | cases that fall through, frames of the wrong size, lost frames |
| Display (`NextionTask` in `cppmain.cpp`) | none | reads keys, writes its port | data collector | the same snapshots |
| Shell (`Shell.cpp`, `Log.hpp`) | queue, line buffer, screen of the host | `send_str`, `isr_new_chars`, `operator()`, `new_char`, `raw_send` | loggers of every task and its own, USB interrupt, host | a task that sends to the queue only it empties, a host that stops reading |
| Clock (`stdcompat.cpp`) | time base, tick | `set_time`, `_gettimeofday` | GPS task, main task | two writers, midnight, wrap of the tick |
| NMEA reader (`NMEA.cpp`, `GPSTask.cpp`) | none | `parse_line`, `parse_time` | clock, data collector | damaged lines, lines without a fix |
| Start-up (`main.c`, `cppmain.cpp`, `Globals.cpp`, `CharConv.hpp`) | what is initialised, masked interrupts, the key | `main`, `cpp_init`, `init_globals`, `from_chars` | every task, the reboot record | order of steps, interrupts before their tasks, failures that reset |
| Accelerometer (`GyroTask.cpp`, `LIS3DSH.hpp`) | sampling, which survives a reset of the board | `reboot`, `whoami`, configuration, the interrupt | start-up | an interrupt of the life before |
| UART transmit path (`UARTTasks.hpp`) | stream buffer, buffer of the DMA | `transmit`, `operator()`; the error callback's stop | coordinator, display, HAL | a stop while it sends, a buffer reused too early |

What makes them correct: the coordinator never uses a call's stack after the call,
answers each call once and in order with the answer to that call, and lets every call
return; the receive path loses bytes only where a queue was full or the line erred,
and falls into step again; what is transmitted comes out in order and whole but for
the rest of a buffer that an error stopped; the record reports each fire once it has
been written, and nothing else; packet numbers are used once; what one message says is
seen together by a packet during which nothing is set; no measurement goes back; the
shell never blocks a task that logs, executes the line that was typed, and keeps the
prompt out of what is logged; the clock is right after a good line, and a damaged one
never tells it another time; the board uses the key it was configured with, and comes
up after any sequence of resets, with no interrupt before its task.

`PROJECT.json` lists every component, and under `hazards` each place where the
code is hard to test with the properties that watch it, or the reason why none
does yet.

## 2. Modules

| Module | Models | Composes |
|---|---|---|
| `CommandService` | abstract: what the coordinator promises its callers | |
| `GSMCoordinator` | callers, coordinator task, queue, boot flags, modem | refines `CommandService` |
| `GSMCoordinatorProofs` | theorems about it | extends `GSMCoordinator` |
| `ServiceProofs` | the refinement as a theorem | extends `GSMCoordinatorProofs` |
| `DelimitedReader` | the line reader as operators | |
| `UartReceiver` | peer, DMA, interrupts, queues, reading task | extends `DelimitedReader` |
| `UartTransmitter` | a caller of `transmit`, the task, the DMA | |
| `UartLine` | both directions and the error callback | extends `UartReceiver`, `UartTransmitter` |
| `UartLineProofs` | theorems about the reader and both directions | extends `UartLine` |
| `InterReboot` | the reboot record across lives | |
| `InterRebootProofs` | theorems about it | extends `InterReboot` |
| `PacketForger` | the forger, its sequencer load by load, its queue | |
| `Session` | the main task, the coordinator's callback, the modem's session | extends `PacketForger`; the coordinator as in `CommandService` |
| `SessionProofs` | theorems about both | extends `Session` |
| `Telemetry` | CAN task, GPS task, data collector, packet and display readers | |
| `TelemetryProofs` | theorems about it | extends `Telemetry` |
| `Shell` | the terminal task, its senders, the line buffer, the USB host | |
| `ShellProofs` | theorems about it | extends `Shell` |
| `CharConv` | `from_chars` of big numbers as operators | |
| `NMEA` | the reader of a line as operators | |
| `Clock` | time base, tick and the two tasks that set it | extends `NMEA` |
| `Board` | `main`, `cpp_init`, first steps of the tasks, resets, accelerometer | extends `Clock`, `CharConv` |
| `BoardProofs` | theorems about start-up, clock, checksum and key | extends `Board` |
| `MC*` | constants for TLC | |

### GSMCoordinator

State and code correspond one to one: `queue` is `m_queue_handle`, `active`,
`cmdq` and `buffer` are the three members of `CoordinatorQueueHelper`, `flags`
and `inconsistent` the atomics of the coordinator, `container` and `sema` the
objects on each caller's stack, `stores` how far a task is in `reset_state`,
`at` where the coordinator is in `new_reply`. `httpResponse` is whether
`m_last_http_response` is engaged. `inbox`, `boot` and `budget` belong to the
modem, which is external and modelled from how the code uses it.

A step of a task ends before it touches something another task writes, so
`update_state` is three steps (test, mark, set) and `reset_state` six, and they
interleave; everything between two such points is one action. An element of
data stands for one line: the cutting of bytes into lines is `UartReceiver`'s
subject, and the parser is reduced to the kind of reply it returns.
`calls` and the `for` of a line are history: they tell whose answer a line is.
`for` is never read by an action of the coordinator.

The modem executes commands in order, answers each with at most one line of
information and a final line, may reset at any time, and prints its boot
messages in `BootOrder` after a reset or a `CFUN`. `Lossy` lets the line lose
any command or line. A full queue loses a line always, as the code does.

### UartReceiver

`Byte` is a byte received by the DMA controller, and raises the half and full
interrupts; `FallIdle` raises the UART's idle interrupt. The three handlers call
`RxEvent`, which is `isr_rx_event`: offsets, the wrap, the cut into chunks, the
queue that drops what does not fit. `ErrorEvent` restarts the DMA and leaves the
offset. `ReadByte` is a character through `add_chars`. Bytes carry their number,
which the code never sees, so that order and loss can be told.

Assumed of the hardware: both receive DMAs are circular (`NewTele.ioc:20,40`),
all interrupts have one priority and the DMA's are served before the UART's, and
a DMA event is handled before the next half of the buffer has filled (16 bytes:
a third of a millisecond at the modem's 460800 baud).

### UartTransmitter and UartLine

`out` is what a call of `transmit` has yet to send, `stream` is `m_stream`,
`txBuffer` and `pending` are `m_uart_buffer` and `pending_size`, `txTask` where the
task is. `SendToStream` is one chunk, which waits for room for all of it;
`ReceiveFromStream`, `StartDma` and `WaitUntilReady` are the loop of the task. A
byte is its number. The stream has one caller: the coordinator's task sends the
commands and the data of `HTTPDATA`, the display's task its own port;
`TxDelimitedRxTask::transmit` (`UARTTasks.cpp`) has no caller and transmits nothing.
`SendByte`, `TransmissionComplete` and `StopTransmission` are the HAL's, external:
`HAL_UART_DMAStop` makes the port ready, so that the task does not wait for ever.

`UartLine` puts both directions together. They share the error callback alone,
`ErrorCallback`, which is `ErrorEvent` and `StopTransmission` in one step; that
receiving is started again without an error of the HAL is assumed, because the HAL's
source is not in the repository.

### InterReboot

`record` is `g_inter_reboot_data`; every store of the code to it is an action, and
`Reset` and `PowerLoss` may come between any two. `catched_fire` is one sequence
of actions used by the watchdog (with "no fire") and by a fire (`burning`), which
disables interrupts, so that nothing follows it but the reset. The CRC is a
function that tells records apart. `pending` and `due` are history. A name that is
one too long is stored over the size that bounds the copy: what follows is
undefined, and both outcomes of a build are actions: the loop ends, or runs on
until it faults, and the fault handler catches fire once more.

### PacketForger and Session

`ready`, `seq`, `rng` are the sequencer's members; `reset_sequencer` and the
forger's `m_last_seq_id++` and `xoshiro_next` are one step for each load and
store, since the mutex is in comments. A packet is its number and the origin of its
random number. `forging` is where the forger is, `packets` the queue.

`pc` is the routine and the step the main task is at, `Steps` the routines in the
order of the code; `task` holds its local variables, `response` the optional
`m_last_http_response`, with whether it answers the request made last. A command and
its replies are one step: `CommandService` is why that is enough. `Unexpected` is
what differs between `http_request`, which does not look at replies, and
`packet_loop`, which fails. `flags` and `mark` are those of the coordinator:
`ModemBoots` sets them as `update_state` does. The modem has a bearer, an HTTP
service and a request out; `Fault` is a brown-out, a wrong answer or a time that
runs out too early, `MaxFaults` times.

### Telemetry

A measurement is the number of the message it came with. `Writes` is
`process_can_rx`: which keys each frame sets and in which order, the cases that
fall through included. `Set` and `Get` lock the map once each. The keys of arrays
are views of a string that has died: `Confused` is the set of entries a later lookup
may find. (The map has few entries while it is small, and libstdc++ then compares
with each.) One reader is followed at a time because readers change nothing.

### Shell

`sending` is the strings each task has still to send with `send_str`, `todo` what
`operator()` has still to do for the element it has received, `line` the
`LineBuffer`. The terminal task sends to its own queue when a line ends, before it
takes the next character. A string is the number of elements it takes (`String`): the
prompt one, a line of up to 80 characters as many as its length asks for, an empty one
none (`Echo`). `usb` is whether `CDC_Transmit_FS` would say OK. `cursor` and `top` are
the host's screen. Nothing in the code moves the cursor off the row it is on before the
first prompt, so it and the place the terminal has saved may be anywhere at first, and
again when the host opens a new screen (`Plug`); a board that starts again finds the
screen as it was left. Where a part of a string leaves the cursor is below when it ends
a line, and on its row or below otherwise (`RowAfter`). A part shown on the top row
makes a mess of it: that is the first log entry, which "the top-mode prompt destroys"
(`Watchdog.cpp:85`). `drawn` and `endShown` are history: whether the prompt has been
begun on this screen, and whether a line end has been shown on it.

### NMEA, CharConv, Clock and Board

`ParseLine` is `parse_line` up to the time: dollar, checksum, talker, fields and
`parse_time`, on lines of bytes with all the fields of a GGA sentence and times of six
digits; `WholeReadings` and `DamagedReadings` are what it makes of every line of a day
and of every way to lose a character or to make it any other byte. The sum is the
exclusive or of bytes, and `CharToHex` takes digits of either case, as the code does:
a digit of the sum that becomes the same one in the other case leaves a line that is
read, and rightly. `FromChars` is `from_chars` with the words it leaves unwritten; a
text may have any length, and `Number` is what it means. `KeyFrom` accepts a key that
is not 0, is below the order of the group (`Order`) and has the public key of the
configuration, if that has both halves. The exclusive or is written out for the bits
of half a byte, and sums over texts are recursive functions, so that the provers can
use them. `IsDate` and `DaysTo` count days without `YmdToDays`, and hold the model's
first days (`StartsAssumption`) to the calendar. `Clock` takes a line in two steps,
the reading of the clock for its day and the setting, and lets the other task set it
in between. `good`, `right` and `slips` are history: that the time of day is known,
that the day comes of an answer of the modem, and how many lines were read around
midnight since.

`Board` is one life after another: `BootSteps` is the order of `main()` and
`cpp_init`, `made` what has been made, `masked` that FreeRTOS has raised BASEPRI. A
step that fails catches fire (`Error_Handler`, `std::terminate`, the hook of the
heap), which ends in a reset as `InterReboot` has it. RAM is lost at a reset; the
reset flags, the record and the accelerometer's registers are not.

## 3. Runs

| Run | Instance | Shows |
|---|---|---|
| `coordinator_service` | 3 callers, queue of 2, one reset, lossy line; 72 000 states | no command refers to a dead stack frame, none is forgotten, answered twice or left idle, and the coordinator implements the service |
| `coordinator_init` | one caller of `CFUN` and `HTTPDATA`, a stray final line; 670 000 states | whatever stores of `reset_state` and `update_state` interleave, the mark never outlives the handler |
| `coordinator_attribution` | 2 callers, `HTTPDATA` and `AT`, lossy line, an unsolicited line; 510 000 states | each call returns the complete answer to itself, and no other payload is fed to its command |
| `coordinator_liveness` | 2 callers, one reset, nothing lost, queue of 6; 260 000 states; deadlock checked | every call returns |
| `coordinator_lost` | one caller, lossy line | **violated**: one lost line and the call waits for ever |
| `uart_receiver` | ring of 4, queues of 2 and 1, lines of 2, 7 bytes received; stream of 3, chunks of 2, buffer of 3, 7 bytes transmitted; one error; 387 000 states | order, locality of loss, resynchronisation, arrival; at every moment what has come out is in order and lacks only the rest of a stopped buffer, and in the end all of it has come out |
| `reboot_record` | names of 2, four fires of which one has a longer name, 3 resets; 1 290 000 states | reports are true, written fires are reported, the watchdog leaves a clean record |
| `reboot_name` | the same | **violated**: the size exceeds the name |
| `session` | queue of 2, batches of 1, 3 packets, 2 failures before a restart, 2 faults; 1 055 000 states; deadlock checked | one request at a time, responses that are those of their request, packets in order, posting goes on |
| `telemetry` | frames of one cell, 2 cells, FIFO of 1, four frame identifiers, 2 messages; 194 000 states; deadlock checked | groups agree at rest, quiet packets are whole, no measurement goes back, frames get through |
| `shell` | queue of 2, elements of 2, a line of 2, messages of 2 elements, 2 inputs, one unplugging, a screen in any state at first and a new one after it; 1 046 000 states | loggers return, messages lose only their end, lines are those typed, the prompt is current and out of the way of what is logged |
| `board` | days of 12 seconds (2 hours of 2 minutes of 3) of 2 ticks, 34 ticks, a tick that wraps at 19, 10 key configurations, an order of 13, damage to any of 256 bytes, 3 events; 572 000 states; deadlock checked | interrupts find their tasks, reports of fires give their cause, the key, the clock, what lines tell, start-up |

*Bounds.* Three callers are needed for one active command, one in `command_queue`
and one in the queue, the case where a flush has to release several; two queue
places let a line be dropped behind a command. `MaxCalls` only numbers calls
apart: callers call for ever. One reset at every point covers a half-boot flush;
the boot orders are shortened because the flags behave alike. A ring of four is
the smallest in which half, full and idle events differ, and seven bytes lap it.
Seven bytes transmitted, at once or by ones and fives, fill the stream, cross its
chunks and take three buffers. `Duplex = FALSE` uses one direction in a behaviour:
the other then adds its interleavings to the state space and nothing else, since
they share only the callback.
Three resets are enough to cut a fire, the boot check and the rewriting of the
same record. `MaxBytes`, `MaxErrors`, `MaxResets`, `MaxStrays` and
`MaxUnsolicited` bound the environment only, and `CHECK_DEADLOCK FALSE` stands
where the environment or a lossy line can really come to a stop.

In `session` a second fault is needed for a stale response, an early wait and then
a failed one; three packets fill a queue of two and lose one; two failures are the
smallest limit at which the counter of `main()` differs from its reset. In
`telemetry` the second message is the one that can be mixed with, or lost behind,
the first; the four identifiers are the sized frame, the one that falls through, a
plain one and one that is ignored. In `shell` an input of four characters fills two
elements and overflows a line, and a message of two elements can be cut between
them. In `board` the 34 ticks from the beginning of a day cross its midnight, begun
on a leap day and on the last day of a year, and the tick wraps in between; the
middle of a day of twelve seconds is far enough from midnight that a line must not
move the day there. Three events are an answer and two lines, or a line, a reset and
a damaged line. The ten
configurations are keys that are short, not below the order, too long, absent or with
junk in either word, and public keys that fit, do not, cannot be read or are too long.

*Fairness.* The scheduler is preemptive with equal priorities, so a task that can
run does: weak fairness of each task's step and of the handlers. Of the modem weak
fairness is asked only of answering what it holds and of finishing its boot,
in `coordinator_liveness` on a line that loses nothing, and of the line falling
idle and of the UART sending in `uart_receiver`, where a caller that transmits goes
on sending to the stream; in `session`, that the modem boots and answers a request
it has. In `board` it is asked of the processor's next step and of the first steps
of the tasks. No caller has to make a call, no peer to send, no host to fetch, and
no fault or reset to come or to stay away.

*What the runs taught.* `CallReturns` holds for one reset of a fully booted modem.
A second reset before the flags are set again goes unnoticed, because no message
repeats, and with a small queue a boot line may be dropped; both leave a command
waiting for ever, as any lost line does. `AnswersAreOwn` and `OneOutstanding` hold
only while the modem neither resets nor strays: after a flush the modem's late OK
completes the next command, and with no command active it stays in the buffer
(`GSMCoordinator.cpp:231`) in front of the next answer.

Session: the modem answers a request although it has no bearer, so a bearer that is
lost costs no wait; a response that comes after its wait has ended is taken for the
next request's, whose own response is taken for the one after, and so on until one
fails: `ResponsesAreOwn` and `KeepsPosting` assume no wait has ended too early
(`late`). `main()` tests the mark at the end of a failed `packet_loop`
(`MainGSMModule.cpp:250`), but the mark is up only while the coordinator handles one
line (`MarkIsTransient`): a brown-out is noticed by failures, practically never by
the mark, and the packets taken meanwhile are lost. The forger may draw from the
sequencer between the stores of `reset_sequencer` (`raced`); nothing notices.

Telemetry: a packet is whole only if nothing was set while it was made
(`QuietPacketsAreWhole`); a battery frame sets the consumption from its cell bytes;
an array's key may find another of its length.

Shell: "when this is called, the prompt line is empty" (`Shell.hpp:58`) is not so:
the callback only queues its strings, which are shown after the prompt has been
written again. A message that meets a full queue loses its end, a typed packet any
of its elements. The first entry on a new screen is lost under the prompt, as
`Watchdog.cpp:85` says; the prompt is current for all that, and from the first line end
on output goes on below it (`PromptIsCurrent`).

Line: an error of reception stops a transmission as well (`cppmain.cpp:222`), and the
rest of the buffer, up to 32 bytes of a command, never leaves; for the coordinator it
is a lost command, for which nothing but a reset of the modem releases the caller.

Board: `pvPortMalloc` in a constructor raises BASEPRI before the scheduler runs
(`FreeRTOSConfig.h:145`), and FreeRTOS keeps it up until the scheduler starts.
That the accelerometer's interrupt (`main.c:728`) does not notify a task that is not
there after a reset rests on that allocation alone: the mutant without it is a call
with a null handle. For the same reason the tick (`NewTele.ioc:176`) stands still
during start-up, and no timeout of the HAL ever ends. A key that is not accepted, or
an accelerometer that does not answer, is an endless sequence of resets
(`ComesUp` excepts the first, and faults come to an end in it). The flags of the RCC
are never cleared, so that a pin reset after a fire is reported as a software reset
too; the fire itself is always given the right cause. Errors of `from_chars` are
ignored: a text with junk or of too many digits leaves words of the key as they
happened to be.

Clock: a line without a fix sets the clock if it has a time; a line is read with the
day of the clock, so that one read on one side of midnight and set on the other puts
it a day off until the modem is asked again, and the next midnight can put it further
(`slips`). An answer that is set between the reading of the clock and its setting by
the other task is lost, and the older day put back; `right` and `slips` then go back
too, and `ClockIsRight` says no more of the day than they do. `parse_line` sets the
clock before it looks at the other fields.

Seen and not modelled: `parse_degrees` divides the fraction of the minutes by 100
whatever its digits (`NMEA.cpp:152`), `msl_altitude` is read from the field of the
HDOP (`NMEA.cpp:189`), `produce_full_packet` reads `battery_voltages[i + 1]`
(`cppmain.cpp:110`).

*Findings.* `send_command_async` has no timeout although a comment counts on one;
`catched_fire` bounds a name one character late. Both are in `PROJECT.json` with
the run that shows them.

## 4. Proofs

`GSMCoordinatorProofs` proves for every set of callers, queue size, set of
commands, boot order and misbehaviour of the modem, from `CoordinatorAssumption`
alone:

- `TypeCorrect`: `Spec => []TypeOK`;
- `CommandsAreLive`, `CommandsAreHeldOnce`, `WaitersAreHeld`, `CoordinatorIsNeverIdle`:
  the four safety invariants of the pipeline, all from one inductive invariant
  `PipelineInv`. None of them is inductive alone: that a command taken from the
  queue is alive needs that it is the only one of its caller there, which needs that
  a caller whose semaphore has been given has none anywhere, which needs that the
  flush has emptied `active` before it releases the queued ones. `PipelineInv` states
  this pointwise, for every position of the queue and of `command_queue`;
- `MarkIsTransient`: the inconsistent mark is down whenever the coordinator receives,
  from `MarkInv`, which follows the mark through the coordinator's own six stores
  while callers clear it at any time.

`ServiceProofs` proves, from the same assumption, that the coordinator implements
`CommandService` (`CoordinatorImplementsService`): `PipelineInv` makes the callers in
the pipeline those whose status is accepted, and their order a total one (`Facts`).
Because it is total, a step keeps it if it keeps it in one direction (`OrderKept`),
so that each step has only to be shown to move no call past another; it is then
`Accept` of the last, `Answer` of the first, or no step of the service.

The last part of `GSMCoordinatorProofs` proves that a call returns the complete answer
to itself and no other (`AnswersBelongToTheirCalls`), and that the modem holds one
command at most, the active one, and is fed no other payload (`OneCommandAtATime`):
for any callers, commands, queue size and unsolicited lines, and whatever the line
loses. Both assume `ReliableModem`, no resets, no stray final lines, no `CFUN` (which
resets the modem too) and a boot order that names no line twice, because without it
they are false ("What the runs taught" says how). `AnswerInv` follows the one command
from `inbox` through the lines in the queue to the reply buffer: each line under way
is the active command's or unsolicited (`LinesAreOwned`); behind a final one comes no
other of the command, nor is the command still in the modem (`FinalIsLast`); what is
in the buffer is the active command's and not final (`BufferIsOwned`); and every boot
line on its way is one whose flag is down, so that the mark never goes up and nothing
is flushed (`BootLinesAreNew`). The lines are named by their places, and `Kept` says
once how a step moves them, by one place at most and in order.

`UartLineProofs` proves of the reader, for every delimiter and line size:
`ReaderStaysBounded` (it never holds more than its buffer nor stays in the matched
state, so the retry in `add_char` is dead) and `DelimiterSynchronises` (a
two-character delimiter that arrives whole ends a line from any state). Of the receive
path it proves, for every even size of the buffer, chunks, queues, messages and number
of errors, `ReceiverTypeCorrect` and `BytesAreInOrder`. `OrderInv` adds to `InOrder`
where the DMA may be with each interrupt pending (`PlaceInv`: never more than half a
buffer ahead of the handler), which bytes the buffer holds of this lap and of the last
(`RingInv`), and that what has been handled was sent before what the next event reads
(`SeenInv`). The proof uses that a DMA event is handled before the next half is full
and that the DMA's event comes before the line's: assumptions of the model (2).
`OnlyRestartsSkipBytes` proves `LossIsLocal` from `LossInv`: a byte up to the last
that has been handled is in the queue, read or dropped by a full queue, or was sent
within a buffer's length of a restart of the DMA, and the offset is ahead of the DMA
only in the first lap after one. `IntactMessagesArrive` proves
`IntactMessagesAreCalledBack` for every delimiter of two different characters and all
messages that hold neither (`CleanMessages`, which the run's module assumes too, so
that TLC evaluates it). Its `ReaderInv` says what the reader holds while all of a
message, and the delimiter before it, has been read so far: the message up to the last
byte read, cut at the size of the buffer (`Cut`), or up to the delimiter's first
character with a match of one; `PeerInv` says that a second character is sent behind a
first only, and `SentInv` that what the buffer holds where an event reads was sent.
What was lost before does not appear: the first character of a delimiter leaves a
match of one in any state.

Of the transmit path it proves, for every size of the stream, its chunks and the
buffer and any transmissions and errors, `TransmittedInOrder`: `NothingIsPassedOver`.
`TxInv` says which byte is at each place: those the caller has still to send, those of
the stream, of the buffer and of the DMA follow one another without a hole, so that
what is behind them (`Done`) is either on the wire, in order, or behind a stop and
within a buffer of it. That the buffer is written again only after the wait for the
UART is what the step of `ReceiveFromStream` needs. `LineReceives` is the refinement
that joins the two: `UartLine`, whose errors stop both directions, implements the
specification of `UartReceiver`, so that the theorems about the receive path hold of
it.

`InterRebootProofs` proves of the record, for every name length, alphabet and set
of fires, and any number of resets and power losses: `RecordTypeCorrect`;
`ReportsAreTrue`, `FiresAreReported` and `WatchdogLeavesItClean`. The inductive
invariant `RecordInv` says, besides the properties, how far the stores have come
(`StoresInv`), that a CRC in the record is never that of another fire than the last
one, the CRC `self_check` has put aside included (`CrcInv`), and that a fire that is
due is in the record until it has been reported (`DueInv`); that the watchdog's own
name fits is needed because a name that does not would end its life with a fault.

`SessionProofs` proves of the session and the forger, for every size of queue and
batch, number of packets, limit of failures and number of faults, from
`ForgerAssumption` and `SessionAssumption`:

- `SessionTypeCorrect`: numbers stay in their range because a packet is begun only
  below the bound and the sequence never runs ahead of the packets made (`Counting`);
- `RequestsAreOneAtATime` and `ResponsesAreTheirs`, from `RequestsInv`: a request that
  is out holds the HTTP service, which makes `HTTPInit` fail wherever a routine begins
  anew, so it can only be waited for, given up, or have been overtaken by a stale
  response; and as long as no wait ended early a response exists only between its
  request and the end of the wait for it;
- `PacketsAreInOrder`, from `OrderInv`: posted, taken and queued packets are in
  increasing order below the next number (`Ordered`), through posting, giving up,
  taking, queueing and dropping; before there is a session nothing has been forged.
  The next number depends on how far the forger is between its loads and stores.

The steps of the main task are places in the table `Steps`: `StepsAre` says once
where each step is, `NextPlaces` that a routine never runs past its end.

`TelemetryProofs` proves, for every size of frames, arrays and FIFO, any number of
messages and whatever entries array keys are confused with:

- `MeasurementsNeverGoBack`, from `NumbersInv`: what readers have got under the name
  of a scalar is no newer than the map, the map no newer than the message in hand, and
  the FIFO is in order; what a lookup under a dead view may find is never a scalar's
  entry;
- `GroupsAreOfOneMessage`, from `GroupsInv`: while a task sets a group, the keys it
  has set have the number of its message and the others are still to be set. It needs
  that every message writes whole groups (`WritesAreWholeGroups`), which is the one
  place that looks at the table of `process_can_rx`, with its cases that fall through;
- `QuietPacketsHoldOneMessage`, from `QuietInv`: while nothing has been set since the
  packet was begun, what it has read is what the map still has.

`ShellProofs` proves, for every set of tasks that log, size of the queue, its elements
and the line, inputs and host:

- `PromptShowsTheLine`, from `PromptInv`: how far the terminal task is in its work on
  an element says where the cursor is, what it has saved and what the top row holds
  (`TodoInv`, `ScreenInv`). It supposes nothing of a screen at first. What the prompt
  may write over is what is shown before the first line end; from then on the place
  that is saved is below, because a part is shown only after the cursor was restored
  to it, and from below none goes back to the top row;
- `MessagesAreShownFromTheStart`, from `PartsInv`: the parts of one task's strings, from
  the last shown through the one in hand and those in the queue to the one to be sent
  next, each follow the one before or begin a message (`InOrder`);
- `TypedLinesAreExecuted`, from `LineInv`: as long as nothing was dropped and no line
  outgrew the buffer, there are characters on their way that lead from `line` to what
  the host has typed (`Played`), and they are, in this order, those the terminal task
  has still to take and those of the queue's elements (`Cuts`). It needs what the
  recursive functions of the model compute for inputs of any length (`Chunks`,
  `Edits`). That is induction, which the library has only as theorems with an operator
  parameter; it is proved here as a fact about sets (`SetInduction`): a set of numbers
  that has 0 and with each its successor has all, because its complement would have a
  least one.

`BoardProofs` proves every safety property of `Board` and `Clock`, for any constants
that satisfy their assumptions (texts in the configuration may be of any characters
and length, memory may hold anything):

- `TasksAreThere` (`InterruptsFindTheirTasks`), from `PlaceInv`: where `main()` is in
  `BootSteps` says what has been made, and from the second step to the scheduler
  interrupts are masked;
- `CausesOfFires` (`FiresAreSoftwareResets`), from `FireInv`: as long as the power has
  stayed, a fire in the record has left the flag of the software reset behind;
- `DamageDoesNotMislead` (`LinesTellTheTime`). It rests on what the checksum does
  to lines of any length: exclusive or is injective in each argument (`XorRow`,
  `XorColumn`), so that an altered character alters the sum, unless it is a digit of the
  sum in the other case, which is the same sum (`AlterationIsSeen`); and a lost one is
  seen by the sum or by the shape of the line (`LossIsSeen`), since no character is 0.
  A whole line is read as the time it was made of (`WhatIsRead`), for hours, minutes
  and seconds of two digits, `NMEAAssumption`, which 24, 60 and 60 satisfy;
- `ClockStaysRight` (`ClockIsRight`), from `ClockInv`: the time base is within a
  second of the last reset's time, in the time of day or, but for the days that have
  slipped, altogether, and a line or an answer in hand holds the true time of its age.
  It needs that the day found in the clock is that of the clock and the line alike
  unless midnight is near, and one day from it if so (`DayThatIsFound`), `WhatIsRead`,
  and that the modem's date is the true one (`AnswersAreTrue`). A day has three
  seconds or more: in a shorter one the seconds between clock and line could hold two
  midnights. `Delay`, how
  old a time may be when it is used, is a bound of the model: the tolerance of the
  property, two seconds, is that of a `Delay` of one;
- `DaysAreCounted`: for every date `YmdToDays` is the number of days since 1970-01-01,
  as `DaysTo` counts them by years, leap years and months;
- `KeyComesFromConfig` (`KeyIsTheConfigured`): the key the tasks run with is the
  number in the configuration, for texts of digits of any length that fit, whatever is
  in the memory before. `WordsOfText` says that `from_chars`, which reads a text in
  segments from its end, cuts a number into its words (`NumberInParts`), and
  `ReadDigits` that these words, with zeros for the rest of the array, are worth the
  number.

These sums and calendars are recursive functions, and what they are for every input is
induction again: `SetInduction` as in `ShellProofs`, and `Recursion` for functions on
`0..n`.

Every invariant and every action property of the passing runs is stated by a theorem.
Only model-checked is all liveness (`CallReturns`, `EverythingArrives`,
`EverythingIsTransmitted`, `KeepsPosting`, `FramesGetThrough`, `LoggersReturn`,
`ComesUp`): it rests on fairness, which the prover cannot use, as it cannot expand
ENABLED.

## 5. Plan

Done: coordinator and its refinement, both directions of the line, reboot record,
session with forger, telemetry, shell, clock, start-up, and the theorems above. Left:

1. The watermark scan of the watchdog's loop.
2. Lemmas towards liveness that do not mention ENABLED: that a step which fairness
   asks for decreases what is left to do.

## 6. Not modelled, and why

- The text of commands, replies, packets and log messages, the layout of the display,
  conversions of units and of degrees: they have no state the properties depend on.
- Cryptography and CRCs: taken to tell inputs apart.
- The values written to peripherals' registers and the rest of the generated USB
  code: the HAL is external, and appears as calls that succeed or fail.
- Benchmarks, `run_tests`, `Parsers.cpp` and the `Spinlock`: nothing calls them.
- The allocator of `malloc` within interrupts: no interrupt of the firmware
  allocates, so its arena is never used.
