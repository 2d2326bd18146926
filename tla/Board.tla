-------------------------------- MODULE Board --------------------------------
(***************************************************************************)
(* The board from power on: main() of Core/Src/main.c and cpp_init, step   *)
(* by step, the tasks' first steps, and every way back to the beginning;   *)
(* and the clock, which a reset loses, while the tasks run.                *)
(*                                                                         *)
(* Interrupts of the priorities FreeRTOS looks after are masked from the   *)
(* first call of its API to the start of the scheduler, and the time of    *)
(* the board stands still.                                                 *)
(***************************************************************************)
EXTENDS Clock, CharConv

CONSTANTS
    Words,    \* words in a key: 8
    Configs,  \* what is compiled in: [sk, pkx, pky], texts
    Order,    \* of the group of P-256: a private key is less
    Rubbish,  \* what an array of words may hold before it is written
    Watched   \* bound: those with which the model goes on to the clock

ASSUME BoardAssumption ==
    /\ Words \in Nat \ {0} /\ Order \in Nat
    /\ Watched \subseteq Configs /\ Rubbish \subseteq [1..Words -> Nat]
    /\ \A c \in Configs : {c.sk, c.pkx, c.pky} \subseteq Seq(Nat)

VARIABLES
    config,    \* the configuration of this board
    step,      \* the number, in BootSteps, of the step to come
    made,      \* what the steps of this life have made
    masked,    \* interrupts are masked
    key,       \* g_privkey
    gyro,      \* how far the task of the accelerometer has come
    sampling,  \* the accelerometer raises interrupts; a reset of the board
               \* does not reset it
    flags,     \* the reset flags of the RCC
    record,    \* g_inter_reboot_data has a fire, see InterReboot
    reported,  \* what the watchdog task has logged in this life
    powerLost  \* history: since the fire in the record

life == <<step, made, masked, key, gyro, reported>>
remains == <<sampling, flags, record, powerLost>>
vars == <<clock, events, config, life, remains>>

Silent == [cause |-> "none", fire |-> FALSE]
NoKey == [i \in 1..Words |-> 0]

\* Mutant: the ports before the DMA controllers they are connected to.
BootStepsPortsFirst == <<
    "constructors", "clock", "gpio", "i2c1", "i2s3", "spi1", "crc", "rng",
    "usart2", "usart3", "dma", "tim2", "can1", "usart6", "default",
    "globals", "watchdog", "shell", "gps", "gps rx", "can", "forger",
    "coordinator", "gsm rx", "gsm tx", "timer", "main", "nextion",
    "scheduler", "tasks">>

\* main() and, from "globals" to "nextion", cpp_init.
BootSteps == <<
    "constructors", "clock", "gpio", "i2c1", "i2s3", "spi1", "crc", "rng",
    "dma", "usart2", "usart3", "tim2", "can1", "usart6", "default",
    "globals", "watchdog", "shell", "gps", "gps rx", "can", "forger",
    "coordinator", "gsm rx", "gsm tx", "timer", "main", "nextion",
    "scheduler", "tasks">>

Init ==
    /\ ClockInit /\ events = 0
    /\ config \in Configs
    /\ step = 1 /\ made = {} /\ masked = FALSE /\ key = NoKey
    /\ gyro = "none" /\ reported = Silent
    /\ sampling = FALSE /\ flags = {"POR", "PIN", "BOR"}
    /\ record = FALSE /\ powerLost = TRUE

Reborn ==
    /\ step' = 1 /\ made' = {} /\ masked' = FALSE /\ key' = NoKey
    /\ gyro' = "none" /\ reported' = Silent
    /\ ClockReset
    /\ UNCHANGED config

At(name) == BootSteps[step] = name
GoOn == step' = step + 1
Running == At("tasks")

-----------------------------------------------------------------------------
(* Resets.                                                                 *)

NVIC_SystemReset == flags' = flags \cup {"SFT", "PIN"} /\ Reborn

\* halt_and_catch_fire; InterReboot has its every store.
HaltAndCatchFire ==
    /\ record' = TRUE /\ powerLost' = FALSE
    /\ NVIC_SystemReset
    /\ UNCHANGED sampling

Error_Handler == HaltAndCatchFire

\* The heap has no room; an exception that nobody catches.
MallocFailedHook(name) == At(name) /\ Happens /\ HaltAndCatchFire
Terminate == HaltAndCatchFire

\* The reset pin, and the "restart" command of the shell.
PinReset ==
    /\ Happens
    /\ flags' = flags \cup {"PIN"} /\ Reborn
    /\ UNCHANGED <<sampling, record, powerLost>>
RestartCommand ==
    /\ Running /\ Happens
    /\ NVIC_SystemReset
    /\ UNCHANGED <<sampling, record, powerLost>>

\* After a short one the record is still there.
PowerLoss ==
    /\ Happens
    /\ flags' = {"POR", "PIN", "BOR"}
    /\ record' \in {record, FALSE}
    /\ sampling' = FALSE /\ powerLost' = TRUE
    /\ Reborn

-----------------------------------------------------------------------------
(* main().                                                                 *)

\* A step that makes things, calling FreeRTOS or not.
Make(name, things, callsRTOS) ==
    /\ At(name)
    /\ GoOn
    /\ made' = made \cup things
    /\ masked' = (masked \/ callsRTOS)
    /\ UNCHANGED <<clock, events, config, key, gyro, reported,
                   remains>>

Fails(name) == At(name) /\ Happens /\ Error_Handler

\* A call of the HAL that may fail.  One that waits for its device waits
\* until it answers: the time by which it would give up stands still.
Device(name, things) == Make(name, things, FALSE) \/ Fails(name)

\* Mutant: the task of the accelerometer is not on the heap.
MainModuleByValue == Make("constructors", {}, FALSE)

\* The constructor of the main module allocates the task that the
\* interrupt of the accelerometer notifies: a call of pvPortMalloc.
MainModule ==
    Make("constructors", {}, TRUE) \/ MallocFailedHook("constructors")

SystemClock_Config == Device("clock", {})

\* The pins, and the interrupts of the accelerometer.
MX_GPIO_Init == Make("gpio", {"EXTI0"}, FALSE)

MX_I2C1_Init == Device("i2c1", {})
MX_I2S3_Init == Device("i2s3", {})
MX_SPI1_Init == Device("spi1", {})
MX_CRC_Init == Device("crc", {})
MX_RNG_Init == Device("rng", {})
MX_TIM2_Init == Device("tim2", {})
MX_CAN1_Init == Device("can1", {})

MX_DMA_Init == Make("dma", {"dma"}, FALSE)

\* HAL_UART_Init sets up the streams of a port that has some, for which the
\* clocks of the DMA controllers must be on.
Streams(name) == IF "dma" \in made THEN {name} ELSE {}
MX_USART2_UART_Init == Device("usart2", Streams("usart2"))
MX_USART3_UART_Init == Device("usart3", Streams("usart3"))
MX_USART6_UART_Init == Device("usart6", Streams("usart6"))

DefaultTask ==
    Make("default", {"default"}, TRUE) \/ MallocFailedHook("default")

-----------------------------------------------------------------------------
(* init_globals.                                                           *)

\* get_sk_from_config: the texts are read, without regard to errors, into
\* arrays that nothing has initialised; a key of 0, or not below the order
\* of the group, has no public key, and the public key is compared with the
\* one of the configuration when both halves are given.  NoKey when it does
\* not accept the key.
KeyFrom(c, sk, x, y) ==
    LET d == FromChars(sk, c.sk)
    IN  IF /\ d # NoKey /\ Worth(d) < Order
           /\ \/ <<>> \in {c.pkx, c.pky}
              \/ FromChars(x, c.pkx) = d /\ FromChars(y, c.pky) = d
        THEN d ELSE NoKey
Keys ==
    [c \in Configs |-> {KeyFrom(c, sk, x, y) :
                           sk \in Rubbish, x \in Rubbish, y \in Rubbish}]

\* The filter and the start of the CAN controller may fail as well.
InitGlobals ==
    \/ /\ At("globals")
       /\ key' \in Keys[config] \ {NoKey}
       /\ GoOn
       /\ made' = made \cup {"can started"}
       /\ UNCHANGED <<clock, events, config, masked, gyro,
                      reported, remains>>
    \/ /\ At("globals")
       /\ NoKey \in Keys[config]
       /\ Error_Handler
       /\ UNCHANGED events
    \/ Fails("globals")

-----------------------------------------------------------------------------
(* cpp_init.                                                               *)

Create(name, things) == Make(name, things, TRUE)

\* These tasks, or those of their ports, have their stacks on the heap.
CreateOnHeap(name) == Create(name, {name}) \/ MallocFailedHook(name)

\* begin_rx tries until the HAL says yes.
BeginRx(name, port) == port \in made /\ Make(name, {name}, FALSE)

\* The accelerometer's task is created by the main task's create.
CreateTasks ==
    \/ \E name \in {"watchdog", "shell", "can", "forger", "coordinator"} :
          Create(name, {name})
    \/ \E name \in {"gps", "gsm tx", "timer", "nextion"} : CreateOnHeap(name)
    \/ BeginRx("gps rx", "usart3")
    \/ BeginRx("gsm rx", "usart2")
    \/ Create("main", {"main", "gyro"})

\* osKernelStart.
StartScheduler ==
    /\ At("scheduler")
    /\ GoOn
    /\ masked' = FALSE
    /\ UNCHANGED <<clock, events, config, made, key, gyro,
                   reported, remains>>

-----------------------------------------------------------------------------
(* First steps of the tasks.                                               *)

MX_USB_DEVICE_Init ==
    /\ Running /\ "usb" \notin made
    /\ made' = made \cup {"usb"}
    /\ UNCHANGED <<clock, events, config, step, masked, key, gyro,
                   reported, remains>>

\* Mutant: the flags are looked at in the order of their bits.
GetResetCauseByBit ==
    IF "BOR" \in flags THEN "brownout"
    ELSE IF "PIN" \in flags THEN "external reset pin"
    ELSE IF "POR" \in flags THEN "power on"
    ELSE IF "SFT" \in flags THEN "software" ELSE "unknown"

\* The first that is set.  Nobody clears the flags.
GetResetCause ==
    IF "SFT" \in flags THEN "software"
    ELSE IF "POR" \in flags THEN "power on"
    ELSE IF "PIN" \in flags THEN "external reset pin"
    ELSE IF "BOR" \in flags THEN "brownout" ELSE "unknown"

\* The watchdog task, up to its loop.
Report ==
    /\ Running /\ reported = Silent
    /\ reported' = [cause |-> GetResetCause, fire |-> record]
    /\ record' = FALSE
    /\ UNCHANGED <<clock, events, config, step, made, masked, key, gyro,
                   sampling, flags, powerLost>>

Gyro(from, to) ==
    /\ Running /\ gyro = from
    /\ gyro' = to
    /\ UNCHANGED <<clock, events, config, step, made, masked, key, reported,
                   flags, record, powerLost>>

\* reboot() asks the accelerometer to start afresh and waits until it has;
\* a wrong answer to whoami is an exception nobody catches.
GyroReboot == Gyro("none", "asked") /\ sampling' = FALSE
GyroWait == Gyro("asked", "rebooted") /\ UNCHANGED sampling
GyroWhoami ==
    \/ Gyro("rebooted", "known") /\ UNCHANGED sampling
    \/ Running /\ gyro = "rebooted" /\ Happens /\ Terminate
GyroConfigure == Gyro("known", "ready") /\ sampling' = TRUE

\* From then on an interrupt notifies the task, which reads a sample and
\* does nothing with it.
GyroSample ==
    /\ "EXTI0" \in made /\ ~masked /\ sampling
    /\ Running /\ gyro = "ready"
    /\ UNCHANGED vars

-----------------------------------------------------------------------------
(* The specification.                                                      *)

Boot ==
    /\ ~Running
    /\ \/ MainModule \/ SystemClock_Config \/ MX_GPIO_Init \/ MX_I2C1_Init
       \/ MX_I2S3_Init \/ MX_SPI1_Init \/ MX_CRC_Init \/ MX_RNG_Init
       \/ MX_DMA_Init \/ MX_USART2_UART_Init \/ MX_USART3_UART_Init
       \/ MX_TIM2_Init \/ MX_CAN1_Init \/ MX_USART6_UART_Init
       \/ DefaultTask \/ InitGlobals \/ CreateTasks \/ StartScheduler

GyroTask ==
    GyroReboot \/ GyroWait \/ GyroWhoami \/ GyroConfigure \/ GyroSample

\* What the board is when all tasks have taken their first steps.
Up ==
    /\ Running
    /\ {"gps rx", "gsm rx", "usb", "can started"} \subseteq made
    /\ reported # Silent /\ gyro = "ready" /\ sampling

\* The clock runs, and is set, while the tasks do.
While(ClockStep) ==
    /\ Up /\ config \in Watched
    /\ ClockStep
    /\ UNCHANGED <<config, life, remains>>

Next ==
    \/ Boot
    \/ MX_USB_DEVICE_Init \/ Report \/ GyroTask
    \/ PinReset \/ RestartCommand \/ PowerLoss
    \/ While(Tick)
    \/ \E reading \in WholeReadings \cup DamagedReadings, age \in 0..Delay :
          While(LineWithFix(reading, age))
    \/ \E res \in ReadWithoutFix : While(LineWithoutFix(res))
    \/ While(SetFromLine)
    \/ \E age \in 0..Delay : While(Answer(age))
    \/ While(SetFromAnswer)

Spec == Init /\ [][Next]_vars

\* The processor goes on, and the scheduler gives each task its turn.
FairSpec ==
    /\ Spec
    /\ WF_vars(Boot)
    /\ WF_vars(MX_USB_DEVICE_Init) /\ WF_vars(Report) /\ WF_vars(GyroTask)

-----------------------------------------------------------------------------
(* Properties.                                                             *)

\* An interrupt that may be taken finds the tasks it notifies and the queues
\* it fills, above all that of the accelerometer, which goes on with its
\* interrupts when only the board is reset (main.c:728, MainGSMModule.cpp:37).
InterruptsFindTheirTasks ==
    ~masked =>
        /\ ("EXTI0" \in made /\ sampling) => "gyro" \in made
        /\ "gps rx" \in made => "gps" \in made
        /\ "gsm rx" \in made => "coordinator" \in made
        /\ "usb" \in made => "shell" \in made

\* When the watchdog reports a fire, it gives the reset that came of it as
\* the cause, whatever other resets there were, but for a loss of power
\* (STUtilities.cpp:16, Watchdog.cpp:77).
FiresAreSoftwareResets ==
    (reported.fire /\ ~powerLost) => reported.cause = "software"

\* A board that has come to its tasks uses the key of its configuration:
\* the number in sk_text, of whatever length, if it has digits only and
\* fits; and never a key to which a half of a public key in the
\* configuration, if it is such a text, does not belong (Globals.cpp:24,
\* CharConv.hpp:35).
KeyIsTheConfigured ==
    LET clean(text) == /\ Len(text) <= Words * SegmentSize
                       /\ \A k \in DOMAIN text : text[k] \in Digits
    IN  Running =>
            /\ clean(config.sk) => Worth(key) = Number(config.sk)
            /\ <<>> \notin {config.pkx, config.pky} =>
                  \A text \in {config.pkx, config.pky} :
                     clean(text) => Worth(key) = Number(text)

\* Whatever steps fail, and whatever resets it meets, the board comes up
\* when they stop: both receivers listen, USB is there, the watchdog has
\* reported and the accelerometer sends, if only the key is accepted.
ComesUp == NoKey \notin Keys[config] => <>[]Up
=============================================================================
