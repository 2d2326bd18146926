---------------------------- MODULE BoardProofs ----------------------------
(***************************************************************************)
(* Proofs about the start-up of the board, its clock and its key, for any  *)
(* configuration, any lines and answers, any number of faults and resets,  *)
(* days of three seconds or more, with hours, minutes and seconds of two   *)
(* digits, and any length of a second, of the tick and of the key.         *)
(***************************************************************************)
EXTENDS Board, SequenceTheorems, FiniteSetTheorems, WellFoundedInduction,
        TLAPS

-----------------------------------------------------------------------------
(* Interrupts find their tasks: where start-up is tells what it has made.  *)

\* Interrupts are masked but at the beginning and when the tasks run.
MaskedUntilTasks == step \in 2..29 => masked

\* At the beginning nothing is made; `thing` is after the step number i; and
\* USB once the tasks run.
MadeNothingYet == step = 1 => made = {}
MadeAfter(i, thing) == step > i => thing \in made
UsbIsATasks == "usb" \in made => step = 30

PlaceInv ==
    /\ step \in 1..30
    /\ MaskedUntilTasks
    /\ MadeNothingYet
    /\ MadeAfter(18, "shell") /\ MadeAfter(19, "gps")
    /\ MadeAfter(23, "coordinator") /\ MadeAfter(27, "gyro")
    /\ UsbIsATasks

\* The places of the steps that matter.
LEMMA Places ==
    /\ BootSteps[1] = "constructors" /\ BootSteps[18] = "shell"
    /\ BootSteps[19] = "gps" /\ BootSteps[23] = "coordinator"
    /\ BootSteps[27] = "main" /\ BootSteps[30] = "tasks"
    /\ \A i \in 1..29 : BootSteps[i] # "tasks"
    /\ \A i \in 1..30 : BootSteps[i] = "scheduler" => i = 29
<1> DEFINE s == BootSteps
<1>1. /\ s[1] = "constructors" /\ s[2] = "clock" /\ s[3] = "gpio"
      /\ s[4] = "i2c1" /\ s[5] = "i2s3" /\ s[6] = "spi1" /\ s[7] = "crc"
      /\ s[8] = "rng" /\ s[9] = "dma" /\ s[10] = "usart2"
      /\ s[11] = "usart3" /\ s[12] = "tim2" /\ s[13] = "can1"
      /\ s[14] = "usart6" /\ s[15] = "default" /\ s[16] = "globals"
      /\ s[17] = "watchdog" /\ s[18] = "shell" /\ s[19] = "gps"
      /\ s[20] = "gps rx" /\ s[21] = "can" /\ s[22] = "forger"
      /\ s[23] = "coordinator" /\ s[24] = "gsm rx" /\ s[25] = "gsm tx"
      /\ s[26] = "timer" /\ s[27] = "main" /\ s[28] = "nextion"
      /\ s[29] = "scheduler" /\ s[30] = "tasks"
  BY DEF BootSteps
<1> HIDE DEF s
<1>2. \A i \in 1..30 :
         \/ i = 1 \/ i = 2 \/ i = 3 \/ i = 4 \/ i = 5 \/ i = 6 \/ i = 7
         \/ i = 8 \/ i = 9 \/ i = 10 \/ i = 11 \/ i = 12 \/ i = 13 \/ i = 14
         \/ i = 15 \/ i = 16 \/ i = 17 \/ i = 18 \/ i = 19 \/ i = 20
         \/ i = 21 \/ i = 22 \/ i = 23 \/ i = 24 \/ i = 25 \/ i = 26
         \/ i = 27 \/ i = 28 \/ i = 29 \/ i = 30
  OBVIOUS
<1>3. \A i \in 1..30 : s[i] = "tasks" => i = 30
  BY <1>1, <1>2
<1>4. \A i \in 1..30 : s[i] = "scheduler" => i = 29
  BY <1>1, <1>2
<1>5. \A i \in 1..29 : s[i] # "tasks"
  BY <1>3
<1> USE DEF s
<1>6. /\ BootSteps[1] = "constructors" /\ BootSteps[18] = "shell"
      /\ BootSteps[19] = "gps" /\ BootSteps[23] = "coordinator"
      /\ BootSteps[27] = "main" /\ BootSteps[30] = "tasks"
  BY <1>1
<1> QED BY ONLY <1>4, <1>5, <1>6

LEMMA PlaceOfStep ==
    ASSUME PlaceInv, ~Running, NEW name, At(name), GoOn
    PROVE  step \in 1..29 /\ step' = step + 1 /\ BootSteps[step] = name
<1>1. step \in 1..30
  BY DEF PlaceInv
<1>2. BootSteps[step] # BootSteps[30]
  BY Places DEF Running, At
<1>3. step # 30
  BY <1>2
<1> QED BY <1>1, <1>3 DEF At, GoOn

\* A step that makes nothing the invariant is about but at its place.
LEMMA PlaceStart ==
    ASSUME PlaceInv, ~Running,
           NEW name, NEW things, NEW callsRTOS,
           At(name), GoOn, made' = made \cup things,
           masked \/ callsRTOS => masked',
           "usb" \notin things,
           name = "constructors" => callsRTOS,
           name = "shell" => "shell" \in things,
           name = "gps" => "gps" \in things,
           name = "coordinator" => "coordinator" \in things,
           name = "main" => "gyro" \in things,
           name # "scheduler"
    PROVE  PlaceInv'
<1>1. step \in 1..29 /\ step' = step + 1 /\ BootSteps[step] = name
  BY PlaceOfStep
<1>2. MaskedUntilTasks'
  <2>1. CASE step = 1
    <3>1. callsRTOS
      BY <1>1, <2>1, Places
    <3> QED BY <3>1 DEF MaskedUntilTasks
  <2>2. CASE step # 1
    <3>1. masked
      BY <1>1, <2>2 DEF PlaceInv, MaskedUntilTasks
    <3> QED BY <3>1 DEF MaskedUntilTasks
  <2> QED BY <2>1, <2>2
<1>3. UsbIsATasks'
  BY <1>1 DEF PlaceInv, UsbIsATasks
<1>4. MadeAfter(18, "shell")'
  BY <1>1, Places DEF PlaceInv, MadeAfter
<1>5. MadeAfter(19, "gps")'
  BY <1>1, Places DEF PlaceInv, MadeAfter
<1>6. MadeAfter(23, "coordinator")'
  BY <1>1, Places DEF PlaceInv, MadeAfter
<1>7. MadeAfter(27, "gyro")'
  BY <1>1, Places DEF PlaceInv, MadeAfter
<1>8. step' \in 1..30 /\ MadeNothingYet'
  BY <1>1 DEF MadeNothingYet
<1> QED BY <1>2, <1>3, <1>4, <1>5, <1>6, <1>7, <1>8 DEF PlaceInv

LEMMA PlaceMake ==
    ASSUME PlaceInv, ~Running,
           NEW name, NEW things, NEW callsRTOS,
           Make(name, things, callsRTOS),
           "usb" \notin things,
           name = "constructors" => callsRTOS,
           name = "shell" => "shell" \in things,
           name = "gps" => "gps" \in things,
           name = "coordinator" => "coordinator" \in things,
           name = "main" => "gyro" \in things,
           name # "scheduler"
    PROVE  PlaceInv'
<1>1. /\ At(name) /\ GoOn /\ made' = made \cup things
      /\ masked \/ callsRTOS => masked'
  BY DEF Make
<1> QED BY <1>1, PlaceStart

\* A life that begins has made nothing.
LEMMA PlaceReborn == ASSUME Reborn PROVE PlaceInv'
<1>1. step' = 1 /\ made' = {}
  BY DEF Reborn
<1>2. MaskedUntilTasks' /\ MadeNothingYet' /\ UsbIsATasks'
  BY <1>1 DEF MaskedUntilTasks, MadeNothingYet, UsbIsATasks
<1>3. \A i \in 1..30 : \A thing : MadeAfter(i, thing)'
  BY <1>1 DEF MadeAfter
<1> QED BY <1>1, <1>2, <1>3 DEF PlaceInv

\* Nor does what has nothing to do with the start-up disturb it.
LEMMA PlaceKept ==
    ASSUME PlaceInv, UNCHANGED <<step, made, masked>> PROVE PlaceInv'
BY DEF PlaceInv, MaskedUntilTasks, MadeNothingYet, MadeAfter, UsbIsATasks

LEMMA PlaceBoot == ASSUME PlaceInv, Boot PROVE PlaceInv'
<1>1. ~Running
  BY DEF Boot
<1>2. CASE \E name : Fails(name)
  BY <1>2, PlaceReborn DEF Fails, Error_Handler, HaltAndCatchFire,
                           NVIC_SystemReset
<1>3. CASE \E name : MallocFailedHook(name)
  BY <1>3, PlaceReborn DEF MallocFailedHook, HaltAndCatchFire,
                           NVIC_SystemReset
<1>4. CASE \/ Make("constructors", {}, TRUE) \/ Make("clock", {}, FALSE)
           \/ Make("gpio", {"EXTI0"}, FALSE) \/ Make("dma", {"dma"}, FALSE)
           \/ Make("default", {"default"}, TRUE)
  BY <1>1, <1>4, PlaceMake
<1>5. CASE \E name \in {"i2c1", "i2s3", "spi1", "crc", "rng", "tim2", "can1"} :
              Make(name, {}, FALSE)
  BY <1>1, <1>5, PlaceMake
<1>6. CASE \E name \in {"usart2", "usart3", "usart6"} :
              Make(name, Streams(name), FALSE)
  BY <1>1, <1>6, PlaceMake DEF Streams
<1>7. CASE InitGlobals
  <2>1. CASE At("globals") /\ Error_Handler
    BY <2>1, PlaceReborn DEF Error_Handler, HaltAndCatchFire, NVIC_SystemReset
  <2>2. CASE /\ At("globals") /\ GoOn
             /\ made' = made \cup {"can started"} /\ UNCHANGED masked
    BY <1>1, <2>2, PlaceStart
  <2> QED BY <1>2, <1>7, <2>1, <2>2 DEF InitGlobals
<1>8. CASE CreateTasks
  <2>1. CASE \E name \in {"watchdog", "shell", "can", "forger", "coordinator",
                          "gps", "gsm tx", "timer", "nextion"} :
                Make(name, {name}, TRUE)
    BY <1>1, <2>1, PlaceMake
  <2>2. CASE \E name \in {"gps rx", "gsm rx"} : Make(name, {name}, FALSE)
    BY <1>1, <2>2, PlaceMake
  <2>3. CASE Make("main", {"main", "gyro"}, TRUE)
    BY <1>1, <2>3, PlaceMake
  <2> QED BY <1>3, <1>8, <2>1, <2>2, <2>3 DEF CreateTasks, Create,
                                              CreateOnHeap, BeginRx
<1>9. CASE StartScheduler
  <2>1. step = 29 /\ step' = 30 /\ UNCHANGED made
    BY <1>9, Places DEF StartScheduler, PlaceInv, At, GoOn
  <2>2. MaskedUntilTasks' /\ MadeNothingYet' /\ UsbIsATasks'
    BY <2>1 DEF MaskedUntilTasks, MadeNothingYet, UsbIsATasks
  <2>3. ASSUME NEW i \in 1..28, NEW thing, MadeAfter(i, thing)
        PROVE  MadeAfter(i, thing)'
    BY <2>1, <2>3 DEF MadeAfter
  <2> QED BY <2>1, <2>2, <2>3 DEF PlaceInv
<1> QED
  BY <1>2, <1>3, <1>4, <1>5, <1>6, <1>7, <1>8, <1>9
  DEF Boot, Device, MainModule, SystemClock_Config, MX_GPIO_Init,
      MX_I2C1_Init, MX_I2S3_Init, MX_SPI1_Init, MX_CRC_Init, MX_RNG_Init,
      MX_DMA_Init, MX_USART2_UART_Init, MX_USART3_UART_Init, MX_TIM2_Init,
      MX_CAN1_Init, MX_USART6_UART_Init, DefaultTask

LEMMA PlaceStep == ASSUME PlaceInv, [Next]_vars PROVE PlaceInv'
<1>1. CASE MX_USB_DEVICE_Init
  <2>1. /\ step = 30 /\ UNCHANGED <<step, masked>>
        /\ made' = made \cup {"usb"}
    BY <1>1, Places DEF MX_USB_DEVICE_Init, PlaceInv, Running, At
  <2>2. MaskedUntilTasks' /\ MadeNothingYet' /\ UsbIsATasks'
    BY <2>1 DEF MaskedUntilTasks, MadeNothingYet, UsbIsATasks
  <2>3. ASSUME NEW i, NEW thing, MadeAfter(i, thing)
        PROVE  MadeAfter(i, thing)'
    BY <2>1, <2>3 DEF MadeAfter
  <2> QED BY <2>1, <2>2, <2>3 DEF PlaceInv
<1>2. CASE Report
  BY <1>2, PlaceKept DEF Report
<1>3. CASE GyroTask
  <2>1. CASE Terminate
    BY <2>1, PlaceReborn DEF Terminate, HaltAndCatchFire, NVIC_SystemReset
  <2> QED BY <1>3, <2>1, PlaceKept
          DEF GyroTask, GyroReboot, GyroWait, GyroWhoami, GyroConfigure,
              GyroSample, Gyro, vars, life
<1>4. CASE PinReset \/ RestartCommand \/ PowerLoss
  BY <1>4, PlaceReborn DEF PinReset, RestartCommand, PowerLoss,
                           NVIC_SystemReset
<1>5. CASE UNCHANGED life
  BY <1>5, PlaceKept DEF life
<1> QED BY <1>1, <1>2, <1>3, <1>4, <1>5, PlaceBoot DEF Next, While, vars

\* In every life, an interrupt that is not masked finds what it notifies.
THEOREM TasksAreThere == Spec => []InterruptsFindTheirTasks
<1>1. Init => PlaceInv
  BY DEF Init, PlaceInv, MaskedUntilTasks, MadeNothingYet, MadeAfter,
         UsbIsATasks
<1>2. ASSUME PlaceInv PROVE InterruptsFindTheirTasks
  <2>1. CASE masked
    BY <2>1 DEF InterruptsFindTheirTasks
  <2>2. CASE made = {}
    BY <2>2 DEF InterruptsFindTheirTasks
  <2>3. CASE step = 30
    <3>1. {"shell", "gps", "coordinator", "gyro"} \subseteq made
      BY <1>2, <2>3 DEF PlaceInv, MadeAfter
    <3> QED BY <3>1 DEF InterruptsFindTheirTasks
  <2> QED BY <1>2, <2>1, <2>2, <2>3 DEF PlaceInv, MaskedUntilTasks,
                                        MadeNothingYet
<1> QED BY <1>1, <1>2, PlaceStep, PTL DEF Spec

-----------------------------------------------------------------------------
(* Fires and their cause.                                                  *)

\* The reset a fire in the record has come of is still among the flags.
FireInv ==
    /\ record /\ ~powerLost => "SFT" \in flags
    /\ reported.fire /\ ~powerLost => reported.cause = "software"

LEMMA FireHalts == ASSUME FireInv, HaltAndCatchFire PROVE FireInv'
BY DEF HaltAndCatchFire, NVIC_SystemReset, Reborn, Silent, FireInv

LEMMA FireStep == ASSUME FireInv, [Next]_vars PROVE FireInv'
<1>1. CASE UNCHANGED <<reported, flags, record, powerLost>>
  BY <1>1 DEF FireInv
<1>2. CASE Boot
  BY <1>1, <1>2, FireHalts
  DEF Boot, Device, Fails, Error_Handler, Make, MallocFailedHook, remains,
      Create, CreateOnHeap, BeginRx,
      MainModule, SystemClock_Config, MX_GPIO_Init, MX_I2C1_Init,
      MX_I2S3_Init, MX_SPI1_Init, MX_CRC_Init, MX_RNG_Init, MX_DMA_Init,
      MX_USART2_UART_Init, MX_USART3_UART_Init, MX_TIM2_Init, MX_CAN1_Init,
      MX_USART6_UART_Init, DefaultTask, InitGlobals, CreateTasks,
      StartScheduler
<1>3. CASE Report
  BY <1>3 DEF Report, GetResetCause, FireInv
<1>4. CASE GyroTask
  BY <1>1, <1>4, FireHalts
  DEF GyroTask, GyroReboot, GyroWait, GyroWhoami, GyroConfigure, GyroSample,
      Gyro, Terminate, vars, life, remains
<1>5. CASE PinReset \/ RestartCommand \/ PowerLoss
  <2>1. ~reported'.fire
    <3>1. reported' = Silent
      BY <1>5 DEF PinReset, RestartCommand, PowerLoss, NVIC_SystemReset, Reborn
    <3> QED BY <3>1 DEF Silent
  <2>2. \/ powerLost'
        \/ flags \subseteq flags' /\ UNCHANGED <<record, powerLost>>
    BY <1>5 DEF PinReset, RestartCommand, PowerLoss, NVIC_SystemReset
  <2> QED BY <2>1, <2>2 DEF FireInv
<1> QED BY <1>1, <1>2, <1>3, <1>4, <1>5
        DEF Next, MX_USB_DEVICE_Init, While, vars, life, remains

\* Whatever resets there were, a fire is reported as a software reset,
\* unless the power was lost.
THEOREM CausesOfFires == Spec => []FiresAreSoftwareResets
<1>1. Init => FireInv
  BY DEF Init, Silent, FireInv
<1>2. FireInv => FiresAreSoftwareResets
  BY DEF FireInv, FiresAreSoftwareResets
<1> QED BY <1>1, <1>2, FireStep, PTL DEF Spec

-----------------------------------------------------------------------------
(* Numbers, and recursions over them.                                      *)

\* A set of numbers has a least one.
LEMMA LeastNatural ==
    ASSUME NEW T \in SUBSET Nat, T # {}
    PROVE  \E x \in T : \A y \in T : x <= y
<1>1. PICK R : R = OpToRel(<, Nat)
  OBVIOUS
<1>2. IsWellFoundedOn(R, Nat)
  BY <1>1, NatLessThanWellFounded, Zenon
<1>3. R = {ss \in Nat \X Nat : ss[1] < ss[2]}
  BY <1>1, Zenon DEF OpToRel
<1>4. PICK x \in T : \A y \in T : ~(<<y, x>> \in R)
  BY <1>2, WFMin, Zenon
<1>5. \A y \in T : ~(y < x)
  BY <1>3, <1>4
<1> QED BY <1>5

\* A set with 0 and every successor of a member has every number.
LEMMA SetInduction ==
    ASSUME NEW S, 0 \in S, \A n \in Nat : n \in S => n + 1 \in S
    PROVE  Nat \subseteq S
<1> SUFFICES ASSUME NEW m \in Nat, m \notin S PROVE FALSE
  OBVIOUS
<1> DEFINE T == {n \in Nat : n \notin S}
<1>1. PICK x \in T : \A y \in T : x <= y
  BY LeastNatural
<1>2. x # 0 /\ x \in Nat
  OBVIOUS
<1>3. x - 1 \in Nat /\ x - 1 \notin T
  BY <1>1, <1>2
<1>4. x - 1 \in S
  BY <1>3
<1>5. x - 1 + 1 = x
  BY <1>2
<1>6. x \in S
  BY <1>3, <1>4, <1>5
<1> QED BY <1>6

\* f[k] comes of f[k - 1] by the function F[k]; such a recursion over 0..n
\* has a result.
Runs(f, n, V, init, F) ==
    /\ f \in [0..n -> V] /\ f[0] = init
    /\ \A k \in 1..n : f[k] = F[k][f[k - 1]]

LEMMA Recursion ==
    ASSUME NEW n \in Nat, NEW V, NEW init \in V, NEW F \in [1..n -> [V -> V]]
    PROVE  \E f : Runs(f, n, V, init, F)
<1> DEFINE Good(f, m) == /\ f \in [0..m -> V] /\ f[0] = init
                         /\ \A k \in 1..m : f[k] = F[k][f[k - 1]]
           A == {m \in Nat : m <= n => \E f : Good(f, m)}
<1>1. 0 \in A
  <2> DEFINE f == [k \in 0..0 |-> init]
  <2>1. f \in [0..0 -> V] /\ f[0] = init /\ 1..0 = {}
    OBVIOUS
  <2> HIDE DEF f
  <2> QED BY <2>1
<1>2. ASSUME NEW m \in Nat, m \in A PROVE m + 1 \in A
  <2> SUFFICES ASSUME m + 1 <= n PROVE \E f : Good(f, m + 1)
    OBVIOUS
  <2>1. PICK f : Good(f, m)
    BY <1>2
  <2> DEFINE last == F[m + 1][f[m]]
             g == [k \in 0..(m + 1) |-> IF k = m + 1 THEN last ELSE f[k]]
  <2>2. last \in V /\ m + 1 \in 1..n /\ m \in 0..m
    BY <2>1
  <2>3. \A k \in 0..m : g[k] = f[k] /\ f[k] \in V
    BY <2>1
  <2>4. g[m + 1] = last
    OBVIOUS
  <2>5. g \in [0..(m + 1) -> V]
    BY <2>1, <2>2
  <2> HIDE DEF g
  <2>6. g[0] = init
    BY <2>1, <2>3
  <2>7. ASSUME NEW k \in 1..(m + 1) PROVE g[k] = F[k][g[k - 1]]
    <3>1. CASE k = m + 1
      BY <2>2, <2>3, <2>4, <3>1
    <3>2. CASE k \in 1..m
      <4>1. k \in 0..m /\ k - 1 \in 0..m
        BY <3>2
      <4> QED BY <2>1, <2>3, <3>2, <4>1
    <3> QED BY <3>1, <3>2
  <2> QED BY <2>5, <2>6, <2>7
<1> HIDE DEF A
<1>3. n \in A
  BY <1>1, <1>2, SetInduction
<1> QED BY <1>3 DEF A, Runs

-----------------------------------------------------------------------------
(* The checksum of a line.                                                 *)

\* Division and its remainder.
LEMMA Remainder == \A a \in Int, d \in Nat \ {0} : a % d \in 0..(d - 1)
OBVIOUS

LEMMA Quotient ==
    \A a \in Int, d \in Nat \ {0} :
       a \div d \in Int /\ d * (a \div d) + (a % d) = a
OBVIOUS

LEMMA Division ==
    ASSUME NEW a \in Int, NEW d \in Nat \ {0}
    PROVE  /\ a \div d \in Int /\ a % d \in 0..(d - 1)
           /\ a = d * (a \div d) + (a % d)
BY Remainder, Quotient

LEMMA FourBits ==
    \A p, q, r, s, t, u, v, w \in {0, 1} :
       /\ p + 2 * q + 4 * r + 8 * s \in 0..15
       /\ p + 2 * q + 4 * r + 8 * s = t + 2 * u + 4 * v + 8 * w =>
             p = t /\ q = u /\ r = v /\ s = w
OBVIOUS

\* The exclusive or has no two equal results in a row or in a column of its
\* table, and what is not 0 alters what it is added to.
LEMMA XorFacts ==
    /\ \A a, b \in 0..15 : XorOf[a][b] \in 0..15
    /\ \A a, b, c \in 0..15 : XorOf[a][b] = XorOf[a][c] => b = c
    /\ \A a, b, c \in 0..15 : XorOf[a][c] = XorOf[b][c] => a = b
    /\ \A a, b \in 0..15 : XorOf[a][b] = a => b = 0
<1> DEFINE Odd(a, b, w) == (a \div w + b \div w) % 2
<1>1. \A a, b \in 0..15 :
         XorOf[a][b] = Odd(a, b, 1) + 2 * Odd(a, b, 2) + 4 * Odd(a, b, 4)
                          + 8 * Odd(a, b, 8)
  BY DEF XorOf, HalfXor
<1>2. \A a, b \in 0..15 :
         /\ Odd(a, b, 1) \in {0, 1} /\ Odd(a, b, 2) \in {0, 1}
         /\ Odd(a, b, 4) \in {0, 1} /\ Odd(a, b, 8) \in {0, 1}
  OBVIOUS
<1>3. \A a, b, c \in 0..15 :
         (/\ Odd(a, b, 1) = Odd(a, c, 1) /\ Odd(a, b, 2) = Odd(a, c, 2)
          /\ Odd(a, b, 4) = Odd(a, c, 4) /\ Odd(a, b, 8) = Odd(a, c, 8))
         => b = c
  OBVIOUS
<1>4. \A a, b \in 0..15 :
         /\ Odd(a, b, 1) = Odd(b, a, 1) /\ Odd(a, b, 2) = Odd(b, a, 2)
         /\ Odd(a, b, 4) = Odd(b, a, 4) /\ Odd(a, b, 8) = Odd(b, a, 8)
  OBVIOUS
<1>5. \A a \in 0..15 : XorOf[a][0] = a
  BY <1>1
<1> HIDE DEF Odd
<1>6. ASSUME NEW a \in 0..15, NEW b \in 0..15 PROVE XorOf[a][b] \in 0..15
  <2>1. Odd(a, b, 1) + 2 * Odd(a, b, 2) + 4 * Odd(a, b, 4) + 8 * Odd(a, b, 8)
           \in 0..15
    BY <1>2, FourBits
  <2> QED BY <1>1, <2>1
<1>7. \A a, b \in 0..15 : XorOf[a][b] = XorOf[b][a]
  BY <1>1, <1>4
<1>8. ASSUME NEW a \in 0..15, NEW b \in 0..15, NEW c \in 0..15,
             XorOf[a][b] = XorOf[a][c]
      PROVE  b = c
  <2>1. /\ Odd(a, b, 1) = Odd(a, c, 1) /\ Odd(a, b, 2) = Odd(a, c, 2)
        /\ Odd(a, b, 4) = Odd(a, c, 4) /\ Odd(a, b, 8) = Odd(a, c, 8)
    <3>1. /\ Odd(a, b, 1) + 2 * Odd(a, b, 2) + 4 * Odd(a, b, 4)
                 + 8 * Odd(a, b, 8)
             = Odd(a, c, 1) + 2 * Odd(a, c, 2) + 4 * Odd(a, c, 4)
                  + 8 * Odd(a, c, 8)
      BY <1>1, <1>8
    <3> QED BY <1>2, <3>1, FourBits
  <2> QED BY <1>3, <2>1
<1>9. ASSUME NEW a \in 0..15, NEW b \in 0..15, NEW c \in 0..15,
             XorOf[a][c] = XorOf[b][c]
      PROVE  a = b
  <2>1. XorOf[c][a] = XorOf[c][b]
    BY <1>7, <1>9
  <2> QED BY <1>8, <2>1
<1>10. ASSUME NEW a \in 0..15, NEW b \in 0..15, XorOf[a][b] = a
       PROVE  b = 0
  <2>1. XorOf[a][b] = XorOf[a][0] /\ 0 \in 0..15
    BY <1>5, <1>10
  <2> QED BY <1>8, <2>1
<1> QED BY <1>6, <1>8, <1>9, <1>10

\* So it is for bytes.
LEMMA Halves ==
    /\ \A a \in Bytes : \E p, q \in 0..15 :
          a \div 16 = p /\ a % 16 = q /\ a = 16 * p + q
    /\ \A p, q \in 0..15 : 16 * p + q \in Bytes
    /\ \A p, q, r, s \in 0..15 :
          16 * p + q = 16 * r + s => p = r /\ q = s
<1>1. ASSUME NEW a \in Bytes
      PROVE  \E p, q \in 0..15 : a \div 16 = p /\ a % 16 = q /\ a = 16 * p + q
  <2>1. a \in 0..255
    BY DEF Bytes
  <2>2. a \div 16 \in 0..15 /\ a % 16 \in 0..15
    BY <2>1
  <2>3. a \in Int /\ 16 \in Nat \ {0}
    BY <2>1
  <2>4. a = 16 * (a \div 16) + (a % 16)
    BY <2>3, Division
  <2> QED BY <2>2, <2>4
<1>2. \A p, q \in 0..15 : 16 * p + q \in Bytes
  BY DEF Bytes
<1>3. \A p, q, r, s \in 0..15 : 16 * p + q = 16 * r + s => p = r /\ q = s
  OBVIOUS
<1> QED BY <1>1, <1>2, <1>3

LEMMA XorRange == \A a, b \in Bytes : Xor(a, b) \in Bytes
<1> SUFFICES ASSUME NEW a \in Bytes, NEW b \in Bytes PROVE Xor(a, b) \in Bytes
  OBVIOUS
<1>1. PICK p \in 0..15, q \in 0..15 : a \div 16 = p /\ a % 16 = q
  BY Halves
<1>2. PICK r \in 0..15, s \in 0..15 : b \div 16 = r /\ b % 16 = s
  BY Halves
<1>3. PICK u \in 0..15, v \in 0..15 : XorOf[p][r] = u /\ XorOf[q][s] = v
  BY XorFacts
<1>4. Xor(a, b) = 16 * u + v
  BY <1>1, <1>2, <1>3 DEF Xor
<1> QED BY <1>4, Halves

LEMMA XorRow == \A a, b, c \in Bytes : Xor(a, b) = Xor(a, c) => b = c
<1> SUFFICES ASSUME NEW a \in Bytes, NEW b \in Bytes, NEW c \in Bytes,
                    Xor(a, b) = Xor(a, c)
             PROVE  b = c
  OBVIOUS
<1>1. PICK p \in 0..15, q \in 0..15 :
         a \div 16 = p /\ a % 16 = q /\ a = 16 * p + q
  BY Halves
<1>2. PICK r \in 0..15, s \in 0..15 :
         b \div 16 = r /\ b % 16 = s /\ b = 16 * r + s
  BY Halves
<1>3. PICK t \in 0..15, u \in 0..15 :
         c \div 16 = t /\ c % 16 = u /\ c = 16 * t + u
  BY Halves
<1>4. 16 * XorOf[p][r] + XorOf[q][s] = 16 * XorOf[p][t] + XorOf[q][u]
  BY <1>1, <1>2, <1>3 DEF Xor
<1>5. PICK v1 \in 0..15, v2 \in 0..15, v3 \in 0..15, v4 \in 0..15 :
         XorOf[p][r] = v1 /\ XorOf[q][s] = v2 /\ XorOf[p][t] = v3 /\ XorOf[q][u] = v4
  BY XorFacts
<1>6. XorOf[p][r] = XorOf[p][t] /\ XorOf[q][s] = XorOf[q][u]
  <2>1. 16 * v1 + v2 = 16 * v3 + v4
    BY <1>4, <1>5
  <2>2. v1 = v3 /\ v2 = v4
    BY <2>1, Halves
  <2> QED BY <1>5, <2>2
<1>7. r = t /\ s = u
  BY <1>6, XorFacts
<1> QED BY <1>2, <1>3, <1>7

LEMMA XorColumn == \A a, b, c \in Bytes : Xor(a, c) = Xor(b, c) => a = b
<1> SUFFICES ASSUME NEW a \in Bytes, NEW b \in Bytes, NEW c \in Bytes,
                    Xor(a, c) = Xor(b, c)
             PROVE  a = b
  OBVIOUS
<1>1. PICK p \in 0..15, q \in 0..15 :
         a \div 16 = p /\ a % 16 = q /\ a = 16 * p + q
  BY Halves
<1>2. PICK r \in 0..15, s \in 0..15 :
         b \div 16 = r /\ b % 16 = s /\ b = 16 * r + s
  BY Halves
<1>3. PICK t \in 0..15, u \in 0..15 :
         c \div 16 = t /\ c % 16 = u /\ c = 16 * t + u
  BY Halves
<1>4. 16 * XorOf[p][t] + XorOf[q][u] = 16 * XorOf[r][t] + XorOf[s][u]
  BY <1>1, <1>2, <1>3 DEF Xor
<1>5. PICK v1 \in 0..15, v2 \in 0..15, v3 \in 0..15, v4 \in 0..15 :
         XorOf[p][t] = v1 /\ XorOf[q][u] = v2 /\ XorOf[r][t] = v3 /\ XorOf[s][u] = v4
  BY XorFacts
<1>6. XorOf[p][t] = XorOf[r][t] /\ XorOf[q][u] = XorOf[s][u]
  <2>1. 16 * v1 + v2 = 16 * v3 + v4
    BY <1>4, <1>5
  <2>2. v1 = v3 /\ v2 = v4
    BY <2>1, Halves
  <2> QED BY <1>5, <2>2
<1>7. p = r /\ q = s
  BY <1>6, XorFacts
<1> QED BY <1>1, <1>2, <1>7

LEMMA XorZero == \A a, b \in Bytes : Xor(a, b) = a => b = 0
<1> SUFFICES ASSUME NEW a \in Bytes, NEW b \in Bytes, Xor(a, b) = a
             PROVE  b = 0
  OBVIOUS
<1>1. PICK p \in 0..15, q \in 0..15 :
         a \div 16 = p /\ a % 16 = q /\ a = 16 * p + q
  BY Halves
<1>2. PICK r \in 0..15, s \in 0..15 :
         b \div 16 = r /\ b % 16 = s /\ b = 16 * r + s
  BY Halves
<1>4. 16 * XorOf[p][r] + XorOf[q][s] = 16 * p + q
  BY <1>1, <1>2 DEF Xor
<1>5. PICK v1 \in 0..15, v2 \in 0..15 : XorOf[p][r] = v1 /\ XorOf[q][s] = v2
  BY XorFacts
<1>6. XorOf[p][r] = p /\ XorOf[q][s] = q
  <2>1. 16 * v1 + v2 = 16 * p + q
    BY <1>4, <1>5
  <2>2. v1 = p /\ v2 = q
    BY <2>1, Halves
  <2> QED BY <1>5, <2>2
<1>7. r = 0 /\ s = 0
  BY <1>6, XorFacts
<1> QED BY <1>2, <1>7

\* The characters of a line that is sent are no NULs.
Characters == 1..255

LEMMA CharactersAreBytes ==
    ASSUME NEW s \in Seq(Characters)
    PROVE  /\ s \in Seq(Bytes)
           /\ Len(s) \in Nat /\ \A i \in 1..Len(s) : s[i] \in Bytes /\ s[i] # 0
<1>1. Len(s) \in Nat /\ \A i \in 1..Len(s) : s[i] \in Characters
  OBVIOUS
<1>2. \A c \in Characters : c \in Bytes /\ c # 0
  BY DEF Bytes, Characters
<1>3. s \in Seq(Bytes)
  BY <1>2
<1> QED BY <1>1, <1>2, <1>3

\* The sums of the first characters of a line, the last of them its checksum.
Summed(str, sum) ==
    /\ sum \in [0..Len(str) -> Bytes] /\ sum[0] = 0
    /\ \A k \in 1..Len(str) : sum[k] = Xor(sum[k - 1], str[k])
    /\ Checksum(str) = sum[Len(str)]

LEMMA ChecksumIsTheSum ==
    ASSUME NEW str \in Seq(Bytes)
    PROVE  \E sum : Summed(str, sum)
<1> DEFINE n == Len(str)
           F == [k \in 1..n |-> [a \in Bytes |-> Xor(a, str[k])]]
<1>1. n \in Nat /\ \A k \in 1..n : str[k] \in Bytes
  OBVIOUS
<1>2. F \in [1..n -> [Bytes -> Bytes]]
  BY <1>1, XorRange
<1>3. PICK f : Runs(f, n, Bytes, 0, F)
  <2> HIDE DEF F, n
  <2>1. 0 \in Bytes /\ n \in Nat
    BY <1>1 DEF Bytes
  <2> QED BY <1>2, <2>1, Recursion, Zenon
<1>4. ASSUME NEW k \in 1..n PROVE f[k] = Xor(f[k - 1], str[k])
  <2>1. k - 1 \in 0..n
    BY <1>1
  <2> QED BY <1>3, <2>1 DEF Runs
<1> DEFINE P(g) == g = [k \in 0..n |->
                           IF k = 0 THEN 0 ELSE Xor(g[k - 1], str[k])]
           Sum == CHOOSE g : P(g)
<1>5. P(f)
  BY <1>3, <1>4 DEF Runs
<1>6. P(Sum)
  <2> HIDE DEF P
  <2> QED BY <1>5, Zenon
<1>7. Checksum(str) = Sum[n]
  BY Zenon DEF Checksum
<1> HIDE DEF Sum
<1>8. /\ DOMAIN Sum = 0..n /\ Sum[0] = 0
      /\ \A k \in 1..n : Sum[k] = Xor(Sum[k - 1], str[k])
  BY <1>1, <1>6
<1> DEFINE S == {m \in Nat : m <= n => Sum[m] \in Bytes}
<1>9. 0 \in S
  BY <1>8 DEF Bytes
<1>10. ASSUME NEW m \in Nat, m \in S PROVE m + 1 \in S
  <2> SUFFICES ASSUME m + 1 <= n PROVE Sum[m + 1] \in Bytes
    OBVIOUS
  <2>1. m + 1 \in 1..n /\ m + 1 - 1 = m /\ Sum[m] \in Bytes
    BY <1>1, <1>10
  <2>2. Sum[m + 1] = Xor(Sum[m], str[m + 1]) /\ str[m + 1] \in Bytes
    BY <1>1, <1>8, <2>1
  <2> QED BY <2>1, <2>2, XorRange
<1> HIDE DEF S
<1>11. Nat \subseteq S
  BY <1>9, <1>10, SetInduction
<1>12. \A m \in 0..n : Sum[m] \in Bytes
  BY <1>1, <1>11 DEF S
<1>13. Sum \in [0..n -> Bytes]
  BY <1>6, <1>12
<1> QED BY <1>7, <1>8, <1>13 DEF Summed

\* Two lines that differ in one character have different checksums.
LEMMA AlteredSum ==
    ASSUME NEW s \in Seq(Bytes), NEW t \in Seq(Bytes),
           Len(s) = Len(t), NEW k \in 1..Len(s), s[k] # t[k],
           \A i \in 1..Len(s) : i # k => s[i] = t[i]
    PROVE  Checksum(s) # Checksum(t)
<1> DEFINE n == Len(s)
<1>1. PICK f : Summed(s, f)
  BY ChecksumIsTheSum
<1>2. PICK g : Summed(t, g)
  BY ChecksumIsTheSum
<1>c. /\ n \in Nat
      /\ \A i \in 1..n : s[i] \in Bytes /\ t[i] \in Bytes
  OBVIOUS
<1>s. /\ Checksum(s) = f[n] /\ Checksum(t) = g[n] /\ f[0] = g[0]
      /\ \A i \in 0..n : f[i] \in Bytes /\ g[i] \in Bytes
  BY <1>1, <1>2 DEF Summed
<1>x. \A m \in Nat : m + 1 <= n =>
          /\ f[m + 1] = Xor(f[m], s[m + 1])
          /\ g[m + 1] = Xor(g[m], t[m + 1])
  <2> SUFFICES ASSUME NEW m \in Nat, m + 1 <= n
               PROVE  /\ f[m + 1] = Xor(f[m], s[m + 1])
                      /\ g[m + 1] = Xor(g[m], t[m + 1])
    OBVIOUS
  <2>1. m + 1 \in 1..n /\ m + 1 - 1 = m
    BY <1>c
  <2> QED BY <1>1, <1>2, <2>1 DEF Summed
<1> DEFINE S == {m \in Nat : m <= n => (f[m] = g[m] <=> m < k)}
<1>4. 0 \in S
  BY <1>s
<1>5. ASSUME NEW m \in Nat, m \in S PROVE m + 1 \in S
  <2> SUFFICES ASSUME m + 1 <= n PROVE f[m + 1] = g[m + 1] <=> m + 1 < k
    OBVIOUS
  <2>1. f[m] = g[m] <=> m < k
    BY <1>c, <1>5
  <2> DEFINE a == f[m]
             b == g[m]
             c == s[m + 1]
             d == t[m + 1]
  <2>2. a \in Bytes /\ b \in Bytes /\ c \in Bytes /\ d \in Bytes
    BY <1>c, <1>s
  <2>3. f[m + 1] = Xor(a, c) /\ g[m + 1] = Xor(b, d)
    BY <1>x
  <2>4. /\ m + 1 = k => a = b /\ c # d
        /\ m + 1 < k => a = b /\ c = d
        /\ m + 1 > k => a # b /\ c = d
    BY <1>c, <2>1
  <2> HIDE DEF a, b, c, d
  <2>5. CASE m + 1 = k
    <3>1. Xor(a, c) # Xor(a, d) /\ a = b
      BY <2>2, <2>4, <2>5, XorRow
    <3> QED BY <2>3, <2>5, <3>1
  <2>6. CASE m + 1 < k
    BY <2>3, <2>4, <2>6
  <2>7. CASE m + 1 > k
    <3>1. f[m + 1] # g[m + 1]
      <4>1. Xor(a, c) # Xor(b, c) /\ c = d
        BY <2>2, <2>4, <2>7, XorColumn
      <4> QED BY <2>3, <4>1
    <3> QED BY <1>c, <2>7, <3>1
  <2> QED BY <1>c, <2>5, <2>6, <2>7
<1> HIDE DEF S
<1>6. Nat \subseteq S
  BY <1>4, <1>5, SetInduction
<1>7. f[n] # g[n]
  BY <1>c, <1>6 DEF S
<1> QED BY <1>s, <1>7

\* So have a line and what is left of it when one character is lost.
LEMMA ShortenedSum ==
    ASSUME NEW s \in Seq(Characters), NEW t \in Seq(Characters),
           Len(s) = Len(t) + 1, NEW k \in 1..Len(s),
           \A i \in 1..Len(t) : t[i] = IF i < k THEN s[i] ELSE s[i + 1]
    PROVE  Checksum(s) # Checksum(t)
<1> DEFINE n == Len(t)
<1>1. PICK f : Summed(s, f)
  BY ChecksumIsTheSum, CharactersAreBytes
<1>2. PICK g : Summed(t, g)
  BY ChecksumIsTheSum, CharactersAreBytes
<1>c. /\ n \in Nat /\ Len(s) = n + 1 /\ k \in 1..(n + 1)
      /\ \A i \in 1..(n + 1) : s[i] \in Bytes /\ s[i] # 0
      /\ \A i \in 1..n : t[i] \in Bytes
  <2>1. n \in Nat /\ \A i \in 1..n : t[i] \in Bytes
    BY CharactersAreBytes
  <2>2. \A i \in 1..Len(s) : s[i] \in Bytes /\ s[i] # 0
    BY CharactersAreBytes
  <2>3. Len(s) = n + 1
    OBVIOUS
  <2> HIDE DEF n
  <2> QED BY <2>1, <2>2, <2>3
<1>s. /\ Checksum(s) = f[n + 1] /\ Checksum(t) = g[n] /\ f[0] = g[0]
      /\ \A i \in 0..(n + 1) : f[i] \in Bytes
      /\ \A i \in 0..n : g[i] \in Bytes
  BY <1>c, <1>1, <1>2 DEF Summed
<1>x. \A m \in Nat : m <= n => f[m + 1] = Xor(f[m], s[m + 1])
  <2> SUFFICES ASSUME NEW m \in Nat, m <= n
               PROVE  f[m + 1] = Xor(f[m], s[m + 1])
    OBVIOUS
  <2>1. m + 1 \in 1..Len(s) /\ m + 1 - 1 = m
    BY <1>c
  <2> QED BY <1>1, <2>1 DEF Summed
<1>y. \A m \in Nat : m + 1 <= n => g[m + 1] = Xor(g[m], t[m + 1])
  <2> SUFFICES ASSUME NEW m \in Nat, m + 1 <= n
               PROVE  g[m + 1] = Xor(g[m], t[m + 1])
    OBVIOUS
  <2>1. m + 1 \in 1..n /\ m + 1 - 1 = m
    BY <1>c
  <2> QED BY <1>2, <2>1 DEF Summed
<1> DEFINE Same(m) == m < k => f[m] = g[m]
           Ahead(m) == k <= m + 1 => f[m + 1] # g[m]
           S == {m \in Nat : m <= n => Same(m) /\ Ahead(m)}
<1>3. ASSUME NEW m \in Nat, m <= n, Same(m), k = m + 1 PROVE Ahead(m)
  <2> DEFINE a == f[m]
             c == s[m + 1]
  <2>1. a \in Bytes /\ c \in Bytes /\ c # 0 /\ a = g[m]
    BY <1>c, <1>s, <1>3
  <2>2. f[m + 1] = Xor(a, c)
    BY <1>x, <1>3
  <2> HIDE DEF a, c
  <2> QED BY <2>1, <2>2, XorZero
<1>4. 0 \in S
  <2>1. Same(0)
    BY <1>s
  <2>2. Ahead(0)
    <3>1. k <= 0 + 1 => k = 0 + 1
      BY <1>c
    <3> QED BY <1>3, <1>c, <2>1, <3>1
  <2> QED BY <2>1, <2>2
<1>5. ASSUME NEW m \in Nat, m \in S PROVE m + 1 \in S
  <2> SUFFICES ASSUME m + 1 <= n PROVE Same(m + 1) /\ Ahead(m + 1)
    OBVIOUS
  <2>1. m <= n /\ Same(m) /\ Ahead(m)
    BY <1>c, <1>5
  <2>2. Same(m + 1)
    <3> SUFFICES ASSUME m + 1 < k PROVE f[m + 1] = g[m + 1]
      OBVIOUS
    <3>1. f[m] = g[m] /\ s[m + 1] = t[m + 1]
      BY <1>c, <2>1
    <3> QED BY <1>x, <1>y, <2>1, <3>1
  <2>3. Ahead(m + 1)
    <3>1. CASE k = m + 1 + 1
      BY <1>3, <2>2, <3>1
    <3>2. CASE k <= m + 1
      <4> DEFINE a == f[m + 1]
                 b == g[m]
                 c == s[m + 1 + 1]
      <4>1. t[m + 1] = c /\ a # b
        BY <1>c, <2>1, <3>2
      <4>2. a \in Bytes /\ b \in Bytes /\ c \in Bytes
        BY <1>c, <1>s
      <4>3. f[m + 1 + 1] = Xor(a, c) /\ g[m + 1] = Xor(b, c)
        BY <1>x, <1>y, <4>1
      <4> HIDE DEF a, b, c
      <4>4. f[m + 1 + 1] # g[m + 1]
        <5>1. Xor(a, c) # Xor(b, c)
          BY <4>1, <4>2, XorColumn
        <5> QED BY <4>3, <5>1
      <4> QED BY <4>4
    <3> QED BY <1>c, <3>1, <3>2
  <2> QED BY <2>2, <2>3
<1> HIDE DEF S
<1>6. Nat \subseteq S
  BY <1>4, <1>5, SetInduction
<1>7. f[n + 1] # g[n]
  <2>1. n \in S
    BY <1>c, <1>6
  <2>2. Ahead(n) /\ k <= n + 1
    BY <1>c, <2>1 DEF S
  <2> QED BY <2>2
<1> QED BY <1>s, <1>7

-----------------------------------------------------------------------------
(* Lines on the wire.                                                      *)

\* Where the elements of a concatenation are.
LEMMA Joined ==
    ASSUME NEW S, NEW s \in Seq(S), NEW t \in Seq(S)
    PROVE  /\ s \o t \in Seq(S)
           /\ Len(s \o t) = Len(s) + Len(t)
           /\ \A i \in 1..Len(s) : (s \o t)[i] = s[i]
           /\ \A i \in 1..Len(t) : (s \o t)[Len(s) + i] = t[i]
<1>1. Len(s) \in Nat /\ Len(t) \in Nat
  OBVIOUS
<1>2. /\ s \o t \in Seq(S)
      /\ Len(s \o t) = Len(s) + Len(t)
      /\ \A i \in 1..(Len(s) + Len(t)) :
            (s \o t)[i] = IF i <= Len(s) THEN s[i] ELSE t[i - Len(s)]
  BY ConcatProperties
<1>3. ASSUME NEW i \in 1..Len(s) PROVE (s \o t)[i] = s[i]
  <2>1. i \in 1..(Len(s) + Len(t)) /\ i <= Len(s)
    BY <1>1
  <2> QED BY <1>2, <2>1
<1>4. ASSUME NEW i \in 1..Len(t) PROVE (s \o t)[Len(s) + i] = t[i]
  <2>1. /\ Len(s) + i \in 1..(Len(s) + Len(t)) /\ ~(Len(s) + i <= Len(s))
        /\ Len(s) + i - Len(s) = i
    BY <1>1
  <2> QED BY <1>2, <2>1
<1> QED BY <1>2, <1>3, <1>4

\* Digits of the checksum are read as they are written.
LEMMA HexDigits ==
    /\ \A h \in 0..15 :
          HexDigit(h) \in Characters /\ CharToHex(HexDigit(h)) = h
    /\ 255 \notin 0..15
<1>1. ASSUME NEW h \in 0..9
      PROVE  HexDigit(h) \in Characters /\ CharToHex(HexDigit(h)) = h
  <2>1. HexDigit(h) = 48 + h /\ 48 + h \in 48..57
    BY DEF HexDigit
  <2> QED BY <2>1 DEF Characters, CharToHex
<1>2. ASSUME NEW h \in 10..15
      PROVE  HexDigit(h) \in Characters /\ CharToHex(HexDigit(h)) = h
  <2>1. /\ HexDigit(h) = 55 + h /\ 55 + h \in 65..70
        /\ 55 + h \notin 48..57 /\ 55 + h \notin 97..102
    BY DEF HexDigit
  <2> QED BY <2>1 DEF Characters, CharToHex
<1>3. \A h \in 0..15 : h \in 0..9 \/ h \in 10..15
  OBVIOUS
<1> QED BY <1>1, <1>2, <1>3

\* Where the characters of a line are.
LEMMA FramedFacts ==
    ASSUME NEW contents \in Seq(Characters)
    PROVE  LET line == Framed(contents)
               n == Len(contents)
           IN  /\ line \in Seq(Characters) /\ Len(line) = n + 4
               /\ line[1] = Dollar /\ line[n + 2] = Star
               /\ \A i \in 1..n : line[i + 1] = contents[i]
               /\ \E p, q \in 0..15 :
                     /\ line[n + 3] = HexDigit(p) /\ line[n + 4] = HexDigit(q)
                     /\ Checksum(contents) = 16 * p + q
<1> DEFINE n == Len(contents)
           sum == Checksum(contents)
           head == <<Dollar>>
           tail == <<Star, HexDigit(sum \div 16), HexDigit(sum % 16)>>
           line == (head \o contents) \o tail
<1>1. sum \in Bytes /\ n \in Nat
  <2>1. PICK f : Summed(contents, f)
    BY ChecksumIsTheSum, CharactersAreBytes
  <2> QED BY <2>1 DEF Summed
<1> HIDE DEF sum
<1>2. PICK p \in 0..15, q \in 0..15 :
         sum \div 16 = p /\ sum % 16 = q /\ sum = 16 * p + q
  BY <1>1, Halves
<1>3. /\ head \in Seq(Characters) /\ Len(head) = 1 /\ head[1] = Dollar
  BY DEF Characters, Dollar
<1>4. /\ tail \in Seq(Characters) /\ Len(tail) = 3 /\ tail[1] = Star
      /\ tail[2] = HexDigit(p) /\ tail[3] = HexDigit(q)
  <2>1. HexDigit(p) \in Characters /\ HexDigit(q) \in Characters
    BY HexDigits
  <2>2. Star \in Characters
    BY DEF Characters, Star
  <2> QED BY <1>2, <2>1, <2>2
<1> HIDE DEF head, tail
<1> DEFINE front == head \o contents
<1>5. /\ front \in Seq(Characters) /\ Len(front) = 1 + n
      /\ \A i \in 1..1 : front[i] = head[i]
      /\ \A i \in 1..n : front[1 + i] = contents[i]
  <2>1. /\ front \in Seq(Characters) /\ Len(front) = Len(head) + Len(contents)
        /\ \A i \in 1..Len(head) : front[i] = head[i]
        /\ \A i \in 1..Len(contents) : front[Len(head) + i] = contents[i]
    <3>1. head \in Seq(Characters) /\ contents \in Seq(Characters)
      BY <1>3
    <3> QED BY ONLY <3>1, Joined
  <2> HIDE DEF front
  <2> QED BY <1>3, <2>1
<1> HIDE DEF front
<1>6. /\ line \in Seq(Characters) /\ Len(line) = 1 + n + 3
      /\ \A i \in 1..(1 + n) : line[i] = front[i]
      /\ \A i \in 1..3 : line[1 + n + i] = tail[i]
  <2>1. line = front \o tail
    BY DEF front
  <2> HIDE DEF line
  <2>2. /\ line \in Seq(Characters) /\ Len(line) = Len(front) + Len(tail)
        /\ \A i \in 1..Len(front) : line[i] = front[i]
        /\ \A i \in 1..Len(tail) : line[Len(front) + i] = tail[i]
    <3>1. front \in Seq(Characters) /\ tail \in Seq(Characters)
      BY <1>4, <1>5
    <3> QED BY ONLY <2>1, <3>1, Joined
  <2> QED BY <1>4, <1>5, <2>2
<1>7. /\ 1 + n + 1 = n + 2 /\ 1 + n + 2 = n + 3 /\ 1 + n + 3 = n + 4
      /\ 1 \in 1..(1 + n)
      /\ \A i \in 1..n : i + 1 \in 1..(1 + n) /\ i + 1 = 1 + i
      /\ 1 \in 1..3 /\ 2 \in 1..3 /\ 3 \in 1..3
  BY <1>1
<1>8. Framed(contents) = line
  BY DEF Framed, line, head, tail, sum
<1> HIDE DEF line
<1>9. /\ line[1] = Dollar /\ line[n + 2] = Star
      /\ line[n + 3] = HexDigit(p) /\ line[n + 4] = HexDigit(q)
  BY <1>3, <1>4, <1>5, <1>6, <1>7
<1>10. \A i \in 1..n : line[i + 1] = contents[i]
  BY <1>5, <1>6, <1>7
<1> QED BY <1>2, <1>6, <1>7, <1>8, <1>9, <1>10 DEF sum

\* What is read of two digits of the checksum.
LEMMA ExtractFacts ==
    ASSUME NEW p \in 0..15, NEW q \in 0..15, NEW s,
           s[1] = HexDigit(p), s[2] = HexDigit(q)
    PROVE  ExtractChecksum(s) = 16 * p + q
<1>1. CharToHex(s[1]) = p /\ CharToHex(s[2]) = q
  BY HexDigits
<1>2. 255 \notin {p, q} /\ p * 16 + q = 16 * p + q
  BY HexDigits
<1> QED BY <1>1, <1>2 DEF ExtractChecksum

\* What makes a line an error.
LEMMA RawErrors ==
    ASSUME NEW str,
           \/ str[1] # Dollar
           \/ str[Len(str) - 2] # Star
           \/ ExtractChecksum(SubSeq(str, Len(str) - 1, Len(str)))
                # Checksum(SubSeq(str, 2, Len(str) - 3))
    PROVE  ParseRaw(str) = Error
BY DEF ParseRaw

\* Lines with the same contents and the same checksum are read as the same.
LEMMA SameRaw ==
    ASSUME NEW s, NEW t, Len(s) = Len(t), s[1] = t[1],
           s[Len(s) - 2] = t[Len(t) - 2],
           SubSeq(s, 2, Len(s) - 3) = SubSeq(t, 2, Len(t) - 3),
           ExtractChecksum(SubSeq(s, Len(s) - 1, Len(s)))
              = ExtractChecksum(SubSeq(t, Len(t) - 1, Len(t)))
    PROVE  ParseRaw(s) = ParseRaw(t)
BY DEF ParseRaw

LEMMA ErrorsAreErrors ==
    ASSUME NEW str, ParseRaw(str) = Error
    PROVE  IsError(ParseLine(str))
<1>1. IsError(Error)
  BY DEF Error, IsError
<1> QED BY <1>1 DEF ParseLine

\* A part of a line, character by character.
LEMMA Part ==
    ASSUME NEW S, NEW s \in Seq(S), NEW i \in Int, NEW j \in Int,
           1 <= i, i <= j + 1, j <= Len(s)
    PROVE  /\ SubSeq(s, i, j) \in Seq(S)
           /\ Len(SubSeq(s, i, j)) = j - i + 1
           /\ \A k \in 1..(j - i + 1) : SubSeq(s, i, j)[k] = s[i + k - 1]
<1>1. \A k \in i..j : s[k] \in S
  BY ElementOfSeq
<1> QED BY <1>1, SubSeqProperties

\* A framed line, its contents and its digits.
LEMMA FramedParts ==
    ASSUME NEW contents \in Seq(Characters)
    PROVE  LET line == Framed(contents)
           IN  /\ SubSeq(line, 2, Len(line) - 3) = contents
               /\ ExtractChecksum(SubSeq(line, Len(line) - 1, Len(line)))
                     = Checksum(contents)
<1> DEFINE n == Len(contents)
           line == Framed(contents)
           inside == SubSeq(line, 2, n + 1)
           digits == SubSeq(line, n + 3, n + 4)
<1>1. /\ n \in Nat /\ line \in Seq(Characters) /\ Len(line) = n + 4
      /\ \A i \in 1..n : line[i + 1] = contents[i]
      /\ \E p, q \in 0..15 :
            /\ line[n + 3] = HexDigit(p) /\ line[n + 4] = HexDigit(q)
            /\ Checksum(contents) = 16 * p + q
  <2>1. n \in Nat
    OBVIOUS
  <2> QED BY <2>1, FramedFacts
<1> HIDE DEF line
<1>2. inside = contents
  <2>1. /\ inside \in Seq(Characters) /\ Len(inside) = n + 1 - 2 + 1
        /\ \A i \in 1..(n + 1 - 2 + 1) : inside[i] = line[2 + i - 1]
    BY <1>1, Part
  <2>2. n + 1 - 2 + 1 = n /\ \A i \in 1..n : 2 + i - 1 = i + 1
    BY <1>1
  <2> HIDE DEF inside
  <2>3. Len(inside) = n /\ \A i \in 1..n : inside[i] = contents[i]
    BY <1>1, <2>1, <2>2
  <2> QED BY <2>1, <2>3, SeqEqual
<1>3. ExtractChecksum(digits) = Checksum(contents)
  <2>1. /\ digits \in Seq(Characters) /\ Len(digits) = n + 4 - (n + 3) + 1
        /\ \A i \in 1..(n + 4 - (n + 3) + 1) : digits[i] = line[n + 3 + i - 1]
    BY <1>1, Part
  <2>2. /\ n + 4 - (n + 3) + 1 = 2 /\ n + 3 + 1 - 1 = n + 3
        /\ n + 3 + 2 - 1 = n + 4 /\ 1 \in 1..2 /\ 2 \in 1..2
    BY <1>1
  <2> HIDE DEF digits
  <2>3. digits[1] = line[n + 3] /\ digits[2] = line[n + 4]
    BY <2>1, <2>2
  <2>4. PICK p \in 0..15, q \in 0..15 :
           /\ line[n + 3] = HexDigit(p) /\ line[n + 4] = HexDigit(q)
           /\ Checksum(contents) = 16 * p + q
    BY <1>1
  <2> QED BY <2>3, <2>4, ExtractFacts
<1>4. Len(line) - 1 = n + 3 /\ Len(line) = n + 4 /\ Len(line) - 3 = n + 1
  BY <1>1
<1> HIDE DEF n
<1> QED BY <1>2, <1>3, <1>4 DEF line

\* A framed line with a character altered is an error, unless only a digit of
\* its checksum is written in another way.
LEMMA AlterationIsSeen ==
    ASSUME NEW contents \in Seq(Characters), Len(contents) >= 2,
           NEW k \in 1..(Len(contents) + 4), NEW c \in Bytes,
           Framed(contents)[k] # c
    PROVE  LET str == [Framed(contents) EXCEPT ![k] = c]
           IN  ParseRaw(str) \in {Error, ParseRaw(Framed(contents))}
<1> DEFINE n == Len(contents)
           line == Framed(contents)
           str == [line EXCEPT ![k] = c]
           inside == SubSeq(str, 2, n + 1)
           digits == SubSeq(str, n + 3, n + 4)
<1>1. /\ n \in Nat /\ line \in Seq(Bytes) /\ Len(line) = n + 4
      /\ line[1] = Dollar /\ line[n + 2] = Star
      /\ \A i \in 1..n : line[i + 1] = contents[i]
      /\ contents \in Seq(Bytes)
      /\ \E p, q \in 0..15 :
            /\ line[n + 3] = HexDigit(p) /\ line[n + 4] = HexDigit(q)
            /\ Checksum(contents) = 16 * p + q
  <2>1. n \in Nat
    OBVIOUS
  <2> QED BY <2>1, FramedFacts, CharactersAreBytes
<1>p. /\ SubSeq(line, 2, Len(line) - 3) = contents
      /\ ExtractChecksum(SubSeq(line, Len(line) - 1, Len(line)))
            = Checksum(contents)
  BY FramedParts
<1> HIDE DEF line
<1>2. /\ str \in Seq(Bytes) /\ Len(str) = n + 4 /\ str[k] = c
      /\ \A i \in 1..(n + 4) : i # k => str[i] = line[i]
  BY <1>1, ExceptSeq
<1> HIDE DEF str
<1>3. /\ inside \in Seq(Bytes) /\ Len(inside) = n
      /\ \A i \in 1..n : inside[i] = str[i + 1]
  <2>1. /\ SubSeq(str, 2, n + 1) \in Seq(Bytes)
        /\ Len(SubSeq(str, 2, n + 1)) = n + 1 - 2 + 1
        /\ \A i \in 1..(n + 1 - 2 + 1) :
              SubSeq(str, 2, n + 1)[i] = str[2 + i - 1]
    BY <1>1, <1>2, Part
  <2>2. n + 1 - 2 + 1 = n /\ \A i \in 1..n : 2 + i - 1 = i + 1
    BY <1>1
  <2> QED BY <2>1, <2>2
<1>4. /\ digits \in Seq(Bytes) /\ Len(digits) = 2
      /\ digits[1] = str[n + 3] /\ digits[2] = str[n + 4]
  <2>1. /\ SubSeq(str, n + 3, n + 4) \in Seq(Bytes)
        /\ Len(SubSeq(str, n + 3, n + 4)) = n + 4 - (n + 3) + 1
        /\ \A i \in 1..(n + 4 - (n + 3) + 1) :
              SubSeq(str, n + 3, n + 4)[i] = str[n + 3 + i - 1]
    BY <1>1, <1>2, Part
  <2>2. /\ n + 4 - (n + 3) + 1 = 2 /\ n + 3 + 1 - 1 = n + 3
        /\ n + 3 + 2 - 1 = n + 4 /\ 1 \in 1..2 /\ 2 \in 1..2
    BY <1>1
  <2> QED BY <2>1, <2>2
<1>l. Len(str) - 1 = n + 3 /\ Len(str) = n + 4 /\ Len(str) - 3 = n + 1
  BY <1>1, <1>2
<1>e. ExtractChecksum(digits) # Checksum(inside) => ParseRaw(str) = Error
  <2> SUFFICES ASSUME ExtractChecksum(digits) # Checksum(inside)
               PROVE  ParseRaw(str) = Error
    OBVIOUS
  <2>1. ExtractChecksum(SubSeq(str, Len(str) - 1, Len(str)))
            # Checksum(SubSeq(str, 2, Len(str) - 3))
    BY <1>l
  <2> QED BY <2>1, RawErrors
<1> HIDE DEF inside, digits
<1>5. CASE k = 1 \/ k = n + 2
  <2>1. str[1] # Dollar \/ str[n + 2] # Star
    BY <1>1, <1>2, <1>5 DEF line
  <2>2. n + 2 = Len(str) - 2
    BY <1>1, <1>2
  <2>3. ParseRaw(str) = Error
    BY <2>1, <2>2, RawErrors
  <2> QED BY <2>3 DEF line, str
<1>6. CASE k \in 2..(n + 1)
  <2>1. Checksum(contents) # Checksum(inside)
    <3>1. k - 1 \in 1..n /\ inside[k - 1] = c /\ contents[k - 1] # c
      <4>1. k - 1 \in 1..n /\ k - 1 + 1 = k
        BY <1>1, <1>6
      <4> QED BY <1>1, <1>2, <1>3, <4>1 DEF line
    <3>2. ASSUME NEW i \in 1..n, i # k - 1 PROVE contents[i] = inside[i]
      <4>1. i + 1 \in 1..(n + 4) /\ i + 1 # k
        BY <1>1, <3>2
      <4> QED BY <1>1, <1>2, <1>3, <4>1
    <3> QED BY <1>1, <1>3, <3>1, <3>2, AlteredSum
  <2>2. digits[1] = line[n + 3] /\ digits[2] = line[n + 4]
    BY <1>1, <1>2, <1>4, <1>6
  <2>3. ExtractChecksum(digits) = Checksum(contents)
    BY <1>1, <2>2, ExtractFacts
  <2>4. ParseRaw(str) = Error
    BY <1>e, <2>1, <2>3
  <2> QED BY <2>4 DEF line, str
<1>7. CASE k \in {n + 3, n + 4}
  <2>1. inside = contents
    <3>1. ASSUME NEW i \in 1..n PROVE inside[i] = contents[i]
      <4>1. i + 1 \in 1..(n + 4) /\ i + 1 # k
        BY <1>1, <1>7
      <4> QED BY <1>1, <1>2, <1>3, <4>1
    <3> QED BY <1>1, <1>3, <3>1, SeqEqual
  <2>2. CASE ExtractChecksum(digits) # Checksum(inside)
    BY <1>e, <2>2 DEF line, str
  <2>3. CASE ExtractChecksum(digits) = Checksum(inside)
    <3>1. Len(str) = Len(line)
      BY <1>1, <1>2
    <3>2. str[1] = line[1] /\ str[Len(str) - 2] = line[Len(line) - 2]
      <4>1. /\ 1 \in 1..(n + 4) /\ 1 # k
            /\ n + 4 - 2 \in 1..(n + 4) /\ n + 4 - 2 # k
        BY <1>1, <1>7
      <4> QED BY <1>1, <1>2, <4>1
    <3>3. SubSeq(str, 2, Len(str) - 3) = SubSeq(line, 2, Len(line) - 3)
      BY <1>l, <1>p, <2>1 DEF inside
    <3>4. ExtractChecksum(SubSeq(str, Len(str) - 1, Len(str)))
             = ExtractChecksum(SubSeq(line, Len(line) - 1, Len(line)))
      BY <1>l, <1>p, <2>1, <2>3 DEF digits
    <3>5. ParseRaw(str) = ParseRaw(line)
      BY <3>1, <3>2, <3>3, <3>4, SameRaw
    <3> QED BY <3>5 DEF line, str
  <2> QED BY <2>2, <2>3
<1>8. k = 1 \/ k = n + 2 \/ k \in 2..(n + 1) \/ k \in {n + 3, n + 4}
  BY <1>1
<1> QED BY <1>5, <1>6, <1>7, <1>8

\* What is left when one character is lost.
LEMMA Shortened ==
    ASSUME NEW S, NEW s \in Seq(S), NEW k \in 1..Len(s)
    PROVE  LET t == RemoveAt(s, k)
           IN  /\ t \in Seq(S) /\ Len(t) = Len(s) - 1
               /\ \A i \in 1..(k - 1) : t[i] = s[i]
               /\ \A i \in k..(Len(s) - 1) : t[i] = s[i + 1]
<1> DEFINE n == Len(s)
           a == SubSeq(s, 1, k - 1)
           b == SubSeq(s, k + 1, n)
<1>1. n \in Nat /\ k \in 1..n
  OBVIOUS
<1>2. /\ a \in Seq(S) /\ Len(a) = k - 1
      /\ \A i \in 1..(k - 1) : a[i] = s[i]
  <2>1. /\ a \in Seq(S) /\ Len(a) = k - 1 - 1 + 1
        /\ \A i \in 1..(k - 1 - 1 + 1) : a[i] = s[1 + i - 1]
    BY <1>1, Part
  <2> HIDE DEF a
  <2> QED BY <1>1, <2>1
<1>3. /\ b \in Seq(S) /\ Len(b) = n - k
      /\ \A i \in 1..(n - k) : b[i] = s[k + i]
  <2>1. /\ b \in Seq(S) /\ Len(b) = n - (k + 1) + 1
        /\ \A i \in 1..(n - (k + 1) + 1) : b[i] = s[k + 1 + i - 1]
    BY <1>1, Part
  <2> HIDE DEF b
  <2> QED BY <1>1, <2>1
<1> HIDE DEF a, b
<1>4. /\ a \o b \in Seq(S) /\ Len(a \o b) = Len(a) + Len(b)
      /\ \A i \in 1..Len(a) : (a \o b)[i] = a[i]
      /\ \A i \in 1..Len(b) : (a \o b)[Len(a) + i] = b[i]
  <2>1. a \in Seq(S) /\ b \in Seq(S)
    BY <1>2, <1>3
  <2> QED BY ONLY <2>1, Joined
<1>5. RemoveAt(s, k) = a \o b
  BY DEF RemoveAt, a, b
<1> DEFINE t == a \o b
<1> HIDE DEF t
<1>6. t \in Seq(S) /\ Len(t) = n - 1
  BY <1>1, <1>2, <1>3, <1>4 DEF t
<1>7. \A i \in 1..(k - 1) : t[i] = s[i]
  BY <1>2, <1>4 DEF t
<1>8. ASSUME NEW i \in k..(n - 1) PROVE t[i] = s[i + 1]
  <2>1. i - (k - 1) \in 1..(n - k) /\ k - 1 + (i - (k - 1)) = i
        /\ k + (i - (k - 1)) = i + 1
    BY <1>1
  <2>2. t[k - 1 + (i - (k - 1))] = b[i - (k - 1)]
    BY <1>2, <1>3, <1>4, <2>1 DEF t
  <2> QED BY <1>3, <2>1, <2>2
<1> QED BY <1>5, <1>6, <1>7, <1>8 DEF t

\* A framed line with a character lost is an error.
LEMMA LossIsSeen ==
    ASSUME NEW contents \in Seq(Characters), Len(contents) >= 2,
           contents[1] # Dollar, contents[Len(contents)] # Star,
           NEW k \in 1..(Len(contents) + 4)
    PROVE  ParseRaw(RemoveAt(Framed(contents), k)) = Error
<1> DEFINE n == Len(contents)
           line == Framed(contents)
           str == RemoveAt(line, k)
           inside == SubSeq(str, 2, n)
           digits == SubSeq(str, n + 2, n + 3)
<1>1. /\ n \in Nat /\ line \in Seq(Characters) /\ Len(line) = n + 4
      /\ line[1] = Dollar /\ line[n + 2] = Star
      /\ \A i \in 1..n : line[i + 1] = contents[i]
      /\ \E p, q \in 0..15 :
            /\ line[n + 3] = HexDigit(p) /\ line[n + 4] = HexDigit(q)
            /\ Checksum(contents) = 16 * p + q
  <2>1. n \in Nat
    OBVIOUS
  <2> QED BY <2>1, FramedFacts
<1> HIDE DEF line
<1>2. /\ str \in Seq(Characters) /\ Len(str) = n + 3
      /\ \A i \in 1..(k - 1) : str[i] = line[i]
      /\ \A i \in k..(n + 3) : str[i] = line[i + 1]
  <2>1. /\ str \in Seq(Characters) /\ Len(str) = Len(line) - 1
        /\ \A i \in 1..(k - 1) : str[i] = line[i]
        /\ \A i \in k..(Len(line) - 1) : str[i] = line[i + 1]
    <3>1. line \in Seq(Characters) /\ k \in 1..Len(line)
      BY <1>1
    <3> HIDE DEF str
    <3>2. str = RemoveAt(line, k)
      BY DEF str
    <3> QED BY <3>1, <3>2, Shortened
  <2> HIDE DEF str
  <2> QED BY <1>1, <2>1
<1> HIDE DEF str
<1>3. CASE k = 1
  <2>1. str[1] = contents[1]
    <3>1. 1 \in 1..n /\ 1 \in k..(n + 3)
      BY <1>1, <1>3
    <3> QED BY <1>1, <1>2, <3>1
  <2> QED BY <2>1, RawErrors DEF line, str
<1>4. CASE k \in (n + 2)..(n + 4)
  <2>1. str[n + 1] = contents[n]
    <3>1. n \in 1..n /\ n + 1 \in 1..(k - 1)
      BY <1>1, <1>4
    <3> QED BY <1>1, <1>2, <3>1
  <2>2. Len(str) - 2 = n + 1
    BY <1>1, <1>2
  <2> QED BY <2>1, <2>2, RawErrors DEF line, str
<1>5. CASE k \in 2..(n + 1)
  <2>1. /\ inside \in Seq(Characters) /\ Len(inside) = n - 1
        /\ \A i \in 1..(n - 1) : inside[i] = str[i + 1]
    <3>1. /\ inside \in Seq(Characters) /\ Len(inside) = n - 2 + 1
          /\ \A i \in 1..(n - 2 + 1) : inside[i] = str[2 + i - 1]
      BY <1>1, <1>2, Part
    <3>2. n - 2 + 1 = n - 1 /\ \A i \in 1..(n - 1) : 2 + i - 1 = i + 1
      BY <1>1
    <3> HIDE DEF inside
    <3> QED BY <3>1, <3>2
  <2>2. /\ digits \in Seq(Characters) /\ Len(digits) = 2
        /\ digits[1] = str[n + 2] /\ digits[2] = str[n + 3]
    <3>1. /\ digits \in Seq(Characters) /\ Len(digits) = n + 3 - (n + 2) + 1
          /\ \A i \in 1..(n + 3 - (n + 2) + 1) : digits[i] = str[n + 2 + i - 1]
      BY <1>1, <1>2, Part
    <3>2. /\ n + 3 - (n + 2) + 1 = 2 /\ n + 2 + 1 - 1 = n + 2
          /\ n + 2 + 2 - 1 = n + 3 /\ 1 \in 1..2 /\ 2 \in 1..2
      BY <1>1
    <3> HIDE DEF digits
    <3> QED BY <3>1, <3>2
  <2> HIDE DEF inside, digits
  <2>3. Checksum(contents) # Checksum(inside)
    <3>1. k - 1 \in 1..n /\ n = Len(inside) + 1
      BY <1>1, <1>5, <2>1
    <3>2. ASSUME NEW i \in 1..(n - 1)
          PROVE  inside[i] = IF i < k - 1 THEN contents[i] ELSE contents[i + 1]
      <4>1. CASE i < k - 1
        <5>1. i + 1 \in 1..(k - 1) /\ i \in 1..n
          BY <1>1, <1>5, <4>1
        <5> QED BY <1>1, <1>2, <2>1, <4>1, <5>1
      <4>2. CASE ~(i < k - 1)
        <5>1. i + 1 \in k..(n + 3) /\ i + 1 \in 1..n
          BY <1>1, <1>5, <4>2
        <5> QED BY <1>1, <1>2, <2>1, <4>2, <5>1
      <4> QED BY <4>1, <4>2
    <3>3. \A i \in 1..Len(inside) :
             inside[i] = IF i < k - 1 THEN contents[i] ELSE contents[i + 1]
      BY <2>1, <3>2
    <3> QED BY <2>1, <3>1, <3>3, ShortenedSum
  <2>4. digits[1] = line[n + 3] /\ digits[2] = line[n + 4]
    <3>1. /\ n + 2 \in k..(n + 3) /\ n + 3 \in k..(n + 3)
          /\ n + 2 + 1 = n + 3 /\ n + 3 + 1 = n + 4
      BY <1>1, <1>5
    <3> QED BY <1>2, <2>2, <3>1
  <2>5. ExtractChecksum(digits) = Checksum(contents)
    BY <1>1, <2>2, <2>4, ExtractFacts
  <2>6. Len(str) - 1 = n + 2 /\ Len(str) = n + 3 /\ Len(str) - 3 = n
    BY <1>1, <1>2
  <2>7. ExtractChecksum(SubSeq(str, Len(str) - 1, Len(str)))
            # Checksum(SubSeq(str, 2, Len(str) - 3))
    BY <2>3, <2>5, <2>6 DEF inside, digits
  <2> QED BY <2>7, RawErrors DEF line, str
<1> QED BY <1>1, <1>3, <1>4, <1>5

-----------------------------------------------------------------------------
(* What the receiver sends.                                                *)

\* A quotient is the only one, and division by a product.
LEMMA DivisionIsUnique ==
    ASSUME NEW d \in Nat \ {0}, NEW q \in Int, NEW r \in 0..(d - 1)
    PROVE  (d * q + r) \div d = q /\ (d * q + r) % d = r
<1> DEFINE a == d * q + r
           p == a \div d
           s == a % d
<1>1. a \in Int
  OBVIOUS
<1>2. p \in Int /\ s \in 0..(d - 1) /\ a = d * p + s
  BY <1>1, Division
<1> HIDE DEF p, s
<1>3. d * (p - q) = r - s
  BY <1>2
<1>4. ~(p - q >= 1)
  <2>1. ASSUME p - q >= 1 PROVE d * (p - q) >= d
    <3>1. PICK x \in Nat : p - q = x + 1
      <4>1. p - q - 1 \in Nat /\ p - q = p - q - 1 + 1
        BY <1>2, <2>1
      <4> QED BY <4>1
    <3>2. d * (x + 1) = d * x + d /\ d * x >= 0
      OBVIOUS
    <3> QED BY <3>1, <3>2
  <2> QED BY <1>2, <1>3, <2>1
<1>5. ~(q - p >= 1)
  <2>1. ASSUME q - p >= 1 PROVE d * (q - p) >= d
    <3>1. PICK x \in Nat : q - p = x + 1
      <4>1. q - p - 1 \in Nat /\ q - p = q - p - 1 + 1
        BY <1>2, <2>1
      <4> QED BY <4>1
    <3>2. d * (x + 1) = d * x + d /\ d * x >= 0
      OBVIOUS
    <3> QED BY <3>1, <3>2
  <2>2. d * (q - p) = s - r
    BY <1>2, <1>3
  <2> QED BY <1>2, <2>1, <2>2
<1>6. p = q
  BY <1>2, <1>4, <1>5
<1> QED BY <1>2, <1>6 DEF p, s

LEMMA DivisionByProduct ==
    ASSUME NEW a \in Nat, NEW d \in Nat \ {0}, NEW e \in Nat \ {0}
    PROVE  /\ d * e \in Nat \ {0}
           /\ a \div (d * e) = (a \div e) \div d
<1> DEFINE q == (a \div e) \div d
           r == (a \div e) % d
           s == a % e
<1>1. q \in Int /\ r \in 0..(d - 1) /\ s \in 0..(e - 1)
  BY Division
<1>2. a = e * (d * q + r) + s
  <2>1. a = e * (a \div e) + s /\ a \div e \in Int
    BY Division
  <2>2. a \div e = d * q + r
    BY <2>1, Division
  <2> QED BY <2>1, <2>2
<1>3. d * e \in Nat \ {0}
  OBVIOUS
<1> HIDE DEF q, r, s
<1>4. e * (d * q + r) + s = d * e * q + (e * r + s)
  BY <1>1
<1>5. e * r + s \in 0..(d * e - 1)
  <2>1. e * r <= e * (d - 1)
    BY <1>1
  <2>2. e * (d - 1) = d * e - e /\ e * r >= 0
    BY <1>1
  <2> QED BY <1>1, <2>1, <2>2
<1> QED BY <1>1, <1>2, <1>3, <1>4, <1>5, DivisionIsUnique DEF q

\* Two digits.
LEMMA TwoDigitsFacts ==
    ASSUME NEW x \in 0..99
    PROVE  /\ TwoDigits(x) \in Seq(Characters) /\ Len(TwoDigits(x)) = 2
           /\ \E a, b \in 0..9 :
                 /\ TwoDigits(x)[1] = 48 + a /\ TwoDigits(x)[2] = 48 + b
                 /\ a * 10 + b = x
<1> DEFINE a == x \div 10
           b == x % 10
<1>1. a \in Int /\ b \in 0..9 /\ x = 10 * a + b
  <2>1. x \in Int /\ 10 \in Nat \ {0} /\ 10 - 1 = 9
    OBVIOUS
  <2> QED BY <2>1, Division
<1>2. TwoDigits(x) = <<48 + a, 48 + b>>
  BY DEF TwoDigits, Digit
<1> HIDE DEF a, b
<1>3. a \in 0..9 /\ a * 10 + b = x
  BY <1>1
<1>4. 48 + a \in Characters /\ 48 + b \in Characters
  BY <1>1, <1>3 DEF Characters
<1> DEFINE p == 48 + a
           q == 48 + b
<1>5. p \in Characters /\ q \in Characters /\ TwoDigits(x) = <<p, q>>
  BY <1>2, <1>4
<1> HIDE DEF p, q
<1>6. /\ TwoDigits(x) \in Seq(Characters) /\ Len(TwoDigits(x)) = 2
      /\ TwoDigits(x)[1] = p /\ TwoDigits(x)[2] = q
  BY <1>5
<1> QED BY <1>1, <1>3, <1>6 DEF p, q

\* The digits of a time of day, and what they are read as.
LEMMA TimeTextFacts ==
    ASSUME NEW tod \in 0..(Day - 1)
    PROVE  LET text == TimeText(tod)
           IN  /\ text \in Seq(Characters) /\ Len(text) = 6
               /\ \A k \in 1..6 : text[k] \in 48..57
               /\ ParseTime(text) = [time |-> tod]
<1>1. Hours \in 1..100 /\ Minutes \in 1..100 /\ Seconds \in 1..100
  BY NMEAAssumption
<1> DEFINE h == tod \div (Minutes * Seconds)
           m == tod \div Seconds
           s == tod % Seconds
<1>2. /\ Minutes * Seconds \in Nat \ {0} /\ h = m \div Minutes
      /\ Day = Hours * (Minutes * Seconds) /\ Day \in Nat \ {0}
  <2>1. Minutes \in Nat \ {0} /\ Seconds \in Nat \ {0} /\ Hours \in Nat \ {0}
    BY <1>1
  <2>2. Day \in Nat \ {0} /\ Day = Hours * (Minutes * Seconds)
    BY <2>1 DEF Day
  <2>3. tod \in Nat
    BY <2>2
  <2> QED BY <2>1, <2>2, <2>3, DivisionByProduct
<1>3. /\ m \in Int /\ s \in 0..(Seconds - 1) /\ tod = Seconds * m + s
  BY <1>1, Division
<1>4. /\ h \in Int /\ m % Minutes \in 0..(Minutes - 1)
      /\ m = Minutes * h + (m % Minutes)
  <2>1. m \in Int /\ Minutes \in Nat \ {0}
    BY <1>1, <1>3
  <2> HIDE DEF m
  <2>2. /\ m \div Minutes \in Int /\ m % Minutes \in 0..(Minutes - 1)
        /\ m = Minutes * (m \div Minutes) + (m % Minutes)
    BY <2>1, Division
  <2> HIDE DEF h
  <2> QED BY <1>2, <2>2
<1>5. h \in 0..(Hours - 1)
  <2> DEFINE p == Minutes * Seconds
             r == tod % p
  <2>1. r \in 0..(p - 1) /\ tod = p * h + r
    <3>1. p \in Nat \ {0} /\ tod \in Int
      BY <1>2
    <3> HIDE DEF p
    <3>2. tod % p \in 0..(p - 1) /\ tod = p * (tod \div p) + (tod % p)
      BY <3>1, Division
    <3>3. h = tod \div p
      BY DEF p
    <3> QED BY <3>2, <3>3
  <2> HIDE DEF p, r, h
  <2>2. p \in Nat \ {0} /\ tod \in 0..(Hours * p - 1)
    BY <1>2 DEF p
  <2>3. h >= 0
    <3> SUFFICES ASSUME h <= -1 PROVE FALSE
      BY <1>4
    <3>1. PICK x \in Nat : h = -1 - x
      <4>1. -1 - h \in Nat /\ h = -1 - (-1 - h)
        BY <1>4
      <4> QED BY <4>1
    <3>2. p * (-1 - x) = - p - p * x /\ p * x >= 0
      BY <2>2
    <3> QED BY <2>1, <2>2, <3>1, <3>2
  <2>4. h < Hours
    <3> SUFFICES ASSUME h >= Hours PROVE FALSE
      BY <1>1, <1>4
    <3>1. PICK x \in Nat : h = Hours + x
      <4>1. h - Hours \in Nat /\ h = Hours + (h - Hours)
        BY <1>1, <1>4
      <4> QED BY <4>1
    <3>2. p * (Hours + x) = Hours * p + p * x /\ p * x >= 0
      BY <1>1, <2>2
    <3>3. Hours * p \in Int /\ p * x \in Int
      BY <1>1, <2>2
    <3> QED BY <2>1, <2>2, <3>1, <3>2, <3>3
  <2> QED BY <1>1, <1>4, <2>3, <2>4
<1> HIDE DEF h, s
<1> DEFINE r == m % Minutes
           x == TwoDigits(h)
           y == TwoDigits(r)
           z == TwoDigits(s)
           text == TimeText(tod)
<1>6. text = (x \o y) \o z
  BY DEF TimeText, h, m, s
<1> HIDE DEF m
<1>r. r \in 0..(Minutes - 1) /\ m = Minutes * h + r
  BY <1>4
<1> HIDE DEF r
<1>7. h \in 0..99 /\ r \in 0..99 /\ s \in 0..99
  BY <1>1, <1>3, <1>r, <1>5
<1>8. PICK a \in 0..9, b \in 0..9 :
         /\ x \in Seq(Characters) /\ Len(x) = 2
         /\ x[1] = 48 + a /\ x[2] = 48 + b /\ a * 10 + b = h
  BY <1>7, TwoDigitsFacts
<1>9. PICK c \in 0..9, d \in 0..9 :
         /\ y \in Seq(Characters) /\ Len(y) = 2
         /\ y[1] = 48 + c /\ y[2] = 48 + d /\ c * 10 + d = r
  BY <1>7, TwoDigitsFacts
<1>10. PICK e \in 0..9, f \in 0..9 :
         /\ z \in Seq(Characters) /\ Len(z) = 2
         /\ z[1] = 48 + e /\ z[2] = 48 + f /\ e * 10 + f = s
  BY <1>7, TwoDigitsFacts
<1> HIDE DEF x, y, z
<1> DEFINE xy == x \o y
<1>11. /\ xy \in Seq(Characters) /\ Len(xy) = 4
       /\ xy[1] = x[1] /\ xy[2] = x[2] /\ xy[3] = y[1] /\ xy[4] = y[2]
  <2>1. x \in Seq(Characters) /\ y \in Seq(Characters)
    BY <1>8, <1>9
  <2>2. /\ xy \in Seq(Characters) /\ Len(xy) = Len(x) + Len(y)
        /\ \A i \in 1..Len(x) : xy[i] = x[i]
        /\ \A i \in 1..Len(y) : xy[Len(x) + i] = y[i]
    BY ONLY <2>1, Joined
  <2> HIDE DEF xy
  <2>3. 1 \in 1..2 /\ 2 \in 1..2 /\ 2 + 1 = 3 /\ 2 + 2 = 4
    OBVIOUS
  <2> QED BY <1>8, <1>9, <2>2, <2>3
<1> HIDE DEF xy
<1> HIDE DEF text
<1>12. /\ text \in Seq(Characters) /\ Len(text) = 6
       /\ text[1] = xy[1] /\ text[2] = xy[2] /\ text[3] = xy[3]
       /\ text[4] = xy[4] /\ text[5] = z[1] /\ text[6] = z[2]
  <2>1. xy \in Seq(Characters) /\ z \in Seq(Characters) /\ text = xy \o z
    BY <1>6, <1>10, <1>11 DEF xy
  <2>2. /\ text \in Seq(Characters) /\ Len(text) = Len(xy) + Len(z)
        /\ \A i \in 1..Len(xy) : text[i] = xy[i]
        /\ \A i \in 1..Len(z) : text[Len(xy) + i] = z[i]
    BY ONLY <2>1, Joined
  <2>3. /\ 1 \in 1..4 /\ 2 \in 1..4 /\ 3 \in 1..4 /\ 4 \in 1..4
        /\ 1 \in 1..2 /\ 2 \in 1..2 /\ 4 + 1 = 5 /\ 4 + 2 = 6
    OBVIOUS
  <2> QED BY <1>10, <1>11, <2>2, <2>3
<1>13. /\ text[1] = 48 + a /\ text[2] = 48 + b /\ text[3] = 48 + c
       /\ text[4] = 48 + d /\ text[5] = 48 + e /\ text[6] = 48 + f
  BY <1>8, <1>9, <1>10, <1>11, <1>12
<1>14. \A k \in 1..6 : text[k] \in 48..57
  <2>1. \A k \in 1..6 : k = 1 \/ k = 2 \/ k = 3 \/ k = 4 \/ k = 5 \/ k = 6
    OBVIOUS
  <2>2. \A v \in 0..9 : 48 + v \in 48..57
    OBVIOUS
  <2> QED BY <1>13, <2>1, <2>2
<1> DEFINE Value(k) == (text[k] - 48) * 10 + (text[k + 1] - 48)
<1>15. Value(1) = h /\ Value(3) = r /\ Value(5) = s
  <2>1. /\ text[1 + 1] = 48 + b /\ text[3 + 1] = 48 + d
        /\ text[5 + 1] = 48 + f
    <3>1. 1 + 1 = 2 /\ 3 + 1 = 4 /\ 5 + 1 = 6
      OBVIOUS
    <3> QED BY <1>13, <3>1
  <2>2. /\ Value(1) = (48 + a - 48) * 10 + (48 + b - 48)
        /\ Value(3) = (48 + c - 48) * 10 + (48 + d - 48)
        /\ Value(5) = (48 + e - 48) * 10 + (48 + f - 48)
    BY <1>13, <2>1
  <2> HIDE DEF Value
  <2> QED BY <1>8, <1>9, <1>10, <2>2
<1>16. s + r * Seconds + h * Minutes * Seconds = tod
  <2>1. Seconds * (Minutes * h + r) = h * Minutes * Seconds + r * Seconds
    <3>1. \A i, j, k, l \in Int : l * (j * i + k) = i * j * l + k * l
      OBVIOUS
    <3>2. /\ Minutes \in Int /\ Seconds \in Int /\ h \in Int /\ r \in Int
      BY <1>1, <1>4, <1>7
    <3> QED BY ONLY <3>1, <3>2
  <2>2. h * Minutes * Seconds \in Int /\ r * Seconds \in Int
    BY <1>1, <1>4, <1>7
  <2> QED BY <1>3, <1>r, <2>1, <2>2
<1>17. ParseTime(text)
          = [time |-> Value(5) + Value(3) * Seconds
                         + Value(1) * Minutes * Seconds]
  <2>1. ~(Len(text) < 6 \/ \E k \in 1..6 : text[k] \notin 48..57)
    BY <1>12, <1>14
  <2> QED BY <2>1 DEF ParseTime
<1> HIDE DEF Value
<1>18. ParseTime(text) = [time |-> tod]
  BY <1>15, <1>16, <1>17
<1> QED BY <1>12, <1>14, <1>18 DEF text

\* What a line for a position begins and ends with.
LEMMA ContentsFacts ==
    ASSUME NEW text \in Seq(Characters), Len(text) = 6
    PROVE  LET contents == Contents(text, TRUE)
           IN  /\ contents \in Seq(Characters) /\ Len(contents) = 42
               /\ contents[1] = 71 /\ contents[2] = 80 /\ contents[3] = 71
               /\ contents[4] = 71 /\ contents[5] = 65
               /\ contents[6] = Comma /\ contents[13] = Comma
               /\ \A k \in 1..6 : contents[6 + k] = text[k]
               /\ contents[42] = Comma
<1> DEFINE comma == <<Comma>>
           p == PositionFields(TRUE)
           others == OtherFields
<1>1. /\ GP \in Seq(Characters) /\ Len(GP) = 2 /\ GP[1] = 71 /\ GP[2] = 80
  BY DEF GP, Characters
<1>2. /\ GGA \in Seq(Characters) /\ Len(GGA) = 3
      /\ GGA[1] = 71 /\ GGA[2] = 71 /\ GGA[3] = 65
  BY DEF GGA, Characters
<1>3. comma \in Seq(Characters) /\ Len(comma) = 1 /\ comma[1] = Comma
  BY DEF Comma, Characters
<1>4. p \in Seq(Characters) /\ Len(p) = 15
  BY DEF PositionFields, Digit, Dot, Comma, North, East, Characters
<1>5. others \in Seq(Characters) /\ Len(others) = 14 /\ others[14] = Comma
  BY DEF OtherFields, Digit, Comma, Metres, Characters
<1> HIDE DEF comma, p, others
<1> DEFINE a == GP \o GGA
<1>6. /\ a \in Seq(Characters) /\ Len(a) = 5
      /\ \A i \in 1..2 : a[i] = GP[i]
      /\ \A i \in 1..3 : a[2 + i] = GGA[i]
  <2>1. GP \in Seq(Characters) /\ GGA \in Seq(Characters)
    BY <1>1, <1>2
  <2>2. /\ a \in Seq(Characters) /\ Len(a) = Len(GP) + Len(GGA)
        /\ \A i \in 1..Len(GP) : a[i] = GP[i]
        /\ \A i \in 1..Len(GGA) : a[Len(GP) + i] = GGA[i]
    BY ONLY <2>1, Joined
  <2> HIDE DEF a
  <2> QED BY <1>1, <1>2, <2>2
<1> HIDE DEF a
<1> DEFINE b == a \o comma
<1>7. /\ b \in Seq(Characters) /\ Len(b) = 6
      /\ \A i \in 1..5 : b[i] = a[i]
      /\ \A i \in 1..1 : b[5 + i] = comma[i]
  <2>1. a \in Seq(Characters) /\ comma \in Seq(Characters)
    BY <1>3, <1>6
  <2>2. /\ b \in Seq(Characters) /\ Len(b) = Len(a) + Len(comma)
        /\ \A i \in 1..Len(a) : b[i] = a[i]
        /\ \A i \in 1..Len(comma) : b[Len(a) + i] = comma[i]
    BY ONLY <2>1, Joined
  <2> HIDE DEF b
  <2> QED BY <1>3, <1>6, <2>2
<1> HIDE DEF b
<1> DEFINE c == b \o text
<1>8. /\ c \in Seq(Characters) /\ Len(c) = 12
      /\ \A i \in 1..6 : c[i] = b[i]
      /\ \A i \in 1..6 : c[6 + i] = text[i]
  <2>1. b \in Seq(Characters) /\ text \in Seq(Characters)
    BY <1>7
  <2>2. /\ c \in Seq(Characters) /\ Len(c) = Len(b) + Len(text)
        /\ \A i \in 1..Len(b) : c[i] = b[i]
        /\ \A i \in 1..Len(text) : c[Len(b) + i] = text[i]
    BY ONLY <2>1, Joined
  <2> HIDE DEF c
  <2> QED BY <1>7, <2>2
<1> HIDE DEF c
<1> DEFINE d == c \o comma
<1>9. /\ d \in Seq(Characters) /\ Len(d) = 13
      /\ \A i \in 1..12 : d[i] = c[i]
      /\ \A i \in 1..1 : d[12 + i] = comma[i]
  <2>1. c \in Seq(Characters) /\ comma \in Seq(Characters)
    BY <1>3, <1>8
  <2>2. /\ d \in Seq(Characters) /\ Len(d) = Len(c) + Len(comma)
        /\ \A i \in 1..Len(c) : d[i] = c[i]
        /\ \A i \in 1..Len(comma) : d[Len(c) + i] = comma[i]
    BY ONLY <2>1, Joined
  <2> HIDE DEF d
  <2> QED BY <1>3, <1>8, <2>2
<1> HIDE DEF d
<1> DEFINE e == d \o p
<1>10. /\ e \in Seq(Characters) /\ Len(e) = 28
       /\ \A i \in 1..13 : e[i] = d[i]
  <2>1. d \in Seq(Characters) /\ p \in Seq(Characters)
    BY <1>4, <1>9
  <2>2. /\ e \in Seq(Characters) /\ Len(e) = Len(d) + Len(p)
        /\ \A i \in 1..Len(d) : e[i] = d[i]
        /\ \A i \in 1..Len(p) : e[Len(d) + i] = p[i]
    BY ONLY <2>1, Joined
  <2> HIDE DEF e
  <2> QED BY <1>4, <1>9, <2>2
<1> HIDE DEF e
<1> DEFINE f == e \o others
<1>11. /\ f \in Seq(Characters) /\ Len(f) = 42
       /\ \A i \in 1..28 : f[i] = e[i]
       /\ \A i \in 1..14 : f[28 + i] = others[i]
  <2>1. e \in Seq(Characters) /\ others \in Seq(Characters)
    BY <1>5, <1>10
  <2>2. /\ f \in Seq(Characters) /\ Len(f) = Len(e) + Len(others)
        /\ \A i \in 1..Len(e) : f[i] = e[i]
        /\ \A i \in 1..Len(others) : f[Len(e) + i] = others[i]
    BY ONLY <2>1, Joined
  <2> HIDE DEF f
  <2> QED BY <1>5, <1>10, <2>2
<1> HIDE DEF f
<1>12. Contents(text, TRUE) = f
  BY DEF Contents, f, e, d, c, b, a, comma, p, others
<1>13. \A i \in 1..12 : f[i] = c[i]
  <2>1. \A i \in 1..12 : i \in 1..13 /\ i \in 1..28
    OBVIOUS
  <2> QED BY <1>9, <1>10, <1>11, <2>1
<1>14. f[13] = Comma /\ f[42] = Comma
  <2>1. /\ 13 \in 1..28 /\ 13 \in 1..13 /\ 12 + 1 = 13 /\ 28 + 14 = 42
        /\ 14 \in 1..14 /\ 1 \in 1..1
    OBVIOUS
  <2> QED BY <1>3, <1>5, <1>9, <1>10, <1>11, <2>1
<1>15. \A i \in 1..6 : f[i] = b[i]
  BY <1>8, <1>13
<1>16. \A k \in 1..6 : f[6 + k] = text[k]
  BY <1>8, <1>13
<1>17. f[6] = Comma /\ \A i \in 1..5 : f[i] = a[i]
  BY <1>3, <1>7, <1>15
<1>18. f[1] = 71 /\ f[2] = 80 /\ f[3] = 71 /\ f[4] = 71 /\ f[5] = 65
  BY <1>1, <1>2, <1>6, <1>17
<1> QED BY <1>11, <1>12, <1>14, <1>16, <1>17, <1>18

\* A damaged line is an error, or read as it was sent.
LEMMA DamageIsHarmless ==
    ASSUME NEW tod \in 0..(Day - 1), NEW str \in Damaged(Position(tod))
    PROVE  \/ IsError(ParseLine(str))
           \/ ParseLine(str) = ParseLine(Position(tod))
<1> DEFINE contents == Contents(TimeText(tod), TRUE)
           n == Len(contents)
<1>2. TimeText(tod) \in Seq(Characters) /\ Len(TimeText(tod)) = 6
  BY TimeTextFacts
<1>3. /\ contents \in Seq(Characters) /\ n = 42
      /\ contents[1] = 71 /\ contents[42] = Comma
  BY <1>2, ContentsFacts
<1> HIDE DEF contents
<1>4. contents[1] # Dollar /\ contents[n] # Star
  BY <1>3 DEF Dollar, Star, Comma
<1>n. Len(contents) >= 2 /\ contents[Len(contents)] # Star
  BY <1>3, <1>4
<1>5. Position(tod) = Framed(contents)
  BY DEF Position, Sentence, contents
<1>6. /\ Framed(contents) \in Seq(Characters)
      /\ DOMAIN Framed(contents) = 1..(n + 4)
  <2>1. Framed(contents) \in Seq(Characters) /\ Len(Framed(contents)) = n + 4
    BY <1>3, FramedFacts
  <2> QED BY <2>1
<1>7. \/ \E k \in 1..(n + 4) : str = RemoveAt(Framed(contents), k)
      \/ \E k \in 1..(n + 4), c \in Noise :
            str = [Framed(contents) EXCEPT ![k] = c] /\ str # Framed(contents)
  BY <1>5, <1>6 DEF Damaged
<1>8. ParseRaw(str) \in {Error, ParseRaw(Framed(contents))}
  <2>1. ASSUME NEW k \in 1..(n + 4), NEW c \in Noise,
               str = [Framed(contents) EXCEPT ![k] = c],
               str # Framed(contents)
        PROVE  ParseRaw(str) \in {Error, ParseRaw(Framed(contents))}
    <3>1. c \in Bytes
      BY NMEAAssumption
    <3>2. Framed(contents)[k] # c
      BY <1>6, <2>1
    <3> QED BY <1>3, <1>n, <2>1, <3>1, <3>2, AlterationIsSeen
  <2>2. ASSUME NEW k \in 1..(n + 4), str = RemoveAt(Framed(contents), k)
        PROVE  ParseRaw(str) = Error
    BY <1>3, <1>4, <1>n, <2>2, LossIsSeen
  <2> QED BY <1>7, <2>1, <2>2
<1>9. CASE ParseRaw(str) = Error
  BY <1>9, ErrorsAreErrors
<1>10. CASE ParseRaw(str) = ParseRaw(Framed(contents))
  BY <1>5, <1>10 DEF ParseLine
<1> QED BY <1>8, <1>9, <1>10

-----------------------------------------------------------------------------
(* What is read of a whole line.                                           *)

\* An element of a finite set of numbers is known by how many are below it.
LEMMA Ranks ==
    ASSUME NEW E \in SUBSET Nat, IsFiniteSet(E), NEW k \in E, NEW i,
           Cardinality({j \in E : j < k}) = i
    PROVE  (CHOOSE x \in E : Cardinality({j \in E : j < x}) = i) = k
<1> DEFINE Below(x) == {j \in E : j < x}
           c == CHOOSE x \in E : Cardinality(Below(x)) = i
<1>1. c \in E /\ Cardinality(Below(c)) = Cardinality(Below(k))
  OBVIOUS
<1>2. ASSUME NEW x \in E, NEW y \in E, x < y
      PROVE  Cardinality(Below(x)) # Cardinality(Below(y))
  <2>0. x \in Nat /\ y \in Nat /\ \A j \in E : j \in Nat
    OBVIOUS
  <2>a. \A j \in E : j < x => j < y
    BY <1>2, <2>0
  <2>b. x < y /\ ~(x < x)
    BY <1>2, <2>0
  <2>1. Below(x) \in SUBSET Below(y) /\ x \in Below(y) /\ x \notin Below(x)
    BY <2>a, <2>b, Zenon
  <2>2. IsFiniteSet(Below(y))
    <3>1. Below(y) \in SUBSET E
      OBVIOUS
    <3> HIDE DEF Below
    <3> QED BY <3>1, FS_Subset
  <2> HIDE DEF Below
  <2> QED BY <2>1, <2>2, FS_Subset
<1> HIDE DEF c, Below
<1>3. c \in Nat /\ k \in Nat
  BY <1>1
<1>4. c = k
  BY <1>1, <1>2, <1>3
<1> QED BY <1>4 DEF c, Below

LEMMA OneMore ==
    ASSUME NEW E, IsFiniteSet(E), NEW x, x \notin E
    PROVE  /\ IsFiniteSet(E \cup {x})
           /\ Cardinality(E \cup {x}) = Cardinality(E) + 1
BY FS_AddElement

\* The time of a line is its second field.
LEMMA SecondField ==
    ASSUME NEW csv \in Seq(Characters), Len(csv) >= 14,
           csv[6] = Comma, csv[13] = Comma,
           \A k \in (1..5) \cup (7..12) : csv[k] # Comma
    PROVE  Tail(Fields(csv))[1] = SubSeq(csv, 7, 12)
<1> DEFINE ends == {0, Len(csv) + 1} \cup {k \in DOMAIN csv : csv[k] = Comma}
           End(i) == CHOOSE k \in ends : Cardinality({j \in ends : j < k}) = i
           all == [i \in 1..(Cardinality(ends) - 1) |->
                      SubSeq(csv, End(i - 1) + 1, End(i) - 1)]
           n == Len(csv)
<1>1. n \in Nat /\ DOMAIN csv = 1..n
  OBVIOUS
<1>2. ends \in SUBSET Nat /\ IsFiniteSet(ends)
  <2> DEFINE S == 0..(n + 1)
  <2>1. ends \in SUBSET S /\ S \in SUBSET Nat
    BY <1>1
  <2>2. IsFiniteSet(S)
    BY <1>1, FS_Interval
  <2> HIDE DEF ends, S
  <2>3. IsFiniteSet(ends)
    BY <2>1, <2>2, FS_Subset
  <2> QED BY <2>1, <2>3
<1>3. /\ 6 \in ends /\ 13 \in ends /\ n + 1 \in ends
      /\ {j \in ends : j < 6} = {0}
      /\ {j \in ends : j < 13} = {0, 6}
  <2>1. 6 \in DOMAIN csv /\ 13 \in DOMAIN csv
    BY <1>1
  <2>2. ASSUME NEW j \in ends, j < 13 PROVE j \in {0, 6}
    <3>1. j \in 0..12
      BY <1>2, <2>2
    <3>2. CASE j \in DOMAIN csv /\ csv[j] = Comma
      BY <1>1, <3>1, <3>2
    <3>3. CASE j \in {0, n + 1}
      BY <1>1, <3>1, <3>3
    <3> QED BY <3>2, <3>3
  <2>3. 0 \in ends /\ 6 \in ends /\ 13 \in ends /\ n + 1 \in ends
    BY <2>1
  <2> HIDE DEF ends
  <2>4. ASSUME NEW j \in ends, j < 6 PROVE j = 0
    <3>1. j < 13 /\ j # 6
      BY <1>2, <2>4
    <3> QED BY <2>2, <3>1
  <2> QED BY <2>2, <2>3, <2>4
<1> HIDE DEF ends
<1>4. Cardinality({0}) = 1 /\ Cardinality({0, 6}) = 2
  <2>1. IsFiniteSet({0}) /\ Cardinality({0}) = 1
    BY FS_Singleton
  <2>2. Cardinality({0} \cup {6}) = 2
    <3>1. 6 \notin {0} /\ 1 + 1 = 2
      OBVIOUS
    <3> QED BY <2>1, <3>1, OneMore
  <2>3. {0} \cup {6} = {0, 6}
    OBVIOUS
  <2> QED BY <2>1, <2>2, <2>3
<1>5. End(1) = 6 /\ End(2) = 13
  <2>1. /\ Cardinality({j \in ends : j < 6}) = 1
        /\ Cardinality({j \in ends : j < 13}) = 2
    BY <1>3, <1>4
  <2> QED BY <1>2, <1>3, <2>1, Ranks
<1>6. Cardinality(ends) \in Nat /\ Cardinality(ends) >= 4
  <2>1. /\ IsFiniteSet({0, 6}) /\ Cardinality({0, 6}) = 2
    <3>1. {0, 6} \in SUBSET ends
      BY <1>3
    <3> QED BY <1>2, <1>4, <3>1, FS_Subset
  <2>2. IsFiniteSet({0, 6} \cup {13}) /\ Cardinality({0, 6} \cup {13}) = 3
    <3>1. 13 \notin {0, 6} /\ 2 + 1 = 3
      OBVIOUS
    <3> QED BY <2>1, <3>1, OneMore
  <2>3. /\ IsFiniteSet(({0, 6} \cup {13}) \cup {n + 1})
        /\ Cardinality(({0, 6} \cup {13}) \cup {n + 1}) = 4
    <3>1. n + 1 \notin {0, 6} \cup {13} /\ 3 + 1 = 4
      BY <1>1
    <3> QED BY <2>2, <3>1, OneMore
  <2>4. ({0, 6} \cup {13}) \cup {n + 1} \in SUBSET ends
    BY <1>3
  <2> DEFINE four == ({0, 6} \cup {13}) \cup {n + 1}
  <2>5. IsFiniteSet(four) /\ Cardinality(four) = 4 /\ four \in SUBSET ends
    BY <2>3, <2>4
  <2> HIDE DEF four
  <2>6. Cardinality(four) <= Cardinality(ends)
    BY <1>2, <2>5, FS_Subset
  <2>7. Cardinality(ends) \in Nat
    BY <1>2, FS_CardinalityType
  <2> QED BY <2>5, <2>6, <2>7
<1> DEFINE m == Cardinality(ends) - 1
           Parts == {all[i] : i \in 1..m}
<1>7. /\ m \in Nat /\ m >= 3 /\ all \in Seq(Parts) /\ Len(all) = m
      /\ all[2] = SubSeq(csv, 7, 12)
  <2>1. m \in Nat /\ m >= 3
    BY <1>6
  <2>2. all[2] = SubSeq(csv, End(2 - 1) + 1, End(2) - 1)
    <3>1. 2 \in 1..m
      BY <2>1
    <3> HIDE DEF End, m
    <3>2. all = [i \in 1..m |-> SubSeq(csv, End(i - 1) + 1, End(i) - 1)]
      BY DEF m
    <3> HIDE DEF all
    <3> QED BY <3>1, <3>2, Zenon
  <2>3. all[2] = SubSeq(csv, 7, 12)
    <3>1. 2 - 1 = 1 /\ 6 + 1 = 7 /\ 13 - 1 = 12
      OBVIOUS
    <3> HIDE DEF End, all
    <3> QED BY <1>5, <2>2, <3>1
  <2>4. all \in [1..m -> Parts]
    OBVIOUS
  <2> HIDE DEF all, m, Parts
  <2> QED BY <2>1, <2>3, <2>4
<1> DEFINE front == SubSeq(all, 1, m - 1)
<1>8. Fields(csv) \in {all, front}
  <2>1. Fields(csv) = IF Last(all) = <<>> THEN Front(all) ELSE all
    BY DEF Fields, ends
  <2>2. Front(all) = front
    BY <1>7 DEF Front
  <2> HIDE DEF all, front
  <2> QED BY <2>1, <2>2
<1> HIDE DEF all, m, End, Parts
<1>9. /\ front \in Seq(Parts) /\ Len(front) = m - 1 /\ front[2] = all[2]
  BY <1>7, SubSeqProperties
<1>10. \A s \in {all, front} : Tail(s)[1] = s[2]
  BY <1>7, <1>9
<1> QED BY <1>7, <1>8, <1>9, <1>10

\* A line that is read is one whose contents are looked at for the time.
LEMMA WholeLineIsRead ==
    ASSUME NEW tod \in 0..(Day - 1), ~IsError(ParseLine(Position(tod)))
    PROVE  ParseLine(Position(tod)) = [time |-> tod]
<1> DEFINE text == TimeText(tod)
           contents == Contents(text, TRUE)
           str == Position(tod)
<1>2. /\ text \in Seq(Characters) /\ Len(text) = 6
      /\ \A k \in 1..6 : text[k] \in 48..57
      /\ ParseTime(text) = [time |-> tod]
  BY TimeTextFacts
<1>3. /\ contents \in Seq(Characters) /\ Len(contents) = 42
      /\ contents[1] = 71 /\ contents[2] = 80 /\ contents[3] = 71
      /\ contents[4] = 71 /\ contents[5] = 65
      /\ contents[6] = Comma /\ contents[13] = Comma
      /\ \A k \in 1..6 : contents[6 + k] = text[k]
  BY <1>2, ContentsFacts
<1>4. str = Framed(contents)
  BY DEF Position, Sentence
<1> HIDE DEF text, contents, str
<1>5. SubSeq(str, 2, Len(str) - 3) = contents
  BY <1>3, <1>4, FramedParts
<1>6. Tail(Fields(contents))[1] = SubSeq(contents, 7, 12)
  <2>1. \A k \in (1..5) \cup (7..12) : contents[k] # Comma
    <3>1. ASSUME NEW k \in 7..12 PROVE contents[k] # Comma
      <4>1. k - 6 \in 1..6 /\ 6 + (k - 6) = k
        OBVIOUS
      <4>2. contents[6 + (k - 6)] = text[k - 6] /\ text[k - 6] \in 48..57
        <5> DEFINE i == k - 6
        <5>1. i \in 1..6
          BY <4>1
        <5> HIDE DEF i
        <5>2. contents[6 + i] = text[i] /\ text[i] \in 48..57
          BY <1>2, <1>3, <5>1
        <5> QED BY <5>2 DEF i
      <4>3. contents[k] \in 48..57
        BY <4>1, <4>2
      <4> QED BY <4>3 DEF Comma
    <3>2. \A k \in 1..5 : contents[k] \in {65, 71, 80}
      BY <1>3
    <3> QED BY <3>1, <3>2 DEF Comma
  <2>2. Len(contents) >= 14
    BY <1>3
  <2> QED BY <1>3, <2>1, <2>2, SecondField, Zenon
<1>7. SubSeq(contents, 7, 12) = text
  <2> DEFINE part == SubSeq(contents, 7, 12)
  <2>1. /\ part \in Seq(Characters) /\ Len(part) = 6
        /\ \A i \in 1..6 : part[i] = contents[7 + i - 1]
    <3>1. PICK from \in Int, to \in Int : from = 7 /\ to = 12
      OBVIOUS
    <3>2. 1 <= from /\ from <= to + 1 /\ to <= Len(contents)
      BY <1>3, <3>1
    <3> DEFINE s == SubSeq(contents, from, to)
    <3>3. /\ s \in Seq(Characters) /\ Len(s) = to - from + 1
          /\ \A i \in 1..(to - from + 1) : s[i] = contents[from + i - 1]
      <4>1. contents \in Seq(Characters)
        BY <1>3
      <4> HIDE DEF s
      <4> QED BY <3>2, <4>1, Part DEF s
    <3>4. s = part
      BY <3>1
    <3> HIDE DEF s, part
    <3> QED BY <3>1, <3>3, <3>4
  <2> HIDE DEF part
  <2>2. \A i \in 1..6 : part[i] = text[i]
    <3>1. \A i \in 1..6 : 7 + i - 1 = 6 + i
      OBVIOUS
    <3> QED BY <1>3, <2>1, <3>1
  <2>3. part = text
    BY <1>2, <2>1, <2>2, SeqEqual
  <2> QED BY <2>3 DEF part
<1>8. IsError(Error)
  BY DEF Error, IsError
<1>9. /\ ParseLine(str) = ParseTime(ParseRaw(str).fields[1])
      /\ ~IsError(ParseRaw(str))
  BY <1>8 DEF ParseLine, str
<1>10. ParseRaw(str).fields = Tail(Fields(contents))
  BY <1>5, <1>8, <1>9 DEF ParseRaw
<1>11. ParseLine(str) = ParseTime(text)
  BY <1>6, <1>7, <1>9, <1>10
<1> QED BY <1>2, <1>11 DEF str

\* What is read of a line with a fix is the time at which it was sent.
LEMMA WhatIsRead ==
    ASSUME NEW reading \in WholeReadings \cup DamagedReadings,
           ~IsError(reading.res)
    PROVE  reading.res.time = reading.of
<1>1. CASE reading \in WholeReadings
  <2>1. PICK tod \in 0..(Day - 1) :
           reading = [of |-> tod, res |-> ParseLine(Position(tod))]
    BY <1>1 DEF WholeReadings, Readings
  <2> QED BY <2>1, WholeLineIsRead
<1>2. CASE reading \in DamagedReadings
  <2>1. PICK tod \in 0..(Day - 1) :
           \E str \in Damaged(Position(tod)) :
              reading = [of |-> tod, res |-> ParseLine(str)]
    BY <1>2 DEF DamagedReadings, Readings
  <2>2. PICK str \in Damaged(Position(tod)) :
           reading = [of |-> tod, res |-> ParseLine(str)]
    BY <2>1
  <2>3. ParseLine(str) = ParseLine(Position(tod))
    BY <2>2, DamageIsHarmless
  <2> QED BY <2>2, <2>3, WholeLineIsRead
<1> QED BY <1>1, <1>2

\* What is read is a number.
LEMMA TimesAreNumbers ==
    ASSUME NEW str, ~IsError(ParseLine(str))
    PROVE  ParseLine(str).time \in Int
<1>1. IsError(Error)
  BY DEF Error, IsError
<1>2. PICK text : ParseLine(str) = ParseTime(text)
  BY <1>1 DEF ParseLine
<1> DEFINE Value(k) == (text[k] - 48) * 10 + (text[k + 1] - 48)
<1>3. /\ \A k \in 1..6 : text[k] \in 48..57
      /\ ParseTime(text) = [time |-> Value(5) + Value(3) * Seconds
                                        + Value(1) * Minutes * Seconds]
  BY <1>1, <1>2 DEF ParseTime
<1>4. Seconds \in Int /\ Minutes \in Int
  BY NMEAAssumption
<1>5. \A k \in 1..5 : Value(k) \in Int
  <2> SUFFICES ASSUME NEW k \in 1..5 PROVE Value(k) \in Int
    OBVIOUS
  <2>1. k \in 1..6 /\ k + 1 \in 1..6
    OBVIOUS
  <2>2. text[k] \in 48..57 /\ text[k + 1] \in 48..57
    BY <1>3, <2>1
  <2> QED BY <2>2
<1> HIDE DEF Value
<1>6. \A a, b, c, d, e \in Int : a + b * d + c * e * d \in Int
  OBVIOUS
<1>7. Value(1) \in Int /\ Value(3) \in Int /\ Value(5) \in Int
  BY <1>5
<1>8. Value(5) + Value(3) * Seconds + Value(1) * Minutes * Seconds \in Int
  BY <1>4, <1>6, <1>7
<1> QED BY <1>2, <1>3, <1>8

-----------------------------------------------------------------------------
(* The calendar.                                                           *)

LEMMA YearsOfFourHundred ==
    ASSUME NEW z \in Nat
    PROVE  DaysOfYears(z) = z * 365 + Leaps(z)
BY DEF DaysOfYears, Leaps

LEMMA LeapYears ==
    ASSUME NEW y \in Nat \ {0}
    PROVE  /\ Leaps(y - 1) \in Int
           /\ Leaps(y) = Leaps(y - 1) + IF IsLeap(y) THEN 1 ELSE 0
BY DEF IsLeap, Leaps

\* The months, and those of a year that begins in March.
LEMMA Months ==
    /\ \A m \in 1..12 : DaysBefore[m] \in Nat
    /\ \A m \in 1..11 :
          DaysBefore[m + 1] = DaysBefore[m]
              + (IF m = 2 THEN 28 ELSE IF m \in {4, 6, 9, 11} THEN 30 ELSE 31)
    /\ DaysBefore[1] = 0 /\ DaysBefore[12] = 334
    /\ \A m \in 1..2 : (153 * (m + 9) + 2) \div 5 = DaysBefore[m] + 306
    /\ \A m \in 3..12 : (153 * (m - 3) + 2) \div 5 = DaysBefore[m] - 59
<1>1. /\ DaysBefore[1] = 0 /\ DaysBefore[2] = 31 /\ DaysBefore[3] = 59
      /\ DaysBefore[4] = 90 /\ DaysBefore[5] = 120 /\ DaysBefore[6] = 151
      /\ DaysBefore[7] = 181 /\ DaysBefore[8] = 212 /\ DaysBefore[9] = 243
      /\ DaysBefore[10] = 273 /\ DaysBefore[11] = 304
      /\ DaysBefore[12] = 334
  BY DEF DaysBefore
<1> QED BY <1>1

\* ymd_to_days counts the days from 1970-01-01, for every date after the
\* year 0.
THEOREM DaysAreCounted ==
    \A date : IsDate(date) => YmdToDays(date) = DaysTo(date)
<1> SUFFICES ASSUME NEW date, IsDate(date)
             PROVE  YmdToDays(date) = DaysTo(date)
  OBVIOUS
<1> DEFINE y == date.y
           m == date.m
           d == date.d
           leap == IF IsLeap(y) THEN 1 ELSE 0
<1>1. y \in Nat \ {0} /\ y - 1 \in Nat /\ m \in 1..12 /\ d \in 1..31
  BY DEF IsDate
<1>2. \A z \in Nat : DaysOfYears(z) = z * 365 + Leaps(z)
  BY YearsOfFourHundred
<1>3. /\ DaysOfYears(y - 1) = (y - 1) * 365 + Leaps(y - 1)
      /\ DaysOfYears(y) = y * 365 + Leaps(y - 1) + leap
      /\ Leaps(y - 1) \in Int /\ leap \in Int
  <2>1. /\ Leaps(y) = Leaps(y - 1) + leap
        /\ Leaps(y - 1) \in Int /\ leap \in Int
    BY <1>1, LeapYears
  <2>2. /\ DaysOfYears(y - 1) = (y - 1) * 365 + Leaps(y - 1)
        /\ DaysOfYears(y) = y * 365 + Leaps(y)
    BY <1>1, <1>2
  <2> HIDE DEF leap, y
  <2> QED BY <1>1, <2>1, <2>2
<1> DEFINE z == IF m <= 2 THEN y - 1 ELSE y
           i == IF m > 2 THEN m - 3 ELSE m + 9
<1>c. YmdToDays(date)
         = DaysOfYears(z) + (153 * i + 2) \div 5 + d - 1 - 719468
  BY SMT DEF YmdToDays
<1>4. CASE m <= 2
  <2>1. YmdToDays(date)
           = DaysOfYears(y - 1) + (153 * (m + 9) + 2) \div 5 + d - 1 - 719468
    <3>1. z = y - 1 /\ i = m + 9
      BY <1>1, <1>4
    <3> HIDE DEF z, i
    <3> QED BY <1>c, <3>1, SMT
  <2>2. DaysTo(date)
           = (y - 1) * 365 + Leaps(y - 1) + DaysBefore[m] + d - 719163
    BY <1>1, <1>3, <1>4, Months DEF DaysTo
  <2>3. (153 * (m + 9) + 2) \div 5 = DaysBefore[m] + 306
    BY <1>1, <1>4, Months
  <2>4. DaysBefore[m] \in Nat
    BY <1>1, Months
  <2> HIDE DEF leap, y, m, d
  <2> QED BY <1>1, <1>3, <2>1, <2>2, <2>3, <2>4
<1>5. CASE m > 2
  <2>1. YmdToDays(date)
           = DaysOfYears(y) + (153 * (m - 3) + 2) \div 5 + d - 1 - 719468
    <3>1. z = y /\ i = m - 3
      BY <1>1, <1>5
    <3> HIDE DEF z, i
    <3> QED BY <1>c, <3>1, SMT
  <2>2. DaysTo(date)
           = (y - 1) * 365 + Leaps(y - 1) + DaysBefore[m] + leap + d - 719163
    BY <1>5 DEF DaysTo
  <2>3. (153 * (m - 3) + 2) \div 5 = DaysBefore[m] - 59
    BY <1>1, <1>5, Months
  <2>4. DaysBefore[m] \in Nat
    BY <1>1, Months
  <2>5. y * 365 = (y - 1) * 365 + 365
    BY <1>1
  <2> HIDE DEF leap, y, m, d
  <2> QED BY <1>1, <1>3, <2>1, <2>2, <2>3, <2>4, <2>5
<1> QED BY <1>1, <1>4, <1>5

\* The day after has one more.
LEMMA NextDayCounts ==
    ASSUME NEW date, IsDate(date)
    PROVE  IsDate(NextDay(date)) /\ DaysTo(NextDay(date)) = DaysTo(date) + 1
<1> DEFINE next == NextDay(date)
           y == date.y
           m == date.m
           d == date.d
           leap == IF IsLeap(y) THEN 1 ELSE 0
           leapDay == IF m > 2 /\ IsLeap(y) THEN 1 ELSE 0
           Same == (y - 1) * 365 + Leaps(y - 1) - 719163
<1>1. /\ date \in [y : Nat \ {0}, m : 1..12, d : 1..31]
      /\ y \in Nat \ {0} /\ m \in 1..12 /\ d \in 1..31
      /\ d <= DaysIn(y, m)
  BY DEF IsDate
<1>2. /\ \A z \in Nat, i \in 1..12 : DaysIn(z, i) \in 28..31
      /\ DaysIn(y, m) = IF m = 2 THEN 28 + leap
                        ELSE IF m \in {4, 6, 9, 11} THEN 30 ELSE 31
  BY DEF DaysIn
<1>3. DaysTo(date) = Same + DaysBefore[m] + leapDay + d
  <2>1. DaysTo(date) = (y - 1) * 365 + Leaps(y - 1) + DaysBefore[m] + leapDay
                          + d - 719163
    BY DEF DaysTo
  <2>2. /\ Leaps(y - 1) \in Int /\ (y - 1) * 365 \in Int
        /\ DaysBefore[m] \in Nat /\ leapDay \in Int
    BY <1>1, LeapYears, Months
  <2> HIDE DEF leapDay, y, m, d
  <2> QED BY <1>1, <2>1, <2>2
<1>4. Same \in Int /\ leapDay \in {0, 1} /\ DaysBefore[m] \in Nat
  BY <1>1, LeapYears, Months
<1> HIDE DEF next
<1>5. CASE d < DaysIn(y, m)
  <2>1. next = [date EXCEPT !.d = d + 1]
    BY <1>5 DEF NextDay, next
  <2>2. d + 1 \in 1..31
    BY <1>1, <1>2, <1>5
  <2>3. /\ next \in [y : Nat \ {0}, m : 1..12, d : 1..31]
        /\ next.y = y /\ next.m = m /\ next.d = d + 1
    BY <1>1, <2>1, <2>2
  <2>4. DaysTo(next) = (y - 1) * 365 + Leaps(y - 1) + DaysBefore[m] + leapDay
                          + (d + 1) - 719163
    BY <2>3 DEF DaysTo
  <2>5. IsDate(next)
    BY <1>1, <1>2, <1>5, <2>3 DEF IsDate
  <2>6. Leaps(y - 1) \in Int /\ (y - 1) * 365 \in Int
    BY <1>1, LeapYears
  <2> HIDE DEF leapDay, y, m, d
  <2> QED BY <1>1, <1>3, <1>4, <2>4, <2>5, <2>6 DEF next
<1>6. CASE d = DaysIn(y, m) /\ m < 12
  <2>1. next = [date EXCEPT !.m = m + 1, !.d = 1]
    BY <1>1, <1>2, <1>6 DEF NextDay, next
  <2>2. m + 1 \in 1..12 /\ 1 \in 1..31
    BY <1>1, <1>6
  <2>3. /\ next \in [y : Nat \ {0}, m : 1..12, d : 1..31]
        /\ next.y = y /\ next.m = m + 1 /\ next.d = 1
    BY <1>1, <2>1, <2>2
  <2> DEFINE after == IF m + 1 > 2 /\ IsLeap(y) THEN 1 ELSE 0
  <2>4. DaysTo(next) = (y - 1) * 365 + Leaps(y - 1) + DaysBefore[m + 1] + after
                          + 1 - 719163
    BY <2>3 DEF DaysTo
  <2>5. IsDate(next)
    BY <1>1, <1>2, <2>2, <2>3 DEF IsDate
  <2>6. Leaps(y - 1) \in Int /\ (y - 1) * 365 \in Int
    BY <1>1, LeapYears
  <2>7. after = leapDay + (IF m = 2 THEN leap ELSE 0)
    BY <1>1
  <2>8. DaysBefore[m + 1] = DaysBefore[m]
           + (IF m = 2 THEN 28 ELSE IF m \in {4, 6, 9, 11} THEN 30 ELSE 31)
    BY <1>1, <1>6, Months
  <2>9. DaysBefore[m + 1] + after = DaysBefore[m] + leapDay + d
    <3>1. leap \in Int
      OBVIOUS
    <3> HIDE DEF leapDay, leap, after, m, d, y
    <3> QED BY <1>1, <1>2, <1>4, <1>6, <2>7, <2>8, <3>1
  <2>10. DaysBefore[m + 1] \in Nat /\ after \in Int
    BY <2>2, Months
  <2> HIDE DEF leapDay, y, m, d, after
  <2> QED BY <1>1, <1>3, <1>4, <2>4, <2>5, <2>6, <2>9, <2>10 DEF next
<1>7. CASE d = DaysIn(y, m) /\ m = 12
  <2>1. next = [y |-> y + 1, m |-> 1, d |-> 1]
    BY <1>1, <1>2, <1>7 DEF NextDay, next
  <2>2. /\ next \in [y : Nat \ {0}, m : 1..12, d : 1..31]
        /\ next.y = y + 1 /\ next.m = 1 /\ next.d = 1
    BY <1>1, <2>1
  <2>3. DaysTo(next) = y * 365 + Leaps(y) + 0 + 0 + 1 - 719163
    <3> DEFINE after == IF next.m > 2 /\ IsLeap(next.y) THEN 1 ELSE 0
    <3>1. DaysTo(next) = (next.y - 1) * 365 + Leaps(next.y - 1)
                            + DaysBefore[next.m] + after + next.d - 719163
      BY DEF DaysTo
    <3>2. /\ after = 0 /\ next.y - 1 = y /\ DaysBefore[next.m] = 0
          /\ next.d = 1
      BY <1>1, <2>2, Months
    <3> HIDE DEF after
    <3> QED BY <3>1, <3>2
  <2>4. IsDate(next)
    <3>1. DaysIn(y + 1, 1) \in 28..31
      BY <1>1, <1>2
    <3> QED BY <2>2, <3>1 DEF IsDate
  <2>5. /\ Leaps(y - 1) \in Int /\ (y - 1) * 365 \in Int
        /\ Leaps(y) = Leaps(y - 1) + leap
        /\ y * 365 = (y - 1) * 365 + 365
    BY <1>1, LeapYears
  <2>6. d = 31 /\ leapDay = leap /\ DaysBefore[m] = 334 /\ leap \in Int
    BY <1>2, <1>7, Months
  <2> HIDE DEF leapDay, leap, y, m, d
  <2> QED BY <1>1, <1>3, <1>4, <2>3, <2>4, <2>5, <2>6 DEF next
<1> QED BY <1>1, <1>2, <1>5, <1>6, <1>7 DEF next

LEMMA ConstantFacts ==
    /\ Day \in Nat \ {0} /\ Day >= 3 /\ TicksPerSecond \in Nat \ {0}
    /\ TickWrap \in Nat \ {0} /\ Delay \in Nat /\ Delay <= TicksPerSecond
    /\ \A day \in Starts : day.days \in Nat
<1>1. Hours \in Nat \ {0} /\ Minutes \in Nat \ {0} /\ Seconds \in Nat \ {0}
  BY NMEAAssumption
<1>2. Day \in Nat \ {0}
  BY <1>1 DEF Day
<1> QED BY <1>2, ClockAssumption, StartsAssumption

LEMMA TrueTimes ==
    ASSUME start \in Starts, NEW ticks \in Nat
    PROVE  /\ start.days * Day \in Nat
           /\ TrueTime(ticks) = start.days * Day + ticks \div TicksPerSecond
           /\ ticks \div TicksPerSecond \in Nat /\ TrueTime(ticks) \in Nat
           /\ TrueTime(ticks) \div Day >= start.days
           /\ TrueTime(ticks) \div Day \in Nat
           /\ TimeOfDay(ticks) \in 0..(Day - 1)
           /\ TrueTime(ticks) = (TrueTime(ticks) \div Day) * Day
                                   + TimeOfDay(ticks)
<1> DEFINE S == start.days
           t == ticks \div TicksPerSecond
           r == t % Day
           q == t \div Day
<1>1. S \in Nat /\ Day \in Nat \ {0} /\ TicksPerSecond \in Nat \ {0}
  BY ConstantFacts
<1>2. t \in Nat
  BY <1>1
<1>3. TrueTime(ticks) = S * Day + t
  BY DEF TrueTime
<1> HIDE DEF S, t
<1>4. q \in Nat /\ r \in 0..(Day - 1) /\ t = Day * q + r
  <2>1. q \in Int /\ r \in 0..(Day - 1) /\ t = Day * q + r
    BY <1>1, <1>2, Division
  <2>2. q >= 0
    BY <1>1, <1>2
  <2> QED BY <2>1, <2>2
<1> HIDE DEF q, r
<1>5. TrueTime(ticks) = Day * (S + q) + r
  <2>1. Day * (S + q) = S * Day + Day * q
    BY <1>1, <1>4
  <2>2. S * Day \in Int /\ Day * q \in Int
    BY <1>1, <1>4
  <2> QED BY <1>3, <1>4, <2>1, <2>2
<1>6. TrueTime(ticks) \div Day = S + q /\ TrueTime(ticks) % Day = r
  <2>1. S + q \in Int
    BY <1>1, <1>4
  <2> QED BY <1>1, <1>4, <1>5, <2>1, DivisionIsUnique
<1>7. S * Day \in Nat
  BY <1>1
<1>8. Day * (S + q) = (S + q) * Day
  BY <1>1, <1>4
<1>9. TimeOfDay(ticks) = r
  BY <1>6 DEF TimeOfDay
<1>10. /\ TrueTime(ticks) \div Day >= S /\ TrueTime(ticks) \div Day \in Nat
       /\ S * Day + t \in Nat
  BY <1>1, <1>2, <1>4, <1>6, <1>7
<1>11. TrueTime(ticks) = (TrueTime(ticks) \div Day) * Day + TimeOfDay(ticks)
  BY <1>5, <1>6, <1>8, <1>9
<1> QED BY <1>2, <1>3, <1>4, <1>7, <1>9, <1>10, <1>11 DEF S, t

Dates == {date \in [y : Nat \ {0}, m : 1..12, d : 1..31] : IsDate(date)}

\* The date of a time is that of its day.
LEMMA DatesGoOn ==
    ASSUME start \in Starts, NEW ticks \in Nat
    PROVE  /\ IsDate(DateOf(ticks))
           /\ DaysTo(DateOf(ticks)) = TrueTime(ticks) \div Day
<1> DEFINE n == TrueTime(ticks) \div Day - start.days
           F == [k \in 1..n |-> [date \in Dates |-> NextDay(date)]]
<1>1. n \in Nat /\ start.days \in Nat
  BY TrueTimes, ConstantFacts
<1>2. /\ IsDate(start.date) /\ DaysTo(start.date) = start.days
      /\ start.date \in Dates
  BY StartsAssumption DEF Dates, IsDate
<1>3. \A date \in Dates : NextDay(date) \in Dates
  BY NextDayCounts DEF Dates, IsDate
<1>4. F \in [1..n -> [Dates -> Dates]]
  BY <1>3
<1>5. PICK f : Runs(f, n, Dates, start.date, F)
  <2> HIDE DEF F, n
  <2> QED BY <1>1, <1>2, <1>4, Recursion, Zenon
<1>6. ASSUME NEW k \in 1..n PROVE f[k] = NextDay(f[k - 1])
  <2>1. k - 1 \in 0..n
    BY <1>1
  <2>2. f[k - 1] \in Dates /\ f[k] = F[k][f[k - 1]]
    <3> HIDE DEF F, n
    <3> QED BY <1>5, <2>1 DEF Runs
  <2> QED BY <2>2
<1> DEFINE P(g) == g = [k \in 0..n |->
                           IF k = 0 THEN start.date ELSE NextDay(g[k - 1])]
           All == CHOOSE g : P(g)
<1>7. P(f)
  <2> HIDE DEF n, F
  <2> QED BY <1>5, <1>6 DEF Runs
<1>8. P(All)
  <2> HIDE DEF P
  <2> QED BY <1>7, Zenon
<1>9. DateOf(ticks) = All[n]
  BY Zenon DEF DateOf
<1> HIDE DEF All
<1>10. /\ All[0] = start.date
       /\ \A k \in 1..n : All[k] = NextDay(All[k - 1])
  <2> HIDE DEF n
  <2> QED BY <1>1, <1>8
<1> HIDE DEF n, P
<1> DEFINE S == {k \in Nat : k <= n => /\ IsDate(All[k])
                                       /\ DaysTo(All[k]) = start.days + k}
<1>11. 0 \in S
  BY <1>1, <1>2, <1>10
<1>12. ASSUME NEW k \in Nat, k \in S PROVE k + 1 \in S
  <2> SUFFICES ASSUME k + 1 <= n
               PROVE  /\ IsDate(All[k + 1])
                      /\ DaysTo(All[k + 1]) = start.days + (k + 1)
    OBVIOUS
  <2>1. k + 1 \in 1..n /\ k + 1 - 1 = k
    BY <1>1
  <2>2. All[k + 1] = NextDay(All[k])
    BY <1>10, <2>1
  <2>3. IsDate(All[k]) /\ DaysTo(All[k]) = start.days + k
    BY <1>1, <1>12
  <2>4. IsDate(NextDay(All[k])) /\ DaysTo(NextDay(All[k])) = DaysTo(All[k]) + 1
    BY <2>3, NextDayCounts
  <2> QED BY <1>1, <2>2, <2>3, <2>4
<1> HIDE DEF S
<1>13. n \in S
  BY <1>1, <1>11, <1>12, SetInduction
<1>14. IsDate(All[n]) /\ DaysTo(All[n]) = start.days + n
  BY <1>1, <1>13 DEF S
<1>15. start.days + n = TrueTime(ticks) \div Day
  <2>1. TrueTime(ticks) \div Day \in Nat
    BY TrueTimes
  <2> QED BY <1>1, <2>1 DEF n
<1> QED BY <1>9, <1>14, <1>15

\* The answer of the modem is the true time.
LEMMA AnswersAreTrue ==
    ASSUME start \in Starts, NEW ticks \in Nat
    PROVE  YmdToDays(DateOf(ticks)) * Day + TimeOfDay(ticks) = TrueTime(ticks)
<1>1. YmdToDays(DateOf(ticks)) = TrueTime(ticks) \div Day
  BY DatesGoOn, DaysAreCounted
<1> QED BY <1>1, TrueTimes

-----------------------------------------------------------------------------
(* The clock: the invariant.                                               *)

\* A line in hand, and an answer: what they hold was true when they were
\* taken, the day of a line up to the days that have slipped.
Lines == [age : 0..Delay, day : Int, tod : Int, fix : BOOLEAN,
          knew : BOOLEAN, slips : Nat]
LineInHand(line) ==
    /\ line \in Lines
    /\ line.age <= now
    /\ line.day % Day = 0
    /\ line.fix => line.tod = TimeOfDay(now - line.age)
    /\ line.knew =>
          /\ line.fix
          /\ \E days \in -line.slips..line.slips :
                line.day + line.tod = TrueTime(now - line.age) + Day * days
AnswerInHand(answer) ==
    /\ answer \in [age : 0..Delay, time : Int]
    /\ answer.age <= now /\ answer.time = TrueTime(now - answer.age)

\* How far the base of the clock is from the time of the last reset, in
\* seconds, and in seconds of the day.
Away(b) == b - (now - tick) \div TicksPerSecond
NearlyRight(b, ofDay, altogether, n) ==
    \E near \in -1..1, days \in -n..n :
       /\ altogether => Away(b) - start.days * Day = near + Day * days
       /\ ofDay => (Away(b) - near) % Day = 0

ClockInv ==
    /\ start \in Starts /\ now \in Nat /\ base \in Int
    /\ tick \in 0..(TickWrap - 1) /\ tick <= now
    /\ good \in BOOLEAN /\ right \in BOOLEAN /\ slips \in Nat
    /\ Busy(gps) => LineInHand(gps)
    /\ Busy(gsm) => AnswerInHand(gsm)
    /\ NearlyRight(base, good, right, slips)

-----------------------------------------------------------------------------
(* Ticks, seconds and days.                                                *)

\* Of two numbers of ticks, and their difference, in whole seconds.
LEMMA SecondsBetween ==
    ASSUME NEW n \in Nat, NEW t \in Nat, t <= n
    PROVE  n \div TicksPerSecond - t \div TicksPerSecond
              - (n - t) \div TicksPerSecond \in {0, 1}
<1> DEFINE T == TicksPerSecond
           a == n \div T
           r == n % T
           b == t \div T
           s == t % T
<1>1. T \in Nat \ {0}
  BY ConstantFacts
<1> HIDE DEF T
<1>2. a \in Int /\ r \in 0..(T - 1) /\ n = T * a + r
  BY <1>1, Division
<1>3. b \in Int /\ s \in 0..(T - 1) /\ t = T * b + s
  BY <1>1, Division
<1> HIDE DEF a, b, r, s
<1>4. T * a \in Int /\ T * b \in Int /\ T * (a - b) = T * a - T * b
      /\ T * (a - b - 1) = T * a - T * b - T
  BY <1>1, <1>2, <1>3
<1>5. CASE r >= s
  <2>1. n - t = T * (a - b) + (r - s) /\ r - s \in 0..(T - 1) /\ a - b \in Int
    BY <1>1, <1>2, <1>3, <1>4, <1>5
  <2>2. (n - t) \div T = a - b
    BY <1>1, <2>1, DivisionIsUnique
  <2>3. a - b - (n - t) \div T = 0
    BY <1>2, <1>3, <2>2
  <2> QED BY <2>3 DEF a, b, T
<1>6. CASE r < s
  <2>1. /\ n - t = T * (a - b - 1) + (r - s + T)
        /\ r - s + T \in 0..(T - 1) /\ a - b - 1 \in Int
    BY <1>1, <1>2, <1>3, <1>4, <1>6
  <2>2. (n - t) \div T = a - b - 1
    BY <1>1, <2>1, DivisionIsUnique
  <2>3. a - b - (n - t) \div T = 1
    BY <1>2, <1>3, <2>2
  <2> QED BY <2>3 DEF a, b, T
<1> QED BY <1>2, <1>3, <1>5, <1>6

\* A delay is a second at most.
LEMMA SecondsBefore ==
    ASSUME NEW n \in Nat, NEW age \in 0..Delay, age <= n
    PROVE  n \div TicksPerSecond - (n - age) \div TicksPerSecond \in {0, 1}
<1> DEFINE T == TicksPerSecond
           a == n \div T
           r == n % T
<1>1. T \in Nat \ {0} /\ age \in Nat /\ age <= T
  BY ConstantFacts
<1> HIDE DEF T
<1>2. a \in Int /\ r \in 0..(T - 1) /\ n = T * a + r
  BY <1>1, Division
<1> HIDE DEF a, r
<1>4. T * a \in Int /\ T * (a - 1) = T * a - T
  BY <1>1, <1>2
<1>5. CASE r >= age
  <2>1. n - age = T * a + (r - age) /\ r - age \in 0..(T - 1)
    BY <1>1, <1>2, <1>4, <1>5
  <2>2. (n - age) \div T = a
    BY <1>1, <1>2, <2>1, DivisionIsUnique
  <2>3. a - (n - age) \div T = 0
    BY <1>2, <2>2
  <2> QED BY <2>3 DEF a, T
<1>6. CASE r < age
  <2>1. /\ n - age = T * (a - 1) + (r - age + T)
        /\ r - age + T \in 0..(T - 1) /\ a - 1 \in Int
    BY <1>1, <1>2, <1>4, <1>6
  <2>2. (n - age) \div T = a - 1
    BY <1>1, <2>1, DivisionIsUnique
  <2>3. a - (n - age) \div T = 1
    BY <1>2, <2>2
  <2> QED BY <2>3 DEF a, T
<1> QED BY <1>1, <1>2, <1>5, <1>6

\* Multiples of a day.
LEMMA Multiples ==
    /\ \A k \in Int : (Day * k) % Day = 0
    /\ \A x \in Int : x % Day = 0 => \E k \in Int : x = Day * k
<1>1. Day \in Nat \ {0}
  BY ConstantFacts
<1>2. ASSUME NEW k \in Int PROVE (Day * k) % Day = 0
  <2>1. 0 \in 0..(Day - 1) /\ Day * k + 0 = Day * k
    BY <1>1
  <2>2. (Day * k + 0) % Day = 0
    BY <1>1, <2>1, DivisionIsUnique
  <2> QED BY <2>1, <2>2
<1>3. ASSUME NEW x \in Int, x % Day = 0 PROVE \E k \in Int : x = Day * k
  <2> DEFINE k == x \div Day
  <2>1. k \in Int /\ x = Day * k + (x % Day)
    BY <1>1, Division
  <2> HIDE DEF k
  <2>2. Day * k \in Int
    BY <1>1, <2>1
  <2>3. x = Day * k
    BY <1>3, <2>1, <2>2
  <2> QED BY <2>1, <2>3
<1> QED BY <1>2, <1>3

LEMMA SumsOfMultiples ==
    ASSUME NEW x \in Int, NEW y \in Int, x % Day = 0, y % Day = 0
    PROVE  (x + y) % Day = 0 /\ (x - y) % Day = 0
<1>1. PICK k \in Int, l \in Int : x = Day * k /\ y = Day * l
  BY Multiples
<1>2. x + y = Day * (k + l) /\ x - y = Day * (k - l)
  <2>1. Day \in Int
    BY ConstantFacts
  <2> QED BY <1>1, <2>1
<1>3. k + l \in Int /\ k - l \in Int
  OBVIOUS
<1> QED BY <1>2, <1>3, Multiples

-----------------------------------------------------------------------------
(* The clock: every step.                                                  *)

\* The clock, from how far its base is away.
LEMMA RightEnough == ASSUME ClockInv PROVE ClockIsRight
<1> DEFINE q == (now - tick) \div TicksPerSecond
           e == now \div TicksPerSecond - tick \div TicksPerSecond - q
           S == start.days * Day
           error == GetTime - TrueTime(now)
<1>1. now \in Nat /\ tick \in Nat /\ tick <= now /\ base \in Int
      /\ start \in Starts /\ TicksPerSecond \in Nat \ {0}
  BY ConstantFacts DEF ClockInv
<1>2. e \in {0, 1}
  BY <1>1, SecondsBetween
<1>3. PICK near \in -1..1, days \in -slips..slips :
         /\ right => base - q - S = near + Day * days
         /\ good => (base - q - near) % Day = 0
  BY DEF ClockInv, NearlyRight, Away
<1>d. Day * days \in Int
  BY ConstantFacts DEF ClockInv
<1>4. error = (base + tick \div TicksPerSecond)
                 - (S + now \div TicksPerSecond)
  <2>1. TrueTime(now) = S + now \div TicksPerSecond
    BY DEF TrueTime
  <2>2. GetTime = base + tick \div TicksPerSecond
    BY DEF GetTime, Uptime
  <2>3. error = GetTime - TrueTime(now)
    OBVIOUS
  <2> HIDE DEF error, S
  <2> QED BY <2>1, <2>2, <2>3, Zenon
<1>5. /\ q \in Int /\ tick \div TicksPerSecond \in Int
      /\ now \div TicksPerSecond \in Int /\ S \in Nat /\ S % Day = 0
  <2>1. now - tick \in Nat
    BY <1>1
  <2>2. /\ q \in Int /\ tick \div TicksPerSecond \in Int
        /\ now \div TicksPerSecond \in Int
    BY <1>1, <2>1
  <2>3. S \in Nat
    BY <1>1, TrueTimes
  <2>4. S % Day = 0
    <3>1. start.days \in Int /\ Day \in Int
      BY <1>1, ConstantFacts
    <3>2. S = Day * start.days
      BY <3>1
    <3> QED BY <3>1, <3>2, Multiples
  <2> QED BY <2>2, <2>3, <2>4
<1>6. error = base - q - S - e /\ e \in Int
  BY <1>1, <1>2, <1>4, <1>5
<1>7. near - e \in -2..1
  BY <1>2
<1> HIDE DEF e, q, S, error
<1>8. right => error = near - e + Day * days
  <2> DEFINE z == Day * days
  <2>1. z \in Int /\ (right => base - q - S = near + z)
    BY <1>3, <1>d
  <2> HIDE DEF z
  <2>2. right => error = near - e + z
    BY <1>1, <1>2, <1>5, <1>6, <2>1
  <2> QED BY <2>2 DEF z
<1>9. good => (error - (near - e)) % Day = 0
  <2> SUFFICES ASSUME good PROVE (error - (near - e)) % Day = 0
    OBVIOUS
  <2>1. base - q - near \in Int /\ (base - q - near) % Day = 0
    BY <1>1, <1>3, <1>5
  <2>2. error - (near - e) = base - q - near - S
    BY <1>1, <1>2, <1>5, <1>6
  <2>3. (base - q - near - S) % Day = 0
    BY <1>5, <2>1, SumsOfMultiples
  <2> QED BY <2>2, <2>3
<1> DEFINE by == near - e
<1>10. /\ by \in -2..1
       /\ right => error = by + Day * days
       /\ good => (error - by) % Day = 0
  BY <1>7, <1>8, <1>9
<1> HIDE DEF by
<1> QED BY <1>10 DEF ClockIsRight, error

\* What the clock is set to from a time, where the time of day is true, or
\* the day as well.
LEMMA SetFromTime ==
    ASSUME ClockInv, NEW age \in 0..Delay, age <= now, NEW timestamp \in Int,
           NEW ofDay \in BOOLEAN, NEW altogether \in BOOLEAN,
           NEW most \in Nat, NEW days \in -most..most,
           ofDay => (timestamp - TrueTime(now - age)) % Day = 0,
           altogether => timestamp = TrueTime(now - age) + Day * days
    PROVE  NearlyRight(timestamp - Uptime(tick), ofDay, altogether, most)
<1> DEFINE q == (now - tick) \div TicksPerSecond
           n == now \div TicksPerSecond
           u == tick \div TicksPerSecond
           m == (now - age) \div TicksPerSecond
           S == start.days * Day
           near == m - u - q
<1>1. now \in Nat /\ tick \in Nat /\ tick <= now
      /\ start \in Starts /\ TicksPerSecond \in Nat \ {0}
  BY ConstantFacts DEF ClockInv
<1>2. n - u - q \in {0, 1} /\ n - m \in {0, 1}
  BY <1>1, SecondsBetween, SecondsBefore
<1>3. /\ q \in Int /\ n \in Int /\ u \in Int /\ m \in Int
      /\ S \in Int /\ S % Day = 0
  <2>1. now - tick \in Nat /\ now - age \in Nat /\ age \in Nat
    BY <1>1, ConstantFacts
  <2>2. q \in Int /\ n \in Int /\ u \in Int /\ m \in Int
    BY <1>1, <2>1
  <2>3. start.days \in Int /\ Day \in Int
    BY <1>1, ConstantFacts
  <2>4. S = Day * start.days /\ S \in Int
    BY <2>3
  <2> QED BY <2>2, <2>3, <2>4, Multiples
<1>4. TrueTime(now - age) = S + m
  BY DEF TrueTime
<1>5. Uptime(tick) = u
  BY DEF Uptime
<1>6. Away(timestamp - Uptime(tick)) = timestamp - u - q
  BY <1>5 DEF Away
<1> HIDE DEF q, n, u, m, S
<1>7. near \in -1..1
  BY <1>2, <1>3
<1>8. altogether => timestamp - u - q - S = near + Day * days
  <2> DEFINE z == Day * days
  <2>1. z \in Int /\ (altogether => timestamp = S + m + z)
    BY <1>4, ConstantFacts
  <2> HIDE DEF z
  <2>2. altogether => timestamp - u - q - S = near + z
    BY <1>3, <2>1
  <2> QED BY <2>2 DEF z
<1>9. ofDay => (timestamp - u - q - near) % Day = 0
  <2> SUFFICES ASSUME ofDay PROVE (timestamp - u - q - near) % Day = 0
    OBVIOUS
  <2>1. timestamp - u - q - near = (timestamp - (S + m)) + S
    BY <1>3
  <2>2. (timestamp - (S + m)) % Day = 0 /\ timestamp - (S + m) \in Int
    BY <1>3, <1>4
  <2>3. ((timestamp - (S + m)) + S) % Day = 0
    BY <1>3, <2>2, SumsOfMultiples
  <2> QED BY <2>1, <2>3
<1>10. /\ altogether => Away(timestamp - Uptime(tick)) - S = near + Day * days
       /\ ofDay => (Away(timestamp - Uptime(tick)) - near) % Day = 0
  BY <1>6, <1>8, <1>9
<1> HIDE DEF near
<1> QED BY <1>7, <1>10 DEF NearlyRight, S

\* The remainder of C taken from a time leaves the beginning of its day, or
\* that of the day after when the time is before 1970.
Found(q, r) == IF q < 0 /\ r # 0 THEN q + 1 ELSE q

LEMMA WholeDays ==
    ASSUME NEW g \in Int, NEW q \in Int, NEW r \in 0..(Day - 1),
           g = Day * q + r
    PROVE  g - Rem(g, Day) = Day * Found(q, r)
<1>1. Day \in Nat \ {0}
  BY ConstantFacts
<1>z. Day * q \in Int /\ Day * (-q) = -(Day * q)
      /\ Day * (-q - 1) = -(Day * q) - Day /\ Day * (q + 1) = Day * q + Day
  BY <1>1
<1>2. CASE q >= 0
  <2>1. Day * q >= 0
    BY <1>1, <1>2
  <2>2. g >= 0 /\ g % Day = r
    BY <1>1, <1>z, <2>1, DivisionIsUnique
  <2> DEFINE z == Day * q
  <2>3. Rem(g, Day) = r
    BY <2>2 DEF Rem
  <2>4. z \in Int /\ g = z + r
    BY <1>z
  <2> HIDE DEF z
  <2>5. g - Rem(g, Day) = z
    BY <2>3, <2>4
  <2> QED BY <1>2, <2>5 DEF z, Found
<1>3. CASE q < 0
  <2>1. Day * q <= -Day
    <3>1. PICK x \in Nat : q = -1 - x
      <4>1. -1 - q \in Nat /\ q = -1 - (-1 - q)
        BY <1>3
      <4> QED BY <4>1
    <3>2. Day * (-1 - x) = -Day - Day * x /\ Day * x >= 0 /\ Day * x \in Int
      BY <1>1
    <3> QED BY <1>1, <3>1, <3>2
  <2>2. g < 0
    BY <1>1, <1>z, <2>1
  <2>3. Rem(g, Day) = -((-g) % Day)
    BY <2>2 DEF Rem
  <2> DEFINE z == Day * q
  <2>4. z \in Int /\ g = z + r
    BY <1>z
  <2>5. CASE r = 0
    <3>1. -g = Day * (-q) + 0 /\ 0 \in 0..(Day - 1) /\ -q \in Int
      BY <1>1, <1>z, <2>5
    <3>2. (-g) % Day = 0
      BY <1>1, <3>1, DivisionIsUnique
    <3> HIDE DEF z
    <3>3. g - Rem(g, Day) = z
      BY <2>3, <2>4, <2>5, <3>2
    <3> QED BY <2>5, <3>3 DEF z, Found
  <2>6. CASE r # 0
    <3>1. /\ -g = Day * (-q - 1) + (Day - r)
          /\ Day - r \in 0..(Day - 1) /\ -q - 1 \in Int
      BY <1>1, <1>z, <2>6
    <3>2. (-g) % Day = Day - r
      BY <1>1, <3>1, DivisionIsUnique
    <3>z. Day * (q + 1) = z + Day
      BY <1>z
    <3> HIDE DEF z
    <3>3. g - Rem(g, Day) = z + Day
      BY <1>1, <2>3, <2>4, <3>2
    <3> QED BY <1>3, <2>6, <3>3, <3>z DEF Found
  <2> QED BY <2>5, <2>6
<1> QED BY <1>2, <1>3

\* The days between the day that is found and that of the line, from how
\* far the clock is away: `k` is the true day, `tt` the time of day, `e` and
\* `d` the seconds and the days by which the clock is away, `late` the
\* second by which the line is older.
DayOfLine(k, tt, late) == IF tt < late THEN k - 1 ELSE k
Between(n, d, k, tt, e, late) ==
    \E q \in Int, r \in 0..(Day - 1) :
       LET days == Found(q, r) - DayOfLine(k, tt, late)
       IN  /\ Day * (k + d) + (tt + e) = Day * q + r
           /\ days \in -(n + 1)..(n + 1)
           /\ tt \in 2..(Day - 3) => days \in -n..n

LEMMA DaysBetween ==
    ASSUME NEW n \in Nat, NEW d \in -n..n, NEW k \in Nat,
           NEW tt \in 0..(Day - 1), NEW e \in -2..1, NEW late \in {0, 1},
           tt < late => k >= 1
    PROVE  Between(n, d, k, tt, e, late)
<1> DEFINE K == k + d
           x == tt + e
           kl == DayOfLine(k, tt, late)
<1>1. Day \in Nat \ {0} /\ Day >= 3
  BY ConstantFacts
<1>2. K \in Int /\ x \in -2..Day
  BY <1>1
<1>z. /\ Day * K \in Int /\ Day * (K - 1) = Day * K - Day
      /\ Day * (K + 1) = Day * K + Day
  BY <1>1, <1>2
<1>3. CASE x < 0
  <2> DEFINE q == K - 1
             r == x + Day
  <2>1. q \in Int /\ r \in 0..(Day - 1)
    BY <1>1, <1>2, <1>3
  <2>2. Day * K + x = Day * q + r
    BY <1>1, <1>2, <1>z
  <2>3. /\ Found(q, r) - kl \in -(n + 1)..(n + 1)
        /\ tt \in 2..(Day - 3) => Found(q, r) - kl \in -n..n
    BY <1>1, <1>3 DEF Found, DayOfLine
  <2> QED BY <2>1, <2>2, <2>3 DEF Between
<1>4. CASE x \in 0..(Day - 1)
  <2>1. /\ Found(K, x) - kl \in -(n + 1)..(n + 1)
        /\ tt \in 2..(Day - 3) => Found(K, x) - kl \in -n..n
    BY <1>1, <1>4 DEF Found, DayOfLine
  <2> QED BY <1>2, <1>4, <2>1 DEF Between
<1>5. CASE x = Day
  <2> DEFINE q == K + 1
             r == 0
  <2>1. q \in Int /\ r \in 0..(Day - 1)
    BY <1>1, <1>2
  <2>2. Day * K + x = Day * q + r
    BY <1>1, <1>2, <1>5, <1>z
  <2>3. /\ Found(q, r) - kl \in -(n + 1)..(n + 1)
        /\ tt \in 2..(Day - 3) => Found(q, r) - kl \in -n..n
    BY <1>1, <1>5 DEF Found, DayOfLine
  <2> QED BY <2>1, <2>2, <2>3 DEF Between
<1> QED BY <1>1, <1>2, <1>3, <1>4, <1>5

\* The day that parse_line finds is a multiple of a day; when the clock was
\* right it is away from that of the line by the days that have slipped, and
\* one more around midnight.
LEMMA DayThatIsFound ==
    ASSUME ClockInv, NEW age \in 0..Delay, age <= now
    PROVE  /\ FoundDay \in Int /\ FoundDay % Day = 0
           /\ right =>
                 \E days \in -(slips + 1)..(slips + 1) :
                    /\ FoundDay + TimeOfDay(now - age)
                          = TrueTime(now - age) + Day * days
                    /\ ~NearMidnight(now) => days \in -slips..slips
<1> DEFINE g == GetTime
<1>1. /\ Day \in Nat \ {0} /\ Day >= 3 /\ TicksPerSecond \in Nat \ {0}
      /\ now \in Nat /\ base \in Int /\ tick \in Nat /\ start \in Starts
      /\ slips \in Nat
  BY ConstantFacts DEF ClockInv
<1>2. g \in Int
  BY <1>1 DEF GetTime, Uptime
<1> HIDE DEF g
<1>3. ASSUME NEW q \in Int, NEW r \in 0..(Day - 1), g = Day * q + r
      PROVE  FoundDay = Day * Found(q, r)
  BY <1>2, <1>3, WholeDays DEF FoundDay, g
<1>4. FoundDay \in Int /\ FoundDay % Day = 0
  <2>1. PICK q \in Int, r \in 0..(Day - 1) : g = Day * q + r
    BY <1>1, <1>2, Division
  <2>2. FoundDay = Day * Found(q, r) /\ Found(q, r) \in Int
    BY <1>3, <2>1 DEF Found
  <2> QED BY <1>1, <2>2, Multiples
<1>5. ASSUME right
      PROVE  \E days \in -(slips + 1)..(slips + 1) :
                /\ FoundDay + TimeOfDay(now - age)
                      = TrueTime(now - age) + Day * days
                /\ ~NearMidnight(now) => days \in -slips..slips
  <2> DEFINE tt == TimeOfDay(now)
             k == TrueTime(now) \div Day
             late == now \div TicksPerSecond - (now - age) \div TicksPerSecond
             kl == DayOfLine(k, tt, late)
  <2>1. PICK e \in -2..1, d \in -slips..slips :
           g - TrueTime(now) = e + Day * d
    BY <1>5, RightEnough DEF ClockIsRight, g
  <2>2. /\ tt \in 0..(Day - 1) /\ k \in Nat /\ TrueTime(now) \in Nat
        /\ TrueTime(now) = k * Day + tt
    BY <1>1, TrueTimes
  <2>3. late \in {0, 1}
    BY <1>1, SecondsBefore
  <2>4. now - age \in Nat
    BY <1>1, ConstantFacts
  <2>5. /\ start.days * Day \in Nat
        /\ TrueTime(now) = start.days * Day + now \div TicksPerSecond
        /\ TrueTime(now - age)
              = start.days * Day + (now - age) \div TicksPerSecond
        /\ now \div TicksPerSecond \in Nat
        /\ (now - age) \div TicksPerSecond \in Nat
        /\ TrueTime(now - age) \in Nat
    BY <1>1, <2>4, TrueTimes
  <2>6. TrueTime(now - age) = TrueTime(now) - late
    BY <2>3, <2>5
  <2>n. ~NearMidnight(now) => tt \in 2..(Day - 3)
    BY DEF NearMidnight
  <2> HIDE DEF tt, k, late
  <2>7. k * Day = Day * k /\ Day * k \in Nat /\ Day * d \in Int
        /\ Day * (k + d) = Day * k + Day * d /\ Day * (k - 1) = Day * k - Day
    BY <1>1, <2>2
  <2>8. g = Day * (k + d) + (tt + e)
    BY <1>2, <2>1, <2>2, <2>7
  <2>9. tt < late => k >= 1
    <3> SUFFICES ASSUME tt < late, k = 0 PROVE FALSE
      BY <2>2
    <3>1. Day * k = 0
      BY <1>1
    <3> QED BY <2>2, <2>3, <2>5, <2>6, <2>7, <3>1
  <2>10. PICK q \in Int, r \in 0..(Day - 1) :
            /\ Day * (k + d) + (tt + e) = Day * q + r
            /\ Found(q, r) - kl \in -(slips + 1)..(slips + 1)
            /\ tt \in 2..(Day - 3) => Found(q, r) - kl \in -slips..slips
    <3>1. slips \in Nat /\ k \in Nat /\ tt \in 0..(Day - 1)
      BY <1>1, <2>2
    <3>2. Between(slips, d, k, tt, e, late)
      BY <2>1, <2>3, <2>9, <3>1, DaysBetween
    <3> QED BY <3>2, Zenon DEF Between
  <2>11. FoundDay = Day * Found(q, r)
    BY <1>3, <2>8, <2>10
  <2>12. Found(q, r) \in Int /\ kl \in Int
    BY <2>2 DEF Found, DayOfLine
  <2>13. TrueTime(now - age) = Day * kl + TimeOfDay(now - age)
    <3>1. CASE tt < late
      <4>1. /\ TrueTime(now - age) = Day * (k - 1) + (Day - 1)
            /\ Day - 1 \in 0..(Day - 1) /\ k - 1 \in Int
        BY <1>1, <2>2, <2>3, <2>6, <2>7, <3>1
      <4>2. TimeOfDay(now - age) = Day - 1
        BY <1>1, <4>1, DivisionIsUnique DEF TimeOfDay
      <4> QED BY <3>1, <4>1, <4>2 DEF DayOfLine
    <3>2. CASE ~(tt < late)
      <4>1. /\ TrueTime(now - age) = Day * k + (tt - late)
            /\ tt - late \in 0..(Day - 1) /\ k \in Int
        BY <1>1, <2>2, <2>3, <2>6, <2>7, <3>2
      <4>2. TimeOfDay(now - age) = tt - late
        BY <1>1, <4>1, DivisionIsUnique DEF TimeOfDay
      <4> QED BY <3>2, <4>1, <4>2 DEF DayOfLine
    <3> QED BY <3>1, <3>2
  <2> DEFINE f == Found(q, r)
  <2> HIDE DEF kl, f
  <2>14. Day * (f - kl) = Day * f - Day * kl /\ Day * f \in Int
         /\ Day * kl \in Int /\ f \in Int
    BY <1>1, <2>12 DEF f
  <2>15. TimeOfDay(now - age) \in Int
    BY <1>1, <2>4, TrueTimes
  <2> DEFINE days == f - kl
  <2>16. /\ days \in -(slips + 1)..(slips + 1)
         /\ tt \in 2..(Day - 3) => days \in -slips..slips
    BY <2>10 DEF f
  <2>17. FoundDay + TimeOfDay(now - age) = TrueTime(now - age) + Day * days
    BY <2>11, <2>13, <2>14, <2>15 DEF f
  <2> HIDE DEF days
  <2> QED BY <2>16, <2>17, <2>n
<1> QED BY <1>4, <1>5

LEMMA ClockKept == ASSUME ClockInv, UNCHANGED clock PROVE ClockInv'
<1>1. /\ UNCHANGED <<start, now, tick, base, gps, gsm, good, right, slips>>
  BY DEF clock, time, history
<1>2. NearlyRight(base, good, right, slips)'
  BY <1>1 DEF ClockInv, NearlyRight, Away
<1>3. (Busy(gps) => LineInHand(gps))' /\ (Busy(gsm) => AnswerInHand(gsm))'
  BY <1>1 DEF ClockInv, Busy, LineInHand, AnswerInHand, TimeOfDay, TrueTime
<1> QED BY <1>1, <1>2, <1>3 DEF ClockInv

LEMMA ClockIsReset ==
    ASSUME ClockInv, ClockReset PROVE ClockInv'
<1>1. /\ tick' = 0 /\ base' = 0 /\ gps' = Nobody /\ gsm' = Nobody
      /\ good' = FALSE /\ right' = FALSE /\ slips' = 0
      /\ start' = start /\ now' = now
  BY DEF ClockReset
<1>2. start \in Starts /\ now \in Nat /\ TickWrap \in Nat \ {0}
  BY ConstantFacts DEF ClockInv
<1>3. 0 \in 0..(TickWrap - 1) /\ 0 <= now /\ 0 \in -1..1 /\ 0 \in -0..0
  BY <1>2
<1>4. NearlyRight(base, good, right, slips)'
  BY <1>1, <1>3 DEF NearlyRight
<1>5. ~Busy(gps)' /\ ~Busy(gsm)'
  BY <1>1 DEF Busy
<1>6. start' \in Starts /\ now' \in Nat /\ base' \in Int
  BY <1>1, <1>2
<1>7. tick' \in 0..(TickWrap - 1) /\ tick' <= now'
  BY <1>1, <1>3
<1> QED BY <1>1, <1>4, <1>5, <1>6, <1>7 DEF ClockInv

LEMMA ClockTicks == ASSUME ClockInv, Tick PROVE ClockInv'
<1>1. /\ now' = now + 1 /\ tick' = (tick + 1) % TickWrap
      /\ gps' = IF Busy(gps) THEN [gps EXCEPT !.age = @ + 1] ELSE gps
      /\ gsm' = IF Busy(gsm) THEN [gsm EXCEPT !.age = @ + 1] ELSE gsm
      /\ good' = (good /\ tick' # 0) /\ right' = (right /\ tick' # 0)
      /\ start' = start /\ base' = base /\ slips' = slips
      /\ gps.age < Delay /\ gsm.age < Delay
  BY DEF Tick
<1>2. /\ start \in Starts /\ now \in Nat /\ base \in Int
      /\ tick \in 0..(TickWrap - 1) /\ tick <= now
      /\ TickWrap \in Nat \ {0} /\ Delay \in Nat
      /\ good \in BOOLEAN /\ right \in BOOLEAN /\ slips \in Nat
  BY ConstantFacts DEF ClockInv
<1>3. tick' \in 0..(TickWrap - 1) /\ (tick' = 0 \/ tick' = tick + 1)
  <2>1. CASE tick + 1 < TickWrap
    <3>1. /\ TickWrap * 0 + (tick + 1) = tick + 1
          /\ tick + 1 \in 0..(TickWrap - 1)
      BY <1>2, <2>1
    <3>2. (TickWrap * 0 + (tick + 1)) % TickWrap = tick + 1
      BY <1>2, <3>1, DivisionIsUnique
    <3> QED BY <1>1, <3>1, <3>2
  <2>2. CASE tick + 1 = TickWrap
    <3>1. TickWrap * 1 + 0 = tick + 1 /\ 0 \in 0..(TickWrap - 1)
      BY <1>2, <2>2
    <3>2. (TickWrap * 1 + 0) % TickWrap = 0
      BY <1>2, <3>1, DivisionIsUnique
    <3> QED BY <1>1, <3>1, <3>2
  <2> QED BY <1>2, <2>1, <2>2
<1>4. tick' <= now' /\ now' \in Nat
  BY <1>1, <1>2, <1>3
<1>5. NearlyRight(base, good, right, slips)'
  <2>1. CASE tick' = 0
    <3>1. 0 \in -1..1 /\ 0 \in -slips..slips /\ slips' = slips
      BY <1>1, <1>2
    <3> QED BY <1>1, <2>1, <3>1 DEF NearlyRight
  <2>2. CASE tick' = tick + 1 /\ tick' # 0
    <3>1. now' - tick' = now - tick
      BY <1>1, <1>2, <2>2
    <3>2. good' = good /\ right' = right
      BY <1>1, <1>2, <2>2
    <3> QED BY <1>1, <3>1, <3>2 DEF ClockInv, NearlyRight, Away
  <2> QED BY <1>3, <2>1, <2>2
<1>6. (Busy(gps) => LineInHand(gps))'
  <2>1. CASE Busy(gps)
    <3>1. LineInHand(gps)
      BY <2>1 DEF ClockInv
    <3>2. gps \in Lines /\ gps.age <= now
      BY <3>1 DEF LineInHand
    <3>3. gps.age \in Nat /\ gps.age + 1 \in 0..Delay
      BY <1>1, <1>2, <3>2 DEF Lines
    <3>4. /\ gps' \in Lines
          /\ gps'.age = gps.age + 1 /\ gps'.day = gps.day /\ gps'.tod = gps.tod
          /\ gps'.fix = gps.fix /\ gps'.slips = gps.slips
          /\ gps'.knew = gps.knew
      BY <1>1, <2>1, <3>2, <3>3 DEF Lines
    <3>5. gps'.age <= now' /\ now' - gps'.age = now - gps.age
      BY <1>1, <1>2, <3>2, <3>3, <3>4
    <3> QED BY <1>1, <3>1, <3>4, <3>5 DEF LineInHand, TimeOfDay, TrueTime
  <2>2. CASE ~Busy(gps)
    BY <1>1, <2>2 DEF Busy
  <2> QED BY <2>1, <2>2
<1>7. (Busy(gsm) => AnswerInHand(gsm))'
  <2>1. CASE Busy(gsm)
    <3>1. AnswerInHand(gsm)
      BY <2>1 DEF ClockInv
    <3>2. /\ gsm \in [age : 0..Delay, time : Int] /\ gsm.age <= now
      BY <3>1 DEF AnswerInHand
    <3>3. gsm.age \in Nat /\ gsm.age + 1 \in 0..Delay
      BY <1>1, <1>2, <3>2
    <3>4. /\ gsm' \in [age : 0..Delay, time : Int]
          /\ gsm'.age = gsm.age + 1 /\ gsm'.time = gsm.time
      BY <1>1, <2>1, <3>2, <3>3
    <3>5. gsm'.age <= now' /\ now' - gsm'.age = now - gsm.age
      BY <1>1, <1>2, <3>2, <3>3, <3>4
    <3> QED BY <1>1, <3>1, <3>4, <3>5 DEF AnswerInHand, TrueTime
  <2>2. CASE ~Busy(gsm)
    BY <1>1, <2>2 DEF Busy
  <2> QED BY <2>1, <2>2
<1>8. start' \in Starts /\ base' \in Int /\ good' \in BOOLEAN
      /\ right' \in BOOLEAN /\ slips' \in Nat
  BY <1>1, <1>2
<1> QED BY <1>3, <1>4, <1>5, <1>6, <1>7, <1>8 DEF ClockInv

\* A line that is read, or is an error.
LEMMA ClockReads ==
    ASSUME ClockInv, NEW res, NEW age \in 0..Delay, age <= now,
           NEW fix \in BOOLEAN, ReadLine(res, age, fix),
           ~IsError(res) => /\ res.time \in Int
                            /\ fix => res.time = TimeOfDay(now - age)
    PROVE  ClockInv'
<1> DEFINE n == IF NearMidnight(now) THEN slips + 1 ELSE slips
           knew == right /\ fix
<1>1. /\ UNCHANGED <<start, now, tick, base, gsm, good, right, slips>>
      /\ gps' = IF IsError(res) THEN Nobody
                ELSE [age |-> age, day |-> FoundDay, tod |-> res.time,
                      fix |-> fix, knew |-> knew, slips |-> n]
  BY DEF ReadLine, history
<1>2. NearlyRight(base, good, right, slips)'
  BY <1>1 DEF ClockInv, NearlyRight, Away
<1>3. (Busy(gsm) => AnswerInHand(gsm))'
  BY <1>1 DEF ClockInv, Busy, AnswerInHand, TrueTime
<1>4. (Busy(gps) => LineInHand(gps))'
  <2>1. CASE IsError(res)
    BY <1>1, <2>1 DEF Busy
  <2>2. CASE ~IsError(res)
    <3>1. FoundDay \in Int /\ FoundDay % Day = 0
      BY DayThatIsFound
    <3>2. knew => /\ fix
                  /\ \E days \in -n..n :
                        FoundDay + res.time = TrueTime(now - age) + Day * days
      <4> SUFFICES ASSUME right, fix
                   PROVE  \E days \in -n..n :
                             FoundDay + res.time
                                = TrueTime(now - age) + Day * days
        OBVIOUS
      <4>1. PICK days \in -(slips + 1)..(slips + 1) :
               /\ FoundDay + TimeOfDay(now - age)
                     = TrueTime(now - age) + Day * days
               /\ ~NearMidnight(now) => days \in -slips..slips
        BY DayThatIsFound
      <4>2. days \in -n..n
        BY <4>1
      <4> HIDE DEF n
      <4> QED BY <2>2, <4>1, <4>2
    <3>3. knew \in BOOLEAN /\ n \in Nat
      BY DEF ClockInv
    <3> HIDE DEF knew, n
    <3>4. /\ gps' \in Lines
          /\ gps'.age = age /\ gps'.day = FoundDay /\ gps'.tod = res.time
          /\ gps'.fix = fix /\ gps'.knew = knew /\ gps'.slips = n
      <4>1. gps' = [age |-> age, day |-> FoundDay, tod |-> res.time,
                    fix |-> fix, knew |-> knew, slips |-> n]
        BY <1>1, <2>2 DEF knew, n
      <4> QED BY <2>2, <3>1, <3>3, <4>1 DEF Lines
    <3>5. now' - gps'.age = now - age /\ gps'.age <= now' /\ start' = start
      BY <1>1, <3>4
    <3>6. TimeOfDay(now - age)' = TimeOfDay(now - age)
          /\ TrueTime(now - age)' = TrueTime(now - age)
      BY <1>1 DEF TimeOfDay, TrueTime
    <3> QED BY <1>1, <2>2, <3>1, <3>2, <3>4, <3>5, <3>6
            DEF LineInHand, TimeOfDay, TrueTime
  <2> QED BY <2>1, <2>2
<1> QED BY <1>1, <1>2, <1>3, <1>4 DEF ClockInv

LEMMA ClockReadsWithFix ==
    ASSUME ClockInv, NEW reading \in WholeReadings \cup DamagedReadings,
           NEW age \in 0..Delay, LineWithFix(reading, age)
    PROVE  ClockInv'
<1>1. /\ age <= now /\ reading.of = TimeOfDay(now - age)
      /\ ReadLine(reading.res, age, TRUE)
  BY DEF LineWithFix
<1>2. ~IsError(reading.res) => reading.res.time = reading.of
  BY WhatIsRead
<1>3. reading.of \in Int
  <2>1. now - age \in Nat /\ start \in Starts
    BY <1>1, ConstantFacts DEF ClockInv
  <2> QED BY <1>1, <2>1, TrueTimes, ConstantFacts
<1> QED BY <1>1, <1>2, <1>3, ClockReads

LEMMA ClockReadsNoFix ==
    ASSUME ClockInv, NEW res \in ReadWithoutFix, LineWithoutFix(res)
    PROVE  ClockInv'
<1>1. 0 \in 0..Delay /\ 0 <= now
  BY ConstantFacts DEF ClockInv
<1>2. ReadLine(res, 0, FALSE)
  BY DEF LineWithoutFix
<1>3. PICK str : res = ParseLine(str)
  BY DEF ReadWithoutFix
<1>4. ~IsError(res) => res.time \in Int
  BY <1>3, TimesAreNumbers
<1> QED BY <1>1, <1>2, <1>4, ClockReads

LEMMA ClockIsSetFromLine == ASSUME ClockInv, SetFromLine PROVE ClockInv'
<1>1. /\ Busy(gps) /\ base' = (gps.day + gps.tod) - Uptime(tick)
      /\ good' = gps.fix /\ right' = gps.knew /\ slips' = gps.slips
      /\ gps' = Nobody
      /\ UNCHANGED <<start, now, tick, gsm>>
  BY DEF SetFromLine, SetTime
<1>2. LineInHand(gps)
  BY <1>1 DEF ClockInv
<1> DEFINE timestamp == gps.day + gps.tod
           age == gps.age
<1>3. /\ age \in 0..Delay /\ age <= now /\ timestamp \in Int
      /\ gps.day \in Int /\ gps.tod \in Int /\ gps.day % Day = 0
      /\ gps.fix \in BOOLEAN /\ gps.knew \in BOOLEAN /\ gps.slips \in Nat
      /\ gps.knew => \E days \in -gps.slips..gps.slips :
                        timestamp = TrueTime(now - age) + Day * days
      /\ gps.fix => gps.tod = TimeOfDay(now - age)
  BY <1>2 DEF LineInHand, Lines
<1>d. PICK days \in -gps.slips..gps.slips :
         gps.knew => timestamp = TrueTime(now - age) + Day * days
  <2>1. 0 \in -gps.slips..gps.slips
    BY <1>3
  <2> QED BY <1>3, <2>1
<1>4. gps.fix => (timestamp - TrueTime(now - age)) % Day = 0
  <2> SUFFICES ASSUME gps.fix
               PROVE  (timestamp - TrueTime(now - age)) % Day = 0
    OBVIOUS
  <2> DEFINE k == TrueTime(now - age) \div Day
             r == TimeOfDay(now - age)
  <2>1. now - age \in Nat /\ start \in Starts
    BY <1>3, ConstantFacts DEF ClockInv
  <2>2. /\ k \in Nat /\ r \in 0..(Day - 1) /\ Day \in Nat \ {0}
        /\ TrueTime(now - age) = k * Day + r
    BY <2>1, TrueTimes, ConstantFacts
  <2>3. gps.tod = r
    BY <1>3
  <2> HIDE DEF k, r
  <2>4. k * Day = Day * k /\ Day * k \in Int
    BY <2>2
  <2>5. timestamp - TrueTime(now - age) = gps.day - Day * k
    BY <1>3, <2>2, <2>3, <2>4
  <2>6. (Day * k) % Day = 0
    BY <2>2, Multiples
  <2>7. (gps.day - Day * k) % Day = 0
    BY <1>3, <2>4, <2>6, SumsOfMultiples
  <2> QED BY <2>5, <2>7
<1>5. NearlyRight(timestamp - Uptime(tick), gps.fix, gps.knew, gps.slips)
  <2> HIDE DEF timestamp, age
  <2> QED BY <1>3, <1>4, <1>d, SetFromTime
<1>6. NearlyRight(base, good, right, slips)'
  BY <1>1, <1>5 DEF NearlyRight, Away
<1>7. (Busy(gsm) => AnswerInHand(gsm))'
  BY <1>1 DEF ClockInv, Busy, AnswerInHand, TrueTime
<1>8. base' \in Int
  <2>1. tick \in Nat /\ TicksPerSecond \in Nat \ {0}
    BY ConstantFacts DEF ClockInv
  <2>2. Uptime(tick) \in Int
    BY <2>1 DEF Uptime
  <2> QED BY <1>1, <1>3, <2>2
<1>9. ~Busy(gps)'
  BY <1>1 DEF Busy
<1> QED BY <1>1, <1>3, <1>6, <1>7, <1>8, <1>9 DEF ClockInv

LEMMA ClockIsAnswered ==
    ASSUME ClockInv, NEW age \in 0..Delay, Answer(age) PROVE ClockInv'
<1>1. /\ age <= now
      /\ gsm' = [age |-> age, time |-> YmdToDays(DateOf(now - age)) * Day
                                          + TimeOfDay(now - age)]
      /\ UNCHANGED <<start, now, tick, base, gps, good, right, slips>>
  BY DEF Answer, history
<1>2. now - age \in Nat /\ start \in Starts /\ now \in Nat
  BY <1>1, ConstantFacts DEF ClockInv
<1>3. gsm' = [age |-> age, time |-> TrueTime(now - age)]
  BY <1>1, <1>2, AnswersAreTrue
<1>4. TrueTime(now - age) \in Int
  BY <1>2, TrueTimes
<1>5. AnswerInHand(gsm)'
  <2>1. /\ gsm' \in [age : 0..Delay, time : Int]
        /\ gsm'.age = age /\ gsm'.time = TrueTime(now - age)
    BY <1>3, <1>4
  <2>2. now' - gsm'.age = now - age /\ gsm'.age <= now' /\ start' = start
    BY <1>1, <2>1
  <2> QED BY <2>1, <2>2 DEF AnswerInHand, TrueTime
<1>6. NearlyRight(base, good, right, slips)'
  BY <1>1 DEF ClockInv, NearlyRight, Away
<1>7. (Busy(gps) => LineInHand(gps))'
  BY <1>1 DEF ClockInv, Busy, LineInHand, TimeOfDay, TrueTime
<1> QED BY <1>1, <1>5, <1>6, <1>7 DEF ClockInv

LEMMA ClockIsSetFromAnswer == ASSUME ClockInv, SetFromAnswer PROVE ClockInv'
<1>1. /\ Busy(gsm) /\ base' = gsm.time - Uptime(tick)
      /\ good' = TRUE /\ right' = TRUE /\ slips' = 0 /\ gsm' = Nobody
      /\ UNCHANGED <<start, now, tick, gps>>
  BY DEF SetFromAnswer, SetTime
<1>2. AnswerInHand(gsm)
  BY <1>1 DEF ClockInv
<1> DEFINE timestamp == gsm.time
           age == gsm.age
<1>3. /\ age \in 0..Delay /\ age <= now /\ timestamp \in Int
      /\ timestamp = TrueTime(now - age)
  BY <1>2 DEF AnswerInHand
<1>4. (timestamp - TrueTime(now - age)) % Day = 0
  <2>1. timestamp - TrueTime(now - age) = Day * 0
    BY <1>3, ConstantFacts
  <2> QED BY <2>1, Multiples
<1>5. NearlyRight(timestamp - Uptime(tick), TRUE, TRUE, 0)
  <2>1. timestamp = TrueTime(now - age) + Day * 0 /\ 0 \in -0..0 /\ 0 \in Nat
    <3>1. Day * 0 = 0 /\ TrueTime(now - age) \in Int
      BY <1>3, ConstantFacts
    <3> HIDE DEF timestamp, age
    <3> QED BY <1>3, <3>1
  <2> HIDE DEF timestamp, age
  <2> QED BY <1>3, <1>4, <2>1, SetFromTime
<1>6. NearlyRight(base, good, right, slips)'
  BY <1>1, <1>5 DEF NearlyRight, Away
<1>7. (Busy(gps) => LineInHand(gps))'
  BY <1>1 DEF ClockInv, Busy, LineInHand, TimeOfDay, TrueTime
<1>8. base' \in Int
  <2>1. tick \in Nat /\ TicksPerSecond \in Nat \ {0}
    BY ConstantFacts DEF ClockInv
  <2>2. Uptime(tick) \in Int
    BY <2>1 DEF Uptime
  <2> QED BY <1>1, <1>3, <2>2
<1>9. ~Busy(gsm)'
  BY <1>1 DEF Busy
<1> QED BY <1>1, <1>6, <1>7, <1>8, <1>9 DEF ClockInv

\* What a step of the board does to its clock.
LEMMA ClockMoves ==
    ASSUME [Next]_vars
    PROVE  \/ UNCHANGED clock \/ ClockReset \/ Tick
           \/ \E reading \in WholeReadings \cup DamagedReadings,
                 age \in 0..Delay : LineWithFix(reading, age)
           \/ \E res \in ReadWithoutFix : LineWithoutFix(res)
           \/ SetFromLine
           \/ \E age \in 0..Delay : Answer(age)
           \/ SetFromAnswer
<1>1. CASE Boot
  BY <1>1
  DEF Boot, Device, Fails, Error_Handler, HaltAndCatchFire, NVIC_SystemReset,
      Reborn, Make, MallocFailedHook, Create, CreateOnHeap, BeginRx,
      MainModule, SystemClock_Config, MX_GPIO_Init, MX_I2C1_Init,
      MX_I2S3_Init, MX_SPI1_Init, MX_CRC_Init, MX_RNG_Init, MX_DMA_Init,
      MX_USART2_UART_Init, MX_USART3_UART_Init, MX_TIM2_Init, MX_CAN1_Init,
      MX_USART6_UART_Init, DefaultTask, InitGlobals, CreateTasks,
      StartScheduler
<1>2. CASE MX_USB_DEVICE_Init \/ Report
  BY <1>2 DEF MX_USB_DEVICE_Init, Report
<1>3. CASE GyroTask
  BY <1>3
  DEF GyroTask, GyroReboot, GyroWait, GyroWhoami, GyroConfigure, GyroSample,
      Gyro, Terminate, HaltAndCatchFire, NVIC_SystemReset, Reborn, vars
<1>4. CASE PinReset \/ RestartCommand \/ PowerLoss
  BY <1>4 DEF PinReset, RestartCommand, PowerLoss, NVIC_SystemReset, Reborn
<1>5. CASE UNCHANGED vars
  BY <1>5 DEF vars
<1> QED BY <1>1, <1>2, <1>3, <1>4, <1>5, Zenon DEF Next, While

LEMMA ClockStep == ASSUME ClockInv, [Next]_vars PROVE ClockInv'
BY ClockMoves, ClockKept, ClockIsReset, ClockTicks, ClockReadsWithFix,
   ClockReadsNoFix, ClockIsSetFromLine, ClockIsAnswered,
   ClockIsSetFromAnswer, Zenon

LEMMA ClockBegins == ASSUME Init PROVE ClockInv
<1>1. /\ start \in Starts /\ now \in 0..(TicksPerSecond - 1)
      /\ tick = 0 /\ base = 0 /\ gps = Nobody /\ gsm = Nobody
      /\ good = FALSE /\ right = FALSE /\ slips = 0
  BY DEF Init, ClockInit
<1>2. TickWrap \in Nat \ {0} /\ 0 \in -1..1 /\ 0 \in -0..0 /\ now \in Nat
  BY <1>1, ConstantFacts
<1>3. NearlyRight(base, good, right, slips)
  BY <1>1, <1>2 DEF NearlyRight
<1>4. ~Busy(gps) /\ ~Busy(gsm)
  BY <1>1 DEF Busy
<1>5. tick \in 0..(TickWrap - 1) /\ tick <= now /\ base \in Int
  BY <1>1, <1>2
<1> QED BY <1>1, <1>2, <1>3, <1>4, <1>5 DEF ClockInv

\* The clock is a second or two away at most from the time of day after it
\* was set from a line with a fix or from an answer; and, when its day comes
\* of an answer, away from the time by that and by no more days than lines
\* were read around midnight since.  For any lines, answers and resets, for
\* any length of the tick, and for a day of any length of three seconds or
\* more whose hours, minutes and seconds are written with two digits.
THEOREM ClockStaysRight == Spec => []ClockIsRight
<1>1. Init => ClockInv
  BY ClockBegins
<1>2. ClockInv /\ [Next]_vars => ClockInv'
  BY ClockStep
<1>3. ClockInv => ClockIsRight
  BY RightEnough
<1> QED BY <1>1, <1>2, <1>3, PTL DEF Spec

\* No character that is lost on the way, and none that becomes another byte,
\* wherever it is in the line, makes the line tell another time.
THEOREM DamageDoesNotMislead == Spec => []LinesTellTheTime
<1>1. Init => ClockInv
  BY ClockBegins
<1>2. ClockInv /\ [Next]_vars => ClockInv'
  BY ClockStep
<1>3. ClockInv => LinesTellTheTime
  BY DEF ClockInv, LineInHand, LinesTellTheTime
<1> QED BY <1>1, <1>2, <1>3, PTL DEF Spec

-----------------------------------------------------------------------------
(* The key.                                                                *)

LEMMA CharConvFacts ==
    /\ Radix \in Nat \ {0} /\ SegmentSize \in Nat \ {0}
    /\ Digits \subseteq Nat /\ 0 \in Digits
BY CharConvAssumption DEF Digits

\* Sums of digits, or words, by Horner's rule: there are some, and they are
\* numbers.
Sums(f, n, a, r, d) ==
    /\ f = [k \in 0..n |-> f[k]] /\ f[0] = a
    /\ \A k \in 1..n : f[k] = f[k - 1] * r + d[k]

LEMMA SumsExist ==
    ASSUME NEW n \in Nat, NEW a \in Nat, NEW r \in Nat,
           NEW d \in [1..n -> Nat]
    PROVE  \E f : Sums(f, n, a, r, d)
<1> DEFINE F == [k \in 1..n |-> [x \in Nat |-> x * r + d[k]]]
<1>1. F \in [1..n -> [Nat -> Nat]]
  OBVIOUS
<1>2. PICK f : Runs(f, n, Nat, a, F)
  <2> HIDE DEF F
  <2> QED BY <1>1, Recursion, Zenon
<1>3. ASSUME NEW k \in 1..n PROVE f[k] = f[k - 1] * r + d[k]
  <2>1. k - 1 \in 0..n
    OBVIOUS
  <2>2. f[k - 1] \in Nat /\ f[k] = F[k][f[k - 1]]
    <3> HIDE DEF F
    <3> QED BY <1>2, <2>1 DEF Runs
  <2> QED BY <2>2
<1>4. f = [k \in 0..n |-> f[k]] /\ f[0] = a
  <2> HIDE DEF F
  <2> QED BY <1>2 DEF Runs
<1> QED BY <1>3, <1>4 DEF Sums

LEMMA AllAreNumbers ==
    ASSUME NEW n \in Nat, NEW f, f = [k \in 0..n |-> f[k]], f[0] \in Nat,
           \A k \in 1..n : f[k - 1] \in Nat => f[k] \in Nat
    PROVE  f \in [0..n -> Nat]
<1> DEFINE S == {k \in Nat : k <= n => f[k] \in Nat}
<1>1. 0 \in S
  OBVIOUS
<1>2. ASSUME NEW k \in Nat, k \in S PROVE k + 1 \in S
  <2> SUFFICES ASSUME k + 1 <= n PROVE f[k + 1] \in Nat
    OBVIOUS
  <2>1. f[k] \in Nat
    BY <1>2
  <2>2. \A j \in 1..n : j - 1 = k => f[j] \in Nat
    BY <2>1
  <2>3. k + 1 \in 1..n /\ (k + 1) - 1 = k
    OBVIOUS
  <2> QED BY <2>2, <2>3
<1> HIDE DEF S
<1>3. Nat \subseteq S
  BY <1>1, <1>2, SetInduction
<1>4. \A k \in 0..n : f[k] \in Nat
  BY <1>3 DEF S
<1> QED BY <1>4

LEMMA SumsAreNumbers ==
    ASSUME NEW n \in Nat, NEW a \in Nat, NEW r \in Nat,
           NEW d \in [1..n -> Nat], NEW f, Sums(f, n, a, r, d)
    PROVE  f \in [0..n -> Nat]
<1>1. ASSUME NEW k \in 1..n, f[k - 1] \in Nat PROVE f[k] \in Nat
  <2>1. f[k] = f[k - 1] * r + d[k] /\ d[k] \in Nat
    BY DEF Sums
  <2>2. f[k - 1] * r \in Nat
    BY <1>1
  <2> QED BY <2>1, <2>2
<1> QED BY <1>1, AllAreNumbers DEF Sums

\* The number up to each digit of a text.
Partial(text, u) ==
    /\ u \in [0..Len(text) -> Nat] /\ Sums(u, Len(text), 0, Radix, text)
    /\ Number(text) = u[Len(text)]

LEMMA NumberIsPartial ==
    ASSUME NEW text \in Seq(Nat)
    PROVE  \E u : Partial(text, u)
<1> DEFINE n == Len(text)
           P(g) == g = [k \in 0..n |->
                           IF k = 0 THEN 0 ELSE g[k - 1] * Radix + text[k]]
           u == CHOOSE g : P(g)
<1>1. n \in Nat /\ text \in [1..n -> Nat] /\ Radix \in Nat /\ 0 \in Nat
  BY CharConvFacts
<1>2. Number(text) = u[n]
  BY Zenon DEF Number
<1> HIDE DEF n
<1>3. PICK f : Sums(f, n, 0, Radix, text)
  BY <1>1, SumsExist, Zenon
<1>4. P(f)
  BY <1>1, <1>3 DEF Sums
<1>5. P(u)
  <2> HIDE DEF P
  <2> QED BY <1>4, Zenon
<1> HIDE DEF u
<1>6. Sums(u, n, 0, Radix, text)
  BY <1>1, <1>5 DEF Sums
<1>7. u \in [0..n -> Nat]
  BY <1>1, <1>6, SumsAreNumbers, Zenon
<1> QED BY <1>2, <1>6, <1>7 DEF Partial, n

LEMMA NumberIsANumber ==
    ASSUME NEW text \in Seq(Nat) PROVE Number(text) \in Nat
<1>1. PICK u : Partial(text, u)
  BY NumberIsPartial
<1>2. Number(text) = u[Len(text)] /\ u \in [0..Len(text) -> Nat]
  BY <1>1 DEF Partial
<1> QED BY <1>2

\* The powers of the radix.
Powers(p) ==
    /\ p \in [0..SegmentSize -> Nat] /\ p[0] = 1
    /\ \A k \in 1..SegmentSize : p[k] = p[k - 1] * Radix
    /\ WordRange = p[SegmentSize]

LEMMA WordRangeIsAPower == \E p : Powers(p)
<1> DEFINE n == SegmentSize
           zeros == [k \in 1..n |-> 0]
           P(g) == g = [k \in 0..n |-> IF k = 0 THEN 1 ELSE g[k - 1] * Radix]
           p == CHOOSE g : P(g)
<1>1. n \in Nat /\ zeros \in [1..n -> Nat] /\ Radix \in Nat /\ 1 \in Nat
  BY CharConvFacts
<1>2. WordRange = p[n]
  BY Zenon DEF WordRange
<1> HIDE DEF n
<1>3. PICK f : Sums(f, n, 1, Radix, zeros)
  <2> HIDE DEF zeros
  <2> QED BY <1>1, SumsExist, Zenon
<1>4. f \in [0..n -> Nat]
  <2> HIDE DEF zeros
  <2> QED BY <1>1, <1>3, SumsAreNumbers, Zenon
<1>5. P(f)
  <2>1. ASSUME NEW k \in 1..n PROVE f[k] = f[k - 1] * Radix
    <3>1. f[k] = f[k - 1] * Radix + 0
      BY <1>3 DEF Sums
    <3>2. f[k - 1] * Radix \in Nat
      BY <1>1, <1>4
    <3> QED BY <3>1, <3>2
  <2> QED BY <1>3, <1>4, <2>1 DEF Sums
<1>6. P(p)
  <2> HIDE DEF P
  <2> QED BY <1>5, Zenon
<1> HIDE DEF p
<1>7. \A k \in 1..n : p[k] = p[k - 1] * Radix
  BY <1>1, <1>6
<1>8. p[0] = 1 /\ p = [k \in 0..n |-> p[k]]
  BY <1>1, <1>6
<1>9. p \in [0..n -> Nat]
  <2>1. ASSUME NEW k \in 1..n, p[k - 1] \in Nat PROVE p[k] \in Nat
    BY <1>1, <1>7, <2>1
  <2> QED BY <1>1, <1>8, <2>1, AllAreNumbers
<1> QED BY <1>2, <1>7, <1>8, <1>9 DEF Powers, n


\* The words of an array, from the last.
PartialWorth(words, w) ==
    /\ w \in [0..Len(words) -> Nat] /\ w[0] = 0
    /\ \A k \in 1..Len(words) :
          w[k] = w[k - 1] * WordRange + words[Len(words) - k + 1]
    /\ Worth(words) = w[Len(words)]

LEMMA WorthIsPartial ==
    ASSUME NEW words \in Seq(Nat)
    PROVE  \E w : PartialWorth(words, w)
<1> DEFINE n == Len(words)
           d == [k \in 1..n |-> words[n - k + 1]]
           P(g) == g = [k \in 0..n |->
                           IF k = 0 THEN 0
                           ELSE g[k - 1] * WordRange + words[n - k + 1]]
           w == CHOOSE g : P(g)
<1>1. WordRange \in Nat
  BY WordRangeIsAPower, CharConvFacts DEF Powers
<1>2. n \in Nat /\ d \in [1..n -> Nat] /\ 0 \in Nat
  OBVIOUS
<1>3. Worth(words) = w[n]
  BY Zenon DEF Worth
<1> HIDE DEF n
<1>4. PICK f : Sums(f, n, 0, WordRange, d)
  <2> HIDE DEF d
  <2> QED BY <1>1, <1>2, SumsExist, Zenon
<1>5. P(f)
  <2>1. \A k \in 1..n : d[k] = words[n - k + 1]
    OBVIOUS
  <2>2. \A k \in 0..n : f[k] = IF k = 0 THEN 0
                               ELSE f[k - 1] * WordRange + words[n - k + 1]
    <3> HIDE DEF d
    <3>1. f[0] = 0 /\ \A k \in 1..n : f[k] = f[k - 1] * WordRange + d[k]
      BY <1>4 DEF Sums
    <3>2. \A k \in 1..n : f[k] = f[k - 1] * WordRange + words[n - k + 1]
      BY <2>1, <3>1
    <3>3. \A k \in 0..n : k = 0 \/ k \in 1..n
      BY <1>2
    <3> QED BY <3>1, <3>2, <3>3
  <2>3. f = [k \in 0..n |-> f[k]]
    BY <1>4 DEF Sums
  <2> QED BY <2>2, <2>3
<1>6. P(w)
  <2> HIDE DEF P
  <2> QED BY <1>5, Zenon
<1> HIDE DEF w
<1>7. /\ Sums(w, n, 0, WordRange, d)
      /\ \A k \in 1..n : w[k] = w[k - 1] * WordRange + words[n - k + 1]
  <2>1. w = [k \in 0..n |-> w[k]] /\ w[0] = 0
    BY <1>2, <1>6
  <2>2. \A k \in 1..n : w[k] = w[k - 1] * WordRange + words[n - k + 1]
    BY <1>2, <1>6
  <2>3. \A k \in 1..n : d[k] = words[n - k + 1]
    OBVIOUS
  <2> HIDE DEF d, P
  <2> QED BY <2>1, <2>2, <2>3 DEF Sums
<1>8. w \in [0..n -> Nat]
  <2> HIDE DEF d
  <2> QED BY <1>1, <1>2, <1>7, SumsAreNumbers, Zenon
<1> QED BY <1>3, <1>7, <1>8 DEF PartialWorth, Sums, n

LEMMA PartOfText ==
    ASSUME NEW s \in Seq(Nat), NEW i \in Int, NEW j \in Int,
           1 <= i, i <= j + 1, j <= Len(s)
    PROVE  /\ SubSeq(s, i, j) \in Seq(Nat)
           /\ Len(SubSeq(s, i, j)) = j - i + 1
           /\ \A k \in 1..(j - i + 1) : SubSeq(s, i, j)[k] = s[i + k - 1]
<1>1. \A k \in i..j : s[k] \in Nat
  BY ElementOfSeq
<1> QED BY <1>1, SubSeqProperties

\* The number of a text in two parts.
LEMMA NumberInParts ==
    ASSUME NEW text \in Seq(Nat), NEW u, Partial(text, u),
           NEW p, Powers(p),
           NEW k \in 0..Len(text), NEW l \in 0..SegmentSize,
           k + l <= Len(text)
    PROVE  u[k + l] = u[k] * p[l] + Number(SubSeq(text, k + 1, k + l))
<1> DEFINE part == SubSeq(text, k + 1, k + l)
           n == Len(text)
<1>1. /\ part \in Seq(Nat) /\ Len(part) = l
      /\ \A j \in 1..l : part[j] = text[k + j]
  <2>1. /\ k + 1 \in Int /\ k + l \in Int /\ 1 <= k + 1
        /\ k + 1 <= k + l + 1 /\ (k + l) - (k + 1) + 1 = l
        /\ \A j \in 1..l : k + 1 + j - 1 = k + j
    BY CharConvFacts
  <2>2. /\ part \in Seq(Nat) /\ Len(part) = (k + l) - (k + 1) + 1
        /\ \A j \in 1..((k + l) - (k + 1) + 1) :
              part[j] = text[k + 1 + j - 1]
    <3> HIDE DEF part
    <3> QED BY <2>1, PartOfText DEF part
  <2> HIDE DEF part
  <2> QED BY <2>1, <2>2
<1>2. PICK v : Partial(part, v)
  BY <1>1, NumberIsPartial
<1> HIDE DEF part
<1> DEFINE S == {j \in Nat : j <= l => u[k + j] = u[k] * p[j] + v[j]}
<1>3. /\ n \in Nat /\ SegmentSize \in Nat /\ Radix \in Nat
      /\ text \in [1..n -> Nat] /\ u \in [0..n -> Nat]
      /\ v \in [0..l -> Nat] /\ p \in [0..SegmentSize -> Nat]
      /\ u[0] = 0 /\ v[0] = 0 /\ p[0] = 1
  <2>1. text \in [1..n -> Nat] /\ n \in Nat
    OBVIOUS
  <2>2. u \in [0..n -> Nat] /\ u[0] = 0
    BY DEF Partial, Sums
  <2>3. v \in [0..l -> Nat] /\ v[0] = 0
    BY <1>1, <1>2 DEF Partial, Sums
  <2> QED BY <2>1, <2>2, <2>3, CharConvFacts DEF Powers
<1>4. /\ \A j \in 1..n : u[j] = u[j - 1] * Radix + text[j]
      /\ \A j \in 1..l : v[j] = v[j - 1] * Radix + part[j]
      /\ \A j \in 1..SegmentSize : p[j] = p[j - 1] * Radix
  BY <1>1, <1>2 DEF Partial, Powers, Sums
<1> HIDE DEF n
<1>5. k \in 0..n /\ k + l <= n
  BY DEF n
<1>6. 0 \in S
  <2>1. u[k + 0] = u[k] * 1 + 0 /\ u[k] \in Nat
    BY <1>3, <1>5
  <2> QED BY <1>3, <2>1
<1>7. ASSUME NEW j \in Nat, j \in S PROVE j + 1 \in S
  <2> SUFFICES ASSUME j + 1 <= l
               PROVE  u[k + (j + 1)] = u[k] * p[j + 1] + v[j + 1]
    OBVIOUS
  <2>1. u[k + j] = u[k] * p[j] + v[j]
    BY <1>7
  <2> DEFINE a == u[k]
             b == p[j]
             c == v[j]
             e == part[j + 1]
  <2>2. a \in Nat /\ b \in Nat /\ c \in Nat
    <3>1. k \in 0..n /\ j \in 0..SegmentSize /\ j \in 0..l
      BY <1>3
    <3> QED BY <1>3, <3>1
  <2>3. e \in Nat /\ e = text[k + (j + 1)]
    <3>1. j + 1 \in 1..l /\ k + (j + 1) \in 1..n
      BY <1>3, <1>5
    <3> QED BY <1>1, <1>3, <3>1
  <2>4. u[k + (j + 1)] = u[k + j] * Radix + e
    <3>1. k + (j + 1) \in 1..n /\ k + (j + 1) - 1 = k + j
      BY <1>3, <1>5
    <3>2. \A i, h \in Int : i \in 1..n /\ h = i - 1
                               => u[i] = u[h] * Radix + text[i]
      BY <1>4
    <3> QED BY <2>3, <3>1, <3>2
  <2>5. v[j + 1] = c * Radix + e
    <3>1. \A i, h \in Int : i \in 1..l /\ h = i - 1
                               => v[i] = v[h] * Radix + part[i]
      BY <1>4
    <3> QED BY <3>1
  <2>6. p[j + 1] = b * Radix
    <3>1. \A i, h \in Int : i \in 1..SegmentSize /\ h = i - 1
                               => p[i] = p[h] * Radix
      BY <1>4
    <3> QED BY <1>3, <3>1
  <2>7. (a * b + c) * Radix + e = a * (b * Radix) + (c * Radix + e)
    <3> HIDE DEF a, b, c, e
    <3> QED BY <1>3, <2>2, <2>3
  <2> QED BY <2>1, <2>4, <2>5, <2>6, <2>7
<1> HIDE DEF S
<1>8. Nat \subseteq S
  BY <1>6, <1>7, SetInduction
<1>9. u[k + l] = u[k] * p[l] + v[l]
  BY <1>8 DEF S
<1> QED BY <1>1, <1>2, <1>9 DEF Partial, part

\* Zeros at the beginning are worth nothing.
LEMMA Zeros ==
    ASSUME NEW text \in Seq(Nat), NEW u, Partial(text, u),
           NEW n \in 0..Len(text), \A j \in 1..n : text[j] = 0
    PROVE  u[n] = 0
<1> DEFINE S == {j \in Nat : j <= n => u[j] = 0}
<1>1. Radix \in Nat /\ u[0] = 0
      /\ \A j \in 1..Len(text) : u[j] = u[j - 1] * Radix + text[j]
  BY CharConvFacts DEF Partial, Sums
<1>2. 0 \in S
  BY <1>1
<1>3. ASSUME NEW j \in Nat, j \in S PROVE j + 1 \in S
  <2> SUFFICES ASSUME j + 1 <= n PROVE u[j + 1] = 0
    OBVIOUS
  <2>1. u[j] = 0
    BY <1>3
  <2>2. \A i, h \in Int : i \in 1..Len(text) /\ h = i - 1
                             => u[i] = u[h] * Radix + text[i]
    BY <1>1
  <2>3. u[j + 1] = 0 * Radix + 0
    BY <2>1, <2>2
  <2> QED BY <1>1, <2>3
<1> HIDE DEF S
<1>4. Nat \subseteq S
  BY <1>2, <1>3, SetInduction
<1> QED BY <1>4 DEF S

\* Where a text leaves a set of characters.
LEMMA Leaves ==
    ASSUME NEW s \in Seq(Nat), NEW chars
    PROVE  \E n \in 0..Len(s) :
              /\ Before(s, chars) = IF n = Len(s) THEN s ELSE SubSeq(s, 1, n)
              /\ Len(Before(s, chars)) = n
              /\ \A j \in 1..n : s[j] \in chars
              /\ n < Len(s) => s[n + 1] \notin chars
<1> DEFINE I == {i \in 1..Len(s) : s[i] \notin chars}
           m == IF I = {} THEN 0 ELSE Min(I)
<1>1. Before(s, chars) = IF m = 0 THEN s ELSE SubSeq(s, 1, m - 1)
  BY DEF Before, SelectInSeq
<1>2. CASE I = {}
  BY <1>1, <1>2
<1>3. CASE I # {}
  <2>1. I \in SUBSET Nat
    OBVIOUS
  <2>2. \E x \in I : \A y \in I : x <= y
    <3> HIDE DEF I
    <3> QED BY <1>3, <2>1, LeastNatural
  <2>3. m \in I /\ \A y \in I : m <= y
    <3> HIDE DEF I
    <3> QED BY <1>3, <2>2 DEF Min
  <2> HIDE DEF m
  <2>4. m \in 1..Len(s) /\ s[m] \notin chars
    BY <2>3
  <2>5. \A j \in 1..(m - 1) : s[j] \in chars
    BY <2>3, <2>4
  <2>6. Before(s, chars) = SubSeq(s, 1, m - 1)
    BY <1>1, <2>4
  <2>7. /\ m - 1 \in 0..Len(s) /\ m - 1 < Len(s) /\ m - 1 + 1 = m
        /\ Len(SubSeq(s, 1, m - 1)) = m - 1
    BY <2>4, PartOfText
  <2> QED BY <2>4, <2>5, <2>6, <2>7
<1> QED BY <1>2, <1>3

LEMMA DigitsAreNumbers ==
    ASSUME NEW s \in Seq(Digits)
    PROVE  s \in Seq(Nat) /\ \A j \in 1..Len(s) : s[j] \in Digits
<1>1. Digits \subseteq Nat
  BY CharConvFacts
<1> HIDE DEF Digits
<1>2. Len(s) \in Nat /\ s \in [1..Len(s) -> Digits]
  OBVIOUS
<1>3. s \in [1..Len(s) -> Nat]
  BY <1>1, <1>2
<1> QED BY <1>2, <1>3

\* A word of digits, with or without its leading zeros.
LEMMA WithoutZeros ==
    ASSUME NEW s \in Seq(Digits), Len(s) \in 1..SegmentSize
    PROVE  LET rest == From(s, {0})
               segment == IF rest = <<>> THEN <<0>> ELSE rest
           IN  Word(segment) = Number(s) /\ ~Unreadable(segment)
<1> DEFINE rest == From(s, {0})
           segment == IF rest = <<>> THEN <<0>> ELSE rest
           N == Len(s)
<1>1. /\ s \in Seq(Nat) /\ N \in 1..SegmentSize /\ SegmentSize \in Nat
      /\ N \in Nat /\ \A j \in 1..N : s[j] \in Digits
  BY CharConvFacts, DigitsAreNumbers
<1>2. ASSUME NEW t \in Seq(Digits), t # <<>>
      PROVE  Word(t) = Number(t) /\ ~Unreadable(t)
  <2>1. t \in Seq(Nat) /\ \A j \in 1..Len(t) : t[j] \in Digits
    BY DigitsAreNumbers
  <2>2. PICK n \in 0..Len(t) :
           /\ Before(t, Digits) = IF n = Len(t) THEN t ELSE SubSeq(t, 1, n)
           /\ n < Len(t) => t[n + 1] \notin Digits
    BY <2>1, Leaves
  <2>3. n = Len(t)
    BY <2>1, <2>2
  <2>4. Before(t, Digits) = t
    BY <2>2, <2>3
  <2> QED BY <1>2, <2>4 DEF Word, Unreadable
<1>3. PICK u : Partial(s, u)
  BY <1>1, NumberIsPartial
<1>4. PICK n \in 0..N :
         /\ Len(Before(s, {0})) = n
         /\ \A j \in 1..n : s[j] \in {0}
  BY <1>1, Leaves
<1>5. rest = SubSeq(s, n + 1, N)
  BY <1>4 DEF From
<1>6. u[n] = 0 /\ Number(s) = u[N]
  <2>1. \A j \in 1..n : s[j] = 0
    BY <1>4
  <2> QED BY <1>1, <1>3, <1>4, <2>1, Zeros DEF Partial
<1>7. /\ Len(rest) = N - n
      /\ \A j \in 1..(N - n) : rest[j] = s[n + 1 + j - 1]
      /\ rest \in Seq(Nat)
  <2>1. /\ n + 1 \in Int /\ N \in Int /\ 1 <= n + 1 /\ n + 1 <= N + 1
        /\ N - (n + 1) + 1 = N - n
    BY <1>1, <1>4
  <2> HIDE DEF rest
  <2>2. PICK i \in Int : i = n + 1
    BY <2>1
  <2>3. /\ rest \in Seq(Nat) /\ Len(rest) = N - i + 1
        /\ \A j \in 1..(N - i + 1) : rest[j] = s[i + j - 1]
    <3>1. rest = SubSeq(s, i, N) /\ 1 <= i /\ i <= N + 1 /\ N <= Len(s)
      BY <1>1, <1>5, <2>1, <2>2
    <3> HIDE DEF N
    <3> QED BY <1>1, <2>1, <3>1, PartOfText
  <2> QED BY <2>1, <2>2, <2>3
<1> HIDE DEF rest
<1>8. CASE n = N
  <2>1. rest = <<>>
    BY <1>1, <1>7, <1>8
  <2>2. <<0>> \in Seq(Digits) /\ <<0>> # <<>> /\ segment = <<0>>
    BY <2>1, CharConvFacts
  <2>3. Number(<<0>>) = 0
    <3>1. <<0>> \in Seq(Nat) /\ Len(<<0>>) = 1
          /\ \A j \in 1..1 : <<0>>[j] = 0
      OBVIOUS
    <3>2. PICK v : Partial(<<0>>, v)
      BY <3>1, NumberIsPartial
    <3>3. 1 \in 0..Len(<<0>>)
      BY <3>1
    <3>4. v[1] = 0
      BY <3>1, <3>2, <3>3, Zeros
    <3> QED BY <3>1, <3>2, <3>4 DEF Partial
  <2> HIDE DEF segment
  <2>4. Word(segment) = Number(segment) /\ ~Unreadable(segment)
    BY <1>2, <2>2
  <2> QED BY <1>6, <1>8, <2>2, <2>3, <2>4 DEF segment, rest
<1>9. CASE n < N
  <2>1. rest # <<>> /\ segment = rest
    <3>1. Len(rest) # 0
      BY <1>1, <1>4, <1>7, <1>9
    <3> QED BY <3>1
  <2>2. rest \in Seq(Digits)
    <3>1. \A j \in 1..(N - n) : n + 1 + j - 1 \in 1..N
      BY <1>1, <1>4
    <3>2. \A j \in 1..Len(rest) : rest[j] \in Digits
      BY <1>1, <1>7, <3>1
    <3> QED BY <1>7, <3>2
  <2>3. Word(rest) = Number(rest) /\ ~Unreadable(rest)
    BY <1>2, <2>1, <2>2
  <2>4. Number(s) = Number(rest)
    <3> DEFINE l == N - n
    <3>1. l \in 0..SegmentSize /\ n + l <= N /\ n + l = N /\ n \in 0..Len(s)
      BY <1>1, <1>4
    <3> HIDE DEF l
    <3>2. PICK p : Powers(p)
      BY WordRangeIsAPower
    <3>3. u[n + l] = u[n] * p[l] + Number(SubSeq(s, n + 1, n + l))
      BY <1>1, <1>3, <3>1, <3>2, NumberInParts
    <3>4. p[l] \in Nat
      BY <3>1, <3>2 DEF Powers
    <3>5. Number(rest) \in Nat
      BY <1>7, NumberIsANumber
    <3>6. Number(s) = 0 * p[l] + Number(rest)
      BY <1>5, <1>6, <3>1, <3>3
    <3> QED BY <3>4, <3>5, <3>6
  <2> QED BY <2>1, <2>3, <2>4 DEF rest
<1>10. n = N \/ n < N
  BY <1>1, <1>4
<1> QED BY <1>8, <1>9, <1>10

\* How much of a text is before its last i words.
Rest(text, i) ==
    IF i * SegmentSize < Len(text) THEN Len(text) - i * SegmentSize ELSE 0

LEMMA Products ==
    ASSUME NEW i \in Int, NEW j \in Int, NEW d \in Nat, i <= j
    PROVE  i * d <= j * d
<1>1. PICK x \in Nat : j = i + x
  <2>1. j - i \in Nat /\ j = i + (j - i)
    OBVIOUS
  <2> QED BY <2>1
<1>2. (i + x) * d = i * d + x * d /\ x * d \in Nat /\ i * d \in Int
  OBVIOUS
<1> QED BY <1>1, <1>2

LEMMA CountOfSegments ==
    ASSUME NEW text \in Seq(Nat)
    PROVE  /\ SegmentCount(text) \in Nat
           /\ \A i \in Nat : i < SegmentCount(text)
                                <=> i * SegmentSize < Len(text)
<1> DEFINE N == Len(text)
           S == SegmentSize
           a == N + S - 1
           c == a \div S
           r == a % S
<1>1. N \in Nat /\ S \in Nat \ {0} /\ a \in Nat /\ c = SegmentCount(text)
  BY CharConvFacts DEF SegmentCount
<1>2. c \in Int /\ r \in 0..(S - 1) /\ a = S * c + r
  <2> HIDE DEF a, S
  <2> QED BY <1>1, Division
<1>3. a = N + S - 1
  OBVIOUS
<1> HIDE DEF a, c, r, N, S
<1>4. c * S >= N /\ (c - 1) * S < N
  <2> DEFINE x == c * S
             y == S * c
             z == (c - 1) * S
  <2>1. y = x /\ z = x - S /\ x \in Int
    BY <1>1, <1>2
  <2>2. a = y + r
    BY <1>2
  <2> HIDE DEF x, y, z
  <2>3. x >= N /\ z < N
    BY <1>1, <1>2, <1>3, <2>1, <2>2
  <2> QED BY <2>3 DEF x, z
<1>5. c \in Nat
  <2>1. ASSUME c <= -1 PROVE FALSE
    <3>1. c * S <= (-1) * S
      BY <1>1, <1>2, <2>1, Products
    <3>2. (-1) * S = -S
      BY <1>1
    <3>3. c * S \in Int
      BY <1>1, <1>2
    <3> QED BY <1>1, <1>4, <3>1, <3>2, <3>3
  <2> QED BY <1>2, <2>1
<1>6. ASSUME NEW i \in Nat PROVE i < c <=> i * S < N
  <2>1. i * S \in Int /\ c * S \in Int /\ (c - 1) * S \in Int
    BY <1>1, <1>5
  <2>2. CASE i < c
    <3>1. i * S <= (c - 1) * S
      <4>1. i <= c - 1 /\ c - 1 \in Int
        BY <1>5, <2>2
      <4> QED BY <1>1, <4>1, Products
    <3> QED BY <1>1, <1>4, <2>1, <2>2, <3>1
  <2>3. CASE ~(i < c)
    <3>1. c * S <= i * S
      BY <1>1, <1>5, <2>3, Products
    <3> QED BY <1>1, <1>4, <2>1, <2>3, <3>1
  <2> QED BY <2>2, <2>3
<1> QED BY <1>1, <1>5, <1>6 DEF N, S

\* A text of digits is what is before a word, and that word.
LEMMA WordsOfText ==
    ASSUME NEW text \in Seq(Digits), NEW u, Partial(text, u),
           NEW i \in 1..SegmentCount(text)
    PROVE  /\ ~Unreadable(Segment(text, i))
           /\ Word(Segment(text, i)) \in Nat
           /\ Rest(text, i) \in 0..Len(text)
           /\ Rest(text, i - 1) \in 0..Len(text)
           /\ u[Rest(text, i - 1)]
                 = u[Rest(text, i)] * WordRange + Word(Segment(text, i))
<1> DEFINE N == Len(text)
           S == SegmentSize
           before == Rest(text, i)
           last == N - (i - 1) * S
           first == IF last < S THEN 1 ELSE last - S + 1
           part == SubSeq(text, first, last)
           l == last - before
<1>1. /\ text \in Seq(Nat) /\ N \in Nat /\ S \in Nat \ {0}
      /\ \A j \in 1..N : text[j] \in Digits
      /\ SegmentCount(text) \in Nat
  <2>1. text \in Seq(Nat) /\ \A j \in 1..N : text[j] \in Digits
    BY DigitsAreNumbers
  <2>2. SegmentCount(text) \in Nat
    BY <2>1, CountOfSegments
  <2> QED BY <2>1, <2>2, CharConvFacts
<1>2. i \in Nat /\ i - 1 \in Nat /\ i - 1 < SegmentCount(text)
  BY <1>1
<1>3. (i - 1) * S < N /\ (i - 1) * S \in Nat
  <2>1. \A j \in Nat : j < SegmentCount(text) => j * S < N
    BY <1>1, CountOfSegments
  <2> QED BY <1>1, <1>2, <2>1
<1>4. (i - 1) * S = i * S - S /\ i * S \in Nat
  BY <1>1, <1>2
<1>5. last \in 1..N /\ Rest(text, i - 1) = last
  BY <1>1, <1>3 DEF Rest
<1>6. /\ before \in 0..N /\ first = before + 1 /\ l \in 1..S
      /\ before + l = last /\ (before = 0 \/ l = S)
  <2> DEFINE x == i * S
             y == (i - 1) * S
  <2>1. /\ x \in Nat /\ y = x - S /\ y < N
        /\ before = IF x < N THEN N - x ELSE 0
    BY <1>3, <1>4 DEF Rest
  <2> HIDE DEF x, before, N, S
  <2>2. last = N - y
    BY DEF y
  <2> HIDE DEF y
  <2> QED BY <1>1, <2>1, <2>2
<1>7. part \in Seq(Digits) /\ Len(part) = l
  <2> HIDE DEF first, last, before, l, N, S
  <2>1. PICK j \in Int : j = first
    BY <1>1, <1>6
  <2>2. j = before + 1 /\ last - j + 1 = l /\ 1 <= j /\ j <= last + 1
        /\ last <= N /\ last \in Int
    BY <1>1, <1>5, <1>6, <2>1
  <2>3. /\ part \in Seq(Nat) /\ Len(part) = last - j + 1
        /\ \A k \in 1..(last - j + 1) : part[k] = text[j + k - 1]
    <3>1. part = SubSeq(text, j, last) /\ last <= Len(text)
      BY <2>1, <2>2 DEF N
    <3> HIDE DEF part
    <3> QED BY <1>1, <2>2, <3>1, PartOfText
  <2>4. \A k \in 1..Len(part) : part[k] \in Digits
    <3> HIDE DEF part
    <3>1. \A k \in 1..(last - j + 1) : j + k - 1 \in 1..N
      BY <1>1, <1>5, <1>6, <2>2
    <3>2. Len(part) = last - j + 1
      BY <2>3
    <3> QED BY <1>1, <2>3, <3>1, <3>2
  <2> HIDE DEF part
  <2> QED BY <2>2, <2>3, <2>4
<1>8. Word(Segment(text, i)) = Number(part) /\ ~Unreadable(Segment(text, i))
  <2>1. Len(part) \in 1..SegmentSize
    BY <1>6, <1>7
  <2> DEFINE rest == From(part, {0})
  <2>2. Segment(text, i) = IF rest = <<>> THEN <<0>> ELSE rest
    BY DEF Segment
  <2> HIDE DEF part
  <2> QED BY <1>7, <2>1, <2>2, WithoutZeros
<1>9. PICK p : Powers(p)
  BY WordRangeIsAPower
<1>10. u[last] = u[before] * p[l] + Number(part)
  <2>1. u[before + l] = u[before] * p[l]
                           + Number(SubSeq(text, before + 1, before + l))
    <3>1. before \in 0..Len(text) /\ l \in 0..SegmentSize
          /\ before + l <= Len(text)
      <4> HIDE DEF before, l, last
      <4>1. last <= N /\ l <= S /\ 0 <= l /\ l \in Int
        BY <1>1, <1>5, <1>6
      <4> QED BY <1>6, <4>1
    <3> HIDE DEF before, l, last
    <3> QED BY <1>1, <1>9, <3>1, NumberInParts
  <2> QED BY <1>6, <2>1
<1>11. u[before] * p[l] = u[before] * WordRange
  <2>1. CASE l = S
    BY <1>9, <2>1 DEF Powers
  <2>2. CASE before = 0
    <3>1. u[before] = 0
      BY <2>2 DEF Partial, Sums
    <3>2. p[l] \in Nat /\ WordRange \in Nat
      BY <1>6, <1>9, CharConvFacts DEF Powers
    <3> HIDE DEF before, l
    <3> QED BY <3>1, <3>2
  <2> QED BY <1>6, <2>1, <2>2
<1>12. Number(part) \in Nat
  <2> HIDE DEF part
  <2> QED BY <1>7, DigitsAreNumbers, NumberIsANumber
<1> HIDE DEF part, l, last
<1> QED BY <1>5, <1>6, <1>8, <1>10, <1>11, <1>12

\* A text of digits that fits is read, whatever the array held.
LEMMA ReadDigits ==
    ASSUME NEW output \in [1..Words -> Nat], NEW text \in Seq(Digits),
           Len(text) <= Words * SegmentSize
    PROVE  Worth(FromChars(output, text)) = Number(text)
<1> DEFINE N == Len(text)
           S == SegmentSize
           count == SegmentCount(text)
           out == FromChars(output, text)
           bad == {i \in 1..count : Unreadable(Segment(text, i))}
<1>1. /\ text \in Seq(Nat) /\ N \in Nat /\ S \in Nat \ {0}
      /\ Words \in Nat \ {0} /\ count \in Nat
      /\ \A i \in Nat : i < count <=> i * S < N
  <2>1. text \in Seq(Nat)
    BY DigitsAreNumbers
  <2>2. count \in Nat /\ \A i \in Nat : i < count <=> i * S < N
    BY <2>1, CountOfSegments
  <2>3. S \in Nat \ {0} /\ Words \in Nat \ {0}
    BY CharConvFacts, BoardAssumption
  <2>4. N \in Nat
    OBVIOUS
  <2> HIDE DEF N, S, count
  <2> QED BY <2>1, <2>2, <2>3, <2>4
<1>2. PICK u : Partial(text, u)
  BY <1>1, NumberIsPartial
<1>3. count <= Words
  <2>1. ~(Words < count)
    <3>1. ~(Words * S < N) /\ Words \in Nat
      <4>1. Words * S \in Int
        BY <1>1
      <4> QED BY <1>1, <4>1
    <3> QED BY <1>1, <3>1
  <2> QED BY <1>1, <2>1
<1>4. bad = {}
  BY <1>2, WordsOfText
<1>5. /\ output \in Seq(Nat) /\ Len(output) = Words
      /\ DOMAIN output = 1..Words
  <2>1. Words \in Nat
    BY <1>1
  <2> QED BY <2>1
<1>6. out = [i \in 1..Words |-> IF i \in 1..count THEN Word(Segment(text, i))
                                ELSE 0]
  <2>1. {i \in 1..count : \A j \in bad : i < j} = 1..count
    BY <1>4
  <2>2. ~(count > Len(output))
    BY <1>1, <1>3, <1>5
  <2>3. out = [i \in DOMAIN output |->
                 IF i \in {k \in 1..count : \A j \in bad : k < j}
                 THEN Word(Segment(text, i))
                 ELSE IF bad = {} THEN 0 ELSE output[i]]
    BY <2>2 DEF FromChars
  <2> HIDE DEF bad, count, out
  <2> QED BY <1>4, <1>5, <2>1, <2>3
<1> HIDE DEF out, bad
<1>7. ASSUME NEW i \in 1..Words
      PROVE  /\ out[i] \in Nat
             /\ u[Rest(text, i - 1)] = u[Rest(text, i)] * WordRange + out[i]
  <2>1. CASE i \in 1..count
    BY <1>2, <1>6, <2>1, WordsOfText
  <2>2. CASE i \notin 1..count
    <3>1. out[i] = 0
      BY <1>6, <2>2
    <3>2. i \in Nat /\ i - 1 \in Nat /\ ~(i < count) /\ ~(i - 1 < count)
      <4>1. count \in Nat /\ Words \in Nat
        BY <1>1
      <4> HIDE DEF count
      <4> QED BY <2>2, <4>1
    <3>3. ~(i * S < N) /\ ~((i - 1) * S < N)
      BY <1>1, <3>2
    <3>4. Rest(text, i) = 0 /\ Rest(text, i - 1) = 0
      BY <3>3 DEF Rest
    <3>5. u[0] = 0 /\ WordRange \in Nat
      <4>1. \A p : Powers(p) => WordRange \in Nat
        BY CharConvFacts DEF Powers
      <4> QED BY <1>2, <4>1, WordRangeIsAPower DEF Partial, Sums
    <3> QED BY <3>1, <3>4, <3>5
  <2> QED BY <2>1, <2>2
<1>8. out \in Seq(Nat) /\ Len(out) = Words
  <2>1. out \in [1..Words -> Nat]
    BY <1>6, <1>7
  <2>2. Words \in Nat
    BY <1>1
  <2> QED BY <2>1, <2>2
<1>9. PICK w : PartialWorth(out, w)
  BY <1>8, WorthIsPartial
<1>10. /\ w[0] = 0 /\ Worth(out) = w[Words]
       /\ \A k \in 1..Words :
             w[k] = w[k - 1] * WordRange + out[Words - k + 1]
  BY <1>8, <1>9 DEF PartialWorth
<1> DEFINE I == {k \in Nat : k <= Words => w[k] = u[Rest(text, Words - k)]}
<1>11. 0 \in I
  <2>1. Rest(text, Words) = 0
    <3>1. ~(Words < count) /\ Words \in Nat
      BY <1>1, <1>3
    <3>2. ~(Words * S < N)
      BY <1>1, <3>1
    <3> QED BY <3>2 DEF Rest
  <2>2. Words - 0 = Words /\ u[0] = 0
    BY <1>1, <1>2 DEF Partial, Sums
  <2> QED BY <1>10, <2>1, <2>2
<1>12. ASSUME NEW k \in Nat, k \in I PROVE k + 1 \in I
  <2> SUFFICES ASSUME k + 1 <= Words
               PROVE  w[k + 1] = u[Rest(text, Words - (k + 1))]
    OBVIOUS
  <2>1. w[k] = u[Rest(text, Words - k)]
    BY <1>1, <1>12
  <2>2. PICK i \in 1..Words : i = Words - k
    BY <1>1
  <2>3. i - 1 = Words - (k + 1) /\ k + 1 \in 1..Words
    BY <1>1, <2>2
  <2>4. w[k + 1] = w[k] * WordRange + out[i]
    <3>1. \A j, h, g \in Int : j \in 1..Words /\ h = j - 1 /\ g = Words - j + 1
                                  => w[j] = w[h] * WordRange + out[g]
      BY <1>10
    <3>2. k = k + 1 - 1 /\ i = Words - (k + 1) + 1
      BY <1>1, <2>2
    <3> QED BY <2>3, <3>1, <3>2
  <2>5. u[Rest(text, i - 1)] = u[Rest(text, i)] * WordRange + out[i]
    BY <1>7
  <2> QED BY <2>1, <2>2, <2>3, <2>4, <2>5
<1> HIDE DEF I
<1>13. Nat \subseteq I
  BY <1>11, <1>12, SetInduction
<1>14. w[Words] = u[Rest(text, 0)]
  <2>1. Words \in I /\ Words - Words = 0
    BY <1>1, <1>13
  <2> QED BY <1>1, <2>1 DEF I
<1>15. Rest(text, 0) = N
  <2>1. 0 * S = 0
    BY <1>1
  <2> QED BY <1>1, <2>1 DEF Rest
<1> QED BY <1>2, <1>10, <1>14, <1>15 DEF Partial, out

\* What the property asks of a text.
Clean(text) ==
    /\ Len(text) <= Words * SegmentSize
    /\ \A k \in DOMAIN text : text[k] \in Digits

LEMMA CleanTexts ==
    ASSUME NEW output \in Rubbish, NEW text \in Seq(Nat), Clean(text)
    PROVE  Worth(FromChars(output, text)) = Number(text)
<1>1. text \in Seq(Digits) /\ Len(text) <= Words * SegmentSize
  <2> HIDE DEF Digits
  <2>1. DOMAIN text = 1..Len(text)
    OBVIOUS
  <2> QED BY <2>1 DEF Clean
<1>2. output \in [1..Words -> Nat]
  BY BoardAssumption
<1> QED BY <1>1, <1>2, ReadDigits

\* From the globals on, the key is one that was accepted.
KeyInv ==
    /\ config \in Configs /\ step \in 1..30
    /\ step > 16 => key \in Keys[config] \ {NoKey}

LEMMA KeyPlaces == BootSteps[16] = "globals" /\ BootSteps[30] = "tasks"
BY DEF BootSteps

LEMMA KeyMake ==
    ASSUME KeyInv, NEW name, name # "globals", At(name), GoOn,
           UNCHANGED <<config, key>>, name # "tasks"
    PROVE  KeyInv'
<1>2. step # 16 /\ step # 30
  BY KeyPlaces DEF At
<1>3. step' \in 1..30 /\ (step' > 16 => step > 16)
  BY <1>2 DEF KeyInv, GoOn
<1> HIDE DEF GoOn
<1> QED BY <1>3 DEF KeyInv

LEMMA KeyReborn == ASSUME KeyInv, Reborn PROVE KeyInv'
BY DEF KeyInv, Reborn

LEMMA KeyKept == ASSUME KeyInv, UNCHANGED <<config, step, key>> PROVE KeyInv'
BY DEF KeyInv

LEMMA KeyBoot == ASSUME KeyInv, Boot PROVE KeyInv'
<1>1. ~Running
  BY DEF Boot
<1>2. CASE \E name : Fails(name)
  BY <1>2, KeyReborn DEF Fails, Error_Handler, HaltAndCatchFire,
                         NVIC_SystemReset
<1>3. CASE \E name : MallocFailedHook(name)
  BY <1>3, KeyReborn DEF MallocFailedHook, HaltAndCatchFire, NVIC_SystemReset
<1>4. CASE \E name, things, callsRTOS :
              name # "globals" /\ Make(name, things, callsRTOS)
  BY <1>1, <1>4, KeyMake DEF Make, Running
<1>5. CASE InitGlobals
  <2>1. CASE At("globals") /\ Error_Handler
    BY <2>1, KeyReborn DEF Error_Handler, HaltAndCatchFire, NVIC_SystemReset
  <2>2. CASE /\ At("globals") /\ key' \in Keys[config] \ {NoKey} /\ GoOn
             /\ UNCHANGED config
    <3>1. step \in 1..29 /\ step' = step + 1
      <4>1. step # 30
        BY <2>2, KeyPlaces DEF At
      <4> QED BY <2>2, <4>1 DEF KeyInv, GoOn
    <3> QED BY <2>2, <3>1 DEF KeyInv
  <2> QED BY <1>2, <1>5, <2>1, <2>2 DEF InitGlobals
<1>6. CASE CreateTasks
  <2>1. CASE \E name \in {"watchdog", "shell", "can", "forger", "coordinator",
                          "gps", "gsm tx", "timer", "nextion"} :
                Make(name, {name}, TRUE)
    BY <1>4, <2>1
  <2>2. CASE \E name \in {"gps rx", "gsm rx"} : Make(name, {name}, FALSE)
    BY <1>4, <2>2
  <2>3. CASE Make("main", {"main", "gyro"}, TRUE)
    BY <1>4, <2>3
  <2> QED BY <1>3, <1>6, <2>1, <2>2, <2>3 DEF CreateTasks, Create,
                                              CreateOnHeap, BeginRx
<1>7. CASE StartScheduler
  BY <1>1, <1>7, KeyMake DEF StartScheduler, Running
<1>8. CASE \/ Make("constructors", {}, TRUE) \/ Make("gpio", {"EXTI0"}, FALSE)
           \/ Make("dma", {"dma"}, FALSE) \/ Make("default", {"default"}, TRUE)
  BY <1>4, <1>8
<1>9. CASE \E name \in {"clock", "i2c1", "i2s3", "spi1", "crc", "rng", "tim2",
                        "can1"} :
              Make(name, {}, FALSE)
  BY <1>4, <1>9
<1>10. CASE \E name \in {"usart2", "usart3", "usart6"} :
               Make(name, Streams(name), FALSE)
  BY <1>4, <1>10
<1> QED
  BY <1>2, <1>3, <1>5, <1>6, <1>7, <1>8, <1>9, <1>10
  DEF Boot, Device, MainModule, SystemClock_Config, MX_GPIO_Init,
      MX_I2C1_Init, MX_I2S3_Init, MX_SPI1_Init, MX_CRC_Init, MX_RNG_Init,
      MX_DMA_Init, MX_USART2_UART_Init, MX_USART3_UART_Init, MX_TIM2_Init,
      MX_CAN1_Init, MX_USART6_UART_Init, DefaultTask

LEMMA KeyStep == ASSUME KeyInv, [Next]_vars PROVE KeyInv'
<1>1. CASE MX_USB_DEVICE_Init \/ Report
  BY <1>1, KeyKept DEF MX_USB_DEVICE_Init, Report
<1>2. CASE GyroTask
  <2>1. CASE Terminate
    BY <2>1, KeyReborn DEF Terminate, HaltAndCatchFire, NVIC_SystemReset
  <2> QED BY <1>2, <2>1, KeyKept
          DEF GyroTask, GyroReboot, GyroWait, GyroWhoami, GyroConfigure,
              GyroSample, Gyro, vars, life
<1>3. CASE PinReset \/ RestartCommand \/ PowerLoss
  BY <1>3, KeyReborn DEF PinReset, RestartCommand, PowerLoss,
                         NVIC_SystemReset
<1>4. CASE UNCHANGED <<config, life>>
  BY <1>4, KeyKept DEF life
<1> QED BY <1>1, <1>2, <1>3, <1>4, KeyBoot DEF Next, While, vars

\* A key that was accepted is that of the texts that are clean.
LEMMA AcceptedKeys == ASSUME KeyInv PROVE KeyIsTheConfigured
<1> SUFFICES ASSUME Running
             PROVE  /\ Clean(config.sk) => Worth(key) = Number(config.sk)
                    /\ <<>> \notin {config.pkx, config.pky} =>
                          \A text \in {config.pkx, config.pky} :
                             Clean(text) => Worth(key) = Number(text)
  BY DEF KeyIsTheConfigured, Clean
<1>1. step > 16
  <2>1. step \in 1..30 /\ \A i \in 1..29 : BootSteps[i] # "tasks"
    BY Places DEF KeyInv
  <2>2. ~(step \in 1..29)
    BY <2>1 DEF Running, At
  <2> QED BY <2>1, <2>2
<1>2. key \in Keys[config] /\ key # NoKey /\ config \in Configs
  BY <1>1 DEF KeyInv
<1>3. PICK sk \in Rubbish, x \in Rubbish, y \in Rubbish :
         key = KeyFrom(config, sk, x, y)
  BY <1>2 DEF Keys
<1>4. /\ key = FromChars(sk, config.sk)
      /\ \/ <<>> \in {config.pkx, config.pky}
         \/ FromChars(x, config.pkx) = key /\ FromChars(y, config.pky) = key
  BY <1>2, <1>3 DEF KeyFrom
<1>5. {config.sk, config.pkx, config.pky} \subseteq Seq(Nat)
  BY <1>2, BoardAssumption
<1> QED BY <1>4, <1>5, CleanTexts

\* The tasks run with the key of the configuration.
THEOREM KeyComesFromConfig == Spec => []KeyIsTheConfigured
<1>1. Init => KeyInv
  BY DEF Init, KeyInv
<1> QED BY <1>1, KeyStep, AcceptedKeys, PTL DEF Spec

=============================================================================
