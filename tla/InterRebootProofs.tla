------------------------- MODULE InterRebootProofs -------------------------
(***************************************************************************)
(* Proofs about InterReboot, for names of any length, any fires and any    *)
(* number of resets and power losses.                                      *)
(***************************************************************************)
EXTENDS InterReboot, TLAPS

USE RebootAssumption

-----------------------------------------------------------------------------
(* The invariant.                                                          *)

\* The CRC the record has, or will have again when self_check is done.
Crc == IF pc = "sum" THEN old ELSE record.crc

\* self_check has cleared the CRC, and has returned that of the record as it
\* is.
CheckInv ==
    /\ pc = "sum" => record.crc = Zero
    /\ pc \in {"compare", "seal"} => sum = Contents(record)

\* Who runs has got where it can, with the arguments it was called with.
\* The watchdog's own name fits, so that it cannot fault.
RunnerInv ==
    /\ burning => /\ arg \in Fires
                  /\ pc \in {"status", "size", "name", "fault", "clear",
                             "sum", "seal"}
                  /\ pc = "sum" => then = "seal"
    /\ ~burning /\ pc \in {"status", "size", "name"} => arg = NoFire
    /\ pc = "fault" => burning

\* What catched_fire has measured: one character more than there is room for.
Measured(f) == IF Len(f.who) <= NameLen + 1 THEN Len(f.who) ELSE NameLen + 1

\* After the store of the status.
Cleaning ==
    \/ pc \in {"clear", "seal", "running"}
    \/ pc = "sum" /\ then = "seal"

\* How far catched_fire has come with the record.
StoresInv ==
    /\ pc \in {"size", "name"} => record.status = arg.status
    /\ pc = "name" =>
          /\ i \in 1..(NameLen + 1)
          /\ record.size = Measured(arg)
          /\ \A k \in 1..NameLen :
                k < i => record.name[k] = IF k <= record.size THEN arg.who[k]
                                                              ELSE "nul"
    /\ pc \in {"clear", "sum", "seal"} /\ burning =>
          TellsOf(Contents(record), Expected(arg))
    /\ ~burning /\ Cleaning => record.status = 0

\* The CRC of a fire is that of the last fire.
CrcInv == Crc \in {Zero, Junk} \/ Crc.status = 0 \/ TellsOf(Crc, pending)

\* Before the report.
Checking ==
    \/ pc \in {"boot", "compare"}
    \/ pc = "sum" /\ then = "compare"

\* A fire that is due has been written and then reported.
DueInv ==
    ~burning /\ due # Nothing =>
        IF Checking
        THEN /\ Crc = Contents(record)
             /\ record.status # 0
             /\ TellsOf(Contents(record), due)
        ELSE TellsOf(reported, due)

RecordInv ==
    /\ TypeOK
    /\ CheckInv
    /\ RunnerInv
    /\ StoresInv
    /\ CrcInv
    /\ DueInv
    /\ ReportIsTrue
    /\ RunningIsClean
-----------------------------------------------------------------------------
(* Records and what reports are made of.                                   *)

Records == [status : Nat, name : [1..NameLen -> Letters], size : Nat,
            crc : Sums]

\* The contents of a record have the type of a report.
LEMMA ContentsType ==
    ASSUME NEW r \in Records PROVE Contents(r) \in Reports
BY DEF Records, Reports, Contents

\* So has what a fire should lead to.
LEMMA ExpectedType ==
    ASSUME NEW f, f.status \in Nat, f.who \in Seq(Char)
    PROVE  Expected(f) \in Reports
<1>1. Len(f.who) \in Nat /\ \A k \in 1..Len(f.who) : f.who[k] \in Letters
  BY DEF Letters
<1> DEFINE n == IF Len(f.who) < NameLen THEN Len(f.who) ELSE NameLen
<1>2. n \in Nat /\ n <= Len(f.who)
  BY <1>1
<1> DEFINE name == [k \in 1..NameLen |-> IF k <= n THEN f.who[k] ELSE "nul"]
<1>3. name \in [1..NameLen -> Letters]
  <2>1. \A k \in 1..NameLen : (IF k <= n THEN f.who[k] ELSE "nul") \in Letters
    <3> SUFFICES ASSUME NEW k \in 1..NameLen
                 PROVE  (IF k <= n THEN f.who[k] ELSE "nul") \in Letters
      OBVIOUS
    <3>1. CASE k <= n
      BY <1>1, <1>2, <3>1
    <3>2. CASE ~(k <= n)
      BY <3>2 DEF Letters
    <3> QED BY <3>1, <3>2
  <2> QED BY <2>1
<1> HIDE DEF name
<1>4. [status |-> f.status, size |-> n, name |-> name] \in Reports
  BY <1>2, <1>3 DEF Reports
<1> QED BY <1>4 DEF Expected, name

\* The arguments of every fire, and of the watchdog.
LEMMA ArgumentsType ==
    /\ \A f \in Fires : f.status \in Nat \ {0} /\ f.who \in Seq(Char)
    /\ NoFire.status = 0 /\ NoFire.who \in Seq(Char)
    /\ HardFault \in Fires
OBVIOUS

\* The value that stands for no report has the type of one.
LEMMA NothingType == Nothing \in Reports
<1>1. <<>> \in Seq(Char)
  OBVIOUS
<1> QED BY <1>1, ExpectedType DEF Nothing

\* What a power loss leaves has the type of a record.
LEMMA JunkType == JunkRecord \in Records
BY DEF JunkRecord, Records, Sums, Letters, Junk

\* The CRC of a record is neither a cleared one nor that of a power loss.
LEMMA ContentsAreNoCode ==
    ASSUME NEW r \in Reports PROVE r # Zero /\ r # Junk
<1>1. "status" \in DOMAIN r
  BY DEF Reports
<1>2. DOMAIN Zero = {"crc"} /\ DOMAIN Junk = {"crc"}
  BY DEF Zero, Junk
<1> QED BY <1>1, <1>2

\* Each store leaves a record.
LEMMA StoreTypes ==
    ASSUME NEW r \in Records
    PROVE  /\ \A v \in Sums : [r EXCEPT !.crc = v] \in Records
           /\ \A v \in Nat : [r EXCEPT !.status = v] \in Records
           /\ \A v \in Nat : [r EXCEPT !.size = v] \in Records
           /\ \A k \in 1..NameLen, v \in Letters :
                 [r EXCEPT !.name[k] = v] \in Records
BY DEF Records

\* Storing a CRC leaves the contents alone.
LEMMA CrcStore ==
    ASSUME NEW r \in Records, NEW v
    PROVE  /\ Contents([r EXCEPT !.crc = v]) = Contents(r)
           /\ [r EXCEPT !.crc = v].crc = v
           /\ [r EXCEPT !.crc = v].status = r.status
           /\ [r EXCEPT !.crc = v].size = r.size
           /\ [r EXCEPT !.crc = v].name = r.name
BY DEF Records, Contents

\* The name of the watchdog's "no fire" fits.
LEMMA NoFireFits == Measured(NoFire) <= NameLen
<1>1. Len(NoFire.who) \in Nat
  OBVIOUS
<1> QED BY <1>1 DEF Measured

\* A call has a status and a name.
LEMMA CallFacts ==
    ASSUME NEW f \in Fires \cup {NoFire}
    PROVE  /\ f.status \in Nat
           /\ f.who \in Seq(Char)
           /\ Len(f.who) \in Nat
           /\ \A k \in 1..Len(f.who) : f.who[k] \in Letters
           /\ Measured(f) \in 0..(NameLen + 1)
           /\ Measured(f) <= Len(f.who)
           /\ Expected(f) \in Reports
           /\ Expected(f).status = f.status
<1>1. f.status \in Nat /\ f.who \in Seq(Char)
  BY ArgumentsType
<1>2. Len(f.who) \in Nat /\ \A k \in 1..Len(f.who) : f.who[k] \in Letters
  BY <1>1 DEF Letters
<1>3. Measured(f) \in 0..(NameLen + 1) /\ Measured(f) <= Len(f.who)
  BY <1>2 DEF Measured
<1>4. Expected(f).status = f.status
  BY DEF Expected
<1> QED BY <1>1, <1>2, <1>3, <1>4, ExpectedType

\* What the type invariant says of the record and of what self_check keeps.
LEMMA TypeFacts ==
    ASSUME TypeOK
    PROVE  /\ record \in Records
           /\ old \in Sums /\ sum \in Sums /\ then \in {"compare", "seal"}
           /\ arg \in Fires \cup {NoFire}
           /\ Contents(record) \in Reports
           /\ Contents(record).status = record.status
           /\ Contents(record).size = record.size
<1>1. record \in Records
  BY DEF TypeOK, Records
<1> QED BY <1>1, ContentsType DEF TypeOK, Contents

-----------------------------------------------------------------------------
(* The invariant holds at first and is kept by every step.                 *)

\* A board that has lost power knows of no fire.
LEMMA RecordInit == Init => RecordInv
<1> SUFFICES ASSUME Init PROVE RecordInv
  OBVIOUS
<1> USE DEF Init
<1>1. TypeOK
  <2>1. record \in Records
    BY JunkType
  <2>2. 0 \in 0..(NameLen + 2) /\ 0 \in 0..MaxResets
    OBVIOUS
  <2>3. arg \in Fires \cup {NoFire} /\ Zero \in Sums
    BY DEF Sums
  <2> QED BY <2>1, <2>2, <2>3, NothingType DEF TypeOK, Records
<1>2. CheckInv /\ RunnerInv /\ StoresInv /\ DueInv
  BY DEF CheckInv, RunnerInv, StoresInv, Cleaning, DueInv
<1>3. CrcInv
  BY DEF CrcInv, Crc, JunkRecord
<1>4. ReportIsTrue /\ RunningIsClean
  BY DEF ReportIsTrue, RunningIsClean
<1> QED BY <1>1, <1>2, <1>3, <1>4 DEF RecordInv

\* Every store, report, fire and reset keeps the invariant.
LEMMA RecordStep == RecordInv /\ [Next]_vars => RecordInv'
<1> SUFFICES ASSUME RecordInv, [Next]_vars PROVE RecordInv'
  OBVIOUS
<1> USE DEF RecordInv, calls, check, history
<1>1. CASE StartCheck
  <2> USE <1>1 DEF StartCheck, ClearCrc
  <2>1. TypeOK'
    BY DEF TypeOK, Sums
  <2>2. CheckInv'
    BY DEF CheckInv, Contents
  <2>3. RunnerInv'
    BY DEF RunnerInv
  <2>4. StoresInv'
    BY DEF StoresInv, Cleaning, RunnerInv
  <2>5. CrcInv'
    BY DEF CrcInv, Crc
  <2>6. DueInv'
    <3>1. Contents(record') = Contents(record) /\ record'.status = record.status
      BY TypeFacts, CrcStore
    <3>2. Crc' = Crc
      BY DEF Crc
    <3>3. Checking
      BY DEF Checking
    <3> QED BY <3>1, <3>2, <3>3 DEF DueInv, Checking
  <2>7. ReportIsTrue'
    BY DEF ReportIsTrue
  <2>8. RunningIsClean'
    BY DEF RunningIsClean, Valid, Contents
  <2> QED BY <2>1, <2>2, <2>3, <2>4, <2>5, <2>6, <2>7, <2>8
<1>2. CASE RestoreCrc
  <2> USE <1>2 DEF RestoreCrc
  <2>1. TypeOK'
    <3>1. record' \in Records
      BY TypeFacts, StoreTypes
    <3>2. sum' \in Sums
      BY TypeFacts DEF Sums
    <3> QED BY <3>1, <3>2 DEF TypeOK, Records
  <2>2. CheckInv'
    BY DEF CheckInv, Contents, TypeOK
  <2>3. RunnerInv'
    BY DEF RunnerInv, TypeOK
  <2>4. StoresInv'
    <3>1. Contents(record') = Contents(record) /\ record'.status = record.status
      BY TypeFacts, CrcStore
    <3>2. then \in {"compare", "seal"}
      BY TypeFacts
    <3> QED BY <3>1, <3>2 DEF StoresInv, Cleaning, RunnerInv
  <2>5. CrcInv'
    BY DEF CrcInv, Crc
  <2>6. DueInv'
    <3>1. Contents(record') = Contents(record) /\ record'.status = record.status
      BY TypeFacts, CrcStore
    <3>2. Crc' = Crc
      BY TypeFacts, CrcStore DEF Crc
    <3>3. Checking <=> Checking'
      BY TypeFacts DEF Checking
    <3> QED BY <3>1, <3>2, <3>3 DEF DueInv
  <2>7. ReportIsTrue'
    BY DEF ReportIsTrue
  <2>8. RunningIsClean'
    BY DEF RunningIsClean, Valid, Contents, TypeOK
  <2> QED BY <2>1, <2>2, <2>3, <2>4, <2>5, <2>6, <2>7, <2>8
<1>3. CASE Compare
  <2> USE <1>3 DEF Compare
  <2>1. TypeOK'
    <3>1. reported' \in Reports
      BY TypeFacts DEF TypeOK, Report
    <3>2. arg' \in Fires \cup {NoFire}
      BY DEF TypeOK
    <3> QED BY <3>1, <3>2 DEF TypeOK
  <2>2. CheckInv'
    BY DEF CheckInv, Contents
  <2>3. RunnerInv'
    BY DEF RunnerInv
  <2>4. StoresInv'
    BY DEF StoresInv, Cleaning
  <2>5. CrcInv'
    BY DEF CrcInv, Crc
  <2>6. DueInv'
    <3> SUFFICES ASSUME ~burning', due' # Nothing
                 PROVE  DueInv'
      BY DEF DueInv
    <3>1. Checking /\ ~Checking'
      BY DEF Checking
    <3>2. /\ Crc = Contents(record)
          /\ record.status # 0
          /\ TellsOf(Contents(record), due)
      BY <3>1 DEF DueInv
    <3>3. sum = record.crc
      BY <3>2 DEF CheckInv, Crc
    <3>4. reported' = Contents(record)
      BY <3>2, <3>3 DEF Report
    <3> QED BY <3>1, <3>2, <3>4 DEF DueInv
  <2>7. ReportIsTrue'
    <3>1. CASE sum = record.crc /\ record.status # 0
      <4>1. Crc = Contents(record) /\ reported' = Contents(record)
        BY <3>1 DEF CheckInv, Crc, Report
      <4>2. TellsOf(Crc, pending)
        BY <3>1, <4>1, TypeFacts, ContentsAreNoCode DEF CrcInv
      <4> QED BY <4>1, <4>2 DEF ReportIsTrue
    <3>2. CASE ~(sum = record.crc /\ record.status # 0)
      BY <3>2 DEF ReportIsTrue
    <3> QED BY <3>1, <3>2
  <2>8. RunningIsClean'
    BY DEF RunningIsClean, Valid, Contents
  <2> QED BY <2>1, <2>2, <2>3, <2>4, <2>5, <2>6, <2>7, <2>8
<1>4. CASE Initialise
  <2> USE <1>4 DEF Initialise
  <2>1. TypeOK'
    BY DEF TypeOK
  <2>2. CheckInv'
    BY DEF CheckInv, Contents
  <2>3. RunnerInv'
    BY DEF RunnerInv
  <2>4. StoresInv'
    BY DEF StoresInv, Cleaning, RunnerInv
  <2>5. CrcInv'
    BY DEF CrcInv, Crc
  <2>6. DueInv'
    BY DEF DueInv, Checking, Crc
  <2>7. ReportIsTrue'
    BY DEF ReportIsTrue
  <2>8. RunningIsClean'
    BY DEF RunningIsClean, Valid, Contents
  <2> QED BY <2>1, <2>2, <2>3, <2>4, <2>5, <2>6, <2>7, <2>8
<1>5. CASE StoreStatus
  <2> USE <1>5 DEF StoreStatus
  <2>1. TypeOK'
    <3>1. record' \in Records
      BY TypeFacts, CallFacts, StoreTypes
    <3> QED BY <3>1 DEF TypeOK, Records
  <2>2. CheckInv'
    BY DEF CheckInv, Contents
  <2>3. RunnerInv'
    BY DEF RunnerInv
  <2>4. StoresInv'
    BY DEF StoresInv, Cleaning
  <2>5. CrcInv'
    BY DEF CrcInv, Crc
  <2>6. DueInv'
    BY DEF DueInv, Checking, Crc
  <2>7. ReportIsTrue'
    BY DEF ReportIsTrue
  <2>8. RunningIsClean'
    BY DEF RunningIsClean, Valid, Contents
  <2> QED BY <2>1, <2>2, <2>3, <2>4, <2>5, <2>6, <2>7, <2>8
<1>6. CASE StoreSize
  <2> USE <1>6 DEF StoreSize
  <2>1. TypeOK'
    <3>1. record' \in Records
      BY TypeFacts, CallFacts, StoreTypes DEF Measured
    <3>2. i' \in 0..(NameLen + 2)
      OBVIOUS
    <3> QED BY <3>1, <3>2 DEF TypeOK, Records
  <2>2. CheckInv'
    BY DEF CheckInv, Contents
  <2>3. RunnerInv'
    BY DEF RunnerInv
  <2>4. StoresInv'
    <3>1. record'.size = Measured(arg) /\ record'.status = record.status
      BY TypeFacts DEF Measured, Records
    <3>2. i' = 1 /\ \A k \in 1..NameLen : ~(k < i')
      OBVIOUS
    <3> QED BY <3>1, <3>2 DEF StoresInv, Cleaning, Measured
  <2>5. CrcInv'
    BY DEF CrcInv, Crc
  <2>6. DueInv'
    BY DEF DueInv, Checking, Crc
  <2>7. ReportIsTrue'
    BY DEF ReportIsTrue
  <2>8. RunningIsClean'
    BY DEF RunningIsClean, Valid, Contents
  <2> QED BY <2>1, <2>2, <2>3, <2>4, <2>5, <2>6, <2>7, <2>8
<1>7. CASE StoreName
  <2> USE <1>7 DEF StoreName
  <2>1. TypeOK'
    <3>1. i \in 1..NameLen /\ record.size = Measured(arg)
      BY DEF StoresInv
    <3>2. (IF i <= record.size THEN arg.who[i] ELSE "nul") \in Letters
      <4>1. CASE i <= record.size
        BY <3>1, <4>1, TypeFacts, CallFacts
      <4>2. CASE ~(i <= record.size)
        BY <4>2 DEF Letters
      <4> QED BY <4>1, <4>2
    <3>3. record' \in Records
      BY <3>1, <3>2, TypeFacts, StoreTypes
    <3>4. i' \in 0..(NameLen + 2)
      BY <3>1
    <3> QED BY <3>3, <3>4 DEF TypeOK, Records
  <2>2. CheckInv'
    BY DEF CheckInv, Contents
  <2>3. RunnerInv'
    BY DEF RunnerInv
  <2>4. StoresInv'
    <3>1. i \in 1..NameLen /\ i' = i + 1
      BY DEF StoresInv
    <3>2. record'.size = record.size /\ record'.status = record.status
      BY TypeFacts DEF Records
    <3>3. ASSUME NEW k \in 1..NameLen, k < i'
          PROVE  record'.name[k] = IF k <= record.size THEN arg.who[k]
                                                       ELSE "nul"
      <4>1. CASE k = i
        BY <4>1, TypeFacts DEF Records
      <4>2. CASE k # i
        <5>1. record'.name[k] = record.name[k]
          BY <4>2, TypeFacts DEF Records
        <5>2. k < i
          BY <3>1, <3>3, <4>2
        <5> QED BY <5>1, <5>2 DEF StoresInv
      <4> QED BY <4>1, <4>2
    <3>4. i' \in 1..(NameLen + 1) /\ pc' = "name"
      BY <3>1
    <3> QED BY <3>2, <3>3, <3>4 DEF StoresInv, Cleaning, Measured
  <2>5. CrcInv'
    BY DEF CrcInv, Crc
  <2>6. DueInv'
    BY DEF DueInv, Checking, Crc
  <2>7. ReportIsTrue'
    BY DEF ReportIsTrue
  <2>8. RunningIsClean'
    BY DEF RunningIsClean, Valid, Contents
  <2> QED BY <2>1, <2>2, <2>3, <2>4, <2>5, <2>6, <2>7, <2>8
<1>8. CASE StorePastName
  <2> USE <1>8 DEF StorePastName
  <2>1. TypeOK'
    <3>1. NameLen + 2 \in Nat /\ i' \in 0..(NameLen + 2)
      OBVIOUS
    <3>2. record' \in Records
      BY <3>1, TypeFacts, StoreTypes
    <3> QED BY <3>1, <3>2 DEF TypeOK, Records
  <2>2. CheckInv'
    BY DEF CheckInv, Contents
  <2>3. RunnerInv'
    <3>1. burning
      BY NoFireFits, TypeFacts, CallFacts DEF StoresInv, RunnerInv
    <3> QED BY <3>1 DEF RunnerInv
  <2>4. StoresInv'
    <3>1. burning
      BY NoFireFits, TypeFacts, CallFacts DEF StoresInv, RunnerInv
    <3>2. record'.size = NameLen + 2 /\ record'.status = arg.status
      BY TypeFacts DEF Records, StoresInv
    <3>3. TellsOf(Contents(record'), Expected(arg))
      BY <3>2, TypeFacts, CallFacts DEF TellsOf, Contents
    <3> QED BY <3>1, <3>3 DEF StoresInv, Cleaning
  <2>5. CrcInv'
    BY DEF CrcInv, Crc
  <2>6. DueInv'
    BY DEF DueInv, Checking, Crc
  <2>7. ReportIsTrue'
    BY DEF ReportIsTrue
  <2>8. RunningIsClean'
    BY DEF RunningIsClean, Valid, Contents
  <2> QED BY <2>1, <2>2, <2>3, <2>4, <2>5, <2>6, <2>7, <2>8
<1>9. CASE FaultInFire
  <2> USE <1>9 DEF FaultInFire
  <2>1. TypeOK'
    BY DEF TypeOK
  <2>2. CheckInv'
    BY DEF CheckInv, Contents
  <2>3. RunnerInv'
    BY DEF RunnerInv
  <2>4. StoresInv'
    BY DEF StoresInv, Cleaning
  <2>5. CrcInv'
    BY DEF CrcInv, Crc
  <2>6. DueInv'
    BY DEF DueInv, Checking, Crc
  <2>7. ReportIsTrue'
    BY DEF ReportIsTrue
  <2>8. RunningIsClean'
    BY DEF RunningIsClean, Valid, Contents
  <2> QED BY <2>1, <2>2, <2>3, <2>4, <2>5, <2>6, <2>7, <2>8
<1>10. CASE NameStored
  <2> USE <1>10 DEF NameStored
  <2>1. TypeOK'
    BY DEF TypeOK
  <2>2. CheckInv'
    BY DEF CheckInv, Contents
  <2>3. RunnerInv'
    BY DEF RunnerInv
  <2>4. StoresInv'
    <3>1. record.status = arg.status /\ record.size = Measured(arg)
      BY DEF StoresInv
    <3>2. ~burning => record.status = 0
      BY <3>1, ArgumentsType DEF RunnerInv
    <3>3. Contents(record) = Expected(arg)
      <4> DEFINE n == IF Len(arg.who) < NameLen THEN Len(arg.who) ELSE NameLen
      <4>1. record.size = n
        BY <3>1, TypeFacts, CallFacts DEF Measured
      <4>2. \A k \in 1..NameLen :
               record.name[k] = IF k <= n THEN arg.who[k] ELSE "nul"
        BY <4>1 DEF StoresInv
      <4>3. record.name = [k \in 1..NameLen |-> IF k <= n THEN arg.who[k]
                                                          ELSE "nul"]
        BY <4>2, TypeFacts DEF Records
      <4> QED BY <3>1, <4>1, <4>3 DEF Contents, Expected
    <3>4. TellsOf(Contents(record), Expected(arg))
      BY <3>3 DEF TellsOf
    <3> QED BY <3>2, <3>4 DEF StoresInv, Cleaning
  <2>5. CrcInv'
    BY DEF CrcInv, Crc
  <2>6. DueInv'
    BY DEF DueInv, Checking, Crc
  <2>7. ReportIsTrue'
    BY DEF ReportIsTrue
  <2>8. RunningIsClean'
    BY DEF RunningIsClean, Valid, Contents
  <2> QED BY <2>1, <2>2, <2>3, <2>4, <2>5, <2>6, <2>7, <2>8
<1>11. CASE SumUp
  <2> USE <1>11 DEF SumUp, ClearCrc
  <2>1. TypeOK'
    BY DEF TypeOK, Sums
  <2>2. CheckInv'
    BY DEF CheckInv, Contents
  <2>3. RunnerInv'
    BY DEF RunnerInv
  <2>4. StoresInv'
    <3>1. Contents(record') = Contents(record) /\ record'.status = record.status
      BY TypeFacts, CrcStore
    <3> QED BY <3>1 DEF StoresInv, Cleaning
  <2>5. CrcInv'
    BY DEF CrcInv, Crc
  <2>6. DueInv'
    BY DEF DueInv, Checking, Crc
  <2>7. ReportIsTrue'
    BY DEF ReportIsTrue
  <2>8. RunningIsClean'
    BY DEF RunningIsClean, Valid, Contents
  <2> QED BY <2>1, <2>2, <2>3, <2>4, <2>5, <2>6, <2>7, <2>8
<1>12. CASE Seal
  <2> USE <1>12 DEF Seal
  <2>1. TypeOK'
    <3>1. record' \in Records
      BY TypeFacts, StoreTypes
    <3>2. /\ reported' \in Reports /\ pending' \in Reports
          /\ due' \in Reports
      BY TypeFacts, CallFacts, NothingType DEF TypeOK
    <3> QED BY <3>1, <3>2 DEF TypeOK, Records
  <2>2. CheckInv'
    BY DEF CheckInv, Contents
  <2>3. RunnerInv'
    BY DEF RunnerInv
  <2>4. StoresInv'
    BY DEF StoresInv, Cleaning
  <2>5. CrcInv'
    <3>1. Contents(record') = Contents(record) /\ record'.status = record.status
      BY TypeFacts, CrcStore
    <3>2. Crc' = Contents(record)
      BY TypeFacts, CrcStore DEF Crc, CheckInv
    <3>3. CASE burning
      BY <3>2, <3>3 DEF CrcInv, StoresInv
    <3>4. CASE ~burning
      BY <3>2, <3>4, TypeFacts DEF CrcInv, StoresInv, Cleaning
    <3> QED BY <3>3, <3>4
  <2>6. DueInv'
    <3>1. Contents(record') = Contents(record) /\ record'.status = record.status
      BY TypeFacts, CrcStore
    <3>2. Crc' = Contents(record)
      BY TypeFacts, CrcStore DEF Crc, CheckInv
    <3>3. CASE burning
      <4>1. TellsOf(Contents(record), Expected(arg))
        BY <3>3 DEF StoresInv
      <4>2. record.status # 0
        BY <3>3, <4>1, TypeFacts, CallFacts, ArgumentsType
           DEF TellsOf, RunnerInv
      <4>3. Checking' /\ due' = Expected(arg)
        BY <3>3 DEF Checking
      <4> QED BY <3>1, <3>2, <4>1, <4>2, <4>3 DEF DueInv
    <3>4. CASE ~burning
      <4>1. ~Checking /\ ~Checking'
        BY <3>4 DEF Checking
      <4> QED BY <3>4, <4>1 DEF DueInv
    <3> QED BY <3>3, <3>4
  <2>7. ReportIsTrue'
    BY DEF ReportIsTrue
  <2>8. RunningIsClean'
    BY DEF RunningIsClean, Valid, Contents, CheckInv, StoresInv, Cleaning
  <2> QED BY <2>1, <2>2, <2>3, <2>4, <2>5, <2>6, <2>7, <2>8
<1>13. CASE CatchFire
  <2> USE <1>13 DEF CatchFire
  <2>1. TypeOK'
    BY DEF TypeOK
  <2>2. CheckInv'
    BY DEF CheckInv, Contents
  <2>3. RunnerInv'
    BY DEF RunnerInv
  <2>4. StoresInv'
    BY DEF StoresInv, Cleaning
  <2>5. CrcInv'
    <3>1. Crc' = record.crc
      BY DEF Crc
    <3> QED BY <3>1 DEF CrcInv, CheckInv, Crc
  <2>6. DueInv'
    BY DEF DueInv, Checking, Crc
  <2>7. ReportIsTrue'
    BY DEF ReportIsTrue
  <2>8. RunningIsClean'
    BY DEF RunningIsClean, Valid, Contents
  <2> QED BY <2>1, <2>2, <2>3, <2>4, <2>5, <2>6, <2>7, <2>8
<1>14. CASE Reset
  <2> USE <1>14 DEF Reset
  <2>1. TypeOK'
    <3>1. resets' \in 0..MaxResets
      BY DEF TypeOK
    <3> QED BY <3>1, NothingType DEF TypeOK
  <2>2. CheckInv'
    BY DEF CheckInv, Contents
  <2>3. RunnerInv'
    BY DEF RunnerInv
  <2>4. StoresInv'
    BY DEF StoresInv, Cleaning
  <2>5. CrcInv'
    <3>1. Crc' = record.crc
      BY DEF Crc
    <3> QED BY <3>1 DEF CrcInv, CheckInv, Crc
  <2>6. DueInv'
    BY DEF DueInv, Checking, Crc
  <2>7. ReportIsTrue'
    BY DEF ReportIsTrue
  <2>8. RunningIsClean'
    BY DEF RunningIsClean, Valid, Contents
  <2> QED BY <2>1, <2>2, <2>3, <2>4, <2>5, <2>6, <2>7, <2>8
<1>15. CASE PowerLoss
  <2> USE <1>15 DEF PowerLoss
  <2>1. TypeOK'
    <3>1. record' \in Records
      BY JunkType
    <3>2. resets' \in 0..MaxResets
      BY DEF TypeOK
    <3> QED BY <3>1, <3>2, NothingType DEF TypeOK, Records
  <2>2. CheckInv'
    BY DEF CheckInv, Contents
  <2>3. RunnerInv'
    BY DEF RunnerInv
  <2>4. StoresInv'
    BY DEF StoresInv, Cleaning
  <2>5. CrcInv'
    BY DEF CrcInv, Crc, JunkRecord
  <2>6. DueInv'
    BY DEF DueInv, Checking, Crc
  <2>7. ReportIsTrue'
    BY DEF ReportIsTrue
  <2>8. RunningIsClean'
    BY DEF RunningIsClean, Valid, Contents
  <2> QED BY <2>1, <2>2, <2>3, <2>4, <2>5, <2>6, <2>7, <2>8
<1>16. CASE UNCHANGED vars
  <2> USE <1>16 DEF vars
  <2>1. TypeOK' /\ CheckInv' /\ RunnerInv'
    BY DEF TypeOK, CheckInv, RunnerInv
  <2>2. StoresInv' /\ CrcInv' /\ DueInv'
    BY DEF StoresInv, Cleaning, CrcInv, Crc, DueInv, Checking
  <2>3. ReportIsTrue' /\ RunningIsClean'
    BY DEF ReportIsTrue, RunningIsClean, Valid
  <2> QED BY <2>1, <2>2, <2>3
<1> QED
  BY <1>1, <1>2, <1>3, <1>4, <1>5, <1>6, <1>7, <1>8, <1>9, <1>10, <1>11,
     <1>12, <1>13, <1>14, <1>15, <1>16
     DEF Next, Watchdog, CatchedFire

\* So it holds in every reachable state.
LEMMA RecordAlways == Spec => []RecordInv
BY RecordInit, RecordStep, PTL DEF Spec

-----------------------------------------------------------------------------
(* The theorems.                                                           *)

\* Every reachable state has the declared types.
THEOREM RecordTypeCorrect == Spec => []TypeOK
<1>1. RecordInv => TypeOK
  BY DEF RecordInv
<1> QED BY <1>1, RecordAlways, PTL

\* The watchdog reports what happened, whatever resets cut the stores short.
THEOREM ReportsAreTrue == Spec => []ReportIsTrue
<1>1. RecordInv => ReportIsTrue
  BY DEF RecordInv
<1> QED BY <1>1, RecordAlways, PTL

\* A fire that was written is reported by the life after it.
THEOREM FiresAreReported == Spec => []FireIsReported
<1>1. RecordInv => FireIsReported
  <2> SUFFICES ASSUME RecordInv, pc = "running", due # Nothing
               PROVE  TellsOf(reported, due)
    BY DEF FireIsReported
  <2>1. ~burning /\ ~Checking
    BY DEF RecordInv, RunnerInv, Checking
  <2> QED BY <2>1 DEF RecordInv, DueInv
<1> QED BY <1>1, RecordAlways, PTL

\* The watchdog's loop is entered with a valid record that tells of no fire.
THEOREM WatchdogLeavesItClean == Spec => []RunningIsClean
<1>1. RecordInv => RunningIsClean
  BY DEF RecordInv
<1> QED BY <1>1, RecordAlways, PTL
=============================================================================
