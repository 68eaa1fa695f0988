--------------------------- MODULE OtaBenchProofs ---------------------------
(* What the OTA benchmark's change of rate and its flash operations leave  *)
(* alone, for every layout of the flash, size of image and length of poll. *)
EXTENDS OtaBench, TLAPS

\* What the assumptions say of the types of the constants.
Constants ==
  /\ Window \in Nat \ {0} /\ MaxRetries \in Nat \ {0}
  /\ SleepTicks \in Nat /\ PollTicks \in Nat /\ PollTicks < SleepTicks
  /\ MaxCommands \in Nat /\ MaxFaults \in Nat /\ MaxPowerLosses \in Nat
  /\ StagingOffset \in Nat /\ StagingBytes \in Int /\ Sector \in Nat \ {0} /\ Page \in Nat \ {0}
  /\ ImageSizes \subseteq Nat

\* The constants have these types.
LEMMA ConstantTypes == Constants
<1>1. StagingBytes \in Int
  BY FlashMapAssumption DEF StagingBytes, ReservedOffset, ReservedBytes, StagingOffset
<1>2. ImageSizes \subseteq Nat
  BY <1>1, OtaBenchAssumption
<1>3. QED
  BY <1>1, <1>2, OtaBenchAssumption, FlashMapAssumption DEF Constants, StagingOffset

\* The last, partial window has at least one byte.
LEMMA LastWindow ==
  ASSUME NEW s \in Nat, NEW c \in Nat, NEW w \in Nat \ {0}, c < (s + w - 1) \div w
  PROVE  s - c * w \in Nat
<1> DEFINE q == (s + w - 1) \div w
<1>1. q \in Int /\ w * q <= s + w - 1 /\ c < q
  OBVIOUS
<1>2. c + 1 <= q
  BY <1>1
<1>3. w * (c + 1) <= w * q
  BY <1>1, <1>2
<1>4. w * (c + 1) = w * c + w /\ w * c = c * w /\ w * c \in Int
  OBVIOUS
<1>5. QED
  BY <1>1, <1>3, <1>4

\* A window that is due fits a slot.
LEMMA DueBytesType ==
  ASSUME Values, committed < Windows
  PROVE  DueBytes \in 0 .. Window
<1>1. size \in Nat /\ committed \in Nat /\ Window \in Nat \ {0}
  BY ConstantTypes DEF Constants, Values
<1>2. size - committed * Window \in Nat
  BY <1>1, LastWindow DEF Windows
<1>3. QED
  BY <1>1, <1>2 DEF DueBytes

-----------------------------------------------------------------------------
(* The types.                                                              *)

\* No operation changes which pages there are.
LEMMA FlashDomain ==
  ASSUME NEW m, NEW op, NEW offset, NEW count, NEW data
  PROVE  /\ DOMAIN Executed(m, op, offset, count, data) = Pages
         /\ DOMAIN Interrupted(m, offset, count) = Pages
BY DEF Executed, Interrupted

\* What becomes of a slot in a reset and when a window is taken, flashed or
\* given up.
LEMMA SlotTypes ==
  ASSUME Values
  PROVE  /\ [slot EXCEPT !.state = "FREE", !.win = 0, !.retries = 0] \in Slots
         /\ [slot EXCEPT !.state = "FREE"] \in Slots
         /\ [slot EXCEPT !.state = "FLASHING"] \in Slots
         /\ slot.win \in Nat /\ slot.bytes \in 0 .. Window /\ slot.retries \in 0 .. MaxRetries
         /\ Free \in Slots /\ Idle \in Attempts
<1>1. slot \in Slots
  BY DEF Values
<1>2. [slot EXCEPT !.state = "FREE"] \in Slots /\ [slot EXCEPT !.state = "FLASHING"] \in Slots
  BY <1>1 DEF Slots
<1>3. [slot EXCEPT !.state = "FREE", !.win = 0, !.retries = 0] \in Slots
  <2>1. 0 \in 0 .. MaxRetries /\ 0 \in Nat
    BY ConstantTypes DEF Constants
  <2>2. QED
    BY <1>1, <2>1 DEF Slots
<1>4. slot.win \in Nat /\ slot.bytes \in 0 .. Window /\ slot.retries \in 0 .. MaxRetries
  BY <1>1 DEF Slots
<1>5. Free \in Slots
  BY ConstantTypes DEF Constants, Slots, Free
<1>6. Idle \in Attempts
  BY ConstantTypes DEF Constants, Attempts, Idle
<1>7. QED
  BY <1>1, <1>2, <1>3, <1>4, <1>5, <1>6

\* An attempt that fails leaves its slot and the worker with values of their types.
LEMMA FailType ==
  ASSUME Values, FailAttempt
  PROVE  /\ slot' \in Slots /\ attempt' \in Attempts
         /\ pc1' = "top" /\ committed' = committed
<1>1. slot \in Slots
  BY DEF Values
<1>2. slot.retries \in Nat /\ MaxRetries \in Nat
  BY <1>1, ConstantTypes DEF Slots, Constants
<1>3. slot.retries + 1 < MaxRetries =>
        [slot EXCEPT !.state = "READY", !.retries = @ + 1] \in Slots
  <2>1. HAVE slot.retries + 1 < MaxRetries
  <2>2. slot.retries + 1 \in 0 .. MaxRetries
    BY <1>2, <2>1
  <2>3. QED
    BY <1>1, <2>2 DEF Slots
<1>4. [slot EXCEPT !.state = "ERROR", !.retries = MaxRetries] \in Slots
  <2>1. MaxRetries \in 0 .. MaxRetries
    BY <1>2
  <2>2. QED
    BY <1>1, <2>1 DEF Slots
<1>5. QED
  BY <1>3, <1>4, SlotTypes DEF FailAttempt

\* The types hold when the board starts.
LEMMA TypeInit == Init => Values
BY ConstantTypes DEF Constants, Init, Values, Slots, Attempts, Free, Idle

\* Each step of core 0 keeps the types.
LEMMA TypeCore0 ==
  ASSUME Values, Core0
  PROVE  Values'
<1> USE ConstantTypes DEF Constants, Values
<1>1. CASE TypeUpdate
  BY <1>1 DEF TypeUpdate, Command, port, core1, recvr
<1>2. CASE Confirm
  BY <1>2, SlotTypes DEF Confirm, port, core1, bounds
<1>3. CASE RunEnds
  BY <1>3 DEF RunEnds, port, core1, recvr, bounds
<1>4. CASE TypeGuardCheck
  BY <1>4, FlashDomain DEF TypeGuardCheck, Command, core0, port, core1, recvr
<1>5. CASE \E r \in Rates : TypeRate(r)
  BY <1>5 DEF TypeRate, Command, core1, recvr
<1>6. CASE TearDown
  BY <1>6 DEF TearDown, core1, recvr, bounds
<1>7. CASE SetUp
  BY <1>7 DEF SetUp, core1, recvr
<1>8. QED
  BY <1>1, <1>2, <1>3, <1>4, <1>5, <1>6, <1>7 DEF Core0

\* So does each step of core 1.
LEMMA TypeCore1 ==
  ASSUME Values, Core1
  PROVE  Values'
<1> USE ConstantTypes DEF Constants, Values
<1>1. CASE CheckEnable
  BY <1>1 DEF CheckEnable, core0, port, recvr, bounds
<1>2. CASE PollNothing
  BY <1>2 DEF PollNothing, core0, port, recvr, bounds
<1>3. CASE ReceiveStart
  BY <1>3, SlotTypes DEF ReceiveStart, Poll, core0, port, bounds
<1>4. CASE ReceiveWindow
  <2>1. DueBytes \in 0 .. Window
    BY <1>4, DueBytesType DEF ReceiveWindow
  <2>2. slot' \in Slots
    BY <1>4, <2>1, SlotTypes DEF ReceiveWindow, Slots
  <2>3. QED
    BY <1>4, <2>2 DEF ReceiveWindow, Poll, core0, port, bounds
<1>5. CASE ReceiveFinalize
  BY <1>5 DEF ReceiveFinalize, Poll, core0, port, bounds
<1>6. CASE NothingToFlash
  BY <1>6 DEF NothingToFlash, core0, port, recvr, bounds
<1>7. CASE BeginAttempt
  <2>1. slot' \in Slots /\ attempt' \in Attempts
    BY <1>7, SlotTypes DEF BeginAttempt, Attempts
  <2>2. QED
    BY <1>7, <2>1 DEF BeginAttempt, core0, port, bounds
<1>8. CASE Erase
  <2>1. [attempt EXCEPT !.next = "program"] \in Attempts
    BY DEF Attempts
  <2>2. slot' \in Slots /\ attempt' \in Attempts /\ committed' \in Nat
    BY <1>8, <2>1, FailType DEF Erase
  <2>3. DOMAIN mem' = Pages
    <3>1. \/ mem' = mem
          \/ mem' = Executed(mem, "erase", attempt.offset, EraseBytes, <<>>)
      BY <1>8, Zenon DEF Erase
    <3>2. QED
      BY <3>1, FlashDomain
  <2>4. Strike \/ Spared
    BY <1>8, Zenon DEF Erase
  <2>5. pc1' = pc1 \/ FailAttempt
    BY <1>8, Zenon DEF Erase
  <2>6. faults' \in 0 .. MaxFaults
    BY <2>4 DEF Strike, Spared
  <2>7. pc1' \in {"top", "poll", "step", "attempt"}
    BY <2>5, FailType
  <2>8. QED
    BY <1>8, <2>2, <2>3, <2>6, <2>7 DEF Erase, core0, port
<1>9. CASE Program
  <2>1. attempt.done + Piece \in 0 .. Window
    BY DEF Piece, Attempts
  <2>2. [attempt EXCEPT !.done = @ + Piece,
                        !.next = IF attempt.done + Piece < attempt.bytes
                                 THEN "program" ELSE "verify"] \in Attempts
    BY <2>1 DEF Attempts
  <2>3. slot' \in Slots /\ attempt' \in Attempts /\ committed' \in Nat
    BY <1>9, <2>2, FailType DEF Program
  <2>4. \/ mem' = mem
        \/ \E offset, count, data : mem' = Executed(mem, "program", offset, count, data)
        \/ \E offset, count : mem' = Interrupted(mem, offset, count)
    <3> DEFINE data == [j \in 0 .. Piece \div Page - 1 |->
                          Image((attempt.offset + attempt.done) \div Page + j)]
    <3>1. \/ mem' = mem
          \/ mem' = Executed(mem, "program", attempt.offset + attempt.done, Piece, data)
          \/ mem' = Interrupted(mem, attempt.offset + attempt.done, Piece)
      BY <1>9, Zenon DEF Program
    <3>2. QED
      BY <3>1, Zenon
  <2>5. DOMAIN mem' = Pages
    BY <2>4, FlashDomain
  <2>6. Strike \/ Spared
    BY <1>9, Zenon DEF Program
  <2>7. pc1' = pc1 \/ FailAttempt
    BY <1>9, Zenon DEF Program
  <2>8. faults' \in 0 .. MaxFaults
    BY <2>6 DEF Strike, Spared
  <2>9. pc1' \in {"top", "poll", "step", "attempt"}
    BY <2>7, FailType
  <2>10. QED
    BY <1>9, <2>3, <2>5, <2>8, <2>9 DEF Program, core0, port
<1>10. CASE Verify
  <2>1. slot' \in Slots /\ attempt' \in Attempts /\ committed' \in Nat /\ pc1' = "top"
    BY <1>10, FailType, SlotTypes DEF Verify
  <2>2. QED
    BY <1>10, <2>1 DEF Verify, core0, port, bounds
<1>11. QED
  BY <1>1, <1>2, <1>3, <1>4, <1>5, <1>6, <1>7, <1>8, <1>9, <1>10 DEF Core1

\* Every step keeps the types.
LEMMA TypeStep == Values /\ [Next]_vars => Values'
<1> SUFFICES ASSUME Values, [Next]_vars PROVE Values'
  OBVIOUS
<1>1. CASE Tick
  BY <1>1, ConstantTypes DEF Constants, Tick, Values, port, recvr, bounds
<1>2. CASE \E r \in Rates : PowerLoss(r)
  <2>1. PICK r \in Rates : PowerLoss(r)
    BY <1>2
  <2>2. DOMAIN mem' = Pages
    <3>1. mem' = mem \/ \E offset, count : mem' = Interrupted(mem, offset, count)
      BY <2>1 DEF PowerLoss, CutOff
    <3>2. QED
      BY <3>1, FlashDomain DEF Values
  <2>3. QED
    BY <2>1, <2>2, ConstantTypes, SlotTypes DEF Constants, PowerLoss, PowerUp, Values
<1>3. CASE UNCHANGED vars
  BY <1>3 DEF vars, core0, port, core1, recvr, bounds, Values
<1>4. QED
  BY <1>1, <1>2, <1>3, TypeCore0, TypeCore1 DEF Next

\* The flags are Booleans.
LEMMA FlagsStep == Flags /\ [Next]_vars => Flags'
<1> SUFFICES ASSUME Flags, [Next]_vars PROVE Flags'
  OBVIOUS
<1>1. CASE Core0
  BY <1>1 DEF Core0, TypeUpdate, Confirm, RunEnds, TypeGuardCheck, TypeRate, TearDown, SetUp,
              port, recvr, Flags
<1>2. CASE Core1
  BY <1>2 DEF Core1, CheckEnable, PollNothing, ReceiveStart, ReceiveWindow, ReceiveFinalize,
              Poll, NothingToFlash, BeginAttempt, Erase, Program, Verify, Strike, Spared,
              port, recvr, Flags
<1>3. CASE Tick \/ \E r \in Rates : PowerLoss(r)
  BY <1>3 DEF Tick, PowerLoss, PowerUp, port, recvr, Flags
<1>4. CASE UNCHANGED vars
  BY <1>4 DEF vars, port, recvr, Flags
<1>5. QED
  BY <1>1, <1>2, <1>3, <1>4 DEF Next

\* The variables keep their types: the window that is due always fits its slot,
\* also the last one, however the image's size falls.
THEOREM BenchType == Spec => []TypeOK
<1>1. Init => Flags
  BY DEF Init, Flags
<1>2. QED
  BY <1>1, TypeInit, TypeStep, FlagsStep, PTL DEF Spec, TypeOK

-----------------------------------------------------------------------------
(* The change of rate.                                                     *)

\* Only a whole port is polled, or one that was whole when the poll began and
\* that core 0 will not touch before the poll must have ended.
Switch ==
  /\ (enable \/ pc1 = "poll") => rx = tx /\ rx = rate /\ pc0 # "setup"
  /\ enable => pc0 # "sleep"
  /\ pc0 = "setup" => tx = chosen
  /\ pc0 = "sleep" /\ pc1 = "poll" => timer + polled >= SleepTicks

\* The port is whole when the board starts.
LEMMA SwitchInit == Init => Switch
BY DEF Init, Switch

\* Every step keeps the port whole while it may be polled.
LEMMA SwitchStep ==
  ASSUME TypeOK, Switch, [Next]_vars
  PROVE  Switch'
<1> USE ConstantTypes DEF Constants
<1>1. CASE TypeUpdate \/ Confirm \/ RunEnds \/ TypeGuardCheck
  BY <1>1 DEF TypeUpdate, Confirm, RunEnds, TypeGuardCheck, Command, core0, port, core1, Switch
<1>2. CASE \E r \in Rates : TypeRate(r)
  BY <1>2 DEF TypeRate, Command, core1, Switch, TypeOK, Values
<1>3. CASE TearDown
  BY <1>3 DEF TearDown, core1, Switch, TypeOK, Values
<1>4. CASE SetUp
  BY <1>4 DEF SetUp, TearDown, core1, Switch, TypeOK, Values
<1>5. CASE Tick
  BY <1>5 DEF Tick, port, Switch, TypeOK, Values
<1>6. CASE CheckEnable
  BY <1>6 DEF CheckEnable, core0, port, Switch
<1>7. CASE PollNothing \/ ReceiveStart \/ ReceiveWindow \/ ReceiveFinalize
  BY <1>7 DEF PollNothing, ReceiveStart, ReceiveWindow, ReceiveFinalize, Poll, core0, port, Switch
<1>8. CASE NothingToFlash \/ BeginAttempt
  BY <1>8 DEF NothingToFlash, BeginAttempt, core0, port, Switch
<1>9. CASE Erase \/ Program \/ Verify
  <2>1. pc1' # "poll"
    BY <1>9 DEF Erase, Program, Verify, AttemptAt, FailAttempt
  <2>2. UNCHANGED core0 /\ UNCHANGED port
    BY <1>9 DEF Erase, Program, Verify
  <2>3. QED
    BY <2>1, <2>2 DEF core0, port, Switch
<1>10. CASE \E r \in Rates : PowerLoss(r)
  BY <1>10 DEF PowerLoss, PowerUp, Switch
<1>11. CASE UNCHANGED vars
  BY <1>11 DEF vars, core0, port, core1, Switch
<1>12. QED
  BY <1>1, <1>2, <1>3, <1>4, <1>5, <1>6, <1>7, <1>8, <1>9, <1>10, <1>11
  DEF Next, Core0, Core1

\* Core 1 polls no port that is being taken down or set up, and none at a rate
\* the menu does not show, as long as a poll is over before the sleep is.
THEOREM RateSwitch == Spec => []PollsWholePort
<1>1. Switch => PollsWholePort
  BY DEF Switch, PollsWholePort
<1>2. QED
  BY <1>1, BenchType, SwitchInit, SwitchStep, PTL DEF Spec

-----------------------------------------------------------------------------
(* The staging area.                                                       *)

Outside(p) == ~ Touches(StagingOffset, StagingBytes, p)

\* What the guard lets pass leaves every page outside the staging area alone,
\* whether it ends or the power goes.
LEMMA Guarded ==
  ASSUME NEW op, NEW offset \in Int, NEW count \in Int, Permitted(op, offset, count),
         NEW p \in Pages, Outside(p)
  PROVE  /\ \A data : Executed(mem, op, offset, count, data)[p] = mem[p]
         /\ Interrupted(mem, offset, count)[p] = mem[p]
<1>1. p * Page \in Int
  BY ConstantTypes, FlashMapAssumption DEF Pages, Constants
<1>2. ~ Touches(offset, count, p)
  BY <1>1, ConstantTypes DEF Constants, Touches, Outside, Permitted, is_staging_range
<1>3. QED
  BY <1>2 DEF Executed, Interrupted

\* No step changes a page outside the staging area.
LEMMA StagingStep ==
  ASSUME TypeOK, [Next]_vars, NEW p \in Pages, Outside(p)
  PROVE  mem'[p] = mem[p]
<1>1. /\ attempt.offset \in Int /\ attempt.done \in Int /\ Piece \in Int
      /\ EraseBytes \in Int /\ Sector \in Int
  BY ConstantTypes DEF Constants, TypeOK, Values, Attempts, Piece, EraseBytes
<1>2. CASE TypeGuardCheck
  BY <1>1, <1>2, Guarded DEF TypeGuardCheck
<1>3. CASE Erase
  BY <1>1, <1>3, Guarded DEF Erase
<1>4. CASE Program
  <2> DEFINE at == attempt.offset + attempt.done
             data == [j \in 0 .. Piece \div Page - 1 |-> Image(at \div Page + j)]
  <2>1. \/ mem' = mem
        \/ /\ Permitted("program", at, Piece)
           /\ mem' = Executed(mem, "program", at, Piece, data) \/ mem' = Interrupted(mem, at, Piece)
    BY <1>4, Zenon DEF Program
  <2>2. at \in Int
    BY <1>1
  <2> HIDE DEF at, data
  <2>3. QED
    BY <1>1, <2>1, <2>2, Guarded
<1>5. CASE \E r \in Rates : PowerLoss(r)
  <2>1. PICK r \in Rates : PowerLoss(r)
    BY <1>5
  <2>2. \/ mem' = mem
        \/ mem' \in CutOff(mem, "erase", attempt.offset, EraseBytes)
        \/ mem' \in CutOff(mem, "program", attempt.offset + attempt.done, Piece)
    BY <2>1 DEF PowerLoss
  <2>3. attempt.offset + attempt.done \in Int
    BY <1>1
  <2>4. ASSUME NEW op, NEW offset \in Int, NEW count \in Int, mem' \in CutOff(mem, op, offset, count)
        PROVE  mem'[p] = mem[p]
    <3>1. CASE mem' = mem
      BY <3>1
    <3>2. CASE Permitted(op, offset, count) /\ mem' = Interrupted(mem, offset, count)
      <4>1. Interrupted(mem, offset, count)[p] = mem[p]
        BY <3>2, Guarded
      <4>2. QED
        BY <3>2, <4>1
    <3>3. QED
      BY <2>4, <3>1, <3>2, Zenon DEF CutOff
  <2>5. CASE mem' = mem
    BY <2>5
  <2>6. CASE mem' \in CutOff(mem, "erase", attempt.offset, EraseBytes)
    BY <1>1, <2>4, <2>6
  <2>7. CASE mem' \in CutOff(mem, "program", attempt.offset + attempt.done, Piece)
    BY <1>1, <2>3, <2>4, <2>7
  <2>8. QED
    BY <2>2, <2>5, <2>6, <2>7
<1>6. CASE UNCHANGED mem
  BY <1>6
<1>7. QED
  BY <1>2, <1>3, <1>4, <1>5, <1>6
  DEF Next, Core0, Core1, TypeUpdate, Confirm, RunEnds, TypeRate, TearDown, SetUp, Tick,
      CheckEnable, PollNothing, ReceiveStart, ReceiveWindow, ReceiveFinalize, Poll,
      NothingToFlash, BeginAttempt, Verify, vars

\* Nothing the OTA benchmark does, an attempt that goes on after a reset and a
\* power loss in the middle of one included, changes a byte outside the staging area.
THEOREM Staging == Spec => StagingOnly
<1>1. TypeOK /\ [Next]_vars =>
        [\A p \in Pages : mem'[p] # mem[p] => Touches(StagingOffset, StagingBytes, p)]_vars
  BY StagingStep DEF Outside
<1>2. QED
  BY <1>1, BenchType, PTL DEF Spec, StagingOnly
-----------------------------------------------------------------------------
(* Alignment.                                                              *)

\* What is a multiple of a size, divided by it.
LEMMA Multiple ==
  ASSUME NEW s \in Nat \ {0}, NEW m \in Int
  PROVE  (s * m) % s = 0 /\ (s * m) \div s = m
<1> DEFINE d == (s * m) \div s
           r == (s * m) % s
<1>1. d \in Int /\ r \in 0 .. s - 1 /\ s * m \in Int /\ s * m = s * d + r
  OBVIOUS
<1> HIDE DEF d, r
<1>2. CASE m = d
  <2>1. r = 0
    BY <1>1, <1>2
  <2> QED
    BY <1>2, <2>1 DEF d, r
<1>3. CASE m > d
  <2>1. s * m >= s * (d + 1)
    BY <1>1, <1>3
  <2>2. s * (d + 1) = s * d + s
    BY <1>1
  <2> QED
    BY <1>1, <2>1, <2>2
<1>4. CASE m < d
  <2>1. s * d >= s * (m + 1)
    BY <1>1, <1>4
  <2>2. s * (m + 1) = s * m + s
    OBVIOUS
  <2> QED
    BY <1>1, <2>1, <2>2
<1> QED
  BY <1>1, <1>2, <1>3, <1>4

\* What leaves no remainder is a multiple.
LEMMA Quotient ==
  ASSUME NEW s \in Nat \ {0}, NEW a \in Int, a % s = 0
  PROVE  a \div s \in Int /\ a = s * (a \div s)
OBVIOUS

\* Sums, differences and multiples of what is aligned are aligned.
LEMMA Aligned ==
  ASSUME NEW s \in Nat \ {0}, NEW a \in Int, NEW b \in Int, a % s = 0, b % s = 0
  PROVE  /\ (a + b) % s = 0 /\ (a - b) % s = 0
         /\ \A k \in Int : (k * b) % s = 0 /\ (a + k * b) % s = 0
<1> DEFINE x == a \div s
           y == b \div s
<1>1. x \in Int /\ y \in Int /\ a = s * x /\ b = s * y
  BY Quotient
<1> HIDE DEF x, y
<1>2. a + b = s * (x + y) /\ a - b = s * (x - y)
  BY <1>1
<1>3. ASSUME NEW k \in Int PROVE (k * b) % s = 0 /\ (a + k * b) % s = 0
  <2>1. k * b = s * (k * y) /\ k * y \in Int
    BY <1>1
  <2>2. a + k * b = s * (x + k * y)
    BY <1>1, <2>1
  <2> QED
    BY <1>1, <2>1, <2>2, Multiple
<1> QED
  BY <1>1, <1>2, <1>3, Multiple

\* What is aligned to sectors is aligned to pages.
LEMMA Finer ==
  ASSUME NEW p \in Nat \ {0}, NEW s \in Nat \ {0}, NEW a \in Int, s % p = 0, a % s = 0
  PROVE  a % p = 0
<1> DEFINE k == a \div s
<1>1. k \in Int /\ a = s * k
  BY Quotient
<1> HIDE DEF k
<1>2. (k * s) % p = 0
  <2>1. s \in Int
    OBVIOUS
  <2>2. \A j \in Int : (j * s) % p = 0
    BY <2>1, Aligned, Zenon
  <2> QED
    BY <1>1, <2>2
<1>3. k * s = a
  BY <1>1
<1> QED
  BY <1>2, <1>3

-----------------------------------------------------------------------------
(* The windows in the flash.                                               *)

\* A window that is due has at least one byte, ends where the next begins, and
\* the last one where the image ends.
LEMMA Due ==
  ASSUME Values, committed < Windows
  PROVE  /\ DueBytes \in 1 .. Window
         /\ committed * Window + DueBytes =
              IF committed + 1 >= Windows THEN size ELSE (committed + 1) * Window
<1> DEFINE q == Windows
           a == committed * Window
<1>1. size \in Nat /\ committed \in Nat /\ Window \in Nat \ {0}
  BY ConstantTypes DEF Constants, Values
<1>2. /\ q \in Int /\ Window * q <= size + Window - 1 /\ size - 1 < Window * q
      /\ committed + 1 <= q
  <2>1. q = (size + Window - 1) \div Window /\ size + Window - 1 \in Nat
    BY <1>1 DEF Windows
  <2>2. q \in Int /\ Window * q <= size + Window - 1 /\ size - 1 < Window * q
    BY <1>1, <2>1
  <2> QED
    BY <1>1, <2>2
<1>3. a \in Nat /\ Window * (committed + 1) = a + Window /\ (committed + 1) * Window = a + Window
  BY <1>1
<1> HIDE DEF q, a
<1>4. a + Window <= Window * q
  BY <1>1, <1>2, <1>3
<1>5. size - a >= 1
  <2>1. Window * q \in Int
    BY <1>1, <1>2
  <2> QED
    BY <1>1, <1>2, <1>3, <1>4, <2>1
<1>6. DueBytes = IF size - a > Window THEN Window ELSE size - a
  BY DEF DueBytes, a
<1>7. committed + 1 >= q => size - a <= Window
  <2> HAVE committed + 1 >= q
  <2>1. q = committed + 1
    BY <1>1, <1>2
  <2> QED
    BY <1>1, <1>2, <1>3, <2>1
<1>8. committed + 1 < q => size - a > Window
  <2> HAVE committed + 1 < q
  <2>1. Window * (committed + 2) <= Window * q
    BY <1>1, <1>2
  <2>2. Window * (committed + 2) = a + Window + Window
    BY <1>1, <1>3
  <2> QED
    BY <1>1, <1>2, <1>3, <2>1, <2>2
<1>9. DueBytes \in 1 .. Window
  BY <1>1, <1>3, <1>5, <1>6
<1>10. a + DueBytes = IF committed + 1 >= q THEN size ELSE (committed + 1) * Window
  BY <1>1, <1>2, <1>3, <1>5, <1>6, <1>7, <1>8
<1> QED
  BY <1>9, <1>10 DEF a, q

\* During a session a slot that is not free holds the window that is due, and
\* an attempt is at that window.
DueInv ==
  /\ state = "TRANSFER" =>
       /\ size \in ImageSizes
       /\ slot.state # "FREE" =>
            slot.win = committed /\ committed < Windows /\ slot.bytes = DueBytes
       /\ pc1 = "attempt" =>
            /\ slot.state = "FLASHING" /\ attempt.bytes = slot.bytes
            /\ attempt.offset = StagingOffset + committed * Window
  /\ state = "COMPLETE" => pc1 # "attempt"

LEMMA DueSame == DueInv /\ UNCHANGED <<state, size, committed, slot, pc1, attempt>> => DueInv'
BY DEF DueInv, Windows, DueBytes

\* An attempt that fails keeps its window.
LEMMA DueFails ==
  ASSUME TypeOK, DueInv, pc1 = "attempt", FailAttempt, UNCHANGED <<state, size>>
  PROVE  DueInv'
<1>1. /\ pc1' = "top" /\ committed' = committed
      /\ slot'.state # "FREE" /\ slot'.win = slot.win /\ slot'.bytes = slot.bytes
  BY DEF FailAttempt, TypeOK, Values, Slots
<1> QED
  BY <1>1 DEF DueInv, Windows, DueBytes

LEMMA DueStep ==
  ASSUME TypeOK, DueInv, [Next]_vars
  PROVE  DueInv'
<1>0. slot \in Slots /\ attempt \in Attempts
  BY DEF TypeOK, Values
<1>1. CASE UNCHANGED <<state, size, committed, slot, pc1, attempt>>
  BY <1>1, DueSame
<1>2. CASE Confirm
  <2>1. \/ state' = "IDLE"
        \/ UNCHANGED <<state, size, committed, slot, pc1, attempt>>
    BY <1>2 DEF Confirm, core1
  <2> QED
    BY <2>1, DueSame DEF DueInv
<1>3. CASE CheckEnable \/ PollNothing \/ NothingToFlash
  <2>1. pc1' # "attempt" /\ UNCHANGED <<state, size, committed, slot>>
    BY <1>3 DEF CheckEnable, PollNothing, NothingToFlash, recvr
  <2> QED
    BY <2>1 DEF DueInv, Windows, DueBytes
<1>4. CASE ReceiveStart
  <2>1. pc1' = "step" /\ state' = "TRANSFER" /\ size' = session /\ slot'.state = "FREE"
    BY <1>0, <1>4 DEF ReceiveStart, Poll, Slots
  <2>2. session \in ImageSizes
    BY <1>4 DEF ReceiveStart, Poll, TypeOK, Values
  <2> QED
    BY <2>1, <2>2 DEF DueInv
<1>5. CASE ReceiveWindow
  <2>1. /\ pc1' = "step" /\ committed < Windows /\ state = "TRANSFER"
        /\ UNCHANGED <<state, size, committed>>
        /\ slot'.win = committed /\ slot'.bytes = DueBytes
    BY <1>5 DEF ReceiveWindow, Poll
  <2> QED
    BY <2>1 DEF DueInv, Windows, DueBytes
<1>6. CASE ReceiveFinalize
  <2>1. pc1' = "step" /\ state' # "TRANSFER"
    BY <1>6 DEF ReceiveFinalize, Poll
  <2> QED
    BY <2>1 DEF DueInv
<1>7. CASE BeginAttempt
  <2>1. /\ state = "TRANSFER" /\ slot.state = "READY" /\ slot.win = committed
        /\ UNCHANGED <<state, size, committed>>
        /\ slot'.state = "FLASHING" /\ slot'.win = slot.win /\ slot'.bytes = slot.bytes
        /\ attempt'.offset = StagingOffset + slot.win * Window /\ attempt'.bytes = slot.bytes
    BY <1>0, <1>7 DEF BeginAttempt, Attempting, Slots
  <2> QED
    BY <2>1 DEF DueInv, Windows, DueBytes
<1>8. CASE Erase \/ Program
  <2>1. pc1 = "attempt" /\ UNCHANGED <<state, size>>
    BY <1>8 DEF Erase, Program, AttemptAt
  <2>2. \/ FailAttempt
        \/ /\ UNCHANGED <<pc1, slot, committed>>
           /\ attempt'.offset = attempt.offset /\ attempt'.bytes = attempt.bytes
    BY <1>0, <1>8 DEF Erase, Program, Attempts
  <2> QED
    BY <2>1, <2>2, DueFails DEF DueInv, Windows, DueBytes
<1>9. CASE Verify
  <2>1. pc1 = "attempt" /\ UNCHANGED <<state, size>>
    BY <1>9 DEF Verify, AttemptAt
  <2>2. FailAttempt \/ (pc1' = "top" /\ slot'.state = "FREE")
    BY <1>0, <1>9 DEF Verify, Slots
  <2> QED
    BY <2>1, <2>2, DueFails DEF DueInv
<1>10. CASE \E r \in Rates : PowerLoss(r)
  BY <1>10 DEF PowerLoss, PowerUp, DueInv
<1> QED
  BY <1>1, <1>2, <1>3, <1>4, <1>5, <1>6, <1>7, <1>8, <1>9, <1>10
  DEF Next, Core0, Core1, TypeUpdate, RunEnds, TypeGuardCheck, TypeRate, TearDown, SetUp, Tick,
      core1, recvr, vars

\* How far an attempt is: what it has programmed so far, and, unless a fault
\* struck the window or the window does not fit, what of it is in the flash.
BlankFrom(n) == \A p \in PagesIn(attempt.offset + n, Window - n) : mem[p] = Blank

ProgressInv ==
  state = "TRANSFER" /\ pc1 = "attempt" =>
    /\ attempt.next = "erase" => attempt.done = 0
    /\ attempt.next = "program" => attempt.done % Sector = 0 /\ attempt.done < attempt.bytes
    /\ ~ faulted /\ Fits(slot) =>
         /\ attempt.next = "program" => Staged(attempt.offset, attempt.done) /\ BlankFrom(attempt.done)
         /\ attempt.next = "verify"  => Staged(attempt.offset, attempt.bytes)

\* What an attempt is made of, in numbers.
LEMMA Attempted ==
  ASSUME TypeOK, DueInv, state = "TRANSFER", pc1 = "attempt"
  PROVE  /\ attempt.offset \in Nat /\ attempt.done \in Nat /\ attempt.bytes \in 1 .. Window
         /\ attempt.offset = StagingOffset + committed * Window /\ committed * Window \in Nat
         /\ attempt.offset % Sector = 0 /\ attempt.offset % Page = 0
         /\ Window \in Nat /\ Sector \in Nat \ {0} /\ Page \in Nat \ {0}
         /\ committed < Windows /\ slot.win = committed /\ attempt.bytes = slot.bytes
         /\ slot.bytes = DueBytes
<1>1. /\ attempt \in Attempts /\ committed \in Nat
      /\ attempt.offset = StagingOffset + committed * Window
      /\ committed < Windows /\ slot.win = committed
      /\ attempt.bytes = slot.bytes /\ slot.bytes = DueBytes
  BY DEF TypeOK, Values, DueInv
<1>2. /\ Window \in Nat /\ Sector \in Nat \ {0} /\ Page \in Nat \ {0}
      /\ StagingOffset \in Nat /\ StagingOffset % Sector = 0 /\ Window % Sector = 0
      /\ Sector % Page = 0
  BY ConstantTypes, FlashMapAssumption, OtaBenchAssumption DEF Constants, StagingOffset
<1>3. attempt.offset \in Nat /\ attempt.done \in Nat
  BY <1>1, <1>2 DEF Attempts
<1>4. attempt.bytes \in 1 .. Window
  BY <1>1, Due DEF TypeOK
<1>5. committed * Window \in Nat
  BY <1>1, <1>2
<1>6. attempt.offset % Sector = 0
  <2>1. StagingOffset \in Int /\ Window \in Int /\ committed \in Int
    BY <1>1, <1>2
  <2>2. (StagingOffset + committed * Window) % Sector = 0
    BY <1>2, <2>1, Aligned
  <2> QED
    BY <1>1, <2>2, Zenon
<1>7. attempt.offset % Page = 0
  <2>1. attempt.offset \in Int
    BY <1>3
  <2> QED
    BY <1>2, <1>6, <2>1, Finer
<1> QED
  BY <1>1, <1>2, <1>3, <1>4, <1>5, <1>6, <1>7

\* The guard lets the block of a window that fits be erased.
LEMMA Erases ==
  ASSUME TypeOK, DueInv, state = "TRANSFER", pc1 = "attempt", Fits(slot)
  PROVE  Permitted("erase", attempt.offset, EraseBytes)
<1>1. /\ attempt.offset % Sector = 0 /\ Window % Sector = 0 /\ Window # 0
      /\ attempt.offset >= StagingOffset
  BY Attempted, ConstantTypes, OtaBenchAssumption DEF Constants
<1>2. attempt.offset + Window <= StagingOffset + StagingBytes
  BY Attempted DEF Fits
<1> QED
  BY <1>1, <1>2 DEF Permitted, is_staging_range, is_sector_aligned, EraseBytes

\* And every piece of it be programmed.
LEMMA Programs ==
  ASSUME TypeOK, DueInv, ProgressInv, state = "TRANSFER", AttemptAt("program")
  PROVE  /\ Piece \in 1 .. Sector /\ attempt.done + Piece <= attempt.bytes
         /\ attempt.done + Piece < attempt.bytes => (attempt.done + Piece) % Sector = 0
         /\ (attempt.offset + attempt.done) % Page = 0
         /\ Fits(slot) =>
              /\ Piece % Page = 0
              /\ Permitted("program", attempt.offset + attempt.done, Piece)
<1>1. pc1 = "attempt" /\ attempt.done % Sector = 0 /\ attempt.done < attempt.bytes
  BY DEF AttemptAt, ProgressInv
<1>2. /\ attempt.offset \in Nat /\ attempt.done \in Nat /\ attempt.bytes \in Nat
      /\ attempt.bytes <= Window /\ Window \in Nat
      /\ Sector \in Nat \ {0} /\ Page \in Nat \ {0} /\ attempt.offset % Page = 0
      /\ Sector % Page = 0 /\ StagingOffset \in Nat /\ attempt.offset >= StagingOffset
  BY <1>1, Attempted, FlashMapAssumption, ConstantTypes DEF Constants
<1>3. Piece \in 1 .. Sector /\ attempt.done + Piece <= attempt.bytes
  BY <1>1, <1>2 DEF Piece
<1>4. attempt.done + Piece < attempt.bytes => (attempt.done + Piece) % Sector = 0
  <2> HAVE attempt.done + Piece < attempt.bytes
  <2>1. Piece = Sector
    BY <1>2 DEF Piece
  <2>2. Sector % Sector = 0
    BY <1>2
  <2>3. attempt.done \in Int /\ Sector \in Int
    BY <1>2
  <2>4. (attempt.done + Sector) % Sector = 0
    BY <1>1, <1>2, <2>2, <2>3, Aligned
  <2> QED
    BY <2>1, <2>4
<1>5. attempt.done % Page = 0
  <2>1. attempt.done \in Int
    BY <1>2
  <2> QED
    BY <1>1, <1>2, <2>1, Finer
<1>6. (attempt.offset + attempt.done) % Page = 0
  <2>1. attempt.offset \in Int /\ attempt.done \in Int
    BY <1>2
  <2> QED
    BY <1>2, <1>5, <2>1, Aligned
<1>7. Fits(slot) => Piece % Page = 0 /\ Permitted("program", attempt.offset + attempt.done, Piece)
  <2> HAVE Fits(slot)
  <2>1. attempt.bytes % Page = 0
    BY <1>1, Attempted DEF Fits
  <2>2. (attempt.bytes - attempt.done) % Page = 0
    <3>1. attempt.bytes \in Int /\ attempt.done \in Int
      BY <1>2
    <3> QED
      BY <1>2, <1>5, <2>1, <3>1, Aligned
  <2>3. Piece % Page = 0
    BY <1>2, <2>2 DEF Piece
  <2>4. attempt.offset + Window <= StagingOffset + StagingBytes
    BY <1>1, Attempted DEF Fits
  <2>5. Piece # 0 /\ attempt.offset + attempt.done >= StagingOffset
    BY <1>2, <1>3
  <2>6. (attempt.offset + attempt.done) + Piece <= StagingOffset + StagingBytes
    <3>1. StagingOffset + StagingBytes \in Int
      BY ConstantTypes DEF Constants
    <3> QED
      BY <1>2, <1>3, <2>4, <3>1
  <2> QED
    BY <1>6, <2>3, <2>5, <2>6 DEF Permitted, is_staging_range, is_page_aligned
<1> QED
  BY <1>3, <1>4, <1>6, <1>7

\* A piece puts the image's pages where they belong.
LEMMA PieceData ==
  ASSUME NEW o \in Nat, NEW n \in Nat, o % Page = 0, n % Page = 0,
         NEW p \in Pages, Touches(o, n, p)
  PROVE  [j \in 0 .. n \div Page - 1 |-> Image(o \div Page + j)][p - o \div Page] = Image(p)
<1> DEFINE x == o \div Page
           y == n \div Page
<1>1. Page \in Nat \ {0} /\ p \in Nat /\ x \in Int /\ y \in Int /\ o = Page * x /\ n = Page * y
  <2>1. Page \in Nat \ {0}
    BY ConstantTypes DEF Constants
  <2>2. o \in Int /\ n \in Int
    OBVIOUS
  <2> QED
    BY <2>1, <2>2, Quotient DEF Pages
<1> HIDE DEF x, y
<1>2. Page * x <= Page * p /\ Page * p < Page * (x + y)
  BY <1>1 DEF Touches
<1>3. x <= p
  BY <1>1, <1>2
<1>4. p < x + y
  <2> SUFFICES ASSUME p >= x + y PROVE FALSE
    BY <1>1
  <2>1. Page * p >= Page * (x + y)
    BY <1>1
  <2> QED
    BY <1>1, <1>2, <2>1
<1>5. p - x \in 0 .. y - 1 /\ x + (p - x) = p
  BY <1>1, <1>3, <1>4
<1>6. [j \in 0 .. y - 1 |-> Image(x + j)][p - x] = Image(x + (p - x))
  BY <1>5
<1>7. [j \in 0 .. y - 1 |-> Image(x + j)][p - x] = Image(p)
  BY <1>5, <1>6, Zenon
<1> QED
  BY <1>7 DEF x, y

\* The guard check does nothing: the firmware is not in the staging area.
LEMMA GuardCheckRefused == ~ Permitted("erase", 0, Sector)
BY FlashMapAssumption DEF Permitted, is_staging_range, StagingOffset

LEMMA ProgressSame ==
  ProgressInv /\ UNCHANGED <<mem, state, pc1, attempt, slot, faulted>> => ProgressInv'
BY DEF ProgressInv, Staged, BlankFrom, Fits

\* A block that is erased is blank from its start.
LEMMA ProgressErased ==
  ASSUME TypeOK, DueInv, ProgressInv, Erase
  PROVE  ProgressInv'
<1> SUFFICES ASSUME state' = "TRANSFER", pc1' = "attempt" PROVE ProgressInv'
  BY DEF ProgressInv
<1>1. /\ state = "TRANSFER" /\ pc1 = "attempt" /\ attempt.next = "erase"
      /\ mem' = Executed(mem, "erase", attempt.offset, EraseBytes, <<>>)
      /\ attempt' = [attempt EXCEPT !.next = "program"]
  BY DEF Erase, AttemptAt, FailAttempt
<1>2. /\ attempt'.next = "program" /\ attempt'.done = 0 /\ attempt'.bytes = attempt.bytes
      /\ attempt'.offset = attempt.offset
  BY <1>1 DEF ProgressInv, TypeOK, Values, Attempts
<1>3. /\ 0 % Sector = 0 /\ 0 < attempt.bytes
  BY <1>1, Attempted
<1>4. ASSUME NEW p \in Pages, Touches(attempt.offset, Window, p) PROVE mem'[p] = Blank
  BY <1>1, <1>4 DEF Executed, EraseBytes
<1>n. attempt.offset \in Nat /\ Window \in Nat /\ attempt.offset + 0 = attempt.offset /\ Window - 0 = Window
  BY <1>1, Attempted
<1>5. BlankFrom(attempt.done)'
  BY <1>2, <1>4, <1>n DEF BlankFrom, PagesIn
<1>6. Staged(attempt.offset, attempt.done)'
  <2> SUFFICES ASSUME NEW p \in Pages, Touches(attempt.offset, 0, p) PROVE FALSE
    BY <1>2 DEF Staged, PagesIn
  <2>1. p * Page \in Int
    BY ConstantTypes DEF Constants, Pages
  <2> QED
    BY <1>n, <2>1 DEF Touches
<1> QED
  BY <1>2, <1>3, <1>5, <1>6 DEF ProgressInv

\* A piece that is programmed, with no fault, adds to what is staged and leaves the
\* rest blank.
LEMMA ProgressProgrammed ==
  ASSUME TypeOK, DueInv, ProgressInv, Program
  PROVE  ProgressInv'
<1> SUFFICES ASSUME state' = "TRANSFER", pc1' = "attempt" PROVE ProgressInv'
  BY DEF ProgressInv
<1> DEFINE o    == attempt.offset + attempt.done
           data == [j \in 0 .. Piece \div Page - 1 |-> Image(o \div Page + j)]
           more == attempt.done + Piece < attempt.bytes
<1>1. /\ state = "TRANSFER" /\ pc1 = "attempt" /\ AttemptAt("program") /\ slot' = slot
      /\ (mem' = Executed(mem, "program", o, Piece, data) /\ faulted' = faulted) \/ faulted' = TRUE
      /\ attempt' = [attempt EXCEPT !.done = @ + Piece,
                       !.next = IF more THEN "program" ELSE "verify"]
  BY DEF Program, AttemptAt, FailAttempt, Spared, Strike
<1> HIDE DEF data
<1>2. /\ attempt'.done = attempt.done + Piece /\ attempt'.bytes = attempt.bytes
      /\ attempt'.offset = attempt.offset
      /\ attempt'.next = IF more THEN "program" ELSE "verify"
  BY <1>1 DEF TypeOK, Values, Attempts
<1>3. /\ Piece \in 1 .. Sector /\ attempt.done + Piece <= attempt.bytes
      /\ more => (attempt.done + Piece) % Sector = 0
      /\ o % Page = 0
  BY <1>1, Programs
<1>4. /\ attempt.offset \in Nat /\ attempt.done \in Nat /\ attempt.bytes \in Nat
      /\ attempt.bytes <= Window /\ Window \in Nat /\ o \in Nat /\ Piece \in Nat
  BY <1>1, <1>3, Attempted
<1>5. ASSUME ~ faulted', Fits(slot)'
      PROVE  /\ Staged(attempt.offset, attempt.done)'
             /\ BlankFrom(attempt.done)'
  <2>1. Fits(slot) /\ Piece % Page = 0
    BY <1>1, <1>5, Programs DEF Fits
  <2>2. mem' = Executed(mem, "program", o, Piece, data) /\ ~ faulted
    BY <1>1, <1>5
  <2>3. Staged(attempt.offset, attempt.done) /\ BlankFrom(attempt.done)
    BY <1>1, <2>1, <2>2 DEF ProgressInv, AttemptAt
  <2>4. ASSUME NEW p \in Pages
        PROVE  /\ Touches(attempt.offset, attempt.done + Piece, p) => mem'[p] = Image(p)
               /\ Touches(attempt.offset + (attempt.done + Piece),
                          Window - (attempt.done + Piece), p) => mem'[p] = Blank
    <3> DEFINE b == p * Page
    <3>0. b \in Int
      BY ConstantTypes DEF Constants, Pages
    <3>1. /\ Touches(attempt.offset, attempt.done, p) => mem[p] = Image(p)
          /\ Touches(o, Window - attempt.done, p) => mem[p] = Blank
      BY <2>3 DEF Staged, BlankFrom, PagesIn
    <3>2. CASE Touches(o, Piece, p)
      <4>1. mem'[p] = OverWritten(mem[p], data[p - o \div Page])
        BY <2>2, <3>2 DEF Executed
      <4>2. data[p - o \div Page] = Image(p)
        BY <1>3, <1>4, <2>1, <3>2, PieceData DEF data
      <4>3. o <= b /\ b < o + Piece
        BY <3>2 DEF Touches
      <4>4. Touches(o, Window - attempt.done, p)
        <5> HIDE DEF b
        <5>1. o <= b /\ b < o + (Window - attempt.done)
          BY <1>3, <1>4, <3>0, <4>3
        <5> QED
          BY <5>1 DEF Touches, b
      <4>5. mem'[p] = Image(p)
        BY <3>1, <4>1, <4>2, <4>4 DEF OverWritten
      <4>6. ~ Touches(attempt.offset + (attempt.done + Piece),
                          Window - (attempt.done + Piece), p)
        <5> HIDE DEF b
        <5>1. b < attempt.offset + (attempt.done + Piece)
          BY <1>3, <1>4, <3>0, <4>3
        <5>2. ~ (attempt.offset + (attempt.done + Piece) <= b)
          BY <1>4, <3>0, <5>1
        <5> QED
          BY <5>2 DEF Touches, b
      <4> QED
        BY <4>5, <4>6
    <3>3. CASE ~ Touches(o, Piece, p)
      <4>1. mem'[p] = mem[p]
        BY <2>2, <3>3 DEF Executed
      <4>2. ~ (o <= b /\ b < o + Piece)
        BY <3>3 DEF Touches
      <4>3. /\ Touches(attempt.offset, attempt.done + Piece, p) =>
                 Touches(attempt.offset, attempt.done, p)
            /\ Touches(attempt.offset + (attempt.done + Piece),
                          Window - (attempt.done + Piece), p) =>
                 Touches(o, Window - attempt.done, p)
        <5> HIDE DEF b
        <5>1. /\ (attempt.offset <= b /\ b < attempt.offset + (attempt.done + Piece)) =>
                   (attempt.offset <= b /\ b < attempt.offset + attempt.done)
              /\ (attempt.offset + (attempt.done + Piece) <= b
                  /\ b < attempt.offset + (attempt.done + Piece) + (Window - (attempt.done + Piece))) =>
                   (o <= b /\ b < o + (Window - attempt.done))
          BY <1>3, <1>4, <3>0, <4>2
        <5> QED
          BY <5>1 DEF Touches, b
      <4> QED
        BY <3>1, <4>1, <4>3
    <3> QED
      BY <3>2, <3>3
  <2> QED
    BY <1>2, <2>4 DEF Staged, BlankFrom, PagesIn
<1>6. more \/ attempt.done + Piece = attempt.bytes
  BY <1>3, <1>4
<1>7. attempt'.next = "verify" => attempt'.bytes = attempt'.done
  BY <1>2, <1>6
<1>8. ASSUME ~ faulted', Fits(slot)', attempt'.next = "verify"
      PROVE  Staged(attempt.offset, attempt.bytes)'
  BY <1>5, <1>7, <1>8 DEF Staged
<1> QED
  BY <1>2, <1>3, <1>5, <1>8 DEF ProgressInv

LEMMA ProgressStep ==
  ASSUME TypeOK, DueInv, ProgressInv, [Next]_vars
  PROVE  ProgressInv'
<1>1. CASE UNCHANGED <<mem, state, pc1, attempt, slot, faulted>>
  BY <1>1, ProgressSame
<1>2. CASE state' # "TRANSFER" \/ pc1' # "attempt"
  BY <1>2 DEF ProgressInv
<1>3. CASE Erase \/ Program
  BY <1>3, ProgressErased, ProgressProgrammed
<1>4. CASE BeginAttempt
  <2>1. attempt'.next = "erase" /\ attempt'.done = 0
    BY <1>4 DEF BeginAttempt
  <2> QED
    BY <2>1 DEF ProgressInv
<1>5. CASE TypeGuardCheck
  BY <1>1, <1>5, GuardCheckRefused DEF TypeGuardCheck, core1, recvr
<1>6. CASE Confirm
  BY <1>1, <1>2, <1>6 DEF Confirm, core1
<1>7. CASE Verify
  BY <1>2, <1>7 DEF Verify, FailAttempt
<1>8. CASE CheckEnable \/ PollNothing \/ Poll \/ NothingToFlash
  BY <1>2, <1>8 DEF CheckEnable, PollNothing, Poll, NothingToFlash
<1>9. CASE \E r \in Rates : PowerLoss(r)
  BY <1>2, <1>9 DEF PowerLoss, PowerUp
<1> QED
  BY <1>1, <1>3, <1>4, <1>5, <1>6, <1>7, <1>8, <1>9
  DEF Next, Core0, Core1, TypeUpdate, RunEnds, TypeRate, TearDown, SetUp, Tick,
      ReceiveStart, ReceiveWindow, ReceiveFinalize, core1, recvr, vars

\* The two halves of CommitsWhatFits: what is given up, and what is kept.
GivesUp == state = "TRANSFER" /\ slot.state = "ERROR" => faulted \/ ~ Fits(slot)

Committed == IF committed >= Windows THEN size ELSE committed * Window

Keeps == state \in {"TRANSFER", "COMPLETE"} => Staged(StagingOffset, Committed)

\* An attempt at a window that fits fails only when a fault strikes it.
LEMMA GivesUpStep ==
  ASSUME TypeOK, DueInv, ProgressInv, GivesUp, [Next]_vars
  PROVE  GivesUp'
<1>1. CASE UNCHANGED <<state, slot, faulted>>
  BY <1>1 DEF GivesUp, Fits
<1>2. CASE state' # "TRANSFER" \/ slot'.state # "ERROR"
  BY <1>2 DEF GivesUp
<1>0. slot \in Slots
  BY DEF TypeOK, Values
<1>3. CASE FailAttempt /\ state = "TRANSFER" /\ pc1 = "attempt" /\ (faulted' \/ ~ Fits(slot))
  <2>1. slot'.win = slot.win /\ slot'.bytes = slot.bytes
    BY <1>0, <1>3 DEF FailAttempt, Slots
  <2> QED
    BY <1>3, <2>1 DEF GivesUp, Fits
<1>4. CASE Erase
  <2>1. pc1 = "attempt" /\ state' = state
    BY <1>4 DEF Erase, AttemptAt
  <2>2. (slot' = slot /\ faulted' = faulted) \/ FailAttempt
    BY <1>4 DEF Erase, Spared
  <2>3. FailAttempt /\ state = "TRANSFER" /\ ~ UNCHANGED <<slot, faulted>> => faulted' \/ ~ Fits(slot)
    BY <1>4, <2>1, Erases DEF Erase, Strike, Spared
  <2> QED
    BY <1>1, <1>2, <1>3, <2>1, <2>2, <2>3
<1>5. CASE Program
  <2>1. AttemptAt("program") /\ pc1 = "attempt" /\ state' = state
    BY <1>5 DEF Program, AttemptAt
  <2>2. \/ slot' = slot /\ (faulted' = faulted \/ faulted' = TRUE)
        \/ FailAttempt /\ (Permitted("program", attempt.offset + attempt.done, Piece) => faulted' = TRUE)
    BY <1>5 DEF Program, Spared, Strike
  <2>3. CASE slot' = slot /\ (faulted' = faulted \/ faulted' = TRUE)
    BY <2>1, <2>3 DEF GivesUp, Fits
  <2>4. CASE FailAttempt /\ (Permitted("program", attempt.offset + attempt.done, Piece) => faulted' = TRUE)
    <3>1. state = "TRANSFER" => faulted' \/ ~ Fits(slot)
      BY <2>1, <2>4, Programs
    <3> QED
      BY <1>2, <1>3, <2>1, <2>4, <3>1
  <2> QED
    BY <2>2, <2>3, <2>4
<1>6. CASE Verify
  <2>1. pc1 = "attempt" /\ attempt.next = "verify" /\ state' = state /\ faulted' = faulted
    BY <1>6 DEF Verify, AttemptAt
  <2>2. slot'.state = "FREE" \/ (FailAttempt /\ ~ Staged(attempt.offset, attempt.bytes))
    BY <1>0, <1>6 DEF Verify, Slots
  <2>3. state = "TRANSFER" /\ ~ Staged(attempt.offset, attempt.bytes) => faulted' \/ ~ Fits(slot)
    BY <2>1 DEF ProgressInv
  <2> QED
    BY <1>2, <1>3, <2>1, <2>2, <2>3
<1>7. CASE Confirm \/ ReceiveStart
  BY <1>0, <1>1, <1>2, <1>7 DEF Confirm, ReceiveStart, Slots
<1>8. CASE ReceiveWindow \/ BeginAttempt \/ ReceiveFinalize
  BY <1>0, <1>2, <1>8 DEF ReceiveWindow, BeginAttempt, ReceiveFinalize, Slots
<1>9. CASE \E r \in Rates : PowerLoss(r)
  BY <1>2, <1>9 DEF PowerLoss, PowerUp
<1> QED
  BY <1>1, <1>4, <1>5, <1>6, <1>7, <1>8, <1>9
  DEF Next, Core0, Core1, TypeUpdate, RunEnds, TypeGuardCheck, TypeRate, TearDown, SetUp, Tick,
      CheckEnable, PollNothing, NothingToFlash, core1, recvr, vars

\* What an attempt erases and programs lies behind what is committed.
LEMMA KeptBehind ==
  ASSUME TypeOK, DueInv, state = "TRANSFER", Erase \/ Program,
         NEW p \in Pages, Touches(StagingOffset, committed * Window, p)
  PROVE  mem'[p] = mem[p]
<1>1. pc1 = "attempt"
  BY DEF Erase, Program, AttemptAt
<1>2. /\ attempt.offset \in Nat /\ attempt.done \in Nat
      /\ attempt.offset = StagingOffset + committed * Window
  BY <1>1, Attempted
<1>3. p * Page \in Int /\ p * Page < attempt.offset
  BY <1>2, ConstantTypes DEF Constants, Pages, Touches
<1>4. ASSUME NEW op, NEW o \in Nat, o >= attempt.offset, NEW n, NEW data
      PROVE  /\ Executed(mem, op, o, n, data)[p] = mem[p]
             /\ Interrupted(mem, o, n)[p] = mem[p]
  <2>1. ~ Touches(o, n, p)
    BY <1>2, <1>3, <1>4 DEF Touches
  <2> QED
    BY <2>1 DEF Executed, Interrupted
<1>5. CASE Erase
  BY <1>2, <1>4, <1>5 DEF Erase
<1>6. CASE Program
  <2> DEFINE o == attempt.offset + attempt.done
             data == [j \in 0 .. Piece \div Page - 1 |-> Image(o \div Page + j)]
  <2>1. \/ mem' = mem
        \/ mem' = Executed(mem, "program", o, Piece, data)
        \/ mem' = Interrupted(mem, o, Piece)
    BY <1>6, Zenon DEF Program
  <2>2. o \in Nat /\ o >= attempt.offset
    BY <1>2
  <2> HIDE DEF o, data
  <2> QED
    BY <1>4, <2>1, <2>2
<1> QED
  BY <1>5, <1>6

LEMMA KeepsSame == Keeps /\ UNCHANGED <<mem, state, size, committed>> => Keeps'
BY DEF Keeps, Committed, Windows, Staged

\* What is committed stays in the flash, and a window that was verified joins it.
LEMMA KeepsStep ==
  ASSUME TypeOK, DueInv, Keeps, [Next]_vars
  PROVE  Keeps'
<1>1. CASE UNCHANGED <<mem, state, size, committed>>
  BY <1>1, KeepsSame
<1>2. CASE state' \notin {"TRANSFER", "COMPLETE"}
  BY <1>2 DEF Keeps
<1>3. CASE Erase \/ Program
  <2>1. /\ pc1 = "attempt" /\ UNCHANGED <<state, size, committed>>
    BY <1>3 DEF Erase, Program, AttemptAt, FailAttempt
  <2> SUFFICES ASSUME state = "TRANSFER" PROVE Keeps'
    BY <1>2, <2>1 DEF DueInv, Keeps
  <2>2. ~ (committed >= Windows)
    <3>1. committed < Windows /\ committed \in Nat /\ Windows \in Int
      BY <2>1, Attempted, ConstantTypes DEF TypeOK, Values, Constants, Windows
    <3> QED
      BY <3>1
  <2>3. Committed = committed * Window /\ Committed' = committed * Window
    BY <2>1, <2>2 DEF Committed, Windows
  <2>4. ASSUME NEW p \in Pages, Touches(StagingOffset, committed * Window, p)
        PROVE  mem'[p] = Image(p)
    <3>1. mem[p] = Image(p)
      BY <2>3, <2>4 DEF Keeps, Staged, PagesIn
    <3> QED
      BY <1>3, <2>4, <3>1, KeptBehind
  <2> QED
    BY <2>3, <2>4 DEF Keeps, Staged, PagesIn
<1>4. CASE Verify
  <2>1. /\ pc1 = "attempt" /\ UNCHANGED <<mem, state, size>>
        /\ \/ committed' = committed
           \/ Staged(attempt.offset, attempt.bytes) /\ committed' = committed + 1
    BY <1>4 DEF Verify, AttemptAt, FailAttempt
  <2> SUFFICES ASSUME state = "TRANSFER", Staged(attempt.offset, attempt.bytes),
                      committed' = committed + 1
               PROVE  Keeps'
    BY <1>1, <1>2, <2>1 DEF DueInv
  <2>2. /\ committed < Windows /\ committed \in Nat /\ Windows \in Int
        /\ attempt.offset = StagingOffset + committed * Window /\ committed * Window \in Nat
        /\ attempt.bytes = DueBytes /\ attempt.bytes \in Nat /\ StagingOffset \in Nat
    BY <2>1, Attempted, ConstantTypes DEF TypeOK, Values, Constants, Windows
  <2>3. Committed = committed * Window
    BY <2>2 DEF Committed
  <2>4. Committed' = committed * Window + DueBytes
    <3>1. Committed' = IF committed + 1 >= Windows THEN size ELSE (committed + 1) * Window
      BY <2>1 DEF Committed, Windows
    <3> QED
      BY <2>2, <3>1, Due DEF TypeOK
  <2>5. ASSUME NEW p \in Pages, Touches(StagingOffset, committed * Window + DueBytes, p)
        PROVE  mem[p] = Image(p)
    <3> DEFINE b == p * Page
               a == committed * Window
    <3>0. b \in Int
      BY ConstantTypes DEF Constants, Pages
    <3>1. StagingOffset <= b /\ b < StagingOffset + (a + DueBytes)
      BY <2>5 DEF Touches
    <3> HIDE DEF a, b
    <3>2. CASE b < StagingOffset + a
      <4>1. Touches(StagingOffset, a, p)
        BY <3>1, <3>2 DEF Touches, b
      <4> QED
        BY <2>3, <4>1 DEF Keeps, Staged, PagesIn, a
    <3>3. CASE ~ (b < StagingOffset + a)
      <4>1. a \in Nat /\ attempt.offset = StagingOffset + a
        BY <2>2 DEF a
      <4>2. attempt.offset <= b /\ b < attempt.offset + attempt.bytes
        BY <2>2, <3>0, <3>1, <3>3, <4>1
      <4> QED
        BY <4>2 DEF Staged, PagesIn, Touches, b
    <3> QED
      BY <3>2, <3>3
  <2> QED
    BY <2>1, <2>4, <2>5 DEF Keeps, Staged, PagesIn
<1>5. CASE ReceiveStart
  <2>1. /\ UNCHANGED mem /\ size' = session /\ committed' = 0 /\ session \in ImageSizes
    BY <1>5 DEF ReceiveStart, Poll, TypeOK, Values
  <2>2. Committed' = 0
    <3>1. session \in Nat /\ session >= 1 /\ Window \in Nat \ {0}
      BY <2>1, OtaBenchAssumption, ConstantTypes DEF Constants
    <3>2. (session + Window - 1) \div Window >= 1
      BY <3>1
    <3>3. ~ (0 >= (session + Window - 1) \div Window) /\ 0 * Window = 0
      BY <3>1, <3>2
    <3> QED
      BY <2>1, <3>3 DEF Committed, Windows
  <2>3. ASSUME NEW p \in Pages PROVE ~ Touches(StagingOffset, 0, p)
    <3>1. p * Page \in Int /\ StagingOffset \in Nat
      BY ConstantTypes DEF Constants, Pages
    <3> QED
      BY <3>1 DEF Touches
  <2> QED
    BY <2>2, <2>3 DEF Keeps, Staged, PagesIn
<1>6. CASE ReceiveFinalize
  <2>1. /\ UNCHANGED <<mem, size, committed>> /\ committed >= Windows
        /\ state' = "COMPLETE" => Staged(StagingOffset, size)
        /\ state' \in {"COMPLETE", "ABORTED"}
    BY <1>6 DEF ReceiveFinalize, Poll
  <2>2. Committed' = size
    BY <2>1 DEF Committed, Windows
  <2> QED
    BY <2>1, <2>2 DEF Keeps, Staged
<1>7. CASE Confirm
  BY <1>1, <1>2, <1>7 DEF Confirm
<1>8. CASE TypeGuardCheck
  BY <1>1, <1>8, GuardCheckRefused DEF TypeGuardCheck, recvr
<1>9. CASE \E r \in Rates : PowerLoss(r)
  BY <1>2, <1>9 DEF PowerLoss, PowerUp
<1>10. CASE ReceiveWindow \/ BeginAttempt
  BY <1>1, <1>10 DEF ReceiveWindow, Poll, BeginAttempt
<1> QED
  BY <1>1, <1>3, <1>4, <1>5, <1>6, <1>7, <1>8, <1>9, <1>10
  DEF Next, Core0, Core1, TypeUpdate, RunEnds, TypeRate, TearDown, SetUp, Tick,
      CheckEnable, PollNothing, NothingToFlash, recvr, vars

\* An attempt, its window and the flash under it agree.
FlashedInv == DueInv /\ ProgressInv /\ GivesUp /\ Keeps

\* CommitsWhatFits: ota_receiver_step_flash gives a window up only because a fault
\* struck it or the flash cannot take it, and every window it committed is in the
\* flash, and stays there until the session is over.
THEOREM Flashed == Spec => []CommitsWhatFits
<1>1. Init => FlashedInv
  BY DEF Init, FlashedInv, DueInv, ProgressInv, GivesUp, Keeps
<1>2. TypeOK /\ FlashedInv /\ [Next]_vars => FlashedInv'
  BY DueStep, ProgressStep, GivesUpStep, KeepsStep DEF FlashedInv
<1>3. FlashedInv => CommitsWhatFits
  BY DEF FlashedInv, GivesUp, Keeps, Committed, CommitsWhatFits
<1> QED
  BY <1>1, <1>2, <1>3, BenchType, PTL DEF Spec

=============================================================================
