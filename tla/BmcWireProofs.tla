---------------------------- MODULE BmcWireProofs ----------------------------
(***************************************************************************)
(* What was sent is what is decoded, for words and frames of every length, *)
(* all data, every stall and every lateness within the margins: the state  *)
(* machines of the two boards keep step with each other, cycle by cycle.   *)
(*                                                                         *)
(* The theorems assume of the hardware that the transmitter reads its pin  *)
(* back within four cycles, which is the shortest distance of two edges,   *)
(* and that a line rests for at least fifteen cycles between two frames,   *)
(* which is what the slowest receiver takes to finish with a bit.          *)
(***************************************************************************)
EXTENDS BmcWire, SequenceTheorems, TLAPS

-----------------------------------------------------------------------------
(* What the delays of a program must satisfy.                              *)

Half   == program.half
Sample == program.sample
Period == 6 + 2 * Half

\* The first sample comes a cycle early where no nop follows the first wait.
Early == IF program.lead THEN 0 ELSE 1

\* The sample is after the middle edge, however late that is, and before the
\* next edge, however late the first was; edges are further apart than late.
Timing ==
  /\ Half \in 1 .. 5 /\ Sample \in 1 .. 9 /\ Jitter \in 1 .. 3
  /\ program.lead \in BOOLEAN /\ program.keep = Half + 1
  /\ Jitter <= Half /\ Half + Jitter + Early <= Sample
  /\ Sample + Jitter <= 2 * Half + 2

-----------------------------------------------------------------------------
(* The transmitter.                                                        *)

InCell == {"out", "jmp_x", "is_zero", "middle", "jmp_check", "check_bit"}
Between == {"mov_y", "word", "edge", "jmp_y", "end", "irq", "set", "header"}
Frame  == InCell \cup {"mov_y", "word", "edge", "jmp_y"}

\* How long an instruction may be delayed.
TxHold ==
  IF tx.pc \in {"is_zero", "middle", "jmp_check"} THEN Half
  ELSE IF tx.pc = "check_bit" THEN IF x = 0 THEN Half + 1 ELSE 0
  ELSE 0

TxPlace ==
  /\ tx \in [pc : InCell \cup Between, hold : 0 .. 6] /\ tx.hold <= TxHold
  /\ tx.pc \in {"is_zero"} => x = 0
  /\ tx.pc \in {"middle", "jmp_check"} => x = 1

TxNumbers ==
  /\ words \in 0 .. NWords - 1 /\ bits \in 0 .. WordBits /\ x \in {0, 1}
  /\ age \in 0 .. ReadBack /\ late \in 0 .. 3 /\ idle \in 0 .. MinIdle
  /\ tx.pc \in {"edge", "out"} => bits >= 1
  /\ tx.pc = "mov_y" => words = NWords - 1
  /\ tx.pc = "jmp_y" => bits = 0

TxFlags == oddZeros \in BOOLEAN /\ pin \in BOOLEAN

\* The cycles since the last edge, as far as they matter.
Since ==
  IF tx.pc = "out" THEN 1
  ELSE IF tx.pc = "jmp_x" THEN 2
  ELSE IF tx.pc \in {"is_zero", "middle"} THEN 3 + Half - tx.hold
  ELSE IF tx.pc = "jmp_check" THEN 1 + Half - tx.hold
  ELSE IF tx.pc = "check_bit" THEN IF x = 0 THEN 5 + 2 * Half - tx.hold ELSE 2 + Half
  ELSE 3 + Half

\* The edge is seen in time, by the receiver and by the transmitter itself.
EdgeInv ==
  /\ late = 0 \/ late + Since <= 1 + Jitter
  /\ age >= Since \/ age = ReadBack

\* A bit has one edge or two: the level tells whether the 0s so far are even.
Halfway == tx.pc \in {"out", "middle"} \/ (tx.pc = "jmp_x" /\ x = 1)
LevelInv ==
  /\ tx.pc \in {"end", "irq", "set", "header", "mov_y"} => pin
  /\ tx.pc = "mov_y" => ~ oddZeros
  /\ tx.pc \in Frame => pin = IF Halfway THEN oddZeros ELSE ~ oddZeros
  /\ words = 0 /\ tx.pc \in Frame => ~ oddZeros
  /\ words = 1 /\ bits = 0 /\ tx.pc \in {"jmp_x", "is_zero", "middle", "jmp_check", "check_bit", "jmp_y"}
       => ~ oddZeros
  /\ words = 0 /\ tx.pc \in {"jmp_x", "is_zero", "middle", "jmp_check", "check_bit"} => x = 1

TxInv == program \in {Std, Mid12, Mid10, Fast} /\ TxPlace /\ TxNumbers /\ TxFlags /\ EdgeInv /\ LevelInv

-----------------------------------------------------------------------------
(* The receiver.                                                           *)

Waits == {"wait_sop", "wait_0", "wait_1"}
Nops  == {"nop", "jmp_was_low", "jmp_was_high"}
Picks == {"was_low", "was_high"}
Tests == {"test_low", "test_high"}
Busy  == Nops \cup Picks \cup Tests \cup Ones \cup Zeros

RxTypes ==
  /\ rx \in [pc : {"off"} \cup Waits \cup Busy, hold : 0 .. 9]
  /\ rx.hold <= IF rx.pc \in Tests THEN Sample ELSE 0
  /\ rx.pc = "nop" => program.lead

\* The cycles since the receiver saw the edge of the bit.
Progress ==
  IF rx.pc \in Nops THEN 1
  ELSE IF rx.pc \in Picks THEN 2
  ELSE IF rx.pc \in Tests THEN 3 + Sample - rx.hold
  ELSE 4 + Sample

\* How many cycles of a High line it takes the receiver to wait for Low.
Restless ==
  IF rx.pc \in {"off", "wait_sop", "wait_0"} THEN 0
  ELSE IF rx.pc = "wait_1" THEN 5 + Sample
  ELSE IF rx.pc \in {"got_0_from_low", "got_1_from_high"} THEN 6 + Sample
  ELSE 5 + Sample - Progress

\* The receiver waits for the line to leave, or to reach, a level.
WaitsFor(level) == rx.pc \in IF level THEN {"wait_1"} ELSE {"wait_0", "wait_sop"}

\* The cycles since the edge of the bit that the receiver is busy with.
Position ==
  IF tx.pc = "jmp_x" THEN 2
  ELSE IF tx.pc \in {"is_zero", "middle"} THEN 3 + Half - tx.hold
  ELSE IF tx.pc = "jmp_check" THEN 4 + 2 * Half - tx.hold
  ELSE IF tx.pc = "check_bit" THEN 5 + 2 * Half - tx.hold
  ELSE IF tx.pc \in {"edge", "jmp_y"} THEN Period
  ELSE Period + 1

\* The level of the first half of that bit.
First ==
  IF tx.pc \in {"jmp_x", "is_zero", "middle"} THEN pin
  ELSE IF tx.pc = "out" THEN pin = (x = 1)
  ELSE pin = (x = 0)

\* The edge of the next bit is awaited, and not there yet.
Opening == {"out", "jmp_x", "is_zero", "middle"}
Ready == tx.pc \notin Opening /\ late = 0 /\ WaitsFor(~ pin) /\ inflight = <<>>

\* The edge is there, but not seen yet.
Looks ==
  /\ tx.pc \in Opening /\ Since <= 1 + Jitter
  /\ WaitsFor(pin)
  /\ inflight = IF tx.pc = "out" THEN <<>> ELSE <<x>>

\* The bit is being sampled.
FromLow == {"nop", "jmp_was_low", "was_low", "test_low", "got_0_from_low", "got_1_from_low"}
Samples ==
  /\ rx.pc \in Busy /\ tx.pc \notin {"mov_y", "irq", "set", "header"}
  /\ Position - Progress \in (1 - Early) .. 1 + Jitter
  /\ inflight = <<x>>
  /\ rx.pc \in FromLow <=> ~ First
  /\ rx.pc \in Ones => x = 1
  /\ rx.pc \in Zeros => x = 0

RxInv ==
  /\ RxTypes /\ synced \in BOOLEAN
  /\ synced => rx.pc # "off" /\ (Ready \/ Looks \/ Samples)
  /\ ~ synced => inflight = <<>>
  /\ tx.pc = "header" => Restless <= MinIdle - idle \/ Restless = 0

WireInv == TxInv /\ RxInv

-----------------------------------------------------------------------------
(* The four programs keep to the timing.                                   *)

\* The delays of bmc_p2p.pio, bmc_p2p_mid12.pio, bmc_p2p_mid10.pio and
\* bmc_p2p_fast.pio leave the margins their comments claim.
LEMMA ProgramTiming ==
  ASSUME program \in {Std, Mid12, Mid10, Fast}
  PROVE  Timing
<1>1. CASE program = Std
  BY <1>1 DEF Timing, Half, Sample, Early, Jitter, Least, Std
<1>2. CASE program = Mid12
  BY <1>2 DEF Timing, Half, Sample, Early, Jitter, Least, Mid12
<1>3. CASE program = Mid10
  BY <1>3 DEF Timing, Half, Sample, Early, Jitter, Least, Mid10
<1>4. CASE program = Fast
  BY <1>4 DEF Timing, Half, Sample, Early, Jitter, Least, Fast
<1> QED BY <1>1, <1>2, <1>3, <1>4

\* A board does not change its program.
LEMMA SameProgram ==
  ASSUME program' = program
  PROVE  /\ Half' = Half /\ Sample' = Sample /\ Jitter' = Jitter
         /\ Early' = Early /\ Period' = Period
BY DEF Half, Sample, Jitter, Early, Period

\* The numbers the other proofs need of a program.
LEMMA Delays ==
  ASSUME TxInv
  PROVE  /\ Half \in 1 .. 5 /\ Sample \in 1 .. 9 /\ Jitter \in 1 .. 3 /\ Early \in 0 .. 1
         /\ program.half = Half /\ program.sample = Sample /\ program.keep = Half + 1
         /\ program.lead \in BOOLEAN
         /\ Jitter <= Half /\ Half + Jitter + Early <= Sample
         /\ Sample + Jitter <= 2 * Half + 2 /\ Period = 6 + 2 * Half
<1>1. Timing
  BY ProgramTiming DEF TxInv
<1> QED BY <1>1 DEF Timing, Early, Half, Sample, Period

\* What an edge does to the line.
LEMMA DriveChanges ==
  ASSUME TxInv, NEW level \in BOOLEAN, level # pin, Drive(level)
  PROVE  pin' = level /\ age' = 1 /\ late' \in 0 .. Jitter
BY DEF Drive

\* `mov pins, !pins' is an edge: the pin has settled since the last one.
LEMMA FlipChanges ==
  ASSUME TxInv, ReadBack \in 1 .. 4, tx.pc \in {"edge", "middle"}, tx.hold = 0, Flip
  PROVE  pin' = ~ pin /\ age' = 1 /\ late' \in 0 .. Jitter
<1>1. Since = 3 + Half
  BY Delays DEF Since
<1>2. age >= ReadBack
  BY <1>1, Delays DEF TxInv, EdgeInv, TxNumbers
<1>3. Drive(~ pin)
  BY <1>2 DEF Flip
<1>4. pin \in BOOLEAN
  BY DEF TxInv, TxFlags
<1> QED BY <1>3, <1>4, DriveChanges

-----------------------------------------------------------------------------
(* The transmitter keeps its invariant, whatever the receiver does.        *)

\* One cycle without an edge.
LEMMA KeepChanges ==
  ASSUME TxInv, Keep
  PROVE  /\ pin' = pin /\ late' \in 0 .. 3 /\ age' \in 0 .. ReadBack
         /\ late' = 0 \/ late' = late - 1
         /\ age' >= age /\ (age' = age + 1 \/ age' = ReadBack)
<1>1. age \in 0 .. ReadBack /\ late \in 0 .. 3 /\ ReadBack \in Nat
  BY BmcWireAssumption DEF TxInv, TxNumbers
<1> QED BY <1>1 DEF Keep, Least

\* Every step of the transmitter keeps its place, the time of the last edge and
\* the level that its 0s make.
LEMMA TxKept ==
  ASSUME TxInv, ReadBack \in 1 .. 4, Tx, program' = program
  PROVE  TxInv'
<1>1. /\ Half \in 1 .. 5 /\ Jitter \in 1 .. 3 /\ Jitter <= Half
      /\ program.half = Half /\ program.keep = Half + 1
      /\ Half' = Half /\ Jitter' = Jitter
  BY Delays, SameProgram
<1>2. /\ tx \in [pc : InCell \cup Between, hold : 0 .. 6] /\ NWords \in Nat \ {0, 1}
      /\ WordBits \in Nat \ {0} /\ MinIdle \in Nat
  BY BmcWireAssumption DEF TxInv, TxPlace
<1>3. program' \in {Std, Mid12, Mid10, Fast}
  BY DEF TxInv
<1>4. CASE TxDelay
  <2>1. TxPlace'
    BY <1>1, <1>2, <1>4 DEF TxInv, TxPlace, TxNumbers, TxHold, InCell, Between, TxDelay, TxAt, TxGo
  <2>2. TxNumbers'
    BY <1>1, <1>2, <1>4, KeepChanges DEF TxInv, TxNumbers, TxDelay, TxAt, TxGo
  <2>3. TxFlags'
    BY <1>4, KeepChanges DEF TxInv, TxFlags, TxDelay, TxAt, TxGo
  <2>4. EdgeInv'
    BY <1>1, <1>2, <1>4, KeepChanges DEF TxInv, TxPlace, TxNumbers, EdgeInv, TxHold, Since, InCell, Between, TxDelay, TxAt, TxGo
  <2>5. LevelInv'
    BY <1>1, <1>2, <1>4, KeepChanges DEF TxInv, TxPlace, TxNumbers, TxFlags, LevelInv, Halfway, Frame, InCell, Between, TxDelay, TxAt, TxGo
  <2> QED BY <1>3, <2>1, <2>2, <2>3, <2>4, <2>5 DEF TxInv
<1>5. CASE TxIdle
  <2>0. Keep
    BY <1>5 DEF TxIdle, TxAt, Drive, TxInv, LevelInv
  <2>1. TxPlace'
    BY <1>1, <1>2, <1>5 DEF TxInv, TxPlace, TxNumbers, TxHold, InCell, Between, TxIdle, TxAt, TxGo
  <2>2. TxNumbers'
    BY <1>1, <1>2, <1>5, KeepChanges, <2>0 DEF TxInv, TxNumbers, TxIdle, TxAt, TxGo
  <2>3. TxFlags'
    BY <1>5, KeepChanges, <2>0 DEF TxInv, TxFlags, TxIdle, TxAt, TxGo
  <2>4. EdgeInv'
    BY <1>1, <1>2, <1>5, KeepChanges, <2>0 DEF TxInv, TxPlace, TxNumbers, EdgeInv, TxHold, Since, InCell, Between, TxIdle, TxAt, TxGo
  <2>5. LevelInv'
    BY <1>1, <1>2, <1>5, KeepChanges, <2>0 DEF TxInv, TxPlace, TxNumbers, TxFlags, LevelInv, Halfway, Frame, InCell, Between, TxIdle, TxAt, TxGo
  <2> QED BY <1>3, <2>1, <2>2, <2>3, <2>4, <2>5 DEF TxInv
<1>6. CASE TxHeader
  <2>1. TxPlace'
    BY <1>1, <1>2, <1>6 DEF TxInv, TxPlace, TxNumbers, TxHold, InCell, Between, TxHeader, TxAt, TxGo, Least
  <2>2. TxNumbers'
    BY <1>1, <1>2, <1>6, KeepChanges DEF TxInv, TxNumbers, TxHeader, TxAt, TxGo, Least
  <2>3. TxFlags'
    BY <1>6, KeepChanges DEF TxInv, TxFlags, TxHeader, TxAt, TxGo, Least
  <2>4. EdgeInv'
    BY <1>1, <1>2, <1>6, KeepChanges DEF TxInv, TxPlace, TxNumbers, EdgeInv, TxHold, Since, InCell, Between, TxHeader, TxAt, TxGo, Least
  <2>5. LevelInv'
    <3>1. pin' /\ tx'.pc \in {"mov_y", "header"}
      <4>1. pin /\ Keep
        BY <1>6 DEF TxHeader, TxAt, TxInv, LevelInv
      <4>2. pin'
        BY <4>1, KeepChanges, Zenon
      <4> QED BY <1>6, <4>2 DEF TxHeader, TxAt, TxGo
    <3>2. tx'.pc = "mov_y" => ~ oddZeros' /\ words' = NWords - 1
      BY <1>6 DEF TxHeader, TxAt, TxGo
    <3> QED BY <1>2, <3>1, <3>2 DEF LevelInv, Halfway, Frame, InCell
  <2> QED BY <1>3, <2>1, <2>2, <2>3, <2>4, <2>5 DEF TxInv
<1>7. CASE TxMovY
  <2>1. TxPlace'
    BY <1>1, <1>2, <1>7 DEF TxInv, TxPlace, TxNumbers, TxHold, InCell, Between, TxMovY, TxAt, TxGo
  <2>2. TxNumbers'
    BY <1>1, <1>2, <1>7, KeepChanges DEF TxInv, TxNumbers, TxMovY, TxAt, TxGo
  <2>3. TxFlags'
    BY <1>7, KeepChanges DEF TxInv, TxFlags, TxMovY, TxAt, TxGo
  <2>4. EdgeInv'
    BY <1>1, <1>2, <1>7, KeepChanges DEF TxInv, TxPlace, TxNumbers, EdgeInv, TxHold, Since, InCell, Between, TxMovY, TxAt, TxGo
  <2>5. LevelInv'
    BY <1>1, <1>2, <1>7, KeepChanges DEF TxInv, TxPlace, TxNumbers, TxFlags, LevelInv, Halfway, Frame, InCell, Between, TxMovY, TxAt, TxGo
  <2> QED BY <1>3, <2>1, <2>2, <2>3, <2>4, <2>5 DEF TxInv
<1>8. CASE TxWord
  <2>1. TxPlace'
    BY <1>1, <1>2, <1>8 DEF TxInv, TxPlace, TxNumbers, TxHold, InCell, Between, TxWord, TxAt, TxGo
  <2>2. TxNumbers'
    BY <1>1, <1>2, <1>8, KeepChanges DEF TxInv, TxNumbers, TxWord, TxAt, TxGo
  <2>3. TxFlags'
    BY <1>8, KeepChanges DEF TxInv, TxFlags, TxWord, TxAt, TxGo
  <2>4. EdgeInv'
    BY <1>1, <1>2, <1>8, KeepChanges DEF TxInv, TxPlace, TxNumbers, EdgeInv, TxHold, Since, InCell, Between, TxWord, TxAt, TxGo
  <2>5. LevelInv'
    BY <1>1, <1>2, <1>8, KeepChanges DEF TxInv, TxPlace, TxNumbers, TxFlags, LevelInv, Halfway, Frame, InCell, Between, TxWord, TxAt, TxGo
  <2> QED BY <1>3, <2>1, <2>2, <2>3, <2>4, <2>5 DEF TxInv
<1>9. CASE TxEdge
  <2>0. pin' = ~ pin /\ age' = 1 /\ late' \in 0 .. Jitter
    BY <1>9, FlipChanges DEF TxEdge, TxAt
  <2>1. TxPlace'
    BY <1>1, <1>2, <1>9 DEF TxInv, TxPlace, TxNumbers, TxHold, InCell, Between, TxEdge, TxAt, TxGo
  <2>2. TxNumbers'
    BY <1>1, <1>2, <1>9, <2>0 DEF TxInv, TxNumbers, TxEdge, TxAt, TxGo
  <2>3. TxFlags'
    BY <1>9, <2>0 DEF TxInv, TxFlags, TxEdge, TxAt, TxGo
  <2>4. EdgeInv'
    <3>1. PICK s : s = Since' /\ s = 1
      BY <1>1, <1>9 DEF TxEdge, TxGo, Since
    <3>2. PICK l : l = late' /\ l \in 0 .. Jitter
      BY <2>0
    <3>3. l = 0 \/ l + s <= 1 + Jitter'
      <4>1. PICK j : j = Jitter /\ j \in 1 .. 3
        BY <1>1
      <4>2. s = 1 /\ l \in 0 .. j
        BY <3>1, <3>2, <4>1, Zenon
      <4>3. l + s <= 1 + j
        BY <4>1, <4>2
      <4> QED BY <1>1, <4>1, <4>3, Zenon
    <3> QED BY <2>0, <3>1, <3>2, <3>3 DEF EdgeInv
  <2>5. LevelInv'
    BY <1>1, <1>2, <1>9, <2>0 DEF TxInv, TxPlace, TxNumbers, TxFlags, LevelInv, Halfway, Frame, InCell, Between, TxEdge, TxAt, TxGo
  <2> QED BY <1>3, <2>1, <2>2, <2>3, <2>4, <2>5 DEF TxInv
<1>10. CASE TxOut
  <2>1. TxPlace'
    BY <1>1, <1>2, <1>10 DEF TxInv, TxPlace, TxNumbers, TxHold, InCell, Between, TxOut, TxAt, TxGo, FrameBits
  <2>2. TxNumbers'
    BY <1>1, <1>2, <1>10, KeepChanges DEF TxInv, TxNumbers, TxOut, TxAt, TxGo, FrameBits
  <2>3. TxFlags'
    BY <1>10, KeepChanges DEF TxInv, TxFlags, TxOut, TxAt, TxGo, FrameBits
  <2>4. EdgeInv'
    BY <1>1, <1>2, <1>10, KeepChanges DEF TxInv, TxPlace, TxNumbers, EdgeInv, TxHold, Since, InCell, Between, TxOut, TxAt, TxGo, FrameBits
  <2>5. LevelInv'
    <3>1. /\ tx.pc = "out" /\ tx'.pc = "jmp_x" /\ pin' = pin /\ words' = words /\ bits' = bits - 1
          /\ pin = oddZeros /\ (words = 0 => ~ oddZeros) /\ bits \in Nat
      BY <1>10, KeepChanges DEF TxOut, TxAt, TxGo, TxInv, LevelInv, Halfway, Frame, InCell, TxNumbers
    <3>2. (x' = 0 \/ x' = 1) /\ oddZeros' = (oddZeros # (x' = 0)) /\ (words = 0 => x' = 1)
      BY <1>10 DEF TxOut, FrameBits
    <3>3. words = 1 /\ bits' = 0 => x' = IF oddZeros THEN 0 ELSE 1
      BY <1>10, <3>1 DEF TxOut, FrameBits
    <3>4. oddZeros \in BOOLEAN /\ pin \in BOOLEAN
      BY DEF TxInv, TxFlags
    <3>5. /\ pin' = IF x' = 1 THEN oddZeros' ELSE ~ oddZeros'
          /\ words' = 0 => ~ oddZeros' /\ x' = 1
          /\ words' = 1 /\ bits' = 0 => ~ oddZeros'
      <4>1. CASE x' = 1
        BY <3>1, <3>2, <3>3, <3>4, <4>1
      <4>2. CASE x' = 0
        <5>1. oddZeros' = ~ oddZeros /\ words # 0
          BY <3>2, <3>4, <4>2
        <5>2. words = 1 /\ bits' = 0 => oddZeros
          BY <3>3, <4>2
        <5>3. pin' = ~ oddZeros'
          BY <3>1, <3>4, <5>1, Zenon
        <5>4. words' = 1 /\ bits' = 0 => ~ oddZeros'
          BY <3>1, <5>1, <5>2, Zenon
        <5> QED BY <3>1, <4>2, <5>1, <5>3, <5>4
      <4> QED BY <3>2, <4>1, <4>2
    <3> QED BY <3>1, <3>5 DEF LevelInv, Halfway, Frame, InCell
  <2> QED BY <1>3, <2>1, <2>2, <2>3, <2>4, <2>5 DEF TxInv
<1>11. CASE TxJmpX
  <2>1. TxPlace'
    BY <1>1, <1>2, <1>11 DEF TxInv, TxPlace, TxNumbers, TxHold, InCell, Between, TxJmpX, TxAt, TxGo
  <2>2. TxNumbers'
    BY <1>1, <1>2, <1>11, KeepChanges DEF TxInv, TxNumbers, TxJmpX, TxAt, TxGo
  <2>3. TxFlags'
    BY <1>11, KeepChanges DEF TxInv, TxFlags, TxJmpX, TxAt, TxGo
  <2>4. EdgeInv'
    BY <1>1, <1>2, <1>11, KeepChanges DEF TxInv, TxPlace, TxNumbers, EdgeInv, TxHold, Since, InCell, Between, TxJmpX, TxAt, TxGo
  <2>5. LevelInv'
    BY <1>1, <1>2, <1>11, KeepChanges DEF TxInv, TxPlace, TxNumbers, TxFlags, LevelInv, Halfway, Frame, InCell, Between, TxJmpX, TxAt, TxGo
  <2> QED BY <1>3, <2>1, <2>2, <2>3, <2>4, <2>5 DEF TxInv
<1>12. CASE TxMiddle
  <2>0. pin' = ~ pin /\ age' = 1 /\ late' \in 0 .. Jitter
    BY <1>12, FlipChanges DEF TxMiddle, TxAt
  <2>1. TxPlace'
    BY <1>1, <1>2, <1>12 DEF TxInv, TxPlace, TxNumbers, TxHold, InCell, Between, TxMiddle, TxAt, TxGo
  <2>2. TxNumbers'
    BY <1>1, <1>2, <1>12, <2>0 DEF TxInv, TxNumbers, TxMiddle, TxAt, TxGo
  <2>3. TxFlags'
    BY <1>12, <2>0 DEF TxInv, TxFlags, TxMiddle, TxAt, TxGo
  <2>4. EdgeInv'
    <3>1. PICK s : s = Since' /\ s = 1
      BY <1>1, <1>12 DEF TxMiddle, TxGo, TxAt, Since
    <3>2. PICK l : l = late' /\ l \in 0 .. Jitter
      BY <2>0
    <3>3. l = 0 \/ l + s <= 1 + Jitter'
      <4>1. PICK j : j = Jitter /\ j \in 1 .. 3
        BY <1>1
      <4>2. s = 1 /\ l \in 0 .. j
        BY <3>1, <3>2, <4>1, Zenon
      <4>3. l + s <= 1 + j
        BY <4>1, <4>2
      <4> QED BY <1>1, <4>1, <4>3, Zenon
    <3> QED BY <2>0, <3>1, <3>2, <3>3 DEF EdgeInv
  <2>5. LevelInv'
    BY <1>1, <1>2, <1>12, <2>0 DEF TxInv, TxPlace, TxNumbers, TxFlags, LevelInv, Halfway, Frame, InCell, Between, TxMiddle, TxAt, TxGo
  <2> QED BY <1>3, <2>1, <2>2, <2>3, <2>4, <2>5 DEF TxInv
<1>13. CASE TxRestOfCell
  <2>1. TxPlace'
    BY <1>1, <1>2, <1>13 DEF TxInv, TxPlace, TxNumbers, TxHold, InCell, Between, TxRestOfCell, TxAt, TxGo
  <2>2. TxNumbers'
    BY <1>1, <1>2, <1>13, KeepChanges DEF TxInv, TxNumbers, TxRestOfCell, TxAt, TxGo
  <2>3. TxFlags'
    BY <1>13, KeepChanges DEF TxInv, TxFlags, TxRestOfCell, TxAt, TxGo
  <2>4. EdgeInv'
    BY <1>1, <1>2, <1>13, KeepChanges DEF TxInv, TxPlace, TxNumbers, EdgeInv, TxHold, Since, InCell, Between, TxRestOfCell, TxAt, TxGo
  <2>5. LevelInv'
    BY <1>1, <1>2, <1>13, KeepChanges DEF TxInv, TxPlace, TxNumbers, TxFlags, LevelInv, Halfway, Frame, InCell, Between, TxRestOfCell, TxAt, TxGo
  <2> QED BY <1>3, <2>1, <2>2, <2>3, <2>4, <2>5 DEF TxInv
<1>14. CASE TxCheckBit
  <2>1. TxPlace'
    BY <1>1, <1>2, <1>14 DEF TxInv, TxPlace, TxNumbers, TxHold, InCell, Between, TxCheckBit, TxAt, TxGo
  <2>2. TxNumbers'
    BY <1>1, <1>2, <1>14, KeepChanges DEF TxInv, TxNumbers, TxCheckBit, TxAt, TxGo
  <2>3. TxFlags'
    BY <1>14, KeepChanges DEF TxInv, TxFlags, TxCheckBit, TxAt, TxGo
  <2>4. EdgeInv'
    BY <1>1, <1>2, <1>14, KeepChanges DEF TxInv, TxPlace, TxNumbers, EdgeInv, TxHold, Since, InCell, Between, TxCheckBit, TxAt, TxGo
  <2>5. LevelInv'
    BY <1>1, <1>2, <1>14, KeepChanges DEF TxInv, TxPlace, TxNumbers, TxFlags, LevelInv, Halfway, Frame, InCell, Between, TxCheckBit, TxAt, TxGo
  <2> QED BY <1>3, <2>1, <2>2, <2>3, <2>4, <2>5 DEF TxInv
<1>15. CASE TxNextWord
  <2>1. TxPlace'
    BY <1>1, <1>2, <1>15 DEF TxInv, TxPlace, TxNumbers, TxHold, InCell, Between, TxNextWord, TxAt, TxGo
  <2>2. TxNumbers'
    BY <1>1, <1>2, <1>15, KeepChanges DEF TxInv, TxNumbers, TxNextWord, TxAt, TxGo
  <2>3. TxFlags'
    BY <1>15, KeepChanges DEF TxInv, TxFlags, TxNextWord, TxAt, TxGo
  <2>4. EdgeInv'
    BY <1>1, <1>2, <1>15, KeepChanges DEF TxInv, TxPlace, TxNumbers, EdgeInv, TxHold, Since, InCell, Between, TxNextWord, TxAt, TxGo
  <2>5. LevelInv'
    <3>1. pin' = pin /\ oddZeros' = oddZeros /\ bits' = bits /\ tx.pc = "jmp_y" /\ pin = ~ oddZeros
      BY <1>15, KeepChanges DEF TxNextWord, TxAt, TxInv, LevelInv, Halfway, Frame
    <3>2. CASE words > 0
      <4>1. tx'.pc = "word" /\ words' = words - 1 /\ words \in Nat
        BY <1>15, <3>2 DEF TxNextWord, TxGo, TxInv, TxNumbers
      <4>2. bits = 0 /\ (words = 1 => ~ oddZeros)
        BY <3>1 DEF TxInv, TxNumbers, LevelInv
      <4>3. words' = 0 => ~ oddZeros'
        BY <3>1, <4>1, <4>2
      <4> QED BY <3>1, <4>1, <4>3 DEF LevelInv, Halfway, Frame, InCell
    <3>3. CASE ~ (words > 0)
      <4>1. tx'.pc = "end" /\ words = 0
        BY <1>15, <1>2, <3>3 DEF TxNextWord, TxGo, TxInv, TxNumbers
      <4>2. pin
        BY <3>1, <4>1 DEF TxInv, LevelInv, Frame
      <4> QED BY <3>1, <4>1, <4>2 DEF LevelInv, Halfway, Frame, InCell
    <3> QED BY <3>2, <3>3
  <2> QED BY <1>3, <2>1, <2>2, <2>3, <2>4, <2>5 DEF TxInv
<1>16. CASE TxEnd
  <2>0. Keep
    BY <1>16 DEF TxEnd, TxAt, Drive, TxInv, LevelInv
  <2>1. TxPlace'
    BY <1>1, <1>2, <1>16 DEF TxInv, TxPlace, TxNumbers, TxHold, InCell, Between, TxEnd, TxAt, TxGo, Drive
  <2>2. TxNumbers'
    BY <1>1, <1>2, <1>16, KeepChanges, <2>0 DEF TxInv, TxNumbers, TxEnd, TxAt, TxGo, Drive
  <2>3. TxFlags'
    BY <1>16, KeepChanges, <2>0 DEF TxInv, TxFlags, TxEnd, TxAt, TxGo, Drive
  <2>4. EdgeInv'
    BY <1>1, <1>2, <1>16, KeepChanges, <2>0 DEF TxInv, TxPlace, TxNumbers, EdgeInv, TxHold, Since, InCell, Between, TxEnd, TxAt, TxGo, Drive
  <2>5. LevelInv'
    BY <1>1, <1>2, <1>16, KeepChanges, <2>0 DEF TxInv, TxPlace, TxNumbers, TxFlags, LevelInv, Halfway, Frame, InCell, Between, TxEnd, TxAt, TxGo, Drive
  <2> QED BY <1>3, <2>1, <2>2, <2>3, <2>4, <2>5 DEF TxInv
<1>17. CASE TxIrq
  <2>1. TxPlace'
    BY <1>1, <1>2, <1>17 DEF TxInv, TxPlace, TxNumbers, TxHold, InCell, Between, TxIrq, TxAt, TxGo
  <2>2. TxNumbers'
    BY <1>1, <1>2, <1>17, KeepChanges DEF TxInv, TxNumbers, TxIrq, TxAt, TxGo
  <2>3. TxFlags'
    BY <1>17, KeepChanges DEF TxInv, TxFlags, TxIrq, TxAt, TxGo
  <2>4. EdgeInv'
    BY <1>1, <1>2, <1>17, KeepChanges DEF TxInv, TxPlace, TxNumbers, EdgeInv, TxHold, Since, InCell, Between, TxIrq, TxAt, TxGo
  <2>5. LevelInv'
    BY <1>1, <1>2, <1>17, KeepChanges DEF TxInv, TxPlace, TxNumbers, TxFlags, LevelInv, Halfway, Frame, InCell, Between, TxIrq, TxAt, TxGo
  <2> QED BY <1>3, <2>1, <2>2, <2>3, <2>4, <2>5 DEF TxInv
<1> QED BY <1>4, <1>5, <1>6, <1>7, <1>8, <1>9, <1>10, <1>11, <1>12, <1>13, <1>14, <1>15, <1>16, <1>17 DEF Tx

-----------------------------------------------------------------------------
(* The receiver keeps step.                                                *)

\* The instructions in the second half of a cell and at its end.
Closing == {"jmp_check", "check_bit", "edge", "jmp_y"}

\* While a bit is being sampled the transmitter goes on by a cycle, with the same
\* bit and, whatever its edges, the same level of the first half.
LEMMA PositionSteps ==
  ASSUME TxInv, Tx, program' = program, ReadBack \in 1 .. 4,
         tx.pc \in Closing \cup (Opening \ {"out"})
  PROVE  /\ Position' = Position + 1 /\ x' = x /\ (First' <=> First)
         /\ tx'.pc \notin {"mov_y", "irq", "set", "header"}
         /\ tx'.pc = "out" <=> tx.pc = "edge" /\ tx.hold = 0
<1>1. PICK h \in 1 .. 5 : Half = h /\ Half' = h /\ program.half = h /\ program.keep = h + 1
  BY Delays, SameProgram
<1>2. /\ tx \in [pc : InCell \cup Between, hold : 0 .. 6] /\ tx.hold <= TxHold
      /\ x \in {0, 1} /\ pin \in BOOLEAN
      /\ (tx.pc = "is_zero" => x = 0) /\ (tx.pc \in {"middle", "jmp_check"} => x = 1)
      /\ Period = 6 + 2 * h /\ Period' = 6 + 2 * h
  BY <1>1 DEF TxInv, TxPlace, TxNumbers, TxFlags, Period
<1>3. CASE tx.hold > 0
  <2>0. tx.hold # 0
    BY <1>2, <1>3
  <2>1. TxDelay
    BY <2>0 DEF Tx, TxAt, TxIdle, TxHeader, TxMovY, TxWord, TxEdge, TxOut, TxJmpX, TxMiddle,
             TxRestOfCell, TxCheckBit, TxNextWord, TxEnd, TxIrq
  <2>2. tx' = [tx EXCEPT !.hold = tx.hold - 1] /\ x' = x /\ pin' = pin
    BY <2>1 DEF TxDelay, Keep
  <2>3. tx'.pc = tx.pc /\ tx'.hold = tx.hold - 1 /\ tx.pc \in {"is_zero", "middle", "jmp_check", "check_bit"}
    BY <1>2, <1>3, <2>2 DEF TxHold
  <2>4. Position' = Position + 1
    BY <1>1, <1>2, <2>3 DEF Position
  <2>5. First' <=> First
    BY <2>2, <2>3 DEF First
  <2> QED BY <2>2, <2>3, <2>4, <2>5
<1>4. CASE tx.pc = "jmp_x" /\ tx.hold = 0
  <2>1. TxJmpX
    BY <1>4 DEF Tx, TxAt, TxDelay, TxIdle, TxHeader, TxMovY, TxWord, TxEdge, TxOut, TxMiddle,
             TxRestOfCell, TxCheckBit, TxNextWord, TxEnd, TxIrq
  <2>2. x' = x /\ pin' = pin /\ tx'.hold = h /\ tx'.pc \in {"is_zero", "middle"}
    BY <1>1, <2>1 DEF TxJmpX, Keep, TxGo
  <2> QED BY <1>1, <1>4, <2>2 DEF Position, First
<1>5. CASE tx.pc = "is_zero" /\ tx.hold = 0
  <2>1. TxRestOfCell
    BY <1>5 DEF Tx, TxAt, TxDelay, TxIdle, TxHeader, TxMovY, TxWord, TxEdge, TxOut, TxMiddle,
             TxJmpX, TxCheckBit, TxNextWord, TxEnd, TxIrq
  <2>2. x' = x /\ x = 0 /\ pin' = pin /\ tx'.hold = h + 1 /\ tx'.pc = "check_bit"
    BY <1>1, <1>2, <1>5, <2>1 DEF TxRestOfCell, Keep, TxGo, TxAt
  <2>3. Position' = Position + 1
    BY <1>1, <1>5, <2>2 DEF Position
  <2>4. First' <=> First
    BY <1>2, <1>5, <2>2 DEF First
  <2> QED BY <1>5, <2>2, <2>3, <2>4
<1>6. CASE tx.pc = "middle" /\ tx.hold = 0
  <2>1. TxMiddle
    BY <1>6 DEF Tx, TxAt, TxDelay, TxIdle, TxHeader, TxMovY, TxWord, TxEdge, TxOut, TxRestOfCell,
             TxJmpX, TxCheckBit, TxNextWord, TxEnd, TxIrq
  <2>2. x' = x /\ x = 1 /\ tx'.hold = h /\ tx'.pc = "jmp_check"
    BY <1>1, <1>2, <1>6, <2>1 DEF TxMiddle, TxGo
  <2>3. pin' = ~ pin
    BY <1>6, <2>1, FlipChanges DEF TxMiddle
  <2>4. Position' = Position + 1
    BY <1>1, <1>6, <2>2 DEF Position
  <2>5. First' <=> First
    BY <1>2, <1>6, <2>2, <2>3 DEF First
  <2> QED BY <1>6, <2>2, <2>4, <2>5
<1>7. CASE tx.pc = "jmp_check" /\ tx.hold = 0
  <2>1. TxRestOfCell
    BY <1>7 DEF Tx, TxAt, TxDelay, TxIdle, TxHeader, TxMovY, TxWord, TxEdge, TxOut, TxMiddle,
             TxJmpX, TxCheckBit, TxNextWord, TxEnd, TxIrq
  <2>2. x' = x /\ pin' = pin /\ tx'.hold = 0 /\ tx'.pc = "check_bit"
    BY <1>7, <2>1 DEF TxRestOfCell, Keep, TxGo, TxAt
  <2>3. Position' = Position + 1
    BY <1>1, <1>7, <2>2 DEF Position
  <2>4. First' <=> First
    BY <1>7, <2>2 DEF First
  <2> QED BY <1>7, <2>2, <2>3, <2>4
<1>8. CASE tx.pc = "check_bit" /\ tx.hold = 0
  <2>1. TxCheckBit
    BY <1>8 DEF Tx, TxAt, TxDelay, TxIdle, TxHeader, TxMovY, TxWord, TxEdge, TxOut, TxMiddle,
             TxJmpX, TxRestOfCell, TxNextWord, TxEnd, TxIrq
  <2>2. x' = x /\ pin' = pin /\ tx'.pc \in {"edge", "jmp_y"}
    BY <2>1 DEF TxCheckBit, Keep, TxGo
  <2>3. Position' = Position + 1
    BY <1>1, <1>2, <1>8, <2>2 DEF Position
  <2>4. First' <=> First
    BY <1>8, <2>2 DEF First
  <2> QED BY <1>8, <2>2, <2>3, <2>4
<1>9. CASE tx.pc = "edge" /\ tx.hold = 0
  <2>1. TxEdge
    BY <1>9 DEF Tx, TxAt, TxDelay, TxIdle, TxHeader, TxMovY, TxWord, TxCheckBit, TxOut, TxMiddle,
             TxJmpX, TxRestOfCell, TxNextWord, TxEnd, TxIrq
  <2>2. x' = x /\ tx'.pc = "out"
    BY <2>1 DEF TxEdge, TxGo
  <2>3. pin' = ~ pin
    BY <1>9, <2>1, FlipChanges DEF TxEdge
  <2>4. Position' = Position + 1
    BY <1>1, <1>2, <1>9, <2>2 DEF Position
  <2>5. First' <=> First
    BY <1>2, <1>9, <2>2, <2>3 DEF First
  <2> QED BY <1>9, <2>2, <2>4, <2>5
<1>10. CASE tx.pc = "jmp_y" /\ tx.hold = 0
  <2>1. TxNextWord
    BY <1>10 DEF Tx, TxAt, TxDelay, TxIdle, TxHeader, TxMovY, TxWord, TxCheckBit, TxOut, TxMiddle,
             TxJmpX, TxRestOfCell, TxEdge, TxEnd, TxIrq
  <2>2. x' = x /\ pin' = pin /\ tx'.pc \in {"word", "end"}
    BY <2>1 DEF TxNextWord, Keep, TxGo
  <2>3. Position' = Position + 1
    BY <1>1, <1>2, <1>10, <2>2 DEF Position
  <2>4. First' <=> First
    BY <1>10, <2>2 DEF First
  <2> QED BY <1>10, <2>2, <2>3, <2>4
<1> QED
  BY <1>2, <1>3, <1>4, <1>5, <1>6, <1>7, <1>8, <1>9, <1>10 DEF Closing, Opening

\* Where the transmitter can be, and what the line shows, late in a cell.
LEMMA Settled ==
  ASSUME TxInv, tx.pc \notin {"out", "mov_y", "irq", "set", "header"},
         Position >= 4 + Half + Jitter
  PROVE  tx.pc \notin Opening /\ late = 0
<1>1. PICK h \in 1 .. 5, j \in 1 .. 3 : Half = h /\ Jitter = j /\ j <= h
  BY Delays
<1>2. /\ tx \in [pc : InCell \cup Between, hold : 0 .. 6] /\ tx.hold <= TxHold
      /\ late \in 0 .. 3 /\ x \in {0, 1}
      /\ late = 0 \/ late + Since <= 1 + j
  BY <1>1 DEF TxInv, TxPlace, TxNumbers, EdgeInv
<1>3. tx.pc \notin Opening
  BY <1>1, <1>2 DEF Position, Opening
<1>4. Since \in Int /\ Since >= 1 + j
  <2>1. CASE tx.pc = "jmp_check"
    BY <1>1, <1>2, <2>1 DEF Position, Since
  <2>2. CASE tx.pc = "check_bit"
    BY <1>1, <1>2, <2>2 DEF Position, Since
  <2>3. CASE tx.pc \notin {"jmp_check", "check_bit"}
    BY <1>1, <1>2, <1>3, <2>3 DEF Since, Opening
  <2> QED BY <2>1, <2>2, <2>3
<1> QED BY <1>2, <1>3, <1>4

\* Until the bit is sampled, the transmitter has not begun the next one.
LEMMA WithinPeriod ==
  ASSUME TxInv, tx.pc \notin {"mov_y", "irq", "set", "header"}, Position <= Period
  PROVE  tx.pc \in Closing \cup (Opening \ {"out"})
<1>1. tx \in [pc : InCell \cup Between, hold : 0 .. 6] /\ Period \in Int
  BY Delays DEF TxInv, TxPlace
<1> QED BY <1>1 DEF Position, Closing, Opening, InCell, Between

\* Which of its instructions the receiver executes.
LEMMA RxCases ==
  ASSUME RxTypes, Rx
  PROVE  /\ rx.pc \in Tests /\ rx.hold > 0 => RxDelay
         /\ rx.pc \in Waits => RxWaits
         /\ rx.pc \in Nops \cup Picks \/ (rx.pc \in Tests /\ rx.hold = 0) => RxSample
         /\ rx.pc \in Ones \cup Zeros => RxShift
         /\ rx.pc = "off" => RxEnable
<1>1. rx.hold \in 0 .. 9 /\ (rx.pc \notin Tests => rx.hold = 0)
  BY DEF RxTypes
<1>2. rx.hold > 0 \/ rx.hold = 0
  BY <1>1
<1>3. CASE rx.hold > 0
  <2>1. rx.pc \in Tests /\ rx.hold # 0
    BY <1>1, <1>3
  <2>2. RxDelay
    BY <2>1 DEF Rx, RxEnable, RxWaits, RxSample, RxShift, Tests, Ones, Zeros
  <2> QED BY <2>1, <2>2 DEF Tests, Waits, Nops, Picks, Ones, Zeros
<1>4. CASE rx.hold = 0
  <2>1. RxEnable \/ RxWaits \/ RxSample \/ RxShift
    BY <1>4 DEF Rx, RxDelay
  <2> QED
    BY <1>4, <2>1 DEF RxEnable, RxWaits, RxWait, RxSample, RxShift, Tests, Waits, Nops, Picks, Ones, Zeros
<1> QED BY <1>2, <1>3, <1>4

\* A receiver that waits goes on when it sees the level, and has then made one cycle
\* of progress, or two.
LEMMA WaitSteps ==
  ASSUME TxInv, RxTypes, Rx, program' = program, NEW level \in BOOLEAN, WaitsFor(level)
  PROVE  /\ Seen # level => rx' = rx
         /\ Seen = level => /\ rx'.pc \in Nops \cup Picks /\ rx'.hold = 0
                            /\ Progress' \in 1 .. 1 + Early
                            /\ rx'.pc \in FromLow <=> ~ level
                            /\ rx'.pc = "nop" => program.lead
<1>1. rx.pc \in Waits /\ RxWaits
  BY RxCases DEF WaitsFor, Waits
<1>2. /\ level => rx.pc = "wait_1"
      /\ ~ level => rx.pc \in {"wait_0", "wait_sop"}
  BY DEF WaitsFor
<1>3. Seen \in BOOLEAN /\ Early \in 0 .. 1 /\ program.lead \in BOOLEAN
  BY Delays DEF Seen, TxInv, TxFlags
<1>4. ASSUME Seen # level PROVE rx' = rx
  BY <1>1, <1>2, <1>3, <1>4 DEF RxWaits, RxWait
<1>5. ASSUME Seen = level
      PROVE  /\ rx'.pc \in Nops \cup Picks /\ rx'.hold = 0
             /\ Progress' \in 1 .. 1 + Early
             /\ rx'.pc \in FromLow <=> ~ level
             /\ rx'.pc = "nop" => program.lead
  <2>1. CASE level
    <3>1. rx' = [pc |-> "jmp_was_high", hold |-> 0]
      BY <1>1, <1>2, <1>5, <2>1 DEF RxWaits, RxWait, RxGo
    <3> QED BY <1>3, <2>1, <3>1 DEF Progress, FromLow, Nops, Picks
  <2>2. CASE ~ level /\ rx.pc = "wait_0"
    <3>1. rx' = [pc |-> "jmp_was_low", hold |-> 0]
      BY <1>1, <1>5, <2>2 DEF RxWaits, RxWait, RxGo
    <3> QED BY <1>3, <2>2, <3>1 DEF Progress, FromLow, Nops, Picks
  <2>3. CASE ~ level /\ rx.pc = "wait_sop"
    <3>1. rx' = [pc |-> IF program.lead THEN "nop" ELSE "was_low", hold |-> 0]
      BY <1>1, <1>5, <2>3 DEF RxWaits, RxWait, RxGo
    <3>2. CASE program.lead
      BY <1>3, <2>3, <3>1, <3>2 DEF Progress, FromLow, Nops, Picks
    <3>3. CASE ~ program.lead
      BY <1>3, <2>3, <3>1, <3>3 DEF Progress, FromLow, Nops, Picks, Early
    <3> QED BY <3>2, <3>3
  <2> QED BY <1>2, <2>1, <2>2, <2>3
<1> QED BY <1>4, <1>5

\* A receiver that is busy with a bit makes a cycle of progress; its sample
\* tells a 1 by a level that has changed.
LEMMA SampleSteps ==
  ASSUME TxInv, RxTypes, Rx, program' = program, rx.pc \in Busy \ (Ones \cup Zeros)
  PROVE  /\ Progress' = Progress + 1 /\ rx'.pc \in Busy
         /\ rx'.pc \in FromLow <=> rx.pc \in FromLow
         /\ rx'.hold \in 0 .. 9 /\ rx'.hold <= IF rx'.pc \in Tests THEN Sample ELSE 0
         /\ rx'.pc # "nop"
         /\ rx'.pc \in Ones \cup Zeros => Progress = 3 + Sample
         /\ rx'.pc \in Ones => (Seen <=> rx.pc \in FromLow)
         /\ rx'.pc \in Zeros => ~ (Seen <=> rx.pc \in FromLow)
<1>1. PICK s \in 1 .. 9 : Sample = s /\ Sample' = s /\ program.sample = s
  BY Delays, SameProgram
<1>2. Seen \in BOOLEAN /\ rx \in [pc : {"off"} \cup Waits \cup Busy, hold : 0 .. 9] /\ rx.hold <= IF rx.pc \in Tests THEN s ELSE 0
  BY <1>1 DEF Seen, TxInv, TxFlags, RxTypes
<1>3. CASE rx.pc \in Nops
  <2>1. rx' = [pc |-> IF rx.pc = "jmp_was_high" THEN "was_high" ELSE "was_low", hold |-> 0]
    BY <1>3, RxCases DEF RxSample, RxGo, Nops
  <2> QED BY <1>1, <1>3, <2>1 DEF Progress, FromLow, Nops, Picks, Tests, Busy, Ones, Zeros
<1>4. CASE rx.pc \in Picks
  <2>1. rx' = [pc |-> IF rx.pc = "was_high" THEN "test_high" ELSE "test_low", hold |-> s]
    BY <1>1, <1>4, RxCases DEF RxSample, RxGo, Picks
  <2> QED BY <1>1, <1>4, <2>1 DEF Progress, FromLow, Nops, Picks, Tests, Busy, Ones, Zeros
<1>5. CASE rx.pc \in Tests /\ rx.hold > 0
  <2>1. rx'.pc = rx.pc /\ rx'.hold = rx.hold - 1
    BY <1>2, <1>5, RxCases DEF RxDelay
  <2> QED BY <1>1, <1>2, <1>5, <2>1 DEF Progress, FromLow, Nops, Picks, Tests, Busy, Ones, Zeros
<1>6. CASE rx.pc = "test_low" /\ rx.hold = 0
  <2>1. rx' = [pc |-> IF Seen THEN "got_1_from_low" ELSE "got_0_from_low", hold |-> 0]
    BY <1>6, RxCases DEF RxSample, RxGo, Tests
  <2>2. CASE Seen
    BY <1>1, <1>2, <1>6, <2>1, <2>2 DEF Progress, FromLow, Nops, Picks, Tests, Busy, Ones, Zeros
  <2>3. CASE ~ Seen
    BY <1>1, <1>2, <1>6, <2>1, <2>3 DEF Progress, FromLow, Nops, Picks, Tests, Busy, Ones, Zeros
  <2> QED BY <2>2, <2>3
<1>7. CASE rx.pc = "test_high" /\ rx.hold = 0
  <2>1. rx' = [pc |-> IF Seen THEN "got_0_from_high" ELSE "got_1_from_high", hold |-> 0]
    BY <1>7, RxCases DEF RxSample, RxGo, Tests
  <2>2. CASE Seen
    BY <1>1, <1>2, <1>7, <2>1, <2>2 DEF Progress, FromLow, Nops, Picks, Tests, Busy, Ones, Zeros
  <2>3. CASE ~ Seen
    BY <1>1, <1>2, <1>7, <2>1, <2>3 DEF Progress, FromLow, Nops, Picks, Tests, Busy, Ones, Zeros
  <2> QED BY <2>2, <2>3
<1> QED BY <1>2, <1>3, <1>4, <1>5, <1>6, <1>7 DEF Busy, Tests

\* After a bit the receiver waits for the line to leave the level it ends at.
LEMMA ShiftSteps ==
  ASSUME RxTypes, Rx, rx.pc \in Ones \cup Zeros
  PROVE  /\ rx'.pc \in Waits /\ rx'.hold = 0
         /\ rx'.pc \in IF (rx.pc \in FromLow) = (rx.pc \in Ones) THEN {"wait_0"} ELSE {"wait_1"}
<1>1. RxShift
  BY RxCases
<1> QED BY <1>1 DEF RxShift, RxGo, Ones, Zeros, FromLow, Waits

\* The receiver stays at its instructions and within its delays.
LEMMA RxTypesKept ==
  ASSUME TxInv, RxTypes, Rx, program' = program
  PROVE  RxTypes'
<1>1. Sample' = Sample /\ Sample \in 1 .. 9 /\ program.lead \in BOOLEAN
  BY Delays, SameProgram
<1>2. rx \in [pc : {"off"} \cup Waits \cup Busy, hold : 0 .. 9]
  BY DEF RxTypes
<1>3. rx' = [pc |-> rx'.pc, hold |-> rx'.hold]
  BY <1>2 DEF Rx, RxEnable, RxDelay, RxWaits, RxWait, RxSample, RxShift, RxGo
<1>4. CASE rx.pc = "off"
  <2>1. rx'.pc \in {"off", "wait_sop"} /\ rx'.hold = rx.hold /\ rx.hold = 0
    BY <1>2, <1>4, RxCases DEF RxEnable, RxTypes, Tests
  <2> QED BY <1>1, <1>3, <2>1 DEF RxTypes, Waits, Tests
<1>5. CASE rx.pc \in Waits
  <2>1. PICK level \in BOOLEAN : WaitsFor(level)
    <3>1. WaitsFor(rx.pc = "wait_1")
      BY <1>5 DEF WaitsFor, Waits
    <3> QED BY <3>1
  <2>2. \/ rx' = rx
        \/ rx'.pc \in Nops \cup Picks /\ rx'.hold = 0 /\ (rx'.pc = "nop" => program.lead)
    BY <2>1, WaitSteps, Zenon
  <2>3. CASE rx' = rx
    BY <1>1, <1>2, <2>3 DEF RxTypes
  <2>4. CASE rx'.pc \in Nops \cup Picks /\ rx'.hold = 0 /\ (rx'.pc = "nop" => program.lead)
    BY <1>1, <1>3, <2>4 DEF RxTypes, Busy, Tests, Nops, Picks
  <2> QED BY <2>2, <2>3, <2>4
<1>6. CASE rx.pc \in Ones \cup Zeros
  BY <1>1, <1>3, <1>6, ShiftSteps DEF RxTypes, Waits, Tests
<1>7. CASE rx.pc \in Busy \ (Ones \cup Zeros)
  <2>1. /\ rx'.pc \in Busy /\ rx'.pc # "nop"
        /\ rx'.hold \in 0 .. 9 /\ rx'.hold <= IF rx'.pc \in Tests THEN Sample ELSE 0
    BY <1>7, SampleSteps, Zenon
  <2> QED BY <1>1, <1>3, <2>1 DEF RxTypes
<1> QED BY <1>2, <1>4, <1>5, <1>6, <1>7

\* On a High line the receiver comes to wait for Low.
LEMMA RestSteps ==
  ASSUME TxInv, RxTypes, Rx, program' = program, Seen
  PROVE  Restless' = 0 \/ (Restless' = Restless - 1 /\ Restless \in Int)
<1>1. PICK s \in 1 .. 9 : Sample = s /\ Sample' = s
  BY Delays, SameProgram
<1>2. rx \in [pc : {"off"} \cup Waits \cup Busy, hold : 0 .. 9] /\ rx.hold \in 0 .. 9
  BY DEF RxTypes
<1>3. CASE rx.pc \in {"off", "wait_sop", "wait_0"}
  <2>1. rx'.pc \in {"off", "wait_sop", "wait_0"}
    <3>1. CASE rx.pc = "off"
      BY <1>2, <3>1, RxCases DEF RxEnable
    <3>2. CASE rx.pc # "off"
      BY <1>3, <3>2, RxCases DEF RxWaits, RxWait, Waits
    <3> QED BY <3>1, <3>2
  <2> QED BY <2>1 DEF Restless
<1>4. CASE rx.pc = "wait_1"
  <2>1. rx'.pc = "jmp_was_high"
    BY <1>4, RxCases DEF RxWaits, RxWait, RxGo, Waits
  <2> QED BY <1>1, <1>4, <2>1 DEF Restless, Progress, Nops
<1>5. CASE rx.pc \in Ones \cup Zeros
  <2>1. CASE rx.pc \in {"got_0_from_low", "got_1_from_high"}
    <3>1. rx'.pc = "wait_1"
      BY <2>1, RxCases DEF RxShift, RxGo, Ones, Zeros
    <3> QED BY <1>1, <2>1, <3>1 DEF Restless
  <2>2. CASE rx.pc \in {"got_1_from_low", "got_0_from_high"}
    <3>1. rx'.pc = "wait_0"
      BY <2>2, RxCases DEF RxShift, RxGo, Ones, Zeros
    <3> QED BY <3>1 DEF Restless
  <2> QED BY <1>5, <2>1, <2>2 DEF Ones, Zeros
<1>6. CASE rx.pc \in Busy \ (Ones \cup Zeros)
  <2>1. /\ Progress' = Progress + 1 /\ rx'.pc \in Busy
        /\ rx'.pc \in FromLow <=> rx.pc \in FromLow
        /\ rx'.pc \in Ones => rx.pc \in FromLow
        /\ rx'.pc \in Zeros => ~ (rx.pc \in FromLow)
    BY <1>6, SampleSteps
  <2>2. rx'.pc \notin {"got_0_from_low", "got_1_from_high"}
    BY <2>1 DEF FromLow, Ones, Zeros
  <2>3. Progress \in Int
    BY <1>1, <1>2 DEF Progress
  <2>4. Restless = 5 + s - Progress
    BY <1>1, <1>6 DEF Restless, Busy, Nops, Picks, Tests, Ones, Zeros
  <2>5. Restless' = 5 + s - Progress'
    BY <1>1, <2>1, <2>2 DEF Restless, Busy, Nops, Picks, Tests, Ones, Zeros
  <2> QED BY <2>1, <2>3, <2>4, <2>5
<1> QED BY <1>2, <1>3, <1>4, <1>5, <1>6 DEF Waits

-----------------------------------------------------------------------------
(* Sender and receiver together.                                           *)

\* The bits in flight.
Kept == IF rx.pc \in Ones \cup Zeros /\ inflight # <<>> THEN Tail(inflight) ELSE inflight

\* A sequence of one bit, and what becomes of it.
LEMMA OneBit ==
  ASSUME NEW a
  PROVE  /\ Tail(<<a>>) = <<>> /\ Head(<<a>>) = a /\ <<a>> # <<>>
         /\ Append(<<>>, a) = <<a>>
OBVIOUS

\* A bit is in flight from its `out' to the `in' of the receiver.
LEMMA InFlight ==
  ASSUME Cycle
  PROVE  /\ synced /\ tx.pc = "out" /\ tx.hold = 0 => inflight' = Append(Kept, x')
         /\ ~ (synced /\ tx.pc = "out" /\ tx.hold = 0) => inflight' = Kept
         /\ inflight = <<>> => Kept = <<>>
         /\ rx.pc \notin Ones \cup Zeros => Kept = inflight
         /\ rx.pc \in Ones \cup Zeros /\ inflight = <<x>> => Kept = <<>>
BY OneBit DEF Cycle, Kept, TxAt

\* A receiver that is on when a frame begins stays on, and decodes it.
LEMMA SyncSteps ==
  ASSUME RxInv, Cycle
  PROVE  /\ synced => synced'
         /\ synced' \in BOOLEAN
         /\ ~ synced /\ synced' => /\ TxAt("header") /\ idle = MinIdle /\ Keep
                                   /\ tx' = [pc |-> "mov_y", hold |-> 0] /\ rx.pc # "off"
<1>1. synced' = synced \/ (TxHeader /\ idle = MinIdle /\ TxGo("mov_y", 0) /\ synced' = (rx.pc # "off"))
  BY DEF Cycle, Tx, TxDelay, TxIdle, TxHeader, TxMovY, TxWord, TxEdge, TxOut, TxJmpX, TxMiddle,
         TxRestOfCell, TxCheckBit, TxNextWord, TxEnd, TxIrq
<1>2. synced \in BOOLEAN /\ (synced => rx.pc # "off")
  BY DEF RxInv
<1>3. CASE synced' = synced
  BY <1>2, <1>3
<1>4. CASE TxHeader /\ idle = MinIdle /\ TxGo("mov_y", 0) /\ synced' = (rx.pc # "off")
  BY <1>2, <1>4 DEF TxHeader, TxGo
<1> QED BY <1>1, <1>3, <1>4

\* Between two cells the line rests until `edge'.
LEMMA TxMoves ==
  ASSUME TxInv, Tx
  PROVE  /\ tx'.pc = "header" => tx.pc \in {"set", "header"}
         /\ tx'.pc \in Opening => tx.pc \in Opening \cup {"edge"}
         /\ tx.pc \notin {"edge", "middle"} => Keep
<1>1. tx \in [pc : InCell \cup Between, hold : 0 .. 6]
  BY DEF TxInv, TxPlace
<1>2. CASE TxDelay
  <2>1. tx'.pc = tx.pc /\ Keep
    BY <1>1, <1>2 DEF TxDelay
  <2> QED BY <2>1
<1>3. CASE TxMovY
  <2>1. tx.pc \in {"mov_y"} /\ tx'.pc \in {"word"} /\ Keep
    BY <1>3 DEF TxMovY, TxAt, TxGo
  <2> QED BY <2>1 DEF Opening
<1>4. CASE TxEdge
  <2>1. tx.pc \in {"edge"} /\ tx'.pc \in {"out"}
    BY <1>4 DEF TxEdge, TxAt, TxGo
  <2> QED BY <2>1 DEF Opening
<1>5. CASE TxOut
  <2>1. tx.pc \in {"out"} /\ tx'.pc \in {"jmp_x"} /\ Keep
    BY <1>5 DEF TxOut, TxAt, TxGo
  <2> QED BY <2>1 DEF Opening
<1>6. CASE TxJmpX
  <2>1. tx.pc \in {"jmp_x"} /\ tx'.pc \in {"is_zero", "middle"} /\ Keep
    BY <1>6 DEF TxJmpX, TxAt, TxGo
  <2> QED BY <2>1 DEF Opening
<1>7. CASE TxMiddle
  <2>1. tx.pc \in {"middle"} /\ tx'.pc \in {"jmp_check"}
    BY <1>7 DEF TxMiddle, TxAt, TxGo
  <2> QED BY <2>1 DEF Opening
<1>8. CASE TxCheckBit
  <2>1. tx.pc \in {"check_bit"} /\ tx'.pc \in {"edge", "jmp_y"} /\ Keep
    BY <1>8 DEF TxCheckBit, TxAt, TxGo
  <2> QED BY <2>1 DEF Opening
<1>9. CASE TxNextWord
  <2>1. tx.pc \in {"jmp_y"} /\ tx'.pc \in {"word", "end"} /\ Keep
    BY <1>9 DEF TxNextWord, TxAt, TxGo
  <2> QED BY <2>1 DEF Opening
<1>10. CASE TxIrq
  <2>1. tx.pc \in {"irq"} /\ tx'.pc \in {"set"} /\ Keep
    BY <1>10 DEF TxIrq, TxAt, TxGo
  <2> QED BY <2>1 DEF Opening
<1>11. CASE TxRestOfCell
  <2>1. tx.pc \in {"jmp_check", "is_zero"} /\ tx'.pc \in {"check_bit"} /\ Keep
    BY <1>11 DEF TxRestOfCell, TxAt, TxGo
  <2> QED BY <2>1 DEF Opening
<1>12. CASE TxWord
  <2>1. tx.pc \in {"word"} /\ tx'.pc \in {"edge", "word"} /\ Keep
    BY <1>12 DEF TxWord, TxAt, TxGo
  <2> QED BY <2>1 DEF Opening
<1>13. CASE TxHeader
  <2>1. tx.pc \in {"header"} /\ tx'.pc \in {"mov_y", "header"} /\ Keep
    BY <1>13 DEF TxHeader, TxAt, TxGo
  <2> QED BY <2>1 DEF Opening
<1>14. CASE TxIdle
  <2>1. tx.pc = "set" /\ tx'.pc = "header" /\ Drive(TRUE)
    BY <1>14 DEF TxIdle, TxAt, TxGo
  <2>2. pin = TRUE
    BY <2>1 DEF TxInv, LevelInv, TxFlags
  <2> QED BY <2>1, <2>2 DEF Opening, Drive
<1>15. CASE TxEnd
  <2>1. tx.pc = "end" /\ tx'.pc = "irq" /\ Drive(TRUE)
    BY <1>15 DEF TxEnd, TxAt, TxGo
  <2>2. pin = TRUE
    BY <2>1 DEF TxInv, LevelInv, TxFlags
  <2> QED BY <2>1, <2>2 DEF Opening, Drive
<1> QED BY <1>2, <1>3, <1>4, <1>5, <1>6, <1>7, <1>8, <1>9, <1>10, <1>11, <1>12, <1>13, <1>14, <1>15 DEF Tx

\* An idle line is High, and whoever listens gets to wait for Low in time.
LEMMA RestKept ==
  ASSUME WireInv, Cycle, MinIdle >= 15, ReadBack \in 1 .. 4
  PROVE  tx'.pc = "header" => Restless' <= MinIdle - idle' \/ Restless' = 0
<1> SUFFICES ASSUME tx'.pc = "header"
             PROVE  Restless' <= MinIdle - idle' \/ Restless' = 0
  OBVIOUS
<1>1. TxInv /\ RxTypes /\ Rx /\ Tx /\ program' = program
  BY DEF WireInv, RxInv, Cycle
<1>2. MinIdle \in Nat /\ idle \in 0 .. MinIdle
  BY <1>1, BmcWireAssumption DEF TxInv, TxNumbers
<1>3. TxIdle \/ TxHeader
  <2>1. tx.pc \in {"set", "header"} /\ tx.hold = 0
    BY <1>1, TxMoves DEF TxInv, TxPlace, TxHold
  <2>2. CASE tx.pc = "set"
    <3>1. ~ TxDelay /\ ~ TxRestOfCell
      BY <2>1, <2>2 DEF TxDelay, TxRestOfCell, TxAt
    <3> QED
      BY <1>1, <2>2, <3>1 DEF Tx, TxAt, TxHeader, TxMovY, TxWord, TxEdge, TxOut, TxJmpX, TxMiddle,
           TxCheckBit, TxNextWord, TxEnd, TxIrq
  <2>3. CASE tx.pc = "header"
    BY <1>1, <2>1, <2>3 DEF Tx, TxDelay, TxAt, TxIdle, TxHeader, TxMovY, TxWord, TxEdge, TxOut, TxJmpX, TxMiddle,
         TxRestOfCell, TxCheckBit, TxNextWord, TxEnd, TxIrq
  <2> QED BY <2>1, <2>2, <2>3
<1>4. CASE TxIdle
  <2>1. idle' = 0
    BY <1>4 DEF TxIdle
  <2>2. PICK s \in 1 .. 9 : Sample' = s
    BY <1>1, Delays, SameProgram
  <2>3. RxTypes'
    BY <1>1, RxTypesKept
  <2>4. Restless' <= 15
    BY <2>2, <2>3 DEF RxTypes, Restless, Progress
  <2>5. Restless' \in Int
    BY <2>2, <2>3 DEF RxTypes, Restless, Progress
  <2> QED BY <1>2, <2>1, <2>4, <2>5
<1>5. CASE TxHeader
  <2>1. tx.pc = "header" /\ idle' = Least(idle + 1, MinIdle)
    BY <1>5 DEF TxHeader, TxAt, TxGo
  <2>2. Seen
    <3>1. pin /\ Since = 3 + Half /\ (late = 0 \/ late + Since <= 1 + Jitter)
      BY <1>1, <2>1 DEF TxInv, LevelInv, EdgeInv, Since
    <3>2. late = 0
      BY <1>1, <3>1, Delays DEF TxInv, TxNumbers
    <3> QED BY <3>1, <3>2 DEF Seen
  <2>3. Restless' = 0 \/ (Restless' = Restless - 1 /\ Restless \in Int)
    BY <1>1, <2>2, RestSteps
  <2>4. Restless <= MinIdle - idle \/ Restless = 0
    BY <2>1 DEF WireInv, RxInv
  <2>5. idle' \in Int /\ idle' <= idle + 1 /\ idle' <= MinIdle
    BY <1>2, <2>1 DEF Least
  <2> QED BY <1>2, <2>3, <2>4, <2>5
<1> QED BY <1>3, <1>4, <1>5

\* The frame begins: the receiver waits for the line to go Low.
LEMMA BeginsReady ==
  ASSUME WireInv, Cycle, ReadBack \in 1 .. 4, ~ synced, synced'
  PROVE  Ready' /\ rx'.pc # "off"
<1>1. TxInv /\ RxTypes /\ Rx /\ program' = program /\ inflight = <<>>
  BY DEF WireInv, RxInv, Cycle
<1>2. /\ tx.pc = "header" /\ idle = MinIdle /\ Keep
      /\ tx' = [pc |-> "mov_y", hold |-> 0] /\ rx.pc # "off"
  BY SyncSteps DEF WireInv, TxAt
<1>3. pin /\ late = 0
  <2>1. pin /\ Since = 3 + Half /\ (late = 0 \/ late + Since <= 1 + Jitter)
    BY <1>1, <1>2 DEF TxInv, LevelInv, EdgeInv, Since
  <2> QED BY <1>1, <2>1, Delays DEF TxInv, TxNumbers
<1>4. rx.pc \in {"wait_sop", "wait_0"}
  <2>1. PICK s \in 1 .. 9 : Sample = s
    BY <1>1, Delays
  <2>2. Restless <= 0 \/ Restless = 0
    BY <1>2, BmcWireAssumption DEF WireInv, RxInv
  <2>3. rx \in [pc : {"off"} \cup Waits \cup Busy, hold : 0 .. 9] /\ rx.hold <= IF rx.pc \in Tests THEN s ELSE 0
    BY <1>1, <2>1 DEF RxTypes
  <2> QED
    BY <1>2, <2>1, <2>2, <2>3 DEF Restless, Progress, Waits, Busy, Nops, Picks, Tests, Ones, Zeros
<1>5. rx' = rx
  <2>1. WaitsFor(FALSE) /\ Seen # FALSE
    BY <1>3, <1>4 DEF WaitsFor, Seen
  <2> QED BY <1>1, <2>1, WaitSteps
<1>6. pin' = pin /\ late' = 0 /\ inflight' = <<>>
  <2>1. pin' = pin /\ late' = 0
    BY <1>2, <1>3 DEF Keep
  <2>2. inflight' = <<>>
    BY <1>1, <1>2, InFlight
  <2> QED BY <2>1, <2>2
<1> QED BY <1>2, <1>3, <1>4, <1>5, <1>6 DEF Ready, Opening, WaitsFor

\* The next edge is awaited: nothing happens until it comes.
LEMMA ReadySteps ==
  ASSUME WireInv, Cycle, ReadBack \in 1 .. 4, synced, Ready
  PROVE  (Ready' \/ Looks') /\ rx'.pc # "off"
<1>1. TxInv /\ RxTypes /\ Rx /\ Tx /\ program' = program /\ pin \in BOOLEAN
  BY DEF WireInv, RxInv, Cycle, TxInv, TxFlags
<1>2. tx.pc \notin Opening /\ late = 0 /\ WaitsFor(~ pin) /\ inflight = <<>>
  BY DEF Ready
<1>3. rx' = rx /\ rx.pc \in Waits
  <2>1. Seen # ~ pin
    BY <1>1, <1>2 DEF Seen
  <2>2. rx.pc \in Waits
    BY <1>2 DEF WaitsFor, Waits
  <2> QED BY <1>1, <1>2, <2>1, <2>2, WaitSteps
<1>4. inflight' = <<>>
  <2>1. rx.pc \notin Ones \cup Zeros /\ tx.pc # "out"
    BY <1>2, <1>3 DEF Waits, Ones, Zeros, Opening
  <2> QED BY <1>2, <2>1, InFlight
<1>5. CASE tx.pc = "edge" /\ tx.hold = 0
  <2>1. TxEdge
    BY <1>1, <1>5 DEF Tx, TxAt, TxDelay, TxIdle, TxHeader, TxMovY, TxWord, TxCheckBit, TxOut, TxMiddle,
             TxJmpX, TxRestOfCell, TxNextWord, TxEnd, TxIrq
  <2>2. tx'.pc = "out" /\ pin' = ~ pin
    BY <1>1, <1>5, <2>1, FlipChanges DEF TxEdge, TxGo
  <2>3. WaitsFor(pin)'
    BY <1>2, <1>3, <2>2 DEF WaitsFor
  <2>4. Since' = 1
    BY <2>2 DEF Since
  <2>5. Since' <= 1 + Jitter'
    BY <1>1, <2>4, Delays, SameProgram
  <2>6. Looks'
    BY <1>4, <2>2, <2>3, <2>5 DEF Looks, Opening
  <2> QED BY <1>3, <2>6 DEF Waits
<1>6. CASE ~ (tx.pc = "edge" /\ tx.hold = 0)
  <2>1. tx'.pc \notin Opening /\ Keep
    <3>1. tx.pc = "edge" => tx.hold = 0
      BY <1>1 DEF TxInv, TxPlace, TxHold
    <3> QED BY <1>1, <1>2, <1>6, <3>1, TxMoves DEF Opening
  <2>2. pin' = pin /\ late' = 0
    BY <1>2, <2>1 DEF Keep
  <2>3. WaitsFor(~ pin)'
    BY <1>2, <1>3, <2>2 DEF WaitsFor
  <2>4. Ready'
    BY <1>4, <2>1, <2>2, <2>3 DEF Ready
  <2> QED BY <1>3, <2>4 DEF Waits
<1> QED BY <1>5, <1>6

\* The edge is on its way: the receiver goes on when it sees it, and not later
\* than the lateness of an edge.
LEMMA LooksSteps ==
  ASSUME WireInv, Cycle, ReadBack \in 1 .. 4, synced, Looks
  PROVE  (Looks' \/ Samples') /\ rx'.pc # "off"
<1>1. TxInv /\ RxTypes /\ Rx /\ Tx /\ program' = program /\ pin \in BOOLEAN
  BY DEF WireInv, RxInv, Cycle, TxInv, TxFlags
<1>2. /\ tx.pc \in Opening /\ Since <= 1 + Jitter /\ WaitsFor(pin)
      /\ inflight = IF tx.pc = "out" THEN <<>> ELSE <<x>>
  BY DEF Looks
<1>3. PICK h \in 1 .. 5, j \in 1 .. 3, e \in 0 .. 1 :
        /\ Half = h /\ Half' = h /\ Jitter = j /\ Jitter' = j /\ Early = e /\ Early' = e
        /\ j <= h /\ program.half = h
  BY <1>1, Delays, SameProgram
<1>4. /\ tx \in [pc : InCell \cup Between, hold : 0 .. 6] /\ tx.hold <= TxHold
      /\ late \in 0 .. 3 /\ x \in {0, 1}
      /\ late = 0 \/ late + Since <= 1 + j
  BY <1>1, <1>3 DEF TxInv, TxPlace, TxNumbers, EdgeInv
<1>5. /\ tx'.pc \in Opening \ {"out"} /\ Since' = Since + 1 /\ Position' = Since + 1 /\ Keep
      /\ tx.pc # "out" => x' = x
      /\ (tx.pc = "out" /\ tx.hold = 0) \/ tx.pc # "out"
  <2>1. CASE tx.pc = "out"
    <3>1. tx.hold = 0
      BY <1>4, <2>1 DEF TxHold
    <3>2. TxOut
      BY <1>1, <2>1, <3>1 DEF Tx, TxAt, TxDelay, TxIdle, TxHeader, TxMovY, TxWord, TxEdge, TxJmpX,
             TxMiddle, TxRestOfCell, TxCheckBit, TxNextWord, TxEnd, TxIrq
    <3>3. tx'.pc = "jmp_x" /\ Keep
      BY <3>2 DEF TxOut, TxGo
    <3> QED BY <2>1, <3>1, <3>3 DEF Since, Position, Opening
  <2>2. CASE tx.pc = "jmp_x"
    <3>1. tx.hold = 0
      BY <1>4, <2>2 DEF TxHold
    <3>2. TxJmpX
      BY <1>1, <2>2, <3>1 DEF Tx, TxAt, TxDelay, TxIdle, TxHeader, TxMovY, TxWord, TxEdge, TxOut,
             TxMiddle, TxRestOfCell, TxCheckBit, TxNextWord, TxEnd, TxIrq
    <3>3. tx'.pc \in {"is_zero", "middle"} /\ tx'.hold = h /\ Keep /\ x' = x
      BY <1>3, <3>2 DEF TxJmpX, TxGo
    <3> QED BY <1>3, <2>2, <3>3 DEF Since, Position, Opening
  <2>3. CASE tx.pc \in {"is_zero", "middle"}
    <3>1. tx.hold > 0
      BY <1>2, <1>3, <1>4, <2>3 DEF Since
    <3>2. TxDelay
      <4>1. tx.hold # 0
        BY <1>4, <3>1
      <4> QED
        BY <1>1, <4>1 DEF Tx, TxAt, TxIdle, TxHeader, TxMovY, TxWord, TxEdge, TxOut, TxJmpX,
             TxMiddle, TxRestOfCell, TxCheckBit, TxNextWord, TxEnd, TxIrq
    <3>3. tx'.pc = tx.pc /\ tx'.hold = tx.hold - 1 /\ Keep /\ x' = x
      BY <1>4, <3>2 DEF TxDelay
    <3> QED BY <1>3, <1>4, <2>3, <3>3 DEF Since, Position, Opening
  <2> QED BY <1>2, <2>1, <2>2, <2>3 DEF Opening
<1>6. rx.pc \in Waits /\ inflight' = <<x'>>
  <2>1. rx.pc \in Waits /\ rx.pc \notin Ones \cup Zeros
    BY <1>2 DEF WaitsFor, Waits, Ones, Zeros
  <2>2. CASE tx.pc = "out"
    BY <1>2, <1>5, <2>1, <2>2, InFlight, OneBit
  <2>3. CASE tx.pc # "out"
    BY <1>2, <1>5, <2>1, <2>3, InFlight
  <2> QED BY <2>1, <2>2, <2>3
<1>7. pin' = pin
  BY <1>5 DEF Keep
<1>8. Since \in 1 .. 1 + j
  BY <1>2, <1>3, <1>4 DEF Since, Opening, TxHold
<1>9. CASE late # 0
  <2>1. rx' = rx
    <3>1. Seen # pin
      BY <1>1, <1>9 DEF Seen
    <3> QED BY <1>1, <1>2, <3>1, WaitSteps
  <2>2. WaitsFor(pin)'
    BY <1>2, <1>7, <2>1 DEF WaitsFor
  <2>3. Since' <= 1 + Jitter'
    <3>1. Since + 1 <= 1 + j
      BY <1>4, <1>8, <1>9
    <3> QED BY <1>3, <1>5, <3>1, Zenon
  <2>4. Looks'
    BY <1>5, <1>6, <2>2, <2>3 DEF Looks
  <2> QED BY <1>6, <2>1, <2>4 DEF Waits
<1>10. CASE late = 0
  <2>1. Seen = pin
    BY <1>10 DEF Seen
  <2>2. /\ rx'.pc \in Nops \cup Picks
        /\ Progress' \in 1 .. 1 + Early
        /\ rx'.pc \in FromLow <=> ~ pin
    BY <1>1, <1>2, <2>1, WaitSteps
  <2>3. rx'.pc \in Busy \ (Ones \cup Zeros)
    BY <2>2 DEF Busy, Nops, Picks, Ones, Zeros
  <2>4. tx'.pc \notin {"mov_y", "irq", "set", "header"}
    BY <1>5 DEF Opening
  <2>5. First' <=> pin
    BY <1>5, <1>7 DEF First, Opening
  <2>6. (Position - Progress)' \in (1 - Early') .. 1 + Jitter'
    <3>1. PICK p \in 1 .. 1 + e : Progress' = p
      BY <1>3, <2>2
    <3>2. PICK i \in 2 .. 2 + j : Since + 1 = i
      BY <1>8
    <3>3. i - p \in (1 - e) .. 1 + j
      BY <1>3
    <3> QED BY <1>3, <1>5, <3>1, <3>2, <3>3, Zenon
  <2> QED BY <1>6, <2>2, <2>3, <2>4, <2>5, <2>6 DEF Samples, Busy, Nops, Picks
<1> QED BY <1>9, <1>10

\* The bit is taken where its second half shows, and shifted in before the
\* next edge is seen.
LEMMA SamplesSteps ==
  ASSUME WireInv, Cycle, ReadBack \in 1 .. 4, synced, Samples
  PROVE  (Ready' \/ Looks' \/ Samples') /\ rx'.pc # "off"
<1>1. TxInv /\ RxTypes /\ Rx /\ Tx /\ program' = program /\ pin \in BOOLEAN
  BY DEF WireInv, RxInv, Cycle, TxInv, TxFlags
<1>2. /\ rx.pc \in Busy /\ tx.pc \notin {"mov_y", "irq", "set", "header"}
      /\ Position - Progress \in (1 - Early) .. 1 + Jitter
      /\ inflight = <<x>>
      /\ rx.pc \in FromLow <=> ~ First
      /\ rx.pc \in Ones => x = 1
      /\ rx.pc \in Zeros => x = 0
  BY DEF Samples
<1>3. PICK h \in 1 .. 5, s \in 1 .. 9, j \in 1 .. 3, e \in 0 .. 1 :
        /\ Half = h /\ Half' = h /\ Sample = s /\ Sample' = s
        /\ Jitter = j /\ Jitter' = j /\ Early = e /\ Early' = e
        /\ j <= h /\ h + j + e <= s /\ s + j <= 2 * h + 2 /\ program.half = h
        /\ Period = 6 + 2 * h
  BY <1>1, Delays, SameProgram
<1>4. /\ tx \in [pc : InCell \cup Between, hold : 0 .. 6] /\ tx.hold <= TxHold
      /\ x \in {0, 1}
      /\ rx \in [pc : {"off"} \cup Waits \cup Busy, hold : 0 .. 9]
      /\ rx.hold <= IF rx.pc \in Tests THEN s ELSE 0
  BY <1>1, <1>3 DEF TxInv, TxPlace, TxNumbers, RxTypes
<1>5. PICK q \in 1 .. 4 + s : Progress = q
  BY <1>3, <1>4 DEF Progress, Tests
<1>6. PICK i \in Int : Position = i /\ i - q \in (1 - e) .. 1 + j
  <2>1. Position \in Int
    BY <1>3, <1>4 DEF Position
  <2> QED BY <1>2, <1>3, <1>5, <2>1
<1>7. CASE rx.pc \in Busy \ (Ones \cup Zeros)
  <2>1. q <= 3 + s
    BY <1>3, <1>4, <1>5, <1>7 DEF Progress, Busy, Nops, Picks, Tests
  <2>2. Position <= Period
    <3>1. i <= 6 + 2 * h
      BY <1>3, <1>5, <1>6, <2>1
    <3> QED BY <1>3, <1>6, <3>1
  <2>3. tx.pc \in Closing \cup (Opening \ {"out"})
    BY <1>1, <1>2, <2>2, WithinPeriod
  <2>4. /\ Position' = Position + 1 /\ x' = x /\ (First' <=> First)
        /\ tx'.pc \notin {"mov_y", "irq", "set", "header"}
    BY <1>1, <2>3, PositionSteps
  <2>5. /\ Progress' = Progress + 1 /\ rx'.pc \in Busy
        /\ rx'.pc \in FromLow <=> rx.pc \in FromLow
        /\ rx'.pc \in Ones \cup Zeros => Progress = 3 + Sample
        /\ rx'.pc \in Ones => (Seen <=> rx.pc \in FromLow)
        /\ rx'.pc \in Zeros => ~ (Seen <=> rx.pc \in FromLow)
    BY <1>1, <1>7, SampleSteps
  <2>6. (Position - Progress)' \in (1 - Early') .. 1 + Jitter'
    <3>1. (i + 1) - (q + 1) \in (1 - e) .. 1 + j
      BY <1>5, <1>6
    <3> QED BY <1>3, <1>5, <1>6, <2>4, <2>5, <3>1, Zenon
  <2>7. inflight' = <<x'>>
    BY <1>2, <1>7, <2>3, <2>4, InFlight DEF Closing, Opening
  <2>8. ASSUME rx'.pc \in Ones \cup Zeros
        PROVE  (rx'.pc \in Ones => x = 1) /\ (rx'.pc \in Zeros => x = 0)
    <3>1. q = 3 + s
      BY <1>3, <1>5, <2>5, <2>8
    <3>2. i >= 4 + h + j
      BY <1>3, <1>6, <3>1
    <3>3. Position >= 4 + Half + Jitter
      BY <1>3, <1>6, <3>2
    <3>4. tx.pc \notin Opening /\ late = 0
      <4>1. tx.pc \notin {"out", "mov_y", "irq", "set", "header"}
        BY <2>3 DEF Closing, Opening
      <4> QED BY <1>1, <3>3, <4>1, Settled
    <3>5. (First <=> (pin <=> x = 0)) /\ (Seen <=> pin)
      BY <1>1, <3>4 DEF First, Opening, Seen
    <3> QED BY <1>1, <1>2, <1>4, <2>5, <3>5
  <2>9. Samples'
    <3>1. (rx'.pc \in FromLow <=> ~ First') /\ (rx'.pc \in Ones => x' = 1) /\ (rx'.pc \in Zeros => x' = 0)
      BY <1>2, <2>4, <2>5, <2>8
    <3> QED BY <2>4, <2>5, <2>6, <2>7, <3>1 DEF Samples
  <2> QED BY <2>5, <2>9 DEF Busy, Nops, Picks, Tests, Ones, Zeros
<1>8. CASE rx.pc \in Ones \cup Zeros
  <2>1. q = 4 + s
    BY <1>3, <1>5, <1>8 DEF Progress, Nops, Picks, Tests, Ones, Zeros
  <2>2. i >= 4 + h + j /\ i <= 7 + 2 * h
    BY <1>3, <1>5, <1>6, <2>1
  <2>3. /\ rx'.pc \in Waits
        /\ rx'.pc \in IF (rx.pc \in FromLow) = (rx.pc \in Ones) THEN {"wait_0"} ELSE {"wait_1"}
    BY <1>1, <1>8, ShiftSteps
  <2>4. ASSUME NEW level \in BOOLEAN, level <=> ~ ((rx.pc \in FromLow) <=> (x = 1))
        PROVE  rx'.pc \in IF level THEN {"wait_1"} ELSE {"wait_0", "wait_sop"}
    <3>1. rx.pc \in Ones <=> x = 1
      BY <1>2, <1>8
    <3> QED BY <2>3, <2>4, <3>1
  <2>5. Kept = <<>>
    BY <1>2, <1>8, OneBit DEF Kept
  <2>6. CASE tx.pc = "out"
    <3>1. tx.hold = 0
      BY <1>4, <2>6 DEF TxHold
    <3>2. TxOut
      BY <1>1, <2>6, <3>1 DEF Tx, TxAt, TxDelay, TxIdle, TxHeader, TxMovY, TxWord, TxEdge, TxJmpX,
             TxMiddle, TxRestOfCell, TxCheckBit, TxNextWord, TxEnd, TxIrq
    <3>3. tx'.pc = "jmp_x" /\ pin' = pin
      BY <3>2 DEF TxOut, TxGo, Keep
    <3>4. inflight' = <<x'>>
      BY <2>5, <2>6, <3>1, InFlight, OneBit
    <3>5. WaitsFor(pin)'
      <4>1. First <=> (pin <=> x = 1)
        BY <1>1, <2>6 DEF First
      <4>2. pin' <=> ~ ((rx.pc \in FromLow) <=> (x = 1))
        BY <1>1, <1>2, <3>3, <4>1
      <4> QED BY <1>1, <2>4, <3>3, <4>2 DEF WaitsFor
    <3>6. Since' <= 1 + Jitter'
      BY <1>3, <3>3 DEF Since
    <3>7. Looks'
      BY <3>3, <3>4, <3>5, <3>6 DEF Looks, Opening
    <3> QED BY <2>3, <3>7 DEF Waits
  <2>7. CASE tx.pc # "out"
    <3>1. tx.pc \notin Opening /\ late = 0
      <4>1. Position >= 4 + Half + Jitter
        BY <1>3, <1>6, <2>2
      <4> QED BY <1>1, <1>2, <2>7, <4>1, Settled
    <3>2. First <=> (pin <=> x = 0)
      BY <1>1, <3>1 DEF First, Opening
    <3>3. inflight' = <<>>
      BY <2>5, <2>7, InFlight
    <3>4. CASE tx.pc = "edge"
      <4>1. tx.hold = 0
        BY <1>4, <3>4 DEF TxHold
      <4>2. TxEdge
        BY <1>1, <3>4, <4>1 DEF Tx, TxAt, TxDelay, TxIdle, TxHeader, TxMovY, TxWord, TxOut, TxJmpX,
               TxMiddle, TxRestOfCell, TxCheckBit, TxNextWord, TxEnd, TxIrq
      <4>3. tx'.pc = "out" /\ pin' = ~ pin
        BY <1>1, <3>4, <4>1, <4>2, FlipChanges DEF TxEdge, TxGo
      <4>4. WaitsFor(pin)'
        <5>1. (~ pin) <=> ~ ((rx.pc \in FromLow) <=> (x = 1))
          BY <1>1, <1>2, <1>4, <3>2
        <5>2. pin' \in BOOLEAN /\ (pin' <=> ~ pin)
          BY <1>1, <4>3
        <5> QED BY <2>4, <5>1, <5>2 DEF WaitsFor
      <4>5. Since' <= 1 + Jitter'
        BY <1>3, <4>3 DEF Since
      <4>6. Looks'
        BY <3>3, <4>3, <4>4, <4>5 DEF Looks, Opening
      <4> QED BY <2>3, <4>6 DEF Waits
    <3>5. CASE tx.pc # "edge"
      <4>1. tx'.pc \notin Opening /\ Keep
        BY <1>1, <3>1, <3>5, TxMoves DEF Opening
      <4>2. pin' = pin /\ late' = 0
        BY <3>1, <4>1 DEF Keep
      <4>3. WaitsFor(~ pin)'
        <5>1. (~ pin) <=> ~ ((rx.pc \in FromLow) <=> (x = 1))
          BY <1>1, <1>2, <1>4, <3>2
        <5>2. (~ pin) \in BOOLEAN
          BY <1>1
        <5> QED BY <2>4, <4>2, <5>1, <5>2 DEF WaitsFor
      <4>4. Ready'
        BY <3>3, <4>1, <4>2, <4>3 DEF Ready
      <4> QED BY <2>3, <4>4 DEF Waits
    <3> QED BY <3>4, <3>5
  <2> QED BY <2>6, <2>7
<1> QED BY <1>2, <1>7, <1>8

\* Whatever either of them does, the two keep step.
LEMMA RxKept ==
  ASSUME WireInv, Cycle, ReadBack \in 1 .. 4, MinIdle >= 15
  PROVE  RxInv'
<1>1. TxInv /\ RxTypes /\ Rx /\ program' = program /\ synced \in BOOLEAN
  BY DEF WireInv, RxInv, Cycle
<1>2. RxTypes'
  BY <1>1, RxTypesKept
<1>3. synced' \in BOOLEAN /\ (synced => synced')
  BY SyncSteps DEF WireInv
<1>4. synced' => rx'.pc # "off" /\ (Ready' \/ Looks' \/ Samples')
  <2>1. CASE synced
    <3>1. Ready \/ Looks \/ Samples
      BY <2>1 DEF WireInv, RxInv
    <3> QED BY <2>1, <3>1, ReadySteps, LooksSteps, SamplesSteps
  <2>2. CASE ~ synced
    BY <2>2, BeginsReady
  <2> QED BY <2>1, <2>2
<1>5. ~ synced' => inflight' = <<>>
  <2>1. ASSUME ~ synced' PROVE ~ synced /\ inflight = <<>>
    BY <1>3, <2>1 DEF WireInv, RxInv
  <2> QED BY <2>1, InFlight
<1>6. tx'.pc = "header" => Restless' <= MinIdle - idle' \/ Restless' = 0
  BY RestKept
<1> QED BY <1>2, <1>3, <1>4, <1>5, <1>6 DEF RxInv

\* Both boards have just started, and the line is High.
LEMMA WireInit ==
  ASSUME Init, ReadBack \in 1 .. 4
  PROVE  WireInv
<1>1. /\ tx = [pc |-> "header", hold |-> 0] /\ rx = [pc |-> "off", hold |-> 0]
      /\ words = 0 /\ bits = 0 /\ x = 0 /\ oddZeros = FALSE /\ pin = TRUE
      /\ age = ReadBack /\ late = 0 /\ idle = MinIdle /\ inflight = <<>> /\ synced = FALSE
      /\ program \in {Std, Mid12, Mid10, Fast}
  BY DEF Init
<1>2. NWords \in Nat \ {0, 1} /\ WordBits \in Nat \ {0} /\ MinIdle \in Nat
  BY BmcWireAssumption
<1>3. Timing
  BY <1>1, ProgramTiming
<1>4. TxPlace
  BY <1>1 DEF TxPlace, TxHold, InCell, Between
<1>5. TxNumbers /\ TxFlags
  <2>1. words \in 0 .. NWords - 1 /\ bits \in 0 .. WordBits /\ idle \in 0 .. MinIdle
    BY <1>1, <1>2
  <2>2. tx.pc = "header"
    BY <1>1
  <2>3. age \in 0 .. ReadBack /\ late \in 0 .. 3 /\ x \in {0, 1}
    BY <1>1
  <2>4. TxFlags
    BY <1>1 DEF TxFlags
  <2> QED BY <2>1, <2>2, <2>3, <2>4 DEF TxNumbers
<1>6. EdgeInv
  BY <1>1 DEF EdgeInv
<1>7. LevelInv
  BY <1>1 DEF LevelInv, Frame, InCell
<1>8. RxTypes
  BY <1>1 DEF RxTypes, Waits, Tests
<1>9. Restless = 0
  BY <1>1 DEF Restless
<1> QED BY <1>1, <1>4, <1>5, <1>6, <1>7, <1>8, <1>9 DEF WireInv, TxInv, RxInv

\* The two state machines keep step, in every reachable state.
THEOREM KeepsStep ==
  ASSUME ReadBack \in 1 .. 4, MinIdle >= 15
  PROVE  Spec => []WireInv
<1>1. Init => WireInv
  BY WireInit
<1>2. WireInv /\ [Cycle]_vars => WireInv'
  <2> SUFFICES ASSUME WireInv, [Cycle]_vars PROVE WireInv'
    OBVIOUS
  <2>1. CASE Cycle
    <3>1. TxInv'
      BY <2>1, TxKept DEF WireInv, Cycle
    <3>2. RxInv'
      BY <2>1, RxKept
    <3> QED BY <3>1, <3>2 DEF WireInv
  <2>2. CASE UNCHANGED vars
    BY <2>2 DEF vars, txvars, WireInv, TxInv, TxPlace, TxHold, TxNumbers, TxFlags, EdgeInv, Since,
       Jitter, LevelInv, Halfway, Half, RxInv, RxTypes, Sample, Restless, Progress, Ready, Looks,
       Samples, Position, First, WaitsFor, Early, Period
  <2> QED BY <2>1, <2>2
<1> QED BY <1>1, <1>2, PTL DEF Spec

-----------------------------------------------------------------------------
(* What the run checks.                                                    *)

\* The variables keep their types and the receiver lags by a bit at most
\* (TypeOK), for words and frames of any length.
THEOREM WireType ==
  ASSUME ReadBack \in 1 .. 4, MinIdle >= 15
  PROVE  Spec => []TypeOK
<1>1. WireInv => TypeOK
  <2> SUFFICES ASSUME WireInv PROVE TypeOK
    OBVIOUS
  <2>1. program \in {Std, Mid12, Mid10, Fast} /\ tx.hold \in 0 .. 6 /\ rx.hold \in 0 .. 9
    BY DEF WireInv, TxInv, TxPlace, RxInv, RxTypes
  <2>2. /\ words \in 0 .. NWords - 1 /\ bits \in 0 .. WordBits /\ x \in {0, 1}
        /\ age \in 0 .. ReadBack /\ late \in 0 .. 3 /\ idle \in 0 .. MinIdle
        /\ {oddZeros, pin, synced} \subseteq BOOLEAN
    BY DEF WireInv, TxInv, TxNumbers, TxFlags, RxInv
  <2>3. inflight = <<>> \/ inflight = <<x>>
    BY DEF WireInv, RxInv, Ready, Looks, Samples
  <2>4. inflight \in Seq({0, 1}) /\ Len(inflight) <= 2
    <3>1. <<x>> \in Seq({0, 1}) /\ Len(<<x>>) = 1
      BY <2>2
    <3>2. <<>> \in Seq({0, 1}) /\ Len(<<>>) = 0
      OBVIOUS
    <3>3. CASE inflight = <<>>
      BY <3>2, <3>3
    <3>4. CASE inflight = <<x>>
      BY <3>1, <3>4
    <3> QED BY <2>3, <3>3, <3>4
  <2> QED BY <2>1, <2>2, <2>4 DEF TypeOK
<1> QED BY <1>1, KeepsStep, PTL

\* Every bit is decoded as it was sent, once and in order, from the first
\* frame that begins with the receiver on (DecodesWhatWasSent).
THEOREM Decodes ==
  ASSUME ReadBack \in 1 .. 4, MinIdle >= 15
  PROVE  Spec => []DecodesWhatWasSent
<1>1. WireInv => DecodesWhatWasSent
  <2> SUFFICES ASSUME WireInv, synced, rx.pc \in Ones \cup Zeros
               PROVE  inflight # <<>> /\ (Head(inflight) = 1) = (rx.pc \in Ones)
    BY DEF DecodesWhatWasSent
  <2>1. Samples
    BY DEF WireInv, RxInv, Ready, Looks, WaitsFor, Ones, Zeros
  <2>2. inflight = <<x>> /\ (rx.pc \in Ones => x = 1) /\ (rx.pc \in Zeros => x = 0)
    BY <2>1 DEF Samples
  <2>3. rx.pc \in Ones <=> x = 1
    BY <2>2
  <2> QED BY <2>2, <2>3, OneBit
<1> QED BY <1>1, KeepsStep, PTL

\* A frame leaves the line High, and the receiver has all of it when the
\* interrupt says that it is out (FrameEndsClean).
THEOREM EndsClean ==
  ASSUME ReadBack \in 1 .. 4, MinIdle >= 15
  PROVE  Spec => []FrameEndsClean
<1>1. WireInv => FrameEndsClean
  BY DEF FrameEndsClean, WireInv, TxInv, LevelInv, RxInv, Ready, Looks, Samples, Opening
<1> QED BY <1>1, KeepsStep, PTL
=============================================================================
