------------------------------ MODULE BmcWire -------------------------------
(***************************************************************************)
(* The wire between two boards, one PIO cycle per step: the transmit and   *)
(* the receive state machine of the four programs bmc/bmc_p2p*.pio.        *)
(*                                                                         *)
(* A cell begins with an edge; a 1 has a second edge in its middle.  The   *)
(* receiver waits for the edge, counts cycles and samples between the      *)
(* middle and the next edge.  The four programs differ in their delays and *)
(* in one nop.  An edge reaches the receiver early or late, the processors *)
(* feed words whenever they do, and the receiver may be switched on in the *)
(* middle of a frame.                                                      *)
(***************************************************************************)
EXTENDS Integers, Sequences

CONSTANTS
  WordBits,   \* bound: bits of a word, 32 in the code
  NWords,     \* bound: words of a frame, the postamble included
  ReadBack,   \* cycles until `mov pins, !pins' reads what the pin was driven to
  MinIdle     \* cycles the processor takes to start the next frame

ASSUME BmcWireAssumption ==
  WordBits \in Nat \ {0} /\ NWords \in Nat \ {0, 1} /\ {ReadBack, MinIdle} \subseteq Nat

VARIABLES
  program,      \* which of the four programs both boards run
  tx, rx,       \* pc: the instruction, hold: cycles of delay left before it
  words,        \* Y: words that follow this one
  bits,         \* bits left in OSR
  x,            \* X of the transmitter
  oddZeros,     \* the frame has had an odd number of 0s
  pin,          \* the driven level, TRUE for High
  age,          \* cycles since it changed, up to ReadBack
  late,         \* cycles until the receiver sees it change
  idle,         \* cycles the line has been idle, up to MinIdle
  inflight,     \* bits sent and not yet shifted in
  synced        \* the frame began with the receiver on

txvars == <<tx, words, bits, x, oddZeros, idle>>
vars   == <<program, txvars, rx, pin, age, late, inflight, synced>>

Least(a, b) == IF a < b THEN a ELSE b

-----------------------------------------------------------------------------
(* The delays [half] of `jmp !x' and of the middle edge, [keep] of a 0's   *)
(* nop and [sample] of the receiver's; whether a nop follows the first     *)
(* wait; and the margins the comments give, from the middle edge to the    *)
(* sample and from the sample to the next edge.                            *)

Std   == [half |-> 5, keep |-> 6, sample |-> 9, lead |-> FALSE, after |-> 4, before |-> 4]
Mid12 == [half |-> 3, keep |-> 4, sample |-> 6, lead |-> TRUE,  after |-> 3, before |-> 3]
Mid10 == [half |-> 2, keep |-> 3, sample |-> 4, lead |-> TRUE,  after |-> 2, before |-> 3]

\* Seeded bug: the delay of the 10-cycle program.
FastMiscopied ==
  [half |-> 1, keep |-> 2, sample |-> 4, lead |-> TRUE,  after |-> 2, before |-> 2]

Fast  == [half |-> 1, keep |-> 2, sample |-> 3, lead |-> TRUE,  after |-> 2, before |-> 2]

\* An edge may be this late: it is in time at the sampling cycle itself,
\* and the next one must not be.
Jitter == Least(program.after, program.before - 1)

-----------------------------------------------------------------------------
(* The transmitter.                                                        *)

TxAt(pc) == tx.pc = pc /\ tx.hold = 0

TxGo(pc, delay) == tx' = [pc |-> pc, hold |-> delay]

Keep == pin' = pin /\ age' = Least(age + 1, ReadBack) /\ late' = IF late = 0 THEN 0 ELSE late - 1

Drive(level) ==
  IF level = pin THEN Keep
  ELSE pin' = level /\ age' = 1 /\ late' \in 0 .. Jitter

\* mov pins, !pins: the pin is read through the synchronizer of its input.
Flip == Drive(IF age >= ReadBack THEN ~ pin ELSE pin)

TxDelay ==
  /\ tx.hold > 0
  /\ tx' = [tx EXCEPT !.hold = @ - 1]
  /\ Keep
  /\ UNCHANGED <<words, bits, x, oddZeros, idle, synced>>

\* set pins, 1 at the top, pull block: the processor starts a frame, or has
\* not yet.
TxIdle ==
  /\ TxAt("set")
  /\ TxGo("header", 0) /\ Drive(TRUE) /\ idle' = 0
  /\ UNCHANGED <<words, bits, x, oddZeros, synced>>

TxHeader ==
  /\ TxAt("header")
  /\ \/ idle = MinIdle /\ TxGo("mov_y", 0) /\ words' = NWords - 1 /\ oddZeros' = FALSE
        /\ synced' = (rx.pc # "off")
        /\ UNCHANGED idle
     \/ idle' = Least(idle + 1, MinIdle) /\ UNCHANGED <<tx, words, oddZeros, synced>>
  /\ Keep
  /\ UNCHANGED <<bits, x>>

TxMovY ==
  /\ TxAt("mov_y") /\ TxGo("word", 0)
  /\ Keep /\ UNCHANGED <<words, bits, x, oddZeros, idle, synced>>

\* word_loop: the DMA channel has put the next word there, or is late.
TxWord ==
  /\ TxAt("word")
  /\ \/ TxGo("edge", 0) /\ bits' = WordBits
     \/ UNCHANGED <<tx, bits>>
  /\ Keep /\ UNCHANGED <<words, x, oddZeros, idle, synced>>

TxEdge ==
  /\ TxAt("edge") /\ TxGo("out", 0)
  /\ Flip /\ UNCHANGED <<words, bits, x, oddZeros, idle, synced>>

\* Seeded bug: the padding does not make the number of 0s even.
FrameBitsUneven == IF words = 0 THEN {1} ELSE {0, 1}

\* packet_build: any data, then a last bit that makes the number of 0s even,
\* then a postamble of 1s.
FrameBits ==
  IF words = 0 THEN {1}
  ELSE IF words = 1 /\ bits = 1 THEN {IF oddZeros THEN 0 ELSE 1} ELSE {0, 1}

TxOut ==
  /\ TxAt("out") /\ TxGo("jmp_x", 0)
  /\ x' \in FrameBits /\ bits' = bits - 1
  /\ oddZeros' = (oddZeros # (x' = 0))
  /\ Keep /\ UNCHANGED <<words, idle, synced>>

TxJmpX ==
  /\ TxAt("jmp_x")
  /\ TxGo(IF x = 0 THEN "is_zero" ELSE "middle", program.half)
  /\ Keep /\ UNCHANGED <<words, bits, x, oddZeros, idle, synced>>

TxMiddle ==
  /\ TxAt("middle") /\ TxGo("jmp_check", program.half)
  /\ Flip /\ UNCHANGED <<words, bits, x, oddZeros, idle, synced>>

TxRestOfCell ==
  /\ \/ TxAt("jmp_check") /\ TxGo("check_bit", 0)
     \/ TxAt("is_zero") /\ TxGo("check_bit", program.keep)
  /\ Keep /\ UNCHANGED <<words, bits, x, oddZeros, idle, synced>>

\* Seeded bug: the test comes out one bit late.
TxCheckBitLate ==
  /\ TxAt("check_bit") /\ TxGo(IF bits >= 0 THEN "edge" ELSE "jmp_y", 0)
  /\ Keep /\ UNCHANGED <<words, bits, x, oddZeros, idle, synced>>

\* jmp !osre
TxCheckBit ==
  /\ TxAt("check_bit") /\ TxGo(IF bits > 0 THEN "edge" ELSE "jmp_y", 0)
  /\ Keep /\ UNCHANGED <<words, bits, x, oddZeros, idle, synced>>

TxNextWord ==
  /\ TxAt("jmp_y")
  /\ IF words > 0 THEN words' = words - 1 /\ TxGo("word", 0)
                  ELSE UNCHANGED words /\ TxGo("end", 0)
  /\ Keep /\ UNCHANGED <<bits, x, oddZeros, idle, synced>>

TxEnd ==
  /\ TxAt("end") /\ TxGo("irq", 0)
  /\ Drive(TRUE) /\ UNCHANGED <<words, bits, x, oddZeros, idle, synced>>

TxIrq ==
  /\ TxAt("irq") /\ TxGo("set", 0)
  /\ Keep /\ UNCHANGED <<words, bits, x, oddZeros, idle, synced>>

Tx ==
  \/ TxDelay \/ TxIdle \/ TxHeader \/ TxMovY \/ TxWord \/ TxEdge \/ TxOut \/ TxJmpX
  \/ TxMiddle \/ TxRestOfCell \/ TxCheckBit \/ TxNextWord \/ TxEnd \/ TxIrq

-----------------------------------------------------------------------------
(* The receiver.                                                           *)

Seen == IF late = 0 THEN pin ELSE ~ pin

RxGo(pc, delay) == rx' = [pc |-> pc, hold |-> delay]

\* A wait goes on to the next instruction at the level it waits for.
RxWait(pc, level, next) ==
  rx.pc = pc /\ IF Seen = level THEN RxGo(next, 0) ELSE UNCHANGED rx

\* bmc_rx_program_init enables the state machine at any moment.
RxEnable == rx.pc = "off" /\ rx' \in {rx, [pc |-> "wait_sop", hold |-> 0]}

RxDelay == rx.hold > 0 /\ rx' = [rx EXCEPT !.hold = @ - 1]

RxWaits ==
  /\ rx.hold = 0
  /\ \/ RxWait("wait_sop", FALSE, IF program.lead THEN "nop" ELSE "was_low")
     \/ RxWait("wait_0", FALSE, "jmp_was_low")
     \/ RxWait("wait_1", TRUE, "jmp_was_high")

\* was_low and was_high: the nop with its delay, and the sample.
RxSample ==
  /\ rx.hold = 0
  /\ \/ rx.pc \in {"nop", "jmp_was_low"} /\ RxGo("was_low", 0)
     \/ rx.pc = "jmp_was_high" /\ RxGo("was_high", 0)
     \/ rx.pc = "was_low" /\ RxGo("test_low", program.sample)
     \/ rx.pc = "was_high" /\ RxGo("test_high", program.sample)
     \/ rx.pc = "test_low" /\ RxGo(IF Seen THEN "got_1_from_low" ELSE "got_0_from_low", 0)
     \/ rx.pc = "test_high" /\ RxGo(IF Seen THEN "got_0_from_high" ELSE "got_1_from_high", 0)

Ones   == {"got_1_from_low", "got_1_from_high"}
Zeros  == {"got_0_from_low", "got_0_from_high"}

\* in x, 1 or in null, 1; the next edge goes the other way.
RxShift ==
  /\ rx.pc \in Ones \cup Zeros
  /\ RxGo(IF rx.pc \in {"got_0_from_low", "got_1_from_high"} THEN "wait_1" ELSE "wait_0", 0)

Rx == RxEnable \/ RxDelay \/ RxWaits \/ RxSample \/ RxShift

-----------------------------------------------------------------------------
Init ==
  /\ program \in {Std, Mid12, Mid10, Fast}
  /\ tx = [pc |-> "header", hold |-> 0] /\ rx = [pc |-> "off", hold |-> 0]
  /\ words = 0 /\ bits = 0 /\ x = 0 /\ oddZeros = FALSE
  /\ pin = TRUE /\ age = ReadBack /\ late = 0 /\ idle = MinIdle
  /\ inflight = <<>> /\ synced = FALSE

\* Both state machines run on the same clock.
Cycle ==
  /\ Tx /\ Rx
  /\ LET kept == IF rx.pc \in Ones \cup Zeros /\ inflight # <<>> THEN Tail(inflight) ELSE inflight
     IN  inflight' = IF synced /\ TxAt("out") THEN Append(kept, x') ELSE kept
  /\ UNCHANGED program

Spec == Init /\ [][Cycle]_vars
-----------------------------------------------------------------------------
\* The variables keep their types, and the receiver is at most a bit behind
\* the one being sent.
TypeOK ==
  /\ program \in {Std, Mid12, Mid10, Fast}
  /\ tx.hold \in 0 .. 6 /\ rx.hold \in 0 .. 9
  /\ words \in 0 .. NWords - 1 /\ bits \in 0 .. WordBits /\ x \in {0, 1}
  /\ {oddZeros, pin, synced} \subseteq BOOLEAN
  /\ age \in 0 .. ReadBack /\ late \in 0 .. 3 /\ idle \in 0 .. MinIdle
  /\ inflight \in Seq({0, 1}) /\ Len(inflight) <= 2

\* Whatever the data, the lateness of each edge within the margins the
\* comments give, the stalls of the DMA channel between two words and the
\* moment the receiver was switched on: from the first frame that begins with
\* the receiver on, it shifts in the bits that were sent, each once and no other.
DecodesWhatWasSent ==
  synced /\ rx.pc \in Ones \cup Zeros =>
    inflight # <<>> /\ (Head(inflight) = 1) = (rx.pc \in Ones)

\* A frame ends with the line High, so that driving it High is no edge, and
\* when the interrupt says that it is out the receiver has all of it.
FrameEndsClean ==
  /\ tx.pc = "end" => pin
  /\ tx.pc = "irq" /\ synced => inflight = <<>>
=============================================================================
