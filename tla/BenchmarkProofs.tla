-------------------------- MODULE BenchmarkProofs --------------------------
(***************************************************************************)
(* What the handshake of the two cores guarantees, for every size of the   *)
(* model: the proof needs nothing of the frames and the hardware.  And     *)
(* what the two transmit buffers of a burst and the interrupt guarantee,   *)
(* for frames and FIFOs of every size and any number of commands.          *)
(***************************************************************************)
EXTENDS Benchmark, Integers, SequenceTheorems, TLAPS

\* What holds of the flags at every step of the two cores.
Handshake ==
  /\ enabled \in BOOLEAN /\ active \in BOOLEAN /\ stray \in {0, 1}
  /\ enabled => stray = 0
  /\ pc1 = "poll" => active
  /\ ~ enabled /\ pc1 = "mark" => stray = 0
  /\ Stopped /\ active => stray = 1

\* The parts of the state the handshake is about.
shared == <<enabled, active, pc1, stray>>

\* A step that leaves the flags, the worker and the count alone keeps the
\* handshake, unless core 0 leaves the place where it waits.
LEMMA Bystander ==
  ASSUME Handshake, UNCHANGED shared, pc0 = "await" => pc0' = "await"
  PROVE  Handshake'
BY DEF Handshake, shared, Stopped

\* The handshake holds when the program starts.
LEMMA HandshakeInit == Init => Handshake
BY DEF Init, Handshake, Stopped

\* Each step of core 1 keeps the handshake.
LEMMA HandshakeCore1 ==
  ASSUME Handshake, Core1
  PROVE  Handshake'
<1>1. CASE Park
  BY <1>1 DEF Park, Handshake, Stopped, core0Vars
<1>2. CASE Check
  BY <1>2 DEF Check, Handshake, Stopped, core0Vars, flagVars
<1>3. CASE Mark
  BY <1>3 DEF Mark, Handshake, Stopped, core0Vars
<1>4. CASE PollOf1
  BY <1>4 DEF PollOf1, Handshake, Stopped, core0Vars, flagVars
<1>5. QED
  BY <1>1, <1>2, <1>3, <1>4 DEF Core1

\* Each step of core 0 that stops or starts the worker keeps it.
LEMMA HandshakeReconfigure ==
  ASSUME Handshake, Reconfigure
  PROVE  Handshake'
<1>1. CASE Stop
  BY <1>1 DEF Stop, At, Goto, Handshake, Stopped
<1>2. CASE Await
  BY <1>2 DEF Await, At, Handshake, Stopped, flagVars
<1>3. CASE Teardown
  BY <1>3, Bystander DEF Teardown, At, flagVars, shared
<1>4. CASE Setup
  BY <1>4, Bystander DEF Setup, At, flagVars, shared
<1>5. CASE Restart
  <2>1. /\ pc0 # "await" /\ pc0' # "await"
        /\ UNCHANGED <<active, pc1>>
        /\ \/ enabled' = TRUE /\ stray' = 0
           \/ UNCHANGED <<enabled, stray>>
    BY <1>5 DEF Restart, At, Goto
  <2>2. CASE enabled' = TRUE /\ stray' = 0
    BY <2>1, <2>2 DEF Handshake, Stopped
  <2>3. CASE UNCHANGED <<enabled, stray>>
    BY <2>1, <2>3, Bystander DEF shared
  <2>4. QED
    BY <2>1, <2>2, <2>3
<1>6. QED
  BY <1>1, <1>2, <1>3, <1>4, <1>5 DEF Reconfigure

\* So does everything else: commands, frames, answers and the hardware.
LEMMA HandshakeRest ==
  ASSUME Handshake, Command \/ Begin \/ Send \/ Answer \/ HardwareStep
  PROVE  Handshake'
<1>1. CASE Command
  BY <1>1, Bystander
  DEF Command, KeyApply, KeySingle, KeyPad, TypeKey, At, flagVars, shared
<1>2. CASE Begin
  BY <1>2, Bystander DEF Begin, At, flagVars, shared
<1>3. CASE Send
  BY <1>3, Bystander
  DEF Send, EncodeFrame, Clear, Trigger, SendUart, Wait, At, flagVars, shared
<1>4. CASE Answer
  BY <1>4, Bystander DEF Answer, Receive, Deadline, At, flagVars, shared
<1>5. CASE HardwareStep
  BY <1>5, Bystander DEF HardwareStep, core0Vars, flagVars, shared
<1>6. QED
  BY <1>1, <1>2, <1>3, <1>4, <1>5

\* The handshake holds in every state of the benchmark.
THEOREM Invariance == Spec => []Handshake
<1>1. Handshake /\ [Next]_vars => Handshake'
  <2> SUFFICES ASSUME Handshake, [Next]_vars PROVE Handshake'
    OBVIOUS
  <2>1. CASE UNCHANGED vars
    BY <2>1, Bystander DEF vars, core0Vars, flagVars, shared
  <2>2. CASE Next
    BY <2>2, HandshakeCore1, HandshakeReconfigure, HandshakeRest DEF Next
  <2>3. QED
    BY <2>1, <2>2
<1>2. QED
  BY HandshakeInit, <1>1, PTL DEF Spec

\* A poll that was under way is over before core 0 goes on, and the worker makes
\* one more at most (main_benchmark.c: apply_mode, core1_rx_worker).
THEOREM Leak == Spec => []StopLeaksOnePoll
<1>1. Handshake => StopLeaksOnePoll
  BY DEF Handshake, StopLeaksOnePoll
<1>2. QED
  BY Invariance, <1>1, PTL

-----------------------------------------------------------------------------
(* The inductive invariant of core 0 and the transmitter.                  *)

Still == dma.left = 0 /\ fifo = <<>> /\ sm = <<>>

\* The frame that is pending is on its way, and nothing else is.
InFlight ==
  /\ pending # "none" /\ ~ irq
  /\ dma.left + Len(fifo) + Len(sm) = FrameWords
  /\ dma.left > 0 => dma.buf = pending
  /\ \A i \in 1 .. Len(fifo) : fifo[i] = bufs[pending]
  /\ \A i \in 1 .. Len(sm) : sm[i] = bufs[pending]

\* Where core 0 is, what for, and which buffer it may write next: never the
\* one that is pending.
CourseInv ==
  /\ pc0 = "encode" => made < MaxFrames
  /\ pc0 \in {"stop", "await"} =>
       job = "apply" \/ (job = "single" /\ made < MaxFrames)
  /\ pc0 \in {"trigger", "wait"} => ~ Uart
  /\ Uart /\ pc0 # "setup" => ~ pipeline
  /\ pending = "single" => pc0 = "wait"
  /\ pc0 = "setup" \/ Uart \/ pending # next

\* What is sent has been encoded.
EncodedInv ==
  /\ pc0 \in {"clear", "trigger", "wait", "receive"} => bufs[Frame] # Broken
  /\ dma.left > 0 => bufs[dma.buf] # Broken
  /\ pending # "none" => bufs[pending] # Broken

\* The transmitter of a BMC mode, as long as no frame was started over a
\* pending one: what moves is the pending frame, and an interrupt is its end.
\* The UART needs none of it, and finds it still.
AirInv ==
  /\ overlapped \/ confirmed \subseteq aired
  /\ pc0 = "setup" \/ Uart => Still
  /\ ~ overlapped /\ ~ Uart /\ pc0 # "setup" =>
       /\ Still \/ InFlight
       /\ pending # "none" /\ irq => bufs[pending] \in aired
       /\ pc0 = "trigger" => ~ irq /\ pending = "none"

\* The remainder of a sequence number is one again.
LEMMA NextSeq == \A k \in Nat : k % SeqMod \in 0 .. SeqMod - 1
BY BenchmarkAssumption

LEMMA FrameIsBuffer == next \in {"even", "odd"} => Frame \in Buffers
BY DEF Frame, Buffers

-----------------------------------------------------------------------------
(* Type correctness of the transmitter.                                    *)

LEMMA BrokenIsNoId == Broken \notin Ids
BY DEF Broken, Ids

\* What becomes of the receiver's ring.
LEMMA Rings ==
  ASSUME NEW S, NEW s \in Seq(S)
  PROVE  /\ <<>> \in Seq(S) /\ \A x \in S : Append(s, x) \in Seq(S)
         /\ s # <<>> => Tail(s) \in Seq(S) /\ Head(s) \in S
OBVIOUS

LEMMA RxGrows ==
  ASSUME TxTypeOK
  PROVE  /\ <<>> \in Seq(Ids \cup {Broken})
         /\ \A k \in Ids : Append(rx, k) \in Seq(Ids \cup {Broken})
         /\ Append(rx, Broken) \in Seq(Ids \cup {Broken})
         /\ rx # <<>> => Tail(rx) \in Seq(Ids \cup {Broken})
<1> DEFINE S == Ids \cup {Broken}
<1>1. rx \in Seq(S) /\ Broken \in S /\ \A k \in Ids : k \in S
  BY DEF TxTypeOK
<1> HIDE DEF S
<1>2. /\ <<>> \in Seq(S) /\ \A k \in Ids : Append(rx, k) \in Seq(S)
      /\ Append(rx, Broken) \in Seq(S)
      /\ rx # <<>> => Tail(rx) \in Seq(S)
  BY <1>1, Rings
<1> QED
  BY <1>2 DEF S

\* The channel as it is left.
LEMMA Channel ==
  ASSUME TxTypeOK, NEW b \in Buffers, NEW n \in Nat, n <= FrameWords
  PROVE  /\ [buf |-> b, left |-> n] \in [buf : Buffers, left : 0 .. FrameWords]
         /\ [dma EXCEPT !.left = n] \in [buf : Buffers, left : 0 .. FrameWords]
<1>1. n \in 0 .. FrameWords
  BY TxSizesAssumption
<1> QED
  BY <1>1 DEF TxTypeOK

LEMMA TypedFetch ==
  ASSUME TxTypeOK, EncodedInv, Fetch
  PROVE  TxTypeOK'
<1>1. bufs[dma.buf] \in Ids
  BY DEF TxTypeOK, EncodedInv, Fetch
<1>2. fifo' \in Seq(Ids) /\ Len(fifo') <= FifoDepth
  BY <1>1, TxSizesAssumption DEF Fetch, TxTypeOK
<1>3. dma' \in [buf : Buffers, left : 0 .. FrameWords]
  <2>1. dma.left \in Nat /\ dma.left > 0 /\ dma.left <= FrameWords
    BY TxSizesAssumption DEF Fetch, TxTypeOK
  <2>2. dma.left - 1 \in Nat /\ dma.left - 1 <= FrameWords
    BY <2>1, TxSizesAssumption
  <2>3. [dma EXCEPT !.left = dma.left - 1] \in [buf : Buffers, left : 0 .. FrameWords]
    BY <2>2, Channel DEF Buffers
  <2> QED
    BY <2>3 DEF Fetch
<1> QED
  BY <1>2, <1>3 DEF Fetch, TxTypeOK

LEMMA TypedShift ==
  ASSUME TxTypeOK, Shift
  PROVE  TxTypeOK'
<1> DEFINE words == Append(sm, Head(fifo))
<1>1. /\ fifo \in Seq(Ids) /\ fifo # <<>> /\ Head(fifo) \in Ids
      /\ Tail(fifo) \in Seq(Ids) /\ Len(Tail(fifo)) = Len(fifo) - 1
  BY DEF TxTypeOK, Shift
<1>2. words \in Seq(Ids) /\ Len(words) = Len(sm) + 1 /\ Len(sm) \in Nat
  BY <1>1 DEF TxTypeOK
<1>3. words[1] \in Ids
  BY <1>2
<1>4. /\ fifo' = Tail(fifo)
      /\ \/ Len(words) < FrameWords /\ sm' = words /\ UNCHANGED <<irq, aired, losses, rx>>
         \/ /\ sm' = <<>> /\ irq' = TRUE
            /\ aired' \in {aired, aired \cup {words[1]}}
            /\ rx' \in {Append(rx, words[1]), Append(rx, Broken)}
            /\ losses' = losses \/ (losses < Losses /\ losses' = losses + 1)
  BY DEF Shift
<1> HIDE DEF words
<1>5. fifo' \in Seq(Ids) /\ Len(fifo') <= FifoDepth
  BY <1>1, <1>4, TxSizesAssumption DEF TxTypeOK
<1>6. sm' \in Seq(Ids) /\ Len(sm') < FrameWords
  <2>1. CASE sm' = <<>>
    BY <2>1, TxSizesAssumption
  <2>2. CASE Len(words) < FrameWords /\ sm' = words
    BY <1>2, <2>2
  <2> QED
    BY <1>4, <2>1, <2>2
<1>7. aired' \subseteq Ids /\ losses' \in 0 .. Losses
  BY <1>3, <1>4, TxSizesAssumption DEF TxTypeOK
<1>8. rx' \in Seq(Ids \cup {Broken})
  <2>1. rx' \in {rx, Append(rx, words[1]), Append(rx, Broken)}
    BY <1>4
  <2> QED
    BY <1>3, <2>1, RxGrows DEF TxTypeOK
<1>9. irq' \in BOOLEAN
  BY <1>4 DEF TxTypeOK
<1> QED
  BY <1>5, <1>6, <1>7, <1>8, <1>9 DEF Shift, TxTypeOK

LEMMA TypedSilence ==
  ASSUME TxTypeOK, NEW kept \in BOOLEAN, Silence(kept)
  PROVE  /\ dma' \in [buf : Buffers, left : 0 .. FrameWords]
         /\ fifo' \in Seq(Ids) /\ Len(fifo') <= FifoDepth
         /\ sm' \in Seq(Ids) /\ Len(sm') < FrameWords
         /\ rx' \in Seq(Ids \cup {Broken})
<1>1. /\ dma' \in [buf : Buffers, left : 0 .. FrameWords]
      /\ fifo' = <<>> /\ sm' = <<>>
  <2>1. [dma EXCEPT !.left = 0] \in [buf : Buffers, left : 0 .. FrameWords]
    BY Channel, TxSizesAssumption DEF Buffers
  <2> QED
    BY <2>1 DEF Silence
<1>2. rx' \in {<<>>, rx, Append(rx, Broken)}
  BY DEF Silence
<1>3. rx' \in Seq(Ids \cup {Broken})
  BY <1>2, RxGrows DEF TxTypeOK
<1> QED
  BY <1>1, <1>3, TxSizesAssumption

\* The controller's own steps.
LEMMA TypedControl ==
  ASSUME TxTypeOK, EncodedInv,
         \/ SetPadVariant \/ StopHardware \/ SetupHardware \/ SetupUart
         \/ StartClear \/ WaitNothing \/ WaitDone \/ WaitTimeout
  PROVE  TxTypeOK'
<1>1. CASE SetPadVariant
  BY <1>1, TypedSilence DEF SetPadVariant, TxTypeOK
<1>2. CASE StopHardware
  <2>1. resident' \in BOOLEAN
    BY <1>2 DEF StopHardware
  <2> QED
    BY <1>2, <2>1, TypedSilence DEF StopHardware, TxTypeOK
<1>3. CASE SetupHardware \/ SetupUart
  <2>1. resident' \in BOOLEAN /\ overlapped' \in BOOLEAN
    BY <1>3 DEF SetupHardware, SetupUart, TxTypeOK
  <2> QED
    BY <1>3, <2>1 DEF SetupHardware, SetupUart, wireVars, TxTypeOK
<1>4. CASE StartClear
  <2>1. irq' \in BOOLEAN /\ overlapped' \in BOOLEAN
    BY <1>4 DEF StartClear
  <2> QED
    BY <1>4, <2>1 DEF StartClear, wireVars, TxTypeOK
<1>5. CASE WaitNothing
  BY <1>5 DEF WaitNothing, bmcTxVars, TxTypeOK
<1>6. CASE WaitDone
  <2>1. irq' \in BOOLEAN /\ bufs[pending] \in Ids
    BY <1>6 DEF WaitDone, EncodedInv, TxTypeOK
  <2> QED
    BY <1>6, <2>1 DEF WaitDone, wireVars, TxTypeOK
<1>7. CASE WaitTimeout
  BY <1>7, TypedSilence DEF WaitTimeout, TxTypeOK
<1> QED
  BY <1>1, <1>2, <1>3, <1>4, <1>5, <1>6, <1>7

\* The steps that are about a buffer.
LEMMA TypedBuffer ==
  ASSUME TxTypeOK, NEW b \in Buffers,
         \/ UartSend(b) /\ bufs[b] # Broken
         \/ StartTrigger(b)
         \/ Encode(b, made + 1) /\ made \in Nat /\ made < MaxFrames
  PROVE  TxTypeOK'
<1>1. CASE UartSend(b) /\ bufs[b] # Broken
  <2>1. bufs[b] \in Ids
    BY <1>1 DEF TxTypeOK
  <2>2. rx' \in Seq(Ids \cup {Broken}) /\ losses' \in 0 .. Losses
    <3>1. rx' \in {Append(rx, bufs[b]), Append(rx, Broken)}
      BY <1>1 DEF UartSend
    <3>2. losses' = losses \/ (losses < Losses /\ losses' = losses + 1)
      BY <1>1 DEF UartSend
    <3>3. losses' \in 0 .. Losses
      BY <3>2, TxSizesAssumption DEF TxTypeOK
    <3> QED
      BY <2>1, <3>1, <3>3, RxGrows
  <2> QED
    BY <1>1, <2>1, <2>2 DEF UartSend, TxTypeOK
<1>2. CASE StartTrigger(b)
  <2>1. dma' \in [buf : Buffers, left : 0 .. FrameWords]
    BY <1>2, TxSizesAssumption DEF StartTrigger, Transfer, TxTypeOK
  <2> QED
    BY <1>2, <2>1 DEF StartTrigger, TxTypeOK
<1>3. CASE Encode(b, made + 1) /\ made \in Nat /\ made < MaxFrames
  <2>1. made + 1 \in Ids
    BY <1>3, TxSizesAssumption DEF Ids
  <2> QED
    BY <1>3, <2>1 DEF Encode, TxTypeOK
<1> QED
  BY <1>1, <1>2, <1>3

LEMMA TypedPoll ==
  ASSUME TxTypeOK, NEW k \in Ids \cup {Broken}, PollGives(k),
         UNCHANGED <<bufs, dma, fifo, sm, irq, resident, pending, confirmed,
                     overlapped, aired, losses>>
  PROVE  TxTypeOK'
<1>1. rx' \in Seq(Ids \cup {Broken})
  BY RxGrows DEF PollGives, TxTypeOK
<1> QED
  BY <1>1 DEF TxTypeOK

-----------------------------------------------------------------------------
(* Type correctness of the two cores.                                      *)

LEMMA HandshakeKept ==
  ASSUME Handshake, [Next]_vars
  PROVE  Handshake'
<1>1. CASE UNCHANGED vars
  BY <1>1, Bystander DEF vars, core0Vars, flagVars, shared
<1>2. CASE Next
  BY <1>2, HandshakeCore1, HandshakeReconfigure, HandshakeRest DEF Next
<1> QED
  BY <1>1, <1>2

\* The flags and the worker are typed as long as the handshake holds.
FlagsTyped ==
  /\ enabled \in BOOLEAN /\ active \in BOOLEAN
  /\ pc1 \in {"check", "mark", "poll"} /\ stray \in Nat

\* What is core 0's own.
Core0Typed ==
  /\ pc0 \in {"loop", "stop", "await", "teardown", "setup", "encode", "clear",
              "trigger", "wait", "receive", "restart"}
  /\ job \in {"apply", "single", "exchange", "burst"}
  /\ mode \in Modes
  /\ seq \in 0 .. SeqMod - 1 /\ made \in 0 .. MaxFrames
  /\ seqOf \in [Ids -> 0 .. SeqMod - 1]
  /\ next \in {"even", "odd"} /\ pipeline \in BOOLEAN /\ wasEnabled \in BOOLEAN
  /\ answer \in Ids \cup {0} /\ keys \in 0 .. MaxKeys

LEMMA FlagsKept ==
  ASSUME FlagsTyped, Handshake, Next
  PROVE  FlagsTyped'
<1>1. Handshake'
  BY HandshakeKept
<1>2. enabled' \in BOOLEAN /\ active' \in BOOLEAN /\ stray' \in Nat
  BY <1>1 DEF Handshake
<1>3. CASE Core1
  BY <1>2, <1>3 DEF FlagsTyped, Core1, Park, Check, Mark, PollOf1, core0Vars
<1>4. CASE ~ Core1
  <2>1. pc1' = pc1
    BY <1>4 DEF Next, Command, Reconfigure, Begin, Send, Answer, HardwareStep, KeyApply,
       KeySingle, KeyPad, TypeKey, Stop, Await, Teardown, Setup, Restart, EncodeFrame,
       Clear, Trigger, SendUart, Wait, Receive, Deadline
  <2> QED
    BY <1>2, <2>1 DEF FlagsTyped
<1> QED
  BY <1>3, <1>4

\* Core 0 keeps what it counts in range.
LEMMA Core0Kept ==
  ASSUME Core0Typed, CourseInv, Next, enabled \in BOOLEAN
  PROVE  Core0Typed'
<1>1. CASE Core1 \/ HardwareStep
  BY <1>1 DEF Core0Typed, Core1, Park, Check, Mark, PollOf1, HardwareStep, core0Vars, Modes
<1>2. CASE Command
  <2>1. /\ UNCHANGED <<mode, seq, made, seqOf, next, pipeline, wasEnabled, answer>>
        /\ keys < MaxKeys /\ keys' = keys + 1
        /\ pc0' \in {"stop", "loop"} /\ job' \in {"apply", "single", job}
    BY <1>2 DEF Command, KeyApply, KeySingle, KeyPad, TypeKey, Goto
  <2>2. keys' \in 0 .. MaxKeys
    BY <2>1, BenchmarkAssumption DEF Core0Typed
  <2> QED
    BY <2>1, <2>2 DEF Core0Typed, Modes
<1>3. CASE Stop \/ Await \/ Restart
  <2>1. /\ UNCHANGED <<job, mode, seq, made, seqOf, next, pipeline, answer, keys>>
        /\ pc0' \in {"await", "teardown", "encode", "loop"}
        /\ wasEnabled' = wasEnabled \/ wasEnabled' = enabled
    BY <1>3 DEF Stop, Await, Restart, Goto
  <2>2. wasEnabled' \in BOOLEAN
    BY <2>1 DEF Core0Typed
  <2> QED
    BY <2>1, <2>2 DEF Core0Typed, Modes
<1>4. CASE Teardown
  BY <1>4 DEF Teardown, Goto, Core0Typed
<1>5. CASE Setup
  <2>1. wasEnabled' \in BOOLEAN /\ pipeline' \in BOOLEAN
    <3>1. wasEnabled' = Burst /\ pipeline' = FALSE
      BY <1>5 DEF Setup
    <3>2. Burst \in BOOLEAN
      BY DEF Burst
    <3> QED
      BY <3>1, <3>2
  <2>2. seq' \in 0 .. SeqMod - 1
    BY <1>5, BenchmarkAssumption DEF Setup
  <2> QED
    BY <1>5, <2>1, <2>2 DEF Setup, Goto, Core0Typed, Modes
<1>6. CASE Begin
  BY <1>6 DEF Begin, Goto, Core0Typed, Modes
<1>7. CASE EncodeFrame
  <2>1. made < MaxFrames /\ made' = made + 1
    BY <1>7 DEF EncodeFrame, At, CourseInv
  <2>2. made' \in 0 .. MaxFrames /\ seqOf' \in [Ids -> 0 .. SeqMod - 1]
    <3>1. made' \in 0 .. MaxFrames
      BY <2>1, TxSizesAssumption DEF Core0Typed
    <3>2. seqOf' = [seqOf EXCEPT ![made + 1] = seq]
      BY <1>7 DEF EncodeFrame
    <3> QED
      BY <3>1, <3>2 DEF Core0Typed
  <2> QED
    BY <1>7, <2>2 DEF EncodeFrame, Goto, Core0Typed, Modes
<1>8. CASE Clear \/ Trigger \/ SendUart \/ Wait \/ Answer
  <2>1. /\ UNCHANGED <<job, mode, made, seqOf, wasEnabled, keys>>
        /\ pc0' \in {pc0, "trigger", "loop", "wait", "receive", "restart", "clear"}
        /\ seq' = seq \/ Advance
        /\ answer' \in Ids \cup {0, answer}
        /\ next' = next \/ next' = Other(next)
    BY <1>8 DEF Clear, Trigger, SendUart, Wait, Answer, Receive, Deadline, Finish, Goto,
       Accepts
  <2>2. pipeline' \in BOOLEAN
    BY <1>8 DEF Clear, Trigger, SendUart, Wait, Answer, Receive, Deadline, Core0Typed
  <2>3. seq' \in 0 .. SeqMod - 1
    <3>1. seq \in Nat /\ seq + 1 \in Nat
      BY BenchmarkAssumption DEF Core0Typed
    <3> QED
      BY <2>1, <3>1, NextSeq DEF Advance, Core0Typed
  <2>4. next' \in {"even", "odd"}
    BY <2>1 DEF Other, Core0Typed
  <2> QED
    BY <2>1, <2>2, <2>3, <2>4 DEF Core0Typed, Modes
<1> QED
  BY <1>1, <1>2, <1>3, <1>4, <1>5, <1>6, <1>7, <1>8 DEF Next, Reconfigure, Send

\* Every step of the benchmark keeps the transmitter typed.
LEMMA TxKept ==
  ASSUME TxTypeOK, Core0Typed, CourseInv, EncodedInv, Next
  PROVE  TxTypeOK'
<1> USE DEF TxTypeOK
<1>1. ASSUME UNCHANGED bmcTxVars PROVE TxTypeOK'
  BY <1>1 DEF bmcTxVars
<1>2. CASE Core1
  <2>1. CASE PollOf1
    BY <2>1, TypedPoll DEF PollOf1
  <2> QED
    BY <1>1, <1>2, <2>1 DEF Core1, Park, Check, Mark
<1>3. CASE Command
  BY <1>1, <1>3, TypedControl DEF Command, KeyApply, KeySingle, KeyPad
<1>4. CASE Reconfigure
  BY <1>1, <1>4, TypedControl DEF Reconfigure, Stop, Await, Teardown, Setup, Restart
<1>5. CASE Begin
  BY <1>1, <1>5 DEF Begin
<1>6. CASE EncodeFrame \/ Trigger \/ SendUart
  <2>1. Frame \in Buffers
    BY FrameIsBuffer DEF Core0Typed
  <2>2. made \in Nat
    BY TxSizesAssumption DEF Core0Typed
  <2>3. CASE EncodeFrame
    BY <2>1, <2>2, <2>3, TypedBuffer DEF EncodeFrame, At, CourseInv
  <2>4. CASE Trigger
    BY <2>1, <2>4, TypedBuffer DEF Trigger
  <2>5. CASE SendUart
    BY <2>1, <2>5, TypedBuffer DEF SendUart, At, EncodedInv
  <2> QED
    BY <1>6, <2>3, <2>4, <2>5
<1>7. CASE Clear \/ Wait
  BY <1>7, TypedControl DEF Clear, Wait
<1>8. CASE Answer
  BY <1>1, <1>8, TypedPoll DEF Answer, Receive, Deadline
<1>9. CASE HardwareStep
  BY <1>9, TypedFetch, TypedShift DEF HardwareStep, Hardware
<1> QED
  BY <1>2, <1>3, <1>4, <1>5, <1>6, <1>7, <1>8, <1>9 DEF Next, Send

-----------------------------------------------------------------------------
(* The course of core 0.                                                   *)

LEMMA CourseSame ==
  ASSUME CourseInv, UNCHANGED <<job, mode, made, next, pipeline, pending>>,
         pc0' = pc0 \/ (pc0' \in {"loop", "receive", "restart"} /\ pc0 \notin {"wait", "setup"})
  PROVE  CourseInv'
BY DEF CourseInv, Uart

LEMMA CourseKept ==
  ASSUME TxTypeOK, Core0Typed, CourseInv, Next
  PROVE  CourseInv'
<1>1. CASE Core1 \/ HardwareStep
  BY <1>1, CourseSame DEF Core1, Park, Check, Mark, PollOf1, HardwareStep, Hardware,
     Fetch, Shift, core0Vars, bmcTxVars
<1>2. CASE Command \/ Begin
  <2>1. /\ UNCHANGED <<mode, made, next, pipeline, pending>> /\ pc0 = "loop"
        /\ \/ pc0' = "stop" /\ job' = "apply"
           \/ pc0' = "stop" /\ job' = "single" /\ made < MaxFrames
           \/ pc0' = "loop"
           \/ pc0' = "encode" /\ made < MaxFrames
    BY <1>2 DEF Command, KeyApply, KeySingle, KeyPad, TypeKey, Begin, At, Goto, Fresh,
       SetPadVariant, bmcTxVars
  <2> QED
    BY <2>1 DEF CourseInv, Uart
<1>3. CASE Stop \/ Await \/ Teardown \/ Restart
  <2>1. /\ UNCHANGED <<job, made, next, pipeline, pending>>
        /\ mode' = mode \/ pc0' = "setup"
        /\ pc0 \notin {"wait", "setup"}
        /\ \/ pc0 = "stop" /\ pc0' = "await"
           \/ pc0 = "await" /\ pc0' = "teardown"
           \/ pc0 = "await" /\ job # "apply" /\ pc0' = "encode"
           \/ pc0' \in {"setup", "loop"}
    BY <1>3 DEF Stop, Await, Teardown, Restart, At, Goto, bmcTxVars, StopHardware
  <2> QED
    BY <2>1 DEF CourseInv, Uart
<1>4. CASE Setup
  <2>1. /\ UNCHANGED <<job, made, mode>> /\ pc0 = "setup" /\ pc0' = "restart"
        /\ next' = "even" /\ pipeline' = FALSE
        /\ \/ Uart /\ pending' = pending
           \/ ~ Uart /\ pending' = "none"
    BY <1>4 DEF Setup, SetupUart, SetupHardware, At, Goto
  <2> QED
    BY <2>1 DEF CourseInv, Uart
<1>5. CASE EncodeFrame
  <2>1. /\ UNCHANGED <<job, mode, next, pipeline, pending>> /\ pc0 = "encode"
        /\ pc0' = "clear" \/ (pc0' = "wait" /\ pipeline)
    BY <1>5 DEF EncodeFrame, Encode, At, Goto
  <2> QED
    BY <2>1 DEF CourseInv, Uart
<1>6. CASE Clear
  <2>1. /\ UNCHANGED <<job, mode, made, next, pipeline, pending>>
        /\ pc0 = "clear" /\ pc0' = "trigger" /\ ~ Uart
    BY <1>6 DEF Clear, StartClear, At, Goto
  <2> QED
    BY <2>1 DEF CourseInv, Uart
<1>7. CASE Trigger
  <2>1. UNCHANGED <<mode, made>> /\ pc0 = "trigger" /\ ~ Uart /\ pending' = Frame
    BY <1>7 DEF Trigger, StartTrigger, At, CourseInv
  <2>2. CASE job = "burst"
    <3>1. pc0' = "loop" /\ next' = Other(next) /\ pending' = next
      BY <1>7, <2>1, <2>2 DEF Trigger, Goto, Frame
    <3>2. pending' # "single" /\ pending' # next'
      BY <3>1 DEF Other, Core0Typed
    <3> QED
      BY <2>1, <3>1, <3>2 DEF CourseInv, Uart
  <2>3. CASE job # "burst"
    <3>1. pc0' = "wait" /\ next' = next /\ pending' = "single"
      BY <1>7, <2>1, <2>3 DEF Trigger, Goto, Frame
    <3>2. pending' # next'
      BY <3>1 DEF Core0Typed
    <3> QED
      BY <2>1, <3>1, <3>2 DEF CourseInv, Uart
  <2> QED
    BY <2>2, <2>3
<1>8. CASE SendUart \/ Answer
  <2>1. /\ UNCHANGED <<job, mode, made, next, pipeline, pending>>
        /\ pc0 \in {"clear", "receive"} /\ pc0' \in {pc0, "loop", "receive", "restart"}
    BY <1>8 DEF SendUart, UartSend, Answer, Receive, Deadline, Finish, At, Goto, bmcTxVars
  <2> QED
    BY <2>1, CourseSame
<1>9. CASE Wait
  <2>1. /\ UNCHANGED <<job, mode, made, next, pipeline>>
        /\ pc0 = "wait" /\ pc0' \in {"clear", "receive", "loop", "restart"}
        /\ pending' = "none"
    BY <1>9 DEF Wait, WaitNothing, WaitDone, WaitTimeout, Finish, At, Goto, bmcTxVars
  <2>2. next # "none"
    BY DEF Core0Typed
  <2> QED
    BY <2>1, <2>2 DEF CourseInv, Uart
<1> QED
  BY <1>1, <1>2, <1>3, <1>4, <1>5, <1>6, <1>7, <1>8, <1>9 DEF Next, Reconfigure, Send

-----------------------------------------------------------------------------
(* What is sent has been encoded.                                          *)

\* The buffers are left alone, and nothing new is started.
LEMMA EncodedSame ==
  ASSUME EncodedInv, bufs' = bufs, dma' = dma \/ dma'.left = 0 \/ (dma.left > 0 /\ dma'.buf = dma.buf),
         pending' \in {pending, "none"},
         pc0' \in {"clear", "trigger", "wait", "receive"} =>
           /\ pc0 \in {"clear", "trigger", "wait", "receive"}
           /\ UNCHANGED <<job, mode, next>>
  PROVE  EncodedInv'
<1>1. pc0' \in {"clear", "trigger", "wait", "receive"} => Frame' = Frame
  BY DEF Frame, Uart
<1> QED
  BY <1>1 DEF EncodedInv

LEMMA EncodedKept ==
  ASSUME TxTypeOK, Core0Typed, CourseInv, EncodedInv, Next
  PROVE  EncodedInv'
<1>1. CASE Core1 \/ HardwareStep
  <2>1. /\ UNCHANGED <<bufs, pending, pc0, job, mode, next>>
        /\ dma' = dma \/ (dma.left > 0 /\ dma' = [dma EXCEPT !.left = @ - 1])
    BY <1>1 DEF Core1, Park, Check, Mark, PollOf1, HardwareStep, Hardware, Fetch, Shift,
       core0Vars, bmcTxVars
  <2>2. dma' = dma \/ (dma.left > 0 /\ dma'.buf = dma.buf)
    BY <2>1 DEF TxTypeOK
  <2> QED
    BY <2>1, <2>2, EncodedSame
<1>2. CASE \/ Command \/ Begin \/ Stop \/ Await \/ Teardown \/ Setup \/ Restart
  <2>1. /\ UNCHANGED <<bufs>> /\ pending' \in {pending, "none"}
        /\ dma' = dma \/ dma' = [dma EXCEPT !.left = 0]
        /\ pc0' \notin {"clear", "trigger", "wait", "receive"}
    BY <1>2 DEF Command, KeyApply, KeySingle, KeyPad, TypeKey, Begin, Goto, SetPadVariant,
       Silence, Stop, Await, Teardown, Restart, Setup, StopHardware, SetupUart,
       SetupHardware, wireVars, bmcTxVars
  <2>2. dma' = dma \/ dma'.left = 0
    BY <2>1 DEF TxTypeOK
  <2> QED
    BY <2>1, <2>2, EncodedSame
<1>3. CASE EncodeFrame
  <2>1. /\ bufs' = [bufs EXCEPT ![Frame] = made + 1]
        /\ UNCHANGED <<dma, pending, job, mode, next>>
    BY <1>3 DEF EncodeFrame, Encode
  <2>2. Frame' = Frame /\ Frame \in Buffers
    <3>1. Frame' = Frame
      BY <2>1 DEF Frame, Uart
    <3> QED
      BY <3>1, FrameIsBuffer DEF Core0Typed
  <2>3. made + 1 # Broken
    BY TxSizesAssumption DEF Core0Typed, Broken
  <2>4. \A b \in Buffers : bufs'[b] = IF b = Frame THEN made + 1 ELSE bufs[b]
    BY <2>1 DEF TxTypeOK
  <2>5. dma.buf \in Buffers /\ pending \in Buffers \cup {"none"}
    BY DEF TxTypeOK
  <2> QED
    BY <2>1, <2>2, <2>3, <2>4, <2>5 DEF EncodedInv
<1>4. CASE Clear \/ Wait \/ SendUart \/ Answer
  <2>1. /\ UNCHANGED <<bufs, job, mode, next>> /\ pending' \in {pending, "none"}
        /\ dma' = dma \/ dma' = [dma EXCEPT !.left = 0]
        /\ pc0 \in {"clear", "wait", "receive"}
    BY <1>4 DEF Clear, StartClear, Wait, WaitNothing, WaitDone, WaitTimeout, Silence,
       SendUart, UartSend, Answer, Receive, Deadline, At, wireVars, bmcTxVars
  <2>2. dma' = dma \/ dma'.left = 0
    BY <2>1 DEF TxTypeOK
  <2> QED
    BY <2>1, <2>2, EncodedSame
<1>5. CASE Trigger
  <2>1. /\ UNCHANGED <<bufs, job, mode>> /\ pending' = Frame /\ dma'.buf = Frame
        /\ bufs[Frame] # Broken
    BY <1>5 DEF Trigger, StartTrigger, Transfer, At, EncodedInv
  <2>2. CASE job = "burst"
    <3>1. pc0' = "loop"
      BY <1>5, <2>2 DEF Trigger, Goto
    <3> QED
      BY <2>1, <3>1 DEF EncodedInv
  <2>3. CASE job # "burst"
    <3>1. Frame' = Frame
      BY <2>1, <2>3 DEF Frame
    <3> QED
      BY <2>1, <3>1 DEF EncodedInv
  <2> QED
    BY <2>2, <2>3
<1> QED
  BY <1>1, <1>2, <1>3, <1>4, <1>5 DEF Next, Reconfigure, Send

-----------------------------------------------------------------------------
(* What is in the air.                                                     *)

airVars == <<bufs, dma, fifo, sm, irq, pending, confirmed, overlapped, aired, mode>>

LEMMA AirSame ==
  ASSUME AirInv, UNCHANGED airVars,
         pc0' = pc0 \/ (pc0 # "setup" /\ pc0' \notin {"setup", "trigger"})
  PROVE  AirInv'
BY DEF AirInv, airVars, Still, InFlight, Uart

\* What was moving stops.
LEMMA AirStops ==
  ASSUME AirInv, Still', UNCHANGED <<bufs, irq, confirmed, overlapped, aired>>,
         \/ pc0' = "setup"
         \/ /\ pending' \in {pending, "none"} /\ mode' = mode
            /\ pc0 # "setup" /\ pc0' # "trigger"
  PROVE  AirInv'
BY DEF AirInv, Uart

\* A word that moves on is counted once.
LEMMA Words ==
  \A d, f, s \in Nat :
    /\ d > 0 => (d - 1) + (f + 1) + s = d + f + s
    /\ f > 0 => d + (f - 1) + (s + 1) = d + f + s
OBVIOUS

\* The channel reads a word of the pending frame.
LEMMA AirFetch ==
  ASSUME TxTypeOK, EncodedInv, AirInv, Fetch, UNCHANGED <<pc0, mode>>
  PROVE  AirInv'
<1>1. /\ dma.left > 0 /\ dma.left \in Nat /\ dma.buf \in Buffers
      /\ fifo \in Seq(Ids) /\ sm \in Seq(Ids) /\ bufs[dma.buf] \in Ids
  BY DEF Fetch, TxTypeOK, EncodedInv
<1>2. /\ fifo' = Append(fifo, bufs[dma.buf]) /\ dma' = [dma EXCEPT !.left = @ - 1]
      /\ UNCHANGED <<bufs, sm, irq, pending, confirmed, overlapped, aired>>
  BY DEF Fetch
<1>3. ~ Still
  BY <1>1 DEF Still
<1>4. ~ Uart /\ pc0 # "setup" /\ ~ Uart'
  BY <1>3 DEF AirInv, Uart
<1>5. CASE overlapped
  BY <1>2, <1>4, <1>5 DEF AirInv
<1>6. CASE ~ overlapped
  <2>1. InFlight
    BY <1>3, <1>4, <1>6 DEF AirInv
  <2>2. dma'.left = dma.left - 1 /\ dma'.buf = dma.buf /\ dma.buf = pending
    BY <1>1, <1>2, <2>1 DEF TxTypeOK, InFlight
  <2>3. /\ Len(fifo') = Len(fifo) + 1 /\ Len(fifo) \in Nat /\ Len(sm) \in Nat
        /\ \A i \in 1 .. Len(fifo') :
             (i \in 1 .. Len(fifo) /\ fifo'[i] = fifo[i]) \/ fifo'[i] = bufs[pending]
    BY <1>1, <1>2, <2>2
  <2>4. dma'.left + Len(fifo') + Len(sm') = FrameWords
    <3>1. dma.left + Len(fifo) + Len(sm) = FrameWords /\ sm' = sm
      BY <1>2, <2>1 DEF InFlight
    <3>2. (dma.left - 1) + (Len(fifo) + 1) + Len(sm) = dma.left + Len(fifo) + Len(sm)
      BY <1>1, <2>3, Words
    <3> QED
      BY <2>2, <2>3, <3>1, <3>2, Zenon
  <2>5. InFlight'
    BY <1>2, <2>1, <2>2, <2>3, <2>4 DEF InFlight
  <2> QED
    BY <1>2, <1>4, <2>1, <2>5 DEF AirInv, InFlight
<1> QED
  BY <1>5, <1>6

\* The state machine takes a word of the pending frame.  With the last one
\* nothing is left of it, and the interrupt is its own.
LEMMA AirShift ==
  ASSUME TxTypeOK, AirInv, Shift, UNCHANGED <<pc0, mode>>
  PROVE  AirInv'
<1> DEFINE words == Append(sm, Head(fifo))
<1>1. /\ fifo \in Seq(Ids) /\ fifo # <<>> /\ sm \in Seq(Ids) /\ dma.left \in Nat
      /\ fifo' = Tail(fifo) /\ UNCHANGED <<bufs, dma, pending, confirmed, overlapped>>
  BY DEF Shift, TxTypeOK
<1>2. /\ Len(fifo) \in Nat /\ Len(fifo) >= 1 /\ Len(sm) \in Nat
      /\ Len(fifo') = Len(fifo) - 1 /\ Head(fifo) = fifo[1]
      /\ \A i \in 1 .. Len(fifo') : i + 1 \in 1 .. Len(fifo) /\ fifo'[i] = fifo[i + 1]
  BY <1>1
<1>3. /\ Len(words) = Len(sm) + 1
      /\ \A i \in 1 .. Len(words) :
           (i \in 1 .. Len(sm) /\ words[i] = sm[i]) \/ words[i] = fifo[1]
  BY <1>1, <1>2
<1>4. \/ /\ Len(words) < FrameWords /\ sm' = words /\ UNCHANGED <<irq, aired>>
      \/ /\ Len(words) = FrameWords /\ sm' = <<>> /\ irq' = TRUE
         /\ aired' = IF OfOneFrame(words) THEN aired \cup {words[1]} ELSE aired
  BY DEF Shift
<1>5. ~ Still
  BY <1>1 DEF Still
<1>6. ~ Uart /\ pc0 # "setup" /\ ~ Uart'
  BY <1>5 DEF AirInv, Uart
<1>7. aired \subseteq aired'
  BY <1>4
<1>11. DOMAIN words = 1 .. Len(words)
  BY <1>1, <1>2
<1> HIDE DEF words
<1>8. CASE overlapped
  BY <1>1, <1>6, <1>7, <1>8 DEF AirInv
<1>9. CASE ~ overlapped
  <2>1. InFlight
    BY <1>5, <1>6, <1>9 DEF AirInv
  <2>2. /\ pending # "none" /\ ~ irq /\ dma.left + Len(fifo) + Len(sm) = FrameWords
        /\ \A i \in 1 .. Len(words) : words[i] = bufs[pending]
        /\ \A i \in 1 .. Len(fifo') : fifo'[i] = bufs[pending]
    <3>1. fifo[1] = bufs[pending]
      BY <1>2, <2>1 DEF InFlight
    <3> QED
      BY <1>2, <1>3, <2>1, <3>1 DEF InFlight
  <2>3. confirmed' \subseteq aired'
    BY <1>1, <1>7, <1>9 DEF AirInv
  <2>4. CASE Len(words) < FrameWords /\ sm' = words /\ UNCHANGED <<irq, aired>>
    <3>1. dma'.left + Len(fifo') + Len(sm') = FrameWords
      <4>1. Len(fifo') = Len(fifo) - 1 /\ Len(sm') = Len(sm) + 1 /\ dma' = dma
        BY <1>1, <1>2, <1>3, <2>4
      <4>2. Len(fifo) > 0
        BY <1>2
      <4>3. dma.left + (Len(fifo) - 1) + (Len(sm) + 1) = dma.left + Len(fifo) + Len(sm)
        BY <1>1, <1>2, <4>2, Words
      <4> QED
        BY <2>2, <4>1, <4>3, Zenon
    <3>2. InFlight'
      BY <1>1, <2>1, <2>2, <2>4, <3>1 DEF InFlight
    <3> QED
      BY <1>1, <1>6, <2>2, <2>3, <2>4, <3>2 DEF AirInv
  <2>5. CASE /\ Len(words) = FrameWords /\ sm' = <<>> /\ irq' = TRUE
             /\ aired' = IF OfOneFrame(words) THEN aired \cup {words[1]} ELSE aired
    <3>1. dma.left = 0 /\ Len(fifo) = 1
      BY <1>1, <1>2, <1>3, <2>2, <2>5
    <3>2. Still'
      BY <1>1, <1>2, <2>5, <3>1 DEF Still
    <3>3. OfOneFrame(words) /\ words[1] = bufs[pending]
      BY <1>2, <1>3, <1>11, <2>2 DEF OfOneFrame
    <3>4. bufs'[pending'] \in aired'
      BY <1>1, <2>5, <3>3
    <3>5. pc0 # "trigger"
      BY <1>6, <1>9, <2>2 DEF AirInv
    <3> QED
      BY <1>6, <2>3, <3>2, <3>4, <3>5 DEF AirInv
  <2> QED
    BY <1>4, <2>4, <2>5
<1> QED
  BY <1>8, <1>9

LEMMA StillAfterSilence ==
  ASSUME TxTypeOK, NEW kept, Silence(kept)
  PROVE  Still'
BY DEF Silence, Still, TxTypeOK

\* A frame is started: over a pending one, which is noted, or with nothing in
\* the air.
LEMMA AirStarts ==
  ASSUME TxTypeOK, Core0Typed, CourseInv, AirInv, Clear \/ Trigger
  PROVE  AirInv'
<1>1. ~ Uart /\ ~ Uart'
  BY DEF Clear, Trigger, CourseInv, At, Uart
<1>2. CASE Clear
  <2>1. /\ UNCHANGED <<bufs, dma, fifo, sm, pending, confirmed, aired>>
        /\ irq' = FALSE /\ pc0 = "clear" /\ pc0' = "trigger"
        /\ overlapped' = (overlapped \/ pending # "none")
    BY <1>2 DEF Clear, StartClear, At, Goto, wireVars
  <2>2. CASE overlapped \/ pending # "none"
    BY <1>1, <2>1, <2>2 DEF AirInv
  <2>3. CASE ~ overlapped /\ pending = "none"
    <3>1. Still
      BY <1>1, <2>1, <2>3 DEF AirInv, InFlight
    <3> QED
      BY <1>1, <2>1, <2>3, <3>1 DEF AirInv, Still
  <2> QED
    BY <2>2, <2>3
<1>3. CASE Trigger
  <2>1. /\ UNCHANGED <<bufs, fifo, sm, irq, confirmed, overlapped, aired>>
        /\ pending' = Frame /\ Transfer(Frame)
        /\ pc0 = "trigger" /\ pc0' \in {"loop", "wait"}
    BY <1>3 DEF Trigger, StartTrigger, At, Goto
  <2>2. CASE overlapped
    BY <1>1, <2>1, <2>2 DEF AirInv
  <2>3. CASE ~ overlapped
    <3>1. Still /\ ~ irq
      BY <1>1, <2>1, <2>3 DEF AirInv, InFlight
    <3>2. dma' = [buf |-> Frame, left |-> FrameWords] /\ fifo' = <<>> /\ sm' = <<>>
      BY <2>1, <3>1 DEF Transfer, Still
    <3>3. dma'.left + Len(fifo') + Len(sm') = FrameWords /\ dma'.buf = pending'
      BY <2>1, <3>2, TxSizesAssumption
    <3>4. pending' # "none"
      BY <2>1, FrameIsBuffer DEF Core0Typed, Buffers
    <3>5. 1 .. Len(fifo') = {} /\ 1 .. Len(sm') = {}
      BY <3>2
    <3>6. InFlight'
      BY <2>1, <3>1, <3>3, <3>4, <3>5 DEF InFlight
    <3> QED
      BY <1>1, <2>1, <2>3, <3>1, <3>6 DEF AirInv
  <2> QED
    BY <2>2, <2>3
<1> QED
  BY <1>2, <1>3

\* Core 0 has waited for the pending frame: it is counted if its interrupt came.
LEMMA AirWaited ==
  ASSUME TxTypeOK, CourseInv, AirInv, Wait
  PROVE  AirInv'
<1>1. /\ pc0 = "wait" /\ pc0' \in {"clear", "receive", "loop", "restart"}
      /\ UNCHANGED mode /\ ~ Uart /\ ~ Uart'
  BY DEF Wait, At, Goto, Finish, CourseInv, Uart
<1>2. CASE WaitNothing
  BY <1>1, <1>2, AirSame DEF WaitNothing, bmcTxVars, airVars
<1>3. CASE WaitTimeout
  BY <1>1, <1>3, AirStops, StillAfterSilence DEF WaitTimeout
<1>4. CASE WaitDone
  <2>1. /\ pending # "none" /\ irq /\ pending' = "none"
        /\ confirmed' = confirmed \cup {bufs[pending]}
        /\ UNCHANGED <<dma, fifo, sm, aired, overlapped>>
    BY <1>4 DEF WaitDone, wireVars
  <2>2. CASE overlapped
    BY <1>1, <2>1, <2>2 DEF AirInv
  <2>3. CASE ~ overlapped
    <3>1. Still /\ bufs[pending] \in aired
      BY <1>1, <2>1, <2>3 DEF AirInv, InFlight
    <3> QED
      BY <1>1, <2>1, <2>3, <3>1 DEF AirInv, Still
  <2> QED
    BY <2>2, <2>3
<1> QED
  BY <1>2, <1>3, <1>4 DEF Wait

LEMMA AirKept ==
  ASSUME TxTypeOK, Core0Typed, CourseInv, EncodedInv, AirInv, Next
  PROVE  AirInv'
<1>1. CASE \/ Core1 \/ KeyApply \/ KeySingle \/ Begin \/ Stop \/ Await \/ Restart
           \/ Answer
  <2>1. /\ UNCHANGED airVars
        /\ \/ pc0' = pc0
           \/ /\ pc0 # "setup"
              /\ pc0' \in {"stop", "encode", "await", "teardown", "loop", "restart"}
    BY <1>1 DEF Core1, Park, Check, Mark, PollOf1, KeyApply, KeySingle, TypeKey, Begin,
       Stop, Await, Restart, Answer, Receive, Deadline, Finish, At, Goto, airVars,
       core0Vars, bmcTxVars
  <2> QED
    BY <2>1, AirSame
<1>2. CASE KeyPad
  <2>1. /\ Silence(TRUE) /\ UNCHANGED <<bufs, irq, pending, confirmed, overlapped, aired, mode>>
        /\ pc0 = "loop" /\ pc0' = "loop"
    BY <1>2 DEF KeyPad, TypeKey, SetPadVariant, At, Goto
  <2> QED
    BY <2>1, AirStops, StillAfterSilence
<1>3. CASE Teardown
  BY <1>3, AirStops, StillAfterSilence DEF Teardown, StopHardware, Goto
<1>4. CASE Setup
  <2>1. /\ UNCHANGED <<dma, fifo, sm, mode, aired>> /\ pc0 = "setup" /\ pc0' = "restart"
        /\ confirmed' = {}
        /\ Uart \/ pending' = "none"
    BY <1>4 DEF Setup, SetupUart, SetupHardware, wireVars, At, Goto
  <2>2. Still /\ Still'
    BY <2>1 DEF AirInv, Still
  <2> QED
    BY <2>1, <2>2 DEF AirInv, Uart
<1>5. CASE EncodeFrame
  <2>1. /\ bufs' = [bufs EXCEPT ![Frame] = made + 1] /\ pc0 = "encode"
        /\ UNCHANGED <<dma, fifo, sm, irq, pending, confirmed, overlapped, aired, mode>>
        /\ pc0' \in {"wait", "clear"}
    BY <1>5 DEF EncodeFrame, Encode, At, Goto
  <2>2. Uart \/ Frame # pending
    BY <2>1 DEF Frame, CourseInv
  <2>3. ~ Uart /\ pending # "none" => bufs'[pending] = bufs[pending]
    <3>1. pending \in Buffers \cup {"none"} /\ bufs \in [Buffers -> Ids \cup {Broken}]
      BY DEF TxTypeOK
    <3> QED
      BY <2>1, <2>2, <3>1
  <2>4. ~ Uart /\ InFlight => InFlight'
    BY <2>1, <2>3 DEF InFlight
  <2>5. Still' = Still
    BY <2>1 DEF Still
  <2>6. (Uart' => Uart) /\ (Uart => Uart')
    BY <2>1 DEF Uart
  <2>7. overlapped' \/ confirmed' \subseteq aired'
    BY <2>1 DEF AirInv
  <2>8. Uart' => Still'
    BY <2>5, <2>6 DEF AirInv
  <2>9. ASSUME ~ overlapped', ~ Uart'
        PROVE  /\ Still' \/ InFlight'
               /\ pending' # "none" /\ irq' => bufs'[pending'] \in aired'
    BY <2>1, <2>3, <2>4, <2>5, <2>6, <2>9 DEF AirInv
  <2> QED
    BY <2>1, <2>7, <2>8, <2>9 DEF AirInv
<1>6. CASE SendUart
  <2>1. /\ Uart /\ mode' = mode /\ UNCHANGED <<dma, fifo, sm, overlapped>>
        /\ \E id : confirmed' = confirmed \cup {id} /\ aired' = aired \cup {id}
    BY <1>6 DEF SendUart, UartSend
  <2>2. overlapped' \/ confirmed' \subseteq aired'
    BY <2>1 DEF AirInv
  <2>3. Uart' /\ Still'
    BY <2>1 DEF AirInv, Uart, Still
  <2> QED
    BY <2>2, <2>3 DEF AirInv
<1>7. CASE HardwareStep
  BY <1>7, AirFetch, AirShift DEF HardwareStep, Hardware, core0Vars
<1> QED
  BY <1>1, <1>2, <1>3, <1>4, <1>5, <1>6, <1>7, AirStarts, AirWaited
     DEF Next, Command, Reconfigure, Send

-----------------------------------------------------------------------------
(* The theorems.                                                           *)

BenchInv ==
  /\ TxTypeOK /\ Core0Typed /\ FlagsTyped
  /\ Handshake /\ CourseInv /\ EncodedInv /\ AirInv

LEMMA BenchInit == Init => BenchInv
<1> SUFFICES ASSUME Init PROVE BenchInv
  OBVIOUS
<1>1. TxTypeOK
  <2>1. /\ dma \in [buf : Buffers, left : 0 .. FrameWords]
        /\ bufs \in [Buffers -> Ids \cup {Broken}] /\ losses \in 0 .. Losses
    BY TxSizesAssumption DEF Init, TxZero, Buffers
  <2>2. /\ fifo \in Seq(Ids) /\ Len(fifo) <= FifoDepth
        /\ sm \in Seq(Ids) /\ Len(sm) < FrameWords
        /\ rx \in Seq(Ids \cup {Broken})
    BY TxSizesAssumption DEF Init, TxZero
  <2>3. irq \in BOOLEAN /\ resident \in BOOLEAN /\ overlapped \in BOOLEAN
    BY DEF Init, TxZero
  <2> QED
    BY <2>1, <2>2, <2>3 DEF Init, TxZero, TxTypeOK
<1>2. Core0Typed
  <2>1. seq \in 0 .. SeqMod - 1 /\ seqOf \in [Ids -> 0 .. SeqMod - 1]
    BY BenchmarkAssumption DEF Init
  <2>2. made \in 0 .. MaxFrames /\ keys \in 0 .. MaxKeys
    BY TxSizesAssumption, BenchmarkAssumption DEF Init
  <2> QED
    BY <2>1, <2>2 DEF Init, Core0Typed, Modes
<1>3. FlagsTyped
  BY DEF Init, FlagsTyped
<1>4. CourseInv /\ EncodedInv /\ AirInv
  BY DEF Init, TxZero, CourseInv, EncodedInv, AirInv, Still, Uart
<1> QED
  BY <1>1, <1>2, <1>3, <1>4, HandshakeInit DEF BenchInv

LEMMA BenchKept ==
  ASSUME BenchInv, [Next]_vars
  PROVE  BenchInv'
<1>1. CASE Next
  <2>1. Handshake' /\ FlagsTyped'
    BY <1>1, HandshakeKept, FlagsKept DEF BenchInv
  <2>2. TxTypeOK' /\ Core0Typed'
    BY <1>1, TxKept, Core0Kept DEF BenchInv, FlagsTyped
  <2>3. CourseInv' /\ EncodedInv' /\ AirInv'
    BY <1>1, CourseKept, EncodedKept, AirKept DEF BenchInv
  <2> QED
    BY <2>1, <2>2, <2>3 DEF BenchInv
<1>2. CASE UNCHANGED vars
  <2>1. UNCHANGED <<bmcTxVars, core0Vars, flagVars, pc1, stray>>
    BY <1>2 DEF vars
  <2>2. Handshake' /\ FlagsTyped'
    BY <2>1, HandshakeKept DEF BenchInv, FlagsTyped, flagVars
  <2>3. TxTypeOK'
    BY <2>1 DEF BenchInv, TxTypeOK, bmcTxVars
  <2>4. Core0Typed'
    BY <2>1 DEF BenchInv, Core0Typed, core0Vars, Modes
  <2>5. CourseInv' /\ EncodedInv' /\ AirInv'
    BY <2>1, CourseSame, EncodedSame, AirSame
       DEF BenchInv, bmcTxVars, core0Vars, airVars
  <2> QED
    BY <2>2, <2>3, <2>4, <2>5 DEF BenchInv
<1> QED
  BY <1>1, <1>2

\* The invariant of the benchmark holds in every state.
THEOREM BenchInvariance == Spec => []BenchInv
BY BenchInit, BenchKept, PTL DEF Spec

\* TypeOK, of main_benchmark.c and bmc_driver.c: every variable stays in its
\* range, and a channel, a FIFO or a ring never holds what was not encoded.
THEOREM BenchmarkType == Spec => []TypeOK
<1>1. BenchInv => TypeOK
  BY DEF BenchInv, TypeOK, Core0Typed, FlagsTyped
<1> QED
  BY <1>1, BenchInvariance, PTL

\* WholeUnlessOverlapped: as long as bmc_tx_start_packet_async finds nothing
\* pending, every frame is of one encoding, and the interrupt that
\* bmc_tx_wait_packet_done takes for a frame's end is its own.
THEOREM Whole == Spec => []WholeUnlessOverlapped
<1>1. BenchInv => WholeUnlessOverlapped
  <2> SUFFICES ASSUME BenchInv, ~ overlapped
               PROVE  OfOneFrame(sm) /\ confirmed \subseteq aired
    BY DEF WholeUnlessOverlapped
  <2>1. confirmed \subseteq aired /\ (Still \/ InFlight)
    BY DEF BenchInv, AirInv
  <2>2. DOMAIN sm = 1 .. Len(sm)
    BY DEF BenchInv, TxTypeOK
  <2>3. OfOneFrame(sm)
    BY <2>1, <2>2 DEF OfOneFrame, Still, InFlight
  <2> QED
    BY <2>1, <2>3
<1> QED
  BY <1>1, BenchInvariance, PTL

-----------------------------------------------------------------------------
(* The frames an exchange may find in the receiver's ring.                 *)

\* A mode whose frames are sent one at a time, each followed by a wait for it.
Shots == mode \in {"wait", "uart wait"} /\ pc0 # "setup"

\* The frame made last carries seq; before, and after the advance, seq is ahead.
Numbered == pc0 \in {"clear", "trigger", "wait", "receive"}
Ahead    == IF Numbered THEN 0 ELSE 1

\* It is still to come to the ring.
Due == IF pc0 \in {"clear", "trigger"} \/ (pc0 = "wait" /\ ~ irq) THEN 1 ELSE 0

\* An exchange is what core 0 does in such a mode until the next command, and
\* what it took was its own.
JobInv ==
  /\ pc0 \in {"stop", "await", "teardown", "setup", "restart"} =>
       job \in {"apply", "single"}
  /\ Shots => job # "burst"
  /\ job = "exchange" => Shots /\ (pc0 = "encode" => answer = 0)
  /\ AnswerIsOwn

\* No frame is ever started over another there, and the one that is waited for
\* moves, or its interrupt is there: the wait does not time out.
ShotInv ==
  Shots /\ ~ Uart =>
    /\ ~ overlapped
    /\ pending = IF pc0 = "wait" THEN "single" ELSE "none"
    /\ pc0 = "wait" => InFlight \/ (Still /\ irq)

\* Every frame in the ring is as many numbers behind as it is places before
\* the last, and at the start of an exchange no more than Hold are left.
RingInv ==
  /\ pc0 = "setup" => rx = <<>>
  /\ Shots =>
       /\ \A i \in 1 .. Len(rx) : rx[i] # Broken =>
            /\ rx[i] = made - Due - (Len(rx) - i)
            /\ seqOf[rx[i]] + (made - rx[i]) + Ahead \in {seq, seq + SeqMod}
       /\ Len(rx) + Due <= Hold + 1 - Ahead
       /\ Numbered => seqOf[made] = seq /\ bufs["single"] = made

\* A number that is at most half the range behind is told from the awaited one.
LEMMA Behind ==
  ASSUME NEW a \in 1 .. SeqMod \div 2
  PROVE  /\ (0 - a) % SeqMod >= (SeqMod + 1) \div 2
         /\ (SeqMod - a) % SeqMod >= (SeqMod + 1) \div 2
<1>1. a < SeqMod /\ SeqMod - a >= (SeqMod + 1) \div 2
  BY BenchmarkAssumption
<1>2. (0 - a) % SeqMod = SeqMod - a /\ (SeqMod - a) % SeqMod = SeqMod - a
  BY <1>1, BenchmarkAssumption
<1> QED
  BY <1>1, <1>2

LEMMA Advances ==
  ASSUME Core0Typed, Advance
  PROVE  seq' = IF seq + 1 < SeqMod THEN seq + 1 ELSE 0
BY BenchmarkAssumption DEF Core0Typed, Advance

\* What the ring holds, in numbers.
LEMMA RingTypes ==
  ASSUME BenchInv
  PROVE  /\ made \in Nat /\ seq \in Nat /\ seq < SeqMod /\ SeqMod \in Nat /\ SeqMod >= 1
         /\ rx \in Seq(Ids \cup {Broken}) /\ Len(rx) \in Nat
         /\ \A i \in 1 .. Len(rx) : rx[i] # Broken =>
              /\ rx[i] \in Ids /\ rx[i] \in Nat
              /\ seqOf[rx[i]] \in Nat /\ seqOf[rx[i]] < SeqMod
         /\ Due \in {0, 1} /\ Ahead \in {0, 1} /\ Hold \in Nat
<1>1. made \in Nat /\ seq \in Nat /\ seq < SeqMod /\ SeqMod \in Nat /\ SeqMod >= 1 /\ Hold \in Nat
  BY TxSizesAssumption, BenchmarkAssumption DEF BenchInv, Core0Typed
<1>2. rx \in Seq(Ids \cup {Broken}) /\ Len(rx) \in Nat
  BY DEF BenchInv, TxTypeOK
<1>3. ASSUME NEW i \in 1 .. Len(rx), rx[i] # Broken PROVE rx[i] \in Ids
  BY <1>2, <1>3
<1>4. \A k \in Ids : k \in Nat /\ seqOf[k] \in Nat /\ seqOf[k] < SeqMod
  BY TxSizesAssumption, BenchmarkAssumption DEF BenchInv, Core0Typed, Ids
<1>5. Due \in {0, 1} /\ Ahead \in {0, 1}
  BY DEF Due, Ahead
<1> QED
  BY <1>1, <1>2, <1>3, <1>4, <1>5

\* Frames leave the ring at its head, and when the shot is over the number is
\* advanced.
LEMMA RingMoves ==
  ASSUME BenchInv, RingInv, Hold <= SeqMod \div 2, Shots, pc0' # "setup",
         rx' = rx \/ (rx # <<>> /\ rx' = Tail(rx)),
         UNCHANGED <<made, seqOf>>, Due' = Due, bufs'["single"] = bufs["single"],
         \/ seq' = seq /\ Ahead' = Ahead /\ (Numbered' => Numbered)
         \/ /\ Ahead = 0 /\ Ahead' = 1 /\ ~ Numbered' /\ Due = 0 /\ Advance
            /\ Len(rx') <= Hold
  PROVE  RingInv'
<1> DEFINE t == Len(rx) - Len(rx')
<1>1. /\ t \in {0, 1} /\ Len(rx') \in Nat /\ Len(rx) \in Nat /\ Len(rx) = Len(rx') + t
      /\ \A i \in 1 .. Len(rx') : i + t \in 1 .. Len(rx) /\ rx'[i] = rx[i + t]
  <2>1. rx \in Seq(Ids \cup {Broken})
    BY RingTypes
  <2>2. CASE rx' = rx
    BY <2>1, <2>2
  <2>3. CASE rx # <<>> /\ rx' = Tail(rx)
    <3>1. /\ Len(rx') = Len(rx) - 1 /\ Len(rx') \in Nat /\ Len(rx) \in Nat
          /\ \A i \in 1 .. Len(rx') : i + 1 \in 1 .. Len(rx) /\ rx'[i] = rx[i + 1]
      BY <2>1, <2>3
    <3>2. t = 1
      BY <3>1
    <3> HIDE DEF t
    <3> QED
      BY <3>1, <3>2
  <2> QED
    BY <2>2, <2>3
<1> HIDE DEF t
<1>n. /\ made \in Nat /\ seq \in Nat /\ seq < SeqMod /\ SeqMod \in Nat /\ Hold \in Nat
      /\ Due \in {0, 1} /\ Ahead \in {0, 1}
  BY RingTypes
<1>2. ASSUME NEW i \in 1 .. Len(rx'), rx'[i] # Broken
      PROVE  /\ rx'[i] = made - Due - (Len(rx') - i)
             /\ seqOf[rx'[i]] + (made - rx'[i]) + Ahead' \in {seq', seq' + SeqMod}
  <2> DEFINE k == rx'[i]
             d == seqOf[rx'[i]]
  <2>i. i \in Nat /\ i >= 1 /\ i <= Len(rx')
    BY <1>1
  <2>0. i + t \in 1 .. Len(rx) /\ k = rx[i + t] /\ k # Broken
    BY <1>1, <1>2
  <2>1. /\ k = made - Due - (Len(rx) - (i + t))
        /\ d + (made - k) + Ahead \in {seq, seq + SeqMod}
    BY <2>0 DEF RingInv
  <2>2. k \in Nat /\ d \in Nat /\ d < SeqMod
    BY <2>0, RingTypes
  <2> HIDE DEF k, d
  <2>3. k = made - Due - (Len(rx') - i)
    BY <1>1, <1>n, <2>i, <2>1, <2>2
  <2>4. CASE seq' = seq /\ Ahead' = Ahead
    BY <2>1, <2>3, <2>4 DEF k, d
  <2>5. CASE Ahead = 0 /\ Ahead' = 1 /\ Due = 0 /\ Advance /\ Len(rx') <= Hold
    <3>1. seq' = IF seq + 1 < SeqMod THEN seq + 1 ELSE 0
      BY <2>5, Advances DEF BenchInv
    <3>3. made - k \in Nat /\ made - k < Hold
      BY <1>1, <1>n, <2>i, <2>2, <2>3, <2>5
    <3>4. made - k + 1 < SeqMod
      BY <1>n, <2>2, <3>3
    <3>5. d + (made - k) \in {seq, seq + SeqMod}
      BY <1>n, <2>1, <2>2, <2>5
    <3>6. d + (made - k) + 1 \in {seq', seq' + SeqMod}
      BY <1>n, <2>2, <3>1, <3>3, <3>4, <3>5
    <3> QED
      BY <2>3, <2>5, <3>6 DEF k, d
  <2> QED
    BY <2>4, <2>5
<1>3. Shots /\ Len(rx) + Due <= Hold + 1 - Ahead
  BY DEF RingInv
<1>4. Len(rx') + Due <= Hold + 1 - Ahead'
  BY <1>1, <1>3, RingTypes
<1>5. Numbered' => seqOf[made] = seq' /\ bufs'["single"] = made
  BY DEF RingInv
<1> QED
  BY <1>2, <1>4, <1>5 DEF RingInv
\* The next frame is encoded: all others are one more behind.
LEMMA RingEncodes ==
  ASSUME BenchInv, JobInv, RingInv, Shots, EncodeFrame
  PROVE  RingInv'
<1>1. /\ pc0 = "encode" /\ pc0' = "clear" /\ made' = made + 1 /\ made < MaxFrames
      /\ seqOf' = [seqOf EXCEPT ![made + 1] = seq] /\ seq' = seq /\ rx' = rx
  BY DEF EncodeFrame, At, Goto, Encode, JobInv, BenchInv, CourseInv
<1>2. bufs'["single"] = made + 1
  BY DEF EncodeFrame, Encode, Frame, JobInv, Buffers, BenchInv, TxTypeOK
<1>3. Due = 0 /\ Ahead = 1 /\ Due' = 1 /\ Ahead' = 0 /\ Numbered'
  BY <1>1 DEF Due, Ahead, Numbered
<1>4. seqOf \in [Ids -> 0 .. SeqMod - 1] /\ made + 1 \in Ids
  BY <1>1, RingTypes, TxSizesAssumption DEF BenchInv, Core0Typed, Ids
<1>5. seqOf'[made + 1] = seq
  BY <1>1, <1>4
<1>n. made \in Nat /\ seq \in Nat /\ SeqMod \in Nat /\ Hold \in Nat /\ Len(rx) \in Nat
  BY RingTypes
<1>6. ASSUME NEW i \in 1 .. Len(rx), rx[i] # Broken
      PROVE  /\ rx[i] = made' - Due' - (Len(rx) - i)
             /\ seqOf'[rx[i]] + (made' - rx[i]) + Ahead' \in {seq', seq' + SeqMod}
  <2> DEFINE k == rx[i]
             d == seqOf[rx[i]]
  <2>1. k = made - 0 - (Len(rx) - i) /\ d + (made - k) + 1 \in {seq, seq + SeqMod}
    BY <1>3, <1>6 DEF RingInv
  <2>2. k \in Ids /\ k \in Nat /\ d \in Nat /\ i \in Nat /\ i <= Len(rx)
    BY <1>6, <1>n, RingTypes
  <2> HIDE DEF k, d
  <2>3. k <= made
    BY <1>n, <2>1, <2>2
  <2>4. seqOf'[k] = d
    BY <1>1, <1>4, <1>n, <2>2, <2>3 DEF k, d
  <2>5. k = (made + 1) - 1 - (Len(rx) - i) /\ d + ((made + 1) - k) + 0 \in {seq, seq + SeqMod}
    BY <1>n, <2>1, <2>2
  <2> QED
    BY <1>1, <1>3, <2>4, <2>5 DEF k
<1>7. Len(rx) + 0 <= Hold + 1 - 1
  BY <1>3 DEF RingInv
<1>8. Len(rx) + 1 <= Hold + 1 - 0
  BY <1>n, <1>7
<1> QED
  BY <1>1, <1>2, <1>3, <1>5, <1>6, <1>8 DEF RingInv

\* The frame that was due is in the ring, last, whole or damaged.
LEMMA RingGrows ==
  ASSUME BenchInv, RingInv, Shots, pc0' # "setup", NEW m \in {made, Broken},
         rx' = Append(rx, m), UNCHANGED <<made, seqOf, seq>>,
         bufs'["single"] = bufs["single"],
         Due = 1, Due' = 0, Ahead = 0, Ahead' = 0, Numbered
  PROVE  RingInv'
<1>n. made \in Nat /\ seq \in Nat /\ SeqMod \in Nat /\ Hold \in Nat /\ Len(rx) \in Nat
  BY RingTypes
<1>1. rx \in Seq(Ids \cup {Broken}) /\ m \in Nat
  BY RingTypes DEF Broken
<1>2. /\ Len(rx') = Len(rx) + 1 /\ rx'[Len(rx) + 1] = m
      /\ \A i \in 1 .. Len(rx) : rx'[i] = rx[i]
  BY <1>1
<1>3. ASSUME NEW i \in 1 .. Len(rx'), rx'[i] # Broken
      PROVE  /\ rx'[i] = made - 0 - (Len(rx') - i)
             /\ seqOf[rx'[i]] + (made - rx'[i]) + 0 \in {seq, seq + SeqMod}
  <2>1. CASE i = Len(rx) + 1
    <3>1. rx'[i] = made
      BY <1>2, <1>3, <2>1
    <3>2. seqOf[made] = seq
      BY DEF RingInv
    <3> QED
      BY <1>n, <1>2, <2>1, <3>1, <3>2
  <2>2. CASE i # Len(rx) + 1
    <3> DEFINE k == rx'[i]
               d == seqOf[rx'[i]]
    <3>1. i \in 1 .. Len(rx)
      BY <1>n, <1>2, <2>2
    <3>2. k = rx[i] /\ k # Broken
      BY <1>2, <1>3, <3>1
    <3>3. k = made - 1 - (Len(rx) - i) /\ d + (made - k) + 0 \in {seq, seq + SeqMod}
      BY <3>1, <3>2 DEF RingInv
    <3>4. k \in Nat /\ d \in Nat
      BY <3>1, <3>2, RingTypes
    <3> HIDE DEF k, d
    <3>5. k = made - 0 - (Len(rx') - i)
      BY <1>n, <1>2, <3>1, <3>3, <3>4
    <3> QED
      BY <3>3, <3>5 DEF k, d
  <2> QED
    BY <2>1, <2>2
<1>4. Len(rx) + 1 <= Hold + 1 - 0
  BY DEF RingInv
<1>5. Len(rx') + 0 <= Hold + 1 - 0
  BY <1>n, <1>2, <1>4
<1>6. seqOf[made] = seq /\ bufs["single"] = made
  BY DEF RingInv
<1> QED
  BY <1>3, <1>5, <1>6 DEF RingInv

\* An exchange takes the frame it finds for its own only when it is, and then
\* it is the last in the ring.
LEMMA OwnFound ==
  ASSUME BenchInv, RingInv, Hold <= SeqMod \div 2, Shots, pc0 = "receive",
         rx # <<>>, Head(rx) # Broken, ~ Late(Head(rx))
  PROVE  Head(rx) = made /\ Len(rx) = 1
<1> DEFINE k == rx[1]
           d == seqOf[rx[1]]
           a == Len(rx) - 1
<1>n. made \in Nat /\ seq \in Nat /\ SeqMod \in Nat /\ Hold \in Nat /\ Len(rx) \in Nat
  BY RingTypes
<1>1. rx \in Seq(Ids \cup {Broken}) /\ Len(rx) >= 1 /\ 1 \in 1 .. Len(rx) /\ Head(rx) = k
  <2>1. rx \in Seq(Ids \cup {Broken})
    BY RingTypes
  <2> QED
    BY <2>1
<1>2. Due = 0 /\ Ahead = 0
  BY DEF Due, Ahead, Numbered
<1>3. k = made - 0 - (Len(rx) - 1) /\ d + (made - k) + 0 \in {seq, seq + SeqMod}
  BY <1>1, <1>2 DEF RingInv
<1>4. k \in Nat /\ d \in Nat
  BY <1>1, RingTypes
<1>5. Len(rx) + 0 <= Hold + 1 - 0
  BY <1>2 DEF RingInv
<1>6. ~ ((d - seq) % SeqMod >= (SeqMod + 1) \div 2)
  BY <1>1 DEF Late
<1> HIDE DEF k, d
<1>7. a \in Nat /\ made - k = a /\ a <= Hold
  BY <1>n, <1>1, <1>3, <1>4, <1>5
<1>8. d - seq = 0 - a \/ d - seq = SeqMod - a
  <2> HIDE DEF a
  <2> QED
    BY <1>n, <1>3, <1>4, <1>7
<1>9. a = 0
  <2> SUFFICES ASSUME a # 0 PROVE FALSE
    OBVIOUS
  <2> HIDE DEF a
  <2>1. a \in 1 .. SeqMod \div 2
    BY <1>n, <1>7
  <2> QED
    BY <1>6, <1>8, <2>1, Behind
<1>10. Len(rx) = 1
  BY <1>n, <1>9
<1> HIDE DEF a
<1>11. k = made
  BY <1>n, <1>4, <1>7, <1>9
<1> QED
  BY <1>1, <1>10, <1>11

\* What the state machine sends while core 0 waits is the frame it made last.
LEMMA ShotSent ==
  ASSUME BenchInv, ShotInv, RingInv, Shots, Shift
  PROVE  /\ pc0 = "wait" /\ ~ irq /\ ~ Uart
         /\ \/ UNCHANGED <<rx, irq>>
            \/ irq' = TRUE /\ \E m \in {made, Broken} : rx' = Append(rx, m)
<1>1. ~ Still
  BY DEF Shift, Still
<1>2. pc0 # "setup" /\ ~ Uart
  BY <1>1 DEF Shots, BenchInv, AirInv
<1>3. InFlight /\ ~ overlapped
  BY <1>1, <1>2 DEF ShotInv, BenchInv, AirInv
<1>4. pc0 = "wait" /\ pending = "single" /\ ~ irq
  BY <1>2, <1>3 DEF ShotInv, InFlight
<1>5. bufs["single"] = made
  BY <1>4 DEF RingInv, Numbered
<1> DEFINE words == Append(sm, Head(fifo))
<1>6. words[1] = made
  <2>1. fifo \in Seq(Ids) /\ sm \in Seq(Ids) /\ fifo # <<>>
    BY DEF Shift, BenchInv, TxTypeOK
  <2>2. Head(fifo) = made
    <3>1. 1 \in 1 .. Len(fifo) /\ Head(fifo) = fifo[1]
      BY <2>1
    <3> QED
      BY <1>3, <1>4, <1>5, <3>1 DEF InFlight
  <2>3. CASE sm = <<>>
    BY <2>1, <2>2, <2>3
  <2>4. CASE sm # <<>>
    <3>1. 1 \in 1 .. Len(sm) /\ words[1] = sm[1]
      BY <2>1, <2>4
    <3> QED
      BY <1>3, <1>4, <1>5, <3>1 DEF InFlight
  <2> QED
    BY <2>3, <2>4
<1> HIDE DEF words
<1>7. \/ UNCHANGED <<rx, irq>>
      \/ irq' = TRUE /\ \E m \in {words[1], Broken} : rx' = Append(rx, m)
  BY DEF Shift, words
<1> QED
  BY <1>2, <1>4, <1>6, <1>7

\* Outside such a mode nothing is said of the ring.
LEMMA RingOut ==
  ASSUME ~ Shots', pc0' = "setup" => rx' = <<>>
  PROVE  RingInv'
BY DEF RingInv

LEMMA ModeStays ==
  ASSUME Next, ~ Teardown
  PROVE  mode' = mode /\ (pc0' = "setup" => pc0 = "setup")
<1>1. CASE Core1 \/ HardwareStep
  BY <1>1 DEF Core1, Park, Check, Mark, PollOf1, HardwareStep, core0Vars
<1>2. CASE Command \/ Begin
  BY <1>2 DEF Command, KeyApply, KeySingle, KeyPad, TypeKey, Begin, Goto, At
<1>3. CASE Reconfigure
  BY <1>3 DEF Reconfigure, Stop, Await, Setup, Restart, Goto
<1>4. CASE Send
  BY <1>4 DEF Send, EncodeFrame, Clear, Trigger, SendUart, Wait, Finish, Goto
<1>5. CASE Answer
  BY <1>5 DEF Answer, Receive, Deadline, Finish, At, Goto
<1> QED
  BY <1>1, <1>2, <1>3, <1>4, <1>5 DEF Next

\* A poll of the receive port takes the head of the ring, or leaves it.
LEMMA RingPolled ==
  ASSUME NEW k, PollGives(k)
  PROVE  rx' = rx \/ (rx # <<>> /\ rx' = Tail(rx))
BY DEF PollGives

LEMMA RingReceives ==
  ASSUME BenchInv, RingInv, Hold <= SeqMod \div 2, Shots, Receive
  PROVE  RingInv'
<1>1. PICK k \in Ids \cup {Broken} :
        /\ PollGives(k)
        /\ \/ ~ Accepts(k) /\ UNCHANGED <<pc0, seq, answer>>
           \/ Accepts(k) /\ answer' = k /\ Finish
  BY DEF Receive
<1>2. /\ pc0 = "receive" /\ UNCHANGED <<bufs, irq, made, seqOf, mode>>
      /\ rx' = rx \/ (rx # <<>> /\ rx' = Tail(rx))
  BY <1>1, RingPolled DEF Receive, At
<1>3. Due = 0 /\ Ahead = 0 /\ Numbered
  BY <1>2 DEF Due, Ahead, Numbered
<1>4. CASE ~ Accepts(k) /\ UNCHANGED <<pc0, seq, answer>>
  <2>1. Due' = Due /\ Ahead' = Ahead /\ pc0' # "setup"
    BY <1>2, <1>3, <1>4 DEF Due, Ahead, Numbered
  <2> QED
    BY <1>2, <1>3, <1>4, <2>1, RingMoves
<1>5. CASE Accepts(k) /\ Finish
  <2>1. pc0' \in {"restart", "loop"} /\ Advance
    BY <1>5 DEF Finish, Goto
  <2>2. Due' = 0 /\ Ahead' = 1 /\ ~ Numbered' /\ pc0' # "setup"
    BY <2>1 DEF Due, Ahead, Numbered
  <2>3. Len(rx) <= Hold + 1 /\ rx # <<>> /\ rx' = Tail(rx)
    <3>1. Len(rx) + 0 <= Hold + 1 - 0
      BY <1>3 DEF RingInv
    <3> QED
      BY <1>1, <1>5, <3>1, RingTypes DEF PollGives, Accepts
  <2>4. Len(rx') <= Hold
    BY <2>3, RingTypes
  <2> QED
    BY <1>2, <1>3, <2>1, <2>2, <2>4, RingMoves
<1> QED
  BY <1>1, <1>4, <1>5

LEMMA RingWaits ==
  ASSUME BenchInv, JobInv, ShotInv, RingInv, Hold <= SeqMod \div 2, Shots, Wait
  PROVE  RingInv' /\ pc0' = "receive" /\ irq /\ WaitDone /\ seq' = seq
<1>1. pc0 = "wait" /\ pending = "single" /\ job # "burst" /\ ~ Uart
  BY DEF Wait, At, ShotInv, JobInv, BenchInv, CourseInv
<1>2. ~ WaitNothing
  BY <1>1 DEF WaitNothing
<1>3. ~ WaitTimeout
  <2> SUFFICES ASSUME ~ irq, ~ Moving PROVE FALSE
    BY DEF WaitTimeout
  <2>1. InFlight
    BY <1>1 DEF ShotInv
  <2>2. dma.left \in Nat /\ Len(fifo) = 0 /\ Len(sm) \in Nat /\ Len(sm) < FrameWords
    <3>1. fifo = <<>> /\ dma \in [buf : Buffers, left : 0 .. FrameWords] /\ sm \in Seq(Ids)
          /\ Len(sm) < FrameWords
      BY DEF Moving, BenchInv, TxTypeOK
    <3>2. dma.left \in 0 .. FrameWords
      BY <3>1
    <3> QED
      BY <3>1, <3>2, TxSizesAssumption
  <2>3. ~ (dma.left > 0)
    BY DEF Moving
  <2>4. dma.left + Len(fifo) + Len(sm) = FrameWords
    BY <2>1 DEF InFlight
  <2> QED
    BY <2>2, <2>3, <2>4, TxSizesAssumption
<1>4. /\ WaitDone /\ pc0' = "receive" /\ seq' = seq
      /\ UNCHANGED <<mode, made, seqOf>>
  BY <1>1, <1>2, <1>3 DEF Wait, Goto
<1>5. irq /\ irq' = FALSE /\ UNCHANGED <<bufs, rx>>
  BY <1>4 DEF WaitDone, wireVars
<1>6. Due = 0 /\ Due' = 0 /\ Ahead = 0 /\ Ahead' = 0 /\ Numbered
  BY <1>1, <1>4, <1>5 DEF Due, Ahead, Numbered
<1>7. RingInv'
  BY <1>4, <1>5, <1>6, RingMoves
<1> QED
  BY <1>4, <1>5, <1>7

\* A step of the worker, a command or a pause between two frames.
LEMMA RingRests ==
  ASSUME BenchInv, ShotInv, RingInv, Hold <= SeqMod \div 2, Shots,
         Core1 \/ Command \/ Begin \/ Stop \/ Await \/ Restart
  PROVE  RingInv'
<1>1. CASE Core1
  <2>1. UNCHANGED <<bufs, irq, core0Vars>>
    BY <1>1 DEF Core1, Park, Check, Mark, PollOf1, bmcTxVars
  <2>2. rx' = rx \/ (rx # <<>> /\ rx' = Tail(rx))
    BY <1>1, RingPolled DEF Core1, Park, Check, Mark, PollOf1, bmcTxVars
  <2>3. UNCHANGED <<pc0, mode, seq, made, seqOf>>
    BY <2>1 DEF core0Vars
  <2>4. Due' = Due /\ Ahead' = Ahead /\ Numbered' = Numbered /\ pc0' # "setup"
    BY <2>1, <2>3 DEF Due, Ahead, Numbered, Shots
  <2> QED
    BY <2>1, <2>2, <2>3, <2>4, RingMoves
<1>2. CASE Command \/ Begin \/ Stop \/ Await \/ Restart
  <2>1. /\ pc0 \in {"loop", "stop", "await", "restart"}
        /\ pc0' \in {"loop", "stop", "await", "teardown", "encode"}
        /\ UNCHANGED <<seq, made, seqOf, bufs>>
    BY <1>2 DEF Command, KeyApply, KeySingle, KeyPad, TypeKey, SetPadVariant, Begin, Stop,
       Await, Restart, At, Goto, bmcTxVars
  <2>2. rx' = rx
    <3>1. CASE KeyPad
      <4>1. pc0 = "loop" /\ ~ Uart
        BY <3>1 DEF KeyPad, TypeKey, At
      <4>2. ~ overlapped /\ pending = "none"
        BY <4>1 DEF ShotInv
      <4>3. sm = <<>>
        BY <4>1, <4>2 DEF BenchInv, AirInv, Still, InFlight
      <4> QED
        BY <3>1, <4>3 DEF KeyPad, SetPadVariant, Silence
    <3>2. CASE ~ KeyPad
      BY <1>2, <3>2 DEF Command, KeyApply, KeySingle, Begin, Stop, Await, Restart, bmcTxVars
    <3> QED
      BY <3>1, <3>2
  <2>3. Due' = Due /\ Ahead' = Ahead /\ Numbered' = Numbered /\ pc0' # "setup"
    BY <2>1 DEF Due, Ahead, Numbered
  <2> QED
    BY <2>1, <2>2, <2>3, RingMoves
<1> QED
  BY <1>1, <1>2

\* A frame is started, or sent by the UART.
LEMMA RingSends ==
  ASSUME BenchInv, JobInv, RingInv, Hold <= SeqMod \div 2, Shots, ShotInv,
         Clear \/ Trigger \/ SendUart
  PROVE  RingInv'
<1>0. job # "burst" /\ UNCHANGED <<made, seqOf, bufs>>
  BY DEF JobInv, Clear, StartClear, Trigger, StartTrigger, SendUart, UartSend
<1>1. CASE Clear \/ Trigger
  <2>1. /\ pc0 \in {"clear", "trigger"} /\ pc0' \in {"trigger", "wait"}
        /\ (pc0' = "wait" => pc0 = "trigger" /\ irq' = irq)
        /\ UNCHANGED <<seq, rx>>
    BY <1>0, <1>1 DEF Clear, StartClear, Trigger, StartTrigger, At, Goto, wireVars
  <2>2. pc0 = "trigger" => ~ irq
    BY <2>1 DEF ShotInv, BenchInv, AirInv, CourseInv
  <2>3. Due = 1 /\ Due' = 1 /\ Ahead = 0 /\ Ahead' = 0 /\ Numbered /\ pc0' # "setup"
    BY <2>1, <2>2 DEF Due, Ahead, Numbered
  <2> QED
    BY <1>0, <2>1, <2>3, RingMoves
<1>2. CASE SendUart
  <2>1. pc0 = "clear" /\ pc0' = "receive" /\ seq' = seq /\ Frame = "single"
    BY <1>0, <1>2 DEF SendUart, At, Goto, Frame
  <2>2. Due = 1 /\ Due' = 0 /\ Ahead = 0 /\ Ahead' = 0 /\ Numbered /\ pc0' # "setup"
    BY <2>1 DEF Due, Ahead, Numbered
  <2>3. bufs["single"] = made
    BY <2>2 DEF RingInv
  <2>4. PICK m \in {made, Broken} : rx' = Append(rx, m)
    BY <1>2, <2>1, <2>3 DEF SendUart, UartSend
  <2> QED
    BY <1>0, <2>1, <2>2, <2>4, RingGrows
<1> QED
  BY <1>1, <1>2

LEMMA RingTimesOut ==
  ASSUME BenchInv, RingInv, Hold <= SeqMod \div 2, Shots, Deadline
  PROVE  RingInv'
<1>1. /\ pc0 = "receive" /\ pc0' \in {"restart", "loop"} /\ Advance
      /\ UNCHANGED <<bufs, rx, made, seqOf>>
  BY DEF Deadline, At, Goto, Finish, bmcTxVars
<1>2. Due = 0 /\ Due' = 0 /\ Ahead = 0 /\ Ahead' = 1 /\ ~ Numbered' /\ pc0' # "setup"
  BY <1>1 DEF Due, Ahead, Numbered
<1>3. Len(rx) <= Hold
  BY RingTypes DEF Deadline, Hides
<1> QED
  BY <1>1, <1>2, <1>3, RingMoves

LEMMA RingWires ==
  ASSUME BenchInv, ShotInv, RingInv, Hold <= SeqMod \div 2, Shots, HardwareStep
  PROVE  RingInv'
<1>1. UNCHANGED <<pc0, mode, seq, made, seqOf, bufs>> /\ pc0' # "setup"
  BY DEF HardwareStep, Hardware, Fetch, Shift, core0Vars, Shots
<1>2. CASE UNCHANGED <<rx, irq>>
  <2>1. Due' = Due /\ Ahead' = Ahead /\ Numbered' = Numbered
    BY <1>1, <1>2 DEF Due, Ahead, Numbered
  <2> QED
    BY <1>1, <1>2, <2>1, RingMoves
<1>3. CASE ~ UNCHANGED <<rx, irq>>
  <2>1. Shift
    BY <1>3 DEF HardwareStep, Hardware, Fetch
  <2>2. pc0 = "wait" /\ ~ irq /\ irq' = TRUE /\ \E m \in {made, Broken} : rx' = Append(rx, m)
    BY <1>3, <2>1, ShotSent
  <2>3. PICK m \in {made, Broken} : rx' = Append(rx, m)
    BY <2>2
  <2>4. Due = 1 /\ Due' = 0 /\ Ahead = 0 /\ Ahead' = 0 /\ Numbered
    BY <1>1, <2>2 DEF Due, Ahead, Numbered
  <2> QED
    BY <1>1, <2>3, <2>4, RingGrows
<1> QED
  BY <1>2, <1>3

LEMMA RingKept ==
  ASSUME BenchInv, JobInv, ShotInv, RingInv, Hold <= SeqMod \div 2, Next
  PROVE  RingInv'
<1>1. CASE Setup
  <2>1. pc0 = "setup" /\ pc0' = "restart" /\ rx' = rx
    BY <1>1 DEF Setup, At, Goto, SetupUart, SetupHardware, wireVars
  <2>2. Due' = 0 /\ Ahead' = 1 /\ ~ Numbered' /\ rx' = <<>>
    BY <2>1 DEF Due, Ahead, Numbered, RingInv
  <2>3. Len(rx') = 0 /\ 1 .. 0 = {} /\ 0 + 0 <= Hold + 1 - 1
    BY <2>2, RingTypes
  <2> QED
    BY <2>1, <2>2, <2>3 DEF RingInv
<1>2. CASE Teardown
  <2>1. pc0' = "setup" /\ rx' = <<>>
    BY <1>2 DEF Teardown, Goto, StopHardware, Silence
  <2> QED
    BY <2>1, RingOut DEF Shots
<1>3. CASE ~ Setup /\ ~ Teardown /\ pc0 = "setup"
  <2>1. Core1 \/ HardwareStep
    BY <1>3 DEF Next, Command, KeyApply, KeySingle, KeyPad, TypeKey, Reconfigure, Stop, Await,
       Restart, Begin, Send, EncodeFrame, Clear, Trigger, SendUart, Wait, Answer, Receive,
       Deadline, At
  <2>2. rx = <<>> /\ Still
    BY <1>3 DEF RingInv, BenchInv, AirInv
  <2>3. rx' = rx
    <3>1. CASE Core1
      BY <2>2, <3>1, RingPolled DEF Core1, Park, Check, Mark, PollOf1, bmcTxVars
    <3>2. CASE HardwareStep
      BY <2>2, <3>2 DEF HardwareStep, Hardware, Fetch, Shift, Still
    <3> QED
      BY <2>1, <3>1, <3>2
  <2>4. pc0' = "setup"
    BY <1>3, <2>1 DEF Core1, Park, Check, Mark, PollOf1, HardwareStep, core0Vars
  <2> QED
    BY <2>2, <2>3, <2>4, RingOut DEF Shots
<1>4. CASE ~ Setup /\ ~ Teardown /\ pc0 # "setup"
  <2>1. mode' = mode /\ pc0' # "setup"
    BY <1>4, ModeStays
  <2>2. CASE ~ Shots
    BY <1>4, <2>1, <2>2, RingOut DEF Shots
  <2>3. CASE Shots
    BY <1>4, <2>3, RingRests, RingEncodes, RingSends, RingWaits, RingReceives, RingTimesOut,
       RingWires DEF Next, Command, Reconfigure, Send, Answer
  <2> QED
    BY <2>2, <2>3
<1> QED
  BY <1>1, <1>2, <1>3, <1>4

LEMMA JobKept ==
  ASSUME BenchInv, JobInv, RingInv, Hold <= SeqMod \div 2, Next
  PROVE  JobInv'
<1>1. CASE UNCHANGED <<pc0, job, mode, answer, bufs>>
  BY <1>1 DEF JobInv, Shots, AnswerIsOwn
<1>2. CASE KeyApply \/ KeySingle
  <2>1. pc0' = "stop" /\ job' \in {"apply", "single"} /\ mode' = mode
    BY <1>2 DEF KeyApply, KeySingle, TypeKey, Goto
  <2> QED
    BY <2>1 DEF JobInv, Shots, AnswerIsOwn
<1>3. CASE Begin
  <2>1. /\ pc0' = "encode" /\ answer' = 0 /\ mode' = mode
        /\ job' = IF Burst THEN "burst" ELSE "exchange"
    BY <1>3 DEF Begin, Goto
  <2>2. mode \in Modes
    BY DEF BenchInv, Core0Typed
  <2>3. mode \in {"wait", "uart wait"} <=> ~ Burst
    BY <2>2 DEF Burst, Modes
  <2> QED
    BY <2>1, <2>3 DEF JobInv, Shots, AnswerIsOwn
<1>4. CASE Stop \/ Await \/ Teardown \/ Restart \/ Setup
  <2>1. pc0 \in {"stop", "await", "teardown", "setup", "restart"} /\ job' = job /\ job # "exchange"
        /\ job \in {"apply", "single"}
    BY <1>4 DEF Stop, Await, Teardown, Restart, Setup, At, JobInv
  <2> QED
    BY <2>1 DEF JobInv, AnswerIsOwn
<1>5. CASE EncodeFrame
  <2>1. /\ pc0 = "encode" /\ pc0' \in {"clear", "wait"} /\ UNCHANGED <<job, mode, answer>>
    BY <1>5 DEF EncodeFrame, At, Goto
  <2>2. job = "exchange" => answer = 0
    BY <2>1 DEF JobInv
  <2> QED
    BY <2>1, <2>2 DEF JobInv, Shots, AnswerIsOwn
<1>6. CASE Clear \/ Trigger \/ SendUart \/ Wait \/ Deadline
  <2>1. UNCHANGED <<job, mode, answer, bufs>>
    BY <1>6 DEF Clear, StartClear, Trigger, StartTrigger, SendUart, UartSend, Wait, WaitNothing,
       WaitDone, WaitTimeout, Deadline, bmcTxVars
  <2>2. pc0 \in {"clear", "trigger", "wait", "receive"} /\ pc0' # "encode"
    BY <1>6 DEF Clear, Trigger, SendUart, Wait, Deadline, Finish, At, Goto
  <2>3. pc0' \in {"stop", "await", "teardown", "setup", "restart"} =>
          pc0' = "restart" /\ job = "single"
    BY <1>6 DEF Clear, Trigger, SendUart, Wait, Deadline, Finish, At, Goto
  <2> QED
    BY <2>1, <2>2, <2>3 DEF JobInv, Shots, AnswerIsOwn
<1>7. CASE Receive
  <2>1. PICK k \in Ids \cup {Broken} :
          /\ PollGives(k)
          /\ \/ ~ Accepts(k) /\ UNCHANGED <<pc0, seq, answer>>
             \/ Accepts(k) /\ answer' = k /\ Finish
    BY <1>7 DEF Receive
  <2>2. pc0 = "receive" /\ UNCHANGED <<job, mode, bufs>>
    BY <1>7 DEF Receive, At
  <2>3. CASE ~ Accepts(k) /\ UNCHANGED <<pc0, seq, answer>>
    BY <2>2, <2>3 DEF JobInv, Shots, AnswerIsOwn
  <2>4. CASE Accepts(k) /\ answer' = k /\ Finish
    <3>1. pc0' = (IF job = "single" THEN "restart" ELSE "loop")
      BY <2>4 DEF Finish, Goto
    <3>2. job = "exchange" => answer' = bufs["single"]
      <4> SUFFICES ASSUME job = "exchange" PROVE k = bufs["single"]
        BY <2>4
      <4>1. Shots
        BY DEF JobInv
      <4>2. rx # <<>> /\ k = Head(rx) /\ k # Broken /\ ~ Late(k)
        BY <2>1, <2>4 DEF Accepts, PollGives
      <4>3. k = made
        BY <2>2, <4>1, <4>2, OwnFound
      <4> QED
        BY <2>2, <4>1, <4>3 DEF RingInv, Numbered
    <3> QED
      BY <2>2, <3>1, <3>2 DEF JobInv, Shots, AnswerIsOwn
  <2> QED
    BY <2>1, <2>3, <2>4
<1>8. CASE Core1 \/ HardwareStep \/ KeyPad
  BY <1>1, <1>8 DEF Core1, Park, Check, Mark, PollOf1, HardwareStep, Hardware, Fetch, Shift,
     KeyPad, TypeKey, SetPadVariant, At, Goto, core0Vars, bmcTxVars
<1> QED
  BY <1>2, <1>3, <1>4, <1>5, <1>6, <1>7, <1>8
     DEF Next, Command, Reconfigure, Send, Answer

\* What keeps ShotInv when nothing moves and the wait does not change.
LEMMA ShotSame ==
  ASSUME ShotInv, Shots, mode' = mode, UNCHANGED <<overlapped, pending>>,
         pc0 # "wait", pc0' # "wait"
  PROVE  ShotInv'
BY DEF ShotInv, Uart

LEMMA ShotKept ==
  ASSUME BenchInv, BenchInv', JobInv, ShotInv, RingInv, Hold <= SeqMod \div 2, Next
  PROVE  ShotInv'
<1>1. CASE Setup
  <2>1. pc0' = "restart" /\ mode' = mode /\ (~ Uart => pending' = "none" /\ overlapped' = FALSE)
    BY <1>1 DEF Setup, Goto, SetupHardware
  <2> QED
    BY <2>1 DEF ShotInv, Uart
<1>2. CASE Teardown
  BY <1>2 DEF Teardown, Goto, ShotInv, Shots
<1>3. CASE ~ Setup /\ ~ Teardown
  <2>0. mode' = mode
    BY <1>3, ModeStays
  <2> SUFFICES ASSUME Shots', ~ Uart PROVE ShotInv'
    BY <2>0 DEF ShotInv, Uart
  <2>1. Shots
    <3>1. pc0 # "setup"
      <4> SUFFICES ASSUME pc0 = "setup" PROVE FALSE
        OBVIOUS
      <4>1. Core1 \/ HardwareStep
        BY <1>3 DEF Next, Command, KeyApply, KeySingle, KeyPad, TypeKey, Reconfigure, Stop,
           Await, Restart, Begin, Send, EncodeFrame, Clear, Trigger, SendUart, Wait, Answer,
           Receive, Deadline, At
      <4> QED
        BY <4>1 DEF Core1, Park, Check, Mark, PollOf1, HardwareStep, core0Vars, Shots
    <3> QED
      BY <2>0, <3>1 DEF Shots
  <2>2. /\ ~ overlapped /\ job # "burst" /\ pc0 # "setup"
        /\ pending = IF pc0 = "wait" THEN "single" ELSE "none"
        /\ pc0 = "wait" => InFlight \/ (Still /\ irq)
    BY <2>1 DEF ShotInv, JobInv, Shots
  <2>3. CASE Core1
    <3>1. UNCHANGED <<pc0, mode, overlapped, pending, irq, dma, fifo, sm, bufs>>
      BY <2>3 DEF Core1, Park, Check, Mark, PollOf1, bmcTxVars, core0Vars
    <3> QED
      BY <2>1, <3>1 DEF ShotInv, Shots, Uart, InFlight, Still
  <2>4. CASE Command \/ Begin \/ Stop \/ Await \/ Restart \/ EncodeFrame \/ Receive \/ Deadline
    <3>1. UNCHANGED <<overlapped, pending>>
      BY <2>4 DEF Command, KeyApply, KeySingle, KeyPad, TypeKey, SetPadVariant, Begin, Stop,
         Await, Restart, EncodeFrame, Encode, Receive, Deadline, bmcTxVars
    <3>2. pc0 # "wait" /\ pc0' # "wait"
      BY <2>2, <2>4 DEF Command, KeyApply, KeySingle, KeyPad, TypeKey, Begin, Stop, Await,
         Restart, EncodeFrame, Receive, Deadline, Finish, At, Goto
    <3> QED
      BY <2>0, <2>1, <3>1, <3>2, ShotSame
  <2>5. CASE Clear
    <3>1. pc0 = "clear" /\ pc0' = "trigger" /\ pending' = pending
          /\ overlapped' = (overlapped \/ pending # "none")
      BY <2>5 DEF Clear, StartClear, At, Goto
    <3> QED
      BY <2>2, <3>1 DEF ShotInv
  <2>6. CASE SendUart
    BY <2>6 DEF SendUart
  <2>7. CASE Trigger
    <3>1. pc0' = "wait" /\ pending' = "single" /\ overlapped' = overlapped /\ dma'.left # 0
      <4>1. dma \in [buf : Buffers, left : 0 .. FrameWords]
        BY DEF BenchInv, TxTypeOK
      <4>2. dma'.left = IF dma.left > 0 THEN dma.left ELSE FrameWords
        BY <2>7 DEF Trigger, StartTrigger, Transfer
      <4>3. dma'.left # 0
        BY <4>1, <4>2, TxSizesAssumption
      <4> QED
        BY <2>2, <2>7, <4>3 DEF Trigger, StartTrigger, Goto, Frame
    <3>2. InFlight'
      BY <2>0, <2>2, <3>1 DEF BenchInv, AirInv, Still, Uart
    <3> QED
      BY <2>2, <3>1, <3>2 DEF ShotInv
  <2>8. CASE Wait
    <3>1. pc0' = "receive" /\ pending' = "none" /\ overlapped' = overlapped
      BY <2>1, <2>8, RingWaits DEF WaitDone
    <3> QED
      BY <2>2, <3>1 DEF ShotInv
  <2>9. CASE HardwareStep
    <3>1. UNCHANGED <<pc0, overlapped, pending>>
      BY <2>9 DEF HardwareStep, Hardware, Fetch, Shift, core0Vars
    <3>2. Still' \/ InFlight'
      BY <2>0, <2>2, <3>1 DEF BenchInv, AirInv, Uart
    <3>3. Still' => irq'
      <4>1. CASE Fetch
        <5>1. fifo \in Seq(Ids) /\ fifo' = Append(fifo, bufs[dma.buf])
          BY <4>1 DEF Fetch, BenchInv, TxTypeOK
        <5>2. fifo' # <<>>
          <6>1. bufs[dma.buf] \in Ids
            <7>1. /\ bufs \in [Buffers -> Ids \cup {Broken}]
                  /\ dma \in [buf : Buffers, left : 0 .. FrameWords]
              BY DEF BenchInv, TxTypeOK
            <7>2. bufs[dma.buf] # Broken
              BY <4>1 DEF Fetch, BenchInv, EncodedInv
            <7> QED
              BY <7>1, <7>2
          <6> QED
            BY <5>1, <6>1
        <5> QED
          BY <5>2 DEF Still
      <4>2. CASE Shift
        <5>1. sm \in Seq(Ids) /\ fifo \in Seq(Ids) /\ fifo # <<>>
          BY <4>2 DEF Shift, BenchInv, TxTypeOK
        <5>2. sm' = Append(sm, Head(fifo)) \/ irq' = TRUE
          BY <4>2 DEF Shift
        <5>3. Append(sm, Head(fifo)) # <<>>
          <6>1. Head(fifo) \in Ids
            BY <5>1
          <6>2. Len(sm) \in Nat /\ Len(Append(sm, Head(fifo))) = Len(sm) + 1
            BY <5>1, <6>1
          <6> QED
            BY <6>2
        <5> QED
          BY <5>2, <5>3 DEF Still
      <4> QED
        BY <2>9, <4>1, <4>2 DEF HardwareStep, Hardware
    <3> QED
      BY <2>2, <3>1, <3>2, <3>3 DEF ShotInv
  <2> QED
    BY <1>3, <2>3, <2>4, <2>5, <2>6, <2>7, <2>8, <2>9
       DEF Next, Reconfigure, Send, Answer
<1> QED
  BY <1>1, <1>2, <1>3

AnswerInv == BenchInv /\ JobInv /\ ShotInv /\ RingInv

LEMMA AnswerInit == Init => AnswerInv
<1> SUFFICES ASSUME Init PROVE AnswerInv
  OBVIOUS
<1>1. JobInv
  BY DEF Init, JobInv, AnswerIsOwn, Shots
<1>2. ShotInv
  BY DEF Init, TxZero, ShotInv
<1>3. RingInv
  <2>1. Due = 0 /\ Ahead = 1 /\ ~ Numbered /\ rx = <<>> /\ pc0 = "stop"
    BY DEF Init, TxZero, Due, Ahead, Numbered
  <2>2. Len(rx) = 0 /\ 1 .. 0 = {} /\ 0 + 0 <= Hold + 1 - 1
    BY <2>1, BenchmarkAssumption
  <2> QED
    BY <2>1, <2>2 DEF RingInv
<1> QED
  BY <1>1, <1>2, <1>3, BenchInit DEF AnswerInv

\* What core 0 knows of its answer does not depend on the worker's bookkeeping.
LEMMA AnswerSame == AnswerInv /\ UNCHANGED vars => AnswerInv'
<1> SUFFICES ASSUME AnswerInv, UNCHANGED vars PROVE AnswerInv'
  OBVIOUS
<1>1. BenchInv'
  BY BenchKept DEF AnswerInv
<1>2. /\ UNCHANGED <<bufs, dma, fifo, sm, irq, pending, overlapped, rx>>
      /\ UNCHANGED <<pc0, job, mode, seq, made, seqOf, answer>>
  BY DEF vars, bmcTxVars, core0Vars
<1>3. JobInv' /\ ShotInv'
  BY <1>2 DEF AnswerInv, JobInv, ShotInv, Shots, Uart, AnswerIsOwn, InFlight, Still
<1>4. RingInv'
  BY <1>2 DEF AnswerInv, RingInv, Shots, Due, Ahead, Numbered
<1> QED
  BY <1>1, <1>3, <1>4 DEF AnswerInv

\* AnswerIsOwn, run_round_trip: as long as no more frames can hide behind a
\* damaged one than half the sequence numbers there are, an exchange takes no
\* frame for its own but the one that it made.
THEOREM OwnAnswer ==
  ASSUME Hold <= SeqMod \div 2
  PROVE  Spec => []AnswerIsOwn
<1>1. AnswerInv /\ [Next]_vars => AnswerInv'
  <2>1. ASSUME AnswerInv, Next PROVE AnswerInv'
    <3>1. BenchInv'
      BY <2>1, BenchKept DEF AnswerInv
    <3> QED
      BY <2>1, <3>1, JobKept, ShotKept, RingKept DEF AnswerInv
  <2> QED
    BY <2>1, AnswerSame
<1>2. AnswerInv => AnswerIsOwn
  BY DEF AnswerInv, JobInv
<1> QED
  BY <1>1, <1>2, AnswerInit, PTL DEF Spec

=============================================================================
