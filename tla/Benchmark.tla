----------------------------- MODULE Benchmark -----------------------------
(***************************************************************************)
(* The BMC benchmark, main_benchmark.c: the main loop of core 0 with the   *)
(* commands that interrupt it, and core 1's receive worker.  The cores     *)
(* share s_core1_rx_enabled and s_core1_rx_active, the receive port and    *)
(* the transmit controller of BmcTx.                                       *)
(*                                                                         *)
(* The modes are a stop-and-wait mode and a burst mode, at the rate whose  *)
(* pad settings 'p' can change, and the same two over the UART, whose send *)
(* waits for its end.  A command that only prints, pauses or resets        *)
(* statistics is left out.                                                 *)
(***************************************************************************)
EXTENDS BmcTx

CONSTANTS
  SeqMod,        \* 256, the sequence numbers there are
  Hold,          \* bound: frames a damaged one can hide until more arrive
  MaxKeys        \* bound: commands typed, or sweeps to the next mode

ASSUME BenchmarkAssumption ==
  SeqMod \in Nat \ {0} /\ Hold \in Nat /\ MaxKeys \in Nat

VARIABLES
  pc0, job,         \* where core 0 is, and in which of its tasks
  mode,             \* s_current_mode: one of Modes
  seq, made,        \* s_seq, and the frames encoded so far
  seqOf,            \* the sequence number of each
  next, pipeline,   \* s_tx_pipeline_next, s_tx_pipeline_active
  enabled, active,  \* s_core1_rx_enabled, s_core1_rx_active
  wasEnabled,       \* was_burst_rx_enabled
  answer,           \* the frame an exchange took for its own
  keys,             \* commands so far
  pc1,              \* core 1: "check", "mark" or "poll"
  stray             \* polls it began after core 0 had stopped it

Modes == {"wait", "burst", "uart wait", "uart burst"}
Uart  == mode \in {"uart wait", "uart burst"}
Burst == mode \in {"burst", "uart burst"}

core0Vars == <<pc0, job, mode, seq, made, seqOf, next, pipeline, wasEnabled, answer, keys>>
flagVars  == <<enabled, active>>
vars      == <<bmcTxVars, core0Vars, flagVars, pc1, stray>>

TypeOK ==
  /\ TxTypeOK
  /\ pc0 \in {"loop", "stop", "await", "teardown", "setup", "encode", "clear",
              "trigger", "wait", "receive", "restart"}
  /\ job \in {"apply", "single", "exchange", "burst"}
  /\ mode \in Modes
  /\ seq \in 0 .. SeqMod - 1 /\ made \in 0 .. MaxFrames
  /\ seqOf \in [Ids -> 0 .. SeqMod - 1]
  /\ next \in {"even", "odd"} /\ pipeline \in BOOLEAN
  /\ enabled \in BOOLEAN /\ active \in BOOLEAN /\ wasEnabled \in BOOLEAN
  /\ answer \in Ids \cup {0} /\ keys \in 0 .. MaxKeys
  /\ pc1 \in {"check", "mark", "poll"} /\ stray \in Nat

\* main: core 1 is launched and the first mode applied.
Init ==
  /\ TxZero
  /\ pc0 = "stop" /\ job = "apply" /\ mode = "wait"
  /\ seq = 0 /\ made = 0 /\ seqOf = [k \in Ids |-> 0]
  /\ next = "even" /\ pipeline = FALSE /\ wasEnabled = FALSE
  /\ answer = 0 /\ keys = 0
  /\ enabled = FALSE /\ active = FALSE
  /\ pc1 = "check" /\ stray = 0

At(pc)     == pc0 = pc
Goto(pc)   == pc0' = pc
Fresh      == made < MaxFrames
\* Core 0 has seen the worker stop and has not started it again.
Stopped    == ~ enabled /\ pc0 # "await"
Frame      == IF job = "burst" /\ ~ Uart THEN next ELSE "single"
Other(b)   == IF b = "even" THEN "odd" ELSE "even"

-----------------------------------------------------------------------------
(* Core 1: core1_rx_worker.                                                *)

\* Seeded bug: the worker does not say that it has stopped.
ParkSilent ==
  /\ pc1 = "check" /\ ~ enabled
  /\ UNCHANGED vars

Park ==
  /\ pc1 = "check" /\ ~ enabled
  /\ active' = FALSE
  /\ UNCHANGED <<bmcTxVars, core0Vars, enabled, pc1, stray>>

Check ==
  /\ pc1 = "check" /\ enabled
  /\ pc1' = "mark"
  /\ UNCHANGED <<bmcTxVars, core0Vars, flagVars, stray>>

Mark ==
  /\ pc1 = "mark"
  /\ active' = TRUE /\ pc1' = "poll"
  /\ stray' = IF Stopped THEN stray + 1 ELSE stray
  /\ UNCHANGED <<bmcTxVars, core0Vars, enabled>>

Hides == rx # <<>> /\ Head(rx) = Broken /\ Len(rx) <= Hold

\* What a poll of the receive port gives: nothing, or the next frame.  A
\* damaged frame is passed over, or hides those behind it until more arrive.
PollGives(k) ==
  \/ k = Broken /\ (rx = <<>> \/ Hides) /\ UNCHANGED rx
  \/ rx # <<>> /\ k = Head(rx) /\ rx' = Tail(rx)

PollOf1 ==
  /\ pc1 = "poll" /\ pc1' = "check"
  /\ \E k \in Ids \cup {Broken} : PollGives(k)
  /\ UNCHANGED <<bufs, dma, fifo, sm, irq, resident, pending, confirmed, overlapped, aired, losses>>
  /\ UNCHANGED <<core0Vars, flagVars, stray>>

Core1 == Park \/ Check \/ Mark \/ PollOf1

-----------------------------------------------------------------------------
(* Core 0: commands.                                                       *)

TypeKey(pc, j) ==
  /\ At("loop") /\ keys < MaxKeys /\ keys' = keys + 1
  /\ Goto(pc) /\ job' = j
  /\ UNCHANGED <<mode, seq, made, seqOf, next, pipeline, wasEnabled, answer>>
  /\ UNCHANGED <<flagVars, pc1, stray>>

\* A mode key, the sweep's next mode, or the continuity test.
KeyApply == TypeKey("stop", "apply") /\ UNCHANGED bmcTxVars

KeySingle == Fresh /\ TypeKey("stop", "single") /\ UNCHANGED bmcTxVars

\* Only a BMC mode is told of it.
KeyPad == ~ Uart /\ TypeKey("loop", job) /\ SetPadVariant

Stop ==
  /\ At("stop") /\ Goto("await")
  /\ wasEnabled' = enabled /\ enabled' = FALSE
  /\ UNCHANGED <<bmcTxVars, job, mode, seq, made, seqOf, next, pipeline, answer, keys>>
  /\ UNCHANGED <<active, pc1, stray>>

\* Seeded bug: core 0 does not wait for the worker.
AwaitNothing ==
  /\ At("await")
  /\ IF job = "apply" THEN Goto("teardown") ELSE Goto("encode")
  /\ UNCHANGED <<bmcTxVars, job, mode, seq, made, seqOf, next, pipeline, wasEnabled, answer, keys>>
  /\ UNCHANGED <<flagVars, pc1, stray>>

Await ==
  /\ At("await") /\ ~ active
  /\ IF job = "apply" THEN Goto("teardown") ELSE Goto("encode")
  /\ UNCHANGED <<bmcTxVars, job, mode, seq, made, seqOf, next, pipeline, wasEnabled, answer, keys>>
  /\ UNCHANGED <<flagVars, pc1, stray>>

\* apply_mode: the hardware is torn down and set up for the new mode.
Teardown ==
  /\ At("teardown") /\ Goto("setup")
  /\ mode' \in Modes
  /\ StopHardware
  /\ UNCHANGED <<job, seq, made, seqOf, next, pipeline, wasEnabled, answer, keys>>
  /\ UNCHANGED <<flagVars, pc1, stray>>

Setup ==
  /\ At("setup") /\ IF Uart THEN SetupUart ELSE SetupHardware
  /\ seq' = 0 /\ next' = "even" /\ pipeline' = FALSE
  /\ wasEnabled' = Burst /\ Goto("restart")
  /\ UNCHANGED <<job, mode, made, seqOf, answer, keys, flagVars, pc1, stray>>

\* The worker is started: by a burst mode, or again after a single shot.
Restart ==
  /\ At("restart") /\ Goto("loop")
  /\ \/ wasEnabled /\ enabled' = TRUE /\ stray' = 0
     \/ ~ wasEnabled /\ UNCHANGED <<enabled, stray>>
  /\ UNCHANGED <<bmcTxVars, job, mode, seq, made, seqOf, next, pipeline, wasEnabled, answer, keys>>
  /\ UNCHANGED <<active, pc1>>

-----------------------------------------------------------------------------
(* Core 0: frames.                                                         *)

Begin ==
  /\ At("loop") /\ Fresh /\ Goto("encode")
  /\ job' = IF Burst THEN "burst" ELSE "exchange"
  /\ answer' = 0
  /\ UNCHANGED <<bmcTxVars, mode, seq, made, seqOf, next, pipeline, wasEnabled, keys>>
  /\ UNCHANGED <<flagVars, pc1, stray>>

\* A burst waits for the last frame after it has encoded the next.
EncodeFrame ==
  /\ At("encode") /\ Encode(Frame, made + 1)
  /\ made' = made + 1 /\ seqOf' = [seqOf EXCEPT ![made + 1] = seq]
  /\ IF job = "burst" /\ pipeline THEN Goto("wait") ELSE Goto("clear")
  /\ UNCHANGED <<job, mode, seq, next, pipeline, wasEnabled, answer, keys>>
  /\ UNCHANGED <<flagVars, pc1, stray>>

Clear ==
  /\ At("clear") /\ ~ Uart /\ StartClear /\ Goto("trigger")
  /\ UNCHANGED <<job, mode, seq, made, seqOf, next, pipeline, wasEnabled, answer, keys>>
  /\ UNCHANGED <<flagVars, pc1, stray>>

\* Seeded bug: the sequence number is not a byte.
AdvanceUnwrapped == seq' = seq + 1

Advance == seq' = (seq + 1) % SeqMod

\* Seeded bug: the burst goes on with the buffer that is being sent.
TriggerSame ==
  /\ At("trigger") /\ StartTrigger(Frame)
  /\ \/ /\ job = "burst" /\ pipeline' = TRUE /\ next' = next
        /\ Advance /\ Goto("loop")
     \/ job # "burst" /\ Goto("wait") /\ UNCHANGED <<seq, next, pipeline>>
  /\ UNCHANGED <<job, mode, made, seqOf, wasEnabled, answer, keys, flagVars, pc1, stray>>

Trigger ==
  /\ At("trigger") /\ StartTrigger(Frame)
  /\ \/ /\ job = "burst" /\ pipeline' = TRUE /\ next' = Other(next)
        /\ Advance /\ Goto("loop")
     \/ job # "burst" /\ Goto("wait") /\ UNCHANGED <<seq, next, pipeline>>
  /\ UNCHANGED <<job, mode, made, seqOf, wasEnabled, answer, keys, flagVars, pc1, stray>>

\* uart_tx_send_packet_blocking: it returns when the last bit is out.
SendUart ==
  /\ At("clear") /\ Uart /\ UartSend(Frame)
  /\ \/ job = "burst" /\ Advance /\ Goto("loop")
     \/ job # "burst" /\ Goto("receive") /\ UNCHANGED seq
  /\ UNCHANGED <<job, mode, made, seqOf, next, pipeline, wasEnabled, answer, keys>>
  /\ UNCHANGED <<flagVars, pc1, stray>>

\* What follows an exchange or a single shot.
Finish ==
  /\ Advance
  /\ IF job = "single" THEN Goto("restart") ELSE Goto("loop")

Wait ==
  /\ At("wait")
  /\ \/ /\ (WaitNothing \/ WaitDone)
        /\ IF job = "burst" THEN Goto("clear") ELSE Goto("receive")
        /\ UNCHANGED seq
     \/ /\ WaitTimeout
        /\ IF job = "burst" THEN Goto("clear") /\ seq' = seq ELSE Finish
  /\ UNCHANGED <<job, mode, made, seqOf, next, pipeline, wasEnabled, answer, keys>>
  /\ UNCHANGED <<flagVars, pc1, stray>>

-----------------------------------------------------------------------------
(* Core 0: the answer.                                                     *)

\* Seeded bug: an answer that comes late is not told from the one awaited.
LateNever(k) == k = Broken /\ made = 0

\* seq_diff < 0.
Late(k) == k # Broken /\ (seqOf[k] - seq) % SeqMod >= (SeqMod + 1) \div 2

Accepts(k) == k # Broken /\ ~ (job = "exchange" /\ Late(k))

Receive ==
  /\ At("receive")
  /\ \E k \in Ids \cup {Broken} :
       /\ PollGives(k)
       /\ \/ ~ Accepts(k) /\ UNCHANGED <<pc0, seq, answer>>
          \/ Accepts(k) /\ answer' = k /\ Finish
  /\ UNCHANGED <<bufs, dma, fifo, sm, irq, resident, pending, confirmed, overlapped, aired, losses>>
  /\ UNCHANGED <<job, mode, made, seqOf, next, pipeline, wasEnabled, keys, flagVars, pc1, stray>>

\* The deadline outlasts a frame: it passes only when no poll gives one.
Deadline ==
  /\ At("receive") /\ ~ Moving
  /\ (rx = <<>> \/ Hides)
  /\ Finish
  /\ UNCHANGED <<bmcTxVars, job, mode, made, seqOf, next, pipeline, wasEnabled, answer, keys>>
  /\ UNCHANGED <<flagVars, pc1, stray>>

-----------------------------------------------------------------------------
Command == KeyApply \/ KeySingle \/ KeyPad
Reconfigure == Stop \/ Await \/ Teardown \/ Setup \/ Restart
Send == EncodeFrame \/ Clear \/ Trigger \/ SendUart \/ Wait
Answer == Receive \/ Deadline
HardwareStep == Hardware /\ UNCHANGED <<core0Vars, flagVars, pc1, stray>>
Next == Core1 \/ Command \/ Reconfigure \/ Begin \/ Send \/ Answer \/ HardwareStep
Spec == Init /\ [][Next]_vars

\* Both cores run, the hardware does its work and time passes.  What the
\* user types, and whether the benchmark is paused, is left open.
Fairness ==
  /\ WF_vars(Core1) /\ WF_vars(Reconfigure) /\ WF_vars(Send)
  /\ WF_vars(Receive) /\ WF_vars(Deadline) /\ WF_vars(HardwareStep)
FairSpec == Spec /\ Fairness

-----------------------------------------------------------------------------
(* Properties.                                                             *)

\* What the handshake gives: a poll that was under way is over before core 0
\* touches the port, and after that the worker makes one poll at most, which it
\* had decided on before it was stopped.
StopLeaksOnePoll ==
  /\ stray <= 1
  /\ Stopped /\ pc1 = "poll" => stray = 1

\* The two buffers of the burst are enough: as long as no frame is started over
\* a pending one, every frame on the wire is of one encoding, and tx_packets
\* counts a frame only when all of it has been there: the interrupt that is
\* taken for its end is its own.
WholeUnlessOverlapped ==
  overlapped \/ (OfOneFrame(sm) /\ confirmed \subseteq aired)

\* An exchange never takes another frame for its own, although frames of earlier
\* exchanges may turn up late behind a damaged one.
AnswerIsOwn == job = "exchange" /\ answer # 0 => answer = bufs["single"]

\* Core 0 always comes back to its loop: it waits for no worker, interrupt or
\* answer for ever.
ReturnsToLoop == []<>(pc0 = "loop")
=============================================================================
