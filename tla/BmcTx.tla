------------------------------- MODULE BmcTx -------------------------------
(***************************************************************************)
(* The BMC transmit path: the TX controller of bmc/bmc_driver.c with the   *)
(* DMA channel, the FIFO and the PIO state machine it drives.  A DMA word  *)
(* is the identity of the encoding it was read from: the frames a buffer   *)
(* holds one after the other are told apart, the bits of a frame are not.  *)
(***************************************************************************)
EXTENDS Naturals, Sequences

CONSTANTS
  FrameWords,  \* DMA words of a frame, its length word included
  FifoDepth,   \* words the TX FIFO holds
  MaxFrames,   \* bound: frames that are encoded
  Losses       \* bound: frames damaged on the line

ASSUME TxSizesAssumption ==
  /\ FrameWords \in Nat \ {0} /\ FifoDepth \in Nat \ {0}
  /\ MaxFrames \in Nat /\ Losses \in Nat

Buffers == {"single", "even", "odd"}
Ids     == 1 .. MaxFrames
Broken  == 0

VARIABLES
  bufs,       \* s_tx_dma_words and s_tx_dma_words_pipeline: the frame in each
  dma,        \* the TX DMA channel: where it reads, words left
  fifo, sm,   \* the words in the FIFO and those of the frame on the wire
  irq,        \* PIO interrupt 0: a frame is over
  resident,   \* tx->current_tx_pin is set and the state machine runs
  pending,    \* tx->pending_dma_buf, "none" unless tx->pending_active
  confirmed,  \* the frames counted in stats.tx_packets
  overlapped, \* a frame was started with another one pending
  aired,      \* the frames sent whole
  losses,     \* frames damaged so far
  rx          \* the frames in the receiver's ring, Broken for a damaged one

bmcTxVars == <<bufs, dma, fifo, sm, irq, resident, pending, confirmed, overlapped, aired, losses, rx>>
wireVars  == <<dma, fifo, sm, aired, losses, rx>>

TxTypeOK ==
  /\ bufs \in [Buffers -> Ids \cup {Broken}]
  /\ dma \in [buf : Buffers, left : 0 .. FrameWords]
  /\ fifo \in Seq(Ids) /\ Len(fifo) <= FifoDepth
  /\ sm \in Seq(Ids) /\ Len(sm) < FrameWords
  /\ irq \in BOOLEAN /\ resident \in BOOLEAN
  /\ pending \in Buffers \cup {"none"}
  /\ confirmed \subseteq Ids /\ overlapped \in BOOLEAN /\ aired \subseteq Ids
  /\ losses \in 0 .. Losses
  /\ rx \in Seq(Ids \cup {Broken})

\* bmc_tx_controller_zero.
TxZero ==
  /\ bufs = [b \in Buffers |-> Broken]
  /\ dma = [buf |-> "single", left |-> 0] /\ fifo = <<>> /\ sm = <<>>
  /\ irq = FALSE /\ resident = FALSE /\ pending = "none"
  /\ confirmed = {} /\ overlapped = FALSE /\ aired = {} /\ losses = 0 /\ rx = <<>>

-----------------------------------------------------------------------------
(* The hardware.                                                           *)

Fetch ==
  /\ dma.left > 0 /\ Len(fifo) < FifoDepth
  /\ fifo' = Append(fifo, bufs[dma.buf])
  /\ dma' = [dma EXCEPT !.left = @ - 1]
  /\ UNCHANGED <<bufs, sm, irq, resident, pending, confirmed, overlapped, aired, losses, rx>>

Moving == dma.left > 0 \/ fifo # <<>>
OfOneFrame(words) == \A i, j \in DOMAIN words : words[i] = words[j]

\* The state machine takes a word; with the last one the frame is over, and
\* in the receiver's ring unless the line or the sender damaged it.
Shift ==
  /\ resident /\ fifo # <<>> /\ fifo' = Tail(fifo)
  /\ LET words == Append(sm, Head(fifo))
     IN  \/ /\ Len(words) < FrameWords /\ sm' = words
            /\ UNCHANGED <<irq, aired, losses, rx>>
         \/ /\ Len(words) = FrameWords /\ sm' = <<>> /\ irq' = TRUE
            /\ aired' = IF OfOneFrame(words) THEN aired \cup {words[1]} ELSE aired
            /\ \/ /\ rx' = Append(rx, IF OfOneFrame(words) THEN words[1] ELSE Broken)
                  /\ UNCHANGED losses
               \/ /\ losses < Losses /\ losses' = losses + 1
                  /\ rx' = Append(rx, Broken)
  /\ UNCHANGED <<bufs, dma, resident, pending, confirmed, overlapped>>

Hardware == Fetch \/ Shift

\* What is on the wire stops in the middle.
Silence(kept) ==
  /\ dma' = [dma EXCEPT !.left = 0] /\ fifo' = <<>> /\ sm' = <<>>
  /\ rx' = IF ~ kept THEN <<>> ELSE IF sm = <<>> THEN rx ELSE Append(rx, Broken)

-----------------------------------------------------------------------------
(* The controller.                                                         *)

\* bmc_tx_controller_set_pad_variant: the resident state machine starts anew,
\* whatever it was sending, and the frame stays pending.
SetPadVariant ==
  /\ Silence(TRUE)
  /\ UNCHANGED <<bufs, irq, resident, pending, confirmed, overlapped, aired, losses>>

\* stop_all_hardware: both ports are de-initialised.
StopHardware ==
  /\ Silence(FALSE) /\ resident' = FALSE
  /\ UNCHANGED <<bufs, irq, pending, confirmed, overlapped, aired, losses>>

\* setup_bmc: controller_init, set_mode, prime and the receive port; the
\* statistics start anew.
SetupHardware ==
  /\ resident' = TRUE /\ pending' = "none"
  /\ confirmed' = {} /\ overlapped' = FALSE
  /\ UNCHANGED <<bufs, dma, fifo, sm, irq, aired, losses, rx>>

\* setup_uart: the controller stays as it was torn down.
SetupUart ==
  /\ confirmed' = {} /\ overlapped' = FALSE
  /\ UNCHANGED <<bufs, irq, resident, pending, wireVars>>

\* The UART sends a frame, which arrives whole or damaged.
UartSend(b) ==
  /\ confirmed' = confirmed \cup {bufs[b]} /\ aired' = aired \cup {bufs[b]}
  /\ \/ rx' = Append(rx, bufs[b]) /\ UNCHANGED losses
     \/ losses < Losses /\ losses' = losses + 1 /\ rx' = Append(rx, Broken)
  /\ UNCHANGED <<bufs, dma, fifo, sm, irq, resident, pending, overlapped>>

Encode(b, id) ==
  /\ bufs' = [bufs EXCEPT ![b] = id]
  /\ UNCHANGED <<dma, fifo, sm, irq, resident, pending, confirmed, overlapped, aired, losses, rx>>

\* Seeded bug: an old interrupt is taken for the new frame's.
StartClearNothing ==
  /\ overlapped' = (overlapped \/ pending # "none")
  /\ UNCHANGED <<bufs, irq, resident, pending, confirmed, wireVars>>

\* bmc_tx_start_packet_async, first part.
StartClear ==
  /\ irq' = FALSE
  /\ overlapped' = (overlapped \/ pending # "none")
  /\ UNCHANGED <<bufs, resident, pending, confirmed, wireVars>>

\* A channel that is still busy ignores the trigger, but reads on from the
\* new address.
Transfer(b) ==
  dma' = [buf |-> b, left |-> IF dma.left > 0 THEN dma.left ELSE FrameWords]

\* bmc_tx_start_packet_async, second part.
StartTrigger(b) ==
  /\ Transfer(b) /\ pending' = b
  /\ UNCHANGED <<bufs, fifo, sm, irq, resident, confirmed, overlapped, aired, losses, rx>>

\* bmc_tx_wait_packet_done: nothing to wait for, the interrupt, or the
\* timeout.  10 ms outlast any frame: they pass only when nothing moves.
WaitNothing == pending = "none" /\ UNCHANGED bmcTxVars

WaitDone ==
  /\ pending # "none" /\ irq
  /\ irq' = FALSE /\ pending' = "none"
  /\ confirmed' = confirmed \cup {bufs[pending]}
  /\ UNCHANGED <<bufs, resident, overlapped, wireVars>>

WaitTimeout ==
  /\ pending # "none" /\ ~ irq /\ ~ Moving
  /\ pending' = "none" /\ Silence(TRUE)
  /\ UNCHANGED <<bufs, irq, resident, confirmed, overlapped, aired, losses>>
=============================================================================
