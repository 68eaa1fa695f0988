# PicoPIO-IPPON: a verification of the firmware's protocols

TLA+ modules, TLC configurations and TLAPS proofs for the firmware in this
repository: two RP2350 boards (or one looped back) joined by a single wire on
which PIO state machines exchange frames, and an over-the-air update protocol
on top of it.  Paths below are relative to the root of the repository.

## 1. Inventory

| Part | State it keeps | Operations | Hard behaviour |
|---|---|---|---|
| OTA sender, `ota/ota_sender.c` | `ota_sender_t`: state, current window, credits, retries, retransmission bitmap, time of the last state change | `ota_sender_start`, `_handle_response`, `_step` | timeouts that race late answers, stale answers, READY in any state |
| OTA receiver, `ota/ota_receiver.c` | `ota_receiver_t`: state, two 64 KB slots, windows committed; the staging area of the flash | `_reset`, `_process_packet`, `_step_flash` | slots freed and reused, failing flash attempts, late packets |
| Link | frames on the wire and in core 1's DMA ring; response queue from core 1 to core 0 | send, receive | loss and damage on the wire; an SPSC queue without locks |
| OTA benchmark, `ota/main_ota_bench.c` | `s_core1_rx_enable`, rate, port, receiver, flash | menu, change of rate, session, guard check; core 1's worker with its flash attempts | core 0 resets what core 1 is using, and rebuilds the port it polls after a delay |
| BMC receive path, `bmc/bmc_driver.c`, `common/packet.c` | DMA ring, tail bit, lap count, last sequence number | `bmc_rx_poll_packet` | DMA writes while the CPU reads, resynchronisation, overruns |
| BMC transmit path, `bmc/bmc_driver.c` | resident state machine, pending frame | start, wait | time-out of the wait, reuse of a buffer on the wire |
| Ring cursor, UART driver, `common/ring_cursor.c`, `uart/uart_driver.c` | head, tail, totals | update, read, poll, blocking send | full laps are invisible |
| BMC benchmark, `main_benchmark.c` | handshake flags between the cores, exchange counters | `apply_mode`, exchange, burst | core 1 polls what core 0 re-initialises |
| Flash guard and flash benchmark, `flash/` | the flash, a work buffer | erase, program, verify; the items and commands of the menu | range and alignment arithmetic, failures and power losses between two operations |
| PIO programs, `bmc/bmc_p2p*.pio` | registers of a transmit and a receive program per rate | one instruction a cycle | delays that must match on both sides, late edges, a receiver switched on in a frame |
| CRC16, statistics, demonstrations | – | – | – |

**How they interact.**  Core 0 runs the sender: it encodes frames and sends
them through the transmit path.  A DMA channel writes what the PIO decodes into
a ring in core 1's care.  Core 1 polls a frame, gives it to the receiver, and
lets the receiver take one flash attempt.  Responses go back through a queue in
memory (`README.md:76`: the return path of a two-board system is not designed).
A flash operation locks core 0 out for its duration only; between the
operations of an attempt core 0 runs.

**What makes each part correct.**  *Sender*: it never sends without a credit,
it never claims success when the image is not staged, it ends.  *Receiver*: what
it flashes is verified data, in order, inside the staging area; a committed
window stays committed.  *Queue*: responses arrive once, whole, in order.
*Receive path*: intact frames are delivered once, in order; the loss of one is
counted.  *Core handshake*: core 1 does not poll a port that is being set up.
*Flash*: nothing but the staging area changes; nothing is programmed over what
is not erased; what is committed stays.  *Wire*: the bits sent are the bits
received, and the line ends High.

## 2. Plan

Order: what the system exists for first, then what it stands on.

| | Modules | Status |
|---|---|---|
| 1 | OTA transfer: `OtaLink`, `OtaSender`, `OtaReceiver`, `OtaTransfer`, the abstract `OtaPromise`, `OtaTransferProofs` | done |
| 2 | Response queue: `RespQueue`, `RespQueueProofs` | done |
| 3 | BMC receive path: `BmcRx`, `BmcRxProofs` | done |
| 4 | BMC transmit path and the benchmark with the handshake of its two cores, over BMC and UART: `BmcTx`, `Benchmark`, `BenchmarkProofs` | done |
| 5 | Ring cursor and UART: `RingCursor`, `UartRx`, `UartRxProofs` | done |
| 6 | Flash guard and flash benchmark: `FlashMap`, `FlashBench`, `FlashBenchProofs` | done |
| 7 | The OTA benchmark around the transfer, with the change of rate and every flash operation: `OtaBench`, `OtaBenchProofs` | done |
| 8 | The PIO programs: `BmcWire`, `BmcWireProofs` | done |
| 9 | The OTA transfer over the response queue of `RespQueue` | not as one model: `QueueFifo` proves of the queue what `OtaLink` assumes of it, and the two together have too many states |
| 10 | Proofs: the OTA transfer, response queue, benchmark, OTA benchmark and flash benchmark have every safety property of their runs proved | done |
| 11 | Proofs: every safety property of the UART receive path | done |
| 12 | Proofs: every safety property of the BMC receive path's run | done |
| 13 | Proofs: every safety property of the PIO programs, for words and frames of any length | done |

## 3. The modules and the code

**`OtaLink`** has the packets of `ota/ota_protocol.h` and the two links, both
FIFO: `fwd` is the wire with the DMA ring behind it, `rev` the response queue.
A chunk is the pair of its window and its number, a bitmap the set of missing
chunks, a CRC32 the identity of what it covers.

**`OtaSender`** is `ota/ota_sender.c`.  One call of `ota_sender_step` is two
steps, for core 1 may push a response after the loop that drains the queue has
found it empty: `Tx...` actions of the responses (`txPc = "drain"`), then one
of the state machine (`txPc = "switch"`).  `late` says that a flash operation
has run since `state_enter_us` was set, so that a timer may have run out.

**`OtaReceiver`** is `ota/ota_receiver.c`.  `Rx...` actions of the packets
alternate with `ota_receiver_step_flash` (`rxPc`), which is two steps, begin
and end: core 0 runs between the flash operations of an attempt.  `staged` is
the set of windows that the flash holds intact.

**`OtaTransfer`** composes them with the benchmark that starts sessions and
with an environment that drops, damages and repeats packets (a DATA's payload or a
START's magic), loses a response, fails a flash attempt, lets flash decay and aborts, each within `Budget`.
`StartSession` empties the queue in one step; what happens when it does not is
the subject of `RespQueueReset`.  This firmware's return path, a queue in memory, loses no response and sends
no abort; both ends have code for them, and a two-board system will need it.

**`OtaPromise`** is what the caller of a transfer may rely on: success is
reported only when every window is staged, and then nothing writes to the
staging area until the next session.  `OtaTransfer` implements it under the
mapping `Phase`, `txTotal`, `staged`.

**`RespQueue`** is `resp_queue_push` and `resp_queue_pop` of
`ota/main_ota_bench.c`, one action per load and store of `head`, `tail`, an
item's header and an item's payload.  `ResetSpec` adds the two stores of
`run_ota_benchmark` that empty it.

**`BmcRx`** is the way of a frame from `bmc_packet_encode` over the line, the
shift register, the DMA ring and its transfer counter to
`bmc_rx_poll_packet`, which is two steps: the counter is read, the frame is
copied out and searched.  A *cell* stands for a few bits; the sync word is two
cells, and LEN, SEQ, a payload byte and the CRC are one each.  A cell carries
the value that is read from it and, invisible to the code, the frame and place
it was sent from; the CRC matches exactly when the cells it covers are those of
one frame.  `Damage` changes a cell, `Slip` makes one vanish, which puts all
that follows out of phase with the words of the ring.

**`BmcTx`** is the transmit controller with the DMA channel, FIFO and state
machine it drives.  A DMA word is the identity of the encoding it was read from,
so that a frame put together from two encodings shows.

**`Benchmark`** is `main_benchmark.c` on top of `BmcTx`: core 0's loop with
mode change, burst, stop-and-wait exchange and single shot, and core 1's worker
with the flags `enabled` and `active` that they share.  A mode is one of four:
BMC or UART, stop-and-wait or burst.  The UART's send returns when the last bit
is out, so it is one step, `UartSend`; the BMC controller then stays torn down.  `stray` counts the polls
the worker begins after core 0 has seen it stop.

**`RingCursor`** is `common/ring_cursor.c`, as operators on a record;
**`UartRx`** is `uart_rx_poll_packet` on it, with the line, the DMA channel,
damage and missed bytes as in `BmcRx`.

**`FlashMap`** has the layout of `flash/flash_map.h`, the guard
`flash_bench_execute` that every erase and program of the firmware goes through
(`Permitted`), and what a NOR flash does: an erase blanks a page, programming
over anything but a blank page or the same data leaves a mixture, a power loss
leaves a torn page.  Offsets and sizes are bytes.  Two modules extend it.

**`FlashBench`** is `flash/main_flash_bench.c` and `flash/flash_bench.c`.  Every
item of the menu is a sequence of loops, a loop is a record (operation, unit,
turns, pattern), and one action does its next turn.  `buf` is the work buffer
that all loops share, by the seed of the pattern in it.

**`OtaBench`** is `ota/main_ota_bench.c`: core 0's menu, `configure_rate` with
its sleep, the guard check, and core 1's loop with the receiver's
`step_flash` down to the pages it erases, programs and reads back.  The protocol
is reduced to what moves the receiver: START, a complete window, FINALIZE, at
any time after a session was started; its detail is `OtaTransfer`'s.  Here the
sizes of images, windows, blocks and the staging area are bytes, and the last
window of an image may be short.

**`BmcWire`** is the pairs of programs `bmc_p2p.pio`, `_mid12`, `_mid10` and
`_fast`, one PIO cycle a step.  The four have the same instructions with
different delays and one more or less `nop`, so the module is parameterised by a
record of delays.  `age` and `late` are the line: how long ago the pin changed,
as the transmitter reads it back through the input synchronizer, and when the
receiver will see it.

An operator marked *Seeded bug* is the code with a plausible mistake in it.  Put
in the place of the definition that follows it, it makes the property it was
written for fail: that is how each property was seen to be able to fail.

## 4. What the runs check

| Run | Checks | Distinct states |
|---|---|---|
| `OtaLockstep` | one credit, as the firmware is configured; sizes that fit and one that does not; every fault but decay once: `VerifiedBeforeFlash`, `SenderWithinSlots`, `SessionEnds`, and `SessionSucceeds` unless the image is too large, a START's magic was damaged, a response was lost or someone aborted | 512,044 |
| `OtaHostile` | two sessions, two credits, three windows, loss, a damaged START, a failed attempt, decay, an abort: `TypeOK`, `OversizeNeverStaged`, `CreditsCoverSending`, `CommitsInOrder`, and `KeepsPromise`, the refinement of `OtaPromise` | 2,712,677 |
| `OtaPipelinedLoss` | *violation* of `SessionEnds`: finding 1 | |
| `RespQueue` | every interleaving, round the ring more than once: `TypeOK`, `Fifo`, `RefusedOnlyWhenFull` | 4,178 |
| `RespQueueReset` | *violation* of `Fifo`: finding 2 | |
| `BmcRx` | three frames through a ring that overruns and a counter that laps, a damaged and a missed cell anywhere: `TypeOK`, `CounterExact`, `NeverAhead`, `NothingIntactSkipped`, `NothingLeftBehind`, `DeliveredInOrder`, `DropsAccountForGaps` | 1,322,015 |
| `BmcRxWindow` | *violation* of `SkippedFindsNothing`: finding 3 | |
| `Benchmark` | both cores and the hardware, BMC and UART modes, two commands at any moment, one damaged frame: `TypeOK`, `StopLeaksOnePoll`, `WholeUnlessOverlapped`, `AnswerIsOwn`, `ReturnsToLoop` | 691,209 |
| `UartRx` | four frames through a ring that overruns, a damaged and a missed byte anywhere: `TypeOK`, `CursorInStep`, `NothingIntactSkipped`, `DeliveredInOrder`, `CountersTellTheTruth` | 542,484 |
| `FlashBench` | three commands in any order over any earlier contents, one failing operation, one power loss: `TypeOK`, `ProgramsOnErased`, `StrategiesVerify`, `OnlyTestRegionChanges` | 116,043 |
| `BmcWire` | the four rates, every data word, edges late within the margins, a stalled DMA, a receiver switched on anywhere: `TypeOK`, `DecodesWhatWasSent`, `FrameEndsClean` | 48,751 |
| `OtaBench` | three commands, two failures, one power loss, images that do not fill a page, a window or the staging area's last block: `TypeOK`, `CommitsWhatFits`, `PollsWholePort`, `StagingOnly` | 938,538 |

### Findings

1. **A pipelined session may never end** (`OtaPipelinedLoss`).  With two
   credits, a late DATA packet of the window just committed takes the slot that
   the commit freed (`ota/ota_receiver.c:104`) and every packet of the window
   that is due then conflicts with it.  Each retransmission resets the retries,
   so they never run out.  With one credit (`OtaLockstep`), which is what
   the firmware runs, every session ends.
2. **The reset of the response queue races a push** (`RespQueueReset`,
   `ota/main_ota_bench.c:404`): core 0 writes `head`, which is core 1's.  Items
   of the last session, or none, are then popped.
3. **A poll that would find a frame is skipped** (`BmcRxWindow`,
   `bmc/bmc_driver.c:368`).  The comment on the early return says that the input
   of the search is the same as last time, so its result must be.  But a search
   looks at 384 bytes and moves the tail past what it searched: with more
   than that unread, which takes two lost sync words of long frames and a late
   poll, the next one would find a whole frame.  It stays in the ring until any
   other word arrives.  On a line that loses nothing no frame is left so
   (`NothingLeftBehind`, proved).

What else the models showed, stated where it matters and without a run of its
own:

- *The worker may poll while the port is torn down* (`main_benchmark.c:200`): it
  tests `enabled` before it sets `active`, and core 0 may look in between.
  `StopLeaksOnePoll`, proved, says that it is one poll and no more.
- *A single shot in a burst mode sends mixed frames* (`main_benchmark.c:903`): it
  starts its frame over the pending one.  `WholeUnlessOverlapped` says that
  nothing else mixes frames.
- *Some images can never be transferred* (`ota/ota_receiver.c:297`).  A window is
  erased by whole 64 KB blocks and the staging area of 3060 KB is 47.8 of them,
  so an image of more than 47 blocks passes START and fails at its last window.
  A size that is no multiple of 256 bytes fails when its last page is
  programmed, for the guard wants whole pages.  The host tests' flash has
  neither restriction.  `CommitsWhatFits` says that every other window can only
  be given up because of a fault.
- A slot's `retries` is an 8-bit counter that late QUERYs can bring round after
  253 more failures; no session lives that long, and the models do not count so far.

### Bounds, and why they are enough

*OTA.*  A window's slot is its parity, so an image of three windows uses a slot
again.  A window has two chunks and the last one a single chunk: a burst takes several steps,
a bitmap can miss a part of a window, and the last window is short.  The
staging area has two windows in `OtaLockstep` and three in `OtaHostile`, and one
size in each is larger, so that it is refused.  With three retries (ten in the code) and each
fault at most once a session must succeed; with one retry, as in `OtaHostile`,
it may fail in every state.  Two sessions are what it takes for the packets and
flash attempts of one to meet the next.  `SenderWithinSlots` is checked with one
credit; with two it takes more failed attempts than these instances have to bring the sender to
the limit, and `WithinSlots` proves it for every number of credits and of failures.
In `OtaPipelinedLoss` four windows of one chunk are enough for the session that does not end.

*Response queue.*  Three places, one of them always free, and five pushes: the
indices wrap, the queue is full and empty at every index.

*BMC receive path.*  `Window` to the longest frame is as 384 bytes to 138 in
the code; `Ring` is smaller than what is sent, so that it overruns, and so is
`Reload` in words, so that the counter starts again.  `Slack` is one word: the
copy of at most 384 bytes takes a small part of the time in which 16 KB arrive.
One damaged and one missed cell, at any two places, with a payload that looks like a sync
word and a LEN, make every false sync there is: sequences of three frames with
`SeqMod = 2` let the sequence number wrap across a lost frame.

*Benchmark.*  A frame is three words and the FIFO holds one, so that a frame
is at once in the channel, the FIFO and on the wire; five frames fill both
burst buffers twice; two commands are a single shot or a pad change together
with a mode change.  `Hold` frames behind a damaged one can be hidden by the
LEN that is read from it.

*Flash benchmark.*  A block of four sectors and sectors of two pages, test region
of two blocks in a staging area of three and a quarter.  Item 3 programs three pages,
a sector and a half, so that the sector it needs beyond its bytes is erased or
missing.  Three commands are a torn or half-written flash,
the item that meets it and the read-back; one failure and one power loss, at any operation.

*OTA benchmark.*  The window is a block; the staging area ends in the middle of
one, as in the code (3060 KB).  Images of 11, 14 and 20 bytes: one that ends
in the middle of a page, one whose last window is partial and whose block passes
the end, one that fits.  Two failures are what exhausts `MaxRetries = 2`.  The
sleep is 3 ticks and a poll at most 2, for the code sleeps 5 ms and a poll
copies and searches 384 bytes; this is an assumption (`OtaBenchAssumption`), and
nothing in the code enforces it.

*Wire.*  Words of four bits and frames of four words, the postamble included, with
every data word: 0s both even and odd in number, a stall before every word.  `ReadBack = 4`: the input
synchronizer's two cycles and two for the pads; with five the fast program,
which flips the pin four cycles apart, fails.  `MinIdle = 20`: the processor
takes far more than that to start a frame; with four, a frame would begin
before the end of the last was read.  An edge is late by at most the margin that
the comments of each program state: 3, 2, 2 and 1 cycles at the four rates; with
one more, bits are misread.

*UART receive path.*  Four frames are longer than the ring, so that it
overruns; payload bytes and noise look like the LEN of a frame.

### Fairness

`OtaTransfer`: both cores run for ever, so the steps of the sender, the receiver
and the flash are weakly fair.  A timer is strongly fair, because a timeout that
is again and again due is noticed in some call of `ota_sender_step`; it is due
when a flash operation has outlasted it, or when nothing is under way that could
answer.  Sessions, which a key starts, and faults have no fairness.

`Benchmark`: core 1, core 0's reconfiguration, sending and receiving, and the
hardware are weakly fair, and a deadline that stays due passes.  A command is
never due to be typed, and the benchmark may be paused, so beginning a frame is
not fair either.

The other modules have only safety properties and need no fairness.

## 5. What is proved

All theorems hold for every value of the constants that the `ASSUME`s of the
modules allow: sizes of images, queue, ring and frames, credits, retries, and
the bounds themselves (sessions, faults, commands, pushes).

**`OtaTransferProofs`** – `TransferType`, `Credits` (`CreditsCoverSending`),
`Oversize` (`OversizeNeverStaged`), `Order` (`CommitsInOrder`).  None of
these is inductive.  The credits are decremented by every complete QUERY_RESP
without a look at them; that they stay above zero rests on the state in which
one can be taken, on where the sender gets into such a state – only from
START_ACK or READY – and on what those responses carry.  So the invariant `Inv`
has, besides the types, `SenderInv` (a window that is being sent is one of the
image and is paid for), `LinkInv` with `PaidResponse` (every accepted START_ACK
and every READY on its way brings a credit) and `ReceiverInv` (a flash attempt
aims at the next window to commit, inside the staging area, unless the receiver
has been reset since it began).  There is one lemma for each action.  `Oversize`
is about images larger than the staging area, which START refuses, and the
late answer to an earlier START may still let the sender go on with.  `BoundInv` adds what `Inv`
does not say: `rxTotal`, what READY and STATUS on their way say, and the
window the next READY will name, which comes from a slot that may have been
reset under the flash attempt, all stay below the end (`Fitting`).

The module goes on with `Verified` (`VerifiedBeforeFlash`), `WithinSlots`
(`SenderWithinSlots`), `Refinement` (`KeepsPromise`), and `FirstSession`.  These
depend on which session a packet, a response and a slot belong to.  Their
invariant `SessionInv` is about the order of what is in flight: `Live` says
whether the receiver will be in TRANSFER when it takes a packet, `WireInv` that a
START comes before everything sent after its answer, `SramInv` that a slot's
bitmap counts only chunks of its window, `BeginInv` that nothing of the transfer
has happened while a START is still to come, `CreditInv` that the sender is never
further ahead of the commits it has read, or is still to read, than its credits
allow, and `SuccessInv` that a reported success leaves a receiver that
writes nothing until the next START.

The first three are proved of *orderly* behaviours, `OrderlySessions`: when a
session has failed, the next one begins after its START is off the wire.
Without it `KeepsPromise` is false, and TLC shows how: a session whose START is
late is given up, the next session starts and succeeds, and the
START that was left then resets the receiver, which goes on to
flash.  It takes three aborts, a failed flash attempt and four sessions in
the smallest instance, one window of one chunk with one credit.
Nothing in the code excludes it; what excludes it in practice is that
core 1 empties its ring in milliseconds and the user presses a key for a
session.  After a success nothing is assumed, and neither is anything about the
DATA, QUERY and FINALIZE packets, the responses and the flash attempt that an earlier
session leaves behind.  `FirstSession` needs no assumption.

**`RespQueueProofs`** – `QueueType`, `QueueFifo`, `QueueRefusal`.  The invariant
says which pushed item each slot between `tail` and `head` holds, which stores
of a push are already made, and that what a half-way push or pop knows of the
other index may be old but only in the safe direction.  The place of an item is
a remainder, so the proof rests on a lemma that items fewer than `Size` apart
are in different slots.

**`BmcRxProofs`** – all that its run checks: `Counter` (`CounterExact`), `Ahead`
(`NeverAhead`), `BmcRxType` (`TypeOK`), `InOrder` (`DeliveredInOrder`), `Drops`
(`DropsAccountForGaps`), `NothingSkipped` (`NothingIntactSkipped`),
`NothingBehind` (`NothingLeftBehind`).
`CounterInv` relates the register to the words written since it was last read: it
has run down by that many and started again at most once, which needs fewer than
`Reload` words between two readings – the assumption that
`common/packet.c:425-428` states.  `ReadInv` bounds what is read by what was
counted, and needs that no outcome of the search advances beyond the cells it
was given (`ExtractBound`).

For the frames, `SentCells` says that no cell was shifted in before it was sent, and
`OrderInv` adds `Ordered`, `Passed` and `Looking` as in `UartRxProofs` below: cells
that the CRC accepts are of one frame, in one lap of the ring.  `CountInv` says
that the drops differ from the frames missing by whole rounds of the sequence number.
The hard one is `IntactInv`: a frame that has begun to arrive and is not gone
has been returned, or what has come of it lies unread in the ring, cell by cell
(`Unread`), and a postamble lies between it and the cells of every earlier frame
(`Followed`, `Clear`), so that the padding the port takes with a frame is never
its beginning.  A search may stop at a false sync word before it, but no outcome
moves the tail past its own: a bad LEN or CRC skips the false sync word alone, and
half a sync word at the end of what was searched is kept (`Searched`).

`LossInv` is about a line that loses nothing: every cell of a frame is in its
place and the others are blank (`Located`), frames follow each other by at most a
postamble and a lead-in (`Spaced`), what was returned was read to its end
(`ReadPast`), and after an exhausted search a frame that is not returned ends after all that
was counted (`Rested`).  As the postamble fills the last word, the counter moves
once more when that end arrives, and the poll is not skipped.

`InOrder`, `Drops`, `NothingSkipped` and `NothingBehind` assume
`Slack * Word < 2 + RawCells(1)`: while a poll copies, less arrives than the
shortest frame has from its sync word to its CRC.  In the code those are nine bytes, and the copy is of at most
384 bytes of memory, in which two words of 32 bits arrive at the fastest rate.
`NothingBehind` assumes of the sizes what those of the code satisfy:
`Word + Lead + 2 + TotalCells(MaxLen) <= Window` (the longest frame, its lead-in
and a word are in 384 bytes; it has 138) and `Window + Slack * Word <= Ring` (384
bytes in a ring of 16384).  The run's constants satisfy all of them.

**`BenchmarkProofs`** – `Leak` (`StopLeaksOnePoll`), `BenchmarkType` (`TypeOK`),
`Whole` (`WholeUnlessOverlapped`), `OwnAnswer` (`AnswerIsOwn`).  `Handshake`
relates the two flags, the place of core 1 and the count of polls it began after
it was stopped; `Leak` needs nothing else.  For the frames, `CourseInv` says where
core 0 is, what for, and that the buffer it writes next is never the pending
one; `EncodedInv` that what is sent has been encoded; `AirInv` that, unless frames were
overlapped, the channel, the FIFO and the state machine together hold the pending
frame and no other, or stand still, and that an interrupt is that frame's end.
`OwnAnswer` adds `RingInv`: in the modes that send one
frame at a time, each frame in the ring is as many sequence numbers behind as it
is places before the last.  Its hypothesis is `Hold <= SeqMod \div 2`, as
an old answer is told by the sign of an 8-bit difference.  The code has 256
numbers, and `Hold` is what a damaged LEN can hide: at most 136 bytes, which are
fewer than 128 frames (`common/packet.h:21`, `:33`).

**`UartRxProofs`** – all that its run checks: `Cursor` (`CursorInStep`),
`UartRxType` (`TypeOK`), `InOrder` (`DeliveredInOrder`), `Counters`
(`CountersTellTheTruth`), `NothingSkipped` (`NothingIntactSkipped`), for any
payloads, ring, damage and number of missed bytes.  The cursor knows the writer's
position only as a remainder; `Cursor` is about how the remainder, the totals
and the tail that an overrun recomputes stay the same place, when less than a
lap passes between two polls.

`InOrder` rests on `OrderInv`: the bytes in the ring lie in the order they were
sent (`Ordered`), nothing unread or still to come was sent before the first byte of
the frame returned last (`Passed`), and no more than a ring was unread when a poll
looked, with at most `Slack` bytes written since (`Looking`).  So bytes that decode to a frame
lie in one lap of the ring, none of them written over the others in the middle of
the poll (`DecodedLies`).  `Counters` adds `CountInv`:
the drops differ from the frames missing by whole rounds of the sequence number;
and `CleanInv`: on a line that damages and misses nothing, and with nothing overwritten
unread, the tail is always at the first byte of a frame
(`AtStart`), so that no LEN and no CRC fails.  `NothingSkipped` adds `IntactInv`: a frame
that has begun to arrive and is not gone has been returned, or what has come of it
lies in the ring unread (`Unread`), and it begins after all that the port takes
with an earlier frame, padding included (`Clear`).

These three assume `Slack < RawBytes(1)`: in the middle of a poll fewer bytes
arrive than the shortest frame has, of which the code has seven (LEN to CRC16,
`uart/uart_driver.c:161`).  A poll copies at most one frame of 136 bytes, from memory to
memory.
Without it TLC finds both `DeliveredInOrder` and `NothingIntactSkipped` violated:
the port compares what was there before the poll with what has come since.

**`OtaBenchProofs`** – `BenchType` (`TypeOK`), `RateSwitch` (`PollsWholePort`),
`Staging` (`StagingOnly`), `Flashed` (`CommitsWhatFits`).  `TypeOK` has in it that the window that is due fits
its slot, for which `LastWindow` shows that a window counted by the rounded-up
division has at least a byte left.  `Switch` is the invariant of the change of
rate: while core 0 sleeps, what is left of the sleep and what a poll has taken
of it make at least the whole, so a poll that is longest is over first; the
assumption is `PollTicks < SleepTicks`.  `Guarded` is what the guard gives: no
range it lets pass touches a page outside the staging area.

For `Flashed`, `DueInv` says that a slot that is not free, and the attempt on
it, is at the window that is due; `ProgressInv` that, unless a fault struck, what
an attempt has programmed is in the flash and what it is still to program is blank.
That no guard refuses a window that fits is arithmetic of alignment (`Aligned`,
`Finer`, `Quotient`), and that a committed window stays is that a later one's
block begins where it ends.

**`FlashBenchProofs`** – all that its run checks: `FlashBenchType` (`TypeOK`),
`TestRegionOnly` (`OnlyTestRegionChanges`), `OnErased` (`ProgramsOnErased`, of the
pages that are about to be programmed),
`Verifies` (`StrategiesVerify`).  The items are treated as data: `Item` says of a
sequence of loops that each stays in the test region in aligned units and that a loop
that programs comes right after one that erases at least as much; `Reads`, that a
read-back comes right after a loop that writes all of the image.  Sequences
with these properties joined have them (`ItemsJoin`, `ReadsJoin`), so the full suite
has them, whatever the numbers of units.  Then `PlaceInv` (where in an item),
`BlankInv` (what the loop has erased, or has still to program, is blank),
`ImageInv` (what a loop has written of the image is there, and the buffer
holds the sector it goes on with) and `ReadInv` (as many read-backs as loops that read
are over) are inductive one on the other.  Two facts of the layout are used:
units divide the test region, and `FlashMapAssumption`'s `FirmwareBytes # 0`
(`flash/flash_map.h:72` sets 1 MB).

**`BmcWireProofs`** – all that its run checks: `WireType` (`TypeOK`), `Decodes`
(`DecodesWhatWasSent`), `EndsClean` (`FrameEndsClean`), and `KeepsStep`, the
invariant they come from, for words of any number of bits and frames of any
number of words.  Of the four programs the proofs use what `Timing` says of
their delays, and nothing else of the instructions' lengths:

    lateness <= half                  two edges are further apart than late
    half + lateness + early <= sample the sample is after the middle edge
    sample + lateness <= 2*half + 2   and before the next

`ProgramTiming` shows that the delays in the four files satisfy it; `early` is 1
where no `nop` follows the first wait.  `EdgeInv` says that an edge is seen, and
read back, in time, by the cycles since it (`Since`).  `LevelInv` ties the level to
the data: it tells whether the 0s so far are even, which `bmc_packet_encode` makes them at
the end of the payload, and the postamble of 1s keeps.  `RxInv` has the receiver in one of three places: `Ready`, the next edge
is awaited and everything before is shifted in; `Looks`, the edge is there and not
yet seen; `Samples`, the bit is being sampled, and the cycles it has taken
(`Progress`) are behind the cycles since the bit's edge (`Position`) by the
lateness and no more.  That neither loses step with the other is an argument
about these distances.  `Restless` bounds how long a receiver that was switched on in the
middle of a frame goes on with what it took for a bit.

The theorems assume `ReadBack \in 1 .. 4` and `MinIdle >= 15`, where the run has
4 and 20.  The first is tight: the fast program flips the pin four cycles apart,
and TLC finds it wrong with 5.  The code relies on it – `mov pins, !pins` in all
four programs – and nothing checks it; the synchronizer takes two cycles.  The
second is what the slowest receiver takes to finish a bit; with 4, TLC finds a
frame misread.  Between two frames the processor takes an interrupt and
starts a DMA channel, which is far more.

**The invariants** of these proofs were first checked with TLC on the instances
of section 4, `SessionInv` with two and three sessions.

**Only model-checked.**  Liveness (`SessionEnds`, `SessionSucceeds`,
`ReturnsToLoop`) is out of the prover's reach, as ENABLED is.  Every other
property of a passing run is proved.  What a recursive definition computes for every input
could not be proved, as that is an induction over data; no module has one.

## 6. What the models leave out

*OTA.*  The bytes of an image, statistics and the choice of the line rate.  A
`tx_send_pkt` that returns false: the sender ignores it but at START, where the
benchmark gives the session up (`main_ota_bench.c:424-427`).  `bmc_tx_send_packet_blocking` fails only if a
frame of less than a millisecond has not left after 10 (`bmc_driver.c:196-229`),
that is, on broken hardware; a packet that is lost is in the model.  The other
reason for START to return false, a size of zero, is excluded by the constant
`OTA_BENCH_IMAGE_BYTES`.  Two different contents never have the same CRC32.  Core
0 and core 1 take turns at the granularity of a handled packet, a state of the
state machine, and the begin and end of a flash attempt.

*BMC receive path.*  TYPE and RESERVED, which the CRC covers and which change
nothing here.  A sync word cannot overlap itself in cells.  The search may look
at up to seven bits before the tail, those in the same byte; it does not here.
A damaged frame never has a matching CRC16.  The counter reads 1 to `Reload`,
never 0.  A LEN that is damaged may hide an intact last frame until more
arrives, which is why `NothingLeftBehind` is stated of a line that loses nothing.

*Benchmark.*  The flags are sequentially consistent.  The timeouts of 10 and 5 ms
outlast any frame, so they pass only when nothing moves.  A DMA channel that
is busy ignores a trigger but goes on from the new address.  Frames have one
size.  What a stray poll does to a port that is torn down is not modelled, only
that it may happen.  A set-up that fails: it would leave the old transport in
place with a controller that has no channel, but every channel has been released
before.  Statistics, and the keys that only print, pause or reset.  The signed byte by which a late answer is
told is half of `SeqMod`.

*UART receive path.*  Less than a lap of the ring between two polls.  The port
takes a frame's padding by its length, so after a missed byte it takes the first
byte of a later frame in the padding's place: a frame that begins there
(`Encroaching`) is counted as gone, as is the one that missed a byte.

*Flash benchmark and OTA benchmark.*  Times, reports, and the check that the binary
fits its part of the flash, which halts or does nothing.  A program that goes
wrong leaves torn pages, an erase that goes wrong nothing.  After a failed
attempt the receiver's slot may be made ready again by a late QUERY, as in the
code; everything else of the protocol is in `OtaTransfer`.  What a change of rate
does to frames that are still on the wire.

*Wire.*  Set-up of pins and FIFOs, the autopush, analogue levels; both boards run
from clocks of the same rate, whose phase is in `late`.

*Not modelled.*  CRC16, whose table is data and of which the models use only
that a damaged frame does not match; statistics and build information, which are
counters and strings; the loopback demonstrations, which call the drivers in
sequence and keep no state; the change of the baud rate of a running UART, which
nothing calls.

## 7. Running it

    tlc -workers 2 -config OtaLockstep.cfg MCOtaTransfer
    tlapm OtaTransferProofs.tla

A run's module is `MCOtaTransfer`, `MCRespQueue`, `MCBmcRx` or `MCUartRx` for
the configurations that begin with its component's name; `Benchmark`,
`FlashBench`, `BmcWire` and `OtaBench` are run as they are.
