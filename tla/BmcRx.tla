------------------------------- MODULE BmcRx -------------------------------
(***************************************************************************)
(* The BMC receive path: the frames a sender puts on the wire, the PIO and *)
(* the DMA channel that write them into a ring, and bmc_rx_poll_packet of  *)
(* bmc/bmc_driver.c with the sync search and frame extraction of           *)
(* common/packet.c, which take them out of it.                             *)
(*                                                                         *)
(* A cell stands for a few bits: the sync word is two cells, the LEN, the  *)
(* SEQ, each payload byte and the CRC16 are one cell each (TYPE and        *)
(* RESERVED are covered by the CRC and change nothing here), and a DMA     *)
(* word is Word cells.  A cell carries the value read from it and,         *)
(* which the code does not see, the frame and place it was sent from: the  *)
(* CRC16 matches exactly when the cells it covers are those of one frame.  *)
(* Payload and damage may look like a sync word or like a LEN.             *)
(*                                                                         *)
(* A poll is two steps, for the DMA writes on while the CPU works: the     *)
(* read of the transfer counter, and the copy out of the ring.             *)
(***************************************************************************)
EXTENDS Integers, Sequences

CONSTANTS
  Payloads,   \* the payload of each frame to send, in order
  MaxLen,     \* BMC_MAX_PAYLOAD_LEN
  Word,       \* cells in a DMA word, and in the postamble
  Lead,       \* cells in the preamble
  Ring,       \* BMC_RX_RING_BYTES, in cells
  Window,     \* the size of linear_buf, in cells
  Recover,    \* how far behind the head an overrun puts the tail, in cells
  Reload,     \* BMC_RX_DMA_RELOAD_WORDS
  SeqMod,     \* 256, the sequence numbers there are
  Noise,      \* what a damaged cell may be read as
  Slack,      \* bound: words the DMA writes in the middle of a poll
  Damages,    \* bound: cells that are damaged
  Slips       \* bound: cells the receiver does not see

SyncHi == -1
SyncLo == -2
Gap    == 0
Values == {SyncHi, SyncLo} \cup 0 .. MaxLen \cup 0 .. SeqMod - 1

ASSUME RxSizesAssumption ==
  /\ MaxLen \in Nat \ {0} /\ Payloads \in Seq(Seq(Values))
  /\ \A k \in DOMAIN Payloads : Len(Payloads[k]) \in 1 .. MaxLen
  /\ Word \in Nat \ {0} /\ Lead \in Nat /\ Ring \in Nat \ {0} /\ Ring % Word = 0
  /\ Window \in 1 .. Ring /\ Recover \in 1 .. Ring
  /\ Reload \in Nat \ {0, 1} /\ SeqMod \in Nat \ {0}
  /\ Noise \subseteq Values
  /\ Slack \in 0 .. Reload - 1 /\ Damages \in Nat /\ Slips \in Nat

VARIABLES
  frame, pos,       \* the frame on the wire and how many of its cells are sent
  damages, slips,   \* those that have happened
  isr,              \* cells in the PIO's input shift register
  ring,             \* rx_ring_buf
  written,          \* words the DMA has ever written
  count,            \* its transfer_count register
  seen,             \* words written when the counter was last read
  lap, lastCount,   \* rx->lap_count, rx->last_transfer_count
  total,            \* rx->total_words_written
  tail, read,       \* rx->tail_bit, rx->total_bits_read, in cells
  unread,           \* unread_bits, a local of the poll
  exhausted,        \* rx->last_extract_exhausted
  lastSeq,          \* rx->last_seq, -1 unless rx->has_received_first
  drops,            \* rx->stats.rx_seq_drops
  pc,               \* "idle": between polls, "extract": the counter is read
  delivered,        \* the frames returned, in order
  gone,             \* frames that were damaged, overwritten or skipped over
  ends              \* cells shifted in when the last cell of a frame was

wireVars == <<frame, pos, damages, slips, isr, ring, written, count, ends>>
portVars == <<seen, lap, lastCount, total, tail, read, unread, exhausted, lastSeq,
              drops, pc, delivered>>
vars     == <<wireVars, portVars, gone>>

Frames == DOMAIN Payloads
Places == 0 .. Ring - 1
Blank  == [v |-> Gap, of |-> 0, at |-> 0]
Cell   == [v : Values, of : Frames \cup {0}, at : Nat]

TypeOK ==
  /\ frame \in Frames \cup {0} /\ pos \in Nat
  /\ damages \in 0 .. Damages /\ slips \in 0 .. Slips
  /\ isr \in Seq(Cell) /\ Len(isr) < Word
  /\ ring \in [Places -> Cell]
  /\ written \in Nat /\ count \in 1 .. Reload
  /\ seen \in Nat /\ lap \in Nat /\ lastCount \in 1 .. Reload /\ total \in Nat
  /\ tail \in Places /\ read \in Nat /\ unread \in 0 .. Ring
  /\ exhausted \in BOOLEAN /\ lastSeq \in -1 .. SeqMod - 1 /\ drops \in Nat
  /\ pc \in {"idle", "extract"}
  /\ delivered \in Seq(Frames) /\ gone \subseteq Frames
  /\ ends \in [Frames -> Nat]

-----------------------------------------------------------------------------
(* Frames.                                                                 *)

\* bmc_packet_total_bytes: LEN, SEQ, payload, CRC and 1..Word cells of padding.
RawCells(len)   == 3 + len
TotalCells(len) == RawCells(len) + (Word - (RawCells(len) % Word))

SeqOf(k) == (k - 1) % SeqMod

FrameCells(k) == 2 + TotalCells(Len(Payloads[k]))
EndOf(k)      == Lead + FrameCells(k)

\* The first n cells that are sent for frame k: preamble, sync word, frame
\* and its padding, and Gap beyond.
Serialized(k, n) ==
  LET values == <<SyncHi, SyncLo, Len(Payloads[k]), SeqOf(k)>> \o Payloads[k]
  IN  [i \in 1 .. n |->
         IF i <= Lead \/ i > EndOf(k) THEN Blank
         ELSE [v  |-> IF i - Lead <= Len(values) THEN values[i - Lead] ELSE Gap,
               of |-> k, at |-> i - Lead]]

\* Seeded bug: no postamble follows the frame.
EncodedBare(k) == Serialized(k, EndOf(k))

\* bmc_packet_encode: a postamble of one word follows the frame.
Encoded(k) == Serialized(k, EndOf(k) + Word)

-----------------------------------------------------------------------------
(* bmc_rx_port_init_ex.                                                    *)

Init ==
  /\ frame = 0 /\ pos = 0 /\ damages = 0 /\ slips = 0
  /\ isr = <<>> /\ ring = [i \in Places |-> Blank]
  /\ written = 0 /\ count = Reload
  /\ seen = 0 /\ lap = 0 /\ lastCount = Reload /\ total = 0
  /\ tail = 0 /\ read = 0 /\ unread = 0 /\ exhausted = FALSE
  /\ lastSeq = -1 /\ drops = 0
  /\ pc = "idle" /\ delivered = <<>> /\ gone = {}
  /\ ends = [k \in Frames |-> 0]

-----------------------------------------------------------------------------
(* The wire, the PIO and the DMA channel.                                  *)

Sending == frame # 0 /\ pos < Len(Encoded(frame))
NextCell == Encoded(frame)[pos + 1]

StartFrame ==
  /\ ~ Sending /\ frame < Len(Payloads)
  /\ frame' = frame + 1 /\ pos' = 0
  /\ UNCHANGED <<damages, slips, isr, ring, written, count, ends, portVars, gone>>

\* Fewer than Reload words arrive from one read of the counter to the next,
\* and few between the read and the copy.
Paced ==
  written + 1 - seen <= IF pc = "extract" THEN Slack ELSE Reload - 1

\* The frames of which the DMA overwrites a cell, before it was read, with the
\* word that the next cell completes.
Overwritten ==
  LET oldest == written * Word - Ring
  IN  IF Len(isr) + 1 < Word THEN {}
      ELSE {ring[q % Ring].of : q \in {p \in oldest .. oldest + Word - 1 : p >= read}} \ {0}

\* A cell is shifted in; a full register is one DMA transfer.  The counter
\* runs from Reload down and starts again (TRIGGER_SELF).
ShiftIn(c) ==
  LET word == Append(isr, c)
      base == (written * Word) % Ring
  IN  IF Len(word) < Word
      THEN isr' = word /\ UNCHANGED <<ring, written, count>>
      ELSE /\ Paced
           /\ isr' = <<>>
           /\ ring' = [i \in Places |->
                         IF i \in base .. base + Word - 1 THEN word[i - base + 1]
                         ELSE ring[i]]
           /\ written' = written + 1
           /\ count' = IF count = 1 THEN Reload ELSE count - 1

\* The next cell of the frame arrives as it was sent.
Transmit ==
  /\ Sending
  /\ pos' = pos + 1
  /\ ShiftIn(NextCell)
  /\ gone' = gone \cup Overwritten
  /\ ends' = IF pos + 1 = EndOf(frame)
             THEN [ends EXCEPT ![frame] = written * Word + Len(isr) + 1]
             ELSE ends
  /\ UNCHANGED <<frame, damages, slips, portVars>>

\* The next cell is read as something else.
Damage ==
  /\ Sending /\ NextCell.of # 0
  /\ damages < Damages /\ damages' = damages + 1
  /\ pos' = pos + 1
  /\ \E v \in Noise \ {NextCell.v} : ShiftIn([Blank EXCEPT !.v = v])
  /\ gone' = gone \cup Overwritten \cup {frame}
  /\ UNCHANGED <<frame, slips, ends, portVars>>

\* The receiver misses a cell of the preamble or of the frame: all that
\* follows is out of phase with the words of the ring.
Slip ==
  /\ Sending /\ pos < EndOf(frame)
  /\ slips < Slips /\ slips' = slips + 1
  /\ pos' = pos + 1
  /\ gone' = gone \cup ({NextCell.of} \ {0})
  /\ UNCHANGED <<frame, damages, isr, ring, written, count, ends, portVars>>

-----------------------------------------------------------------------------
(* bmc_rx_poll_packet: the transfer counter.                               *)

\* bmc_rx_update_transfer_state and bmc_rx_calc_total_words.

\* Seeded bug: a counter that stands still is taken for a lap.
LapsAtEqual == IF count >= lastCount THEN lap + 1 ELSE lap

Laps == IF count > lastCount THEN lap + 1 ELSE lap
TotalWords == Laps * Reload + (Reload - count)

NothingNew == exhausted /\ count = lastCount

\* The frames with cells from a up to b, of those still in the ring.
FramesBetween(a, b) ==
  {ring[q % Ring].of : q \in {p \in a .. b - 1 : p >= written * Word - Ring}} \ {0}

\* Seeded bug: the tail is moved, the count of what was read is not.
OverrunUncounted(cells) ==
  /\ tail' = (cells - Recover) % Ring
  /\ read' = read
  /\ unread' = Recover
  /\ gone' = gone \cup FramesBetween(read, cells - Recover)

\* The cells not read yet fill the ring: go on shortly behind the head.
Overrun(cells) ==
  /\ tail' = (cells - Recover) % Ring
  /\ read' = cells - Recover
  /\ unread' = Recover
  /\ gone' = gone \cup FramesBetween(read, cells - Recover)

PollBegin ==
  /\ pc = "idle" /\ ~ NothingNew
  /\ pc' = "extract" /\ seen' = written
  /\ lap' = Laps /\ lastCount' = count /\ total' = TotalWords
  /\ LET cells == TotalWords * Word
     IN  \/ /\ cells - read >= Ring
            /\ Overrun(cells)
         \/ /\ cells - read < Ring
            /\ unread' = IF cells >= read THEN cells - read ELSE 0
            /\ UNCHANGED <<tail, read, gone>>
  /\ UNCHANGED <<wireVars, exhausted, lastSeq, drops, delivered>>

-----------------------------------------------------------------------------
(* bmc_rx_extract_frame_from_ring.                                         *)

\* The linear copy: what is unread, as far as the buffer holds it.
Avail(n) == IF n < Window THEN n ELSE Window
At(i) == ring[(tail + i) % Ring]

SyncsIn(n) == {i \in 0 .. n - 2 : At(i).v = SyncHi /\ At(i + 1).v = SyncLo}

\* bmc_packet_decode of what follows the sync word: the CRC16 matches the
\* cells of one frame, in their places, and no others.
DecodesTo(k, body, len) ==
  \A i \in 0 .. RawCells(len) - 1 : At(body + i).of = k /\ At(body + i).at = 3 + i

Outcome(status, adv, k) == [status |-> status, adv |-> adv, frame |-> k]

\* Seeded bug: the frame is taken before its padding is there.
WholeUnpadded(body, len, n) == body + RawCells(len) <= n

Whole(body, len, n) == body + TotalCells(len) <= n

AtSync(s, n) ==
  LET body == s + 2
      len  == At(body).v
      intact == {k \in Frames : DecodesTo(k, body, len)}
  IN  IF body + 1 > n THEN Outcome("INCOMPLETE", s, 0)
      ELSE IF len \notin 1 .. MaxLen THEN Outcome("INVALID_LEN", body, 0)
      ELSE IF ~ Whole(body, len, n) THEN Outcome("INCOMPLETE", s, 0)
      ELSE IF intact = {} THEN Outcome("CRC_MISMATCH", body, 0)
      ELSE Outcome("FRAME_OK", body + TotalCells(len), CHOOSE k \in intact : TRUE)

\* Seeded bug: the first half of a sync word at the end is skipped.
SearchedAll(avail) == avail

\* Without a sync word: all but what may be its beginning.
Searched(avail) == avail - 1

\* What the search of n unread cells comes to, and how far it advances.
Extract(n) ==
  LET avail == Avail(n)
      syncs == SyncsIn(avail)
  IN  IF n < 2 + TotalCells(1) THEN Outcome("INCOMPLETE", 0, 0)
      ELSE IF syncs = {} THEN Outcome("SYNC_NOT_FOUND", Searched(avail), 0)
      ELSE AtSync(CHOOSE s \in syncs : \A t \in syncs : s <= t, avail)

-----------------------------------------------------------------------------
(* The rest of bmc_rx_poll_packet: what was searched is consumed, a frame  *)
(* is returned, a jump of its sequence number is counted.                  *)

\* Seeded bug: the number is remembered, but a gap before it is not counted
\* when the number has come round to 0.
AcceptUncounted(k, seq) ==
  /\ delivered' = Append(delivered, k)
  /\ lastSeq' = seq
  /\ drops' = IF lastSeq = -1 \/ seq <= lastSeq THEN drops
              ELSE drops + ((seq - ((lastSeq + 1) % SeqMod)) % SeqMod)

Accept(k, seq) ==
  /\ delivered' = Append(delivered, k)
  /\ lastSeq' = seq
  /\ drops' = IF lastSeq = -1 THEN drops
              ELSE drops + ((seq - ((lastSeq + 1) % SeqMod)) % SeqMod)

\* Seeded bug: the tail runs past the end of the ring.
AdvanceUnmasked(adv) == tail' = tail + adv /\ read' = read + adv

Advance(adv) == tail' = (tail + adv) % Ring /\ read' = read + adv

PollEnd ==
  /\ pc = "extract" /\ pc' = "idle"
  /\ LET x == Extract(unread)
     IN  /\ Advance(x.adv)
         /\ exhausted' = (x.status \in {"SYNC_NOT_FOUND", "INCOMPLETE"})
         /\ \/ x.status = "FRAME_OK" /\ Accept(x.frame, SeqOf(x.frame))
            \/ x.status # "FRAME_OK" /\ UNCHANGED <<delivered, lastSeq, drops>>
  /\ unread' = 0
  /\ UNCHANGED <<wireVars, seen, lap, lastCount, total, gone>>

-----------------------------------------------------------------------------
Wire == StartFrame \/ Transmit \/ Damage \/ Slip
Poll == PollBegin \/ PollEnd
Next == Wire \/ Poll
Spec == Init /\ [][Next]_vars

-----------------------------------------------------------------------------
(* Properties.                                                             *)

\* The words counted from a register that runs down and starts again are all
\* the words the DMA had written when it was read.
CounterExact == total = seen

\* The port never takes a bit that was not received.
NeverAhead == read + unread <= written * Word

\* A frame that arrived whole, and was not overwritten before the port came to
\* it, is returned once the port has moved past its end: no false sync word, bad
\* LEN, bad CRC or search that ran into its first bits makes it lose the frame.
NothingIntactSkipped ==
  \A k \in Frames : ends[k] > 0 /\ ends[k] <= read /\ k \notin gone
                      => \E i \in DOMAIN delivered : delivered[i] = k

\* When everything is sent and further polls would be skipped, every frame has
\* been returned, the last one too: its postamble has pushed it out of the shift
\* register.  That is so on a line that loses nothing; otherwise a false LEN may
\* promise more than will ever come, and hide the frames behind it.
NothingLeftBehind ==
  ~ Sending /\ frame = Len(Payloads) /\ pc = "idle" /\ NothingNew /\ gone = {}
    => \A k \in Frames : ends[k] > 0 => \E i \in DOMAIN delivered : delivered[i] = k

\* A poll that is skipped would have returned nothing, as the input of the search
\* is the same: so says the comment on the early return (bmc_driver.c:362-368).
SkippedFindsNothing ==
  pc = "idle" /\ NothingNew => Extract(total * Word - read).status # "FRAME_OK"

\* Frames are returned in the order they were sent, and none twice, whatever
\* overruns the port recovered from.
DeliveredInOrder ==
  \A i, j \in DOMAIN delivered : i < j => delivered[i] < delivered[j]

\* rx_seq_drops is the number of frames missing among those returned, but for
\* whole rounds of the sequence number.
DropsAccountForGaps ==
  IF delivered = <<>> THEN drops = 0
  ELSE LET missing == delivered[Len(delivered)] - delivered[1] + 1 - Len(delivered)
       IN  drops <= missing /\ (missing - drops) % SeqMod = 0
=============================================================================
