------------------------------- MODULE UartRx -------------------------------
(***************************************************************************)
(* The UART receive path: the frames the sender puts on the line, the DMA  *)
(* channel that writes their bytes into rx_ring_buf, and                   *)
(* uart_rx_poll_packet of uart/uart_driver.c, which takes them out with    *)
(* the cursor of RingCursor.  No sync word marks a frame: after a bad LEN  *)
(* or a bad CRC the search goes on one byte further, at the next poll.     *)
(*                                                                         *)
(* The LEN, the SEQ, each payload byte and the CRC16 are one cell each.  A *)
(* cell carries the value read from it and, which the code does not see,   *)
(* the frame and place it was sent from.  A poll is two steps: the read of *)
(* the DMA's write address, and all it then reads from the ring.           *)
(***************************************************************************)
EXTENDS RingCursor, Sequences

CONSTANTS
  Payloads,   \* the payload of each frame to send, in order
  MaxLen,     \* BMC_MAX_PAYLOAD_LEN
  Pad,        \* the padding of a frame is 1..Pad cells
  SeqMod,     \* 256, the sequence numbers there are
  Slack,      \* bound: bytes the DMA writes in the middle of a poll
  Damages,    \* bound: bytes that are damaged
  Slips,      \* bound: bytes the receiver does not see
  Noise       \* what a damaged byte may be read as

Values == 0 .. MaxLen \cup 0 .. SeqMod - 1

ASSUME UartSizesAssumption ==
  /\ MaxLen \in Nat \ {0} /\ Payloads \in Seq(Seq(Values))
  /\ \A k \in DOMAIN Payloads : Len(Payloads[k]) \in 1 .. MaxLen
  /\ Pad \in Nat \ {0} /\ SeqMod \in Nat \ {0}
  /\ Slack \in 0 .. Capacity - 1 /\ Damages \in Nat /\ Slips \in Nat
  /\ Noise \subseteq Values

VARIABLES
  frame, pos,       \* the frame on the line and how many of its cells are sent
  damages, slips,   \* those that have happened
  ring,             \* drv->rx_ring_buf
  written,          \* bytes the DMA has ever written
  seen,             \* bytes written when the write address was last read
  rc,               \* drv->ring
  lastSeq,          \* drv->last_seq, -1 unless drv->has_received_first
  drops,            \* drv->stats.rx_seq_drops
  errors,           \* rx_len_errors or rx_crc_errors is not 0
  pc,               \* "idle": between polls, "extract": the address is read
  delivered,        \* the frames returned, in order
  gone,             \* frames that were damaged, overwritten or jumped over
  ends              \* bytes written when the last byte of a frame was

lineVars == <<frame, pos, damages, slips, ring, written, ends>>
portVars == <<seen, rc, lastSeq, drops, errors, pc, delivered>>
vars     == <<lineVars, portVars, gone>>

Frames == DOMAIN Payloads
Places == 0 .. Capacity - 1
Blank  == [v |-> 0, of |-> 0, at |-> 0]
Cell   == [v : Values, of : Frames \cup {0}, at : Nat]

TypeOK ==
  /\ frame \in Frames \cup {0} /\ pos \in Nat
  /\ damages \in 0 .. Damages /\ slips \in 0 .. Slips
  /\ ring \in [Places -> Cell] /\ written \in Nat /\ seen \in Nat
  /\ rc \in Cursors
  /\ lastSeq \in -1 .. SeqMod - 1 /\ drops \in Nat /\ errors \in BOOLEAN
  /\ pc \in {"idle", "extract"}
  /\ delivered \in Seq(Frames) /\ gone \subseteq Frames
  /\ ends \in [Frames -> Nat]

\* uart_driver_init.
Init ==
  /\ frame = 0 /\ pos = 0 /\ damages = 0 /\ slips = 0
  /\ ring = [i \in Places |-> Blank] /\ written = 0
  /\ seen = 0 /\ rc = ResetCursor
  /\ lastSeq = -1 /\ drops = 0 /\ errors = FALSE
  /\ pc = "idle" /\ delivered = <<>> /\ gone = {}
  /\ ends = [k \in Frames |-> 0]

-----------------------------------------------------------------------------
(* The line and the DMA channel.                                           *)

RawBytes(len)   == 3 + len
TotalBytes(len) == RawBytes(len) + (Pad - (RawBytes(len) % Pad))
SeqOf(k)        == (k - 1) % SeqMod

\* Seeded bug: the padding is not sent.
SentUnpadded(k) == RawBytes(Len(Payloads[k]))

\* uart_transport_send: the frame after the sync word, padding included.
Sent(k) == TotalBytes(Len(Payloads[k]))

Sending == frame # 0 /\ pos < Sent(frame)

NextCell ==
  LET values == <<Len(Payloads[frame]), SeqOf(frame)>> \o Payloads[frame]
  IN  [v |-> IF pos < Len(values) THEN values[pos + 1] ELSE 0,
       of |-> frame, at |-> pos + 1]

StartFrame ==
  /\ ~ Sending /\ frame < Len(Payloads)
  /\ frame' = frame + 1 /\ pos' = 0
  /\ UNCHANGED <<damages, slips, ring, written, ends, portVars, gone>>

\* Less than a lap of the ring is written from one poll to the next, and few
\* bytes between a poll's look at the address and its look at the ring.
Paced ==
  written + 1 - seen <= IF pc = "extract" THEN Slack ELSE Capacity - 1

\* The frame whose byte the DMA overwrites next, if it was not read.
Overwritten ==
  IF written - Capacity >= rc.total_read THEN {ring[written % Capacity].of} \ {0} ELSE {}

Write(c) ==
  /\ Paced
  /\ ring' = [ring EXCEPT ![written % Capacity] = c]
  /\ written' = written + 1 /\ pos' = pos + 1

\* The frame begins where the port looks for padding of an earlier one, some of
\* which was missed: it takes the first bytes for that.
Encroaching ==
  \E q \in 1 .. Pad :
    LET last == ring[(written - q) % Capacity]
    IN  /\ q <= written /\ last.of # 0
        /\ last.at = RawBytes(Len(Payloads[last.of])) /\ q <= Sent(last.of) - last.at

Transmit ==
  /\ Sending /\ Write(NextCell)
  /\ gone' = gone \cup Overwritten \cup (IF pos = 0 /\ Encroaching THEN {frame} ELSE {})
  /\ ends' = IF pos + 1 = Sent(frame) THEN [ends EXCEPT ![frame] = written + 1] ELSE ends
  /\ UNCHANGED <<frame, damages, slips, portVars>>

Damage ==
  /\ Sending /\ damages < Damages /\ damages' = damages + 1
  /\ \E v \in Noise \ {NextCell.v} : Write([Blank EXCEPT !.v = v])
  /\ gone' = gone \cup Overwritten \cup {frame}
  /\ UNCHANGED <<frame, slips, ends, portVars>>

\* A byte is missed.
Slip ==
  /\ Sending /\ slips < Slips /\ slips' = slips + 1
  /\ pos' = pos + 1 /\ gone' = gone \cup {frame}
  /\ UNCHANGED <<frame, damages, ring, written, ends, portVars>>

-----------------------------------------------------------------------------
(* uart_rx_poll_packet.                                                    *)

\* The frames with bytes from a up to b, of those still in the ring.
FramesBetween(a, b) ==
  {ring[q % Capacity].of : q \in {p \in a .. b - 1 : p >= written - Capacity}} \ {0}

PollBegin ==
  /\ pc = "idle" /\ pc' = "extract" /\ seen' = written
  /\ rc' = UpdateHead(rc, written % Capacity)
  /\ gone' = gone \cup (IF rc'.overrun_count = rc.overrun_count THEN {}
                        ELSE FramesBetween(rc.total_read, rc'.total_read))
  /\ UNCHANGED <<lineVars, lastSeq, drops, errors, delivered>>

Byte(i)    == ring[(rc.tail + i) % Capacity]
LengthByte == Byte(0).v
GoodLength == LengthByte \in 1 .. MaxLen

\* ring_cursor_peek and bmc_packet_decode: the CRC16 matches the bytes of
\* one frame, in their places, and no others.
DecodesTo(k) ==
  \A i \in 0 .. RawBytes(LengthByte) - 1 : Byte(i).of = k /\ Byte(i).at = i + 1

\* Less than the shortest frame, or than this one.
TooShort ==
  /\ Available(rc) < RawBytes(1) \/ (GoodLength /\ Available(rc) < TotalBytes(LengthByte))
  /\ UNCHANGED <<rc, lastSeq, drops, errors, delivered>>

\* Seeded bug: a bad frame is passed over as a whole.
JunkWhole ==
  /\ Available(rc) >= RawBytes(1)
  /\ GoodLength => /\ Available(rc) >= TotalBytes(LengthByte)
                   /\ \A k \in Frames : ~ DecodesTo(k)
  /\ errors' = TRUE
  /\ rc' = Advanced(rc, IF GoodLength THEN TotalBytes(LengthByte) ELSE 1)
  /\ UNCHANGED <<lastSeq, drops, delivered>>

\* A bad LEN or a bad CRC.
Junk ==
  /\ Available(rc) >= RawBytes(1)
  /\ GoodLength => /\ Available(rc) >= TotalBytes(LengthByte)
                   /\ \A k \in Frames : ~ DecodesTo(k)
  /\ errors' = TRUE
  /\ rc' = Advanced(rc, 1)
  /\ UNCHANGED <<lastSeq, drops, delivered>>

\* Seeded bug: the frames missing before this one are counted from its own
\* number.
MissingFromLast(seq) == (seq - lastSeq) % SeqMod

\* The jump of the sequence number.
Missing(seq) == (seq - ((lastSeq + 1) % SeqMod)) % SeqMod

\* Seeded bug: a frame is returned and left in the ring.
PacketKept ==
  /\ Available(rc) >= RawBytes(1) /\ GoodLength
  /\ Available(rc) >= TotalBytes(LengthByte)
  /\ \E k \in Frames :
       /\ DecodesTo(k)
       /\ delivered' = Append(delivered, k)
       /\ lastSeq' = SeqOf(k)
       /\ drops' = IF lastSeq = -1 THEN drops ELSE drops + Missing(SeqOf(k))
  /\ UNCHANGED <<rc, errors>>

Packet ==
  /\ Available(rc) >= RawBytes(1) /\ GoodLength
  /\ Available(rc) >= TotalBytes(LengthByte)
  /\ \E k \in Frames :
       /\ DecodesTo(k)
       /\ delivered' = Append(delivered, k)
       /\ lastSeq' = SeqOf(k)
       /\ drops' = IF lastSeq = -1 THEN drops ELSE drops + Missing(SeqOf(k))
  /\ rc' = Advanced(rc, TotalBytes(LengthByte))
  /\ UNCHANGED errors

PollEnd ==
  /\ pc = "extract" /\ pc' = "idle"
  /\ TooShort \/ Junk \/ Packet
  /\ UNCHANGED <<lineVars, seen, gone>>

-----------------------------------------------------------------------------
Line == StartFrame \/ Transmit \/ Damage \/ Slip
Poll == PollBegin \/ PollEnd
Next == Line \/ Poll
Spec == Init /\ [][Next]_vars

-----------------------------------------------------------------------------
(* Properties.                                                             *)

\* The cursor's count is the DMA's, and its place in the ring is that of the
\* bytes read, although an overrun sets the two apart from each other.
CursorInStep ==
  /\ rc.total_written = seen
  /\ rc.tail = rc.total_read % Capacity
  /\ rc.total_read <= rc.total_written

\* A frame that arrived whole, and was not overwritten before the port came to
\* it, is returned once the port has moved past its end: no bad LEN, bad CRC or
\* false LEN before it makes the port jump over it.
NothingIntactSkipped ==
  \A k \in Frames : ends[k] > 0 /\ ends[k] <= rc.total_read /\ k \notin gone
                      => \E i \in DOMAIN delivered : delivered[i] = k

\* Frames are returned in the order they were sent, and none twice, whatever
\* overruns the cursor recovered from.
DeliveredInOrder ==
  \A i, j \in DOMAIN delivered : i < j => delivered[i] < delivered[j]

\* rx_seq_drops is the number of frames missing among those returned, but for
\* whole rounds of the sequence number; and on a line that damages nothing, as
\* long as the DMA overtakes no unread frame, no error is counted: every LEN a
\* poll looks at is the LEN of a frame.
CountersTellTheTruth ==
  /\ IF delivered = <<>> THEN drops = 0
     ELSE LET missing == delivered[Len(delivered)] - delivered[1] + 1 - Len(delivered)
          IN  drops <= missing /\ (missing - drops) % SeqMod = 0
  /\ errors => damages > 0 \/ slips > 0 \/ gone # {}
=============================================================================
