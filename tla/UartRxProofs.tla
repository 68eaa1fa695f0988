---------------------------- MODULE UartRxProofs ----------------------------
(***************************************************************************)
(* The UART receive path, for every capacity of the ring, every sequence   *)
(* of frames and every damage on the line: its cursor keeps step with the  *)
(* DMA channel, of which it knows only a remainder; it returns the frames  *)
(* in order, none twice, and all that arrived whole and were not           *)
(* overwritten; and its counters say what happened.  From the order of the *)
(* frames on, the theorems assume that fewer bytes than the shortest frame *)
(* has arrive in the middle of a poll (Slack < RawBytes(1)).               *)
(***************************************************************************)
EXTENDS UartRx, SequenceTheorems, TLAPS

\* A number is its quotient times the capacity plus its place in the ring.
LEMMA Division ==
  ASSUME NEW n \in Nat
  PROVE  /\ n = Capacity * (n \div Capacity) + (n % Capacity)
         /\ n \div Capacity \in Nat /\ n % Capacity \in Places
BY CapacityAssumption DEF Places

\* Quotient and remainder are unique.
LEMMA DivisionUnique ==
  ASSUME NEW q \in Int, NEW p \in Int, NEW r \in Places, NEW u \in Places,
         Capacity * q + r = Capacity * p + u
  PROVE  q = p /\ r = u
<1>1. Capacity * (q - p) = u - r
  BY CapacityAssumption DEF Places
<1>2. ~ (q - p >= 1)
  <2>1. q - p >= 1 => Capacity * (q - p) >= Capacity
    BY CapacityAssumption
  <2> QED
    BY <1>1, <2>1, CapacityAssumption DEF Places
<1>3. ~ (p - q >= 1)
  <2>1. p - q >= 1 => Capacity * (p - q) >= Capacity
    BY CapacityAssumption
  <2>2. Capacity * (p - q) = r - u
    BY CapacityAssumption DEF Places
  <2> QED
    BY <2>1, <2>2, CapacityAssumption DEF Places
<1> QED
  BY <1>1, <1>2, <1>3, CapacityAssumption DEF Places

\* What is a multiple of the capacity plus a place is at that place.
LEMMA PlaceOf ==
  ASSUME NEW n \in Nat, NEW q \in Int, NEW r \in Places, n = Capacity * q + r
  PROVE  n % Capacity = r
<1>1. /\ n = Capacity * (n \div Capacity) + (n % Capacity)
      /\ n \div Capacity \in Int /\ n % Capacity \in Places
  BY Division
<1>2. Capacity * (n \div Capacity) + (n % Capacity) = Capacity * q + r
  BY <1>1
<1> HIDE DEF Places
<1> QED
  BY <1>1, <1>2, DivisionUnique

-----------------------------------------------------------------------------

\* The cursor is where the DMA was when the port last looked.
InStep(c, w) ==
  /\ c \in Cursors
  /\ c.total_written = w /\ c.last_head = w % Capacity
  /\ c.tail = c.total_read % Capacity
  /\ c.total_read <= c.total_written

\* Less than a lap of the ring shows in the two places alone
\* (ring_cursor_update_head).
LEMMA MovedIsExact ==
  ASSUME NEW a \in Nat, NEW b \in Nat, a <= b, b - a <= Capacity - 1,
         NEW c \in Cursors, c.last_head = a % Capacity
  PROVE  Moved(c, b % Capacity) = b - a
<1> DEFINE h == b % Capacity
           l == a % Capacity
           k == b \div Capacity - a \div Capacity
<1>1. /\ a = Capacity * (a \div Capacity) + l /\ a \div Capacity \in Nat
      /\ b = Capacity * (b \div Capacity) + h /\ b \div Capacity \in Nat
      /\ l \in Places /\ h \in Places
  BY Division
<1>2. k \in Int /\ Capacity * k + (h - l) = Capacity * 0 + (b - a)
  BY <1>1, CapacityAssumption DEF Places
<1>3. b - a \in Places
  BY CapacityAssumption DEF Places
<1> HIDE DEF h, l, k
<1>4. CASE h >= l
  <2>1. h - l \in Places
    BY <1>1, <1>4, CapacityAssumption DEF Places
  <2>2. h - l = b - a
    BY <1>2, <1>3, <2>1, DivisionUnique
  <2> QED
    BY <1>4, <2>2 DEF Moved, h, l
<1>5. CASE h < l
  <2>1. Capacity - l + h \in Places
    BY <1>1, <1>5, CapacityAssumption DEF Places
  <2>2. Capacity * (k - 1) + (Capacity - l + h) = Capacity * 0 + (b - a) /\ k - 1 \in Int
    BY <1>1, <1>2, CapacityAssumption DEF Places
  <2>3. Capacity - l + h = b - a
    BY <1>3, <2>1, <2>2, DivisionUnique
  <2>4. ~ (h >= l)
    BY <1>1, <1>5 DEF Places
  <2> QED
    BY <2>3, <2>4 DEF Moved, h, l
<1> QED
  BY <1>1, <1>4, <1>5 DEF Places

\* The margin behind the head that an overrun leaves fits the ring.
LEMMA MarginFits == SafeMargin \in 1 .. Capacity
<1>1. Capacity = 4 * (Capacity \div 4) + (Capacity % 4)
      /\ Capacity \div 4 \in Nat /\ Capacity % 4 \in 0 .. 3
  BY CapacityAssumption
<1> QED
  BY <1>1, CapacityAssumption DEF SafeMargin

\* An overrun puts the tail at the place of the bytes counted as read, although
\* the code computes the two from different numbers.
LEMMA RecoverInStep ==
  ASSUME NEW w \in Nat, NEW c \in Cursors, c.total_written = w, c.last_head = w % Capacity,
         w > Capacity
  PROVE  InStep(Recover(c), w)
<1> DEFINE m == SafeMargin
           h == w % Capacity
           t == IF c.last_head >= m THEN c.last_head - m ELSE Capacity + c.last_head - m
<1>1. m \in 1 .. Capacity
  BY MarginFits
<1>2. w = Capacity * (w \div Capacity) + h /\ w \div Capacity \in Nat /\ h \in Places
  BY Division
<1>3. w - m \in Nat
  BY <1>1, CapacityAssumption
<1>4. t \in Places /\ (w - m) % Capacity = t
  <2> HIDE DEF m, h
  <2>1. CASE h >= m
    <3>1. h - m \in Places /\ w - m = Capacity * (w \div Capacity) + (h - m)
      BY <1>1, <1>2, <2>1, CapacityAssumption DEF Places
    <3>2. (w - m) % Capacity = h - m
      BY <1>2, <1>3, <3>1, PlaceOf
    <3> QED
      BY <2>1, <3>1, <3>2 DEF h
  <2>2. CASE ~ (h >= m)
    <3>1. Capacity + h - m \in Places
      BY <1>1, <1>2, <2>2, CapacityAssumption DEF Places
    <3>2. w \div Capacity - 1 \in Int
          /\ w - m = Capacity * (w \div Capacity - 1) + (Capacity + h - m)
      BY <1>1, <1>2, CapacityAssumption DEF Places
    <3>3. (w - m) % Capacity = Capacity + h - m
      BY <1>3, <3>1, <3>2, PlaceOf
    <3> QED
      BY <2>2, <3>1, <3>3 DEF h
  <2> QED
    BY <2>1, <2>2
<1>5. Recover(c) = [c EXCEPT !.overrun_count = @ + 1, !.tail = t, !.total_read = w - m]
  BY DEF Recover
<1> HIDE DEF t, m
<1>6. /\ Recover(c) \in Cursors
      /\ Recover(c).total_written = w /\ Recover(c).last_head = w % Capacity
      /\ Recover(c).tail = t /\ Recover(c).total_read = w - m
  <2>1. c.overrun_count + 1 \in Nat
    BY DEF Cursors
  <2> HIDE DEF h
  <2> QED
    BY <1>3, <1>4, <1>5, <2>1 DEF Cursors, Places
<1> QED
  BY <1>1, <1>4, <1>6 DEF InStep

\* ring_cursor_update_head keeps the cursor in step.
LEMMA UpdateInStep ==
  ASSUME NEW a \in Nat, NEW b \in Nat, a <= b, b - a <= Capacity - 1,
         NEW c, InStep(c, a)
  PROVE  InStep(UpdateHead(c, b % Capacity), b)
<1> DEFINE d == [c EXCEPT !.last_head = b % Capacity, !.total_written = b]
<1>1. c \in Cursors /\ c.total_written = a /\ c.last_head = a % Capacity
      /\ c.tail = c.total_read % Capacity /\ c.total_read <= a
  BY DEF InStep
<1>2. Moved(c, b % Capacity) = b - a
  BY <1>1, MovedIsExact
<1>3. b % Capacity \in Places
  BY Division
<1>4. /\ d \in Cursors /\ d.total_written = b /\ d.last_head = b % Capacity
      /\ d.tail = c.tail /\ d.total_read = c.total_read
  BY <1>1, <1>3 DEF Cursors, Places
<1>5. [c EXCEPT !.last_head = b % Capacity,
                !.total_written = @ + Moved(c, b % Capacity)] = d
  <2>1. c.total_written + Moved(c, b % Capacity) = b
    BY <1>1, <1>2
  <2> QED
    BY <2>1, Zenon
<1> HIDE DEF d
<1>6. UpdateHead(c, b % Capacity) = IF Behind(d) > Capacity THEN Recover(d) ELSE d
  BY <1>5 DEF UpdateHead
<1>7. c.total_read \in Nat
  BY <1>1 DEF Cursors
<1>8. CASE Behind(d) > Capacity
  <2>1. b > Capacity
    BY <1>1, <1>4, <1>7, <1>8, CapacityAssumption DEF Behind
  <2> QED
    BY <1>4, <1>6, <1>8, <2>1, RecoverInStep
<1>9. CASE ~ (Behind(d) > Capacity)
  <2>1. c.total_read <= b
    BY <1>1, <1>7
  <2> QED
    BY <1>1, <1>4, <1>6, <1>9, <2>1 DEF InStep
<1> QED
  BY <1>8, <1>9

\* ring_cursor_advance keeps the cursor in step, and within what was written.
LEMMA AdvanceInStep ==
  ASSUME NEW w \in Nat, NEW c, InStep(c, w), NEW n \in Nat
  PROVE  InStep(Advanced(c, n), w)
<1> DEFINE s == IF n > Available(c) THEN Available(c) ELSE n
           r == c.total_read
<1>1. c \in Cursors /\ c.total_written = w /\ c.last_head = w % Capacity
      /\ c.tail = r % Capacity /\ r <= w /\ r \in Nat
  BY DEF InStep, Cursors
<1>2. s \in Nat /\ r + s <= w
  BY <1>1, CapacityAssumption DEF Available, Behind
<1> HIDE DEF s
<1> DEFINE t == (c.tail + s) % Capacity
<1>3. t \in Places /\ (r + s) % Capacity = t
  <2>1. r = Capacity * (r \div Capacity) + c.tail /\ r \div Capacity \in Nat /\ c.tail \in Nat
    BY <1>1, Division DEF Places
  <2>2. /\ c.tail + s = Capacity * ((c.tail + s) \div Capacity) + t
        /\ (c.tail + s) \div Capacity \in Nat /\ t \in Places
    BY <1>2, <2>1, Division
  <2> HIDE DEF t
  <2>3. r + s = Capacity * (r \div Capacity + (c.tail + s) \div Capacity) + t
        /\ r \div Capacity + (c.tail + s) \div Capacity \in Int
    BY <1>1, <1>2, <2>1, <2>2, CapacityAssumption DEF Places
  <2>4. r + s \in Nat
    BY <1>1, <1>2
  <2> QED
    BY <2>2, <2>3, <2>4, PlaceOf
<1>4. Advanced(c, n) = [c EXCEPT !.tail = t, !.total_read = r + s]
  BY <1>1 DEF Advanced, s
<1> HIDE DEF t
<1>5. /\ Advanced(c, n) \in Cursors
      /\ Advanced(c, n).total_written = w /\ Advanced(c, n).last_head = w % Capacity
      /\ Advanced(c, n).tail = t /\ Advanced(c, n).total_read = r + s
  <2>1. r + s \in Nat
    BY <1>1, <1>2
  <2> HIDE DEF r
  <2> QED
    BY <1>1, <1>3, <1>4, <2>1 DEF Cursors, Places
<1> QED
  BY <1>2, <1>3, <1>5 DEF InStep

-----------------------------------------------------------------------------

\* The port looks often enough, and its cursor is in step with what it saw.
Inv ==
  /\ written \in Nat /\ seen \in Nat /\ seen <= written
  /\ written - seen <= Capacity - 1
  /\ InStep(rc, seen)

LEMMA InvInit == Init => Inv
<1> SUFFICES ASSUME Init PROVE Inv
  OBVIOUS
<1>1. 0 % Capacity = 0 /\ 0 \in Places
  <2>1. 0 \in Places /\ 0 = Capacity * 0 + 0
    BY CapacityAssumption DEF Places
  <2> QED
    BY <2>1, PlaceOf
<1>2. ResetCursor \in Cursors
  BY <1>1 DEF ResetCursor, Cursors, Places
<1> QED
  BY <1>1, <1>2, CapacityAssumption DEF Init, Inv, InStep, ResetCursor

\* A byte that arrives leaves the cursor alone and is not too early.
LEMMA WriteKeeps ==
  ASSUME Inv, NEW c, Write(c), UNCHANGED portVars
  PROVE  Inv'
BY UartSizesAssumption, CapacityAssumption
DEF Inv, Write, Paced, portVars, InStep, Cursors

LEMMA LineKeeps ==
  ASSUME Inv, Line
  PROVE  Inv'
<1>1. CASE StartFrame
  BY <1>1 DEF StartFrame, Inv, portVars, InStep, Cursors
<1>2. CASE Transmit
  BY <1>2, WriteKeeps DEF Transmit
<1>3. CASE Damage
  BY <1>3, WriteKeeps DEF Damage
<1>4. CASE Slip
  BY <1>4 DEF Slip, Inv, portVars, InStep, Cursors
<1> QED
  BY <1>1, <1>2, <1>3, <1>4 DEF Line

LEMMA PollKeeps ==
  ASSUME Inv, Poll
  PROVE  Inv'
<1>1. CASE PollBegin
  <2>1. InStep(UpdateHead(rc, written % Capacity), written)
    BY UpdateInStep DEF Inv
  <2>2. rc' = UpdateHead(rc, written % Capacity) /\ seen' = written /\ written' = written
    BY <1>1 DEF PollBegin, lineVars
  <2>3. InStep(rc', seen')
    BY <2>1, <2>2
  <2>4. written' \in Nat /\ seen' \in Nat /\ seen' <= written'
        /\ written' - seen' <= Capacity - 1
    BY <2>2, CapacityAssumption DEF Inv
  <2> QED
    BY <2>3, <2>4 DEF Inv, InStep, Cursors
<1>2. CASE PollEnd
  <2>1. seen' = seen /\ written' = written
    BY <1>2 DEF PollEnd, lineVars
  <2>2. \/ rc' = rc \/ rc' = Advanced(rc, 1)
        \/ GoodLength /\ rc' = Advanced(rc, TotalBytes(LengthByte))
    BY <1>2 DEF PollEnd, TooShort, Junk, Packet
  <2>3. GoodLength => TotalBytes(LengthByte) \in Nat
    <3>1. ASSUME NEW len \in Nat PROVE TotalBytes(len) \in Nat
      <4>1. Pad \in Nat \ {0}
        BY UartSizesAssumption
      <4>2. (3 + len) % Pad \in 0 .. Pad - 1
        BY <4>1
      <4> QED
        BY <4>1, <4>2 DEF TotalBytes, RawBytes
    <3>2. GoodLength => LengthByte \in Nat
      BY UartSizesAssumption DEF GoodLength
    <3> QED
      BY <3>1, <3>2
  <2>4. InStep(rc, seen) /\ seen \in Nat
    BY DEF Inv
  <2>5. InStep(rc', seen)
    BY <2>2, <2>3, <2>4, AdvanceInStep
  <2> QED
    BY <2>1, <2>5 DEF Inv, InStep, Cursors
<1> QED
  BY <1>1, <1>2 DEF Poll

\* The cursor is in step in every state of the receive path.
THEOREM Invariance == Spec => []Inv
<1>1. Inv /\ [Next]_vars => Inv'
  <2> SUFFICES ASSUME Inv, [Next]_vars PROVE Inv'
    OBVIOUS
  <2>1. CASE UNCHANGED vars
    BY <2>1 DEF vars, lineVars, portVars, Inv, InStep, Cursors
  <2>2. CASE Next
    BY <2>2, LineKeeps, PollKeeps DEF Next
  <2> QED
    BY <2>1, <2>2
<1> QED
  BY InvInit, <1>1, PTL DEF Spec

\* The count of the bytes written is the DMA's, and the tail is the place of the
\* bytes read, after any number of laps and overruns (ring_cursor.c).
THEOREM Cursor == Spec => []CursorInStep
<1>1. Inv => CursorInStep
  BY DEF Inv, InStep, CursorInStep
<1> QED
  BY Invariance, <1>1, PTL

-----------------------------------------------------------------------------
(* The type of the state.                                                  *)

\* A frame is one of the sequence, and its LEN is one the port accepts.
LEMMA FrameFacts ==
  ASSUME NEW k \in Frames
  PROVE  /\ k \in Nat \ {0} /\ k <= Len(Payloads)
         /\ Payloads[k] \in Seq(Values) /\ Len(Payloads[k]) \in 1 .. MaxLen
         /\ Len(Payloads[k]) \in Nat /\ Len(Payloads[k]) \in Values
         /\ SeqOf(k) \in 0 .. SeqMod - 1 /\ SeqOf(k) \in Values
<1>1. /\ Payloads \in Seq(Seq(Values)) /\ MaxLen \in Nat \ {0} /\ SeqMod \in Nat \ {0}
      /\ \A j \in DOMAIN Payloads : Len(Payloads[j]) \in 1 .. MaxLen
  BY UartSizesAssumption
<1>2. k \in 1 .. Len(Payloads) /\ Len(Payloads) \in Nat
  BY <1>1, LenProperties DEF Frames
<1>3. Payloads[k] \in Seq(Values)
  BY <1>1, <1>2, ElementOfSeq
<1>4. Len(Payloads[k]) \in 1 .. MaxLen
  BY <1>1 DEF Frames
<1>5. SeqOf(k) \in 0 .. SeqMod - 1
  <2>1. k - 1 \in Int
    BY <1>2
  <2> QED
    BY <1>1, <2>1 DEF SeqOf
<1> QED
  BY <1>1, <1>2, <1>3, <1>4, <1>5 DEF Values

\* The padding is between one byte and Pad.
LEMMA TotalFacts ==
  ASSUME NEW len \in Nat
  PROVE  TotalBytes(len) \in Nat /\ RawBytes(len) < TotalBytes(len)
         /\ RawBytes(len) = len + 3
<1>1. Pad \in Nat \ {0}
  BY UartSizesAssumption
<1>2. (3 + len) % Pad \in 0 .. Pad - 1
  BY <1>1
<1> QED
  BY <1>1, <1>2 DEF TotalBytes, RawBytes

\* The next byte of a frame carries the frame, its place in it, and in the first
\* place the LEN.
LEMMA NextCellFacts ==
  ASSUME frame \in Frames, pos \in Nat
  PROVE  /\ NextCell \in Cell /\ NextCell.of = frame /\ NextCell.at = pos + 1
         /\ pos = 0 => NextCell.v = Len(Payloads[frame])
<1> DEFINE head == <<Len(Payloads[frame]), SeqOf(frame)>>
           values == head \o Payloads[frame]
<1>1. head \in Seq(Values) /\ Len(head) = 2 /\ head[1] = Len(Payloads[frame])
  BY FrameFacts
<1>2. Payloads[frame] \in Seq(Values) /\ Len(Payloads[frame]) \in Nat
  BY FrameFacts
<1> HIDE DEF head
<1>3. /\ values \in Seq(Values) /\ Len(values) = 2 + Len(Payloads[frame])
      /\ \A i \in 1 .. 2 + Len(Payloads[frame]) :
           values[i] = IF i <= 2 THEN head[i] ELSE Payloads[frame][i - 2]
  <2>1. /\ values \in Seq(Values) /\ Len(values) = Len(head) + Len(Payloads[frame])
        /\ \A i \in 1 .. Len(head) + Len(Payloads[frame]) :
             values[i] = IF i <= Len(head) THEN head[i] ELSE Payloads[frame][i - Len(head)]
    BY <1>1, <1>2, ConcatProperties, Zenon
  <2> QED
    BY <1>1, <2>1, Zenon
<1>4. NextCell = [v |-> IF pos < Len(values) THEN values[pos + 1] ELSE 0,
                  of |-> frame, at |-> pos + 1]
  BY DEF NextCell, head
<1> HIDE DEF values
<1>5. (IF pos < Len(values) THEN values[pos + 1] ELSE 0) \in Values
  <2>1. 0 \in Values
    BY UartSizesAssumption DEF Values
  <2>2. CASE pos < Len(values)
    <3>1. pos + 1 \in 1 .. Len(values)
      BY <1>2, <1>3, <2>2
    <3> QED
      BY <1>3, <2>2, <3>1, ElementOfSeq
  <2> QED
    BY <2>1, <2>2
<1>6. pos = 0 => NextCell.v = Len(Payloads[frame])
  <2> SUFFICES ASSUME pos = 0 PROVE NextCell.v = Len(Payloads[frame])
    OBVIOUS
  <2>1. values[1] = head[1] /\ 0 < Len(values)
    BY <1>2, <1>3
  <2> QED
    BY <1>1, <1>4, <2>1
<1> QED
  BY <1>4, <1>5, <1>6 DEF Cell

\* The state, but for the cursor.
TypeInv ==
  /\ frame \in Frames \cup {0} /\ pos \in Nat
  /\ damages \in 0 .. Damages /\ slips \in 0 .. Slips
  /\ ring \in [Places -> Cell]
  /\ lastSeq \in -1 .. SeqMod - 1 /\ drops \in Nat /\ errors \in BOOLEAN
  /\ pc \in {"idle", "extract"}
  /\ delivered \in Seq(Frames) /\ gone \subseteq Frames
  /\ ends \in [Frames -> Nat]

\* What lies in the ring is of a frame, or of none.
LEMMA RingFrame ==
  ASSUME TypeInv, NEW n \in Nat
  PROVE  n % Capacity \in Places /\ ring[n % Capacity] \in Cell
         /\ ring[n % Capacity].of \in Frames \cup {0}
<1>1. n % Capacity \in Places
  BY Division
<1>2. ring[n % Capacity] \in Cell
  BY <1>1, Zenon DEF TypeInv
<1> QED
  BY <1>1, <1>2 DEF Cell

LEMMA TypeInit == Init => TypeInv
<1> SUFFICES ASSUME Init PROVE TypeInv
  OBVIOUS
<1>1. Blank \in Cell
  BY UartSizesAssumption DEF Blank, Cell, Values
<1>2. ring \in [Places -> Cell]
  BY <1>1 DEF Init
<1>3. SeqMod \in Nat \ {0} /\ Damages \in Nat /\ Slips \in Nat
  BY UartSizesAssumption
<1>4. damages \in 0 .. Damages /\ slips \in 0 .. Slips /\ lastSeq \in -1 .. SeqMod - 1
  BY <1>3 DEF Init
<1>5. delivered \in Seq(Frames)
  BY DEF Init
<1>6. ends \in [Frames -> Nat]
  BY DEF Init
<1>7. frame \in Frames \cup {0} /\ pos \in Nat /\ drops \in Nat /\ errors \in BOOLEAN
      /\ pc \in {"idle", "extract"} /\ gone \subseteq Frames
  BY DEF Init
<1> QED
  BY <1>2, <1>4, <1>5, <1>6, <1>7 DEF TypeInv

LEMMA WriteType ==
  ASSUME TypeInv, Inv, NEW c \in Cell, Write(c)
  PROVE  ring' \in [Places -> Cell] /\ pos' \in Nat
<1>1. ring \in [Places -> Cell] /\ pos \in Nat
  BY DEF TypeInv
<1>2. ring' = [ring EXCEPT ![written % Capacity] = c] /\ pos' = pos + 1
  BY DEF Write
<1>3. [ring EXCEPT ![written % Capacity] = c] \in [Places -> Cell]
  BY <1>1, Zenon
<1> QED
  BY <1>1, <1>2, <1>3

LEMMA OverwrittenType ==
  ASSUME TypeInv, Inv
  PROVE  Overwritten \subseteq Frames
<1>1. ring[written % Capacity].of \in Frames \cup {0}
  BY RingFrame DEF Inv
<1> QED
  BY <1>1 DEF Overwritten

LEMMA LineType ==
  ASSUME TypeInv, Inv, Line
  PROVE  TypeInv'
<1>1. CASE StartFrame
  <2>1. Payloads \in Seq(Seq(Values))
    BY UartSizesAssumption
  <2>2. Frames = 1 .. Len(Payloads) /\ Len(Payloads) \in Nat
    BY <2>1 DEF Frames
  <2>3. frame + 1 \in Frames
    BY <1>1, <2>2 DEF StartFrame, TypeInv
  <2> QED
    BY <1>1, <2>3 DEF StartFrame, TypeInv, portVars
<1>2. CASE Transmit
  <2>1. Sending /\ frame \in Frames /\ pos \in Nat
    BY <1>2 DEF Transmit, Sending, TypeInv
  <2>2. NextCell \in Cell
    BY <2>1, NextCellFacts
  <2>3. ring' \in [Places -> Cell] /\ pos' \in Nat
    BY <1>2, <2>2, WriteType DEF Transmit
  <2>4. gone' \subseteq Frames
    BY <1>2, <2>1, OverwrittenType DEF Transmit, TypeInv
  <2>5. ends' \in [Frames -> Nat]
    <3>1. ends \in [Frames -> Nat] /\ written + 1 \in Nat
      BY DEF TypeInv, Inv
    <3>2. ends' = ends \/ ends' = [ends EXCEPT ![frame] = written + 1]
      BY <1>2 DEF Transmit
    <3> QED
      BY <3>1, <3>2
  <2> QED
    BY <1>2, <2>3, <2>4, <2>5 DEF Transmit, TypeInv, portVars
<1>3. CASE Damage
  <2>1. frame \in Frames
    BY <1>3 DEF Damage, Sending, TypeInv
  <2>2. PICK v \in Noise : Write([Blank EXCEPT !.v = v])
    BY <1>3 DEF Damage
  <2>3. [Blank EXCEPT !.v = v] \in Cell
    BY UartSizesAssumption DEF Blank, Cell
  <2>4. ring' \in [Places -> Cell] /\ pos' \in Nat
    BY <2>2, <2>3, WriteType
  <2>5. gone' \subseteq Frames
    BY <1>3, <2>1, OverwrittenType DEF Damage, TypeInv
  <2>6. damages' \in 0 .. Damages
    <3>1. damages \in 0 .. Damages /\ damages < Damages /\ damages' = damages + 1
      BY <1>3 DEF Damage, TypeInv
    <3>2. Damages \in Nat
      BY UartSizesAssumption
    <3> QED
      BY <3>1, <3>2
  <2> QED
    BY <1>3, <2>4, <2>5, <2>6 DEF Damage, TypeInv, portVars
<1>4. CASE Slip
  <2>1. frame \in Frames
    BY <1>4 DEF Slip, Sending, TypeInv
  <2>2. gone' \subseteq Frames
    BY <1>4, <2>1 DEF Slip, TypeInv
  <2>3. slips' \in 0 .. Slips /\ pos' \in Nat
    BY <1>4, UartSizesAssumption DEF Slip, TypeInv
  <2> QED
    BY <1>4, <2>2, <2>3 DEF Slip, TypeInv, portVars
<1> QED
  BY <1>1, <1>2, <1>3, <1>4 DEF Line

\* The jump of a sequence number is one of the sequence numbers.
LEMMA MissingType ==
  ASSUME TypeInv, NEW k \in Frames
  PROVE  Missing(SeqOf(k)) \in Nat
<1>1. SeqMod \in Nat \ {0}
  BY UartSizesAssumption
<1>2. SeqOf(k) \in Nat
  BY <1>1, FrameFacts
<1>3. (lastSeq + 1) % SeqMod \in Nat
  BY <1>1 DEF TypeInv
<1>4. SeqOf(k) - ((lastSeq + 1) % SeqMod) \in Int
  BY <1>2, <1>3
<1> HIDE DEF SeqOf
<1> QED
  BY <1>1, <1>4 DEF Missing

LEMMA PollType ==
  ASSUME TypeInv, Inv, Inv', Poll
  PROVE  TypeInv'
<1>1. CASE PollBegin
  <2>1. FramesBetween(rc.total_read, rc'.total_read) \subseteq Frames
    <3>1. rc.total_read \in Nat /\ rc'.total_read \in Nat
      BY DEF Inv, InStep, Cursors
    <3>2. ASSUME NEW q \in rc.total_read .. rc'.total_read - 1
          PROVE  ring[q % Capacity].of \in Frames \cup {0}
      <4>1. q \in Nat
        BY <3>1
      <4> QED
        BY <4>1, RingFrame
    <3> QED
      BY <3>2 DEF FramesBetween
  <2>2. gone' \subseteq Frames
    BY <1>1, <2>1 DEF PollBegin, TypeInv
  <2> QED
    BY <1>1, <2>2 DEF PollBegin, TypeInv, lineVars
<1>2. CASE PollEnd
  <2>1. CASE TooShort
    BY <1>2, <2>1 DEF PollEnd, TooShort, TypeInv, lineVars
  <2>2. CASE Junk
    BY <1>2, <2>2 DEF PollEnd, Junk, TypeInv, lineVars
  <2>3. CASE Packet
    <3>1. PICK k \in Frames :
            /\ delivered' = Append(delivered, k) /\ lastSeq' = SeqOf(k)
            /\ drops' = IF lastSeq = -1 THEN drops ELSE drops + Missing(SeqOf(k))
      BY <2>3 DEF Packet
    <3>2. delivered' \in Seq(Frames)
      BY <3>1 DEF TypeInv
    <3>3. lastSeq' \in -1 .. SeqMod - 1
      BY <3>1, FrameFacts, UartSizesAssumption
    <3>4. drops' \in Nat
      BY <3>1, MissingType DEF TypeInv
    <3>5. errors' = errors
      BY <2>3 DEF Packet
    <3> QED
      BY <1>2, <3>2, <3>3, <3>4, <3>5 DEF PollEnd, TypeInv, lineVars
  <2> QED
    BY <1>2, <2>1, <2>2, <2>3 DEF PollEnd
<1> QED
  BY <1>1, <1>2 DEF Poll

LEMMA TypeInvariance == Spec => [](Inv /\ TypeInv)
<1>1. Init => Inv /\ TypeInv
  BY InvInit, TypeInit
<1>2. Inv /\ Inv' /\ TypeInv /\ [Next]_vars => TypeInv'
  <2> SUFFICES ASSUME Inv, Inv', TypeInv, [Next]_vars PROVE TypeInv'
    OBVIOUS
  <2>1. CASE UNCHANGED vars
    BY <2>1 DEF vars, lineVars, portVars, TypeInv
  <2>2. CASE Next
    BY <2>2, LineType, PollType DEF Next
  <2> QED
    BY <2>1, <2>2
<1> QED
  BY Invariance, <1>1, <1>2, PTL DEF Spec

\* Every variable of the receive path stays in its range, for every capacity of
\* the ring and sequence of frames (uart_rx_poll_packet).
THEOREM UartRxType == Spec => []TypeOK
<1>1. Inv /\ TypeInv => TypeOK
  BY DEF Inv, TypeInv, TypeOK, InStep
<1> QED
  BY TypeInvariance, <1>1, PTL

-----------------------------------------------------------------------------
(* The order of the bytes in the ring.                                     *)

\* The byte last written to the place of position p, and the positions whose
\* bytes are still in the ring.
At(p) == ring[p % Capacity]
Held  == {p \in Nat : written - Capacity <= p /\ p < written}

\* The order in which bytes are sent: the frames one after the other.
Before(a, b) == a.of < b.of \/ (a.of = b.of /\ a.at < b.at)
First(k) == [of |-> k, at |-> 1]
Coming   == [of |-> frame, at |-> pos + 1]

\* What was written of the frames are bytes sent so far, in the order they were
\* sent.
SentBytes ==
  \A p \in Held : At(p).of # 0 => At(p).at >= 1 /\ Before(At(p), Coming)
Ordered ==
  \A p, q \in Held : p < q /\ At(p).of # 0 /\ At(q).of # 0 => Before(At(p), At(q))

\* The first byte of the frame returned last was sent before all that is unread
\* or still to come.
Last == delivered[Len(delivered)]
Passed ==
  delivered # <<>> =>
    /\ Before(First(Last), Coming)
    /\ \A q \in Held : q >= rc.total_read /\ At(q).of # 0 => Before(First(Last), At(q))

\* In a poll no more than Slack bytes arrive, and no more than a ring is unread
\* at its look at the write address.
Looking ==
  pc = "extract" => written - seen <= Slack /\ seen - rc.total_read <= Capacity

OrderInv == SentBytes /\ Ordered /\ Passed /\ Looking /\ DeliveredInOrder

\* Positions less than a ring apart have different places.
LEMMA Apart ==
  ASSUME NEW p \in Nat, NEW q \in Nat, p < q, q - p < Capacity
  PROVE  p % Capacity # q % Capacity
<1> SUFFICES ASSUME p % Capacity = q % Capacity PROVE FALSE
  OBVIOUS
<1> DEFINE k == q \div Capacity - p \div Capacity
<1>1. /\ p = Capacity * (p \div Capacity) + (p % Capacity) /\ p \div Capacity \in Int
      /\ q = Capacity * (q \div Capacity) + (q % Capacity) /\ q \div Capacity \in Int
      /\ p % Capacity \in Nat
  BY Division DEF Places
<1>2. k \in Int /\ Capacity * k + 0 = Capacity * 0 + (q - p)
  BY <1>1, CapacityAssumption
<1>3. 0 \in Places /\ q - p \in Places
  BY CapacityAssumption DEF Places
<1> HIDE DEF k, Places
<1>4. 0 = q - p
  BY <1>2, <1>3, DivisionUnique
<1> QED
  BY <1>4

\* A step from a place in the ring leads to the place of the sum.
LEMMA PlaceSum ==
  ASSUME NEW n \in Nat, NEW i \in Nat
  PROVE  ((n % Capacity) + i) % Capacity = (n + i) % Capacity
<1> DEFINE r == n % Capacity
           t == (r + i) % Capacity
<1>1. n = Capacity * (n \div Capacity) + r /\ n \div Capacity \in Int /\ r \in Nat
  BY Division DEF Places
<1>2. r + i \in Nat
  BY <1>1
<1> HIDE DEF r
<1>3. /\ r + i = Capacity * ((r + i) \div Capacity) + t
      /\ (r + i) \div Capacity \in Int /\ t \in Places
  BY <1>2, Division
<1> HIDE DEF t
<1>4. n + i = Capacity * (n \div Capacity + (r + i) \div Capacity) + t
      /\ n \div Capacity + (r + i) \div Capacity \in Int
  BY <1>1, <1>3, CapacityAssumption DEF Places
<1>5. n + i \in Nat
  OBVIOUS
<1> HIDE DEF Places
<1>6. (n + i) % Capacity = t
  BY <1>3, <1>4, <1>5, PlaceOf
<1> QED
  BY <1>6 DEF t, r

\* A lap further on is the same place.
LEMMA PlaceLap ==
  ASSUME NEW n \in Nat
  PROVE  (n + Capacity) % Capacity = n % Capacity
<1>1. n = Capacity * (n \div Capacity) + (n % Capacity) /\ n \div Capacity \in Int
      /\ n % Capacity \in Places
  BY Division
<1>2. n + Capacity = Capacity * (n \div Capacity + 1) + (n % Capacity)
      /\ n \div Capacity + 1 \in Int /\ n + Capacity \in Nat
  BY <1>1, CapacityAssumption DEF Places
<1> HIDE DEF Places
<1> QED
  BY <1>1, <1>2, PlaceOf

LEMMA BeforeTransitive ==
  ASSUME NEW a, NEW b, NEW c, a.of \in Int, b.of \in Int, c.of \in Int,
         a.at \in Int, b.at \in Int, c.at \in Int, Before(a, b), Before(b, c)
  PROVE  Before(a, c)
BY DEF Before

\* The fields of a byte in the ring, and of the next.
LEMMA ByteTypes ==
  ASSUME TypeInv
  PROVE  /\ \A p \in Nat : At(p) \in Cell /\ At(p).of \in Nat /\ At(p).at \in Nat
                           /\ At(p).of \in Frames \cup {0}
         /\ Coming.of \in Nat /\ Coming.at \in Nat
         /\ Coming.of = frame /\ Coming.at = pos + 1
<1>1. \A k \in Frames : k \in Nat
  BY FrameFacts
<1>2. ASSUME NEW p \in Nat
      PROVE  At(p) \in Cell /\ At(p).of \in Nat /\ At(p).at \in Nat
             /\ At(p).of \in Frames \cup {0}
  <2>1. At(p) \in Cell /\ At(p).of \in Frames \cup {0}
    BY RingFrame DEF At
  <2>2. At(p).of \in Nat
    BY <1>1, <2>1
  <2>3. At(p).at \in Nat
    BY <2>1 DEF Cell
  <2> QED
    BY <2>1, <2>2, <2>3
<1>3. frame \in Nat /\ pos \in Nat
  BY <1>1 DEF TypeInv
<1> QED
  BY <1>2, <1>3 DEF Coming

LEMMA LastType ==
  ASSUME TypeInv, delivered # <<>>
  PROVE  Last \in Frames /\ Last \in Nat /\ First(Last).of = Last /\ First(Last).at = 1
         /\ Len(delivered) \in Nat \ {0}
<1>1. delivered \in Seq(Frames)
  BY DEF TypeInv
<1>2. Len(delivered) \in Nat \ {0}
  BY <1>1, EmptySeq
<1>3. Last \in Frames
  BY <1>1, <1>2, ElementOfSeq DEF Last
<1>4. Last \in Nat
  BY <1>3, FrameFacts
<1> QED
  BY <1>2, <1>3, <1>4 DEF First

-----------------------------------------------------------------------------

\* A byte that is written is the last one in the ring and leaves the others.
LEMMA WriteHeld ==
  ASSUME TypeInv, Inv, NEW c \in Cell, Write(c)
  PROVE  /\ written' = written + 1
         /\ \A p \in Held' : \/ p = written /\ At(p)' = c
                             \/ p \in Held /\ At(p)' = At(p)
<1>1. written \in Nat /\ written' = written + 1 /\ written' \in Nat
      /\ ring' = [ring EXCEPT ![written % Capacity] = c]
  BY DEF Write, Inv
<1>2. ring \in [Places -> Cell]
  BY DEF TypeInv
<1>3. ASSUME NEW p \in Held'
      PROVE  \/ p = written /\ At(p)' = c
             \/ p \in Held /\ At(p)' = At(p)
  <2>1. p \in Nat /\ written + 1 - Capacity <= p /\ p < written + 1
    <3>1. p \in Nat /\ written' - Capacity <= p /\ p < written'
      BY <1>3 DEF Held
    <3> QED
      BY <1>1, <3>1, CapacityAssumption
  <2>2. p % Capacity \in Places /\ written % Capacity \in Places
    BY <1>1, <2>1, Division
  <2>3. CASE p = written
    <3>1. ring'[p % Capacity] = c
      BY <1>1, <1>2, <2>2, <2>3, Zenon
    <3> QED
      BY <2>3, <3>1 DEF At
  <2>4. CASE p # written
    <3>1. p < written /\ written - p < Capacity /\ p \in Held
      BY <1>1, <2>1, <2>4, CapacityAssumption DEF Held
    <3>2. p % Capacity # written % Capacity
      BY <1>1, <2>1, <3>1, Apart
    <3>3. ring'[p % Capacity] = ring[p % Capacity]
      BY <1>1, <1>2, <2>2, <3>2, Zenon
    <3> QED
      BY <3>1, <3>3 DEF At
  <2> QED
    BY <2>3, <2>4
<1> QED
  BY <1>1, <1>3

\* The order is kept by a byte of the frame that is sent, or one that shows no
\* frame.
LEMMA WriteOrder ==
  ASSUME TypeInv, Inv, OrderInv, NEW c \in Cell, Write(c),
         c.of = 0 \/ (c.of = frame /\ c.at = pos + 1),
         frame' = frame, UNCHANGED portVars
  PROVE  OrderInv'
<1>1. /\ written \in Nat /\ written' = written + 1 /\ written' \in Nat /\ pos' = pos + 1
      /\ frame \in Nat /\ pos \in Nat
      /\ \A p \in Held' : \/ p = written /\ At(p)' = c
                          \/ p \in Held /\ At(p)' = At(p)
  <2>1. pos' = pos + 1
    BY DEF Write
  <2> QED
    BY <2>1, WriteHeld, ByteTypes DEF Inv, TypeInv
<1>2. \A p \in Held : p \in Nat /\ p < written
  BY DEF Held
<1>3. /\ \A p \in Held : At(p).of \in Nat /\ At(p).at \in Nat
      /\ c.of \in Nat /\ c.at \in Nat
  <2>1. \A k \in Frames : k \in Nat
    BY FrameFacts
  <2>2. c.of \in Nat /\ c.at \in Nat
    BY <2>1 DEF Cell
  <2> QED
    BY <1>2, <2>2, ByteTypes
<1>4. /\ Coming.of = frame /\ Coming.at = pos + 1
      /\ Coming'.of = frame /\ Coming'.at = pos + 2
  BY <1>1 DEF Coming
<1>5. UNCHANGED <<seen, rc, pc, delivered>> /\ Last' = Last
  BY DEF portVars, Last
<1>6. SentBytes'
  <2> SUFFICES ASSUME NEW p \in Held', At(p)'.of # 0
               PROVE  At(p)'.at >= 1 /\ Before(At(p)', Coming')
    BY DEF SentBytes
  <2>1. CASE At(p)' = c
    BY <1>1, <1>4, <2>1 DEF Before
  <2>2. CASE p \in Held /\ At(p)' = At(p)
    <3>1. At(p).at >= 1 /\ Before(At(p), Coming)
      BY <2>2 DEF OrderInv, SentBytes
    <3> QED
      BY <1>1, <1>3, <1>4, <2>2, <3>1 DEF Before
  <2> QED
    BY <1>1, <2>1, <2>2
<1>7. Ordered'
  <2> SUFFICES ASSUME NEW p \in Held', NEW q \in Held', p < q,
                      At(p)'.of # 0, At(q)'.of # 0
               PROVE  Before(At(p)', At(q)')
    BY DEF Ordered
  <2>1. p \in Held /\ At(p)' = At(p)
    <3>1. ~ (p = written)
      <4>1. q \in Nat /\ q < written + 1
        BY <1>1 DEF Held
      <4> QED
        BY <1>1, <4>1
    <3> QED
      BY <1>1, <3>1
  <2>2. CASE q = written /\ At(q)' = c
    <3>1. Before(At(p), Coming)
      BY <2>1 DEF OrderInv, SentBytes
    <3> QED
      BY <1>4, <2>1, <2>2, <3>1 DEF Before
  <2>3. CASE q \in Held /\ At(q)' = At(q)
    BY <2>1, <2>3 DEF OrderInv, Ordered
  <2> QED
    BY <1>1, <2>2, <2>3
<1>8. Passed'
  <2> SUFFICES ASSUME delivered # <<>>
               PROVE  /\ Before(First(Last), Coming')
                      /\ \A q \in Held' : q >= rc.total_read /\ At(q)'.of # 0
                                            => Before(First(Last), At(q)')
    BY <1>5 DEF Passed, First
  <2>1. /\ Before(First(Last), Coming)
        /\ \A q \in Held : q >= rc.total_read /\ At(q).of # 0 => Before(First(Last), At(q))
    BY DEF OrderInv, Passed
  <2>2. First(Last).of \in Nat /\ First(Last).at \in Nat
    BY LastType
  <2>3. Before(First(Last), Coming')
    BY <1>1, <1>4, <2>1, <2>2 DEF Before
  <2>4. ASSUME NEW q \in Held', q >= rc.total_read, At(q)'.of # 0
        PROVE  Before(First(Last), At(q)')
    <3>1. CASE At(q)' = c
      BY <1>4, <2>1, <2>4, <3>1 DEF Before
    <3>2. CASE q \in Held /\ At(q)' = At(q)
      BY <2>1, <2>4, <3>2
    <3> QED
      BY <1>1, <3>1, <3>2
  <2> QED
    BY <2>3, <2>4
<1>9. Looking'
  <2> SUFFICES ASSUME pc = "extract"
               PROVE  written' - seen <= Slack /\ seen - rc.total_read <= Capacity
    BY <1>5 DEF Looking
  <2>1. written + 1 - seen <= Slack
    BY DEF Write, Paced
  <2>2. seen - rc.total_read <= Capacity
    BY DEF OrderInv, Looking
  <2>3. written' - seen <= Slack
    BY <1>1, <2>1 DEF Inv
  <2> QED
    BY <2>2, <2>3
<1>10. DeliveredInOrder'
  BY <1>5 DEF OrderInv, DeliveredInOrder
<1> QED
  BY <1>6, <1>7, <1>8, <1>9, <1>10 DEF OrderInv

\* The order is kept when the line moves on and nothing is written.
LEMMA MoveOrder ==
  ASSUME TypeInv, Inv, OrderInv, UNCHANGED <<ring, written, portVars>>,
         Before(Coming, Coming'), Coming'.of \in Nat, Coming'.at \in Nat
  PROVE  OrderInv'
<1>1. UNCHANGED <<seen, rc, pc, delivered>> /\ Last' = Last /\ Held' = Held
  BY DEF portVars, Last, Held
<1>2. \A p \in Held : At(p)' = At(p) /\ At(p).of \in Nat /\ At(p).at \in Nat
  <2>1. \A p \in Held : p \in Nat
    BY DEF Held
  <2> QED
    BY <2>1, ByteTypes DEF At
<1>3. Coming.of \in Nat /\ Coming.at \in Nat
  BY ByteTypes
<1>4. SentBytes'
  <2> SUFFICES ASSUME NEW p \in Held, At(p).of # 0
               PROVE  At(p).at >= 1 /\ Before(At(p), Coming')
    BY <1>1, <1>2 DEF SentBytes
  <2>1. At(p).at >= 1 /\ Before(At(p), Coming)
    BY DEF OrderInv, SentBytes
  <2> QED
    BY <1>2, <1>3, <2>1, BeforeTransitive
<1>5. Ordered'
  BY <1>1, <1>2 DEF OrderInv, Ordered
<1>6. Passed'
  <2> SUFFICES ASSUME delivered # <<>>
               PROVE  /\ Before(First(Last), Coming')
                      /\ \A q \in Held : q >= rc.total_read /\ At(q).of # 0
                                           => Before(First(Last), At(q))
    BY <1>1, <1>2 DEF Passed, First
  <2>1. /\ Before(First(Last), Coming)
        /\ \A q \in Held : q >= rc.total_read /\ At(q).of # 0 => Before(First(Last), At(q))
    BY DEF OrderInv, Passed
  <2>2. First(Last).of \in Nat /\ First(Last).at \in Nat
    BY LastType
  <2>3. Before(First(Last), Coming')
    BY <1>3, <2>1, <2>2, BeforeTransitive
  <2> QED
    BY <2>1, <2>3
<1>7. Looking'
  BY <1>1 DEF OrderInv, Looking
<1>8. DeliveredInOrder'
  BY <1>1 DEF OrderInv, DeliveredInOrder
<1> QED
  BY <1>4, <1>5, <1>6, <1>7, <1>8 DEF OrderInv

LEMMA LineOrder ==
  ASSUME TypeInv, Inv, OrderInv, Line
  PROVE  OrderInv'
<1>1. frame \in Nat /\ pos \in Nat
  BY ByteTypes DEF TypeInv
<1>2. CASE StartFrame
  <2>1. frame' = frame + 1 /\ pos' = 0 /\ UNCHANGED <<ring, written, portVars>>
    BY <1>2 DEF StartFrame
  <2>2. Before(Coming, Coming') /\ Coming'.of \in Nat /\ Coming'.at \in Nat
    BY <1>1, <2>1 DEF Before, Coming
  <2> QED
    BY <2>1, <2>2, MoveOrder
<1>3. CASE Transmit
  <2>1. frame \in Frames
    BY <1>3 DEF Transmit, Sending, TypeInv
  <2>2. NextCell \in Cell /\ NextCell.of = frame /\ NextCell.at = pos + 1
    BY <1>1, <2>1, NextCellFacts
  <2>3. Write(NextCell) /\ frame' = frame /\ UNCHANGED portVars
    BY <1>3 DEF Transmit
  <2> HIDE DEF NextCell
  <2> QED
    BY <2>2, <2>3, WriteOrder
<1>4. CASE Damage
  <2>1. PICK v \in Noise : Write([Blank EXCEPT !.v = v])
    BY <1>4 DEF Damage
  <2>2. [Blank EXCEPT !.v = v] \in Cell /\ [Blank EXCEPT !.v = v].of = 0
    BY UartSizesAssumption DEF Blank, Cell
  <2>3. frame' = frame /\ UNCHANGED portVars
    BY <1>4 DEF Damage
  <2> QED
    BY <2>1, <2>2, <2>3, WriteOrder
<1>5. CASE Slip
  <2>1. frame' = frame /\ pos' = pos + 1 /\ UNCHANGED <<ring, written, portVars>>
    BY <1>5 DEF Slip
  <2>2. Before(Coming, Coming') /\ Coming'.of \in Nat /\ Coming'.at \in Nat
    BY <1>1, <2>1 DEF Before, Coming
  <2> QED
    BY <2>1, <2>2, MoveOrder
<1> QED
  BY <1>2, <1>3, <1>4, <1>5 DEF Line

-----------------------------------------------------------------------------
\* A look at the write address moves the port on, and at most a ring is unread
\* after it; without an overrun it stays where it is.
LEMMA UpdateReads ==
  ASSUME NEW a \in Nat, NEW b \in Nat, a <= b, b - a <= Capacity - 1,
         NEW c, InStep(c, a)
  PROVE  LET u == UpdateHead(c, b % Capacity)
         IN  /\ c.total_read <= u.total_read /\ b - u.total_read <= Capacity
             /\ b - c.total_read <= Capacity => u = [c EXCEPT !.last_head = b % Capacity,
                                                              !.total_written = b]
<1> DEFINE d == [c EXCEPT !.last_head = b % Capacity, !.total_written = b]
           u == UpdateHead(c, b % Capacity)
<1>1. c \in Cursors /\ c.total_written = a /\ c.last_head = a % Capacity
      /\ c.total_read <= a /\ c.total_read \in Nat
  BY DEF InStep, Cursors
<1>2. Moved(c, b % Capacity) = b - a
  BY <1>1, MovedIsExact
<1>3. /\ d.total_written = b /\ d.total_read = c.total_read
      /\ Recover(d).total_read = b - SafeMargin
  BY <1>1 DEF Cursors, Recover
<1>4. [c EXCEPT !.last_head = b % Capacity,
                !.total_written = @ + Moved(c, b % Capacity)] = d
  <2>1. c.total_written + Moved(c, b % Capacity) = b
    BY <1>1, <1>2
  <2> QED
    BY <2>1, Zenon
<1>5. Behind(d) = b - c.total_read
  BY <1>1, <1>3 DEF Behind
<1>6. u = IF b - c.total_read > Capacity THEN Recover(d) ELSE d
  BY <1>4, <1>5 DEF UpdateHead
<1>7. SafeMargin \in 1 .. Capacity
  BY MarginFits
<1> HIDE DEF u, d
<1>8. c.total_read <= u.total_read /\ b - u.total_read <= Capacity
  BY <1>1, <1>3, <1>6, <1>7, CapacityAssumption
<1>9. b - c.total_read <= Capacity => u = d
  BY <1>1, <1>6, CapacityAssumption
<1> QED
  BY <1>8, <1>9 DEF u, d

\* The port moves on by as much as there is, and by all that it takes if that is
\* there.
LEMMA AdvanceReads ==
  ASSUME NEW w \in Nat, NEW c, InStep(c, w), NEW n \in Nat
  PROVE  /\ c.total_read \in Nat /\ Available(c) \in Nat
         /\ c.total_read <= Advanced(c, n).total_read
         /\ n <= Available(c) => Advanced(c, n).total_read = c.total_read + n
         /\ w - c.total_read <= Capacity => Available(c) = w - c.total_read
<1>1. c \in Cursors /\ c.total_written = w /\ c.total_read <= w /\ c.total_read \in Nat
  BY DEF InStep, Cursors
<1>2. Behind(c) = w - c.total_read
  BY <1>1 DEF Behind
<1>3. Available(c) \in Nat
      /\ (w - c.total_read <= Capacity => Available(c) = w - c.total_read)
  BY <1>1, <1>2, CapacityAssumption DEF Available
<1>4. Advanced(c, n).total_read
        = c.total_read + (IF n > Available(c) THEN Available(c) ELSE n)
  BY <1>1 DEF Advanced, Cursors
<1> QED
  BY <1>1, <1>3, <1>4

-----------------------------------------------------------------------------
(* The frame that a poll returns.                                          *)

\* A byte that the port looks at is the one of its position.
LEMMA ByteIsAt ==
  ASSUME Inv, NEW i \in Nat
  PROVE  Byte(i) = At(rc.total_read + i) /\ rc.total_read + i \in Nat
<1>1. rc.total_read \in Nat /\ rc.tail = rc.total_read % Capacity
  BY DEF Inv, InStep, Cursors
<1>2. (rc.tail + i) % Capacity = (rc.total_read + i) % Capacity
  BY <1>1, PlaceSum
<1> QED
  BY <1>1, <1>2 DEF Byte, At

LEMMA GoodLengthType ==
  ASSUME GoodLength
  PROVE  /\ LengthByte \in Nat \ {0}
         /\ RawBytes(LengthByte) \in Nat /\ RawBytes(LengthByte) >= RawBytes(1)
         /\ TotalBytes(LengthByte) \in Nat
         /\ RawBytes(LengthByte) < TotalBytes(LengthByte)
<1>1. LengthByte \in Nat \ {0}
  BY UartSizesAssumption DEF GoodLength
<1> HIDE DEF LengthByte
<1> QED
  BY <1>1, TotalFacts DEF RawBytes

\* A frame that decodes lies in the ring from its first byte to its last,
\* although bytes may have been overwritten since the look at the write address:
\* fewer than a frame has, and old bytes and new ones are not in the order in
\* which they are sent.
LEMMA DecodedLies ==
  ASSUME TypeInv, Inv, OrderInv, Slack < RawBytes(1), pc = "extract", GoodLength,
         Available(rc) >= TotalBytes(LengthByte), NEW k \in Frames, DecodesTo(k)
  PROVE  /\ rc.total_read \in Held
         /\ At(rc.total_read).of = k /\ At(rc.total_read).at = 1
         /\ rc.total_read + RawBytes(LengthByte) - 1 \in Held
         /\ At(rc.total_read + RawBytes(LengthByte) - 1).of = k
         /\ At(rc.total_read + RawBytes(LengthByte) - 1).at = RawBytes(LengthByte)
         /\ rc.total_read + TotalBytes(LengthByte) <= seen
<1> DEFINE tr == rc.total_read
           n  == RawBytes(LengthByte)
           q  == tr + (n - 1)
<1>1. /\ tr \in Nat /\ seen \in Nat /\ written \in Nat /\ seen <= written /\ tr <= seen
      /\ written - seen <= Slack /\ seen - tr <= Capacity
      /\ Slack \in Nat /\ Slack <= Capacity - 1 /\ Capacity \in Nat \ {0}
  <2>1. tr \in Nat /\ seen \in Nat /\ written \in Nat /\ seen <= written /\ tr <= seen
    BY DEF Inv, InStep, Cursors
  <2>2. written - seen <= Slack /\ seen - tr <= Capacity
    BY DEF OrderInv, Looking
  <2> QED
    BY <2>1, <2>2, UartSizesAssumption, CapacityAssumption
<1>2. n \in Nat /\ n >= 4 /\ Slack < n /\ TotalBytes(LengthByte) \in Nat
      /\ n < TotalBytes(LengthByte)
  BY <1>1, GoodLengthType DEF RawBytes
<1>3. tr + TotalBytes(LengthByte) <= seen
  <2>1. InStep(rc, seen) /\ 0 \in Nat
    BY DEF Inv
  <2>2. Available(rc) = seen - tr
    BY <1>1, <2>1, AdvanceReads
  <2> HIDE DEF tr
  <2> QED
    BY <1>1, <1>2, <2>2
<1> HIDE DEF n, tr
<1>4. q \in Held
  BY <1>1, <1>2, <1>3 DEF Held
<1>5. At(tr).of = k /\ At(tr).at = 1 /\ At(q).of = k /\ At(q).at = n
  <2>1. 0 \in 0 .. n - 1 /\ n - 1 \in 0 .. n - 1 /\ n - 1 \in Nat /\ tr + 0 = tr
    BY <1>1, <1>2
  <2>2. Byte(0).of = k /\ Byte(0).at = 0 + 1 /\ Byte(n - 1).of = k /\ Byte(n - 1).at = n - 1 + 1
    BY <2>1 DEF DecodesTo, n
  <2>3. Byte(0) = At(tr + 0) /\ Byte(n - 1) = At(tr + (n - 1))
    BY <2>1, ByteIsAt DEF tr
  <2>4. n - 1 + 1 = n
    BY <1>2
  <2> QED
    BY <2>1, <2>2, <2>3, <2>4
<1>6. tr \in Held
  <2> SUFFICES ASSUME tr \notin Held PROVE FALSE
    OBVIOUS
  <2>1. tr < written - Capacity
    BY <1>1, <1>2, <1>3 DEF Held
  <2>2. tr + Capacity \in Held /\ q < tr + Capacity
    BY <1>1, <1>2, <1>3, <2>1 DEF Held
  <2>3. At(tr + Capacity) = At(tr)
    BY <1>1, PlaceLap DEF At
  <2>4. k \in Nat \ {0}
    BY FrameFacts
  <2>5. Before(At(q), At(tr + Capacity))
    <3>1. At(q).of # 0 /\ At(tr + Capacity).of # 0
      BY <1>5, <2>3, <2>4
    <3> HIDE DEF q
    <3> QED
      BY <1>4, <2>2, <3>1 DEF OrderInv, Ordered
  <2> HIDE DEF q
  <2> QED
    BY <1>2, <1>5, <2>3, <2>4, <2>5 DEF Before
<1>7. q = tr + n - 1
  BY <1>1, <1>2
<1> QED
  BY <1>3, <1>4, <1>5, <1>6, <1>7 DEF tr, n

\* The frame comes after the last one.
LEMMA PacketOrder ==
  ASSUME TypeInv, Inv, OrderInv, Slack < RawBytes(1), pc = "extract", GoodLength,
         Available(rc) >= TotalBytes(LengthByte), NEW k \in Frames, DecodesTo(k),
         delivered' = Append(delivered, k), rc' = Advanced(rc, TotalBytes(LengthByte)),
         pc' = "idle", UNCHANGED <<lineVars, seen>>
  PROVE  /\ OrderInv'
         /\ delivered # <<>> => Last < k
         /\ Last' = k /\ delivered' # <<>> /\ Len(delivered') = Len(delivered) + 1
<1> DEFINE tr == rc.total_read
           n  == RawBytes(LengthByte)
           q  == tr + n - 1
<1>1. /\ tr \in Held /\ At(tr).of = k /\ At(tr).at = 1
      /\ q \in Held /\ At(q).of = k /\ At(q).at = n
  BY DecodedLies
<1>2. n \in Nat /\ n >= 4 /\ TotalBytes(LengthByte) \in Nat
      /\ n < TotalBytes(LengthByte)
  BY GoodLengthType DEF RawBytes
<1>3. tr \in Nat /\ rc'.total_read = tr + TotalBytes(LengthByte)
  <2>1. InStep(rc, seen) /\ seen \in Nat
    BY DEF Inv
  <2> QED
    BY <1>2, <2>1, AdvanceReads
<1>4. /\ delivered \in Seq(Frames) /\ delivered' # <<>> /\ Len(delivered) \in Nat
      /\ Len(delivered') = Len(delivered) + 1
      /\ \A i \in 1 .. Len(delivered) : delivered'[i] = delivered[i]
      /\ delivered'[Len(delivered) + 1] = k
  BY AppendProperties DEF TypeInv
<1>5. Last' = k
  BY <1>4 DEF Last
<1>6. k \in Nat \ {0}
  BY FrameFacts
<1>7. ASSUME delivered # <<>> PROVE Last < k
  <2>1. Before(First(Last), At(tr))
    <3>1. tr >= rc.total_read
      BY <1>3
    <3> QED
      BY <1>1, <1>6, <1>7, <3>1 DEF OrderInv, Passed
  <2> HIDE DEF tr
  <2> QED
    BY <1>1, <1>6, <1>7, <2>1, LastType DEF Before
<1>8. UNCHANGED <<ring, written, frame, pos, seen>> /\ Held' = Held /\ Coming' = Coming
      /\ \A p \in Nat : At(p)' = At(p)
  BY DEF lineVars, Held, Coming, At
<1> HIDE DEF tr, n, q
<1>9. SentBytes' /\ Ordered'
  <2>1. SentBytes /\ Ordered /\ \A p \in Held : p \in Nat
    BY DEF OrderInv, Held
  <2>2. SentBytes'
    BY <1>8, <2>1 DEF SentBytes
  <2>3. Ordered'
    BY <1>8, <2>1 DEF Ordered
  <2> QED
    BY <2>2, <2>3
<1>10. Passed'
  <2>1. First(k).of = k /\ First(k).at = 1
    BY DEF First
  <2>2. Before(First(k), At(q))
    BY <1>1, <1>2, <2>1 DEF Before
  <2>3. Before(First(k), Coming)
    <3>1. Before(At(q), Coming)
      BY <1>1, <1>6 DEF OrderInv, SentBytes
    <3>2. Coming.of \in Nat /\ Coming.at \in Nat
      BY ByteTypes
    <3> QED
      BY <1>1, <1>2, <1>6, <2>1, <2>2, <3>1, <3>2 DEF Before
  <2>4. ASSUME NEW p \in Held, p >= rc'.total_read, At(p).of # 0
        PROVE  Before(First(k), At(p))
    <3>1. q < p /\ p \in Nat
      BY <1>2, <1>3, <2>4 DEF q, Held
    <3>2. Before(At(q), At(p))
      BY <1>1, <1>6, <2>4, <3>1 DEF OrderInv, Ordered
    <3>3. At(p).of \in Nat /\ At(p).at \in Nat
      BY <3>1, ByteTypes
    <3> QED
      BY <1>1, <1>2, <1>6, <2>1, <3>2, <3>3 DEF Before
  <2>5. \A p \in Held : p \in Nat
    BY DEF Held
  <2> QED
    BY <1>5, <1>8, <2>3, <2>4, <2>5 DEF Passed, First
<1>11. Looking'
  BY DEF Looking
<1>12. DeliveredInOrder'
  <2> SUFFICES ASSUME NEW i \in DOMAIN delivered', NEW j \in DOMAIN delivered', i < j
               PROVE  delivered'[i] < delivered'[j]
    BY DEF DeliveredInOrder
  <2>1. i \in 1 .. Len(delivered) + 1 /\ j \in 1 .. Len(delivered) + 1
    <3>1. delivered' \in Seq(Frames)
      BY <1>4
    <3> QED
      BY <1>4, <3>1
  <2>2. i \in 1 .. Len(delivered)
    BY <1>4, <2>1
  <2>3. \A x, y \in 1 .. Len(delivered) : x < y => delivered[x] < delivered[y]
    BY <1>4 DEF OrderInv, DeliveredInOrder
  <2>4. CASE j \in 1 .. Len(delivered)
    BY <1>4, <2>2, <2>3, <2>4
  <2>5. CASE j = Len(delivered) + 1
    <3>1. delivered # <<>>
      BY <2>2
    <3>2. Last < k /\ Last \in Nat /\ Last = delivered[Len(delivered)]
      BY <1>7, <3>1, LastType DEF Last
    <3>3. delivered[i] \in Nat
      BY <1>4, <2>2, FrameFacts, ElementOfSeq
    <3>4. i = Len(delivered) \/ (i < Len(delivered) /\ Len(delivered) \in 1 .. Len(delivered))
      BY <1>4, <2>2
    <3>5. delivered[i] = Last \/ delivered[i] < Last
      BY <2>2, <2>3, <3>2, <3>4
    <3>6. delivered'[i] = delivered[i] /\ delivered'[j] = k
      BY <1>4, <2>2, <2>5
    <3> QED
      BY <1>6, <3>2, <3>3, <3>5, <3>6
  <2> QED
    BY <1>4, <2>1, <2>4, <2>5
<1> QED
  BY <1>4, <1>5, <1>7, <1>9, <1>10, <1>11, <1>12 DEF OrderInv

\* The port moves on without returning anything.
LEMMA PassOrder ==
  ASSUME TypeInv, Inv, Inv', OrderInv, UNCHANGED <<lineVars, delivered>>,
         rc.total_read <= rc'.total_read, Looking'
  PROVE  OrderInv'
<1>1. /\ UNCHANGED <<ring, written, frame, pos>> /\ Held' = Held /\ Coming' = Coming
      /\ Last' = Last /\ \A p \in Nat : At(p)' = At(p)
  BY DEF lineVars, Held, Coming, At, Last
<1>2. SentBytes /\ Ordered /\ Passed /\ \A p \in Held : p \in Nat
  BY DEF OrderInv, Held
<1>3. SentBytes'
  BY <1>1, <1>2 DEF SentBytes
<1>4. Ordered'
  BY <1>1, <1>2 DEF Ordered
<1>5. Passed'
  <2>1. rc.total_read \in Nat /\ rc'.total_read \in Nat
    BY DEF Inv, InStep, Cursors
  <2>2. \A p \in Held : p >= rc'.total_read => p >= rc.total_read
    BY <1>2, <2>1
  <2> QED
    BY <1>1, <1>2, <2>2 DEF Passed, First
<1>6. DeliveredInOrder'
  BY DEF OrderInv, DeliveredInOrder
<1> QED
  BY <1>3, <1>4, <1>5, <1>6 DEF OrderInv

LEMMA PollOrder ==
  ASSUME TypeInv, Inv, Inv', OrderInv, Slack < RawBytes(1), Poll
  PROVE  OrderInv'
<1>1. CASE PollBegin
  <2>1. /\ rc.total_read <= rc'.total_read /\ written - rc'.total_read <= Capacity
    <3>1. /\ seen \in Nat /\ written \in Nat /\ seen <= written
          /\ written - seen <= Capacity - 1 /\ InStep(rc, seen)
      BY DEF Inv
    <3>2. rc' = UpdateHead(rc, written % Capacity)
      BY <1>1 DEF PollBegin
    <3> QED
      BY <3>1, <3>2, UpdateReads
  <2>2. UNCHANGED <<lineVars, delivered>> /\ seen' = written
    BY <1>1 DEF PollBegin
  <2>3. written' = written /\ written \in Nat
    BY <2>2 DEF lineVars, Inv
  <2>4. Looking'
    <3>1. written' - seen' <= Slack
      BY <2>2, <2>3, UartSizesAssumption
    <3> QED
      BY <2>1, <2>2, <2>3, <3>1 DEF Looking
  <2> QED
    BY <2>1, <2>2, <2>4, PassOrder
<1>2. CASE PollEnd
  <2>1. pc = "extract" /\ pc' = "idle" /\ UNCHANGED <<lineVars, seen>>
    BY <1>2 DEF PollEnd
  <2>2. Looking'
    BY <2>1 DEF Looking
  <2>3. InStep(rc, seen) /\ seen \in Nat /\ rc.total_read \in Nat
    BY DEF Inv, InStep, Cursors
  <2>4. CASE TooShort
    <3>1. rc' = rc /\ delivered' = delivered
      BY <2>4 DEF TooShort
    <3> QED
      BY <2>1, <2>2, <2>3, <3>1, PassOrder
  <2>5. CASE Junk
    <3>1. rc' = Advanced(rc, 1) /\ delivered' = delivered
      BY <2>5 DEF Junk
    <3>2. rc.total_read <= rc'.total_read
      BY <2>3, <3>1, AdvanceReads
    <3> QED
      BY <2>1, <2>2, <3>1, <3>2, PassOrder
  <2>6. CASE Packet
    <3>1. GoodLength /\ Available(rc) >= TotalBytes(LengthByte)
          /\ rc' = Advanced(rc, TotalBytes(LengthByte))
      BY <2>6 DEF Packet
    <3>2. PICK k \in Frames : DecodesTo(k) /\ delivered' = Append(delivered, k)
      BY <2>6 DEF Packet
    <3> QED
      BY <2>1, <3>1, <3>2, PacketOrder
  <2> QED
    BY <1>2, <2>4, <2>5, <2>6 DEF PollEnd
<1> QED
  BY <1>1, <1>2 DEF Poll

LEMMA OrderInit == Init => OrderInv
<1> SUFFICES ASSUME Init PROVE OrderInv
  OBVIOUS
<1>1. Held = {}
  BY CapacityAssumption DEF Init, Held
<1>2. delivered = <<>> /\ pc = "idle"
  BY DEF Init
<1>3. SentBytes /\ Ordered /\ Passed /\ Looking
  BY <1>1, <1>2 DEF SentBytes, Ordered, Passed, Looking
<1>4. DeliveredInOrder
  BY <1>2 DEF DeliveredInOrder
<1> QED
  BY <1>3, <1>4 DEF OrderInv

LEMMA OrderKept ==
  ASSUME TypeInv, Inv, Inv', OrderInv, Slack < RawBytes(1), [Next]_vars
  PROVE  OrderInv'
<1>1. CASE UNCHANGED vars
  <2>1. UNCHANGED <<lineVars, delivered, rc, seen, pc>>
    BY <1>1 DEF vars, portVars
  <2>2. UNCHANGED <<written, seen, rc, pc>>
    BY <2>1 DEF lineVars
  <2>3. Looking'
    BY <2>2 DEF OrderInv, Looking
  <2>4. rc.total_read <= rc'.total_read
    BY <2>2 DEF Inv, InStep, Cursors
  <2> QED
    BY <2>1, <2>3, <2>4, PassOrder
<1>2. CASE Next
  BY <1>2, LineOrder, PollOrder DEF Next
<1> QED
  BY <1>1, <1>2

\* Frames are returned in the order they were sent and none twice, through
\* overruns and damage, as long as in the middle of a poll fewer bytes arrive than
\* the shortest frame has (uart_rx_poll_packet).
THEOREM InOrder ==
  ASSUME Slack < RawBytes(1)
  PROVE  Spec => []DeliveredInOrder
<1>1. Init => OrderInv
  BY OrderInit
<1>2. Inv /\ TypeInv /\ Inv' /\ OrderInv /\ [Next]_vars => OrderInv'
  BY OrderKept
<1>3. OrderInv => DeliveredInOrder
  BY DEF OrderInv
<1> QED
  BY TypeInvariance, <1>1, <1>2, <1>3, PTL DEF Spec

-----------------------------------------------------------------------------
(* The counters.                                                           *)

\* The frames missing among those returned, and the drops counted, differ by
\* rounds of the sequence number.
MissedFrames == Last - delivered[1] + (1 - Len(delivered))
CountInv ==
  IF delivered = <<>> THEN drops = 0 /\ lastSeq = -1
  ELSE /\ lastSeq = SeqOf(Last)
       /\ \E j \in Nat : MissedFrames = drops + SeqMod * j

\* Quotient and remainder by the sequence numbers there are.
LEMMA SeqDivision ==
  ASSUME NEW x \in Int
  PROVE  /\ x = SeqMod * (x \div SeqMod) + (x % SeqMod)
         /\ x \div SeqMod \in Int /\ x % SeqMod \in 0 .. SeqMod - 1
<1>1. SeqMod \in Nat \ {0}
  BY UartSizesAssumption
<1> QED
  BY <1>1

LEMMA SeqMultiple ==
  ASSUME NEW j \in Int
  PROVE  SeqMod * j \in Int /\ (j >= 0 => SeqMod * j >= 0) /\ (j < 0 => SeqMod * j <= -SeqMod)
<1>1. SeqMod \in Nat \ {0}
  BY UartSizesAssumption
<1> QED
  BY <1>1

LEMMA SeqDistribute ==
  ASSUME NEW i \in Int, NEW j \in Int
  PROVE  SeqMod * (i + j) = SeqMod * i + SeqMod * j
         /\ SeqMod * (i - j) = SeqMod * i - SeqMod * j
BY UartSizesAssumption

\* Whole rounds leave no remainder.
LEMMA RoundsVanish ==
  ASSUME NEW j \in Nat
  PROVE  (SeqMod * j) % SeqMod = 0
<1> DEFINE x == SeqMod * j
           d == x \div SeqMod
           r == x % SeqMod
<1>1. x \in Int
  BY SeqMultiple
<1> HIDE DEF x
<1>2. x = SeqMod * d + r /\ d \in Int /\ r \in 0 .. SeqMod - 1
  BY <1>1, SeqDivision
<1> HIDE DEF d, r
<1>3. SeqMod * (j - d) = SeqMod * j - SeqMod * d
  BY <1>2, SeqDistribute
<1>4. SeqMod \in Nat \ {0} /\ SeqMod * j \in Int /\ SeqMod * d \in Int
  BY <1>2, SeqMultiple, UartSizesAssumption
<1>5. SeqMod * (j - d) = r
  BY <1>2, <1>3, <1>4 DEF x
<1>6. SeqMod * (j - d) = r - 0 /\ (j - d >= 1 => SeqMod * (j - d) >= SeqMod)
  <2>1. j - d >= 1 => SeqMod * (j - d) >= SeqMod
    BY <1>2, <1>4
  <2> QED
    BY <1>2, <1>5, <2>1
<1>7. j - d <= 0
  BY <1>2, <1>4, <1>5, <1>6
<1>8. j - d < 0 => SeqMod * (j - d) <= -SeqMod
  BY <1>2, SeqMultiple
<1>9. j - d = 0
  BY <1>2, <1>4, <1>5, <1>7, <1>8
<1>10. SeqMod * (j - d) = 0
  BY <1>4, <1>9
<1> QED
  BY <1>5, <1>10 DEF r, x

\* What is counted for a later frame is the number of those between, but for
\* whole rounds.
LEMMA MissingRounds ==
  ASSUME NEW k \in Frames, NEW l \in Frames, l < k, lastSeq = SeqOf(l)
  PROVE  \E j \in Nat : k - 1 - l = Missing(SeqOf(k)) + SeqMod * j
<1> DEFINE a == (k - 1) \div SeqMod
           b == (l - 1) \div SeqMod
           s == SeqOf(l) + 1
           c == s \div SeqMod
           u == SeqOf(k) - (s % SeqMod)
           d == u \div SeqMod
           r == u % SeqMod
<1>1. k \in Nat /\ l \in Nat /\ SeqMod \in Nat \ {0}
  BY FrameFacts, UartSizesAssumption
<1>2. /\ k - 1 = SeqMod * a + SeqOf(k) /\ a \in Int /\ SeqOf(k) \in Int
      /\ l - 1 = SeqMod * b + SeqOf(l) /\ b \in Int /\ SeqOf(l) \in Int
  <2>1. k - 1 \in Int /\ l - 1 \in Int
    BY <1>1
  <2> QED
    BY <1>1, <2>1, SeqDivision DEF SeqOf
<1> HIDE DEF SeqOf, a, b
<1>3. s \in Int
  BY <1>2
<1> HIDE DEF s
<1>4. s = SeqMod * c + (s % SeqMod) /\ c \in Int /\ s % SeqMod \in Int
  BY <1>1, <1>3, SeqDivision
<1>5. u \in Int
  BY <1>2, <1>4
<1> HIDE DEF u, c
<1>6. u = SeqMod * d + r /\ d \in Int /\ r \in 0 .. SeqMod - 1
  BY <1>5, SeqDivision
<1>7. Missing(SeqOf(k)) = r
  BY DEF Missing, r, u, s
<1> HIDE DEF d, r
<1> DEFINE e == a - b
           f == e - c
           g == f + d
<1>8. /\ e \in Int /\ f \in Int /\ g \in Int
      /\ SeqMod * e = SeqMod * a - SeqMod * b
      /\ SeqMod * f = SeqMod * e - SeqMod * c
      /\ SeqMod * g = SeqMod * f + SeqMod * d
  <2>1. e \in Int /\ SeqMod * e = SeqMod * a - SeqMod * b
    <3>1. e \in Int
      BY <1>2
    <3> QED
      BY <1>2, <3>1, SeqDistribute, Zenon
  <2> HIDE DEF e
  <2>2. f \in Int /\ SeqMod * f = SeqMod * e - SeqMod * c
    <3>1. f \in Int
      BY <1>4, <2>1
    <3> QED
      BY <1>4, <2>1, <3>1, SeqDistribute, Zenon
  <2> HIDE DEF f
  <2>3. g \in Int /\ SeqMod * g = SeqMod * f + SeqMod * d
    <3>1. g \in Int
      BY <1>6, <2>2
    <3> QED
      BY <1>6, <2>2, <3>1, SeqDistribute, Zenon
  <2> QED
    BY <2>1, <2>2, <2>3
<1>9. /\ SeqMod * a \in Int /\ SeqMod * b \in Int /\ SeqMod * c \in Int
      /\ SeqMod * d \in Int /\ SeqMod * e \in Int /\ SeqMod * f \in Int /\ SeqMod * g \in Int
  BY <1>2, <1>4, <1>6, <1>8, SeqMultiple
<1> HIDE DEF e, f, g
<1>10. k - 1 - l = r + SeqMod * g
  <2>1. s = SeqOf(l) + 1 /\ u = SeqOf(k) - (s % SeqMod)
    BY DEF s, u
  <2> QED
    BY <1>1, <1>2, <1>3, <1>4, <1>5, <1>6, <1>8, <1>9, <2>1
<1>11. g >= 0
  <2>1. g < 0 => SeqMod * g <= -SeqMod
    BY <1>8, SeqMultiple
  <2> QED
    BY <1>1, <1>6, <1>8, <1>9, <1>10, <2>1
<1> QED
  BY <1>7, <1>8, <1>10, <1>11

LEMMA OneMoreMissing ==
  ASSUME NEW k \in Int, NEW l \in Int, NEW a \in Int, NEW n \in Int
  PROVE  /\ k - a + (1 - (n + 1)) = (l - a + (1 - n)) + (k - 1 - l)
         /\ l - a + 1 - n = l - a + (1 - n)
OBVIOUS

LEMMA CountPacket ==
  ASSUME TypeInv, Inv, OrderInv, CountInv, Slack < RawBytes(1), pc = "extract", GoodLength,
         Available(rc) >= TotalBytes(LengthByte), NEW k \in Frames, DecodesTo(k),
         delivered' = Append(delivered, k), rc' = Advanced(rc, TotalBytes(LengthByte)),
         pc' = "idle", UNCHANGED <<lineVars, seen>>,
         lastSeq' = SeqOf(k),
         drops' = IF lastSeq = -1 THEN drops ELSE drops + Missing(SeqOf(k))
  PROVE  CountInv'
<1>1. /\ delivered # <<>> => Last < k
      /\ Last' = k /\ delivered' # <<>> /\ Len(delivered') = Len(delivered) + 1
  BY PacketOrder
<1>2. /\ k \in Nat /\ SeqMod \in Nat \ {0}
      /\ \A x \in Frames : x \in Nat /\ SeqOf(x) \in Nat
  BY FrameFacts, UartSizesAssumption
<1>3. CASE delivered = <<>>
  <2>1. drops' = 0 /\ Len(delivered) = 0 /\ delivered'[1] = k
    BY <1>3 DEF CountInv
  <2>2. MissedFrames' = 0
    BY <1>1, <1>2, <2>1 DEF MissedFrames
  <2>3. SeqMod * 0 = 0
    BY <1>2
  <2>4. MissedFrames' = drops' + SeqMod * 0
    BY <2>1, <2>2, <2>3
  <2> QED
    BY <1>1, <2>4 DEF CountInv
<1>4. CASE delivered # <<>>
  <2>1. PICK j \in Nat : MissedFrames = drops + SeqMod * j
    BY <1>4 DEF CountInv
  <2>2. Last \in Frames /\ Last < k /\ lastSeq = SeqOf(Last)
    BY <1>1, <1>4, LastType DEF CountInv
  <2>3. PICK i \in Nat : k - 1 - Last = Missing(SeqOf(k)) + SeqMod * i
    BY <2>2, MissingRounds
  <2>4. drops' = drops + Missing(SeqOf(k))
    <3>1. lastSeq # -1
      BY <1>2, <2>2
    <3> QED
      BY <3>1
  <2>5. /\ Len(delivered) \in Nat \ {0} /\ delivered[1] \in Nat /\ Last \in Nat
        /\ delivered'[1] = delivered[1]
    <3>1. delivered \in Seq(Frames) /\ Len(delivered) \in Nat \ {0}
      BY <1>4, LastType DEF TypeInv
    <3>2. 1 \in 1 .. Len(delivered)
      BY <3>1
    <3>3. delivered[1] \in Frames /\ delivered'[1] = delivered[1]
      BY <3>1, <3>2, ElementOfSeq, AppendProperties
    <3> QED
      BY <1>2, <2>2, <3>1, <3>3
  <2>6. MissedFrames' = MissedFrames + (k - 1 - Last)
    <3>1. MissedFrames' = k - delivered[1] + (1 - (Len(delivered) + 1))
      BY <1>1, <2>5, Zenon DEF MissedFrames
    <3>2. MissedFrames = Last - delivered[1] + (1 - Len(delivered))
      BY DEF MissedFrames
    <3> QED
      BY <1>2, <2>5, <3>1, <3>2, OneMoreMissing
  <2>7. /\ SeqMod * (j + i) = SeqMod * j + SeqMod * i
        /\ SeqMod * j \in Int /\ SeqMod * i \in Int
    <3>1. j \in Int /\ i \in Int
      OBVIOUS
    <3> QED
      BY <3>1, SeqDistribute, SeqMultiple, Zenon
  <2>8. drops \in Nat /\ Missing(SeqOf(k)) \in Nat
    BY MissingType DEF TypeInv
  <2>9. MissedFrames' = drops' + SeqMod * (j + i)
    <3> DEFINE a == SeqMod * j
               b == SeqMod * i
               m == Missing(SeqOf(k))
    <3>1. /\ MissedFrames' = (drops + a) + (m + b) /\ drops' = drops + m
          /\ SeqMod * (j + i) = a + b
      BY <2>1, <2>3, <2>4, <2>6, <2>7, Zenon
    <3>2. a \in Int /\ b \in Int /\ m \in Int /\ drops \in Int
      BY <2>7, <2>8
    <3> HIDE DEF a, b, m
    <3>3. (drops + a) + (m + b) = (drops + m) + (a + b)
      BY <3>2
    <3> QED
      BY <3>1, <3>3, Zenon
  <2>10. j + i \in Nat
    OBVIOUS
  <2> QED
    BY <1>1, <2>9, <2>10 DEF CountInv
<1> QED
  BY <1>3, <1>4

LEMMA CountKept ==
  ASSUME TypeInv, Inv, OrderInv, CountInv, Slack < RawBytes(1), [Next]_vars
  PROVE  CountInv'
<1>1. CASE UNCHANGED <<delivered, drops, lastSeq>>
  BY <1>1 DEF CountInv, MissedFrames, Last
<1>2. CASE UNCHANGED vars
  BY <1>1, <1>2 DEF vars, portVars
<1>3. CASE Line
  BY <1>1, <1>3 DEF Line, StartFrame, Transmit, Damage, Slip, portVars
<1>4. CASE PollBegin
  BY <1>1, <1>4 DEF PollBegin
<1>5. CASE PollEnd
  <2>1. CASE TooShort \/ Junk
    BY <1>1, <2>1 DEF TooShort, Junk
  <2>2. CASE Packet
    <3>1. pc = "extract" /\ pc' = "idle" /\ UNCHANGED <<lineVars, seen>>
      BY <1>5 DEF PollEnd
    <3>2. GoodLength /\ Available(rc) >= TotalBytes(LengthByte)
          /\ rc' = Advanced(rc, TotalBytes(LengthByte))
      BY <2>2 DEF Packet
    <3>3. PICK k \in Frames :
            /\ DecodesTo(k) /\ delivered' = Append(delivered, k) /\ lastSeq' = SeqOf(k)
            /\ drops' = IF lastSeq = -1 THEN drops ELSE drops + Missing(SeqOf(k))
      BY <2>2 DEF Packet
    <3> QED
      BY <3>1, <3>2, <3>3, CountPacket
  <2> QED
    BY <1>5, <2>1, <2>2 DEF PollEnd
<1> QED
  BY <1>2, <1>3, <1>4, <1>5 DEF Next, Poll

\* The first half of CountersTellTheTruth.
LEMMA CountMeans ==
  ASSUME TypeInv, CountInv
  PROVE  IF delivered = <<>> THEN drops = 0
         ELSE LET missing == delivered[Len(delivered)] - delivered[1] + 1 - Len(delivered)
              IN  drops <= missing /\ (missing - drops) % SeqMod = 0
<1>1. CASE delivered = <<>>
  BY <1>1 DEF CountInv
<1>2. CASE delivered # <<>>
  <2>1. PICK j \in Nat : MissedFrames = drops + SeqMod * j
    BY <1>2 DEF CountInv
  <2>2. /\ Len(delivered) \in Nat \ {0} /\ delivered[1] \in Nat /\ Last \in Nat
    <3>1. delivered \in Seq(Frames) /\ Len(delivered) \in Nat \ {0} /\ Last \in Nat
      BY <1>2, LastType DEF TypeInv
    <3>2. 1 \in 1 .. Len(delivered)
      BY <3>1
    <3> QED
      BY <3>1, <3>2, ElementOfSeq, FrameFacts
  <2> DEFINE missing == delivered[Len(delivered)] - delivered[1] + 1 - Len(delivered)
  <2>3. missing = MissedFrames
    <3>1. missing = Last - delivered[1] + 1 - Len(delivered)
      BY DEF Last
    <3>2. MissedFrames = Last - delivered[1] + (1 - Len(delivered))
      BY DEF MissedFrames
    <3> HIDE DEF missing
    <3> QED
      BY <2>2, <3>1, <3>2, OneMoreMissing
  <2>4. drops \in Nat /\ SeqMod * j \in Int /\ SeqMod * j >= 0
    <3>1. j \in Int /\ j >= 0
      OBVIOUS
    <3> QED
      BY <3>1, SeqMultiple, Zenon DEF TypeInv
  <2> HIDE DEF missing
  <2>5. drops <= missing /\ missing - drops = SeqMod * j
    BY <2>1, <2>3, <2>4
  <2>6. (missing - drops) % SeqMod = 0
    BY <2>5, RoundsVanish, Zenon
  <2> QED
    BY <1>2, <2>5, <2>6 DEF missing
<1> QED
  BY <1>1, <1>2

-----------------------------------------------------------------------------
(* A line that damages nothing.                                            *)

Clean == damages = 0 /\ slips = 0 /\ gone = {}

\* Every byte in the ring is of a frame; a frame's bytes follow each other in the
\* ring, and the next frame's follow its last.
Whole ==
  \A p \in Held : /\ At(p).of \in Frames /\ At(p).at \in 1 .. Sent(At(p).of)
                  /\ At(p).at = 1 => At(p).v = Len(Payloads[At(p).of])
Consecutive ==
  \A p, q \in Held : p <= q /\ At(p).at + (q - p) <= Sent(At(p).of)
                       => At(q).of = At(p).of /\ At(q).at = At(p).at + (q - p)
Following ==
  \A p \in Held : p + 1 < written /\ At(p).at = Sent(At(p).of) => At(p + 1).at = 1

\* The byte written last is the one sent last.
Latest ==
  /\ pos > 0 => /\ written > 0 /\ At(written - 1).of = frame /\ At(written - 1).at = pos
                /\ frame \in Frames /\ pos <= Sent(frame)
  /\ pos = 0 /\ written > 0 => At(written - 1).at = Sent(At(written - 1).of)

\* The port stands at the first byte of a frame, or has taken all that was sent.
AtStart ==
  /\ written <= rc.total_read + Capacity /\ errors = FALSE
  /\ rc.total_read < written => At(rc.total_read).at = 1
  /\ rc.total_read = written /\ frame # 0 => pos = 0 \/ pos = Sent(frame)

CleanInv == Clean => Whole /\ Consecutive /\ Following /\ Latest /\ AtStart

LEMMA SentFacts ==
  ASSUME NEW k \in Frames
  PROVE  Sent(k) \in Nat /\ Sent(k) >= 4 /\ Sent(k) = TotalBytes(Len(Payloads[k]))
         /\ RawBytes(Len(Payloads[k])) < Sent(k)
         /\ RawBytes(Len(Payloads[k])) \in Nat
<1>1. PICK len \in Nat \ {0} : len = Len(Payloads[k])
  BY FrameFacts, UartSizesAssumption
<1>2. /\ TotalBytes(len) \in Nat /\ RawBytes(len) < TotalBytes(len)
      /\ RawBytes(len) = len + 3
  BY TotalFacts
<1> QED
  BY <1>1, <1>2 DEF Sent

\* The port reads within what is written.
LEMMA ReadFacts ==
  ASSUME Inv
  PROVE  /\ rc.total_read \in Nat /\ seen \in Nat /\ written \in Nat
         /\ rc.total_read <= seen /\ seen <= written /\ InStep(rc, seen)
         /\ Capacity \in Nat \ {0}
BY CapacityAssumption DEF Inv, InStep, Cursors

\* On a clean line the byte that is written finds its place free.
LEMMA CleanRoom ==
  ASSUME TypeInv, Inv, Clean, Whole, AtStart, Overwritten = {}
  PROVE  written < rc.total_read + Capacity
<1> DEFINE tr == rc.total_read
<1>1. tr \in Nat /\ written \in Nat /\ Capacity \in Nat \ {0} /\ written <= tr + Capacity
  BY ReadFacts DEF AtStart
<1> SUFFICES ASSUME written = tr + Capacity PROVE FALSE
  BY <1>1
<1> HIDE DEF tr
<1>2. tr \in Held
  BY <1>1 DEF Held
<1>3. At(tr).of \in Frames
  BY <1>2 DEF Whole
<1>4. At(tr).of # 0
  BY <1>3, FrameFacts
<1>5. ring[written % Capacity] = At(tr)
  BY <1>1, PlaceLap DEF At
<1>6. written - Capacity >= rc.total_read
  BY <1>1 DEF tr
<1> QED
  BY <1>4, <1>5, <1>6 DEF Overwritten

\* A byte of a frame keeps the line clean.
LEMMA TransmitClean ==
  ASSUME TypeInv, Inv, Inv', CleanInv, Transmit
  PROVE  CleanInv'
<1> SUFFICES ASSUME Clean' PROVE (Whole /\ Consecutive /\ Following /\ Latest /\ AtStart)'
  BY DEF CleanInv
<1>1. damages' = damages /\ slips' = slips /\ gone \cup Overwritten \subseteq gone'
  BY DEF Transmit
<1>2. Clean /\ Overwritten = {}
  BY <1>1 DEF Clean
<1>3. Whole /\ Consecutive /\ Following /\ Latest /\ AtStart
  BY <1>2 DEF CleanInv
<1> DEFINE c == NextCell
<1>0. PICK w \in Nat, tr \in Nat : w = written /\ tr = rc.total_read
  BY ReadFacts
<1>4. frame \in Frames /\ pos \in Nat /\ pos < Sent(frame) /\ Sent(frame) \in Nat
  <2>1. frame \in Frames /\ pos \in Nat /\ pos < Sent(frame)
    BY DEF Transmit, Sending, TypeInv
  <2> QED
    BY <2>1, SentFacts
<1>5. c \in Cell /\ c.of = frame /\ c.at = pos + 1 /\ (pos = 0 => c.v = Len(Payloads[frame]))
  BY <1>4, NextCellFacts
<1>6. Write(c) /\ frame' = frame /\ pos' = pos + 1 /\ rc' = rc /\ errors' = errors
  BY DEF Transmit, portVars, Write
<1> HIDE DEF c
<1>7. /\ written' = w + 1
      /\ \A p \in Held' : \/ p = w /\ At(p)' = c
                          \/ p \in Held /\ At(p)' = At(p)
  BY <1>5, <1>6, <1>0, WriteHeld
<1>8. /\ tr \in Nat /\ w \in Nat /\ Capacity \in Nat \ {0} /\ tr <= w /\ w < tr + Capacity
  BY <1>2, <1>3, <1>0, ReadFacts, CleanRoom
<1>9. \A p \in Held : p \in Nat /\ p < w /\ p <= w - 1
  BY <1>8, <1>0 DEF Held
<1>10. \A p \in Held' : p \in Nat /\ w + 1 - Capacity <= p /\ p < w + 1 /\ p <= w
  <2> SUFFICES ASSUME NEW p \in Held'
               PROVE  p \in Nat /\ w + 1 - Capacity <= p /\ p < w + 1 /\ p <= w
    OBVIOUS
  <2>1. p \in Nat /\ written' - Capacity <= p /\ p < written'
    BY DEF Held
  <2> QED
    BY <1>7, <1>8, <2>1
<1>11. At(w)' = c
  <2>1. w \in Held'
    BY <1>7, <1>8 DEF Held
  <2>2. ~ (w \in Held)
    BY <1>8, <1>0 DEF Held
  <2> QED
    BY <1>7, <2>1, <2>2
<1>12. \A p \in Held : At(p).of \in Frames /\ At(p).at \in Nat /\ Sent(At(p).of) \in Nat
                       /\ At(p).at <= Sent(At(p).of) /\ At(p).at >= 1
  <2> SUFFICES ASSUME NEW p \in Held
               PROVE  At(p).of \in Frames /\ At(p).at \in Nat /\ Sent(At(p).of) \in Nat
                      /\ At(p).at <= Sent(At(p).of) /\ At(p).at >= 1
    OBVIOUS
  <2>1. At(p).of \in Frames /\ At(p).at \in 1 .. Sent(At(p).of)
    BY <1>3 DEF Whole
  <2>2. Sent(At(p).of) \in Nat
    BY <2>1, SentFacts
  <2> QED
    BY <2>1, <2>2
<1>13. Whole'
  <2> SUFFICES ASSUME NEW p \in Held'
               PROVE  /\ At(p)'.of \in Frames /\ At(p)'.at \in 1 .. Sent(At(p)'.of)
                      /\ At(p)'.at = 1 => At(p)'.v = Len(Payloads[At(p)'.of])
    BY DEF Whole, Sent
  <2>1. CASE At(p)' = c
    <3>1. c.of \in Frames /\ c.at \in 1 .. Sent(c.of)
      BY <1>4, <1>5
    <3>2. c.at = 1 => c.v = Len(Payloads[c.of])
      BY <1>4, <1>5
    <3> QED
      BY <2>1, <3>1, <3>2
  <2>2. CASE p \in Held /\ At(p)' = At(p)
    BY <1>3, <2>2 DEF Whole
  <2> QED
    BY <1>7, <2>1, <2>2
<1>14. ASSUME NEW p \in Held, At(p).at + (w - p) <= Sent(At(p).of)
       PROVE  pos > 0 /\ At(p).of = frame /\ At(p).at + (w - 1 - p) = pos
  <2>1. w - 1 \in Held /\ p <= w - 1 /\ p \in Nat
    BY <1>8, <1>9, <1>14, <1>0 DEF Held
  <2>2. At(p).at + (w - 1 - p) <= Sent(At(p).of) /\ At(p).at \in Nat
    BY <1>8, <1>12, <1>14, <2>1
  <2>3. At(w - 1).of = At(p).of /\ At(w - 1).at = At(p).at + (w - 1 - p)
    BY <1>3, <2>1, <2>2 DEF Consecutive
  <2>4. At(w - 1).at # Sent(At(w - 1).of)
    BY <1>8, <1>12, <1>14, <2>1, <2>3
  <2>5. pos > 0
    <3>1. w > 0
      BY <1>8, <2>1
    <3> QED
      BY <1>3, <1>4, <1>0, <2>4, <3>1 DEF Latest
  <2> QED
    BY <1>3, <1>0, <2>3, <2>5 DEF Latest
<1>15. Consecutive'
  <2> SUFFICES ASSUME NEW p \in Held', NEW q \in Held',
                      p <= q, At(p)'.at + (q - p) <= Sent(At(p)'.of)
               PROVE  At(q)'.of = At(p)'.of /\ At(q)'.at = At(p)'.at + (q - p)
    BY DEF Consecutive, Sent
  <2>1. CASE q = w /\ p # w
    <3>1. p \in Held /\ At(p)' = At(p) /\ p \in Nat
      BY <1>7, <1>10, <2>1
    <3>2. At(p).at + (w - p) <= Sent(At(p).of)
      BY <2>1, <3>1
    <3>3. At(p).of = frame /\ At(p).at + (w - 1 - p) = pos
      BY <1>14, <3>1, <3>2
    <3>4. At(p).at + (w - p) = pos + 1
      BY <1>4, <1>8, <1>12, <3>1, <3>3
    <3> QED
      BY <1>5, <1>11, <2>1, <3>1, <3>3, <3>4
  <2>2. CASE q = w /\ p = w
    <3>1. At(w)'.at + (w - w) = At(w)'.at
      BY <1>4, <1>5, <1>8, <1>11
    <3> QED
      BY <2>2, <3>1
  <2>3. CASE q # w
    <3>1. q \in Held /\ At(q)' = At(q) /\ p \in Held /\ At(p)' = At(p)
      BY <1>7, <1>8, <1>9, <1>10, <2>3
    <3> QED
      BY <1>3, <3>1 DEF Consecutive
  <2> QED
    BY <2>1, <2>2, <2>3
<1>16. Following'
  <2> SUFFICES ASSUME NEW p \in Held', p + 1 < w + 1, At(p)'.at = Sent(At(p)'.of)
               PROVE  At(p + 1)'.at = 1
    BY <1>7 DEF Following, Sent
  <2>1. p \in Held /\ At(p)' = At(p) /\ p \in Nat /\ p + 1 <= w
    BY <1>7, <1>8, <1>10
  <2>2. CASE p + 1 = w
    <3>1. pos = 0
      <4>1. At(w - 1) = At(p)
        BY <1>8, <2>1, <2>2
      <4>2. pos > 0 => At(p).of = frame /\ At(p).at = pos
        BY <1>3, <1>0, <4>1 DEF Latest
      <4> QED
        BY <1>4, <2>1, <4>2
    <3> QED
      BY <1>5, <1>11, <2>2, <3>1
  <2>3. CASE p + 1 # w
    <3>1. p + 1 \in Held'
      BY <1>7, <1>8, <1>10, <2>1 DEF Held
    <3>2. At(p + 1)' = At(p + 1) /\ p + 1 < w
      BY <1>7, <1>8, <2>1, <2>3, <3>1
    <3>3. At(p + 1).at = 1
      BY <1>3, <1>0, <2>1, <3>2 DEF Following
    <3> QED
      BY <3>2, <3>3
  <2> QED
    BY <2>2, <2>3
<1>17. Latest'
  <2>1. w + 1 - 1 = w /\ w + 1 > 0 /\ pos + 1 > 0 /\ pos + 1 <= Sent(frame) /\ pos + 1 # 0
    BY <1>4, <1>8
  <2>2. written' - 1 = w /\ written' > 0
    BY <1>7, <1>8
  <2>3. At(written - 1)' = c
    BY <1>11, <2>2 DEF At
  <2> QED
    BY <1>4, <1>5, <1>6, <2>1, <2>2, <2>3 DEF Latest, Sent
<1>18. AtStart'
  <2>1. written' <= tr + Capacity /\ tr # written'
    BY <1>7, <1>8
  <2>2. At(tr)'.at = 1
    <3>1. CASE tr = w
      <4>1. pos = 0
        BY <1>3, <1>4, <1>0, <3>1, FrameFacts DEF AtStart
      <4> QED
        BY <1>5, <1>11, <3>1, <4>1
    <3>2. CASE tr < w
      <4>1. tr \in Held'
        BY <1>7, <1>8, <3>2 DEF Held
      <4>2. At(tr)' = At(tr)
        BY <1>7, <1>8, <3>2, <4>1
      <4> QED
        BY <1>3, <1>0, <3>2, <4>2 DEF AtStart
    <3> QED
      BY <1>8, <3>1, <3>2
  <2>3. At(rc.total_read)' = At(tr)'
    BY <1>6, <1>0 DEF At
  <2> QED
    BY <1>3, <1>6, <1>0, <2>1, <2>2, <2>3 DEF AtStart
<1> QED
  BY <1>13, <1>15, <1>16, <1>17, <1>18

LEMMA LineClean ==
  ASSUME TypeInv, Inv, Inv', CleanInv, Line
  PROVE  CleanInv'
<1>1. CASE StartFrame
  <2> SUFFICES ASSUME Clean' PROVE (Whole /\ Consecutive /\ Following /\ Latest /\ AtStart)'
    BY DEF CleanInv
  <2>1. UNCHANGED <<damages, slips, gone, ring, written, rc, errors>>
        /\ pos' = 0 /\ frame' = frame + 1 /\ ~ Sending
    BY <1>1 DEF StartFrame, portVars
  <2>2. Whole /\ Consecutive /\ Following /\ Latest /\ AtStart
    BY <2>1 DEF CleanInv, Clean
  <2>3. Held' = Held /\ \A p : At(p)' = At(p)
    BY <2>1 DEF Held, At
  <2>4. Whole'
    BY <2>2, <2>3 DEF Whole, Sent
  <2>5. Consecutive'
    BY <2>2, <2>3 DEF Consecutive, Sent
  <2>6. Following'
    BY <2>1, <2>2, <2>3 DEF Following, Sent
  <2>7. Latest'
    <3>1. pos \in Nat
      BY DEF TypeInv
    <3>2. CASE pos = 0
      BY <2>1, <2>2, <2>3, <3>2 DEF Latest, Sent
    <3>3. CASE pos > 0
      <4>1. pos = Sent(frame) /\ frame \in Frames /\ At(written - 1).at = pos
            /\ At(written - 1).of = frame
        <5>1. frame \in Frames /\ pos <= Sent(frame)
              /\ At(written - 1).at = pos /\ At(written - 1).of = frame
          BY <2>2, <3>3 DEF Latest
        <5>2. ~ (pos < Sent(frame))
          BY <2>1, <5>1, FrameFacts DEF Sending
        <5>3. Sent(frame) \in Nat
          BY <5>1, SentFacts
        <5> QED
          BY <3>1, <5>1, <5>2, <5>3
      <4> QED
        BY <2>1, <2>3, <4>1 DEF Latest, Sent
    <3> QED
      BY <3>1, <3>2, <3>3
  <2>8. AtStart'
    BY <2>1, <2>2, <2>3 DEF AtStart, At
  <2> QED
    BY <2>4, <2>5, <2>6, <2>7, <2>8
<1>2. CASE Transmit
  BY <1>2, TransmitClean
<1>3. CASE Damage
  <2>1. damages' # 0
    BY <1>3, UartSizesAssumption DEF Damage, TypeInv
  <2> QED
    BY <2>1 DEF CleanInv, Clean
<1>4. CASE Slip
  <2>1. slips' # 0
    BY <1>4, UartSizesAssumption DEF Slip, TypeInv
  <2> QED
    BY <2>1 DEF CleanInv, Clean
<1> QED
  BY <1>1, <1>2, <1>3, <1>4 DEF Line

\* What a poll finds on a clean line: a frame, once its bytes are there.
LEMMA CleanFrame ==
  ASSUME TypeInv, Inv, Clean, CleanInv, Available(rc) >= RawBytes(1)
  PROVE  \E k \in Frames :
           /\ rc.total_read \in Held /\ At(rc.total_read).of = k /\ At(rc.total_read).at = 1
           /\ GoodLength /\ LengthByte = Len(Payloads[k])
           /\ Available(rc) = seen - rc.total_read
           /\ Available(rc) >= TotalBytes(LengthByte) => DecodesTo(k)
<1> DEFINE tr == rc.total_read
           k == At(tr).of
           n == RawBytes(Len(Payloads[k]))
<1>1. Whole /\ Consecutive /\ AtStart
  BY DEF CleanInv
<1>2. /\ tr \in Nat /\ seen \in Nat /\ written \in Nat /\ tr <= seen /\ seen <= written
      /\ Capacity \in Nat \ {0} /\ written <= tr + Capacity /\ InStep(rc, seen)
  BY <1>1, ReadFacts DEF AtStart
<1>3. Available(rc) = seen - tr
  <2>1. seen - tr <= Capacity /\ 0 \in Nat
    BY <1>2
  <2> QED
    BY <1>2, <2>1, AdvanceReads
<1>4. tr < written /\ tr \in Held
  <2> HIDE DEF tr
  <2>1. seen - tr >= 4
    BY <1>3, TotalFacts DEF RawBytes
  <2> QED
    BY <1>2, <2>1 DEF Held
<1>5. At(tr).at = 1 /\ k \in Frames /\ At(tr).v = Len(Payloads[k])
  <2>1. At(tr).at = 1
    BY <1>1, <1>4 DEF AtStart
  <2> QED
    BY <1>1, <1>4, <2>1 DEF Whole
<1>6. GoodLength /\ LengthByte = Len(Payloads[k])
  <2>1. Byte(0) = At(tr + 0) /\ tr + 0 = tr
    BY <1>2, ByteIsAt
  <2>2. LengthByte = Len(Payloads[k])
    BY <1>5, <2>1 DEF LengthByte
  <2> QED
    BY <1>5, <2>2, FrameFacts DEF GoodLength
<1>7. ASSUME Available(rc) >= TotalBytes(LengthByte) PROVE DecodesTo(k)
  <2>1. n \in Nat /\ n < Sent(k) /\ Sent(k) \in Nat /\ seen - tr >= Sent(k)
        /\ RawBytes(LengthByte) = n
    BY <1>3, <1>5, <1>6, <1>7, SentFacts
  <2> HIDE DEF tr, k, n
  <2> SUFFICES ASSUME NEW i \in 0 .. n - 1 PROVE Byte(i).of = k /\ Byte(i).at = i + 1
    BY <2>1 DEF DecodesTo
  <2>2. i \in Nat /\ i < n
    BY <2>1
  <2>3. tr + i \in Held /\ tr <= tr + i /\ (tr + i) - tr = i
    BY <1>2, <2>1, <2>2 DEF Held
  <2>4. 1 + i <= Sent(k)
    BY <2>1, <2>2
  <2>5. At(tr).of = k
    BY DEF k
  <2>6. At(tr + i).of = k /\ At(tr + i).at = 1 + i
    <3>1. At(tr).at + ((tr + i) - tr) <= Sent(At(tr).of)
      BY <1>5, <2>3, <2>4, <2>5
    <3>2. At(tr + i).of = At(tr).of /\ At(tr + i).at = At(tr).at + ((tr + i) - tr)
      BY <1>1, <1>4, <2>3, <3>1 DEF Consecutive
    <3> QED
      BY <1>5, <2>3, <2>5, <3>2
  <2>7. Byte(i) = At(tr + i)
    BY <2>2, ByteIsAt DEF tr
  <2> QED
    BY <2>2, <2>6, <2>7
<1> HIDE DEF n
<1> QED
  BY <1>3, <1>4, <1>5, <1>6, <1>7

\* The port takes a whole frame and stands at the next.
LEMMA PacketClean ==
  ASSUME TypeInv, Inv, Clean, CleanInv, GoodLength, Available(rc) >= RawBytes(1),
         Available(rc) >= TotalBytes(LengthByte), UNCHANGED <<lineVars, errors>>,
         rc' = Advanced(rc, TotalBytes(LengthByte))
  PROVE  AtStart'
<1> DEFINE tr == rc.total_read
           n  == rc'.total_read
<1>1. PICK k \in Frames :
        /\ tr \in Held /\ At(tr).of = k /\ At(tr).at = 1
        /\ LengthByte = Len(Payloads[k]) /\ Available(rc) = seen - tr
  BY CleanFrame
<1>2. Consecutive /\ Following /\ Latest /\ AtStart
  BY DEF CleanInv
<1>3. /\ tr \in Nat /\ seen \in Nat /\ written \in Nat /\ seen <= written
      /\ Capacity \in Nat \ {0} /\ written <= tr + Capacity /\ InStep(rc, seen)
  BY <1>2, ReadFacts DEF AtStart
<1>4. Sent(k) \in Nat /\ Sent(k) >= 4 /\ TotalBytes(LengthByte) = Sent(k)
  BY <1>1, SentFacts
<1>5. n = tr + Sent(k)
  <2>1. Advanced(rc, Sent(k)).total_read = tr + Sent(k)
    <3>1. Sent(k) <= Available(rc)
      BY <1>1, <1>3, <1>4
    <3> QED
      BY <1>3, <1>4, <3>1, AdvanceReads
  <2> QED
    BY <1>4, <2>1
<1>6. n <= written /\ n \in Nat
  BY <1>1, <1>3, <1>4, <1>5
<1> HIDE DEF tr, n
<1>7. n - 1 \in Held /\ tr <= n - 1 /\ n - 1 - tr = Sent(k) - 1
  BY <1>3, <1>4, <1>5, <1>6 DEF Held
<1>8. At(n - 1).of = k /\ At(n - 1).at = Sent(k)
  <2>1. 1 + (Sent(k) - 1) = Sent(k)
    BY <1>4
  <2>2. At(tr).at + (n - 1 - tr) = Sent(k)
    BY <1>1, <1>7, <2>1
  <2>3. At(tr).at + (n - 1 - tr) <= Sent(At(tr).of)
    BY <1>1, <1>4, <2>2
  <2>4. At(n - 1).of = At(tr).of /\ At(n - 1).at = At(tr).at + (n - 1 - tr)
    BY <1>1, <1>2, <1>7, <2>3 DEF Consecutive
  <2> QED
    BY <1>1, <2>2, <2>4
<1>9. UNCHANGED <<written, ring, frame, pos, errors>>
  BY DEF lineVars
<1>10. written <= n + Capacity
  BY <1>3, <1>4, <1>5
<1>11. ASSUME n < written PROVE At(n).at = 1
  <2>1. n - 1 + 1 = n
    BY <1>6
  <2>2. At(n - 1 + 1).at = 1
    BY <1>2, <1>7, <1>8, <1>11, <2>1 DEF Following
  <2> QED
    BY <2>1, <2>2
<1>12. ASSUME n = written, frame # 0 PROVE pos = 0 \/ pos = Sent(frame)
  <2>1. At(written - 1).of = k /\ At(written - 1).at = Sent(k)
    BY <1>8, <1>12
  <2>2. pos \in Nat
    BY DEF TypeInv
  <2> QED
    BY <1>2, <2>1, <2>2 DEF Latest
<1>13. At(rc.total_read)' = At(n)
  BY <1>9 DEF At, n
<1>14. errors' = FALSE
  BY <1>2, <1>9 DEF AtStart
<1> QED
  BY <1>9, <1>10, <1>11, <1>12, <1>13, <1>14 DEF AtStart, Sent, n

LEMMA PollClean ==
  ASSUME TypeInv, Inv, CleanInv, Poll
  PROVE  CleanInv'
<1> SUFFICES ASSUME Clean' PROVE (Whole /\ Consecutive /\ Following /\ Latest /\ AtStart)'
  BY DEF CleanInv
<1>1. UNCHANGED <<damages, slips, ring, written, frame, pos>> /\ UNCHANGED lineVars
  BY DEF Poll, PollBegin, PollEnd, lineVars
<1>2. gone \subseteq gone'
  BY DEF Poll, PollBegin, PollEnd
<1>3. Clean
  BY <1>1, <1>2 DEF Clean
<1>4. Whole /\ Consecutive /\ Following /\ Latest /\ AtStart
  BY <1>3 DEF CleanInv
<1>5. Held' = Held /\ \A p : At(p)' = At(p)
  BY <1>1 DEF Held, At
<1>6. Whole'
  BY <1>4, <1>5 DEF Whole, Sent
<1>7. Consecutive'
  BY <1>4, <1>5 DEF Consecutive, Sent
<1>8. Following'
  BY <1>1, <1>4, <1>5 DEF Following, Sent
<1>9. Latest'
  BY <1>1, <1>4, <1>5 DEF Latest, Sent
<1>10. CASE rc'.total_read = rc.total_read /\ errors' = errors
  <2>1. At(rc.total_read)' = At(rc.total_read)
    BY <1>1, <1>10 DEF At
  <2>2. AtStart'
    BY <1>1, <1>4, <1>10, <2>1 DEF AtStart, Sent
  <2> QED
    BY <1>6, <1>7, <1>8, <1>9, <2>2
<1>11. CASE PollBegin
  <2>1. /\ seen \in Nat /\ written \in Nat /\ seen <= written
        /\ written - seen <= Capacity - 1 /\ InStep(rc, seen) /\ rc \in Cursors
        /\ rc.total_read \in Nat /\ Capacity \in Nat
    BY CapacityAssumption DEF Inv, InStep, Cursors
  <2>2. written - rc.total_read <= Capacity
    BY <1>4, <2>1 DEF AtStart
  <2>3. rc' = UpdateHead(rc, written % Capacity) /\ errors' = errors
    BY <1>11 DEF PollBegin
  <2>4. rc' = [rc EXCEPT !.last_head = written % Capacity, !.total_written = written]
    BY <2>1, <2>2, <2>3, UpdateReads
  <2>5. rc'.total_read = rc.total_read
    BY <2>1, <2>4 DEF Cursors
  <2> QED
    BY <1>6, <1>7, <1>8, <1>9, <1>10, <2>3, <2>5
<1>12. CASE PollEnd
  <2>1. CASE TooShort
    BY <1>6, <1>7, <1>8, <1>9, <1>10, <2>1 DEF TooShort
  <2>2. CASE Junk
    <3>1. Available(rc) >= RawBytes(1)
      BY <2>2 DEF Junk
    <3>2. PICK k \in Frames :
            GoodLength /\ (Available(rc) >= TotalBytes(LengthByte) => DecodesTo(k))
      BY <1>3, <3>1, CleanFrame
    <3> QED
      BY <2>2, <3>2 DEF Junk
  <2>3. CASE Packet
    <3>1. /\ GoodLength /\ Available(rc) >= RawBytes(1)
          /\ Available(rc) >= TotalBytes(LengthByte)
          /\ rc' = Advanced(rc, TotalBytes(LengthByte)) /\ UNCHANGED errors
      BY <2>3 DEF Packet
    <3>2. AtStart'
      BY <1>1, <1>3, <3>1, PacketClean
    <3> QED
      BY <1>6, <1>7, <1>8, <1>9, <3>2
  <2> QED
    BY <1>12, <2>1, <2>2, <2>3 DEF PollEnd
<1> QED
  BY <1>11, <1>12 DEF Poll

LEMMA CleanInit == Init => CleanInv
<1> SUFFICES ASSUME Init PROVE CleanInv
  OBVIOUS
<1>1. Held = {} /\ written = 0 /\ pos = 0 /\ frame = 0 /\ errors = FALSE
      /\ rc.total_read = 0
  BY CapacityAssumption DEF Init, Held, ResetCursor
<1>2. Whole /\ Consecutive /\ Following
  BY <1>1 DEF Whole, Consecutive, Following
<1>3. Latest /\ AtStart
  BY <1>1, CapacityAssumption DEF Latest, AtStart
<1> QED
  BY <1>2, <1>3 DEF CleanInv

LEMMA CleanKept ==
  ASSUME TypeInv, Inv, Inv', CleanInv, [Next]_vars
  PROVE  CleanInv'
<1>1. CASE UNCHANGED vars
  BY <1>1 DEF vars, lineVars, portVars, CleanInv, Clean, Whole, Consecutive, Following,
              Latest, AtStart, Held, At, Sent
<1>2. CASE Next
  BY <1>2, LineClean, PollClean DEF Next
<1> QED
  BY <1>1, <1>2

\* The drops counted are the frames missing, but for whole rounds of the sequence
\* number, whatever the line did; and on a line that damages nothing no error is
\* counted unless the DMA overtook an unread frame: the port never loses step with
\* the frames (uart_rx_poll_packet).
THEOREM Counters ==
  ASSUME Slack < RawBytes(1)
  PROVE  Spec => []CountersTellTheTruth
<1>1. Init => OrderInv /\ CountInv /\ CleanInv
  BY OrderInit, CleanInit DEF Init, CountInv
<1>2. Inv /\ TypeInv /\ Inv' /\ OrderInv /\ [Next]_vars => OrderInv'
  BY OrderKept
<1>3. Inv /\ TypeInv /\ OrderInv /\ CountInv /\ [Next]_vars => CountInv'
  BY CountKept
<1>4. Inv /\ TypeInv /\ Inv' /\ CleanInv /\ [Next]_vars => CleanInv'
  BY CleanKept
<1>5. Inv /\ TypeInv /\ CountInv /\ CleanInv => CountersTellTheTruth
  <2> SUFFICES ASSUME Inv, TypeInv, CountInv, CleanInv PROVE CountersTellTheTruth
    OBVIOUS
  <2>1. errors => damages > 0 \/ slips > 0 \/ gone # {}
    <3>1. Clean => errors = FALSE
      BY DEF CleanInv, AtStart
    <3>2. damages \in Nat /\ slips \in Nat
      BY UartSizesAssumption DEF TypeInv
    <3> QED
      BY <3>1, <3>2 DEF Clean
  <2> QED
    BY <2>1, CountMeans DEF CountersTellTheTruth
<1> QED
  BY TypeInvariance, <1>1, <1>2, <1>3, <1>4, <1>5, PTL DEF Spec

-----------------------------------------------------------------------------
(* A frame that arrives whole is returned.                                 *)

RawOf(k) == RawBytes(Len(Payloads[k]))

\* Where a frame of which no byte was missed begins, and how much of it is there.
Start(k) == IF k = frame THEN written - pos ELSE ends[k] - Sent(k)
Sofar(k) == IF k = frame THEN pos ELSE Sent(k)

Arrived == {k \in Frames \ gone : k < frame \/ (k = frame /\ pos > 0)}
Returned(k) == \E i \in DOMAIN delivered : delivered[i] = k

\* Where frames end.
EndsInv ==
  /\ frame # 0 => pos <= Sent(frame)
  /\ \A k \in Frames : ends[k] > 0 => k < frame \/ (k = frame /\ pos = Sent(k))
  /\ \A k \in Arrived : /\ Start(k) \in Nat /\ Start(k) + Sofar(k) <= written
                        /\ k = frame /\ pos = Sent(k) => ends[k] = written

\* A frame that is not returned yet lies unread in the ring, byte by byte.
Unread ==
  \A k \in Arrived :
    \/ Returned(k)
    \/ /\ Start(k) >= rc.total_read /\ Start(k) >= written - Capacity
       /\ \A i \in 0 .. Sofar(k) - 1 : At(Start(k) + i).of = k /\ At(Start(k) + i).at = i + 1
       /\ At(Start(k)).v = Len(Payloads[k])

\* It begins after all that the port takes with an earlier one, padding included.
Clear ==
  \A k \in Arrived, p \in Held :
    /\ At(p).of \in Frames /\ At(p).of < k /\ At(p).at = RawOf(At(p).of)
    => p + (Sent(At(p).of) - RawOf(At(p).of)) < Start(k)

IntactInv == EndsInv /\ Unread /\ Clear

LEMMA PaddingFacts ==
  ASSUME NEW k \in Frames
  PROVE  /\ RawOf(k) \in Nat /\ RawOf(k) >= 4 /\ Sent(k) \in Nat /\ RawOf(k) < Sent(k)
         /\ Sent(k) - RawOf(k) \in 1 .. Pad
<1>1. PICK len \in Nat \ {0} : len = Len(Payloads[k])
  BY FrameFacts, UartSizesAssumption
<1>2. Pad \in Nat \ {0} /\ RawBytes(len) \in Nat /\ RawBytes(len) >= 4
  BY UartSizesAssumption DEF RawBytes
<1>3. RawBytes(len) % Pad \in 0 .. Pad - 1
  BY <1>2
<1>4. TotalBytes(len) - RawBytes(len) \in 1 .. Pad /\ TotalBytes(len) \in Nat
      /\ RawBytes(len) < TotalBytes(len)
  <2> HIDE DEF RawBytes
  <2> QED
    BY <1>2, <1>3 DEF TotalBytes
<1> HIDE DEF RawBytes
<1> QED
  BY <1>1, <1>2, <1>4 DEF RawOf, Sent

\* A frame that arrived has a byte in the ring until it is returned.
LEMMA ArrivedFacts ==
  ASSUME TypeInv, Inv, IntactInv, NEW k \in Arrived
  PROVE  /\ k \in Frames /\ k \in Nat \ {0} /\ k \notin gone
         /\ Start(k) \in Nat /\ Sofar(k) \in Nat /\ Sofar(k) > 0
         /\ Start(k) + Sofar(k) <= written
         /\ k <= frame /\ frame \in Nat
<1>1. k \in Frames /\ k \in Nat \ {0} /\ k \notin gone /\ (k < frame \/ (k = frame /\ pos > 0))
  BY FrameFacts DEF Arrived
<1>2. Sent(k) \in Nat /\ Sent(k) > 0
  BY <1>1, PaddingFacts
<1>3. Start(k) \in Nat /\ Start(k) + Sofar(k) <= written
  BY DEF IntactInv, EndsInv
<1>4. frame \in Nat /\ pos \in Nat
  BY ByteTypes DEF TypeInv
<1>5. Sofar(k) \in Nat /\ Sofar(k) > 0
  BY <1>1, <1>2, <1>4 DEF Sofar
<1> QED
  BY <1>1, <1>3, <1>4, <1>5

\* The bytes of a frame that is not returned are in the ring.
LEMMA UnreadHeld ==
  ASSUME TypeInv, Inv, IntactInv, NEW k \in Arrived, ~ Returned(k), NEW i \in 0 .. Sofar(k) - 1
  PROVE  /\ Start(k) + i \in Held /\ Start(k) + i \in Nat
         /\ At(Start(k) + i).of = k /\ At(Start(k) + i).at = i + 1
<1>1. Start(k) \in Nat /\ Sofar(k) \in Nat /\ Start(k) + Sofar(k) <= written
  BY ArrivedFacts
<1>2. /\ Start(k) >= written - Capacity
      /\ At(Start(k) + i).of = k /\ At(Start(k) + i).at = i + 1
  BY DEF IntactInv, Unread
<1>3. written \in Nat /\ Capacity \in Nat
  BY ReadFacts
<1> QED
  BY <1>1, <1>2, <1>3 DEF Held

-----------------------------------------------------------------------------
(* The line.                                                               *)

\* A frame that arrived keeps its place when a byte is written that does not
\* overwrite it.
LEMMA WriteUnread ==
  ASSUME TypeInv, Inv, IntactInv, NEW c \in Cell, Write(c), rc' = rc, delivered' = delivered,
         Overwritten \subseteq gone', NEW k \in Arrived, k \notin gone',
         ~ Returned(k)
  PROVE  /\ Start(k) >= rc.total_read /\ Start(k) >= (written + 1) - Capacity
         /\ \A i \in 0 .. Sofar(k) - 1 : /\ (At(Start(k) + i).of = k /\ At(Start(k) + i).at = i + 1)
                                         /\ ring'[(Start(k) + i) % Capacity] = At(Start(k) + i)
<1> DEFINE s == Start(k)
<1>1. s \in Nat /\ Sofar(k) \in Nat /\ Sofar(k) > 0 /\ s + Sofar(k) <= written /\ k # 0
  BY ArrivedFacts
<1>2. s >= rc.total_read /\ s >= written - Capacity
  BY DEF IntactInv, Unread
<1>3. rc.total_read \in Nat /\ written \in Nat /\ Capacity \in Nat \ {0}
  BY ReadFacts
<1>4. s # written - Capacity
  <2> SUFFICES ASSUME s = written - Capacity PROVE FALSE
    OBVIOUS
  <2>1. written = s + Capacity
    BY <1>1, <1>3
  <2>2. ring[written % Capacity] = At(s)
    BY <1>1, <2>1, PlaceLap DEF At
  <2>3. 0 \in 0 .. Sofar(k) - 1 /\ s + 0 = s
    BY <1>1
  <2>4. At(s).of = k
    BY <2>3, UnreadHeld
  <2>5. written - Capacity >= rc.total_read
    BY <1>2
  <2>6. k \in Overwritten
    BY <1>1, <2>2, <2>4, <2>5 DEF Overwritten
  <2> QED
    BY <2>6
<1> HIDE DEF s
<1>5. s >= (written + 1) - Capacity
  BY <1>1, <1>2, <1>3, <1>4
<1>6. ASSUME NEW i \in 0 .. Sofar(k) - 1
      PROVE  /\ At(s + i).of = k /\ At(s + i).at = i + 1
             /\ ring'[(s + i) % Capacity] = At(s + i)
  <2>1. At(s + i).of = k /\ At(s + i).at = i + 1
    BY UnreadHeld DEF s
  <2>2. s + i \in Nat /\ s + i < written /\ written - (s + i) < Capacity
    BY <1>1, <1>3, <1>5
  <2>3. (s + i) % Capacity # written % Capacity
    BY <1>3, <2>2, Apart
  <2>4. ring' = [ring EXCEPT ![written % Capacity] = c] /\ ring \in [Places -> Cell]
    BY DEF Write, TypeInv
  <2>5. (s + i) % Capacity \in Places
    BY <2>2, Division
  <2>6. ring'[(s + i) % Capacity] = ring[(s + i) % Capacity]
    BY <2>3, <2>4, <2>5, Zenon
  <2> QED
    BY <2>1, <2>6 DEF At
<1> QED
  BY <1>2, <1>5, <1>6 DEF s

\* The first byte of a frame that does not encroach lies clear of those before.
LEMMA NotEncroaching ==
  ASSUME TypeInv, Inv, ~ Encroaching, NEW p \in Held, At(p).of \in Frames,
         At(p).at = RawOf(At(p).of)
  PROVE  p + (Sent(At(p).of) - RawOf(At(p).of)) < written
<1> DEFINE j == At(p).of
           q == written - p
<1>1. p \in Nat /\ p < written /\ written \in Nat
  BY ReadFacts DEF Held
<1>2. Sent(j) - RawOf(j) \in 1 .. Pad /\ j # 0 /\ Sent(j) \in Nat /\ RawOf(j) \in Nat
  BY PaddingFacts, FrameFacts
<1> SUFFICES ASSUME ~ (p + (Sent(j) - RawOf(j)) < written) PROVE FALSE
  OBVIOUS
<1>3. q \in 1 .. Pad /\ q <= written /\ q <= Sent(j) - RawOf(j) /\ written - q = p
  <2> HIDE DEF j
  <2>1. Pad \in Nat
    BY UartSizesAssumption
  <2> QED
    BY <1>1, <1>2, <2>1
<1>4. ring[(written - q) % Capacity] = At(p)
  BY <1>3 DEF At
<1>5. q <= Sent(At(p).of) - At(p).at /\ At(p).at = RawBytes(Len(Payloads[At(p).of]))
  BY <1>3 DEF RawOf
<1> HIDE DEF q
<1> QED
  BY <1>2, <1>3, <1>4, <1>5 DEF Encroaching

LEMMA TransmitIntact ==
  ASSUME TypeInv, Inv, IntactInv, Transmit
  PROVE  IntactInv'
<1>0. PICK w \in Nat : w = written
  BY ReadFacts
<1> DEFINE c == NextCell
<1>1. frame \in Frames /\ pos \in Nat /\ pos < Sent(frame) /\ Sent(frame) \in Nat
      /\ frame \in Nat \ {0}
  <2>1. frame \in Frames /\ pos \in Nat /\ pos < Sent(frame)
    BY DEF Transmit, Sending, TypeInv
  <2> QED
    BY <2>1, SentFacts, FrameFacts
<1>2. c \in Cell /\ c.of = frame /\ c.at = pos + 1 /\ (pos = 0 => c.v = Len(Payloads[frame]))
  BY <1>1, NextCellFacts
<1>3. /\ Write(c) /\ frame' = frame /\ pos' = pos + 1 /\ rc' = rc /\ delivered' = delivered
      /\ gone \subseteq gone' /\ Overwritten \subseteq gone'
      /\ pos = 0 /\ Encroaching => frame \in gone'
      /\ ends' = IF pos + 1 = Sent(frame) THEN [ends EXCEPT ![frame] = w + 1] ELSE ends
  BY <1>0 DEF Transmit, portVars, Write
<1> HIDE DEF c
<1>4. /\ written' = w + 1
      /\ \A p \in Held' : \/ p = w /\ At(p)' = c
                          \/ p \in Held /\ At(p)' = At(p)
  BY <1>0, <1>2, <1>3, WriteHeld
<1>5. ends \in [Frames -> Nat] /\ Capacity \in Nat \ {0} /\ rc.total_read \in Nat
      /\ rc.total_read <= w
  BY <1>0, ReadFacts DEF TypeInv
<1>6. \A k \in Frames : ends'[k] = IF k = frame /\ pos + 1 = Sent(frame) THEN w + 1 ELSE ends[k]
  BY <1>1, <1>3, <1>5
<1>7. ring'[w % Capacity] = c
  <2>1. w % Capacity \in Places
    BY <1>0, Division
  <2>2. ring' = [ring EXCEPT ![w % Capacity] = c] /\ ring \in [Places -> Cell]
    BY <1>0, <1>3 DEF Write, TypeInv
  <2> QED
    BY <2>1, <2>2, Zenon
<1>8. ASSUME NEW k \in Arrived'
      PROVE  /\ k \in Frames /\ k \notin gone' /\ Sent(k) \in Nat /\ k <= frame /\ k \in Nat
             /\ k \in Arrived \/ (k = frame /\ pos = 0)
  <2>1. k \in Frames /\ k \notin gone' /\ (k < frame \/ k = frame)
    BY <1>3 DEF Arrived
  <2>2. k \in Nat /\ Sent(k) \in Nat
    BY <2>1, FrameFacts, SentFacts
  <2>3. k \in Arrived \/ (k = frame /\ pos = 0)
    BY <1>1, <1>3, <2>1 DEF Arrived
  <2> QED
    BY <1>1, <2>1, <2>2, <2>3
\* A frame stays where it begins; the new one begins at the byte written.
<1>9. ASSUME NEW k \in Arrived'
      PROVE  /\ k \in Arrived => Start(k)' = Start(k)
             /\ k = frame /\ pos = 0 => Start(k)' = w
             /\ k = frame => Sofar(k)' = pos + 1
             /\ k # frame => Sofar(k)' = Sofar(k)
  <2>1. CASE k = frame
    <3>1. Start(k)' = w + 1 - (pos + 1) /\ Sofar(k)' = pos + 1
      BY <1>3, <1>4, <2>1 DEF Start, Sofar
    <3>2. Start(k) = w - pos
      BY <1>0, <2>1 DEF Start
    <3>3. w + 1 - (pos + 1) = w - pos /\ w - 0 = w
      BY <1>0, <1>1
    <3> QED
      BY <2>1, <3>1, <3>2, <3>3
  <2>2. CASE k # frame
    BY <1>3, <1>6, <1>8, <2>2 DEF Start, Sofar, Sent
  <2> QED
    BY <2>1, <2>2
<1>10. EndsInv'
  <2>1. frame' # 0 => pos' <= Sent(frame')
    BY <1>1, <1>3
  <2>2. ASSUME NEW k \in Frames, ends'[k] > 0
        PROVE  k < frame \/ (k = frame /\ pos + 1 = Sent(k))
    <3>1. ends[k] > 0 => k < frame \/ (k = frame /\ pos = Sent(k))
      BY DEF IntactInv, EndsInv
    <3> QED
      BY <1>1, <1>6, <2>2, <3>1
  <2>3. ASSUME NEW k \in Arrived'
        PROVE  /\ Start(k)' \in Nat /\ Start(k)' + Sofar(k)' <= w + 1
               /\ k = frame /\ pos + 1 = Sent(k) => ends'[k] = w + 1
    <3>1. k = frame /\ pos + 1 = Sent(k) => ends'[k] = w + 1
      BY <1>1, <1>6
    <3>2. CASE k \in Arrived
      <4>1. Start(k) \in Nat /\ Sofar(k) \in Nat /\ Start(k) + Sofar(k) <= w
        BY <1>0, <3>2, ArrivedFacts
      <4>2. k = frame => Sofar(k) = pos
        BY DEF Sofar
      <4>3. Sofar(k)' = Sofar(k) \/ Sofar(k)' = Sofar(k) + 1
        BY <1>9, <4>2
      <4> QED
        BY <1>9, <3>1, <3>2, <4>1, <4>3
    <3>3. CASE k = frame /\ pos = 0
      <4>1. Start(k)' = w /\ Sofar(k)' = 1
        BY <1>9, <3>3
      <4> QED
        BY <1>0, <3>1, <4>1
    <3> QED
      BY <1>8, <3>2, <3>3
  <2>4. \A k \in Frames : ends'[k] > 0 => k < frame' \/ (k = frame' /\ pos' = Sent(k)')
    BY <1>3, <2>2 DEF Sent
  <2>5. \A k \in Arrived' : /\ Start(k)' \in Nat /\ Start(k)' + Sofar(k)' <= written'
                            /\ k = frame' /\ pos' = Sent(k)' => ends'[k] = written'
    BY <1>3, <1>4, <2>3 DEF Sent
  <2> QED
    BY <2>1, <2>4, <2>5 DEF EndsInv, Sent
<1>11. Unread'
  <2> SUFFICES ASSUME NEW k \in Arrived', ~ Returned(k)
               PROVE  /\ Start(k)' >= rc.total_read /\ Start(k)' >= (w + 1) - Capacity
                      /\ \A i \in 0 .. Sofar(k)' - 1 :
                            ring'[(Start(k)' + i) % Capacity].of = k
                              /\ ring'[(Start(k)' + i) % Capacity].at = i + 1
                      /\ ring'[Start(k)' % Capacity].v = Len(Payloads[k])
    BY <1>3, <1>4 DEF Unread, Returned, At
  <2>1. CASE k = frame /\ pos = 0
    <3>1. Start(k)' = w /\ Sofar(k)' = 1
      BY <1>9, <2>1
    <3>2. ASSUME NEW i \in 0 .. 1 - 1
          PROVE  ring'[(w + i) % Capacity].of = k /\ ring'[(w + i) % Capacity].at = i + 1
      <4>1. i = 0 /\ w + i = w
        BY <1>0
      <4> QED
        BY <1>2, <1>7, <2>1, <4>1
    <3>3. w >= rc.total_read /\ w >= (w + 1) - Capacity
      BY <1>0, <1>5
    <3>4. ring'[w % Capacity].v = Len(Payloads[k])
      BY <1>2, <1>7, <2>1
    <3> QED
      BY <3>1, <3>2, <3>3, <3>4
  <2>2. CASE k \in Arrived
    <3> DEFINE s == Start(k)
    <3>1. Start(k)' = s
      BY <1>9, <2>2
    <3>2. /\ s >= rc.total_read /\ s >= (w + 1) - Capacity
          /\ \A i \in 0 .. Sofar(k) - 1 : /\ (At(s + i).of = k /\ At(s + i).at = i + 1)
                                          /\ ring'[(s + i) % Capacity] = At(s + i)
      BY <1>0, <1>2, <1>3, <1>8, <2>2, WriteUnread
    <3>3. s \in Nat /\ Sofar(k) \in Nat /\ Sofar(k) > 0 /\ s + Sofar(k) <= w
      BY <1>0, <2>2, ArrivedFacts
    <3>4. ring'[s % Capacity].v = Len(Payloads[k])
      <4>1. 0 \in 0 .. Sofar(k) - 1 /\ s + 0 = s
        BY <3>3
      <4>2. ring'[s % Capacity] = At(s)
        BY <3>2, <4>1
      <4>3. At(s).v = Len(Payloads[k])
        BY <2>2 DEF IntactInv, Unread
      <4> QED
        BY <4>2, <4>3
    <3>5. k = frame => s + pos = w /\ Sofar(k) = pos
      <4>1. k = frame => s = w - pos /\ Sofar(k) = pos
        BY <1>0 DEF Start, Sofar
      <4> HIDE DEF s
      <4> QED
        BY <1>0, <1>1, <4>1
    <3> HIDE DEF s
    <3>6. ASSUME NEW i \in 0 .. Sofar(k)' - 1
          PROVE  ring'[(s + i) % Capacity].of = k /\ ring'[(s + i) % Capacity].at = i + 1
      <4>1. CASE i \in 0 .. Sofar(k) - 1
        BY <3>2, <4>1
      <4>2. CASE ~ (i \in 0 .. Sofar(k) - 1)
        <5>1. k = frame /\ i = pos
          <6>1. CASE k = frame
            BY <1>1, <1>9, <3>5, <4>2, <6>1
          <6>2. CASE k # frame
            BY <1>9, <4>2, <6>2
          <6> QED
            BY <6>1, <6>2
        <5>2. s + i = w
          BY <3>5, <5>1
        <5> QED
          BY <1>2, <1>7, <5>1, <5>2
      <4> QED
        BY <4>1, <4>2
    <3> QED
      BY <3>1, <3>2, <3>4, <3>6
  <2> QED
    BY <1>8, <2>1, <2>2
<1>12. Clear'
  <2> SUFFICES ASSUME NEW k \in Arrived', NEW p \in Held', At(p)'.of \in Frames,
                      At(p)'.of < k, At(p)'.at = RawOf(At(p)'.of)
               PROVE  p + (Sent(At(p)'.of) - RawOf(At(p)'.of)) < Start(k)'
    BY DEF Clear, Sent, RawOf
  <2>1. p \in Held /\ At(p)' = At(p)
    <3>1. ~ (At(p)' = c)
      <4>1. ~ (frame < k)
        BY <1>1, <1>8
      <4> QED
        BY <1>2, <4>1
    <3> QED
      BY <1>4, <3>1
  <2>2. CASE k = frame /\ pos = 0
    <3>1. ~ Encroaching
      BY <1>3, <1>8, <2>2
    <3>2. p + (Sent(At(p).of) - RawOf(At(p).of)) < w
      BY <1>0, <2>1, <3>1, NotEncroaching
    <3> QED
      BY <1>9, <2>1, <2>2, <3>2
  <2>3. CASE k \in Arrived
    <3>1. p + (Sent(At(p).of) - RawOf(At(p).of)) < Start(k)
      BY <2>1, <2>3 DEF IntactInv, Clear
    <3> QED
      BY <1>9, <2>1, <2>3, <3>1
  <2> QED
    BY <1>8, <2>2, <2>3
<1> QED
  BY <1>10, <1>11, <1>12 DEF IntactInv

-----------------------------------------------------------------------------
LEMMA DamageIntact ==
  ASSUME TypeInv, Inv, IntactInv, Damage
  PROVE  IntactInv'
<1>0. PICK w \in Nat : w = written
  BY ReadFacts
<1>1. PICK v \in Noise : Write([Blank EXCEPT !.v = v])
  BY DEF Damage
<1> DEFINE c == [Blank EXCEPT !.v = v]
<1>2. c \in Cell /\ c.of = 0
  BY UartSizesAssumption DEF Blank, Cell
<1>3. /\ Write(c) /\ frame' = frame /\ pos' = pos + 1 /\ rc' = rc /\ delivered' = delivered
      /\ gone \subseteq gone' /\ Overwritten \subseteq gone' /\ frame \in gone' /\ ends' = ends
      /\ frame \in Frames /\ pos < Sent(frame) /\ pos \in Nat /\ Sent(frame) \in Nat
  <2>1. frame \in Frames /\ pos \in Nat /\ pos < Sent(frame)
    BY DEF Damage, Sending, TypeInv
  <2>2. Sent(frame) \in Nat
    BY <2>1, SentFacts
  <2> QED
    BY <1>1, <2>1, <2>2 DEF Damage, portVars, Write
<1> HIDE DEF c
<1>4. /\ written' = w + 1
      /\ \A p \in Held' : \/ p = w /\ At(p)' = c
                          \/ p \in Held /\ At(p)' = At(p)
  BY <1>0, <1>2, <1>3, WriteHeld
<1>5. ASSUME NEW k \in Arrived'
      PROVE  /\ k \in Arrived /\ k \in Frames /\ k \notin gone' /\ k # frame
             /\ Start(k)' = Start(k) /\ Sofar(k)' = Sofar(k)
  BY <1>3 DEF Arrived, Start, Sofar, Sent
<1>6. EndsInv'
  <2>1. frame' # 0 => pos' <= Sent(frame')
    BY <1>3
  <2>2. \A k \in Frames : ends'[k] > 0 => k < frame' \/ (k = frame' /\ pos' = Sent(k)')
    <3>1. \A k \in Frames : ends[k] > 0 => k < frame \/ (k = frame /\ pos = Sent(k))
      BY DEF IntactInv, EndsInv
    <3> QED
      BY <1>3, <3>1
  <2>3. \A k \in Arrived' : /\ Start(k)' \in Nat /\ Start(k)' + Sofar(k)' <= written'
                            /\ k = frame' /\ pos' = Sent(k)' => ends'[k] = written'
    <3> SUFFICES ASSUME NEW k \in Arrived'
                 PROVE  Start(k)' \in Nat /\ Start(k)' + Sofar(k)' <= written'
      BY <1>3, <1>5
    <3>1. Start(k) \in Nat /\ Sofar(k) \in Nat /\ Start(k) + Sofar(k) <= w
      BY <1>0, <1>5, ArrivedFacts
    <3> QED
      BY <1>4, <1>5, <3>1
  <2> QED
    BY <2>1, <2>2, <2>3 DEF EndsInv, Sent
<1>7. Unread'
  <2> SUFFICES ASSUME NEW k \in Arrived', ~ Returned(k)
               PROVE  /\ Start(k) >= rc.total_read /\ Start(k) >= (w + 1) - Capacity
                      /\ \A i \in 0 .. Sofar(k) - 1 :
                            ring'[(Start(k) + i) % Capacity].of = k
                              /\ ring'[(Start(k) + i) % Capacity].at = i + 1
                      /\ ring'[Start(k) % Capacity].v = Len(Payloads[k])
    BY <1>3, <1>4, <1>5 DEF Unread, Returned, At
  <2>1. /\ Start(k) >= rc.total_read /\ Start(k) >= (w + 1) - Capacity
        /\ \A i \in 0 .. Sofar(k) - 1 : /\ (At(Start(k) + i).of = k /\ At(Start(k) + i).at = i + 1)
                                        /\ ring'[(Start(k) + i) % Capacity] = At(Start(k) + i)
    BY <1>0, <1>2, <1>3, <1>5, WriteUnread
  <2>2. 0 \in 0 .. Sofar(k) - 1 /\ Start(k) + 0 = Start(k)
    <3>1. Start(k) \in Nat /\ Sofar(k) \in Nat /\ Sofar(k) > 0
      BY <1>5, ArrivedFacts
    <3> QED
      BY <3>1
  <2>3. ring'[Start(k) % Capacity] = At(Start(k))
    BY <2>1, <2>2
  <2>4. At(Start(k)).v = Len(Payloads[k])
    BY <1>5 DEF IntactInv, Unread
  <2> QED
    BY <2>1, <2>3, <2>4
<1>8. Clear'
  <2> SUFFICES ASSUME NEW k \in Arrived', NEW p \in Held', At(p)'.of \in Frames,
                      At(p)'.of < k, At(p)'.at = RawOf(At(p)'.of)
               PROVE  p + (Sent(At(p)'.of) - RawOf(At(p)'.of)) < Start(k)'
    BY DEF Clear, Sent, RawOf
  <2>1. p \in Held /\ At(p)' = At(p)
    <3>1. ~ (At(p)' = c)
      BY <1>2, FrameFacts
    <3> QED
      BY <1>4, <3>1
  <2>2. p + (Sent(At(p).of) - RawOf(At(p).of)) < Start(k)
    BY <1>5, <2>1 DEF IntactInv, Clear
  <2> QED
    BY <1>5, <2>1, <2>2
<1> QED
  BY <1>6, <1>7, <1>8 DEF IntactInv

\* A step in which neither the ring changes nor the place of a frame in it.
LEMMA SameIntact ==
  ASSUME TypeInv, Inv, IntactInv, EndsInv', UNCHANGED <<ring, written>>,
         \A k \in Arrived' : k \in Arrived /\ Start(k)' = Start(k) /\ Sofar(k)' = Sofar(k),
         \A k \in Arrived' : Returned(k) => Returned(k)',
         \A k \in Arrived' : ~ Returned(k) => Returned(k)' \/ Start(k) >= rc'.total_read
  PROVE  IntactInv'
<1>1. Held' = Held /\ \A p : At(p)' = At(p)
  BY DEF Held, At
<1>2. Unread'
  <2> SUFFICES ASSUME NEW k \in Arrived'
               PROVE  \/ Returned(k)'
                      \/ /\ Start(k) >= rc'.total_read /\ Start(k) >= written - Capacity
                         /\ \A i \in 0 .. Sofar(k) - 1 :
                               At(Start(k) + i).of = k /\ At(Start(k) + i).at = i + 1
                         /\ At(Start(k)).v = Len(Payloads[k])
    BY <1>1 DEF Unread, At
  <2>1. CASE Returned(k)
    BY <2>1
  <2>2. CASE ~ Returned(k)
    BY <2>2 DEF IntactInv, Unread
  <2> QED
    BY <2>1, <2>2
<1>3. Clear'
  <2> SUFFICES ASSUME NEW k \in Arrived', NEW p \in Held, At(p).of \in Frames,
                      At(p).of < k, At(p).at = RawOf(At(p).of)
               PROVE  p + (Sent(At(p).of) - RawOf(At(p).of)) < Start(k)
    BY <1>1 DEF Clear, Sent, RawOf
  <2> QED
    BY DEF IntactInv, Clear
<1> QED
  BY <1>2, <1>3 DEF IntactInv

LEMMA StartIntact ==
  ASSUME TypeInv, Inv, IntactInv, StartFrame
  PROVE  IntactInv'
<1>1. /\ UNCHANGED <<ring, written, ends, gone, rc, delivered>>
      /\ frame' = frame + 1 /\ pos' = 0 /\ ~ Sending
  BY DEF StartFrame, portVars
<1>2. frame \in Nat /\ pos \in Nat /\ frame \in Frames \cup {0} /\ written \in Nat
      /\ ends \in [Frames -> Nat]
  BY ByteTypes, ReadFacts DEF TypeInv
<1>3. \A k \in Frames : k \in Nat \ {0} /\ Sent(k) \in Nat /\ Sent(k) > 0
  <2>1. \A k \in Frames : k \in Nat \ {0} /\ Sent(k) \in Nat /\ Sent(k) >= 4
    BY FrameFacts, SentFacts
  <2> QED
    BY <2>1
<1>4. frame \in Frames => pos = Sent(frame)
  <2>1. frame \in Frames => pos <= Sent(frame) /\ ~ (pos < Sent(frame))
    BY <1>1, <1>3 DEF IntactInv, EndsInv, Sending
  <2> QED
    BY <1>2, <1>3, <2>1
<1>5. ASSUME NEW k \in Arrived'
      PROVE  /\ k \in Arrived /\ k \in Frames /\ k <= frame /\ k # frame'
             /\ Start(k)' = Start(k) /\ Sofar(k)' = Sofar(k)
             /\ k = frame => ends[k] = written
  <2>1. k \in Frames /\ k \notin gone /\ k \in Nat /\ k <= frame
    BY <1>1, <1>2, <1>3 DEF Arrived
  <2>2. k \in Arrived
    BY <1>2, <1>3, <1>4, <2>1 DEF Arrived
  <2>3. Start(k)' = ends[k] - Sent(k) /\ Sofar(k)' = Sent(k)
    BY <1>1, <1>2, <2>1 DEF Start, Sofar, Sent
  <2>4. k = frame => ends[k] = written
    BY <1>4, <2>1, <2>2 DEF IntactInv, EndsInv
  <2>5. Start(k) = ends[k] - Sent(k) /\ Sofar(k) = Sent(k)
    BY <1>4, <2>1, <2>4 DEF Start, Sofar
  <2> QED
    BY <1>1, <1>2, <2>1, <2>2, <2>3, <2>4, <2>5
<1>6. EndsInv'
  <2>1. pos' <= Sent(frame') \/ frame' = 0
    <3>1. frame + 1 \in Frames
      <4>1. Payloads \in Seq(Seq(Values)) /\ frame < Len(Payloads)
        BY UartSizesAssumption DEF StartFrame
      <4>2. Frames = 1 .. Len(Payloads) /\ Len(Payloads) \in Nat
        BY <4>1 DEF Frames
      <4> QED
        BY <1>2, <4>1, <4>2
    <3> QED
      BY <1>1, <1>3, <3>1
  <2>2. \A k \in Frames : ends[k] > 0 => k < frame'
    <3>1. \A k \in Frames : ends[k] > 0 => k < frame \/ k = frame
      BY DEF IntactInv, EndsInv
    <3> QED
      BY <1>1, <1>2, <1>3, <3>1
  <2>3. \A k \in Arrived' : Start(k)' \in Nat /\ Start(k)' + Sofar(k)' <= written'
    BY <1>1, <1>5 DEF IntactInv, EndsInv
  <2> QED
    BY <1>1, <1>5, <2>1, <2>2, <2>3 DEF EndsInv, Sent
<1>7. \A k \in Arrived' : ~ Returned(k) => Start(k) >= rc'.total_read
  BY <1>1, <1>5 DEF IntactInv, Unread
<1>8. \A k \in Arrived' : Returned(k) => Returned(k)'
  BY <1>1 DEF Returned
<1> QED
  BY <1>1, <1>5, <1>6, <1>7, <1>8, SameIntact

LEMMA SlipIntact ==
  ASSUME TypeInv, Inv, IntactInv, Slip
  PROVE  IntactInv'
<1>1. /\ UNCHANGED <<ring, written, ends, rc, delivered, frame>>
      /\ pos' = pos + 1 /\ gone' = gone \cup {frame}
      /\ frame \in Frames /\ pos < Sent(frame) /\ pos \in Nat /\ Sent(frame) \in Nat
  <2>1. frame \in Frames /\ pos < Sent(frame) /\ pos \in Nat
    BY DEF Slip, Sending, TypeInv
  <2>2. Sent(frame) \in Nat
    BY <2>1, SentFacts
  <2> QED
    BY <2>1, <2>2 DEF Slip, portVars
<1>2. ASSUME NEW k \in Arrived'
      PROVE  /\ k \in Arrived /\ k # frame
             /\ Start(k)' = Start(k) /\ Sofar(k)' = Sofar(k)
  BY <1>1 DEF Arrived, Start, Sofar, Sent
<1>3. EndsInv'
  <2>1. frame' # 0 => pos' <= Sent(frame')
    BY <1>1
  <2>2. \A k \in Frames : ends[k] > 0 => k < frame
    <3>1. \A k \in Frames : ends[k] > 0 => k < frame \/ (k = frame /\ pos = Sent(k))
      BY DEF IntactInv, EndsInv
    <3> QED
      BY <1>1, <3>1
  <2>3. \A k \in Arrived' : Start(k)' \in Nat /\ Start(k)' + Sofar(k)' <= written'
    BY <1>1, <1>2 DEF IntactInv, EndsInv
  <2> QED
    BY <1>1, <1>2, <2>1, <2>2, <2>3 DEF EndsInv, Sent
<1>4. \A k \in Arrived' : ~ Returned(k) => Start(k) >= rc'.total_read
  BY <1>1, <1>2 DEF IntactInv, Unread
<1>5. \A k \in Arrived' : Returned(k) => Returned(k)'
  BY <1>1 DEF Returned
<1> QED
  BY <1>1, <1>2, <1>3, <1>4, <1>5, SameIntact

-----------------------------------------------------------------------------
(* The polls.                                                              *)

\* A poll changes nothing on the line.
LEMMA PollIntact ==
  ASSUME TypeInv, Inv, IntactInv, UNCHANGED lineVars, gone \subseteq gone',
         \A k \in Frames : Returned(k) => Returned(k)',
         \A k \in Arrived : k \notin gone' /\ ~ Returned(k)
                              => Returned(k)' \/ Start(k) >= rc'.total_read
  PROVE  IntactInv'
<1>1. UNCHANGED <<ring, written, ends, frame, pos>>
  BY DEF lineVars
<1>2. ASSUME NEW k \in Arrived'
      PROVE  /\ k \in Arrived /\ k \in Frames /\ k \notin gone'
             /\ Start(k)' = Start(k) /\ Sofar(k)' = Sofar(k)
  BY <1>1 DEF Arrived, Start, Sofar, Sent
<1>3. EndsInv'
  BY <1>1, <1>2 DEF IntactInv, EndsInv, Sent
<1>4. \A k \in Arrived' : ~ Returned(k) => Returned(k)' \/ Start(k) >= rc'.total_read
  BY <1>2
<1>5. \A k \in Arrived' : Returned(k) => Returned(k)'
  BY <1>2
<1> QED
  BY <1>1, <1>2, <1>3, <1>4, <1>5, SameIntact

\* An overrun jumps over no frame that is still counted as whole.
LEMMA BeginIntact ==
  ASSUME TypeInv, Inv, Inv', IntactInv, PollBegin
  PROVE  IntactInv'
<1>1. UNCHANGED lineVars /\ delivered' = delivered /\ gone \subseteq gone'
  BY DEF PollBegin
<1>2. \A k \in Frames : Returned(k) => Returned(k)'
  BY <1>1 DEF Returned
<1>3. ASSUME NEW k \in Arrived, k \notin gone', ~ Returned(k)
      PROVE  Start(k) >= rc'.total_read
  <2> DEFINE s == Start(k)
  <2>1. s >= rc.total_read /\ s >= written - Capacity /\ s \in Nat /\ s < written
    <3>1. s \in Nat /\ s + Sofar(k) <= written /\ Sofar(k) \in Nat /\ Sofar(k) > 0
      BY ArrivedFacts
    <3>2. s >= rc.total_read /\ s >= written - Capacity
      BY <1>3 DEF IntactInv, Unread
    <3>3. written \in Nat
      BY ReadFacts
    <3> QED
      BY <3>1, <3>2, <3>3
  <2>2. At(s).of = k /\ k # 0
    <3>1. Sofar(k) \in Nat /\ Sofar(k) > 0 /\ k # 0
      BY ArrivedFacts
    <3>2. 0 \in 0 .. Sofar(k) - 1 /\ s + 0 = s
      BY <2>1, <3>1
    <3> HIDE DEF s
    <3>3. At(s + 0).of = k
      BY <1>3, <3>2, UnreadHeld DEF s
    <3> QED
      BY <3>1, <3>2, <3>3
  <2> HIDE DEF s
  <2>3. rc.total_read \in Nat /\ rc'.total_read \in Nat
    BY DEF Inv, InStep, Cursors
  <2>4. CASE rc'.total_read = rc.total_read
    BY <2>1, <2>4 DEF s
  <2>5. CASE rc'.total_read # rc.total_read
    <3> SUFFICES ASSUME ~ (s >= rc'.total_read) PROVE FALSE
      BY DEF s
    <3>1. s \in rc.total_read .. rc'.total_read - 1
      BY <2>1, <2>3
    <3>2. k \in FramesBetween(rc.total_read, rc'.total_read)
      BY <2>1, <2>2, <3>1 DEF FramesBetween, At
    <3>3. rc'.overrun_count # rc.overrun_count
      <4>1. /\ rc \in Cursors /\ rc' = UpdateHead(rc, written % Capacity)
        BY DEF PollBegin, Inv, InStep
      <4> DEFINE m == [rc EXCEPT !.last_head = written % Capacity,
                                 !.total_written = @ + Moved(rc, written % Capacity)]
      <4>2. m.total_read = rc.total_read /\ m.overrun_count = rc.overrun_count
            /\ rc.overrun_count \in Nat
        BY <4>1 DEF Cursors
      <4>3. rc' = IF Behind(m) > Capacity THEN Recover(m) ELSE m
        BY <4>1 DEF UpdateHead
      <4> HIDE DEF m
      <4>4. rc' = Recover(m)
        BY <2>5, <4>2, <4>3
      <4>5. rc'.overrun_count = m.overrun_count + 1
        <5>1. "overrun_count" \in DOMAIN m
          BY <4>1 DEF m, Cursors
        <5> QED
          BY <4>4, <5>1 DEF Recover
      <4> QED
        BY <4>2, <4>5
    <3>4. k \in gone'
      BY <3>2, <3>3 DEF PollBegin
    <3> QED
      BY <1>3, <3>4
  <2> QED
    BY <2>4, <2>5 DEF s
<1> QED
  BY <1>1, <1>2, <1>3, PollIntact

\* What stands at the tail is returned, if it is a whole frame.
LEMMA HeadDecodes ==
  ASSUME TypeInv, Inv, OrderInv, IntactInv, pc = "extract", NEW k \in Arrived, ~ Returned(k),
         Start(k) = rc.total_read
  PROVE  /\ Available(rc) >= RawBytes(1) => GoodLength /\ LengthByte = Len(Payloads[k])
         /\ Available(rc) >= TotalBytes(LengthByte) /\ Available(rc) >= RawBytes(1)
              => DecodesTo(k)
<1>0. PICK tr \in Nat : tr = rc.total_read
  BY ReadFacts
<1>1. k \in Frames /\ Sofar(k) \in Nat /\ Sofar(k) > 0 /\ tr + Sofar(k) <= written
  BY <1>0, ArrivedFacts
<1>2. seen \in Nat /\ written \in Nat /\ tr <= seen /\ seen <= written /\ InStep(rc, seen)
  BY <1>0, ReadFacts
<1>3. Available(rc) = seen - tr
  <2>1. seen - rc.total_read <= Capacity /\ 0 \in Nat
    BY DEF OrderInv, Looking
  <2> QED
    BY <1>0, <1>2, <2>1, AdvanceReads
<1>4. LengthByte = Len(Payloads[k]) /\ GoodLength
  <2>1. At(tr).v = Len(Payloads[k])
    BY <1>0 DEF IntactInv, Unread
  <2>2. Byte(0) = At(tr + 0) /\ tr + 0 = tr
    BY <1>0, ByteIsAt
  <2>3. LengthByte = Len(Payloads[k])
    BY <2>1, <2>2 DEF LengthByte
  <2> QED
    BY <1>1, <2>3, FrameFacts DEF GoodLength
<1>5. ASSUME Available(rc) >= TotalBytes(LengthByte) PROVE DecodesTo(k)
  <2>1. RawOf(k) \in Nat /\ RawOf(k) < Sent(k) /\ Sent(k) \in Nat
        /\ TotalBytes(LengthByte) = Sent(k) /\ RawBytes(LengthByte) = RawOf(k)
    BY <1>1, <1>4, PaddingFacts DEF Sent, RawOf
  <2>2. RawOf(k) <= Sofar(k)
    <3>1. CASE k = frame
      <4>1. Start(k) = written - pos /\ pos \in Nat /\ Sofar(k) = pos
        BY <3>1 DEF Start, Sofar, TypeInv
      <4>2. written - pos = tr
        BY <1>0, <4>1
      <4> QED
        BY <1>2, <1>3, <1>5, <2>1, <4>1, <4>2
    <3>2. CASE k # frame
      BY <2>1, <3>2 DEF Sofar
    <3> QED
      BY <3>1, <3>2
  <2> SUFFICES ASSUME NEW i \in 0 .. RawOf(k) - 1 PROVE Byte(i).of = k /\ Byte(i).at = i + 1
    BY <2>1 DEF DecodesTo
  <2>3. i \in 0 .. Sofar(k) - 1 /\ i \in Nat
    BY <1>1, <2>1, <2>2
  <2>4. At(tr + i).of = k /\ At(tr + i).at = i + 1
    BY <1>0, <2>3, UnreadHeld
  <2>5. Byte(i) = At(tr + i)
    BY <1>0, <2>3, ByteIsAt
  <2> QED
    BY <2>4, <2>5
<1> QED
  BY <1>4, <1>5

LEMMA JunkIntact ==
  ASSUME TypeInv, Inv, OrderInv, IntactInv, PollEnd, Junk
  PROVE  IntactInv'
<1>0. PICK tr \in Nat : tr = rc.total_read
  BY ReadFacts
<1>1. pc = "extract" /\ UNCHANGED lineVars /\ delivered' = delivered /\ gone' = gone
      /\ rc' = Advanced(rc, 1) /\ Available(rc) >= RawBytes(1)
  BY DEF PollEnd, Junk
<1>2. rc'.total_read = tr + 1
  <2>1. InStep(rc, seen) /\ seen \in Nat
    BY DEF Inv
  <2>2. Available(rc) \in Nat
    BY <2>1, AdvanceReads
  <2>3. 1 <= Available(rc)
    BY <1>1, <2>2 DEF RawBytes
  <2> QED
    BY <1>0, <1>1, <2>1, <2>3, AdvanceReads
<1>3. ASSUME NEW k \in Arrived, ~ Returned(k)
      PROVE  Start(k) >= rc'.total_read
  <2>1. Start(k) >= tr /\ Start(k) \in Nat
    BY <1>0, <1>3, ArrivedFacts DEF IntactInv, Unread
  <2>2. Start(k) # tr
    <3> SUFFICES ASSUME Start(k) = tr PROVE FALSE
      OBVIOUS
    <3>1. /\ GoodLength
          /\ Available(rc) >= TotalBytes(LengthByte) => DecodesTo(k)
      BY <1>0, <1>1, <1>3, HeadDecodes
    <3>2. k \in Frames
      BY ArrivedFacts
    <3> QED
      BY <3>1, <3>2 DEF Junk
  <2> QED
    BY <1>2, <2>1, <2>2
<1>4. \A k \in Frames : Returned(k) => Returned(k)'
  BY <1>1 DEF Returned
<1> QED
  BY <1>1, <1>3, <1>4, PollIntact

\* The first byte of a frame, undamaged, is its LEN.
HeadBytes ==
  \A x \in Places : ring[x].of # 0 /\ ring[x].at = 1
                      => ring[x].v = Len(Payloads[ring[x].of])

LEMMA HeadsWritten ==
  ASSUME TypeInv, Inv, HeadBytes, NEW c \in Cell, Write(c),
         c.of # 0 /\ c.at = 1 => c.v = Len(Payloads[c.of])
  PROVE  HeadBytes'
<1>1. ring' = [ring EXCEPT ![written % Capacity] = c] /\ ring \in [Places -> Cell]
  BY DEF Write, TypeInv
<1>2. \A x \in Places : ring'[x] = IF x = written % Capacity THEN c ELSE ring[x]
  BY <1>1, Zenon
<1> QED
  BY <1>2 DEF HeadBytes

LEMMA HeadsKept ==
  ASSUME TypeInv, Inv, HeadBytes, [Next]_vars
  PROVE  HeadBytes'
<1>1. CASE UNCHANGED ring
  BY <1>1 DEF HeadBytes
<1>2. CASE UNCHANGED vars \/ StartFrame \/ Slip \/ Poll
  BY <1>1, <1>2 DEF vars, lineVars, StartFrame, Slip, Poll, PollBegin, PollEnd
<1>3. CASE Transmit
  <2>1. frame \in Frames /\ pos \in Nat
    BY <1>3 DEF Transmit, Sending, TypeInv
  <2>2. NextCell \in Cell /\ NextCell.of = frame /\ NextCell.at = pos + 1
        /\ (pos = 0 => NextCell.v = Len(Payloads[frame]))
    BY <2>1, NextCellFacts
  <2>3. NextCell.at = 1 => NextCell.v = Len(Payloads[NextCell.of])
    BY <2>1, <2>2
  <2>4. Write(NextCell)
    BY <1>3 DEF Transmit
  <2> QED
    BY <2>2, <2>3, <2>4, HeadsWritten
<1>4. CASE Damage
  <2>1. PICK v \in Noise : Write([Blank EXCEPT !.v = v])
    BY <1>4 DEF Damage
  <2>2. [Blank EXCEPT !.v = v] \in Cell /\ [Blank EXCEPT !.v = v].of = 0
    BY UartSizesAssumption DEF Blank, Cell
  <2> QED
    BY <2>1, <2>2, HeadsWritten
<1> QED
  BY <1>2, <1>3, <1>4 DEF Next, Line

\* A frame that is returned takes with it no byte of a frame that arrived whole:
\* those before it are already returned, and those behind begin clear of it.
LEMMA PacketIntact ==
  ASSUME TypeInv, Inv, OrderInv, IntactInv, HeadBytes, Slack < RawBytes(1), PollEnd, Packet
  PROVE  IntactInv'
<1>0. PICK tr \in Nat : tr = rc.total_read
  BY ReadFacts
<1>1. pc = "extract" /\ UNCHANGED lineVars /\ gone' = gone /\ GoodLength
      /\ Available(rc) >= TotalBytes(LengthByte)
      /\ rc' = Advanced(rc, TotalBytes(LengthByte))
  BY DEF PollEnd, Packet
<1>2. PICK j \in Frames : DecodesTo(j) /\ delivered' = Append(delivered, j)
  BY DEF Packet
<1> DEFINE n == RawBytes(LengthByte)
           q == tr + n - 1
           t == TotalBytes(LengthByte)
<1>3. /\ tr \in Held /\ At(tr).of = j /\ At(tr).at = 1
      /\ q \in Held /\ At(q).of = j /\ At(q).at = n
  BY <1>0, <1>1, <1>2, DecodedLies
<1>4. n \in Nat /\ n >= 4 /\ t \in Nat /\ n < t /\ j \in Nat \ {0}
  BY <1>1, GoodLengthType, FrameFacts DEF RawBytes
<1>5. n = RawOf(j) /\ t = Sent(j)
  <2>1. tr % Capacity \in Places
    BY Division
  <2>2. At(tr).v = Len(Payloads[j])
    BY <1>3, <1>4, <2>1 DEF HeadBytes, At
  <2>3. Byte(0) = At(tr + 0) /\ tr + 0 = tr
    BY <1>0, ByteIsAt
  <2>4. LengthByte = Len(Payloads[j])
    BY <2>2, <2>3 DEF LengthByte
  <2> QED
    BY <2>4 DEF RawOf, Sent
<1>6. rc'.total_read = tr + t
  <2>1. InStep(rc, seen) /\ seen \in Nat
    BY DEF Inv
  <2>2. Available(rc) \in Nat /\ t <= Available(rc)
    BY <1>1, <1>4, <2>1, AdvanceReads
  <2> QED
    BY <1>0, <1>1, <1>4, <2>1, <2>2, AdvanceReads
<1>7. /\ delivered \in Seq(Frames) /\ Len(delivered) \in Nat
      /\ DOMAIN delivered = 1 .. Len(delivered) /\ DOMAIN delivered' = 1 .. Len(delivered) + 1
      /\ \A i \in 1 .. Len(delivered) : delivered'[i] = delivered[i]
      /\ delivered'[Len(delivered) + 1] = j
  BY <1>2, AppendProperties DEF TypeInv
<1>8. Returned(j)' /\ \A k \in Frames : Returned(k) => Returned(k)'
  BY <1>7 DEF Returned
<1> HIDE DEF n, q, t
<1>9. ASSUME NEW k \in Arrived, ~ Returned(k), k # j
      PROVE  Start(k) >= tr + t
  <2> DEFINE s == Start(k)
  <2>1. s \in Nat /\ s >= tr /\ k \in Nat \ {0} /\ Sofar(k) \in Nat /\ Sofar(k) > 0
    BY <1>0, <1>9, ArrivedFacts DEF IntactInv, Unread
  <2>2. s \in Held /\ At(s).of = k /\ At(s).at = 1
    <3>1. 0 \in 0 .. Sofar(k) - 1 /\ s + 0 = s
      BY <2>1
    <3>2. Start(k) + 0 \in Held /\ At(Start(k) + 0).of = k /\ At(Start(k) + 0).at = 0 + 1
      BY <1>9, <3>1, UnreadHeld
    <3> QED
      BY <3>1, <3>2
  <2> HIDE DEF s
  <2>3. s # tr
    BY <1>3, <1>9, <2>2
  <2>4. tr < s /\ At(tr).of # 0 /\ At(s).of # 0
    BY <1>3, <1>4, <2>1, <2>2, <2>3
  <2>5. Before(At(tr), At(s))
    BY <1>3, <2>2, <2>4 DEF OrderInv, Ordered
  <2>6. j < k
    BY <1>3, <2>2, <2>5 DEF Before
  <2>7. q + (Sent(j) - RawOf(j)) < s
    BY <1>3, <1>5, <2>6 DEF IntactInv, Clear, s
  <2>8. q + (t - n) = tr + t - 1
    BY <1>4 DEF q
  <2>9. tr + t - 1 < s
    BY <1>5, <2>7, <2>8
  <2> QED
    BY <1>4, <2>1, <2>9 DEF s
<1>10. \A k \in Arrived : k \notin gone' /\ ~ Returned(k)
                            => Returned(k)' \/ Start(k) >= rc'.total_read
  BY <1>6, <1>8, <1>9
<1> QED
  BY <1>1, <1>8, <1>10, PollIntact

LEMMA IntactKept ==
  ASSUME TypeInv, Inv, Inv', OrderInv, IntactInv, HeadBytes, Slack < RawBytes(1), [Next]_vars
  PROVE  IntactInv'
<1>1. CASE UNCHANGED vars
  <2>1. UNCHANGED lineVars /\ gone' = gone /\ delivered' = delivered /\ rc' = rc
    BY <1>1 DEF vars, portVars
  <2>2. \A k \in Arrived : ~ Returned(k) => Start(k) >= rc.total_read
    BY DEF IntactInv, Unread
  <2>3. \A k \in Frames : Returned(k) => Returned(k)'
    BY <2>1 DEF Returned
  <2> QED
    BY <2>1, <2>2, <2>3, PollIntact
<1>2. CASE Line
  BY <1>2, StartIntact, TransmitIntact, DamageIntact, SlipIntact DEF Line
<1>3. CASE PollBegin
  BY <1>3, BeginIntact
<1>4. CASE PollEnd
  <2>1. CASE TooShort
    <3>1. UNCHANGED lineVars /\ gone' = gone /\ delivered' = delivered /\ rc' = rc
      BY <1>4, <2>1 DEF PollEnd, TooShort
    <3>2. \A k \in Arrived : ~ Returned(k) => Start(k) >= rc.total_read
      BY DEF IntactInv, Unread
    <3>3. \A k \in Frames : Returned(k) => Returned(k)'
      BY <3>1 DEF Returned
    <3> QED
      BY <3>1, <3>2, <3>3, PollIntact
  <2> QED
    BY <1>4, <2>1, JunkIntact, PacketIntact DEF PollEnd
<1> QED
  BY <1>1, <1>2, <1>3, <1>4 DEF Next, Poll

LEMMA IntactInit == Init => IntactInv /\ HeadBytes
<1> SUFFICES ASSUME Init PROVE IntactInv /\ HeadBytes
  OBVIOUS
<1>1. frame = 0 /\ pos = 0 /\ ends = [k \in Frames |-> 0] /\ ring = [i \in Places |-> Blank]
  BY DEF Init
<1>2. Arrived = {}
  <2>1. \A k \in Frames : ~ (k < 0) /\ k # 0
    BY FrameFacts
  <2> QED
    BY <1>1, <2>1 DEF Arrived
<1>3. \A k \in Frames : ends[k] = 0
  BY <1>1
<1>4. EndsInv
  BY <1>1, <1>2, <1>3 DEF EndsInv
<1>5. Unread /\ Clear
  BY <1>2 DEF Unread, Clear
<1>6. HeadBytes
  BY <1>1 DEF HeadBytes, Blank
<1> QED
  BY <1>4, <1>5, <1>6 DEF IntactInv

\* A frame that arrived whole is returned, or still unread, or was overwritten:
\* neither false LENs nor bad CRCs nor the padding of an earlier frame makes the
\* port pass over it, however many bytes are damaged or missed
\* (uart_rx_poll_packet).
THEOREM NothingSkipped ==
  ASSUME Slack < RawBytes(1)
  PROVE  Spec => []NothingIntactSkipped
<1>1. Init => OrderInv /\ IntactInv /\ HeadBytes
  BY OrderInit, IntactInit
<1>2. Inv /\ TypeInv /\ Inv' /\ OrderInv /\ [Next]_vars => OrderInv'
  BY OrderKept
<1>3. Inv /\ TypeInv /\ HeadBytes /\ [Next]_vars => HeadBytes'
  BY HeadsKept
<1>4. Inv /\ TypeInv /\ Inv' /\ OrderInv /\ IntactInv /\ HeadBytes /\ [Next]_vars
        => IntactInv'
  BY IntactKept
<1>5. Inv /\ TypeInv /\ IntactInv => NothingIntactSkipped
  <2> SUFFICES ASSUME Inv, TypeInv, IntactInv,
                      NEW k \in Frames, ends[k] > 0, ends[k] <= rc.total_read, k \notin gone,
                      ~ Returned(k)
               PROVE  FALSE
    BY DEF NothingIntactSkipped, Returned
  <2>1. Sent(k) \in Nat /\ Sent(k) > 0 /\ pos \in Nat
    <3>1. Sent(k) \in Nat /\ Sent(k) >= 4
      BY SentFacts
    <3> QED
      BY <3>1 DEF TypeInv
  <2>2. k \in Arrived /\ (k = frame => pos = Sent(k))
    <3>1. k < frame \/ (k = frame /\ pos = Sent(k))
      BY DEF IntactInv, EndsInv
    <3>2. k \in Nat /\ frame \in Nat
      BY FrameFacts, ByteTypes
    <3> QED
      BY <2>1, <3>1, <3>2 DEF Arrived
  <2>3. Start(k) = ends[k] - Sent(k)
    <3>1. k = frame => ends[k] = written /\ pos = Sent(k)
      BY <2>2 DEF IntactInv, EndsInv
    <3> QED
      BY <3>1 DEF Start
  <2>4. Start(k) >= rc.total_read /\ Start(k) \in Nat /\ rc.total_read \in Nat
    BY <2>2, ArrivedFacts, ReadFacts DEF IntactInv, Unread
  <2>5. ends[k] \in Nat
    BY DEF TypeInv
  <2> QED
    BY <2>1, <2>3, <2>4, <2>5
<1> QED
  BY TypeInvariance, <1>1, <1>2, <1>3, <1>4, <1>5, PTL DEF Spec
=============================================================================
