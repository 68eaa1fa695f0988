---------------------------- MODULE BmcRxProofs ----------------------------
(***************************************************************************)
(* What the BMC receive path guarantees, for every size of ring, window    *)
(* and reload value and every sequence of frames.  In order: the word      *)
(* counter and NeverAhead (Inv), types (TypeInv), frames returned once, in *)
(* order (OrderInv), gaps counted (CountInv), intact frames not skipped    *)
(* (IntactInv), none left behind (LossInv).                                *)
(***************************************************************************)
EXTENDS BmcRx, SequenceTheorems, TLAPS, WellFoundedInduction

\* Where the register stands between two readings of it: it has run down by as
\* many words as were written, and started again at most once.
CounterInv ==
  /\ written \in Nat /\ seen \in Nat /\ lap \in Nat
  /\ count \in 1 .. Reload /\ lastCount \in 1 .. Reload
  /\ seen = lap * Reload + (Reload - lastCount)
  /\ written - seen \in 0 .. Reload - 1
  /\ count <= lastCount => written - seen = lastCount - count
  /\ count > lastCount => written - seen = lastCount - count + Reload
  /\ total = seen

\* What was read and what is about to be searched ends at the last reading.
ReadInv ==
  /\ read \in Nat /\ unread \in Nat
  /\ pc = "idle" => unread = 0
  /\ read + unread <= seen * Word

Inv == CounterInv /\ ReadInv

-----------------------------------------------------------------------------

\* A nonempty set of naturals has a least element.
LEMMA LeastExists ==
  ASSUME NEW S \in SUBSET Nat, S # {}
  PROVE  \E s \in S : \A t \in S : s <= t
<1> DEFINE less == {ss \in Nat \X Nat : ss[1] < ss[2]}
<1>1. less = OpToRel(<, Nat) BY Zenon DEF OpToRel
<1>2. IsWellFoundedOn(less, Nat) BY <1>1, NatLessThanWellFounded, Zenon
<1> HIDE DEF less
<1>3. PICK s \in S : \A t \in S : ~ (<<t, s>> \in less)
  BY <1>2, WFMin, Zenon
<1>4. \A t \in S : ~ (t < s)
  BY <1>3 DEF less
<1> QED BY <1>4

\* The word count grows with the words, in cells too.
LEMMA CellsGrow ==
  ASSUME NEW a \in Nat, NEW b \in Nat, a <= b
  PROVE  a * Word \in Nat /\ b * Word \in Nat /\ a * Word <= b * Word
<1>1. Word \in Nat BY RxSizesAssumption
<1>2. a * Word \in Nat /\ (b - a) * Word \in Nat /\ b * Word \in Nat BY <1>1
<1>3. b * Word = a * Word + (b - a) * Word BY <1>1
<1> QED BY <1>2, <1>3

\* A padded frame has a size.
LEMMA TotalCellsNat ==
  ASSUME NEW len \in Nat
  PROVE  TotalCells(len) \in Nat
<1>1. Word \in Nat \ {0} BY RxSizesAssumption
<1>2. (3 + len) % Word \in 0 .. Word - 1 BY <1>1
<1> QED BY <1>1, <1>2 DEF TotalCells, RawCells

\* The extraction never advances beyond the unread cells it was given.
LEMMA ExtractBound ==
  ASSUME NEW n \in Nat
  PROVE  Extract(n).adv \in 0 .. n
<1> DEFINE avail == Avail(n)
           syncs == SyncsIn(avail)
           s     == CHOOSE x \in syncs : \A t \in syncs : x <= t
<1>1. Window \in Nat \ {0} /\ MaxLen \in Nat BY RxSizesAssumption
<1>2. avail \in 0 .. n /\ (n > 0 => avail > 0) BY <1>1 DEF Avail
<1>3. CASE n < 2 + TotalCells(1)
  BY <1>3 DEF Extract, Outcome
<1>4. CASE ~ (n < 2 + TotalCells(1)) /\ syncs = {}
  <2>1. n > 0 BY <1>4, TotalCellsNat
  <2>2. Extract(n) = Outcome("SYNC_NOT_FOUND", avail - 1, 0)
    BY <1>4 DEF Extract, Searched
  <2> QED BY <2>1, <2>2, <1>2 DEF Outcome
<1>5. CASE ~ (n < 2 + TotalCells(1)) /\ syncs # {}
  <2>1. syncs \in SUBSET Nat /\ \A x \in syncs : x \in 0 .. avail - 2
    BY <1>2 DEF SyncsIn
  <2>2. \E x \in syncs : \A t \in syncs : x <= t BY <2>1, <1>5, LeastExists
  <2>3. s \in 0 .. avail - 2 BY <2>1, <2>2
  <2>4. Extract(n) = AtSync(s, avail) BY <1>5 DEF Extract
  <2>5. AtSync(s, avail).adv \in 0 .. avail
    <3> DEFINE len == At(s + 2).v
    <3> HIDE DEF s, avail
    <3>1. CASE len \in 1 .. MaxLen /\ Whole(s + 2, len, avail)
      <4>1. s + 2 + TotalCells(len) \in 0 .. avail
        BY <3>1, <2>3, <1>1, <1>2, TotalCellsNat DEF Whole
      <4> QED BY <4>1, <2>3, <1>2 DEF AtSync, Outcome
    <3>2. CASE ~ (len \in 1 .. MaxLen /\ Whole(s + 2, len, avail))
      BY <3>2, <2>3, <1>2 DEF AtSync, Outcome
    <3> QED BY <3>1, <3>2
  <2> QED BY <2>4, <2>5, <1>2
<1> QED BY <1>3, <1>4, <1>5

-----------------------------------------------------------------------------

LEMMA InitInv == Init => Inv
BY RxSizesAssumption DEF Init, Inv, CounterInv, ReadInv

\* A shifted cell moves the register by at most one word, and the pacing keeps
\* it short of a whole turn.
LEMMA ShiftCounter ==
  ASSUME Inv, NEW c, ShiftIn(c), UNCHANGED portVars
  PROVE  Inv'
<1> USE DEF portVars
<1>1. Reload \in Nat \ {0, 1} /\ Word \in Nat /\ Slack \in 0 .. Reload - 1 BY RxSizesAssumption
<1>2. ReadInv' BY DEF Inv, ReadInv
<1>3. CASE UNCHANGED <<written, count>> BY <1>2, <1>3 DEF Inv, CounterInv
<1>4. CASE Paced /\ written' = written + 1
             /\ count' = IF count = 1 THEN Reload ELSE count - 1
  <2>1. written + 1 - seen <= Reload - 1 \/ written + 1 - seen <= Slack
    BY <1>4 DEF Paced, Inv, CounterInv
  <2> QED BY <1>1, <1>2, <1>4, <2>1 DEF Inv, CounterInv, Paced
<1> QED BY <1>3, <1>4 DEF ShiftIn

\* The words that are counted are those that were written.
LEMMA TotalIsWritten ==
  ASSUME Inv
  PROVE  TotalWords = written /\ Laps \in Nat
         /\ written = Laps * Reload + (Reload - count)
<1>1. Reload \in Nat \ {0, 1}
  BY RxSizesAssumption
<1>2. (lap + 1) * Reload = lap * Reload + Reload /\ lap * Reload \in Nat
  BY <1>1 DEF Inv, CounterInv
<1> QED
  BY <1>1, <1>2 DEF TotalWords, Laps, Inv, CounterInv

\* The reading of the counter.
LEMMA BeginInv ==
  ASSUME Inv, PollBegin
  PROVE  Inv'
<1>1. Reload \in Nat \ {0, 1} /\ Word \in Nat \ {0} /\ Ring \in Nat /\ Recover \in 1 .. Ring
  BY RxSizesAssumption
<1> USE DEF Inv, CounterInv, ReadInv, PollBegin, wireVars
<1>3. TotalWords = written /\ Laps \in Nat
      /\ written = Laps * Reload + (Reload - count)
  BY TotalIsWritten
<1>4. CounterInv'
  <2>1. lap' = Laps /\ lastCount' = count /\ total' = written /\ seen' = written
        /\ written' = written /\ count' = count
    BY <1>3
  <2> QED BY <1>1, <1>3, <2>1
<1>5. seen * Word \in Nat /\ written * Word \in Nat /\ seen * Word <= written * Word
  BY CellsGrow
<1>6. ReadInv'
  <2>1. seen' * Word = written * Word BY <1>3
  <2>2. CASE Overrun(written * Word) /\ written * Word - read >= Ring
    BY <1>1, <1>5, <2>1, <2>2 DEF Overrun
  <2>3. CASE written * Word - read < Ring /\ read' = read
             /\ unread' = IF written * Word >= read THEN written * Word - read ELSE 0
    BY <1>5, <2>1, <2>3
  <2> QED BY <1>3, <2>2, <2>3
<1> QED BY <1>4, <1>6

\* The end of a poll takes no more than it was given.
LEMMA EndInv ==
  ASSUME Inv, PollEnd
  PROVE  Inv'
<1>1. CounterInv' BY DEF Inv, CounterInv, PollEnd, wireVars
<1>2. Extract(unread).adv \in 0 .. unread BY ExtractBound DEF Inv, ReadInv
<1>3. read' = read + Extract(unread).adv /\ unread' = 0 /\ seen' = seen
  BY DEF PollEnd, Advance
<1>4. seen * Word \in Nat
  BY CellsGrow DEF Inv, CounterInv
<1>5. ReadInv' BY <1>2, <1>3, <1>4 DEF Inv, ReadInv
<1> QED BY <1>1, <1>5 DEF Inv

\* Inv is preserved by every step.
LEMMA NextInv ==
  ASSUME Inv, [Next]_vars
  PROVE  Inv'
<1>1. CASE StartFrame
  BY <1>1 DEF StartFrame, Inv, CounterInv, ReadInv, portVars
<1>2. CASE Transmit
  BY <1>2, ShiftCounter DEF Transmit
<1>3. CASE Damage
  BY <1>3, ShiftCounter DEF Damage
<1>4. CASE Slip
  BY <1>4 DEF Slip, Inv, CounterInv, ReadInv, portVars
<1>5. CASE Poll
  BY <1>5, BeginInv, EndInv DEF Poll
<1>6. CASE UNCHANGED vars
  BY <1>6 DEF vars, wireVars, portVars, Inv, CounterInv, ReadInv
<1> QED BY <1>1, <1>2, <1>3, <1>4, <1>5, <1>6 DEF Next, Wire

-----------------------------------------------------------------------------

THEOREM Invariance == Spec => []Inv
<1>1. Init => Inv BY InitInv
<1>2. Inv /\ [Next]_vars => Inv' BY NextInv
<1> QED BY <1>1, <1>2, PTL DEF Spec

\* The words counted from a register that runs down and starts again are all
\* the words the DMA had written when it was read, for every reload value
\* (bmc_rx_update_transfer_state).
THEOREM Counter == Spec => []CounterExact
<1>1. Inv => CounterExact BY DEF Inv, CounterInv, CounterExact
<1> QED BY <1>1, Invariance, PTL

\* The port never takes a bit that was not received, for every size of ring and
\* window (bmc_rx_poll_packet, bmc_rx_extract_frame_from_ring).
THEOREM Ahead == Spec => []NeverAhead
<1>1. Inv => NeverAhead
  <2> SUFFICES ASSUME Inv PROVE NeverAhead OBVIOUS
  <2>2. seen \in Nat /\ written \in Nat /\ seen <= written
    <3>1. seen \in Nat /\ written \in Nat /\ written - seen \in 0 .. Reload - 1
      BY Zenon DEF Inv, CounterInv
    <3>2. Reload \in Nat BY RxSizesAssumption
    <3> QED BY <3>1, <3>2
  <2>3. seen * Word \in Nat /\ written * Word \in Nat /\ seen * Word <= written * Word
    BY <2>2, CellsGrow
  <2>4. read \in Nat /\ unread \in Nat /\ read + unread <= seen * Word
    BY Zenon DEF Inv, ReadInv
  <2> QED BY <2>3, <2>4 DEF NeverAhead
<1> QED BY <1>1, Invariance, PTL

-----------------------------------------------------------------------------
(* Numbers: places in the ring and words in it.                            *)

LEMMA Division ==
  ASSUME NEW n \in Nat
  PROVE  /\ n = Ring * (n \div Ring) + (n % Ring)
         /\ n \div Ring \in Nat /\ n % Ring \in Places
BY RxSizesAssumption DEF Places

\* Quotient and remainder are unique.
LEMMA DivisionUnique ==
  ASSUME NEW q \in Int, NEW p \in Int, NEW r \in Places, NEW u \in Places,
         Ring * q + r = Ring * p + u
  PROVE  q = p /\ r = u
<1>0. Ring \in Nat \ {0}
  BY RxSizesAssumption
<1>1. Ring * (q - p) = u - r /\ Ring * (p - q) = r - u
  BY <1>0 DEF Places
<1>2. ~ (q - p >= 1)
  <2>1. q - p >= 1 => Ring * (q - p) >= Ring
    BY <1>0
  <2> QED
    BY <1>0, <1>1, <2>1 DEF Places
<1>3. ~ (p - q >= 1)
  <2>1. p - q >= 1 => Ring * (p - q) >= Ring
    BY <1>0
  <2> QED
    BY <1>0, <1>1, <2>1 DEF Places
<1>4. q = p
  BY <1>2, <1>3
<1> QED
  BY <1>0, <1>4 DEF Places

\* What is a multiple of the ring plus a place is at that place.
LEMMA PlaceOf ==
  ASSUME NEW n \in Nat, NEW q \in Int, NEW r \in Places, n = Ring * q + r
  PROVE  n % Ring = r
<1>1. /\ n = Ring * (n \div Ring) + (n % Ring)
      /\ n \div Ring \in Int /\ n % Ring \in Places
  BY Division
<1>2. Ring * (n \div Ring) + (n % Ring) = Ring * q + r
  BY <1>1
<1> HIDE DEF Places
<1> QED
  BY <1>1, <1>2, DivisionUnique

\* A step from a place in the ring leads to the place of the sum.
LEMMA PlaceSum ==
  ASSUME NEW n \in Nat, NEW i \in Nat
  PROVE  ((n % Ring) + i) % Ring = (n + i) % Ring
<1> DEFINE r == n % Ring
           t == (r + i) % Ring
<1>0. Ring \in Nat \ {0}
  BY RxSizesAssumption
<1>1. n = Ring * (n \div Ring) + r /\ n \div Ring \in Int /\ r \in Nat
  BY Division DEF Places
<1>2. r + i \in Nat
  BY <1>1
<1> HIDE DEF r
<1>3. /\ r + i = Ring * ((r + i) \div Ring) + t
      /\ (r + i) \div Ring \in Int /\ t \in Places
  BY <1>2, Division
<1> HIDE DEF t
<1>4. n + i = Ring * (n \div Ring + (r + i) \div Ring) + t
      /\ n \div Ring + (r + i) \div Ring \in Int
  BY <1>0, <1>1, <1>3 DEF Places
<1>5. n + i \in Nat
  OBVIOUS
<1> HIDE DEF Places
<1>6. (n + i) % Ring = t
  BY <1>3, <1>4, <1>5, PlaceOf
<1> QED
  BY <1>6 DEF t, r

\* A lap further on is the same place.
LEMMA PlaceLap ==
  ASSUME NEW n \in Nat
  PROVE  (n + Ring) % Ring = n % Ring
<1>0. Ring \in Nat \ {0}
  BY RxSizesAssumption
<1>1. n = Ring * (n \div Ring) + (n % Ring) /\ n \div Ring \in Int
      /\ n % Ring \in Places
  BY Division
<1>2. n + Ring = Ring * (n \div Ring + 1) + (n % Ring)
      /\ n \div Ring + 1 \in Int /\ n + Ring \in Nat
  BY <1>0, <1>1 DEF Places
<1> HIDE DEF Places
<1> QED
  BY <1>1, <1>2, PlaceOf

\* Positions less than a ring apart have different places.
LEMMA Apart ==
  ASSUME NEW p \in Nat, NEW q \in Nat, p < q, q - p < Ring
  PROVE  p % Ring # q % Ring
<1> SUFFICES ASSUME p % Ring = q % Ring PROVE FALSE
  OBVIOUS
<1> DEFINE k == q \div Ring - p \div Ring
<1>0. Ring \in Nat \ {0}
  BY RxSizesAssumption
<1>1. /\ p = Ring * (p \div Ring) + (p % Ring) /\ p \div Ring \in Int
      /\ q = Ring * (q \div Ring) + (q % Ring) /\ q \div Ring \in Int
      /\ p % Ring \in Nat
  BY Division DEF Places
<1>2. k \in Int /\ Ring * k + 0 = Ring * 0 + (q - p)
  BY <1>0, <1>1
<1>3. 0 \in Places /\ q - p \in Places
  BY <1>0 DEF Places
<1> HIDE DEF k, Places
<1>4. 0 = q - p
  BY <1>2, <1>3, DivisionUnique
<1> QED
  BY <1>4

\* A word lies in the ring in one piece.
LEMMA WordFits ==
  ASSUME NEW w \in Nat, NEW j \in 0 .. Word - 1
  PROVE  /\ w * Word \in Nat
         /\ ((w * Word) % Ring) + Word <= Ring
         /\ ((w * Word) + j) % Ring = ((w * Word) % Ring) + j
<1> DEFINE n == w * Word
           m == Ring \div Word
           d == n \div Ring
           r == n % Ring
<1>0. Ring \in Nat \ {0} /\ Word \in Nat \ {0} /\ Ring % Word = 0
  BY RxSizesAssumption
<1>1. m \in Nat /\ Ring = Word * m
  <2>1. Ring = Word * (Ring \div Word) + (Ring % Word) /\ Ring \div Word \in Nat
    BY <1>0
  <2> QED
    BY <1>0, <2>1
<1>2. n \in Nat
  BY <1>0
<1>3. n = Ring * d + r /\ d \in Nat /\ r \in 0 .. Ring - 1
  BY <1>2, Division DEF Places
<1> HIDE DEF m, d, r
<1>3a. PICK z \in Int : Ring * d = Word * z
  <2>1. (Word * m) * d = Word * (m * d) /\ m * d \in Int
    BY <1>0, <1>1, <1>3
  <2> QED
    BY <1>1, <2>1
<1> DEFINE e == w - z
<1>4. e \in Int /\ r = Word * e
  <2>1. Word * (w - z) = w * Word - Word * z
    BY <1>0
  <2>2. r = n - Word * z
    BY <1>0, <1>2, <1>3, <1>3a
  <2> QED
    BY <2>1, <2>2
<1>5. e <= m - 1
  <2>1. e >= m => Word * e >= Word * m
    BY <1>0, <1>1, <1>4
  <2> HIDE DEF e
  <2> QED
    BY <1>1, <1>3, <1>4, <2>1
<1>6. r + Word <= Ring
  <2>1. Word * (m - 1) = Word * m - Word
    BY <1>0, <1>1
  <2>2. Word * e <= Word * (m - 1)
    BY <1>0, <1>1, <1>4, <1>5
  <2> HIDE DEF e
  <2>3. Word * e \in Int /\ Word * m \in Int
    BY <1>0, <1>1, <1>4
  <2> QED
    BY <1>0, <1>1, <1>4, <2>1, <2>2, <2>3
<1>7. (n + j) % Ring = r + j
  <2>1. n + j \in Nat /\ r + j \in Places /\ n + j = Ring * d + (r + j)
    BY <1>0, <1>2, <1>3, <1>6 DEF Places
  <2> HIDE DEF n, Places
  <2> QED
    BY <1>3, <2>1, PlaceOf
<1> QED
  BY <1>2, <1>6, <1>7 DEF r


-----------------------------------------------------------------------------
(* The type of the state.                                                  *)

\* A frame is one of the sequence, and its LEN is one the port accepts.
LEMMA FrameFacts ==
  ASSUME NEW k \in Frames
  PROVE  /\ k \in Nat \ {0} /\ k <= Len(Payloads)
         /\ Payloads[k] \in Seq(Values) /\ Len(Payloads[k]) \in 1 .. MaxLen
         /\ Len(Payloads[k]) \in Nat /\ Len(Payloads[k]) \in Values
         /\ SeqOf(k) \in 0 .. SeqMod - 1 /\ SeqOf(k) \in Values
<1>1. /\ Payloads \in Seq(Seq(Values)) /\ MaxLen \in Nat \ {0} /\ SeqMod \in Nat \ {0}
      /\ \A j \in DOMAIN Payloads : Len(Payloads[j]) \in 1 .. MaxLen
  BY RxSizesAssumption
<1>2. k \in 1 .. Len(Payloads) /\ Len(Payloads) \in Nat
  BY <1>1, LenProperties DEF Frames
<1>3. Payloads[k] \in Seq(Values)
  BY <1>1, <1>2, ElementOfSeq
<1>4. Len(Payloads[k]) \in 1 .. MaxLen
  BY <1>1 DEF Frames
<1>5. SeqOf(k) \in 0 .. SeqMod - 1
  <2>1. k - 1 \in Int
    BY <1>2
  <2> QED
    BY <1>1, <2>1 DEF SeqOf
<1> QED
  BY <1>1, <1>2, <1>3, <1>4, <1>5 DEF Values

\* The padding is between one cell and a word.
LEMMA TotalFacts ==
  ASSUME NEW len \in Nat
  PROVE  /\ TotalCells(len) \in Nat /\ RawCells(len) = len + 3
         /\ RawCells(len) < TotalCells(len) /\ TotalCells(len) <= RawCells(len) + Word
<1>1. Word \in Nat \ {0}
  BY RxSizesAssumption
<1>2. (3 + len) % Word \in 0 .. Word - 1
  BY <1>1
<1> QED
  BY <1>1, <1>2 DEF TotalCells, RawCells

LEMMA SizeFacts ==
  ASSUME NEW k \in Frames
  PROVE  /\ FrameCells(k) \in Nat /\ EndOf(k) \in Nat
         /\ EndOf(k) = Lead + FrameCells(k)
         /\ FrameCells(k) = 2 + TotalCells(Len(Payloads[k]))
         /\ FrameCells(k) >= 2 + RawCells(Len(Payloads[k])) + 1
         /\ FrameCells(k) <= 2 + RawCells(Len(Payloads[k])) + Word
         /\ RawCells(Len(Payloads[k])) \in Nat /\ RawCells(Len(Payloads[k])) >= 4
         /\ Lead \in Nat /\ Word \in Nat \ {0}
<1>1. PICK len \in Nat \ {0} : len = Len(Payloads[k])
  BY FrameFacts, RxSizesAssumption
<1>2. Lead \in Nat /\ Word \in Nat \ {0}
  BY RxSizesAssumption
<1>3. /\ TotalCells(len) \in Nat /\ RawCells(len) = len + 3
      /\ RawCells(len) < TotalCells(len) /\ TotalCells(len) <= RawCells(len) + Word
  BY <1>1, TotalFacts
<1> QED
  BY <1>1, <1>2, <1>3 DEF FrameCells, EndOf

\* A cell that is sent carries its frame and its place in it, and in the first
\* three places the sync word and the LEN; between frames nothing is carried.
LEMMA EncodedFacts ==
  ASSUME NEW k \in Frames
  PROVE  /\ Len(Encoded(k)) = EndOf(k) + Word
         /\ \A i \in 1 .. EndOf(k) + Word :
              /\ Encoded(k)[i] \in Cell
              /\ i <= Lead \/ i > EndOf(k) => Encoded(k)[i] = Blank
              /\ i > Lead /\ i <= EndOf(k) =>
                   /\ Encoded(k)[i].of = k /\ Encoded(k)[i].at = i - Lead
                   /\ i - Lead = 1 => Encoded(k)[i].v = SyncHi
                   /\ i - Lead = 2 => Encoded(k)[i].v = SyncLo
                   /\ i - Lead = 3 => Encoded(k)[i].v = Len(Payloads[k])
<1> DEFINE head == <<SyncHi, SyncLo, Len(Payloads[k]), SeqOf(k)>>
           values == head \o Payloads[k]
           n == EndOf(k) + Word
<1>1. /\ head \in Seq(Values) /\ Len(head) = 4 /\ head[1] = SyncHi /\ head[2] = SyncLo
      /\ head[3] = Len(Payloads[k])
  <2>1. SyncHi \in Values /\ SyncLo \in Values
    BY DEF Values
  <2> QED
    BY <2>1, FrameFacts
<1>2. Payloads[k] \in Seq(Values) /\ Len(Payloads[k]) \in Nat
  BY FrameFacts
<1> HIDE DEF head
<1>3. /\ values \in Seq(Values) /\ Len(values) = 4 + Len(Payloads[k])
      /\ \A i \in 1 .. 4 + Len(Payloads[k]) :
           values[i] = IF i <= 4 THEN head[i] ELSE Payloads[k][i - 4]
  <2>1. /\ values \in Seq(Values) /\ Len(values) = Len(head) + Len(Payloads[k])
        /\ \A i \in 1 .. Len(head) + Len(Payloads[k]) :
             values[i] = IF i <= Len(head) THEN head[i] ELSE Payloads[k][i - Len(head)]
    BY <1>1, <1>2, ConcatProperties, Zenon
  <2> QED
    BY <1>1, <2>1, Zenon
<1>4. n \in Nat /\ Lead \in Nat /\ EndOf(k) \in Nat
  BY SizeFacts
<1>5. Encoded(k) = [i \in 1 .. n |->
         IF i <= Lead \/ i > EndOf(k) THEN Blank
         ELSE [v  |-> IF i - Lead <= Len(values) THEN values[i - Lead] ELSE Gap,
               of |-> k, at |-> i - Lead]]
  BY DEF Encoded, Serialized, head
<1>6. Len(Encoded(k)) = n
  BY <1>4, <1>5
<1>7. Blank \in Cell /\ Gap \in Values
  BY RxSizesAssumption DEF Blank, Cell, Values, Gap
<1> HIDE DEF values, n
<1>8. ASSUME NEW i \in 1 .. n
      PROVE  /\ Encoded(k)[i] \in Cell
             /\ i <= Lead \/ i > EndOf(k) => Encoded(k)[i] = Blank
             /\ i > Lead /\ i <= EndOf(k) =>
                  /\ Encoded(k)[i].of = k /\ Encoded(k)[i].at = i - Lead
                  /\ i - Lead = 1 => Encoded(k)[i].v = SyncHi
                  /\ i - Lead = 2 => Encoded(k)[i].v = SyncLo
                  /\ i - Lead = 3 => Encoded(k)[i].v = Len(Payloads[k])
  <2>1. CASE i <= Lead \/ i > EndOf(k)
    <3>1. Encoded(k)[i] = Blank
      BY <1>5, <2>1
    <3> QED
      BY <1>4, <1>7, <2>1, <3>1
  <2>2. CASE ~ (i <= Lead \/ i > EndOf(k))
    <3> DEFINE v == IF i - Lead <= Len(values) THEN values[i - Lead] ELSE Gap
    <3>1. Encoded(k)[i] = [v |-> v, of |-> k, at |-> i - Lead]
      BY <1>5, <2>2
    <3>2. i - Lead \in Nat \ {0}
      BY <1>4, <2>2
    <3>3. v \in Values
      <4>1. i - Lead <= Len(values) => i - Lead \in 1 .. Len(values)
        BY <1>2, <1>3, <3>2
      <4>2. i - Lead <= Len(values) => values[i - Lead] \in Values
        BY <1>3, <4>1, ElementOfSeq
      <4> QED
        BY <1>7, <4>2
    <3>4. i - Lead \in 1 .. 3 => v = head[i - Lead]
      BY <1>2, <1>3, <3>2
    <3> HIDE DEF v
    <3>5. /\ Encoded(k)[i].v = v /\ Encoded(k)[i].of = k /\ Encoded(k)[i].at = i - Lead
          /\ Encoded(k)[i] \in Cell
      BY <3>1, <3>2, <3>3 DEF Cell
    <3> QED
      BY <1>1, <2>2, <3>2, <3>4, <3>5
  <2> QED
    BY <2>1, <2>2
<1> QED
  BY <1>6, <1>8 DEF n

LEMMA EncodedCell ==
  ASSUME NEW k \in Frames, NEW i \in 1 .. EndOf(k) + Word
  PROVE  /\ Encoded(k)[i] \in Cell
         /\ i <= Lead \/ i > EndOf(k) => Encoded(k)[i] = Blank
         /\ i > Lead /\ i <= EndOf(k) =>
              /\ Encoded(k)[i].of = k /\ Encoded(k)[i].at = i - Lead
              /\ i - Lead = 1 => Encoded(k)[i].v = SyncHi
              /\ i - Lead = 2 => Encoded(k)[i].v = SyncLo
              /\ i - Lead = 3 => Encoded(k)[i].v = Len(Payloads[k])
BY EncodedFacts, Zenon

\* The same of the next cell.
LEMMA NextCellFacts ==
  ASSUME frame \in Frames, pos \in Nat, Sending
  PROVE  /\ NextCell \in Cell /\ pos < EndOf(frame) + Word
         /\ pos < Lead \/ pos >= EndOf(frame) => NextCell = Blank
         /\ pos >= Lead /\ pos < EndOf(frame) =>
              /\ NextCell.of = frame /\ NextCell.at = pos + 1 - Lead
              /\ pos + 1 - Lead = 1 => NextCell.v = SyncHi
              /\ pos + 1 - Lead = 2 => NextCell.v = SyncLo
              /\ pos + 1 - Lead = 3 => NextCell.v = Len(Payloads[frame])
<1>1. EndOf(frame) \in Nat /\ Lead \in Nat /\ Word \in Nat
  BY SizeFacts
<1>2. pos + 1 \in 1 .. EndOf(frame) + Word
  BY <1>1, EncodedFacts DEF Sending
<1>3. PICK i \in 1 .. EndOf(frame) + Word : i = pos + 1
  BY <1>2
<1>4. NextCell = Encoded(frame)[i]
  BY <1>3 DEF NextCell
<1>5. /\ NextCell \in Cell
      /\ i <= Lead \/ i > EndOf(frame) => NextCell = Blank
      /\ i > Lead /\ i <= EndOf(frame) =>
           /\ NextCell.of = frame /\ NextCell.at = i - Lead
           /\ i - Lead = 1 => NextCell.v = SyncHi
           /\ i - Lead = 2 => NextCell.v = SyncLo
           /\ i - Lead = 3 => NextCell.v = Len(Payloads[frame])
  BY <1>4, EncodedCell, Zenon
<1> HIDE DEF NextCell
<1> QED
  BY <1>1, <1>3, <1>5

\* The state, but for the counters.
TypeInv ==
  /\ frame \in Frames \cup {0} /\ pos \in Nat
  /\ damages \in 0 .. Damages /\ slips \in 0 .. Slips
  /\ isr \in Seq(Cell) /\ Len(isr) < Word
  /\ ring \in [Places -> Cell]
  /\ tail = read % Ring /\ unread <= Ring
  /\ exhausted \in BOOLEAN /\ lastSeq \in -1 .. SeqMod - 1 /\ drops \in Nat
  /\ pc \in {"idle", "extract"}
  /\ delivered \in Seq(Frames) /\ gone \subseteq Frames
  /\ ends \in [Frames -> Nat]

\* The numbers the invariants are about.
LEMMA NumberFacts ==
  ASSUME TypeInv, Inv
  PROVE  /\ written \in Nat /\ seen \in Nat /\ seen <= written
         /\ written * Word \in Nat /\ seen * Word \in Nat /\ seen * Word <= written * Word
         /\ read \in Nat /\ unread \in Nat /\ read + unread <= seen * Word
         /\ Len(isr) \in Nat /\ Len(isr) < Word
         /\ Ring \in Nat \ {0} /\ Word \in Nat \ {0} /\ Word <= Ring
         /\ pos \in Nat /\ Lead \in Nat
<1>1. written \in Nat /\ seen \in Nat /\ seen <= written
  <2>1. written \in Nat /\ seen \in Nat /\ written - seen \in 0 .. Reload - 1 /\ Reload \in Nat
    BY RxSizesAssumption DEF Inv, CounterInv
  <2> QED
    BY <2>1
<1>2. written * Word \in Nat /\ seen * Word \in Nat /\ seen * Word <= written * Word
  BY <1>1, CellsGrow
<1>3. read \in Nat /\ unread \in Nat /\ read + unread <= seen * Word
  BY DEF Inv, ReadInv
<1>4. Len(isr) \in Nat /\ Len(isr) < Word /\ pos \in Nat
  BY DEF TypeInv
<1>5. Ring \in Nat \ {0} /\ Word \in Nat \ {0} /\ Word <= Ring /\ Lead \in Nat
  <2>1. Ring \in Nat \ {0} /\ Word \in Nat \ {0} /\ Lead \in Nat /\ 0 \in 0 .. Word - 1
    BY RxSizesAssumption
  <2>2. 0 * Word \in Nat /\ ((0 * Word) % Ring) + Word <= Ring
    BY <2>1, WordFits
  <2>3. (0 * Word) % Ring \in Nat
    BY <2>2, Division DEF Places
  <2> QED
    BY <2>1, <2>2, <2>3
<1> QED
  BY <1>1, <1>2, <1>3, <1>4, <1>5

\* What lies in the ring is of a frame, or of none.
LEMMA RingFrame ==
  ASSUME TypeInv, NEW n \in Nat
  PROVE  n % Ring \in Places /\ ring[n % Ring] \in Cell
         /\ ring[n % Ring].of \in Frames \cup {0}
<1>1. n % Ring \in Places
  BY Division
<1>2. ring[n % Ring] \in Cell
  BY <1>1, Zenon DEF TypeInv
<1> QED
  BY <1>1, <1>2 DEF Cell

LEMMA TypeInit == Init => TypeInv
<1> SUFFICES ASSUME Init PROVE TypeInv
  OBVIOUS
<1>1. Blank \in Cell
  BY RxSizesAssumption DEF Blank, Cell, Values, Gap
<1>2. ring \in [Places -> Cell]
  BY <1>1 DEF Init
<1>3. SeqMod \in Nat \ {0} /\ Damages \in Nat /\ Slips \in Nat /\ Word \in Nat \ {0}
      /\ Ring \in Nat \ {0}
  BY RxSizesAssumption
<1>4. damages \in 0 .. Damages /\ slips \in 0 .. Slips /\ lastSeq \in -1 .. SeqMod - 1
  BY <1>3 DEF Init
<1>5. delivered \in Seq(Frames) /\ isr \in Seq(Cell) /\ Len(isr) < Word
  BY <1>3 DEF Init
<1>6. ends \in [Frames -> Nat]
  BY DEF Init
<1>7. frame \in Frames \cup {0} /\ pos \in Nat /\ drops \in Nat /\ exhausted \in BOOLEAN
      /\ pc \in {"idle", "extract"} /\ gone \subseteq Frames
  BY DEF Init
<1>8. tail = read % Ring /\ unread <= Ring
  <2>1. 0 = Ring * 0 + 0 /\ 0 \in Places
    BY <1>3 DEF Places
  <2>2. 0 % Ring = 0
    BY <2>1, PlaceOf
  <2> QED
    BY <1>3, <2>2 DEF Init
<1> QED
  BY <1>2, <1>4, <1>5, <1>6, <1>7, <1>8 DEF TypeInv

\* A word in the ring where the shift register was.
LEMMA ShiftFacts ==
  ASSUME TypeInv, Inv, NEW c \in Cell, ShiftIn(c)
  PROVE  \/ /\ isr' = Append(isr, c) /\ Len(isr) + 1 < Word /\ Len(isr') = Len(isr) + 1
            /\ ring' = ring /\ written' = written
            /\ \A i \in 1 .. Len(isr) : isr'[i] = isr[i]
            /\ isr'[Len(isr) + 1] = c
         \/ /\ isr' = <<>> /\ Len(isr) + 1 = Word /\ written' = written + 1
            /\ Paced
            /\ \A i \in Places :
                 LET j == i - ((written * Word) % Ring)
                 IN  ring'[i] = IF j \in 0 .. Word - 2 THEN isr[j + 1]
                                ELSE IF j = Word - 1 THEN c ELSE ring[i]
<1> DEFINE word == Append(isr, c)
           base == (written * Word) % Ring
<1>1. /\ Len(isr) \in Nat /\ Len(isr) < Word /\ Word \in Nat \ {0} /\ isr \in Seq(Cell)
      /\ written * Word \in Nat
  BY NumberFacts DEF TypeInv
<1>2. /\ Len(word) = Len(isr) + 1 /\ \A i \in 1 .. Len(isr) : word[i] = isr[i]
      /\ word[Len(isr) + 1] = c /\ word \in Seq(Cell)
  BY <1>1, AppendProperties
<1>3. base \in Nat
  BY <1>1, Division DEF Places
<1>4. CASE Len(word) < Word
  BY <1>1, <1>2, <1>4 DEF ShiftIn
<1>5. CASE ~ (Len(word) < Word)
  <2>1. /\ isr' = <<>> /\ written' = written + 1 /\ Paced
        /\ ring' = [i \in Places |->
                      IF i \in base .. base + Word - 1 THEN word[i - base + 1] ELSE ring[i]]
    BY <1>5 DEF ShiftIn
  <2>2. Len(isr) + 1 = Word
    BY <1>1, <1>2, <1>5
  <2> HIDE DEF word, base
  <2>3. ASSUME NEW i \in Places
        PROVE  LET j == i - base
               IN  ring'[i] = IF j \in 0 .. Word - 2 THEN isr[j + 1]
                              ELSE IF j = Word - 1 THEN c ELSE ring[i]
    <3>1. ring'[i] = IF i \in base .. base + Word - 1 THEN word[i - base + 1] ELSE ring[i]
      BY <2>1
    <3>2. i \in Nat
      BY DEF Places
    <3> DEFINE j == i - base
    <3>3. CASE j \in 0 .. Word - 2
      <4>1. i \in base .. base + Word - 1 /\ i - base + 1 = j + 1 /\ j + 1 \in 1 .. Len(isr)
        BY <1>1, <1>3, <2>2, <3>2, <3>3
      <4> QED
        BY <1>2, <3>1, <3>3, <4>1
    <3>4. CASE j = Word - 1
      <4>1. i \in base .. base + Word - 1 /\ i - base + 1 = Len(isr) + 1
            /\ ~ (j \in 0 .. Word - 2)
        BY <1>1, <1>3, <2>2, <3>2, <3>4
      <4> QED
        BY <1>2, <3>1, <3>4, <4>1
    <3>5. CASE ~ (j \in 0 .. Word - 2) /\ j # Word - 1
      <4>1. ~ (i \in base .. base + Word - 1)
        BY <1>1, <1>3, <3>2, <3>5
      <4> QED
        BY <3>1, <3>5, <4>1
    <3> QED
      BY <3>3, <3>4, <3>5
  <2> QED
    BY <2>1, <2>2, <2>3 DEF base
<1> QED
  BY <1>4, <1>5

LEMMA ShiftType ==
  ASSUME TypeInv, Inv, NEW c \in Cell, ShiftIn(c)
  PROVE  ring' \in [Places -> Cell] /\ isr' \in Seq(Cell) /\ Len(isr') < Word
<1>1. isr \in Seq(Cell) /\ ring \in [Places -> Cell] /\ Word \in Nat \ {0} /\ Len(isr) \in Nat
  BY NumberFacts DEF TypeInv
<1>2. CASE isr' = Append(isr, c) /\ Len(isr') = Len(isr) + 1 /\ Len(isr) + 1 < Word /\ ring' = ring
  BY <1>1, <1>2, AppendProperties
<1>3. CASE /\ isr' = <<>> /\ Len(isr) + 1 = Word
           /\ \A i \in Places :
                 LET j == i - ((written * Word) % Ring)
                 IN  ring'[i] = IF j \in 0 .. Word - 2 THEN isr[j + 1]
                                ELSE IF j = Word - 1 THEN c ELSE ring[i]
  <2>1. isr' \in Seq(Cell) /\ Len(isr') < Word
    BY <1>1, <1>3
  <2>2. ASSUME NEW i \in Places PROVE ring'[i] \in Cell
    <3> DEFINE j == i - ((written * Word) % Ring)
    <3>1. j \in 0 .. Word - 2 => isr[j + 1] \in Cell
      <4>1. j \in 0 .. Word - 2 => j + 1 \in 1 .. Len(isr)
        BY <1>1, <1>3
      <4> QED
        BY <1>1, <4>1, ElementOfSeq
    <3>2. ring'[i] = IF j \in 0 .. Word - 2 THEN isr[j + 1]
                     ELSE IF j = Word - 1 THEN c ELSE ring[i]
      BY <1>3
    <3> HIDE DEF j
    <3>3. ring[i] \in Cell
      BY <1>1
    <3> QED
      BY <3>1, <3>2, <3>3
  <2>3. DOMAIN ring' = Places /\ ring' = [i \in Places |-> ring'[i]]
    <3>1. CASE Len(Append(isr, c)) < Word
      BY <1>1, <1>3, <3>1, AppendProperties
    <3>2. CASE ~ (Len(Append(isr, c)) < Word)
      BY <3>2 DEF ShiftIn
    <3> QED
      BY <3>1, <3>2
  <2> QED
    BY <2>1, <2>2, <2>3
<1> QED
  BY <1>2, <1>3, ShiftFacts

\* The reading of the counter: all that was written is unread, or the port has
\* gone on shortly behind the head.
LEMMA BeginFacts ==
  ASSUME TypeInv, Inv, PollBegin
  PROVE  /\ pc = "idle" /\ pc' = "extract" /\ ~ NothingNew /\ seen' = written
         /\ read' \in Nat /\ read <= read' /\ read' + unread' = written * Word
         /\ unread' \in 0 .. Ring /\ tail' = read' % Ring
         /\ UNCHANGED <<wireVars, exhausted, lastSeq, drops, delivered>>
         /\ \/ read' = read /\ gone' = gone
            \/ /\ written * Word - read >= Ring /\ read' = written * Word - Recover
               /\ gone' = gone \cup FramesBetween(read, read')
<1>1. /\ written * Word \in Nat /\ read \in Nat /\ read <= written * Word
      /\ Ring \in Nat \ {0} /\ Recover \in 1 .. Ring
  BY NumberFacts, RxSizesAssumption
<1>2. TotalWords = written
  BY TotalIsWritten
<1>3. /\ pc = "idle" /\ pc' = "extract" /\ ~ NothingNew /\ seen' = written
      /\ UNCHANGED <<wireVars, exhausted, lastSeq, drops, delivered>>
      /\ \/ written * Word - read >= Ring /\ Overrun(written * Word)
         \/ /\ written * Word - read < Ring
            /\ unread' = IF written * Word >= read THEN written * Word - read ELSE 0
            /\ UNCHANGED <<tail, read, gone>>
  BY <1>2 DEF PollBegin
<1>4. CASE written * Word - read >= Ring /\ Overrun(written * Word)
  <2>1. /\ read' = written * Word - Recover /\ unread' = Recover
        /\ tail' = (written * Word - Recover) % Ring
        /\ gone' = gone \cup FramesBetween(read, written * Word - Recover)
    BY <1>4 DEF Overrun
  <2> QED
    BY <1>1, <1>3, <1>4, <2>1
<1>5. CASE /\ written * Word - read < Ring
           /\ unread' = IF written * Word >= read THEN written * Word - read ELSE 0
           /\ UNCHANGED <<tail, read, gone>>
  <2>1. tail' = read' % Ring
    BY <1>5 DEF TypeInv
  <2> QED
    BY <1>1, <1>3, <1>5, <2>1
<1> QED
  BY <1>3, <1>4, <1>5

\* What an extraction comes to.
LEMMA ExtractCases ==
  ASSUME NEW n \in Nat
  PROVE  \/ n < 2 + TotalCells(1) /\ Extract(n) = Outcome("INCOMPLETE", 0, 0)
         \/ /\ n >= 2 + TotalCells(1) /\ SyncsIn(Avail(n)) = {}
            /\ Extract(n) = Outcome("SYNC_NOT_FOUND", Avail(n) - 1, 0)
         \/ /\ n >= 2 + TotalCells(1)
            /\ \E s \in SyncsIn(Avail(n)) :
                 /\ \A t \in SyncsIn(Avail(n)) : s <= t
                 /\ \/ s + 3 > Avail(n) /\ Extract(n) = Outcome("INCOMPLETE", s, 0)
                    \/ /\ s + 3 <= Avail(n) /\ At(s + 2).v \notin 1 .. MaxLen
                       /\ Extract(n) = Outcome("INVALID_LEN", s + 2, 0)
                    \/ /\ s + 3 <= Avail(n) /\ At(s + 2).v \in 1 .. MaxLen
                       /\ s + 2 + TotalCells(At(s + 2).v) > Avail(n)
                       /\ Extract(n) = Outcome("INCOMPLETE", s, 0)
                    \/ /\ At(s + 2).v \in 1 .. MaxLen
                       /\ s + 2 + TotalCells(At(s + 2).v) <= Avail(n)
                       /\ \A k \in Frames : ~ DecodesTo(k, s + 2, At(s + 2).v)
                       /\ Extract(n) = Outcome("CRC_MISMATCH", s + 2, 0)
                    \/ /\ At(s + 2).v \in 1 .. MaxLen
                       /\ s + 2 + TotalCells(At(s + 2).v) <= Avail(n)
                       /\ \E k \in Frames :
                            /\ DecodesTo(k, s + 2, At(s + 2).v)
                            /\ Extract(n) = Outcome("FRAME_OK",
                                                    s + 2 + TotalCells(At(s + 2).v), k)
<1> DEFINE av == Avail(n)
<1>1. av \in Nat /\ MaxLen \in Nat /\ 2 + TotalCells(1) \in Nat
  <2>1. Window \in Nat /\ MaxLen \in Nat
    BY RxSizesAssumption
  <2> QED
    BY <2>1, TotalCellsNat DEF Avail
<1>2. CASE n < 2 + TotalCells(1)
  BY <1>2 DEF Extract
<1>3. CASE ~ (n < 2 + TotalCells(1)) /\ SyncsIn(av) = {}
  BY <1>1, <1>3 DEF Extract, Searched
<1>4. CASE ~ (n < 2 + TotalCells(1)) /\ SyncsIn(av) # {}
  <2>1. SyncsIn(av) \in SUBSET Nat /\ \A x \in SyncsIn(av) : x \in 0 .. av - 2
    BY <1>1 DEF SyncsIn
  <2>2. \E x \in SyncsIn(av) : \A t \in SyncsIn(av) : x <= t
    BY <1>4, <2>1, LeastExists
  <2>3. PICK s : s = CHOOSE x \in SyncsIn(av) : \A t \in SyncsIn(av) : x <= t
    OBVIOUS
  <2>4. s \in SyncsIn(av) /\ \A t \in SyncsIn(av) : s <= t
    BY <2>2, <2>3
  <2>5. Extract(n) = AtSync(s, av)
    BY <1>4, <2>3 DEF Extract
  <2>6. s \in Nat
    BY <2>1, <2>4
  <2> HIDE DEF av
  <2>7. PICK len : len = At(s + 2).v
    OBVIOUS
  <2> DEFINE intact == {k \in Frames : DecodesTo(k, s + 2, len)}
  <2>8. Extract(n) =
          IF s + 2 + 1 > av THEN Outcome("INCOMPLETE", s, 0)
          ELSE IF len \notin 1 .. MaxLen THEN Outcome("INVALID_LEN", s + 2, 0)
          ELSE IF ~ (s + 2 + TotalCells(len) <= av) THEN Outcome("INCOMPLETE", s, 0)
          ELSE IF intact = {} THEN Outcome("CRC_MISMATCH", s + 2, 0)
          ELSE Outcome("FRAME_OK", s + 2 + TotalCells(len), CHOOSE k \in intact : TRUE)
    BY <2>5, <2>7, Zenon DEF AtSync, Whole
  <2>9. PICK k : k = CHOOSE x \in intact : TRUE
    OBVIOUS
  <2>10. intact # {} => k \in Frames /\ DecodesTo(k, s + 2, len)
    BY <2>9
  <2>11. intact = {} => \A x \in Frames : ~ DecodesTo(x, s + 2, len)
    OBVIOUS
  <2>12. Extract(n) =
          IF s + 2 + 1 > av THEN Outcome("INCOMPLETE", s, 0)
          ELSE IF len \notin 1 .. MaxLen THEN Outcome("INVALID_LEN", s + 2, 0)
          ELSE IF ~ (s + 2 + TotalCells(len) <= av) THEN Outcome("INCOMPLETE", s, 0)
          ELSE IF intact = {} THEN Outcome("CRC_MISMATCH", s + 2, 0)
          ELSE Outcome("FRAME_OK", s + 2 + TotalCells(len), k)
    BY <2>8, <2>9, Zenon
  <2> HIDE DEF intact
  <2>13. len \in 1 .. MaxLen => TotalCells(len) \in Nat /\ TotalCells(len) > 3
    <3>1. len \in 1 .. MaxLen => len \in Nat /\ RawCells(len) > 3
      BY <1>1 DEF RawCells
    <3> QED
      BY <3>1, TotalFacts
  <2>14. \/ s + 3 > av /\ Extract(n) = Outcome("INCOMPLETE", s, 0)
         \/ s + 3 <= av /\ len \notin 1 .. MaxLen /\ Extract(n) = Outcome("INVALID_LEN", s + 2, 0)
         \/ /\ s + 3 <= av /\ len \in 1 .. MaxLen /\ s + 2 + TotalCells(len) > av
            /\ Extract(n) = Outcome("INCOMPLETE", s, 0)
         \/ /\ len \in 1 .. MaxLen /\ s + 2 + TotalCells(len) <= av /\ intact = {}
            /\ Extract(n) = Outcome("CRC_MISMATCH", s + 2, 0)
         \/ /\ len \in 1 .. MaxLen /\ s + 2 + TotalCells(len) <= av /\ intact # {}
            /\ Extract(n) = Outcome("FRAME_OK", s + 2 + TotalCells(len), k)
    BY <1>1, <2>6, <2>12, <2>13
  <2>15. n >= 2 + TotalCells(1)
    BY <1>1, <1>4
  <2>16. \/ s + 3 > av /\ Extract(n) = Outcome("INCOMPLETE", s, 0)
         \/ s + 3 <= av /\ len \notin 1 .. MaxLen /\ Extract(n) = Outcome("INVALID_LEN", s + 2, 0)
         \/ /\ s + 3 <= av /\ len \in 1 .. MaxLen /\ s + 2 + TotalCells(len) > av
            /\ Extract(n) = Outcome("INCOMPLETE", s, 0)
         \/ /\ len \in 1 .. MaxLen /\ s + 2 + TotalCells(len) <= av
            /\ \A x \in Frames : ~ DecodesTo(x, s + 2, len)
            /\ Extract(n) = Outcome("CRC_MISMATCH", s + 2, 0)
         \/ /\ len \in 1 .. MaxLen /\ s + 2 + TotalCells(len) <= av
            /\ \E x \in Frames : /\ DecodesTo(x, s + 2, len)
                                 /\ Extract(n) = Outcome("FRAME_OK", s + 2 + TotalCells(len), x)
    BY <2>10, <2>11, <2>14, Zenon
  <2> QED
    BY <2>4, <2>7, <2>15, <2>16, Zenon DEF av
<1> QED
  BY <1>2, <1>3, <1>4

\* The end of a poll: the port moves on, and returns a frame or nothing.
LEMMA EndFacts ==
  ASSUME TypeInv, Inv, PollEnd
  PROVE  /\ pc = "extract" /\ pc' = "idle" /\ unread' = 0
         /\ Extract(unread).adv \in 0 .. unread
         /\ read' = read + Extract(unread).adv /\ tail' = read' % Ring
         /\ exhausted' = (Extract(unread).status \in {"SYNC_NOT_FOUND", "INCOMPLETE"})
         /\ UNCHANGED <<wireVars, seen, lap, lastCount, total, gone>>
         /\ \/ /\ Extract(unread).status = "FRAME_OK" /\ Extract(unread).frame \in Frames
               /\ Accept(Extract(unread).frame, SeqOf(Extract(unread).frame))
            \/ Extract(unread).status # "FRAME_OK" /\ UNCHANGED <<delivered, lastSeq, drops>>
<1>1. read \in Nat /\ unread \in Nat /\ tail = read % Ring
  BY NumberFacts DEF TypeInv
<1>2. Extract(unread).adv \in 0 .. unread
  BY <1>1, ExtractBound
<1>3. tail' = read' % Ring
  BY <1>1, <1>2, PlaceSum DEF PollEnd, Advance
<1>4. Extract(unread).status = "FRAME_OK" => Extract(unread).frame \in Frames
  BY <1>1, ExtractCases DEF Outcome
<1> QED
  BY <1>2, <1>3, <1>4 DEF PollEnd, Advance

LEMMA OverwrittenType ==
  ASSUME TypeInv, Inv
  PROVE  Overwritten \subseteq Frames
<1>1. read \in Nat /\ written * Word - Ring \in Int /\ Word \in Nat
  BY NumberFacts
<1>2. ASSUME NEW q \in {p \in written * Word - Ring .. written * Word - Ring + Word - 1 : p >= read}
      PROVE  ring[q % Ring].of \in Frames \cup {0}
  <2>1. q \in Nat
    BY <1>1
  <2> QED
    BY <2>1, RingFrame
<1> QED
  BY <1>2 DEF Overwritten

LEMMA BetweenType ==
  ASSUME TypeInv, Inv, NEW a \in Nat, NEW b \in Nat
  PROVE  FramesBetween(a, b) \subseteq Frames
<1>1. ASSUME NEW q \in {p \in a .. b - 1 : p >= written * Word - Ring}
      PROVE  ring[q % Ring].of \in Frames \cup {0}
  <2>1. q \in Nat
    OBVIOUS
  <2> QED
    BY <2>1, RingFrame
<1> QED
  BY <1>1 DEF FramesBetween

\* The cell of a damaged transmission.
LEMMA NoiseCell ==
  ASSUME NEW v \in Noise
  PROVE  /\ [Blank EXCEPT !.v = v] \in Cell
         /\ [Blank EXCEPT !.v = v].of = 0 /\ [Blank EXCEPT !.v = v].v = v
BY RxSizesAssumption DEF Blank, Cell

LEMMA WireType ==
  ASSUME TypeInv, Inv, Wire
  PROVE  TypeInv'
<1>0. tail = read % Ring /\ unread <= Ring
  BY DEF TypeInv
<1>1. CASE StartFrame
  <2>1. Payloads \in Seq(Seq(Values))
    BY RxSizesAssumption
  <2>2. Frames = 1 .. Len(Payloads) /\ Len(Payloads) \in Nat
    BY <2>1, LenProperties DEF Frames
  <2>3. frame + 1 \in Frames
    BY <1>1, <2>2 DEF StartFrame, TypeInv
  <2> QED
    BY <1>1, <2>3 DEF StartFrame, TypeInv, portVars
<1>2. CASE Transmit
  <2>1. Sending /\ frame \in Frames /\ pos \in Nat
    BY <1>2 DEF Transmit, Sending, TypeInv
  <2>2. NextCell \in Cell
    BY <2>1, NextCellFacts
  <2>3. ring' \in [Places -> Cell] /\ isr' \in Seq(Cell) /\ Len(isr') < Word
    BY <1>2, <2>2, ShiftType DEF Transmit
  <2>4. gone' \subseteq Frames
    BY <1>2, <2>1, OverwrittenType DEF Transmit, TypeInv
  <2>5. ends' \in [Frames -> Nat]
    <3>0. written * Word \in Nat /\ Len(isr) \in Nat
      BY NumberFacts
    <3>1. ends \in [Frames -> Nat] /\ written * Word + Len(isr) + 1 \in Nat
      BY <3>0 DEF TypeInv
    <3>2. ends' = ends \/ ends' = [ends EXCEPT ![frame] = written * Word + Len(isr) + 1]
      BY <1>2 DEF Transmit
    <3> QED
      BY <3>1, <3>2
  <2>6. pos' \in Nat
    BY <1>2, <2>1 DEF Transmit
  <2> QED
    BY <1>0, <1>2, <2>3, <2>4, <2>5, <2>6 DEF Transmit, TypeInv, portVars
<1>3. CASE Damage
  <2>1. frame \in Frames
    BY <1>3 DEF Damage, Sending, TypeInv
  <2>2. PICK v \in Noise : ShiftIn([Blank EXCEPT !.v = v])
    BY <1>3 DEF Damage
  <2>3. [Blank EXCEPT !.v = v] \in Cell
    BY NoiseCell
  <2>4. ring' \in [Places -> Cell] /\ isr' \in Seq(Cell) /\ Len(isr') < Word
    BY <2>2, <2>3, ShiftType
  <2>5. gone' \subseteq Frames
    BY <1>3, <2>1, OverwrittenType DEF Damage, TypeInv
  <2>6. damages' \in 0 .. Damages
    <3>1. damages \in 0 .. Damages /\ damages < Damages /\ damages' = damages + 1
      BY <1>3 DEF Damage, TypeInv
    <3>2. Damages \in Nat
      BY RxSizesAssumption
    <3> QED
      BY <3>1, <3>2
  <2>7. pos' \in Nat
    BY <1>3 DEF Damage, TypeInv
  <2> QED
    BY <1>0, <1>3, <2>4, <2>5, <2>6, <2>7 DEF Damage, TypeInv, portVars
<1>4. CASE Slip
  <2>1. frame \in Frames /\ Sending /\ pos \in Nat
    BY <1>4 DEF Slip, Sending, TypeInv
  <2>2. NextCell.of \in Frames \cup {0}
    BY <2>1, NextCellFacts DEF Cell
  <2>3. gone' \subseteq Frames
    BY <1>4, <2>2 DEF Slip, TypeInv
  <2>4. slips' \in 0 .. Slips /\ pos' \in Nat
    BY <1>4, RxSizesAssumption DEF Slip, TypeInv
  <2> QED
    BY <1>0, <1>4, <2>3, <2>4 DEF Slip, TypeInv, portVars
<1> QED
  BY <1>1, <1>2, <1>3, <1>4 DEF Wire

\* The jump of a sequence number is one of the sequence numbers.
LEMMA JumpType ==
  ASSUME TypeInv, NEW k \in Frames
  PROVE  (SeqOf(k) - ((lastSeq + 1) % SeqMod)) % SeqMod \in Nat
<1>1. SeqMod \in Nat \ {0}
  BY RxSizesAssumption
<1>2. SeqOf(k) \in Nat
  BY <1>1, FrameFacts
<1>3. (lastSeq + 1) % SeqMod \in Nat
  BY <1>1 DEF TypeInv
<1>4. SeqOf(k) - ((lastSeq + 1) % SeqMod) \in Int
  BY <1>2, <1>3
<1> HIDE DEF SeqOf
<1> QED
  BY <1>1, <1>4

LEMMA PollType ==
  ASSUME TypeInv, Inv, Poll
  PROVE  TypeInv'
<1>0. Ring \in Nat /\ read \in Nat /\ unread \in Nat
  BY NumberFacts
<1>1. CASE PollBegin
  <2>1. /\ read' \in Nat /\ unread' \in 0 .. Ring /\ tail' = read' % Ring /\ pc' = "extract"
        /\ UNCHANGED <<wireVars, exhausted, lastSeq, drops, delivered>>
        /\ gone' = gone \/ gone' = gone \cup FramesBetween(read, read')
    BY <1>1, BeginFacts
  <2>2. gone' \subseteq Frames
    BY <1>0, <2>1, BetweenType DEF TypeInv
  <2>3. unread' <= Ring
    BY <1>0, <2>1
  <2> QED
    BY <2>1, <2>2, <2>3 DEF TypeInv, wireVars
<1>2. CASE PollEnd
  <2>1. /\ pc' = "idle" /\ unread' = 0 /\ tail' = read' % Ring
        /\ exhausted' \in BOOLEAN
        /\ UNCHANGED <<wireVars, gone>>
        /\ \/ /\ Extract(unread).frame \in Frames
              /\ Accept(Extract(unread).frame, SeqOf(Extract(unread).frame))
           \/ UNCHANGED <<delivered, lastSeq, drops>>
    BY <1>2, EndFacts
  <2>2. delivered' \in Seq(Frames) /\ lastSeq' \in -1 .. SeqMod - 1 /\ drops' \in Nat
    <3>1. CASE /\ Extract(unread).frame \in Frames
               /\ Accept(Extract(unread).frame, SeqOf(Extract(unread).frame))
      <4>1. PICK k \in Frames : Accept(k, SeqOf(k))
        BY <3>1
      <4>2. delivered' \in Seq(Frames)
        BY <4>1 DEF Accept, TypeInv
      <4>3. lastSeq' \in -1 .. SeqMod - 1
        BY <4>1, FrameFacts, RxSizesAssumption DEF Accept
      <4>4. drops' \in Nat
        BY <4>1, JumpType DEF Accept, TypeInv
      <4> QED
        BY <4>2, <4>3, <4>4
    <3>2. CASE UNCHANGED <<delivered, lastSeq, drops>>
      BY <3>2 DEF TypeInv
    <3> QED
      BY <2>1, <3>1, <3>2
  <2>3. unread' <= Ring
    BY <1>0, <2>1
  <2> QED
    BY <2>1, <2>2, <2>3 DEF TypeInv, wireVars
<1> QED
  BY <1>1, <1>2 DEF Poll

LEMMA TypeInvariance == Spec => [](Inv /\ TypeInv)
<1>1. Init => Inv /\ TypeInv
  BY InitInv, TypeInit
<1>2. Inv /\ TypeInv /\ [Next]_vars => TypeInv'
  <2> SUFFICES ASSUME Inv, TypeInv, [Next]_vars PROVE TypeInv'
    OBVIOUS
  <2>1. CASE UNCHANGED vars
    BY <2>1 DEF vars, wireVars, portVars, TypeInv
  <2>2. CASE Next
    BY <2>2, WireType, PollType DEF Next
  <2> QED
    BY <2>1, <2>2
<1> QED
  BY Invariance, <1>1, <1>2, PTL DEF Spec

\* Every variable of the receive path stays in its range: the tail in the ring,
\* the counter in its register, the unread cells within a ring, for every size of
\* ring, window and word and every sequence of frames (bmc_rx_poll_packet).
THEOREM BmcRxType == Spec => []TypeOK
<1>1. Inv /\ TypeInv => TypeOK
  <2> SUFFICES ASSUME Inv, TypeInv PROVE TypeOK
    OBVIOUS
  <2>1. /\ read \in Nat /\ unread \in Nat /\ Ring \in Nat /\ written \in Nat /\ seen \in Nat
    BY NumberFacts
  <2>2. tail \in Places /\ unread \in 0 .. Ring
    BY <2>1, Division DEF TypeInv
  <2>3. lap \in Nat /\ count \in 1 .. Reload /\ lastCount \in 1 .. Reload /\ total \in Nat
    BY DEF Inv, CounterInv
  <2> QED
    BY <2>1, <2>2, <2>3 DEF TypeInv, TypeOK
<1> QED
  BY TypeInvariance, <1>1, PTL



-----------------------------------------------------------------------------
(* The order of the cells that were shifted in.                            *)

\* The cells shifted in ever since, the positions of those that are still in the
\* ring or in the register, and the cell at a position.
Shifted == written * Word + Len(isr)
Held    == {p \in Nat : written * Word - Ring <= p /\ p < Shifted}
Got(p)  == IF p < written * Word THEN ring[p % Ring] ELSE isr[p - written * Word + 1]

\* The order in which cells are sent: the frames one after the other.
Before(a, b) == a.of < b.of \/ (a.of = b.of /\ a.at < b.at)
Length(k) == [of |-> k, at |-> 3]
Coming    == [of |-> frame, at |-> (pos + 1) - Lead]

\* What was shifted in of the frames are cells sent so far, in the order they
\* were sent.
SentCells ==
  \A p \in Held : Got(p).of # 0 => Got(p).at >= 1 /\ Before(Got(p), Coming)
Ordered ==
  \A p, q \in Held : p < q /\ Got(p).of # 0 /\ Got(q).of # 0 => Before(Got(p), Got(q))

\* The LEN of the frame returned last was sent before all that is unread or
\* still to come.
Last == delivered[Len(delivered)]
Passed ==
  delivered # <<>> =>
    /\ Before(Length(Last), Coming)
    /\ \A q \in Held : q >= read /\ Got(q).of # 0 => Before(Length(Last), Got(q))

\* In a poll no more than Slack words arrive; what was written at its look at the
\* counter is all to be searched, and no more than a ring.
Looking ==
  pc = "extract" => written - seen <= Slack /\ read + unread = seen * Word

OrderInv == SentCells /\ Ordered /\ Passed /\ Looking /\ DeliveredInOrder

LEMMA BeforeTransitive ==
  ASSUME NEW a, NEW b, NEW c, a.of \in Int, b.of \in Int, c.of \in Int,
         a.at \in Int, b.at \in Int, c.at \in Int, Before(a, b), Before(b, c)
  PROVE  Before(a, c)
BY DEF Before

\* The numbers of the positions.
LEMMA ShiftedFacts ==
  ASSUME TypeInv, Inv
  PROVE  /\ Shifted \in Nat /\ written * Word <= Shifted /\ Shifted < written * Word + Word
         /\ \A p \in Held : p \in Nat /\ p < Shifted /\ p >= written * Word - Ring
         /\ \A p \in Nat : p >= written * Word - Ring /\ p < Shifted => p \in Held
<1>1. written * Word \in Nat /\ Len(isr) \in Nat /\ Len(isr) < Word /\ Word \in Nat
  BY NumberFacts
<1> QED
  BY <1>1 DEF Shifted, Held

\* The fields of a cell that was shifted in, and of the next.
LEMMA CellTypes ==
  ASSUME TypeInv, Inv
  PROVE  /\ \A p \in Held : /\ Got(p) \in Cell /\ Got(p).of \in Nat /\ Got(p).at \in Nat
                            /\ Got(p).of \in Frames \cup {0}
         /\ Coming.of \in Nat /\ Coming.at \in Int /\ frame \in Nat
         /\ Coming.of = frame /\ Coming.at = (pos + 1) - Lead
<1>1. \A k \in Frames : k \in Nat
  BY FrameFacts
<1>2. ASSUME NEW p \in Held
      PROVE  Got(p) \in Cell /\ Got(p).of \in Nat /\ Got(p).at \in Nat
             /\ Got(p).of \in Frames \cup {0}
  <2>1. p \in Nat /\ p < written * Word + Len(isr) /\ written * Word \in Nat /\ Len(isr) \in Nat
    BY NumberFacts, ShiftedFacts DEF Shifted
  <2>2. ASSUME p < written * Word PROVE Got(p) \in Cell
    BY <2>1, <2>2, RingFrame DEF Got
  <2>3. ASSUME ~ (p < written * Word) PROVE Got(p) \in Cell
    <3>1. p - written * Word + 1 \in 1 .. Len(isr)
      BY <2>1, <2>3
    <3> QED
      BY <2>3, <3>1, ElementOfSeq DEF Got, TypeInv
  <2>4. Got(p) \in Cell
    BY <2>2, <2>3
  <2> QED
    BY <1>1, <2>4 DEF Cell
<1>3. frame \in Nat /\ pos \in Nat /\ Lead \in Nat
  BY <1>1, NumberFacts DEF TypeInv
<1> QED
  BY <1>2, <1>3 DEF Coming

LEMMA LastType ==
  ASSUME TypeInv, delivered # <<>>
  PROVE  Last \in Frames /\ Last \in Nat /\ Length(Last).of = Last /\ Length(Last).at = 3
         /\ Len(delivered) \in Nat \ {0}
<1>1. delivered \in Seq(Frames)
  BY DEF TypeInv
<1>2. Len(delivered) \in Nat \ {0}
  BY <1>1, EmptySeq
<1>3. Last \in Frames
  BY <1>1, <1>2, ElementOfSeq DEF Last
<1>4. Last \in Nat
  BY <1>3, FrameFacts
<1> QED
  BY <1>2, <1>3, <1>4 DEF Length

-----------------------------------------------------------------------------

\* A cell that is shifted in is the last one and leaves the others, or those of
\* them that its word does not overwrite.
LEMMA ShiftHeld ==
  ASSUME TypeInv, Inv, NEW c \in Cell, ShiftIn(c)
  PROVE  /\ Shifted' = Shifted + 1
         /\ \A p \in Held' : \/ p = Shifted /\ Got(p)' = c
                             \/ p \in Held /\ p < Shifted /\ Got(p)' = Got(p)
<1>1. /\ written \in Nat /\ written * Word \in Nat /\ Len(isr) \in Nat /\ Len(isr) < Word
      /\ Word \in Nat \ {0} /\ Ring \in Nat \ {0} /\ Word <= Ring
  BY NumberFacts
<1>2. CASE /\ isr' = Append(isr, c) /\ Len(isr) + 1 < Word /\ Len(isr') = Len(isr) + 1
           /\ ring' = ring /\ written' = written
           /\ \A i \in 1 .. Len(isr) : isr'[i] = isr[i]
           /\ isr'[Len(isr) + 1] = c
  <2>1. Shifted' = Shifted + 1 /\ Shifted \in Nat
    BY <1>1, <1>2 DEF Shifted
  <2>2. ASSUME NEW p \in Held'
        PROVE  \/ p = Shifted /\ Got(p)' = c
               \/ p \in Held /\ p < Shifted /\ Got(p)' = Got(p)
    <3>1. p \in Nat /\ written * Word - Ring <= p /\ p < Shifted + 1
      BY <1>2, <2>1, <2>2 DEF Held
    <3>2. CASE p = Shifted
      <4>1. p - written * Word + 1 = Len(isr) + 1 /\ ~ (p < written * Word)
        BY <1>1, <3>2 DEF Shifted
      <4>2. Got(p)' = isr'[p - written * Word + 1]
        BY <1>2, <4>1 DEF Got
      <4> QED
        BY <1>2, <3>2, <4>1, <4>2
    <3>3. CASE p # Shifted
      <4>1. p \in Held /\ p < Shifted
        BY <2>1, <3>1, <3>3 DEF Held
      <4>2. ~ (p < written * Word) => p - written * Word + 1 \in 1 .. Len(isr)
        BY <1>1, <3>1, <4>1 DEF Shifted
      <4>3. Got(p)' = IF p < written * Word THEN ring[p % Ring] ELSE isr'[p - written * Word + 1]
        BY <1>2 DEF Got
      <4>4. Got(p)' = Got(p)
        BY <1>2, <4>2, <4>3 DEF Got
      <4> QED
        BY <4>1, <4>4
    <3> QED
      BY <3>2, <3>3
  <2> QED
    BY <2>1, <2>2
<1>3. CASE /\ isr' = <<>> /\ Len(isr) + 1 = Word /\ written' = written + 1
           /\ \A i \in Places :
                 LET j == i - ((written * Word) % Ring)
                 IN  ring'[i] = IF j \in 0 .. Word - 2 THEN isr[j + 1]
                                ELSE IF j = Word - 1 THEN c ELSE ring[i]
  <2>1. PICK w \in Nat : w = written * Word
    BY <1>1
  <2>2. PICK base \in Nat : base = w % Ring
    BY <2>1, Division DEF Places
  <2>3. written' * Word = w + Word /\ Len(isr') = 0
    BY <1>1, <1>3, <2>1
  <2>4. Shifted = w + (Word - 1) /\ Shifted' = w + Word
    BY <1>1, <1>3, <2>1, <2>3 DEF Shifted
  <2>5. ASSUME NEW p \in Held'
        PROVE  \/ p = Shifted /\ Got(p)' = c
               \/ p \in Held /\ p < Shifted /\ Got(p)' = Got(p)
    <3>1. p \in Nat /\ w + Word - Ring <= p /\ p < w + Word
      <4>1. p \in Nat /\ written' * Word - Ring <= p /\ p < Shifted'
        BY <2>5 DEF Held
      <4> QED
        BY <1>1, <2>3, <2>4, <4>1
    <3>2. Got(p)' = ring'[p % Ring]
      BY <2>3, <3>1 DEF Got
    <3>3. p % Ring \in Places
      BY <3>1, Division
    <3> DEFINE j == (p % Ring) - base
    <3>4. ring'[p % Ring] = IF j \in 0 .. Word - 2 THEN isr[j + 1]
                            ELSE IF j = Word - 1 THEN c ELSE ring[p % Ring]
      BY <1>3, <2>1, <2>2, <3>3
    <3>5. CASE p >= w
      <4>1. p - w \in 0 .. Word - 1 /\ p = w + (p - w)
        BY <1>1, <3>1, <3>5
      <4>2. (w + (p - w)) % Ring = base + (p - w)
        BY <1>1, <2>1, <2>2, <4>1, WordFits
      <4>3. j = p - w
        BY <2>2, <3>1, <4>1, <4>2
      <4> HIDE DEF j
      <4>4. CASE p = Shifted
        BY <1>1, <2>4, <3>1, <3>2, <3>4, <4>3, <4>4
      <4>5. CASE p # Shifted
        <5>1. p < Shifted /\ p \in Held /\ j \in 0 .. Word - 2
          BY <1>1, <2>1, <2>4, <3>1, <3>5, <4>3, <4>5 DEF Held
        <5>2. Got(p) = isr[p - w + 1]
          BY <2>1, <3>1, <3>5 DEF Got
        <5> QED
          BY <3>2, <3>4, <4>3, <5>1, <5>2
      <4> QED
        BY <4>4, <4>5
    <3>6. CASE p < w
      <4>1. p < Shifted /\ p \in Held
        BY <1>1, <2>1, <2>4, <3>1, <3>6 DEF Held
      <4>2. ASSUME j \in 0 .. Word - 1 PROVE FALSE
        <5>1. (w + j) % Ring = base + j /\ base + j = p % Ring
          <6>1. (w + j) % Ring = base + j
            BY <1>1, <2>1, <2>2, <4>2, WordFits
          <6>2. p % Ring \in Nat
            BY <3>3 DEF Places
          <6> QED
            BY <2>2, <6>1, <6>2
        <5> HIDE DEF j
        <5>2. PICK q \in Nat : q = w + j /\ p < q /\ q - p < Ring
          BY <1>1, <3>1, <3>6, <4>2
        <5>3. q % Ring = p % Ring
          BY <5>1, <5>2
        <5> QED
          BY <3>1, <5>2, <5>3, Apart
      <4> HIDE DEF j
      <4>3. ring'[p % Ring] = ring[p % Ring]
        BY <1>1, <3>4, <4>2
      <4>4. Got(p) = ring[p % Ring]
        BY <2>1, <3>6 DEF Got
      <4> QED
        BY <3>2, <4>1, <4>3, <4>4
    <3> QED
      BY <2>1, <3>1, <3>5, <3>6
  <2>6. Shifted' = Shifted + 1
    BY <1>1, <2>1, <2>4
  <2> QED
    BY <2>5, <2>6
<1> QED
  BY <1>2, <1>3, ShiftFacts

\* The order is kept by a cell of the frame that is sent, or one that shows no
\* frame.
LEMMA ShiftOrder ==
  ASSUME TypeInv, Inv, OrderInv, NEW c \in Cell, ShiftIn(c),
         c.of = 0 \/ (c.of = frame /\ c.at = (pos + 1) - Lead /\ c.at >= 1),
         frame' = frame, pos' = pos + 1, UNCHANGED portVars
  PROVE  OrderInv'
<1>1. /\ Shifted \in Nat /\ Shifted' = Shifted + 1 /\ frame \in Nat /\ pos \in Nat /\ Lead \in Nat
      /\ \A p \in Held' : \/ p = Shifted /\ Got(p)' = c
                          \/ p \in Held /\ Got(p)' = Got(p)
  BY ShiftHeld, ShiftedFacts, CellTypes, NumberFacts
<1>2. \A p \in Held : p \in Nat /\ p < Shifted
  BY ShiftedFacts
<1>3. /\ \A p \in Held : Got(p).of \in Nat /\ Got(p).at \in Nat
      /\ c.of \in Nat /\ c.at \in Nat
  <2>1. \A k \in Frames : k \in Nat
    BY FrameFacts
  <2>2. c.of \in Nat /\ c.at \in Nat
    BY <2>1 DEF Cell
  <2> QED
    BY <2>2, CellTypes
<1>4. /\ Coming.of = frame /\ Coming.at = (pos + 1) - Lead
      /\ Coming'.of = frame /\ Coming'.at = (pos + 2) - Lead
  BY <1>1 DEF Coming
<1>5. UNCHANGED <<seen, read, unread, pc, delivered>> /\ Last' = Last
  BY DEF portVars, Last
<1>6. SentCells'
  <2> SUFFICES ASSUME NEW p \in Held', Got(p)'.of # 0
               PROVE  Got(p)'.at >= 1 /\ Before(Got(p)', Coming')
    BY DEF SentCells
  <2>1. CASE Got(p)' = c
    BY <1>1, <1>4, <2>1 DEF Before
  <2>2. CASE p \in Held /\ Got(p)' = Got(p)
    <3>1. Got(p).at >= 1 /\ Before(Got(p), Coming)
      BY <2>2 DEF OrderInv, SentCells
    <3> QED
      BY <1>1, <1>3, <1>4, <2>2, <3>1 DEF Before
  <2> QED
    BY <1>1, <2>1, <2>2
<1>7. Ordered'
  <2> SUFFICES ASSUME NEW p \in Held', NEW q \in Held', p < q,
                      Got(p)'.of # 0, Got(q)'.of # 0
               PROVE  Before(Got(p)', Got(q)')
    BY DEF Ordered
  <2>1. p \in Held /\ Got(p)' = Got(p)
    <3>1. ~ (p = Shifted)
      <4>1. q \in Nat /\ q < Shifted + 1
        BY <1>1, <1>2
      <4> QED
        BY <1>1, <4>1
    <3> QED
      BY <1>1, <3>1
  <2>2. CASE q = Shifted /\ Got(q)' = c
    <3>1. Before(Got(p), Coming)
      BY <2>1 DEF OrderInv, SentCells
    <3> QED
      BY <1>4, <2>1, <2>2, <3>1 DEF Before
  <2>3. CASE q \in Held /\ Got(q)' = Got(q)
    BY <2>1, <2>3 DEF OrderInv, Ordered
  <2> QED
    BY <1>1, <2>2, <2>3
<1>8. Passed'
  <2> SUFFICES ASSUME delivered # <<>>
               PROVE  /\ Before(Length(Last), Coming')
                      /\ \A q \in Held' : q >= read /\ Got(q)'.of # 0
                                            => Before(Length(Last), Got(q)')
    BY <1>5 DEF Passed, Length
  <2>1. /\ Before(Length(Last), Coming)
        /\ \A q \in Held : q >= read /\ Got(q).of # 0 => Before(Length(Last), Got(q))
    BY DEF OrderInv, Passed
  <2>2. Length(Last).of \in Nat /\ Length(Last).at \in Nat
    BY LastType
  <2>3. Before(Length(Last), Coming')
    BY <1>1, <1>4, <2>1, <2>2 DEF Before
  <2>4. ASSUME NEW q \in Held', q >= read, Got(q)'.of # 0
        PROVE  Before(Length(Last), Got(q)')
    <3>1. CASE Got(q)' = c
      BY <1>4, <2>1, <2>4, <3>1 DEF Before
    <3>2. CASE q \in Held /\ Got(q)' = Got(q)
      BY <2>1, <2>4, <3>2
    <3> QED
      BY <1>1, <3>1, <3>2
  <2> QED
    BY <2>3, <2>4
<1>9. Looking'
  <2> SUFFICES ASSUME pc = "extract"
               PROVE  written' - seen <= Slack
    BY <1>5 DEF OrderInv, Looking
  <2>1. written' = written \/ (Paced /\ written' = written + 1)
    BY ShiftFacts
  <2>2. written - seen <= Slack /\ written \in Nat /\ seen \in Nat
    BY NumberFacts DEF OrderInv, Looking
  <2> QED
    BY <2>1, <2>2 DEF Paced
<1>10. DeliveredInOrder'
  BY <1>5 DEF OrderInv, DeliveredInOrder
<1> QED
  BY <1>6, <1>7, <1>8, <1>9, <1>10 DEF OrderInv

\* The order is kept when the line moves on and nothing is shifted in.
LEMMA MoveOrder ==
  ASSUME TypeInv, Inv, OrderInv, UNCHANGED <<ring, isr, written, portVars>>,
         Before(Coming, Coming'), Coming'.of \in Nat, Coming'.at \in Int
  PROVE  OrderInv'
<1>1. UNCHANGED <<seen, read, unread, pc, delivered>> /\ Last' = Last /\ Held' = Held
  BY DEF portVars, Last, Held, Shifted
<1>2. \A p \in Held : Got(p)' = Got(p) /\ Got(p).of \in Nat /\ Got(p).at \in Nat
  BY CellTypes DEF Got
<1>3. Coming.of \in Nat /\ Coming.at \in Int
  BY CellTypes
<1>4. SentCells'
  <2> SUFFICES ASSUME NEW p \in Held, Got(p).of # 0
               PROVE  Got(p).at >= 1 /\ Before(Got(p), Coming')
    BY <1>1, <1>2 DEF SentCells
  <2>1. Got(p).at >= 1 /\ Before(Got(p), Coming)
    BY DEF OrderInv, SentCells
  <2> QED
    BY <1>2, <1>3, <2>1, BeforeTransitive
<1>5. Ordered'
  BY <1>1, <1>2 DEF OrderInv, Ordered
<1>6. Passed'
  <2> SUFFICES ASSUME delivered # <<>>
               PROVE  /\ Before(Length(Last), Coming')
                      /\ \A q \in Held : q >= read /\ Got(q).of # 0
                                           => Before(Length(Last), Got(q))
    BY <1>1, <1>2 DEF Passed, Length
  <2>1. /\ Before(Length(Last), Coming)
        /\ \A q \in Held : q >= read /\ Got(q).of # 0 => Before(Length(Last), Got(q))
    BY DEF OrderInv, Passed
  <2>2. Length(Last).of \in Nat /\ Length(Last).at \in Nat
    BY LastType
  <2>3. Before(Length(Last), Coming')
    BY <1>3, <2>1, <2>2, BeforeTransitive
  <2> QED
    BY <2>1, <2>3
<1>7. Looking'
  BY <1>1 DEF OrderInv, Looking
<1>8. DeliveredInOrder'
  BY <1>1 DEF OrderInv, DeliveredInOrder
<1> QED
  BY <1>4, <1>5, <1>6, <1>7, <1>8 DEF OrderInv

LEMMA WireOrder ==
  ASSUME TypeInv, Inv, OrderInv, Wire
  PROVE  OrderInv'
<1>1. frame \in Nat /\ pos \in Nat /\ Lead \in Nat
  BY CellTypes, NumberFacts
<1>2. CASE StartFrame
  <2>1. frame' = frame + 1 /\ pos' = 0 /\ UNCHANGED <<ring, isr, written, portVars>>
    BY <1>2 DEF StartFrame
  <2>2. Before(Coming, Coming') /\ Coming'.of \in Nat /\ Coming'.at \in Int
    BY <1>1, <2>1 DEF Coming, Before
  <2> QED
    BY <2>1, <2>2, MoveOrder
<1>3. CASE Transmit
  <2>1. Sending /\ frame \in Frames
    BY <1>3 DEF Transmit, Sending, TypeInv
  <2>2. NextCell \in Cell
        /\ (NextCell.of = 0 \/ (NextCell.of = frame /\ NextCell.at = (pos + 1) - Lead
                                 /\ NextCell.at >= 1))
    <3>1. NextCell \in Cell /\ Lead \in Nat /\ EndOf(frame) \in Nat
      BY <1>1, <2>1, NextCellFacts, SizeFacts
    <3>2. CASE pos < Lead \/ pos >= EndOf(frame)
      <4>1. NextCell = Blank
        BY <1>1, <2>1, <3>2, NextCellFacts
      <4> QED
        BY <3>1, <4>1 DEF Blank
    <3>3. CASE pos >= Lead /\ pos < EndOf(frame)
      <4>1. NextCell.of = frame /\ NextCell.at = pos + 1 - Lead
        BY <1>1, <2>1, <3>3, NextCellFacts
      <4> QED
        BY <1>1, <3>1, <3>3, <4>1
    <3> QED
      BY <1>1, <3>1, <3>2, <3>3
  <2>3. ShiftIn(NextCell) /\ frame' = frame /\ pos' = pos + 1 /\ UNCHANGED portVars
    BY <1>3 DEF Transmit
  <2>4. PICK c \in Cell : c = NextCell
    BY <2>2
  <2> QED
    BY <2>2, <2>3, <2>4, ShiftOrder
<1>4. CASE Damage
  <2>1. PICK v \in Noise : ShiftIn([Blank EXCEPT !.v = v])
    BY <1>4 DEF Damage
  <2>2. PICK c \in Cell : c = [Blank EXCEPT !.v = v] /\ c.of = 0
    BY NoiseCell
  <2>3. ShiftIn(c) /\ frame' = frame /\ pos' = pos + 1 /\ UNCHANGED portVars
    BY <1>4, <2>1, <2>2 DEF Damage
  <2> QED
    BY <2>2, <2>3, ShiftOrder
<1>5. CASE Slip
  <2>1. frame' = frame /\ pos' = pos + 1 /\ UNCHANGED <<ring, isr, written, portVars>>
    BY <1>5 DEF Slip
  <2>2. Before(Coming, Coming') /\ Coming'.of \in Nat /\ Coming'.at \in Int
    BY <1>1, <2>1 DEF Coming, Before
  <2> QED
    BY <2>1, <2>2, MoveOrder
<1> QED
  BY <1>2, <1>3, <1>4, <1>5 DEF Wire

-----------------------------------------------------------------------------
(* The frame that a poll returns.                                          *)

\* A cell that the port looks at is the one of its position, or one of the
\* position a lap further on that has overwritten it.
LEMMA LookedAt ==
  ASSUME TypeInv, Inv, NEW i \in Nat, read + i < written * Word
  PROVE  /\ read + i \in Nat /\ At(i) = ring[(read + i) % Ring]
         /\ read + i \in Held => At(i) = Got(read + i)
         /\ (read + i \notin Held /\ read + i + Ring >= written * Word - Ring)
               => read + i + Ring \in Held /\ At(i) = Got(read + i + Ring)
<1>1. /\ read \in Nat /\ tail = read % Ring /\ written * Word \in Nat /\ Ring \in Nat \ {0}
      /\ Shifted \in Nat /\ written * Word <= Shifted
  BY NumberFacts, ShiftedFacts DEF TypeInv
<1>2. PICK p \in Nat : p = read + i
  BY <1>1
<1>3. At(i) = ring[p % Ring]
  BY <1>1, <1>2, PlaceSum DEF At
<1>4. At(i) = Got(p)
  BY <1>2, <1>3 DEF Got
<1>5. ASSUME p \notin Held, p + Ring >= written * Word - Ring
      PROVE  p + Ring \in Held /\ At(i) = Got(p + Ring)
  <2>1. p + Ring < written * Word
    BY <1>1, <1>2, <1>5 DEF Held
  <2>2. p + Ring \in Held
    BY <1>1, <1>2, <1>5, <2>1 DEF Held
  <2>3. (p + Ring) % Ring = p % Ring
    BY PlaceLap
  <2> QED
    BY <1>3, <2>1, <2>2, <2>3 DEF Got
<1> QED
  BY <1>2, <1>3, <1>4, <1>5

\* A frame that decodes lies in the ring from its LEN to its CRC, although cells
\* may have been overwritten since the look at the counter: fewer than there are
\* from a sync word to the CRC of the shortest frame, and old cells and new ones
\* are not in the order in which they are sent.
LEMMA DecodedLies ==
  ASSUME TypeInv, Inv, OrderInv, Slack * Word < 2 + RawCells(1), pc = "extract",
         NEW b \in Nat, b >= 2, NEW len \in 1 .. MaxLen, b + TotalCells(len) <= unread,
         NEW k \in Frames, DecodesTo(k, b, len)
  PROVE  /\ RawCells(len) \in Nat /\ RawCells(len) >= 4
         /\ TotalCells(len) \in Nat /\ RawCells(len) < TotalCells(len)
         /\ read + b \in Held /\ Got(read + b).of = k /\ Got(read + b).at = 3
         /\ read + b + (RawCells(len) - 1) \in Held
         /\ Got(read + b + (RawCells(len) - 1)).of = k
         /\ Got(read + b + (RawCells(len) - 1)).at = RawCells(len) + 2
<1>1. /\ len \in Nat /\ RawCells(len) = len + 3 /\ RawCells(1) = 4
      /\ TotalCells(len) \in Nat /\ RawCells(len) < TotalCells(len)
  <2>1. len \in Nat /\ len >= 1
    BY RxSizesAssumption
  <2> QED
    BY <2>1, TotalFacts DEF RawCells
<1>2. PICK n \in Nat : n = RawCells(len) /\ n >= 4
  <2>1. len >= 1
    OBVIOUS
  <2> QED
    BY <1>1, <2>1
<1>3. /\ read \in Nat /\ unread \in Nat /\ unread <= Ring /\ read + unread = seen * Word
      /\ Ring \in Nat \ {0} /\ written * Word \in Nat /\ seen * Word <= written * Word
      /\ Shifted \in Nat /\ written * Word <= Shifted /\ seen * Word \in Nat
  BY NumberFacts, ShiftedFacts DEF TypeInv, OrderInv, Looking
<1>4. written * Word - seen * Word <= 5
  <2>1. written - seen \in Nat /\ written - seen <= Slack /\ Slack \in Nat /\ Word \in Nat
    <3>1. written \in Nat /\ seen \in Nat /\ seen <= written
      BY NumberFacts
    <3>2. Slack \in Nat /\ Word \in Nat
      BY RxSizesAssumption
    <3> QED
      BY <3>1, <3>2 DEF OrderInv, Looking
  <2>2. (written - seen) * Word <= Slack * Word
    BY <2>1, CellsGrow
  <2>3. (written - seen) * Word = written * Word - seen * Word
    BY <2>1, NumberFacts
  <2>4. Slack * Word \in Nat
    BY <2>1
  <2> QED
    BY <1>1, <1>3, <2>2, <2>3, <2>4
<1>5. PICK p \in Nat : p = read + b
  BY <1>3
<1>6. PICK q \in Nat : q = p + (n - 1)
  BY <1>2
<1>7. /\ q < written * Word /\ p < q /\ q < p + Ring /\ q >= written * Word - Ring
      /\ p >= written * Word - Ring - 3 /\ q = read + (b + (n - 1))
      /\ Ring > 6
  BY <1>1, <1>2, <1>3, <1>4, <1>5, <1>6
<1>8. q \in Held
  BY <1>3, <1>7 DEF Held
<1>9. At(b).of = k /\ At(b).at = 3 /\ At(b + (n - 1)).of = k /\ At(b + (n - 1)).at = n + 2
  <2>1. 0 \in 0 .. n - 1 /\ n - 1 \in 0 .. n - 1
    BY <1>2
  <2>2. /\ At(b + 0).of = k /\ At(b + 0).at = 3 + 0
        /\ At(b + (n - 1)).of = k /\ At(b + (n - 1)).at = 3 + (n - 1)
    BY <1>2, <2>1 DEF DecodesTo
  <2>3. b + 0 = b /\ 3 + 0 = 3 /\ 3 + (n - 1) = n + 2
    BY <1>2
  <2> QED
    BY <2>2, <2>3
<1>10. At(b + (n - 1)) = Got(q)
  <2>1. b + (n - 1) \in Nat
    BY <1>2
  <2> QED
    BY <1>7, <1>8, <2>1, LookedAt
<1>11. p \in Held
  <2> SUFFICES ASSUME p \notin Held PROVE FALSE
    OBVIOUS
  <2>1. p + Ring >= written * Word - Ring
    BY <1>3, <1>7
  <2>2. p + Ring \in Held /\ At(b) = Got(p + Ring)
    <3>1. read + b < written * Word
      BY <1>3, <1>5, <1>6, <1>7
    <3> QED
      BY <1>5, <2>1, <3>1, LookedAt
  <2>3. Got(q).of # 0 /\ Got(p + Ring).of # 0
    BY <1>9, <1>10, <2>2, FrameFacts
  <2>4. q < p + Ring
    BY <1>7
  <2>5. Before(Got(q), Got(p + Ring))
    BY <1>8, <2>2, <2>3, <2>4 DEF OrderInv, Ordered
  <2> QED
    BY <1>2, <1>9, <1>10, <2>2, <2>5, FrameFacts DEF Before
<1>12. Got(p) = At(b)
  <2>1. read + b < written * Word
    BY <1>3, <1>5, <1>7, <1>6
  <2> QED
    BY <1>5, <1>11, <2>1, LookedAt
<1>13. q = read + b + (RawCells(len) - 1) /\ Got(q).at = RawCells(len) + 2
  BY <1>2, <1>5, <1>6, <1>9, <1>10
<1> QED
  BY <1>1, <1>2, <1>5, <1>8, <1>9, <1>10, <1>11, <1>12, <1>13

\* The frame comes after the last one.
LEMMA AcceptOrder ==
  ASSUME TypeInv, Inv, OrderInv, NEW k \in Frames, NEW p \in Held, NEW q \in Held,
         read <= p, p < q, q < read', read' \in Nat,
         Got(p).of = k, Got(p).at = 3, Got(q).of = k,
         delivered' = Append(delivered, k), pc' = "idle", UNCHANGED <<wireVars, seen>>
  PROVE  /\ OrderInv'
         /\ delivered # <<>> => Last < k
         /\ Last' = k /\ delivered' # <<>> /\ Len(delivered') = Len(delivered) + 1
<1>1. /\ p \in Nat /\ q \in Nat /\ k \in Nat \ {0}
      /\ Before(Got(p), Got(q)) /\ Before(Got(q), Coming) /\ Got(q).at \in Nat
      /\ Coming.of \in Nat /\ Coming.at \in Int
  <2>1. Got(p).of # 0 /\ Got(q).of # 0 /\ k \in Nat \ {0}
    BY FrameFacts
  <2> QED
    BY <2>1, ShiftedFacts, CellTypes DEF OrderInv, Ordered, SentCells
<1>2. Length(k).of = k /\ Length(k).at = 3 /\ Before(Length(k), Got(q))
  BY <1>1 DEF Before, Length
<1>3. /\ delivered \in Seq(Frames) /\ delivered' # <<>> /\ Len(delivered) \in Nat
      /\ Len(delivered') = Len(delivered) + 1
      /\ \A i \in 1 .. Len(delivered) : delivered'[i] = delivered[i]
      /\ delivered'[Len(delivered) + 1] = k
  <2>1. delivered \in Seq(Frames)
    BY DEF TypeInv
  <2>2. PICK d : d = Append(delivered, k)
    OBVIOUS
  <2>3. /\ Len(d) = Len(delivered) + 1 /\ d[Len(delivered) + 1] = k
        /\ \A i \in 1 .. Len(delivered) : d[i] = delivered[i]
    BY <2>1, <2>2, AppendProperties
  <2>4. Len(delivered) \in Nat
    BY <2>1
  <2>5. d # <<>>
    BY <2>3, <2>4
  <2> QED
    BY <2>1, <2>2, <2>3, <2>4, <2>5
<1>4. Last' = k
  BY <1>3 DEF Last
<1>5. ASSUME delivered # <<>> PROVE Last < k
  <2>1. Before(Length(Last), Got(p))
    <3>1. Got(p).of # 0
      BY <1>1
    <3> QED
      BY <1>5, <3>1 DEF OrderInv, Passed
  <2> QED
    BY <1>1, <1>5, <2>1, LastType DEF Before
<1>6. UNCHANGED <<ring, isr, written, frame, pos, seen>> /\ Held' = Held /\ Coming' = Coming
      /\ \A x \in Nat : Got(x)' = Got(x)
  BY DEF wireVars, Held, Shifted, Coming, Got
<1>7. SentCells' /\ Ordered'
  <2>1. SentCells /\ Ordered /\ \A x \in Held : x \in Nat
    BY DEF OrderInv, Held
  <2>2. SentCells'
    BY <1>6, <2>1 DEF SentCells
  <2>3. Ordered'
    BY <1>6, <2>1 DEF Ordered
  <2> QED
    BY <2>2, <2>3
<1>8. Passed'
  <2>1. Before(Length(k), Coming)
    BY <1>1, <1>2, BeforeTransitive
  <2>2. ASSUME NEW x \in Held, x >= read', Got(x).of # 0
        PROVE  Before(Length(k), Got(x))
    <3>1. q < x /\ x \in Nat
      BY <1>1, <2>2 DEF Held
    <3>2. Before(Got(q), Got(x))
      BY <1>1, <2>2, <3>1 DEF OrderInv, Ordered
    <3>3. Got(x).of \in Nat /\ Got(x).at \in Nat
      BY CellTypes
    <3> QED
      BY <1>1, <1>2, <3>2, <3>3, BeforeTransitive
  <2>3. \A x \in Held : x \in Nat
    BY DEF Held
  <2> QED
    BY <1>4, <1>6, <2>1, <2>2, <2>3 DEF Passed, Length
<1>9. Looking'
  BY DEF Looking
<1>10. DeliveredInOrder'
  <2> SUFFICES ASSUME NEW i \in DOMAIN delivered', NEW j \in DOMAIN delivered', i < j
               PROVE  delivered'[i] < delivered'[j]
    BY DEF DeliveredInOrder
  <2>1. i \in 1 .. Len(delivered) + 1 /\ j \in 1 .. Len(delivered) + 1
    <3>1. delivered' \in Seq(Frames)
      BY <1>3
    <3> QED
      BY <1>3, <3>1
  <2>2. i \in 1 .. Len(delivered)
    BY <1>3, <2>1
  <2>3. \A x, y \in 1 .. Len(delivered) : x < y => delivered[x] < delivered[y]
    BY <1>3 DEF OrderInv, DeliveredInOrder
  <2>4. CASE j \in 1 .. Len(delivered)
    BY <1>3, <2>2, <2>3, <2>4
  <2>5. CASE j = Len(delivered) + 1
    <3>1. delivered # <<>>
      BY <2>2
    <3>2. Last < k /\ Last \in Nat /\ Last = delivered[Len(delivered)]
      BY <1>5, <3>1, LastType DEF Last
    <3>3. delivered[i] \in Nat
      BY <1>3, <2>2, FrameFacts, ElementOfSeq
    <3>4. i = Len(delivered) \/ (i < Len(delivered) /\ Len(delivered) \in 1 .. Len(delivered))
      BY <1>3, <2>2
    <3>5. delivered[i] = Last \/ delivered[i] < Last
      BY <2>2, <2>3, <3>2, <3>4
    <3>6. delivered'[i] = delivered[i] /\ delivered'[j] = k
      BY <1>3, <2>2, <2>5
    <3> QED
      BY <1>1, <3>2, <3>3, <3>5, <3>6
  <2> QED
    BY <1>3, <2>1, <2>4, <2>5
<1> QED
  BY <1>3, <1>4, <1>5, <1>7, <1>8, <1>9, <1>10 DEF OrderInv

\* The port moves on without returning anything.
LEMMA PassOrder ==
  ASSUME TypeInv, Inv, OrderInv, UNCHANGED <<wireVars, delivered>>,
         read' \in Nat, read <= read', Looking'
  PROVE  OrderInv'
<1>1. /\ UNCHANGED <<ring, isr, written, frame, pos>> /\ Held' = Held /\ Coming' = Coming
      /\ Last' = Last /\ \A p \in Nat : Got(p)' = Got(p)
  BY DEF wireVars, Held, Shifted, Coming, Got, Last
<1>2. SentCells /\ Ordered /\ Passed /\ \A p \in Held : p \in Nat
  BY DEF OrderInv, Held
<1>3. SentCells'
  BY <1>1, <1>2 DEF SentCells
<1>4. Ordered'
  BY <1>1, <1>2 DEF Ordered
<1>5. Passed'
  <2>1. read \in Nat
    BY NumberFacts
  <2>2. \A p \in Held : p >= read' => p >= read
    BY <1>2, <2>1
  <2> QED
    BY <1>1, <1>2, <2>2 DEF Passed, Length
<1>6. DeliveredInOrder'
  BY DEF OrderInv, DeliveredInOrder
<1> QED
  BY <1>3, <1>4, <1>5, <1>6 DEF OrderInv

\* What a poll returns: the frame that was decoded, from its LEN to its CRC.
LEMMA FrameFound ==
  ASSUME TypeInv, Inv, OrderInv, Slack * Word < 2 + RawCells(1), PollEnd,
         Extract(unread).status = "FRAME_OK"
  PROVE  \E k \in Frames, len \in 1 .. MaxLen, s \in SyncsIn(Avail(unread)) :
           /\ \A t \in SyncsIn(Avail(unread)) : s <= t
           /\ s \in Nat /\ RawCells(len) \in Nat /\ RawCells(len) >= 4
           /\ TotalCells(len) \in Nat /\ RawCells(len) < TotalCells(len)
           /\ s + 2 + TotalCells(len) <= Avail(unread)
           /\ At(s + 2).v = len /\ DecodesTo(k, s + 2, len)
           /\ Extract(unread) = Outcome("FRAME_OK", s + 2 + TotalCells(len), k)
           /\ read + (s + 2) \in Held
           /\ Got(read + (s + 2)).of = k /\ Got(read + (s + 2)).at = 3
           /\ read + (s + 2) + (RawCells(len) - 1) \in Held
           /\ Got(read + (s + 2) + (RawCells(len) - 1)).of = k
           /\ Got(read + (s + 2) + (RawCells(len) - 1)).at = RawCells(len) + 2
<1>1. /\ pc = "extract" /\ read' = read + Extract(unread).adv
      /\ Accept(Extract(unread).frame, SeqOf(Extract(unread).frame))
      /\ read \in Nat /\ unread \in Nat /\ Extract(unread).adv \in 0 .. unread
  BY EndFacts, NumberFacts
<1>2. PICK s \in SyncsIn(Avail(unread)), k \in Frames :
        /\ \A t \in SyncsIn(Avail(unread)) : s <= t
        /\ At(s + 2).v \in 1 .. MaxLen
        /\ s + 2 + TotalCells(At(s + 2).v) <= Avail(unread)
        /\ DecodesTo(k, s + 2, At(s + 2).v)
        /\ Extract(unread) = Outcome("FRAME_OK", s + 2 + TotalCells(At(s + 2).v), k)
  <2>1. ASSUME NEW st, NEW adv, st # "FRAME_OK", Extract(unread) = Outcome(st, adv, 0) PROVE FALSE
    BY <2>1 DEF Outcome
  <2> QED
    BY <1>1, <2>1, ExtractCases
<1>3. PICK len \in 1 .. MaxLen : len = At(s + 2).v
  BY <1>2
<1>4. /\ Avail(unread) <= unread /\ Avail(unread) \in Nat /\ s \in Nat
  <2>1. Avail(unread) \in Nat /\ Avail(unread) <= unread
    BY <1>1, RxSizesAssumption DEF Avail
  <2> QED
    BY <2>1 DEF SyncsIn
<1>5. PICK b \in Nat : b = s + 2
  BY <1>4
<1>6. TotalCells(len) \in Nat
  <2>1. len \in Nat
    OBVIOUS
  <2> QED
    BY <2>1, TotalCellsNat
<1>7. b >= 2 /\ b + TotalCells(len) <= unread /\ DecodesTo(k, b, len)
  <2>1. DecodesTo(k, b, len) /\ b + TotalCells(len) <= Avail(unread)
    BY <1>2, <1>3, <1>5
  <2> HIDE DEF DecodesTo
  <2> QED
    BY <1>1, <1>4, <1>5, <1>6, <2>1
<1>8. /\ RawCells(len) \in Nat /\ RawCells(len) >= 4
      /\ RawCells(len) < TotalCells(len)
      /\ read + b \in Held /\ Got(read + b).of = k /\ Got(read + b).at = 3
      /\ read + b + (RawCells(len) - 1) \in Held
      /\ Got(read + b + (RawCells(len) - 1)).of = k
      /\ Got(read + b + (RawCells(len) - 1)).at = RawCells(len) + 2
  BY <1>1, <1>7, DecodedLies
<1>9. /\ s + 2 + TotalCells(len) <= Avail(unread)
      /\ Extract(unread) = Outcome("FRAME_OK", s + 2 + TotalCells(len), k)
      /\ DecodesTo(k, s + 2, len)
  BY <1>2, <1>3
<1> HIDE DEF DecodesTo
<1> QED
  BY <1>2, <1>3, <1>4, <1>5, <1>6, <1>8, <1>9, Zenon

LEMMA ReturnedLies ==
  ASSUME TypeInv, Inv, OrderInv, Slack * Word < 2 + RawCells(1), PollEnd,
         Extract(unread).status = "FRAME_OK"
  PROVE  \E k \in Frames : \E p, q \in Held :
           /\ read + 2 <= p /\ p < q /\ q < read' /\ read' \in Nat
           /\ Got(p).of = k /\ Got(p).at = 3 /\ Got(q).of = k
           /\ Extract(unread).frame = k
           /\ Accept(k, SeqOf(k))
<1>1. PICK k \in Frames, len \in 1 .. MaxLen, s \in SyncsIn(Avail(unread)) :
        /\ s \in Nat /\ RawCells(len) \in Nat /\ RawCells(len) >= 4
        /\ TotalCells(len) \in Nat /\ RawCells(len) < TotalCells(len)
        /\ Extract(unread) = Outcome("FRAME_OK", s + 2 + TotalCells(len), k)
        /\ read + (s + 2) \in Held
        /\ Got(read + (s + 2)).of = k /\ Got(read + (s + 2)).at = 3
        /\ read + (s + 2) + (RawCells(len) - 1) \in Held
        /\ Got(read + (s + 2) + (RawCells(len) - 1)).of = k
  BY FrameFound, Zenon
<1>2. /\ read' = read + Extract(unread).adv /\ read \in Nat
      /\ Accept(Extract(unread).frame, SeqOf(Extract(unread).frame))
  <2>1. Extract(unread).status = "FRAME_OK"
    OBVIOUS
  <2> QED
    BY <2>1, EndFacts, NumberFacts
<1>3. Extract(unread).adv = s + 2 + TotalCells(len) /\ Extract(unread).frame = k
  BY <1>1 DEF Outcome
<1>4. PICK p \in Held : p = read + (s + 2)
  BY <1>1
<1>5. PICK q \in Held : q = p + (RawCells(len) - 1)
  BY <1>1, <1>4
<1>6. read + 2 <= p /\ p < q /\ q < read' /\ read' \in Nat
  BY <1>1, <1>2, <1>3, <1>4, <1>5
<1>7. Got(p).of = k /\ Got(p).at = 3 /\ Got(q).of = k
  BY <1>1, <1>4, <1>5
<1> QED
  BY <1>2, <1>3, <1>6, <1>7

LEMMA PollOrder ==
  ASSUME TypeInv, Inv, OrderInv, Slack * Word < 2 + RawCells(1), Poll
  PROVE  OrderInv'
<1>0. read \in Nat /\ written * Word \in Nat /\ written \in Nat /\ Slack \in Nat
  BY NumberFacts, RxSizesAssumption
<1>1. CASE PollBegin
  <2>1. /\ read' \in Nat /\ read <= read' /\ UNCHANGED <<wireVars, delivered>>
        /\ seen' = written /\ read' + unread' = written * Word
    BY <1>1, BeginFacts
  <2>2. Looking'
    <3>1. written' = written
      BY <2>1 DEF wireVars
    <3> QED
      BY <1>0, <2>1, <3>1 DEF Looking
  <2> QED
    BY <2>1, <2>2, PassOrder
<1>2. CASE PollEnd
  <2>1. /\ pc = "extract" /\ pc' = "idle" /\ UNCHANGED <<wireVars, seen>>
        /\ Extract(unread).adv \in 0 .. unread /\ read' = read + Extract(unread).adv
    BY <1>2, EndFacts
  <2>2. Looking'
    BY <2>1 DEF Looking
  <2>3. read' \in Nat /\ read <= read'
    <3>1. unread \in Nat
      BY NumberFacts
    <3> QED
      BY <1>0, <2>1, <3>1
  <2>4. CASE Extract(unread).status = "FRAME_OK"
    <3>1. PICK k \in Frames, p \in Held, q \in Held :
            /\ read + 2 <= p /\ p < q /\ q < read' /\ read' \in Nat
            /\ Got(p).of = k /\ Got(p).at = 3 /\ Got(q).of = k
            /\ Accept(k, SeqOf(k))
      BY <1>2, <2>4, ReturnedLies
    <3>2. read <= p
      BY <1>0, <3>1 DEF Held
    <3>3. delivered' = Append(delivered, k)
      BY <3>1 DEF Accept
    <3> QED
      BY <2>1, <3>1, <3>2, <3>3, AcceptOrder
  <2>5. CASE Extract(unread).status # "FRAME_OK"
    <3>1. delivered' = delivered
      BY <1>2, <2>5, EndFacts
    <3> QED
      BY <2>1, <2>2, <2>3, <3>1, PassOrder
  <2> QED
    BY <2>4, <2>5
<1> QED
  BY <1>1, <1>2 DEF Poll

LEMMA OrderInit == Init => OrderInv
<1> SUFFICES ASSUME Init PROVE OrderInv
  OBVIOUS
<1>1. Held = {}
  BY RxSizesAssumption DEF Init, Held, Shifted
<1>2. delivered = <<>> /\ pc = "idle"
  BY DEF Init
<1>3. SentCells /\ Ordered /\ Passed /\ Looking
  BY <1>1, <1>2 DEF SentCells, Ordered, Passed, Looking
<1>4. DeliveredInOrder
  BY <1>2 DEF DeliveredInOrder
<1> QED
  BY <1>3, <1>4 DEF OrderInv

LEMMA OrderKept ==
  ASSUME TypeInv, Inv, OrderInv, Slack * Word < 2 + RawCells(1), [Next]_vars
  PROVE  OrderInv'
<1>1. CASE UNCHANGED vars
  <2>1. UNCHANGED <<wireVars, delivered, read, unread, seen, pc>>
    BY <1>1 DEF vars, portVars
  <2>2. Looking'
    BY <2>1 DEF OrderInv, Looking, wireVars
  <2>3. read' \in Nat /\ read <= read'
    BY <2>1, NumberFacts
  <2> QED
    BY <2>1, <2>2, <2>3, PassOrder
<1>2. CASE Next
  BY <1>2, WireOrder, PollOrder DEF Next
<1> QED
  BY <1>1, <1>2

\* Frames are returned in the order they were sent and none twice, through
\* overruns, damage and missed cells, as long as in the middle of a poll fewer
\* cells arrive than the shortest frame has from its sync word to its CRC
\* (bmc_rx_poll_packet).
THEOREM InOrder ==
  ASSUME Slack * Word < 2 + RawCells(1)
  PROVE  Spec => []DeliveredInOrder
<1>1. Init => OrderInv
  BY OrderInit
<1>2. Inv /\ TypeInv /\ OrderInv /\ [Next]_vars => OrderInv'
  BY OrderKept
<1>3. OrderInv => DeliveredInOrder
  BY DEF OrderInv
<1> QED
  BY TypeInvariance, <1>1, <1>2, <1>3, PTL DEF Spec


-----------------------------------------------------------------------------
(* The counters.                                                           *)

\* The frames missing among those returned, and the drops counted, differ by
\* rounds of the sequence number.
MissedFrames == Last - delivered[1] + (1 - Len(delivered))
CountInv ==
  IF delivered = <<>> THEN drops = 0 /\ lastSeq = -1
  ELSE /\ lastSeq = SeqOf(Last)
       /\ \E j \in Nat : MissedFrames = drops + SeqMod * j

\* The jump of a sequence number.
Jump(seq) == (seq - ((lastSeq + 1) % SeqMod)) % SeqMod

\* Quotient and remainder by the sequence numbers there are.
LEMMA SeqDivision ==
  ASSUME NEW x \in Int
  PROVE  /\ x = SeqMod * (x \div SeqMod) + (x % SeqMod)
         /\ x \div SeqMod \in Int /\ x % SeqMod \in 0 .. SeqMod - 1
<1>1. SeqMod \in Nat \ {0}
  BY RxSizesAssumption
<1> QED
  BY <1>1

LEMMA SeqMultiple ==
  ASSUME NEW j \in Int
  PROVE  SeqMod * j \in Int /\ (j >= 0 => SeqMod * j >= 0) /\ (j < 0 => SeqMod * j <= -SeqMod)
<1>1. SeqMod \in Nat \ {0}
  BY RxSizesAssumption
<1> QED
  BY <1>1

LEMMA SeqDistribute ==
  ASSUME NEW i \in Int, NEW j \in Int
  PROVE  SeqMod * (i + j) = SeqMod * i + SeqMod * j
         /\ SeqMod * (i - j) = SeqMod * i - SeqMod * j
BY RxSizesAssumption

\* Whole rounds leave no remainder.
LEMMA RoundsVanish ==
  ASSUME NEW j \in Nat
  PROVE  (SeqMod * j) % SeqMod = 0
<1> DEFINE x == SeqMod * j
           d == x \div SeqMod
           r == x % SeqMod
<1>1. x \in Int
  BY SeqMultiple
<1> HIDE DEF x
<1>2. x = SeqMod * d + r /\ d \in Int /\ r \in 0 .. SeqMod - 1
  BY <1>1, SeqDivision
<1> HIDE DEF d, r
<1>3. SeqMod * (j - d) = SeqMod * j - SeqMod * d
  BY <1>2, SeqDistribute
<1>4. SeqMod \in Nat \ {0} /\ SeqMod * j \in Int /\ SeqMod * d \in Int
  BY <1>2, SeqMultiple, RxSizesAssumption
<1>5. SeqMod * (j - d) = r
  BY <1>2, <1>3, <1>4 DEF x
<1>6. SeqMod * (j - d) = r - 0 /\ (j - d >= 1 => SeqMod * (j - d) >= SeqMod)
  <2>1. j - d >= 1 => SeqMod * (j - d) >= SeqMod
    BY <1>2, <1>4
  <2> QED
    BY <1>2, <1>5, <2>1
<1>7. j - d <= 0
  BY <1>2, <1>4, <1>5, <1>6
<1>8. j - d < 0 => SeqMod * (j - d) <= -SeqMod
  BY <1>2, SeqMultiple
<1>9. j - d = 0
  BY <1>2, <1>4, <1>5, <1>7, <1>8
<1>10. SeqMod * (j - d) = 0
  BY <1>4, <1>9
<1> QED
  BY <1>5, <1>10 DEF r, x

\* What is counted for a later frame is the number of those between, but for
\* whole rounds.
LEMMA MissingRounds ==
  ASSUME NEW k \in Frames, NEW l \in Frames, l < k, lastSeq = SeqOf(l)
  PROVE  \E j \in Nat : k - 1 - l = Jump(SeqOf(k)) + SeqMod * j
<1> DEFINE a == (k - 1) \div SeqMod
           b == (l - 1) \div SeqMod
           s == SeqOf(l) + 1
           c == s \div SeqMod
           u == SeqOf(k) - (s % SeqMod)
           d == u \div SeqMod
           r == u % SeqMod
<1>1. k \in Nat /\ l \in Nat /\ SeqMod \in Nat \ {0}
  BY FrameFacts, RxSizesAssumption
<1>2. /\ k - 1 = SeqMod * a + SeqOf(k) /\ a \in Int /\ SeqOf(k) \in Int
      /\ l - 1 = SeqMod * b + SeqOf(l) /\ b \in Int /\ SeqOf(l) \in Int
  <2>1. k - 1 \in Int /\ l - 1 \in Int
    BY <1>1
  <2> QED
    BY <1>1, <2>1, SeqDivision DEF SeqOf
<1> HIDE DEF SeqOf, a, b
<1>3. s \in Int
  BY <1>2
<1> HIDE DEF s
<1>4. s = SeqMod * c + (s % SeqMod) /\ c \in Int /\ s % SeqMod \in Int
  BY <1>1, <1>3, SeqDivision
<1>5. u \in Int
  BY <1>2, <1>4
<1> HIDE DEF u, c
<1>6. u = SeqMod * d + r /\ d \in Int /\ r \in 0 .. SeqMod - 1
  BY <1>5, SeqDivision
<1>7. Jump(SeqOf(k)) = r
  BY DEF Jump, r, u, s
<1> HIDE DEF d, r
<1> DEFINE e == a - b
           f == e - c
           g == f + d
<1>8. /\ e \in Int /\ f \in Int /\ g \in Int
      /\ SeqMod * e = SeqMod * a - SeqMod * b
      /\ SeqMod * f = SeqMod * e - SeqMod * c
      /\ SeqMod * g = SeqMod * f + SeqMod * d
  <2>1. e \in Int /\ SeqMod * e = SeqMod * a - SeqMod * b
    <3>1. e \in Int
      BY <1>2
    <3> QED
      BY <1>2, <3>1, SeqDistribute, Zenon
  <2> HIDE DEF e
  <2>2. f \in Int /\ SeqMod * f = SeqMod * e - SeqMod * c
    <3>1. f \in Int
      BY <1>4, <2>1
    <3> QED
      BY <1>4, <2>1, <3>1, SeqDistribute, Zenon
  <2> HIDE DEF f
  <2>3. g \in Int /\ SeqMod * g = SeqMod * f + SeqMod * d
    <3>1. g \in Int
      BY <1>6, <2>2
    <3> QED
      BY <1>6, <2>2, <3>1, SeqDistribute, Zenon
  <2> QED
    BY <2>1, <2>2, <2>3
<1>9. /\ SeqMod * a \in Int /\ SeqMod * b \in Int /\ SeqMod * c \in Int
      /\ SeqMod * d \in Int /\ SeqMod * e \in Int /\ SeqMod * f \in Int /\ SeqMod * g \in Int
  BY <1>2, <1>4, <1>6, <1>8, SeqMultiple
<1> HIDE DEF e, f, g
<1>10. k - 1 - l = r + SeqMod * g
  <2>1. s = SeqOf(l) + 1 /\ u = SeqOf(k) - (s % SeqMod)
    BY DEF s, u
  <2> QED
    BY <1>1, <1>2, <1>3, <1>4, <1>5, <1>6, <1>8, <1>9, <2>1
<1>11. g >= 0
  <2>1. g < 0 => SeqMod * g <= -SeqMod
    BY <1>8, SeqMultiple
  <2> QED
    BY <1>1, <1>6, <1>8, <1>9, <1>10, <2>1
<1> QED
  BY <1>7, <1>8, <1>10, <1>11

LEMMA OneMoreMissing ==
  ASSUME NEW k \in Int, NEW l \in Int, NEW a \in Int, NEW n \in Int
  PROVE  /\ k - a + (1 - (n + 1)) = (l - a + (1 - n)) + (k - 1 - l)
         /\ l - a + 1 - n = l - a + (1 - n)
OBVIOUS

LEMMA CountAccept ==
  ASSUME TypeInv, Inv, CountInv, NEW k \in Frames, Accept(k, SeqOf(k)),
         delivered # <<>> => Last < k,
         Last' = k, delivered' # <<>>, Len(delivered') = Len(delivered) + 1
  PROVE  CountInv'
<1>1. /\ delivered # <<>> => Last < k
      /\ Last' = k /\ delivered' # <<>> /\ Len(delivered') = Len(delivered) + 1
      /\ delivered' = Append(delivered, k) /\ lastSeq' = SeqOf(k)
      /\ drops' = IF lastSeq = -1 THEN drops ELSE drops + Jump(SeqOf(k))
  BY DEF Accept, Jump
<1>2. /\ k \in Nat /\ SeqMod \in Nat \ {0}
      /\ \A x \in Frames : x \in Nat /\ SeqOf(x) \in Nat
  BY FrameFacts, RxSizesAssumption
<1>3. CASE delivered = <<>>
  <2>1. drops' = 0 /\ Len(delivered) = 0 /\ delivered'[1] = k
    BY <1>1, <1>3 DEF CountInv
  <2>2. MissedFrames' = 0
    BY <1>1, <1>2, <2>1 DEF MissedFrames
  <2>3. SeqMod * 0 = 0
    BY <1>2
  <2>4. MissedFrames' = drops' + SeqMod * 0
    BY <2>1, <2>2, <2>3
  <2> QED
    BY <1>1, <2>4 DEF CountInv
<1>4. CASE delivered # <<>>
  <2>1. PICK j \in Nat : MissedFrames = drops + SeqMod * j
    BY <1>4 DEF CountInv
  <2>2. Last \in Frames /\ Last < k /\ lastSeq = SeqOf(Last)
    BY <1>1, <1>4, LastType DEF CountInv
  <2>3. PICK i \in Nat : k - 1 - Last = Jump(SeqOf(k)) + SeqMod * i
    BY <2>2, MissingRounds
  <2>4. drops' = drops + Jump(SeqOf(k))
    <3>1. lastSeq # -1
      BY <1>2, <2>2
    <3> QED
      BY <1>1, <3>1
  <2>5. /\ Len(delivered) \in Nat \ {0} /\ delivered[1] \in Nat /\ Last \in Nat
        /\ delivered'[1] = delivered[1]
    <3>1. delivered \in Seq(Frames) /\ Len(delivered) \in Nat \ {0}
      BY <1>4, LastType DEF TypeInv
    <3>2. 1 \in 1 .. Len(delivered)
      BY <3>1
    <3>3. delivered[1] \in Frames /\ delivered'[1] = delivered[1]
      BY <1>1, <3>1, <3>2, ElementOfSeq, AppendProperties
    <3> QED
      BY <1>2, <2>2, <3>1, <3>3
  <2>6. MissedFrames' = MissedFrames + (k - 1 - Last)
    <3>1. MissedFrames' = k - delivered[1] + (1 - (Len(delivered) + 1))
      BY <1>1, <2>5, Zenon DEF MissedFrames
    <3>2. MissedFrames = Last - delivered[1] + (1 - Len(delivered))
      BY DEF MissedFrames
    <3> QED
      BY <1>2, <2>5, <3>1, <3>2, OneMoreMissing
  <2>7. /\ SeqMod * (j + i) = SeqMod * j + SeqMod * i
        /\ SeqMod * j \in Int /\ SeqMod * i \in Int
    <3>1. j \in Int /\ i \in Int
      OBVIOUS
    <3> QED
      BY <3>1, SeqDistribute, SeqMultiple, Zenon
  <2>8. drops \in Nat /\ Jump(SeqOf(k)) \in Nat
    BY JumpType DEF TypeInv, Jump
  <2>9. MissedFrames' = drops' + SeqMod * (j + i)
    <3> DEFINE a == SeqMod * j
               b == SeqMod * i
               m == Jump(SeqOf(k))
    <3>1. /\ MissedFrames' = (drops + a) + (m + b) /\ drops' = drops + m
          /\ SeqMod * (j + i) = a + b
      BY <2>1, <2>3, <2>4, <2>6, <2>7, Zenon
    <3>2. a \in Int /\ b \in Int /\ m \in Int /\ drops \in Int
      BY <2>7, <2>8
    <3> HIDE DEF a, b, m
    <3>3. (drops + a) + (m + b) = (drops + m) + (a + b)
      BY <3>2
    <3> QED
      BY <3>1, <3>3, Zenon
  <2>10. j + i \in Nat
    OBVIOUS
  <2> QED
    BY <1>1, <2>9, <2>10 DEF CountInv
<1> QED
  BY <1>3, <1>4

LEMMA CountKept ==
  ASSUME TypeInv, Inv, OrderInv, CountInv, Slack * Word < 2 + RawCells(1), [Next]_vars
  PROVE  CountInv'
<1>1. CASE UNCHANGED <<delivered, drops, lastSeq>>
  BY <1>1 DEF CountInv, MissedFrames, Last
<1>2. CASE UNCHANGED vars
  BY <1>1, <1>2 DEF vars, portVars
<1>3. CASE Wire
  BY <1>1, <1>3 DEF Wire, StartFrame, Transmit, Damage, Slip, portVars
<1>4. CASE PollBegin
  BY <1>1, <1>4 DEF PollBegin
<1>5. CASE PollEnd
  <2>1. CASE Extract(unread).status # "FRAME_OK"
    BY <1>1, <1>5, <2>1, EndFacts
  <2>2. CASE Extract(unread).status = "FRAME_OK"
    <3>1. PICK k \in Frames, p \in Held, q \in Held :
            /\ read + 2 <= p /\ p < q /\ q < read' /\ read' \in Nat
            /\ Got(p).of = k /\ Got(p).at = 3 /\ Got(q).of = k
            /\ Accept(k, SeqOf(k))
      BY <1>5, <2>2, ReturnedLies
    <3>2. read <= p
      <4>1. read \in Nat
        BY NumberFacts
      <4> QED
        BY <3>1, <4>1 DEF Held
    <3>3. delivered' = Append(delivered, k) /\ pc' = "idle" /\ UNCHANGED <<wireVars, seen>>
      BY <1>5, <3>1, EndFacts DEF Accept
    <3>4. /\ delivered # <<>> => Last < k
          /\ Last' = k /\ delivered' # <<>> /\ Len(delivered') = Len(delivered) + 1
      BY <3>1, <3>2, <3>3, AcceptOrder
    <3> QED
      BY <3>1, <3>4, CountAccept
  <2> QED
    BY <2>1, <2>2
<1> QED
  BY <1>2, <1>3, <1>4, <1>5 DEF Next, Poll

LEMMA CountMeans ==
  ASSUME TypeInv, CountInv
  PROVE  DropsAccountForGaps
<1>1. CASE delivered = <<>>
  BY <1>1 DEF CountInv, DropsAccountForGaps
<1>2. CASE delivered # <<>>
  <2>1. PICK j \in Nat : MissedFrames = drops + SeqMod * j
    BY <1>2 DEF CountInv
  <2>2. /\ Len(delivered) \in Nat \ {0} /\ delivered[1] \in Nat /\ Last \in Nat
    <3>1. delivered \in Seq(Frames) /\ Len(delivered) \in Nat \ {0} /\ Last \in Nat
      BY <1>2, LastType DEF TypeInv
    <3>2. 1 \in 1 .. Len(delivered)
      BY <3>1
    <3> QED
      BY <3>1, <3>2, ElementOfSeq, FrameFacts
  <2> DEFINE missing == delivered[Len(delivered)] - delivered[1] + 1 - Len(delivered)
  <2>3. missing = MissedFrames
    <3>1. missing = Last - delivered[1] + 1 - Len(delivered)
      BY DEF Last
    <3>2. MissedFrames = Last - delivered[1] + (1 - Len(delivered))
      BY DEF MissedFrames
    <3> HIDE DEF missing
    <3> QED
      BY <2>2, <3>1, <3>2, OneMoreMissing
  <2>4. drops \in Nat /\ SeqMod * j \in Int /\ SeqMod * j >= 0
    <3>1. j \in Int /\ j >= 0
      OBVIOUS
    <3> QED
      BY <3>1, SeqMultiple, Zenon DEF TypeInv
  <2> HIDE DEF missing
  <2>5. drops <= missing /\ missing - drops = SeqMod * j
    BY <2>1, <2>3, <2>4
  <2>6. (missing - drops) % SeqMod = 0
    BY <2>5, RoundsVanish, Zenon
  <2> QED
    BY <1>2, <2>5, <2>6 DEF missing, DropsAccountForGaps
<1> QED
  BY <1>1, <1>2

\* rx_seq_drops is the number of frames missing among those returned, but for
\* whole rounds of the sequence number, as long as in the middle of a poll fewer
\* cells arrive than the shortest frame has from its sync word to its CRC
\* (bmc_rx_poll_packet).
THEOREM Drops ==
  ASSUME Slack * Word < 2 + RawCells(1)
  PROVE  Spec => []DropsAccountForGaps
<1>1. Init => OrderInv /\ CountInv
  BY OrderInit DEF Init, CountInv
<1>2. Inv /\ TypeInv /\ OrderInv /\ CountInv /\ [Next]_vars => OrderInv' /\ CountInv'
  BY OrderKept, CountKept
<1>3. TypeInv /\ CountInv => DropsAccountForGaps
  BY CountMeans
<1> QED
  BY TypeInvariance, <1>1, <1>2, <1>3, PTL DEF Spec


-----------------------------------------------------------------------------
(* A frame that arrives whole is returned.                                 *)

RawOf(k)     == RawCells(Len(Payloads[k]))

\* Where a frame of which no cell was missed begins, how much of it is there, and
\* where it ends.
Start(k) == IF k = frame THEN Shifted - (pos - Lead) ELSE ends[k] - FrameCells(k)
Sofar(k) == IF k = frame /\ pos < EndOf(k) THEN pos - Lead ELSE FrameCells(k)
End(k)   == Start(k) + FrameCells(k)

Arrived == {k \in Frames \ gone : k < frame \/ (k = frame /\ pos > Lead)}
Returned(k) == \E i \in DOMAIN delivered : delivered[i] = k

\* Where frames end.
EndsInv ==
  /\ frame # 0 => pos <= EndOf(frame) + Word
  /\ \A k \in Frames : ends[k] > 0 => k < frame \/ (k = frame /\ pos >= EndOf(k))
  /\ \A k \in Arrived : /\ Start(k) \in Nat /\ Start(k) + Sofar(k) <= Shifted
                        /\ k = frame /\ pos >= EndOf(k) => ends[k] = End(k)

\* A frame that is not returned yet lies unread in the ring, cell by cell.
Unread ==
  \A k \in Arrived :
    \/ Returned(k)
    \/ /\ Start(k) >= read /\ Start(k) >= written * Word - Ring
       /\ \A i \in 0 .. Sofar(k) - 1 : Got(Start(k) + i).of = k /\ Got(Start(k) + i).at = i + 1

\* It begins after all that the port takes with an earlier one, padding included:
\* the postamble between them is as long as the longest padding.
Postamble(k) ==
  IF k < frame THEN Word ELSE IF pos > EndOf(frame) THEN pos - EndOf(frame) ELSE 0
Followed == \A p \in Held : Got(p).of # 0 => p + Postamble(Got(p).of) < Shifted
Clear ==
  \A k \in Arrived, p \in Held :
    Got(p).of # 0 /\ Got(p).of < k => p + Word < Start(k)

\* The first cells of a frame are its sync word and its LEN.
HeadCells ==
  \A p \in Held : Got(p).of # 0 =>
    /\ Got(p).at = 1 => Got(p).v = SyncHi
    /\ Got(p).at = 2 => Got(p).v = SyncLo
    /\ Got(p).at = 3 => Got(p).v = Len(Payloads[Got(p).of])

IntactInv == EndsInv /\ Unread /\ Followed /\ Clear /\ HeadCells

LEMMA SpanFacts ==
  ASSUME NEW k \in Frames
  PROVE  /\ RawOf(k) \in Nat /\ RawOf(k) >= 4 /\ FrameCells(k) \in Nat
         /\ FrameCells(k) = 2 + TotalCells(Len(Payloads[k])) /\ RawOf(k) = RawCells(Len(Payloads[k]))
         /\ 2 + RawOf(k) < FrameCells(k) /\ FrameCells(k) <= 2 + RawOf(k) + Word
         /\ EndOf(k) = Lead + FrameCells(k) /\ EndOf(k) \in Nat
         /\ Lead \in Nat /\ Word \in Nat \ {0} /\ k \in Nat \ {0}
<1>1. /\ FrameCells(k) \in Nat /\ EndOf(k) = Lead + FrameCells(k) /\ EndOf(k) \in Nat
      /\ FrameCells(k) = 2 + TotalCells(Len(Payloads[k]))
      /\ FrameCells(k) >= 2 + RawOf(k) + 1 /\ FrameCells(k) <= 2 + RawOf(k) + Word
      /\ RawOf(k) \in Nat /\ RawOf(k) >= 4 /\ Lead \in Nat /\ Word \in Nat \ {0}
  BY SizeFacts DEF RawOf
<1>2. k \in Nat \ {0} /\ RawOf(k) = RawCells(Len(Payloads[k]))
  BY FrameFacts DEF RawOf
<1> QED
  BY <1>1, <1>2

\* A frame that arrived is there from its first cell on, as far as it was sent.
LEMMA ArrivedFacts ==
  ASSUME TypeInv, Inv, IntactInv, NEW k \in Arrived
  PROVE  /\ k \in Frames /\ k \in Nat \ {0} /\ k \notin gone
         /\ k < frame \/ (k = frame /\ pos > Lead)
         /\ Start(k) \in Nat /\ Sofar(k) \in Nat /\ Sofar(k) > 0 /\ Sofar(k) <= FrameCells(k)
         /\ Start(k) + Sofar(k) <= Shifted
         /\ End(k) = Start(k) + FrameCells(k) /\ End(k) \in Nat
         /\ k <= frame /\ frame \in Nat /\ Shifted \in Nat
         /\ \A i \in Nat : i < FrameCells(k) /\ Start(k) + i < Shifted => i < Sofar(k)
<1>1. k \in Frames /\ k \in Nat \ {0} /\ k \notin gone /\ (k < frame \/ (k = frame /\ pos > Lead))
  BY FrameFacts DEF Arrived
<1>2. FrameCells(k) \in Nat /\ FrameCells(k) > 0 /\ EndOf(k) = Lead + FrameCells(k) /\ Lead \in Nat
  BY <1>1, SpanFacts
<1>3. Start(k) \in Nat /\ Start(k) + Sofar(k) <= Shifted
  BY DEF IntactInv, EndsInv
<1>4. frame \in Nat /\ pos \in Nat /\ Shifted \in Nat
  BY CellTypes, NumberFacts, ShiftedFacts
<1>5. Sofar(k) \in Nat /\ Sofar(k) > 0 /\ Sofar(k) <= FrameCells(k)
  BY <1>1, <1>2, <1>4 DEF Sofar
<1>6. ASSUME NEW i \in Nat, i < FrameCells(k), Start(k) + i < Shifted
      PROVE  i < Sofar(k)
  <2>1. CASE k = frame /\ pos < EndOf(k)
    <3>1. Sofar(k) = pos - Lead /\ Start(k) = Shifted - (pos - Lead)
      BY <2>1 DEF Sofar, Start
    <3> QED
      BY <1>2, <1>3, <1>4, <1>5, <1>6, <3>1
  <2>2. CASE ~ (k = frame /\ pos < EndOf(k))
    BY <1>6, <2>2 DEF Sofar
  <2> QED
    BY <2>1, <2>2
<1>7. End(k) = Start(k) + FrameCells(k) /\ End(k) \in Nat
  BY <1>2, <1>3 DEF End
<1> QED
  BY <1>1, <1>2, <1>3, <1>4, <1>5, <1>6, <1>7

\* The cells of a frame that is not returned are in the ring or the register.
LEMMA UnreadHeld ==
  ASSUME TypeInv, Inv, IntactInv, NEW k \in Arrived, ~ Returned(k),
         NEW i \in Nat, i < FrameCells(k), Start(k) + i < Shifted
  PROVE  /\ Start(k) + i \in Held /\ Start(k) + i \in Nat
         /\ Start(k) >= read /\ Start(k) >= written * Word - Ring
         /\ Got(Start(k) + i).of = k /\ Got(Start(k) + i).at = i + 1
         /\ i = 0 => Got(Start(k) + i).v = SyncHi
         /\ i = 1 => Got(Start(k) + i).v = SyncLo
         /\ i = 2 => Got(Start(k) + i).v = Len(Payloads[k])
<1>1. /\ Start(k) \in Nat /\ Sofar(k) \in Nat /\ i < Sofar(k)
      /\ Start(k) + Sofar(k) <= Shifted /\ Shifted \in Nat /\ k # 0
  BY ArrivedFacts
<1>2. /\ Start(k) >= read /\ Start(k) >= written * Word - Ring
      /\ \A j \in 0 .. Sofar(k) - 1 : Got(Start(k) + j).of = k /\ Got(Start(k) + j).at = j + 1
  BY DEF IntactInv, Unread
<1>3. Got(Start(k) + i).of = k /\ Got(Start(k) + i).at = i + 1
  BY <1>1, <1>2
<1>4. PICK p \in Nat : p = Start(k) + i
  BY <1>1
<1>5. p \in Held
  <2>1. written * Word \in Nat /\ Ring \in Nat
    BY NumberFacts
  <2>2. p >= written * Word - Ring /\ p < Shifted
    BY <1>1, <1>2, <1>4, <2>1
  <2> QED
    BY <2>2, ShiftedFacts
<1>6. /\ Got(p).at = 1 => Got(p).v = SyncHi
      /\ Got(p).at = 2 => Got(p).v = SyncLo
      /\ Got(p).at = 3 => Got(p).v = Len(Payloads[k])
  BY <1>1, <1>3, <1>4, <1>5 DEF IntactInv, HeadCells
<1>7. (i = 0 => Got(p).at = 1) /\ (i = 1 => Got(p).at = 2) /\ (i = 2 => Got(p).at = 3)
  BY <1>3, <1>4
<1> QED
  BY <1>2, <1>3, <1>4, <1>5, <1>6, <1>7

-----------------------------------------------------------------------------
(* The wire.                                                               *)

\* A frame that arrived keeps its place when a cell is shifted in whose word does
\* not overwrite it.
LEMMA ShiftUnread ==
  ASSUME TypeInv, Inv, IntactInv, NEW c \in Cell, ShiftIn(c),
         Overwritten \subseteq gone', NEW k \in Arrived, k \notin gone', ~ Returned(k),
         NEW s, s = Start(k)
  PROVE  /\ s >= read /\ s >= written' * Word - Ring
         /\ \A i \in 0 .. Sofar(k) - 1 : Got(s + i)'.of = k /\ Got(s + i)'.at = i + 1
<1>1. s \in Nat /\ s = Start(k)
  BY ArrivedFacts
<1>2. /\ Sofar(k) \in Nat /\ Sofar(k) > 0 /\ s + Sofar(k) <= Shifted /\ Shifted \in Nat
      /\ k \in Nat \ {0} /\ Sofar(k) <= FrameCells(k) /\ FrameCells(k) \in Nat
  BY <1>1, ArrivedFacts, SpanFacts
<1>3. /\ written \in Nat /\ written * Word \in Nat /\ Word \in Nat \ {0} /\ Ring \in Nat \ {0}
      /\ Word <= Ring /\ read \in Nat /\ Len(isr) \in Nat
  BY NumberFacts
<1>4. /\ s \in Held /\ s >= read /\ s >= written * Word - Ring /\ Got(s).of = k
  <2>1. 0 \in Nat /\ 0 < FrameCells(k) /\ s + 0 < Shifted /\ s + 0 = s
    BY <1>1, <1>2
  <2> QED
    BY <1>1, <2>1, UnreadHeld
<1>5. s >= written' * Word - Ring
  <2>1. CASE written' = written
    BY <1>1, <1>4, <2>1
  <2>2. CASE Len(isr) + 1 = Word /\ written' = written + 1
    <3>1. written' * Word = written * Word + Word
      BY <1>3, <2>2
    <3>2. ASSUME s < written * Word + Word - Ring PROVE FALSE
      <4>1. s < written * Word /\ s <= written * Word - Ring + Word - 1
            /\ written * Word - Ring \in Int
        BY <1>1, <1>3, <3>2
      <4>2. Got(s) = ring[s % Ring]
        BY <1>1, <4>1 DEF Got
      <4>3. PICK oldest \in Int : oldest = written * Word - Ring
        BY <4>1
      <4>4. s \in {p \in oldest .. oldest + Word - 1 : p >= read}
        BY <1>1, <1>3, <1>4, <4>1, <4>3
      <4>5. ~ (Len(isr) + 1 < Word)
        BY <1>3, <2>2
      <4>6. k \in Overwritten
        BY <1>2, <1>4, <4>2, <4>3, <4>4, <4>5 DEF Overwritten
      <4> QED
        BY <4>6
    <3>3. written * Word + Word - Ring \in Int
      BY <1>3
    <3> QED
      BY <1>1, <1>3, <3>1, <3>2, <3>3
  <2> QED
    BY <2>1, <2>2, ShiftFacts
<1>6. ASSUME NEW i \in 0 .. Sofar(k) - 1
      PROVE  Got(s + i)'.of = k /\ Got(s + i)'.at = i + 1
  <2>1. i \in Nat /\ i < FrameCells(k) /\ s + i < Shifted
    BY <1>1, <1>2
  <2>2. Got(s + i).of = k /\ Got(s + i).at = i + 1
    BY <1>1, <2>1, UnreadHeld
  <2>3. PICK p \in Nat : p = s + i
    BY <1>1, <2>1
  <2>4. p \in Held'
    <3>1. p >= written' * Word - Ring /\ p < Shifted + 1
      <4>1. written' * Word \in Nat
        <5>1. written' \in Nat
          BY <1>3, ShiftFacts
        <5> QED
          BY <5>1, CellsGrow
      <4> QED
        BY <1>1, <1>2, <1>3, <1>5, <2>1, <2>3, <4>1
    <3>2. Shifted' = Shifted + 1
      BY ShiftHeld
    <3> QED
      BY <3>1, <3>2 DEF Held
  <2>5. p # Shifted
    BY <1>1, <1>2, <2>1, <2>3
  <2>6. Got(p)' = Got(p)
    BY <2>4, <2>5, ShiftHeld
  <2> QED
    BY <2>2, <2>3, <2>6
<1> QED
  BY <1>1, <1>4, <1>5, <1>6

\* The frames that arrived when the next cell was shifted in.
LEMMA StepArrived ==
  ASSUME TypeInv, Inv, frame \in Frames, Shifted' = Shifted + 1,
         frame' = frame, pos' = pos + 1, gone \subseteq gone',
         \A k \in Frames \ {frame} : ends'[k] = ends[k],
         NEW k \in Arrived'
  PROVE  /\ k \in Frames /\ k \notin gone' /\ k <= frame
         /\ k # frame => k \in Arrived /\ Start(k)' = Start(k) /\ Sofar(k)' = Sofar(k)
         /\ k = frame /\ pos > Lead => k \in Arrived /\ Start(k)' = Start(k)
         /\ k = frame /\ ~ (pos > Lead) => pos = Lead /\ Start(k)' = Shifted
         /\ k = frame => Sofar(k)' = IF pos + 1 < EndOf(k) THEN (pos + 1) - Lead
                                     ELSE FrameCells(k)
<1>0. Shifted \in Nat /\ pos \in Nat /\ Lead \in Nat /\ frame \in Nat
  BY ShiftedFacts, NumberFacts, CellTypes
<1>1. k \in Frames /\ k \notin gone' /\ (k < frame \/ (k = frame /\ pos + 1 > Lead))
  BY DEF Arrived
<1>2. CASE k # frame
  BY <1>0, <1>1, <1>2, FrameFacts DEF Arrived, Start, Sofar
<1>3. CASE k = frame
  <2>1. Start(k)' = (Shifted + 1) - ((pos + 1) - Lead)
    BY <1>0, <1>3 DEF Start
  <2>2. Start(k) = Shifted - (pos - Lead)
    BY <1>3 DEF Start
  <2>3. Start(k)' = Start(k) /\ (~ (pos > Lead) => pos = Lead /\ Start(k)' = Shifted)
    BY <1>0, <1>1, <1>3, <2>1, <2>2
  <2>4. Sofar(k)' = IF pos + 1 < EndOf(k) THEN (pos + 1) - Lead ELSE FrameCells(k)
    BY <1>3 DEF Sofar
  <2>5. pos > Lead => k \in Arrived
    BY <1>1, <1>3 DEF Arrived
  <2> QED
    BY <1>0, <1>1, <1>3, <2>3, <2>4, <2>5
<1> QED
  BY <1>2, <1>3

\* The invariant is kept by the next cell, or by one that shows no frame and of
\* which the frame is damaged.
LEMMA ShiftIntact ==
  ASSUME TypeInv, Inv, IntactInv, NEW c \in Cell, ShiftIn(c), Sending, frame \in Frames,
         c = NextCell \/ (c.of = 0 /\ frame \in gone' /\ pos < EndOf(frame)),
         frame' = frame, pos' = pos + 1, UNCHANGED portVars,
         gone \subseteq gone', Overwritten \subseteq gone',
         \A k \in Frames \ {frame} : ends'[k] = ends[k],
         \/ ends'[frame] = ends[frame] /\ (frame \in gone' \/ pos + 1 # EndOf(frame))
         \/ ends'[frame] = Shifted + 1 /\ pos + 1 = EndOf(frame)
  PROVE  IntactInv'
<1>1. /\ Shifted \in Nat /\ Shifted' = Shifted + 1 /\ frame \in Nat \ {0} /\ pos \in Nat
      /\ Lead \in Nat /\ Word \in Nat \ {0} /\ FrameCells(frame) \in Nat
      /\ FrameCells(frame) > 6 /\ EndOf(frame) = Lead + FrameCells(frame)
      /\ EndOf(frame) \in Nat
  <2>1. Shifted \in Nat /\ Shifted' = Shifted + 1 /\ pos \in Nat
    BY ShiftHeld, ShiftedFacts, NumberFacts
  <2>2. /\ FrameCells(frame) \in Nat /\ RawOf(frame) \in Nat /\ RawOf(frame) >= 4
        /\ 2 + RawOf(frame) < FrameCells(frame)
        /\ EndOf(frame) = Lead + FrameCells(frame) /\ EndOf(frame) \in Nat
        /\ Lead \in Nat /\ Word \in Nat \ {0} /\ frame \in Nat \ {0}
    BY SpanFacts
  <2> QED
    BY <2>1, <2>2
<1>2. \A p \in Held' : \/ p = Shifted /\ Got(p)' = c
                       \/ p \in Held /\ p < Shifted /\ Got(p)' = Got(p)
  BY ShiftHeld
<1>3. /\ \A p \in Held' : p \in Nat /\ p < Shifted + 1
      /\ \A p \in Held : p \in Nat /\ p < Shifted /\ Got(p).of \in Nat
  <2>1. \A p \in Held' : p \in Nat /\ p < Shifted + 1
    BY <1>1 DEF Held
  <2> QED
    BY <2>1, ShiftedFacts, CellTypes
<1>4. /\ c.of # 0 => /\ c = NextCell /\ c.of = frame /\ c.at = (pos + 1) - Lead /\ c.at >= 1
                     /\ pos < EndOf(frame) /\ pos >= Lead
                     /\ c.at = 1 => c.v = SyncHi
                     /\ c.at = 2 => c.v = SyncLo
                     /\ c.at = 3 => c.v = Len(Payloads[frame])
      /\ pos < EndOf(frame) + Word
      /\ c = NextCell /\ pos >= Lead /\ pos < EndOf(frame) => c.of # 0
  <2>1. pos < EndOf(frame) + Word
    BY <1>1, NextCellFacts
  <2>2. CASE c # NextCell
    BY <2>1, <2>2
  <2>3. CASE c = NextCell /\ (pos < Lead \/ pos >= EndOf(frame))
    <3>1. c = Blank
      BY <1>1, <2>3, NextCellFacts
    <3>2. c.of = 0
      BY <3>1 DEF Blank
    <3> QED
      BY <1>1, <2>1, <2>3, <3>2
  <2>4. CASE c = NextCell /\ pos >= Lead /\ pos < EndOf(frame)
    <3>1. /\ c.of = frame /\ c.at = pos + 1 - Lead
          /\ pos + 1 - Lead = 1 => c.v = SyncHi
          /\ pos + 1 - Lead = 2 => c.v = SyncLo
          /\ pos + 1 - Lead = 3 => c.v = Len(Payloads[frame])
      BY <1>1, <2>4, NextCellFacts
    <3>2. (pos + 1) - Lead = pos + 1 - Lead /\ pos + 1 - Lead >= 1
      BY <1>1, <2>4
    <3> QED
      BY <1>1, <2>1, <2>4, <3>1, <3>2
  <2> QED
    BY <1>1, <2>2, <2>3, <2>4
<1>5. UNCHANGED <<read, delivered>> /\ \A k \in Frames : Returned(k)' = Returned(k)
  BY DEF portVars, Returned
<1>6. ASSUME NEW k \in Arrived'
      PROVE  /\ k \in Frames /\ k \notin gone' /\ k <= frame
             /\ k # frame => k \in Arrived /\ Start(k)' = Start(k) /\ Sofar(k)' = Sofar(k)
             /\ k = frame /\ pos > Lead => k \in Arrived /\ Start(k)' = Start(k)
             /\ k = frame /\ ~ (pos > Lead) => pos = Lead /\ Start(k)' = Shifted
             /\ k = frame => Sofar(k)' = IF pos + 1 < EndOf(k) THEN (pos + 1) - Lead
                                         ELSE FrameCells(k)
             /\ k = frame => c = NextCell
  <2>1. /\ k \in Frames /\ k \notin gone' /\ k <= frame
        /\ k # frame => k \in Arrived /\ Start(k)' = Start(k) /\ Sofar(k)' = Sofar(k)
        /\ k = frame /\ pos > Lead => k \in Arrived /\ Start(k)' = Start(k)
        /\ k = frame /\ ~ (pos > Lead) => pos = Lead /\ Start(k)' = Shifted
        /\ k = frame => Sofar(k)' = IF pos + 1 < EndOf(k) THEN (pos + 1) - Lead
                                    ELSE FrameCells(k)
    BY <1>1, StepArrived
  <2>2. k = frame => c = NextCell
    BY <2>1
  <2> QED
    BY <2>1, <2>2
<1>7. EndsInv'
  <2>1. pos' <= EndOf(frame') + Word
    BY <1>1, <1>4
  <2>2. ASSUME NEW k \in Frames, ends'[k] > 0
        PROVE  k < frame' \/ (k = frame' /\ pos' >= EndOf(k))
    <3>1. ends[k] > 0 => k < frame \/ (k = frame /\ pos >= EndOf(k))
      BY DEF IntactInv, EndsInv
    <3> QED
      BY <1>1, <2>2, <3>1
  <2>3. ASSUME NEW k \in Arrived'
        PROVE  /\ Start(k)' \in Nat /\ Start(k)' + Sofar(k)' <= Shifted'
               /\ k = frame' /\ pos' >= EndOf(k) => ends'[k] = End(k)'
    <3>1. CASE k # frame
      <4>1. Start(k) \in Nat /\ Start(k) + Sofar(k) <= Shifted /\ Sofar(k) \in Nat
        BY <1>6, <3>1, ArrivedFacts
      <4> QED
        BY <1>1, <1>6, <3>1, <4>1
    <3>2. CASE k = frame
      <4>1. PICK s \in Nat : s = Start(k)' /\ s = Shifted - (pos - Lead)
        <5>1. pos > Lead => Start(k) \in Nat /\ Start(k) = Shifted - (pos - Lead)
          BY <1>6, <3>2, ArrivedFacts DEF Start
        <5> QED
          BY <1>1, <1>6, <3>2, <5>1
      <4>2. s + Sofar(k)' <= Shifted + 1
        BY <1>1, <1>6, <3>2, <4>1
      <4>3. End(k)' = s + FrameCells(k)
        BY <4>1 DEF End
      <4>4. ASSUME pos + 1 >= EndOf(k) PROVE ends'[k] = End(k)'
        <5>1. CASE pos + 1 = EndOf(k)
          <6>1. ends'[k] = Shifted + 1
            BY <1>6, <3>2, <5>1
          <6> QED
            BY <1>1, <3>2, <4>1, <4>3, <5>1, <6>1
        <5>2. CASE pos + 1 # EndOf(k)
          <6>1. pos >= EndOf(k) /\ pos > Lead
            BY <1>1, <3>2, <4>4, <5>2
          <6>2. ends[k] = End(k) /\ End(k) = Start(k) + FrameCells(k)
            BY <1>6, <3>2, <6>1 DEF IntactInv, EndsInv, End
          <6>3. ends'[k] = ends[k]
            BY <3>2, <5>2
          <6> QED
            BY <1>6, <3>2, <4>1, <4>3, <6>1, <6>2, <6>3
        <5> QED
          BY <5>1, <5>2
      <4> QED
        BY <1>1, <3>2, <4>1, <4>2, <4>4
    <3> QED
      BY <3>1, <3>2
  <2> QED
    BY <2>1, <2>2, <2>3 DEF EndsInv
<1>8. Unread'
  <2> SUFFICES ASSUME NEW k \in Arrived', ~ Returned(k)', NEW x, x = Start(k)'
               PROVE  /\ x >= read' /\ x >= written' * Word - Ring
                      /\ \A i \in 0 .. Sofar(k)' - 1 : Got(x + i)'.of = k /\ Got(x + i)'.at = i + 1
    BY DEF Unread, Got
  <2>0. ~ Returned(k) /\ k \in Frames /\ k \notin gone'
    BY <1>5, <1>6
  <2>1. ASSUME k \in Arrived, x = Start(k)
        PROVE  /\ x >= read /\ x >= written' * Word - Ring
               /\ \A i \in 0 .. Sofar(k) - 1 : Got(x + i)'.of = k /\ Got(x + i)'.at = i + 1
    BY <2>0, <2>1, ShiftUnread
  <2>2. CASE k # frame
    BY <1>5, <1>6, <2>1, <2>2
  <2>3. CASE k = frame
    <3>0. PICK h \in Nat : h = Shifted
      BY <1>1
    <3>1. x \in Nat /\ x = Shifted - (pos - Lead)
      <4>1. pos > Lead => Start(k) \in Nat /\ Start(k) = Shifted - (pos - Lead)
        BY <1>6, <2>3, ArrivedFacts DEF Start
      <4> QED
        BY <1>1, <1>6, <2>3, <4>1
    <3>2. h >= read /\ h >= written' * Word - Ring /\ h \in Held'
      <4>1. /\ read \in Nat /\ unread \in Nat /\ read + unread <= seen * Word
            /\ seen * Word <= written * Word /\ written * Word <= Shifted
            /\ seen * Word \in Nat /\ written * Word \in Nat /\ Ring \in Nat \ {0}
        BY NumberFacts, ShiftedFacts
      <4>2. written' * Word <= Shifted + 1 /\ written' * Word \in Nat
        <5>0. Len(isr) \in Nat /\ Shifted = written * Word + Len(isr) /\ written \in Nat
          BY NumberFacts DEF Shifted
        <5>1. CASE written' = written
          BY <1>1, <4>1, <5>1
        <5>2. CASE Len(isr) + 1 = Word /\ written' = written + 1
          <6>1. written' * Word = written * Word + Word
            BY <1>1, <5>0, <5>2
          <6> QED
            BY <1>1, <4>1, <5>0, <5>2, <6>1
        <5> QED
          BY <5>1, <5>2, ShiftFacts
      <4>3. h >= read /\ h >= written' * Word - Ring
        BY <1>1, <3>0, <4>1, <4>2
      <4> QED
        BY <1>1, <3>0, <4>3 DEF Held
    <3>3. pos < EndOf(k) => Got(h)' = c /\ c.of = k /\ c.at = (pos - Lead) + 1
      <4>1. Got(h)' = c
        BY <1>2, <1>3, <3>0, <3>2
      <4>2. pos >= Lead
        BY <1>1, <1>6, <2>3
      <4> QED
        BY <1>1, <1>4, <1>6, <2>3, <4>1, <4>2
    <3>4. CASE pos > Lead
      <4>1. /\ k \in Arrived /\ Start(k) = x
        BY <1>6, <2>3, <3>1, <3>4
      <4>2. /\ x >= read /\ x >= written' * Word - Ring
            /\ \A i \in 0 .. Sofar(k) - 1 : Got(x + i)'.of = k /\ Got(x + i)'.at = i + 1
        BY <2>1, <4>1
      <4>3. CASE pos >= EndOf(k)
        <5>1. Sofar(k)' = Sofar(k)
          <6>1. Sofar(k) = FrameCells(k)
            BY <1>1, <2>3, <4>3 DEF Sofar
          <6> QED
            BY <1>1, <1>6, <2>3, <4>3, <6>1
        <5> QED
          BY <1>5, <3>1, <4>2, <5>1
      <4>4. CASE pos < EndOf(k)
        <5>1. Sofar(k) = pos - Lead /\ Sofar(k)' = (pos + 1) - Lead
          <6>1. Sofar(k) = pos - Lead
            BY <2>3, <4>4 DEF Sofar
          <6> QED
            BY <1>1, <1>6, <2>3, <4>4, <6>1
        <5>2. ASSUME NEW i \in 0 .. Sofar(k)' - 1
              PROVE  Got(x + i)'.of = k /\ Got(x + i)'.at = i + 1
          <6>1. CASE i = pos - Lead
            <7>1. x + i = h
              BY <1>1, <3>0, <3>1, <6>1
            <7> QED
              BY <3>3, <4>4, <6>1, <7>1
          <6>2. CASE i # pos - Lead
            <7>1. i \in 0 .. Sofar(k) - 1
              BY <1>1, <5>1, <6>2
            <7> QED
              BY <4>2, <7>1
          <6> QED
            BY <6>1, <6>2
        <5> QED
          BY <1>5, <3>1, <4>2, <5>2
      <4> QED
        BY <1>1, <2>3, <4>3, <4>4
    <3>5. CASE ~ (pos > Lead)
      <4>1. pos = Lead /\ x = h /\ Sofar(k)' = 1 /\ pos < EndOf(k)
        BY <1>1, <1>6, <2>3, <3>0, <3>1, <3>5
      <4>2. ASSUME NEW i \in 0 .. Sofar(k)' - 1
            PROVE  Got(x + i)'.of = k /\ Got(x + i)'.at = i + 1
        <5>1. i = 0 /\ x + i = h /\ (pos - Lead) + 1 = i + 1
          BY <1>1, <4>1
        <5> QED
          BY <3>3, <4>1, <5>1
      <4> QED
        BY <1>5, <3>1, <3>2, <4>1, <4>2
    <3> QED
      BY <3>4, <3>5
  <2> QED
    BY <2>2, <2>3
<1>9. Followed'
  <2> SUFFICES ASSUME NEW p \in Held', NEW j, j = Got(p)'.of, j # 0
               PROVE  p + Postamble(j)' < Shifted'
    BY DEF Followed, Postamble
  <2>1. CASE p = Shifted /\ Got(p)' = c
    <3>1. Postamble(frame)' = 0
      BY <1>1, <1>4, <2>1 DEF Postamble
    <3> QED
      BY <1>1, <1>4, <2>1, <3>1
  <2>2. CASE p \in Held /\ Got(p)' = Got(p)
    <3>1. j \in Nat /\ j = Got(p).of
      BY <1>3, <2>2
    <3>2. p + Postamble(j) < Shifted
      BY <2>2, <3>1 DEF IntactInv, Followed
    <3>3. Postamble(j) \in Nat /\ Postamble(j)' \in Nat /\ Postamble(j)' <= Postamble(j) + 1
      BY <1>1, <3>1 DEF Postamble
    <3> QED
      BY <1>1, <1>3, <2>2, <3>1, <3>2, <3>3
  <2> QED
    BY <1>2, <2>1, <2>2
<1>10. Clear'
  <2> SUFFICES ASSUME NEW k \in Arrived', NEW p \in Held', Got(p)'.of # 0, Got(p)'.of < k
               PROVE  p + Word < Start(k)'
    BY DEF Clear
  <2>1. p \in Held /\ Got(p)' = Got(p)
    <3>0. k \in Nat /\ k <= frame /\ frame \in Nat
      BY <1>1, <1>6, FrameFacts
    <3>1. ASSUME Got(p)' = c PROVE FALSE
      <4>1. c.of # 0 /\ c.of < k
        BY <3>1
      <4>2. c.of = frame
        BY <1>4, <4>1
      <4> QED
        BY <3>0, <4>1, <4>2
    <3> QED
      BY <1>2, <3>1
  <2>2. CASE k \in Arrived /\ Start(k)' = Start(k)
    BY <2>1, <2>2 DEF IntactInv, Clear
  <2>3. CASE k = frame /\ Start(k)' = Shifted
    <3>1. Postamble(Got(p).of) = Word
      BY <2>1, <2>3 DEF Postamble
    <3> QED
      BY <2>1, <2>3, <3>1 DEF IntactInv, Followed
  <2> QED
    BY <1>6, <2>2, <2>3
<1>11. HeadCells'
  <2> SUFFICES ASSUME NEW p \in Held', Got(p)'.of # 0
               PROVE  /\ Got(p)'.at = 1 => Got(p)'.v = SyncHi
                      /\ Got(p)'.at = 2 => Got(p)'.v = SyncLo
                      /\ Got(p)'.at = 3 => Got(p)'.v = Len(Payloads[Got(p)'.of])
    BY DEF HeadCells
  <2>1. CASE Got(p)' = c
    BY <1>4, <2>1
  <2>2. CASE p \in Held /\ Got(p)' = Got(p)
    BY <2>2 DEF IntactInv, HeadCells
  <2> QED
    BY <1>2, <2>1, <2>2
<1> QED
  BY <1>7, <1>8, <1>9, <1>10, <1>11 DEF IntactInv

LEMMA TransmitIntact ==
  ASSUME TypeInv, Inv, IntactInv, Transmit
  PROVE  IntactInv'
<1>1. Sending /\ frame \in Frames /\ pos \in Nat
  BY NumberFacts DEF Transmit, Sending, TypeInv
<1>2. PICK c \in Cell : c = NextCell
  BY <1>1, NextCellFacts
<1>3. /\ ShiftIn(c) /\ frame' = frame /\ pos' = pos + 1 /\ UNCHANGED portVars
      /\ gone' = gone \cup Overwritten
      /\ ends' = IF pos + 1 = EndOf(frame)
                 THEN [ends EXCEPT ![frame] = written * Word + Len(isr) + 1] ELSE ends
  BY <1>2 DEF Transmit
<1>4. ends \in [Frames -> Nat]
  BY DEF TypeInv
<1>5. gone \subseteq gone' /\ Overwritten \subseteq gone'
  BY <1>3
<1>6. /\ \A k \in Frames \ {frame} : ends'[k] = ends[k]
      /\ \/ ends'[frame] = ends[frame] /\ pos + 1 # EndOf(frame)
         \/ ends'[frame] = Shifted + 1 /\ pos + 1 = EndOf(frame)
  BY <1>1, <1>3, <1>4 DEF Shifted
<1> QED
  BY <1>1, <1>2, <1>3, <1>5, <1>6, ShiftIntact

LEMMA DamageIntact ==
  ASSUME TypeInv, Inv, IntactInv, Damage
  PROVE  IntactInv'
<1>1. Sending /\ frame \in Frames /\ pos \in Nat /\ NextCell.of # 0
  BY NumberFacts DEF Damage, Sending, TypeInv
<1>2. PICK v \in Noise : ShiftIn([Blank EXCEPT !.v = v])
  BY DEF Damage
<1>3. PICK c \in Cell : c = [Blank EXCEPT !.v = v] /\ c.of = 0
  BY NoiseCell
<1>4. /\ ShiftIn(c) /\ frame' = frame /\ pos' = pos + 1 /\ UNCHANGED <<ends, portVars>>
      /\ gone' = gone \cup Overwritten \cup {frame}
  BY <1>2, <1>3 DEF Damage
<1>5. gone \subseteq gone' /\ Overwritten \subseteq gone' /\ frame \in gone'
  BY <1>4
<1>6. pos < EndOf(frame)
  <2>1. ASSUME pos >= EndOf(frame) PROVE FALSE
    <3>1. NextCell = Blank
      BY <1>1, <2>1, NextCellFacts
    <3> QED
      BY <1>1, <3>1 DEF Blank
  <2> QED
    BY <1>1, <2>1, SizeFacts
<1>7. \A k \in Frames : ends'[k] = ends[k]
  BY <1>4
<1> QED
  BY <1>1, <1>3, <1>4, <1>5, <1>6, <1>7, ShiftIntact

\* The invariant is kept when nothing is shifted in, no frame moves, and the port
\* passes no frame without returning it.
LEMMA StayIntact ==
  ASSUME TypeInv, Inv, IntactInv, UNCHANGED <<ring, isr, written>>, EndsInv',
         \A k \in Arrived' : k \in Arrived /\ Start(k)' = Start(k) /\ Sofar(k)' = Sofar(k),
         \A k \in Arrived' : Returned(k)' \/ (~ Returned(k) /\ Start(k) >= read'),
         \A k \in Nat \ {0} : Postamble(k)' = 0 \/ Postamble(k)' = Postamble(k)
  PROVE  IntactInv'
<1>1. Held' = Held /\ Shifted' = Shifted /\ Shifted \in Nat
  BY ShiftedFacts DEF Held, Shifted
<1>2. \A p \in Nat : Got(p)' = Got(p)
  BY DEF Got
<1>3. \A p \in Held : p \in Nat /\ p < Shifted /\ Got(p).of \in Nat
  BY ShiftedFacts, CellTypes
<1>4. Unread'
  <2> SUFFICES ASSUME NEW k \in Arrived', ~ Returned(k)', NEW x, x = Start(k)'
               PROVE  /\ x >= read' /\ x >= written' * Word - Ring
                      /\ \A i \in 0 .. Sofar(k)' - 1 : Got(x + i)'.of = k /\ Got(x + i)'.at = i + 1
    BY DEF Unread, Got
  <2>1. k \in Arrived /\ x = Start(k) /\ Sofar(k)' = Sofar(k) /\ ~ Returned(k) /\ x >= read'
    OBVIOUS
  <2>2. /\ x >= written * Word - Ring /\ x \in Nat /\ Sofar(k) \in Nat
        /\ \A i \in 0 .. Sofar(k) - 1 : Got(x + i).of = k /\ Got(x + i).at = i + 1
    BY <2>1, ArrivedFacts DEF IntactInv, Unread
  <2>3. ASSUME NEW i \in 0 .. Sofar(k) - 1 PROVE Got(x + i)'.of = k /\ Got(x + i)'.at = i + 1
    <3>1. PICK p \in Nat : p = x + i
      BY <2>2
    <3> QED
      BY <1>2, <2>2, <3>1
  <2> QED
    BY <2>1, <2>2, <2>3
<1>5. Followed'
  <2> SUFFICES ASSUME NEW p \in Held, NEW j, j = Got(p).of, j # 0
               PROVE  p + Postamble(j)' < Shifted
    BY <1>1, <1>2, <1>3 DEF Followed, Postamble
  <2>1. p + Postamble(j) < Shifted /\ j \in Nat
    BY <1>3 DEF IntactInv, Followed
  <2> QED
    BY <1>1, <1>3, <2>1
<1>6. Clear'
  <2> SUFFICES ASSUME NEW k \in Arrived', NEW p \in Held, Got(p).of # 0, Got(p).of < k
               PROVE  p + Word < Start(k)
    BY <1>1, <1>2, <1>3 DEF Clear
  <2> QED
    BY DEF IntactInv, Clear
<1>7. HeadCells'
  BY <1>1, <1>2, <1>3 DEF IntactInv, HeadCells
<1> QED
  BY <1>4, <1>5, <1>6, <1>7 DEF IntactInv

LEMMA SlipIntact ==
  ASSUME TypeInv, Inv, IntactInv, Slip
  PROVE  IntactInv'
<1>1. Sending /\ frame \in Frames /\ pos \in Nat /\ pos < EndOf(frame)
  BY NumberFacts DEF Slip, Sending, TypeInv
<1>2. /\ frame' = frame /\ pos' = pos + 1 /\ gone' = gone \cup ({NextCell.of} \ {0})
      /\ UNCHANGED <<isr, ring, written, ends, read, delivered>>
  BY DEF Slip, portVars
<1>3. /\ Lead \in Nat /\ Word \in Nat \ {0} /\ EndOf(frame) \in Nat /\ Lead < EndOf(frame)
      /\ frame \in Nat \ {0}
  BY <1>1, SpanFacts
<1>4. \A k \in Arrived' : k \in Arrived /\ k < frame
  <2> SUFFICES ASSUME NEW k \in Arrived' PROVE k \in Arrived /\ k < frame
    OBVIOUS
  <2>1. k \in Frames /\ k \notin gone' /\ (k < frame \/ (k = frame /\ pos + 1 > Lead))
    BY <1>2 DEF Arrived
  <2>2. ASSUME k = frame PROVE FALSE
    <3>1. NextCell.of = frame
      BY <1>1, <1>3, <2>1, <2>2, NextCellFacts
    <3> QED
      BY <1>2, <1>3, <2>1, <2>2, <3>1
  <2> QED
    BY <1>2, <2>1, <2>2 DEF Arrived
<1>5. \A k \in Arrived' : Start(k)' = Start(k) /\ Sofar(k)' = Sofar(k) /\ Returned(k)' = Returned(k)
  <2> SUFFICES ASSUME NEW k \in Arrived'
               PROVE  Start(k)' = Start(k) /\ Sofar(k)' = Sofar(k) /\ Returned(k)' = Returned(k)
    OBVIOUS
  <2>1. k # frame
    BY <1>3, <1>4
  <2> QED
    BY <1>2, <2>1 DEF Start, Sofar, Returned
<1>6. EndsInv'
  <2>1. frame' # 0 => pos' <= EndOf(frame') + Word
    BY <1>1, <1>2, <1>3
  <2>2. ASSUME NEW k \in Frames, ends'[k] > 0
        PROVE  k < frame' \/ (k = frame' /\ pos' >= EndOf(k))
    BY <1>1, <1>2, <1>3, <2>2 DEF IntactInv, EndsInv
  <2>3. ASSUME NEW k \in Arrived'
        PROVE  /\ Start(k)' \in Nat /\ Start(k)' + Sofar(k)' <= Shifted'
               /\ k = frame' /\ pos' >= EndOf(k) => ends'[k] = End(k)'
    <3>1. k # frame' /\ Shifted' = Shifted
      BY <1>2, <1>3, <1>4 DEF Shifted
    <3>2. Start(k) \in Nat /\ Start(k) + Sofar(k) <= Shifted
      BY <1>4, ArrivedFacts
    <3> QED
      BY <1>5, <3>1, <3>2
  <2> QED
    BY <2>1, <2>2, <2>3 DEF EndsInv
<1>7. \A k \in Nat \ {0} : Postamble(k)' = 0 \/ Postamble(k)' = Postamble(k)
  BY <1>1, <1>2, <1>3 DEF Postamble
<1>8. \A k \in Arrived' : Returned(k)' \/ (~ Returned(k) /\ Start(k) >= read')
  BY <1>2, <1>4, <1>5 DEF IntactInv, Unread
<1> QED
  BY <1>2, <1>4, <1>5, <1>6, <1>7, <1>8, StayIntact

\* A frame begins when the one before it is sent to the end of its postamble.
LEMMA StartFacts ==
  ASSUME TypeInv, Inv, IntactInv, StartFrame
  PROVE  /\ frame' = frame + 1 /\ pos' = 0 /\ Shifted' = Shifted
         /\ UNCHANGED <<isr, ring, written, ends, read, delivered, gone>>
         /\ frame \in Nat /\ pos \in Nat /\ Lead \in Nat /\ Word \in Nat \ {0}
         /\ frame + 1 \in Frames /\ (frame # 0 => frame \in Frames)
         /\ EndOf(frame + 1) \in Nat
         /\ frame # 0 => pos = EndOf(frame) + Word /\ EndOf(frame) \in Nat /\ Lead < EndOf(frame)
         /\ \A k \in Arrived' : k \in Arrived /\ k # frame' /\ Start(k)' = Start(k)
                                /\ Sofar(k)' = Sofar(k)
<1>1. /\ ~ Sending /\ frame < Len(Payloads) /\ frame' = frame + 1 /\ pos' = 0
      /\ UNCHANGED <<isr, ring, written, ends, read, delivered, gone>>
  BY DEF StartFrame, portVars
<1>2. frame \in Nat /\ pos \in Nat /\ Lead \in Nat /\ Word \in Nat \ {0} /\ Shifted' = Shifted
  BY <1>1, CellTypes, NumberFacts DEF Shifted
<1>3. frame + 1 \in Frames /\ (frame # 0 => frame \in Frames)
  <2>1. Frames = 1 .. Len(Payloads) /\ Len(Payloads) \in Nat
    BY RxSizesAssumption DEF Frames
  <2> QED
    BY <1>1, <1>2, <2>1
<1>4. EndOf(frame + 1) \in Nat
  BY <1>3, SpanFacts
<1>5. frame # 0 => pos = EndOf(frame) + Word /\ EndOf(frame) \in Nat /\ Lead < EndOf(frame)
  <2> SUFFICES ASSUME frame # 0
               PROVE  pos = EndOf(frame) + Word /\ EndOf(frame) \in Nat /\ Lead < EndOf(frame)
    OBVIOUS
  <2>1. EndOf(frame) \in Nat /\ Lead < EndOf(frame)
    BY <1>2, <1>3, SpanFacts
  <2>3. Len(Encoded(frame)) = EndOf(frame) + Word
    BY <1>3, EncodedFacts, Zenon
  <2>2. pos <= EndOf(frame) + Word
    BY DEF IntactInv, EndsInv
  <2> QED
    BY <1>1, <1>2, <2>1, <2>2, <2>3 DEF Sending
<1>6. ASSUME NEW k \in Arrived'
      PROVE  k \in Arrived /\ k # frame' /\ Start(k)' = Start(k) /\ Sofar(k)' = Sofar(k)
  <2>1. k \in Frames /\ k \notin gone /\ k \in Nat \ {0} /\ k < frame + 1
    BY <1>1, <1>2, FrameFacts DEF Arrived
  <2>2. k # frame' /\ Start(k)' = ends[k] - FrameCells(k) /\ Sofar(k)' = FrameCells(k)
    BY <1>1, <1>2, <2>1 DEF Start, Sofar
  <2>3. CASE k = frame
    <3>1. k \in Arrived
      BY <1>2, <1>5, <2>1, <2>3 DEF Arrived
    <3>2. ends[k] = End(k) /\ Start(k) \in Nat /\ FrameCells(k) \in Nat
      BY <1>2, <1>5, <2>1, <2>3, <3>1, SpanFacts DEF IntactInv, EndsInv
    <3>3. Sofar(k) = FrameCells(k)
      BY <1>2, <1>5, <2>1, <2>3 DEF Sofar
    <3> QED
      BY <2>2, <3>1, <3>2, <3>3 DEF End
  <2>4. CASE k # frame
    BY <1>2, <2>1, <2>2, <2>4 DEF Arrived, Start, Sofar
  <2> QED
    BY <2>3, <2>4
<1> QED
  BY <1>1, <1>2, <1>3, <1>4, <1>5, <1>6

LEMMA StartIntact ==
  ASSUME TypeInv, Inv, IntactInv, StartFrame
  PROVE  IntactInv'
<1>1. /\ frame' = frame + 1 /\ pos' = 0 /\ Shifted' = Shifted
      /\ UNCHANGED <<isr, ring, written, ends, read, delivered, gone>>
  BY StartFacts
<1>2. frame \in Nat /\ pos \in Nat /\ Lead \in Nat /\ Word \in Nat \ {0} /\ Shifted' = Shifted
  BY StartFacts
<1>4. EndOf(frame + 1) \in Nat
  BY StartFacts
<1>5. frame # 0 => pos = EndOf(frame) + Word /\ EndOf(frame) \in Nat /\ Lead < EndOf(frame)
  BY StartFacts
<1>6. ASSUME NEW k \in Arrived'
      PROVE  k \in Arrived /\ k # frame' /\ Start(k)' = Start(k) /\ Sofar(k)' = Sofar(k)
  BY StartFacts
<1>7. EndsInv'
  <2>1. frame' # 0 => pos' <= EndOf(frame') + Word
    BY <1>1, <1>2, <1>4
  <2>2. ASSUME NEW k \in Frames, ends'[k] > 0
        PROVE  k < frame' \/ (k = frame' /\ pos' >= EndOf(k))
    <3>1. k < frame \/ k = frame
      BY <1>1, <2>2 DEF IntactInv, EndsInv
    <3> QED
      BY <1>1, <1>2, <3>1, FrameFacts
  <2>3. ASSUME NEW k \in Arrived'
        PROVE  /\ Start(k)' \in Nat /\ Start(k)' + Sofar(k)' <= Shifted'
               /\ k = frame' /\ pos' >= EndOf(k) => ends'[k] = End(k)'
    <3>1. Start(k) \in Nat /\ Start(k) + Sofar(k) <= Shifted
      BY <1>6, ArrivedFacts
    <3> QED
      BY <1>2, <1>6, <3>1
  <2> QED
    BY <2>1, <2>2, <2>3 DEF EndsInv
<1>8. ASSUME NEW k \in Nat \ {0} PROVE Postamble(k)' = 0 \/ Postamble(k)' = Postamble(k)
  <2>1. Postamble(k)' = IF k < frame + 1 THEN Word ELSE 0
    BY <1>1, <1>2, <1>4 DEF Postamble
  <2>2. k < frame + 1 => Postamble(k) = Word
    BY <1>2, <1>5 DEF Postamble
  <2> QED
    BY <2>1, <2>2
<1>9. \A k \in Arrived' : Returned(k)' \/ (~ Returned(k) /\ Start(k) >= read')
  BY <1>1, <1>6 DEF IntactInv, Unread, Returned
<1> QED
  BY <1>1, <1>6, <1>7, <1>8, <1>9, StayIntact

LEMMA WireIntact ==
  ASSUME TypeInv, Inv, IntactInv, Wire
  PROVE  IntactInv'
BY StartIntact, TransmitIntact, DamageIntact, SlipIntact DEF Wire

-----------------------------------------------------------------------------
(* The polls.                                                              *)

\* The invariant is kept by a poll that passes no frame without returning it.
LEMMA PollIntact ==
  ASSUME TypeInv, Inv, IntactInv, UNCHANGED wireVars, gone \subseteq gone',
         \A k \in Arrived : k \in gone' \/ Returned(k)' \/ (~ Returned(k) /\ Start(k) >= read')
  PROVE  IntactInv'
<1>1. UNCHANGED <<frame, pos, ring, isr, written, ends>>
  BY DEF wireVars
<1>2. Shifted' = Shifted /\ \A k \in Frames : /\ Start(k)' = Start(k) /\ Sofar(k)' = Sofar(k)
                                              /\ End(k)' = End(k)
  BY <1>1 DEF Shifted, Start, Sofar, End
<1>3. \A k \in Arrived' : k \in Arrived /\ k \in Frames /\ k \notin gone'
  BY <1>1 DEF Arrived
<1>4. EndsInv'
  BY <1>1, <1>2, <1>3 DEF IntactInv, EndsInv
<1>5. \A k \in Nat \ {0} : Postamble(k)' = Postamble(k)
  BY <1>1 DEF Postamble
<1> QED
  BY <1>1, <1>2, <1>3, <1>4, <1>5, StayIntact

LEMMA BeginIntact ==
  ASSUME TypeInv, Inv, IntactInv, PollBegin
  PROVE  IntactInv'
<1>1. /\ UNCHANGED <<wireVars, delivered>> /\ read' \in Nat /\ read <= read'
      /\ \/ read' = read /\ gone' = gone
         \/ /\ written * Word - read >= Ring /\ read' = written * Word - Recover
            /\ gone' = gone \cup FramesBetween(read, read')
  BY BeginFacts
<1>2. \A k \in Frames : Returned(k)' = Returned(k)
  BY <1>1 DEF Returned
<1>3. ASSUME NEW k \in Arrived, ~ Returned(k), ~ (Start(k) >= read')
      PROVE  k \in gone'
  <2>1. PICK s \in Nat : s = Start(k)
    BY ArrivedFacts
  <2>2. /\ s >= read /\ s >= written * Word - Ring /\ Got(s).of = k /\ s < Shifted
        /\ k \in Nat \ {0}
    <3>1. 0 \in Nat /\ 0 < FrameCells(k) /\ Start(k) + 0 < Shifted /\ Start(k) + 0 = s
          /\ k \in Nat \ {0}
      BY <2>1, ArrivedFacts, SpanFacts
    <3> QED
      BY <1>3, <2>1, <3>1, UnreadHeld
  <2>3. /\ written * Word - read >= Ring /\ read' = written * Word - Recover
        /\ gone' = gone \cup FramesBetween(read, read')
    BY <1>1, <1>3, <2>1, <2>2
  <2>4. s < read' /\ s < written * Word /\ read \in Nat
    <3>1. written * Word \in Nat /\ Recover \in Nat /\ read \in Nat
      BY NumberFacts, RxSizesAssumption
    <3> QED
      BY <1>1, <1>3, <2>1, <2>3, <3>1
  <2>5. Got(s) = ring[s % Ring]
    BY <2>4 DEF Got
  <2>6. s \in {p \in read .. read' - 1 : p >= written * Word - Ring}
    BY <1>1, <2>1, <2>2, <2>4
  <2>7. k \in FramesBetween(read, read')
    BY <2>2, <2>5, <2>6 DEF FramesBetween
  <2> QED
    BY <2>3, <2>7
<1>4. gone \subseteq gone'
  BY <1>1
<1>5. \A k \in Arrived : k \in Frames
  BY DEF Arrived
<1>6. \A k \in Arrived : k \in gone' \/ Returned(k)' \/ (~ Returned(k) /\ Start(k) >= read')
  BY <1>2, <1>3, <1>5
<1> QED
  BY <1>1, <1>4, <1>6, PollIntact

\* A cell of a frame that is not returned, where a poll looks for it.
LEMMA LookedFor ==
  ASSUME TypeInv, Inv, OrderInv, IntactInv, pc = "extract",
         NEW k \in Arrived, ~ Returned(k), NEW t \in Nat, Start(k) = read + t,
         NEW i \in Nat, i < FrameCells(k), t + i < unread
  PROVE  /\ At(t + i).of = k /\ At(t + i).at = i + 1
         /\ read + (t + i) \in Held /\ Got(read + (t + i)) = At(t + i)
         /\ i = 0 => At(t + i).v = SyncHi
         /\ i = 1 => At(t + i).v = SyncLo
         /\ i = 2 => At(t + i).v = Len(Payloads[k])
<1>1. /\ read \in Nat /\ unread \in Nat /\ read + unread = seen * Word
      /\ seen * Word <= written * Word /\ written * Word <= Shifted
      /\ seen * Word \in Nat /\ written * Word \in Nat /\ Shifted \in Nat
  BY NumberFacts, ShiftedFacts DEF OrderInv, Looking
<1>2. PICK j \in Nat : j = t + i
  OBVIOUS
<1>3. Start(k) + i = read + j /\ read + j < written * Word /\ Start(k) + i < Shifted
  BY <1>1, <1>2
<1>4. /\ read + j \in Held /\ Got(read + j).of = k /\ Got(read + j).at = i + 1
      /\ i = 0 => Got(read + j).v = SyncHi
      /\ i = 1 => Got(read + j).v = SyncLo
      /\ i = 2 => Got(read + j).v = Len(Payloads[k])
  BY <1>3, UnreadHeld
<1>5. At(j) = Got(read + j)
  BY <1>3, <1>4, LookedAt
<1> QED
  BY <1>2, <1>4, <1>5

\* Its sync word is found.
LEMMA SyncFound ==
  ASSUME TypeInv, Inv, OrderInv, IntactInv, pc = "extract",
         NEW k \in Arrived, ~ Returned(k), NEW t \in Nat, Start(k) = read + t,
         t + 1 < Avail(unread)
  PROVE  t \in SyncsIn(Avail(unread))
<1>1. Avail(unread) \in Nat /\ Avail(unread) <= unread /\ unread \in Nat
  BY NumberFacts, RxSizesAssumption DEF Avail
<1>2. 1 < FrameCells(k) /\ FrameCells(k) \in Nat
  BY ArrivedFacts, SpanFacts
<1>3. At(t + 0).v = SyncHi
  <2>1. 0 \in Nat /\ 0 < FrameCells(k) /\ t + 0 < unread
    BY <1>1, <1>2
  <2> QED
    BY <2>1, LookedFor
<1>4. At(t + 1).v = SyncLo
  <2>1. 1 \in Nat /\ t + 1 < unread
    BY <1>1
  <2> QED
    BY <1>2, <2>1, LookedFor
<1>5. t + 0 = t /\ t \in 0 .. Avail(unread) - 2
  BY <1>1
<1> QED
  BY <1>3, <1>4, <1>5 DEF SyncsIn

\* What is to be read of a frame that is not returned is not taken for less.
LEMMA EndPasses ==
  ASSUME TypeInv, Inv, OrderInv, IntactInv, Slack * Word < 2 + RawCells(1), PollEnd,
         NEW k \in Arrived, ~ Returned(k), Start(k) < read'
  PROVE  Extract(unread).status = "FRAME_OK" /\ Extract(unread).frame = k
<1>1. /\ pc = "extract" /\ read \in Nat /\ unread \in Nat
      /\ Extract(unread).adv \in 0 .. unread /\ read' = read + Extract(unread).adv
      /\ Avail(unread) \in Nat /\ Avail(unread) <= unread
  <2>1. Avail(unread) \in Nat /\ Avail(unread) <= unread
    BY NumberFacts, RxSizesAssumption DEF Avail
  <2> QED
    BY <2>1, EndFacts, NumberFacts
<1>2. /\ k \in Frames /\ k \in Nat /\ Start(k) \in Nat /\ Start(k) >= read
      /\ FrameCells(k) \in Nat /\ RawOf(k) \in Nat /\ RawOf(k) >= 4 /\ 2 + RawOf(k) < FrameCells(k)
      /\ Len(Payloads[k]) \in 1 .. MaxLen /\ RawOf(k) = RawCells(Len(Payloads[k]))
  BY ArrivedFacts, SpanFacts, FrameFacts DEF IntactInv, Unread
<1>3. PICK t \in Nat : Start(k) = read + t /\ t < Extract(unread).adv
  <2>1. Start(k) - read \in Nat /\ Start(k) = read + (Start(k) - read)
        /\ Start(k) - read < Extract(unread).adv
    BY <1>1, <1>2
  <2> QED
    BY <2>1
<1>4. t + 1 < Avail(unread) => t \in SyncsIn(Avail(unread))
  BY <1>1, <1>3, SyncFound
<1>5. CASE \/ Extract(unread) = Outcome("INCOMPLETE", 0, 0)
           \/ /\ SyncsIn(Avail(unread)) = {}
              /\ Extract(unread) = Outcome("SYNC_NOT_FOUND", Avail(unread) - 1, 0)
  <2>1. Extract(unread).adv = 0 \/ (Extract(unread).adv = Avail(unread) - 1
                                     /\ SyncsIn(Avail(unread)) = {})
    BY <1>5 DEF Outcome
  <2> QED
    BY <1>1, <1>3, <1>4, <2>1
<1>6. ASSUME NEW s \in SyncsIn(Avail(unread)), \A x \in SyncsIn(Avail(unread)) : s <= x
      PROVE  /\ s \in Nat /\ s + 1 < Avail(unread) /\ s <= t
             /\ At(s + 1).v = SyncLo
             /\ t # s + 1
  <2>1. s \in Nat /\ s + 1 < Avail(unread) /\ At(s + 1).v = SyncLo
    BY <1>1 DEF SyncsIn
  <2>2. s <= t
    BY <1>1, <1>4, <1>6, <2>1
  <2>3. ASSUME t = s + 1 PROVE FALSE
    <3>1. 0 \in Nat /\ 0 < FrameCells(k) /\ t + 0 < unread
      BY <1>1, <1>2, <2>1, <2>3
    <3>2. At(t + 0).v = SyncHi
      <4>1. pc = "extract" /\ Start(k) = read + t
        BY <1>1, <1>3
      <4> QED
        BY <3>1, <4>1, LookedFor, Zenon
    <3>3. At(s + 1).v = SyncHi
      <4>1. t + 0 = s + 1
        BY <2>1, <2>3
      <4> QED
        BY <3>2, <4>1
    <3> QED
      BY <2>1, <3>3 DEF SyncHi, SyncLo
  <2> QED
    BY <2>1, <2>2, <2>3
<1>7. CASE \E s \in SyncsIn(Avail(unread)) :
             /\ \A x \in SyncsIn(Avail(unread)) : s <= x
             /\ \/ Extract(unread) = Outcome("INCOMPLETE", s, 0)
                \/ /\ s + 3 <= Avail(unread) /\ At(s + 2).v \notin 1 .. MaxLen
                   /\ Extract(unread) = Outcome("INVALID_LEN", s + 2, 0)
                \/ /\ At(s + 2).v \in 1 .. MaxLen
                   /\ s + 2 + TotalCells(At(s + 2).v) <= Avail(unread)
                   /\ \A j \in Frames : ~ DecodesTo(j, s + 2, At(s + 2).v)
                   /\ Extract(unread) = Outcome("CRC_MISMATCH", s + 2, 0)
  <2>1. PICK s \in SyncsIn(Avail(unread)) :
             /\ \A x \in SyncsIn(Avail(unread)) : s <= x
             /\ \/ Extract(unread) = Outcome("INCOMPLETE", s, 0)
                \/ /\ s + 3 <= Avail(unread) /\ At(s + 2).v \notin 1 .. MaxLen
                   /\ Extract(unread) = Outcome("INVALID_LEN", s + 2, 0)
                \/ /\ At(s + 2).v \in 1 .. MaxLen
                   /\ s + 2 + TotalCells(At(s + 2).v) <= Avail(unread)
                   /\ \A j \in Frames : ~ DecodesTo(j, s + 2, At(s + 2).v)
                   /\ Extract(unread) = Outcome("CRC_MISMATCH", s + 2, 0)
    BY <1>7
  <2>2. s \in Nat /\ s <= t /\ t # s + 1
    BY <1>6, <2>1
  <2>3. t = s /\ ~ (Extract(unread) = Outcome("INCOMPLETE", s, 0))
    <3>1. Extract(unread).adv = s \/ Extract(unread).adv = s + 2
      BY <2>1 DEF Outcome
    <3>2. Extract(unread) = Outcome("INCOMPLETE", s, 0) => Extract(unread).adv = s
      BY DEF Outcome
    <3> QED
      BY <1>3, <2>2, <3>1, <3>2
  <2>4. s + 3 <= Avail(unread)
    <3>1. ASSUME At(s + 2).v \in 1 .. MaxLen
          PROVE  TotalCells(At(s + 2).v) \in Nat /\ TotalCells(At(s + 2).v) >= 1
      <4>1. PICK len \in Nat : len = At(s + 2).v
        BY <3>1
      <4>2. TotalCells(len) \in Nat /\ RawCells(len) < TotalCells(len) /\ RawCells(len) = len + 3
        BY TotalFacts
      <4> QED
        BY <4>1, <4>2
    <3> QED
      BY <1>1, <2>1, <2>2, <2>3, <3>1
  <2>5. At(s + 2).v = Len(Payloads[k])
    <3>1. 2 \in Nat /\ 2 < FrameCells(k) /\ t + 2 < unread /\ t + 2 = s + 2
      BY <1>1, <1>2, <2>2, <2>3, <2>4
    <3> QED
      BY <1>1, <1>3, <3>1, LookedFor
  <2>6. PICK len \in Nat : len = Len(Payloads[k])
    BY <1>2
  <2>7. /\ s + 2 + TotalCells(len) <= Avail(unread) /\ ~ DecodesTo(k, s + 2, len)
        /\ RawCells(len) \in Nat /\ TotalCells(len) \in Nat /\ RawCells(len) < TotalCells(len)
        /\ RawOf(k) = RawCells(len)
    <3>1. At(s + 2).v \in 1 .. MaxLen
      BY <1>2, <2>5
    <3>2. /\ s + 2 + TotalCells(len) <= Avail(unread)
          /\ \A j \in Frames : ~ DecodesTo(j, s + 2, len)
      BY <2>1, <2>3, <2>5, <2>6, <3>1, Zenon
    <3>3. RawCells(len) = len + 3 /\ TotalCells(len) \in Nat /\ RawCells(len) < TotalCells(len)
      BY TotalFacts
    <3> QED
      BY <1>2, <2>6, <3>2, <3>3
  <2>8. ASSUME NEW i \in 0 .. RawCells(len) - 1
        PROVE  At(s + 2 + i).of = k /\ At(s + 2 + i).at = 3 + i
    <3>0. i \in Nat /\ i < RawCells(len) /\ RawCells(len) \in Nat /\ TotalCells(len) \in Nat
          /\ RawCells(len) < TotalCells(len) /\ s + 2 + TotalCells(len) <= Avail(unread)
          /\ 2 + RawCells(len) < FrameCells(k)
      BY <1>2, <2>7
    <3>1. 2 + i \in Nat /\ 2 + i < FrameCells(k) /\ t + (2 + i) < unread
          /\ t + (2 + i) = s + 2 + i /\ (2 + i) + 1 = 3 + i
      <4> HIDE DEF DecodesTo
      <4> QED
        BY <1>1, <1>2, <2>2, <2>3, <3>0
    <3>2. At(t + (2 + i)).of = k /\ At(t + (2 + i)).at = (2 + i) + 1
      BY <1>1, <1>3, <3>1, LookedFor
    <3> QED
      BY <3>1, <3>2
  <2>9. DecodesTo(k, s + 2, len)
    BY <2>8, Zenon DEF DecodesTo
  <2> QED
    BY <2>7, <2>9
<1>8. CASE Extract(unread).status = "FRAME_OK"
  <2>1. PICK j \in Frames, len \in 1 .. MaxLen, s \in SyncsIn(Avail(unread)) :
           /\ \A x \in SyncsIn(Avail(unread)) : s <= x
           /\ RawCells(len) \in Nat /\ RawCells(len) >= 4
           /\ TotalCells(len) \in Nat /\ RawCells(len) < TotalCells(len)
           /\ DecodesTo(j, s + 2, len)
           /\ Extract(unread) = Outcome("FRAME_OK", s + 2 + TotalCells(len), j)
           /\ read + (s + 2) \in Held
           /\ Got(read + (s + 2)).of = j /\ Got(read + (s + 2)).at = 3
           /\ read + (s + 2) + (RawCells(len) - 1) \in Held
           /\ Got(read + (s + 2) + (RawCells(len) - 1)).of = j
    BY <1>8, FrameFound, Zenon
  <2>2. s \in Nat /\ s <= t /\ t # s + 1
    BY <1>6, <2>1
  <2>3. Extract(unread).adv = s + 2 + TotalCells(len) /\ Extract(unread).frame = j
    BY <2>1 DEF Outcome
  <2>4. At(t + 0).of = k /\ read + (t + 0) \in Held /\ Got(read + (t + 0)) = At(t + 0) /\ t + 0 = t
    <3>1. 0 \in Nat /\ 0 < FrameCells(k) /\ t + 0 < unread /\ t + 0 = t
      BY <1>1, <1>2, <1>3
    <3> QED
      BY <1>1, <1>3, <3>1, LookedFor
  <2>5. PICK o \in Held : o = read + t /\ Got(o).of = k
    BY <2>4
  <2>6. PICK p \in Held : p = read + (s + 2) /\ Got(p).of = j
    BY <2>1
  <2>7. PICK q \in Held : q = p + (RawCells(len) - 1) /\ Got(q).of = j
    BY <2>1, <2>6
  <2>8. o \in Nat /\ p \in Nat /\ q \in Nat /\ j \in Nat \ {0} /\ k # 0
    BY <1>2, ShiftedFacts, FrameFacts
  <2>9. CASE t = s
    \* The sync word is its own; it is followed by its LEN.
    <3>1. At(t + 2).of = k
      <4>0. 2 < FrameCells(k)
        BY <1>2
      <4>2. TotalCells(len) \in Nat /\ TotalCells(len) > 4 /\ s + 2 + TotalCells(len) <= unread
        <5>1. TotalCells(len) \in Nat /\ TotalCells(len) > 4
          BY <2>1
        <5> QED
          BY <1>1, <2>3, <5>1
      <4>1. 2 \in Nat /\ 2 < FrameCells(k) /\ t + 2 < unread
        BY <1>1, <2>2, <2>9, <4>0, <4>2
      <4> QED
        BY <1>1, <1>3, <4>1, LookedFor
    <3>2. At(s + 2 + 0).of = j
      <4>1. 0 \in 0 .. RawCells(len) - 1
        BY <2>1
      <4> QED
        BY <2>1, <4>1, Zenon DEF DecodesTo
    <3>3. s + 2 + 0 = t + 2
      BY <2>2, <2>9
    <3> QED
      BY <1>8, <2>3, <3>1, <3>2, <3>3
  <2>10. CASE t # s
    <3>1. o >= p
      BY <1>1, <2>2, <2>5, <2>6, <2>10
    <3>2. ASSUME j < k PROVE FALSE
      <4>1. q + Word < Start(k)
        BY <2>7, <2>8, <3>2 DEF IntactInv, Clear
      <4>2. TotalCells(len) <= RawCells(len) + Word /\ Word \in Nat
        <5>1. len \in Nat
          OBVIOUS
        <5> QED
          BY <5>1, TotalFacts, NumberFacts
      <4> QED
        BY <1>1, <1>3, <2>1, <2>2, <2>3, <2>6, <2>7, <2>8, <4>1, <4>2
    <3>3. ASSUME k < j PROVE FALSE
      <4>1. o # p
        BY <1>2, <2>5, <2>6, <2>8, <3>3
      <4>2. p < o
        BY <2>8, <3>1, <4>1
      <4>3. Before(Got(p), Got(o))
        BY <2>5, <2>6, <2>8, <4>2 DEF OrderInv, Ordered
      <4> QED
        BY <1>2, <2>5, <2>6, <2>8, <3>3, <4>3 DEF Before
    <3> QED
      BY <1>2, <1>8, <2>3, <2>8, <3>2, <3>3
  <2> QED
    BY <2>9, <2>10
<1> QED
  <2>1. \/ Extract(unread) = Outcome("INCOMPLETE", 0, 0)
        \/ /\ SyncsIn(Avail(unread)) = {}
           /\ Extract(unread) = Outcome("SYNC_NOT_FOUND", Avail(unread) - 1, 0)
        \/ \E s \in SyncsIn(Avail(unread)) :
             /\ \A x \in SyncsIn(Avail(unread)) : s <= x
             /\ \/ Extract(unread) = Outcome("INCOMPLETE", s, 0)
                \/ /\ s + 3 <= Avail(unread) /\ At(s + 2).v \notin 1 .. MaxLen
                   /\ Extract(unread) = Outcome("INVALID_LEN", s + 2, 0)
                \/ /\ At(s + 2).v \in 1 .. MaxLen
                   /\ s + 2 + TotalCells(At(s + 2).v) <= Avail(unread)
                   /\ \A j \in Frames : ~ DecodesTo(j, s + 2, At(s + 2).v)
                   /\ Extract(unread) = Outcome("CRC_MISMATCH", s + 2, 0)
        \/ \E adv, j : Extract(unread) = Outcome("FRAME_OK", adv, j)
    BY <1>1, ExtractCases, Zenon
  <2>2. (\E adv, j : Extract(unread) = Outcome("FRAME_OK", adv, j))
           => Extract(unread).status = "FRAME_OK"
    BY DEF Outcome
  <2> QED
    BY <1>5, <1>7, <1>8, <2>1, <2>2, Zenon

LEMMA EndIntact ==
  ASSUME TypeInv, Inv, OrderInv, IntactInv, Slack * Word < 2 + RawCells(1), PollEnd
  PROVE  IntactInv'
<1>1. /\ UNCHANGED <<wireVars, gone>>
      /\ \/ /\ Extract(unread).status = "FRAME_OK"
            /\ Accept(Extract(unread).frame, SeqOf(Extract(unread).frame))
            /\ Extract(unread).frame \in Frames
         \/ Extract(unread).status # "FRAME_OK" /\ UNCHANGED delivered
  BY EndFacts
<1>2. /\ \A k \in Frames : Returned(k) => Returned(k)'
      /\ \A k \in Frames :
           Extract(unread).status = "FRAME_OK" /\ Extract(unread).frame = k => Returned(k)'
  <2>1. CASE Extract(unread).status = "FRAME_OK"
    <3>1. PICK j \in Frames : j = Extract(unread).frame /\ delivered' = Append(delivered, j)
      BY <1>1, <2>1 DEF Accept
    <3>2. delivered \in Seq(Frames)
      BY DEF TypeInv
    <3>3. /\ DOMAIN delivered = 1 .. Len(delivered) /\ Len(delivered) \in Nat
          /\ DOMAIN delivered' = 1 .. Len(delivered) + 1
          /\ delivered'[Len(delivered) + 1] = j
          /\ \A i \in 1 .. Len(delivered) : delivered'[i] = delivered[i]
      BY <3>1, <3>2, AppendProperties
    <3>4. ASSUME NEW k \in Frames, Returned(k) PROVE Returned(k)'
      <4>1. PICK i \in 1 .. Len(delivered) : delivered[i] = k
        BY <3>3, <3>4 DEF Returned
      <4>2. i \in DOMAIN delivered' /\ delivered'[i] = k
        BY <3>3, <4>1
      <4> QED
        BY <4>2 DEF Returned
    <3>5. Returned(j)'
      <4>1. Len(delivered) + 1 \in DOMAIN delivered'
        BY <3>3
      <4> QED
        BY <3>3, <4>1 DEF Returned
    <3> QED
      BY <3>1, <3>4, <3>5
  <2>2. CASE Extract(unread).status # "FRAME_OK"
    BY <1>1, <2>2 DEF Returned
  <2> QED
    BY <2>1, <2>2
<1>3. \A k \in Arrived : k \in Frames
  BY DEF Arrived
<1>4. ASSUME NEW k \in Arrived
      PROVE  Returned(k)' \/ (~ Returned(k) /\ Start(k) >= read')
  <2>1. CASE Returned(k)
    BY <1>2, <1>3, <2>1
  <2>2. CASE ~ Returned(k) /\ Start(k) < read'
    <3>1. Extract(unread).status = "FRAME_OK" /\ Extract(unread).frame = k
      BY <2>2, EndPasses
    <3> QED
      BY <1>2, <1>3, <3>1
  <2>3. Start(k) \in Nat /\ read' \in Nat
    <3>1. read \in Nat /\ Extract(unread).adv \in Nat /\ read' = read + Extract(unread).adv
      BY EndFacts, NumberFacts
    <3>2. read' \in Nat
      BY <3>1
    <3> QED
      BY <3>2, ArrivedFacts
  <2> QED
    BY <2>1, <2>2, <2>3
<1> QED
  BY <1>1, <1>4, PollIntact

LEMMA IntactInit == Init => IntactInv
<1> SUFFICES ASSUME Init PROVE IntactInv
  OBVIOUS
<1>1. Held = {}
  BY RxSizesAssumption DEF Init, Held, Shifted
<1>2. frame = 0 /\ ends = [k \in Frames |-> 0]
  BY DEF Init
<1>3. Arrived = {}
  BY <1>2, FrameFacts DEF Arrived
<1>4. EndsInv /\ Unread /\ Followed /\ Clear /\ HeadCells
  BY <1>1, <1>2, <1>3 DEF EndsInv, Unread, Followed, Clear, HeadCells
<1> QED
  BY <1>4 DEF IntactInv

LEMMA IntactKept ==
  ASSUME TypeInv, Inv, OrderInv, IntactInv, Slack * Word < 2 + RawCells(1), [Next]_vars
  PROVE  IntactInv'
<1>1. CASE UNCHANGED vars
  <2>1. UNCHANGED <<wireVars, gone, read, delivered>>
    BY <1>1 DEF vars, portVars
  <2>2. \A k \in Arrived : Returned(k)' \/ (~ Returned(k) /\ Start(k) >= read')
    BY <2>1 DEF IntactInv, Unread, Returned
  <2> QED
    BY <2>1, <2>2, PollIntact
<1> QED
  BY <1>1, WireIntact, BeginIntact, EndIntact DEF Next, Poll

\* A frame that arrived whole and was not overwritten before the port came to it
\* is returned once the port has moved past its end, whatever payloads and damage
\* look like, as long as in the middle of a poll fewer cells arrive than the
\* shortest frame has from its sync word to its CRC
\* (bmc_rx_extract_frame_from_ring).
THEOREM NothingSkipped ==
  ASSUME Slack * Word < 2 + RawCells(1)
  PROVE  Spec => []NothingIntactSkipped
<1>1. Inv /\ TypeInv /\ OrderInv /\ IntactInv /\ [Next]_vars => OrderInv' /\ IntactInv'
  BY OrderKept, IntactKept
<1>2. Inv /\ TypeInv /\ IntactInv => NothingIntactSkipped
  <2> SUFFICES ASSUME Inv, TypeInv, IntactInv,
                      NEW k \in Frames, ends[k] > 0, ends[k] <= read, k \notin gone
               PROVE  Returned(k)
    BY DEF NothingIntactSkipped, Returned
  <2>1. k < frame \/ (k = frame /\ pos >= EndOf(k))
    BY DEF IntactInv, EndsInv
  <2>2. /\ Lead < EndOf(k) /\ EndOf(k) \in Nat /\ Lead \in Nat /\ pos \in Nat
        /\ FrameCells(k) \in Nat /\ FrameCells(k) > 0 /\ k \in Nat /\ frame \in Nat
    <3>1. pos \in Nat /\ frame \in Nat
      BY CellTypes, NumberFacts
    <3>2. /\ Lead \in Nat /\ EndOf(k) = Lead + FrameCells(k) /\ EndOf(k) \in Nat /\ k \in Nat
          /\ FrameCells(k) \in Nat /\ RawOf(k) \in Nat /\ 2 + RawOf(k) < FrameCells(k)
      BY SpanFacts
    <3> QED
      BY <3>1, <3>2
  <2>3. k \in Arrived
    BY <2>1, <2>2 DEF Arrived
  <2>4. ends[k] = Start(k) + FrameCells(k)
    <3>1. CASE k = frame
      BY <2>1, <2>2, <2>3, <3>1 DEF IntactInv, EndsInv, End
    <3>2. CASE k # frame
      BY <2>2, <3>2 DEF Start, TypeInv
    <3> QED
      BY <3>1, <3>2
  <2>5. ~ (Start(k) >= read)
    <3>1. Start(k) \in Nat /\ read \in Nat
      BY <2>3, ArrivedFacts, NumberFacts
    <3> QED
      BY <2>2, <2>4, <3>1
  <2> QED
    BY <2>3, <2>5 DEF IntactInv, Unread
<1> QED
  BY TypeInvariance, OrderInit, IntactInit, <1>1, <1>2, PTL DEF Spec


-----------------------------------------------------------------------------
(* On a line that loses nothing, no frame is left behind.                  *)

\* On a line that loses nothing every cell of a frame is in its place, and the
\* others are blank.
Located ==
  \A p \in Held :
    IF Got(p).of = 0 THEN Got(p) = Blank
    ELSE /\ Got(p).of \in Arrived /\ Got(p).at <= FrameCells(Got(p).of)
         /\ p = Start(Got(p).of) + (Got(p).at - 1)

\* The frames follow each other, at most a postamble and a preamble apart.
After(k) == IF k = 1 THEN 0 ELSE End(k - 1) + Word
Spaced ==
  /\ frame = 0 => Shifted = 0
  /\ frame # 0 /\ pos <= Lead => Shifted <= After(frame) + pos
  /\ \A k \in Arrived : Start(k) <= After(k) + Lead
  /\ \A j, k \in Arrived : j < k => End(j) <= Start(k)

\* What was returned was read to its end.
ReadPast ==
  \A k \in Frames : Returned(k) => k \in Arrived /\ End(k) <= read

\* When a poll has found nothing more, what is not returned yet ends after all
\* that was written at its look at the counter.
Rested ==
  exhausted /\ pc = "idle" => \A k \in Arrived : Returned(k) \/ End(k) > seen * Word

LossInv == gone = {} => Located /\ Spaced /\ ReadPast /\ Rested

LEMMA AfterType ==
  ASSUME TypeInv, Inv, IntactInv, gone = {}, NEW k \in Frames, k <= frame
  PROVE  /\ After(k) \in Int
         /\ k # 1 => k - 1 \in Arrived /\ k - 1 \in Nat \ {0} /\ After(k) = End(k - 1) + Word
<1>1. Frames = 1 .. Len(Payloads) /\ Len(Payloads) \in Nat /\ Word \in Nat /\ frame \in Nat
  BY RxSizesAssumption, CellTypes DEF Frames
<1>2. CASE k = 1
  BY <1>2 DEF After
<1>3. CASE k # 1
  <2>1. PICK j \in Frames : j = k - 1 /\ j < frame /\ j \in Nat \ {0}
    BY <1>1, <1>3
  <2>2. j \in Arrived
    BY <2>1 DEF Arrived
  <2>3. End(j) \in Nat /\ After(k) = End(j) + Word
    BY <1>3, <2>1, <2>2, ArrivedFacts DEF After
  <2> QED
    BY <1>1, <2>1, <2>2, <2>3
<1> QED
  BY <1>2, <1>3

\* A padded frame of more payload is no shorter.
LEMMA TotalGrows ==
  ASSUME NEW a \in Nat, NEW b \in Nat, a <= b
  PROVE  TotalCells(a) <= TotalCells(b)
<1>1. Word \in Nat \ {0}
  BY RxSizesAssumption
<1>2. ASSUME NEW n \in Nat
      PROVE  /\ n \div Word \in Nat /\ n % Word \in 0 .. Word - 1
             /\ n = (n \div Word) * Word + (n % Word)
  <2>1. /\ n \div Word \in Nat /\ n % Word \in 0 .. Word - 1
        /\ n = Word * (n \div Word) + (n % Word)
    BY <1>1
  <2> QED
    BY <1>1, <2>1
<1>3. PICK x \in Nat, y \in Nat : x = 3 + a /\ y = 3 + b
  OBVIOUS
<1>4. PICK q \in Nat, r \in 0 .. Word - 1 : x = q * Word + r /\ r = x % Word
  BY <1>2
<1>5. PICK u \in Nat, v \in 0 .. Word - 1 : y = u * Word + v /\ v = y % Word
  BY <1>2
<1>6. TotalCells(a) = x + (Word - r) /\ TotalCells(b) = y + (Word - v)
  BY <1>3, <1>4, <1>5 DEF TotalCells, RawCells
<1>7. q * Word \in Nat /\ u * Word \in Nat
  BY <1>1
<1>8. q <= u
  <2>1. ASSUME u + 1 <= q PROVE FALSE
    <3>1. (u + 1) * Word <= q * Word
      BY <2>1, CellsGrow
    <3>2. (u + 1) * Word = u * Word + Word
      BY <1>1
    <3> QED
      BY <1>1, <1>3, <1>4, <1>5, <1>7, <3>1, <3>2
  <2> QED
    BY <2>1
<1>9. q * Word <= u * Word
  BY <1>8, CellsGrow
<1>10. PICK m \in Nat, n \in Nat : m = q * Word /\ n = u * Word
  BY <1>7
<1>11. x = m + r /\ y = n + v /\ m <= n /\ r \in Nat /\ v \in Nat /\ Word \in Nat
  BY <1>1, <1>4, <1>5, <1>9, <1>10
<1>12. TotalCells(a) = m + Word /\ TotalCells(b) = n + Word
  BY <1>6, <1>11
<1> QED
  BY <1>11, <1>12

-----------------------------------------------------------------------------
(* The wire.                                                               *)

\* The next cell is in its place.
LEMMA ShiftLoss ==
  ASSUME TypeInv, Inv, IntactInv, Located, Spaced, ReadPast, Rested, gone = {}, gone' = {},
         NEW c \in Cell, ShiftIn(c), c = NextCell, Sending, frame \in Frames,
         frame' = frame, pos' = pos + 1, UNCHANGED portVars,
         \A k \in Frames \ {frame} : ends'[k] = ends[k]
  PROVE  Located' /\ Spaced' /\ ReadPast' /\ Rested'
<1>1. /\ Shifted \in Nat /\ Shifted' = Shifted + 1 /\ frame \in Nat \ {0} /\ pos \in Nat
      /\ Lead \in Nat /\ Word \in Nat \ {0} /\ FrameCells(frame) \in Nat
      /\ FrameCells(frame) > 0 /\ EndOf(frame) = Lead + FrameCells(frame)
      /\ EndOf(frame) \in Nat
  <2>1. Shifted \in Nat /\ Shifted' = Shifted + 1 /\ pos \in Nat
    BY ShiftHeld, ShiftedFacts, NumberFacts
  <2>2. /\ FrameCells(frame) \in Nat /\ RawOf(frame) \in Nat /\ 2 + RawOf(frame) < FrameCells(frame)
        /\ EndOf(frame) = Lead + FrameCells(frame) /\ EndOf(frame) \in Nat
        /\ Lead \in Nat /\ Word \in Nat \ {0} /\ frame \in Nat \ {0}
    BY SpanFacts
  <2> QED
    BY <2>1, <2>2
<1>2. \A p \in Held' : \/ p = Shifted /\ Got(p)' = c
                       \/ p \in Held /\ p < Shifted /\ Got(p)' = Got(p)
  BY ShiftHeld
<1>3. UNCHANGED <<read, delivered, exhausted, pc, seen>>
      /\ \A k \in Frames : Returned(k)' = Returned(k)
  BY DEF portVars, Returned
<1>4. ASSUME NEW k \in Arrived'
      PROVE  /\ k \in Frames /\ k <= frame /\ k \in Nat \ {0}
             /\ k \in Arrived \/ (k = frame /\ pos = Lead /\ Start(k)' = Shifted)
             /\ k \in Arrived => Start(k)' = Start(k) /\ End(k)' = End(k)
             /\ FrameCells(k) \in Nat /\ FrameCells(k) > 0 /\ End(k)' = Start(k)' + FrameCells(k)
  <2>1. /\ k \in Frames /\ k <= frame
        /\ k # frame => k \in Arrived /\ Start(k)' = Start(k)
        /\ k = frame /\ pos > Lead => k \in Arrived /\ Start(k)' = Start(k)
        /\ k = frame /\ ~ (pos > Lead) => pos = Lead /\ Start(k)' = Shifted
    BY <1>1, StepArrived
  <2>2. k = frame /\ pos = Lead => k \notin Arrived
    BY <1>1 DEF Arrived
  <2>3. /\ FrameCells(k) \in Nat /\ k \in Nat \ {0} /\ RawOf(k) \in Nat
        /\ 2 + RawOf(k) < FrameCells(k)
    BY <2>1, SpanFacts
  <2>4. FrameCells(k) > 0
    BY <2>3
  <2>5. End(k)' = Start(k)' + FrameCells(k) /\ End(k) = Start(k) + FrameCells(k)
    BY DEF End
  <2> QED
    BY <1>1, <2>1, <2>2, <2>3, <2>4, <2>5
<1>5. \A k \in Arrived : k \in Arrived' /\ Start(k)' = Start(k) /\ End(k)' = End(k)
  <2>1. \A k \in Arrived : k \in Arrived'
    BY <1>1 DEF Arrived
  <2> QED
    BY <1>4, <2>1
<1>6. Located'
  <2> SUFFICES ASSUME NEW p \in Held', NEW g, g = Got(p)'
               PROVE  IF g.of = 0 THEN g = Blank
                      ELSE /\ g.of \in Arrived' /\ g.at <= FrameCells(g.of)
                           /\ p = Start(g.of)' + (g.at - 1)
    BY DEF Located, Start
  <2>1. CASE p = Shifted /\ g = c
    <3>1. CASE pos < Lead \/ pos >= EndOf(frame)
      <4>1. g = Blank
        BY <1>1, <2>1, <3>1, NextCellFacts
      <4> QED
        BY <4>1 DEF Blank
    <3>2. CASE pos >= Lead /\ pos < EndOf(frame)
      <4>1. g.of = frame /\ g.at = pos + 1 - Lead
        BY <1>1, <2>1, <3>2, NextCellFacts
      <4>2. frame \in Arrived'
        BY <1>1, <3>2 DEF Arrived
      <4>3. Start(frame)' = (Shifted + 1) - ((pos + 1) - Lead)
        BY <1>1 DEF Start
      <4>4. g.at = (pos + 1) - Lead
        BY <1>1, <4>1
      <4> QED
        BY <1>1, <2>1, <3>2, <4>1, <4>2, <4>3, <4>4
    <3> QED
      BY <1>1, <3>1, <3>2
  <2>2. CASE p \in Held /\ g = Got(p)
    <3>1. IF g.of = 0 THEN g = Blank
          ELSE /\ g.of \in Arrived /\ g.at <= FrameCells(g.of)
               /\ p = Start(g.of) + (g.at - 1)
      BY <2>2 DEF Located
    <3> QED
      BY <1>5, <3>1
  <2> QED
    BY <1>2, <2>1, <2>2
<1>7. Spaced'
  <2>1. \A k \in Frames : k <= frame => After(k)' = After(k)
    <3> SUFFICES ASSUME NEW k \in Frames, k <= frame PROVE After(k)' = After(k)
      OBVIOUS
    <3>1. k \in Nat \ {0} /\ (k # 1 => k - 1 \in Frames /\ k - 1 # frame)
      <4>1. Frames = 1 .. Len(Payloads) /\ Len(Payloads) \in Nat
        BY RxSizesAssumption DEF Frames
      <4> QED
        BY <1>1, <4>1
    <3>2. CASE k = 1
      BY <3>2 DEF After
    <3>3. CASE k # 1
      <4>1. PICK j \in Frames : j = k - 1 /\ j # frame
        BY <3>1, <3>3
      <4>2. End(j)' = End(j)
        BY <4>1 DEF End, Start
      <4> QED
        BY <3>3, <4>1, <4>2 DEF After
    <3> QED
      BY <3>2, <3>3
  <2>0. PICK f \in Frames : f = frame
    OBVIOUS
  <2>2. pos' <= Lead => Shifted' <= After(f)' + pos'
    <3> SUFFICES ASSUME pos + 1 <= Lead PROVE Shifted + 1 <= After(f)' + (pos + 1)
      BY <1>1
    <3>1. Shifted <= After(f) + pos
      BY <1>1, <2>0 DEF Spaced
    <3>2. After(f)' = After(f)
      BY <1>1, <2>0, <2>1
    <3>3. After(f) \in Int
      BY <1>1, <2>0, AfterType
    <3> QED
      BY <1>1, <3>1, <3>2, <3>3
  <2>3. ASSUME NEW k \in Arrived' PROVE Start(k)' <= After(k)' + Lead
    <3>1. CASE k \in Arrived
      BY <1>4, <2>1, <3>1 DEF Spaced
    <3>2. CASE k = frame /\ pos = Lead /\ Start(k)' = Shifted
      <4>1. Shifted <= After(k) + Lead
        BY <1>1, <3>2 DEF Spaced
      <4> QED
        BY <1>4, <2>1, <3>2, <4>1
    <3> QED
      BY <1>4, <3>1, <3>2
  <2>4. ASSUME NEW j \in Arrived', NEW k \in Arrived', j < k PROVE End(j)' <= Start(k)'
    <3>1. j # frame /\ j \in Arrived
      BY <1>1, <1>4, <2>4
    <3>2. CASE k \in Arrived
      BY <1>4, <2>4, <3>1, <3>2 DEF Spaced
    <3>3. CASE k = frame /\ pos = Lead /\ Start(k)' = Shifted
      <4>1. End(j) = Start(j) + FrameCells(j) /\ Sofar(j) = FrameCells(j)
            /\ Start(j) + Sofar(j) <= Shifted
        BY <3>1, ArrivedFacts DEF Sofar
      <4> QED
        BY <1>4, <3>1, <3>3, <4>1
    <3> QED
      BY <1>4, <3>2, <3>3
  <2> QED
    BY <1>1, <2>0, <2>2, <2>3, <2>4 DEF Spaced, After
<1>8. ReadPast'
  <2> SUFFICES ASSUME NEW k \in Frames, Returned(k)' PROVE k \in Arrived' /\ End(k)' <= read'
    BY DEF ReadPast
  <2>1. k \in Arrived /\ End(k) <= read
    BY <1>3 DEF ReadPast
  <2> QED
    BY <1>3, <1>5, <2>1
<1>9. Rested'
  <2> SUFFICES ASSUME exhausted, pc = "idle", NEW k \in Arrived', ~ Returned(k)'
               PROVE  End(k)' > seen * Word
    BY <1>3 DEF Rested
  <2>1. CASE k \in Arrived
    BY <1>3, <1>4, <2>1 DEF Rested
  <2>2. CASE k = frame /\ pos = Lead /\ Start(k)' = Shifted
    <3>1. seen * Word \in Nat /\ written * Word \in Nat /\ seen * Word <= written * Word
          /\ written * Word <= Shifted
      BY NumberFacts, ShiftedFacts
    <3> QED
      BY <1>1, <1>4, <2>2, <3>1
  <2> QED
    BY <1>4, <2>1, <2>2
<1> QED
  BY <1>6, <1>7, <1>8, <1>9

\* What was shifted in is in its place when the frames stay where they are.
LEMMA StayLocated ==
  ASSUME TypeInv, Inv, Located, UNCHANGED <<ring, isr, written>>,
         \A k \in Arrived : k \in Arrived' /\ Start(k)' = Start(k)
  PROVE  Located'
<1>1. Held' = Held /\ \A p \in Nat : Got(p)' = Got(p)
  BY DEF Held, Shifted, Got
<1>2. \A p \in Held : p \in Nat
  BY DEF Held
<1> SUFFICES ASSUME NEW p \in Held, NEW g, g = Got(p)
             PROVE  IF g.of = 0 THEN g = Blank
                    ELSE /\ g.of \in Arrived' /\ g.at <= FrameCells(g.of)
                         /\ p = Start(g.of)' + (g.at - 1)
  BY <1>1, <1>2 DEF Located, Start
<1>3. IF g.of = 0 THEN g = Blank
      ELSE /\ g.of \in Arrived /\ g.at <= FrameCells(g.of)
           /\ p = Start(g.of) + (g.at - 1)
  BY DEF Located
<1> QED
  BY <1>3

LEMMA SlipLoss ==
  ASSUME TypeInv, Inv, IntactInv, Located, Spaced, ReadPast, Rested, gone = {}, gone' = {}, Slip
  PROVE  Located' /\ Spaced' /\ ReadPast' /\ Rested'
<1>1. /\ Sending /\ frame \in Frames /\ pos \in Nat /\ pos < EndOf(frame)
      /\ frame' = frame /\ pos' = pos + 1 /\ gone' = gone \cup ({NextCell.of} \ {0})
      /\ UNCHANGED <<isr, ring, written, ends, portVars>>
  BY NumberFacts DEF Slip, Sending, TypeInv
<1>2. /\ Lead \in Nat /\ EndOf(frame) \in Nat /\ frame \in Nat \ {0} /\ Shifted \in Nat
      /\ Shifted' = Shifted /\ UNCHANGED <<read, delivered, exhausted, pc, seen>>
  BY <1>1, SpanFacts, ShiftedFacts DEF Shifted, portVars
<1>3. pos < Lead
  <2>1. ASSUME pos >= Lead PROVE FALSE
    <3>1. NextCell.of = frame
      BY <1>1, <2>1, NextCellFacts
    <3> QED
      BY <1>1, <1>2, <3>1
  <2> QED
    BY <1>1, <1>2, <2>1
<1>4. Arrived' = Arrived /\ \A k \in Arrived : k \in Frames /\ k < frame /\ k \in Nat
  BY <1>1, <1>2, <1>3, FrameFacts DEF Arrived
<1>5. \A k \in Frames : k # frame => Start(k)' = Start(k) /\ End(k)' = End(k)
  BY <1>1 DEF Start, End
<1>6. \A k \in Frames : k <= frame => After(k)' = After(k) /\ After(k) \in Int
  <2> SUFFICES ASSUME NEW k \in Frames, k <= frame PROVE After(k)' = After(k) /\ After(k) \in Int
    OBVIOUS
  <2>1. After(k) \in Int /\ (k # 1 => k - 1 \in Arrived)
    BY AfterType
  <2>2. CASE k = 1
    BY <2>1, <2>2 DEF After
  <2>3. CASE k # 1
    <3>1. PICK j \in Arrived : j = k - 1
      BY <2>1, <2>3
    <3>2. End(j)' = End(j)
      BY <1>2, <1>4, <1>5
    <3> QED
      BY <2>1, <2>3, <3>1, <3>2 DEF After
  <2> QED
    BY <2>2, <2>3
<1>7. Located'
  BY <1>1, <1>2, <1>4, <1>5, StayLocated
<1>8. Spaced'
  <2>0. PICK f \in Frames : f = frame
    BY <1>1
  <2>1. Shifted' <= After(f)' + pos'
    <3>1. Shifted <= After(f) + pos
      <4>1. frame # 0 /\ pos <= Lead
        BY <1>1, <1>2, <1>3
      <4> QED
        BY <2>0, <4>1 DEF Spaced
    <3> QED
      BY <1>1, <1>2, <1>6, <2>0, <3>1
  <2>2. \A k \in Arrived' : Start(k)' <= After(k)' + Lead
    BY <1>2, <1>4, <1>5, <1>6 DEF Spaced
  <2>3. \A j, k \in Arrived' : j < k => End(j)' <= Start(k)'
    BY <1>2, <1>4, <1>5 DEF Spaced
  <2> QED
    BY <1>1, <1>2, <2>0, <2>1, <2>2, <2>3 DEF Spaced, After
<1>9. ReadPast'
  <2> SUFFICES ASSUME NEW k \in Frames, Returned(k)' PROVE k \in Arrived' /\ End(k)' <= read'
    BY DEF ReadPast
  <2>1. k \in Arrived /\ End(k) <= read
    BY <1>2 DEF ReadPast, Returned
  <2> QED
    BY <1>2, <1>4, <1>5, <2>1
<1>10. Rested'
  <2> SUFFICES ASSUME exhausted, pc = "idle", NEW k \in Arrived', ~ Returned(k)'
               PROVE  End(k)' > seen * Word
    BY <1>2 DEF Rested
  <2>1. ~ Returned(k)
    BY <1>2 DEF Returned
  <2> QED
    BY <1>2, <1>4, <1>5, <2>1 DEF Rested
<1> QED
  BY <1>7, <1>8, <1>9, <1>10

LEMMA StartLoss ==
  ASSUME TypeInv, Inv, IntactInv, Located, Spaced, ReadPast, Rested, gone = {}, StartFrame
  PROVE  Located' /\ Spaced' /\ ReadPast' /\ Rested'
<1>1. /\ frame' = frame + 1 /\ pos' = 0 /\ Shifted' = Shifted
      /\ UNCHANGED <<isr, ring, written, ends, read, delivered, gone>>
      /\ frame \in Nat /\ pos \in Nat /\ Lead \in Nat /\ Word \in Nat \ {0}
      /\ frame + 1 \in Frames /\ (frame # 0 => frame \in Frames)
      /\ frame # 0 => pos = EndOf(frame) + Word /\ EndOf(frame) \in Nat /\ Lead < EndOf(frame)
  BY StartFacts
<1>2. UNCHANGED <<exhausted, pc, seen>> /\ Shifted \in Nat
  BY ShiftedFacts DEF StartFrame, portVars
<1>3. Arrived' = Arrived
  <2>1. \A k \in Arrived' : k \in Arrived
    BY StartFacts
  <2>2. \A k \in Arrived : k \in Arrived'
    BY <1>1, FrameFacts DEF Arrived
  <2> QED
    BY <2>1, <2>2
<1>4. \A k \in Arrived : k \in Frames /\ Start(k)' = Start(k) /\ End(k)' = End(k)
  <2>1. \A k \in Arrived : Start(k)' = Start(k)
    BY <1>3, StartFacts
  <2> QED
    BY <2>1 DEF End, Arrived
<1>5. ASSUME NEW k \in Frames, k <= frame PROVE After(k)' = After(k)
  <2>1. k # 1 => k - 1 \in Arrived
    BY <1>5, AfterType
  <2>2. CASE k = 1
    BY <2>2 DEF After
  <2>3. CASE k # 1
    <3>1. PICK j \in Arrived : j = k - 1
      BY <2>1, <2>3
    <3>2. End(j)' = End(j)
      BY <1>4
    <3> QED
      BY <2>3, <3>1, <3>2 DEF After
  <2> QED
    BY <2>2, <2>3
<1>6. \A k \in Arrived : k <= frame
  BY <1>1, FrameFacts DEF Arrived
<1>7. Located'
  BY <1>1, <1>3, <1>4, StayLocated
<1>8. Spaced'
  <2>0. PICK f \in Frames : f = frame + 1 /\ f \in Nat \ {0}
    BY <1>1
  <2>1. Shifted' <= After(f)' + pos'
    <3>1. CASE frame = 0
      <4>1. Shifted = 0
        BY <3>1 DEF Spaced
      <4>2. After(f)' = 0
        BY <2>0, <3>1 DEF After
      <4> QED
        BY <1>1, <4>1, <4>2
    <3>2. CASE frame # 0
      <4>1. PICK j \in Frames : j = frame /\ j = f - 1 /\ f # 1
        BY <1>1, <2>0, <3>2
      <4>2. j \in Arrived /\ FrameCells(j) \in Nat /\ EndOf(j) = Lead + FrameCells(j)
        BY <1>1, <3>2, <4>1, SpanFacts DEF Arrived
      <4>3. End(j) = Shifted - (pos - Lead) + FrameCells(j)
        BY <4>1 DEF End, Start
      <4>4. End(j)' = End(j)
        BY <1>4, <4>2
      <4>5. After(f)' = End(j)' + Word
        BY <4>1 DEF After
      <4>6. pos = EndOf(j) + Word
        BY <1>1, <3>2, <4>1
      <4> QED
        BY <1>1, <1>2, <4>2, <4>3, <4>4, <4>5, <4>6
    <3> QED
      BY <3>1, <3>2
  <2>2. \A k \in Arrived' : Start(k)' <= After(k)' + Lead
    BY <1>3, <1>4, <1>5, <1>6 DEF Spaced
  <2>3. \A j, k \in Arrived' : j < k => End(j)' <= Start(k)'
    BY <1>3, <1>4 DEF Spaced
  <2> QED
    BY <1>1, <2>0, <2>1, <2>2, <2>3 DEF Spaced, After
<1>9. ReadPast'
  <2> SUFFICES ASSUME NEW k \in Frames, Returned(k)' PROVE k \in Arrived' /\ End(k)' <= read'
    BY DEF ReadPast
  <2>1. k \in Arrived /\ End(k) <= read
    BY <1>1 DEF ReadPast, Returned
  <2> QED
    BY <1>1, <1>3, <1>4, <2>1
<1>10. Rested'
  <2> SUFFICES ASSUME exhausted, pc = "idle", NEW k \in Arrived', ~ Returned(k)'
               PROVE  End(k)' > seen * Word
    BY <1>2 DEF Rested
  <2>1. ~ Returned(k)
    BY <1>1 DEF Returned
  <2> QED
    BY <1>3, <1>4, <2>1 DEF Rested
<1> QED
  BY <1>7, <1>8, <1>9, <1>10

LEMMA WireLoss ==
  ASSUME TypeInv, Inv, IntactInv, Located, Spaced, ReadPast, Rested, gone = {}, gone' = {}, Wire
  PROVE  Located' /\ Spaced' /\ ReadPast' /\ Rested'
<1>1. CASE Transmit
  <2>1. Sending /\ frame \in Frames /\ pos \in Nat
    BY <1>1, NumberFacts DEF Transmit, Sending, TypeInv
  <2>2. PICK c \in Cell : c = NextCell
    BY <2>1, NextCellFacts
  <2>3. ShiftIn(c) /\ frame' = frame /\ pos' = pos + 1 /\ UNCHANGED portVars
    BY <1>1, <2>2 DEF Transmit
  <2>4. \A k \in Frames \ {frame} : ends'[k] = ends[k]
    BY <1>1 DEF Transmit, TypeInv
  <2> QED
    BY <2>1, <2>2, <2>3, <2>4, ShiftLoss
<1>2. CASE Damage
  BY <1>2 DEF Damage
<1> QED
  BY <1>1, <1>2, StartLoss, SlipLoss DEF Wire

-----------------------------------------------------------------------------
(* The polls.                                                              *)

LEMMA PollStay ==
  ASSUME TypeInv, Inv, IntactInv, Located, Spaced, UNCHANGED wireVars, gone' = gone
  PROVE  /\ Located' /\ Spaced' /\ Arrived' = Arrived
         /\ \A k \in Arrived : k \in Frames /\ Start(k)' = Start(k) /\ End(k)' = End(k)
<1>1. UNCHANGED <<frame, pos, ring, isr, written, ends>> /\ Shifted' = Shifted
  BY DEF wireVars, Shifted
<1>2. Arrived' = Arrived /\ \A k \in Arrived : k \in Frames
  BY <1>1 DEF Arrived
<1>3. \A k \in Int : Start(k)' = Start(k) /\ End(k)' = End(k) /\ After(k)' = After(k)
  <2> SUFFICES ASSUME NEW k \in Int
               PROVE  Start(k)' = Start(k) /\ End(k)' = End(k) /\ After(k)' = After(k)
    OBVIOUS
  <2>1. \A j \in Int : End(j)' = End(j)
    BY <1>1 DEF End, Start
  <2> QED
    BY <1>1, <2>1 DEF Start, After
<1>4. \A k \in Arrived : k \in Int
  BY <1>2, FrameFacts
<1>5. Located'
  BY <1>1, <1>2, <1>3, <1>4, StayLocated
<1>6. Spaced'
  <2>0. PICK f \in Int : f = frame
    BY CellTypes
  <2>1. f # 0 /\ pos <= Lead => Shifted <= After(f)' + pos
    BY <1>3, <2>0 DEF Spaced
  <2>2. \A k \in Arrived' : Start(k)' <= After(k)' + Lead
    BY <1>2, <1>3, <1>4 DEF Spaced
  <2>3. \A j, k \in Arrived' : j < k => End(j)' <= Start(k)'
    BY <1>2, <1>3, <1>4 DEF Spaced
  <2>4. frame = 0 => Shifted = 0
    BY DEF Spaced
  <2> QED
    BY <1>1, <2>0, <2>1, <2>2, <2>3, <2>4 DEF Spaced, After
<1> QED
  BY <1>2, <1>3, <1>4, <1>5, <1>6

\* A sync word before the first frame that is not returned is none: what lies
\* there is blank or was read.
LEMMA NoSyncBefore ==
  ASSUME TypeInv, Inv, OrderInv, IntactInv, Located, Spaced, ReadPast, gone = {},
         NEW o \in Arrived, \A j \in Arrived : Returned(j) \/ o <= j,
         NEW p \in Held, read <= p, p < Start(o)
  PROVE  Got(p) = Blank
<1> SUFFICES ASSUME Got(p).of # 0 PROVE FALSE
  BY DEF Located
<1>1. PICK j \in Arrived : /\ j = Got(p).of /\ Got(p).at <= FrameCells(j)
                           /\ p = Start(j) + (Got(p).at - 1)
  BY DEF Located
<1>2. /\ Start(j) \in Nat /\ FrameCells(j) \in Nat /\ End(j) = Start(j) + FrameCells(j)
      /\ j \in Nat /\ j \in Frames
  <2>1. j \in Frames /\ Start(j) \in Nat
    BY ArrivedFacts
  <2> QED
    BY <2>1, SpanFacts DEF End
<1>3. /\ Start(o) \in Nat /\ FrameCells(o) \in Nat /\ End(o) = Start(o) + FrameCells(o)
      /\ o \in Nat
  <2>1. o \in Frames /\ Start(o) \in Nat
    BY ArrivedFacts
  <2> QED
    BY <2>1, SpanFacts DEF End
<1>4. Got(p).at \in Nat /\ Got(p).at >= 1 /\ p \in Nat /\ read \in Nat
  <2>1. Got(p).at \in Nat /\ p \in Nat /\ read \in Nat
    BY CellTypes, ShiftedFacts, NumberFacts
  <2>2. Got(p).at >= 1
    BY DEF OrderInv, SentCells
  <2> QED
    BY <2>1, <2>2
<1>5. CASE j < o
  <2>1. Returned(j)
    BY <1>2, <1>3, <1>5
  <2>2. End(j) <= read
    BY <1>2, <2>1 DEF ReadPast
  <2> QED
    BY <1>1, <1>2, <1>4, <2>2
<1>6. CASE j = o
  BY <1>1, <1>3, <1>4, <1>6
<1>7. CASE o < j
  <2>1. End(o) <= Start(j)
    BY <1>7 DEF Spaced
  <2> QED
    BY <1>1, <1>2, <1>3, <1>4, <2>1
<1> QED
  BY <1>2, <1>3, <1>5, <1>6, <1>7

\* A poll that finds nothing more leaves no frame that ends before its look at the
\* counter.
LEMMA NothingFound ==
  ASSUME TypeInv, Inv, OrderInv, IntactInv, Located, Spaced, ReadPast, gone = {},
         Word + Lead + 2 + TotalCells(MaxLen) <= Window, Window + Slack * Word <= Ring,
         PollEnd, Extract(unread).status \in {"SYNC_NOT_FOUND", "INCOMPLETE"},
         NEW k \in Arrived, ~ Returned(k), End(k) <= seen * Word
  PROVE  FALSE
<1>1. PICK o \in Arrived : ~ Returned(o) /\ \A j \in Arrived : Returned(j) \/ o <= j
  <2> DEFINE left == {j \in Arrived : ~ Returned(j)}
  <2>1. left \in SUBSET Nat /\ left # {}
    <3>1. \A j \in Arrived : j \in Nat
      BY ArrivedFacts
    <3> QED
      BY <3>1
  <2>2. PICK o \in left : \A j \in left : o <= j
    BY <2>1, LeastExists
  <2> QED
    BY <2>2
<1>2. /\ pc = "extract" /\ read \in Nat /\ unread \in Nat
  BY NumberFacts DEF PollEnd
<1>3. /\ Word \in Nat /\ Lead \in Nat /\ Window \in Nat /\ Ring \in Nat /\ Slack \in Nat
      /\ MaxLen \in Nat /\ 1 <= MaxLen
  BY RxSizesAssumption
<1>4. /\ Avail(unread) = IF unread < Window THEN unread ELSE Window
      /\ Avail(unread) \in Nat
  BY <1>2, <1>3 DEF Avail
<1>5. PICK z \in Nat : z = seen * Word /\ read + unread = z
  BY <1>2, NumberFacts DEF OrderInv, Looking
<1>6. PICK w \in Nat : w = written * Word /\ z <= w
  BY <1>5, NumberFacts
<1>7. /\ o \in Frames /\ o \in Nat \ {0} /\ Start(o) \in Nat /\ FrameCells(o) \in Nat
      /\ End(o) = Start(o) + FrameCells(o) /\ Start(o) >= read /\ o <= frame
      /\ k \in Nat /\ Start(k) \in Nat /\ FrameCells(k) \in Nat
      /\ End(k) = Start(k) + FrameCells(k) /\ o <= k
  <2>1. /\ o \in Frames /\ Start(o) \in Nat /\ o <= frame /\ k \in Frames /\ Start(k) \in Nat
    BY ArrivedFacts
  <2>2. o <= k /\ Start(o) >= read
    BY <1>1 DEF IntactInv, Unread
  <2> QED
    BY <2>1, <2>2, SpanFacts DEF End
<1>8. Start(o) <= read + Word + Lead
  <2>1. Start(o) <= After(o) + Lead /\ After(o) \in Int
    BY <1>7, AfterType DEF Spaced
  <2>2. After(o) <= read + Word
    <3>1. CASE o = 1
      BY <1>2, <1>3, <3>1 DEF After
    <3>2. CASE o # 1
      <4>1. o - 1 \in Arrived /\ o - 1 \in Nat \ {0} /\ After(o) = End(o - 1) + Word
        BY <1>7, <3>2, AfterType
      <4>2. PICK j \in Arrived : j = o - 1 /\ j < o
        BY <1>7, <4>1
      <4>3. Returned(j) /\ j \in Frames /\ j \in Nat
        BY <1>1, <1>7, <4>2, ArrivedFacts
      <4>4. End(j) <= read /\ End(j) \in Nat
        BY <4>3, ArrivedFacts DEF ReadPast
      <4> QED
        BY <1>2, <1>3, <4>1, <4>2, <4>4
    <3> QED
      BY <3>1, <3>2
  <2> QED
    BY <1>2, <1>7, <1>3, <2>1, <2>2
<1>9. End(o) <= z
  <2>0. End(k) <= z
    BY <1>5
  <2>1. CASE o = k
    BY <2>0, <2>1
  <2>2. CASE o < k
    <3>1. End(o) <= Start(k)
      BY <2>2 DEF Spaced
    <3> QED
      BY <1>7, <2>0, <3>1
  <2> QED
    BY <1>7, <2>1, <2>2
<1>10. PICK t \in Nat : Start(o) = read + t /\ t <= Word + Lead
  <2>1. Start(o) - read \in Nat /\ Start(o) = read + (Start(o) - read)
        /\ Start(o) - read <= Word + Lead
    BY <1>2, <1>7, <1>8, <1>3
  <2> QED
    BY <2>1
<1>11. PICK n \in 1 .. MaxLen : n = Len(Payloads[o])
  BY <1>7, FrameFacts
<1>12. PICK T \in Nat : T = TotalCells(n) /\ T > 4
  <2>1. n \in Nat /\ n >= 1
    OBVIOUS
  <2>2. TotalCells(n) \in Nat /\ RawCells(n) = n + 3 /\ RawCells(n) < TotalCells(n)
    BY <2>1, TotalFacts
  <2> QED
    BY <2>1, <2>2
<1>13. FrameCells(o) = 2 + T
  BY <1>7, <1>11, <1>12, SpanFacts
<1>14. PICK S \in Nat : S = TotalCells(1) /\ S <= T
  <2>1. n \in Nat /\ 1 <= n /\ 1 \in Nat
    OBVIOUS
  <2> QED
    BY <1>12, <2>1, TotalGrows, TotalFacts
<1>15. PICK M \in Nat : M = TotalCells(MaxLen)
  BY <1>3, TotalFacts
<1>16. Word + Lead + 2 + M <= Window
  BY <1>15
<1>17. ASSUME NEW m \in 1 .. MaxLen
      PROVE  TotalCells(m) \in Nat /\ TotalCells(m) <= M
  <2>1. m \in Nat /\ m <= MaxLen
    BY <1>3
  <2> QED
    BY <1>3, <1>15, <2>1, TotalGrows, TotalFacts
<1>18. t + 2 + T <= unread /\ t + 2 + T <= Window /\ t + 2 + T <= Avail(unread)
  <2>1. t + 2 + T <= unread
    BY <1>2, <1>7, <1>9, <1>10, <1>5, <1>13
  <2>2. T <= M
    BY <1>17, <1>12
  <2>3. t + 2 + T <= Window
    BY <1>10, <1>3, <1>16, <2>2
  <2> QED
    BY <1>4, <2>1, <2>3
<1>19. t \in SyncsIn(Avail(unread))
  <2>1. t + 1 < Avail(unread)
    BY <1>18, <1>4
  <2> QED
    BY <1>1, <1>2, <1>10, <2>1, SyncFound
<1>20. ~ (unread < 2 + TotalCells(1)) /\ unread \in Nat
  BY <1>2, <1>18, <1>14
<1>21. PICK s \in SyncsIn(Avail(unread)) :
         /\ \A x \in SyncsIn(Avail(unread)) : s <= x
         /\ \/ s + 3 > Avail(unread)
            \/ /\ At(s + 2).v \in 1 .. MaxLen
               /\ s + 2 + TotalCells(At(s + 2).v) > Avail(unread)
  <2>1. \A st, adv, j : Extract(unread) = Outcome(st, adv, j)
                          => st \in {"SYNC_NOT_FOUND", "INCOMPLETE"}
    BY DEF Outcome
  <2>2. /\ "INVALID_LEN" \notin {"SYNC_NOT_FOUND", "INCOMPLETE"}
        /\ "CRC_MISMATCH" \notin {"SYNC_NOT_FOUND", "INCOMPLETE"}
        /\ "FRAME_OK" \notin {"SYNC_NOT_FOUND", "INCOMPLETE"}
    OBVIOUS
  <2>3. ~ (unread < 2 + TotalCells(1)) /\ SyncsIn(Avail(unread)) # {}
    BY <1>19, <1>20
  <2> QED
    BY <1>20, <2>1, <2>2, <2>3, ExtractCases, Zenon
<1>22. s \in Nat /\ s <= t /\ s + 1 < Avail(unread) /\ At(s).v = SyncHi
  BY <1>19, <1>21, <1>4 DEF SyncsIn
<1>23. PICK len \in 1 .. MaxLen : len = At(s + 2).v /\ s + 2 + TotalCells(len) > Avail(unread)
  <2>1. ~ (s + 3 > Avail(unread))
    BY <1>18, <1>22, <1>4, <1>12
  <2> QED
    BY <1>21, <2>1
<1>24. PICK L \in Nat : L = TotalCells(len) /\ L <= M /\ s + 2 + L > Avail(unread)
  BY <1>17, <1>23
<1>25. CASE s = t
  <2>1. 2 \in Nat /\ 2 < FrameCells(o) /\ t + 2 < unread
    BY <1>2, <1>18, <1>12, <1>13
  <2>2. At(t + 2).v = n
    <3>1. At(t + 2).v = Len(Payloads[o])
      BY <1>1, <1>2, <1>10, <2>1, LookedFor
    <3> QED
      BY <1>11, <3>1
  <2>3. L = T
    BY <1>23, <1>25, <1>12, <1>24, <2>2
  <2> QED
    BY <1>18, <1>25, <1>4, <1>24, <2>3
<1>26. read + s < w /\ w <= Shifted /\ Shifted \in Nat
  <2>1. w <= Shifted /\ Shifted \in Nat
    BY <1>6, ShiftedFacts
  <2> QED
    BY <1>2, <1>18, <1>22, <1>5, <1>6, <2>1
<1>27. CASE s # t /\ read + s \in Held
  <2>1. PICK p \in Held : p = read + s
    BY <1>27
  <2>2. read <= p /\ p < Start(o)
    BY <1>2, <1>10, <1>22, <1>27, <2>1
  <2>3. Got(p) = Blank
    BY <1>1, <2>2, NoSyncBefore
  <2>4. At(s) = Got(p)
    <3>1. read + s < written * Word
      BY <1>6, <1>26
    <3> QED
      BY <1>22, <1>27, <2>1, <3>1, LookedAt
  <2> QED
    BY <1>22, <2>3, <2>4 DEF Blank, SyncHi, Gap
<1>28. CASE s # t /\ read + s \notin Held
  \* The place was overwritten, so that the ring is full and the window too.
  <2>0. PICK x \in Nat : x = Slack * Word /\ Window + x <= Ring
    BY <1>3
  <2>1. w <= z + x
    <3>1. written \in Nat /\ seen \in Nat /\ seen <= written /\ written - seen <= Slack
      BY <1>2, NumberFacts DEF OrderInv, Looking
    <3>2. (written - seen) * Word <= Slack * Word /\ written - seen \in Nat
      BY <1>3, <3>1, CellsGrow
    <3>3. (written - seen) * Word = written * Word - seen * Word
      BY <1>3, <3>1
    <3> QED
      BY <1>5, <1>6, <2>0, <3>2, <3>3
  <2>2. read + s < w - Ring
    <3>1. read + s \in Nat /\ read + s < Shifted
      BY <1>2, <1>22, <1>26
    <3>2. ~ (read + s >= written * Word - Ring)
      BY <1>28, <3>1, ShiftedFacts
    <3> QED
      BY <1>3, <1>6, <3>1, <3>2
  <2>3. unread > Window
    BY <1>2, <1>22, <1>3, <1>5, <2>0, <2>1, <2>2
  <2>4. s + 2 + L <= Window
    BY <1>10, <1>22, <1>3, <1>16, <1>24
  <2>5. Avail(unread) = Window
    BY <1>2, <1>3, <1>4, <2>3
  <2> QED
    BY <1>22, <1>3, <1>24, <2>4, <2>5
<1> QED
  BY <1>25, <1>27, <1>28

LEMMA BeginLoss ==
  ASSUME TypeInv, Inv, IntactInv, Located, Spaced, ReadPast, gone = {}, gone' = {}, PollBegin
  PROVE  Located' /\ Spaced' /\ ReadPast' /\ Rested'
<1>1. /\ pc' = "extract" /\ UNCHANGED <<wireVars, delivered>> /\ gone' = gone
      /\ read \in Nat /\ read' \in Nat /\ read <= read'
  BY BeginFacts, NumberFacts
<1>2. /\ Located' /\ Spaced' /\ Arrived' = Arrived
      /\ \A k \in Arrived : k \in Frames /\ Start(k)' = Start(k) /\ End(k)' = End(k)
  BY <1>1, PollStay
<1>3. ReadPast'
  <2> SUFFICES ASSUME NEW k \in Frames, Returned(k)' PROVE k \in Arrived' /\ End(k)' <= read'
    BY DEF ReadPast
  <2>1. k \in Arrived /\ End(k) <= read
    BY <1>1 DEF ReadPast, Returned
  <2>2. End(k) \in Nat
    BY <2>1, ArrivedFacts
  <2> QED
    BY <1>1, <1>2, <2>1, <2>2
<1>4. Rested'
  BY <1>1 DEF Rested
<1> QED
  BY <1>2, <1>3, <1>4

\* The frame that a poll returns was read to its end, padding included.
LEMMA ReturnedEnds ==
  ASSUME TypeInv, Inv, OrderInv, IntactInv, Located, Slack * Word < 2 + RawCells(1), PollEnd,
         Extract(unread).status = "FRAME_OK"
  PROVE  \E k \in Arrived : k = Extract(unread).frame /\ End(k) = read'
<1>1. PICK k \in Frames, len \in 1 .. MaxLen, s \in SyncsIn(Avail(unread)) :
        /\ s \in Nat /\ RawCells(len) \in Nat
        /\ TotalCells(len) \in Nat /\ RawCells(len) < TotalCells(len)
        /\ s + 2 + TotalCells(len) <= Avail(unread)
        /\ At(s + 2).v = len
        /\ Extract(unread) = Outcome("FRAME_OK", s + 2 + TotalCells(len), k)
        /\ read + (s + 2) \in Held
        /\ Got(read + (s + 2)).of = k /\ Got(read + (s + 2)).at = 3
  BY FrameFound, Zenon
<1>2. /\ pc = "extract" /\ read \in Nat /\ unread \in Nat /\ read' = read + Extract(unread).adv
      /\ Avail(unread) \in Nat /\ Avail(unread) <= unread
  <2>1. pc = "extract" /\ read \in Nat /\ unread \in Nat /\ read' = read + Extract(unread).adv
    BY EndFacts, NumberFacts
  <2>2. Window \in Nat
    BY RxSizesAssumption
  <2> QED
    BY <2>1, <2>2 DEF Avail
<1>3. Extract(unread).adv = s + 2 + TotalCells(len) /\ Extract(unread).frame = k
  BY <1>1 DEF Outcome
<1>4. PICK p \in Held : p = read + (s + 2) /\ Got(p).of = k /\ Got(p).at = 3
  BY <1>1
<1>5. k # 0 /\ p \in Nat
  BY <1>4, FrameFacts, ShiftedFacts
<1>6. k \in Arrived /\ p = Start(k) + (3 - 1)
  BY <1>4, <1>5 DEF Located
<1>7. Got(p) = At(s + 2)
  <2>1. read + (s + 2) < written * Word
    <3>1. read + unread <= seen * Word /\ seen * Word <= written * Word
          /\ seen * Word \in Nat /\ written * Word \in Nat
      BY NumberFacts
    <3>2. s + 2 < unread
      BY <1>1, <1>2
    <3> QED
      BY <1>1, <1>2, <3>1, <3>2
  <2> QED
    BY <1>1, <1>4, <2>1, LookedAt
<1>8. len = Len(Payloads[k])
  BY <1>1, <1>4, <1>5, <1>7 DEF IntactInv, HeadCells
<1>9. FrameCells(k) = 2 + TotalCells(len)
  BY <1>8, SpanFacts
<1>10. End(k) = Start(k) + FrameCells(k) /\ Start(k) \in Nat
  BY <1>6, ArrivedFacts
<1>11. End(k) = read'
  <2>1. PICK T \in Nat : T = TotalCells(len)
    BY <1>1
  <2>2. Start(k) + 2 = read + (s + 2)
    BY <1>4, <1>6, <1>10
  <2>3. read' = read + (s + 2 + T) /\ End(k) = Start(k) + (2 + T)
    BY <1>2, <1>3, <1>9, <1>10, <2>1
  <2> QED
    BY <1>1, <1>2, <1>10, <2>2, <2>3
<1> QED
  BY <1>3, <1>6, <1>11

LEMMA EndLoss ==
  ASSUME TypeInv, Inv, OrderInv, IntactInv, Located, Spaced, ReadPast, gone = {}, gone' = {},
         Slack * Word < 2 + RawCells(1),
         Word + Lead + 2 + TotalCells(MaxLen) <= Window, Window + Slack * Word <= Ring,
         PollEnd
  PROVE  Located' /\ Spaced' /\ ReadPast' /\ Rested'
<1>1. /\ UNCHANGED <<wireVars, gone, seen>> /\ read \in Nat /\ read' \in Nat /\ read <= read'
      /\ exhausted' = (Extract(unread).status \in {"SYNC_NOT_FOUND", "INCOMPLETE"})
  <2>1. /\ UNCHANGED <<wireVars, gone, seen>> /\ read \in Nat
        /\ Extract(unread).adv \in Nat /\ read' = read + Extract(unread).adv
        /\ exhausted' = (Extract(unread).status \in {"SYNC_NOT_FOUND", "INCOMPLETE"})
    BY EndFacts, NumberFacts
  <2>2. read' \in Nat /\ read <= read'
    BY <2>1
  <2> QED
    BY <2>1, <2>2
<1>2. /\ Located' /\ Spaced' /\ Arrived' = Arrived
      /\ \A k \in Arrived : k \in Frames /\ Start(k)' = Start(k) /\ End(k)' = End(k)
  BY <1>1, PollStay
<1>3. ASSUME NEW k \in Frames, Returned(k)'
      PROVE  Returned(k) \/ (k \in Arrived /\ End(k) = read')
  <2>1. CASE Extract(unread).status = "FRAME_OK"
    <3>1. PICK j \in Arrived : j = Extract(unread).frame /\ End(j) = read'
      BY <2>1, ReturnedEnds
    <3>2. delivered' = Append(delivered, j)
      BY <2>1, <3>1, EndFacts DEF Accept
    <3>3. delivered \in Seq(Frames) /\ j \in Frames
      BY <1>2 DEF TypeInv
    <3>4. /\ DOMAIN delivered = 1 .. Len(delivered) /\ Len(delivered) \in Nat
          /\ DOMAIN delivered' = 1 .. Len(delivered) + 1
          /\ delivered'[Len(delivered) + 1] = j
          /\ \A i \in 1 .. Len(delivered) : delivered'[i] = delivered[i]
      BY <3>2, <3>3, AppendProperties
    <3>5. PICK i \in 1 .. Len(delivered) + 1 : delivered'[i] = k
      BY <1>3, <3>4 DEF Returned
    <3>6. CASE i = Len(delivered) + 1
      BY <3>1, <3>4, <3>5, <3>6
    <3>7. CASE i # Len(delivered) + 1
      <4>1. i \in DOMAIN delivered /\ delivered[i] = k
        BY <3>4, <3>5, <3>7
      <4> QED
        BY <4>1 DEF Returned
    <3> QED
      BY <3>6, <3>7
  <2>2. CASE Extract(unread).status # "FRAME_OK"
    <3>1. delivered' = delivered
      BY <2>2, EndFacts
    <3> QED
      BY <1>3, <3>1 DEF Returned
  <2> QED
    BY <2>1, <2>2
<1>4. ReadPast'
  <2> SUFFICES ASSUME NEW k \in Frames, Returned(k)' PROVE k \in Arrived' /\ End(k)' <= read'
    BY DEF ReadPast
  <2>1. k \in Arrived /\ (End(k) <= read \/ End(k) = read')
    BY <1>3 DEF ReadPast
  <2>2. End(k) \in Nat
    BY <2>1, ArrivedFacts
  <2> QED
    BY <1>1, <1>2, <2>1, <2>2
<1>5. Rested'
  <2> SUFFICES ASSUME Extract(unread).status \in {"SYNC_NOT_FOUND", "INCOMPLETE"},
                      NEW k \in Arrived, ~ Returned(k)'
               PROVE  End(k) > seen * Word
    BY <1>1, <1>2 DEF Rested
  <2>1. delivered' = delivered
    BY EndFacts
  <2>2. ~ Returned(k)
    BY <2>1 DEF Returned
  <2>3. ~ (End(k) <= seen * Word)
    BY <2>2, NothingFound
  <2>4. End(k) \in Nat /\ seen * Word \in Nat
    BY ArrivedFacts, NumberFacts
  <2> QED
    BY <2>3, <2>4
<1> QED
  BY <1>2, <1>4, <1>5

LEMMA LossInit == Init => LossInv
<1> SUFFICES ASSUME Init PROVE LossInv
  OBVIOUS
<1>1. Held = {} /\ Shifted = 0
  BY RxSizesAssumption DEF Init, Held, Shifted
<1>2. frame = 0 /\ delivered = <<>> /\ exhausted = FALSE
  BY DEF Init
<1>3. Arrived = {}
  BY <1>2, FrameFacts DEF Arrived
<1>4. Located /\ Spaced /\ ReadPast /\ Rested
  BY <1>1, <1>2, <1>3 DEF Located, Spaced, ReadPast, Rested, Returned
<1> QED
  BY <1>4 DEF LossInv

LEMMA LossKept ==
  ASSUME TypeInv, Inv, OrderInv, IntactInv, LossInv, Slack * Word < 2 + RawCells(1),
         Word + Lead + 2 + TotalCells(MaxLen) <= Window, Window + Slack * Word <= Ring,
         [Next]_vars
  PROVE  LossInv'
<1> SUFFICES ASSUME gone' = {} PROVE Located' /\ Spaced' /\ ReadPast' /\ Rested'
  BY DEF LossInv
<1>1. gone = {}
  <2>1. gone \subseteq gone'
    BY BeginFacts, EndFacts DEF Next, Wire, Poll, StartFrame, Transmit, Damage, Slip, vars
  <2> QED
    BY <2>1
<1>2. Located /\ Spaced /\ ReadPast /\ Rested
  BY <1>1 DEF LossInv
<1>3. CASE UNCHANGED vars
  <2>1. UNCHANGED <<wireVars, gone, seen, read, delivered, exhausted, pc>>
    BY <1>3 DEF vars, portVars
  <2>2. /\ Located' /\ Spaced' /\ Arrived' = Arrived
        /\ \A k \in Arrived : k \in Frames /\ Start(k)' = Start(k) /\ End(k)' = End(k)
    BY <1>2, <2>1, PollStay
  <2>3. \A k \in Frames : Returned(k)' = Returned(k)
    BY <2>1 DEF Returned
  <2>4. ReadPast'
    BY <1>2, <2>1, <2>2, <2>3 DEF ReadPast
  <2>5. Rested'
    BY <1>2, <2>1, <2>2, <2>3 DEF Rested
  <2> QED
    BY <2>2, <2>4, <2>5
<1>4. CASE Wire
  BY <1>1, <1>2, <1>4, WireLoss
<1>5. CASE PollBegin
  BY <1>1, <1>2, <1>5, BeginLoss
<1>6. CASE PollEnd
  BY <1>1, <1>2, <1>6, EndLoss
<1> QED
  BY <1>3, <1>4, <1>5, <1>6 DEF Next, Poll

\* On a line that loses nothing every frame has been returned, the last one too,
\* when all are sent and further polls would be skipped, as long as the window
\* holds a postamble, a preamble and the longest frame, and what arrives in the
\* middle of a poll fits into the ring next to a window (bmc_rx_poll_packet,
\* bmc_packet_encode).
THEOREM NothingBehind ==
  ASSUME Slack * Word < 2 + RawCells(1),
         Word + Lead + 2 + TotalCells(MaxLen) <= Window, Window + Slack * Word <= Ring
  PROVE  Spec => []NothingLeftBehind
<1>1. Inv /\ TypeInv /\ OrderInv /\ IntactInv /\ LossInv /\ [Next]_vars
        => OrderInv' /\ IntactInv' /\ LossInv'
  BY OrderKept, IntactKept, LossKept
<1>2. Inv /\ TypeInv /\ IntactInv /\ LossInv => NothingLeftBehind
  <2> SUFFICES ASSUME Inv, TypeInv, IntactInv, LossInv,
                      ~ Sending, frame = Len(Payloads), pc = "idle", NothingNew, gone = {},
                      NEW k \in Frames, ends[k] > 0
               PROVE  Returned(k)
    BY DEF NothingLeftBehind, Returned
  <2>1. Located /\ Spaced /\ ReadPast /\ Rested
    BY DEF LossInv
  <2>2. /\ Lead \in Nat /\ Word \in Nat \ {0} /\ pos \in Nat /\ k \in Nat \ {0} /\ frame \in Nat
        /\ Shifted \in Nat /\ written * Word \in Nat /\ Shifted < written * Word + Word
    BY SpanFacts, CellTypes, NumberFacts, ShiftedFacts
  <2>3. k <= frame /\ frame \in Frames
    <3>1. Frames = 1 .. Len(Payloads) /\ Len(Payloads) \in Nat
      BY RxSizesAssumption DEF Frames
    <3> QED
      BY <2>2, <3>1
  <2>4. PICK f \in Frames : f = frame /\ f \in Nat \ {0}
    BY <2>2, <2>3
  <2>5. /\ FrameCells(f) \in Nat /\ EndOf(f) = Lead + FrameCells(f) /\ FrameCells(f) > 0
        /\ EndOf(f) \in Nat
    <3>1. /\ FrameCells(f) \in Nat /\ EndOf(f) = Lead + FrameCells(f) /\ EndOf(f) \in Nat
          /\ RawOf(f) \in Nat /\ 2 + RawOf(f) < FrameCells(f)
      BY SpanFacts
    <3> QED
      BY <3>1
  <2>6. pos = EndOf(f) + Word
    <3>1. Len(Encoded(f)) = EndOf(f) + Word
      BY EncodedFacts, Zenon
    <3>2. pos <= EndOf(f) + Word
      BY <2>4 DEF IntactInv, EndsInv
    <3> QED
      BY <2>2, <2>4, <2>5, <3>1, <3>2 DEF Sending
  <2>7. f \in Arrived /\ k \in Arrived
    BY <2>2, <2>3, <2>4, <2>5, <2>6 DEF Arrived
  <2>8. End(f) < written * Word /\ End(f) \in Nat
    <3>1. End(f) = Shifted - (pos - Lead) + FrameCells(f)
      BY <2>4 DEF End, Start
    <3>2. End(f) \in Nat
      BY <2>7, ArrivedFacts
    <3>3. PICK w \in Nat : w = written * Word /\ Shifted < w + Word
      BY <2>2
    <3>4. pos - Lead = FrameCells(f) + Word
      BY <2>2, <2>5, <2>6
    <3>5. End(f) = Shifted - Word
      <4>1. Shifted \in Nat /\ Word \in Nat /\ FrameCells(f) \in Nat
        BY <2>2, <2>5
      <4>2. End(f) = Shifted - (FrameCells(f) + Word) + FrameCells(f)
        BY <3>1, <3>4
      <4> QED
        BY <4>1, <4>2
    <3>6. End(f) < w
      BY <2>2, <3>3, <3>5
    <3> QED
      BY <3>2, <3>3, <3>6
  <2>9. End(k) <= End(f) /\ End(k) \in Nat
    <3>1. End(k) \in Nat /\ Start(f) \in Nat /\ End(f) = Start(f) + FrameCells(f)
      BY <2>7, ArrivedFacts
    <3>2. k < f => End(k) <= Start(f)
      BY <2>1, <2>7 DEF Spaced
    <3> QED
      BY <2>2, <2>3, <2>4, <2>5, <3>1, <3>2
  <2>10. written = seen
    BY DEF NothingNew, Inv, CounterInv
  <2>11. ~ (End(k) > seen * Word)
    BY <2>2, <2>8, <2>9, <2>10
  <2>12. exhausted
    BY DEF NothingNew
  <2> QED
    BY <2>1, <2>7, <2>11, <2>12 DEF Rested
<1> QED
  BY TypeInvariance, OrderInit, IntactInit, LossInit, <1>1, <1>2, PTL DEF Spec
=============================================================================
