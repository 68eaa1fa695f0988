------------------------- MODULE OtaTransferProofs -------------------------
(***************************************************************************)
(* The safety properties of the OTA transfer for every image size, every   *)
(* number of chunks, credits, retries and sessions and every budget of     *)
(* faults, and that it implements OtaPromise.                              *)
(***************************************************************************)
EXTENDS OtaTransfer, FiniteSetTheorems, SequenceTheorems, TLAPS

-----------------------------------------------------------------------------
(* The inductive invariant.                                                *)

Sending == {"SEND_WINDOW", "QUERY", "RETRANSMIT"}

\* The sender works on a window of the image, and gives up when its retries
\* run out.
SenderInv ==
  /\ TxTypeOK
  /\ txState # "IDLE" => txTotal >= 1
  /\ txState = "IDLE" => txPc = "loop"
  /\ txState = "START" => sendWin = 0
  /\ txState \in Sending => sendWin < txTotal
  /\ retries = MaxRetries + 1 => txState = "FAILED"
  /\ CreditsCoverSending

\* An accepted START and a committed window always bring a credit.
PaidResponse ==
  {m \in RevPacket :
     /\ m.type = "START_ACK" /\ m.status = "OK" => m.credit >= 1
     /\ m.type = "READY" /\ m.status = "OK" => m.credit = 1}

LinkInv == fwd \in Seq(FwdPacket) /\ rev \in Seq(PaidResponse)

\* What is being flashed is inside the staging area and, unless the receiver
\* has been reset meanwhile, the next window in order.
ReceiverInv ==
  /\ RxTypeOK
  /\ rxPc = "flashing" =>
       /\ target.win < StagingWindows
       /\ committed < MaxWindows
       /\ rxState = "TRANSFER" => target.win = committed

EnvironmentInv ==
  sessions \in 0 .. MaxSessions /\ spent \in [Faults -> Nat]

Inv == SenderInv /\ LinkInv /\ ReceiverInv /\ EnvironmentInv

-----------------------------------------------------------------------------
(* Packets.                                                                *)

\* The number of chunks of a window is one a bitmap has room for.
LEMMA ChunksInType ==
  ASSUME NEW n, NEW w
  PROVE  ChunksIn(n, w) \in 0 .. Chunks
BY SizesAssumption DEF ChunksIn

\* The packets the sender makes are packets of the link.
LEMMA FwdPackets ==
  /\ \A n \in Sizes : Start(n) \in FwdPacket
  /\ \A w \in Windows, c \in ChunkIds : Data(w, c) \in FwdPacket
  /\ \A w \in Windows, k \in 0 .. Chunks : Query(w, k) \in FwdPacket
  /\ Finalize \in FwdPacket
  /\ Abort \in FwdPacket
BY DEF FwdPacket, Start, Data, Query, Finalize, Abort

\* The responses the receiver makes are responses of the link.
LEMMA RevPackets ==
  /\ \A st \in Statuses \ {"OK"} : StartAck(st, 0) \in PaidResponse
  /\ \A cr \in Nat \ {0} : StartAck("OK", cr) \in PaidResponse
  /\ \A w \in Windows, ms \in SUBSET ChunkIds : QueryResp(w, ms) \in PaidResponse
  /\ \A w \in Windows : Ready(w, "OK", 1) \in PaidResponse
  /\ \A w \in Windows, st \in Statuses \ {"OK"} : Ready(w, st, 0) \in PaidResponse
  /\ \A st \in Statuses, crc \in -1 .. MaxWindows : Status(st, crc) \in PaidResponse
  /\ Abort \in PaidResponse
BY SizesAssumption DEF PaidResponse, RevPacket, StartAck, QueryResp, Ready, Status, Abort,
       Statuses

\* The fields of a packet are those of its type.
LEMMA FwdFields ==
  ASSUME NEW m \in FwdPacket
  PROVE  /\ m.type = "START" => m.total \in Sizes
         /\ m.type = "DATA" =>
              m.win \in Windows /\ m.chunk \in ChunkIds /\ m.intact \in BOOLEAN
         /\ m.type = "QUERY" => m.win \in Windows /\ m.total \in 0 .. Chunks
BY DEF FwdPacket

LEMMA RevFields ==
  ASSUME NEW m \in PaidResponse
  PROVE  /\ m.type = "START_ACK" =>
              /\ m.credit \in Nat
              /\ m.status = "OK" => m.credit >= 1
         /\ m.type = "QUERY_RESP" =>
              m.win \in Windows /\ m.missing \in SUBSET ChunkIds
         /\ m.type = "READY" =>
              /\ m.win \in Windows
              /\ m.status = "OK" => m.credit = 1
BY DEF PaidResponse, RevPacket

-----------------------------------------------------------------------------
(* The initial state.                                                      *)

LEMMA InitInv == Init => Inv
<1> SUFFICES ASSUME Init PROVE Inv
  OBVIOUS
<1>1. SenderInv
  <2>1. TxTypeOK
    <3>1. /\ txState \in TxStates /\ txPc \in {"loop", "drain", "switch"}
          /\ rtx \subseteq ChunkIds /\ late \in BOOLEAN
      BY DEF Init, TxInit, TxStates
    <3>2. /\ txTotal \in 0 .. MaxWindows /\ sendWin \in 0 .. MaxWindows
          /\ commitWin \in 0 .. MaxWindows /\ credits \in Int
          /\ retries \in 0 .. MaxRetries + 1 /\ curChunk \in 0 .. Chunks
      BY SizesAssumption, SenderAssumption DEF Init, TxInit
    <3> QED
      BY <3>1, <3>2 DEF TxTypeOK
  <2>2. /\ retries # MaxRetries + 1
        /\ txState = "IDLE" /\ txPc = "loop" /\ credits = 0
    BY SenderAssumption DEF Init, TxInit
  <2> QED
    BY <2>1, <2>2 DEF SenderInv, Sending, CreditsCoverSending
<1>2. LinkInv
  BY DEF Init, LinkInv
<1>3. ReceiverInv
  <2> DEFINE empty == [c \in ChunkIds |-> Garbage]
             free  == [state |-> "FREE", win |-> 0, total |-> 0, have |-> {},
                       crc |-> 0, tries |-> 0, buf |-> empty]
  <2>1. empty \in [ChunkIds -> Windows \cup {Garbage}]
    OBVIOUS
  <2>2. free \in Slot
    <3> HIDE DEF empty
    <3> QED
      BY <2>1, SizesAssumption DEF Slot, SlotStates, Windows
  <2>3. slots = [s \in SlotIds |-> free]
    BY DEF Init, RxInit
  <2>4. slots \in [SlotIds -> Slot]
    <3> HIDE DEF free
    <3> QED
      BY <2>2, <2>3
  <2> QED
    BY <2>4, SizesAssumption DEF Init, RxInit, ReceiverInv, RxTypeOK, RxStates, SlotIds,
                Windows, NoTarget
<1>4. EnvironmentInv
  BY TransferAssumption DEF Init, EnvironmentInv
<1> QED
  BY <1>1, <1>2, <1>3, <1>4 DEF Inv

-----------------------------------------------------------------------------
(* The sender handles a response.                                          *)

\* The response taken is well formed, and so are those left.
LEMMA TakenResponse ==
  ASSUME SenderInv, LinkInv, NEW type, Receives(type)
  PROVE  /\ Head(rev) \in PaidResponse /\ Head(rev).type = type
         /\ rev' \in Seq(PaidResponse)
         /\ txPc' = "drain"
         /\ txState # "IDLE" /\ txTotal >= 1
BY DEF LinkInv, Receives, SenderInv, InCall, TxActive

LEMMA SenderStartAck ==
  ASSUME SenderInv, LinkInv, TxStartAck
  PROVE  SenderInv' /\ LinkInv'
<1>1. LinkInv' /\ txPc' = "drain"
  BY TakenResponse DEF TxStartAck, LinkInv
<1>2. /\ Head(rev).credit \in Nat
      /\ Head(rev).status = "OK" => Head(rev).credit >= 1
  BY TakenResponse, RevFields DEF TxStartAck
<1>3. /\ txState = "START" /\ UNCHANGED <<txTotal, sendWin, commitWin, rtx>>
      /\ sendWin = 0 /\ txTotal >= 1 /\ retries \in 0 .. MaxRetries
  BY SenderAssumption DEF TxStartAck, SenderInv, TxTypeOK
<1>4. CASE Head(rev).status # "OK"
  <2>1. txState' = "FAILED" /\ UNCHANGED <<credits, retries, curChunk, late>>
    BY <1>4 DEF TxStartAck
  <2>2. TxTypeOK'
    <3>1. late' \in BOOLEAN /\ rtx' \subseteq ChunkIds
      BY <1>3, <2>1 DEF SenderInv, TxTypeOK
    <3>2. txState' \in TxStates /\ txPc' \in {"loop", "drain", "switch"}
      BY <1>1, <2>1 DEF TxStates
    <3>3. /\ txTotal' \in 0 .. MaxWindows /\ sendWin' \in 0 .. MaxWindows
          /\ commitWin' \in 0 .. MaxWindows /\ credits' \in Int
          /\ retries' \in 0 .. MaxRetries + 1 /\ curChunk' \in 0 .. Chunks
      BY <1>3, <2>1 DEF SenderInv, TxTypeOK
    <3> QED
      BY <3>1, <3>2, <3>3 DEF TxTypeOK
  <2> QED
    BY <1>1, <1>3, <2>1, <2>2 DEF SenderInv, Sending, CreditsCoverSending
<1>5. CASE Head(rev).status = "OK"
  <2>1. /\ txState' = "SEND_WINDOW" /\ late' = FALSE /\ curChunk' = 0
        /\ credits' = Head(rev).credit /\ retries' = 0
    BY <1>5 DEF TxStartAck, OpenWindow, Enter
  <2>2. TxTypeOK'
    <3>1. late' \in BOOLEAN /\ rtx' \subseteq ChunkIds
      BY <1>3, <2>1 DEF SenderInv, TxTypeOK
    <3>2. txState' \in TxStates /\ txPc' \in {"loop", "drain", "switch"}
      BY <1>1, <2>1 DEF TxStates
    <3>3. /\ txTotal' \in 0 .. MaxWindows /\ sendWin' \in 0 .. MaxWindows
          /\ commitWin' \in 0 .. MaxWindows
      BY <1>3 DEF SenderInv, TxTypeOK
    <3>4. credits' \in Int /\ retries' \in 0 .. MaxRetries + 1 /\ curChunk' \in 0 .. Chunks
      BY <1>2, <2>1, SizesAssumption, SenderAssumption
    <3> QED
      BY <3>1, <3>2, <3>3, <3>4 DEF TxTypeOK
  <2>3. retries' # MaxRetries + 1 /\ credits' >= 1
    BY <1>2, <1>5, <2>1, SenderAssumption
  <2> QED
    BY <1>1, <1>2, <1>3, <2>1, <2>2, <2>3 DEF SenderInv, Sending,
       CreditsCoverSending, TxTypeOK
<1> QED
  BY <1>4, <1>5

LEMMA SenderQueryRespMissing ==
  ASSUME SenderInv, LinkInv, TxQueryRespMissing
  PROVE  SenderInv' /\ LinkInv'
<1>1. LinkInv' /\ txPc' = "drain"
  BY TakenResponse DEF TxQueryRespMissing, LinkInv
<1>2. Head(rev).missing \in SUBSET ChunkIds
  BY TakenResponse, RevFields DEF TxQueryRespMissing
<1>3. /\ txState = "QUERY" /\ txState' = "RETRANSMIT" /\ late' = FALSE
      /\ rtx' = Head(rev).missing
      /\ UNCHANGED <<txTotal, sendWin, commitWin, credits, retries, curChunk>>
  BY DEF TxQueryRespMissing, Enter
<1>4. TxTypeOK'
  BY <1>1, <1>2, <1>3 DEF SenderInv, TxTypeOK, TxStates
<1>5. /\ retries' # MaxRetries + 1 /\ credits' >= 1 /\ credits' >= 0
      /\ sendWin' < txTotal' /\ txTotal' >= 1
  BY <1>3 DEF SenderInv, TxTypeOK, Sending, CreditsCoverSending
<1> QED
  BY <1>1, <1>3, <1>4, <1>5 DEF SenderInv, Sending, CreditsCoverSending

LEMMA SenderQueryRespComplete ==
  ASSUME SenderInv, LinkInv, TxQueryRespComplete
  PROVE  SenderInv' /\ LinkInv'
<1>1. LinkInv' /\ txPc' = "drain"
  BY TakenResponse DEF TxQueryRespComplete, LinkInv
<1>2. /\ txState = "QUERY" /\ late' = FALSE
      /\ credits' = credits - 1 /\ sendWin' = sendWin + 1 /\ retries' = 0
      /\ UNCHANGED <<txTotal, commitWin, rtx>>
      /\ \/ /\ txState' = "SEND_WINDOW" /\ curChunk' = 0
            /\ sendWin + 1 < txTotal /\ credits - 1 > 0
         \/ txState' = "WAIT_READY" /\ curChunk' = curChunk
  BY DEF TxQueryRespComplete, OpenWindow, Enter
<1>3. /\ sendWin \in Nat /\ sendWin < txTotal /\ txTotal \in 1 .. MaxWindows
      /\ credits \in Int /\ credits >= 1 /\ commitWin \in 0 .. MaxWindows
      /\ curChunk \in 0 .. Chunks /\ rtx \subseteq ChunkIds
  BY <1>2 DEF SenderInv, TxTypeOK, Sending, CreditsCoverSending
<1>4. /\ sendWin' \in 0 .. MaxWindows /\ credits' \in Int /\ credits' >= 0
      /\ retries' \in 0 .. MaxRetries + 1 /\ retries' # MaxRetries + 1
      /\ curChunk' \in 0 .. Chunks
      /\ txState' = "SEND_WINDOW" => credits' >= 1 /\ sendWin' < txTotal'
  BY <1>2, <1>3, SizesAssumption, SenderAssumption
<1>5. TxTypeOK'
  <2>1. late' \in BOOLEAN
    BY <1>2
  <2>2. txState' \in TxStates
    BY <1>2 DEF TxStates
  <2> QED
    BY <1>1, <1>2, <1>3, <1>4, <2>1, <2>2 DEF TxTypeOK
<1> QED
  BY <1>1, <1>2, <1>3, <1>4, <1>5 DEF SenderInv, Sending, CreditsCoverSending

\* READY, STATUS and ABORT end a session without a look at the retries.
LEMMA SenderFails ==
  ASSUME SenderInv, LinkInv, TxReadyError \/ TxStatus \/ TxAbort
  PROVE  SenderInv' /\ LinkInv'
<1>1. LinkInv' /\ txPc' = "drain" /\ txTotal >= 1
  BY TakenResponse DEF TxReadyError, TxStatus, TxAbort, LinkInv
<1>2. /\ UNCHANGED <<txTotal, sendWin, commitWin, credits, retries, curChunk,
                     rtx, late>>
      /\ \/ txState' = "FAILED"
         \/ txState' = "COMPLETE" /\ txState = "FINALIZE"
  BY DEF TxReadyError, TxStatus, TxAbort
<1>3. TxTypeOK'
  BY <1>1, <1>2 DEF SenderInv, TxTypeOK, TxStates
<1>4. txState' = "COMPLETE" => retries # MaxRetries + 1
  BY <1>2 DEF SenderInv
<1> QED
  BY <1>1, <1>2, <1>3, <1>4 DEF SenderInv, Sending, CreditsCoverSending

LEMMA SenderReady ==
  ASSUME SenderInv, LinkInv, TxReady
  PROVE  SenderInv' /\ LinkInv'
<1>1. /\ rev' \in Seq(PaidResponse) /\ txPc' = "drain" /\ txTotal >= 1
      /\ Head(rev).win \in Windows /\ Head(rev).credit = 1
  BY TakenResponse, RevFields DEF TxReady
<1>2. fwd' \in Seq(FwdPacket)
  BY FwdPackets DEF TxReady, LinkInv
<1>3. /\ credits' = credits + 1 /\ commitWin' = Head(rev).win + 1
      /\ UNCHANGED <<txTotal, sendWin, rtx>>
      /\ \/ /\ txState' = "FINALIZE" /\ late' = FALSE
            /\ retries' = 0 /\ curChunk' = curChunk
         \/ /\ txState' = "SEND_WINDOW" /\ late' = FALSE
            /\ sendWin < txTotal /\ txState = "WAIT_READY"
            /\ retries' = retries /\ curChunk' = 0
         \/ UNCHANGED <<txState, late, retries, curChunk>>
  BY <1>1 DEF TxReady, OpenWindow, Enter
<1>4. /\ commitWin' \in 0 .. MaxWindows
      /\ credits' \in Int /\ credits' >= 1
      /\ retries' \in 0 .. MaxRetries + 1 /\ curChunk' \in 0 .. Chunks
      /\ retries' = MaxRetries + 1 => txState' = "FAILED"
  <2>1. commitWin' \in 0 .. MaxWindows
    BY <1>1, <1>3, SizesAssumption DEF Windows
  <2>2. credits \in Int /\ credits >= 0
    BY DEF SenderInv, TxTypeOK, CreditsCoverSending
  <2>3. /\ retries' \in 0 .. MaxRetries + 1 /\ curChunk' \in 0 .. Chunks
        /\ retries' = MaxRetries + 1 => txState' = "FAILED"
    BY <1>3, SizesAssumption, SenderAssumption DEF SenderInv, TxTypeOK
  <2> QED
    BY <1>3, <2>1, <2>2, <2>3
<1>5. TxTypeOK'
  BY <1>1, <1>3, <1>4 DEF SenderInv, TxTypeOK, TxStates
<1>6. txState' \in Sending => sendWin' < txTotal'
  BY <1>3 DEF SenderInv, Sending
<1>7. /\ txState' = "START" => sendWin' = 0
      /\ txState' # "IDLE" => txTotal' >= 1
      /\ txState' = "IDLE" => FALSE
  BY <1>1, <1>3, TakenResponse DEF SenderInv, TxReady
<1>8. CreditsCoverSending'
  BY <1>4 DEF CreditsCoverSending
<1> QED
  BY <1>1, <1>2, <1>4, <1>5, <1>6, <1>7, <1>8 DEF SenderInv, LinkInv

LEMMA SenderIgnores ==
  ASSUME SenderInv, LinkInv, TxIgnore \/ TxDrained \/ TxWait
  PROVE  SenderInv' /\ LinkInv'
<1>1. UNCHANGED <<txState, txTotal, sendWin, commitWin, credits, retries,
                  curChunk, rtx, late, fwd>>
  BY DEF TxIgnore, TxDrained, TxWait, links
<1>2. rev' \in Seq(PaidResponse)
  BY TakenResponse DEF TxIgnore, TxDrained, TxWait, links, LinkInv
<1>3. txPc' \in {"loop", "drain", "switch"} /\ (txState = "IDLE" => txPc' = "loop")
  BY DEF TxIgnore, TxDrained, TxWait, Receives, InCall, InSwitch, TxActive,
         SenderInv
<1> QED
  BY <1>1, <1>2, <1>3
     DEF SenderInv, TxTypeOK, Sending, CreditsCoverSending, LinkInv

-----------------------------------------------------------------------------
(* The sender sends.                                                       *)

\* The DATA packets of chunks of a window of the image are packets.
LEMMA DataPacketsType ==
  ASSUME sendWin \in Windows, NEW k \in Nat, NEW cs \in [1 .. k -> ChunkIds]
  PROVE  DataPackets(cs) \in Seq(FwdPacket)
<1>1. DataPackets(cs) = [i \in 1 .. k |-> Data(sendWin, cs[i])]
  BY DEF DataPackets
<1>2. \A i \in 1 .. k : Data(sendWin, cs[i]) \in FwdPacket
  BY FwdPackets
<1>3. DataPackets(cs) \in [1 .. k -> FwdPacket]
  BY <1>1, <1>2
<1> QED
  BY <1>3, SeqDef

\* A run of chunks of a window is a sequence of them, an empty one when the
\* window has been sent already.
LEMMA ChunkRunType ==
  ASSUME NEW from \in Nat, NEW to \in 0 .. Chunks
  PROVE  \E k \in Nat : ChunkRun(from, to) \in [1 .. k -> ChunkIds]
<1>1. CASE to >= from
  <2>1. to - from \in Nat
    BY <1>1, SizesAssumption
  <2>2. \A i \in 1 .. to - from : from + i - 1 \in ChunkIds
    BY <1>1, SizesAssumption DEF ChunkIds
  <2> QED
    BY <2>1, <2>2 DEF ChunkRun
<1>2. CASE to < from
  <2>1. 1 .. to - from = 1 .. 0
    BY <1>2, SizesAssumption
  <2>2. ChunkRun(from, to) \in [1 .. 0 -> ChunkIds]
    BY <2>1 DEF ChunkRun
  <2> QED
    BY <2>2
<1> QED
  BY <1>1, <1>2, SizesAssumption

\* The window the sender works on is a window.
LEMMA WindowInImage ==
  ASSUME TxTypeOK, sendWin < txTotal
  PROVE  sendWin \in Windows
<1>1. sendWin \in 0 .. MaxWindows /\ txTotal \in 0 .. MaxWindows
  BY DEF TxTypeOK
<1> QED
  BY <1>1, SizesAssumption DEF Windows

\* A burst keeps the sender where it is or makes it ask what arrived.
LEMMA BurstSent ==
  ASSUME SenderInv, LinkInv, sendWin < txTotal,
         NEW k \in Nat, NEW cs \in [1 .. k -> ChunkIds],
         NEW last \in BOOLEAN, SendBurst(cs, last)
  PROVE  /\ fwd' \in Seq(FwdPacket)
         /\ \/ txState' = "QUERY" /\ late' = FALSE /\ retries' = 0
            \/ UNCHANGED <<txState, late, retries>>
<1>1. sendWin \in Windows
  BY WindowInImage DEF SenderInv
<1>2. fwd \o DataPackets(cs) \in Seq(FwdPacket)
  BY <1>1, DataPacketsType DEF LinkInv
<1>3. CurrentQuery \in FwdPacket
  BY <1>1, FwdPackets, ChunksInType DEF CurrentQuery, ChunksInWin
<1>4. CASE last
  <2>1. Append(fwd \o DataPackets(cs), CurrentQuery) \in Seq(FwdPacket)
    BY <1>2, <1>3
  <2>2. /\ fwd' = Append(fwd \o DataPackets(cs), CurrentQuery)
        /\ txState' = "QUERY" /\ late' = FALSE /\ retries' = 0
    BY <1>4, Zenon DEF SendBurst, Enter
  <2> QED
    BY <2>1, <2>2
<1>5. CASE ~ last
  BY <1>2, <1>5 DEF SendBurst
<1> QED
  BY <1>4, <1>5

\* What a burst leaves of the sender's invariant once its packets are typed.
LEMMA BurstInv ==
  ASSUME SenderInv, LinkInv, txState \in Sending, txPc' = "loop",
         fwd' \in Seq(FwdPacket),
         \/ txState' = "QUERY" /\ late' = FALSE /\ retries' = 0
         \/ UNCHANGED <<txState, late, retries>>,
         UNCHANGED <<txTotal, sendWin, commitWin, credits, rev>>,
         curChunk' \in 0 .. Chunks, rtx' \subseteq ChunkIds
  PROVE  SenderInv' /\ LinkInv'
<1>1. late' \in BOOLEAN /\ txState' \in TxStates /\ txState' \in Sending
  BY DEF SenderInv, TxTypeOK, TxStates, Sending
<1>2. retries' \in 0 .. MaxRetries + 1 /\ retries' # MaxRetries + 1
  BY SenderAssumption DEF SenderInv, TxTypeOK, Sending
<1>3. TxTypeOK'
  BY <1>1, <1>2 DEF SenderInv, TxTypeOK
<1>4. CreditsCoverSending' /\ sendWin' < txTotal' /\ txTotal' >= 1
  BY DEF SenderInv, CreditsCoverSending, Sending
<1> QED
  BY <1>1, <1>2, <1>3, <1>4 DEF SenderInv, LinkInv, Sending

LEMMA SenderSendWindow ==
  ASSUME SenderInv, LinkInv, TxSendWindow
  PROVE  SenderInv' /\ LinkInv'
<1> DEFINE next == Least(curChunk + Batch, ChunksInWin)
           cs   == ChunkRun(curChunk, next)
           last == next = ChunksInWin
<1>1. /\ txState = "SEND_WINDOW" /\ txPc' = "loop" /\ txState \in Sending
      /\ curChunk' = next /\ SendBurst(cs, last)
      /\ UNCHANGED <<txTotal, sendWin, commitWin, credits, rtx, rev>>
  BY DEF TxSendWindow, InSwitch, Sending
<1>2. curChunk \in 0 .. Chunks /\ sendWin < txTotal /\ rtx \subseteq ChunkIds
  BY <1>1 DEF SenderInv, TxTypeOK
<1>3. next \in 0 .. Chunks
  <2>1. ChunksInWin \in 0 .. Chunks
    BY ChunksInType DEF ChunksInWin
  <2> QED
    BY <1>2, <2>1, SizesAssumption, SenderAssumption DEF Least
<1>4. curChunk \in Nat
  BY <1>2, SizesAssumption
<1>5. last \in BOOLEAN
  OBVIOUS
<1> HIDE DEF next, last
<1>7. PICK k \in Nat : cs \in [1 .. k -> ChunkIds]
  BY <1>3, <1>4, ChunkRunType
<1> HIDE DEF cs
<1>6. /\ fwd' \in Seq(FwdPacket)
      /\ \/ txState' = "QUERY" /\ late' = FALSE /\ retries' = 0
         \/ UNCHANGED <<txState, late, retries>>
  BY <1>1, <1>2, <1>5, <1>7, BurstSent
<1> QED
  BY <1>1, <1>2, <1>3, <1>6, BurstInv

LEMMA SenderRetransmit ==
  ASSUME SenderInv, LinkInv, TxRetransmit
  PROVE  SenderInv' /\ LinkInv'
<1> DEFINE k == Least(Batch, Cardinality(rtx))
<1>1. /\ txState = "RETRANSMIT" /\ txPc' = "loop" /\ txState \in Sending
      /\ UNCHANGED <<txTotal, sendWin, commitWin, credits, curChunk, rev>>
  BY DEF TxRetransmit, InSwitch, Sending
<1>2. /\ curChunk \in 0 .. Chunks /\ sendWin < txTotal
      /\ rtx \subseteq ChunkIds
  BY <1>1 DEF SenderInv, TxTypeOK
<1>3. k \in Nat
  <2>1. IsFiniteSet(ChunkIds)
    BY SizesAssumption, FS_Interval DEF ChunkIds
  <2>2. Cardinality(rtx) \in Nat
    BY <1>2, <2>1, FS_Subset, FS_CardinalityType
  <2> QED
    BY <2>2, SenderAssumption DEF Least
<1>4. PICK cs \in [1 .. k -> rtx] :
        /\ rtx' = {c \in rtx : \A i \in 1 .. k : cs[i] # c}
        /\ SendBurst(cs, rtx' = {})
  BY DEF TxRetransmit
<1> HIDE DEF k
<1>5. cs \in [1 .. k -> ChunkIds] /\ rtx' \subseteq ChunkIds
  BY <1>2, <1>4
<1>6. (rtx' = {}) \in BOOLEAN
  OBVIOUS
<1>7. /\ fwd' \in Seq(FwdPacket)
      /\ \/ txState' = "QUERY" /\ late' = FALSE /\ retries' = 0
         \/ UNCHANGED <<txState, late, retries>>
  BY <1>2, <1>3, <1>4, <1>5, <1>6, BurstSent
<1> QED
  BY <1>1, <1>2, <1>5, <1>7, BurstInv

\* A timeout repeats a packet, or fails when the retries are used up.
LEMMA SenderRepeats ==
  ASSUME SenderInv, LinkInv, NEW s, s \in {"START", "QUERY", "FINALIZE"},
         NEW pkt \in FwdPacket, TxTimeout(s, pkt)
  PROVE  SenderInv' /\ LinkInv'
<1>1. /\ txState = s /\ txPc' = "loop" /\ retries' = retries + 1
      /\ UNCHANGED <<txTotal, sendWin, commitWin, credits, curChunk, rtx, rev>>
      /\ \/ /\ retries + 1 > MaxRetries /\ txState' = "FAILED"
            /\ UNCHANGED <<late, fwd>>
         \/ /\ ~ (retries + 1 > MaxRetries) /\ txState' = txState
            /\ late' = FALSE /\ fwd' = Append(fwd, pkt)
  BY DEF TxTimeout, InSwitch
<1>2. LinkInv'
  BY <1>1 DEF LinkInv
<1>3. retries' \in 0 .. MaxRetries + 1 /\ (retries' = MaxRetries + 1 => txState' = "FAILED")
  <2>1. retries \in 0 .. MaxRetries + 1 /\ retries # MaxRetries + 1
    BY <1>1 DEF SenderInv, TxTypeOK
  <2> QED
    BY <1>1, <2>1, SenderAssumption
<1>4. late' \in BOOLEAN /\ txState' \in TxStates
  BY <1>1 DEF SenderInv, TxTypeOK, TxStates
<1>5. TxTypeOK'
  BY <1>1, <1>3, <1>4 DEF SenderInv, TxTypeOK
<1> QED
  BY <1>1, <1>2, <1>3, <1>5 DEF SenderInv, Sending, CreditsCoverSending

LEMMA SenderTimesOut ==
  ASSUME SenderInv, LinkInv,
         \/ TxStartTimeout \/ TxQueryTimeout \/ TxFinalizeTimeout
         \/ TxReadyTimeout
  PROVE  SenderInv' /\ LinkInv'
<1>1. CASE TxStartTimeout
  <2>1. Start(txTotal) \in FwdPacket
    <3>1. txState = "START"
      BY <1>1 DEF TxStartTimeout, TxTimeout, InSwitch
    <3>2. txTotal \in Sizes
      BY <3>1 DEF SenderInv, TxTypeOK, Sizes
    <3> QED
      BY <3>2, FwdPackets
  <2> QED
    BY <1>1, <2>1, SenderRepeats DEF TxStartTimeout
<1>2. CASE TxQueryTimeout
  <2>1. CurrentQuery \in FwdPacket
    <3>1. txState = "QUERY"
      BY <1>2 DEF TxQueryTimeout, TxTimeout, InSwitch
    <3>2. sendWin \in Windows
      BY <3>1, WindowInImage DEF SenderInv, Sending
    <3> QED
      BY <3>2, FwdPackets, ChunksInType DEF CurrentQuery, ChunksInWin
  <2> QED
    BY <1>2, <2>1, SenderRepeats DEF TxQueryTimeout
<1>3. CASE TxFinalizeTimeout
  BY <1>3, FwdPackets, SenderRepeats DEF TxFinalizeTimeout
<1>4. CASE TxReadyTimeout
  <2>1. /\ txState' = "FAILED" /\ txPc' = "loop" /\ txState # "IDLE"
        /\ UNCHANGED <<txTotal, sendWin, commitWin, credits, retries, curChunk,
                       rtx, late, fwd, rev>>
    BY <1>4 DEF TxReadyTimeout, InSwitch, links
  <2>2. TxTypeOK'
    BY <2>1 DEF SenderInv, TxTypeOK, TxStates
  <2> QED
    BY <2>1, <2>2 DEF SenderInv, LinkInv, Sending, CreditsCoverSending
<1> QED
  BY <1>1, <1>2, <1>3, <1>4

-----------------------------------------------------------------------------
(* Slots.                                                                  *)

LEMMA SlotOfType == \A w \in Windows : SlotOf(w) \in SlotIds
BY SizesAssumption DEF SlotOf, SlotIds, Windows

LEMMA SlotsReset ==
  ASSUME slots \in [SlotIds -> Slot]
  PROVE  ResetSlots \in [SlotIds -> Slot]
<1>1. ASSUME NEW slot \in Slot PROVE ResetSlot(slot) \in Slot
  <2>1. /\ "FREE" \in SlotStates /\ 0 \in Windows
        /\ {} \in SUBSET ChunkIds /\ 0 \in Nat
    BY SizesAssumption DEF SlotStates, Windows
  <2> QED
    BY <2>1, Zenon DEF ResetSlot, Slot
<1> QED
  BY <1>1 DEF ResetSlots

\* A change of one slot leaves an array of slots.
LEMMA SlotsUpdated ==
  ASSUME slots \in [SlotIds -> Slot], NEW s \in SlotIds, NEW slot \in Slot
  PROVE  [slots EXCEPT ![s] = slot] \in [SlotIds -> Slot]
OBVIOUS

LEMMA SlotForDataType ==
  ASSUME NEW slot \in Slot, NEW w \in Windows
  PROVE  SlotForData(slot, w) \in Slot
BY ChunksInType DEF SlotForData, Slot, SlotStates

LEMMA StoreChunkType ==
  ASSUME NEW slot \in Slot, NEW m, m.win \in Windows, m.chunk \in ChunkIds
  PROVE  StoreChunk(slot, m) \in Slot
<1> DEFINE byte == IF m.intact THEN m.win ELSE Garbage
           buf  == [slot.buf EXCEPT ![m.chunk] = byte]
           have == slot.have \cup {m.chunk}
<1>1. buf \in [ChunkIds -> Windows \cup {Garbage}]
  BY DEF Slot
<1>2. have \in SUBSET ChunkIds
  BY DEF Slot
<1>3. StoreChunk(slot, m) \in {slot, [slot EXCEPT !.have = have, !.buf = buf]}
  BY DEF StoreChunk, Slot
<1> HIDE DEF buf, have
<1> QED
  BY <1>1, <1>2, <1>3 DEF Slot

LEMMA QueriedSlotType ==
  ASSUME NEW slot \in Slot, NEW m, m.win \in Windows, m.total \in 0 .. Chunks
  PROVE  QueriedSlot(slot, m) \in Slot
BY DEF QueriedSlot, Slot

\* A slot changes state, forgets its chunks or counts an attempt.
LEMMA SlotChanges ==
  ASSUME NEW slot \in Slot, NEW st \in SlotStates
  PROVE  /\ [slot EXCEPT !.state = st] \in Slot
         /\ [slot EXCEPT !.have = {}] \in Slot
         /\ Leave(slot, st) \in Slot
<1>1. [slot EXCEPT !.state = st] \in Slot /\ [slot EXCEPT !.have = {}] \in Slot
  BY DEF Slot
<1>2. slot.tries + 1 \in Nat
  BY DEF Slot
<1>3. Leave(slot, st) = [slot EXCEPT !.state = st, !.tries = slot.tries + 1]
  BY DEF Leave
<1> QED
  BY <1>1, <1>2, <1>3 DEF Slot

-----------------------------------------------------------------------------
(* The receiver takes a packet.                                            *)

\* Outside a flash attempt only the type can be wrong.
LEMMA TypedReceiver ==
  ASSUME RxTypeOK', rxPc' # "flashing"
  PROVE  ReceiverInv'
BY DEF ReceiverInv

LEMMA TakenPacket ==
  ASSUME LinkInv, NEW type, Takes(type)
  PROVE  /\ Head(fwd) \in FwdPacket /\ Head(fwd).type = type
         /\ fwd' \in Seq(FwdPacket)
         /\ rxPc' = "step"
BY DEF LinkInv, Takes

LEMMA Responded ==
  ASSUME LinkInv, NEW m \in PaidResponse, Respond(m)
  PROVE  rev' \in Seq(PaidResponse)
BY DEF LinkInv, Respond

LEMMA ReceiverStarts ==
  ASSUME ReceiverInv, LinkInv, RxStartRefused \/ RxStart
  PROVE  ReceiverInv' /\ LinkInv'
<1>1. CASE RxStartRefused
  <2>1. fwd' \in Seq(FwdPacket) /\ rxPc' = "step"
    BY <1>1, TakenPacket DEF RxStartRefused
  <2>2. rev' \in Seq(PaidResponse)
    <3>1. \A st \in {"ERR_MAGIC", "ERR_SIZE"} : StartAck(st, 0) \in PaidResponse
      BY RevPackets DEF Statuses
    <3>2. \E st \in {"ERR_MAGIC", "ERR_SIZE"} : Respond(StartAck(st, 0))
      BY <1>1 DEF RxStartRefused
    <3> QED
      BY <3>1, <3>2, Responded
  <2>3. RxTypeOK'
    BY <1>1, <2>1 DEF RxStartRefused, ReceiverInv, RxTypeOK
  <2> QED
    BY <2>1, <2>2, <2>3, TypedReceiver DEF LinkInv
<1>2. CASE RxStart
  <2>1. /\ fwd' \in Seq(FwdPacket) /\ rxPc' = "step"
        /\ Head(fwd) \in FwdPacket /\ Head(fwd).type = "START"
    BY <1>2, TakenPacket DEF RxStart
  <2>2. rev' \in Seq(PaidResponse)
    <3>1. GrantedCredits \in Nat \ {0}
      BY SizesAssumption DEF GrantedCredits
    <3> QED
      BY <1>2, <3>1, RevPackets, Responded DEF RxStart
  <2>3. rxTotal' \in 0 .. MaxWindows /\ committed' \in 0 .. MaxWindows
    BY <1>2, <2>1, FwdFields, SizesAssumption DEF RxStart, Sizes
  <2>4. slots' \in [SlotIds -> Slot]
    BY <1>2, SlotsReset DEF RxStart, ReceiverInv, RxTypeOK
  <2>5. RxTypeOK'
    BY <1>2, <2>1, <2>3, <2>4 DEF RxStart, ReceiverInv, RxTypeOK, RxStates
  <2> QED
    BY <2>1, <2>2, <2>5, TypedReceiver DEF LinkInv
<1> QED
  BY <1>1, <1>2

LEMMA ReceiverData ==
  ASSUME ReceiverInv, LinkInv, RxData
  PROVE  ReceiverInv' /\ LinkInv'
<1> DEFINE m    == Head(fwd)
           s    == SlotOf(m.win)
           slot == StoreChunk(SlotForData(slots[s], m.win), m)
<1>1. /\ fwd' \in Seq(FwdPacket) /\ rxPc' = "step"
      /\ m.win \in Windows /\ m.chunk \in ChunkIds
  BY TakenPacket, FwdFields DEF RxData
<1>2. s \in SlotIds /\ slots \in [SlotIds -> Slot]
  BY <1>1, SlotOfType DEF ReceiverInv, RxTypeOK
<1>3. slot \in Slot
  BY <1>1, <1>2, SlotForDataType, StoreChunkType
<1>4. slots' = [slots EXCEPT ![s] = slot]
  BY DEF RxData
<1> HIDE DEF slot, s, m
<1>5. slots' \in [SlotIds -> Slot]
  BY <1>2, <1>3, <1>4, SlotsUpdated
<1>6. RxTypeOK'
  BY <1>1, <1>5 DEF RxData, ReceiverInv, RxTypeOK
<1> QED
  BY <1>1, <1>6, TypedReceiver DEF LinkInv, RxData

LEMMA ReceiverQuery ==
  ASSUME ReceiverInv, LinkInv, RxQueryUnknown \/ RxQuery
  PROVE  ReceiverInv' /\ LinkInv'
<1> DEFINE m    == Head(fwd)
           s    == SlotOf(m.win)
           slot == QueriedSlot(slots[s], m)
<1>1. /\ fwd' \in Seq(FwdPacket) /\ rxPc' = "step"
      /\ m.win \in Windows /\ m.total \in 0 .. Chunks
  BY TakenPacket, FwdFields DEF RxQueryUnknown, RxQuery
<1>2. s \in SlotIds /\ slots \in [SlotIds -> Slot]
  BY <1>1, SlotOfType DEF ReceiverInv, RxTypeOK
<1>3. slot \in Slot /\ slot.total = m.total
  BY <1>1, <1>2, QueriedSlotType DEF QueriedSlot, Slot
<1>4. 0 .. m.total - 1 \in SUBSET ChunkIds
  BY <1>1, SizesAssumption DEF ChunkIds
<1>5. CASE RxQueryUnknown
  <2>1. rev' \in Seq(PaidResponse)
    BY <1>1, <1>4, <1>5, RevPackets, Responded DEF RxQueryUnknown
  <2>2. RxTypeOK'
    BY <1>1, <1>5 DEF RxQueryUnknown, ReceiverInv, RxTypeOK
  <2> QED
    BY <1>1, <2>1, <2>2, TypedReceiver DEF LinkInv
<1>6. CASE RxQuery
  <2>1. \/ slots' = [slots EXCEPT ![s] = slot] /\ Respond(QueryResp(m.win, MissingIn(slot)))
        \/ /\ slots' = [slots EXCEPT ![s] = [slot EXCEPT !.state = "READY_TO_FLASH"]]
           /\ Respond(QueryResp(m.win, {}))
        \/ /\ slots' = [slots EXCEPT ![s] = [slot EXCEPT !.have = {}]]
           /\ Respond(QueryResp(m.win, 0 .. m.total - 1))
    BY <1>3, <1>6 DEF RxQuery
  <2> HIDE DEF slot, s, m
  <2>2. MissingIn(slot) \in SUBSET ChunkIds
    BY DEF MissingIn
  <2>3. rev' \in Seq(PaidResponse)
    <3>1. \A ms \in SUBSET ChunkIds : QueryResp(m.win, ms) \in PaidResponse
      BY <1>1, RevPackets
    <3>2. {} \in SUBSET ChunkIds
      OBVIOUS
    <3>3. \E ms \in SUBSET ChunkIds : Respond(QueryResp(m.win, ms))
      BY <1>4, <2>1, <2>2, <3>2
    <3> QED
      BY <3>1, <3>3, Responded
  <2>4. slots' \in [SlotIds -> Slot]
    <3>1. /\ [slot EXCEPT !.state = "READY_TO_FLASH"] \in Slot
          /\ [slot EXCEPT !.have = {}] \in Slot
      BY <1>3, SlotChanges DEF SlotStates
    <3>2. PICK new \in Slot : slots' = [slots EXCEPT ![s] = new]
      BY <1>3, <2>1, <3>1
    <3> QED
      BY <1>2, <3>2, SlotsUpdated
  <2>5. RxTypeOK'
    BY <1>1, <1>6, <2>4 DEF RxQuery, ReceiverInv, RxTypeOK
  <2> QED
    BY <1>1, <2>3, <2>5, TypedReceiver DEF LinkInv
<1> QED
  BY <1>5, <1>6

LEMMA ReceiverFinalizes ==
  ASSUME ReceiverInv, LinkInv,
         RxFinalizeEarly \/ RxFinalize \/ RxAbort \/ RxIgnore
  PROVE  ReceiverInv' /\ LinkInv'
<1>1. fwd' \in Seq(FwdPacket) /\ rxPc' = "step"
  BY TakenPacket DEF RxFinalizeEarly, RxFinalize, RxAbort, RxIgnore
<1>2. rev' \in Seq(PaidResponse)
  <2>1. /\ Status("ERR_SIZE", 0) \in PaidResponse
        /\ Status("ERR_CRC_MISMATCH", -1) \in PaidResponse
        /\ Status("OK", rxTotal) \in PaidResponse
    <3>1. 0 \in -1 .. MaxWindows /\ -1 \in -1 .. MaxWindows /\ rxTotal \in -1 .. MaxWindows
      BY SizesAssumption DEF ReceiverInv, RxTypeOK
    <3> QED
      BY <3>1, RevPackets DEF Statuses
  <2>2. \/ rev' = rev
        \/ Respond(Status("ERR_SIZE", 0))
        \/ Respond(Status("ERR_CRC_MISMATCH", -1))
        \/ Respond(Status("OK", rxTotal))
    BY DEF RxFinalizeEarly, RxFinalize, RxAbort, RxIgnore
  <2> QED
    BY <2>1, <2>2, Responded DEF LinkInv
<1>3. /\ UNCHANGED <<rxTotal, committed, slots, target, staged>>
      /\ rxState' \in {rxState, "COMPLETE", "ABORTED"}
  BY DEF RxFinalizeEarly, RxFinalize, RxAbort, RxIgnore
<1>4. RxTypeOK'
  BY <1>1, <1>3 DEF ReceiverInv, RxTypeOK, RxStates
<1> QED
  BY <1>1, <1>2, <1>4, TypedReceiver DEF LinkInv

-----------------------------------------------------------------------------
(* The receiver flashes.                                                   *)

\* Refusing a window ends the transfer, beginning one aims at the next.
LEMMA ReceiverBegins ==
  ASSUME ReceiverInv, LinkInv,
         RxNothingToFlash \/ RxFlashRefused \/ RxFlashBegin
  PROVE  ReceiverInv' /\ LinkInv'
<1>1. CASE RxNothingToFlash
  BY <1>1 DEF RxNothingToFlash, ReceiverInv, RxTypeOK, LinkInv, links
<1>2. CASE RxFlashRefused
  <2>1. PICK s \in SlotIds :
          /\ slots' = [slots EXCEPT ![s].state = "ERROR"]
          /\ rxState' = "ABORTED" /\ rxPc' = "poll"
          /\ Respond(Ready(slots[s].win, "ERR_SIZE", 0))
          /\ UNCHANGED <<rxTotal, committed, target, staged, fwd>>
    BY <1>2 DEF RxFlashRefused
  <2>2. slots[s] \in Slot /\ slots[s].win \in Windows
    BY DEF ReceiverInv, RxTypeOK, Slot
  <2>3. rev' \in Seq(PaidResponse)
    BY <2>1, <2>2, RevPackets, Responded DEF Statuses
  <2>4. slots' \in [SlotIds -> Slot]
    <3>1. [slots[s] EXCEPT !.state = "ERROR"] \in Slot
      BY <2>2, SlotChanges DEF SlotStates
    <3> QED
      BY <2>1, <3>1 DEF ReceiverInv, RxTypeOK
  <2>5. RxTypeOK'
    BY <2>1, <2>4 DEF ReceiverInv, RxTypeOK, RxStates
  <2> QED
    BY <2>1, <2>3, <2>5, TypedReceiver DEF LinkInv
<1>3. CASE RxFlashBegin
  <2>1. PICK s \in SlotIds :
          /\ s \in Flashable /\ slots[s].win < StagingWindows
          /\ slots' = [slots EXCEPT ![s].state = "FLASHING"]
          /\ target' = [slot |-> s, win |-> slots[s].win]
          /\ rxPc' = "flashing"
          /\ UNCHANGED <<rxState, rxTotal, committed, staged, links>>
    BY <1>3 DEF RxFlashBegin, Flashes
  <2>2. slots[s] \in Slot /\ slots[s].win \in Windows /\ slots[s].win = committed
    BY <2>1 DEF ReceiverInv, RxTypeOK, Slot, Flashable
  <2>3. slots' \in [SlotIds -> Slot]
    <3>1. [slots[s] EXCEPT !.state = "FLASHING"] \in Slot
      BY <2>2, SlotChanges DEF SlotStates
    <3> QED
      BY <2>1, <3>1 DEF ReceiverInv, RxTypeOK
  <2>4. RxTypeOK'
    BY <2>1, <2>2, <2>3 DEF ReceiverInv, RxTypeOK
  <2>5. /\ target'.win < StagingWindows /\ target'.win = committed'
        /\ committed' < MaxWindows
    BY <2>1, <2>2, SizesAssumption DEF Windows
  <2> QED
    BY <2>1, <2>4, <2>5 DEF ReceiverInv, LinkInv, links
<1> QED
  BY <1>1, <1>2, <1>3

\* However an attempt ends, its response is paid for when it succeeded.
LEMMA ReceiverEnds ==
  ASSUME ReceiverInv, LinkInv, NEW fault, RxFlashEnd(fault)
  PROVE  ReceiverInv' /\ LinkInv'
<1> DEFINE s == target.slot
<1>1. /\ rxPc = "flashing" /\ rxPc' = "poll"
      /\ UNCHANGED <<rxState, rxTotal, target, fwd>>
      /\ \/ FlashSucceeds
         \/ \E status \in {"ERR_FLASH_ERASE", "ERR_FLASH_PROGRAM", "ERR_FLASH_VERIFY"} :
              FlashFails(status)
  BY DEF RxFlashEnd
<1>2. staged' \subseteq Windows
  <2>1. staged \subseteq Windows /\ target.win \in Windows
    BY DEF ReceiverInv, RxTypeOK
  <2>2. staged' \in {staged \cup {target.win}, staged \ {target.win}}
    BY DEF RxFlashEnd
  <2> QED
    BY <2>1, <2>2
<1>3. /\ s \in SlotIds /\ slots \in [SlotIds -> Slot]
      /\ slots[s] \in Slot /\ slots[s].win \in Windows
      /\ committed \in 0 .. MaxWindows /\ committed < MaxWindows
  BY <1>1 DEF ReceiverInv, RxTypeOK, Slot
<1>4. \E new \in Slot : slots' = [slots EXCEPT ![s] = new]
  <2>1. /\ [slots[s] EXCEPT !.state = "FREE"] \in Slot
        /\ Leave(slots[s], "READY_TO_FLASH") \in Slot
        /\ Leave(slots[s], "ERROR") \in Slot
    BY <1>3, SlotChanges DEF SlotStates
  <2>2. \/ slots' = [slots EXCEPT ![s] = [slots[s] EXCEPT !.state = "FREE"]]
        \/ slots' = [slots EXCEPT ![s] = Leave(slots[s], "READY_TO_FLASH")]
        \/ slots' = [slots EXCEPT ![s] = Leave(slots[s], "ERROR")]
    BY <1>1, <1>3 DEF FlashSucceeds, FlashFails
  <2> QED
    BY <2>1, <2>2
<1>5. committed' \in 0 .. MaxWindows
  BY <1>1, <1>3, SizesAssumption DEF FlashSucceeds, FlashFails
<1>6. rev' \in Seq(PaidResponse)
  <2>1. CASE FlashSucceeds
    BY <1>3, <2>1, RevPackets, Responded DEF FlashSucceeds
  <2>2. ASSUME NEW status \in {"ERR_FLASH_ERASE", "ERR_FLASH_PROGRAM", "ERR_FLASH_VERIFY"},
               FlashFails(status)
        PROVE  rev' \in Seq(PaidResponse)
    <3>1. Ready(slots[s].win, status, 0) \in PaidResponse
      BY <1>3, RevPackets DEF Statuses
    <3>2. rev' = rev \/ Respond(Ready(slots[s].win, status, 0))
      BY <2>2 DEF FlashFails
    <3> QED
      BY <3>1, <3>2, Responded DEF LinkInv
  <2> QED
    BY <1>1, <2>1, <2>2
<1>7. slots' \in [SlotIds -> Slot]
  BY <1>3, <1>4, SlotsUpdated
<1>8. RxTypeOK'
  BY <1>1, <1>2, <1>5, <1>7 DEF ReceiverInv, RxTypeOK
<1> QED
  BY <1>1, <1>6, <1>8, TypedReceiver DEF LinkInv

-----------------------------------------------------------------------------
(* Every step.                                                             *)

LEMMA StartKeeps ==
  ASSUME Inv, StartSession
  PROVE  Inv'
<1>1. PICK n \in ImageSizes : TxStart(n)
  BY DEF StartSession
<1>2. n \in Sizes /\ n \in 0 .. MaxWindows /\ n >= 1
  BY TransferAssumption, SizesAssumption DEF Sizes
<1>3. SenderInv'
  <2>1. /\ txState' = "START" /\ late' = FALSE /\ txPc = "loop" /\ txPc' = "loop"
        /\ txTotal' = n /\ sendWin' = 0 /\ commitWin' = 0 /\ credits' = 0
        /\ retries' = 0 /\ curChunk' = 0 /\ rtx' = {}
    BY <1>1 DEF TxStart, Enter
  <2>2. /\ txTotal' \in 0 .. MaxWindows /\ sendWin' \in 0 .. MaxWindows
        /\ commitWin' \in 0 .. MaxWindows /\ credits' \in Int
        /\ retries' \in 0 .. MaxRetries + 1 /\ curChunk' \in 0 .. Chunks
        /\ retries' # MaxRetries + 1
    BY <1>2, <2>1, SizesAssumption, SenderAssumption
  <2>3. txState' \in TxStates /\ late' \in BOOLEAN /\ rtx' \subseteq ChunkIds
    BY <2>1 DEF TxStates
  <2>4. TxTypeOK'
    BY <2>1, <2>2, <2>3 DEF TxTypeOK
  <2> QED
    BY <1>2, <2>1, <2>2, <2>4 DEF SenderInv, Sending, CreditsCoverSending
<1>4. LinkInv'
  <2>1. fwd' = Append(fwd, Start(n)) /\ rev' = <<>>
    BY <1>1 DEF TxStart, StartSession
  <2> QED
    BY <1>2, <2>1, FwdPackets DEF Inv, LinkInv
<1>5. ReceiverInv'
  <2>1. /\ rxState' = "IDLE" /\ rxTotal' = 0 /\ committed' = 0
        /\ slots' = ResetSlots /\ UNCHANGED <<rxPc, target, staged>>
    BY DEF StartSession
  <2>2. slots' \in [SlotIds -> Slot]
    BY <2>1, SlotsReset DEF Inv, ReceiverInv, RxTypeOK
  <2>3. RxTypeOK'
    BY <2>1, <2>2, SizesAssumption DEF Inv, ReceiverInv, RxTypeOK, RxStates
  <2> QED
    BY <2>1, <2>3, SizesAssumption DEF Inv, ReceiverInv
<1>6. EnvironmentInv'
  BY TransferAssumption DEF StartSession, Inv, EnvironmentInv
<1> QED
  BY <1>3, <1>4, <1>5, <1>6 DEF Inv

LEMMA SenderKeeps ==
  ASSUME Inv, SenderStep \/ SenderTimeout
  PROVE  Inv'
<1>1. SenderInv' /\ LinkInv'
  BY SenderStartAck, SenderQueryRespMissing, SenderQueryRespComplete, SenderFails,
     SenderReady, SenderIgnores, SenderSendWindow, SenderRetransmit, SenderTimesOut
     DEF SenderStep, SenderTimeout, Inv
<1>2. UNCHANGED <<rxVars, sessions, spent>>
  BY DEF SenderStep, SenderTimeout
<1>3. ReceiverInv'
  BY <1>2 DEF Inv, ReceiverInv, RxTypeOK, rxVars
<1>4. EnvironmentInv'
  BY <1>2 DEF Inv, EnvironmentInv
<1> QED
  BY <1>1, <1>3, <1>4 DEF Inv

\* The sender's variables, but for its clock, are left alone.
LEMMA SenderUntouched ==
  ASSUME SenderInv, late' \in BOOLEAN,
         UNCHANGED <<txState, txPc, txTotal, sendWin, commitWin, credits,
                     retries, curChunk, rtx>>
  PROVE  SenderInv'
BY DEF SenderInv, TxTypeOK, Sending, CreditsCoverSending

LEMMA Spending ==
  ASSUME EnvironmentInv, NEW f \in Faults, Strikes(f), UNCHANGED sessions
  PROVE  EnvironmentInv'
BY DEF EnvironmentInv, Strikes

LEMMA ReceiverKeeps ==
  ASSUME Inv, ReceiverStep \/ FlashStep
  PROVE  Inv'
<1>1. ReceiverInv' /\ LinkInv'
  BY ReceiverStarts, ReceiverData, ReceiverQuery, ReceiverFinalizes,
     ReceiverBegins, ReceiverEnds DEF ReceiverStep, FlashStep, Inv
<1>2. late \in BOOLEAN
  BY DEF Inv, SenderInv, TxTypeOK
<1>3. /\ UNCHANGED <<txState, txPc, txTotal, sendWin, commitWin, credits,
                     retries, curChunk, rtx, sessions>>
      /\ late' \in BOOLEAN
  BY <1>2 DEF ReceiverStep, FlashStep, txVars
<1>4. SenderInv'
  BY <1>3, SenderUntouched DEF Inv
<1>5. EnvironmentInv'
  <2>1. UNCHANGED spent \/ Strikes("flash")
    BY DEF ReceiverStep, FlashStep
  <2> QED
    BY <1>3, <2>1, Spending DEF Inv, EnvironmentInv, Faults
<1> QED
  BY <1>1, <1>4, <1>5 DEF Inv

LEMMA EnvironmentKeeps ==
  ASSUME Inv,
         \/ DropPacket \/ DamagePacket \/ DamageStart \/ RepeatPacket \/ LoseResponse
         \/ DecayFlash \/ AbortBoth
  PROVE  Inv'
<1>1. /\ UNCHANGED <<txVars, rxState, rxPc, rxTotal, committed, slots, target,
                     sessions>>
      /\ staged' \subseteq staged
      /\ \E f \in Faults : Strikes(f)
  BY DEF DropPacket, DamagePacket, DamageStart, RepeatPacket, LoseResponse, DecayFlash,
         AbortBoth, Faults, rxVars
<1>2. SenderInv'
  <2>1. late' \in BOOLEAN
    BY <1>1 DEF Inv, SenderInv, TxTypeOK, txVars
  <2> QED
    BY <1>1, <2>1, SenderUntouched DEF Inv, txVars
<1>3. ReceiverInv'
  BY <1>1 DEF Inv, ReceiverInv, RxTypeOK, rxVars
<1>4. EnvironmentInv'
  BY <1>1, Spending DEF Inv
<1>5. LinkInv'
  <2>1. CASE DropPacket \/ LoseResponse
    <3>1. fwd \in Seq(FwdPacket) /\ rev \in Seq(PaidResponse)
      BY DEF Inv, LinkInv
    <3>2. \/ fwd # <<>> /\ fwd' = Tail(fwd) /\ rev' = rev
          \/ rev # <<>> /\ rev' = Tail(rev) /\ fwd' = fwd
      BY <2>1 DEF DropPacket, LoseResponse
    <3>3. /\ fwd # <<>> => Tail(fwd) \in Seq(FwdPacket)
          /\ rev # <<>> => Tail(rev) \in Seq(PaidResponse)
      BY <3>1
    <3> QED
      BY <3>1, <3>2, <3>3 DEF LinkInv
  <2>2. CASE DamagePacket
    <3> DEFINE m == [Head(fwd) EXCEPT !.intact = FALSE]
    <3>1. Head(fwd) \in FwdPacket /\ Head(fwd).type = "DATA" /\ Tail(fwd) \in Seq(FwdPacket)
      BY <2>2 DEF DamagePacket, Inv, LinkInv
    <3>2. m \in FwdPacket
      BY <3>1 DEF FwdPacket
    <3>3. fwd' = <<m>> \o Tail(fwd) /\ rev' = rev
      BY <2>2 DEF DamagePacket
    <3> HIDE DEF m
    <3> QED
      BY <3>1, <3>2, <3>3 DEF Inv, LinkInv
  <2>3. CASE RepeatPacket
    <3>1. Head(fwd) \in FwdPacket /\ fwd' = <<Head(fwd)>> \o fwd /\ rev' = rev
      BY <2>3 DEF RepeatPacket, Inv, LinkInv
    <3> QED
      BY <3>1 DEF Inv, LinkInv
  <2>4. CASE AbortBoth
    <3>1. Abort \in FwdPacket /\ Abort \in PaidResponse
      BY FwdPackets, RevPackets
    <3>2. fwd' = Append(fwd, Abort) /\ rev' = Append(rev, Abort)
      BY <2>4 DEF AbortBoth
    <3> QED
      BY <3>1, <3>2 DEF Inv, LinkInv
  <2>5. CASE DecayFlash
    BY <2>5 DEF DecayFlash, links, Inv, LinkInv
  <2>6. CASE DamageStart
    <3> DEFINE m == [Head(fwd) EXCEPT !.magic = FALSE]
    <3>1. Head(fwd) \in FwdPacket /\ Head(fwd).type = "START" /\ Tail(fwd) \in Seq(FwdPacket)
      BY <2>6 DEF DamageStart, Inv, LinkInv
    <3>2. m \in FwdPacket
      BY <3>1 DEF FwdPacket
    <3>3. fwd' = <<m>> \o Tail(fwd) /\ rev' = rev
      BY <2>6 DEF DamageStart
    <3> HIDE DEF m
    <3> QED
      BY <3>1, <3>2, <3>3 DEF Inv, LinkInv
  <2> QED
    BY <2>1, <2>2, <2>3, <2>4, <2>5, <2>6
<1> QED
  BY <1>2, <1>3, <1>4, <1>5 DEF Inv

LEMMA NextInv == Inv /\ [Next]_vars => Inv'
<1> SUFFICES ASSUME Inv, [Next]_vars PROVE Inv'
  OBVIOUS
<1>1. CASE Next
  BY <1>1, StartKeeps, SenderKeeps, ReceiverKeeps, EnvironmentKeeps DEF Next
<1>2. CASE UNCHANGED vars
  <2>1. UNCHANGED <<txVars, rxVars, fwd, rev, sessions, spent>>
    BY <1>2 DEF vars, links
  <2>2. SenderInv'
    BY <2>1 DEF Inv, SenderInv, TxTypeOK, Sending, CreditsCoverSending, txVars
  <2>3. ReceiverInv' /\ LinkInv' /\ EnvironmentInv'
    BY <2>1 DEF Inv, ReceiverInv, RxTypeOK, LinkInv, EnvironmentInv, rxVars
  <2> QED
    BY <2>2, <2>3 DEF Inv
<1> QED
  BY <1>1, <1>2

-----------------------------------------------------------------------------
(* The end of the staging area.                                            *)

\* No response reports a window past the end committed, or a larger image good.
Fitting ==
  {m \in PaidResponse :
     /\ m.type = "READY" /\ m.status = "OK" => m.win < StagingWindows
     /\ m.type = "STATUS" => m.crc <= StagingWindows}

\* The window a READY will name stays below the end also when the slot is reset
\* under a flash attempt.
BoundInv ==
  /\ OversizeNeverStaged
  /\ rxTotal <= StagingWindows
  /\ rxPc = "flashing" => slots[target.slot].win < StagingWindows
  /\ rev \in Seq(Fitting)

\* Responses that say nothing of the kind.
LEMMA FittingResponses ==
  \A m \in PaidResponse :
    (\/ m.type \in {"START_ACK", "QUERY_RESP", "ABORT"}
     \/ m.type = "READY" /\ m.status # "OK") => m \in Fitting
BY DEF Fitting

LEMMA BoundInit == Init => BoundInv
<1> SUFFICES ASSUME Init PROVE BoundInv
  OBVIOUS
<1>1. StagingWindows \in Nat \ {0}
  BY SizesAssumption
<1>2. /\ staged = {} /\ commitWin = 0 /\ txState = "IDLE" /\ rxTotal = 0
      /\ rxPc = "poll" /\ rev = <<>>
  BY DEF Init, TxInit, RxInit
<1> QED
  BY <1>1, <1>2 DEF BoundInv, OversizeNeverStaged

\* What the sender makes of a response it reads.
LEMMA SenderBelieves ==
  ASSUME SenderStep \/ SenderTimeout
  PROVE  /\ UNCHANGED rxVars /\ txTotal' = txTotal
         /\ rev' = rev \/ (rev # <<>> /\ rev' = Tail(rev))
         /\ \/ commitWin' = commitWin
            \/ /\ rev # <<>> /\ Head(rev).type = "READY" /\ Head(rev).status = "OK"
               /\ commitWin' = Head(rev).win + 1
         /\ txState' = "COMPLETE" =>
              \/ txState = "COMPLETE"
              \/ rev # <<>> /\ Head(rev).type = "STATUS" /\ Head(rev).crc = txTotal
<1> USE DEF SenderStep, SenderTimeout
<1>1. CASE TxReady
  BY <1>1 DEF TxReady, Receives, OpenWindow, Enter
<1>2. CASE TxStatus
  BY <1>2 DEF TxStatus, Receives
<1>3. CASE TxStartAck \/ TxQueryRespMissing \/ TxQueryRespComplete \/ TxReadyError \/ TxAbort
  BY <1>3 DEF TxStartAck, TxQueryRespMissing, TxQueryRespComplete, TxReadyError, TxAbort,
     Receives, OpenWindow, Enter
<1>4. CASE TxIgnore \/ TxDrained \/ TxWait
  BY <1>4 DEF TxIgnore, TxDrained, TxWait, Receives, links
<1>5. CASE TxSendWindow \/ TxRetransmit
  BY <1>5 DEF TxSendWindow, TxRetransmit, SendBurst, Enter
<1>6. CASE SenderTimeout
  BY <1>6 DEF TxStartTimeout, TxQueryTimeout, TxFinalizeTimeout, TxTimeout,
     TxReadyTimeout, links
<1> QED
  BY <1>1, <1>2, <1>3, <1>4, <1>5, <1>6

LEMMA BoundSender ==
  ASSUME Inv, BoundInv, SenderStep \/ SenderTimeout
  PROVE  BoundInv'
<1>1. rev # <<>> => Head(rev) \in Fitting /\ Tail(rev) \in Seq(Fitting)
  BY DEF BoundInv
<1>2. rev' \in Seq(Fitting)
  BY <1>1, SenderBelieves DEF BoundInv
<1>3. commitWin' <= StagingWindows
  <2>1. CASE commitWin' = commitWin
    BY <2>1 DEF BoundInv, OversizeNeverStaged
  <2>2. CASE /\ rev # <<>> /\ Head(rev).type = "READY" /\ Head(rev).status = "OK"
             /\ commitWin' = Head(rev).win + 1
    <3>1. Head(rev).win < StagingWindows /\ Head(rev) \in PaidResponse
      BY <1>1, <2>2 DEF Fitting
    <3>2. Head(rev).win \in Int
      BY <2>2, <3>1, RevFields DEF Windows
    <3> QED
      BY <2>2, <3>1, <3>2, SizesAssumption
  <2> QED
    BY <2>1, <2>2, SenderBelieves
<1>4. txState' = "COMPLETE" => txTotal' <= StagingWindows
  BY <1>1, SenderBelieves DEF BoundInv, OversizeNeverStaged, Fitting
<1> QED
  BY <1>2, <1>3, <1>4, SenderBelieves DEF BoundInv, OversizeNeverStaged, rxVars

LEMMA FittingAppended ==
  ASSUME BoundInv, NEW m \in Fitting, Respond(m)
  PROVE  rev' \in Seq(Fitting)
BY DEF BoundInv, Respond

\* The receiver outside a flash attempt.
LEMMA BoundReceiver ==
  ASSUME Inv, BoundInv, ReceiverStep
  PROVE  BoundInv'
<1>1. UNCHANGED <<txVars, staged>>
  BY DEF ReceiverStep, RxStartRefused, RxStart, RxData, RxQueryUnknown, RxQuery,
     RxFinalizeEarly, RxAbort, RxIgnore, RxNothingToFlash, RxFlashRefused, RxFlashBegin
<1>2. OversizeNeverStaged'
  BY <1>1 DEF BoundInv, OversizeNeverStaged, txVars
<1>3. rxTotal' <= StagingWindows
  BY DEF ReceiverStep, RxStartRefused, RxStart, RxData, RxQueryUnknown, RxQuery,
     RxFinalizeEarly, RxAbort, RxIgnore, RxNothingToFlash, RxFlashRefused, RxFlashBegin,
     BoundInv
<1>4. rxPc' = "flashing" => slots'[target'.slot].win < StagingWindows
  <2>1. CASE RxFlashBegin
    <3>1. PICK s \in SlotIds :
            /\ slots[s].win < StagingWindows
            /\ slots' = [slots EXCEPT ![s].state = "FLASHING"]
            /\ target' = [slot |-> s, win |-> slots[s].win]
      BY <2>1 DEF RxFlashBegin
    <3>2. slots \in [SlotIds -> Slot]
      BY DEF Inv, ReceiverInv, RxTypeOK
    <3>3. slots'[s].win = slots[s].win
      BY <3>1, <3>2 DEF Slot
    <3> QED
      BY <3>1, <3>3
  <2>2. CASE ~ RxFlashBegin
    BY <2>2 DEF ReceiverStep, RxStartRefused, RxStart, RxData, RxQueryUnknown, RxQuery,
       RxFinalizeEarly, RxAbort, RxIgnore, RxNothingToFlash, RxFlashRefused, Takes
  <2> QED
    BY <2>1, <2>2
<1>5. UNCHANGED rev \/ \E m \in Fitting : Respond(m)
  <2>1. CASE RxStartRefused
    <3>1. \A st \in {"ERR_MAGIC", "ERR_SIZE"} :
            /\ StartAck(st, 0) \in PaidResponse
            /\ StartAck(st, 0).type = "START_ACK"
      BY RevPackets DEF Statuses, StartAck
    <3>2. \E st \in {"ERR_MAGIC", "ERR_SIZE"} : Respond(StartAck(st, 0))
      BY <2>1 DEF RxStartRefused
    <3> QED
      BY <3>1, <3>2, FittingResponses
  <2>2. CASE RxStart
    <3>1. GrantedCredits \in Nat \ {0}
      BY SizesAssumption DEF GrantedCredits
    <3>2. StartAck("OK", GrantedCredits).type = "START_ACK"
      BY DEF StartAck
    <3> QED
      BY <2>2, <3>1, <3>2, RevPackets, FittingResponses DEF RxStart
  <2>3. CASE RxQueryUnknown \/ RxQuery
    <3>1. PICK w, ms : Respond(QueryResp(w, ms))
      BY <2>3 DEF RxQueryUnknown, RxQuery
    <3>2. rev' \in Seq(PaidResponse) /\ rev \in Seq(PaidResponse)
      BY ReceiverKeeps DEF Inv, LinkInv
    <3>3. rev' = Append(rev, QueryResp(w, ms))
      BY <3>1 DEF Respond
    <3>4. QueryResp(w, ms) = rev'[Len(rev) + 1] /\ Len(rev) + 1 \in 1 .. Len(rev')
      BY <3>2, <3>3
    <3>5. QueryResp(w, ms) \in PaidResponse
      BY <3>2, <3>4
    <3>6. QueryResp(w, ms).type = "QUERY_RESP"
      BY DEF QueryResp
    <3> QED
      BY <3>1, <3>5, <3>6, FittingResponses
  <2>4. CASE RxFinalizeEarly
    <3>1. /\ Status("ERR_SIZE", 0) \in PaidResponse
          /\ Status("ERR_SIZE", 0).type = "STATUS" /\ Status("ERR_SIZE", 0).crc = 0
      BY RevPackets, SizesAssumption DEF Status, Statuses
    <3> QED
      BY <2>4, <3>1, SizesAssumption DEF RxFinalizeEarly, Fitting
  <2>5. CASE RxFlashRefused
    <3>1. PICK s \in SlotIds : Respond(Ready(slots[s].win, "ERR_SIZE", 0))
      BY <2>5 DEF RxFlashRefused
    <3>2. slots[s].win \in Windows
      BY DEF Inv, ReceiverInv, RxTypeOK, Slot
    <3>3. Ready(slots[s].win, "ERR_SIZE", 0) \in PaidResponse
      BY <3>2, RevPackets DEF Statuses
    <3>4. /\ Ready(slots[s].win, "ERR_SIZE", 0).type = "READY"
          /\ Ready(slots[s].win, "ERR_SIZE", 0).status # "OK"
      BY DEF Ready
    <3> QED
      BY <3>1, <3>3, <3>4, FittingResponses
  <2>6. CASE RxData \/ RxAbort \/ RxIgnore \/ RxNothingToFlash \/ RxFlashBegin
    BY <2>6 DEF RxData, RxAbort, RxIgnore, RxNothingToFlash, RxFlashBegin, links
  <2> QED
    BY <2>1, <2>2, <2>3, <2>4, <2>5, <2>6 DEF ReceiverStep
<1>6. rev' \in Seq(Fitting)
  BY <1>5, FittingAppended DEF BoundInv
<1> QED
  BY <1>2, <1>3, <1>4, <1>6 DEF BoundInv

\* The end of a flash attempt, and the check of the image.
LEMMA BoundFlash ==
  ASSUME Inv, BoundInv, FlashStep
  PROVE  BoundInv'
<1>1. UNCHANGED <<txState, txTotal, commitWin, rxTotal>> /\ rxPc' # "flashing"
  BY DEF FlashStep, RxFlashEnd, RxFinalize, Takes
<1>2. CASE RxFinalize
  <2>1. /\ Status("OK", rxTotal) \in PaidResponse
        /\ Status("ERR_CRC_MISMATCH", -1) \in PaidResponse
    <3>1. rxTotal \in -1 .. MaxWindows /\ -1 \in -1 .. MaxWindows
      BY SizesAssumption DEF Inv, ReceiverInv, RxTypeOK
    <3> QED
      BY <3>1, RevPackets DEF Statuses
  <2>2. /\ Status("OK", rxTotal) \in Fitting
        /\ Status("ERR_CRC_MISMATCH", -1) \in Fitting
    BY <2>1, SizesAssumption DEF Fitting, Status, BoundInv
  <2>3. rev' \in Seq(Fitting) /\ UNCHANGED staged
    BY <1>2, <2>2, FittingAppended DEF RxFinalize
  <2> QED
    BY <1>1, <2>3 DEF BoundInv, OversizeNeverStaged
<1>3. ASSUME NEW fault, RxFlashEnd(fault)
      PROVE  BoundInv'
  <2> DEFINE win == slots[target.slot].win
  <2>1. /\ rxPc = "flashing"
        /\ staged' \in {staged \cup {target.win}, staged \ {target.win}}
        /\ \/ FlashSucceeds
           \/ \E st \in {"ERR_FLASH_ERASE", "ERR_FLASH_PROGRAM", "ERR_FLASH_VERIFY"} :
                FlashFails(st)
    BY <1>3 DEF RxFlashEnd
  <2>2. /\ target.win \in Windows /\ target.win < StagingWindows
        /\ win \in Windows
    BY <2>1 DEF Inv, ReceiverInv, RxTypeOK, Slot
  <2>3. staged' \subseteq 0 .. StagingWindows - 1
    <3>1. target.win \in 0 .. StagingWindows - 1
      BY <2>2, SizesAssumption DEF Windows
    <3> QED
      BY <2>1, <3>1 DEF BoundInv, OversizeNeverStaged
  <2>4. UNCHANGED rev \/ \E m \in Fitting : Respond(m)
    <3>1. CASE FlashSucceeds
      <4>1. /\ Ready(win, "OK", 1) \in PaidResponse
            /\ Ready(win, "OK", 1).type = "READY" /\ Ready(win, "OK", 1).win = win
        BY <2>2, RevPackets DEF Ready
      <4>2. Ready(win, "OK", 1) \in Fitting
        BY <2>1, <4>1 DEF Fitting, BoundInv
      <4> QED
        BY <3>1, <4>2 DEF FlashSucceeds
    <3>2. ASSUME NEW st \in {"ERR_FLASH_ERASE", "ERR_FLASH_PROGRAM", "ERR_FLASH_VERIFY"},
                 FlashFails(st)
          PROVE  UNCHANGED rev \/ \E m \in Fitting : Respond(m)
      <4>1. Ready(win, st, 0) \in PaidResponse
        BY <2>2, RevPackets DEF Statuses
      <4>2. Ready(win, st, 0).type = "READY" /\ Ready(win, st, 0).status # "OK"
        BY DEF Ready
      <4>3. Ready(win, st, 0) \in Fitting
        BY <4>1, <4>2, FittingResponses
      <4> QED
        BY <3>2, <4>3 DEF FlashFails
    <3> QED
      BY <2>1, <3>1, <3>2
  <2>5. rev' \in Seq(Fitting)
    BY <2>4, FittingAppended DEF BoundInv
  <2> QED
    BY <1>1, <2>3, <2>5 DEF BoundInv, OversizeNeverStaged
<1> QED
  BY <1>2, <1>3 DEF FlashStep

LEMMA BoundEnvironment ==
  ASSUME Inv, BoundInv,
         \/ DropPacket \/ DamagePacket \/ DamageStart \/ RepeatPacket \/ LoseResponse
         \/ DecayFlash \/ AbortBoth
  PROVE  BoundInv'
<1>1. /\ UNCHANGED <<txState, txTotal, commitWin, rxTotal, rxPc, slots, target>>
      /\ staged' \subseteq staged
      /\ rev' = rev \/ (rev # <<>> /\ rev' = Tail(rev)) \/ rev' = Append(rev, Abort)
  BY DEF DropPacket, DamagePacket, DamageStart, RepeatPacket, LoseResponse, DecayFlash,
     AbortBoth, txVars, rxVars, links
<1>2. Abort \in Fitting
  <2>1. Abort.type = "ABORT"
    BY DEF Abort
  <2> QED
    BY <2>1, RevPackets, FittingResponses
<1>3. rev' \in Seq(Fitting)
  BY <1>1, <1>2 DEF BoundInv
<1> QED
  BY <1>1, <1>3 DEF BoundInv, OversizeNeverStaged

LEMMA BoundKept ==
  ASSUME Inv, BoundInv, [Next]_vars
  PROVE  BoundInv'
<1>1. CASE StartSession
  <2>1. /\ staged' = staged /\ commitWin' = 0 /\ txState' = "START"
        /\ rxTotal' = 0 /\ rev' = <<>> /\ slots' = ResetSlots /\ UNCHANGED target
    BY <1>1 DEF StartSession, TxStart, Enter
  <2>2. slots'[target'.slot].win = 0
    <3>1. slots \in [SlotIds -> Slot] /\ target.slot \in SlotIds
      BY DEF Inv, ReceiverInv, RxTypeOK
    <3>2. \A s \in SlotIds : ResetSlot(slots[s]).win = 0
      BY <3>1 DEF ResetSlot, Slot
    <3> QED
      BY <2>1, <3>1, <3>2 DEF ResetSlots
  <2> QED
    BY <2>1, <2>2, SizesAssumption DEF BoundInv, OversizeNeverStaged
<1>2. CASE UNCHANGED vars
  BY <1>2 DEF BoundInv, OversizeNeverStaged, vars, txVars, rxVars, links
<1> QED
  BY <1>1, <1>2, BoundSender, BoundReceiver, BoundFlash, BoundEnvironment DEF Next

-----------------------------------------------------------------------------
(* The theorems.                                                           *)

\* The invariant holds in every reachable state of every transfer.
THEOREM Invariance == Spec => []Inv
BY InitInv, NextInv, PTL DEF Spec

\* TypeOK, of ota_sender.c and ota_receiver.c: every variable stays in its
\* range; in particular the retries never run past the limit.
THEOREM TransferType == Spec => []TypeOK
<1>1. Inv => TypeOK
  <2> SUFFICES ASSUME Inv PROVE TypeOK
    OBVIOUS
  <2>1. PaidResponse \subseteq RevPacket
    BY DEF PaidResponse
  <2>2. rev \in Seq(RevPacket)
    BY <2>1 DEF Inv, LinkInv
  <2> QED
    BY <2>2 DEF Inv, SenderInv, LinkInv, ReceiverInv, EnvironmentInv, TypeOK
<1> QED
  BY <1>1, Invariance, PTL

\* CreditsCoverSending: the sender of ota_sender.c sends only against a
\* credit and its int16 counter never goes below zero, whatever responses are
\* lost, late or of an earlier session.
THEOREM Credits == Spec => []CreditsCoverSending
<1>1. Inv => CreditsCoverSending
  BY DEF Inv, SenderInv
<1> QED
  BY <1>1, Invariance, PTL

\* OversizeNeverStaged, of ota_receiver.c and ota_sender.c: an image too large is
\* never staged past the end, reported committed there, nor completed, not even
\* when the START of an earlier image was accepted in the place of its own.
THEOREM Oversize == Spec => []OversizeNeverStaged
<1>1. Init => BoundInv
  BY BoundInit
<1>2. Inv /\ BoundInv /\ [Next]_vars => BoundInv'
  BY BoundKept
<1>3. BoundInv => OversizeNeverStaged
  BY DEF BoundInv
<1> QED
  BY <1>1, <1>2, <1>3, Invariance, PTL DEF Spec

\* CommitsInOrder: step_flash commits the windows of a transfer one at a
\* time, in order, each when the flash holds it.
THEOREM Order == Spec => CommitsInOrder
<1> DEFINE A == rxState = "TRANSFER" /\ committed' # committed =>
                  \/ committed' = 0
                  \/ /\ committed' = committed + 1
                     /\ target.win = committed
                     /\ target.win \in staged'
<1>1. Inv /\ [Next]_vars => [A]_vars
  <2> SUFFICES ASSUME Inv, Next, rxState = "TRANSFER", committed' # committed,
                      committed' # 0
               PROVE  /\ committed' = committed + 1
                      /\ target.win = committed
                      /\ target.win \in staged'
    OBVIOUS
  <2>1. \E fault : RxFlashEnd(fault)
    <3>1. FlashStep \/ ReceiverStep \/ StartSession
      BY DEF Next, SenderStep, SenderTimeout, DropPacket, DamagePacket,
             DamageStart, RepeatPacket, LoseResponse, DecayFlash, AbortBoth, rxVars
    <3>2. ~ StartSession
      BY DEF StartSession
    <3>3. ~ ReceiverStep
      BY DEF ReceiverStep, RxStartRefused, RxStart, RxData, RxQueryUnknown, RxQuery,
             RxFinalizeEarly, RxAbort, RxIgnore, RxNothingToFlash, RxFlashRefused,
             RxFlashBegin
    <3>4. ~ RxFinalize
      BY DEF RxFinalize
    <3> QED
      BY <3>1, <3>2, <3>3, <3>4 DEF FlashStep
  <2>2. rxPc = "flashing" /\ FlashSucceeds /\ target.win \in staged'
    BY <2>1 DEF RxFlashEnd, FlashFails
  <2> QED
    BY <2>2 DEF FlashSucceeds, Inv, ReceiverInv
<1> QED
  BY <1>1, Invariance, PTL DEF Spec, CommitsInOrder

-----------------------------------------------------------------------------
(* What the transfer promises its user: the properties that need to know   *)
(* which session a packet, a response and a slot belong to, and the        *)
(* refinement of OtaPromise.                                               *)
(*                                                                         *)
(* They do not hold of every sequence of sessions.  A session that failed  *)
(* may leave its START on the wire, and a receiver that takes it when the  *)
(* next session is under way is reset by a packet nobody waits for.  The   *)
(* theorems are about behaviours in which this is not so, and about the    *)
(* first session of every behaviour.  Everything else a session may leave  *)
(* behind, its data, its QUERYs, its FINALIZEs and a flash attempt under   *)
(* way, is covered.                                                        *)

\* A START waits on the wire or in the DMA ring.
StartWaiting == \E j \in 1 .. Len(fwd) : fwd[j].type = "START"

\* The receiver may still be told to begin the transfer of this session.
Early == StartWaiting \/ txState = "START"

\* The next session begins only when no START is left of one that failed: the
\* user who presses the key again leaves core 1 the milliseconds it needs to
\* take what is in its ring.  After a success nothing is asked of the user.
Orderly == StartSession /\ txState = "FAILED" => ~ StartWaiting

OrderlySessions == [][Orderly]_vars

-----------------------------------------------------------------------------
(* What waits on the wire.                                                 *)

\* The receiver will be, or already is, in TRANSFER when it takes packet i:
\* the others are of an earlier session, or of one whose START is lost, and
\* mean nothing to it.
Live(i) ==
  rxState = "TRANSFER" \/ \E j \in 1 .. i - 1 : fwd[j].type = "START"

OfTransfer(m) == m.type \in {"DATA", "QUERY", "FINALIZE"}

\* What CurrentQuery may be of the image being sent.
WellAsked(m) == m.win < txTotal /\ m.total = ChunksIn(txTotal, m.win)

\* Every START is of this session and comes before what is sent after its
\* answer.
WireInv ==
  /\ \A i \in 1 .. Len(fwd) : fwd[i].type = "START" => fwd[i].total = txTotal
  /\ \A i \in 1 .. Len(fwd) : fwd[i].type = "QUERY" /\ Live(i) => WellAsked(fwd[i])
  /\ \A i, j \in 1 .. Len(fwd) :
       i < j /\ fwd[j].type = "START" /\ OfTransfer(fwd[i]) => ~ Live(i)
  /\ txState = "START" =>
       \A i \in 1 .. Len(fwd) : OfTransfer(fwd[i]) => ~ Live(i)
  /\ txState = "IDLE" => ~ StartWaiting /\ rxState \in {"IDLE", "ABORTED"}

\* A step that leaves the wire alone, and at most ends the transfer.
LEMMA WireSame ==
  ASSUME WireInv, UNCHANGED <<fwd, txTotal>>,
         rxState' = "TRANSFER" => rxState = "TRANSFER",
         txState' \in {"START", "IDLE"} => txState' = txState,
         txState' = "IDLE" => rxState' \in {"IDLE", "ABORTED"}
  PROVE  WireInv'
<1>1. \A i \in 1 .. Len(fwd) : Live(i)' => Live(i)
  BY DEF Live
<1> QED
  BY <1>1 DEF WireInv, StartWaiting, OfTransfer, WellAsked

\* The oldest packet is taken or lost.
LEMMA WireTail ==
  ASSUME WireInv, fwd \in Seq(FwdPacket), fwd # <<>>, fwd' = Tail(fwd),
         UNCHANGED <<txState, txTotal>>,
         rxState' = "TRANSFER" =>
           rxState = "TRANSFER" \/ Head(fwd).type = "START",
         txState' = "IDLE" => rxState' \in {"IDLE", "ABORTED"}
  PROVE  WireInv' /\ (StartWaiting' => StartWaiting)
<1>1. /\ Len(fwd) \in Nat /\ Len(fwd) >= 1 /\ Len(fwd') = Len(fwd) - 1
      /\ \A i \in 1 .. Len(fwd') : fwd'[i] = fwd[i + 1]
      /\ Head(fwd) = fwd[1]
  OBVIOUS
<1>2. \A i \in 1 .. Len(fwd') : i + 1 \in 1 .. Len(fwd)
  BY <1>1
<1>3. ASSUME NEW i \in 1 .. Len(fwd'), Live(i)' PROVE Live(i + 1)
  <2>1. CASE rxState' = "TRANSFER"
    BY <1>1, <1>2, <2>1 DEF Live
  <2>2. CASE \E j \in 1 .. i - 1 : fwd'[j].type = "START"
    <3>1. PICK j \in 1 .. i - 1 : fwd'[j].type = "START"
      BY <2>2
    <3>2. fwd[j + 1].type = "START" /\ j + 1 \in 1 .. (i + 1) - 1
      BY <1>1, <3>1
    <3> QED
      BY <3>2 DEF Live
  <2> QED
    BY <1>3, <2>1, <2>2 DEF Live
<1>4. \A i \in 1 .. Len(fwd') : fwd'[i].type = "START" => fwd'[i].total = txTotal'
  BY <1>1, <1>2 DEF WireInv
<1>5. \A i \in 1 .. Len(fwd') : fwd'[i].type = "QUERY" /\ Live(i)' => WellAsked(fwd[i + 1])
  BY <1>1, <1>2, <1>3 DEF WireInv
<1>6. \A i, j \in 1 .. Len(fwd') :
        i < j /\ fwd'[j].type = "START" /\ OfTransfer(fwd[i + 1]) => ~ Live(i)'
  BY <1>1, <1>2, <1>3 DEF WireInv
<1>7. txState' = "START" =>
        \A i \in 1 .. Len(fwd') : OfTransfer(fwd[i + 1]) => ~ Live(i)'
  BY <1>1, <1>2, <1>3 DEF WireInv
<1>9. StartWaiting' => StartWaiting
  BY <1>1, <1>2 DEF StartWaiting
<1>8. txState' = "IDLE" => ~ StartWaiting'
  BY <1>9 DEF WireInv
<1> QED
  BY <1>1, <1>4, <1>5, <1>6, <1>7, <1>8, <1>9 DEF WireInv, OfTransfer, WellAsked

\* Packets other than START are added behind the others.
LEMMA WireGrows ==
  ASSUME WireInv, fwd \in Seq(FwdPacket), fwd' \in Seq(FwdPacket),
         Len(fwd') >= Len(fwd),
         \A i \in 1 .. Len(fwd) : fwd'[i] = fwd[i],
         \A i \in 1 .. Len(fwd') : i > Len(fwd) =>
           /\ fwd'[i].type # "START"
           /\ fwd'[i].type = "QUERY" => WellAsked(fwd'[i])
           /\ OfTransfer(fwd'[i]) => txState' # "START",
         UNCHANGED <<txTotal, rxState>>,
         txState' \in {"START", "IDLE"} => txState' = txState
  PROVE  WireInv' /\ (StartWaiting' => StartWaiting)
<1>1. Len(fwd) \in Nat /\ Len(fwd') \in Nat
  OBVIOUS
<1>2. ASSUME NEW i \in 1 .. Len(fwd), Live(i)' PROVE Live(i)
  BY <1>1, <1>2 DEF Live
<1>3. \A i \in 1 .. Len(fwd') : fwd'[i].type = "START" => fwd'[i].total = txTotal'
  BY <1>1 DEF WireInv
<1>4. ASSUME NEW i \in 1 .. Len(fwd'), fwd'[i].type = "QUERY", Live(i)'
      PROVE  WellAsked(fwd'[i])
  <2>1. CASE i \in 1 .. Len(fwd)
    BY <1>2, <1>4, <2>1 DEF WireInv
  <2>2. CASE i > Len(fwd)
    BY <1>4, <2>2
  <2> QED
    BY <1>1, <2>1, <2>2
<1>5. ASSUME NEW i \in 1 .. Len(fwd'), NEW j \in 1 .. Len(fwd'),
             i < j, fwd'[j].type = "START", OfTransfer(fwd'[i])
      PROVE  ~ Live(i)'
  <2>1. j \in 1 .. Len(fwd) /\ i \in 1 .. Len(fwd)
    BY <1>1, <1>5
  <2> QED
    BY <1>2, <1>5, <2>1 DEF WireInv
<1>6. ASSUME txState' = "START", NEW i \in 1 .. Len(fwd'), OfTransfer(fwd'[i])
      PROVE  ~ Live(i)'
  <2>1. i \in 1 .. Len(fwd) /\ txState = "START"
    BY <1>1, <1>6
  <2> QED
    BY <1>2, <1>6, <2>1 DEF WireInv
<1>8. StartWaiting' => StartWaiting
  BY <1>1 DEF StartWaiting
<1>7. txState' = "IDLE" => ~ StartWaiting' /\ rxState' \in {"IDLE", "ABORTED"}
  BY <1>8 DEF WireInv
<1> QED
  BY <1>3, <1>4, <1>5, <1>6, <1>7, <1>8 DEF WireInv, OfTransfer, WellAsked

\* Another START of this session is added, by a sender that still waits for
\* the answer.
LEMMA WireStartAgain ==
  ASSUME WireInv, fwd \in Seq(FwdPacket), txTotal \in Sizes,
         txState = "START", txState' = "START",
         fwd' = Append(fwd, Start(txTotal)), UNCHANGED <<txTotal, rxState>>
  PROVE  WireInv'
<1>1. /\ Len(fwd) \in Nat /\ Len(fwd') = Len(fwd) + 1
      /\ \A i \in 1 .. Len(fwd) : fwd'[i] = fwd[i]
      /\ fwd'[Len(fwd) + 1] = Start(txTotal)
  OBVIOUS
<1>2. Start(txTotal).type = "START" /\ Start(txTotal).total = txTotal
  BY DEF Start
<1>3. ASSUME NEW i \in 1 .. Len(fwd), Live(i)' PROVE Live(i)
  BY <1>1, <1>3 DEF Live
<1>4. \A i \in 1 .. Len(fwd') : i \in 1 .. Len(fwd) \/ fwd'[i] = Start(txTotal)
  BY <1>1
<1>5. \A i \in 1 .. Len(fwd') :
        OfTransfer(fwd'[i]) => i \in 1 .. Len(fwd) /\ OfTransfer(fwd[i])
  BY <1>1, <1>2, <1>4 DEF OfTransfer
<1>6. \A i \in 1 .. Len(fwd') : OfTransfer(fwd'[i]) => ~ Live(i)'
  BY <1>3, <1>5 DEF WireInv
<1>7. \A i \in 1 .. Len(fwd') : fwd'[i].type = "START" => fwd'[i].total = txTotal
  BY <1>1, <1>2, <1>4 DEF WireInv
<1>8. \A i \in 1 .. Len(fwd') : ~ (fwd'[i].type = "QUERY" /\ Live(i)')
  BY <1>6 DEF OfTransfer
<1> QED
  BY <1>6, <1>7, <1>8 DEF WireInv, OfTransfer

\* The oldest packet, a DATA packet, is damaged or repeated.
LEMMA WireData ==
  ASSUME WireInv, fwd \in Seq(FwdPacket), fwd # <<>>, Head(fwd).type = "DATA",
         NEW m, m.type = "DATA",
         fwd' = <<m>> \o Tail(fwd) \/ fwd' = <<m>> \o fwd,
         UNCHANGED <<txState, txTotal, rxState>>
  PROVE  WireInv' /\ (StartWaiting' => StartWaiting)
<1> DEFINE d == Len(fwd') - Len(fwd)
<1>1. /\ Len(fwd) \in Nat /\ Len(fwd) >= 1 /\ Len(fwd') \in Nat
      /\ d \in {0, 1} /\ fwd'[1] = m /\ fwd[1] = Head(fwd)
      /\ \A i \in 2 .. Len(fwd') : fwd'[i] = fwd[i - d]
  <2>1. CASE fwd' = <<m>> \o Tail(fwd)
    <3>1. /\ Tail(fwd) \in Seq(FwdPacket) /\ Len(Tail(fwd)) = Len(fwd) - 1
          /\ \A i \in 1 .. Len(fwd) - 1 : Tail(fwd)[i] = fwd[i + 1]
      OBVIOUS
    <3>2. \A i \in 2 .. Len(fwd) : fwd'[i] = Tail(fwd)[i - 1]
      BY <2>1, <3>1
    <3>3. \A i \in 2 .. Len(fwd) : i - 1 \in 1 .. Len(fwd) - 1 /\ (i - 1) + 1 = i
      OBVIOUS
    <3>4. \A i \in 2 .. Len(fwd) : fwd'[i] = fwd[i]
      BY <3>1, <3>2, <3>3
    <3> QED
      BY <2>1, <3>1, <3>4
  <2>2. CASE fwd' = <<m>> \o fwd
    BY <2>2
  <2> QED
    BY <2>1, <2>2
<1> HIDE DEF d
<1>2. d \in Int /\ \A i \in 2 .. Len(fwd') : i - d \in 1 .. Len(fwd)
  BY <1>1 DEF d
<1>3. ASSUME NEW i \in 2 .. Len(fwd'), Live(i)' PROVE Live(i - d)
  <2>1. ASSUME NEW j \in 1 .. i - 1, fwd'[j].type = "START"
        PROVE  Live(i - d)
    <3>1. j \in 2 .. Len(fwd') /\ j # 1
      BY <1>1, <2>1
    <3>2. fwd[j - d].type = "START" /\ j - d \in 1 .. (i - d) - 1
      BY <1>1, <1>2, <2>1, <3>1
    <3> QED
      BY <3>2 DEF Live
  <2> QED
    BY <1>3, <2>1 DEF Live
<1>4. Live(1)' => rxState = "TRANSFER" /\ Live(1)
  BY DEF Live
<1>5. \A i \in 1 .. Len(fwd') : i = 1 \/ i \in 2 .. Len(fwd')
  BY <1>1
<1>6. \A i \in 1 .. Len(fwd') : fwd'[i].type = "START" => fwd'[i].total = txTotal
  BY <1>1, <1>2, <1>5 DEF WireInv
<1>7. ASSUME NEW i \in 1 .. Len(fwd'), fwd'[i].type = "QUERY", Live(i)'
      PROVE  WellAsked(fwd'[i])
  <2>1. i \in 2 .. Len(fwd')
    BY <1>1, <1>5, <1>7
  <2> QED
    BY <1>1, <1>2, <1>3, <1>7, <2>1 DEF WireInv
<1>8. ASSUME NEW i \in 1 .. Len(fwd'), NEW j \in 1 .. Len(fwd'),
             i < j, fwd'[j].type = "START", OfTransfer(fwd'[i])
      PROVE  ~ Live(i)'
  <2>1. j \in 2 .. Len(fwd') /\ j - d \in 1 .. Len(fwd) /\ fwd[j - d].type = "START"
    BY <1>1, <1>2, <1>5, <1>8
  <2>2. CASE i = 1
    <3>1. OfTransfer(fwd[1]) /\ 1 \in 1 .. Len(fwd)
      BY <1>1 DEF OfTransfer
    <3>2. j - d # 1
      BY <1>1, <2>1
    <3>3. 1 < j - d
      BY <1>2, <2>1, <3>2
    <3>4. ~ Live(1)
      BY <2>1, <3>1, <3>3 DEF WireInv
    <3> QED
      BY <1>4, <2>2, <3>4
  <2>3. CASE i \in 2 .. Len(fwd')
    <3>1. i - d \in 1 .. Len(fwd) /\ i - d < j - d
      <4>1. i \in Int /\ j \in Int /\ d \in Int /\ i - d \in 1 .. Len(fwd)
        BY <1>2, <2>3
      <4> QED
        BY <1>8, <4>1
    <3>5. OfTransfer(fwd[i - d])
      BY <1>1, <1>8, <2>3
    <3>2. ~ Live(i - d)
      BY <2>1, <3>1, <3>5 DEF WireInv
    <3> QED
      BY <1>3, <2>3, <3>2
  <2> QED
    BY <1>5, <2>2, <2>3
<1>9. ASSUME txState' = "START", NEW i \in 1 .. Len(fwd'), OfTransfer(fwd'[i])
      PROVE  ~ Live(i)'
  <2>1. CASE i = 1
    <3>1. OfTransfer(fwd[1]) /\ 1 \in 1 .. Len(fwd)
      BY <1>1 DEF OfTransfer
    <3> QED
      BY <1>4, <1>9, <2>1, <3>1 DEF WireInv
  <2>2. CASE i \in 2 .. Len(fwd')
    <3>1. i - d \in 1 .. Len(fwd) /\ OfTransfer(fwd[i - d])
      BY <1>1, <1>2, <1>9, <2>2
    <3>2. ~ Live(i - d)
      BY <1>9, <3>1 DEF WireInv
    <3> QED
      BY <1>3, <2>2, <3>2
  <2> QED
    BY <1>5, <2>1, <2>2
<1>11. StartWaiting' => StartWaiting
  BY <1>1, <1>2, <1>5 DEF StartWaiting
<1>10. txState' = "IDLE" => ~ StartWaiting' /\ rxState' \in {"IDLE", "ABORTED"}
  BY <1>11 DEF WireInv
<1> QED
  BY <1>6, <1>7, <1>8, <1>9, <1>10, <1>11 DEF WireInv, OfTransfer, WellAsked

-----------------------------------------------------------------------------
(* Every step and the wire.                                                *)

\* A session begins when no START waits: its own is the only one.
LEMMA WireBegins ==
  ASSUME Inv, StartSession, ~ StartWaiting
  PROVE  WireInv'
<1>1. PICK n \in ImageSizes : TxStart(n)
  BY DEF StartSession
<1>2. /\ fwd' = Append(fwd, Start(n)) /\ txState' = "START" /\ txTotal' = n
      /\ rxState' = "IDLE"
  BY <1>1 DEF TxStart, Enter, StartSession
<1>3. fwd \in Seq(FwdPacket)
  BY DEF Inv, LinkInv
<1>4. Start(n).type = "START" /\ Start(n).total = n
  BY DEF Start
<1>5. /\ Len(fwd) \in Nat /\ Len(fwd') = Len(fwd) + 1
      /\ \A i \in 1 .. Len(fwd) : fwd'[i] = fwd[i]
      /\ fwd'[Len(fwd) + 1] = Start(n)
  BY <1>2, <1>3
<1>6. \A i \in 1 .. Len(fwd') :
        \/ i \in 1 .. Len(fwd) /\ fwd'[i].type # "START"
        \/ i = Len(fwd) + 1 /\ fwd'[i] = Start(n)
  BY <1>5 DEF StartWaiting
<1>7. \A i \in 1 .. Len(fwd') : OfTransfer(fwd'[i]) => i <= Len(fwd)
  BY <1>4, <1>5, <1>6 DEF OfTransfer
<1>8. \A i \in 1 .. Len(fwd') : i <= Len(fwd) => ~ Live(i)'
  BY <1>2, <1>5, <1>6 DEF Live
<1>9. \A i \in 1 .. Len(fwd') : OfTransfer(fwd'[i]) => ~ Live(i)'
  BY <1>7, <1>8
<1>10. \A i \in 1 .. Len(fwd') : fwd'[i].type = "START" => fwd'[i].total = txTotal'
  BY <1>2, <1>4, <1>6
<1>11. \A i \in 1 .. Len(fwd') : fwd'[i].type = "QUERY" => ~ Live(i)'
  BY <1>9 DEF OfTransfer
<1> QED
  BY <1>2, <1>9, <1>10, <1>11 DEF WireInv, OfTransfer, WellAsked

\* What a burst adds: DATA packets and the QUERY of the current window.
LEMMA BurstOnWire ==
  ASSUME SenderInv, LinkInv, sendWin < txTotal,
         NEW k \in Nat, NEW cs \in [1 .. k -> ChunkIds],
         NEW last \in BOOLEAN, SendBurst(cs, last)
  PROVE  /\ Len(fwd') >= Len(fwd)
         /\ \A i \in 1 .. Len(fwd) : fwd'[i] = fwd[i]
         /\ \A i \in 1 .. Len(fwd') : i > Len(fwd) =>
              fwd'[i].type = "DATA" \/ fwd'[i] = CurrentQuery
<1> DEFINE data == DataPackets(cs)
           sent == fwd \o data
<1>1. sendWin \in Windows
  BY WindowInImage DEF SenderInv
<1>2. data \in Seq(FwdPacket) /\ fwd \in Seq(FwdPacket)
  BY <1>1, DataPacketsType DEF LinkInv
<1>3. Len(data) = k /\ \A i \in 1 .. k : data[i].type = "DATA"
  BY DEF DataPackets, Data
<1> HIDE DEF data
<1>4. /\ sent \in Seq(FwdPacket) /\ Len(sent) = Len(fwd) + k
      /\ Len(fwd) \in Nat
      /\ \A i \in 1 .. Len(fwd) : sent[i] = fwd[i]
      /\ \A i \in 1 .. Len(sent) : i > Len(fwd) => sent[i] = data[i - Len(fwd)]
  BY <1>2, <1>3
<1>5. \A i \in 1 .. Len(sent) : i > Len(fwd) => sent[i].type = "DATA"
  BY <1>3, <1>4
<1> HIDE DEF sent
<1>6. CASE last
  <2>1. fwd' = Append(sent, CurrentQuery)
    BY <1>6, Zenon DEF SendBurst, sent, data
  <2>2. /\ Len(fwd') = Len(sent) + 1 /\ fwd'[Len(sent) + 1] = CurrentQuery
        /\ \A i \in 1 .. Len(sent) : fwd'[i] = sent[i]
    BY <1>4, <2>1
  <2>3. \A i \in 1 .. Len(fwd') : i \in 1 .. Len(sent) \/ fwd'[i] = CurrentQuery
    BY <1>4, <2>2
  <2>4. Len(fwd') >= Len(fwd) /\ \A i \in 1 .. Len(fwd) : i \in 1 .. Len(sent)
    BY <1>4, <2>2
  <2> QED
    BY <1>4, <1>5, <2>2, <2>3, <2>4
<1>7. CASE ~ last
  <2>1. fwd' = fwd \o DataPackets(cs)
    BY <1>7 DEF SendBurst
  <2>2. fwd' = sent
    BY <2>1 DEF sent, data
  <2> QED
    BY <1>4, <1>5, <2>2
<1> QED
  BY <1>6, <1>7

\* Bursts: the chunks of a window or those that are missing.
LEMMA WireBurst ==
  ASSUME Inv, WireInv, TxSendWindow \/ TxRetransmit
  PROVE  /\ UNCHANGED <<txTotal, sendWin>>
         /\ txState \in Sending /\ txState' \in {txState, "QUERY"}
         /\ UNCHANGED rxState => WireInv' /\ (StartWaiting' => StartWaiting)
<1>1. /\ txState \in Sending /\ UNCHANGED <<txTotal, sendWin>>
      /\ txState # "QUERY" /\ txState # "START" /\ txState # "IDLE"
  BY DEF TxSendWindow, TxRetransmit, InSwitch, Sending
<1>2. SenderInv /\ LinkInv /\ sendWin < txTotal
  BY <1>1 DEF Inv, SenderInv
<1>3. \E k \in Nat : \E cs \in [1 .. k -> ChunkIds] : \E last \in BOOLEAN :
        SendBurst(cs, last)
  <2>1. CASE TxSendWindow
    <3> DEFINE next == Least(curChunk + Batch, ChunksInWin)
               last == next = ChunksInWin
    <3>1. next \in 0 .. Chunks
      <4>1. ChunksInWin \in 0 .. Chunks
        BY ChunksInType DEF ChunksInWin
      <4>2. curChunk \in 0 .. Chunks
        BY <1>2 DEF SenderInv, TxTypeOK
      <4> QED
        BY <4>1, <4>2, SizesAssumption, SenderAssumption DEF Least
    <3>2. curChunk \in Nat
      BY <1>2, SizesAssumption DEF SenderInv, TxTypeOK
    <3>3. SendBurst(ChunkRun(curChunk, next), last) /\ last \in BOOLEAN
      BY <2>1 DEF TxSendWindow
    <3> HIDE DEF next, last
    <3>4. PICK k \in Nat : ChunkRun(curChunk, next) \in [1 .. k -> ChunkIds]
      BY <3>1, <3>2, ChunkRunType
    <3> QED
      BY <3>3, <3>4
  <2>2. CASE TxRetransmit
    <3> DEFINE k == Least(Batch, Cardinality(rtx))
    <3>1. PICK cs \in [1 .. k -> rtx] : SendBurst(cs, rtx' = {})
      BY <2>2 DEF TxRetransmit
    <3>2. k \in Nat
      <4>1. IsFiniteSet(ChunkIds)
        BY SizesAssumption, FS_Interval DEF ChunkIds
      <4>2. rtx \subseteq ChunkIds
        BY <1>2 DEF SenderInv, TxTypeOK
      <4>3. Cardinality(rtx) \in Nat
        BY <4>1, <4>2, FS_Subset, FS_CardinalityType
      <4> QED
        BY <4>3, SenderAssumption DEF Least
    <3>3. cs \in [1 .. k -> ChunkIds]
      BY <1>2 DEF SenderInv, TxTypeOK
    <3>4. (rtx' = {}) \in BOOLEAN
      OBVIOUS
    <3> HIDE DEF k
    <3> QED
      BY <3>1, <3>2, <3>3, <3>4
  <2> QED
    BY <2>1, <2>2
<1>10. PICK k \in Nat : \E cs \in [1 .. k -> ChunkIds] : \E last \in BOOLEAN :
         SendBurst(cs, last)
  BY <1>3
<1>4. PICK cs \in [1 .. k -> ChunkIds], last \in BOOLEAN : SendBurst(cs, last)
  BY <1>10
<1>5. txState' \in {txState, "QUERY"}
  BY <1>2, <1>4, BurstSent
<1>6. fwd' \in Seq(FwdPacket)
  BY <1>2, <1>4, BurstSent
<1>7. /\ Len(fwd') >= Len(fwd)
      /\ \A i \in 1 .. Len(fwd) : fwd'[i] = fwd[i]
      /\ \A i \in 1 .. Len(fwd') : i > Len(fwd) =>
           fwd'[i].type = "DATA" \/ fwd'[i] = CurrentQuery
  BY <1>2, <1>4, BurstOnWire
<1>8. CurrentQuery.type = "QUERY" /\ WellAsked(CurrentQuery)
  BY <1>2 DEF CurrentQuery, Query, WellAsked, ChunksInWin
<1>9. ASSUME UNCHANGED rxState PROVE WireInv' /\ (StartWaiting' => StartWaiting)
  <2>1. \A i \in 1 .. Len(fwd') : i > Len(fwd) =>
          /\ fwd'[i].type # "START"
          /\ fwd'[i].type = "QUERY" => WellAsked(fwd'[i])
          /\ OfTransfer(fwd'[i]) => txState' # "START"
    BY <1>1, <1>5, <1>7, <1>8
  <2>2. txState' \in {"START", "IDLE"} => txState' = txState
    BY <1>1, <1>5
  <2>3. fwd \in Seq(FwdPacket)
    BY <1>2 DEF LinkInv
  <2> QED
    BY <1>1, <1>6, <1>7, <1>9, <2>1, <2>2, <2>3, WireGrows
<1> QED
  BY <1>1, <1>5, <1>9

\* One packet other than START is added.
LEMMA WireAppend ==
  ASSUME Inv, WireInv, NEW m \in FwdPacket, fwd' = Append(fwd, m),
         m.type # "START", m.type = "QUERY" => WellAsked(m),
         OfTransfer(m) => txState' # "START",
         UNCHANGED <<txTotal, rxState>>,
         txState' \in {"START", "IDLE"} => txState' = txState
  PROVE  WireInv' /\ (StartWaiting' => StartWaiting)
<1>1. fwd \in Seq(FwdPacket) /\ fwd' \in Seq(FwdPacket)
  BY DEF Inv, LinkInv
<1>2. /\ Len(fwd) \in Nat /\ Len(fwd') = Len(fwd) + 1
      /\ \A i \in 1 .. Len(fwd) : fwd'[i] = fwd[i]
      /\ \A i \in 1 .. Len(fwd') : i > Len(fwd) => fwd'[i] = m
  BY <1>1
<1>3. \A i \in 1 .. Len(fwd') : i > Len(fwd) =>
        /\ fwd'[i].type # "START"
        /\ fwd'[i].type = "QUERY" => WellAsked(fwd'[i])
        /\ OfTransfer(fwd'[i]) => txState' # "START"
  BY <1>2
<1> QED
  BY <1>1, <1>2, <1>3, WireGrows

\* A response is handled: only the last READY sends something.
LEMMA WireHandles ==
  ASSUME Inv, WireInv, UNCHANGED rxState,
         \/ TxStartAck \/ TxQueryRespMissing \/ TxQueryRespComplete
         \/ TxReadyError \/ TxReady \/ TxStatus \/ TxAbort \/ TxIgnore
         \/ TxDrained \/ TxWait
  PROVE  /\ WireInv' /\ (Early' => Early)
         /\ txTotal' = txTotal
         /\ txState' \in {"START", "IDLE"} => txState' = txState
<1>1. CASE TxReady
  <2>1. \/ txState' = "FINALIZE" /\ fwd' = Append(fwd, Finalize)
        \/ txState' \in {txState, "SEND_WINDOW"} /\ fwd' = fwd
    BY <1>1 DEF TxReady, OpenWindow, Enter
  <2>2. txTotal' = txTotal
    BY <1>1 DEF TxReady
  <2>3. Finalize \in FwdPacket /\ Finalize.type = "FINALIZE"
    BY FwdPackets DEF Finalize
  <2>4. CASE txState' = "FINALIZE" /\ fwd' = Append(fwd, Finalize)
    BY <2>2, <2>3, <2>4, WireAppend DEF Early
  <2>5. CASE txState' \in {txState, "SEND_WINDOW"} /\ fwd' = fwd
    <3>1. txState' \in {"START", "IDLE"} => txState' = txState
      BY <2>5
    <3>2. txState' = "IDLE" => rxState' \in {"IDLE", "ABORTED"}
      BY <3>1 DEF WireInv
    <3> QED
      BY <2>2, <2>5, <3>1, <3>2, WireSame DEF Early, StartWaiting
  <2> QED
    BY <2>1, <2>2, <2>4, <2>5
<1>2. CASE ~ TxReady
  <2>1. /\ UNCHANGED <<txTotal, fwd>>
        /\ txState' \in {"START", "IDLE"} => txState' = txState
    BY <1>2 DEF TxStartAck, TxQueryRespMissing, TxQueryRespComplete, TxReadyError,
       TxStatus, TxAbort, TxIgnore, TxDrained, TxWait, OpenWindow, Enter, links
  <2>2. txState' = "IDLE" => rxState' \in {"IDLE", "ABORTED"}
    BY <2>1 DEF WireInv
  <2> QED
    BY <2>1, <2>2, WireSame DEF Early, StartWaiting
<1> QED
  BY <1>1, <1>2

\* A timeout repeats a packet that was right the first time.
LEMMA WireRepeats ==
  ASSUME Inv, WireInv, UNCHANGED rxState,
         \/ TxStartTimeout \/ TxQueryTimeout \/ TxFinalizeTimeout
         \/ TxReadyTimeout
  PROVE  /\ WireInv' /\ (Early' => Early)
         /\ txTotal' = txTotal
         /\ txState' \in {"START", "IDLE"} => txState' = txState
<1>1. /\ txTotal' = txTotal
      /\ txState' \in {txState, "FAILED"}
      /\ \/ UNCHANGED fwd
         \/ txState = "START" /\ txState' = "START" /\ fwd' = Append(fwd, Start(txTotal))
         \/ txState = "QUERY" /\ txState' = "QUERY" /\ fwd' = Append(fwd, CurrentQuery)
         \/ txState = "FINALIZE" /\ txState' = "FINALIZE" /\ fwd' = Append(fwd, Finalize)
  BY DEF TxStartTimeout, TxQueryTimeout, TxFinalizeTimeout, TxTimeout, InSwitch,
         TxReadyTimeout, links
<1>2. CASE UNCHANGED fwd
  <2>1. txState' = "IDLE" => rxState' \in {"IDLE", "ABORTED"}
    BY <1>1 DEF WireInv
  <2> QED
    BY <1>1, <1>2, <2>1, WireSame DEF Early, StartWaiting
<1>3. CASE txState = "START" /\ txState' = "START" /\ fwd' = Append(fwd, Start(txTotal))
  <2>1. txTotal \in Sizes /\ fwd \in Seq(FwdPacket)
    BY <1>3 DEF Inv, SenderInv, TxTypeOK, LinkInv, Sizes
  <2> QED
    BY <1>1, <1>3, <2>1, WireStartAgain DEF Early
<1>4. CASE txState = "QUERY" /\ txState' = "QUERY" /\ fwd' = Append(fwd, CurrentQuery)
  <2>1. sendWin < txTotal
    BY <1>4 DEF Inv, SenderInv, Sending
  <2>2. sendWin \in Windows
    BY <2>1, WindowInImage DEF Inv, SenderInv
  <2>3. CurrentQuery \in FwdPacket
    BY <2>2, FwdPackets, ChunksInType DEF CurrentQuery, ChunksInWin
  <2>4. CurrentQuery.type = "QUERY" /\ WellAsked(CurrentQuery)
    BY <2>1 DEF CurrentQuery, Query, WellAsked, ChunksInWin
  <2> QED
    BY <1>1, <1>4, <2>3, <2>4, WireAppend DEF Early
<1>5. CASE txState = "FINALIZE" /\ txState' = "FINALIZE" /\ fwd' = Append(fwd, Finalize)
  <2>1. Finalize \in FwdPacket /\ Finalize.type = "FINALIZE"
    BY FwdPackets DEF Finalize
  <2> QED
    BY <1>1, <1>5, <2>1, WireAppend DEF Early
<1> QED
  BY <1>1, <1>2, <1>3, <1>4, <1>5

\* The oldest packet, a START, is damaged.
LEMMA WireDamaged ==
  ASSUME WireInv, fwd \in Seq(FwdPacket), DamageStart
  PROVE  WireInv' /\ (StartWaiting' => StartWaiting)
<1> DEFINE m == [Head(fwd) EXCEPT !.magic = FALSE]
<1>1. /\ Len(fwd) \in Nat /\ Len(fwd) >= 1 /\ Head(fwd) = fwd[1]
      /\ Tail(fwd) \in Seq(FwdPacket) /\ Len(Tail(fwd)) = Len(fwd) - 1
      /\ \A i \in 1 .. Len(fwd) - 1 : Tail(fwd)[i] = fwd[i + 1]
      /\ fwd' = <<m>> \o Tail(fwd) /\ UNCHANGED <<txState, txTotal, rxState>>
  BY DEF DamageStart, txVars, rxVars
<1>2. m.type = "START" /\ fwd[1].type = "START" /\ m.total = fwd[1].total
  <2>1. Head(fwd) \in FwdPacket /\ Head(fwd).type = "START"
    BY DEF DamageStart
  <2> QED
    BY <1>1, <2>1 DEF FwdPacket
<1> HIDE DEF m
<1>3. Len(fwd') = Len(fwd) /\ fwd'[1] = m /\ \A i \in 2 .. Len(fwd) : fwd'[i] = fwd[i]
  <2>1. /\ Len(fwd') = Len(fwd) /\ fwd'[1] = m
        /\ \A i \in 2 .. Len(fwd) : fwd'[i] = Tail(fwd)[i - 1]
    BY <1>1
  <2>2. \A i \in 2 .. Len(fwd) : i - 1 \in 1 .. Len(fwd) - 1 /\ (i - 1) + 1 = i
    BY <1>1
  <2> QED
    BY <1>1, <2>1, <2>2
<1>4. /\ \A i \in 1 .. Len(fwd) : fwd'[i].type = fwd[i].type
      /\ \A i \in 1 .. Len(fwd) : fwd'[i].type = "START" => fwd'[i].total = fwd[i].total
      /\ \A i \in 1 .. Len(fwd) : fwd'[i].type = "QUERY" => fwd'[i] = fwd[i]
  <2>1. \A i \in 1 .. Len(fwd) : i = 1 \/ i \in 2 .. Len(fwd)
    BY <1>1
  <2> QED
    BY <1>2, <1>3, <2>1
<1>5. ASSUME NEW i \in 1 .. Len(fwd), Live(i)' PROVE Live(i)
  <2>1. \A j \in 1 .. i - 1 : j \in 1 .. Len(fwd)
    BY <1>1
  <2> QED
    BY <1>1, <1>4, <1>5, <2>1 DEF Live
<1>6. StartWaiting' => StartWaiting
  BY <1>3, <1>4 DEF StartWaiting
<1> QED
  BY <1>1, <1>3, <1>4, <1>5, <1>6 DEF WireInv, OfTransfer, WellAsked

LEMMA WireSends ==
  ASSUME Inv, WireInv, SenderStep \/ SenderTimeout
  PROVE  /\ WireInv' /\ (Early' => Early)
         /\ txTotal' = txTotal
         /\ txState' \in {"START", "IDLE"} => txState' = txState
<1>1. UNCHANGED rxState
  BY DEF SenderStep, SenderTimeout, rxVars
<1>2. CASE TxSendWindow \/ TxRetransmit
  <2>1. /\ txTotal' = txTotal /\ WireInv' /\ (StartWaiting' => StartWaiting)
        /\ txState \in Sending /\ txState' \in {txState, "QUERY"}
    BY <1>1, <1>2, WireBurst
  <2> QED
    BY <2>1 DEF Sending, Early
<1>3. CASE ~ (TxSendWindow \/ TxRetransmit)
  BY <1>1, <1>3, WireHandles, WireRepeats DEF SenderStep, SenderTimeout
<1> QED
  BY <1>2, <1>3

\* Only a START makes the receiver begin a transfer.
LEMMA WireTakes ==
  ASSUME Inv, WireInv, ReceiverStep \/ FlashStep
  PROVE  WireInv' /\ (StartWaiting' => StartWaiting)
<1>1. UNCHANGED <<txState, txTotal>>
  BY DEF ReceiverStep, FlashStep, txVars
<1>2. fwd \in Seq(FwdPacket)
  BY DEF Inv, LinkInv
<1>3. CASE \/ RxStartRefused \/ RxStart \/ RxData \/ RxQueryUnknown \/ RxQuery
           \/ RxFinalizeEarly \/ RxFinalize \/ RxAbort \/ RxIgnore
  <2>1. fwd # <<>> /\ fwd' = Tail(fwd)
    BY <1>3 DEF RxStartRefused, RxStart, RxData, RxQueryUnknown, RxQuery,
       RxFinalizeEarly, RxFinalize, RxAbort, RxIgnore, Takes
  <2>2. rxState' = "TRANSFER" => rxState = "TRANSFER" \/ Head(fwd).type = "START"
    BY <1>3 DEF RxStartRefused, RxStart, RxData, RxQueryUnknown, RxQuery,
       RxFinalizeEarly, RxFinalize, RxAbort, RxIgnore, Takes
  <2>3. txState' = "IDLE" => rxState' \in {"IDLE", "ABORTED"}
    <3> SUFFICES ASSUME txState' = "IDLE" PROVE rxState' \in {"IDLE", "ABORTED"}
      OBVIOUS
    <3>1. rxState \in {"IDLE", "ABORTED"} /\ ~ StartWaiting
      BY <1>1 DEF WireInv
    <3>2. 1 \in 1 .. Len(fwd) /\ Head(fwd) = fwd[1]
      BY <1>2, <2>1
    <3>3. ~ RxStart
      BY <3>1, <3>2 DEF RxStart, Takes, StartWaiting
    <3> QED
      BY <1>3, <3>1, <3>3 DEF RxStartRefused, RxData, RxQueryUnknown, RxQuery,
         RxFinalizeEarly, RxFinalize, RxAbort, RxIgnore
  <2> QED
    BY <1>1, <1>2, <2>1, <2>2, <2>3, WireTail
<1>4. CASE \/ RxNothingToFlash \/ RxFlashRefused \/ RxFlashBegin
           \/ \E fault : RxFlashEnd(fault)
  <2>1. UNCHANGED fwd /\ rxState' \in {rxState, "ABORTED"}
    BY <1>4 DEF RxNothingToFlash, RxFlashRefused, RxFlashBegin, RxFlashEnd, links
  <2>2. txState' = "IDLE" => rxState' \in {"IDLE", "ABORTED"}
    BY <1>1, <2>1 DEF WireInv
  <2> QED
    BY <1>1, <2>1, <2>2, WireSame DEF StartWaiting
<1> QED
  BY <1>3, <1>4 DEF ReceiverStep, FlashStep

LEMMA WireSuffers ==
  ASSUME Inv, WireInv,
         \/ DropPacket \/ DamagePacket \/ DamageStart \/ RepeatPacket \/ LoseResponse
         \/ DecayFlash \/ AbortBoth
  PROVE  WireInv' /\ (StartWaiting' => StartWaiting)
<1>1. UNCHANGED <<txState, txTotal, rxState>>
  BY DEF DropPacket, DamagePacket, DamageStart, RepeatPacket, LoseResponse, DecayFlash,
         AbortBoth, txVars, rxVars
<1>2. fwd \in Seq(FwdPacket)
  BY DEF Inv, LinkInv
<1>3. txState = "IDLE" => rxState \in {"IDLE", "ABORTED"}
  BY DEF WireInv
<1>4. CASE DropPacket
  BY <1>1, <1>2, <1>3, <1>4, WireTail DEF DropPacket
<1>5. CASE DamagePacket
  <2>1. [Head(fwd) EXCEPT !.intact = FALSE].type = "DATA"
    <3>1. Head(fwd) \in FwdPacket /\ Head(fwd).type = "DATA"
      BY <1>2, <1>5 DEF DamagePacket
    <3> QED
      BY <3>1 DEF FwdPacket
  <2> QED
    BY <1>1, <1>2, <1>5, <2>1, WireData DEF DamagePacket
<1>6. CASE RepeatPacket
  BY <1>1, <1>2, <1>6, WireData DEF RepeatPacket
<1>7. CASE LoseResponse \/ DecayFlash
  BY <1>1, <1>3, <1>7, WireSame DEF LoseResponse, DecayFlash, links, StartWaiting
<1>8. CASE AbortBoth
  <2>1. Abort \in FwdPacket /\ Abort.type = "ABORT"
    BY FwdPackets DEF Abort
  <2>2. ~ OfTransfer(Abort)
    BY <2>1 DEF OfTransfer
  <2> QED
    BY <1>1, <1>8, <2>1, <2>2, WireAppend DEF AbortBoth
<1>9. CASE DamageStart
  BY <1>2, <1>9, WireDamaged
<1> QED
  BY <1>4, <1>5, <1>6, <1>7, <1>8, <1>9

\* The wire is in order after every step of an orderly behaviour.
LEMMA WireKept ==
  ASSUME Inv, WireInv, [Next]_vars, StartSession => ~ StartWaiting
  PROVE  WireInv'
<1>1. CASE Next
  BY <1>1, WireBegins, WireSends, WireTakes, WireSuffers DEF Next
<1>2. CASE UNCHANGED vars
  <2>1. UNCHANGED <<fwd, txTotal, rxState, txState>>
    BY <1>2 DEF vars, links, txVars, rxVars
  <2> QED
    BY <2>1, WireSame DEF WireInv
<1> QED
  BY <1>1, <1>2

-----------------------------------------------------------------------------
(* What the SRAM slots hold.                                               *)

\* The CRC of the buffer matched, and every chunk is the window's own.
Intact(slot) ==
  /\ slot.crc = slot.win
  /\ \A c \in ChunkIds : c < slot.total => c \in slot.have /\ slot.buf[c] = slot.win

Checked == {"READY_TO_FLASH", "FLASHING", "ERROR"}

\* A slot in use has the size of its window, and is intact once it was checked.
Sound(slot) ==
  /\ slot.state # "FREE" => slot.total = ChunksIn(txTotal, slot.win)
  /\ slot.state \in Checked => Intact(slot)

\* During a transfer the receiver works on the sender's image, its slots are
\* sound and a flash attempt works on the slot of the next window.
SramInv ==
  rxState = "TRANSFER" =>
    /\ rxTotal = txTotal
    /\ \A s \in SlotIds : Sound(slots[s])
    /\ rxPc = "flashing" =>
         /\ slots[target.slot].state = "FLASHING"
         /\ slots[target.slot].win = committed

\* A DATA packet never changes a slot that was checked.
LEMMA DataSound ==
  ASSUME NEW slot \in Slot, Sound(slot), rxTotal = txTotal,
         NEW m, m.win \in Windows, m.chunk \in ChunkIds
  PROVE  Sound(StoreChunk(SlotForData(slot, m.win), m))
<1> DEFINE opened == SlotForData(slot, m.win)
<1>1. opened \in Slot /\ Sound(opened)
  <2>1. opened \in Slot
    BY SlotForDataType
  <2>2. \/ opened = slot
        \/ /\ opened.state = "RECEIVING" /\ opened.win = m.win
           /\ opened.total = ChunksIn(rxTotal, m.win)
    BY DEF SlotForData, Slot
  <2> HIDE DEF opened
  <2>3. CASE opened.state = "RECEIVING" /\ opened.win = m.win
             /\ opened.total = ChunksIn(rxTotal, m.win)
    BY <2>1, <2>3 DEF Sound, Checked
  <2> QED
    BY <2>1, <2>2, <2>3
<1> HIDE DEF opened
<1> DEFINE stored == StoreChunk(opened, m)
<1> SUFFICES Sound(stored)
  BY DEF opened
<1>2. CASE stored = opened
  BY <1>1, <1>2
<1>3. CASE stored # opened
  <2>1. /\ opened.state \in {"RECEIVING", "READY_TO_FLASH"}
        /\ m.chunk < opened.total /\ m.chunk \notin opened.have
    BY <1>3 DEF StoreChunk
  <2>2. opened.state = "RECEIVING"
    BY <1>1, <2>1 DEF Sound, Checked, Intact
  <2>3. stored.state = "RECEIVING" /\ stored.win = opened.win /\ stored.total = opened.total
    BY <1>1, <2>2 DEF StoreChunk, Slot
  <2> HIDE DEF stored
  <2> QED
    BY <1>1, <2>2, <2>3 DEF Sound, Checked
<1> QED
  BY <1>2, <1>3

\* A QUERY repeats what the slot knows of its window, and makes it ready to
\* flash only when its buffer is intact.
LEMMA QuerySound ==
  ASSUME NEW slot \in Slot, Sound(slot), NEW m, WellAsked(m), m.win \in Windows,
         m.total \in 0 .. Chunks, KnowsWindow(slot, m.win)
  PROVE  LET q == QueriedSlot(slot, m)
         IN  /\ Sound(q)
             /\ MissingIn(q) = {} /\ SramCrcMatches(q) =>
                  Sound([q EXCEPT !.state = "READY_TO_FLASH"])
             /\ ~ SramCrcMatches(q) => Sound([q EXCEPT !.have = {}])
<1> DEFINE q     == QueriedSlot(slot, m)
           ready == [q EXCEPT !.state = "READY_TO_FLASH"]
           empty == [q EXCEPT !.have = {}]
<1>1. /\ q \in Slot /\ q.state = slot.state /\ q.win = slot.win /\ q.crc = m.win
      /\ q.total = m.total /\ q.have = slot.have /\ q.buf = slot.buf
  BY QueriedSlotType DEF QueriedSlot, Slot
<1>2. slot.state # "FREE" /\ slot.win = m.win /\ m.total = ChunksIn(txTotal, m.win)
  BY DEF KnowsWindow, WellAsked
<1>3. slot.total = m.total
  BY <1>2 DEF Sound
<1> HIDE DEF q
<1>4. Sound(q)
  BY <1>1, <1>2, <1>3 DEF Sound, Intact
<1>5. ASSUME MissingIn(q) = {}, SramCrcMatches(q) PROVE Sound(ready)
  <2>1. /\ ready.state = "READY_TO_FLASH" /\ ready.win = q.win /\ ready.crc = q.crc
        /\ ready.total = q.total /\ ready.have = q.have /\ ready.buf = q.buf
    BY <1>1 DEF Slot
  <2>2. \A c \in ChunkIds : c < q.total => c \in q.have /\ q.buf[c] = q.win
    BY <1>1, <1>2, <1>5 DEF MissingIn, SramCrcMatches
  <2> HIDE DEF ready
  <2> QED
    BY <1>1, <1>2, <2>1, <2>2 DEF Sound, Intact
<1>6. ASSUME ~ SramCrcMatches(q) PROVE Sound(empty)
  <2>1. empty.state = q.state /\ empty.win = q.win /\ empty.total = q.total
    BY <1>1 DEF Slot
  <2>2. q.state \notin Checked
    BY <1>4, <1>6 DEF Sound, Intact, SramCrcMatches
  <2> HIDE DEF empty
  <2> QED
    BY <1>4, <2>1, <2>2 DEF Sound
<1> QED
  BY <1>4, <1>5, <1>6 DEF q

\* What is checked stays so when it changes state.
LEMMA CheckedSound ==
  ASSUME NEW slot \in Slot, Sound(slot), slot.state \in Checked, NEW st \in SlotStates
  PROVE  Sound([slot EXCEPT !.state = st]) /\ Sound(Leave(slot, st))
<1> DEFINE moved == [slot EXCEPT !.state = st]
           left  == Leave(slot, st)
<1>1. /\ moved.state = st /\ moved.win = slot.win /\ moved.crc = slot.crc
      /\ moved.total = slot.total /\ moved.have = slot.have /\ moved.buf = slot.buf
  BY DEF Slot
<1>2. /\ left.state = st /\ left.win = slot.win /\ left.crc = slot.crc
      /\ left.total = slot.total /\ left.have = slot.have /\ left.buf = slot.buf
  BY DEF Slot, Leave
<1>3. slot.total = ChunksIn(txTotal, slot.win) /\ Intact(slot)
  BY DEF Sound, Checked
<1> HIDE DEF moved, left
<1>4. Sound(moved) /\ Sound(left)
  BY <1>1, <1>2, <1>3 DEF Sound, Intact
<1> QED
  BY <1>4 DEF moved, left

\* One slot changes to a sound one.
LEMMA SlotPut ==
  ASSUME slots \in [SlotIds -> Slot], \A t \in SlotIds : Sound(slots[t]),
         NEW s \in SlotIds, NEW new, Sound(new),
         slots' = [slots EXCEPT ![s] = new], UNCHANGED txTotal
  PROVE  (\A t \in SlotIds : Sound(slots[t]))'
<1>1. \A t \in SlotIds : slots'[t] = slots[t] \/ slots'[t] = new
  OBVIOUS
<1>2. \A t \in SlotIds : Sound(slots'[t])
  BY <1>1
<1> QED
  BY <1>2 DEF Sound, Intact

\* The slots and the transfer are left alone, or the transfer ends.
LEMMA SramSame ==
  ASSUME SramInv, UNCHANGED <<txTotal, rxTotal, committed, slots, target>>,
         rxState' = "TRANSFER" => rxState = "TRANSFER",
         rxPc' = "flashing" => rxPc = "flashing"
  PROVE  SramInv'
<1> SUFFICES ASSUME rxState' = "TRANSFER" PROVE SramInv'
  BY DEF SramInv
<1>1. \A s \in SlotIds : Sound(slots[s])
  BY DEF SramInv
<1>2. (\A s \in SlotIds : Sound(slots[s]))'
  BY <1>1 DEF Sound, Intact
<1> QED
  BY <1>2 DEF SramInv

\* START empties the slots for the image it announces.
LEMMA SramStarts ==
  ASSUME Inv, WireInv, RxStart, UNCHANGED txTotal
  PROVE  SramInv'
<1>1. fwd \in Seq(FwdPacket) /\ fwd # <<>> /\ Head(fwd).type = "START" /\ rxPc' = "step"
  BY DEF Inv, LinkInv, RxStart, Takes
<1>2. Head(fwd) = fwd[1] /\ 1 \in 1 .. Len(fwd)
  BY <1>1
<1>3. rxTotal' = txTotal'
  BY <1>1, <1>2 DEF RxStart, WireInv
<1>4. \A s \in SlotIds : slots'[s].state = "FREE"
  <2>1. slots \in [SlotIds -> Slot]
    BY DEF Inv, ReceiverInv, RxTypeOK
  <2>2. slots' = [s \in SlotIds |-> ResetSlot(slots[s])]
    BY DEF RxStart, ResetSlots
  <2>3. \A s \in SlotIds : ResetSlot(slots[s]).state = "FREE"
    BY <2>1 DEF ResetSlot, Slot
  <2> QED
    BY <2>2, <2>3
<1>5. (\A s \in SlotIds : Sound(slots[s]))'
  BY <1>4 DEF Sound, Checked
<1> QED
  BY <1>1, <1>3, <1>5 DEF SramInv

LEMMA SramData ==
  ASSUME Inv, SramInv, RxData, UNCHANGED txTotal
  PROVE  SramInv'
<1> DEFINE m   == Head(fwd)
           s   == SlotOf(m.win)
           new == StoreChunk(SlotForData(slots[s], m.win), m)
<1>1. rxState = "TRANSFER" /\ slots' = [slots EXCEPT ![s] = new] /\ UNCHANGED rxTotal
  BY DEF RxData
<1>2. m.win \in Windows /\ m.chunk \in ChunkIds /\ rxPc' = "step"
  BY TakenPacket, FwdFields DEF RxData, Inv
<1>3. s \in SlotIds /\ slots \in [SlotIds -> Slot] /\ slots[s] \in Slot
  BY <1>2, SlotOfType DEF Inv, ReceiverInv, RxTypeOK
<1>4. rxTotal = txTotal /\ \A t \in SlotIds : Sound(slots[t])
  BY <1>1 DEF SramInv
<1> HIDE DEF s
<1>5. Sound(new)
  BY <1>2, <1>3, <1>4, DataSound
<1> HIDE DEF new
<1>6. (\A t \in SlotIds : Sound(slots[t]))'
  BY <1>1, <1>3, <1>4, <1>5, SlotPut
<1> QED
  BY <1>1, <1>2, <1>4, <1>6 DEF SramInv

\* A QUERY the receiver answers is one of this session.
LEMMA QueryTaken ==
  ASSUME Inv, WireInv, rxState = "TRANSFER", Takes("QUERY")
  PROVE  /\ Head(fwd).win \in Windows /\ Head(fwd).total \in 0 .. Chunks
         /\ WellAsked(Head(fwd))
<1>1. /\ Head(fwd) \in FwdPacket /\ Head(fwd).type = "QUERY"
      /\ Head(fwd) = fwd[1] /\ 1 \in 1 .. Len(fwd)
  BY DEF Inv, LinkInv, Takes
<1>2. Live(1)
  BY DEF Live
<1> QED
  BY <1>1, <1>2, FwdFields DEF WireInv

LEMMA SramQuery ==
  ASSUME Inv, WireInv, SramInv, RxQuery, UNCHANGED txTotal
  PROVE  SramInv'
<1> DEFINE m    == Head(fwd)
           s    == SlotOf(m.win)
           slot == QueriedSlot(slots[s], m)
<1>1. /\ rxState = "TRANSFER" /\ Takes("QUERY") /\ rxPc' = "step" /\ UNCHANGED rxTotal
      /\ KnowsWindow(slots[s], m.win)
      /\ \/ slots' = [slots EXCEPT ![s] = slot]
         \/ /\ MissingIn(slot) = {} /\ SramCrcMatches(slot)
            /\ slots' = [slots EXCEPT ![s] = [slot EXCEPT !.state = "READY_TO_FLASH"]]
         \/ /\ ~ SramCrcMatches(slot)
            /\ slots' = [slots EXCEPT ![s] = [slot EXCEPT !.have = {}]]
  BY DEF RxQuery, Takes
<1>2. m.win \in Windows /\ m.total \in 0 .. Chunks /\ WellAsked(m)
  BY <1>1, QueryTaken
<1>3. s \in SlotIds /\ slots \in [SlotIds -> Slot] /\ slots[s] \in Slot
  BY <1>2, SlotOfType DEF Inv, ReceiverInv, RxTypeOK
<1>4. rxTotal = txTotal /\ \A t \in SlotIds : Sound(slots[t])
  BY <1>1 DEF SramInv
<1> HIDE DEF s, m
<1>5. /\ Sound(slot)
      /\ MissingIn(slot) = {} /\ SramCrcMatches(slot) =>
           Sound([slot EXCEPT !.state = "READY_TO_FLASH"])
      /\ ~ SramCrcMatches(slot) => Sound([slot EXCEPT !.have = {}])
  BY <1>1, <1>2, <1>3, <1>4, QuerySound
<1> HIDE DEF slot
<1>6. \E new : Sound(new) /\ slots' = [slots EXCEPT ![s] = new]
  BY <1>1, <1>5
<1>7. (\A t \in SlotIds : Sound(slots[t]))'
  BY <1>3, <1>4, <1>6, SlotPut
<1> QED
  BY <1>1, <1>4, <1>7 DEF SramInv

LEMMA SramFlashBegins ==
  ASSUME Inv, SramInv, RxFlashBegin, UNCHANGED txTotal
  PROVE  SramInv'
<1>1. PICK s \in SlotIds :
        /\ s \in Flashable
        /\ slots' = [slots EXCEPT ![s].state = "FLASHING"]
        /\ target' = [slot |-> s, win |-> slots[s].win]
        /\ UNCHANGED <<rxState, rxTotal, committed>>
  BY DEF RxFlashBegin, Flashes
<1>2. /\ rxState = "TRANSFER" /\ slots[s].state = "READY_TO_FLASH"
      /\ slots[s].win = committed
  BY <1>1 DEF Flashable
<1>3. slots \in [SlotIds -> Slot] /\ slots[s] \in Slot
  BY <1>1 DEF Inv, ReceiverInv, RxTypeOK
<1>4. rxTotal = txTotal /\ \A t \in SlotIds : Sound(slots[t])
  BY <1>2 DEF SramInv
<1> DEFINE new == [slots[s] EXCEPT !.state = "FLASHING"]
<1>5. Sound(new)
  BY <1>2, <1>3, <1>4, CheckedSound DEF Checked, SlotStates
<1>6. new.state = "FLASHING" /\ new.win = slots[s].win
  BY <1>3 DEF Slot
<1>7. slots' = [slots EXCEPT ![s] = new]
  BY <1>1, <1>3
<1> HIDE DEF new
<1>8. (\A t \in SlotIds : Sound(slots[t]))'
  BY <1>3, <1>4, <1>5, <1>7, SlotPut
<1>9. slots'[target'.slot] = new /\ committed' = slots[s].win
  BY <1>1, <1>2, <1>3, <1>7
<1> QED
  BY <1>1, <1>4, <1>6, <1>8, <1>9 DEF SramInv

LEMMA SramFlashEnds ==
  ASSUME Inv, SramInv, NEW fault, RxFlashEnd(fault), UNCHANGED txTotal
  PROVE  SramInv'
<1> DEFINE s == target.slot
<1>1. /\ rxPc = "flashing" /\ rxPc' = "poll" /\ UNCHANGED <<rxState, rxTotal>>
      /\ \/ slots' = [slots EXCEPT ![s].state = "FREE"]
         \/ slots' = [slots EXCEPT ![s] = Leave(slots[s], "READY_TO_FLASH")]
         \/ slots' = [slots EXCEPT ![s] = Leave(slots[s], "ERROR")]
  <2>1. slots \in [SlotIds -> Slot] /\ s \in SlotIds
    BY DEF Inv, ReceiverInv, RxTypeOK
  <2> QED
    BY <2>1 DEF RxFlashEnd, FlashFails, FlashSucceeds
<1> SUFFICES ASSUME rxState = "TRANSFER" PROVE SramInv'
  BY <1>1 DEF SramInv
<1>2. s \in SlotIds /\ slots \in [SlotIds -> Slot] /\ slots[s] \in Slot
  BY DEF Inv, ReceiverInv, RxTypeOK
<1>3. /\ rxTotal = txTotal /\ \A t \in SlotIds : Sound(slots[t])
      /\ slots[s].state = "FLASHING"
  BY <1>1 DEF SramInv
<1> DEFINE freed == [slots[s] EXCEPT !.state = "FREE"]
<1>4. Sound(freed)
  <2>1. freed.state = "FREE"
    BY <1>2 DEF Slot
  <2> HIDE DEF freed
  <2> QED
    BY <2>1 DEF Sound, Checked
<1>5. Sound(Leave(slots[s], "READY_TO_FLASH")) /\ Sound(Leave(slots[s], "ERROR"))
  BY <1>2, <1>3, CheckedSound DEF Checked, SlotStates
<1>6. \/ slots' = [slots EXCEPT ![s] = freed]
      \/ slots' = [slots EXCEPT ![s] = Leave(slots[s], "READY_TO_FLASH")]
      \/ slots' = [slots EXCEPT ![s] = Leave(slots[s], "ERROR")]
  BY <1>1, <1>2
<1> HIDE DEF freed, s
<1>7. \E new : Sound(new) /\ slots' = [slots EXCEPT ![s] = new]
  BY <1>4, <1>5, <1>6
<1>8. (\A t \in SlotIds : Sound(slots[t]))'
  BY <1>2, <1>3, <1>7, SlotPut
<1> QED
  BY <1>1, <1>3, <1>8 DEF SramInv

\* The slots are sound after every step that finds the wire in order.
LEMMA SramKept ==
  ASSUME Inv, WireInv, SramInv, [Next]_vars
  PROVE  SramInv'
<1>1. CASE StartSession
  BY <1>1 DEF StartSession, SramInv
<1>2. CASE ReceiverStep \/ FlashStep
  <2>1. UNCHANGED txTotal
    BY <1>2 DEF ReceiverStep, FlashStep, txVars
  <2>2. CASE \/ RxStart \/ RxData \/ RxQuery \/ RxFlashBegin
             \/ \E fault : RxFlashEnd(fault)
    BY <2>1, <2>2, SramStarts, SramData, SramQuery, SramFlashBegins, SramFlashEnds
  <2>3. CASE \/ RxStartRefused \/ RxQueryUnknown \/ RxFinalizeEarly \/ RxFinalize
             \/ RxAbort \/ RxIgnore \/ RxNothingToFlash
    <3>1. /\ UNCHANGED <<rxTotal, committed, slots, target>>
          /\ rxState' = "TRANSFER" => rxState = "TRANSFER"
          /\ rxPc' # "flashing"
      BY <2>3 DEF RxStartRefused, RxQueryUnknown, RxFinalizeEarly, RxFinalize,
         RxAbort, RxIgnore, RxNothingToFlash, Takes
    <3> QED
      BY <2>1, <3>1, SramSame
  <2>4. CASE RxFlashRefused
    BY <2>4 DEF RxFlashRefused, SramInv
  <2> QED
    BY <1>2, <2>2, <2>3, <2>4 DEF ReceiverStep, FlashStep
<1>3. CASE SenderStep \/ SenderTimeout
  <2>1. UNCHANGED rxVars /\ txTotal' = txTotal
    BY <1>3, WireSends DEF SenderStep, SenderTimeout
  <2> QED
    BY <2>1, SramSame DEF rxVars
<1>4. CASE \/ DropPacket \/ DamagePacket \/ DamageStart \/ RepeatPacket \/ LoseResponse
           \/ DecayFlash \/ AbortBoth \/ UNCHANGED vars
  <2>1. UNCHANGED <<txTotal, rxTotal, committed, slots, target, rxState, rxPc>>
    BY <1>4 DEF DropPacket, DamagePacket, DamageStart, RepeatPacket, LoseResponse, DecayFlash,
       AbortBoth, txVars, rxVars, vars
  <2> QED
    BY <2>1, SramSame
<1> QED
  BY <1>1, <1>2, <1>3, <1>4 DEF Next

-----------------------------------------------------------------------------
(* The beginning of a transfer.                                            *)

IsAck(m)    == m.type = "START_ACK" /\ m.status = "OK"
IsCommit(m) == m.type = "READY" /\ m.status = "OK"

\* The sender has been let in, or will be when it reads on.
Open  == txState \in Sending \cup {"WAIT_READY"}
Acked == Open \/ \E j \in 1 .. Len(rev) : IsAck(rev[j])

\* While a START is still to come nothing of the transfer has happened: what
\* it resets is not in use.
BeginInv ==
  /\ rxPc = "flashing" => rxState \in {"IDLE", "TRANSFER"}
  /\ Early /\ rxState = "TRANSFER" =>
       committed = 0 /\ \A s \in SlotIds : slots[s].state = "FREE"
  /\ Early /\ Acked => committed = 0
  /\ Acked => rxState # "IDLE"

\* What a step of the sender does to the responses and to what it is owed.
LEMMA SenderReads ==
  ASSUME Inv, SenderStep \/ SenderTimeout
  PROVE  /\ UNCHANGED rxVars
         /\ rev' = rev \/ (rev # <<>> /\ rev' = Tail(rev))
         /\ \/ Open' => Open
            \/ rev # <<>> /\ rev' = Tail(rev) /\ IsAck(Head(rev)) /\ TxStartAck
<1>1. UNCHANGED rxVars
  BY DEF SenderStep, SenderTimeout
<1>2. CASE \/ TxSendWindow \/ TxRetransmit \/ TxDrained \/ TxWait
           \/ TxStartTimeout \/ TxQueryTimeout \/ TxFinalizeTimeout \/ TxReadyTimeout
  <2>1. rev' = rev
    BY <1>2 DEF TxSendWindow, TxRetransmit, TxDrained, TxWait, TxStartTimeout,
       TxQueryTimeout, TxFinalizeTimeout, TxTimeout, TxReadyTimeout, links
  <2>2. \/ txState' \in {txState, "FAILED"}
        \/ txState \in {"SEND_WINDOW", "RETRANSMIT"}
    BY <1>2 DEF TxSendWindow, TxRetransmit, TxDrained, TxWait, TxStartTimeout,
       TxQueryTimeout, TxFinalizeTimeout, TxTimeout, TxReadyTimeout, InSwitch
  <2> QED
    BY <1>1, <2>1, <2>2 DEF Open, Sending
<1>3. CASE \/ TxStartAck \/ TxQueryRespMissing \/ TxQueryRespComplete
           \/ TxReadyError \/ TxReady \/ TxStatus \/ TxAbort \/ TxIgnore
  <2>1. rev # <<>> /\ rev' = Tail(rev)
    BY <1>3 DEF TxStartAck, TxQueryRespMissing, TxQueryRespComplete,
       TxReadyError, TxReady, TxStatus, TxAbort, TxIgnore, Receives
  <2>2. CASE TxStartAck
    <3>1. \/ IsAck(Head(rev))
          \/ txState' = "FAILED"
      BY <2>2 DEF TxStartAck, IsAck, Receives
    <3> QED
      BY <1>1, <2>1, <2>2, <3>1 DEF Open, Sending
  <2>3. CASE ~ TxStartAck
    <3>1. \/ txState' \in {txState, "FAILED", "COMPLETE", "FINALIZE"}
          \/ txState \in {"QUERY", "WAIT_READY"}
      BY <1>3, <2>3 DEF TxQueryRespMissing, TxQueryRespComplete,
         TxReadyError, TxReady, TxStatus, TxAbort, TxIgnore, OpenWindow, Enter
    <3> QED
      BY <1>1, <2>1, <3>1 DEF Open, Sending
  <2> QED
    BY <2>2, <2>3
<1> QED
  BY <1>1, <1>2, <1>3 DEF SenderStep, SenderTimeout

\* The receiver answers m: it lets the sender in only for a START, and reports
\* a window committed only at the end of the attempt that flashed it.
Writes(m) ==
  /\ rev' = Append(rev, m)
  /\ IsAck(m) => RxStart /\ m = StartAck("OK", GrantedCredits)
  /\ IsCommit(m) =>
       \E fault : /\ RxFlashEnd(fault) /\ FlashSucceeds
                  /\ m = Ready(slots[target.slot].win, "OK", 1)

\* What a step of the receiver adds to the responses.
LEMMA ReceiverWrites ==
  ASSUME Inv, ReceiverStep \/ FlashStep
  PROVE  /\ UNCHANGED <<txState, txTotal, sendWin, credits>>
         /\ \/ UNCHANGED rev
            \/ \E m \in PaidResponse : Writes(m)
         /\ RxStart => rev' = Append(rev, StartAck("OK", GrantedCredits))
         /\ (\E fault : RxFlashEnd(fault)) \/ committed' = committed \/ RxStart
<1>1. UNCHANGED <<txState, txTotal, sendWin, credits>>
  BY DEF ReceiverStep, FlashStep, txVars
<1>2. \A w, st, cr : Ready(w, st, cr).type = "READY" /\ Ready(w, st, cr).status = st
  BY DEF Ready
<1>3. \A st, cr : StartAck(st, cr).type = "START_ACK" /\ StartAck(st, cr).status = st
  BY DEF StartAck
<1>4. /\ \A w, ms : QueryResp(w, ms).type = "QUERY_RESP"
      /\ \A st, crc : Status(st, crc).type = "STATUS"
  BY DEF QueryResp, Status
<1>9. LinkInv' /\ LinkInv
  BY ReceiverKeeps DEF Inv
<1>10. ASSUME NEW m, rev' = Append(rev, m) PROVE m \in PaidResponse
  <2>1. Len(rev) \in Nat /\ Len(rev') = Len(rev) + 1 /\ rev'[Len(rev) + 1] = m
    BY <1>9, <1>10 DEF LinkInv
  <2> QED
    BY <1>9, <2>1 DEF LinkInv
<1>5. CASE RxStart
  <2>1. rev' = Append(rev, StartAck("OK", GrantedCredits))
    BY <1>5 DEF RxStart, Respond
  <2>2. Writes(StartAck("OK", GrantedCredits))
    BY <1>3, <1>5, <2>1 DEF Writes, IsAck, IsCommit
  <2> QED
    BY <1>1, <1>5, <1>10, <2>1, <2>2
<1>6. CASE \/ RxStartRefused \/ RxQueryUnknown \/ RxQuery \/ RxFinalizeEarly
           \/ RxFinalize \/ RxFlashRefused
  <2>1. \/ \E st, cr : rev' = Append(rev, StartAck(st, cr)) /\ st # "OK"
        \/ \E w, ms : rev' = Append(rev, QueryResp(w, ms))
        \/ \E st, crc : rev' = Append(rev, Status(st, crc))
        \/ \E w, cr : rev' = Append(rev, Ready(w, "ERR_SIZE", cr))
    BY <1>6 DEF RxStartRefused, RxQueryUnknown, RxQuery, RxFinalizeEarly,
       RxFinalize, RxFlashRefused, Respond
  <2>2. PICK m : rev' = Append(rev, m) /\ ~ IsAck(m) /\ ~ IsCommit(m)
    BY <1>2, <1>3, <1>4, <2>1 DEF IsAck, IsCommit
  <2>3. committed' = committed /\ ~ RxStart
    <3>1. committed' = committed
      BY <1>6 DEF RxStartRefused, RxQueryUnknown, RxQuery, RxFinalizeEarly,
         RxFinalize, RxFlashRefused
    <3>2. ~ RxStart
      <4>1. RxStart => rev' = Append(rev, StartAck("OK", GrantedCredits))
        BY DEF RxStart, Respond
      <4>2. RxStart => IsAck(m)
        <5> SUFFICES ASSUME RxStart PROVE IsAck(m)
          OBVIOUS
        <5>1. rev'[Len(rev) + 1] = m /\ rev'[Len(rev) + 1] = StartAck("OK", GrantedCredits)
          BY <2>2, <4>1, <1>9 DEF LinkInv
        <5> QED
          BY <1>3, <5>1 DEF IsAck
      <4> QED
        BY <2>2, <4>2
    <3> QED
      BY <3>1, <3>2
  <2> QED
    BY <1>1, <1>10, <2>2, <2>3 DEF Writes
<1>7. CASE RxData \/ RxAbort \/ RxIgnore \/ RxNothingToFlash \/ RxFlashBegin
  <2>1. UNCHANGED <<rev, committed>>
    BY <1>7 DEF RxData, RxAbort, RxIgnore, RxNothingToFlash, RxFlashBegin, links
  <2>2. ~ RxStart
    <3>1. RxStart => rev' = Append(rev, StartAck("OK", GrantedCredits))
      BY DEF RxStart, Respond
    <3>2. rev # Append(rev, StartAck("OK", GrantedCredits))
      <4>1. Len(rev) \in Nat /\ Len(Append(rev, StartAck("OK", GrantedCredits))) = Len(rev) + 1
        BY <1>9 DEF LinkInv
      <4> QED
        BY <4>1
    <3> QED
      BY <2>1, <3>1, <3>2
  <2> QED
    BY <1>1, <2>1, <2>2
<1>8. ASSUME NEW fault, RxFlashEnd(fault)
      PROVE  (UNCHANGED rev \/ \E m \in PaidResponse : Writes(m)) /\ ~ RxStart
  <2>1. ~ RxStart
    BY <1>8 DEF RxStart, RxFlashEnd, Takes
  <2>2. CASE FlashSucceeds
    <3>1. rev' = Append(rev, Ready(slots[target.slot].win, "OK", 1))
      BY <2>2 DEF FlashSucceeds, Respond
    <3>2. Writes(Ready(slots[target.slot].win, "OK", 1))
      BY <1>2, <1>8, <2>2, <3>1 DEF Writes, IsAck
    <3> QED
      BY <1>10, <2>1, <3>1, <3>2
  <2>3. ASSUME NEW status, FlashFails(status), status # "OK"
        PROVE  \/ UNCHANGED rev
               \/ \E m : /\ rev' = Append(rev, m)
                         /\ ~ IsAck(m) /\ ~ IsCommit(m)
    <3>1. rev' = rev \/ rev' = Append(rev, Ready(slots[target.slot].win, status, 0))
      BY <2>3 DEF FlashFails, Respond
    <3> QED
      BY <1>2, <2>3, <3>1 DEF IsAck, IsCommit
  <2>4. \/ FlashSucceeds
        \/ \E status : FlashFails(status) /\ status # "OK"
    BY <1>8 DEF RxFlashEnd
  <2>5. ASSUME NEW m, rev' = Append(rev, m), ~ IsAck(m), ~ IsCommit(m)
        PROVE  m \in PaidResponse /\ Writes(m)
    BY <1>10, <2>5 DEF Writes
  <2> QED
    BY <2>1, <2>2, <2>3, <2>4, <2>5
<1> QED
  BY <1>1, <1>5, <1>6, <1>7, <1>8 DEF ReceiverStep, FlashStep

\* Only an accepted START lets the sender in.
LEMMA AckedFalls ==
  ASSUME Inv, Next, ~ StartSession, ~ RxStart
  PROVE  Acked' => Acked
<1>1. rev \in Seq(PaidResponse)
  BY DEF Inv, LinkInv
<1>2. ASSUME Open' => Open \/ (rev # <<>> /\ IsAck(Head(rev))),
             rev' = rev \/ (rev # <<>> /\ rev' = Tail(rev))
      PROVE  Acked' => Acked
  <2>1. rev # <<>> => /\ Head(rev) = rev[1] /\ 1 \in 1 .. Len(rev)
                      /\ \A j \in 1 .. Len(Tail(rev)) :
                           j + 1 \in 1 .. Len(rev) /\ Tail(rev)[j] = rev[j + 1]
    BY <1>1
  <2>2. Open' => Acked
    BY <1>2, <2>1 DEF Acked
  <2>3. ASSUME NEW j \in 1 .. Len(rev'), IsAck(rev'[j]) PROVE Acked
    BY <1>2, <2>1, <2>3 DEF Acked
  <2> QED
    BY <2>2, <2>3 DEF Acked
<1>3. ASSUME txState' = txState, NEW m, rev' = Append(rev, m), ~ IsAck(m)
      PROVE  Acked' => Acked
  <2>1. /\ Len(rev) \in Nat /\ Len(rev') = Len(rev) + 1
        /\ \A j \in 1 .. Len(rev') : \/ j \in 1 .. Len(rev) /\ rev'[j] = rev[j]
                                     \/ rev'[j] = m
    BY <1>1, <1>3
  <2> QED
    BY <1>3, <2>1 DEF Acked, Open
<1>4. CASE SenderStep \/ SenderTimeout
  BY <1>2, <1>4, SenderReads
<1>5. CASE ReceiverStep \/ FlashStep
  <2>1. Open' => Open
    BY <1>5, ReceiverWrites DEF Open
  <2>2. txState' = txState
    BY <1>5, ReceiverWrites
  <2>3. UNCHANGED rev \/ \E m : rev' = Append(rev, m) /\ ~ IsAck(m)
    BY <1>5, ReceiverWrites DEF Writes
  <2>4. CASE UNCHANGED rev
    BY <1>2, <2>1, <2>4
  <2>5. CASE \E m : rev' = Append(rev, m) /\ ~ IsAck(m)
    BY <1>3, <2>2, <2>5
  <2> QED
    BY <2>3, <2>4, <2>5
<1>6. CASE \/ DropPacket \/ DamagePacket \/ DamageStart \/ RepeatPacket \/ LoseResponse
           \/ DecayFlash
  <2>1. txState' = txState /\ (rev' = rev \/ (rev # <<>> /\ rev' = Tail(rev)))
    BY <1>6 DEF DropPacket, DamagePacket, DamageStart, RepeatPacket, LoseResponse, DecayFlash,
       txVars, links
  <2> QED
    BY <1>2, <2>1 DEF Open
<1>7. CASE AbortBoth
  <2>1. txState' = txState /\ rev' = Append(rev, Abort) /\ ~ IsAck(Abort)
    BY <1>7 DEF AbortBoth, txVars, Abort, IsAck
  <2> QED
    BY <1>3, <2>1
<1> QED
  BY <1>4, <1>5, <1>6, <1>7 DEF Next

\* No START is left once a packet that answers one can be taken.
LEMMA StartIsOver ==
  ASSUME Inv, WireInv, rxState = "TRANSFER", fwd # <<>>, OfTransfer(Head(fwd)),
         fwd' = Tail(fwd), txState' = txState
  PROVE  ~ Early'
<1>1. fwd \in Seq(FwdPacket)
  BY DEF Inv, LinkInv
<1>2. /\ Head(fwd) = fwd[1] /\ 1 \in 1 .. Len(fwd)
      /\ \A j \in 1 .. Len(fwd') :
           j + 1 \in 1 .. Len(fwd) /\ fwd'[j] = fwd[j + 1] /\ 1 < j + 1
  BY <1>1
<1>3. Live(1)
  BY DEF Live
<1>4. txState # "START"
  BY <1>2, <1>3 DEF WireInv
<1>5. \A j \in 1 .. Len(fwd) : 1 < j => fwd[j].type # "START"
  BY <1>2, <1>3 DEF WireInv
<1>6. ~ StartWaiting'
  BY <1>2, <1>5 DEF StartWaiting
<1> QED
  BY <1>4, <1>6 DEF Early

\* What does not move the receiver, nor bring a START or an answer to one.
LEMMA BeginSame ==
  ASSUME BeginInv, Early' => Early, Acked' => Acked,
         UNCHANGED <<committed, slots>>,
         \/ UNCHANGED <<rxState, rxPc>>
         \/ rxPc' # "flashing" /\ rxState' = rxState
         \/ rxPc' # "flashing" /\ rxState' \in {"COMPLETE", "ABORTED"}
  PROVE  BeginInv'
BY DEF BeginInv

LEMMA BeginReceiver ==
  ASSUME Inv, WireInv, SramInv, BeginInv, ReceiverStep \/ FlashStep
  PROVE  BeginInv'
<1>1. txState' = txState /\ (Early' => Early)
  BY ReceiverWrites, WireTakes DEF Early
<1>2. CASE RxStart
  <2>1. /\ committed' = 0 /\ rxState' = "TRANSFER" /\ rxPc' = "step"
        /\ slots' = [s \in SlotIds |-> ResetSlot(slots[s])]
    BY <1>2 DEF RxStart, Takes, ResetSlots
  <2>2. \A s \in SlotIds : slots'[s].state = "FREE"
    <3>1. slots \in [SlotIds -> Slot]
      BY DEF Inv, ReceiverInv, RxTypeOK
    <3>2. \A s \in SlotIds : ResetSlot(slots[s]).state = "FREE"
      BY <3>1 DEF ResetSlot, Slot
    <3> QED
      BY <2>1, <3>2
  <2> QED
    BY <2>1, <2>2 DEF BeginInv
<1>3. ASSUME ~ RxStart PROVE Acked' => Acked
  <2>1. ~ StartSession
    BY <1>1 DEF StartSession, TxStart, Enter, ReceiverStep, FlashStep, txVars
  <2> QED
    BY <1>3, <2>1, AckedFalls DEF Next
<1>4. CASE RxData \/ RxQuery
  <2>1. /\ fwd # <<>> /\ OfTransfer(Head(fwd)) /\ fwd' = Tail(fwd)
        /\ rxState = "TRANSFER" /\ rxState' = "TRANSFER" /\ rxPc' = "step"
        /\ ~ RxStart
    BY <1>4 DEF RxData, RxQuery, Takes, OfTransfer, RxStart
  <2>2. ~ Early'
    BY <1>1, <2>1, StartIsOver
  <2> QED
    BY <1>3, <2>1, <2>2 DEF BeginInv
<1>5. CASE \/ RxStartRefused \/ RxQueryUnknown \/ RxFinalizeEarly \/ RxFinalize
           \/ RxAbort \/ RxIgnore \/ RxNothingToFlash
  <2>1. CASE RxStart
    BY <1>2, <2>1
  <2>2. CASE ~ RxStart
    <3>1. /\ UNCHANGED <<committed, slots>> /\ rxPc' # "flashing"
          /\ rxState' \in {rxState, "COMPLETE", "ABORTED"}
      BY <1>5 DEF RxStartRefused, RxQueryUnknown, RxFinalizeEarly, RxFinalize,
         RxAbort, RxIgnore, RxNothingToFlash, Takes
    <3> QED
      BY <1>1, <1>3, <2>2, <3>1, BeginSame
  <2> QED
    BY <2>1, <2>2
<1>6. CASE RxFlashRefused
  <2>1. rxState' = "ABORTED" /\ rxPc' = "poll" /\ committed' = committed /\ ~ RxStart
    BY <1>6 DEF RxFlashRefused, RxStart, Takes
  <2> QED
    BY <1>1, <1>3, <2>1 DEF BeginInv
<1>7. CASE RxFlashBegin
  <2>1. /\ rxState = "TRANSFER" /\ UNCHANGED <<rxState, committed>>
        /\ \E s \in SlotIds : slots[s].state = "READY_TO_FLASH"
        /\ rxPc' = "flashing"
    BY <1>7 DEF RxFlashBegin, Flashes, Flashable
  <2>2. ~ RxStart
    BY <2>1 DEF RxStart, Takes
  <2>3. ~ Early
    BY <2>1 DEF BeginInv
  <2> QED
    BY <1>1, <1>3, <2>1, <2>2, <2>3 DEF BeginInv
<1>8. ASSUME NEW fault, RxFlashEnd(fault) PROVE BeginInv'
  <2>1. rxPc = "flashing" /\ rxPc' = "poll" /\ rxState' = rxState
    BY <1>8 DEF RxFlashEnd
  <2>2. ~ RxStart
    BY <2>1 DEF RxStart, Takes
  <2>3. CASE rxState = "TRANSFER"
    <3>1. slots[target.slot].state = "FLASHING" /\ target.slot \in SlotIds
      BY <2>1, <2>3 DEF SramInv, Inv, ReceiverInv, RxTypeOK
    <3>2. ~ Early
      BY <2>3, <3>1 DEF BeginInv
    <3> QED
      BY <1>1, <1>3, <2>1, <2>2, <2>3, <3>2 DEF BeginInv
  <2>4. CASE rxState = "IDLE"
    <3>1. ~ Acked
      BY <2>4 DEF BeginInv
    <3> QED
      BY <1>3, <2>1, <2>2, <2>4, <3>1 DEF BeginInv
  <2> QED
    BY <2>1, <2>3, <2>4 DEF BeginInv
<1> QED
  BY <1>2, <1>4, <1>5, <1>6, <1>7, <1>8 DEF ReceiverStep, FlashStep

LEMMA BeginKept ==
  ASSUME Inv, WireInv, SramInv, BeginInv, [Next]_vars
  PROVE  BeginInv'
<1>1. CASE StartSession
  <2>1. rxState' = "IDLE" /\ rev' = <<>> /\ txState' = "START"
    BY <1>1 DEF StartSession, TxStart, Enter
  <2>2. ~ Acked'
    BY <2>1 DEF Acked, Open, Sending
  <2> QED
    BY <2>1, <2>2 DEF BeginInv
<1>2. CASE ReceiverStep \/ FlashStep
  BY <1>2, BeginReceiver
<1>3. CASE SenderStep \/ SenderTimeout
  <2>1. (Early' => Early) /\ UNCHANGED rxVars
    BY <1>3, WireSends DEF SenderStep, SenderTimeout
  <2>2. ~ StartSession /\ ~ RxStart
    <3>1. ~ StartSession
      BY <1>3, WireSends DEF StartSession, TxStart, Enter
    <3>2. ~ RxStart
      BY <2>1 DEF RxStart, Takes, rxVars
    <3> QED
      BY <3>1, <3>2
  <2>3. Acked' => Acked
    BY <1>3, <2>2, AckedFalls DEF Next
  <2> QED
    BY <2>1, <2>3, BeginSame DEF rxVars
<1>4. CASE \/ DropPacket \/ DamagePacket \/ DamageStart \/ RepeatPacket \/ LoseResponse
           \/ DecayFlash \/ AbortBoth
  <2>1. /\ UNCHANGED <<rxState, rxPc, committed, slots, txState, sessions>>
        /\ Early' => Early
    <3>1. UNCHANGED <<rxState, rxPc, committed, slots, txState, sessions>>
      BY <1>4 DEF DropPacket, DamagePacket, DamageStart, RepeatPacket, LoseResponse, DecayFlash,
         AbortBoth, txVars, rxVars
    <3> QED
      BY <1>4, <3>1, WireSuffers DEF Early
  <2>2. ~ StartSession /\ ~ RxStart
    <3>1. sessions \in Int
      BY DEF Inv, EnvironmentInv
    <3> QED
      BY <2>1, <3>1 DEF StartSession, RxStart, Takes
  <2>3. Acked' => Acked
    BY <1>4, <2>2, AckedFalls DEF Next
  <2> QED
    BY <2>1, <2>3, BeginSame
<1>5. CASE UNCHANGED vars
  <2>1. /\ UNCHANGED <<rxState, rxPc, committed, slots, txState, fwd, rev>>
    BY <1>5 DEF vars, rxVars, txVars, links
  <2>2. (Early' => Early) /\ (Acked' => Acked)
    BY <2>1 DEF Early, StartWaiting, Acked, Open
  <2> QED
    BY <2>1, <2>2, BeginSame
<1> QED
  BY <1>1, <1>2, <1>3, <1>4, <1>5 DEF Next

-----------------------------------------------------------------------------
(* The credits of a transfer.                                              *)

\* The sender will have been let in when it reads response i.
Granted(i) == Open \/ \E j \in 1 .. i - 1 : IsAck(rev[j])

\* The windows reported committed come in order and are committed, an accepted
\* START brings the credits agreed on, and the sender is never further ahead
\* of the windows it knows to be committed than that.
CreditInv ==
  /\ \A i \in 1 .. Len(rev) : IsCommit(rev[i]) /\ Granted(i) => rev[i].win < committed
  /\ \A i, j \in 1 .. Len(rev) :
       i < j /\ IsCommit(rev[i]) /\ IsCommit(rev[j]) /\ Granted(i) =>
         rev[i].win < rev[j].win
  /\ \A i \in 1 .. Len(rev) : IsAck(rev[i]) => rev[i].credit = GrantedCredits
  /\ Open =>
       /\ credits + sendWin <= GrantedCredits + committed
       /\ \A i \in 1 .. Len(rev) :
            IsCommit(rev[i]) => credits + sendWin <= GrantedCredits + rev[i].win

\* The numbers the inequalities are about.
LEMMA Numbers ==
  ASSUME Inv
  PROVE  /\ credits \in Int /\ sendWin \in Nat /\ committed \in Nat
         /\ GrantedCredits \in Nat \ {0}
         /\ rev \in Seq(PaidResponse)
         /\ \A i \in 1 .. Len(rev) :
              IsCommit(rev[i]) => rev[i].win \in Nat /\ rev[i].credit = 1
<1>1. credits \in Int /\ sendWin \in Nat /\ committed \in Nat
  BY SizesAssumption DEF Inv, SenderInv, TxTypeOK, ReceiverInv, RxTypeOK
<1>2. GrantedCredits \in Nat \ {0}
  BY SizesAssumption DEF GrantedCredits
<1>3. rev \in Seq(PaidResponse)
  BY DEF Inv, LinkInv
<1>4. ASSUME NEW i \in 1 .. Len(rev), IsCommit(rev[i])
      PROVE  rev[i].win \in Nat /\ rev[i].credit = 1
  <2>1. rev[i] \in PaidResponse
    BY <1>3
  <2>2. rev[i].win \in Windows /\ rev[i].credit = 1
    BY <1>4, <2>1, RevFields DEF IsCommit
  <2> QED
    BY <2>2, SizesAssumption DEF Windows
<1> QED
  BY <1>1, <1>2, <1>3, <1>4

\* The responses are left alone, and the sender opens nothing.
LEMMA CreditSame ==
  ASSUME CreditInv, UNCHANGED rev, committed' = committed, Open' => Open,
         Open' => UNCHANGED <<credits, sendWin>>
  PROVE  CreditInv'
<1>1. \A i \in 1 .. Len(rev) : Granted(i)' => Granted(i)
  BY DEF Granted
<1>2. GrantedCredits' = GrantedCredits
  BY DEF GrantedCredits
<1> QED
  BY <1>1, <1>2 DEF CreditInv

\* The oldest response is read or lost.  What the sender gains by it is
\* proved where it is read.
LEMMA CreditTail ==
  ASSUME Inv, CreditInv, rev # <<>>, rev' = Tail(rev), committed' = committed,
         Open' => Open \/ IsAck(Head(rev)),
         Open' =>
           /\ credits' + sendWin' <= GrantedCredits + committed
           /\ \A i \in 2 .. Len(rev) :
                IsCommit(rev[i]) => credits' + sendWin' <= GrantedCredits + rev[i].win
  PROVE  CreditInv'
<1>1. /\ Len(rev) \in Nat /\ Len(rev') = Len(rev) - 1 /\ Head(rev) = rev[1]
      /\ 1 \in 1 .. Len(rev)
      /\ \A i \in 1 .. Len(rev') :
           i + 1 \in 1 .. Len(rev) /\ i + 1 \in 2 .. Len(rev) /\ rev'[i] = rev[i + 1]
  BY Numbers
<1>2. ASSUME NEW i \in 1 .. Len(rev'), Granted(i)' PROVE Granted(i + 1)
  <2>1. CASE Open'
    BY <1>1, <2>1 DEF Granted
  <2>2. ASSUME NEW j \in 1 .. i - 1, IsAck(rev'[j]) PROVE Granted(i + 1)
    <3>1. IsAck(rev[j + 1]) /\ j + 1 \in 1 .. (i + 1) - 1
      BY <1>1, <2>2
    <3> QED
      BY <3>1 DEF Granted
  <2> QED
    BY <1>2, <2>1, <2>2 DEF Granted
<1>3. GrantedCredits' = GrantedCredits
  BY DEF GrantedCredits
<1>4. \A i \in 1 .. Len(rev') : IsCommit(rev'[i]) /\ Granted(i)' => rev'[i].win < committed'
  BY <1>1, <1>2 DEF CreditInv
<1>5. \A i, j \in 1 .. Len(rev') :
        i < j /\ IsCommit(rev'[i]) /\ IsCommit(rev'[j]) /\ Granted(i)' =>
          rev'[i].win < rev'[j].win
  BY <1>1, <1>2 DEF CreditInv
<1>6. \A i \in 1 .. Len(rev') : IsAck(rev'[i]) => rev'[i].credit = GrantedCredits
  BY <1>1 DEF CreditInv
<1>7. ASSUME Open'
      PROVE  /\ credits' + sendWin' <= GrantedCredits + committed'
             /\ \A i \in 1 .. Len(rev') :
                  IsCommit(rev'[i]) => credits' + sendWin' <= GrantedCredits + rev'[i].win
  BY <1>1, <1>7
<1> HIDE DEF Granted
<1> QED
  BY <1>3, <1>4, <1>5, <1>6, <1>7 DEF CreditInv, IsCommit, IsAck

\* A response is added.  A commit reported to a sender that was let in is the
\* next one.
LEMMA CreditGrows ==
  ASSUME Inv, CreditInv, NEW m \in PaidResponse, rev' = Append(rev, m),
         UNCHANGED <<txState, credits, sendWin>>, committed' \in Nat,
         Acked => committed' >= committed,
         IsAck(m) => m.credit = GrantedCredits,
         IsCommit(m) /\ Acked => m.win = committed /\ committed' = committed + 1
  PROVE  CreditInv'
<1>1. /\ Len(rev) \in Nat /\ Len(rev') = Len(rev) + 1 /\ rev'[Len(rev) + 1] = m
      /\ \A i \in 1 .. Len(rev) : rev'[i] = rev[i] /\ i # Len(rev) + 1
      /\ \A i \in 1 .. Len(rev') : i \in 1 .. Len(rev) \/ i = Len(rev) + 1
  BY Numbers
<1>2. ASSUME NEW i \in 1 .. Len(rev), Granted(i)' PROVE Granted(i)
  BY <1>1, <1>2 DEF Granted, Open
<1>3. \A i \in 1 .. Len(rev) : Granted(i) => Acked
  BY <1>1 DEF Granted, Acked
<1>4. ASSUME NEW i, i = Len(rev) + 1, Granted(i)' PROVE Acked
  BY <1>1, <1>4 DEF Granted, Acked, Open
<1>5. GrantedCredits' = GrantedCredits /\ (Open' => Open) /\ (Open => Acked)
  <2>1. GrantedCredits' = GrantedCredits
    BY DEF GrantedCredits
  <2>2. Open' => Open
    BY DEF Open
  <2>3. Open => Acked
    BY DEF Acked
  <2> QED
    BY <2>1, <2>2, <2>3
<1>6. ASSUME NEW i \in 1 .. Len(rev'), IsCommit(rev'[i]), Granted(i)'
      PROVE  rev'[i].win < committed'
  <2>1. CASE i \in 1 .. Len(rev)
    <3>1. Granted(i) /\ Acked /\ IsCommit(rev[i])
      BY <1>1, <1>2, <1>3, <1>6, <2>1
    <3>2. rev[i].win < committed /\ committed' >= committed
      BY <2>1, <3>1 DEF CreditInv
    <3> QED
      BY <1>1, <2>1, <3>1, <3>2, Numbers
  <2>2. CASE i = Len(rev) + 1
    BY <1>1, <1>4, <1>6, <2>2, Numbers
  <2> QED
    BY <1>1, <2>1, <2>2
<1>7. ASSUME NEW i \in 1 .. Len(rev'), NEW j \in 1 .. Len(rev'), i < j,
             IsCommit(rev'[i]), IsCommit(rev'[j]), Granted(i)'
      PROVE  rev'[i].win < rev'[j].win
  <2>1. i \in 1 .. Len(rev)
    BY <1>1, <1>7
  <2>2. Granted(i) /\ Acked /\ IsCommit(rev[i]) /\ rev'[i] = rev[i]
    BY <1>1, <1>2, <1>3, <1>7, <2>1
  <2>3. CASE j \in 1 .. Len(rev)
    BY <1>1, <1>7, <2>1, <2>2, <2>3 DEF CreditInv
  <2>4. CASE j = Len(rev) + 1
    <3>1. rev[i].win < committed
      BY <2>1, <2>2 DEF CreditInv
    <3> QED
      BY <1>1, <1>7, <2>2, <2>4, <3>1
  <2> QED
    BY <1>1, <2>3, <2>4
<1>8. \A i \in 1 .. Len(rev') : IsAck(rev'[i]) => rev'[i].credit = GrantedCredits
  BY <1>1 DEF CreditInv
<1>9. ASSUME Open'
      PROVE  /\ credits' + sendWin' <= GrantedCredits + committed'
             /\ \A i \in 1 .. Len(rev') :
                  IsCommit(rev'[i]) => credits' + sendWin' <= GrantedCredits + rev'[i].win
  <2>1. credits + sendWin <= GrantedCredits + committed /\ committed' >= committed
    BY <1>5, <1>9 DEF CreditInv
  <2>2. \A i \in 1 .. Len(rev) :
          IsCommit(rev[i]) => credits + sendWin <= GrantedCredits + rev[i].win
    BY <1>5, <1>9 DEF CreditInv
  <2>3. IsCommit(m) => credits + sendWin <= GrantedCredits + m.win
    BY <1>5, <1>9, <2>1
  <2>4. credits + sendWin <= GrantedCredits + committed'
    BY <2>1, Numbers
  <2> QED
    BY <1>1, <2>2, <2>3, <2>4
<1> QED
  BY <1>5, <1>6, <1>7, <1>8, <1>9 DEF CreditInv, IsCommit, IsAck

\* The sender reads an answer to its START, counts a window or is paid.
LEMMA CreditReads ==
  ASSUME Inv, CreditInv, SenderStep \/ SenderTimeout
  PROVE  CreditInv'
<1>1. committed' = committed
  BY SenderReads DEF rxVars
<1>2. CASE UNCHANGED rev
  <2>1. Open' => Open
    <3> SUFFICES ASSUME TxStartAck, rev # <<>>, rev' = Tail(rev) PROVE FALSE
      BY SenderReads
    <3>1. Len(rev) \in Nat /\ Len(Tail(rev)) = Len(rev) - 1
      BY Numbers
    <3> QED
      BY <1>2, <3>1
  <2>2. Open' => UNCHANGED <<credits, sendWin>>
    <3>1. ASSUME NEW type, Receives(type) PROVE FALSE
      <4>1. Len(rev) \in Nat /\ Len(Tail(rev)) = Len(rev) - 1
        BY <3>1, Numbers DEF Receives
      <4> QED
        BY <1>2, <3>1, <4>1 DEF Receives
    <3>2. \/ TxSendWindow \/ TxRetransmit \/ TxDrained \/ TxWait
          \/ TxStartTimeout \/ TxQueryTimeout \/ TxFinalizeTimeout \/ TxReadyTimeout
      BY <3>1 DEF SenderStep, SenderTimeout, TxStartAck, TxQueryRespMissing,
         TxQueryRespComplete, TxReadyError, TxReady, TxStatus, TxAbort, TxIgnore
    <3> QED
      BY <3>2 DEF TxSendWindow, TxRetransmit, TxDrained, TxWait, TxStartTimeout,
         TxQueryTimeout, TxFinalizeTimeout, TxTimeout, TxReadyTimeout
  <2> QED
    BY <1>1, <1>2, <2>1, <2>2, CreditSame
<1>3. CASE ~ UNCHANGED rev
  <2>1. rev # <<>> /\ rev' = Tail(rev) /\ (Open' => Open \/ IsAck(Head(rev)))
    BY <1>3, SenderReads
  <2>2. /\ Head(rev) = rev[1] /\ 1 \in 1 .. Len(rev)
        /\ \A i \in 2 .. Len(rev) : i \in 1 .. Len(rev) /\ 1 < i
    BY <2>1, Numbers
  <2>3. ASSUME Open'
        PROVE  /\ credits' + sendWin' <= GrantedCredits + committed
               /\ \A i \in 2 .. Len(rev) :
                    IsCommit(rev[i]) => credits' + sendWin' <= GrantedCredits + rev[i].win
    <3>1. CASE TxStartAck
      <4>1. Head(rev).type = "START_ACK" /\ txState = "START"
        BY <3>1 DEF TxStartAck, Receives
      <4>2. IsAck(Head(rev))
        BY <2>3, <3>1, <4>1 DEF TxStartAck, IsAck, Open, Sending
      <4>3. credits' = Head(rev).credit /\ sendWin' = sendWin
        BY <3>1, <4>2 DEF TxStartAck, IsAck
      <4>4. credits' = GrantedCredits /\ sendWin' = 0
        BY <2>2, <4>1, <4>2, <4>3 DEF CreditInv, Inv, SenderInv
      <4> QED
        BY <2>2, <4>4, Numbers
    <3>2. CASE TxReady
      <4>1. IsCommit(Head(rev)) /\ credits' = credits + Head(rev).credit /\ sendWin' = sendWin
        BY <3>2 DEF TxReady, Receives, IsCommit
      <4>2. Open
        BY <2>1, <4>1, <2>3 DEF IsAck, IsCommit
      <4>3. /\ rev[1].win \in Nat /\ rev[1].credit = 1 /\ IsCommit(rev[1])
            /\ credits + sendWin <= GrantedCredits + rev[1].win
        BY <2>2, <4>1, <4>2, Numbers DEF CreditInv
      <4>4. rev[1].win < committed
        BY <2>2, <4>2, <4>3 DEF CreditInv, Granted
      <4>5. \A i \in 2 .. Len(rev) : IsCommit(rev[i]) => rev[1].win < rev[i].win
        BY <2>2, <4>2, <4>3 DEF CreditInv, Granted
      <4>6. credits' = credits + 1
        BY <2>2, <4>1, <4>3
      <4>7. credits' + sendWin' <= GrantedCredits + committed
        BY <4>1, <4>3, <4>4, <4>6, Numbers
      <4>8. \A i \in 2 .. Len(rev) :
              IsCommit(rev[i]) => credits' + sendWin' <= GrantedCredits + rev[i].win
        <5> SUFFICES ASSUME NEW i \in 2 .. Len(rev), IsCommit(rev[i])
                     PROVE  credits' + sendWin' <= GrantedCredits + rev[i].win
          OBVIOUS
        <5>1. rev[i].win \in Nat /\ rev[1].win < rev[i].win
          BY <2>2, <4>5, Numbers
        <5>2. sendWin' = sendWin /\ rev[1].win \in Nat
          BY <4>1, <4>3
        <5>3. credits \in Int /\ sendWin \in Nat /\ GrantedCredits \in Nat
          BY Numbers
        <5>4. credits + sendWin <= GrantedCredits + rev[1].win
          BY <4>3
        <5> QED
          BY <4>6, <5>1, <5>2, <5>3, <5>4
      <4> QED
        BY <4>7, <4>8
    <3>3. CASE ~ TxStartAck /\ ~ TxReady
      <4>1. Open
        BY <2>3, <3>3, SenderReads
      <4>2. \/ UNCHANGED <<credits, sendWin>>
            \/ credits' = credits - 1 /\ sendWin' = sendWin + 1
        BY <3>3 DEF SenderStep, SenderTimeout, TxQueryRespMissing, TxQueryRespComplete,
           TxReadyError, TxStatus, TxAbort, TxIgnore, TxSendWindow, TxRetransmit,
           TxDrained, TxWait, TxStartTimeout, TxQueryTimeout, TxFinalizeTimeout,
           TxTimeout, TxReadyTimeout
      <4>3. credits' + sendWin' = credits + sendWin
        BY <4>2, Numbers
      <4> QED
        BY <2>2, <4>1, <4>3 DEF CreditInv
    <3> QED
      BY <3>1, <3>2, <3>3
  <2> QED
    BY <1>1, <2>1, <2>3, CreditTail
<1> QED
  BY <1>2, <1>3

\* A window is reported committed to a sender that was let in when it is the
\* next one; a START is taken before there is anything to lose.
LEMMA CreditWrites ==
  ASSUME Inv, WireInv, SramInv, BeginInv, CreditInv, ReceiverStep \/ FlashStep
  PROVE  CreditInv'
<1>1. UNCHANGED <<txState, credits, sendWin>>
  BY ReceiverWrites
<1>2. committed' \in Nat
  BY ReceiverKeeps, SizesAssumption DEF Inv, ReceiverInv, RxTypeOK
<1>3. CASE RxStart
  <2>1. rev' = Append(rev, StartAck("OK", GrantedCredits))
    BY <1>3, ReceiverWrites
  <2>2. GrantedCredits \in Nat \ {0}
    BY Numbers
  <2>3. /\ StartAck("OK", GrantedCredits) \in PaidResponse
        /\ StartAck("OK", GrantedCredits).credit = GrantedCredits
        /\ ~ IsCommit(StartAck("OK", GrantedCredits))
    BY <2>2, RevPackets DEF StartAck, IsCommit
  <2>4. Acked => committed' >= committed
    <3>1. fwd # <<>> /\ Head(fwd).type = "START" /\ committed' = 0
      BY <1>3 DEF RxStart, Takes
    <3>2. Head(fwd) = fwd[1] /\ 1 \in 1 .. Len(fwd)
      BY <3>1 DEF Inv, LinkInv
    <3>3. Early
      BY <3>1, <3>2 DEF Early, StartWaiting
    <3> QED
      BY <3>1, <3>3 DEF BeginInv
  <2> HIDE DEF GrantedCredits
  <2> QED
    BY <1>1, <1>2, <2>1, <2>3, <2>4, CreditGrows
<1>4. ASSUME NEW fault, RxFlashEnd(fault)
      PROVE  /\ committed' >= committed
             /\ FlashSucceeds /\ Acked =>
                  slots[target.slot].win = committed /\ committed' = committed + 1
  <2>1. rxPc = "flashing" /\ committed' \in {committed, committed + 1}
    BY <1>4 DEF RxFlashEnd, FlashFails, FlashSucceeds
  <2>2. committed' >= committed
    BY <2>1, Numbers
  <2>3. ASSUME FlashSucceeds, Acked
        PROVE  slots[target.slot].win = committed /\ committed' = committed + 1
    <3>1. rxState = "TRANSFER"
      BY <2>1, <2>3 DEF BeginInv
    <3> QED
      BY <2>1, <2>3, <3>1 DEF SramInv, FlashSucceeds
  <2> QED
    BY <2>2, <2>3
<1>5. CASE ~ RxStart
  <2>1. committed' >= committed
    BY <1>4, <1>5, ReceiverWrites, Numbers
  <2>2. CASE UNCHANGED rev
    <3>1. (Open' => Open) /\ (Open => Acked)
      BY <1>1 DEF Open, Acked
    <3>5. \A i \in 1 .. Len(rev) : Granted(i)' => Granted(i)
      BY <2>2, <3>1 DEF Granted
    <3>2. GrantedCredits' = GrantedCredits
      BY DEF GrantedCredits
    <3>3. \A i \in 1 .. Len(rev) : IsCommit(rev[i]) /\ Granted(i) => rev[i].win < committed'
      <4> SUFFICES ASSUME NEW i \in 1 .. Len(rev), IsCommit(rev[i]), Granted(i)
                   PROVE  rev[i].win < committed'
        OBVIOUS
      <4>1. rev[i].win < committed /\ rev[i].win \in Nat
        BY Numbers DEF CreditInv
      <4> QED
        BY <1>2, <2>1, <4>1, Numbers
    <3>4. Open => credits + sendWin <= GrantedCredits + committed'
      <4>1. Open => credits + sendWin <= GrantedCredits + committed
        BY DEF CreditInv
      <4>2. credits + sendWin \in Int /\ GrantedCredits \in Nat /\ committed \in Nat
        BY Numbers
      <4> HIDE DEF GrantedCredits, Open
      <4> QED
        BY <1>2, <2>1, <4>1, <4>2
    <3>6. \A i, j \in 1 .. Len(rev) :
            i < j /\ IsCommit(rev[i]) /\ IsCommit(rev[j]) /\ Granted(i)' =>
              rev[i].win < rev[j].win
      BY <3>5 DEF CreditInv
    <3>7. \A i \in 1 .. Len(rev) : IsAck(rev[i]) => rev[i].credit = GrantedCredits'
      BY <3>2 DEF CreditInv
    <3>8. Open => \A i \in 1 .. Len(rev) :
            IsCommit(rev[i]) => credits + sendWin <= GrantedCredits' + rev[i].win
      BY <3>2 DEF CreditInv
    <3> QED
      BY <1>1, <2>2, <3>1, <3>2, <3>3, <3>4, <3>5, <3>6, <3>7, <3>8
         DEF CreditInv, IsCommit, IsAck
  <2>3. CASE \E m \in PaidResponse : Writes(m)
    <3>1. PICK m \in PaidResponse : Writes(m)
      BY <2>3
    <3>2. rev' = Append(rev, m) /\ ~ IsAck(m)
      BY <1>5, <3>1 DEF Writes
    <3>3. IsCommit(m) /\ Acked => m.win = committed /\ committed' = committed + 1
      <4> SUFFICES ASSUME IsCommit(m), Acked
                   PROVE  m.win = committed /\ committed' = committed + 1
        OBVIOUS
      <4>1. PICK fault : /\ RxFlashEnd(fault) /\ FlashSucceeds
                         /\ m = Ready(slots[target.slot].win, "OK", 1)
        BY <3>1 DEF Writes
      <4>2. m.win = slots[target.slot].win
        BY <4>1 DEF Ready
      <4> QED
        BY <1>4, <4>1, <4>2
    <3> QED
      BY <1>1, <1>2, <2>1, <3>2, <3>3, CreditGrows
  <2> QED
    BY <2>2, <2>3, ReceiverWrites
<1> QED
  BY <1>3, <1>5

LEMMA CreditKept ==
  ASSUME Inv, WireInv, SramInv, BeginInv, CreditInv, [Next]_vars
  PROVE  CreditInv'
<1>1. CASE StartSession
  <2>1. rev' = <<>> /\ txState' = "START"
    BY <1>1 DEF StartSession, TxStart, Enter
  <2>2. ~ Open' /\ Len(rev') = 0
    BY <2>1 DEF Open, Sending
  <2>3. 1 .. Len(rev') = {}
    BY <2>2
  <2> QED
    BY <2>2, <2>3 DEF CreditInv
<1>2. CASE ReceiverStep \/ FlashStep
  BY <1>2, CreditWrites
<1>3. CASE SenderStep \/ SenderTimeout
  BY <1>3, CreditReads
<1>4. CASE \/ DropPacket \/ DamagePacket \/ DamageStart \/ RepeatPacket \/ DecayFlash
           \/ UNCHANGED vars
  <2>1. UNCHANGED <<rev, committed, txState, credits, sendWin>>
    BY <1>4 DEF DropPacket, DamagePacket, DamageStart, RepeatPacket, DecayFlash, txVars, rxVars,
       vars, links
  <2> QED
    BY <2>1, CreditSame DEF Open
<1>5. CASE LoseResponse
  <2>1. rev # <<>> /\ rev' = Tail(rev) /\ UNCHANGED <<committed, txState, credits, sendWin>>
    BY <1>5 DEF LoseResponse, txVars, rxVars
  <2>2. \A i \in 2 .. Len(rev) : i \in 1 .. Len(rev)
    BY Numbers
  <2>3. (Open' => Open)
    BY <2>1 DEF Open
  <2>4. Open' =>
          /\ credits' + sendWin' <= GrantedCredits + committed
          /\ \A i \in 2 .. Len(rev) :
               IsCommit(rev[i]) => credits' + sendWin' <= GrantedCredits + rev[i].win
    BY <2>1, <2>2, <2>3 DEF CreditInv
  <2> QED
    BY <2>1, <2>3, <2>4, CreditTail
<1>6. CASE AbortBoth
  <2>1. rev' = Append(rev, Abort) /\ UNCHANGED <<committed, txState, credits, sendWin>>
    BY <1>6 DEF AbortBoth, txVars, rxVars
  <2>2. Abort \in PaidResponse /\ ~ IsAck(Abort) /\ ~ IsCommit(Abort)
    BY RevPackets DEF Abort, IsAck, IsCommit
  <2> QED
    BY <2>1, <2>2, CreditGrows, Numbers
<1> QED
  BY <1>1, <1>2, <1>3, <1>4, <1>5, <1>6 DEF Next

-----------------------------------------------------------------------------
(* The end of a transfer.                                                  *)

\* The receiver reports that the staging area holds the image.
IsDone(m) == m.type = "STATUS" /\ m.status = "OK"

\* The sender knows of the success, or will if it reads on.
Succeeded == txState = "COMPLETE" \/ \E j \in 1 .. Len(rev) : IsDone(rev[j])

\* A success is of this session, was checked against the flash, and leaves a
\* receiver that writes nothing until the next START, which has not been sent.
SuccessInv ==
  /\ rxState = "COMPLETE" \/ Succeeded => ~ Early /\ txState # "IDLE"
  /\ Succeeded => rxState \in {"COMPLETE", "ABORTED"}
  /\ \A j \in 1 .. Len(rev) : IsDone(rev[j]) => 0 .. rev[j].crc - 1 \subseteq staged
  /\ txState = "COMPLETE" => 0 .. txTotal - 1 \subseteq staged

\* A step that reports no success.
LEMMA SuccessSame ==
  ASSUME Inv, SuccessInv, Early' => Early, txTotal' = txTotal,
         txState' = "IDLE" => txState = "IDLE",
         txState' = "COMPLETE" =>
           \/ txState = "COMPLETE"
           \/ rev # <<>> /\ IsDone(Head(rev)) /\ Head(rev).crc = txTotal,
         \/ UNCHANGED rev
         \/ rev # <<>> /\ rev' = Tail(rev)
         \/ \E m : rev' = Append(rev, m) /\ ~ IsDone(m),
         rxState' \in {rxState, "ABORTED"} \/ (rxState' # "COMPLETE" /\ ~ Succeeded),
         staged' = staged \/ ~ Succeeded
  PROVE  SuccessInv'
<1>1. rev \in Seq(PaidResponse)
  BY DEF Inv, LinkInv
<1>2. \A j \in 1 .. Len(rev') :
        \/ \E i \in 1 .. Len(rev) : rev'[j] = rev[i]
        \/ ~ IsDone(rev'[j])
  <2>1. CASE UNCHANGED rev
    BY <2>1
  <2>2. CASE rev # <<>> /\ rev' = Tail(rev)
    <3>1. \A j \in 1 .. Len(rev') : j + 1 \in 1 .. Len(rev) /\ rev'[j] = rev[j + 1]
      BY <1>1, <2>2
    <3> QED
      BY <3>1
  <2>3. CASE \E m : rev' = Append(rev, m) /\ ~ IsDone(m)
    <3>1. PICK m : rev' = Append(rev, m) /\ ~ IsDone(m)
      BY <2>3
    <3>2. \A j \in 1 .. Len(rev') : \/ j \in 1 .. Len(rev) /\ rev'[j] = rev[j]
                                    \/ rev'[j] = m
      BY <1>1, <3>1
    <3> QED
      BY <3>1, <3>2
  <2> QED
    BY <2>1, <2>2, <2>3
<1>3. rev # <<>> => 1 \in 1 .. Len(rev) /\ Head(rev) = rev[1]
  BY <1>1
<1>4. Succeeded' => Succeeded
  <2>1. txState' = "COMPLETE" => Succeeded
    BY <1>3 DEF Succeeded
  <2>2. ASSUME NEW j \in 1 .. Len(rev'), IsDone(rev'[j]) PROVE Succeeded
    BY <1>2, <2>2 DEF Succeeded
  <2> QED
    BY <2>1, <2>2 DEF Succeeded
<1>5. CASE ~ Succeeded
  <2>1. ~ Succeeded'
    BY <1>4, <1>5
  <2>2. /\ txState' # "COMPLETE"
        /\ \A j \in 1 .. Len(rev') : ~ IsDone(rev'[j])
    BY <2>1 DEF Succeeded
  <2>3. rxState' = "COMPLETE" => rxState = "COMPLETE"
    BY <1>5
  <2> QED
    BY <2>1, <2>2, <2>3 DEF SuccessInv, IsDone
<1>6. CASE Succeeded
  <2>1. ~ Early' /\ txState' # "IDLE" /\ rxState' \in {"COMPLETE", "ABORTED"}
    BY <1>6 DEF SuccessInv
  <2>2. staged' = staged
    BY <1>6
  <2>3. \A j \in 1 .. Len(rev') :
          IsDone(rev'[j]) => 0 .. rev'[j].crc - 1 \subseteq staged
    BY <1>2 DEF SuccessInv
  <2>4. txState' = "COMPLETE" => 0 .. txTotal - 1 \subseteq staged
    BY <1>3 DEF SuccessInv
  <2> QED
    BY <2>1, <2>2, <2>3, <2>4 DEF SuccessInv, IsDone
<1> QED
  BY <1>5, <1>6

\* The receiver reports a success only in a transfer whose START is behind it,
\* and after the CRC of the staging area matched.
LEMMA SuccessReported ==
  ASSUME Inv, WireInv, BeginInv, SramInv, SuccessInv, RxFinalize, txState' = txState,
         txTotal' = txTotal
  PROVE  SuccessInv'
<1>1. /\ rxState = "TRANSFER" /\ fwd # <<>> /\ fwd' = Tail(fwd)
      /\ OfTransfer(Head(fwd)) /\ UNCHANGED staged
  BY DEF RxFinalize, Takes, OfTransfer
<1>2. ~ Early' /\ txState' # "IDLE"
  BY <1>1, StartIsOver DEF WireInv
<1>3. ~ Succeeded
  BY <1>1 DEF SuccessInv
<1>4. CASE 0 .. rxTotal - 1 \subseteq staged
  <2>1. rxState' = "COMPLETE" /\ rev' = Append(rev, Status("OK", rxTotal))
    BY <1>4 DEF RxFinalize, Respond
  <2>2. \A j \in 1 .. Len(rev') : \/ j \in 1 .. Len(rev) /\ rev'[j] = rev[j]
                                  \/ rev'[j] = Status("OK", rxTotal)
    BY <2>1 DEF Inv, LinkInv
  <2>3. Status("OK", rxTotal).crc = rxTotal
    BY DEF Status
  <2>4. \A j \in 1 .. Len(rev') :
          IsDone(rev'[j]) => 0 .. rev'[j].crc - 1 \subseteq staged
    BY <1>4, <2>2, <2>3, <1>3 DEF Succeeded
  <2>5. txState' # "COMPLETE"
    BY <1>3 DEF Succeeded
  <2> QED
    BY <1>1, <1>2, <2>1, <2>4, <2>5 DEF SuccessInv, IsDone
<1>5. CASE ~ (0 .. rxTotal - 1 \subseteq staged)
  <2>1. rxState' = "ABORTED" /\ rev' = Append(rev, Status("ERR_CRC_MISMATCH", -1))
    BY <1>5 DEF RxFinalize, Respond
  <2>2. ~ IsDone(Status("ERR_CRC_MISMATCH", -1))
    BY DEF IsDone, Status
  <2> QED
    BY <1>1, <1>2, <1>3, <2>1, <2>2, SuccessSame DEF Succeeded
<1> QED
  BY <1>4, <1>5

\* What a step of the receiver that reports no success does.
LEMMA SuccessReceiver ==
  ASSUME Inv, WireInv, SramInv, BeginInv, SuccessInv, ReceiverStep \/ FlashStep
  PROVE  SuccessInv'
<1>1. UNCHANGED <<txState, txTotal>> /\ (Early' => Early)
  BY ReceiverWrites, WireTakes DEF Early
<1>2. /\ \A st, cr : ~ IsDone(StartAck(st, cr))
      /\ \A w, ms : ~ IsDone(QueryResp(w, ms))
      /\ \A w, st, cr : ~ IsDone(Ready(w, st, cr))
      /\ ~ IsDone(Status("ERR_SIZE", 0))
  BY DEF IsDone, StartAck, QueryResp, Ready, Status
<1>3. CASE RxStart
  <2>1. /\ rev' = Append(rev, StartAck("OK", GrantedCredits))
        /\ rxState' = "TRANSFER" /\ UNCHANGED staged
        /\ fwd # <<>> /\ Head(fwd).type = "START"
    BY <1>3 DEF RxStart, Takes, Respond
  <2>2. Early
    <3>1. 1 \in 1 .. Len(fwd) /\ Head(fwd) = fwd[1]
      BY <2>1 DEF Inv, LinkInv
    <3> QED
      BY <2>1, <3>1 DEF Early, StartWaiting
  <2>3. ~ Succeeded
    BY <2>2 DEF SuccessInv
  <2> QED
    BY <1>1, <1>2, <2>1, <2>3, SuccessSame DEF Succeeded
<1>4. CASE RxFinalize
  BY <1>1, <1>4, SuccessReported
<1>5. CASE \/ RxStartRefused \/ RxData \/ RxQueryUnknown \/ RxQuery \/ RxFinalizeEarly
           \/ RxAbort \/ RxIgnore \/ RxNothingToFlash \/ RxFlashRefused \/ RxFlashBegin
  <2>1. UNCHANGED staged /\ rxState' \in {rxState, "ABORTED"}
    BY <1>5 DEF RxStartRefused, RxData, RxQueryUnknown, RxQuery, RxFinalizeEarly,
       RxAbort, RxIgnore, RxNothingToFlash, RxFlashRefused, RxFlashBegin
  <2>2. UNCHANGED rev \/ \E m : rev' = Append(rev, m) /\ ~ IsDone(m)
    BY <1>2, <1>5 DEF RxStartRefused, RxData, RxQueryUnknown, RxQuery, RxFinalizeEarly,
       RxAbort, RxIgnore, RxNothingToFlash, RxFlashRefused, RxFlashBegin, Respond, links
  <2> QED
    BY <1>1, <2>1, <2>2, SuccessSame
<1>6. ASSUME NEW fault, RxFlashEnd(fault) PROVE SuccessInv'
  <2>1. rxPc = "flashing" /\ rxState' = rxState
    BY <1>6 DEF RxFlashEnd
  <2>2. rxState \in {"IDLE", "TRANSFER"} /\ ~ Succeeded
    BY <2>1 DEF BeginInv, SuccessInv
  <2>3. UNCHANGED rev \/ \E m : rev' = Append(rev, m) /\ ~ IsDone(m)
    <3>1. FlashSucceeds \/ \E status : FlashFails(status)
      BY <1>6 DEF RxFlashEnd
    <3> QED
      BY <1>2, <3>1 DEF FlashSucceeds, FlashFails, Respond
  <2> QED
    BY <1>1, <2>1, <2>2, <2>3, SuccessSame
<1> QED
  BY <1>3, <1>4, <1>5, <1>6 DEF ReceiverStep, FlashStep

\* The sender completes for a STATUS that reports the image it has sent.
LEMMA SenderCompletes ==
  ASSUME Inv, SenderStep \/ SenderTimeout
  PROVE  txState' = "COMPLETE" =>
           \/ txState = "COMPLETE"
           \/ rev # <<>> /\ IsDone(Head(rev)) /\ Head(rev).crc = txTotal
<1>1. CASE TxStatus
  BY <1>1 DEF TxStatus, Receives, IsDone
<1>2. CASE ~ TxStatus
  <2>1. CASE \/ TxSendWindow \/ TxRetransmit \/ TxDrained \/ TxWait
             \/ TxStartTimeout \/ TxQueryTimeout \/ TxFinalizeTimeout \/ TxReadyTimeout
    BY <2>1 DEF TxSendWindow, TxRetransmit, TxDrained, TxWait, TxStartTimeout,
       TxQueryTimeout, TxFinalizeTimeout, TxTimeout, TxReadyTimeout, SendBurst, Enter
  <2>2. CASE \/ TxStartAck \/ TxQueryRespMissing \/ TxQueryRespComplete
             \/ TxReadyError \/ TxReady \/ TxAbort \/ TxIgnore
    BY <2>2 DEF TxStartAck, TxQueryRespMissing, TxQueryRespComplete, TxReadyError,
       TxReady, TxAbort, TxIgnore, OpenWindow, Enter
  <2> QED
    BY <1>2, <2>1, <2>2 DEF SenderStep, SenderTimeout
<1> QED
  BY <1>1, <1>2

LEMMA SuccessKept ==
  ASSUME Inv, WireInv, SramInv, BeginInv, SuccessInv, [Next]_vars
  PROVE  SuccessInv'
<1>1. CASE StartSession
  <2>1. rxState' = "IDLE" /\ rev' = <<>> /\ txState' = "START"
    BY <1>1 DEF StartSession, TxStart, Enter
  <2>2. \A j \in 1 .. Len(rev') : FALSE
    BY <2>1
  <2> QED
    BY <2>1, <2>2 DEF SuccessInv, Succeeded
<1>2. CASE ReceiverStep \/ FlashStep
  BY <1>2, SuccessReceiver
<1>3. CASE SenderStep \/ SenderTimeout
  <2>1. UNCHANGED <<rxState, staged>> /\ (rev' = rev \/ (rev # <<>> /\ rev' = Tail(rev)))
    BY <1>3, SenderReads DEF rxVars
  <2>2. /\ Early' => Early
        /\ txTotal' = txTotal
        /\ txState' = "IDLE" => txState = "IDLE"
    BY <1>3, WireSends
  <2> QED
    BY <1>3, <2>1, <2>2, SenderCompletes, SuccessSame
<1>4. CASE \/ DropPacket \/ DamagePacket \/ DamageStart \/ RepeatPacket \/ LoseResponse
           \/ DecayFlash \/ AbortBoth
  <2>1. UNCHANGED <<rxState, txState, txTotal>>
    BY <1>4 DEF DropPacket, DamagePacket, DamageStart, RepeatPacket, LoseResponse, DecayFlash,
       AbortBoth, txVars, rxVars
  <2>2. Early' => Early
    BY <1>4, <2>1, WireSuffers DEF Early
  <2>3. staged' = staged \/ ~ Succeeded
    BY <1>4 DEF DropPacket, DamagePacket, DamageStart, RepeatPacket, LoseResponse, DecayFlash,
       AbortBoth, rxVars, SuccessInv
  <2>4. \/ UNCHANGED rev
        \/ rev # <<>> /\ rev' = Tail(rev)
        \/ \E m : rev' = Append(rev, m) /\ ~ IsDone(m)
    <3>1. ~ IsDone(Abort)
      BY DEF IsDone, Abort
    <3> QED
      BY <1>4, <3>1 DEF DropPacket, DamagePacket, DamageStart, RepeatPacket, LoseResponse, DecayFlash,
         AbortBoth, links
  <2> QED
    BY <2>1, <2>2, <2>3, <2>4, SuccessSame
<1>5. CASE UNCHANGED vars
  <2>1. UNCHANGED <<rxState, txState, txTotal, staged, fwd, rev>>
    BY <1>5 DEF vars, rxVars, txVars, links
  <2>2. Early' => Early
    BY <2>1 DEF Early, StartWaiting
  <2> QED
    BY <2>1, <2>2, SuccessSame
<1> QED
  BY <1>1, <1>2, <1>3, <1>4, <1>5 DEF Next

-----------------------------------------------------------------------------
(* The inductive invariant of a session.                                   *)

SessionInv ==
  /\ WireInv /\ SramInv /\ BeginInv /\ CreditInv /\ SuccessInv
  /\ sessions = 0 => txState = "IDLE"

LEMMA SessionInit == Init => SessionInv
<1> SUFFICES ASSUME Init PROVE SessionInv
  OBVIOUS
<1>1. /\ txState = "IDLE" /\ rxState = "IDLE" /\ rxPc = "poll"
      /\ fwd = <<>> /\ rev = <<>>
  BY DEF Init, TxInit, RxInit
<1>2. 1 .. Len(fwd) = {} /\ 1 .. Len(rev) = {}
  BY <1>1
<1>3. ~ StartWaiting /\ ~ Open /\ ~ Acked /\ ~ Early /\ ~ Succeeded
  BY <1>1, <1>2 DEF StartWaiting, Open, Acked, Early, Sending, Succeeded
<1>4. WireInv
  BY <1>1, <1>2, <1>3 DEF WireInv
<1>5. SramInv /\ BeginInv /\ SuccessInv
  BY <1>1, <1>2, <1>3 DEF SramInv, BeginInv, SuccessInv
<1>6. CreditInv
  BY <1>2, <1>3 DEF CreditInv
<1> QED
  BY <1>1, <1>4, <1>5, <1>6 DEF SessionInv

\* Nothing is sent or read before the first session.
LEMMA SenderAwake ==
  ASSUME Inv, SenderStep \/ SenderTimeout
  PROVE  txState # "IDLE"
<1>1. SUFFICES ASSUME txPc = "loop", txState = "IDLE" PROVE FALSE
  BY DEF Inv, SenderInv
<1>2. ~ InCall /\ \A s : ~ InSwitch(s)
  BY <1>1 DEF InCall, TxActive, InSwitch
<1> QED
  BY <1>2 DEF SenderStep, SenderTimeout, TxStartAck, TxQueryRespMissing,
     TxQueryRespComplete, TxReadyError, TxReady, TxStatus, TxAbort, TxIgnore,
     TxDrained, TxSendWindow, TxRetransmit, TxWait, TxStartTimeout, TxQueryTimeout,
     TxFinalizeTimeout, TxTimeout, TxReadyTimeout, Receives

LEMMA SessionsCount ==
  ASSUME Inv, [Next]_vars
  PROVE  /\ sessions \in Nat
         /\ StartSession => sessions' = sessions + 1
         /\ ~ StartSession => sessions' = sessions
<1>1. sessions \in Nat
  BY TransferAssumption DEF Inv, EnvironmentInv
<1>2. StartSession => sessions' = sessions + 1
  BY DEF StartSession
<1>3. ~ StartSession => sessions' = sessions
  BY DEF Next, vars, SenderStep, SenderTimeout, ReceiverStep, FlashStep, DropPacket,
     DamagePacket, DamageStart, RepeatPacket, LoseResponse, DecayFlash, AbortBoth
<1> QED
  BY <1>1, <1>2, <1>3

LEMMA IdleKept ==
  ASSUME Inv, sessions = 0 => txState = "IDLE", [Next]_vars, sessions' = 0
  PROVE  txState' = "IDLE"
<1>1. ~ StartSession /\ txState = "IDLE"
  BY SessionsCount
<1>2. ~ (SenderStep \/ SenderTimeout)
  BY <1>1, SenderAwake
<1> QED
  BY <1>1, <1>2 DEF Next, vars, txVars, ReceiverStep, FlashStep, DropPacket,
     DamagePacket, DamageStart, RepeatPacket, LoseResponse, DecayFlash, AbortBoth

\* The inductive step.  That no START waits when a session begins has to be
\* assumed only when the last one failed.
LEMMA SessionKept ==
  ASSUME Inv, SessionInv, [Next]_vars, Orderly
  PROVE  SessionInv'
<1>1. StartSession => ~ StartWaiting
  <2> SUFFICES ASSUME StartSession, StartWaiting PROVE FALSE
    OBVIOUS
  <2>1. txState \in {"IDLE", "COMPLETE", "FAILED"}
    BY DEF StartSession, TxStart
  <2>2. txState # "FAILED"
    BY DEF Orderly
  <2>3. txState # "IDLE"
    BY DEF SessionInv, WireInv
  <2>4. txState # "COMPLETE"
    BY DEF SessionInv, SuccessInv, Succeeded, Early
  <2> QED
    BY <2>1, <2>2, <2>3, <2>4
<1>2. WireInv'
  BY <1>1, WireKept DEF SessionInv
<1>3. SramInv' /\ BeginInv'
  BY SramKept, BeginKept DEF SessionInv
<1>4. CreditInv' /\ SuccessInv'
  BY CreditKept, SuccessKept DEF SessionInv
<1>5. sessions' = 0 => txState' = "IDLE"
  BY IdleKept DEF SessionInv
<1> QED
  BY <1>2, <1>3, <1>4, <1>5 DEF SessionInv

\* The invariant holds in every state of every orderly behaviour.
THEOREM Sessions == Spec /\ OrderlySessions => [](Inv /\ SessionInv)
<1>1. Inv /\ SessionInv /\ [Next]_vars /\ [Orderly]_vars => SessionInv'
  <2> SUFFICES ASSUME Inv, SessionInv, [Next]_vars, [Orderly]_vars PROVE SessionInv'
    OBVIOUS
  <2>1. UNCHANGED vars => ~ StartSession
    <3> SUFFICES ASSUME UNCHANGED vars, StartSession PROVE FALSE
      OBVIOUS
    <3>1. sessions' = sessions /\ sessions' = sessions + 1 /\ sessions \in Nat
      BY SessionsCount DEF vars
    <3> QED
      BY <3>1
  <2>2. Orderly
    BY <2>1 DEF Orderly
  <2> QED
    BY <2>2, SessionKept
<1> QED
  BY <1>1, SessionInit, Invariance, PTL DEF Spec, OrderlySessions

-----------------------------------------------------------------------------
(* The theorems.                                                           *)

LEMMA SessionChecked ==
  ASSUME Inv, SessionInv
  PROVE  VerifiedBeforeFlash
<1> SUFFICES ASSUME rxState = "TRANSFER", NEW s \in SlotIds,
                    slots[s].state \in {"READY_TO_FLASH", "FLASHING"},
                    NEW c \in ChunkIds, c < slots[s].total
             PROVE  slots[s].buf[c] = slots[s].win
  BY DEF VerifiedBeforeFlash
<1>1. Sound(slots[s]) /\ slots[s].state \in Checked
  BY DEF SessionInv, SramInv, Checked
<1> QED
  BY <1>1 DEF Sound, Intact

LEMMA SessionAhead ==
  ASSUME Inv, SessionInv
  PROVE  SenderWithinSlots
<1> SUFFICES ASSUME txState \in Sending PROVE sendWin < committed + GrantedCredits
  BY DEF SenderWithinSlots, Sending
<1>1. credits >= 1
  BY DEF Inv, SenderInv, CreditsCoverSending, Sending
<1>2. credits + sendWin <= GrantedCredits + committed
  BY DEF SessionInv, CreditInv, Open
<1>3. /\ credits \in Int /\ sendWin \in Int /\ committed \in Int
      /\ GrantedCredits \in Int
  BY Numbers
<1> HIDE DEF GrantedCredits
<1> QED
  BY <1>1, <1>2, <1>3

\* VerifiedBeforeFlash: ota_receiver.c flashes a window only when every chunk
\* of it is in SRAM as it was sent, whatever data, QUERYs and FINALIZEs an
\* earlier session left behind.
THEOREM Verified == Spec /\ OrderlySessions => []VerifiedBeforeFlash
BY SessionChecked, Sessions, PTL

\* SenderWithinSlots: the sender of ota_sender.c never works on a window the
\* receiver has no slot for, with pipelining of any depth.
THEOREM WithinSlots == Spec /\ OrderlySessions => []SenderWithinSlots
BY SessionAhead, Sessions, PTL

\* Of the first session both hold with nothing assumed.
THEOREM FirstSession ==
  Spec => [](sessions <= 1 => VerifiedBeforeFlash /\ SenderWithinSlots)
<1>1. Inv /\ (sessions <= 1 => SessionInv) /\ [Next]_vars
        => (sessions <= 1 => SessionInv)'
  <2> SUFFICES ASSUME Inv, sessions <= 1 => SessionInv, [Next]_vars, sessions' <= 1
               PROVE  SessionInv'
    OBVIOUS
  <2>1. sessions <= 1 /\ (StartSession => sessions = 0)
    BY SessionsCount
  <2>2. Orderly
    BY <2>1 DEF Orderly, SessionInv
  <2> QED
    BY <2>1, <2>2, SessionKept
<1>2. Inv /\ (sessions <= 1 => SessionInv)
        => (sessions <= 1 => VerifiedBeforeFlash /\ SenderWithinSlots)
  BY SessionChecked, SessionAhead
<1> QED
  BY <1>1, <1>2, SessionInit, Invariance, PTL DEF Spec

-----------------------------------------------------------------------------
(* The refinement of OtaPromise.                                           *)

\* The phases of a session, one by one.
LEMMA Phases ==
  /\ txState = "IDLE" => Phase = "idle"
  /\ txState = "COMPLETE" => Phase = "complete"
  /\ txState = "FAILED" => Phase = "failed"
  /\ txState \notin {"IDLE", "COMPLETE", "FAILED"} => Phase = "active"
BY DEF Phase

\* Success is reached only from a session under way.
LEMMA SenderConcludes ==
  ASSUME SenderStep \/ SenderTimeout
  PROVE  txState' = "COMPLETE" => txState \in {"COMPLETE", "FINALIZE"}
<1>1. CASE TxStatus
  BY <1>1 DEF TxStatus
<1>2. CASE ~ TxStatus
  <2>1. CASE \/ TxSendWindow \/ TxRetransmit \/ TxDrained \/ TxWait
             \/ TxStartTimeout \/ TxQueryTimeout \/ TxFinalizeTimeout \/ TxReadyTimeout
    BY <2>1 DEF TxSendWindow, TxRetransmit, TxDrained, TxWait, TxStartTimeout,
       TxQueryTimeout, TxFinalizeTimeout, TxTimeout, TxReadyTimeout, SendBurst, Enter
  <2>2. CASE \/ TxStartAck \/ TxQueryRespMissing \/ TxQueryRespComplete
             \/ TxReadyError \/ TxReady \/ TxAbort \/ TxIgnore
    BY <2>2 DEF TxStartAck, TxQueryRespMissing, TxQueryRespComplete, TxReadyError,
       TxReady, TxAbort, TxIgnore, OpenWindow, Enter
  <2> QED
    BY <1>2, <2>1, <2>2 DEF SenderStep, SenderTimeout
<1> QED
  BY <1>1, <1>2

\* A window of the staging area changes only when no success has been reported.
LEMMA StagingChanges ==
  ASSUME Inv, SessionInv, [Next]_vars, staged' # staged
  PROVE  /\ txState # "COMPLETE" /\ UNCHANGED <<txState, txTotal>>
         /\ \E w \in Windows : staged' \in {staged \cup {w}, staged \ {w}}
<1>1. ((\E fault : RxFlashEnd(fault)) /\ FlashStep) \/ DecayFlash
  BY DEF Next, vars, rxVars, StartSession, SenderStep, SenderTimeout, ReceiverStep,
     FlashStep, RxStartRefused, RxStart, RxData, RxQueryUnknown, RxQuery,
     RxFinalizeEarly, RxFinalize, RxAbort, RxIgnore, RxNothingToFlash, RxFlashRefused,
     RxFlashBegin, DropPacket, DamagePacket, DamageStart, RepeatPacket, LoseResponse, AbortBoth
<1>2. staged \subseteq Windows /\ target.win \in Windows
  BY DEF Inv, ReceiverInv, RxTypeOK
<1>3. ASSUME NEW fault, RxFlashEnd(fault)
      PROVE  /\ rxPc = "flashing"
             /\ staged' \in {staged \cup {target.win}, staged \ {target.win}}
  BY <1>3 DEF RxFlashEnd
<1>4. rxState \in {"IDLE", "TRANSFER"}
  BY <1>1, <1>3 DEF DecayFlash, SessionInv, BeginInv
<1>5. txState # "COMPLETE"
  BY <1>4 DEF SessionInv, SuccessInv, Succeeded
<1>6. UNCHANGED <<txState, txTotal>>
  BY <1>1 DEF FlashStep, DecayFlash, txVars
<1>7. \E w \in Windows : staged' \in {staged \cup {w}, staged \ {w}}
  <2>1. CASE DecayFlash
    <3>1. PICK w \in staged : staged' = staged \ {w}
      BY <2>1 DEF DecayFlash
    <3> QED
      BY <1>2, <3>1
  <2>2. CASE \E fault : RxFlashEnd(fault)
    BY <1>2, <1>3, <2>2
  <2> QED
    BY <1>1, <2>1, <2>2
<1> QED
  BY <1>5, <1>6, <1>7

\* Every step of a transfer is a step of the promise, or none.
LEMMA PromiseStep ==
  ASSUME Inv, Inv', SessionInv, SessionInv', [Next]_vars
  PROVE  [Promise!Next]_(Promise!vars)
<1>1. /\ txState \in TxStates /\ txState' \in TxStates
      /\ txState' # "IDLE" => txTotal' \in 1 .. MaxWindows
  BY SizesAssumption DEF Inv, SenderInv, TxTypeOK
<1>2. CASE staged' # staged
  <2>1. /\ txState # "COMPLETE" /\ UNCHANGED <<txState, txTotal>>
        /\ \E w \in Windows : staged' \in {staged \cup {w}, staged \ {w}}
    BY <1>2, StagingChanges
  <2>2. Phase # "complete"
    BY <1>1, <2>1, Phases DEF TxStates
  <2>3. Phase' = Phase
    BY <2>1 DEF Phase
  <2>4. Promise!Write
    BY <2>1, <2>2, <2>3 DEF Promise!Write, Windows
  <2> QED
    BY <2>4 DEF Promise!Next
<1>3. CASE StartSession
  <2>1. /\ txState \in {"IDLE", "COMPLETE", "FAILED"} /\ txState' = "START"
        /\ staged' = staged
    BY <1>3 DEF StartSession, TxStart, Enter
  <2>2. Phase # "active" /\ Phase' = "active"
    <3>1. Phase # "active"
      BY <2>1, Phases
    <3>2. Phase' = "active"
      BY <2>1 DEF Phase
    <3> QED
      BY <3>1, <3>2
  <2>3. Promise!Begin
    BY <1>1, <2>1, <2>2 DEF Promise!Begin
  <2> QED
    BY <2>3 DEF Promise!Next
<1>4. CASE (SenderStep \/ SenderTimeout) /\ staged' = staged
  <2>1. /\ txState # "IDLE" /\ txState' # "IDLE" /\ txTotal' = txTotal
        /\ txState' = "COMPLETE" => txState \in {"COMPLETE", "FINALIZE"}
    BY <1>4, SenderAwake, SenderConcludes, WireSends DEF SessionInv
  <2>2. CASE txState' = "COMPLETE" /\ txState # "COMPLETE"
    <3>1. Phase = "active" /\ Phase' = "complete"
      BY <2>1, <2>2 DEF Phase
    <3>2. 0 .. txTotal - 1 \subseteq staged
      BY <1>4, <2>1, <2>2 DEF SessionInv, SuccessInv
    <3>3. Promise!Complete
      BY <1>4, <2>1, <3>1, <3>2 DEF Promise!Complete
    <3> QED
      BY <3>3 DEF Promise!Next
  <2>3. CASE txState' = "FAILED" /\ txState # "FAILED"
    <3>1. Phase \in {"active", "complete"} /\ Phase' = "failed"
      BY <2>1, <2>3 DEF Phase
    <3>2. Promise!Fail
      BY <1>4, <2>1, <3>1 DEF Promise!Fail
    <3> QED
      BY <3>2 DEF Promise!Next
  <2>4. CASE txState' \notin {"COMPLETE", "FAILED"} /\ txState \in {"COMPLETE", "FAILED"}
    <3>1. Phase # "active" /\ Phase' = "active"
      BY <2>1, <2>4 DEF Phase
    <3>2. Promise!Begin
      BY <1>1, <1>4, <2>1, <3>1 DEF Promise!Begin
    <3> QED
      BY <3>2 DEF Promise!Next
  <2>5. CASE \/ txState' = txState
             \/ txState \notin {"COMPLETE", "FAILED"} /\ txState' \notin {"COMPLETE", "FAILED"}
    <3>1. Phase' = Phase
      BY <2>1, <2>5 DEF Phase
    <3> QED
      BY <1>4, <2>1, <3>1 DEF Promise!vars
  <2> QED
    BY <2>2, <2>3, <2>4, <2>5
<1>5. CASE UNCHANGED <<txState, txTotal, staged>>
  <2>1. Phase' = Phase
    BY <1>5 DEF Phase
  <2> QED
    BY <1>5, <2>1 DEF Promise!vars
<1>6. ASSUME staged' = staged, ~ StartSession, ~ (SenderStep \/ SenderTimeout)
      PROVE  UNCHANGED <<txState, txTotal, staged>>
  BY <1>6 DEF Next, vars, txVars, ReceiverStep, FlashStep, DropPacket, DamagePacket,
     DamageStart, RepeatPacket, LoseResponse, DecayFlash, AbortBoth
<1> QED
  BY <1>2, <1>3, <1>4, <1>5, <1>6

\* KeepsPromise: a success is reported only when the staging area holds every
\* window of the image, and from then on nothing touches it until the next
\* session begins.
THEOREM Refinement == Spec /\ OrderlySessions => KeepsPromise
<1>1. Init => Promise!Init
  <2> SUFFICES ASSUME Init PROVE Promise!Init
    OBVIOUS
  <2>1. txState = "IDLE" /\ txTotal = 0 /\ staged = {}
    BY DEF Init, TxInit, RxInit
  <2> QED
    BY <2>1, Phases DEF Promise!Init
<1>2. Inv /\ SessionInv /\ (Inv /\ SessionInv)' /\ [Next]_vars
        => [Promise!Next]_(Promise!vars)
  BY PromiseStep
<1> QED
  BY <1>1, <1>2, Sessions, PTL DEF Spec, KeepsPromise, Promise!Spec
=============================================================================
