----------------------------- MODULE OtaSender -----------------------------
(***************************************************************************)
(* The OTA sender (ota/ota_sender.c), run by core 0 from the benchmark     *)
(* loop of ota/main_ota_bench.c.                                           *)
(*                                                                         *)
(* One call of ota_sender_step first handles every response in the queue   *)
(* and then runs the state machine once.  Core 1 may push a response       *)
(* between the poll that found the queue empty and the switch, so the two  *)
(* halves are separate steps here: txPc is where core 0 is in the call.    *)
(***************************************************************************)
EXTENDS OtaLink

CONSTANTS
  Batch,        \* chunks streamed in one step (32 in the code)
  MaxRetries    \* MAX_TIMEOUT_RETRIES

ASSUME SenderAssumption == Batch \in Nat \ {0} /\ MaxRetries \in Nat

VARIABLES
  txState,      \* tx.state
  txPc,         \* "loop": between calls, "drain": in the poll loop,
                \* "switch": the poll loop found the queue empty
  txTotal,      \* tx.total_windows
  sendWin,      \* tx.send_win_idx
  commitWin,    \* tx.commit_win_idx
  credits,      \* tx.credits
  retries,      \* tx.retries
  curChunk,     \* tx.current_chunk_idx
  rtx,          \* chunks the retransmission still has to send: the zeros of
                \* retransmit_bitmap from retransmit_next_chunk on, which
                \* retransmit_remaining counts
  late          \* a flash operation or the CRC32 of the image, which may take
                \* longer than a timeout, has run since state_enter_us was set

txVars == <<txState, txPc, txTotal, sendWin, commitWin, credits, retries,
            curChunk, rtx, late>>

TxStates == {"IDLE", "START", "SEND_WINDOW", "QUERY", "RETRANSMIT",
             "WAIT_READY", "FINALIZE", "COMPLETE", "FAILED"}

TxFinished == txState \in {"COMPLETE", "FAILED"}
TxActive   == txState \notin {"IDLE", "COMPLETE", "FAILED"}

TxTypeOK ==
  /\ txState \in TxStates
  /\ txPc \in {"loop", "drain", "switch"}
  /\ txTotal \in 0 .. MaxWindows
  /\ sendWin \in 0 .. MaxWindows
  /\ commitWin \in 0 .. MaxWindows
  /\ credits \in Int
  /\ retries \in 0 .. MaxRetries + 1
  /\ curChunk \in 0 .. Chunks
  /\ rtx \subseteq ChunkIds
  /\ late \in BOOLEAN

TxInit ==
  /\ txState = "IDLE" /\ txPc = "loop" /\ txTotal = 0
  /\ sendWin = 0 /\ commitWin = 0 /\ credits = 0
  /\ retries = 0 /\ curChunk = 0 /\ rtx = {} /\ late = FALSE

ChunksInWin == ChunksIn(txTotal, sendWin)

\* A state change that sets state_enter_us.
Enter(s) == txState' = s /\ late' = FALSE

-----------------------------------------------------------------------------
(* ota_sender_init and ota_sender_start for an image of n windows.         *)

TxStart(n) ==
  /\ txState \in {"IDLE", "COMPLETE", "FAILED"} /\ txPc = "loop"
  /\ txTotal' = n
  /\ sendWin' = 0 /\ commitWin' = 0 /\ credits' = 0 /\ retries' = 0
  /\ curChunk' = 0 /\ rtx' = {}
  /\ Enter("START")
  /\ fwd' = Append(fwd, Start(n))
  /\ UNCHANGED txPc

-----------------------------------------------------------------------------
(* ota_sender_handle_response.  Each action takes the oldest response of   *)
(* one type.  The benchmark loop calls ota_sender_step only while the      *)
(* sender is active, but once inside, the poll loop goes on to the end.    *)

InCall == txPc = "drain" \/ (txPc = "loop" /\ TxActive)

Receives(type) ==
  /\ InCall /\ rev # <<>> /\ Head(rev).type = type
  /\ rev' = Tail(rev)
  /\ txPc' = "drain"

\* setup_window(send_win_idx) and the state change that follows it.
OpenWindow ==
  /\ curChunk' = 0
  /\ Enter("SEND_WINDOW")

TxStartAck ==
  /\ Receives("START_ACK")
  /\ txState = "START"
  /\ IF Head(rev).status # "OK"
     THEN /\ txState' = "FAILED"
          /\ UNCHANGED <<credits, retries, curChunk, late>>
     ELSE /\ credits' = Head(rev).credit
          /\ retries' = 0
          /\ OpenWindow
  /\ UNCHANGED <<txTotal, sendWin, commitWin, rtx, fwd>>

\* Some chunks of the window are missing: retransmit them.
TxQueryRespMissing ==
  /\ Receives("QUERY_RESP")
  /\ txState = "QUERY" /\ Head(rev).win = sendWin
  /\ Head(rev).missing # {}
  /\ rtx' = Head(rev).missing
  /\ Enter("RETRANSMIT")
  /\ UNCHANGED <<txTotal, sendWin, commitWin, credits, retries, curChunk, fwd>>

\* Seeded bug: the next window is opened without looking at the credits.
TxQueryRespCompleteUnpaid ==
  /\ Receives("QUERY_RESP")
  /\ txState = "QUERY" /\ Head(rev).win = sendWin
  /\ Head(rev).missing = {}
  /\ credits' = credits - 1
  /\ sendWin' = sendWin + 1
  /\ retries' = 0
  /\ IF sendWin + 1 < txTotal
     THEN OpenWindow
     ELSE Enter("WAIT_READY") /\ UNCHANGED curChunk
  /\ UNCHANGED <<txTotal, commitWin, rtx, fwd>>

\* The window is complete in the receiver's SRAM: move to the next one.
TxQueryRespComplete ==
  /\ Receives("QUERY_RESP")
  /\ txState = "QUERY" /\ Head(rev).win = sendWin
  /\ Head(rev).missing = {}
  /\ credits' = credits - 1
  /\ sendWin' = sendWin + 1
  /\ retries' = 0
  /\ IF sendWin + 1 < txTotal /\ credits - 1 > 0
     THEN OpenWindow
     ELSE Enter("WAIT_READY") /\ UNCHANGED curChunk
  /\ UNCHANGED <<txTotal, commitWin, rtx, fwd>>

\* READY with an error status, in any state.
TxReadyError ==
  /\ Receives("READY")
  /\ Head(rev).status # "OK"
  /\ txState' = "FAILED"
  /\ UNCHANGED <<txTotal, sendWin, commitWin, credits, retries, curChunk,
                 rtx, late, fwd>>

\* Seeded bug: the credit of a READY is not added.
TxReadyNoCredit ==
  /\ Receives("READY")
  /\ Head(rev).status = "OK"
  /\ commitWin' = Head(rev).win + 1
  /\ IF Head(rev).win + 1 = txTotal
     THEN /\ Enter("FINALIZE")
          /\ retries' = 0
          /\ fwd' = Append(fwd, Finalize)
          /\ UNCHANGED curChunk
     ELSE /\ IF txState = "WAIT_READY" /\ sendWin < txTotal
             THEN OpenWindow
             ELSE UNCHANGED <<txState, late, curChunk>>
          /\ UNCHANGED <<retries, fwd>>
  /\ UNCHANGED <<txTotal, sendWin, credits, rtx>>

\* READY with status OK, in any state: the code tests no state here.
TxReady ==
  /\ Receives("READY")
  /\ Head(rev).status = "OK"
  /\ credits' = credits + Head(rev).credit
  /\ commitWin' = Head(rev).win + 1
  /\ IF Head(rev).win + 1 = txTotal
     THEN /\ Enter("FINALIZE")
          /\ retries' = 0
          /\ fwd' = Append(fwd, Finalize)
          /\ UNCHANGED curChunk
     ELSE /\ IF txState = "WAIT_READY" /\ sendWin < txTotal
             THEN OpenWindow
             ELSE UNCHANGED <<txState, late, curChunk>>
          /\ UNCHANGED <<retries, fwd>>
  /\ UNCHANGED <<txTotal, sendWin, rtx>>

\* Seeded bug: any STATUS is taken for success.
TxStatusUnchecked ==
  /\ Receives("STATUS")
  /\ txState = "FINALIZE"
  /\ txState' = "COMPLETE"
  /\ UNCHANGED <<txTotal, sendWin, commitWin, credits, retries, curChunk,
                 rtx, late, fwd>>

TxStatus ==
  /\ Receives("STATUS")
  /\ txState = "FINALIZE"
  /\ txState' = IF Head(rev).status = "OK" /\ Head(rev).crc = txTotal
                THEN "COMPLETE" ELSE "FAILED"
  /\ UNCHANGED <<txTotal, sendWin, commitWin, credits, retries, curChunk,
                 rtx, late, fwd>>

TxAbort ==
  /\ Receives("ABORT")
  /\ txState' = "FAILED"
  /\ UNCHANGED <<txTotal, sendWin, commitWin, credits, retries, curChunk,
                 rtx, late, fwd>>

\* A response the current state does not expect is dropped.
TxIgnore ==
  /\ \/ Receives("START_ACK") /\ txState # "START"
     \/ Receives("QUERY_RESP") /\ (txState # "QUERY" \/ Head(rev).win # sendWin)
     \/ Receives("STATUS") /\ txState # "FINALIZE"
  /\ UNCHANGED <<txState, txTotal, sendWin, commitWin, credits, retries,
                 curChunk, rtx, late, fwd>>

\* recv_packet returned false.
TxDrained ==
  /\ InCall /\ rev = <<>>
  /\ txPc' = "switch"
  /\ UNCHANGED <<txState, txTotal, sendWin, commitWin, credits, retries,
                 curChunk, rtx, late, links>>
-----------------------------------------------------------------------------
(* The state machine of ota_sender_step.                                   *)

InSwitch(s) == txPc = "switch" /\ txState = s /\ txPc' = "loop"

\* The DATA packets of a sequence of chunks of the current window.
DataPackets(cs) == [i \in DOMAIN cs |-> Data(sendWin, cs[i])]

\* The chunks from..to-1, and the k lowest ones of a set, in order.
ChunkRun(from, to) == [i \in 1 .. to - from |-> from + i - 1]

IsLowest(cs, k, set) ==
  /\ \A i, j \in 1 .. k : i < j => cs[i] < cs[j]
  /\ \A d \in set : (\A i \in 1 .. k : cs[i] # d) => \A i \in 1 .. k : cs[i] < d

Least(a, b) == IF a < b THEN a ELSE b

CurrentQuery == Query(sendWin, ChunksInWin)

\* A burst of chunks and, when it was the last one, the QUERY.
SendBurst(cs, last) ==
  LET sent == fwd \o DataPackets(cs)
  IN  IF last
      THEN /\ fwd' = Append(sent, CurrentQuery)
           /\ Enter("QUERY")
           /\ retries' = 0
      ELSE /\ fwd' = sent
           /\ UNCHANGED <<txState, late, retries>>

TxSendWindow ==
  /\ InSwitch("SEND_WINDOW")
  /\ LET next == Least(curChunk + Batch, ChunksInWin)
     IN  /\ curChunk' = next
         /\ SendBurst(ChunkRun(curChunk, next), next = ChunksInWin)
  /\ UNCHANGED <<txTotal, sendWin, commitWin, credits, rtx, rev>>

TxRetransmit ==
  /\ InSwitch("RETRANSMIT")
  /\ LET k == Least(Batch, Cardinality(rtx))
     IN  \E cs \in [1 .. k -> rtx] :
           /\ IsLowest(cs, k, rtx)
           /\ rtx' = {c \in rtx : \A i \in 1 .. k : cs[i] # c}
           /\ SendBurst(cs, rtx' = {})
  /\ UNCHANGED <<txTotal, sendWin, commitWin, credits, curChunk, rev>>

\* Seeded bug: retries are counted and never run out.
TxTimeoutUnlimited(s, pkt) ==
  /\ InSwitch(s)
  /\ retries' = retries + 1
  /\ late' = FALSE
  /\ fwd' = Append(fwd, pkt)
  /\ UNCHANGED <<txState, txTotal, sendWin, commitWin, credits, curChunk, rtx,
                 rev>>

\* Seeded bug: the timer is restarted and nothing is sent again.
TxTimeoutSilent(s, pkt) ==
  /\ InSwitch(s)
  /\ retries' = retries + 1
  /\ IF retries + 1 > MaxRetries
     THEN txState' = "FAILED" /\ UNCHANGED late
     ELSE late' = FALSE /\ UNCHANGED txState
  /\ UNCHANGED <<txTotal, sendWin, commitWin, credits, curChunk, rtx, links>>

\* START, QUERY and FINALIZE repeat their packet when they time out.
TxTimeout(s, pkt) ==
  /\ InSwitch(s)
  /\ retries' = retries + 1
  /\ IF retries + 1 > MaxRetries
     THEN /\ txState' = "FAILED"
          /\ UNCHANGED <<late, fwd>>
     ELSE /\ late' = FALSE
          /\ fwd' = Append(fwd, pkt)
          /\ UNCHANGED txState
  /\ UNCHANGED <<txTotal, sendWin, commitWin, credits, curChunk, rtx, rev>>

TxStartTimeout    == TxTimeout("START", Start(txTotal))
TxQueryTimeout    == TxTimeout("QUERY", CurrentQuery)
TxFinalizeTimeout == TxTimeout("FINALIZE", Finalize)

\* Seeded bug: WAIT_READY has no timeout.
TxReadyTimeoutNever ==
  /\ InSwitch("WAIT_READY")
  /\ UNCHANGED <<txState, txTotal, sendWin, commitWin, credits, retries,
                 curChunk, rtx, late, links>>

\* WAIT_READY gives up at once: its timeout has no retry.
TxReadyTimeout ==
  /\ InSwitch("WAIT_READY")
  /\ txState' = "FAILED"
  /\ UNCHANGED <<txTotal, sendWin, commitWin, credits, retries, curChunk,
                 rtx, late, links>>

\* A waiting state whose timer has not expired, or nothing left to do.
TxWait ==
  /\ \E s \in TxStates \ {"SEND_WINDOW", "RETRANSMIT"} : InSwitch(s)
  /\ UNCHANGED <<txState, txTotal, sendWin, commitWin, credits, retries,
                 curChunk, rtx, late, links>>
=============================================================================
