---------------------------- MODULE OtaTransfer ----------------------------
(***************************************************************************)
(* The OTA transfer of ota/main_ota_bench.c: the sender on core 0, the     *)
(* receiver on core 1, the BMC wire from one to the other and the response *)
(* queue back, and the benchmark that starts one session after another.    *)
(*                                                                         *)
(* The environment may drop, damage or repeat a packet, lose a response,   *)
(* fail a flash attempt, spoil what has been flashed and abort, each at    *)
(* most Budget[f] times.                                                   *)
(***************************************************************************)
EXTENDS OtaSender, OtaReceiver

CONSTANTS
  ImageSizes,    \* sizes, in windows, of the images a session may send
  MaxSessions,   \* bound: sessions the benchmark starts
  Budget         \* bound: how often each fault strikes

Faults == {"drop", "damage", "magic", "repeat", "revdrop", "flash", "decay", "abort"}

ASSUME TransferAssumption ==
  /\ ImageSizes \subseteq Sizes
  /\ MaxSessions \in Nat
  /\ Budget \in [Faults -> Nat]

VARIABLES
  sessions,   \* sessions started
  spent       \* faults that have struck

vars == <<txVars, rxVars, links, sessions, spent>>

TypeOK ==
  /\ TxTypeOK
  /\ RxTypeOK
  /\ fwd \in Seq(FwdPacket)
  /\ rev \in Seq(RevPacket)
  /\ sessions \in 0 .. MaxSessions
  /\ spent \in [Faults -> Nat]

Init ==
  /\ TxInit
  /\ RxInit
  /\ fwd = <<>> /\ rev = <<>>
  /\ sessions = 0
  /\ spent = [f \in Faults |-> 0]

-----------------------------------------------------------------------------
(* The environment.                                                        *)

Strikes(f) ==
  /\ spent[f] < Budget[f]
  /\ spent' = [spent EXCEPT ![f] = @ + 1]

\* A packet is lost: its CRC16 fails, or the DMA ring is overrun.
DropPacket ==
  /\ Strikes("drop")
  /\ fwd # <<>> /\ fwd' = Tail(fwd)
  /\ UNCHANGED <<txVars, rxVars, rev, sessions>>

\* A payload is damaged in a way the CRC16 does not see.
DamagePacket ==
  /\ Strikes("damage")
  /\ fwd # <<>> /\ Head(fwd).type = "DATA" /\ Head(fwd).intact
  /\ fwd' = <<[Head(fwd) EXCEPT !.intact = FALSE]>> \o Tail(fwd)
  /\ UNCHANGED <<txVars, rxVars, rev, sessions>>

\* The magic of a START is damaged in a way the CRC16 does not see.
DamageStart ==
  /\ Strikes("magic")
  /\ fwd # <<>> /\ Head(fwd).type = "START" /\ Head(fwd).magic
  /\ fwd' = <<[Head(fwd) EXCEPT !.magic = FALSE]>> \o Tail(fwd)
  /\ UNCHANGED <<txVars, rxVars, rev, sessions>>

\* A DATA packet arrives twice.
RepeatPacket ==
  /\ Strikes("repeat")
  /\ fwd # <<>> /\ Head(fwd).type = "DATA"
  /\ fwd' = <<Head(fwd)>> \o fwd
  /\ UNCHANGED <<txVars, rxVars, rev, sessions>>

\* A response is lost: on a return path that is not the in-memory queue.
LoseResponse ==
  /\ Strikes("revdrop")
  /\ rev # <<>> /\ rev' = Tail(rev)
  /\ UNCHANGED <<txVars, rxVars, fwd, sessions>>

\* A window that was read back well goes bad before the final check.
DecayFlash ==
  /\ Strikes("decay")
  /\ rxState = "TRANSFER"
  /\ \E w \in staged : staged' = staged \ {w}
  /\ UNCHANGED <<txVars, rxState, rxPc, rxTotal, committed, slots, target, links,
                 sessions>>

\* Someone sends ABORT to both sides.  No code of the repository does, but
\* both sides handle it.
AbortBoth ==
  /\ Strikes("abort")
  /\ fwd' = Append(fwd, Abort) /\ rev' = Append(rev, Abort)
  /\ UNCHANGED <<txVars, rxVars, sessions>>

-----------------------------------------------------------------------------
(* The benchmark and the two cores.                                        *)

\* run_ota_benchmark: core 0 empties the response queue and resets the
\* receiver under core 1, then starts the sender.
StartSession ==
  /\ sessions < MaxSessions
  /\ sessions' = sessions + 1
  /\ \E n \in ImageSizes : TxStart(n)
  /\ rev' = <<>>
  /\ rxState' = "IDLE" /\ rxTotal' = 0 /\ committed' = 0
  /\ slots' = ResetSlots
  /\ UNCHANGED <<rxPc, target, staged, spent>>

\* A timer runs out when a flash operation has taken its time, or when
\* nothing is under way that could answer.
Quiet   == fwd = <<>> /\ rev = <<>> /\ rxPc = "poll" /\ Flashable = {}
Expired == late \/ Quiet

SenderTimeout ==
  /\ \/ Expired /\ (TxStartTimeout \/ TxQueryTimeout \/ TxFinalizeTimeout)
     \/ Quiet /\ TxReadyTimeout
  /\ UNCHANGED <<rxVars, sessions, spent>>

SenderStep ==
  /\ \/ TxStartAck \/ TxQueryRespMissing \/ TxQueryRespComplete
     \/ TxReadyError \/ TxReady \/ TxStatus \/ TxAbort \/ TxIgnore
     \/ TxDrained \/ TxSendWindow \/ TxRetransmit \/ TxWait
  /\ UNCHANGED <<rxVars, sessions, spent>>

ReceiverStep ==
  /\ \/ RxStartRefused \/ RxStart \/ RxData \/ RxQueryUnknown \/ RxQuery
     \/ RxFinalizeEarly \/ RxAbort \/ RxIgnore
     \/ RxNothingToFlash \/ RxFlashRefused \/ RxFlashBegin
  /\ UNCHANGED <<txVars, sessions, spent>>

\* The end of a flash attempt, or of the CRC32 over the whole staging area;
\* it took longer than the query timeout.
FlashStep ==
  /\ \/ RxFlashEnd("none") /\ UNCHANGED spent
     \/ RxFinalize /\ UNCHANGED spent
     \/ \E fault \in {"erase", "program", "readback"} :
          RxFlashEnd(fault) /\ Strikes("flash")
  /\ late' = TRUE
  /\ UNCHANGED <<txState, txPc, txTotal, sendWin, commitWin, credits, retries,
                 curChunk, rtx, sessions>>

Next ==
  \/ StartSession
  \/ SenderStep \/ SenderTimeout
  \/ ReceiverStep \/ FlashStep
  \/ DropPacket \/ DamagePacket \/ DamageStart \/ RepeatPacket \/ LoseResponse
  \/ DecayFlash \/ AbortBoth

Spec == Init /\ [][Next]_vars

(***************************************************************************)
(* Both cores run forever; a timer that keeps running out is noticed.      *)
(* Sessions are started by a key press and faults by nobody: no fairness.  *)
(***************************************************************************)
Fairness ==
  /\ WF_vars(SenderStep)
  /\ SF_vars(SenderTimeout)
  /\ WF_vars(ReceiverStep)
  /\ WF_vars(FlashStep)

FairSpec == Spec /\ Fairness

-----------------------------------------------------------------------------
(* Properties.                                                             *)

\* A window is sent or retransmitted only against a credit, and credits never
\* go negative: the int16 counter is decremented on every QUERY_RESP.
CreditsCoverSending ==
  /\ credits >= 0
  /\ txState \in {"SEND_WINDOW", "QUERY", "RETRANSMIT"} => credits >= 1

\* The sender never opens a window whose slot still has to be flashed: it is
\* less than two windows, and less than the credits, ahead of the receiver.
SenderWithinSlots ==
  txState \in {"SEND_WINDOW", "QUERY", "RETRANSMIT"} =>
    sendWin < committed + GrantedCredits

\* What waits for the flash, or is being flashed, is the window's own data:
\* no late DATA packet changes a buffer after its SRAM CRC was checked.
VerifiedBeforeFlash ==
  rxState = "TRANSFER" =>
    \A s \in SlotIds :
      slots[s].state \in {"READY_TO_FLASH", "FLASHING"} =>
        \A c \in ChunkIds :
          c < slots[s].total => slots[s].buf[c] = slots[s].win

\* An image too large for the staging area is never staged beyond its end, nor
\* is anyone told so: the sender is not told that a window past the end is
\* committed, and no such transfer succeeds.  The receiver may well be in
\* TRANSFER with such an image's windows coming in, for the START of an
\* earlier, smaller one.
OversizeNeverStaged ==
  /\ staged \subseteq 0 .. StagingWindows - 1
  /\ commitWin <= StagingWindows
  /\ txState = "COMPLETE" => txTotal <= StagingWindows

\* A transfer commits its windows in order, one at a time, each when flash
\* holds it.  A flash attempt that outlives its session is not one of its own.
CommitsInOrder ==
  [][rxState = "TRANSFER" /\ committed' # committed =>
       \/ committed' = 0
       \/ /\ committed' = committed + 1
          /\ target.win = committed
          /\ target.win \in staged']_vars

\* The transfer keeps the promise of OtaPromise: success means that the whole
\* image is staged, and nothing writes to flash between a success and the next
\* session, however late its packets and flash attempts are.
Phase == CASE txState = "IDLE"     -> "idle"
           [] txState = "COMPLETE" -> "complete"
           [] txState = "FAILED"   -> "failed"
           [] OTHER                -> "active"

Promise == INSTANCE OtaPromise
             WITH phase <- Phase, total <- txTotal, image <- staged

KeepsPromise == Promise!Spec

\* Every session ends.
SessionEnds == [](TxActive => <>TxFinished)

\* Every session succeeds, for budgets of faults the retries absorb.
SessionSucceeds ==
  [](TxActive => <>(\/ txState = "COMPLETE"
                    \/ \E f \in {"abort", "revdrop", "magic"} : spent[f] > 0
                    \/ txTotal > StagingWindows))
=============================================================================
