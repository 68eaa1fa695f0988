---------------------------- MODULE OtaReceiver ----------------------------
(***************************************************************************)
(* The OTA receiver (ota/ota_receiver.c), run by core 1 from               *)
(* core1_ota_worker of ota/main_ota_bench.c: poll one packet, process it,  *)
(* then let ota_receiver_step_flash take one flash attempt.                *)
(*                                                                         *)
(* A flash attempt is two steps, begin and end, because it takes longer    *)
(* than anything else in the system and core 0 runs between the flash      *)
(* operations it is made of.                                               *)
(***************************************************************************)
EXTENDS OtaLink

CONSTANT MaxFlashRetries   \* OTA_MAX_FLASH_RETRIES

ASSUME ReceiverAssumption == MaxFlashRetries \in Nat \ {0}

VARIABLES
  rxState,      \* rx.state
  rxPc,         \* "poll": about to poll, "step": a packet was processed,
                \* "flashing": inside a flash attempt
  rxTotal,      \* rx.total_windows, and what total_size and image_crc32 tell
  committed,    \* rx.windows_committed
  slots,        \* rx.slots[2]
  target,       \* target_slot and its flash_offset, locals of step_flash
  staged        \* windows of the staging area that hold the image's data

rxVars == <<rxState, rxPc, rxTotal, committed, slots, target, staged>>

RxStates   == {"IDLE", "TRANSFER", "COMPLETE", "ABORTED"}
SlotStates == {"FREE", "RECEIVING", "READY_TO_FLASH", "FLASHING",
               "COMMITTED", "ERROR"}
SlotIds == {0, 1}

\* What a chunk of an SRAM buffer holds: that chunk of a window, or garbage.
Garbage == -1

Slot == [state   : SlotStates,
         win     : Windows,
         total   : 0 .. Chunks,
         have    : SUBSET ChunkIds,
         crc     : Windows,
         tries   : Nat,
         buf     : [ChunkIds -> Windows \cup {Garbage}]]

NoTarget == [slot |-> 0, win |-> 0]

RxTypeOK ==
  /\ rxState \in RxStates
  /\ rxPc \in {"poll", "step", "flashing"}
  /\ rxTotal \in 0 .. MaxWindows
  /\ committed \in 0 .. MaxWindows
  /\ slots \in [SlotIds -> Slot]
  /\ target \in [slot : SlotIds, win : Windows]
  /\ staged \subseteq Windows

RxInit ==
  /\ rxState = "IDLE" /\ rxPc = "poll" /\ rxTotal = 0 /\ committed = 0
  /\ slots = [s \in SlotIds |->
               [state |-> "FREE", win |-> 0, total |-> 0, have |-> {},
                crc |-> 0, tries |-> 0, buf |-> [c \in ChunkIds |-> Garbage]]]
  /\ target = NoTarget
  /\ staged = {}

-----------------------------------------------------------------------------
(* Slots.                                                                  *)

SlotOf(w) == w % 2

\* ota_receiver_reset: everything but the buffer and what QUERY set.
ResetSlot(slot) ==
  [slot EXCEPT !.state = "FREE", !.win = 0, !.have = {}, !.tries = 0]

ResetSlots == [s \in SlotIds |-> ResetSlot(slots[s])]

\* The slot a DATA packet of window w finds: a slot that is free, or done
\* with another window, is first initialized for w.
SlotForData(slot, w) ==
  IF slot.state = "FREE" \/ (slot.state = "COMMITTED" /\ slot.win # w)
  THEN [slot EXCEPT !.state = "RECEIVING", !.win = w, !.have = {},
                    !.tries = 0, !.total = ChunksIn(rxTotal, w)]
  ELSE slot

\* A chunk the slot does not have yet is copied in; every other one is
\* dropped: of another window, in another state, out of range, a duplicate.
StoreChunk(slot, m) ==
  IF /\ slot.win = m.win
     /\ slot.state \in {"RECEIVING", "READY_TO_FLASH"}
     /\ m.chunk < slot.total
     /\ m.chunk \notin slot.have
  THEN [slot EXCEPT !.have = @ \cup {m.chunk},
                    !.buf[m.chunk] = IF m.intact THEN m.win ELSE Garbage]
  ELSE slot

MissingIn(slot) == {c \in ChunkIds : c < slot.total /\ c \notin slot.have}

\* Seeded bug: chunks are counted, their CRC is not checked.
SramCrcMatchesAlways(slot) == slot.total \in Nat

\* ota_crc32 of the buffer is the CRC the sender gave for the window.
SramCrcMatches(slot) ==
  \A c \in ChunkIds : c < slot.total => slot.buf[c] = slot.crc

KnowsWindow(slot, w) == slot.state # "FREE" /\ slot.win = w

\* What QUERY records in the slot of the window it asks about.
QueriedSlot(slot, m) == [slot EXCEPT !.crc = m.win, !.total = m.total]

-----------------------------------------------------------------------------
(* ota_receiver_process_packet: core 1 takes the oldest packet.            *)

Takes(type) ==
  /\ rxPc = "poll" /\ fwd # <<>> /\ Head(fwd).type = type
  /\ fwd' = Tail(fwd)
  /\ rxPc' = "step"

Respond(m) == rev' = Append(rev, m)

\* A wrong magic, or an image that does not fit, is refused and changes
\* nothing.
RxStartRefused ==
  /\ Takes("START")
  /\ \/ ~ Head(fwd).magic /\ Respond(StartAck("ERR_MAGIC", 0))
     \/ /\ Head(fwd).magic /\ Head(fwd).total > StagingWindows
        /\ Respond(StartAck("ERR_SIZE", 0))
  /\ UNCHANGED <<rxState, rxTotal, committed, slots, target, staged>>

GrantedCredits == IF InitialCredits > 0 THEN InitialCredits ELSE 1

\* START resets the receiver whatever it was doing.
RxStart ==
  /\ Takes("START")
  /\ Head(fwd).magic /\ Head(fwd).total <= StagingWindows
  /\ rxTotal' = Head(fwd).total
  /\ committed' = 0
  /\ slots' = ResetSlots
  /\ rxState' = "TRANSFER"
  /\ Respond(StartAck("OK", GrantedCredits))
  /\ UNCHANGED <<target, staged>>

RxData ==
  /\ Takes("DATA")
  /\ rxState = "TRANSFER"
  /\ LET m == Head(fwd)
     IN  slots' = [slots EXCEPT ![SlotOf(m.win)] =
                     StoreChunk(SlotForData(@, m.win), m)]
  /\ UNCHANGED <<rxState, rxTotal, committed, target, staged, rev>>

\* A window no slot holds, even one already committed, is all missing.
RxQueryUnknown ==
  /\ Takes("QUERY")
  /\ rxState = "TRANSFER"
  /\ LET m == Head(fwd)
     IN  /\ ~ KnowsWindow(slots[SlotOf(m.win)], m.win)
         /\ Respond(QueryResp(m.win, 0 .. m.total - 1))
  /\ UNCHANGED <<rxState, rxTotal, committed, slots, target, staged>>

RxQuery ==
  /\ Takes("QUERY")
  /\ rxState = "TRANSFER"
  /\ LET m    == Head(fwd)
         s    == SlotOf(m.win)
         slot == QueriedSlot(slots[s], m)
     IN  /\ KnowsWindow(slots[s], m.win)
         /\ \/ \* chunks are missing: name them
               /\ MissingIn(slot) # {}
               /\ slots' = [slots EXCEPT ![s] = slot]
               /\ Respond(QueryResp(m.win, MissingIn(slot)))
            \/ \* all there and intact: the slot may be flashed
               /\ MissingIn(slot) = {} /\ SramCrcMatches(slot)
               /\ slots' = [slots EXCEPT ![s] =
                              [slot EXCEPT !.state = "READY_TO_FLASH"]]
               /\ Respond(QueryResp(m.win, {}))
            \/ \* all there but damaged: ask for the whole window again
               /\ MissingIn(slot) = {} /\ ~ SramCrcMatches(slot)
               /\ slots' = [slots EXCEPT ![s] = [slot EXCEPT !.have = {}]]
               /\ Respond(QueryResp(m.win, 0 .. slot.total - 1))
  /\ UNCHANGED <<rxState, rxTotal, committed, target, staged>>

\* FINALIZE before every window is committed is an error and no more.
RxFinalizeEarly ==
  /\ Takes("FINALIZE")
  /\ rxState = "TRANSFER" /\ committed < rxTotal
  /\ Respond(Status("ERR_SIZE", 0))
  /\ UNCHANGED <<rxState, rxTotal, committed, slots, target, staged>>

\* The CRC32 of the staging area decides.
RxFinalize ==
  /\ Takes("FINALIZE")
  /\ rxState = "TRANSFER" /\ committed >= rxTotal
  /\ IF 0 .. rxTotal - 1 \subseteq staged
     THEN rxState' = "COMPLETE" /\ Respond(Status("OK", rxTotal))
     ELSE rxState' = "ABORTED"  /\ Respond(Status("ERR_CRC_MISMATCH", -1))
  /\ UNCHANGED <<rxTotal, committed, slots, target, staged>>

RxAbort ==
  /\ Takes("ABORT")
  /\ rxState' = "ABORTED"
  /\ UNCHANGED <<rxTotal, committed, slots, target, staged, rev>>

\* Outside TRANSFER only START and ABORT mean anything.
RxIgnore ==
  /\ \E type \in {"DATA", "QUERY", "FINALIZE"} : Takes(type)
  /\ rxState # "TRANSFER"
  /\ UNCHANGED <<rxState, rxTotal, committed, slots, target, staged, rev>>
-----------------------------------------------------------------------------
(* ota_receiver_step_flash.                                                *)

\* Seeded bug: a window is flashed as soon as it is there, in any order.
FlashableAnyOrder ==
  IF rxState # "TRANSFER" THEN {}
  ELSE {s \in SlotIds : slots[s].state = "READY_TO_FLASH"}

\* The slots with the next window in order, verified in SRAM.
Flashable ==
  IF rxState # "TRANSFER" THEN {}
  ELSE {s \in SlotIds : /\ slots[s].state = "READY_TO_FLASH"
                        /\ slots[s].win = committed}

RxNothingToFlash ==
  /\ rxPc = "step" /\ Flashable = {}
  /\ rxPc' = "poll"
  /\ UNCHANGED <<rxState, rxTotal, committed, slots, target, staged, links>>

\* The first slot of the array that may be flashed, also when the poll found
\* no packet.
Flashes(s) ==
  /\ rxPc \in {"poll", "step"}
  /\ s \in Flashable /\ \A t \in Flashable : s <= t

\* The hard boundary check: a window that does not end inside the staging
\* area ends the transfer.
RxFlashRefused ==
  \E s \in SlotIds :
    /\ Flashes(s)
    /\ slots[s].win >= StagingWindows
    /\ slots' = [slots EXCEPT ![s].state = "ERROR"]
    /\ rxState' = "ABORTED"
    /\ Respond(Ready(slots[s].win, "ERR_SIZE", 0))
    /\ rxPc' = "poll"
    /\ UNCHANGED <<rxTotal, committed, target, staged, fwd>>

\* Seeded bug: the boundary is not checked.
RxFlashBeginUnbounded ==
  \E s \in SlotIds :
    /\ Flashes(s)
    /\ slots' = [slots EXCEPT ![s].state = "FLASHING"]
    /\ target' = [slot |-> s, win |-> slots[s].win]
    /\ rxPc' = "flashing"
    /\ UNCHANGED <<rxState, rxTotal, committed, staged, links>>

RxFlashBegin ==
  \E s \in SlotIds :
    /\ Flashes(s)
    /\ slots[s].win < StagingWindows
    /\ slots' = [slots EXCEPT ![s].state = "FLASHING"]
    /\ target' = [slot |-> s, win |-> slots[s].win]
    /\ rxPc' = "flashing"
    /\ UNCHANGED <<rxState, rxTotal, committed, staged, links>>

Leave(slot, s) == [slot EXCEPT !.state = s, !.tries = @ + 1]

\* A flash attempt that fails is retried until OTA_MAX_FLASH_RETRIES, then
\* reported; the receiver stays in TRANSFER.
FlashFails(status) ==
  LET slot == slots[target.slot]
  IN  /\ IF slot.tries + 1 < MaxFlashRetries
         THEN /\ slots' = [slots EXCEPT ![target.slot] =
                             Leave(@, "READY_TO_FLASH")]
              /\ UNCHANGED rev
         ELSE /\ slots' = [slots EXCEPT ![target.slot] = Leave(@, "ERROR")]
              /\ Respond(Ready(slot.win, status, 0))
      /\ UNCHANGED committed

FlashSucceeds ==
  /\ slots' = [slots EXCEPT ![target.slot].state = "FREE"]
  /\ committed' = committed + 1
  /\ Respond(Ready(slots[target.slot].win, "OK", 1))

\* The end of an attempt, by what went wrong in it: the erase, the program
\* or the read-back.  A failed erase may have erased the block or not, a
\* read-back may misread what was written well.
RxFlashEnd(fault) ==
  LET slot     == slots[target.slot]
      written  == \A c \in ChunkIds : c < slot.total => slot.buf[c] = target.win
      verified == target.win \in staged' /\ slot.crc = target.win
  IN  /\ rxPc = "flashing"
      /\ rxPc' = "poll"
      /\ \E good \in BOOLEAN :
           /\ staged' = IF good THEN staged \cup {target.win}
                                ELSE staged \ {target.win}
           /\ good => IF fault = "erase" THEN target.win \in staged
                                         ELSE written /\ fault # "program"
           /\ fault = "none" => good = written
      /\ \/ fault = "erase"   /\ FlashFails("ERR_FLASH_ERASE")
         \/ fault = "program" /\ FlashFails("ERR_FLASH_PROGRAM")
         \/ fault = "readback" /\ FlashFails("ERR_FLASH_VERIFY")
         \/ fault = "none" /\ verified /\ FlashSucceeds
         \/ fault = "none" /\ ~ verified /\ FlashFails("ERR_FLASH_VERIFY")
      /\ UNCHANGED <<rxState, rxTotal, target, fwd>>
=============================================================================
