------------------------------ MODULE OtaBench ------------------------------
(***************************************************************************)
(* The OTA benchmark of ota/main_ota_bench.c around the transfer: the menu *)
(* on core 0, with the change of rate that takes the receive port away     *)
(* from core 1, and the worker on core 1, with every flash operation of a  *)
(* flash attempt down to the byte.                                         *)
(*                                                                         *)
(* The protocol itself is OtaTransfer.  Here a packet is START, a whole    *)
(* window that has passed its CRC, or FINALIZE, and any of them may arrive *)
(* at any time once a session was started.  During a flash operation core  *)
(* 0 is locked out, so an operation is one step; between two it runs.      *)
(***************************************************************************)
EXTENDS FlashMap

CONSTANTS
  Window,                 \* OTA_WINDOW_SIZE
  MaxRetries,             \* OTA_MAX_FLASH_RETRIES
  ImageSizes,             \* bytes a START may announce
  Rates,                  \* the rates of the menu
  SleepTicks, PollTicks,  \* the sleep in configure_rate, the longest poll
  MaxCommands, MaxFaults, MaxPowerLosses   \* bounds

ASSUME OtaBenchAssumption ==
  /\ Window \in Nat \ {0} /\ Window % Sector = 0
  /\ MaxRetries \in Nat \ {0}
  /\ ImageSizes \subseteq 1 .. StagingBytes
  /\ Rates # {}
  /\ {SleepTicks, PollTicks} \subseteq Nat /\ PollTicks < SleepTicks
  /\ {MaxCommands, MaxFaults, MaxPowerLosses} \subseteq Nat

VARIABLES
  mem,       \* the flash
  pc0,       \* core 0: "menu", "confirm", "sleep", "setup" or "run"
  pc1,       \* core 1: "top", "poll", "step" or "attempt"
  enable,    \* s_core1_rx_enable
  rate,      \* s_current_rate
  chosen,    \* the rate configure_rate sets up
  tx, rx,    \* the rates the two state machines run at, rx "down" without a port
  timer,     \* what is left of the sleep
  polled,    \* how much of it the poll has taken
  session,   \* the size of the image being sent, 0 before the first session
  state,     \* s_receiver.state
  size,      \* s_receiver.total_size
  committed, \* s_receiver.windows_committed
  slot,      \* the slot of the window that is due: state, win, bytes, retries
  attempt,   \* locals of step_flash: offset, bytes, what is programmed
  faulted,   \* a fault has struck the window that is due
  commands, faults, losses

core0  == <<pc0, chosen, timer, session>>
port   == <<enable, rate, tx, rx>>
core1  == <<pc1, polled, attempt>>
recvr  == <<state, size, committed, slot, faulted>>
bounds == <<commands, faults, losses>>
vars   == <<mem, core0, port, core1, recvr, bounds>>

-----------------------------------------------------------------------------
Free == [state |-> "FREE", win |-> 0, bytes |-> 0, retries |-> 0]

Idle == [next |-> "erase", offset |-> 0, bytes |-> 0, done |-> 0]

\* What power-up leaves, init_hardware included: the first configure_rate has
\* succeeded, core 1 runs.
PowerUp(r) ==
  /\ pc0' = "menu" /\ chosen' = r /\ timer' = 0 /\ session' = 0
  /\ enable' = TRUE /\ rate' = r /\ tx' = r /\ rx' = r
  /\ pc1' = "top" /\ polled' = 0 /\ attempt' = Idle
  /\ state' = "IDLE" /\ size' = 0 /\ committed' = 0 /\ slot' = Free /\ faulted' = FALSE

Init ==
  /\ mem = [p \in Pages |-> Old]
  /\ pc0 = "menu" /\ timer = 0 /\ session = 0
  /\ \E r \in Rates : chosen = r /\ rate = r /\ tx = r /\ rx = r
  /\ enable = TRUE
  /\ pc1 = "top" /\ polled = 0 /\ attempt = Idle
  /\ state = "IDLE" /\ size = 0 /\ committed = 0 /\ slot = Free /\ faulted = FALSE
  /\ commands = 0 /\ faults = 0 /\ losses = 0

-----------------------------------------------------------------------------
(* Core 0.                                                                 *)

Command == pc0 = "menu" /\ commands < MaxCommands /\ commands' = commands + 1

\* 'u' asks for a 'y'.
TypeUpdate ==
  /\ Command /\ pc0' = "confirm"
  /\ UNCHANGED <<mem, chosen, timer, session, port, core1, recvr, faults, losses>>

\* run_ota_benchmark: core 0 resets the receiver, whatever core 1 is doing,
\* and sends; or the confirmation is refused or times out.
Confirm ==
  /\ pc0 = "confirm"
  /\ \/ /\ pc0' = "run" /\ session' \in ImageSizes
        /\ state' = "IDLE" /\ size' = 0 /\ committed' = 0
        /\ slot' = [slot EXCEPT !.state = "FREE", !.win = 0, !.retries = 0]
     \/ pc0' = "menu" /\ UNCHANGED <<session, state, size, committed, slot>>
  /\ UNCHANGED <<mem, chosen, timer, port, core1, faulted, bounds>>

\* The sender completes or fails: when it does, OtaSender says.
RunEnds ==
  /\ pc0 = "run" /\ pc0' = "menu"
  /\ UNCHANGED <<mem, chosen, timer, session, port, core1, recvr, bounds>>

\* 'g': core 0 tries to erase the first sector.
TypeGuardCheck ==
  /\ Command
  /\ mem' = IF Permitted("erase", 0, Sector) THEN Executed(mem, "erase", 0, Sector, <<>>)
                                             ELSE mem
  /\ UNCHANGED <<core0, port, core1, recvr, faults, losses>>

\* Seeded bug: no sleep.
TypeRateAtOnce(r) ==
  /\ Command
  /\ pc0' = "sleep" /\ enable' = FALSE /\ chosen' = r /\ timer' = 0
  /\ UNCHANGED <<mem, session, rate, tx, rx, core1, recvr, faults, losses>>

\* '1' to '4', configure_rate: core 1 is told to stop polling, and given time.
TypeRate(r) ==
  /\ Command
  /\ pc0' = "sleep" /\ enable' = FALSE /\ chosen' = r /\ timer' = SleepTicks
  /\ UNCHANGED <<mem, session, rate, tx, rx, core1, recvr, faults, losses>>

\* Both state machines stop, the programs are cleared and loaded; the
\* transmitter is primed.
TearDown ==
  /\ pc0 = "sleep" /\ timer = 0 /\ pc0' = "setup"
  /\ rx' = "down" /\ tx' = chosen
  /\ UNCHANGED <<mem, chosen, timer, session, enable, rate, core1, recvr, bounds>>

\* bmc_rx_port_init_ex, which may find no DMA channel.
SetUp ==
  /\ pc0 = "setup" /\ pc0' = "menu"
  /\ \/ rx' = chosen /\ rate' = chosen /\ enable' = TRUE /\ UNCHANGED faults
     \/ faults < MaxFaults /\ faults' = faults + 1 /\ UNCHANGED <<rx, rate, enable>>
  /\ UNCHANGED <<mem, chosen, timer, session, tx, core1, recvr, commands, losses>>

\* Time passes on core 0's sleep; no poll lasts longer than PollTicks.
Tick ==
  /\ pc0 = "sleep" /\ timer > 0
  /\ pc1 = "poll" => polled < PollTicks
  /\ timer' = timer - 1
  /\ polled' = IF pc1 = "poll" THEN polled + 1 ELSE polled
  /\ UNCHANGED <<mem, pc0, chosen, session, port, pc1, attempt, recvr, bounds>>
-----------------------------------------------------------------------------
(* Core 1.                                                                 *)

\* The top of the loop.
CheckEnable ==
  /\ pc1 = "top" /\ enable
  /\ pc1' = "poll"
  /\ UNCHANGED <<mem, core0, port, polled, attempt, recvr, bounds>>

PollNothing ==
  /\ pc1 = "poll" /\ pc1' = "step" /\ polled' = 0
  /\ UNCHANGED <<mem, core0, port, attempt, recvr, bounds>>

\* A packet can only have come in through a port that is up.
Poll ==
  /\ pc1 = "poll" /\ pc1' = "step" /\ polled' = 0
  /\ session # 0 /\ rx = tx
  /\ UNCHANGED <<mem, core0, port, attempt, bounds>>

ReceiveStart ==
  /\ Poll
  /\ state' = "TRANSFER" /\ size' = session /\ committed' = 0
  /\ slot' = [slot EXCEPT !.state = "FREE", !.win = 0, !.retries = 0]
  /\ faulted' = FALSE

Windows == (size + Window - 1) \div Window

\* Seeded bug: what remains, however much that is.
DueBytesUncut == size - committed * Window

DueBytes ==
  IF size - committed * Window > Window THEN Window ELSE size - committed * Window

\* The window that is due is complete in its slot; a late QUERY does the same
\* to a slot in ERROR, whose retries stay.
ReceiveWindow ==
  /\ Poll
  /\ state = "TRANSFER" /\ committed < Windows /\ slot.state \in {"FREE", "ERROR"}
  /\ slot' = [state |-> "READY", win |-> committed,
              bytes |-> DueBytes,
              retries |-> IF slot.state = "ERROR" THEN slot.retries ELSE 0]
  /\ faulted' = (slot.state = "ERROR" /\ faulted)
  /\ UNCHANGED <<state, size, committed>>

Image(p) == <<"image", p>>

Staged(offset, bytes) == \A p \in PagesIn(offset, bytes) : mem[p] = Image(p)

ReceiveFinalize ==
  /\ Poll
  /\ state = "TRANSFER" /\ committed >= Windows
  /\ state' = IF Staged(StagingOffset, size) THEN "COMPLETE" ELSE "ABORTED"
  /\ UNCHANGED <<size, committed, slot, faulted>>

Attempting == state = "TRANSFER" /\ slot.state = "READY" /\ slot.win = committed

\* ota_receiver_step_flash finds nothing to do.
NothingToFlash ==
  /\ pc1 = "step" /\ ~ Attempting /\ pc1' = "top"
  /\ UNCHANGED <<mem, core0, port, polled, attempt, recvr, bounds>>

\* The check of the range of the window that follows in the code (OtaReceiver has
\* it) refuses none here: no image is larger than the staging area.
BeginAttempt ==
  /\ pc1 = "step" /\ Attempting /\ pc1' = "attempt"
  /\ attempt' = [next |-> "erase", offset |-> StagingOffset + slot.win * Window,
                 bytes |-> slot.bytes, done |-> 0]
  /\ slot' = [slot EXCEPT !.state = "FLASHING"]
  /\ UNCHANGED <<mem, core0, port, polled, state, size, committed, faulted, bounds>>

AttemptAt(s) == pc1 = "attempt" /\ attempt.next = s

\* The attempt failed: again, up to a limit, beyond which it is not counted.
FailAttempt ==
  /\ pc1' = "top" /\ attempt' = Idle
  /\ slot' = IF slot.retries + 1 < MaxRetries
             THEN [slot EXCEPT !.state = "READY", !.retries = @ + 1]
             ELSE [slot EXCEPT !.state = "ERROR", !.retries = MaxRetries]
  /\ UNCHANGED committed

Strike == faults < MaxFaults /\ faults' = faults + 1 /\ faulted' = TRUE
Spared == UNCHANGED <<faults, faulted>>

\* Seeded bug: only the bytes of the window are erased.
EraseBytesOfWindow == attempt.bytes

\* The whole block is erased, also for a window that is not full.
EraseBytes == Window

Erase ==
  /\ AttemptAt("erase")
  /\ \/ /\ Permitted("erase", attempt.offset, EraseBytes)
        /\ mem' = Executed(mem, "erase", attempt.offset, EraseBytes, <<>>)
        /\ attempt' = [attempt EXCEPT !.next = "program"]
        /\ Spared /\ UNCHANGED <<pc1, slot, committed>>
     \/ /\ IF Permitted("erase", attempt.offset, EraseBytes) THEN Strike ELSE Spared
        /\ FailAttempt /\ UNCHANGED mem
  /\ UNCHANGED <<core0, port, polled, state, size, commands, losses>>

\* ota_device_flash_program goes by sectors.
Piece == IF attempt.bytes - attempt.done > Sector THEN Sector ELSE attempt.bytes - attempt.done

\* A piece is refused or fails, or is programmed, perhaps not as it should be.
Program ==
  /\ AttemptAt("program")
  /\ LET offset == attempt.offset + attempt.done
         data   == [j \in 0 .. Piece \div Page - 1 |-> Image(offset \div Page + j)]
     IN  \/ /\ Permitted("program", offset, Piece)
            /\ \/ mem' = Executed(mem, "program", offset, Piece, data) /\ Spared
               \/ mem' = Interrupted(mem, offset, Piece) /\ Strike
            /\ attempt' = [attempt EXCEPT !.done = @ + Piece,
                              !.next = IF attempt.done + Piece < attempt.bytes THEN "program" ELSE "verify"]
            /\ UNCHANGED <<pc1, slot, committed>>
         \/ /\ IF Permitted("program", offset, Piece) THEN Strike ELSE Spared
            /\ FailAttempt /\ UNCHANGED mem
  /\ UNCHANGED <<core0, port, polled, state, size, commands, losses>>

\* The CRC of what is read back against that of the window.
Verify ==
  /\ AttemptAt("verify")
  /\ IF Staged(attempt.offset, attempt.bytes)
     THEN /\ pc1' = "top" /\ attempt' = Idle
          /\ slot' = [slot EXCEPT !.state = "FREE"]
          /\ committed' = committed + 1
     ELSE FailAttempt
  /\ UNCHANGED <<mem, core0, port, polled, state, size, faulted, bounds>>

\* The board loses power, perhaps in the middle of a flash operation.
PowerLoss(r) ==
  /\ losses < MaxPowerLosses /\ losses' = losses + 1
  /\ PowerUp(r)
  /\ mem' \in CASE AttemptAt("erase")   -> CutOff(mem, "erase", attempt.offset, EraseBytes)
               [] AttemptAt("program") -> CutOff(mem, "program", attempt.offset + attempt.done, Piece)
               [] OTHER                -> {mem}
  /\ UNCHANGED <<commands, faults>>

-----------------------------------------------------------------------------
Core0 ==
  \/ TypeUpdate \/ Confirm \/ RunEnds \/ TypeGuardCheck
  \/ (\E r \in Rates : TypeRate(r)) \/ TearDown \/ SetUp

Core1 ==
  \/ CheckEnable \/ PollNothing \/ ReceiveStart \/ ReceiveWindow \/ ReceiveFinalize
  \/ NothingToFlash \/ BeginAttempt \/ Erase \/ Program \/ Verify

Next == Core0 \/ Core1 \/ Tick \/ \E r \in Rates : PowerLoss(r)

Spec == Init /\ [][Next]_vars
-----------------------------------------------------------------------------
Slots == [state : {"FREE", "READY", "FLASHING", "ERROR"}, win : Nat, bytes : 0 .. Window,
          retries : 0 .. MaxRetries]

Attempts == [next : {"erase", "program", "verify"}, offset : Nat, bytes : 0 .. Window,
             done : 0 .. Window]

Flags == enable \in BOOLEAN /\ faulted \in BOOLEAN

Values ==
  /\ DOMAIN mem = Pages
  /\ pc0 \in {"menu", "confirm", "sleep", "setup", "run"}
  /\ pc1 \in {"top", "poll", "step", "attempt"}
  /\ rate \in Rates /\ chosen \in Rates /\ tx \in Rates /\ rx \in Rates \cup {"down"}
  /\ timer \in 0 .. SleepTicks /\ polled \in 0 .. PollTicks
  /\ session \in ImageSizes \cup {0} /\ size \in ImageSizes \cup {0}
  /\ state \in {"IDLE", "TRANSFER", "COMPLETE", "ABORTED"}
  /\ committed \in Nat
  /\ slot \in Slots /\ attempt \in Attempts
  /\ commands \in 0 .. MaxCommands /\ faults \in 0 .. MaxFaults
  /\ losses \in 0 .. MaxPowerLosses

\* The variables keep their types: the window that is due always fits its slot.
TypeOK == Flags /\ Values

\* Neither the block erased for the last, partial window, nor an attempt that
\* goes on after a reset, nor a power loss in one, nor the guard check changes a
\* byte outside the staging area: the firmware and the bonding bank stay.
StagingOnly ==
  [][\A p \in Pages : mem'[p] # mem[p] => Touches(StagingOffset, StagingBytes, p)]_vars

\* A window the flash can take: whole pages, in a block inside the staging area.
Fits(s) ==
  /\ s.bytes % Page = 0
  /\ StagingOffset + s.win * Window + Window <= StagingOffset + StagingBytes

\* A window is given up only if a fault struck it or it does not fit, and every
\* window committed is in the flash and stays there until the session is over:
\* a torn or old block under it is erased first, no later window spoils it.
CommitsWhatFits ==
  /\ state = "TRANSFER" /\ slot.state = "ERROR" => faulted \/ ~ Fits(slot)
  /\ state \in {"TRANSFER", "COMPLETE"} =>
       Staged(StagingOffset, IF committed >= Windows THEN size ELSE committed * Window)

\* Core 1 polls no port that is being taken down or set up, and the two state
\* machines then run at the rate the menu shows; a port that could not be set
\* up is not polled at all.
PollsWholePort == pc1 = "poll" => rx = tx /\ rx = rate
=============================================================================
