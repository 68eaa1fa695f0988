----------------------------- MODULE FlashBench -----------------------------
(***************************************************************************)
(* The flash benchmark: the menu of flash/main_flash_bench.c and the items *)
(* of flash/flash_bench.c, a single core with interrupts off during every  *)
(* flash operation.                                                        *)
(*                                                                         *)
(* Every item is a few loops, each doing one thing to one unit after       *)
(* another; a loop is a record, an item a sequence of them, and one action *)
(* does the next turn of the current loop.                                 *)
(***************************************************************************)
EXTENDS FlashMap, Sequences, FiniteSets

CONSTANTS
  NSectors, NBlocks, NPages, NChunks,   \* how many units items 1 to 4 measure
  MaxCommands,    \* bound: commands typed
  MaxFaults,      \* bound: flash operations that fail
  MaxPowerLosses  \* bound

ASSUME FlashBenchAssumption ==
  /\ {NSectors, NBlocks, NPages, NChunks} \subseteq Nat \ {0}
  /\ NSectors * Sector <= TestBytes /\ NBlocks * Block <= TestBytes
  /\ NPages * Page <= TestBytes /\ NChunks * Sector <= TestBytes
  /\ TestBytes # 0
  /\ {MaxCommands, MaxFaults, MaxPowerLosses} \subseteq Nat

VARIABLES
  mem,          \* the flash
  buf,          \* s_work_buf: the seed its pattern was made from
  stage,        \* "menu", "confirm" or "run"
  cmd,          \* the command typed last
  loop, turn,   \* where in it
  verified,     \* what its read-backs said, in order
  outcome,      \* how the last command ended
  commands, faults, losses

at     == <<stage, cmd, loop, turn>>
bounds == <<commands, faults, losses>>
vars   == <<mem, buf, at, verified, outcome, bounds>>

-----------------------------------------------------------------------------
(* The items as sequences of loops.                                        *)

Loop(op, unit, turns, fill, seed) ==
  [op |-> op, unit |-> unit, turns |-> turns, fill |-> fill, seed |-> seed]

EraseEach(unit, n) == Loop("erase", unit, n, unit, "none")

\* The work buffer is filled for every fill bytes, from the seed plus the
\* number of the fill.
ProgramEach(unit, n, fill, seed) == Loop("program", unit, n, fill, seed)

\* Strategy (a) erases and programs in turn.
RewriteEach(unit, n, seed) == Loop("rewrite", unit, 2 * n, unit, seed)

ReadBack == Loop("verify", TestBytes, 1, Sector, "image")

sector_erase == <<EraseEach(Sector, NSectors)>>

block_erase == <<EraseEach(Block, NBlocks)>>

\* Seeded bug: the sectors to erase are rounded down.
page_programRoundedDown ==
  <<EraseEach(Sector, (NPages * Page) \div Sector),
    ProgramEach(Page, NPages, Page, "page")>>

page_program ==
  <<EraseEach(Sector, (NPages * Page + Sector - 1) \div Sector),
    ProgramEach(Page, NPages, Page, "page")>>

chunk_program ==
  <<EraseEach(Sector, NChunks), ProgramEach(Sector, NChunks, Sector, "chunk")>>

\* Seeded bug: one block too many.
EraseRegionInclusive == EraseEach(Block, TestBytes \div Block + 1)

EraseRegion == EraseEach(Block, TestBytes \div Block)

strategy_a == <<RewriteEach(Sector, TestBytes \div Sector, "image"), ReadBack>>

\* Seeded bug: the buffer is filled for a page, not for a sector of pages.
strategy_bByPage ==
  <<EraseRegion, ProgramEach(Page, TestBytes \div Page, Page, "image"), ReadBack>>

\* Seeded bug: the region still holds the image of the strategy before.
strategy_bUnerased ==
  <<ProgramEach(Page, TestBytes \div Page, Sector, "image"), ReadBack>>

strategy_b ==
  <<EraseRegion, ProgramEach(Page, TestBytes \div Page, Sector, "image"), ReadBack>>

strategy_c ==
  <<EraseRegion, ProgramEach(Sector, TestBytes \div Sector, Sector, "image"), ReadBack>>

\* The checks that come first refuse a size no static assertion allows.
image_strategies ==
  IF TestBytes % Block = 0 /\ is_staging_range(TestOffset, TestBytes)
  THEN strategy_a \o strategy_b \o strategy_c ELSE <<>>

full_suite == sector_erase \o block_erase \o page_program \o chunk_program
                \o image_strategies \o <<ReadBack>>

Loops == [c1 |-> sector_erase, c2 |-> block_erase, c3 |-> page_program,
          c4 |-> chunk_program, c5 |-> image_strategies, c6 |-> <<ReadBack>>,
          f |-> full_suite]

Commands == DOMAIN Loops

Current == Loops[cmd][loop]
-----------------------------------------------------------------------------
(* One turn of a loop.                                                     *)

Unit == IF Current.op = "rewrite" THEN turn \div 2 ELSE turn

Op == IF Current.op # "rewrite" THEN Current.op
      ELSE IF turn % 2 = 0 THEN "erase" ELSE "program"

Offset == TestOffset + Unit * Current.unit

Rel == (Unit * Current.unit) % Current.fill

\* flash_prng_fill_pattern, when a new fill is due.
Filled ==
  IF Current.op \in {"program", "rewrite"} /\ Rel = 0
  THEN [seed |-> Current.seed, index |-> (Unit * Current.unit) \div Current.fill]
  ELSE buf

Data == [j \in 0 .. Current.unit \div Page - 1 |->
           <<Filled.seed, Filled.index, Rel \div Page + j>>]

GoTo(s, c, l, t) == stage' = s /\ cmd' = c /\ loop' = l /\ turn' = t

\* Seeded bug: the next loop goes on counting.
NextTurnUnreset ==
  IF turn + 1 < Current.turns THEN GoTo("run", cmd, loop, turn + 1)
  ELSE IF loop < Len(Loops[cmd]) THEN GoTo("run", cmd, loop + 1, turn)
  ELSE GoTo("menu", cmd, 1, 0)

NextTurn ==
  IF turn + 1 < Current.turns THEN GoTo("run", cmd, loop, turn + 1)
  ELSE IF loop < Len(Loops[cmd]) THEN GoTo("run", cmd, loop + 1, 0)
  ELSE GoTo("menu", cmd, 1, 0)

\* The first error ends the command.
Fail ==
  /\ GoTo("menu", cmd, 1, 0)
  /\ outcome' = "error"
  /\ UNCHANGED <<mem, verified>>

Finish == outcome' = IF stage' = "menu" THEN "ok" ELSE outcome

-----------------------------------------------------------------------------
Init ==
  /\ mem = [p \in Pages |-> Old]
  /\ buf = [seed |-> "none", index |-> 0]
  /\ stage = "menu" /\ cmd = "c6" /\ loop = 1 /\ turn = 0
  /\ verified = <<>> /\ outcome = "none"
  /\ commands = 0 /\ faults = 0 /\ losses = 0

\* main: only the read needs no confirmation.
TypeKey(c) ==
  /\ stage = "menu" /\ commands < MaxCommands
  /\ commands' = commands + 1
  /\ GoTo(IF c = "c6" THEN "run" ELSE "confirm", c, 1, 0)
  /\ verified' = <<>> /\ outcome' = "none"
  /\ UNCHANGED <<mem, buf, faults, losses>>

\* confirm_action: 'y', or any other key.
Confirm ==
  /\ stage = "confirm"
  /\ stage' \in {"run", "menu"}
  /\ UNCHANGED <<mem, buf, cmd, loop, turn, verified, outcome, bounds>>

Flash ==
  /\ stage = "run" /\ Op \in {"erase", "program"}
  /\ buf' = Filled
  /\ \/ /\ Permitted(Op, Offset, Current.unit)
        /\ mem' = Executed(mem, Op, Offset, Current.unit, Data)
        /\ NextTurn /\ Finish
        /\ UNCHANGED <<verified, bounds>>
     \/ \* the guard refuses, or flash_safe_execute fails: nothing was done
        /\ Permitted(Op, Offset, Current.unit) => faults < MaxFaults
        /\ faults' = IF Permitted(Op, Offset, Current.unit) THEN faults + 1 ELSE faults
        /\ Fail
        /\ UNCHANGED <<commands, losses>>

PagesPerSector == Sector \div Page

\* The page of the test region the image's pattern puts there.
ImagePage(p) ==
  LET q == p - TestOffset \div Page
  IN  <<"image", q \div PagesPerSector, q % PagesPerSector>>

\* flash_bench_measure_xip_read compares chunk by chunk and leaves the last
\* chunk's pattern in the work buffer.
Verify ==
  /\ stage = "run" /\ Op = "verify"
  /\ buf' = [seed |-> "image", index |-> TestBytes \div Sector - 1]
  /\ verified' = Append(verified, \A p \in PagesIn(TestOffset, TestBytes) :
                                    mem[p] = ImagePage(p))
  /\ NextTurn /\ Finish
  /\ UNCHANGED <<mem, bounds>>

\* The board loses power, perhaps in the middle of a flash operation.
PowerLoss ==
  /\ losses < MaxPowerLosses /\ losses' = losses + 1
  /\ stage = "run"
  /\ mem' \in IF Op = "verify" THEN {mem} ELSE CutOff(mem, Op, Offset, Current.unit)
  /\ buf' = [seed |-> "none", index |-> 0]
  /\ GoTo("menu", cmd, 1, 0)
  /\ verified' = <<>> /\ outcome' = "none"
  /\ UNCHANGED <<commands, faults>>

Next ==
  \/ \E c \in Commands : TypeKey(c)
  \/ Confirm \/ Flash \/ Verify \/ PowerLoss

Spec == Init /\ [][Next]_vars
-----------------------------------------------------------------------------
\* The variables keep their types, and the turn stays inside its loop.
TypeOK ==
  /\ stage \in {"menu", "confirm", "run"} /\ cmd \in Commands
  /\ loop \in 1 .. Len(Loops[cmd]) /\ turn \in 0 .. Current.turns - 1
  /\ DOMAIN mem = Pages
  /\ verified \in Seq(BOOLEAN) /\ outcome \in {"none", "ok", "error"}
  /\ commands \in 0 .. MaxCommands /\ faults \in 0 .. MaxFaults
  /\ losses \in 0 .. MaxPowerLosses

\* Whatever is typed, fails or is cut off, the benchmark writes in the test
\* region and nowhere else: neither the firmware nor the bonding bank, and
\* not the rest of the staging area either.
OnlyTestRegionChanges ==
  [][\A p \in Pages : mem'[p] # mem[p] => Touches(TestOffset, TestBytes, p)]_vars

\* Whenever an item is about to program, every page it programs is blank,
\* whatever the commands, the failures and the power losses before it left
\* there.  No read-back would see it otherwise: the strategies all write the
\* same image, and programming a page with what it holds leaves it as it is.
ProgramsOnErased ==
  stage = "run" /\ Op = "program" =>
    \A p \in PagesIn(Offset, Current.unit) : mem[p] = Blank

\* A command no flash operation of which failed ends well, and each of its
\* read-backs finds the image if a strategy came before it.
StrategiesVerify ==
  /\ outcome = "error" => faults > 0
  /\ (cmd \in {"c5", "f"} /\ outcome = "ok") => \A k \in DOMAIN verified : verified[k]
  /\ outcome = "ok" => Len(verified) = Cardinality({k \in DOMAIN Loops[cmd] : Loops[cmd][k] = ReadBack})
=============================================================================
