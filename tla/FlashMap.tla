------------------------------ MODULE FlashMap ------------------------------
(***************************************************************************)
(* The flash and the guard in front of it: the layout of flash/flash_map.h *)
(* and flash_bench_execute of flash/flash_bench.c, through which both the  *)
(* flash benchmark and the OTA receiver erase and program.                 *)
(*                                                                         *)
(* Offsets and sizes are bytes, as in the code; what the flash holds is    *)
(* kept per page, the smallest thing that can be programmed.               *)
(***************************************************************************)
EXTENDS Integers

CONSTANTS
  Page, Sector, Block,   \* POC_FLASH_PAGE_SIZE, _SECTOR_SIZE, _BLOCK_SIZE
  TotalBytes,            \* POC_FLASH_TOTAL_BYTES
  FirmwareBytes,         \* POC_FLASH_FIRMWARE_BYTES
  TestBytes              \* POC_FLASH_BENCH_TEST_BYTES

ReservedBytes  == 3 * Sector
ReservedOffset == TotalBytes - ReservedBytes
StagingOffset  == FirmwareBytes
StagingBytes   == ReservedOffset - StagingOffset
TestOffset     == StagingOffset

\* The static assertions of flash_map.h, a power-of-two chain of sizes, and a
\* firmware that takes some place.
ASSUME FlashMapAssumption ==
  /\ Page \in Nat \ {0} /\ Sector \in Nat \ {0} /\ Block \in Nat \ {0}
  /\ TotalBytes \in Nat /\ FirmwareBytes \in Nat \ {0} /\ TestBytes \in Nat
  /\ Sector % Page = 0 /\ Block % Sector = 0 /\ TotalBytes % Sector = 0
  /\ FirmwareBytes % Sector = 0 /\ StagingBytes % Sector = 0
  /\ StagingBytes >= FirmwareBytes
  /\ TestBytes % Block = 0 /\ TestBytes <= StagingBytes

-----------------------------------------------------------------------------
(* The guard.                                                              *)

\* flash_map_is_staging_range: the end is computed in 64 bits, so it does
\* not wrap.
is_staging_range(offset, count) ==
  /\ count # 0
  /\ offset >= StagingOffset
  /\ offset + count <= StagingOffset + StagingBytes

is_sector_aligned(offset, count) == offset % Sector = 0 /\ count % Sector = 0
is_page_aligned(offset, count)   == offset % Page = 0 /\ count % Page = 0

\* Seeded bug: only the start of the range is checked.
PermittedAtStart(op, offset, count) ==
  /\ offset >= StagingOffset /\ offset < ReservedOffset
  /\ IF op = "erase" THEN is_sector_aligned(offset, count)
                     ELSE is_page_aligned(offset, count)

\* What flash_bench_execute hands on to flash_safe_execute.
Permitted(op, offset, count) ==
  /\ is_staging_range(offset, count)
  /\ IF op = "erase" THEN is_sector_aligned(offset, count)
                     ELSE is_page_aligned(offset, count)

-----------------------------------------------------------------------------
(* NOR flash: an erase blanks a page; programming can only clear bits, so  *)
(* over anything but a blank page, or the same data, it leaves a mixture.  *)

Pages == 0 .. (TotalBytes \div Page) - 1

Blank == <<"blank">>
Mixed == <<"mixed">>
Torn  == <<"torn">>      \* the power went during an erase or a program
Old   == <<"old">>       \* what an earlier firmware left

Touches(offset, count, p) == offset <= p * Page /\ p * Page < offset + count

PagesIn(offset, count) == {p \in Pages : Touches(offset, count, p)}

OverWritten(old, new) == IF old \in {Blank, new} THEN new ELSE Mixed

\* data[j] goes to the j-th page of the range.
Executed(mem, op, offset, count, data) ==
  [p \in Pages |->
     IF ~ Touches(offset, count, p) THEN mem[p]
     ELSE IF op = "erase" THEN Blank
     ELSE OverWritten(mem[p], data[p - offset \div Page])]

Interrupted(mem, offset, count) ==
  [p \in Pages |-> IF Touches(offset, count, p) THEN Torn ELSE mem[p]]

\* What the flash may hold when the power goes while the guard is asked for an
\* operation.
CutOff(mem, op, offset, count) ==
  {mem, IF Permitted(op, offset, count) THEN Interrupted(mem, offset, count) ELSE mem}
=============================================================================
