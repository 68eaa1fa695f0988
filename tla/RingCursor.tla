----------------------------- MODULE RingCursor -----------------------------
(* common/ring_cursor.c: where the reader of a ring is, when all it can see *)
(* of the writer is its position in the ring.  A cursor is a record with    *)
(* the fields of ring_cursor_t; capacity is a power of two in the code,     *)
(* which makes its masks remainders.                                        *)
EXTENDS Integers

CONSTANT Capacity

ASSUME CapacityAssumption == Capacity \in Nat \ {0}

Cursors == [last_head : 0 .. Capacity - 1, total_written : Nat, total_read : Nat,
            tail : 0 .. Capacity - 1, overrun_count : Nat]

\* ring_cursor_reset.
ResetCursor == [last_head |-> 0, total_written |-> 0, total_read |-> 0,
                tail |-> 0, overrun_count |-> 0]

Behind(rc) == IF rc.total_written >= rc.total_read THEN rc.total_written - rc.total_read ELSE 0

\* ring_cursor_available.
Available(rc) == IF Behind(rc) > Capacity THEN Capacity ELSE Behind(rc)

SafeMargin == IF Capacity \div 4 = 0 THEN 1 ELSE Capacity \div 4

\* An overrun: the reader goes on a quarter of the ring behind the writer.
Recover(rc) ==
  [rc EXCEPT !.overrun_count = @ + 1,
             !.tail = IF rc.last_head >= SafeMargin THEN rc.last_head - SafeMargin
                      ELSE Capacity + rc.last_head - SafeMargin,
             !.total_read = rc.total_written - SafeMargin]

\* Seeded bug: a writer back at the start of the ring has written nothing.
MovedUnwrapped(rc, head) == IF head >= rc.last_head THEN head - rc.last_head ELSE head

\* Bytes written since the last update; a whole lap cannot be seen.
Moved(rc, head) ==
  IF head >= rc.last_head THEN head - rc.last_head
  ELSE Capacity - rc.last_head + head

\* ring_cursor_update_head.
UpdateHead(rc, head) ==
  LET moved == [rc EXCEPT !.last_head = head,
                          !.total_written = @ + Moved(rc, head)]
  IN  IF Behind(moved) > Capacity THEN Recover(moved) ELSE moved

\* Seeded bug: the tail is not masked.
AdvancedUnmasked(rc, n) ==
  LET step == IF n > Available(rc) THEN Available(rc) ELSE n
  IN  [rc EXCEPT !.tail = @ + step, !.total_read = @ + step]

\* ring_cursor_advance.
Advanced(rc, n) ==
  LET step == IF n > Available(rc) THEN Available(rc) ELSE n
  IN  [rc EXCEPT !.tail = (@ + step) % Capacity, !.total_read = @ + step]
=============================================================================
