-------------------------- MODULE RespQueueProofs --------------------------
(***************************************************************************)
(* The response queue is a FIFO, for every size of the ring, every set of  *)
(* responses and every number of pushes.                                   *)
(*                                                                         *)
(* The indices head and tail are the numbers of items pushed and popped,   *)
(* modulo Size; the two numbers are less than Size apart, so the slots of  *)
(* the items that wait are all different, and the one core 1 is filling is *)
(* none of them.                                                           *)
(***************************************************************************)
EXTENDS RespQueue, TLAPS

-----------------------------------------------------------------------------
(* Remainders.                                                             *)

\* A remainder is the index of a slot.
LEMMA RemainderIsSlot ==
  ASSUME NEW n \in Nat
  PROVE  n % Size \in Slots
BY QueueAssumption DEF Slots

\* Quotient and remainder are unique.
LEMMA DivisionUnique ==
  ASSUME NEW q \in Int, NEW p \in Int, NEW r \in Slots, NEW u \in Slots,
         Size * q + r = Size * p + u
  PROVE  q = p /\ r = u
<1>1. Size * (q - p) = u - r
  BY QueueAssumption DEF Slots
<1>2. ~ (q - p >= 1)
  <2>1. q - p >= 1 => Size * (q - p) >= Size
    BY QueueAssumption
  <2> QED
    BY <1>1, <2>1, QueueAssumption DEF Slots
<1>3. ~ (p - q >= 1)
  <2>1. p - q >= 1 => Size * (p - q) >= Size
    BY QueueAssumption
  <2>2. Size * (p - q) = r - u
    BY QueueAssumption DEF Slots
  <2> QED
    BY <2>1, <2>2, QueueAssumption DEF Slots
<1> QED
  BY <1>1, <1>2, <1>3, QueueAssumption DEF Slots

\* Numbers less than Size apart have different slots.
LEMMA SlotsDiffer ==
  ASSUME NEW a \in Nat, NEW b \in Nat, a < b, b - a < Size
  PROVE  a % Size # b % Size
<1> SUFFICES ASSUME a % Size = b % Size PROVE FALSE
  OBVIOUS
<1> DEFINE d == b \div Size - a \div Size
<1>1. /\ a = Size * (a \div Size) + (a % Size)
      /\ b = Size * (b \div Size) + (b % Size)
      /\ a \div Size \in Nat /\ b \div Size \in Nat
      /\ a % Size \in Nat /\ b % Size \in Nat
  BY QueueAssumption
<1>2. d \in Int /\ Size * d = b - a
  BY <1>1, QueueAssumption
<1>3. d >= 1 => Size * d >= Size
  BY <1>2, QueueAssumption
<1>4. d <= 0 => Size * d <= 0
  BY <1>2, QueueAssumption
<1> QED
  BY <1>2, <1>3, <1>4, QueueAssumption

\* The slot that follows the slot of n is the slot of n + 1.
LEMMA FollowingSlot ==
  ASSUME NEW n \in Nat
  PROVE  Following(n % Size) = (n + 1) % Size
<1> DEFINE m == (n % Size) + 1
<1>1. /\ n = Size * (n \div Size) + (n % Size)
      /\ n \div Size \in Nat /\ n % Size \in Nat
  BY QueueAssumption
<1>2. /\ m = Size * (m \div Size) + (m % Size)
      /\ m \div Size \in Nat /\ m % Size \in Slots
  BY <1>1, QueueAssumption DEF Slots
<1>3. /\ n + 1 = Size * ((n + 1) \div Size) + ((n + 1) % Size)
      /\ (n + 1) \div Size \in Nat /\ (n + 1) % Size \in Slots
  BY QueueAssumption DEF Slots
<1>4. Size * (n \div Size + m \div Size) + (m % Size)
        = Size * ((n + 1) \div Size) + ((n + 1) % Size)
  BY <1>1, <1>2, <1>3, QueueAssumption
<1>5. n \div Size + m \div Size \in Int
  BY <1>1, <1>2
<1> HIDE DEF m
<1>6. m % Size = (n + 1) % Size
  BY <1>2, <1>3, <1>4, <1>5, DivisionUnique
<1> QED
  BY <1>6 DEF Following, m

-----------------------------------------------------------------------------
(* The inductive invariant.                                                *)

\* Item number k, counted from 1, has the slot (k - 1) % Size.
SlotNo(k) == (k - 1) % Size

\* The indices count the items pushed and popped; never more than Size - 1
\* wait.
IndexInv ==
  /\ head = Len(pushed) % Size
  /\ tail = Len(popped) % Size
  /\ Len(popped) <= Len(pushed)
  /\ Len(pushed) - Len(popped) <= Size - 1

\* Core 1 fills the slot at head, when it has found room.
PushInv ==
  /\ pushPc # "idle" => h = head /\ item \in Items
  /\ pushPc \in {"header", "payload", "publish"} =>
       Len(pushed) - Len(popped) < Size - 1
  /\ pushPc \in {"payload", "publish"} => header[h] = item
  /\ pushPc = "publish" => payload[h] = item

\* Core 0 copies the oldest item that waits.
PopInv ==
  /\ popPc # "reset"
  /\ popPc # "idle" => t = tail
  /\ popPc \in {"header", "payload", "publish"} => Len(popped) < Len(pushed)
  /\ popPc \in {"payload", "publish"} => outHeader = pushed[Len(popped) + 1]
  /\ popPc = "publish" => outPayload = pushed[Len(popped) + 1]

\* The slots of the items that wait hold them.
ContentInv ==
  \A k \in Len(popped) + 1 .. Len(pushed) :
    header[SlotNo(k)] = pushed[k] /\ payload[SlotNo(k)] = pushed[k]

Inv == TypeOK /\ IndexInv /\ PushInv /\ PopInv /\ ContentInv /\ Fifo

LEMMA InitInv == Init => Inv
BY QueueAssumption
   DEF Init, Inv, TypeOK, IndexInv, PushInv, PopInv, ContentInv, Fifo, Slots,
       Pcs, Held

\* Storing at head disturbs no item that waits.
LEMMA HeadIsFree ==
  ASSUME Inv, NEW k \in Len(popped) + 1 .. Len(pushed)
  PROVE  SlotNo(k) \in Slots /\ SlotNo(k) # head
<1>1. /\ Len(pushed) \in Nat /\ Len(popped) \in Nat
      /\ k - 1 \in Nat /\ k - 1 < Len(pushed)
      /\ Len(pushed) - (k - 1) < Size
  BY QueueAssumption DEF Inv, TypeOK, IndexInv
<1>2. (k - 1) % Size # Len(pushed) % Size
  BY <1>1, SlotsDiffer
<1>3. (k - 1) % Size \in Slots
  BY <1>1, RemainderIsSlot
<1> QED
  BY <1>2, <1>3 DEF Inv, IndexInv, SlotNo

\* The check of resp_queue_push tells a full ring from one with room.
LEMMA FullCheck ==
  ASSUME Inv, pushPc = "check"
  PROVE  Following(h) = tail <=> Len(pushed) - Len(popped) = Size - 1
<1> DEFINE p == Len(pushed)
           g == Len(popped)
<1>1. p \in Nat /\ g \in Nat /\ g <= p /\ p - g <= Size - 1
  BY DEF Inv, TypeOK, IndexInv
<1>2. Following(h) = (p + 1) % Size
  BY <1>1, FollowingSlot DEF Inv, PushInv, IndexInv
<1>3. tail = g % Size
  BY DEF Inv, IndexInv
<1>4. CASE p - g = Size - 1
  <2>1. (p + 1) = g + Size
    BY <1>1, <1>4, QueueAssumption
  <2>2. (g + Size) % Size = g % Size
    <3>1. /\ g = Size * (g \div Size) + (g % Size)
          /\ g \div Size \in Nat
          /\ g + Size = Size * ((g + Size) \div Size) + ((g + Size) % Size)
          /\ (g + Size) \div Size \in Nat
      BY <1>1, QueueAssumption
    <3>2. g % Size \in Slots /\ (g + Size) % Size \in Slots
      BY <1>1, RemainderIsSlot, QueueAssumption
    <3>3. Size * ((g \div Size) + 1) + (g % Size)
            = Size * ((g + Size) \div Size) + ((g + Size) % Size)
      BY <1>1, <3>1, <3>2, QueueAssumption DEF Slots
    <3> HIDE DEF g
    <3> QED
      BY <3>1, <3>2, <3>3, DivisionUnique
  <2> QED
    BY <1>2, <1>3, <1>4, <2>1, <2>2
<1>5. CASE p - g < Size - 1
  <2>1. (p + 1) % Size # g % Size
    BY <1>1, <1>5, SlotsDiffer, QueueAssumption
  <2> QED
    BY <1>2, <1>3, <1>5, <2>1
<1> QED
  BY <1>1, <1>4, <1>5, QueueAssumption

\* The check of resp_queue_pop tells an empty ring from one with an item.
LEMMA EmptyCheck ==
  ASSUME Inv, popPc = "check", t # head
  PROVE  Len(popped) < Len(pushed)
BY DEF Inv, TypeOK, IndexInv, PopInv

-----------------------------------------------------------------------------
(* Each step preserves the invariant.                                      *)

LEMMA PushChecks ==
  ASSUME Inv, \/ \E m \in Items : PushLoad(m)
              \/ PushFull
              \/ PushRoom
  PROVE  Inv'
<1>1. ASSUME NEW m \in Items, PushLoad(m) PROVE Inv'
  BY <1>1 DEF PushLoad, Inv, TypeOK, IndexInv, PushInv, PopInv, ContentInv,
              SlotNo, Fifo, popVars, Held, Pcs
<1>2. CASE PushFull
  BY <1>2 DEF PushFull, Inv, TypeOK, IndexInv, PushInv, PopInv, ContentInv,
              SlotNo, Fifo, popVars, Held, Pcs
<1>3. CASE PushRoom
  <2>1. Len(pushed) - Len(popped) < Size - 1
    <3>1. Len(pushed) - Len(popped) # Size - 1
      BY <1>3, FullCheck DEF PushRoom
    <3>2. /\ Len(pushed) \in Nat /\ Len(popped) \in Nat
          /\ Len(pushed) - Len(popped) <= Size - 1
      BY DEF Inv, TypeOK, IndexInv
    <3> QED
      BY <3>1, <3>2, QueueAssumption
  <2> QED
    BY <1>3, <2>1 DEF PushRoom, Inv, TypeOK, IndexInv, PushInv, PopInv,
              ContentInv, SlotNo, Fifo, popVars, Held, Pcs
<1> QED
  BY <1>1, <1>2, <1>3

LEMMA PushStores ==
  ASSUME Inv, PushHeader \/ PushPayload
  PROVE  Inv'
<1> USE DEF Inv
<1>1. h = head /\ h \in Slots /\ item \in Items
  BY DEF PushHeader, PushPayload, PushInv, TypeOK
<1>2. TypeOK'
  BY <1>1 DEF PushHeader, PushPayload, TypeOK, popVars, Held, Pcs
<1>3. IndexInv' /\ PopInv' /\ Fifo'
  BY DEF PushHeader, PushPayload, IndexInv, PopInv, Fifo, popVars
<1>4. PushInv'
  BY <1>1 DEF PushHeader, PushPayload, PushInv, TypeOK, popVars
<1>5. ContentInv'
  <2> SUFFICES ASSUME NEW k \in Len(popped) + 1 .. Len(pushed)
               PROVE  /\ header'[SlotNo(k)] = pushed[k]
                      /\ payload'[SlotNo(k)] = pushed[k]
    BY DEF ContentInv, PushHeader, PushPayload, SlotNo, popVars
  <2>1. SlotNo(k) \in Slots /\ SlotNo(k) # h
    BY <1>1, HeadIsFree
  <2>2. header[SlotNo(k)] = pushed[k] /\ payload[SlotNo(k)] = pushed[k]
    BY DEF ContentInv
  <2> QED
    BY <2>1, <2>2 DEF PushHeader, PushPayload, TypeOK
<1> QED
  BY <1>2, <1>3, <1>4, <1>5

LEMMA PushPublishes ==
  ASSUME Inv, PushPublish
  PROVE  Inv'
<1> DEFINE p == Len(pushed)
           g == Len(popped)
<1>1. /\ p \in Nat /\ g \in Nat /\ g <= p /\ p - g < Size - 1
      /\ h = p % Size /\ item \in Items
      /\ header[h] = item /\ payload[h] = item
  BY DEF Inv, TypeOK, IndexInv, PushInv, PushPublish
<1>2. /\ pushed' \in Seq(Items) /\ Len(pushed') = p + 1
      /\ pushed'[p + 1] = item
      /\ \A k \in 1 .. p : pushed'[k] = pushed[k]
  BY <1>1 DEF PushPublish, Inv, TypeOK
<1>3. head' = (p + 1) % Size /\ head' \in Slots
  BY <1>1, FollowingSlot, RemainderIsSlot DEF PushPublish
<1>4. UNCHANGED <<tail, header, payload, h, item, popVars>> /\ pushPc' = "idle"
  BY DEF PushPublish
<1>5. TypeOK'
  BY <1>2, <1>3, <1>4 DEF Inv, TypeOK, popVars, Pcs
<1>6. IndexInv'
  <2>1. tail' = Len(popped') % Size /\ head' = Len(pushed') % Size
    BY <1>2, <1>3, <1>4 DEF Inv, IndexInv, popVars
  <2>2. Len(popped') <= Len(pushed') /\ Len(pushed') - Len(popped') <= Size - 1
    BY <1>1, <1>2, <1>4, QueueAssumption DEF popVars
  <2> QED
    BY <2>1, <2>2 DEF IndexInv
<1>7. PushInv'
  BY <1>4 DEF PushInv
<1>8. PopInv'
  BY <1>1, <1>2, <1>4 DEF Inv, PopInv, popVars
<1>9. ContentInv'
  <2> SUFFICES ASSUME NEW k \in g + 1 .. p + 1
               PROVE  /\ header[SlotNo(k)] = pushed'[k]
                      /\ payload[SlotNo(k)] = pushed'[k]
    BY <1>2, <1>4 DEF ContentInv, popVars, SlotNo
  <2>1. CASE k = p + 1
    BY <1>1, <1>2, <2>1 DEF SlotNo
  <2>2. CASE k # p + 1
    BY <1>1, <1>2, <2>2 DEF Inv, ContentInv
  <2> QED
    BY <2>1, <2>2
<1>10. Fifo'
  BY <1>1, <1>2, <1>4 DEF Inv, Fifo, popVars
<1> QED
  BY <1>5, <1>6, <1>7, <1>8, <1>9, <1>10 DEF Inv

LEMMA PopChecks ==
  ASSUME Inv, PopLoad \/ PopEmpty \/ PopSome
  PROVE  Inv'
<1>1. CASE PopLoad
  BY <1>1 DEF PopLoad, Inv, TypeOK, IndexInv, PushInv, PopInv, ContentInv,
              SlotNo, Fifo, pushVars, Pcs
<1>2. CASE PopEmpty
  BY <1>2 DEF PopEmpty, Inv, TypeOK, IndexInv, PushInv, PopInv, ContentInv,
              SlotNo, Fifo, pushVars, Pcs
<1>3. CASE PopSome
  <2>1. Len(popped) < Len(pushed)
    BY <1>3, EmptyCheck DEF PopSome
  <2> QED
    BY <1>3, <2>1 DEF PopSome, Inv, TypeOK, IndexInv, PushInv, PopInv,
              ContentInv, SlotNo, Fifo, pushVars, Pcs
<1> QED
  BY <1>1, <1>2, <1>3

\* What core 0 loads from its slot is the oldest item that waits.
LEMMA OldestItem ==
  ASSUME Inv, popPc \in {"header", "payload"}
  PROVE  /\ t \in Slots
         /\ header[t] = pushed[Len(popped) + 1]
         /\ payload[t] = pushed[Len(popped) + 1]
         /\ pushed[Len(popped) + 1] \in Items
<1> DEFINE g == Len(popped)
<1>1. /\ g \in Nat /\ g < Len(pushed) /\ t = g % Size /\ t \in Slots
      /\ Len(pushed) \in Nat
  BY DEF Inv, TypeOK, IndexInv, PopInv
<1>2. g + 1 \in Len(popped) + 1 .. Len(pushed)
  BY <1>1
<1>3. SlotNo(g + 1) = t
  BY <1>1 DEF SlotNo
<1>4. pushed[g + 1] \in Items
  BY <1>1 DEF Inv, TypeOK
<1> QED
  BY <1>1, <1>2, <1>3, <1>4 DEF Inv, ContentInv

LEMMA PopLoads ==
  ASSUME Inv, PopHeader \/ PopPayload
  PROVE  Inv'
<1> USE DEF Inv
<1>1. /\ t \in Slots
      /\ header[t] = pushed[Len(popped) + 1]
      /\ payload[t] = pushed[Len(popped) + 1]
  BY OldestItem DEF PopHeader, PopPayload
<1>2. TypeOK'
  BY <1>1 DEF PopHeader, PopPayload, TypeOK, pushVars, Pcs
<1>3. IndexInv' /\ PushInv' /\ ContentInv' /\ Fifo'
  BY DEF PopHeader, PopPayload, IndexInv, PushInv, ContentInv, SlotNo, Fifo,
         pushVars
<1>4. PopInv'
  BY <1>1 DEF PopHeader, PopPayload, PopInv, pushVars
<1> QED
  BY <1>2, <1>3, <1>4

LEMMA PopPublishes ==
  ASSUME Inv, PopPublish
  PROVE  Inv'
<1> DEFINE p == Len(pushed)
           g == Len(popped)
<1>1. /\ p \in Nat /\ g \in Nat /\ g < p /\ p - g <= Size - 1
      /\ t = g % Size
      /\ outHeader = pushed[g + 1] /\ outPayload = pushed[g + 1]
      /\ outHeader \in Held /\ outPayload \in Held
  BY DEF Inv, TypeOK, IndexInv, PopInv, PopPublish
<1>2. /\ popped' \in Seq(Held \X Held) /\ Len(popped') = g + 1
      /\ popped'[g + 1] = <<pushed[g + 1], pushed[g + 1]>>
      /\ \A k \in 1 .. g : popped'[k] = popped[k]
  BY <1>1 DEF PopPublish, Inv, TypeOK
<1>3. tail' = (g + 1) % Size /\ tail' \in Slots
  BY <1>1, FollowingSlot, RemainderIsSlot DEF PopPublish
<1>4. UNCHANGED <<head, header, payload, t, outHeader, outPayload, pushVars>>
      /\ popPc' = "idle"
  BY DEF PopPublish
<1>5. TypeOK'
  BY <1>2, <1>3, <1>4 DEF Inv, TypeOK, pushVars, Pcs
<1>6. IndexInv'
  <2>1. tail' = Len(popped') % Size /\ head' = Len(pushed') % Size
    BY <1>2, <1>3, <1>4 DEF Inv, IndexInv, pushVars
  <2>2. Len(popped') <= Len(pushed') /\ Len(pushed') - Len(popped') <= Size - 1
    BY <1>1, <1>2, <1>4, QueueAssumption DEF pushVars
  <2> QED
    BY <2>1, <2>2 DEF IndexInv
<1>7. PushInv'
  BY <1>1, <1>2, <1>4, QueueAssumption DEF Inv, PushInv, pushVars
<1>8. PopInv'
  BY <1>4 DEF PopInv
<1>9. ContentInv'
  BY <1>1, <1>2, <1>4 DEF Inv, ContentInv, SlotNo, pushVars
<1>10. Fifo'
  BY <1>1, <1>2, <1>4 DEF Inv, Fifo, pushVars
<1> QED
  BY <1>5, <1>6, <1>7, <1>8, <1>9, <1>10 DEF Inv

LEMMA NextInv == Inv /\ [Next]_vars => Inv'
<1> SUFFICES ASSUME Inv, [Next]_vars PROVE Inv'
  OBVIOUS
<1>1. CASE Push
  BY <1>1, PushChecks, PushStores, PushPublishes DEF Push
<1>2. CASE Pop
  BY <1>2, PopChecks, PopLoads, PopPublishes DEF Pop
<1>3. CASE UNCHANGED vars
  BY <1>3 DEF vars, pushVars, popVars, Inv, TypeOK, IndexInv, PushInv, PopInv,
              ContentInv, SlotNo, Fifo
<1> QED
  BY <1>1, <1>2, <1>3 DEF Next

-----------------------------------------------------------------------------
(* The theorems.                                                           *)

\* The invariant holds in every state of the queue, between two resets.
THEOREM Invariance == Spec => []Inv
BY InitInv, NextInv, PTL DEF Spec

\* The indices stay inside the ring, and core 0 receives what core 1 pushed:
\* every item once, in order and whole (resp_queue_push, resp_queue_pop).
THEOREM QueueType == Spec => []TypeOK
<1>1. Inv => TypeOK
  BY DEF Inv
<1> QED
  BY <1>1, Invariance, PTL

THEOREM QueueFifo == Spec => []Fifo
<1>1. Inv => Fifo
  BY DEF Inv
<1> QED
  BY <1>1, Invariance, PTL

\* A response is refused only when Size - 1 responses wait.
THEOREM QueueRefusal == Spec => RefusedOnlyWhenFull
<1> DEFINE Refusal == pushPc = "check" /\ pushPc' = "idle" =>
                        Len(pushed) - Len(popped) = Size - 1
<1>1. Inv /\ [Next]_vars => [Refusal]_vars
  <2> SUFFICES ASSUME Inv, Next, pushPc = "check", pushPc' = "idle"
               PROVE  Len(pushed) - Len(popped) = Size - 1
    OBVIOUS
  <2>1. PushFull
    BY DEF Next, Push, Pop, PushLoad, PushRoom, PushHeader, PushPayload,
           PushPublish, PopLoad, PopEmpty, PopSome, PopHeader, PopPayload,
           PopPublish, pushVars
  <2> QED
    BY <2>1, FullCheck DEF PushFull
<1> QED
  BY <1>1, Invariance, PTL DEF Spec, RefusedOnlyWhenFull
=============================================================================
