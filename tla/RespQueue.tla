----------------------------- MODULE RespQueue -----------------------------
(***************************************************************************)
(* The response queue of ota/main_ota_bench.c: a ring in SRAM that core 1  *)
(* pushes into and core 0 pops from, without a lock.                       *)
(*                                                                         *)
(* Every load and store of the shared words is a step of its own, for the  *)
(* two cores interleave at each of them; what an item holds is stored, and *)
(* loaded, in two parts: the fields of its header, then its payload.  The  *)
(* barriers (__dmb) keep the steps in program order.                       *)
(*                                                                         *)
(* pushed and popped record what the callers were told: they are history,  *)
(* the code keeps no such thing.                                           *)
(***************************************************************************)
EXTENDS Integers, Sequences

CONSTANTS
  Size,        \* RESP_QUEUE_SIZE
  Items,       \* the responses there are
  NoItem,      \* what a slot holds before anything is stored in it
  MaxPushes    \* bound: the pushes accepted before core 1 stops pushing

ASSUME QueueAssumption ==
  Size \in Nat \ {0, 1} /\ NoItem \notin Items /\ MaxPushes \in Nat

VARIABLES
  head, tail,   \* s_resp_queue.head and .tail
  header,       \* bmc_type, seq and len of items[i]
  payload,      \* payload of items[i]
  pushPc,       \* "idle", "check", "header", "payload", "publish"
  pushed,       \* the items resp_queue_push accepted, in order
  h, item,      \* its local h and its arguments
  popPc,        \* "idle", "check", "header", "payload", "publish"
  popped,       \* the items resp_queue_pop returned, as header and payload
  t, outHeader, outPayload   \* its local t and its out parameters

pushVars == <<pushPc, pushed, h, item>>
popVars  == <<popPc, popped, t, outHeader, outPayload>>
vars     == <<head, tail, header, payload, pushVars, popVars>>

Slots == 0 .. Size - 1
Pcs   == {"idle", "check", "header", "payload", "publish"}
Held  == Items \cup {NoItem}

TypeOK ==
  /\ head \in Slots /\ tail \in Slots
  /\ header \in [Slots -> Held] /\ payload \in [Slots -> Held]
  /\ pushPc \in Pcs /\ popPc \in Pcs \cup {"reset"}
  /\ pushed \in Seq(Items) /\ popped \in Seq(Held \X Held)
  /\ h \in Slots /\ t \in Slots
  /\ item \in Held /\ outHeader \in Held /\ outPayload \in Held

Init ==
  /\ head = 0 /\ tail = 0
  /\ header = [i \in Slots |-> NoItem] /\ payload = [i \in Slots |-> NoItem]
  /\ pushPc = "idle" /\ pushed = <<>> /\ h = 0 /\ item = NoItem
  /\ popPc = "idle" /\ popped = <<>> /\ t = 0
  /\ outHeader = NoItem /\ outPayload = NoItem

Following(i) == (i + 1) % Size

-----------------------------------------------------------------------------
(* resp_queue_push, on core 1.                                             *)

PushLoad(m) ==
  /\ pushPc = "idle" /\ pushPc' = "check"
  /\ Len(pushed) < MaxPushes
  /\ h' = head /\ item' = m
  /\ UNCHANGED <<head, tail, header, payload, pushed, popVars>>

\* Seeded bug: two slots are kept unused.
PushFullEarly ==
  /\ pushPc = "check" /\ Following(Following(h)) = tail
  /\ pushPc' = "idle"
  /\ UNCHANGED <<head, tail, header, payload, pushed, h, item, popVars>>

PushFull ==
  /\ pushPc = "check" /\ Following(h) = tail
  /\ pushPc' = "idle"
  /\ UNCHANGED <<head, tail, header, payload, pushed, h, item, popVars>>

PushRoom ==
  /\ pushPc = "check" /\ Following(h) # tail
  /\ pushPc' = "header"
  /\ UNCHANGED <<head, tail, header, payload, pushed, h, item, popVars>>

\* Seeded bug: the item is published before its payload is stored.
PushHeaderPublishes ==
  /\ pushPc = "header" /\ pushPc' = "payload"
  /\ header' = [header EXCEPT ![h] = item]
  /\ head' = Following(h)
  /\ UNCHANGED <<tail, payload, pushed, h, item, popVars>>

PushHeader ==
  /\ pushPc = "header" /\ pushPc' = "payload"
  /\ header' = [header EXCEPT ![h] = item]
  /\ UNCHANGED <<head, tail, payload, pushed, h, item, popVars>>

PushPayload ==
  /\ pushPc = "payload" /\ pushPc' = "publish"
  /\ payload' = [payload EXCEPT ![h] = item]
  /\ UNCHANGED <<head, tail, header, pushed, h, item, popVars>>

PushPublish ==
  /\ pushPc = "publish" /\ pushPc' = "idle"
  /\ head' = Following(h)
  /\ pushed' = Append(pushed, item)
  /\ UNCHANGED <<tail, header, payload, h, item, popVars>>

Push == \/ \E m \in Items : PushLoad(m)
        \/ PushFull \/ PushRoom \/ PushHeader \/ PushPayload \/ PushPublish

-----------------------------------------------------------------------------
(* resp_queue_pop, on core 0.                                              *)

PopLoad ==
  /\ popPc = "idle" /\ popPc' = "check"
  /\ t' = tail
  /\ UNCHANGED <<head, tail, header, payload, popped, outHeader, outPayload,
                 pushVars>>

PopEmpty ==
  /\ popPc = "check" /\ t = head
  /\ popPc' = "idle"
  /\ UNCHANGED <<head, tail, header, payload, popped, t, outHeader, outPayload,
                 pushVars>>

PopSome ==
  /\ popPc = "check" /\ t # head
  /\ popPc' = "header"
  /\ UNCHANGED <<head, tail, header, payload, popped, t, outHeader, outPayload,
                 pushVars>>

PopHeader ==
  /\ popPc = "header" /\ popPc' = "payload"
  /\ outHeader' = header[t]
  /\ UNCHANGED <<head, tail, header, payload, popped, t, outPayload, pushVars>>

PopPayload ==
  /\ popPc = "payload" /\ popPc' = "publish"
  /\ outPayload' = payload[t]
  /\ UNCHANGED <<head, tail, header, payload, popped, t, outHeader, pushVars>>

\* Seeded bug: the index is not wrapped.
PopPublishUnwrapped ==
  /\ popPc = "publish" /\ popPc' = "idle"
  /\ tail' = t + 1
  /\ popped' = Append(popped, <<outHeader, outPayload>>)
  /\ UNCHANGED <<head, header, payload, t, outHeader, outPayload, pushVars>>

PopPublish ==
  /\ popPc = "publish" /\ popPc' = "idle"
  /\ tail' = Following(t)
  /\ popped' = Append(popped, <<outHeader, outPayload>>)
  /\ UNCHANGED <<head, header, payload, t, outHeader, outPayload, pushVars>>

Pop == \/ PopLoad \/ PopEmpty \/ PopSome
       \/ PopHeader \/ PopPayload \/ PopPublish

Next == Push \/ Pop

Spec == Init /\ [][Next]_vars

-----------------------------------------------------------------------------
(* run_ota_benchmark empties the queue from core 0, which is in no pop     *)
(* then, whatever core 1 is doing.  What has been pushed so far is void.   *)

ResetHead ==
  /\ popPc = "idle" /\ popPc' = "reset"
  /\ head' = 0
  /\ pushed' = <<>> /\ popped' = <<>>
  /\ UNCHANGED <<tail, header, payload, t, outHeader, outPayload,
                 pushPc, h, item>>

ResetTail ==
  /\ popPc = "reset" /\ popPc' = "idle"
  /\ tail' = 0
  /\ UNCHANGED <<head, header, payload, popped, t, outHeader, outPayload,
                 pushVars>>

ResetSpec == Init /\ [][Next \/ ResetHead \/ ResetTail]_vars

-----------------------------------------------------------------------------
(* Properties.                                                             *)

\* Core 0 gets what core 1 pushed: every item once, in order, whole.  No
\* interleaving lets it read an item that is not complete yet, an old one, or
\* one that is being overwritten.
Fifo ==
  /\ Len(popped) <= Len(pushed)
  /\ \A i \in 1 .. Len(popped) : popped[i] = <<pushed[i], pushed[i]>>

\* A push is refused only by a ring that was full when core 1 looked: the
\* items not popped are Size - 1, one slot being always unused.
RefusedOnlyWhenFull ==
  [][pushPc = "check" /\ pushPc' = "idle" =>
       Len(pushed) - Len(popped) = Size - 1]_vars
=============================================================================
