----------------------------- MODULE OtaPromise -----------------------------
(***************************************************************************)
(* What an OTA transfer promises to whoever starts it: success is reported *)
(* only when the staging area holds every window of the image, and from    *)
(* then on nothing touches the staging area until the next session begins. *)
(* How the windows get there is not said.                                  *)
(***************************************************************************)
EXTENDS Integers

CONSTANT MaxWindows   \* bound: the largest image, in windows

VARIABLES
  phase,   \* "idle", "active", "complete" or "failed"
  total,   \* windows of the image of the session
  image    \* windows of the staging area that hold the image's data

vars == <<phase, total, image>>

Init == phase = "idle" /\ total = 0 /\ image = {}

Begin ==
  /\ phase # "active"
  /\ phase' = "active"
  /\ total' \in 1 .. MaxWindows
  /\ UNCHANGED image

\* One window of the staging area is written, well or badly.
Write ==
  /\ phase # "complete"
  /\ \E w \in 0 .. MaxWindows - 1 : image' \in {image \cup {w}, image \ {w}}
  /\ UNCHANGED <<phase, total>>

Complete ==
  /\ phase = "active"
  /\ 0 .. total - 1 \subseteq image
  /\ phase' = "complete"
  /\ UNCHANGED <<total, image>>

\* A failure, which an abort that comes after the success also is.
Fail ==
  /\ phase \in {"active", "complete"}
  /\ phase' = "failed"
  /\ UNCHANGED <<total, image>>

Next == Begin \/ Write \/ Complete \/ Fail

Spec == Init /\ [][Next]_vars
=============================================================================
