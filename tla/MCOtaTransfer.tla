--------------------------- MODULE MCOtaTransfer ---------------------------
EXTENDS OtaTransfer, TLC

NoFaults == [f \in Faults |-> 0]

\* One lost packet.
MCOneLoss == "drop" :> 1 @@ NoFaults

\* Every fault once, but for flash that decays; all but damage, repetition and
\* the loss of a response.
MCEvery == "decay" :> 0 @@ [f \in Faults |-> 1]
MCHostile == "damage" :> 0 @@ "repeat" :> 0 @@ "revdrop" :> 0 @@ [f \in Faults |-> 1]
=============================================================================
