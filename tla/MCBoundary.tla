---- MODULE MCBoundary ----
(* The call bracket and the interrupt flag side by side: they share no variable, *)
(* each behaviour moves one of them, and the states are the sum of theirs.       *)
EXTENDS MCTimers, MCIrqFlag

VARIABLE part

boundaryVars == <<part, vars, irqVars>>

BoundaryInit ==
    /\ part \in {"frames", "flag"}
    /\ Init /\ IrqInit
    /\ part = "flag" => ~slot.hasLimits /\ ~policy.billHost /\ ~policy.billWall

BoundaryNext ==
    /\ UNCHANGED part
    /\ \/ part = "frames" /\ Next /\ UNCHANGED irqVars
       \/ part = "flag" /\ IrqNext /\ UNCHANGED vars

BoundarySpec == BoundaryInit /\ [][BoundaryNext]_boundaryVars
====
