--------------------------- MODULE AbstractCurve ---------------------------
(* What one bonding curve promises, with prices, tokens and accounts left    *)
(* out.  It is listed once, with a goal that never changes again.  While it  *)
(* trades, what it has raised goes up and down below the goal; it completes  *)
(* exactly when it reaches the goal, never beyond; from then on nothing is   *)
(* traded, and one withdrawal takes the whole goal.                          *)
EXTENDS Naturals

VARIABLES phase, raised, goal

curveVars == <<phase, raised, goal>>

Phases == {"unlisted", "trading", "complete", "withdrawn"}

Init == phase = "unlisted" /\ raised = 0 /\ goal = 0

List ==
    /\ phase = "unlisted"
    /\ phase' = "trading"
    /\ goal' \in Nat \ {0}
    /\ raised' = 0

(* A buy or a sell that leaves the goal ahead.                               *)
Trade ==
    /\ phase = "trading"
    /\ raised' \in Nat
    /\ raised' < goal
    /\ UNCHANGED <<phase, goal>>

Complete ==
    /\ phase = "trading"
    /\ phase' = "complete"
    /\ raised' = goal
    /\ UNCHANGED goal

Withdraw ==
    /\ phase = "complete"
    /\ raised = goal
    /\ phase' = "withdrawn"
    /\ raised' = 0
    /\ UNCHANGED goal

Next == List \/ Trade \/ Complete \/ Withdraw

Spec == Init /\ [][Next]_curveVars
=============================================================================
