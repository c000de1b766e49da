---------------------------- MODULE InterruptLine ----------------------------
(***************************************************************************)
(* What the interrupt controller promises for one external line: a rising  *)
(* edge is latched, a handler that returns while the line is high runs     *)
(* again, and the latch cannot be cleared while the line is high and no    *)
(* handler runs.  UartDriver, CanDriver and Demo rely on this view.        *)
(*                                                                         *)
(* Module Nvic is shown to implement it for every line.                    *)
(***************************************************************************)
VARIABLES
  level,    \* the line is high
  pending,  \* an interrupt is latched
  active    \* its handler runs

vars == <<level, pending, active>>

Init == level = FALSE /\ pending = FALSE /\ active = FALSE

Rise == level' = TRUE /\ pending' = (pending \/ ~level) /\ UNCHANGED active

Fall == level' = FALSE /\ UNCHANGED <<pending, active>>

Take == pending /\ ~active /\ pending' = FALSE /\ active' = TRUE /\ UNCHANGED level

Return == active /\ active' = FALSE /\ pending' = (pending \/ level) /\ UNCHANGED level

(* The handler returns and is entered again at once.                       *)
Rerun == active /\ (pending \/ level) /\ pending' = FALSE /\ UNCHANGED <<level, active>>

Pend == pending' = TRUE /\ UNCHANGED <<level, active>>

Clear == ~(level /\ ~active) /\ pending' = FALSE /\ UNCHANGED <<level, active>>

Reset == level' = FALSE /\ pending' = FALSE /\ active' = FALSE

Next == Rise \/ Fall \/ Take \/ Return \/ Rerun \/ Pend \/ Clear \/ Reset

Spec == Init /\ [][Next]_vars
=============================================================================
