------------------------------- MODULE MCNvic -------------------------------
(* A small instance of Nvic for TLC: HardFault, SVC, SysTick and two       *)
(* lines.  Priorities differ in the group, only below it, or not at all.   *)
EXTENDS Nvic

MCIrq == {16, 17}
MCInternal == {HARD, SVC, SYSTICK}
MCSettings == {<<16, 64>>, <<16, 97>>, <<SYSTICK, 64>>}
MCGroups == {5}
MCBasepris == {0, 64}
=============================================================================
