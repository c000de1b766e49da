------------------------------- MODULE MCUart -------------------------------
(* Small instances of Uart for TLC.  The scaled clock keeps the three      *)
(* regimes of update_params: a divisor that gives a rate, one above the    *)
(* clock frequency, and the one whose increment wraps to zero.             *)
EXTENDS Uart

MCUpper == {0, 1}
MCControlVals == {{}, {ROE}, {TRDY, RRDY}, {TMT, E}}
MCControlFew == {{}, {ROE}}
MCStatusVals == {{}, {TRDY}, {TMT, ROE}, {RRDY, TMT, TRDY}}
MCDivisorsAny == {1, 3, 4, 7}
MCDivisorsGood == {1}
=============================================================================
