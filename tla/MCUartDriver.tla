---------------------------- MODULE MCUartDriver ----------------------------
(* A small instance of UartDriver for TLC.                                 *)
EXTENDS UartDriver

MCChar == 0..MaxChar
MCUpper == {0}
MCControlVals == {{ROE}}
MCDivisorVals == {2}
MCNone == {}
=============================================================================
