----------------------------- MODULE MCCanDriver -----------------------------
(* A small instance of CanDriver for TLC.                                  *)
EXTENDS CanDriver

MCBit == {0, 1}
MCByte == 0..2
MCSubsets == SUBSET (0..3)

Filled(b) == [i \in 1..8 |-> (b + i) % 3]
IdOf(m, l) == [top |-> 0, mid |-> m, low |-> l]

(* A data frame shorter than one data word, one that uses both words and   *)
(* has a wide identifier, and a remote frame.                              *)
MCMessages ==
  {[id |-> IdOf(0, 1), dlc |-> 2, ext |-> 0, rem |-> 0, data |-> Filled(1)],
   [id |-> IdOf(1, 0), dlc |-> 6, ext |-> 1, rem |-> 0, data |-> Filled(2)],
   [id |-> IdOf(0, 1), dlc |-> 5, ext |-> 0, rem |-> 1, data |-> Filled(2)]}
=============================================================================
