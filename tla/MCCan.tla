------------------------------- MODULE MCCan -------------------------------
(* Small instances of Can for TLC.                                         *)
EXTENDS Can, TLC

(* Controllers on the bus are interchangeable.                             *)
Symmetry == Permutations(OnBus)

MCByte == 0..8
MCBit == {0, 1}
MCTop == {0, 1}

Info(f, r, d) == [ff |-> f, rtr |-> r, dlc |-> d]

(* A standard data frame shorter than one data word, an extended one that  *)
(* uses both words, one whose length code exceeds eight, and a remote one. *)
MCTfiVals == {Info(0, 0, 3), Info(1, 0, 6), Info(0, 0, 15), Info(1, 1, 2)}
MCTfiMail == {Info(0, 0, 6), Info(1, 1, 2)}
MCTidVals == {[top |-> 1, mid |-> 1, low |-> 1]}
MCTdaVals == {<<1, 2, 3, 4>>}
MCTdbVals == {<<5, 6, 7, 8>>}
MCNone == {}
MCIerVals == {{}, {RIE}, {TIE, DOIE}, {RIE, TIE, DOIE, 7}}
MCIerOff == {{}}
MCCmrVals == {{TR}, {RRB}, {CDO}, {RRB, CDO}, {TR, RRB}}
=============================================================================
