------------------------------- MODULE MCDemo -------------------------------
(* A small instance of Demo for TLC: lines of two characters.              *)
EXTENDS Demo

MCTyped == {0, 1}
=============================================================================
