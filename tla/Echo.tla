-------------------------------- MODULE Echo --------------------------------
(***************************************************************************)
(* What the demo promises to its user: it takes a line of N characters     *)
(* from the serial line, prints that line up to its first NUL and a fixed  *)
(* text after it, and only then takes the next one.                        *)
(*                                                                         *)
(* Module Demo, four tasks, two buffers and two CAN controllers, is shown  *)
(* to implement this specification.                                        *)
(***************************************************************************)
EXTENDS Naturals, Sequences

CONSTANTS
  N,      \* characters in a line
  Typed,  \* the characters a line can hold
  NUL,    \* the one that ends a text
  Mark    \* the fixed text

VARIABLES
  read,     \* the characters taken of this line
  printed   \* what was printed of it

vars == <<read, printed>>

Init == read = << >> /\ printed = << >>

Whole == Len(read) = N
Finished == printed # << >> /\ printed[Len(printed)] = Mark

Read == ~Whole /\ (\E c \in Typed : read' = Append(read, c)) /\ UNCHANGED printed

(* The text ends with the line or before its first NUL.                    *)
Due(k) == IF k = N \/ read[k + 1] = NUL THEN Mark ELSE read[k + 1]

Show ==
  /\ Whole /\ ~Finished
  /\ printed' = Append(printed, Due(Len(printed)))
  /\ UNCHANGED read

NextLine == Whole /\ Finished /\ read' = << >> /\ printed' = << >>

Next == Read \/ Show \/ NextLine

Spec == Init /\ [][Next]_vars
=============================================================================
