----------------------------- MODULE SerialPort -----------------------------
(***************************************************************************)
(* What the UART of the board promises to the software that uses it, with  *)
(* no register, flag word or timer in sight.                               *)
(*                                                                         *)
(* Transmit side: a two-place queue (the character being shifted out and   *)
(* the one waiting behind it).  A character put into a full queue replaces *)
(* the waiting one, and txOverrun records that.  Receive side: one         *)
(* character being shifted in and one holding register.  A character that  *)
(* completes while the holding register is still unread replaces it, and   *)
(* rxOverrun records that; a character that starts while another one is    *)
(* being shifted in is ignored.                                            *)
(*                                                                         *)
(* Module Uart is shown to implement this specification.                   *)
(***************************************************************************)
EXTENDS Naturals, Sequences

CONSTANTS
  Char,   \* the characters that travel on the serial line
  NUL     \* the character both registers hold before any traffic

VARIABLES
  txq,        \* characters accepted and not yet on the line, oldest first
  txOverrun,  \* a waiting character was replaced and nobody cleared the flag
  line,       \* last character put on the line; flip tells two puts apart
  rxIn,       \* the character being shifted in, if any
  rxdata,     \* the holding register
  fresh,      \* the holding register has not been read since it was filled
  rxOverrun   \* an unread character was replaced and nobody cleared the flag

vars == <<txq, txOverrun, line, rxIn, rxdata, fresh, rxOverrun>>

tx == <<txq, txOverrun, line>>
rx == <<rxIn, rxdata, fresh, rxOverrun>>

Init ==
  /\ txq = << >>
  /\ line = [ch |-> NUL, flip |-> 0]
  /\ rxIn = << >>
  /\ rxdata = NUL
  /\ fresh = FALSE
  /\ txOverrun = FALSE
  /\ rxOverrun = FALSE

Put(c) ==
  /\ \/ /\ Len(txq) < 2
        /\ txq' = Append(txq, c)
        /\ UNCHANGED txOverrun
     \/ /\ Len(txq) = 2
        /\ txq' = <<txq[1], c>>
        /\ txOverrun' = TRUE
  /\ UNCHANGED line
  /\ UNCHANGED rx

Emit ==
  /\ txq # << >>
  /\ line' = [ch |-> Head(txq), flip |-> 1 - line.flip]
  /\ txq' = Tail(txq)
  /\ UNCHANGED txOverrun
  /\ UNCHANGED rx

Arrive(c) ==
  /\ rxIn = << >>
  /\ rxIn' = <<c>>
  /\ UNCHANGED <<rxdata, fresh, rxOverrun>>
  /\ UNCHANGED tx

Complete ==
  /\ rxIn # << >>
  /\ rxdata' = rxIn[1]
  /\ rxIn' = << >>
  /\ fresh' = TRUE
  /\ rxOverrun' = (rxOverrun \/ fresh)
  /\ UNCHANGED tx

Read ==
  /\ fresh' = FALSE
  /\ UNCHANGED <<rxIn, rxdata, rxOverrun>>
  /\ UNCHANGED tx

ClearErrors ==
  /\ txOverrun' = FALSE \/ UNCHANGED txOverrun
  /\ rxOverrun' = FALSE \/ UNCHANGED rxOverrun
  /\ UNCHANGED <<txq, line, rxIn, rxdata, fresh>>

Next ==
  \/ \E c \in Char : Put(c) \/ Arrive(c)
  \/ Emit
  \/ Complete
  \/ Read
  \/ ClearErrors

Spec == Init /\ [][Next]_vars

(* Characters accepted are eventually shifted out, and in.                 *)
FairSpec == Spec /\ WF_vars(Emit) /\ WF_vars(Complete)
=============================================================================
