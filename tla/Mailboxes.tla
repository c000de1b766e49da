------------------------------ MODULE Mailboxes ------------------------------
(***************************************************************************)
(* What a set of CAN controllers on one bus promises to the software.      *)
(* Every controller has a draft, the message its transmit registers spell  *)
(* out, and a one-message mailbox.  Sending the draft puts it into the     *)
(* mailbox of every other controller on the bus at once; a mailbox that    *)
(* was still full loses its old message and is marked.                     *)
(*                                                                         *)
(* Module Can is shown to implement this specification.                    *)
(***************************************************************************)
CONSTANTS
  Node,     \* the controllers
  OnBus,    \* those that are connected to the bus
  Blank     \* the message that cleared registers spell out

VARIABLES
  draft,    \* draft[n]: the message n would send now
  full,     \* the controllers whose mailbox holds a message nobody released
  box,      \* box[n]: the last message that reached n
  lost      \* those that had a message replaced, and nobody cleared the mark

vars == <<draft, full, box, lost>>

Init ==
  /\ draft = [n \in Node |-> Blank]
  /\ full = {}
  /\ box = [n \in Node |-> Blank]
  /\ lost = {}

(* The software changes the draft of n in any way, and no other.           *)
Compose(n) ==
  /\ draft' = [draft EXCEPT ![n] = draft'[n]]
  /\ UNCHANGED <<full, box, lost>>

Peers(n) == IF n \in OnBus THEN OnBus \ {n} ELSE {}

(* One command may release the mailbox of n, clear its mark and send, in   *)
(* this order.                                                             *)
Command(n, orders) ==
  LET to == IF "send" \in orders THEN Peers(n) ELSE {}
      released == IF "release" \in orders THEN {n} ELSE {}
      cleared == IF "clear" \in orders THEN {n} ELSE {}
  IN  /\ box' = [m \in Node |-> IF m \in to THEN draft[n] ELSE box[m]]
      /\ full' = (full \ released) \cup to
      /\ lost' = (lost \ cleared) \cup (full \cap to)
      /\ UNCHANGED draft

Reset ==
  /\ draft' = [n \in Node |-> Blank]
  /\ full' = {}
  /\ box' = [n \in Node |-> Blank]
  /\ lost' = {}

Next ==
  \/ \E n \in Node : Compose(n)
  \/ \E n \in Node, orders \in SUBSET {"release", "clear", "send"} : Command(n, orders)
  \/ Reset

Spec == Init /\ [][Next]_vars
=============================================================================
