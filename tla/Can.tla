--------------------------------- MODULE Can ---------------------------------
(***************************************************************************)
(* The LPC17xx style CAN controllers of the board                          *)
(* (qemu/hw/net/can/can.c, qemu/include/hw/net/can.h) on the emulated bus  *)
(* (qemu/net/can/can_core.c).                                              *)
(*                                                                         *)
(* Flag registers are sets of bit positions, so that the masks of the code *)
(* meet where its bit numbers make them meet.  The frame-info and          *)
(* identifier words are records of their fields; reserved bits, which the  *)
(* code ignores and the software cannot read back, are left out.  QEMU     *)
(* delivers a frame to every peer inside the register write that requests  *)
(* it, so a transmission is one action.                                    *)
(***************************************************************************)
EXTENDS Integers, Sequences

CONSTANTS
  Node,       \* the controllers
  OnBus,      \* those whose canbus link is set
  Byte,       \* values of a data byte
  Top,        \* values of bits 29..31 of an identifier word
  Mid,        \* values of bits 11..28
  Low,        \* values of bits 0..10
  TfiVals, TidVals, TdaVals, TdbVals,  \* words the software writes
  IerVals, CmrVals                     \* flag words the software writes

RBS == 0
DOS == 1
TBS == 2
TCS == 3

TR  == 0
RRB == 2
CDO == 3

RIE  == 0
TIE  == 1
DOIE == 3

Bits == 0..31

FrameInfo == [ff : {0, 1}, rtr : {0, 1}, dlc : 0..15]
IdWord == [top : Top, mid : Mid, low : Low]
Id == [mid : Mid, low : Low]
DataWord == [1..4 -> Byte]

ASSUME CanAssumption ==
  /\ OnBus \subseteq Node
  /\ 0 \in Byte /\ 0 \in Top /\ 0 \in Mid /\ 0 \in Low
  /\ TfiVals \subseteq FrameInfo
  /\ TidVals \subseteq IdWord
  /\ TdaVals \subseteq DataWord
  /\ TdbVals \subseteq DataWord
  /\ IerVals \subseteq SUBSET Bits
  /\ CmrVals \subseteq SUBSET Bits

TxRegisters == [tfi : FrameInfo, tid : IdWord, tda : DataWord, tdb : DataWord]
RxRegisters == [rfi : FrameInfo, rid : Id, rda : DataWord, rdb : DataWord]

VARIABLES
  tx,     \* TFI, TID, TDA and TDB of each controller
  rx,     \* RFI, RID, RDA and RDB of each controller
  sr,     \* SR
  cmr,    \* CMR
  ier,    \* IER
  irq     \* level of each interrupt line

vars == <<tx, rx, sr, cmr, ier, irq>>

-----------------------------------------------------------------------------
(* The status register and the line that follows it.  p is a pair          *)
(* [sr, irq]; ie is the controller's IER.  A pulse raises the line and     *)
(* lowers it again.                                                        *)

Port(n) == [sr |-> sr[n], irq |-> irq[n]]

qemu_irq_raise(p) == [sr |-> p.sr, irq |-> 1]
qemu_irq_lower(p) == [sr |-> p.sr, irq |-> 0]
qemu_irq_pulse(p) == qemu_irq_lower(qemu_irq_raise(p))

Receives(ie, s)  == (ie \cap {RIE})  \cap (s \cap {RBS}) # {}
Transmits(ie, s) == (ie \cap {TIE})  \cap (s \cap {TCS}) # {}
Overruns(ie, s)  == (ie \cap {DOIE}) \cap (s \cap {DOS}) # {}

check_and_set_interrupt(p, ie) ==
  IF Receives(ie, p.sr) \/ Overruns(ie, p.sr) THEN qemu_irq_raise(p)
  ELSE IF Transmits(ie, p.sr) THEN qemu_irq_pulse(p)
  ELSE p

check_and_clear_interrupt_Never(p, ie) == p

check_and_clear_interrupt(p, ie) ==
  IF Receives(ie, p.sr) \/ Transmits(ie, p.sr) \/ Overruns(ie, p.sr)
    THEN p ELSE qemu_irq_lower(p)

set_status_bit(p, bit, ie) ==
  check_and_set_interrupt([sr |-> p.sr \cup {bit}, irq |-> p.irq], ie)

reset_status_bit(p, bit, ie) ==
  check_and_clear_interrupt([sr |-> p.sr \ {bit}, irq |-> p.irq], ie)

(* Give every controller m the state ports[m].                             *)
SetPorts(ports) ==
  /\ sr' = [m \in Node |-> ports[m].sr]
  /\ irq' = [m \in Node |-> ports[m].irq]

-----------------------------------------------------------------------------
(* can_transmit: the frame that the transmit registers t spell out.        *)

IDS(w) == [mid |-> 0, low |-> w.low]
IDE(w) == [mid |-> w.mid, low |-> w.low]

IdSent(t) == IF t.tfi.ff = 1 THEN IDS(t.tid) ELSE IDE(t.tid)

DlcSent(t) == IF t.tfi.rtr = 1 THEN 0 ELSE t.tfi.dlc

FrameOf_SwapsWords(t) ==
  [ff |-> t.tfi.ff, rtr |-> t.tfi.rtr, id |-> IdSent(t), dlc |-> DlcSent(t),
   data |-> [i \in 1..8 |-> IF i > DlcSent(t) THEN 0
                            ELSE IF i <= 4 THEN t.tdb[i] ELSE t.tda[i - 4]]]

FrameOf(t) ==
  [ff |-> t.tfi.ff, rtr |-> t.tfi.rtr, id |-> IdSent(t), dlc |-> DlcSent(t),
   data |-> [i \in 1..8 |-> IF i > DlcSent(t) THEN 0
                            ELSE IF i <= 4 THEN t.tda[i] ELSE t.tdb[i - 4]]]

(* can_receive: what a frame leaves in the receive registers, and in the   *)
(* status register.                                                        *)
RegistersOf(f) ==
  [rfi |-> [ff |-> f.ff, rtr |-> f.rtr, dlc |-> f.dlc],
   rid |-> f.id,
   rda |-> [i \in 1..4 |-> IF i <= f.dlc THEN f.data[i] ELSE 0],
   rdb |-> [i \in 1..4 |-> IF i + 4 <= f.dlc THEN f.data[i + 4] ELSE 0]]

Arrival_NoOverrun(p, ie) == set_status_bit(p, RBS, ie)

Arrival(p, ie) ==
  set_status_bit(IF RBS \in p.sr THEN set_status_bit(p, DOS, ie) ELSE p, RBS, ie)

(* can_bus_client_send walks the clients of the bus and skips the sender.  *)
Peers(n) == IF n \in OnBus THEN OnBus \ {n} ELSE {}

-----------------------------------------------------------------------------
ZeroTx ==
  [tfi |-> [ff |-> 0, rtr |-> 0, dlc |-> 0],
   tid |-> [top |-> 0, mid |-> 0, low |-> 0],
   tda |-> [i \in 1..4 |-> 0], tdb |-> [i \in 1..4 |-> 0]]

ZeroRx ==
  [rfi |-> [ff |-> 0, rtr |-> 0, dlc |-> 0],
   rid |-> [mid |-> 0, low |-> 0],
   rda |-> [i \in 1..4 |-> 0], rdb |-> [i \in 1..4 |-> 0]]

Init ==
  /\ tx = [n \in Node |-> ZeroTx]
  /\ rx = [n \in Node |-> ZeroRx]
  /\ sr = [n \in Node |-> {}]
  /\ cmr = [n \in Node |-> {}]
  /\ ier = [n \in Node |-> {}]
  /\ irq = [n \in Node |-> 0]

(* A machine reset resets every controller; none leaves the bus.           *)
can_reset ==
  /\ tx' = [n \in Node |-> ZeroTx]
  /\ rx' = [n \in Node |-> ZeroRx]
  /\ sr' = [n \in Node |-> {}]
  /\ cmr' = [n \in Node |-> {}]
  /\ ier' = [n \in Node |-> {}]
  /\ irq' = [n \in Node |-> 0]

(* can_write to TFI, TID, TDA or TDB.                                      *)
WriteTx(n, t) ==
  /\ tx' = [tx EXCEPT ![n] = t]
  /\ UNCHANGED <<rx, sr, cmr, ier, irq>>

WriteTfi(n, val) == WriteTx(n, [tx[n] EXCEPT !.tfi = val])
WriteTid(n, val) == WriteTx(n, [tx[n] EXCEPT !.tid = val])
WriteTda(n, val) == WriteTx(n, [tx[n] EXCEPT !.tda = val])
WriteTdb(n, val) == WriteTx(n, [tx[n] EXCEPT !.tdb = val])

(* can_write to CMR: release, then clear, then transmit.                   *)
Released(n, val) ==
  LET p == IF RRB \in val THEN reset_status_bit(Port(n), RBS, ier[n]) ELSE Port(n)
  IN  IF CDO \in val THEN reset_status_bit(p, DOS, ier[n]) ELSE p

Transmitted(p, ie) == set_status_bit(reset_status_bit(p, TCS, ie), TCS, ie)

WriteCmr(n, val) ==
  LET to == IF TR \in val THEN Peers(n) ELSE {}
  IN  /\ cmr' = [cmr EXCEPT ![n] = @ \ (val \cap {TR, RRB, CDO})]
      /\ SetPorts([m \in Node |->
           IF m = n /\ TR \in val THEN Transmitted(Released(n, val), ier[n])
           ELSE IF m = n THEN Released(n, val)
           ELSE IF m \in to THEN Arrival(Port(m), ier[m])
           ELSE Port(m)])
      /\ rx' = [m \in Node |-> IF m \in to THEN RegistersOf(FrameOf(tx[n])) ELSE rx[m]]
      /\ UNCHANGED <<tx, ier>>

(* can_write to IER keeps four bits.                                       *)
IerKept_All(val) == val

IerKept(val) == val \cap 0..3

WriteIer(n, val) ==
  LET ie == IerKept(val)
  IN  /\ ier' = [ier EXCEPT ![n] = ie]
      /\ SetPorts([m \in Node |->
           IF m = n
             THEN check_and_clear_interrupt(check_and_set_interrupt(Port(n), ie), ie)
             ELSE Port(m)])
      /\ UNCHANGED <<tx, rx, cmr>>

Next ==
  \/ \E n \in Node :
       \/ \E val \in TfiVals : WriteTfi(n, val)
       \/ \E val \in TidVals : WriteTid(n, val)
       \/ \E val \in TdaVals : WriteTda(n, val)
       \/ \E val \in TdbVals : WriteTdb(n, val)
       \/ \E val \in CmrVals : WriteCmr(n, val)
       \/ \E val \in IerVals : WriteIer(n, val)
  \/ can_reset

Spec == Init /\ [][Next]_vars

-----------------------------------------------------------------------------
(* Every register holds a value of its width.                              *)
TypeOK ==
  /\ tx \in [Node -> TxRegisters]
  /\ rx \in [Node -> RxRegisters]
  /\ sr \in [Node -> SUBSET {RBS, DOS, TBS, TCS}]
  /\ cmr \in [Node -> SUBSET {TR, RRB, CDO}]
  /\ ier \in [Node -> SUBSET (0..3)]
  /\ irq \in [Node -> {0, 1}]

(* The line of a controller is high exactly while a received frame waits   *)
(* and its receive interrupt is enabled, through every interleaving of     *)
(* transmissions by the peers with commands, enables and resets.           *)
IrqFollowsReceive ==
  \A n \in Node : (irq[n] = 1) <=> (RIE \in ier[n] /\ RBS \in sr[n])

(* What the transmit registers promise: with FF = 1 the peers receive the  *)
(* 29-bit identifier, with FF = 0 the 11-bit one.                          *)
IdOfFormat ==
  [][ \A n \in Node, m \in Node :
        n \in Peers(m) /\ (\E val \in CmrVals : TR \in val /\ WriteCmr(m, val))
          => rx'[n].rid = IF tx[m].tfi.ff = 1 THEN IDE(tx[m].tid) ELSE IDS(tx[m].tid) ]_vars

-----------------------------------------------------------------------------
(* The controllers implement Mailboxes.  A message is what the software    *)
(* can tell from the registers: format, kind, identifier, length code and  *)
(* as many data bytes as the length code and the registers give.           *)
Shorter(k) == IF k < 8 THEN k ELSE 8

MessageOf(info, id, a, b) ==
  [ff |-> info.ff, rtr |-> info.rtr, id |-> id, dlc |-> info.dlc,
   bytes |-> [i \in 1..Shorter(info.dlc) |-> IF i <= 4 THEN a[i] ELSE b[i - 4]]]

Draft(t) ==
  MessageOf([ff |-> t.tfi.ff, rtr |-> t.tfi.rtr, dlc |-> DlcSent(t)], IdSent(t), t.tda, t.tdb)
Boxed(r) == MessageOf(r.rfi, r.rid, r.rda, r.rdb)

Mail == INSTANCE Mailboxes WITH
  Blank <- Boxed(ZeroRx),
  draft <- [n \in Node |-> Draft(tx[n])],
  full  <- {n \in Node : RBS \in sr[n]},
  box   <- [n \in Node |-> Boxed(rx[n])],
  lost  <- {n \in Node : DOS \in sr[n]}

(* To the software the controllers are mailboxes: what one sends is what   *)
(* every other one on the bus finds in its receive registers, whole, until *)
(* it is released or replaced, and a message is replaced only with DOS     *)
(* raised.                                                                 *)
ImplementsMailboxes == Mail!Spec
=============================================================================
