----------------------------- MODULE CanProofs -----------------------------
(***************************************************************************)
(* Theorems about the CAN controllers, for any number of controllers, any  *)
(* subset of them on the bus and any values the software writes.           *)
(***************************************************************************)
EXTENDS Can, TLAPS

Status == {RBS, DOS, TBS, TCS}

PortPair == [sr : SUBSET Status, irq : {0, 1}]

Exact(p, ie) == (p.irq = 1) <=> (RIE \in ie /\ RBS \in p.sr)

(* The masks of the transmit and the overrun interrupt select different    *)
(* bits of IER and SR, so their conjunction is zero whatever the registers *)
(* hold; the masks of the receive interrupt meet in bit 0.                 *)
LEMMA Masks ==
  ASSUME NEW ie, NEW s
  PROVE  /\ Receives(ie, s) <=> RIE \in ie /\ RBS \in s
         /\ ~Transmits(ie, s)
         /\ ~Overruns(ie, s)
BY DEF Receives, Transmits, Overruns, RIE, RBS, TIE, TCS, DOIE, DOS

(* set_status_bit adds the bit and keeps an exact line exact.              *)
LEMMA SetStatusBit ==
  ASSUME NEW ie, NEW p \in PortPair, NEW bit \in Status, Exact(p, ie)
  PROVE  LET q == set_status_bit(p, bit, ie)
         IN  q \in PortPair /\ Exact(q, ie) /\ q.sr = p.sr \cup {bit}
<1>. DEFINE s == p.sr \cup {bit}
            q == set_status_bit(p, bit, ie)
<1>1. s \in SUBSET Status /\ p.sr \subseteq s /\ p.irq \in {0, 1}
  BY DEF PortPair
<1>2. q = IF RIE \in ie /\ RBS \in s THEN [sr |-> s, irq |-> 1] ELSE [sr |-> s, irq |-> p.irq]
  BY Masks DEF set_status_bit, check_and_set_interrupt, qemu_irq_raise
<1>. HIDE DEF s, q
<1>3. q.sr = s /\ q.irq = (IF RIE \in ie /\ RBS \in s THEN 1 ELSE p.irq)
  BY <1>2
<1>4. q \in PortPair
  BY <1>1, <1>2 DEF PortPair
<1>5. Exact(q, ie)
  BY <1>1, <1>3 DEF Exact
<1>. QED
  BY <1>3, <1>4, <1>5 DEF s, q

(* reset_status_bit removes the bit and keeps an exact line exact.         *)
LEMMA ResetStatusBit ==
  ASSUME NEW ie, NEW p \in PortPair, NEW bit \in Status, Exact(p, ie)
  PROVE  LET q == reset_status_bit(p, bit, ie)
         IN  q \in PortPair /\ Exact(q, ie) /\ q.sr = p.sr \ {bit}
<1>. DEFINE s == p.sr \ {bit}
            q == reset_status_bit(p, bit, ie)
<1>1. s \in SUBSET Status /\ s \subseteq p.sr /\ p.irq \in {0, 1}
  BY DEF PortPair
<1>2. q = IF RIE \in ie /\ RBS \in s THEN [sr |-> s, irq |-> p.irq] ELSE [sr |-> s, irq |-> 0]
  BY Masks DEF reset_status_bit, check_and_clear_interrupt, qemu_irq_lower
<1>. HIDE DEF s, q
<1>3. q.sr = s /\ q.irq = (IF RIE \in ie /\ RBS \in s THEN p.irq ELSE 0)
  BY <1>2
<1>4. q \in PortPair
  BY <1>1, <1>2 DEF PortPair
<1>5. Exact(q, ie)
  BY <1>1, <1>3 DEF Exact
<1>. QED
  BY <1>3, <1>4, <1>5 DEF s, q

(* An arriving frame sets RBS, and DOS when RBS was set already.           *)
LEMMA ArrivalPort ==
  ASSUME NEW ie, NEW p \in PortPair, Exact(p, ie)
  PROVE  LET q == Arrival(p, ie)
         IN  /\ q \in PortPair
             /\ Exact(q, ie)
             /\ q.sr = p.sr \cup {RBS} \cup (IF RBS \in p.sr THEN {DOS} ELSE {})
<1>. DEFINE r == IF RBS \in p.sr THEN set_status_bit(p, DOS, ie) ELSE p
<1>1. RBS \in Status /\ DOS \in Status
  BY DEF Status
<1>2. /\ r \in PortPair /\ Exact(r, ie)
      /\ r.sr = p.sr \cup (IF RBS \in p.sr THEN {DOS} ELSE {})
  BY <1>1, SetStatusBit
<1>3. Arrival(p, ie) = set_status_bit(r, RBS, ie)
  BY DEF Arrival
<1>. HIDE DEF r
<1>4. LET q == set_status_bit(r, RBS, ie)
      IN  q \in PortPair /\ Exact(q, ie) /\ q.sr = r.sr \cup {RBS}
  BY <1>1, <1>2, SetStatusBit
<1>. QED
  BY <1>2, <1>3, <1>4

(* A completed transmission leaves TCS set and touches no other bit.       *)
LEMMA TransmittedPort ==
  ASSUME NEW ie, NEW p \in PortPair, Exact(p, ie)
  PROVE  LET q == Transmitted(p, ie)
         IN  q \in PortPair /\ Exact(q, ie) /\ q.sr = p.sr \cup {TCS}
<1>. DEFINE r == reset_status_bit(p, TCS, ie)
<1>1. TCS \in Status
  BY DEF Status
<1>2. r \in PortPair /\ Exact(r, ie) /\ r.sr = p.sr \ {TCS}
  BY <1>1, ResetStatusBit
<1>3. Transmitted(p, ie) = set_status_bit(r, TCS, ie)
  BY DEF Transmitted
<1>. HIDE DEF r
<1>4. LET q == set_status_bit(r, TCS, ie)
      IN  q \in PortPair /\ Exact(q, ie) /\ q.sr = r.sr \cup {TCS}
  BY <1>1, <1>2, SetStatusBit
<1>. QED
  BY <1>2, <1>3, <1>4

-----------------------------------------------------------------------------
(* TypeOK makes the interrupt property inductive.                          *)
IInv == TypeOK /\ IrqFollowsReceive

(* The pair every handler starts from is exact.                            *)
LEMMA PortExact ==
  ASSUME IInv, NEW n \in Node
  PROVE  Port(n) \in PortPair /\ Exact(Port(n), ier[n]) /\ Port(n).sr = sr[n]
BY DEF IInv, TypeOK, IrqFollowsReceive, Port, PortPair, Exact, Status

(* RRB clears RBS, CDO clears DOS, and the line stays exact.               *)
LEMMA ReleasedPort ==
  ASSUME IInv, NEW n \in Node, NEW val
  PROVE  LET q == Released(n, val)
         IN  /\ q \in PortPair
             /\ Exact(q, ier[n])
             /\ q.sr = (sr[n] \ (IF RRB \in val THEN {RBS} ELSE {}))
                           \ (IF CDO \in val THEN {DOS} ELSE {})
<1>. DEFINE p == IF RRB \in val THEN reset_status_bit(Port(n), RBS, ier[n]) ELSE Port(n)
            q == IF CDO \in val THEN reset_status_bit(p, DOS, ier[n]) ELSE p
<1>1. RBS \in Status /\ DOS \in Status
  BY DEF Status
<1>2. /\ p \in PortPair /\ Exact(p, ier[n])
      /\ p.sr = sr[n] \ (IF RRB \in val THEN {RBS} ELSE {})
  BY <1>1, PortExact, ResetStatusBit
<1>. HIDE DEF p
<1>3. /\ q \in PortPair /\ Exact(q, ier[n])
      /\ q.sr = p.sr \ (IF CDO \in val THEN {DOS} ELSE {})
  BY <1>1, <1>2, ResetStatusBit
<1>4. Released(n, val) = q
  BY DEF Released, p
<1>. QED
  BY <1>2, <1>3, <1>4

(* Exact pairs stored in all controllers leave all lines exact.            *)
LEMMA StorePorts ==
  ASSUME NEW ports, SetPorts(ports),
         \A m \in Node : ports[m] \in PortPair /\ Exact(ports[m], ier'[m])
  PROVE  /\ sr' \in [Node -> SUBSET Status]
         /\ irq' \in [Node -> {0, 1}]
         /\ IrqFollowsReceive'
BY DEF SetPorts, PortPair, Exact, IrqFollowsReceive

(* The registers a frame leaves are registers.                             *)
LEMMA DeliveredType ==
  ASSUME NEW t \in TxRegisters
  PROVE  RegistersOf(FrameOf(t)) \in RxRegisters
<1>. DEFINE f == FrameOf(t)
<1>1. f.ff \in {0, 1} /\ f.rtr \in {0, 1} /\ f.dlc \in 0..15
  BY DEF FrameOf, TxRegisters, FrameInfo, DlcSent
<1>2. f.id \in Id
  BY CanAssumption DEF FrameOf, TxRegisters, IdSent, IDS, IDE, Id, IdWord
<1>3. f.data \in [1..8 -> Byte]
  BY CanAssumption DEF FrameOf, TxRegisters, DataWord
<1>. HIDE DEF f
<1>4. [i \in 1..4 |-> IF i <= f.dlc THEN f.data[i] ELSE 0] \in DataWord
  BY <1>3, CanAssumption DEF DataWord
<1>5. [i \in 1..4 |-> IF i + 4 <= f.dlc THEN f.data[i + 4] ELSE 0] \in DataWord
  BY <1>3, CanAssumption DEF DataWord
<1>6. [ff |-> f.ff, rtr |-> f.rtr, dlc |-> f.dlc] \in FrameInfo
  BY <1>1 DEF FrameInfo
<1>7. RegistersOf(f) \in RxRegisters
  BY <1>2, <1>4, <1>5, <1>6 DEF RegistersOf, RxRegisters
<1>. QED
  BY <1>7 DEF f

(* Cleared registers are registers.                                        *)
LEMMA ZeroTypes == ZeroTx \in TxRegisters /\ ZeroRx \in RxRegisters
BY CanAssumption DEF ZeroTx, ZeroRx, TxRegisters, RxRegisters, FrameInfo, IdWord, Id, DataWord

(* What a command leaves in the status register of every controller.       *)
CmrPorts(n, val) ==
  [m \in Node |->
     IF m = n /\ TR \in val THEN Transmitted(Released(n, val), ier[n])
     ELSE IF m = n THEN Released(n, val)
     ELSE IF m \in (IF TR \in val THEN Peers(n) ELSE {}) THEN Arrival(Port(m), ier[m])
     ELSE Port(m)]

(* Every controller comes out of a command with an exact line; what        *)
(* happens to RBS and DOS is what the mailbox specification says.          *)
LEMMA CmrPortsExact ==
  ASSUME IInv, NEW n \in Node, NEW val, NEW m \in Node
  PROVE  LET q == CmrPorts(n, val)[m]
             to == IF TR \in val THEN Peers(n) ELSE {}
         IN  /\ q \in PortPair /\ Exact(q, ier[m])
             /\ RBS \in q.sr <=> m \in to \/ (RBS \in sr[m] /\ ~(m = n /\ RRB \in val))
             /\ DOS \in q.sr <=> \/ m \in to /\ RBS \in sr[m]
                                 \/ DOS \in sr[m] /\ ~(m = n /\ CDO \in val)
<1>. USE DEF RBS, DOS, TCS
<1>0. n \notin Peers(n)
  BY DEF Peers
<1>1. CASE m = n /\ TR \in val
  <2>1. CmrPorts(n, val)[m] = Transmitted(Released(n, val), ier[n])
    BY <1>1 DEF CmrPorts
  <2>. QED
    BY <1>0, <1>1, <2>1, ReleasedPort, TransmittedPort
<1>2. CASE m = n /\ TR \notin val
  <2>1. CmrPorts(n, val)[m] = Released(n, val)
    BY <1>2 DEF CmrPorts
  <2>. QED
    BY <1>2, <2>1, ReleasedPort
<1>3. CASE m # n /\ TR \in val /\ m \in Peers(n)
  <2>1. CmrPorts(n, val)[m] = Arrival(Port(m), ier[m])
    BY <1>3 DEF CmrPorts
  <2>. QED
    BY <1>3, <2>1, PortExact, ArrivalPort
<1>4. CASE m # n /\ ~(TR \in val /\ m \in Peers(n))
  <2>1. CmrPorts(n, val)[m] = Port(m)
    BY <1>4 DEF CmrPorts
  <2>. QED
    BY <1>4, <2>1, PortExact
<1>. QED
  BY <1>1, <1>2, <1>3, <1>4

(* A write to IER leaves every status register as it was.                  *)
IerPorts(n, ie) ==
  [m \in Node |->
     IF m = n THEN check_and_clear_interrupt(check_and_set_interrupt(Port(n), ie), ie)
     ELSE Port(m)]

(* After a write to IER the line of the controller is exact for the new    *)
(* value.                                                                  *)
LEMMA IerPortsExact ==
  ASSUME IInv, NEW n \in Node, NEW ie, NEW m \in Node
  PROVE  LET q == IerPorts(n, ie)[m]
         IN  /\ q \in PortPair
             /\ Exact(q, IF m = n THEN ie ELSE ier[m])
             /\ q.sr = sr[m]
<1>1. CASE m = n
  <2>1. IerPorts(n, ie)[m] =
          check_and_clear_interrupt(check_and_set_interrupt(Port(n), ie), ie)
    BY <1>1 DEF IerPorts
  <2>2. check_and_clear_interrupt(check_and_set_interrupt(Port(n), ie), ie) =
          [sr |-> sr[n], irq |-> IF RIE \in ie /\ RBS \in sr[n] THEN 1 ELSE 0]
    BY Masks DEF check_and_clear_interrupt, check_and_set_interrupt, qemu_irq_raise,
       qemu_irq_lower, Port
  <2>3. sr[n] \in SUBSET Status
    BY DEF IInv, TypeOK, Status
  <2>. QED
    BY <1>1, <2>1, <2>2, <2>3 DEF PortPair, Exact
<1>2. CASE m # n
  BY <1>2, PortExact DEF IerPorts
<1>. QED
  BY <1>1, <1>2

(* Every operation preserves the invariant.                                *)
LEMMA NextIInv == IInv /\ [Next]_vars => IInv'
<1>. SUFFICES ASSUME IInv, [Next]_vars PROVE IInv'
  OBVIOUS
<1>. USE CanAssumption
<1>1. ASSUME NEW n \in Node, NEW t \in TxRegisters, WriteTx(n, t) PROVE IInv'
  BY <1>1 DEF WriteTx, IInv, TypeOK, IrqFollowsReceive
<1>2. ASSUME NEW n \in Node,
             \/ \E val \in TfiVals : WriteTfi(n, val)
             \/ \E val \in TidVals : WriteTid(n, val)
             \/ \E val \in TdaVals : WriteTda(n, val)
             \/ \E val \in TdbVals : WriteTdb(n, val)
      PROVE  IInv'
  <2>1. tx[n] \in TxRegisters
    BY DEF IInv, TypeOK
  <2>. QED
    BY <1>1, <1>2, <2>1 DEF WriteTfi, WriteTid, WriteTda, WriteTdb, TxRegisters
<1>3. ASSUME NEW n \in Node, NEW val \in CmrVals, WriteCmr(n, val) PROVE IInv'
  <2>1. SetPorts(CmrPorts(n, val)) /\ ier' = ier /\ tx' = tx
    BY <1>3 DEF WriteCmr, CmrPorts
  <2>2. \A m \in Node : /\ CmrPorts(n, val)[m] \in PortPair
                        /\ Exact(CmrPorts(n, val)[m], ier'[m])
    BY <2>1, CmrPortsExact
  <2>3. sr' \in [Node -> SUBSET Status] /\ irq' \in [Node -> {0, 1}] /\ IrqFollowsReceive'
    BY <2>1, <2>2, StorePorts
  <2>4. rx' \in [Node -> RxRegisters]
    <3>1. RegistersOf(FrameOf(tx[n])) \in RxRegisters
      BY DeliveredType DEF IInv, TypeOK
    <3>. QED
      BY <1>3, <3>1 DEF WriteCmr, IInv, TypeOK
  <2>5. cmr' \in [Node -> SUBSET {TR, RRB, CDO}]
    BY <1>3 DEF WriteCmr, IInv, TypeOK
  <2>. QED
    BY <2>1, <2>3, <2>4, <2>5 DEF IInv, TypeOK, Status
<1>4. ASSUME NEW n \in Node, NEW val \in IerVals, WriteIer(n, val) PROVE IInv'
  <2>. DEFINE ie == IerKept(val)
  <2>1. /\ SetPorts(IerPorts(n, ie)) /\ ier' = [ier EXCEPT ![n] = ie]
        /\ UNCHANGED <<tx, rx, cmr>>
    BY <1>4 DEF WriteIer, IerPorts
  <2>2. ie \in SUBSET (0..3)
    BY DEF IerKept
  <2>. HIDE DEF ie
  <2>3. ier' \in [Node -> SUBSET (0..3)]
    BY <2>1, <2>2 DEF IInv, TypeOK
  <2>4. \A m \in Node : ier'[m] = IF m = n THEN ie ELSE ier[m]
    BY <2>1 DEF IInv, TypeOK
  <2>5. \A m \in Node : /\ IerPorts(n, ie)[m] \in PortPair
                        /\ Exact(IerPorts(n, ie)[m], ier'[m])
    BY <2>4, IerPortsExact
  <2>6. sr' \in [Node -> SUBSET Status] /\ irq' \in [Node -> {0, 1}] /\ IrqFollowsReceive'
    BY <2>1, <2>5, StorePorts
  <2>. QED
    BY <2>1, <2>3, <2>6 DEF IInv, TypeOK, Status
<1>5. CASE can_reset
  BY <1>5, ZeroTypes DEF can_reset, IInv, TypeOK, IrqFollowsReceive
<1>6. CASE UNCHANGED vars
  BY <1>6 DEF vars, IInv, TypeOK, IrqFollowsReceive
<1>. QED
  BY <1>2, <1>3, <1>4, <1>5, <1>6 DEF Next

(* The invariant holds in every reachable state.                           *)
THEOREM SpecIInv == Spec => []IInv
<1>1. Init => IInv
  BY ZeroTypes DEF Init, IInv, TypeOK, IrqFollowsReceive
<1>. QED
  BY <1>1, NextIInv, PTL DEF Spec

(* Every register keeps a value of its width.                              *)
THEOREM TypeCorrect == Spec => []TypeOK
<1>1. IInv => TypeOK
  BY DEF IInv
<1>. QED
  BY SpecIInv, <1>1, PTL

(* The line is high exactly while a frame waits with RIE set: the enable   *)
(* bits TIE and DOIE have no effect on it.                                 *)
THEOREM IrqExact == Spec => []IrqFollowsReceive
<1>1. IInv => IrqFollowsReceive
  BY DEF IInv
<1>. QED
  BY SpecIInv, <1>1, PTL
-----------------------------------------------------------------------------
(* The frame that can_transmit builds and can_receive takes apart again    *)
(* spells, in the receive registers, the message of the transmit           *)
(* registers, for every length code up to 15.                              *)
LEMMA RoundTrip ==
  ASSUME NEW t \in TxRegisters
  PROVE  Boxed(RegistersOf(FrameOf(t))) = Draft(t)
<1>. DEFINE d == DlcSent(t)
            r == RegistersOf(FrameOf(t))
<1>1. d \in 0..15
  BY DEF DlcSent, TxRegisters, FrameInfo
<1>2. /\ r.rfi = [ff |-> t.tfi.ff, rtr |-> t.tfi.rtr, dlc |-> d]
      /\ r.rid = IdSent(t)
  BY DEF RegistersOf, FrameOf
<1>3. \A i \in 1..4 : i <= d => r.rda[i] = t.tda[i]
  <2>. DEFINE f == FrameOf(t)
  <2>0. /\ f.dlc = d
        /\ f.data = [i \in 1..8 |-> IF i > d THEN 0
                                    ELSE IF i <= 4 THEN t.tda[i] ELSE t.tdb[i - 4]]
    BY DEF FrameOf
  <2>1. f.dlc = d /\ \A i \in 1..4 : i <= d => f.data[i] = t.tda[i]
    <3>. HIDE DEF f, d
    <3>1. \A i \in 1..4 : i \in 1..8 /\ i <= 4
      OBVIOUS
    <3>. QED
      BY <1>1, <2>0, <3>1
  <2>2. \A i \in 1..4 : i <= f.dlc => RegistersOf(f).rda[i] = f.data[i]
    BY DEF RegistersOf
  <2>. HIDE DEF f, d
  <2>3. \A i \in 1..4 : i <= d => RegistersOf(f).rda[i] = t.tda[i]
    BY <2>1, <2>2
  <2>. QED
    BY <2>3 DEF f
<1>4. \A i \in 1..4 : i + 4 <= d => r.rdb[i] = t.tdb[i]
  <2>. DEFINE f == FrameOf(t)
  <2>1. f.dlc = d /\ \A j \in 5..8 : j <= d => f.data[j] = t.tdb[j - 4]
    BY <1>1 DEF FrameOf
  <2>2. \A i \in 1..4 : i + 4 <= f.dlc => RegistersOf(f).rdb[i] = f.data[i + 4]
    BY DEF RegistersOf
  <2>. HIDE DEF f, d
  <2>3. ASSUME NEW i \in 1..4, i + 4 <= d PROVE RegistersOf(f).rdb[i] = t.tdb[i]
    <3>1. i + 4 \in 5..8 /\ (i + 4) - 4 = i
      OBVIOUS
    <3>2. f.data[i + 4] = t.tdb[i]
      BY <2>1, <2>3, <3>1
    <3>. QED
      BY <2>1, <2>2, <2>3, <3>2
  <2>. QED
    BY <2>3 DEF f
<1>. HIDE DEF r, d
<1>5. [i \in 1..Shorter(d) |-> IF i <= 4 THEN r.rda[i] ELSE r.rdb[i - 4]] =
      [i \in 1..Shorter(d) |-> IF i <= 4 THEN t.tda[i] ELSE t.tdb[i - 4]]
  <2>. SUFFICES ASSUME NEW i \in 1..Shorter(d)
                PROVE  (IF i <= 4 THEN r.rda[i] ELSE r.rdb[i - 4]) =
                       (IF i <= 4 THEN t.tda[i] ELSE t.tdb[i - 4])
    BY Zenon
  <2>1. i \in 1..8 /\ i <= d
    BY <1>1 DEF Shorter
  <2>2. CASE i <= 4
    BY <1>3, <2>1, <2>2
  <2>3. CASE ~(i <= 4)
    <3>1. i - 4 \in 1..4 /\ (i - 4) + 4 <= d
      BY <1>1, <2>1, <2>3
    <3>2. r.rdb[i - 4] = t.tdb[i - 4]
      BY <1>4, <3>1
    <3>. QED
      BY <2>3, <3>2
  <2>. QED
    BY <2>2, <2>3
<1>. QED
  BY <1>2, <1>5 DEF Boxed, Draft, MessageOf, r, d

(* Cleared transmit registers spell the message of cleared receive         *)
(* registers.                                                              *)
LEMMA ZeroMessage == Draft(ZeroTx) = Boxed(ZeroRx)
<1>1. DlcSent(ZeroTx) = 0 /\ IdSent(ZeroTx) = [mid |-> 0, low |-> 0]
  BY DEF DlcSent, IdSent, IDE, ZeroTx
<1>2. ZeroTx.tfi.ff = 0 /\ ZeroTx.tfi.rtr = 0
  BY DEF ZeroTx
<1>3. ZeroTx.tda = [i \in 1..4 |-> 0] /\ ZeroTx.tdb = [i \in 1..4 |-> 0]
  BY DEF ZeroTx
<1>4. /\ ZeroRx.rfi = [ff |-> 0, rtr |-> 0, dlc |-> 0]
      /\ ZeroRx.rid = [mid |-> 0, low |-> 0]
      /\ ZeroRx.rda = [i \in 1..4 |-> 0] /\ ZeroRx.rdb = [i \in 1..4 |-> 0]
  BY DEF ZeroRx
<1>. QED
  BY <1>1, <1>2, <1>3, <1>4, Zenon DEF Draft, Boxed

(* Writing transmit registers only changes the draft of that controller.   *)
LEMMA WriteTxComposes ==
  ASSUME TypeOK, NEW n \in Node, NEW t, WriteTx(n, t)
  PROVE  Mail!Compose(n)
<1>1. \A m \in Node : m # n => tx'[m] = tx[m]
  BY DEF WriteTx, TypeOK
<1>2. [m \in Node |-> Draft(tx[m])]' =
        [[m \in Node |-> Draft(tx[m])] EXCEPT ![n] = [m \in Node |-> Draft(tx[m])]'[n]]
  <2>. SUFFICES [m \in Node |-> Draft(tx'[m])] =
                  [[m \in Node |-> Draft(tx[m])] EXCEPT ![n] = Draft(tx'[n])]
    BY DEF Draft, MessageOf, IdSent, DlcSent, IDS, IDE, Shorter
  <2>. QED
    BY <1>1
<1>. QED
  BY <1>2 DEF WriteTx, Mail!Compose

(* What the bits of CMR order.                                             *)
Orders(val) ==
  (IF RRB \in val THEN {"release"} ELSE {}) \cup (IF CDO \in val THEN {"clear"} ELSE {})
    \cup (IF TR \in val THEN {"send"} ELSE {})

(* A write to CMR is a command of the mailboxes: what its bits order.      *)
LEMMA WriteCmrCommands ==
  ASSUME IInv, NEW n \in Node, NEW val \in CmrVals, WriteCmr(n, val)
  PROVE  Mail!Command(n, Orders(val))
<1>. DEFINE to == IF TR \in val THEN Peers(n) ELSE {}
<1>1. SetPorts(CmrPorts(n, val)) /\ tx' = tx
  BY DEF WriteCmr, CmrPorts
<1>2. rx' = [m \in Node |-> IF m \in to THEN RegistersOf(FrameOf(tx[n])) ELSE rx[m]]
  BY DEF WriteCmr
<1>3. \A m \in Node : sr'[m] = CmrPorts(n, val)[m].sr
  BY <1>1 DEF SetPorts
<1>4. ASSUME NEW m \in Node
      PROVE  /\ RBS \in sr'[m] <=> m \in to \/ (RBS \in sr[m] /\ ~(m = n /\ RRB \in val))
             /\ DOS \in sr'[m] <=> \/ m \in to /\ RBS \in sr[m]
                                   \/ DOS \in sr[m] /\ ~(m = n /\ CDO \in val)
  <2>. DEFINE q == CmrPorts(n, val)[m]
  <2>1. /\ RBS \in q.sr <=> m \in to \/ (RBS \in sr[m] /\ ~(m = n /\ RRB \in val))
        /\ DOS \in q.sr <=> \/ m \in to /\ RBS \in sr[m]
                            \/ DOS \in sr[m] /\ ~(m = n /\ CDO \in val)
    BY CmrPortsExact, Zenon
  <2>2. sr'[m] = q.sr
    BY <1>3
  <2>. HIDE DEF to
  <2>. QED
    BY <2>1, <2>2
<1>6. \A m \in Node :
        Boxed(rx'[m]) = IF m \in to THEN Draft(tx[n]) ELSE Boxed(rx[m])
  <2>1. tx[n] \in TxRegisters
    BY DEF IInv, TypeOK
  <2>. QED
    BY <1>2, <2>1, RoundTrip
<1>7. /\ to = IF "send" \in Orders(val) THEN Mail!Peers(n) ELSE {}
      /\ to \subseteq Node
  BY CanAssumption DEF Orders, Peers, Mail!Peers
<1>. HIDE DEF to
<1>8. {m \in Node : RBS \in sr'[m]} =
        ({m \in Node : RBS \in sr[m]} \ (IF "release" \in Orders(val) THEN {n} ELSE {}))
          \cup to
  BY <1>4, <1>7 DEF Orders
<1>9. {m \in Node : DOS \in sr'[m]} =
        ({m \in Node : DOS \in sr[m]} \ (IF "clear" \in Orders(val) THEN {n} ELSE {}))
          \cup ({m \in Node : RBS \in sr[m]} \cap to)
  BY <1>4, <1>7 DEF Orders
<1>10. [m \in Node |-> Boxed(rx'[m])] =
       [m \in Node |-> IF m \in to THEN [k \in Node |-> Draft(tx[k])][n]
                       ELSE [k \in Node |-> Boxed(rx[k])][m]]
  BY <1>6
<1>11. [m \in Node |-> Boxed(rx[m])]' = [m \in Node |-> Boxed(rx'[m])]
  BY DEF Boxed, MessageOf, Shorter
<1>12. [m \in Node |-> Draft(tx[m])]' = [m \in Node |-> Draft(tx[m])]
  BY <1>1
<1>13. /\ {m \in Node : RBS \in sr[m]}' = {m \in Node : RBS \in sr'[m]}
       /\ {m \in Node : DOS \in sr[m]}' = {m \in Node : DOS \in sr'[m]}
  BY DEF RBS, DOS
<1>. QED
  BY <1>7, <1>8, <1>9, <1>10, <1>11, <1>12, <1>13, Zenon DEF Mail!Command

(* A write to IER is invisible to the software of the mailboxes.           *)
LEMMA WriteIerStutters ==
  ASSUME IInv, NEW n \in Node, NEW val \in IerVals, WriteIer(n, val)
  PROVE  UNCHANGED Mail!vars
<1>1. SetPorts(IerPorts(n, IerKept(val))) /\ UNCHANGED <<tx, rx>>
  BY DEF WriteIer, IerPorts
<1>2. \A m \in Node : IerPorts(n, IerKept(val))[m].sr = sr[m]
  BY IerPortsExact
<1>3. sr' = sr
  BY <1>1, <1>2 DEF SetPorts, IInv, TypeOK
<1>. QED
  BY <1>1, <1>3 DEF Mail!vars

(* A reset of the controllers resets the mailboxes.                        *)
LEMMA ResetResets ==
  ASSUME can_reset
  PROVE  Mail!Reset
<1>1. [m \in Node |-> Draft(tx[m])]' = [m \in Node |-> Boxed(ZeroRx)]
  <2>1. [m \in Node |-> Draft(tx[m])]' = [m \in Node |-> Draft(tx'[m])]
    BY DEF Draft, MessageOf, IdSent, DlcSent, IDS, IDE, Shorter
  <2>. QED
    BY <2>1, ZeroMessage DEF can_reset
<1>2. [m \in Node |-> Boxed(rx[m])]' = [m \in Node |-> Boxed(ZeroRx)]
  <2>1. [m \in Node |-> Boxed(rx[m])]' = [m \in Node |-> Boxed(rx'[m])]
    BY DEF Boxed, MessageOf, Shorter
  <2>. QED
    BY <2>1 DEF can_reset
<1>3. {m \in Node : RBS \in sr[m]}' = {} /\ {m \in Node : DOS \in sr[m]}' = {}
  BY DEF can_reset
<1>4. Boxed(ZeroRx)' = Boxed(ZeroRx)
  BY DEF Boxed, MessageOf, Shorter, ZeroRx
<1>. QED
  BY <1>1, <1>2, <1>3, <1>4 DEF Mail!Reset

(* For any number of controllers and any data, the controllers implement   *)
(* the mailboxes: no message is torn, altered or replaced unmarked.        *)
THEOREM ControllersImplementMailboxes == Spec => ImplementsMailboxes
<1>1. Init => Mail!Init
  <2>. SUFFICES ASSUME Init PROVE Mail!Init
    OBVIOUS
  <2>. QED
    BY ZeroMessage DEF Init, Mail!Init
<1>2. IInv /\ [Next]_vars => [Mail!Next]_Mail!vars
  <2>. SUFFICES ASSUME IInv, [Next]_vars PROVE [Mail!Next]_Mail!vars
    OBVIOUS
  <2>1. ASSUME NEW n \in Node,
               \/ \E val \in TfiVals : WriteTfi(n, val)
               \/ \E val \in TidVals : WriteTid(n, val)
               \/ \E val \in TdaVals : WriteTda(n, val)
               \/ \E val \in TdbVals : WriteTdb(n, val)
        PROVE  Mail!Next
    <3>1. \E t : WriteTx(n, t)
      BY <2>1, Zenon DEF WriteTfi, WriteTid, WriteTda, WriteTdb
    <3>2. Mail!Compose(n)
      BY <3>1, WriteTxComposes DEF IInv
    <3>. QED
      BY <3>2 DEF Mail!Next
  <2>2. ASSUME NEW n \in Node, NEW val \in CmrVals, WriteCmr(n, val) PROVE Mail!Next
    <3>1. Mail!Command(n, Orders(val))
      BY <2>2, WriteCmrCommands
    <3>2. Orders(val) \in SUBSET {"release", "clear", "send"}
      BY DEF Orders
    <3>. QED
      BY <3>1, <3>2, Zenon DEF Mail!Next
  <2>3. ASSUME NEW n \in Node, NEW val \in IerVals, WriteIer(n, val)
        PROVE  UNCHANGED Mail!vars
    BY <2>3, WriteIerStutters
  <2>4. CASE can_reset
    BY <2>4, ResetResets DEF Mail!Next
  <2>5. CASE UNCHANGED vars
    BY <2>5 DEF vars, Mail!vars
  <2>. QED
    BY <2>1, <2>2, <2>3, <2>4, <2>5 DEF Next
<1>. QED
  BY <1>1, <1>2, SpecIInv, PTL DEF Spec, ImplementsMailboxes, Mail!Spec
=============================================================================
