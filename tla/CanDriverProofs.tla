--------------------------- MODULE CanDriverProofs ---------------------------
(***************************************************************************)
(* Theorems about the CAN driver, for any messages and any number of them. *)
(***************************************************************************)
EXTENDS CanDriver, CanProofs, TLAPS

(* What the driver keeps in its own variables.                             *)
DriverType ==
  /\ from \in {can0, can1}
  /\ snd \in {"call", "tid", "tfi", "tda", "tdb", "tr"}
  /\ msg \in Message /\ last \in Message
  /\ sent \in Nat /\ dropped \in Nat
  /\ rcv \in {"poll", "held", "id", "data"}
  /\ dlc \in 0..15 /\ data \in Seq(Byte)
  /\ isr \in {"none", "clear", "print"} /\ line \in Node /\ pending \in SUBSET Node
  /\ cmr = [n \in Node |-> {}]

(* The transmit registers that CAN_write has filled so far.                *)
Drafted ==
  /\ snd \in {"tfi", "tda", "tdb", "tr"} => tx[from].tid = msg.id
  /\ snd \in {"tda", "tdb", "tr"} => tx[from].tfi = InfoWritten(msg)
  /\ snd \in {"tdb", "tr"} => tx[from].tda = WordA(msg)
  /\ snd = "tr" => tx[from].tdb = WordB(msg)

(* The receive registers r are what a frame with message m leaves.         *)
Carries(r, m) ==
  /\ r.rid.low = m.id.low
  /\ m.id.mid = 0 => r.rid.mid = 0
  /\ r.rfi.dlc # 0 => r.rfi.dlc = m.dlc
  /\ \A i \in 1..8 : i <= r.rfi.dlc => ByteAt(r, i) = m.data[i]

Fresh ==
  /\ dropped <= sent
  /\ EachMessageOnce

(* What was read so far is in the receive registers r.                     *)
ReadFrom(r) ==
  /\ Len(data) <= dlc /\ Len(data) <= 8
  /\ dlc # 0 => dlc = r.rfi.dlc
  /\ \A i \in 1..Len(data) : data[i] = ByteAt(r, i)
  /\ rcv # "data" /\ dlc # 0 => Len(data) = Shorter(dlc)
  /\ ident # << >> => ident[1].low = r.rid.low /\ ident[1].mid \in {0, r.rid.mid}

(* While the reader holds a message that was not replaced, its buffer is   *)
(* full and what it read is there.                                         *)
Holding ==
  rcv # "poll" /\ DOS \notin sr[to] /\ RIE \notin ier[to] => RBS \in sr[to] /\ ReadFrom(rx[to])

(* Only a controller whose receive interrupt is on interrupts.             *)
Enabled ==
  /\ \A n \in pending : RIE \in ier[n]
  /\ isr # "none" => RIE \in ier[line]

DInv ==
  /\ IInv /\ DriverType
  /\ Drafted /\ Carries(rx[to], last)
  /\ Fresh /\ Holding /\ Enabled /\ InterruptDue

-----------------------------------------------------------------------------
(* Both controllers exist, and the reader's is the other one.              *)
LEMMA Ends ==
  ASSUME from \in {can0, can1}
  PROVE  from \in Node /\ to \in Node /\ from # to /\ to \in Peers(from) /\ from \in OnBus
  BY CanAssumption, CanDriverAssumption DEF to, Peers

(* A write to CMR delivers, releases and clears as the bits say, leaves    *)
(* CMR empty and moves the status bits of no one else.                     *)
LEMMA Commanded ==
  ASSUME IInv, DriverType, NEW n \in Node, NEW val \in SUBSET {TR, RRB, CDO},
         WriteCmr(n, val)
  PROVE  /\ IInv' /\ cmr' = [m \in Node |-> {}] /\ UNCHANGED <<tx, ier>>
         /\ \A m \in Node :
              /\ rx'[m] = IF TR \in val /\ m \in Peers(n) THEN RegistersOf(FrameOf(tx[n]))
                                                          ELSE rx[m]
              /\ RBS \in sr'[m] <=> \/ TR \in val /\ m \in Peers(n)
                                    \/ RBS \in sr[m] /\ ~(m = n /\ RRB \in val)
              /\ DOS \in sr'[m] <=> \/ TR \in val /\ m \in Peers(n) /\ RBS \in sr[m]
                                    \/ DOS \in sr[m] /\ ~(m = n /\ CDO \in val)
  <1>1. val \in SUBSET (0..3) /\ val \in CmrVals
    BY CanDriverAssumption DEF TR, RRB, CDO
  <1>2. Next
    BY <1>1, Zenon DEF Next
  <1>3. IInv'
    BY <1>2, NextIInv
  <1>4. cmr' = [m \in Node |-> {}]
    BY DEF WriteCmr, DriverType
  <1>5. \A m \in Node : sr'[m] = CmrPorts(n, val)[m].sr
    BY DEF WriteCmr, SetPorts, CmrPorts
  <1> DEFINE dest == IF TR \in val THEN Peers(n) ELSE {}
  <1>6. /\ UNCHANGED <<tx, ier>>
        /\ rx' = [m \in Node |-> IF m \in dest THEN RegistersOf(FrameOf(tx[n])) ELSE rx[m]]
    BY DEF WriteCmr
  <1>7. ASSUME NEW m \in Node
        PROVE  /\ RBS \in sr'[m] <=> m \in dest \/ (RBS \in sr[m] /\ ~(m = n /\ RRB \in val))
               /\ DOS \in sr'[m] <=> \/ m \in dest /\ RBS \in sr[m]
                                     \/ DOS \in sr[m] /\ ~(m = n /\ CDO \in val)
    <2> DEFINE q == CmrPorts(n, val)[m]
    <2>1. /\ RBS \in q.sr <=> m \in dest \/ (RBS \in sr[m] /\ ~(m = n /\ RRB \in val))
          /\ DOS \in q.sr <=> \/ m \in dest /\ RBS \in sr[m]
                              \/ DOS \in sr[m] /\ ~(m = n /\ CDO \in val)
      BY CmrPortsExact, Zenon
    <2>2. sr'[m] = q.sr
      BY <1>5
    <2> HIDE DEF dest
    <2>3. QED
      BY <2>1, <2>2
  <1>8. \A m : m \in dest <=> TR \in val /\ m \in Peers(n)
    OBVIOUS
  <1> HIDE DEF dest
  <1>9. ASSUME NEW m \in Node
        PROVE  rx'[m] = IF TR \in val /\ m \in Peers(n) THEN RegistersOf(FrameOf(tx[n]))
                                                        ELSE rx[m]
    BY <1>6, <1>8
  <1>10. ASSUME NEW m \in Node
         PROVE  /\ RBS \in sr'[m] <=> \/ TR \in val /\ m \in Peers(n)
                                      \/ RBS \in sr[m] /\ ~(m = n /\ RRB \in val)
                /\ DOS \in sr'[m] <=> \/ TR \in val /\ m \in Peers(n) /\ RBS \in sr[m]
                                      \/ DOS \in sr[m] /\ ~(m = n /\ CDO \in val)
    BY <1>7, <1>8
  <1>11. QED
    BY <1>3, <1>4, <1>6, <1>9, <1>10, Zenon

(* A write to IER that only adds bits changes nothing else but the line.   *)
LEMMA IerWritten ==
  ASSUME IInv, NEW n \in Node, WriteIer(n, ier[n] \cup {RIE, DOIE})
  PROVE  /\ IInv' /\ UNCHANGED <<tx, rx, sr, cmr>>
         /\ \A m \in Node : RIE \in ier[m] => RIE \in ier'[m]
  <1> DEFINE val == ier[n] \cup {RIE, DOIE}
  <1>1. ier \in [Node -> SUBSET (0..3)] /\ sr \in [Node -> SUBSET Status]
    BY DEF IInv, TypeOK, Status
  <1>2. val \in SUBSET (0..3) /\ val \in IerVals /\ RIE \in IerKept(val)
    BY <1>1, CanDriverAssumption DEF RIE, DOIE, IerKept
  <1> HIDE DEF val
  <1>3. WriteIer(n, val)
    BY DEF val
  <1>4. Next
    BY <1>2, <1>3, Zenon DEF Next
  <1>5. IInv'
    BY <1>4, NextIInv
  <1>6. /\ SetPorts(IerPorts(n, IerKept(val))) /\ UNCHANGED <<tx, rx, cmr>>
        /\ ier' = [ier EXCEPT ![n] = IerKept(val)]
    BY <1>3 DEF WriteIer, IerPorts
  <1>7. sr' = [m \in Node |-> IerPorts(n, IerKept(val))[m].sr]
    BY <1>6 DEF SetPorts
  <1>8. \A m \in Node : IerPorts(n, IerKept(val))[m].sr = sr[m]
    BY IerPortsExact
  <1>9. sr' = sr
    BY <1>1, <1>7, <1>8
  <1>10. QED
    BY <1>1, <1>2, <1>5, <1>6, <1>9

(* Whatever raises a line makes its interrupt pending.                     *)
LEMMA LineStep ==
  ASSUME InterruptDue, Enabled, DriverType, IInv, IInv', set_irq_level, line' = line,
         isr' # "none" <=> isr # "none",
         \A n \in Node : RIE \in ier[n] => RIE \in ier'[n]
  PROVE  InterruptDue' /\ Enabled' /\ pending' \in SUBSET Node
  <1>1. \A n \in Node : irq'[n] = 1 => RIE \in ier'[n]
    BY DEF IInv, IrqFollowsReceive
  <1>2. irq \in [Node -> {0, 1}]
    BY DEF IInv, TypeOK
  <1>3. InterruptDue'
    BY <1>2 DEF InterruptDue, set_irq_level
  <1>4. Enabled' /\ pending' \in SUBSET Node
    BY <1>1 DEF Enabled, set_irq_level, DriverType
  <1>5. QED
    BY <1>3, <1>4

(* A step of a task that moves no line leaves the handlers alone.          *)
LEMMA LinesKept ==
  ASSUME InterruptDue, Enabled, UNCHANGED <<irq, ier, pending, handler>>
  PROVE  InterruptDue' /\ Enabled'
  BY DEF InterruptDue, Enabled, handler

-----------------------------------------------------------------------------
(* What CAN_write put into the transmit registers arrives in the receive   *)
(* registers of the other controller.                                      *)
LEMMA Arrives ==
  ASSUME IInv, DriverType, Drafted, snd = "tr"
  PROVE  Carries(RegistersOf(FrameOf(tx[from])), msg)
  <1> DEFINE t == tx[from]
             r == RegistersOf(FrameOf(t))
  <1>1. /\ t.tid = msg.id /\ t.tfi = InfoWritten(msg)
        /\ t.tda = WordA(msg) /\ t.tdb = WordB(msg)
    BY DEF Drafted
  <1>2. /\ msg.dlc \in 0..15 /\ msg.rem \in {0, 1} /\ msg.ext \in {0, 1}
    BY DEF DriverType, Message
  <1>3. DlcSent(t) \in {0, msg.dlc}
    BY <1>1, <1>2 DEF DlcSent, InfoWritten
  <1>4. /\ r.rid = IdSent(t) /\ r.rfi.dlc = DlcSent(t)
        /\ r.rda = [j \in 1..4 |-> IF j <= DlcSent(t) THEN FrameOf(t).data[j] ELSE 0]
        /\ r.rdb = [j \in 1..4 |-> IF j + 4 <= DlcSent(t) THEN FrameOf(t).data[j + 4] ELSE 0]
    <2> DEFINE f == FrameOf(t)
    <2>1. f.id = IdSent(t) /\ f.dlc = DlcSent(t)
      BY DEF FrameOf
    <2> HIDE DEF f
    <2>2. /\ RegistersOf(f).rid = f.id /\ RegistersOf(f).rfi.dlc = f.dlc
          /\ RegistersOf(f).rda = [j \in 1..4 |-> IF j <= f.dlc THEN f.data[j] ELSE 0]
          /\ RegistersOf(f).rdb = [j \in 1..4 |-> IF j + 4 <= f.dlc THEN f.data[j + 4] ELSE 0]
      BY DEF RegistersOf
    <2>3. QED
      BY <2>1, <2>2 DEF f
  <1> HIDE DEF r
  <1>5. r.rid.low = msg.id.low /\ (msg.id.mid = 0 => r.rid.mid = 0)
    BY <1>1, <1>4 DEF IdSent, IDS, IDE
  <1>6. ASSUME NEW i \in 1..8, i <= DlcSent(t) PROVE ByteAt(r, i) = msg.data[i]
    <2>0. DlcSent(t) \in Int
      BY <1>2, <1>3
    <2>1. CASE i <= 4
      <3>1. i \in 1..4 /\ r.rda[i] = FrameOf(t).data[i]
        BY <1>4, <1>6, <2>0, <2>1
      <3>2. FrameOf(t).data[i] = t.tda[i]
        BY <1>6, <2>0, <2>1 DEF FrameOf
      <3>3. t.tda[i] = msg.data[i]
        BY <1>1, <3>1 DEF WordA
      <3>4. QED
        BY <2>1, <3>1, <3>2, <3>3 DEF ByteAt
    <2>2. CASE ~(i <= 4)
      <3>0. i - 4 \in 1..4 /\ (i - 4) + 4 = i
        BY <2>2
      <3>1. r.rdb[i - 4] = FrameOf(t).data[i]
        BY <1>4, <1>6, <2>0, <3>0
      <3>2. FrameOf(t).data[i] = t.tdb[i - 4]
        BY <1>6, <2>0, <2>2 DEF FrameOf
      <3>3. t.tdb[i - 4] = msg.data[i]
        BY <1>1, <3>0 DEF WordB
      <3>4. QED
        BY <2>2, <3>1, <3>2, <3>3 DEF ByteAt
    <2>3. QED
      BY <2>1, <2>2
  <1>7. /\ r.rfi.dlc # 0 => r.rfi.dlc = msg.dlc
        /\ \A i \in 1..8 : i <= r.rfi.dlc => ByteAt(r, i) = msg.data[i]
    BY <1>3, <1>4, <1>6
  <1>8. QED
    BY <1>5, <1>7, Zenon DEF Carries, r

-----------------------------------------------------------------------------
(* The program starts with nothing sent and nothing read.                  *)
LEMMA InitDInv ==
  ASSUME DriverInit
  PROVE  DInv
  <1>1. Init /\ can0 \in Node /\ can1 \in Node
    BY CanAssumption, CanDriverAssumption DEF DriverInit
  <1>2. IInv
    BY <1>1, ZeroTypes DEF Init, IInv, TypeOK, IrqFollowsReceive
  <1>3. from \in {can0, can1} /\ to \in Node
    BY <1>1 DEF DriverInit, to
  <1>4. NoMessage \in Message
    BY CanAssumption DEF NoMessage, Message, IdWord
  <1>5. DriverType
    BY <1>1, <1>3, <1>4 DEF DriverInit, DriverType, Init
  <1>6. Carries(rx[to], last)
    <2>1. rx[to] = ZeroRx /\ last = NoMessage
      BY <1>1, <1>3 DEF DriverInit, Init
    <2>2. Carries(ZeroRx, NoMessage)
      BY DEF Carries, ZeroRx, NoMessage
    <2>3. QED
      BY <2>1, <2>2
  <1>7. Drafted /\ Fresh /\ Holding /\ Enabled /\ InterruptDue
    BY <1>1, <1>3 DEF DriverInit, Init, Drafted, Fresh, EachMessageOnce, Holding, Enabled, InterruptDue
  <1>8. QED
    BY <1>2, <1>5, <1>6, <1>7 DEF DInv

(* The reader and its registers stay as they are.                          *)
LEMMA ReaderKept ==
  ASSUME Fresh, Holding, Carries(rx[to], last),
         UNCHANGED <<from, rx, sr, ier, last, sent, reader>>
  PROVE  Fresh' /\ Holding' /\ Carries(rx[to], last)'
  <1>1. UNCHANGED <<rcv, ident, dlc, data, dropped, to>>
    BY DEF reader, to
  <1>2. QED
    BY <1>1 DEF Fresh, EachMessageOnce, Holding, ReadFrom, Carries, ByteAt

(* CAN_write fills the transmit registers one after the other.             *)
LEMMA WriteStep ==
  ASSUME DInv, CAN_write
  PROVE  DInv'
  <1>1. /\ IInv /\ DriverType /\ Drafted /\ Fresh /\ Holding /\ Enabled /\ InterruptDue
        /\ Carries(rx[to], last)
    BY DEF DInv
  <1>2. from \in Node /\ tx[from] \in TxRegisters /\ tx \in [Node -> TxRegisters]
    BY <1>1, Ends DEF DriverType, IInv, TypeOK
  <1>3. UNCHANGED <<from, last, sent, reader, handler, pending>>
    BY DEF CAN_write
  <1>4. msg \in Message /\ msg.id \in IdWord /\ InfoWritten(msg) \in FrameInfo
    BY <1>1 DEF DriverType, Message, InfoWritten, FrameInfo
  <1>5. WordA(msg) \in DataWord /\ WordB(msg) \in DataWord
    BY <1>4 DEF Message, WordA, WordB, DataWord
  <1>6. ASSUME NEW t \in TxRegisters, WriteTx(from, t), [Next]_vars, msg' = msg,
               snd' \in {"tfi", "tda", "tdb", "tr"},
               snd' \in {"tfi", "tda", "tdb", "tr"} => t.tid = msg.id,
               snd' \in {"tda", "tdb", "tr"} => t.tfi = InfoWritten(msg),
               snd' \in {"tdb", "tr"} => t.tda = WordA(msg),
               snd' = "tr" => t.tdb = WordB(msg)
        PROVE  DInv'
    <2>1. IInv' /\ UNCHANGED <<rx, sr, cmr, ier, irq>> /\ tx'[from] = t
      BY <1>1, <1>2, <1>6, NextIInv DEF WriteTx
    <2>2. DriverType'
      BY <1>1, <1>3, <1>6, <2>1 DEF DriverType, reader, handler
    <2>3. Drafted'
      BY <1>3, <1>6, <2>1 DEF Drafted, InfoWritten, WordA, WordB
    <2>4. Fresh' /\ Holding' /\ Carries(rx[to], last)'
      BY <1>1, <1>3, <2>1, ReaderKept
    <2>5. Enabled' /\ InterruptDue'
      BY <1>1, <1>3, <2>1, LinesKept
    <2>6. QED
      BY <2>1, <2>2, <2>3, <2>4, <2>5 DEF DInv
  <1>7. CASE snd = "call" /\ msg' \in Messages /\ snd' = "tid" /\ UNCHANGED vars
    <2>1. IInv' /\ UNCHANGED <<rx, sr, cmr, ier, irq>>
      BY <1>1, <1>7, NextIInv DEF vars
    <2>2. DriverType'
      BY <1>1, <1>3, <1>7, <2>1, CanDriverAssumption DEF DriverType, reader, handler
    <2>3. Drafted'
      BY <1>7 DEF Drafted
    <2>4. Fresh' /\ Holding' /\ Carries(rx[to], last)'
      BY <1>1, <1>3, <2>1, ReaderKept
    <2>5. Enabled' /\ InterruptDue'
      BY <1>1, <1>3, <2>1, LinesKept
    <2>6. QED
      BY <2>1, <2>2, <2>3, <2>4, <2>5 DEF DInv
  <1>8. CASE snd = "tid" /\ WriteTid(from, msg.id) /\ snd' = "tfi" /\ UNCHANGED msg
    <2> DEFINE t == [tx[from] EXCEPT !.tid = msg.id]
    <2>1. msg.id \in TidVals
      BY <1>4, CanDriverAssumption
    <2>2. Next
      BY <1>2, <1>8, <2>1, Zenon DEF Next
    <2>3. t \in TxRegisters /\ t.tid = msg.id
      BY <1>2, <1>4 DEF TxRegisters
    <2>4. WriteTx(from, t)
      BY <1>8 DEF WriteTid
    <2> HIDE DEF t
    <2>5. QED
      BY <1>6, <1>8, <2>2, <2>3, <2>4
  <1>9. CASE snd = "tfi" /\ WriteTfi(from, InfoWritten(msg)) /\ snd' = "tda" /\ UNCHANGED msg
    <2> DEFINE t == [tx[from] EXCEPT !.tfi = InfoWritten(msg)]
    <2>1. InfoWritten(msg) \in TfiVals
      BY <1>4, CanDriverAssumption
    <2>2. Next
      BY <1>2, <1>9, <2>1, Zenon DEF Next
    <2>3. t \in TxRegisters /\ t.tfi = InfoWritten(msg) /\ t.tid = tx[from].tid
      BY <1>2, <1>4 DEF TxRegisters
    <2>4. WriteTx(from, t)
      BY <1>9 DEF WriteTfi
    <2> HIDE DEF t
    <2>5. tx[from].tid = msg.id
      BY <1>1, <1>9 DEF Drafted
    <2>6. QED
      BY <1>6, <1>9, <2>2, <2>3, <2>4, <2>5
  <1>10. CASE snd = "tda" /\ WriteTda(from, WordA(msg)) /\ snd' = "tdb" /\ UNCHANGED msg
    <2> DEFINE t == [tx[from] EXCEPT !.tda = WordA(msg)]
    <2>1. WordA(msg) \in TdaVals
      BY <1>5, CanDriverAssumption
    <2>2. Next
      BY <1>2, <1>10, <2>1, Zenon DEF Next
    <2>3. /\ t \in TxRegisters /\ t.tda = WordA(msg)
          /\ t.tid = tx[from].tid /\ t.tfi = tx[from].tfi
      BY <1>2, <1>5 DEF TxRegisters
    <2>4. WriteTx(from, t)
      BY <1>10 DEF WriteTda
    <2> HIDE DEF t
    <2>5. tx[from].tid = msg.id /\ tx[from].tfi = InfoWritten(msg)
      BY <1>1, <1>10 DEF Drafted
    <2>6. QED
      BY <1>6, <1>10, <2>2, <2>3, <2>4, <2>5
  <1>11. CASE snd = "tdb" /\ WriteTdb(from, WordB(msg)) /\ snd' = "tr" /\ UNCHANGED msg
    <2> DEFINE t == [tx[from] EXCEPT !.tdb = WordB(msg)]
    <2>1. WordB(msg) \in TdbVals
      BY <1>5, CanDriverAssumption
    <2>2. Next
      BY <1>2, <1>11, <2>1, Zenon DEF Next
    <2>3. /\ t \in TxRegisters /\ t.tdb = WordB(msg)
          /\ t.tid = tx[from].tid /\ t.tfi = tx[from].tfi /\ t.tda = tx[from].tda
      BY <1>2, <1>5 DEF TxRegisters
    <2>4. WriteTx(from, t)
      BY <1>11 DEF WriteTdb
    <2> HIDE DEF t
    <2>5. /\ tx[from].tid = msg.id /\ tx[from].tfi = InfoWritten(msg)
          /\ tx[from].tda = WordA(msg)
      BY <1>1, <1>11 DEF Drafted
    <2>6. QED
      BY <1>6, <1>11, <2>2, <2>3, <2>4, <2>5
  <1>12. QED
    BY <1>7, <1>8, <1>9, <1>10, <1>11, Zenon DEF CAN_write

(* CAN_transmit fills the buffer of the reader; a message that was still   *)
(* there is replaced with DOS raised.                                      *)
LEMMA TransmitStep ==
  ASSUME DInv, CAN_transmit
  PROVE  DInv'
  <1>1. /\ IInv /\ DriverType /\ Drafted /\ Fresh /\ Holding /\ Enabled /\ InterruptDue
        /\ Carries(rx[to], last)
    BY DEF DInv
  <1>2. /\ from \in Node /\ to \in Node /\ from # to /\ to \in Peers(from)
        /\ cmr[from] \cup {TR} = {TR}
    BY <1>1, Ends DEF DriverType
  <1>3. /\ snd = "tr" /\ snd' = "call" /\ WriteCmr(from, {TR}) /\ set_irq_level
        /\ last' = msg /\ sent' = sent + 1
        /\ UNCHANGED <<from, msg, reader, handler>>
    BY <1>2 DEF CAN_transmit
  <1>4. /\ IInv' /\ cmr' = [m \in Node |-> {}] /\ UNCHANGED <<tx, ier>>
        /\ rx'[to] = RegistersOf(FrameOf(tx[from]))
        /\ RBS \in sr'[to]
        /\ RBS \in sr[to] \/ DOS \in sr[to] => DOS \in sr'[to]
    <2> DEFINE val == {TR}
    <2>1. val \in SUBSET {TR, RRB, CDO} /\ TR \in val /\ RRB \notin val /\ CDO \notin val
      BY DEF TR, RRB, CDO
    <2>2. WriteCmr(from, val)
      BY <1>3
    <2> HIDE DEF val
    <2>3. /\ IInv' /\ cmr' = [m \in Node |-> {}] /\ UNCHANGED <<tx, ier>>
          /\ rx'[to] = IF TR \in val /\ to \in Peers(from)
                         THEN RegistersOf(FrameOf(tx[from])) ELSE rx[to]
          /\ RBS \in sr'[to] <=> \/ TR \in val /\ to \in Peers(from)
                                 \/ RBS \in sr[to] /\ ~(to = from /\ RRB \in val)
          /\ DOS \in sr'[to] <=> \/ TR \in val /\ to \in Peers(from) /\ RBS \in sr[to]
                                 \/ DOS \in sr[to] /\ ~(to = from /\ CDO \in val)
      BY <1>1, <1>2, <2>1, <2>2, Commanded, Zenon
    <2>4. QED
      BY <1>2, <2>1, <2>3
  <1>5. InterruptDue' /\ Enabled' /\ pending' \in SUBSET Node
    BY <1>1, <1>3, <1>4, LineStep DEF handler
  <1>6. UNCHANGED <<rcv, ident, dlc, data, dropped, to, isr, line>>
    BY <1>3 DEF reader, handler, to
  <1>7. DriverType'
    <2>1. sent' \in Nat /\ last' \in Message /\ msg' \in Message
      BY <1>1, <1>3 DEF DriverType
    <2>2. QED
      BY <1>1, <1>3, <1>4, <1>5, <1>6, <2>1, Zenon DEF DriverType
  <1>8. Drafted'
    BY <1>3 DEF Drafted
  <1>9. Carries(rx[to], last)'
    <2>1. Carries(rx'[to], msg)
      BY <1>1, <1>3, <1>4, Arrives
    <2>2. QED
      BY <1>3, <1>6, <2>1 DEF Carries, ByteAt
  <1>10. Fresh'
    <2>1. sent \in Nat /\ dropped \in Nat /\ dropped <= sent
      BY <1>1 DEF DriverType, Fresh
    <2>2. QED
      BY <1>3, <1>6, <2>1 DEF Fresh, EachMessageOnce
  <1>11. Holding'
    <2>1. CASE rcv # "poll" /\ DOS \notin sr[to] /\ RIE \notin ier[to]
      BY <1>1, <1>4, <1>6, <2>1 DEF Holding
    <2>2. CASE ~(rcv # "poll" /\ DOS \notin sr[to] /\ RIE \notin ier[to])
      BY <1>4, <1>6, <2>2 DEF Holding
    <2>3. QED
      BY <2>1, <2>2
  <1>12. QED
    BY <1>4, <1>5, <1>7, <1>8, <1>9, <1>10, <1>11 DEF DInv

(* The reads of the reader change nothing but what it has read.            *)
LEMMA ReadStep ==
  ASSUME DInv, CAN_has_received \/ CAN_read_ID \/ CAN_read_data
  PROVE  DInv'
  <1>1. /\ IInv /\ DriverType /\ Drafted /\ Fresh /\ Holding /\ Enabled /\ InterruptDue
        /\ Carries(rx[to], last)
    BY DEF DInv
  <1>2. UNCHANGED <<vars, from, sender, dropped, handler, pending>>
    BY DEF CAN_has_received, CAN_read_ID, CAN_read_data
  <1>3. /\ UNCHANGED <<tx, rx, sr, cmr, ier, irq, from, to, snd, msg, last, sent, isr, line>>
        /\ UNCHANGED <<dropped, pending>>
    BY <1>2 DEF vars, sender, handler, to
  <1>4. IInv'
    BY <1>1, <1>2, NextIInv
  <1>5. Drafted' /\ Fresh' /\ Carries(rx[to], last)'
    BY <1>1, <1>3 DEF Drafted, InfoWritten, WordA, WordB, Fresh, EachMessageOnce, Carries, ByteAt
  <1>6. Enabled' /\ InterruptDue'
    BY <1>1, <1>2, <1>3, LinesKept
  <1>7. to \in Node /\ rx[to] \in RxRegisters
    BY <1>1, Ends DEF DriverType, IInv, TypeOK
  <1> DEFINE r == rx[to]
  <1>8. r.rfi.dlc \in 0..15 /\ \A i \in 1..8 : ByteAt(r, i) \in Byte
    <2>1. r.rfi.dlc \in 0..15 /\ r.rda \in [1..4 -> Byte] /\ r.rdb \in [1..4 -> Byte]
      BY <1>7 DEF RxRegisters, FrameInfo, DataWord
    <2> HIDE DEF r
    <2>2. ASSUME NEW i \in 1..8 PROVE ByteAt(r, i) \in Byte
      <3>1. CASE i <= 4
        BY <2>1, <3>1 DEF ByteAt
      <3>2. CASE ~(i <= 4)
        <4>1. i - 4 \in 1..4
          BY <3>2
        <4>2. QED
          BY <2>1, <3>2, <4>1 DEF ByteAt
      <3>3. QED
        BY <3>1, <3>2
    <2>3. QED
      BY <2>1, <2>2
  <1> HIDE DEF r
  <1>9. SUFFICES ASSUME TRUE
                 PROVE  /\ rcv' \in {"poll", "held", "id", "data"} /\ dlc' \in 0..15
                        /\ data' \in Seq(Byte)
                        /\ Holding'
    <2>1. ASSUME rcv' \in {"poll", "held", "id", "data"}, dlc' \in 0..15, data' \in Seq(Byte)
          PROVE  DriverType'
      BY <1>1, <1>3, <2>1 DEF DriverType
    <2>2. QED
      BY <1>4, <1>5, <1>6, <1>9, <2>1 DEF DInv
  <1>10. CASE CAN_has_received
    <2>1. /\ rcv' = "held" /\ ident' = << >> /\ dlc' = 0 /\ data' = << >> /\ RBS \in sr[to]
      BY <1>10 DEF CAN_has_received, Found
    <2>2. data' \in Seq(Byte) /\ Len(data') = 0 /\ 1..Len(data') = {}
      <3>1. << >> \in Seq(Byte) /\ Len(<< >>) = 0 /\ 1..0 = {}
        OBVIOUS
      <3>2. QED
        BY <2>1, <3>1
    <2>3. ReadFrom(rx[to])'
      <3>1. Len(data') <= dlc' /\ Len(data') <= 8
        BY <2>1, <2>2
      <3>2. QED
        BY <2>1, <2>2, <3>1, Zenon DEF ReadFrom
    <2>4. (RBS \in sr[to])'
      BY <1>3, <2>1
    <2>5. Holding'
      BY <2>3, <2>4, Zenon DEF Holding
    <2>6. QED
      BY <2>1, <2>2, <2>5
  <1>11. ASSUME rcv # "poll", ReadFrom(r) => ReadFrom(r)' PROVE Holding'
    BY <1>1, <1>3, <1>11 DEF Holding, r
  <1>12. r' = r
    BY <1>3 DEF r
  <1>13. CASE CAN_read_ID
    <2>1. UNCHANGED <<dlc, data>> /\ rcv \in {"held", "id"} /\ rcv' \in {"held", "id"}
      BY <1>13 DEF CAN_read_ID
    <2>2. \/ rcv = "held" /\ rcv' = "id" /\ ident' = ident
          \/ /\ rcv = "id" /\ rcv' = "held"
             /\ ident' = <<IF fmt = 1 THEN IDS(r.rid) ELSE IDE(r.rid)>>
      BY <1>13 DEF CAN_read_ID, r
    <2>3. ident' # << >> /\ ident' # ident =>
            ident'[1].low = r.rid.low /\ ident'[1].mid \in {0, r.rid.mid}
      <3> DEFINE w == IF fmt = 1 THEN IDS(r.rid) ELSE IDE(r.rid)
      <3>1. w.low = r.rid.low /\ w.mid \in {0, r.rid.mid}
        BY DEF IDS, IDE
      <3>2. ident' # ident => ident' = <<w>>
        BY <2>2
      <3> HIDE DEF w
      <3>3. <<w>>[1] = w
        OBVIOUS
      <3>4. QED
        BY <3>1, <3>2, <3>3
    <2>4. \A i : ByteAt(r, i)' = ByteAt(r, i)
      BY <1>12 DEF ByteAt
    <2>5. ReadFrom(r) /\ ident' # << >> =>
            (ident[1].low = r.rid.low /\ ident[1].mid \in {0, r.rid.mid})'
      <3>1. ident' = ident \/ ident' # ident
        OBVIOUS
      <3>2. QED
        BY <1>12, <2>3, <3>1 DEF ReadFrom
    <2>6. ReadFrom(r) => ReadFrom(r)'
      <3>1. rcv # "data" /\ rcv' # "data"
        BY <2>1
      <3>2. Shorter(dlc)' = Shorter(dlc)
        BY <2>1 DEF Shorter
      <3>3. QED
        BY <1>12, <2>1, <2>4, <2>5, <3>1, <3>2 DEF ReadFrom
    <2>7. Holding'
      BY <1>11, <2>1, <2>6
    <2>8. dlc' \in 0..15 /\ data' \in Seq(Byte)
      BY <1>1, <2>1 DEF DriverType
    <2>9. QED
      BY <2>1, <2>7, <2>8
  <1>14. CASE CAN_read_data
    <2>0. dlc \in 0..15 /\ data \in Seq(Byte) /\ Len(data) \in Nat /\ ident' = ident
      <3>1. dlc \in 0..15 /\ data \in Seq(Byte)
        BY <1>1 DEF DriverType
      <3>2. ident' = ident
        BY <1>14 DEF CAN_read_data
      <3>3. QED
        BY <3>1, <3>2
    <2>1. CASE rcv = "held" /\ dlc' = rx[to].rfi.dlc /\ data' = << >> /\ rcv' = "data"
      <3>1. dlc' = r.rfi.dlc /\ data' \in Seq(Byte) /\ Len(data') = 0
        BY <2>1 DEF r
      <3>2. ReadFrom(r) => ReadFrom(r)'
        <4>1. /\ (Len(data) <= dlc /\ Len(data) <= 8)'
              /\ (\A i \in 1..Len(data) : data[i] = ByteAt(r, i))'
          BY <1>8, <3>1
        <4>2. (dlc = r.rfi.dlc)' /\ rcv' = "data" /\ ident' = ident
          BY <1>12, <2>0, <2>1, <3>1
        <4>3. QED
          BY <1>12, <4>1, <4>2 DEF ReadFrom
      <3>3. QED
        BY <1>8, <1>11, <2>1, <3>1, <3>2
    <2>2. CASE /\ rcv = "data" /\ Len(data) < dlc /\ Len(data) < 8
               /\ data' = Append(data, ByteAt(rx[to], Len(data) + 1))
               /\ UNCHANGED <<rcv, dlc>>
      <3> DEFINE k == Len(data)
      <3>1. k + 1 \in 1..8 /\ k + 1 <= dlc
        BY <2>0, <2>2
      <3>2. ByteAt(r, k + 1) \in Byte /\ data' = Append(data, ByteAt(r, k + 1))
        BY <1>8, <2>2, <3>1 DEF r
      <3>3. /\ data' \in Seq(Byte) /\ Len(data') = k + 1
            /\ data'[k + 1] = ByteAt(r, k + 1) /\ \A i \in 1..k : data'[i] = data[i]
        BY <2>0, <3>2
      <3>4. \A i \in 1..(k + 1) : i \in 1..k \/ i = k + 1
        BY <2>0
      <3>5. ReadFrom(r) => \A i \in 1..(k + 1) : data'[i] = ByteAt(r, i)
        BY <3>3, <3>4 DEF ReadFrom
      <3> HIDE DEF k
      <3>6. ReadFrom(r) => (\A i \in 1..Len(data) : data[i] = ByteAt(r, i))'
        BY <1>12, <3>3, <3>5 DEF ByteAt
      <3>7. ReadFrom(r) => ReadFrom(r)'
        <4>1. (Len(data) <= dlc /\ Len(data) <= 8)'
          BY <2>0, <2>2, <3>1, <3>3
        <4>2. UNCHANGED <<rcv, dlc, ident, r>> /\ rcv = "data"
          BY <1>12, <2>0, <2>2
        <4>3. QED
          BY <3>6, <4>1, <4>2 DEF ReadFrom
      <3>8. QED
        BY <1>11, <2>0, <2>2, <3>3, <3>7
    <2>3. CASE /\ rcv = "data" /\ ~(Len(data) < dlc /\ Len(data) < 8)
               /\ rcv' = "held" /\ UNCHANGED <<dlc, data>>
      <3>1. ReadFrom(r) => Len(data) = Shorter(dlc)
        <4>1. ReadFrom(r) => Len(data) <= dlc /\ Len(data) <= 8
          BY DEF ReadFrom
        <4> DEFINE k == Len(data)
        <4>2. k \in Nat /\ dlc \in Nat /\ ~(k < dlc /\ k < 8)
          BY <2>0, <2>3
        <4> HIDE DEF k
        <4>3. k <= dlc /\ k <= 8 => k = Shorter(dlc)
          BY <4>2 DEF Shorter
        <4>4. QED
          BY <4>1, <4>3 DEF k
      <3>2. \A i : ByteAt(r, i)' = ByteAt(r, i)
        BY <1>12 DEF ByteAt
      <3>3. ReadFrom(r) => (Len(data) = Shorter(dlc))'
        BY <2>3, <3>1 DEF Shorter
      <3>4. ReadFrom(r) => ReadFrom(r)'
        BY <1>12, <2>0, <2>3, <3>2, <3>3 DEF ReadFrom
      <3>5. QED
        BY <1>11, <2>0, <2>3, <3>4
    <2>4. QED
      BY <1>14, <2>1, <2>2, <2>3, Zenon DEF CAN_read_data
  <1>15. QED
    BY <1>10, <1>13, <1>14

(* A command that only releases or clears, at controller n: no message     *)
(* appears, and no controller but n is touched.                            *)
LEMMA QuietCommand ==
  ASSUME DInv, NEW n \in Node, NEW val \in SUBSET {RRB, CDO},
         WriteCmr(n, val), set_irq_level, line' = line, isr' # "none" <=> isr # "none",
         UNCHANGED <<from, sender>>
  PROVE  /\ IInv' /\ cmr' = [m \in Node |-> {}] /\ UNCHANGED <<rx, ier>>
         /\ Drafted' /\ Carries(rx[to], last)' /\ Enabled' /\ InterruptDue'
         /\ pending' \in SUBSET Node
         /\ \A m \in Node :
              /\ RBS \in sr'[m] <=> RBS \in sr[m] /\ ~(m = n /\ RRB \in val)
              /\ DOS \in sr'[m] <=> DOS \in sr[m] /\ ~(m = n /\ CDO \in val)
  <1>1. /\ IInv /\ DriverType /\ Drafted /\ Enabled /\ InterruptDue /\ Carries(rx[to], last)
    BY DEF DInv
  <1>2. val \in SUBSET {TR, RRB, CDO} /\ TR \notin val
    BY DEF TR, RRB, CDO
  <1>3. /\ IInv' /\ cmr' = [m \in Node |-> {}] /\ UNCHANGED <<tx, ier>>
        /\ \A m \in Node :
             /\ rx'[m] = rx[m]
             /\ RBS \in sr'[m] <=> RBS \in sr[m] /\ ~(m = n /\ RRB \in val)
             /\ DOS \in sr'[m] <=> DOS \in sr[m] /\ ~(m = n /\ CDO \in val)
    BY <1>1, <1>2, Commanded, Zenon
  <1>4. rx' = rx
    <2>1. rx \in [Node -> RxRegisters] /\ rx' \in [Node -> RxRegisters]
      BY <1>1, <1>3 DEF IInv, TypeOK
    <2>2. \A m \in Node : rx'[m] = rx[m]
      BY <1>3, Zenon
    <2>3. QED
      BY <2>1, <2>2
  <1>5. InterruptDue' /\ Enabled' /\ pending' \in SUBSET Node
    BY <1>1, <1>3, LineStep
  <1>6. Drafted' /\ Carries(rx[to], last)'
    BY <1>1, <1>3, <1>4 DEF Drafted, InfoWritten, WordA, WordB, Carries, ByteAt, to, sender
  <1>7. QED
    BY <1>3, <1>4, <1>5, <1>6

(* The release ends the message; it is not found again.                    *)
LEMMA ReleaseStep ==
  ASSUME DInv, CAN_release_receive_buffer
  PROVE  DInv'
  <1>1. DriverType /\ Fresh /\ to \in Node /\ cmr[to] \cup {RRB} = {RRB}
    BY Ends DEF DInv, DriverType
  <1>2. /\ WriteCmr(to, {RRB}) /\ set_irq_level /\ rcv' = "poll" /\ dropped' = sent
        /\ UNCHANGED <<from, sender, fmt, ident, dlc, data, handler>>
    BY <1>1 DEF CAN_release_receive_buffer, ReleaseCommand
  <1>3. UNCHANGED <<to, snd, msg, last, sent, isr, line>>
    BY <1>2 DEF to, sender, handler
  <1>4. /\ IInv' /\ cmr' = [m \in Node |-> {}]
        /\ Drafted' /\ Carries(rx[to], last)' /\ Enabled' /\ InterruptDue'
        /\ pending' \in SUBSET Node /\ RBS \notin sr'[to]
    BY <1>1, <1>2, <1>3, QuietCommand
  <1>5. DriverType'
    BY <1>1, <1>2, <1>3, <1>4 DEF DriverType
  <1>6. Fresh' /\ Holding'
    <2>1. sent \in Nat
      BY <1>1 DEF DriverType
    <2>2. Holding'
      BY <1>2, Zenon DEF Holding
    <2>3. QED
      BY <1>2, <1>3, <1>4, <2>1, <2>2 DEF Fresh, EachMessageOnce
  <1>7. QED
    BY <1>4, <1>5, <1>6 DEF DInv

(* An overrun is cleared while no message is held.                         *)
LEMMA ClearStep ==
  ASSUME DInv, CAN_clear_data_overrun
  PROVE  DInv'
  <1>1. DriverType /\ Fresh /\ to \in Node /\ cmr[to] \cup {CDO} = {CDO}
    BY Ends DEF DInv, DriverType
  <1>2. /\ WriteCmr(to, {CDO}) /\ set_irq_level /\ rcv = "poll"
        /\ UNCHANGED <<from, sender, reader, handler>>
    BY <1>1 DEF CAN_clear_data_overrun
  <1>3. UNCHANGED <<to, snd, msg, last, sent, isr, line, rcv, dlc, data, dropped>>
    BY <1>2 DEF to, sender, handler, reader
  <1>4. /\ IInv' /\ cmr' = [m \in Node |-> {}]
        /\ Drafted' /\ Carries(rx[to], last)' /\ Enabled' /\ InterruptDue'
        /\ pending' \in SUBSET Node /\ (RBS \in sr'[to] => RBS \in sr[to])
    BY <1>1, <1>2, <1>3, QuietCommand
  <1>5. DriverType'
    BY <1>1, <1>2, <1>3, <1>4 DEF DriverType
  <1>6. Fresh' /\ Holding'
    BY <1>1, <1>2, <1>3, <1>4 DEF Fresh, EachMessageOnce, Holding
  <1>7. QED
    BY <1>4, <1>5, <1>6 DEF DInv

(* CAN_init enables interrupts and touches nothing else.                   *)
LEMMA InitStep ==
  ASSUME DInv, NEW n \in {can0, can1}, CAN_init(n)
  PROVE  DInv'
  <1>1. /\ IInv /\ DriverType /\ Drafted /\ Fresh /\ Holding /\ Enabled /\ InterruptDue
        /\ Carries(rx[to], last) /\ n \in Node /\ to \in Node
    BY Ends, CanAssumption, CanDriverAssumption DEF DInv, DriverType
  <1>2. /\ WriteIer(n, ier[n] \cup {RIE, DOIE}) /\ set_irq_level
        /\ UNCHANGED <<from, sender, reader, handler>>
    BY DEF CAN_init
  <1>3. /\ IInv' /\ UNCHANGED <<tx, rx, sr, cmr>>
        /\ \A m \in Node : RIE \in ier[m] => RIE \in ier'[m]
    BY <1>1, <1>2, IerWritten
  <1>4. UNCHANGED <<to, snd, msg, last, sent, isr, line, rcv, ident, dlc, data, dropped>>
    BY <1>2 DEF to, sender, handler, reader
  <1>5. InterruptDue' /\ Enabled' /\ pending' \in SUBSET Node
    BY <1>1, <1>2, <1>3, <1>4, LineStep
  <1>6. DriverType'
    BY <1>1, <1>2, <1>3, <1>4, <1>5 DEF DriverType
  <1>7. Drafted' /\ Fresh' /\ Carries(rx[to], last)'
    BY <1>1, <1>2, <1>3, <1>4 DEF Drafted, InfoWritten, WordA, WordB, Fresh, EachMessageOnce,
                                  Carries, ByteAt
  <1>8. Holding'
    BY <1>1, <1>3, <1>4 DEF Holding, ReadFrom, ByteAt
  <1>9. QED
    BY <1>3, <1>5, <1>6, <1>7, <1>8 DEF DInv

(* The handler releases the buffer of a controller whose receive interrupt *)
(* is on.                                                                  *)
LEMMA HandlerStep ==
  ASSUME DInv, Handler
  PROVE  DInv'
  <1>1. /\ IInv /\ DriverType /\ Drafted /\ Fresh /\ Holding /\ Enabled /\ InterruptDue
        /\ Carries(rx[to], last) /\ to \in Node
    BY Ends DEF DInv, DriverType
  <1>2. CASE armv7m_nvic_acknowledge_irq \/ armv7m_nvic_complete_irq
    <2>1. UNCHANGED <<vars, from, sender, reader>>
      BY <1>2 DEF armv7m_nvic_acknowledge_irq, armv7m_nvic_complete_irq
    <2>2. UNCHANGED <<tx, rx, sr, cmr, ier, irq, from, snd, msg, last, sent, rcv, dlc, data, dropped>>
      BY <2>1 DEF vars, sender, reader
    <2>3. IInv'
      BY <1>1, <2>1, NextIInv
    <2>4. irq[line] = 1 => line \in Node /\ RIE \in ier[line]
      BY <1>1 DEF IInv, IrqFollowsReceive, DriverType
    <2>5. InterruptDue' /\ Enabled' /\ DriverType'
      <3>1. CASE armv7m_nvic_acknowledge_irq
        BY <1>1, <2>2, <3>1 DEF armv7m_nvic_acknowledge_irq, InterruptDue, Enabled, DriverType
      <3>2. CASE armv7m_nvic_complete_irq
        BY <1>1, <2>2, <2>4, <3>2 DEF armv7m_nvic_complete_irq, InterruptDue, Enabled, DriverType
      <3>3. QED
        BY <1>2, <3>1, <3>2
    <2>6. Drafted'
      BY <1>1, <2>2 DEF Drafted, InfoWritten, WordA, WordB
    <2>7. Fresh' /\ Holding' /\ Carries(rx[to], last)'
      BY <1>1, <2>1, <2>2, ReaderKept
    <2>8. QED
      BY <2>3, <2>5, <2>6, <2>7 DEF DInv
  <1>3. CASE CAN_clear_interrupt
    <2>1. line \in Node /\ cmr[line] \cup {RRB, CDO} = {RRB, CDO} /\ RIE \in ier[line]
      BY <1>1, <1>3 DEF DriverType, Enabled, CAN_clear_interrupt
    <2>2. /\ WriteCmr(line, {RRB, CDO}) /\ set_irq_level /\ isr = "clear" /\ isr' = "print"
          /\ UNCHANGED <<from, sender, reader, line>>
      BY <1>3, <2>1 DEF CAN_clear_interrupt, ClearCommands
    <2>3. UNCHANGED <<to, snd, msg, last, sent, rcv, ident, dlc, data, dropped>>
      BY <2>2 DEF to, sender, reader
    <2>4. /\ IInv' /\ cmr' = [m \in Node |-> {}] /\ UNCHANGED <<rx, ier>>
          /\ Drafted' /\ Carries(rx[to], last)' /\ Enabled' /\ InterruptDue'
          /\ pending' \in SUBSET Node /\ (RBS \in sr'[to] => RBS \in sr[to])
          /\ to # line => (RBS \in sr[to] => RBS \in sr'[to]) /\ (DOS \in sr[to] => DOS \in sr'[to])
      BY <1>1, <2>1, <2>2, <2>3, QuietCommand
    <2>5. DriverType'
      BY <1>1, <2>2, <2>3, <2>4 DEF DriverType
    <2>6. Fresh'
      BY <1>1, <2>3, <2>4 DEF Fresh, EachMessageOnce
    <2>7. Holding'
      BY <1>1, <2>1, <2>3, <2>4 DEF Holding, ReadFrom, ByteAt
    <2>8. QED
      BY <2>4, <2>5, <2>6, <2>7 DEF DInv
  <1>4. QED
    BY <1>2, <1>3 DEF Handler

(* Every step of a task or of a handler preserves the invariant.           *)
LEMMA NextDInv ==
  ASSUME DInv, [DriverNext]_dvars
  PROVE  DInv'
  <1>1. CASE UNCHANGED dvars
    <2>1. UNCHANGED <<vars, from, sender, reader, handler, pending>>
      BY <1>1 DEF dvars
    <2>2. UNCHANGED <<tx, rx, sr, cmr, ier, irq, snd, msg, last, sent, rcv, dlc, data, dropped, isr, line>>
      BY <2>1 DEF vars, sender, reader, handler
    <2>3. IInv'
      BY <2>1, NextIInv DEF DInv
    <2>4. DriverType' /\ Drafted'
      <3>1. DriverType'
        BY <2>1, <2>2 DEF DInv, DriverType
      <3>2. Drafted'
        BY <2>1, <2>2 DEF DInv, Drafted, InfoWritten, WordA, WordB
      <3>3. QED
        BY <3>1, <3>2
    <2>5. Fresh' /\ Holding' /\ Carries(rx[to], last)'
      BY <2>1, <2>2, ReaderKept DEF DInv
    <2>6. Enabled' /\ InterruptDue'
      BY <2>1, <2>2, LinesKept DEF DInv
    <2>7. QED
      BY <2>3, <2>4, <2>5, <2>6 DEF DInv
  <1>2. CASE Sender
    BY <1>2, WriteStep, TransmitStep DEF Sender
  <1>3. CASE Reader
    BY <1>3, ReadStep, ReleaseStep, ClearStep DEF Reader
  <1>4. CASE Handler
    BY <1>4, HandlerStep
  <1>5. CASE \E n \in {can0, can1} : CAN_init(n)
    BY <1>5, InitStep
  <1>6. QED
    BY <1>1, <1>2, <1>3, <1>4, <1>5 DEF DriverNext

(* So it holds in every reachable state.                                   *)
LEMMA SpecDInv == DriverSpec => []DInv
  <1>1. DriverInit => DInv
    BY InitDInv
  <1>2. DInv /\ [DriverNext]_dvars => DInv'
    BY NextDInv
  <1>3. QED
    BY <1>1, <1>2, PTL DEF DriverSpec

-----------------------------------------------------------------------------
(* A reader that polls, reads in pieces and sees no overrun has read the   *)
(* last message that CAN_write was given, whatever arrived in between.     *)
THEOREM NoTornMessage == DriverSpec => []ReadIsSent
  <1>1. ASSUME DInv, rcv # "poll", DOS \notin sr[to], RIE \notin ier[to]
        PROVE  Agrees
    <2> DEFINE r == rx[to]
               k == Len(data)
    <2>1. ReadFrom(r) /\ Carries(r, last)
      BY <1>1 DEF DInv, Holding
    <2>2. data \in Seq(Byte) /\ k \in Nat /\ dlc \in 0..15 /\ DOMAIN data = 1..k
      BY <1>1 DEF DInv, DriverType
    <2> HIDE DEF r, k
    <2>3. dlc # 0 => dlc = r.rfi.dlc /\ dlc = last.dlc
      BY <2>1 DEF ReadFrom, Carries
    <2>4. ASSUME NEW i \in DOMAIN data PROVE data[i] = last.data[i]
      <3>1. i \in 1..k /\ k <= dlc /\ k <= 8
        BY <2>1, <2>2 DEF ReadFrom, k
      <3>2. i \in 1..8 /\ i <= dlc /\ dlc # 0
        BY <2>2, <3>1
      <3>3. data[i] = ByteAt(r, i)
        BY <2>1, <3>1 DEF ReadFrom, k
      <3>4. QED
        BY <2>1, <2>3, <3>2, <3>3 DEF Carries
    <2>5. rcv = "held" /\ dlc # 0 => Len(data) = Shorter(last.dlc)
      BY <2>1, <2>3 DEF ReadFrom
    <2>6. ident # << >> => /\ ident[1].low = last.id.low
                           /\ last.id.mid = 0 => ident[1].mid = 0
      BY <2>1 DEF ReadFrom, Carries
    <2>7. QED
      BY <2>3, <2>4, <2>5, <2>6 DEF Agrees
  <1>2. DInv => ReadIsSent
    BY <1>1 DEF ReadIsSent
  <1>3. QED
    BY <1>2, SpecDInv, PTL

(* CAN_has_received never answers 1 for a message that was released.       *)
THEOREM NoMessageTwice == DriverSpec => []EachMessageOnce
  <1>1. DInv => EachMessageOnce
    BY DEF DInv, Fresh
  <1>2. QED
    BY <1>1, SpecDInv, PTL

(* No interrupt of a controller is lost between its line and its handler.  *)
THEOREM NoInterruptLost == DriverSpec => []InterruptDue
  <1>1. DInv => InterruptDue
    BY DEF DInv
  <1>2. QED
    BY <1>1, SpecDInv, PTL

-----------------------------------------------------------------------------
(* The driver uses the controllers as their specification allows: every    *)
(* step of a task or of a handler is a register access of module Can, or   *)
(* touches no register.                                                    *)
LEMMA DriverStepsCan ==
  ASSUME DInv, [DriverNext]_dvars
  PROVE  [Next]_vars
  <1>1. /\ DriverType /\ from \in Node /\ to \in Node /\ msg \in Message
        /\ ier \in [Node -> SUBSET (0..3)]
    BY Ends DEF DInv, DriverType, IInv, TypeOK
  <1>2. ASSUME NEW n \in Node, NEW val \in SUBSET {TR, RRB, CDO},
               WriteCmr(n, cmr[n] \cup val)
        PROVE  Next
    <2>1. cmr[n] \cup val = val
      BY <1>1 DEF DriverType
    <2>2. val \in CmrVals
      BY CanDriverAssumption DEF TR, RRB, CDO
    <2>3. WriteCmr(n, val)
      BY <1>2, <2>1
    <2>4. QED
      BY <2>2, <2>3, Zenon DEF Next
  <1>3. CASE CAN_write
    <2>1. /\ msg.id \in TidVals /\ InfoWritten(msg) \in TfiVals
          /\ WordA(msg) \in TdaVals /\ WordB(msg) \in TdbVals
      <3>1. msg.id \in IdWord /\ InfoWritten(msg) \in FrameInfo
        BY <1>1 DEF Message, InfoWritten, FrameInfo
      <3>2. WordA(msg) \in DataWord /\ WordB(msg) \in DataWord
        BY <1>1 DEF Message, WordA, WordB, DataWord
      <3>3. QED
        BY <3>1, <3>2, CanDriverAssumption
    <2>2. \/ UNCHANGED vars
          \/ WriteTid(from, msg.id) \/ WriteTfi(from, InfoWritten(msg))
          \/ WriteTda(from, WordA(msg)) \/ WriteTdb(from, WordB(msg))
      BY <1>3, Zenon DEF CAN_write
    <2>3. QED
      BY <1>1, <2>1, <2>2, Zenon DEF Next
  <1>4. CASE CAN_transmit \/ CAN_release_receive_buffer \/ CAN_clear_data_overrun
    <2>1. /\ {TR} \in SUBSET {TR, RRB, CDO} /\ {RRB} \in SUBSET {TR, RRB, CDO}
          /\ {CDO} \in SUBSET {TR, RRB, CDO}
      OBVIOUS
    <2>2. \/ WriteCmr(from, cmr[from] \cup {TR}) \/ WriteCmr(to, cmr[to] \cup {RRB})
          \/ WriteCmr(to, cmr[to] \cup {CDO})
      BY <1>4, Zenon DEF CAN_transmit, CAN_release_receive_buffer, CAN_clear_data_overrun,
                  ReleaseCommand
    <2>3. QED
      BY <1>1, <1>2, <2>1, <2>2, Zenon
  <1>5. CASE CAN_clear_interrupt
    <2>1. ClearCommands \in SUBSET {TR, RRB, CDO} /\ line \in Node
      BY <1>1 DEF ClearCommands, DriverType
    <2>2. WriteCmr(line, cmr[line] \cup ClearCommands)
      BY <1>5 DEF CAN_clear_interrupt
    <2>3. QED
      BY <1>2, <2>1, <2>2, Zenon
  <1>6. ASSUME NEW n \in {can0, can1}, CAN_init(n) PROVE Next
    <2>1. n \in Node /\ ier[n] \cup {RIE, DOIE} \in IerVals
      BY <1>1, CanAssumption, CanDriverAssumption DEF RIE, DOIE
    <2>2. WriteIer(n, ier[n] \cup {RIE, DOIE})
      BY <1>6 DEF CAN_init
    <2>3. QED
      BY <2>1, <2>2, Zenon DEF Next
  <1>7. CASE \/ CAN_has_received \/ CAN_read_ID \/ CAN_read_data
             \/ armv7m_nvic_acknowledge_irq \/ armv7m_nvic_complete_irq \/ UNCHANGED dvars
    BY <1>7 DEF CAN_has_received, CAN_read_ID, CAN_read_data, armv7m_nvic_acknowledge_irq,
                armv7m_nvic_complete_irq, dvars
  <1>8. QED
    BY <1>3, <1>4, <1>5, <1>6, <1>7 DEF DriverNext, Sender, Reader, Handler

(* So the driver works with mailboxes: with sender, reader and handlers    *)
(* interleaved in any way, what CAN_transmit sends is what the other       *)
(* controller holds until it is released or replaced with DOS raised.      *)
THEOREM DriverWorksWithMailboxes == DriverSpec => ImplementsMailboxes
  <1>1. DInv /\ [DriverNext]_dvars => [Next]_vars
    BY DriverStepsCan
  <1>2. DriverInit => Init
    BY DEF DriverInit
  <1>3. DriverSpec => Spec
    BY <1>1, <1>2, SpecDInv, PTL DEF DriverSpec, Spec
  <1>4. QED
    BY <1>3, ControllersImplementMailboxes

-----------------------------------------------------------------------------
(* What a step does to the line, the pending bit and the handler of one    *)
(* controller: an edge, a fall, an entry or a return, as InterruptLine     *)
(* has them.                                                               *)
LEMMA LatchStep ==
  ASSUME DInv, [DriverNext]_dvars, NEW c \in Node
  PROVE  LET high == irq[c] = 1
             due == c \in pending
             runs == isr # "none" /\ line = c
         IN  \/ high' /\ (due' <=> due \/ ~high) /\ (runs' <=> runs)
             \/ ~high' /\ (due' <=> due) /\ (runs' <=> runs)
             \/ due /\ ~runs /\ ~due' /\ runs' /\ (high' <=> high)
             \/ runs /\ ~runs' /\ (due' <=> due \/ high) /\ (high' <=> high)
  <1>1. /\ DriverType /\ irq \in [Node -> {0, 1}]
    BY DEF DInv, IInv, TypeOK
  <1>2. irq' \in [Node -> {0, 1}]
    BY NextDInv DEF DInv, IInv, TypeOK
  <1>3. ASSUME set_irq_level, line' = line, isr' # "none" <=> isr # "none"
        PROVE  /\ (isr # "none" /\ line = c)' <=> (isr # "none" /\ line = c)
               /\ irq'[c] = 1 => (c \in pending' <=> c \in pending \/ ~(irq[c] = 1))
               /\ ~(irq'[c] = 1) => (c \in pending' <=> c \in pending)
    BY <1>1, <1>2, <1>3 DEF set_irq_level
  <1>4. CASE UNCHANGED <<irq, pending, isr, line>>
    BY <1>4
  <1>5. CASE /\ set_irq_level /\ line' = line /\ (isr' # "none" <=> isr # "none")
    BY <1>3, <1>5
  <1>6. CASE armv7m_nvic_acknowledge_irq
    <2>1. /\ isr = "none" /\ isr' = "clear" /\ line' \in pending
          /\ pending' = pending \ {line'} /\ irq' = irq
      BY <1>6 DEF armv7m_nvic_acknowledge_irq, vars
    <2>2. QED
      BY <2>1
  <1>7. CASE armv7m_nvic_complete_irq
    <2>1. /\ isr = "print" /\ isr' = "none" /\ line' = line /\ irq' = irq
          /\ pending' = pending \cup (IF irq[line] = 1 THEN {line} ELSE {})
      BY <1>7 DEF armv7m_nvic_complete_irq, vars
    <2>2. QED
      BY <2>1
  <1>8. CASE \/ CAN_write \/ CAN_has_received \/ CAN_read_ID \/ CAN_read_data
             \/ UNCHANGED dvars
    <2>1. UNCHANGED <<irq, pending, isr, line>>
      BY <1>8 DEF CAN_write, CAN_has_received, CAN_read_ID, CAN_read_data, dvars, vars,
                  handler, WriteTid, WriteTfi, WriteTda, WriteTdb, WriteTx
    <2>2. QED
      BY <1>4, <2>1
  <1>9. CASE \/ CAN_transmit \/ CAN_release_receive_buffer \/ CAN_clear_data_overrun
             \/ \E n \in {can0, can1} : CAN_init(n)
    <2>1. set_irq_level /\ UNCHANGED handler
      BY <1>9, Zenon DEF CAN_transmit, CAN_release_receive_buffer, CAN_clear_data_overrun, CAN_init
    <2>2. QED
      BY <1>5, <2>1 DEF handler
  <1>10. CASE CAN_clear_interrupt
    <2>1. set_irq_level /\ line' = line /\ isr = "clear" /\ isr' = "print"
      BY <1>10 DEF CAN_clear_interrupt
    <2>2. QED
      BY <1>5, <2>1
  <1>11. QED
    BY <1>6, <1>7, <1>8, <1>9, <1>10 DEF DriverNext, Sender, Reader, Handler

(* The interrupt of either controller is latched as the interrupt          *)
(* controller promises, whatever the tasks and the other handler do.       *)
THEOREM LinesAreLatched == DriverSpec => LinesLatch
  <1>1. can0 \in Node /\ can1 \in Node
    BY CanAssumption, CanDriverAssumption
  <1>2. DriverInit => Latch0!Init /\ Latch1!Init
    BY <1>1 DEF DriverInit, Init, Latch0!Init, Latch1!Init
  <1>3. DInv /\ [DriverNext]_dvars => [Latch0!Next]_Latch0!vars
    <2> SUFFICES ASSUME DInv, [DriverNext]_dvars PROVE Latch0!Next
      OBVIOUS
    <2> DEFINE high == irq[can0] = 1
               due == can0 \in pending
               runs == isr # "none" /\ line = can0
    <2>1. \/ high' /\ (due' <=> due \/ ~high) /\ (runs' <=> runs)
          \/ ~high' /\ (due' <=> due) /\ (runs' <=> runs)
          \/ due /\ ~runs /\ ~due' /\ runs' /\ (high' <=> high)
          \/ runs /\ ~runs' /\ (due' <=> due \/ high) /\ (high' <=> high)
      BY <1>1, LatchStep, Zenon
    <2>2. high' /\ (due' <=> due \/ ~high) /\ (runs' <=> runs) => Latch0!Rise
      BY DEF Latch0!Rise
    <2>3. ~high' /\ (due' <=> due) /\ (runs' <=> runs) => Latch0!Fall
      BY DEF Latch0!Fall
    <2>4. due /\ ~runs /\ ~due' /\ runs' /\ (high' <=> high) => Latch0!Take
      BY DEF Latch0!Take
    <2>5. runs /\ ~runs' /\ (due' <=> due \/ high) /\ (high' <=> high) => Latch0!Return
      BY DEF Latch0!Return
    <2> HIDE DEF high, due, runs
    <2>6. QED
      BY <2>1, <2>2, <2>3, <2>4, <2>5, Zenon DEF Latch0!Next
  <1>4. DInv /\ [DriverNext]_dvars => [Latch1!Next]_Latch1!vars
    <2> SUFFICES ASSUME DInv, [DriverNext]_dvars PROVE Latch1!Next
      OBVIOUS
    <2> DEFINE high == irq[can1] = 1
               due == can1 \in pending
               runs == isr # "none" /\ line = can1
    <2>1. \/ high' /\ (due' <=> due \/ ~high) /\ (runs' <=> runs)
          \/ ~high' /\ (due' <=> due) /\ (runs' <=> runs)
          \/ due /\ ~runs /\ ~due' /\ runs' /\ (high' <=> high)
          \/ runs /\ ~runs' /\ (due' <=> due \/ high) /\ (high' <=> high)
      BY <1>1, LatchStep, Zenon
    <2>2. high' /\ (due' <=> due \/ ~high) /\ (runs' <=> runs) => Latch1!Rise
      BY DEF Latch1!Rise
    <2>3. ~high' /\ (due' <=> due) /\ (runs' <=> runs) => Latch1!Fall
      BY DEF Latch1!Fall
    <2>4. due /\ ~runs /\ ~due' /\ runs' /\ (high' <=> high) => Latch1!Take
      BY DEF Latch1!Take
    <2>5. runs /\ ~runs' /\ (due' <=> due \/ high) /\ (high' <=> high) => Latch1!Return
      BY DEF Latch1!Return
    <2> HIDE DEF high, due, runs
    <2>6. QED
      BY <2>1, <2>2, <2>3, <2>4, <2>5, Zenon DEF Latch1!Next
  <1>5. QED
    BY <1>2, <1>3, <1>4, SpecDInv, PTL
       DEF DriverSpec, LinesLatch, Latch0!Spec, Latch1!Spec

-----------------------------------------------------------------------------
(* What a step can take out of the reader's buffer.                        *)
LEMMA BufferStep ==
  ASSUME DInv, [DriverNext]_dvars, RBS \in sr[to], RBS \notin sr'[to]
  PROVE  rcv = "held" \/ RIE \in ier[to]
  <1>1. /\ IInv /\ DriverType /\ Enabled
        /\ from \in Node /\ to \in Node /\ to # from /\ line \in Node
    BY Ends DEF DInv, DriverType
  <1>2. ASSUME NEW n \in Node, NEW val \in SUBSET {TR, RRB, CDO},
               WriteCmr(n, cmr[n] \cup val)
        PROVE  to = n /\ RRB \in val
    <2>1. cmr[n] \cup val = val
      BY <1>1 DEF DriverType
    <2>2. WriteCmr(n, val)
      BY <1>2, <2>1
    <2>3. RBS \in sr'[to] <=> \/ TR \in val /\ to \in Peers(n)
                              \/ RBS \in sr[to] /\ ~(to = n /\ RRB \in val)
      BY <1>1, <2>2, Commanded, Zenon
    <2>4. QED
      BY <2>3
  <1>3. CASE CAN_transmit
    <2>1. WriteCmr(from, cmr[from] \cup {TR}) /\ {TR} \in SUBSET {TR, RRB, CDO}
      BY <1>3 DEF CAN_transmit
    <2>2. QED
      BY <1>1, <1>2, <2>1, Zenon
  <1>4. CASE CAN_clear_data_overrun
    <2>1. WriteCmr(to, cmr[to] \cup {CDO}) /\ {CDO} \in SUBSET {TR, RRB, CDO}
      BY <1>4 DEF CAN_clear_data_overrun
    <2>2. RRB \notin {CDO}
      BY DEF RRB, CDO
    <2>3. QED
      BY <1>1, <1>2, <2>1, <2>2, Zenon
  <1>5. CASE CAN_clear_interrupt
    <2>1. WriteCmr(line, cmr[line] \cup ClearCommands) /\ isr = "clear"
      BY <1>5 DEF CAN_clear_interrupt
    <2>2. ClearCommands \in SUBSET {TR, RRB, CDO}
      BY DEF ClearCommands
    <2>3. to = line
      BY <1>1, <1>2, <2>1, <2>2, Zenon
    <2>4. QED
      BY <1>1, <2>1, <2>3 DEF Enabled
  <1>6. CASE CAN_release_receive_buffer
    BY <1>6 DEF CAN_release_receive_buffer
  <1>7. CASE \E n \in {can0, can1} : CAN_init(n)
    <2>1. UNCHANGED sr
      BY <1>1, <1>7, CanAssumption, CanDriverAssumption, IerWritten DEF CAN_init
    <2>2. QED
      BY <2>1 DEF to
  <1>8. CASE \/ CAN_write \/ CAN_has_received \/ CAN_read_ID \/ CAN_read_data
             \/ armv7m_nvic_acknowledge_irq \/ armv7m_nvic_complete_irq \/ UNCHANGED dvars
    <2>1. UNCHANGED <<sr, from>>
      BY <1>8 DEF CAN_write, CAN_has_received, CAN_read_ID, CAN_read_data, dvars, vars,
                  armv7m_nvic_acknowledge_irq, armv7m_nvic_complete_irq,
                  WriteTid, WriteTfi, WriteTda, WriteTdb, WriteTx
    <2>2. QED
      BY <2>1 DEF to
  <1>9. QED
    BY <1>3, <1>4, <1>5, <1>6, <1>7, <1>8 DEF DriverNext, Sender, Reader, Handler

(* What a step does to a message CAN_has_received polls for while the      *)
(* receive interrupt is off: it stays in the buffer.                       *)
Waits == RBS \in sr[to] /\ rcv = "poll" /\ RIE \notin ier[to] => RBS \in sr'[to]

(* A message waits for its reader: while CAN_has_received polls and the    *)
(* receive interrupt is off, no step of either task or of a handler of     *)
(* the other controller empties the buffer.                                *)
THEOREM MessageWaits == DriverSpec => [][Waits]_dvars
  <1>1. DInv /\ [DriverNext]_dvars => [Waits]_dvars
    <2> SUFFICES ASSUME DInv, [DriverNext]_dvars, RBS \in sr[to], rcv = "poll",
                        RIE \notin ier[to]
                 PROVE  RBS \in sr'[to]
      BY DEF Waits
    <2>1. QED
      BY BufferStep
  <1>2. QED
    BY <1>1, SpecDInv, PTL DEF DriverSpec

(* CAN_clear_interrupt ends the interrupt it was called for: the line of   *)
(* its controller is low after it.                                         *)
THEOREM ClearLowersTheLine == DriverSpec => [][CAN_clear_interrupt => irq'[line] = 0]_dvars
  <1>1. ASSUME DInv, [DriverNext]_dvars, CAN_clear_interrupt
        PROVE  irq'[line] = 0
    <2>1. /\ IInv /\ DriverType /\ line \in Node /\ isr = "clear"
      BY <1>1 DEF DInv, DriverType, CAN_clear_interrupt
    <2> DEFINE val == ClearCommands
    <2>2. val \in SUBSET {TR, RRB, CDO} /\ RRB \in val /\ TR \notin val
      BY DEF ClearCommands, TR, RRB, CDO
    <2>3. cmr[line] \cup val = val
      BY <2>1, <2>2 DEF DriverType
    <2>4. WriteCmr(line, val)
      BY <1>1, <2>3 DEF CAN_clear_interrupt
    <2> HIDE DEF val
    <2>5. IInv' /\ RBS \notin sr'[line]
      BY <2>1, <2>2, <2>4, Commanded, Zenon
    <2>6. irq'[line] \in {0, 1} /\ (irq'[line] = 1 => RBS \in sr'[line])
      BY <2>1, <2>5 DEF IInv, TypeOK, IrqFollowsReceive
    <2>7. QED
      BY <2>5, <2>6
  <1>2. QED
    BY <1>1, SpecDInv, PTL DEF DriverSpec
==============================================================================
