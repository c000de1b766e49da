------------------------------ MODULE CanDriver ------------------------------
(***************************************************************************)
(* The CAN driver of the demo (Demo/can.c) and its interrupt handlers      *)
(* (CAN0_Handler, CAN1_Handler in Demo/main.c) on top of the controllers   *)
(* of module Can.                                                          *)
(*                                                                         *)
(* One task sends through one controller and another task reads from the   *)
(* other one; nothing makes them take turns.  Every access to a device     *)
(* register is a step of its own, so a frame may arrive between any two    *)
(* accesses of the reader.  A handler preempts both tasks between any two  *)
(* accesses, and they stand still until it returns.  CMR |= x is one step: *)
(* no access ever leaves a bit in CMR, so its read always finds the same.  *)
(* So is IER |= x, because only CAN_init writes IER.                       *)
(***************************************************************************)
EXTENDS Can

CONSTANTS
  can0, can1,   \* the two controllers the driver knows
  Messages,     \* arguments of CAN_write
  MaxSent       \* bound on the messages that are sent

Message ==
  [id : IdWord, dlc : 0..15, ext : {0, 1}, rem : {0, 1}, data : [1..8 -> Byte]]

ASSUME CanDriverAssumption ==
  /\ can0 # can1 /\ {can0, can1} \subseteq OnBus
  /\ Messages \subseteq Message
  /\ MaxSent \in Nat
  /\ FrameInfo \subseteq TfiVals /\ IdWord \subseteq TidVals
  /\ DataWord \subseteq TdaVals /\ DataWord \subseteq TdbVals
  /\ SUBSET (0..3) \subseteq CmrVals /\ SUBSET (0..3) \subseteq IerVals

VARIABLES
  from,       \* the controller the sender uses
  snd,        \* what the sender does next
  msg,        \* the arguments of its last CAN_write
  last,       \* the arguments behind the last frame it sent
  sent,       \* how many frames it sent
  rcv,        \* what the reader does next
  fmt,        \* the FF bit CAN_read_ID has read
  ident,      \* << >>, or the identifier read since the message was found
  dlc,        \* the length code CAN_read_data has read
  data,       \* the bytes read so far
  dropped,    \* sent, when the reader last released its buffer
  isr,        \* what the handler does next; "none" while none is active
  line,       \* the controller whose handler is active
  pending     \* the controllers whose interrupt is pending

to == IF from = can0 THEN can1 ELSE can0

sender == <<snd, msg, last, sent>>
reader == <<rcv, fmt, ident, dlc, data, dropped>>
handler == <<isr, line>>
dvars == <<vars, from, sender, reader, handler, pending>>

NoMessage ==
  [id |-> [top |-> 0, mid |-> 0, low |-> 0], dlc |-> 0, ext |-> 0, rem |-> 0,
   data |-> [i \in 1..8 |-> 0]]

DriverInit ==
  /\ Init
  /\ from \in {can0, can1}
  /\ snd = "call" /\ msg = NoMessage /\ last = NoMessage /\ sent = 0
  /\ rcv = "poll" /\ fmt = 0 /\ ident = << >> /\ dlc = 0 /\ data = << >>
  /\ dropped = 0
  /\ isr = "none" /\ line = can0 /\ pending = {}

(* The interrupt controller: pending is latched when a line rises.         *)
set_irq_level_Never == UNCHANGED pending
set_irq_level == pending' = pending \cup {n \in Node : irq[n] = 0 /\ irq'[n] = 1}

TasksRun == isr = "none"

-----------------------------------------------------------------------------
(* CAN_init: IER |= RIE | DOIE, after the line is enabled in the interrupt *)
(* controller.                                                             *)
CAN_init(n) ==
  /\ TasksRun /\ snd = "call"
  /\ WriteIer(n, ier[n] \cup {RIE, DOIE})
  /\ set_irq_level
  /\ UNCHANGED <<from, sender, reader, handler>>

(* CAN_write: TID, TFI, TDA, TDB, in this order.  The branch of CAN1       *)
(* writes neither the frame format nor the remote bit.                     *)
InfoWritten(m) ==
  IF from = can0 THEN [ff |-> m.ext, rtr |-> m.rem, dlc |-> m.dlc]
                 ELSE [ff |-> 0, rtr |-> 0, dlc |-> m.dlc]

WordA(m) == [i \in 1..4 |-> m.data[i]]
WordB(m) == [i \in 1..4 |-> m.data[i + 4]]

CAN_write ==
  /\ TasksRun
  /\ \/ snd = "call" /\ sent < MaxSent /\ msg' \in Messages /\ snd' = "tid" /\ UNCHANGED vars
     \/ snd = "tid" /\ WriteTid(from, msg.id) /\ snd' = "tfi" /\ UNCHANGED msg
     \/ snd = "tfi" /\ WriteTfi(from, InfoWritten(msg)) /\ snd' = "tda" /\ UNCHANGED msg
     \/ snd = "tda" /\ WriteTda(from, WordA(msg)) /\ snd' = "tdb" /\ UNCHANGED msg
     \/ snd = "tdb" /\ WriteTdb(from, WordB(msg)) /\ snd' = "tr" /\ UNCHANGED msg
  /\ UNCHANGED <<from, last, sent, reader, handler, pending>>

(* CAN_transmit: CMR |= TR.                                                *)
CAN_transmit ==
  /\ TasksRun
  /\ snd = "tr"
  /\ WriteCmr(from, cmr[from] \cup {TR})
  /\ set_irq_level
  /\ snd' = "call" /\ last' = msg /\ sent' = sent + 1
  /\ UNCHANGED <<from, msg, reader, handler>>

-----------------------------------------------------------------------------
(* The reader polls CAN_has_received until it answers 1; then it reads the *)
(* message with CAN_read_ID and CAN_read_data and releases the buffer.     *)
Found_Overrun == DOS \in sr[to]
Found == RBS \in sr[to]

CAN_has_received ==
  /\ TasksRun
  /\ rcv = "poll" /\ Found
  /\ rcv' = "held" /\ ident' = << >> /\ dlc' = 0 /\ data' = << >>
  /\ UNCHANGED <<vars, from, sender, fmt, dropped, handler, pending>>

CAN_read_ID ==
  /\ TasksRun
  /\ \/ rcv = "held" /\ fmt' = rx[to].rfi.ff /\ rcv' = "id" /\ UNCHANGED ident
     \/ /\ rcv = "id" /\ rcv' = "held" /\ UNCHANGED fmt
        /\ ident' = <<IF fmt = 1 THEN IDS(rx[to].rid) ELSE IDE(rx[to].rid)>>
  /\ UNCHANGED <<vars, from, sender, dlc, data, dropped, handler, pending>>

(* The length code, then one access to RDA or RDB for every byte.          *)
ByteAt(r, i) == IF i <= 4 THEN r.rda[i] ELSE r.rdb[i - 4]

CAN_read_data ==
  /\ TasksRun
  /\ \/ rcv = "held" /\ dlc' = rx[to].rfi.dlc /\ data' = << >> /\ rcv' = "data"
     \/ /\ rcv = "data" /\ Len(data) < dlc /\ Len(data) < 8
        /\ data' = Append(data, ByteAt(rx[to], Len(data) + 1))
        /\ UNCHANGED <<rcv, dlc>>
     \/ /\ rcv = "data" /\ ~(Len(data) < dlc /\ Len(data) < 8)
        /\ rcv' = "held" /\ UNCHANGED <<dlc, data>>
  /\ UNCHANGED <<vars, from, sender, fmt, ident, dropped, handler, pending>>

ReleaseCommand_Overrun == CDO
ReleaseCommand == RRB

CAN_release_receive_buffer ==
  /\ TasksRun
  /\ rcv = "held"
  /\ WriteCmr(to, cmr[to] \cup {ReleaseCommand})
  /\ set_irq_level
  /\ rcv' = "poll" /\ dropped' = sent
  /\ UNCHANGED <<from, sender, fmt, ident, dlc, data, handler>>

(* CAN_read_status_bit(DOS) changes nothing; the reader clears an overrun  *)
(* only while it holds no message.                                         *)
CAN_clear_data_overrun ==
  /\ TasksRun
  /\ rcv = "poll" /\ DOS \in sr[to]
  /\ WriteCmr(to, cmr[to] \cup {CDO})
  /\ set_irq_level
  /\ UNCHANGED <<from, sender, reader, handler>>

-----------------------------------------------------------------------------
(* CANx_Handler: CAN_clear_interrupt, print, return.                       *)
armv7m_nvic_acknowledge_irq ==
  /\ isr = "none"
  /\ line' \in pending /\ isr' = "clear" /\ pending' = pending \ {line'}
  /\ UNCHANGED <<vars, from, sender, reader>>

ClearCommands_OnlyOverrun == {CDO}
ClearCommands == {RRB, CDO}

CAN_clear_interrupt ==
  /\ isr = "clear"
  /\ WriteCmr(line, cmr[line] \cup ClearCommands)
  /\ set_irq_level
  /\ isr' = "print"
  /\ UNCHANGED <<from, sender, reader, line>>

armv7m_nvic_complete_irq ==
  /\ isr = "print" /\ isr' = "none"
  /\ pending' = pending \cup (IF irq[line] = 1 THEN {line} ELSE {})
  /\ UNCHANGED <<vars, from, sender, reader, line>>

-----------------------------------------------------------------------------
Sender == CAN_write \/ CAN_transmit

Reader ==
  \/ CAN_has_received
  \/ CAN_read_ID
  \/ CAN_read_data
  \/ CAN_release_receive_buffer
  \/ CAN_clear_data_overrun

Handler ==
  \/ armv7m_nvic_acknowledge_irq
  \/ CAN_clear_interrupt
  \/ armv7m_nvic_complete_irq

DriverNext == Sender \/ Reader \/ Handler \/ \E n \in {can0, can1} : CAN_init(n)

(* The scheduler runs every ready task, and the processor takes pending    *)
(* interrupts.  How often a task reads a message is its own affair: only   *)
(* the poll is fair.                                                       *)
DriverSpec ==
  /\ DriverInit /\ [][DriverNext]_dvars
  /\ WF_dvars(CAN_has_received) /\ WF_dvars(Handler)

-----------------------------------------------------------------------------
(* What the reader has got so far is what the sender passed to CAN_write:  *)
(* the bytes, their number, and an identifier of at most 11 bits.          *)
Agrees ==
  /\ \A i \in DOMAIN data : data[i] = last.data[i]
  /\ dlc # 0 => dlc = last.dlc
  /\ rcv = "held" /\ dlc # 0 => Len(data) = Shorter(last.dlc)
  /\ ident # << >> => ident[1].low = last.id.low
  /\ ident # << >> /\ last.id.mid = 0 => ident[1].mid = 0

(* A message is read in many accesses, and released in one more; frames    *)
(* may arrive between any two.  Unless DOS is set by the time the reader   *)
(* looks, what it has read so far, piece by piece, is the last message     *)
(* sent, so the release drops nothing that was not read.  The handler,     *)
(* which also releases, breaks this, so it holds for a reader whose        *)
(* receive interrupt is off.                                               *)
ReadIsSent == rcv # "poll" /\ DOS \notin sr[to] /\ RIE \notin ier[to] => Agrees

(* CAN_has_received answers 1 only for a message that was sent after the   *)
(* reader last released its buffer: none is read twice.                    *)
EachMessageOnce == RBS \in sr[to] => sent > dropped

(* An interrupt that is due is not lost: while a line is high, its handler *)
(* runs or is about to.                                                    *)
InterruptDue ==
  \A n \in Node : irq[n] = 1 => n \in pending \/ (isr # "none" /\ line = n)

(* The line of either controller, its handler and its pending bit are an   *)
(* InterruptLine, the promise that Nvic keeps for every line, although a   *)
(* single command of one controller can move the lines of both and the     *)
(* handler of one keeps that of the other waiting.                         *)
Latch0 == INSTANCE InterruptLine WITH
  level <- irq[can0] = 1, pending <- can0 \in pending,
  active <- isr # "none" /\ line = can0
Latch1 == INSTANCE InterruptLine WITH
  level <- irq[can1] = 1, pending <- can1 \in pending,
  active <- isr # "none" /\ line = can1

LinesLatch == Latch0!Spec /\ Latch1!Spec

(* CAN_clear_interrupt ends the interrupt: no line stays high.             *)
InterruptEnds == \A n \in Node : irq[n] = 1 ~> irq[n] = 0

(* A message in the receive buffer ends the poll of the reader; only a     *)
(* handler can take it away before.                                        *)
MessageSeen == RBS \in sr[to] ~> (rcv # "poll" \/ RIE \in ier[to])
=============================================================================
