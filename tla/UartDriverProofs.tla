-------------------------- MODULE UartDriverProofs --------------------------
(***************************************************************************)
(* Theorems about the UART driver and its handler on the device, for any   *)
(* number of characters in either direction.                               *)
(***************************************************************************)
EXTENDS UartDriver, UartProofs

DriverTypes ==
  /\ task \in {"control", "divisor", "call", "tx_wait", "tx_put", "rx_wait", "rx_get"}
  /\ isr \in {"none", "rd", "wr", "tx_wait", "tx_put", "ret"}
  /\ copy \in SUBSET Bits
  /\ pending \in {0, 1}
  /\ sent \in 0..MaxChar
  /\ arrived \in 0..MaxChar
  /\ got \in 0..MaxChar
  /\ torn \in {0, 1}
  /\ preempted \in {0, 1}

(* Who may rely on TRDY: between the handler's two accesses an untorn copy *)
(* is the status itself; the handler's test of TRDY holds until its write, *)
(* and the task's until the handler comes in between.                      *)
Flow ==
  /\ HangsOnlyIfTorn
  /\ OverrunNeedsPreemption
  /\ isr = "wr" /\ torn = 0 => copy = status
  /\ isr = "wr" /\ TOE \in copy => preempted = 1
  /\ isr = "tx_put" => TRDY \in status
  /\ task = "tx_put" /\ preempted = 0 => TRDY \in status /\ isr = "none"

(* The received characters in the order of their numbers: returned, in     *)
(* RXDATA, in the shift register.                                          *)
RxOrder ==
  /\ got <= rxdata /\ rxdata <= arrived
  /\ RRDY \in status => got < rxdata
  /\ isr = "wr" /\ RRDY \in copy => got < rxdata
  /\ task = "rx_get" => got < rxdata
  /\ rx_timer = "armed" => rx_shift_register = arrived /\ rxdata < arrived
  /\ can_receive = 1 => rx_timer = "idle"
  /\ UnreadIsVisible

(* The written characters in the order of their numbers: on the line, in   *)
(* the shift register, in TXDATA.                                          *)
TxOrder ==
  /\ txdata.lo = sent
  /\ line.ch <= tx_shift_register /\ tx_shift_register <= sent
  /\ tx_timer = "armed" => line.ch < tx_shift_register \/ torn = 1
  /\ TRDY \notin status => tx_shift_register < sent \/ torn = 1

DInv == IInv /\ DriverTypes /\ Flow /\ RxOrder /\ TxOrder /\ InterruptDue

(* Every step of the driver is a step of the device, or none.              *)
LEMMA DriverStepsDevice ==
  ASSUME DInv, DriverNext
  PROVE  AnyNext \/ UNCHANGED vars
<1>. USE DEF AnyNext, DeviceNext
<1>1. CASE Arrives
  <2>1. arrived + 1 \in Char
    BY <1>1, DriverAssumption DEF Arrives, DInv, DriverTypes
  <2>. QED
    BY <1>1, <2>1 DEF Arrives
<1>2. CASE RxFires \/ TxFires
  BY <1>2 DEF RxFires, TxFires
<1>3. CASE UART_init
  BY <1>3, DriverAssumption DEF UART_init
<1>4. CASE Call \/ armv7m_nvic_acknowledge_irq \/ armv7m_nvic_complete_irq
  BY <1>4 DEF Call, armv7m_nvic_acknowledge_irq, armv7m_nvic_complete_irq
<1>5. ASSUME Put PROVE AnyNext
  <2>1. [hi |-> ZeroHi, lo |-> sent + 1] \in Word
    BY <1>5, DriverAssumption, UartAssumption DEF Put, DInv, DriverTypes, Word
  <2>. QED
    BY <1>5, <2>1 DEF Put
<1>6. CASE UART_printf \/ HandlerPrints
  BY <1>5, <1>6 DEF UART_printf, HandlerPrints
<1>7. CASE UART_getchar
  BY <1>7 DEF UART_getchar, GetRxdata
<1>8. CASE UART_clear_interrupt
  <2>1. Cleared(copy) \in SUBSET Bits
    BY DEF DInv, DriverTypes, Cleared
  <2>. QED
    BY <1>8, <2>1 DEF UART_clear_interrupt
<1>. QED
  BY <1>1, <1>2, <1>3, <1>4, <1>6, <1>7, <1>8 DEF DriverNext, Software

(* The device invariant holds under the driver.                            *)
LEMMA DriverIInv == DInv /\ [DriverNext]_dvars => IInv'
<1>. SUFFICES ASSUME DInv, [DriverNext]_dvars PROVE IInv'
  OBVIOUS
<1>1. AnyNext \/ UNCHANGED vars
  BY DriverStepsDevice DEF dvars
<1>. QED
  BY <1>1, NextIInv DEF DInv
(* The line that rises leaves the interrupt pending.                       *)
LEMMA DueKept ==
  ASSUME DInv, IInv', set_irq_level, isr' = isr \/ isr' # "none"
  PROVE  InterruptDue' /\ pending' \in {0, 1}
BY DEF DInv, IInv, TypeOK, set_irq_level, InterruptDue, DriverTypes

(* A character enters the receive shift register.                          *)
LEMMA ArrivesDInv ==
  ASSUME DInv, IInv', Arrives
  PROVE  DInv'
<1>1. InterruptDue' /\ pending' \in {0, 1}
  BY DueKept DEF Arrives, software
<1>2. DriverTypes'
  BY <1>1, DriverAssumption DEF DInv, DriverTypes, Arrives, software
<1>3. Flow' /\ TxOrder'
  BY DEF DInv, DriverTypes, Flow, TxOrder, HangsOnlyIfTorn, OverrunNeedsPreemption,
     TxBusyHasTimer, Arrives, uart_receive, software
<1>4. RxOrder'
  BY DriverAssumption DEF DInv, DriverTypes, IInv, TypeOK, RxOrder, UnreadIsVisible,
     Arrives, uart_receive, software
<1>. QED
  BY <1>1, <1>2, <1>3, <1>4 DEF DInv

(* The receive timer fires.                                                *)
LEMMA RxFiresDInv ==
  ASSUME DInv, IInv', RxFires
  PROVE  DInv'
<1>. USE DEF ErrorBits, PE, FE, BRK, ROE, TOE, TMT, TRDY, RRDY, E, WithE, ArrivalBit
<1>1. InterruptDue' /\ pending' \in {0, 1}
  BY DueKept DEF RxFires, software
<1>2. DriverTypes'
  BY <1>1 DEF DInv, DriverTypes, RxFires, Torn, software
<1>3. status' = WithE(status \cup {ArrivalBit})
  BY StatusTimeoutRx DEF DInv, RxFires
<1>4. Flow' /\ TxOrder'
  BY <1>3 DEF DInv, DriverTypes, Flow, TxOrder, HangsOnlyIfTorn, OverrunNeedsPreemption,
     TxBusyHasTimer, RxFires, timeout_rx, Torn, software
<1>5. RxOrder'
  BY <1>3, DriverAssumption DEF DInv, DriverTypes, IInv, TypeOK, RxOrder, UnreadIsVisible,
     RxFires, timeout_rx, Torn, software
<1>. QED
  BY <1>1, <1>2, <1>4, <1>5 DEF DInv

(* The transmit timer fires.                                               *)
LEMMA TxFiresDInv ==
  ASSUME DInv, IInv', TxFires
  PROVE  DInv'
<1>. USE DEF ErrorBits, PE, FE, BRK, ROE, TOE, TMT, TRDY, RRDY, E, WithE, CharWaiting
<1>1. InterruptDue' /\ pending' \in {0, 1}
  BY DueKept DEF TxFires, software
<1>2. DriverTypes'
  BY <1>1 DEF DInv, DriverTypes, TxFires, Torn, software
<1>3. /\ TRDY \notin status => /\ status' = WithE((status \ {TMT}) \cup {TRDY})
                               /\ tx_timer' = "armed"
                               /\ tx_shift_register' = txdata.lo
      /\ TRDY \in status => /\ status' = WithE(status \cup {TMT})
                            /\ tx_timer' = "idle"
                            /\ tx_shift_register' = tx_shift_register
      /\ line'.ch = tx_shift_register
  BY StatusTimeoutTx DEF DInv, TxFires, timeout_tx, Shift, LowByte
<1>4. Flow'
  BY <1>3 DEF DInv, DriverTypes, Flow, HangsOnlyIfTorn, OverrunNeedsPreemption,
     TxBusyHasTimer, TxFires, timeout_tx, Torn, software
<1>5. TxOrder'
  BY <1>3, DriverAssumption DEF DInv, DriverTypes, IInv, TypeOK, TxOrder, TxFires,
     timeout_tx, Torn, software, Word
<1>6. RxOrder'
  BY <1>3 DEF DInv, DriverTypes, RxOrder, UnreadIsVisible, TxFires, timeout_tx, Torn, software
<1>. QED
  BY <1>1, <1>2, <1>4, <1>5, <1>6 DEF DInv

(* A write to TXDATA, by the task or by the handler.  The writer found     *)
(* TRDY set, unless it is a task that was preempted.                       *)
LEMMA PutStep ==
  ASSUME DInv, Put
  PROVE  /\ TMT \in status => /\ status' = WithE((status \ {TMT}) \cup {TRDY})
                              /\ tx_timer' = "armed"
                              /\ tx_shift_register' = sent + 1
         /\ TMT \notin status /\ TRDY \in status => status' = status \ {TRDY}
         /\ TMT \notin status /\ TRDY \notin status => status' = WithE(status \cup {TOE})
         /\ TMT \notin status => UNCHANGED <<tx_timer, tx_shift_register>>
         /\ txdata' = [hi |-> ZeroHi, lo |-> sent + 1]
         /\ sent' = sent + 1 /\ sent' \in 0..MaxChar
         /\ UNCHANGED <<rxdata, rx_timer, rx_shift_register, can_receive, line>>
<1>. DEFINE w == [hi |-> ZeroHi, lo |-> sent + 1]
<1>1. w \in Word
  BY DriverAssumption, UartAssumption DEF Put, DInv, DriverTypes, Word
<1>2. WriteTxdata(w) /\ sent' = sent + 1 /\ sent' \in 0..MaxChar /\ w.lo = sent + 1
  BY DriverAssumption DEF Put, DInv, DriverTypes
<1>. HIDE DEF w
<1>3. IInv
  BY DEF DInv
<1>4. /\ TMT \in status => tx_shift_register' = w.lo
      /\ TMT \notin status => UNCHANGED <<tx_timer, tx_shift_register>>
      /\ txdata' = w
      /\ UNCHANGED <<rxdata, rx_timer, rx_shift_register, can_receive, line>>
  BY <1>2 DEF WriteTxdata, Shift, LowByte
<1>. QED
  BY <1>1, <1>2, <1>3, <1>4, StatusWriteTxdata DEF w

(* What a write to TXDATA keeps: all that does not depend on who wrote.    *)
LEMMA PutKeeps ==
  ASSUME DInv, IInv', Put, UNCHANGED <<copy, arrived, got, torn, preempted>>, isr' # "wr",
         task' # "rx_get" \/ UNCHANGED task
  PROVE  HangsOnlyIfTorn' /\ RxOrder' /\ TxOrder'
<1>. USE DEF ErrorBits, PE, FE, BRK, ROE, TOE, TMT, TRDY, RRDY, E, WithE
<1>1. HangsOnlyIfTorn'
  BY PutStep DEF DInv, Flow, HangsOnlyIfTorn, TxBusyHasTimer
<1>2. RxOrder'
  BY PutStep DEF DInv, RxOrder, UnreadIsVisible
<1>3. TxOrder'
  <2>1. TxOrder /\ sent \in Int /\ tx_shift_register \in Int /\ line.ch \in Int
    BY DriverAssumption DEF DInv, DriverTypes, IInv, TypeOK
  <2>2. txdata'.lo = sent + 1 /\ sent' = sent + 1 /\ line' = line /\ torn' = torn
    BY PutStep
  <2>3. CASE TMT \in status
    <3>1. TRDY \in status' /\ tx_shift_register' = sent + 1
      BY <2>3, PutStep
    <3>. QED
      BY <2>1, <2>2, <3>1 DEF TxOrder
  <2>4. CASE TMT \notin status
    <3>1. UNCHANGED <<tx_timer, tx_shift_register>>
      BY <2>4, PutStep
    <3>. QED
      BY <2>1, <2>2, <3>1 DEF TxOrder
  <2>. QED
    BY <2>3, <2>4
<1>. QED
  BY <1>1, <1>2, <1>3

(* The task prints.                                                        *)
LEMMA PrintfDInv ==
  ASSUME DInv, IInv', UART_printf
  PROVE  DInv'
<1>. USE DEF ErrorBits, PE, FE, BRK, ROE, TOE, TMT, TRDY, RRDY, E, WithE
<1>1. CASE task = "tx_wait" /\ MayPut /\ task' = "tx_put" /\ UNCHANGED <<vars, pending, sent>>
  BY <1>1 DEF UART_printf, TaskRuns, MayPut, vars, DInv, DriverTypes, Flow, RxOrder, TxOrder,
     InterruptDue, HangsOnlyIfTorn, OverrunNeedsPreemption, UnreadIsVisible, TxBusyHasTimer
<1>2. CASE task = "tx_put" /\ Put /\ task' = "call"
  <2>1. InterruptDue' /\ pending' \in {0, 1}
    BY <1>2, DueKept DEF UART_printf, Put
  <2>2. DriverTypes'
    BY <1>2, <2>1, PutStep DEF UART_printf, DInv, DriverTypes
  <2>3. HangsOnlyIfTorn' /\ RxOrder' /\ TxOrder'
    BY <1>2, PutKeeps DEF UART_printf, TaskRuns
  <2>4. Flow'
    BY <1>2, <2>3, PutStep DEF UART_printf, TaskRuns, DInv, DriverTypes, Flow,
       OverrunNeedsPreemption
  <2>. QED
    BY <2>1, <2>2, <2>3, <2>4 DEF DInv
<1>. QED
  BY <1>1, <1>2 DEF UART_printf

(* The handler prints.                                                     *)
LEMMA HandlerPrintsDInv ==
  ASSUME DInv, IInv', HandlerPrints
  PROVE  DInv'
<1>. USE DEF ErrorBits, PE, FE, BRK, ROE, TOE, TMT, TRDY, RRDY, E, WithE
<1>1. CASE /\ isr = "tx_wait" /\ MayPut /\ UNCHANGED <<vars, pending, sent>>
           /\ isr' = IF sent < MaxChar THEN "tx_put" ELSE "ret"
  BY <1>1 DEF HandlerPrints, MayPut, vars, DInv, DriverTypes, Flow, RxOrder, TxOrder,
     InterruptDue, HangsOnlyIfTorn, OverrunNeedsPreemption, UnreadIsVisible, TxBusyHasTimer
<1>2. CASE isr = "tx_put" /\ Put /\ isr' \in {"tx_wait", "ret"}
  <2>1. InterruptDue' /\ pending' \in {0, 1}
    BY <1>2, DueKept DEF HandlerPrints, Put
  <2>2. DriverTypes'
    BY <1>2, <2>1, PutStep DEF HandlerPrints, DInv, DriverTypes
  <2>3. HangsOnlyIfTorn' /\ RxOrder' /\ TxOrder'
    BY <1>2, PutKeeps DEF HandlerPrints
  <2>4. Flow'
    BY <1>2, <2>3, PutStep DEF HandlerPrints, DInv, DriverTypes, Flow, OverrunNeedsPreemption
  <2>. QED
    BY <2>1, <2>2, <2>3, <2>4 DEF DInv
<1>. QED
  BY <1>1, <1>2 DEF HandlerPrints

(* The task reads a character.                                             *)
LEMMA GetcharDInv ==
  ASSUME DInv, IInv', UART_getchar
  PROVE  DInv'
<1>. USE DEF ErrorBits, PE, FE, BRK, ROE, TOE, TMT, TRDY, RRDY, E
<1>1. CASE task = "rx_wait" /\ MayGet /\ task' = "rx_get" /\ UNCHANGED <<vars, pending, got>>
  BY <1>1 DEF UART_getchar, TaskRuns, MayGet, vars, DInv, DriverTypes, Flow, RxOrder, TxOrder,
     InterruptDue, HangsOnlyIfTorn, OverrunNeedsPreemption, UnreadIsVisible, TxBusyHasTimer
<1>2. CASE GetRxdata
  <2>1. InterruptDue' /\ pending' \in {0, 1}
    BY <1>2, DueKept DEF UART_getchar, GetRxdata
  <2>2. DriverTypes'
    BY <1>2, <2>1, DriverAssumption DEF UART_getchar, GetRxdata, DInv, DriverTypes, IInv, TypeOK
  <2>3. status' = status \ {RRDY}
    BY <1>2, StatusReadRxdata DEF GetRxdata, DInv
  <2>4. Flow' /\ TxOrder'
    BY <1>2, <2>3 DEF UART_getchar, TaskRuns, GetRxdata, ReadRxdata, DInv, DriverTypes, Flow,
       TxOrder, HangsOnlyIfTorn, OverrunNeedsPreemption, TxBusyHasTimer
  <2>5. RxOrder'
    BY <1>2, <2>3, DriverAssumption DEF UART_getchar, TaskRuns, GetRxdata, ReadRxdata, DInv,
       DriverTypes, IInv, TypeOK, RxOrder, UnreadIsVisible
  <2>. QED
    BY <2>1, <2>2, <2>4, <2>5 DEF DInv
<1>. QED
  BY <1>1, <1>2 DEF UART_getchar

(* The handler clears ROE in two accesses.                                 *)
LEMMA ClearDInv ==
  ASSUME DInv, IInv', UART_clear_interrupt
  PROVE  DInv'
<1>. USE DEF ErrorBits, PE, FE, BRK, ROE, TOE, TMT, TRDY, RRDY, E
<1>1. CASE isr = "rd" /\ copy' = status /\ isr' = "wr" /\ UNCHANGED <<vars, pending>>
  <2>. USE <1>1 DEF UART_clear_interrupt, vars
  <2>1. DriverTypes' /\ InterruptDue'
    BY DEF DInv, IInv, TypeOK, DriverTypes, InterruptDue
  <2>2. Flow'
    BY DEF DInv, Flow, HangsOnlyIfTorn, OverrunNeedsPreemption, TxBusyHasTimer
  <2>3. RxOrder'
    BY DEF DInv, RxOrder, UnreadIsVisible
  <2>4. TxOrder'
    BY DEF DInv, TxOrder
  <2>. QED
    BY <2>1, <2>2, <2>3, <2>4 DEF DInv
<1>2. CASE /\ isr = "wr" /\ WriteStatus(Cleared(copy)) /\ set_irq_level
           /\ isr' = "tx_wait" /\ UNCHANGED copy
  <2>1. InterruptDue' /\ pending' \in {0, 1}
    BY <1>2, DueKept
  <2>2. DriverTypes'
    BY <1>2, <2>1 DEF UART_clear_interrupt, DInv, DriverTypes
  <2>3. status' = copy \ {ROE}
    <3>1. Cleared(copy) \in SUBSET Bits /\ Cleared(copy) = copy \ {ROE}
      BY DEF DInv, DriverTypes, Cleared
    <3>. QED
      BY <1>2, <3>1, StatusWriteStatus DEF DInv
  <2>4. Flow' /\ TxOrder'
    BY <1>2, <2>3 DEF UART_clear_interrupt, WriteStatus, DInv, DriverTypes, Flow, TxOrder,
       HangsOnlyIfTorn, OverrunNeedsPreemption, TxBusyHasTimer
  <2>5. RxOrder'
    BY <1>2, <2>3 DEF UART_clear_interrupt, WriteStatus, DInv, DriverTypes, Flow, RxOrder,
       UnreadIsVisible
  <2>. QED
    BY <2>1, <2>2, <2>4, <2>5 DEF DInv
<1>. QED
  BY <1>1, <1>2 DEF UART_clear_interrupt

(* UART_init leaves the traffic alone.                                     *)
LEMMA InitStepDInv ==
  ASSUME DInv, IInv', UART_init
  PROVE  DInv'
<1>1. InterruptDue' /\ pending' \in {0, 1}
  BY DueKept DEF UART_init
<1>2. status' = status
  BY DEF UART_init, WriteControl, WriteDivisor, SetFlags, CheckInterrupt, Flags,
     check_and_set_interrupt, check_and_clear_interrupt
<1>3. UNCHANGED <<rxdata, txdata, tx_shift_register, rx_shift_register, can_receive, rx_timer,
                  tx_timer, line>>
  BY DEF UART_init, WriteControl, WriteDivisor
<1>4. DriverTypes'
  BY <1>1 DEF UART_init, DInv, DriverTypes
<1>5. Flow' /\ RxOrder' /\ TxOrder'
  BY <1>2, <1>3 DEF UART_init, TaskRuns, DInv, DriverTypes, Flow, RxOrder, TxOrder,
     HangsOnlyIfTorn, OverrunNeedsPreemption, UnreadIsVisible, TxBusyHasTimer
<1>. QED
  BY <1>1, <1>4, <1>5 DEF DInv

(* Calls, and entry to and return from the handler, leave the device       *)
(* alone.                                                                  *)
LEMMA ControlDInv ==
  ASSUME DInv, IInv',
         Call \/ armv7m_nvic_acknowledge_irq \/ armv7m_nvic_complete_irq \/ UNCHANGED dvars
  PROVE  DInv'
<1>. USE DEF vars, DInv, DriverTypes, Flow, RxOrder, TxOrder, InterruptDue, HangsOnlyIfTorn,
         OverrunNeedsPreemption, UnreadIsVisible, TxBusyHasTimer
<1>1. CASE Call
  <2>1. DriverTypes'
    BY <1>1 DEF Call, TaskRuns
  <2>2. Flow'
    BY <1>1 DEF Call, TaskRuns
  <2>3. RxOrder'
    BY <1>1 DEF Call, TaskRuns
  <2>4. TxOrder'
    BY <1>1 DEF Call, TaskRuns
  <2>5. InterruptDue'
    BY <1>1 DEF Call, TaskRuns
  <2>6. QED
    BY <2>1, <2>2, <2>3, <2>4, <2>5
<1>2. CASE armv7m_nvic_acknowledge_irq
  <2>1. DriverTypes'
    BY <1>2 DEF armv7m_nvic_acknowledge_irq
  <2>2. Flow'
    BY <1>2 DEF armv7m_nvic_acknowledge_irq
  <2>3. RxOrder'
    BY <1>2 DEF armv7m_nvic_acknowledge_irq
  <2>4. TxOrder'
    BY <1>2 DEF armv7m_nvic_acknowledge_irq
  <2>5. InterruptDue'
    BY <1>2 DEF armv7m_nvic_acknowledge_irq
  <2>6. QED
    BY <2>1, <2>2, <2>3, <2>4, <2>5
<1>3. CASE armv7m_nvic_complete_irq
  <2>1. DriverTypes'
    BY <1>3 DEF armv7m_nvic_complete_irq, Repended
  <2>2. Flow'
    BY <1>3 DEF armv7m_nvic_complete_irq, Repended
  <2>3. RxOrder'
    BY <1>3 DEF armv7m_nvic_complete_irq, Repended
  <2>4. TxOrder'
    BY <1>3 DEF armv7m_nvic_complete_irq, Repended
  <2>5. InterruptDue'
    BY <1>3 DEF armv7m_nvic_complete_irq, Repended
  <2>6. QED
    BY <2>1, <2>2, <2>3, <2>4, <2>5
<1>4. CASE UNCHANGED dvars
  BY <1>4 DEF dvars, software
<1>. QED
  BY <1>1, <1>2, <1>3, <1>4

(* The invariant holds in every reachable state of driver and device.      *)
THEOREM DriverInvariant == DriverSpec => []DInv
<1>1. DriverInit => DInv
  <2>. SUFFICES ASSUME DriverInit PROVE DInv
    OBVIOUS
  <2>1. IInv
    BY InitIInv DEF DriverInit
  <2>2. DriverTypes
    BY DriverAssumption DEF DriverInit, DriverTypes
  <2>3. Flow /\ RxOrder /\ TxOrder /\ InterruptDue
    BY DriverAssumption DEF DriverInit, Init, Flow, RxOrder, TxOrder, InterruptDue,
       HangsOnlyIfTorn, OverrunNeedsPreemption, UnreadIsVisible, TxBusyHasTimer, TMT, TRDY,
       TOE, RRDY
  <2>. QED
    BY <2>1, <2>2, <2>3 DEF DInv
<1>2. DInv /\ [DriverNext]_dvars => DInv'
  <2>. SUFFICES ASSUME DInv, [DriverNext]_dvars PROVE DInv'
    OBVIOUS
  <2>1. IInv'
    BY DriverIInv
  <2>. QED
    BY <2>1, ArrivesDInv, RxFiresDInv, TxFiresDInv, PrintfDInv, HandlerPrintsDInv, GetcharDInv,
       ClearDInv, InitStepDInv, ControlDInv DEF DriverNext, Software
<1>. QED
  BY <1>1, <1>2, PTL DEF DriverSpec

(* Only a torn clear of ROE can hang the transmitter.                      *)
THEOREM OnlyTornHangs == DriverSpec => []HangsOnlyIfTorn
<1>1. DInv => HangsOnlyIfTorn
  BY DEF DInv, Flow
<1>. QED
  BY DriverInvariant, <1>1, PTL

(* Only a preempted task overwrites a character in TXDATA.                 *)
THEOREM OnlyPreemptionOverruns == DriverSpec => []OverrunNeedsPreemption
<1>1. DInv => OverrunNeedsPreemption
  BY DEF DInv, Flow
<1>. QED
  BY DriverInvariant, <1>1, PTL

(* Only a torn clear of ROE hides a received character.                    *)
THEOREM OnlyTornHides == DriverSpec => []UnreadIsVisible
<1>1. DInv => UnreadIsVisible
  BY DEF DInv, RxOrder
<1>. QED
  BY DriverInvariant, <1>1, PTL

(* A high line is always about to be handled.                              *)
THEOREM NoInterruptLost == DriverSpec => []InterruptDue
<1>1. DInv => InterruptDue
  BY DEF DInv
<1>. QED
  BY DriverInvariant, <1>1, PTL

(* UART_getchar returns every character at most once and in order.         *)
THEOREM ReadsAreNew == DriverSpec => EachReadIsNew
<1>1. DInv => (GetRxdata => rxdata > got)
  BY DriverAssumption DEF DInv, IInv, TypeOK, DriverTypes, RxOrder, GetRxdata
<1>. QED
  BY DriverInvariant, <1>1, PTL DEF EachReadIsNew

(* Characters leave in the order in which they were written.               *)
THEOREM OutputInOrder == DriverSpec => LineInOrder
<1>1. DInv => (TxFires => \/ tx_shift_register > line.ch
                          \/ tx_shift_register = line.ch /\ torn = 1)
  BY DriverAssumption DEF DInv, IInv, TypeOK, DriverTypes, TxOrder, TxFires, timeout_tx
<1>. QED
  BY DriverInvariant, <1>1, PTL DEF LineInOrder

-----------------------------------------------------------------------------
(* While no clear was torn the driver is disciplined software: its one     *)
(* write to STATUS takes ROE away and nothing else.                        *)
LEMMA UntornIsDisciplined ==
  ASSUME DInv, [DriverNext]_dvars, torn = 0
  PROVE  DisciplinedNext \/ UNCHANGED vars
<1>1. CASE UART_clear_interrupt
  <2>1. CASE UNCHANGED vars
    BY <2>1
  <2>2. CASE isr = "wr" /\ WriteStatus(Cleared(copy))
    <3>1. copy = status
      BY <2>2 DEF DInv, Flow
    <3>2. {ROE} \in SUBSET (ErrorBits \cup {E}) /\ WriteStatus(status \ {ROE})
      BY <2>2, <3>1 DEF Cleared, ErrorBits
    <3>3. ClearErrors
      BY <3>2, Zenon DEF ClearErrors
    <3>. QED
      BY <3>3 DEF DisciplinedNext
  <2>. QED
    BY <1>1, <2>1, <2>2 DEF UART_clear_interrupt
<1>2. CASE Arrives
  <2>1. arrived + 1 \in Char
    BY <1>2, DriverAssumption DEF Arrives, DInv, DriverTypes
  <2>. QED
    BY <1>2, <2>1 DEF Arrives, DisciplinedNext, DeviceNext
<1>3. CASE RxFires \/ TxFires
  BY <1>3 DEF RxFires, TxFires, DisciplinedNext, DeviceNext
<1>4. CASE UART_init
  BY <1>4, DriverAssumption DEF UART_init, DisciplinedNext, DeviceNext
<1>5. ASSUME Put PROVE DisciplinedNext
  <2>1. [hi |-> ZeroHi, lo |-> sent + 1] \in Word
    BY <1>5, DriverAssumption, UartAssumption DEF Put, DInv, DriverTypes, Word
  <2>. QED
    BY <1>5, <2>1 DEF Put, DisciplinedNext, DeviceNext
<1>6. CASE UART_printf \/ HandlerPrints
  BY <1>5, <1>6 DEF UART_printf, HandlerPrints
<1>7. CASE UART_getchar
  BY <1>7 DEF UART_getchar, GetRxdata, DisciplinedNext, DeviceNext
<1>8. CASE \/ Call \/ armv7m_nvic_acknowledge_irq \/ armv7m_nvic_complete_irq
           \/ UNCHANGED dvars
  BY <1>8 DEF Call, armv7m_nvic_acknowledge_irq, armv7m_nvic_complete_irq, dvars
<1>. QED
  BY <1>1, <1>2, <1>3, <1>4, <1>6, <1>7, <1>8 DEF DriverNext, Software

(* A torn clear stays on record.                                           *)
LEMMA TornStays ==
  ASSUME DInv, [DriverNext]_dvars, torn' = 0
  PROVE  torn = 0
BY DEF DInv, DriverTypes, DriverNext, Software, Arrives, RxFires, TxFires, Torn, UART_init, Call,
       UART_printf, UART_getchar, armv7m_nvic_acknowledge_irq, UART_clear_interrupt,
       HandlerPrints, armv7m_nvic_complete_irq, dvars

(* Until a clear is torn, the flags the driver polls agree with the timers *)
(* of the device: no wait on TRDY or RRDY is for an event that cannot      *)
(* come.                                                                   *)
THEOREM FlagsAgreeUntilTorn == DriverSpec => [](torn = 0 => FlagsMatchTimers)
<1>1. DriverInit => (torn = 0 => FlagsMatchTimers)
  BY DEF DriverInit, Init, FlagsMatchTimers, TxBusyHasTimer, TmtMeansSent, TMT, TRDY
<1>2. DInv /\ (torn = 0 => FlagsMatchTimers) /\ [DriverNext]_dvars
        => (torn = 0 => FlagsMatchTimers)'
  <2>. SUFFICES ASSUME DInv, torn = 0 => FlagsMatchTimers, [DriverNext]_dvars, torn' = 0
                PROVE  FlagsMatchTimers'
    OBVIOUS
  <2>1. torn = 0
    BY TornStays
  <2>. QED
    BY <2>1, UntornIsDisciplined, FlagsStep DEF DInv
<1>. QED
  BY <1>1, <1>2, DriverInvariant, PTL DEF DriverSpec

(* Until a clear is torn, the program sees a serial port: whatever the     *)
(* order of characters, timers, task and handler, every step is one of     *)
(* the port, so characters leave and arrive in order and none is lost      *)
(* without TOE or ROE being raised.                                        *)
THEOREM DriverHasAPort == DriverSpec => PortUntilTorn
<1>1. DriverInit => Port!Init
  BY PortInit DEF DriverInit
<1>2. DInv /\ (torn = 0 => FlagsMatchTimers) /\ [DriverNext]_dvars
        => [torn = 0 => Port!Next \/ UNCHANGED Port!vars]_dvars
  <2>. SUFFICES ASSUME DInv, FlagsMatchTimers, [DriverNext]_dvars, torn = 0
                PROVE  Port!Next \/ UNCHANGED Port!vars
    OBVIOUS
  <2>. QED
    BY UntornIsDisciplined, PortStep DEF DInv
<1>. QED
  BY <1>1, <1>2, DriverInvariant, FlagsAgreeUntilTorn, PTL DEF DriverSpec, PortUntilTorn

-----------------------------------------------------------------------------
(* What a step does to line, pending bit and handler: an edge, a fall, an  *)
(* entry or a return.                                                      *)
LEMMA LatchStep ==
  ASSUME DInv, [DriverNext]_dvars
  PROVE  LET high == irq = 1
             due == pending = 1
             runs == isr # "none"
         IN  \/ high' /\ (due' <=> due \/ ~high) /\ (runs' <=> runs)
             \/ ~high' /\ (due' <=> due) /\ (runs' <=> runs)
             \/ due /\ ~runs /\ ~due' /\ runs' /\ (high' <=> high)
             \/ runs /\ ~runs' /\ (due' <=> due \/ high) /\ (high' <=> high)
<1>1. irq \in {0, 1} /\ irq' \in {0, 1} /\ pending \in {0, 1}
  BY DriverIInv DEF DInv, IInv, TypeOK, DriverTypes
<1>2. CASE set_irq_level /\ (isr' # "none" <=> isr # "none")
  BY <1>1, <1>2 DEF set_irq_level
<1>3. CASE UNCHANGED <<irq, pending>> /\ (isr' # "none" <=> isr # "none")
  BY <1>1, <1>3
<1>4. CASE armv7m_nvic_acknowledge_irq
  BY <1>4 DEF armv7m_nvic_acknowledge_irq, vars
<1>5. CASE armv7m_nvic_complete_irq
  BY <1>1, <1>5 DEF armv7m_nvic_complete_irq, Repended, vars
<1>6. CASE Arrives \/ RxFires \/ TxFires \/ UART_init
  BY <1>2, <1>6 DEF Arrives, RxFires, TxFires, UART_init, software
<1>7. CASE UART_printf \/ UART_getchar
  BY <1>2, <1>3, <1>7 DEF UART_printf, UART_getchar, Put, GetRxdata, vars
<1>8. CASE UART_clear_interrupt \/ HandlerPrints
  BY <1>2, <1>3, <1>8 DEF UART_clear_interrupt, HandlerPrints, Put, vars
<1>9. CASE Call \/ UNCHANGED dvars
  BY <1>3, <1>9 DEF Call, dvars, vars, software
<1>. QED
  BY <1>4, <1>5, <1>6, <1>7, <1>8, <1>9 DEF DriverNext, Software

(* The UART's interrupt is latched as the interrupt controller promises.   *)
THEOREM LineIsLatched == DriverSpec => LineLatches
<1>1. DriverInit => Latch!Init
  BY DEF DriverInit, Init, Latch!Init
<1>2. ASSUME DInv, [DriverNext]_dvars PROVE Latch!Next
  <2>1. Latch!Rise \/ Latch!Fall \/ Latch!Take \/ Latch!Return
    BY <1>2, LatchStep DEF Latch!Rise, Latch!Fall, Latch!Take, Latch!Return
  <2>. QED
    BY <2>1 DEF Latch!Next
<1>. QED
  BY <1>1, <1>2, DriverInvariant, PTL DEF DriverSpec, LineLatches, Latch!Spec

(* The driver enables no interrupt but that of ROE.                        *)
LEMMA OnlyRoeInterrupts == DriverSpec => [](control \subseteq {ROE})
<1>1. DriverInit => control \subseteq {ROE}
  BY DEF DriverInit, Init
<1>2. ASSUME control \subseteq {ROE}, [DriverNext]_dvars PROVE (control \subseteq {ROE})'
  <2>1. CASE UART_init
    BY <1>2, <2>1 DEF UART_init, WriteControl, WriteDivisor
  <2>2. CASE Arrives \/ RxFires \/ TxFires
    BY <1>2, <2>2 DEF Arrives, RxFires, TxFires, uart_receive, timeout_rx, timeout_tx
  <2>3. CASE UART_printf \/ UART_getchar \/ UART_clear_interrupt \/ HandlerPrints
    BY <1>2, <2>3 DEF UART_printf, UART_getchar, UART_clear_interrupt, HandlerPrints, Put,
                      GetRxdata, WriteTxdata, ReadRxdata, WriteStatus, vars
  <2>4. CASE Call \/ armv7m_nvic_acknowledge_irq \/ armv7m_nvic_complete_irq \/ UNCHANGED dvars
    BY <1>2, <2>4 DEF Call, armv7m_nvic_acknowledge_irq, armv7m_nvic_complete_irq, dvars, vars
  <2>. QED
    BY <1>2, <2>1, <2>2, <2>3, <2>4 DEF DriverNext, Software
<1>. QED
  BY <1>1, <1>2, PTL DEF DriverSpec

(* The handler ends the interrupt it was called for: the write of          *)
(* UART_clear_interrupt, torn or not, leaves ROE clear and the line low.   *)
THEOREM ClearLowersTheLine ==
  DriverSpec => [][UART_clear_interrupt /\ isr = "wr" => ROE \notin status' /\ irq' = 0]_dvars
<1>1. ASSUME DInv, control \subseteq {ROE}, [DriverNext]_dvars, UART_clear_interrupt, isr = "wr"
      PROVE  ROE \notin status' /\ irq' = 0
  <2>1. WriteStatus(Cleared(copy))
    BY <1>1 DEF UART_clear_interrupt
  <2>2. status' = copy \ {ROE} /\ control' = control
    BY <2>1 DEF WriteStatus, SetFlags, CheckInterrupt, check_and_set_interrupt,
                check_and_clear_interrupt, Cleared
  <2>3. irq' \in {0, 1} /\ (irq' = 1 <=> control' \cap status' # {})
    BY <1>1, DriverIInv DEF IInv, TypeOK, IrqIsLevel
  <2>. QED
    BY <1>1, <2>2, <2>3
<1>. QED
  BY <1>1, DriverInvariant, OnlyRoeInterrupts, PTL DEF DriverSpec

-----------------------------------------------------------------------------
(* The characters are dense: the numbers on the line, in the shift         *)
(* register, in TXDATA follow each other with no gap while no clear was    *)
(* torn and no task preempted between its test and its write, and so do    *)
(* always those in RXDATA and in the receive shift register.               *)
TxDense ==
  torn = 0 /\ preempted = 0 =>
    /\ IF TMT \in status THEN tx_shift_register = line.ch ELSE tx_shift_register = line.ch + 1
    /\ IF TRDY \in status THEN sent = tx_shift_register ELSE sent = tx_shift_register + 1

RxDense ==
  IF can_receive = 1 THEN rxdata = arrived ELSE rx_timer = "armed" /\ rxdata + 1 = arrived

(* Steps that do not touch the transmitter keep it dense.                  *)
LEMMA TxQuiet ==
  ASSUME TxDense, UNCHANGED <<tx_shift_register, line, sent>>,
         TMT \in status' <=> TMT \in status, TRDY \in status' <=> TRDY \in status,
         torn' = 0 => torn = 0, preempted' = 0 => preempted = 0
  PROVE  TxDense'
BY DEF TxDense

(* A write to TXDATA that found TRDY set adds the next number.             *)
LEMMA TxPut ==
  ASSUME DInv, TxDense, torn = 0 => FlagsMatchTimers, Put, TRDY \in status \/ preempted = 1,
         UNCHANGED <<torn, preempted>>
  PROVE  TxDense'
<1>. SUFFICES ASSUME torn = 0, preempted = 0 PROVE TxDense'
  BY DEF TxDense
<1>0. TRDY \in status
  BY DEF DInv, DriverTypes
<1>1. /\ IF TMT \in status THEN tx_shift_register = line.ch ELSE tx_shift_register = line.ch + 1
      /\ sent = tx_shift_register
  BY <1>0 DEF TxDense
<1>2. line' = line /\ sent' = sent + 1
  BY PutStep
<1>3. CASE TMT \in status
  <2>1. status' = WithE((status \ {TMT}) \cup {TRDY}) /\ tx_shift_register' = sent + 1
    BY <1>3, PutStep
  <2>2. TMT \notin status' /\ TRDY \in status'
    BY <2>1 DEF WithE, ErrorBits, PE, FE, BRK, ROE, TOE, TMT, TRDY, RRDY, E
  <2>. QED
    BY <1>1, <1>2, <1>3, <2>1, <2>2 DEF TxDense
<1>4. CASE TMT \notin status
  <2>1. status' = status \ {TRDY} /\ tx_shift_register' = tx_shift_register
    BY <1>0, <1>4, PutStep
  <2>2. TMT \notin status' /\ TRDY \notin status'
    BY <1>4, <2>1 DEF TMT, TRDY
  <2>. QED
    <3>1. tx_shift_register' = line'.ch + 1 /\ sent' = tx_shift_register' + 1
      BY <1>1, <1>2, <1>4, <2>1, Zenon
    <3>. QED
      BY <2>2, <3>1, Zenon DEF TxDense
<1>. QED
  BY <1>3, <1>4

(* The timer puts the next number on the line.                             *)
LEMMA TxNext ==
  ASSUME DInv, TxDense, torn = 0 => FlagsMatchTimers, TxFires
  PROVE  /\ TxDense'
         /\ tx_shift_register = line.ch + 1 \/ preempted = 1 \/ torn = 1
<1>1. torn \in {0, 1} /\ preempted \in {0, 1} /\ txdata.lo = sent /\ TxDense
  BY DEF DInv, DriverTypes, TxOrder
<1>2. CASE torn = 1 \/ preempted = 1
  <2>1. torn' = 1 \/ preempted' = 1
    BY <1>2 DEF TxFires, Torn, software
  <2>. QED
    BY <1>2, <2>1 DEF TxDense
<1>3. CASE torn = 0 /\ preempted = 0
  <2>1. TMT \notin status
    BY <1>3 DEF TxFires, timeout_tx, FlagsMatchTimers, TmtMeansSent
  <2>2. /\ tx_shift_register = line.ch + 1
        /\ IF TRDY \in status THEN sent = tx_shift_register ELSE sent = tx_shift_register + 1
    BY <1>3, <2>1 DEF TxDense
  <2>3. line'.ch = tx_shift_register /\ sent' = sent
    BY DEF TxFires, timeout_tx, software
  <2>4. CASE TRDY \in status
    <3>1. status' = WithE(status \cup {TMT}) /\ tx_shift_register' = tx_shift_register
      BY <2>4, StatusTimeoutTx DEF DInv, TxFires, timeout_tx, CharWaiting
    <3>2. TMT \in status' /\ TRDY \in status'
      BY <2>4, <3>1 DEF WithE, ErrorBits, PE, FE, BRK, ROE, TOE, TMT, TRDY, RRDY, E
    <3>. QED
      BY <2>2, <2>3, <2>4, <3>1, <3>2 DEF TxDense
  <2>5. CASE TRDY \notin status
    <3>1. status' = WithE((status \ {TMT}) \cup {TRDY}) /\ tx_shift_register' = sent
      BY <1>1, <2>5, StatusTimeoutTx DEF DInv, TxFires, timeout_tx, Shift, LowByte, CharWaiting
    <3>2. TMT \notin status' /\ TRDY \in status'
      BY <3>1 DEF WithE, ErrorBits, PE, FE, BRK, ROE, TOE, TMT, TRDY, RRDY, E
    <3>. QED
      BY <2>2, <2>3, <2>5, <3>1, <3>2 DEF TxDense
  <2>. QED
    BY <2>2, <2>4, <2>5
<1>. QED
  BY <1>1, <1>2, <1>3

(* No step of device, task or handler leaves a gap in the output.          *)
LEMMA TxDenseStep ==
  ASSUME DInv, torn = 0 => FlagsMatchTimers, TxDense, [DriverNext]_dvars
  PROVE  TxDense'
<1>. USE DEF TMT, TRDY
<1>1. torn' = 0 => torn = 0
  BY TornStays
<1>2. ASSUME UNCHANGED <<status, tx_shift_register, line, sent, preempted>> PROVE TxDense'
  BY <1>1, <1>2, TxQuiet
<1>3. CASE Arrives \/ UART_init
  <2>1. UNCHANGED <<tx_shift_register, line, sent, preempted>>
    BY <1>3 DEF Arrives, UART_init, uart_receive, WriteControl, WriteDivisor, software
  <2>2. status' = status
    BY <1>3 DEF Arrives, UART_init, uart_receive, WriteControl, WriteDivisor, SetFlags,
       CheckInterrupt, Flags, check_and_set_interrupt, check_and_clear_interrupt
  <2>. QED
    BY <1>2, <2>1, <2>2
<1>4. CASE RxFires
  <2>1. status' = WithE(status \cup {ArrivalBit})
    BY <1>4, StatusTimeoutRx DEF DInv, RxFires
  <2>2. (TMT \in status' <=> TMT \in status) /\ (TRDY \in status' <=> TRDY \in status)
    BY <2>1 DEF WithE, ArrivalBit, ErrorBits, PE, FE, BRK, ROE, TOE, RRDY, E
  <2>3. UNCHANGED <<tx_shift_register, line, sent, preempted>>
    BY <1>4 DEF RxFires, timeout_rx, software
  <2>. QED
    BY <1>1, <2>2, <2>3, TxQuiet
<1>5. CASE TxFires
  BY <1>5, TxNext
<1>6. CASE UART_printf \/ HandlerPrints
  <2>1. CASE UNCHANGED <<vars, sent>>
    BY <1>2, <1>6, <2>1 DEF UART_printf, HandlerPrints, vars
  <2>2. CASE Put
    <3>1. TRDY \in status \/ preempted = 1
      BY <1>6, <2>2 DEF UART_printf, HandlerPrints, DInv, DriverTypes, Flow, Put
    <3>2. UNCHANGED <<torn, preempted>>
      BY <1>6 DEF UART_printf, HandlerPrints
    <3>. QED
      BY <2>2, <3>1, <3>2, TxPut
  <2>. QED
    BY <1>6, <2>1, <2>2 DEF UART_printf, HandlerPrints
<1>7. CASE UART_getchar
  <2>1. CASE UNCHANGED vars
    BY <1>2, <1>7, <2>1 DEF UART_getchar, vars
  <2>2. CASE GetRxdata
    <3>1. status' = status \ {RRDY}
      BY <2>2, StatusReadRxdata DEF GetRxdata, DInv
    <3>2. UNCHANGED <<tx_shift_register, line, sent, preempted>>
      BY <1>7, <2>2 DEF UART_getchar, GetRxdata, ReadRxdata
    <3>. QED
      BY <1>1, <3>1, <3>2, TxQuiet DEF RRDY
  <2>. QED
    BY <1>7, <2>1, <2>2 DEF UART_getchar
<1>8. CASE UART_clear_interrupt
  <2>1. CASE UNCHANGED vars
    BY <1>2, <1>8, <2>1 DEF UART_clear_interrupt, vars
  <2>2. CASE isr = "wr" /\ WriteStatus(Cleared(copy))
    <3>1. UNCHANGED <<tx_shift_register, line, sent, torn, preempted>>
      BY <1>8, <2>2 DEF UART_clear_interrupt, WriteStatus
    <3>2. status' = copy \ {ROE}
      <4>1. Cleared(copy) \in SUBSET Bits /\ Cleared(copy) = copy \ {ROE}
        BY DEF DInv, DriverTypes, Cleared
      <4>. QED
        BY <2>2, <4>1, StatusWriteStatus DEF DInv
    <3>3. CASE torn = 0
      <4>1. copy = status
        BY <2>2, <3>3 DEF DInv, Flow
      <4>2. (TMT \in status' <=> TMT \in status) /\ (TRDY \in status' <=> TRDY \in status)
        BY <3>2, <4>1 DEF ROE
      <4>. QED
        BY <3>1, <4>2, TxQuiet
    <3>4. CASE torn # 0
      BY <3>1, <3>4 DEF TxDense
    <3>. QED
      BY <3>3, <3>4
  <2>. QED
    BY <1>8, <2>1, <2>2 DEF UART_clear_interrupt
<1>9. CASE Call \/ armv7m_nvic_complete_irq \/ UNCHANGED dvars
  BY <1>2, <1>9 DEF Call, armv7m_nvic_complete_irq, dvars, vars, software
<1>10. CASE armv7m_nvic_acknowledge_irq
  <2>1. /\ UNCHANGED <<status, tx_shift_register, line, sent>>
        /\ preempted' = 0 => preempted = 0
    BY <1>10 DEF armv7m_nvic_acknowledge_irq, vars
  <2>. QED
    BY <1>1, <2>1, TxQuiet
<1>. QED
  BY <1>3, <1>4, <1>5, <1>6, <1>7, <1>8, <1>9, <1>10 DEF DriverNext, Software

(* Nothing that was printed is left out of the output: the timer sends the *)
(* character that was written after the one it sent last, unless the       *)
(* handler came between a test of TRDY and its write, or a clear was torn. *)
THEOREM NothingIsSkipped ==
  DriverSpec =>
    [][TxFires => tx_shift_register = line.ch + 1 \/ preempted = 1 \/ torn = 1]_dvars
<1>1. DriverInit => TxDense
  BY DriverAssumption DEF DriverInit, Init, TxDense, TMT, TRDY
<1>2. DInv /\ (torn = 0 => FlagsMatchTimers) /\ TxDense /\ [DriverNext]_dvars => TxDense'
  BY TxDenseStep
<1>3. DInv /\ (torn = 0 => FlagsMatchTimers) /\ TxDense =>
        (TxFires => tx_shift_register = line.ch + 1 \/ preempted = 1 \/ torn = 1)
  BY TxNext
<1>. QED
  BY <1>1, <1>2, <1>3, DriverInvariant, FlagsAgreeUntilTorn, PTL DEF DriverSpec

(* Everything the receiver takes reaches RXDATA in its turn, and where a   *)
(* character replaces one that UART_getchar has not returned, ROE reports  *)
(* it, unless a clear was torn.                                            *)
THEOREM EveryLossIsReported ==
  DriverSpec =>
    [][RxFires => /\ rxdata' = rxdata + 1
                  /\ got < rxdata => ROE \in status' \/ torn = 1]_dvars
<1>1. DriverInit => RxDense
  BY DriverAssumption DEF DriverInit, Init, RxDense
<1>2. ASSUME DInv, RxDense, [DriverNext]_dvars PROVE RxDense'
  <2>1. CASE Arrives
    BY <1>2, <2>1 DEF Arrives, uart_receive, wait_for_ch_tx_time, RxDense, DInv, DriverTypes
  <2>2. CASE RxFires
    BY <1>2, <2>2 DEF RxFires, timeout_rx, RxDense, DInv, RxOrder
  <2>3. ASSUME UNCHANGED <<rxdata, can_receive, rx_timer, arrived>> PROVE RxDense'
    <3>1. RxDense
      BY <1>2
    <3>. QED
      BY <2>3, <3>1 DEF RxDense
  <2>4. CASE TxFires \/ UART_init \/ UART_printf \/ UART_getchar \/ UART_clear_interrupt
             \/ HandlerPrints
    <3>1. UNCHANGED <<rxdata, can_receive, rx_timer, arrived>>
      BY <2>4, Zenon DEF TxFires, UART_init, UART_printf, UART_getchar, UART_clear_interrupt,
         HandlerPrints, Put, GetRxdata, timeout_tx, WriteControl, WriteDivisor, WriteTxdata,
         ReadRxdata, WriteStatus, vars
    <3>. QED
      BY <2>3, <3>1
  <2>5. CASE Call \/ armv7m_nvic_acknowledge_irq \/ armv7m_nvic_complete_irq \/ UNCHANGED dvars
    BY <2>3, <2>5 DEF Call, armv7m_nvic_acknowledge_irq, armv7m_nvic_complete_irq, dvars, vars
  <2>. QED
    BY <1>2, <2>1, <2>2, <2>4, <2>5 DEF DriverNext, Software
<1>3. ASSUME DInv, RxDense, RxFires
      PROVE  rxdata' = rxdata + 1 /\ (got < rxdata => ROE \in status' \/ torn = 1)
  <2>1. rx_timer = "armed" /\ rxdata' = rx_shift_register
    BY <1>3 DEF RxFires, timeout_rx
  <2>2. rxdata' = rxdata + 1
    BY <1>3, <2>1 DEF DInv, IInv, RxOrder, RxDense
  <2>3. ASSUME got < rxdata, torn # 1 PROVE ROE \in status'
    <3>1. RRDY \in status
      BY <1>3, <2>3, DriverAssumption DEF DInv, RxOrder, UnreadIsVisible, DriverTypes, IInv, TypeOK
    <3>2. status' = WithE(status \cup {ROE})
      BY <1>3, <3>1, StatusTimeoutRx DEF DInv, RxFires, ArrivalBit
    <3>. QED
      BY <3>2 DEF WithE, ErrorBits, ROE
  <2>. QED
    BY <2>2, <2>3
<1>. QED
  BY <1>1, <1>2, <1>3, DriverInvariant, PTL DEF DriverSpec
=============================================================================
