----------------------------- MODULE UartDriver -----------------------------
(***************************************************************************)
(* The UART driver of the demo (Demo/uart.c) and its interrupt handler     *)
(* (Uart_Handler in Demo/main.c) on top of the device of module Uart and   *)
(* the UART's line of the interrupt controller.                            *)
(*                                                                         *)
(* Every access to a device register is a step of its own: characters and  *)
(* timers may come between any two of them.  The handler preempts the task *)
(* between any two accesses, and the task stands still until it returns.   *)
(* The semaphores of the demo let one task at a time use the driver, so    *)
(* one task makes all the calls, in any order.                             *)
(*                                                                         *)
(* Characters are numbered in the order in which they are written to       *)
(* TXDATA, and in the order in which the receiver takes them; the numbers  *)
(* stand for the text.                                                     *)
(***************************************************************************)
EXTENDS Uart

CONSTANTS
  InitialDivisor,   \* what UART_init writes to DIVISOR (1000)
  MaxChar           \* bound on the characters of each direction

ASSUME DriverAssumption ==
  /\ MaxChar \in Nat /\ Char = 0..MaxChar /\ NUL = 0
  /\ InitialDivisor \in DivisorVals
  /\ {ROE} \in ControlVals

VARIABLES
  task,       \* what the task does next
  isr,        \* what the handler does next; "none" while it is not active
  copy,       \* the value of STATUS the handler has read
  pending,    \* the pending bit of the interrupt
  sent,       \* characters written to TXDATA so far
  arrived,    \* characters taken by the receiver so far
  got,        \* the last character UART_getchar returned
  torn,       \* 1 once a timer fired between the handler's read and write
  preempted   \* 1 once the handler came between a test of TRDY and its write

software == <<task, isr, copy, sent, got, preempted>>
dvars == <<vars, software, pending, arrived, torn>>

DriverInit ==
  /\ Init
  /\ task = "control"
  /\ isr = "none"
  /\ copy = {}
  /\ pending = 0
  /\ sent = 0
  /\ arrived = 0
  /\ got = 0
  /\ torn = 0
  /\ preempted = 0

-----------------------------------------------------------------------------
(* The interrupt controller: pending is latched when the line rises.       *)
set_irq_level == pending' = IF irq = 0 /\ irq' = 1 THEN 1 ELSE pending

(* The device moves by itself.                                             *)
Torn == torn' = IF isr = "wr" THEN 1 ELSE torn

Arrives ==
  /\ arrived < MaxChar
  /\ uart_receive(arrived + 1)
  /\ arrived' = arrived + 1
  /\ set_irq_level
  /\ UNCHANGED <<software, torn>>

RxFires == timeout_rx /\ set_irq_level /\ Torn /\ UNCHANGED <<software, arrived>>

TxFires == timeout_tx /\ set_irq_level /\ Torn /\ UNCHANGED <<software, arrived>>

-----------------------------------------------------------------------------
(* UART_init, then calls of UART_printf and UART_getchar.                  *)
TaskRuns == running /\ isr = "none"

UART_init ==
  /\ TaskRuns
  /\ \/ task = "control" /\ WriteControl({ROE}) /\ task' = "divisor"
     \/ task = "divisor" /\ WriteDivisor(InitialDivisor) /\ task' = "call"
  /\ set_irq_level
  /\ UNCHANGED <<isr, copy, sent, arrived, got, torn, preempted>>

Call ==
  /\ TaskRuns
  /\ task = "call"
  /\ \/ sent < MaxChar /\ task' = "tx_wait"
     \/ task' = "rx_wait"
  /\ UNCHANGED <<vars, isr, copy, pending, sent, arrived, got, torn, preempted>>

(* while(!(UART_STATUS & TRDY)): the poll that ends the loop.              *)
MayPut_Unchecked == TRUE
MayPut == TRDY \in status

Put ==
  /\ sent < MaxChar
  /\ WriteTxdata([hi |-> ZeroHi, lo |-> sent + 1])
  /\ sent' = sent + 1
  /\ set_irq_level

UART_printf ==
  /\ TaskRuns
  /\ \/ /\ task = "tx_wait" /\ MayPut
        /\ task' = "tx_put"
        /\ UNCHANGED <<vars, pending, sent>>
     \/ /\ task = "tx_put" /\ Put
        /\ task' = "call"
  /\ UNCHANGED <<isr, copy, arrived, got, torn, preempted>>

(* while(!(UART_STATUS & RRDY)), then the read of RXDATA.                  *)
MayGet_Unchecked == TRUE
MayGet == RRDY \in status

GetRxdata ==
  /\ task = "rx_get"
  /\ ReadRxdata
  /\ got' = rxdata
  /\ set_irq_level
  /\ task' = "call"

UART_getchar ==
  /\ TaskRuns
  /\ \/ /\ task = "rx_wait" /\ MayGet
        /\ task' = "rx_get"
        /\ UNCHANGED <<vars, pending, got>>
     \/ GetRxdata
  /\ UNCHANGED <<isr, copy, sent, arrived, torn, preempted>>

-----------------------------------------------------------------------------
(* Uart_Handler: clear ROE, print, return.                                 *)
armv7m_nvic_acknowledge_irq ==
  /\ running
  /\ isr = "none" /\ pending = 1
  /\ isr' = "rd"
  /\ pending' = 0
  /\ preempted' = IF task = "tx_put" THEN 1 ELSE preempted
  /\ UNCHANGED <<vars, task, copy, sent, arrived, got, torn>>

(* UART_STATUS &= ~(ROE): a read and a write of the whole word.            *)
Cleared_AlsoTmt(st) == st \ {ROE, TMT}
Cleared_AlsoRrdy(st) == st \ {ROE, RRDY}
Cleared_Nothing(st) == st
Cleared(st) == st \ {ROE}

UART_clear_interrupt ==
  /\ running
  /\ \/ /\ isr = "rd"
        /\ copy' = status
        /\ isr' = "wr"
        /\ UNCHANGED <<vars, pending>>
     \/ /\ isr = "wr"
        /\ WriteStatus(Cleared(copy))
        /\ set_irq_level
        /\ isr' = "tx_wait"
        /\ UNCHANGED copy
  /\ UNCHANGED <<task, sent, arrived, got, torn, preempted>>

(* The text of the handler has any length the bound allows.                *)
HandlerPrints ==
  /\ running
  /\ \/ /\ isr = "tx_wait" /\ MayPut
        /\ isr' = IF sent < MaxChar THEN "tx_put" ELSE "ret"
        /\ UNCHANGED <<vars, pending, sent>>
     \/ /\ isr = "tx_put" /\ Put
        /\ isr' \in {"tx_wait", "ret"}
  /\ UNCHANGED <<task, copy, arrived, got, torn, preempted>>

(* The interrupt is pending again when its line is still high.             *)
Repended_Never == 0
Repended == IF irq = 1 THEN 1 ELSE pending

armv7m_nvic_complete_irq ==
  /\ running
  /\ isr = "ret"
  /\ isr' = "none"
  /\ pending' = Repended
  /\ UNCHANGED <<vars, task, copy, sent, arrived, got, torn, preempted>>

Software ==
  \/ UART_init
  \/ Call
  \/ UART_printf
  \/ UART_getchar
  \/ armv7m_nvic_acknowledge_irq
  \/ UART_clear_interrupt
  \/ HandlerPrints
  \/ armv7m_nvic_complete_irq

DriverNext == Arrives \/ RxFires \/ TxFires \/ Software

(* The processor keeps executing instructions and the main loop runs every *)
(* expired timer.                                                          *)
DriverSpec ==
  /\ DriverInit /\ [][DriverNext]_dvars
  /\ WF_dvars(RxFires) /\ WF_dvars(TxFires) /\ WF_dvars(Software)

-----------------------------------------------------------------------------
(* The transmitter is busy with no timer to free it, or a character waits  *)
(* behind an empty shift register, only after a timer fired inside the     *)
(* two accesses of UART_clear_interrupt: nothing else in the driver hangs  *)
(* the transmitter.                                                        *)
HangsOnlyIfTorn == TxBusyHasTimer \/ torn = 1

(* The same without the exception: "tx_shift_register was not ready, so    *)
(* there was an active timer".                                             *)
BusyMeansTimer == TMT \notin status => tx_timer = "armed"

(* A character is overwritten in TXDATA only after the handler, which      *)
(* prints too, came between a test of TRDY and the write that relies on    *)
(* it.                                                                     *)
OverrunNeedsPreemption == TOE \in status => preempted = 1

(* A character that UART_getchar has not returned shows as RRDY, unless a  *)
(* timer fired inside UART_clear_interrupt.                                *)
UnreadIsVisible == rxdata > got => RRDY \in status \/ torn = 1

(* UART_getchar never returns a character twice, nor an older one after a  *)
(* newer one, nor one that did not arrive, torn clears included.           *)
EachReadIsNew == [][GetRxdata => rxdata > got]_dvars

(* Characters leave in the order in which the driver wrote them; one       *)
(* leaves twice only after a torn clear.                                   *)
LineInOrder ==
  [][TxFires => \/ tx_shift_register > line.ch
                \/ tx_shift_register = line.ch /\ torn = 1]_dvars

(* An interrupt that is due is not lost: while the line is high, the       *)
(* handler runs or is about to.                                            *)
InterruptDue == irq = 1 => pending = 1 \/ isr # "none"

(* Device, handler and pending bit together are an InterruptLine, the      *)
(* promise that Nvic keeps for every line: every edge the device makes is  *)
(* latched, also one inside the handler, and the handler that leaves the   *)
(* line high runs again.                                                   *)
Latch == INSTANCE InterruptLine WITH
  level <- irq = 1, pending <- pending = 1, active <- isr # "none"

LineLatches == Latch!Spec

(* Task and handler together use the device as a SerialPort until a timer  *)
(* fires inside UART_clear_interrupt: every step up to then, the timer's   *)
(* included, is a step of the port, or invisible to it.                    *)
PortUntilTorn ==
  /\ Port!Init
  /\ [][torn = 0 => Port!Next \/ UNCHANGED Port!vars]_dvars

(* The busy waits of the handler end, and it returns.                      *)
HandlerReturns == isr # "none" ~> (isr = "none" \/ torn = 1)

(* The busy wait of the task in UART_printf ends.                          *)
PrintProceeds == task = "tx_wait" ~> (task # "tx_wait" \/ torn = 1)
=============================================================================
