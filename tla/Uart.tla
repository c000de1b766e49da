-------------------------------- MODULE Uart --------------------------------
(***************************************************************************)
(* The Nios-II style UART device of the emulated board                     *)
(* (qemu/hw/char/uart.c, qemu/include/hw/char/uart.h).                     *)
(*                                                                         *)
(* A register is the set of its bit positions that are 1, so C's           *)
(* `control & status` is an intersection and a mask is a subset.  QEMU     *)
(* runs MMIO accesses, timer callbacks and character-device callbacks      *)
(* under one lock, so each of them is one atomic action here; what is      *)
(* nondeterministic is the order in which they come.  Virtual time is      *)
(* abstracted: an armed timer may expire at any later moment.              *)
(***************************************************************************)
EXTENDS Integers, Sequences

CONSTANTS
  Char,          \* the values of a byte
  NUL,           \* the byte 0
  Upper,         \* the values of bits 8..31 of a word
  ControlVals,   \* words the software writes to CONTROL, as sets of bits
  StatusVals,    \* words the software writes to STATUS, as sets of bits
  DivisorVals,   \* words the software writes to DIVISOR, as numbers
  CLK_FREQ,      \* 115200 in uart.h
  NANOSECONDS_PER_SECOND,
  REG32          \* 2^32, the number of values of a 32-bit register

PE   == 0
FE   == 1
BRK  == 2
ROE  == 3
TOE  == 4
TMT  == 5
TRDY == 6
RRDY == 7
E    == 8

Bits == 0..31
ErrorBits == {PE, FE, BRK, ROE, TOE}
FRAME_SIZE == 11      \* start, 8 data bits, parity, stop

Word == [hi : Upper, lo : Char]
ZeroHi == 0

ASSUME UartAssumption ==
  /\ NUL \in Char
  /\ ZeroHi \in Upper
  /\ ControlVals \subseteq SUBSET Bits
  /\ StatusVals \subseteq SUBSET Bits
  /\ REG32 \in Nat /\ REG32 > 2
  /\ DivisorVals \subseteq 0..(REG32 - 1)
  /\ CLK_FREQ \in Nat /\ CLK_FREQ >= 2
  /\ NANOSECONDS_PER_SECOND \in Nat /\ NANOSECONDS_PER_SECOND >= CLK_FREQ

VARIABLES
  rxdata,              \* RXDATA
  txdata,              \* TXDATA
  status,              \* STATUS
  control,             \* CONTROL
  divisor,             \* DIVISOR
  char_tx_time,        \* nanoseconds one character takes
  tx_shift_register,
  rx_shift_register,
  can_receive,         \* 0 while a character is being shifted in
  rx_timer,            \* "idle" or "armed"
  tx_timer,
  irq,                 \* level of the interrupt line
  line,                \* last byte written to the character device
  host                 \* the emulator process: "running" or "dead"

vars == <<rxdata, txdata, status, control, divisor, char_tx_time,
          tx_shift_register, rx_shift_register, can_receive,
          rx_timer, tx_timer, irq, line, host>>

running == host = "running"

-----------------------------------------------------------------------------
(* The flag word and the interrupt line that follows it.  p is a pair      *)
(* [status, irq]; each operator is one C helper.                           *)

Flags == [status |-> status, irq |-> irq]

check_and_set_interrupt(p, ctl) ==
  [status |-> p.status, irq |-> IF ctl \cap p.status # {} THEN 1 ELSE p.irq]

check_and_clear_interrupt_Never(p, ctl) == p

check_and_clear_interrupt(p, ctl) ==
  [status |-> p.status, irq |-> IF ctl \cap p.status = {} THEN 0 ELSE p.irq]

WithE(st) == IF st \cap ErrorBits # {} THEN st \cup {E} ELSE st

set_status_bit(p, bit) ==
  check_and_set_interrupt(
    [status |-> WithE(p.status \cup {bit}), irq |-> p.irq], control)

reset_status_bit_AlsoErrors(p, bit) ==
  check_and_clear_interrupt(
    [status |-> p.status \ {bit, ROE, E}, irq |-> p.irq], control)

reset_status_bit(p, bit) ==
  check_and_clear_interrupt(
    [status |-> p.status \ {bit}, irq |-> p.irq], control)

SetFlags(p) == status' = p.status /\ irq' = p.irq

-----------------------------------------------------------------------------
(* update_params: a 32-bit increment, then two integer divisions.          *)

Prescaler(d) == (d + 1) % REG32

Divides(d) == Prescaler(d) > 0 /\ Prescaler(d) <= CLK_FREQ

baudrate(d) == CLK_FREQ \div Prescaler(d)

CharTxTime(d) == (NANOSECONDS_PER_SECOND \div baudrate(d)) * FRAME_SIZE

update_params_Stale(d) == UNCHANGED <<char_tx_time, host>>

(* Dividing by zero kills the process on a host that traps (x86) and       *)
(* yields 0 on one that does not (AArch64).                                *)
update_params(d) ==
  \/ /\ Divides(d)
     /\ char_tx_time' = CharTxTime(d)
     /\ UNCHANGED host
  \/ /\ ~Divides(d)
     /\ host' = "dead"
     /\ UNCHANGED char_tx_time
  \/ /\ ~Divides(d)
     /\ char_tx_time' = 0
     /\ UNCHANGED host

-----------------------------------------------------------------------------
(* uart_init, uart_realize and the reset that realize ends with.           *)
Init ==
  /\ rxdata = NUL
  /\ txdata = [hi |-> ZeroHi, lo |-> NUL]
  /\ status = {TRDY, TMT}
  /\ control = {}
  /\ divisor = 1
  /\ char_tx_time = CharTxTime(1)
  /\ tx_shift_register = NUL
  /\ rx_shift_register = NUL
  /\ can_receive = 1
  /\ rx_timer = "idle"
  /\ tx_timer = "idle"
  /\ irq = 0
  /\ line = [ch |-> NUL, flip |-> 0]
  /\ host = "running"

(* Reset leaves the timers and the shift registers alone.                  *)
uart_reset ==
  /\ running
  /\ rxdata' = NUL
  /\ txdata' = [hi |-> ZeroHi, lo |-> NUL]
  /\ SetFlags([status |-> {TRDY, TMT}, irq |-> 0])
  /\ control' = {}
  /\ divisor' = 1
  /\ can_receive' = 1
  /\ update_params(1)
  /\ UNCHANGED <<tx_shift_register, rx_shift_register, rx_timer, tx_timer, line>>

(* timer_mod to now + char_tx_time: the state of the timer afterwards.     *)
wait_for_ch_tx_time_NotStarted == "idle"
wait_for_ch_tx_time == "armed"

(* The character device offers a byte; one that comes while another is     *)
(* being shifted in is dropped.                                            *)
uart_receive(c) ==
  /\ running
  /\ can_receive = 1
  /\ rx_shift_register' = c
  /\ can_receive' = 0
  /\ rx_timer' = wait_for_ch_tx_time
  /\ UNCHANGED <<rxdata, txdata, status, control, divisor, char_tx_time,
                 tx_shift_register, tx_timer, irq, line, host>>

ArrivalBit_NoOverrun == RRDY
ArrivalBit == IF RRDY \in status THEN ROE ELSE RRDY

timeout_rx ==
  /\ running
  /\ rx_timer = "armed"
  /\ rx_timer' = "idle"
  /\ rxdata' = rx_shift_register
  /\ can_receive' = 1
  /\ SetFlags(set_status_bit(Flags, ArrivalBit))
  /\ UNCHANGED <<txdata, control, divisor, char_tx_time, tx_shift_register,
                 rx_shift_register, tx_timer, line, host>>

(* (uint8_t) s->txdata                                                     *)
LowByte_Untruncated(w) == 256 * w.hi + w.lo
LowByte(w) == w.lo

(* Load the shift register: TMT = 0, TRDY = 1, start the timer.            *)
Shift_StaysEmpty(w) ==
  /\ SetFlags(set_status_bit(Flags, TRDY))
  /\ tx_shift_register' = LowByte(w)
  /\ tx_timer' = wait_for_ch_tx_time

Shift(w) ==
  /\ SetFlags(set_status_bit(reset_status_bit(Flags, TMT), TRDY))
  /\ tx_shift_register' = LowByte(w)
  /\ tx_timer' = wait_for_ch_tx_time

CharWaiting_Inverted == TRDY \in status
CharWaiting == TRDY \notin status

timeout_tx ==
  /\ running
  /\ tx_timer = "armed"
  /\ line' = [ch |-> tx_shift_register, flip |-> 1 - line.flip]
  /\ \/ /\ CharWaiting
        /\ Shift(txdata)
     \/ /\ ~CharWaiting
        /\ SetFlags(set_status_bit(Flags, TMT))
        /\ tx_timer' = "idle"
        /\ UNCHANGED tx_shift_register
  /\ UNCHANGED <<rxdata, txdata, control, divisor, char_tx_time,
                 rx_shift_register, can_receive, rx_timer, host>>

-----------------------------------------------------------------------------
(* uart_read: RXDATA is the only register whose read changes state.        *)
ReadRxdata ==
  /\ running
  /\ SetFlags(reset_status_bit(Flags, RRDY))
  /\ UNCHANGED <<rxdata, txdata, control, divisor, char_tx_time,
                 tx_shift_register, rx_shift_register, can_receive,
                 rx_timer, tx_timer, line, host>>

(* uart_write, one action per register that can be written.                *)
WriteTxdata(w) ==
  /\ running
  /\ txdata' = w
  /\ \/ /\ TMT \in status
        /\ Shift(w)
     \/ /\ TMT \notin status
        /\ SetFlags(IF TRDY \notin status
                      THEN set_status_bit(Flags, TOE)
                      ELSE reset_status_bit(Flags, TRDY))
        /\ UNCHANGED <<tx_shift_register, tx_timer>>
  /\ UNCHANGED <<rxdata, control, divisor, char_tx_time, rx_shift_register,
                 can_receive, rx_timer, line, host>>

CheckInterrupt(p, ctl) ==
  check_and_clear_interrupt(check_and_set_interrupt(p, ctl), ctl)

WriteStatus(val) ==
  /\ running
  /\ SetFlags(CheckInterrupt([status |-> val, irq |-> irq], control))
  /\ UNCHANGED <<rxdata, txdata, control, divisor, char_tx_time,
                 tx_shift_register, rx_shift_register, can_receive,
                 rx_timer, tx_timer, line, host>>

WriteControl(val) ==
  /\ running
  /\ control' = val
  /\ SetFlags(CheckInterrupt(Flags, val))
  /\ UNCHANGED <<rxdata, txdata, divisor, char_tx_time,
                 tx_shift_register, rx_shift_register, can_receive,
                 rx_timer, tx_timer, line, host>>

WriteDivisor(val) ==
  /\ running
  /\ divisor' = val
  /\ update_params(val)
  /\ UNCHANGED <<rxdata, txdata, status, control, irq,
                 tx_shift_register, rx_shift_register, can_receive,
                 rx_timer, tx_timer, line>>
-----------------------------------------------------------------------------
(* Everything but writes to STATUS and resets.                             *)
DeviceNext ==
  \/ \E c \in Char : uart_receive(c)
  \/ timeout_rx
  \/ timeout_tx
  \/ ReadRxdata
  \/ \E w \in Word : WriteTxdata(w)
  \/ \E val \in ControlVals : WriteControl(val)
  \/ \E val \in DivisorVals : WriteDivisor(val)

(* Any software, and system resets at any moment.                          *)
Next ==
  \/ DeviceNext
  \/ \E val \in StatusVals : WriteStatus(val)
  \/ uart_reset

(* The main loop runs every expired timer.                                 *)
Fairness == WF_vars(timeout_rx) /\ WF_vars(timeout_tx)

Spec == Init /\ [][Next]_vars
FairSpec == Spec /\ Fairness

(* Software whose writes to STATUS do nothing but clear error bits: the    *)
(* read of STATUS and the write that follows it are not torn apart by a    *)
(* timer.                                                                  *)
ClearErrors == \E bits \in SUBSET (ErrorBits \cup {E}) : WriteStatus(status \ bits)

DisciplinedNext == DeviceNext \/ ClearErrors
DisciplinedSpec == Init /\ [][DisciplinedNext]_vars
DisciplinedFairSpec == DisciplinedSpec /\ Fairness

(* The same software on a machine that may be reset at any moment.         *)
ResettableNext == DisciplinedNext \/ uart_reset
ResettableSpec == Init /\ [][ResettableNext]_vars
ResettableFairSpec == ResettableSpec /\ Fairness

-----------------------------------------------------------------------------
(* Every register holds a value of its width, and a byte stays a byte.     *)
TypeOK ==
  /\ rxdata \in Char
  /\ txdata \in Word
  /\ status \in SUBSET Bits
  /\ control \in SUBSET Bits
  /\ divisor \in 0..(REG32 - 1)
  /\ char_tx_time \in Nat
  /\ tx_shift_register \in Char
  /\ rx_shift_register \in Char
  /\ can_receive \in {0, 1}
  /\ rx_timer \in {"idle", "armed"}
  /\ tx_timer \in {"idle", "armed"}
  /\ irq \in {0, 1}
  /\ line \in [ch : Char, flip : {0, 1}]
  /\ host \in {"running", "dead"}

(* Whatever the software writes and whenever a timer fires, the interrupt  *)
(* line is high exactly when an enabled status bit is set, although        *)
(* check_and_set_interrupt only ever raises it and                         *)
(* check_and_clear_interrupt only ever lowers it.                          *)
IrqIsLevel == (irq = 1) <=> (control \cap status # {})

(* The receiver refuses characters only while the timer that will make it  *)
(* accept again is running, resets and STATUS writes included: it cannot   *)
(* stay deaf.                                                              *)
RxBusyHasTimer == can_receive = 0 => rx_timer = "armed"

(* Error bits are cleared by the processor alone: no character event, no   *)
(* transmit or receive access takes one of them, or E, away                *)
(* ("no check on error bits as they have to be cleared by the processor"). *)
ErrorsSticky ==
  [][ (status \ status') \cap (ErrorBits \cup {E}) # {}
        => uart_reset \/ \E val \in StatusVals : WriteStatus(val) ]_vars

(* The character time in force is the one of the divisor in force, after   *)
(* any sequence of divisor writes and resets, unless the divisor is one    *)
(* that makes update_params divide by zero; only such a divisor stops the  *)
(* emulator.                                                               *)
TimingInSync ==
  IF Divides(divisor)
    THEN running /\ char_tx_time = CharTxTime(divisor) /\ char_tx_time > 0
    ELSE running => char_tx_time = 0

(* Even across resets, the transmitter of disciplined software is busy    *)
(* (TMT = 0) only while the timer that frees it is running, and a          *)
(* character waits in TXDATA (TRDY = 0) only behind one being shifted out: *)
(* "Timer expires (tx_shift_register was not ready, so there was an active *)
(* timer)".                                                                *)
TxBusyHasTimer ==
  /\ TMT \notin status => tx_timer = "armed"
  /\ TRDY \notin status => TMT \notin status

(* TMT = 1 says that the content of the shift register was sent and may be *)
(* overwritten.                                                            *)
TmtMeansSent == TMT \in status => tx_timer = "idle"

(* Without resets, the flags and the timers of disciplined software say    *)
(* the same thing in both directions.                                      *)
FlagsMatchTimers ==
  /\ TxBusyHasTimer
  /\ TmtMeansSent
  /\ rx_timer = "armed" => can_receive = 0

(* The receiver that took a character accepts the next one eventually.     *)
RxRecovers == can_receive = 0 ~> (can_receive = 1 \/ ~running)

(* The busy wait of UART_printf on TRDY ends, for disciplined software.    *)
TxReadyAgain == TRDY \notin status ~> (TRDY \in status \/ ~running)

-----------------------------------------------------------------------------
(* The device implements SerialPort.                                       *)
Pipe ==
  IF tx_timer = "idle" THEN << >>
  ELSE IF TRDY \in status THEN <<tx_shift_register>>
  ELSE <<tx_shift_register, LowByte(txdata)>>

Port == INSTANCE SerialPort WITH
  txq       <- Pipe,
  txOverrun <- TOE \in status,
  rxIn      <- IF can_receive = 0 THEN <<rx_shift_register>> ELSE << >>,
  fresh     <- RRDY \in status,
  rxOverrun <- ROE \in status

(* To disciplined software the device is a SerialPort: characters leave in *)
(* the order they were written, none is duplicated, and none is lost       *)
(* without TOE (transmit) or ROE (receive) being raised; every character   *)
(* accepted is eventually shifted out, or in.                              *)
ImplementsPort == Port!FairSpec
=============================================================================
