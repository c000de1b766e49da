----------------------------- MODULE UartProofs -----------------------------
(***************************************************************************)
(* Theorems about the UART device, for every set of characters, every      *)
(* clock frequency and every value the software may write.                 *)
(***************************************************************************)
EXTENDS Uart, TLAPS

-----------------------------------------------------------------------------
(* Arithmetic of update_params.                                            *)

(* A quotient of a positive number by a smaller or equal one lies between  *)
(* one and the number.                                                     *)
LEMMA QuotientBounds ==
  ASSUME NEW a \in Nat, NEW b \in Nat, 0 < b, b <= a
  PROVE  a \div b \in Nat /\ 0 < a \div b /\ a \div b <= a
<1>1. a \div b \in Int /\ a = b * (a \div b) + (a % b) /\ a % b \in Int /\ 0 <= a % b /\ a % b < b
  OBVIOUS
<1>. DEFINE q == a \div b
<1>2. q > 0
  <2>1. SUFFICES ASSUME q <= 0 PROVE FALSE
    BY <1>1
  <2>2. b * q <= 0
    BY <1>1, <2>1
  <2>. QED
    BY <1>1, <2>2
<1>3. q <= b * q
  BY <1>1, <1>2
<1>. QED
  BY <1>1, <1>2, <1>3

(* A divisor that divides gives update_params a positive character time.   *)
LEMMA CharTimePositive ==
  ASSUME NEW d \in 0..(REG32 - 1), Divides(d)
  PROVE  CharTxTime(d) \in Nat /\ CharTxTime(d) > 0
<1>. USE UartAssumption
<1>1. Prescaler(d) \in Nat /\ 0 < Prescaler(d) /\ Prescaler(d) <= CLK_FREQ
  <2>1. Prescaler(d) \in Int
    BY DEF Prescaler
  <2>. QED
    BY <2>1 DEF Divides
<1>2. baudrate(d) \in Nat /\ 0 < baudrate(d) /\ baudrate(d) <= CLK_FREQ
  BY <1>1, QuotientBounds DEF baudrate
<1>. DEFINE t == NANOSECONDS_PER_SECOND \div baudrate(d)
<1>3. t \in Nat /\ 0 < t
  BY <1>2, QuotientBounds
<1>. QED
  BY <1>3 DEF CharTxTime, FRAME_SIZE

(* A number whose product with m fits into n fits into the quotient.       *)
LEMMA QuotientIsGreatest ==
  ASSUME NEW n \in Nat, NEW m \in Nat, 0 < m, NEW x \in Nat, m * x <= n
  PROVE  x <= n \div m
<1>. DEFINE q == n \div m
<1>1. q \in Int /\ n < m * q + m
  OBVIOUS
<1>. HIDE DEF q
<1>2. ASSUME q < x PROVE FALSE
  <2>. DEFINE k == x - q - 1
  <2>1. k \in Nat /\ x = q + 1 + k
    BY <1>1, <1>2
  <2>. HIDE DEF k
  <2>2. m * x = m * q + m + m * k /\ m * k \in Nat /\ m * q \in Int
    BY <1>1, <2>1
  <2>. QED
    BY <1>1, <2>2
<1>. QED
  BY <1>1, <1>2 DEF q

(* The same number divided by a greater one gives no greater quotient.     *)
LEMMA QuotientShrinks ==
  ASSUME NEW n \in Nat, NEW m \in Nat, NEW k \in Nat, 0 < m, m <= k
  PROVE  n \div k <= n \div m
<1>. DEFINE x == n \div k
<1>1. x \in Nat /\ k * x <= n
  OBVIOUS
<1>. HIDE DEF x
<1>2. m * x <= k * x /\ m * x \in Nat /\ k * x \in Nat
  BY <1>1
<1>3. m * x <= n
  BY <1>1, <1>2
<1>. QED
  BY <1>1, <1>3, QuotientIsGreatest DEF x

(* The increment of a divisor that divides does not wrap.                  *)
LEMMA PrescalerIs ==
  ASSUME NEW d \in 0..(REG32 - 1), Divides(d)
  PROVE  Prescaler(d) = d + 1 /\ d + 1 <= CLK_FREQ
<1>1. d + 1 < REG32
  BY UartAssumption DEF Divides, Prescaler
<1>2. Prescaler(d) = d + 1
  BY <1>1, UartAssumption DEF Prescaler
<1>. QED
  BY <1>2 DEF Divides

(* A greater divisor never shortens a character, although update_params    *)
(* rounds twice.                                                           *)
LEMMA CharTimeGrows ==
  ASSUME NEW c \in 0..(REG32 - 1), NEW d \in 0..(REG32 - 1),
         Divides(c), Divides(d), c <= d
  PROVE  CharTxTime(c) <= CharTxTime(d)
<1>. USE UartAssumption
<1>. DEFINE bc == CLK_FREQ \div (c + 1)
            bd == CLK_FREQ \div (d + 1)
            tc == NANOSECONDS_PER_SECOND \div bc
            td == NANOSECONDS_PER_SECOND \div bd
<1>1. /\ c + 1 \in Nat /\ 0 < c + 1 /\ c + 1 <= CLK_FREQ
      /\ d + 1 \in Nat /\ 0 < d + 1 /\ d + 1 <= CLK_FREQ
      /\ c + 1 <= d + 1
  BY PrescalerIs
<1>2. baudrate(c) = bc /\ baudrate(d) = bd
  BY PrescalerIs DEF baudrate
<1>3. bd <= bc
  BY <1>1, QuotientShrinks
<1>4. bc \in Nat /\ bd \in Nat /\ 0 < bd /\ 0 < bc /\ bc <= CLK_FREQ
  BY <1>1, QuotientBounds
<1>. HIDE DEF bc, bd
<1>5. tc <= td
  BY <1>3, <1>4, QuotientShrinks
<1>6. tc \in Int /\ td \in Int
  BY <1>4
<1>7. CharTxTime(c) = tc * FRAME_SIZE /\ CharTxTime(d) = td * FRAME_SIZE
  BY <1>2 DEF CharTxTime
<1>. HIDE DEF tc, td
<1>. QED
  BY <1>5, <1>6, <1>7 DEF FRAME_SIZE

(* The nanoseconds one bit takes at the exact rate of the divisor d, the   *)
(* clock frequency over d + 1, rounded down once.                          *)
ExactBit(d) == (NANOSECONDS_PER_SECOND * (d + 1)) \div CLK_FREQ

(* The character time of update_params is at least that of FRAME_SIZE such *)
(* bits: rounding the rate down makes a character longer, never shorter.   *)
LEMMA CharTimeCovers ==
  ASSUME NEW d \in 0..(REG32 - 1), Divides(d)
  PROVE  ExactBit(d) * FRAME_SIZE <= CharTxTime(d)
<1>. USE UartAssumption
<1>. DEFINE p == d + 1
            b == CLK_FREQ \div p
            n == NANOSECONDS_PER_SECOND
            f == CLK_FREQ
            x == (n * p) \div f
            t == n \div b
<1>1. p \in Nat /\ 0 < p /\ p <= f /\ f \in Nat /\ 0 < f /\ n \in Nat
  BY PrescalerIs
<1>2. b \in Nat /\ 0 < b /\ p * b <= f
  BY <1>1, QuotientBounds
<1>3. CharTxTime(d) = t * FRAME_SIZE /\ ExactBit(d) = x
  BY PrescalerIs DEF CharTxTime, baudrate, ExactBit
<1>. HIDE DEF p, b, n, f
<1>4. n * p \in Nat
  BY <1>1
<1>5. x \in Nat /\ f * x <= n * p
  BY <1>1, <1>4
<1>. HIDE DEF x
<1>6. b * x <= n
  <2>1. (p * b) * x <= f * x /\ (p * b) * x = p * (b * x) /\ b * x \in Nat
    <3>1. b * x \in Nat /\ p * b \in Nat /\ (p * b) * x = p * (b * x)
      BY <1>1, <1>2, <1>5
    <3>. DEFINE y == p * b
                k == f - y
    <3>2. k \in Nat /\ f = y + k /\ y \in Nat
      BY <1>1, <1>2, <3>1
    <3>. HIDE DEF y, k
    <3>3. f * x = y * x + k * x /\ k * x \in Nat /\ y * x \in Nat
      BY <3>2, <1>5
    <3>4. y * x <= f * x
      BY <3>3
    <3>. QED
      BY <3>1, <3>4 DEF y
  <2>. DEFINE y == b * x
  <2>2. y \in Nat /\ p * y <= f * x /\ p * y \in Nat /\ f * x \in Nat
    BY <1>1, <1>5, <2>1
  <2>. HIDE DEF y
  <2>3. p * y <= p * n /\ p * n = n * p
    BY <1>1, <1>4, <1>5, <2>2
  <2>4. ASSUME n < y PROVE FALSE
    <3>. DEFINE k == y - n - 1
    <3>1. k \in Nat /\ y = n + 1 + k
      BY <1>1, <2>2, <2>4
    <3>. HIDE DEF k
    <3>2. p * y = p * n + p + p * k /\ p * k \in Nat /\ p * n \in Nat
      BY <1>1, <3>1
    <3>. QED
      BY <1>1, <2>3, <3>2
  <2>. QED
    BY <1>1, <2>2, <2>4 DEF y
<1>7. x <= t
  BY <1>1, <1>2, <1>5, <1>6, QuotientIsGreatest
<1>8. t \in Int
  BY <1>1, <1>2
<1>. HIDE DEF t
<1>. QED
  BY <1>3, <1>5, <1>7, <1>8 DEF FRAME_SIZE

(* The divisor a reset installs is one that divides.                       *)
LEMMA ResetDivides == 1 \in 0..(REG32 - 1) /\ Divides(1)
BY UartAssumption DEF Divides, Prescaler

-----------------------------------------------------------------------------
(* The helpers that change the flag word.                                  *)

FlagPair == [status : SUBSET Bits, irq : {0, 1}]

Exact(p, ctl) == (p.irq = 1) <=> (ctl \cap p.status # {})

(* set_status_bit keeps an exact interrupt line exact.                     *)
LEMMA SetStatusBit ==
  ASSUME NEW p \in FlagPair, NEW bit \in Bits, Exact(p, control)
  PROVE  LET q == set_status_bit(p, bit)
         IN  /\ q \in FlagPair
             /\ Exact(q, control)
             /\ q.status = WithE(p.status \cup {bit})
<1>. DEFINE st == WithE(p.status \cup {bit})
<1>1. st \in SUBSET Bits /\ p.status \subseteq st
  BY DEF FlagPair, WithE, Bits, E
<1>2. set_status_bit(p, bit) =
        [status |-> st, irq |-> IF control \cap st # {} THEN 1 ELSE p.irq]
  BY DEF set_status_bit, check_and_set_interrupt, FlagPair
<1>. HIDE DEF st
<1>. DEFINE q == set_status_bit(p, bit)
<1>3. q.status = st /\ q.irq = (IF control \cap st # {} THEN 1 ELSE p.irq)
  BY <1>2
<1>4. q \in FlagPair
  BY <1>1, <1>2 DEF FlagPair
<1>5. p.irq \in {0, 1}
  BY DEF FlagPair
<1>6. (q.irq = 1) <=> (control \cap st # {})
  BY <1>1, <1>3, <1>5 DEF Exact
<1>. QED
  BY <1>3, <1>4, <1>6 DEF Exact, st

(* reset_status_bit keeps an exact interrupt line exact.                   *)
LEMMA ResetStatusBit ==
  ASSUME NEW p \in FlagPair, NEW bit \in Bits, Exact(p, control)
  PROVE  LET q == reset_status_bit(p, bit)
         IN  /\ q \in FlagPair
             /\ Exact(q, control)
             /\ q.status = p.status \ {bit}
<1>. DEFINE st == p.status \ {bit}
<1>1. st \in SUBSET Bits /\ st \subseteq p.status
  BY DEF FlagPair
<1>2. reset_status_bit(p, bit) =
        [status |-> st, irq |-> IF control \cap st = {} THEN 0 ELSE p.irq]
  BY DEF reset_status_bit, check_and_clear_interrupt, FlagPair
<1>. HIDE DEF st
<1>. DEFINE q == reset_status_bit(p, bit)
<1>3. q.status = st /\ q.irq = (IF control \cap st = {} THEN 0 ELSE p.irq)
  BY <1>2
<1>4. q \in FlagPair
  BY <1>1, <1>2 DEF FlagPair
<1>5. p.irq \in {0, 1}
  BY DEF FlagPair
<1>6. (q.irq = 1) <=> (control \cap st # {})
  BY <1>1, <1>3, <1>5 DEF Exact
<1>. QED
  BY <1>3, <1>4, <1>6 DEF Exact, st

(* The two checks in a row make any line exact.                            *)
LEMMA CheckInterruptExact ==
  ASSUME NEW p \in FlagPair, NEW ctl
  PROVE  LET q == CheckInterrupt(p, ctl)
         IN  /\ q \in FlagPair
             /\ Exact(q, ctl)
             /\ q.status = p.status
<1>1. CheckInterrupt(p, ctl) =
        [status |-> p.status, irq |-> IF ctl \cap p.status # {} THEN 1 ELSE 0]
  BY DEF CheckInterrupt, check_and_set_interrupt, check_and_clear_interrupt, FlagPair
<1>. QED
  BY <1>1 DEF FlagPair, Exact

(* Storing an exact pair leaves the device with an exact line.             *)
LEMMA StoreFlags ==
  ASSUME NEW p \in FlagPair, SetFlags(p), Exact(p, control')
  PROVE  status' \in SUBSET Bits /\ irq' \in {0, 1} /\ IrqIsLevel'
BY DEF FlagPair, SetFlags, Exact, IrqIsLevel

-----------------------------------------------------------------------------
(* The inductive invariant for software that may write anything: the four  *)
(* state properties support each other through TypeOK alone.               *)
IInv == TypeOK /\ IrqIsLevel /\ RxBusyHasTimer /\ TimingInSync

(* The device comes out of realize in a good state.                        *)
LEMMA InitIInv == Init => IInv
<1>. SUFFICES ASSUME Init PROVE IInv
  OBVIOUS
<1>. USE UartAssumption
<1>1. CharTxTime(1) \in Nat /\ CharTxTime(1) > 0
  BY ResetDivides, CharTimePositive
<1>2. TypeOK
  BY <1>1, ResetDivides DEF Init, TypeOK, Word, Bits, TRDY, TMT, ZeroHi
<1>3. IrqIsLevel /\ RxBusyHasTimer
  BY DEF Init, IrqIsLevel, RxBusyHasTimer
<1>4. TimingInSync
  BY <1>1, ResetDivides DEF Init, TimingInSync, running
<1>. QED
  BY <1>2, <1>3, <1>4 DEF IInv

(* update_params keeps the character time in step with the divisor.        *)
LEMMA UpdateParams ==
  ASSUME TypeOK, NEW d \in 0..(REG32 - 1), running, divisor' = d, update_params(d)
  PROVE  char_tx_time' \in Nat /\ host' \in {"running", "dead"} /\ TimingInSync'
<1>1. Divides(divisor)' <=> Divides(d)
  BY DEF Divides, Prescaler
<1>2. CharTxTime(divisor)' = CharTxTime(d)
  BY DEF CharTxTime, baudrate, Prescaler
<1>3. CASE Divides(d)
  <2>1. char_tx_time' = CharTxTime(d) /\ host' = host
    BY <1>3 DEF update_params
  <2>2. CharTxTime(d) \in Nat /\ CharTxTime(d) > 0
    BY <1>3, CharTimePositive
  <2>. QED
    BY <1>1, <1>2, <1>3, <2>1, <2>2 DEF TimingInSync, TypeOK, running
<1>4. CASE ~Divides(d)
  BY <1>1, <1>4 DEF update_params, TimingInSync, TypeOK, running
<1>. QED
  BY <1>3, <1>4

(* The pair of flag word and line the handlers start from is exact.        *)
LEMMA FlagsExact ==
  ASSUME TypeOK, IrqIsLevel
  PROVE  Flags \in FlagPair /\ Exact(Flags, control)
BY DEF TypeOK, IrqIsLevel, Flags, FlagPair, Exact

(* Loading the transmit shift register.                                    *)
LEMMA ShiftStep ==
  ASSUME TypeOK, IrqIsLevel, NEW w \in Word, Shift(w), control' = control
  PROVE  /\ status' = WithE((status \ {TMT}) \cup {TRDY})
         /\ status' \in SUBSET Bits /\ irq' \in {0, 1} /\ IrqIsLevel'
         /\ tx_shift_register' \in Char /\ tx_timer' = "armed"
<1>. DEFINE p == reset_status_bit(Flags, TMT)
            q == set_status_bit(p, TRDY)
<1>1. p \in FlagPair /\ Exact(p, control) /\ p.status = status \ {TMT}
  <2>1. TMT \in Bits
    BY DEF TMT, Bits
  <2>. QED
    BY <2>1, FlagsExact, ResetStatusBit DEF Flags
<1>2. q \in FlagPair /\ Exact(q, control) /\ q.status = WithE((status \ {TMT}) \cup {TRDY})
  <2>1. TRDY \in Bits
    BY DEF TRDY, Bits
  <2>. HIDE DEF p
  <2>. QED
    BY <2>1, <1>1, SetStatusBit
<1>3. SetFlags(q)
  BY DEF Shift
<1>. HIDE DEF p, q
<1>4. status' \in SUBSET Bits /\ irq' \in {0, 1} /\ IrqIsLevel'
  BY <1>2, <1>3, StoreFlags
<1>5. status' = q.status
  BY <1>3 DEF SetFlags
<1>6. tx_shift_register' \in Char /\ tx_timer' = "armed"
  BY DEF Shift, LowByte, Word, wait_for_ch_tx_time
<1>. QED
  BY <1>2, <1>4, <1>5, <1>6

(* Setting, or resetting, one status bit as the only change of flags.      *)
LEMMA SetOneBit ==
  ASSUME TypeOK, IrqIsLevel, NEW bit \in Bits, control' = control,
         SetFlags(set_status_bit(Flags, bit))
  PROVE  /\ status' = WithE(status \cup {bit})
         /\ status' \in SUBSET Bits /\ irq' \in {0, 1} /\ IrqIsLevel'
<1>. DEFINE q == set_status_bit(Flags, bit)
<1>1. q \in FlagPair /\ Exact(q, control) /\ q.status = WithE(status \cup {bit})
  BY FlagsExact, SetStatusBit DEF Flags
<1>2. SetFlags(q)
  OBVIOUS
<1>. HIDE DEF q
<1>. QED
  BY <1>1, <1>2, StoreFlags DEF SetFlags

(* The same for reset_status_bit.                                          *)
LEMMA ResetOneBit ==
  ASSUME TypeOK, IrqIsLevel, NEW bit \in Bits, control' = control,
         SetFlags(reset_status_bit(Flags, bit))
  PROVE  /\ status' = status \ {bit}
         /\ status' \in SUBSET Bits /\ irq' \in {0, 1} /\ IrqIsLevel'
<1>. DEFINE q == reset_status_bit(Flags, bit)
<1>1. q \in FlagPair /\ Exact(q, control) /\ q.status = status \ {bit}
  BY FlagsExact, ResetStatusBit DEF Flags
<1>2. SetFlags(q)
  OBVIOUS
<1>. HIDE DEF q
<1>. QED
  BY <1>1, <1>2, StoreFlags DEF SetFlags

(* Timing is kept by every step that leaves its three variables alone.     *)
LEMMA TimingKept ==
  ASSUME TimingInSync, divisor' = divisor, char_tx_time' = char_tx_time, host' = host
  PROVE  TimingInSync'
BY DEF TimingInSync, Divides, Prescaler, CharTxTime, baudrate, running

(* Any write to STATUS, any other operation, any reset.                    *)
AnyNext ==
  \/ DeviceNext
  \/ \E val \in SUBSET Bits : WriteStatus(val)
  \/ uart_reset

(* Every step of every kind of software preserves the invariant.           *)
LEMMA NextIInv == IInv /\ (AnyNext \/ UNCHANGED vars) => IInv'
<1>. SUFFICES ASSUME IInv, AnyNext \/ UNCHANGED vars PROVE IInv'
  OBVIOUS
<1>. USE UartAssumption
<1>0. TypeOK /\ IrqIsLevel /\ RxBusyHasTimer /\ TimingInSync
  BY DEF IInv
<1>1. CASE uart_reset
  <2>1. TimingInSync' /\ char_tx_time' \in Nat /\ host' \in {"running", "dead"}
    BY <1>0, <1>1, UpdateParams, ResetDivides DEF uart_reset
  <2>2. TypeOK'
    BY <1>0, <1>1, <2>1, ResetDivides DEF uart_reset, TypeOK, SetFlags, Word, Bits, TRDY, TMT, ZeroHi
  <2>3. IrqIsLevel' /\ RxBusyHasTimer'
    BY <1>1 DEF uart_reset, SetFlags, IrqIsLevel, RxBusyHasTimer
  <2>. QED
    BY <2>1, <2>2, <2>3 DEF IInv
<1>2. ASSUME NEW c \in Char, uart_receive(c) PROVE IInv'
  <2>1. TypeOK'
    BY <1>0, <1>2 DEF uart_receive, TypeOK, wait_for_ch_tx_time
  <2>2. IrqIsLevel' /\ RxBusyHasTimer'
    BY <1>0, <1>2 DEF uart_receive, IrqIsLevel, RxBusyHasTimer, wait_for_ch_tx_time
  <2>3. TimingInSync'
    BY <1>0, <1>2, TimingKept DEF uart_receive
  <2>. QED
    BY <2>1, <2>2, <2>3 DEF IInv
<1>3. CASE timeout_rx
  <2>1. ArrivalBit \in Bits
    BY DEF ArrivalBit, Bits, RRDY, ROE
  <2>2. SetFlags(set_status_bit(Flags, ArrivalBit)) /\ control' = control
    BY <1>3 DEF timeout_rx
  <2>3. status' \in SUBSET Bits /\ irq' \in {0, 1} /\ IrqIsLevel'
    BY <1>0, <2>1, <2>2, SetOneBit
  <2>4. TypeOK' /\ RxBusyHasTimer'
    BY <1>0, <1>3, <2>3 DEF timeout_rx, TypeOK, RxBusyHasTimer
  <2>5. TimingInSync'
    BY <1>0, <1>3, TimingKept DEF timeout_rx
  <2>. QED
    BY <2>3, <2>4, <2>5 DEF IInv
<1>4. CASE timeout_tx
  <2>0. txdata \in Word /\ control' = control /\ TMT \in Bits
    BY <1>0, <1>4 DEF timeout_tx, TypeOK, TMT, Bits
  <2>1. /\ status' \in SUBSET Bits /\ irq' \in {0, 1} /\ IrqIsLevel'
        /\ tx_shift_register' \in Char /\ tx_timer' \in {"idle", "armed"}
    <3>1. CASE Shift(txdata)
      BY <1>0, <2>0, <3>1, ShiftStep
    <3>2. CASE /\ SetFlags(set_status_bit(Flags, TMT))
               /\ tx_timer' = "idle"
               /\ UNCHANGED tx_shift_register
      BY <1>0, <2>0, <3>2, SetOneBit DEF TypeOK
    <3>. QED
      BY <1>4, <3>1, <3>2 DEF timeout_tx
  <2>2. line' \in [ch : Char, flip : {0, 1}]
    BY <1>0, <1>4 DEF timeout_tx, TypeOK
  <2>3. TypeOK' /\ RxBusyHasTimer'
    BY <1>0, <1>4, <2>1, <2>2 DEF timeout_tx, TypeOK, RxBusyHasTimer
  <2>4. TimingInSync'
    BY <1>0, <1>4, TimingKept DEF timeout_tx
  <2>. QED
    BY <2>1, <2>3, <2>4 DEF IInv
<1>5. CASE ReadRxdata
  <2>1. status' \in SUBSET Bits /\ irq' \in {0, 1} /\ IrqIsLevel'
    <3>1. RRDY \in Bits /\ control' = control
      BY <1>5 DEF ReadRxdata, RRDY, Bits
    <3>. QED
      BY <1>0, <1>5, <3>1, ResetOneBit DEF ReadRxdata
  <2>2. TypeOK' /\ RxBusyHasTimer'
    BY <1>0, <1>5, <2>1 DEF ReadRxdata, TypeOK, RxBusyHasTimer
  <2>3. TimingInSync'
    BY <1>0, <1>5, TimingKept DEF ReadRxdata
  <2>. QED
    BY <2>1, <2>2, <2>3 DEF IInv
<1>6. ASSUME NEW w \in Word, WriteTxdata(w) PROVE IInv'
  <2>0. control' = control /\ TOE \in Bits /\ TRDY \in Bits
    BY <1>6 DEF WriteTxdata, TOE, TRDY, Bits
  <2>1. /\ status' \in SUBSET Bits /\ irq' \in {0, 1} /\ IrqIsLevel'
        /\ tx_shift_register' \in Char /\ tx_timer' \in {"idle", "armed"}
    <3>1. CASE Shift(w)
      BY <1>0, <2>0, <3>1, ShiftStep
    <3>2. CASE /\ SetFlags(set_status_bit(Flags, TOE))
               /\ UNCHANGED <<tx_shift_register, tx_timer>>
      BY <1>0, <2>0, <3>2, SetOneBit DEF TypeOK
    <3>3. CASE /\ SetFlags(reset_status_bit(Flags, TRDY))
               /\ UNCHANGED <<tx_shift_register, tx_timer>>
      BY <1>0, <2>0, <3>3, ResetOneBit DEF TypeOK
    <3>. QED
      BY <1>6, <3>1, <3>2, <3>3 DEF WriteTxdata
  <2>2. TypeOK' /\ RxBusyHasTimer'
    BY <1>0, <1>6, <2>1 DEF WriteTxdata, TypeOK, RxBusyHasTimer
  <2>3. TimingInSync'
    BY <1>0, <1>6, TimingKept DEF WriteTxdata
  <2>. QED
    BY <2>1, <2>2, <2>3 DEF IInv
<1>7. ASSUME NEW val \in SUBSET Bits, WriteStatus(val) PROVE IInv'
  <2>. DEFINE p == [status |-> val, irq |-> irq]
              q == CheckInterrupt(p, control)
  <2>1. q \in FlagPair /\ Exact(q, control)
    <3>1. p \in FlagPair
      BY <1>0 DEF FlagPair, TypeOK
    <3>. HIDE DEF p
    <3>. QED
      BY <3>1, CheckInterruptExact
  <2>2. SetFlags(q) /\ control' = control
    BY <1>7 DEF WriteStatus
  <2>. HIDE DEF q
  <2>3. status' \in SUBSET Bits /\ irq' \in {0, 1} /\ IrqIsLevel'
    BY <2>1, <2>2, StoreFlags
  <2>4. TypeOK' /\ RxBusyHasTimer'
    BY <1>0, <1>7, <2>3 DEF WriteStatus, TypeOK, RxBusyHasTimer
  <2>5. TimingInSync'
    BY <1>0, <1>7, TimingKept DEF WriteStatus
  <2>. QED
    BY <2>3, <2>4, <2>5 DEF IInv
<1>8. ASSUME NEW val \in ControlVals, WriteControl(val) PROVE IInv'
  <2>. DEFINE q == CheckInterrupt(Flags, val)
  <2>1. q \in FlagPair /\ Exact(q, val)
    BY <1>0, FlagsExact, CheckInterruptExact
  <2>2. SetFlags(q) /\ control' = val
    BY <1>8 DEF WriteControl
  <2>. HIDE DEF q
  <2>3. status' \in SUBSET Bits /\ irq' \in {0, 1} /\ IrqIsLevel'
    BY <2>1, <2>2, StoreFlags
  <2>4. TypeOK' /\ RxBusyHasTimer'
    BY <1>0, <1>8, <2>3 DEF WriteControl, TypeOK, RxBusyHasTimer
  <2>5. TimingInSync'
    BY <1>0, <1>8, TimingKept DEF WriteControl
  <2>. QED
    BY <2>3, <2>4, <2>5 DEF IInv
<1>9. ASSUME NEW val \in DivisorVals, WriteDivisor(val) PROVE IInv'
  <2>1. TimingInSync' /\ char_tx_time' \in Nat /\ host' \in {"running", "dead"}
    BY <1>0, <1>9, UpdateParams DEF WriteDivisor
  <2>2. TypeOK' /\ IrqIsLevel' /\ RxBusyHasTimer'
    BY <1>0, <1>9, <2>1 DEF WriteDivisor, TypeOK, IrqIsLevel, RxBusyHasTimer
  <2>. QED
    BY <2>1, <2>2 DEF IInv
<1>10. CASE UNCHANGED vars
  <2>1. TypeOK' /\ IrqIsLevel' /\ RxBusyHasTimer'
    BY <1>0, <1>10 DEF vars, TypeOK, IrqIsLevel, RxBusyHasTimer
  <2>2. TimingInSync'
    BY <1>0, <1>10, TimingKept DEF vars
  <2>. QED
    BY <2>1, <2>2 DEF IInv
<1>. QED
  BY <1>1, <1>2, <1>3, <1>4, <1>5, <1>6, <1>7, <1>8, <1>9, <1>10
     DEF AnyNext, DeviceNext

-----------------------------------------------------------------------------
(* Next, and the steps of disciplined software, are all steps of AnyNext.  *)
LEMMA NextIsAny ==
  ASSUME TypeOK, Next \/ ResettableNext
  PROVE  AnyNext
<1>1. CASE Next
  BY <1>1, UartAssumption DEF Next, AnyNext
<1>2. CASE ResettableNext
  <2>1. CASE ClearErrors
    <3>1. PICK bits \in SUBSET (ErrorBits \cup {E}) : WriteStatus(status \ bits)
      BY <2>1 DEF ClearErrors
    <3>2. status \ bits \in SUBSET Bits
      BY DEF TypeOK
    <3>. QED
      BY <3>1, <3>2 DEF AnyNext
  <2>2. CASE DeviceNext \/ uart_reset
    BY <2>2 DEF AnyNext
  <2>. QED
    BY <1>2, <2>1, <2>2 DEF ResettableNext, DisciplinedNext
<1>. QED
  BY <1>1, <1>2

(* The invariant holds for any software, with or without resets.           *)
THEOREM SpecIInv == Spec => []IInv
<1>1. IInv /\ [Next]_vars => IInv'
  BY NextIsAny, NextIInv DEF IInv
<1>. QED
  BY InitIInv, <1>1, PTL DEF Spec

(* Every register keeps a value of its width whatever software runs.       *)
THEOREM TypeCorrect == Spec => []TypeOK
<1>1. IInv => TypeOK
  BY DEF IInv
<1>. QED
  BY SpecIInv, <1>1, PTL

(* The interrupt line is high exactly when an enabled status bit is set.   *)
THEOREM IrqExact == Spec => []IrqIsLevel
<1>1. IInv => IrqIsLevel
  BY DEF IInv
<1>. QED
  BY SpecIInv, <1>1, PTL

(* A receiver that refuses characters has its timer running.               *)
THEOREM RxNeverDeaf == Spec => []RxBusyHasTimer
<1>1. IInv => RxBusyHasTimer
  BY DEF IInv
<1>. QED
  BY SpecIInv, <1>1, PTL

(* The character time follows the divisor, and only a divisor that cannot  *)
(* be divided by stops the emulator.                                       *)
THEOREM TimingCorrect == Spec => []TimingInSync
<1>1. IInv => TimingInSync
  BY DEF IInv
<1>. QED
  BY SpecIInv, <1>1, PTL

(* No divisor makes the device faster than its clock: the character time   *)
(* in force is at least FRAME_SIZE bits of the exact rate, whatever        *)
(* update_params loses to rounding.                                        *)
THEOREM NeverFasterThanTheClock ==
  Spec => [](Divides(divisor) => char_tx_time >= ExactBit(divisor) * FRAME_SIZE)
<1>1. IInv => (Divides(divisor) => char_tx_time >= ExactBit(divisor) * FRAME_SIZE)
  <2>. SUFFICES ASSUME IInv, Divides(divisor)
                PROVE  char_tx_time >= ExactBit(divisor) * FRAME_SIZE
    OBVIOUS
  <2>1. divisor \in 0..(REG32 - 1)
    BY DEF IInv, TypeOK
  <2>2. ExactBit(divisor) * FRAME_SIZE <= CharTxTime(divisor)
    BY <2>1, CharTimeCovers
  <2>3. char_tx_time = CharTxTime(divisor)
    BY DEF IInv, TimingInSync
  <2>. QED
    BY <2>2, <2>3
<1>. QED
  BY SpecIInv, <1>1, PTL

(* What a step that does not lower the divisor does to the character time. *)
NoShorter ==
  Divides(divisor) /\ Divides(divisor') /\ divisor <= divisor'
    => char_tx_time <= char_tx_time'

(* A step that raises DIVISOR, or leaves it, never shortens a character,   *)
(* although update_params divides and rounds twice.                        *)
THEOREM GreaterDivisorIsSlower == Spec => [][NoShorter]_vars
<1>1. IInv /\ IInv' => NoShorter
  <2>. SUFFICES ASSUME IInv, IInv', Divides(divisor), Divides(divisor'), divisor <= divisor'
                PROVE  char_tx_time <= char_tx_time'
    BY DEF NoShorter
  <2>1. divisor \in 0..(REG32 - 1) /\ divisor' \in 0..(REG32 - 1)
    BY DEF IInv, TypeOK
  <2>2. CharTxTime(divisor) <= CharTxTime(divisor')
    BY <2>1, CharTimeGrows
  <2>3. char_tx_time = CharTxTime(divisor)
    BY DEF IInv, TimingInSync
  <2>4. char_tx_time' = CharTxTime(divisor')
    BY DEF IInv, TimingInSync, Divides, CharTxTime, baudrate, Prescaler
  <2>. QED
    BY <2>2, <2>3, <2>4
<1>. QED
  BY SpecIInv, <1>1, PTL

-----------------------------------------------------------------------------
(* What each operation does to the flag word.                              *)

(* The receive timer sets RRDY, or ROE when RRDY is already set.           *)
LEMMA StatusTimeoutRx ==
  ASSUME IInv, timeout_rx
  PROVE  status' = WithE(status \cup {ArrivalBit})
<1>1. ArrivalBit \in Bits
  BY DEF ArrivalBit, Bits, RRDY, ROE
<1>2. SetFlags(set_status_bit(Flags, ArrivalBit)) /\ control' = control
  BY DEF timeout_rx
<1>. QED
  BY <1>1, <1>2, SetOneBit DEF IInv

(* The transmit timer loads the waiting character, or sets TMT.            *)
LEMMA StatusTimeoutTx ==
  ASSUME IInv, timeout_tx
  PROVE  /\ TRDY \notin status => /\ status' = WithE((status \ {TMT}) \cup {TRDY})
                                  /\ tx_timer' = "armed"
         /\ TRDY \in status => /\ status' = WithE(status \cup {TMT})
                               /\ tx_timer' = "idle"
<1>1. txdata \in Word /\ control' = control /\ TMT \in Bits
  BY DEF timeout_tx, IInv, TypeOK, TMT, Bits
<1>2. CASE TRDY \notin status
  BY <1>1, <1>2, ShiftStep DEF timeout_tx, IInv, CharWaiting
<1>3. CASE TRDY \in status
  BY <1>1, <1>3, SetOneBit DEF timeout_tx, IInv, CharWaiting
<1>. QED
  BY <1>2, <1>3

(* Reading RXDATA clears RRDY.                                             *)
LEMMA StatusReadRxdata ==
  ASSUME IInv, ReadRxdata
  PROVE  status' = status \ {RRDY}
<1>1. RRDY \in Bits /\ control' = control
  BY DEF ReadRxdata, RRDY, Bits
<1>. QED
  BY <1>1, ResetOneBit DEF ReadRxdata, IInv

(* Writing TXDATA starts a character, queues it, or sets TOE.              *)
LEMMA StatusWriteTxdata ==
  ASSUME IInv, NEW w \in Word, WriteTxdata(w)
  PROVE  /\ TMT \in status => /\ status' = WithE((status \ {TMT}) \cup {TRDY})
                              /\ tx_timer' = "armed"
         /\ TMT \notin status /\ TRDY \in status =>
              status' = status \ {TRDY} /\ tx_timer' = tx_timer
         /\ TMT \notin status /\ TRDY \notin status =>
              status' = WithE(status \cup {TOE}) /\ tx_timer' = tx_timer
<1>1. control' = control /\ TOE \in Bits /\ TRDY \in Bits
  BY DEF WriteTxdata, TOE, TRDY, Bits
<1>2. CASE TMT \in status
  BY <1>1, <1>2, ShiftStep DEF WriteTxdata, IInv
<1>3. CASE TMT \notin status /\ TRDY \in status
  BY <1>1, <1>3, ResetOneBit DEF WriteTxdata, IInv
<1>4. CASE TMT \notin status /\ TRDY \notin status
  BY <1>1, <1>4, SetOneBit DEF WriteTxdata, IInv
<1>. QED
  BY <1>2, <1>3, <1>4

(* Writing STATUS overwrites the whole flag word.                          *)
LEMMA StatusWriteStatus ==
  ASSUME IInv, NEW val \in SUBSET Bits, WriteStatus(val)
  PROVE  status' = val
BY DEF WriteStatus, SetFlags, CheckInterrupt, check_and_set_interrupt,
       check_and_clear_interrupt

-----------------------------------------------------------------------------
(* No step but a write to STATUS or a reset takes an error bit away.       *)
THEOREM ErrorsStayUntilCleared == Spec => ErrorsSticky
<1>. DEFINE Errs == ErrorBits \cup {E}
            Cleared == uart_reset \/ \E val \in StatusVals : WriteStatus(val)
<1>1. ASSUME IInv, Next \/ UNCHANGED vars
      PROVE  ((status \ status') \cap Errs # {}) => Cleared
  <2>1. SUFFICES ASSUME DeviceNext \/ UNCHANGED vars
                 PROVE  (status \ status') \cap Errs = {}
    BY <1>1 DEF Next
  <2>. USE DEF ErrorBits, PE, FE, BRK, ROE, TOE, TMT, TRDY, RRDY, E, WithE, ArrivalBit,
           CharWaiting
  <2>2. CASE timeout_rx
    BY <1>1, <2>2, StatusTimeoutRx
  <2>3. CASE timeout_tx
    BY <1>1, <2>3, StatusTimeoutTx
  <2>4. CASE ReadRxdata
    BY <1>1, <2>4, StatusReadRxdata
  <2>5. ASSUME NEW w \in Word, WriteTxdata(w)
        PROVE  (status \ status') \cap Errs = {}
    BY <1>1, <2>5, StatusWriteTxdata
  <2>6. ASSUME NEW val \in ControlVals, WriteControl(val)
        PROVE  status' = status
    BY <2>6 DEF WriteControl, SetFlags, CheckInterrupt, check_and_set_interrupt,
       check_and_clear_interrupt, Flags
  <2>7. CASE status' = status
    BY <2>7
  <2>. QED
    BY <2>1, <2>2, <2>3, <2>4, <2>5, <2>6, <2>7
       DEF DeviceNext, vars, uart_receive, WriteDivisor
<1>2. IInv /\ [Next]_vars => [((status \ status') \cap Errs # {}) => Cleared]_vars
  BY <1>1
<1>. QED
  BY SpecIInv, <1>2, PTL DEF Spec, ErrorsSticky

-----------------------------------------------------------------------------
(* Disciplined software.  IInv holds for it too, resets included.          *)
LEMMA ResettableIInv == ResettableSpec => []IInv
<1>1. IInv /\ [ResettableNext]_vars => IInv'
  BY NextIsAny, NextIInv DEF IInv
<1>. QED
  BY InitIInv, <1>1, PTL DEF ResettableSpec

(* Clearing error bits leaves the flow-control bits alone.                 *)
LEMMA StatusClearErrors ==
  ASSUME IInv, ClearErrors
  PROVE  /\ status' \subseteq status
         /\ status \ status' \subseteq ErrorBits \cup {E}
<1>1. PICK bits \in SUBSET (ErrorBits \cup {E}) : WriteStatus(status \ bits)
  BY DEF ClearErrors
<1>2. status' = status \ bits
  BY <1>1 DEF WriteStatus, SetFlags, CheckInterrupt, check_and_set_interrupt,
     check_and_clear_interrupt
<1>. QED
  BY <1>2

(* A step of disciplined software, or a reset, leaves no busy transmitter  *)
(* without a timer.                                                        *)
LEMMA TxBusyStep ==
  ASSUME IInv, TxBusyHasTimer, ResettableNext \/ UNCHANGED vars
  PROVE  TxBusyHasTimer'
<1>. USE DEF ErrorBits, PE, FE, BRK, ROE, TOE, TMT, TRDY, RRDY, E, WithE, ArrivalBit,
           CharWaiting
<1>1. CASE uart_reset
  BY <1>1 DEF uart_reset, SetFlags, TxBusyHasTimer
<1>2. CASE timeout_rx
  BY <1>2, StatusTimeoutRx DEF timeout_rx, TxBusyHasTimer
<1>3. CASE timeout_tx
  BY <1>3, StatusTimeoutTx DEF TxBusyHasTimer
<1>4. CASE ReadRxdata
  BY <1>4, StatusReadRxdata DEF ReadRxdata, TxBusyHasTimer
<1>5. ASSUME NEW w \in Word, WriteTxdata(w) PROVE TxBusyHasTimer'
  BY <1>5, StatusWriteTxdata DEF TxBusyHasTimer
<1>6. ASSUME NEW val \in ControlVals, WriteControl(val)
      PROVE  status' = status /\ tx_timer' = tx_timer
  BY <1>6 DEF WriteControl, SetFlags, CheckInterrupt, check_and_set_interrupt,
     check_and_clear_interrupt, Flags
<1>7. CASE status' = status /\ tx_timer' = tx_timer
  BY <1>7 DEF TxBusyHasTimer
<1>8. CASE ClearErrors
  <2>1. tx_timer' = tx_timer
    BY <1>8 DEF ClearErrors, WriteStatus
  <2>. QED
    BY <1>8, <2>1, StatusClearErrors DEF TxBusyHasTimer
<1>. QED
  BY <1>1, <1>2, <1>3, <1>4, <1>5, <1>6, <1>7, <1>8
     DEF ResettableNext, DisciplinedNext, DeviceNext, vars, uart_receive, WriteDivisor

(* The transmitter of disciplined software is never busy without a timer,  *)
(* across resets too.                                                      *)
THEOREM TxNeverStuck == ResettableSpec => []TxBusyHasTimer
<1>1. Init => TxBusyHasTimer
  BY DEF Init, TxBusyHasTimer, TMT, TRDY
<1>2. IInv /\ TxBusyHasTimer /\ [ResettableNext]_vars => TxBusyHasTimer'
  BY TxBusyStep
<1>. QED
  BY ResettableIInv, <1>1, <1>2, PTL DEF ResettableSpec

(* A behaviour without resets is one of the machine that may be reset.     *)
LEMMA DisciplinedIsResettable == DisciplinedSpec => ResettableSpec
<1>1. [DisciplinedNext]_vars => [ResettableNext]_vars
  BY DEF ResettableNext
<1>. QED
  BY <1>1, PTL DEF DisciplinedSpec, ResettableSpec

(* A step of disciplined software keeps flags and timers in agreement.     *)
LEMMA FlagsStep ==
  ASSUME IInv, FlagsMatchTimers, DisciplinedNext \/ UNCHANGED vars
  PROVE  FlagsMatchTimers'
<1>. USE DEF ErrorBits, PE, FE, BRK, ROE, TOE, TMT, TRDY, RRDY, E, WithE, ArrivalBit,
           CharWaiting
<1>. DEFINE Rest == TmtMeansSent /\ (rx_timer = "armed" => can_receive = 0)
<1>0. TxBusyHasTimer /\ Rest
  BY DEF FlagsMatchTimers
<1>1. Rest'
  <2>1. ASSUME NEW c \in Char, uart_receive(c) PROVE Rest'
    BY <1>0, <2>1 DEF uart_receive, TmtMeansSent
  <2>2. CASE timeout_rx
    BY <1>0, <2>2, StatusTimeoutRx DEF timeout_rx, TmtMeansSent
  <2>3. CASE timeout_tx
    BY <1>0, <2>3, StatusTimeoutTx DEF timeout_tx, TmtMeansSent, TxBusyHasTimer
  <2>4. CASE ReadRxdata
    BY <1>0, <2>4, StatusReadRxdata DEF ReadRxdata, TmtMeansSent
  <2>5. ASSUME NEW w \in Word, WriteTxdata(w) PROVE Rest'
    BY <1>0, <2>5, StatusWriteTxdata DEF WriteTxdata, TmtMeansSent, TxBusyHasTimer
  <2>6. ASSUME NEW val \in ControlVals, WriteControl(val)
        PROVE  UNCHANGED <<status, tx_timer, rx_timer, can_receive>>
    BY <2>6 DEF WriteControl, SetFlags, CheckInterrupt, check_and_set_interrupt,
       check_and_clear_interrupt, Flags
  <2>7. CASE UNCHANGED <<status, tx_timer, rx_timer, can_receive>>
    BY <1>0, <2>7 DEF TmtMeansSent
  <2>8. CASE ClearErrors
    <3>1. UNCHANGED <<tx_timer, rx_timer, can_receive>>
      BY <2>8 DEF ClearErrors, WriteStatus
    <3>. QED
      BY <1>0, <2>8, <3>1, StatusClearErrors DEF TmtMeansSent
  <2>. QED
    BY <1>0, <2>1, <2>2, <2>3, <2>4, <2>5, <2>6, <2>7, <2>8
       DEF DisciplinedNext, DeviceNext, vars, WriteDivisor
<1>2. TxBusyHasTimer'
  BY <1>0, TxBusyStep DEF ResettableNext
<1>. QED
  BY <1>1, <1>2 DEF FlagsMatchTimers

(* Without resets the flags and the timers of disciplined software agree.  *)
THEOREM FlagsAgree == DisciplinedSpec => []FlagsMatchTimers
<1>1. Init => FlagsMatchTimers
  BY DEF Init, FlagsMatchTimers, TxBusyHasTimer, TmtMeansSent, TMT, TRDY
<1>2. IInv /\ FlagsMatchTimers /\ [DisciplinedNext]_vars => FlagsMatchTimers'
  BY FlagsStep
<1>. QED
  BY DisciplinedIsResettable, ResettableIInv, <1>1, <1>2, PTL DEF DisciplinedSpec

-----------------------------------------------------------------------------
(* The device implements the serial port.  Every operation maps to the     *)
(* port's operation of the same meaning; writes to CONTROL and DIVISOR are *)
(* invisible.                                                              *)

(* The initial states agree.                                               *)
LEMMA PortInit == Init => Port!Init
BY DEF Init, Port!Init, Pipe, TRDY, TMT, TOE, RRDY, ROE

(* Operations of the receive side.                                         *)
LEMMA PortReceive ==
  ASSUME IInv, FlagsMatchTimers
  PROVE  /\ \A c \in Char : uart_receive(c) => Port!Arrive(c)
         /\ timeout_rx => Port!Complete
         /\ ReadRxdata => Port!Read
<1>. USE DEF ErrorBits, PE, FE, BRK, ROE, TOE, TMT, TRDY, RRDY, E, WithE, ArrivalBit,
           CharWaiting
<1>1. ASSUME NEW c \in Char, uart_receive(c) PROVE Port!Arrive(c)
  BY <1>1 DEF uart_receive, Port!Arrive, Port!tx, Pipe, LowByte
<1>2. ASSUME timeout_rx PROVE Port!Complete
  <2>1. can_receive = 0 /\ can_receive' = 1
    BY <1>2 DEF timeout_rx, FlagsMatchTimers
  <2>2. /\ (RRDY \in status)'
        /\ (ROE \in status)' <=> (ROE \in status \/ RRDY \in status)
        /\ (TOE \in status)' <=> TOE \in status
        /\ (TRDY \in status)' <=> TRDY \in status
    BY <1>2, StatusTimeoutRx
  <2>3. UNCHANGED <<tx_timer, tx_shift_register, txdata, line>>
    BY <1>2 DEF timeout_rx
  <2>4. rxdata' = rx_shift_register
    BY <1>2 DEF timeout_rx
  <2>. QED
    BY <2>1, <2>2, <2>3, <2>4 DEF Port!Complete, Port!tx, Pipe, LowByte
<1>3. ASSUME ReadRxdata PROVE Port!Read
  <2>1. /\ ~(RRDY \in status)'
        /\ (ROE \in status)' <=> ROE \in status
        /\ (TOE \in status)' <=> TOE \in status
        /\ (TRDY \in status)' <=> TRDY \in status
    BY <1>3, StatusReadRxdata
  <2>2. UNCHANGED <<tx_timer, tx_shift_register, txdata, line, can_receive,
                    rx_shift_register, rxdata>>
    BY <1>3 DEF ReadRxdata
  <2>. QED
    BY <2>1, <2>2 DEF Port!Read, Port!tx, Pipe, LowByte
<1>. QED
  BY <1>1, <1>2, <1>3

(* Operations of the transmit side.                                        *)
LEMMA PortTransmit ==
  ASSUME IInv, FlagsMatchTimers
  PROVE  /\ timeout_tx => Port!Emit
         /\ \A w \in Word : WriteTxdata(w) => Port!Put(LowByte(w))
<1>. USE DEF ErrorBits, PE, FE, BRK, ROE, TOE, TMT, TRDY, RRDY, E, WithE, ArrivalBit,
           CharWaiting
<1>0. /\ TMT \notin status <=> tx_timer = "armed"
      /\ TRDY \notin status => tx_timer = "armed"
      /\ tx_timer \in {"idle", "armed"}
  BY DEF FlagsMatchTimers, TxBusyHasTimer, TmtMeansSent, IInv, TypeOK
<1>1. ASSUME timeout_tx PROVE Port!Emit
  <2>1. /\ (RRDY \in status)' <=> RRDY \in status
        /\ (ROE \in status)' <=> ROE \in status
        /\ (TOE \in status)' <=> TOE \in status
        /\ (TRDY \in status)'
        /\ tx_timer' = (IF TRDY \in status THEN "idle" ELSE "armed")
    BY <1>1, StatusTimeoutTx
  <2>2. /\ UNCHANGED <<can_receive, rx_shift_register, rxdata>>
        /\ tx_timer = "armed"
        /\ line' = [ch |-> tx_shift_register, flip |-> 1 - line.flip]
        /\ TRDY \notin status => tx_shift_register' = LowByte(txdata)
    BY <1>1 DEF timeout_tx, Shift
  <2>3. Pipe # << >> /\ Head(Pipe) = tx_shift_register
    BY <2>2 DEF Pipe
  <2>4. Pipe' = Tail(Pipe)
    BY <2>1, <2>2 DEF Pipe
  <2>. QED
    BY <2>1, <2>2, <2>3, <2>4 DEF Port!Emit, Port!rx
<1>2. ASSUME NEW w \in Word, WriteTxdata(w) PROVE Port!Put(LowByte(w))
  <2>1. /\ (RRDY \in status)' <=> RRDY \in status
        /\ (ROE \in status)' <=> ROE \in status
        /\ (TOE \in status)' <=> (TOE \in status \/ TRDY \notin status)
        /\ tx_timer' = "armed"
        /\ (TRDY \in status)' <=> TMT \in status
    BY <1>0, <1>2, StatusWriteTxdata
  <2>2. /\ UNCHANGED <<can_receive, rx_shift_register, rxdata, line>>
        /\ txdata' = w
        /\ tx_shift_register' = IF TMT \in status THEN LowByte(w) ELSE tx_shift_register
    BY <1>2 DEF WriteTxdata, Shift
  <2>3. CASE TMT \in status
    <3>1. Pipe = << >> /\ Pipe' = <<LowByte(w)>> /\ TRDY \in status
      BY <1>0, <2>1, <2>2, <2>3 DEF Pipe
    <3>2. Len(Pipe) < 2 /\ Pipe' = Append(Pipe, LowByte(w))
      BY <3>1
    <3>. QED
      BY <2>1, <2>2, <3>1, <3>2 DEF Port!Put, Port!rx
  <2>4. CASE TMT \notin status /\ TRDY \in status
    <3>1. Pipe = <<tx_shift_register>> /\ Pipe' = <<tx_shift_register, LowByte(w)>>
      BY <1>0, <2>1, <2>2, <2>4 DEF Pipe, LowByte
    <3>2. Len(Pipe) < 2 /\ Pipe' = Append(Pipe, LowByte(w))
      BY <3>1
    <3>. QED
      BY <2>1, <2>2, <2>4, <3>2 DEF Port!Put, Port!rx
  <2>5. CASE TMT \notin status /\ TRDY \notin status
    <3>1. /\ Pipe = <<tx_shift_register, LowByte(txdata)>>
          /\ Pipe' = <<tx_shift_register, LowByte(w)>>
      BY <1>0, <2>1, <2>2, <2>5 DEF Pipe, LowByte
    <3>2. Len(Pipe) = 2 /\ Pipe' = <<Pipe[1], LowByte(w)>>
      BY <3>1
    <3>. QED
      BY <2>1, <2>2, <2>5, <3>2 DEF Port!Put, Port!rx
  <2>. QED
    BY <1>0, <2>3, <2>4, <2>5
<1>. QED
  BY <1>1, <1>2

(* Clearing errors, and what the port does not see.                        *)
LEMMA PortOther ==
  ASSUME IInv
  PROVE  /\ ClearErrors => Port!ClearErrors
         /\ \A val \in ControlVals : WriteControl(val) => UNCHANGED Port!vars
         /\ \A val \in DivisorVals : WriteDivisor(val) => UNCHANGED Port!vars
         /\ UNCHANGED vars => UNCHANGED Port!vars
<1>1. ASSUME ClearErrors PROVE Port!ClearErrors
  <2>. USE DEF ErrorBits, PE, FE, BRK, ROE, TOE, TMT, TRDY, RRDY, E
  <2>1. UNCHANGED <<tx_timer, tx_shift_register, txdata, line, can_receive,
                    rx_shift_register, rxdata>>
    BY <1>1 DEF ClearErrors, WriteStatus
  <2>2. /\ (RRDY \in status)' <=> RRDY \in status
        /\ (TRDY \in status)' <=> TRDY \in status
        /\ (ROE \in status)' => ROE \in status
        /\ (TOE \in status)' => TOE \in status
    BY <1>1, StatusClearErrors
  <2>3. UNCHANGED Pipe
    BY <2>1, <2>2 DEF Pipe, LowByte
  <2>. QED
    BY <2>1, <2>2, <2>3 DEF Port!ClearErrors
<1>2. ASSUME UNCHANGED <<status, tx_timer, tx_shift_register, txdata, line,
                         can_receive, rx_shift_register, rxdata>>
      PROVE  UNCHANGED Port!vars
  BY <1>2 DEF Port!vars, Pipe, LowByte
<1>3. ASSUME NEW val \in ControlVals, WriteControl(val) PROVE status' = status
  BY <1>3 DEF WriteControl, SetFlags, CheckInterrupt, check_and_set_interrupt,
     check_and_clear_interrupt, Flags
<1>. QED
  BY <1>1, <1>2, <1>3 DEF WriteControl, WriteDivisor, vars

(* A step of disciplined software is a step of the port, or none.          *)
LEMMA PortStep ==
  ASSUME IInv, FlagsMatchTimers, DisciplinedNext \/ UNCHANGED vars
  PROVE  Port!Next \/ UNCHANGED Port!vars
<1>1. \A w \in Word : LowByte(w) \in Char
  BY DEF Word, LowByte
<1>2. ASSUME NEW c \in Char, uart_receive(c) PROVE Port!Next
  BY <1>2, PortReceive DEF Port!Next
<1>3. CASE timeout_rx
  BY <1>3, PortReceive DEF Port!Next
<1>4. CASE timeout_tx
  BY <1>4, PortTransmit DEF Port!Next
<1>5. CASE ReadRxdata
  BY <1>5, PortReceive DEF Port!Next
<1>6. ASSUME NEW w \in Word, WriteTxdata(w) PROVE Port!Next
  BY <1>1, <1>6, PortTransmit DEF Port!Next
<1>7. CASE ClearErrors
  BY <1>7, PortOther DEF Port!Next
<1>8. ASSUME UNCHANGED vars \/ (\E val \in ControlVals : WriteControl(val))
               \/ (\E val \in DivisorVals : WriteDivisor(val))
      PROVE  UNCHANGED Port!vars
  BY <1>8, PortOther
<1>. QED
  BY <1>2, <1>3, <1>4, <1>5, <1>6, <1>7, <1>8 DEF DisciplinedNext, DeviceNext

(* To disciplined software the device is a serial port: a two-place queue  *)
(* out, a one-place register in, and nothing lost without its flag.        *)
THEOREM DeviceImplementsPort == DisciplinedSpec => Port!Spec
<1>1. IInv /\ FlagsMatchTimers /\ [DisciplinedNext]_vars => [Port!Next]_(Port!vars)
  BY PortStep
<1>. QED
  BY PortInit, <1>1, DisciplinedIsResettable, ResettableIInv, FlagsAgree, PTL
     DEF DisciplinedSpec, Port!Spec
=============================================================================
