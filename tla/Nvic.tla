-------------------------------- MODULE Nvic --------------------------------
(***************************************************************************)
(* The interrupt controller of the board (qemu/hw/intc/armv7m_nvic.c) for  *)
(* a Cortex-M7, which has no security extension, and the entry to and      *)
(* return from exceptions of the processor that drives it                  *)
(* (qemu/target/arm/tcg/m_helper.c, cpu-v7m.c).                            *)
(*                                                                         *)
(* A field of VecInfo that is 0 or 1 is the set of exceptions that have it *)
(* set.  vectpending, vectpending_prio and exception_prio cache what       *)
(* nvic_recompute_state computes.  Each register write, each change of a   *)
(* line and each entry or return runs under one lock and is one step.      *)
(* Pushing registers and loading vectors always succeed here, a handler    *)
(* returns through the frame of its entry, and nobody writes SHCSR, which  *)
(* sets the enabled, pending and active bits of faults by hand.  A write   *)
(* to several fields of ICSR or several priority bytes is as many steps in *)
(* a row.                                                                  *)
(***************************************************************************)
EXTENDS Integers, Sequences

CONSTANTS
  Irq,        \* exceptions with an external line (16 and up)
  Watched,    \* any one of them
  Internal,   \* the other exceptions
  Settings,   \* pairs of an exception and a byte for its priority register
  PrioStep,   \* 2^(8 - num_prio_bits): the bits below are not kept
  Groups,     \* values of AIRCR.PRIGROUP the software uses
  Basepris    \* values of BASEPRI it uses

NMI == 2
HARD == 3
MEM == 4
BUS == 5
USAGE == 6
SVC == 11
DEBUG == 12
PENDSV == 14
SYSTICK == 15
NVIC_FIRST_IRQ == 16
NVIC_NOEXC_PRIO == 256

Exc == Internal \cup Irq

(* Faults and calls that an instruction raises and that must be taken at   *)
(* once; HardFault itself is only reached by escalation.                   *)
Synchronous == {e \in Internal : e > HARD /\ e < PENDSV}
Configurable == {e \in Exc : e > HARD}

Kept(p) == p - (p % PrioStep)

ASSUME NvicAssumption ==
  /\ Watched \in Irq
  /\ Irq \subseteq Nat /\ \A n \in Irq : n >= NVIC_FIRST_IRQ
  /\ HARD \in Internal
  /\ Internal \subseteq {NMI, HARD, MEM, BUS, USAGE, SVC, DEBUG, PENDSV, SYSTICK}
  /\ \A s \in Settings : s[1] \in Configurable /\ Kept(s[2]) \in 0..255
  /\ Groups \subseteq 0..7 /\ Basepris \subseteq 0..255

VARIABLES
  prio, enabled, pending, active, level,        \* vectors[]
  prigroup,
  vectpending, vectpending_prio, exception_prio,
  excpout,    \* the output, as the interrupt request of the processor
  primask, basepri, faultmask,                  \* of the processor
  stack,      \* the exceptions whose handlers are entered, innermost last
  host,       \* "assert" or "lockup" once QEMU aborted
  disturbed   \* 1 once the software moved the priority of an active exception

vectors == <<prio, enabled, pending, active, level, prigroup>>
cache == <<vectpending, vectpending_prio, exception_prio, excpout>>
masks == <<primask, basepri, faultmask>>
vars == <<vectors, cache, masks, stack, host, disturbed>>

-----------------------------------------------------------------------------
(* nvic_gprio_mask and exc_group_prio.                                     *)
Span == <<2, 4, 8, 16, 32, 64, 128, 256>>
exc_group_prio(g, p) == IF p > 0 THEN p - (p % Span[g + 1]) ELSE p

(* nvic_recompute_state: the loop keeps the first of the lowest values.    *)
Urgent(pr, S) == CHOOSE i \in S : \A j \in S : pr[i] < pr[j] \/ (pr[i] = pr[j] /\ i <= j)

PendIrq(pr, en, pe) == IF en \cap pe = {} THEN 0 ELSE Urgent(pr, en \cap pe)

BestPrio(g, pr, S) ==
  IF S = {} THEN NVIC_NOEXC_PRIO ELSE exc_group_prio(g, pr[Urgent(pr, S)])

PendPrio(g, pr, en, pe) == BestPrio(g, pr, en \cap pe)
ActivePrio_ResetGroup(g, pr, ac) == BestPrio(0, pr, ac)
ActivePrio(g, pr, ac) == BestPrio(g, pr, ac)

(* nvic_exec_prio, for the masks of the processor and an active priority.  *)
Lower(a, b) == IF a < b THEN a ELSE b

MaskPrio_NoBasepri(fm) == IF fm = 1 THEN -1 ELSE IF primask = 1 THEN 0 ELSE NVIC_NOEXC_PRIO
MaskPrio(fm) ==
  IF fm = 1 THEN -1
  ELSE IF primask = 1 THEN 0
  ELSE IF basepri > 0 THEN exc_group_prio(prigroup, basepri)
  ELSE NVIC_NOEXC_PRIO

nvic_exec_prio == Lower(MaskPrio(faultmask), exception_prio)

armv7m_nvic_can_take_pending_exception == nvic_exec_prio > vectpending_prio

(* nvic_irq_update: the output ignores the masks of the processor.         *)
Output_Masked(p, a) == IF p < Lower(MaskPrio(faultmask), a) THEN 1 ELSE 0
Output(p, a) == IF p < a THEN 1 ELSE 0

nvic_irq_update ==
  /\ vectpending' = PendIrq(prio', enabled', pending')
  /\ vectpending_prio' = PendPrio(prigroup', prio', enabled', pending')
  /\ exception_prio' = ActivePrio(prigroup', prio', active')
  /\ excpout' = Output(vectpending_prio', exception_prio')

-----------------------------------------------------------------------------
Init ==
  /\ prio = [e \in Exc |-> IF e = NMI THEN -2 ELSE IF e = HARD THEN -1 ELSE 0]
  /\ enabled = Internal \cap {NMI, HARD, SVC, PENDSV, SYSTICK}
  /\ pending = {} /\ active = {} /\ level = {}
  /\ prigroup = 0
  /\ vectpending = 0 /\ vectpending_prio = NVIC_NOEXC_PRIO
  /\ exception_prio = NVIC_NOEXC_PRIO /\ excpout = 0
  /\ primask = 0 /\ basepri = 0 /\ faultmask = 0
  /\ stack = << >> /\ disturbed = 0
  /\ host = "runs"

running == host = "runs"

(* A machine reset resets the controller and the processor.                *)
armv7m_nvic_reset ==
  /\ running
  /\ prio' = [e \in Exc |-> IF e = NMI THEN -2 ELSE IF e = HARD THEN -1 ELSE 0]
  /\ enabled' = Internal \cap {NMI, HARD, SVC, PENDSV, SYSTICK}
  /\ pending' = {} /\ active' = {} /\ level' = {}
  /\ prigroup' = 0
  /\ vectpending' = 0 /\ vectpending_prio' = NVIC_NOEXC_PRIO
  /\ exception_prio' = NVIC_NOEXC_PRIO /\ excpout' = 0
  /\ primask' = 0 /\ basepri' = 0 /\ faultmask' = 0
  /\ stack' = << >> /\ disturbed' = 0
  /\ UNCHANGED host

-----------------------------------------------------------------------------
(* armv7m_nvic_set_pending for an exception that is not synchronous, and   *)
(* armv7m_nvic_clear_pending: neither looks further when nothing changes.  *)
set_pending_Stale(e) == pending' = pending \cup {e} /\ UNCHANGED cache
set_pending(e) ==
  IF e \in pending THEN UNCHANGED <<pending, cache>>
  ELSE pending' = pending \cup {e} /\ nvic_irq_update

clear_pending(e) ==
  IF e \notin pending THEN UNCHANGED <<pending, cache>>
  ELSE pending' = pending \ {e} /\ nvic_irq_update

Elsewhere == UNCHANGED <<masks, stack, host, disturbed>>

set_irq_level(n, lv) ==
  /\ running
  /\ lv # (n \in level)
  /\ UNCHANGED <<prio, enabled, active, prigroup>>
  /\ IF lv THEN level' = level \cup {n} /\ set_pending(n)
     ELSE level' = level \ {n} /\ UNCHANGED <<pending, cache>>
  /\ Elsewhere

(* SysTick, ICSR and STIR pend an exception.                               *)
Pends(e) ==
  /\ running
  /\ UNCHANGED <<prio, enabled, active, level, prigroup>>
  /\ set_pending(e)
  /\ Elsewhere

Unpends(e) ==
  /\ running
  /\ UNCHANGED <<prio, enabled, active, level, prigroup>>
  /\ clear_pending(e)
  /\ Elsewhere

-----------------------------------------------------------------------------
(* nvic_sysreg_write: enable, pend and priority registers.  A word written *)
(* to the first two is the set of lines whose bit is 1.                    *)
WriteEnable(S, setval) ==
  /\ running
  /\ enabled' = IF setval = 1 THEN enabled \cup S ELSE enabled \ S
  /\ UNCHANGED <<prio, pending, active, level, prigroup>>
  /\ nvic_irq_update
  /\ Elsewhere

(* A line that is high and has no active handler keeps its pending bit.    *)
ClearsPend(S) == {n \in S : ~(n \in level /\ n \notin active)}

WritePend(S, setval) ==
  /\ running
  /\ pending' = IF setval = 1 THEN pending \cup S ELSE pending \ ClearsPend(S)
  /\ UNCHANGED <<prio, enabled, active, level, prigroup>>
  /\ nvic_irq_update
  /\ Elsewhere

set_prio(e, p) ==
  /\ running
  /\ prio' = [prio EXCEPT ![e] = Kept(p)]
  /\ UNCHANGED <<enabled, pending, active, level, prigroup>>
  /\ nvic_irq_update
  /\ disturbed' = IF e \in active /\ prio[e] # prio'[e] THEN 1 ELSE disturbed
  /\ UNCHANGED <<masks, stack, host>>

WriteAircr(g) ==
  /\ running
  /\ prigroup' = g
  /\ UNCHANGED <<prio, enabled, pending, active, level>>
  /\ nvic_irq_update
  /\ disturbed' = IF active # {} /\ prigroup # g THEN 1 ELSE disturbed
  /\ UNCHANGED <<masks, stack, host>>

(* MSR to PRIMASK, BASEPRI and FAULTMASK does not reach the controller.    *)
WriteMasks ==
  /\ running
  /\ \/ primask' \in {0, 1} /\ UNCHANGED <<basepri, faultmask>>
     \/ basepri' \in Basepris /\ UNCHANGED <<primask, faultmask>>
     \/ faultmask' \in {0, 1} /\ UNCHANGED <<primask, basepri>>
  /\ UNCHANGED <<vectors, cache, stack, host, disturbed>>

-----------------------------------------------------------------------------
(* armv7m_nvic_acknowledge_irq for pending exceptions pe, active ones ac   *)
(* and the frames of outer handlers, with the choice e and its priority p  *)
(* as cached.  A failed assertion aborts.                                  *)
acknowledge(e, p, now, pe, ac, outer) ==
  LET fine == e # 0 /\ e \in enabled /\ e \in pe /\ p < now
  IN  /\ pending' = pe \ {e}
      /\ active' = ac \cup {e}
      /\ stack' = Append(outer, e)
      /\ host' = IF fine THEN host ELSE "assert"

(* arm_v7m_cpu_exec_interrupt.                                             *)
exec_interrupt ==
  /\ running
  /\ excpout = 1 /\ armv7m_nvic_can_take_pending_exception
  /\ acknowledge(vectpending, vectpending_prio, nvic_exec_prio, pending, active, stack)
  /\ UNCHANGED <<prio, enabled, level, prigroup>>
  /\ nvic_irq_update
  /\ UNCHANGED <<masks, disturbed>>

(* An instruction raises e: do_armv7m_nvic_set_pending escalates it to     *)
(* HardFault when it cannot be taken now, and the most urgent exception is *)
(* taken at once, which need not be e.                                     *)
Escalates_Never(e) == FALSE
Escalates(e) == exc_group_prio(prigroup, prio[e]) >= nvic_exec_prio \/ e \notin enabled

do_interrupt(e) ==
  LET x == IF Escalates(e) THEN HARD ELSE e
      pe == pending \cup {x}
      chosen == IF x \in pending THEN vectpending ELSE PendIrq(prio, enabled, pe)
      p == IF x \in pending THEN vectpending_prio ELSE PendPrio(prigroup, prio, enabled, pe)
  IN  /\ running
      /\ \/ /\ Escalates(e) /\ nvic_exec_prio <= prio[HARD]
            /\ host' = "lockup"
            /\ UNCHANGED <<vectors, cache, stack>>
         \/ /\ ~(Escalates(e) /\ nvic_exec_prio <= prio[HARD])
            /\ acknowledge(chosen, p, nvic_exec_prio, pe, active, stack)
            /\ UNCHANGED <<prio, enabled, level, prigroup>>
            /\ nvic_irq_update
      /\ UNCHANGED <<masks, disturbed>>

(* do_v7m_exception_exit: FAULTMASK is cleared except by NMI;              *)
(* armv7m_nvic_complete_irq pends a line that is still high; a pending     *)
(* exception that can be taken now is entered without a return.            *)
Repended_Never(n) == {}
Repended(n) == level \cap {n}

exception_exit ==
  LET n == stack[Len(stack)]
      outer == SubSeq(stack, 1, Len(stack) - 1)
      fm == IF n = NMI THEN faultmask ELSE 0
      pe == pending \cup Repended(n)
      ac == active \ {n}
      now == Lower(MaskPrio(fm), ActivePrio(prigroup, prio, ac))
      p == PendPrio(prigroup, prio, enabled, pe)
  IN  /\ running
      /\ stack # << >>
      /\ faultmask' = fm
      /\ \/ /\ now > p
            /\ acknowledge(PendIrq(prio, enabled, pe), p, now, pe, ac, outer)
         \/ /\ ~(now > p)
            /\ pending' = pe /\ active' = ac /\ stack' = outer /\ UNCHANGED host
      /\ UNCHANGED <<prio, enabled, level, prigroup>>
      /\ nvic_irq_update
      /\ UNCHANGED <<primask, basepri, disturbed>>

-----------------------------------------------------------------------------
Next ==
  \/ \E n \in Irq, lv \in BOOLEAN : set_irq_level(n, lv)
  \/ \E e \in Irq \cup (Internal \cap {NMI, PENDSV, SYSTICK}) : Pends(e)
  \/ \E e \in Internal \cap {PENDSV, SYSTICK} : Unpends(e)
  \/ \E S \in SUBSET Irq, setval \in {0, 1} : WriteEnable(S, setval) \/ WritePend(S, setval)
  \/ \E s \in Settings : set_prio(s[1], s[2])
  \/ \E g \in Groups : WriteAircr(g)
  \/ WriteMasks
  \/ exec_interrupt
  \/ \E e \in Synchronous : do_interrupt(e)
  \/ exception_exit
  \/ armv7m_nvic_reset

Spec == Init /\ [][Next]_vars

-----------------------------------------------------------------------------
(* The cached choice, its priority and the active priority are what a new  *)
(* computation would give: no path changes a vector and forgets the        *)
(* update.                                                                 *)
CacheExact ==
  /\ vectpending = PendIrq(prio, enabled, pending)
  /\ vectpending_prio = PendPrio(prigroup, prio, enabled, pending)
  /\ exception_prio = ActivePrio(prigroup, prio, active)

(* The output is raised whenever the processor could take an exception,    *)
(* although changes of the masks do not reach the controller: no interrupt *)
(* waits behind a low output.                                              *)
OutputCovers == armv7m_nvic_can_take_pending_exception => excpout = 1

(* The assertions of armv7m_nvic_acknowledge_irq hold on every entry: from *)
(* the output, from an instruction and on a return.                        *)
AssertionsHold == host # "assert"

(* Whatever priorities the software writes, no handler is entered while it *)
(* is active: the frames on the stack are the active exceptions, each      *)
(* once, so every return is legal.                                         *)
NoReentry ==
  /\ active = {stack[i] : i \in DOMAIN stack}
  /\ \A i, j \in DOMAIN stack : i # j => stack[i] # stack[j]

(* A handler preempts only less urgent ones, unless the software moved     *)
(* the priority of an active exception.                                    *)
Nested ==
  disturbed = 0 =>
    \A i, j \in DOMAIN stack :
      i < j => exc_group_prio(prigroup, prio[stack[j]]) < exc_group_prio(prigroup, prio[stack[i]])

(* A handler is entered: on top of the others, or in place of the one that *)
(* returns.                                                                *)
Enters(e) ==
  /\ stack' # << >> /\ e = stack'[Len(stack')]
  /\ Len(stack') > Len(stack) \/ (exception_exit /\ Len(stack') = Len(stack))

(* Critical sections hold, whichever of the three ways leads to an entry:  *)
(* under FAULTMASK only NMI is entered, under PRIMASK only NMI and         *)
(* HardFault, under BASEPRI only what is more urgent in its group, and     *)
(* what is entered is more urgent than every handler it interrupts; no     *)
(* enabled exception that is more urgent is left waiting.                  *)
EntryIsDue ==
  [][\A e \in Exc : Enters(e) =>
       /\ faultmask' = 1 => e = NMI
       /\ primask = 1 => e \in {NMI, HARD}
       /\ basepri > 0 => exc_group_prio(prigroup, prio[e]) < exc_group_prio(prigroup, basepri)
       /\ \A a \in active' \ {e} :
            exc_group_prio(prigroup, prio[e]) < exc_group_prio(prigroup, prio[a])
       /\ \A j \in enabled \cap pending' : prio[e] <= prio[j]]_vars

(* A line that is high has its interrupt pending or its handler active,    *)
(* whatever the software writes to the pend registers.                     *)
LineDue == level \subseteq pending \cup active

(* Every line is an InterruptLine: Watched stands for any of them.         *)
Latch == INSTANCE InterruptLine WITH
  level <- Watched \in level, pending <- Watched \in pending, active <- Watched \in active

LineLatches == Latch!Spec
=============================================================================
