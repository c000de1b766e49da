----------------------------- MODULE NvicProofs -----------------------------
(***************************************************************************)
(* Theorems about the interrupt controller, for every set of exceptions    *)
(* and lines and all priorities, groups and masks the software writes.     *)
(***************************************************************************)
EXTENDS Nvic, NaturalFacts, TLAPS

(* exc_group_prio keeps the range of raw priorities.                       *)
LEMMA GroupRange ==
  ASSUME NEW g \in 0..7, NEW a \in -2..255
  PROVE  exc_group_prio(g, a) \in -2..255
  <1> DEFINE m == Span[g + 1]
  <1>1. m \in Nat \ {0}
    BY DEF Span
  <1>2. exc_group_prio(g, a) = IF a > 0 THEN a - (a % m) ELSE a
    BY DEF exc_group_prio
  <1> HIDE DEF m
  <1>3. a > 0 => a - (a % m) \in 0..a
    BY <1>1, FloorOrder
  <1>4. QED
    BY <1>2, <1>3

(* It keeps their order.                                                   *)
LEMMA GroupOrder ==
  ASSUME NEW g \in 0..7, NEW a \in -2..255, NEW b \in -2..255, a <= b
  PROVE  exc_group_prio(g, a) <= exc_group_prio(g, b)
  <1> DEFINE m == Span[g + 1]
  <1>1. m \in Nat \ {0}
    BY DEF Span
  <1>2. /\ exc_group_prio(g, a) = IF a > 0 THEN a - (a % m) ELSE a
        /\ exc_group_prio(g, b) = IF b > 0 THEN b - (b % m) ELSE b
    BY DEF exc_group_prio
  <1> HIDE DEF m
  <1>3. ASSUME a > 0 PROVE a - (a % m) <= b - (b % m)
    <2>1. a \in Nat /\ b \in Nat
      BY <1>3
    <2>2. QED
      BY <1>1, <2>1, FloorOrder, Zenon
  <1>4. b > 0 => b - (b % m) \in 0..b
    BY <1>1, FloorOrder
  <1>5. QED
    BY <1>2, <1>3, <1>4

(* What a comparison of priorities may meet: 256 is "no exception".        *)
Rank == -2..256

(* The order of three of them.                                             *)
LEMMA Below ==
  ASSUME NEW a \in Rank, NEW b \in Rank, NEW c \in Rank, a < b, b <= c
  PROVE  a < c
  BY DEF Rank

(* The last element of a stack is the one that was pushed.                 *)
LEMMA Pushed ==
  ASSUME NEW S, NEW q \in Seq(S), NEW x \in S
  PROVE  Append(q, x)[Len(Append(q, x))] = x
  OBVIOUS

Priorities == [Exc -> -2..255]

(* Exceptions are natural numbers.                                         *)
LEMMA ExcNat == Exc \subseteq Nat /\ HARD \in Exc /\ Irq \subseteq Exc
  BY NvicAssumption DEF Exc, NMI, HARD, MEM, BUS, USAGE, SVC, DEBUG, PENDSV, SYSTICK

(* The loop of nvic_recompute_state finds a member with the least value.   *)
LEMMA UrgentIs ==
  ASSUME NEW pr \in Priorities, NEW S \in SUBSET Exc, S # {}
  PROVE  /\ Urgent(pr, S) \in S
         /\ \A j \in S : pr[Urgent(pr, S)] <= pr[j]
  <1> DEFINE T == {pr[i] + 2 : i \in S}
  <1>1. \A i \in S : pr[i] \in -2..255 /\ i \in Nat
    BY ExcNat DEF Priorities
  <1>2. T \in SUBSET Nat /\ T # {}
    BY <1>1
  <1>3. PICK x \in T : \A y \in T : x <= y
    BY <1>2, LeastNatural, Zenon
  <1> DEFINE U == {i \in S : pr[i] + 2 = x}
  <1>4. U \in SUBSET Nat /\ U # {}
    BY <1>1
  <1>5. PICK m \in U : \A j \in U : m <= j
    BY <1>4, LeastNatural, Zenon
  <1>6. \A j \in S : pr[m] < pr[j] \/ (pr[m] = pr[j] /\ m <= j)
    <2> SUFFICES ASSUME NEW j \in S
                 PROVE  pr[m] < pr[j] \/ (pr[m] = pr[j] /\ m <= j)
      OBVIOUS
    <2>0. pr[j] + 2 \in T
      OBVIOUS
    <2>1. pr[m] + 2 = x /\ x <= pr[j] + 2
      <3> HIDE DEF T
      <3> QED BY <1>3, <2>0
    <2>2. pr[j] + 2 = x => m <= j
      BY <1>5
    <2>3. m \in S
      OBVIOUS
    <2> HIDE DEF T, U
    <2>4. pr[m] \in Int /\ pr[j] \in Int
      BY <1>1, <2>3
    <2>5. QED
      BY <2>1, <2>2, <2>4
  <1>7. m \in S
    OBVIOUS
  <1> HIDE DEF T, U
  <1> DEFINE u == Urgent(pr, S)
             First(i) == \A j \in S : pr[i] < pr[j] \/ (pr[i] = pr[j] /\ i <= j)
  <1>8. u \in S /\ First(u)
    <2>1. u = CHOOSE i \in S : First(i)
      BY DEF Urgent
    <2>2. \E i \in S : First(i)
      BY <1>6, <1>7, Zenon
    <2> HIDE DEF First, u
    <2>3. QED
      BY <2>1, <2>2, Zenon
  <1> HIDE DEF u
  <1>9. \A j \in S : pr[u] <= pr[j]
    <2> TAKE j \in S
    <2>1. pr[u] \in Int /\ pr[j] \in Int
      BY <1>1, <1>8
    <2>2. pr[u] < pr[j] \/ pr[u] = pr[j]
      BY <1>8
    <2>3. QED
      BY <2>1, <2>2
  <1>10. QED
    BY <1>8, <1>9 DEF u

(* The priority computed for a set of exceptions is that of its most       *)
(* urgent member.                                                          *)
LEMMA BestOf ==
  ASSUME NEW g \in 0..7, NEW pr \in Priorities, NEW S \in SUBSET Exc, S # {}
  PROVE  /\ Urgent(pr, S) \in S
         /\ BestPrio(g, pr, S) = exc_group_prio(g, pr[Urgent(pr, S)])
         /\ BestPrio(g, pr, S) \in -2..255
  <1> DEFINE u == Urgent(pr, S)
  <1>1. u \in S
    BY UrgentIs, Zenon
  <1>2. BestPrio(g, pr, S) = exc_group_prio(g, pr[u])
    BY DEF BestPrio
  <1> HIDE DEF u
  <1>3. pr[u] \in -2..255
    BY <1>1 DEF Priorities
  <1>4. exc_group_prio(g, pr[u]) \in -2..255
    BY <1>3, GroupRange, Zenon
  <1>5. QED
    BY <1>1, <1>2, <1>4, Zenon DEF u

(* It bounds the priority of each one.                                     *)
LEMMA BestEach ==
  ASSUME NEW g \in 0..7, NEW pr \in Priorities, NEW S \in SUBSET Exc, NEW j \in S
  PROVE  BestPrio(g, pr, S) <= exc_group_prio(g, pr[j])
  <1> DEFINE u == Urgent(pr, S)
  <1>1. S # {}
    OBVIOUS
  <1>2. u \in S /\ pr[u] <= pr[j]
    BY <1>1, UrgentIs, Zenon
  <1>3. BestPrio(g, pr, S) = exc_group_prio(g, pr[u])
    BY <1>1, BestOf, Zenon
  <1> HIDE DEF u
  <1>4. pr[u] \in -2..255 /\ pr[j] \in -2..255
    BY <1>2, Zenon DEF Priorities
  <1>5. exc_group_prio(g, pr[u]) <= exc_group_prio(g, pr[j])
    BY <1>2, <1>4, GroupOrder, Zenon
  <1>6. QED
    BY <1>3, <1>5

(* No exception at all counts as 256, below every priority.                *)
LEMMA BestRange ==
  ASSUME NEW g \in 0..7, NEW pr \in Priorities, NEW S \in SUBSET Exc
  PROVE  /\ BestPrio(g, pr, S) \in Rank
         /\ S = {} => BestPrio(g, pr, S) = 256
  <1>1. CASE S = {}
    BY <1>1 DEF BestPrio, NVIC_NOEXC_PRIO, Rank
  <1>2. CASE S # {}
    <2> DEFINE b == BestPrio(g, pr, S)
    <2>1. b \in -2..255
      BY <1>2, BestOf, Zenon
    <2> HIDE DEF b
    <2>2. b \in Rank
      BY <2>1 DEF Rank
    <2>3. QED
      BY <1>2, <2>2 DEF b
  <1>3. QED
    BY <1>1, <1>2

(* The exception e, of group priority p, is the most urgent of the set S,  *)
(* not in the set ac, and its group is below the groups of all of ac.      *)
Chosen(e, p, g, pr, S, ac) ==
  /\ e \in S \ ac
  /\ \A a \in ac : exc_group_prio(g, pr[e]) < exc_group_prio(g, pr[a])
  /\ \A j \in S : pr[e] <= pr[j]
  /\ p = exc_group_prio(g, pr[e])

(* An exception chosen below the active priority exists, is not active and *)
(* is more urgent than every active one and than every other candidate.    *)
LEMMA ChosenBelow ==
  ASSUME NEW g \in 0..7, NEW pr \in Priorities,
         NEW en \in SUBSET Exc, NEW pe \in SUBSET Exc, NEW ac \in SUBSET Exc,
         PendPrio(g, pr, en, pe) < ActivePrio(g, pr, ac)
  PROVE  Chosen(PendIrq(pr, en, pe), PendPrio(g, pr, en, pe), g, pr, en \cap pe, ac)
  <1> DEFINE S == en \cap pe
             e == PendIrq(pr, en, pe)
             bs == BestPrio(g, pr, S)
             ba == BestPrio(g, pr, ac)
  <1>1. S \in SUBSET Exc
    OBVIOUS
  <1>2. bs < ba /\ PendPrio(g, pr, en, pe) = bs
    BY DEF PendPrio, ActivePrio
  <1>3. e = IF S = {} THEN 0 ELSE Urgent(pr, S)
    BY DEF PendIrq
  <1> HIDE DEF S, e
  <1>4. bs \in Rank /\ ba \in Rank /\ (S = {} => bs = 256)
    BY <1>1, BestRange
  <1>5. S # {}
    <2> HIDE DEF bs, ba
    <2>1. QED
      BY <1>2, <1>4 DEF Rank
  <1>6. e = Urgent(pr, S)
    BY <1>3, <1>5, Zenon
  <1>7. e \in S /\ bs = exc_group_prio(g, pr[e])
    BY <1>1, <1>5, <1>6, BestOf
  <1>8. \A j \in S : pr[e] <= pr[j]
    BY <1>1, <1>5, <1>6, UrgentIs, Zenon
  <1>9. \A a \in ac : ba <= exc_group_prio(g, pr[a])
    BY BestEach, Zenon
  <1> HIDE DEF bs, ba
  <1>10. ASSUME NEW a \in ac PROVE exc_group_prio(g, pr[e]) < exc_group_prio(g, pr[a])
    <2>1. pr[a] \in -2..255
      BY Zenon DEF Priorities
    <2>2. exc_group_prio(g, pr[a]) \in -2..255
      BY <2>1, GroupRange, Zenon
    <2> DEFINE r == exc_group_prio(g, pr[a])
    <2> HIDE DEF r
    <2>3. r \in -2..255 => r \in Rank
      BY DEF Rank
    <2>4. ba <= exc_group_prio(g, pr[a])
      BY <1>9, Zenon
    <2>5. bs < exc_group_prio(g, pr[a])
      BY <1>2, <1>4, <2>2, <2>3, <2>4, Below, Zenon DEF r
    <2>6. QED
      BY <1>7, <2>5, Zenon
  <1>11. e \notin ac
    <2> SUFFICES ASSUME e \in ac PROVE FALSE
      OBVIOUS
    <2>1. exc_group_prio(g, pr[e]) < exc_group_prio(g, pr[e])
      BY <1>10
    <2>2. exc_group_prio(g, pr[e]) \in Rank
      BY <1>4, <1>7
    <2>3. QED
      BY <2>1, <2>2 DEF Rank
  <1>12. Chosen(e, bs, g, pr, S, ac)
    BY <1>7, <1>8, <1>10, <1>11, Zenon DEF Chosen
  <1>13. QED
    BY <1>2, <1>12, Zenon DEF S, e

-----------------------------------------------------------------------------
(* The inductive invariant.  HardFault must stay enabled at -1 for an      *)
(* escalation to be taken; the output must be the last value computed.     *)
TypeOK ==
  /\ prio \in Priorities
  /\ enabled \in SUBSET Exc /\ pending \in SUBSET Exc /\ active \in SUBSET Exc
  /\ level \in SUBSET Irq
  /\ prigroup \in 0..7
  /\ basepri \in 0..255
  /\ stack \in Seq(Exc)

HardFaultReady == HARD \in enabled /\ prio[HARD] = -1

Updated == CacheExact /\ excpout = Output(vectpending_prio, exception_prio)

Frames(st, ac) ==
  /\ ac = {st[i] : i \in DOMAIN st}
  /\ \A i, j \in DOMAIN st : i # j => st[i] # st[j]

Ordered(st, g, pr) ==
  \A i, j \in DOMAIN st :
    i < j => exc_group_prio(g, pr[st[j]]) < exc_group_prio(g, pr[st[i]])

IInv ==
  /\ TypeOK /\ HardFaultReady /\ Updated
  /\ AssertionsHold
  /\ NoReentry /\ Nested
  /\ LineDue

(* An entry from the exceptions pe, ac and the frames outer takes an       *)
(* exception e that is enabled and pending, not active, more urgent than   *)
(* the masks and all active ones, and at least as urgent as all that are   *)
(* enabled and pending; no assertion fails.                                *)
EntryOf(e, pe, ac, outer) ==
  /\ e \in (enabled \cap pe) \ ac
  /\ \A j \in enabled \cap pe : prio[e] <= prio[j]
  /\ exc_group_prio(prigroup, prio[e]) < MaskPrio(faultmask')
  /\ \A a \in ac : exc_group_prio(prigroup, prio[e]) < exc_group_prio(prigroup, prio[a])
  /\ pending' = pe \ {e} /\ active' = ac \cup {e}
  /\ stack' = Append(outer, e)
  /\ host' = host

(* The masks only lower the execution priority.                            *)
LEMMA MaskRange ==
  ASSUME TypeOK, NEW fm, NEW a \in Rank
  PROVE  /\ MaskPrio(fm) \in Rank
         /\ Lower(MaskPrio(fm), a) \in Rank
         /\ Lower(MaskPrio(fm), a) <= a /\ Lower(MaskPrio(fm), a) <= MaskPrio(fm)
  <1>1. exc_group_prio(prigroup, basepri) \in -2..255
    <2>1. prigroup \in 0..7 /\ basepri \in -2..255
      BY DEF TypeOK
    <2>2. QED
      BY <2>1, GroupRange
  <1>2. MaskPrio(fm) \in Rank
    BY <1>1 DEF MaskPrio, NVIC_NOEXC_PRIO, Rank
  <1>3. QED
    BY <1>2 DEF Lower, Rank

(* The priorities that an update computes are in range, and so is the      *)
(* execution priority.                                                     *)
LEMMA PrioRange ==
  ASSUME TypeOK, NEW fm, NEW pe \in SUBSET Exc, NEW ac \in SUBSET Exc
  PROVE  /\ PendPrio(prigroup, prio, enabled, pe) \in Rank
         /\ ActivePrio(prigroup, prio, ac) \in Rank
         /\ Lower(MaskPrio(fm), ActivePrio(prigroup, prio, ac)) \in Rank
  <1>1. /\ prigroup \in 0..7 /\ prio \in Priorities
        /\ enabled \cap pe \in SUBSET Exc
    BY DEF TypeOK
  <1>2. /\ PendPrio(prigroup, prio, enabled, pe) \in Rank
        /\ ActivePrio(prigroup, prio, ac) \in Rank
    BY <1>1, BestRange DEF ActivePrio, PendPrio
  <1>3. QED
    BY <1>2, MaskRange

(* armv7m_nvic_acknowledge_irq, called with the most urgent of the pending *)
(* exceptions and a priority below that of the execution, is an entry.     *)
LEMMA AcknowledgeEnters ==
  ASSUME TypeOK, NEW fm, NEW pe \in SUBSET Exc, NEW ac \in SUBSET Exc, NEW outer,
         NEW e, NEW p, NEW now,
         e = PendIrq(prio, enabled, pe), p = PendPrio(prigroup, prio, enabled, pe),
         now = Lower(MaskPrio(fm), ActivePrio(prigroup, prio, ac)),
         p < now, faultmask' = fm,
         acknowledge(e, p, now, pe, ac, outer)
  PROVE  EntryOf(e, pe, ac, outer)
  <1>1. /\ prigroup \in 0..7 /\ prio \in Priorities /\ enabled \in SUBSET Exc
        /\ enabled \cap pe \in SUBSET Exc
    BY DEF TypeOK
  <1> DEFINE best == ActivePrio(prigroup, prio, ac)
             mask == MaskPrio(fm)
             low == Lower(mask, best)
  <1>2. best \in Rank /\ PendPrio(prigroup, prio, enabled, pe) \in Rank
    BY PrioRange
  <1>2a. p \in Rank
    BY <1>2
  <1>2b. low \in Rank /\ low <= best /\ mask \in Rank /\ low <= mask
    BY <1>2, MaskRange
  <1> HIDE DEF best, mask, low
  <1>2c. now = low
    BY DEF low, mask, best
  <1>3. now \in Rank /\ now <= best /\ mask \in Rank /\ now <= mask
    BY <1>2b, <1>2c
  <1>4. p < best /\ p < mask
    BY <1>2, <1>2a, <1>3, Below, Zenon
  <1>5. /\ e \in (enabled \cap pe) \ ac
        /\ \A a \in ac : exc_group_prio(prigroup, prio[e]) < exc_group_prio(prigroup, prio[a])
        /\ \A j \in enabled \cap pe : prio[e] <= prio[j]
        /\ p = exc_group_prio(prigroup, prio[e])
    <2>1. PendPrio(prigroup, prio, enabled, pe) < ActivePrio(prigroup, prio, ac)
      BY <1>4 DEF best
    <2>2. Chosen(PendIrq(prio, enabled, pe), PendPrio(prigroup, prio, enabled, pe),
                 prigroup, prio, enabled \cap pe, ac)
      BY <1>1, <2>1, ChosenBelow
    <2>3. Chosen(e, p, prigroup, prio, enabled \cap pe, ac)
      BY <2>2
    <2>4. QED
      BY <2>3, Zenon DEF Chosen
  <1>6. e # 0
    BY <1>5, NvicAssumption
       DEF Exc, NMI, HARD, MEM, BUS, USAGE, SVC, DEBUG, PENDSV, SYSTICK, NVIC_FIRST_IRQ
  <1>7. /\ pending' = pe \ {e} /\ active' = ac \cup {e}
        /\ stack' = Append(outer, e) /\ host' = host
    <2>1. e \in enabled /\ e \in pe
      BY <1>5
    <2>2. QED
      BY <1>6, <2>1, Zenon DEF acknowledge
  <1>8. exc_group_prio(prigroup, prio[e]) < MaskPrio(faultmask')
    BY <1>4, <1>5, Zenon DEF mask
  <1>9. QED
    BY <1>5, <1>7, <1>8, Zenon DEF EntryOf

(* arm_v7m_cpu_exec_interrupt enters the cached exception.                 *)
LEMMA ExecEnters ==
  ASSUME TypeOK, Updated, exec_interrupt
  PROVE  EntryOf(vectpending, pending, active, stack)
  <1>1. /\ vectpending = PendIrq(prio, enabled, pending)
        /\ vectpending_prio = PendPrio(prigroup, prio, enabled, pending)
        /\ exception_prio = ActivePrio(prigroup, prio, active)
    BY DEF Updated, CacheExact
  <1> DEFINE now == Lower(MaskPrio(faultmask), ActivePrio(prigroup, prio, active))
  <1>2. /\ pending \in SUBSET Exc /\ active \in SUBSET Exc
        /\ prigroup \in 0..7 /\ prio \in Priorities /\ enabled \cap pending \in SUBSET Exc
    BY DEF TypeOK
  <1>3. nvic_exec_prio = now
    BY <1>1 DEF nvic_exec_prio
  <1>4. now \in Rank /\ vectpending_prio \in Rank
    BY <1>1, <1>2, PrioRange
  <1> HIDE DEF now
  <1>5. vectpending_prio < now
    BY <1>3, <1>4 DEF exec_interrupt, armv7m_nvic_can_take_pending_exception, Rank
  <1>6. acknowledge(vectpending, vectpending_prio, now, pending, active, stack)
    BY <1>3 DEF exec_interrupt
  <1>7. faultmask' = faultmask
    BY DEF exec_interrupt, masks
  <1>8. QED
    BY <1>1, <1>2, <1>5, <1>6, <1>7, AcknowledgeEnters, Zenon DEF now

(* A synchronous exception enters itself, HardFault or something even more *)
(* urgent, unless QEMU gives up with a lockup.                             *)
LEMMA RaiseEnters ==
  ASSUME TypeOK, Updated, HardFaultReady, NEW e \in Synchronous, do_interrupt(e),
         host' # "lockup"
  PROVE  \E x \in Internal, c \in Exc : EntryOf(c, pending \cup {x}, active, stack)
  <1> DEFINE x == IF Escalates(e) THEN HARD ELSE e
             pe == pending \cup {x}
             now == Lower(MaskPrio(faultmask), ActivePrio(prigroup, prio, active))
             c == PendIrq(prio, enabled, pe)
             p == PendPrio(prigroup, prio, enabled, pe)
  <1>1. /\ vectpending = PendIrq(prio, enabled, pending)
        /\ vectpending_prio = PendPrio(prigroup, prio, enabled, pending)
        /\ exception_prio = ActivePrio(prigroup, prio, active)
    BY DEF Updated, CacheExact
  <1>2. e \in Exc /\ x \in Exc /\ x \in Internal
    BY NvicAssumption DEF Synchronous, Exc
  <1>3. /\ pe \in SUBSET Exc /\ active \in SUBSET Exc
        /\ prigroup \in 0..7 /\ prio \in Priorities /\ enabled \cap pe \in SUBSET Exc
    BY <1>2 DEF TypeOK
  <1>4. nvic_exec_prio = now
    BY <1>1 DEF nvic_exec_prio
  <1>5. now \in Rank /\ p \in Rank
    BY <1>3, PrioRange
  <1>6. /\ ~(Escalates(e) /\ now <= prio[HARD])
        /\ acknowledge(c, p, now, pe, active, stack)
    <2>1. /\ ~(Escalates(e) /\ nvic_exec_prio <= prio[HARD])
          /\ acknowledge(IF x \in pending THEN vectpending ELSE PendIrq(prio, enabled, pe),
                         IF x \in pending THEN vectpending_prio
                         ELSE PendPrio(prigroup, prio, enabled, pe),
                         nvic_exec_prio, pe, active, stack)
      BY DEF do_interrupt
    <2>2. x \in pending => pe = pending
      OBVIOUS
    <2>3. QED
      BY <2>1, <2>2, <1>1, <1>4
  <1>7. x \in enabled /\ exc_group_prio(prigroup, prio[x]) < now
    <2>1. CASE Escalates(e)
      <3>1. x = HARD /\ prio[HARD] = -1 /\ x \in enabled /\ -1 < now
        BY <2>1, <1>5, <1>6 DEF HardFaultReady, Rank
      <3> HIDE DEF now, x
      <3>2. QED
        BY <3>1 DEF exc_group_prio
    <2>2. CASE ~Escalates(e)
      <3>1. x = e /\ e \in enabled /\ ~(exc_group_prio(prigroup, prio[e]) >= now)
        BY <2>2, <1>4 DEF Escalates
      <3>2. prio[e] \in -2..255
        BY <1>2, <1>3 DEF Priorities
      <3>3. exc_group_prio(prigroup, prio[e]) \in -2..255
        BY <3>2, <1>3, GroupRange
      <3> HIDE DEF now, x
      <3>4. QED
        BY <3>1, <3>3, <1>5 DEF Rank
    <2>3. QED
      BY <2>1, <2>2
  <1>8. p <= exc_group_prio(prigroup, prio[x])
    <2>1. x \in enabled \cap pe
      BY <1>7
    <2> HIDE DEF pe, x
    <2>2. QED
      BY <2>1, <1>3, BestEach, Zenon DEF PendPrio
  <1>9. prio[x] \in -2..255
    BY <1>2, <1>3 DEF Priorities
  <1>10. exc_group_prio(prigroup, prio[x]) \in -2..255
    BY <1>9, <1>3, GroupRange
  <1> HIDE DEF x, now, p, c
  <1>11. p < now
    BY <1>5, <1>7, <1>8, <1>10 DEF Rank
  <1> HIDE DEF pe
  <1>12. EntryOf(c, pe, active, stack)
    <2>1. faultmask' = faultmask
      BY DEF do_interrupt, masks
    <2>2. QED
      BY <1>3, <1>6, <1>11, <2>1, AcknowledgeEnters, Zenon DEF now, p, c
  <1>13. c \in Exc
    BY <1>12, <1>3 DEF EntryOf
  <1>14. QED
    BY <1>12, <1>13, <1>2 DEF pe

Top == stack[Len(stack)]
Outer == SubSeq(stack, 1, Len(stack) - 1)

(* The first n elements of a sequence.                                     *)
LEMMA PrefixIs ==
  ASSUME NEW S, NEW s \in Seq(S), NEW n \in Nat, n <= Len(s)
  PROVE  /\ SubSeq(s, 1, n) \in Seq(S)
         /\ DOMAIN SubSeq(s, 1, n) = 1..n
         /\ \A i \in 1..n : SubSeq(s, 1, n)[i] = s[i]
  OBVIOUS

(* A return takes the innermost frame away; the outer frames are those of  *)
(* the exceptions that stay active.                                        *)
LEMMA Popped ==
  ASSUME TypeOK, NoReentry, Nested, stack # << >>
  PROVE  /\ Top \in Exc /\ Outer \in Seq(Exc)
         /\ Frames(Outer, active \ {Top})
         /\ disturbed = 0 => Ordered(Outer, prigroup, prio)
  <1>1. stack \in Seq(Exc) /\ Len(stack) \in Nat \ {0}
    BY DEF TypeOK
  <1>2. Top \in Exc
    BY <1>1 DEF Top
  <1> DEFINE n == Len(stack) - 1
  <1>3. n \in Nat /\ n <= Len(stack) /\ DOMAIN stack = 1..Len(stack)
    BY <1>1
  <1>4. /\ Outer \in Seq(Exc)
        /\ \A i \in DOMAIN Outer : Outer[i] = stack[i] /\ i \in DOMAIN stack /\ i # Len(stack)
        /\ \A i \in DOMAIN stack : i # Len(stack) => i \in DOMAIN Outer
    <2> HIDE DEF n
    <2>1. /\ SubSeq(stack, 1, n) \in Seq(Exc)
          /\ DOMAIN SubSeq(stack, 1, n) = 1..n
          /\ \A i \in 1..n : SubSeq(stack, 1, n)[i] = stack[i]
      BY <1>1, <1>3, PrefixIs
    <2>2. Outer = SubSeq(stack, 1, n)
      BY DEF Outer, n
    <2> DEFINE o == Outer
    <2> HIDE DEF o
    <2>3. /\ o \in Seq(Exc) /\ DOMAIN o = 1..n
          /\ \A i \in 1..n : o[i] = stack[i]
      BY <2>1, <2>2 DEF o
    <2>4. \A i \in 1..n : i \in 1..Len(stack) /\ i # Len(stack)
      BY <1>1 DEF n
    <2>5. \A i \in 1..Len(stack) : i # Len(stack) => i \in 1..n
      BY <1>1 DEF n
    <2>6. QED
      BY <2>3, <2>4, <2>5, <1>3 DEF o
  <1>5. active \ {Top} = {Outer[i] : i \in DOMAIN Outer}
    <2>1. active = {stack[i] : i \in DOMAIN stack}
      BY DEF NoReentry
    <2>2. ASSUME NEW a \in active, a # Top PROVE \E i \in DOMAIN Outer : a = Outer[i]
      <3>1. PICK i \in DOMAIN stack : a = stack[i]
        BY <2>1
      <3>2. i # Len(stack)
        BY <3>1, <2>2 DEF Top
      <3>3. i \in DOMAIN Outer
        BY <3>2, <1>4
      <3>4. QED
        BY <3>1, <3>3, <1>4
    <2>3. ASSUME NEW i \in DOMAIN Outer PROVE Outer[i] \in active /\ Outer[i] # Top
      <3>1. Outer[i] = stack[i] /\ i \in DOMAIN stack /\ i # Len(stack)
        BY <1>4
      <3>2. Len(stack) \in DOMAIN stack
        BY <1>1
      <3>3. QED
        BY <3>1, <3>2, <2>1 DEF NoReentry, Top
    <2>4. QED
      BY <2>2, <2>3
  <1>6. \A i, j \in DOMAIN Outer : i # j => Outer[i] # Outer[j]
    BY <1>4 DEF NoReentry
  <1>7. disturbed = 0 => Ordered(Outer, prigroup, prio)
    BY <1>4 DEF Nested, Ordered
  <1>8. QED
    BY <1>2, <1>4, <1>5, <1>6, <1>7 DEF Frames

(* do_v7m_exception_exit returns to the outer frame or enters again.       *)
LEMMA ExitCases ==
  ASSUME TypeOK, NoReentry, Nested, exception_exit
  PROVE  \/ \E c \in Exc : EntryOf(c, pending \cup Repended(Top), active \ {Top}, Outer)
         \/ /\ pending' = pending \cup Repended(Top) /\ active' = active \ {Top}
            /\ stack' = Outer /\ host' = host
  <1> DEFINE fm == IF Top = NMI THEN faultmask ELSE 0
             pe == pending \cup Repended(Top)
             ac == active \ {Top}
             now == Lower(MaskPrio(fm), ActivePrio(prigroup, prio, ac))
             p == PendPrio(prigroup, prio, enabled, pe)
             c == PendIrq(prio, enabled, pe)
  <1>1. pe \in SUBSET Exc /\ ac \in SUBSET Exc /\ enabled \cap pe \in SUBSET Exc
    BY ExcNat DEF TypeOK, Repended
  <1>2. \/ now > p /\ acknowledge(c, p, now, pe, ac, Outer)
        \/ pending' = pe /\ active' = ac /\ stack' = Outer /\ host' = host
    BY DEF exception_exit, Top, Outer
  <1>3. now \in Rank /\ p \in Rank
    BY <1>1, PrioRange
  <1> HIDE DEF pe, ac, now, p, c, fm
  <1>4. ASSUME now > p, acknowledge(c, p, now, pe, ac, Outer)
        PROVE  EntryOf(c, pe, ac, Outer) /\ c \in Exc
    <2>1. p < now
      BY <1>3, <1>4 DEF Rank
    <2>2. faultmask' = fm
      BY DEF exception_exit, Top, fm
    <2>3. EntryOf(c, pe, ac, Outer)
      BY <1>1, <1>4, <2>1, <2>2, AcknowledgeEnters, Zenon DEF now, p, c
    <2>4. QED
      BY <1>1, <2>3 DEF EntryOf
  <1>5. QED
    BY <1>2, <1>4 DEF pe, ac

(* What an entry preserves.                                                *)
LEMMA EnterKeeps ==
  ASSUME TypeOK, AssertionsHold,
         NEW pe \in SUBSET Exc, NEW ac \in SUBSET Exc, NEW outer \in Seq(Exc), NEW c \in Exc,
         Frames(outer, ac), disturbed = 0 => Ordered(outer, prigroup, prio),
         level \subseteq pe \cup ac,
         EntryOf(c, pe, ac, outer),
         UNCHANGED <<prio, enabled, level, prigroup, disturbed>>
  PROVE  /\ pending' \in SUBSET Exc /\ active' \in SUBSET Exc /\ stack' \in Seq(Exc)
         /\ AssertionsHold' /\ NoReentry' /\ Nested' /\ LineDue'
  <1>1. /\ c \notin ac
        /\ \A a \in ac : exc_group_prio(prigroup, prio[c]) < exc_group_prio(prigroup, prio[a])
        /\ pending' = pe \ {c} /\ active' = ac \cup {c}
        /\ stack' = Append(outer, c) /\ host' = host
    BY DEF EntryOf
  <1>2. stack' \in Seq(Exc) /\ DOMAIN stack' = 1..(Len(outer) + 1) /\ Len(outer) \in Nat
    BY <1>1
  <1>3. /\ DOMAIN outer = 1..Len(outer)
        /\ \A i \in DOMAIN outer : stack'[i] = outer[i]
        /\ stack'[Len(outer) + 1] = c
    BY <1>1
  <1>4. \A i \in DOMAIN stack' : i \in DOMAIN outer \/ i = Len(outer) + 1
    BY <1>2, <1>3
  <1>5. DOMAIN outer \subseteq DOMAIN stack' /\ Len(outer) + 1 \in DOMAIN stack'
    BY <1>2, <1>3
  <1>6. ac = {outer[i] : i \in DOMAIN outer} /\ \A i, j \in DOMAIN outer : i # j => outer[i] # outer[j]
    BY DEF Frames
  <1> DEFINE st == stack'
             D == DOMAIN stack'
             k == Len(outer) + 1
  <1> HIDE DEF st, D, k
  <1>7. active' = {st[i] : i \in D}
    BY <1>1, <1>3, <1>4, <1>5, <1>6 DEF st, D
  <1>8. \A i, j \in D : i # j => st[i] # st[j]
    BY <1>1, <1>3, <1>4, <1>6 DEF st, D
  <1>9. NoReentry'
    BY <1>7, <1>8 DEF NoReentry, st, D
  <1>10. Nested'
    <2> SUFFICES ASSUME disturbed = 0, NEW i \in D, NEW j \in D, i < j
                 PROVE  exc_group_prio(prigroup, prio[st[j]]) < exc_group_prio(prigroup, prio[st[i]])
      BY DEF Nested, st, D
    <2>1. i \in DOMAIN outer /\ st[i] = outer[i]
      BY <1>2, <1>3, <1>4 DEF st, D
    <2>2. CASE j \in DOMAIN outer
      BY <2>1, <2>2, <1>3 DEF Ordered, st
    <2>3. CASE j = Len(outer) + 1
      <3>1. st[j] = c /\ outer[i] \in ac
        BY <2>1, <2>3, <1>3, <1>6 DEF st
      <3>2. QED
        BY <3>1, <2>1, <1>1
    <2>4. QED
      BY <2>2, <2>3, <1>4 DEF D
  <1>11. LineDue'
    BY <1>1 DEF LineDue
  <1>12. AssertionsHold'
    BY <1>1 DEF AssertionsHold
  <1>13. QED
    BY <1>1, <1>2, <1>9, <1>10, <1>11, <1>12

-----------------------------------------------------------------------------
(* nvic_irq_update leaves an exact cache and the output that belongs to it.*)
LEMMA UpdateIsExact == nvic_irq_update => Updated'
  BY DEF nvic_irq_update, Updated, CacheExact

(* A step that leaves vectors and cache alone keeps them exact.            *)
LEMMA UnchangedIsExact ==
  Updated /\ UNCHANGED <<prio, enabled, pending, active, prigroup, cache>> => Updated'
  BY DEF Updated, CacheExact, cache

(* What an update computes when nothing is pending or active.              *)
LEMMA EmptyCache ==
  ASSUME NEW g, NEW pr, NEW en
  PROVE  /\ PendIrq(pr, en, {}) = 0
         /\ PendPrio(g, pr, en, {}) = NVIC_NOEXC_PRIO
         /\ ActivePrio(g, pr, {}) = NVIC_NOEXC_PRIO
         /\ Output(NVIC_NOEXC_PRIO, NVIC_NOEXC_PRIO) = 0
  <1>1. en \cap {} = {}
    OBVIOUS
  <1>2. Output(NVIC_NOEXC_PRIO, NVIC_NOEXC_PRIO) = 0
    BY DEF Output, NVIC_NOEXC_PRIO
  <1>3. QED
    BY <1>1, <1>2 DEF PendIrq, PendPrio, ActivePrio, BestPrio

(* A machine starts with the invariant.                                    *)
LEMMA InitIInv == Init => IInv
  <1> SUFFICES ASSUME Init PROVE IInv
    OBVIOUS
  <1>1. prio \in Priorities
    BY ExcNat DEF Init, Priorities
  <1>2. enabled \in SUBSET Exc /\ HARD \in enabled
    BY NvicAssumption DEF Init, Exc
  <1>3. TypeOK
    BY <1>1, <1>2 DEF Init, TypeOK
  <1>4. HardFaultReady
    <2>1. prio[HARD] = IF HARD = NMI THEN -2 ELSE IF HARD = HARD THEN -1 ELSE 0
      BY ExcNat, Zenon DEF Init
    <2>2. QED
      BY <1>2, <2>1 DEF HardFaultReady, HARD, NMI
  <1>5. Updated
    BY EmptyCache DEF Init, Updated, CacheExact
  <1>6. AssertionsHold /\ NoReentry /\ Nested /\ LineDue
    BY DEF Init, AssertionsHold, NoReentry, Nested, LineDue
  <1>7. QED
    BY <1>3, <1>4, <1>5, <1>6 DEF IInv

(* A step that moves no handler and no priority of an active exception     *)
(* keeps what concerns the handlers.                                       *)
LEMMA QuietKeeps ==
  ASSUME IInv, UNCHANGED <<prio, prigroup, active, stack, host, disturbed>>
  PROVE  AssertionsHold' /\ NoReentry' /\ Nested'
  BY DEF IInv, AssertionsHold, NoReentry, Nested

(* armv7m_nvic_set_pending and armv7m_nvic_clear_pending.                  *)
LEMMA PendingMoves ==
  ASSUME IInv, NEW e \in Exc, set_pending(e) \/ clear_pending(e),
         UNCHANGED <<prio, enabled, active, prigroup>>
  PROVE  /\ Updated'
         /\ pending' \in SUBSET Exc
         /\ set_pending(e) => pending' = pending \cup {e}
         /\ clear_pending(e) => pending' = pending \ {e}
  <1>1. Updated /\ pending \in SUBSET Exc
    BY DEF IInv, TypeOK
  <1>2. CASE set_pending(e)
    <2>1. pending' = pending \cup {e}
      BY <1>2 DEF set_pending
    <2>2. Updated'
      BY <1>1, <1>2, UpdateIsExact, UnchangedIsExact DEF set_pending
    <2>3. clear_pending(e) => pending' = pending \ {e}
      BY DEF clear_pending
    <2>4. QED
      BY <1>1, <2>1, <2>2, <2>3
  <1>3. CASE clear_pending(e)
    <2>1. pending' = pending \ {e}
      BY <1>3 DEF clear_pending
    <2>2. Updated'
      BY <1>1, <1>3, UpdateIsExact, UnchangedIsExact DEF clear_pending
    <2>3. set_pending(e) => pending' = pending \cup {e}
      BY DEF set_pending
    <2>4. QED
      BY <1>1, <2>1, <2>2, <2>3
  <1>4. QED
    BY <1>2, <1>3

(* Lines and the software that pends, enables and clears keep the          *)
(* invariant; only ICPR could lose a line, and it checks the level.        *)
LEMMA PendStep ==
  ASSUME IInv,
         \/ \E n \in Irq, lv \in BOOLEAN : set_irq_level(n, lv)
         \/ \E e \in Irq \cup (Internal \cap {NMI, PENDSV, SYSTICK}) : Pends(e)
         \/ \E e \in Internal \cap {PENDSV, SYSTICK} : Unpends(e)
         \/ \E S \in SUBSET Irq, setval \in {0, 1} : WriteEnable(S, setval) \/ WritePend(S, setval)
  PROVE  IInv'
  <1>1. /\ TypeOK /\ HardFaultReady /\ Updated /\ LineDue
        /\ level \in SUBSET Irq /\ pending \in SUBSET Exc /\ enabled \in SUBSET Exc
    BY DEF IInv, TypeOK
  <1>2. ASSUME UNCHANGED <<prio, prigroup, active, stack, host, disturbed, masks>>,
               enabled' \in SUBSET Exc, HARD \in enabled', pending' \in SUBSET Exc,
               level' \in SUBSET Irq, Updated', LineDue'
        PROVE  IInv'
    <2>1. AssertionsHold' /\ NoReentry' /\ Nested'
      BY <1>2, QuietKeeps
    <2>2. TypeOK' /\ HardFaultReady'
      BY <1>1, <1>2 DEF TypeOK, HardFaultReady, masks
    <2>3. QED
      BY <1>2, <2>1, <2>2 DEF IInv
  <1>3. ASSUME NEW n \in Irq, NEW lv \in BOOLEAN, set_irq_level(n, lv) PROVE IInv'
    <2>1. UNCHANGED <<prio, enabled, prigroup, active, stack, host, disturbed, masks>>
      BY <1>3 DEF set_irq_level, Elsewhere
    <2>2. n \in Exc
      BY ExcNat
    <2>3. CASE lv
      <3>1. level' = level \cup {n} /\ set_pending(n)
        BY <1>3, <2>3 DEF set_irq_level
      <3>2. Updated' /\ pending' = pending \cup {n} /\ pending' \in SUBSET Exc
        BY <2>1, <2>2, <3>1, PendingMoves
      <3>3. LineDue'
        BY <1>1, <2>1, <3>1, <3>2 DEF LineDue
      <3>4. QED
        BY <1>1, <1>2, <2>1, <3>1, <3>2, <3>3 DEF HardFaultReady
    <2>4. CASE ~lv
      <3>1. level' = level \ {n} /\ UNCHANGED <<pending, cache>>
        BY <1>3, <2>4 DEF set_irq_level
      <3>2. Updated'
        BY <1>1, <2>1, <3>1, UnchangedIsExact
      <3>3. LineDue'
        BY <1>1, <2>1, <3>1 DEF LineDue
      <3>4. QED
        BY <1>1, <1>2, <2>1, <3>1, <3>2, <3>3 DEF HardFaultReady
    <2>5. QED
      BY <2>3, <2>4
  <1>4. ASSUME NEW e \in Irq \cup (Internal \cap {NMI, PENDSV, SYSTICK}), Pends(e) PROVE IInv'
    <2>1. UNCHANGED <<prio, enabled, level, prigroup, active, stack, host, disturbed, masks>>
      BY <1>4 DEF Pends, Elsewhere
    <2>2. e \in Exc /\ set_pending(e)
      BY <1>4 DEF Exc, Pends
    <2>3. Updated' /\ pending' = pending \cup {e} /\ pending' \in SUBSET Exc
      BY <2>1, <2>2, PendingMoves
    <2>4. LineDue'
      BY <1>1, <2>1, <2>3 DEF LineDue
    <2>5. QED
      BY <1>1, <1>2, <2>1, <2>3, <2>4 DEF HardFaultReady
  <1>5. ASSUME NEW e \in Internal \cap {PENDSV, SYSTICK}, Unpends(e) PROVE IInv'
    <2>1. UNCHANGED <<prio, enabled, level, prigroup, active, stack, host, disturbed, masks>>
      BY <1>5 DEF Unpends, Elsewhere
    <2>2. e \in Exc /\ clear_pending(e) /\ e \notin Irq
      BY <1>5, NvicAssumption DEF Exc, Unpends, PENDSV, SYSTICK, NVIC_FIRST_IRQ
    <2>3. Updated' /\ pending' = pending \ {e} /\ pending' \in SUBSET Exc
      BY <2>1, <2>2, PendingMoves
    <2>4. LineDue'
      BY <1>1, <2>1, <2>2, <2>3 DEF LineDue
    <2>5. QED
      BY <1>1, <1>2, <2>1, <2>3, <2>4 DEF HardFaultReady
  <1>6. ASSUME NEW S \in SUBSET Irq, NEW setval \in {0, 1}, WriteEnable(S, setval) PROVE IInv'
    <2>1. /\ UNCHANGED <<prio, pending, level, prigroup, active, stack, host, disturbed, masks>>
          /\ Updated'
      BY <1>6, UpdateIsExact DEF WriteEnable, Elsewhere
    <2>2. enabled' \in SUBSET Exc /\ HARD \in enabled'
      BY <1>1, <1>6, ExcNat, NvicAssumption DEF WriteEnable, HardFaultReady, HARD, NVIC_FIRST_IRQ
    <2>3. LineDue'
      BY <1>1, <2>1 DEF LineDue
    <2>4. QED
      BY <1>1, <1>2, <2>1, <2>2, <2>3
  <1>7. ASSUME NEW S \in SUBSET Irq, NEW setval \in {0, 1}, WritePend(S, setval) PROVE IInv'
    <2>1. /\ UNCHANGED <<prio, enabled, level, prigroup, active, stack, host, disturbed, masks>>
          /\ Updated'
      BY <1>7, UpdateIsExact DEF WritePend, Elsewhere
    <2>2. pending' = IF setval = 1 THEN pending \cup S ELSE pending \ ClearsPend(S)
      BY <1>7 DEF WritePend
    <2>3. pending' \in SUBSET Exc
      BY <1>1, <2>2, ExcNat
    <2>4. LineDue'
      BY <1>1, <2>1, <2>2 DEF LineDue, ClearsPend
    <2>5. QED
      BY <1>1, <1>2, <2>1, <2>3, <2>4 DEF HardFaultReady
  <1>8. QED
    BY <1>3, <1>4, <1>5, <1>6, <1>7

(* Writing a priority, or the group of all, keeps the invariant; the order *)
(* of nested handlers survives when no active exception moves.             *)
LEMMA PriorityStep ==
  ASSUME IInv,
         \/ \E s \in Settings : set_prio(s[1], s[2])
         \/ \E g \in Groups : WriteAircr(g)
  PROVE  IInv'
  <1>1. /\ TypeOK /\ HardFaultReady /\ Updated /\ LineDue /\ NoReentry /\ Nested /\ AssertionsHold
        /\ prio \in Priorities /\ active \in SUBSET Exc /\ stack \in Seq(Exc)
    BY DEF IInv, TypeOK
  <1>2. ASSUME NEW s \in Settings, set_prio(s[1], s[2]) PROVE IInv'
    <2> DEFINE e == s[1]
               q == Kept(s[2])
    <2>1. /\ UNCHANGED <<enabled, pending, level, prigroup, active, stack, host, masks>>
          /\ prio' = [prio EXCEPT ![e] = q]
          /\ disturbed' = IF e \in active /\ prio[e] # prio'[e] THEN 1 ELSE disturbed
          /\ Updated'
      BY <1>2, UpdateIsExact DEF set_prio
    <2>2. e \in Exc /\ e > HARD /\ q \in 0..255
      BY NvicAssumption DEF Configurable
    <2> HIDE DEF e, q
    <2>3. prio' \in Priorities
      BY <1>1, <2>1, <2>2 DEF Priorities
    <2>4. e # HARD
      BY <2>2 DEF HARD
    <2>5. prio'[HARD] = prio[HARD]
      BY <1>1, <2>1, <2>4, ExcNat DEF Priorities
    <2>6. Nested'
      <3> SUFFICES ASSUME disturbed' = 0 PROVE Nested'
        BY DEF Nested
      <3>1. disturbed = 0 /\ ~(e \in active /\ prio[e] # prio'[e])
        BY <2>1
      <3>2. \A a \in active : prio'[a] = prio[a]
        BY <1>1, <2>1, <3>1 DEF Priorities
      <3>3. \A i \in DOMAIN stack : stack[i] \in active
        BY <1>1 DEF NoReentry
      <3>4. QED
        BY <1>1, <2>1, <3>1, <3>2, <3>3 DEF Nested
    <2>7. TypeOK' /\ HardFaultReady'
      BY <1>1, <2>1, <2>3, <2>5 DEF TypeOK, HardFaultReady, masks
    <2>8. AssertionsHold' /\ NoReentry' /\ LineDue'
      BY <1>1, <2>1 DEF AssertionsHold, NoReentry, LineDue
    <2>9. QED
      BY <2>1, <2>6, <2>7, <2>8 DEF IInv
  <1>3. ASSUME NEW g \in Groups, WriteAircr(g) PROVE IInv'
    <2>1. /\ UNCHANGED <<prio, enabled, pending, level, active, stack, host, masks>>
          /\ prigroup' = g /\ g \in 0..7
          /\ disturbed' = IF active # {} /\ prigroup # g THEN 1 ELSE disturbed
          /\ Updated'
      BY <1>3, UpdateIsExact, NvicAssumption DEF WriteAircr
    <2>2. Nested'
      <3> SUFFICES ASSUME disturbed' = 0 PROVE Nested'
        BY DEF Nested
      <3>1. disturbed = 0 /\ (active = {} \/ prigroup' = prigroup)
        BY <2>1
      <3>2. CASE active = {}
        <4>1. DOMAIN stack = {}
          BY <3>2, <1>1 DEF NoReentry
        <4>2. QED
          BY <4>1, <2>1 DEF Nested
      <3>3. CASE prigroup' = prigroup
        BY <1>1, <2>1, <3>1, <3>3 DEF Nested
      <3>4. QED
        BY <3>1, <3>2, <3>3
    <2>3. TypeOK' /\ HardFaultReady'
      BY <1>1, <2>1 DEF TypeOK, HardFaultReady, masks
    <2>4. AssertionsHold' /\ NoReentry' /\ LineDue'
      BY <1>1, <2>1 DEF AssertionsHold, NoReentry, LineDue
    <2>5. QED
      BY <2>1, <2>2, <2>3, <2>4 DEF IInv
  <1>4. QED
    BY <1>2, <1>3

(* Entries and returns keep the invariant.                                 *)
LEMMA HandlerStep ==
  ASSUME IInv,
         exec_interrupt \/ exception_exit \/ \E e \in Synchronous : do_interrupt(e)
  PROVE  IInv'
  <1>1. /\ TypeOK /\ HardFaultReady /\ Updated /\ LineDue /\ NoReentry /\ Nested /\ AssertionsHold
        /\ pending \in SUBSET Exc /\ active \in SUBSET Exc /\ stack \in Seq(Exc)
    BY DEF IInv, TypeOK
  <1>2. Frames(stack, active) /\ (disturbed = 0 => Ordered(stack, prigroup, prio))
    BY <1>1 DEF NoReentry, Nested, Frames, Ordered
  <1>3. ASSUME UNCHANGED <<prio, enabled, level, prigroup, basepri>>, Updated',
               pending' \in SUBSET Exc, active' \in SUBSET Exc, stack' \in Seq(Exc),
               AssertionsHold', NoReentry', Nested', LineDue'
        PROVE  IInv'
    <2>1. TypeOK' /\ HardFaultReady'
      BY <1>1, <1>3 DEF TypeOK, HardFaultReady
    <2>2. QED
      BY <1>3, <2>1 DEF IInv
  <1>4. CASE exec_interrupt
    <2>1. EntryOf(vectpending, pending, active, stack)
      BY <1>1, <1>4, ExecEnters
    <2>2. vectpending \in Exc
      BY <1>1, <2>1 DEF EntryOf
    <2>3. /\ UNCHANGED <<prio, enabled, level, prigroup, disturbed, basepri>>
          /\ Updated'
      BY <1>4, UpdateIsExact DEF exec_interrupt, masks
    <2>4. level \subseteq pending \cup active
      BY <1>1 DEF LineDue
    <2>5. /\ pending' \in SUBSET Exc /\ active' \in SUBSET Exc /\ stack' \in Seq(Exc)
          /\ AssertionsHold' /\ NoReentry' /\ Nested' /\ LineDue'
      BY <1>1, <1>2, <2>1, <2>2, <2>3, <2>4, EnterKeeps
    <2>6. QED
      BY <1>3, <2>3, <2>5
  <1>5. ASSUME NEW e \in Synchronous, do_interrupt(e) PROVE IInv'
    <2>1. UNCHANGED <<masks, disturbed>>
      BY <1>5 DEF do_interrupt
    <2>2. CASE host' = "lockup"
      <3>2. UNCHANGED <<vectors, cache, stack>>
        <4>1. host = "runs"
          BY <1>5 DEF do_interrupt, running
        <4>2. QED
          BY <1>5, <2>2, <4>1 DEF do_interrupt, acknowledge
      <3>3. Updated'
        BY <1>1, <3>2, UnchangedIsExact DEF vectors
      <3>4. AssertionsHold' /\ NoReentry' /\ Nested' /\ LineDue'
        BY <1>1, <2>1, <2>2, <3>2 DEF AssertionsHold, NoReentry, Nested, LineDue, vectors
      <3>5. QED
        BY <1>1, <1>3, <2>1, <3>2, <3>3, <3>4 DEF vectors, masks
    <2>3. CASE host' # "lockup"
      <3>1. PICK x \in Internal, c \in Exc : EntryOf(c, pending \cup {x}, active, stack)
        BY <1>1, <1>5, <2>3, RaiseEnters
      <3>2. UNCHANGED <<prio, enabled, level, prigroup>> /\ Updated'
        BY <1>5, <2>3, UpdateIsExact DEF do_interrupt
      <3>3. level \subseteq (pending \cup {x}) \cup active /\ pending \cup {x} \in SUBSET Exc
        BY <1>1 DEF LineDue, Exc
      <3>4. /\ pending' \in SUBSET Exc /\ active' \in SUBSET Exc /\ stack' \in Seq(Exc)
            /\ AssertionsHold' /\ NoReentry' /\ Nested' /\ LineDue'
        BY <1>1, <1>2, <2>1, <3>1, <3>2, <3>3, EnterKeeps
      <3>5. QED
        BY <1>3, <2>1, <3>2, <3>4 DEF masks
    <2>4. QED
      BY <2>2, <2>3
  <1>6. CASE exception_exit
    <2>1. stack # << >> /\ UNCHANGED <<prio, enabled, level, prigroup, disturbed, basepri>> /\ Updated'
      BY <1>6, UpdateIsExact DEF exception_exit
    <2>2. /\ Top \in Exc /\ Outer \in Seq(Exc)
          /\ Frames(Outer, active \ {Top})
          /\ disturbed = 0 => Ordered(Outer, prigroup, prio)
      BY <1>1, <2>1, Popped
    <2> DEFINE pe == pending \cup Repended(Top)
               ac == active \ {Top}
    <2>3. pe \in SUBSET Exc /\ ac \in SUBSET Exc /\ level \subseteq pe \cup ac
      BY <1>1, <2>2 DEF LineDue, Repended
    <2>4. \/ \E c \in Exc : EntryOf(c, pe, ac, Outer)
          \/ pending' = pe /\ active' = ac /\ stack' = Outer /\ host' = host
      BY <1>1, <1>6, ExitCases
    <2> HIDE DEF pe
    <2>5. ASSUME NEW c \in Exc, EntryOf(c, pe, ac, Outer) PROVE IInv'
      <3>1. /\ pending' \in SUBSET Exc /\ active' \in SUBSET Exc /\ stack' \in Seq(Exc)
            /\ AssertionsHold' /\ NoReentry' /\ Nested' /\ LineDue'
        BY <1>1, <2>1, <2>2, <2>3, <2>5, EnterKeeps
      <3>2. QED
        BY <1>3, <2>1, <3>1
    <2>6. ASSUME pending' = pe, active' = ac, stack' = Outer, host' = host PROVE IInv'
      <3>1. AssertionsHold' /\ LineDue'
        BY <1>1, <2>1, <2>3, <2>6 DEF AssertionsHold, LineDue
      <3>2. NoReentry'
        BY <2>2, <2>6 DEF NoReentry, Frames
      <3>3. Nested'
        BY <2>1, <2>2, <2>6 DEF Nested, Ordered
      <3>4. QED
        BY <1>3, <2>1, <2>2, <2>3, <2>6, <3>1, <3>2, <3>3
    <2>7. QED
      BY <2>4, <2>5, <2>6
  <1>7. QED
    BY <1>4, <1>5, <1>6

(* A reset of the machine leads to the initial state, whatever runs.       *)
LEMMA ResetIsInit == armv7m_nvic_reset => Init'
  BY DEF armv7m_nvic_reset, Init, running

(* Every step keeps the invariant.                                         *)
LEMMA NextIInv == IInv /\ [Next]_vars => IInv'
  <1> SUFFICES ASSUME IInv, [Next]_vars PROVE IInv'
    OBVIOUS
  <1>1. CASE \/ \E n \in Irq, lv \in BOOLEAN : set_irq_level(n, lv)
             \/ \E e \in Irq \cup (Internal \cap {NMI, PENDSV, SYSTICK}) : Pends(e)
             \/ \E e \in Internal \cap {PENDSV, SYSTICK} : Unpends(e)
             \/ \E S \in SUBSET Irq, setval \in {0, 1} :
                  WriteEnable(S, setval) \/ WritePend(S, setval)
    BY <1>1, PendStep
  <1>2. CASE (\E s \in Settings : set_prio(s[1], s[2])) \/ (\E g \in Groups : WriteAircr(g))
    BY <1>2, PriorityStep
  <1>3. CASE WriteMasks
    <2>1. UNCHANGED <<vectors, cache, stack, host, disturbed>> /\ basepri' \in 0..255
      BY <1>3, NvicAssumption, ZenonT(30) DEF WriteMasks, IInv, TypeOK
    <2>2. Updated'
      BY <2>1, UnchangedIsExact DEF IInv, vectors
    <2>3. TypeOK' /\ HardFaultReady' /\ LineDue'
      BY <2>1 DEF IInv, TypeOK, HardFaultReady, LineDue, vectors
    <2>4. AssertionsHold' /\ NoReentry' /\ Nested'
      BY <2>1, QuietKeeps DEF vectors
    <2>5. QED
      BY <2>2, <2>3, <2>4 DEF IInv
  <1>4. CASE exec_interrupt \/ exception_exit \/ \E e \in Synchronous : do_interrupt(e)
    BY <1>4, HandlerStep
  <1>5. CASE armv7m_nvic_reset
    <2>1. Init'
      BY <1>5, ResetIsInit
    <2>2. QED
      BY <2>1, InitIInv, PTL
  <1>6. CASE UNCHANGED vars
    <2>1. UNCHANGED <<prio, enabled, pending, active, level, prigroup, cache, basepri, stack, host, disturbed>>
      BY <1>6 DEF vars, vectors, masks
    <2>2. Updated'
      BY <2>1, UnchangedIsExact DEF IInv
    <2>3. TypeOK' /\ HardFaultReady' /\ LineDue'
      BY <2>1 DEF IInv, TypeOK, HardFaultReady, LineDue
    <2>4. AssertionsHold' /\ NoReentry' /\ Nested'
      BY <2>1, QuietKeeps
    <2>5. QED
      BY <2>2, <2>3, <2>4 DEF IInv
  <1>7. QED
    BY <1>1, <1>2, <1>3, <1>4, <1>5, <1>6 DEF Next

(* The invariant holds at all times.                                       *)
LEMMA SpecIInv == Spec => []IInv
  BY InitIInv, NextIInv, PTL DEF Spec

-----------------------------------------------------------------------------
(* The cached choice and priorities are exact after every operation of     *)
(* armv7m_nvic.c.                                                          *)
THEOREM CacheIsExact == Spec => []CacheExact
  <1>1. IInv => CacheExact
    BY DEF IInv, Updated
  <1>2. QED
    BY <1>1, SpecIInv, PTL

(* The output covers everything arm_v7m_cpu_exec_interrupt could take,     *)
(* although writes to the masks never reach nvic_irq_update.               *)
THEOREM OutputIsCovering == Spec => []OutputCovers
  <1>1. IInv => OutputCovers
    <2> SUFFICES ASSUME IInv, armv7m_nvic_can_take_pending_exception PROVE excpout = 1
      BY DEF OutputCovers
    <2>1. /\ TypeOK /\ active \in SUBSET Exc /\ pending \in SUBSET Exc
          /\ vectpending_prio = PendPrio(prigroup, prio, enabled, pending)
          /\ exception_prio = ActivePrio(prigroup, prio, active)
          /\ excpout = Output(vectpending_prio, exception_prio)
      BY DEF IInv, TypeOK, Updated, CacheExact
    <2>2. exception_prio \in Rank /\ vectpending_prio \in Rank
      BY <2>1, PrioRange
    <2>3. nvic_exec_prio \in Rank /\ nvic_exec_prio <= exception_prio
      BY <2>1, <2>2, MaskRange DEF nvic_exec_prio
    <2>4. vectpending_prio < exception_prio
      BY <2>2, <2>3 DEF armv7m_nvic_can_take_pending_exception, Rank
    <2>5. QED
      BY <2>1, <2>4 DEF Output
  <1>2. QED
    BY <1>1, SpecIInv, PTL

(* No assertion of armv7m_nvic_acknowledge_irq ever fails.                 *)
THEOREM NoAssertionFails == Spec => []AssertionsHold
  <1>1. IInv => AssertionsHold
    BY DEF IInv
  <1>2. QED
    BY <1>1, SpecIInv, PTL

(* No handler is entered while it is active, and every frame on the stack  *)
(* belongs to one active exception, so that every return is legal.         *)
THEOREM NoHandlerReenters == Spec => []NoReentry
  <1>1. IInv => NoReentry
    BY DEF IInv
  <1>2. QED
    BY <1>1, SpecIInv, PTL

(* Handlers nest in the order of their group priorities, as long as the    *)
(* software does not move the priority of an active exception.             *)
THEOREM HandlersNest == Spec => []Nested
  <1>1. IInv => Nested
    BY DEF IInv
  <1>2. QED
    BY <1>1, SpecIInv, PTL

(* A line that is high is pending or has its handler active.               *)
THEOREM HighLineIsDue == Spec => []LineDue
  <1>1. IInv => LineDue
    BY DEF IInv
  <1>2. QED
    BY <1>1, SpecIInv, PTL

(* A step that leaves the three bits of the watched line alone.            *)
LEMMA LatchStutters ==
  ASSUME Watched \in level' <=> Watched \in level,
         Watched \in pending' <=> Watched \in pending,
         Watched \in active' <=> Watched \in active
  PROVE  UNCHANGED Latch!vars
  BY DEF Latch!vars

(* An entry takes the watched line or leaves it alone.                     *)
LEMMA LatchEnters ==
  ASSUME NEW pe, NEW ac, NEW outer, NEW c, EntryOf(c, pe, ac, outer), UNCHANGED level,
         Watched \in pe <=> Watched \in pending,
         Watched \in ac <=> Watched \in active
  PROVE  Latch!Take \/ UNCHANGED Latch!vars
  <1>1. /\ c \in pe /\ c \notin ac
        /\ pending' = pe \ {c} /\ active' = ac \cup {c}
    BY DEF EntryOf
  <1>2. CASE c = Watched
    <2>1. /\ Watched \in pending /\ Watched \notin active
          /\ Watched \notin pending' /\ Watched \in active'
          /\ Watched \in level' <=> Watched \in level
      BY <1>1, <1>2
    <2>2. QED
      BY <2>1 DEF Latch!Take
  <1>3. CASE c # Watched
    <2>1. /\ Watched \in pending' <=> Watched \in pending
          /\ Watched \in active' <=> Watched \in active
          /\ Watched \in level' <=> Watched \in level
      BY <1>1, <1>3
    <2>2. QED
      BY <2>1, LatchStutters
  <1>4. QED
    BY <1>2, <1>3

(* The steps that move no handler are steps of the line.                   *)
LEMMA LatchPends ==
  ASSUME \/ \E n \in Irq, lv \in BOOLEAN : set_irq_level(n, lv)
         \/ \E e \in Irq \cup (Internal \cap {NMI, PENDSV, SYSTICK}) : Pends(e)
         \/ \E e \in Internal \cap {PENDSV, SYSTICK} : Unpends(e)
         \/ \E S \in SUBSET Irq, setval \in {0, 1} : WriteEnable(S, setval) \/ WritePend(S, setval)
  PROVE  Latch!Next \/ UNCHANGED Latch!vars
  <1>1. ASSUME NEW n \in Irq, NEW lv \in BOOLEAN, set_irq_level(n, lv)
        PROVE  Latch!Rise \/ Latch!Fall \/ UNCHANGED Latch!vars
    <2>1. active' = active
      BY <1>1 DEF set_irq_level
    <2>2. CASE lv
      <3>1. level' = level \cup {n} /\ n \notin level /\ pending' = pending \cup {n}
        BY <1>1, <2>2 DEF set_irq_level, set_pending
      <3>2. CASE n = Watched
        <4>1. /\ Watched \in level' /\ Watched \notin level /\ Watched \in pending'
              /\ Watched \in active' <=> Watched \in active
          BY <2>1, <3>1, <3>2
        <4>2. QED
          BY <4>1 DEF Latch!Rise
      <3>3. CASE n # Watched
        BY <2>1, <3>1, <3>3, LatchStutters
      <3>4. QED
        BY <3>2, <3>3
    <2>3. CASE ~lv
      <3>1. level' = level \ {n} /\ pending' = pending
        BY <1>1, <2>3 DEF set_irq_level
      <3>2. CASE n = Watched
        <4>1. /\ Watched \notin level'
              /\ Watched \in pending' <=> Watched \in pending
              /\ Watched \in active' <=> Watched \in active
          BY <2>1, <3>1, <3>2
        <4>2. QED
          BY <4>1 DEF Latch!Fall
      <3>3. CASE n # Watched
        BY <2>1, <3>1, <3>3, LatchStutters
      <3>4. QED
        BY <3>2, <3>3
    <2>4. QED
      BY <2>2, <2>3
  <1>2. ASSUME UNCHANGED <<level, active>>, Watched \in pending'
        PROVE  Latch!Pend
    <2>1. /\ Watched \in level' <=> Watched \in level
          /\ Watched \in active' <=> Watched \in active
      BY <1>2
    <2>2. QED
      BY <1>2, <2>1 DEF Latch!Pend
  <1>3. ASSUME NEW e \in Irq \cup (Internal \cap {NMI, PENDSV, SYSTICK}), Pends(e)
        PROVE  Latch!Pend \/ UNCHANGED Latch!vars
    <2>1. UNCHANGED <<level, active>> /\ pending' = pending \cup {e}
      BY <1>3 DEF Pends, set_pending
    <2>2. CASE e = Watched
      BY <1>2, <2>1, <2>2
    <2>3. CASE e # Watched
      BY <2>1, <2>3, LatchStutters
    <2>4. QED
      BY <2>2, <2>3
  <1>4. ASSUME NEW e \in Internal \cap {PENDSV, SYSTICK}, Unpends(e)
        PROVE  UNCHANGED Latch!vars
    <2>1. UNCHANGED <<level, active>> /\ pending' = pending \ {e}
      BY <1>4 DEF Unpends, clear_pending
    <2>2. e # Watched
      BY NvicAssumption DEF PENDSV, SYSTICK, NVIC_FIRST_IRQ
    <2>3. QED
      BY <2>1, <2>2, LatchStutters
  <1>5. ASSUME NEW S \in SUBSET Irq, NEW setval \in {0, 1}, WriteEnable(S, setval)
        PROVE  UNCHANGED Latch!vars
    BY <1>5, LatchStutters DEF WriteEnable
  <1>6. ASSUME NEW S \in SUBSET Irq, NEW setval \in {0, 1}, WritePend(S, setval)
        PROVE  Latch!Pend \/ Latch!Clear \/ UNCHANGED Latch!vars
    <2>1. /\ UNCHANGED <<level, active>>
          /\ pending' = IF setval = 1 THEN pending \cup S ELSE pending \ ClearsPend(S)
      BY <1>6 DEF WritePend
    <2>2. CASE Watched \in pending'
      BY <1>2, <2>1, <2>2
    <2>3. CASE Watched \notin pending /\ Watched \notin pending'
      BY <2>1, <2>3, LatchStutters
    <2>4. CASE Watched \in pending /\ Watched \notin pending'
      <3>1. /\ ~(Watched \in level /\ Watched \notin active)
            /\ Watched \in level' <=> Watched \in level
            /\ Watched \in active' <=> Watched \in active
        BY <2>1, <2>4 DEF ClearsPend
      <3>2. QED
        BY <2>4, <3>1 DEF Latch!Clear
    <2>5. QED
      BY <2>2, <2>3, <2>4
  <1>7. QED
    BY <1>1, <1>3, <1>4, <1>5, <1>6 DEF Latch!Next

(* A return of another handler is a step of the line, and so is a return   *)
(* of its own, with or without a new entry.                                *)
LEMMA LatchExit ==
  ASSUME IInv, exception_exit
  PROVE  Latch!Next \/ UNCHANGED Latch!vars
  <1>1. TypeOK /\ NoReentry /\ Nested /\ stack # << >> /\ level' = level
    BY DEF IInv, exception_exit
  <1>2. Top \in active
    <2>1. Len(stack) \in DOMAIN stack
      BY <1>1 DEF TypeOK
    <2>2. QED
      BY <1>1, <2>1 DEF NoReentry, Top
  <1> DEFINE pe == pending \cup Repended(Top)
             ac == active \ {Top}
  <1>3. \/ \E c \in Exc : EntryOf(c, pe, ac, Outer)
        \/ pending' = pe /\ active' = ac /\ stack' = Outer /\ host' = host
    BY <1>1, ExitCases
  <1>4. CASE Top # Watched
    <2>1. /\ Watched \in pe <=> Watched \in pending
          /\ Watched \in ac <=> Watched \in active
      BY <1>4 DEF Repended
    <2> HIDE DEF pe, ac
    <2>2. ASSUME NEW c \in Exc, EntryOf(c, pe, ac, Outer)
          PROVE  Latch!Take \/ UNCHANGED Latch!vars
      BY <1>1, <2>1, <2>2, LatchEnters
    <2>3. ASSUME pending' = pe, active' = ac
          PROVE  UNCHANGED Latch!vars
      BY <1>1, <2>1, <2>3, LatchStutters
    <2>4. QED
      BY <1>3, <2>2, <2>3 DEF Latch!Next
  <1>5. CASE Top = Watched
    <2>1. /\ Watched \in pe <=> Watched \in pending \/ Watched \in level
          /\ Watched \notin ac /\ Watched \in active
          /\ Watched \in level' <=> Watched \in level
      BY <1>1, <1>2, <1>5 DEF Repended
    <2> HIDE DEF pe, ac
    <2>2. ASSUME NEW c \in Exc, EntryOf(c, pe, ac, Outer), c = Watched PROVE Latch!Rerun
      <3>1. c \in pe /\ pending' = pe \ {c} /\ active' = ac \cup {c}
        BY <2>2 DEF EntryOf
      <3>2. Watched \notin pending' /\ Watched \in active' /\ Watched \in pe
        BY <3>1, <2>2
      <3>3. QED
        BY <3>2, <2>1 DEF Latch!Rerun
    <2>3. ASSUME Watched \in pending' <=> Watched \in pe, Watched \notin active'
          PROVE  Latch!Return
      BY <2>1, <2>3 DEF Latch!Return
    <2>4. ASSUME NEW c \in Exc, EntryOf(c, pe, ac, Outer), c # Watched PROVE Latch!Return
      <3>1. pending' = pe \ {c} /\ active' = ac \cup {c}
        BY <2>4 DEF EntryOf
      <3>2. (Watched \in pending' <=> Watched \in pe) /\ Watched \notin active'
        BY <3>1, <2>4, <2>1
      <3>3. QED
        BY <3>2, <2>3
    <2>5. ASSUME pending' = pe, active' = ac PROVE Latch!Return
      BY <2>5, <2>1, <2>3
    <2>6. QED
      BY <1>3, <2>2, <2>4, <2>5 DEF Latch!Next
  <1>6. QED
    BY <1>4, <1>5

(* Every external line, seen through the software's registers and the      *)
(* processor's entries and returns, is an InterruptLine.                   *)
THEOREM LinesLatch == Spec => LineLatches
  <1>1. Init => Latch!Init
    BY DEF Init, Latch!Init
  <1>2. IInv /\ [Next]_vars => [Latch!Next]_(Latch!vars)
    <2> SUFFICES ASSUME IInv, [Next]_vars PROVE Latch!Next \/ UNCHANGED Latch!vars
      OBVIOUS
    <2>1. CASE \/ \E n \in Irq, lv \in BOOLEAN : set_irq_level(n, lv)
               \/ \E e \in Irq \cup (Internal \cap {NMI, PENDSV, SYSTICK}) : Pends(e)
               \/ \E e \in Internal \cap {PENDSV, SYSTICK} : Unpends(e)
               \/ \E S \in SUBSET Irq, setval \in {0, 1} :
                    WriteEnable(S, setval) \/ WritePend(S, setval)
      BY <2>1, LatchPends
    <2>2. CASE UNCHANGED <<level, pending, active>>
      BY <2>2, LatchStutters
    <2>3. CASE (\E s \in Settings : set_prio(s[1], s[2])) \/ (\E g \in Groups : WriteAircr(g))
      BY <2>2, <2>3 DEF set_prio, WriteAircr
    <2>4. CASE WriteMasks
      BY <2>2, <2>4 DEF WriteMasks, vectors
    <2>5. CASE exec_interrupt
      <3>1. EntryOf(vectpending, pending, active, stack) /\ UNCHANGED level
        BY <2>5, ExecEnters DEF IInv, exec_interrupt
      <3>2. QED
        BY <3>1, LatchEnters DEF Latch!Next
    <2>6. ASSUME NEW e \in Synchronous, do_interrupt(e)
          PROVE  Latch!Next \/ UNCHANGED Latch!vars
      <3>1. CASE host' = "lockup"
        <4>1. host = "runs"
          BY <2>6 DEF do_interrupt, running
        <4>2. UNCHANGED vectors
          BY <2>6, <3>1, <4>1 DEF do_interrupt, acknowledge
        <4>3. QED
          BY <4>2, <2>2 DEF vectors
      <3>2. CASE host' # "lockup"
        <4>1. PICK x \in Internal, c \in Exc : EntryOf(c, pending \cup {x}, active, stack)
          BY <2>6, <3>2, RaiseEnters DEF IInv
        <4>2. x # Watched
          BY NvicAssumption
             DEF NMI, HARD, MEM, BUS, USAGE, SVC, DEBUG, PENDSV, SYSTICK, NVIC_FIRST_IRQ
        <4>3. (Watched \in pending \cup {x}) <=> Watched \in pending
          BY <4>2
        <4>4. UNCHANGED level
          BY <2>6, <3>2 DEF do_interrupt
        <4>5. QED
          BY <4>1, <4>3, <4>4, LatchEnters DEF Latch!Next
      <3>3. QED
        BY <3>1, <3>2
    <2>7. CASE exception_exit
      BY <2>7, LatchExit
    <2>8. CASE armv7m_nvic_reset
      <3>1. Watched \notin level' /\ Watched \notin pending' /\ Watched \notin active'
        BY <2>8 DEF armv7m_nvic_reset
      <3>2. QED
        BY <3>1 DEF Latch!Next, Latch!Reset
    <2>9. CASE UNCHANGED vars
      BY <2>2, <2>9 DEF vars, vectors
    <2>10. QED
      BY <2>1, <2>3, <2>4, <2>5, <2>6, <2>7, <2>8, <2>9 DEF Next
  <1>3. QED
    BY <1>1, <1>2, SpecIInv, PTL DEF Spec, LineLatches, Latch!Spec

-----------------------------------------------------------------------------
(* No register moves the priorities of NMI and HardFault, and no other     *)
(* exception gets a negative one.                                          *)
FixedPriorities ==
  \A e \in Exc : /\ e # NMI => prio[e] >= -1
                 /\ e \notin {NMI, HARD} => prio[e] >= 0

(* Only set_prio, for the exceptions above HardFault, and a reset write    *)
(* priorities.                                                             *)
LEMMA PrioritiesStayFixed == Spec => []FixedPriorities
  <1>1. Init => FixedPriorities
    BY DEF Init, FixedPriorities
  <1>2. ASSUME IInv, FixedPriorities, [Next]_vars PROVE FixedPriorities'
    <2>1. CASE \E s \in Settings : set_prio(s[1], s[2])
      <3>1. PICK s \in Settings : set_prio(s[1], s[2])
        BY <2>1
      <3> DEFINE x == s[1]
                 q == Kept(s[2])
      <3>2. prio' = [prio EXCEPT ![x] = q] /\ x > HARD /\ q \in 0..255
        BY <3>1, NvicAssumption DEF set_prio, Configurable
      <3> HIDE DEF x, q
      <3>3. prio \in [Exc -> -2..255]
        BY <1>2 DEF IInv, TypeOK, Priorities
      <3>4. QED
        BY <1>2, <3>2, <3>3 DEF FixedPriorities
    <2>2. CASE armv7m_nvic_reset
      BY <2>2 DEF armv7m_nvic_reset, FixedPriorities
    <2>3. CASE prio' = prio
      BY <1>2, <2>3 DEF FixedPriorities
    <2>4. CASE \/ \E n \in Irq, lv \in BOOLEAN : set_irq_level(n, lv)
               \/ \E e \in Irq \cup (Internal \cap {NMI, PENDSV, SYSTICK}) : Pends(e)
               \/ \E e \in Internal \cap {PENDSV, SYSTICK} : Unpends(e)
               \/ \E S \in SUBSET Irq, setval \in {0, 1} :
                    WriteEnable(S, setval) \/ WritePend(S, setval)
               \/ \E g \in Groups : WriteAircr(g)
      BY <2>3, <2>4, Zenon DEF set_irq_level, Pends, Unpends, WriteEnable, WritePend, WriteAircr
    <2>5. CASE \/ WriteMasks \/ exec_interrupt \/ exception_exit
               \/ \E e \in Synchronous : do_interrupt(e)
      <3>1. prio' = prio
        BY <2>5 DEF WriteMasks, exec_interrupt, exception_exit, do_interrupt, vectors
      <3>2. QED
        BY <2>3, <3>1
    <2>6. CASE UNCHANGED vars
      <3>1. prio' = prio
        BY <2>6 DEF vars, vectors
      <3>2. QED
        BY <2>3, <3>1
    <2>7. QED
      BY <1>2, <2>1, <2>2, <2>4, <2>5, <2>6, Zenon DEF Next
  <1>3. QED
    BY <1>1, <1>2, SpecIInv, PTL DEF Spec

(* Grouping keeps a priority of 0 or above at 0 or above.                  *)
LEMMA GroupSign ==
  ASSUME NEW g \in 0..7, NEW a \in -2..255, 0 <= a
  PROVE  0 <= exc_group_prio(g, a)
  <1>1. exc_group_prio(g, 0) = 0 /\ 0 \in -2..255
    BY DEF exc_group_prio
  <1>2. exc_group_prio(g, 0) <= exc_group_prio(g, a)
    BY <1>1, GroupOrder
  <1>3. QED
    BY <1>1, <1>2

(* What the masks let through: the group priority of the exception that is *)
(* entered tells which exception it is.                                    *)
LEMMA MasksHold ==
  ASSUME TypeOK, FixedPriorities, NEW e \in Exc, NEW fm,
         exc_group_prio(prigroup, prio[e]) < MaskPrio(fm)
  PROVE  /\ fm = 1 => e = NMI
         /\ primask = 1 => e \in {NMI, HARD}
         /\ basepri > 0 => exc_group_prio(prigroup, prio[e]) < exc_group_prio(prigroup, basepri)
  <1> DEFINE q == exc_group_prio(prigroup, prio[e])
             b == exc_group_prio(prigroup, basepri)
  <1>1. prigroup \in 0..7 /\ prio[e] \in -2..255 /\ basepri \in -2..255 /\ 0 \in -2..255
    BY DEF TypeOK, Priorities
  <1>2. exc_group_prio(prigroup, 0) = 0
    BY DEF exc_group_prio
  <1>3. q \in -2..255 /\ b \in -2..255
    BY <1>1, GroupRange
  <1>4. 0 <= prio[e] => 0 <= q
    BY <1>1, GroupSign
  <1>5. 0 <= basepri => 0 <= b
    BY <1>1, GroupSign
  <1>6. prio[e] < 0 => q = prio[e]
    BY <1>1 DEF exc_group_prio
  <1>7. q < IF fm = 1 THEN -1 ELSE IF primask = 1 THEN 0
            ELSE IF basepri > 0 THEN b ELSE 256
    BY DEF MaskPrio, NVIC_NOEXC_PRIO
  <1>8. (e # NMI => prio[e] >= -1) /\ (e \notin {NMI, HARD} => prio[e] >= 0)
    BY DEF FixedPriorities
  <1> HIDE DEF q, b
  <1>9. fm = 1 => e = NMI
    BY <1>1, <1>3, <1>4, <1>6, <1>7, <1>8
  <1>10. primask = 1 => e \in {NMI, HARD}
    BY <1>1, <1>3, <1>4, <1>7, <1>8
  <1>11. basepri > 0 => q < b
    BY <1>1, <1>3, <1>5, <1>7
  <1>12. QED
    BY <1>9, <1>10, <1>11, Zenon DEF q, b

(* An entry obeys the masks, the priorities of the handlers it interrupts  *)
(* and those of the exceptions it leaves pending.                          *)
LEMMA EntryObeys ==
  ASSUME TypeOK, FixedPriorities, NEW pe, NEW ac, NEW outer \in Seq(Exc), NEW c \in Exc,
         EntryOf(c, pe, ac, outer), NEW e \in Exc, e = stack'[Len(stack')]
  PROVE  /\ faultmask' = 1 => e = NMI
         /\ primask = 1 => e \in {NMI, HARD}
         /\ basepri > 0 => exc_group_prio(prigroup, prio[e]) < exc_group_prio(prigroup, basepri)
         /\ \A a \in active' \ {e} :
              exc_group_prio(prigroup, prio[e]) < exc_group_prio(prigroup, prio[a])
         /\ \A j \in enabled \cap pending' : prio[e] <= prio[j]
  <1>1. /\ \A j \in enabled \cap pe : prio[c] <= prio[j]
        /\ exc_group_prio(prigroup, prio[c]) < MaskPrio(faultmask')
        /\ \A a \in ac : exc_group_prio(prigroup, prio[c]) < exc_group_prio(prigroup, prio[a])
        /\ pending' = pe \ {c} /\ active' = ac \cup {c}
        /\ stack' = Append(outer, c)
    BY Zenon DEF EntryOf
  <1>2. e = c
    BY <1>1, Pushed, Zenon
  <1>3. /\ faultmask' = 1 => e = NMI
        /\ primask = 1 => e \in {NMI, HARD}
        /\ basepri > 0 => exc_group_prio(prigroup, prio[e]) < exc_group_prio(prigroup, basepri)
    BY <1>1, <1>2, MasksHold, Zenon
  <1>4. /\ \A a \in active' \ {e} : a \in ac
        /\ \A j \in enabled \cap pending' : j \in enabled \cap pe
    BY <1>1, <1>2
  <1>5. QED
    BY <1>1, <1>2, <1>3, <1>4, Zenon

(* Whichever way leads to a handler (an interrupt, a fault or call, a      *)
(* return that is chained), PRIMASK, FAULTMASK, BASEPRI and the priority   *)
(* order are obeyed, for all priorities and groups that software writes.   *)
THEOREM EntriesAreDue == Spec => EntryIsDue
  <1> DEFINE Due(e) ==
        /\ faultmask' = 1 => e = NMI
        /\ primask = 1 => e \in {NMI, HARD}
        /\ basepri > 0 => exc_group_prio(prigroup, prio[e]) < exc_group_prio(prigroup, basepri)
        /\ \A a \in active' \ {e} :
             exc_group_prio(prigroup, prio[e]) < exc_group_prio(prigroup, prio[a])
        /\ \A j \in enabled \cap pending' : prio[e] <= prio[j]
  <1>1. ASSUME IInv, FixedPriorities, [Next]_vars, NEW e \in Exc, Enters(e)
        PROVE  Due(e)
    <2>1. /\ TypeOK /\ HardFaultReady /\ Updated /\ NoReentry /\ Nested
          /\ stack \in Seq(Exc) /\ Len(stack) \in Nat
      BY <1>1 DEF IInv, TypeOK
    <2>2. /\ stack' # << >> /\ e = stack'[Len(stack')]
          /\ Len(stack') > Len(stack) \/ (exception_exit /\ Len(stack') = Len(stack))
      BY <1>1 DEF Enters
    <2>3. CASE exception_exit
      <3>1. stack # << >>
        BY <2>3 DEF exception_exit
      <3>2. Outer \in Seq(Exc) /\ Len(Outer) < Len(stack)
        <4>1. Outer \in Seq(Exc)
          BY <2>1, <3>1, Popped
        <4>2. Len(stack) \in Nat \ {0}
          BY <2>1, <3>1
        <4>3. QED
          BY <2>1, <4>1, <4>2 DEF Outer
      <3>3. CASE \E c \in Exc : EntryOf(c, pending \cup Repended(Top), active \ {Top}, Outer)
        BY <1>1, <2>1, <2>2, <3>2, <3>3, EntryObeys, Zenon
      <3>4. stack' # Outer
        BY <2>1, <2>2, <3>2
      <3>5. QED
        BY <2>1, <2>3, <3>3, <3>4, ExitCases
    <2>4. CASE exec_interrupt
      <3>1. EntryOf(vectpending, pending, active, stack)
        BY <2>1, <2>4, ExecEnters
      <3>2. vectpending \in Exc
        BY <2>1, <3>1 DEF EntryOf, TypeOK
      <3>3. QED
        BY <1>1, <2>1, <2>2, <3>1, <3>2, EntryObeys, Zenon
    <2>5. ASSUME NEW x \in Synchronous, do_interrupt(x) PROVE Due(e)
      <3>1. CASE host' = "lockup"
        <4>1. host = "runs"
          BY <2>5 DEF do_interrupt, running
        <4>2. stack' = stack
          BY <2>5, <3>1, <4>1 DEF do_interrupt, acknowledge
        <4>3. QED
          BY <2>1, <2>2, <2>3, <4>2
      <3>2. CASE host' # "lockup"
        <4>1. PICK y \in Internal, c \in Exc : EntryOf(c, pending \cup {y}, active, stack)
          BY <2>1, <2>5, <3>2, RaiseEnters
        <4>2. QED
          BY <1>1, <2>1, <2>2, <4>1, EntryObeys, Zenon
      <3>3. QED
        BY <3>1, <3>2
    <2>6. CASE stack' = stack
      BY <2>1, <2>2, <2>3, <2>6
    <2>7. CASE armv7m_nvic_reset
      BY <2>2, <2>7 DEF armv7m_nvic_reset
    <2>8. CASE \/ \E n \in Irq, lv \in BOOLEAN : set_irq_level(n, lv)
               \/ \E x \in Irq \cup (Internal \cap {NMI, PENDSV, SYSTICK}) : Pends(x)
               \/ \E x \in Internal \cap {PENDSV, SYSTICK} : Unpends(x)
               \/ \E S \in SUBSET Irq, setval \in {0, 1} :
                    WriteEnable(S, setval) \/ WritePend(S, setval)
               \/ \E s \in Settings : set_prio(s[1], s[2])
               \/ \E g \in Groups : WriteAircr(g)
               \/ WriteMasks
      <3>1. UNCHANGED stack
        BY <2>8, Zenon DEF set_irq_level, Pends, Unpends, WriteEnable, WritePend, set_prio,
                       WriteAircr, WriteMasks, Elsewhere
      <3>2. QED
        BY <2>6, <3>1
    <2>9. CASE UNCHANGED vars
      <3>1. stack' = stack
        BY <2>9 DEF vars
      <3>2. QED
        BY <2>6, <3>1
    <2>10. QED
      BY <1>1, <2>3, <2>4, <2>5, <2>7, <2>8, <2>9, Zenon DEF Next
  <1>2. IInv /\ FixedPriorities /\ [Next]_vars => [\A e \in Exc : Enters(e) => Due(e)]_vars
    BY <1>1, Zenon
  <1> HIDE DEF Due
  <1>3. QED
    BY <1>2, SpecIInv, PrioritiesStayFixed, PTL DEF Spec, EntryIsDue, Due

-----------------------------------------------------------------------------
(* The active priority that the controller caches, against which every     *)
(* pending exception is compared, is that of the innermost handler: the    *)
(* loop of nvic_recompute_state, which knows no stack, finds the handler   *)
(* the processor executes.                                                 *)
THEOREM ExecutingIsInnermost ==
  Spec => [](disturbed = 0 /\ stack # << >> =>
               exception_prio = exc_group_prio(prigroup, prio[stack[Len(stack)]]))
  <1> DEFINE Level(e) == exc_group_prio(prigroup, prio[e])
  <1>1. ASSUME IInv, disturbed = 0, stack # << >>
        PROVE  exception_prio = Level(stack[Len(stack)])
    <2> DEFINE top == Len(stack)
               u == Urgent(prio, active)
    <2>1. prio \in Priorities /\ active \in SUBSET Exc /\ prigroup \in 0..7
      BY <1>1 DEF IInv, TypeOK
    <2>2. /\ stack \in Seq(Exc)
          /\ active = {stack[i] : i \in DOMAIN stack}
          /\ \A i, j \in DOMAIN stack : i < j => Level(stack[j]) < Level(stack[i])
      BY <1>1 DEF IInv, TypeOK, NoReentry, Nested
    <2>3. top \in DOMAIN stack /\ \A i \in DOMAIN stack : i \in Nat /\ (i = top \/ i < top)
      BY <1>1, <2>2
    <2>4. stack[top] \in active /\ active # {}
      BY <2>2, <2>3
    <2>5. u \in active /\ exception_prio = Level(u)
      <3>1. exception_prio = BestPrio(prigroup, prio, active)
        BY <1>1 DEF IInv, Updated, CacheExact, ActivePrio
      <3>2. active # {}
        BY <2>4
      <3>3. u \in active /\ BestPrio(prigroup, prio, active) = Level(u)
        BY <2>1, <3>2, UrgentIs, Zenon DEF BestPrio
      <3>4. QED
        BY <3>1, <3>3, Zenon
    <2>6. exception_prio <= Level(stack[top])
      <3>1. exception_prio = BestPrio(prigroup, prio, active)
        BY <1>1 DEF IInv, Updated, CacheExact, ActivePrio
      <3>2. QED
        BY <2>1, <2>4, <3>1, BestEach, Zenon
    <2>7. Level(u) \in Int /\ Level(stack[top]) \in Int
      <3>1. \A e \in active : prio[e] \in -2..255
        BY <2>1 DEF Priorities
      <3>2. \A e \in active : Level(e) \in -2..255
        BY <2>1, <3>1, GroupRange, Zenon
      <3> HIDE DEF Level, top, u
      <3>3. QED
        BY <2>4, <2>5, <3>2
    <2>8. PICK i \in DOMAIN stack : u = stack[i]
      BY <2>2, <2>5, Zenon
    <2> HIDE DEF Level, top, u
    <2>9. i = top
      BY <2>2, <2>3, <2>5, <2>6, <2>7, <2>8
    <2>10. QED
      BY <2>5, <2>8, <2>9 DEF top
  <1>2. QED
    BY <1>1, SpecIInv, PTL

(* A group priority and its place in the order of the groups.              *)
Place(g, a) == IF a < 0 THEN a ELSE a \div Span[g + 1]
Placed(p, k) == p \in Int /\ k \in Nat /\ -2 <= p /\ p < k
Raw == -2..255

(* There are two fixed priorities below zero and 256 / Span groups from    *)
(* zero up.                                                                *)
LEMMA PlaceRange ==
  ASSUME NEW g \in 0..7, NEW a \in Raw
  PROVE  Placed(Place(g, a), 256 \div Span[g + 1])
  <1> USE DEF Raw, Placed
  <1> DEFINE m == Span[g + 1]
             k == 256 \div m
             q == a \div m
  <1>1. Place(g, a) = IF a < 0 THEN a ELSE q
    BY DEF Place
  <1>2. m \in {2, 4, 8, 16, 32, 64, 128, 256}
    BY DEF Span
  <1> HIDE DEF m
  <1>3. k \in Nat \ {0} /\ m * k = 256 /\ m \in Nat \ {0}
    BY <1>2
  <1>4. CASE a < 0
    BY <1>1, <1>3, <1>4 DEF m
  <1>5. CASE a >= 0
    <2>1. q \in Nat /\ m * q <= a
      BY <1>3, <1>5
    <2> HIDE DEF k, q
    <2>2. m * q < m * k
      BY <1>3, <2>1
    <2>3. q < k
      BY <1>3, <2>1, <2>2, MultipleOrder
    <2>4. QED
      BY <1>1, <1>3, <1>5, <2>1, <2>3 DEF k, m
  <1>6. QED
    BY <1>4, <1>5

(* A lower group has a lower place.                                        *)
LEMMA PlaceOrder ==
  ASSUME NEW g \in 0..7, NEW a \in Raw, NEW b \in Raw,
         exc_group_prio(g, a) < exc_group_prio(g, b)
  PROVE  Place(g, a) < Place(g, b)
  <1> USE DEF Raw
  <1> DEFINE m == Span[g + 1]
  <1>1. m \in Nat \ {0}
    BY DEF Span
  <1>2. /\ exc_group_prio(g, a) = IF a > 0 THEN a - (a % m) ELSE a
        /\ exc_group_prio(g, b) = IF b > 0 THEN b - (b % m) ELSE b
        /\ Place(g, a) = IF a < 0 THEN a ELSE a \div m
        /\ Place(g, b) = IF b < 0 THEN b ELSE b \div m
    BY DEF exc_group_prio, Place
  <1> HIDE DEF m
  <1> DEFINE qa == a \div m
             qb == b \div m
  <1>3. a >= 0 => a - (a % m) = m * qa /\ qa \in Nat
    BY <1>1
  <1>4. b >= 0 => b - (b % m) = m * qb /\ qb \in Nat
    BY <1>1
  <1>5. (0 % m) = 0
    BY <1>1
  <1>6. /\ a >= 0 => exc_group_prio(g, a) = m * qa
        /\ b >= 0 => exc_group_prio(g, b) = m * qb
    BY <1>2, <1>3, <1>4, <1>5
  <1> HIDE DEF qa, qb
  <1>7. CASE a >= 0 /\ b >= 0
    <2>1. m * qa < m * qb
      BY <1>6, <1>7
    <2>2. qa < qb
      BY <1>1, <1>3, <1>4, <1>7, <2>1, MultipleOrder
    <2>3. QED
      BY <1>2, <1>7, <2>2 DEF qa, qb
  <1>8. CASE a >= 0 /\ b < 0
    <2>1. m * qa \in Nat
      BY <1>1, <1>3, <1>8
    <2>2. QED
      BY <1>2, <1>6, <1>8, <2>1
  <1>9. CASE a < 0 /\ b >= 0
    BY <1>2, <1>4, <1>9 DEF qb
  <1>10. CASE a < 0 /\ b < 0
    BY <1>2, <1>10
  <1>11. QED
    BY <1>7, <1>8, <1>9, <1>10

(* Handlers preempt each other at most once per group of priorities, and   *)
(* twice more for HardFault and NMI: with PRIGROUP the software bounds the *)
(* frames on its stack, however many lines the board has.                  *)
THEOREM DepthIsBounded ==
  Spec => [](disturbed = 0 => Len(stack) <= 256 \div Span[prigroup + 1] + 2)
  <1>1. ASSUME IInv, disturbed = 0
        PROVE  Len(stack) <= 256 \div Span[prigroup + 1] + 2
    <2> DEFINE n == Len(stack)
               k == 256 \div Span[prigroup + 1]
               f == [i \in 1..n |-> Place(prigroup, prio[stack[i]])]
    <2>1. /\ prio \in Priorities /\ prigroup \in 0..7
          /\ stack \in Seq(Exc)
          /\ \A i, j \in DOMAIN stack : i < j =>
               exc_group_prio(prigroup, prio[stack[j]]) < exc_group_prio(prigroup, prio[stack[i]])
      BY <1>1 DEF IInv, TypeOK, Nested
    <2>2. n \in Nat /\ DOMAIN stack = 1..n
      BY <2>1
    <2>3. \A i \in 1..n : prio[stack[i]] \in Raw
      BY <2>1, <2>2 DEF Priorities, Raw
    <2> HIDE DEF n, k
    <2>4. ASSUME NEW i \in 1..n PROVE f[i] \in Int /\ -2 <= f[i] /\ f[i] < k
      <3> DEFINE p == Place(prigroup, prio[stack[i]])
      <3>1. Placed(p, k)
        BY <2>1, <2>3, PlaceRange, Zenon DEF k
      <3>2. f[i] = p
        OBVIOUS
      <3>3. QED
        BY <3>1, <3>2, Zenon DEF Placed
    <2>5. ASSUME NEW i \in 1..n, NEW j \in 1..n, i < j PROVE f[j] < f[i]
      <3>1. exc_group_prio(prigroup, prio[stack[j]]) < exc_group_prio(prigroup, prio[stack[i]])
        BY <2>1, <2>2, <2>5
      <3>2. Place(prigroup, prio[stack[j]]) < Place(prigroup, prio[stack[i]])
        BY <2>1, <2>3, <3>1, PlaceOrder, Zenon
      <3>3. QED
        BY <3>2
    <2>6. k \in Nat
      <3>1. 0 \in Raw
        BY DEF Raw
      <3>2. QED
        BY <2>1, <3>1, PlaceRange, Zenon DEF k, Placed
    <2>7. f \in [1..n -> Int]
      BY <2>4
    <2> HIDE DEF f
    <2>8. n <= k + 2
      BY <2>2, <2>4, <2>5, <2>6, <2>7, FallingIsShort
    <2>9. QED
      BY <2>8 DEF n, k
  <1>2. QED
    BY <1>1, SpecIInv, PTL
=============================================================================
