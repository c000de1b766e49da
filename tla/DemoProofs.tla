----------------------------- MODULE DemoProofs -----------------------------
(***************************************************************************)
(* Theorems about the demo application, for lines of any length.           *)
(***************************************************************************)
EXTENDS Demo, NaturalFacts, TLAPS

Label ==
  {"take", "hello", "get", "bye", "give", "tda", "tdb", "tr", "poll", "byte", "release",
   "format", "text", "none", "clear", "print", "return"}

TypeOK ==
  /\ pc \in [1..5 -> Label] /\ idx \in [1..5 -> Nat]
  /\ sem \in SUBSET Task
  /\ characters \in Line /\ characters2 \in Line /\ got \in Seq(Typed)
  /\ rxdata \in Typed /\ (rxIn = << >> \/ \E c \in Typed : rxIn = <<c>>)
  /\ draft \in [{can0, can1} -> Line] /\ box \in [{can0, can1} -> Line]

(* Task t has the turn: the others wait, and no semaphore but that of t    *)
(* can be taken, and only while t waits for it.                            *)
Token(t) ==
  /\ \A u \in Task : u # t => pc[u] = "take"
  /\ sem = IF pc[t] = "take" THEN {t} ELSE {}

HasTurn(t) == pc[t] # "take" \/ t \in sem

(* The line on its way: from the UART into characters, ...                 *)
LineIn ==
  /\ pc[1] = "hello" => got = << >>
  /\ pc[1] = "get" =>
       /\ idx[1] < N /\ Len(got) = idx[1]
       /\ \A i \in 1..idx[1] : characters[i] = got[i]
  /\ pc[1] \in {"bye", "give"} \/ HasTurn(2) \/ HasTurn(3) \/ HasTurn(4) => got = characters

(* ... through the two data words into the mailbox of CAN1, ...            *)
InMail == pc[2] \in {"bye", "give"} \/ 3 \in sem \/ pc[3] \in {"hello", "poll", "byte", "release"}

LineSent ==
  /\ pc[2] = "tdb" => \A i \in 1..N : i <= Half => draft[can0][i] = characters[i]
  /\ pc[2] = "tr" => draft[can0] = characters
  /\ InMail => full = {can1} /\ box[can1] = characters
  /\ ~InMail => full = {}
  /\ lost = {}

(* ... into characters2, and into the text that is printed.                *)
LineOut ==
  /\ pc[3] = "poll" => idx[3] = 0
  /\ pc[3] = "byte" => idx[3] < N /\ \A i \in 1..idx[3] : characters2[i] = characters[i]
  /\ pc[3] \in {"release", "bye", "give"} \/ HasTurn(4) => characters2 = characters
  /\ pc[4] = "text" => str = sprintf(characters2)

Labels ==
  /\ pc[1] \in {"take", "hello", "get", "bye", "give"}
  /\ pc[2] \in {"take", "hello", "tda", "tdb", "tr", "bye", "give"}
  /\ pc[3] \in {"take", "hello", "poll", "byte", "release", "bye", "give"}
  /\ pc[4] \in {"take", "hello", "format", "text", "bye", "give"}

IInv ==
  /\ TypeOK /\ Labels
  /\ \E t \in Task : Token(t)
  /\ LineIn /\ LineSent /\ LineOut

-----------------------------------------------------------------------------
(* A task that is past its take has the turn: the others wait and no       *)
(* semaphore can be taken.                                                 *)
LEMMA TurnOf ==
  ASSUME IInv, NEW t \in Task, pc[t] # "take"
  PROVE  sem = {} /\ \A u \in Task : u # t => pc[u] = "take"
  BY DEF IInv, Token

(* A task that can take its semaphore has the turn.                        *)
LEMMA TurnTaken ==
  ASSUME IInv, NEW t \in Task, t \in sem
  PROVE  sem = {t} /\ \A u \in Task : pc[u] = "take"
  BY DEF IInv, Token

(* A step of t moves only its own program counter.                         *)
LEMMA PcMoves ==
  ASSUME TypeOK, NEW t \in 1..5, NEW l \in Label, pc' = [pc EXCEPT ![t] = l]
  PROVE  /\ pc' \in [1..5 -> Label]
         /\ pc'[t] = l /\ \A u \in 1..5 : u # t => pc'[u] = pc[u]
  BY DEF TypeOK

(* Steps of the UART and of the handler leave everything of the tasks      *)
(* alone.                                                                  *)
LEMMA QuietStep ==
  ASSUME IInv, pc' \in [1..5 -> Label], idx' \in [1..5 -> Nat],
         \A u \in Task : pc'[u] = pc[u] /\ idx'[u] = idx[u],
         UNCHANGED <<sem, buffers, can>>,
         rxdata' \in Typed, rxIn' = << >> \/ \E c \in Typed : rxIn' = <<c>>
  PROVE  IInv'
  <1>1. /\ pc'[1] = pc[1] /\ pc'[2] = pc[2] /\ pc'[3] = pc[3] /\ pc'[4] = pc[4]
        /\ idx'[1] = idx[1] /\ idx'[3] = idx[3]
        /\ UNCHANGED <<sem, characters, characters2, str, got, draft, full, box, lost>>
    BY DEF Task, buffers, can
  <1>2. TypeOK'
    BY <1>1 DEF IInv, TypeOK
  <1>3. Labels'
    BY <1>1 DEF IInv, Labels
  <1>4. \E t \in Task : Token(t)'
    <2>1. PICK t \in Task : Token(t)
      BY DEF IInv
    <2>2. Token(t)'
      BY <1>1, <2>1 DEF Token
    <2>3. QED
      BY <2>2
  <1>5. LineIn'
    BY <1>1 DEF IInv, LineIn, HasTurn
  <1>6. LineSent'
    BY <1>1 DEF IInv, LineSent, InMail
  <1>7. LineOut'
    BY <1>1 DEF IInv, LineOut, HasTurn
  <1>8. QED
    BY <1>2, <1>3, <1>4, <1>5, <1>6, <1>7 DEF IInv

(* The UART moves characters by itself; what it received stays typed.      *)
LEMMA UartStep ==
  ASSUME IInv, Arrives \/ Emits \/ Completes
  PROVE  IInv'
  <1>1. UNCHANGED <<pc, idx, sem, buffers, can>>
    BY DEF Arrives, Emits, Completes
  <1>2. pc' \in [1..5 -> Label] /\ idx' \in [1..5 -> Nat]
    BY <1>1 DEF IInv, TypeOK
  <1>3. rxdata \in Typed /\ (rxIn = << >> \/ \E c \in Typed : rxIn = <<c>>)
    BY DEF IInv, TypeOK
  <1>4. rxdata' \in Typed /\ (rxIn' = << >> \/ \E c \in Typed : rxIn' = <<c>>)
    <2>1. CASE Arrives
      BY <1>3, <2>1 DEF Arrives, Port!Arrive
    <2>2. CASE Emits
      BY <1>3, <2>2 DEF Emits, Port!Emit, Port!rx
    <2>3. CASE Completes
      BY <1>3, <2>3 DEF Completes, Port!Complete
    <2>4. QED
      BY <2>1, <2>2, <2>3
  <1>5. QED
    BY <1>1, <1>2, <1>4, QuietStep

(* A test of TRDY or RRDY leaves everything but its own note alone.        *)
LEMMA SeesStep ==
  ASSUME IInv, NEW t, NEW bit, Sees(t, bit)
  PROVE  IInv'
  <1>1. UNCHANGED <<pc, idx, sem, buffers, can, rxdata, rxIn>>
    BY DEF Sees, uart
  <1>2. /\ pc' \in [1..5 -> Label] /\ idx' \in [1..5 -> Nat]
        /\ rxdata' \in Typed /\ (rxIn' = << >> \/ \E c \in Typed : rxIn' = <<c>>)
    BY <1>1 DEF IInv, TypeOK
  <1>3. QED
    BY <1>1, <1>2, QuietStep

(* The handler prints and changes the UART's flags, and nothing that the   *)
(* tasks pass on.                                                          *)
LEMMA HandlerStep ==
  ASSUME IInv, Handler
  PROVE  IInv'
  <1>1. TypeOK /\ 5 \in 1..5 /\ \A u \in Task : u \in 1..5 /\ u # 5
    BY DEF IInv, Task
  <1>2. ASSUME NEW l \in {"none", "clear", "print", "return"},
               pc' = [pc EXCEPT ![5] = l], idx' \in [1..5 -> Nat],
               \A u \in Task : idx'[u] = idx[u],
               UNCHANGED <<sem, buffers, can, rxdata, rxIn>>
        PROVE  IInv'
    <2>1. l \in Label
      BY DEF Label
    <2>2. pc' \in [1..5 -> Label] /\ \A u \in 1..5 : u # 5 => pc'[u] = pc[u]
      BY <1>1, <1>2, <2>1, PcMoves
    <2>3. \A u \in Task : pc'[u] = pc[u] /\ idx'[u] = idx[u]
      BY <1>1, <1>2, <2>2
    <2>4. rxdata' \in Typed /\ (rxIn' = << >> \/ \E c \in Typed : rxIn' = <<c>>)
      BY <1>1, <1>2 DEF TypeOK
    <2>5. QED
      BY <1>2, <2>2, <2>3, <2>4, QuietStep
  <1>3. CASE armv7m_nvic_acknowledge_irq \/ UART_clear_interrupt \/ armv7m_nvic_complete_irq
    <2>1. UNCHANGED <<idx, sem, buffers, can, rxdata, rxIn>>
      BY <1>3 DEF armv7m_nvic_acknowledge_irq, UART_clear_interrupt, armv7m_nvic_complete_irq,
                  uart, Port!ClearErrors
    <2>2. \E l \in {"none", "clear", "print", "return"} : pc' = [pc EXCEPT ![5] = l]
      BY <1>3 DEF armv7m_nvic_acknowledge_irq, UART_clear_interrupt, armv7m_nvic_complete_irq,
                  Goto, Uart_Handler
    <2>3. idx' \in [1..5 -> Nat] /\ \A u \in Task : idx'[u] = idx[u]
      BY <1>1, <2>1 DEF TypeOK
    <2>4. QED
      BY <1>2, <2>1, <2>2, <2>3
  <1>4. CASE Says(Uart_Handler, "print", "return")
    <2>1. CASE Sees(Uart_Handler, Ready)
      BY <2>1, SeesStep
    <2>2. CASE /\ UART_printf(Uart_Handler, Mark) /\ Goto(Uart_Handler, "return")
               /\ idx' = [idx EXCEPT ![Uart_Handler] = 0]
               /\ UNCHANGED <<sem, buffers, irq, can>>
      <3>1. idx' \in [1..5 -> Nat] /\ \A u \in Task : idx'[u] = idx[u]
        BY <1>1, <2>2 DEF TypeOK, Uart_Handler
      <3>2. UNCHANGED <<rxdata, rxIn>>
        BY <2>2 DEF UART_printf, Port!Put, Port!rx
      <3>3. \E l \in {"none", "clear", "print", "return"} : pc' = [pc EXCEPT ![5] = l]
        BY <2>2 DEF Goto, Uart_Handler
      <3>4. QED
        BY <1>2, <2>2, <3>1, <3>2, <3>3
    <2>3. QED
      BY <1>4, <2>1, <2>2 DEF Says
  <1>5. QED
    BY <1>3, <1>4 DEF Handler

-----------------------------------------------------------------------------
(* A step inside the turn of t keeps the turn.                             *)
LEMMA TurnKept ==
  ASSUME IInv, NEW t \in Task, pc[t] # "take", NEW l \in Label, l # "take",
         pc' = [pc EXCEPT ![t] = l], sem' = sem
  PROVE  /\ pc' \in [1..5 -> Label] /\ pc'[t] = l
         /\ \A u \in Task : u # t => pc'[u] = "take" /\ pc[u] = "take"
         /\ sem = {} /\ sem' = {}
         /\ \E u \in Task : Token(u)'
  <1>1. TypeOK /\ t \in 1..5 /\ \A u \in Task : u \in 1..5
    BY DEF IInv, Task
  <1>2. pc' \in [1..5 -> Label] /\ pc'[t] = l /\ \A u \in 1..5 : u # t => pc'[u] = pc[u]
    BY <1>1, PcMoves
  <1>3. sem = {} /\ \A u \in Task : u # t => pc[u] = "take"
    BY TurnOf
  <1>4. Token(t)'
    BY <1>1, <1>2, <1>3 DEF Token
  <1>5. QED
    BY <1>1, <1>2, <1>3, <1>4

(* xSemaphoreTake: the turn stays where it is.                             *)
LEMMA TakeStep ==
  ASSUME IInv, NEW t \in Task, xSemaphoreTake(t)
  PROVE  IInv'
  <1>1. sem = {t} /\ \A u \in Task : pc[u] = "take"
    BY TurnTaken DEF xSemaphoreTake
  <1>2. TypeOK /\ t \in 1..5 /\ \A u \in Task : u \in 1..5
    BY DEF IInv, Task
  <1>3. /\ pc' = [pc EXCEPT ![t] = "hello"] /\ sem' = {}
        /\ got' = IF t = 1 THEN << >> ELSE got
        /\ UNCHANGED <<idx, characters, characters2, str, rxdata, rxIn, draft, full, box, lost>>
    BY <1>1 DEF xSemaphoreTake, Goto, uart, can
  <1>4. "hello" \in Label
    BY DEF Label
  <1>5. pc' \in [1..5 -> Label] /\ pc'[t] = "hello" /\ \A u \in 1..5 : u # t => pc'[u] = pc[u]
    BY <1>2, <1>3, <1>4, PcMoves
  <1>6. \A u \in Task : u # t => pc'[u] = "take"
    BY <1>1, <1>2, <1>5
  <1>7. Token(t)'
    BY <1>3, <1>5, <1>6 DEF Token
  <1>8. t \in {1, 2, 3, 4} /\ 1 \in Task /\ 2 \in Task /\ 3 \in Task /\ 4 \in Task
    BY DEF Task
  <1>9. TypeOK'
    BY <1>2, <1>3, <1>5 DEF TypeOK
  <1>10. Labels'
    BY <1>5, <1>6, <1>8 DEF Labels
  <1>11. LineIn'
    BY <1>1, <1>3, <1>5, <1>6, <1>8 DEF IInv, LineIn, HasTurn
  <1>12. LineSent'
    BY <1>1, <1>3, <1>5, <1>6, <1>8 DEF IInv, LineSent, InMail
  <1>13. LineOut'
    BY <1>1, <1>3, <1>5, <1>6, <1>8 DEF IInv, LineOut, HasTurn
  <1>14. QED
    BY <1>7, <1>9, <1>10, <1>11, <1>12, <1>13 DEF IInv

(* xSemaphoreGive: the turn goes to the next task.                         *)
LEMMA GiveStep ==
  ASSUME IInv, NEW t \in Task, xSemaphoreGive(t)
  PROVE  IInv'
  <1>1. /\ pc[t] = "give" /\ sem' = sem \cup {Succ(t)}
        /\ pc' = [pc EXCEPT ![t] = "take"]
        /\ UNCHANGED <<idx, characters, characters2, got, rxdata, rxIn, draft, full, box, lost>>
    BY DEF xSemaphoreGive, At, Goto, Given, uart, can
  <1>2. TypeOK /\ t \in 1..5 /\ \A u \in Task : u \in 1..5
    BY DEF IInv, Task
  <1>3. sem = {} /\ \A u \in Task : u # t => pc[u] = "take"
    BY <1>1, TurnOf
  <1>4. "take" \in Label
    BY DEF Label
  <1>5. pc' \in [1..5 -> Label] /\ pc'[t] = "take" /\ \A u \in 1..5 : u # t => pc'[u] = pc[u]
    BY <1>1, <1>2, <1>4, PcMoves
  <1>6. sem' = {Succ(t)} /\ \A u \in Task : pc'[u] = "take"
    BY <1>1, <1>2, <1>3, <1>5
  <1>7. t \in {1, 2, 3, 4} /\ 1 \in Task /\ 2 \in Task /\ 3 \in Task /\ 4 \in Task
    BY DEF Task
  <1>8. Succ(t) \in Task
    BY <1>7 DEF Succ
  <1>9. Token(Succ(t))'
    BY <1>6, <1>8 DEF Token
  <1>10. TypeOK'
    BY <1>1, <1>2, <1>5, <1>6, <1>8 DEF TypeOK
  <1>11. Labels'
    BY <1>6, <1>7 DEF Labels
  <1>12. \/ sem' = {2} /\ t = 1
         \/ sem' = {3} /\ t = 2
         \/ sem' = {4} /\ t = 3
         \/ sem' = {1} /\ t = 4
    <2>1. Succ(1) = 2 /\ Succ(2) = 3 /\ Succ(3) = 4 /\ Succ(4) = 1
      BY DEF Succ
    <2>2. t = 1 \/ t = 2 \/ t = 3 \/ t = 4
      BY <1>7
    <2>3. QED
      BY <1>6, <2>1, <2>2, Zenon
  <1>13. LineIn'
    BY <1>1, <1>6, <1>7, <1>12 DEF IInv, LineIn, HasTurn
  <1>14. LineSent'
    BY <1>1, <1>3, <1>6, <1>7, <1>12 DEF IInv, LineSent, InMail
  <1>15. LineOut'
    BY <1>1, <1>6, <1>7, <1>12 DEF IInv, LineOut, HasTurn
  <1>16. QED
    BY <1>8, <1>9, <1>10, <1>11, <1>13, <1>14, <1>15 DEF IInv

(* A fixed text is printed between two parts of a task.                    *)
LEMMA SaysStep ==
  ASSUME IInv, NEW t \in Task, NEW label, NEW next, Says(t, label, next),
         \/ label = "hello" /\ <<t, next>> \in {<<1, "get">>, <<2, "tda">>, <<3, "poll">>, <<4, "format">>}
         \/ label = "bye" /\ next = "give"
  PROVE  IInv'
  <1>1. CASE Sees(t, Ready)
    BY <1>1, SeesStep
  <1>2. CASE /\ UART_printf(t, Mark) /\ Goto(t, next)
             /\ idx' = [idx EXCEPT ![t] = 0]
             /\ UNCHANGED <<sem, buffers, irq, can>>
    <2>1. /\ pc[t] = label /\ pc' = [pc EXCEPT ![t] = next]
          /\ UNCHANGED <<characters, characters2, got, str, rxdata, rxIn, draft, full, box, lost>>
      BY <1>2 DEF Says, At, Goto, UART_printf, Port!Put, Port!rx, buffers, can
    <2>2. next \in Label /\ next # "take" /\ label # "take"
      BY DEF Label
    <2>3. /\ pc' \in [1..5 -> Label] /\ pc'[t] = next
          /\ \A u \in Task : u # t => pc'[u] = "take" /\ pc[u] = "take"
          /\ sem = {} /\ sem' = {}
          /\ \E u \in Task : Token(u)'
      BY <1>2, <2>1, <2>2, TurnKept
    <2>4. t \in {1, 2, 3, 4} /\ 1 \in Task /\ 2 \in Task /\ 3 \in Task /\ 4 \in Task
      BY DEF Task
    <2>5. idx' \in [1..5 -> Nat] /\ idx'[t] = 0
      BY <1>2, <2>4 DEF IInv, TypeOK
    <2>6. TypeOK'
      BY <2>1, <2>3, <2>5 DEF IInv, TypeOK
    <2>7. Labels'
      BY <2>3, <2>4 DEF Labels
    <2>8. LineIn'
      BY <2>1, <2>3, <2>4, <2>5, DemoAssumption DEF IInv, LineIn, HasTurn
    <2>9. LineSent'
      BY <2>1, <2>3, <2>4 DEF IInv, LineSent, InMail
    <2>10. LineOut'
      BY <2>1, <2>3, <2>4, <2>5 DEF IInv, LineOut, HasTurn
    <2>11. QED
      BY <2>3, <2>6, <2>7, <2>8, <2>9, <2>10 DEF IInv
  <1>3. QED
    BY <1>1, <1>2 DEF Says

-----------------------------------------------------------------------------
(* Task 1: UART_getchar appends what it returns to the line.               *)
LEMMA ReadStep ==
  ASSUME IInv, read_from_UART
  PROVE  IInv'
  <1>0. 1 \in Task /\ 2 \in Task /\ 3 \in Task /\ 4 \in Task
    BY DEF Task
  <1>1. CASE Says(1, "hello", "get") \/ Says(1, "bye", "give")
    BY <1>0, <1>1, SaysStep
  <1>2. CASE Sees(1, fresh)
    BY <1>2, SeesStep
  <1>3. CASE /\ At(1, "get") /\ Port!Read
             /\ characters' = [characters EXCEPT ![idx[1] + 1] = rxdata]
             /\ got' = Append(got, rxdata)
             /\ idx' = [idx EXCEPT ![1] = @ + 1]
             /\ pc' = IF idx[1] + 1 = N THEN [pc EXCEPT ![1] = "bye"] ELSE pc
             /\ UNCHANGED <<sem, characters2, str, irq, can>>
    <2> DEFINE k == idx[1]
               l == IF k + 1 = N THEN "bye" ELSE "get"
    <2>1. /\ pc[1] = "get" /\ k \in Nat /\ k < N /\ Len(got) = k
          /\ \A i \in 1..k : characters[i] = got[i]
      BY <1>3 DEF At, IInv, LineIn, TypeOK
    <2>2. l \in Label /\ l # "take"
      BY DEF Label
    <2>3. pc' = [pc EXCEPT ![1] = l]
      BY <1>3, <2>1 DEF IInv, TypeOK
    <2> HIDE DEF l
    <2>4. /\ pc' \in [1..5 -> Label] /\ pc'[1] = l
          /\ \A u \in Task : u # 1 => pc'[u] = "take" /\ pc[u] = "take"
          /\ sem = {} /\ sem' = {}
          /\ \E u \in Task : Token(u)'
      BY <1>0, <1>3, <2>1, <2>2, <2>3, TurnKept
    <2>5. idx' \in [1..5 -> Nat] /\ idx'[1] = k + 1 /\ idx'[3] = idx[3]
      BY <1>3 DEF IInv, TypeOK
    <2>6. /\ characters \in [1..N -> Typed] /\ got \in Seq(Typed) /\ rxdata \in Typed
          /\ N \in Nat \ {0}
      BY DemoAssumption DEF IInv, TypeOK, Line
    <2> HIDE DEF k
    <2>7. /\ characters' \in [1..N -> Typed] /\ characters'[k + 1] = rxdata
          /\ \A i \in 1..k : characters'[i] = characters[i]
      BY <1>3, <2>1, <2>6 DEF k
    <2>8. /\ got' \in Seq(Typed) /\ Len(got') = k + 1 /\ got'[k + 1] = rxdata
          /\ \A i \in 1..k : got'[i] = got[i]
      BY <1>3, <2>1, <2>6
    <2>9. \A i \in 1..(k + 1) : characters'[i] = got'[i]
      <3> TAKE i \in 1..(k + 1)
      <3>1. i \in 1..k \/ i = k + 1
        BY <2>1
      <3>2. QED
        BY <3>1, <2>1, <2>7, <2>8
    <2>10. k + 1 = N => got' = characters'
      BY <2>6, <2>7, <2>8, <2>9
    <2>11. TypeOK'
      BY <1>3, <2>4, <2>5, <2>7, <2>8 DEF IInv, TypeOK, Line, Port!Read, can
    <2>12. pc'[2] = "take" /\ pc'[3] = "take" /\ pc'[4] = "take"
           /\ pc[2] = "take" /\ pc[3] = "take" /\ pc[4] = "take"
      BY <1>0, <2>4
    <2>13. \/ l = "bye" /\ k + 1 = N
           \/ l = "get" /\ k + 1 < N
      BY <2>1, <2>6 DEF l
    <2>14. Labels'
      BY <2>4, <2>12, <2>13 DEF Labels
    <2>15. LineIn'
      BY <2>4, <2>5, <2>8, <2>9, <2>10, <2>12, <2>13 DEF LineIn, HasTurn
    <2>16. LineSent'
      BY <1>3, <2>4, <2>12 DEF IInv, LineSent, InMail, can
    <2>17. LineOut'
      BY <2>4, <2>12 DEF LineOut, HasTurn
    <2>18. QED
      BY <2>4, <2>11, <2>14, <2>15, <2>16, <2>17 DEF IInv
  <1>4. QED
    BY <1>1, <1>2, <1>3 DEF read_from_UART, UART_getchar

(* Task 2: the data words spell the line, and CAN1 receives it.            *)
LEMMA WriteStep ==
  ASSUME IInv, write_to_CAN_and_transmit
  PROVE  IInv'
  <1>0. 1 \in Task /\ 2 \in Task /\ 3 \in Task /\ 4 \in Task /\ can0 # can1
    BY DEF Task, can0, can1
  <1>1. CASE Says(2, "hello", "tda") \/ Says(2, "bye", "give")
    BY <1>0, <1>1, SaysStep
  <1>2. ASSUME NEW l \in Label, l \in {"tdb", "tr", "bye"}, pc[2] \in {"tda", "tdb", "tr"},
               Goto(2, l), UNCHANGED <<idx, sem, buffers, rxdata, rxIn>>,
               draft' \in [{can0, can1} -> Line], box' \in [{can0, can1} -> Line],
               l = "tdb" => /\ \A i \in 1..N : i <= Half => draft'[can0][i] = characters[i]
                            /\ full' = {},
               l = "tr" => draft'[can0] = characters /\ full' = {},
               l = "bye" => full' = {can1} /\ box'[can1] = characters,
               lost' = {}
        PROVE  IInv'
    <2>1. pc' = [pc EXCEPT ![2] = l] /\ l # "take" /\ pc[2] # "take"
      BY <1>2 DEF Goto
    <2>2. /\ pc' \in [1..5 -> Label] /\ pc'[2] = l
          /\ \A u \in Task : u # 2 => pc'[u] = "take" /\ pc[u] = "take"
          /\ sem = {} /\ sem' = {}
          /\ \E u \in Task : Token(u)'
      BY <1>0, <1>2, <2>1, TurnKept
    <2>3. /\ pc'[1] = "take" /\ pc'[3] = "take" /\ pc'[4] = "take"
          /\ UNCHANGED <<idx, characters, characters2, str, got>>
      BY <1>0, <1>2, <2>2 DEF buffers
    <2>4. TypeOK'
      BY <1>2, <2>2, <2>3 DEF IInv, TypeOK
    <2>5. Labels'
      BY <1>2, <2>2, <2>3 DEF Labels
    <2>6. LineIn'
      BY <1>2, <2>2, <2>3 DEF IInv, LineIn, HasTurn
    <2>7. LineSent'
      BY <1>2, <2>2, <2>3 DEF LineSent, InMail
    <2>8. LineOut'
      BY <2>2, <2>3 DEF LineOut, HasTurn
    <2>9. QED
      BY <2>2, <2>4, <2>5, <2>6, <2>7, <2>8 DEF IInv
  <1>3. /\ draft \in [{can0, can1} -> Line] /\ box \in [{can0, can1} -> Line]
        /\ characters \in [1..N -> Typed] /\ draft[can0] \in [1..N -> Typed] /\ lost = {}
    BY DEF IInv, TypeOK, Line, LineSent
  <1>4. pc[2] \in {"tda", "tdb", "tr"} => full = {}
    <2> SUFFICES ASSUME pc[2] \in {"tda", "tdb", "tr"} PROVE full = {}
      OBVIOUS
    <2>1. pc[2] # "take"
      OBVIOUS
    <2>2. sem = {} /\ pc[3] = "take"
      BY <1>0, <2>1, TurnOf
    <2>3. QED
      BY <2>2 DEF IInv, LineSent, InMail
  <1>5. ASSUME At(2, "tda"), Goto(2, "tdb"), CAN_write,
               draft' = [draft EXCEPT ![can0] = Lower(characters, @)]
        PROVE  IInv'
    <2>1. Lower(characters, draft[can0]) \in Line
      BY <1>3 DEF Lower, Line
    <2>2. \A i \in 1..N : i <= Half => Lower(characters, draft[can0])[i] = characters[i]
      BY DEF Lower
    <2>3. draft' \in [{can0, can1} -> Line] /\ draft'[can0] = Lower(characters, draft[can0])
      BY <1>3, <1>5, <2>1
    <2>4. "tdb" \in Label /\ pc[2] = "tda"
      BY <1>5 DEF Label, At
    <2>5. UNCHANGED <<idx, sem, buffers, rxdata, rxIn, full, box, lost>>
      BY <1>5 DEF CAN_write, uart
    <2>6. QED
      BY <1>2, <1>3, <1>4, <1>5, <2>2, <2>3, <2>4, <2>5
  <1>6. ASSUME At(2, "tdb"), Goto(2, "tr"), CAN_write,
               draft' = [draft EXCEPT ![can0] = Upper(characters, @)]
        PROVE  IInv'
    <2>1. "tr" \in Label /\ pc[2] = "tdb"
      BY <1>6 DEF Label, At
    <2>2. \A i \in 1..N : i <= Half => draft[can0][i] = characters[i]
      BY <2>1 DEF IInv, LineSent
    <2>3. Upper(characters, draft[can0]) = characters
      BY <1>3, <2>2 DEF Upper
    <2>4. draft' \in [{can0, can1} -> Line] /\ draft'[can0] = characters
      BY <1>3, <1>6, <2>3 DEF Line
    <2>5. UNCHANGED <<idx, sem, buffers, rxdata, rxIn, full, box, lost>>
      BY <1>6 DEF CAN_write, uart
    <2>6. QED
      BY <1>2, <1>3, <1>4, <1>6, <2>1, <2>4, <2>5
  <1>7. CASE CAN_transmit
    <2>1. "bye" \in Label /\ pc[2] = "tr" /\ Goto(2, "bye")
      BY <1>7 DEF Label, At, CAN_transmit
    <2>2. draft[can0] = characters /\ full = {}
      BY <1>4, <2>1 DEF IInv, LineSent
    <2>3. /\ box' = [m \in {can0, can1} |-> IF m \in {can1} THEN draft[can0] ELSE box[m]]
          /\ full' = full \cup {can1} /\ lost' = lost \cup (full \cap {can1})
          /\ draft' = draft
      <3>1. Mail!Peers(can0) = {can1}
        BY <1>0 DEF Mail!Peers
      <3>2. Mail!Command(can0, {"send"})
        BY <1>7 DEF CAN_transmit, TransmitOrders
      <3>3. QED
        BY <3>1, <3>2 DEF Mail!Command
    <2>4. /\ box' \in [{can0, can1} -> Line] /\ box'[can1] = characters
          /\ full' = {can1} /\ lost' = {}
      BY <1>0, <1>3, <2>2, <2>3 DEF Line
    <2>5. UNCHANGED <<idx, sem, buffers, rxdata, rxIn>>
      BY <1>7 DEF CAN_transmit, uart
    <2>6. QED
      BY <1>2, <1>3, <2>1, <2>3, <2>4, <2>5
  <1>8. QED
    BY <1>1, <1>5, <1>6, <1>7 DEF write_to_CAN_and_transmit, CAN_write

(* Task 3: the frame is there, and its bytes are the line.                 *)
LEMMA ReceiveStep ==
  ASSUME IInv, read_from_CAN
  PROVE  IInv'
  <1>0. 1 \in Task /\ 2 \in Task /\ 3 \in Task /\ 4 \in Task /\ can0 # can1
    BY DEF Task, can0, can1
  <1>1. CASE Says(3, "hello", "poll") \/ Says(3, "bye", "give")
    BY <1>0, <1>1, SaysStep
  <1>2. /\ N \in Nat \ {0} /\ idx \in [1..5 -> Nat] /\ characters2 \in [1..N -> Typed]
        /\ characters \in [1..N -> Typed] /\ box \in [{can0, can1} -> Line] /\ lost = {}
    BY DemoAssumption DEF IInv, TypeOK, Line, LineSent
  <1>3. ASSUME NEW l \in Label, l \in {"byte", "release", "bye"},
               pc[3] \in {"poll", "byte", "release"}, pc' = [pc EXCEPT ![3] = l],
               UNCHANGED <<sem, characters, str, got, rxdata, rxIn, draft, box>>,
               idx' \in [1..5 -> Nat], idx'[1] = idx[1], characters2' \in Line,
               l = "byte" => /\ idx'[3] < N
                             /\ \A i \in 1..idx'[3] : characters2'[i] = characters[i],
               l \in {"release", "bye"} => characters2' = characters,
               l \in {"byte", "release"} => full' = full,
               l = "bye" => full' = {},
               lost' = {}
        PROVE  IInv'
    <2>1. l # "take" /\ pc[3] # "take"
      BY <1>3
    <2>2. /\ pc' \in [1..5 -> Label] /\ pc'[3] = l
          /\ \A u \in Task : u # 3 => pc'[u] = "take" /\ pc[u] = "take"
          /\ sem = {} /\ sem' = {}
          /\ \E u \in Task : Token(u)'
      BY <1>0, <1>3, <2>1, TurnKept
    <2>3. pc'[1] = "take" /\ pc'[2] = "take" /\ pc'[4] = "take"
      BY <1>0, <2>2
    <2>4. full = {can1} /\ box[can1] = characters
      BY <1>3 DEF IInv, LineSent, InMail
    <2>5. TypeOK'
      BY <1>3, <2>2 DEF IInv, TypeOK
    <2>6. Labels'
      BY <1>3, <2>2, <2>3 DEF Labels
    <2>7. LineIn'
      BY <1>3, <2>1, <2>2, <2>3 DEF IInv, LineIn, HasTurn
    <2>8. LineSent'
      BY <1>3, <2>2, <2>3, <2>4 DEF LineSent, InMail
    <2>9. LineOut'
      BY <1>3, <2>2, <2>3 DEF LineOut, HasTurn
    <2>10. QED
      BY <2>2, <2>5, <2>6, <2>7, <2>8, <2>9 DEF IInv
  <1>4. CASE CAN_has_received
    <2>1. /\ pc[3] = "poll" /\ pc' = [pc EXCEPT ![3] = "byte"] /\ "byte" \in Label
          /\ UNCHANGED <<idx, sem, characters, characters2, str, got, rxdata, rxIn, draft, box, full, lost>>
      BY <1>4 DEF CAN_has_received, At, Goto, Label, buffers, uart, can
    <2>2. idx'[3] = 0
      BY <2>1 DEF IInv, LineOut
    <2>3. idx'[3] < N /\ \A i \in 1..idx'[3] : characters2'[i] = characters[i]
      BY <1>2, <2>2
    <2>4. idx' \in [1..5 -> Nat] /\ idx'[1] = idx[1] /\ characters2' \in Line
      BY <1>2, <2>1 DEF Line
    <2>5. QED
      BY <1>2, <1>3, <2>1, <2>3, <2>4
  <1>5. CASE CAN_read_data
    <2> DEFINE k == idx[3]
               l == IF k + 1 = N THEN "release" ELSE "byte"
    <2>1. /\ pc[3] = "byte" /\ k \in Nat /\ k < N
          /\ \A i \in 1..k : characters2[i] = characters[i]
      BY <1>2, <1>5 DEF CAN_read_data, At, IInv, LineOut
    <2>2. box[can1] = characters
      BY <2>1 DEF IInv, LineSent, InMail
    <2>3. l \in Label /\ l \in {"byte", "release"}
      BY DEF Label
    <2>4. pc' = [pc EXCEPT ![3] = l]
      BY <1>5, <2>1 DEF CAN_read_data, IInv, TypeOK
    <2> HIDE DEF l
    <2>5. idx' \in [1..5 -> Nat] /\ idx'[3] = k + 1 /\ idx'[1] = idx[1]
      BY <1>2, <1>5 DEF CAN_read_data
    <2>6. characters2' = [characters2 EXCEPT ![k + 1] = characters[k + 1]]
      BY <1>5, <2>2 DEF CAN_read_data
    <2> HIDE DEF k
    <2>7. /\ characters2' \in Line
          /\ \A i \in 1..(k + 1) : characters2'[i] = characters[i]
      <3>1. k + 1 \in 1..N
        BY <1>2, <2>1
      <3>2. characters2' \in [1..N -> Typed] /\ characters2'[k + 1] = characters[k + 1]
        BY <1>2, <2>6, <3>1
      <3>3. \A i \in 1..k : characters2'[i] = characters2[i]
        BY <1>2, <2>1, <2>6, <3>1
      <3>4. \A i \in 1..(k + 1) : i \in 1..k \/ i = k + 1
        BY <2>1
      <3>5. QED
        BY <2>1, <3>2, <3>3, <3>4 DEF Line
    <2>8. k + 1 = N => characters2' = characters
      BY <1>2, <2>7 DEF Line
    <2>9. \/ l = "release" /\ k + 1 = N
          \/ l = "byte" /\ k + 1 < N
      BY <1>2, <2>1 DEF l
    <2>10. UNCHANGED <<sem, characters, str, got, rxdata, rxIn, draft, box, full, lost>>
      BY <1>5 DEF CAN_read_data, uart, can
    <2>11. QED
      BY <1>2, <1>3, <2>1, <2>3, <2>4, <2>5, <2>7, <2>8, <2>9, <2>10
  <1>6. CASE CAN_release_receive_buffer
    <2>1. /\ pc[3] = "release" /\ pc' = [pc EXCEPT ![3] = "bye"] /\ "bye" \in Label
          /\ UNCHANGED <<idx, sem, characters, characters2, str, got, rxdata, rxIn>>
      BY <1>6 DEF CAN_release_receive_buffer, At, Goto, Label, buffers, uart
    <2>2. full = {can1} /\ characters2 = characters
      BY <2>1 DEF IInv, LineSent, InMail, LineOut
    <2>3. Mail!Command(can1, {"release"})
      BY <1>6 DEF CAN_release_receive_buffer, ReleaseOrders
    <2>4. /\ box' = [m \in {can0, can1} |-> box[m]]
          /\ full' = full \ {can1} /\ lost' = lost /\ draft' = draft
      BY <2>3 DEF Mail!Command
    <2>5. box' = box /\ full' = {} /\ lost' = {}
      BY <1>2, <2>2, <2>4
    <2>6. idx' \in [1..5 -> Nat] /\ idx'[1] = idx[1] /\ characters2' \in Line /\ characters2' = characters
      BY <1>2, <2>1, <2>2 DEF Line
    <2>7. QED
      BY <1>3, <2>1, <2>4, <2>5, <2>6
  <1>7. QED
    BY <1>1, <1>4, <1>5, <1>6 DEF read_from_CAN

(* Task 4: the text is the one that sprintf made of characters2.           *)
LEMMA PrintStep ==
  ASSUME IInv, write_to_UART
  PROVE  IInv'
  <1>0. 1 \in Task /\ 2 \in Task /\ 3 \in Task /\ 4 \in Task
    BY DEF Task
  <1>1. CASE Says(4, "hello", "format") \/ Says(4, "bye", "give")
    BY <1>0, <1>1, SaysStep
  <1>2. ASSUME NEW l \in Label, l \in {"text", "bye"},
               pc[4] \in {"format", "text"}, pc' = [pc EXCEPT ![4] = l],
               UNCHANGED <<sem, characters, characters2, got, rxdata, rxIn, can>>,
               idx' \in [1..5 -> Nat], idx'[1] = idx[1], idx'[3] = idx[3],
               l = "text" => str' = sprintf(characters2)
        PROVE  IInv'
    <2>1. l # "take" /\ pc[4] # "take"
      BY <1>2
    <2>2. /\ pc' \in [1..5 -> Label] /\ pc'[4] = l
          /\ \A u \in Task : u # 4 => pc'[u] = "take" /\ pc[u] = "take"
          /\ sem = {} /\ sem' = {}
          /\ \E u \in Task : Token(u)'
      BY <1>0, <1>2, <2>1, TurnKept
    <2>3. /\ pc'[1] = "take" /\ pc'[2] = "take" /\ pc'[3] = "take"
          /\ pc[2] = "take" /\ pc[3] = "take"
      BY <1>0, <2>2
    <2>4. TypeOK'
      BY <1>2, <2>2 DEF IInv, TypeOK, can
    <2>5. Labels'
      BY <1>2, <2>2, <2>3 DEF Labels
    <2>6. LineIn'
      BY <1>2, <2>1, <2>2, <2>3 DEF IInv, LineIn, HasTurn
    <2>7. LineSent'
      BY <1>2, <2>2, <2>3 DEF IInv, LineSent, InMail, can
    <2>8. LineOut'
      <3>1. characters2' = characters'
        BY <1>2, <2>1 DEF IInv, LineOut, HasTurn
      <3>2. pc'[4] = "text" => str' = sprintf(characters2)
        BY <1>2, <2>2
      <3>3. pc'[4] = "text" => (str = sprintf(characters2))'
        BY <1>2, <3>2 DEF sprintf, strlen
      <3>4. QED
        BY <2>3, <3>1, <3>3 DEF LineOut
    <2>9. QED
      BY <2>2, <2>4, <2>5, <2>6, <2>7, <2>8 DEF IInv
  <1>3. CASE Formats
    <2>1. /\ pc[4] = "format" /\ pc' = [pc EXCEPT ![4] = "text"] /\ "text" \in Label
          /\ str' = sprintf(characters2)
          /\ UNCHANGED <<idx, sem, characters, characters2, got, rxdata, rxIn, can>>
      BY <1>3 DEF Formats, At, Goto, Label, uart
    <2>2. idx' \in [1..5 -> Nat]
      BY <2>1 DEF IInv, TypeOK
    <2>3. QED
      BY <1>2, <2>1, <2>2
  <1>4. CASE PrintsText
    <2>1. CASE Sees(4, Ready)
      BY <2>1, SeesStep
    <2>2. CASE ~Sees(4, Ready)
      <3> DEFINE l == IF idx[4] + 1 = Len(str) THEN "bye" ELSE "text"
      <3>1. /\ pc[4] = "text"
            /\ idx' = [idx EXCEPT ![4] = @ + 1]
            /\ pc' = IF idx[4] + 1 = Len(str) THEN [pc EXCEPT ![4] = "bye"] ELSE pc
            /\ UNCHANGED <<sem, characters, characters2, str, got, rxdata, rxIn, can>>
        BY <1>4, <2>2 DEF PrintsText, At, UART_printf, Port!Put, Port!rx, buffers
      <3>2. l \in Label /\ l \in {"text", "bye"}
        BY DEF Label
      <3>3. pc' = [pc EXCEPT ![4] = l]
        BY <3>1 DEF IInv, TypeOK
      <3>4. str' = sprintf(characters2)
        BY <3>1 DEF IInv, LineOut
      <3>5. idx' \in [1..5 -> Nat] /\ idx'[1] = idx[1] /\ idx'[3] = idx[3]
        BY <3>1 DEF IInv, TypeOK
      <3> HIDE DEF l
      <3>6. QED
        BY <1>2, <3>1, <3>2, <3>3, <3>4, <3>5
    <2>3. QED
      BY <2>1, <2>2
  <1>5. QED
    BY <1>1, <1>3, <1>4 DEF write_to_UART

-----------------------------------------------------------------------------
(* main starts with the turn at task 1.                                    *)
LEMMA InitIInv ==
  ASSUME Init
  PROVE  IInv
  <1>1. /\ pc \in [1..5 -> Label] /\ idx \in [1..5 -> Nat]
        /\ \A t \in Task : pc[t] = "take"
        /\ pc[1] = "take" /\ pc[2] = "take" /\ pc[3] = "take" /\ pc[4] = "take"
        /\ sem = {1}
    BY DEF Init, Task, Label, Uart_Handler
  <1>2. TypeOK
    <2>1. characters \in Line /\ characters2 \in Line /\ got \in Seq(Typed)
      BY DemoAssumption DEF Init, Line
    <2>2. rxIn = << >> /\ rxdata \in Typed
      BY DemoAssumption DEF Init, Port!Init, NUL
    <2>3. draft \in [{can0, can1} -> Line] /\ box \in [{can0, can1} -> Line]
      BY DemoAssumption DEF Init, Mail!Init, Line
    <2>4. QED
      BY <1>1, <2>1, <2>2, <2>3 DEF TypeOK, Task
  <1>3. Token(1) /\ 1 \in Task
    BY <1>1 DEF Token, Task
  <1>4. LineSent
    BY <1>1 DEF LineSent, InMail, Init, Mail!Init
  <1>5. LineIn /\ LineOut /\ Labels
    BY <1>1 DEF LineIn, LineOut, Labels, HasTurn
  <1>6. QED
    BY <1>2, <1>3, <1>4, <1>5 DEF IInv

(* Every step keeps the line together and the turn with one task.          *)
LEMMA NextIInv ==
  ASSUME IInv, [Next]_vars
  PROVE  IInv'
  <1>1. CASE UNCHANGED vars
    <2>1. UNCHANGED <<pc, idx, sem, buffers, can, rxdata, rxIn>>
      BY <1>1 DEF vars, uart
    <2>2. /\ pc' \in [1..5 -> Label] /\ idx' \in [1..5 -> Nat]
          /\ rxdata' \in Typed /\ (rxIn' = << >> \/ \E c \in Typed : rxIn' = <<c>>)
      BY <2>1 DEF IInv, TypeOK
    <2>3. QED
      BY <2>1, <2>2, QuietStep
  <1>2. CASE Arrives \/ Emits \/ Completes
    BY <1>2, UartStep
  <1>3. CASE Handler
    BY <1>3, HandlerStep
  <1>4. ASSUME NEW t \in Task, TaskStep(t) PROVE IInv'
    <2>1. CASE xSemaphoreTake(t)
      BY <2>1, TakeStep
    <2>2. CASE xSemaphoreGive(t)
      BY <2>2, GiveStep
    <2>3. CASE Body(t)
      BY <2>3, ReadStep, WriteStep, ReceiveStep, PrintStep DEF Body
    <2>4. QED
      BY <1>4, <2>1, <2>2, <2>3 DEF TaskStep
  <1>5. QED
    BY <1>1, <1>2, <1>3, <1>4 DEF Next

(* So it holds in every reachable state.                                   *)
LEMMA SpecIInv == Spec => []IInv
  <1>1. Init => IInv
    BY InitIInv
  <1>2. IInv /\ [Next]_vars => IInv'
    BY NextIInv
  <1>3. QED
    BY <1>1, <1>2, PTL DEF Spec

-----------------------------------------------------------------------------
(* The four semaphores keep the tasks apart: exactly one of them has the   *)
(* turn, whatever the scheduler and the handler do.                        *)
THEOREM OneTaskHasTheTurn == Spec => []OneTurn
  <1>1. IInv => OneTurn
    BY DEF IInv, Token, OneTurn, Turns
  <1>2. QED
    BY <1>1, SpecIInv, PTL

(* Outside take and give a task keeps its turn.                            *)
LEMMA BodyKeeps ==
  ASSUME IInv, NEW t \in Task, Body(t)
  PROVE  /\ pc[t] # "take" /\ pc'[t] # "take"
  <1>1. pc \in [1..5 -> Label]
    BY DEF IInv, TypeOK
  <1>2. CASE t = 1
    <2>1. Says(1, "hello", "get") => pc[1] # "take" /\ pc'[1] # "take"
      BY <1>1 DEF Says, At, Goto, Sees
    <2>2. Says(1, "bye", "give") => pc[1] # "take" /\ pc'[1] # "take"
      BY <1>1 DEF Says, At, Goto, Sees
    <2>3. At(1, "get") /\ UART_getchar => pc[1] # "take" /\ pc'[1] # "take"
      BY <1>1 DEF At, UART_getchar, Sees
    <2>4. QED
      BY <1>2, <2>1, <2>2, <2>3 DEF Body, read_from_UART
  <1>3. CASE t = 2
    <2>1. Says(2, "hello", "tda") => pc[2] # "take" /\ pc'[2] # "take"
      BY <1>1 DEF Says, At, Goto, Sees
    <2>2. Says(2, "bye", "give") => pc[2] # "take" /\ pc'[2] # "take"
      BY <1>1 DEF Says, At, Goto, Sees
    <2>3. CAN_write \/ CAN_transmit => pc[2] # "take" /\ pc'[2] # "take"
      BY <1>1 DEF At, Goto, CAN_write, CAN_transmit
    <2>4. QED
      BY <1>3, <2>1, <2>2, <2>3 DEF Body, write_to_CAN_and_transmit
  <1>4. CASE t = 3
    <2>1. Says(3, "hello", "poll") => pc[3] # "take" /\ pc'[3] # "take"
      BY <1>1 DEF Says, At, Goto, Sees
    <2>2. Says(3, "bye", "give") => pc[3] # "take" /\ pc'[3] # "take"
      BY <1>1 DEF Says, At, Goto, Sees
    <2>3. CAN_has_received \/ CAN_read_data \/ CAN_release_receive_buffer
          => pc[3] # "take" /\ pc'[3] # "take"
      BY <1>1 DEF At, Goto, CAN_has_received, CAN_read_data, CAN_release_receive_buffer
    <2>4. QED
      BY <1>4, <2>1, <2>2, <2>3 DEF Body, read_from_CAN
  <1>5. CASE t = 4
    <2>1. Says(4, "hello", "format") => pc[4] # "take" /\ pc'[4] # "take"
      BY <1>1 DEF Says, At, Goto, Sees
    <2>2. Says(4, "bye", "give") => pc[4] # "take" /\ pc'[4] # "take"
      BY <1>1 DEF Says, At, Goto, Sees
    <2>3. Formats \/ PrintsText => pc[4] # "take" /\ pc'[4] # "take"
      BY <1>1 DEF At, Goto, Formats, PrintsText, Sees
    <2>4. QED
      BY <1>5, <2>1, <2>2, <2>3 DEF Body, write_to_UART
  <1>6. QED
    BY <1>2, <1>3, <1>4, <1>5 DEF Task

(* The turn goes round in the order of the tasks: only the give of task t  *)
(* moves it, and to the task after t.                                      *)
THEOREM TheTurnGoesRound == Spec => TurnsInOrder
  <1> DEFINE A == \A t, u \in Task : Turns = {t} /\ Turns' = {u} => u = t \/ u = Succ(t)
  <1>1. ASSUME IInv, IInv', [Next]_vars PROVE [A]_vars
    <2>1. \A t \in Task : HasTurn(t) => Turns = {t}
      BY <1>1 DEF IInv, Token, HasTurn, Turns
    <2>2. \A t \in Task : HasTurn(t)' => Turns' = {t}
      BY <1>1 DEF IInv, Token, HasTurn, Turns
    <2>3. ASSUME sem' = sem, \A t \in Task : pc'[t] = pc[t] PROVE A
      BY <2>3 DEF Turns
    <2>4. ASSUME NEW t \in Task, HasTurn(t), HasTurn(t)' \/ (Succ(t) \in Task /\ HasTurn(Succ(t))') PROVE A
      BY <2>1, <2>2, <2>4
    <2>5. pc \in [1..5 -> Label] /\ \A t \in Task : t \in 1..5 /\ t # 5
      BY <1>1 DEF IInv, TypeOK, Task
    <2>6. CASE Arrives \/ Emits \/ Completes
      BY <2>3, <2>6 DEF Arrives, Emits, Completes
    <2>7. CASE Handler
      <3>1. sem' = sem
        BY <2>7 DEF Handler, armv7m_nvic_acknowledge_irq, UART_clear_interrupt,
                    armv7m_nvic_complete_irq, Says, Sees
      <3>2. \A t \in Task : pc'[t] = pc[t]
        BY <2>5, <2>7 DEF Handler, armv7m_nvic_acknowledge_irq, UART_clear_interrupt,
                          armv7m_nvic_complete_irq, Says, Sees, Goto, Uart_Handler
      <3>3. QED
        BY <2>3, <3>1, <3>2
    <2>8. ASSUME NEW t \in Task, TaskStep(t) PROVE A
      <3>1. CASE xSemaphoreTake(t)
        <4>1. t \in sem /\ pc'[t] = "hello"
          BY <2>5, <3>1 DEF xSemaphoreTake, Goto
        <4>2. QED
          BY <2>4, <4>1 DEF HasTurn
      <3>2. CASE Body(t)
        BY <1>1, <2>4, <3>2, BodyKeeps DEF HasTurn
      <3>3. CASE xSemaphoreGive(t)
        <4>1. pc[t] # "take" /\ Succ(t) \in sem' /\ Succ(t) \in Task
          BY <3>3 DEF xSemaphoreGive, At, Given, Succ, Task
        <4>2. QED
          BY <2>4, <4>1 DEF HasTurn
      <3>4. QED
        BY <2>8, <3>1, <3>2, <3>3 DEF TaskStep
    <2>9. CASE UNCHANGED vars
      BY <2>9
    <2>10. QED
      BY <1>1, <2>6, <2>7, <2>8, <2>9 DEF Next
  <1>2. QED
    BY <1>1, SpecIInv, PTL DEF Spec, TurnsInOrder

(* CAN1 holds the frame when task 3 starts to poll for it.                 *)
THEOREM TheFrameIsThere == Spec => []FrameIsThere
  <1>1. IInv => FrameIsThere
    BY DEF IInv, LineSent, InMail, FrameIsThere
  <1>2. QED
    BY <1>1, SpecIInv, PTL

(* Task 3 has released the buffer of CAN1 before task 2 sends again.       *)
THEOREM NoFrameIsLost == Spec => []NoCanOverrun
  <1>1. IInv => NoCanOverrun
    BY DEF IInv, LineSent, NoCanOverrun
  <1>2. QED
    BY <1>1, SpecIInv, PTL

(* A line has a length: that of the characters before its first NUL.       *)
LEMMA StrlenIs ==
  ASSUME NEW l \in Line
  PROVE  /\ strlen(l) \in 0..N
         /\ \A i \in 1..strlen(l) : l[i] # NUL
         /\ strlen(l) = N \/ l[strlen(l) + 1] = NUL
  <1> DEFINE P(k) == /\ \A i \in 1..k : l[i] # NUL
                     /\ k = N \/ l[k + 1] = NUL
             T == {i \in 1..N : l[i] = NUL}
  <1>0. N \in Nat
    BY DemoAssumption
  <1>1. CASE T = {}
    <2>1. N \in 0..N /\ P(N)
      BY <1>0, <1>1
    <2>2. QED
      BY <2>1 DEF strlen
  <1>2. CASE T # {}
    <2> HIDE DEF T
    <2>0. T \in SUBSET Nat
      BY <1>0 DEF T
    <2>1. PICK x \in T : \A y \in T : x <= y
      BY <1>2, <2>0, LeastNatural
    <2> USE DEF T
    <2>2. x - 1 \in 0..N /\ P(x - 1)
      BY <1>0, <2>1
    <2>3. QED
      BY <2>2 DEF strlen
  <1>3. QED
    BY <1>1, <1>2

(* What task 4 prints is what task 1 was given by UART_getchar, up to the  *)
(* first NUL, after two tasks and two controllers passed it on.            *)
THEOREM TheLineIsEchoed == Spec => []EchoCorrect
  <1>1. ASSUME IInv, pc[4] = "text"
        PROVE  \E k \in 0..N :
                 /\ str = Append(SubSeq(got, 1, k), Mark)
                 /\ \A i \in 1..k : got[i] # NUL
                 /\ k = N \/ got[k + 1] = NUL
    <2>1. got = characters /\ characters2 = characters /\ characters \in Line
      BY <1>1 DEF IInv, TypeOK, LineIn, LineOut, HasTurn
    <2>2. str = Append(SubSeq(got, 1, strlen(got)), Mark)
      BY <1>1, <2>1 DEF IInv, LineOut, sprintf
    <2>3. /\ strlen(got) \in 0..N
          /\ \A i \in 1..strlen(got) : got[i] # NUL
          /\ strlen(got) = N \/ got[strlen(got) + 1] = NUL
      BY <2>1, StrlenIs
    <2>4. QED
      BY <2>2, <2>3
  <1>2. IInv => EchoCorrect
    BY <1>1 DEF EchoCorrect
  <1>3. QED
    BY <1>2, SpecIInv, PTL

-----------------------------------------------------------------------------
(* The interrupt of the UART, as the demo sees it.                         *)
LatchInv == irq \in {0, 1} /\ rxOverrun \in BOOLEAN /\ fresh \in BOOLEAN

(* A step of a task leaves the overrun flag, the pending bit and the       *)
(* handler alone.                                                          *)
LEMMA TaskKeepsLatch ==
  ASSUME IInv, NEW t \in Task, TaskStep(t)
  PROVE  irq' = irq /\ rxOverrun' = rxOverrun /\ pc'[5] = pc[5] /\ (fresh' = fresh \/ fresh' = FALSE)
  <1>1. pc \in [1..5 -> Label] /\ t \in 1..5 /\ t # 5 /\ 5 \in 1..5
    BY DEF IInv, TypeOK, Task
  <1>2. ASSUME NEW bit, Sees(t, bit)
        PROVE  UNCHANGED <<irq, rxOverrun, pc, fresh>>
    BY <1>2 DEF Sees, uart
  <1>3. ASSUME NEW l, NEW n, Says(t, l, n)
        PROVE  UNCHANGED <<irq, rxOverrun, pc[5], fresh>>
    <2>1. CASE Sees(t, Ready)
      BY <1>2, <2>1
    <2>2. CASE UART_printf(t, Mark) /\ Goto(t, n) /\ irq' = irq
      BY <1>1, <2>2 DEF UART_printf, Goto, Port!Put, Port!rx
    <2>3. QED
      BY <1>3, <2>1, <2>2 DEF Says
  <1>4. CASE xSemaphoreTake(t) \/ xSemaphoreGive(t)
    BY <1>1, <1>4 DEF xSemaphoreTake, xSemaphoreGive, Goto, uart
  <1>5. CASE t = 1 /\ read_from_UART
    <2>1. CASE Says(1, "hello", "get") \/ Says(1, "bye", "give")
      BY <1>3, <1>5, <2>1
    <2>2. CASE Sees(1, fresh)
      BY <1>2, <1>5, <2>2
    <2>3. CASE UART_getchar /\ ~Sees(1, fresh)
      BY <1>1, <2>3 DEF UART_getchar, Port!Read
    <2>4. QED
      BY <1>5, <2>1, <2>2, <2>3 DEF read_from_UART
  <1>6. CASE t = 2 /\ write_to_CAN_and_transmit
    <2>1. CASE Says(2, "hello", "tda") \/ Says(2, "bye", "give")
      BY <1>3, <1>6, <2>1
    <2>2. CASE CAN_write \/ CAN_transmit
      BY <1>1, <2>2 DEF CAN_write, CAN_transmit, Goto, uart
    <2>3. QED
      BY <1>6, <2>1, <2>2, Zenon DEF write_to_CAN_and_transmit
  <1>7. CASE t = 3 /\ read_from_CAN
    <2>1. CASE Says(3, "hello", "poll") \/ Says(3, "bye", "give")
      BY <1>3, <1>7, <2>1
    <2>2. CASE CAN_has_received
      BY <1>1, <2>2 DEF CAN_has_received, Goto, uart
    <2>3. CASE CAN_read_data
      <3>1. /\ pc' = IF idx[3] + 1 = N THEN [pc EXCEPT ![3] = "release"] ELSE pc
            /\ UNCHANGED <<irq, uart>>
        BY <2>3, Zenon DEF CAN_read_data
      <3>2. pc' = [pc EXCEPT ![3] = "release"] \/ pc' = pc
        BY <3>1, Zenon
      <3>3. pc'[5] = pc[5]
        BY <1>1, <3>2
      <3>4. irq' = irq /\ rxOverrun' = rxOverrun /\ fresh' = fresh
        BY <3>1 DEF uart
      <3>5. QED
        BY <3>3, <3>4, Zenon
    <2>4. CASE CAN_release_receive_buffer
      BY <1>1, <2>4 DEF CAN_release_receive_buffer, Goto, uart
    <2>5. QED
      BY <1>7, <2>1, <2>2, <2>3, <2>4, Zenon DEF read_from_CAN
  <1>8. CASE t = 4 /\ write_to_UART
    <2>1. CASE Says(4, "hello", "format") \/ Says(4, "bye", "give")
      BY <1>3, <1>8, <2>1
    <2>2. CASE Formats
      BY <1>1, <2>2 DEF Formats, Goto, uart
    <2>3. CASE Sees(4, Ready)
      BY <1>2, <1>8, <2>3
    <2>4. CASE PrintsText /\ ~Sees(4, Ready)
      BY <1>1, <2>4 DEF PrintsText, UART_printf, Port!Put, Port!rx
    <2>5. QED
      BY <1>8, <2>1, <2>2, <2>3, <2>4, Zenon DEF write_to_UART
  <1>9. QED
    BY <1>4, <1>5, <1>6, <1>7, <1>8, Zenon DEF TaskStep, Body

(* Every step is one of the interrupt line, or invisible in it.            *)
LEMMA LatchStep ==
  ASSUME IInv, LatchInv, [Next]_vars
  PROVE  LatchInv' /\ [Latch!Next]_(Latch!vars)
  <1>1. pc \in [1..5 -> Label] /\ 5 \in 1..5 /\ Uart_Handler = 5
    BY DEF IInv, TypeOK, Uart_Handler
  <1>2. ASSUME irq' = irq, rxOverrun' = rxOverrun, pc'[5] = pc[5], fresh' = fresh \/ fresh' = FALSE
        PROVE  LatchInv' /\ [Latch!Next]_(Latch!vars)
    BY <1>1, <1>2 DEF LatchInv, Latch!vars
  <1>3. CASE UNCHANGED vars
    BY <1>2, <1>3 DEF vars, uart
  <1>4. CASE Arrives \/ Emits
    <2>1. UNCHANGED <<irq, rxOverrun, pc, fresh>>
      BY <1>4 DEF Arrives, Emits, Port!Arrive, Port!Emit, Port!rx
    <2>2. QED
      BY <1>2, <2>1
  <1>5. CASE Completes
    <2>1. /\ rxOverrun' = (rxOverrun \/ fresh) /\ fresh' = TRUE /\ pc' = pc
          /\ irq' = IF ~rxOverrun /\ rxOverrun' THEN 1 ELSE irq
      BY <1>5 DEF Completes, Port!Complete
    <2>2. LatchInv'
      BY <2>1 DEF LatchInv
    <2>3. CASE ~rxOverrun /\ fresh
      <3>1. Latch!Rise
        BY <1>1, <2>1, <2>3 DEF Latch!Rise, LatchInv
      <3>2. QED
        BY <2>2, <3>1 DEF Latch!Next
    <2>4. CASE ~(~rxOverrun /\ fresh)
      <3>1. rxOverrun' = rxOverrun /\ irq' = irq
        BY <2>1, <2>4 DEF LatchInv
      <3>2. QED
        BY <2>1, <2>2, <3>1 DEF Latch!vars
    <2>5. QED
      BY <2>3, <2>4
  <1>6. CASE armv7m_nvic_acknowledge_irq
    <2>1. pc[5] = "none" /\ irq = 1 /\ irq' = 0 /\ pc'[5] = "clear" /\ rxOverrun' = rxOverrun /\ fresh' = fresh
      BY <1>1, <1>6 DEF armv7m_nvic_acknowledge_irq, Goto, uart
    <2>2. LatchInv' /\ Latch!Take
      BY <1>1, <2>1 DEF LatchInv, Latch!Take
    <2>3. QED
      BY <2>2 DEF Latch!Next
  <1>7. CASE UART_clear_interrupt
    <2>1. pc[5] = "clear" /\ pc'[5] = "print" /\ irq' = irq /\ fresh' = fresh /\ ~rxOverrun' /\ rxOverrun' \in BOOLEAN
      BY <1>1, <1>7 DEF UART_clear_interrupt, At, Goto, Port!ClearErrors, LatchInv
    <2>2. LatchInv' /\ Latch!Fall
      BY <1>1, <2>1 DEF LatchInv, Latch!Fall
    <2>3. QED
      BY <2>2 DEF Latch!Next
  <1>8. CASE Says(5, "print", "return")
    <2>1. CASE Sees(5, Ready)
      BY <1>2, <2>1 DEF Sees, uart
    <2>2. CASE ~Sees(5, Ready)
      <3>1. pc[5] = "print" /\ pc'[5] = "return" /\ UNCHANGED <<irq, rxOverrun, fresh>>
        BY <1>1, <1>8, <2>2 DEF Says, At, Goto, UART_printf, Port!Put, Port!rx
      <3>2. QED
        BY <1>1, <3>1 DEF LatchInv, Latch!vars
    <2>3. QED
      BY <2>1, <2>2
  <1>9. CASE armv7m_nvic_complete_irq
    <2>1. /\ pc[5] = "return" /\ pc'[5] = "none" /\ rxOverrun' = rxOverrun /\ fresh' = fresh
          /\ irq' = IF rxOverrun THEN 1 ELSE irq
      BY <1>1, <1>9 DEF armv7m_nvic_complete_irq, At, Goto, uart
    <2>2. LatchInv' /\ Latch!Return
      BY <1>1, <2>1 DEF LatchInv, Latch!Return
    <2>3. QED
      BY <2>2 DEF Latch!Next
  <1>10. ASSUME NEW t \in Task, TaskStep(t) PROVE LatchInv' /\ [Latch!Next]_(Latch!vars)
    BY <1>2, <1>10, TaskKeepsLatch
  <1>11. QED
    BY <1>1, <1>3, <1>4, <1>5, <1>6, <1>7, <1>8, <1>9, <1>10 DEF Next, Handler

(* The demo takes the interrupt of the UART as the interrupt controller    *)
(* delivers it: an overrun that no handler attends to is pending, whatever *)
(* the tasks were doing.                                                   *)
THEOREM TheLineIsLatched == Spec => LineLatches
  <1>1. Init => LatchInv /\ Latch!Init
    <2> SUFFICES ASSUME Init PROVE LatchInv /\ Latch!Init
      OBVIOUS
    <2>1. irq = 0 /\ rxOverrun = FALSE /\ fresh = FALSE /\ pc[Uart_Handler] = "none"
      BY DEF Init, Port!Init, Uart_Handler
    <2>2. (irq = 1) = FALSE /\ (pc[Uart_Handler] # "none") = FALSE
      BY <2>1
    <2>3. Latch!Init
      BY <2>1, <2>2, Zenon DEF Latch!Init
    <2>4. irq \in {0, 1}
      BY <2>1
    <2>5. QED
      BY <2>1, <2>3, <2>4, Zenon DEF LatchInv
  <1>2. IInv /\ LatchInv /\ [Next]_vars => LatchInv' /\ [Latch!Next]_(Latch!vars)
    BY LatchStep
  <1>3. QED
    BY <1>1, <1>2, SpecIInv, PTL DEF Spec, LineLatches, Latch!Spec
=============================================================================
