----------------------------- MODULE EchoProofs -----------------------------
(***************************************************************************)
(* The demo application implements Echo, for lines of any length, and in   *)
(* turns of bounded length.                                                *)
(***************************************************************************)
EXTENDS DemoProofs, SequenceTheorems

(* Where task 4 is in the text, beyond what IInv says of it.               *)
TextInv ==
  /\ pc[4] = "format" => idx[4] = 0
  /\ pc[4] \in {"text", "bye", "give"} => str = sprintf(got)
  /\ pc[4] = "text" => idx[4] < Len(str)

(* What a step is to the user of the demo.                                 *)
Unseen ==
  /\ pc'[4] = pc[4] /\ idx'[4] = idx[4] /\ str' = str /\ got' = got
  /\ 1 \in sem' <=> 1 \in sem

Begins ==
  /\ 1 \in sem /\ 1 \notin sem' /\ got' = << >>
  /\ pc[4] = "take" /\ pc'[4] = "take"

Gets ==
  /\ 1 \notin sem /\ 1 \notin sem' /\ pc[4] = "take" /\ pc'[4] = "take"
  /\ Len(got) < N /\ got' = Append(got, rxdata)

Prepares ==
  /\ pc[4] \in {"take", "hello"} /\ pc'[4] \in {"hello", "format"}
  /\ pc'[4] = "format" => idx'[4] = 0
  /\ got' = got /\ 1 \notin sem /\ 1 \notin sem'

Composes ==
  /\ pc[4] = "format" /\ pc'[4] = "text" /\ idx'[4] = idx[4] /\ str' = sprintf(got)
  /\ got' = got /\ 1 \notin sem /\ 1 \notin sem'

Shows ==
  /\ pc[4] = "text" /\ idx'[4] = idx[4] + 1
  /\ pc'[4] = IF idx[4] + 1 = Len(str) THEN "bye" ELSE "text"
  /\ str' = str /\ got' = got /\ 1 \notin sem /\ 1 \notin sem'

Closes ==
  /\ pc[4] = "bye" /\ pc'[4] = "give"
  /\ str' = str /\ got' = got /\ 1 \notin sem /\ 1 \notin sem'

Ends == pc[4] = "give" /\ pc'[4] = "take" /\ 1 \notin sem /\ 1 \in sem'

UserStep == Unseen \/ Begins \/ Gets \/ Prepares \/ Composes \/ Shows \/ Closes \/ Ends

-----------------------------------------------------------------------------
(* Fixed texts of tasks 1, 2 and 3 and of the handler are no part of the   *)
(* line.                                                                   *)
LEMMA SaysUnseen ==
  ASSUME IInv, NEW t \in 1..5, t # 4, NEW label, NEW next, Says(t, label, next)
  PROVE  Unseen
  <1>1. pc \in [1..5 -> Label] /\ idx \in [1..5 -> Nat] /\ 4 \in 1..5
    BY DEF IInv, TypeOK
  <1>2. CASE Sees(t, Ready)
    BY <1>2 DEF Sees, Unseen, buffers
  <1>3. CASE pc' = [pc EXCEPT ![t] = next] /\ idx' = [idx EXCEPT ![t] = 0]
             /\ UNCHANGED <<sem, buffers>>
    <2>1. pc'[4] = pc[4] /\ idx'[4] = idx[4]
      BY <1>1, <1>3
    <2>2. QED
      BY <1>3, <2>1 DEF Unseen, buffers
  <1>4. QED
    BY <1>2, <1>3 DEF Says, Goto

(* Task 4 prints its greeting before it looks at the line, its farewell    *)
(* after it has printed it.                                                *)
LEMMA SaysLast ==
  ASSUME IInv, Says(4, "hello", "format") \/ Says(4, "bye", "give")
  PROVE  UserStep
  <1>1. pc \in [1..5 -> Label] /\ idx \in [1..5 -> Nat] /\ 4 \in 1..5 /\ 4 \in Task
    BY DEF IInv, TypeOK, Task
  <1>2. CASE Sees(4, Ready)
    BY <1>2 DEF Sees, Unseen, UserStep, buffers
  <1>3. CASE ~Sees(4, Ready)
    <2>1. /\ UNCHANGED <<sem, str, got>> /\ idx' = [idx EXCEPT ![4] = 0]
          /\ \/ pc[4] = "hello" /\ pc' = [pc EXCEPT ![4] = "format"]
             \/ pc[4] = "bye" /\ pc' = [pc EXCEPT ![4] = "give"]
      BY <1>3 DEF Says, At, Goto, buffers
    <2>2. pc[4] # "take"
      BY <2>1
    <2>3. sem = {}
      BY <1>1, <2>2, TurnOf
    <2>4. /\ idx'[4] = 0
          /\ \/ pc[4] = "hello" /\ pc'[4] = "format"
             \/ pc[4] = "bye" /\ pc'[4] = "give"
      BY <1>1, <2>1
    <2>5. QED
      BY <2>1, <2>3, <2>4 DEF Prepares, Closes, UserStep
  <1>4. QED
    BY <1>2, <1>3

(* The steps of the UART and of the handler are not seen by the user.      *)
LEMMA DeviceUnseen ==
  ASSUME IInv, Arrives \/ Emits \/ Completes \/ Handler
  PROVE  Unseen
  <1>1. pc \in [1..5 -> Label] /\ 4 \in 1..5 /\ 5 \in 1..5 /\ Uart_Handler = 5
    BY DEF IInv, TypeOK, Uart_Handler
  <1>2. CASE Arrives \/ Emits \/ Completes
    BY <1>2 DEF Arrives, Emits, Completes, Unseen, buffers
  <1>3. CASE armv7m_nvic_acknowledge_irq \/ UART_clear_interrupt \/ armv7m_nvic_complete_irq
    <2>1. UNCHANGED <<idx, sem, str, got>>
      BY <1>3 DEF armv7m_nvic_acknowledge_irq, UART_clear_interrupt, armv7m_nvic_complete_irq, buffers
    <2>2. pc'[4] = pc[4]
      BY <1>1, <1>3 DEF armv7m_nvic_acknowledge_irq, UART_clear_interrupt, armv7m_nvic_complete_irq, Goto
    <2>3. QED
      BY <2>1, <2>2 DEF Unseen
  <1>4. CASE Says(Uart_Handler, "print", "return")
    BY <1>1, <1>4, SaysUnseen
  <1>5. QED
    BY <1>2, <1>3, <1>4 DEF Handler

(* The semaphores begin a line, hand it to task 4 and end it.              *)
LEMMA SemaphoreSeen ==
  ASSUME IInv, NEW t \in Task, xSemaphoreTake(t) \/ xSemaphoreGive(t)
  PROVE  UserStep
  <1>1. /\ pc \in [1..5 -> Label] /\ 4 \in 1..5 /\ t \in 1..5
        /\ 1 \in Task /\ 4 \in Task /\ t \in {1, 2, 3, 4}
    BY DEF IInv, TypeOK, Task
  <1>2. CASE xSemaphoreTake(t)
    <2>1. sem = {t} /\ pc[4] = "take"
      BY <1>1, <1>2, TurnTaken DEF xSemaphoreTake
    <2>2. /\ sem' = {} /\ got' = (IF t = 1 THEN << >> ELSE got) /\ UNCHANGED <<idx, str>>
          /\ pc' = [pc EXCEPT ![t] = "hello"]
      BY <1>2, <2>1 DEF xSemaphoreTake, Goto
    <2>3. t = 4 => pc'[4] = "hello"
      BY <1>1, <2>2
    <2>4. t # 4 => pc'[4] = pc[4]
      BY <1>1, <2>2
    <2>5. CASE t = 1
      BY <2>1, <2>2, <2>4, <2>5 DEF Begins, UserStep
    <2>6. CASE t = 4
      BY <2>1, <2>2, <2>3, <2>6 DEF Prepares, UserStep
    <2>7. CASE t # 1 /\ t # 4
      BY <2>1, <2>2, <2>4, <2>7 DEF Unseen, UserStep
    <2>8. QED
      BY <2>5, <2>6, <2>7
  <1>3. CASE xSemaphoreGive(t)
    <2>1. /\ pc[t] = "give" /\ sem' = sem \cup {Succ(t)} /\ UNCHANGED <<idx, got>>
          /\ pc' = [pc EXCEPT ![t] = "take"] /\ str' = IF t = 4 THEN << >> ELSE str
      BY <1>3 DEF xSemaphoreGive, At, Goto, Given
    <2>2. sem = {}
      BY <2>1, TurnOf
    <2>3. CASE t = 4
      <3>1. pc'[4] = "take" /\ Succ(t) = 1
        BY <1>1, <2>1, <2>3 DEF Succ
      <3>2. QED
        BY <2>1, <2>2, <2>3, <3>1 DEF Ends, UserStep
    <2>4. CASE t # 4
      <3>1. pc'[4] = pc[4]
        BY <1>1, <2>1, <2>4
      <3>2. Succ(t) # 1
        BY <1>1, <2>4 DEF Succ
      <3>3. QED
        BY <2>1, <2>2, <2>4, <3>1, <3>2 DEF Unseen, UserStep
    <2>5. QED
      BY <2>3, <2>4
  <1>4. QED
    BY <1>2, <1>3

(* Task 1 reads a character at a time.                                     *)
LEMMA ReadSeen ==
  ASSUME IInv, read_from_UART
  PROVE  UserStep
  <1>1. /\ pc \in [1..5 -> Label] /\ idx \in [1..5 -> Nat]
        /\ 1 \in 1..5 /\ 4 \in 1..5 /\ 1 \in Task /\ 4 \in Task
    BY DEF IInv, TypeOK, Task
  <1>2. CASE Says(1, "hello", "get") \/ Says(1, "bye", "give")
    <2>1. Unseen
      BY <1>1, <1>2, SaysUnseen
    <2>2. QED
      BY <2>1 DEF UserStep
  <1>3. CASE Sees(1, fresh)
    BY <1>3 DEF Sees, Unseen, UserStep, buffers
  <1>4. CASE At(1, "get") /\ UART_getchar /\ ~Sees(1, fresh)
    <2>1. /\ pc[1] = "get" /\ got' = Append(got, rxdata) /\ sem' = sem
          /\ pc' = IF idx[1] + 1 = N THEN [pc EXCEPT ![1] = "bye"] ELSE pc
      BY <1>4 DEF At, UART_getchar
    <2>2. pc[1] # "take" /\ Len(got) < N
      BY <2>1 DEF IInv, LineIn
    <2>3. sem = {} /\ pc[4] = "take"
      BY <1>1, <2>2, TurnOf
    <2>4. pc'[4] = pc[4]
      BY <1>1, <2>1
    <2>5. QED
      BY <2>1, <2>2, <2>3, <2>4 DEF Gets, UserStep
  <1>5. QED
    BY <1>2, <1>3, <1>4 DEF read_from_UART

(* Tasks 2 and 3 pass the line on; the user sees nothing of it.            *)
LEMMA PassUnseen ==
  ASSUME IInv, write_to_CAN_and_transmit \/ read_from_CAN
  PROVE  Unseen
  <1>1. /\ pc \in [1..5 -> Label] /\ idx \in [1..5 -> Nat]
        /\ 2 \in 1..5 /\ 3 \in 1..5 /\ 4 \in 1..5
    BY DEF IInv, TypeOK
  <1>2. CASE \/ Says(2, "hello", "tda") \/ Says(2, "bye", "give")
             \/ Says(3, "hello", "poll") \/ Says(3, "bye", "give")
    BY <1>1, <1>2, SaysUnseen
  <1>3. CASE CAN_write \/ CAN_transmit
    <2>1. UNCHANGED <<idx, sem, str, got>>
      BY <1>3 DEF CAN_write, CAN_transmit, buffers
    <2>2. pc'[4] = pc[4]
      BY <1>1, <1>3 DEF CAN_write, CAN_transmit, Goto
    <2>3. QED
      BY <2>1, <2>2 DEF Unseen
  <1>4. CASE CAN_has_received \/ CAN_read_data \/ CAN_release_receive_buffer
    <2>1. UNCHANGED <<sem, str, got>>
      BY <1>4 DEF CAN_has_received, CAN_read_data, CAN_release_receive_buffer, buffers
    <2>2. pc'[4] = pc[4] /\ idx'[4] = idx[4]
      BY <1>1, <1>4 DEF CAN_has_received, CAN_read_data, CAN_release_receive_buffer, Goto
    <2>3. QED
      BY <2>1, <2>2 DEF Unseen
  <1>5. QED
    BY <1>2, <1>3, <1>4 DEF write_to_CAN_and_transmit, read_from_CAN

(* Task 4 composes the text and prints a character at a time.              *)
LEMMA PrintSeen ==
  ASSUME IInv, write_to_UART
  PROVE  UserStep
  <1>1. /\ pc \in [1..5 -> Label] /\ idx \in [1..5 -> Nat]
        /\ 4 \in 1..5 /\ 4 \in Task
    BY DEF IInv, TypeOK, Task
  <1>2. CASE Says(4, "hello", "format") \/ Says(4, "bye", "give")
    BY <1>2, SaysLast
  <1>3. CASE Formats
    <2>1. /\ pc[4] = "format" /\ pc' = [pc EXCEPT ![4] = "text"]
          /\ str' = sprintf(characters2) /\ UNCHANGED <<idx, sem, got>>
      BY <1>3 DEF Formats, At, Goto
    <2>2. pc[4] # "take"
      BY <2>1
    <2>3. sem = {} /\ characters2 = got
      BY <1>1, <2>2, TurnOf DEF IInv, LineIn, LineOut, HasTurn
    <2>4. pc'[4] = "text"
      BY <1>1, <2>1
    <2>5. QED
      BY <2>1, <2>3, <2>4 DEF Composes, UserStep
  <1>4. CASE Sees(4, Ready)
    BY <1>4 DEF Sees, Unseen, UserStep, buffers
  <1>5. CASE PrintsText /\ ~Sees(4, Ready)
    <2>1. /\ pc[4] = "text" /\ idx' = [idx EXCEPT ![4] = @ + 1]
          /\ pc' = (IF idx[4] + 1 = Len(str) THEN [pc EXCEPT ![4] = "bye"] ELSE pc)
          /\ UNCHANGED <<sem, str, got>>
      BY <1>5 DEF PrintsText, At, buffers
    <2>2. pc[4] # "take"
      BY <2>1
    <2>3. sem = {}
      BY <1>1, <2>2, TurnOf
    <2>4. pc'[4] = (IF idx[4] + 1 = Len(str) THEN "bye" ELSE "text") /\ idx'[4] = idx[4] + 1
      BY <1>1, <2>1
    <2>5. QED
      BY <2>1, <2>3, <2>4 DEF Shows, UserStep
  <1>6. QED
    BY <1>2, <1>3, <1>4, <1>5 DEF write_to_UART

(* So every step of the demo is one of those.                              *)
LEMMA NextSeen ==
  ASSUME IInv, [Next]_vars
  PROVE  UserStep
  <1>1. CASE UNCHANGED vars
    BY <1>1 DEF vars, buffers, Unseen, UserStep
  <1>2. CASE Arrives \/ Emits \/ Completes \/ Handler
    BY <1>2, DeviceUnseen DEF UserStep
  <1>3. ASSUME NEW t \in Task, TaskStep(t) PROVE UserStep
    <2>1. CASE xSemaphoreTake(t) \/ xSemaphoreGive(t)
      BY <2>1, SemaphoreSeen
    <2>2. CASE read_from_UART \/ write_to_UART
      BY <2>2, ReadSeen, PrintSeen
    <2>3. CASE write_to_CAN_and_transmit \/ read_from_CAN
      BY <2>3, PassUnseen DEF UserStep
    <2>4. QED
      BY <1>3, <2>1, <2>2, <2>3 DEF TaskStep, Body
  <1>4. QED
    BY <1>1, <1>2, <1>3 DEF Next

-----------------------------------------------------------------------------
(* What sprintf makes of a line: the characters before the first NUL, and  *)
(* the mark, which is none of them.                                        *)
LEMMA SprintfIs ==
  ASSUME NEW l \in Line
  PROVE  /\ strlen(l) \in 0..N /\ l \in Seq(Typed) /\ Len(l) = N
         /\ sprintf(l) \in Seq(Printed) /\ Len(sprintf(l)) = strlen(l) + 1
         /\ \A i \in 1..strlen(l) : sprintf(l)[i] = l[i] /\ l[i] # NUL /\ l[i] # Mark
         /\ sprintf(l)[strlen(l) + 1] = Mark
         /\ strlen(l) = N \/ l[strlen(l) + 1] = NUL
  <1> DEFINE s == strlen(l)
  <1>1. /\ s \in 0..N /\ N \in Nat /\ \A i \in 1..s : l[i] # NUL
        /\ s = N \/ l[s + 1] = NUL
    BY StrlenIs, DemoAssumption
  <1>2. l \in [1..N -> Typed] /\ Mark \notin Typed /\ Typed \subseteq Printed /\ Mark \in Printed
    BY DemoAssumption DEF Line, Printed
  <1>3. sprintf(l) = Append(SubSeq(l, 1, s), Mark)
    BY DEF sprintf
  <1> HIDE DEF s
  <1>4. l \in Seq(Typed) /\ Len(l) = N
    BY <1>1, <1>2
  <1>5. \A i \in 1..s : l[i] \in Typed /\ l[i] \in Printed /\ l[i] # Mark
    BY <1>1, <1>2
  <1>6. /\ SubSeq(l, 1, s) \in Seq(Printed) /\ Len(SubSeq(l, 1, s)) = s
        /\ \A i \in 1..s : SubSeq(l, 1, s)[i] = l[i]
    BY <1>1, <1>4, <1>5
  <1> DEFINE p == SubSeq(l, 1, s)
  <1> HIDE DEF p
  <1>7. /\ Append(p, Mark) \in Seq(Printed) /\ Len(Append(p, Mark)) = s + 1
        /\ \A i \in 1..s : Append(p, Mark)[i] = p[i]
        /\ Append(p, Mark)[s + 1] = Mark
    BY <1>1, <1>2, <1>6 DEF p
  <1>8. QED
    BY <1>1, <1>3, <1>4, <1>5, <1>6, <1>7 DEF p, s

(* The text of task 4 is that of the line, until the turn goes on.         *)
LEMMA TextOf ==
  ASSUME IInv, TextInv, pc[4] \in {"text", "bye", "give"}
  PROVE  got \in Line /\ str = sprintf(got)
  BY DEF IInv, TypeOK, LineIn, HasTurn, TextInv

(* Every step keeps task 4 inside its text.                                *)
LEMMA NextTextInv ==
  ASSUME IInv, IInv', TextInv, UserStep
  PROVE  TextInv'
  <1>1. ASSUME got' = got, str' = str, pc[4] \in {"text", "bye", "give"}
        PROVE  (str = sprintf(got))'
    <2>1. str' = sprintf(got)
      BY <1>1 DEF TextInv
    <2>2. QED
      BY <1>1, <2>1 DEF sprintf, strlen
  <1>2. idx[4] \in Nat /\ idx'[4] \in Nat
    BY DEF IInv, TypeOK
  <1>3. CASE Unseen
    BY <1>1, <1>3 DEF Unseen, TextInv
  <1>4. CASE Begins \/ Gets \/ Ends
    BY <1>4 DEF Begins, Gets, Ends, TextInv
  <1>5. CASE Prepares
    BY <1>5 DEF Prepares, TextInv
  <1>6. CASE Composes
    <2>1. pc'[4] = "text" /\ idx'[4] = 0 /\ str' = sprintf(got) /\ got' = got
      BY <1>6 DEF Composes, TextInv
    <2>2. (str = sprintf(got))'
      BY <2>1 DEF sprintf, strlen
    <2>3. got \in Line
      BY <1>6 DEF Composes, IInv, TypeOK, LineIn, HasTurn
    <2>4. Len(str') \in Nat /\ Len(str') > 0
      BY <2>1, <2>3, SprintfIs
    <2>5. QED
      BY <2>1, <2>2, <2>4 DEF TextInv
  <1>7. CASE Shows
    <2>1. /\ pc[4] = "text" /\ idx'[4] = idx[4] + 1 /\ str' = str /\ got' = got
          /\ pc'[4] = IF idx[4] + 1 = Len(str) THEN "bye" ELSE "text"
          /\ idx[4] < Len(str)
      BY <1>7 DEF Shows, TextInv
    <2>2. (str = sprintf(got))'
      BY <1>1, <2>1
    <2>3. got \in Line /\ str = sprintf(got)
      BY <2>1, TextOf
    <2>4. Len(str) \in Nat
      BY <2>3, SprintfIs
    <2>5. pc'[4] = "text" => idx'[4] < Len(str')
      BY <1>2, <2>1, <2>4
    <2>6. QED
      BY <2>1, <2>2, <2>5 DEF TextInv
  <1>8. CASE Closes
    BY <1>1, <1>8 DEF Closes, TextInv
  <1>9. QED
    BY <1>3, <1>4, <1>5, <1>6, <1>7, <1>8 DEF UserStep

(* So it holds in every reachable state.                                   *)
LEMMA SpecTextInv == Spec => []TextInv
  <1>1. Init => TextInv
    BY DEF Init, TextInv, Uart_Handler
  <1>2. IInv /\ IInv' /\ TextInv /\ [Next]_vars => TextInv'
    BY NextSeen, NextTextInv
  <1>3. QED
    BY <1>1, <1>2, SpecIInv, PTL DEF Spec

-----------------------------------------------------------------------------
(* One more character of a prefix.                                         *)
LEMMA PrefixGrows ==
  ASSUME NEW S, NEW q \in Seq(S), NEW k \in Nat, k < Len(q)
  PROVE  /\ SubSeq(q, 1, k + 1) = Append(SubSeq(q, 1, k), q[k + 1])
         /\ Len(SubSeq(q, 1, k)) = k
         /\ \A i \in 1..k : SubSeq(q, 1, k)[i] = q[i]
  OBVIOUS

(* What the user sees when task 4 prints a character: the next one of the  *)
(* line, or the mark once the line is at its end or at a NUL.              *)
LEMMA ShowsPrints ==
  ASSUME IInv, TextInv, Shows
  PROVE  Session!Show
  <1> DEFINE k == idx[4]
             s == strlen(got)
             rd == IF 1 \in sem THEN << >> ELSE got
             pr == IF pc[4] = "text" THEN SubSeq(str, 1, idx[4])
                   ELSE IF pc[4] \in {"bye", "give"} THEN str ELSE << >>
  <1>1. /\ pc[4] = "text" /\ idx'[4] = k + 1 /\ str' = str /\ got' = got
        /\ pc'[4] = (IF k + 1 = Len(str) THEN "bye" ELSE "text")
        /\ 1 \notin sem /\ 1 \notin sem' /\ k \in Nat /\ k < Len(str)
    BY DEF Shows, TextInv, IInv, TypeOK
  <1>2. got \in Line /\ str = sprintf(got)
    BY <1>1, TextOf
  <1>3. /\ s \in 0..N /\ N \in Nat /\ Len(got) = N /\ str \in Seq(Printed) /\ Len(str) = s + 1
        /\ \A i \in 1..s : str[i] = got[i] /\ got[i] # NUL /\ got[i] # Mark
        /\ str[s + 1] = Mark
        /\ s = N \/ got[s + 1] = NUL
    BY <1>2, SprintfIs, DemoAssumption
  <1> HIDE DEF s
  <1>4. /\ SubSeq(str, 1, k + 1) = Append(SubSeq(str, 1, k), str[k + 1])
        /\ Len(SubSeq(str, 1, k)) = k
        /\ \A i \in 1..k : SubSeq(str, 1, k)[i] = str[i]
    BY <1>1, <1>3, PrefixGrows
  <1>5. rd = got /\ rd' = got
    BY <1>1
  <1>6. pr = SubSeq(str, 1, k)
    BY <1>1
  <1>7. pr' = SubSeq(str, 1, k + 1)
    <2>1. CASE k + 1 = Len(str)
      BY <1>1, <1>3, <2>1, SubSeqFull
    <2>2. CASE k + 1 # Len(str)
      BY <1>1, <2>2
    <2>3. QED
      BY <2>1, <2>2
  <1> HIDE DEF k, rd, pr
  <1>8. ~(pr # << >> /\ pr[Len(pr)] = Mark)
    <2>1. CASE k = 0
      BY <1>4, <1>6, <2>1
    <2>2. CASE k # 0
      <3>1. k \in 1..k /\ k \in 1..s
        BY <1>1, <1>3, <2>2
      <3>2. QED
        BY <1>3, <1>4, <1>6, <3>1
    <2>3. QED
      BY <2>1, <2>2
  <1>9. str[k + 1] = IF k = N \/ got[k + 1] = NUL THEN Mark ELSE got[k + 1]
    <2>1. CASE k < s
      <3>1. k + 1 \in 1..s /\ k # N
        BY <1>1, <1>3, <2>1
      <3>2. QED
        BY <1>3, <3>1
    <2>2. CASE ~(k < s)
      <3>1. k = s
        BY <1>1, <1>3, <2>2
      <3>2. QED
        BY <1>3, <3>1
    <2>3. QED
      BY <2>1, <2>2
  <1>10. /\ Len(rd) = N /\ ~(pr # << >> /\ pr[Len(pr)] = Mark)
         /\ pr' = Append(pr, IF Len(pr) = N \/ rd[Len(pr) + 1] = NUL THEN Mark ELSE rd[Len(pr) + 1])
         /\ rd' = rd
    BY <1>3, <1>4, <1>5, <1>6, <1>7, <1>8, <1>9
  <1>11. QED
    BY <1>10 DEF Session!Show, Session!Whole, Session!Finished, Session!Due, rd, pr

(* Every step of the demo is a step of the Echo, or invisible in it.       *)
LEMMA EchoStep ==
  ASSUME IInv, TextInv, UserStep
  PROVE  [Session!Next]_(Session!vars)
  <1>1. CASE Unseen
    BY <1>1 DEF Unseen, Session!vars
  <1>2. CASE Begins
    BY <1>2 DEF Begins, Session!vars
  <1>3. CASE Gets
    <2>1. Len(got) # N /\ rxdata \in Typed
      BY <1>3, DemoAssumption DEF Gets, IInv, TypeOK
    <2>2. Session!Read
      BY <1>3, <2>1 DEF Gets, Session!Read, Session!Whole
    <2>3. QED
      BY <2>2 DEF Session!Next
  <1>4. CASE Prepares
    BY <1>4 DEF Prepares, Session!vars
  <1>5. CASE Composes
    <2>1. /\ pc[4] = "format" /\ pc'[4] = "text" /\ idx'[4] = 0 /\ got' = got
          /\ 1 \notin sem /\ 1 \notin sem'
      BY <1>5 DEF Composes, TextInv
    <2>2. SubSeq(str', 1, 0) = << >>
      BY SubSeqEmpty
    <2>3. QED
      BY <2>1, <2>2 DEF Session!vars
  <1>6. CASE Shows
    BY <1>6, ShowsPrints DEF Session!Next
  <1>7. CASE Closes
    BY <1>7 DEF Closes, Session!vars
  <1>8. CASE Ends
    <2>1. pc[4] = "give" /\ pc'[4] = "take" /\ 1 \notin sem /\ 1 \in sem'
      BY <1>8 DEF Ends
    <2>2. got \in Line /\ str = sprintf(got)
      BY <2>1, TextOf
    <2>3. Len(got) = N /\ str # << >> /\ str[Len(str)] = Mark
      BY <2>2, SprintfIs
    <2>4. Session!NextLine
      BY <2>1, <2>3 DEF Session!NextLine, Session!Whole, Session!Finished
    <2>5. QED
      BY <2>4 DEF Session!Next
  <1>9. QED
    BY <1>1, <1>2, <1>3, <1>4, <1>5, <1>6, <1>7, <1>8 DEF UserStep

(* The demo is an Echo: what it prints of a line is, character by          *)
(* character, what UART_getchar returned for it, however the scheduler and *)
(* the interrupts interleave the four tasks, and a line is begun only when *)
(* the one before it has been printed to its end.                          *)
THEOREM TheDemoIsAnEcho == Spec => ImplementsEcho
  <1>1. Init => Session!Init
    BY DEF Init, Session!Init, Uart_Handler
  <1>2. IInv /\ TextInv /\ [Next]_vars => [Session!Next]_(Session!vars)
    BY NextSeen, EchoStep
  <1>3. QED
    BY <1>1, <1>2, SpecIInv, SpecTextInv, PTL DEF Spec, ImplementsEcho, Session!Spec

-----------------------------------------------------------------------------
(* The busy waits: a task tests the flag here, then acts on it.            *)
Waits == {"hello", "get", "text", "bye"}

(* The steps a task has ahead of it before it waits for its semaphore      *)
(* again, from label l, with i turns of its loop done and a text of n      *)
(* characters: two for a character that is printed or read.                *)
AheadOf(l, i, n) ==
  CASE l = "hello" -> 2 * N + 8
    [] l = "get" -> 2 * (N - i) + 3
    [] l = "tda" -> 6
    [] l = "tdb" -> 5
    [] l = "tr" -> 4
    [] l = "poll" -> N + 5
    [] l = "byte" -> (N - i) + 4
    [] l = "release" -> 4
    [] l = "format" -> 2 * N + 6
    [] l = "text" -> 2 * (n - i) + 3
    [] l = "bye" -> 3
    [] l = "give" -> 1
    [] OTHER -> 0

Ahead(t) == AheadOf(pc[t], idx[t], Len(str))

Left(t) == Ahead(t) - (IF t \in saw THEN 1 ELSE 0)

(* A flag that was seen set is acted on next, and RRDY is still set then.  *)
SawInv == \A t \in Task : t \in saw => pc[t] \in Waits /\ (pc[t] = "get" => fresh)

(* The three things a step of a task can be: the test that ends a wait,    *)
(* the access that relies on it, or a step without a wait.                 *)
Looked(t) ==
  /\ t \notin saw /\ saw' = saw \cup {t}
  /\ pc[t] \in Waits /\ (pc[t] = "get" => fresh)
  /\ UNCHANGED <<pc, idx, str, got, fresh>>

Acted(t) ==
  /\ t \in saw /\ saw' = saw \ {t}
  /\ pc[t] \in Waits /\ Ahead(t)' + 1 < Ahead(t)
  /\ got' = got \/ pc[t] = "get"

Went(t) ==
  /\ saw' = saw /\ fresh' = fresh
  /\ pc[t] \notin Waits /\ (pc[t] = "take" => t \in sem)
  /\ pc[t] # "take" => Ahead(t)' < Ahead(t)
  /\ got' = got \/ got' = << >>

Moved(t) == Looked(t) \/ Acted(t) \/ Went(t)

(* The table, by label.                                                    *)
LEMMA AheadAt ==
  ASSUME NEW i, NEW n
  PROVE  /\ AheadOf("hello", i, n) = 2 * N + 8
         /\ AheadOf("get", i, n) = 2 * (N - i) + 3
         /\ AheadOf("tda", i, n) = 6 /\ AheadOf("tdb", i, n) = 5 /\ AheadOf("tr", i, n) = 4
         /\ AheadOf("poll", i, n) = N + 5
         /\ AheadOf("byte", i, n) = (N - i) + 4
         /\ AheadOf("release", i, n) = 4
         /\ AheadOf("format", i, n) = 2 * N + 6
         /\ AheadOf("text", i, n) = 2 * (n - i) + 3
         /\ AheadOf("bye", i, n) = 3 /\ AheadOf("give", i, n) = 1
         /\ AheadOf("take", i, n) = 0
  BY DEF AheadOf

(* The loops are inside their bounds, so a task always has between no and  *)
(* 2 N + 8 steps ahead, and at least three where it waits.                 *)
LEMMA AheadRange ==
  ASSUME IInv, TextInv, NEW t \in Task
  PROVE  /\ Ahead(t) \in 0..(2 * N + 8)
         /\ pc[t] # "take" => Ahead(t) >= 1
         /\ pc[t] \in Waits => Ahead(t) >= 3
  <1>0. N \in Nat \ {0} /\ t \in {1, 2, 3, 4}
    BY DemoAssumption DEF Task
  <1>1. idx[t] \in Nat
    BY DEF IInv, TypeOK, Task
  <1> DEFINE i == idx[t]
             n == Len(str)
             l == pc[t]
             a == AheadOf(l, i, n)
  <1>2. l = "get" => i < N
    BY <1>0 DEF IInv, Labels, LineIn
  <1>3. l = "byte" => i < N
    BY <1>0 DEF IInv, Labels, LineOut
  <1>4. l = "text" => n \in Nat /\ i < n /\ n <= N + 1
    <2> SUFFICES ASSUME l = "text" PROVE n \in Nat /\ i < n /\ n <= N + 1
      OBVIOUS
    <2>1. t = 4
      BY <1>0 DEF IInv, Labels
    <2>2. got \in Line /\ str = sprintf(got) /\ idx[4] < Len(str)
      BY <2>1, TextOf DEF TextInv
    <2>3. strlen(got) \in 0..N /\ Len(str) = strlen(got) + 1
      BY <2>2, SprintfIs
    <2>4. QED
      BY <1>0, <2>1, <2>2, <2>3
  <1>5. l \in {"take", "hello", "get", "bye", "give", "tda", "tdb", "tr", "poll", "byte",
                "release", "format", "text"}
    BY <1>0 DEF IInv, Labels
  <1> SUFFICES a \in 0..(2 * N + 8) /\ (l # "take" => a >= 1) /\ (l \in Waits => a >= 3)
    BY DEF Ahead
  <1> HIDE DEF i, n, l
  <1>6. i \in Nat
    BY <1>1 DEF i
  <1>7. CASE l = "get"
    <2>1. a = 2 * (N - i) + 3
      BY <1>7, AheadAt
    <2>2. QED
      BY <1>0, <1>2, <1>6, <1>7, <2>1
  <1>8. CASE l = "byte"
    <2>1. a = (N - i) + 4
      BY <1>8, AheadAt
    <2>2. QED
      BY <1>0, <1>3, <1>6, <1>8, <2>1
  <1>9. CASE l = "text"
    <2>1. a = 2 * (n - i) + 3
      BY <1>9, AheadAt
    <2>2. QED
      BY <1>0, <1>4, <1>6, <1>9, <2>1
  <1>10. CASE l \in {"take", "tda", "tdb", "tr", "release", "bye", "give"}
    <2>1. a \in 0..6 /\ (l # "take" => a >= 1) /\ (l = "bye" => a = 3)
      BY <1>10, AheadAt
    <2>2. QED
      BY <1>0, <1>10, <2>1 DEF Waits
  <1>11. CASE l \in {"hello", "poll", "format"}
    <2>1. a \in {2 * N + 8, N + 5, 2 * N + 6}
      BY <1>11, AheadAt
    <2>2. QED
      BY <1>0, <2>1
  <1>12. QED
    BY <1>5, <1>7, <1>8, <1>9, <1>10, <1>11

(* A fixed text: one look at TRDY, one access, and at least two steps      *)
(* fewer ahead.                                                            *)
LEMMA SaysMoves ==
  ASSUME IInv, NEW t \in Task, NEW label \in {"hello", "bye"}, NEW next, Says(t, label, next),
         AheadOf(next, 0, Len(str)) + 1 < AheadOf(label, idx[t], Len(str))
  PROVE  Moved(t)
  <1>1. pc \in [1..5 -> Label] /\ idx \in [1..5 -> Nat] /\ t \in 1..5
    BY DEF IInv, TypeOK, Task
  <1>2. pc[t] = label /\ label \in Waits /\ label # "get"
    BY DEF Says, At, Waits
  <1>3. CASE Sees(t, Ready)
    BY <1>2, <1>3 DEF Sees, Looked, Moved, buffers, uart
  <1>4. CASE ~Sees(t, Ready)
    <2>1. /\ t \in saw /\ saw' = saw \ {t} /\ UNCHANGED <<got, str>>
          /\ pc' = [pc EXCEPT ![t] = next] /\ idx' = [idx EXCEPT ![t] = 0]
      BY <1>4 DEF Says, UART_printf, Goto, buffers
    <2>2. pc'[t] = next /\ idx'[t] = 0
      BY <1>1, <2>1
    <2>3. Ahead(t)' = AheadOf(next, 0, Len(str)) /\ Ahead(t) = AheadOf(label, idx[t], Len(str))
      BY <1>2, <2>1, <2>2 DEF Ahead
    <2>4. QED
      BY <1>2, <2>1, <2>3 DEF Acted, Moved
  <1>5. QED
    BY <1>3, <1>4

(* The semaphore: a task that gives has no step of its turn ahead.         *)
LEMMA SemaphoreMoves ==
  ASSUME IInv, NEW t \in Task, xSemaphoreTake(t) \/ xSemaphoreGive(t)
  PROVE  Moved(t)
  <1>1. pc \in [1..5 -> Label] /\ t \in 1..5
    BY DEF IInv, TypeOK, Task
  <1>2. CASE xSemaphoreTake(t)
    BY <1>2 DEF xSemaphoreTake, At, Went, Moved, Waits, uart
  <1>3. CASE xSemaphoreGive(t)
    <2>1. /\ pc[t] = "give" /\ pc' = [pc EXCEPT ![t] = "take"]
          /\ UNCHANGED <<saw, got, fresh>>
      BY <1>3 DEF xSemaphoreGive, At, Goto, uart
    <2>2. pc'[t] = "take"
      BY <1>1, <2>1
    <2>3. Ahead(t)' = 0 /\ Ahead(t) = 1
      BY <2>1, <2>2, AheadAt DEF Ahead
    <2>4. QED
      BY <2>1, <2>3 DEF Went, Moved, Waits
  <1>4. QED
    BY <1>2, <1>3

(* Task 1: a look at RRDY and a read for each character.                   *)
LEMMA ReadMoves ==
  ASSUME IInv, read_from_UART
  PROVE  Moved(1)
  <1>1. /\ pc \in [1..5 -> Label] /\ idx \in [1..5 -> Nat] /\ 1 \in 1..5 /\ 1 \in Task
        /\ N \in Nat \ {0}
    BY DemoAssumption DEF IInv, TypeOK, Task
  <1>2. CASE Says(1, "hello", "get")
    <2>1. AheadOf("get", 0, Len(str)) = 2 * (N - 0) + 3 /\ AheadOf("hello", idx[1], Len(str)) = 2 * N + 8
      BY AheadAt
    <2>2. AheadOf("get", 0, Len(str)) + 1 < AheadOf("hello", idx[1], Len(str))
      BY <1>1, <2>1
    <2>3. QED
      BY <1>1, <1>2, <2>2, SaysMoves
  <1>3. CASE Says(1, "bye", "give")
    <2>1. AheadOf("give", 0, Len(str)) = 1 /\ AheadOf("bye", idx[1], Len(str)) = 3
      BY AheadAt
    <2>2. QED
      BY <1>1, <1>3, <2>1, SaysMoves
  <1>4. CASE At(1, "get") /\ Sees(1, fresh)
    BY <1>4 DEF At, Sees, Looked, Moved, Waits, buffers, uart
  <1>5. CASE At(1, "get") /\ UART_getchar /\ ~Sees(1, fresh)
    <2>1. /\ pc[1] = "get" /\ 1 \in saw /\ saw' = saw \ {1}
          /\ idx' = [idx EXCEPT ![1] = @ + 1]
          /\ pc' = IF idx[1] + 1 = N THEN [pc EXCEPT ![1] = "bye"] ELSE pc
      BY <1>5 DEF At, UART_getchar
    <2>2. idx'[1] = idx[1] + 1 /\ pc'[1] = (IF idx[1] + 1 = N THEN "bye" ELSE "get")
      BY <1>1, <2>1
    <2>3. idx[1] \in Nat /\ idx[1] < N
      BY <1>1, <2>1 DEF IInv, LineIn
    <2>4. Ahead(1) = 2 * (N - idx[1]) + 3
      BY <2>1, AheadAt DEF Ahead
    <2>5. Ahead(1)' = IF idx[1] + 1 = N THEN 3 ELSE 2 * (N - (idx[1] + 1)) + 3
      BY <2>2, AheadAt DEF Ahead
    <2>6. Ahead(1)' + 1 < Ahead(1)
      BY <1>1, <2>3, <2>4, <2>5
    <2>7. QED
      BY <2>1, <2>6 DEF Acted, Moved, Waits
  <1>6. QED
    BY <1>2, <1>3, <1>4, <1>5 DEF read_from_UART, UART_getchar

(* Task 2: two words and a command between its texts.                      *)
LEMMA WriteMoves ==
  ASSUME IInv, write_to_CAN_and_transmit
  PROVE  Moved(2)
  <1>1. /\ pc \in [1..5 -> Label] /\ 2 \in 1..5 /\ 2 \in Task /\ N \in Nat \ {0}
    BY DemoAssumption DEF IInv, TypeOK, Task
  <1>2. CASE Says(2, "hello", "tda")
    <2>1. AheadOf("tda", 0, Len(str)) = 6 /\ AheadOf("hello", idx[2], Len(str)) = 2 * N + 8
      BY AheadAt
    <2>2. AheadOf("tda", 0, Len(str)) + 1 < AheadOf("hello", idx[2], Len(str))
      BY <1>1, <2>1
    <2>3. QED
      BY <1>1, <1>2, <2>2, SaysMoves
  <1>3. CASE Says(2, "bye", "give")
    <2>1. AheadOf("give", 0, Len(str)) = 1 /\ AheadOf("bye", idx[2], Len(str)) = 3
      BY AheadAt
    <2>2. QED
      BY <1>1, <1>3, <2>1, SaysMoves
  <1>4. CASE CAN_write \/ CAN_transmit
    <2>1. /\ UNCHANGED <<saw, got, fresh>>
          /\ \/ pc[2] = "tda" /\ pc' = [pc EXCEPT ![2] = "tdb"]
             \/ pc[2] = "tdb" /\ pc' = [pc EXCEPT ![2] = "tr"]
             \/ pc[2] = "tr" /\ pc' = [pc EXCEPT ![2] = "bye"]
      BY <1>4 DEF CAN_write, CAN_transmit, At, Goto, buffers, uart
    <2>2. \/ pc[2] = "tda" /\ pc'[2] = "tdb"
          \/ pc[2] = "tdb" /\ pc'[2] = "tr"
          \/ pc[2] = "tr" /\ pc'[2] = "bye"
      BY <1>1, <2>1
    <2>3. \/ Ahead(2) = 6 /\ Ahead(2)' = 5
          \/ Ahead(2) = 5 /\ Ahead(2)' = 4
          \/ Ahead(2) = 4 /\ Ahead(2)' = 3
      BY <2>2, AheadAt DEF Ahead
    <2>4. Ahead(2)' < Ahead(2)
      BY <2>3
    <2>5. QED
      BY <2>1, <2>4 DEF Went, Moved, Waits
  <1>5. QED
    BY <1>2, <1>3, <1>4 DEF write_to_CAN_and_transmit

(* Task 3: the poll, a byte at a time, the release.                        *)
LEMMA ReceiveMoves ==
  ASSUME IInv, read_from_CAN
  PROVE  Moved(3)
  <1>1. /\ pc \in [1..5 -> Label] /\ idx \in [1..5 -> Nat] /\ 3 \in 1..5 /\ 3 \in Task
        /\ N \in Nat \ {0}
    BY DemoAssumption DEF IInv, TypeOK, Task
  <1>2. CASE Says(3, "hello", "poll")
    <2>1. AheadOf("poll", 0, Len(str)) = N + 5 /\ AheadOf("hello", idx[3], Len(str)) = 2 * N + 8
      BY AheadAt
    <2>2. AheadOf("poll", 0, Len(str)) + 1 < AheadOf("hello", idx[3], Len(str))
      BY <1>1, <2>1
    <2>3. QED
      BY <1>1, <1>2, <2>2, SaysMoves
  <1>3. CASE Says(3, "bye", "give")
    <2>1. AheadOf("give", 0, Len(str)) = 1 /\ AheadOf("bye", idx[3], Len(str)) = 3
      BY AheadAt
    <2>2. QED
      BY <1>1, <1>3, <2>1, SaysMoves
  <1>4. CASE CAN_has_received
    <2>1. /\ UNCHANGED <<idx, saw, got, fresh>>
          /\ pc[3] = "poll" /\ pc' = [pc EXCEPT ![3] = "byte"]
      BY <1>4 DEF CAN_has_received, At, Goto, buffers, uart
    <2>2. pc'[3] = "byte" /\ idx[3] = 0
      BY <1>1, <2>1 DEF IInv, LineOut
    <2>3. Ahead(3) = N + 5 /\ Ahead(3)' = (N - 0) + 4
      BY <2>1, <2>2, AheadAt DEF Ahead
    <2>4. Ahead(3)' < Ahead(3)
      BY <1>1, <2>3
    <2>5. QED
      BY <2>1, <2>4 DEF Went, Moved, Waits
  <1>5. CASE CAN_read_data
    <2>1. /\ pc[3] = "byte" /\ UNCHANGED <<saw, got, fresh>>
          /\ idx' = [idx EXCEPT ![3] = @ + 1]
          /\ pc' = IF idx[3] + 1 = N THEN [pc EXCEPT ![3] = "release"] ELSE pc
      BY <1>5 DEF CAN_read_data, At, uart
    <2>2. idx'[3] = idx[3] + 1 /\ pc'[3] = (IF idx[3] + 1 = N THEN "release" ELSE "byte")
      BY <1>1, <2>1
    <2>3. idx[3] \in Nat /\ idx[3] < N
      BY <1>1, <2>1 DEF IInv, LineOut
    <2>4. Ahead(3) = (N - idx[3]) + 4
      BY <2>1, AheadAt DEF Ahead
    <2>5. Ahead(3)' = IF idx[3] + 1 = N THEN 4 ELSE (N - (idx[3] + 1)) + 4
      BY <2>2, AheadAt DEF Ahead
    <2>6. Ahead(3)' < Ahead(3)
      BY <1>1, <2>3, <2>4, <2>5
    <2>7. QED
      BY <2>1, <2>6 DEF Went, Moved, Waits
  <1>6. CASE CAN_release_receive_buffer
    <2>1. /\ UNCHANGED <<saw, got, fresh>>
          /\ pc[3] = "release" /\ pc' = [pc EXCEPT ![3] = "bye"]
      BY <1>6 DEF CAN_release_receive_buffer, At, Goto, buffers, uart
    <2>2. pc'[3] = "bye"
      BY <1>1, <2>1
    <2>3. Ahead(3) = 4 /\ Ahead(3)' = 3
      BY <2>1, <2>2, AheadAt DEF Ahead
    <2>4. QED
      BY <2>1, <2>3 DEF Went, Moved, Waits
  <1>7. QED
    BY <1>2, <1>3, <1>4, <1>5, <1>6 DEF read_from_CAN

(* Task 4: the text is at most a line and the mark, and each character is  *)
(* a look at TRDY and an access.                                           *)
LEMMA PrintMoves ==
  ASSUME IInv, TextInv, write_to_UART
  PROVE  Moved(4)
  <1>1. /\ pc \in [1..5 -> Label] /\ idx \in [1..5 -> Nat] /\ 4 \in 1..5 /\ 4 \in Task
        /\ N \in Nat \ {0}
    BY DemoAssumption DEF IInv, TypeOK, Task
  <1>2. CASE Says(4, "hello", "format")
    <2>1. AheadOf("format", 0, Len(str)) = 2 * N + 6 /\ AheadOf("hello", idx[4], Len(str)) = 2 * N + 8
      BY AheadAt
    <2>2. AheadOf("format", 0, Len(str)) + 1 < AheadOf("hello", idx[4], Len(str))
      BY <1>1, <2>1
    <2>3. QED
      BY <1>1, <1>2, <2>2, SaysMoves
  <1>3. CASE Says(4, "bye", "give")
    <2>1. AheadOf("give", 0, Len(str)) = 1 /\ AheadOf("bye", idx[4], Len(str)) = 3
      BY AheadAt
    <2>2. QED
      BY <1>1, <1>3, <2>1, SaysMoves
  <1>4. CASE Formats
    <2>1. /\ pc[4] = "format" /\ pc' = [pc EXCEPT ![4] = "text"]
          /\ str' = sprintf(characters2) /\ UNCHANGED <<idx, saw, got, fresh>>
      BY <1>4 DEF Formats, At, Goto, uart
    <2>2. pc'[4] = "text" /\ idx[4] = 0
      BY <1>1, <2>1 DEF TextInv
    <2>3. characters2 \in Line
      BY <2>1 DEF IInv, TypeOK, LineIn, LineOut, HasTurn
    <2>4. strlen(characters2) \in 0..N /\ Len(str') = strlen(characters2) + 1
      BY <2>1, <2>3, SprintfIs
    <2>5. Ahead(4) = 2 * N + 6 /\ Ahead(4)' = 2 * (Len(str') - 0) + 3
      BY <2>1, <2>2, AheadAt DEF Ahead
    <2>6. Ahead(4)' < Ahead(4)
      BY <1>1, <2>4, <2>5
    <2>7. QED
      BY <2>1, <2>6 DEF Went, Moved, Waits
  <1>5. CASE At(4, "text") /\ Sees(4, Ready)
    BY <1>5 DEF At, Sees, Looked, Moved, Waits, buffers, uart
  <1>6. CASE PrintsText /\ ~Sees(4, Ready)
    <2>1. /\ pc[4] = "text" /\ 4 \in saw /\ saw' = saw \ {4} /\ UNCHANGED <<str, got>>
          /\ idx' = [idx EXCEPT ![4] = @ + 1]
          /\ pc' = IF idx[4] + 1 = Len(str) THEN [pc EXCEPT ![4] = "bye"] ELSE pc
      BY <1>6 DEF PrintsText, UART_printf, At, buffers
    <2>2. idx'[4] = idx[4] + 1 /\ pc'[4] = (IF idx[4] + 1 = Len(str) THEN "bye" ELSE "text")
      BY <1>1, <2>1
    <2>3. got \in Line /\ str = sprintf(got) /\ idx[4] < Len(str)
      BY <2>1, TextOf DEF TextInv
    <2>4. Len(str) \in Nat /\ idx[4] \in Nat
      BY <1>1, <2>3, SprintfIs
    <2>5. Ahead(4) = 2 * (Len(str) - idx[4]) + 3
      BY <2>1, AheadAt DEF Ahead
    <2>6. Ahead(4)' = IF idx[4] + 1 = Len(str) THEN 3 ELSE 2 * (Len(str) - (idx[4] + 1)) + 3
      BY <2>1, <2>2, AheadAt DEF Ahead
    <2>7. Ahead(4)' + 1 < Ahead(4)
      BY <2>3, <2>4, <2>5, <2>6
    <2>8. QED
      BY <2>1, <2>7 DEF Acted, Moved, Waits
  <1>7. QED
    BY <1>2, <1>3, <1>4, <1>5, <1>6 DEF write_to_UART, PrintsText

(* So every step of a task is one of the three.                            *)
LEMMA TaskMoves ==
  ASSUME IInv, TextInv, NEW t \in Task, TaskStep(t)
  PROVE  Moved(t)
  <1>1. CASE xSemaphoreTake(t) \/ xSemaphoreGive(t)
    BY <1>1, SemaphoreMoves
  <1>2. CASE Body(t)
    BY <1>2, ReadMoves, WriteMoves, ReceiveMoves, PrintMoves DEF Body
  <1>3. QED
    BY <1>1, <1>2 DEF TaskStep

(* Only the task that has the turn moves.                                  *)
LEMMA MovesAlone ==
  ASSUME IInv, NEW t \in Task, Moved(t), NEW u \in Task, pc[u] # "take"
  PROVE  u = t /\ pc[t] # "take"
  <1>1. sem = {} /\ \A v \in Task : v # u => pc[v] = "take"
    BY TurnOf
  <1>2. pc[t] # "take"
    BY <1>1 DEF Moved, Looked, Acted, Went, Waits
  <1>3. QED
    BY <1>1, <1>2

(* What the UART and the handler leave to the tasks: their places, their   *)
(* looks at a flag, and a character that was not read.                     *)
Held ==
  /\ \A u \in Task : pc'[u] = pc[u] /\ idx'[u] = idx[u] /\ (u \in saw' <=> u \in saw)
  /\ str' = str /\ got' = got /\ (fresh => fresh')

(* The handler has a look of its own at TRDY and clears no RRDY.           *)
LEMMA DeviceHolds ==
  ASSUME IInv, Arrives \/ Emits \/ Completes \/ Handler \/ UNCHANGED vars
  PROVE  Held
  <1>1. /\ pc \in [1..5 -> Label] /\ idx \in [1..5 -> Nat] /\ 5 \in 1..5 /\ Uart_Handler = 5
        /\ \A u \in Task : u \in 1..5 /\ u # 5
    BY DEF IInv, TypeOK, Uart_Handler, Task
  <1>2. CASE UNCHANGED vars
    BY <1>2 DEF vars, buffers, uart, Held
  <1>3. CASE Arrives \/ Emits \/ Completes
    <2>1. UNCHANGED <<pc, idx, saw, str, got>>
      BY <1>3 DEF Arrives, Emits, Completes, buffers
    <2>2. fresh => fresh'
      BY <1>3 DEF Arrives, Emits, Completes, Port!Arrive, Port!Emit, Port!Complete, Port!rx
    <2>3. QED
      BY <2>1, <2>2 DEF Held
  <1>4. CASE armv7m_nvic_acknowledge_irq \/ UART_clear_interrupt \/ armv7m_nvic_complete_irq
    <2>1. UNCHANGED <<idx, saw, str, got, fresh>> /\ \E l : pc' = [pc EXCEPT ![5] = l]
      BY <1>1, <1>4 DEF armv7m_nvic_acknowledge_irq, UART_clear_interrupt,
           armv7m_nvic_complete_irq, Goto, buffers, uart, Port!ClearErrors
    <2>2. \A u \in Task : pc'[u] = pc[u]
      BY <1>1, <2>1, Zenon
    <2>3. QED
      BY <2>1, <2>2 DEF Held
  <1>5. CASE Says(Uart_Handler, "print", "return") /\ Sees(5, Ready)
    <2>1. UNCHANGED <<pc, idx, str, got, fresh>> /\ saw' = saw \cup {5}
      BY <1>5 DEF Sees, buffers, uart
    <2>2. QED
      BY <1>1, <2>1 DEF Held
  <1>6. CASE Says(Uart_Handler, "print", "return") /\ ~Sees(5, Ready)
    <2>1. /\ UNCHANGED <<str, got, fresh>> /\ saw' = saw \ {5}
          /\ pc' = [pc EXCEPT ![5] = "return"] /\ idx' = [idx EXCEPT ![5] = 0]
      BY <1>1, <1>6 DEF Says, UART_printf, Goto, buffers, Port!Put, Port!rx
    <2>2. \A u \in Task : pc'[u] = pc[u] /\ idx'[u] = idx[u]
      BY <1>1, <2>1
    <2>3. QED
      BY <1>1, <2>1, <2>2 DEF Held
  <1>7. QED
    BY <1>2, <1>3, <1>4, <1>5, <1>6 DEF Handler

(* Every step is a task that moves, or leaves the tasks alone.             *)
LEMMA NextMoves ==
  ASSUME IInv, TextInv, [Next]_vars
  PROVE  Held \/ \E t \in Task : TaskStep(t) /\ Moved(t)
  BY TaskMoves, DeviceHolds DEF Next

(* RRDY is still set when the access that relies on it is made: nothing    *)
(* else clears it.                                                         *)
LEMMA NextSawInv ==
  ASSUME IInv, TextInv, SawInv, [Next]_vars
  PROVE  SawInv'
  <1> SUFFICES ASSUME NEW u \in Task, u \in saw'
               PROVE  (pc[u] \in Waits)' /\ (pc[u] = "get" => fresh)'
    BY DEF SawInv
  <1>1. CASE Held
    BY <1>1 DEF Held, SawInv, Waits
  <1>2. ASSUME NEW t \in Task, Moved(t) PROVE (pc[u] \in Waits)' /\ (pc[u] = "get" => fresh)'
    <2>1. u = t \/ u \notin saw
      BY <1>2, MovesAlone DEF SawInv, Waits
    <2>2. CASE Looked(t)
      BY <2>1, <2>2 DEF Looked, Waits
    <2>3. CASE Acted(t) \/ Went(t)
      BY <2>1, <2>3 DEF Acted, Went, SawInv
    <2>4. QED
      BY <1>2, <2>2, <2>3 DEF Moved
  <1>3. QED
    BY <1>1, <1>2, NextMoves

(* So it holds in every reachable state.                                   *)
LEMMA SpecSawInv == Spec => []SawInv
  <1>1. Init => SawInv
    BY DEF Init, SawInv
  <1>2. IInv /\ TextInv /\ SawInv /\ [Next]_vars => SawInv'
    BY NextSawInv
  <1>3. QED
    BY <1>1, <1>2, SpecIInv, SpecTextInv, PTL DEF Spec

(* What is left of a turn is what is ahead, less the look already taken.   *)
LEMMA LeftIs ==
  ASSUME IInv, TextInv, SawInv, NEW t \in Task
  PROVE  /\ Ahead(t) \in Nat /\ Left(t) \in 0..(2 * N + 8)
         /\ pc[t] # "take" => Left(t) > 0
         /\ Left(t) = IF t \in saw THEN Ahead(t) - 1 ELSE Ahead(t)
  <1>1. N \in Nat
    BY DemoAssumption
  <1>2. /\ Ahead(t) \in 0..(2 * N + 8)
        /\ pc[t] # "take" => Ahead(t) >= 1
        /\ pc[t] \in Waits => Ahead(t) >= 3
    BY AheadRange
  <1>3. t \in saw => Ahead(t) >= 3
    BY <1>2 DEF SawInv
  <1>4. Left(t) = Ahead(t) - (IF t \in saw THEN 1 ELSE 0)
    BY DEF Left
  <1>5. QED
    BY <1>1, <1>2, <1>3, <1>4

(* UART_getchar never reads a register that was read before: RRDY is set   *)
(* at every access that follows the test of it, whatever the UART and the  *)
(* handler did between the two.  So each character of a line was received  *)
(* after the one before it was read.                                       *)
THEOREM EachReadIsFresh == Spec => [][Len(got') > Len(got) => fresh]_vars
  <1>1. ASSUME IInv, TextInv, SawInv, [Next]_vars
        PROVE  Len(got') > Len(got) => fresh
    <2>1. Len(got) \in Nat
      BY <1>1 DEF IInv, TypeOK
    <2>2. CASE got' = got \/ got' = << >>
      BY <2>1, <2>2
    <2>3. CASE ~(got' = got \/ got' = << >>)
      <3>1. ~Held
        BY <2>3 DEF Held
      <3>2. PICK t \in Task : Moved(t)
        BY <1>1, <3>1, NextMoves
      <3>3. t \in saw /\ pc[t] = "get"
        BY <2>3, <3>2 DEF Moved, Looked, Acted, Went
      <3>4. QED
        BY <1>1, <3>3 DEF SawInv
    <2>4. QED
      BY <2>2, <2>3
  <1>2. IInv /\ TextInv /\ SawInv /\ [Next]_vars => [Len(got') > Len(got) => fresh]_vars
    BY <1>1
  <1>3. QED
    BY <1>2, SpecIInv, SpecTextInv, SpecSawInv, PTL DEF Spec

(* A turn is at most 2 N + 8 steps of its task, and none is left only when *)
(* the task waits for its semaphore.                                       *)
THEOREM TurnsAreBounded ==
  Spec => [](\A t \in Task : Left(t) \in 0..(2 * N + 8) /\ (pc[t] # "take" => Left(t) > 0))
  <1> DEFINE Bounded == \A t \in Task : Left(t) \in 0..(2 * N + 8) /\ (pc[t] # "take" => Left(t) > 0)
  <1>1. IInv /\ TextInv /\ SawInv => Bounded
    BY LeftIs
  <1> HIDE DEF Bounded
  <1>2. Spec => []Bounded
    BY <1>1, SpecIInv, SpecTextInv, SpecSawInv, PTL
  <1>3. QED
    BY <1>2 DEF Bounded

(* A task that takes a step of its turn has less of it left, and no other  *)
(* step, of the UART, the handler or another task, takes it back: a turn   *)
(* can only be held up in a busy wait, never by going round in a loop.     *)
THEOREM TurnsGoOn ==
  Spec => [][\A t \in Task : pc[t] # "take" =>
               Left(t)' <= Left(t) /\ (TaskStep(t) => Left(t)' < Left(t))]_vars
  <1> DEFINE Goes == \A t \in Task : pc[t] # "take" =>
                       Left(t)' <= Left(t) /\ (TaskStep(t) => Left(t)' < Left(t))
  <1>1. ASSUME IInv, IInv', TextInv, TextInv', SawInv, SawInv', [Next]_vars
        PROVE  Goes
    <2> SUFFICES ASSUME NEW t \in Task, pc[t] # "take"
                 PROVE  Left(t)' <= Left(t) /\ (TaskStep(t) => Left(t)' < Left(t))
      BY DEF Goes
    <2>1. /\ Ahead(t) \in Nat /\ Ahead(t)' \in Nat
          /\ Left(t) = IF t \in saw THEN Ahead(t) - 1 ELSE Ahead(t)
          /\ Left(t)' = IF t \in saw' THEN Ahead(t)' - 1 ELSE Ahead(t)'
      <3>1. Ahead(t) \in Nat /\ Left(t) = IF t \in saw THEN Ahead(t) - 1 ELSE Ahead(t)
        BY <1>1, LeftIs
      <3>2. (Ahead(t) \in Nat /\ Left(t) = IF t \in saw THEN Ahead(t) - 1 ELSE Ahead(t))'
        BY <1>1, LeftIs, PTL
      <3>3. QED
        BY <3>1, <3>2
    <2>2. CASE Moved(t)
      <3>1. CASE Looked(t)
        <4>1. t \notin saw /\ t \in saw'
          BY <3>1 DEF Looked
        <4>2. Ahead(t)' = Ahead(t)
          BY <3>1 DEF Looked, Ahead
        <4>3. QED
          BY <2>1, <4>1, <4>2
      <3>2. CASE Acted(t)
        <4>1. t \in saw /\ t \notin saw' /\ Ahead(t)' + 1 < Ahead(t)
          BY <3>2 DEF Acted
        <4>2. QED
          BY <2>1, <4>1
      <3>3. CASE Went(t)
        <4>1. (t \in saw' <=> t \in saw) /\ Ahead(t)' < Ahead(t)
          BY <3>3 DEF Went
        <4>2. QED
          BY <2>1, <4>1
      <3>4. QED
        BY <2>2, <3>1, <3>2, <3>3 DEF Moved
    <2>3. CASE ~Moved(t)
      <3>1. ~TaskStep(t)
        BY <1>1, <2>3, TaskMoves
      <3>2. Held
        BY <1>1, <2>3, NextMoves, MovesAlone
      <3>3. Ahead(t)' = Ahead(t) /\ (t \in saw' <=> t \in saw)
        BY <3>2 DEF Held, Ahead
      <3>4. QED
        BY <2>1, <3>1, <3>3
    <2>4. QED
      BY <2>2, <2>3
  <1> HIDE DEF Goes
  <1>2. IInv /\ IInv' /\ TextInv /\ TextInv' /\ SawInv /\ SawInv' /\ [Next]_vars => [Goes]_vars
    BY <1>1
  <1>3. Spec => [][Goes]_vars
    BY <1>2, SpecIInv, SpecTextInv, SpecSawInv, PTL DEF Spec
  <1>4. QED
    BY <1>3 DEF Goes
=============================================================================
