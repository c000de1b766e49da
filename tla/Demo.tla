-------------------------------- MODULE Demo --------------------------------
(***************************************************************************)
(* The demo application (Demo/main.c): four tasks of equal priority that   *)
(* pass a turn around with four binary semaphores.  Task 1 reads a line    *)
(* from the UART, task 2 sends it with CAN0, task 3 reads it from CAN1,    *)
(* task 4 prints it.  Uart_Handler preempts them when a character was      *)
(* lost in the receiver.                                                   *)
(*                                                                         *)
(* The devices are what their software can rely on: the UART is            *)
(* SerialPort, the CAN controllers are Mailboxes (modules Uart and Can     *)
(* implement them).  Tasks are preempted between any two accesses to a     *)
(* device, a semaphore or a shared buffer.  One character stands for each  *)
(* fixed text that is printed.  The two accesses with which the handler    *)
(* clears ROE are one step here; module UartDriver takes them apart.       *)
(***************************************************************************)
EXTENDS Naturals, Sequences, FiniteSets

CONSTANTS
  N,        \* characters in a line (8); half of them fill a data word
  Typed,    \* the characters the host may send
  Mark      \* the character that stands for a fixed text

NUL == 0
can0 == "can0"
can1 == "can1"
Task == 1..4
Uart_Handler == 5

ASSUME DemoAssumption ==
  /\ N \in Nat \ {0} /\ N % 2 = 0
  /\ NUL \in Typed /\ Mark \notin Typed

Printed == Typed \cup {Mark}
Line == [1..N -> Typed]
Half == N \div 2

VARIABLES
  pc,           \* what each task, and the handler, does next
  idx,          \* the loop counter of each
  saw,          \* those that found TRDY or RRDY set and did not act on it yet
  sem,          \* the semaphores that can be taken
  characters,   \* the line read from the UART
  characters2,  \* the line read from CAN1
  str,          \* the text task 4 prints
  got,          \* what UART_getchar returned for this line
  irq,          \* the UART interrupt is pending
  txq, txOverrun, line, rxIn, rxdata, fresh, rxOverrun,   \* the UART
  draft, full, box, lost                                  \* the controllers

Port == INSTANCE SerialPort WITH Char <- Printed
Mail == INSTANCE Mailboxes WITH
  Node <- {can0, can1}, OnBus <- {can0, can1}, Blank <- [i \in 1..N |-> NUL]

uart == <<txq, txOverrun, line, rxIn, rxdata, fresh, rxOverrun>>
can == <<draft, full, box, lost>>
buffers == <<characters, characters2, str, got>>
vars == <<pc, idx, saw, sem, buffers, irq, uart, can>>

(* main gives xSem1, initialises the UART and starts the scheduler.        *)
Init ==
  /\ pc = [t \in 1..5 |-> IF t = Uart_Handler THEN "none" ELSE "take"]
  /\ idx = [t \in 1..5 |-> 0]
  /\ saw = {}
  /\ sem = {1}
  /\ characters = [i \in 1..N |-> NUL] /\ characters2 = [i \in 1..N |-> NUL]
  /\ str = << >> /\ got = << >>
  /\ irq = 0
  /\ Port!Init
  /\ Mail!Init

-----------------------------------------------------------------------------
(* The UART by itself.  A lost character raises the interrupt.             *)
Arrives == \E c \in Typed : Port!Arrive(c) /\ UNCHANGED <<pc, idx, saw, sem, buffers, irq, can>>

Emits == Port!Emit /\ UNCHANGED <<pc, idx, saw, sem, buffers, irq, can>>

Completes ==
  /\ Port!Complete
  /\ irq' = IF ~rxOverrun /\ rxOverrun' THEN 1 ELSE irq
  /\ UNCHANGED <<pc, idx, saw, sem, buffers, can>>

-----------------------------------------------------------------------------
Runs(t) == t = Uart_Handler \/ pc[Uart_Handler] = "none"

At(t, label) == Runs(t) /\ pc[t] = label
Goto(t, label) == pc' = [pc EXCEPT ![t] = label]

(* The test that ends a busy wait, and the access that relies on it.       *)
Sees(t, bit) ==
  /\ t \notin saw /\ bit
  /\ saw' = saw \cup {t}
  /\ UNCHANGED <<pc, idx, sem, buffers, irq, uart, can>>

(* One character of UART_printf.                                           *)
UART_printf(t, c) ==
  /\ t \in saw /\ saw' = saw \ {t}
  /\ Port!Put(c)

Ready == Len(txq) < 2

(* A fixed text, then the step after it.                                   *)
Says(t, label, next) ==
  /\ At(t, label)
  /\ \/ Sees(t, Ready)
     \/ /\ UART_printf(t, Mark)
        /\ Goto(t, next)
        /\ idx' = [idx EXCEPT ![t] = 0]
        /\ UNCHANGED <<sem, buffers, irq, can>>

(* The semaphores: task t waits for its own and gives the next one.        *)
Succ(t) == IF t = 4 THEN 1 ELSE t + 1
Given_Own(t) == t
Given_NoWrap(t) == IF t = 4 THEN 4 ELSE t + 1
Given_Skips(t) == IF t = 2 THEN 4 ELSE Succ(t)
Given(t) == Succ(t)

xSemaphoreTake_TimesOut(t) ==
  /\ At(t, "take")
  /\ sem' = sem \ {t}
  /\ Goto(t, "hello")
  /\ UNCHANGED <<idx, saw, buffers, irq, uart, can>>

xSemaphoreTake(t) ==
  /\ At(t, "take")
  /\ t \in sem /\ sem' = sem \ {t}
  /\ Goto(t, "hello")
  /\ got' = IF t = 1 THEN << >> ELSE got
  /\ UNCHANGED <<idx, saw, characters, characters2, str, irq, uart, can>>

(* The string of task 4 is local to the round that ends here.              *)
xSemaphoreGive(t) ==
  /\ At(t, "give")
  /\ sem' = sem \cup {Given(t)}
  /\ Goto(t, "take")
  /\ str' = IF t = 4 THEN << >> ELSE str
  /\ UNCHANGED <<idx, saw, characters, characters2, got, irq, uart, can>>

-----------------------------------------------------------------------------
(* Task 1: N characters, one UART_getchar each.                            *)
UART_getchar ==
  \/ Sees(1, fresh)
  \/ /\ 1 \in saw /\ saw' = saw \ {1}
     /\ Port!Read
     /\ characters' = [characters EXCEPT ![idx[1] + 1] = rxdata]
     /\ got' = Append(got, rxdata)
     /\ idx' = [idx EXCEPT ![1] = @ + 1]
     /\ pc' = IF idx[1] + 1 = N THEN [pc EXCEPT ![1] = "bye"] ELSE pc
     /\ UNCHANGED <<sem, characters2, str, irq, can>>

read_from_UART ==
  \/ Says(1, "hello", "get")
  \/ At(1, "get") /\ UART_getchar
  \/ Says(1, "bye", "give")

(* Task 2.  The identifier, the length and the format are the same in      *)
(* every round; the draft is the data words.                               *)
Lower(c, d) == [i \in 1..N |-> IF i <= Half THEN c[i] ELSE d[i]]
Upper(c, d) == [i \in 1..N |-> IF i <= Half THEN d[i] ELSE c[i]]

CAN_write ==
  /\ \/ /\ At(2, "tda") /\ Goto(2, "tdb")
        /\ draft' = [draft EXCEPT ![can0] = Lower(characters, @)]
     \/ /\ At(2, "tdb") /\ Goto(2, "tr")
        /\ draft' = [draft EXCEPT ![can0] = Upper(characters, @)]
  /\ UNCHANGED <<idx, saw, sem, buffers, irq, uart, full, box, lost>>

TransmitOrders_None == {}
TransmitOrders == {"send"}

CAN_transmit ==
  /\ At(2, "tr") /\ Goto(2, "bye")
  /\ Mail!Command(can0, TransmitOrders)
  /\ UNCHANGED <<idx, saw, sem, buffers, irq, uart>>

write_to_CAN_and_transmit ==
  \/ Says(2, "hello", "tda")
  \/ CAN_write
  \/ CAN_transmit
  \/ Says(2, "bye", "give")

(* Task 3: the poll that ends while(!CAN_has_received(1)), the bytes one   *)
(* by one, the release.                                                    *)
CAN_has_received ==
  /\ At(3, "poll") /\ can1 \in full /\ Goto(3, "byte")
  /\ UNCHANGED <<idx, saw, sem, buffers, irq, uart, can>>

CAN_read_data ==
  /\ At(3, "byte")
  /\ characters2' = [characters2 EXCEPT ![idx[3] + 1] = box[can1][idx[3] + 1]]
  /\ idx' = [idx EXCEPT ![3] = @ + 1]
  /\ pc' = IF idx[3] + 1 = N THEN [pc EXCEPT ![3] = "release"] ELSE pc
  /\ UNCHANGED <<saw, sem, characters, str, got, irq, uart, can>>

ReleaseOrders_None == {}
ReleaseOrders == {"release"}

CAN_release_receive_buffer ==
  /\ At(3, "release") /\ Goto(3, "bye")
  /\ Mail!Command(can1, ReleaseOrders)
  /\ UNCHANGED <<idx, saw, sem, buffers, irq, uart>>

read_from_CAN ==
  \/ Says(3, "hello", "poll")
  \/ CAN_has_received
  \/ CAN_read_data
  \/ CAN_release_receive_buffer
  \/ Says(3, "bye", "give")

(* Task 4: sprintf("%s\n") ends at the first NUL.                          *)
strlen(l) ==
  CHOOSE k \in 0..N : (\A i \in 1..k : l[i] # NUL) /\ (k = N \/ l[k + 1] = NUL)

sprintf_All(l) == Append(SubSeq(l, 1, N), Mark)
sprintf(l) == Append(SubSeq(l, 1, strlen(l)), Mark)

Formats ==
  /\ At(4, "format") /\ Goto(4, "text")
  /\ str' = sprintf(characters2)
  /\ UNCHANGED <<idx, saw, sem, characters, characters2, got, irq, uart, can>>

PrintsText ==
  /\ At(4, "text")
  /\ \/ Sees(4, Ready)
     \/ /\ UART_printf(4, str[idx[4] + 1])
        /\ idx' = [idx EXCEPT ![4] = @ + 1]
        /\ pc' = IF idx[4] + 1 = Len(str) THEN [pc EXCEPT ![4] = "bye"] ELSE pc
        /\ UNCHANGED <<sem, buffers, irq, can>>

write_to_UART ==
  \/ Says(4, "hello", "format")
  \/ Formats
  \/ PrintsText
  \/ Says(4, "bye", "give")

-----------------------------------------------------------------------------
(* Uart_Handler: clear the overrun, print, return.                         *)
armv7m_nvic_acknowledge_irq ==
  /\ pc[Uart_Handler] = "none" /\ irq = 1
  /\ irq' = 0
  /\ Goto(Uart_Handler, "clear")
  /\ UNCHANGED <<idx, saw, sem, buffers, uart, can>>

UART_clear_interrupt ==
  /\ At(Uart_Handler, "clear") /\ Goto(Uart_Handler, "print")
  /\ Port!ClearErrors /\ ~rxOverrun' /\ txOverrun' = txOverrun
  /\ UNCHANGED <<idx, saw, sem, buffers, irq, can>>

armv7m_nvic_complete_irq ==
  /\ At(Uart_Handler, "return") /\ Goto(Uart_Handler, "none")
  /\ irq' = IF rxOverrun THEN 1 ELSE irq
  /\ UNCHANGED <<idx, saw, sem, buffers, uart, can>>

Handler ==
  \/ armv7m_nvic_acknowledge_irq
  \/ UART_clear_interrupt
  \/ Says(Uart_Handler, "print", "return")
  \/ armv7m_nvic_complete_irq

Body(t) ==
  \/ t = 1 /\ read_from_UART
  \/ t = 2 /\ write_to_CAN_and_transmit
  \/ t = 3 /\ read_from_CAN
  \/ t = 4 /\ write_to_UART

TaskStep(t) == xSemaphoreTake(t) \/ Body(t) \/ xSemaphoreGive(t)

Next == Arrives \/ Emits \/ Completes \/ Handler \/ \E t \in Task : TaskStep(t)

(* The scheduler runs every ready task in turn, the processor executes the *)
(* handler, and the main loop runs the timers of the UART.                 *)
Spec ==
  /\ Init /\ [][Next]_vars
  /\ WF_vars(Emits) /\ WF_vars(Completes) /\ WF_vars(Handler)
  /\ \A t \in Task : WF_vars(TaskStep(t))

-----------------------------------------------------------------------------
(* The tasks that hold the turn: between a take and the give that ends it, *)
(* or about to take.                                                       *)
Turns == {t \in Task : pc[t] # "take" \/ t \in sem}

(* Exactly one task has the turn, and it goes round in the order of the    *)
(* tasks: a task runs only after the one before it has finished.  So one   *)
(* task at a time uses the UART driver, the CAN driver and the buffers.    *)
OneTurn == \E t \in Task : Turns = {t}
TurnsInOrder ==
  [][\A t, u \in Task : Turns = {t} /\ Turns' = {u} => u = t \/ u = Succ(t)]_vars

(* The line that is printed is the line that UART_getchar returned, up to  *)
(* the first NUL: no task saw a buffer, a register or a mailbox that       *)
(* another one was still changing.                                         *)
EchoCorrect ==
  pc[4] = "text" =>
    \E k \in 0..N :
      /\ str = Append(SubSeq(got, 1, k), Mark)
      /\ \A i \in 1..k : got[i] # NUL
      /\ k = N \/ got[k + 1] = NUL

(* The four tasks, their buffers, the mailboxes and the semaphores between *)
(* them together are an Echo: a line is read as a whole, printed           *)
(* character by character as it was read, with nothing left out, repeated  *)
(* or taken from another line, and only then the next one is begun.        *)
Session == INSTANCE Echo WITH
  read <- IF 1 \in sem THEN << >> ELSE got,
  printed <- IF pc[4] = "text" THEN SubSeq(str, 1, idx[4])
             ELSE IF pc[4] \in {"bye", "give"} THEN str ELSE << >>

ImplementsEcho == Session!Spec

(* The overrun flag, the pending bit and the handler are an InterruptLine, *)
(* as Nvic promises.                                                       *)
Latch == INSTANCE InterruptLine WITH
  level <- rxOverrun, pending <- irq = 1, active <- pc[Uart_Handler] # "none"

LineLatches == Latch!Spec

(* CAN1 holds the frame when task 3 polls for it, and never lost one.      *)
FrameIsThere == pc[3] = "poll" => can1 \in full
NoCanOverrun == lost = {}

(* A line that was read is printed, and then the next one is awaited;      *)
(* only a handler that is entered for ever can prevent it.                 *)
LineIsPrinted == (pc[1] = "bye" ~> pc[4] = "text") \/ []<>(pc[Uart_Handler] = "clear")
NextIsAwaited == (pc[4] = "text" ~> pc[1] = "get") \/ []<>(pc[Uart_Handler] = "clear")
=============================================================================
