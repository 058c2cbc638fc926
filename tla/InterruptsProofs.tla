-------------------------- MODULE InterruptsProofs --------------------------
(***************************************************************************)
(* The end-of-interrupt protocol is kept, for any tasks and whether or not *)
(* the serial buffer may fill up.                                          *)
(*                                                                         *)
(* That a raised interrupt always finds its vector needs the longest       *)
(* argument: a task whose vector another one has consumed was preempted,   *)
(* and its frame was overwritten by the interrupt that consumed it, so     *)
(* that it never gets to its own int instruction.                          *)
(***************************************************************************)
EXTENDS Interrupts, TLAPS

\* The handler that runs is the one that has to be acknowledged.
HandlerRequested ==
    panicked = "" => /\ apic_eoi_required <=> phase = "handler"
                     /\ phase = "handler" => handling = apic_last_interrupt

\* A saved stack pointer points into the task's own stack or the IST stack,
\* and a task that was switched away from inside raise_interrupt was preempted.
ContextsOwn ==
    /\ \A t \in Task : context[t] \in {t, Ist}
    /\ \A t \in raising : t # current_task => context[t] = Ist

\* The handler of a raised interrupt runs on the frame of the task that raised
\* it, and the vector is stored.
DynamicStored ==
    phase = "handler" /\ handling = DYNAMIC =>
        dynamic_interrupt /\ frame \notin raising /\ current_task \notin raising

\* A task whose vector was consumed by another one does not get back.
ConsumedIsOver ==
    \A t \in raising : ~dynamic_interrupt =>
        frame # t /\ context[t] = Ist /\ (phase = "task" => code # t)

IInv ==
    /\ TypeOK /\ HandlerRequested /\ EoiProtocol
    /\ panicked = "" => ContextsOwn /\ DynamicStored /\ ConsumedIsOver
-----------------------------------------------------------------------------
LEMMA InitIInv == Init => IInv
  BY NameAssumption DEF Init, IInv, TypeOK, HandlerRequested, EoiProtocol, ContextsOwn,
     DynamicStored, ConsumedIsOver, Vector, Panics

\* A panic of the allowed kind.
LEMMA PanicIInv ==
    ASSUME IInv, panic("EOI already requested")
    PROVE  IInv'
  BY DEF IInv, panic, apic, rest, TypeOK, HandlerRequested, EoiProtocol, Panics

LEMMA InterruptIInv ==
    ASSUME IInv, NEW v \in {PIT_IRQ, COM_IRQ}, Interrupt(v)
    PROVE  IInv'
  <1>1. CASE apic_eoi_required
    BY <1>1, PanicIInv DEF Interrupt, Enter
  <1>2. CASE ~apic_eoi_required
    <2>1. /\ panicked = "" /\ (phase = "task" => code = current_task)
          /\ frame' = (IF phase = "task" THEN code ELSE Nobody)
          /\ phase' = "handler" /\ IntFlag' = FALSE /\ apic_eoi_required' = TRUE
          /\ apic_last_interrupt' = v /\ handling' = v
          /\ current_task' = current_task /\ code' = code /\ context' = context
          /\ panicked' = panicked /\ raising' = raising
          /\ dynamic_interrupt' = dynamic_interrupt
          /\ irq_disable_counter' = irq_disable_counter
      BY <1>2 DEF Interrupt, Alive, Enter, rest
    <2>2. TypeOK'
      BY <2>1 DEF IInv, TypeOK, Vector
    <2>3. HandlerRequested' /\ EoiProtocol' /\ DynamicStored'
      BY <2>1, NameAssumption DEF HandlerRequested, EoiProtocol, DynamicStored
    <2>4. ContextsOwn'
      BY <2>1 DEF IInv, ContextsOwn
    <2>5. ConsumedIsOver'
      <3> SUFFICES ASSUME NEW t \in raising, ~dynamic_interrupt
                   PROVE  frame' # t /\ context[t] = Ist
        BY <2>1 DEF ConsumedIsOver
      <3>1. t \in Task /\ context[t] = Ist /\ (phase = "task" => code # t)
        BY <2>1 DEF IInv, ConsumedIsOver, TypeOK
      <3> QED
        BY <3>1, <2>1, NameAssumption
    <2> QED
      BY <2>2, <2>3, <2>4, <2>5 DEF IInv
  <1> QED
    BY <1>1, <1>2 DEF IInv, TypeOK

LEMMA RaiseIntIInv ==
    ASSUME IInv, RaiseInt
    PROVE  IInv'
  <1>1. ~apic_eoi_required
    BY DEF RaiseInt, Alive, IInv, HandlerRequested
  <1>2. /\ panicked = "" /\ phase = "task" /\ code = current_task /\ code \in raising
        /\ frame' = code
        /\ phase' = "handler" /\ IntFlag' = FALSE /\ apic_eoi_required' = TRUE
        /\ apic_last_interrupt' = DYNAMIC /\ handling' = DYNAMIC
        /\ current_task' = current_task /\ code' = code /\ context' = context
        /\ panicked' = panicked /\ raising' = raising \ {code}
        /\ dynamic_interrupt' = dynamic_interrupt
        /\ irq_disable_counter' = irq_disable_counter
    BY <1>1 DEF RaiseInt, Alive, Enter
  <1>3. dynamic_interrupt
    BY <1>2 DEF IInv, ConsumedIsOver
  <1>4. TypeOK'
    BY <1>2 DEF IInv, TypeOK, Vector
  <1>5. HandlerRequested' /\ EoiProtocol' /\ DynamicStored' /\ ConsumedIsOver'
    BY <1>2, <1>3 DEF HandlerRequested, EoiProtocol, DynamicStored, ConsumedIsOver
  <1>6. ContextsOwn'
    BY <1>2 DEF IInv, ContextsOwn
  <1> QED
    BY <1>4, <1>5, <1>6 DEF IInv

\* A task stores a vector, or locks or unlocks the scheduler.
LEMMA TaskIInv ==
    ASSUME IInv, raise_interrupt \/ lock_scheduler
    PROVE  IInv'
  <1>1. /\ panicked = "" /\ phase = "task" /\ code = current_task
        /\ current_task' = current_task /\ code' = code /\ frame' = frame
        /\ context' = context /\ phase' = phase /\ IntFlag' = IntFlag
        /\ apic_eoi_required' = apic_eoi_required
        /\ apic_last_interrupt' = apic_last_interrupt /\ handling' = handling
        /\ panicked' = panicked
        /\ \/ /\ dynamic_interrupt' = TRUE /\ raising' = raising \cup {code}
              /\ irq_disable_counter' = irq_disable_counter
           \/ /\ dynamic_interrupt' = dynamic_interrupt /\ raising' = raising
              /\ irq_disable_counter' \in BOOLEAN
    BY DEF raise_interrupt, lock_scheduler, InTask, Alive, apic
  <1>2. TypeOK'
    BY <1>1 DEF IInv, TypeOK
  <1>3. HandlerRequested' /\ EoiProtocol' /\ DynamicStored'
    BY <1>1 DEF IInv, HandlerRequested, EoiProtocol, DynamicStored
  <1>4. ContextsOwn'
    BY <1>1 DEF IInv, ContextsOwn
  <1>5. ConsumedIsOver'
    <2>1. CASE dynamic_interrupt' = TRUE
      BY <2>1 DEF ConsumedIsOver
    <2>2. CASE raising' = raising /\ dynamic_interrupt' = dynamic_interrupt
      BY <2>2, <1>1 DEF IInv, ConsumedIsOver
    <2> QED
      BY <1>1, <2>1, <2>2
  <1> QED
    BY <1>2, <1>3, <1>4, <1>5 DEF IInv
-----------------------------------------------------------------------------
\* The CPU is given away by a task, or by the timer's handler.
LEMMA YieldIInv ==
    ASSUME IInv, panicked = "", NEW sp \in {code, Ist}, Yield(sp),
           sp = code => code = current_task /\ code \notin raising,
           phase # "handler" \/ handling = PIT_IRQ,
           apic_eoi_required' = FALSE,
           UNCHANGED <<apic_last_interrupt, frame, handling, panicked, raising,
                       dynamic_interrupt, irq_disable_counter>>
    PROVE  IInv'
  <1>1. PICK n \in Task : Resume(n)
    BY DEF Yield
  <1>2. context' = [context EXCEPT ![current_task] = sp]
    BY DEF Yield
  <1>3. /\ context'[current_task] = sp
        /\ \A t \in Task : t # current_task => context'[t] = context[t]
        /\ context' \in [Task -> Task \cup {Nobody, Ist}]
    BY <1>2 DEF IInv, TypeOK
  <1>4. ContextsOwn'
    <2>1. \A t \in Task : context'[t] \in {t, Ist}
      BY <1>3 DEF IInv, ContextsOwn
    <2>2. \A t \in raising : context'[t] = Ist
      BY <1>3 DEF IInv, ContextsOwn, TypeOK
    <2> QED
      BY <2>1, <2>2 DEF ContextsOwn
  <1>5. /\ current_task' = n /\ IntFlag' = TRUE
        /\ \/ phase' = "tail" /\ code' = code
           \/ phase' = "task" /\ code' = n /\ context'[n] # Ist
    BY <1>1, <1>4 DEF Resume, ContextsOwn
  <1>6. TypeOK'
    BY <1>3, <1>5 DEF IInv, TypeOK
  <1>7. HandlerRequested' /\ EoiProtocol' /\ DynamicStored'
    BY <1>5 DEF IInv, HandlerRequested, EoiProtocol, DynamicStored
  <1>8. ConsumedIsOver'
    <2> SUFFICES ASSUME NEW t \in raising, ~dynamic_interrupt
                 PROVE  frame # t /\ context'[t] = Ist /\ (phase' = "task" => code' # t)
      BY DEF ConsumedIsOver
    <2>1. t \in Task /\ frame # t /\ context[t] = Ist
      BY DEF IInv, ConsumedIsOver, TypeOK
    <2>2. context'[t] = Ist
      BY <2>1, <1>3
    <2> QED
      BY <2>1, <2>2, <1>5
  <1> QED
    BY <1>4, <1>6, <1>7, <1>8 DEF IInv
-----------------------------------------------------------------------------
\* The end of a handler: nothing is wrong with the request, and the tail runs.
LEMMA AcknowledgeIInv ==
    ASSUME IInv, panicked = "", phase = "handler", Acknowledge,
           UNCHANGED <<raising, irq_disable_counter>>,
           \/ dynamic_interrupt' = dynamic_interrupt
           \/ dynamic_interrupt' = FALSE /\ handling = DYNAMIC
    PROVE  IInv'
  <1>1. EoiError = ""
    BY DEF EoiError, IInv, HandlerRequested
  <1>2. /\ apic_eoi_required' = FALSE /\ apic_last_interrupt' = apic_last_interrupt
        /\ phase' = "tail"
        /\ current_task' = current_task /\ code' = code /\ frame' = frame
        /\ context' = context /\ IntFlag' = IntFlag /\ handling' = handling
        /\ panicked' = panicked
    BY <1>1 DEF Acknowledge, local_apic_eoi
  <1>3. TypeOK'
    BY <1>2 DEF IInv, TypeOK
  <1>4. HandlerRequested' /\ EoiProtocol' /\ DynamicStored'
    BY <1>2 DEF IInv, HandlerRequested, EoiProtocol, DynamicStored
  <1>5. ContextsOwn'
    BY <1>2 DEF IInv, ContextsOwn
  <1>6. ConsumedIsOver'
    <2> SUFFICES ASSUME NEW t \in raising, ~dynamic_interrupt'
                 PROVE  frame # t /\ context[t] = Ist
      BY <1>2 DEF ConsumedIsOver
    <2>1. CASE ~dynamic_interrupt
      BY <2>1 DEF IInv, ConsumedIsOver
    <2>2. CASE dynamic_interrupt
      <3>1. handling = DYNAMIC
        BY <2>2
      <3>2. frame \notin raising /\ current_task \notin raising
        BY <3>1 DEF IInv, DynamicStored
      <3> QED
        BY <3>2 DEF IInv, ContextsOwn
    <2> QED
      BY <2>1, <2>2
  <1> QED
    BY <1>3, <1>4, <1>5, <1>6 DEF IInv

LEMMA PreemptIInv ==
    ASSUME IInv, Preempt
    PROVE  IInv'
  <1>1. panicked = "" /\ phase = "handler" /\ handling = PIT_IRQ
    BY DEF Preempt, InHandler
  <1>2. EoiError = ""
    BY <1>1 DEF EoiError, IInv, HandlerRequested
  <1>3. /\ apic_eoi_required' = FALSE /\ apic_last_interrupt' = apic_last_interrupt
        /\ frame' = frame /\ handling' = handling /\ panicked' = panicked
        /\ raising' = raising /\ dynamic_interrupt' = dynamic_interrupt
        /\ irq_disable_counter' = irq_disable_counter
    BY <1>2 DEF Preempt, local_apic_eoi, rest
  <1>4. CASE irq_disable_counter
    <2>1. /\ phase' = "tail" /\ IntFlag' = TRUE /\ current_task' = current_task
          /\ code' = code /\ context' = context
      BY <1>2, <1>4 DEF Preempt
    <2>2. TypeOK'
      BY <1>3, <2>1 DEF IInv, TypeOK
    <2>3. HandlerRequested' /\ EoiProtocol' /\ DynamicStored'
      BY <1>3, <2>1 DEF IInv, HandlerRequested, EoiProtocol, DynamicStored
    <2>4. ContextsOwn' /\ ConsumedIsOver'
      BY <1>1, <1>3, <2>1 DEF IInv, ContextsOwn, ConsumedIsOver
    <2> QED
      BY <2>2, <2>3, <2>4 DEF IInv
  <1>5. CASE ~irq_disable_counter
    <2>1. Yield(Ist)
      BY <1>2, <1>5 DEF Preempt
    <2>2. Ist # code
      BY NameAssumption DEF IInv, TypeOK
    <2> QED
      BY <1>1, <1>3, <2>1, <2>2, YieldIInv
  <1> QED
    BY <1>4, <1>5

LEMMA IretIInv ==
    ASSUME IInv, Iret
    PROVE  IInv'
  <1>1. /\ panicked = "" /\ phase = "tail" /\ code' = frame /\ phase' = "task"
        /\ IntFlag' = TRUE /\ current_task' = current_task /\ frame' = frame
        /\ context' = context /\ apic_eoi_required' = apic_eoi_required
        /\ apic_last_interrupt' = apic_last_interrupt /\ handling' = handling
        /\ raising' = raising /\ dynamic_interrupt' = dynamic_interrupt
        /\ irq_disable_counter' = irq_disable_counter /\ panicked' = panicked
    BY DEF Iret, apic, rest
  <1>2. TypeOK'
    BY <1>1 DEF IInv, TypeOK
  <1>3. HandlerRequested' /\ EoiProtocol' /\ DynamicStored'
    BY <1>1 DEF IInv, HandlerRequested, EoiProtocol, DynamicStored
  <1>4. ContextsOwn' /\ ConsumedIsOver'
    BY <1>1 DEF IInv, ContextsOwn, ConsumedIsOver
  <1> QED
    BY <1>2, <1>3, <1>4 DEF IInv

\* Every step keeps the invariant.
LEMMA NextIInv ==
    ASSUME IInv, [Next]_vars
    PROVE  IInv'
  <1>1. CASE Interrupt(PIT_IRQ) \/ Interrupt(COM_IRQ)
    BY <1>1, InterruptIInv
  <1>2. CASE raise_interrupt \/ lock_scheduler
    BY <1>2, TaskIInv
  <1>3. CASE RaiseInt
    BY <1>3, RaiseIntIInv
  <1>4. CASE yield
    <2>1. /\ panicked = "" /\ phase = "task" /\ code = current_task /\ code \notin raising
          /\ ~apic_eoi_required
      BY <1>4 DEF yield, InTask, Alive, IInv, HandlerRequested
    <2>2. Yield(code) /\ UNCHANGED <<frame, apic, handling, rest, panicked>>
      BY <1>4, <2>1 DEF yield
    <2>3. apic_eoi_required' = FALSE
      BY <2>1, <2>2 DEF apic, IInv, TypeOK
    <2> QED
      BY <2>1, <2>2, <2>3, YieldIInv DEF apic, rest
  <1>5. CASE DeviceHandler
    BY <1>5, AcknowledgeIInv DEF DeviceHandler, InHandler, rest
  <1>6. CASE Preempt
    BY <1>6, PreemptIInv
  <1>7. CASE ComOverflow
    <2>1. apic_eoi_required
      BY <1>7 DEF ComOverflow, InHandler, IInv, HandlerRequested
    <2>2. panicked' = "EOI already requested" /\ UNCHANGED <<current_task, code, frame,
             context, phase, IntFlag, apic, handling, raising, irq_disable_counter>>
      BY <1>7, <2>1 DEF ComOverflow, Enter, panic
    <2>3. dynamic_interrupt' = TRUE
      BY <1>7 DEF ComOverflow
    <2> QED
      BY <2>2, <2>3 DEF IInv, apic, TypeOK, HandlerRequested, EoiProtocol, Panics
  <1>8. CASE DynamicHandler
    <2>1. panicked = "" /\ phase = "handler" /\ handling = DYNAMIC
      BY <1>8 DEF DynamicHandler, InHandler
    <2>2. dynamic_interrupt
      BY <2>1 DEF IInv, DynamicStored
    <2>3. /\ dynamic_interrupt' = FALSE /\ Acknowledge
          /\ UNCHANGED <<raising, irq_disable_counter>>
      BY <1>8, <2>2 DEF DynamicHandler
    <2> QED
      BY <2>1, <2>3, AcknowledgeIInv
  <1>9. CASE Iret
    BY <1>9, IretIInv
  <1>10. CASE UNCHANGED vars
    BY <1>10 DEF vars, apic, rest, IInv, TypeOK, HandlerRequested, EoiProtocol, ContextsOwn,
       DynamicStored, ConsumedIsOver
  <1> QED
    BY <1>1, <1>2, <1>3, <1>4, <1>5, <1>6, <1>7, <1>8, <1>9, <1>10 DEF Next
-----------------------------------------------------------------------------
\* The inductive invariant holds in every state.
THEOREM Invariance == Spec => []IInv
  BY InitIInv, NextIInv, PTL DEF Spec

\* The variables of the interrupt path and of newctxswtch keep their types.
THEOREM TypeCorrect == Spec => []TypeOK
  <1>1. IInv => TypeOK
    BY DEF IInv
  <1> QED
    BY <1>1, Invariance, PTL

\* global_interrupt_handler acknowledges each interrupt once, before yield gives
\* the CPU away.
THEOREM OneAcknowledgement == Spec => []EoiBalanced
  <1>1. IInv => EoiBalanced
    BY DEF IInv, HandlerRequested, EoiBalanced
  <1> QED
    BY <1>1, Invariance, PTL

\* No acknowledgement is missing or wrong, none is pending when the CPU changes
\* hands, and a raised interrupt finds its vector.
THEOREM ProtocolKept == Spec => []EoiProtocol
  <1>1. IInv => EoiProtocol
    BY DEF IInv
  <1> QED
    BY <1>1, Invariance, PTL
=============================================================================
