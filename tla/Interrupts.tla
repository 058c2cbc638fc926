----------------------------- MODULE Interrupts -----------------------------
(***************************************************************************)
(* Interrupt dispatch and the machine-level context switch:                *)
(* global_interrupt_handler of io/interrupts.c, the entry code of          *)
(* arch/interrupts.asm, the end-of-interrupt bookkeeping of                *)
(* devices/apic/apic.c, yield of sched/scheduler.c and newctxswtch of      *)
(* arch/context.asm.                                                       *)
(*                                                                         *)
(* Every gate of the IDT switches to the same interrupt stack (IST 1), so  *)
(* at most one interrupt frame exists: entering a handler overwrites it.   *)
(* The module follows whose instructions the CPU really executes.  With    *)
(* interrupts off a handler cannot be split, so from entry to its end it   *)
(* is two steps.  Which task schedule() picks, and which ticks preempt or  *)
(* wake, is the module Scheduler's business and free here.                 *)
(***************************************************************************)
EXTENDS Naturals

CONSTANTS
    Task,
    Nobody,      \* nobody's code: the CPU executes a corrupted frame
    Ist,         \* the interrupt stack
    PIT_IRQ,     \* the timer's vector
    COM_IRQ,     \* a serial port's vector
    DYNAMIC,     \* DYNAMIC_HANDLER, the vector of raise_interrupt
    Overflow     \* BOOLEAN: the serial input buffer may fill up

Vector == {PIT_IRQ, COM_IRQ, DYNAMIC}

ASSUME NameAssumption ==
    /\ Nobody \notin Task /\ Ist \notin Task \cup {Nobody}
    /\ PIT_IRQ # COM_IRQ /\ DYNAMIC \notin {PIT_IRQ, COM_IRQ}
    /\ Overflow \in BOOLEAN

VARIABLES
    current_task,
    code,        \* the task whose instructions run outside handlers
    frame,       \* the task whose interrupted state is on the IST stack
    context,     \* whose stack task->context's rsp points into
    phase,       \* "task", "handler", or "tail": from EOI to iretq
    IntFlag,     \* the interrupt flag
    apic_eoi_required,
    apic_last_interrupt,
    handling,    \* ctx->interrupt_number of the handler that runs
    raising,     \* tasks between the two steps of raise_interrupt
    dynamic_interrupt,    \* a vector is stored for DYNAMIC_HANDLER
    irq_disable_counter,  \* the scheduler is locked
    panicked

apic == <<apic_eoi_required, apic_last_interrupt>>
rest == <<raising, dynamic_interrupt, irq_disable_counter>>
vars == <<current_task, code, frame, context, phase, IntFlag, apic, handling,
          rest, panicked>>

Panics == {"", "EOI already requested", "No EOI was requested",
           "Invalid EOI request", "EOI pending", "Invalid dynamic interrupt"}

TypeOK ==
    /\ current_task \in Task
    /\ code \in Task \cup {Nobody}
    /\ frame \in Task \cup {Nobody}
    /\ context \in [Task -> Task \cup {Nobody, Ist}]
    /\ phase \in {"task", "handler", "tail"}
    /\ IntFlag \in BOOLEAN
    /\ apic_eoi_required \in BOOLEAN
    /\ apic_last_interrupt \in Vector
    /\ handling \in Vector
    /\ raising \subseteq Task
    /\ dynamic_interrupt \in BOOLEAN
    /\ irq_disable_counter \in BOOLEAN
    /\ panicked \in Panics

Init ==
    /\ current_task \in Task
    /\ code = current_task
    /\ frame = Nobody
    /\ context = [t \in Task |-> t]
    /\ phase = "task"
    /\ IntFlag = TRUE
    /\ apic_eoi_required = FALSE
    /\ apic_last_interrupt = PIT_IRQ
    /\ handling = PIT_IRQ
    /\ raising = {}
    /\ dynamic_interrupt = FALSE
    /\ irq_disable_counter = FALSE
    /\ panicked = ""
-----------------------------------------------------------------------------
\* The kernel has not stopped, and no task runs on another one's frame: what
\* happens after that is not followed.
Alive == panicked = "" /\ (phase = "task" => code = current_task)

\* The code of a task runs, outside raise_interrupt.
InTask == Alive /\ phase = "task" /\ code \notin raising

panic(why) ==
    /\ panicked' = why
    /\ UNCHANGED <<current_task, code, frame, context, phase, IntFlag, apic,
                   handling, rest>>

\* Entry through the gate of vector v: the frame goes to the IST stack over the
\* one that is there, even if that one is still in use, and
\* notify_eoi_required is called.
Enter(v) ==
    \/ /\ apic_eoi_required
       /\ panic("EOI already requested")
    \/ /\ ~apic_eoi_required
       /\ frame' = IF phase = "task" THEN code ELSE Nobody
       /\ phase' = "handler"
       /\ IntFlag' = FALSE
       /\ apic_eoi_required' = TRUE
       /\ apic_last_interrupt' = v
       /\ handling' = v
       /\ UNCHANGED <<current_task, code, context, panicked>>

\* A device interrupts the code that runs with interrupts on.
Interrupt(v) ==
    /\ Alive /\ IntFlag
    /\ Enter(v)
    /\ UNCHANGED rest

\* raise_interrupt: the vector is stored ...
raise_interrupt ==
    /\ InTask
    /\ dynamic_interrupt' = TRUE
    /\ raising' = raising \cup {code}
    /\ UNCHANGED <<current_task, code, frame, context, phase, IntFlag, apic,
                   handling, irq_disable_counter, panicked>>

\* ... and the int instruction executed.
RaiseInt ==
    /\ Alive /\ phase = "task" /\ code \in raising
    /\ Enter(DYNAMIC)
    /\ raising' = raising \ {code}
    /\ UNCHANGED <<dynamic_interrupt, irq_disable_counter>>

lock_scheduler ==
    /\ InTask
    /\ irq_disable_counter' \in BOOLEAN
    /\ UNCHANGED <<current_task, code, frame, context, phase, IntFlag, apic,
                   handling, raising, dynamic_interrupt, panicked>>
-----------------------------------------------------------------------------
\* newctxswtch to task n, with interrupts enabled: a context that was saved in
\* an interrupt handler continues in that handler's tail, on whatever frame the
\* IST stack holds now.
Resume(n) ==
    /\ current_task' = n
    /\ IntFlag' = TRUE
    /\ IF context'[n] = Ist THEN phase' = "tail" /\ UNCHANGED code
                            ELSE phase' = "task" /\ code' = context'[n]

\* yield: the context of the current task is saved, its stack pointer in sp,
\* and another task's is loaded.
Yield(sp) ==
    /\ context' = [context EXCEPT ![current_task] = sp]
    /\ \E n \in Task : Resume(n)

\* A task calls yield.
yield ==
    /\ InTask
    /\ ~irq_disable_counter
    /\ IF apic_eoi_required THEN panic("EOI pending")
       ELSE /\ Yield(code)
            /\ UNCHANGED <<frame, apic, handling, rest, panicked>>
-----------------------------------------------------------------------------
\* Fault: the request stays pending.
local_apic_eoi_none == UNCHANGED apic

local_apic_eoi ==
    /\ apic_eoi_required' = FALSE
    /\ UNCHANGED apic_last_interrupt

EoiError == IF ~apic_eoi_required THEN "No EOI was requested"
            ELSE IF handling # apic_last_interrupt THEN "Invalid EOI request"
            ELSE ""

InHandler(v) == phase = "handler" /\ panicked = "" /\ handling = v

\* The end of global_interrupt_handler when it neither preempts nor fails.
Acknowledge ==
    IF EoiError # "" THEN panic(EoiError)
    ELSE /\ local_apic_eoi
         /\ phase' = "tail"
         /\ UNCHANGED <<current_task, code, frame, context, IntFlag, handling, panicked>>

\* The timer, with or without a call of wakeup, and the serial port.
DeviceHandler ==
    /\ InHandler(PIT_IRQ) \/ InHandler(COM_IRQ)
    /\ Acknowledge
    /\ UNCHANGED rest

\* Fault: yield before local_apic_eoi.
Preempt_early ==
    /\ InHandler(PIT_IRQ)
    /\ IF irq_disable_counter THEN Acknowledge /\ UNCHANGED rest
                              ELSE panic("EOI pending")

\* A timer tick that preempts: acknowledged first, then yield on the IST
\* stack.  With the scheduler locked yield enables interrupts and returns.
Preempt ==
    /\ InHandler(PIT_IRQ)
    /\ IF EoiError # "" THEN panic(EoiError)
       ELSE /\ local_apic_eoi
            /\ IF irq_disable_counter
               THEN /\ phase' = "tail"
                    /\ IntFlag' = TRUE
                    /\ UNCHANGED <<current_task, code, context>>
               ELSE Yield(Ist)
            /\ UNCHANGED <<frame, handling, rest, panicked>>

\* COMx_HANDLER finds the input buffer full: write_inb raises the overflow
\* interrupt inside the handler.
ComOverflow ==
    /\ Overflow
    /\ InHandler(COM_IRQ)
    /\ Enter(DYNAMIC)
    /\ dynamic_interrupt' = TRUE
    /\ UNCHANGED <<raising, irq_disable_counter>>

\* global_interrupt_handler for DYNAMIC_HANDLER.
DynamicHandler ==
    /\ InHandler(DYNAMIC)
    /\ IF ~dynamic_interrupt THEN panic("Invalid dynamic interrupt")
       ELSE /\ dynamic_interrupt' = FALSE
            /\ Acknowledge
            /\ UNCHANGED <<raising, irq_disable_counter>>

\* iretq: the code of the frame continues.
Iret ==
    /\ phase = "tail" /\ panicked = ""
    /\ code' = frame
    /\ phase' = "task"
    /\ IntFlag' = TRUE
    /\ UNCHANGED <<current_task, frame, context, apic, handling, rest, panicked>>

Next ==
    \/ Interrupt(PIT_IRQ) \/ Interrupt(COM_IRQ)
    \/ raise_interrupt \/ RaiseInt \/ lock_scheduler \/ yield
    \/ DeviceHandler \/ Preempt \/ ComOverflow \/ DynamicHandler \/ Iret

Spec == Init /\ [][Next]_vars
-----------------------------------------------------------------------------
\* Exactly one interrupt is unacknowledged while a handler runs, none while
\* task code or the tail of a handler runs: every path through
\* global_interrupt_handler acknowledges once, before yield gives the CPU away.
EoiBalanced == panicked = "" => (apic_eoi_required <=> phase = "handler")

\* Of the panics that guard the protocol of interrupts only the one for an
\* interrupt raised inside a handler can be met.
EoiProtocol == panicked \in {"", "EOI already requested"}

\* The task that schedule() chose "must enter cpu": outside handlers the code
\* that runs is no other task's.
RunsItself == phase = "task" /\ code # Nobody => code = current_task

\* A full serial buffer costs its contents ("Buffered input from serial device
\* will be lost") and nothing else.
OverflowDiscards == panicked # "EOI already requested"
=============================================================================
