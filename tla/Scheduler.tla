----------------------------- MODULE Scheduler -----------------------------
(***************************************************************************)
(* The preemptive round-robin scheduler: sched/scheduler.c, the sleep      *)
(* lines of sched/sline.c and the PIT dispatch of io/interrupts.c and      *)
(* sched/pit.c, on the one CPU the kernel schedules.                       *)
(*                                                                         *)
(* A step is a piece of kernel code that no other task can split: code     *)
(* between lock_scheduler and unlock_scheduler may be interrupted by the   *)
(* PIT but not descheduled, so a locked operation is two steps, taking the *)
(* lock and doing the work, with any number of PIT ticks between them.     *)
(* The spinlocks and the machine-level switch have modules of their own    *)
(* (SpinLock, Interrupts); here a context switch is an assignment to       *)
(* current_task.                                                           *)
(***************************************************************************)
EXTENDS Integers, Sequences, FiniteSets

CONSTANTS
    Task,          \* the task structures that may ever be allocated
    Idle,          \* the idle task, created by init_scheduler
    NoTask,        \* the null pointer
    Signal,        \* signal numbers used with add_signal
    PreemptTicks,  \* argument of go(): pit.preemption_ticks
    WakeupTicks,   \* pit.wakeup_ticks, set by init_sline
    SleepTicks,    \* durations tasks pass to _tsleep
    KillPids,      \* process identifiers passed to kill_task
    Pausable,      \* tasks that block_task/unblock_task/pause_task/resume_task
                   \* and remove_task are applied to
    MaxSignals     \* bound: signals queued for one task

ASSUME TaskAssumption == Idle \in Task /\ NoTask \notin Task
ASSUME TickAssumption == /\ PreemptTicks \in Nat \ {0}
                         /\ WakeupTicks \in Nat \ {0}
                         /\ SleepTicks \subseteq Nat \ {0}
ASSUME InputAssumption == /\ Pausable \subseteq Task \ {Idle}
                          /\ KillPids \subseteq Nat
                          /\ MaxSignals \in Nat

VARIABLES
    tasks,               \* the list from task_head, in ->next order
    state,               \* task->state; "FREE": not allocated yet
    pid,                 \* task->pid
    signal_queue,        \* task->signal_queue, oldest first
    current_task,
    irq_disable_counter, \* lock_scheduler nesting
    scheduler_ready,
    sleep_time_queue,    \* entries of sleep_time_queue_head
    wakeup_phase,        \* pit.timer_ticks % pit.wakeup_ticks
    preempt_phase,       \* pit.timer_ticks % pit.preemption_ticks
    pc,                  \* what each task does when it next runs
    fresh,               \* the task it created and has not added yet
    panicked

clock == <<wakeup_phase, preempt_phase>>
taskVars == <<tasks, pid, signal_queue>>
vars == <<tasks, state, pid, signal_queue, current_task, irq_disable_counter,
          scheduler_ready, sleep_time_queue, wakeup_phase, preempt_phase, pc,
          fresh, panicked>>

State == {"EXECUTING", "READY", "STOPPED", "UNINTERRUPTIBLE", "INTERRUPTIBLE",
          "ZOMBIE", "FREE", "IDLE"}

\* "locked": inside lock_scheduler; "slept": between _tsleep and the yield of
\* the TSLEEP macro; "created": between create_task and add_task.
Pc == {"run", "locked", "slept", "created"}

\* started_at and the clock are only ever subtracted: an entry keeps the
\* difference.
SleepEntry == [task : Task, elapsed : Nat, expires_in : SleepTicks]

TypeOK ==
    /\ tasks \in Seq(Task)
    /\ state \in [Task -> State]
    /\ pid \in [Task -> Nat]
    /\ signal_queue \in [Task -> Seq(Signal)]
    /\ current_task \in Task
    /\ irq_disable_counter \in 0..1
    /\ scheduler_ready \in BOOLEAN
    /\ sleep_time_queue \subseteq SleepEntry
    /\ wakeup_phase \in 0..(WakeupTicks - 1)
    /\ preempt_phase \in 0..(PreemptTicks - 1)
    /\ pc \in [Task -> Pc]
    /\ fresh \in [Task -> Task \cup {NoTask}]
    /\ panicked \in BOOLEAN
-----------------------------------------------------------------------------
Listed == {tasks[i] : i \in DOMAIN tasks}

IndexOf(t) == CHOOSE i \in DOMAIN tasks : tasks[i] = t

Runnable(t) == state[t] \in {"READY", "EXECUTING"}

\* Fault: the walk starts at task_head instead of after the running task.
AheadFromHead(k) == tasks[k]

\* The k-th task met when walking ->next from the running one, wrapping to
\* task_head.
Ahead(k) ==
    LET at == IndexOf(current_task) + k
    IN  tasks[IF at > Len(tasks) THEN at - Len(tasks) ELSE at]

\* The walk of schedule() stops after k hops: at the first runnable task after
\* the running one, which is looked at last itself.
FirstRunnable(k) ==
    /\ Runnable(Ahead(k))
    /\ \A j \in 1..(k - 1) : ~Runnable(Ahead(j))

NoneRunnable == \A k \in 1..Len(tasks) : ~Runnable(Ahead(k))

\* Fault: the task that leaves the CPU keeps its TASK_EXECUTING mark.
SwitchedStateNoDemotion(next) ==
    IF state[next] = "READY" THEN [state EXCEPT ![next] = "EXECUTING"] ELSE state

\* The states after schedule() left task `next` current.
SwitchedState(next) ==
    LET left == IF state[current_task] = "EXECUTING"
                THEN [state EXCEPT ![current_task] = "READY"] ELSE state
    IN  IF left[next] = "READY" THEN [left EXCEPT ![next] = "EXECUTING"] ELSE left

SwitchTo(next) ==
    /\ current_task' = next
    /\ state' = SwitchedState(next)
    /\ UNCHANGED panicked

\* With nothing runnable the list head is next, which must be the idle task.
schedule ==
    \/ \E k \in 1..Len(tasks) : FirstRunnable(k) /\ SwitchTo(Ahead(k))
    \/ NoneRunnable /\ state[tasks[1]] = "IDLE" /\ SwitchTo(tasks[1])
    \/ /\ NoneRunnable
       /\ state[tasks[1]] # "IDLE"
       /\ panicked' = TRUE
       /\ UNCHANGED <<state, current_task>>

\* Fault: the head of the queue is handled but not unlinked.
process_signals_keep == UNCHANGED signal_queue

\* One signal of the task about to run is taken off its queue (and its
\* handler, if any, called).
process_signals ==
    signal_queue' =
        IF signal_queue[current_task'] = <<>> THEN signal_queue
        ELSE [signal_queue EXCEPT ![current_task'] = Tail(@)]

yield ==
    IF irq_disable_counter # 0 \/ ~scheduler_ready
    THEN UNCHANGED <<state, current_task, panicked, signal_queue>>
    ELSE schedule /\ process_signals
-----------------------------------------------------------------------------
Init ==
    /\ tasks = <<Idle>>
    /\ state = [t \in Task |-> IF t = Idle THEN "IDLE" ELSE "FREE"]
    /\ pid = [t \in Task |-> 0]
    /\ signal_queue = [t \in Task |-> <<>>]
    /\ current_task = Idle
    /\ irq_disable_counter = 0
    /\ scheduler_ready = FALSE
    /\ sleep_time_queue = {}
    /\ wakeup_phase = 0
    /\ preempt_phase = 0
    /\ pc = [t \in Task |-> "run"]
    /\ fresh = [t \in Task |-> NoTask]
    /\ panicked = FALSE

\* Code of the running task: the idle task only halts; before go() the boot
\* code runs with the idle task as current_task.
Executes(label) ==
    /\ ~panicked
    /\ scheduler_ready => current_task # Idle
    /\ pc[current_task] = label

Goto(label) == pc' = [pc EXCEPT ![current_task] = label]

lock_scheduler ==
    /\ Executes("run")
    /\ scheduler_ready \/ \E t \in Task : state[t] = "FREE"
    /\ irq_disable_counter' = irq_disable_counter + 1
    /\ Goto("locked")
    /\ UNCHANGED <<taskVars, state, current_task, scheduler_ready,
                   sleep_time_queue, clock, fresh, panicked>>

\* Fault: an unlock is forgotten.
unlock_scheduler_missing(label) ==
    /\ Goto(label)
    /\ UNCHANGED <<irq_disable_counter, scheduler_ready, sleep_time_queue, clock,
                   panicked>>

unlock_scheduler(label) ==
    /\ irq_disable_counter' = irq_disable_counter - 1
    /\ Goto(label)
    /\ UNCHANGED <<scheduler_ready, sleep_time_queue, clock, panicked>>

\* A task a locked operation of a running task finds in the list.
LockedBy == Executes("locked") /\ scheduler_ready

\* The smallest positive identifier that no task of the list has.
get_free_pid(p) ==
    /\ \A t \in Listed : pid[t] # p
    /\ \A q \in 1..(p - 1) : \E t \in Listed : pid[t] = q

create_task ==
    /\ Executes("locked")
    /\ \E t \in Task, p \in 1..(Len(tasks) + 1) :
          /\ state[t] = "FREE"
          /\ get_free_pid(p)
          /\ state' = [state EXCEPT ![t] = "READY"]
          /\ pid' = [pid EXCEPT ![t] = p]
          /\ fresh' = [fresh EXCEPT ![current_task] = t]
    /\ unlock_scheduler("created")
    /\ UNCHANGED <<tasks, signal_queue, current_task>>

\* Fault: the new task is linked in front of task_head.
add_task_head ==
    /\ Executes("created")
    /\ tasks' = <<fresh[current_task]>> \o tasks
    /\ fresh' = [fresh EXCEPT ![current_task] = NoTask]
    /\ Goto("run")
    /\ UNCHANGED <<state, pid, signal_queue, current_task, irq_disable_counter,
                   scheduler_ready, sleep_time_queue, clock, panicked>>

add_task ==
    /\ Executes("created")
    /\ tasks' = Append(tasks, fresh[current_task])
    /\ fresh' = [fresh EXCEPT ![current_task] = NoTask]
    /\ Goto("run")
    /\ UNCHANGED <<state, pid, signal_queue, current_task,
                   irq_disable_counter, scheduler_ready, sleep_time_queue,
                   clock, panicked>>

\* Fault: the successor is unlinked instead of the task.
remove_task_next ==
    /\ LockedBy
    /\ \E i \in 2..Len(tasks) :
          /\ tasks[i] \in Pausable \ {current_task}
          /\ tasks' = [j \in 1..(Len(tasks) - 1) |->
                          IF j <= i THEN tasks[j] ELSE tasks[j + 1]]
    /\ unlock_scheduler("run")
    /\ UNCHANGED <<state, pid, signal_queue, current_task, fresh>>

\* Nothing in the kernel removes a task yet; a caller may not unlink the
\* running task, whose ->next the scheduler is about to follow.
remove_task ==
    /\ LockedBy
    /\ \E i \in 2..Len(tasks) :
          /\ tasks[i] \in Pausable \ {current_task}
          /\ tasks' = [j \in 1..(Len(tasks) - 1) |->
                          IF j < i THEN tasks[j] ELSE tasks[j + 1]]
    /\ unlock_scheduler("run")
    /\ UNCHANGED <<state, pid, signal_queue, current_task, fresh>>

\* get_task(): the first task of the list with that identifier.
Named(p, t) ==
    \E i \in DOMAIN tasks :
        /\ t = tasks[i]
        /\ pid[t] = p
        /\ \A j \in 1..(i - 1) : pid[tasks[j]] # p

\* A locked operation that only stores a state into one task.
SetState(t, s) ==
    /\ state' = [state EXCEPT ![t] = s]
    /\ unlock_scheduler("run")
    /\ UNCHANGED <<taskVars, current_task, fresh>>

kill_task ==
    /\ LockedBy
    /\ \E p \in KillPids, t \in Task : Named(p, t) /\ SetState(t, "ZOMBIE")

exit == LockedBy /\ SetState(current_task, "ZOMBIE")

\* block_task and unblock_task call yield() before unlock_scheduler(), so that
\* yield() returns at once.
block_task ==
    /\ LockedBy
    /\ current_task \in Pausable
    /\ \E reason \in {"STOPPED", "INTERRUPTIBLE"} : SetState(current_task, reason)

unblock_task == LockedBy /\ \E t \in Pausable \cap Listed : SetState(t, "READY")

pause_task == LockedBy /\ \E t \in Pausable \cap Listed : SetState(t, "UNINTERRUPTIBLE")

resume_task == LockedBy /\ \E t \in Pausable \cap Listed : SetState(t, "READY")

\* get_task, get_status and the tty setters only look things up or store
\* what no other operation here reads.
get_task ==
    /\ LockedBy
    /\ unlock_scheduler("run")
    /\ UNCHANGED <<taskVars, state, current_task, fresh>>

\* Called from device callbacks, inside an interrupt: it locks and unlocks
\* around whatever the interrupted task holds.
add_signal ==
    /\ ~panicked
    /\ scheduler_ready
    /\ \E s \in Signal, t \in Listed :
          /\ Named(pid[t], t)
          /\ Len(signal_queue[t]) < MaxSignals
          /\ signal_queue' = [signal_queue EXCEPT ![t] = Append(@, s)]
    /\ UNCHANGED <<tasks, state, pid, current_task,
                   irq_disable_counter, scheduler_ready, sleep_time_queue,
                   clock, pc, fresh, panicked>>

go ==
    /\ ~scheduler_ready
    /\ Executes("run")
    /\ schedule
    /\ scheduler_ready' = TRUE
    /\ UNCHANGED <<taskVars, irq_disable_counter, sleep_time_queue, clock,
                   pc, fresh>>

\* Fault: the task is marked asleep but no entry is queued.
_tsleep_no_entry ==
    /\ scheduler_ready
    /\ Executes("run")
    /\ SleepTicks # {}
    /\ state' = [state EXCEPT ![current_task] = "UNINTERRUPTIBLE"]
    /\ Goto("slept")
    /\ UNCHANGED <<taskVars, current_task, irq_disable_counter, scheduler_ready,
                   sleep_time_queue, clock, fresh, panicked>>

\* The first half of TSLEEP(ticks).
_tsleep ==
    /\ scheduler_ready
    /\ Executes("run")
    /\ \E ticks \in SleepTicks :
          sleep_time_queue' = sleep_time_queue \cup
              {[task |-> current_task, elapsed |-> 0, expires_in |-> ticks]}
    /\ state' = [state EXCEPT ![current_task] = "UNINTERRUPTIBLE"]
    /\ Goto("slept")
    /\ UNCHANGED <<taskVars, current_task, irq_disable_counter, scheduler_ready,
                   clock, fresh, panicked>>

\* The yield() that ends TSLEEP, or a voluntary one (sched_yield, the shells).
task_yield ==
    /\ scheduler_ready
    /\ Executes("run") \/ Executes("slept")
    /\ yield
    /\ Goto("run")
    /\ UNCHANGED <<tasks, pid, irq_disable_counter,
                   scheduler_ready, sleep_time_queue, clock, fresh>>
-----------------------------------------------------------------------------
requires_wakeup == wakeup_phase' = 0

requires_preemption == preempt_phase' = 0

Older(e) == [e EXCEPT !.elapsed = @ + 1]

\* Fault: one tick late.
ExpiredLate(e) == e.elapsed > e.expires_in

\* Fault: one tick early.
ExpiredEarly(e) == e.elapsed + 1 >= e.expires_in

Expired(e) == e.elapsed >= e.expires_in

\* Fault: the sleeper is made ready whatever its state has become.
wakeup_handler_unchecked ==
    LET entries == {Older(e) : e \in sleep_time_queue}
        woken == {e.task : e \in {x \in entries : Expired(x)}}
    IN  /\ sleep_time_queue' = {e \in entries : ~Expired(e)}
        /\ state' = [t \in Task |-> IF t \in woken THEN "READY" ELSE state[t]]

\* Fault: the entry is dropped but its task is looked for in another state.
wakeup_handler_lost ==
    LET entries == {Older(e) : e \in sleep_time_queue}
    IN  /\ sleep_time_queue' = {e \in entries : ~Expired(e)}
        /\ UNCHANGED state

\* Every expired entry leaves the queue; its task becomes ready unless
\* somebody else changed its state while it slept.
wakeup_handler ==
    LET entries == {Older(e) : e \in sleep_time_queue}
        woken == {e.task : e \in {x \in entries : Expired(x)}}
    IN  /\ sleep_time_queue' = {e \in entries : ~Expired(e)}
        /\ state' = [t \in Task |->
                        IF t \in woken /\ state[t] = "UNINTERRUPTIBLE"
                        THEN "READY" ELSE state[t]]

\* tick() moves the clock on.
tick ==
    /\ ~panicked
    /\ wakeup_phase' = IF wakeup_phase + 1 = WakeupTicks THEN 0 ELSE wakeup_phase + 1
    /\ preempt_phase' = IF preempt_phase + 1 = PreemptTicks THEN 0 ELSE preempt_phase + 1

\* The rest of the PIT interrupt leaves these alone.
PitFrame == UNCHANGED <<tasks, pid, irq_disable_counter,
                        scheduler_ready, pc, fresh>>

\* A PIT interrupt wakes sleepers, or else preempts, or else only counts.
PitWakeup ==
    /\ tick
    /\ requires_wakeup
    /\ wakeup_handler
    /\ UNCHANGED <<current_task, panicked, signal_queue>>
    /\ PitFrame

PitPreempt ==
    /\ tick
    /\ ~requires_wakeup
    /\ requires_preemption
    /\ yield
    /\ sleep_time_queue' = {Older(e) : e \in sleep_time_queue}
    /\ PitFrame

PitCount ==
    /\ tick
    /\ ~requires_wakeup
    /\ ~requires_preemption
    /\ sleep_time_queue' = {Older(e) : e \in sleep_time_queue}
    /\ UNCHANGED <<state, current_task, panicked, signal_queue>>
    /\ PitFrame

PitInterrupt == PitWakeup \/ PitPreempt \/ PitCount
-----------------------------------------------------------------------------
Next ==
    \/ lock_scheduler \/ create_task \/ add_task \/ remove_task
    \/ kill_task \/ exit \/ block_task \/ unblock_task \/ pause_task \/ resume_task
    \/ get_task \/ add_signal \/ go \/ _tsleep \/ task_yield
    \/ PitInterrupt

Spec == Init /\ [][Next]_vars
-----------------------------------------------------------------------------
(* Safety *)

\* schedule() falls back to task_head and panics unless the idle task is
\* there, still in state TASK_IDLE: no operation may unlink, displace or
\* restate it.
IdleAtHead == /\ Len(tasks) > 0
              /\ tasks[1] = Idle
              /\ state[Idle] = "IDLE"

\* schedule() never reaches its panic "Idle task is not valid or at head".
NoPanic == ~panicked

\* Only the running task is marked TASK_EXECUTING: schedule() accepts both
\* READY and EXECUTING tasks, so a stale mark would survive unnoticed.
OnlyCurrentExecutes == \A t \in Task : state[t] = "EXECUTING" => t = current_task

\* The list holds no task twice and always holds the running one, so that the
\* walk of schedule(), which stops when it is back where it began, ends; no
\* task is reachable both through the list and as a task still to be added.
ListIntegrity ==
    /\ \A i, j \in DOMAIN tasks : tasks[i] = tasks[j] => i = j
    /\ current_task \in Listed
    /\ \A t \in Task : fresh[t] # NoTask =>
          /\ fresh[t] \notin Listed
          /\ state[fresh[t]] # "FREE"
          /\ \A u \in Task \ {t} : fresh[u] # fresh[t]

\* lock_scheduler is balanced: the counter is up exactly while the running
\* task is inside a locked operation, whoever was preempted in between.
LockBalanced ==
    /\ irq_disable_counter = IF pc[current_task] = "locked" THEN 1 ELSE 0
    /\ \A t \in Task \ {current_task} : pc[t] # "locked"

\* Sleepers are collected at the first wakeup call at or after their
\* deadline: the handler runs only every WakeupTicks ticks, and right after it
\* no entry is overdue.
TimelyWakeup ==
    \A e \in sleep_time_queue : e.elapsed < e.expires_in + wakeup_phase

\* A task that sleeps, and that nobody pauses, has exactly one timer running:
\* with none it would sleep forever, and a second one left over from an
\* earlier sleep would end a later sleep too soon.
OneTimerPerSleeper ==
    \A t \in Task \ Pausable :
        /\ state[t] = "UNINTERRUPTIBLE" =>
              \E e \in sleep_time_queue : e.task = t
        /\ \A e, f \in sleep_time_queue : e.task = t /\ f.task = t => e = f

\* get_free_pid() hands out an identifier no listed task has.
UniquePids == \A t, u \in Listed : pid[t] = pid[u] => t = u

(* Action properties *)

\* A zombie that is off the CPU neither changes state again nor is ever
\* scheduled: the timer of a task killed in its sleep must not revive it.
ZombieStaysDown ==
    [][\A t \in Task \ Pausable :
          state[t] = "ZOMBIE" /\ t # current_task =>
              state'[t] = "ZOMBIE" /\ current_task' # t]_vars

\* A sleeping task becomes ready only when the time it asked for has passed.
NoEarlyWakeup ==
    [][\A t \in Task \ Pausable :
          state[t] = "UNINTERRUPTIBLE" /\ state'[t] = "READY" =>
              \A e \in sleep_time_queue :
                  e.task = t => e.elapsed + 1 >= e.expires_in]_vars

\* exit() and kill_task() are final for every task.
ZombieIsFinal ==
    [][\A t \in Task \ Pausable : state[t] = "ZOMBIE" => state'[t] = "ZOMBIE"]_vars

\* With the scheduler unlocked and another task ready, every PreemptTicks-th
\* tick takes the CPU away from the running task.
PreemptsEveryPeriod ==
    [][/\ scheduler_ready
       /\ irq_disable_counter = 0
       /\ clock' # clock
       /\ preempt_phase' = 0
       /\ \E t \in Listed \ {current_task} : state[t] = "READY"
       => current_task' # current_task]_vars

\* With the scheduler unlocked and another task ready, a preempting tick takes
\* the CPU away from the running task unless the same tick is due to wake
\* sleepers.
PreemptsUnlessWaking ==
    [][/\ scheduler_ready
       /\ irq_disable_counter = 0
       /\ clock' # clock
       /\ preempt_phase' = 0
       /\ wakeup_phase' # 0
       /\ \E t \in Listed \ {current_task} : state[t] = "READY"
       => current_task' # current_task]_vars

\* A zombie comes back only by its own call of _tsleep, made between exit()
\* and the switch that takes the CPU away from it for good.
OnlySleepRevives ==
    [][\A t \in Task \ Pausable :
          state[t] = "ZOMBIE" /\ state'[t] # "ZOMBIE" =>
              t = current_task /\ pc[t] = "run" /\ state'[t] = "UNINTERRUPTIBLE"]_vars

\* No two tasks are between create_task and add_task at the same time.
OneCreator ==
    \A t, u \in Task : pc[t] = "created" /\ pc[u] = "created" => t = u
-----------------------------------------------------------------------------
(* Liveness.  PIT interrupts keep coming; locked operations and add_task end *)
(* and the boot code reaches go().  A preemption that falls inside a locked  *)
(* section is dropped, not deferred, so progress also needs that it is not   *)
(* always so: a section is far shorter than a tick, hence one open just      *)
(* before a preempting tick cannot outlast that tick every time.             *)

LockedOperation ==
    \/ create_task \/ remove_task \/ kill_task \/ exit \/ block_task
    \/ unblock_task \/ pause_task \/ resume_task \/ get_task

PreemptUnlocked == PitPreempt /\ irq_disable_counter = 0

LockedBeforePreempt ==
    /\ LockedOperation
    /\ preempt_phase + 1 = PreemptTicks
    /\ wakeup_phase + 1 # WakeupTicks

Fairness ==
    /\ WF_vars(PitInterrupt)
    /\ SF_vars(PreemptUnlocked)
    /\ WF_vars(LockedOperation)
    /\ SF_vars(LockedBeforePreempt)
    /\ WF_vars(add_task)
    /\ WF_vars(go)

FairSpec == Spec /\ Fairness

\* A ready task of the list gets the CPU (or is put in another state first),
\* even if the tasks ahead of it never yield.
NoStarvation ==
    \A t \in Task :
        (t \in Listed /\ state[t] = "READY") ~>
            (t = current_task \/ state[t] # "READY" \/ t \notin Listed)

\* Every sleep ends.
SleepEnds ==
    \A t \in Task \ Pausable :
        state[t] = "UNINTERRUPTIBLE" ~> state[t] # "UNINTERRUPTIBLE"

\* A signal queued for a task is taken off its queue unless the task stops
\* being runnable or unlisted: process_signals runs on each dispatch.
SignalsDrain ==
    \A t \in Task \ {Idle} :
        (signal_queue[t] # <<>> /\ t \in Listed) ~>
            (\/ Len(signal_queue[t]) < MaxSignals
             \/ state[t] = "ZOMBIE" \/ t \in Pausable)
=============================================================================
