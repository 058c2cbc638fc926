--------------------------- MODULE SchedulerProofs ---------------------------
(***************************************************************************)
(* Proofs about Scheduler for any set of tasks, any tick periods and any   *)
(* sleep durations.                                                        *)
(***************************************************************************)
EXTENDS Scheduler, TLAPS

\* A task holds a created-but-unlisted task exactly between create_task and
\* add_task.
FreshWhileCreating == \A t \in Task : pc[t] = "created" <=> fresh[t] # NoTask

\* What is listed has been allocated.
ListedAllocated == \A i \in DOMAIN tasks : state[tasks[i]] # "FREE"

\* The inductive invariant behind the safety theorems.
IInv ==
    /\ TypeOK
    /\ Len(tasks) > 0
    /\ ListIntegrity
    /\ LockBalanced
    /\ OnlyCurrentExecutes
    /\ FreshWhileCreating
    /\ ListedAllocated
-----------------------------------------------------------------------------
\* The walk of schedule() stays inside the list.
LEMMA AheadListed ==
    ASSUME TypeOK, current_task \in Listed, NEW k \in 1..Len(tasks)
    PROVE  Ahead(k) \in Listed
<1> DEFINE n == Len(tasks)
           here == IndexOf(current_task)
           j == IF here + k > n THEN here + k - n ELSE here + k
<1>1. n \in Nat /\ DOMAIN tasks = 1..n
  BY DEF TypeOK
<1>2. here \in 1..n
  BY <1>1 DEF IndexOf, Listed
<1>3. j \in 1..n
  BY <1>1, <1>2
<1>4. Ahead(k) = tasks[j]
  BY <1>1, <1>2 DEF Ahead
<1> QED
  BY <1>1, <1>3, <1>4 DEF Listed

\* Whatever schedule() does, the invariant survives: the next task is listed,
\* and the one that leaves the CPU loses its EXECUTING mark.
LEMMA SchedulePreserves ==
    ASSUME IInv, schedule, irq_disable_counter = 0,
           UNCHANGED <<tasks, pid, fresh, irq_disable_counter>>,
           pc' = pc \/ pc' = [pc EXCEPT ![current_task] = "run"],
           pc[current_task] # "created" \/ pc' = pc
    PROVE  /\ current_task' \in Listed'
           /\ state' \in [Task -> State]
           /\ current_task' \in Task
           /\ panicked' \in BOOLEAN
           /\ OnlyCurrentExecutes'
           /\ ListedAllocated'
           /\ LockBalanced'
           /\ FreshWhileCreating'
           /\ ListIntegrity'
<1> DEFINE n == Len(tasks)
<1>1. n \in Nat /\ DOMAIN tasks = 1..n /\ n > 0 /\ \A i \in 1..n : tasks[i] \in Task
  BY DEF IInv, TypeOK
<1>2. Listed' = Listed /\ Listed \subseteq Task /\ current_task \in Listed
  BY <1>1 DEF IInv, ListIntegrity, Listed
<1>3. ASSUME NEW t \in Listed, SwitchTo(t)
      PROVE  /\ current_task' = t
             /\ state' \in [Task -> State]
             /\ OnlyCurrentExecutes'
             /\ \A u \in Task : state[u] # "FREE" => state'[u] # "FREE"
             /\ \A u \in Task : state[u] = "FREE" => state'[u] = "FREE"
  BY ZenonT(30), <1>2, <1>3 DEF SwitchTo, SwitchedState, IInv, TypeOK, State, OnlyCurrentExecutes
<1>4. /\ current_task' \in Listed
      /\ state' \in [Task -> State]
      /\ OnlyCurrentExecutes'
      /\ \A u \in Task : state[u] # "FREE" => state'[u] # "FREE"
  <2>1. CASE \E k \in 1..n : FirstRunnable(k) /\ SwitchTo(Ahead(k))
    BY <2>1, <1>3, <1>2, AheadListed DEF IInv
  <2>2. CASE SwitchTo(tasks[1])
    BY <2>2, <1>3, <1>1 DEF Listed
  <2>3. CASE UNCHANGED <<state, current_task>>
    BY <2>3, <1>2 DEF IInv, OnlyCurrentExecutes, TypeOK
  <2> QED
    BY <2>1, <2>2, <2>3 DEF schedule
<1>5. panicked' \in BOOLEAN
  BY ZenonT(30) DEF schedule, SwitchTo, IInv, TypeOK
<1>6. \A t \in Task : pc[t] # "locked" /\ pc'[t] # "locked"
  BY <1>2 DEF IInv, TypeOK, LockBalanced
<1>7. LockBalanced'
  BY <1>6, <1>4, <1>2 DEF LockBalanced
<1>8. FreshWhileCreating'
  BY <1>2 DEF IInv, TypeOK, FreshWhileCreating
<1>9. ListIntegrity'
  BY <1>4, <1>2 DEF IInv, ListIntegrity, TypeOK
<1>10. ListedAllocated'
  BY <1>4, <1>1 DEF IInv, ListedAllocated
<1> QED
  BY <1>2, <1>4, <1>5, <1>7, <1>8, <1>9, <1>10

\* A locked operation that stores a state other than EXECUTING and FREE into
\* an allocated task preserves the invariant.
LEMMA SetStatePreserves ==
    ASSUME IInv, Executes("locked"), NEW t \in Task, state[t] # "FREE",
           NEW s \in State \ {"EXECUTING", "FREE"}, SetState(t, s)
    PROVE  IInv'
<1>1. /\ irq_disable_counter = 1
      /\ irq_disable_counter' = 0
      /\ pc' = [pc EXCEPT ![current_task] = "run"]
  BY DEF IInv, LockBalanced, Executes, SetState, unlock_scheduler, Goto
<1>2. UNCHANGED <<tasks, pid, signal_queue, current_task, scheduler_ready,
                  sleep_time_queue, wakeup_phase, preempt_phase, fresh, panicked>>
  BY DEF SetState, unlock_scheduler, taskVars, clock
<1>3. state' = [state EXCEPT ![t] = s]
  BY DEF SetState
<1>4. TypeOK'
  BY SMTT(30), <1>1, <1>2, <1>3 DEF IInv, TypeOK, Pc
<1>5. ListIntegrity' /\ ListedAllocated' /\ OnlyCurrentExecutes'
  <2>1. ListIntegrity'
    <3>1. \A u \in Task : fresh[u] # NoTask => state'[fresh[u]] # "FREE"
      BY <1>2, <1>3 DEF IInv, TypeOK, ListIntegrity
    <3> QED
      BY <1>2, <1>3, <3>1 DEF IInv, ListIntegrity, Listed
  <2>2. ListedAllocated'
    BY <1>2, <1>3 DEF IInv, TypeOK, Listed, ListedAllocated
  <2>3. OnlyCurrentExecutes'
    BY <1>2, <1>3 DEF IInv, TypeOK, OnlyCurrentExecutes
  <2> QED
    BY <2>1, <2>2, <2>3
<1>6. LockBalanced' /\ FreshWhileCreating'
  BY <1>1, <1>2 DEF IInv, TypeOK, LockBalanced, FreshWhileCreating, Executes
<1> QED
  BY <1>2, <1>4, <1>5, <1>6 DEF IInv

\* yield() preserves the invariant, locked or not.
LEMMA YieldPreserves ==
    ASSUME IInv, yield, sleep_time_queue' \subseteq SleepEntry,
           wakeup_phase' \in 0..(WakeupTicks - 1),
           preempt_phase' \in 0..(PreemptTicks - 1),
           UNCHANGED <<tasks, pid, fresh, irq_disable_counter, scheduler_ready>>,
           \/ pc' = pc
           \/ /\ pc[current_task] \in {"run", "slept"}
              /\ pc' = [pc EXCEPT ![current_task] = "run"]
    PROVE  IInv'
<1>1. pc' \in [Task -> Pc]
  BY ZenonT(30) DEF IInv, TypeOK, Pc
<1>2. CASE UNCHANGED <<state, current_task, panicked, signal_queue>>
  <2>1. TypeOK'
    BY ZenonT(30), <1>1, <1>2 DEF IInv, TypeOK
  <2>2. ListIntegrity' /\ ListedAllocated' /\ OnlyCurrentExecutes'
    BY <1>2 DEF IInv, ListIntegrity, Listed, ListedAllocated, OnlyCurrentExecutes
  <2>3. LockBalanced' /\ FreshWhileCreating'
    BY ZenonT(30), <1>2 DEF IInv, TypeOK, LockBalanced, FreshWhileCreating
  <2> QED
    BY <1>2, <2>1, <2>2, <2>3 DEF IInv
<1>3. CASE irq_disable_counter = 0 /\ schedule /\ process_signals
  <2>1. /\ current_task' \in Task
        /\ state' \in [Task -> State]
        /\ panicked' \in BOOLEAN
        /\ OnlyCurrentExecutes'
        /\ ListedAllocated'
        /\ LockBalanced'
        /\ FreshWhileCreating'
        /\ ListIntegrity'
    BY <1>3, SchedulePreserves
  <2>2. signal_queue' \in [Task -> Seq(Signal)]
    BY SMTT(30), <1>3, <2>1 DEF IInv, TypeOK, process_signals
  <2> QED
    BY ZenonT(30), <1>1, <2>1, <2>2 DEF IInv, TypeOK
<1> QED
  BY ZenonT(30), <1>2, <1>3 DEF yield, IInv, TypeOK

LEMMA InitIInv == Init => IInv
<1> SUFFICES ASSUME Init PROVE IInv
  OBVIOUS
<1>1. TypeOK
  <2>1. tasks \in Seq(Task) /\ current_task \in Task
    BY TaskAssumption DEF Init
  <2>2. state \in [Task -> State] /\ pid \in [Task -> Nat] /\ pc \in [Task -> Pc]
    BY DEF Init, State, Pc
  <2>3. signal_queue \in [Task -> Seq(Signal)] /\ fresh \in [Task -> Task \cup {NoTask}]
    BY DEF Init
  <2>4. wakeup_phase \in 0..(WakeupTicks - 1) /\ preempt_phase \in 0..(PreemptTicks - 1)
    BY TickAssumption DEF Init
  <2>5. sleep_time_queue \subseteq SleepEntry /\ irq_disable_counter \in 0..1
    BY DEF Init
  <2>6. scheduler_ready \in BOOLEAN /\ panicked \in BOOLEAN
    BY ZenonT(30) DEF Init
  <2> QED
    BY <2>1, <2>2, <2>3, <2>4, <2>5, <2>6 DEF TypeOK
<1>2. ListIntegrity
  BY TaskAssumption DEF Init, ListIntegrity, Listed
<1>3. /\ Len(tasks) > 0
      /\ LockBalanced
      /\ OnlyCurrentExecutes
      /\ FreshWhileCreating
      /\ ListedAllocated
  BY TaskAssumption DEF Init, LockBalanced, OnlyCurrentExecutes, FreshWhileCreating,
     ListedAllocated
<1> QED
  BY <1>1, <1>2, <1>3 DEF IInv

LEMMA CreatePreserves == IInv /\ create_task => IInv'
<1> SUFFICES ASSUME IInv, create_task PROVE IInv'
  OBVIOUS
<1>1. PICK t \in Task, p \in 1..(Len(tasks) + 1) :
        /\ state[t] = "FREE"
        /\ state' = [state EXCEPT ![t] = "READY"]
        /\ pid' = [pid EXCEPT ![t] = p]
        /\ fresh' = [fresh EXCEPT ![current_task] = t]
  BY ZenonT(30) DEF create_task
<1>2. /\ pc[current_task] = "locked"
      /\ irq_disable_counter = 1
      /\ irq_disable_counter' = 0
      /\ pc' = [pc EXCEPT ![current_task] = "created"]
      /\ UNCHANGED <<tasks, signal_queue, current_task, scheduler_ready,
                     sleep_time_queue, wakeup_phase, preempt_phase, panicked>>
  BY DEF IInv, LockBalanced, Executes, create_task, unlock_scheduler, Goto, clock
<1>3. TypeOK'
  BY SMTT(30), <1>1, <1>2 DEF IInv, TypeOK, State, Pc
<1>4. t \notin Listed /\ Listed' = Listed
  BY <1>1, <1>2 DEF IInv, TypeOK, Listed, ListedAllocated
<1>5. ListIntegrity'
  BY ZenonT(30), <1>1, <1>2, <1>4, TaskAssumption DEF IInv, TypeOK, ListIntegrity
<1>6. OnlyCurrentExecutes' /\ ListedAllocated'
  BY SMTT(30), <1>1, <1>2 DEF IInv, TypeOK, OnlyCurrentExecutes, ListedAllocated
<1>7. LockBalanced' /\ FreshWhileCreating'
  BY ZenonT(30), <1>1, <1>2, TaskAssumption DEF IInv, TypeOK, LockBalanced, FreshWhileCreating
<1> QED
  BY <1>2, <1>3, <1>5, <1>6, <1>7 DEF IInv

\* add_task adds one task to what is listed.
LEMMA ListedAppended ==
    ASSUME tasks \in Seq(Task), NEW t \in Task, tasks' = Append(tasks, t)
    PROVE  Listed' = Listed \cup {t}
<1> DEFINE n == Len(tasks)
<1>1. /\ n \in Nat
      /\ DOMAIN tasks = 1..n
      /\ DOMAIN tasks' = 1..(n + 1)
      /\ tasks'[n + 1] = t
      /\ \A i \in 1..n : tasks'[i] = tasks[i]
  OBVIOUS
<1>2. Listed' = {tasks'[i] : i \in 1..(n + 1)}
  BY <1>1 DEF Listed
<1>3. Listed = {tasks[i] : i \in 1..n}
  BY <1>1 DEF Listed
<1>4. 1..(n + 1) = 1..n \cup {n + 1}
  BY <1>1
<1> QED
  BY <1>1, <1>2, <1>3, <1>4

LEMMA AddPreserves == IInv /\ add_task => IInv'
<1> SUFFICES ASSUME IInv, add_task PROVE IInv'
  OBVIOUS
<1> DEFINE new == fresh[current_task]
           n == Len(tasks)
<1>1. /\ tasks' = Append(tasks, new)
      /\ fresh' = [fresh EXCEPT ![current_task] = NoTask]
      /\ pc' = [pc EXCEPT ![current_task] = "run"]
      /\ pc[current_task] = "created"
      /\ UNCHANGED <<state, pid, signal_queue, current_task, irq_disable_counter,
                     scheduler_ready, sleep_time_queue, wakeup_phase,
                     preempt_phase, panicked>>
  BY DEF add_task, Executes, Goto, clock
<1>2. new \in Task /\ new \notin Listed /\ state[new] # "FREE"
  BY <1>1 DEF IInv, TypeOK, FreshWhileCreating, ListIntegrity
<1>3. /\ n \in Nat
      /\ tasks' \in Seq(Task)
      /\ Len(tasks') = n + 1
      /\ DOMAIN tasks = 1..n
      /\ DOMAIN tasks' = 1..(n + 1)
      /\ tasks'[n + 1] = new
      /\ \A i \in 1..n : tasks'[i] = tasks[i]
  BY <1>1, <1>2 DEF IInv, TypeOK
<1>4. Listed' = Listed \cup {new}
  BY ZenonT(30), <1>1, <1>2, ListedAppended DEF IInv, TypeOK
<1>5. TypeOK'
  BY ZenonT(30), <1>1, <1>3, TaskAssumption DEF IInv, TypeOK, Pc
<1>6. ListIntegrity'
  <2>1. ASSUME NEW i \in 1..(n + 1), NEW j \in 1..(n + 1), tasks'[i] = tasks'[j]
        PROVE  i = j
    BY <2>1, <1>2, <1>3 DEF IInv, ListIntegrity, Listed
  <2>2. current_task' \in Listed'
    BY <1>1, <1>4 DEF IInv, ListIntegrity
  <2>3. ASSUME NEW t \in Task, fresh'[t] # NoTask
        PROVE  /\ fresh'[t] \notin Listed'
               /\ state'[fresh'[t]] # "FREE"
               /\ \A u \in Task \ {t} : fresh'[u] # fresh'[t]
    BY ZenonT(30), <2>3, <1>1, <1>2, <1>4, TaskAssumption DEF IInv, TypeOK, ListIntegrity
  <2> QED
    BY <1>3, <2>1, <2>2, <2>3 DEF ListIntegrity
<1>7. ListedAllocated'
  BY <1>1, <1>2, <1>3 DEF IInv, ListedAllocated
<1>8. OnlyCurrentExecutes' /\ LockBalanced' /\ FreshWhileCreating'
  BY ZenonT(30), <1>1 DEF IInv, TypeOK, OnlyCurrentExecutes, LockBalanced, FreshWhileCreating
<1> QED
  BY <1>3, <1>5, <1>6, <1>7, <1>8 DEF IInv

LEMMA RemovePreserves == IInv /\ remove_task => IInv'
<1> SUFFICES ASSUME IInv, remove_task PROVE IInv'
  OBVIOUS
<1> DEFINE n == Len(tasks)
<1>1. PICK i \in 2..n :
        /\ tasks[i] # current_task
        /\ tasks' = [j \in 1..(n - 1) |-> IF j < i THEN tasks[j] ELSE tasks[j + 1]]
  BY DEF remove_task
<1>2. /\ pc[current_task] = "locked"
      /\ irq_disable_counter = 1
      /\ irq_disable_counter' = 0
      /\ pc' = [pc EXCEPT ![current_task] = "run"]
      /\ UNCHANGED <<state, pid, signal_queue, current_task, scheduler_ready,
                     sleep_time_queue, wakeup_phase, preempt_phase, fresh, panicked>>
  BY DEF IInv, LockBalanced, LockedBy, Executes, remove_task, unlock_scheduler, Goto, clock
<1>3. n \in Nat /\ DOMAIN tasks = 1..n /\ \A j \in 1..n : tasks[j] \in Task
  BY SMTT(30) DEF IInv, TypeOK
<1>4. tasks' \in Seq(Task) /\ Len(tasks') = n - 1 /\ DOMAIN tasks' = 1..(n - 1)
  BY <1>1, <1>3
<1>5. Listed' \subseteq Listed
  BY <1>1, <1>3, <1>4 DEF Listed
<1>6. current_task \in Listed'
  <2>1. PICK c \in 1..n : tasks[c] = current_task
    BY <1>3 DEF IInv, ListIntegrity, Listed
  <2> DEFINE d == IF c < i THEN c ELSE c - 1
  <2>2. d \in 1..(n - 1) /\ tasks'[d] = current_task
    BY <2>1, <1>1, <1>3
  <2> QED
    BY <2>2, <1>4 DEF Listed
<1>7. TypeOK'
  <2>1. pc' \in [Task -> Pc]
    BY <1>2 DEF IInv, TypeOK, Pc
  <2>2. tasks' \in Seq(Task)
    BY <1>4
  <2> HIDE <1>1
  <2> QED
    BY SMTT(30), <1>2, <2>1, <2>2 DEF IInv, TypeOK
<1>8. ListIntegrity'
  <2>1. ASSUME NEW j \in 1..(n - 1), NEW k \in 1..(n - 1), tasks'[j] = tasks'[k]
        PROVE  j = k
    <3> DEFINE J == IF j < i THEN j ELSE j + 1
               K == IF k < i THEN k ELSE k + 1
    <3>1. J \in 1..n /\ K \in 1..n /\ tasks[J] = tasks[K]
      BY <2>1, <1>1, <1>3
    <3>2. J = K
      BY <3>1, <1>3 DEF IInv, ListIntegrity
    <3> QED
      BY <3>2, <1>3
  <2> QED
    BY ZenonT(30), <2>1, <1>2, <1>4, <1>5, <1>6 DEF IInv, ListIntegrity
<1>9. ListedAllocated'
  BY <1>1, <1>2, <1>3, <1>4 DEF IInv, ListedAllocated
<1>10. OnlyCurrentExecutes' /\ LockBalanced' /\ FreshWhileCreating'
  BY <1>2 DEF IInv, TypeOK, OnlyCurrentExecutes, LockBalanced, FreshWhileCreating
<1> QED
  BY <1>1, <1>3, <1>4, <1>7, <1>8, <1>9, <1>10 DEF IInv

LEMMA LockPreserves == IInv /\ lock_scheduler => IInv'
<1> SUFFICES ASSUME IInv, lock_scheduler PROVE IInv'
  OBVIOUS
<1>1. /\ pc[current_task] = "run"
      /\ irq_disable_counter = 0
      /\ irq_disable_counter' = 1
      /\ pc' = [pc EXCEPT ![current_task] = "locked"]
      /\ UNCHANGED <<tasks, state, pid, signal_queue, current_task, scheduler_ready,
                     sleep_time_queue, wakeup_phase, preempt_phase, fresh, panicked>>
  BY DEF IInv, TypeOK, LockBalanced, lock_scheduler, Executes, Goto, taskVars, clock
<1>2. TypeOK'
  BY <1>1 DEF IInv, TypeOK, Pc
<1>3. ListIntegrity' /\ ListedAllocated' /\ OnlyCurrentExecutes'
  BY <1>1 DEF IInv, ListIntegrity, Listed, ListedAllocated, OnlyCurrentExecutes
<1>4. LockBalanced' /\ FreshWhileCreating'
  BY <1>1 DEF IInv, TypeOK, LockBalanced, FreshWhileCreating
<1> QED
  BY <1>1, <1>2, <1>3, <1>4 DEF IInv

LEMMA GetTaskPreserves == IInv /\ get_task => IInv'
<1> SUFFICES ASSUME IInv, get_task PROVE IInv'
  OBVIOUS
<1>1. /\ pc[current_task] = "locked"
      /\ irq_disable_counter = 1
      /\ irq_disable_counter' = 0
      /\ pc' = [pc EXCEPT ![current_task] = "run"]
      /\ UNCHANGED <<tasks, state, pid, signal_queue, current_task, scheduler_ready,
                     sleep_time_queue, wakeup_phase, preempt_phase, fresh, panicked>>
  BY DEF IInv, LockBalanced, get_task, LockedBy, Executes, unlock_scheduler, Goto,
     taskVars, clock
<1>2. TypeOK'
  BY <1>1 DEF IInv, TypeOK, Pc
<1>3. ListIntegrity' /\ ListedAllocated' /\ OnlyCurrentExecutes'
  BY <1>1 DEF IInv, ListIntegrity, Listed, ListedAllocated, OnlyCurrentExecutes
<1>4. LockBalanced' /\ FreshWhileCreating'
  BY <1>1 DEF IInv, TypeOK, LockBalanced, FreshWhileCreating
<1> QED
  BY <1>1, <1>2, <1>3, <1>4 DEF IInv

\* The operations that only store a state.
LEMMA StoresPreserve ==
    ASSUME IInv,
           kill_task \/ exit \/ block_task \/ unblock_task \/ pause_task \/ resume_task
    PROVE  IInv'
<1>1. \A t \in Listed : t \in Task /\ state[t] # "FREE"
  BY DEF IInv, TypeOK, Listed, ListedAllocated
<1>2. current_task \in Listed
  BY DEF IInv, ListIntegrity
<1>3. CASE kill_task
  <2>1. PICK p \in KillPids, t \in Task : Named(p, t) /\ SetState(t, "ZOMBIE")
    BY <1>3 DEF kill_task
  <2>2. t \in Listed /\ Executes("locked")
    BY <1>3, <2>1 DEF Named, Listed, kill_task, LockedBy
  <2> QED
    BY <2>1, <2>2, <1>1, SetStatePreserves DEF State
<1>4. CASE exit
  BY <1>4, <1>1, <1>2, SetStatePreserves DEF exit, LockedBy, State
<1>5. CASE block_task
  BY <1>5, <1>1, <1>2, SetStatePreserves DEF block_task, LockedBy, State
<1>6. CASE unblock_task
  BY <1>6, <1>1, SetStatePreserves DEF unblock_task, LockedBy, State
<1>7. CASE pause_task
  BY <1>7, <1>1, SetStatePreserves DEF pause_task, LockedBy, State
<1>8. CASE resume_task
  BY <1>8, <1>1, SetStatePreserves DEF resume_task, LockedBy, State
<1> QED
  BY <1>3, <1>4, <1>5, <1>6, <1>7, <1>8

LEMMA SignalPreserves == IInv /\ add_signal => IInv'
<1> SUFFICES ASSUME IInv, add_signal PROVE IInv'
  OBVIOUS
<1>1. UNCHANGED <<tasks, state, pid, current_task, irq_disable_counter,
                  scheduler_ready, sleep_time_queue, wakeup_phase, preempt_phase,
                  pc, fresh, panicked>>
  BY DEF add_signal, clock
<1>2. signal_queue' \in [Task -> Seq(Signal)]
  <2>1. PICK s \in Signal, t \in Listed :
          signal_queue' = [signal_queue EXCEPT ![t] = Append(@, s)]
    BY ZenonT(30) DEF add_signal
  <2>2. t \in Task /\ signal_queue \in [Task -> Seq(Signal)]
    BY DEF IInv, TypeOK, Listed
  <2>3. Append(signal_queue[t], s) \in Seq(Signal)
    BY <2>2
  <2> QED
    BY <2>1, <2>2, <2>3
<1>3. TypeOK'
  BY ZenonT(30), <1>1, <1>2 DEF IInv, TypeOK
<1> QED
  BY <1>1, <1>3 DEF IInv, ListIntegrity, Listed, ListedAllocated, OnlyCurrentExecutes,
     LockBalanced, FreshWhileCreating

LEMMA GoPreserves == IInv /\ go => IInv'
<1> SUFFICES ASSUME IInv, go PROVE IInv'
  OBVIOUS
<1>1. /\ schedule
      /\ pc[current_task] = "run"
      /\ scheduler_ready' = TRUE
      /\ UNCHANGED <<tasks, pid, signal_queue, irq_disable_counter, sleep_time_queue,
                     wakeup_phase, preempt_phase, pc, fresh>>
  BY DEF go, Executes, taskVars, clock
<1>2. irq_disable_counter = 0
  BY <1>1 DEF IInv, LockBalanced
<1>3. /\ current_task' \in Task
      /\ state' \in [Task -> State]
      /\ panicked' \in BOOLEAN
      /\ OnlyCurrentExecutes'
      /\ ListedAllocated'
      /\ LockBalanced'
      /\ FreshWhileCreating'
      /\ ListIntegrity'
  BY <1>1, <1>2, SchedulePreserves
<1> QED
  BY ZenonT(30), <1>1, <1>3 DEF IInv, TypeOK

LEMMA SleepPreserves == IInv /\ _tsleep => IInv'
<1> SUFFICES ASSUME IInv, _tsleep PROVE IInv'
  OBVIOUS
<1>1. /\ pc[current_task] = "run"
      /\ state' = [state EXCEPT ![current_task] = "UNINTERRUPTIBLE"]
      /\ pc' = [pc EXCEPT ![current_task] = "slept"]
      /\ UNCHANGED <<tasks, pid, signal_queue, current_task, irq_disable_counter,
                     scheduler_ready, wakeup_phase, preempt_phase, fresh, panicked>>
  BY DEF _tsleep, Executes, Goto, taskVars, clock
<1>2. sleep_time_queue' \subseteq SleepEntry
  BY SMTT(30) DEF _tsleep, SleepEntry, IInv, TypeOK
<1>3. TypeOK'
  BY ZenonT(30), <1>1, <1>2 DEF IInv, TypeOK, State, Pc
<1>4. ListIntegrity' /\ ListedAllocated' /\ OnlyCurrentExecutes'
  <2>1. ListIntegrity'
    <3>1. \A u \in Task : fresh[u] # NoTask => state'[fresh[u]] # "FREE"
      BY <1>1 DEF IInv, TypeOK, ListIntegrity
    <3> QED
      BY <1>1, <3>1 DEF IInv, ListIntegrity, Listed
  <2>2. ListedAllocated'
    BY SMTT(30), <1>1 DEF IInv, TypeOK, Listed, ListedAllocated
  <2>3. OnlyCurrentExecutes'
    BY <1>1 DEF IInv, TypeOK, OnlyCurrentExecutes
  <2> QED
    BY <2>1, <2>2, <2>3
<1>5. LockBalanced' /\ FreshWhileCreating'
  BY <1>1 DEF IInv, TypeOK, LockBalanced, FreshWhileCreating
<1> QED
  BY <1>1, <1>3, <1>4, <1>5 DEF IInv

\* The clock keeps to its ranges, and entries that only get older stay entries.
LEMMA TickTypes ==
    ASSUME IInv, tick
    PROVE  /\ wakeup_phase' \in 0..(WakeupTicks - 1)
           /\ preempt_phase' \in 0..(PreemptTicks - 1)
           /\ {Older(e) : e \in sleep_time_queue} \subseteq SleepEntry
<1>1. /\ wakeup_phase' \in 0..(WakeupTicks - 1)
      /\ preempt_phase' \in 0..(PreemptTicks - 1)
  BY TickAssumption DEF tick, IInv, TypeOK
<1>2. ASSUME NEW e \in SleepEntry PROVE Older(e) \in SleepEntry
  BY DEF SleepEntry, Older
<1> QED
  BY <1>1, <1>2 DEF IInv, TypeOK

LEMMA WakeupPreserves == IInv /\ PitWakeup => IInv'
<1> SUFFICES ASSUME IInv, PitWakeup PROVE IInv'
  OBVIOUS
<1>1. /\ UNCHANGED <<tasks, pid, signal_queue, current_task, irq_disable_counter,
                     scheduler_ready, pc, fresh, panicked>>
      /\ tick
      /\ wakeup_handler
  BY DEF PitWakeup, PitFrame
<1>2. \A t \in Task : state'[t] = state[t]
                      \/ (state[t] = "UNINTERRUPTIBLE" /\ state'[t] = "READY")
  BY ZenonT(30), <1>1 DEF wakeup_handler
<1>3. state' \in [Task -> State]
  BY <1>1 DEF wakeup_handler, IInv, TypeOK, State
<1>4. sleep_time_queue' \subseteq SleepEntry
  BY <1>1, TickTypes DEF wakeup_handler
<1>5. TypeOK'
  BY ZenonT(30), <1>1, <1>3, <1>4, TickTypes DEF IInv, TypeOK
<1>6. ListIntegrity' /\ ListedAllocated' /\ OnlyCurrentExecutes'
  BY SMTT(30), <1>1, <1>2 DEF IInv, TypeOK, ListIntegrity, Listed, ListedAllocated,
     OnlyCurrentExecutes
<1>7. LockBalanced' /\ FreshWhileCreating'
  BY <1>1 DEF IInv, LockBalanced, FreshWhileCreating
<1> QED
  BY <1>1, <1>5, <1>6, <1>7 DEF IInv

LEMMA CountPreserves == IInv /\ PitCount => IInv'
<1> SUFFICES ASSUME IInv, PitCount PROVE IInv'
  OBVIOUS
<1>1. /\ UNCHANGED <<tasks, state, pid, signal_queue, current_task,
                     irq_disable_counter, scheduler_ready, pc, fresh, panicked>>
      /\ tick
      /\ sleep_time_queue' = {Older(e) : e \in sleep_time_queue}
  BY DEF PitCount, PitFrame
<1>2. TypeOK'
  BY ZenonT(30), <1>1, TickTypes DEF IInv, TypeOK
<1> QED
  BY <1>1, <1>2 DEF IInv, ListIntegrity, Listed, ListedAllocated, OnlyCurrentExecutes,
     LockBalanced, FreshWhileCreating

LEMMA PreemptPreserves == IInv /\ PitPreempt => IInv'
<1> SUFFICES ASSUME IInv, PitPreempt PROVE IInv'
  OBVIOUS
<1>1. /\ UNCHANGED <<tasks, pid, irq_disable_counter, scheduler_ready, pc, fresh>>
      /\ tick
      /\ yield
      /\ sleep_time_queue' = {Older(e) : e \in sleep_time_queue}
  BY DEF PitPreempt, PitFrame
<1> QED
  BY <1>1, TickTypes, YieldPreserves

LEMMA TaskYieldPreserves == IInv /\ task_yield => IInv'
<1> SUFFICES ASSUME IInv, task_yield PROVE IInv'
  OBVIOUS
<1>1. /\ UNCHANGED <<tasks, pid, irq_disable_counter, scheduler_ready,
                     sleep_time_queue, wakeup_phase, preempt_phase, fresh>>
      /\ pc[current_task] \in {"run", "slept"}
      /\ yield
      /\ pc' = [pc EXCEPT ![current_task] = "run"]
  BY DEF task_yield, Executes, Goto, clock
<1>2. /\ sleep_time_queue' \subseteq SleepEntry
      /\ wakeup_phase' \in 0..(WakeupTicks - 1)
      /\ preempt_phase' \in 0..(PreemptTicks - 1)
  BY <1>1 DEF IInv, TypeOK
<1> QED
  BY <1>1, <1>2, YieldPreserves

\* Every operation of the scheduler and every PIT interrupt preserves the
\* invariant.
LEMMA NextIInv == IInv /\ [Next]_vars => IInv'
<1> SUFFICES ASSUME IInv, [Next]_vars PROVE IInv'
  BY ZenonT(30)
<1>1. CASE UNCHANGED vars
  BY SMTT(30), <1>1 DEF vars, IInv, TypeOK, ListIntegrity, Listed, ListedAllocated,
     OnlyCurrentExecutes, LockBalanced, FreshWhileCreating
<1>2. CASE PitInterrupt
  BY <1>2, WakeupPreserves, PreemptPreserves, CountPreserves DEF PitInterrupt
<1>3. CASE kill_task \/ exit \/ block_task \/ unblock_task \/ pause_task \/ resume_task
  BY <1>3, StoresPreserve
<1> QED
  BY <1>1, <1>2, <1>3, LockPreserves, CreatePreserves, AddPreserves, RemovePreserves,
     GetTaskPreserves, SignalPreserves, GoPreserves, SleepPreserves, TaskYieldPreserves
     DEF Next

LEMMA InductiveInvariant == Spec => []IInv
  BY InitIInv, NextIInv, PTL DEF Spec

\* The variables of the scheduler keep their types.
THEOREM TypeCorrect == Spec => []TypeOK
<1>1. IInv => TypeOK
  BY DEF IInv
<1> QED
  BY <1>1, InductiveInvariant, PTL

\* The run list never holds a task twice and always holds the running task, so
\* the circular walk of schedule() terminates.
THEOREM ListCorrect == Spec => []ListIntegrity
<1>1. IInv => ListIntegrity
  BY DEF IInv
<1> QED
  BY <1>1, InductiveInvariant, PTL

\* At most the running task is marked EXECUTING.
THEOREM OneExecutes == Spec => []OnlyCurrentExecutes
<1>1. IInv => OnlyCurrentExecutes
  BY DEF IInv
<1> QED
  BY <1>1, InductiveInvariant, PTL

\* lock_scheduler and unlock_scheduler stay balanced across every preemption.
THEOREM LockCorrect == Spec => []LockBalanced
<1>1. IInv => LockBalanced
  BY DEF IInv
<1> QED
  BY <1>1, InductiveInvariant, PTL
-----------------------------------------------------------------------------
\* An entry is never overdue by more than the ticks since the last wakeup
\* call, whatever the periods and the durations are.
THEOREM WakeupInTime == Spec => []TimelyWakeup
<1>1. Init => TimelyWakeup
  BY DEF Init, TimelyWakeup
<1>2. IInv /\ TimelyWakeup /\ [Next]_vars => TimelyWakeup'
  <2> SUFFICES ASSUME IInv, TimelyWakeup, [Next]_vars PROVE TimelyWakeup'
    OBVIOUS
  <2>1. /\ wakeup_phase \in 0..(WakeupTicks - 1)
        /\ \A e \in sleep_time_queue :
              e \in SleepEntry /\ e.elapsed \in Nat /\ e.expires_in \in Nat \ {0}
    BY ZenonT(30), TickAssumption DEF IInv, TypeOK, SleepEntry
  <2>2. CASE UNCHANGED <<sleep_time_queue, clock>>
    BY <2>2 DEF TimelyWakeup, clock
  <2>3. CASE _tsleep
    <3>1. PICK ticks \in SleepTicks :
            sleep_time_queue' = sleep_time_queue \cup
              {[task |-> current_task, elapsed |-> 0, expires_in |-> ticks]}
      BY <2>3 DEF _tsleep
    <3>2. wakeup_phase' = wakeup_phase
      BY <2>3 DEF _tsleep, clock
    <3>3. ticks \in Nat \ {0}
      BY TickAssumption
    <3> QED
      BY <3>1, <3>2, <3>3, <2>1 DEF TimelyWakeup
  <2>4. ASSUME NEW e \in SleepEntry
        PROVE  Older(e).elapsed = e.elapsed + 1 /\ Older(e).expires_in = e.expires_in
    BY DEF SleepEntry, Older
  <2>5. CASE PitWakeup
    <3>1. wakeup_phase' = 0
      BY <2>5 DEF PitWakeup, requires_wakeup
    <3>2. ASSUME NEW f \in sleep_time_queue'
          PROVE  f.elapsed < f.expires_in + wakeup_phase'
      <4>1. PICK e \in sleep_time_queue : f = Older(e) /\ ~Expired(f)
        BY <2>5, <3>2 DEF PitWakeup, wakeup_handler
      <4> QED
        BY <4>1, <3>1, <2>1, <2>4 DEF Expired
    <3> QED
      BY <3>2 DEF TimelyWakeup
  <2>6. CASE PitPreempt \/ PitCount
    <3>1. /\ wakeup_phase' = wakeup_phase + 1
          /\ sleep_time_queue' = {Older(e) : e \in sleep_time_queue}
      BY <2>6, <2>1 DEF PitPreempt, PitCount, requires_wakeup, tick
    <3>2. ASSUME NEW f \in sleep_time_queue'
          PROVE  f.elapsed < f.expires_in + wakeup_phase'
      <4>1. PICK e \in sleep_time_queue : f = Older(e)
        BY <3>1, <3>2
      <4>2. e.elapsed < e.expires_in + wakeup_phase
        BY ZenonT(30) DEF TimelyWakeup
      <4> QED
        BY <4>1, <4>2, <3>1, <2>1, <2>4
    <3> QED
      BY <3>2 DEF TimelyWakeup
  <2>7. ASSUME Next, ~_tsleep, ~PitWakeup, ~PitPreempt, ~PitCount
        PROVE  UNCHANGED <<sleep_time_queue, clock>>
    BY ZenonT(30), <2>7 DEF Next, PitInterrupt, lock_scheduler, create_task, add_task, remove_task,
       kill_task, exit, block_task, unblock_task, pause_task, resume_task, get_task,
       add_signal, go, task_yield, SetState, unlock_scheduler, clock
  <2>8. CASE UNCHANGED vars
    BY <2>8, <2>2 DEF vars, clock
  <2> QED
    BY <2>2, <2>3, <2>5, <2>6, <2>7, <2>8
<1> QED
  BY <1>1, <1>2, InductiveInvariant, PTL DEF Spec

-----------------------------------------------------------------------------
\* The idle task keeps identifier 0 and is nobody's task to add.
IdleInv == IdleAtHead /\ pid[Idle] = 0 /\ ~panicked

LEMMA IdleStep ==
    ASSUME 0 \notin KillPids, IInv, IdleInv, Next
    PROVE  IdleInv'
<1>1. /\ Idle \in Task /\ Idle \notin Pausable
      /\ tasks \in Seq(Task)
      /\ Len(tasks) > 0
      /\ tasks[1] = Idle
      /\ state[Idle] = "IDLE"
      /\ pid[Idle] = 0
      /\ panicked = FALSE
  BY TaskAssumption, InputAssumption DEF IInv, TypeOK, IdleInv, IdleAtHead
<1>2. ASSUME schedule
      PROVE  state'[Idle] = "IDLE" /\ ~panicked'
  BY ZenonT(30), <1>1, <1>2 DEF schedule, SwitchTo, SwitchedState, IInv, TypeOK
<1>3. ASSUME NEW t \in Task, t # Idle, NEW s, SetState(t, s)
      PROVE  IdleInv'
  BY <1>1, <1>3 DEF SetState, unlock_scheduler, taskVars, IdleInv, IdleAtHead, IInv, TypeOK
<1>4. CASE create_task
  BY <1>1, <1>4 DEF create_task, unlock_scheduler, IdleInv, IdleAtHead, IInv, TypeOK
<1>5. CASE add_task
  <2>1. fresh[current_task] \in Task
    BY <1>5 DEF add_task, Executes, IInv, FreshWhileCreating, TypeOK
  <2>2. tasks' = Append(tasks, fresh[current_task])
    BY <1>5 DEF add_task
  <2>3. tasks'[1] = Idle /\ Len(tasks') > 0
    BY <2>1, <2>2, <1>1
  <2> QED
    BY <2>3, <1>1, <1>5 DEF add_task, IdleInv, IdleAtHead
<1>6. CASE remove_task
  <2>1. PICK i \in 2..Len(tasks) :
          tasks' = [j \in 1..(Len(tasks) - 1) |->
                       IF j < i THEN tasks[j] ELSE tasks[j + 1]]
    BY <1>6 DEF remove_task
  <2>2. tasks'[1] = Idle /\ Len(tasks') > 0
    BY <2>1, <1>1
  <2> QED
    BY <2>2, <1>1, <1>6 DEF remove_task, unlock_scheduler, IdleInv, IdleAtHead
<1>7. CASE kill_task
  <2>1. PICK p \in KillPids, t \in Task : Named(p, t) /\ SetState(t, "ZOMBIE")
    BY <1>7 DEF kill_task
  <2>2. t # Idle
    BY <2>1, <1>1 DEF Named
  <2> QED
    BY <2>1, <2>2, <1>3
<1>8. CASE exit
  <2>1. current_task # Idle /\ current_task \in Task
    BY <1>8 DEF exit, LockedBy, Executes, IInv, TypeOK
  <2> QED
    BY <1>8, <2>1, <1>3 DEF exit
<1>9. CASE block_task \/ unblock_task \/ pause_task \/ resume_task
  <2>1. \A t \in Pausable : t \in Task /\ t # Idle
    BY ZenonT(30), InputAssumption
  <2> QED
    BY <1>9, <2>1, <1>3 DEF block_task, unblock_task, pause_task, resume_task
<1>10. CASE lock_scheduler \/ get_task \/ add_signal
  BY ZenonT(30), <1>10, <1>1 DEF lock_scheduler, get_task, add_signal, unlock_scheduler, taskVars,
     IdleInv, IdleAtHead
<1>11. CASE go
  BY <1>11, <1>1, <1>2 DEF go, taskVars, IdleInv, IdleAtHead
<1>12. CASE _tsleep
  <2>1. current_task # Idle /\ current_task \in Task
    BY ZenonT(30), <1>12 DEF _tsleep, Executes, IInv, TypeOK
  <2> QED
    BY <1>12, <2>1, <1>1 DEF _tsleep, taskVars, IdleInv, IdleAtHead, IInv, TypeOK
<1>13. CASE task_yield
  BY <1>13, <1>1, <1>2 DEF task_yield, yield, IdleInv, IdleAtHead
<1>14. CASE PitInterrupt
  <2>1. CASE PitWakeup
    BY <2>1, <1>1 DEF PitWakeup, PitFrame, wakeup_handler, IdleInv, IdleAtHead
  <2>2. CASE PitPreempt
    BY <2>2, <1>1, <1>2 DEF PitPreempt, PitFrame, yield, IdleInv, IdleAtHead
  <2>3. CASE PitCount
    BY <2>3, <1>1 DEF PitCount, PitFrame, IdleInv, IdleAtHead
  <2> QED
    BY <1>14, <2>1, <2>2, <2>3 DEF PitInterrupt
<1> QED
  BY <1>4, <1>5, <1>6, <1>7, <1>8, <1>9, <1>10, <1>11, <1>12, <1>13, <1>14 DEF Next

LEMMA IdleInvariant == ASSUME 0 \notin KillPids PROVE Spec => []IdleInv
<1>1. Init => IdleInv
  BY TaskAssumption DEF Init, IdleInv, IdleAtHead
<1>2. IInv /\ IdleInv /\ [Next]_vars => IdleInv'
  <2>1. IdleInv /\ UNCHANGED vars => IdleInv'
    BY DEF vars, IdleInv, IdleAtHead
  <2> QED
    BY <2>1, IdleStep
<1> QED
  BY <1>1, <1>2, InductiveInvariant, PTL DEF Spec

\* As long as nobody kills process 0, the idle task stays at the head of the
\* list in state TASK_IDLE, so the fallback of schedule() is always legal.
THEOREM IdleSafe == ASSUME 0 \notin KillPids PROVE Spec => []IdleAtHead
<1>1. IdleInv => IdleAtHead
  BY DEF IdleInv
<1> QED
  BY <1>1, IdleInvariant, PTL

\* Killing process 0 is the only way into the panic of schedule().
THEOREM NeverPanics == ASSUME 0 \notin KillPids PROVE Spec => []NoPanic
<1>1. IdleInv => NoPanic
  BY ZenonT(30) DEF IdleInv, NoPanic
<1> QED
  BY <1>1, IdleInvariant, PTL
-----------------------------------------------------------------------------
\* What the timers say of a task that nobody pauses: it has one while it
\* sleeps and never two, and until the timer runs out the task is asleep or
\* dead, on the CPU at most between _tsleep and the yield that follows.
SleepInv ==
    \A t \in Task \ Pausable :
        /\ state[t] = "UNINTERRUPTIBLE" => \E e \in sleep_time_queue : e.task = t
        /\ \A e, f \in sleep_time_queue : e.task = t /\ f.task = t => e = f
        /\ \A e \in sleep_time_queue :
              e.task = t /\ ~panicked =>
                  /\ state[t] \in {"UNINTERRUPTIBLE", "ZOMBIE"}
                  /\ t = current_task => pc[t] = "slept"

Down == {"UNINTERRUPTIBLE", "ZOMBIE"}

\* schedule() neither picks a sleeper or a zombie nor changes its state.
LEMMA ScheduleSkips ==
    ASSUME IInv, schedule, NEW t \in Task
    PROVE  /\ state'[t] = "UNINTERRUPTIBLE" => state[t] = "UNINTERRUPTIBLE"
           /\ state[t] \in Down => state'[t] = state[t]
           /\ state[t] \in Down /\ current_task' = t => current_task = t /\ panicked'
<1>1. current_task \in Task /\ state \in [Task -> State]
  BY DEF IInv, TypeOK
<1>2. ASSUME NEW n \in Task, SwitchTo(n), state[n] \in {"READY", "EXECUTING", "IDLE"}
      PROVE  /\ state'[t] = "UNINTERRUPTIBLE" => state[t] = "UNINTERRUPTIBLE"
             /\ state[t] \in Down => state'[t] = state[t] /\ current_task' # t
  BY <1>1, <1>2 DEF SwitchTo, SwitchedState, Down
<1>3. CASE \E k \in 1..Len(tasks) : FirstRunnable(k) /\ SwitchTo(Ahead(k))
  <2>1. PICK k \in 1..Len(tasks) : FirstRunnable(k) /\ SwitchTo(Ahead(k))
    BY ZenonT(30), <1>3
  <2>2. Ahead(k) \in Task /\ state[Ahead(k)] \in {"READY", "EXECUTING"}
    <3>1. TypeOK /\ current_task \in Listed /\ tasks \in Seq(Task)
        BY Zenon DEF IInv, ListIntegrity, TypeOK
    <3>2. Listed \subseteq Task
        BY ONLY <3>1 DEF Listed
    <3> QED
        BY Zenon, <2>1, <3>1, <3>2, AheadListed DEF FirstRunnable, Runnable
  <2> QED
    BY <1>2, <2>1, <2>2
<1>4. CASE state[tasks[1]] = "IDLE" /\ SwitchTo(tasks[1])
  <2>1. tasks[1] \in Task
    BY DEF IInv, TypeOK
  <2> QED
    BY <1>2, <1>4, <2>1
<1>5. CASE panicked' = TRUE /\ UNCHANGED <<state, current_task>>
  BY ZenonT(30), <1>5
<1> QED
  BY <1>3, <1>4, <1>5 DEF schedule

\* No step but _tsleep and the wakeup handler puts a task to sleep or ends a
\* sleep otherwise than by killing the task.
LEMMA SleepersKept ==
    ASSUME IInv, Next, ~_tsleep, ~PitWakeup, NEW t \in Task \ Pausable
    PROVE  /\ state'[t] = "UNINTERRUPTIBLE" => state[t] = "UNINTERRUPTIBLE"
           /\ state[t] \in Down => state'[t] \in {state[t], "ZOMBIE"}
           /\ state[t] \in Down /\ current_task' = t =>
                 /\ current_task = t
                 /\ pc[t] = "slept" => panicked' \/ pc'[t] = "slept"
<1> DEFINE Kept == /\ state'[t] = "UNINTERRUPTIBLE" => state[t] = "UNINTERRUPTIBLE"
                   /\ state[t] \in Down => state'[t] \in {state[t], "ZOMBIE"}
                   /\ state[t] \in Down /\ current_task' = t =>
                        /\ current_task = t
                        /\ pc[t] = "slept" => panicked' \/ pc'[t] = "slept"
<1> SUFFICES Kept
  OBVIOUS
<1>1. t \in Task /\ current_task \in Task /\ state \in [Task -> State] /\ pc \in [Task -> Pc]
  BY ZenonT(30) DEF IInv, TypeOK
<1>2. ASSUME NEW u \in Task, NEW s \in State, SetState(u, s), Executes("locked"),
             s # "ZOMBIE" => u # t
      PROVE  Kept
  BY ZenonT(30), <1>1, <1>2 DEF SetState, unlock_scheduler, Goto, Executes, taskVars, Down
<1>3. CASE kill_task \/ exit
  <2>1. PICK u \in Task : SetState(u, "ZOMBIE") /\ Executes("locked")
    BY ZenonT(30), <1>1, <1>3 DEF kill_task, exit, LockedBy
  <2> QED
    BY <1>2, <2>1 DEF State
<1>4. CASE block_task \/ unblock_task \/ pause_task \/ resume_task
  <2>1. PICK u \in Pausable, s \in State : SetState(u, s) /\ Executes("locked")
    BY <1>4 DEF block_task, unblock_task, pause_task, resume_task, LockedBy, State
  <2> QED
    BY <1>2, <2>1, InputAssumption
<1>5. CASE create_task
  BY ZenonT(30), <1>1, <1>5 DEF create_task, unlock_scheduler, Executes, Goto, Down
<1>6. CASE lock_scheduler \/ add_task \/ remove_task \/ get_task
  BY <1>1, <1>6 DEF lock_scheduler, add_task, remove_task, get_task, LockedBy, Executes,
     Goto, unlock_scheduler
<1>7. CASE add_signal \/ PitCount
  BY <1>1, <1>7 DEF add_signal, PitCount, PitFrame
<1>8. ASSUME schedule \/ UNCHANGED <<state, current_task, panicked>>,
             pc' = pc \/ (schedule /\ pc' = [pc EXCEPT ![current_task] = "run"])
      PROVE  Kept
  BY <1>1, <1>8, ScheduleSkips DEF Down
<1>9. CASE go
  BY <1>8, <1>9 DEF go
<1>10. CASE PitPreempt
  BY <1>8, <1>10 DEF PitPreempt, PitFrame, yield
<1>11. CASE task_yield
  <2>1. irq_disable_counter = 0 /\ scheduler_ready
    BY <1>11 DEF task_yield, Executes, IInv, LockBalanced
  <2> QED
    BY <1>8, <1>11, <2>1 DEF task_yield, yield, Goto
<1> QED
  BY ZenonT(30), <1>3, <1>4, <1>5, <1>6, <1>7, <1>9, <1>10, <1>11 DEF Next, PitInterrupt

\* Ageing an entry and collecting the expired ones.
LEMMA OlderFacts ==
    ASSUME NEW e \in SleepEntry
    PROVE  /\ Older(e).task = e.task
           /\ Older(e).elapsed = e.elapsed + 1
           /\ Older(e).expires_in = e.expires_in
  BY ZenonT(30) DEF SleepEntry, Older

LEMMA SleepStep == IInv /\ SleepInv /\ [Next]_vars => SleepInv'
<1> SUFFICES ASSUME IInv, SleepInv, [Next]_vars, NEW t \in Task \ Pausable
             PROVE  /\ state'[t] = "UNINTERRUPTIBLE" => \E e \in sleep_time_queue' : e.task = t
                    /\ \A e, f \in sleep_time_queue' : e.task = t /\ f.task = t => e = f
                    /\ \A e \in sleep_time_queue' :
                          e.task = t /\ ~panicked' =>
                              /\ state'[t] \in Down
                              /\ t = current_task' => pc'[t] = "slept"
  BY DEF SleepInv, Down
<1>1. /\ sleep_time_queue \subseteq SleepEntry
      /\ current_task \in Task /\ state \in [Task -> State] /\ pc \in [Task -> Pc]
  BY ZenonT(30) DEF IInv, TypeOK
<1>2. /\ state[t] = "UNINTERRUPTIBLE" => \E e \in sleep_time_queue : e.task = t
      /\ \A e, f \in sleep_time_queue : e.task = t /\ f.task = t => e = f
      /\ \A e \in sleep_time_queue :
            e.task = t /\ ~panicked =>
                /\ state[t] \in Down
                /\ t = current_task => pc[t] = "slept"
  BY DEF SleepInv, Down
<1>3. CASE UNCHANGED vars
  BY ZenonT(30), <1>2, <1>3 DEF vars
<1>4. Next => ~panicked
  BY ZenonT(30) DEF Next, PitInterrupt, lock_scheduler, create_task, add_task, remove_task,
     kill_task, exit, block_task, unblock_task, pause_task, resume_task, get_task,
     add_signal, go, _tsleep, task_yield, PitWakeup, PitPreempt, PitCount, tick,
     LockedBy, Executes
<1>5. CASE _tsleep
  <2>1. PICK ticks \in SleepTicks :
          sleep_time_queue' = sleep_time_queue \cup
            {[task |-> current_task, elapsed |-> 0, expires_in |-> ticks]}
    BY <1>5 DEF _tsleep
  <2>2. /\ ~panicked /\ pc[current_task] = "run"
        /\ state' = [state EXCEPT ![current_task] = "UNINTERRUPTIBLE"]
        /\ pc' = [pc EXCEPT ![current_task] = "slept"]
        /\ current_task' = current_task /\ panicked' = panicked
    BY <1>5 DEF _tsleep, Executes, Goto
  <2>3. CASE t = current_task
    <3>1. \A e \in sleep_time_queue : e.task # t
      BY <1>2, <2>2, <2>3
    <3>2. PICK n \in sleep_time_queue' :
            n.task = t /\ \A e \in sleep_time_queue' : e \in sleep_time_queue \/ e = n
      BY ZenonT(30), <2>1, <2>3
    <3>3. state'[t] = "UNINTERRUPTIBLE" /\ pc'[t] = "slept"
      BY <1>1, <2>2, <2>3
    <3> QED
      BY <3>1, <3>2, <3>3 DEF Down
  <2>4. CASE t # current_task
    BY SMTT(30), <1>1, <1>2, <2>1, <2>2, <2>4
  <2> QED
    BY <2>3, <2>4
<1>6. CASE PitWakeup
  <2> DEFINE entries == {Older(e) : e \in sleep_time_queue}
             woken == {e.task : e \in {x \in entries : Expired(x)}}
  <2>1. /\ sleep_time_queue' = {e \in entries : ~Expired(e)}
        /\ state' = [u \in Task |-> IF u \in woken /\ state[u] = "UNINTERRUPTIBLE"
                                    THEN "READY" ELSE state[u]]
        /\ current_task' = current_task /\ panicked' = panicked /\ pc' = pc
    BY <1>6 DEF PitWakeup, wakeup_handler, PitFrame
  <2>2. \A e, f \in entries : e.task = t /\ f.task = t => e = f
    BY <1>1, <1>2, OlderFacts
  <2>3. state'[t] = "UNINTERRUPTIBLE" => \E e \in sleep_time_queue' : e.task = t
    <3>1. SUFFICES ASSUME state'[t] = "UNINTERRUPTIBLE"
                   PROVE  \E e \in sleep_time_queue' : e.task = t
      BY ZenonT(30)
    <3>2. state[t] = "UNINTERRUPTIBLE" /\ t \notin woken
      BY <2>1, <3>1
    <3>3. PICK e \in sleep_time_queue : e.task = t
      BY <1>2, <3>2
    <3>4. Older(e) \in entries /\ Older(e).task = t
      BY <1>1, <3>3, OlderFacts
    <3> QED
      BY <2>1, <3>2, <3>4
  <2>4. ASSUME NEW e \in sleep_time_queue', e.task = t, ~panicked'
        PROVE  state'[t] \in Down /\ (t = current_task' => pc'[t] = "slept")
    <3>1. PICK o \in sleep_time_queue : e = Older(o) /\ o.task = t
      BY <1>1, <2>1, <2>4, OlderFacts
    <3>2. t \notin woken
      BY ZenonT(30), <2>1, <2>2, <2>4
    <3> QED
      BY <1>1, <1>2, <2>1, <2>4, <3>1, <3>2
  <2> QED
    BY <2>1, <2>2, <2>3, <2>4
<1>7. CASE Next /\ ~_tsleep /\ ~PitWakeup
  <2>1. \/ sleep_time_queue' = sleep_time_queue
        \/ sleep_time_queue' = {Older(e) : e \in sleep_time_queue}
    BY ZenonT(30), <1>7 DEF Next, PitInterrupt, PitPreempt, PitCount, lock_scheduler, create_task,
       add_task, remove_task, kill_task, exit, block_task, unblock_task, pause_task,
       resume_task, get_task, add_signal, go, task_yield, SetState, unlock_scheduler
  <2>2. /\ \A e \in sleep_time_queue' : \E o \in sleep_time_queue :
              o.task = e.task /\ (e = o \/ e = Older(o))
        /\ \A o \in sleep_time_queue : \E e \in sleep_time_queue' : e.task = o.task
    BY <1>1, <2>1, OlderFacts
  <2>3. \A e, f \in sleep_time_queue' : e.task = t /\ f.task = t => e = f
    BY SMTT(30), <1>1, <1>2, <2>1, OlderFacts
  <2>4. /\ state'[t] = "UNINTERRUPTIBLE" => state[t] = "UNINTERRUPTIBLE"
        /\ state[t] \in Down => state'[t] \in {state[t], "ZOMBIE"}
        /\ state[t] \in Down /\ current_task' = t =>
              /\ current_task = t
              /\ pc[t] = "slept" => panicked' \/ pc'[t] = "slept"
    BY ZenonT(30), <1>7, SleepersKept
  <2>5. state'[t] = "UNINTERRUPTIBLE" => \E e \in sleep_time_queue' : e.task = t
    BY ZenonT(30), <1>2, <2>2, <2>4
  <2>6. ASSUME NEW e \in sleep_time_queue', e.task = t, ~panicked'
        PROVE  state'[t] \in Down /\ (t = current_task' => pc'[t] = "slept")
    <3>1. PICK o \in sleep_time_queue : o.task = t
      BY ZenonT(30), <2>2, <2>6
    <3>2. state[t] \in Down /\ (t = current_task => pc[t] = "slept")
      BY <1>2, <1>4, <1>7, <3>1
    <3> QED
      BY <2>4, <2>6, <3>2 DEF Down
  <2> QED
    BY ZenonT(30), <2>3, <2>5, <2>6
<1> QED
  BY ZenonT(30), <1>3, <1>5, <1>6, <1>7

LEMMA Sleepers == Spec => [](IInv /\ SleepInv)
<1>1. Init => SleepInv
  BY DEF Init, SleepInv
<1> QED
  BY <1>1, SleepStep, InitIInv, NextIInv, PTL DEF Spec

\* A task that nobody pauses has a timer while it sleeps, and never a second
\* one: no sleep lasts for ever for want of an entry, and none is cut short by
\* an entry of an earlier sleep.
THEOREM TimersMatchSleepers == Spec => []OneTimerPerSleeper
<1>1. SleepInv => OneTimerPerSleeper
  BY DEF SleepInv, OneTimerPerSleeper
<1> QED
  BY <1>1, Sleepers, PTL

\* The wakeup handler makes a sleeper ready only when its own timer has run
\* out, and nothing else does.
THEOREM SleepsLastLongEnough == Spec => NoEarlyWakeup
<1>1. IInv /\ SleepInv /\ [Next]_vars =>
        [\A t \in Task \ Pausable :
           state[t] = "UNINTERRUPTIBLE" /\ state'[t] = "READY" =>
               \A e \in sleep_time_queue :
                   e.task = t => e.elapsed + 1 >= e.expires_in]_vars
  <2> SUFFICES ASSUME IInv, SleepInv, Next, NEW t \in Task \ Pausable,
                      state[t] = "UNINTERRUPTIBLE", state'[t] = "READY",
                      NEW e \in sleep_time_queue, e.task = t
               PROVE  e.elapsed + 1 >= e.expires_in
    BY DEF vars
  <2>1. sleep_time_queue \subseteq SleepEntry /\ state \in [Task -> State] /\ current_task \in Task
    BY DEF IInv, TypeOK
  <2>2. ~_tsleep
    BY <2>1 DEF _tsleep
  <2>3. PitWakeup
    BY <2>2, SleepersKept DEF Down
  <2>4. PICK o \in sleep_time_queue : Older(o).task = t /\ Expired(Older(o))
    BY <2>1, <2>3 DEF PitWakeup, wakeup_handler
  <2>5. o = e
    BY <2>1, <2>4, OlderFacts DEF SleepInv
  <2> QED
    BY ZenonT(30), <2>1, <2>4, <2>5, OlderFacts DEF Expired
<1> QED
  BY <1>1, Sleepers, PTL DEF Spec, NoEarlyWakeup

\* A zombie off the CPU stays a zombie off the CPU: neither its old timer nor
\* schedule() revives it.
THEOREM DeadStaysDead == Spec => ZombieStaysDown
<1>1. IInv /\ [Next]_vars =>
        [\A t \in Task \ Pausable :
           state[t] = "ZOMBIE" /\ t # current_task =>
               state'[t] = "ZOMBIE" /\ current_task' # t]_vars
  <2> SUFFICES ASSUME IInv, Next, NEW t \in Task \ Pausable,
                      state[t] = "ZOMBIE", t # current_task
               PROVE  state'[t] = "ZOMBIE" /\ current_task' # t
    BY DEF vars
  <2>1. state \in [Task -> State] /\ current_task \in Task
    BY DEF IInv, TypeOK
  <2>2. CASE _tsleep
    BY <2>1, <2>2 DEF _tsleep
  <2>3. CASE PitWakeup
    BY <2>1, <2>3 DEF PitWakeup, wakeup_handler
  <2>4. CASE ~_tsleep /\ ~PitWakeup
    BY <2>4, SleepersKept DEF Down
  <2> QED
    BY <2>2, <2>3, <2>4
<1> QED
  BY <1>1, InductiveInvariant, PTL DEF Spec, ZombieStaysDown

\* Nothing but its own _tsleep brings a zombie back: the task that exit()
\* leaves on the CPU has no other way to undo its exit.
THEOREM RevivedBySleepOnly == Spec => OnlySleepRevives
<1>1. IInv /\ [Next]_vars =>
        [\A t \in Task \ Pausable :
           state[t] = "ZOMBIE" /\ state'[t] # "ZOMBIE" =>
               t = current_task /\ pc[t] = "run" /\ state'[t] = "UNINTERRUPTIBLE"]_vars
  <2> SUFFICES ASSUME IInv, Next, NEW t \in Task \ Pausable,
                      state[t] = "ZOMBIE", state'[t] # "ZOMBIE"
               PROVE  t = current_task /\ pc[t] = "run" /\ state'[t] = "UNINTERRUPTIBLE"
    BY DEF vars
  <2>1. state \in [Task -> State] /\ current_task \in Task
    BY DEF IInv, TypeOK
  <2>2. ~PitWakeup
    BY <2>1 DEF PitWakeup, wakeup_handler
  <2>3. _tsleep
    BY <2>2, SleepersKept DEF Down
  <2> QED
    BY ZenonT(30), <2>1, <2>3 DEF _tsleep, Executes
<1> QED
  BY <1>1, InductiveInvariant, PTL DEF Spec, OnlySleepRevives
-----------------------------------------------------------------------------
(* Preemption. *)

\* Where the running task is in the list, and where a hop of the walk ends.
LEMMA HereFacts ==
    ASSUME IInv
    PROVE  /\ Len(tasks) \in Nat
           /\ IndexOf(current_task) \in 1..Len(tasks)
           /\ tasks[IndexOf(current_task)] = current_task
           /\ \A i, j \in 1..Len(tasks) : tasks[i] = tasks[j] => i = j
           /\ \A k \in 1..Len(tasks) :
                 Ahead(k) = tasks[IF IndexOf(current_task) + k > Len(tasks)
                                  THEN IndexOf(current_task) + k - Len(tasks)
                                  ELSE IndexOf(current_task) + k]
<1>1. Len(tasks) \in Nat /\ DOMAIN tasks = 1..Len(tasks)
  BY DEF IInv, TypeOK
<1>2. IndexOf(current_task) \in 1..Len(tasks) /\ tasks[IndexOf(current_task)] = current_task
  BY <1>1 DEF IndexOf, Listed, IInv, ListIntegrity
<1>3. \A i, j \in 1..Len(tasks) : tasks[i] = tasks[j] => i = j
  BY <1>1 DEF IInv, ListIntegrity
<1> QED
  BY <1>1, <1>2, <1>3 DEF Ahead

\* The walk of schedule() meets every other task of the list before it is back
\* at the running one.
LEMMA WalkMeetsAll ==
    ASSUME IInv, NEW t \in Listed, t # current_task
    PROVE  \E k \in 1..(Len(tasks) - 1) : Ahead(k) = t
<1> DEFINE n == Len(tasks)
           here == IndexOf(current_task)
<1>1. PICK i \in 1..n : tasks[i] = t
  BY DEF Listed, IInv, TypeOK
<1>2. i # here
  BY <1>1, HereFacts
<1> DEFINE k == IF i > here THEN i - here ELSE i + n - here
<1>3. /\ k \in 1..(n - 1) /\ k \in 1..n
      /\ (IF here + k > n THEN here + k - n ELSE here + k) = i
  BY SMTT(30), <1>2, HereFacts
<1> HIDE DEF k, here, n
<1>4. Ahead(k) = t
  BY ZenonT(30), <1>1, <1>3, HereFacts DEF here, n
<1> QED
  BY <1>3, <1>4 DEF n

\* Only after a whole round is the walk back at the running task.
LEMMA WalkReturnsLast ==
    ASSUME IInv, NEW k \in 1..Len(tasks), Ahead(k) = current_task
    PROVE  k = Len(tasks)
<1> DEFINE n == Len(tasks)
           here == IndexOf(current_task)
           j == IF here + k > n THEN here + k - n ELSE here + k
<1>1. j \in 1..n /\ here \in 1..n /\ n \in Nat
  BY SMTT(30), HereFacts
<1>2. tasks[j] = tasks[here]
  BY HereFacts
<1>3. j = here
  BY ZenonT(30), <1>1, <1>2, HereFacts
<1> QED
  BY <1>1, <1>3

\* schedule() passes the CPU on if another task is ready.
LEMMA ScheduleSwitches ==
    ASSUME IInv, schedule, NEW t \in Listed \ {current_task}, state[t] = "READY"
    PROVE  current_task' # current_task
<1>1. PICK j \in 1..(Len(tasks) - 1) : Ahead(j) = t
  BY WalkMeetsAll
<1>2. Runnable(Ahead(j)) /\ Len(tasks) \in Nat
  BY SMTT(30), <1>1 DEF Runnable, IInv, TypeOK
<1>3. ~NoneRunnable
  BY <1>2 DEF NoneRunnable
<1>4. PICK k \in 1..Len(tasks) : FirstRunnable(k) /\ SwitchTo(Ahead(k))
  BY <1>3 DEF schedule
<1>5. k # Len(tasks)
  BY <1>2, <1>4 DEF FirstRunnable
<1> QED
  BY <1>4, <1>5, WalkReturnsLast DEF SwitchTo

\* Round robin takes the CPU away from a task that never yields, at every
\* preempting tick that finds the scheduler unlocked and no wakeup due.
THEOREM PreemptionSwitches == Spec => PreemptsUnlessWaking
<1>1. IInv /\ [Next]_vars =>
        [/\ scheduler_ready
         /\ irq_disable_counter = 0
         /\ clock' # clock
         /\ preempt_phase' = 0
         /\ wakeup_phase' # 0
         /\ \E t \in Listed \ {current_task} : state[t] = "READY"
         => current_task' # current_task]_vars
  <2> SUFFICES ASSUME IInv, Next, scheduler_ready, irq_disable_counter = 0, clock' # clock,
                      preempt_phase' = 0, wakeup_phase' # 0,
                      NEW t \in Listed \ {current_task}, state[t] = "READY"
               PROVE  current_task' # current_task
    BY DEF vars
  <2>1. PitInterrupt
    BY ZenonT(30) DEF Next, lock_scheduler, create_task, add_task, remove_task,
       kill_task, exit, block_task, unblock_task, pause_task, resume_task, get_task,
       add_signal, go, _tsleep, task_yield, SetState, unlock_scheduler
  <2>2. PitPreempt
    BY <2>1 DEF PitInterrupt, PitWakeup, PitCount, requires_wakeup, requires_preemption
  <2>3. schedule
    BY <2>2 DEF PitPreempt, yield
  <2> QED
    BY <2>3, ScheduleSwitches
<1> QED
  BY <1>1, InductiveInvariant, PTL DEF Spec, PreemptsUnlessWaking
-----------------------------------------------------------------------------
(* Identifiers. *)

\* The identifier of a task that is still to be added is nobody's in the list.
PidInv ==
    /\ UniquePids
    /\ \A t \in Task : fresh[t] # NoTask => \A u \in Listed : pid[u] # pid[fresh[t]]

LEMMA PidStep ==
    ASSUME IInv, PidInv, OneCreator, OneCreator', [Next]_vars
    PROVE  PidInv'
<1>1. /\ tasks \in Seq(Task) /\ Listed \subseteq Task /\ current_task \in Task
      /\ pc \in [Task -> Pc] /\ fresh \in [Task -> Task \cup {NoTask}] /\ pid \in [Task -> Nat]
  BY SMTT(30) DEF IInv, TypeOK, Listed
<1>2. \A t \in Task : pc[t] = "created" <=> fresh[t] # NoTask
  BY DEF IInv, FreshWhileCreating
<1>3. CASE UNCHANGED <<tasks, pid, fresh>>
  BY <1>3 DEF PidInv, UniquePids, Listed
<1>4. CASE create_task
  <2>1. PICK t \in Task, p \in 1..(Len(tasks) + 1) :
          /\ state[t] = "FREE"
          /\ get_free_pid(p)
          /\ pid' = [pid EXCEPT ![t] = p]
          /\ fresh' = [fresh EXCEPT ![current_task] = t]
    BY Zenon, <1>4 DEF create_task
  <2>2. tasks' = tasks /\ pc' = [pc EXCEPT ![current_task] = "created"]
    BY <1>4 DEF create_task, unlock_scheduler, Goto
  <2>3. Listed' = Listed /\ t \notin Listed
    BY <2>1, <2>2 DEF Listed, IInv, ListedAllocated
  <2>4. pid'[t] = p /\ \A u \in Listed : pid'[u] = pid[u] /\ pid[u] # p
    BY <2>1, <2>3, <1>1 DEF get_free_pid
  <2>5. UniquePids'
    BY <2>3, <2>4 DEF PidInv, UniquePids
  <2>6. \A c \in Task : fresh'[c] # NoTask => c = current_task
    <3> SUFFICES ASSUME NEW c \in Task, c # current_task, fresh[c] # NoTask PROVE FALSE
      BY <2>1, <1>1
    <3>1. pc'[c] = "created" /\ pc'[current_task] = "created"
      BY <1>1, <1>2, <2>2
    <3> QED
      BY <1>1, <3>1 DEF OneCreator
  <2>7. fresh'[current_task] = t
    BY <2>1, <1>1
  <2> QED
    BY <2>3, <2>4, <2>5, <2>6, <2>7 DEF PidInv
<1>5. CASE add_task
  <2> DEFINE t == fresh[current_task]
  <2>1. /\ pc[current_task] = "created" /\ tasks' = Append(tasks, t) /\ pid' = pid
        /\ fresh' = [fresh EXCEPT ![current_task] = NoTask]
    BY <1>5 DEF add_task, Executes
  <2>2. t \in Task /\ t # NoTask /\ \A u \in Listed : pid[u] # pid[t]
    BY <1>1, <1>2, <2>1, TaskAssumption DEF PidInv
  <2> HIDE DEF t
  <2>3. Listed' = Listed \cup {t}
    BY <1>1, <2>1, <2>2, ListedAppended
  <2>4. UniquePids'
    BY <2>1, <2>2, <2>3 DEF PidInv, UniquePids
  <2>5. \A c \in Task : fresh'[c] = NoTask
    <3> SUFFICES ASSUME NEW c \in Task, c # current_task, fresh[c] # NoTask PROVE FALSE
      BY <2>1, <1>1
    <3> QED
      BY <1>1, <1>2, <2>1 DEF OneCreator
  <2> QED
    BY <2>4, <2>5 DEF PidInv
<1>6. CASE remove_task
  <2>1. PICK i \in 2..Len(tasks) :
          tasks' = [j \in 1..(Len(tasks) - 1) |->
                       IF j < i THEN tasks[j] ELSE tasks[j + 1]]
    BY <1>6 DEF remove_task
  <2>2. pid' = pid /\ fresh' = fresh
    BY <1>6 DEF remove_task
  <2>3. Listed' \subseteq Listed
    <3> SUFFICES ASSUME NEW j \in DOMAIN tasks' PROVE tasks'[j] \in Listed
      BY DEF Listed
    <3>1. j \in 1..(Len(tasks) - 1) /\ Len(tasks) \in Nat /\ DOMAIN tasks = 1..Len(tasks)
      BY <1>1, <2>1
    <3> QED
      BY <2>1, <3>1 DEF Listed
  <2> QED
    BY <2>2, <2>3 DEF PidInv, UniquePids
<1>7. Next => UNCHANGED <<tasks, pid, fresh>> \/ create_task \/ add_task \/ remove_task
  BY ZenonT(30) DEF Next, PitInterrupt, PitWakeup, PitPreempt, PitCount, PitFrame,
     lock_scheduler, kill_task, exit, block_task, unblock_task, pause_task, resume_task,
     get_task, add_signal, go, _tsleep, task_yield, SetState, taskVars
<1>8. UNCHANGED vars => UNCHANGED <<tasks, pid, fresh>>
  BY DEF vars
<1> QED
  BY <1>3, <1>4, <1>5, <1>6, <1>7, <1>8

\* Identifiers are unique as long as no task calls create_task before another
\* one has added the task it created: the unlocked stretch between the two
\* calls is the only way to a duplicate.
THEOREM SerialCreatorsGetUniquePids == Spec /\ []OneCreator => []UniquePids
<1>1. Init => PidInv
  BY SMTT(30) DEF Init, PidInv, UniquePids, Listed
<1>2. PidInv => UniquePids
  BY DEF PidInv
<1> QED
  BY <1>1, <1>2, PidStep, InductiveInvariant, PTL DEF Spec
=============================================================================
