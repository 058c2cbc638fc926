CONSTANTS
    Idle = Idle
    NoTask = NoTask
    a = a
    b = b
    c = c
    d = d
    Task <- TwoTasks
    Signal = {}
    PreemptTicks = 2
    WakeupTicks = 4
    SleepTicks = {1, 3}
    KillPids = {1, 2}
    Pausable = {b}
    MaxSignals = 0
SPECIFICATION Spec
INVARIANTS IdleAtHead OnlyCurrentExecutes ListIntegrity LockBalanced TimelyWakeup OneTimerPerSleeper
PROPERTIES ZombieStaysDown NoEarlyWakeup PreemptsUnlessWaking
