CONSTANTS
    Idle = Idle
    NoTask = NoTask
    a = a
    b = b
    c = c
    d = d
    Task <- TwoTasks
    Signal = {s1}
    PreemptTicks = 2
    WakeupTicks = 4
    SleepTicks = {3}
    KillPids = {}
    Pausable = {}
    MaxSignals = 1
SPECIFICATION FairSpec
PROPERTIES NoStarvation SleepEnds SignalsDrain
