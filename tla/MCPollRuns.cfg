\* Two sources, two workers, an IDLE watcher on one of them.
SPECIFICATION FairSpec
CONSTANTS
    s1 = s1 s2 = s2
    Source = {s1, s2}
    IdleSource = {s1}
    NoSource = NoSource
    MaxParallel = 2
    MaxMessages = 1
    MaxControls = 3
INVARIANTS FinishedRunsAreSettled RunningIsHeld OnePollPerSource
PROPERTIES StopEndsRun
