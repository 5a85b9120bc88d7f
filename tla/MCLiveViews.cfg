\* Either page, one fault of any kind, two runs or a run and an act of the user;
\* two calls of the extension's worker, a manual poll, an unasked move.
SPECIFICATION MCSpec
CONSTANTS
    Pages = {"web", "remote"}
    MaxRuns = 2
    MaxActs = 1
    MaxReads = 1
    MaxQueue = 2
    MaxFaults = 1
    MaxTurns = 2
    Silent = TRUE
    Tasks = {t1, t2}
    MaxPollRuns = 1
    MaxAttempts = 2
    MaxMoves = 1
    MaxPolls = 1
    MaxTroubles = 1
CHECK_DEADLOCK FALSE
INVARIANT OverlayIsTimed
PROPERTIES ShownRunEnds DisconnectedPageCatchesUp RunningBadgeEnds
