CONSTANTS
    Source = {s1}
    Folder = {f1}
    Slot = {1, 2}
    Drainer = {d1}
    Scheduler = scheduler
    MaxMail = 1
    MaxDisturbances = 1
SPECIFICATION FairSpec
CHECK_DEADLOCK FALSE
INVARIANT MailIsSpokenFor
PROPERTIES
    MailIsHandled
    StoppedWatchersEnd
