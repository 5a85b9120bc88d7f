\* One request of the page, one from elsewhere, one fault; three steps with a
\* form.  Two accounts that share a browser, one of them with a passkey, one
\* visit and one loss between them; beside what an earlier session left, no
\* loss.  A registration with one mishap of any kind.
CONSTANTS
    None = None
    u1 = u1
    u2 = u2
    Users = {u1, u2}
    Root = u1
    DefaultMulti = TRUE
    OtherJobs <- OthersTurn
    MaxRequests = 1
    MaxOthers = 1
    MaxLoads = 1
    MaxFaults = 1
    s1 = s1
    s2 = s2
    NoSource = NoSource
    Sources = {s1, s2}
    Values = {0, 1, 2}
    Default = 0
    Discards = FALSE
    Accounts = {u1, u2}
    MaxTasks = 3
    MaxReads = 2
    MaxSlips = 1
    PasskeyUsers = {u2}
    Nobody = Nobody
    MaxLogins = 2
    MaxCalls = 2
    MaxErrors = 1
    MaxVisits = 1
    Retries = 1
    NoName = NoName
    Challenges = {c1, c2, c3}
    FailureLimit = 2
    MaxFetches = 2
    MaxMishaps = 1
SPECIFICATION MCSpec
CONSTRAINT UnsettledBound
INVARIANTS EachSourceGetsItsOwn ActsAsItsUser HandoffBelongsToApprover SolutionsCountOnce
PROPERTIES AtLeastOneAdmin ModeMatchesAccounts
CHECK_DEADLOCK FALSE
