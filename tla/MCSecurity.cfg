\* Two calls around one sign-in, rotated twice; each is any of the worker's
\* badge refresh, the popup's manual poll, the options page's first look, a
\* sign-in and a change of preferences.  Two keys, one record, three rotations,
\* two deployments after the first, one fault: with the page open nothing is
\* deployed any more, without it the administrator calls the server from
\* elsewhere.
SPECIFICATION MCSpec
CONSTANTS
    Flows = {f1, f2}
    Kinds = {"badge", "popupPoll", "identity", "signIn", "prefs"}
    MaxSessions = 1
    MaxTokens = 3
    MaxChecks = 1
    Keys = {k1, k2}
    Records = {r1}
    k1 = k1
    k2 = k2
    None = None
    OverrideAllowed = TRUE
    CooldownOn = TRUE
    ReauthRequired = TRUE
    MaxAsked = 3
    MaxDeploys = 2
    MaxFaults = 1
SYMMETRY Symmetry
CHECK_DEADLOCK FALSE
INVARIANTS AnswersAreCurrent CarefulFlowsKeepLiveTokens SecretsStayReadable
PROPERTIES RunsAreAsApproved TroubleIsReviewed
