\* Mailboxes: one account, two mailboxes, any destination.  Statistics: every
\* step of the chart and of the warning in six hours.  Date formats: German
\* and Spanish, patterns of at most four characters.  Workspace: two users share
\* a browser and sign in twice; notices of one group come further apart than the
\* grouping window.  Security settings: two administrators, two
\* edits and two saves or resets between them; their transactions may overlap,
\* the environment enables no Geo-IP and lists the other provider as fallback.
SPECIFICATION MCSpec
CONSTANTS
    a1 = a1
    outlookBox = outlookBox
    imapBox = imapBox
    None = None
    Ids = {a1}
    Boxes = {outlookBox, imapBox}
    OAuthBoxes = {outlookBox}
    UserOf <- NamesOfBoxes
    Providers = {"GMAIL", "OUTLOOK", "IMAP"}
    InitialRows <- OneRow
    MaxRequests = 2
    MaxLoads = 1
    MaxFolderLoads = 2
    MaxFaults = 1
    MaxTurns = 3
    NoSpan = NoSpan
    HoursIn <- MCHoursIn
    Histories <- MCHistories
    Spans <- MCSpans
    Threshold = 2
    ByTheHour = 3
    ByTheDay = 5
    FewDays = 4
    SomeWeeks = 5
    Years = 6
    NoticeAge = 1
    WarningAge = 2
    Start = 4
    End = 5
    Locales = {"de", "es"}
    Keys = {"J"}
    MaxLength = 4
    MaxDepartures = 1
    s1 = s1 s2 = s2
    Users = {u1, u2}
    Nobody = Nobody
    Sections <- TwoSections
    Zones = {auto, manual}
    DefaultZone = auto
    Slots = {call1, call2}
    Group = Group
    NoGroup = NoGroup
    MaxHistory = 1
    MaxEvents = 2
    MaxSignIns = 2
    Grouping = FALSE
    Admins = {alice, bob}
    GeoProviders = {ipwhois, ipinfo}
    TokenProvider = ipinfo
    KeyProvider = turnstile
    FreeProvider = altcha
    EnvPrimary = ipwhois
    EnvFallbacks <- MCFallbacks
    EnvGeo = FALSE
    EnvChallenge = TRUE
    Unset = Unset
    MaxEdits = 2
    MaxSaves = 2
SYMMETRY Symmetry
CHECK_DEADLOCK FALSE
INVARIANTS  SavesAreTested FoldersAreTheForms RowsAreTheirPoints NoticesStayWithUser EnteredSecretsStay
PROPERTIES LoadsKeepTheView UnchangedFormatsSurvive
