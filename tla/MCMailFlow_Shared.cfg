\* An IMAP and a POP3 source that share one destination.
SPECIFICATION Spec
CONSTANTS
    s1 = s1 s2 = s2 inbox = inbox spam = spam d1 = d1 d2 = d2 a = a b = b c = c ida = ida
    Source = {s1, s2}
    Folder = {inbox}
    Inbox = inbox
    Destination = {d1}
    Content = {a, b}
    MessageId = {ida}
    NoMessageId = NoMessageId
    None = None
    MessageIdOf <- SharedId
    Verdict <- Mixed
    Protocol <- ImapAndPop
    PostPoll <- DeleteFirst
    UnreadOnly <- ReadAll
    FetchWindow = 1
    InstantsFollowUids = TRUE
    MaxUid = 2
    MaxInstant = 1
    MaxValidity = 1
    MaxFaults = 1
INVARIANT LedgerIsTrue
PROPERTIES NoRedelivery KeepsPromise
