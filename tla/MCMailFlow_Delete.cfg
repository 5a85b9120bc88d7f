\* One IMAP source that deletes what it imported: a folder
\* the server may rebuild, and faults.
SPECIFICATION FairSpec
CONSTANTS
    s1 = s1 s2 = s2 inbox = inbox spam = spam d1 = d1 d2 = d2 a = a b = b c = c ida = ida
    Source = {s1}
    Folder = {inbox}
    Inbox = inbox
    Destination = {d1}
    Content = {a, b}
    MessageId = {ida}
    NoMessageId = NoMessageId
    None = None
    MessageIdOf <- OwnIds
    Verdict <- Mixed
    Protocol <- AllImap
    PostPoll <- Delete
    UnreadOnly <- ReadAll
    FetchWindow = 2
    InstantsFollowUids = TRUE
    MaxUid = 2
    MaxInstant = 1
    MaxValidity = 2
    MaxFaults = 2
INVARIANTS ErasedWasImportedWhileUidsHold CheckpointCovers
PROPERTIES MailIsImported
