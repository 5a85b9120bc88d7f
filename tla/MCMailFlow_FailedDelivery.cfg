\* One IMAP source of unread mail, in any date order, marked as read once
\* imported, and one failed delivery.
SPECIFICATION Spec
CONSTANTS
    s1 = s1 s2 = s2 inbox = inbox spam = spam d1 = d1 d2 = d2 a = a b = b c = c ida = ida
    Source = {s1}
    Folder = {inbox, spam}
    Inbox = inbox
    Destination = {d1}
    Content = {a, c}
    MessageId = {ida}
    NoMessageId = NoMessageId
    None = None
    MessageIdOf <- OwnIds
    Verdict <- Mixed
    Protocol <- AllImap
    PostPoll <- MarkRead
    UnreadOnly <- OnlyUnread
    FetchWindow = 2
    InstantsFollowUids = FALSE
    MaxUid = 2
    MaxInstant = 2
    MaxValidity = 1
    MaxFaults = 1
PROPERTY FailedDeliveryIsRetried
