---------------------------- MODULE MCMailFlow ----------------------------
(* Values of MailFlow's constants for TLC. *)
EXTENDS MailFlow

CONSTANTS s1, s2, inbox, spam, d1, d2, a, b, c, ida

\* Content a is accepted, b only without an attachment, anything else is
\* rejected for good.
Mixed == [d \in Destination |->
            [x \in Content |-> CASE x = a -> "accept" [] x = b -> "sanitize"
                                 [] OTHER -> "reject"]]

OwnIds == [x \in Content |-> IF x = a THEN ida ELSE NoMessageId]
SharedId == [x \in Content |-> ida]

AllImap == [s \in Source |-> "IMAP"]
ImapAndPop == [s \in Source |-> IF s = s1 THEN "IMAP" ELSE "POP3"]

Delete == [s \in Source |-> [markRead |-> FALSE, action |-> "DELETE"]]
DeleteFirst == [s \in Source |-> [markRead |-> FALSE,
                                  action |-> IF s = s1 THEN "DELETE" ELSE "NONE"]]
MarkRead == [s \in Source |-> [markRead |-> TRUE, action |-> "NONE"]]
ReadAll == [s \in Source |-> FALSE]
OnlyUnread == [s \in Source |-> TRUE]
=============================================================================
