------------------------------ MODULE MailFlow ------------------------------
(***************************************************************************)
(* The import pipeline of one poll of one source mailbox, for every source  *)
(* of a deployment: which messages a fetch selects, the order in which they *)
(* are handled, duplicate detection, delivery to the destination mailbox,   *)
(* the import ledger (table imported_message), the post-poll action on the  *)
(* source, and the checkpoint the next fetch starts from                    *)
(* (PollingSourceExecutionService.execute and everything it calls).         *)
(*                                                                         *)
(* Each step below is one remote call or one database transaction of the    *)
(* code, so a failure, a stop, a crash, another source, or the owner of the *)
(* mailbox may act between any two of them.  Polls of one source never      *)
(* overlap (PollCoordination); polls of different sources do.               *)
(***************************************************************************)
EXTENDS Integers, FiniteSets

CONSTANTS
    Source, Folder, Destination,
    Inbox,              \* the one folder of a POP3 mailbox
    Content,            \* raw MIME bodies, told apart by their SHA-256
    MessageId,
    MessageIdOf,        \* the normalized Message-ID header of each content
    NoMessageId,
    Verdict,            \* what a destination does with a content
    Protocol,           \* "IMAP" or "POP3" per source
    PostPoll,           \* [markRead, action] per source
    UnreadOnly,         \* per source
    FetchWindow,
    InstantsFollowUids, \* received dates never go back as UIDs grow
    None,
    MaxUid,             \* bound: arrivals per source between rebuilds
    MaxInstant, MaxValidity, MaxFaults    \* bounds: dates, rebuilds, faults

Uid == 1..MaxUid
Instant == 1..MaxInstant
Validity == 1..MaxValidity

Mail == [folder : Folder, uid : Uid, at : Instant, raw : Content, seen : BOOLEAN]
FetchedMessage ==
    [folder : Folder, validity : Validity, uid : Uid, at : Instant, raw : Content]
SourceKey == [src : Source, folder : Folder, validity : Validity, uid : Uid]
ImportedMessage == [key : SourceKey, raw : Content, sanitized : BOOLEAN]

ASSUME MailFlowAssumption ==
    /\ Inbox \in Folder
    /\ MessageIdOf \in [Content -> MessageId \cup {NoMessageId}]
    /\ Verdict \in [Destination -> [Content -> {"accept", "sanitize", "reject"}]]
    /\ Protocol \in [Source -> {"IMAP", "POP3"}]
    /\ PostPoll \in [Source -> [markRead : BOOLEAN,
                                action : {"NONE", "FORWARDED", "MOVE", "DELETE"}]]
    /\ \A s \in Source : Protocol[s] = "POP3" =>
          ~PostPoll[s].markRead /\ PostPoll[s].action = "NONE"
    /\ UnreadOnly \in [Source -> BOOLEAN]
    /\ InstantsFollowUids \in BOOLEAN
    /\ FetchWindow \in Nat
    /\ MaxUid \in Nat /\ MaxInstant \in Nat /\ MaxValidity \in Nat /\ MaxFaults \in Nat
    /\ MaxValidity > 0

ASSUME NoneAssumption ==
    None \notin FetchedMessage /\ None \notin [validity : Validity, uid : Uid]

VARIABLES
    mailbox,        \* the messages in each source mailbox
    validity,       \* UIDVALIDITY of each source folder
    nextUid,        \* UIDNEXT of each source folder
    target,         \* the destination each source is configured for
    delivered,      \* how often each content was put in each destination mailbox
    imported,       \* the rows of imported_message per destination identity
    checkpoint,     \* the rows of source_imap_checkpoint
    popCheckpoint,  \* the POP3 checkpoint of source_polling_state
    pc,             \* where the poll of each source is
    to,             \* the destination the running poll resolved when it started
    batch,          \* fetched messages the running poll has not finished
    cur,            \* the message the running poll is handling
    looked,         \* history: the ledger a poll about to deliver was looked up in
    excused,        \* history: messages a fetch passed over, or the code skips
    erased,         \* history: messages the importer removed from a source
    faults          \* history: faults so far

remoteVars == <<mailbox, validity, nextUid, target>>
storeVars == <<imported, checkpoint, popCheckpoint>>
pollVars == <<pc, to, batch, cur, looked>>
vars == <<mailbox, validity, nextUid, target, delivered, imported, checkpoint,
          popCheckpoint, pc, to, batch, cur, looked, excused, erased, faults>>

Init ==
    /\ mailbox = [s \in Source |-> {}]
    /\ validity = [s \in Source |-> [f \in Folder |-> 1]]
    /\ nextUid = [s \in Source |-> [f \in Folder |-> 1]]
    /\ target \in [Source -> Destination]
    /\ delivered = [d \in Destination |-> [c \in Content |-> 0]]
    /\ imported = [d \in Destination |-> {}]
    /\ checkpoint = [s \in Source |-> [d \in Destination |-> [f \in Folder |-> None]]]
    /\ popCheckpoint = [s \in Source |-> None]
    /\ pc = [s \in Source |-> "idle"]
    /\ to = target
    /\ batch = [s \in Source |-> {}]
    /\ cur = [s \in Source |-> None]
    /\ looked = [s \in Source |-> {}]
    /\ excused = {}
    /\ erased = {}
    /\ faults = 0

-----------------------------------------------------------------------------
(* The mailbox server and the owner of the mailbox. *)

FoldersOf(s) == IF Protocol[s] = "POP3" THEN {Inbox} ELSE Folder

\* New mail reaches a source folder; POP3 has no received dates.
Arrive(s, f, c, t) ==
    /\ f \in FoldersOf(s)
    /\ Protocol[s] = "POP3" => t = 1
    /\ nextUid[s][f] \in Uid
    /\ Cardinality({p \in Folder \X Uid : p[2] < nextUid[s][p[1]]}) < MaxUid
    /\ InstantsFollowUids =>
          \A m \in mailbox[s] : m.folder = f => m.at <= t
    /\ mailbox' = [mailbox EXCEPT ![s] = @ \cup
          {[folder |-> f, uid |-> nextUid[s][f], at |-> t, raw |-> c, seen |-> FALSE]}]
    /\ nextUid' = [nextUid EXCEPT ![s][f] = @ + 1]
    /\ UNCHANGED <<validity, target, delivered, storeVars, pollVars, excused, erased, faults>>

\* The owner removes or reads a message with another mail client; reading
\* matters only to a source that imports unread mail.
OwnerDeletes(s, m) ==
    /\ mailbox' = [mailbox EXCEPT ![s] = @ \ {m}]
    /\ UNCHANGED <<validity, nextUid, target, delivered, storeVars, pollVars, excused,
                   erased, faults>>

OwnerReads(s, m) ==
    /\ UnreadOnly[s] /\ ~m.seen
    /\ mailbox' = [mailbox EXCEPT ![s] = (@ \ {m}) \cup {[m EXCEPT !.seen = TRUE]}]
    /\ UNCHANGED <<validity, nextUid, target, delivered, storeVars, pollVars, excused,
                   erased, faults>>

\* The ways to number a set of messages from 1 in the order of their UIDs.
Renumberings(S) ==
    {r \in [S -> Uid] :
        /\ \A m, n \in S : m.uid < n.uid => r[m] < r[n]
        /\ \A m \in S : \A u \in 1..r[m] : \E n \in S : r[n] = u}

\* The server rebuilds an IMAP folder: a new UIDVALIDITY, and the messages it
\* holds numbered again.
Rebuild(s, f) ==
    LET kept == {m \in mailbox[s] : m.folder = f}
    IN  /\ Protocol[s] = "IMAP"
        /\ validity[s][f] < MaxValidity
        /\ validity' = [validity EXCEPT ![s][f] = @ + 1]
        /\ \E r \in Renumberings(kept), next \in 1..(MaxUid + 1) :
              /\ \A u \in Uid : u < next <=> \E m \in kept : r[m] = u
              /\ mailbox' = [mailbox EXCEPT ![s] =
                    (@ \ kept) \cup {[m EXCEPT !.uid = r[m]] : m \in kept}]
              /\ nextUid' = [nextUid EXCEPT ![s][f] = next]
        /\ UNCHANGED <<target, delivered, storeVars, pollVars, excused, erased, faults>>

\* The user points the source at another destination mailbox.
Retarget(s, d) ==
    /\ d # target[s]
    /\ target' = [target EXCEPT ![s] = d]
    /\ UNCHANGED <<mailbox, validity, nextUid, delivered, storeVars, pollVars, excused,
                   erased, faults>>

-----------------------------------------------------------------------------
(* Which messages a fetch selects (MailSourceCheckpointSelector). *)

InFolder(s, f) == {m \in mailbox[s] : m.folder = f}

\* The last FetchWindow messages of a set, by UID (mailbox order).
Tail(S) == LET window == IF FetchWindow > 1 THEN FetchWindow ELSE 1
           IN  {m \in S : Cardinality({n \in S : n.uid > m.uid}) < window}

Unread(s, S) == IF Protocol[s] = "IMAP" /\ UnreadOnly[s] THEN {m \in S : ~m.seen} ELSE S

\* Fault: a checkpoint of another UIDVALIDITY is trusted.
StartIgnoringValidity(s, d, f) ==
    IF Protocol[s] = "IMAP" THEN checkpoint[s][d][f] ELSE popCheckpoint[s]

\* The checkpoint a fetch may start from: one of the folder's UIDVALIDITY, or
\* one whose UIDL the POP3 server still lists.
StartOf(s, d, f) ==
    LET cp == IF Protocol[s] = "IMAP" THEN checkpoint[s][d][f] ELSE popCheckpoint[s]
        valid == /\ cp # None
                 /\ IF Protocol[s] = "IMAP"
                    THEN cp.validity = validity[s][f]
                    ELSE cp.dest = d /\ \E m \in InFolder(s, f) : m.uid = cp.uid
    IN  IF valid THEN cp ELSE None

\* A UID range that ends in LASTUID always holds the last message.
LastMessage(s, f) ==
    {m \in InFolder(s, f) : Protocol[s] = "IMAP" /\ \A n \in InFolder(s, f) : n.uid <= m.uid}

Candidates(s, d, f) ==
    LET start == StartOf(s, d, f)
    IN  IF start # None
        THEN Unread(s, {m \in InFolder(s, f) : m.uid > start.uid} \cup LastMessage(s, f))
        ELSE Tail(Unread(s, InFolder(s, f)))

\* What a fetch passes over by the rules: mail read by the owner, and without
\* a checkpoint everything before the fetch window.
PassedOver(s, d, f) ==
    LET unread == Unread(s, InFolder(s, f))
    IN  IF StartOf(s, d, f) # None
        THEN {m \in InFolder(s, f) \ unread : m.uid > StartOf(s, d, f).uid}
        ELSE InFolder(s, f) \ Tail(unread)

\* The message a mail becomes once its raw bytes and metadata are read.
Fetched(s, m) == [folder |-> m.folder, validity |-> validity[s][m.folder],
                  uid |-> m.uid, at |-> m.at, raw |-> m.raw]

\* Fault: the newest message first.
NewestFirst(s, m, n) == m.uid > n.uid

\* The order of a batch: by received date, mailbox order where dates agree;
\* POP3 keeps mailbox order.
Before(s, m, n) ==
    IF Protocol[s] = "IMAP"
    THEN m.at < n.at \/ (m.at = n.at /\ m.folder = n.folder /\ m.uid < n.uid)
    ELSE m.uid < n.uid

KeyOf(s, m) ==
    [src |-> s, folder |-> m.folder, validity |-> m.validity, uid |-> m.uid]

-----------------------------------------------------------------------------
(* One poll of source s.  An operator marked Fault is never part of Next: it  *)
(* is what a plausible bug would put in the place of the operator below it.   *)

Goto(s, step) == pc' = [pc EXCEPT ![s] = step]

\* The poll ends and drops what it had fetched.
Leave(s) ==
    /\ Goto(s, "idle")
    /\ batch' = [batch EXCEPT ![s] = {}]
    /\ cur' = [cur EXCEPT ![s] = None]
    /\ looked' = [looked EXCEPT ![s] = {}]
    /\ UNCHANGED to

CanFault == faults < MaxFaults
Fault == CanFault /\ faults' = faults + 1

\* The poll resolves its destination and fetches.  Up to a whole fault's worth
\* of messages cannot be materialized and are left out, unless a folder
\* yields nothing else, which fails the fetch.
Fetch(s) ==
    LET d == target[s]
        candidates == UNION {Candidates(s, d, f) : f \in FoldersOf(s)}
        passed == UNION {PassedOver(s, d, f) : f \in FoldersOf(s)}
    IN  /\ pc[s] = "idle"
        /\ \E unreadable \in SUBSET candidates :
              /\ IF unreadable = {} THEN UNCHANGED faults ELSE Fault
              /\ \A m \in unreadable :
                    \E n \in candidates \ unreadable : n.folder = m.folder
              /\ batch' = [batch EXCEPT ![s] =
                    {Fetched(s, m) : m \in candidates \ unreadable}]
              /\ excused' = excused \cup
                    {[dest |-> d, key |-> KeyOf(s, Fetched(s, m))] : m \in passed \cup unreadable}
        /\ to' = [to EXCEPT ![s] = d]
        /\ Goto(s, "next")
        /\ UNCHANGED <<remoteVars, delivered, storeVars, cur, looked, erased>>

\* Fault: the raw hash is looked up among the imports of the same source.
MatchOwnImports(s, d, m) ==
    {r \in imported[d] : r.key = KeyOf(s, m) \/ (r.key.src = s /\ r.raw = m.raw)}

\* The rows duplicateStatus would return: by source key, else by raw hash,
\* else by the Message-ID within the same source.
MatchingImports(s, d, m) ==
    LET byKey == {r \in imported[d] : r.key = KeyOf(s, m)}
        byRaw == {r \in imported[d] : r.raw = m.raw}
        byMessageId == {r \in imported[d] :
                           /\ r.key.src = s
                           /\ MessageIdOf[m.raw] # NoMessageId
                           /\ MessageIdOf[r.raw] = MessageIdOf[m.raw]}
    IN  IF byKey # {} THEN byKey ELSE IF byRaw # {} THEN byRaw ELSE byMessageId

\* Fault: a duplicate of a sanitized import gets the post-poll action.
ExamineForgetsSanitized(s, m) ==
    /\ pc[s] = "next"
    /\ m \in batch[s]
    /\ \A n \in batch[s] : ~Before(s, n, m)
    /\ cur' = [cur EXCEPT ![s] = m]
    /\ Goto(s, IF MatchingImports(s, to[s], m) = {} THEN "deliver" ELSE "act")
    /\ UNCHANGED <<remoteVars, delivered, storeVars, to, batch, looked, excused, erased, faults>>

\* The poll takes the next message of its batch and looks it up: a known
\* message goes on to its post-poll action, unless only a sanitized copy of it
\* was imported; an unknown one goes on to delivery.
Examine(s, m) ==
    LET matches == MatchingImports(s, to[s], m)
    IN  /\ pc[s] = "next"
        /\ m \in batch[s]
        /\ \A n \in batch[s] : ~Before(s, n, m)
        /\ cur' = [cur EXCEPT ![s] = m]
        /\ \/ /\ matches = {} /\ Goto(s, "deliver")
              /\ looked' = [looked EXCEPT ![s] = imported[to[s]]]
           \/ /\ \E r \in matches : Goto(s, IF r.sanitized THEN "mark" ELSE "act")
              /\ UNCHANGED looked
        /\ UNCHANGED <<remoteVars, delivered, storeVars, to, batch, excused, erased, faults>>

\* Fault: the post-poll action runs before the import is recorded.
DeliverThenAct(s) ==
    /\ pc[s] = "deliver"
    /\ Verdict[to[s]][cur[s].raw] # "reject"
    /\ Goto(s, "act")
    /\ delivered' = [delivered EXCEPT ![to[s]][cur[s].raw] = @ + 1]
    /\ looked' = [looked EXCEPT ![s] = {}]
    /\ UNCHANGED <<remoteVars, storeVars, to, batch, cur, excused, erased, faults>>

\* The destination takes the message (the original, or the one retry without
\* prohibited attachments), or rejects both for good.
Deliver(s) ==
    /\ pc[s] = "deliver"
    /\ IF Verdict[to[s]][cur[s].raw] = "reject"
       THEN /\ Goto(s, "mark")
            /\ excused' = excused \cup {[dest |-> to[s], key |-> KeyOf(s, cur[s])]}
            /\ UNCHANGED delivered
       ELSE /\ Goto(s, "record")
            /\ delivered' = [delivered EXCEPT ![to[s]][cur[s].raw] = @ + 1]
            /\ UNCHANGED excused
    /\ looked' = [looked EXCEPT ![s] = {}]
    /\ UNCHANGED <<remoteVars, storeVars, to, batch, cur, erased, faults>>

\* The destination takes the message but its answer is lost.
DeliverUnacknowledged(s) ==
    /\ pc[s] = "deliver"
    /\ Verdict[to[s]][cur[s].raw] # "reject"
    /\ Fault
    /\ delivered' = [delivered EXCEPT ![to[s]][cur[s].raw] = @ + 1]
    /\ Leave(s)
    /\ UNCHANGED <<remoteVars, storeVars, excused, erased>>

\* Fault: imported_message has no unique constraint.
RecordUnchecked(s) ==
    LET row == [key |-> KeyOf(s, cur[s]), raw |-> cur[s].raw,
                sanitized |-> Verdict[to[s]][cur[s].raw] = "sanitize"]
    IN  /\ pc[s] = "record"
        /\ imported' = [imported EXCEPT ![to[s]] = @ \cup {row}]
        /\ Goto(s, IF row.sanitized THEN "mark" ELSE "act")
        /\ UNCHANGED <<remoteVars, delivered, checkpoint, popCheckpoint, to, batch, cur,
                       looked, excused, erased, faults>>

\* recordImport: the unique constraints of imported_message refuse a second
\* row with the same content or source key, which fails the poll.
Record(s) ==
    LET m == cur[s]
        row == [key |-> KeyOf(s, m), raw |-> m.raw,
                sanitized |-> Verdict[to[s]][m.raw] = "sanitize"]
        taken == \E r \in imported[to[s]] : r.key = row.key \/ r.raw = row.raw
    IN  /\ pc[s] = "record"
        /\ IF taken
           THEN Leave(s) /\ UNCHANGED imported
           ELSE /\ imported' = [imported EXCEPT ![to[s]] = @ \cup {row}]
                /\ Goto(s, IF row.sanitized THEN "mark" ELSE "act")
                /\ UNCHANGED <<to, batch, cur, looked>>
        /\ UNCHANGED <<remoteVars, delivered, checkpoint, popCheckpoint, excused,
                       erased, faults>>

\* applyPostPollSettings reopens the folder the message came from and finds it
\* again by its UID; a message that is gone fails the poll.
Act(s) ==
    LET m == cur[s]
        found == {n \in mailbox[s] : n.folder = m.folder /\ n.uid = m.uid}
        removes == PostPoll[s].action \in {"MOVE", "DELETE"}
    IN  /\ pc[s] = "act"
        /\ IF PostPoll[s].action = "NONE" /\ ~PostPoll[s].markRead
           THEN /\ Goto(s, "mark")
                /\ UNCHANGED <<mailbox, erased, to, batch, cur, looked>>
           ELSE IF found = {}
           THEN Leave(s) /\ UNCHANGED <<mailbox, erased>>
           ELSE /\ mailbox' = [mailbox EXCEPT ![s] = (@ \ found) \cup
                      IF removes THEN {}
                      ELSE {[n EXCEPT !.seen = @ \/ PostPoll[s].markRead] : n \in found}]
                /\ erased' = IF removes
                             THEN erased \cup {[dest |-> to[s], src |-> s, raw |-> n.raw] :
                                               n \in found}
                             ELSE erased
                /\ Goto(s, "mark")
                /\ UNCHANGED <<to, batch, cur, looked>>
        /\ UNCHANGED <<validity, nextUid, target, delivered, storeVars, excused, faults>>

\* Closing the folder swallows a failed expunge: the message stays.
ActNotExpunged(s) ==
    /\ pc[s] = "act"
    /\ PostPoll[s].action \in {"MOVE", "DELETE"}
    /\ Fault
    /\ Goto(s, "mark")
    /\ UNCHANGED <<remoteVars, delivered, storeVars, to, batch, cur, looked, excused, erased>>

\* Fault: the IMAP checkpoint is the last UID handled, not the highest.
MarkLastHandled(s) ==
    /\ pc[s] = "mark"
    /\ Protocol[s] = "IMAP"
    /\ checkpoint' = [checkpoint EXCEPT ![s][to[s]][cur[s].folder] =
          [validity |-> cur[s].validity, uid |-> cur[s].uid]]
    /\ batch' = [batch EXCEPT ![s] = @ \ {cur[s]}]
    /\ cur' = [cur EXCEPT ![s] = None]
    /\ Goto(s, "next")
    /\ UNCHANGED <<remoteVars, delivered, imported, popCheckpoint, to, looked, excused, erased, faults>>

\* recordSourceCheckpoint: an IMAP row only ever moves forward under one
\* UIDVALIDITY; the POP3 checkpoint is the last UIDL handled.
Mark(s) ==
    LET m == cur[s]
        cp == checkpoint[s][to[s]][m.folder]
        advances == cp = None \/ cp.validity # m.validity \/ m.uid > cp.uid
    IN  /\ pc[s] = "mark"
        /\ IF Protocol[s] = "IMAP"
           THEN /\ checkpoint' =
                      IF advances
                      THEN [checkpoint EXCEPT ![s][to[s]][m.folder] =
                               [validity |-> m.validity, uid |-> m.uid]]
                      ELSE checkpoint
                /\ UNCHANGED popCheckpoint
           ELSE /\ popCheckpoint' = [popCheckpoint EXCEPT ![s] =
                      [dest |-> to[s], uid |-> m.uid]]
                /\ UNCHANGED checkpoint
        /\ batch' = [batch EXCEPT ![s] = @ \ {m}]
        /\ cur' = [cur EXCEPT ![s] = None]
        /\ Goto(s, "next")
        /\ UNCHANGED <<remoteVars, delivered, imported, to, looked, excused, erased, faults>>

\* The batch is done.
Finish(s) ==
    /\ pc[s] = "next"
    /\ batch[s] = {}
    /\ Leave(s)
    /\ UNCHANGED <<remoteVars, delivered, storeVars, excused, erased, faults>>

\* The user stops the run between two messages, or any remote call or
\* transaction of the poll throws: the rest of the batch is abandoned.
Abort(s) ==
    /\ pc[s] # "idle"
    /\ Fault
    /\ Leave(s)
    /\ UNCHANGED <<remoteVars, delivered, storeVars, excused, erased>>

\* The process dies: every running poll is gone, the database stays.
Crash ==
    /\ Fault
    /\ \E s \in Source : pc[s] # "idle"
    /\ pc' = [s \in Source |-> "idle"]
    /\ batch' = [s \in Source |-> {}]
    /\ cur' = [s \in Source |-> None]
    /\ looked' = [s \in Source |-> {}]
    /\ UNCHANGED <<remoteVars, delivered, storeVars, to, excused, erased>>

PollStep(s) ==
    \/ Fetch(s)
    \/ \E m \in batch[s] : Examine(s, m)
    \/ Deliver(s) \/ Record(s) \/ Act(s) \/ Mark(s) \/ Finish(s)

PollFault(s) == DeliverUnacknowledged(s) \/ ActNotExpunged(s) \/ Abort(s)

MailboxStep(s) ==
    \/ \E f \in Folder, c \in Content, t \in Instant : Arrive(s, f, c, t)
    \/ \E m \in mailbox[s] : OwnerDeletes(s, m) \/ OwnerReads(s, m)
    \/ \E f \in Folder : Rebuild(s, f)
    \/ \E d \in Destination : Retarget(s, d)

Next ==
    \/ \E s \in Source : PollStep(s) \/ PollFault(s) \/ MailboxStep(s)
    \/ Crash

Spec == Init /\ [][Next]_vars

\* The scheduler wakes every few seconds and each worker thread runs to the
\* end of its poll; nothing is fair about mail, owners, users or faults.
Fairness == \A s \in Source : WF_vars(PollStep(s))

FairSpec == Spec /\ Fairness

-----------------------------------------------------------------------------
(* Properties. *)

ImapCheckpoint == [validity : Validity, uid : Uid]
Pop3Checkpoint == [dest : Destination, uid : Uid]

\* Type correctness of the pipeline's state, and which steps hold a message.
TypeOK ==
    /\ mailbox \in [Source -> SUBSET Mail]
    /\ validity \in [Source -> [Folder -> Validity]]
    /\ nextUid \in [Source -> [Folder -> 1..(MaxUid + 1)]]
    /\ target \in [Source -> Destination]
    /\ delivered \in [Destination -> [Content -> Nat]]
    /\ imported \in [Destination -> SUBSET ImportedMessage]
    /\ checkpoint \in
          [Source -> [Destination -> [Folder -> ImapCheckpoint \cup {None}]]]
    /\ popCheckpoint \in [Source -> Pop3Checkpoint \cup {None}]
    /\ pc \in [Source -> {"idle", "next", "deliver", "record", "act", "mark"}]
    /\ to \in [Source -> Destination]
    /\ batch \in [Source -> SUBSET FetchedMessage]
    /\ cur \in [Source -> FetchedMessage \cup {None}]
    /\ looked \in [Source -> SUBSET ImportedMessage]
    /\ excused \in SUBSET [dest : Destination, key : SourceKey]
    /\ erased \in SUBSET [dest : Destination, src : Source, raw : Content]
    /\ faults \in Nat
    /\ \A s \in Source :
          pc[s] \in {"deliver", "record", "act", "mark"} => cur[s] \in batch[s]

\* Ledger row r stands for content c of source s.
Accounts(r, s, c) ==
    \/ r.raw = c
    \/ /\ r.key.src = s
       /\ MessageIdOf[c] # NoMessageId
       /\ MessageIdOf[r.raw] = MessageIdOf[c]

KnownContent(s, d, c) == \E r \in imported[d] : Accounts(r, s, c)

ImportedInFull(d, s, c) == \E r \in imported[d] : ~r.sanitized /\ Accounts(r, s, c)

\* A ledger row never claims a message that no destination mailbox was given,
\* and no content or source message has two rows at one destination, even when
\* two sources deliver the same content at once (recordImport after
\* importMessage, and the unique constraints behind it).
LedgerIsTrue ==
    \A d \in Destination : \A r \in imported[d] :
        /\ delivered[d][r.raw] > 0
        /\ Verdict[d][r.raw] # "reject"
        /\ r.sanitized <=> Verdict[d][r.raw] = "sanitize"
        /\ \A q \in imported[d] : (q.raw = r.raw \/ q.key = r.key) => q = r

\* No mail server has renumbered a folder.
UidsHold == \A s \in Source, f \in Folder : validity[s][f] = 1

\* A message the importer deleted or moved away is accounted for by an import
\* at the destination of that poll: the same content, or the same Message-ID
\* from the same source, and not a sanitized copy (applyPostPollSettings).
ErasedWasImported ==
    \A e \in erased : ImportedInFull(e.dest, e.src, e.raw)

\* ErasedWasImported for as long as no server renumbers a folder.
ErasedWasImportedWhileUidsHold == UidsHold => ErasedWasImported

\* Everything a checkpoint has passed is accounted for: a message still in the
\* folder at or below the checkpoint of the current UIDVALIDITY is recognised
\* as imported there, or was left out by the rules (outside the fetch window,
\* filtered as read, unreadable, rejected for good).  No message waits behind
\* a checkpoint that will never let it be fetched.
CheckpointCovers ==
    \A s \in Source, d \in Destination : \A m \in mailbox[s] :
        LET key == KeyOf(s, Fetched(s, m))
            cp == checkpoint[s][d][m.folder]
            passed == IF Protocol[s] = "IMAP"
                      THEN /\ cp # None
                           /\ cp.validity = validity[s][m.folder]
                           /\ m.uid <= cp.uid
                      ELSE /\ popCheckpoint[s] # None
                           /\ popCheckpoint[s].dest = d
                           /\ m.uid <= popCheckpoint[s].uid
        IN  passed => \/ KnownContent(s, d, m.raw)
                      \/ [dest |-> d, key |-> key] \in excused

\* A step leaves a checkpoint row alone, moves it forward, or starts it over
\* under another UIDVALIDITY.
CheckpointMovesForward ==
    \A s \in Source, d \in Destination, f \in Folder :
        LET old == checkpoint[s][d][f]
            new == checkpoint'[s][d][f]
        IN  old # None => /\ new # None
                          /\ new.validity = old.validity => new.uid >= old.uid

\* The IMAP checkpoint of a source, destination and folder never goes back
\* under one UIDVALIDITY, whatever order a batch was handled in.
CheckpointNeverRewinds == [][CheckpointMovesForward]_vars

\* A poll delivers nothing that the ledger of its destination accounts for by
\* content or by its own Message-IDs, except by a row that another source's
\* poll recorded between this poll's look-up and its delivery
\* (duplicateStatus, then importMessage).
NoRedelivery ==
    [][\A s \in Source :
          pc[s] = "deliver" /\ pc'[s] # "deliver" /\ delivered' # delivered =>
              \A r \in imported[to[s]] :
                  Accounts(r, s, cur[s].raw) => r.key.src # s /\ r \notin looked[s]]_vars

\* A delivery that fails aborts the run without advancing the failed message's
\* checkpoint, so that the next run retries it (the last paragraph of the
\* Gmail policy section of docs/ARCHITECTURE.md).
FailedDeliveryIsRetried ==
    [][\A s \in Source :
          pc[s] = "deliver" /\ pc'[s] = "idle" /\ Protocol[s] = "IMAP" =>
              LET cp == checkpoint[s][to[s]][cur[s].folder]
              IN  cp = None \/ cp.validity # cur[s].validity \/ cp.uid < cur[s].uid]_vars

\* Every message that stays in a source folder is in the end recognised as
\* imported at the source's destination, or left out by the rules, once
\* faults cease: retries after failures, stops and crashes do not lose mail.
MailIsImported ==
    \A s \in Source, f \in Folder, u \in Uid :
        LET there == \E m \in mailbox[s] : m.folder = f /\ m.uid = u
            settled == \E m \in mailbox[s] :
                          /\ m.folder = f /\ m.uid = u
                          /\ \/ KnownContent(s, target[s], m.raw)
                             \/ [dest |-> target[s], key |-> KeyOf(s, Fetched(s, m))]
                                    \in excused
        IN  there ~> (settled \/ ~there)

\* The pipeline implements the importer's promise.
Promise == INSTANCE MailDelivery WITH
    inbox <- [d \in Destination |-> {c \in Content : delivered[d][c] > 0}],
    ledger <- [d \in Destination |->
                  {[src |-> r.key.src, raw |-> r.raw, sanitized |-> r.sanitized] :
                      r \in imported[d]}],
    gone <- erased

KeepsPromise == Promise!Spec

=============================================================================
