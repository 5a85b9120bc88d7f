-------------------------- MODULE MailFlow_proofs --------------------------
(* Theorems about MailFlow, for every value of its constants. *)
EXTENDS MailFlow, TLAPS

LEMMA InitTypeOK == Init => TypeOK
  BY MailFlowAssumption, SMT DEF MailFlowAssumption, Init, TypeOK, Validity, Uid

LEMMA MailboxTypeOK ==
  ASSUME TypeOK, NEW s \in Source, MailboxStep(s)
  PROVE  TypeOK'
<1> USE MailFlowAssumption DEF MailFlowAssumption
<1>1. ASSUME NEW f \in Folder, NEW c \in Content, NEW t \in Instant, Arrive(s, f, c, t)
      PROVE  TypeOK'
  <2> DEFINE m == [folder |-> f, uid |-> nextUid[s][f], at |-> t, raw |-> c, seen |-> FALSE]
  <2>1. m \in Mail
    BY <1>1 DEF Arrive, Mail
  <2>2. mailbox' \in [Source -> SUBSET Mail]
    BY <1>1, <2>1 DEF Arrive, TypeOK
  <2>3. nextUid[s][f] \in 1..MaxUid /\ nextUid[s][f] + 1 \in 1..(MaxUid + 1)
    BY <1>1 DEF Arrive, Uid
  <2>4. nextUid' \in [Source -> [Folder -> 1..(MaxUid + 1)]]
    BY <1>1, <2>3 DEF Arrive, TypeOK
  <2> QED
    BY <1>1, <2>2, <2>4 DEF Arrive, TypeOK, storeVars, pollVars
<1>2. ASSUME NEW m \in mailbox[s], OwnerDeletes(s, m)
      PROVE  TypeOK'
  BY <1>2 DEF OwnerDeletes, TypeOK, storeVars, pollVars
<1>3. ASSUME NEW m \in mailbox[s], OwnerReads(s, m)
      PROVE  TypeOK'
  <2>1. m \in Mail
    BY DEF TypeOK
  <2>2. [m EXCEPT !.seen = TRUE] \in Mail
    BY <2>1 DEF Mail
  <2>3. mailbox' \in [Source -> SUBSET Mail]
    BY <1>3, <2>2 DEF OwnerReads, TypeOK
  <2> QED
    BY <1>3, <2>3 DEF OwnerReads, TypeOK, storeVars, pollVars
<1>4. ASSUME NEW f \in Folder, Rebuild(s, f)
      PROVE  TypeOK'
  <2> DEFINE kept == {m \in mailbox[s] : m.folder = f}
  <2>1. PICK r \in Renumberings(kept), next \in 1..(MaxUid + 1) :
           /\ mailbox' = [mailbox EXCEPT ![s] =
                 (@ \ kept) \cup {[m EXCEPT !.uid = r[m]] : m \in kept}]
           /\ nextUid' = [nextUid EXCEPT ![s][f] = next]
    BY <1>4 DEF Rebuild
  <2>2. \A m \in kept : [m EXCEPT !.uid = r[m]] \in Mail
    <3> TAKE m \in kept
    <3>1. m \in Mail
      BY DEF TypeOK
    <3>2. r[m] \in Uid
      BY DEF Renumberings
    <3> QED
      BY <3>1, <3>2 DEF Mail
  <2>3. mailbox' \in [Source -> SUBSET Mail]
    <3>1. {[m EXCEPT !.uid = r[m]] : m \in kept} \subseteq Mail
      BY <2>2
    <3>2. mailbox[s] \ kept \subseteq Mail
      BY DEF TypeOK
    <3> HIDE DEF kept
    <3> QED
      BY <2>1, <3>1, <3>2 DEF TypeOK
  <2>4. nextUid' \in [Source -> [Folder -> 1..(MaxUid + 1)]]
    BY <2>1 DEF TypeOK
  <2>5. validity' \in [Source -> [Folder -> Validity]]
    BY <1>4 DEF Rebuild, TypeOK, Validity
  <2> QED
    BY <1>4, <2>3, <2>4, <2>5 DEF Rebuild, TypeOK, storeVars, pollVars
<1>5. ASSUME NEW d \in Destination, Retarget(s, d)
      PROVE  TypeOK'
  BY <1>5 DEF Retarget, TypeOK, storeVars, pollVars
<1> QED
  BY <1>1, <1>2, <1>3, <1>4, <1>5 DEF MailboxStep

\* Reading a message keeps its identity.
LEMMA FetchedType ==
  ASSUME TypeOK, NEW s \in Source, NEW m \in mailbox[s]
  PROVE  /\ Fetched(s, m) \in FetchedMessage
         /\ KeyOf(s, Fetched(s, m)) \in SourceKey
<1>1. m \in Mail
  BY DEF TypeOK
<1>2. validity[s][m.folder] \in Validity
  BY <1>1 DEF TypeOK, Mail
<1> QED
  BY <1>1, <1>2 DEF Mail, Fetched, FetchedMessage, KeyOf, SourceKey

\* A fetch selects messages of the mailbox and nothing else.
LEMMA CandidatesInMailbox ==
  ASSUME NEW s \in Source, NEW d \in Destination, NEW f \in Folder
  PROVE  /\ Candidates(s, d, f) \subseteq InFolder(s, f)
         /\ PassedOver(s, d, f) \subseteq InFolder(s, f)
         /\ InFolder(s, f) \subseteq mailbox[s]
<1>1. \A S : Tail(S) \subseteq S
  BY DEF Tail
<1>2. \A S : Unread(s, S) \subseteq S
  BY DEF Unread
<1>3. LastMessage(s, f) \subseteq InFolder(s, f)
  BY DEF LastMessage
<1>4. InFolder(s, f) \subseteq mailbox[s]
  BY DEF InFolder
<1>5. PassedOver(s, d, f) \subseteq InFolder(s, f)
  BY DEF PassedOver
<1>6. Candidates(s, d, f) \subseteq InFolder(s, f)
  BY <1>1, <1>2, <1>3 DEF Candidates
<1> QED
  BY <1>4, <1>5, <1>6

\* What a look-up saw are rows of the ledger.
LEMMA LookedType ==
  ASSUME TypeOK, NEW s \in Source, PollStep(s) \/ PollFault(s)
  PROVE  looked' \in [Source -> SUBSET ImportedMessage]
<1>1. looked \in [Source -> SUBSET ImportedMessage] /\ imported[to[s]] \subseteq ImportedMessage
  BY DEF TypeOK
<1>2. \/ looked' = looked
      \/ looked' = [looked EXCEPT ![s] = {}]
      \/ looked' = [looked EXCEPT ![s] = imported[to[s]]]
  BY DEF PollStep, PollFault, Fetch, Examine, Deliver, Record, Act, Mark, Finish,
         DeliverUnacknowledged, ActNotExpunged, Abort, Leave
<1> QED
  BY <1>1, <1>2

LEMMA FetchTypeOK ==
  ASSUME TypeOK, NEW s \in Source, Fetch(s)
  PROVE  TypeOK'
<1> DEFINE d == target[s]
           candidates == UNION {Candidates(s, d, f) : f \in FoldersOf(s)}
           passed == UNION {PassedOver(s, d, f) : f \in FoldersOf(s)}
<1>1. d \in Destination /\ FoldersOf(s) \subseteq Folder
  BY MailFlowAssumption DEF MailFlowAssumption, TypeOK, FoldersOf
<1>2. candidates \subseteq mailbox[s] /\ passed \subseteq mailbox[s]
  <2>1. \A f \in FoldersOf(s) : Candidates(s, d, f) \subseteq mailbox[s]
                                /\ PassedOver(s, d, f) \subseteq mailbox[s]
    BY <1>1, CandidatesInMailbox
  <2> QED
    BY <2>1
<1> HIDE DEF candidates, passed
<1>3. PICK unreadable \in SUBSET candidates :
         /\ faults' = faults \/ faults' = faults + 1
         /\ batch' = [batch EXCEPT ![s] = {Fetched(s, m) : m \in candidates \ unreadable}]
         /\ excused' = excused \cup
               {[dest |-> d, key |-> KeyOf(s, Fetched(s, m))] : m \in passed \cup unreadable}
  BY DEF Fetch, Fault, candidates, passed
<1>4. faults' \in Nat
  BY <1>3 DEF TypeOK
<1>5. batch' \in [Source -> SUBSET FetchedMessage]
  <2>1. {Fetched(s, m) : m \in candidates \ unreadable} \subseteq FetchedMessage
    BY <1>2, FetchedType
  <2> QED
    BY <1>3, <2>1 DEF TypeOK
<1>6. excused' \in SUBSET [dest : Destination, key : SourceKey]
  <2>1. {[dest |-> d, key |-> KeyOf(s, Fetched(s, m))] : m \in passed \cup unreadable}
           \subseteq [dest : Destination, key : SourceKey]
    BY <1>1, <1>2, FetchedType
  <2> QED
    BY <1>3, <2>1 DEF TypeOK
<1>7. /\ to' = [to EXCEPT ![s] = d]
      /\ pc' = [pc EXCEPT ![s] = "next"]
      /\ UNCHANGED <<mailbox, validity, nextUid, target, delivered, imported, checkpoint,
                     popCheckpoint, cur, erased>>
  BY DEF Fetch, Goto, remoteVars, storeVars
<1>8. ASSUME NEW q \in Source, pc'[q] \in {"deliver", "record", "act", "mark"}
      PROVE  cur'[q] \in batch'[q]
  <2>1. q # s
    BY <1>7, <1>8 DEF TypeOK
  <2> QED
    BY <1>3, <1>7, <1>8, <2>1 DEF TypeOK
<1>9. looked' \in [Source -> SUBSET ImportedMessage]
  BY LookedType DEF PollStep
<1> QED
  BY <1>1, <1>4, <1>5, <1>6, <1>7, <1>8, <1>9 DEF TypeOK

\* A poll that ends leaves its place, its batch and its message behind.
LEMMA LeaveType ==
  ASSUME TypeOK, NEW s \in Source, Leave(s)
  PROVE  /\ pc' \in [Source -> {"idle", "next", "deliver", "record", "act", "mark"}]
         /\ to' \in [Source -> Destination]
         /\ batch' \in [Source -> SUBSET FetchedMessage]
         /\ cur' \in [Source -> FetchedMessage \cup {None}]
         /\ \A q \in Source :
               pc'[q] \in {"deliver", "record", "act", "mark"} => cur'[q] \in batch'[q]
BY DEF Leave, Goto, TypeOK

LEMMA PollTypeOK ==
  ASSUME TypeOK, NEW s \in Source, PollStep(s) \/ PollFault(s)
  PROVE  TypeOK'
<1> USE MailFlowAssumption DEF MailFlowAssumption, remoteVars, storeVars
<1>0. looked' \in [Source -> SUBSET ImportedMessage]
  BY LookedType
<1>1. CASE Fetch(s)
  BY <1>1, FetchTypeOK
<1>2. ASSUME NEW m \in batch[s], Examine(s, m)
      PROVE  TypeOK'
  <2>1. PICK step \in {"deliver", "mark", "act"} : pc' = [pc EXCEPT ![s] = step]
    BY <1>2 DEF Examine, Goto
  <2>2. m \in FetchedMessage
    BY DEF TypeOK
  <2> QED
    BY <1>0, <1>2, <2>1, <2>2 DEF Examine, TypeOK
<1>3. CASE Deliver(s)
  <2>1. cur[s] \in batch[s] /\ cur[s] \in FetchedMessage
    BY <1>3 DEF Deliver, TypeOK
  <2>2. KeyOf(s, cur[s]) \in SourceKey /\ to[s] \in Destination /\ cur[s].raw \in Content
    BY <2>1 DEF KeyOf, SourceKey, FetchedMessage, TypeOK
  <2>3. delivered' \in [Destination -> [Content -> Nat]]
    <3>1. CASE Verdict[to[s]][cur[s].raw] = "reject"
      BY <1>3, <3>1 DEF Deliver, TypeOK
    <3>2. CASE Verdict[to[s]][cur[s].raw] # "reject"
      <4>1. delivered' = [delivered EXCEPT ![to[s]][cur[s].raw] = @ + 1]
        BY <1>3, <3>2 DEF Deliver
      <4>2. delivered \in [Destination -> [Content -> Nat]]
        BY DEF TypeOK
      <4> QED
        BY <2>2, <4>1, <4>2
    <3> QED
      BY <3>1, <3>2
  <2>4. excused' \in SUBSET [dest : Destination, key : SourceKey]
    BY <1>3, <2>2 DEF Deliver, TypeOK
  <2>5. \E step \in {"mark", "record"} : pc' = [pc EXCEPT ![s] = step]
    BY <1>3 DEF Deliver, Goto
  <2>6. UNCHANGED <<mailbox, validity, nextUid, target, imported, checkpoint, popCheckpoint,
                    to, batch, cur, erased, faults>>
    BY <1>3 DEF Deliver
  <2> QED
    BY <1>0, <2>1, <2>3, <2>4, <2>5, <2>6 DEF TypeOK
<1>4. CASE Record(s)
  <2> DEFINE row == [key |-> KeyOf(s, cur[s]), raw |-> cur[s].raw,
                     sanitized |-> Verdict[to[s]][cur[s].raw] = "sanitize"]
  <2>1. cur[s] \in batch[s] /\ cur[s] \in FetchedMessage
    BY <1>4 DEF Record, TypeOK
  <2>2. row \in ImportedMessage
    BY <2>1 DEF KeyOf, SourceKey, FetchedMessage, ImportedMessage
  <2>3. UNCHANGED <<mailbox, validity, nextUid, target, delivered, checkpoint, popCheckpoint,
                    excused, erased, faults>>
    BY <1>4 DEF Record
  <2>4. CASE Leave(s) /\ UNCHANGED imported
    BY <1>0, <2>3, <2>4, LeaveType DEF TypeOK
  <2>5. CASE /\ imported' = [imported EXCEPT ![to[s]] = @ \cup {row}]
             /\ \E step \in {"mark", "act"} : pc' = [pc EXCEPT ![s] = step]
             /\ UNCHANGED <<to, batch, cur>>
    <3>1. imported' \in [Destination -> SUBSET ImportedMessage]
      BY <2>2, <2>5 DEF TypeOK
    <3> HIDE DEF row
    <3> QED
      BY <1>0, <2>1, <2>3, <2>5, <3>1 DEF TypeOK
  <2> QED
    BY <1>4, <2>4, <2>5 DEF Record, Goto
<1>5. CASE Act(s)
  <2> DEFINE found == {n \in mailbox[s] : n.folder = cur[s].folder /\ n.uid = cur[s].uid}
             seen(n) == [n EXCEPT !.seen = @ \/ PostPoll[s].markRead]
             removal(n) == [dest |-> to[s], src |-> s, raw |-> n.raw]
  <2>1. cur[s] \in batch[s] /\ to[s] \in Destination
    BY <1>5 DEF Act, TypeOK
  <2>2. \A n \in found : n \in Mail /\ seen(n) \in Mail /\
              removal(n) \in [dest : Destination, src : Source, raw : Content]
    <3> TAKE n \in found
    <3>1. n \in Mail
      BY DEF TypeOK
    <3> QED
      BY <2>1, <3>1 DEF Mail
  <2>3. UNCHANGED <<validity, nextUid, target, delivered, imported, checkpoint, popCheckpoint,
                    excused, faults>>
    BY <1>5 DEF Act
  <2>4. \/ Leave(s) /\ UNCHANGED <<mailbox, erased>>
        \/ /\ pc' = [pc EXCEPT ![s] = "mark"]
           /\ UNCHANGED <<to, batch, cur>>
           /\ \/ mailbox' = mailbox
              \/ mailbox' = [mailbox EXCEPT ![s] = (@ \ found) \cup {}]
              \/ mailbox' = [mailbox EXCEPT ![s] = (@ \ found) \cup {seen(n) : n \in found}]
           /\ erased' = erased \/ erased' = erased \cup {removal(n) : n \in found}
    BY <1>5 DEF Act, Goto
  <2>5. mailbox' \in [Source -> SUBSET Mail]
    <3>1. {seen(n) : n \in found} \subseteq Mail /\ mailbox[s] \ found \subseteq Mail
      BY <2>2 DEF TypeOK
    <3>2. mailbox \in [Source -> SUBSET Mail]
      BY DEF TypeOK
    <3> HIDE DEF found, seen
    <3> QED
      BY <2>4, <3>1, <3>2
  <2>6. erased' \in SUBSET [dest : Destination, src : Source, raw : Content]
    <3> HIDE DEF found, removal, seen
    <3>1. {removal(n) : n \in found}
             \subseteq [dest : Destination, src : Source, raw : Content]
      BY <2>2
    <3>2. erased \in SUBSET [dest : Destination, src : Source, raw : Content]
      BY DEF TypeOK
    <3> QED
      BY <2>4, <3>1, <3>2
  <2> HIDE DEF found, seen, removal
  <2>7. CASE Leave(s) /\ UNCHANGED <<mailbox, erased>>
    BY <1>0, <2>3, <2>7, LeaveType DEF TypeOK
  <2>8. CASE pc' = [pc EXCEPT ![s] = "mark"] /\ UNCHANGED <<to, batch, cur>>
    BY <1>0, <2>1, <2>3, <2>5, <2>6, <2>8 DEF TypeOK
  <2> QED
    BY <2>4, <2>7, <2>8
<1>6. CASE Mark(s)
  <2>1. cur[s] \in batch[s] /\ cur[s] \in FetchedMessage /\ to[s] \in Destination
    BY <1>6 DEF Mark, TypeOK
  <2>2. checkpoint' \in
           [Source -> [Destination -> [Folder -> ImapCheckpoint \cup {None}]]]
    <3>1. [validity |-> cur[s].validity, uid |-> cur[s].uid] \in ImapCheckpoint
      BY <2>1 DEF FetchedMessage, ImapCheckpoint
    <3>2. checkpoint \in [Source -> [Destination -> [Folder -> ImapCheckpoint \cup {None}]]]
      BY DEF TypeOK
    <3>3. CASE checkpoint' = checkpoint
      BY <3>2, <3>3
    <3>4. CASE checkpoint' = [checkpoint EXCEPT ![s][to[s]][cur[s].folder] =
                                 [validity |-> cur[s].validity, uid |-> cur[s].uid]]
      <4>1. cur[s].folder \in Folder
        BY <2>1 DEF FetchedMessage
      <4> QED
        BY <2>1, <3>1, <3>2, <3>4, <4>1
    <3> QED
      BY <1>6, <3>3, <3>4 DEF Mark
  <2>3. popCheckpoint' \in [Source -> Pop3Checkpoint \cup {None}]
    <3>1. [dest |-> to[s], uid |-> cur[s].uid] \in Pop3Checkpoint
      BY <2>1 DEF FetchedMessage, Pop3Checkpoint
    <3>2. \/ popCheckpoint' = popCheckpoint
          \/ popCheckpoint' = [popCheckpoint EXCEPT ![s] = [dest |-> to[s], uid |-> cur[s].uid]]
      BY <1>6 DEF Mark
    <3>3. popCheckpoint \in [Source -> Pop3Checkpoint \cup {None}]
      BY DEF TypeOK
    <3> QED
      BY <3>1, <3>2, <3>3
  <2>4. UNCHANGED <<mailbox, validity, nextUid, target, delivered, imported, to, excused,
                    erased, faults>>
    BY <1>6 DEF Mark
  <2>5. /\ pc' = [pc EXCEPT ![s] = "next"]
        /\ batch' = [batch EXCEPT ![s] = @ \ {cur[s]}]
        /\ cur' = [cur EXCEPT ![s] = None]
    BY <1>6 DEF Mark, Goto
  <2> QED
    BY <1>0, <2>2, <2>3, <2>4, <2>5 DEF TypeOK
<1>7. CASE Finish(s)
  BY <1>0, <1>7, LeaveType DEF Finish, TypeOK
<1>8. CASE DeliverUnacknowledged(s)
  <2>1. cur[s] \in FetchedMessage /\ to[s] \in Destination
    BY <1>8 DEF DeliverUnacknowledged, TypeOK
  <2>2. delivered' \in [Destination -> [Content -> Nat]]
    BY <1>8, <2>1 DEF DeliverUnacknowledged, TypeOK, FetchedMessage
  <2>3. /\ Leave(s) /\ faults' = faults + 1
        /\ UNCHANGED <<remoteVars, storeVars, excused, erased>>
    BY <1>8 DEF DeliverUnacknowledged, Fault
  <2>4. /\ pc' \in [Source -> {"idle", "next", "deliver", "record", "act", "mark"}]
        /\ to' \in [Source -> Destination]
        /\ batch' \in [Source -> SUBSET FetchedMessage]
        /\ cur' \in [Source -> FetchedMessage \cup {None}]
        /\ \A q \in Source :
              pc'[q] \in {"deliver", "record", "act", "mark"} => cur'[q] \in batch'[q]
    BY <2>3, LeaveType
  <2> QED
    BY <1>0, <2>2, <2>3, <2>4 DEF remoteVars, storeVars, TypeOK
<1>9. CASE ActNotExpunged(s)
  BY <1>0, <1>9 DEF ActNotExpunged, Fault, Goto, TypeOK
<1>10. CASE Abort(s)
  <2>1. /\ Leave(s) /\ faults' = faults + 1
        /\ UNCHANGED <<mailbox, validity, nextUid, target, delivered, imported, checkpoint,
                       popCheckpoint, excused, erased>>
    BY <1>10 DEF Abort, Fault
  <2>2. /\ pc' \in [Source -> {"idle", "next", "deliver", "record", "act", "mark"}]
        /\ to' \in [Source -> Destination]
        /\ batch' \in [Source -> SUBSET FetchedMessage]
        /\ cur' \in [Source -> FetchedMessage \cup {None}]
        /\ \A q \in Source :
              pc'[q] \in {"deliver", "record", "act", "mark"} => cur'[q] \in batch'[q]
    BY <2>1, LeaveType
  <2> QED
    BY <1>0, <2>1, <2>2 DEF TypeOK
<1> QED
  BY <1>1, <1>2, <1>3, <1>4, <1>5, <1>6, <1>7, <1>8, <1>9, <1>10 DEF PollStep, PollFault

LEMMA CrashTypeOK == TypeOK /\ Crash => TypeOK'
  BY DEF Crash, Fault, TypeOK, remoteVars, storeVars

LEMMA NextTypeOK == TypeOK /\ [Next]_vars => TypeOK'
<1> SUFFICES ASSUME TypeOK, [Next]_vars
             PROVE  TypeOK'
  OBVIOUS
<1>1. CASE UNCHANGED vars
  BY <1>1 DEF vars, TypeOK
<1>2. CASE Next
  BY <1>2, PollTypeOK, MailboxTypeOK, CrashTypeOK DEF Next
<1> QED
  BY <1>1, <1>2

\* The pipeline's state is well typed, and a step that handles a message has
\* one of the running batch at hand (PollingSourceExecutionService.execute).
THEOREM TypeCorrect == Spec => []TypeOK
  BY InitTypeOK, NextTypeOK, PTL DEF Spec

-----------------------------------------------------------------------------
(* What a poll relies on between two of its steps.  Other polls leave its     *)
(* place and its message alone, and the ledger and the deliveries only grow,  *)
(* so what held when a poll took its message still holds when it acts on it.  *)

\* A step of one poll leaves the other polls where they are.
LEMMA PollFrame ==
  ASSUME TypeOK, NEW s \in Source, PollStep(s) \/ PollFault(s)
  PROVE  \A q \in Source : q # s =>
            /\ pc'[q] = pc[q] /\ to'[q] = to[q] /\ cur'[q] = cur[q]
            /\ looked'[q] = looked[q]
<1>0. pc \in [Source -> {"idle", "next", "deliver", "record", "act", "mark"}]
      /\ to \in [Source -> Destination] /\ cur \in [Source -> FetchedMessage \cup {None}]
      /\ looked \in [Source -> SUBSET ImportedMessage]
  BY DEF TypeOK
<1>1. /\ pc' = pc \/ \E x : pc' = [pc EXCEPT ![s] = x]
      /\ to' = to \/ \E x : to' = [to EXCEPT ![s] = x]
      /\ cur' = cur \/ \E x : cur' = [cur EXCEPT ![s] = x]
      /\ looked' = looked \/ \E x : looked' = [looked EXCEPT ![s] = x]
  BY DEF PollStep, PollFault, Fetch, Examine, Deliver, Record, Act, Mark, Finish,
         DeliverUnacknowledged, ActNotExpunged, Abort, Leave, Goto
<1> QED
  BY <1>0, <1>1

\* No step of a poll takes back a ledger row or a delivery.
LEMMA PollGrows ==
  ASSUME TypeOK, NEW s \in Source, PollStep(s) \/ PollFault(s)
  PROVE  /\ \A d \in Destination : imported[d] \subseteq imported'[d]
         /\ \A d \in Destination, c \in Content : delivered'[d][c] >= delivered[d][c]
<1> USE DEF storeVars
<1>1. /\ delivered \in [Destination -> [Content -> Nat]]
      /\ imported \in [Destination -> SUBSET ImportedMessage]
  BY DEF TypeOK
<1>2. imported' = imported \/ \E row : imported' = [imported EXCEPT ![to[s]] = @ \cup {row}]
  BY DEF PollStep, PollFault, Fetch, Examine, Deliver, Record, Act, Mark, Finish,
         DeliverUnacknowledged, ActNotExpunged, Abort
<1>3. \/ delivered' = delivered
      \/ delivered' = [delivered EXCEPT ![to[s]][cur[s].raw] = @ + 1]
  BY DEF PollStep, PollFault, Fetch, Examine, Deliver, Record, Act, Mark, Finish,
         DeliverUnacknowledged, ActNotExpunged, Abort
<1>4. \A d \in Destination, c \in Content : delivered'[d][c] >= delivered[d][c]
  BY <1>1, <1>3
<1> QED
  BY <1>1, <1>2, <1>4

\* The mailbox server and its owner touch nothing of the importer's.
LEMMA MailboxFrame ==
  ASSUME NEW s \in Source, MailboxStep(s)
  PROVE  UNCHANGED <<delivered, storeVars, pollVars, excused, erased>>
  BY DEF MailboxStep, Arrive, OwnerDeletes, OwnerReads, Rebuild, Retarget, storeVars, pollVars

-----------------------------------------------------------------------------
(* What keys identify.  A message is found again by its folder, UIDVALIDITY   *)
(* and UID, so the arguments below need that such a key names one content     *)
(* wherever it is written down: in the mailbox, in a batch, or in the ledger. *)

\* The same message, read or unread.
Alike(m, n) == m.folder = n.folder /\ m.uid = n.uid /\ m.at = n.at /\ m.raw = n.raw

\* Folder f of source s, under UIDVALIDITY v, is known to call content c by UID u.
Named(s, f, v, u, c) ==
    \/ \E m \in mailbox[s] : m.folder = f /\ validity[s][f] = v /\ m.uid = u /\ m.raw = c
    \/ \E m \in batch[s] : m.folder = f /\ m.validity = v /\ m.uid = u /\ m.raw = c
    \/ \E d \in Destination : \E r \in imported[d] :
          r.key = [src |-> s, folder |-> f, validity |-> v, uid |-> u] /\ r.raw = c

\* A key names one content, and none of the current UIDVALIDITY is yet to come.
KeysIdentify ==
    \A s \in Source, f \in Folder, v \in Validity, u \in Uid, c, e \in Content :
        Named(s, f, v, u, c) =>
            /\ v <= validity[s][f]
            /\ v = validity[s][f] => u < nextUid[s][f]
            /\ Named(s, f, v, u, e) => e = c

\* The step only moves what was already written down: every step does, except an
\* arrival and a rebuild.
ShowsNothingNew ==
    /\ UNCHANGED <<validity, nextUid>>
    /\ \A q \in Source : \A m \in mailbox'[q] : \E n \in mailbox[q] : Alike(m, n)
    /\ \A q \in Source : \A m \in batch'[q] :
          m \in batch[q] \/ \E n \in mailbox[q] : m = Fetched(q, n)
    /\ \A d \in Destination : \A r \in imported'[d] :
          \/ r \in imported[d]
          \/ \E q \in Source : \E n \in batch[q] : r.key = KeyOf(q, n) /\ r.raw = n.raw

\* Such a step gives no key a content it did not have.
LEMMA NamedFrame ==
  ASSUME ShowsNothingNew, NEW s \in Source, NEW f, NEW v, NEW u, NEW c, Named(s, f, v, u, c)'
  PROVE  Named(s, f, v, u, c)
<1> USE DEF ShowsNothingNew
<1>1. CASE \E m \in mailbox'[s] :
              m.folder = f /\ validity'[s][f] = v /\ m.uid = u /\ m.raw = c
  BY <1>1 DEF Named, Alike
<1>2. CASE \E m \in batch'[s] : m.folder = f /\ m.validity = v /\ m.uid = u /\ m.raw = c
  BY <1>2 DEF Named, Fetched
<1>3. CASE \E d \in Destination : \E r \in imported'[d] :
              r.key = [src |-> s, folder |-> f, validity |-> v, uid |-> u] /\ r.raw = c
  <2>0. PICK d \in Destination : \E r \in imported'[d] :
           r.key = [src |-> s, folder |-> f, validity |-> v, uid |-> u] /\ r.raw = c
    BY <1>3
  <2>1. PICK r \in imported'[d] :
           r.key = [src |-> s, folder |-> f, validity |-> v, uid |-> u] /\ r.raw = c
    BY <2>0
  <2>2. CASE r \in imported[d]
    BY <2>1, <2>2 DEF Named
  <2>3. ASSUME NEW q \in Source, NEW n \in batch[q], r.key = KeyOf(q, n), r.raw = n.raw
        PROVE  Named(s, f, v, u, c)
    <3>1. q = s /\ n.folder = f /\ n.validity = v /\ n.uid = u /\ n.raw = c
      BY <2>1, <2>3 DEF KeyOf
    <3> QED
      BY <3>1 DEF Named
  <2> QED
    BY <2>1, <2>2, <2>3
<1> QED
  BY <1>1, <1>2, <1>3 DEF Named

\* No step of a poll shows anything new.
LEMMA PollShows ==
  ASSUME TypeOK, NEW s \in Source, PollStep(s) \/ PollFault(s)
  PROVE  ShowsNothingNew
<1> USE DEF remoteVars, storeVars
<1>0. /\ mailbox \in [Source -> SUBSET Mail]
      /\ batch \in [Source -> SUBSET FetchedMessage]
      /\ imported \in [Destination -> SUBSET ImportedMessage]
  BY DEF TypeOK
<1>a. \A m : Alike(m, m)
  BY DEF Alike
<1>b. Leave(s) => \A q \in Source : batch'[q] \subseteq batch[q]
  BY <1>0 DEF Leave
<1>1. CASE Fetch(s)
  <2> DEFINE candidates == UNION {Candidates(s, target[s], f) : f \in FoldersOf(s)}
  <2>1. FoldersOf(s) \subseteq Folder /\ target[s] \in Destination
    BY MailFlowAssumption DEF MailFlowAssumption, TypeOK, FoldersOf
  <2>2. candidates \subseteq mailbox[s]
    <3>1. \A f \in FoldersOf(s) : Candidates(s, target[s], f) \subseteq mailbox[s]
      BY <2>1, CandidatesInMailbox
    <3> QED
      BY <3>1
  <2> HIDE DEF candidates
  <2>3. PICK read \in SUBSET candidates :
           batch' = [batch EXCEPT ![s] = {Fetched(s, m) : m \in read}]
    BY <1>1 DEF Fetch, candidates
  <2>4. \A q \in Source : \A m \in batch'[q] :
              m \in batch[q] \/ \E n \in mailbox[q] : m = Fetched(q, n)
    BY <1>0, <2>2, <2>3
  <2>5. UNCHANGED <<mailbox, validity, nextUid, imported>>
    BY <1>1 DEF Fetch
  <2> QED
    BY <1>a, <2>4, <2>5 DEF ShowsNothingNew
<1>2. ASSUME NEW m \in batch[s], Examine(s, m)
      PROVE  ShowsNothingNew
  BY <1>a, <1>2 DEF Examine, ShowsNothingNew
<1>3. CASE Deliver(s)
  BY <1>a, <1>3 DEF Deliver, ShowsNothingNew
<1>4. CASE Record(s)
  <2> DEFINE row == [key |-> KeyOf(s, cur[s]), raw |-> cur[s].raw,
                     sanitized |-> Verdict[to[s]][cur[s].raw] = "sanitize"]
  <2>1. /\ UNCHANGED <<mailbox, validity, nextUid>>
        /\ \A q \in Source : batch'[q] \subseteq batch[q]
        /\ imported' = imported \/ imported' = [imported EXCEPT ![to[s]] = @ \cup {row}]
    BY <1>4, <1>b DEF Record
  <2>2. cur[s] \in batch[s]
    BY <1>4 DEF Record, TypeOK
  <2>3. row.key = KeyOf(s, cur[s]) /\ row.raw = cur[s].raw
    OBVIOUS
  <2> HIDE DEF row
  <2> QED
    BY <1>0, <1>a, <2>1, <2>2, <2>3 DEF ShowsNothingNew
<1>5. CASE Act(s)
  <2> DEFINE found == {n \in mailbox[s] : n.folder = cur[s].folder /\ n.uid = cur[s].uid}
             seen(n) == [n EXCEPT !.seen = @ \/ PostPoll[s].markRead]
  <2>1. /\ UNCHANGED <<validity, nextUid, imported>>
        /\ \A q \in Source : batch'[q] \subseteq batch[q]
    BY <1>5, <1>b DEF Act
  <2>2. \/ mailbox' = mailbox
        \/ mailbox' = [mailbox EXCEPT ![s] = (@ \ found) \cup {}]
        \/ mailbox' = [mailbox EXCEPT ![s] = (@ \ found) \cup {seen(n) : n \in found}]
    BY <1>5 DEF Act
  <2>3. \A n \in found : Alike(seen(n), n)
    <3> TAKE n \in found
    <3>1. n \in Mail
      BY <1>0
    <3> QED
      BY <3>1 DEF Alike, Mail
  <2>4. found \subseteq mailbox[s]
    OBVIOUS
  <2> HIDE DEF found, seen
  <2>5. \A q \in Source : \A m \in mailbox'[q] : \E n \in mailbox[q] : Alike(m, n)
    BY <1>0, <1>a, <2>2, <2>3, <2>4
  <2> QED
    BY <2>1, <2>5 DEF ShowsNothingNew
<1>6. CASE Mark(s)
  <2>1. /\ UNCHANGED <<mailbox, validity, nextUid, imported>>
        /\ batch' = [batch EXCEPT ![s] = @ \ {cur[s]}]
    BY <1>6 DEF Mark
  <2> QED
    BY <1>0, <1>a, <2>1 DEF ShowsNothingNew
<1>7. CASE Finish(s) \/ Abort(s) \/ DeliverUnacknowledged(s) \/ ActNotExpunged(s)
  <2>1. /\ UNCHANGED <<mailbox, validity, nextUid, imported>>
        /\ Leave(s) \/ UNCHANGED batch
    BY <1>7 DEF Finish, Abort, DeliverUnacknowledged, ActNotExpunged
  <2> QED
    BY <1>a, <1>b, <2>1 DEF ShowsNothingNew
<1> QED
  BY <1>1, <1>2, <1>3, <1>4, <1>5, <1>6, <1>7 DEF PollStep, PollFault

\* Neither does the owner, a retarget or a crash.
LEMMA OwnerShows ==
  ASSUME TypeOK, NEW s \in Source, NEW m \in mailbox[s], OwnerDeletes(s, m) \/ OwnerReads(s, m)
  PROVE  ShowsNothingNew
<1> DEFINE n == [m EXCEPT !.seen = TRUE]
<1>1. mailbox \in [Source -> SUBSET Mail] /\ m \in Mail
  BY DEF TypeOK
<1>2. Alike(n, m) /\ \A x : Alike(x, x)
  BY <1>1 DEF Alike, Mail
<1>3. /\ \/ mailbox' = [mailbox EXCEPT ![s] = (@ \ {m}) \cup {}]
         \/ mailbox' = [mailbox EXCEPT ![s] = (@ \ {m}) \cup {n}]
      /\ UNCHANGED <<validity, nextUid, batch, imported>>
  BY DEF OwnerDeletes, OwnerReads, storeVars, pollVars
<1> HIDE DEF n
<1>4. \A q \in Source : \A x \in mailbox'[q] : \E y \in mailbox[q] : Alike(x, y)
  BY <1>1, <1>2, <1>3
<1> QED
  BY <1>3, <1>4 DEF ShowsNothingNew

LEMMA RestShows ==
  ASSUME TypeOK,
         Crash \/ UNCHANGED vars \/ \E s \in Source, d \in Destination : Retarget(s, d)
  PROVE  ShowsNothingNew
<1>1. \A x : Alike(x, x)
  BY DEF Alike
<1>2. /\ UNCHANGED <<mailbox, validity, nextUid, imported>>
      /\ \A q \in Source : batch'[q] \subseteq batch[q]
  BY DEF Crash, vars, Retarget, remoteVars, storeVars, pollVars
<1> QED
  BY <1>1, <1>2 DEF ShowsNothingNew

\* Arrivals take a fresh UID.
LEMMA ArriveKeys ==
  ASSUME TypeOK, KeysIdentify, NEW s \in Source, NEW f \in Folder, NEW c \in Content,
         NEW t \in Instant, Arrive(s, f, c, t)
  PROVE  KeysIdentify'
<1> DEFINE m == [folder |-> f, uid |-> nextUid[s][f], at |-> t, raw |-> c, seen |-> FALSE]
<1>1. /\ mailbox' = [mailbox EXCEPT ![s] = @ \cup {m}]
      /\ nextUid' = [nextUid EXCEPT ![s][f] = @ + 1]
      /\ UNCHANGED <<validity, batch, imported>>
  BY DEF Arrive, storeVars, pollVars
<1>2. m.folder = f /\ m.uid = nextUid[s][f] /\ m.raw = c
  OBVIOUS
<1> HIDE DEF m
<1>3. mailbox \in [Source -> SUBSET Mail]
      /\ MaxUid \in Nat /\ nextUid \in [Source -> [Folder -> 1..(MaxUid + 1)]]
  BY MailFlowAssumption DEF MailFlowAssumption, TypeOK
<1>4. \A q, g, v, u, e : Named(q, g, v, u, e)' =>
          \/ Named(q, g, v, u, e)
          \/ q = s /\ g = f /\ v = validity[s][f] /\ u = nextUid[s][f] /\ e = c
  BY <1>1, <1>2, <1>3 DEF Named
<1>5. \A q \in Source, g \in Folder :
          /\ nextUid[q][g] \in Nat
          /\ nextUid'[q][g] = IF q = s /\ g = f THEN nextUid[s][f] + 1 ELSE nextUid[q][g]
  BY <1>1, <1>3
<1>6. ASSUME NEW q \in Source, NEW g \in Folder, NEW v \in Validity, NEW u \in Uid,
             NEW e1 \in Content, NEW e2 \in Content, Named(q, g, v, u, e1)'
      PROVE  /\ v <= validity[q][g]
             /\ v = validity[q][g] => u < nextUid'[q][g]
             /\ Named(q, g, v, u, e2)' => e2 = e1
  <2>1. \A e \in Content : Named(q, g, v, u, e) =>
           /\ v <= validity[q][g]
           /\ v = validity[q][g] => u < nextUid[q][g]
           /\ \A x \in Content : Named(q, g, v, u, x) => x = e
    BY DEF KeysIdentify
  <2>2. u \in Nat /\ v \in Nat /\ validity[q][g] \in Nat
    BY <1>3, MailFlowAssumption DEF Uid, Validity, TypeOK, MailFlowAssumption
  <2>3. CASE q = s /\ g = f /\ v = validity[s][f] /\ u = nextUid[s][f]
    <3>1. \A e \in Content : ~Named(q, g, v, u, e)
      BY <1>5, <2>1, <2>3
    <3>2. e1 = c /\ (Named(q, g, v, u, e2)' => e2 = c)
      BY <1>4, <1>6, <3>1
    <3> QED
      BY <1>5, <2>2, <2>3, <3>2
  <2>4. CASE ~(q = s /\ g = f /\ v = validity[s][f] /\ u = nextUid[s][f])
    <3>1. Named(q, g, v, u, e1) /\ (Named(q, g, v, u, e2)' => Named(q, g, v, u, e2))
      BY <1>4, <1>6, <2>4
    <3> QED
      BY <1>5, <2>1, <2>2, <3>1
  <2> QED
    BY <2>3, <2>4
<1> QED
  BY <1>1, <1>6 DEF KeysIdentify

\* What a rebuild does to a folder, in terms of messages: those of other folders
\* stay, those of the folder keep all but their UIDs, whose order stays.
Moved(m, n, r) == m.folder = n.folder /\ m.at = n.at /\ m.raw = n.raw /\ m.uid = r[n]

LEMMA RebuildMoves ==
  ASSUME TypeOK, NEW s \in Source, NEW f \in Folder, Rebuild(s, f)
  PROVE  /\ Protocol[s] = "IMAP"
         /\ UNCHANGED <<storeVars, pollVars, excused>>
         /\ \A q \in Source, g \in Folder :
               validity'[q][g] = IF q = s /\ g = f THEN validity[s][f] + 1 ELSE validity[q][g]
         /\ \A q \in Source, g \in Folder :
               q # s \/ g # f => nextUid'[q][g] = nextUid[q][g]
         /\ \A q \in Source : \A m \in mailbox'[q] :
               q # s \/ m.folder # f => m \in mailbox[q]
         /\ \E r : /\ \A m, n \in mailbox[s] : m.folder = f /\ n.folder = f =>
                         /\ r[m] \in Uid /\ r[m] < nextUid'[s][f]
                         /\ m.uid < n.uid => r[m] < r[n]
                   /\ \A m \in mailbox'[s] : m.folder = f =>
                         \E n \in mailbox[s] : Moved(m, n, r)
<1> DEFINE kept == {m \in mailbox[s] : m.folder = f}
<1>1. /\ Protocol[s] = "IMAP"
      /\ validity' = [validity EXCEPT ![s][f] = @ + 1]
      /\ UNCHANGED <<storeVars, pollVars, excused>>
  BY DEF Rebuild
<1>2. PICK r \in Renumberings(kept), next \in 1..(MaxUid + 1) :
         /\ \A u \in Uid : u < next <=> \E m \in kept : r[m] = u
         /\ mailbox' = [mailbox EXCEPT ![s] =
               (@ \ kept) \cup {[m EXCEPT !.uid = r[m]] : m \in kept}]
         /\ nextUid' = [nextUid EXCEPT ![s][f] = next]
  BY DEF Rebuild
<1>3. /\ mailbox \in [Source -> SUBSET Mail]
      /\ validity \in [Source -> [Folder -> Validity]]
      /\ nextUid \in [Source -> [Folder -> 1..(MaxUid + 1)]]
  BY DEF TypeOK
<1>4. \A m, n \in kept : r[m] \in Uid /\ (m.uid < n.uid => r[m] < r[n])
  BY DEF Renumberings
<1>5. \A m \in mailbox[s] : m \in kept <=> m.folder = f
  OBVIOUS
<1>6. \A m \in kept : Moved([m EXCEPT !.uid = r[m]], m, r)
  <2> TAKE m \in kept
  <2>1. m \in Mail
    BY <1>3
  <2> QED
    BY <2>1 DEF Moved, Mail
<1>7. \A m \in kept : r[m] < nextUid'[s][f]
  BY <1>2, <1>3, <1>4
<1> HIDE DEF kept
<1>8. mailbox'[s] = (mailbox[s] \ kept) \cup {[m EXCEPT !.uid = r[m]] : m \in kept}
      /\ \A q \in Source : q # s => mailbox'[q] = mailbox[q]
  BY <1>2, <1>3
<1>9. kept \subseteq mailbox[s] /\ \A m \in kept : m.folder = f
  BY DEF kept
<1>10. \A m \in mailbox'[s] :
          (m \in mailbox[s] /\ m.folder # f) \/ \E n \in kept : Moved(m, n, r)
  <2> TAKE m \in mailbox'[s]
  <2>1. CASE m \in mailbox[s] \ kept
    BY <1>5, <2>1
  <2>2. CASE m \in {[n EXCEPT !.uid = r[n]] : n \in kept}
    BY <1>6, <2>2
  <2> QED
    BY <1>8, <2>1, <2>2
<1>11. /\ \A m \in mailbox'[s] : m.folder # f => m \in mailbox[s]
       /\ \A m \in mailbox'[s] : m.folder = f => \E n \in mailbox[s] : Moved(m, n, r)
  BY <1>9, <1>10 DEF Moved
<1>12. \A m, n \in mailbox[s] : m.folder = f /\ n.folder = f =>
          /\ r[m] \in Uid /\ r[m] < nextUid'[s][f]
          /\ m.uid < n.uid => r[m] < r[n]
  BY <1>4, <1>5, <1>7
<1>13. \A q \in Source, g \in Folder :
          validity'[q][g] = IF q = s /\ g = f THEN validity[s][f] + 1 ELSE validity[q][g]
  BY <1>1, <1>3
<1>14. \A q \in Source, g \in Folder : q # s \/ g # f => nextUid'[q][g] = nextUid[q][g]
  BY <1>2, <1>3
<1>15. \E x : /\ \A m, n \in mailbox[s] : m.folder = f /\ n.folder = f =>
                    /\ x[m] \in Uid /\ x[m] < nextUid'[s][f]
                    /\ m.uid < n.uid => x[m] < x[n]
              /\ \A m \in mailbox'[s] : m.folder = f =>
                    \E n \in mailbox[s] : Moved(m, n, x)
  BY <1>11, <1>12
<1> QED
  BY <1>1, <1>8, <1>11, <1>13, <1>14, <1>15

\* A rebuild numbers the folder again under a UIDVALIDITY nothing is known of.
LEMMA RebuildKeys ==
  ASSUME TypeOK, KeysIdentify, NEW s \in Source, NEW f \in Folder, Rebuild(s, f)
  PROVE  KeysIdentify'
<1>1. /\ UNCHANGED <<batch, imported>>
      /\ \A q \in Source, g \in Folder :
            validity'[q][g] = IF q = s /\ g = f THEN validity[s][f] + 1 ELSE validity[q][g]
      /\ \A q \in Source, g \in Folder :
            q # s \/ g # f => nextUid'[q][g] = nextUid[q][g]
      /\ \A q \in Source : \A m \in mailbox'[q] :
            q # s \/ m.folder # f => m \in mailbox[q]
  BY RebuildMoves DEF storeVars, pollVars
<1>2. PICK r : /\ \A m, n \in mailbox[s] : m.folder = f /\ n.folder = f =>
                     /\ r[m] \in Uid /\ r[m] < nextUid'[s][f]
                     /\ m.uid < n.uid => r[m] < r[n]
               /\ \A m \in mailbox'[s] : m.folder = f =>
                     \E n \in mailbox[s] : Moved(m, n, r)
  BY RebuildMoves
<1>3. \A q \in Source, g \in Folder : validity[q][g] \in Nat
  BY MailFlowAssumption DEF TypeOK, Validity, MailFlowAssumption
<1>4. \A m \in mailbox[s] : m.folder \in Folder /\ m.uid \in Uid /\ m.raw \in Content
  BY DEF TypeOK, Mail
<1>5. ASSUME NEW q \in Source, NEW g \in Folder, NEW v \in Validity, NEW u \in Uid,
             NEW e1 \in Content, NEW e2 \in Content, Named(q, g, v, u, e1)'
      PROVE  /\ v <= validity'[q][g]
             /\ v = validity'[q][g] => u < nextUid'[q][g]
             /\ Named(q, g, v, u, e2)' => e2 = e1
  <2>0. v \in Nat
    BY DEF Validity
  <2>1. CASE q = s /\ g = f /\ v = validity[s][f] + 1
    <3>1. \A e \in Content : Named(q, g, v, u, e)' =>
             \E m \in mailbox'[s] : m.folder = f /\ m.uid = u /\ m.raw = e
      <4> TAKE e \in Content
      <4>1. ~Named(q, g, v, u, e)
        BY <1>3, <2>1 DEF KeysIdentify
      <4> QED
        BY <1>1, <2>1, <4>1 DEF Named
    <3>2. \A e \in Content : Named(q, g, v, u, e)' =>
             \E n \in mailbox[s] : n.folder = f /\ n.raw = e /\ u = r[n]
      BY <1>2, <3>1 DEF Moved
    <3>3. PICK n \in mailbox[s] : n.folder = f /\ n.raw = e1 /\ u = r[n]
      BY <1>5, <3>2
    <3>4. u < nextUid'[s][f]
      BY <1>2, <3>3
    <3>5. ASSUME Named(q, g, v, u, e2)'
          PROVE  e2 = e1
      <4>1. PICK k \in mailbox[s] : k.folder = f /\ k.raw = e2 /\ u = r[k]
        BY <3>2, <3>5
      <4>2. k.uid = n.uid
        <5>0. \A u1 \in Uid : u1 \in Nat
          BY MailFlowAssumption DEF Uid, MailFlowAssumption
        <5>1. /\ r[k] \in Uid /\ r[n] \in Uid /\ k.uid \in Uid /\ n.uid \in Uid
              /\ k.uid < n.uid => r[k] < r[n]
              /\ n.uid < k.uid => r[n] < r[k]
          BY <1>2, <1>4, <3>3, <4>1
        <5> QED
          BY <3>3, <4>1, <5>0, <5>1
      <4>3. Named(s, f, validity[s][f], n.uid, e1) /\ Named(s, f, validity[s][f], n.uid, e2)
        BY <3>3, <4>1, <4>2 DEF Named
      <4>4. validity[s][f] \in Validity /\ n.uid \in Uid
        BY <1>4 DEF TypeOK
      <4> QED
        BY <4>3, <4>4 DEF KeysIdentify
    <3> QED
      BY <1>1, <1>3, <2>1, <3>4, <3>5
  <2>2. CASE ~(q = s /\ g = f /\ v = validity[s][f] + 1)
    <3>1. \A e : Named(q, g, v, u, e)' => Named(q, g, v, u, e)
      BY <1>1, <2>2 DEF Named
    <3>2. /\ v <= validity[q][g]
          /\ v = validity[q][g] => u < nextUid[q][g]
          /\ Named(q, g, v, u, e2)' => e2 = e1
      BY <1>5, <3>1 DEF KeysIdentify
    <3> QED
      BY <1>1, <1>3, <2>0, <3>2
  <2> QED
    BY <2>1, <2>2
<1> QED
  BY <1>5 DEF KeysIdentify

LEMMA KeysIdentifyNext == TypeOK /\ KeysIdentify /\ [Next]_vars => KeysIdentify'
<1> SUFFICES ASSUME TypeOK, KeysIdentify, [Next]_vars
             PROVE  KeysIdentify'
  OBVIOUS
<1>1. ASSUME ShowsNothingNew
      PROVE  KeysIdentify'
  <2>1. UNCHANGED <<validity, nextUid>>
    BY <1>1 DEF ShowsNothingNew
  <2>2. \A s \in Source : \A f, v, u, c : Named(s, f, v, u, c)' => Named(s, f, v, u, c)
    BY <1>1, NamedFrame
  <2> QED
    BY <2>1, <2>2 DEF KeysIdentify
<1>2. ASSUME NEW s \in Source, MailboxStep(s)
      PROVE  KeysIdentify'
  BY <1>1, <1>2, ArriveKeys, OwnerShows, RebuildKeys, RestShows DEF MailboxStep
<1> QED
  BY <1>1, <1>2, PollShows, RestShows DEF Next

\* Validities only grow: UIDs that hold after a step held before it.
LEMMA UidsHoldBack ==
  ASSUME TypeOK, [Next]_vars, UidsHold'
  PROVE  UidsHold
<1>1. UNCHANGED validity \/ \E s \in Source, f \in Folder : Rebuild(s, f)
  BY PollShows, MailboxFrame DEF Next, ShowsNothingNew, MailboxStep, Arrive, OwnerDeletes,
     OwnerReads, Retarget, Crash, vars, remoteVars
<1>2. ASSUME NEW s \in Source, NEW f \in Folder, Rebuild(s, f)
      PROVE  FALSE
  <2>1. validity'[s][f] = validity[s][f] + 1 /\ validity[s][f] \in Nat \ {0}
    BY <1>2, RebuildMoves, MailFlowAssumption DEF TypeOK, Validity, MailFlowAssumption
  <2> QED
    BY <2>1 DEF UidsHold
<1> QED
  BY <1>1, <1>2 DEF UidsHold

\* A batch message and the mailbox message of its key hold the same content.
LEMMA SameKeySameContent ==
  ASSUME TypeOK, KeysIdentify, NEW s \in Source, NEW m \in mailbox[s], NEW n \in batch[s],
         m.folder = n.folder, m.uid = n.uid, validity[s][m.folder] = n.validity
  PROVE  m.raw = n.raw
<1>1. m \in Mail /\ n \in FetchedMessage
  BY DEF TypeOK
<1>2. /\ m.folder \in Folder /\ m.uid \in Uid /\ m.raw \in Content
      /\ n.raw \in Content /\ n.validity \in Validity
  BY <1>1 DEF Mail, FetchedMessage
<1>3. /\ Named(s, m.folder, n.validity, m.uid, m.raw)
      /\ Named(s, m.folder, n.validity, m.uid, n.raw)
  BY DEF Named
<1> QED
  BY <1>2, <1>3 DEF KeysIdentify

\* While UIDs hold, a batch message is of the folder's UIDVALIDITY.
LEMMA BatchIsCurrent ==
  ASSUME TypeOK, KeysIdentify, UidsHold, NEW s \in Source, NEW n \in batch[s]
  PROVE  validity[s][n.folder] = n.validity
<1>1. n \in FetchedMessage
  BY DEF TypeOK
<1>2. n.folder \in Folder /\ n.validity \in Validity /\ n.uid \in Uid /\ n.raw \in Content
  BY <1>1 DEF FetchedMessage
<1>3. Named(s, n.folder, n.validity, n.uid, n.raw)
  BY DEF Named
<1>4. n.validity <= 1 /\ validity[s][n.folder] = 1
  BY <1>2, <1>3 DEF KeysIdentify, UidsHold
<1> QED
  BY <1>2, <1>4 DEF Validity

\* A row found for a message accounts for it.
LEMMA MatchAccounts ==
  ASSUME TypeOK, KeysIdentify, NEW s \in Source, NEW m \in batch[s],
         NEW r \in MatchingImports(s, to[s], m)
  PROVE  r \in imported[to[s]] /\ Accounts(r, s, m.raw)
<1>2. r \in imported[to[s]]
  BY DEF MatchingImports
<1>3. m \in FetchedMessage /\ to[s] \in Destination /\ r \in ImportedMessage
  BY <1>2 DEF TypeOK
<1>4. /\ m.folder \in Folder /\ m.uid \in Uid /\ m.raw \in Content /\ m.validity \in Validity
      /\ r.raw \in Content
  BY <1>3 DEF FetchedMessage, ImportedMessage
<1>5. CASE r.key = KeyOf(s, m)
  <2>1. /\ Named(s, m.folder, m.validity, m.uid, r.raw)
        /\ Named(s, m.folder, m.validity, m.uid, m.raw)
    BY <1>2, <1>3, <1>5 DEF Named, KeyOf
  <2>2. r.raw = m.raw
    BY <1>4, <2>1 DEF KeysIdentify
  <2> QED
    BY <1>2, <2>2 DEF Accounts
<1>6. CASE r.key # KeyOf(s, m)
  BY <1>2, <1>6 DEF MatchingImports, Accounts
<1> QED
  BY <1>5, <1>6

-----------------------------------------------------------------------------
(* The ledger is true.  Inductive strengthening: a poll about to record has   *)
(* delivered what it is about to record.                                      *)

RecordIsDue ==
    \A s \in Source : pc[s] = "record" =>
        delivered[to[s]][cur[s].raw] > 0 /\ Verdict[to[s]][cur[s].raw] # "reject"

LEMMA RecordIsDueNext ==
  ASSUME TypeOK, RecordIsDue, [Next]_vars
  PROVE  RecordIsDue'
<1>1. ASSUME NEW s \in Source, PollStep(s) \/ PollFault(s), NEW q \in Source, pc'[q] = "record"
      PROVE  delivered'[to'[q]][cur'[q].raw] > 0 /\ Verdict[to'[q]][cur'[q].raw] # "reject"
  <2>0. /\ pc \in [Source -> {"idle", "next", "deliver", "record", "act", "mark"}]
        /\ delivered \in [Destination -> [Content -> Nat]]
    BY DEF TypeOK
  <2>1. CASE q # s
    <3>1. /\ pc[q] = "record" /\ to'[q] = to[q] /\ cur'[q] = cur[q]
          /\ to[q] \in Destination /\ cur[q] \in FetchedMessage
      BY <1>1, <2>1, PollFrame DEF TypeOK
    <3>2. cur[q].raw \in Content
      BY <3>1 DEF FetchedMessage
    <3>3. delivered[to[q]][cur[q].raw] > 0 /\ Verdict[to[q]][cur[q].raw] # "reject"
      BY <3>1 DEF RecordIsDue
    <3>4. delivered'[to[q]][cur[q].raw] >= delivered[to[q]][cur[q].raw]
      BY <1>1, <3>1, <3>2, PollGrows
    <3>5. delivered[to[q]][cur[q].raw] \in Nat
      BY <2>0, <3>1, <3>2
    <3>6. delivered'[to[q]][cur[q].raw] \in Nat
      BY <1>1, <3>1, <3>2, PollTypeOK DEF TypeOK
    <3> QED
      BY <3>1, <3>3, <3>4, <3>5, <3>6
  <2>2. CASE q = s
    <3>1. Deliver(s) /\ Verdict[to[s]][cur[s].raw] # "reject"
      BY <1>1, <2>0, <2>2 DEF PollStep, PollFault, Fetch, Examine, Deliver, Record, Act, Mark,
         Finish, DeliverUnacknowledged, ActNotExpunged, Abort, Leave, Goto
    <3>2. /\ cur[s] \in FetchedMessage /\ to[s] \in Destination
          /\ delivered' = [delivered EXCEPT ![to[s]][cur[s].raw] = @ + 1]
          /\ UNCHANGED <<to, cur>>
      BY <3>1 DEF Deliver, TypeOK
    <3>3. cur[s].raw \in Content
      BY <3>2 DEF FetchedMessage
    <3>4. delivered'[to[s]][cur[s].raw] > 0
      BY <2>0, <3>2, <3>3
    <3> QED
      BY <2>2, <3>1, <3>2, <3>4
  <2> QED
    BY <2>1, <2>2
<1>2. ASSUME NEW s \in Source, MailboxStep(s)
      PROVE  RecordIsDue'
  BY <1>2, MailboxFrame DEF RecordIsDue, pollVars
<1>3. ASSUME Crash
      PROVE  RecordIsDue'
  BY <1>3 DEF Crash, RecordIsDue
<1>4. ASSUME UNCHANGED vars
      PROVE  RecordIsDue'
  BY <1>4 DEF vars, RecordIsDue
<1> QED
  BY <1>1, <1>2, <1>3, <1>4 DEF Next, RecordIsDue

LEMMA LedgerIsTrueNext ==
  ASSUME TypeOK, RecordIsDue, LedgerIsTrue, [Next]_vars
  PROVE  LedgerIsTrue'
<1>1. ASSUME NEW s \in Source, PollStep(s) \/ PollFault(s)
      PROVE  LedgerIsTrue'
  <2>0. /\ imported \in [Destination -> SUBSET ImportedMessage]
        /\ delivered \in [Destination -> [Content -> Nat]]
        /\ delivered' \in [Destination -> [Content -> Nat]]
    BY <1>1, PollTypeOK DEF TypeOK
  <2>1. \A d \in Destination : \A r \in imported[d] : r.raw \in Content
    BY <2>0 DEF ImportedMessage
  <2>2. \A d \in Destination, c \in Content : delivered[d][c] > 0 => delivered'[d][c] > 0
    BY <1>1, <2>0, PollGrows
  <2>3. CASE imported' = imported
    BY <2>1, <2>2, <2>3 DEF LedgerIsTrue
  <2>4. CASE imported' # imported
    <3> DEFINE row == [key |-> KeyOf(s, cur[s]), raw |-> cur[s].raw,
                       sanitized |-> Verdict[to[s]][cur[s].raw] = "sanitize"]
    <3>1. Record(s)
      BY <1>1, <2>4 DEF PollStep, PollFault, Fetch, Examine, Deliver, Record, Act, Mark,
         Finish, DeliverUnacknowledged, ActNotExpunged, Abort, storeVars
    <3>2. /\ imported' = [imported EXCEPT ![to[s]] = @ \cup {row}]
          /\ \A r \in imported[to[s]] : r.key # row.key /\ r.raw # row.raw
      BY <2>4, <3>1 DEF Record
    <3>3. /\ delivered[to[s]][row.raw] > 0 /\ Verdict[to[s]][row.raw] # "reject"
          /\ row.sanitized <=> Verdict[to[s]][row.raw] = "sanitize"
          /\ row.raw \in Content /\ to[s] \in Destination
      <4>1. pc[s] = "record"
        BY <3>1 DEF Record
      <4>2. cur[s] \in FetchedMessage /\ to[s] \in Destination
        BY <4>1 DEF TypeOK
      <4>3. cur[s].raw \in Content
        BY <4>2 DEF FetchedMessage
      <4>4. delivered[to[s]][cur[s].raw] > 0 /\ Verdict[to[s]][cur[s].raw] # "reject"
        BY <4>1 DEF RecordIsDue
      <4> QED
        BY <4>2, <4>3, <4>4
    <3> HIDE DEF row
    <3>4. \A d \in Destination : \A r \in imported'[d] :
             r \in imported[d] \/ (d = to[s] /\ r = row)
      BY <2>0, <3>2
    <3>5. ASSUME NEW d \in Destination, NEW r \in imported'[d]
          PROVE  /\ delivered'[d][r.raw] > 0
                 /\ Verdict[d][r.raw] # "reject"
                 /\ r.sanitized <=> Verdict[d][r.raw] = "sanitize"
      <4>1. CASE r \in imported[d]
        BY <2>1, <2>2, <4>1 DEF LedgerIsTrue
      <4>2. CASE d = to[s] /\ r = row
        BY <2>2, <3>3, <4>2
      <4> QED
        BY <3>4, <4>1, <4>2
    <3>6. ASSUME NEW d \in Destination, NEW r \in imported'[d], NEW q \in imported'[d],
                 q.raw = r.raw \/ q.key = r.key
          PROVE  q = r
      <4>1. CASE r \in imported[d] /\ q \in imported[d]
        BY <3>6, <4>1 DEF LedgerIsTrue
      <4>2. CASE ~(r \in imported[d] /\ q \in imported[d])
        BY <3>2, <3>4, <3>6, <4>2
      <4> QED
        BY <4>1, <4>2
    <3> QED
      BY <3>5, <3>6 DEF LedgerIsTrue
  <2> QED
    BY <2>3, <2>4
<1>2. ASSUME NEW s \in Source, MailboxStep(s)
      PROVE  LedgerIsTrue'
  BY <1>2, MailboxFrame DEF LedgerIsTrue, storeVars
<1>3. ASSUME Crash
      PROVE  LedgerIsTrue'
  BY <1>3 DEF Crash, LedgerIsTrue, storeVars
<1>4. ASSUME UNCHANGED vars
      PROVE  LedgerIsTrue'
  BY <1>4 DEF vars, LedgerIsTrue
<1> QED
  BY <1>1, <1>2, <1>3, <1>4 DEF Next

\* Whatever polls run at once, stop, fail or crash, a ledger row stands for a
\* message its destination was given, and no content or source message has two
\* rows (recordImport, V1__schema unique constraints).
THEOREM LedgerAlwaysTrue == Spec => []LedgerIsTrue
<1>1. Init => TypeOK /\ RecordIsDue /\ LedgerIsTrue
  BY InitTypeOK DEF Init, RecordIsDue, LedgerIsTrue
<1>2. TypeOK /\ RecordIsDue /\ LedgerIsTrue /\ [Next]_vars
         => (TypeOK /\ RecordIsDue /\ LedgerIsTrue)'
  BY NextTypeOK, RecordIsDueNext, LedgerIsTrueNext
<1> QED
  BY <1>1, <1>2, PTL DEF Spec

-----------------------------------------------------------------------------
(* What the importer erases.  Inductive strengthening: a poll about to apply  *)
(* the post-poll action handles a message its destination ledger accounts for *)
(* in full.                                                                   *)

Actable ==
    \A s \in Source : pc[s] = "act" => ImportedInFull(to[s], s, cur[s].raw)

\* What is accounted for stays so.
LEMMA AccountsStay ==
  ASSUME NEW d \in Destination, imported[d] \subseteq imported'[d], NEW s, NEW c,
         ImportedInFull(d, s, c)
  PROVE  \E r \in imported'[d] : ~r.sanitized /\ Accounts(r, s, c)
  BY DEF ImportedInFull

LEMMA ActableNext ==
  ASSUME TypeOK, KeysIdentify, Actable, [Next]_vars
  PROVE  Actable'
<1>1. ASSUME NEW s \in Source, PollStep(s) \/ PollFault(s), NEW q \in Source,
             pc'[q] = "act"
      PROVE  \E r \in imported'[to'[q]] : ~r.sanitized /\ Accounts(r, q, cur'[q].raw)
  <2>0. /\ pc \in [Source -> {"idle", "next", "deliver", "record", "act", "mark"}]
        /\ imported \in [Destination -> SUBSET ImportedMessage]
        /\ to \in [Source -> Destination]
        /\ cur \in [Source -> FetchedMessage \cup {None}]
    BY DEF TypeOK
  <2>2. \A d \in Destination : imported[d] \subseteq imported'[d]
    BY <1>1, PollGrows
  <2>3. CASE q # s
    <3>1. pc[q] = "act" /\ to'[q] = to[q] /\ cur'[q] = cur[q] /\ to[q] \in Destination
      BY <1>1, <2>0, <2>3, PollFrame
    <3>2. ImportedInFull(to[q], q, cur[q].raw)
      BY <3>1 DEF Actable
    <3> QED
      BY <2>2, <3>1, <3>2, AccountsStay
  <2>4. CASE q = s
    <3>1. (\E m \in batch[s] : Examine(s, m)) \/ Record(s)
      <4>1. pc'[s] = "act" /\ pc[s] \in {"idle", "next", "deliver", "record", "act", "mark"}
        BY <1>1, <2>0, <2>4
      <4>2. Leave(s) => pc'[s] = "idle"
        BY <2>0 DEF Leave, Goto
      <4>3. ~Fetch(s) /\ ~Deliver(s) /\ ~Mark(s) /\ ~Finish(s)
        BY <2>0, <4>1, <4>2 DEF Fetch, Deliver, Mark, Finish, Goto
      <4>4. ~Act(s)
        BY <2>0, <4>1, <4>2 DEF Act, Goto
      <4>5. ~PollFault(s)
        BY <2>0, <4>1, <4>2 DEF PollFault, DeliverUnacknowledged, ActNotExpunged, Abort, Goto
      <4> QED
        BY <1>1, <4>3, <4>4, <4>5 DEF PollStep
    <3>2. ASSUME NEW m \in batch[s], Examine(s, m)
          PROVE  ImportedInFull(to[s], s, m.raw) /\ cur'[s] = m /\ to' = to
      <4>1. cur'[s] = m /\ to' = to
        BY <2>0, <3>2 DEF Examine
      <4>2. PICK r \in MatchingImports(s, to[s], m) : ~r.sanitized
        BY <1>1, <2>0, <2>4, <3>2 DEF Examine, Goto
      <4> QED
        BY <4>1, <4>2, MatchAccounts DEF ImportedInFull
    <3>3. CASE Record(s)
      <4> DEFINE row == [key |-> KeyOf(s, cur[s]), raw |-> cur[s].raw,
                         sanitized |-> Verdict[to[s]][cur[s].raw] = "sanitize"]
      <4>1. /\ imported' = [imported EXCEPT ![to[s]] = @ \cup {row}]
            /\ ~row.sanitized
            /\ UNCHANGED <<to, cur>>
        BY <1>1, <2>0, <2>4, <3>3 DEF Record, Leave, Goto
      <4>2. row.raw = cur[s].raw
        OBVIOUS
      <4> HIDE DEF row
      <4>3. row \in imported'[to[s]]
        BY <2>0, <4>1
      <4> QED
        BY <2>4, <4>1, <4>2, <4>3 DEF Accounts
    <3>4. ASSUME NEW m \in batch[s], Examine(s, m)
          PROVE  \E r \in imported'[to'[q]] : ~r.sanitized /\ Accounts(r, q, cur'[q].raw)
      BY <2>0, <2>2, <2>4, <3>2, <3>4, AccountsStay
    <3> QED
      BY <3>1, <3>3, <3>4
  <2> QED
    BY <2>3, <2>4
<1>2. ASSUME NEW s \in Source, MailboxStep(s)
      PROVE  Actable'
  BY <1>2, MailboxFrame DEF Actable, ImportedInFull, storeVars, pollVars
<1>3. ASSUME Crash
      PROVE  Actable'
  BY <1>3 DEF Crash, Actable
<1>4. ASSUME UNCHANGED vars
      PROVE  Actable'
  BY <1>4 DEF vars, Actable, ImportedInFull
<1>5. ASSUME NEW s \in Source, PollStep(s) \/ PollFault(s)
      PROVE  Actable'
  BY <1>1, <1>5 DEF Actable, ImportedInFull
<1> QED
  BY <1>2, <1>3, <1>4, <1>5 DEF Next

LEMMA ErasedNext ==
  ASSUME TypeOK, KeysIdentify, Actable, ErasedWasImportedWhileUidsHold, [Next]_vars
  PROVE  ErasedWasImportedWhileUidsHold'
<1>0. UidsHold' => UidsHold
  BY UidsHoldBack
<1>1. ASSUME NEW s \in Source, PollStep(s) \/ PollFault(s), UidsHold', NEW e \in erased'
      PROVE  \E r \in imported'[e.dest] : ~r.sanitized /\ Accounts(r, e.src, e.raw)
  <2>1. UidsHold
    BY <1>0, <1>1
  <2>2. \A d \in Destination : imported[d] \subseteq imported'[d]
    BY <1>1, PollGrows
  <2>3. CASE e \in erased
    <3>1. ImportedInFull(e.dest, e.src, e.raw) /\ e.dest \in Destination
      BY <2>1, <2>3 DEF ErasedWasImportedWhileUidsHold, ErasedWasImported, TypeOK
    <3> QED
      BY <2>2, <3>1, AccountsStay
  <2>4. CASE e \notin erased
    <3>1. Act(s)
      BY <1>1, <2>4 DEF PollStep, PollFault, Fetch, Examine, Deliver, Record, Act, Mark,
         Finish, DeliverUnacknowledged, ActNotExpunged, Abort
    <3>2. PICK n \in mailbox[s] : /\ n.folder = cur[s].folder /\ n.uid = cur[s].uid
                                  /\ e = [dest |-> to[s], src |-> s, raw |-> n.raw]
      BY <1>1, <2>4, <3>1 DEF Act
    <3>3. pc[s] = "act"
      BY <3>1 DEF Act
    <3>4. /\ cur[s] \in batch[s] /\ cur[s] \in FetchedMessage
          /\ to[s] \in Destination /\ n \in Mail
      BY <3>3 DEF TypeOK
    <3>7. n.raw = cur[s].raw
      BY <2>1, <3>2, <3>4, BatchIsCurrent, SameKeySameContent
    <3>8. ImportedInFull(to[s], s, n.raw)
      BY <3>3, <3>7 DEF Actable
    <3>9. e.dest = to[s] /\ e.src = s /\ e.raw = n.raw
      BY <3>2
    <3> QED
      BY <2>2, <3>4, <3>8, <3>9, AccountsStay
  <2> QED
    BY <2>3, <2>4
<1>2. ASSUME NEW s \in Source, MailboxStep(s)
      PROVE  ErasedWasImportedWhileUidsHold'
  BY <1>0, <1>2, MailboxFrame
     DEF ErasedWasImportedWhileUidsHold, ErasedWasImported, ImportedInFull, storeVars
<1>3. ASSUME Crash
      PROVE  ErasedWasImportedWhileUidsHold'
  BY <1>0, <1>3
     DEF Crash, ErasedWasImportedWhileUidsHold, ErasedWasImported, ImportedInFull, storeVars
<1>4. ASSUME UNCHANGED vars
      PROVE  ErasedWasImportedWhileUidsHold'
  BY <1>0, <1>4 DEF vars, ErasedWasImportedWhileUidsHold, ErasedWasImported, ImportedInFull
<1>5. ASSUME NEW s \in Source, PollStep(s) \/ PollFault(s)
      PROVE  ErasedWasImportedWhileUidsHold'
  BY <1>1, <1>5 DEF ErasedWasImportedWhileUidsHold, ErasedWasImported, ImportedInFull
<1> QED
  BY <1>2, <1>3, <1>4, <1>5 DEF Next

\* Until a mail server renumbers a folder, whatever polls run at once, stop,
\* fail or crash, the importer never deletes or moves away a message that its
\* destination ledger does not account for in full (applyPostPollSettings).
THEOREM ErasedAlwaysImported == Spec => []ErasedWasImportedWhileUidsHold
<1> DEFINE IInv == TypeOK /\ KeysIdentify /\ Actable /\ ErasedWasImportedWhileUidsHold
<1>1. Init => IInv
  <2> SUFFICES ASSUME Init PROVE IInv
    OBVIOUS
  <2>1. KeysIdentify
    BY DEF Init, Named, KeysIdentify
  <2>2. Actable /\ ErasedWasImportedWhileUidsHold
    BY DEF Init, Actable, ErasedWasImportedWhileUidsHold, ErasedWasImported
  <2> QED
    BY <2>1, <2>2, InitTypeOK
<1>2. IInv /\ [Next]_vars => IInv'
  BY NextTypeOK, KeysIdentifyNext, ActableNext, ErasedNext
<1> QED
  BY <1>1, <1>2, PTL DEF Spec

-----------------------------------------------------------------------------
(* What is delivered.  Inductive strengthening: a poll that is about to       *)
(* deliver looked its content up, and only other sources have recorded it     *)
(* since.                                                                     *)

\* What a look-up saw is still in the ledger, and only a poll that is about to
\* deliver keeps it.
LookedIsLedger ==
    \A s \in Source : /\ looked[s] \subseteq imported[to[s]]
                      /\ pc[s] # "deliver" => looked[s] = {}

LookedUp ==
    \A s \in Source : pc[s] = "deliver" =>
        \A r \in imported[to[s]] :
            Accounts(r, s, cur[s].raw) => r.key.src # s /\ r \notin looked[s]

LEMMA LookedIsLedgerNext ==
  ASSUME TypeOK, LookedIsLedger, [Next]_vars
  PROVE  LookedIsLedger'
<1>0. /\ pc \in [Source -> {"idle", "next", "deliver", "record", "act", "mark"}]
      /\ imported \in [Destination -> SUBSET ImportedMessage]
      /\ to \in [Source -> Destination]
      /\ looked \in [Source -> SUBSET ImportedMessage]
  BY DEF TypeOK
<1>1. ASSUME NEW s \in Source, PollStep(s) \/ PollFault(s), NEW q \in Source
      PROVE  /\ looked'[q] \subseteq imported'[to'[q]]
             /\ pc'[q] # "deliver" => looked'[q] = {}
  <2>1. \A d \in Destination : imported[d] \subseteq imported'[d]
    BY <1>1, PollGrows
  <2>2. CASE q # s
    BY <1>0, <1>1, <2>1, <2>2, PollFrame DEF LookedIsLedger
  <2>3. CASE q = s
    <3>1. CASE looked'[s] = {}
      BY <2>3, <3>1
    <3>2. CASE looked'[s] # {}
      <4>1. \/ \E m \in batch[s] : Examine(s, m)
            \/ looked' = looked /\ pc[s] # "deliver"
        BY <1>0, <1>1, <2>3, <3>2
           DEF PollStep, PollFault, Fetch, Deliver, Record, Act, Mark, Finish,
               DeliverUnacknowledged, ActNotExpunged, Abort, Leave
      <4>2. PICK m \in batch[s] : Examine(s, m)
        BY <3>2, <4>1 DEF LookedIsLedger
      <4>3. /\ looked'[s] = imported[to[s]] /\ pc'[s] = "deliver"
            /\ UNCHANGED <<imported, to>>
        BY <1>0, <3>2, <4>2 DEF Examine, Goto, storeVars, LookedIsLedger
      <4> QED
        BY <2>3, <4>3
    <3> QED
      BY <3>1, <3>2
  <2> QED
    BY <2>2, <2>3
<1>2. ASSUME NEW s \in Source, MailboxStep(s)
      PROVE  LookedIsLedger'
  BY <1>2, MailboxFrame DEF LookedIsLedger, storeVars, pollVars
<1>3. ASSUME Crash
      PROVE  LookedIsLedger'
  BY <1>3 DEF Crash, LookedIsLedger
<1>4. ASSUME UNCHANGED vars
      PROVE  LookedIsLedger'
  BY <1>4 DEF vars, LookedIsLedger
<1> QED
  BY <1>1, <1>2, <1>3, <1>4 DEF Next, LookedIsLedger

LEMMA LookedUpNext ==
  ASSUME TypeOK, LookedIsLedger, LookedUp, [Next]_vars
  PROVE  LookedUp'
<1>0. /\ pc \in [Source -> {"idle", "next", "deliver", "record", "act", "mark"}]
      /\ imported \in [Destination -> SUBSET ImportedMessage]
      /\ to \in [Source -> Destination]
      /\ cur \in [Source -> FetchedMessage \cup {None}]
      /\ looked \in [Source -> SUBSET ImportedMessage]
  BY DEF TypeOK
<1>1. ASSUME NEW s \in Source, PollStep(s) \/ PollFault(s), NEW q \in Source,
             pc'[q] = "deliver", NEW r \in imported'[to'[q]], Accounts(r, q, cur'[q].raw)
      PROVE  r.key.src # q /\ r \notin looked'[q]
  <2>1. CASE q # s
    <3>1. /\ pc[q] = "deliver" /\ to'[q] = to[q] /\ cur'[q] = cur[q] /\ to[q] \in Destination
          /\ looked'[q] = looked[q]
      BY <1>0, <1>1, <2>1, PollFrame
    <3>2. CASE r \in imported[to[q]]
      BY <1>1, <3>1, <3>2 DEF LookedUp
    <3>3. CASE r \notin imported[to[q]]
      <4>1. Record(s)
        BY <1>1, <3>1, <3>3 DEF PollStep, PollFault, Fetch, Examine, Deliver, Record, Act,
           Mark, Finish, DeliverUnacknowledged, ActNotExpunged, Abort, storeVars
      <4>2. r.key = KeyOf(s, cur[s])
        BY <1>0, <1>1, <3>1, <3>3, <4>1 DEF Record
      <4>3. r \notin looked[q]
        BY <2>1, <3>1, <3>3 DEF LookedIsLedger
      <4> QED
        BY <2>1, <3>1, <4>2, <4>3 DEF KeyOf
    <3> QED
      BY <3>2, <3>3
  <2>2. CASE q = s
    <3>1. PICK m \in batch[s] : Examine(s, m)
      <4>1. ~Fetch(s) /\ ~Deliver(s) /\ ~Record(s) /\ ~Act(s) /\ ~Mark(s) /\ ~Finish(s)
        BY <1>0, <1>1, <2>2 DEF Fetch, Deliver, Record, Act, Mark, Finish, Leave, Goto
      <4>2. ~PollFault(s)
        BY <1>0, <1>1, <2>2
           DEF PollFault, DeliverUnacknowledged, ActNotExpunged, Abort, Leave, Goto
      <4> QED
        BY <1>1, <4>1, <4>2 DEF PollStep
    <3>2. /\ MatchingImports(s, to[s], m) = {}
          /\ cur'[s] = m /\ looked'[s] = imported[to[s]] /\ UNCHANGED <<to, imported>>
      BY <1>0, <1>1, <2>2, <3>1 DEF Examine, Goto, storeVars
    <3>3. r \in imported[to[s]] /\ Accounts(r, s, m.raw)
      BY <1>1, <2>2, <3>2
    <3> QED
      BY <3>2, <3>3 DEF MatchingImports, Accounts
  <2> QED
    BY <2>1, <2>2
<1>2. ASSUME NEW s \in Source, MailboxStep(s)
      PROVE  LookedUp'
  <2>1. UNCHANGED <<pc, to, cur, looked, imported>>
    BY <1>2, MailboxFrame DEF storeVars, pollVars
  <2> QED
    BY <2>1 DEF LookedUp, Accounts
<1>3. ASSUME Crash
      PROVE  LookedUp'
  BY <1>3 DEF Crash, LookedUp
<1>4. ASSUME UNCHANGED vars
      PROVE  LookedUp'
  BY <1>4 DEF vars, LookedUp, Accounts
<1> QED
  BY <1>1, <1>2, <1>3, <1>4 DEF Next, LookedUp

\* A poll delivers nothing that the ledger accounted for when it looked, and
\* nothing its own source has recorded: a row that accounts for the message is
\* one that another source recorded since (duplicateStatus, importMessage).
THEOREM NothingRedelivered == Spec => NoRedelivery
<1>1. Init => TypeOK /\ LookedIsLedger /\ LookedUp
  BY InitTypeOK DEF Init, LookedIsLedger, LookedUp
<1>2. TypeOK /\ LookedIsLedger /\ LookedUp /\ [Next]_vars =>
        (TypeOK /\ LookedIsLedger /\ LookedUp)'
  BY NextTypeOK, LookedIsLedgerNext, LookedUpNext
<1>3. LookedUp =>
        [\A s \in Source :
            pc[s] = "deliver" /\ pc'[s] # "deliver" /\ delivered' # delivered =>
                \A r \in imported[to[s]] :
                    Accounts(r, s, cur[s].raw) => r.key.src # s /\ r \notin looked[s]]_vars
  BY DEF LookedUp
<1> QED
  BY <1>1, <1>2, <1>3, PTL DEF Spec, NoRedelivery

-----------------------------------------------------------------------------
(* The pipeline implements MailDelivery: a delivery puts a content in an      *)
(* inbox, a record enters it in the ledger, an action removes it from its     *)
(* source, and every other step changes nothing of the promise.               *)

Given == [d \in Destination |-> {c \in Content : delivered[d][c] > 0}]
Entered == [d \in Destination |->
               {[src |-> r.key.src, raw |-> r.raw, sanitized |-> r.sanitized] :
                   r \in imported[d]}]

\* A delivery puts its content where it was sent.
LEMMA DeliveryIsPut ==
  ASSUME TypeOK, NEW s \in Source, pc[s] = "deliver",
         delivered' = [delivered EXCEPT ![to[s]][cur[s].raw] = @ + 1]
  PROVE  /\ to[s] \in Destination /\ cur[s].raw \in Content
         /\ Given' = [Given EXCEPT ![to[s]] = @ \cup {cur[s].raw}]
<1>0. /\ delivered \in [Destination -> [Content -> Nat]]
      /\ to[s] \in Destination /\ cur[s] \in FetchedMessage
  BY DEF TypeOK
<1>1. cur[s].raw \in Content
  BY <1>0 DEF FetchedMessage
<1>2. \A d \in Destination, c \in Content :
         delivered'[d][c] > 0 <=> delivered[d][c] > 0 \/ (d = to[s] /\ c = cur[s].raw)
  BY <1>0, <1>1
<1>3. \A d \in Destination :
         {c \in Content : delivered'[d][c] > 0} =
            IF d = to[s] THEN {c \in Content : delivered[d][c] > 0} \cup {cur[s].raw}
            ELSE {c \in Content : delivered[d][c] > 0}
  BY <1>1, <1>2
<1>4. Given' = [d \in Destination |->
                  IF d = to[s] THEN Given[d] \cup {cur[s].raw} ELSE Given[d]]
  BY <1>3 DEF Given
<1>5. [Given EXCEPT ![to[s]] = @ \cup {cur[s].raw}] =
         [d \in Destination |-> IF d = to[s] THEN Given[d] \cup {cur[s].raw} ELSE Given[d]]
  BY <1>0 DEF Given
<1> QED
  BY <1>0, <1>1, <1>4, <1>5

\* A row that is recorded is an entry of a content that was given.
LEMMA RecordIsEntered ==
  ASSUME TypeOK, RecordIsDue, NEW s \in Source, Record(s), imported' # imported
  PROVE  \E e \in [src : Source, raw : Content, sanitized : BOOLEAN] :
            /\ to[s] \in Destination
            /\ e.raw \in Given[to[s]]
            /\ \A other \in Entered[to[s]] : other.raw # e.raw
            /\ Entered' = [Entered EXCEPT ![to[s]] = @ \cup {e}]
<1> DEFINE row == [key |-> KeyOf(s, cur[s]), raw |-> cur[s].raw,
                   sanitized |-> Verdict[to[s]][cur[s].raw] = "sanitize"]
           entry(r) == [src |-> r.key.src, raw |-> r.raw, sanitized |-> r.sanitized]
<1>0. /\ imported \in [Destination -> SUBSET ImportedMessage]
      /\ to[s] \in Destination /\ cur[s] \in FetchedMessage /\ pc[s] = "record"
  BY DEF TypeOK, Record
<1>1. cur[s].raw \in Content
  BY <1>0 DEF FetchedMessage
<1>2. /\ imported' = [imported EXCEPT ![to[s]] = @ \cup {row}]
      /\ \A r \in imported[to[s]] : r.raw # row.raw
  BY DEF Record
<1>3. entry(row) \in [src : Source, raw : Content, sanitized : BOOLEAN]
      /\ entry(row).raw = cur[s].raw /\ row.raw = cur[s].raw
  BY <1>1 DEF KeyOf
<1>4. entry(row).raw \in Given[to[s]]
  BY <1>0, <1>1, <1>3 DEF RecordIsDue, Given
<1>5. \A other \in Entered[to[s]] : other.raw # entry(row).raw
  BY <1>0, <1>2, <1>3 DEF Entered
<1> HIDE DEF row
<1>6. \A d \in Destination :
         {entry(r) : r \in imported'[d]} =
            IF d = to[s] THEN {entry(r) : r \in imported[d]} \cup {entry(row)}
            ELSE {entry(r) : r \in imported[d]}
  <2> HIDE DEF entry
  <2> QED
    BY <1>0, <1>2
<1>7. Entered' = [Entered EXCEPT ![to[s]] = @ \cup {entry(row)}]
  <2>1. /\ Entered = [d \in Destination |-> {entry(r) : r \in imported[d]}]
        /\ Entered' = [d \in Destination |-> {entry(r) : r \in imported'[d]}]
    BY DEF Entered
  <2> HIDE DEF entry
  <2> QED
    BY <1>0, <1>6, <2>1
<1> HIDE DEF entry
<1> QED
  BY <1>0, <1>3, <1>4, <1>5, <1>7

\* What an action removes is one removal, and the ledger accounts for it.
LEMMA ActionIsRemoval ==
  ASSUME TypeOK, KeysIdentify, Actable, UidsHold, NEW s \in Source, Act(s), erased' # erased
  PROVE  \E r \in [dest : Destination, src : Source, raw : Content] :
            /\ ImportedInFull(r.dest, r.src, r.raw)
            /\ erased' = erased \cup {r}
<1> DEFINE found == {n \in mailbox[s] : n.folder = cur[s].folder /\ n.uid = cur[s].uid}
           removal(n) == [dest |-> to[s], src |-> s, raw |-> n.raw]
<1>1. erased' = erased \cup {removal(n) : n \in found} /\ pc[s] = "act"
  BY DEF Act
<1>2. cur[s] \in batch[s] /\ cur[s] \in FetchedMessage /\ to[s] \in Destination
  BY <1>1 DEF TypeOK
<1>3. cur[s].folder \in Folder /\ cur[s].uid \in Uid /\ cur[s].raw \in Content
  BY <1>2 DEF FetchedMessage
<1>4. \A n \in found : n.raw = cur[s].raw
  BY <1>2, BatchIsCurrent, SameKeySameContent
<1>5. PICK n \in found : TRUE
  BY <1>1
<1>6. {removal(x) : x \in found} = {removal(n)}
  BY <1>4
<1>7. removal(n) \in [dest : Destination, src : Source, raw : Content]
      /\ removal(n).dest = to[s] /\ removal(n).src = s /\ removal(n).raw = cur[s].raw
  BY <1>2, <1>3, <1>4
<1>8. ImportedInFull(to[s], s, cur[s].raw)
  BY <1>1 DEF Actable
<1> HIDE DEF removal, found
<1> QED
  BY <1>1, <1>6, <1>7, <1>8

\* A row that accounts for a message is an entry that does.
LEMMA RowIsEntry ==
  ASSUME NEW d \in Destination, NEW s, NEW c, ImportedInFull(d, s, c)
  PROVE  \E e \in Entered[d] : ~e.sanitized /\ Promise!Accounts(e, s, c)
<1> DEFINE entry(r) == [src |-> r.key.src, raw |-> r.raw, sanitized |-> r.sanitized]
<1>1. PICK r \in imported[d] : ~r.sanitized /\ Accounts(r, s, c)
  BY DEF ImportedInFull
<1>2. entry(r) \in Entered[d]
  BY DEF Entered
<1>3. entry(r).src = r.key.src /\ entry(r).raw = r.raw /\ entry(r).sanitized = r.sanitized
  OBVIOUS
<1> HIDE DEF entry
<1>4. Promise!Accounts(entry(r), s, c)
  BY <1>1, <1>3 DEF Accounts, Promise!Accounts
<1> QED
  BY <1>1, <1>2, <1>3, <1>4

\* A step that gives, enters and removes nothing.
LEMMA NothingPromised ==
  ASSUME UNCHANGED <<delivered, imported, erased>>
  PROVE  UNCHANGED <<Given, Entered, erased>>
  BY DEF Given, Entered

LEMMA StepIsPromised ==
  ASSUME TypeOK, RecordIsDue, KeysIdentify, Actable, UidsHold, [Next]_vars
  PROVE  [Promise!Next]_<<Given, Entered, erased>>
<1> USE DEF Promise!Next, Promise!Put, Promise!Enter, Promise!Remove, Promise!Entry,
            Promise!Removal
<1>1. ASSUME NEW s \in Source, Deliver(s) \/ DeliverUnacknowledged(s)
      PROVE  [Promise!Next]_<<Given, Entered, erased>>
  <2>1. CASE UNCHANGED delivered
    BY <1>1, <2>1, NothingPromised DEF Deliver, DeliverUnacknowledged, storeVars
  <2>2. CASE delivered' # delivered
    <3>1. /\ pc[s] = "deliver" /\ UNCHANGED <<imported, erased>>
          /\ delivered' = [delivered EXCEPT ![to[s]][cur[s].raw] = @ + 1]
      BY <1>1, <2>2 DEF Deliver, DeliverUnacknowledged, storeVars
    <3>2. /\ to[s] \in Destination /\ cur[s].raw \in Content
          /\ Given' = [Given EXCEPT ![to[s]] = @ \cup {cur[s].raw}]
          /\ UNCHANGED <<Entered, erased>>
      BY <3>1, DeliveryIsPut DEF Entered
    <3>3. Promise!Put(to[s], cur[s].raw)
      BY <3>2 DEF Given, Entered
    <3> QED
      BY <3>2, <3>3
  <2> QED
    BY <2>1, <2>2
<1>2. ASSUME NEW s \in Source, Record(s)
      PROVE  [Promise!Next]_<<Given, Entered, erased>>
  <2>1. UNCHANGED <<delivered, erased>>
    BY <1>2 DEF Record
  <2>2. CASE UNCHANGED imported
    BY <2>1, <2>2, NothingPromised
  <2>3. CASE imported' # imported
    <3>1. PICK e \in [src : Source, raw : Content, sanitized : BOOLEAN] :
            /\ to[s] \in Destination
            /\ e.raw \in Given[to[s]]
            /\ \A other \in Entered[to[s]] : other.raw # e.raw
            /\ Entered' = [Entered EXCEPT ![to[s]] = @ \cup {e}]
      BY <1>2, <2>3, RecordIsEntered
    <3>2. UNCHANGED <<Given, erased>>
      BY <2>1 DEF Given
    <3>3. Promise!Enter(to[s], e)
      BY <3>1, <3>2 DEF Given, Entered
    <3> QED
      BY <3>1, <3>3
  <2> QED
    BY <2>2, <2>3
<1>3. ASSUME NEW s \in Source, Act(s)
      PROVE  [Promise!Next]_<<Given, Entered, erased>>
  <2>1. UNCHANGED <<delivered, imported>>
    BY <1>3 DEF Act, storeVars
  <2>2. CASE UNCHANGED erased
    BY <2>1, <2>2, NothingPromised
  <2>3. CASE erased' # erased
    <3>1. PICK r \in [dest : Destination, src : Source, raw : Content] :
             ImportedInFull(r.dest, r.src, r.raw) /\ erased' = erased \cup {r}
      BY <1>3, <2>3, ActionIsRemoval
    <3>2. \E e \in Entered[r.dest] : ~e.sanitized /\ Promise!Accounts(e, r.src, r.raw)
      BY <3>1, RowIsEntry
    <3>3. UNCHANGED <<Given, Entered>>
      BY <2>1 DEF Given, Entered
    <3>4. Promise!Remove(r)
      BY <3>1, <3>2, <3>3 DEF Given, Entered
    <3> QED
      BY <3>1, <3>4
  <2> QED
    BY <2>2, <2>3
<1>4. ASSUME NEW s \in Source,
             \/ Fetch(s) \/ Mark(s) \/ Finish(s) \/ ActNotExpunged(s) \/ Abort(s)
             \/ \E m \in batch[s] : Examine(s, m)
             \/ MailboxStep(s)
      PROVE  [Promise!Next]_<<Given, Entered, erased>>
  <2>1. UNCHANGED <<delivered, imported, erased>>
    BY <1>4, MailboxFrame DEF Fetch, Mark, Finish, ActNotExpunged, Abort, Examine, storeVars
  <2> QED
    BY <2>1, NothingPromised
<1>5. CASE Crash \/ UNCHANGED vars
  <2>1. UNCHANGED <<delivered, imported, erased>>
    BY <1>5 DEF Crash, vars, storeVars
  <2> QED
    BY <2>1, NothingPromised
<1> QED
  BY <1>1, <1>2, <1>3, <1>4, <1>5 DEF Next, PollStep, PollFault

\* As long as no mail server renumbers a folder, the pipeline keeps the
\* importer's promise: what it enters in a ledger was delivered and is entered
\* once, and what it removes from a source the ledger accounts for.
THEOREM PipelineKeepsPromise == Spec /\ []UidsHold => KeepsPromise
<1> DEFINE IInv == TypeOK /\ RecordIsDue /\ KeysIdentify /\ Actable
<1>1. Init => IInv
  <2> SUFFICES ASSUME Init PROVE IInv
    OBVIOUS
  <2>1. \A s \in Source : \A f, v, u, c : ~Named(s, f, v, u, c)
    BY DEF Init, Named
  <2> QED
    BY <2>1, InitTypeOK DEF Init, RecordIsDue, KeysIdentify, Actable
<1>2. IInv /\ [Next]_vars => IInv'
  BY NextTypeOK, RecordIsDueNext, KeysIdentifyNext, ActableNext
<1>3. Init => Promise!Init
  BY DEF Init, Promise!Init
<1>4. IInv /\ UidsHold /\ [Next]_vars => [Promise!Next]_<<Given, Entered, erased>>
  BY StepIsPromised
<1> QED
  BY <1>1, <1>2, <1>3, <1>4, PTL DEF Spec, KeepsPromise, Promise!Spec, Given, Entered

-----------------------------------------------------------------------------
(* The checkpoint. *)

\* Only Mark writes a checkpoint row, and only forward.
LEMMA CheckpointStep ==
  ASSUME TypeOK, [Next]_vars, NEW s \in Source, NEW d \in Destination, NEW f \in Folder,
         checkpoint[s][d][f] # None
  PROVE  /\ checkpoint'[s][d][f] # None
         /\ checkpoint'[s][d][f].validity = checkpoint[s][d][f].validity
               => checkpoint'[s][d][f].uid >= checkpoint[s][d][f].uid
<1>1. checkpoint \in [Source -> [Destination -> [Folder -> ImapCheckpoint \cup {None}]]]
  BY DEF TypeOK
<1>2. checkpoint[s][d][f].uid \in Nat
  BY <1>1 DEF ImapCheckpoint, Uid
<1>3. CASE checkpoint' = checkpoint
  BY <1>2, <1>3
<1>4. CASE checkpoint' # checkpoint
  <2>1. PICK q \in Source : Mark(q)
    <3>1. ASSUME NEW q \in Source, PollStep(q) \/ PollFault(q), ~Mark(q)
          PROVE  checkpoint' = checkpoint
      BY <3>1 DEF PollStep, PollFault, Fetch, Examine, Deliver, Record, Act, Finish,
         DeliverUnacknowledged, ActNotExpunged, Abort, storeVars
    <3>2. ASSUME NEW q \in Source, MailboxStep(q)
          PROVE  checkpoint' = checkpoint
      BY <3>2, MailboxFrame DEF storeVars
    <3>3. Crash \/ UNCHANGED vars => checkpoint' = checkpoint
      BY DEF Crash, vars, storeVars
    <3> QED
      BY <1>4, <3>1, <3>2, <3>3 DEF Next
  <2> DEFINE cp == checkpoint[q][to[q]][cur[q].folder]
             new == [validity |-> cur[q].validity, uid |-> cur[q].uid]
  <2>2. /\ checkpoint' = [checkpoint EXCEPT ![q][to[q]][cur[q].folder] = new]
        /\ cp = None \/ cp.validity # new.validity \/ new.uid > cp.uid
    BY <1>4, <2>1 DEF Mark
  <2>3. cur[q] \in FetchedMessage /\ to[q] \in Destination
    BY <2>1 DEF Mark, TypeOK
  <2>4. cur[q].folder \in Folder /\ new.uid \in Nat /\ new \in ImapCheckpoint
    BY <2>3 DEF FetchedMessage, Uid, ImapCheckpoint
  <2>5. new # None
    BY <2>4, NoneAssumption DEF NoneAssumption, ImapCheckpoint
  <2> QED
    BY <1>1, <1>2, <2>2, <2>3, <2>4, <2>5
<1> QED
  BY <1>3, <1>4

\* The checkpoint row of a source, destination and folder never goes back
\* under one UIDVALIDITY (SourcePollingStateService.recordImapCheckpoint).
THEOREM CheckpointAdvances == Spec => CheckpointNeverRewinds
<1>1. TypeOK /\ [Next]_vars => CheckpointMovesForward
  BY CheckpointStep DEF CheckpointMovesForward
<1> QED
  BY <1>1, TypeCorrect, PTL DEF Spec, CheckpointNeverRewinds

-----------------------------------------------------------------------------
(* What a checkpoint has passed.  The invariant follows a message from the     *)
(* moment a fetch could see it: behind the checkpoint it is settled, that is, *)
(* imported or excused; before the last message of a batch it is settled or   *)
(* in the batch; and the message a poll is at is the first of its batch, so   *)
(* that nothing unsettled is before it when its checkpoint is written.        *)

\* Message m of source s is imported at destination d, or excused there.
Settled(s, d, m) ==
    KnownContent(s, d, m.raw) \/ [dest |-> d, key |-> KeyOf(s, m)] \in excused

\* The checkpoint of source s for destination d is at or past message m.
Passed(s, d, m) ==
    IF Protocol[s] = "IMAP"
    THEN /\ checkpoint[s][d][m.folder] # None
         /\ checkpoint[s][d][m.folder].validity = validity[s][m.folder]
         /\ m.uid <= checkpoint[s][d][m.folder].uid
    ELSE /\ popCheckpoint[s] # None
         /\ popCheckpoint[s].dest = d
         /\ m.uid <= popCheckpoint[s].uid

\* CheckpointCovers, in these words.
PassedIsSettled ==
    \A s \in Source, d \in Destination : \A m \in mailbox[s] :
        Passed(s, d, m) => Settled(s, d, Fetched(s, m))

\* A POP3 mailbox is one folder, which no server renumbers.
PopHasOneFolder ==
    \A s \in Source : Protocol[s] = "POP3" =>
        /\ validity[s][Inbox] = 1
        /\ \A m \in mailbox[s] : m.folder = Inbox
        /\ \A m \in batch[s] : m.folder = Inbox /\ m.validity = 1

\* In a folder, and in what a batch holds of one, dates do not go back as UIDs grow.
DatesFollowUids ==
    \A s \in Source :
        /\ \A m, n \in mailbox[s] : m.folder = n.folder /\ m.uid <= n.uid => m.at <= n.at
        /\ \A m, n \in batch[s] : m.folder = n.folder =>
              m.validity = n.validity /\ (m.uid <= n.uid => m.at <= n.at)

\* No checkpoint is ahead of its folder.
RowsAreKnown ==
    \A s \in Source :
        /\ \A d \in Destination, f \in Folder :
              checkpoint[s][d][f] # None =>
                  /\ checkpoint[s][d][f].validity <= validity[s][f]
                  /\ checkpoint[s][d][f].validity = validity[s][f] =>
                        checkpoint[s][d][f].uid < nextUid[s][f]
        /\ Protocol[s] = "POP3" /\ popCheckpoint[s] # None =>
              popCheckpoint[s].uid < nextUid[s][Inbox]

\* Before a message of the batch there is nothing unsettled that the batch has not.
BatchIsComplete ==
    \A s \in Source : \A n \in batch[s] : \A m \in mailbox[s] :
        m.folder = n.folder /\ validity[s][m.folder] = n.validity /\ m.uid < n.uid =>
            \/ Settled(s, to[s], Fetched(s, m))
            \/ \E k \in batch[s] : k.folder = m.folder /\ k.uid = m.uid

\* The message at hand is the first of the batch, and settled once the poll acts.
CurrentIsFirst ==
    \A s \in Source :
        /\ pc[s] \in {"deliver", "record", "act", "mark"} =>
              \A n \in batch[s] : ~Before(s, n, cur[s])
        /\ pc[s] \in {"act", "mark"} => Settled(s, to[s], cur[s])

\* Nothing settled is unsettled.
Grows ==
    (\A d \in Destination : imported[d] \subseteq imported'[d]) /\ excused \subseteq excused'

LEMMA SettledStays ==
  ASSUME Grows, NEW s, NEW d \in Destination, NEW m, Settled(s, d, m)
  PROVE  \/ \E r \in imported'[d] : Accounts(r, s, m.raw)
         \/ [dest |-> d, key |-> KeyOf(s, m)] \in excused'
  BY DEF Grows, Settled, KnownContent

LEMMA NextGrows == ASSUME TypeOK, [Next]_vars PROVE Grows
<1>1. ASSUME NEW s \in Source, PollStep(s) \/ PollFault(s)
      PROVE  Grows
  <2>1. excused \subseteq excused'
    BY <1>1 DEF PollStep, PollFault, Fetch, Examine, Deliver, Record, Act, Mark, Finish,
         DeliverUnacknowledged, ActNotExpunged, Abort
  <2> QED
    BY <1>1, <2>1, PollGrows DEF Grows
<1>2. ASSUME NEW s \in Source, MailboxStep(s)
      PROVE  Grows
  BY <1>2, MailboxFrame DEF Grows, storeVars
<1>3. Crash \/ UNCHANGED vars => Grows
  BY DEF Crash, vars, storeVars, Grows
<1> QED
  BY <1>1, <1>2, <1>3 DEF Next

\* A message settled in the batch is settled in the mailbox.
LEMMA SameKeySettled ==
  ASSUME TypeOK, KeysIdentify, NEW s \in Source, NEW d, NEW m \in mailbox[s], NEW n \in batch[s],
         m.folder = n.folder, m.uid = n.uid, validity[s][m.folder] = n.validity,
         Settled(s, d, n)
  PROVE  Settled(s, d, Fetched(s, m))
<1>1. m.raw = n.raw
  BY SameKeySameContent
<1>2. Fetched(s, m).raw = n.raw /\ KeyOf(s, Fetched(s, m)) = KeyOf(s, n)
  BY <1>1 DEF Fetched, KeyOf
<1> QED
  BY <1>2 DEF Settled

\* A row found for a message settles it.
LEMMA MatchSettles ==
  ASSUME TypeOK, KeysIdentify, NEW s \in Source, NEW m \in batch[s],
         MatchingImports(s, to[s], m) # {}
  PROVE  Settled(s, to[s], m)
  BY MatchAccounts DEF Settled, KnownContent

\* What a fetch neither takes nor passes over is behind the checkpoint.
LEMMA FetchTakesTheRest ==
  ASSUME TypeOK, NEW s \in Source, NEW d \in Destination, NEW f \in FoldersOf(s),
         NEW m \in mailbox[s], m.folder = f
  PROVE  m \in Candidates(s, d, f) \/ m \in PassedOver(s, d, f) \/ Passed(s, d, m)
<1>1. m \in InFolder(s, f) /\ m \in Mail
  BY DEF InFolder, TypeOK
<1>2. f \in Folder
  BY MailFlowAssumption DEF MailFlowAssumption, FoldersOf
<1>3. CASE StartOf(s, d, f) = None
  BY <1>1, <1>3 DEF Candidates, PassedOver
<1>4. CASE StartOf(s, d, f) # None
  <2>1. CASE m.uid > StartOf(s, d, f).uid
    BY <1>1, <1>4, <2>1 DEF Candidates, PassedOver, Unread
  <2>2. CASE ~(m.uid > StartOf(s, d, f).uid)
    <3>1. CASE Protocol[s] = "IMAP"
      <4>1. /\ checkpoint[s][d][f] # None
            /\ checkpoint[s][d][f].validity = validity[s][f]
            /\ StartOf(s, d, f) = checkpoint[s][d][f]
        BY <1>4, <3>1 DEF StartOf
      <4>2. checkpoint[s][d][f].uid \in Uid /\ m.uid \in Uid
        BY <1>1, <1>2, <4>1 DEF TypeOK, ImapCheckpoint, Mail
      <4>3. \A u \in Uid : u \in Nat
        BY MailFlowAssumption DEF Uid, MailFlowAssumption
      <4>4. m.uid <= checkpoint[s][d][f].uid
        BY <2>2, <4>1, <4>2, <4>3
      <4> QED
        BY <3>1, <4>1, <4>4 DEF Passed
    <3>2. CASE Protocol[s] # "IMAP"
      <4>1. /\ popCheckpoint[s] # None
            /\ popCheckpoint[s].dest = d
            /\ StartOf(s, d, f) = popCheckpoint[s]
        BY <1>4, <3>2 DEF StartOf
      <4>2. popCheckpoint[s].uid \in Uid /\ m.uid \in Uid
        BY <1>1, <4>1 DEF TypeOK, Pop3Checkpoint, Mail
      <4>3. \A u \in Uid : u \in Nat
        BY MailFlowAssumption DEF Uid, MailFlowAssumption
      <4>4. m.uid <= popCheckpoint[s].uid
        BY <2>2, <4>1, <4>2, <4>3
      <4> QED
        BY <3>2, <4>1, <4>4 DEF Passed
    <3> QED
      BY <3>1, <3>2
  <2> QED
    BY <2>1, <2>2
<1> QED
  BY <1>3, <1>4

CheckpointInv ==
    PopHasOneFolder /\ DatesFollowUids /\ RowsAreKnown /\ BatchIsComplete /\ PassedIsSettled

\* A step that writes no checkpoint and keeps or drops a whole batch.
Quiet ==
    /\ UNCHANGED <<checkpoint, popCheckpoint>>
    /\ \A q \in Source : batch'[q] = {} \/ (batch'[q] = batch[q] /\ to'[q] = to[q])

\* Such a step moves nothing across a checkpoint.
LEMMA QuietKeepsCheckpointInv ==
  ASSUME TypeOK, CheckpointInv, ShowsNothingNew, Grows, Quiet
  PROVE  CheckpointInv'
<1> USE DEF CheckpointInv
<1>1. /\ UNCHANGED <<validity, nextUid, checkpoint, popCheckpoint>>
      /\ \A q \in Source : \A m \in mailbox'[q] : \E n \in mailbox[q] : Alike(m, n)
      /\ \A q \in Source : batch'[q] = {} \/ (batch'[q] = batch[q] /\ to'[q] = to[q])
  BY DEF ShowsNothingNew, Quiet
<1>2. PopHasOneFolder'
  BY <1>1 DEF PopHasOneFolder, Alike
<1>3. DatesFollowUids'
  <2>1. ASSUME NEW s \in Source, NEW m \in mailbox'[s], NEW n \in mailbox'[s],
               m.folder = n.folder, m.uid <= n.uid
        PROVE  m.at <= n.at
    <3>1. PICK x \in mailbox[s] : Alike(m, x)
      BY <1>1
    <3>2. PICK y \in mailbox[s] : Alike(n, y)
      BY <1>1
    <3> QED
      BY <2>1, <3>1, <3>2 DEF Alike, DatesFollowUids
  <2>2. ASSUME NEW s \in Source, NEW m \in batch'[s], NEW n \in batch'[s], m.folder = n.folder
        PROVE  m.validity = n.validity /\ (m.uid <= n.uid => m.at <= n.at)
    BY <1>1, <2>2 DEF DatesFollowUids
  <2> QED
    BY <2>1, <2>2 DEF DatesFollowUids
<1>4. RowsAreKnown'
  BY <1>1 DEF RowsAreKnown
<1>5. \A s \in Source : \A m, n : Alike(m, n) =>
         /\ \A d : KeyOf(s, Fetched(s, m))' = KeyOf(s, Fetched(s, n))
         /\ Fetched(s, m)'.raw = Fetched(s, n).raw
  BY <1>1 DEF Alike, KeyOf, Fetched
<1>6. ASSUME NEW s \in Source, NEW d \in Destination, NEW m, NEW n, Alike(m, n),
             Settled(s, d, Fetched(s, n))
      PROVE  Settled(s, d, Fetched(s, m))'
  <2>1. \/ \E r \in imported'[d] : Accounts(r, s, Fetched(s, n).raw)
        \/ [dest |-> d, key |-> KeyOf(s, Fetched(s, n))] \in excused'
    BY <1>6, SettledStays
  <2> QED
    BY <1>5, <1>6, <2>1 DEF Settled, KnownContent
<1>7. PassedIsSettled'
  <2> SUFFICES ASSUME NEW s \in Source, NEW d \in Destination, NEW m \in mailbox'[s],
                      Passed(s, d, m)'
               PROVE  Settled(s, d, Fetched(s, m))'
    BY DEF PassedIsSettled
  <2>1. PICK n \in mailbox[s] : Alike(m, n)
    BY <1>1
  <2>2. Passed(s, d, n)
    BY <1>1, <2>1 DEF Passed, Alike
  <2>3. Settled(s, d, Fetched(s, n))
    BY <2>2 DEF PassedIsSettled
  <2> QED
    BY <1>6, <2>1, <2>3
<1>8. BatchIsComplete'
  <2> SUFFICES ASSUME NEW s \in Source, NEW n \in batch'[s], NEW m \in mailbox'[s],
                      m.folder = n.folder, validity'[s][m.folder] = n.validity, m.uid < n.uid
               PROVE  \/ Settled(s, to[s], Fetched(s, m))'
                      \/ \E k \in batch'[s] : k.folder = m.folder /\ k.uid = m.uid
    BY DEF BatchIsComplete
  <2>1. batch'[s] = batch[s] /\ to'[s] = to[s] /\ to[s] \in Destination
    BY <1>1 DEF TypeOK
  <2>2. PICK x \in mailbox[s] : Alike(m, x)
    BY <1>1
  <2>3. \/ Settled(s, to[s], Fetched(s, x))
        \/ \E k \in batch[s] : k.folder = x.folder /\ k.uid = x.uid
    <3>1. n \in batch[s] /\ validity[s][x.folder] = n.validity
          /\ x.folder = n.folder /\ x.uid < n.uid
      BY <1>1, <2>1, <2>2 DEF Alike
    <3> QED
      BY <3>1 DEF BatchIsComplete
  <2>4. ASSUME Settled(s, to[s], Fetched(s, x))
        PROVE  Settled(s, to[s], Fetched(s, m))'
    <3>1. PICK d \in Destination : d = to[s]
      BY <2>1
    <3>2. Settled(s, d, Fetched(s, m))'
      BY <1>6, <2>2, <2>4, <3>1
    <3> QED
      BY <2>1, <3>1, <3>2 DEF Settled, KnownContent
  <2> QED
    BY <2>1, <2>2, <2>3, <2>4 DEF Alike
<1> QED
  BY <1>2, <1>3, <1>4, <1>7, <1>8

\* A fetch takes, passes over or excuses everything the checkpoint has not passed.
LEMMA FetchKeepsCheckpointInv ==
  ASSUME TypeOK, CheckpointInv, NEW s \in Source, Fetch(s)
  PROVE  CheckpointInv'
<1> DEFINE d == target[s]
           candidates == UNION {Candidates(s, d, f) : f \in FoldersOf(s)}
           passed == UNION {PassedOver(s, d, f) : f \in FoldersOf(s)}
<1> USE DEF CheckpointInv, remoteVars, storeVars
<1>1. PICK unreadable \in SUBSET candidates :
         /\ batch' = [batch EXCEPT ![s] = {Fetched(s, m) : m \in candidates \ unreadable}]
         /\ excused' = excused \cup
               {[dest |-> d, key |-> KeyOf(s, Fetched(s, m))] : m \in passed \cup unreadable}
  BY DEF Fetch
<1>2. /\ to' = [to EXCEPT ![s] = d]
      /\ UNCHANGED <<mailbox, validity, nextUid, imported, checkpoint, popCheckpoint>>
  BY DEF Fetch
<1>3. /\ d \in Destination /\ FoldersOf(s) \subseteq Folder
      /\ batch \in [Source -> SUBSET FetchedMessage] /\ to \in [Source -> Destination]
  BY MailFlowAssumption DEF MailFlowAssumption, TypeOK, FoldersOf
<1>4. candidates \subseteq mailbox[s]
  <2>1. \A f \in FoldersOf(s) : Candidates(s, d, f) \subseteq mailbox[s]
    BY <1>3, CandidatesInMailbox
  <2> QED
    BY <2>1
<1>5. \A m \in mailbox[s] : m \in candidates \/ m \in passed \/ Passed(s, d, m)
  <2> TAKE m \in mailbox[s]
  <2>1. m.folder \in FoldersOf(s)
    <3>1. m \in Mail
      BY DEF TypeOK
    <3> QED
      BY <3>1 DEF FoldersOf, PopHasOneFolder, Mail
  <2> QED
    BY <1>3, <2>1, FetchTakesTheRest
<1> HIDE DEF candidates, passed, d
<1>6. /\ batch'[s] = {Fetched(s, m) : m \in candidates \ unreadable}
      /\ to'[s] = d
      /\ \A q \in Source : q # s => batch'[q] = batch[q] /\ to'[q] = to[q]
  BY <1>1, <1>2, <1>3
<1>7. \A n \in batch'[s] : \E m \in mailbox[s] : n = Fetched(s, m)
  BY <1>4, <1>6
<1>8. \A q \in Source, e \in Destination : \A m :
         Settled(q, e, Fetched(q, m)) => Settled(q, e, Fetched(q, m))'
  BY <1>1, <1>2 DEF Settled, KnownContent, Fetched
<1>a. \A q \in Source, e \in Destination : \A m : Settled(q, e, Fetched(q, m)) =>
          \/ \E r \in imported'[e] : Accounts(r, q, m.raw)
          \/ [dest |-> e, key |-> KeyOf(q, Fetched(q, m))] \in excused'
  BY <1>1, <1>2 DEF Settled, KnownContent, Fetched
<1>b. ASSUME NEW q \in Source, NEW m,
             \/ \E r \in imported'[to'[q]] : Accounts(r, q, m.raw)
             \/ [dest |-> to'[q], key |-> KeyOf(q, Fetched(q, m))] \in excused'
      PROVE  Settled(q, to[q], Fetched(q, m))'
  <2>1. Fetched(q, m)' = Fetched(q, m) /\ Fetched(q, m).raw = m.raw
    BY <1>2 DEF Fetched
  <2> QED
    BY <1>b, <2>1 DEF Settled, KnownContent
<1>9. PopHasOneFolder'
  <2>1. ASSUME Protocol[s] = "POP3", NEW n \in batch'[s]
        PROVE  n.folder = Inbox /\ n.validity = 1
    BY <1>7, <2>1 DEF PopHasOneFolder, Fetched
  <2> QED
    BY <1>2, <1>6, <2>1 DEF PopHasOneFolder
<1>10. DatesFollowUids'
  <2>1. ASSUME NEW m \in batch'[s], NEW n \in batch'[s], m.folder = n.folder
        PROVE  m.validity = n.validity /\ (m.uid <= n.uid => m.at <= n.at)
    <3>1. PICK x \in mailbox[s] : m = Fetched(s, x)
      BY <1>7
    <3>2. PICK y \in mailbox[s] : n = Fetched(s, y)
      BY <1>7
    <3> QED
      BY <2>1, <3>1, <3>2 DEF Fetched, DatesFollowUids
  <2> QED
    BY <1>2, <1>6, <2>1 DEF DatesFollowUids
<1>11. RowsAreKnown'
  BY <1>2 DEF RowsAreKnown
<1>12. PassedIsSettled'
  BY <1>2, <1>8 DEF PassedIsSettled, Passed
<1>13. BatchIsComplete'
  <2> SUFFICES ASSUME NEW q \in Source, NEW n \in batch'[q], NEW m \in mailbox'[q],
                      m.folder = n.folder, validity'[q][m.folder] = n.validity, m.uid < n.uid
               PROVE  \/ Settled(q, to[q], Fetched(q, m))'
                      \/ \E k \in batch'[q] : k.folder = m.folder /\ k.uid = m.uid
    BY DEF BatchIsComplete
  <2>1. CASE q # s
    <3>1. \/ Settled(q, to[q], Fetched(q, m))
          \/ \E k \in batch[q] : k.folder = m.folder /\ k.uid = m.uid
      <4>1. n \in batch[q] /\ m \in mailbox[q] /\ validity[q][m.folder] = n.validity
        BY <1>2, <1>6, <2>1
      <4> QED
        BY <4>1 DEF BatchIsComplete
    <3>2. to[q] \in Destination /\ to'[q] = to[q] /\ batch'[q] = batch[q]
      BY <1>3, <1>6, <2>1
    <3> QED
      BY <1>a, <1>b, <3>1, <3>2
  <2>2. CASE q = s
    <3>1. CASE m \in candidates \ unreadable
      BY <1>6, <2>2, <3>1 DEF Fetched
    <3>2. CASE m \in passed \cup unreadable
      <4>1. [dest |-> d, key |-> KeyOf(s, Fetched(s, m))] \in excused'
        BY <1>1, <3>2
      <4> QED
        BY <1>b, <1>6, <2>2, <4>1
    <3>3. CASE Passed(s, d, m)
      <4>1. Settled(s, d, Fetched(s, m))
        BY <1>2, <1>3, <2>2, <3>3 DEF PassedIsSettled
      <4> QED
        BY <1>a, <1>b, <1>3, <1>6, <2>2, <4>1
    <3> QED
      BY <1>2, <1>5, <2>2, <3>1, <3>2, <3>3
  <2> QED
    BY <2>1, <2>2
<1> QED
  BY <1>9, <1>10, <1>11, <1>12, <1>13

\* UIDs, UIDVALIDITYs and dates are numbers.
LEMMA NatsOf == /\ \A u \in Uid : u \in Nat
                /\ \A v \in Validity : v \in Nat
                /\ \A t \in Instant : t \in Nat
  BY MailFlowAssumption DEF MailFlowAssumption, Uid, Validity, Instant

\* When a poll reaches the checkpoint of its message, everything before it is
\* settled.
LEMMA BehindCurrent ==
  ASSUME TypeOK, KeysIdentify, CheckpointInv, CurrentIsFirst, NEW s \in Source, pc[s] = "mark",
         NEW m \in mailbox[s], m.folder = cur[s].folder,
         validity[s][m.folder] = cur[s].validity, m.uid <= cur[s].uid
  PROVE  Settled(s, to[s], Fetched(s, m))
<1>1. /\ cur[s] \in batch[s] /\ Settled(s, to[s], cur[s])
      /\ \A n \in batch[s] : ~Before(s, n, cur[s])
  BY DEF TypeOK, CurrentIsFirst
<1>2. batch[s] \subseteq FetchedMessage /\ m \in Mail
  BY DEF TypeOK
<1>3. cur[s].uid \in Nat /\ cur[s].at \in Nat /\ m.uid \in Nat
  BY <1>1, <1>2, NatsOf DEF FetchedMessage, Mail
<1>4. CASE m.uid = cur[s].uid
  BY <1>1, <1>4, SameKeySettled
<1>5. CASE m.uid < cur[s].uid
  <2>1. \/ Settled(s, to[s], Fetched(s, m))
        \/ \E k \in batch[s] : k.folder = m.folder /\ k.uid = m.uid
    BY <1>1, <1>5 DEF CheckpointInv, BatchIsComplete
  <2>2. ASSUME NEW k \in batch[s], k.folder = m.folder, k.uid = m.uid
        PROVE  FALSE
    <3>1. k.at <= cur[s].at /\ k.at \in Nat
      <4>1. k.at \in Nat /\ k.uid <= cur[s].uid
        BY <1>2, <2>2, NatsOf DEF FetchedMessage
      <4> QED
        BY <1>1, <2>2, <4>1 DEF CheckpointInv, DatesFollowUids
    <3>2. Before(s, k, cur[s])
      BY <1>3, <1>5, <2>2, <3>1 DEF Before
    <3> QED
      BY <1>1, <3>2
  <2> QED
    BY <2>1, <2>2
<1> QED
  BY <1>3, <1>4, <1>5

\* A checkpoint is written over settled messages only.
LEMMA MarkKeepsCheckpointInv ==
  ASSUME TypeOK, KeysIdentify, CheckpointInv, CurrentIsFirst, NEW s \in Source, Mark(s)
  PROVE  CheckpointInv'
<1> USE DEF CheckpointInv, remoteVars
<1>1. /\ pc[s] = "mark"
      /\ batch' = [batch EXCEPT ![s] = @ \ {cur[s]}]
      /\ UNCHANGED <<mailbox, validity, nextUid, imported, to, excused>>
  BY DEF Mark
<1>2. /\ cur[s] \in batch[s] /\ cur[s] \in FetchedMessage /\ to[s] \in Destination
      /\ batch \in [Source -> SUBSET FetchedMessage]
      /\ checkpoint \in [Source -> [Destination -> [Folder -> ImapCheckpoint \cup {None}]]]
      /\ popCheckpoint \in [Source -> Pop3Checkpoint \cup {None}]
  BY <1>1 DEF TypeOK
<1>3. /\ cur[s].folder \in Folder /\ cur[s].validity \in Validity /\ cur[s].uid \in Uid
      /\ cur[s].raw \in Content
  BY <1>2 DEF FetchedMessage
<1>4. /\ batch'[s] = batch[s] \ {cur[s]}
      /\ \A q \in Source : q # s => batch'[q] = batch[q]
  BY <1>1, <1>2
<1>5. \A q \in Source, d \in Destination, f \in Folder :
         \/ checkpoint'[q][d][f] = checkpoint[q][d][f]
         \/ /\ q = s /\ d = to[s] /\ f = cur[s].folder
            /\ checkpoint'[q][d][f] = [validity |-> cur[s].validity, uid |-> cur[s].uid]
  <2> DEFINE row == [validity |-> cur[s].validity, uid |-> cur[s].uid]
  <2>1. \/ checkpoint' = checkpoint
        \/ checkpoint' = [checkpoint EXCEPT ![s][to[s]][cur[s].folder] = row]
    BY DEF Mark
  <2> HIDE DEF row
  <2>2. \A q \in Source, d \in Destination, f \in Folder :
           \/ checkpoint'[q][d][f] = checkpoint[q][d][f]
           \/ q = s /\ d = to[s] /\ f = cur[s].folder /\ checkpoint'[q][d][f] = row
    BY <1>2, <1>3, <2>1
  <2> QED
    BY <2>2 DEF row
<1>6. \A q \in Source :
         \/ popCheckpoint'[q] = popCheckpoint[q]
         \/ /\ q = s /\ Protocol[s] # "IMAP"
            /\ popCheckpoint'[q] = [dest |-> to[s], uid |-> cur[s].uid]
  <2>1. \/ popCheckpoint' = popCheckpoint
        \/ /\ Protocol[s] # "IMAP"
           /\ popCheckpoint' = [popCheckpoint EXCEPT ![s] = [dest |-> to[s], uid |-> cur[s].uid]]
    BY DEF Mark
  <2> QED
    BY <1>2, <2>1
<1>7. \A q \in Source : Protocol[q] = "IMAP" \/ Protocol[q] = "POP3"
  BY MailFlowAssumption DEF MailFlowAssumption
<1>8. \A q, d, m : Settled(q, d, Fetched(q, m))' <=> Settled(q, d, Fetched(q, m))
  BY <1>1 DEF Settled, KnownContent, Fetched
<1>9. PopHasOneFolder'
  BY <1>1, <1>4 DEF PopHasOneFolder
<1>10. DatesFollowUids'
  BY <1>1, <1>4 DEF DatesFollowUids
<1>11. RowsAreKnown'
  <2>1. /\ cur[s].validity <= validity[s][cur[s].folder]
        /\ cur[s].validity = validity[s][cur[s].folder]
              => cur[s].uid < nextUid[s][cur[s].folder]
    <3>1. Named(s, cur[s].folder, cur[s].validity, cur[s].uid, cur[s].raw)
      BY <1>2 DEF Named
    <3> QED
      BY <1>3, <3>1 DEF KeysIdentify
  <2>2. ASSUME NEW q \in Source, NEW d \in Destination, NEW f \in Folder,
               checkpoint'[q][d][f] # None
        PROVE  /\ checkpoint'[q][d][f].validity <= validity'[q][f]
               /\ checkpoint'[q][d][f].validity = validity'[q][f] =>
                     checkpoint'[q][d][f].uid < nextUid'[q][f]
    <3>1. CASE checkpoint'[q][d][f] = checkpoint[q][d][f]
      BY <1>1, <2>2, <3>1 DEF RowsAreKnown
    <3>2. CASE /\ q = s /\ f = cur[s].folder
               /\ checkpoint'[q][d][f] = [validity |-> cur[s].validity, uid |-> cur[s].uid]
      BY <1>1, <2>1, <3>2
    <3> QED
      BY <1>5, <3>1, <3>2
  <2>3. ASSUME NEW q \in Source, Protocol[q] = "POP3", popCheckpoint'[q] # None
        PROVE  popCheckpoint'[q].uid < nextUid'[q][Inbox]
    <3>1. CASE popCheckpoint'[q] = popCheckpoint[q]
      BY <1>1, <2>3, <3>1 DEF RowsAreKnown
    <3>2. CASE q = s /\ popCheckpoint'[q] = [dest |-> to[s], uid |-> cur[s].uid]
      BY <1>1, <1>2, <2>1, <2>3, <3>2 DEF PopHasOneFolder
    <3> QED
      BY <1>6, <3>1, <3>2
  <2> QED
    BY <2>2, <2>3 DEF RowsAreKnown
<1>12. PassedIsSettled'
  <2> SUFFICES ASSUME NEW q \in Source, NEW d \in Destination, NEW m \in mailbox[q],
                      Passed(q, d, m)', ~Passed(q, d, m)
               PROVE  Settled(q, d, Fetched(q, m))
    BY <1>1, <1>8 DEF PassedIsSettled
  <2>1. m \in Mail /\ m.folder \in Folder
    BY DEF TypeOK, Mail
  <2>2. /\ q = s /\ d = to[s] /\ m.folder = cur[s].folder
        /\ validity[s][m.folder] = cur[s].validity /\ m.uid <= cur[s].uid
    <3>1. CASE Protocol[q] = "IMAP"
      BY <1>1, <1>5, <2>1, <3>1 DEF Passed
    <3>2. CASE Protocol[q] = "POP3"
      <4>1. q = s /\ d = to[s] /\ m.uid <= cur[s].uid
        BY <1>1, <1>6, <3>2 DEF Passed
      <4> QED
        BY <1>2, <3>2, <4>1 DEF PopHasOneFolder
    <3> QED
      BY <1>7, <3>1, <3>2
  <2> QED
    BY <1>1, <2>2, BehindCurrent
<1>13. BatchIsComplete'
  <2> SUFFICES ASSUME NEW q \in Source, NEW n \in batch'[q], NEW m \in mailbox[q],
                      m.folder = n.folder, validity[q][m.folder] = n.validity, m.uid < n.uid
               PROVE  \/ Settled(q, to[q], Fetched(q, m))
                      \/ \E k \in batch'[q] : k.folder = m.folder /\ k.uid = m.uid
    BY <1>1 DEF BatchIsComplete, Settled, KnownContent, Fetched
  <2>1. n \in batch[q]
    BY <1>4
  <2>2. CASE Settled(q, to[q], Fetched(q, m))
    BY <2>2
  <2>3. ASSUME NEW k \in batch[q], k.folder = m.folder, k.uid = m.uid
        PROVE  \/ Settled(q, to[q], Fetched(q, m))
               \/ \E x \in batch'[q] : x.folder = m.folder /\ x.uid = m.uid
    <3>1. CASE q # s \/ k # cur[s]
      BY <1>4, <2>3, <3>1
    <3>2. CASE q = s /\ k = cur[s]
      <4>1. cur[s].validity = n.validity
        BY <1>2, <2>1, <2>3, <3>2 DEF DatesFollowUids
      <4>2. Settled(s, to[s], cur[s])
        BY <1>1 DEF CurrentIsFirst
      <4> QED
        BY <1>2, <2>3, <3>2, <4>1, <4>2, SameKeySettled
    <3> QED
      BY <3>1, <3>2
  <2> QED
    BY <2>1, <2>2, <2>3 DEF BatchIsComplete
<1> QED
  BY <1>9, <1>10, <1>11, <1>12, <1>13

\* New mail lies ahead of every checkpoint and of every batch.
LEMMA ArriveKeepsCheckpointInv ==
  ASSUME InstantsFollowUids, TypeOK, KeysIdentify, CheckpointInv, NEW s \in Source,
         NEW f \in Folder, NEW c \in Content, NEW t \in Instant, Arrive(s, f, c, t)
  PROVE  CheckpointInv'
<1> DEFINE new == [folder |-> f, uid |-> nextUid[s][f], at |-> t, raw |-> c, seen |-> FALSE]
<1> USE DEF CheckpointInv
<1>1. /\ f \in FoldersOf(s)
      /\ \A m \in mailbox[s] : m.folder = f => m.at <= t
      /\ mailbox' = [mailbox EXCEPT ![s] = @ \cup {new}]
      /\ nextUid' = [nextUid EXCEPT ![s][f] = @ + 1]
      /\ UNCHANGED <<validity, imported, checkpoint, popCheckpoint, to, batch, excused>>
  BY DEF Arrive, storeVars, pollVars
<1>2. new.folder = f /\ new.uid = nextUid[s][f] /\ new.at = t /\ new.raw = c
  OBVIOUS
<1> HIDE DEF new
<1>3. /\ mailbox \in [Source -> SUBSET Mail]
      /\ MaxUid \in Nat /\ nextUid \in [Source -> [Folder -> 1..(MaxUid + 1)]]
      /\ validity[s][f] \in Validity
  BY MailFlowAssumption DEF MailFlowAssumption, TypeOK
<1>4. /\ mailbox'[s] = mailbox[s] \cup {new}
      /\ \A q \in Source : q # s => mailbox'[q] = mailbox[q]
      /\ \A q \in Source, g \in Folder : nextUid[q][g] \in Nat /\ nextUid'[q][g] >= nextUid[q][g]
  BY <1>1, <1>3
\* Everything known under the folder's UIDVALIDITY lies below the new message.
<1>5. /\ \A m \in mailbox[s] : m.folder = f => m.uid < new.uid
      /\ \A m \in batch[s] : m.folder = f /\ m.validity = validity[s][f] => m.uid < new.uid
  <2>1. ASSUME NEW m \in mailbox[s], m.folder = f
        PROVE  m.uid < new.uid
    <3>1. m.uid \in Uid /\ m.raw \in Content
      BY <1>3 DEF Mail
    <3>2. Named(s, f, validity[s][f], m.uid, m.raw)
      BY <2>1 DEF Named
    <3> QED
      BY <1>2, <1>3, <3>1, <3>2 DEF KeysIdentify
  <2>2. ASSUME NEW m \in batch[s], m.folder = f, m.validity = validity[s][f]
        PROVE  m.uid < new.uid
    <3>1. m.uid \in Uid /\ m.raw \in Content
      BY DEF TypeOK, FetchedMessage
    <3>2. Named(s, f, validity[s][f], m.uid, m.raw)
      BY <2>2 DEF Named
    <3> QED
      BY <1>2, <1>3, <3>1, <3>2 DEF KeysIdentify
  <2> QED
    BY <2>1, <2>2
<1>6. /\ \A m \in mailbox[s] : m.uid \in Nat
      /\ \A q \in Source : \A m \in batch[q] : m.uid \in Nat
      /\ new.uid \in Nat /\ t \in Nat
  <2>1. \A m \in mailbox[s] : m.uid \in Uid
    BY <1>3 DEF Mail
  <2>2. \A q \in Source : \A m \in batch[q] : m.uid \in Uid
    BY DEF TypeOK, FetchedMessage
  <2> QED
    BY <1>2, <1>4, <2>1, <2>2, NatsOf
<1>7. \A q, d, m : Settled(q, d, Fetched(q, m))' <=> Settled(q, d, Fetched(q, m))
  BY <1>1 DEF Settled, KnownContent, Fetched
<1>8. PopHasOneFolder'
  BY <1>1, <1>2, <1>4 DEF PopHasOneFolder, FoldersOf
<1>9. DatesFollowUids'
  <2>1. ASSUME NEW m \in mailbox'[s], NEW n \in mailbox'[s], m.folder = n.folder, m.uid <= n.uid
        PROVE  m.at <= n.at
    <3>1. CASE m \in mailbox[s] /\ n \in mailbox[s]
      BY <2>1, <3>1 DEF DatesFollowUids
    <3>2. CASE m = new /\ n \in mailbox[s]
      BY <1>2, <1>5, <1>6, <2>1, <3>2
    <3>3. CASE m \in mailbox[s] /\ n = new
      BY <1>1, <1>2, <2>1, <3>3
    <3>4. CASE m = new /\ n = new
      BY <1>2, <1>6, <3>4
    <3> QED
      BY <1>4, <3>1, <3>2, <3>3, <3>4
  <2> QED
    BY <1>1, <1>4, <2>1 DEF DatesFollowUids
<1>10. RowsAreKnown'
  <2>1. ASSUME NEW q \in Source, NEW d \in Destination, NEW g \in Folder,
               checkpoint[q][d][g] # None
        PROVE  checkpoint[q][d][g].uid \in Nat
    BY <2>1, NatsOf DEF TypeOK, ImapCheckpoint
  <2>2. ASSUME NEW q \in Source, popCheckpoint[q] # None
        PROVE  popCheckpoint[q].uid \in Nat
    BY <2>2, NatsOf DEF TypeOK, Pop3Checkpoint
  <2>3. Inbox \in Folder
    BY MailFlowAssumption DEF MailFlowAssumption
  <2> QED
    BY <1>1, <1>4, <2>1, <2>2, <2>3 DEF RowsAreKnown
<1>11. PassedIsSettled'
  <2> SUFFICES ASSUME NEW q \in Source, NEW d \in Destination, NEW m \in mailbox'[q],
                      Passed(q, d, m)'
               PROVE  Settled(q, d, Fetched(q, m))
    BY <1>7 DEF PassedIsSettled
  <2>1. Passed(q, d, m)
    BY <1>1 DEF Passed
  <2>2. ~(q = s /\ m = new)
    <3> SUFFICES ASSUME q = s, m = new PROVE FALSE
      OBVIOUS
    <3>1. CASE Protocol[s] = "IMAP"
      <4>1. /\ checkpoint[s][d][f] # None /\ checkpoint[s][d][f].validity = validity[s][f]
            /\ new.uid <= checkpoint[s][d][f].uid
        BY <1>2, <2>1, <3>1 DEF Passed
      <4>2. checkpoint[s][d][f].uid < nextUid[s][f] /\ checkpoint[s][d][f].uid \in Nat
        BY <4>1, NatsOf DEF RowsAreKnown, TypeOK, ImapCheckpoint
      <4> QED
        BY <1>2, <1>6, <4>1, <4>2
    <3>2. CASE Protocol[s] = "POP3"
      <4>1. popCheckpoint[s] # None /\ new.uid <= popCheckpoint[s].uid /\ f = Inbox
        BY <1>1, <2>1, <3>2 DEF Passed, FoldersOf
      <4>2. popCheckpoint[s].uid < nextUid[s][f] /\ popCheckpoint[s].uid \in Nat
        BY <3>2, <4>1, NatsOf DEF RowsAreKnown, TypeOK, Pop3Checkpoint
      <4> QED
        BY <1>2, <1>6, <4>1, <4>2
    <3> QED
      BY <3>1, <3>2, MailFlowAssumption DEF MailFlowAssumption
  <2>3. m \in mailbox[q]
    BY <1>4, <2>2
  <2> QED
    BY <2>1, <2>3 DEF PassedIsSettled
<1>12. BatchIsComplete'
  <2> SUFFICES ASSUME NEW q \in Source, NEW n \in batch[q], NEW m \in mailbox'[q],
                      m.folder = n.folder, validity[q][m.folder] = n.validity, m.uid < n.uid
               PROVE  \/ Settled(q, to[q], Fetched(q, m))
                      \/ \E k \in batch[q] : k.folder = m.folder /\ k.uid = m.uid
    BY <1>1 DEF BatchIsComplete, Settled, KnownContent, Fetched
  <2>1. ~(q = s /\ m = new)
    <3> SUFFICES ASSUME q = s, m = new PROVE FALSE
      OBVIOUS
    <3>1. n.uid < new.uid
      BY <1>2, <1>5
    <3> QED
      BY <1>6, <3>1
  <2>2. m \in mailbox[q]
    BY <1>4, <2>1
  <2> QED
    BY <2>2 DEF BatchIsComplete
<1> QED
  BY <1>8, <1>9, <1>10, <1>11, <1>12

\* Nothing the importer wrote down belongs to the new UIDVALIDITY.
LEMMA RebuildKeepsCheckpointInv ==
  ASSUME TypeOK, KeysIdentify, CheckpointInv, NEW s \in Source, NEW f \in Folder, Rebuild(s, f)
  PROVE  CheckpointInv'
<1> USE DEF CheckpointInv
<1>1. /\ Protocol[s] = "IMAP"
      /\ UNCHANGED <<imported, checkpoint, popCheckpoint, to, batch, excused>>
      /\ \A q \in Source, g \in Folder :
            validity'[q][g] = IF q = s /\ g = f THEN validity[s][f] + 1 ELSE validity[q][g]
      /\ \A q \in Source, g \in Folder :
            q # s \/ g # f => nextUid'[q][g] = nextUid[q][g]
      /\ \A q \in Source : \A m \in mailbox'[q] :
            q # s \/ m.folder # f => m \in mailbox[q]
  BY RebuildMoves DEF storeVars, pollVars
<1>2. PICK r : /\ \A m, n \in mailbox[s] : m.folder = f /\ n.folder = f =>
                     /\ r[m] \in Uid /\ r[m] < nextUid'[s][f]
                     /\ m.uid < n.uid => r[m] < r[n]
               /\ \A m \in mailbox'[s] : m.folder = f =>
                     \E n \in mailbox[s] : Moved(m, n, r)
  BY RebuildMoves
<1>3. /\ \A q \in Source, g \in Folder : validity[q][g] \in Nat
      /\ Inbox \in Folder
  BY MailFlowAssumption DEF TypeOK, Validity, MailFlowAssumption
<1>4. \A q \in Source : \A m \in mailbox'[q] : m.folder \in Folder
  <2>1. \A q \in Source : \A m \in mailbox[q] : m.folder \in Folder
    BY DEF TypeOK, Mail
  <2> QED
    BY <1>1, <2>1
\* Messages elsewhere keep their key, and so whatever settles them.
<1>5. ASSUME NEW q \in Source, NEW d \in Destination, NEW m, m.folder \in Folder,
             q # s \/ m.folder # f
      PROVE  Settled(q, d, Fetched(q, m))' <=> Settled(q, d, Fetched(q, m))
  <2>1. Fetched(q, m)' = Fetched(q, m)
    BY <1>1, <1>5 DEF Fetched
  <2> QED
    BY <1>1, <2>1 DEF Settled, KnownContent
<1>6. PopHasOneFolder'
  <2>1. \A q \in Source : Protocol[q] = "POP3" => q # s
    BY <1>1
  <2> QED
    BY <1>1, <1>3, <2>1 DEF PopHasOneFolder
<1>7. DatesFollowUids'
  <2>1. ASSUME NEW q \in Source, NEW m \in mailbox'[q], NEW n \in mailbox'[q],
               m.folder = n.folder, m.uid <= n.uid
        PROVE  m.at <= n.at
    <3>1. CASE q # s \/ m.folder # f
      <4>1. m \in mailbox[q] /\ n \in mailbox[q]
        BY <1>1, <2>1, <3>1
      <4> QED
        BY <2>1, <4>1 DEF DatesFollowUids
    <3>2. CASE q = s /\ m.folder = f
      <4>1. PICK x \in mailbox[s] : Moved(m, x, r)
        BY <1>2, <3>2
      <4>2. PICK y \in mailbox[s] : Moved(n, y, r)
        BY <1>2, <2>1, <3>2
      <4>3. /\ x.uid \in Nat /\ y.uid \in Nat /\ r[x] \in Nat /\ r[y] \in Nat
            /\ y.uid < x.uid => r[y] < r[x]
        <5>1. x.uid \in Uid /\ y.uid \in Uid
          BY DEF TypeOK, Mail
        <5>2. r[x] \in Uid /\ r[y] \in Uid /\ (y.uid < x.uid => r[y] < r[x])
          BY <1>2, <2>1, <3>2, <4>1, <4>2 DEF Moved
        <5> QED
          BY <5>1, <5>2, NatsOf
      <4>4. x.uid <= y.uid
        BY <2>1, <4>1, <4>2, <4>3 DEF Moved
      <4> QED
        BY <2>1, <4>1, <4>2, <4>4 DEF Moved, DatesFollowUids
    <3> QED
      BY <3>1, <3>2
  <2> QED
    BY <1>1, <2>1 DEF DatesFollowUids
<1>8. RowsAreKnown'
  <2>1. ASSUME NEW q \in Source, NEW d \in Destination, NEW g \in Folder,
               checkpoint[q][d][g] # None
        PROVE  /\ checkpoint[q][d][g].validity <= validity'[q][g]
               /\ checkpoint[q][d][g].validity = validity'[q][g] =>
                     checkpoint[q][d][g].uid < nextUid'[q][g]
    <3>1. checkpoint[q][d][g].validity \in Nat
      BY <2>1, NatsOf DEF TypeOK, ImapCheckpoint
    <3>2. /\ checkpoint[q][d][g].validity <= validity[q][g]
          /\ checkpoint[q][d][g].validity = validity[q][g] =>
                checkpoint[q][d][g].uid < nextUid[q][g]
      BY <2>1 DEF RowsAreKnown
    <3> QED
      BY <1>1, <1>3, <3>1, <3>2
  <2>2. ASSUME NEW q \in Source, Protocol[q] = "POP3", popCheckpoint[q] # None
        PROVE  popCheckpoint[q].uid < nextUid'[q][Inbox]
    BY <1>1, <1>3, <2>2 DEF RowsAreKnown
  <2> QED
    BY <1>1, <2>1, <2>2 DEF RowsAreKnown
<1>9. PassedIsSettled'
  <2> SUFFICES ASSUME NEW q \in Source, NEW d \in Destination, NEW m \in mailbox'[q],
                      Passed(q, d, m)'
               PROVE  Settled(q, d, Fetched(q, m))'
    BY DEF PassedIsSettled
  <2>1. q # s \/ m.folder # f
    <3> SUFFICES ASSUME q = s, m.folder = f PROVE FALSE
      OBVIOUS
    <3>1. checkpoint[s][d][f] # None /\ checkpoint[s][d][f].validity = validity[s][f] + 1
      BY <1>1 DEF Passed
    <3> QED
      BY <1>3, <3>1 DEF RowsAreKnown
  <2>2. m \in mailbox[q] /\ m.folder \in Folder
    BY <1>1, <1>4, <2>1
  <2>3. Passed(q, d, m)
    BY <1>1, <2>1, <2>2 DEF Passed
  <2>4. Settled(q, d, Fetched(q, m))
    BY <2>2, <2>3 DEF PassedIsSettled
  <2> QED
    BY <1>5, <2>1, <2>2, <2>4
<1>10. BatchIsComplete'
  <2> SUFFICES ASSUME NEW q \in Source, NEW n \in batch[q], NEW m \in mailbox'[q],
                      m.folder = n.folder, validity'[q][m.folder] = n.validity, m.uid < n.uid
               PROVE  \/ Settled(q, to[q], Fetched(q, m))'
                      \/ \E k \in batch[q] : k.folder = m.folder /\ k.uid = m.uid
    BY <1>1 DEF BatchIsComplete
  <2>1. q # s \/ m.folder # f
    <3> SUFFICES ASSUME q = s, m.folder = f PROVE FALSE
      OBVIOUS
    <3>1. n \in FetchedMessage
      BY DEF TypeOK
    <3>2. n.validity \in Validity /\ n.uid \in Uid /\ n.raw \in Content /\ n.folder = f
      BY <3>1 DEF FetchedMessage
    <3>3. Named(s, f, n.validity, n.uid, n.raw)
      BY <3>2 DEF Named
    <3>4. n.validity <= validity[s][f] /\ n.validity = validity[s][f] + 1
      BY <1>1, <3>2, <3>3 DEF KeysIdentify
    <3> QED
      BY <1>3, <3>4
  <2>2. m \in mailbox[q] /\ m.folder \in Folder /\ validity[q][m.folder] = n.validity
    BY <1>1, <1>4, <2>1
  <2>3. \/ Settled(q, to[q], Fetched(q, m))
        \/ \E k \in batch[q] : k.folder = m.folder /\ k.uid = m.uid
    BY <2>2 DEF BatchIsComplete
  <2>4. Fetched(q, m)' = Fetched(q, m)
    BY <1>1, <2>1, <2>2 DEF Fetched
  <2> QED
    BY <1>1, <2>3, <2>4 DEF Settled, KnownContent
<1> QED
  BY <1>6, <1>7, <1>8, <1>9, <1>10

LEMMA CheckpointInvNext ==
  ASSUME InstantsFollowUids, TypeOK, KeysIdentify, CurrentIsFirst, CheckpointInv, [Next]_vars
  PROVE  CheckpointInv'
<1>0. Grows
  BY NextGrows
<1>a. ASSUME ShowsNothingNew, Quiet
      PROVE  CheckpointInv'
  BY <1>0, <1>a, QuietKeepsCheckpointInv
<1>1. ASSUME NEW s \in Source, PollStep(s) \/ PollFault(s)
      PROVE  CheckpointInv'
  <2>1. CASE Fetch(s)
    BY <2>1, FetchKeepsCheckpointInv
  <2>2. CASE Mark(s)
    BY <2>2, MarkKeepsCheckpointInv
  <2>3. CASE ~Fetch(s) /\ ~Mark(s)
    <3>1. batch \in [Source -> SUBSET FetchedMessage]
      BY DEF TypeOK
    <3>2. Leave(s) => to' = to /\ \A q \in Source : batch'[q] = {} \/ batch'[q] = batch[q]
      BY <3>1 DEF Leave
    <3>3. UNCHANGED <<checkpoint, popCheckpoint>> /\ (Leave(s) \/ UNCHANGED <<batch, to>>)
      BY <1>1, <2>3 DEF PollStep, PollFault, Examine, Deliver, Record, Act, Finish,
         DeliverUnacknowledged, ActNotExpunged, Abort, storeVars
    <3>4. Quiet
      BY <3>2, <3>3 DEF Quiet
    <3> QED
      BY <1>1, <1>a, <3>4, PollShows
  <2> QED
    BY <2>1, <2>2, <2>3
<1>2. ASSUME NEW s \in Source, MailboxStep(s)
      PROVE  CheckpointInv'
  <2>1. Quiet
    BY <1>2, MailboxFrame DEF Quiet, storeVars, pollVars
  <2> QED
    BY <1>2, <1>a, <2>1, ArriveKeepsCheckpointInv, RebuildKeepsCheckpointInv, OwnerShows, RestShows
       DEF MailboxStep
<1>3. ASSUME Crash \/ UNCHANGED vars
      PROVE  CheckpointInv'
  <2>1. Quiet
    BY <1>3 DEF Quiet, Crash, vars, storeVars
  <2> QED
    BY <1>3, <1>a, <2>1, RestShows
<1> QED
  BY <1>1, <1>2, <1>3 DEF Next

\* A poll takes the first message of its batch, and acts on it once it is settled.
LEMMA CurrentIsFirstNext ==
  ASSUME TypeOK, KeysIdentify, CurrentIsFirst, [Next]_vars
  PROVE  CurrentIsFirst'
<1>0. Grows
  BY NextGrows
<1>a. /\ pc \in [Source -> {"idle", "next", "deliver", "record", "act", "mark"}]
      /\ to \in [Source -> Destination]
      /\ batch \in [Source -> SUBSET FetchedMessage]
      /\ cur \in [Source -> FetchedMessage \cup {None}]
      /\ imported \in [Destination -> SUBSET ImportedMessage]
  BY DEF TypeOK
\* A poll that stays where it is, with its batch, still has its first message.
<1>b. ASSUME NEW q \in Source,
             \/ pc'[q] \in {"idle", "next"}
             \/ /\ pc[q] \in {"deliver", "record", "act", "mark"}
                /\ pc'[q] \in {"act", "mark"} => pc[q] \in {"act", "mark"}
                /\ to'[q] = to[q] /\ batch'[q] = batch[q] /\ cur'[q] = cur[q]
      PROVE  /\ pc'[q] \in {"deliver", "record", "act", "mark"} =>
                   \A n \in batch'[q] : ~Before(q, n, cur'[q])
             /\ pc'[q] \in {"act", "mark"} => Settled(q, to[q], cur[q])'
  <2>1. CASE pc'[q] \in {"idle", "next"}
    BY <2>1
  <2>2. CASE /\ pc[q] \in {"deliver", "record", "act", "mark"}
             /\ pc'[q] \in {"act", "mark"} => pc[q] \in {"act", "mark"}
             /\ to'[q] = to[q] /\ batch'[q] = batch[q] /\ cur'[q] = cur[q]
    <3>1. \A n \in batch[q] : ~Before(q, n, cur[q])
      BY <2>2 DEF CurrentIsFirst
    <3>2. ASSUME pc'[q] \in {"act", "mark"}
          PROVE  Settled(q, to[q], cur[q])'
      <4>1. Settled(q, to[q], cur[q]) /\ to[q] \in Destination
        BY <1>a, <2>2, <3>2 DEF CurrentIsFirst
      <4>2. \/ \E r \in imported'[to[q]] : Accounts(r, q, cur[q].raw)
            \/ [dest |-> to[q], key |-> KeyOf(q, cur[q])] \in excused'
        BY <1>0, <4>1, SettledStays
      <4> QED
        BY <2>2, <4>2 DEF Settled, KnownContent
    <3> QED
      BY <2>2, <3>1, <3>2
  <2> QED
    BY <1>b, <2>1, <2>2
<1>1. ASSUME NEW s \in Source, PollStep(s) \/ PollFault(s), NEW q \in Source
      PROVE  /\ pc'[q] \in {"deliver", "record", "act", "mark"} =>
                   \A n \in batch'[q] : ~Before(q, n, cur'[q])
             /\ pc'[q] \in {"act", "mark"} => Settled(q, to[q], cur[q])'
  <2>1. CASE q # s
    <3>1. pc'[q] = pc[q] /\ to'[q] = to[q] /\ cur'[q] = cur[q]
      BY <1>1, <2>1, PollFrame
    <3>2. batch'[q] = batch[q]
      <4>1. batch' = batch \/ \E x : batch' = [batch EXCEPT ![s] = x]
        BY <1>1 DEF PollStep, PollFault, Fetch, Examine, Deliver, Record, Act, Mark, Finish,
           DeliverUnacknowledged, ActNotExpunged, Abort, Leave
      <4> QED
        BY <1>a, <2>1, <4>1
    <3> QED
      BY <1>a, <1>b, <3>1, <3>2
  <2>2. CASE q = s
    <3>0. Leave(s) => pc'[s] = "idle"
      BY <1>a DEF Leave, Goto
    <3>1. CASE Fetch(s) \/ Mark(s) \/ Finish(s) \/ PollFault(s)
      <4>1. CASE ActNotExpunged(s)
        <5>1. pc[s] = "act" /\ UNCHANGED <<to, batch, cur>>
          BY <4>1 DEF ActNotExpunged
        <5> QED
          BY <1>b, <2>2, <5>1
      <4>2. CASE ~ActNotExpunged(s)
        <5>1. pc'[s] \in {"idle", "next"}
          BY <1>a, <3>0, <3>1, <4>2
             DEF Fetch, Mark, Finish, PollFault, DeliverUnacknowledged, Abort, Goto
        <5> QED
          BY <1>b, <2>2, <5>1
      <4> QED
        BY <4>1, <4>2
    <3>2. ASSUME NEW m \in batch[s], Examine(s, m)
          PROVE  /\ pc'[s] \in {"deliver", "record", "act", "mark"} =>
                       \A n \in batch'[s] : ~Before(s, n, cur'[s])
                 /\ pc'[s] \in {"act", "mark"} => Settled(s, to[s], cur[s])'
      <4>1. /\ \A n \in batch[s] : ~Before(s, n, m)
            /\ cur'[s] = m
            /\ UNCHANGED <<imported, excused, to, batch>>
        BY <1>a, <3>2 DEF Examine, storeVars
      <4>2. ASSUME pc'[s] \in {"act", "mark"}
            PROVE  Settled(s, to[s], m)
        <5>1. MatchingImports(s, to[s], m) # {}
          BY <1>a, <3>2, <4>2 DEF Examine, Goto
        <5> QED
          BY <5>1, MatchSettles
      <4> QED
        BY <4>1, <4>2 DEF Settled, KnownContent
    <3>3. CASE Deliver(s)
      <4>1. pc[s] = "deliver" /\ UNCHANGED <<imported, to, batch, cur>>
        BY <3>3 DEF Deliver, storeVars
      <4>2. CASE pc' = [pc EXCEPT ![s] = "record"]
        <5>1. pc'[s] = "record"
          BY <1>a, <4>2
        <5> QED
          BY <1>b, <2>2, <4>1, <5>1
      <4>3. CASE excused' = excused \cup {[dest |-> to[s], key |-> KeyOf(s, cur[s])]}
        <5>1. \A n \in batch[s] : ~Before(s, n, cur[s])
          BY <4>1 DEF CurrentIsFirst
        <5>2. Settled(s, to[s], cur[s])'
          BY <4>1, <4>3 DEF Settled
        <5> QED
          BY <2>2, <4>1, <5>1, <5>2
      <4> QED
        BY <3>3, <4>2, <4>3 DEF Deliver, Goto
    <3>4. CASE Record(s)
      <4> DEFINE row == [key |-> KeyOf(s, cur[s]), raw |-> cur[s].raw,
                         sanitized |-> Verdict[to[s]][cur[s].raw] = "sanitize"]
      <4>1. pc[s] = "record" /\ row.raw = cur[s].raw
        BY <3>4 DEF Record
      <4>2. \/ Leave(s)
            \/ /\ imported' = [imported EXCEPT ![to[s]] = @ \cup {row}]
               /\ UNCHANGED <<to, batch, cur>>
        BY <3>4 DEF Record
      <4> HIDE DEF row
      <4>3. CASE Leave(s)
        BY <1>b, <2>2, <3>0, <4>3
      <4>4. CASE /\ imported' = [imported EXCEPT ![to[s]] = @ \cup {row}]
                 /\ UNCHANGED <<to, batch, cur>>
        <5>1. \A n \in batch[s] : ~Before(s, n, cur[s])
          BY <4>1 DEF CurrentIsFirst
        <5>2. row \in imported'[to[s]]
          BY <1>a, <4>4
        <5>3. Settled(s, to[s], cur[s])'
          BY <4>1, <4>4, <5>2 DEF Settled, KnownContent, Accounts
        <5> QED
          BY <2>2, <4>4, <5>1, <5>3
      <4> QED
        BY <4>2, <4>3, <4>4
    <3>5. CASE Act(s)
      <4>1. pc[s] = "act" /\ (Leave(s) \/ UNCHANGED <<to, batch, cur>>)
        BY <3>5 DEF Act
      <4> QED
        BY <1>b, <2>2, <3>0, <4>1
    <3> QED
      BY <1>1, <2>2, <3>1, <3>2, <3>3, <3>4, <3>5 DEF PollStep
  <2> QED
    BY <2>1, <2>2
<1>2. ASSUME \/ UNCHANGED pollVars
             \/ Crash
      PROVE  CurrentIsFirst'
  <2>1. \A q \in Source : pc'[q] = "idle" \/ UNCHANGED <<pc, to, batch, cur>>
    BY <1>2 DEF pollVars, Crash
  <2>2. ASSUME NEW q \in Source
        PROVE  /\ pc'[q] \in {"deliver", "record", "act", "mark"} =>
                     \A n \in batch'[q] : ~Before(q, n, cur'[q])
               /\ pc'[q] \in {"act", "mark"} => Settled(q, to[q], cur[q])'
    BY <1>a, <1>b, <2>1
  <2> QED
    BY <2>2 DEF CurrentIsFirst
<1>3. ASSUME NEW s \in Source, PollStep(s) \/ PollFault(s)
      PROVE  CurrentIsFirst'
  BY <1>1, <1>3 DEF CurrentIsFirst
<1>4. (\E s \in Source : MailboxStep(s)) \/ UNCHANGED vars => UNCHANGED pollVars
  BY MailboxFrame DEF vars, pollVars
<1> QED
  BY <1>2, <1>3, <1>4 DEF Next

\* Where received dates follow UIDs, no checkpoint ever passes a message that is
\* neither imported nor left out by the rules, whatever polls fail, stop or
\* crash, new mail arrives and folders are rebuilt between any two steps
\* (MailSourceCheckpointSelector and SourcePollingStateService's checkpoints).
THEOREM CheckpointAlwaysCovers ==
  ASSUME InstantsFollowUids
  PROVE  Spec => []CheckpointCovers
<1> DEFINE IInv == TypeOK /\ KeysIdentify /\ CurrentIsFirst /\ CheckpointInv
<1>1. Init => IInv
  <2> SUFFICES ASSUME Init PROVE IInv
    OBVIOUS
  <2>1. \A s \in Source : \A f, v, u, c : ~Named(s, f, v, u, c)
    BY DEF Init, Named
  <2>2. KeysIdentify /\ CurrentIsFirst
    BY <2>1 DEF Init, KeysIdentify, CurrentIsFirst
  <2>3. CheckpointInv
    BY MailFlowAssumption DEF MailFlowAssumption, Init, CheckpointInv, PopHasOneFolder,
       DatesFollowUids, RowsAreKnown, BatchIsComplete, PassedIsSettled
  <2> QED
    BY <2>2, <2>3, InitTypeOK
<1>2. IInv /\ [Next]_vars => IInv'
  BY NextTypeOK, KeysIdentifyNext, CurrentIsFirstNext, CheckpointInvNext
<1>3. IInv => CheckpointCovers
  BY DEF CheckpointInv, PassedIsSettled, Passed, Settled, CheckpointCovers, Fetched
<1> QED
  BY <1>1, <1>2, <1>3, PTL DEF Spec
=============================================================================
