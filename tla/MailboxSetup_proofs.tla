------------------------ MODULE MailboxSetup_proofs ------------------------
(* Theorems about the mailboxes on the server and the page that sets them up, *)
(* for any accounts, mailboxes, requests and loads; about the chart of the    *)
(* statistics, for any histories, spans and lengths of the calendar; about    *)
(* the notices of users who share a browser; and about the settings of        *)
(* security.                                                                  *)
EXTENDS ConsoleMailboxes, StatisticsChart, ConsoleWorkspace, SecuritySettings,
        SequenceTheorems, WellFoundedInduction, TLAPS

-----------------------------------------------------------------------------
(* The server. *)

\* A source that is being enabled did not match the destination that it was
\* compared with.
TestsHold ==
    \A i \in Ids : testing[i] # None => ~Matches(testing[i].row.box, testing[i].dest)

LoopInv == SetupTypeOK /\ TestsHold /\ NoMailLoop

\* Disabling keeps every account, in its mailbox, and disables what matches.
LEMMA DisableMatchingFacts ==
  ASSUME SetupTypeOK, NEW d
  PROVE  /\ DisableMatching(d) \in [Ids -> Row \cup {None}]
         /\ \A i \in Ids : LET r == DisableMatching(d)[i]
                           IN  r # None /\ r.enabled => ~Matches(r.box, d)
<1> SUFFICES ASSUME NEW i \in Ids
             PROVE  LET r == DisableMatching(d)[i]
                    IN  r \in Row \cup {None} /\ (r # None /\ r.enabled => ~Matches(r.box, d))
  BY DEF DisableMatching
<1> DEFINE r == DisableMatching(d)[i]
<1>1. rows[i] \in Row \cup {None} /\ None \notin Row
  BY MailboxAssumption DEF SetupTypeOK
<1>2. CASE rows[i] # None /\ Matches(rows[i].box, d)
  <2>1. r = [rows[i] EXCEPT !.enabled = FALSE]
    BY <1>2 DEF DisableMatching
  <2>2. rows[i] \in Row
    BY <1>1, <1>2
  <2>3. r \in Row /\ r.enabled = FALSE
    BY <2>1, <2>2 DEF Row
  <2> QED
    BY <2>3
<1>3. CASE ~(rows[i] # None /\ Matches(rows[i].box, d))
  <2>1. r = rows[i]
    BY <1>3 DEF DisableMatching
  <2> QED
    BY <1>1, <1>3, <2>1
<1> QED
  BY <1>2, <1>3

LEMMA SavedFacts ==
  ASSUME NEW id \in Ids, NEW box \in Boxes, NEW enabled \in BOOLEAN
  PROVE  Saved(id, box, enabled) \in Row /\ Saved(id, box, enabled).box = box
BY DEF Saved, Row

LEMMA SetupInitType == SetupInit => SetupTypeOK
<1>1. SetupInit => rows \in [Ids -> Row \cup {None}]
  BY MailboxAssumption DEF SetupInit
<1>2. [i \in Ids |-> None] \in [Ids -> Test \cup {None}]
  OBVIOUS
<1>3. SetupInit => outlook \in BOOLEAN
  BY DEF SetupInit
<1>4. SetupInit => dest \in Destination /\ gmail \in Boxes \cup {None}
  BY DEF SetupInit, Destination
<1>5. SetupInit => testing \in [Ids -> Test \cup {None}] /\ overtaken \subseteq Ids
  BY <1>2 DEF SetupInit
<1> QED
  BY <1>1, <1>3, <1>4, <1>5 DEF SetupTypeOK

LEMMA SetupNextType == SetupTypeOK /\ [SetupNext]_setupVars => SetupTypeOK'
<1> SUFFICES ASSUME SetupTypeOK, [SetupNext]_setupVars
             PROVE  SetupTypeOK'
  OBVIOUS
<1>1. CASE UNCHANGED setupVars
  BY <1>1 DEF setupVars, SetupTypeOK
<1>2. ASSUME NEW add \in BOOLEAN, NEW enabled \in BOOLEAN, NEW id \in Ids, NEW b \in Boxes,
             Upsert(add, id, b, enabled)
      PROVE  SetupTypeOK'
  BY <1>2, SavedFacts DEF Upsert, SetupTypeOK
<1>3. ASSUME NEW id \in Ids, Delete(id)
      PROVE  SetupTypeOK'
  BY <1>3 DEF Delete, SetupTypeOK
<1>4. ASSUME NEW id \in Ids, StoreSourceGrant(id)
      PROVE  SetupTypeOK'
  <2>1. rows' \in [Ids -> Row \cup {None}]
    <3>1. rows[id] \in Row
      BY <1>4 DEF StoreSourceGrant, SetupTypeOK
    <3>2. [rows[id] EXCEPT !.linked = TRUE] \in Row
      BY <3>1 DEF Row
    <3>3. rows' = [rows EXCEPT ![id] = [rows[id] EXCEPT !.linked = TRUE]]
      BY <1>4 DEF StoreSourceGrant, SetupTypeOK
    <3> QED
      BY <3>2, <3>3 DEF SetupTypeOK
  <2>2. [row |-> rows'[id], dest |-> dest] \in Test
    <3>1. rows'[id] \in Row
      BY <1>4, MailboxAssumption DEF StoreSourceGrant, SetupTypeOK, Row
    <3> QED
      BY <3>1 DEF Test, SetupTypeOK
  <2> QED
    BY <1>4, <2>1, <2>2 DEF StoreSourceGrant, SetupTypeOK
<1>5. ASSUME NEW id \in Ids, EnableAfterSuccessfulOauthConnection(id)
      PROVE  SetupTypeOK'
  <2>1. testing[id].row \in Row
    BY <1>5 DEF EnableAfterSuccessfulOauthConnection, SetupTypeOK, Test
  <2>2. [testing[id].row EXCEPT !.enabled = TRUE, !.wants = FALSE] \in Row
    BY <2>1 DEF Row
  <2> QED
    BY <1>5, <2>2 DEF EnableAfterSuccessfulOauthConnection, SetupTypeOK
<1>6. ASSUME NEW d \in Drafts, UpdateDestination(d)
      PROVE  SetupTypeOK'
  <2>1. dest' \in Destination
    BY <1>6, MailboxAssumption DEF UpdateDestination, Drafts, Destination
  <2>2. rows' \in [Ids -> Row \cup {None}]
    BY <1>6, DisableMatchingFacts DEF UpdateDestination
  <2> QED
    BY <1>6, <2>1, <2>2 DEF UpdateDestination, SetupTypeOK
<1>7. ASSUME "OUTLOOK" \in Providers, NEW b \in OAuthBoxes, LinkOutlook(b)
      PROVE  SetupTypeOK'
  <2>1. dest' \in Destination
    BY <1>7, MailboxAssumption DEF LinkOutlook, Destination
  <2>2. rows' \in [Ids -> Row \cup {None}]
    BY <1>7, DisableMatchingFacts DEF LinkOutlook
  <2> QED
    BY <1>7, <2>1, <2>2 DEF LinkOutlook, SetupTypeOK
<1>8. ASSUME NEW b \in OAuthBoxes, LinkGmail(b)
      PROVE  SetupTypeOK'
  BY <1>8, DisableMatchingFacts, MailboxAssumption DEF LinkGmail, SetupTypeOK
<1>9. CASE UnlinkDestination
  BY <1>9 DEF UnlinkDestination, SetupTypeOK
<1> QED
  BY <1>1, <1>2, <1>3, <1>4, <1>5, <1>6, <1>7, <1>8, <1>9 DEF SetupNext

\* Accounts, destination and credentials stay what they are declared to be.
THEOREM SetupTypeCorrect == SetupSpec => []SetupTypeOK
BY SetupInitType, SetupNextType, PTL DEF SetupSpec

LEMMA NextLoop ==
  ASSUME LoopInv, [SetupNext]_setupVars
  PROVE  LoopInv'
<1>0. SetupTypeOK /\ TestsHold /\ NoMailLoop /\ SetupTypeOK'
  BY SetupNextType DEF LoopInv
<1>1. CASE UNCHANGED setupVars
  BY <1>0, <1>1 DEF setupVars, LoopInv, TestsHold, NoMailLoop
<1>2. ASSUME UNCHANGED testing
      PROVE  TestsHold'
  BY <1>0, <1>2 DEF TestsHold
<1>3. ASSUME NEW add \in BOOLEAN, NEW enabled \in BOOLEAN, NEW id \in Ids, NEW b \in Boxes,
             Upsert(add, id, b, enabled)
      PROVE  TestsHold' /\ NoMailLoop'
  <2>1. rows'[id] = Saved(id, b, enabled) /\ \A i \in Ids \ {id} : rows'[i] = rows[i]
    BY <1>0, <1>3 DEF Upsert, SetupTypeOK
  <2>2. NoMailLoop'
    BY <1>0, <1>3, <2>1, SavedFacts DEF Upsert, UpsertAccepted, NoMailLoop
  <2> QED
    BY <1>2, <1>3, <2>2 DEF Upsert
<1>4. ASSUME NEW id \in Ids, Delete(id)
      PROVE  TestsHold' /\ NoMailLoop'
  <2>1. NoMailLoop'
    BY <1>0, <1>4 DEF Delete, NoMailLoop, SetupTypeOK
  <2> QED
    BY <1>2, <1>4, <2>1 DEF Delete
<1>5. ASSUME NEW id \in Ids, StoreSourceGrant(id)
      PROVE  TestsHold' /\ NoMailLoop'
  <2>1. /\ rows[id] \in Row /\ rows[id] # None
        /\ rows' = [rows EXCEPT ![id] = [rows[id] EXCEPT !.linked = TRUE]]
        /\ dest' = dest /\ overtaken' = overtaken
    BY <1>0, <1>5 DEF StoreSourceGrant, SetupTypeOK
  <2>2. /\ rows'[id].box = rows[id].box /\ rows'[id].enabled = rows[id].enabled
        /\ rows'[id] \in Row /\ \A i \in Ids \ {id} : rows'[i] = rows[i]
    BY <1>0, <2>1 DEF Row, SetupTypeOK
  <2>3. NoMailLoop'
    BY <1>0, <2>1, <2>2 DEF NoMailLoop
  <2>4. TestsHold'
    <3>1. ASSUME NEW i \in Ids, testing'[i] # None, testing'[i] # testing[i]
          PROVE  testing'[i] = [row |-> rows'[id], dest |-> dest] /\ ~Matches(rows[id].box, dest)
      BY <1>0, <1>5, <3>1 DEF StoreSourceGrant, SetupTypeOK
    <3> QED
      BY <1>0, <2>2, <3>1 DEF TestsHold
  <2> QED
    BY <2>3, <2>4
<1>6. ASSUME NEW id \in Ids, EnableAfterSuccessfulOauthConnection(id)
      PROVE  TestsHold' /\ NoMailLoop'
  <2> DEFINE on == [testing[id].row EXCEPT !.enabled = TRUE, !.wants = FALSE]
  <2>1. testing[id].row \in Row /\ testing[id] # None /\ dest' = dest
    BY <1>0, <1>6 DEF EnableAfterSuccessfulOauthConnection, SetupTypeOK, Test
  <2>2. on.box = testing[id].row.box
    BY <2>1 DEF Row
  <2>3. ~Matches(on.box, testing[id].dest)
    BY <1>0, <2>1, <2>2 DEF TestsHold
  <2>4. \/ rows' = rows /\ overtaken' = overtaken
        \/ /\ rows' = [rows EXCEPT ![id] = on]
           /\ overtaken' = IF testing[id].dest = dest THEN overtaken \ {id}
                           ELSE overtaken \cup {id}
    BY <1>6 DEF EnableAfterSuccessfulOauthConnection
  <2> HIDE DEF on
  <2>5. NoMailLoop'
    BY <1>0, <2>1, <2>3, <2>4 DEF NoMailLoop, SetupTypeOK
  <2>6. \A i \in Ids : testing'[i] # None => testing'[i] = testing[i]
    BY <1>0, <1>6 DEF EnableAfterSuccessfulOauthConnection, SetupTypeOK
  <2>7. TestsHold'
    BY <1>0, <2>6 DEF TestsHold
  <2> QED
    BY <2>5, <2>7
<1>7. ASSUME NEW d, d = dest', rows' = DisableMatching(d), UNCHANGED testing
      PROVE  TestsHold' /\ NoMailLoop'
  <2>1. NoMailLoop'
    BY <1>0, <1>7, DisableMatchingFacts DEF NoMailLoop
  <2> QED
    BY <1>2, <1>7, <2>1
<1>8. CASE \/ \E d \in Drafts : UpdateDestination(d)
           \/ \E b \in OAuthBoxes : LinkOutlook(b)
           \/ \E b \in OAuthBoxes : LinkGmail(b)
  <2>1. UNCHANGED testing
    BY <1>8 DEF UpdateDestination, LinkOutlook, LinkGmail
  <2>2. PICK d : d = dest'
    OBVIOUS
  <2>3. rows' = DisableMatching(dest')
    <3>1. CASE \E e \in Drafts : UpdateDestination(e)
      BY <3>1 DEF UpdateDestination
    <3>2. CASE \E b \in OAuthBoxes : LinkOutlook(b)
      BY <3>2 DEF LinkOutlook
    <3>3. CASE \E b \in OAuthBoxes : LinkGmail(b)
      BY <3>3 DEF LinkGmail
    <3> QED
      BY <1>8, <3>1, <3>2, <3>3
  <2>4. rows' = DisableMatching(d)
    BY <2>2, <2>3
  <2> QED
    BY <1>0, <1>7, <2>1, <2>2, <2>4 DEF LoopInv
<1>9. CASE UnlinkDestination
  BY <1>0, <1>9 DEF UnlinkDestination, TestsHold, NoMailLoop, LoopInv
<1> QED
  BY <1>0, <1>1, <1>3, <1>4, <1>5, <1>6, <1>8, <1>9 DEF SetupNext, LoopInv

\* No enabled source is the mailbox of the recorded destination, in whatever
\* order accounts and destination are saved, linked, consented to and unlinked,
\* while sources are tested, but for one enabled by a consent that was compared
\* with a destination changed since (UserEmailAccountService,
\* MailboxConflictService).
THEOREM MailNeverLoops == SetupSpec => []NoMailLoop
<1>1. SetupInit => LoopInv
  BY SetupInitType DEF SetupInit, LoopInv, TestsHold, NoMailLoop, Matches, ComparedWith
<1>2. LoopInv /\ [SetupNext]_setupVars => LoopInv'
  BY NextLoop
<1>3. LoopInv => NoMailLoop
  BY DEF LoopInv
<1> QED
  BY <1>1, <1>2, <1>3, PTL DEF SetupSpec

-----------------------------------------------------------------------------
(* The page. *)

Phases == {"sent", "done", "failed"}
Links == {"GMAIL", "OUTLOOK"} \cap Providers

SaveCalls ==
    [op: {"save", "connect", "toggle"}, phase: Phases, add: BOOLEAN, id: Ids, box: Boxes,
     enabled: BOOLEAN, tested: Boxes \cup {None, "error"}, late: BOOLEAN]
TestCalls == [op: {"test"}, phase: Phases, of: FolderKeys]
AccountCalls == [op: {"poll", "delete"}, phase: Phases, id: Ids]
UnlinkCalls == [op: {"unlink"}, phase: Phases, confirmed: BOOLEAN]
DestinationCalls ==
    [op: {"destination"}, phase: Phases, dest: Drafts, then: Links \cup {None},
     shown: {None, "GOOGLE", "MICROSOFT"}, confirmed: BOOLEAN]
Questions == AccountCalls \cup UnlinkCalls \cup DestinationCalls
AllCalls == SaveCalls \cup TestCalls \cup Questions

Views == [rows: [Ids -> Row \cup {None}], dest: Destination, linked: BOOLEAN]

Consents ==
    [of: Ids \cup Links \cup {None}, box: OAuthBoxes \cup {None},
     code: {"none", "new", "spent"}]

\* What is shown, filled in, asked and sent, and what consent was given.
ConsoleType ==
    /\ seen \in Views \cup {None} /\ loads \subseteq Views
    /\ form \in Forms \cup {None} /\ tested \in Boxes \cup {None, "error"} /\ late \in BOOLEAN
    /\ confirm \in Questions \cup {None} /\ (asking => form # None)
    /\ calls \subseteq AllCalls
    /\ consent \in Consents /\ (consent.code = "new" => consent.box \in OAuthBoxes)

ConsoleBase == SetupTypeOK /\ ConsoleType

LEMMA ViewType == SetupTypeOK => View \in Views
<1> SUFFICES ASSUME SetupTypeOK
             PROVE  View \in Views
  OBVIOUS
<1> DEFINE linked == IF dest.provider \in {None, "GMAIL"} THEN gmail # None
                     ELSE dest.provider = "IMAP" \/ outlook
<1>1. linked \in BOOLEAN
  BY DEF SetupTypeOK
<1>2. rows \in [Ids -> Row \cup {None}] /\ dest \in Destination
  BY DEF SetupTypeOK
<1> QED
  BY <1>1, <1>2 DEF View, Views

\* A request goes from one phase to the next and keeps what it asks for.
LEMMA AdvanceFacts ==
  ASSUME NEW c \in AllCalls, NEW p \in Phases
  PROVE  LET d == [c EXCEPT !.phase = p]
         IN  /\ d \in AllCalls /\ d.op = c.op
             /\ c \in SaveCalls => /\ d.add = c.add /\ d.id = c.id /\ d.box = c.box
                                   /\ d.enabled = c.enabled /\ d.tested = c.tested
                                   /\ d.late = c.late
             /\ c \in TestCalls => d.of = c.of
<1>1. CASE c \in SaveCalls
  BY <1>1 DEF AllCalls, SaveCalls, TestCalls
<1>2. CASE c \in TestCalls
  BY <1>2 DEF AllCalls, SaveCalls, TestCalls
<1>3. CASE c \in AccountCalls
  BY <1>3 DEF AllCalls, Questions, SaveCalls, TestCalls, AccountCalls
<1>4. CASE c \in UnlinkCalls
  BY <1>4 DEF AllCalls, Questions, SaveCalls, TestCalls, UnlinkCalls
<1>5. CASE c \in DestinationCalls
  BY <1>5 DEF AllCalls, Questions, SaveCalls, TestCalls, DestinationCalls
<1> QED
  BY <1>1, <1>2, <1>3, <1>4, <1>5 DEF AllCalls, Questions

\* What kind of request it is says what it carries.
LEMMA CallFacts ==
  ASSUME NEW c \in AllCalls
  PROVE  /\ c.op \in {"save", "connect", "toggle"} => c \in SaveCalls
         /\ c.op = "test" => c \in TestCalls
         /\ c.op \in {"poll", "delete"} => c \in AccountCalls
         /\ c.op = "destination" => c \in DestinationCalls
         /\ c.phase \in Phases
BY DEF AllCalls, Questions, SaveCalls, TestCalls, AccountCalls, UnlinkCalls, DestinationCalls

\* The page's steps, by what they do to the dialog, the questions asked and
\* the requests.
DialogActs ==
    \/ \E id \in Ids : (\E b \in Boxes : OpenAdd(id, b)) \/ Edit(id)
    \/ \E b \in Boxes : form # None /\ EditConnection(b)
    \/ form # None /\ (EditOption \/ EditEnabled)
    \/ CloseDialog

LEMMA DialogFacts ==
  ASSUME ConsoleBase, DialogActs
  PROVE  /\ form' \in Forms \cup {None} /\ tested' = None /\ late' = FALSE /\ ~asking'
         /\ fetched' = None \/ (fetched' = fetched /\ folders' = folders)
         /\ UNCHANGED <<setupVars, seen, loads, confirm, calls, page, consent>>
<1>1. CASE \E id \in Ids, b \in Boxes : OpenAdd(id, b)
  BY <1>1 DEF OpenAdd, Forms, pageVars
<1>2. CASE \E id \in Ids : Edit(id)
  <2> PICK id \in Ids : Edit(id)
    BY <1>2
  <2>1. seen.rows[id] \in Row
    BY MailboxAssumption DEF Edit, Listed, ConsoleBase, ConsoleType, Views
  <2> QED
    BY <2>1 DEF Edit, Forms, Row, pageVars
<1>3. CASE \E b \in Boxes : form # None /\ EditConnection(b)
  BY <1>3 DEF EditConnection, HandleEmailAccountFormChange, Forms, pageVars, ConsoleBase, ConsoleType
<1>4. CASE form # None /\ (EditOption \/ EditEnabled)
  <2>1. form \in Forms
    BY <1>4 DEF ConsoleBase, ConsoleType
  <2>2. form' = form \/ form' = [form EXCEPT !.enabled = ~form.enabled]
    BY <1>4, <2>1 DEF EditOption, EditEnabled, HandleEmailAccountFormChange, Forms
  <2>3. form' \in Forms
    BY <2>1, <2>2 DEF Forms
  <2> QED
    BY <1>4, <2>3 DEF EditOption, EditEnabled, HandleEmailAccountFormChange, pageVars
<1>5. CASE CloseDialog
  BY <1>5 DEF CloseDialog, pageVars
<1> QED
  BY <1>1, <1>2, <1>3, <1>4, <1>5 DEF DialogActs

\* What a request that is made asks for: an enabled save has been tested.
Makes(c) ==
    c.op = "save" /\ c.enabled => /\ form # None /\ Validated /\ c.box = form.box
                                  /\ c.tested = tested /\ c.late = late

RequestActs ==
    \/ HandleSaveSubmit \/ SaveDisabledWithoutTesting \/ SaveAndConnectOAuth
    \/ TestConnection \/ CancelAsking \/ FocusFolder
    \/ \E id \in Ids : ToggleEmailAccountEnabled(id) \/ RunFetcherPoll(id)
                       \/ DeleteEmailAccount(id)
    \/ \E d \in Drafts : SaveDestinationConfig(d) \/ SaveDestinationConfigAndAuthenticate(d)
    \/ UnlinkDestinationAccount \/ ConfirmYes \/ ConfirmNo

\* A request is made, a question asked, or neither.
Asks ==
    /\ \/ calls' = calls
       \/ \E c \in AllCalls : Makes(c) /\ calls' = calls \cup {c}
    /\ confirm' \in Questions \cup {None} /\ (asking' => form # None)
    /\ UNCHANGED <<setupVars, seen, loads, form, tested, late, folders, fetched, page,
                   consent>>

LEMMA SaveRequestFacts ==
  ASSUME ConsoleBase, form # None, NEW op \in {"save", "connect"}, NEW enabled \in BOOLEAN,
         op = "save" /\ enabled => Validated
  PROVE  SaveRequest(op, enabled) \in AllCalls /\ Makes(SaveRequest(op, enabled))
BY DEF SaveRequest, AllCalls, SaveCalls, Phases, Makes, ConsoleBase, ConsoleType, Forms

LEMMA SendFacts ==
  ASSUME ConsoleBase, NEW c \in Questions, NEW ask \in BOOLEAN,
         c \in DestinationCalls, SendOrAsk(c, ask)
  PROVE  Asks
<1>0. asking => form # None
  BY DEF ConsoleBase, ConsoleType
<1>1. CASE ask
  <2>1. [c EXCEPT !.confirmed = TRUE] \in DestinationCalls
    BY DEF DestinationCalls
  <2> QED
    BY <1>0, <1>1, <2>1 DEF SendOrAsk, Ask, Asks, Questions, dialogVars, folderVars, pageVars
<1>2. CASE ~ask
  <2>1. c \in AllCalls /\ Makes(c)
    BY DEF AllCalls, Questions, Makes, DestinationCalls
  <2> QED
    BY <1>0, <1>2, <2>1 DEF SendOrAsk, Request, Asks, ConsoleBase, ConsoleType, dialogVars, folderVars,
       pageVars
<1> QED
  BY <1>1, <1>2

LEMMA DraftFacts ==
  ASSUME ConsoleBase, NEW d \in Drafts, NEW then \in {None, d.provider},
         then # None => d.provider \in {"GMAIL", "OUTLOOK"}
  PROVE  DestinationRequest(d, then) \in DestinationCalls
<1>1. d.provider \in Providers
  BY DEF Drafts
<1>2. then \in Links \cup {None}
  BY <1>1 DEF Links
<1>3. Shown \in {None, "GOOGLE", "MICROSOFT"}
  BY DEF Shown
<1> QED
  BY <1>2, <1>3 DEF DestinationRequest, DestinationCalls, Phases

LEMMA RequestFacts ==
  ASSUME ConsoleBase, RequestActs
  PROVE  Asks
<1> USE DEF dialogVars, folderVars, pageVars
<1>0. confirm \in Questions \cup {None} /\ (asking => form # None)
  BY DEF ConsoleBase, ConsoleType
<1>1. CASE HandleSaveSubmit
  <2>1. form \in Forms
    BY <1>1 DEF HandleSaveSubmit, ConsoleBase, ConsoleType
  <2>2. form.enabled \in BOOLEAN
    BY <2>1 DEF Forms
  <2>3. CASE form.enabled /\ ~Validated
    BY <1>0, <1>1, <2>3 DEF HandleSaveSubmit, Asks
  <2>4. CASE ~(form.enabled /\ ~Validated)
    <3>1. /\ SaveRequest("save", form.enabled) \in AllCalls
          /\ Makes(SaveRequest("save", form.enabled))
      BY <1>1, <2>2, <2>4, SaveRequestFacts DEF HandleSaveSubmit
    <3> QED
      BY <1>0, <1>1, <2>4, <3>1 DEF HandleSaveSubmit, Request, Asks
  <2> QED
    BY <2>3, <2>4
<1>2. CASE SaveDisabledWithoutTesting
  <2>1. calls' = calls \cup {SaveRequest("save", FALSE)}
    BY <1>2 DEF SaveDisabledWithoutTesting, Request
  <2>2. form # None
    BY <1>2 DEF SaveDisabledWithoutTesting, ConsoleBase, ConsoleType
  <2>3. SaveRequest("save", FALSE) \in AllCalls /\ Makes(SaveRequest("save", FALSE))
    BY <2>2, SaveRequestFacts
  <2> QED
    BY <1>0, <1>2, <2>1, <2>3 DEF SaveDisabledWithoutTesting, Asks
<1>3. CASE SaveAndConnectOAuth
  <2>1. form \in Forms /\ form # None
    BY <1>3 DEF SaveAndConnectOAuth, ConsoleBase, ConsoleType
  <2>2. /\ SaveRequest("connect", form.enabled) \in AllCalls
        /\ Makes(SaveRequest("connect", form.enabled))
    BY <2>1, SaveRequestFacts DEF Forms
  <2> QED
    BY <1>0, <1>3, <2>2 DEF SaveAndConnectOAuth, Request, Asks
<1>4. CASE TestConnection
  <2> DEFINE c == [op |-> "test", phase |-> "sent", of |-> Key(form)]
  <2>1. form \in Forms /\ form # None
    BY <1>4 DEF TestConnection, ConsoleBase, ConsoleType
  <2>2. c \in AllCalls /\ Makes(c)
    BY <2>1 DEF AllCalls, TestCalls, Phases, Makes, Key, Forms, FolderKeys
  <2>3. calls' = calls \cup {c}
    BY <1>4 DEF TestConnection, Request
  <2> HIDE DEF c
  <2> QED
    BY <1>0, <1>4, <2>2, <2>3 DEF TestConnection, Asks
<1>5. CASE CancelAsking \/ FocusFolder
  BY <1>0, <1>5 DEF CancelAsking, FocusFolder, Asks
<1>6. ASSUME NEW id \in Ids, ToggleEmailAccountEnabled(id)
      PROVE  Asks
  <2> DEFINE c == [op |-> "toggle", phase |-> "sent", add |-> FALSE, id |-> id,
                   box |-> seen.rows[id].box, enabled |-> ~seen.rows[id].enabled,
                   tested |-> None, late |-> FALSE]
  <2>1. seen.rows[id] \in Row
    BY <1>6, MailboxAssumption DEF ToggleEmailAccountEnabled, Listed, ConsoleBase, ConsoleType, Views
  <2>2. c \in AllCalls /\ Makes(c)
    BY <2>1 DEF AllCalls, SaveCalls, Phases, Makes, Row
  <2>3. calls' = calls \cup {c}
    BY <1>6 DEF ToggleEmailAccountEnabled, Request
  <2> HIDE DEF c
  <2> QED
    BY <1>0, <1>6, <2>2, <2>3 DEF ToggleEmailAccountEnabled, Asks
<1>7. ASSUME NEW id \in Ids, RunFetcherPoll(id) \/ DeleteEmailAccount(id)
      PROVE  Asks
  <2>1. \A op \in {"poll", "delete"} :
          LET c == [op |-> op, phase |-> "sent", id |-> id]
          IN  c \in Questions /\ c \in AllCalls /\ Makes(c)
    BY DEF AllCalls, AccountCalls, Phases, Makes, Questions
  <2> QED
    BY <1>0, <1>7, <2>1 DEF RunFetcherPoll, DeleteEmailAccount, Request, Ask, Asks
<1>8. ASSUME NEW d \in Drafts, SaveDestinationConfig(d) \/ SaveDestinationConfigAndAuthenticate(d)
      PROVE  Asks
  <2>1. CASE SaveDestinationConfig(d)
    <3>1. DestinationRequest(d, None) \in DestinationCalls
      BY DraftFacts
    <3> QED
      BY <2>1, <3>1, SendFacts DEF SaveDestinationConfig, Questions
  <2>2. CASE SaveDestinationConfigAndAuthenticate(d)
    <3>1. DestinationRequest(d, d.provider) \in DestinationCalls
      BY <2>2, DraftFacts DEF SaveDestinationConfigAndAuthenticate
    <3> QED
      BY <2>2, <3>1, SendFacts DEF SaveDestinationConfigAndAuthenticate, Questions
  <2> QED
    BY <1>8, <2>1, <2>2
<1>9. CASE UnlinkDestinationAccount
  <2>1. [op |-> "unlink", phase |-> "sent", confirmed |-> TRUE] \in Questions
    BY DEF Questions, UnlinkCalls, Phases
  <2> QED
    BY <1>0, <1>9, <2>1 DEF UnlinkDestinationAccount, Ask, Asks
<1>10. CASE ConfirmYes
  <2>1. confirm \in AllCalls /\ Makes(confirm)
    BY <1>0, <1>10
       DEF ConfirmYes, Questions, AllCalls, AccountCalls, UnlinkCalls, DestinationCalls, Makes
  <2> QED
    BY <1>0, <1>10, <2>1 DEF ConfirmYes, Request, Asks
<1>11. CASE ConfirmNo
  BY <1>0, <1>11 DEF ConfirmNo, Ask, Asks
<1> QED
  BY <1>1, <1>2, <1>3, <1>4, <1>5, <1>6, <1>7, <1>8, <1>9, <1>10, <1>11 DEF RequestActs

\* An answer takes its request away; it closes the dialog or brings the result
\* of a test, loads the page again or leaves it.
Answered ==
    /\ calls' \subseteq calls /\ form' \in {form, None} /\ confirm' \in {confirm, None}
    /\ seen' \in {seen, None} /\ loads' \subseteq loads \cup {View}
    /\ \/ tested' \in {None, "error"}
       \/ UNCHANGED <<tested, late>>
       \/ \E c \in calls : /\ c.op = "test" /\ tested' = c.of.box
                           /\ late' \/ (form # None /\ Key(form) = c.of)
    /\ late' \in BOOLEAN
    /\ asking' => form' # None
    /\ consent' = consent \/ (consent' \in Consents /\ consent'.code = "none")
    /\ fetched' = None \/ (fetched' = fetched /\ folders' = folders)
    /\ UNCHANGED setupVars

LEMMA LeaveFacts ==
  ASSUME ConsoleBase, NEW of \in Ids \cup Links, LeaveFor(of), calls' = {}
  PROVE  Answered
<1>1. consent' \in Consents /\ consent'.code = "none"
  BY DEF LeaveFor, Consents
<1> QED
  BY <1>1 DEF LeaveFor, Answered

LEMMA AnswerFacts ==
  ASSUME ConsoleBase, NEW c \in calls,
         \/ TestAnswered(c) \/ SaveAnswered(c) \/ ConnectAnswered(c)
         \/ PollAnswered(c) \/ ConfirmedAnswered(c) \/ DestinationAnswered(c)
  PROVE  Answered
<1> USE DEF dialogVars, folderVars, pageVars
<1>0. c \in AllCalls /\ (asking => form # None) /\ late \in BOOLEAN
  BY DEF ConsoleBase, ConsoleType
<1>1. CASE TestAnswered(c)
  BY <1>0, <1>1 DEF TestAnswered, Answered
<1>2. CASE SaveAnswered(c)
  BY <1>0, <1>2 DEF SaveAnswered, StartLoad, Answered
<1>3. CASE ConnectAnswered(c)
  <2>1. c.id \in Ids
    BY <1>0, <1>3, CallFacts DEF ConnectAnswered, SaveCalls
  <2> QED
    BY <1>3, <2>1, LeaveFacts DEF ConnectAnswered
<1>4. CASE PollAnswered(c)
  BY <1>0, <1>4 DEF PollAnswered, StartLoad, Answered
<1>5. CASE ConfirmedAnswered(c)
  BY <1>0, <1>5 DEF ConfirmedAnswered, StartLoad, Answered
<1>6. CASE DestinationAnswered(c)
  <2>1. c.then \in Links \cup {None}
    BY <1>0, <1>6, CallFacts DEF DestinationAnswered, DestinationCalls
  <2>2. CASE c.phase = "done" /\ c.then # None
    BY <1>6, <2>1, <2>2, LeaveFacts DEF DestinationAnswered
  <2>3. CASE ~(c.phase = "done" /\ c.then # None)
    BY <1>0, <1>6, <2>3 DEF DestinationAnswered, StartLoad, Answered
  <2> QED
    BY <2>2, <2>3
<1> QED
  BY <1>1, <1>2, <1>3, <1>4, <1>5, <1>6

LEMMA ConnectFacts ==
  ASSUME ConsoleBase, NEW id \in Ids, ConnectOAuth(id)
  PROVE  Answered
BY LeaveFacts DEF ConnectOAuth

\* The server serves or refuses a request, which keeps what it asks for.
Moves ==
    /\ \E c \in calls, p \in Phases : calls' = (calls \ {c}) \cup {[c EXCEPT !.phase = p]}
    /\ UNCHANGED <<seen, loads, form, tested, late, asking, folders, fetched, confirm,
                   consent>>

LEMMA ServeFacts ==
  ASSUME ConsoleBase, NEW c \in calls, Serve(c) \/ Fail(c)
  PROVE  Moves /\ [SetupNext]_setupVars
<1> USE DEF dialogVars, folderVars, pageVars
<1>0. c \in AllCalls
  BY DEF ConsoleBase, ConsoleType
<1>1. Moves
  BY DEF Serve, Fail, Advance, Moves, Phases
<1>2. CASE Fail(c)
  BY <1>1, <1>2 DEF Fail
<1>3. CASE Serve(c)
  <2>1. Perform(c)
    BY <1>3 DEF Serve
  <2>2. CASE c.op \in {"save", "connect", "toggle"} /\ Upsert(c.add, c.id, c.box, c.enabled)
    <3>1. c.add \in BOOLEAN /\ c.id \in Ids /\ c.box \in Boxes /\ c.enabled \in BOOLEAN
      BY <1>0, <2>2, CallFacts DEF SaveCalls
    <3>2. SetupNext
      BY <2>2, <3>1 DEF SetupNext
    <3> QED
      BY <1>1, <3>2
  <2>3. CASE c.op = "delete" /\ Delete(c.id)
    <3>1. c.id \in Ids
      BY <1>0, <2>3, CallFacts DEF AccountCalls
    <3> QED
      BY <1>1, <2>3, <3>1 DEF SetupNext
  <2>4. CASE c.op = "destination" /\ UpdateDestination(c.dest)
    <3>1. c.dest \in Drafts
      BY <1>0, <2>4, CallFacts DEF DestinationCalls
    <3> QED
      BY <1>1, <2>4, <3>1 DEF SetupNext
  <2>5. CASE UnlinkDestination \/ UNCHANGED setupVars
    BY <1>1, <2>5 DEF SetupNext
  <2> QED
    BY <2>1, <2>2, <2>3, <2>4, <2>5 DEF Perform
<1> QED
  BY <1>2, <1>3

\* The other steps leave dialog and requests alone.
Apart ==
    /\ UNCHANGED <<form, tested, late, asking, confirm, calls>>
    /\ seen' \in loads \cup {seen} /\ loads' \subseteq loads \cup {View}
    /\ \/ consent' = consent
       \/ consent' \in Consents /\ (consent'.code = "new" => consent'.box \in OAuthBoxes)
    /\ \/ UNCHANGED <<folders, fetched>>
       \/ UNCHANGED fetched /\ folders' = None
       \/ \E k \in fetching : fetched' = k /\ folders' = k.box

OtherActs ==
    \/ \E b \in OAuthBoxes : Consented(b)
    \/ ReturnToConsole \/ ExchangeCode
    \/ \E k \in fetching : FoldersArrive(k)
    \/ LoadAppData \/ ApplySomeLoad \/ \E v \in loads : LoseLoad(v)
    \/ \E id \in Ids : TestsEnd(id)

LEMMA OtherFacts ==
  ASSUME ConsoleBase, OtherActs
  PROVE  Apart /\ [SetupNext]_setupVars
<1> USE DEF dialogVars, folderVars, pageVars
<1>1. CASE \E b \in OAuthBoxes : Consented(b)
  <2>1. PICK b \in OAuthBoxes : Consented(b)
    BY <1>1
  <2>2. consent' \in Consents /\ consent'.box = b
    BY <2>1 DEF Consented, ConsoleBase, ConsoleType, Consents
  <2> QED
    BY <2>1, <2>2 DEF Consented, Apart
<1>2. CASE ReturnToConsole
  BY <1>2 DEF ReturnToConsole, NoConsent, Consents, Apart
<1>3. CASE ExchangeCode
  <2>1. consent' \in Consents /\ consent'.code = "spent" /\ consent.box \in OAuthBoxes
        /\ consent.of \in Ids \cup Links \cup {None}
    BY <1>3 DEF ExchangeCode, ConsoleBase, ConsoleType, Consents
  <2>2. Apart
    BY <1>3, <2>1 DEF ExchangeCode, Apart
  <2>3. CASE Exchange
    <3>1. CASE consent.of \in Ids /\ StoreSourceGrant(consent.of)
      BY <2>2, <3>1 DEF SetupNext
    <3>2. CASE consent.of = "OUTLOOK" /\ LinkOutlook(consent.box)
      <4>1. "OUTLOOK" \in Providers
        BY <2>1, <3>2, ConsoleMailboxesAssumption DEF Links
      <4>2. SetupNext
        BY <2>1, <3>2, <4>1 DEF SetupNext
      <4> QED
        BY <2>2, <4>2
    <3>3. CASE consent.of = "GMAIL" /\ LinkGmail(consent.box)
      <4>1. "GMAIL" \in Providers
        BY <2>1, <3>3, ConsoleMailboxesAssumption DEF Links
      <4>2. SetupNext
        BY <2>1, <3>3, <4>1 DEF SetupNext
      <4> QED
        BY <2>2, <4>2
    <3> QED
      BY <2>3, <3>1, <3>2, <3>3 DEF Exchange
  <2> QED
    BY <1>3, <2>2, <2>3 DEF ExchangeCode
<1>4. CASE \E k \in fetching : FoldersArrive(k)
  BY <1>4 DEF FoldersArrive, Apart
<1>5. CASE LoadAppData \/ ApplySomeLoad \/ \E v \in loads : LoseLoad(v)
  BY <1>5 DEF LoadAppData, StartLoad, ApplySomeLoad, ApplyLoad, LoseLoad, Apart
<1>6. CASE \E id \in Ids : TestsEnd(id)
  BY <1>6 DEF TestsEnd, SetupNext, consoleVars, Apart
<1> QED
  BY <1>1, <1>2, <1>3, <1>4, <1>5, <1>6 DEF OtherActs

LEMMA StepKinds ==
  ASSUME ConsoleBase, Next
  PROVE  \/ DialogActs
         \/ Asks
         \/ Answered
         \/ Moves /\ [SetupNext]_setupVars
         \/ Apart /\ [SetupNext]_setupVars
<1>1. CASE UserActs
  <2>1. \/ DialogActs \/ RequestActs \/ OtherActs
        \/ \E id \in Ids : ConnectOAuth(id)
    BY <1>1 DEF UserActs, DialogActs, RequestActs, OtherActs
  <2> QED
    BY <2>1, RequestFacts, OtherFacts, ConnectFacts
<1>2. CASE \E c \in calls : Serve(c) \/ Fail(c)
  BY <1>2, ServeFacts
<1>3. CASE Answers
  BY <1>3, AnswerFacts DEF Answers
<1>4. CASE OtherActs
  BY <1>4, OtherFacts
<1> QED
  BY <1>1, <1>2, <1>3, <1>4 DEF Next, OtherActs

LEMMA NextIsSetup ==
  ASSUME ConsoleBase, [Next]_vars
  PROVE  [SetupNext]_setupVars
<1>1. CASE UNCHANGED vars
  BY <1>1 DEF vars
<1>2. CASE Next
  BY <1>2, StepKinds, DialogFacts DEF Asks, Answered
<1> QED
  BY <1>1, <1>2

LEMMA ConsoleInitBase == ConsoleInit => ConsoleBase
<1> SUFFICES ASSUME ConsoleInit
             PROVE  ConsoleBase
  OBVIOUS
<1>1. SetupTypeOK
  BY SetupInitType DEF ConsoleInit
<1>2. ConsoleType
  BY DEF ConsoleInit, ConsoleType, NoConsent, Consents
<1> QED
  BY <1>1, <1>2 DEF ConsoleBase

LEMMA ConsoleNextBase == ConsoleBase /\ [Next]_vars => ConsoleBase'
<1> SUFFICES ASSUME ConsoleBase, [Next]_vars
             PROVE  ConsoleBase'
  OBVIOUS
<1>1. SetupTypeOK'
  BY NextIsSetup, SetupNextType DEF ConsoleBase
<1>2. ConsoleType /\ View \in Views
  BY ViewType DEF ConsoleBase
<1>3. CASE UNCHANGED vars
  BY <1>1, <1>2, <1>3 DEF ConsoleBase, vars, consoleVars, dialogVars, pageVars, ConsoleType
<1>4. CASE DialogActs
  BY <1>1, <1>2, <1>4, DialogFacts DEF ConsoleBase, ConsoleType
<1>5. CASE Asks
  BY <1>1, <1>2, <1>5 DEF ConsoleBase, Asks, ConsoleType
<1>6. CASE Answered
  <2>1. tested' \in Boxes \cup {None, "error"}
    <3>1. CASE tested' \in {tested, None, "error"}
      BY <1>2, <3>1 DEF ConsoleType
    <3>2. ASSUME NEW c \in calls, c.op = "test", tested' = c.of.box
          PROVE  tested' \in Boxes
      BY <1>2, <3>2, CallFacts DEF ConsoleType, TestCalls, FolderKeys
    <3> QED
      BY <1>2, <1>6, <3>1, <3>2 DEF Answered, ConsoleType
  <2> QED
    BY <1>1, <1>2, <1>6, <2>1 DEF ConsoleBase, Answered, ConsoleType
<1>7. CASE Moves
  <2>1. calls' \subseteq AllCalls
    BY <1>2, <1>7, AdvanceFacts DEF Moves, ConsoleType
  <2> QED
    BY <1>1, <1>2, <1>7, <2>1 DEF ConsoleBase, Moves, ConsoleType
<1>8. CASE Apart
  BY <1>1, <1>2, <1>8 DEF ConsoleBase, Apart, ConsoleType
<1> QED
  BY <1>1, <1>3, <1>4, <1>5, <1>6, <1>7, <1>8, StepKinds DEF ConsoleBase

\* Whatever the page loads, shows, asks and sends, and however often it leaves
\* for a consent, the server does one of its own steps or none.
THEOREM ConsoleImplementsSetup == Spec => SetupSpec
<1>1. ConsoleInit => SetupInit
  BY DEF ConsoleInit
<1>2. ConsoleBase /\ [Next]_vars => [SetupNext]_setupVars
  BY NextIsSetup
<1> QED
  BY <1>1, <1>2, ConsoleInitBase, ConsoleNextBase, PTL DEF Spec, SetupSpec

\* So what the server keeps, the page cannot break.
THEOREM PageNeverLoops == Spec => []NoMailLoop
BY MailNeverLoops, ConsoleImplementsSetup, PTL

-----------------------------------------------------------------------------
(* The dialog. *)

\* What was fetched is noted together with the mailbox it was fetched from.
FoldersInv == fetched = None \/ folders \in {fetched.box, None}

\* Folders the dialog takes to be fetched for its form are the folders of the
\* form's mailbox, or none, in whatever order fetches, edits and tests end
\* (useEmailAccountsController.ensureEmailAccountFoldersForForm).
THEOREM FoldersAlwaysTheForms == Spec => []FoldersAreTheForms
<1>1. ConsoleInit => FoldersInv
  BY DEF ConsoleInit, FoldersInv
<1>2. ASSUME ConsoleBase, FoldersInv, [Next]_vars
      PROVE  FoldersInv'
  <2>1. CASE UNCHANGED vars
    BY <1>2, <2>1 DEF vars, consoleVars, folderVars, FoldersInv
  <2>2. CASE DialogActs
    BY <1>2, <2>2, DialogFacts DEF FoldersInv
  <2>3. CASE Asks
    BY <1>2, <2>3 DEF Asks, FoldersInv
  <2>4. CASE Answered
    BY <1>2, <2>4 DEF Answered, FoldersInv
  <2>5. CASE Moves
    BY <1>2, <2>5 DEF Moves, FoldersInv
  <2>6. CASE Apart
    BY <1>2, <2>6 DEF Apart, FoldersInv
  <2> QED
    BY <1>2, <2>1, <2>2, <2>3, <2>4, <2>5, <2>6, StepKinds
<1>3. ASSUME ConsoleBase, FoldersInv
      PROVE  FoldersAreTheForms
  <2> SUFFICES ASSUME form # None, fetched = Key(form)
               PROVE  folders \in {form.box, None}
    BY DEF FoldersAreTheForms
  <2>1. form \in Forms
    BY <1>3 DEF ConsoleBase, ConsoleType
  <2>2. fetched \in FolderKeys /\ fetched.box = form.box
    BY <2>1 DEF Key, Forms, FolderKeys
  <2>3. fetched # None
    BY <2>2, ConsoleMailboxesAssumption
  <2> QED
    BY <1>3, <2>2, <2>3 DEF FoldersInv
<1> QED
  BY <1>1, <1>2, <1>3, ConsoleInitBase, ConsoleNextBase, PTL DEF Spec

\* A good result shown is that of the form's mailbox, or came late.
TestedInv ==
    /\ form # None /\ Validated => tested = form.box \/ late
    /\ SavesAreTested

LEMMA NextTested ==
  ASSUME ConsoleBase, TestedInv, [Next]_vars
  PROVE  TestedInv'
<1>0. ConsoleType
  BY DEF ConsoleBase
<1>1. CASE UNCHANGED vars
  BY <1>1 DEF vars, consoleVars, dialogVars, TestedInv, SavesAreTested, Validated
<1>2. CASE DialogActs
  <2>1. tested' = None /\ calls' = calls
    BY <1>2, DialogFacts
  <2> QED
    BY <2>1 DEF TestedInv, SavesAreTested, Validated
<1>3. CASE Asks
  <2>1. UNCHANGED <<form, tested, late>>
    BY <1>3 DEF Asks
  <2>2. CASE calls' = calls
    BY <2>1, <2>2 DEF TestedInv, SavesAreTested, Validated
  <2>3. ASSUME NEW c \in AllCalls, Makes(c), calls' = calls \cup {c}
        PROVE  TestedInv'
    <3>1. c.op = "save" /\ c.enabled => c.tested = c.box \/ c.late
      BY <2>3 DEF Makes, TestedInv
    <3> QED
      BY <2>1, <2>3, <3>1 DEF TestedInv, SavesAreTested, Validated
  <2> QED
    BY <1>3, <2>2, <2>3 DEF Asks
<1>4. CASE Answered
  <2>1. SavesAreTested'
    BY <1>4 DEF Answered, TestedInv, SavesAreTested
  <2>2. ASSUME form' # None, tested' \notin {None, "error"}
        PROVE  tested' = form'.box \/ late'
    <3>1. form' = form /\ form \in Forms
      BY <1>0, <1>4, <2>2 DEF Answered, ConsoleType
    <3>2. CASE UNCHANGED <<tested, late>>
      BY <2>2, <3>1, <3>2 DEF TestedInv, Validated
    <3>3. ASSUME NEW c \in calls, tested' = c.of.box, Key(form) = c.of
          PROVE  tested' = form.box
      BY <3>1, <3>3 DEF Key
    <3> QED
      BY <1>4, <2>2, <3>1, <3>2, <3>3 DEF Answered
  <2>3. form' # None /\ Validated' => tested' = form'.box \/ late'
    BY <2>2 DEF Validated
  <2> QED
    BY <2>1, <2>3 DEF TestedInv
<1>5. CASE Moves
  <2>1. PICK c \in calls, p \in Phases : calls' = (calls \ {c}) \cup {[c EXCEPT !.phase = p]}
    BY <1>5 DEF Moves
  <2>2. UNCHANGED <<form, tested, late>>
    BY <1>5 DEF Moves
  <2> DEFINE d == [c EXCEPT !.phase = p]
  <2>3. c \in AllCalls
    BY <1>0 DEF ConsoleType
  <2>4. /\ d.op = c.op
        /\ c \in SaveCalls => /\ d.box = c.box /\ d.enabled = c.enabled
                              /\ d.tested = c.tested /\ d.late = c.late
    BY <2>3, AdvanceFacts
  <2>5. calls' = (calls \ {c}) \cup {d}
    BY <2>1
  <2> HIDE DEF d
  <2>6. d.op = "save" /\ d.enabled => d.tested = d.box \/ d.late
    BY <2>3, <2>4, CallFacts DEF TestedInv, SavesAreTested
  <2> QED
    BY <2>2, <2>5, <2>6 DEF TestedInv, SavesAreTested, Validated
<1>6. CASE Apart
  BY <1>6 DEF Apart, TestedInv, SavesAreTested, Validated
<1> QED
  BY <1>1, <1>2, <1>3, <1>4, <1>5, <1>6, StepKinds

\* A source is saved enabled by the form only for the mailbox whose good test
\* the dialog shows, however edits, tests, saves and answers follow each other,
\* but for a test that was answered after its form had changed
\* (EmailAccountDialog.handleSaveSubmit).
THEOREM SavesAlwaysTested == Spec => []SavesAreTested
<1>1. ConsoleInit => TestedInv
  BY DEF ConsoleInit, TestedInv, SavesAreTested
<1>2. ConsoleBase /\ TestedInv /\ [Next]_vars => TestedInv'
  BY NextTested
<1>3. TestedInv => SavesAreTested
  BY DEF TestedInv
<1> QED
  BY <1>1, <1>2, <1>3, ConsoleInitBase, ConsoleNextBase, PTL DEF Spec

-----------------------------------------------------------------------------
(* The chart of the statistics (StatisticsChart). *)

\* The chart shows in the resolution that its range and the data it has keep.
ResolutionIsKept ==
    loaded # NoStats => resolution = Kept(resolution, range, loaded.keys, custom)

\* A resolution that is kept once is kept again.
LEMMA KeptStays ==
  ASSUME NEW w, NEW r, NEW keys, NEW span
  PROVE  Kept(Kept(w, r, keys, span), r, keys, span) = Kept(w, r, keys, span)
BY DEF Kept

\* So is the one a range starts with.
LEMMA OwnStays ==
  ASSUME NEW r, NEW keys, NEW span
  PROVE  Kept(Own(r, keys, span), r, keys, span) = Own(r, keys, span)
BY DEF Kept, Own

\* What a range keeps depends on whether its data came, and of a custom range on its span.
LEMMA KeptOfRange ==
  ASSUME NEW w, NEW r, NEW a, NEW b, NEW span, r = "custom" \/ r \in a \cap b
  PROVE  Kept(w, r, a, span) = Kept(w, r, b, span)
<1>1. Native(r, a, span) = Native(r, b, span)
  BY DEF Native
<1> QED
  BY <1>1 DEF Kept

\* A chart that is made shows in a resolution that is kept.
LEMMA MountedKeeps ==
  ASSUME NEW keys, Mounted(keys), loaded' # NoStats => loaded'.keys = keys
  PROVE  ResolutionIsKept'
BY KeptStays DEF Mounted, ResolutionIsKept

\* So does one that the user takes to another range.
LEMMA ShowRangeKeeps ==
  ASSUME ResolutionIsKept, NEW r, ShowRange(r), UNCHANGED <<loaded, custom>>
  PROVE  ResolutionIsKept'
BY OwnStays DEF ShowRange, ResolutionIsKept

LEMMA ResolutionStays ==
  ASSUME ResolutionIsKept, UNCHANGED <<loaded, range, resolution, custom>>
  PROVE  ResolutionIsKept'
BY DEF ResolutionIsKept

\* A load keeps the resolution, if it can.
LEMMA LoadKeeps ==
  ASSUME NEW keys, Load(keys)
  PROVE  ResolutionIsKept'
<1>1. loaded' # NoStats => loaded'.keys = keys
  BY DEF Load
<1>2. CASE loaded = NoStats
  BY <1>1, <1>2, MountedKeeps DEF Load
<1>3. CASE loaded # NoStats
  BY <1>1, <1>3, KeptStays DEF Load, ResolutionIsKept
<1> QED
  BY <1>2, <1>3

\* Every step keeps it.
LEMMA ChartKeeps ==
  ASSUME ResolutionIsKept, [StatisticsNext]_statsVars
  PROVE  ResolutionIsKept'
<1>1. CASE Remount
  BY <1>1, MountedKeeps DEF Remount
<1>2. CASE ShowAnomaly
  BY <1>2, ShowRangeKeeps DEF ShowAnomaly
<1>3. ASSUME NEW keys, Load(keys) PROVE ResolutionIsKept'
  BY <1>3, LoadKeeps
<1>4. ASSUME NEW r, SelectRange(r) PROVE ResolutionIsKept'
  BY <1>4, ShowRangeKeeps DEF SelectRange
<1>5. ASSUME NEW u, SelectResolution(u) PROVE ResolutionIsKept'
  BY <1>5 DEF SelectResolution, ResolutionIsKept, Kept
<1>6. CASE CustomRangeArrives
  BY <1>6, KeptStays, OwnStays DEF CustomRangeArrives, ResolutionIsKept
<1>7. CASE SignOut
  BY <1>7 DEF SignOut, ResolutionIsKept
<1>8. CASE HourPasses \/ OpenCustomRange \/ CloseCustomRange \/ CustomRangeFails
           \/ PulseEnds \/ ClearNotice \/ SignIn \/ UNCHANGED statsVars
           \/ \E span \in Spans : ApplyCustomRange(span)
  BY <1>8, ResolutionStays
  DEF HourPasses, OpenCustomRange, CloseCustomRange, CustomRangeFails, PulseEnds, ClearNotice,
      SignIn, ApplyCustomRange, statsVars, chartVars
<1> QED
  BY <1>1, <1>2, <1>3, <1>4, <1>5, <1>6, <1>7, <1>8 DEF StatisticsNext

\* A load leaves the range, and with its data the resolution, whatever the user,
\* the warning and other loads chose before (useUserStats, ImportTimelineChart).
THEOREM LoadsAlwaysKeepTheView == StatisticsSpec => LoadsKeepTheView
<1>1. StatisticsInit => ResolutionIsKept
  BY DEF StatisticsInit, ResolutionIsKept
<1>2. ResolutionIsKept /\ [StatisticsNext]_statsVars => ResolutionIsKept'
  BY ChartKeeps
<1>3. ASSUME ResolutionIsKept, loaded # NoStats, NEW keys \in SUBSET Presets, Load(keys)
      PROVE  /\ range' = range
             /\ range = "custom" \/ range \in loaded.keys \cap keys => resolution' = resolution
  <2>1. range' = range /\ resolution' = Kept(resolution, range, keys, custom)
    BY <1>3 DEF Load, KeepsRange
  <2>2. ASSUME range = "custom" \/ range \in loaded.keys \cap keys
        PROVE  Kept(resolution, range, keys, custom)
                   = Kept(resolution, range, loaded.keys, custom)
    BY <2>2, KeptOfRange
  <2> QED
    BY <1>3, <2>1, <2>2 DEF ResolutionIsKept
<1>4. ResolutionIsKept =>
          [<<range, resolution>>' # <<range, resolution>> /\ loaded # NoStats =>
              \A keys \in SUBSET Presets :
                  Load(keys) =>
                      /\ range' = range
                      /\ (range = "custom" \/ range \in loaded.keys \cap keys)
                             => resolution' = resolution]_statsVars
  BY <1>3
<1> QED
  BY <1>1, <1>2, <1>4, PTL DEF StatisticsSpec, LoadsKeepTheView

-----------------------------------------------------------------------------
(* The rows of the chart. *)

LEMMA UnitsAre ==
  /\ Len(Units) = 7
  /\ Units[1] = "hour" /\ Units[2] = "day" /\ Units[3] = "week" /\ Units[4] = "month"
  /\ Units[5] = "trimester" /\ Units[6] = "semester" /\ Units[7] = "year"
  /\ ToSet(Units) = {"hour", "day", "week", "month", "trimester", "semester", "year"}
<1>1. /\ Len(Units) = 7 /\ DOMAIN Units = 1..7
      /\ Units[1] = "hour" /\ Units[2] = "day" /\ Units[3] = "week" /\ Units[4] = "month"
      /\ Units[5] = "trimester" /\ Units[6] = "semester" /\ Units[7] = "year"
  BY DEF Units
<1>2. 1..7 = {1, 2, 3, 4, 5, 6, 7}
  OBVIOUS
<1> QED
  BY <1>1, <1>2 DEF ToSet

\* Units are ordered by their length.
LEMMA RankIs ==
  ASSUME NEW i \in 1..7
  PROVE  Rank(Units[i]) = i
<1>1. {j \in 1..Len(Units) : Units[j] = Units[i]} = {i}
  BY UnitsAre
<1>2. Min({i}) = i
  BY DEF Min
<1> QED
  BY <1>1, <1>2 DEF Rank, SelectInSeq

LEMMA RanksAre ==
  /\ Rank("hour") = 1 /\ Rank("day") = 2 /\ Rank("week") = 3 /\ Rank("month") = 4
  /\ \A u \in ToSet(Units) : Rank(u) \in 1..7 /\ Units[Rank(u)] = u
<1>1. /\ Rank("hour") = 1 /\ Rank("day") = 2 /\ Rank("week") = 3 /\ Rank("month") = 4
      /\ Rank("trimester") = 5 /\ Rank("semester") = 6 /\ Rank("year") = 7
  BY RankIs, UnitsAre
<1> QED
  BY <1>1, UnitsAre

LEMMA SmallestNumber ==
  ASSUME NEW T, T \subseteq Nat, T # {}
  PROVE  Min(T) \in T
<1>1. \E x \in T : \A y \in T : <<y, x>> \notin OpToRel(<, Nat)
  BY NatLessThanWellFounded, WFMin, Zenon
<1>2. \E x \in T : \A y \in T : ~(y < x)
  BY <1>1, Zenon DEF OpToRel
<1>3. \A x, y \in T : ~(y < x) => x <= y
  OBVIOUS
<1> QED
  BY <1>2, <1>3, Zenon DEF Min

\* The finest of some units is one of them.
LEMMA FinestIsOne ==
  ASSUME NEW units \in SUBSET ToSet(Units), units # {}
  PROVE  Finest(units) \in units
<1> DEFINE ranks == {Rank(u) : u \in units}
<1>1. ranks \subseteq Nat /\ ranks # {}
  BY RanksAre
<1>2. Min(ranks) \in ranks
  BY <1>1, SmallestNumber
<1>3. PICK u \in units : Min(ranks) = Rank(u)
  BY <1>2
<1> QED
  BY <1>3, RanksAre DEF Finest

\* The units of the data of each range.
LEMMA NativeIs ==
  ASSUME NEW r, NEW keys, NEW span
  PROVE  /\ Native(r, keys, span) \in {"hour", "day", "week", "month"}
         /\ r \in {"today", "yesterday"} => Native(r, keys, span) = "hour"
         /\ r = "pastWeek" => Native(r, keys, span) \in {"hour", "day"}
         /\ r = "pastMonth" => Native(r, keys, span) = "day"
         /\ r \in {"pastTrimester", "pastSemester", "pastYear"} =>
                Native(r, keys, span) \in {"day", "week"}
         /\ r = "custom" => Native(r, keys, span) \in {"hour", "day", "month"}
<1> DEFINE past == CASE r = "pastWeek" -> "hour" [] r = "pastMonth" -> "day" [] OTHER -> "week"
<1>1. /\ past \in {"hour", "day", "week"}
      /\ r = "pastWeek" => past = "hour"
      /\ r = "pastMonth" => past = "day"
      /\ r \in {"pastTrimester", "pastSemester", "pastYear"} => past = "week"
  BY Zenon
<1> HIDE DEF past
<1>2. Native(r, keys, span) =
          IF r \in {"today", "yesterday"} THEN "hour"
          ELSE IF r = "custom" THEN
              IF span = NoSpan THEN "day"
              ELSE IF span[2] - span[1] <= ByTheHour THEN "hour"
              ELSE IF span[2] - span[1] <= ByTheDay THEN "day" ELSE "month"
          ELSE IF r \notin keys THEN "day" ELSE past
  BY Zenon DEF Native, past
<1> QED
  BY <1>1, <1>2

\* What a preset range is shown in is its data's unit or a longer one; only
\* the hours of a week are shown by the day.
LEMMA PresetKept ==
  ASSUME NEW w, NEW r \in Presets, NEW keys, NEW span
  PROVE  LET native == Native(r, keys, span)
             shown == Kept(w, r, keys, span)
         IN  \/ shown = native
             \/ native = "hour" /\ shown = "day" /\ r = "pastWeek"
             \/ native = "day" /\ shown \in {"week", "month"}
             \/ native = "week" /\ shown = "month"
<1> DEFINE n == Native(r, keys, span)
<1>1. CASE r \in {"today", "yesterday"}
  <2>1. Available(r, n, span) = {"hour"} /\ Default(r, n, span) = "hour"
    BY <1>1, Zenon DEF Available, Default
  <2> QED
    BY <1>1, <2>1, NativeIs DEF Kept
<1>2. CASE r = "pastWeek"
  <2>1. /\ Available(r, n, span) = IF n = "hour" THEN {"hour", "day"} ELSE {"day"}
        /\ Default(r, n, span) = IF n = "hour" THEN "day" ELSE n
    BY <1>2, Zenon DEF Available, Default
  <2> QED
    BY <1>2, <2>1, NativeIs DEF Kept
<1>3. CASE r = "pastMonth"
  <2>1. /\ Available(r, n, span) = IF n = "month" THEN {"month"} ELSE {"day", "week"}
        /\ Default(r, n, span) = IF n = "month" THEN "month" ELSE "day"
    BY <1>3, Zenon DEF Available, Default
  <2> QED
    BY <1>3, <2>1, NativeIs DEF Kept
<1>4. CASE r \in {"pastTrimester", "pastSemester", "pastYear"}
  <2>1. /\ Available(r, n, span) = IF n = "month" THEN {"month"} ELSE {"week", "month"}
        /\ Default(r, n, span) = IF n = "month" THEN "month" ELSE "week"
    BY <1>4, Zenon DEF Available, Default
  <2> QED
    BY <1>4, <2>1, NativeIs DEF Kept
<1> QED
  BY <1>1, <1>2, <1>3, <1>4 DEF Presets

\* What a custom range is shown in is its data's unit or no shorter one.
LEMMA CustomKept ==
  ASSUME NEW w, NEW keys, NEW span
  PROVE  LET native == Native("custom", keys, span)
             shown == Kept(w, "custom", keys, span)
         IN  \/ shown = native
             \/ shown \in ToSet(Units) /\ Rank(shown) >= Rank(native)
<1> DEFINE n == Native("custom", keys, span)
           units == CustomResolutions(span, n)
<1>1. units \subseteq {u \in ToSet(Units) : Rank(u) >= Rank(n)}
  BY UnitsAre DEF CustomResolutions, AtOrAbove
<1>2. /\ Available("custom", n, span) = units
      /\ Default("custom", n, span) = IF units = {} THEN n ELSE Finest(units)
  BY Zenon DEF Available, Default
<1> HIDE DEF units
<1>3. units # {} => Finest(units) \in units
  BY <1>1, FinestIsOne
<1>4. Kept(w, "custom", keys, span) \in units \cup {n}
  BY <1>2, <1>3 DEF Kept
<1> QED
  BY <1>1, <1>4

LEMMA WholeTimes ==
  ASSUME NEW n \in Int, NEW d \in Nat \ {0}
  PROVE  (n * d) \div d = n
OBVIOUS

\* A point begins in the bucket of its own unit that it is.
LEMMA OwnBucket ==
  ASSUME NEW unit \in ToSet(Units), NEW n \in Int
  PROVE  Bucket(unit, FirstHour([unit |-> unit, n |-> n])) = [unit |-> unit, n |-> n]
<1>1. HoursIn[unit] \in Nat \ {0}
  BY StatisticsChartAssumption
<1>2. FirstHour([unit |-> unit, n |-> n]) = n * HoursIn[unit]
  BY DEF FirstHour
<1> QED
  BY <1>1, <1>2, WholeTimes DEF Bucket

\* The server's points are buckets of one unit.
LEMMA PointsAre ==
  ASSUME NEW r, NEW keys \in SUBSET Presets, NEW at, NEW span,
         NEW b \in DOMAIN Points(r, keys, at, span)
  PROVE  /\ r \in Presets \cup {"custom"}
         /\ \E n \in Int : b = [unit |-> Native(r, keys, span), n |-> n]
<1> DEFINE unit == Native(r, keys, span)
           window == IF r = "custom" \/ r \in keys THEN Window(r, at, span) ELSE {}
<1>1. b \in {Bucket(unit, h) : h \in window}
  BY DEF Points
<1>2. r \in Presets \cup {"custom"} /\ window = Window(r, at, span)
  BY <1>1
<1>3. Window(r, at, span) \subseteq Int
  <2> DEFINE upTo(len) == (IF at - len < -1 THEN 0 ELSE at - len + 1)..at
             yesterday == at \div HoursIn["day"] - 1
  <2>1. \A len : upTo(len) \subseteq Int
    OBVIOUS
  <2>2. {h \in Hours : h \div HoursIn["day"] = yesterday} \subseteq Int
    BY DEF Hours
  <2>3. (IF span = NoSpan THEN {} ELSE span[1]..span[2]) \subseteq Int
    OBVIOUS
  <2>4. \/ \E len : Window(r, at, span) = upTo(len)
        \/ Window(r, at, span) = {h \in Hours : h \div HoursIn["day"] = yesterday}
        \/ Window(r, at, span) = (IF span = NoSpan THEN {} ELSE span[1]..span[2])
    BY <1>2, Zenon DEF Window, Presets
  <2> QED
    BY <2>1, <2>2, <2>3, <2>4
<1>4. PICK h \in Int : b = Bucket(unit, h)
  BY <1>1, <1>2, <1>3
<1>5. unit \in ToSet(Units)
  BY NativeIs, UnitsAre
<1>6. HoursIn[unit] \in Nat \ {0}
  BY <1>5, StatisticsChartAssumption
<1>7. h \div HoursIn[unit] \in Int
  BY <1>6
<1> QED
  BY <1>2, <1>4, <1>7 DEF Bucket

\* Adding up no finer than the data is adding up by the bucket a point begins in.
LEMMA KeyIsBucket ==
  ASSUME NEW native \in ToSet(Units), NEW shown, NEW r, NEW n \in Int,
         \/ shown = native
         \/ /\ shown \in ToSet(Units) /\ Rank(shown) >= Rank(native)
            /\ ~(native = "hour" /\ r \in {"custom", "yesterday"})
  PROVE  LET b == [unit |-> native, n |-> n]
         IN  AggregateKey(b, shown, r) = Bucket(shown, FirstHour(b))
<1> DEFINE b == [unit |-> native, n |-> n]
<1>1. b.unit = native
  OBVIOUS
<1>2. CASE shown = native
  BY <1>1, <1>2, OwnBucket DEF AggregateKey
<1>3. CASE shown # native
  <2>1. ~(Rank(shown) < Rank(native))
    BY <1>3, RanksAre
  <2> HIDE DEF b
  <2> QED
    BY <1>1, <1>3, <2>1 DEF AggregateKey
<1> QED
  BY <1>2, <1>3

\* A row is its points.
LEMMA RowsOfPoints ==
  ASSUME NEW points, NEW target, NEW r, NEW k \in DOMAIN Rows(points, target, r),
         \A b \in DOMAIN points : AggregateKey(b, target, r) = Bucket(target, FirstHour(b))
  PROVE  /\ k.unit = target
         /\ Rows(points, target, r)[k] =
                Total(points, {b \in DOMAIN points : Bucket(target, FirstHour(b)) = k})
<1> DEFINE keys == {AggregateKey(b, target, r) : b \in DOMAIN points}
           of(key) == {b \in DOMAIN points : AggregateKey(b, target, r) = key}
<1>1. Rows(points, target, r) = [key \in keys |-> RowValue(points, [b \in of(key) |-> key])]
  BY DEF Rows
<1>2. k \in keys
  BY <1>1
<1>3. Rows(points, target, r)[k] = Total(points, of(k))
  BY <1>1, <1>2 DEF RowValue
<1>4. of(k) = {b \in DOMAIN points : Bucket(target, FirstHour(b)) = k}
  OBVIOUS
<1>5. k.unit = target
  BY <1>2 DEF Bucket
<1> QED
  BY <1>3, <1>4, <1>5

\* The ranges whose data the page has.
KeysArePresets == loaded.keys \subseteq Presets

ChartInv == ResolutionIsKept /\ KeysArePresets

\* In a resolution that is kept, rows are their points.
LEMMA RowsHold == ChartInv => RowsAreTheirPoints
<1> SUFFICES ASSUME ChartInv, loaded # NoStats,
                    ~(range = "custom" /\ resolution # "hour"
                          /\ Native(range, loaded.keys, custom) = "hour"),
                    NEW k \in DOMAIN ShownRows
             PROVE  /\ k.unit = resolution
                    /\ ShownRows[k] = Total(ShownPoints,
                           {b \in DOMAIN ShownPoints : Bucket(resolution, FirstHour(b)) = k})
  BY DEF RowsAreTheirPoints
<1> DEFINE native == Native(range, loaded.keys, custom)
<1>1. native \in ToSet(Units)
  BY NativeIs, UnitsAre
<1>2. resolution = Kept(resolution, range, loaded.keys, custom)
  BY DEF ChartInv, ResolutionIsKept
<1>3. ASSUME NEW b \in DOMAIN ShownPoints
      PROVE  AggregateKey(b, resolution, range) = Bucket(resolution, FirstHour(b))
  <2>1. range \in Presets \cup {"custom"}
    BY <1>3, PointsAre DEF ChartInv, KeysArePresets, ShownPoints
  <2>2. PICK n \in Int : b = [unit |-> native, n |-> n]
    BY <1>3, PointsAre DEF ChartInv, KeysArePresets, ShownPoints
  <2>3. \/ resolution = native
        \/ /\ resolution \in ToSet(Units) /\ Rank(resolution) >= Rank(native)
           /\ ~(native = "hour" /\ range \in {"custom", "yesterday"})
    <3>1. CASE range = "custom"
      BY <1>2, <3>1, CustomKept
    <3>2. CASE range \in Presets
      <4>1. \/ resolution = native
            \/ native = "hour" /\ resolution = "day" /\ range = "pastWeek"
            \/ native = "day" /\ resolution \in {"week", "month"}
            \/ native = "week" /\ resolution = "month"
        BY <1>2, <3>2, PresetKept
      <4> QED
        BY <4>1, RanksAre, UnitsAre
    <3> QED
      BY <2>1, <3>1, <3>2
  <2> QED
    BY <1>1, <2>2, <2>3, KeyIsBucket
<1> QED
  BY <1>3, RowsOfPoints DEF ShownRows

\* The rows of the chart are the server's points, added up by the resolution that
\* is shown (aggregateChartRows, aggregateBucketKey), whatever range, resolution,
\* refresh and warning came before.
THEOREM RowsAreAlwaysTheirPoints == StatisticsSpec => []RowsAreTheirPoints
<1>1. StatisticsInit => ChartInv
  BY DEF StatisticsInit, ChartInv, ResolutionIsKept, KeysArePresets, NoStats
<1>2. ASSUME KeysArePresets, [StatisticsNext]_statsVars
      PROVE  KeysArePresets'
  <2>1. ASSUME NEW keys \in {Presets, Presets \ {"pastWeek"}, {"today", "pastMonth"}}, Load(keys)
        PROVE  KeysArePresets'
    BY <2>1 DEF Load, KeysArePresets, Presets
  <2>2. CASE SignOut
    BY <2>2 DEF SignOut, KeysArePresets, NoStats
  <2>3. CASE UNCHANGED loaded
    BY <1>2, <2>3 DEF KeysArePresets
  <2> QED
    BY <1>2, <2>1, <2>2, <2>3
    DEF StatisticsNext, HourPasses, Remount, ShowAnomaly, SelectRange, SelectResolution,
        OpenCustomRange, CloseCustomRange, CustomRangeArrives, CustomRangeFails, PulseEnds,
        ClearNotice, SignIn, ApplyCustomRange, statsVars
<1>3. ChartInv /\ [StatisticsNext]_statsVars => ChartInv'
  BY <1>2, ChartKeeps DEF ChartInv
<1> QED
  BY <1>1, <1>3, RowsHold, PTL DEF StatisticsSpec

-----------------------------------------------------------------------------
(* The workspace: the notices of users who share a browser. *)

\* A list of notices has one of a group at most.
Alone(h) ==
    /\ h \in Seq(Notice)
    /\ \A i, j \in DOMAIN h : h[i].group = h[j].group /\ h[i].group # NoGroup => i = j
Owned(h, us) == \A i \in DOMAIN h : h[i].owner \in us
Fit(h, us) == Alone(h) /\ Owned(h, us)

\* Whose notices a user's page and record may hold.
Holders(u) == IF u \in mixed THEN Someone ELSE {u}

\* A record of preferences, with nobody else's notices.
Shaped(p) ==
    p = [order |-> p.order, folded |-> p.folded, zone |-> p.zone, keep |-> p.keep,
         edit |-> p.edit, history |-> p.history]
Record(o, f, z, k, e, h) ==
    [order |-> o, folded |-> f, zone |-> z, keep |-> k, edit |-> e, history |-> h]
Private(p, us) == Shaped(p) /\ Fit(p.history, us)

\* A call brings the record of the one who made it; one that may still be
\* served was made by the user of now, or for one who is mixed.
CallRecord(k) ==
    k = [kind |-> k.kind, user |-> k.user, login |-> k.login, stage |-> k.stage,
         body |-> k.body, skip |-> k.skip]
WholeCall(kind, u, l, s, b, skip) ==
    [kind |-> kind, user |-> u, login |-> l, stage |-> s, body |-> b, skip |-> skip]
ShapedCall(k) == CallRecord(k) /\ k.login \in 0 .. logins
Lives(k) == k.kind # "none" /\ k.login = logins /\ session # Nobody
CallIsOwn(k) ==
    /\ k.kind # "none" => k.user \in Users /\ Private(k.body, Holders(k.user))
    /\ Lives(k) => k.user = session \/ (k.kind = "save" /\ session \in mixed)

PageIsOwn ==
    /\ session \in Someone /\ mixed \subseteq Someone
    /\ session \notin mixed =>
         /\ loadedFor \in {session, Nobody}
         /\ session = Nobody => prefs.history = <<>>
    /\ Private(prefs, Holders(session))
    /\ Alone(notices) /\ (loadedFor # Nobody => Owned(notices, Holders(session)))
    /\ logins \in Nat /\ raised \in Nat

RecordsAreOwn ==
    /\ stored = [u \in Users |-> stored[u]]
    /\ \A u \in Users : Private(stored[u], Holders(u))

CallsAreOwn ==
    /\ wire = [c \in Slots |-> wire[c]]
    /\ \A c \in Slots : ShapedCall(wire[c]) /\ CallIsOwn(wire[c])

WorkspaceInv == PageIsOwn /\ RecordsAreOwn /\ CallsAreOwn

-----------------------------------------------------------------------------
(* Lists of notices. *)

\* A list without its i-th notice.
LEMMA WithoutIs ==
  ASSUME NEW S, NEW h \in Seq(S), NEW i \in 1 .. Len(h)
  PROVE  /\ Without(h, i) \in Seq(S)
         /\ Len(Without(h, i)) = Len(h) - 1
         /\ \A j \in 1 .. Len(h) - 1 : Without(h, i)[j] = IF j < i THEN h[j] ELSE h[j + 1]
<1>1. /\ SubSeq(h, 1, i - 1) \in Seq(S) /\ Len(SubSeq(h, 1, i - 1)) = i - 1
      /\ \A j \in 1 .. i - 1 : SubSeq(h, 1, i - 1)[j] = h[j]
  OBVIOUS
<1>2. /\ SubSeq(h, i + 1, Len(h)) \in Seq(S) /\ Len(SubSeq(h, i + 1, Len(h))) = Len(h) - i
      /\ \A j \in 1 .. Len(h) - i : SubSeq(h, i + 1, Len(h))[j] = h[j + i]
  OBVIOUS
<1> DEFINE a == SubSeq(h, 1, i - 1)
           b == SubSeq(h, i + 1, Len(h))
<1> HIDE DEF a, b
<1>3. /\ a \in Seq(S) /\ Len(a) = i - 1 /\ \A j \in 1 .. i - 1 : a[j] = h[j]
      /\ b \in Seq(S) /\ Len(b) = Len(h) - i /\ \A j \in 1 .. Len(h) - i : b[j] = h[j + i]
  BY <1>1, <1>2 DEF a, b
<1>4. a \o b \in Seq(S) /\ Len(a \o b) = Len(h) - 1
  <2>1. a \o b \in Seq(S) /\ Len(a \o b) = Len(a) + Len(b)
    BY <1>3, ConcatProperties
  <2>2. Len(h) \in Int /\ i \in Int /\ (i - 1) + (Len(h) - i) = Len(h) - 1
    OBVIOUS
  <2> QED
    BY <1>3, <2>1, <2>2
<1>5. ASSUME NEW j \in 1 .. Len(h) - 1
      PROVE  (a \o b)[j] = IF j < i THEN h[j] ELSE h[j + 1]
  <2>1. CASE j < i
    BY <1>3, <2>1
  <2>2. CASE ~(j < i)
    <3>1. j - (i - 1) \in 1 .. Len(h) - i /\ j - (i - 1) + i = j + 1 /\ Len(h) \in Nat
      BY <2>2
    <3>2. (a \o b)[j] = b[j - (i - 1)]
      BY <1>3, <2>2
    <3> QED
      BY <1>3, <2>2, <3>1, <3>2
  <2> QED
    BY <2>1, <2>2
<1>6. Without(h, i) = a \o b
  BY DEF Without, a, b
<1> QED
  BY <1>4, <1>5, <1>6

\* It has the other notices, and none of that notice's group.
LEMMA WithoutFits ==
  ASSUME NEW h, Alone(h), NEW i \in DOMAIN h
  PROVE  /\ Alone(Without(h, i))
         /\ \A u : Owned(h, u) => Owned(Without(h, i), u)
         /\ h[i].group # NoGroup =>
              \A j \in DOMAIN Without(h, i) : Without(h, i)[j].group # h[i].group
<1> DEFINE w == Without(h, i)
<1>1. h \in Seq(Notice) /\ i \in 1 .. Len(h) /\ DOMAIN h = 1 .. Len(h) /\ Len(h) \in Nat
  BY DEF Alone
<1>2. w \in Seq(Notice) /\ Len(w) = Len(h) - 1 /\ DOMAIN w = 1 .. Len(h) - 1
  <2>1. w \in Seq(Notice) /\ Len(w) = Len(h) - 1
    BY <1>1, WithoutIs, Zenon
  <2> QED
    BY <2>1
<1>3. ASSUME NEW j \in DOMAIN w
      PROVE  \E k \in DOMAIN h \ {i} : w[j] = h[k] /\ ((j < i /\ k = j) \/ (j >= i /\ k = j + 1))
  <2>1. w[j] = IF j < i THEN h[j] ELSE h[j + 1]
    BY <1>1, <1>2, WithoutIs
  <2>2. CASE j < i
    BY <1>1, <1>2, <2>1, <2>2
  <2>3. CASE ~(j < i)
    <3>1. j + 1 \in DOMAIN h \ {i} /\ j >= i
      BY <1>1, <1>2, <2>3
    <3> QED
      BY <2>1, <2>3, <3>1
  <2> QED
    BY <2>2, <2>3
<1> HIDE DEF w
<1>4. ASSUME NEW j \in DOMAIN w, NEW k \in DOMAIN w,
             w[j].group = w[k].group, w[j].group # NoGroup
      PROVE  j = k
  <2>1. PICK m \in DOMAIN h \ {i} : w[j] = h[m] /\ ((j < i /\ m = j) \/ (j >= i /\ m = j + 1))
    BY <1>3
  <2>2. PICK n \in DOMAIN h \ {i} : w[k] = h[n] /\ ((k < i /\ n = k) \/ (k >= i /\ n = k + 1))
    BY <1>3
  <2>3. m = n
    BY <1>4, <2>1, <2>2 DEF Alone
  <2> QED
    BY <1>1, <1>2, <2>1, <2>2, <2>3
<1>5. \A u : Owned(h, u) => Owned(w, u)
  BY <1>3 DEF Owned
<1>6. h[i].group # NoGroup => \A j \in DOMAIN w : w[j].group # h[i].group
  BY <1>3 DEF Alone
<1> QED
  BY <1>2, <1>4, <1>5, <1>6 DEF w, Alone

\* A new notice whose group is not in the list.
LEMMA AppendFits ==
  ASSUME NEW h, Alone(h), NEW n \in Notice,
         n.group = NoGroup \/ \A i \in DOMAIN h : h[i].group # n.group
  PROVE  /\ Alone(Append(h, n))
         /\ \A u : Owned(h, u) /\ n.owner \in u => Owned(Append(h, n), u)
<1>1. h \in Seq(Notice) /\ DOMAIN h = 1 .. Len(h) /\ Len(h) \in Nat
  BY DEF Alone
<1>2. /\ Append(h, n) \in Seq(Notice) /\ DOMAIN Append(h, n) = 1 .. Len(h) + 1
      /\ \A i \in 1 .. Len(h) : Append(h, n)[i] = h[i]
      /\ Append(h, n)[Len(h) + 1] = n
  BY <1>1
<1>3. \A i \in 1 .. Len(h) + 1 : i \in 1 .. Len(h) \/ i = Len(h) + 1
  BY <1>1
<1>4. \A i, j \in DOMAIN Append(h, n) :
        Append(h, n)[i].group = Append(h, n)[j].group /\ Append(h, n)[i].group # NoGroup => i = j
  BY <1>1, <1>2, <1>3 DEF Alone
<1> QED
  BY <1>1, <1>2, <1>3, <1>4 DEF Alone, Owned

\* The newest of a list.
LEMMA NewestFits ==
  ASSUME NEW h, Alone(h)
  PROVE  Alone(Newest(h)) /\ \A u : Owned(h, u) => Owned(Newest(h), u)
<1>1. h \in Seq(Notice) /\ DOMAIN h = 1 .. Len(h) /\ Len(h) \in Nat /\ MaxHistory \in Nat \ {0}
  BY BoundsAssumption DEF Alone
<1>2. CASE Len(h) <= MaxHistory
  BY <1>2 DEF Newest
<1>3. CASE Len(h) > MaxHistory
  <2> DEFINE w == Newest(h)
             d == Len(h) - MaxHistory
  <2>1. w = SubSeq(h, d + 1, Len(h)) /\ d \in Nat
    BY <1>1, <1>3 DEF Newest
  <2>2. /\ w \in Seq(Notice) /\ DOMAIN w = 1 .. MaxHistory
        /\ \A i \in 1 .. MaxHistory : w[i] = h[i + d] /\ i + d \in DOMAIN h
    BY <1>1, <1>3, <2>1
  <2> HIDE DEF w
  <2>3. \A i, j \in DOMAIN w : w[i].group = w[j].group /\ w[i].group # NoGroup => i = j
    <3> SUFFICES ASSUME NEW i \in DOMAIN w, NEW j \in DOMAIN w,
                        w[i].group = w[j].group, w[i].group # NoGroup
                 PROVE  i = j
      OBVIOUS
    <3>1. i + d \in DOMAIN h /\ j + d \in DOMAIN h /\ w[i] = h[i + d] /\ w[j] = h[j + d]
      BY <2>2
    <3>2. i + d = j + d
      BY <3>1 DEF Alone
    <3>3. i \in Int /\ j \in Int /\ d \in Int
      BY <1>1, <2>2
    <3> QED
      BY <3>2, <3>3
  <2>4. \A u : Owned(h, u) => Owned(w, u)
    BY <2>2 DEF Owned
  <2> QED
    BY <2>2, <2>3, <2>4 DEF w, Alone
<1> QED
  BY <1>1, <1>2, <1>3

\* A notice is raised.
LEMMA NoticeFits ==
  ASSUME NEW h, Alone(h), NEW g \in {Group, NoGroup}, NEW u \in Someone, NEW id \in Nat
  PROVE  /\ Alone(WithNotice(h, g, u, id))
         /\ \A us : Owned(h, us) /\ u \in us => Owned(WithNotice(h, g, u, id), us)
<1> DEFINE alike == {i \in DOMAIN h : Alike(h[i], g)}
           at == CHOOSE i \in alike : TRUE
           left == IF alike = {} THEN h ELSE Without(h, at)
           count == IF Grouping /\ alike # {} THEN h[at].count + 1 ELSE 1
           n == [id |-> id, owner |-> u, group |-> g, count |-> count, floats |-> TRUE]
<1>1. alike # {} => at \in DOMAIN h /\ Alike(h[at], g)
  OBVIOUS
<1>2. \A i \in DOMAIN h : h[i] \in Notice
  BY DEF Alone
<1>3. count \in Nat
  BY <1>1, <1>2 DEF Notice
<1> HIDE DEF count
<1>4. n \in Notice /\ n.group = g /\ n.owner = u
  BY <1>3 DEF Notice
<1> HIDE DEF n
<1>5. /\ Alone(left) /\ (\A us : Owned(h, us) => Owned(left, us))
      /\ g = NoGroup \/ \A i \in DOMAIN left : left[i].group # g
  <2>1. CASE alike = {}
    BY <2>1 DEF Alike
  <2>2. CASE alike # {}
    BY <1>1, <2>2, WithoutFits DEF Alike
  <2> QED
    BY <2>1, <2>2
<1> HIDE DEF left
<1>6. /\ Alone(Append(left, n))
      /\ \A us : Owned(left, us) /\ u \in us => Owned(Append(left, n), us)
  BY <1>4, <1>5, AppendFits
<1>7. WithNotice(h, g, u, id) = Newest(Append(left, n))
  BY DEF WithNotice, left, n, count
<1> QED
  BY <1>5, <1>6, <1>7, NewestFits

\* The server's view of a list, and one whose notice no longer floats.
LEMMA ViewsFit ==
  ASSUME NEW h, Alone(h)
  PROVE  /\ LET w == [i \in DOMAIN h |-> [h[i] EXCEPT !.count = 1]]
            IN  Alone(w) /\ \A u : Owned(h, u) => Owned(w, u)
         /\ \A k \in DOMAIN h :
              LET w == [h EXCEPT ![k].floats = FALSE]
              IN  Alone(w) /\ \A u : Owned(h, u) => Owned(w, u)
<1>1. h \in Seq(Notice) /\ DOMAIN h = 1 .. Len(h) /\ \A i \in DOMAIN h : h[i] \in Notice
  BY DEF Alone
<1>2. ASSUME NEW n \in Notice
      PROVE  /\ [n EXCEPT !.count = 1] \in Notice /\ [n EXCEPT !.floats = FALSE] \in Notice
             /\ LET c == [n EXCEPT !.count = 1] IN c.group = n.group /\ c.owner = n.owner
             /\ LET c == [n EXCEPT !.floats = FALSE] IN c.group = n.group /\ c.owner = n.owner
  BY DEF Notice
<1>3. ASSUME NEW w, w = [i \in DOMAIN h |-> w[i]],
             \A i \in DOMAIN h : w[i] \in Notice /\ w[i].group = h[i].group /\ w[i].owner = h[i].owner
      PROVE  Alone(w) /\ \A u : Owned(h, u) => Owned(w, u)
  <2>1. w \in Seq(Notice) /\ DOMAIN w = DOMAIN h
    BY <1>1, <1>3
  <2> QED
    BY <1>3, <2>1 DEF Alone, Owned
<1>4. LET w == [i \in DOMAIN h |-> [h[i] EXCEPT !.count = 1]]
      IN  Alone(w) /\ \A u : Owned(h, u) => Owned(w, u)
  BY <1>1, <1>2, <1>3
<1>5. ASSUME NEW k \in DOMAIN h
      PROVE  LET w == [h EXCEPT ![k].floats = FALSE]
             IN  Alone(w) /\ \A u : Owned(h, u) => Owned(w, u)
  BY <1>1, <1>2, <1>3
<1> QED
  BY <1>4, <1>5

-----------------------------------------------------------------------------
(* Records of preferences. *)

\* A record with one entry changed is a record still, and so is one with two.
LEMMA Changed ==
  ASSUME NEW p, Shaped(p), NEW v
  PROVE  /\ LET q == [p EXCEPT !.order = v] IN Shaped(q) /\ q.history = p.history
         /\ LET q == [p EXCEPT !.folded = v] IN Shaped(q) /\ q.history = p.history
         /\ LET q == [p EXCEPT !.zone = v] IN Shaped(q) /\ q.history = p.history
         /\ LET q == [p EXCEPT !.keep = v] IN Shaped(q) /\ q.history = p.history
         /\ LET q == [p EXCEPT !.edit = v] IN Shaped(q) /\ q.history = p.history
         /\ LET q == [p EXCEPT !.history = v] IN Shaped(q) /\ q.history = v
<1>1. PICK o, f, z, k, e, h : p = Record(o, f, z, k, e, h)
  BY DEF Shaped, Record
<1>2. [p EXCEPT !.order = v] = Record(v, f, z, k, e, h)
  BY <1>1 DEF Record
<1>3. [p EXCEPT !.folded = v] = Record(o, v, z, k, e, h)
  BY <1>1 DEF Record
<1>4. [p EXCEPT !.zone = v] = Record(o, f, v, k, e, h)
  BY <1>1 DEF Record
<1>5. [p EXCEPT !.keep = v] = Record(o, f, z, v, e, h)
  BY <1>1 DEF Record
<1>6. [p EXCEPT !.edit = v] = Record(o, f, z, k, v, h)
  BY <1>1 DEF Record
<1>7. [p EXCEPT !.history = v] = Record(o, f, z, k, e, v)
  BY <1>1 DEF Record
<1>8. \A o1, f1, z1, k1, e1, h1 :
        LET q == Record(o1, f1, z1, k1, e1, h1) IN Shaped(q) /\ q.history = h1
  BY DEF Shaped, Record
<1> QED
  BY <1>1, <1>2, <1>3, <1>4, <1>5, <1>6, <1>7, <1>8

\* Whatever a user changes, the notices in the record are still the user's.
LEMMA OwnChanged ==
  ASSUME NEW u, NEW p, Private(p, u), NEW v, NEW w
  PROVE  /\ Private([p EXCEPT !.order = v, !.edit = w], u)
         /\ Private([p EXCEPT !.folded = v], u) /\ Private([p EXCEPT !.zone = v], u)
         /\ Private([p EXCEPT !.keep = v], u) /\ Private([p EXCEPT !.edit = v], u)
         /\ Private([p EXCEPT !.keep = v, !.zone = w], u)
         /\ Private([p EXCEPT !.order = v, !.folded = w], u)
         /\ Private(Normal(p), u)
         /\ Private([Normal(p) EXCEPT !.edit = v], u)
<1>1. ASSUME NEW q, Private(q, u), NEW x
      PROVE  /\ Private([q EXCEPT !.order = x], u) /\ Private([q EXCEPT !.folded = x], u)
             /\ Private([q EXCEPT !.zone = x], u) /\ Private([q EXCEPT !.keep = x], u)
             /\ Private([q EXCEPT !.edit = x], u)
  BY <1>1, Changed DEF Private
<1>2. /\ [p EXCEPT !.order = v, !.edit = w] = [[p EXCEPT !.order = v] EXCEPT !.edit = w]
      /\ [p EXCEPT !.keep = v, !.zone = w] = [[p EXCEPT !.keep = v] EXCEPT !.zone = w]
      /\ [p EXCEPT !.order = v, !.folded = w] = [[p EXCEPT !.order = v] EXCEPT !.folded = w]
      /\ [p EXCEPT !.folded = FALSE, !.edit = FALSE]
           = [[p EXCEPT !.folded = FALSE] EXCEPT !.edit = FALSE]
  OBVIOUS
<1>3. Private(Normal(p), u)
  BY <1>1, <1>2 DEF Normal
<1> QED
  BY <1>1, <1>2, <1>3

\* So are they when the layout is put back.
LEMMA OwnLayout ==
  ASSUME NEW u, NEW p, Private(p, u), NEW s
  PROVE  Private(ApplyLayout(p, s), u)
BY OwnChanged DEF ApplyLayout

\* The server's record, and the record with another list of the user's notices.
LEMMA OwnServed ==
  ASSUME NEW u, NEW p, Private(p, u)
  PROVE  /\ Private(ServerRecord(p), u)
         /\ \A h : Fit(h, u) => Private([p EXCEPT !.history = h], u)
<1>1. ASSUME NEW h, Fit(h, u)
      PROVE  Private([p EXCEPT !.history = h], u)
  BY <1>1, Changed DEF Private
<1>2. Fit([i \in DOMAIN p.history |-> [p.history[i] EXCEPT !.count = 1]], u)
  BY ViewsFit DEF Private, Fit
<1> QED
  BY <1>1, <1>2 DEF ServerRecord

\* The page starts with nobody's notices.
LEMMA OwnDefaults ==
  ASSUME NEW u
  PROVE  Private(Defaults, u) /\ Fit(<<>>, u) /\ Defaults.history = <<>>
<1>1. Fit(<<>>, u)
  BY DEF Fit, Alone, Owned
<1>2. Shaped(Defaults) /\ Defaults.history = <<>>
  BY DEF Shaped, Defaults
<1> QED
  BY <1>1, <1>2 DEF Private

-----------------------------------------------------------------------------
(* Calls. *)

\* What a call is made of.
LEMMA CallsAre ==
  /\ \A kind, p, skip :
       LET k == Sent(kind, p, skip)
       IN  /\ CallRecord(k) /\ k.kind = kind /\ k.user = session /\ k.login = logins
           /\ k.body = p /\ k.stage = "sent"
  /\ \A u, skip :
       LET k == FirstLoad(u, skip)
       IN  /\ CallRecord(k) /\ k.kind = "load" /\ k.user = u /\ k.login = logins + 1
           /\ k.body = Defaults /\ k.stage = "sent"
  /\ CallRecord(NoCall) /\ NoCall.kind = "none" /\ NoCall.login = 0 /\ NoCall.stage = "sent"
<1>1. ASSUME NEW kind, NEW u, NEW l, NEW p, NEW skip
      PROVE  LET k == Made(kind, u, l, p, skip)
             IN  /\ CallRecord(k) /\ k.kind = kind /\ k.user = u /\ k.login = l
                 /\ k.body = p /\ k.stage = "sent"
  BY DEF CallRecord, Made
<1>2. CallRecord(NoCall) /\ NoCall.kind = "none" /\ NoCall.login = 0 /\ NoCall.stage = "sent"
  BY DEF CallRecord, NoCall
<1> QED
  BY <1>1, <1>2 DEF Sent, FirstLoad

\* The user of now may raise notices of its own, and whoever is mixed any.
LEMMA OwnIs ==
  ASSUME session \in Someone
  PROVE  session \in Holders(session) /\ (session \in mixed => Holders(session) = Someone)
BY DEF Holders

\* A notice is somebody's or nobody's.
LEMMA ListsAre ==
  ASSUME NEW h, Alone(h)
  PROVE  Owned(h, Someone)
<1>1. \A i \in DOMAIN h : h[i] \in Notice
  BY DEF Alone
<1> QED
  BY <1>1 DEF Owned, Notice

\* Whose notices those are makes no difference to one who is mixed.
LEMMA AnyonesFit ==
  ASSUME NEW p, NEW us, Private(p, us)
  PROVE  Private(p, Someone)
BY ListsAre DEF Private, Fit

\* One call of a session that goes on is sent, served or over.
LEMMA CallChanges ==
  ASSUME WorkspaceInv, NEW c \in Slots, NEW k, wire' = [wire EXCEPT ![c] = k],
         ShapedCall(k), CallIsOwn(k), UNCHANGED <<session, logins, mixed>>
  PROVE  CallsAreOwn'
<1>1. wire' = [d \in Slots |-> IF d = c THEN k ELSE wire[d]]
  BY DEF WorkspaceInv, CallsAreOwn
<1>2. wire' = [d \in Slots |-> wire'[d]]
  BY <1>1
<1>3. \A d \in Slots : ShapedCall(wire'[d]) /\ CallIsOwn(wire'[d])
  BY <1>1 DEF WorkspaceInv, CallsAreOwn
<1> QED
  BY <1>2, <1>3 DEF CallsAreOwn, ShapedCall, CallIsOwn, Lives, Holders

\* A call that is over is nobody's.
LEMMA CallEnds ==
  ASSUME WorkspaceInv, NEW c \in Slots, Ends(c), UNCHANGED <<session, logins, mixed>>
  PROVE  CallsAreOwn'
<1>1. ShapedCall(NoCall) /\ CallIsOwn(NoCall)
  BY CallsAre DEF ShapedCall, CallIsOwn, Lives, Holders, WorkspaceInv, PageIsOwn
<1> QED
  BY <1>1, CallChanges DEF Ends

\* The page saves, or loads, in a session.
LEMMA CallLeaves ==
  ASSUME WorkspaceInv, session # Nobody, NEW c \in Slots, NEW kind, NEW p, NEW skip,
         Private(p, Holders(session)), wire' = [wire EXCEPT ![c] = Sent(kind, p, skip)],
         UNCHANGED <<session, logins, mixed>>
  PROVE  CallsAreOwn'
<1>0. session \in Users /\ logins \in Nat
  BY DEF WorkspaceInv, PageIsOwn, Someone
<1>1. ShapedCall(Sent(kind, p, skip)) /\ CallIsOwn(Sent(kind, p, skip))
  BY <1>0, CallsAre DEF ShapedCall, CallIsOwn
<1> QED
  BY <1>1, CallChanges

\* The server has served a call, or read for it.
LEMMA ServedIs ==
  ASSUME NEW k, CallRecord(k), NEW p
  PROVE  /\ LET q == [k EXCEPT !.stage = "done"]
            IN  /\ CallRecord(q) /\ q.kind = k.kind /\ q.user = k.user /\ q.login = k.login
                /\ q.body = k.body
         /\ LET q == [k EXCEPT !.stage = "done", !.body = p]
            IN  /\ CallRecord(q) /\ q.kind = k.kind /\ q.user = k.user /\ q.login = k.login
                /\ q.body = p
<1>1. PICK a, u, l, s, b, i : k = WholeCall(a, u, l, s, b, i)
  BY DEF CallRecord, WholeCall
<1>2. [k EXCEPT !.stage = "done"] = WholeCall(a, u, l, "done", b, i)
  BY <1>1 DEF WholeCall
<1>3. [k EXCEPT !.stage = "done", !.body = p] = WholeCall(a, u, l, "done", p, i)
  <2>1. [k EXCEPT !.stage = "done", !.body = p] = [[k EXCEPT !.stage = "done"] EXCEPT !.body = p]
    OBVIOUS
  <2>2. [WholeCall(a, u, l, "done", b, i) EXCEPT !.body = p] = WholeCall(a, u, l, "done", p, i)
    BY DEF WholeCall
  <2> QED
    BY <1>2, <2>1, <2>2
<1>4. \A a1, u1, l1, s1, b1, i1 :
        LET q == WholeCall(a1, u1, l1, s1, b1, i1)
        IN  /\ CallRecord(q) /\ q.kind = a1 /\ q.user = u1 /\ q.login = l1
            /\ q.body = b1
  BY DEF CallRecord, WholeCall
<1> QED
  BY <1>1, <1>2, <1>3, <1>4

-----------------------------------------------------------------------------
(* Steps within a session. *)

\* The user changes the record and it is sent, or not.
LEMMA ActKeeps ==
  ASSUME WorkspaceInv, session # Nobody, NEW q, Private(q, Holders(session)), prefs' = q,
         Persist(q) \/ UNCHANGED wire,
         UNCHANGED <<session, loadedFor, notices, stored, logins, raised, mixed>>
  PROVE  WorkspaceInv'
<1>1. CallsAreOwn'
  <2>1. CASE Persist(q)
    BY <2>1, CallLeaves DEF Persist
  <2>2. CASE UNCHANGED wire
    BY <2>2 DEF WorkspaceInv, CallsAreOwn, ShapedCall, CallIsOwn, Lives, Holders
  <2> QED
    BY <2>1, <2>2
<1>2. PageIsOwn' /\ RecordsAreOwn'
  BY DEF WorkspaceInv, PageIsOwn, RecordsAreOwn, Holders
<1> QED
  BY <1>1, <1>2 DEF WorkspaceInv

\* The notices change, and calls may end.
LEMMA NoticesKeep ==
  ASSUME WorkspaceInv, NEW h, Alone(h), loadedFor # Nobody => Owned(h, Holders(session)),
         notices' = h, raised' \in Nat,
         UNCHANGED wire \/ \E c \in Slots : Ends(c),
         UNCHANGED <<session, prefs, loadedFor, stored, logins, mixed>>
  PROVE  WorkspaceInv'
<1>1. CallsAreOwn'
  <2>1. CASE \E c \in Slots : Ends(c)
    BY <2>1, CallEnds
  <2>2. CASE UNCHANGED wire
    BY <2>2 DEF WorkspaceInv, CallsAreOwn, ShapedCall, CallIsOwn, Lives, Holders
  <2> QED
    BY <2>1, <2>2
<1>2. PageIsOwn' /\ RecordsAreOwn'
  BY DEF WorkspaceInv, PageIsOwn, RecordsAreOwn, Holders
<1> QED
  BY <1>1, <1>2 DEF WorkspaceInv

\* A call leaves beside a page that stays.
LEMMA LeavingKeeps ==
  ASSUME WorkspaceInv, session # Nobody, NEW c \in Slots, NEW kind, NEW p, NEW skip,
         Private(p, Holders(session)), wire' = [wire EXCEPT ![c] = Sent(kind, p, skip)],
         UNCHANGED <<session, prefs, loadedFor, notices, stored, logins, raised, mixed>>
  PROVE  WorkspaceInv'
<1>1. CallsAreOwn'
  BY CallLeaves
<1>2. PageIsOwn' /\ RecordsAreOwn'
  BY DEF WorkspaceInv, PageIsOwn, RecordsAreOwn, Holders
<1> QED
  BY <1>1, <1>2 DEF WorkspaceInv

\* The preferences dialog, the sections and the layout tools.
LEMMA ChangesKeep ==
  ASSUME WorkspaceInv,
         \/ MoveSection \/ ReorderSections \/ ToggleSection \/ HandleZoneChange
         \/ HandleQuickSetupVisibilityChange \/ HandlePersistLayoutChange
         \/ ResetLayoutPreferences \/ StartLayoutEditing \/ CommitLayoutEditing
         \/ DiscardLayoutEditing
  PROVE  WorkspaceInv'
<1>1. Private(prefs, Holders(session))
  BY DEF WorkspaceInv, PageIsOwn
<1>2. /\ session # Nobody
      /\ UNCHANGED <<session, loadedFor, notices, stored, logins, raised, mixed>>
  BY DEF MoveSection, ReorderSections, ToggleSection, HandleZoneChange,
         HandleQuickSetupVisibilityChange, HandlePersistLayoutChange, ResetLayoutPreferences,
         StartLayoutEditing, CommitLayoutEditing, DiscardLayoutEditing, InDialog, Acts, Same,
         Stays
<1>3. ASSUME NEW q, Private(q, Holders(session)), CommitAndKeep(q) \/ CommitAndPersist(q)
      PROVE  WorkspaceInv'
  BY <1>2, <1>3, ActKeeps DEF CommitAndKeep, CommitAndPersist, Commit, CommitAs
<1>4. ASSUME NEW q, Private(q, Holders(session)), UpdateLocally(q)
      PROVE  WorkspaceInv'
  <2>1. Private([Normal(q) EXCEPT !.edit = q.edit], Holders(session))
    BY <1>4, OwnChanged
  <2> QED
    BY <1>3, <1>4, <2>1 DEF UpdateLocally
<1>5. CASE MoveSection \/ ReorderSections
  <2>1. ASSUME NEW o
        PROVE  Private([prefs EXCEPT !.order = o, !.edit = Editing], Holders(session))
    BY <1>1, OwnChanged
  <2> QED
    BY <1>4, <1>5, <2>1 DEF MoveSection, ReorderSections, Arranged
<1>6. CASE ToggleSection \/ HandleQuickSetupVisibilityChange
  <2>1. \A v : Private([prefs EXCEPT !.folded = v], Holders(session))
    BY <1>1, OwnChanged
  <2> QED
    BY <1>3, <1>6, <2>1 DEF ToggleSection, HandleQuickSetupVisibilityChange
<1>7. CASE HandleZoneChange
  <2>1. \A v : Private([prefs EXCEPT !.zone = v], Holders(session))
    BY <1>1, OwnChanged
  <2> QED
    BY <1>3, <1>7, <2>1 DEF HandleZoneChange
<1>8. CASE HandlePersistLayoutChange
  <2>1. \A v : Private([prefs EXCEPT !.keep = v], Holders(session))
    BY <1>1, OwnChanged
  <2> QED
    BY <1>3, <1>8, <2>1 DEF HandlePersistLayoutChange
<1>9. CASE ResetLayoutPreferences
  <2>1. Private([Defaults EXCEPT !.keep = prefs.keep, !.zone = prefs.zone], Holders(session))
    BY OwnDefaults, OwnChanged
  <2> QED
    BY <1>4, <1>9, <2>1 DEF ResetLayoutPreferences
<1>10. CASE StartLayoutEditing
  <2>1. \A v : Private([prefs EXCEPT !.edit = v], Holders(session))
    BY <1>1, OwnChanged
  <2> QED
    BY <1>2, <1>10, <2>1, ActKeeps DEF StartLayoutEditing, Commit, CommitAs
<1>11. CASE CommitLayoutEditing \/ DiscardLayoutEditing
  <2>1. Private([prefs EXCEPT !.edit = FALSE], Holders(session))
    BY <1>1, OwnChanged
  <2>2. Private(ApplyLayout([prefs EXCEPT !.edit = FALSE], snapshot), Holders(session))
    BY <2>1, OwnLayout
  <2> QED
    BY <1>3, <1>11, <2>1, <2>2 DEF CommitLayoutEditing, DiscardLayoutEditing
<1> QED
  BY <1>5, <1>6, <1>7, <1>8, <1>9, <1>10, <1>11

\* The notices, raised, put away or hidden.
LEMMA NoticesActsKeep ==
  ASSUME WorkspaceInv,
         PushNotification \/ DismissNotification \/ ClearAllNotifications \/ HideFloating
  PROVE  WorkspaceInv'
<1>1. /\ session \in Someone /\ Alone(notices) /\ raised \in Nat
      /\ loadedFor # Nobody => Owned(notices, Holders(session))
  BY DEF WorkspaceInv, PageIsOwn
<1>2. CASE PushNotification
  <2>1. PICK g \in {Group, NoGroup} : notices' = WithNotice(notices, g, session, raised + 1)
    BY <1>2 DEF PushNotification
  <2>2. /\ Alone(WithNotice(notices, g, session, raised + 1))
        /\ Owned(notices, Holders(session)) =>
             Owned(WithNotice(notices, g, session, raised + 1), Holders(session))
    BY <1>1, OwnIs, NoticeFits
  <2>3. /\ raised' = raised + 1
        /\ UNCHANGED <<session, prefs, loadedFor, stored, wire, logins, mixed>>
    BY <1>2 DEF PushNotification
  <2> QED
    BY <1>1, <2>1, <2>2, <2>3, NoticesKeep
<1>3. CASE DismissNotification
  <2>1. PICK i \in DOMAIN notices : Notices(Without(notices, i))
    BY <1>3 DEF DismissNotification
  <2>2. /\ Alone(Without(notices, i))
        /\ Owned(notices, Holders(session)) => Owned(Without(notices, i), Holders(session))
    BY <1>1, WithoutFits
  <2> QED
    BY <1>1, <1>3, <2>1, <2>2, NoticesKeep DEF DismissNotification, Acts, Notices
<1>4. CASE ClearAllNotifications
  <2>1. Alone(<<>>) /\ Owned(<<>>, Holders(session))
    BY OwnDefaults DEF Fit
  <2> QED
    BY <1>1, <1>4, <2>1, NoticesKeep DEF ClearAllNotifications, Acts, Notices
<1>5. CASE HideFloating
  <2>1. PICK i \in DOMAIN notices : Notices([notices EXCEPT ![i].floats = FALSE])
    BY <1>5 DEF HideFloating
  <2>2. /\ Alone([notices EXCEPT ![i].floats = FALSE])
        /\ Owned(notices, Holders(session)) => Owned([notices EXCEPT ![i].floats = FALSE], Holders(session))
    BY <1>1, ViewsFit
  <2> QED
    BY <1>1, <1>5, <2>1, <2>2, NoticesKeep DEF HideFloating, Notices, spentVars
<1> QED
  BY <1>2, <1>3, <1>4, <1>5

\* The list is saved only when it was loaded for the one signed in.
LEMMA SaveHistoryKeeps ==
  ASSUME WorkspaceInv, SaveHistory
  PROVE  WorkspaceInv'
<1>1. Private([prefs EXCEPT !.history = notices], Holders(session))
  BY OwnServed DEF SaveHistory, WorkspaceInv, PageIsOwn, Fit
<1> QED
  BY <1>1, ActKeeps
     DEF SaveHistory, CommitAndPersist, Commit, CommitAs, spentVars

\* Loads, and the texts of another language, are asked for.
LEMMA AskingKeeps ==
  ASSUME WorkspaceInv, HandleLanguageChange \/ Reload \/ RefreshNow \/ RestartTimer
  PROVE  WorkspaceInv'
<1>1. Private(prefs, Holders(session)) /\ Private(Defaults, Holders(session))
  BY OwnDefaults DEF WorkspaceInv, PageIsOwn
<1>2. CASE HandleLanguageChange
  BY <1>1, <1>2, LeavingKeeps DEF HandleLanguageChange, InDialog, Acts, Same, Stays
<1>3. ASSUME NEW skip, Loads(skip), session # Nobody,
             UNCHANGED <<session, prefs, loadedFor, notices, stored, logins, raised, mixed>>
      PROVE  WorkspaceInv'
  BY <1>1, <1>3, LeavingKeeps DEF Loads
<1>4. CASE Reload \/ RefreshNow \/ RestartTimer
  BY <1>3, <1>4 DEF Reload, RefreshNow, RestartTimer, shownVars, spentVars
<1> QED
  BY <1>2, <1>4

-----------------------------------------------------------------------------
(* Calls that are served, answered or fail. *)

\* An answer is taken: it is the own of whoever asked, and one signed in who is
\* somebody else is mixed from then on.
LEMMA TakenKeeps ==
  ASSUME WorkspaceInv, NEW c \in Slots, wire[c].kind # "none", Takes(wire[c]),
         NEW k, wire' = [wire EXCEPT ![c] = k], ShapedCall(k),
         k.kind # "none" => /\ k.kind = "save" /\ k.user = wire[c].user
                            /\ Private(k.body, Holders(wire[c].user)),
         Private(prefs', Holders(wire[c].user)),
         \/ UNCHANGED <<loadedFor, notices>>
         \/ /\ loadedFor' = wire[c].user
            /\ Alone(notices') /\ Owned(notices', Holders(wire[c].user)),
         UNCHANGED <<session, stored, logins, raised>>
  PROVE  WorkspaceInv'
<1> DEFINE u == wire[c].user
<1>1. u \in Users /\ u # Nobody
  BY NamesAssumption DEF WorkspaceInv, CallsAreOwn, CallIsOwn
<1>2. /\ wire' = [d \in Slots |-> wire'[d]]
      /\ \A d \in Slots : wire'[d] = IF d = c THEN k ELSE wire[d]
  BY DEF WorkspaceInv, CallsAreOwn
<1>3. CASE u = session
  <2>1. UNCHANGED mixed
    BY <1>3 DEF Takes
  <2>2. CallIsOwn(k)
    BY <1>1, <1>3 DEF CallIsOwn, Lives
  <2>3. CallsAreOwn'
    BY <2>1, <2>2, CallChanges
  <2>4. PageIsOwn'
    BY <1>1, <1>3, <2>1 DEF WorkspaceInv, PageIsOwn, Holders
  <2>5. RecordsAreOwn'
    BY <2>1 DEF WorkspaceInv, RecordsAreOwn, Holders
  <2> QED
    BY <2>3, <2>4, <2>5 DEF WorkspaceInv
<1>4. CASE u # session
  <2>1. mixed' = mixed \cup {session} /\ session \in Someone /\ mixed' \subseteq Someone
    BY <1>4 DEF Takes, WorkspaceInv, PageIsOwn
  <2>2. /\ Holders(session)' = Someone
        /\ \A v : Holders(v)' = Holders(v) \/ Holders(v)' = Someone
    BY <2>1 DEF Holders
  <2>3. ASSUME NEW q, NEW v, Private(q, Holders(v))
        PROVE  Private(q, Holders(v)')
    BY <2>2, <2>3, AnyonesFit
  <2>4. PageIsOwn'
    <3>1. Private(prefs', Holders(session)')
      BY <2>2, AnyonesFit
    <3>2. Alone(notices') /\ Owned(notices', Holders(session)')
      BY <2>2, ListsAre DEF WorkspaceInv, PageIsOwn
    <3> QED
      BY <2>1, <3>1, <3>2 DEF WorkspaceInv, PageIsOwn
  <2>5. RecordsAreOwn'
    BY <2>3 DEF WorkspaceInv, RecordsAreOwn
  <2>6. ASSUME NEW d \in Slots
        PROVE  ShapedCall(wire[d])' /\ CallIsOwn(wire[d])'
    <3>1. ShapedCall(wire'[d])
      BY <1>2 DEF WorkspaceInv, CallsAreOwn
    <3>2. (wire[d].kind # "none" => /\ wire[d].user \in Users
                                    /\ Private(wire[d].body, Holders(wire[d].user)))'
      <4>1. CASE d = c
        BY <1>1, <1>2, <2>3, <4>1
      <4>2. CASE d # c
        <5>1. wire'[d] = wire[d] /\ CallIsOwn(wire[d])
          BY <1>2, <4>2 DEF WorkspaceInv, CallsAreOwn
        <5> QED
          BY <2>3, <5>1 DEF CallIsOwn
      <4> QED
        BY <4>1, <4>2
    <3>3. Lives(wire[d])' => wire'[d].user = session \/ wire'[d].kind = "save"
      <4>1. CASE d = c
        BY <1>2, <4>1 DEF Lives
      <4>2. CASE d # c
        <5>1. wire'[d] = wire[d] /\ CallIsOwn(wire[d])
          BY <1>2, <4>2 DEF WorkspaceInv, CallsAreOwn
        <5> QED
          BY <5>1 DEF CallIsOwn, Lives
      <4> QED
        BY <4>1, <4>2
    <3> QED
      BY <2>1, <3>1, <3>2, <3>3 DEF ShapedCall, CallIsOwn
  <2>7. CallsAreOwn'
    BY <1>2, <2>6 DEF CallsAreOwn
  <2> QED
    BY <2>4, <2>5, <2>7 DEF WorkspaceInv
<1> QED
  BY <1>3, <1>4

\* The texts of a language arrive, and the record that was read then is sent.
LEMMA LocaleLoadedKeeps ==
  ASSUME WorkspaceInv, NEW c \in Slots, LocaleLoaded(c)
  PROVE  WorkspaceInv'
<1> DEFINE k == Made("save", wire[c].user, logins, wire[c].body, Nobody)
<1>1. wire[c].kind # "none" /\ Private(wire[c].body, Holders(wire[c].user)) /\ logins \in Nat
  BY DEF LocaleLoaded, WorkspaceInv, CallsAreOwn, CallIsOwn, PageIsOwn
<1>2. /\ wire' = [wire EXCEPT ![c] = k] /\ Takes(wire[c])
      /\ prefs' = wire[c].body
      /\ UNCHANGED <<session, loadedFor, notices, stored, logins, raised>>
  BY DEF LocaleLoaded, CommitAs, Stays, spentVars
<1>3. ShapedCall(k) /\ k.kind = "save" /\ k.user = wire[c].user /\ k.body = wire[c].body
  BY <1>1 DEF ShapedCall, CallRecord, Made
<1> HIDE DEF k
<1> QED
  BY <1>1, <1>2, <1>3, TakenKeeps

\* A save is stored in the row of the one signed in, which is the one whose
\* notices it brings.
LEMMA UpdateRecordKeeps ==
  ASSUME WorkspaceInv, NEW c \in Slots, UpdateRecord(c)
  PROVE  WorkspaceInv'
<1>1. /\ ShapedCall(wire[c]) /\ CallIsOwn(wire[c]) /\ Lives(wire[c])
      /\ session # Nobody /\ session \in Someone
      /\ UNCHANGED <<session, prefs, loadedFor, notices, logins, raised, mixed>>
  BY DEF UpdateRecord, Known, WorkspaceInv, PageIsOwn, CallsAreOwn, Lives, shownVars, spentVars
<1>2. Private(wire[c].body, Holders(session))
  <2>1. Private(wire[c].body, Holders(wire[c].user)) /\ (wire[c].user = session \/ session \in mixed)
    BY <1>1 DEF CallIsOwn, Lives
  <2> QED
    BY <1>1, <2>1, OwnIs, AnyonesFit
<1>3. CallsAreOwn'
  <2> DEFINE k == [wire[c] EXCEPT !.stage = "done"]
  <2>1. /\ CallRecord(k) /\ k.kind = wire[c].kind /\ k.user = wire[c].user
        /\ k.login = wire[c].login /\ k.body = wire[c].body
    BY <1>1, ServedIs DEF ShapedCall
  <2>2. wire' = [wire EXCEPT ![c] = k]
    BY DEF UpdateRecord
  <2> HIDE DEF k
  <2>3. ShapedCall(k) /\ CallIsOwn(k)
    BY <1>1, <2>1 DEF ShapedCall, CallIsOwn, Lives
  <2> QED
    BY <1>1, <2>2, <2>3, CallChanges
<1>4. RecordsAreOwn'
  <2>1. Private(ServerRecord(wire[c].body), Holders(session))
    BY <1>2, OwnServed
  <2>2. stored' = [u \in Users |-> IF u = session THEN ServerRecord(wire[c].body) ELSE stored[u]]
    BY DEF UpdateRecord, WorkspaceInv, RecordsAreOwn
  <2>3. \A u : Holders(u)' = Holders(u)
    BY <1>1 DEF Holders
  <2> QED
    BY <2>1, <2>2, <2>3 DEF WorkspaceInv, RecordsAreOwn
<1>5. PageIsOwn'
  BY <1>1 DEF WorkspaceInv, PageIsOwn, Holders
<1> QED
  BY <1>3, <1>4, <1>5 DEF WorkspaceInv

\* A load reads the row of the one signed in.
LEMMA ReadRecordKeeps ==
  ASSUME WorkspaceInv, NEW c \in Slots, ReadRecord(c)
  PROVE  WorkspaceInv'
<1>1. /\ ShapedCall(wire[c]) /\ CallIsOwn(wire[c]) /\ Lives(wire[c])
      /\ session # Nobody /\ session \in Users
      /\ UNCHANGED <<session, prefs, loadedFor, notices, stored, logins, raised, mixed>>
  BY DEF ReadRecord, Known, WorkspaceInv, PageIsOwn, CallsAreOwn, Lives, shownVars, spentVars,
         Someone
<1>2. wire[c].user = session /\ Private(stored[session], Holders(session))
  BY <1>1 DEF ReadRecord, CallIsOwn, Lives, WorkspaceInv, RecordsAreOwn
<1>3. CallsAreOwn'
  <2> DEFINE k == [wire[c] EXCEPT !.stage = "done", !.body = stored[session]]
  <2>1. /\ CallRecord(k) /\ k.kind = wire[c].kind /\ k.user = wire[c].user
        /\ k.login = wire[c].login /\ k.body = stored[session]
    BY <1>1, ServedIs DEF ShapedCall
  <2>2. wire' = [wire EXCEPT ![c] = k]
    BY DEF ReadRecord
  <2> HIDE DEF k
  <2>3. ShapedCall(k) /\ CallIsOwn(k)
    BY <1>1, <1>2, <2>1 DEF ShapedCall, CallIsOwn
  <2> QED
    BY <1>1, <2>2, <2>3, CallChanges
<1>4. PageIsOwn' /\ RecordsAreOwn'
  BY <1>1 DEF WorkspaceInv, PageIsOwn, RecordsAreOwn, Holders
<1> QED
  BY <1>3, <1>4 DEF WorkspaceInv

\* The answer to a save is the record that was sent.
LEMMA PreferencesSavedKeeps ==
  ASSUME WorkspaceInv, NEW c \in Slots, PreferencesSaved(c)
  PROVE  WorkspaceInv'
<1>1. /\ wire[c].kind # "none" /\ Private(wire[c].body, Holders(wire[c].user))
      /\ ShapedCall(NoCall) /\ NoCall.kind = "none"
  BY CallsAre
     DEF PreferencesSaved, WorkspaceInv, CallsAreOwn, CallIsOwn, ShapedCall, PageIsOwn
<1>2. /\ Private(prefs', Holders(wire[c].user))
      /\ UNCHANGED <<session, loadedFor, notices, stored, logins, raised>>
  <2>1. \A v : Private([Normal(ServerRecord(wire[c].body)) EXCEPT !.edit = v], Holders(wire[c].user))
    BY <1>1, OwnServed, OwnChanged
  <2> QED
    BY <2>1 DEF PreferencesSaved, CommitAs, spentVars
<1>3. wire' = [wire EXCEPT ![c] = NoCall] /\ Takes(wire[c])
  BY DEF PreferencesSaved, Ends
<1> QED
  BY <1>1, <1>2, <1>3, TakenKeeps

\* So it does with the record and the list of a load.
LEMMA LoadAnsweredKeeps ==
  ASSUME WorkspaceInv, NEW c \in Slots, LoadAnswered(c)
  PROVE  WorkspaceInv'
<1>1. /\ wire[c].kind # "none" /\ Private(wire[c].body, Holders(wire[c].user))
      /\ ShapedCall(NoCall) /\ NoCall.kind = "none"
  BY CallsAre
     DEF LoadAnswered, WorkspaceInv, CallsAreOwn, CallIsOwn, ShapedCall, PageIsOwn
<1>2. UNCHANGED <<session, stored, logins, raised>> /\ wire' = [wire EXCEPT ![c] = NoCall]
  BY DEF LoadAnswered, spentVars, Ends
<1>4. CASE wire[c].skip = wire[c].user
  <2>1. UNCHANGED <<prefs, loadedFor, notices, mixed>>
    BY <1>4 DEF LoadAnswered
  <2>2. CallsAreOwn'
    BY <1>2, <2>1, CallEnds DEF Ends
  <2> QED
    BY <1>2, <2>1, <2>2 DEF WorkspaceInv, PageIsOwn, RecordsAreOwn, Holders
<1>5. CASE wire[c].skip # wire[c].user
  <2>1. /\ prefs' = IF snapshot = NoLayout THEN Normal(wire[c].body)
                    ELSE [Normal(wire[c].body) EXCEPT !.edit = prefs.edit]
        /\ loadedFor' = wire[c].user
        /\ notices' = Newest(wire[c].body.history)
        /\ Takes(wire[c])
    BY <1>5 DEF LoadAnswered, CommitAs
  <2>2. Private(prefs', Holders(wire[c].user))
    BY <1>1, <2>1, OwnChanged
  <2>3. Alone(notices') /\ Owned(notices', Holders(wire[c].user))
    BY <1>1, <2>1, NewestFits DEF Private, Fit
  <2> QED
    BY <1>1, <1>2, <2>1, <2>2, <2>3, TakenKeeps
<1> QED
  BY <1>4, <1>5

\* A failure is a notice.
LEMMA FailuresKeep ==
  ASSUME WorkspaceInv, NEW c \in Slots, SaveFails(c) \/ LoadFails(c)
  PROVE  WorkspaceInv'
<1>1. /\ session \in Someone /\ Alone(notices) /\ raised \in Nat
      /\ loadedFor # Nobody => Owned(notices, Holders(session))
  BY DEF WorkspaceInv, PageIsOwn
<1>2. /\ raised' = raised + 1 /\ notices' = WithNotice(notices, Group, session, raised + 1)
      /\ Ends(c) /\ UNCHANGED <<session, prefs, loadedFor, stored, logins, mixed>>
  BY DEF SaveFails, LoadFails
<1>3. /\ Alone(WithNotice(notices, Group, session, raised + 1))
      /\ Owned(notices, Holders(session)) =>
           Owned(WithNotice(notices, Group, session, raised + 1), Holders(session))
  BY <1>1, OwnIs, NoticeFits
<1> QED
  BY <1>1, <1>2, <1>3, NoticesKeep

-----------------------------------------------------------------------------
(* Sessions. *)

\* A session begins with nobody's list, or for one who is mixed from then on.
LEMMA BeginSessionKeeps ==
  ASSUME WorkspaceInv, NEW u \in Users, BeginSession(u)
  PROVE  WorkspaceInv'
<1>1. /\ session = Nobody /\ session' = u /\ logins' = logins + 1 /\ logins \in Nat
      /\ u # Nobody /\ u \in Someone /\ mixed \subseteq Someone
      /\ mixed' = IF Nobody \in mixed THEN mixed \cup {u} ELSE mixed
      /\ UNCHANGED <<prefs, loadedFor, notices, stored, raised>>
  BY NamesAssumption DEF BeginSession, WorkspaceInv, PageIsOwn, shownVars, Someone
<1>2. \A v : Holders(v)' = Holders(v) \/ Holders(v)' = Someone
  BY <1>1 DEF Holders
<1>a. ASSUME NEW q, NEW v, Private(q, Holders(v))
      PROVE  Private(q, Holders(v)')
  BY <1>2, <1>a, AnyonesFit
<1>3. PageIsOwn'
  <2>1. CASE Nobody \in mixed
    <3>1. u \in mixed' /\ mixed' \subseteq Someone /\ Holders(u)' = Someone
      BY <1>1, <2>1 DEF Holders
    <3>2. Private(prefs, Someone) /\ Alone(notices) /\ Owned(notices, Someone)
      BY AnyonesFit, ListsAre DEF WorkspaceInv, PageIsOwn
    <3> QED
      BY <1>1, <3>1, <3>2 DEF WorkspaceInv, PageIsOwn
  <2>2. CASE Nobody \notin mixed
    <3>1. loadedFor = Nobody /\ prefs.history = <<>>
      BY <1>1, <2>2 DEF WorkspaceInv, PageIsOwn
    <3>2. Private(prefs, Holders(u)')
      BY <3>1, OwnDefaults DEF WorkspaceInv, PageIsOwn, Private
    <3> QED
      BY <1>1, <2>2, <3>1, <3>2 DEF WorkspaceInv, PageIsOwn
  <2> QED
    BY <2>1, <2>2
<1>b. RecordsAreOwn'
  BY <1>1, <1>a DEF WorkspaceInv, RecordsAreOwn
<1>4. PICK c \in Slots : wire' = [wire EXCEPT ![c] = FirstLoad(u, loadedFor)]
  BY DEF BeginSession
<1>5. wire' = [d \in Slots |-> IF d = c THEN FirstLoad(u, loadedFor) ELSE wire[d]]
  BY <1>4 DEF WorkspaceInv, CallsAreOwn
<1>6. /\ CallRecord(FirstLoad(u, loadedFor)) /\ FirstLoad(u, loadedFor).login = logins + 1
      /\ FirstLoad(u, loadedFor).user = u /\ Private(FirstLoad(u, loadedFor).body, Holders(u)')
  BY CallsAre, OwnDefaults
<1>7. wire' = [d \in Slots |-> wire'[d]]
  BY <1>5
<1>8. ASSUME NEW d \in Slots
      PROVE  ShapedCall(wire[d])' /\ CallIsOwn(wire[d])'
  <2>1. CASE d = c
    <3>1. wire'[d] = FirstLoad(u, loadedFor)
      BY <1>5, <2>1
    <3> QED
      BY <1>1, <1>6, <3>1 DEF ShapedCall, CallIsOwn
  <2>2. CASE d # c
    <3>1. wire'[d] = wire[d] /\ ShapedCall(wire[d]) /\ CallIsOwn(wire[d])
      BY <1>5, <2>2 DEF WorkspaceInv, CallsAreOwn
    <3>2. wire[d].login \in 0 .. logins' /\ wire[d].login # logins'
      BY <1>1, <3>1 DEF ShapedCall
    <3>3. (wire[d].kind # "none" => wire[d].user \in Users /\ Private(wire[d].body, Holders(wire[d].user)))'
      BY <1>a, <3>1 DEF CallIsOwn
    <3> QED
      BY <3>1, <3>2, <3>3 DEF ShapedCall, CallIsOwn, Lives
  <2> QED
    BY <2>1, <2>2
<1>10. CallsAreOwn'
  BY <1>7, <1>8 DEF CallsAreOwn
<1> QED
  BY <1>3, <1>b, <1>10 DEF WorkspaceInv

\* A session ends with nobody's list; what is on its way stays its user's.
LEMMA ResetKeeps ==
  ASSUME WorkspaceInv, NEW left, Alone(left), ResetPage(left), raised' \in Nat,
         UNCHANGED wire \/ \E c \in Slots : Ends(c), UNCHANGED <<stored, logins>>
  PROVE  WorkspaceInv'
<1>1. /\ session' = Nobody /\ prefs' = Defaults /\ loadedFor' = Nobody /\ notices' = left
      /\ mixed' = mixed \ {Nobody}
  BY DEF ResetPage, Commit, CommitAs
<1>2. \A u \in Users : Holders(u)' = Holders(u)
  BY <1>1, NamesAssumption DEF Holders
<1>a. PageIsOwn'
  BY <1>1, OwnDefaults DEF WorkspaceInv, PageIsOwn, Someone
<1>b. RecordsAreOwn'
  BY <1>2 DEF WorkspaceInv, RecordsAreOwn
<1>3. \A c \in Slots : wire'[c] = wire[c] \/ wire'[c] = NoCall
  BY DEF Ends, WorkspaceInv, CallsAreOwn
<1>4. wire' = [c \in Slots |-> wire'[c]]
  BY DEF Ends, WorkspaceInv, CallsAreOwn
<1>5. ShapedCall(NoCall) /\ NoCall.kind = "none"
  BY CallsAre DEF ShapedCall, WorkspaceInv, PageIsOwn
<1>6. ASSUME NEW c \in Slots
      PROVE  ShapedCall(wire[c])' /\ CallIsOwn(wire[c])'
  <2>1. ShapedCall(wire'[c])
    BY <1>3, <1>5 DEF WorkspaceInv, CallsAreOwn
  <2>2. (wire[c].kind # "none" => wire[c].user \in Users /\ Private(wire[c].body, Holders(wire[c].user)))'
    <3>1. CallIsOwn(wire[c])
      BY DEF WorkspaceInv, CallsAreOwn
    <3> QED
      BY <1>2, <1>3, <1>5, <3>1 DEF CallIsOwn
  <2> QED
    BY <1>1, <2>1, <2>2 DEF ShapedCall, CallIsOwn, Lives
<1>7. CallsAreOwn'
  BY <1>4, <1>6 DEF CallsAreOwn
<1> QED
  BY <1>a, <1>b, <1>7 DEF WorkspaceInv

\* Whether the user signs out or a late refusal ends the session.
LEMMA LeaveKeeps ==
  ASSUME WorkspaceInv, EndSession \/ \E c \in Slots : CallRefused(c)
  PROVE  WorkspaceInv'
<1>1. raised \in Nat /\ Nobody \in Someone /\ Alone(<<>>)
  BY OwnDefaults DEF WorkspaceInv, PageIsOwn, Someone, Fit
<1>2. CASE EndSession
  BY <1>1, <1>2, ResetKeeps DEF EndSession, spentVars
<1>3. ASSUME NEW c \in Slots, CallRefused(c)
      PROVE  WorkspaceInv'
  <2>1. Alone(WithNotice(<<>>, Group, Nobody, raised + 1))
    BY <1>1, NoticeFits
  <2>2. /\ raised' = raised + 1 /\ Ends(c) /\ UNCHANGED <<stored, logins>>
        /\ ResetPage(WithNotice(<<>>, Group, Nobody, raised + 1))
    BY <1>3 DEF CallRefused
  <2> QED
    BY <1>1, <2>1, <2>2, ResetKeeps
<1> QED
  BY <1>2, <1>3

\* A page that is opened again has left its calls behind.
LEMMA ReopenPageKeeps ==
  ASSUME WorkspaceInv, ReopenPage
  PROVE  WorkspaceInv'
<1>1. /\ session # Nobody /\ session' = session /\ logins' = logins + 1 /\ logins \in Nat
      /\ prefs' = Defaults /\ loadedFor' = Nobody /\ notices' = <<>>
      /\ session \in Users
      /\ UNCHANGED <<stored, raised, mixed>>
  BY DEF ReopenPage, WorkspaceInv, PageIsOwn, Someone
<1>a. \A u : Holders(u)' = Holders(u)
  BY <1>1 DEF Holders
<1>b. PageIsOwn'
  BY <1>1, OwnDefaults DEF WorkspaceInv, PageIsOwn, Fit
<1>c. RecordsAreOwn'
  BY <1>1, <1>a DEF WorkspaceInv, RecordsAreOwn
<1>2. PageIsOwn' /\ RecordsAreOwn'
  BY <1>b, <1>c
<1>3. PICK c \in Slots :
        wire' = [d \in Slots |-> IF d = c THEN FirstLoad(session, Nobody) ELSE NoCall]
  BY DEF ReopenPage
<1>4. /\ ShapedCall(NoCall)' /\ NoCall.kind = "none"
      /\ CallRecord(FirstLoad(session, Nobody))
      /\ FirstLoad(session, Nobody).login = logins + 1
      /\ FirstLoad(session, Nobody).user = session
      /\ Private(FirstLoad(session, Nobody).body, Holders(session)')
  BY <1>1, CallsAre, OwnDefaults DEF ShapedCall
<1>5. wire' = [d \in Slots |-> wire'[d]]
  BY <1>3
<1>6. ASSUME NEW d \in Slots
      PROVE  ShapedCall(wire[d])' /\ CallIsOwn(wire[d])'
  <2>1. CASE d = c
    <3>1. wire'[d] = FirstLoad(session, Nobody)
      BY <1>3, <2>1
    <3> QED
      BY <1>1, <1>4, <3>1 DEF ShapedCall, CallIsOwn
  <2>2. CASE d # c
    <3>1. wire'[d] = NoCall
      BY <1>3, <2>2
    <3> QED
      BY <1>4, <3>1 DEF ShapedCall, CallIsOwn, Lives, Holders
  <2> QED
    BY <2>1, <2>2
<1>7. CallsAreOwn'
  BY <1>5, <1>6 DEF CallsAreOwn
<1> QED
  BY <1>2, <1>7 DEF WorkspaceInv

-----------------------------------------------------------------------------
\* The page and the rows start empty.
LEMMA WorkspaceInvInit ==
  WorkspaceInit => WorkspaceInv
<1> SUFFICES ASSUME WorkspaceInit
             PROVE  WorkspaceInv
  OBVIOUS
<1>1. PageIsOwn
  BY OwnDefaults DEF WorkspaceInit, PageIsOwn, Someone, Fit
<1>2. RecordsAreOwn
  BY OwnDefaults DEF WorkspaceInit, RecordsAreOwn, Holders
<1>3. CallsAreOwn
  BY CallsAre DEF WorkspaceInit, CallsAreOwn, ShapedCall, CallIsOwn, Lives, Holders
<1> QED
  BY <1>1, <1>2, <1>3 DEF WorkspaceInv

\* Every step keeps the notices apart, those of users who are not mixed.
LEMMA WorkspaceInvNext ==
  ASSUME WorkspaceInv, [WorkspaceNext]_workspaceVars
  PROVE  WorkspaceInv'
<1>1. CASE WorkspaceActs
  BY <1>1, ChangesKeep, AskingKeeps, NoticesActsKeep DEF WorkspaceActs
<1>2. CASE PushNotification \/ HideFloating
  BY <1>2, NoticesActsKeep
<1>3. CASE SaveHistory
  BY <1>3, SaveHistoryKeeps
<1>4. CASE Reload \/ RefreshNow \/ RestartTimer
  BY <1>4, AskingKeeps
<1>5. ASSUME NEW c \in Slots, WorkspaceAnswers(c) \/ SaveFails(c) \/ LoadFails(c)
      PROVE  WorkspaceInv'
  BY <1>5, LocaleLoadedKeeps, UpdateRecordKeeps, PreferencesSavedKeeps, LeaveKeeps,
     ReadRecordKeeps, LoadAnsweredKeeps, FailuresKeep DEF WorkspaceAnswers
<1>6. CASE \E u \in Users : BeginSession(u)
  BY <1>6, BeginSessionKeeps
<1>7. CASE EndSession
  BY <1>7, LeaveKeeps
<1>8. CASE ReopenPage
  BY <1>8, ReopenPageKeeps
<1>9. CASE UNCHANGED workspaceVars
  BY <1>9 DEF workspaceVars, shownVars, spentVars, WorkspaceInv, PageIsOwn, RecordsAreOwn,
              CallsAreOwn, ShapedCall, CallIsOwn, Lives, Holders
<1> QED
  BY <1>1, <1>2, <1>3, <1>4, <1>5, <1>6, <1>7, <1>8, <1>9 DEF WorkspaceNext

\* NoticesStayWithUser holds for any users, calls, sign-ins and lengths of the
\* history: the page saves a notice of one user in the record of another
\* (useUiPreferences, useNotifications) only where it took the answer to a call
\* of one while the other, or nobody, was signed in.
THEOREM NoticesAlwaysStayWithUser == WorkspaceSpec => []NoticesStayWithUser
<1>1. WorkspaceInv => NoticesStayWithUser
  BY DEF WorkspaceInv, RecordsAreOwn, Private, Fit, Owned, Holders, NoticesStayWithUser
<1> QED
  BY <1>1, WorkspaceInvInit, WorkspaceInvNext, PTL DEF WorkspaceSpec

-----------------------------------------------------------------------------
(* The settings of security. *)

Submissions ==
    [body : Overrides, reset : BOOLEAN, state : {"sent", "done", "refused"}, result : Overrides]
Transactions == [row : Overrides, entered : SUBSET Secrets]

\* The row, the forms and what is sent of them are overrides.
RowsFit ==
    /\ overrides \in Overrides /\ entered \subseteq Secrets
    /\ settings \in [Admins -> Overrides] /\ settingsForm \in [Admins -> Overrides]
    /\ submitted \in [Admins -> Submissions \cup {Unset}]
    /\ txn \in [Admins -> Transactions \cup {Unset}]

\* Who is in the middle of a save has read a row that held what had been
\* entered by then.
EnteredInv ==
    /\ RowsFit
    /\ EnteredSecretsStay
    /\ \A a \in Admins : txn[a] # Unset =>
         /\ submitted[a] # Unset /\ submitted[a].state = "sent"
         /\ \A s \in txn[a].entered : txn[a].row[s]

LEMMA NoOverridesFit == NoOverrides \in Overrides
BY DEF NoOverrides, Overrides, Modes

LEMMA FormFits ==
  ASSUME NEW r \in Overrides
  PROVE  FormFromSettings(r) \in Overrides
BY DEF FormFromSettings, Overrides

\* What an administrator chooses or types makes overrides of overrides.
LEMMA EditFits ==
  ASSUME RowsFit, NEW a \in Admins,
         \/ ChooseChallengeMode(a) \/ ChooseCaptcha(a) \/ TypeSiteKey(a) \/ TypeSecret(a)
         \/ ChooseGeoMode(a) \/ ChoosePrimary(a) \/ AddFallback(a) \/ RemoveFallback(a)
         \/ TypeToken(a)
  PROVE  /\ settingsForm' \in [Admins -> Overrides]
         /\ UNCHANGED <<overrides, settings, submitted, txn, entered>>
<1> DEFINE f == settingsForm[a]
<1>1. f \in Overrides
  BY DEF RowsFit
<1>2. \E g \in Overrides : EditForm(a, g)
  <2>1. CASE ChooseChallengeMode(a) \/ ChooseGeoMode(a)
    BY <1>1, <2>1 DEF ChooseChallengeMode, ChooseGeoMode, Overrides
  <2>2. CASE ChooseCaptcha(a)
    BY <1>1, <2>2 DEF ChooseCaptcha, Overrides
  <2>3. CASE TypeSiteKey(a) \/ TypeSecret(a) \/ TypeToken(a)
    BY <1>1, <2>3 DEF TypeSiteKey, TypeSecret, TypeToken, Overrides
  <2>4. CASE ChoosePrimary(a)
    BY <1>1, <2>4 DEF ChoosePrimary, Overrides
  <2>5. CASE AddFallback(a)
    BY <1>1, <2>5 DEF AddFallback, Overrides
  <2>6. CASE RemoveFallback(a)
    BY <1>1, <2>6 DEF RemoveFallback, Overrides
  <2> QED
    BY <2>1, <2>2, <2>3, <2>4, <2>5, <2>6
<1> QED
  BY <1>2 DEF EditForm, RowsFit

\* A row that is written is overrides again, and has what was typed and, unless
\* it is reset, what was read.
LEMMA UpdatedFacts ==
  ASSUME NEW row \in Overrides, NEW body \in Overrides, NEW reset \in BOOLEAN
  PROVE  /\ Updated(row, body, reset) \in Overrides
         /\ ~reset => \A s \in Secrets : body[s] \/ row[s] => Updated(row, body, reset)[s]
<1>1. Applied(row.secret, body.secret, reset) \in BOOLEAN
  BY DEF Applied, Overrides
<1>2. Applied(row.token, body.token, reset) \in BOOLEAN
  BY DEF Applied, Overrides
<1>3. Updated(row, body, reset) \in Overrides
  BY <1>1, <1>2 DEF Updated, Overrides
<1>4. /\ Updated(row, body, reset).secret = Applied(row.secret, body.secret, reset)
      /\ Updated(row, body, reset).token = Applied(row.token, body.token, reset)
  BY DEF Updated, Overrides
<1>5. ASSUME ~reset, NEW s \in Secrets, body[s] \/ row[s]
      PROVE  Updated(row, body, reset)[s]
  BY <1>4, <1>5 DEF Secrets, Applied
<1> QED
  BY <1>3, <1>5

LEMMA EnteredNext ==
  ASSUME EnteredInv, [SecurityNext]_securityVars
  PROVE  EnteredInv'
<1>0. RowsFit
  BY DEF EnteredInv
<1>1. CASE UNCHANGED securityVars
  BY <1>1 DEF securityVars, EnteredInv, RowsFit, EnteredSecretsStay
<1>2. ASSUME NEW a \in Admins,
             \/ ChooseChallengeMode(a) \/ ChooseCaptcha(a) \/ TypeSiteKey(a) \/ TypeSecret(a)
             \/ ChooseGeoMode(a) \/ ChoosePrimary(a) \/ AddFallback(a) \/ RemoveFallback(a)
             \/ TypeToken(a)
      PROVE  EnteredInv'
  <2>1. /\ settingsForm' \in [Admins -> Overrides]
        /\ UNCHANGED <<overrides, settings, submitted, txn, entered>>
    BY <1>0, <1>2, EditFits
  <2> QED
    BY <2>1 DEF EnteredInv, RowsFit, EnteredSecretsStay
<1>3. ASSUME NEW a \in Admins, OpenSecurityDialog(a) \/ CloseSecurityDialog(a)
      PROVE  EnteredInv'
  BY <1>3 DEF OpenSecurityDialog, CloseSecurityDialog, EnteredInv, RowsFit, EnteredSecretsStay
<1>4. ASSUME NEW a \in Admins, SaveSettings(a) \/ ResetSettings(a)
      PROVE  EnteredInv'
  <2>1. PICK b \in Overrides, reset \in BOOLEAN : Send(a, b, reset)
    BY <1>0, <1>4, NoOverridesFit DEF SaveSettings, ResetSettings, RowsFit
  <2>2. submitted' \in [Admins -> Submissions \cup {Unset}]
    BY <1>0, <2>1, NoOverridesFit DEF Send, RowsFit, Submissions
  <2>3. txn[a] = Unset
    BY <2>1 DEF Send, EnteredInv
  <2> QED
    BY <2>1, <2>2, <2>3 DEF Send, EnteredInv, RowsFit, EnteredSecretsStay
<1>5. ASSUME NEW a \in Admins, BeginUpdate(a)
      PROVE  EnteredInv'
  <2> DEFINE t == [row |-> overrides, entered |-> entered]
  <2>1. t \in Transactions /\ \A s \in t.entered : t.row[s]
    BY DEF EnteredInv, RowsFit, Transactions, EnteredSecretsStay
  <2>2. /\ txn' = [txn EXCEPT ![a] = t]
        /\ UNCHANGED <<overrides, settings, settingsForm, submitted, entered>>
        /\ submitted[a] # Unset /\ submitted[a].state = "sent"
    BY <1>5 DEF BeginUpdate
  <2> HIDE DEF t
  <2> QED
    BY <2>1, <2>2 DEF EnteredInv, RowsFit, EnteredSecretsStay
<1>6. ASSUME NEW a \in Admins, CommitUpdate(a)
      PROVE  EnteredInv'
  <2> DEFINE sent == submitted[a]
             row == txn[a].row
             new == Updated(row, sent.body, sent.reset)
  <2>1. /\ row \in Overrides /\ txn[a].entered \subseteq Secrets
        /\ \A s \in txn[a].entered : row[s]
    BY <1>6 DEF CommitUpdate, EnteredInv, RowsFit, Transactions
  <2>2. /\ txn' = [txn EXCEPT ![a] = Unset]
        /\ UNCHANGED <<settings, settingsForm>>
    BY <1>6 DEF CommitUpdate
  <2>3. sent \in Submissions
    BY <1>6 DEF CommitUpdate, EnteredInv, RowsFit
  <2>4. /\ new \in Overrides
        /\ ~sent.reset => \A s \in Secrets : sent.body[s] \/ row[s] => new[s]
    BY <2>1, <2>3, UpdatedFacts DEF Submissions
  <2> HIDE DEF new
  <2>5. CASE Accepts(row, sent.body, sent.reset)
    <3>1. /\ overrides' = new
          /\ submitted' = [submitted EXCEPT ![a].state = "done", ![a].result = new]
          /\ entered' = IF sent.reset THEN {}
                        ELSE {s \in Secrets : sent.body[s]} \cup (entered \cap txn[a].entered)
      BY <1>6, <2>5 DEF CommitUpdate, new
    <3>2. [[sent EXCEPT !.state = "done"] EXCEPT !.result = new] \in Submissions
      BY <2>3, <2>4 DEF Submissions
    <3>3. submitted' \in [Admins -> Submissions \cup {Unset}]
      BY <1>0, <2>3, <3>1, <3>2 DEF RowsFit
    <3>4. \A b \in Admins \ {a} : submitted'[b] = submitted[b] /\ txn'[b] = txn[b]
      BY <1>0, <2>2, <3>1 DEF RowsFit
    <3>5. entered' \subseteq Secrets /\ \A s \in entered' : new[s]
      BY <1>0, <2>1, <2>4, <3>1 DEF RowsFit
    <3>6. txn' \in [Admins -> Transactions \cup {Unset}] /\ txn'[a] = Unset
      BY <1>0, <2>2 DEF RowsFit
    <3> QED
      BY <1>0, <2>2, <2>4, <3>1, <3>3, <3>4, <3>5, <3>6 DEF EnteredInv, RowsFit, EnteredSecretsStay
  <2>6. CASE ~Accepts(row, sent.body, sent.reset)
    <3>1. /\ submitted' = [submitted EXCEPT ![a].state = "refused"]
          /\ UNCHANGED <<overrides, entered>>
      BY <1>6, <2>6 DEF CommitUpdate
    <3>2. [sent EXCEPT !.state = "refused"] \in Submissions
      BY <2>3 DEF Submissions
    <3>3. submitted' \in [Admins -> Submissions \cup {Unset}]
      BY <1>0, <2>3, <3>1, <3>2 DEF RowsFit
    <3>4. \A b \in Admins \ {a} : submitted'[b] = submitted[b] /\ txn'[b] = txn[b]
      BY <1>0, <2>2, <3>1 DEF RowsFit
    <3>5. txn' \in [Admins -> Transactions \cup {Unset}] /\ txn'[a] = Unset
      BY <1>0, <2>2 DEF RowsFit
    <3> QED
      BY <1>0, <2>2, <3>1, <3>3, <3>4, <3>5 DEF EnteredInv, RowsFit, EnteredSecretsStay
  <2> QED
    BY <2>5, <2>6
<1>7. ASSUME NEW a \in Admins, SettingsSaved(a)
      PROVE  EnteredInv'
  <2>1. submitted[a] \in Submissions /\ submitted[a].state = "done" /\ txn[a] = Unset
    BY <1>7 DEF SettingsSaved, EnteredInv, RowsFit
  <2>2. submitted[a].result \in Overrides /\ FormFromSettings(submitted[a].result) \in Overrides
    BY <2>1, FormFits DEF Submissions
  <2>3. settings' \in [Admins -> Overrides] /\ settingsForm' \in [Admins -> Overrides]
    BY <1>0, <1>7, <2>2, NoOverridesFit DEF SettingsSaved, RowsFit
  <2>4. UNCHANGED <<overrides, txn, entered>> /\ submitted' = [submitted EXCEPT ![a] = Unset]
    BY <1>7 DEF SettingsSaved
  <2> QED
    BY <2>1, <2>3, <2>4 DEF EnteredInv, RowsFit, EnteredSecretsStay
<1>8. ASSUME NEW a \in Admins, SaveRefused(a)
      PROVE  EnteredInv'
  <2>1. txn[a] = Unset
    BY <1>8 DEF SaveRefused, EnteredInv
  <2> QED
    BY <1>8, <2>1 DEF SaveRefused, EnteredInv, RowsFit, EnteredSecretsStay
<1>9. ASSUME NEW a \in Admins, LoadSettings(a)
      PROVE  EnteredInv'
  <2>1. FormFromSettings(overrides) \in Overrides
    BY <1>0, FormFits DEF RowsFit
  <2> QED
    BY <1>9, <2>1 DEF LoadSettings, EnteredInv, RowsFit, EnteredSecretsStay
<1> QED
  BY <1>1, <1>2, <1>3, <1>4, <1>5, <1>6, <1>7, <1>8, <1>9 DEF SecurityNext

\* A secret that was entered stays until a reset, for any administrators, edits
\* and saves, however old their forms are, unless a save that had read the row
\* before overtakes it (AuthSecuritySettingsService.applySecret).
THEOREM EnteredSecretsAlwaysStay == SecuritySpec => []EnteredSecretsStay
<1>1. SecurityInit => EnteredInv
  BY NoOverridesFit DEF SecurityInit, EnteredInv, RowsFit, EnteredSecretsStay
<1>2. EnteredInv /\ [SecurityNext]_securityVars => EnteredInv'
  BY EnteredNext
<1>3. EnteredInv => EnteredSecretsStay
  BY DEF EnteredInv
<1> QED
  BY <1>1, <1>2, <1>3, PTL DEF SecuritySpec

=============================================================================
