------------------------- MODULE ConsoleMailboxes -------------------------
(***************************************************************************)
(* The console page on which one user sets up sources and the destination, *)
(* with the server of MailboxSetup behind it.  The page shows what it has  *)
(* loaded, lets the user fill in forms, sends them, and leaves for the     *)
(* provider's consent page and comes back by the callback page.            *)
(*                                                                         *)
(* A request is a record in calls: it is sent, then served or refused, and *)
(* then answered; a fault loses it before or after it is served.  A load   *)
(* is served where it is sent.  What is in a dialog is reduced to the      *)
(* mailbox it names and whether the source is enabled; the draft of the    *)
(* destination belongs to its dialog alone and is chosen when it is sent.  *)
(***************************************************************************)
EXTENDS MailboxSetup

CONSTANTS
    MaxRequests,    \* requests the user makes
    MaxLoads,       \* loads under way
    MaxFolderLoads, \* loads of folders
    MaxFaults       \* requests that are lost or refused for other reasons

FolderKeys == [add: BOOLEAN, id: Ids, box: Boxes]
Forms == [add: BOOLEAN, id: Ids, box: Boxes, enabled: BOOLEAN]

ASSUME ConsoleMailboxesAssumption ==
    /\ None \notin {"error", "GMAIL", "OUTLOOK"} \cup Ids \cup Forms \cup FolderKeys
    /\ "error" \notin Boxes
    /\ Ids \cap {"GMAIL", "OUTLOOK"} = {}
    /\ {MaxRequests, MaxLoads, MaxFolderLoads, MaxFaults} \subseteq Nat

VARIABLES
    seen,     \* what the page loaded last, or None
    loads,    \* loads that have been served and not applied
    form,     \* the source in the dialog, or None
    tested,   \* the mailbox of the test result shown: None, "error", a mailbox
    late,     \* history: the result shown is of a test that was answered
              \* after the form had been changed or left
    asking,   \* whether "save without a test?" is asked
    folders,  \* the mailbox whose folders are offered, or None
    fetched,  \* the form they were fetched for, folderFetchSuccessSignatureRef
    fetching, \* forms whose folders are being fetched
    busy,     \* emailAccountFoldersLoading
    confirm,  \* the request a confirmation is asked for, or None
    calls,    \* requests under way
    page,     \* "console", "consent" or "callback"
    consent,  \* what consent is asked for, and the state of its code
    requests, folderLoads, faults   \* budgets used

dialogVars == <<form, tested, late, asking>>
folderVars == <<folders, fetched, fetching, busy, folderLoads>>
pageVars == <<page, consent>>
consoleVars == <<seen, loads, dialogVars, folderVars, confirm, calls, pageVars,
                 requests, faults>>
vars == <<setupVars, consoleVars>>

---------------------------------------------------------------------------
(* What the server shows: the accounts, and the destination's link. *)

View == [rows |-> rows, dest |-> dest,
         linked |-> IF dest.provider \in {None, "GMAIL"} THEN gmail # None
                    ELSE dest.provider = "IMAP" \/ outlook]

NoConsent == [of |-> None, box |-> None, code |-> "none"]

ConsoleInit ==
    /\ SetupInit
    /\ seen = None /\ loads = {}
    /\ form = None /\ tested = None /\ late = FALSE /\ asking = FALSE
    /\ folders = None /\ fetched = None /\ fetching = {} /\ busy = FALSE
    /\ confirm = None
    /\ calls = {}
    /\ page = "console" /\ consent = NoConsent
    /\ requests = 0 /\ folderLoads = 0 /\ faults = 0

InFlight(ops) == \E c \in calls : c.op \in ops

Listed(id) == seen # None /\ seen.rows[id] # None

---------------------------------------------------------------------------
(* Requests and loads. *)

\* A kind of request that is under way keeps its button from being pressed.
Request(c) ==
    /\ requests < MaxRequests
    /\ ~InFlight({c.op})
    /\ requests' = requests + 1
    /\ calls' = calls \cup {c}

\* What is read may be applied after something newer.
StartLoad ==
    /\ Cardinality(loads \cup {View}) <= MaxLoads
    /\ loads' = loads \cup {View}

LoadAppData ==
    /\ page = "console"
    /\ StartLoad
    /\ UNCHANGED <<setupVars, seen, dialogVars, folderVars, confirm, calls,
                   pageVars, requests, faults>>

\* The page shows all that was loaded; a dialog that is open keeps its form.
ApplyLoad(v) ==
    /\ v \in loads
    /\ loads' = loads \ {v}
    /\ seen' = v
    /\ UNCHANGED <<setupVars, dialogVars, folderVars, confirm, calls, pageVars,
                   requests, faults>>

\* One of its requests fails, and nothing is applied.
LoseLoad(v) ==
    /\ v \in loads /\ faults < MaxFaults
    /\ loads' = loads \ {v}
    /\ faults' = faults + 1
    /\ UNCHANGED <<setupVars, seen, dialogVars, folderVars, confirm, calls,
                   pageVars, requests>>

---------------------------------------------------------------------------
(* The folders offered in the dialog. *)

Key(f) == [add |-> f.add, id |-> f.id, box |-> f.box]

LoadFolders(k) ==
    IF folderLoads < MaxFolderLoads
    THEN /\ fetching' = fetching \cup {k}
         /\ busy' = TRUE
         /\ folderLoads' = folderLoads + 1
    ELSE UNCHANGED <<fetching, busy, folderLoads>>

\* The folder field is entered: folders are fetched unless they are being
\* fetched or were fetched for this very form.
FocusFolder ==
    /\ form # None
    /\ ~busy /\ fetched # Key(form)
    /\ folderLoads < MaxFolderLoads
    /\ LoadFolders(Key(form))
    /\ UNCHANGED <<folders, fetched, setupVars, seen, loads, dialogVars, confirm,
                   calls, pageVars, requests, faults>>

\* Fault: what was fetched is noted by the form that is shown by then.
FoldersArriveForShown(k) ==
    /\ k \in fetching
    /\ fetching' = fetching \ {k}
    /\ busy' = FALSE
    /\ folders' = k.box
    /\ fetched' = IF form = None THEN k ELSE Key(form)
    /\ UNCHANGED <<faults, setupVars, seen, loads, dialogVars, folderLoads,
                   confirm, calls, pageVars, requests>>

FoldersArrive(k) ==
    /\ k \in fetching
    /\ fetching' = fetching \ {k}
    /\ busy' = FALSE
    /\ \/ folders' = k.box /\ fetched' = k /\ UNCHANGED faults
       \/ /\ faults < MaxFaults /\ faults' = faults + 1
          /\ folders' = None /\ UNCHANGED fetched
    /\ UNCHANGED <<setupVars, seen, loads, dialogVars, folderLoads, confirm,
                   calls, pageVars, requests>>

---------------------------------------------------------------------------
(* The dialog of a source. *)

AtList == page = "console" /\ form = None /\ confirm = None

\* A source is added: the dialog opens and is filled in.
OpenAdd(id, box) ==
    /\ AtList
    /\ form' = [add |-> TRUE, id |-> id, box |-> box, enabled |-> TRUE]
    /\ tested' = None /\ late' = FALSE /\ asking' = FALSE
    /\ folders' = None /\ fetched' = None
    /\ UNCHANGED <<fetching, busy, folderLoads, setupVars, seen, loads, confirm,
                   calls, pageVars, requests, faults>>

\* A source is edited as it is listed, and its folders are fetched.
Edit(id) ==
    /\ AtList /\ Listed(id)
    /\ form' = [add |-> FALSE, id |-> id, box |-> seen.rows[id].box,
                enabled |-> seen.rows[id].enabled]
    /\ tested' = None /\ late' = FALSE /\ asking' = FALSE
    /\ folders' = None /\ fetched' = None
    /\ \/ ~busy /\ LoadFolders(Key(form'))
       \/ busy /\ UNCHANGED <<fetching, busy, folderLoads>>
    /\ UNCHANGED <<setupVars, seen, loads, confirm, calls, pageVars, requests,
                   faults>>

\* Fault: the result of a test stays when the form is changed.
HandleFormChangeOnly(f) ==
    /\ form # None /\ ~asking
    /\ form' = f
    /\ folders' = IF Key(f) = Key(form) THEN folders ELSE None
    /\ fetched' = IF Key(f) = Key(form) THEN fetched ELSE None
    /\ UNCHANGED <<tested, late, asking, fetching, busy, folderLoads, setupVars, seen,
                   loads, confirm, calls, pageVars, requests, faults>>

\* Any change of the form makes its test void, and a change of what folders
\* are fetched by makes them void as well.
HandleEmailAccountFormChange(f) ==
    /\ form # None /\ ~asking
    /\ form' = f
    /\ tested' = None /\ late' = FALSE
    /\ folders' = IF Key(f) = Key(form) THEN folders ELSE None
    /\ fetched' = IF Key(f) = Key(form) THEN fetched ELSE None
    /\ UNCHANGED <<asking, fetching, busy, folderLoads, setupVars, seen, loads,
                   confirm, calls, pageVars, requests, faults>>

\* The provider, the host or the user name is changed ...
EditConnection(box) ==
    HandleEmailAccountFormChange([form EXCEPT !.box = box])

\* ... or labels, or what is done after a poll ...
EditOption == tested # None /\ HandleEmailAccountFormChange(form)

\* ... or whether the source is enabled.
EditEnabled == HandleEmailAccountFormChange([form EXCEPT !.enabled = ~@])

CloseDialog ==
    /\ form # None /\ ~asking
    /\ form' = None /\ tested' = None /\ late' = FALSE
    /\ folders' = None /\ fetched' = None
    /\ UNCHANGED <<asking, fetching, busy, folderLoads, setupVars, seen, loads,
                   confirm, calls, pageVars, requests, faults>>

SaveRequest(op, enabled) ==
    [op |-> op, phase |-> "sent", add |-> form.add, id |-> form.id,
     box |-> form.box, enabled |-> enabled, tested |-> tested, late |-> late]

\* A name the page lists is refused at once.
NameIsFree == form.add => ~Listed(form.id)

\* A source of a Microsoft mailbox is added by its consent only.
CanSaveWithoutOAuth == form.box \notin OAuthBoxes \/ ~form.add

Validated == tested \notin {None, "error"}

\* The form is submitted.  An enabled source that was not tested is asked
\* about instead.
HandleSaveSubmit ==
    /\ form # None /\ ~asking /\ CanSaveWithoutOAuth
    /\ IF form.enabled /\ ~Validated
       THEN /\ asking' = TRUE
            /\ UNCHANGED <<calls, requests>>
       ELSE /\ NameIsFree
            /\ Request(SaveRequest("save", form.enabled))
            /\ UNCHANGED asking
    /\ UNCHANGED <<form, tested, late, setupVars, seen, loads, folderVars, confirm,
                   pageVars, faults>>

SaveDisabledWithoutTesting ==
    /\ asking /\ NameIsFree
    /\ Request(SaveRequest("save", FALSE))
    /\ asking' = FALSE
    /\ UNCHANGED <<form, tested, late, setupVars, seen, loads, folderVars, confirm,
                   pageVars, faults>>

SaveAndConnectOAuth ==
    /\ form # None /\ ~asking /\ form.box \in OAuthBoxes
    /\ NameIsFree
    /\ Request(SaveRequest("connect", form.enabled))
    /\ UNCHANGED <<dialogVars, setupVars, seen, loads, folderVars, confirm,
                   pageVars, faults>>

\* The form is tested, from the dialog or instead of a save.
TestConnection ==
    /\ form # None
    /\ Request([op |-> "test", phase |-> "sent", of |-> Key(form)])
    /\ asking' = FALSE
    /\ UNCHANGED <<form, tested, late, setupVars, seen, loads, folderVars, confirm,
                   pageVars, faults>>

CancelAsking ==
    /\ asking
    /\ asking' = FALSE
    /\ UNCHANGED <<form, tested, late, setupVars, seen, loads, folderVars, confirm,
                   calls, pageVars, requests, faults>>

---------------------------------------------------------------------------
(* The list of sources. *)

\* The row as it is listed is sent back with the switch turned.
ToggleEmailAccountEnabled(id) ==
    /\ AtList /\ Listed(id)
    /\ Request([op |-> "toggle", phase |-> "sent", add |-> FALSE, id |-> id,
                box |-> seen.rows[id].box, enabled |-> ~seen.rows[id].enabled,
                tested |-> None, late |-> FALSE])
    /\ UNCHANGED <<dialogVars, setupVars, seen, loads, folderVars, confirm,
                   pageVars, faults>>

Ask(c) ==
    /\ confirm' = c
    /\ UNCHANGED <<dialogVars, setupVars, seen, loads, folderVars, calls,
                   pageVars, requests, faults>>

\* A poll of one source; the page is loaded again however it ends.
RunFetcherPoll(id) ==
    /\ AtList /\ Listed(id) /\ seen.rows[id].enabled
    /\ Request([op |-> "poll", phase |-> "sent", id |-> id])
    /\ UNCHANGED <<dialogVars, setupVars, seen, loads, folderVars, confirm,
                   pageVars, faults>>

DeleteEmailAccount(id) ==
    AtList /\ Listed(id) /\ Ask([op |-> "delete", phase |-> "sent", id |-> id])

---------------------------------------------------------------------------
(* The destination. *)

\* The provider the page takes to be linked: whatever is linked and is not
\* Gmail passes for Microsoft, a plain IMAP password too.
CurrentLinkedOAuthProvider ==
    IF seen = None \/ ~seen.linked THEN None
    ELSE IF seen.dest.provider \in {None, "GMAIL"} THEN "GOOGLE"
    ELSE "MICROSOFT"

\* The credential the page shows.
Shown ==
    IF seen = None \/ ~seen.linked \/ seen.dest.provider = "IMAP" THEN None
    ELSE IF seen.dest.provider = "OUTLOOK" THEN "MICROSOFT" ELSE "GOOGLE"

DestinationRequest(d, then) ==
    [op |-> "destination", phase |-> "sent", dest |-> d, then |-> then,
     shown |-> Shown, confirmed |-> FALSE]

SendOrAsk(c, ask) ==
    IF ask THEN Ask([c EXCEPT !.confirmed = TRUE])
    ELSE /\ Request(c)
         /\ UNCHANGED <<dialogVars, setupVars, seen, loads, folderVars, confirm,
                        pageVars, faults>>

\* The dialog offers a plain save when no new sign-in is needed.
CanPlainSave(d) ==
    \/ d.provider = "IMAP"
    \/ d.provider = "OUTLOOK" /\ seen # None /\ d = seen.dest

\* A plain save: of an IMAP destination, or of an Outlook one whose account
\* stays the same.
SaveDestinationConfig(d) ==
    /\ AtList
    /\ CanPlainSave(d)
    /\ LET c == DestinationRequest(d, None)
       IN  SendOrAsk(c, /\ CurrentLinkedOAuthProvider # None
                        /\ CurrentLinkedOAuthProvider # RequestedProvider(d))

SaveDestinationConfigAndAuthenticate(d) ==
    /\ AtList
    /\ d.provider \in {"GMAIL", "OUTLOOK"}
    /\ LET c == DestinationRequest(d, d.provider)
       IN  SendOrAsk(c, CurrentLinkedOAuthProvider # None)

UnlinkDestinationAccount ==
    /\ AtList /\ seen # None /\ seen.linked
    /\ Ask([op |-> "unlink", phase |-> "sent", confirmed |-> TRUE])

---------------------------------------------------------------------------
(* Confirmations. *)

\* Deleting and unlinking keep their question on the screen until they are
\* answered.
ConfirmYes ==
    /\ confirm # None
    /\ Request(confirm)
    /\ confirm' = IF confirm.op = "destination" THEN None ELSE confirm
    /\ UNCHANGED <<dialogVars, setupVars, seen, loads, folderVars, pageVars,
                   faults>>

ConfirmNo ==
    /\ confirm # None
    /\ Ask(None)

---------------------------------------------------------------------------
(* The server's side of a request, and its answer. *)

Advance(c, phase) == calls' = (calls \ {c}) \cup {[c EXCEPT !.phase = phase]}

Perform(c) ==
    \/ c.op \in {"save", "connect", "toggle"}
         /\ Upsert(c.add, c.id, c.box, c.enabled)
    \/ c.op = "delete" /\ Delete(c.id)
    \/ c.op = "destination" /\ UpdateDestination(c.dest)
    \/ c.op = "unlink" /\ UnlinkDestination
    \/ c.op \in {"test", "poll"} /\ UNCHANGED setupVars

Serve(c) ==
    /\ c \in calls /\ c.phase = "sent"
    /\ Perform(c)
    /\ Advance(c, "done")
    /\ UNCHANGED <<seen, loads, dialogVars, folderVars, confirm, pageVars,
                   requests, faults>>

Refused(c) ==
    \/ c.op \in {"save", "connect", "toggle"}
         /\ ~UpsertAccepted(c.add, c.id, c.box, c.enabled)
    \/ c.op = "delete" /\ rows[c.id] = None

\* The server refuses it, or it is lost on its way there or back.
Fail(c) ==
    /\ c \in calls /\ c.phase \in {"sent", "done"}
    /\ \/ c.phase = "sent" /\ Refused(c) /\ UNCHANGED faults
       \/ faults < MaxFaults /\ faults' = faults + 1
    /\ Advance(c, "failed")
    /\ UNCHANGED <<setupVars, seen, loads, dialogVars, folderVars, confirm,
                   pageVars, requests>>

\* The page is left for the consent of c: what it knew is gone, and what it
\* sent is not answered.
LeaveFor(of) ==
    /\ page' = "consent" /\ consent' = [of |-> of, box |-> None, code |-> "none"]
    /\ seen' = None /\ loads' = {} /\ confirm' = None
    /\ form' = None /\ tested' = None /\ late' = FALSE /\ asking' = FALSE
    /\ folders' = None /\ fetched' = None /\ fetching' = {} /\ busy' = FALSE
    /\ UNCHANGED <<setupVars, folderLoads, faults>>

\* A test ends with the folders of what was tested, and its result is shown
\* whatever form is open by then.
TestAnswered(c) ==
    /\ c \in calls /\ c.op = "test" /\ c.phase \in {"done", "failed"}
    /\ calls' = calls \ {c}
    /\ late' = (c.phase = "done" /\ (form = None \/ Key(form) # c.of))
    /\ IF c.phase = "done"
       THEN tested' = c.of.box /\ LoadFolders(c.of)
       ELSE tested' = "error" /\ UNCHANGED <<fetching, busy, folderLoads>>
    /\ UNCHANGED <<folders, fetched, form, asking, setupVars, seen, loads,
                   confirm, pageVars, requests, faults>>

\* A save that succeeds closes the dialog and loads the page again.
SaveAnswered(c) ==
    /\ c \in calls /\ c.op \in {"save", "toggle"}
    /\ c.phase \in {"done", "failed"}
    /\ calls' = calls \ {c}
    /\ IF c.phase = "done" THEN StartLoad ELSE UNCHANGED loads
    /\ IF c.phase = "done" /\ c.op = "save"
       THEN form' = None /\ tested' = None /\ late' = FALSE /\ asking' = FALSE
       ELSE UNCHANGED dialogVars
    /\ UNCHANGED <<setupVars, seen, folderVars, confirm, pageVars, requests,
                   faults>>

\* Once a save that asks for consent is answered, whatever the answer, the
\* page leaves for it.
ConnectAnswered(c) ==
    /\ c \in calls /\ c.op = "connect" /\ c.phase \in {"done", "failed"}
    /\ calls' = {}
    /\ LeaveFor(c.id)
    /\ UNCHANGED requests

PollAnswered(c) ==
    /\ c \in calls /\ c.op = "poll" /\ c.phase \in {"done", "failed"}
    /\ calls' = calls \ {c}
    /\ StartLoad
    /\ UNCHANGED <<setupVars, seen, dialogVars, folderVars, confirm, pageVars,
                   requests, faults>>

ConfirmedAnswered(c) ==
    /\ c \in calls /\ c.op \in {"delete", "unlink"}
    /\ c.phase \in {"done", "failed"}
    /\ calls' = calls \ {c}
    /\ IF c.phase = "done" THEN StartLoad ELSE UNCHANGED loads
    /\ confirm' = IF c.phase = "done" THEN None ELSE confirm
    /\ UNCHANGED <<setupVars, seen, dialogVars, folderVars, pageVars, requests,
                   faults>>

DestinationAnswered(c) ==
    /\ c \in calls /\ c.op = "destination" /\ c.phase \in {"done", "failed"}
    /\ IF c.phase = "done" /\ c.then # None
       THEN calls' = {} /\ LeaveFor(c.then) /\ UNCHANGED requests
       ELSE /\ calls' = calls \ {c}
            /\ IF c.phase = "done" THEN StartLoad ELSE UNCHANGED loads
            /\ UNCHANGED <<setupVars, seen, dialogVars, folderVars, confirm,
                           pageVars, requests, faults>>

---------------------------------------------------------------------------
(* Consent. *)

\* The list's own way to the consent page.
ConnectOAuth(id) ==
    /\ AtList /\ Listed(id) /\ seen.rows[id].box \in OAuthBoxes
    /\ requests < MaxRequests /\ requests' = requests + 1
    /\ calls' = {}
    /\ LeaveFor(id)

\* The user consents, for a destination with any account of the provider.
\* The start page refuses a source it does not know.
Consented(box) ==
    /\ page = "consent"
    /\ consent.of \in Ids => rows[consent.of] # None /\ rows[consent.of].box = box
    /\ page' = "callback"
    /\ consent' = [consent EXCEPT !.box = box, !.code = "new"]
    /\ UNCHANGED <<setupVars, seen, loads, dialogVars, folderVars, confirm,
                   calls, requests, faults>>

Exchange ==
    \/ consent.of \in Ids /\ StoreSourceGrant(consent.of)
    \/ consent.of = "OUTLOOK" /\ LinkOutlook(consent.box)
    \/ consent.of = "GMAIL" /\ LinkGmail(consent.box)

\* The callback page exchanges its code at once, and again when the user
\* asks after an error; the server takes a code once.
ExchangeCode ==
    /\ page = "callback" /\ consent.code = "new"
    /\ \/ Exchange /\ consent' = [consent EXCEPT !.code = "spent"]
       \/ /\ UNCHANGED setupVars
          /\ consent' = [consent EXCEPT !.code = "spent"]
    /\ UNCHANGED <<page, seen, loads, dialogVars, folderVars, confirm, calls,
                   requests, faults>>

\* The page returns by itself after a success, or when the user asks; the
\* user may also come back without consent.
ReturnToConsole ==
    /\ page # "console"
    /\ page' = "console" /\ consent' = NoConsent
    /\ UNCHANGED <<setupVars, seen, loads, dialogVars, folderVars, confirm,
                   calls, requests, faults>>

---------------------------------------------------------------------------
TestsEnd(id) ==
    /\ EnableAfterSuccessfulOauthConnection(id)
    /\ UNCHANGED consoleVars

UserActs ==
    \/ \E id \in Ids : \/ \E b \in Boxes : OpenAdd(id, b)
                       \/ Edit(id)
                       \/ ToggleEmailAccountEnabled(id)
                       \/ RunFetcherPoll(id)
                       \/ DeleteEmailAccount(id)
                       \/ ConnectOAuth(id)
    \/ \E b \in Boxes : form # None /\ EditConnection(b)
    \/ form # None /\ (EditOption \/ EditEnabled)
    \/ CloseDialog \/ FocusFolder
    \/ HandleSaveSubmit \/ SaveDisabledWithoutTesting \/ SaveAndConnectOAuth
    \/ TestConnection \/ CancelAsking
    \/ \E d \in Drafts : \/ SaveDestinationConfig(d)
                         \/ SaveDestinationConfigAndAuthenticate(d)
    \/ UnlinkDestinationAccount \/ ConfirmYes \/ ConfirmNo
    \/ \E b \in OAuthBoxes : Consented(b)
    \/ ReturnToConsole

Answers ==
    \E c \in calls : \/ TestAnswered(c) \/ SaveAnswered(c) \/ ConnectAnswered(c)
                     \/ PollAnswered(c) \/ ConfirmedAnswered(c) \/ DestinationAnswered(c)

ApplySomeLoad == \E v \in loads : ApplyLoad(v)

Next ==
    \/ UserActs
    \/ \E c \in calls : Serve(c) \/ Fail(c)
    \/ Answers
    \/ \E k \in fetching : FoldersArrive(k)
    \/ LoadAppData \/ ApplySomeLoad \/ \E v \in loads : LoseLoad(v)
    \/ ExchangeCode
    \/ \E id \in Ids : TestsEnd(id)

Spec == ConsoleInit /\ [][Next]_vars

---------------------------------------------------------------------------
(* A source is saved enabled by the form only as it was tested: the mailbox *)
(* of the request is the one whose successful test the dialog shows, or the *)
(* source is saved disabled (EmailAccountDialog.handleSaveSubmit,           *)
(* useEmailAccountsController.handleEmailAccountFormChange).  The exception *)
(* is a result that came after the form it was asked for had been changed   *)
(* or closed, as long as it is shown.                                       *)
SavesAreTested ==
    \A c \in calls : (c.op = "save" /\ c.enabled) => (c.tested = c.box \/ c.late)

(* Folders the dialog takes to be fetched for its form are folders of the *)
(* form's mailbox, in whatever order the fetches of several forms end     *)
(* (useEmailAccountsController.ensureEmailAccountFoldersForForm).         *)
FoldersAreTheForms ==
    (form # None /\ fetched = Key(form)) => folders \in {form.box, None}

===========================================================================
