------------------------- MODULE ConsoleWorkspace -------------------------
(***************************************************************************)
(* The preferences, the layout editing and the notices of the web          *)
(* application: one record per user on the server, the copy the page       *)
(* shows, the list of notices, and the calls between them.  The page       *)
(* writes the whole record on every change and takes the whole record from *)
(* every answer; a list of notices that differs from the one in the record *)
(* is saved by an effect; a timer loads everything again through the       *)
(* functions of the render it was started in.                              *)
(*                                                                         *)
(* One choice, the time zone, stands for the language, the theme, the date *)
(* format and the zone, and one flag for the sections that are folded.     *)
(***************************************************************************)
EXTENDS Naturals, Sequences

CONSTANTS
    Users,        \* accounts that sign in to this browser
    Nobody,       \* no account
    Sections,     \* the sections of a workspace, a sequence
    Zones,        \* choices of a time zone
    DefaultZone,  \* the browser's own
    Slots,        \* bound: calls in flight at once
    Group,        \* a group key of notices
    NoGroup,      \* a notice without one
    MaxHistory,   \* MAX_NOTIFICATION_HISTORY
    MaxEvents,    \* bound: acts of the user, reloads, notices and failures
    MaxSignIns,   \* bound: sign-ins
    Grouping      \* whether a notice comes back within the grouping window

\* What the constants may be.
ASSUME BoundsAssumption ==
    /\ MaxEvents \in Nat
    /\ MaxSignIns \in Nat
    /\ MaxHistory \in Nat \ {0}
    /\ Grouping \in BOOLEAN
ASSUME NamesAssumption ==
    /\ Nobody \notin Users
    /\ DefaultZone \in Zones
    /\ Group # NoGroup

VARIABLES
    session,   \* the account that is signed in
    prefs,     \* uiPreferencesRef
    loadedFor, \* uiPreferencesLoadedForUserId
    snapshot,  \* layoutEditSnapshotRef
    notices,   \* notifications
    saving,    \* the pending flag of a save
    stored,    \* the server's row of each user
    hint,      \* the zone kept in the browser for each user
    zoneHint,  \* the one read when this session began
    reloadTimer, \* what the timer's functions remember of their render
    wire,      \* the calls in flight
    events,    \* events so far
    logins,    \* sign-ins so far
    raised,    \* notices so far
    mixed      \* history: for whom the page took an answer of someone else's session

shownVars == <<prefs, loadedFor, snapshot, notices, saving>>
spentVars == <<events, logins, raised>>
workspaceVars == <<session, shownVars, stored, hint, zoneHint, reloadTimer, wire, spentVars, mixed>>

Someone == Users \cup {Nobody}
Orders == {o \in [1 .. Len(Sections) -> {Sections[i] : i \in 1 .. Len(Sections)}] :
             \A i, j \in 1 .. Len(Sections) : o[i] = o[j] => i = j}
Layout == [order : Orders, folded : BOOLEAN]
NoLayout == [order |-> Sections, folded |-> FALSE, none |-> TRUE]
Notice == [id : Nat, owner : Someone, group : {Group, NoGroup}, count : Nat,
           floats : BOOLEAN]
History == {h \in Seq(Notice) : Len(h) <= MaxHistory}
Prefs == [order : Orders, folded : BOOLEAN, zone : Zones, keep : BOOLEAN,
          edit : BOOLEAN, history : History]
Kinds == {"none", "save", "load", "locale"}
Call == [kind : Kinds, user : Someone, login : Nat, stage : {"sent", "done"}, body : Prefs,
         skip : Someone]
Defaults == [order |-> Sections, folded |-> FALSE, zone |-> DefaultZone,
             keep |-> FALSE, edit |-> FALSE, history |-> <<>>]
NoCall == [kind |-> "none", user |-> Nobody, login |-> 0, stage |-> "sent",
           body |-> Defaults, skip |-> Nobody]

WorkspaceTypeOK ==
    /\ session \in Someone
    /\ prefs \in Prefs
    /\ loadedFor \in Someone
    /\ snapshot \in Layout \cup {NoLayout}
    /\ notices \in History
    /\ saving \in BOOLEAN
    /\ stored \in [Users -> Prefs]
    /\ hint \in [Users -> Zones]
    /\ zoneHint \in Zones
    /\ reloadTimer \in [zone : Zones, loadedFor : Someone]
    /\ wire \in [Slots -> Call]
    /\ events \in Nat
    /\ logins \in Nat
    /\ raised \in Nat
    /\ mixed \subseteq Someone

WorkspaceInit ==
    /\ session = Nobody
    /\ prefs = Defaults
    /\ loadedFor = Nobody
    /\ snapshot = NoLayout
    /\ notices = <<>>
    /\ saving = FALSE
    /\ stored = [u \in Users |-> Defaults]
    /\ hint = [u \in Users |-> DefaultZone]
    /\ zoneHint = DefaultZone
    /\ reloadTimer = [zone |-> DefaultZone, loadedFor |-> Nobody]
    /\ wire = [c \in Slots |-> NoCall]
    /\ events = 0
    /\ logins = 0
    /\ raised = 0
    /\ mixed = {}

Event == events < MaxEvents /\ events' = events + 1

\* A call goes out with the cookie of the session of now.
Known(c) == session # Nobody /\ wire[c].login = logins
Made(kind, u, login, p, skip) ==
    [kind |-> kind, user |-> u, login |-> login, stage |-> "sent", body |-> p, skip |-> skip]
Sent(kind, p, skip) == Made(kind, session, logins, p, skip)

-----------------------------------------------------------------------------
(***************************************************************************)
(* The record.                                                             *)
(***************************************************************************)

\* normalizeUiPreferences: a layout that is not kept comes back unfolded and
\* not being edited, in the order that was sent.
Normal(p) == IF p.keep THEN p ELSE [p EXCEPT !.folded = FALSE, !.edit = FALSE]

\* normalizeNotificationHistory: the newest entries.
Newest(h) == IF Len(h) <= MaxHistory THEN h
             ELSE SubSeq(h, Len(h) - MaxHistory + 1, Len(h))

\* The server's view of a notice has no repeat count.
ServerRecord(p) ==
    [p EXCEPT !.history = [i \in DOMAIN @ |-> [@[i] EXCEPT !.count = 1]]]

CaptureLayout(p) == [order |-> p.order, folded |-> p.folded]
ApplyLayout(p, s) == IF s = NoLayout THEN p
                     ELSE [p EXCEPT !.order = s.order, !.folded = s.folded]

\* commitUiPreferences of a render in which u was signed in.
Keep(u, p) == IF u = Nobody THEN hint ELSE [hint EXCEPT ![u] = p.zone]
CommitAs(u, p) == prefs' = p /\ hint' = Keep(u, p)
Commit(p) == CommitAs(session, p)

\* persistUiPreferences sends the record if someone is signed in.
Persist(p) ==
    IF session = Nobody THEN UNCHANGED <<wire, saving>>
    ELSE \E c \in Slots :
           /\ wire[c] = NoCall
           /\ wire' = [wire EXCEPT ![c] = Sent("save", p, Nobody)]
           /\ saving' = TRUE

CommitAndPersist(p) == Commit(p) /\ Persist(p)
CommitAndKeep(p) ==
    /\ Commit(p)
    /\ IF p.keep THEN Persist(p) ELSE UNCHANGED <<wire, saving>>

\* updateUiPreferencesLocally: normalized, but still being edited.
UpdateLocally(p) == CommitAndKeep([Normal(p) EXCEPT !.edit = p.edit])

-----------------------------------------------------------------------------
(***************************************************************************)
(* What the user does.  The preferences dialog is disabled while a save is *)
(* pending; the sections and the layout tools are not.                     *)
(***************************************************************************)
Acts == session # Nobody /\ Event /\ UNCHANGED <<logins, raised>>
InDialog == Acts /\ ~saving
Stays == UNCHANGED <<session, loadedFor, notices, stored, zoneHint, reloadTimer>>
Same == Stays /\ UNCHANGED mixed

\* Sections in a new order: one moved a place up or down, or dropped elsewhere.
Swapped(o, i) == [o EXCEPT ![i] = o[i + 1], ![i + 1] = o[i]]
Without(o, i) == SubSeq(o, 1, i - 1) \o SubSeq(o, i + 1, Len(o))
Dropped(o, i, target) ==
    LET at == IF i < target THEN target - 1 ELSE target
        rest == Without(o, i)
    IN SubSeq(rest, 1, at - 1) \o <<o[i]>> \o SubSeq(rest, at, Len(rest))

Editing == prefs.edit \/ snapshot # NoLayout
Arranged(o) == UpdateLocally([prefs EXCEPT !.order = o, !.edit = Editing])

\* The arrows and the handle of a section are there while the layout is being
\* edited: the first section has no way up and the last no way down, and a
\* section is dropped before another or after the last.
ToolsShown == prefs.edit
MovableDown == 1 .. Len(Sections) - 1
DropTargets == 1 .. Len(Sections) + 1

MoveSection ==
    /\ ToolsShown /\ Acts
    /\ \E i \in MovableDown : Arranged(Swapped(prefs.order, i))
    /\ UNCHANGED snapshot /\ Same

ReorderSections ==
    /\ ToolsShown /\ Acts
    /\ \E i \in 1 .. Len(Sections), target \in DropTargets :
         Arranged(Dropped(prefs.order, i, target))
    /\ UNCHANGED snapshot /\ Same

ToggleSection ==
    /\ Acts
    /\ CommitAndKeep([prefs EXCEPT !.folded = ~@])
    /\ UNCHANGED snapshot /\ Same

HandleZoneChange ==
    /\ InDialog
    /\ \E z \in Zones \ {prefs.zone} : CommitAndPersist([prefs EXCEPT !.zone = z])
    /\ UNCHANGED snapshot /\ Same

\* The setup guide is hidden or shown again, folded or not with it.
HandleQuickSetupVisibilityChange ==
    /\ InDialog
    /\ \E visible \in BOOLEAN : CommitAndKeep([prefs EXCEPT !.folded = ~visible])
    /\ UNCHANGED snapshot /\ Same

HandlePersistLayoutChange ==
    /\ InDialog
    /\ CommitAndPersist([prefs EXCEPT !.keep = ~@])
    /\ UNCHANGED snapshot /\ Same

ResetLayoutPreferences ==
    /\ InDialog
    /\ UpdateLocally([Defaults EXCEPT !.keep = prefs.keep, !.zone = prefs.zone])
    /\ UNCHANGED snapshot /\ Same

StartLayoutEditing ==
    /\ InDialog /\ ~prefs.edit
    /\ snapshot' = IF snapshot = NoLayout THEN CaptureLayout(prefs) ELSE snapshot
    /\ Commit([prefs EXCEPT !.edit = TRUE])
    /\ UNCHANGED <<wire, saving>> /\ Same

CommitLayoutEditing ==
    /\ ToolsShown /\ Acts
    /\ snapshot' = NoLayout
    /\ CommitAndPersist([prefs EXCEPT !.edit = FALSE])
    /\ Same

DiscardLayoutEditing ==
    /\ ToolsShown /\ Acts
    /\ snapshot' = NoLayout
    /\ CommitAndPersist(ApplyLayout([prefs EXCEPT !.edit = FALSE], snapshot))
    /\ Same

\* The page takes the answer to a call of a session of another user, or of one
\* that has ended.
Takes(call) == mixed' = IF call.user = session THEN mixed ELSE mixed \cup {session}

\* handleLanguageChange waits for the texts of the language with the record
\* it read, then commits and sends that record.
HandleLanguageChange ==
    /\ InDialog
    /\ \E c \in Slots :
         /\ wire[c] = NoCall
         /\ wire' = [wire EXCEPT ![c] = Sent("locale", prefs, Nobody)]
    /\ UNCHANGED <<prefs, snapshot, saving, hint>> /\ Same

LocaleLoaded(c) ==
    /\ wire[c].kind = "locale"
    /\ CommitAs(wire[c].user, wire[c].body)
    /\ wire' = [wire EXCEPT ![c] = Made("save", @.user, logins, @.body, Nobody)]
    /\ saving' = TRUE
    /\ Takes(wire[c])
    /\ UNCHANGED <<snapshot, spentVars>> /\ Stays

-----------------------------------------------------------------------------
(***************************************************************************)
(* Notices.                                                                *)
(***************************************************************************)

\* notificationDeduplicationKey.
Alike(n, group) == n.group # NoGroup /\ n.group = group

\* pushNotification: the new notice takes the place of the one in its group, of
\* which a list has no more than one, and counts it if it came within the window.
WithNotice(h, group, owner, id) ==
    LET alike == {i \in DOMAIN h : Alike(h[i], group)}
        others == IF alike = {} THEN h ELSE Without(h, CHOOSE i \in alike : TRUE)
        count == IF Grouping /\ alike # {} THEN h[CHOOSE i \in alike : TRUE].count + 1 ELSE 1
    IN Newest(Append(others, [id |-> id, owner |-> owner, group |-> group,
                              count |-> count, floats |-> TRUE]))

PushNotification ==
    /\ session # Nobody
    /\ Event /\ raised' = raised + 1 /\ UNCHANGED logins
    /\ \E g \in {Group, NoGroup} : notices' = WithNotice(notices, g, session, raised + 1)
    /\ UNCHANGED <<session, prefs, loadedFor, snapshot, saving, stored, hint,
                   zoneHint, reloadTimer, wire, mixed>>

Notices(h) ==
    /\ notices' = h
    /\ UNCHANGED <<session, prefs, loadedFor, snapshot, saving, stored, hint,
                   zoneHint, reloadTimer, wire, mixed>>

DismissNotification ==
    Acts /\ \E i \in DOMAIN notices : Notices(Without(notices, i))
ClearAllNotifications == Acts /\ notices # <<>> /\ Notices(<<>>)

\* The timer of a floating notice runs out.
HideFloating ==
    /\ \E i \in DOMAIN notices :
         notices[i].floats /\ Notices([notices EXCEPT ![i].floats = FALSE])
    /\ UNCHANGED spentVars

\* The effect that saves a history that differs from the one in the record.
SameHistory(h, k) == Newest(h) = Newest(k)

SaveUnloadedHistory ==
    /\ session # Nobody
    /\ ~SameHistory(notices, prefs.history)
    /\ CommitAndPersist([prefs EXCEPT !.history = notices])
    /\ UNCHANGED <<session, loadedFor, snapshot, notices, stored, zoneHint, reloadTimer,
                   spentVars, mixed>>

SaveHistory ==
    /\ session # Nobody
    /\ loadedFor = session
    /\ ~SameHistory(notices, prefs.history)
    /\ CommitAndPersist([prefs EXCEPT !.history = notices])
    /\ UNCHANGED <<session, loadedFor, snapshot, notices, stored, zoneHint, reloadTimer,
                   spentVars, mixed>>

-----------------------------------------------------------------------------
(***************************************************************************)
(* Saves.                                                                  *)
(***************************************************************************)
Ends(c) == wire' = [wire EXCEPT ![c] = NoCall]

\* UserUiPreferenceService.update, for the session the call was sent in.
UpdateRecord(c) ==
    /\ wire[c].kind = "save" /\ wire[c].stage = "sent"
    /\ Known(c)
    /\ stored' = [stored EXCEPT ![session] = ServerRecord(wire[c].body)]
    /\ wire' = [wire EXCEPT ![c] = [@ EXCEPT !.stage = "done"]]
    /\ UNCHANGED <<session, shownVars, hint, zoneHint, reloadTimer, spentVars, mixed>>

\* The answer is the record as it was stored, being edited if it was when the
\* call was made.
PreferencesSaved(c) ==
    /\ wire[c].kind = "save" /\ wire[c].stage = "done"
    /\ CommitAs(wire[c].user,
                [Normal(ServerRecord(wire[c].body)) EXCEPT !.edit = wire[c].body.edit])
    /\ saving' = FALSE
    /\ Takes(wire[c])
    /\ Ends(c)
    /\ UNCHANGED <<session, loadedFor, snapshot, notices, stored, zoneHint, reloadTimer, spentVars>>

\* A call that fails raises a notice.
SaveFails(c) ==
    /\ wire[c].kind = "save"
    /\ Event /\ raised' = raised + 1 /\ UNCHANGED logins
    /\ saving' = FALSE
    /\ notices' = WithNotice(notices, Group, session, raised + 1)
    /\ Ends(c)
    /\ UNCHANGED <<session, prefs, loadedFor, snapshot, stored, hint, zoneHint, reloadTimer,
                   mixed>>

-----------------------------------------------------------------------------
(***************************************************************************)
(* Loads.                                                                  *)
(***************************************************************************)
Loads(skip) ==
    \E c \in Slots :
      /\ wire[c] = NoCall
      /\ wire' = [wire EXCEPT ![c] = Sent("load", Defaults, skip)]

\* loadAppData of the timer's render, and of the render of now.
Reload ==
    /\ session # Nobody
    /\ Event /\ UNCHANGED <<logins, raised>>
    /\ Loads(reloadTimer.loadedFor)
    /\ UNCHANGED <<session, shownVars, stored, hint, zoneHint, reloadTimer, mixed>>

RefreshNow ==
    /\ session # Nobody
    /\ Event /\ UNCHANGED <<logins, raised>>
    /\ Loads(loadedFor)
    /\ UNCHANGED <<session, shownVars, stored, hint, zoneHint, reloadTimer, mixed>>

EffectiveZone == IF loadedFor = session THEN prefs.zone ELSE zoneHint

\* The effect that starts the timer runs again when the zone has changed.
RestartTimer ==
    /\ session # Nobody
    /\ reloadTimer.zone # EffectiveZone
    /\ reloadTimer' = [zone |-> EffectiveZone, loadedFor |-> loadedFor]
    /\ Loads(loadedFor)
    /\ UNCHANGED <<session, shownVars, stored, hint, zoneHint, spentVars, mixed>>

ReadRecord(c) ==
    /\ wire[c].kind = "load" /\ wire[c].stage = "sent"
    /\ Known(c)
    /\ wire' = [wire EXCEPT ![c] = [@ EXCEPT !.stage = "done", !.body = stored[session]]]
    /\ UNCHANGED <<session, shownVars, stored, hint, zoneHint, reloadTimer, spentVars, mixed>>

\* applyLoadedUiPreferences and the notices of the record, unless the render
\* that loads had them already.
LoadAnswered(c) ==
    LET call == wire[c]
        p == Normal(call.body)
    IN
    /\ call.kind = "load" /\ call.stage = "done"
    /\ IF call.skip = call.user THEN UNCHANGED <<prefs, hint, loadedFor, notices, mixed>>
       ELSE /\ CommitAs(call.user, IF snapshot = NoLayout THEN p
                                       ELSE [p EXCEPT !.edit = prefs.edit])
            /\ loadedFor' = call.user
            /\ notices' = Newest(call.body.history)
            /\ Takes(call)
    /\ Ends(c)
    /\ UNCHANGED <<session, snapshot, saving, stored, zoneHint, reloadTimer, spentVars>>

LoadFails(c) ==
    /\ wire[c].kind = "load"
    /\ Event /\ raised' = raised + 1 /\ UNCHANGED logins
    /\ notices' = WithNotice(notices, Group, session, raised + 1)
    /\ Ends(c)
    /\ UNCHANGED <<session, prefs, loadedFor, snapshot, saving, stored, hint,
                   zoneHint, reloadTimer, mixed>>

-----------------------------------------------------------------------------
(***************************************************************************)
(* Signing in and out.                                                     *)
(***************************************************************************)
FirstLoad(u, skip) == Made("load", u, logins + 1, Defaults, skip)

BeginSession(u) ==
    /\ session = Nobody
    /\ logins < MaxSignIns /\ logins' = logins + 1 /\ UNCHANGED <<events, raised>>
    /\ session' = u
    /\ zoneHint' = hint[u]
    /\ reloadTimer' = [zone |-> IF loadedFor = u THEN prefs.zone ELSE hint[u],
                 loadedFor |-> loadedFor]
    /\ \E c \in Slots : /\ wire[c] = NoCall
                       /\ wire' = [wire EXCEPT ![c] = FirstLoad(u, loadedFor)]
    /\ mixed' = IF Nobody \in mixed THEN mixed \cup {u} ELSE mixed
    /\ UNCHANGED <<shownVars, stored, hint>>

\* clearSessionState and onLogoutReset.
ResetPage(left) ==
    /\ session' = Nobody
    /\ Commit(Defaults)
    /\ loadedFor' = Nobody
    /\ snapshot' = NoLayout
    /\ notices' = left
    /\ mixed' = mixed \ {Nobody}

EndSession ==
    /\ session # Nobody
    /\ ResetPage(<<>>)
    /\ UNCHANGED <<saving, stored, zoneHint, reloadTimer, wire, spentVars>>

\* The server does not know the session of a call any more: the page signs
\* out, whoever is signed in, and the call's failure is a notice.
CallRefused(c) ==
    /\ wire[c].kind \in {"save", "load"} /\ wire[c].stage = "sent"
    /\ ~Known(c)
    /\ raised' = raised + 1 /\ UNCHANGED <<events, logins>>
    /\ ResetPage(WithNotice(<<>>, Group, Nobody, raised + 1))
    /\ saving' = (saving /\ wire[c].kind # "save")
    /\ Ends(c)
    /\ UNCHANGED <<stored, zoneHint, reloadTimer>>

\* The page is opened again in the same session: its calls are abandoned.
ReopenPage ==
    /\ session # Nobody
    /\ logins < MaxSignIns /\ logins' = logins + 1 /\ UNCHANGED <<events, raised>>
    /\ prefs' = Defaults
    /\ loadedFor' = Nobody
    /\ snapshot' = NoLayout
    /\ notices' = <<>>
    /\ saving' = FALSE
    /\ zoneHint' = hint[session]
    /\ reloadTimer' = [zone |-> hint[session], loadedFor |-> Nobody]
    /\ \E c \in Slots :
         wire' = [d \in Slots |-> IF d = c THEN FirstLoad(session, Nobody) ELSE NoCall]
    /\ UNCHANGED <<session, stored, hint, mixed>>

-----------------------------------------------------------------------------
WorkspaceActs ==
    \/ MoveSection \/ ReorderSections \/ ToggleSection
    \/ HandleZoneChange \/ HandleQuickSetupVisibilityChange
    \/ HandlePersistLayoutChange \/ ResetLayoutPreferences
    \/ StartLayoutEditing \/ CommitLayoutEditing \/ DiscardLayoutEditing
    \/ HandleLanguageChange \/ DismissNotification \/ ClearAllNotifications

WorkspaceAnswers(c) ==
    \/ LocaleLoaded(c)
    \/ UpdateRecord(c) \/ PreferencesSaved(c) \/ CallRefused(c)
    \/ ReadRecord(c) \/ LoadAnswered(c)

WorkspaceNext ==
    \/ WorkspaceActs
    \/ PushNotification \/ HideFloating \/ SaveHistory
    \/ Reload \/ RefreshNow \/ RestartTimer
    \/ \E c \in Slots : WorkspaceAnswers(c) \/ SaveFails(c) \/ LoadFails(c)
    \/ \E u \in Users : BeginSession(u)
    \/ EndSession \/ ReopenPage

-----------------------------------------------------------------------------
(***************************************************************************)
(* Properties.                                                             *)
(***************************************************************************)

\* A user's notices stay in that user's record: the list and the preferences
\* of the last user are gone before the next one's are loaded and saved
\* (useUiPreferences, useNotifications).  Left out are the users for whom the
\* page took an answer to a call of another user's session, or who signed in
\* to a page that had taken one since it was cleared: a save, a load and the
\* texts of a language are applied whoever is signed in by then.
NoticesStayWithUser ==
    \A u \in Users \ mixed : \A i \in DOMAIN stored[u].history :
      stored[u].history[i].owner = u

WorkspaceSpec == WorkspaceInit /\ [][WorkspaceNext]_workspaceVars

=============================================================================
