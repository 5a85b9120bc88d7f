-------------------------- MODULE ConsoleSettings --------------------------
(***************************************************************************)
(* The settings a user or an administrator edits in a dialog of the        *)
(* console: the poller's, one's own and the deployment's; the OAuth        *)
(* applications; the protection of sign-in; and the poller's settings of   *)
(* one source.  The forms are independent of one another: a behaviour is   *)
(* about one of them.                                                      *)
(*                                                                         *)
(* Every load of the page brings the settings.  The forms of the poller    *)
(* follow a load unless they are dirty, as far as the function that loads  *)
(* remembers; the other two follow always.  A source's settings are loaded *)
(* when its dialog is asked for.                                           *)
(***************************************************************************)
EXTENDS Naturals, FiniteSets

CONSTANTS
    NoSource,   \* no source
    Sources,    \* the sources whose settings are edited
    Values,     \* what settings may be
    Default,    \* what they are when nothing overrides them
    Discards,   \* whether edits of the poller's forms may be discarded
    MaxTasks,   \* bound: edits, saves, and changes made elsewhere
    MaxReads,   \* bound: loads under way
    MaxSlips    \* bound: requests that are lost

ASSUME ConsoleSettingsAssumption ==
    /\ Default \in Values /\ NoSource \notin Sources
    /\ Discards \in BOOLEAN
    /\ {MaxTasks, MaxReads, MaxSlips} \subseteq Nat

VARIABLES
    kind,       \* "user", "system", "oauth", "security" or "source"
    stored,     \* what the server has, for each source when kind is "source"
    form,       \* the form: whose settings, and their values
    dirty,      \* whether it has been edited
    shown,      \* whether its dialog is open
    target,     \* fetcherPollingTarget
    reads,      \* loads under way
    saves,      \* saves and resets under way
    timer,      \* the dirty flag that the timer's function remembers
    tasks, slips,   \* budgets used
    straddled   \* history: whether the source was noted over what another left

settingsVars == <<kind, stored, form, dirty, shown, target, reads, saves, timer,
                  tasks, slips, straddled>>

Pollers == {"user", "system"}
Panels == {"oauth", "security"}
Kinds == Pollers \cup Panels \cup {"source"}

\* Whose settings there are: a source's, or the one form's.
Owners == IF kind = "source" THEN Sources ELSE {NoSource}

SettingsInit ==
    /\ kind \in Kinds
    /\ stored = [s \in Owners |-> Default]
    /\ form = [of |-> NoSource, value |-> Default]
    /\ dirty = FALSE /\ shown = FALSE /\ target = NoSource
    /\ reads = {} /\ saves = {}
    /\ timer = FALSE
    /\ tasks = 0 /\ slips = 0
    /\ straddled = FALSE

Task == tasks < MaxTasks /\ tasks' = tasks + 1

---------------------------------------------------------------------------
(* Loads of the page. *)

\* What is read, and what the function that reads remembers of the form.
Snapshot(believes) == [value |-> stored[NoSource], believes |-> believes]

StartRead(believes) ==
    /\ kind # "source"
    /\ Cardinality(reads) < MaxReads
    /\ reads' = reads \cup {Snapshot(believes)}
    /\ UNCHANGED <<kind, stored, form, dirty, shown, target, saves, timer, tasks, slips, straddled>>

\* The timer of thirty seconds loads with the function of an older render.
TimerLoads == StartRead(timer)

\* So does what the user unfolds, with the function of now.
LoadAgain == StartRead(dirty)

\* Another time zone or another mode starts the timer with a new function;
\* both are chosen where no dialog is open.
RestartTimer ==
    /\ ~shown /\ timer # dirty
    /\ timer' = dirty
    /\ UNCHANGED <<kind, stored, form, dirty, shown, target, reads, saves, tasks, slips, straddled>>

\* The poller's forms are left alone when they are believed to be dirty.
Applied(r) ==
    IF kind \in Pollers /\ r.believes THEN UNCHANGED <<form, dirty>>
    ELSE /\ form' = [form EXCEPT !.value = r.value]
         /\ dirty' = IF kind = "security" THEN FALSE ELSE dirty

ReadArrives(r) ==
    /\ r \in reads /\ kind # "source"
    /\ reads' = reads \ {r}
    /\ Applied(r)
    /\ UNCHANGED <<kind, stored, shown, target, saves, timer, tasks, slips, straddled>>

\* A load that fails applies nothing; a source's dialog is then not opened,
\* whichever source it is about by then.
ReadFails(r) ==
    /\ r \in reads
    /\ slips < MaxSlips /\ slips' = slips + 1
    /\ reads' = reads \ {r}
    /\ target' = IF kind = "source" THEN NoSource ELSE target
    /\ UNCHANGED <<kind, stored, form, dirty, shown, saves, timer, tasks, straddled>>

---------------------------------------------------------------------------
(* The dialogs: each is opened from its section, and has its own fields. *)

\* A source's dialog is drawn only while a source is noted; one that is not
\* drawn is still shown as soon as the next source is.
Visible == shown /\ (kind = "source" => target # NoSource)

Open(k) ==
    /\ kind = k /\ ~shown
    /\ shown' = TRUE
    /\ UNCHANGED <<kind, stored, form, target, reads, saves, timer, tasks, slips, straddled>>

OpenUserPolling == Open("user") /\ UNCHANGED dirty
OpenSystemPolling == Open("system") /\ UNCHANGED dirty
OpenSecurity == Open("security") /\ UNCHANGED dirty

\* The OAuth form is called clean whenever its dialog is opened.
OpenOAuthApps == Open("oauth") /\ dirty' = FALSE

\* A field writes what is typed into the form, which is dirty from then on.
Edit(k, v) ==
    /\ kind = k /\ Visible /\ v # form.value
    /\ Task
    /\ form' = [form EXCEPT !.value = v]
    /\ dirty' = TRUE
    /\ UNCHANGED <<kind, stored, shown, target, reads, saves, timer, slips, straddled>>

EditUserPolling(v) == Edit("user", v)
EditSystemPolling(v) == Edit("system", v)
EditOAuthApps(v) == Edit("oauth", v)
EditSecurity(v) == Edit("security", v)
EditSourcePolling(v) == Edit("source", v)

\* The user is asked before edits are discarded.  Closing hides the poller's
\* dialogs and no more; it calls the other forms clean, and empties a source's.
Close ==
    /\ Visible
    /\ kind \in Pollers /\ dirty => Discards
    /\ shown' = FALSE
    /\ dirty' = IF kind \in Pollers THEN dirty ELSE FALSE
    /\ form' = IF kind = "source" THEN [of |-> NoSource, value |-> Default] ELSE form
    /\ target' = NoSource
    /\ UNCHANGED <<kind, stored, reads, saves, timer, tasks, slips, straddled>>

\* Save sends the form, reset sends that nothing is overridden.
Submit(how, v) ==
    /\ Visible /\ saves = {}
    /\ Task
    /\ saves' = {[how |-> how, of |-> target, value |-> v, form |-> form.of,
                  phase |-> "sent", believes |-> dirty, over |-> straddled]}
    /\ UNCHANGED <<kind, stored, form, dirty, shown, target, reads, timer, slips, straddled>>

Save == Submit("save", form.value)
Reset == kind # "oauth" /\ Submit("reset", Default)

\* Every override is written as the request has it.
Stored(c) ==
    /\ c \in saves /\ c.phase = "sent"
    /\ saves' = {[c EXCEPT !.phase = "stored"]}
    /\ stored' = [stored EXCEPT ![c.of] = c.value]
    /\ UNCHANGED <<kind, form, dirty, shown, target, reads, timer, tasks, slips, straddled>>

\* What is saved or reset is not dirty any longer.
Cleared(c) == TRUE

\* The answer closes the dialog, but that of a reset leaves the dialogs of
\* sign-in and of a source open; the page is then loaded again, by the
\* function that sent the request.
Confirmed(c) ==
    /\ c \in saves /\ c.phase = "stored"
    /\ saves' = {}
    /\ dirty' = IF Cleared(c) THEN FALSE ELSE dirty
    /\ shown' = (shown /\ c.how = "reset" /\ kind \in {"security", "source"})
    /\ IF kind = "source" THEN
           /\ form' = IF c.how = "save" THEN [of |-> NoSource, value |-> Default]
                      ELSE [of |-> c.of, value |-> c.value]
           /\ target' = IF c.how = "save" THEN NoSource ELSE target
           /\ UNCHANGED reads
       ELSE
           /\ form' = IF kind \in Panels \/ c.how = "reset"
                      THEN [form EXCEPT !.value = c.value] ELSE form
           /\ reads' = IF kind = "security" THEN reads
                       ELSE reads \cup {[value |-> stored[NoSource], believes |-> c.believes]}
           /\ UNCHANGED target
    /\ UNCHANGED <<kind, stored, timer, tasks, slips, straddled>>

\* A request or an answer is lost: the dialog stays as it is.
SaveFails(c) ==
    /\ c \in saves
    /\ slips < MaxSlips /\ slips' = slips + 1
    /\ saves' = {}
    /\ UNCHANGED <<kind, stored, form, dirty, shown, target, reads, timer, tasks, straddled>>

\* The same settings are changed in another browser.
ChangedElsewhere(s, v) ==
    /\ s \in Owners /\ v # stored[s]
    /\ Task
    /\ stored' = [stored EXCEPT ![s] = v]
    /\ UNCHANGED <<kind, form, dirty, shown, target, reads, saves, timer, slips, straddled>>

---------------------------------------------------------------------------
(* The settings of one source. *)

\* A load or a save is under way, or a dialog that lost its source is not closed.
Leftover == reads \cup saves # {} \/ shown

\* Fault: the dialog is shown before its settings have come.
AskForSourceAtOnce(s) ==
    /\ kind = "source" /\ ~Visible
    /\ Cardinality(reads) < MaxReads
    /\ target' = s
    /\ shown' = TRUE
    /\ reads' = reads \cup {[of |-> s, value |-> stored[s]]}
    /\ straddled' = Leftover
    /\ UNCHANGED <<kind, stored, form, dirty, saves, timer, tasks, slips>>

\* openFetcherPollingDialog: the source is noted at once.
AskForSource(s) ==
    /\ kind = "source" /\ ~Visible
    /\ Cardinality(reads) < MaxReads
    /\ target' = s
    /\ reads' = reads \cup {[of |-> s, value |-> stored[s]]}
    /\ straddled' = Leftover
    /\ UNCHANGED <<kind, stored, form, dirty, shown, saves, timer, tasks, slips>>

\* The form is whatever came last; the dialog is of the source noted last.
SourceArrives(r) ==
    /\ kind = "source" /\ r \in reads
    /\ reads' = reads \ {r}
    /\ form' = r
    /\ dirty' = FALSE
    /\ shown' = (shown \/ target # NoSource)
    /\ UNCHANGED <<kind, stored, target, saves, timer, tasks, slips, straddled>>

---------------------------------------------------------------------------

ReadsArrive == \E r \in reads : ReadArrives(r) \/ SourceArrives(r)
SavesEnd == \E c \in saves : Stored(c) \/ Confirmed(c)

OpenSome == OpenUserPolling \/ OpenSystemPolling \/ OpenOAuthApps \/ OpenSecurity

EditSome(v) ==
    \/ EditUserPolling(v) \/ EditSystemPolling(v) \/ EditOAuthApps(v)
    \/ EditSecurity(v) \/ EditSourcePolling(v)

SettingsNext ==
    \/ TimerLoads \/ LoadAgain \/ RestartTimer
    \/ ReadsArrive \/ \E r \in reads : ReadFails(r)
    \/ OpenSome \/ Close \/ Save \/ Reset
    \/ \E v \in Values : EditSome(v)
    \/ SavesEnd \/ \E c \in saves : SaveFails(c)
    \/ \E s \in Sources \cup {NoSource}, v \in Values : ChangedElsewhere(s, v)
    \/ \E s \in Sources : AskForSource(s)

SettingsSpec == SettingsInit /\ [][SettingsNext]_settingsVars

---------------------------------------------------------------------------

\* What is saved or reset for a source was loaded for that source
\* (openFetcherPollingDialog, saveFetcherPollingSettings), however loads and
\* saves are lost and dialogs closed and asked for again; unless its dialog was
\* asked for while an earlier load or save was still under way, or over a
\* dialog that such a load had left open.
EachSourceGetsItsOwn == \A c \in saves : c.over \/ c.form = c.of
=============================================================================
