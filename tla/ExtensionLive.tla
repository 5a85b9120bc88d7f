--------------------------- MODULE ExtensionLive ---------------------------
(***************************************************************************)
(* What the browser extension shows of a polling run: the background       *)
(* worker fetches the status on alarms, messages and live events, lays a   *)
(* running indicator over it while a manual poll is being triggered,       *)
(* caches it, and draws a badge and an icon.                               *)
(*                                                                         *)
(* Tasks are the asynchronous calls of the worker.  The worker's variables *)
(* are shared by all of them, and any two interleave at their awaits.      *)
(* ExtensionAuth models the sign-in; here it is there or not.              *)
(***************************************************************************)
EXTENDS Naturals, Sequences

CONSTANTS
    Tasks,        \* bound: asynchronous calls of the worker at one time
    MaxPollRuns,      \* bound: polling runs on the server
    MaxAttempts,  \* checks of a pending manual poll before it is given up
    MaxPolls,     \* bound: manual polls users ask for
    MaxMoves      \* bound: failures, restarts and whatever else comes unasked

ASSUME LiveBoundsAssumption ==
    MaxPollRuns \in Nat /\ MaxAttempts \in Nat \ {0} /\ MaxMoves \in Nat /\ MaxPolls \in Nat

VARIABLES
    running,   \* server: a run of the user's sources is active
    done,      \* server: completed runs, which stands for lastCompletedRunAt
    signedIn,  \* the storage holds a sign-in
    cache,     \* storage: the cached status
    badge,     \* what the badge and its title show
    icon,      \* what the icon shows
    asked,     \* the icon asked for last (iconUpdateSequence)
    owner,     \* the task that asked for it
    last,      \* lastStatus; statusPrimed is set and cleared with it
    manual,    \* the pending manual poll and the timer that checks it
    live,      \* the live subscription
    liveEvents, \* live events on their way to the worker
    wanted,    \* a refresh that was called for and has not begun
    task,      \* what each task is doing
    trigger,   \* the manual-poll call of the popup and of the context menu
    polls,     \* how much of MaxPolls is used
    moves      \* how much of MaxMoves is used

serverVars == <<running, done>>
shownVars  == <<badge, icon, asked, owner>>
workerVars == <<serverVars, signedIn, cache, shownVars, last, manual, live, liveEvents,
            wanted, task, trigger, polls, moves>>

Runs    == 0 .. MaxPollRuns    \* 0 as lastCompletedRunAt: none yet
Status  == [running : BOOLEAN, done : Runs]
Nothing == [running |-> FALSE, done |-> MaxPollRuns + 1]
MaybeStatus == Status \cup {Nothing}
Faces   == {"blank", "idle", "polling", "error", "signedOut"}
Nobody  == "nobody"

Pending == [asked : BOOLEAN, last : Runs, returned : BOOLEAN]
NoPoll  == [asked |-> FALSE, last |-> 0, returned |-> FALSE]
Manual  == [pending : Pending, timer : BOOLEAN, attempts : 0 .. MaxAttempts]
NoManual == [pending |-> NoPoll, timer |-> FALSE, attempts |-> 0]
LiveState == [stream : {"none", "open", "silent"}, current : BOOLEAN, retry : BOOLEAN]
NoStream == [stream |-> "none", current |-> FALSE, retry |-> FALSE]
Opened   == [stream |-> "open", current |-> TRUE, retry |-> FALSE]
Callers  == {"popup", "menu"}
Events   == {"started", "finished"}
TaskKinds == {"refresh", "check", "overlay", "popup", "menu"}
Task     == [pc : {"none", "fetch", "save", "icon", "notified",
                   "finish"},
             kind : TaskKinds, status : MaybeStatus, face : Faces]
NoTask   == [pc |-> "none", kind |-> "refresh", status |-> Nothing, face |-> "blank"]

WorkerTypeOK ==
    /\ running \in BOOLEAN /\ done \in Runs /\ signedIn \in BOOLEAN
    /\ cache \in MaybeStatus /\ last \in MaybeStatus
    /\ badge \in Faces /\ icon \in Faces /\ asked \in Faces
    /\ owner \in Tasks \cup {Nobody}
    /\ manual \in Manual /\ live \in LiveState
    /\ liveEvents \in Seq(Events)
    /\ wanted \in BOOLEAN
    /\ task \in [Tasks -> Task]
    /\ trigger \in [Callers -> {"none", "posting", "taken", "started",
                                "refused", "failed"}]
    /\ polls \in 0 .. MaxPolls /\ moves \in 0 .. MaxMoves

\* The worker has been started in a signed-in browser and has subscribed.
WorkerInit ==
    /\ running = FALSE /\ done = 0 /\ signedIn = TRUE
    /\ cache = Nothing /\ last = Nothing
    /\ badge = "blank" /\ icon = "blank" /\ asked = "blank" /\ owner = Nobody
    /\ manual = NoManual /\ live = Opened /\ liveEvents = <<>> /\ wanted = FALSE
    /\ task = [t \in Tasks |-> NoTask]
    /\ trigger = [c \in Callers |-> "none"]
    /\ polls = 0 /\ moves = 0

Move == moves < MaxMoves /\ moves' = moves + 1

\* badgeStateForStatus and toolbarIconStateForStatus.
Face(status) == IF status = Nothing THEN "blank"
                ELSE IF status.running THEN "polling" ELSE "idle"

-----------------------------------------------------------------------------
(***************************************************************************)
(* The pending manual poll.                                                *)
(***************************************************************************)
Asked(m) == [m EXCEPT !.pending =
    [asked |-> TRUE, last |-> IF last = Nothing THEN 0 ELSE last.done,
     returned |-> FALSE]]

\* schedulePendingManualPollCheck: without attempts left the overlay expires.
\* Fault: there is no limit.
CheckedForEver(m) == FALSE
Exhausted(m) == m.pending.asked /\ m.attempts >= MaxAttempts

\* Fault: only the first check is scheduled.
ScheduledOnce(m) ==
    IF ~m.pending.asked \/ Exhausted(m) THEN NoManual
    ELSE IF m.timer \/ m.attempts > 0 THEN m
    ELSE [m EXCEPT !.timer = TRUE, !.attempts = @ + 1]

Scheduled(m) ==
    IF ~m.pending.asked \/ Exhausted(m) THEN NoManual
    ELSE IF m.timer THEN m
    ELSE [m EXCEPT !.timer = TRUE,
                   !.attempts = IF @ < MaxAttempts THEN @ + 1 ELSE @]

\* A run has completed since the poll was asked for.
Completed(m, status) == status.done # 0 /\ status.done # m.pending.last

\* applyPendingManualPollOverlay.
Synthetic(m, status) ==
    /\ m.pending.asked
    /\ status # Nothing
    /\ ~status.running
    /\ ~Completed(m, status)

Overlaid(m, status) ==
    IF Synthetic(m, status) /\ ~m.pending.returned
    THEN [status EXCEPT !.running = TRUE] ELSE status

AfterOverlay(m, status) ==
    IF Synthetic(m, status) /\ m.pending.returned THEN NoManual ELSE m

\* The calls of a task end; a check schedules the next one.
End(t) ==
    /\ task' = [task EXCEPT ![t] = NoTask]
    /\ manual' = IF task[t].kind = "check" THEN Scheduled(manual) ELSE manual
    /\ wanted' = (wanted \/ (task[t].kind = "check" /\ Exhausted(manual)))

Goes(t, pc) == task' = [task EXCEPT ![t].pc = pc]

Begins(t, kind, pc) ==
    /\ task[t].pc = "none"
    /\ task' = [task EXCEPT ![t] = [NoTask EXCEPT !.pc = pc, !.kind = kind]]

-----------------------------------------------------------------------------
(***************************************************************************)
(* refreshBadgeFromServer.                                                 *)
(***************************************************************************)
\* loadConfig finds no sign-in: closeLiveSubscription, and what the worker
\* remembers of the account is forgotten.
WithoutSignIn(t, kind) ==
    /\ live' = NoStream /\ liveEvents' = <<>>
    /\ last' = Nothing /\ manual' = NoManual
    /\ badge' = "blank" /\ asked' = "signedOut" /\ owner' = t
    /\ task' = [task EXCEPT ![t] = [NoTask EXCEPT !.pc = "icon", !.kind = kind,
                                                  !.face = "signedOut"]]
    /\ UNCHANGED icon

\* left: the manual poll and the events that the caller leaves.
BeginRefresh(t, kind, m, left) ==
    /\ task[t].pc = "none"
    /\ IF signedIn
       THEN /\ Begins(t, kind, "fetch")
            /\ manual' = m /\ liveEvents' = left
            /\ UNCHANGED <<shownVars, last, live>>
       ELSE WithoutSignIn(t, kind)

\* The server answers with the status of that moment.
FetchStatus(t) ==
    /\ task[t].pc = "fetch"
    /\ task' = [task EXCEPT ![t].pc = "save",
                            ![t].status = [running |-> running, done |-> done]]
    /\ UNCHANGED <<serverVars, signedIn, cache, shownVars, last, manual, live, liveEvents,
                   wanted, trigger, moves, polls>>

Shows(t, kind, status, face) ==
    /\ badge' = face /\ asked' = face /\ owner' = t
    /\ task' = [task EXCEPT ![t] = [pc |-> "icon", kind |-> kind,
                                    status |-> status, face |-> face]]
    /\ UNCHANGED icon

FetchFails(t) ==
    /\ task[t].pc = "fetch"
    /\ Move
    /\ Shows(t, task[t].kind, Nothing, "error")
    /\ UNCHANGED <<serverVars, signedIn, cache, last, manual, live, liveEvents,
                   wanted, trigger, polls>>

\* What was fetched is overlaid, cached and shown: saveCachedStatus, then
\* applyToolbarState, the badge at once, the icon when it has been rendered.
\* The storage and the toolbar answer calls in the order they are made.
SaveCachedStatus(t) ==
    /\ task[t].pc = "save"
    /\ LET status == Overlaid(manual, task[t].status)
       IN  cache' = status /\ Shows(t, task[t].kind, status, Face(status))
    /\ manual' = AfterOverlay(manual, task[t].status)
    /\ UNCHANGED <<serverVars, signedIn, last, live, liveEvents, wanted, trigger, polls, moves>>

\* setToolbarIconForState: only the render asked for last is applied.
IsLatestRender(t) == owner = t

SetIcon(t) ==
    /\ task[t].pc = "icon"
    /\ icon' = IF IsLatestRender(t) THEN task[t].face ELSE icon
    /\ IF task[t].face \in {"signedOut", "error"}
          \/ task[t].kind \in {"overlay", "popup"}
       THEN End(t)
       ELSE /\ task' = [task EXCEPT ![t].pc = "finish",
                                    ![t].face = "blank"]
            /\ UNCHANGED <<manual, wanted>>
    /\ UNCHANGED <<serverVars, signedIn, cache, badge, asked, owner, last, live,
                   liveEvents, trigger, moves, polls>>

-----------------------------------------------------------------------------
(***************************************************************************)
(* The live subscription.                                                  *)
(***************************************************************************)
IsSubscribed == live.stream # "none" /\ live.current

\* A new subscriber is sent the run that is active.
Snapshot == IF running THEN <<"started">> ELSE <<>>

Subscribe == live' = Opened /\ liveEvents' = Snapshot

\* ensureLiveSubscription closes a stream that was opened with another token.
EnsureLiveSubscription ==
    IF IsSubscribed THEN UNCHANGED <<live, liveEvents>> ELSE Subscribe

\* maybeNotifyForStatusUpdate: a run completed since the poll was asked for
\* clears it, after the notification when the user wants one.
Fetched(t) == task[t].kind \in {"refresh", "check"}

ManualPollIsOver(t) ==
    /\ Fetched(t)
    /\ last # Nothing
    /\ manual.pending.asked
    /\ ~task[t].status.running
    /\ Completed(manual, task[t].status)

Notify(t) ==
    /\ task[t].pc = "finish"
    /\ ManualPollIsOver(t)
    /\ Goes(t, "notified")
    /\ UNCHANGED <<serverVars, signedIn, cache, shownVars, last, manual, live, liveEvents,
                   wanted, trigger, moves, polls>>

\* The end of a refresh sets lastStatus and sees to the subscription.
FinishRefresh(t) ==
    /\ task[t].pc \in {"finish", "notified"}
    /\ Fetched(t)
    /\ LET over == task[t].pc = "notified" \/ ManualPollIsOver(t)
           left == IF over THEN NoManual ELSE manual
       IN  /\ manual' = IF task[t].kind = "check" THEN Scheduled(left) ELSE left
           /\ wanted' = (wanted \/ (task[t].kind = "check" /\ Exhausted(left)))
    /\ last' = task[t].status
    /\ EnsureLiveSubscription
    /\ task' = [task EXCEPT ![t] = NoTask]
    /\ UNCHANGED <<serverVars, signedIn, cache, shownVars, trigger, moves, polls>>

\* The menu's overlay is shown: the check is scheduled, and the poll posted.
FinishMenu(t) ==
    /\ task[t].pc = "finish"
    /\ task[t].kind = "menu"
    /\ manual' = Scheduled(manual)
    /\ wanted' = (wanted \/ Exhausted(manual))
    /\ trigger' = [trigger EXCEPT !["menu"] = "posting"]
    /\ task' = [task EXCEPT ![t] = NoTask]
    /\ UNCHANGED <<serverVars, signedIn, cache, shownVars, last, live, liveEvents, moves, polls>>

\* handleLiveEvent: a finished run refreshes, and so does an event that finds
\* no cached status; any other is merged into it (mergeLivePollIntoStatus).
HandleLiveEvent(t) ==
    /\ liveEvents # <<>>
    /\ live.stream = "open"
    /\ task[t].pc = "none"
    /\ IF Head(liveEvents) = "finished" \/ cache = Nothing
       THEN BeginRefresh(t, "refresh", manual, Tail(liveEvents)) /\ UNCHANGED cache
       ELSE LET merged == [cache EXCEPT !.running = TRUE]
            IN  /\ cache' = merged
                /\ liveEvents' = Tail(liveEvents)
                /\ Shows(t, "overlay", merged, Face(merged))
                /\ UNCHANGED <<last, manual, live>>
    /\ UNCHANGED <<serverVars, signedIn, wanted, trigger, polls, moves>>

\* The stream breaks: onDisconnect(error) reconnects after two seconds.  The
\* server closes it: nothing reconnects.
StreamEnds ==
    /\ live.stream = "open"
    /\ Move
    /\ \E retry \in BOOLEAN : live' = [NoStream EXCEPT !.retry = retry]
    /\ liveEvents' = <<>>
    /\ UNCHANGED <<serverVars, signedIn, cache, shownVars, last, manual, wanted, task,
                   trigger, polls>>

Reconnect ==
    /\ live.retry
    /\ IF signedIn THEN Subscribe ELSE live' = NoStream /\ liveEvents' = <<>>
    /\ UNCHANGED <<serverVars, signedIn, cache, shownVars, last, manual, wanted, task,
                   trigger, moves, polls>>

\* subscribeToJsonSse aborts the stream after a minute and does not call
\* onDisconnect: the worker still holds a subscription.
StreamTimesOut ==
    /\ live.stream = "open"
    /\ Move
    /\ live' = [live EXCEPT !.stream = "silent"]
    /\ liveEvents' = <<>>
    /\ UNCHANGED <<serverVars, signedIn, cache, shownVars, last, manual, wanted, task,
                   trigger, polls>>

TokenRotates ==
    /\ signedIn
    /\ live.current
    /\ Move
    /\ live' = [live EXCEPT !.current = FALSE]
    /\ UNCHANGED <<serverVars, signedIn, cache, shownVars, last, manual, liveEvents, wanted,
                   task, trigger, polls>>

-----------------------------------------------------------------------------
(***************************************************************************)
(* Calls that begin: alarms, timers, messages, clicks.                     *)
(***************************************************************************)
\* Alarms are minutes apart and a call lasts seconds: an alarm finds none of
\* the last alarm's.  The model takes it when nothing is going on.
Alarm(t) ==
    /\ \A u \in Tasks : task[u].pc = "none"
    /\ BeginRefresh(t, "refresh", manual, liveEvents)
    /\ UNCHANGED <<serverVars, signedIn, cache, wanted, trigger, polls, moves>>

\* The refresh-status message, or void refreshBadgeFromServer().
WantedRefresh(t) ==
    /\ wanted
    /\ BeginRefresh(t, "refresh", manual, liveEvents)
    /\ wanted' = FALSE
    /\ UNCHANGED <<serverVars, signedIn, cache, trigger, polls, moves>>

CheckManualPoll(t) ==
    /\ manual.timer
    /\ BeginRefresh(t, "check", [manual EXCEPT !.timer = FALSE], liveEvents)
    /\ UNCHANGED <<serverVars, signedIn, cache, wanted, trigger, polls, moves>>

\* The popup's message, or the context menu: primePendingManualPollOverlay
\* shows a run over the last status.  The popup's check is scheduled at once,
\* the menu's when the overlay has been shown.
TriggerManualPoll(c, t) ==
    /\ signedIn
    /\ trigger[c] = "none"
    /\ ~\E u \in Tasks : task[u].pc # "none" /\ task[u].kind = c
    /\ task[t].pc = "none"
    /\ polls < MaxPolls
    /\ polls' = polls + 1
    /\ IF c = "popup"
       THEN /\ manual' = Scheduled(Asked(manual))
            /\ wanted' = (wanted \/ Exhausted(Asked(manual)))
            /\ trigger' = [trigger EXCEPT ![c] = "posting"]
       ELSE /\ manual' = Asked(manual)
            /\ UNCHANGED <<wanted, trigger>>
    /\ LET base == IF last # Nothing THEN last ELSE cache
           primed == Overlaid(manual', base)
       IN  IF base # Nothing
           THEN cache' = primed /\ Shows(t, c, primed, Face(primed))
           ELSE /\ IF c = "menu" THEN Begins(t, c, "finish") ELSE UNCHANGED task
                /\ UNCHANGED <<cache, shownVars>>
    /\ UNCHANGED <<serverVars, signedIn, last, live, liveEvents, moves>>

\* manual-poll-trigger-returned, and a refresh.
TriggerReturned(c) ==
    /\ trigger[c] = "started"
    /\ manual' = IF manual.pending.asked
                 THEN [manual EXCEPT !.pending.returned = TRUE] ELSE manual
    /\ wanted' = TRUE
    /\ trigger' = [trigger EXCEPT ![c] = "none"]
    /\ UNCHANGED <<serverVars, signedIn, cache, shownVars, last, live, liveEvents, task, moves, polls>>

\* manual-poll-cancelled: expirePendingManualPollOverlay.  A menu's poll that
\* fails on the way is not cancelled.
TriggerCancelled(c) ==
    /\ trigger[c] \in {"refused", "failed"}
    /\ IF trigger[c] = "failed" /\ c = "menu" THEN UNCHANGED <<manual, wanted>>
       ELSE manual' = NoManual /\ wanted' = TRUE
    /\ trigger' = [trigger EXCEPT ![c] = "none"]
    /\ UNCHANGED <<serverVars, signedIn, cache, shownVars, last, live, liveEvents, task, moves, polls>>

\* The popup is closed before its call has returned.
PopupCloses ==
    /\ trigger["popup"] # "none"
    /\ trigger' = [trigger EXCEPT !["popup"] = "none"]
    /\ UNCHANGED <<serverVars, signedIn, cache, shownVars, last, manual, live, liveEvents,
                   wanted, task, polls, moves>>

\* Signing in or out in the options page, which then asks for a refresh.
SignInOrOut ==
    /\ Move
    /\ signedIn' = ~signedIn
    /\ wanted' = TRUE
    /\ UNCHANGED <<serverVars, cache, shownVars, last, manual, live, liveEvents, task, trigger, polls>>

\* The browser stops the worker; the next event starts it again.  What it
\* remembered is gone, the storage, the badge and the icon stay.
WorkerRestarts ==
    /\ Move
    /\ task' = [t \in Tasks |-> NoTask]
    /\ last' = Nothing /\ manual' = NoManual /\ wanted' = FALSE
    /\ asked' = icon /\ owner' = Nobody
    /\ trigger' = [trigger EXCEPT !["menu"] = "none"]
    /\ IF signedIn THEN Subscribe ELSE live' = NoStream /\ liveEvents' = <<>>
    /\ UNCHANGED <<serverVars, signedIn, cache, badge, icon, polls>>

-----------------------------------------------------------------------------
(***************************************************************************)
(* The server: PollingLiveService and ExtensionStatusResource.             *)
(***************************************************************************)
Publish(e) == liveEvents' = IF live.stream = "open" THEN Append(liveEvents, e) ELSE liveEvents

CanRun == ~running /\ done < MaxPollRuns

PollRunStarts ==
    /\ CanRun
    /\ Move
    /\ running' = TRUE
    /\ Publish("started")
    /\ UNCHANGED <<done, signedIn, cache, shownVars, last, manual, live, wanted,
                   task, trigger, polls>>

\* poll answers when the run it has made is over, or at once when busy.
TakeTrigger(c) ==
    /\ trigger[c] = "posting"
    /\ IF CanRun
       THEN running' = TRUE /\ Publish("started")
            /\ trigger' = [trigger EXCEPT ![c] = "taken"]
       ELSE UNCHANGED <<running, liveEvents>>
            /\ trigger' = [trigger EXCEPT ![c] = "refused"]
    /\ UNCHANGED <<done, signedIn, cache, shownVars, last, manual, live, wanted,
                   task, moves, polls>>

RunFinishes ==
    /\ running
    /\ running' = FALSE /\ done' = done + 1
    /\ Publish("finished")
    /\ trigger' = [c \in Callers |->
                     IF trigger[c] = "taken" THEN "started" ELSE trigger[c]]
    /\ UNCHANGED <<signedIn, cache, shownVars, last, manual, live, wanted, task, moves, polls>>

\* No answer within ten seconds.
TriggerTimesOut(c) ==
    /\ trigger[c] \in {"posting", "taken"}
    /\ trigger' = [trigger EXCEPT ![c] = "failed"]
    /\ UNCHANGED <<serverVars, signedIn, cache, shownVars, last, manual, live, liveEvents,
                   wanted, task, polls, moves>>

TaskStep(t) ==
    \/ FetchStatus(t) \/ SaveCachedStatus(t)
    \/ SetIcon(t) \/ Notify(t) \/ FinishRefresh(t) \/ FinishMenu(t)

CallStep(c) == TakeTrigger(c) \/ TriggerReturned(c) \/ TriggerCancelled(c)

WorkerNext ==
    \/ \E t \in Tasks :
          \/ TaskStep(t) \/ FetchFails(t) \/ Alarm(t) \/ WantedRefresh(t)
          \/ CheckManualPoll(t) \/ HandleLiveEvent(t)
          \/ \E c \in Callers : TriggerManualPoll(c, t)
    \/ \E c \in Callers : CallStep(c) \/ TriggerTimesOut(c)
    \/ PollRunStarts \/ RunFinishes
    \/ StreamEnds \/ Reconnect \/ StreamTimesOut \/ TokenRotates
    \/ PopupCloses \/ SignInOrOut \/ WorkerRestarts

\* Awaits are resumed, the five-minute alarm and the timers fire, and the
\* server answers and finishes its runs.
WorkerFairness ==
    /\ \A t \in Tasks : WF_workerVars(TaskStep(t))
    /\ SF_workerVars(\E t \in Tasks : Alarm(t))
    /\ SF_workerVars(\E t \in Tasks : CheckManualPoll(t))
    /\ \A c \in Callers : WF_workerVars(CallStep(c))
    /\ WF_workerVars(RunFinishes)
    /\ WF_workerVars(Reconnect)

WorkerSpec == WorkerInit /\ [][WorkerNext]_workerVars /\ WorkerFairness

-----------------------------------------------------------------------------
(***************************************************************************)
(* Properties.                                                             *)
(***************************************************************************)

\* A pending manual poll, which shows a run the server may not have, is never
\* left without something that will look at it again: the check's timer, the
\* check itself, or the menu's call that is about to schedule it.
OverlayIsTimed ==
    manual.pending.asked =>
        \/ manual.timer
        \/ \E t \in Tasks : task[t].pc # "none" /\ task[t].kind \in {"check", "menu"}

\* Whatever is lost on the way (messages, live events, the worker itself), the
\* badge does not go on showing a run that the server does not have.
RunningBadgeEnds == []<>(badge # "polling" \/ running)

=============================================================================
