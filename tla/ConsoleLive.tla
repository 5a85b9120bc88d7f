---------------------------- MODULE ConsoleLive ----------------------------
(***************************************************************************)
(* How an open page of the web application follows the one active poll     *)
(* run: the workspace (App and usePollingControllers) or InboxBridge Go    *)
(* (RemoteApp).  The server pushes an event at each change of the run; the *)
(* page also asks for snapshots, seldom while the stream speaks and often  *)
(* while it does not; and every control answers with a snapshot.  Three    *)
(* sources of the same picture, each as old as its own journey.            *)
(*                                                                         *)
(* The server's side is PollingLiveService as a page sees it: the run's    *)
(* number and its state.  PollingLive has the rest of it.                  *)
(***************************************************************************)
EXTENDS Naturals, Sequences, FiniteSets

CONSTANTS
    Pages,      \* the pages considered, of {"web", "remote"}
    MaxRuns,    \* bound: runs
    MaxActs,    \* bound: what the user does
    MaxReads,   \* bound: snapshots of one timer in flight
    MaxQueue,   \* bound: events in flight
    MaxFaults,  \* bound: broken streams, failed calls, ended sessions
    Silent      \* whether a stream may die without the browser noticing

ASSUME LiveAssumption ==
    /\ Pages \subseteq {"web", "remote"}
    /\ MaxRuns \in Nat /\ MaxActs \in Nat /\ MaxReads \in Nat
    /\ MaxQueue \in Nat /\ MaxFaults \in Nat
    /\ Silent \in BOOLEAN

VARIABLES
    page,       \* which of the two pages this is
    \* the server
    run,        \* the active run, IDLE when there is none
    runs,       \* runs started so far
    login,      \* the page's login: valid, revoked, expired or none
    setup,      \* whether the user still has to set a mailbox up
    \* the page
    session,    \* session
    loading,    \* loading
    stage,      \* loginStage
    control,    \* control: none, or what the server said of the set-up
    shown,      \* livePoll
    connected,  \* liveEventsConnected
    pending,    \* pollingKey, or the pending keys of the workspace
    \* between them
    stream,     \* the EventSource
    events,     \* what it has yet to deliver
    calls,      \* calls in flight
    \* bounds
    acts,
    faults

server == <<run, runs, login, setup>>
form == <<loading, stage, control>>
view == <<shown, connected>>
feed == <<stream, events>>
spent == <<acts, faults>>
vars == <<page, server, session, form, view, pending, feed, calls, spent>>

\* A run and its state; PAUSING and PAUSED are one.  The event of a run's end
\* still calls the run running.
View == [run : 0 .. MaxRuns, state : {"IDLE", "RUNNING", "PAUSED", "STOPPING", "ENDED"}]
NoRun == [run |-> 0, state |-> "IDLE"]
Running(v) == v.run # 0

Controls == {"pause", "resume", "stop", "move", "retry"}
SignIns == {"login", "options", "prompt", "verify"}
Call == [kind : {"start", "pair", "fallback", "reconcile", "snapshot", "me", "poll", "after",
                "logout"} \cup Controls \cup SignIns,
         view : View, reply : {"none", "ok", "401", "fail", "passkey"}]
CallOf(kind) == [kind |-> kind, view |-> NoRun, reply |-> "none"]
Calling(kinds) == \E c \in calls : c.kind \in kinds

TypeOK ==
    /\ page \in Pages
    /\ run \in View /\ runs \in 0 .. MaxRuns
    /\ login \in {"valid", "revoked", "expired", "none"}
    /\ stage \in {"username", "credentials"}
    /\ control \in {"none", "setup", "ready"}
    /\ shown \in View
    /\ <<setup, session, loading, connected>> \in BOOLEAN \X BOOLEAN \X BOOLEAN \X BOOLEAN
    /\ pending \subseteq Controls \cup {"poll", "logout", "sign-in"}
    /\ stream \in {"closed", "connecting", "open", "dead"}
    /\ events \in Seq([type : {"poll", "session-revoked"}, view : View])
    /\ calls \subseteq Call
    /\ acts \in 0 .. MaxActs /\ faults \in 0 .. MaxFaults

\* The workspace is looked at signed in, its first snapshot on the way, and
\* InboxBridge Go as it opens.
Init ==
    /\ page \in Pages
    /\ run = NoRun
    /\ runs = 0
    /\ setup \in BOOLEAN
    /\ session = (page = "web")
    /\ login \in IF session THEN {"valid"} ELSE {"valid", "none"}
    /\ loading = (page = "remote")
    /\ stage = "username"
    /\ control = "none"
    /\ shown = NoRun
    /\ connected = FALSE
    /\ pending = {}
    /\ stream = IF session THEN "connecting" ELSE "closed"
    /\ events = <<>>
    /\ calls = {IF session THEN [CallOf("snapshot") EXCEPT !.reply = "ok"] ELSE CallOf("start")}
    /\ acts = 0
    /\ faults = 0

-----------------------------------------------------------------------------
(***************************************************************************)
(* The page's effects.  Each is set up anew when something it depends on   *)
(* changes, and the answers its predecessor still waits for are dropped.   *)
(***************************************************************************)

ReconcileDeps == <<session, connected, Running(shown)>>
FallbackDeps == <<session, connected, Running(shown),
                  IF page = "web" THEN pending \cap {"poll"} ELSE pending>>

\* The calls that survive a step, given those that would without the effects.
Surviving(cs) ==
    {c \in cs : /\ c.kind = "reconcile" => ReconcileDeps' = ReconcileDeps
                /\ c.kind = "fallback" => FallbackDeps' = FallbackDeps}

Keep(cs) == calls' = Surviving(cs)
Ask(kind) == Keep(calls \cup {CallOf(kind)})

\* A snapshot or an event: what is not running is not shown.
Apply(v) == shown' = v

\* clearRemoteSessionState, or the expiry event of the workspace and the
\* effects of a session that is gone.
SignedOut(cs) ==
    /\ session' = FALSE
    /\ control' = "none"
    /\ shown' = NoRun
    /\ connected' = FALSE
    /\ stage' = "username"
    /\ pending' = IF page = "web" THEN {} ELSE pending \ {"sign-in"}
    /\ stream' = "closed"
    /\ events' = <<>>
    /\ UNCHANGED loading
    /\ Keep(cs)

\* A session opens a stream of events.
SignedIn ==
    /\ session' = TRUE
    /\ stream' = "connecting"
    /\ events' = <<>>

Act == acts < MaxActs /\ acts' = acts + 1 /\ UNCHANGED faults
Fault == faults < MaxFaults /\ faults' = faults + 1 /\ UNCHANGED acts

-----------------------------------------------------------------------------
(***************************************************************************)
(* The stream of events.                                                   *)
(***************************************************************************)

\* The run's events go to the pages that are subscribed.
Emit(v) == events' = IF stream = "open" THEN Append(events, [type |-> "poll", view |-> v]) ELSE events
Room == Len(events) < MaxQueue

\* A subscription begins with a snapshot when a run is active; a page whose
\* session is gone is refused, the browser gives up and the page finds out.
Connect ==
    /\ stream = "connecting"
    /\ UNCHANGED <<page, server, session, form, pending, spent>>
    /\ IF login = "valid"
         THEN /\ stream' = "open"
              /\ events' = IF Running(run) THEN <<[type |-> "poll", view |-> run]>> ELSE <<>>
              /\ UNCHANGED <<view, calls>>
         ELSE /\ stream' = "closed"
              /\ connected' = FALSE
              /\ UNCHANGED <<events, shown>>
              /\ Ask("me")

\* It carries nothing but the news that the stream is alive.
Keepalive ==
    /\ session
    /\ stream = "open"
    /\ events = <<>>
    /\ ~connected
    /\ connected' = TRUE
    /\ UNCHANGED <<page, server, session, form, shown, pending, feed, spent>>
    /\ Keep(calls)

\* handleLiveEvent
Deliver ==
    /\ session
    /\ events # <<>>
    /\ UNCHANGED <<page, server, spent>>
    /\ LET e == Head(events) IN
       IF e.type = "session-revoked"
         THEN SignedOut(calls)
         ELSE /\ IF e.type = "poll" THEN Apply(e.view) ELSE UNCHANGED shown
              /\ connected' = TRUE
              /\ events' = Tail(events)
              /\ UNCHANGED <<session, form, pending, stream>>
              /\ Keep(calls)

\* onerror: the browser opens the stream again; what it carried is lost.
StreamError ==
    /\ stream = "open"
    /\ Fault
    /\ stream' = "connecting"
    /\ events' = <<>>
    /\ connected' = FALSE
    /\ UNCHANGED <<page, server, session, form, shown, pending>>
    /\ Ask("me")

\* Nothing comes any more and nothing is said of it.
StreamDies ==
    /\ Silent
    /\ stream = "open"
    /\ Fault
    /\ stream' = "dead"
    /\ events' = <<>>
    /\ UNCHANGED <<page, server, session, form, view, pending, calls>>

\* A new session object, after the preferences or a position were saved, opens
\* a new stream and leaves liveEventsConnected as it was.
SessionTouched ==
    /\ session
    /\ Act
    /\ SignedIn
    /\ calls' = {c \in calls : c.kind \notin {"reconcile", "fallback"}}
    /\ UNCHANGED <<page, server, form, view, pending>>

\* liveEventsStaleMs pass without an event, as they do only when the stream is
\* dead; the watchdog looks only while a run is shown.
Watchdog ==
    /\ session
    /\ stream = "dead"
    /\ Running(shown)
    /\ connected
    /\ connected' = FALSE
    /\ UNCHANGED <<page, server, session, form, shown, pending, feed, spent>>
    /\ Keep(calls)

-----------------------------------------------------------------------------
(***************************************************************************)
(* Snapshots.                                                              *)
(***************************************************************************)

RoomFor(kind) == Cardinality({c \in calls : c.kind = kind}) < MaxReads
Untouched == UNCHANGED <<page, server, session, form, view, pending, feed, spent>>

\* What a read finds now.  The reads of the two timers leave and are served in
\* one step: had what they depend on changed in between, they would be dropped.
ReadNow(kind) == [kind |-> kind, view |-> IF login = "valid" THEN run ELSE NoRun,
                  reply |-> IF login = "valid" THEN "ok" ELSE "401"]

\* Fault: the snapshot is only asked for while the stream is down.
ReconcileWhenDown ==
    /\ session
    /\ Running(shown)
    /\ ~connected
    /\ RoomFor("reconcile")
    /\ calls' = calls \cup {ReadNow("reconcile")}
    /\ Untouched

\* reconcileLivePollSnapshot
Reconcile ==
    /\ session
    /\ Running(shown)
    /\ connected
    /\ RoomFor("reconcile")
    /\ calls' = calls \cup {ReadNow("reconcile")}
    /\ Untouched

\* Fault: it is only asked for while a run is shown.
FallbackWhileRunning ==
    /\ session
    /\ ~connected
    /\ Running(shown)
    /\ RoomFor("fallback")
    /\ calls' = calls \cup {ReadNow("fallback")}
    /\ Untouched

\* refreshPollStatus: every second while a run is shown or a poll was asked
\* for, every five seconds otherwise.
Fallback ==
    /\ session
    /\ ~connected
    /\ RoomFor("fallback")
    /\ calls' = calls \cup {ReadNow("fallback")}
    /\ Untouched

\* A failure clears what InboxBridge Go shows; the workspace keeps it.  An
\* answer 401 says nothing to either.
SnapshotAnswered(c) ==
    /\ c.kind \in {"reconcile", "fallback", "snapshot"}
    /\ CASE c.reply = "ok" -> Apply(c.view)
         [] c.reply # "ok" /\ c.kind = "fallback" /\ page = "remote" -> Apply(NoRun)
         [] OTHER -> UNCHANGED shown
    /\ UNCHANGED connected
    /\ UNCHANGED <<page, server, session, form, pending, feed, spent>>
    /\ Keep(calls \ {c})

\* The workspace reads its data on a timer (ConsoleSession): it finds out that
\* its session is gone.
Refresh ==
    /\ page = "web"
    /\ session
    /\ login # "valid"
    /\ UNCHANGED <<page, server, spent>>
    /\ SignedOut(calls)

\* verifyBrowserSessionAfterStreamError, verifyRemoteSessionAfterStreamError
SessionVerified(c) ==
    /\ c.kind = "me"
    /\ UNCHANGED <<page, server, spent>>
    /\ IF c.reply = "401"
         THEN SignedOut(calls \ {c})
         ELSE /\ calls' = calls \ {c}
              /\ UNCHANGED <<session, form, view, pending, feed>>

-----------------------------------------------------------------------------
(***************************************************************************)
(* What the user does.                                                     *)
(***************************************************************************)

Set(k) == pending' = IF page = "web" THEN pending \cup {k} ELSE {k}
Unset(k) == pending' = IF page = "web" THEN pending \ {k} ELSE {}

\* The buttons: a poll while no run is shown, the controls while one is.
Usable == session /\ ~loading /\ control # "setup"
MayPoll == Usable /\ ~Running(shown) /\ "poll" \notin pending
Paused == shown.state = "PAUSED"
Offered(k) ==
    /\ Usable
    /\ Running(shown)
    /\ k = "pause" => ~Paused
    /\ k = "resume" => Paused
    /\ k = "retry" => page = "web"
    /\ page = "remote" => k \notin pending

Press(k) ==
    /\ IF k = "poll" THEN MayPoll ELSE Offered(k)
    /\ Act
    /\ Set(k)
    /\ UNCHANGED <<page, server, session, form, view, feed>>
    /\ Ask(k)

\* runPoll: the answer comes when the run has ended; it is followed by a
\* reading of the controls and of the live view, or of the workspace's data.
PollAnswered(c) ==
    /\ c.kind = "poll"
    /\ UNCHANGED <<page, server, spent>>
    /\ CASE c.reply = "401" -> SignedOut(calls \ {c})
         [] c.reply = "ok" /\ page = "remote" ->
              /\ UNCHANGED <<session, form, view, pending, feed>>
              /\ calls' = (calls \ {c}) \cup {CallOf("after")}
         [] OTHER -> /\ Unset("poll")
                     /\ UNCHANGED <<session, form, view, feed>>
                     /\ Keep(calls \ {c})
AfterPoll(c) ==
    /\ c.kind = "after"
    /\ UNCHANGED <<page, server, spent>>
    /\ IF c.reply = "401"
         THEN SignedOut(calls \ {c})
         ELSE /\ IF c.reply = "ok" THEN Apply(c.view) ELSE UNCHANGED shown
              /\ Unset("poll")
              /\ control' = IF c.reply = "fail" THEN control ELSE IF setup THEN "setup" ELSE "ready"
              /\ UNCHANGED <<session, loading, stage, connected, feed>>
              /\ Keep(calls \ {c})

\* invokeLivePollAction, runLivePollAction: the answer is a snapshot.
ControlAnswered(c) ==
    /\ c.kind \in Controls
    /\ UNCHANGED <<page, server, spent>>
    /\ IF c.reply = "401"
         THEN SignedOut(calls \ {c})
         ELSE /\ IF c.reply = "ok" THEN Apply(c.view) ELSE UNCHANGED shown
              /\ Unset(c.kind)
              /\ UNCHANGED <<session, form, connected, feed>>
              /\ Keep(calls \ {c})

\* handleLogout of InboxBridge Go keeps the session when the call fails.
Logout ==
    /\ page = "remote"
    /\ session
    /\ "logout" \notin pending
    /\ Act
    /\ Set("logout")
    /\ UNCHANGED <<page, server, session, form, view, feed>>
    /\ Ask("logout")
LoggedOut(c) ==
    /\ c.kind = "logout"
    /\ UNCHANGED <<page, server, spent>>
    /\ IF c.reply = "fail"
         THEN Unset("logout") /\ UNCHANGED <<session, form, view, feed>> /\ Keep(calls \ {c})
         ELSE SignedOut(calls \ {c})

-----------------------------------------------------------------------------
(***************************************************************************)
(* InboxBridge Go opens and signs in.                                      *)
(***************************************************************************)

\* loadRemoteState: the session, then the controls and a snapshot, then the
\* session is set.
Started(c) ==
    /\ c.kind = "start"
    /\ loading' = FALSE
    /\ IF c.reply = "ok"
         THEN /\ SignedIn
              /\ control' = IF setup THEN "setup" ELSE "ready"
              /\ Apply(c.view)
         ELSE UNCHANGED <<session, feed, control, shown>>
    /\ UNCHANGED <<page, server, stage, connected, pending, spent>>
    /\ Keep(calls \ {c})

ShowCredentials ==
    /\ page = "remote" /\ ~session /\ ~loading
    /\ stage = "username"
    /\ stage' = "credentials"
    /\ UNCHANGED <<page, server, session, loading, control, view, pending, feed, calls, spent>>

\* The password, or the passkey alone.
SubmitLogin(kind) ==
    /\ kind \in {"login", "options"}
    /\ page = "remote" /\ ~session /\ ~loading
    /\ stage = "credentials"
    /\ "sign-in" \notin pending
    /\ ~Calling(SignIns)
    /\ Act
    /\ pending' = pending \cup {"sign-in"}
    /\ UNCHANGED <<page, server, session, form, view, feed>>
    /\ Ask(kind)

\* A challenge is shown by the browser; the user answers it or not.
AnswerPrompt(c) ==
    /\ c.kind = "prompt"
    /\ UNCHANGED <<page, server, session, form, view, feed, spent>>
    /\ \/ UNCHANGED pending /\ Keep((calls \ {c}) \cup {CallOf("verify")})
       \/ pending' = pending \ {"sign-in"} /\ Keep(calls \ {c})

SignInAnswered(c) ==
    /\ c.kind \in {"login", "options", "verify"}
    /\ UNCHANGED <<page, server, form, view, spent>>
    /\ CASE c.reply = "passkey" \/ (c.kind = "options" /\ c.reply = "ok") ->
              UNCHANGED <<session, feed, pending>> /\ Keep((calls \ {c}) \cup {CallOf("prompt")})
         [] c.kind # "options" /\ c.reply = "ok" ->
              SignedIn /\ UNCHANGED pending /\ Keep((calls \ {c}) \cup {CallOf("pair")})
         [] OTHER -> /\ pending' = pending \ {"sign-in"}
                     /\ UNCHANGED <<session, feed>>
                     /\ Keep(calls \ {c})

\* After the sign-in: if the controls fail the page stays without them.
Paired(c) ==
    /\ c.kind = "pair"
    /\ IF c.reply = "ok"
         THEN Apply(c.view) /\ control' = IF setup THEN "setup" ELSE "ready"
         ELSE UNCHANGED <<shown, control>>
    /\ pending' = pending \ {"sign-in"}
    /\ UNCHANGED <<page, server, session, loading, stage, connected, feed, spent>>
    /\ Keep(calls \ {c})

-----------------------------------------------------------------------------
(***************************************************************************)
(* The server.                                                             *)
(***************************************************************************)

Reply(c, r, v) == (calls \ {c}) \cup {[c EXCEPT !.reply = r, !.view = v]}

StartRun ==
    /\ ~Running(run)
    /\ runs < MaxRuns
    /\ runs' = runs + 1
    /\ run' = [run |-> runs + 1, state |-> "RUNNING"]
    /\ Room
    /\ Emit(run')

\* A poll is asked for by the page; another one may have begun meanwhile.
ServePoll(c) ==
    /\ c.kind = "poll"
    /\ ~Running(c.view)
    /\ IF Running(run)
         THEN calls' = Reply(c, "ok", NoRun) /\ UNCHANGED <<run, runs, events>>
         ELSE StartRun /\ calls' = Reply(c, "none", run')

\* requestPause, requestResume, requestStop, moveSourceToFront, retrySource: a
\* control names no run, and one the run refuses changes nothing.
Controlled(k) ==
    CASE k = "pause" -> "PAUSED"
      [] k = "resume" /\ run.state = "PAUSED" -> "RUNNING"
      [] k = "stop" /\ run.state # "STOPPING" -> "STOPPING"
      [] k = "retry" /\ run.state = "STOPPING" -> "RUNNING"
      [] OTHER -> run.state
ApplyControl(k) ==
    IF Running(run) /\ Controlled(k) # run.state
      THEN Room /\ run' = [run EXCEPT !.state = Controlled(k)] /\ Emit(run')
      ELSE UNCHANGED <<run, events>>
ServeControl(c) ==
    /\ c.kind \in Controls
    /\ ApplyControl(c.kind)
    /\ calls' = Reply(c, "ok", run')
    /\ UNCHANGED runs

ServeRead(c) ==
    /\ c.kind \in {"start", "pair", "after", "me"}
    /\ calls' = Reply(c, "ok", run)
    /\ UNCHANGED <<run, runs, events>>

\* Every path but the sign-in's wants a session.
Serve(c) ==
    /\ c.reply = "none"
    /\ c.kind \notin SignIns \cup {"logout"}
    /\ IF login = "valid"
         THEN ServePoll(c) \/ ServeControl(c) \/ ServeRead(c)
         ELSE calls' = Reply(c, "401", NoRun) /\ UNCHANGED <<run, runs, events>>
    /\ UNCHANGED <<page, login, setup, session, form, view, pending, stream, spent>>
ServeLogout(c) ==
    /\ c.kind = "logout" /\ c.reply = "none"
    /\ calls' = Reply(c, IF login = "valid" THEN "ok" ELSE "401", NoRun)
    /\ login' = "none"
    /\ UNCHANGED <<page, run, runs, setup, session, form, view, pending, feed, spent>>
ServeSignIn(c) ==
    /\ c.kind \in SignIns \ {"prompt"} /\ c.reply = "none"
    /\ \E r \in {"ok", "passkey"} :
        /\ r = "passkey" => c.kind = "login"
        /\ calls' = Reply(c, r, NoRun)
        /\ login' = IF r = "ok" /\ c.kind # "options" THEN "valid" ELSE login
    /\ UNCHANGED <<page, run, runs, setup, session, form, view, pending, feed, spent>>

\* A call or its answer fails.  Nothing makes a lost session check of
\* InboxBridge Go good, so that one is not lost.
Fail(c) ==
    /\ c.kind # "prompt"
    /\ c.reply # "fail"
    /\ c.kind = "me" => page = "web"
    /\ Fault
    /\ calls' = Reply(c, "fail", NoRun)
    /\ UNCHANGED <<page, server, session, form, view, pending, feed>>

\* The workers and the other surfaces, which pause a run (the page does the
\* rest).
RunStarts ==
    /\ StartRun
    /\ UNCHANGED <<page, login, setup, session, form, view, pending, stream, calls, spent>>
PausedElsewhere ==
    /\ run.state = "RUNNING"
    /\ ApplyControl("pause")
    /\ UNCHANGED <<page, runs, login, setup, session, form, view, pending, stream, calls, spent>>

\* finishRun publishes the end while the run is still the active one; those who
\* asked for it are answered.
RunEnds ==
    /\ run.state \in {"RUNNING", "STOPPING"}
    /\ Room
    /\ Emit([run EXCEPT !.state = "ENDED"])
    /\ calls' = {IF c.kind = "poll" /\ c.reply = "none" /\ c.view.run = run.run
                   THEN [c EXCEPT !.reply = "ok", !.view = NoRun] ELSE c : c \in calls}
    /\ run' = NoRun
    /\ UNCHANGED <<page, runs, login, setup, session, form, view, pending, stream, spent>>

\* publishSessionRevoked closes the streams of the session; one that merely
\* expires keeps its stream.
SessionRevoked ==
    /\ login = "valid"
    /\ Room
    /\ Fault
    /\ login' = "revoked"
    /\ events' = IF stream = "open"
                   THEN Append(events, [type |-> "session-revoked", view |-> NoRun]) ELSE events
    /\ UNCHANGED <<page, run, runs, setup, session, form, view, pending, stream, calls>>
SessionExpires ==
    /\ login = "valid"
    /\ Fault
    /\ login' = "expired"
    /\ UNCHANGED <<page, run, runs, setup, session, form, view, pending, feed, calls>>

-----------------------------------------------------------------------------
Answer(c) ==
    /\ c.reply # "none"
    /\ \/ SnapshotAnswered(c) \/ SessionVerified(c) \/ PollAnswered(c) \/ AfterPoll(c)
       \/ ControlAnswered(c) \/ LoggedOut(c) \/ Started(c) \/ SignInAnswered(c) \/ Paired(c)

ServerNext ==
    \/ RunStarts \/ RunEnds \/ SessionRevoked \/ SessionExpires
    \/ PausedElsewhere
    \/ \E c \in calls : Serve(c) \/ ServeLogout(c) \/ ServeSignIn(c) \/ Fail(c)
PageNext ==
    \/ Connect \/ Keepalive \/ Deliver \/ StreamError \/ StreamDies \/ SessionTouched
    \/ Watchdog \/ Reconcile \/ Fallback \/ Refresh \/ Logout \/ ShowCredentials
    \/ \E k \in Controls \cup {"poll"} : Press(k)
    \/ \E kind \in {"login", "options"} : SubmitLogin(kind)
    \/ \E c \in calls : Answer(c) \/ AnswerPrompt(c)
Next == ServerNext \/ PageNext

\* The timers run, the stream delivers and reconnects, reads are answered.
ServeChecks == \E c \in calls : c.kind = "me" /\ Serve(c)
AnswerOf(kinds) == \E c \in calls : c.kind \in kinds /\ Answer(c)
Fairness ==
    /\ WF_vars(Connect) /\ WF_vars(Keepalive) /\ WF_vars(Deliver)
    /\ WF_vars(Watchdog)
    /\ WF_vars(Reconcile) /\ WF_vars(Fallback) /\ WF_vars(Refresh)
    /\ WF_vars(ServeChecks)
    /\ WF_vars(AnswerOf({"reconcile", "fallback"}))
    /\ WF_vars(AnswerOf({"me"}))

Spec == Init /\ [][Next]_vars
FairSpec == Spec /\ Fairness

-----------------------------------------------------------------------------
\* A run the page shows goes from the page once it has ended, however its last
\* event, its snapshots and its stream fare.
OutOfDate == session /\ Running(shown) /\ shown.run # run.run
ShownRunEnds == (OutOfDate /\ login = "valid") ~> (~OutOfDate \/ login # "valid")

\* A page that knows it has no stream finds the run that is going on.
DisconnectedPageCatchesUp ==
    (Running(run) /\ session /\ login = "valid" /\ ~connected)
        ~> (Running(shown) \/ connected \/ ~Running(run) \/ ~session \/ login # "valid")

=============================================================================
