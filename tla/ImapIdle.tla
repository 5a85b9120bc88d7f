------------------------------ MODULE ImapIdle ------------------------------
(***************************************************************************)
(* The watchers of IMAP IDLE sources (ImapIdleWatchService): one thread per *)
(* watched folder, which connects, queues a catch-up, waits for the server  *)
(* to announce mail and reconnects; the registry that replaces watchers     *)
(* when a mailbox is saved; the sweeps that drain the queue into polls; the *)
(* health records (ImapIdleHealthService) and the scheduler's safety poll.  *)
(***************************************************************************)
EXTENDS Integers, FiniteSets

CONSTANTS
    Source,
    Folder,
    Slot,           \* bound: threads of one folder alive at once
    Drainer,        \* bound: sweeps of the queue running at once
    Scheduler,      \* the scheduler, which polls too
    MaxMail,        \* bound: messages that arrive in one folder
    MaxDisturbances \* bound: changes of the mailboxes, runs of other sources,
                    \* failed polls and restarts, all together

ASSUME ImapIdleAssumption ==
    /\ Source # {}
    /\ Scheduler \notin Drainer
    /\ {"none", "other"} \cap (Drainer \cup {Scheduler}) = {}
    /\ MaxMail \in Nat
    /\ MaxDisturbances \in Nat

Key == Source \X Folder
Watcher == Key \X Slot
Poller == Drainer \cup {Scheduler}
KeyOf(w) == w[1]
SourceOf(w) == w[1][1]

VARIABLES
    folders,        \* each source's watched folders, none when it is not an
                    \* enabled IDLE mailbox
    outdated,       \* the sources whose credentials, host or timings are no
                    \* longer those their watchers were started with
    dirty,          \* a saved configuration whose refresh has not run
    safetyPolling,  \* the policy: stale acknowledgements or disconnections
    watch,          \* the watcher threads
    health,         \* per watched folder: its connection, and whether its last
                    \* acknowledgement is within the safety interval
    pending,        \* pendingSources
    job,            \* what each sweep and the scheduler are polling
    running,        \* who holds the run flag of PollingService
    success,        \* each source's last successful poll, against the interval
    mail,           \* messages that have arrived in each folder
    synced,         \* how many of them a poll has handled
    failed,         \* some poll has failed
    disturbances    \* how often the world has interfered

serviceVars == <<watch, health, pending, job, running>>
mailboxVars == <<folders, outdated>>
serverVars == <<mailboxVars, mail, safetyPolling>>
boundVars == <<failed, disturbances>>
vars == <<serviceVars, serverVars, dirty, success, synced, boundVars>>

Phase == {"none", "connecting", "open", "listening", "idle", "closing",
          "disconnecting"}
NoWatcher == [phase |-> "none", active |-> FALSE, known |-> 0]
NoJob == [stage |-> "none", folders |-> {}, notification |-> FALSE,
          source |-> CHOOSE s \in Source : TRUE, seen |-> [f \in Folder |-> 0]]
Untracked == [state |-> "untracked", fresh |-> FALSE]
Since(state) == [state |-> state, fresh |-> TRUE]

Watched(k) == k[2] \in folders[k[1]]
ActiveOf(k) == {w \in Watcher : KeyOf(w) = k /\ watch[w].active}

\* What a process begins with: nothing of the service is kept.
NoWatchers == [w \in Watcher |-> NoWatcher]
NoRecords == [k \in Key |-> Untracked]
NothingPending == [s \in Source |-> "none"]
NoJobs == [p \in Poller |-> NoJob]

Init ==
    /\ watch = NoWatchers
    /\ health = NoRecords
    /\ pending = NothingPending
    /\ job = NoJobs
    /\ running = "none"
    /\ dirty = TRUE
    /\ folders \in [Source -> SUBSET Folder]
    /\ outdated = {}
    /\ safetyPolling \in BOOLEAN
    /\ success = [s \in Source |-> "never"]
    /\ mail = [k \in Key |-> 0]
    /\ synced = [k \in Key |-> 0]
    /\ failed = FALSE
    /\ disturbances = 0

Disturb ==
    /\ disturbances < MaxDisturbances
    /\ disturbances' = disturbances + 1

-----------------------------------------------------------------------------
(* Health records (ImapIdleHealthService). *)

\* Fault: only a connection starts a record.
TrackedOnceConnected(h) == h

Tracked(h) == IF h.state = "untracked" THEN Since("disconnected") ELSE h
Disconnected(h) ==
    IF h.state = "connected" THEN [h EXCEPT !.state = "disconnected"] ELSE Tracked(h)

\* An acknowledged renewal keeps the record of a connected folder fresh.
Renewing(k) ==
    /\ health[k].state = "connected"
    /\ \E w \in ActiveOf(k) : watch[w].phase = "idle"

\* The safety interval passes, which only its policy looks at; a folder that renews is acknowledged within it.
AcknowledgementExpires(k) ==
    /\ safetyPolling
    /\ health[k].fresh
    /\ ~Renewing(k)
    /\ health' = [health EXCEPT ![k].fresh = FALSE]
    /\ UNCHANGED <<serverVars, watch, pending, job, running, dirty, success, synced, boundVars>>

SuccessExpires(s) ==
    /\ safetyPolling
    /\ success[s] = "fresh"
    /\ success' = [success EXCEPT ![s] = "stale"]
    /\ UNCHANGED <<serverVars, serviceVars, dirty, synced, boundVars>>

\* The oldest acknowledgement of the source's folders and its last success are
\* both too old (nextSafetyPollAt); without the policy, a folder's disconnection
\* is (shouldSchedulerFallback).
SafetyPollIsDue(s) ==
    LET records == {health[<<s, f>>] : f \in Folder} \ {Untracked} IN
    IF safetyPolling
    THEN \/ records = {} /\ success[s] = "stale"
         \/ success[s] # "fresh" /\ \E h \in records : ~h.fresh
    ELSE \E h \in records : h.state = "disconnected"

-----------------------------------------------------------------------------
(* The registry (refreshWatches), and the mailboxes it follows. *)

\* The request that saves a mailbox answers once its observer has refreshed.
SaveMailbox(s) ==
    /\ ~dirty
    /\ \A k \in {s} \X Folder : \E i \in Slot : watch[<<k, i>>].phase = "none"
    /\ Disturb
    /\ \E F \in SUBSET Folder : folders' = [folders EXCEPT ![s] = F]
    /\ outdated' \in {outdated, outdated \cup {s}}
    /\ dirty' = TRUE
    /\ UNCHANGED <<serviceVars, mail, safetyPolling, success, synced, failed>>

Matches(w) == Watched(KeyOf(w)) /\ SourceOf(w) \notin outdated
Kept(k) == {w \in ActiveOf(k) : Matches(w)}
FreeSlot(k) == CHOOSE i \in Slot : watch[<<k, i>>].phase = "none"
Starts(w) == /\ Watched(KeyOf(w))
             /\ Kept(KeyOf(w)) = {}
             /\ w = <<KeyOf(w), FreeSlot(KeyOf(w))>>

\* A stopped watcher is interrupted and forgotten with its health record; the
\* missing ones are tracked as disconnected and started. The timer's refreshes
\* between two changes find nothing to do.
RefreshWatches ==
    /\ dirty
    /\ dirty' = FALSE
    /\ outdated' = {}
    /\ watch' = [w \in Watcher |->
          IF Starts(w)
          THEN [phase |-> "connecting", active |-> TRUE, known |-> 0]
          ELSE IF watch[w].active /\ ~Matches(w) THEN [watch[w] EXCEPT !.active = FALSE]
          ELSE watch[w]]
    /\ health' = [k \in Key |->
          LET kept == IF ActiveOf(k) \ Kept(k) # {} THEN Untracked ELSE health[k]
          IN  IF Watched(k) THEN Tracked(kept) ELSE kept]
    /\ UNCHANGED <<folders, mail, safetyPolling, pending, job, running, success, synced,
                   boundVars>>

-----------------------------------------------------------------------------
(* A watcher thread (runLoop, watchUntilInterrupted). *)

Moves(w, from, to) ==
    /\ watch[w].phase = from
    /\ watch' = [watch EXCEPT ![w].phase = to]

\* A notification outranks a catch-up (queueSync).
Queued(reason, old) == IF "notification" \in {reason, old} THEN "notification" ELSE "catchup"
QueueSync(s, reason) == pending' = [pending EXCEPT ![s] = Queued(reason, @)]

\* The folder is opened and its messages are counted.
Connect(w) ==
    /\ watch[w].phase = "connecting"
    /\ watch' = [watch EXCEPT ![w].phase = "open", ![w].known = mail[KeyOf(w)]]
    /\ UNCHANGED <<serverVars, health, pending, job, running, dirty, success, synced, boundVars>>

ConnectFails(w) ==
    /\ Moves(w, "connecting", "closing")
    /\ UNCHANGED <<serverVars, health, pending, job, running, dirty, success, synced, boundVars>>

\* The listener is added, then a catch-up queued for what arrived before it.
QueueCatchUp(w) ==
    /\ Moves(w, "open", "listening")
    /\ QueueSync(SourceOf(w), "catchup")
    /\ UNCHANGED <<serverVars, health, job, running, dirty, success, synced, boundVars>>

\* No look at the active flag comes between the connection and its record.
MarkConnected(w) ==
    /\ Moves(w, "listening", "idle")
    /\ health' = [health EXCEPT ![KeyOf(w)] = Since("connected")]
    /\ UNCHANGED <<serverVars, pending, job, running, dirty, success, synced, boundVars>>

\* The server announces mail: the listener, or the count after idle() returns.
Announce(w) ==
    /\ watch[w].phase = "idle"
    /\ mail[KeyOf(w)] > watch[w].known
    /\ watch' = [watch EXCEPT ![w].known = mail[KeyOf(w)]]
    /\ QueueSync(SourceOf(w), "notification")
    /\ UNCHANGED <<serverVars, health, job, running, dirty, success, synced, boundVars>>

\* The connection is lost.
Drop(w) ==
    /\ watch[w].active
    /\ Moves(w, "idle", "closing")
    /\ UNCHANGED <<serverVars, health, pending, job, running, dirty, success, synced, boundVars>>

\* A renewal is not acknowledged in time: the reader is interrupted.
RenewalFails(w) ==
    /\ watch[w].active
    /\ Moves(w, "idle", "closing")
    /\ health' = [health EXCEPT ![KeyOf(w)] = Disconnected(@)]
    /\ UNCHANGED <<serverVars, pending, job, running, dirty, success, synced, boundVars>>

\* Fault: stopping clears the flag and interrupts nothing.
LeaveIdleWhenTold(w) ==
    /\ ~watch[w].active
    /\ mail[KeyOf(w)] > watch[w].known
    /\ Moves(w, "idle", "closing")
    /\ UNCHANGED <<serverVars, health, pending, job, running, dirty, success, synced, boundVars>>

\* A stopped watcher leaves idle(): it was interrupted, or its loop looks.
LeaveIdle(w) ==
    /\ ~watch[w].active
    /\ Moves(w, "idle", "closing")
    /\ UNCHANGED <<serverVars, health, pending, job, running, dirty, success, synced, boundVars>>

\* The finally block looks at the active flag before it records anything.
Close(w) ==
    /\ Moves(w, "closing", IF watch[w].active THEN "disconnecting" ELSE "none")
    /\ UNCHANGED <<serverVars, health, pending, job, running, dirty, success, synced, boundVars>>

\* The loop goes on after its delay, unless the watcher was stopped.
MarkDisconnected(w) ==
    /\ Moves(w, "disconnecting", IF watch[w].active THEN "connecting" ELSE "none")
    /\ health' = [health EXCEPT ![KeyOf(w)] = Disconnected(@)]
    /\ UNCHANGED <<serverVars, pending, job, running, dirty, success, synced, boundVars>>

-----------------------------------------------------------------------------
(* Polls: the sweep of the queue (drainPendingSources), and the scheduler's. *)

\* A source is taken off the queue; one that is no longer eligible is dropped.
Take(d, s) ==
    /\ job[d].stage = "none"
    /\ pending[s] # "none"
    /\ pending' = [pending EXCEPT ![s] = "none"]
    /\ job' = IF folders[s] = {} THEN job
              ELSE [job EXCEPT ![d] =
                      [stage |-> "taken", source |-> s, folders |-> folders[s],
                       notification |-> pending[s] = "notification",
                       seen |-> [f \in Folder |-> 0]]]
    /\ UNCHANGED <<serverVars, watch, health, running, dirty, success, synced, boundVars>>

SourceBusy(s) == \E p \in Poller : job[p].stage = "polling" /\ job[p].source = s

\* runIdleSourcePoll: beside the scheduler's run, or as the one run.
Refused(d) ==
    \/ SourceBusy(job[d].source)
    \/ running \notin {"none", Scheduler}

Fetched(s) == [f \in Folder |-> mail[<<s, f>>]]

BeginPoll(d) ==
    /\ job[d].stage = "taken"
    /\ ~Refused(d)
    /\ job' = [job EXCEPT ![d].stage = "polling", ![d].seen = Fetched(job[d].source)]
    /\ running' = IF running = Scheduler THEN Scheduler ELSE d
    /\ UNCHANGED <<serverVars, watch, health, pending, dirty, success, synced, boundVars>>

\* Fault: a busy result ends the attempt.
RequeueNothing(d) ==
    /\ job[d].stage = "taken"
    /\ Refused(d)
    /\ job' = [job EXCEPT ![d] = NoJob]
    /\ UNCHANGED <<serverVars, watch, health, pending, running, dirty, success, synced, boundVars>>

\* A busy result puts the source back with the reason it was queued for.
Requeue(d) ==
    /\ job[d].stage = "taken"
    /\ Refused(d)
    /\ job' = [job EXCEPT ![d] = NoJob]
    /\ QueueSync(job[d].source, IF job[d].notification THEN "notification" ELSE "catchup")
    /\ UNCHANGED <<serverVars, watch, health, running, dirty, success, synced, boundVars>>

\* The deadline is looked at again once the source is the scheduler's.
SafetyPoll(s) ==
    /\ running = "none"
    /\ folders[s] # {}
    /\ ~SourceBusy(s)
    /\ SafetyPollIsDue(s)
    /\ running' = Scheduler
    /\ job' = [job EXCEPT ![Scheduler] =
                 [stage |-> "polling", source |-> s, folders |-> folders[s],
                  notification |-> FALSE, seen |-> Fetched(s)]]
    /\ UNCHANGED <<serverVars, watch, health, pending, dirty, success, synced, boundVars>>

EndPoll(p) ==
    /\ job[p].stage = "polling"
    /\ job' = [job EXCEPT ![p] = NoJob]
    /\ running' = IF running = p THEN "none" ELSE running
    /\ UNCHANGED <<serverVars, watch, health, pending, dirty>>

PollSucceeds(p) ==
    /\ EndPoll(p)
    /\ synced' = [k \in Key |->
          IF /\ k[1] = job[p].source
             /\ k[2] \in job[p].folders
             /\ synced[k] < job[p].seen[k[2]]
          THEN job[p].seen[k[2]] ELSE synced[k]]
    /\ success' = [success EXCEPT ![job[p].source] = "fresh"]
    /\ UNCHANGED boundVars

\* The result of a failed poll is not busy, and nothing is queued again.
PollFails(p) ==
    /\ EndPoll(p)
    /\ failed' = TRUE
    /\ Disturb
    /\ UNCHANGED <<success, synced>>

-----------------------------------------------------------------------------
(* The world. *)

Arrive(k) ==
    /\ mail[k] < MaxMail
    /\ mail' = [mail EXCEPT ![k] = @ + 1]
    /\ UNCHANGED <<mailboxVars, safetyPolling, serviceVars, dirty, success, synced, boundVars>>

\* A user polls other sources.
OtherRunBegins ==
    /\ running = "none"
    /\ Disturb
    /\ running' = "other"
    /\ UNCHANGED <<serverVars, watch, health, pending, job, dirty, success, synced, failed>>

OtherRunEnds ==
    /\ running = "other"
    /\ running' = "none"
    /\ UNCHANGED <<serverVars, watch, health, pending, job, dirty, success, synced, boundVars>>

\* Nothing of the service survives; what was imported, and when, does.
Restart ==
    /\ Disturb
    /\ watch' = NoWatchers
    /\ health' = NoRecords
    /\ pending' = NothingPending
    /\ job' = NoJobs
    /\ running' = "none"
    /\ dirty' = TRUE
    /\ outdated' = {}
    /\ UNCHANGED <<folders, mail, safetyPolling, success, synced, failed>>

-----------------------------------------------------------------------------
\* What a watcher thread does by itself; connecting ends one way or the other.
ConnectionAttempt(w) == Connect(w) \/ ConnectFails(w)
Proceed(w) ==
    \/ QueueCatchUp(w)
    \/ MarkConnected(w)
    \/ LeaveIdle(w)
    \/ Close(w)
    \/ MarkDisconnected(w)
Sweep(d) == (\E s \in Source : Take(d, s)) \/ BeginPoll(d) \/ Requeue(d)

Next ==
    \/ RefreshWatches
    \/ \E s \in Source : SaveMailbox(s) \/ SafetyPoll(s) \/ SuccessExpires(s)
    \/ \E k \in Key : AcknowledgementExpires(k) \/ Arrive(k)
    \/ \E w \in Watcher : ConnectionAttempt(w) \/ Proceed(w) \/ Announce(w)
                          \/ Drop(w) \/ RenewalFails(w)
    \/ \E d \in Drainer : Sweep(d)
    \/ \E p \in Poller : PollSucceeds(p) \/ PollFails(p)
    \/ OtherRunBegins
    \/ OtherRunEnds
    \/ Restart

\* The timers fire and time passes, threads run, connection attempts time out,
\* a server announces mail to a client that waits, polls and runs end. That an
\* attempt to connect ever succeeds is not assumed.
Fairness ==
    /\ WF_vars(RefreshWatches)
    /\ WF_vars(OtherRunEnds)
    /\ \A s \in Source : WF_vars(SafetyPoll(s)) /\ WF_vars(SuccessExpires(s))
    /\ \A k \in Key : WF_vars(AcknowledgementExpires(k))
    /\ \A w \in Watcher : /\ WF_vars(ConnectionAttempt(w))
                          /\ WF_vars(Proceed(w))
                          /\ WF_vars(Announce(w))
    /\ \A d \in Drainer : WF_vars(Sweep(d))
    /\ \A p \in Poller : WF_vars(PollSucceeds(p))

Spec == Init /\ [][Next]_vars
FairSpec == Spec /\ Fairness

-----------------------------------------------------------------------------
(* Properties. *)

TypeOK ==
    /\ folders \in [Source -> SUBSET Folder]
    /\ outdated \in SUBSET Source
    /\ dirty \in BOOLEAN
    /\ safetyPolling \in BOOLEAN
    /\ watch \in [Watcher -> [phase : Phase, active : BOOLEAN, known : 0..MaxMail]]
    /\ health \in [Key -> [state : {"untracked", "disconnected", "connected"}, fresh : BOOLEAN]]
    /\ pending \in [Source -> {"none", "catchup", "notification"}]
    /\ job \in [Poller -> [stage : {"none", "taken", "polling"}, folders : SUBSET Folder,
                          notification : BOOLEAN, source : Source,
                          seen : [Folder -> 0..MaxMail]]]
    /\ running \in {"none", "other"} \cup Poller
    /\ success \in [Source -> {"never", "fresh", "stale"}]
    /\ mail \in [Key -> 0..MaxMail]
    /\ synced \in [Key -> 0..MaxMail]
    /\ failed \in BOOLEAN
    /\ disturbances \in 0..MaxDisturbances

\* A watcher that has yet to queue its catch-up will; one past it announces
\* what it does not know of.
WillTell(w, n) ==
    \/ watch[w].phase \notin {"listening", "idle"}
    \/ watch[w].known < n

InHand(k, n) ==
    \/ pending[k[1]] # "none"
    \/ \E p \in Poller :
          /\ job[p].source = k[1]
          /\ k[2] \in job[p].folders
          /\ \/ job[p].stage = "taken"
             \/ job[p].stage = "polling" /\ job[p].seen[k[2]] >= n

SpokenFor(k, n) ==
    \/ n <= synced[k]
    \/ InHand(k, n)
    \/ ActiveOf(k) = {}
    \/ \E w \in ActiveOf(k) : WillTell(w, n)

\* As long as no poll has failed, every message of a watched folder is handled,
\* or queued, or in a poll that fetched it, or will be told of by the folder's
\* watcher, or the folder's watcher is still to be started: no order of sweeps,
\* busy results, reconnections and replaced watchers lets one slip between
\* them (drainPendingSources, watchUntilInterrupted, refreshWatches).
MailIsSpokenFor ==
    ~failed => \A k \in Key : Watched(k) => \A n \in 1..mail[k] : SpokenFor(k, n)

\* Mail of a watched folder is handled in the end if no poll fails, even when
\* the server never accepts the watcher's connection: the safety poll sees to it.
MailIsHandled ==
    []~failed => \A k \in Key : \A n \in 1..MaxMail :
        Watched(k) /\ mail[k] >= n ~> synced[k] >= n \/ ~Watched(k)

\* A watcher that was stopped ends, wherever its thread was (stop, runLoop).
StoppedWatchersEnd ==
    \A w \in Watcher : watch[w].phase # "none" /\ ~watch[w].active ~> watch[w].phase = "none"

=============================================================================
