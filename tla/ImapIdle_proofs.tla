--------------------------- MODULE ImapIdle_proofs ---------------------------
(***************************************************************************)
(* Theorems about ImapIdle, for every set of sources, folders and sweeps    *)
(* and every bound: its state is well typed, and as long as no poll fails   *)
(* no message of a watched folder slips between watcher, queue and poll.    *)
(***************************************************************************)
EXTENDS ImapIdle, TLAPS

WatchType == [Watcher -> [phase : Phase, active : BOOLEAN, known : 0..MaxMail]]
HealthRecord == [state : {"untracked", "disconnected", "connected"}, fresh : BOOLEAN]
JobType == [stage : {"none", "taken", "polling"}, folders : SUBSET Folder,
            notification : BOOLEAN, source : Source, seen : [Folder -> 0..MaxMail]]

\* A watcher is a folder of a source and a slot.
LEMMA WatcherShape ==
    ASSUME NEW w \in Watcher
    PROVE  /\ KeyOf(w) \in Key
           /\ SourceOf(w) \in Source
           /\ KeyOf(w)[2] \in Folder
           /\ SourceOf(w) = KeyOf(w)[1]
  BY DEF Watcher, Key, KeyOf, SourceOf

\* Moving a watcher to another phase keeps it a watcher.
LEMMA MovesKeepType ==
    ASSUME watch \in WatchType, NEW w \in Watcher, NEW from, NEW to \in Phase,
           Moves(w, from, to)
    PROVE  watch' \in WatchType
  BY DEF WatchType, Moves

\* What the health service writes is a record.
LEMMA RecordsKeepType ==
    ASSUME health \in [Key -> HealthRecord], NEW k \in Key
    PROVE  /\ Since("connected") \in HealthRecord
           /\ Tracked(health[k]) \in HealthRecord
           /\ Disconnected(health[k]) \in HealthRecord
           /\ Tracked(Untracked) \in HealthRecord
           /\ Untracked \in HealthRecord
  BY DEF HealthRecord, Since, Tracked, Disconnected, Untracked

\* Queueing a source leaves a reason to poll it, and the other sources alone.
LEMMA QueueSyncQueues ==
    ASSUME pending \in [Source -> {"none", "catchup", "notification"}],
           NEW s \in Source, NEW reason \in {"catchup", "notification"},
           QueueSync(s, reason)
    PROVE  /\ pending' \in [Source -> {"none", "catchup", "notification"}]
           /\ pending'[s] # "none"
           /\ \A t \in Source : pending[t] # "none" => pending'[t] # "none"
  BY DEF QueueSync, Queued

\* The jobs a process begins with, and the mail a poll fetches, are well typed.
LEMMA NoJobType == NoJob \in JobType
  <1>1. (CHOOSE s \in Source : TRUE) \in Source
    BY ImapIdleAssumption DEF ImapIdleAssumption
  <1>2. [f \in Folder |-> 0] \in [Folder -> 0..MaxMail]
    BY ImapIdleAssumption DEF ImapIdleAssumption
  <1> QED
    BY <1>1, <1>2 DEF NoJob, JobType

\* A fetch counts messages that have arrived.
LEMMA FetchedType ==
    ASSUME mail \in [Key -> 0..MaxMail], NEW s \in Source
    PROVE  Fetched(s) \in [Folder -> 0..MaxMail]
  BY DEF Fetched, Key

\* So is all a process begins with.
LEMMA EmptyServiceTypes ==
    /\ NoWatchers \in WatchType
    /\ NoRecords \in [Key -> HealthRecord]
    /\ NothingPending \in [Source -> {"none", "catchup", "notification"}]
    /\ NoJobs \in [Poller -> JobType]
  <1>1. NoWatcher \in [phase : Phase, active : BOOLEAN, known : 0..MaxMail]
    BY ImapIdleAssumption DEF ImapIdleAssumption, NoWatcher, Phase
  <1>2. NoWatchers \in WatchType
    BY <1>1 DEF NoWatchers, WatchType
  <1>3. NoRecords \in [Key -> HealthRecord]
    BY DEF NoRecords, Untracked, HealthRecord
  <1>4. NothingPending \in [Source -> {"none", "catchup", "notification"}]
    BY DEF NothingPending
  <1>5. NoJobs \in [Poller -> JobType]
    BY NoJobType DEF NoJobs
  <1> QED
    BY <1>2, <1>3, <1>4, <1>5

-----------------------------------------------------------------------------
(* Type correctness. *)

\* What the threads of the service write, apart from the polls.
ThreadTypes ==
    /\ watch \in WatchType
    /\ health \in [Key -> HealthRecord]
    /\ pending \in [Source -> {"none", "catchup", "notification"}]
PollTypes ==
    /\ job \in [Poller -> JobType]
    /\ running \in {"none", "other"} \cup Poller
    /\ success \in [Source -> {"never", "fresh", "stale"}]
    /\ synced \in [Key -> 0..MaxMail]
WorldTypes ==
    /\ folders \in [Source -> SUBSET Folder]
    /\ outdated \in SUBSET Source
    /\ dirty \in BOOLEAN
    /\ safetyPolling \in BOOLEAN
    /\ mail \in [Key -> 0..MaxMail]
    /\ failed \in BOOLEAN
    /\ disturbances \in 0..MaxDisturbances

\* The types are those of the threads, the polls and the world.
LEMMA TypeParts == TypeOK <=> ThreadTypes /\ PollTypes /\ WorldTypes
  BY DEF TypeOK, ThreadTypes, PollTypes, WorldTypes, WatchType, HealthRecord, JobType

\* They hold when the process begins.
LEMMA InitTypes == Init => TypeOK
  <1> SUFFICES ASSUME Init PROVE ThreadTypes /\ PollTypes /\ WorldTypes
    BY TypeParts
  <1>1. ThreadTypes
    BY EmptyServiceTypes DEF Init, ThreadTypes
  <1>2. PollTypes
    <2>1. job \in [Poller -> JobType]
      BY EmptyServiceTypes DEF Init
    <2> QED
      BY <2>1, ImapIdleAssumption DEF Init, PollTypes, ImapIdleAssumption
  <1>3. WorldTypes
    <2>1. /\ 0 \in 0..MaxMail
          /\ 0 \in 0..MaxDisturbances
      BY ImapIdleAssumption DEF ImapIdleAssumption
    <2>2. safetyPolling \in BOOLEAN /\ dirty \in BOOLEAN /\ failed \in BOOLEAN
      BY Zenon DEF Init
    <2>3. /\ folders \in [Source -> SUBSET Folder]
          /\ outdated \in SUBSET Source
          /\ disturbances \in 0..MaxDisturbances
      BY <2>1 DEF Init
    <2>4. mail \in [Key -> 0..MaxMail]
      BY <2>1 DEF Init
    <2> QED
      BY <2>2, <2>3, <2>4, Zenon DEF WorldTypes
  <1> QED
    BY <1>1, <1>2, <1>3

\* A step of a watcher touches its phase, its folder's record and the queue.
LEMMA WatcherKeepsTypes ==
    ASSUME TypeOK, NEW w \in Watcher,
           \/ ConnectionAttempt(w) \/ Proceed(w) \/ Announce(w)
           \/ Drop(w) \/ RenewalFails(w)
    PROVE  TypeOK'
  <1>0. ThreadTypes /\ PollTypes /\ WorldTypes
    BY TypeParts
  <1>1. KeyOf(w) \in Key /\ SourceOf(w) \in Source
    BY WatcherShape
  <1>2. mail[KeyOf(w)] \in 0..MaxMail
    BY <1>0, <1>1 DEF WorldTypes
  <1>3. PollTypes' /\ WorldTypes'
    BY <1>0 DEF PollTypes, WorldTypes, ConnectionAttempt, Proceed, Connect, ConnectFails,
        QueueCatchUp, MarkConnected, Announce, Drop, RenewalFails, LeaveIdle, Close,
        MarkDisconnected, serverVars, mailboxVars, boundVars
  <1>4. watch' \in WatchType
    <2>1. CASE Connect(w)
      BY <1>0, <1>2, <2>1 DEF ThreadTypes, WatchType, Connect, Phase
    <2>2. CASE Announce(w)
      BY <1>0, <1>2, <2>2 DEF ThreadTypes, WatchType, Announce
    <2>3. CASE \/ ConnectFails(w) \/ QueueCatchUp(w) \/ MarkConnected(w) \/ Drop(w)
               \/ RenewalFails(w) \/ LeaveIdle(w) \/ Close(w) \/ MarkDisconnected(w)
      <3>1. PICK from, to \in Phase : Moves(w, from, to)
        BY <2>3 DEF ConnectFails, QueueCatchUp, MarkConnected, Drop, RenewalFails, LeaveIdle,
            Close, MarkDisconnected, Phase
      <3> QED
        BY <1>0, <3>1, MovesKeepType DEF ThreadTypes
    <2> QED
      BY <2>1, <2>2, <2>3 DEF ConnectionAttempt, Proceed
  <1>5. health' \in [Key -> HealthRecord]
    <2>1. health \in [Key -> HealthRecord]
      BY <1>0 DEF ThreadTypes
    <2>2. \/ health' = health
          \/ health' = [health EXCEPT ![KeyOf(w)] = Since("connected")]
          \/ health' = [health EXCEPT ![KeyOf(w)] = Disconnected(health[KeyOf(w)])]
      BY DEF ConnectionAttempt, Proceed, Connect, ConnectFails, QueueCatchUp, MarkConnected,
          Announce, Drop, RenewalFails, LeaveIdle, Close, MarkDisconnected
    <2> QED
      BY <1>1, <2>1, <2>2, RecordsKeepType
  <1>6. pending' \in [Source -> {"none", "catchup", "notification"}]
    <2>1. \/ pending' = pending
          \/ QueueSync(SourceOf(w), "catchup")
          \/ QueueSync(SourceOf(w), "notification")
      BY DEF ConnectionAttempt, Proceed, Connect, ConnectFails, QueueCatchUp, MarkConnected,
          Announce, Drop, RenewalFails, LeaveIdle, Close, MarkDisconnected
    <2>2. pending \in [Source -> {"none", "catchup", "notification"}]
      BY <1>0 DEF ThreadTypes
    <2> QED
      BY <1>1, <2>1, <2>2, QueueSyncQueues
  <1> QED
    BY <1>3, <1>4, <1>5, <1>6, TypeParts DEF TypeOK, ThreadTypes, PollTypes, WorldTypes,
        WatchType, HealthRecord, JobType

\* A step of the registry touches the watchers and the records.
LEMMA RefreshKeepsTypes ==
    ASSUME TypeOK, RefreshWatches
    PROVE  TypeOK'
  <1>0. ThreadTypes /\ PollTypes /\ WorldTypes
    BY TypeParts
  <1>1. watch' \in WatchType
    <2>1. [phase |-> "connecting", active |-> TRUE, known |-> 0]
             \in [phase : Phase, active : BOOLEAN, known : 0..MaxMail]
      BY ImapIdleAssumption DEF ImapIdleAssumption, Phase
    <2>2. \A w \in Watcher :
             [watch[w] EXCEPT !.active = FALSE]
                \in [phase : Phase, active : BOOLEAN, known : 0..MaxMail]
      BY <1>0 DEF ThreadTypes, WatchType
    <2> QED
      BY <1>0, <2>1, <2>2 DEF RefreshWatches, ThreadTypes, WatchType
  <1>2. health' \in [Key -> HealthRecord]
    BY <1>0 DEF RefreshWatches, ThreadTypes, HealthRecord, Tracked, Since, Untracked
  <1>3. pending' = pending
    BY DEF RefreshWatches
  <1>4. PollTypes' /\ WorldTypes'
    BY <1>0 DEF RefreshWatches, PollTypes, WorldTypes, boundVars
  <1> QED
    BY <1>0, <1>1, <1>2, <1>3, <1>4, TypeParts
    DEF TypeOK, ThreadTypes, PollTypes, WorldTypes, WatchType, HealthRecord, JobType

\* A step of a poll touches the jobs, the queue and what is handled.
LEMMA PollKeepsTypes ==
    ASSUME TypeOK, NEW p \in Poller,
           \/ p \in Drainer /\ Sweep(p)
           \/ \E s \in Source : p = Scheduler /\ SafetyPoll(s)
           \/ PollSucceeds(p)
           \/ PollFails(p)
    PROVE  TypeOK'
  <1>0. ThreadTypes /\ PollTypes /\ WorldTypes
    BY TypeParts
  <1>1. /\ job \in [Poller -> JobType]
        /\ job[p] \in JobType
        /\ job[p].source \in Source
        /\ job[p].seen \in [Folder -> 0..MaxMail]
    BY <1>0 DEF PollTypes, JobType
  <1>2. \A s \in Source : Fetched(s) \in [Folder -> 0..MaxMail] /\ folders[s] \in SUBSET Folder
    BY <1>0, FetchedType DEF WorldTypes
  <1>3. job' \in [Poller -> JobType]
    <2>1. CASE p \in Drainer /\ Sweep(p)
      <3>1. ASSUME NEW s \in Source, Take(p, s)
            PROVE  job' \in [Poller -> JobType]
        <4>1. [f \in Folder |-> 0] \in [Folder -> 0..MaxMail]
          BY ImapIdleAssumption DEF ImapIdleAssumption
        <4>2. [stage |-> "taken", source |-> s, folders |-> folders[s],
               notification |-> pending[s] = "notification",
               seen |-> [f \in Folder |-> 0]] \in JobType
          BY <1>2, <4>1 DEF JobType
        <4> QED
          BY <1>1, <3>1, <4>2 DEF Take
      <3>2. ASSUME BeginPoll(p)
            PROVE  job' \in [Poller -> JobType]
        <4>1. [job[p] EXCEPT !.stage = "polling", !.seen = Fetched(job[p].source)] \in JobType
          BY <1>1, <1>2 DEF JobType
        <4> QED
          BY <1>1, <3>2, <4>1 DEF BeginPoll
      <3>3. ASSUME Requeue(p)
            PROVE  job' \in [Poller -> JobType]
        BY <1>1, <3>3, NoJobType DEF Requeue
      <3> QED
        BY <2>1, <3>1, <3>2, <3>3 DEF Sweep
    <2>2. ASSUME NEW s \in Source, SafetyPoll(s)
          PROVE  job' \in [Poller -> JobType]
      <3>1. [stage |-> "polling", source |-> s, folders |-> folders[s],
             notification |-> FALSE, seen |-> Fetched(s)] \in JobType
        BY <1>2 DEF JobType
      <3> QED
        BY <1>1, <2>2, <3>1 DEF SafetyPoll
    <2>3. CASE PollSucceeds(p) \/ PollFails(p)
      BY <1>1, <2>3, NoJobType DEF PollSucceeds, PollFails, EndPoll
    <2> QED
      BY <2>1, <2>2, <2>3
  <1>4. running' \in {"none", "other"} \cup Poller
    BY <1>0 DEF PollTypes, Sweep, Take, BeginPoll, Requeue, SafetyPoll, PollSucceeds, PollFails,
        EndPoll, Poller
  <1>5. success' \in [Source -> {"never", "fresh", "stale"}]
    BY <1>0, <1>1 DEF PollTypes, Sweep, Take, BeginPoll, Requeue, SafetyPoll, PollSucceeds,
        PollFails, EndPoll
  <1>6. synced' \in [Key -> 0..MaxMail]
    <2>1. CASE PollSucceeds(p)
      BY <1>0, <1>1, <2>1 DEF PollTypes, PollSucceeds, Key
    <2>2. CASE ~PollSucceeds(p)
      BY <1>0, <2>2 DEF PollTypes, Sweep, Take, BeginPoll, Requeue, SafetyPoll, PollFails
    <2> QED
      BY <2>1, <2>2
  <1>7. PollTypes'
    BY <1>3, <1>4, <1>5, <1>6 DEF PollTypes
  <1>8. pending' \in [Source -> {"none", "catchup", "notification"}]
    <2>1. CASE Requeue(p)
      BY <1>0, <1>1, <2>1, QueueSyncQueues DEF ThreadTypes, Requeue
    <2>2. CASE ~Requeue(p)
      BY <1>0, <2>2 DEF ThreadTypes, Sweep, Take, BeginPoll, SafetyPoll, PollSucceeds, PollFails,
          EndPoll
    <2> QED
      BY <2>1, <2>2
  <1>9. watch' = watch /\ health' = health
    BY DEF Sweep, Take, BeginPoll, Requeue, SafetyPoll, PollSucceeds, PollFails, EndPoll
  <1>10. disturbances' \in 0..MaxDisturbances
    BY <1>0, ImapIdleAssumption DEF WorldTypes, Sweep, Take, BeginPoll, Requeue, SafetyPoll,
        PollSucceeds, PollFails, EndPoll, boundVars, Disturb, ImapIdleAssumption
  <1>11. failed' \in {failed, TRUE}
    BY DEF Sweep, Take, BeginPoll, Requeue, SafetyPoll, PollSucceeds, PollFails, EndPoll, boundVars
  <1>12. UNCHANGED <<serverVars, dirty>>
    BY DEF Sweep, Take, BeginPoll, Requeue, SafetyPoll, PollSucceeds, PollFails, EndPoll
  <1>13. WorldTypes'
    BY <1>0, <1>10, <1>11, <1>12 DEF WorldTypes, serverVars, mailboxVars
  <1> QED
    BY <1>0, <1>7, <1>8, <1>9, <1>13, TypeParts
    DEF TypeOK, ThreadTypes, PollTypes, WorldTypes, WatchType, HealthRecord, JobType

\* Saving a mailbox, arriving mail, time and a restart.
LEMMA WorldKeepsTypes ==
    ASSUME TypeOK,
           \/ \E s \in Source : SaveMailbox(s) \/ SuccessExpires(s)
           \/ \E k \in Key : AcknowledgementExpires(k) \/ Arrive(k)
           \/ OtherRunBegins
           \/ OtherRunEnds
           \/ Restart
    PROVE  TypeOK'
  <1>0. ThreadTypes /\ PollTypes /\ WorldTypes
    BY TypeParts
  <1>1. ASSUME NEW s \in Source, SaveMailbox(s)
        PROVE  TypeOK'
    <2>1. folders' \in [Source -> SUBSET Folder] /\ outdated' \in SUBSET Source
      BY <1>0, <1>1 DEF SaveMailbox, WorldTypes
    <2>2. disturbances' \in 0..MaxDisturbances
      BY <1>0, <1>1, ImapIdleAssumption DEF SaveMailbox, Disturb, WorldTypes, ImapIdleAssumption
    <2>3. WorldTypes'
      BY <1>0, <1>1, <2>1, <2>2 DEF SaveMailbox, WorldTypes
    <2>4. ThreadTypes' /\ PollTypes'
      BY <1>0, <1>1 DEF SaveMailbox, serviceVars, ThreadTypes, PollTypes
    <2> QED
      BY <2>3, <2>4
      DEF TypeOK, ThreadTypes, PollTypes, WorldTypes, WatchType, HealthRecord, JobType
  <1>2. ASSUME NEW s \in Source, SuccessExpires(s)
        PROVE  TypeOK'
    <2>1. PollTypes'
      BY <1>0, <1>2 DEF SuccessExpires, serviceVars, PollTypes
    <2>2. ThreadTypes' /\ WorldTypes'
      BY <1>0, <1>2 DEF SuccessExpires, serviceVars, serverVars, mailboxVars, boundVars,
          ThreadTypes, WorldTypes
    <2> QED
      BY <2>1, <2>2
      DEF TypeOK, ThreadTypes, PollTypes, WorldTypes, WatchType, HealthRecord, JobType
  <1>3. ASSUME NEW k \in Key, AcknowledgementExpires(k)
        PROVE  TypeOK'
    <2>1. ThreadTypes'
      BY <1>0, <1>3 DEF AcknowledgementExpires, ThreadTypes, HealthRecord
    <2>2. PollTypes' /\ WorldTypes'
      BY <1>0, <1>3 DEF AcknowledgementExpires, serverVars, mailboxVars, boundVars, PollTypes,
          WorldTypes
    <2> QED
      BY <2>1, <2>2
      DEF TypeOK, ThreadTypes, PollTypes, WorldTypes, WatchType, HealthRecord, JobType
  <1>4. ASSUME NEW k \in Key, Arrive(k)
        PROVE  TypeOK'
    <2>1. mail' \in [Key -> 0..MaxMail]
      BY <1>0, <1>4, ImapIdleAssumption DEF Arrive, WorldTypes, ImapIdleAssumption
    <2>2. ThreadTypes' /\ PollTypes' /\ WorldTypes'
      BY <1>0, <1>4, <2>1 DEF Arrive, serviceVars, mailboxVars, boundVars, ThreadTypes, PollTypes,
          WorldTypes
    <2> QED
      BY <2>2
      DEF TypeOK, ThreadTypes, PollTypes, WorldTypes, WatchType, HealthRecord, JobType
  <1>5. ASSUME OtherRunBegins \/ OtherRunEnds
        PROVE  TypeOK'
    <2>1. disturbances' \in 0..MaxDisturbances
      BY <1>0, <1>5, ImapIdleAssumption
      DEF OtherRunBegins, OtherRunEnds, Disturb, boundVars, WorldTypes, ImapIdleAssumption
    <2>2. ThreadTypes' /\ PollTypes' /\ WorldTypes'
      BY <1>0, <1>5, <2>1 DEF OtherRunBegins, OtherRunEnds, serverVars, mailboxVars, boundVars,
          ThreadTypes, PollTypes, WorldTypes
    <2> QED
      BY <2>2
      DEF TypeOK, ThreadTypes, PollTypes, WorldTypes, WatchType, HealthRecord, JobType
  <1>6. ASSUME Restart
        PROVE  TypeOK'
    <2>1. disturbances' \in 0..MaxDisturbances
      BY <1>0, <1>6, ImapIdleAssumption DEF Restart, Disturb, WorldTypes, ImapIdleAssumption
    <2>2. ThreadTypes'
      BY <1>6, EmptyServiceTypes DEF Restart, ThreadTypes
    <2>3. PollTypes' /\ WorldTypes'
      BY <1>0, <1>6, <2>1, EmptyServiceTypes DEF Restart, PollTypes, WorldTypes
    <2> QED
      BY <2>2, <2>3
      DEF TypeOK, ThreadTypes, PollTypes, WorldTypes, WatchType, HealthRecord, JobType
  <1> QED
    BY <1>1, <1>2, <1>3, <1>4, <1>5, <1>6

\* Every step keeps the types.
LEMMA StepKeepsTypes ==
    ASSUME TypeOK, [Next]_vars
    PROVE  TypeOK'
  <1>1. CASE RefreshWatches
    BY <1>1, RefreshKeepsTypes
  <1>2. CASE \E w \in Watcher : ConnectionAttempt(w) \/ Proceed(w) \/ Announce(w)
                                \/ Drop(w) \/ RenewalFails(w)
    BY <1>2, WatcherKeepsTypes
  <1>3. CASE \/ \E d \in Drainer : Sweep(d)
             \/ \E s \in Source : SafetyPoll(s)
             \/ \E p \in Poller : PollSucceeds(p) \/ PollFails(p)
    BY <1>3, PollKeepsTypes DEF Poller
  <1>4. CASE \/ \E s \in Source : SaveMailbox(s) \/ SuccessExpires(s)
             \/ \E k \in Key : AcknowledgementExpires(k) \/ Arrive(k)
             \/ OtherRunBegins
             \/ OtherRunEnds
             \/ Restart
    BY <1>4, WorldKeepsTypes
  <1>5. CASE UNCHANGED vars
    BY <1>5 DEF TypeOK, vars, serviceVars, serverVars, mailboxVars, boundVars
  <1> QED
    BY <1>1, <1>2, <1>3, <1>4, <1>5 DEF Next

\* The state of the watchers, the queue and the polls is always well typed.
THEOREM TypeCorrect == Spec => []TypeOK
  <1> QED
    BY InitTypes, StepKeepsTypes, PTL DEF Spec

-----------------------------------------------------------------------------
(* No message slips between watcher, queue and poll. *)

\* Unless a saved configuration waits for its refresh, only watched folders
\* have watchers; a watcher never counts more than has arrived; and a source
\* the scheduler polls keeps the run flag.
Registry == ~dirty => \A w \in Watcher : watch[w].active => Watched(KeyOf(w))
Known == \A w \in Watcher : watch[w].known <= mail[KeyOf(w)]
SchedulerHolds == job[Scheduler].stage # "none" => running = Scheduler
IInv == TypeOK /\ Registry /\ Known /\ SchedulerHolds /\ MailIsSpokenFor

\* The parts of the types the argument uses.
LEMMA KeyTypes ==
    ASSUME TypeOK, NEW k \in Key
    PROVE  /\ k[1] \in Source
           /\ k[2] \in Folder
           /\ k = <<k[1], k[2]>>
           /\ mail[k] \in 0..MaxMail
           /\ synced[k] \in 0..MaxMail
           /\ MaxMail \in Nat
  BY ImapIdleAssumption DEF TypeOK, Key, ImapIdleAssumption

\* A job is a source, folders and what was fetched of each.
LEMMA JobTypes ==
    ASSUME TypeOK, NEW p \in Poller
    PROVE  /\ job \in [Poller -> JobType]
           /\ job[p].source \in Source
           /\ job[p].folders \in SUBSET Folder
           /\ job[p].seen \in [Folder -> 0..MaxMail]
  BY DEF TypeOK, JobType

\* A process that has just begun has no watchers and polls nothing.
LEMMA NothingRuns ==
    /\ \A w \in Watcher : ~NoWatchers[w].active /\ NoWatchers[w].known = 0
    /\ NoJobs[Scheduler].stage = "none"
  BY DEF NoWatchers, NoWatcher, NoJobs, NoJob, Poller

\* What is spoken for stays so when mail only arrives and everything else stays.
LEMMA Frame ==
    ASSUME NEW k, NEW n, SpokenFor(k, n),
           UNCHANGED <<watch, pending, job, synced>>
    PROVE  SpokenFor(k, n)'
  BY DEF SpokenFor, InHand, ActiveOf, WillTell

\* A step of a watcher neither starts nor stops a watcher, and leaves the other
\* watchers alone.
LEMMA WatcherStepFrame ==
    ASSUME TypeOK, NEW w \in Watcher,
           \/ ConnectionAttempt(w) \/ Proceed(w) \/ Announce(w)
           \/ Drop(w) \/ RenewalFails(w)
    PROVE  \A v \in Watcher : /\ watch'[v].active = watch[v].active
                              /\ v # w => watch'[v] = watch[v]
  <1>1. watch \in WatchType
    BY DEF TypeOK, WatchType
  <1>2. ASSUME NEW from, NEW to, Moves(w, from, to)
        PROVE  \A v \in Watcher : /\ watch'[v].active = watch[v].active
                                  /\ v # w => watch'[v] = watch[v]
    BY <1>1, <1>2 DEF WatchType, Moves
  <1>3. CASE Connect(w) \/ Announce(w)
    BY <1>1, <1>3 DEF WatchType, Connect, Announce
  <1>4. CASE ~Connect(w) /\ ~Announce(w)
    <2>1. PICK from, to : Moves(w, from, to)
      BY <1>4 DEF ConnectionAttempt, Proceed, ConnectFails, QueueCatchUp, MarkConnected, Drop,
          RenewalFails, LeaveIdle, Close, MarkDisconnected
    <2> QED
      BY <1>2, <2>1
  <1> QED
    BY <1>3, <1>4

\* A step of a watcher leaves every message spoken for.
LEMMA WatcherKeepsSpokenFor ==
    ASSUME TypeOK, NEW k \in Key, NEW n \in Nat, SpokenFor(k, n), NEW w \in Watcher,
           n <= mail[k],
           \/ ConnectionAttempt(w) \/ Proceed(w) \/ Announce(w)
           \/ Drop(w) \/ RenewalFails(w)
    PROVE  SpokenFor(k, n)'
  <1>1. /\ job' = job
        /\ synced' = synced
    BY DEF ConnectionAttempt, Proceed, Connect, ConnectFails, QueueCatchUp, MarkConnected,
        Announce, Drop, RenewalFails, LeaveIdle, Close, MarkDisconnected
  <1>2. KeyOf(w) \in Key /\ SourceOf(w) \in Source /\ SourceOf(w) = KeyOf(w)[1]
    BY WatcherShape
  <1>3. /\ \A s \in Source : pending[s] # "none" => pending'[s] # "none"
        /\ QueueCatchUp(w) \/ Announce(w) => pending'[SourceOf(w)] # "none"
    <2>1. pending \in [Source -> {"none", "catchup", "notification"}]
      BY DEF TypeOK
    <2>2. \/ pending' = pending /\ ~QueueCatchUp(w) /\ ~Announce(w)
          \/ QueueSync(SourceOf(w), "catchup")
          \/ QueueSync(SourceOf(w), "notification")
      BY DEF ConnectionAttempt, Proceed, Connect, ConnectFails, QueueCatchUp, MarkConnected,
          Announce, Drop, RenewalFails, LeaveIdle, Close, MarkDisconnected
    <2> QED
      BY <1>2, <2>1, <2>2, QueueSyncQueues
  <1>4. k[1] \in Source
    BY KeyTypes
  <1>5. CASE n <= synced[k] \/ InHand(k, n)
    BY <1>1, <1>3, <1>4, <1>5 DEF SpokenFor, InHand
  <1>6. ActiveOf(k)' = ActiveOf(k) /\ \A v \in Watcher \ {w} : watch'[v] = watch[v]
    BY WatcherStepFrame DEF ActiveOf
  <1>7. CASE ActiveOf(k) = {}
    BY <1>6, <1>7 DEF SpokenFor
  <1>8. ASSUME NEW v \in ActiveOf(k), WillTell(v, n)
        PROVE  SpokenFor(k, n)'
    <2>0. v \in Watcher /\ KeyOf(v) = k
      BY DEF ActiveOf
    <2>1. CASE v # w
      BY <1>6, <1>8, <2>0, <2>1 DEF SpokenFor, WillTell
    <2>2. CASE v = w /\ (QueueCatchUp(w) \/ Announce(w))
      BY <1>2, <1>3, <2>0, <2>2 DEF SpokenFor, InHand
    <2>3. CASE v = w /\ ~QueueCatchUp(w) /\ ~Announce(w)
      <3>1. \/ watch'[w].phase \notin {"listening", "idle"}
            \/ /\ watch[w].phase = "listening"
               /\ watch'[w].known = watch[w].known
        BY <2>3 DEF TypeOK, ConnectionAttempt, Proceed, Connect, ConnectFails, MarkConnected,
            Drop, RenewalFails, LeaveIdle, Close, MarkDisconnected, Moves
      <3>2. WillTell(w, n)'
        BY <1>8, <2>3, <3>1 DEF WillTell
      <3> QED
        BY <1>6, <2>3, <3>2 DEF SpokenFor
    <2> QED
      BY <2>1, <2>2, <2>3
  <1> QED
    BY <1>5, <1>7, <1>8 DEF SpokenFor

\* The poll that has a message in hand.
HasInHand(p, k, n) ==
    /\ job[p].source = k[1]
    /\ k[2] \in job[p].folders
    /\ \/ job[p].stage = "taken"
       \/ job[p].stage = "polling" /\ job[p].seen[k[2]] >= n

\* A step of a poll that does not fail leaves every message of a watched folder
\* spoken for.
LEMMA PollKeepsSpokenFor ==
    ASSUME TypeOK, SchedulerHolds, NEW k \in Key, NEW n \in Nat, SpokenFor(k, n),
           Watched(k), n <= mail[k], NEW p \in Poller,
           \/ p \in Drainer /\ Sweep(p)
           \/ \E s \in Source : p = Scheduler /\ SafetyPoll(s)
           \/ PollSucceeds(p)
    PROVE  SpokenFor(k, n)'
  <1>1. watch' = watch /\ UNCHANGED folders
    BY DEF Sweep, Take, BeginPoll, Requeue, SafetyPoll, PollSucceeds, EndPoll, serverVars,
        mailboxVars
  <1>2. CASE ActiveOf(k) = {} \/ \E w \in ActiveOf(k) : WillTell(w, n)
    BY <1>1, <1>2 DEF SpokenFor, ActiveOf, WillTell
  <1>3. /\ k[1] \in Source
        /\ k[2] \in Folder
        /\ k = <<k[1], k[2]>>
        /\ mail[k] \in 0..MaxMail
        /\ synced[k] \in 0..MaxMail
        /\ MaxMail \in Nat
    BY KeyTypes
  <1>4. \A q \in Poller : /\ job[q].source \in Source
                          /\ job[q].folders \in SUBSET Folder
                          /\ job[q].seen \in [Folder -> 0..MaxMail]
    BY JobTypes
  <1>5. job \in [Poller -> JobType]
    BY JobTypes
  <1>6. CASE n <= synced[k]
    <2>1. n <= synced'[k]
      BY <1>3, <1>4, <1>6 DEF Sweep, Take, BeginPoll, Requeue, SafetyPoll, PollSucceeds
    <2> QED
      BY <2>1 DEF SpokenFor
  <1>7. CASE pending[k[1]] # "none"
    <2>1. CASE \E s \in Source : p \in Drainer /\ Take(p, s) /\ s = k[1]
      <3>1. job'[p] = [stage |-> "taken", source |-> k[1], folders |-> folders[k[1]],
                       notification |-> pending[k[1]] = "notification",
                       seen |-> [f \in Folder |-> 0]]
        BY <1>5, <2>1 DEF Take, Watched
      <3> QED
        BY <3>1 DEF SpokenFor, InHand, Watched
    <2>2. CASE ~\E s \in Source : p \in Drainer /\ Take(p, s) /\ s = k[1]
      <3>1. pending \in [Source -> {"none", "catchup", "notification"}]
        BY DEF TypeOK
      <3>2. pending'[k[1]] # "none"
        <4>1. CASE Requeue(p)
          BY <1>3, <1>4, <1>7, <3>1, <4>1, QueueSyncQueues DEF Requeue
        <4>2. CASE ~Requeue(p)
          BY <1>3, <1>7, <2>2, <3>1, <4>2 DEF Sweep, Take, BeginPoll, SafetyPoll, PollSucceeds,
              EndPoll
        <4> QED
          BY <4>1, <4>2
      <3> QED
        BY <3>2 DEF SpokenFor, InHand
    <2> QED
      BY <2>1, <2>2
  <1>8. ASSUME NEW q \in Poller, HasInHand(q, k, n)
        PROVE  SpokenFor(k, n)'
    <2>0. /\ job[q].source = k[1]
          /\ k[2] \in job[q].folders
          /\ \/ job[q].stage = "taken"
             \/ job[q].stage = "polling" /\ job[q].seen[k[2]] >= n
      BY <1>8 DEF HasInHand
    <2>1. CASE q # p
      <3>1. job'[q] = job[q]
        BY <1>5, <2>1 DEF Sweep, Take, BeginPoll, Requeue, SafetyPoll, PollSucceeds, EndPoll
      <3> QED
        BY <2>0, <3>1 DEF SpokenFor, InHand
    <2>2. CASE q = p /\ BeginPoll(p)
      <3>1. /\ job'[p].stage = "polling"
            /\ job'[p].source = k[1]
            /\ k[2] \in job'[p].folders
            /\ job'[p].seen = Fetched(k[1])
        BY <1>5, <2>0, <2>2 DEF BeginPoll, JobType
      <3>2. Fetched(k[1])[k[2]] = mail[k]
        BY <1>3 DEF Fetched
      <3>3. job'[p].seen[k[2]] >= n
        BY <1>3, <3>1, <3>2
      <3> QED
        BY <3>1, <3>3 DEF SpokenFor, InHand
    <2>3. CASE q = p /\ p \in Drainer /\ Requeue(p)
      <3>1. pending \in [Source -> {"none", "catchup", "notification"}]
        BY DEF TypeOK
      <3>2. pending'[k[1]] # "none"
        BY <1>3, <2>0, <2>3, <3>1, QueueSyncQueues DEF Requeue
      <3> QED
        BY <3>2 DEF SpokenFor, InHand
    <2>4. CASE q = p /\ PollSucceeds(p)
      <3>1. job[p].stage = "polling" /\ job[p].seen[k[2]] >= n
        BY <2>0, <2>4 DEF PollSucceeds, EndPoll
      <3>2. job[p].seen[k[2]] \in 0..MaxMail
        BY <1>3, <1>4
      <3>3. n <= synced'[k]
        BY <1>3, <2>0, <2>4, <3>1, <3>2 DEF PollSucceeds
      <3> QED
        BY <3>3 DEF SpokenFor
    <2>5. q = p => /\ ~\E s \in Source : p \in Drainer /\ Take(p, s)
                   /\ ~\E s \in Source : p = Scheduler /\ SafetyPoll(s)
      BY <2>0, ImapIdleAssumption DEF Take, SafetyPoll, SchedulerHolds, ImapIdleAssumption
    <2> QED
      BY <2>1, <2>2, <2>3, <2>4, <2>5 DEF Sweep
  <1> QED
    <2>1. ASSUME InHand(k, n)
          PROVE  SpokenFor(k, n)'
      <3>1. CASE pending[k[1]] = "none"
        <4>1. PICK q \in Poller : HasInHand(q, k, n)
          BY <2>1, <3>1 DEF InHand, HasInHand
        <4> QED
          BY <4>1, <1>8
      <3> QED
        BY <1>7, <3>1
    <2> QED
      BY <1>2, <1>6, <2>1 DEF SpokenFor

\* A refresh keeps the watchers of a folder, or starts a new one, or leaves none.
LEMMA RefreshKeepsSpokenFor ==
    ASSUME TypeOK, NEW k \in Key, NEW n, SpokenFor(k, n), Watched(k), RefreshWatches
    PROVE  SpokenFor(k, n)'
  <1>1. UNCHANGED <<pending, job, synced>>
    BY DEF RefreshWatches
  <1>2. CASE n <= synced[k] \/ InHand(k, n)
    BY <1>1, <1>2 DEF SpokenFor, InHand
  <1>3. CASE \E w \in Watcher : KeyOf(w) = k /\ Starts(w)
    <2>1. PICK w \in Watcher : KeyOf(w) = k /\ Starts(w)
      BY <1>3
    <2>2. watch'[w] = [phase |-> "connecting", active |-> TRUE, known |-> 0]
      BY <2>1 DEF RefreshWatches
    <2> QED
      BY <2>1, <2>2 DEF SpokenFor, ActiveOf, WillTell
  <1>4. CASE ~\E w \in Watcher : KeyOf(w) = k /\ Starts(w)
    <2>1. \A w \in Watcher : KeyOf(w) = k =>
             watch'[w] = IF watch[w].active /\ ~Matches(w)
                         THEN [watch[w] EXCEPT !.active = FALSE] ELSE watch[w]
      BY <1>4 DEF RefreshWatches
    <2>2. CASE k[1] \in outdated
      <3>1. \A w \in Watcher : KeyOf(w) = k => ~Matches(w)
        BY <2>2 DEF Matches, SourceOf, KeyOf
      <3>2. \A w \in Watcher : KeyOf(w) = k => ~watch'[w].active
        <4>1. ASSUME NEW w \in Watcher, KeyOf(w) = k
              PROVE  ~watch'[w].active
          <5>1. watch[w] \in [phase : Phase, active : BOOLEAN, known : 0..MaxMail]
            BY DEF TypeOK
          <5>2. CASE watch[w].active
            BY <2>1, <3>1, <4>1, <5>1, <5>2
          <5>3. CASE ~watch[w].active
            BY <2>1, <4>1, <5>3
          <5> QED
            BY <5>2, <5>3
        <4> QED
          BY <4>1
      <3>3. ActiveOf(k)' = {}
        BY <3>2 DEF ActiveOf
      <3> QED
        BY <3>3 DEF SpokenFor
    <2>3. CASE k[1] \notin outdated
      <3>1. \A w \in Watcher : KeyOf(w) = k => Matches(w)
        BY <2>3 DEF Matches, SourceOf, KeyOf
      <3>2. \A w \in Watcher : KeyOf(w) = k => watch'[w] = watch[w]
        BY <2>1, <3>1
      <3>3. ActiveOf(k)' = ActiveOf(k) /\ \A w \in ActiveOf(k) : WillTell(w, n) => WillTell(w, n)'
        BY <3>2 DEF ActiveOf, WillTell
      <3> QED
        BY <1>2, <3>3 DEF SpokenFor
    <2> QED
      BY <2>2, <2>3
  <1> QED
    BY <1>3, <1>4

\* Mail that arrives in a folder is news to each of its watchers.
LEMMA ArrivalIsSpokenFor ==
    ASSUME TypeOK, Known, NEW a \in Key, Arrive(a), NEW k \in Key, NEW n \in 1..mail'[k],
           n \in 1..mail[k] => SpokenFor(k, n)
    PROVE  SpokenFor(k, n)'
  <1>0. /\ UNCHANGED <<watch, pending, job, synced>>
        /\ mail' = [mail EXCEPT ![a] = mail[a] + 1]
    BY DEF Arrive, serviceVars
  <1>1. CASE n \in 1..mail[k]
    BY <1>0, <1>1, Frame
  <1>2. CASE n \notin 1..mail[k]
    <2>1. mail[k] \in Nat /\ mail[k] < n
      BY <1>0, <1>2, KeyTypes DEF TypeOK
    <2>2. ASSUME NEW w \in ActiveOf(k)
          PROVE  WillTell(w, n)
      <3>1. w \in Watcher /\ KeyOf(w) = k
        BY DEF ActiveOf
      <3>2. watch[w].known \in Nat
        BY <3>1 DEF TypeOK
      <3>3. watch[w].known <= mail[k]
        BY <3>1 DEF Known
      <3>4. watch[w].known < n
        <4> HIDE DEF KeyOf
        <4> QED
          BY <2>1, <3>2, <3>3
      <3> QED
        BY <3>4 DEF WillTell
    <2>3. SpokenFor(k, n)
      BY <2>2 DEF SpokenFor
    <2> QED
      BY <1>0, <2>3, Frame
  <1> QED
    BY <1>1, <1>2

\* Polls that fail excuse the invariant; the other polls leave mail spoken for.
LEMMA PollKeepsInv ==
    ASSUME IInv, NEW p \in Poller,
           \/ p \in Drainer /\ Sweep(p)
           \/ \E s \in Source : p = Scheduler /\ SafetyPoll(s)
           \/ PollSucceeds(p)
           \/ PollFails(p)
    PROVE  IInv'
  <1>0. TypeOK /\ Registry /\ Known /\ SchedulerHolds /\ MailIsSpokenFor
    BY DEF IInv
  <1>1. TypeOK'
    BY <1>0, PollKeepsTypes
  <1>2. UNCHANGED <<watch, dirty, folders, mail>>
    BY DEF Sweep, Take, BeginPoll, Requeue, SafetyPoll, PollSucceeds, PollFails, EndPoll,
        serverVars, mailboxVars
  <1>3. Registry' /\ Known'
    BY <1>0, <1>2 DEF Registry, Known, Watched
  <1>4. SchedulerHolds'
    <2>0. job \in [Poller -> JobType] /\ Scheduler \in Poller /\ Scheduler \notin Drainer
      BY <1>0, JobTypes, ImapIdleAssumption DEF Poller, ImapIdleAssumption
    <2>1. CASE \E s \in Source : SafetyPoll(s)
      BY <2>1 DEF SafetyPoll, SchedulerHolds
    <2>2. CASE p \in Drainer /\ Sweep(p)
      BY <1>0, <2>0, <2>2 DEF Sweep, Take, BeginPoll, Requeue, SchedulerHolds, Refused
    <2>3. CASE PollSucceeds(p) \/ PollFails(p)
      <3>1. NoJob.stage = "none"
        BY DEF NoJob
      <3> QED
        BY <1>0, <2>0, <2>3, <3>1 DEF PollSucceeds, PollFails, EndPoll, SchedulerHolds
    <2> QED
      BY <2>1, <2>2, <2>3
  <1>5. MailIsSpokenFor'
    <2>1. CASE PollFails(p)
      BY <2>1 DEF PollFails, MailIsSpokenFor
    <2>2. CASE ~PollFails(p)
      <3>1. failed' = failed
        BY <2>2 DEF Sweep, Take, BeginPoll, Requeue, SafetyPoll, PollSucceeds, boundVars
      <3>2. SUFFICES ASSUME ~failed, NEW k \in Key, Watched(k), NEW n \in 1..mail[k]
                     PROVE  SpokenFor(k, n)'
        BY <1>2, <3>1 DEF MailIsSpokenFor, Watched
      <3>3. n \in Nat /\ n <= mail[k]
        BY <1>0, <3>2, KeyTypes
      <3>4. SpokenFor(k, n)
        BY <1>0, <3>2 DEF MailIsSpokenFor
      <3> QED
        BY <1>0, <2>2, <3>2, <3>3, <3>4, PollKeepsSpokenFor
    <2> QED
      BY <2>1, <2>2
  <1> QED
    BY <1>1, <1>3, <1>4, <1>5 DEF IInv

\* A step of a watcher keeps the invariant.
LEMMA WatcherKeepsInv ==
    ASSUME IInv, NEW w \in Watcher,
           \/ ConnectionAttempt(w) \/ Proceed(w) \/ Announce(w)
           \/ Drop(w) \/ RenewalFails(w)
    PROVE  IInv'
  <1>0. TypeOK /\ Registry /\ Known /\ SchedulerHolds /\ MailIsSpokenFor
    BY DEF IInv
  <1>1. TypeOK'
    BY <1>0, WatcherKeepsTypes
  <1>2. UNCHANGED <<dirty, folders, mail, failed, job, running>>
    BY DEF ConnectionAttempt, Proceed, Connect, ConnectFails, QueueCatchUp, MarkConnected,
        Announce, Drop, RenewalFails, LeaveIdle, Close, MarkDisconnected, serverVars,
        mailboxVars, boundVars
  <1>3. Registry'
    BY <1>0, <1>2, WatcherStepFrame DEF Registry, Watched
  <1>4. Known'
    <2>1. watch'[w].known <= mail[KeyOf(w)]
      <3>1. mail[KeyOf(w)] \in Nat /\ watch \in WatchType /\ watch[w].known <= mail[KeyOf(w)]
        BY <1>0, WatcherShape, KeyTypes DEF TypeOK, WatchType, Known
      <3>2. CASE Connect(w) \/ Announce(w)
        BY <3>1, <3>2 DEF Connect, Announce, WatchType
      <3>3. CASE ~Connect(w) /\ ~Announce(w)
        BY <3>1, <3>3 DEF ConnectionAttempt, Proceed, ConnectFails, QueueCatchUp, MarkConnected,
            Drop, RenewalFails, LeaveIdle, Close, MarkDisconnected, Moves, WatchType
      <3> QED
        BY <3>2, <3>3
    <2> QED
      BY <1>0, <1>2, <2>1, WatcherStepFrame DEF Known
  <1>5. SchedulerHolds'
    BY <1>0, <1>2 DEF SchedulerHolds
  <1>6. MailIsSpokenFor'
    <2>1. SUFFICES ASSUME ~failed, NEW k \in Key, Watched(k), NEW n \in 1..mail[k]
                   PROVE  SpokenFor(k, n)'
      BY <1>2 DEF MailIsSpokenFor, Watched
    <2>2. n \in Nat /\ n <= mail[k]
      BY <1>0, <2>1, KeyTypes
    <2>3. SpokenFor(k, n)
      BY <1>0, <2>1 DEF MailIsSpokenFor
    <2> QED
      BY <1>0, <2>2, <2>3, WatcherKeepsSpokenFor
  <1> QED
    BY <1>1, <1>3, <1>4, <1>5, <1>6 DEF IInv

\* A refresh gives watchers to watched folders only.
LEMMA RefreshKeepsInv ==
    ASSUME IInv, RefreshWatches
    PROVE  IInv'
  <1>0. TypeOK /\ Registry /\ Known /\ SchedulerHolds /\ MailIsSpokenFor
    BY DEF IInv
  <1>1. TypeOK'
    BY <1>0, RefreshKeepsTypes
  <1>2. UNCHANGED <<folders, mail, failed, job, running>>
    BY DEF RefreshWatches, boundVars
  <1>3. ASSUME NEW w \in Watcher
        PROVE  /\ watch'[w].active => Watched(KeyOf(w))
               /\ watch'[w].known = watch[w].known \/ watch'[w].known = 0
    <2>1. watch[w] \in [phase : Phase, active : BOOLEAN, known : 0..MaxMail]
      BY <1>0 DEF TypeOK
    <2>2. CASE Starts(w)
      <3>1. watch'[w] = [phase |-> "connecting", active |-> TRUE, known |-> 0]
        BY <2>2 DEF RefreshWatches
      <3> QED
        BY <2>2, <3>1 DEF Starts
    <2>3. CASE ~Starts(w) /\ watch[w].active /\ ~Matches(w)
      <3>1. watch'[w] = [watch[w] EXCEPT !.active = FALSE]
        BY <2>3 DEF RefreshWatches
      <3> QED
        BY <2>1, <3>1
    <2>4. CASE ~Starts(w) /\ ~(watch[w].active /\ ~Matches(w))
      <3>1. watch'[w] = watch[w]
        BY <2>4 DEF RefreshWatches
      <3> QED
        BY <2>4, <3>1 DEF Matches
    <2> QED
      BY <2>2, <2>3, <2>4
  <1>4. Registry'
    BY <1>2, <1>3 DEF Registry, Watched
  <1>5. Known'
    <2>1. ASSUME NEW w \in Watcher
          PROVE  watch'[w].known <= mail[KeyOf(w)]
      <3>1. mail[KeyOf(w)] \in Nat
        BY <1>0, WatcherShape, KeyTypes
      <3>2. watch[w].known <= mail[KeyOf(w)]
        BY <1>0 DEF Known
      <3> QED
        BY <1>3, <3>1, <3>2
    <2> QED
      BY <1>2, <2>1 DEF Known
  <1>6. SchedulerHolds'
    BY <1>0, <1>2 DEF SchedulerHolds
  <1>7. MailIsSpokenFor'
    <2>1. SUFFICES ASSUME ~failed, NEW k \in Key, Watched(k), NEW n \in 1..mail[k]
                   PROVE  SpokenFor(k, n)'
      BY <1>2 DEF MailIsSpokenFor, Watched
    <2>2. SpokenFor(k, n)
      BY <1>0, <2>1 DEF MailIsSpokenFor
    <2> QED
      BY <1>0, <2>1, <2>2, RefreshKeepsSpokenFor
  <1> QED
    BY <1>1, <1>4, <1>5, <1>6, <1>7 DEF IInv

\* A folder that a save adds has no watcher yet; a restart leaves none.
LEMMA WorldKeepsInv ==
    ASSUME IInv,
           \/ \E s \in Source : SaveMailbox(s) \/ SuccessExpires(s)
           \/ \E k \in Key : AcknowledgementExpires(k) \/ Arrive(k)
           \/ OtherRunBegins
           \/ OtherRunEnds
           \/ Restart
    PROVE  IInv'
  <1>0. TypeOK /\ Registry /\ Known /\ SchedulerHolds /\ MailIsSpokenFor
    BY DEF IInv
  <1>1. TypeOK'
    BY <1>0, WorldKeepsTypes
  <1>2. ASSUME NEW s \in Source, SaveMailbox(s)
        PROVE  IInv'
    <2>1. /\ UNCHANGED <<watch, pending, job, running, mail, synced, failed>>
          /\ ~dirty /\ dirty'
          /\ \A t \in Source \ {s} : folders'[t] = folders[t]
      BY <1>0, <1>2 DEF SaveMailbox, serviceVars, TypeOK
    <2>2. Registry' /\ Known' /\ SchedulerHolds'
      BY <1>0, <2>1 DEF Registry, Known, SchedulerHolds
    <2>3. MailIsSpokenFor'
      <3>1. SUFFICES ASSUME ~failed, NEW k \in Key, NEW n \in 1..mail[k]
                     PROVE  SpokenFor(k, n)'
        BY <2>1 DEF MailIsSpokenFor
      <3>2. CASE Watched(k)
        <4>1. SpokenFor(k, n)
          BY <1>0, <3>1, <3>2 DEF MailIsSpokenFor
        <4> QED
          BY <2>1, <4>1, Frame
      <3>3. CASE ~Watched(k)
        <4>1. ActiveOf(k) = {}
          BY <1>0, <2>1, <3>3 DEF Registry, ActiveOf
        <4> QED
          BY <2>1, <4>1 DEF SpokenFor, ActiveOf
      <3> QED
        BY <3>2, <3>3
    <2> QED
      BY <1>1, <2>2, <2>3 DEF IInv
  <1>3. ASSUME NEW a \in Key, Arrive(a)
        PROVE  IInv'
    <2>1. UNCHANGED <<watch, job, running, folders, dirty, failed>>
      BY <1>3 DEF Arrive, serviceVars, mailboxVars, boundVars
    <2>2. Registry' /\ SchedulerHolds'
      BY <1>0, <2>1 DEF Registry, SchedulerHolds, Watched
    <2>3. Known'
      <3>1. ASSUME NEW w \in Watcher
            PROVE  watch[w].known <= mail'[KeyOf(w)]
        <4>1. KeyOf(w) \in Key
          BY WatcherShape
        <4>2. mail[KeyOf(w)] \in Nat /\ watch[w].known \in Nat
          BY <1>0, <4>1, KeyTypes DEF TypeOK
        <4>3. mail'[KeyOf(w)] \in {mail[KeyOf(w)], mail[KeyOf(w)] + 1}
          BY <1>0, <1>3, <4>1 DEF Arrive, TypeOK
        <4>4. watch[w].known <= mail[KeyOf(w)]
          BY <1>0 DEF Known
        <4> QED
          BY <4>2, <4>3, <4>4
      <3> QED
        BY <2>1, <3>1 DEF Known
    <2>4. MailIsSpokenFor'
      <3>1. SUFFICES ASSUME ~failed, NEW k \in Key, Watched(k), NEW n \in 1..mail'[k]
                     PROVE  SpokenFor(k, n)'
        BY <2>1 DEF MailIsSpokenFor, Watched
      <3>2. n \in 1..mail[k] => SpokenFor(k, n)
        BY <1>0, <3>1 DEF MailIsSpokenFor
      <3> QED
        BY <1>0, <1>3, <3>2, ArrivalIsSpokenFor
    <2> QED
      BY <1>1, <2>2, <2>3, <2>4 DEF IInv
  <1>4. ASSUME \/ \E s \in Source : SuccessExpires(s)
               \/ \E k \in Key : AcknowledgementExpires(k)
               \/ OtherRunBegins
               \/ OtherRunEnds
        PROVE  IInv'
    <2>1. /\ UNCHANGED <<watch, pending, job, synced, folders, dirty, mail, failed>>
          /\ running = Scheduler => running' = Scheduler
      BY <1>4, ImapIdleAssumption DEF SuccessExpires, AcknowledgementExpires, OtherRunBegins,
          OtherRunEnds, serviceVars, serverVars, mailboxVars, boundVars, ImapIdleAssumption
    <2>2. Registry' /\ Known' /\ SchedulerHolds'
      BY <1>0, <2>1 DEF Registry, Known, SchedulerHolds, Watched
    <2>3. MailIsSpokenFor'
      <3>1. SUFFICES ASSUME ~failed, NEW k \in Key, Watched(k), NEW n \in 1..mail[k]
                     PROVE  SpokenFor(k, n)'
        BY <2>1 DEF MailIsSpokenFor, Watched
      <3>2. SpokenFor(k, n)
        BY <1>0, <3>1 DEF MailIsSpokenFor
      <3> QED
        BY <2>1, <3>2, Frame
    <2> QED
      BY <1>1, <2>2, <2>3 DEF IInv
  <1>5. ASSUME Restart
        PROVE  IInv'
    <2>1. /\ watch' = NoWatchers /\ job' = NoJobs /\ running' = "none" /\ mail' = mail
      BY <1>5 DEF Restart
    <2>2. \A w \in Watcher : ~watch'[w].active /\ watch'[w].known = 0
      BY <2>1, NothingRuns
    <2>3. Registry' /\ SchedulerHolds'
      BY <2>1, <2>2, NothingRuns DEF Registry, SchedulerHolds
    <2>4. Known'
      <3>1. \A w \in Watcher : mail'[KeyOf(w)] \in Nat
        BY <1>0, <2>1, WatcherShape, KeyTypes
      <3> QED
        BY <2>2, <3>1 DEF Known
    <2>5. MailIsSpokenFor'
      <3>1. \A k \in Key : ActiveOf(k)' = {}
        BY <2>2 DEF ActiveOf
      <3> QED
        BY <3>1 DEF MailIsSpokenFor, SpokenFor
    <2> QED
      BY <1>1, <2>3, <2>4, <2>5 DEF IInv
  <1> QED
    BY <1>2, <1>3, <1>4, <1>5

\* There are no watchers to begin with.
LEMMA InitInv == Init => IInv
  <1> SUFFICES ASSUME Init PROVE IInv
    OBVIOUS
  <1>1. TypeOK
    BY InitTypes
  <1>2. /\ \A w \in Watcher : ~watch[w].active /\ watch[w].known = 0
        /\ job[Scheduler].stage = "none"
    BY NothingRuns DEF Init
  <1>3. Registry /\ SchedulerHolds
    BY <1>2 DEF Registry, SchedulerHolds
  <1>4. Known
    <2>1. \A w \in Watcher : mail[KeyOf(w)] \in Nat
      BY <1>1, WatcherShape, KeyTypes
    <2> QED
      BY <1>2, <2>1 DEF Known
  <1>5. MailIsSpokenFor
    <2>1. \A k \in Key : ActiveOf(k) = {}
      BY <1>2 DEF ActiveOf
    <2> QED
      BY <2>1 DEF MailIsSpokenFor, SpokenFor
  <1> QED
    BY <1>1, <1>3, <1>4, <1>5 DEF IInv

\* Every step keeps the invariant.
LEMMA StepKeepsInv ==
    ASSUME IInv, [Next]_vars
    PROVE  IInv'
  <1>1. CASE RefreshWatches
    BY <1>1, RefreshKeepsInv
  <1>2. CASE \E w \in Watcher : ConnectionAttempt(w) \/ Proceed(w) \/ Announce(w)
                                \/ Drop(w) \/ RenewalFails(w)
    BY <1>2, WatcherKeepsInv
  <1>3. CASE \/ \E d \in Drainer : Sweep(d)
             \/ \E s \in Source : SafetyPoll(s)
             \/ \E p \in Poller : PollSucceeds(p) \/ PollFails(p)
    BY <1>3, PollKeepsInv DEF Poller
  <1>4. CASE \/ \E s \in Source : SaveMailbox(s) \/ SuccessExpires(s)
             \/ \E k \in Key : AcknowledgementExpires(k) \/ Arrive(k)
             \/ OtherRunBegins
             \/ OtherRunEnds
             \/ Restart
    BY <1>4, WorldKeepsInv
  <1>5. CASE UNCHANGED vars
    <2>1. UNCHANGED <<watch, pending, job, running, synced, folders, dirty, mail, failed>>
      BY <1>5 DEF vars, serviceVars, serverVars, mailboxVars, boundVars
    <2>2. TypeOK'
      BY <1>5, StepKeepsTypes DEF IInv
    <2>3. Registry' /\ Known' /\ SchedulerHolds'
      BY <2>1 DEF IInv, Registry, Known, SchedulerHolds, Watched
    <2>4. MailIsSpokenFor'
      <3>1. SUFFICES ASSUME ~failed, NEW k \in Key, Watched(k), NEW n \in 1..mail[k]
                     PROVE  SpokenFor(k, n)'
        BY <2>1 DEF MailIsSpokenFor, Watched
      <3>2. SpokenFor(k, n)
        BY <3>1 DEF IInv, MailIsSpokenFor
      <3> QED
        BY <2>1, <3>2, Frame
    <2> QED
      BY <2>2, <2>3, <2>4 DEF IInv
  <1> QED
    BY <1>1, <1>2, <1>3, <1>4, <1>5 DEF Next

\* As long as no poll has failed, every message of a watched folder is handled,
\* queued, in a poll that fetched it, or its watcher is still to tell of it
\* (drainPendingSources, watchUntilInterrupted, refreshWatches).
THEOREM MailAlwaysSpokenFor == Spec => []MailIsSpokenFor
  <1>1. IInv => MailIsSpokenFor
    BY DEF IInv
  <1> QED
    BY <1>1, InitInv, StepKeepsInv, PTL DEF Spec

=============================================================================
