------------------------------ MODULE PollRuns ------------------------------
(***************************************************************************)
(* The threads that poll (PollingService): one batch run at a time, by the  *)
(* scheduler, by a user, or for one source an IMAP IDLE watcher woke; its   *)
(* workers, which take sources from PollingLive's queue; the polls a        *)
(* watcher starts beside a scheduler run; and the controls of whoever       *)
(* watches the run, which may come between any two steps.                   *)
(***************************************************************************)
EXTENDS PollingLive

CONSTANTS
    IdleSource,     \* the sources in fetch mode IDLE
    NoSource,
    MaxParallel,    \* MAX_PARALLEL_SOURCE_POLLS
    MaxMessages,    \* bound: checkpoints between messages in one poll
    MaxControls     \* bound: accepted controls, one budget for all runs

ASSUME PollRunsAssumption ==
    /\ IsFiniteSet(Source)
    /\ IdleSource \subseteq Source
    /\ NoSource \notin Source
    /\ MaxParallel \in Nat \ {0}
    /\ MaxMessages \in Nat
    /\ MaxControls \in Nat

Worker == 1..MaxParallel
Trigger == {"scheduler", "manual", "idle"}

VARIABLES
    running,        \* the flag that admits one batch run
    activePoll,     \* the trigger of the poll status() shows, or "none"
    activeSources,  \* the sources some thread is polling
    idle,           \* the thread of each source's IDLE activation
    trigger,        \* the trigger of the batch run
    runPc,          \* where the thread of the batch run is
    crew,           \* how many workers the batch run has
    launched,       \* how many of them it has submitted
    outcome,        \* how the batch run ended
    executor,       \* the executor of a run with several workers
    cancelling,     \* an accepted stop has yet to shut the executor down
    pc,             \* where each worker is
    src,            \* the source each worker has taken, or NoSource
    left,           \* messages its poll has left
    interrupted,    \* the interrupt flag of its thread
    controls        \* accepted controls so far

runVars == <<trigger, runPc, crew, launched, outcome, executor>>
workerVars == <<pc, src, left, interrupted>>
vars == <<liveVars, running, activePoll, activeSources, idle, runVars, cancelling,
          workerVars, controls>>

Init ==
    /\ LiveInit
    /\ running = FALSE
    /\ activePoll = "none"
    /\ activeSources = {}
    /\ idle = [s \in IdleSource |-> "none"]
    /\ trigger = "none"
    /\ runPc = "idle"
    /\ crew = 0
    /\ launched = 0
    /\ outcome = "COMPLETED"
    /\ executor = "none"
    /\ cancelling = FALSE
    /\ pc = [w \in Worker |-> "off"]
    /\ src = [w \in Worker |-> NoSource]
    /\ left = [w \in Worker |-> 0]
    /\ interrupted = [w \in Worker |-> FALSE]
    /\ controls = 0

-----------------------------------------------------------------------------
(* The thread of the batch run (runPollInternal, runParallelPoll). *)

WorkerParallelism(n) ==
    CHOOSE p \in Worker : /\ p = MaxParallel \/ p >= n
                          /\ p = 1 \/ p <= n

BeginRun(t, order) ==
    /\ ~running
    /\ running' = TRUE
    /\ StartRun(order)
    /\ trigger' = t
    /\ crew' = WorkerParallelism(Len(order))
    /\ launched' = 0
    /\ executor' = "none"
    /\ runPc' = "setup"
    /\ UNCHANGED <<outcome, activePoll, activeSources, cancelling, workerVars, controls>>

\* The scheduler polls the sources that are due, if there are any; a user any
\* of theirs, or none.
BeginBatch ==
    /\ \E S \in SUBSET Source, t \in {"scheduler", "manual"} :
          /\ t = "scheduler" => S # {}
          /\ \E order \in Orders(S) : BeginRun(t, order)
    /\ UNCHANGED idle

\* One worker is the thread itself; more get an executor.
SetUp ==
    /\ runPc = "setup"
    /\ activePoll' = trigger
    /\ IF crew = 1
       THEN /\ pc' = [pc EXCEPT ![1] = "next"]
            /\ launched' = 1
            /\ runPc' = "join"
       ELSE /\ runPc' = "register"
            /\ UNCHANGED <<pc, launched>>
    /\ UNCHANGED <<liveVars, running, activeSources, idle, trigger, crew, outcome, executor,
                   cancelling, src, left, interrupted, controls>>

\* registerCancellationAction: on a stopped run the executor is shut at once.
RegisterExecutor ==
    /\ runPc = "register"
    /\ executor' = IF stopRequested THEN "shut" ELSE "open"
    /\ runPc' = "launch"
    /\ UNCHANGED <<liveVars, running, activePoll, activeSources, idle, trigger, crew,
                   launched, outcome, cancelling, workerVars, controls>>

\* An executor that is shut rejects the task; the run then ends with the
\* workers it has.
Launch ==
    /\ runPc = "launch"
    /\ IF executor = "shut" \/ launched = crew
       THEN /\ runPc' = "join"
            /\ UNCHANGED <<pc, launched>>
       ELSE /\ launched' = launched + 1
            /\ pc' = [pc EXCEPT ![launched + 1] = "top"]
            /\ UNCHANGED runPc
    /\ UNCHANGED <<liveVars, running, activePoll, activeSources, idle, trigger, crew,
                   outcome, executor, cancelling, src, left, interrupted, controls>>

Join ==
    /\ runPc = "join"
    /\ \A w \in Worker : pc[w] \in {"off", "done"}
    /\ runPc' = "decide"
    /\ UNCHANGED <<liveVars, running, activePoll, activeSources, idle, trigger, crew,
                   launched, outcome, executor, cancelling, workerVars, controls>>

\* The errors a run collected decide between COMPLETED and FAILED.
Decide ==
    /\ runPc = "decide"
    /\ outcome' \in IF stopRequested THEN {"STOPPED"} ELSE {"COMPLETED", "FAILED"}
    /\ runPc' = "finish"
    /\ UNCHANGED <<liveVars, running, activePoll, activeSources, idle, trigger, crew,
                   launched, executor, cancelling, workerVars, controls>>

Finish ==
    /\ runPc = "finish"
    /\ FinishRun(outcome)
    /\ runPc' = "close"
    /\ UNCHANGED <<running, activePoll, activeSources, idle, trigger, crew, launched,
                   outcome, executor, cancelling, workerVars, controls>>

\* A shutdown still to come finds the executor of this run closed.
Close ==
    /\ runPc = "close"
    /\ activePoll' = "none"
    /\ running' = FALSE
    /\ runPc' = "idle"
    /\ crew' = 0
    /\ launched' = 0
    /\ executor' = "none"
    /\ cancelling' = FALSE
    /\ pc' = [w \in Worker |-> "off"]
    /\ interrupted' = [w \in Worker |-> FALSE]
    /\ idle' = [s \in IdleSource |-> IF idle[s] = "batch" THEN "none" ELSE idle[s]]
    /\ trigger' = "none"
    /\ outcome' = "COMPLETED"
    /\ ForgetRun
    /\ UNCHANGED <<activeSources, src, left, controls>>

RunStep ==
    SetUp \/ RegisterExecutor \/ Launch \/ Join \/ Decide \/ Finish \/ Close

-----------------------------------------------------------------------------
(* A worker (pollWorker, pollSingleSource, PollingSourceExecutionService). *)

Goto(w, step) == pc' = [pc EXCEPT ![w] = step]
Other == <<running, idle, runVars, cancelling, controls>>

\* Only an executor's worker looks at its interrupt flag between sources.
BackToQueue == IF crew = 1 THEN "next" ELSE "top"

CheckInterrupt(w) ==
    /\ pc[w] = "top"
    /\ Goto(w, IF interrupted[w] THEN "done" ELSE "next")
    /\ UNCHANGED <<Other, liveVars, activePoll, activeSources, src, left, interrupted>>

\* Fault: a pause is looked at before a stop.
NextSourcePauseFirst(w) ==
    /\ pc[w] = "next"
    /\ \/ pauseRequested /\ ShowPaused
          /\ Goto(w, IF interrupted[w] THEN "done" ELSE "next")
          /\ UNCHANGED src
       \/ ~pauseRequested /\ (stopRequested \/ queue = <<>>)
          /\ Goto(w, "done") /\ UNCHANGED <<liveVars, src>>
       \/ \E s \in Source :
             /\ TakeNext(s)
             /\ IF IsQueued(s)
                THEN Goto(w, "guard") /\ src' = [src EXCEPT ![w] = s]
                ELSE UNCHANGED <<pc, src>>
    /\ UNCHANGED <<Other, activePoll, activeSources, left, interrupted>>

\* nextSourceId: nothing more after a stop, a pause waits unless the thread is
\* interrupted, an empty queue ends the worker.
NextSource(w) ==
    /\ pc[w] = "next"
    /\ \/ /\ stopRequested \/ (~pauseRequested /\ queue = <<>>)
          /\ Goto(w, "done")
          /\ UNCHANGED <<liveVars, src>>
       \/ /\ ~stopRequested /\ pauseRequested
          /\ ShowPaused
          /\ Goto(w, IF interrupted[w] THEN "done" ELSE "next")
          /\ UNCHANGED src
       \/ \E s \in Source :
             /\ TakeNext(s)
             /\ IF IsQueued(s)
                THEN Goto(w, "guard") /\ src' = [src EXCEPT ![w] = s]
                ELSE UNCHANGED <<pc, src>>
    /\ UNCHANGED <<Other, activePoll, activeSources, left, interrupted>>

\* Fault: a source that is busy is left without a final state.
EnterWithoutMark(w) ==
    /\ pc[w] = "guard"
    /\ IF src[w] \in activeSources
       THEN /\ Goto(w, BackToQueue)
            /\ src' = [src EXCEPT ![w] = NoSource]
            /\ UNCHANGED activeSources
       ELSE /\ activeSources' = activeSources \cup {src[w]}
            /\ Goto(w, "eligible")
            /\ UNCHANGED src
    /\ UNCHANGED <<Other, liveVars, activePoll, left, interrupted>>

\* A source another thread is polling is turned away as busy.
Enter(w) ==
    /\ pc[w] = "guard"
    /\ IF src[w] \in activeSources
       THEN /\ MarkSource(src[w], "FAILED")
            /\ src' = [src EXCEPT ![w] = NoSource]
            /\ Goto(w, BackToQueue)
            /\ UNCHANGED activeSources
       ELSE /\ activeSources' = activeSources \cup {src[w]}
            /\ Goto(w, "eligible")
            /\ UNCHANGED <<liveVars, src>>
    /\ UNCHANGED <<Other, activePoll, left, interrupted>>

\* A source that is disabled, cooling down or no longer due is not polled.
Admit(w) ==
    /\ pc[w] = "eligible"
    /\ \/ \E state \in {"COMPLETED", "FAILED"} :
             /\ MarkSource(src[w], state)
             /\ Goto(w, "release")
             /\ UNCHANGED <<activePoll, left>>
       \/ /\ activePoll' = trigger
          /\ left' = [left EXCEPT ![w] = MaxMessages]
          /\ Goto(w, "work")
          /\ UNCHANGED liveVars
    /\ UNCHANGED <<Other, activeSources, src, interrupted>>

\* Between two messages the poll comes to a checkpoint.
HandleMessage(w) ==
    /\ pc[w] = "work"
    /\ left[w] > 0
    /\ left' = [left EXCEPT ![w] = @ - 1]
    /\ Goto(w, "checkpoint")
    /\ UNCHANGED <<Other, liveVars, activePoll, activeSources, src, interrupted>>

\* awaitIfPausedOrStopped
Checkpoint(w) ==
    /\ pc[w] = "checkpoint"
    /\ \/ /\ stopRequested
          /\ MarkSource(src[w], "STOPPED")
          /\ Goto(w, "release")
       \/ /\ ~stopRequested /\ ~pauseRequested
          /\ Goto(w, "work")
          /\ UNCHANGED liveVars
       \/ /\ ~stopRequested /\ pauseRequested
          /\ ShowPaused
          /\ Goto(w, IF interrupted[w] THEN "halted" ELSE "checkpoint")
    /\ UNCHANGED <<Other, activePoll, activeSources, src, left, interrupted>>

\* A poll whose wait was interrupted ends as stopped.
Halt(w) ==
    /\ pc[w] = "halted"
    /\ MarkSource(src[w], "STOPPED")
    /\ Goto(w, "release")
    /\ UNCHANGED <<Other, activePoll, activeSources, src, left, interrupted>>

\* The poll ends, or throws; an exception in a stopped run is the stop.
EndPoll(w) ==
    /\ pc[w] = "work"
    /\ \E state \in {"COMPLETED", "FAILED", "STOPPED"} :
          /\ state = "STOPPED" => stopRequested
          /\ MarkSource(src[w], state)
    /\ Goto(w, "release")
    /\ UNCHANGED <<Other, activePoll, activeSources, src, left, interrupted>>

Release(w) ==
    /\ pc[w] = "release"
    /\ activeSources' = activeSources \ {src[w]}
    /\ src' = [src EXCEPT ![w] = NoSource]
    /\ left' = [left EXCEPT ![w] = 0]
    /\ Goto(w, BackToQueue)
    /\ UNCHANGED <<Other, liveVars, activePoll, interrupted>>

WorkerStep(w) ==
    \/ CheckInterrupt(w) \/ NextSource(w) \/ Enter(w) \/ Admit(w) \/ HandleMessage(w)
    \/ Checkpoint(w) \/ Halt(w) \/ EndPoll(w) \/ Release(w)

-----------------------------------------------------------------------------
(* IDLE activations (runIdleSourcePoll, runConcurrentIdleSourcePoll): at most *)
(* one per source; beside a scheduler run a poll of its own, else a batch run *)
(* of one source, else busy.                                                  *)

IdleActivate(s) ==
    /\ idle[s] = "none"
    /\ \/ /\ running /\ activePoll = "scheduler"
          /\ idle' = [idle EXCEPT ![s] = "guard"]
          /\ UNCHANGED <<liveVars, running, activePoll, activeSources, runVars, cancelling,
                         workerVars, controls>>
       \/ BeginRun("idle", <<s>>) /\ idle' = [idle EXCEPT ![s] = "batch"]

\* Fault: a watcher's poll does not look at the guard the workers use.
IdleEnterUnguarded(s) ==
    /\ idle[s] = "guard"
    /\ activeSources' = activeSources \cup {s}
    /\ idle' = [idle EXCEPT ![s] = "eligible"]
    /\ UNCHANGED <<liveVars, running, activePoll, runVars, cancelling, workerVars, controls>>

IdleEnter(s) ==
    /\ idle[s] = "guard"
    /\ IF s \in activeSources
       THEN idle' = [idle EXCEPT ![s] = "none"] /\ UNCHANGED activeSources
       ELSE /\ idle' = [idle EXCEPT ![s] = "eligible"]
            /\ activeSources' = activeSources \cup {s}
    /\ UNCHANGED <<liveVars, running, activePoll, runVars, cancelling, workerVars, controls>>

IdlePoll(s) ==
    /\ idle[s] = "eligible"
    /\ \/ activePoll' = "idle"
       \/ UNCHANGED activePoll
    /\ idle' = [idle EXCEPT ![s] = "release"]
    /\ UNCHANGED <<liveVars, running, activeSources, runVars, cancelling, workerVars, controls>>

IdleRelease(s) ==
    /\ idle[s] = "release"
    /\ activeSources' = activeSources \ {s}
    /\ idle' = [idle EXCEPT ![s] = "none"]
    /\ UNCHANGED <<liveVars, running, activePoll, runVars, cancelling, workerVars, controls>>

IdleStep(s) == IdleActivate(s) \/ IdleEnter(s) \/ IdlePoll(s) \/ IdleRelease(s)

-----------------------------------------------------------------------------
(* Controls (requestPause ... retrySource, and the cancellation actions of a  *)
(* stop, which run after it has returned the lock).                           *)

Control ==
    /\ controls < MaxControls
    /\ controls' = controls + 1
    /\ \/ (RequestPause \/ RequestResume) /\ UNCHANGED cancelling
       \/ RequestStop /\ cancelling' = (executor # "none")
       \/ \E s \in Source :
             (MoveSourceToFront(s) \/ RetrySource(s)) /\ UNCHANGED cancelling
    /\ UNCHANGED <<running, activePoll, activeSources, idle, runVars, workerVars>>

\* shutdownNow interrupts every worker that has not ended.
CancelRun ==
    /\ cancelling
    /\ cancelling' = FALSE
    /\ executor' = "shut"
    /\ interrupted' = [w \in Worker |-> pc[w] \notin {"off", "done"}]
    /\ UNCHANGED <<liveVars, running, activePoll, activeSources, idle, trigger, runPc, crew,
                   launched, outcome, pc, src, left, controls>>

Next ==
    \/ BeginBatch \/ RunStep \/ Control \/ CancelRun
    \/ \E w \in Worker : WorkerStep(w)
    \/ \E s \in IdleSource : IdleStep(s)

Spec == Init /\ [][Next]_vars

\* Threads keep running: the run's, its workers' and the one that stops it.
\* Nobody has to start a run, press a control, or wake a source.
Fairness ==
    /\ WF_vars(RunStep)
    /\ \A w \in Worker : WF_vars(WorkerStep(w))
    /\ WF_vars(CancelRun)

FairSpec == Spec /\ Fairness

-----------------------------------------------------------------------------
(* Properties. *)

Polling == {"eligible", "work", "checkpoint", "halted"}
Holding == {"guard"} \cup Polling

\* Type correctness of the threads' state, and which steps hold a source.
TypeOK ==
    /\ LiveTypeOK
    /\ running \in BOOLEAN
    /\ activePoll \in Trigger \cup {"none"}
    /\ activeSources \in SUBSET Source
    /\ idle \in [IdleSource -> {"none", "batch", "guard", "eligible", "release"}]
    /\ trigger \in Trigger \cup {"none"}
    /\ runPc \in {"idle", "setup", "register", "launch", "join", "decide", "finish", "close"}
    /\ crew \in 0..MaxParallel
    /\ launched \in 0..crew
    /\ outcome \in {"COMPLETED", "FAILED", "STOPPED"}
    /\ executor \in {"none", "open", "shut"}
    /\ cancelling \in BOOLEAN
    /\ pc \in [Worker -> {"off", "top", "next", "release", "done"} \cup Holding]
    /\ src \in [Worker -> Source \cup {NoSource}]
    /\ left \in [Worker -> 0..MaxMessages]
    /\ interrupted \in [Worker -> BOOLEAN]
    /\ controls \in Nat
    /\ \A w \in Worker : pc[w] \in Holding \cup {"release"} => src[w] \in Source

\* A finished run holds no source that shows as running: the terminal-state
\* invariant of docs/ARCHITECTURE.md (markSourceFinished on every path).
FinishedRunsAreSettled ==
    ~RunActive => \A s \in Source : srcState[s] # "RUNNING"

\* During a run a source shows as running exactly when one worker has taken it
\* and has not yet given it a final state, and those are the active ids; no
\* retry, busy source or stop leaves a source running that nobody polls.
RunningIsHeld ==
    RunActive =>
        /\ activeIds = {s \in Source : srcState[s] = "RUNNING"}
        /\ activeIds = {src[w] : w \in {v \in Worker : pc[v] \in Holding}}
        /\ \A v, w \in Worker :
              pc[v] \in Holding /\ pc[w] \in Holding /\ src[v] = src[w] => v = w

\* No two threads poll one source at once, whether workers of a run or the
\* thread of an IDLE activation (the activeSources guard both paths share).
OnePollPerSource ==
    /\ \A v, w \in Worker :
          pc[v] \in Polling /\ pc[w] \in Polling /\ src[v] = src[w] => v = w
    /\ \A w \in Worker, s \in IdleSource :
          pc[w] \in Polling /\ src[w] = s => idle[s] \notin {"eligible", "release"}

\* A stop ends the run, whatever is pressed after it, unless a retry takes the
\* stop back.
StopEndsRun == RunActive /\ stopRequested ~> ~(RunActive /\ stopRequested)

\* A source queued or queued again is polled before its run ends, unless the
\* run was stopped: "retry-a-completed-source during the same active run"
\* (CONTEXT.md), "retry a completed/failed source" (docs/ARCHITECTURE.md).
NoRetryIsLost == ~RunActive => \A s \in Source : ~IsQueued(s)
=============================================================================
