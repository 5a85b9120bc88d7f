---------------------------- MODULE PollingLive ----------------------------
(***************************************************************************)
(* The live view of the one active poll run (PollingLiveService and         *)
(* PollingLiveRunState): a queue of sources that workers take from, the     *)
(* state of every source, and the controls of the person watching: pause,   *)
(* resume, stop, move a source to the front, retry a source.                *)
(*                                                                         *)
(* Every operation below runs under one lock and returns, so it is one      *)
(* step; PollRuns composes them with the threads that call them.            *)
(***************************************************************************)
EXTENDS Integers, Sequences, FiniteSets

CONSTANT Source

VARIABLES
    liveState,      \* the state of the active run, "NONE" when there is none
    pauseRequested,
    stopRequested,
    queue,          \* the ids of the sources still to poll
    activeIds,      \* the ids of the sources being polled
    srcState        \* the state of each source of the active or the last run

liveVars == <<liveState, pauseRequested, stopRequested, queue, activeIds, srcState>>

RunState == {"NONE", "RUNNING", "PAUSING", "PAUSED", "STOPPING"}
SourceState ==
    {"ABSENT", "QUEUED", "RETRY_QUEUED", "RUNNING", "COMPLETED", "FAILED", "STOPPED"}

LiveInit ==
    /\ liveState = "NONE"
    /\ pauseRequested = FALSE
    /\ stopRequested = FALSE
    /\ queue = <<>>
    /\ activeIds = {}
    /\ srcState = [s \in Source |-> "ABSENT"]

RunActive == liveState # "NONE"
IsQueued(s) == srcState[s] \in {"QUEUED", "RETRY_QUEUED"}

\* The orders in which the sources of a run may be listed.
Orders(S) == {q \in [1..Cardinality(S) -> S] : \A s \in S : \E i \in DOMAIN q : q[i] = s}

StartRun(order) ==
    /\ ~RunActive
    /\ liveState' = "RUNNING"
    /\ pauseRequested' = FALSE
    /\ stopRequested' = FALSE
    /\ queue' = order
    /\ activeIds' = {}
    /\ srcState' = [s \in Source |->
          IF \E i \in DOMAIN order : order[i] = s THEN "QUEUED" ELSE "ABSENT"]

-----------------------------------------------------------------------------
(* The controls.  A request the run refuses changes nothing. *)

RequestPause ==
    /\ RunActive
    /\ ~pauseRequested
    /\ liveState # "PAUSED"
    /\ pauseRequested' = TRUE
    /\ liveState' = "PAUSING"
    /\ UNCHANGED <<stopRequested, queue, activeIds, srcState>>

RequestResume ==
    /\ RunActive
    /\ pauseRequested \/ liveState \in {"PAUSED", "PAUSING"}
    /\ pauseRequested' = FALSE
    /\ liveState' = "RUNNING"
    /\ UNCHANGED <<stopRequested, queue, activeIds, srcState>>

RequestStop ==
    /\ RunActive
    /\ ~stopRequested
    /\ stopRequested' = TRUE
    /\ liveState' = "STOPPING"
    /\ UNCHANGED <<pauseRequested, queue, activeIds, srcState>>

MoveSourceToFront(s) ==
    /\ RunActive
    /\ IsQueued(s)
    /\ \E i \in DOMAIN queue :
          /\ queue[i] = s
          /\ queue' = <<s>> \o SubSeq(queue, 1, i - 1) \o SubSeq(queue, i + 1, Len(queue))
    /\ UNCHANGED <<liveState, pauseRequested, stopRequested, activeIds, srcState>>

\* Fault: a source that is running may be queued again.
RetryWhateverItsState(s) ==
    /\ RunActive
    /\ srcState[s] # "ABSENT"
    /\ ~IsQueued(s)
    /\ srcState' = [srcState EXCEPT ![s] = "RETRY_QUEUED"]
    /\ queue' = <<s>> \o queue
    /\ IF liveState = "STOPPING"
       THEN stopRequested' = FALSE /\ liveState' = "RUNNING"
       ELSE UNCHANGED <<stopRequested, liveState>>
    /\ UNCHANGED <<pauseRequested, activeIds>>

\* A finished source goes back to the front of the queue; a run that was
\* stopping goes on.
RetrySource(s) ==
    /\ RunActive
    /\ srcState[s] # "ABSENT"
    /\ srcState[s] # "RUNNING"
    /\ ~IsQueued(s)
    /\ srcState' = [srcState EXCEPT ![s] = "RETRY_QUEUED"]
    /\ queue' = <<s>> \o queue
    /\ IF liveState = "STOPPING"
       THEN stopRequested' = FALSE /\ liveState' = "RUNNING"
       ELSE UNCHANGED <<stopRequested, liveState>>
    /\ UNCHANGED <<pauseRequested, activeIds>>

-----------------------------------------------------------------------------
(* What workers do. *)

\* A worker that meets a pause shows it and waits.
ShowPaused ==
    /\ liveState' = "PAUSED"
    /\ UNCHANGED <<pauseRequested, stopRequested, queue, activeIds, srcState>>

\* nextSourceId takes the first source, which starts running.
TakeNext(s) ==
    /\ ~stopRequested /\ ~pauseRequested
    /\ queue # <<>>
    /\ s = Head(queue)
    /\ queue' = Tail(queue)
    /\ IF IsQueued(s)
       THEN /\ activeIds' = activeIds \cup {s}
            /\ liveState' = "RUNNING"
            /\ srcState' = [srcState EXCEPT ![s] = "RUNNING"]
       ELSE UNCHANGED <<activeIds, liveState, srcState>>
    /\ UNCHANGED <<pauseRequested, stopRequested>>

\* markSourceFinished and markSourceStopped.
MarkSource(s, state) ==
    /\ srcState' = [srcState EXCEPT ![s] = state]
    /\ activeIds' = activeIds \ {s}
    /\ UNCHANGED <<liveState, pauseRequested, stopRequested, queue>>

\* A stopped run stops whatever it had not finished.
FinishRun(finalState) ==
    /\ liveState' = "NONE"
    /\ pauseRequested' = FALSE
    /\ stopRequested' = FALSE
    /\ queue' = <<>>
    /\ activeIds' = {}
    /\ srcState' = [s \in Source |->
          IF finalState = "STOPPED" /\ (IsQueued(s) \/ srcState[s] = "RUNNING")
          THEN "STOPPED" ELSE srcState[s]]

\* Nothing keeps the sources of a run that is over.
ForgetRun ==
    /\ srcState' = [s \in Source |-> "ABSENT"]
    /\ UNCHANGED <<liveState, pauseRequested, stopRequested, queue, activeIds>>

-----------------------------------------------------------------------------
LiveTypeOK ==
    /\ liveState \in RunState
    /\ pauseRequested \in BOOLEAN
    /\ stopRequested \in BOOLEAN
    /\ queue \in Seq(Source)
    /\ activeIds \in SUBSET Source
    /\ srcState \in [Source -> SourceState]
=============================================================================
