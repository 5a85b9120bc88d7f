--------------------------- MODULE PollRuns_proofs ---------------------------
(* Theorems about PollRuns, for every set of sources and number of workers. *)
EXTENDS PollRuns, FiniteSetTheorems, SequenceTheorems, TLAPS

LEMMA OrdersAreSequences ==
  ASSUME NEW S \in SUBSET Source, NEW order \in Orders(S)
  PROVE  order \in Seq(Source)
<1>1. IsFiniteSet(S)
  BY PollRunsAssumption, FS_Subset DEF PollRunsAssumption
<1>2. Cardinality(S) \in Nat
  BY <1>1, FS_CardinalityType
<1>3. order \in [1..Cardinality(S) -> S]
  BY DEF Orders
<1>4. order \in Seq(S)
  BY <1>2, <1>3
<1> QED
  BY <1>4

LEMMA WorkerParallelismType ==
  ASSUME NEW n \in Nat
  PROVE  WorkerParallelism(n) \in Worker
<1>0. MaxParallel \in Nat \ {0}
  BY PollRunsAssumption DEF PollRunsAssumption
<1>1. \E p \in Worker : /\ p = MaxParallel \/ p >= n
                        /\ p = 1 \/ p <= n
  <2>1. CASE n = 0
    BY <1>0, <2>1 DEF Worker
  <2>2. CASE n > MaxParallel
    BY <1>0, <2>2 DEF Worker
  <2>3. CASE n > 0 /\ n <= MaxParallel
    BY <1>0, <2>3 DEF Worker
  <2> QED
    BY <1>0, <2>1, <2>2, <2>3
<1> QED
  BY <1>1 DEF WorkerParallelism

-----------------------------------------------------------------------------
(* Type correctness of the live view's operations. *)

LEMMA LiveControlTypes ==
  ASSUME LiveTypeOK, NEW s \in Source,
         \/ RequestPause \/ RequestResume \/ RequestStop
         \/ MoveSourceToFront(s) \/ RetrySource(s)
  PROVE  LiveTypeOK'
<1> USE DEF LiveTypeOK, RunState, SourceState
<1>1. CASE RequestPause \/ RequestResume \/ RequestStop
  BY <1>1 DEF RequestPause, RequestResume, RequestStop
<1>2. CASE MoveSourceToFront(s)
  <2>1. PICK i \in DOMAIN queue :
           queue' = <<s>> \o SubSeq(queue, 1, i - 1) \o SubSeq(queue, i + 1, Len(queue))
    BY <1>2 DEF MoveSourceToFront
  <2>2. queue \in Seq(Source) /\ i \in 1..Len(queue)
    OBVIOUS
  <2>3. SubSeq(queue, 1, i - 1) \in Seq(Source)
    BY <2>2, SubSeqProperties
  <2>4. SubSeq(queue, i + 1, Len(queue)) \in Seq(Source)
    BY <2>2, SubSeqProperties
  <2>5. <<s>> \in Seq(Source)
    OBVIOUS
  <2>6. queue' \in Seq(Source)
    BY <2>1, <2>3, <2>4, <2>5, ConcatProperties
  <2> QED
    BY <1>2, <2>6 DEF MoveSourceToFront
<1>3. CASE RetrySource(s)
  <2>1. <<s>> \in Seq(Source) /\ queue \in Seq(Source)
    OBVIOUS
  <2>2. queue' \in Seq(Source)
    BY <1>3, <2>1, ConcatProperties DEF RetrySource
  <2> QED
    BY <1>3, <2>2 DEF RetrySource
<1> QED
  BY <1>1, <1>2, <1>3

LEMMA LiveStepTypes ==
  ASSUME LiveTypeOK
  PROVE  /\ \A order \in Seq(Source) : StartRun(order) => LiveTypeOK'
         /\ ShowPaused => LiveTypeOK'
         /\ \A s \in Source : TakeNext(s) => LiveTypeOK'
         /\ \A s, state : state \in SourceState /\ MarkSource(s, state) => LiveTypeOK'
         /\ \A final : FinishRun(final) => LiveTypeOK'
         /\ ForgetRun => LiveTypeOK'
<1> USE DEF LiveTypeOK, RunState, SourceState
<1>1. ASSUME NEW order \in Seq(Source), StartRun(order)
      PROVE  LiveTypeOK'
  BY <1>1 DEF StartRun
<1>2. ShowPaused => LiveTypeOK'
  BY DEF ShowPaused
<1>3. ASSUME NEW s \in Source, TakeNext(s)
      PROVE  LiveTypeOK'
  <2>1. queue' \in Seq(Source)
    BY <1>3 DEF TakeNext
  <2> QED
    BY <1>3, <2>1 DEF TakeNext
<1>4. ASSUME NEW s, NEW state \in SourceState, MarkSource(s, state)
      PROVE  LiveTypeOK'
  BY <1>4 DEF MarkSource
<1>5. ASSUME NEW final, FinishRun(final)
      PROVE  LiveTypeOK'
  <2>1. <<>> \in Seq(Source)
    OBVIOUS
  <2>2. srcState' \in [Source -> SourceState]
    BY <1>5 DEF FinishRun
  <2> QED
    BY <1>5, <2>1, <2>2, Zenon DEF FinishRun
<1>6. ForgetRun => LiveTypeOK'
  BY DEF ForgetRun
<1> QED
  BY <1>1, <1>2, <1>3, <1>4, <1>5, <1>6

-----------------------------------------------------------------------------
(* Type correctness. *)

LEMMA InitTypeOK == Init => TypeOK
<1> SUFFICES ASSUME Init PROVE TypeOK
  OBVIOUS
<1>1. LiveTypeOK
  <2>1. LiveInit
    BY DEF Init
  <2>2. <<>> \in Seq(Source)
    OBVIOUS
  <2> QED
    BY <2>1, <2>2, Zenon DEF LiveInit, LiveTypeOK, RunState, SourceState
<1>2. 0 \in 0..MaxParallel /\ 0 \in 0..0 /\ 0 \in 0..MaxMessages
  BY PollRunsAssumption DEF PollRunsAssumption
<1> QED
  BY <1>1, <1>2 DEF Init, TypeOK, Trigger, Holding, Polling

LEMMA BeginRunTypeOK ==
  ASSUME TypeOK, NEW t \in Trigger, NEW order \in Seq(Source), BeginRun(t, order),
         idle' \in [IdleSource -> {"none", "batch", "guard", "eligible", "release"}]
  PROVE  TypeOK'
<1>1. WorkerParallelism(Len(order)) \in 0..MaxParallel
  BY WorkerParallelismType, PollRunsAssumption DEF PollRunsAssumption, Worker
<1>2. LiveTypeOK'
  <2>1. LiveTypeOK /\ StartRun(order)
    BY DEF BeginRun, TypeOK
  <2> QED
    BY <2>1, LiveStepTypes
<1>3. crew' \in 0..MaxParallel /\ launched' \in 0..crew'
  BY <1>1, PollRunsAssumption DEF BeginRun, PollRunsAssumption
<1> QED
  BY <1>2, <1>3 DEF BeginRun, TypeOK, workerVars

LEMMA LiveFrame == LiveTypeOK /\ UNCHANGED liveVars => LiveTypeOK'
  BY DEF LiveTypeOK, liveVars

\* Only the live view, the run's own variables and its workers' places change.
LEMMA RunStepTypeOK ==
  ASSUME TypeOK, RunStep
  PROVE  TypeOK'
<1> DEFINE Place == {"off", "top", "next", "release", "done"} \cup Holding
<1>0. /\ LiveTypeOK
      /\ launched \in 0..crew /\ crew \in 0..MaxParallel /\ MaxParallel \in Nat \ {0}
      /\ pc \in [Worker -> Place]
      /\ idle \in [IdleSource -> {"none", "batch", "guard", "eligible", "release"}]
      /\ interrupted \in [Worker -> BOOLEAN]
      /\ \A w \in Worker : pc[w] \in Holding \cup {"release"} => src[w] \in Source
      /\ trigger \in Trigger \cup {"none"} /\ activePoll \in Trigger \cup {"none"}
  BY PollRunsAssumption DEF TypeOK, PollRunsAssumption
<1>1. LiveTypeOK'
  BY <1>0, LiveFrame, LiveStepTypes
     DEF RunStep, SetUp, RegisterExecutor, Launch, Join, Decide, Finish, Close, TypeOK
<1>2. crew' \in 0..MaxParallel /\ launched' \in 0..crew'
  BY <1>0 DEF RunStep, SetUp, RegisterExecutor, Launch, Join, Decide, Finish, Close
<1>3. \/ pc' = pc \/ pc' = [w \in Worker |-> "off"]
      \/ \E v \in Worker, step \in {"next", "top"} : pc' = [pc EXCEPT ![v] = step]
  BY <1>0 DEF RunStep, SetUp, RegisterExecutor, Launch, Join, Decide, Finish, Close, workerVars,
     Worker
<1>4. pc' \in [Worker -> Place]
  BY <1>0, <1>3
<1>5. \A w \in Worker : pc'[w] \in Holding \cup {"release"} => src'[w] \in Source
  <2>1. src' = src
    BY DEF RunStep, SetUp, RegisterExecutor, Launch, Join, Decide, Finish, Close, workerVars
  <2>2. \A w \in Worker : pc'[w] \in Holding \cup {"release"} => pc'[w] = pc[w]
    BY <1>0, <1>3 DEF Holding, Polling
  <2> QED
    BY <1>0, <2>1, <2>2
<1>6. idle' \in [IdleSource -> {"none", "batch", "guard", "eligible", "release"}]
  BY <1>0 DEF RunStep, SetUp, RegisterExecutor, Launch, Join, Decide, Finish, Close
<1>7. /\ UNCHANGED <<activeSources, src, left, controls>>
      /\ runPc' \in {"idle", "setup", "register", "launch", "join", "decide", "finish", "close"}
      /\ outcome' = outcome \/ outcome' \in {"COMPLETED", "FAILED", "STOPPED"}
      /\ executor' = executor \/ executor' \in {"none", "open", "shut"}
      /\ trigger' = trigger \/ trigger' = "none"
      /\ activePoll' \in {activePoll, trigger, "none"}
  BY <1>0 DEF RunStep, SetUp, RegisterExecutor, Launch, Join, Decide, Finish, Close, workerVars,
     TypeOK
<1>8. /\ running' = running \/ running' = FALSE
      /\ cancelling' = cancelling \/ cancelling' = FALSE
      /\ interrupted' = interrupted \/ interrupted' = [w \in Worker |-> FALSE]
  BY DEF RunStep, SetUp, RegisterExecutor, Launch, Join, Decide, Finish, Close, workerVars
<1>9. running' \in BOOLEAN /\ cancelling' \in BOOLEAN /\ interrupted' \in [Worker -> BOOLEAN]
  BY <1>8, Zenon DEF TypeOK
<1> HIDE DEF Place
<1>10. /\ trigger' \in Trigger \cup {"none"} /\ activePoll' \in Trigger \cup {"none"}
       /\ outcome' \in {"COMPLETED", "FAILED", "STOPPED"}
       /\ executor' \in {"none", "open", "shut"}
  BY <1>0, <1>7 DEF TypeOK
<1> QED
  BY <1>1, <1>2, <1>4, <1>5, <1>6, <1>7, <1>9, <1>10 DEF TypeOK, Place

\* A worker changes the live view, the poll that shows, its own place, and the
\* guard of the sources being polled.
LEMMA WorkerFrame ==
  ASSUME TypeOK, NEW w \in Worker, WorkerStep(w)
  PROVE  /\ UNCHANGED <<running, idle, runVars, cancelling, controls, interrupted>>
         /\ activePoll' \in {activePoll, trigger}
         /\ activeSources' \in
               {activeSources, activeSources \cup {src[w]}, activeSources \ {src[w]}}
         /\ \E step \in {"top", "next", "release", "done"} \cup Holding :
               pc' = [pc EXCEPT ![w] = step]
         /\ \E s \in Source \cup {NoSource} : src' = [src EXCEPT ![w] = s]
         /\ \E n \in 0..MaxMessages : left' = [left EXCEPT ![w] = n]
<1> USE PollRunsAssumption
    DEF PollRunsAssumption, Other, Goto, BackToQueue, Holding, Polling
<1>0. /\ pc \in [Worker -> {"off", "top", "next", "release", "done"} \cup Holding]
      /\ src \in [Worker -> Source \cup {NoSource}]
      /\ left \in [Worker -> 0..MaxMessages]
  BY DEF TypeOK
<1>a. /\ pc = [pc EXCEPT ![w] = pc[w]] /\ src = [src EXCEPT ![w] = src[w]]
      /\ left = [left EXCEPT ![w] = left[w]]
      /\ src[w] \in Source \cup {NoSource} /\ left[w] \in 0..MaxMessages
  BY <1>0
<1>1. CASE CheckInterrupt(w)
  BY <1>1, <1>a DEF CheckInterrupt
<1>2. CASE NextSource(w)
  BY <1>2, <1>a DEF NextSource
<1>3. CASE Enter(w)
  BY <1>3, <1>a DEF Enter
<1>4. CASE Admit(w)
  <2>1. MaxMessages \in 0..MaxMessages
    OBVIOUS
  <2> QED
    BY <1>4, <1>a, <2>1 DEF Admit
<1>5. CASE HandleMessage(w)
  <2>1. left[w] - 1 \in 0..MaxMessages
    BY <1>5, <1>a DEF HandleMessage
  <2> QED
    BY <1>5, <1>a, <2>1 DEF HandleMessage
<1>6. CASE Checkpoint(w)
  BY <1>6, <1>a DEF Checkpoint
<1>7. CASE Halt(w)
  BY <1>7, <1>a DEF Halt
<1>8. CASE EndPoll(w)
  BY <1>8, <1>a DEF EndPoll
<1>9. CASE Release(w)
  <2>1. 0 \in 0..MaxMessages
    OBVIOUS
  <2> QED
    BY <1>9, <1>a, <2>1 DEF Release
<1> QED
  BY <1>1, <1>2, <1>3, <1>4, <1>5, <1>6, <1>7, <1>8, <1>9 DEF WorkerStep

\* What a worker does to the live view.
LEMMA WorkerLiveSteps ==
  ASSUME NEW w \in Worker, WorkerStep(w)
  PROVE  \/ UNCHANGED liveVars
         \/ ShowPaused
         \/ \E s \in Source : TakeNext(s)
         \/ \E state \in {"COMPLETED", "FAILED", "STOPPED"} : MarkSource(src[w], state)
BY DEF WorkerStep, CheckInterrupt, NextSource, Enter, Admit, HandleMessage, Checkpoint, Halt,
       EndPoll, Release

\* A worker that holds a source keeps it until it releases it, and takes one
\* only from the queue.
LEMMA WorkerHolds ==
  ASSUME TypeOK, NEW w \in Worker, WorkerStep(w), pc'[w] \in Holding \cup {"release"}
  PROVE  \/ pc[w] \in Holding /\ src'[w] = src[w]
         \/ pc[w] = "next" /\ pc'[w] = "guard" /\ src'[w] \in Source
<1>0. /\ pc \in [Worker -> {"off", "top", "next", "release", "done"} \cup Holding]
      /\ src \in [Worker -> Source \cup {NoSource}]
  BY DEF TypeOK
<1> QED
  BY <1>0 DEF WorkerStep, CheckInterrupt, NextSource, Enter, Admit, HandleMessage, Checkpoint,
     Halt, EndPoll, Release, Goto, BackToQueue, Holding, Polling

LEMMA WorkerTypeOK ==
  ASSUME TypeOK, NEW w \in Worker, WorkerStep(w)
  PROVE  TypeOK'
<1>1. LiveTypeOK'
  BY WorkerLiveSteps, LiveStepTypes DEF TypeOK, LiveTypeOK, liveVars, SourceState
<1>2. activeSources' \in SUBSET Source
  <2>1. activeSources \in SUBSET Source
    BY DEF TypeOK
  <2>2. CASE Enter(w)
    BY <2>1, <2>2 DEF Enter, TypeOK, Holding
  <2>3. CASE ~Enter(w)
    BY <2>1, <2>3 DEF WorkerStep, CheckInterrupt, NextSource, Admit, HandleMessage, Checkpoint,
       Halt, EndPoll, Release
  <2> QED
    BY <2>2, <2>3
<1>3. /\ pc' \in [Worker -> {"off", "top", "next", "release", "done"} \cup Holding]
      /\ src' \in [Worker -> Source \cup {NoSource}]
      /\ left' \in [Worker -> 0..MaxMessages]
  BY WorkerFrame DEF TypeOK
<1>4. pc'[w] \in Holding \cup {"release"} => src'[w] \in Source
  BY WorkerHolds DEF TypeOK
<1>5. \A v \in Worker : pc'[v] \in Holding \cup {"release"} => src'[v] \in Source
  BY <1>4, WorkerFrame DEF TypeOK
<1>6. /\ UNCHANGED <<running, idle, trigger, runPc, crew, launched, outcome, executor,
                      cancelling, controls, interrupted>>
      /\ activePoll' \in Trigger \cup {"none"}
  BY WorkerFrame DEF runVars, TypeOK
<1> QED
  BY <1>1, <1>2, <1>3, <1>5, <1>6 DEF TypeOK

LEMMA IdleTypeOK ==
  ASSUME TypeOK, NEW s \in IdleSource, IdleStep(s)
  PROVE  TypeOK'
<1>1. idle' \in [IdleSource -> {"none", "batch", "guard", "eligible", "release"}]
  BY DEF IdleStep, IdleActivate, IdleEnter, IdlePoll, IdleRelease, TypeOK
<1>2. CASE BeginRun("idle", <<s>>)
  <2>1. <<s>> \in Seq(Source) /\ "idle" \in Trigger
    BY PollRunsAssumption DEF PollRunsAssumption, Trigger
  <2> QED
    BY <1>1, <1>2, <2>1, BeginRunTypeOK
<1>3. CASE ~BeginRun("idle", <<s>>)
  <2>1. UNCHANGED <<liveVars, running, runVars, cancelling, workerVars, controls>>
    BY <1>3 DEF IdleStep, IdleActivate, IdleEnter, IdlePoll, IdleRelease
  <2>2. activePoll' \in Trigger \cup {"none"}
    BY <1>3 DEF IdleStep, IdleActivate, IdleEnter, IdlePoll, IdleRelease, TypeOK, Trigger
  <2>3. activeSources' \in SUBSET Source
    BY <1>3, PollRunsAssumption
       DEF IdleStep, IdleActivate, IdleEnter, IdlePoll, IdleRelease, TypeOK, PollRunsAssumption
  <2>4. LiveTypeOK'
    BY <2>1, LiveFrame DEF TypeOK
  <2> QED
    BY <1>1, <2>1, <2>2, <2>3, <2>4 DEF TypeOK, runVars, workerVars
<1> QED
  BY <1>2, <1>3

LEMMA ControlTypeOK ==
  ASSUME TypeOK, Control \/ CancelRun
  PROVE  TypeOK'
<1>1. CASE Control
  <2>1. LiveTypeOK'
    <3>1. \/ RequestPause \/ RequestResume \/ RequestStop
          \/ \E s \in Source : MoveSourceToFront(s) \/ RetrySource(s)
      BY <1>1 DEF Control
    <3>2. CASE RequestPause \/ RequestResume \/ RequestStop
      BY <3>2 DEF RequestPause, RequestResume, RequestStop, LiveTypeOK, RunState, TypeOK
    <3>3. CASE \E s \in Source : MoveSourceToFront(s) \/ RetrySource(s)
      BY <3>3, LiveControlTypes DEF TypeOK
    <3> QED
      BY <3>1, <3>2, <3>3
  <2>2. cancelling' \in BOOLEAN
    BY <1>1, Zenon DEF Control, TypeOK
  <2>3. controls' \in Nat
    BY <1>1 DEF Control, TypeOK
  <2>4. UNCHANGED <<running, activePoll, activeSources, idle, runVars, workerVars>>
    BY <1>1 DEF Control
  <2> QED
    BY <2>1, <2>2, <2>3, <2>4 DEF TypeOK, runVars, workerVars
<1>2. CASE CancelRun
  <2>1. LiveTypeOK'
    BY <1>2, LiveFrame DEF CancelRun, TypeOK
  <2>2. interrupted' \in [Worker -> BOOLEAN]
    BY <1>2, Zenon DEF CancelRun
  <2> QED
    BY <1>2, <2>1, <2>2 DEF CancelRun, TypeOK
<1> QED
  BY <1>1, <1>2

LEMMA NextTypeOK == TypeOK /\ [Next]_vars => TypeOK'
<1> SUFFICES ASSUME TypeOK, [Next]_vars
             PROVE  TypeOK'
  OBVIOUS
<1>1. CASE BeginBatch
  <2>0. PICK S \in SUBSET Source, t \in {"scheduler", "manual"} :
           \E order \in Orders(S) : BeginRun(t, order) /\ UNCHANGED idle
    BY <1>1 DEF BeginBatch
  <2>1. PICK order \in Orders(S) : BeginRun(t, order) /\ UNCHANGED idle
    BY <2>0
  <2>2. order \in Seq(Source) /\ t \in Trigger
    BY OrdersAreSequences DEF Trigger
  <2>3. idle' \in [IdleSource -> {"none", "batch", "guard", "eligible", "release"}]
    BY <2>1 DEF TypeOK
  <2> QED
    BY <2>1, <2>2, <2>3, BeginRunTypeOK
<1>2. CASE UNCHANGED vars
  <2>1. LiveTypeOK'
    BY <1>2, LiveFrame DEF vars, TypeOK
  <2> QED
    BY <1>2, <2>1 DEF vars, runVars, workerVars, TypeOK
<1> QED
  BY <1>1, <1>2, RunStepTypeOK, WorkerTypeOK, IdleTypeOK, ControlTypeOK DEF Next

\* The state of the run, its workers, the watchers and the live view is well
\* typed, and a worker that holds a source has one, whatever is pressed.
THEOREM TypeCorrect == Spec => []TypeOK
  BY InitTypeOK, NextTypeOK, PTL DEF Spec

-----------------------------------------------------------------------------
(* One poll per source.  Inductive strengthening: whoever polls a source, or  *)
(* has yet to release it, has it in the guard, and has it alone.              *)

Keeping == Polling \cup {"release"}
Watching(s) == idle[s] \in {"eligible", "release"}

GuardIsHeld ==
    /\ \A w \in Worker : pc[w] \in Keeping => src[w] \in activeSources
    /\ \A v, w \in Worker :
          pc[v] \in Keeping /\ pc[w] \in Keeping /\ src[v] = src[w] => v = w
    /\ \A s \in IdleSource : Watching(s) => s \in activeSources
    /\ \A s \in IdleSource, w \in Worker : Watching(s) /\ pc[w] \in Keeping => src[w] # s

\* A step by which nobody enters or releases a source.
LEMMA GuardFrame ==
  ASSUME GuardIsHeld, activeSources' = activeSources,
         \A w \in Worker : pc'[w] \in Keeping => pc[w] \in Keeping /\ src'[w] = src[w],
         \A s \in IdleSource : Watching(s)' => Watching(s)
  PROVE  GuardIsHeld'
  BY DEF GuardIsHeld

\* Of a worker's steps only Enter and Release touch the guard.
LEMMA WorkerKeeps ==
  ASSUME TypeOK, NEW w \in Worker, WorkerStep(w), ~Enter(w), ~Release(w)
  PROVE  /\ UNCHANGED <<activeSources, idle>>
         /\ pc'[w] \in Keeping => pc[w] \in Keeping /\ src'[w] = src[w]
<1>0. /\ pc \in [Worker -> {"off", "top", "next", "release", "done"} \cup Holding]
      /\ src \in [Worker -> Source \cup {NoSource}]
  BY DEF TypeOK
<1>1. UNCHANGED <<activeSources, idle>>
  BY DEF WorkerStep, CheckInterrupt, NextSource, Admit, HandleMessage, Checkpoint, Halt, EndPoll,
     Other
<1>2. pc'[w] \in Keeping => pc[w] \in Keeping /\ src'[w] = src[w]
  BY <1>0 DEF WorkerStep, CheckInterrupt, NextSource, Admit, HandleMessage, Checkpoint, Halt,
     EndPoll, Goto, Keeping, Polling
<1> QED
  BY <1>1, <1>2

LEMMA WorkerGuard ==
  ASSUME TypeOK, GuardIsHeld, NEW w \in Worker, WorkerStep(w)
  PROVE  GuardIsHeld'
<1>0. /\ pc \in [Worker -> {"off", "top", "next", "release", "done"} \cup Holding]
      /\ src \in [Worker -> Source \cup {NoSource}]
  BY DEF TypeOK
<1>a. \A v \in Worker : v # w => pc'[v] = pc[v] /\ src'[v] = src[v]
  BY <1>0, WorkerFrame
<1>1. CASE Enter(w) /\ src[w] \in activeSources
  <2>1. /\ UNCHANGED <<activeSources, idle>>
        /\ pc'[w] \in {"next", "top"}
    BY <1>0, <1>1 DEF Enter, Goto, BackToQueue, Other
  <2>2. pc'[w] \notin Keeping
    BY <2>1 DEF Keeping, Polling
  <2> QED
    BY <1>a, <2>1, <2>2, GuardFrame DEF Watching
<1>2. CASE Enter(w) /\ src[w] \notin activeSources
  <2>1. /\ UNCHANGED <<src, idle>>
        /\ activeSources' = activeSources \cup {src[w]}
    BY <1>2 DEF Enter, Other
  <2>2. \A v \in Worker : pc[v] \in Keeping => src[v] # src[w]
    BY <1>2 DEF GuardIsHeld
  <2>3. \A s \in IdleSource : Watching(s) => s # src[w]
    BY <1>2 DEF GuardIsHeld
  <2>4. \A s \in IdleSource : Watching(s)' <=> Watching(s)
    BY <2>1 DEF Watching
  <2> HIDE DEF Keeping, Watching
  <2> QED
    BY <1>a, <2>1, <2>2, <2>3, <2>4 DEF GuardIsHeld
<1>3. CASE Release(w)
  <2>1. /\ activeSources' = activeSources \ {src[w]}
        /\ UNCHANGED idle
        /\ pc[w] \in Keeping
        /\ pc'[w] \in {"next", "top"}
    BY <1>0, <1>3 DEF Release, Goto, BackToQueue, Other, Keeping
  <2>2. pc'[w] \notin Keeping
    BY <2>1 DEF Keeping, Polling
  <2>3. \A s \in IdleSource : Watching(s)' <=> Watching(s)
    BY <2>1 DEF Watching
  <2> QED
    BY <1>a, <2>1, <2>2, <2>3 DEF GuardIsHeld
<1>4. CASE ~Enter(w) /\ ~Release(w)
  BY <1>a, <1>4, WorkerKeeps, GuardFrame DEF Watching
<1> QED
  BY <1>1, <1>2, <1>3, <1>4

LEMMA IdleGuard ==
  ASSUME TypeOK, GuardIsHeld, NEW s \in IdleSource, IdleStep(s)
  PROVE  GuardIsHeld'
<1>0. idle \in [IdleSource -> {"none", "batch", "guard", "eligible", "release"}]
  BY DEF TypeOK
<1>a. UNCHANGED <<pc, src>>
  BY DEF IdleStep, IdleActivate, IdleEnter, IdlePoll, IdleRelease, BeginRun, workerVars
<1>b. \A q \in IdleSource : q # s => idle'[q] = idle[q]
  BY <1>0 DEF IdleStep, IdleActivate, IdleEnter, IdlePoll, IdleRelease
<1>1. CASE IdleActivate(s)
  <2>1. activeSources' = activeSources /\ idle'[s] \in {"guard", "batch"}
    BY <1>0, <1>1 DEF IdleActivate, BeginRun
  <2>2. \A q \in IdleSource : Watching(q)' => Watching(q)
    BY <1>b, <2>1 DEF Watching
  <2> QED
    BY <1>a, <2>1, <2>2, GuardFrame
<1>2. CASE IdleEnter(s) /\ s \in activeSources
  <2>1. activeSources' = activeSources /\ idle'[s] = "none"
    BY <1>0, <1>2 DEF IdleEnter
  <2>2. \A q \in IdleSource : Watching(q)' => Watching(q)
    BY <1>b, <2>1 DEF Watching
  <2> QED
    BY <1>a, <2>1, <2>2, GuardFrame
<1>3. CASE IdleEnter(s) /\ s \notin activeSources
  <2>1. activeSources' = activeSources \cup {s}
    BY <1>3 DEF IdleEnter
  <2>2. \A q \in IdleSource : Watching(q)' => q = s \/ Watching(q)
    BY <1>b DEF Watching
  <2>3. \A w \in Worker : pc[w] \in Keeping => src[w] # s
    BY <1>3 DEF GuardIsHeld
  <2> QED
    BY <1>a, <2>1, <2>2, <2>3 DEF GuardIsHeld
<1>4. CASE IdlePoll(s)
  <2>1. activeSources' = activeSources
    BY <1>4 DEF IdlePoll
  <2>2. \A q \in IdleSource : Watching(q)' => Watching(q)
    BY <1>b, <1>4 DEF IdlePoll, Watching
  <2> QED
    BY <1>a, <2>1, <2>2, GuardFrame
<1>5. CASE IdleRelease(s)
  <2>1. activeSources' = activeSources \ {s} /\ idle'[s] = "none" /\ Watching(s)
    BY <1>0, <1>5 DEF IdleRelease, Watching
  <2>2. \A q \in IdleSource : Watching(q)' => q # s /\ Watching(q)
    BY <1>b, <2>1 DEF Watching
  <2> QED
    BY <1>a, <2>1, <2>2 DEF GuardIsHeld
<1> QED
  BY <1>1, <1>2, <1>3, <1>4, <1>5 DEF IdleStep

LEMMA GuardIsHeldNext ==
  ASSUME TypeOK, GuardIsHeld, [Next]_vars
  PROVE  GuardIsHeld'
<1>0. /\ pc \in [Worker -> {"off", "top", "next", "release", "done"} \cup Holding]
      /\ idle \in [IdleSource -> {"none", "batch", "guard", "eligible", "release"}]
  BY DEF TypeOK
<1>1. CASE RunStep
  <2>1. UNCHANGED <<activeSources, src>>
    BY <1>1 DEF RunStep, SetUp, RegisterExecutor, Launch, Join, Decide, Finish, Close, workerVars
  <2>2. \/ pc' = pc \/ pc' = [w \in Worker |-> "off"]
        \/ \E v, step : step \in {"next", "top"} /\ pc' = [pc EXCEPT ![v] = step]
    BY <1>1 DEF RunStep, SetUp, RegisterExecutor, Launch, Join, Decide, Finish, Close, workerVars
  <2>3. \A w \in Worker : pc'[w] \in Keeping => pc'[w] = pc[w]
    BY <1>0, <2>2 DEF Keeping, Polling
  <2>4. \A s \in IdleSource : Watching(s)' => Watching(s)
    BY <1>0, <1>1 DEF RunStep, SetUp, RegisterExecutor, Launch, Join, Decide, Finish, Close, Watching
  <2> QED
    BY <2>1, <2>3, <2>4, GuardFrame
<1>2. CASE BeginBatch \/ Control \/ CancelRun \/ UNCHANGED vars
  <2>1. UNCHANGED <<activeSources, src, pc, idle>>
    BY <1>2 DEF BeginBatch, BeginRun, Control, CancelRun, vars, workerVars
  <2> QED
    BY <2>1, GuardFrame DEF Watching
<1> QED
  BY <1>1, <1>2, WorkerGuard, IdleGuard DEF Next

\* However many workers and watchers there are, no two threads poll one source
\* at once (PollingService.activeSources).
THEOREM OneAlwaysPolls == Spec => []OnePollPerSource
<1>1. Init => GuardIsHeld
  BY DEF Init, GuardIsHeld, Keeping, Polling, Watching
<1>2. GuardIsHeld => OnePollPerSource
  BY DEF GuardIsHeld, OnePollPerSource, Keeping, Watching
<1> QED
  BY <1>1, <1>2, InitTypeOK, NextTypeOK, GuardIsHeldNext, PTL DEF Spec

-----------------------------------------------------------------------------
(* What shows as running is held by a worker.  Inductive strengthening: the   *)
(* shape of a run says when it has workers at all, and the correspondence     *)
(* between the live view and the workers holds whether a run is active or not.*)

RunShape ==
    /\ RunActive <=> runPc \in {"setup", "register", "launch", "join", "decide", "finish"}
    /\ ~running => runPc = "idle"
    /\ runPc \in {"idle", "setup", "register"} => \A w \in Worker : pc[w] = "off"
    /\ runPc \in {"decide", "finish", "close"} => \A w \in Worker : pc[w] \in {"off", "done"}
    /\ runPc = "launch" => \A w \in Worker : w > launched => pc[w] = "off"

ViewIsHeld ==
    /\ \A s \in Source : s \in activeIds <=> srcState[s] = "RUNNING"
    /\ \A s \in Source : s \in activeIds <=> \E w \in Worker : pc[w] \in Holding /\ src[w] = s
    /\ \A v, w \in Worker :
          pc[v] \in Holding /\ pc[w] \in Holding /\ src[v] = src[w] => v = w

\* Only a run that is launching or has launched its workers has working ones.
LEMMA WorkingRun ==
  ASSUME TypeOK, RunShape, NEW w \in Worker, WorkerStep(w)
  PROVE  /\ runPc \in {"launch", "join"}
         /\ pc[w] \notin {"off", "done"}
<1>1. pc[w] \notin {"off", "done"}
  BY DEF WorkerStep, CheckInterrupt, NextSource, Enter, Admit, HandleMessage, Checkpoint, Halt,
     EndPoll, Release
<1> QED
  BY <1>1 DEF RunShape, TypeOK

LEMMA RunStepShape ==
  ASSUME TypeOK, RunShape, RunStep
  PROVE  RunShape'
<1>0. /\ launched \in 0..crew /\ crew \in 0..MaxParallel /\ MaxParallel \in Nat \ {0}
      /\ pc \in [Worker -> {"off", "top", "next", "release", "done"} \cup Holding]
  BY PollRunsAssumption DEF TypeOK, PollRunsAssumption
<1>1. CASE SetUp
  BY <1>1 DEF SetUp, RunShape, RunActive, liveVars
<1>2. CASE RegisterExecutor
  <2>1. runPc = "register" /\ runPc' = "launch" /\ UNCHANGED <<liveVars, running, launched, pc>>
    BY <1>2 DEF RegisterExecutor, workerVars
  <2> QED
    BY <2>1 DEF RunShape, RunActive, liveVars
<1>3. CASE Launch
  <2>1. runPc = "launch" /\ UNCHANGED <<liveVars, running>>
    BY <1>3 DEF Launch
  <2>2. CASE runPc' = "join"
    BY <2>1, <2>2 DEF RunShape, RunActive, liveVars
  <2>3. CASE /\ runPc' = "launch" /\ launched' = launched + 1
             /\ pc' = [pc EXCEPT ![launched + 1] = "top"]
    <3>1. \A w \in Worker : w > launched' => w > launched /\ w # launched + 1
      BY <1>0, <2>3 DEF Worker
    <3>2. \A w \in Worker : w > launched' => pc'[w] = "off"
      BY <1>0, <2>1, <2>3, <3>1 DEF RunShape
    <3> QED
      BY <2>1, <2>3, <3>2 DEF RunShape, RunActive, liveVars
  <2> QED
    BY <1>3, <2>2, <2>3 DEF Launch
<1>4. CASE Join
  BY <1>4 DEF Join, RunShape, RunActive, liveVars, workerVars
<1>5. CASE Decide
  BY <1>5 DEF Decide, RunShape, RunActive, liveVars, workerVars
<1>6. CASE Finish
  BY <1>6 DEF Finish, FinishRun, RunShape, RunActive, workerVars
<1>7. CASE Close
  BY <1>7 DEF Close, ForgetRun, RunShape, RunActive
<1> QED
  BY <1>1, <1>2, <1>3, <1>4, <1>5, <1>6, <1>7 DEF RunStep

LEMMA RunShapeNext ==
  ASSUME TypeOK, RunShape, [Next]_vars
  PROVE  RunShape'
<1>1. ASSUME NEW t, NEW order, BeginRun(t, order)
      PROVE  RunShape'
  <2>1. runPc = "idle" /\ runPc' = "setup" /\ running' = TRUE /\ liveState' = "RUNNING"
        /\ pc' = pc
    BY <1>1 DEF BeginRun, StartRun, RunShape, workerVars
  <2> QED
    BY <2>1 DEF RunShape, RunActive
<1>2. ASSUME NEW w \in Worker, WorkerStep(w)
      PROVE  RunShape'
  <2>1. runPc \in {"launch", "join"} /\ pc[w] # "off"
    BY <1>2, WorkingRun
  <2>2. RunActive /\ RunActive'
    <3>1. RunActive
      BY <2>1 DEF RunShape
    <3> QED
      BY <1>2, <3>1, WorkerLiveSteps DEF RunActive, liveVars, ShowPaused, TakeNext, MarkSource
  <2>3. UNCHANGED <<running, runPc, launched>>
    BY <1>2, WorkerFrame DEF runVars
  <2>4. \A v \in Worker : pc[v] = "off" => pc'[v] = "off"
    BY <1>2, <2>1, WorkerFrame DEF TypeOK
  <2> QED
    BY <2>1, <2>2, <2>3, <2>4 DEF RunShape
<1>3. ASSUME NEW s \in IdleSource, IdleStep(s), ~BeginRun("idle", <<s>>)
      PROVE  RunShape'
  <2>1. UNCHANGED <<liveVars, running, runPc, launched, pc>>
    BY <1>3 DEF IdleStep, IdleActivate, IdleEnter, IdlePoll, IdleRelease, runVars, workerVars
  <2> QED
    BY <2>1 DEF RunShape, RunActive, liveVars
<1>4. CASE Control
  <2>1. RunActive /\ RunActive'
    BY <1>4 DEF Control, RequestPause, RequestResume, RequestStop, MoveSourceToFront, RetrySource,
       RunActive
  <2>2. UNCHANGED <<running, runPc, launched, pc>>
    BY <1>4 DEF Control, runVars, workerVars
  <2> QED
    BY <2>1, <2>2 DEF RunShape
<1>5. CASE CancelRun \/ UNCHANGED vars
  <2>1. UNCHANGED <<liveVars, running, runPc, launched, pc>>
    BY <1>5 DEF CancelRun, vars, runVars, workerVars
  <2> QED
    BY <2>1 DEF RunShape, RunActive, liveVars
<1>6. CASE BeginBatch
  BY <1>1, <1>6 DEF BeginBatch
<1> QED
  BY <1>1, <1>2, <1>3, <1>4, <1>5, <1>6, RunStepShape DEF Next

\* A step that leaves the live view alone, and every worker with what it holds.
LEMMA ViewFrame ==
  ASSUME ViewIsHeld, UNCHANGED <<activeIds, srcState>>,
         \A w \in Worker : (pc'[w] \in Holding) <=> (pc[w] \in Holding),
         \A w \in Worker : pc[w] \in Holding => src'[w] = src[w]
  PROVE  ViewIsHeld'
<1>1. \A s \in Source : (\E w \in Worker : pc[w] \in Holding /\ src[w] = s) <=>
                        (\E w \in Worker : pc'[w] \in Holding /\ src'[w] = s)
  OBVIOUS
<1> QED
  BY <1>1 DEF ViewIsHeld

\* Without workers at work, a view that shows nothing running is a true one.
LEMMA ViewAtRest ==
  ASSUME activeIds' = {}, \A s \in Source : srcState'[s] # "RUNNING",
         \A w \in Worker : pc'[w] \notin Holding
  PROVE  ViewIsHeld'
  BY DEF ViewIsHeld

LEMMA WorkerView ==
  ASSUME TypeOK, ViewIsHeld, NEW w \in Worker, WorkerStep(w)
  PROVE  ViewIsHeld'
<1>0. /\ pc \in [Worker -> {"off", "top", "next", "release", "done"} \cup Holding]
      /\ src \in [Worker -> Source \cup {NoSource}]
      /\ srcState \in [Source -> SourceState]
      /\ pc[w] \in Holding => src[w] \in Source
  BY DEF TypeOK, LiveTypeOK
<1>a. \A v \in Worker : v # w => pc'[v] = pc[v] /\ src'[v] = src[v]
  BY <1>0, WorkerFrame
<1>1. ASSUME NEW s \in Source, TakeNext(s), IsQueued(s), pc[w] \notin Holding,
             pc'[w] \in Holding, src'[w] = s
      PROVE  ViewIsHeld'
  <2>1. activeIds' = activeIds \cup {s} /\ srcState' = [srcState EXCEPT ![s] = "RUNNING"]
    BY <1>1 DEF TakeNext
  <2>2. srcState[s] # "RUNNING"
    BY <1>1 DEF IsQueued
  <2>3. \A v \in Worker : pc[v] \in Holding => src[v] # s
    BY <2>2 DEF ViewIsHeld
  <2>4. \A q \in Source : q \in activeIds' <=> srcState'[q] = "RUNNING"
    BY <1>0, <2>1 DEF ViewIsHeld
  <2>5. \A q \in Source : q # s =>
           ((\E v \in Worker : pc[v] \in Holding /\ src[v] = q) <=>
            (\E v \in Worker : pc'[v] \in Holding /\ src'[v] = q))
    BY <1>a, <1>1
  <2>6. \A q \in Source :
           q \in activeIds' <=> \E v \in Worker : pc'[v] \in Holding /\ src'[v] = q
    BY <1>1, <2>1, <2>5 DEF ViewIsHeld
  <2>7. \A u, v \in Worker :
           pc'[u] \in Holding /\ pc'[v] \in Holding /\ src'[u] = src'[v] => u = v
    BY <1>a, <1>1, <2>3 DEF ViewIsHeld
  <2> QED
    BY <2>4, <2>6, <2>7 DEF ViewIsHeld
<1>2. ASSUME NEW state \in {"COMPLETED", "FAILED", "STOPPED"}, MarkSource(src[w], state),
             pc[w] \in Holding, pc'[w] \notin Holding
      PROVE  ViewIsHeld'
  <2>1. /\ activeIds' = activeIds \ {src[w]}
        /\ srcState' = [srcState EXCEPT ![src[w]] = state]
    BY <1>2 DEF MarkSource
  <2>2. \A q \in Source : q \in activeIds' <=> srcState'[q] = "RUNNING"
    BY <1>0, <1>2, <2>1 DEF ViewIsHeld
  <2>3. \A v \in Worker : v # w /\ pc[v] \in Holding => src[v] # src[w]
    BY <1>2 DEF ViewIsHeld
  <2>4. \A q \in Source : (\E v \in Worker : pc'[v] \in Holding /\ src'[v] = q) <=>
           q # src[w] /\ \E v \in Worker : pc[v] \in Holding /\ src[v] = q
    BY <1>a, <1>2, <2>3
  <2>5. \A u, v \in Worker :
           pc'[u] \in Holding /\ pc'[v] \in Holding /\ src'[u] = src'[v] => u = v
    BY <1>a, <1>2 DEF ViewIsHeld
  <2> QED
    BY <2>1, <2>2, <2>4, <2>5 DEF ViewIsHeld
<1>3. ASSUME UNCHANGED <<activeIds, srcState>>, (pc'[w] \in Holding) <=> (pc[w] \in Holding),
             pc[w] \in Holding => src'[w] = src[w]
      PROVE  ViewIsHeld'
  BY <1>a, <1>3, ViewFrame
<1>4. CASE CheckInterrupt(w)
  BY <1>0, <1>3, <1>4 DEF CheckInterrupt, Goto, Holding, Polling, liveVars
<1>5. CASE NextSource(w)
  <2>0. pc[w] = "next" /\ pc[w] \notin Holding
    BY <1>5 DEF NextSource, Holding, Polling
  <2>1. CASE \E s \in Source : TakeNext(s) /\ IsQueued(s) /\ pc' = [pc EXCEPT ![w] = "guard"]
                            /\ src' = [src EXCEPT ![w] = s]
    <3>1. PICK s \in Source : TakeNext(s) /\ IsQueued(s) /\ pc' = [pc EXCEPT ![w] = "guard"]
                            /\ src' = [src EXCEPT ![w] = s]
      BY <2>1
    <3>2. pc'[w] \in Holding /\ src'[w] = s
      BY <1>0, <3>1 DEF Holding
    <3> QED
      BY <1>1, <2>0, <3>1, <3>2
  <2>2. CASE UNCHANGED <<activeIds, srcState>> /\ pc'[w] \in {"next", "done"}
    BY <1>3, <2>0, <2>2 DEF Holding, Polling
  <2>3. \/ \E s \in Source : TakeNext(s) /\ IsQueued(s) /\ pc' = [pc EXCEPT ![w] = "guard"]
                            /\ src' = [src EXCEPT ![w] = s]
        \/ UNCHANGED <<activeIds, srcState>> /\ pc'[w] \in {"next", "done"}
    BY <1>0, <1>5 DEF NextSource, Goto, ShowPaused, TakeNext, liveVars
  <2> QED
    BY <2>1, <2>2, <2>3
<1>6. CASE Enter(w)
  <2>1. CASE src[w] \in activeSources
    <3>1. MarkSource(src[w], "FAILED") /\ pc[w] \in Holding /\ pc'[w] \notin Holding
      BY <1>0, <1>6, <2>1 DEF Enter, Goto, BackToQueue, Holding, Polling
    <3> QED
      BY <1>2, <3>1
  <2>2. CASE src[w] \notin activeSources
    BY <1>0, <1>3, <1>6, <2>2 DEF Enter, Goto, Holding, Polling, liveVars
  <2> QED
    BY <2>1, <2>2
<1>7. CASE Admit(w) \/ Checkpoint(w) \/ Halt(w) \/ EndPoll(w)
  <2>1. \/ /\ \E state \in {"COMPLETED", "FAILED", "STOPPED"} : MarkSource(src[w], state)
           /\ pc' = [pc EXCEPT ![w] = "release"]
        \/ /\ UNCHANGED <<activeIds, srcState>>
           /\ \E step \in {"work", "checkpoint", "halted"} : pc' = [pc EXCEPT ![w] = step]
    BY <1>7 DEF Admit, Checkpoint, Halt, EndPoll, Goto, ShowPaused, liveVars
  <2>2. pc[w] \in Holding /\ src' = src
    BY <1>7 DEF Admit, Checkpoint, Halt, EndPoll, Holding, Polling
  <2>3. CASE /\ \E state \in {"COMPLETED", "FAILED", "STOPPED"} : MarkSource(src[w], state)
             /\ pc' = [pc EXCEPT ![w] = "release"]
    <3>1. pc'[w] \notin Holding
      BY <1>0, <2>3 DEF Holding, Polling
    <3> QED
      BY <1>2, <2>2, <2>3, <3>1
  <2>4. CASE /\ UNCHANGED <<activeIds, srcState>>
             /\ \E step \in {"work", "checkpoint", "halted"} : pc' = [pc EXCEPT ![w] = step]
    <3>1. pc'[w] \in Holding
      BY <1>0, <2>4 DEF Holding, Polling
    <3> QED
      BY <1>3, <2>2, <2>4, <3>1
  <2> QED
    BY <2>1, <2>3, <2>4
<1>8. CASE HandleMessage(w)
  BY <1>0, <1>3, <1>8 DEF HandleMessage, Goto, Holding, Polling, liveVars
<1>9. CASE Release(w)
  BY <1>0, <1>3, <1>9 DEF Release, Goto, BackToQueue, Holding, Polling, liveVars
<1> QED
  BY <1>4, <1>5, <1>6, <1>7, <1>8, <1>9 DEF WorkerStep

LEMMA ViewIsHeldNext ==
  ASSUME TypeOK, RunShape, ViewIsHeld, [Next]_vars
  PROVE  ViewIsHeld'
<1>0. /\ pc \in [Worker -> {"off", "top", "next", "release", "done"} \cup Holding]
      /\ srcState \in [Source -> SourceState]
  BY DEF TypeOK, LiveTypeOK
<1>1. ASSUME NEW t, NEW order, BeginRun(t, order)
      PROVE  ViewIsHeld'
  <2>1. /\ activeIds' = {} /\ \A s \in Source : srcState'[s] # "RUNNING"
        /\ \A w \in Worker : pc'[w] = "off"
    BY <1>1 DEF BeginRun, StartRun, RunShape, workerVars
  <2> QED
    BY <2>1, ViewAtRest DEF Holding, Polling
<1>2. ASSUME UNCHANGED <<activeIds, srcState, pc, src>>
      PROVE  ViewIsHeld'
  BY <1>2, ViewFrame
<1>3. CASE RunStep
  <2>1. CASE RegisterExecutor \/ Join \/ Decide
    BY <1>2, <2>1 DEF RegisterExecutor, Join, Decide, liveVars, workerVars
  <2>2. CASE SetUp \/ Launch
    <3>1. UNCHANGED <<activeIds, srcState, src>>
      BY <2>2 DEF SetUp, Launch, liveVars
    <3>2. \/ pc' = pc
          \/ \E v : pc[v] = "off" /\ \E step \in {"next", "top"} : pc' = [pc EXCEPT ![v] = step]
      <4>1. 1 \in Worker /\ MaxParallel \in Nat
        BY PollRunsAssumption DEF Worker, PollRunsAssumption
      <4>2. CASE SetUp
        BY <4>1, <4>2 DEF SetUp, RunShape
      <4>3. CASE Launch
        <5>1. launched \in 0..crew /\ crew \in 0..MaxParallel
          BY DEF TypeOK
        <5>2. launched # crew => launched + 1 \in Worker /\ launched + 1 > launched
          BY <4>1, <5>1 DEF Worker
        <5>3. pc' = pc \/ (launched # crew /\ pc' = [pc EXCEPT ![launched + 1] = "top"])
          BY <4>3 DEF Launch
        <5>4. launched # crew => pc[launched + 1] = "off"
          BY <4>3, <5>2 DEF Launch, RunShape
        <5> QED
          BY <5>3, <5>4
      <4> QED
        BY <2>2, <4>2, <4>3
    <3>3. \A w \in Worker : (pc'[w] \in Holding) <=> (pc[w] \in Holding)
      BY <1>0, <3>2 DEF Holding, Polling
    <3> QED
      BY <3>1, <3>3, ViewFrame
  <2>3. CASE Finish \/ Close
    <3>1. \A w \in Worker : pc[w] \notin Holding
      BY <2>3 DEF Finish, Close, RunShape, Holding, Polling
    <3>2. activeIds \cap Source = {} /\ \A s \in Source : srcState[s] # "RUNNING"
      BY <3>1 DEF ViewIsHeld
    <3>3. \A w \in Worker : pc'[w] \notin Holding
      BY <2>3, <3>1 DEF Finish, Close, workerVars, Holding, Polling
    <3>4. activeIds' = {} /\ \A s \in Source : srcState'[s] # "RUNNING"
      <4>1. activeIds = {}
        BY <3>2 DEF TypeOK, LiveTypeOK
      <4> QED
        BY <2>3, <3>2, <4>1 DEF Finish, Close, FinishRun, ForgetRun
    <3> QED
      BY <3>3, <3>4, ViewAtRest
  <2> QED
    BY <1>3, <2>1, <2>2, <2>3 DEF RunStep
<1>4. ASSUME NEW s \in IdleSource, IdleStep(s), ~BeginRun("idle", <<s>>)
      PROVE  ViewIsHeld'
  BY <1>2, <1>4 DEF IdleStep, IdleActivate, IdleEnter, IdlePoll, IdleRelease, liveVars, workerVars
<1>5. CASE Control
  <2>1. UNCHANGED <<activeIds, pc, src>>
    BY <1>5 DEF Control, RequestPause, RequestResume, RequestStop, MoveSourceToFront, RetrySource,
       workerVars
  <2>2. \A q \in Source : srcState'[q] = "RUNNING" <=> srcState[q] = "RUNNING"
    BY <1>0, <1>5 DEF Control, RequestPause, RequestResume, RequestStop, MoveSourceToFront,
       RetrySource
  <2> QED
    BY <2>1, <2>2 DEF ViewIsHeld
<1>6. CASE CancelRun \/ UNCHANGED vars
  BY <1>2, <1>6 DEF CancelRun, vars, liveVars, workerVars
<1>7. CASE BeginBatch
  BY <1>1, <1>7 DEF BeginBatch
<1> QED
  BY <1>1, <1>3, <1>4, <1>5, <1>6, <1>7, WorkerView DEF Next

\* The invariant behind the next two theorems.
LEMMA RunIInv == Spec => [](TypeOK /\ RunShape /\ ViewIsHeld)
<1>1. Init => RunShape /\ ViewIsHeld
  BY DEF Init, LiveInit, RunShape, RunActive, ViewIsHeld, Holding, Polling
<1> QED
  BY <1>1, InitTypeOK, NextTypeOK, RunShapeNext, ViewIsHeldNext, PTL DEF Spec

\* During a run a source shows as running exactly while one worker holds it
\* (PollingLiveService.nextSourceId, markSourceFinished, markSourceStopped).
THEOREM RunningAlwaysHeld == Spec => []RunningIsHeld
<1>1. TypeOK /\ ViewIsHeld => RunningIsHeld
  <2> SUFFICES ASSUME TypeOK, ViewIsHeld PROVE RunningIsHeld
    OBVIOUS
  <2>0. activeIds \subseteq Source /\ \A w \in Worker : pc[w] \in Holding => src[w] \in Source
    BY DEF TypeOK, LiveTypeOK
  <2>1. activeIds = {s \in Source : srcState[s] = "RUNNING"}
    BY <2>0 DEF ViewIsHeld
  <2>2. activeIds = {src[w] : w \in {v \in Worker : pc[v] \in Holding}}
    BY <2>0 DEF ViewIsHeld
  <2> QED
    BY <2>1, <2>2 DEF ViewIsHeld, RunningIsHeld
<1> QED
  BY <1>1, RunIInv, PTL

\* Whatever is paused, stopped, moved or retried, a run that is over leaves no
\* source running (PollingLiveService.finishRun).
THEOREM FinishedRunsAlwaysSettled == Spec => []FinishedRunsAreSettled
<1>1. TypeOK /\ RunShape /\ ViewIsHeld => FinishedRunsAreSettled
  <2> SUFFICES ASSUME TypeOK, RunShape, ViewIsHeld, ~RunActive, NEW s \in Source
               PROVE  srcState[s] # "RUNNING"
    BY DEF FinishedRunsAreSettled
  <2>1. \A w \in Worker : pc[w] \notin Holding
    BY DEF RunShape, TypeOK, Holding, Polling
  <2> QED
    BY <2>1 DEF ViewIsHeld
<1> QED
  BY <1>1, RunIInv, PTL
=============================================================================
