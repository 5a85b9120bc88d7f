---------------------------- MODULE MCLiveViews ----------------------------
(* What a page of the console and the extension's worker show of a run, for  *)
(* TLC: a behaviour is about one of the two, the part.                       *)
EXTENDS ConsoleLive, ExtensionLive

CONSTANTS
    MaxTurns,   \* bound: runs and acts of the user on a page, together
    MaxTroubles \* bound: manual polls and unasked moves in the extension, together

VARIABLE part
all == <<vars, workerVars, part>>

OfPage(A) ==
    part = "page" /\ A /\ runs' + acts' <= MaxTurns /\ UNCHANGED <<workerVars, part>>
OfWorker(A) ==
    part = "worker" /\ A /\ polls' + moves' <= MaxTroubles /\ UNCHANGED <<vars, part>>

\* What the page starts with makes no difference to the worker.
MCInit ==
    /\ Init /\ WorkerInit
    /\ \/ part = "page"
       \/ part = "worker" /\ page = "web" /\ setup /\ login = "valid"
MCNext == OfPage(ServerNext) \/ OfPage(PageNext) \/ OfWorker(WorkerNext)

\* Each part under the fairness of its module.
MCSpec ==
    /\ MCInit /\ [][MCNext]_all
    /\ WF_all(OfPage(Connect)) /\ WF_all(OfPage(Keepalive)) /\ WF_all(OfPage(Deliver))
    /\ WF_all(OfPage(Watchdog))
    /\ WF_all(OfPage(Reconcile)) /\ WF_all(OfPage(Fallback)) /\ WF_all(OfPage(Refresh))
    /\ WF_all(OfPage(ServeChecks))
    /\ WF_all(OfPage(AnswerOf({"reconcile", "fallback"})))
    /\ WF_all(OfPage(AnswerOf({"me"})))
    /\ \A t \in Tasks : WF_all(OfWorker(TaskStep(t)))
    /\ SF_all(OfWorker(\E t \in Tasks : Alarm(t)))
    /\ SF_all(OfWorker(\E t \in Tasks : CheckManualPoll(t)))
    /\ \A c \in Callers : WF_all(OfWorker(CallStep(c)))
    /\ WF_all(OfWorker(RunFinishes))
    /\ WF_all(OfWorker(Reconnect))
=============================================================================
