-------------------------------- MODULE Task --------------------------------
(***************************************************************************)
(* Tasks of runtime/src/async.c: dispatched to a pool of worker threads,   *)
(* polled, suspended on what they await, woken, cancelled, finished, and   *)
(* released to the garbage collector.                                      *)
(*                                                                         *)
(* Each task awaits, one after the other, sets of sources: a plain await   *)
(* is a set with one member, a select a larger one.  A source is an        *)
(* operation, which completes once, or another task.  Wait nodes are       *)
(* counted, because a select leaves nodes of the arms that did not fire    *)
(* behind, and such a node can schedule the task much later.               *)
(***************************************************************************)
EXTENDS Naturals, Sequences, FiniteSets

CONSTANTS Tasks, Ops, Workers,
          Awaits,              \* the sources each task awaits, in order
          Cancellable,         \* tasks somebody may cancel, once each
          MaxAttachFailures    \* how often a worker fails to attach to the GC

Sources == Ops \cup Tasks

ASSUME TaskAssumption ==
    /\ Tasks # {} /\ Tasks \cap Ops = {}
    /\ Awaits \in [Tasks -> Seq(SUBSET Sources)]
    /\ Cancellable \subseteq Tasks
    /\ MaxAttachFailures \in Nat

VARIABLES
    tstate, scheduled, rc, pinned,     \* struct CielTask; pinned: self_root
    fstate, cancel_requested, pending, \* struct CielFuture; "erred": failed, not cancelled
    step,                              \* how many awaits its frame has passed
    completed,                         \* operations that completed
    waiters,                           \* nodes per source and task
    wakes,                             \* nodes taken but not yet scheduled
    dispatched,                        \* ciel_task_run jobs in the queue
    wpc, wtask, wtodo, wresched,       \* each worker inside ciel_task_run
    canceller, ctodo,                  \* each call of ciel_task_cancel
    attachFailures

taskVars == <<tstate, scheduled, rc, pinned>>
futureVars == <<fstate, cancel_requested, pending, step>>
wakeVars == <<completed, waiters, wakes>>
workerVars == <<wpc, wtask, wtodo, wresched>>
cancelVars == <<canceller, ctodo>>
vars == <<taskVars, futureVars, wakeVars, dispatched, workerVars, cancelVars,
          attachFailures>>

\* ciel_task_spawn of every task.
Init ==
    /\ tstate = [t \in Tasks |-> "active"]
    /\ scheduled = [t \in Tasks |-> TRUE]
    /\ rc = [t \in Tasks |-> "none"]
    /\ pinned = [t \in Tasks |-> TRUE]
    /\ fstate = [t \in Tasks |-> "pending"]
    /\ cancel_requested = [t \in Tasks |-> FALSE]
    /\ pending = [t \in Tasks |-> {}]
    /\ step = [t \in Tasks |-> 1]
    /\ completed = {}
    /\ waiters = [s \in Sources |-> [t \in Tasks |-> 0]]
    /\ wakes = [t \in Tasks |-> 0]
    /\ dispatched = [t \in Tasks |-> 1]
    /\ wpc = [w \in Workers |-> "idle"]
    /\ wtask = [w \in Workers |-> CHOOSE t \in Tasks : TRUE]
    /\ wtodo = [w \in Workers |-> {}]
    /\ wresched = [w \in Workers |-> FALSE]
    /\ canceller = [t \in Cancellable |-> "none"]
    /\ ctodo = [t \in Cancellable |-> {}]
    /\ attachFailures = 0

Ready(s) == s \in completed \/ (s \in Tasks /\ tstate[s] = "finished")
Settled(t) == fstate[t] \in {"complete", "failed", "erred"}
Goto(w, l) == wpc' = [wpc EXCEPT ![w] = l]
-----------------------------------------------------------------------------
(* Waking.                                                                 *)

\* Mutant: a task that is scheduled already is dispatched once more.
ScheduleAlways(t) ==
    IF tstate[t] = "active"
    THEN /\ scheduled' = [scheduled EXCEPT ![t] = TRUE]
         /\ dispatched' = [dispatched EXCEPT ![t] = @ + 1]
    ELSE UNCHANGED <<scheduled, dispatched>>

\* ciel_task_schedule.
Schedule(t) ==
    IF tstate[t] = "active" /\ ~scheduled[t]
    THEN /\ scheduled' = [scheduled EXCEPT ![t] = TRUE]
         /\ dispatched' = [dispatched EXCEPT ![t] = @ + 1]
    ELSE UNCHANGED <<scheduled, dispatched>>

\* The nodes of a source are taken, to be scheduled one by one.
TakeWaiters(s) ==
    /\ wakes' = [t \in Tasks |-> wakes[t] + waiters[s][t]]
    /\ waiters' = [waiters EXCEPT ![s] = [t \in Tasks |-> 0]]

\* ciel_task_dispatch_waiters.
Wake(t) ==
    /\ wakes[t] > 0
    /\ wakes' = [wakes EXCEPT ![t] = @ - 1]
    /\ Schedule(t)
    /\ UNCHANGED <<tstate, rc, pinned, futureVars, completed, waiters,
                   workerVars, cancelVars, attachFailures>>

\* ciel_async_complete of an operation.
Complete(s) ==
    /\ s \notin completed
    /\ completed' = completed \cup {s}
    /\ TakeWaiters(s)
    /\ UNCHANGED <<taskVars, futureVars, dispatched, workerVars, cancelVars,
                   attachFailures>>
-----------------------------------------------------------------------------
(* ciel_task_run on a worker thread.                                       *)

\* The job starts and attaches; a task that is over is not polled any more.
RunStart(w, t) ==
    /\ wpc[w] = "idle" /\ dispatched[t] > 0
    /\ dispatched' = [dispatched EXCEPT ![t] = @ - 1]
    /\ wtask' = [wtask EXCEPT ![w] = t]
    /\ \/ /\ attachFailures < MaxAttachFailures
          /\ attachFailures' = attachFailures + 1
          /\ Goto(w, "attachFailed")
          /\ UNCHANGED scheduled
       \/ /\ tstate[t] = "active"
          /\ Goto(w, "poll")
          /\ UNCHANGED <<scheduled, attachFailures>>
       \/ /\ tstate[t] # "active"
          /\ scheduled' = [scheduled EXCEPT ![t] = FALSE]
          /\ Goto(w, "unpin")
          /\ UNCHANGED attachFailures
    /\ UNCHANGED <<tstate, rc, pinned, futureVars, wakeVars, wtodo, wresched,
                   cancelVars>>

\* ciel_future_poll up to the call of the frame.
PollBegin(w) ==
    LET t == wtask[w] IN
    /\ wpc[w] = "poll"
    /\ \/ /\ fstate[t] = "pending"
          /\ fstate' = [fstate EXCEPT ![t] = "running"]
          /\ Goto(w, "body")
       \/ /\ Settled(t)
          /\ Goto(w, "finish")
          /\ UNCHANGED fstate
       \/ /\ fstate[t] = "running"              \* EALREADY
          /\ Goto(w, "finish")
          /\ UNCHANGED fstate
    /\ UNCHANGED <<taskVars, cancel_requested, pending, step, wakeVars,
                   dispatched, wtask, wtodo, wresched, cancelVars,
                   attachFailures>>

\* emit_async_error_return_from_rc, in a function that returns no Result.
ErrorReturn(w) == Goto(w, "raised") /\ UNCHANGED step

\* The frame passes an await one of whose sources is ready, fails there with the error
\* of the await, binds its future to the sources of an await that has none, or returns.
Body(w) ==
    LET t == wtask[w] IN
    /\ wpc[w] = "body"
    /\ \/ /\ step[t] > Len(Awaits[t])
          /\ Goto(w, "returned")
          /\ UNCHANGED <<step, pending>>
       \/ /\ step[t] <= Len(Awaits[t])
          /\ \E s \in Awaits[t][step[t]] : Ready(s)
          /\ pending' = [pending EXCEPT ![t] = {}]
          /\ \/ step' = [step EXCEPT ![t] = @ + 1] /\ UNCHANGED wpc
             \/ ErrorReturn(w)
       \/ /\ step[t] <= Len(Awaits[t])
          /\ \A s \in Awaits[t][step[t]] : ~Ready(s)
          /\ pending' = [pending EXCEPT ![t] = Awaits[t][step[t]]]
          /\ Goto(w, "again")
          /\ UNCHANGED step
    /\ UNCHANGED <<taskVars, fstate, cancel_requested, wakeVars, dispatched,
                   wtask, wtodo, wresched, cancelVars, attachFailures>>

\* ciel_future_poll after the frame returned.
PollEnd(w) ==
    LET t == wtask[w] IN
    /\ wpc[w] \in {"returned", "raised", "again"}
    /\ \/ /\ cancel_requested[t]
          /\ cancel_requested' = [cancel_requested EXCEPT ![t] = FALSE]
          /\ fstate' = [fstate EXCEPT ![t] = "failed"]
          /\ pending' = [pending EXCEPT ![t] = {}]
          /\ Goto(w, "finish")
       \/ /\ ~cancel_requested[t] /\ wpc[w] = "returned"
          /\ fstate' = [fstate EXCEPT ![t] = "complete"]
          /\ pending' = [pending EXCEPT ![t] = {}]
          /\ Goto(w, "finish")
          /\ UNCHANGED cancel_requested
       \/ /\ ~cancel_requested[t] /\ wpc[w] = "raised"     \* with ECANCELED, or another code
          /\ \E f \in {"failed", "erred"} : fstate' = [fstate EXCEPT ![t] = f]
          /\ pending' = [pending EXCEPT ![t] = {}]
          /\ Goto(w, "finish")
          /\ UNCHANGED cancel_requested
       \/ /\ ~cancel_requested[t] /\ wpc[w] = "again"
          /\ fstate' = [fstate EXCEPT ![t] = "pending"]
          /\ Goto(w, "suspend")
          /\ UNCHANGED <<cancel_requested, pending>>
    /\ UNCHANGED <<taskVars, step, wakeVars, dispatched, wtask, wtodo,
                   wresched, cancelVars, attachFailures>>

\* EAGAIN, under task->mutex: from here on another worker may run the task.
Suspend(w) ==
    LET t == wtask[w] IN
    /\ wpc[w] = "suspend"
    /\ scheduled' = [scheduled EXCEPT ![t] = FALSE]
    /\ Goto(w, IF tstate[t] = "active" THEN "snapshot" ELSE "unpin")
    /\ UNCHANGED <<tstate, rc, pinned, futureVars, wakeVars, dispatched, wtask,
                   wtodo, wresched, cancelVars, attachFailures>>

\* ciel_task_register_future_pending_source reads the future; nothing to wait
\* for means that the task must run again.
Snapshot(w) ==
    LET t == wtask[w] IN
    /\ wpc[w] = "snapshot"
    /\ wtodo' = [wtodo EXCEPT ![w] = IF Settled(t) THEN {} ELSE pending[t]]
    /\ wresched' = [wresched EXCEPT ![w] = Settled(t) \/ pending[t] = {}]
    /\ Goto(w, "register")
    /\ UNCHANGED <<taskVars, futureVars, wakeVars, dispatched, wtask,
                   cancelVars, attachFailures>>

\* Mutant: the node is pushed without asking again whether the source is ready.
RegisterUnchecked(w, s) ==
    /\ wpc[w] = "register" /\ s \in wtodo[w]
    /\ wtodo' = [wtodo EXCEPT ![w] = @ \ {s}]
    /\ waiters' = [waiters EXCEPT ![s][wtask[w]] = @ + 1]
    /\ UNCHANGED <<taskVars, futureVars, completed, wakes, dispatched, wpc,
                   wtask, wresched, cancelVars, attachFailures>>

\* ... and registers with each source, under the lock of that source.
Register(w, s) ==
    LET t == wtask[w] IN
    /\ wpc[w] = "register" /\ s \in wtodo[w]
    /\ wtodo' = [wtodo EXCEPT ![w] = @ \ {s}]
    /\ \/ /\ Ready(s)
          /\ wresched' = [wresched EXCEPT ![w] = TRUE]
          /\ UNCHANGED waiters
       \/ /\ ~Ready(s)
          /\ waiters' = [waiters EXCEPT ![s][t] = @ + 1]
          /\ UNCHANGED wresched
    /\ UNCHANGED <<taskVars, futureVars, completed, wakes, dispatched, wpc,
                   wtask, cancelVars, attachFailures>>

\* The task is scheduled again when a source was ready.
Registered(w) ==
    LET t == wtask[w] IN
    /\ wpc[w] = "register" /\ wtodo[w] = {}
    /\ \/ wresched[w] /\ Schedule(t)
       \/ ~wresched[w] /\ UNCHANGED <<scheduled, dispatched>>
    /\ Goto(w, "unpin")
    /\ UNCHANGED <<tstate, rc, pinned, futureVars, wakeVars, wtask, wtodo,
                   wresched, cancelVars, attachFailures>>

\* The code that a settled future gives; a running one gives EALREADY.
FutureResult(t) ==
    CASE fstate[t] = "complete" -> "ok"
      [] fstate[t] = "failed" -> "cancelled"
      [] fstate[t] = "erred" -> "error"
      [] OTHER -> "already"

\* What ciel_task_run hands to ciel_task_finish.
PollResult(w) == IF wpc[w] = "attachFailed" THEN "attach" ELSE FutureResult(wtask[w])

\* ciel_task_finish: only the first caller passes the state test.
FinishBegin(w) ==
    LET t == wtask[w] IN
    /\ wpc[w] \in {"finish", "attachFailed"}
    /\ \/ /\ tstate[t] = "active"
          /\ tstate' = [tstate EXCEPT ![t] = "cleaning"]
          /\ rc' = [rc EXCEPT ![t] = PollResult(w)]
          /\ Goto(w, "publish")
       \/ /\ tstate[t] # "active"
          /\ Goto(w, "unschedule")
          /\ UNCHANGED <<tstate, rc>>
    /\ UNCHANGED <<scheduled, pinned, futureVars, wakeVars, dispatched, wtask,
                   wtodo, wresched, cancelVars, attachFailures>>

\* The second critical section of ciel_task_finish, after the owner is closed.
Publish(t) ==
    /\ tstate' = [tstate EXCEPT ![t] = "finished"]
    /\ pinned' = [pinned EXCEPT ![t] = @ /\ scheduled[t]]
    /\ TakeWaiters(t)
    /\ UNCHANGED <<scheduled, rc, futureVars, completed, dispatched, wtask,
                   wtodo, wresched, ctodo, attachFailures>>

FinishEnd(w) ==
    /\ wpc[w] = "publish"
    /\ Publish(wtask[w])
    /\ Goto(w, "unschedule")
    /\ UNCHANGED canceller

Unschedule(w) ==
    /\ wpc[w] = "unschedule"
    /\ scheduled' = [scheduled EXCEPT ![wtask[w]] = FALSE]
    /\ Goto(w, "unpin")
    /\ UNCHANGED <<tstate, rc, pinned, futureVars, wakeVars, dispatched, wtask,
                   wtodo, wresched, cancelVars, attachFailures>>

\* ciel_task_unpin_if_finished.
UnpinIfFinished(w) ==
    LET t == wtask[w] IN
    /\ wpc[w] = "unpin"
    /\ pinned' = [pinned EXCEPT ![t] =
                    @ /\ ~(tstate[t] = "finished" /\ ~scheduled[t])]
    /\ Goto(w, "idle")
    /\ UNCHANGED <<tstate, scheduled, rc, futureVars, wakeVars, dispatched,
                   wtask, wtodo, wresched, cancelVars, attachFailures>>
-----------------------------------------------------------------------------
(* ciel_task_cancel.                                                       *)

CancelAt(t, l) == canceller' = [canceller EXCEPT ![t] = l]

\* ciel_future_cancel, under future->mutex.
CancelFuture(t) ==
    /\ canceller[t] = "none"
    /\ CancelAt(t, "sources")
    /\ \/ /\ Settled(t)
          /\ UNCHANGED <<futureVars, ctodo>>
       \/ /\ fstate[t] = "running"
          /\ cancel_requested' = [cancel_requested EXCEPT ![t] = TRUE]
          /\ UNCHANGED <<fstate, pending, step, ctodo>>
       \/ /\ fstate[t] = "pending"
          /\ fstate' = [fstate EXCEPT ![t] = "failed"]
          /\ ctodo' = [ctodo EXCEPT ![t] = pending[t] \cap Ops]
          /\ pending' = [pending EXCEPT ![t] = {}]
          /\ UNCHANGED <<cancel_requested, step>>
    /\ UNCHANGED <<taskVars, wakeVars, dispatched, workerVars, attachFailures>>

\* ciel_async_cancel of an operation the future was waiting for; a task that
\* was awaited is left alone.
CancelOp(t, s) ==
    /\ canceller[t] = "sources" /\ s \in ctodo[t]
    /\ ctodo' = [ctodo EXCEPT ![t] = @ \ {s}]
    /\ completed' = completed \cup {s}
    /\ TakeWaiters(s)
    /\ UNCHANGED <<taskVars, futureVars, dispatched, workerVars, canceller,
                   attachFailures>>

\* Mutant: the canceller finishes a task whose poll is still running.
CancelInspectAlways(t) ==
    /\ canceller[t] = "sources" /\ ctodo[t] = {}
    /\ CancelAt(t, "finish")
    /\ UNCHANGED <<taskVars, futureVars, wakeVars, dispatched, workerVars,
                   ctodo, attachFailures>>

\* The state of the future decides whether the canceller finishes the task.
CancelInspect(t) ==
    /\ canceller[t] = "sources" /\ ctodo[t] = {}
    /\ CancelAt(t, IF fstate[t] = "running" THEN "done" ELSE "finish")
    /\ UNCHANGED <<taskVars, futureVars, wakeVars, dispatched, workerVars,
                   ctodo, attachFailures>>

CancelFinishBegin(t) ==
    /\ canceller[t] = "finish"
    /\ \/ /\ tstate[t] = "active"
          /\ tstate' = [tstate EXCEPT ![t] = "cleaning"]
          /\ rc' = [rc EXCEPT ![t] =
                      IF Settled(t) THEN FutureResult(t) ELSE "cancelled"]
          /\ CancelAt(t, "publish")
       \/ /\ tstate[t] # "active"
          /\ CancelAt(t, "done")
          /\ UNCHANGED <<tstate, rc>>
    /\ UNCHANGED <<scheduled, pinned, futureVars, wakeVars, dispatched,
                   workerVars, ctodo, attachFailures>>

CancelFinishEnd(t) ==
    /\ canceller[t] = "publish"
    /\ Publish(t)
    /\ CancelAt(t, "done")
    /\ UNCHANGED wpc
-----------------------------------------------------------------------------
Work(w) ==
    \/ PollBegin(w) \/ Body(w) \/ PollEnd(w) \/ Suspend(w) \/ Snapshot(w)
    \/ \E s \in Sources : Register(w, s)
    \/ Registered(w) \/ FinishBegin(w) \/ FinishEnd(w) \/ Unschedule(w)
    \/ UnpinIfFinished(w)

Cancelling(t) ==
    \/ \E s \in Ops : CancelOp(t, s)
    \/ CancelInspect(t) \/ CancelFinishBegin(t) \/ CancelFinishEnd(t)

Next ==
    \/ \E w \in Workers : Work(w) \/ \E t \in Tasks : RunStart(w, t)
    \/ \E t \in Tasks : Wake(t)
    \/ \E t \in Cancellable : CancelFuture(t) \/ Cancelling(t)
    \/ \E s \in Ops : Complete(s)

\* The pool runs what is dispatched, threads get the processor, and operations
\* complete in the end; nobody has to cancel.
Fairness ==
    /\ \A w \in Workers : WF_vars(Work(w))
    /\ \A t \in Tasks : WF_vars(\E w \in Workers : RunStart(w, t)) /\ WF_vars(Wake(t))
    /\ \A t \in Cancellable : WF_vars(Cancelling(t))
    /\ \A s \in Ops : WF_vars(Complete(s))

Spec == Init /\ [][Next]_vars /\ Fairness
-----------------------------------------------------------------------------
(* Properties.                                                             *)

WorkerStates == {"idle", "poll", "body", "returned", "raised", "again", "suspend",
                 "snapshot", "register", "finish", "attachFailed", "publish",
                 "unschedule", "unpin"}

\* The variables have their types (the structs of async.c).
TypeOK ==
    /\ tstate \in [Tasks -> {"active", "cleaning", "finished"}]
    /\ scheduled \in [Tasks -> BOOLEAN] /\ pinned \in [Tasks -> BOOLEAN]
    /\ rc \in [Tasks -> {"none", "ok", "cancelled", "error", "attach"}]
    /\ fstate \in [Tasks -> {"pending", "running", "complete", "failed", "erred"}]
    /\ cancel_requested \in [Tasks -> BOOLEAN]
    /\ pending \in [Tasks -> SUBSET Sources]
    /\ step \in [Tasks -> Nat]
    /\ completed \subseteq Ops
    /\ waiters \in [Sources -> [Tasks -> Nat]]
    /\ wakes \in [Tasks -> Nat] /\ dispatched \in [Tasks -> Nat]
    /\ wpc \in [Workers -> WorkerStates] /\ wtask \in [Workers -> Tasks]
    /\ wtodo \in [Workers -> SUBSET Sources] /\ wresched \in [Workers -> BOOLEAN]
    /\ canceller \in [Cancellable -> {"none", "sources", "finish", "publish", "done"}]
    /\ ctodo \in [Cancellable -> SUBSET Ops]
    /\ attachFailures \in Nat

\* Inside the part of ciel_task_run that the flag task->scheduled protects.
Owning == {"poll", "body", "returned", "raised", "again", "suspend", "finish",
           "attachFailed", "publish", "unschedule"}
Owns(w, t) == wpc[w] \in Owning /\ wtask[w] = t

\* "The runtime never resumes two continuations of the same task concurrently"
\* (design.md:2748): however late a wait node of a lost select arm or of an
\* earlier await fires, one worker at a time polls a task, and no job is queued
\* beside it.
OneContinuation ==
    \A t \in Tasks :
        /\ dispatched[t] <= 1
        /\ \A v, w \in Workers : Owns(v, t) /\ Owns(w, t) => v = w
        /\ \A w \in Workers : Owns(w, t) => dispatched[t] = 0

\* A job in the dispatch queue holds a plain pointer, so the task stays rooted
\* until the job has run, whoever finished the task in the meantime.
PinnedWhileDispatched == \A t \in Tasks : dispatched[t] > 0 => pinned[t]

\* A finished task has an outcome that its future agrees with: what a waiter of
\* the task reads from the future is what is_cancelled says of the task.
OutcomeAgrees ==
    \A t \in Tasks : tstate[t] = "finished" =>
        /\ rc[t] = "ok" => fstate[t] = "complete"
        /\ rc[t] = "cancelled" => fstate[t] = "failed"
        /\ rc[t] = "error" => fstate[t] = "erred"
        /\ rc[t] \in {"ok", "cancelled", "error", "attach"}

\* A task is kept until its last job has run, and ends with the outcome its
\* future has.  Checked together with the type invariant.
TaskKept == TypeOK /\ PinnedWhileDispatched /\ OutcomeAgrees

\* Every task finishes, and a finished task is released to the collector.
TasksFinish == \A t \in Tasks : <>[](tstate[t] = "finished" /\ ~pinned[t])
=============================================================================
