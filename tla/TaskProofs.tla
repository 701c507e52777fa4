----------------------------- MODULE TaskProofs -----------------------------
(***************************************************************************)
(* Proofs about Task for any tasks, operations and workers, any awaits and *)
(* any cancellations and attach failures.                                  *)
(***************************************************************************)
EXTENDS Task, TLAPS

\* The types that the arguments below need.
SchedTypes ==
    /\ tstate \in [Tasks -> {"active", "cleaning", "finished"}]
    /\ scheduled \in [Tasks -> BOOLEAN]
    /\ pinned \in [Tasks -> BOOLEAN]
    /\ dispatched \in [Tasks -> Nat]
    /\ wpc \in [Workers -> WorkerStates]
    /\ wtask \in [Workers -> Tasks]

\* The flag task->scheduled covers the job in the queue and the worker that runs
\* it up to the point where it clears the flag: at most one of them exists.
FlagCovers ==
    \A t \in Tasks :
        /\ dispatched[t] > 0 => scheduled[t]
        /\ \A w \in Workers : Owns(w, t) => scheduled[t]

\* A task without root is finished and nobody is going to run it.
UnpinnedIsOver ==
    \A t \in Tasks : ~pinned[t] => tstate[t] = "finished" /\ ~scheduled[t]

SchedInv == SchedTypes /\ FlagCovers /\ OneContinuation /\ UnpinnedIsOver

LEMMA SchedInit == Init => SchedInv
<1> SUFFICES ASSUME Init PROVE SchedInv
  OBVIOUS
<1>1. (CHOOSE t \in Tasks : TRUE) \in Tasks
  BY TaskAssumption
<1>2. SchedTypes
  BY <1>1 DEF Init, SchedTypes, WorkerStates
<1>3. \A w \in Workers, t \in Tasks : ~Owns(w, t)
  BY DEF Init, Owns, Owning
<1>4. FlagCovers /\ OneContinuation
  BY <1>3 DEF Init, FlagCovers, OneContinuation
<1>5. UnpinnedIsOver
  BY DEF Init, UnpinnedIsOver
<1> QED
  BY <1>2, <1>4, <1>5 DEF SchedInv

\* A worker that moves on without touching the flag, the queue or the root
\* keeps the invariant as long as it does not start to own a task by that.
LEMMA MoveKeeps ==
    ASSUME SchedInv, NEW w \in Workers, NEW l \in WorkerStates,
           UNCHANGED <<scheduled, pinned, dispatched, wtask>>,
           wpc' = [wpc EXCEPT ![w] = l],
           l \in Owning => wpc[w] \in Owning,
           tstate' \in [Tasks -> {"active", "cleaning", "finished"}],
           \A t \in Tasks : tstate[t] = "finished" => tstate'[t] = "finished"
    PROVE  SchedInv'
<1> USE DEF SchedInv
<1>1. SchedTypes'
  BY DEF SchedTypes
<1>2. \A v \in Workers, t \in Tasks : Owns(v, t)' => Owns(v, t)
  BY DEF SchedTypes, Owns
<1>3. FlagCovers' /\ OneContinuation'
  BY <1>2 DEF FlagCovers, OneContinuation
<1>4. UnpinnedIsOver'
  BY DEF UnpinnedIsOver, SchedTypes
<1> QED
  BY <1>1, <1>3, <1>4

\* Nobody moves; the state of a task may advance.
LEMMA StandStill ==
    ASSUME SchedInv, UNCHANGED <<scheduled, pinned, dispatched, wtask, wpc>>,
           tstate' \in [Tasks -> {"active", "cleaning", "finished"}],
           \A t \in Tasks : tstate[t] = "finished" => tstate'[t] = "finished"
    PROVE  SchedInv'
BY DEF SchedInv, SchedTypes, FlagCovers, OneContinuation, UnpinnedIsOver, Owns

\* ciel_task_schedule, called by whoever owns no task afterwards.
LEMMA ScheduleKeeps ==
    ASSUME SchedInv, NEW t \in Tasks, Schedule(t),
           UNCHANGED <<tstate, pinned, wtask>>,
           wpc' \in [Workers -> WorkerStates],
           \A w \in Workers : wpc'[w] \in Owning => wpc'[w] = wpc[w]
    PROVE  SchedInv'
<1> USE DEF SchedInv
<1>1. SchedTypes'
  <2>1. scheduled' \in [Tasks -> BOOLEAN] /\ dispatched' \in [Tasks -> Nat]
    <3>1. CASE tstate[t] = "active" /\ ~scheduled[t]
      <4>1. /\ scheduled' = [scheduled EXCEPT ![t] = TRUE]
            /\ dispatched' = [dispatched EXCEPT ![t] = @ + 1]
        BY <3>1 DEF Schedule
      <4> QED
        BY <4>1 DEF SchedTypes
    <3>2. CASE ~(tstate[t] = "active" /\ ~scheduled[t])
      BY <3>2 DEF SchedTypes, Schedule
    <3> QED
      BY <3>1, <3>2
  <2> QED
    BY <2>1 DEF SchedTypes
<1>2. \A v \in Workers, u \in Tasks : Owns(v, u)' => Owns(v, u)
  BY DEF SchedTypes, Owns
<1>3. CASE tstate[t] = "active" /\ ~scheduled[t]
  <2>1. /\ scheduled' = [scheduled EXCEPT ![t] = TRUE]
        /\ dispatched' = [dispatched EXCEPT ![t] = @ + 1]
    BY <1>3 DEF Schedule
  <2>2. dispatched[t] = 0 /\ \A w \in Workers : ~Owns(w, t)
    BY <1>3 DEF FlagCovers, SchedTypes
  <2>3. pinned[t]
    BY <1>3 DEF UnpinnedIsOver
  <2>4. FlagCovers'
    BY <1>2, <2>1 DEF FlagCovers, SchedTypes
  <2>5. OneContinuation'
    BY <1>2, <2>1, <2>2 DEF OneContinuation, SchedTypes
  <2>6. UnpinnedIsOver'
    BY <2>1, <2>3 DEF UnpinnedIsOver, SchedTypes
  <2> QED
    BY <1>1, <2>4, <2>5, <2>6
<1>4. CASE ~(tstate[t] = "active" /\ ~scheduled[t])
  <2>1. UNCHANGED <<scheduled, dispatched>>
    BY <1>4 DEF Schedule
  <2>2. FlagCovers' /\ OneContinuation' /\ UnpinnedIsOver'
    BY <1>2, <2>1 DEF FlagCovers, OneContinuation, UnpinnedIsOver
  <2> QED
    BY <1>1, <2>2
<1> QED
  BY <1>3, <1>4

\* The owner of a task clears the flag and gives the task up.
LEMMA GiveUpKeeps ==
    ASSUME SchedInv, NEW w \in Workers, NEW l \in WorkerStates \ Owning,
           wpc[w] \in Owning,
           scheduled' = [scheduled EXCEPT ![wtask[w]] = FALSE],
           wpc' = [wpc EXCEPT ![w] = l],
           UNCHANGED <<tstate, pinned, dispatched, wtask>>
    PROVE  SchedInv'
<1> USE DEF SchedInv
<1>1. SchedTypes' /\ wtask[w] \in Tasks
  BY DEF SchedTypes
<1>2. Owns(w, wtask[w])
  BY DEF Owns
<1>3. dispatched[wtask[w]] = 0 /\ \A v \in Workers : Owns(v, wtask[w]) => v = w
  BY <1>1, <1>2 DEF OneContinuation
<1>4. \A v \in Workers, u \in Tasks : Owns(v, u)' => Owns(v, u) /\ v # w
  BY DEF SchedTypes, Owns
<1>5. FlagCovers'
  BY <1>1, <1>3, <1>4 DEF FlagCovers, SchedTypes
<1>6. OneContinuation'
  BY <1>4 DEF OneContinuation
<1>7. UnpinnedIsOver'
  BY DEF UnpinnedIsOver, SchedTypes
<1> QED
  BY <1>1, <1>5, <1>6, <1>7

\* The second critical section of ciel_task_finish drops the root only of a task
\* that is not scheduled.
LEMMA PublishKeeps ==
    ASSUME SchedInv, NEW t \in Tasks, Publish(t),
           wpc' \in [Workers -> WorkerStates],
           \A w \in Workers : wpc'[w] \in Owning => wpc[w] \in Owning
    PROVE  SchedInv'
<1> USE DEF SchedInv
<1>1. /\ tstate' = [tstate EXCEPT ![t] = "finished"]
      /\ pinned' = [pinned EXCEPT ![t] = pinned[t] /\ scheduled[t]]
      /\ UNCHANGED <<scheduled, dispatched, wtask>>
  BY DEF Publish
<1>2. SchedTypes'
  BY <1>1 DEF SchedTypes
<1>3. \A v \in Workers, u \in Tasks : Owns(v, u)' => Owns(v, u)
  BY <1>1 DEF Owns
<1>4. FlagCovers' /\ OneContinuation'
  BY <1>1, <1>3 DEF FlagCovers, OneContinuation
<1>5. UnpinnedIsOver'
  BY <1>1 DEF UnpinnedIsOver, SchedTypes
<1> QED
  BY <1>2, <1>4, <1>5

\* A job leaves the queue, and its worker becomes the only owner of the task.
LEMMA RunStartKeeps ==
    ASSUME SchedInv, NEW w \in Workers, NEW t \in Tasks, RunStart(w, t)
    PROVE  SchedInv'
<1> USE DEF SchedInv
<1>1. /\ wpc[w] = "idle" /\ dispatched[t] > 0
      /\ dispatched' = [dispatched EXCEPT ![t] = @ - 1]
      /\ wtask' = [wtask EXCEPT ![w] = t]
      /\ UNCHANGED <<tstate, pinned>>
  BY DEF RunStart
<1>2. /\ dispatched[t] = 1 /\ scheduled[t]
      /\ \A v \in Workers : ~Owns(v, t)
  BY <1>1 DEF FlagCovers, OneContinuation, SchedTypes
<1>3. dispatched' \in [Tasks -> Nat] /\ dispatched'[t] = 0
  BY <1>1, <1>2 DEF SchedTypes
<1>4. CASE UNCHANGED scheduled
  <2>1. PICK l \in {"attachFailed", "poll", "unpin"} : wpc' = [wpc EXCEPT ![w] = l]
    BY DEF RunStart, Goto
  <2>2. SchedTypes'
    BY <1>1, <1>3, <1>4, <2>1 DEF SchedTypes, WorkerStates
  <2>3. \A v \in Workers, u \in Tasks :
            Owns(v, u)' => (v = w /\ u = t) \/ (v # w /\ Owns(v, u))
    BY <1>1, <2>1 DEF SchedTypes, Owns
  <2>4. FlagCovers'
    BY <1>1, <1>2, <1>3, <1>4, <2>3 DEF FlagCovers, SchedTypes
  <2>5. OneContinuation'
    BY <1>1, <1>2, <1>3, <2>3 DEF OneContinuation, SchedTypes
  <2>6. UnpinnedIsOver'
    BY <1>1, <1>4 DEF UnpinnedIsOver
  <2> QED
    BY <2>2, <2>4, <2>5, <2>6
<1>5. CASE /\ scheduled' = [scheduled EXCEPT ![t] = FALSE]
           /\ Goto(w, "unpin")
  <2>1. SchedTypes'
    BY <1>1, <1>3, <1>5 DEF SchedTypes, WorkerStates, Goto
  <2>2. \A v \in Workers, u \in Tasks : Owns(v, u)' => Owns(v, u)
    BY <1>1, <1>5 DEF SchedTypes, Owns, Owning, Goto
  <2>3. FlagCovers'
    BY <1>1, <1>2, <1>3, <1>5, <2>2 DEF FlagCovers, SchedTypes
  <2>4. OneContinuation'
    BY <1>1, <1>2, <1>3, <2>2 DEF OneContinuation, SchedTypes
  <2>5. UnpinnedIsOver'
    BY <1>1, <1>5 DEF UnpinnedIsOver, SchedTypes
  <2> QED
    BY <2>1, <2>3, <2>4, <2>5
<1> QED
  BY <1>4, <1>5 DEF RunStart

LEMMA WorkKeeps ==
    ASSUME SchedInv, NEW w \in Workers, Work(w)
    PROVE  SchedInv'
<1>0. SchedTypes /\ wtask[w] \in Tasks
  BY DEF SchedInv, SchedTypes
<1>1. CASE PollBegin(w)
  <2>1. PICK l \in {"body", "finish"} : wpc' = [wpc EXCEPT ![w] = l]
    BY <1>1 DEF PollBegin, Goto
  <2>2. wpc[w] = "poll" /\ UNCHANGED <<tstate, scheduled, pinned, dispatched, wtask>>
    BY <1>1 DEF PollBegin, taskVars
  <2> QED
    BY <1>0, <2>1, <2>2, MoveKeeps, Zenon DEF SchedTypes, WorkerStates, Owning
<1>2. CASE Body(w)
  <2>1. wpc[w] = "body" /\ UNCHANGED <<tstate, scheduled, pinned, dispatched, wtask>>
    BY <1>2 DEF Body, ErrorReturn, taskVars
  <2>2. CASE UNCHANGED wpc
    BY <1>0, <2>1, <2>2, StandStill DEF SchedTypes
  <2>3. CASE \E l \in {"returned", "raised", "again"} : wpc' = [wpc EXCEPT ![w] = l]
    BY <1>0, <2>1, <2>3, MoveKeeps, Zenon DEF SchedTypes, WorkerStates, Owning
  <2> QED
    BY <1>2, <2>2, <2>3 DEF Body, ErrorReturn, Goto
<1>3. CASE PollEnd(w)
  <2>1. PICK l \in {"finish", "suspend"} : wpc' = [wpc EXCEPT ![w] = l]
    BY <1>3 DEF PollEnd, Goto
  <2>2. /\ wpc[w] \in {"returned", "raised", "again"}
        /\ UNCHANGED <<tstate, scheduled, pinned, dispatched, wtask>>
    BY <1>3 DEF PollEnd, taskVars
  <2> QED
    BY <1>0, <2>1, <2>2, MoveKeeps, Zenon DEF SchedTypes, WorkerStates, Owning
<1>4. CASE Suspend(w)
  <2>1. PICK l \in {"snapshot", "unpin"} : wpc' = [wpc EXCEPT ![w] = l]
    BY <1>4, Zenon DEF Suspend, Goto
  <2>2. l \in WorkerStates \ Owning /\ wpc[w] \in Owning
    BY <1>4 DEF Suspend, WorkerStates, Owning
  <2> QED
    BY <1>4, <2>1, <2>2, GiveUpKeeps, Zenon DEF Suspend
<1>5. CASE Snapshot(w)
  BY <1>0, <1>5, MoveKeeps, Zenon DEF Snapshot, Goto, taskVars, SchedTypes, WorkerStates, Owning
<1>6. CASE \E s \in Sources : Register(w, s)
  <2>1. UNCHANGED <<tstate, scheduled, pinned, dispatched, wtask, wpc>>
    BY <1>6 DEF Register, taskVars
  <2> QED
    BY <1>0, <2>1, StandStill DEF SchedTypes
<1>7. CASE Registered(w)
  <2>1. /\ UNCHANGED <<tstate, pinned, wtask>>
        /\ wpc' = [wpc EXCEPT ![w] = "unpin"]
    BY <1>7 DEF Registered, Goto
  <2>2. /\ wpc' \in [Workers -> WorkerStates]
        /\ \A v \in Workers : wpc'[v] \in Owning => wpc'[v] = wpc[v]
    BY <1>0, <2>1 DEF SchedTypes, WorkerStates, Owning
  <2>3. CASE Schedule(wtask[w])
    BY <1>0, <2>1, <2>2, <2>3, ScheduleKeeps
  <2>4. CASE UNCHANGED <<scheduled, dispatched>>
    BY <1>0, <2>1, <2>4, MoveKeeps, Zenon DEF SchedTypes, WorkerStates, Owning
  <2> QED
    BY <1>7, <2>3, <2>4 DEF Registered
<1>8. CASE FinishBegin(w)
  <2>1. PICK l \in {"publish", "unschedule"} : wpc' = [wpc EXCEPT ![w] = l]
    BY <1>8 DEF FinishBegin, Goto
  <2>2. /\ wpc[w] \in {"finish", "attachFailed"}
        /\ UNCHANGED <<scheduled, pinned, dispatched, wtask>>
    BY <1>8 DEF FinishBegin
  <2>3. \/ UNCHANGED tstate
        \/ /\ tstate[wtask[w]] = "active"
           /\ tstate' = [tstate EXCEPT ![wtask[w]] = "cleaning"]
    BY <1>8 DEF FinishBegin
  <2>4. /\ tstate' \in [Tasks -> {"active", "cleaning", "finished"}]
        /\ \A t \in Tasks : tstate[t] = "finished" => tstate'[t] = "finished"
    BY <1>0, <2>3 DEF SchedTypes
  <2> QED
    BY <2>1, <2>2, <2>4, MoveKeeps, Zenon DEF WorkerStates, Owning
<1>9. CASE FinishEnd(w)
  <2>1. Publish(wtask[w]) /\ wpc[w] = "publish" /\ wpc' = [wpc EXCEPT ![w] = "unschedule"]
    BY <1>9 DEF FinishEnd, Goto
  <2>2. /\ wpc' \in [Workers -> WorkerStates]
        /\ \A v \in Workers : wpc'[v] \in Owning => wpc[v] \in Owning
    BY <1>0, <2>1 DEF SchedTypes, WorkerStates, Owning
  <2> QED
    BY <1>0, <2>1, <2>2, PublishKeeps
<1>10. CASE Unschedule(w)
  <2>1. "unpin" \in WorkerStates \ Owning /\ wpc[w] \in Owning
    BY <1>10 DEF Unschedule, WorkerStates, Owning
  <2> QED
    BY <1>10, <2>1, GiveUpKeeps, Zenon DEF Unschedule, Goto
<1>11. CASE UnpinIfFinished(w)
  <2> DEFINE t == wtask[w]
  <2>1. /\ pinned' = [pinned EXCEPT ![t] =
                        pinned[t] /\ ~(tstate[t] = "finished" /\ ~scheduled[t])]
        /\ wpc' = [wpc EXCEPT ![w] = "idle"]
        /\ UNCHANGED <<tstate, scheduled, dispatched, wtask>>
    BY <1>11 DEF UnpinIfFinished, Goto
  <2>2. SchedTypes'
    BY <1>0, <2>1 DEF SchedTypes, WorkerStates
  <2>3. \A v \in Workers, u \in Tasks : Owns(v, u)' => Owns(v, u)
    BY <1>0, <2>1 DEF SchedTypes, Owns, Owning
  <2>4. FlagCovers' /\ OneContinuation'
    BY <2>1, <2>3 DEF SchedInv, FlagCovers, OneContinuation
  <2>5. UnpinnedIsOver'
    BY <1>0, <2>1 DEF SchedInv, UnpinnedIsOver, SchedTypes
  <2> QED
    BY <2>2, <2>4, <2>5 DEF SchedInv
<1> QED
  BY <1>1, <1>2, <1>3, <1>4, <1>5, <1>6, <1>7, <1>8, <1>9, <1>10, <1>11 DEF Work

\* Steps of the callers of ciel_task_cancel.
LEMMA CancelKeeps ==
    ASSUME SchedInv, NEW t \in Cancellable, CancelFuture(t) \/ Cancelling(t)
    PROVE  SchedInv'
<1>0. SchedTypes /\ t \in Tasks
  BY TaskAssumption DEF SchedInv
<1>1. CASE CancelFuture(t)
  <2>1. UNCHANGED <<tstate, scheduled, pinned, dispatched, wtask, wpc>>
    BY <1>1 DEF CancelFuture, taskVars, workerVars
  <2> QED
    BY <1>0, <2>1, StandStill DEF SchedTypes
<1>2. CASE (\E s \in Ops : CancelOp(t, s)) \/ CancelInspect(t)
  <2>1. UNCHANGED <<tstate, scheduled, pinned, dispatched, wtask, wpc>>
    BY <1>2 DEF CancelOp, CancelInspect, taskVars, workerVars
  <2> QED
    BY <1>0, <2>1, StandStill DEF SchedTypes
<1>3. CASE CancelFinishBegin(t)
  <2>1. UNCHANGED <<scheduled, pinned, dispatched, wtask, wpc>>
    BY <1>3 DEF CancelFinishBegin, workerVars
  <2>2. \/ UNCHANGED tstate
        \/ /\ tstate[t] = "active"
           /\ tstate' = [tstate EXCEPT ![t] = "cleaning"]
    BY <1>3 DEF CancelFinishBegin
  <2>3. /\ tstate' \in [Tasks -> {"active", "cleaning", "finished"}]
        /\ \A u \in Tasks : tstate[u] = "finished" => tstate'[u] = "finished"
    BY <1>0, <2>2 DEF SchedTypes
  <2> QED
    BY <2>1, <2>3, StandStill, Zenon
<1>4. CASE CancelFinishEnd(t)
  <2>1. Publish(t) /\ UNCHANGED wpc
    BY <1>4 DEF CancelFinishEnd
  <2> QED
    BY <1>0, <2>1, PublishKeeps DEF SchedTypes
<1> QED
  BY <1>1, <1>2, <1>3, <1>4 DEF Cancelling

LEMMA SchedStep ==
    ASSUME SchedInv, [Next]_vars
    PROVE  SchedInv'
<1>0. SchedTypes
  BY DEF SchedInv
<1>1. CASE \E w \in Workers : Work(w)
  BY <1>1, WorkKeeps
<1>2. CASE \E w \in Workers, t \in Tasks : RunStart(w, t)
  BY <1>2, RunStartKeeps
<1>3. ASSUME NEW t \in Tasks, Wake(t) PROVE SchedInv'
  <2>1. Schedule(t) /\ UNCHANGED <<tstate, pinned, wtask, wpc>>
    BY <1>3 DEF Wake, workerVars
  <2> QED
    BY <1>0, <2>1, ScheduleKeeps DEF SchedTypes
<1>4. CASE \E t \in Cancellable : CancelFuture(t) \/ Cancelling(t)
  BY <1>4, CancelKeeps
<1>5. CASE (\E s \in Ops : Complete(s)) \/ UNCHANGED vars
  <2>1. UNCHANGED <<tstate, scheduled, pinned, dispatched, wtask, wpc>>
    BY <1>5 DEF Complete, vars, taskVars, workerVars
  <2> QED
    BY <1>0, <2>1, StandStill DEF SchedTypes
<1> QED
  BY <1>1, <1>2, <1>3, <1>4, <1>5 DEF Next

\* The scheduling invariant holds in every behaviour of async.c's tasks.
LEMMA SchedInvariant == Spec => []SchedInv
BY SchedInit, SchedStep, PTL DEF Spec

\* "The runtime never resumes two continuations of the same task concurrently":
\* for any number of tasks, workers, awaits, cancellations and late wakes, at
\* most one worker is between the dispatch of ciel_task_run and the point where
\* it clears task->scheduled.
THEOREM OneContinuationTheorem == Spec => []OneContinuation
<1>1. SchedInv => OneContinuation
  BY DEF SchedInv
<1> QED
  BY <1>1, SchedInvariant, PTL

\* The root of a task outlives every job that was dispatched for it.
THEOREM PinnedTheorem == Spec => []PinnedWhileDispatched
<1>1. SchedInv => PinnedWhileDispatched
  BY DEF SchedInv, FlagCovers, UnpinnedIsOver, PinnedWhileDispatched, SchedTypes
<1> QED
  BY <1>1, SchedInvariant, PTL

-----------------------------------------------------------------------------
(* The outcome of a task.                                                  *)

\* The types of what the outcome depends on ...
OutcomeTypes ==
    /\ rc \in [Tasks -> {"none", "ok", "cancelled", "error", "attach"}]
    /\ fstate \in [Tasks -> {"pending", "running", "complete", "failed", "erred"}]
    /\ cancel_requested \in [Tasks -> BOOLEAN]
    /\ canceller \in [Cancellable -> {"none", "sources", "finish", "publish", "done"}]

\* ... and of the rest.
WaitTypes ==
    /\ pending \in [Tasks -> SUBSET Sources] /\ step \in [Tasks -> Nat \ {0}]
    /\ completed \subseteq Ops
    /\ waiters \in [Sources -> [Tasks -> Nat]] /\ wakes \in [Tasks -> Nat]
    /\ wtodo \in [Workers -> SUBSET Sources] /\ wresched \in [Workers -> BOOLEAN]
    /\ ctodo \in [Cancellable -> SUBSET Ops]
    /\ attachFailures \in Nat

\* Between the two critical sections of ciel_future_poll.
Polling == {"body", "returned", "raised", "again"}

\* A future is running exactly while a worker polls it.
RunningIsPolled ==
    /\ \A w \in Workers : wpc[w] \in Polling => fstate[wtask[w]] = "running"
    /\ \A t \in Tasks : fstate[t] = "running" =>
          \E w \in Workers : wpc[w] \in Polling /\ wtask[w] = t

\* Whoever is about to finish a task has seen its future settled; a canceller that
\* has not is going to find it running, with the request for the poll to see.
FinishersSettled ==
    /\ \A w \in Workers : wpc[w] = "finish" => Settled(wtask[w])
    /\ \A t \in Cancellable :
          /\ canceller[t] = "sources" =>
                Settled(t) \/ (fstate[t] = "running" /\ cancel_requested[t])
          /\ canceller[t] = "finish" => Settled(t)

\* The result recorded in the task is that of the future, from the moment it is
\* recorded.
ResultRecorded ==
    \A t \in Tasks :
        /\ rc[t] = "ok" => fstate[t] = "complete"
        /\ rc[t] = "cancelled" => fstate[t] = "failed"
        /\ rc[t] = "error" => fstate[t] = "erred"
        /\ tstate[t] # "active" => rc[t] # "none"

PublishersRecorded ==
    /\ \A w \in Workers : wpc[w] = "publish" => rc[wtask[w]] # "none"
    /\ \A t \in Cancellable : canceller[t] = "publish" => rc[t] # "none"

OutcomeInv ==
    /\ OutcomeTypes /\ RunningIsPolled /\ FinishersSettled
    /\ ResultRecorded /\ PublishersRecorded

LEMMA OutcomeInit == Init => OutcomeInv /\ WaitTypes
<1> SUFFICES ASSUME Init PROVE OutcomeInv /\ WaitTypes
  OBVIOUS
<1>1. OutcomeTypes /\ WaitTypes
  BY TaskAssumption DEF Init, OutcomeTypes, WaitTypes, Sources
<1>2. RunningIsPolled /\ FinishersSettled /\ ResultRecorded /\ PublishersRecorded
  BY TaskAssumption
  DEF Init, RunningIsPolled, FinishersSettled, ResultRecorded, PublishersRecorded, Polling, Settled
<1> QED
  BY <1>1, <1>2 DEF OutcomeInv

\* A step that leaves the futures alone: workers enter or leave no poll, whoever
\* goes on to finish a task has looked at its future, and so has the step when it
\* records a result.
LEMMA FuturesStand ==
    ASSUME OutcomeInv, UNCHANGED <<fstate, cancel_requested>>,
           \A w \in Workers :
               \/ wpc'[w] = wpc[w] /\ wtask'[w] = wtask[w]
               \/ wpc[w] \notin Polling /\ wpc'[w] \notin Polling \cup {"finish"},
           canceller' \in [Cancellable -> {"none", "sources", "finish", "publish", "done"}],
           \A t \in Cancellable :
               /\ canceller'[t] = "sources" => canceller[t] = "sources"
               /\ canceller'[t] = "finish" => Settled(t),
           rc' \in [Tasks -> {"none", "ok", "cancelled", "error", "attach"}],
           \A t \in Tasks :
               /\ rc'[t] = "ok" => fstate[t] = "complete"
               /\ rc'[t] = "cancelled" => fstate[t] = "failed"
               /\ rc'[t] = "error" => fstate[t] = "erred"
               /\ tstate'[t] # "active" => rc'[t] # "none",
           PublishersRecorded'
    PROVE  OutcomeInv'
<1>1. OutcomeTypes'
  BY DEF OutcomeInv, OutcomeTypes
<1>2. RunningIsPolled'
  BY DEF OutcomeInv, RunningIsPolled
<1>3. FinishersSettled'
  BY Zenon DEF OutcomeInv, FinishersSettled, Settled
<1>4. ResultRecorded'
  BY DEF ResultRecorded
<1> QED
  BY <1>1, <1>2, <1>3, <1>4 DEF OutcomeInv

\* The same when no result is recorded and no canceller moves.
LEMMA NobodyFinishes ==
    ASSUME OutcomeInv, UNCHANGED <<fstate, cancel_requested, rc, canceller>>,
           \A w \in Workers :
               \/ wpc'[w] = wpc[w] /\ wtask'[w] = wtask[w]
               \/ wpc[w] \notin Polling /\ wpc'[w] \notin Polling \cup {"finish", "publish"},
           \A t \in Tasks : tstate'[t] # "active" => rc[t] # "none"
    PROVE  OutcomeInv'
<1>1. PublishersRecorded'
  BY DEF OutcomeInv, PublishersRecorded
<1>2. /\ canceller' \in [Cancellable -> {"none", "sources", "finish", "publish", "done"}]
      /\ rc' \in [Tasks -> {"none", "ok", "cancelled", "error", "attach"}]
  BY DEF OutcomeInv, OutcomeTypes
<1> QED
  BY <1>1, <1>2, FuturesStand DEF OutcomeInv, FinishersSettled, ResultRecorded

\* ciel_future_poll finds the future pending or settled: nobody else can be
\* polling it.
LEMMA PollBeginOutcome ==
    ASSUME SchedInv, OutcomeInv, NEW w \in Workers, PollBegin(w)
    PROVE  OutcomeInv'
<1> DEFINE t == wtask[w]
<1>0. /\ SchedTypes /\ OutcomeTypes /\ t \in Tasks /\ wpc[w] = "poll"
      /\ UNCHANGED <<tstate, rc, cancel_requested, canceller, wtask>>
  BY DEF SchedInv, OutcomeInv, SchedTypes, PollBegin, taskVars, cancelVars
<1>1. fstate[t] # "running"
  <2> SUFFICES ASSUME fstate[t] = "running" PROVE FALSE
    OBVIOUS
  <2>1. PICK v \in Workers : wpc[v] \in Polling /\ wtask[v] = t
    BY <1>0 DEF OutcomeInv, RunningIsPolled
  <2>2. Owns(v, t) /\ Owns(w, t)
    BY <1>0, <2>1 DEF Owns, Owning, Polling
  <2> QED
    BY <1>0, <2>1, <2>2 DEF SchedInv, OneContinuation, Polling
<1>2. CASE fstate[t] = "pending"
  <2>1. fstate' = [fstate EXCEPT ![t] = "running"] /\ wpc' = [wpc EXCEPT ![w] = "body"]
    BY <1>2 DEF PollBegin, Goto, Settled
  <2>2. \A v \in Workers : wpc[v] \in Polling \cup {"finish"} => wtask[v] # t
    BY <1>0, <1>2 DEF OutcomeInv, RunningIsPolled, FinishersSettled, Settled
  <2>3. OutcomeTypes'
    BY <1>0, <2>1 DEF OutcomeTypes
  <2>4. RunningIsPolled'
    BY <1>0, <2>1, <2>2 DEF OutcomeInv, RunningIsPolled, Polling, SchedTypes, OutcomeTypes
  <2>5. FinishersSettled'
    BY <1>0, <1>2, <2>1, <2>2, TaskAssumption, SMTT(30)
    DEF OutcomeInv, FinishersSettled, Settled, SchedTypes, OutcomeTypes
  <2>6. ResultRecorded'
    BY <1>0, <1>2, <2>1 DEF OutcomeInv, ResultRecorded, OutcomeTypes
  <2>7. PublishersRecorded'
    BY <1>0, <2>1 DEF OutcomeInv, PublishersRecorded, SchedTypes
  <2> QED
    BY <2>3, <2>4, <2>5, <2>6, <2>7 DEF OutcomeInv
<1>3. CASE Settled(t)
  <2>1. UNCHANGED fstate /\ wpc' = [wpc EXCEPT ![w] = "finish"]
    BY <1>1, <1>3 DEF PollBegin, Goto, Settled
  <2>2. OutcomeTypes' /\ ResultRecorded'
    BY <1>0, <2>1 DEF OutcomeInv, OutcomeTypes, ResultRecorded
  <2>3. RunningIsPolled'
    BY <1>0, <2>1 DEF OutcomeInv, RunningIsPolled, Polling, SchedTypes
  <2>4. FinishersSettled'
    BY <1>0, <1>3, <2>1 DEF OutcomeInv, FinishersSettled, Settled, SchedTypes
  <2>5. PublishersRecorded'
    BY <1>0, <2>1 DEF OutcomeInv, PublishersRecorded, SchedTypes
  <2> QED
    BY <2>2, <2>3, <2>4, <2>5 DEF OutcomeInv
<1> QED
  BY <1>0, <1>1, <1>2, <1>3 DEF OutcomeTypes, Settled

LEMMA BodyOutcome ==
    ASSUME SchedInv, OutcomeInv, NEW w \in Workers, Body(w)
    PROVE  OutcomeInv'
<1>1. /\ SchedTypes /\ wpc[w] = "body"
      /\ UNCHANGED <<tstate, rc, fstate, cancel_requested, canceller, wtask>>
  BY DEF SchedInv, Body, ErrorReturn, taskVars, cancelVars
<1>2. \E l \in Polling : wpc' = [wpc EXCEPT ![w] = l]
  BY <1>1 DEF Body, ErrorReturn, Goto, Polling, SchedTypes
<1>3. \A v \in Workers :
        /\ wpc'[v] \in Polling <=> wpc[v] \in Polling
        /\ wpc'[v] = "finish" <=> wpc[v] = "finish"
        /\ wpc'[v] = "publish" <=> wpc[v] = "publish"
  BY <1>1, <1>2 DEF Polling, SchedTypes
<1>4. OutcomeTypes' /\ ResultRecorded'
  BY <1>1 DEF OutcomeInv, OutcomeTypes, ResultRecorded
<1>5. RunningIsPolled' /\ FinishersSettled' /\ PublishersRecorded'
  BY <1>1, <1>3 DEF OutcomeInv, RunningIsPolled, FinishersSettled, PublishersRecorded, Settled
<1> QED
  BY <1>4, <1>5 DEF OutcomeInv

\* The poll ends, and honours a request that came while it ran.
LEMMA PollEndOutcome ==
    ASSUME SchedInv, OutcomeInv, NEW w \in Workers, PollEnd(w)
    PROVE  OutcomeInv'
<1> DEFINE t == wtask[w]
<1>0. /\ SchedTypes /\ OutcomeTypes /\ t \in Tasks /\ wpc[w] \in Polling
      /\ UNCHANGED <<tstate, rc, canceller, wtask>>
  BY DEF SchedInv, OutcomeInv, SchedTypes, PollEnd, Polling, taskVars, cancelVars
<1>1. fstate[t] = "running"
  BY <1>0 DEF OutcomeInv, RunningIsPolled
<1>2. \A v \in Workers : v # w /\ wpc[v] \in Polling \cup {"finish"} => wtask[v] # t
  <2> SUFFICES ASSUME NEW v \in Workers, v # w, wpc[v] \in Polling \cup {"finish"}, wtask[v] = t
               PROVE FALSE
    OBVIOUS
  <2>1. Owns(v, t) /\ Owns(w, t)
    BY <1>0, Zenon DEF Owns, Owning, Polling
  <2> QED
    BY <1>0, <2>1 DEF SchedInv, OneContinuation
<1>3. PICK f \in {"pending", "complete", "failed", "erred"}, l \in {"finish", "suspend"} :
        /\ fstate' = [fstate EXCEPT ![t] = f] /\ wpc' = [wpc EXCEPT ![w] = l]
        /\ l = "finish" => f # "pending"
        /\ cancel_requested[t] => f # "pending"
        /\ cancel_requested' \in [Tasks -> BOOLEAN]
        /\ \A u \in Tasks : u # t => cancel_requested'[u] = cancel_requested[u]
  <2>1. CASE cancel_requested[t]
    BY <1>0, <2>1, Zenon DEF PollEnd, Goto, OutcomeTypes
  <2>2. CASE ~cancel_requested[t] /\ wpc[w] = "returned"
    BY <1>0, <2>2, SMTT(30) DEF PollEnd, Goto, OutcomeTypes
  <2>3. CASE ~cancel_requested[t] /\ wpc[w] = "again"
    BY <1>0, <2>3 DEF PollEnd, Goto, OutcomeTypes
  <2>4. CASE ~cancel_requested[t] /\ wpc[w] = "raised"
    BY <1>0, <2>4, SMTT(30) DEF PollEnd, Goto, OutcomeTypes
  <2> QED
    BY <2>1, <2>2, <2>3, <2>4 DEF PollEnd
<1>4. OutcomeTypes'
  BY <1>0, <1>3 DEF OutcomeTypes
<1>5. RunningIsPolled'
  BY <1>0, <1>2, <1>3, SMTT(30) DEF OutcomeInv, RunningIsPolled, Polling, SchedTypes, OutcomeTypes
<1>6. FinishersSettled'
  <2>1. \A v \in Workers : wpc'[v] = "finish" => Settled(wtask[v])'
    BY <1>0, <1>2, <1>3, SMTT(30) DEF OutcomeInv, FinishersSettled, Settled, SchedTypes, OutcomeTypes
  <2>2. ASSUME NEW u \in Cancellable
        PROVE  /\ canceller'[u] = "sources" =>
                    Settled(u)' \/ (fstate'[u] = "running" /\ cancel_requested'[u])
               /\ canceller'[u] = "finish" => Settled(u)'
    <3>1. CASE u = t
      BY <1>0, <1>1, <1>3, <3>1, SMTT(30) DEF OutcomeInv, FinishersSettled, Settled, OutcomeTypes
    <3>2. CASE u # t
      BY <1>0, <1>3, <3>2, TaskAssumption DEF OutcomeInv, FinishersSettled, Settled, OutcomeTypes
    <3> QED
      BY <3>1, <3>2, Zenon
  <2> QED
    BY <1>0, <2>1, <2>2 DEF FinishersSettled
<1>7. ResultRecorded'
  BY <1>0, <1>1, <1>3 DEF OutcomeInv, ResultRecorded, OutcomeTypes
<1>8. PublishersRecorded'
  BY <1>0, <1>3 DEF OutcomeInv, PublishersRecorded, SchedTypes
<1> QED
  BY <1>4, <1>5, <1>6, <1>7, <1>8 DEF OutcomeInv

\* ciel_future_cancel fails a pending future and leaves a request to a running poll.
LEMMA CancelFutureOutcome ==
    ASSUME SchedInv, OutcomeInv, NEW t \in Cancellable, CancelFuture(t)
    PROVE  OutcomeInv'
<1>0. /\ SchedTypes /\ OutcomeTypes /\ t \in Tasks
      /\ canceller' = [canceller EXCEPT ![t] = "sources"]
      /\ UNCHANGED <<tstate, rc, wpc, wtask>>
  BY TaskAssumption DEF SchedInv, OutcomeInv, CancelFuture, CancelAt, taskVars, workerVars
<1>1. canceller' \in [Cancellable -> {"none", "sources", "finish", "publish", "done"}]
  BY <1>0 DEF OutcomeTypes
<1>p. PublishersRecorded'
  BY <1>0 DEF OutcomeInv, OutcomeTypes, PublishersRecorded
<1>2. CASE Settled(t)
  <2>1. UNCHANGED <<fstate, cancel_requested>>
    BY <1>2 DEF CancelFuture, futureVars, Settled
  <2>2. OutcomeTypes' /\ RunningIsPolled' /\ ResultRecorded'
    BY <1>0, <1>1, <2>1 DEF OutcomeInv, OutcomeTypes, RunningIsPolled, ResultRecorded
  <2>3. FinishersSettled'
    BY <1>0, <1>2, <2>1 DEF OutcomeInv, OutcomeTypes, FinishersSettled, Settled
  <2> QED
    BY <1>p, <2>2, <2>3 DEF OutcomeInv
<1>3. CASE fstate[t] = "running"
  <2>1. UNCHANGED fstate /\ cancel_requested' = [cancel_requested EXCEPT ![t] = TRUE]
    BY <1>3, Zenon DEF CancelFuture, Settled
  <2>2. OutcomeTypes' /\ RunningIsPolled' /\ ResultRecorded'
    BY <1>0, <1>1, <2>1, SMTT(30) DEF OutcomeInv, OutcomeTypes, RunningIsPolled, ResultRecorded
  <2>3. FinishersSettled'
    BY <1>0, <1>3, <2>1, TaskAssumption DEF OutcomeInv, OutcomeTypes, FinishersSettled, Settled
  <2> QED
    BY <1>p, <2>2, <2>3 DEF OutcomeInv
<1>4. CASE fstate[t] = "pending"
  <2>1. fstate' = [fstate EXCEPT ![t] = "failed"] /\ UNCHANGED cancel_requested
    BY <1>4 DEF CancelFuture, Settled
  <2>2. OutcomeTypes' /\ ResultRecorded'
    BY <1>0, <1>1, <1>4, <2>1 DEF OutcomeInv, OutcomeTypes, ResultRecorded
  <2>3. RunningIsPolled'
    BY <1>0, <1>4, <2>1 DEF OutcomeInv, OutcomeTypes, RunningIsPolled, SchedTypes
  <2>4. FinishersSettled'
    BY <1>0, <2>1, TaskAssumption, Zenon DEF OutcomeInv, OutcomeTypes, FinishersSettled, Settled, SchedTypes
  <2> QED
    BY <1>p, <2>2, <2>3, <2>4 DEF OutcomeInv
<1> QED
  BY <1>0, <1>2, <1>3, <1>4 DEF OutcomeTypes, Settled

\* ciel_task_finish records the result of the poll.
LEMMA FinishBeginOutcome ==
    ASSUME SchedInv, OutcomeInv, NEW w \in Workers, FinishBegin(w)
    PROVE  OutcomeInv'
<1> DEFINE t == wtask[w]
<1>0. /\ SchedTypes /\ OutcomeTypes /\ t \in Tasks /\ wpc[w] \in {"finish", "attachFailed"}
      /\ UNCHANGED <<fstate, cancel_requested, canceller, wtask>>
  BY DEF SchedInv, OutcomeInv, SchedTypes, FinishBegin, futureVars, cancelVars
<1>1. CASE UNCHANGED <<tstate, rc>> /\ wpc' = [wpc EXCEPT ![w] = "unschedule"]
  <2>1. \A v \in Workers :
          \/ wpc'[v] = wpc[v] /\ wtask'[v] = wtask[v]
          \/ wpc[v] \notin Polling /\ wpc'[v] \notin Polling \cup {"finish", "publish"}
    BY <1>0, <1>1, Zenon DEF Polling, SchedTypes
  <2> QED
    BY <1>0, <1>1, <2>1, NobodyFinishes DEF OutcomeInv, ResultRecorded
<1>2. CASE /\ tstate' = [tstate EXCEPT ![t] = "cleaning"]
           /\ rc' = [rc EXCEPT ![t] = PollResult(w)]
           /\ wpc' = [wpc EXCEPT ![w] = "publish"]
  <2>1. /\ PollResult(w) \in {"ok", "cancelled", "error", "attach"}
        /\ PollResult(w) = "ok" => fstate[t] = "complete"
        /\ PollResult(w) = "cancelled" => fstate[t] = "failed"
        /\ PollResult(w) = "error" => fstate[t] = "erred"
    BY <1>0 DEF PollResult, FutureResult, OutcomeInv, FinishersSettled, Settled
  <2>2. rc' \in [Tasks -> {"none", "ok", "cancelled", "error", "attach"}]
    BY <1>0, <1>2, <2>1 DEF OutcomeTypes
  <2>3. \A u \in Tasks :
            /\ rc'[u] = "ok" => fstate[u] = "complete"
            /\ rc'[u] = "cancelled" => fstate[u] = "failed"
            /\ rc'[u] = "error" => fstate[u] = "erred"
            /\ tstate'[u] # "active" => rc'[u] # "none"
    BY <1>0, <1>2, <2>1 DEF OutcomeInv, ResultRecorded, OutcomeTypes, SchedTypes
  <2>4. \A v \in Workers :
          \/ wpc'[v] = wpc[v] /\ wtask'[v] = wtask[v]
          \/ wpc[v] \notin Polling /\ wpc'[v] \notin Polling \cup {"finish"}
    BY <1>0, <1>2 DEF Polling, SchedTypes
  <2>5. PublishersRecorded'
    BY <1>0, <1>2, <2>1, TaskAssumption DEF OutcomeInv, PublishersRecorded, OutcomeTypes, SchedTypes
  <2>6. canceller' \in [Cancellable -> {"none", "sources", "finish", "publish", "done"}]
    BY <1>0 DEF OutcomeTypes
  <2> QED
    BY <1>0, <2>2, <2>3, <2>4, <2>5, <2>6, FuturesStand DEF OutcomeInv, FinishersSettled
<1> QED
  BY <1>1, <1>2, SMTT(30) DEF FinishBegin, Goto

\* The same for a canceller.
LEMMA CancellingOutcome ==
    ASSUME SchedInv, OutcomeInv, NEW t \in Cancellable, Cancelling(t)
    PROVE  OutcomeInv'
<1>0. SchedTypes /\ OutcomeTypes /\ t \in Tasks
  BY TaskAssumption, SMTT(30) DEF SchedInv, OutcomeInv
<1>1. CASE \E s \in Ops : CancelOp(t, s)
  <2>1. UNCHANGED <<tstate, rc, fstate, cancel_requested, canceller, wpc, wtask>>
    BY <1>1, Zenon DEF CancelOp, taskVars, futureVars, workerVars
  <2> QED
    BY <2>1, NobodyFinishes DEF OutcomeInv, ResultRecorded
<1>2. ASSUME UNCHANGED <<fstate, cancel_requested, wpc, wtask>>,
             NEW l \in {"finish", "publish", "done"}, canceller' = [canceller EXCEPT ![t] = l],
             l = "finish" => Settled(t),
             rc' \in [Tasks -> {"none", "ok", "cancelled", "error", "attach"}],
             l = "publish" => rc'[t] # "none",
             \A u \in Tasks :
                /\ rc[u] # "none" => rc'[u] # "none"
                /\ rc'[u] = "ok" => fstate[u] = "complete"
                /\ rc'[u] = "cancelled" => fstate[u] = "failed"
                /\ rc'[u] = "error" => fstate[u] = "erred"
                /\ tstate'[u] # "active" => rc'[u] # "none"
      PROVE  OutcomeInv'
  <2>1. /\ canceller' \in [Cancellable -> {"none", "sources", "finish", "publish", "done"}]
        /\ \A u \in Cancellable :
              /\ canceller'[u] = "sources" => canceller[u] = "sources"
              /\ canceller'[u] = "finish" => Settled(u)
    BY <1>0, <1>2 DEF OutcomeInv, OutcomeTypes, FinishersSettled
  <2>2. PublishersRecorded'
    BY <1>0, <1>2, TaskAssumption, Zenon DEF OutcomeInv, OutcomeTypes, PublishersRecorded, SchedTypes
  <2> QED
    BY <1>2, <2>1, <2>2, FuturesStand, Zenon
<1>3. CASE CancelInspect(t)
  <2>1. /\ UNCHANGED <<tstate, rc, fstate, cancel_requested, wpc, wtask>>
        /\ canceller' = [canceller EXCEPT ![t] = IF fstate[t] = "running" THEN "done" ELSE "finish"]
        /\ canceller[t] = "sources"
    BY <1>3, Zenon DEF CancelInspect, CancelAt, taskVars, futureVars, workerVars
  <2>2. fstate[t] # "running" => Settled(t)
    BY <2>1 DEF OutcomeInv, FinishersSettled
  <2>3. PICK l \in {"finish", "done"} :
            canceller' = [canceller EXCEPT ![t] = l] /\ (l = "finish" => Settled(t))
    BY <2>1, <2>2, Zenon
  <2> QED
    BY <1>2, <2>1, <2>3, Zenon DEF OutcomeInv, OutcomeTypes, ResultRecorded
<1>4. CASE CancelFinishBegin(t)
  <2>1. UNCHANGED <<fstate, cancel_requested, wpc, wtask>> /\ canceller[t] = "finish"
    BY <1>4 DEF CancelFinishBegin, futureVars, workerVars
  <2>2. Settled(t)
    BY <2>1 DEF OutcomeInv, FinishersSettled
  <2>3. CASE UNCHANGED <<tstate, rc>> /\ canceller' = [canceller EXCEPT ![t] = "done"]
    BY <1>2, <2>1, <2>3 DEF OutcomeInv, OutcomeTypes, ResultRecorded
  <2>4. CASE /\ tstate' = [tstate EXCEPT ![t] = "cleaning"]
             /\ rc' = [rc EXCEPT ![t] = IF Settled(t) THEN FutureResult(t) ELSE "cancelled"]
             /\ canceller' = [canceller EXCEPT ![t] = "publish"]
    <3>0. /\ FutureResult(t) \in {"ok", "cancelled", "error"}
          /\ FutureResult(t) = "ok" => fstate[t] = "complete"
          /\ FutureResult(t) = "cancelled" => fstate[t] = "failed"
          /\ FutureResult(t) = "error" => fstate[t] = "erred"
      BY <2>2 DEF FutureResult, Settled
    <3>1. rc' \in [Tasks -> {"none", "ok", "cancelled", "error", "attach"}] /\ rc'[t] # "none"
      BY <1>0, <2>2, <2>4, <3>0 DEF OutcomeTypes
    <3>2. \A u \in Tasks :
            /\ rc[u] # "none" => rc'[u] # "none"
            /\ rc'[u] = "ok" => fstate[u] = "complete"
            /\ rc'[u] = "cancelled" => fstate[u] = "failed"
            /\ rc'[u] = "error" => fstate[u] = "erred"
            /\ tstate'[u] # "active" => rc'[u] # "none"
      BY <1>0, <2>2, <2>4, <3>0 DEF OutcomeInv, ResultRecorded, OutcomeTypes, SchedTypes
    <3> QED
      BY <1>2, <2>1, <2>4, <3>1, <3>2
  <2> QED
    BY <1>4, <2>3, <2>4, Zenon DEF CancelFinishBegin, CancelAt
<1>5. CASE CancelFinishEnd(t)
  <2>1. /\ UNCHANGED <<fstate, cancel_requested, rc, wpc, wtask>>
        /\ canceller[t] = "publish"
        /\ canceller' = [canceller EXCEPT ![t] = "done"]
        /\ tstate' = [tstate EXCEPT ![t] = "finished"]
    BY <1>5 DEF CancelFinishEnd, Publish, CancelAt, futureVars
  <2>2. \A u \in Tasks : tstate'[u] # "active" => rc[u] # "none"
    BY <1>0, <2>1 DEF OutcomeInv, ResultRecorded, PublishersRecorded, SchedTypes
  <2> QED
    BY <1>2, <2>1, <2>2 DEF OutcomeInv, OutcomeTypes, ResultRecorded
<1> QED
  BY <1>1, <1>3, <1>4, <1>5 DEF Cancelling

\* The other steps of a worker are outside the poll and record no result.
LEMMA WorkOutcome ==
    ASSUME SchedInv, OutcomeInv, NEW w \in Workers,
           Work(w) \/ \E t \in Tasks : RunStart(w, t)
    PROVE  OutcomeInv'
<1>0. SchedTypes /\ wtask[w] \in Tasks /\ \A t \in Tasks : tstate[t] # "active" => rc[t] # "none"
  BY Zenon DEF SchedInv, SchedTypes, OutcomeInv, ResultRecorded
<1>1. ASSUME UNCHANGED <<fstate, cancel_requested, rc, canceller, wtask>>,
             wpc[w] \notin Polling, NEW l \in {"snapshot", "register", "unpin", "idle", "unschedule"},
             wpc' = [wpc EXCEPT ![w] = l],
             \A t \in Tasks : tstate'[t] # "active" => rc[t] # "none"
      PROVE  OutcomeInv'
  <2>1. \A v \in Workers :
          \/ wpc'[v] = wpc[v] /\ wtask'[v] = wtask[v]
          \/ wpc[v] \notin Polling /\ wpc'[v] \notin Polling \cup {"finish", "publish"}
    BY <1>0, <1>1 DEF Polling, SchedTypes
  <2> QED
    BY <1>1, <2>1, NobodyFinishes
<1>2. CASE Suspend(w)
  <2>1. PICK l \in {"snapshot", "unpin"} : wpc' = [wpc EXCEPT ![w] = l]
    BY <1>2, Zenon DEF Suspend, Goto
  <2> QED
    BY <1>0, <1>1, <1>2, <2>1, Zenon DEF Suspend, futureVars, cancelVars, Polling
<1>3. CASE Snapshot(w)
  BY <1>0, <1>1, <1>3, Zenon DEF Snapshot, Goto, taskVars, futureVars, cancelVars, Polling
<1>4. CASE \E s \in Sources : Register(w, s)
  <2>1. UNCHANGED <<tstate, rc, fstate, cancel_requested, canceller, wpc, wtask>>
    BY <1>4 DEF Register, taskVars, futureVars, cancelVars
  <2> QED
    BY <1>0, <2>1, NobodyFinishes
<1>5. CASE Registered(w)
  BY <1>0, <1>1, <1>5 DEF Registered, Goto, futureVars, cancelVars, Polling
<1>6. CASE FinishEnd(w)
  <2>1. /\ UNCHANGED <<fstate, cancel_requested, rc, canceller, wtask>>
        /\ wpc[w] = "publish" /\ wpc' = [wpc EXCEPT ![w] = "unschedule"]
        /\ tstate' = [tstate EXCEPT ![wtask[w]] = "finished"]
    BY <1>6, Zenon DEF FinishEnd, Publish, Goto, futureVars
  <2>2. \A t \in Tasks : tstate'[t] # "active" => rc[t] # "none"
    BY <1>0, <2>1 DEF OutcomeInv, PublishersRecorded, SchedTypes
  <2> QED
    BY <1>1, <2>1, <2>2 DEF Polling
<1>7. CASE Unschedule(w) \/ UnpinIfFinished(w)
  BY <1>0, <1>1, <1>7, Zenon DEF Unschedule, UnpinIfFinished, Goto, futureVars, cancelVars, Polling
<1>8. ASSUME NEW t \in Tasks, RunStart(w, t) PROVE OutcomeInv'
  <2>1. /\ UNCHANGED <<tstate, fstate, cancel_requested, rc, canceller>>
        /\ wpc[w] = "idle" /\ wtask' = [wtask EXCEPT ![w] = t]
        /\ \E l \in {"attachFailed", "poll", "unpin"} : wpc' = [wpc EXCEPT ![w] = l]
    BY <1>8 DEF RunStart, Goto, futureVars, cancelVars
  <2>2. \A v \in Workers :
          \/ wpc'[v] = wpc[v] /\ wtask'[v] = wtask[v]
          \/ wpc[v] \notin Polling /\ wpc'[v] \notin Polling \cup {"finish", "publish"}
    BY <1>0, <2>1 DEF Polling, SchedTypes
  <2> QED
    BY <1>0, <2>1, <2>2, NobodyFinishes, Zenon
<1> QED
  BY <1>2, <1>3, <1>4, <1>5, <1>6, <1>7, <1>8,
     PollBeginOutcome, BodyOutcome, PollEndOutcome, FinishBeginOutcome, Zenon DEF Work

LEMMA OutcomeStep ==
    ASSUME SchedInv, OutcomeInv, [Next]_vars
    PROVE  OutcomeInv'
<1>1. CASE \E w \in Workers : Work(w) \/ \E t \in Tasks : RunStart(w, t)
  BY <1>1, WorkOutcome
<1>2. CASE \E t \in Cancellable : CancelFuture(t) \/ Cancelling(t)
  BY <1>2, CancelFutureOutcome, CancellingOutcome, Zenon
<1>3. CASE (\E t \in Tasks : Wake(t)) \/ (\E s \in Ops : Complete(s)) \/ UNCHANGED vars
  <2>1. UNCHANGED <<tstate, rc, fstate, cancel_requested, canceller, wpc, wtask>>
    BY <1>3 DEF Wake, Complete, vars, taskVars, futureVars, cancelVars, workerVars
  <2> QED
    BY <2>1, NobodyFinishes DEF OutcomeInv, ResultRecorded
<1> QED
  BY <1>1, <1>2, <1>3 DEF Next

\* The nodes of a source move from one count to the other.
LEMMA TakeWaitersTypes ==
    ASSUME WaitTypes, NEW s \in Sources, TakeWaiters(s)
    PROVE  waiters' \in [Sources -> [Tasks -> Nat]] /\ wakes' \in [Tasks -> Nat]
BY DEF WaitTypes, TakeWaiters

LEMMA WaitTypesStep ==
    ASSUME SchedInv, WaitTypes, [Next]_vars
    PROVE  WaitTypes'
<1>0. SchedTypes
  BY DEF SchedInv
<1>1. ASSUME NEW w \in Workers, Work(w) PROVE WaitTypes'
  <2>0. wtask[w] \in Tasks
    BY <1>0 DEF SchedTypes
  <2>1. CASE PollBegin(w) \/ Suspend(w) \/ Registered(w) \/ FinishBegin(w) \/ Unschedule(w)
             \/ UnpinIfFinished(w)
    <3>1. UNCHANGED <<pending, step, wakeVars, wtodo, wresched, ctodo, attachFailures>>
      BY <2>1, Zenon DEF PollBegin, Suspend, Registered, FinishBegin, Unschedule, UnpinIfFinished,
                  futureVars, wakeVars, cancelVars
    <3> QED
      BY <3>1 DEF WaitTypes, wakeVars
  <2>2. CASE Body(w)
    <3>1. UNCHANGED <<wakeVars, wtodo, wresched, ctodo, attachFailures>>
      BY <2>2 DEF Body, ErrorReturn, wakeVars, cancelVars
    <3>2. /\ Awaits[wtask[w]] \in Seq(SUBSET Sources)
          /\ step[wtask[w]] \in Nat \ {0}
          /\ pending \in [Tasks -> SUBSET Sources] /\ step \in [Tasks -> Nat \ {0}]
      BY <2>0, TaskAssumption, Zenon DEF WaitTypes
    <3>3. step' \in [Tasks -> Nat \ {0}]
      <4>1. UNCHANGED step \/ step' = [step EXCEPT ![wtask[w]] = step[wtask[w]] + 1]
        BY <2>2, Zenon DEF Body, ErrorReturn
      <4> QED
        BY <2>0, <3>2, <4>1
    <3>4. pending' \in [Tasks -> SUBSET Sources]
      <4>1. CASE UNCHANGED pending \/ pending' = [pending EXCEPT ![wtask[w]] = {}]
        BY <2>0, <3>2, <4>1
      <4>2. CASE /\ step[wtask[w]] <= Len(Awaits[wtask[w]])
                 /\ pending' = [pending EXCEPT ![wtask[w]] = Awaits[wtask[w]][step[wtask[w]]]]
        <5>1. Awaits[wtask[w]][step[wtask[w]]] \in SUBSET Sources
          BY <3>2, <4>2
        <5> QED
          BY <2>0, <3>2, <4>2, <5>1
      <4> QED
        BY <2>2, <4>1, <4>2, Zenon DEF Body, ErrorReturn
    <3> QED
      BY <3>1, <3>3, <3>4, Zenon DEF WaitTypes, wakeVars
  <2>3. CASE PollEnd(w)
    <3>1. /\ UNCHANGED <<step, wakeVars, wtodo, wresched, ctodo, attachFailures>>
          /\ UNCHANGED pending \/ pending' = [pending EXCEPT ![wtask[w]] = {}]
      BY <2>3 DEF PollEnd, wakeVars, cancelVars
    <3> QED
      BY <2>0, <3>1, Zenon DEF WaitTypes, wakeVars
  <2>4. CASE Snapshot(w)
    <3>1. /\ UNCHANGED <<pending, step, wakeVars, ctodo, attachFailures>>
          /\ wtodo' = [wtodo EXCEPT ![w] = IF Settled(wtask[w]) THEN {} ELSE pending[wtask[w]]]
          /\ wresched' = [wresched EXCEPT ![w] = Settled(wtask[w]) \/ pending[wtask[w]] = {}]
      BY <2>4 DEF Snapshot, futureVars, wakeVars, cancelVars
    <3>2. wtodo' \in [Workers -> SUBSET Sources]
      BY <2>0, <3>1 DEF WaitTypes
    <3>3. wresched' \in [Workers -> BOOLEAN]
      BY <3>1 DEF WaitTypes, Settled
    <3> QED
      BY <3>1, <3>2, <3>3, Zenon DEF WaitTypes, wakeVars
  <2>5. ASSUME NEW s \in Sources, Register(w, s) PROVE WaitTypes'
    <3>1. /\ UNCHANGED <<pending, step, completed, wakes, ctodo, attachFailures>>
          /\ wtodo' = [wtodo EXCEPT ![w] = wtodo[w] \ {s}]
      BY <2>5 DEF Register, futureVars, cancelVars
    <3>2. wtodo' \in [Workers -> SUBSET Sources]
      BY <3>1 DEF WaitTypes
    <3>3. CASE UNCHANGED waiters /\ wresched' = [wresched EXCEPT ![w] = TRUE]
      BY <3>1, <3>2, <3>3 DEF WaitTypes
    <3>4. CASE /\ UNCHANGED wresched
               /\ waiters' = [waiters EXCEPT ![s][wtask[w]] = @ + 1]
      <4>1. waiters' \in [Sources -> [Tasks -> Nat]]
        BY <2>0, <3>4 DEF WaitTypes
      <4> QED
        BY <3>1, <3>2, <3>4, <4>1 DEF WaitTypes
    <3> QED
      BY <2>5, <3>3, <3>4 DEF Register
  <2>6. CASE FinishEnd(w)
    <3>1. /\ UNCHANGED <<pending, step, completed, wtodo, wresched, ctodo, attachFailures>>
          /\ TakeWaiters(wtask[w]) /\ wtask[w] \in Sources
      BY <2>0, <2>6 DEF FinishEnd, Publish, futureVars, Sources
    <3> QED
      BY <3>1, TakeWaitersTypes, SMTT(30) DEF WaitTypes
  <2> QED
    BY <1>1, <2>1, <2>2, <2>3, <2>4, <2>5, <2>6 DEF Work
<1>2. ASSUME NEW w \in Workers, NEW t \in Tasks, RunStart(w, t) PROVE WaitTypes'
  <2>1. /\ UNCHANGED <<pending, step, wakeVars, wtodo, wresched, ctodo>>
        /\ UNCHANGED attachFailures \/ attachFailures' = attachFailures + 1
    BY <1>2 DEF RunStart, futureVars, wakeVars, cancelVars
  <2> QED
    BY <2>1 DEF WaitTypes, wakeVars
<1>3. ASSUME NEW t \in Tasks, Wake(t) PROVE WaitTypes'
  <2>1. /\ UNCHANGED <<pending, step, completed, waiters, wtodo, wresched, ctodo, attachFailures>>
        /\ wakes[t] > 0 /\ wakes' = [wakes EXCEPT ![t] = wakes[t] - 1]
    BY <1>3 DEF Wake, futureVars, workerVars, cancelVars
  <2> QED
    BY <2>1 DEF WaitTypes
<1>4. ASSUME NEW s \in Ops, Complete(s) PROVE WaitTypes'
  <2>1. /\ UNCHANGED <<pending, step, wtodo, wresched, ctodo, attachFailures>>
        /\ completed' = completed \cup {s} /\ TakeWaiters(s) /\ s \in Sources
    BY <1>4 DEF Complete, futureVars, workerVars, cancelVars, Sources
  <2> QED
    BY <2>1, TakeWaitersTypes DEF WaitTypes
<1>5. ASSUME NEW t \in Cancellable, CancelFuture(t) PROVE WaitTypes'
  <2>1. /\ UNCHANGED <<step, wakeVars, wtodo, wresched, attachFailures>>
        /\ UNCHANGED pending \/ pending' = [pending EXCEPT ![t] = {}]
        /\ UNCHANGED ctodo \/ ctodo' = [ctodo EXCEPT ![t] = pending[t] \cap Ops]
    BY <1>5 DEF CancelFuture, futureVars, wakeVars, workerVars
  <2>2. pending' \in [Tasks -> SUBSET Sources]
    BY <2>1, TaskAssumption, Zenon DEF WaitTypes
  <2>3. ctodo' \in [Cancellable -> SUBSET Ops]
    BY <2>1 DEF WaitTypes
  <2> QED
    BY <2>1, <2>2, <2>3 DEF WaitTypes, wakeVars
<1>6. ASSUME NEW t \in Cancellable, Cancelling(t) PROVE WaitTypes'
  <2>1. ASSUME NEW s \in Ops, CancelOp(t, s) PROVE WaitTypes'
    <3>1. /\ UNCHANGED <<pending, step, wtodo, wresched, attachFailures>>
          /\ ctodo' = [ctodo EXCEPT ![t] = ctodo[t] \ {s}]
          /\ completed' = completed \cup {s} /\ TakeWaiters(s) /\ s \in Sources
      BY <2>1, Zenon DEF CancelOp, futureVars, workerVars, Sources
    <3> QED
      BY <3>1, TakeWaitersTypes DEF WaitTypes
  <2>2. CASE CancelInspect(t) \/ CancelFinishBegin(t)
    <3>1. UNCHANGED <<pending, step, wakeVars, wtodo, wresched, ctodo, attachFailures>>
      BY <2>2, Zenon DEF CancelInspect, CancelFinishBegin, futureVars, wakeVars, workerVars
    <3> QED
      BY <3>1, Zenon DEF WaitTypes, wakeVars
  <2>3. CASE CancelFinishEnd(t)
    <3>1. /\ UNCHANGED <<pending, step, completed, wtodo, wresched, ctodo, attachFailures>>
          /\ TakeWaiters(t) /\ t \in Sources
      BY <2>3, TaskAssumption, Zenon DEF CancelFinishEnd, Publish, futureVars, Sources
    <3> QED
      BY <3>1, TakeWaitersTypes DEF WaitTypes
  <2> QED
    BY <1>6, <2>1, <2>2, <2>3 DEF Cancelling
<1>7. CASE UNCHANGED vars
  BY <1>7 DEF WaitTypes, vars, futureVars, wakeVars, workerVars, cancelVars
<1> QED
  BY <1>1, <1>2, <1>3, <1>4, <1>5, <1>6, <1>7 DEF Next

\* A task is kept until its last job has run, and the outcome recorded when it
\* finishes is that of its future, whether the poll, an attach failure or a
\* canceller finishes it.
THEOREM TaskKeptTheorem == Spec => []TaskKept
<1>1. SchedInv /\ OutcomeInv /\ WaitTypes => TaskKept
  <2> SUFFICES ASSUME SchedInv, OutcomeInv, WaitTypes PROVE TaskKept
    OBVIOUS
  <2>1. TypeOK
    BY DEF SchedInv, SchedTypes, OutcomeInv, OutcomeTypes, WaitTypes, TypeOK
  <2>2. PinnedWhileDispatched
    BY DEF SchedInv, FlagCovers, UnpinnedIsOver, PinnedWhileDispatched, SchedTypes
  <2>3. OutcomeAgrees
    BY DEF OutcomeInv, OutcomeTypes, ResultRecorded, OutcomeAgrees
  <2> QED
    BY <2>1, <2>2, <2>3 DEF TaskKept
<1>2. Init => SchedInv /\ OutcomeInv /\ WaitTypes
  BY SchedInit, OutcomeInit
<1>3. SchedInv /\ OutcomeInv /\ WaitTypes /\ [Next]_vars => (SchedInv /\ OutcomeInv /\ WaitTypes)'
  BY SchedStep, OutcomeStep, WaitTypesStep
<1> QED
  BY <1>1, <1>2, <1>3, PTL DEF Spec
=============================================================================
