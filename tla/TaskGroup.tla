------------------------------ MODULE TaskGroup ------------------------------
(***************************************************************************)
(* Task groups of runtime/src/async.c, and the supervisor that             *)
(* std/async/async.ciel builds on them: tasks are registered, complete,    *)
(* are yielded, cancelled and joined while the group is being closed.      *)
(*                                                                         *)
(* A registration is one call of group_add; the same task may be           *)
(* registered more than once.  A task is reduced to what a group sees of   *)
(* it: its future, its state, and the moments at which it settles and      *)
(* publishes (module Task has the rest).  While a finisher walks over the  *)
(* registrations of a task it holds task->mutex: locked[t] is what is left *)
(* of that walk.                                                           *)
(***************************************************************************)
EXTENDS Naturals, Sequences, Functions

CONSTANTS Tasks, Regs, Users,
          TaskOf,      \* the task each registration is about
          Role         \* the operations each user calls

ASSUME GroupAssumption ==
    /\ Tasks \cap Regs = {} /\ Tasks \cap Users = {} /\ Regs \cap Users = {}
    /\ TaskOf \in [Regs -> Tasks]
    /\ Role \in [Users -> SUBSET {"next", "try", "join", "close", "cancel", "shutdown"}]
    /\ Tasks # {}
    /\ \A u, v \in Users : "shutdown" \in Role[u] \cap Role[v] => u = v   \* an affine owner

VARIABLES
    tstate, fstate, cancel_requested,   \* the task and its future
    twaiters, locked,                   \* its registrations; the walk over them
    tasks, done, closed,                \* struct CielTaskGroup
    waiters, wakes,                     \* parked users; users about to be woken
    completed, settled,                 \* registrations with these two flags
    rpc,                                \* each caller of group_add
    upc, todo,                          \* each user; what it has yet to cancel
    fin, ftask,                         \* who runs task_cancel or task_finish
    added, delivered, atClose,          \* history
    joined, shutdown

taskVars == <<tstate, fstate, cancel_requested>>
groupVars == <<tasks, done, closed, waiters, wakes, completed, settled>>
finVars == <<fin, ftask>>
history == <<added, delivered, atClose, joined, shutdown>>
vars == <<taskVars, twaiters, locked, groupVars, rpc, upc, todo, finVars, history>>

\* A task finishes on its own worker, or on whoever cancels it.
Finishers == Tasks \cup Regs \cup Users

Init ==
    /\ tstate = [t \in Tasks |-> "active"]
    /\ fstate = [t \in Tasks |-> "pending"]
    /\ cancel_requested = [t \in Tasks |-> FALSE]
    /\ twaiters = [t \in Tasks |-> {}]
    /\ locked = [t \in Tasks |-> {}]
    /\ tasks = {} /\ done = <<>> /\ closed = FALSE
    /\ waiters = {} /\ wakes = {}
    /\ completed = {} /\ settled = {}
    /\ rpc = [r \in Regs |-> "idle"]
    /\ upc = [u \in Users |-> "idle"]
    /\ todo = [u \in Users |-> {}]
    /\ fin = [f \in Finishers |-> "none"]
    /\ ftask = [f \in Finishers |-> IF f \in Tasks THEN f
                                    ELSE IF f \in Regs THEN TaskOf[f]
                                    ELSE CHOOSE t \in Tasks : TRUE]
    /\ added = {} /\ delivered = <<>> /\ atClose = {}
    /\ joined = FALSE /\ shutdown = "no"

Settled(t) == fstate[t] \in {"complete", "failed"}
FinAt(f, l) == fin' = [fin EXCEPT ![f] = l]
UserAt(u, l) == upc' = [upc EXCEPT ![u] = l]

\* Everybody who waits for the group is going to be scheduled.
TakeWaiters == wakes' = wakes \cup waiters /\ waiters' = {}
-----------------------------------------------------------------------------
(* The worker of a task.                                                   *)

Poll(t) ==
    /\ fin[t] = "none" /\ tstate[t] = "active" /\ locked[t] = {}
    /\ \/ /\ fstate[t] = "pending"
          /\ fstate' = [fstate EXCEPT ![t] = "running"]
          /\ FinAt(t, "poll")
       \/ /\ Settled(t)
          /\ FinAt(t, "begin")
          /\ UNCHANGED fstate
    /\ UNCHANGED <<tstate, cancel_requested, twaiters, locked, groupVars, rpc,
                   upc, todo, ftask, history>>

\* The body returned, or has to wait; an abort that came meanwhile wins.
PollEnd(t) ==
    /\ fin[t] = "poll"
    /\ \/ /\ cancel_requested[t]
          /\ cancel_requested' = [cancel_requested EXCEPT ![t] = FALSE]
          /\ fstate' = [fstate EXCEPT ![t] = "failed"]
          /\ FinAt(t, "begin")
       \/ /\ ~cancel_requested[t]
          /\ fstate' = [fstate EXCEPT ![t] = "complete"]
          /\ FinAt(t, "begin")
          /\ UNCHANGED cancel_requested
       \/ /\ ~cancel_requested[t]
          /\ fstate' = [fstate EXCEPT ![t] = "pending"]
          /\ FinAt(t, "none")
          /\ UNCHANGED cancel_requested
    /\ UNCHANGED <<tstate, twaiters, locked, groupVars, rpc, upc, todo, ftask, history>>
-----------------------------------------------------------------------------
(* ciel_task_cancel, called by a registrar or by a user.                   *)

CallCancel(f, t) ==
    /\ fin' = [fin EXCEPT ![f] = "abort"]
    /\ ftask' = [ftask EXCEPT ![f] = t]

Abort(f) ==
    LET t == ftask[f] IN
    /\ fin[f] = "abort"
    /\ \/ /\ fstate[t] = "running"
          /\ cancel_requested' = [cancel_requested EXCEPT ![t] = TRUE]
          /\ UNCHANGED fstate
       \/ /\ fstate[t] = "pending"
          /\ fstate' = [fstate EXCEPT ![t] = "failed"]
          /\ UNCHANGED cancel_requested
       \/ /\ Settled(t)
          /\ UNCHANGED <<fstate, cancel_requested>>
    /\ FinAt(f, "inspect")
    /\ UNCHANGED <<tstate, twaiters, locked, groupVars, rpc, upc, todo, ftask, history>>

\* Mutant: the canceller finishes the task whatever its future is doing.
InspectAlways(f) ==
    /\ fin[f] = "inspect"
    /\ FinAt(f, "begin")
    /\ UNCHANGED <<taskVars, twaiters, locked, groupVars, rpc, upc, todo, ftask, history>>

\* A running poll finishes the task itself.
Inspect(f) ==
    /\ fin[f] = "inspect"
    /\ FinAt(f, IF fstate[ftask[f]] = "running" THEN "none" ELSE "begin")
    /\ UNCHANGED <<taskVars, twaiters, locked, groupVars, rpc, upc, todo, ftask, history>>
-----------------------------------------------------------------------------
(* ciel_task_finish.                                                       *)

FinishBegin(f) ==
    LET t == ftask[f] IN
    /\ fin[f] = "begin" /\ locked[t] = {}
    /\ \/ /\ tstate[t] = "active"
          /\ tstate' = [tstate EXCEPT ![t] = "cleaning"]
          /\ locked' = [locked EXCEPT ![t] = twaiters[t]]
          /\ FinAt(f, "settle")
       \/ /\ tstate[t] # "active"
          /\ FinAt(f, "none")
          /\ UNCHANGED <<tstate, locked>>
    /\ UNCHANGED <<fstate, cancel_requested, twaiters, groupVars, rpc, upc, todo,
                   ftask, history>>

\* ciel_task_settle_group_waiters_locked, one group mutex at a time.
Settle(f, r) ==
    LET t == ftask[f] IN
    /\ fin[f] = "settle" /\ r \in locked[t]
    /\ locked' = [locked EXCEPT ![t] = @ \ {r}]
    /\ settled' = IF ~closed /\ r \notin completed THEN settled \cup {r} ELSE settled
    /\ UNCHANGED <<taskVars, twaiters, tasks, done, closed, waiters, wakes, completed,
                   rpc, upc, todo, finVars, history>>

\* The resource owner was closed; the task is published, and its registrations
\* are walked again before task->mutex is released.
Publish(f) ==
    LET t == ftask[f] IN
    /\ fin[f] = "settle" /\ locked[t] = {}
    /\ tstate' = [tstate EXCEPT ![t] = "finished"]
    /\ locked' = [locked EXCEPT ![t] = twaiters[t]]
    /\ twaiters' = [twaiters EXCEPT ![t] = {}]
    /\ FinAt(f, "commit")
    /\ UNCHANGED <<fstate, cancel_requested, groupVars, rpc, upc, todo, ftask, history>>

\* Whether a completed registration is yielded.
Enqueues(r) == ~closed \/ r \in settled

Unlinked(r) == tasks \ {r}

\* ciel_task_group_complete_task_locked.
CompleteTask(r) ==
    IF r \in completed
    THEN UNCHANGED <<completed, tasks, done, waiters, wakes>>
    ELSE /\ completed' = completed \cup {r}
         /\ tasks' = Unlinked(r)
         /\ done' = IF Enqueues(r) THEN Append(done, r) ELSE done
         /\ TakeWaiters

Commit(f, r) ==
    LET t == ftask[f] IN
    /\ fin[f] = "commit" /\ r \in locked[t]
    /\ locked' = [locked EXCEPT ![t] = @ \ {r}]
    /\ CompleteTask(r)
    /\ UNCHANGED <<taskVars, twaiters, closed, settled, rpc, upc, todo, finVars, history>>

Finished(f) ==
    /\ fin[f] = "commit" /\ locked[ftask[f]] = {}
    /\ FinAt(f, "none")
    /\ UNCHANGED <<taskVars, twaiters, locked, groupVars, rpc, upc, todo, ftask, history>>
-----------------------------------------------------------------------------
(* supervisor_register: group_add, and a cancel when the group is closed.  *)

SettledWhenAdded(t) == tstate[t] # "active"

\* The error path of supervisor_register.
Reject(r) == CallCancel(r, TaskOf[r])

\* task->mutex and group->mutex are both held.
GroupAdd(r) ==
    LET t == TaskOf[r] IN
    /\ rpc[r] = "idle" /\ locked[t] = {}
    /\ \/ /\ closed
          /\ rpc' = [rpc EXCEPT ![r] = "done"]
          /\ Reject(r)
          /\ UNCHANGED <<tasks, settled, twaiters, added>>
       \/ /\ ~closed
          /\ tasks' = tasks \cup {r} /\ added' = added \cup {r}
          /\ settled' = IF SettledWhenAdded(t) THEN settled \cup {r} ELSE settled
          /\ IF tstate[t] = "finished"
             THEN rpc' = [rpc EXCEPT ![r] = "complete"] /\ UNCHANGED twaiters
             ELSE /\ rpc' = [rpc EXCEPT ![r] = "done"]
                  /\ twaiters' = [twaiters EXCEPT ![t] = @ \cup {r}]
          /\ UNCHANGED finVars
    /\ UNCHANGED <<taskVars, locked, done, closed, waiters, wakes, completed, upc,
                   todo, delivered, atClose, joined, shutdown>>

\* The task had finished before it was registered.
GroupAddCompletes(r) ==
    /\ rpc[r] = "complete"
    /\ rpc' = [rpc EXCEPT ![r] = "done"]
    /\ CompleteTask(r)
    /\ UNCHANGED <<taskVars, twaiters, locked, closed, settled, upc, todo, finVars, history>>
-----------------------------------------------------------------------------
(* Operations of the users.                                                *)

CanCall(u, op) == upc[u] = "idle" /\ fin[u] = "none" /\ op \in Role[u]

Call(u, op) ==
    /\ CanCall(u, op) /\ op \in {"next", "join"}
    /\ UserAt(u, op)
    /\ UNCHANGED <<taskVars, twaiters, locked, groupVars, rpc, todo, finVars, history>>

\* ciel_task_group_pop_done_locked, and whoever waits is scheduled again.
PopDone ==
    /\ done # <<>>
    /\ done' = Tail(done)
    /\ delivered' = Append(delivered, Head(done))
    /\ TakeWaiters

NextPoll(u) ==
    /\ upc[u] = "next"
    /\ \/ /\ PopDone
          /\ UserAt(u, "idle")
       \/ /\ done = <<>> /\ closed
          /\ UserAt(u, "idle")
          /\ UNCHANGED <<done, delivered, waiters, wakes>>
       \/ /\ done = <<>> /\ ~closed
          /\ UserAt(u, "nextPark")
          /\ UNCHANGED <<done, delivered, waiters, wakes>>
    /\ UNCHANGED <<taskVars, twaiters, locked, tasks, closed, completed, settled, rpc,
                   todo, finVars, added, atClose, joined, shutdown>>

\* Without a completion it returns EAGAIN or, when closed, EPIPE: no step.
TryNext(u) ==
    /\ CanCall(u, "try")
    /\ PopDone
    /\ UNCHANGED <<taskVars, twaiters, locked, tasks, closed, completed, settled, rpc,
                   upc, todo, finVars, added, atClose, joined, shutdown>>

JoinReady == tasks = {}

JoinPoll(u) ==
    /\ upc[u] = "join"
    /\ \/ /\ JoinReady
          /\ joined' = (joined \/ closed)
          /\ UserAt(u, "idle")
       \/ /\ ~JoinReady
          /\ UserAt(u, "joinPark")
          /\ UNCHANGED joined
    /\ UNCHANGED <<taskVars, twaiters, locked, groupVars, rpc, todo, finVars, added,
                   delivered, atClose, shutdown>>

\* Mutant: nobody looks at the group again.
GroupReadyStale(op) == FALSE

\* ciel_task_group_ready_for_mode_locked.
GroupReady(op) ==
    \/ op = "next" /\ (done # <<>> \/ closed)
    \/ op = "join" /\ JoinReady

\* The wait node is pushed in the critical section that found nothing ready.
Park(u, op) ==
    /\ \/ op = "next" /\ upc[u] = "nextPark"
       \/ op = "join" /\ upc[u] = "joinPark"
    /\ \/ GroupReady(op) /\ UserAt(u, op) /\ UNCHANGED waiters
       \/ /\ ~GroupReady(op)
          /\ waiters' = waiters \cup {u}
          /\ UserAt(u, IF op = "next" THEN "nextParked" ELSE "joinParked")
    /\ UNCHANGED <<taskVars, twaiters, locked, tasks, done, closed, wakes, completed,
                   settled, rpc, todo, finVars, history>>

\* A node that was taken schedules its user; one left behind by a user that
\* went on has no effect.
Wake(u) ==
    /\ u \in wakes
    /\ wakes' = wakes \ {u}
    /\ \/ upc[u] = "nextParked" /\ UserAt(u, "next")
       \/ upc[u] = "joinParked" /\ UserAt(u, "join")
       \/ upc[u] \notin {"nextParked", "joinParked"} /\ UNCHANGED upc
    /\ UNCHANGED <<taskVars, twaiters, locked, tasks, done, closed, waiters, completed,
                   settled, rpc, todo, finVars, history>>

\* Another arm of a select won: the future of group_next_task is dropped.
GiveUp(u) ==
    /\ upc[u] = "nextParked"
    /\ UserAt(u, "idle")
    /\ UNCHANGED <<taskVars, twaiters, locked, groupVars, rpc, todo, finVars, history>>

\* Registrations whose task had settled when the group was closed.
SettledNow ==
    {r \in added : /\ tstate[TaskOf[r]] # "active"
                   /\ ~(tstate[TaskOf[r]] = "cleaning" /\ r \in locked[TaskOf[r]])}

CloseWakes == TakeWaiters

\* ciel_task_group_close, alone or from ciel_task_group_close_resource.
CloseGroup(u, l) ==
    /\ \/ CanCall(u, "close") /\ l = "idle" /\ UNCHANGED shutdown
       \/ /\ CanCall(u, "shutdown") /\ shutdown = "no" /\ l = "cancelAll"
          /\ shutdown' = "closed"
    /\ closed' = TRUE
    /\ atClose' = IF closed THEN atClose ELSE SettledNow
    /\ CloseWakes
    /\ UserAt(u, l)
    /\ UNCHANGED <<taskVars, twaiters, locked, tasks, done, completed, settled,
                   rpc, todo, finVars, added, delivered, joined>>

\* ciel_task_group_cancel_all: the tasks are read under the lock ...
CancelAll(u) ==
    /\ CanCall(u, "cancel") \/ upc[u] = "cancelAll"
    /\ todo' = [todo EXCEPT ![u] = {TaskOf[r] : r \in tasks}]
    /\ UserAt(u, "cancelling")
    /\ UNCHANGED <<taskVars, twaiters, locked, groupVars, rpc, finVars, history>>

\* ... and cancelled one after the other without it.
CancelOne(u, t) ==
    /\ upc[u] = "cancelling" /\ fin[u] = "none" /\ t \in todo[u]
    /\ todo' = [todo EXCEPT ![u] = @ \ {t}]
    /\ CallCancel(u, t)
    /\ UNCHANGED <<taskVars, twaiters, locked, groupVars, rpc, upc, history>>

\* ciel_task_group_broadcast ends it.
CancelDone(u) ==
    /\ upc[u] = "cancelling" /\ fin[u] = "none" /\ todo[u] = {}
    /\ TakeWaiters
    /\ UserAt(u, "idle")
    /\ shutdown' = IF shutdown = "closed" /\ "shutdown" \in Role[u] THEN "done" ELSE shutdown
    /\ UNCHANGED <<taskVars, twaiters, locked, tasks, done, closed, completed, settled,
                   rpc, todo, finVars, added, delivered, atClose, joined>>
-----------------------------------------------------------------------------
Finish(f) ==
    \/ Abort(f) \/ Inspect(f) \/ FinishBegin(f) \/ Publish(f) \/ Finished(f)
    \/ \E r \in Regs : Settle(f, r) \/ Commit(f, r)

\* What a user does on the way to the end of the operation it has called.
Proceed(u) ==
    \/ NextPoll(u) \/ JoinPoll(u) \/ (\E op \in {"next", "join"} : Park(u, op)) \/ Wake(u)
    \/ upc[u] = "cancelAll" /\ CancelAll(u)
    \/ (\E t \in Tasks : CancelOne(u, t)) \/ CancelDone(u)

Next ==
    \/ \E t \in Tasks : Poll(t) \/ PollEnd(t)
    \/ \E f \in Finishers : Finish(f)
    \/ \E r \in Regs : GroupAdd(r) \/ GroupAddCompletes(r)
    \/ \E u \in Users :
         \/ Proceed(u) \/ TryNext(u) \/ GiveUp(u)
         \/ \E op \in {"next", "join"} : Call(u, op)
         \/ \E l \in {"idle", "cancelAll"} : CloseGroup(u, l)
         \/ CanCall(u, "cancel") /\ CancelAll(u)

\* A poll returns, and threads get the processor.  Nobody has to register,
\* close or cancel, and no body has to come to its end.
Fairness ==
    /\ \A t \in Tasks : WF_vars(PollEnd(t))
    /\ \A f \in Finishers : WF_vars(Finish(f))
    /\ \A r \in Regs : WF_vars(GroupAddCompletes(r))
    /\ \A u \in Users : WF_vars(Proceed(u))

Spec == Init /\ [][Next]_vars /\ Fairness
-----------------------------------------------------------------------------
(* Properties.                                                             *)

\* The variables have their types.
TypeOK ==
    /\ tstate \in [Tasks -> {"active", "cleaning", "finished"}]
    /\ fstate \in [Tasks -> {"pending", "running", "complete", "failed"}]
    /\ cancel_requested \in [Tasks -> BOOLEAN]
    /\ twaiters \in [Tasks -> SUBSET Regs] /\ locked \in [Tasks -> SUBSET Regs]
    /\ \A t \in Tasks : /\ twaiters[t] \subseteq {r \in added : TaskOf[r] = t}
                        /\ locked[t] \subseteq {r \in added : TaskOf[r] = t}
    /\ tasks \subseteq added \ completed
    /\ done \in Seq(completed) /\ closed \in BOOLEAN
    /\ waiters \subseteq Users /\ wakes \subseteq Users
    /\ completed \subseteq added /\ settled \subseteq added
    /\ rpc \in [Regs -> {"idle", "complete", "done"}]
    /\ upc \in [Users -> {"idle", "next", "nextPark", "nextParked", "join", "joinPark",
                          "joinParked", "cancelAll", "cancelling"}]
    /\ todo \in [Users -> SUBSET Tasks]
    /\ fin \in [Finishers -> {"none", "poll", "abort", "inspect", "begin", "settle", "commit"}]
    /\ ftask \in [Finishers -> Tasks]

\* "A task remains active until its poll has actually exited and task completion
\* has been published, so cancellation of a currently running poll does not let
\* `group_join` return early" (design.md): once a join has returned on a closed
\* group, no registered task is polled or cleans up any more.
JoinQuiescent ==
    joined => \A r \in added : /\ tstate[TaskOf[r]] = "finished"
                               /\ fin[TaskOf[r]] # "poll"

\* Each registration is yielded at most once, and the completions that a group
\* yields are those of the tasks that had settled when it was closed, however
\* late their cleanup ended: neither is one lost, nor is a cancellation that
\* the close caused mistaken for one (TaskCompletionDrain). Checked together with
\* the type invariant.
CompletionsExact ==
    LET yielded == delivered \o done IN
    /\ TypeOK
    /\ \A i, j \in DOMAIN yielded : yielded[i] = yielded[j] => i = j
    /\ Range(yielded) = {r \in completed : closed => r \in atClose}

\* "Concurrent registration therefore has only two outcomes: the task entered the
\* group and is covered by cancellation, or registration saw the closed group
\* and cancelled the task itself" (design.md).
RegistrationCovered ==
    shutdown = "done" =>
        \A r \in Regs : LET t == TaskOf[r] IN
            rpc[r] = "done" /\ fin[r] = "none" =>
                tstate[t] # "active" \/ Settled(t) \/ cancel_requested[t]

\* After a shutdown a join comes to its end although no body does on its own.
JoinReturns ==
    \A u \in Users :
        (upc[u] \in {"join", "joinPark", "joinParked"} /\ shutdown = "done")
            ~> (upc[u] = "idle")

\* "closing the group wakes the waiter with the closed-group error" (design.md),
\* and so does a completion: a user that waits for the next one is not left.
NextReturns ==
    \A u \in Users :
        (upc[u] \in {"next", "nextPark", "nextParked"} /\ GroupReady("next"))
            ~> (upc[u] = "idle" \/ ~GroupReady("next"))

\* Nobody who waits on the group is left behind: neither the joiner, whom the last
\* cleanup wakes, nor the one who waits for the next completion.
UsersReturn == JoinReturns /\ NextReturns

\* "distinguishes an open group with no ready task from an exhausted closed
\* group" (design.md on group_try_next_task): once a closed group has nothing to
\* yield, which is when it reports that it is exhausted, nothing is queued any more.
ExhaustedIsFinal == [][closed /\ done = <<>> => done' = <<>>]_vars

\* A join returns to a group at rest, each completion is yielded once, and whatever is
\* registered is somebody's to complete.
GroupExact == JoinQuiescent /\ CompletionsExact /\ RegistrationCovered
=============================================================================
