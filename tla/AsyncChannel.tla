---------------------------- MODULE AsyncChannel ----------------------------
(***************************************************************************)
(* The bounded async channel of runtime/src/async.c together with what     *)
(* waits on it: tasks, which the runtime polls, suspends and wakes through *)
(* wait nodes, and plain threads inside ciel_future_run_to_completion,     *)
(* which sleep on channel->cond.  Anybody may close either half, and a     *)
(* task may be cancelled at any moment (ciel_task_cancel).                 *)
(*                                                                         *)
(* One critical section of one mutex is one action.  The wait nodes that a *)
(* handler takes under channel->mutex are scheduled after the unlock, so   *)
(* they spend some time in flight (wakes).  Each actor performs one        *)
(* channel operation; the actor's name is the value it sends.              *)
(***************************************************************************)
EXTENDS Naturals, Sequences, FiniteSets, Functions

CONSTANTS Capacity,      \* channel->capacity
          Tasks,         \* actors that run as tasks
          Threads,       \* actors that block in run_to_completion
          Senders,       \* actors that await send
          TrySenders,    \* actors that call try_send until it is accepted
          Reservers,     \* actors that await reserve and then use the permit
          Receivers,     \* actors that await recv
          Cancellable,   \* tasks somebody may cancel, once each
          Closers        \* halves somebody may close: "sender", "receiver"

Actors == Tasks \cup Threads

ASSUME AsyncChannelAssumption ==
    /\ Capacity \in Nat \ {0}             \* capacity 0 is EINVAL in make
    /\ IsFiniteSet(Actors)
    /\ Actors = Senders \cup TrySenders \cup Reservers \cup Receivers
    /\ TrySenders \subseteq Threads
    /\ Tasks \cap Threads = {}
    /\ Reservers \cap (Senders \cup TrySenders \cup Receivers) = {}
    /\ Receivers \cap (Senders \cup TrySenders) = {}
    /\ Cancellable \subseteq Tasks
    /\ Closers \subseteq {"sender", "receiver"}

VARIABLES
    queue, reserved,                   \* head..tail (len is its length)
    sender_closed, receiver_closed,
    send_waiters, recv_waiters,        \* stacks of wait nodes, top first
    asleep,                            \* threads inside pthread_cond_wait
    permit,                            \* each reserver's permit
    tstate, scheduled,                 \* struct CielTask
    fstate, cancel_requested, pending, \* struct CielFuture of the task
    frame,                             \* where the async frame resumes
    pc,                                \* where the running actor is
    wakes,                             \* nodes taken but not yet scheduled
    canceller,                         \* where the call of cancel is
    sent, received                     \* history

chanVars == <<queue, reserved, sender_closed, receiver_closed>>
waitVars == <<send_waiters, recv_waiters, wakes, asleep>>
taskVars == <<tstate, scheduled>>
futureVars == <<fstate, cancel_requested, pending>>
history == <<sent, received>>
vars == <<chanVars, waitVars, permit, taskVars, futureVars, frame, pc,
          canceller, history>>

\* The actors in present have their operation before them; the others have ended.
InitWith(present) ==
    /\ queue = <<>> /\ reserved = 0
    /\ sender_closed = FALSE /\ receiver_closed = FALSE
    /\ send_waiters = <<>> /\ recv_waiters = <<>>
    /\ asleep = {} /\ wakes = {}
    /\ permit = [a \in Actors |-> "none"]
    /\ tstate = [t \in Tasks |-> IF t \in present THEN "active" ELSE "finished"]
    /\ scheduled = [t \in Tasks |-> t \in present]     \* ciel_task_spawn schedules
    /\ fstate = [t \in Tasks |-> IF t \in present THEN "pending" ELSE "complete"]
    /\ cancel_requested = [t \in Tasks |-> FALSE]
    /\ pending = [t \in Tasks |-> "none"]
    /\ frame = [t \in Tasks |-> "poll"]
    /\ pc = [a \in Actors |-> IF a \in Tasks THEN "idle"
                              ELSE IF a \in present THEN "poll" ELSE "done"]
    /\ canceller = [t \in Cancellable |-> "none"]
    /\ sent = <<>> /\ received = <<>>

Init == InitWith(Actors)

Goto(a, l) == pc' = [pc EXCEPT ![a] = l]
-----------------------------------------------------------------------------
(* Wait nodes and the condition variable.                                  *)

Full == Len(queue) + reserved >= Capacity

\* ciel_async_channel_ready_for_mode_locked.
SendReady == sender_closed \/ receiver_closed \/ ~Full
RecvReady == receiver_closed \/ queue # <<>> \/ sender_closed
Ready(a) == IF a \in Receivers THEN RecvReady ELSE SendReady

\* pthread_cond_signal(&channel->cond): whoever sleeps on it, sender or receiver.
SignalCond ==
    IF asleep = {} THEN asleep' = {}
    ELSE \E b \in asleep : asleep' = asleep \ {b}

Top(waiters) == IF waiters = <<>> THEN {} ELSE {Head(waiters)}
Rest(waiters) == IF waiters = <<>> THEN <<>> ELSE Tail(waiters)

\* ciel_async_channel_take_recv_waiter_locked.
TakeRecvWaiter ==
    /\ wakes' = wakes \cup Top(recv_waiters)
    /\ recv_waiters' = Rest(recv_waiters)
    /\ SignalCond
    /\ UNCHANGED send_waiters

\* Mutant: only tasks learn of the free slot.
TakeSendWaiterNoSignal ==
    /\ wakes' = wakes \cup Top(send_waiters)
    /\ send_waiters' = Rest(send_waiters)
    /\ UNCHANGED <<recv_waiters, asleep>>

\* ciel_async_channel_take_send_waiter_locked.
TakeSendWaiter ==
    /\ wakes' = wakes \cup Top(send_waiters)
    /\ send_waiters' = Rest(send_waiters)
    /\ SignalCond
    /\ UNCHANGED recv_waiters

\* ciel_async_channel_take_all_send_waiters_locked.
TakeAllSendWaiters ==
    /\ wakes' = wakes \cup Range(send_waiters)
    /\ send_waiters' = <<>>
    /\ asleep' = {}
    /\ UNCHANGED recv_waiters

\* ciel_async_channel_take_all_queued_waiters_locked.
TakeAllQueuedWaiters ==
    /\ wakes' = wakes \cup Range(send_waiters) \cup Range(recv_waiters)
    /\ send_waiters' = <<>> /\ recv_waiters' = <<>>
    /\ asleep' = {}

\* ciel_task_schedule of a node that was taken before: it is dispatched unless
\* the task is already scheduled or no longer active.
Schedule(t) ==
    /\ t \in wakes
    /\ wakes' = wakes \ {t}
    /\ scheduled' = [scheduled EXCEPT ![t] = @ \/ tstate[t] = "active"]
    /\ UNCHANGED <<chanVars, send_waiters, recv_waiters, asleep, permit, tstate,
                   futureVars, frame, pc, canceller, history>>
-----------------------------------------------------------------------------
(* The poll functions of the channel, called by tasks and threads alike.   *)

\* Where an actor is after its poll: a task returns from its run function, a
\* thread returns from block_on or goes on to wait.
Return(a) == Goto(a, IF a \in Tasks THEN "ready" ELSE "done")

\* EPIPE, in send_poll, reserve_poll, recv_poll and try_send.
PollClosed(a) ==
    /\ pc[a] = "poll"
    /\ IF a \in Receivers
       THEN receiver_closed \/ (queue = <<>> /\ sender_closed)
       ELSE sender_closed \/ receiver_closed
    /\ Return(a)
    /\ UNCHANGED <<chanVars, waitVars, permit, taskVars, futureVars, frame,
                   canceller, history>>

\* EAGAIN: the future is bound to the channel; try_send returns to its caller,
\* who tries again.
PollAgain(a) ==
    /\ pc[a] = "poll"
    /\ a \notin TrySenders
    /\ ~Ready(a)
    /\ pending' = IF a \in Tasks
                  THEN [pending EXCEPT ![a] =
                          IF a \in Receivers THEN "recv" ELSE "send"]
                  ELSE pending
    /\ Goto(a, IF a \in Tasks THEN "again" ELSE "wait")
    /\ UNCHANGED <<chanVars, waitVars, permit, taskVars, fstate,
                   cancel_requested, frame, canceller, history>>

\* ciel_async_channel_enqueue_locked and the wake-up of one receiver.
Enqueue(a) ==
    /\ queue' = Append(queue, a)
    /\ sent' = Append(sent, a)
    /\ TakeRecvWaiter
    /\ UNCHANGED <<sender_closed, receiver_closed, received>>

\* ciel_async_channel_send_poll and ciel_async_channel_try_send.
SendPoll(a) ==
    /\ pc[a] = "poll"
    /\ a \in Senders \cup TrySenders
    /\ ~sender_closed /\ ~receiver_closed /\ ~Full
    /\ Enqueue(a)
    /\ Return(a)
    /\ UNCHANGED <<reserved, permit, taskVars, futureVars, frame, canceller>>

\* ciel_async_channel_reserve_poll; the body goes on with the permit.
ReservePoll(a) ==
    /\ pc[a] = "poll"
    /\ a \in Reservers
    /\ ~sender_closed /\ ~receiver_closed /\ ~Full
    /\ reserved' = reserved + 1
    /\ permit' = [permit EXCEPT ![a] = "held"]
    /\ Goto(a, "body")
    /\ UNCHANGED <<queue, sender_closed, receiver_closed, waitVars, taskVars,
                   futureVars, frame, canceller, history>>

\* ciel_async_channel_recv_poll, the value path.
RecvPoll(a) ==
    /\ pc[a] = "poll"
    /\ a \in Receivers
    /\ ~receiver_closed /\ queue # <<>>
    /\ queue' = Tail(queue)
    /\ received' = Append(received, Head(queue))
    /\ TakeSendWaiter
    /\ Return(a)
    /\ UNCHANGED <<reserved, sender_closed, receiver_closed, permit, taskVars,
                   futureVars, frame, canceller, sent>>
-----------------------------------------------------------------------------
(* Permits.                                                                *)

Unreserve == IF reserved > 0 THEN reserved - 1 ELSE reserved

\* Mutant: a permit is good even after the receiving half was closed.
PermitSendAlways(a) ==
    /\ pc[a] = "body"
    /\ permit[a] = "held"
    /\ permit' = [permit EXCEPT ![a] = "used"]
    /\ reserved' = Unreserve
    /\ Enqueue(a)
    /\ Return(a)
    /\ UNCHANGED <<taskVars, futureVars, frame, canceller>>

\* ciel_async_send_permit_send: an open sender half is not required.
PermitSend(a) ==
    /\ pc[a] = "body"
    /\ permit[a] = "held"
    /\ permit' = [permit EXCEPT ![a] = "used"]
    /\ reserved' = Unreserve
    /\ \/ /\ receiver_closed
          /\ TakeAllSendWaiters
          /\ UNCHANGED <<queue, sender_closed, receiver_closed, history>>
       \/ /\ ~receiver_closed
          /\ Enqueue(a)
    /\ Return(a)
    /\ UNCHANGED <<taskVars, futureVars, frame, canceller>>

\* ciel_async_send_permit_release, under channel->mutex.
Release(a) ==
    /\ permit[a] = "held"
    /\ permit' = [permit EXCEPT ![a] = "used"]
    /\ reserved' = Unreserve
    /\ TakeSendWaiter
    /\ UNCHANGED <<queue, sender_closed, receiver_closed>>

\* The permit goes out of scope: its lease is closed.
PermitDrop(a) ==
    /\ pc[a] = "body"
    /\ Release(a)
    /\ Return(a)
    /\ UNCHANGED <<taskVars, futureVars, frame, canceller, history>>

\* The body awaits something else while it holds the permit.
BodyAwait(a) ==
    /\ pc[a] = "body" /\ a \in Tasks
    /\ frame[a] = "poll"                 \* bound: one such await per body
    /\ frame' = [frame EXCEPT ![a] = "body"]
    /\ pending' = [pending EXCEPT ![a] = "other"]
    /\ Goto(a, "again")
    /\ UNCHANGED <<chanVars, waitVars, permit, taskVars, fstate,
                   cancel_requested, canceller, history>>

\* ... and that other source becomes ready and schedules the suspended task.
OtherReady(t) ==
    /\ pc[t] = "idle" /\ pending[t] = "other"
    /\ ~scheduled[t] /\ t \notin wakes
    /\ wakes' = wakes \cup {t}
    /\ UNCHANGED <<chanVars, send_waiters, recv_waiters, asleep, permit,
                   taskVars, futureVars, frame, pc, canceller, history>>
-----------------------------------------------------------------------------
(* Closing.                                                                *)

CloseSender ==
    /\ "sender" \in Closers
    /\ ~sender_closed
    /\ sender_closed' = TRUE
    /\ TakeAllQueuedWaiters
    /\ UNCHANGED <<queue, reserved, receiver_closed, permit, taskVars,
                   futureVars, frame, pc, canceller, history>>

\* The queued values are dropped.
CloseReceiver ==
    /\ "receiver" \in Closers
    /\ ~receiver_closed
    /\ receiver_closed' = TRUE
    /\ queue' = <<>>
    /\ TakeAllQueuedWaiters
    /\ UNCHANGED <<reserved, sender_closed, permit, taskVars, futureVars,
                   frame, pc, canceller, history>>
-----------------------------------------------------------------------------
(* Threads: ciel_async_channel_wait_until_ready.                           *)

ThreadWait(b) ==
    /\ pc[b] = "wait" /\ b \notin asleep
    /\ \/ /\ Ready(b)
          /\ Goto(b, "poll")
          /\ UNCHANGED asleep
       \/ /\ ~Ready(b)
          /\ asleep' = asleep \cup {b}
          /\ UNCHANGED pc
    /\ UNCHANGED <<chanVars, send_waiters, recv_waiters, wakes, permit,
                   taskVars, futureVars, frame, canceller, history>>
\* pthread_cond_wait may return without a signal.
SpuriousWakeup(b) ==
    /\ b \in asleep
    /\ asleep' = asleep \ {b}
    /\ UNCHANGED <<chanVars, send_waiters, recv_waiters, wakes, permit,
                   taskVars, futureVars, frame, pc, canceller, history>>
-----------------------------------------------------------------------------
(* Tasks: ciel_task_run, ciel_future_poll, ciel_task_finish.               *)

\* ciel_task_run is dispatched.
Run(t) ==
    /\ pc[t] = "idle" /\ scheduled[t]
    /\ \/ /\ tstate[t] = "active"
          /\ Goto(t, "start")
          /\ UNCHANGED scheduled
       \/ /\ tstate[t] # "active"
          /\ scheduled' = [scheduled EXCEPT ![t] = FALSE]
          /\ UNCHANGED pc
    /\ UNCHANGED <<chanVars, waitVars, permit, tstate, futureVars, frame,
                   canceller, history>>

\* ciel_future_poll up to the call of future->run.
PollBegin(t) ==
    /\ pc[t] = "start"
    /\ \/ /\ fstate[t] = "pending"
          /\ fstate' = [fstate EXCEPT ![t] = "running"]
          /\ Goto(t, frame[t])
       \/ /\ fstate[t] # "pending"              \* cancelled meanwhile
          /\ Goto(t, "finish")
          /\ UNCHANGED fstate
    /\ UNCHANGED <<chanVars, waitVars, permit, taskVars, cancel_requested,
                   pending, frame, canceller, history>>

\* ciel_future_poll after future->run returned: a cancel that came meanwhile
\* overrides the outcome.
PollEnd(t) ==
    /\ pc[t] \in {"ready", "again"}
    /\ \/ /\ cancel_requested[t]
          /\ fstate' = [fstate EXCEPT ![t] = "failed"]
          /\ cancel_requested' = [cancel_requested EXCEPT ![t] = FALSE]
          /\ pending' = [pending EXCEPT ![t] = "none"]
          /\ Goto(t, IF pc[t] = "again" /\ pending[t] # "other" THEN "cleanup"
                     ELSE "finish")
       \/ /\ ~cancel_requested[t] /\ pc[t] = "ready"
          /\ fstate' = [fstate EXCEPT ![t] = "complete"]
          /\ pending' = [pending EXCEPT ![t] = "none"]
          /\ Goto(t, "finish")
          /\ UNCHANGED cancel_requested
       \/ /\ ~cancel_requested[t] /\ pc[t] = "again"
          /\ fstate' = [fstate EXCEPT ![t] = "pending"]
          /\ Goto(t, "suspend")
          /\ UNCHANGED <<cancel_requested, pending>>
    /\ UNCHANGED <<chanVars, waitVars, permit, taskVars, frame, canceller,
                   history>>

\* ciel_future_run_cleanup: the cleanup of the frame aborts the future it was
\* awaiting, and ciel_future_cancel of that one broadcasts the channel.
Cleanup(t) ==
    /\ pc[t] = "cleanup"
    /\ TakeAllQueuedWaiters
    /\ Goto(t, "finish")
    /\ UNCHANGED <<chanVars, permit, taskVars, futureVars, frame, canceller,
                   history>>

\* ciel_task_run after EAGAIN, under task->mutex.
Suspend(t) ==
    /\ pc[t] = "suspend"
    /\ scheduled' = [scheduled EXCEPT ![t] = FALSE]
    /\ Goto(t, IF tstate[t] = "active" THEN "snapshot" ELSE "idle")
    /\ UNCHANGED <<chanVars, waitVars, permit, tstate, futureVars, frame,
                   canceller, history>>

\* ciel_task_register_future_pending_source, under future->mutex: a future that
\* was cancelled meanwhile makes the task run again.
Snapshot(t) ==
    /\ pc[t] = "snapshot"
    /\ \/ /\ fstate[t] = "pending"
          /\ Goto(t, IF pending[t] = "other" THEN "idle" ELSE "register")
          /\ UNCHANGED wakes
       \/ /\ fstate[t] # "pending"
          /\ Goto(t, "idle")
          /\ wakes' = wakes \cup {t}
    /\ UNCHANGED <<chanVars, send_waiters, recv_waiters, asleep, permit,
                   taskVars, futureVars, frame, canceller, history>>

\* Mutant: the node is pushed without asking again whether the source is ready.
RegisterUnchecked(t) ==
    /\ pc[t] = "register"
    /\ IF t \in Receivers
       THEN recv_waiters' = <<t>> \o recv_waiters /\ UNCHANGED send_waiters
       ELSE send_waiters' = <<t>> \o send_waiters /\ UNCHANGED recv_waiters
    /\ Goto(t, "idle")
    /\ UNCHANGED <<chanVars, wakes, asleep, permit, taskVars, futureVars,
                   frame, canceller, history>>

\* ... and under channel->mutex, for the source it saw before.
Register(t) ==
    /\ pc[t] = "register"
    /\ \/ /\ Ready(t)
          /\ wakes' = wakes \cup {t}
          /\ UNCHANGED <<send_waiters, recv_waiters>>
       \/ /\ ~Ready(t) /\ t \in Receivers
          /\ recv_waiters' = <<t>> \o recv_waiters
          /\ UNCHANGED <<send_waiters, wakes>>
       \/ /\ ~Ready(t) /\ t \notin Receivers
          /\ send_waiters' = <<t>> \o send_waiters
          /\ UNCHANGED <<recv_waiters, wakes>>
    /\ Goto(t, "idle")
    /\ UNCHANGED <<chanVars, asleep, permit, taskVars, futureVars, frame,
                   canceller, history>>

\* ciel_task_finish, called by the run of the task or by its canceller: only
\* the first caller passes the state test.
FinishBegin(t) ==
    /\ \/ /\ pc[t] = "finish"
          /\ Goto(t, "idle")
          /\ scheduled' = [scheduled EXCEPT ![t] = FALSE]
          /\ UNCHANGED canceller
       \/ /\ t \in Cancellable /\ canceller[t] = "finish"
          /\ canceller' = [canceller EXCEPT ![t] = "done"]
          /\ UNCHANGED <<pc, scheduled>>
    /\ tstate' = [tstate EXCEPT ![t] = IF @ = "active" THEN "cleaning" ELSE @]
    /\ UNCHANGED <<chanVars, waitVars, permit, futureVars, frame, history>>

\* Mutant: the owner is only closed when the future completed.
OwnerCloseCompleted(t) ==
    /\ tstate[t] = "cleaning" /\ fstate[t] = "complete"
    /\ Release(t)
    /\ UNCHANGED <<taskVars, futureVars, frame, pc, canceller, history>>

\* ciel_resource_owner_close of the task's owner closes the lease of a permit
\* that is still held.
OwnerClose(t) ==
    /\ tstate[t] = "cleaning"
    /\ Release(t)
    /\ UNCHANGED <<taskVars, futureVars, frame, pc, canceller, history>>

FinishEnd(t) ==
    /\ tstate[t] = "cleaning"
    /\ permit[t] # "held"
    /\ tstate' = [tstate EXCEPT ![t] = "finished"]
    /\ UNCHANGED <<chanVars, waitVars, permit, scheduled, futureVars, frame,
                   pc, canceller, history>>
-----------------------------------------------------------------------------
(* Cancellation: ciel_task_cancel and ciel_future_cancel.                  *)

\* ciel_future_cancel, under future->mutex.
CancelFuture(t) ==
    /\ t \in Cancellable /\ canceller[t] = "none"
    /\ \/ /\ fstate[t] \in {"complete", "failed"}
          /\ canceller' = [canceller EXCEPT ![t] = "inspect"]
          /\ UNCHANGED futureVars
       \/ /\ fstate[t] = "running"
          /\ cancel_requested' = [cancel_requested EXCEPT ![t] = TRUE]
          /\ canceller' = [canceller EXCEPT ![t] = "inspect"]
          /\ UNCHANGED <<fstate, pending>>
       \/ /\ fstate[t] = "pending"
          /\ fstate' = [fstate EXCEPT ![t] = "failed"]
          /\ pending' = [pending EXCEPT ![t] = "none"]
          /\ canceller' = [canceller EXCEPT ![t] =
                 IF pending[t] \in {"send", "recv"} THEN "broadcast"
                 ELSE "inspect"]
          /\ UNCHANGED cancel_requested
    /\ UNCHANGED <<chanVars, waitVars, permit, taskVars, frame, pc, history>>

\* ciel_async_channel_broadcast, for the source of the task's future and again
\* when the cleanup of its frame aborts the future it was awaiting.
CancelBroadcast(t) ==
    /\ t \in Cancellable /\ canceller[t] \in {"broadcast", "cleanup"}
    /\ TakeAllQueuedWaiters
    /\ canceller' = [canceller EXCEPT ![t] =
           IF @ = "broadcast" THEN "cleanup" ELSE "inspect"]
    /\ UNCHANGED <<chanVars, permit, taskVars, futureVars, frame, pc, history>>

\* ciel_task_cancel reads the state of the future; a running poll finishes the
\* task by itself.
CancelInspect(t) ==
    /\ t \in Cancellable /\ canceller[t] = "inspect"
    /\ canceller' = [canceller EXCEPT ![t] =
           IF fstate[t] = "running" THEN "done" ELSE "finish"]
    /\ UNCHANGED <<chanVars, waitVars, permit, taskVars, futureVars, frame, pc,
                   history>>
-----------------------------------------------------------------------------
Poll(a) == PollClosed(a) \/ PollAgain(a) \/ SendPoll(a) \/ ReservePoll(a) \/ RecvPoll(a)
UsePermit(a) == PermitSend(a) \/ PermitDrop(a)
TaskStep(t) ==
    \/ Run(t) \/ PollBegin(t) \/ PollEnd(t) \/ Cleanup(t) \/ Suspend(t)
    \/ Snapshot(t) \/ Register(t) \/ FinishBegin(t) \/ OwnerClose(t) \/ FinishEnd(t)
CancelStep(t) == CancelFuture(t) \/ CancelBroadcast(t) \/ CancelInspect(t)

Next ==
    \/ \E a \in Actors : Poll(a) \/ UsePermit(a) \/ BodyAwait(a)
    \/ \E b \in Threads : ThreadWait(b) \/ SpuriousWakeup(b)
    \/ \E t \in Tasks : TaskStep(t) \/ Schedule(t) \/ OtherReady(t) \/ CancelStep(t)
    \/ CloseSender \/ CloseReceiver

\* Dispatched work runs, a body that holds a permit goes on, threads get the
\* processor; nobody has to cancel, to close, or to await something else.
Fairness ==
    /\ \A a \in Actors : WF_vars(Poll(a)) /\ WF_vars(UsePermit(a))
    /\ \A b \in Threads : WF_vars(ThreadWait(b))
    /\ \A t \in Tasks : /\ WF_vars(TaskStep(t)) /\ WF_vars(Schedule(t))
                        /\ WF_vars(OtherReady(t))
                        /\ WF_vars(CancelBroadcast(t) \/ CancelInspect(t))

Spec == Init /\ [][Next]_vars /\ Fairness
-----------------------------------------------------------------------------
(* Properties.                                                             *)

\* The variables have their types (the structs of async.c).
TypeOK ==
    /\ queue \in Seq(Actors) /\ reserved \in Nat
    /\ sender_closed \in BOOLEAN /\ receiver_closed \in BOOLEAN
    /\ send_waiters \in Seq(Tasks) /\ recv_waiters \in Seq(Tasks)
    /\ asleep \subseteq Threads /\ wakes \subseteq Tasks
    /\ permit \in [Actors -> {"none", "held", "used"}]
    /\ tstate \in [Tasks -> {"active", "cleaning", "finished"}]
    /\ scheduled \in [Tasks -> BOOLEAN]
    /\ fstate \in [Tasks -> {"pending", "running", "complete", "failed"}]
    /\ cancel_requested \in [Tasks -> BOOLEAN]
    /\ pending \in [Tasks -> {"none", "send", "recv", "other"}]
    /\ frame \in [Tasks -> {"poll", "body"}]
    /\ pc \in [Actors -> {"idle", "start", "poll", "body", "ready", "again",
                          "cleanup", "suspend", "snapshot", "register",
                          "finish", "wait", "done"}]
    /\ canceller \in [Cancellable -> {"none", "broadcast", "cleanup",
                                      "inspect", "finish", "done"}]
    /\ sent \in Seq(Actors) /\ received \in Seq(Actors)

Held == {a \in Actors : permit[a] = "held"}

\* Queued values and outstanding permits together never exceed the capacity,
\* and channel->reserved counts exactly the permits that are neither used nor
\* released, whoever sends, drops, cancels or closes in whatever order.
CapacityRespected ==
    /\ Len(queue) + reserved <= Capacity
    /\ reserved = Cardinality(Held)

\* An active task that is going to poll the channel again before it parks.
OnItsWay(t) ==
    /\ tstate[t] = "active"
    /\ scheduled[t] \/ t \in wakes \/ pc[t] \in {"snapshot", "register"}
    /\ pc[t] \notin {"ready", "body", "finish"} /\ frame[t] = "poll"

NobodyCancelled == \A t \in Cancellable : canceller[t] = "none"

\* While a receiver is parked in recv_waiters, every queued value has a receiver on
\* its way to it, and while a sender is parked in send_waiters so has every free slot.
EnoughOnTheWay ==
    /\ recv_waiters # <<>> =>
          Len(queue) <= Cardinality({t \in Receivers \cap Tasks : OnItsWay(t)})
    /\ send_waiters # <<>> =>
          Capacity - (Len(queue) + reserved) <=
              Cardinality({t \in Tasks \ Receivers : OnItsWay(t)})

\* As long as no task is cancelled, waking one waiter per event is enough, however
\* many are parked: no task sleeps beside a value or a free slot that nobody is on the
\* way to.  A cancel can leave a dead node behind that swallows a wake-up.
NoLostWake == NobodyCancelled => EnoughOnTheWay

\* A task finishes, or is cancelled, or drops its permit: in the end every
\* reserved slot is given back.
PermitsReturn == \A a \in Actors : permit[a] = "held" ~> permit[a] = "used"

\* Nobody stays parked for ever while the operation it waits for could go
\* ahead, tasks in the wait lists and threads on the condition variable alike.
NobodyStranded ==
    \A a \in Actors :
        []<>~(/\ a \in Range(send_waiters) \cup Range(recv_waiters) \cup asleep
              /\ a \in Tasks => tstate[a] = "active"
              /\ Ready(a))

\* The abstract channel: what was sent and received, and who holds a permit.
Abstract == INSTANCE BoundedChannel WITH
    Clients <- Actors,
    held <- Held

\* Polls, wait nodes, cancellation and cleanup implement the bounded channel.
RefinesBoundedChannel == Abstract!Spec
=============================================================================
