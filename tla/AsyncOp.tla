------------------------------- MODULE AsyncOp -------------------------------
(***************************************************************************)
(* One asynchronous operation of runtime/src/async.c (struct CielAsyncOp): *)
(* its completion by a callback of libdispatch, the threads that finish,   *)
(* cancel and attach a notification to it, and what they own: the          *)
(* descriptor of a connect, the boxed message, the waiters, the root.      *)
(* "io" is a file read or write, whose callback always comes; the others   *)
(* have a dispatch source, which stops when it is cancelled.  Bytes and    *)
(* counts are the result; only a connect has one that must be closed.      *)
(***************************************************************************)
EXTENDS Naturals, FiniteSets

CONSTANTS Kinds, Finishers, Cancellers, Notifiers,
          MaxRefusals     \* messages the actor refuses because it is closing

ASSUME OpAssumption ==
    /\ Kinds \subseteq {"io", "tcp", "sleep", "connect"}
    /\ MaxRefusals \in Nat
    /\ "cb" \notin Finishers \cup Cancellers \cup Notifiers
    /\ IsFiniteSet(Finishers \cup Cancellers \cup Notifiers)
    /\ Finishers \cap (Cancellers \cup Notifiers) = {} /\ Cancellers \cap Notifiers = {}

VARIABLES
    kind, op, live, elapsed,   \* the operation, its source, and whether its time is up
    pc, out, wakes, desc,      \* per thread: outcome, waiters and descriptor in hand
    ret,                       \* what finish returned
    closes,                    \* close calls on the descriptor it works on
    delivered, freed, refusals,    \* boxes sent to the actor, freed, and refused
    early                      \* history: a cancel came before the completion

vars == <<kind, op, live, elapsed, pc, out, wakes, desc, ret, closes, delivered, freed,
          refusals, early>>
boxVars == <<delivered, freed, refusals>>
localVars == <<out, wakes, desc>>

Threads == {"cb"} \cup Finishers \cup Cancellers \cup Notifiers
Outcomes == {"ok", "err", "EPIPE"}

\* ciel_async_op_new, and a start that is pending or completes at once.
Pending == [complete |-> FALSE, canceled |-> FALSE, finished |-> FALSE, error |-> "ok",
            result |-> FALSE, notify |-> "unset", box |-> FALSE, source |-> kind # "io",
            raw |-> kind = "connect", waiters |-> {}, pinned |-> TRUE]
Immediate(e) == [Pending EXCEPT !.complete = TRUE, !.error = e, !.result = (e = "ok"),
                                !.source = FALSE, !.raw = FALSE]

Init ==
    /\ kind \in Kinds
    /\ \/ op = Pending /\ live = (kind # "io") /\ out = [t \in Threads |-> "ok"]
       \/ \E e \in IF kind = "sleep" THEN {"ok"} ELSE {"ok", "err"} :
              op = Immediate(e) /\ live = FALSE /\ out = [t \in Threads |-> e]
    /\ closes = IF kind = "connect" /\ op.error = "err" THEN 1 ELSE 0
    /\ elapsed = FALSE
    /\ pc = [t \in Threads |-> IF t \in Finishers THEN "finish"
                               ELSE IF t # "cb" THEN "start"
                               ELSE IF op.complete THEN "done" ELSE "armed"]
    /\ wakes = [t \in Threads |-> {}] /\ desc = [t \in Threads |-> FALSE]
    /\ ret = [f \in Finishers |-> "none"]
    /\ delivered = 0 /\ freed = 0 /\ refusals = 0 /\ early = FALSE

Goto(t, l) == pc' = [pc EXCEPT ![t] = l]

\* The deadline of a sleep passes.
TimePasses ==
    /\ kind = "sleep" /\ ~elapsed
    /\ elapsed' = TRUE
    /\ UNCHANGED <<kind, op, live, pc, localVars, ret, closes, boxVars, early>>
-----------------------------------------------------------------------------
(* Completion: by the callback, or by a finish of a sleep whose time is up. *)

Fire ==
    /\ pc["cb"] = "armed"
    /\ kind = "io" \/ live
    /\ kind = "sleep" => elapsed
    /\ \E e \in {"ok", "err"} : out' = [out EXCEPT !["cb"] = e]
    /\ Goto("cb", CASE kind = "io" -> "complete" [] kind = "connect" -> "takeRaw"
                    [] OTHER -> "cancelSource")
    /\ UNCHANGED <<kind, op, live, elapsed, wakes, desc, ret, closes, boxVars, early>>

\* ciel_async_take_raw_fd in the callback of a connect: without the descriptor it
\* returns, unless it could not attach; a connect that failed closes it.
TakeRaw ==
    /\ pc["cb"] = "takeRaw"
    /\ op' = [op EXCEPT !.raw = FALSE]
    /\ desc' = [desc EXCEPT !["cb"] = op.raw /\ out["cb"] = "ok"]
    /\ closes' = closes + IF op.raw /\ out["cb"] # "ok" THEN 1 ELSE 0
    /\ Goto("cb", IF op.raw \/ out["cb"] = "err" THEN "cancelSource" ELSE "done")
    /\ UNCHANGED <<kind, live, elapsed, out, wakes, ret, boxVars, early>>

\* ciel_async_cancel_source.
CancelSource(t) ==
    /\ pc[t] = "cancelSource"
    /\ op' = [op EXCEPT !.source = FALSE]
    /\ live' = (live /\ ~op.source)
    /\ Goto(t, "complete")
    /\ UNCHANGED <<kind, elapsed, localVars, ret, closes, boxVars, early>>

\* The guards of ciel_async_send_notification_locked.
Notifies(o) == o.complete /\ ~o.canceled /\ o.notify = "set" /\ o.box

\* Takes the box, if it is to be sent, while the lock is still held.
TakeBox(t, o) ==
    IF Notifies(o)
    THEN op' = [o EXCEPT !.notify = "sent", !.box = FALSE] /\ Goto(t, "notify")
    ELSE op' = o /\ Goto(t, "wake")

\* Mutant: the waiters stay with the operation.
CompleteForgets(t) ==
    /\ pc[t] = "complete" /\ kind # "connect"
    /\ \/ /\ op.complete \/ op.finished
          /\ Goto(t, "wake")
          /\ UNCHANGED <<op, wakes>>
       \/ /\ ~op.complete /\ ~op.finished
          /\ TakeBox(t, [op EXCEPT !.complete = TRUE,
                                   !.error = IF op.canceled THEN @ ELSE out[t],
                                   !.result = IF op.canceled THEN @ ELSE TRUE])
          /\ UNCHANGED wakes
    /\ UNCHANGED <<kind, live, elapsed, out, desc, ret, closes, boxVars, early>>

\* ciel_async_complete.
Complete(t) ==
    /\ pc[t] = "complete" /\ kind # "connect"
    /\ \/ /\ op.complete \/ op.finished
          /\ Goto(t, "wake")
          /\ UNCHANGED <<op, wakes>>
       \/ /\ ~op.complete /\ ~op.finished
          /\ wakes' = [wakes EXCEPT ![t] = op.waiters]
          /\ TakeBox(t, [op EXCEPT !.complete = TRUE, !.waiters = {},
                                   !.error = IF op.canceled THEN @ ELSE out[t],
                                   !.result = IF op.canceled THEN @ ELSE TRUE])
    /\ UNCHANGED <<kind, live, elapsed, out, desc, ret, closes, boxVars, early>>

\* Mutant: the result is stored whether or not the operation was cancelled.
CompleteStreamAlways(t) ==
    /\ pc[t] = "complete" /\ kind = "connect"
    /\ wakes' = [wakes EXCEPT ![t] = op.waiters]
    /\ desc' = [desc EXCEPT ![t] = FALSE]
    /\ TakeBox(t, [op EXCEPT !.complete = TRUE, !.waiters = {}, !.error = out[t],
                             !.result = desc[t]])
    /\ UNCHANGED <<kind, live, elapsed, out, ret, closes, boxVars, early>>

\* ciel_async_complete_stream: a cancelled operation leaves the stream in hand.
CompleteStream(t) ==
    /\ pc[t] = "complete" /\ kind = "connect"
    /\ wakes' = [wakes EXCEPT ![t] = op.waiters]
    /\ desc' = [desc EXCEPT ![t] = @ /\ op.canceled]
    /\ TakeBox(t, [op EXCEPT !.complete = TRUE, !.waiters = {},
                             !.error = IF op.canceled THEN @ ELSE out[t],
                             !.result = IF op.canceled THEN @ ELSE desc[t]])
    /\ UNCHANGED <<kind, live, elapsed, out, ret, closes, boxVars, early>>

\* ciel_actor_send, without the lock; a refused message is freed by the actor ...
NotifySend(t) ==
    /\ pc[t] = "notify"
    /\ \/ /\ delivered' = delivered + 1 /\ Goto(t, "wake")
          /\ UNCHANGED <<freed, refusals>>
       \/ /\ refusals < MaxRefusals
          /\ refusals' = refusals + 1 /\ freed' = freed + 1 /\ Goto(t, "refused")
          /\ UNCHANGED delivered
    /\ UNCHANGED <<kind, op, live, elapsed, localVars, ret, closes, early>>

\* ... and the lock is taken again to record the error.
NotifyRefused(t) ==
    /\ pc[t] = "refused"
    /\ op' = [op EXCEPT !.error = "EPIPE"]
    /\ Goto(t, "wake")
    /\ UNCHANGED <<kind, live, elapsed, localVars, ret, closes, boxVars, early>>

\* ciel_task_schedule_waiters; then the stream of a cancelled operation is closed.
Wake(t) ==
    /\ pc[t] = "wake"
    /\ pc' = [p \in Threads |-> IF p \in wakes[t] THEN "finish"
                                ELSE IF p # t THEN pc[p]
                                ELSE IF t \in Finishers THEN "finish" ELSE "done"]
    /\ wakes' = [wakes EXCEPT ![t] = {}]
    /\ desc' = [desc EXCEPT ![t] = FALSE]
    /\ closes' = closes + IF desc[t] THEN 1 ELSE 0
    /\ UNCHANGED <<kind, op, live, elapsed, out, ret, boxVars, early>>
-----------------------------------------------------------------------------
(* ciel_async_finish_read, _write, _stream and _sleep, by a future's poll.  *)

Return(f, r) == ret' = [ret EXCEPT ![f] = r] /\ Goto(f, "done")

\* Mutant: the operation is not marked as finished.
FinishedAgain(o) == [o EXCEPT !.result = FALSE, !.pinned = FALSE]

Finished(o) == [o EXCEPT !.finished = TRUE, !.result = FALSE, !.pinned = FALSE]

Finish(f) ==
    /\ pc[f] = "finish"
    /\ \/ /\ op.finished
          /\ Return(f, "EALREADY") /\ UNCHANGED op
       \/ /\ ~op.finished /\ op.canceled
          /\ Return(f, "ECANCELED") /\ op' = Finished(op)
       \/ /\ ~op.finished /\ ~op.canceled /\ ~op.complete
          /\ Goto(f, IF kind = "sleep" THEN "deadline" ELSE "park")
          /\ UNCHANGED <<op, ret>>
       \/ /\ ~op.finished /\ ~op.canceled /\ op.complete
          /\ Return(f, op.error) /\ op' = Finished(op)
    /\ UNCHANGED <<kind, live, elapsed, localVars, closes, boxVars, early>>

\* ciel_async_complete_sleep_if_deadline_elapsed.
Deadline(f) ==
    /\ pc[f] = "deadline"
    /\ Goto(f, IF op.complete \/ op.canceled \/ op.finished THEN "finish"
               ELSE IF elapsed THEN "cancelSource" ELSE "park")
    /\ out' = [out EXCEPT ![f] = "ok"]
    /\ UNCHANGED <<kind, op, live, elapsed, wakes, desc, ret, closes, boxVars, early>>

\* The task of the future registers itself, unless the operation is ready.
Park(f) ==
    /\ pc[f] = "park"
    /\ \/ /\ op.complete \/ op.canceled \/ op.finished
          /\ Goto(f, "finish") /\ UNCHANGED op
       \/ /\ ~(op.complete \/ op.canceled \/ op.finished)
          /\ op' = [op EXCEPT !.waiters = @ \cup {f}]
          /\ Goto(f, "parked")
    /\ UNCHANGED <<kind, live, elapsed, localVars, ret, closes, boxVars, early>>
-----------------------------------------------------------------------------
(* ciel_async_cancel and ciel_async_notify.                                 *)

Cancelled(o) == [o EXCEPT !.canceled = TRUE, !.box = FALSE, !.waiters = {}, !.source = FALSE,
                          !.raw = FALSE, !.result = IF kind = "connect" THEN FALSE ELSE @]

\* Under the lock, everything the operation owns is taken.
Cancel(c) ==
    /\ pc[c] = "start"
    /\ \/ /\ op.finished
          /\ Goto(c, "done")
          /\ UNCHANGED <<op, live, wakes, desc, freed, early>>
       \/ /\ ~op.finished
          /\ op' = Cancelled(op)
          /\ wakes' = [wakes EXCEPT ![c] = op.waiters]
          /\ desc' = [desc EXCEPT ![c] = op.raw \/ (kind = "connect" /\ op.result)]
          /\ freed' = freed + IF op.box THEN 1 ELSE 0
          /\ early' = (early \/ ~op.complete)
          /\ Goto(c, IF op.source \/ kind \in {"io", "tcp"} THEN "stopSource" ELSE "wake")
          /\ UNCHANGED live
    /\ UNCHANGED <<kind, elapsed, out, ret, closes, delivered, refusals>>

\* A read or write has its file or stream closed, whichever cancel this is (a second
\* ciel_async_close finds it closed, or gives up a reference of the other half); then
\* dispatch_source_cancel.  All of it happens before the waiters are woken.
StopSource(c) ==
    /\ pc[c] = "stopSource"
    /\ closes' = closes + IF kind \in {"io", "tcp"} THEN 1 ELSE 0
    /\ live' = FALSE
    /\ Goto(c, "wake")
    /\ UNCHANGED <<kind, op, elapsed, localVars, ret, boxVars, early>>

\* ciel_async_notify: one notification for each operation.
Notify(n) ==
    /\ pc[n] = "start"
    /\ \/ /\ op.notify # "unset" \/ op.canceled
          /\ freed' = freed + 1 /\ Goto(n, "done")
          /\ UNCHANGED op
       \/ /\ op.notify = "unset" /\ ~op.canceled
          /\ TakeBox(n, [op EXCEPT !.notify = "set", !.box = TRUE])
          /\ UNCHANGED freed
    /\ UNCHANGED <<kind, live, elapsed, localVars, ret, closes, delivered, refusals, early>>
-----------------------------------------------------------------------------
Step(t) ==
    \/ CancelSource(t) \/ Complete(t) \/ CompleteStream(t)
    \/ NotifySend(t) \/ NotifyRefused(t) \/ Wake(t)

Poll(f) == Finish(f) \/ Deadline(f) \/ Park(f)

Next ==
    \/ TimePasses \/ Fire \/ TakeRaw
    \/ \E t \in Threads : Step(t)
    \/ \E f \in Finishers : Poll(f)
    \/ \E c \in Cancellers : Cancel(c) \/ StopSource(c)
    \/ \E n \in Notifiers : Notify(n)

\* Time passes, the event of a live source comes, and threads run on.
Fairness ==
    /\ WF_vars(TimePasses) /\ WF_vars(Fire) /\ WF_vars(TakeRaw)
    /\ \A t \in Threads : WF_vars(Step(t))
    /\ \A f \in Finishers : WF_vars(Poll(f))
    /\ \A c \in Cancellers : WF_vars(StopSource(c))

Spec == Init /\ [][Next]_vars /\ Fairness
-----------------------------------------------------------------------------
(* Properties.                                                             *)

Flag(b) == IF b THEN 1 ELSE 0

\* The variables have their types.
TypeOK ==
    /\ kind \in Kinds
    /\ op \in [complete : BOOLEAN, canceled : BOOLEAN, finished : BOOLEAN, error : Outcomes,
               result : BOOLEAN, notify : {"unset", "set", "sent"}, box : BOOLEAN,
               source : BOOLEAN, raw : BOOLEAN, waiters : SUBSET Finishers, pinned : BOOLEAN]
    /\ op.box => op.notify = "set"
    /\ wakes \in [Threads -> SUBSET Finishers]
    /\ ret \in [Finishers -> Outcomes \cup {"none", "EALREADY", "ECANCELED"}]
    /\ {closes, delivered, freed, refusals} \subseteq Nat

\* The socket of a connect is in one place only: with the operation, in the hands
\* of one thread, handed out by one finish, or closed once.  (A notification that the
\* actor refuses puts its code into op->error, and the finish then drops the stream.)
DescriptorConserved ==
    kind = "connect" /\ refusals = 0 =>
        Flag(op.raw) + Flag(op.result)
        + Cardinality({t \in Threads : desc[t]})
        + Cardinality({f \in Finishers : ret[f] = "ok"}) + closes = 1

\* "Exactly one path may consume the result" (dispatch-actor-io-runtime.md): one
\* finish returns it, and none does that came after a cancel. Checked together with
\* the type invariant.
OneFinish ==
    /\ TypeOK
    /\ Cardinality({f \in Finishers : ret[f] \notin {"none", "EALREADY"}}) <= 1
    /\ early => \A f \in Finishers : ret[f] \in {"none", "EALREADY", "ECANCELED"}

\* "Exactly one path may consume the ... notification box": every box is with the
\* operation, on its way to the actor, delivered or freed, and one is delivered.
BoxConserved ==
    /\ delivered <= 1
    /\ Cardinality({n \in Notifiers : pc[n] # "start"}) =
           Flag(op.box) + Cardinality({t \in Threads : pc[t] = "notify"}) + delivered + freed

\* "cancel before completion does not send the completion message"
\* (dispatch-actor-io-runtime.md).
NoNoticeAfterCancel == early => delivered = 0 /\ \A t \in Threads : pc[t] # "notify"

\* A task that awaits the operation is woken by completion and by cancellation.
AwaitReturns == \A f \in Finishers : (pc[f] = "parked") ~> (pc[f] = "done")

\* "release those roots after the dispatch callback no longer needs them"
\* (dispatch-actor-io-runtime.md): the root is held while a callback may come.
RootOutlivesCallback ==
    (pc["cb"] = "armed" /\ (kind = "io" \/ live)) \/ pc["cb"] \notin {"armed", "done"}
        => op.pinned

\* "if the final error is `0`, return `Ok(Bytes)`" (dispatch-actor-io-runtime.md).
FinalErrorKept == op.complete /\ ~op.canceled /\ out["cb"] = "ok" => op.error = "ok"

\* Result and message box have one consumer each, and a cancel that came first is
\* followed by neither.
ConsumedOnce == OneFinish /\ BoxConserved /\ NoNoticeAfterCancel
=============================================================================
