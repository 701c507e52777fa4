----------------------------- MODULE TcpListener -----------------------------
(***************************************************************************)
(* A TCP listener of runtime/src/async.c: the source callback accepts the  *)
(* connections of the kernel's backlog and hands them to the pending       *)
(* accept operation or queues them, while tasks start, finish and cancel   *)
(* accept operations and one closes the listener.  What an operation does  *)
(* besides (notifications, waiters, roots) is in AsyncOp.                  *)
(***************************************************************************)
EXTENDS Naturals, Sequences, Functions

CONSTANTS Ops,          \* accept operations, each with the task that runs it
          Cancellers,   \* those whose wait may be cancelled
          MaxConns,     \* connections that arrive
          MaxErrors     \* failures of accept, and of making a stream of a connection

ASSUME ListenerAssumption ==
    /\ MaxConns \in Nat /\ MaxErrors \in Nat /\ Cancellers \subseteq Ops
    /\ {"cb", "closer", "none"} \cap Ops = {}

VARIABLES
    closed, pending, queue,    \* the listener
    live,                      \* its source has not been cancelled
    arrived, taken,            \* connections that arrived, and that were accepted
    errors,
    op,                        \* the operations
    pc, job,                   \* per thread: where it is, and the completion it carries out
    cancelPc, cancelled,       \* a cancel of an operation, and the stream it took
    closing,                   \* queued streams the closer has taken
    given, shut, dropped       \* connections a finish returned, that were closed, by a cancel

vars == <<closed, pending, queue, live, arrived, taken, errors, op, pc, job, cancelPc,
          cancelled, closing, given, shut, dropped>>
listenerVars == <<closed, pending, queue>>
cancelVars == <<cancelPc, cancelled>>
fateVars == <<given, shut, dropped>>
kernelVars == <<arrived, taken, errors>>

Conns == 1..MaxConns
Threads == Ops \cup {"cb", "closer"}
None == "none"
Nobody == 0         \* a NULL stream
NoJob == [op |-> None, conn |-> Nobody]

NewOp == [complete |-> FALSE, canceled |-> FALSE, finished |-> FALSE, stream |-> Nobody]

Init ==
    /\ closed = FALSE /\ pending = None /\ queue = <<>> /\ live = TRUE
    /\ arrived = 0 /\ taken = 0 /\ errors = 0
    /\ op = [o \in Ops |-> NewOp]
    /\ pc = [t \in Threads |-> IF t = "cb" THEN "idle" ELSE "start"]
    /\ job = [t \in Threads |-> NoJob]
    /\ cancelPc = [o \in Ops |-> "start"] /\ cancelled = [o \in Ops |-> Nobody]
    /\ closing = {} /\ given = {} /\ shut = {} /\ dropped = {}

Goto(t, l) == pc' = [pc EXCEPT ![t] = l]

\* Carry out ciel_async_complete_stream for operation o with a stream, or none.
Completing(t, o, c) ==
    /\ job' = [job EXCEPT ![t] = [op |-> o, conn |-> c]]
    /\ Goto(t, "clear")

\* A client connects.
Arrive ==
    /\ arrived < MaxConns /\ ~closed
    /\ arrived' = arrived + 1
    /\ UNCHANGED <<listenerVars, live, taken, errors, op, pc, job, cancelVars, closing, fateVars>>
-----------------------------------------------------------------------------
(* The event handler of the source: accept until the backlog is empty.      *)

\* The listening socket is open until the closer is done.
Listening == pc["closer"] # "done"

Fire ==
    /\ pc["cb"] = "idle" /\ live /\ taken < arrived
    /\ Goto("cb", "loop")
    /\ UNCHANGED <<listenerVars, live, kernelVars, op, job, cancelVars, closing, fateVars>>

CbAccept ==
    /\ pc["cb"] = "loop"
    /\ \/ /\ Listening /\ taken < arrived      \* accept and wrap_accepted succeed
          /\ taken' = taken + 1
          /\ job' = [job EXCEPT !["cb"] = [op |-> None, conn |-> taken + 1]]
          /\ Goto("cb", "deliver")
          /\ UNCHANGED <<errors, shut>>
       \/ /\ Listening /\ taken < arrived /\ errors < MaxErrors
          /\ taken' = taken + 1                 \* no stream: the socket is closed again
          /\ errors' = errors + 1 /\ shut' = shut \cup {taken + 1}
          /\ Goto("cb", "error")
          /\ UNCHANGED job
       \/ /\ Listening => errors < MaxErrors    \* accept fails
          /\ errors' = IF Listening THEN errors + 1 ELSE errors
          /\ Goto("cb", "error")
          /\ UNCHANGED <<taken, shut, job>>
       \/ /\ Listening /\ taken = arrived      \* EAGAIN
          /\ Goto("cb", "idle")
          /\ UNCHANGED <<taken, errors, shut, job>>
    /\ UNCHANGED <<listenerVars, live, arrived, op, cancelVars, closing, given, dropped>>

\* ciel_async_listener_deliver_accepted.
Deliver ==
    /\ pc["cb"] = "deliver"
    /\ \/ /\ closed
          /\ shut' = shut \cup {job["cb"].conn}
          /\ job' = [job EXCEPT !["cb"] = NoJob]
          /\ Goto("cb", "loop")
          /\ UNCHANGED <<pending, queue>>
       \/ /\ ~closed /\ pending # None
          /\ pending' = None
          /\ Completing("cb", pending, job["cb"].conn)
          /\ UNCHANGED <<queue, shut>>
       \/ /\ ~closed /\ pending = None
          /\ queue' = Append(queue, job["cb"].conn)
          /\ job' = [job EXCEPT !["cb"] = NoJob]
          /\ Goto("cb", "loop")
          /\ UNCHANGED <<pending, shut>>
    /\ UNCHANGED <<closed, live, kernelVars, op, cancelVars, closing, given, dropped>>

\* ciel_async_listener_deliver_error; the handler then returns.
DeliverError ==
    /\ pc["cb"] = "error"
    /\ IF ~closed /\ pending # None
       THEN pending' = None /\ Completing("cb", pending, Nobody)
       ELSE Goto("cb", "idle") /\ UNCHANGED <<pending, job>>
    /\ UNCHANGED <<closed, queue, live, kernelVars, op, cancelVars, closing, fateVars>>
-----------------------------------------------------------------------------
(* ciel_async_complete_stream, by the callback, an accept or the closer.    *)

\* ciel_async_listener_clear_pending: only if it holds this operation.
Cleared(o) == IF pending = o THEN None ELSE pending

Clear(t) ==
    /\ pc[t] = "clear"
    /\ pending' = Cleared(job[t].op)
    /\ Goto(t, "store")
    /\ UNCHANGED <<closed, queue, live, kernelVars, op, job, cancelVars, closing, fateVars>>

AfterStore(t) ==
    CASE t = "cb" -> IF job[t].conn = Nobody THEN "idle" ELSE "loop"
      [] t = "closer" -> "drain"
      [] OTHER -> "await"

\* Mutant: the stream of a cancelled operation is forgotten.
StoreForgets(t) ==
    LET o == job[t].op  c == job[t].conn IN
    /\ pc[t] = "store"
    /\ op' = [op EXCEPT ![o].complete = TRUE, ![o].stream = IF op[o].canceled THEN @ ELSE c]
    /\ job' = [job EXCEPT ![t] = NoJob]
    /\ Goto(t, AfterStore(t))
    /\ UNCHANGED <<listenerVars, live, kernelVars, cancelVars, closing, fateVars>>

\* The result is stored, or closed if the operation was cancelled.
Store(t) ==
    LET o == job[t].op  c == job[t].conn IN
    /\ pc[t] = "store"
    /\ op' = [op EXCEPT ![o].complete = TRUE, ![o].stream = IF op[o].canceled THEN @ ELSE c]
    /\ shut' = shut \cup (IF op[o].canceled THEN {c} \ {Nobody} ELSE {})
    /\ dropped' = dropped \cup (IF op[o].canceled THEN {c} \ {Nobody} ELSE {})
    /\ job' = [job EXCEPT ![t] = NoJob]
    /\ Goto(t, AfterStore(t))
    /\ UNCHANGED <<listenerVars, live, kernelVars, cancelVars, closing, given>>
-----------------------------------------------------------------------------
(* Accept operations.                                                       *)

\* ciel_async_tcp_accept: EBADF, a queued stream, EALREADY, or the pending slot.
Accept(o) ==
    /\ pc[o] = "start"
    /\ \/ /\ closed \/ (queue = <<>> /\ pending # None)
          /\ Goto(o, "done")
          /\ UNCHANGED <<queue, pending, job>>
       \/ /\ ~closed /\ queue # <<>>
          /\ queue' = Tail(queue)
          /\ Completing(o, o, Head(queue))
          /\ UNCHANGED pending
       \/ /\ ~closed /\ queue = <<>> /\ pending = None
          /\ pending' = o
          /\ Goto(o, "await")
          /\ UNCHANGED <<queue, job>>
    /\ UNCHANGED <<closed, live, kernelVars, op, cancelVars, closing, fateVars>>

\* ciel_async_finish_accept, once the operation is ready.
Finish(o) ==
    /\ pc[o] = "await"
    /\ op[o].complete \/ op[o].canceled
    /\ op' = [op EXCEPT ![o].finished = TRUE, ![o].stream = Nobody]
    /\ given' = given \cup (IF op[o].canceled THEN {} ELSE {op[o].stream} \ {Nobody})
    /\ Goto(o, "done")
    /\ UNCHANGED <<listenerVars, live, kernelVars, job, cancelVars, closing, shut, dropped>>

\* ciel_async_cancel of a started operation: under its lock ...
Cancel(o) ==
    /\ cancelPc[o] = "start" /\ pc[o] = "await"
    /\ op' = [op EXCEPT ![o].canceled = TRUE, ![o].stream = Nobody]
    /\ cancelled' = [cancelled EXCEPT ![o] = op[o].stream]
    /\ cancelPc' = [cancelPc EXCEPT ![o] = "clear"]
    /\ UNCHANGED <<listenerVars, live, kernelVars, pc, job, closing, fateVars>>

\* ... then the slot of the listener is cleared and a stream it had is closed.
CancelClear(o) ==
    /\ cancelPc[o] = "clear"
    /\ pending' = Cleared(o)
    /\ shut' = shut \cup ({cancelled[o]} \ {Nobody})
    /\ dropped' = dropped \cup ({cancelled[o]} \ {Nobody})
    /\ cancelled' = [cancelled EXCEPT ![o] = Nobody]
    /\ cancelPc' = [cancelPc EXCEPT ![o] = "done"]
    /\ UNCHANGED <<closed, queue, live, kernelVars, op, pc, job, closing, given>>
-----------------------------------------------------------------------------
(* ciel_async_tcp_close_listener.                                           *)

\* Mutant: the pending accept is forgotten.
CloseForgets ==
    /\ pc["closer"] = "start"
    /\ closed' = TRUE /\ pending' = None /\ queue' = <<>>
    /\ closing' = Range(queue)
    /\ Goto("closer", "cancelSource")
    /\ UNCHANGED <<live, kernelVars, op, job, cancelVars, fateVars>>

Close ==
    /\ pc["closer"] = "start"
    /\ closed' = TRUE /\ pending' = None /\ queue' = <<>>
    /\ closing' = Range(queue)
    /\ job' = [job EXCEPT !["closer"] = [op |-> pending, conn |-> Nobody]]
    /\ Goto("closer", "cancelSource")
    /\ UNCHANGED <<live, kernelVars, op, cancelVars, fateVars>>

CloseSource ==
    /\ pc["closer"] = "cancelSource"
    /\ live' = FALSE
    /\ Goto("closer", IF job["closer"].op = None THEN "drain" ELSE "clear")
    /\ UNCHANGED <<listenerVars, kernelVars, op, job, cancelVars, closing, fateVars>>

\* ciel_async_close_accepted_queue and the close of the socket.
Drain ==
    /\ pc["closer"] = "drain"
    /\ shut' = shut \cup closing /\ closing' = {}
    /\ Goto("closer", "done")
    /\ UNCHANGED <<listenerVars, live, kernelVars, op, job, cancelVars, given, dropped>>
-----------------------------------------------------------------------------
Callback == Fire \/ CbAccept \/ Deliver \/ DeliverError
CloseRest == CloseSource \/ Drain
Run(o) == Accept(o) \/ Finish(o)

Next ==
    \/ Arrive \/ Callback
    \/ \E t \in Threads : Clear(t) \/ Store(t)
    \/ \E o \in Ops : Run(o)
    \/ \E o \in Cancellers : Cancel(o) \/ CancelClear(o)
    \/ Close \/ CloseRest

\* The dispatch queue runs the handler and threads run on; nobody need connect,
\* cancel or close.
Fairness ==
    /\ WF_vars(Callback) /\ WF_vars(CloseRest)
    /\ \A t \in Threads : WF_vars(Clear(t) \/ Store(t))
    /\ \A o \in Ops : WF_vars(Run(o))
    /\ \A o \in Cancellers : WF_vars(CancelClear(o))

Spec == Init /\ [][Next]_vars /\ Fairness
-----------------------------------------------------------------------------
(* Properties.                                                             *)

\* The variables have their types; a listener that is closed is empty.
TypeOK ==
    /\ pending \in Ops \cup {None} /\ queue \in Seq(Conns)
    /\ arrived \in 0..MaxConns /\ taken \in 0..arrived
    /\ op \in [Ops -> [complete : BOOLEAN, canceled : BOOLEAN, finished : BOOLEAN,
                       stream : Conns \cup {Nobody}]]
    /\ job \in [Threads -> [op : Ops \cup {None}, conn : Conns \cup {Nobody}]]
    /\ closing \cup given \cup shut \cup dropped \subseteq Conns
    /\ closed => pending = None /\ queue = <<>>

\* Where a connection is: in the queue, with operations, in the hands of threads, set
\* aside by cancels, and past the listener.
QueuedAt(c) == {i \in DOMAIN queue : queue[i] = c}
StoredIn(c) == {o \in Ops : op[o].stream = c}
CarriedBy(c) == {t \in Threads : job[t].conn = c}
SetAsideBy(c) == {o \in Ops : cancelled[o] = c}
FatesOf(c) ==
    {f \in {"closing", "given", "shut"} :
        \/ f = "closing" /\ c \in closing
        \/ f = "given" /\ c \in given
        \/ f = "shut" /\ c \in shut}

Places(c) ==
    ({"queue"} \X QueuedAt(c)) \cup ({"op"} \X StoredIn(c)) \cup ({"job"} \X CarriedBy(c))
    \cup ({"cancel"} \X SetAsideBy(c)) \cup ({"fate"} \X FatesOf(c))

\* Every accepted connection is in one place: in the queue, with an operation, in
\* the hands of a thread, returned to a task, or closed. Checked together with the
\* type invariant.
ConnectionConserved ==
    /\ TypeOK
    /\ \A c \in 1..taken : \E p \in Places(c) : Places(c) = {p}

\* A task never waits for a connection while one is queued.
NoStrandedAccept == pending # None => queue = <<>>

\* A task that waits is either in the slot or about to be completed by a thread.
WaitIsOwned ==
    \A o \in Ops :
        pc[o] = "await" /\ ~op[o].complete /\ ~op[o].canceled =>
            pending = o \/ \E t \in Threads : job[t].op = o

\* Every accepted connection is in one place, and a task that waits for one is in the
\* slot of a listener that has none, or about to be completed.
ConnectionKept == ConnectionConserved /\ NoStrandedAccept /\ WaitIsOwned

\* Once the listener is closed every accept returns.
CloseReleases == closed ~> \A o \in Ops : pc[o] \in {"done", "start"}

\* "cancelling a pending future cannot lose user-visible data" (design.md), and
\* AsyncAccept is declared cancel safe: no cancel closes a client's connection.
CancelKeepsConnection == dropped = {}
=============================================================================
