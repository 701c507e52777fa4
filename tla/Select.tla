------------------------------- MODULE Select -------------------------------
(***************************************************************************)
(* A select of runtime/src/async.c: one future that races its arms.  It    *)
(* is driven by a thread that blocks (run_to_completion), where the event  *)
(* of an arm runs ciel_select_wake_arm on a dispatch thread, or by a task, *)
(* where it schedules the task and where the task may be cancelled.  An    *)
(* arm i waits for Stages[i] events, one source after the other; another   *)
(* consumer may take an event away before the arm is polled.               *)
(***************************************************************************)
EXTENDS Naturals, Sequences, FiniteSets

CONSTANTS Drivers,      \* "block", "task"
          Bias,         \* subset of BOOLEAN: biased and default selects
          Arms, Stages, \* 1..Arms, and the number of sources each arm waits for
          Workers,      \* dispatch threads
          MaxEvents, MaxSteals, MaxFailures, MaxAborts

\* What the constants are.
SelectAssumption ==
    /\ Drivers \subseteq {"block", "task"} /\ Bias \subseteq BOOLEAN
    /\ Arms \in Nat \ {0} /\ Stages \in [1..Arms -> Nat \ {0}]
    /\ {MaxEvents, MaxSteals, MaxFailures, MaxAborts} \subseteq Nat
    /\ {"main", "abort", "nobody"} \cap Workers = {}

ASSUME SelectConstants == SelectAssumption

VARIABLES
    driver, biased,
    state, winner,             \* the select set
    self, cancelReq,           \* its future: state, and a cancel while it runs
    fut,                       \* the future of each arm: state and stage
    ready,                     \* sources with an event, as <<arm, stage>>
    nodes, taskNodes,          \* waiters of the sources: select nodes, task nodes
    jobs, sched,               \* wakes of each arm on the dispatch queue; the task is scheduled
    lock,                      \* holder of poll_mutex
    pc, todo, consumed,        \* per thread: the arms still to poll, the arm it was woken for
    flag,                      \* should_poll of a registration
    events, steals, failures

vars == <<driver, biased, state, winner, self, cancelReq, fut, ready, nodes, taskNodes, jobs,
          sched, lock, pc, todo, consumed, flag, events, steals, failures>>
setVars == <<state, winner>>
selfVars == <<self, cancelReq>>
sourceVars == <<ready, nodes, taskNodes>>
wakeVars == <<jobs, sched>>
bounds == <<driver, biased, events, steals, failures>>

ArmSet == 1..Arms
Sources == UNION {{i} \X (1..Stages[i]) : i \in ArmSet}
Threads == Workers \cup {"main", "abort"}
Nobody == "nobody"
NoArm == 0

Init ==
    /\ driver \in Drivers /\ biased \in Bias
    /\ state = "pending" /\ winner = NoArm /\ self = "pending" /\ cancelReq = FALSE
    /\ fut = [i \in ArmSet |-> [st |-> "pending", stage |-> 1]]
    /\ ready = {} /\ nodes = [s \in Sources |-> 0] /\ taskNodes = {}
    /\ jobs = [i \in ArmSet |-> 0] /\ sched = FALSE
    /\ lock = Nobody
    /\ pc = [t \in Threads |-> IF t = "main" THEN "run" ELSE IF t = "abort" THEN "start" ELSE "idle"]
    /\ todo = [t \in Threads |-> <<>>] /\ consumed = [t \in Threads |-> NoArm]
    /\ flag = FALSE /\ events = 0 /\ steals = 0 /\ failures = 0

Goto(t, l) == pc' = [pc EXCEPT ![t] = l]
-----------------------------------------------------------------------------
(* Events of the sources.                                                   *)

\* A source becomes ready and takes its waiters: select nodes go to the dispatch
\* queue, a task node schedules the task.
Event(s) ==
    /\ s \notin ready /\ events < MaxEvents
    /\ ready' = ready \cup {s} /\ events' = events + 1
    /\ jobs' = [jobs EXCEPT ![s[1]] = @ + nodes[s]] /\ nodes' = [nodes EXCEPT ![s] = 0]
    /\ sched' = (sched \/ s \in taskNodes) /\ taskNodes' = taskNodes \ {s}
    /\ UNCHANGED <<driver, biased, setVars, selfVars, fut, lock, pc, todo, consumed, flag, steals,
                   failures>>

\* Another consumer takes it.
Steal(s) ==
    /\ s \in ready /\ steals < MaxSteals
    /\ ready' = ready \ {s} /\ steals' = steals + 1
    /\ UNCHANGED <<driver, biased, setVars, selfVars, fut, nodes, taskNodes, wakeVars, lock, pc,
                   todo, consumed, flag, events, failures>>
-----------------------------------------------------------------------------
(* Polling, under poll_mutex, by the driver and by woken arms.              *)

Stopped == state # "pending"

\* Where a thread that polled nothing, or everything in vain, goes on.
Back(t) == IF t = "main" THEN "recheck" ELSE "idle"

\* Mutant: the state is not looked at again under the lock.
LockUnchecked(t) ==
    /\ pc[t] = "lock" /\ lock = Nobody
    /\ lock' = t /\ Goto(t, "poll")
    /\ UNCHANGED <<bounds, setVars, selfVars, fut, sourceVars, wakeVars, todo, consumed, flag>>

Lock(t) ==
    /\ pc[t] = "lock" /\ lock = Nobody
    /\ IF Stopped THEN Goto(t, Back(t)) /\ UNCHANGED lock ELSE lock' = t /\ Goto(t, "poll")
    /\ UNCHANGED <<bounds, setVars, selfVars, fut, sourceVars, wakeVars, todo, consumed, flag>>

\* ciel_future_poll of an arm ...
PollBegin(t) ==
    LET i == Head(todo[t]) IN
    /\ pc[t] = "poll" /\ fut[i].st = "pending"
    /\ fut' = [fut EXCEPT ![i].st = "running"]
    /\ Goto(t, "polling")
    /\ UNCHANGED <<bounds, setVars, selfVars, sourceVars, wakeVars, lock, todo, consumed, flag>>

\* The stage the arm gets to: it goes through every source that has an event.
Reached(i) ==
    CHOOSE s \in fut[i].stage..(Stages[i] + 1) :
        /\ \A k \in fut[i].stage..(s - 1) : <<i, k>> \in ready
        /\ s = Stages[i] + 1 \/ <<i, s>> \notin ready

\* The loop goes to the next arm, or ends with the lock released.
NextArm(t) ==
    /\ todo' = [todo EXCEPT ![t] = Tail(@)]
    /\ IF Len(todo[t]) = 1
       THEN lock' = Nobody /\ Goto(t, Back(t))
       ELSE Goto(t, "poll") /\ UNCHANGED lock

\* ... ends with a result, or with EAGAIN; a woken arm is then armed again, under
\* the lock in a biased select, together with arms that wait for another source.
PollEnd(t) ==
    LET i == Head(todo[t])  s == Reached(i) IN
    /\ pc[t] = "polling"
    /\ ready' = ready \ {<<i, k>> : k \in fut[i].stage..(s - 1)}
    /\ \/ /\ s > Stages[i]
          /\ fut' = [fut EXCEPT ![i].st = "complete"]
          /\ Goto(t, "claim")
          /\ UNCHANGED <<lock, todo>>
       \/ /\ s <= Stages[i]
          /\ fut' = [fut EXCEPT ![i] = [st |-> "pending", stage |-> s]]
          /\ IF t = "main" \/ (biased /\ consumed[t] # i /\ s = fut[i].stage)
             THEN NextArm(t)
             ELSE /\ lock' = IF biased THEN lock ELSE Nobody
                  /\ Goto(t, "rearm") /\ UNCHANGED todo
    /\ UNCHANGED <<bounds, setVars, selfVars, nodes, taskNodes, wakeVars, consumed, flag>>

\* ciel_select_rearm: a node at the source, or another wake if that is ready or the
\* arm was cancelled meanwhile.
Rearm(t) ==
    LET i == Head(todo[t])  s == <<i, fut[i].stage>> IN
    /\ pc[t] = "rearm"
    /\ IF fut[i].st \in {"complete", "failed"} \/ s \in ready
       THEN jobs' = [jobs EXCEPT ![i] = @ + 1] /\ UNCHANGED nodes
       ELSE nodes' = [nodes EXCEPT ![s] = @ + 1] /\ UNCHANGED jobs
    /\ IF lock = t THEN NextArm(t)
       ELSE todo' = [todo EXCEPT ![t] = <<>>] /\ Goto(t, "idle") /\ UNCHANGED lock
    /\ UNCHANGED <<bounds, setVars, selfVars, fut, ready, taskNodes, sched, consumed, flag>>

\* ciel_select_record_winner; then the lock is released.
Claim(t) ==
    /\ pc[t] = "claim"
    /\ IF Stopped
       THEN Goto(t, Back(t)) /\ UNCHANGED setVars
       ELSE state' = "won" /\ winner' = Head(todo[t]) /\ Goto(t, "losers")
    /\ lock' = Nobody /\ todo' = [todo EXCEPT ![t] = <<>>]
    /\ UNCHANGED <<bounds, selfVars, fut, sourceVars, wakeVars, consumed, flag>>

\* ciel_future_cancel of every arm but w.
CancelledBut(w) ==
    [i \in ArmSet |-> IF i # w /\ fut[i].st = "pending" THEN [fut[i] EXCEPT !.st = "failed"]
                      ELSE fut[i]]

Losers(t) ==
    /\ pc[t] = "losers"
    /\ fut' = CancelledBut(winner)
    /\ Goto(t, Back(t))
    /\ UNCHANGED <<bounds, setVars, selfVars, sourceVars, wakeVars, lock, todo, consumed, flag>>
-----------------------------------------------------------------------------
(* A wake on a dispatch thread.                                             *)

\* ciel_select_run_scheduled_wake and the first test of ciel_select_wake_arm; a
\* thread that cannot attach stops the select.
WakeArm(w) ==
    /\ pc[w] = "idle"
    /\ \E i \in ArmSet :
        /\ jobs[i] > 0 /\ jobs' = [jobs EXCEPT ![i] = @ - 1]
        /\ \/ /\ IF Stopped THEN UNCHANGED <<pc, todo>>
                 ELSE /\ Goto(w, "lock")
                      /\ todo' = [todo EXCEPT ![w] = IF biased THEN [k \in ArmSet |-> k] ELSE <<i>>]
              /\ consumed' = [consumed EXCEPT ![w] = i]
              /\ UNCHANGED <<state, failures>>
           \/ /\ failures < MaxFailures /\ failures' = failures + 1
              /\ state' = IF Stopped THEN state ELSE "stopped"
              /\ UNCHANGED <<pc, todo, consumed>>
    /\ UNCHANGED <<driver, biased, events, steals, winner, selfVars, fut, sourceVars, sched, lock,
                   flag>>
-----------------------------------------------------------------------------
(* The driver: ciel_select_future_run, then waiting.                        *)

Decided == CASE state = "won" -> "finish" [] state = "stopped" -> "stop" [] OTHER -> "lock"

\* The order of poll_immediate: from the first arm, or from one that a counter
\* shared by all selects gives.
Run ==
    /\ pc["main"] = "run" /\ sched' = FALSE
    /\ \/ /\ self = "failed" /\ Goto("main", "done") /\ UNCHANGED <<self, todo>>
       \/ /\ self # "failed" /\ self' = "running" /\ Goto("main", Decided)
          /\ \E k \in IF biased THEN {0} ELSE 0..(Arms - 1) :
                 todo' = [todo EXCEPT !["main"] = [j \in ArmSet |-> ((k + j - 1) % Arms) + 1]]
    /\ UNCHANGED <<bounds, setVars, cancelReq, fut, sourceVars, jobs, lock, consumed, flag>>

\* ciel_future_poll after a pending run: a cancel that came meanwhile is honoured.
Recheck ==
    /\ pc["main"] = "recheck"
    /\ IF Decided # "lock" THEN Goto("main", Decided) /\ UNCHANGED self
       ELSE IF cancelReq THEN self' = "failed" /\ Goto("main", "stop")
       ELSE self' = "pending" /\ Goto("main", "register")
    /\ todo' = [todo EXCEPT !["main"] = [i \in ArmSet |-> i]] /\ flag' = FALSE
    /\ UNCHANGED <<bounds, setVars, cancelReq, fut, sourceVars, wakeVars, lock, consumed>>

\* Mutant: a source that is ready already gets a waiter all the same.
ReadyNever(i) == FALSE

\* The arm's source is ready, or the arm is over.
ReadyNow(i) == fut[i].st \in {"complete", "failed"} \/ <<i, fut[i].stage>> \in ready

\* ciel_select_register_source_waiters and ciel_select_register_task_waiter, one
\* arm at a time.
Register ==
    LET i == Head(todo["main"])  s == <<i, fut[i].stage>> IN
    /\ pc["main"] = "register" /\ todo["main"] # <<>>
    /\ \/ /\ Stopped
          /\ flag' = TRUE /\ todo' = [todo EXCEPT !["main"] = <<>>]
          /\ UNCHANGED <<nodes, taskNodes>>
       \/ /\ ~Stopped
          /\ flag' = (flag \/ ReadyNow(i))
          /\ nodes' = [nodes EXCEPT ![s] = @ + IF ReadyNow(i) \/ driver = "task" THEN 0 ELSE 1]
          /\ taskNodes' = taskNodes \cup (IF ReadyNow(i) \/ driver = "block" THEN {} ELSE {s})
          /\ todo' = [todo EXCEPT !["main"] = Tail(@)]
    /\ UNCHANGED <<bounds, setVars, selfVars, fut, ready, wakeVars, lock, pc, consumed>>

\* The thread polls again, or waits for the select to be decided; the task runs
\* again, or ends its run.
Registered ==
    /\ pc["main"] = "register" /\ todo["main"] = <<>>
    /\ Goto("main", IF flag THEN "run" ELSE "wait")
    /\ UNCHANGED <<bounds, setVars, selfVars, fut, sourceVars, wakeVars, lock, todo, consumed, flag>>

Wait ==
    /\ pc["main"] = "wait"
    /\ IF driver = "block" THEN Stopped ELSE sched \/ self = "failed"
    /\ Goto("main", "run")
    /\ UNCHANGED <<bounds, setVars, selfVars, fut, sourceVars, wakeVars, lock, todo, consumed, flag>>

\* ciel_select_finish_winner, and the end of the poll.
Finish ==
    /\ pc["main"] = "finish"
    /\ fut' = CancelledBut(winner)
    /\ self' = IF cancelReq THEN "failed" ELSE "complete"
    /\ Goto("main", IF cancelReq THEN "stop" ELSE "done")
    /\ UNCHANGED <<bounds, setVars, cancelReq, sourceVars, wakeVars, lock, todo, consumed, flag>>
-----------------------------------------------------------------------------
(* Stopping: ciel_select_finish_stop and ciel_select_cancel.                *)

Stop(t) ==
    /\ pc[t] = "stop" /\ lock = Nobody
    /\ state' = IF Stopped THEN state ELSE "stopped"
    /\ Goto(t, "arms")
    /\ UNCHANGED <<bounds, winner, selfVars, fut, sourceVars, wakeVars, lock, todo, consumed, flag>>

CancelArms(t) ==
    /\ pc[t] = "arms"
    /\ fut' = CancelledBut(NoArm)
    /\ self' = IF t = "main" THEN "failed" ELSE self
    /\ Goto(t, "done")
    /\ UNCHANGED <<bounds, setVars, cancelReq, sourceVars, wakeVars, lock, todo, consumed, flag>>

\* ciel_future_cancel of the select, when its task is aborted.
Abort ==
    /\ pc["abort"] = "start" /\ driver = "task" /\ MaxAborts > 0
    /\ \/ /\ self \in {"complete", "failed"} /\ Goto("abort", "done") /\ UNCHANGED selfVars
       \/ /\ self = "running" /\ cancelReq' = TRUE /\ Goto("abort", "done") /\ UNCHANGED self
       \/ /\ self = "pending" /\ self' = "failed" /\ Goto("abort", "stop") /\ UNCHANGED cancelReq
    /\ UNCHANGED <<bounds, setVars, fut, sourceVars, wakeVars, lock, todo, consumed, flag>>
-----------------------------------------------------------------------------
Step(t) ==
    \/ Lock(t) \/ PollBegin(t) \/ PollEnd(t) \/ Rearm(t) \/ Claim(t) \/ Losers(t)
    \/ Stop(t) \/ CancelArms(t)

Drive == Run \/ Recheck \/ Register \/ Registered \/ Wait \/ Finish

Next ==
    \/ \E s \in Sources : Event(s) \/ Steal(s)
    \/ \E t \in Threads : Step(t)
    \/ \E w \in Workers : WakeArm(w)
    \/ Drive \/ Abort

\* Threads run on, mutexes are handed over, and the dispatch queue runs its jobs;
\* events need not come.
Fairness ==
    /\ WF_vars(Drive)
    /\ \A t \in Threads : SF_vars(Step(t))
    /\ \A w \in Workers : WF_vars(WakeArm(w))

Spec == Init /\ [][Next]_vars /\ Fairness
-----------------------------------------------------------------------------
(* Properties.                                                             *)

\* The variables have their types; a winner is recorded exactly when the select is won.
TypeOK ==
    /\ state \in {"pending", "won", "stopped"} /\ winner \in ArmSet \cup {NoArm}
    /\ self \in {"pending", "running", "complete", "failed"}
    /\ fut \in [ArmSet -> [st : {"pending", "running", "complete", "failed"}, stage : Nat]]
    /\ \A i \in ArmSet : fut[i].stage \in 1..Stages[i]
    /\ ready \subseteq Sources /\ taskNodes \subseteq Sources /\ nodes \in [Sources -> Nat]
    /\ jobs \in [ArmSet -> Nat] /\ lock \in Threads \cup {Nobody}
    /\ (state = "won") <=> (winner # NoArm)

\* One arm at most is run to its end, whose value is the select's: no other arm
\* consumes a message or a connection that nobody will see.
OneArmCompletes ==
    \A i \in ArmSet : fut[i].st = "complete" =>
        /\ \A j \in ArmSet \ {i} : fut[j].st # "complete"
        /\ winner = i \/ state = "stopped" \/ lock # Nobody

\* An arm is polled only while it is pending, and never cancelled while it is polled
\* ("Wait for an arm poll that entered before the stop transition", async.c).
NeverCancelRunning ==
    \A t \in Threads :
        /\ pc[t] = "poll" => fut[Head(todo[t])].st = "pending"
        /\ pc[t] \in {"losers", "arms", "finish"} => \A i \in ArmSet : fut[i].st # "running"

\* When the select is over every arm is: the winner complete, the others cancelled.
\* Checked together with the type invariant.
LosersEnd ==
    /\ TypeOK
    /\ pc["main"] = "done" /\ pc["abort"] \in {"start", "done"} =>
           /\ \A i \in ArmSet : fut[i].st \in {"complete", "failed"}
           /\ self = "complete" => fut[winner].st = "complete"

\* One arm is run to its end, and the others are cancelled when nobody polls
\* them and are over when the select is.
OneArmWins == OneArmCompletes /\ NeverCancelRunning /\ LosersEnd

\* Whether some arm has all its events.
Due == \E i \in ArmSet : \A k \in fut[i].stage..Stages[i] : <<i, k>> \in ready

\* "ready buffered data, completed tasks, channel messages, and expired timers cannot
\* be missed" (design.md): a select with an arm that is ready returns.
SelectReturns == Due ~> (pc["main"] = "done" \/ ~Due)
=============================================================================
