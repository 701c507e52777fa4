-------------------------------- MODULE Actor --------------------------------
(***************************************************************************)
(* The actors of runtime/src/actor.c: a serial dispatch queue, a dispatch  *)
(* group that counts the jobs that were accepted, and a lifecycle lock.    *)
(* Senders, stoppers and joiners are threads; the handler may send to its  *)
(* own actor.                                                              *)
(***************************************************************************)
EXTENDS Naturals, Sequences, FiniteSets, Functions

CONSTANTS Senders, Stoppers, Joiners,
          MaxSends,        \* messages per sender
          MaxSelfSends,    \* messages the handler sends to its own actor
          MaxFailures      \* handlers that fail, threads that do not attach

ASSUME ActorAssumption ==
    /\ {MaxSends, MaxSelfSends, MaxFailures} \subseteq Nat
    /\ "self" \notin Senders /\ IsFiniteSet(Senders)

VARIABLES
    closing, joined, failed, join_result, owner,   \* struct CielActor
    queue, group,           \* dispatch queue, and count of the dispatch group
    job, jobpc,             \* the job that runs, and how far it is
    sent, spc,              \* each sender: messages so far, inside send or not
    stopped,                \* stoppers that called stop
    jpc, result,            \* each joiner and what join returned to it
    selfSends, failures,
    handled,                \* history: messages in the order of their handlers,
    accepted, returned,     \* those that send accepted, those whose send returned,
    before                  \* and which had returned when a message was accepted

actorVars == <<closing, joined, failed, join_result, owner>>
sendVars == <<sent, spc, accepted, returned, before>>
joinVars == <<jpc, result>>
vars == <<actorVars, queue, group, job, jobpc, sendVars, stopped, joinVars, selfSends,
          failures, handled>>

None == <<"none", 0>>
Messages == (Senders \X (1..MaxSends)) \cup ({"self"} \X (1..MaxSelfSends))

\* ciel_actor_spawn_with_owner.
Init ==
    /\ closing = FALSE /\ joined = FALSE /\ failed = FALSE /\ join_result = "none"
    /\ owner = "held"
    /\ queue = <<>> /\ group = 0
    /\ job = None /\ jobpc = "idle"
    /\ sent = [s \in Senders |-> 0] /\ spc = [s \in Senders |-> "idle"]
    /\ stopped = {}
    /\ jpc = [j \in Joiners |-> "idle"] /\ result = [j \in Joiners |-> "none"]
    /\ selfSends = 0 /\ failures = 0
    /\ handled = <<>> /\ accepted = {} /\ returned = {}
    /\ before = [m \in Messages |-> {}]
-----------------------------------------------------------------------------
(* ciel_actor_send.                                                        *)

Accept(m) ==
    /\ accepted' = accepted \cup {m}
    /\ before' = [before EXCEPT ![m] = returned]

\* dispatch_group_enter, inside the lifecycle lock.
Enter == group' = group + 1

\* The lifecycle lock: a closing actor answers EPIPE.
SendLocked(s) ==
    LET m == <<s, sent[s] + 1>> IN
    /\ spc[s] = "idle" /\ sent[s] < MaxSends
    /\ sent' = [sent EXCEPT ![s] = @ + 1]
    /\ \/ /\ closing
          /\ UNCHANGED <<group, spc, accepted, before>>
       \/ /\ ~closing
          /\ Enter
          /\ Accept(m)
          /\ spc' = [spc EXCEPT ![s] = "dispatch"]
    /\ UNCHANGED <<actorVars, queue, job, jobpc, returned, stopped, joinVars, selfSends,
                   failures, handled>>

\* dispatch_async_f, after the lock was released.
SendDispatch(s) ==
    LET m == <<s, sent[s]>> IN
    /\ spc[s] = "dispatch"
    /\ queue' = Append(queue, m)
    /\ returned' = returned \cup {m}
    /\ spc' = [spc EXCEPT ![s] = "idle"]
    /\ UNCHANGED <<actorVars, group, job, jobpc, sent, accepted, before, stopped, joinVars,
                   selfSends, failures, handled>>
-----------------------------------------------------------------------------
(* ciel_actor_job_run on the serial queue.                                 *)

\* A thread that cannot attach drops the message and fails the actor.
JobStart ==
    /\ jobpc = "idle" /\ queue # <<>>
    /\ queue' = Tail(queue) /\ job' = Head(queue)
    /\ \/ /\ failures < MaxFailures
          /\ failures' = failures + 1
          /\ jobpc' = "failed"
          /\ UNCHANGED handled
       \/ /\ jobpc' = "handler"
          /\ handled' = Append(handled, Head(queue))
          /\ UNCHANGED failures
    /\ UNCHANGED <<actorVars, group, sendVars, stopped, joinVars, selfSends>>

\* The handler sends to the actor on whose queue it runs.
SelfSend ==
    LET m == <<"self", selfSends + 1>> IN
    /\ jobpc = "handler" /\ selfSends < MaxSelfSends
    /\ selfSends' = selfSends + 1
    /\ \/ /\ closing
          /\ UNCHANGED <<group, jobpc, accepted, before>>
       \/ /\ ~closing
          /\ Enter
          /\ Accept(m)
          /\ jobpc' = "selfDispatch"
    /\ UNCHANGED <<actorVars, queue, job, sent, spc, returned, stopped, joinVars, failures,
                   handled>>

SelfDispatch ==
    LET m == <<"self", selfSends>> IN
    /\ jobpc = "selfDispatch"
    /\ queue' = Append(queue, m)
    /\ returned' = returned \cup {m}
    /\ jobpc' = "handler"
    /\ UNCHANGED <<actorVars, group, job, sent, spc, accepted, before, stopped, joinVars,
                   selfSends, failures, handled>>

HandlerReturns ==
    /\ jobpc = "handler"
    /\ \/ failures < MaxFailures /\ failures' = failures + 1 /\ jobpc' = "failed"
       \/ jobpc' = "leave" /\ UNCHANGED failures
    /\ UNCHANGED <<actorVars, queue, group, job, sendVars, stopped, joinVars, selfSends,
                   handled>>

\* Mutant: a failed job does not leave the group.
JobFailsLeaks ==
    /\ jobpc = "failed"
    /\ failed' = TRUE /\ closing' = TRUE
    /\ jobpc' = "idle" /\ job' = None
    /\ UNCHANGED <<joined, join_result, owner, queue, group, sendVars, stopped, joinVars,
                   selfSends, failures, handled>>

JobFails ==
    /\ jobpc = "failed"
    /\ failed' = TRUE /\ closing' = TRUE
    /\ jobpc' = "leave"
    /\ UNCHANGED <<joined, join_result, owner, queue, group, job, sendVars, stopped, joinVars,
                   selfSends, failures, handled>>

JobLeave ==
    /\ jobpc = "leave"
    /\ group' = group - 1
    /\ jobpc' = "idle" /\ job' = None
    /\ UNCHANGED <<actorVars, queue, sendVars, stopped, joinVars, selfSends, failures, handled>>
-----------------------------------------------------------------------------
(* ciel_actor_stop and ciel_actor_join.                                    *)

Stop(p) ==
    /\ p \notin stopped
    /\ stopped' = stopped \cup {p}
    /\ closing' = TRUE
    /\ UNCHANGED <<joined, failed, join_result, owner, queue, group, job, jobpc, sendVars,
                   joinVars, selfSends, failures, handled>>

JoinAt(j, l) == jpc' = [jpc EXCEPT ![j] = l]
Return(j, r) == result' = [result EXCEPT ![j] = r]

JoinBegin(j) ==
    /\ jpc[j] = "idle"
    /\ \/ /\ joined
          /\ Return(j, join_result) /\ JoinAt(j, "done")
          /\ UNCHANGED closing
       \/ /\ ~joined
          /\ closing' = TRUE
          /\ JoinAt(j, "wait")
          /\ UNCHANGED result
    /\ UNCHANGED <<joined, failed, join_result, owner, queue, group, job, jobpc, sendVars,
                   stopped, selfSends, failures, handled>>

\* Mutant: the joiner waits for the queue, not for the accepted jobs.
JoinWaitedQueue(j) ==
    /\ jpc[j] = "wait" /\ queue = <<>> /\ jobpc = "idle"
    /\ JoinAt(j, "finish")
    /\ UNCHANGED <<actorVars, queue, group, job, jobpc, sendVars, stopped, result, selfSends,
                   failures, handled>>

\* dispatch_group_wait returns.
JoinWaited(j) ==
    /\ jpc[j] = "wait" /\ group = 0
    /\ JoinAt(j, "finish")
    /\ UNCHANGED <<actorVars, queue, group, job, jobpc, sendVars, stopped, result, selfSends,
                   failures, handled>>

\* The first joiner decides the result and takes the owner.
JoinFinish(j) ==
    /\ jpc[j] = "finish"
    /\ \/ /\ ~joined
          /\ joined' = TRUE
          /\ join_result' = IF failed THEN "EIO" ELSE "ok"
          /\ owner' = "taken"
          /\ Return(j, IF failed THEN "EIO" ELSE "ok")
          /\ JoinAt(j, "close")
       \/ /\ joined
          /\ Return(j, join_result) /\ JoinAt(j, "done")
          /\ UNCHANGED <<joined, join_result, owner>>
    /\ UNCHANGED <<closing, failed, queue, group, job, jobpc, sendVars, stopped, selfSends,
                   failures, handled>>

\* ciel_resource_owner_close; an error of it is returned when there is no other.
JoinClose(j) ==
    /\ jpc[j] = "close"
    /\ owner' = "closed"
    /\ \/ UNCHANGED result
       \/ result[j] = "ok" /\ Return(j, "closeError")
    /\ JoinAt(j, "done")
    /\ UNCHANGED <<closing, joined, failed, join_result, queue, group, job, jobpc, sendVars,
                   stopped, selfSends, failures, handled>>
-----------------------------------------------------------------------------
Run == JobStart \/ HandlerReturns \/ SelfSend \/ SelfDispatch \/ JobFails \/ JobLeave
Join(j) == JoinWaited(j) \/ JoinFinish(j) \/ JoinClose(j)

Next ==
    \/ \E s \in Senders : SendLocked(s) \/ SendDispatch(s)
    \/ Run
    \/ \E p \in Stoppers : Stop(p)
    \/ \E j \in Joiners : JoinBegin(j) \/ Join(j)

\* Handlers return and the queue runs its jobs; nobody has to send or to join.
Fairness ==
    /\ WF_vars(Run) /\ \A s \in Senders : WF_vars(SendDispatch(s))
    /\ \A j \in Joiners : WF_vars(Join(j))

Spec == Init /\ [][Next]_vars /\ Fairness
-----------------------------------------------------------------------------
(* Properties.                                                             *)

\* The variables have their types.
TypeOK ==
    /\ {closing, joined, failed} \subseteq BOOLEAN
    /\ join_result \in {"none", "ok", "EIO"} /\ owner \in {"held", "taken", "closed"}
    /\ queue \in Seq(accepted) /\ group \in Nat
    /\ job \in accepted \cup {None}
    /\ jobpc \in {"idle", "handler", "selfDispatch", "failed", "leave"}
    /\ sent \in [Senders -> 0..MaxSends] /\ spc \in [Senders -> {"idle", "dispatch"}]
    /\ jpc \in [Joiners -> {"idle", "wait", "finish", "close", "done"}]
    /\ result \in [Joiners -> {"none", "ok", "EIO", "closeError"}]
    /\ handled \in Seq(accepted) /\ returned \subseteq accepted
    /\ accepted \subseteq Messages

\* "`join` closes the owner after accepted jobs drain" (design.md): once a joiner
\* has taken the owner, no job is on its way, so no handler runs without owner.
NoJobAfterJoin ==
    joined => /\ group = 0 /\ queue = <<>> /\ jobpc = "idle"
              /\ \A s \in Senders : spc[s] = "idle"

\* "`stop` closes the mailbox to new sends while allowing accepted jobs to drain"
\* (design.md): a join that reports success has handled every accepted message.
\* Checked together with the type invariant.
AcceptedAreHandled ==
    /\ TypeOK
    /\ \A j \in Joiners : result[j] = "ok" => Range(handled) = accepted

\* A message is handled after every message whose send had returned before.
SendOrder ==
    \A i \in DOMAIN handled : \A m \in before[handled[i]] :
        m \in Range(handled) => \E k \in 1..(i - 1) : handled[k] = m

\* Every join returns.
JoinsReturn == \A j \in Joiners : (jpc[j] = "wait") ~> (jpc[j] = "done")

\* "Resource handles opened by actor-local state or handlers therefore become
\* stale after actor join" (design.md): the owner is closed when a join returns.
StaleAfterJoin == \A j \in Joiners : jpc[j] = "done" => owner = "closed"

\* What send accepted is handled, in the order of the sends of each sender, and before
\* a join takes the owner.
MessagesHandled == NoJobAfterJoin /\ AcceptedAreHandled /\ SendOrder
=============================================================================
