----------------------------- MODULE ActorProofs -----------------------------
(***************************************************************************)
(* Proofs about Actor for any finite set of senders, any stoppers, joiners *)
(* and messages, and any number of failures.                               *)
(***************************************************************************)
EXTENDS Actor, FiniteSetTheorems, TLAPS

Flag(b) == IF b THEN 1 ELSE 0
InFlight == {s \in Senders : spc[s] = "dispatch"}

\* The types, with those of the counters; a message knows only sends that returned.
Types ==
    /\ TypeOK
    /\ selfSends \in 0..MaxSelfSends /\ failures \in Nat
    /\ before \in [Messages -> SUBSET returned]

\* The dispatch group counts the jobs that were accepted and have not left: those
\* queued, those whose sender is between the lock and the queue, and the running one
\* with the message it is about to send to its own actor.
GroupCounts ==
    group = Len(queue) + Cardinality(InFlight) + Flag(jobpc # "idle") + Flag(jobpc = "selfDispatch")

\* Whoever waits for the group has closed the mailbox, so a drained group stays empty.
Drained ==
    /\ joined \/ (\E j \in Joiners : jpc[j] # "idle") => closing
    /\ joined \/ (\E j \in Joiners : jpc[j] = "finish") => group = 0

\* Success is reported only by an actor that has not failed.
Reported ==
    /\ \A j \in Joiners : result[j] = "ok" => joined /\ join_result = "ok"
    /\ joined /\ join_result = "ok" => ~failed

\* The message of a send that has not reached the queue yet is accepted and has not
\* returned; numbers are given out in order.
Fresh ==
    /\ \A s \in Senders, n \in Nat : <<s, n>> \in accepted => n <= sent[s]
    /\ \A n \in Nat : <<"self", n>> \in accepted => n <= selfSends
    /\ \A s \in Senders : spc[s] = "dispatch" => <<s, sent[s]>> \in accepted \ returned
    /\ jobpc = "selfDispatch" => <<"self", selfSends>> \in accepted \ returned

\* Unless a job failed, an accepted message is handled or on its way.
Somewhere(m) ==
    \/ \E i \in 1..Len(handled) : handled[i] = m
    \/ \E i \in 1..Len(queue) : queue[i] = m
    \/ \E s \in Senders : spc[s] = "dispatch" /\ m = <<s, sent[s]>>
    \/ jobpc = "selfDispatch" /\ m = <<"self", selfSends>>

Accounted == ~failed /\ jobpc # "failed" => \A m \in accepted : Somewhere(m)

\* Handled messages, and then those of the queue, come after the messages whose send
\* had returned before they were accepted.
Ordered ==
    /\ \A i, k \in 1..Len(handled) : handled[k] \in before[handled[i]] => k < i
    /\ \A i \in 1..Len(handled), k \in 1..Len(queue) : queue[k] \notin before[handled[i]]
    /\ \A i, k \in 1..Len(queue) : queue[k] \in before[queue[i]] => k < i

ActorInv ==
    Types /\ GroupCounts /\ Drained /\ Reported /\ Fresh /\ Accounted /\ Ordered

LEMMA ActorInit == Init => ActorInv
<1> SUFFICES ASSUME Init PROVE ActorInv
  OBVIOUS
<1>1. Types
  <2>1. closing \in BOOLEAN /\ joined \in BOOLEAN /\ failed \in BOOLEAN
    BY Zenon DEF Init
  <2>2. sent \in [Senders -> 0..MaxSends] /\ selfSends \in 0..MaxSelfSends
    BY ActorAssumption DEF Init
  <2>3. queue \in Seq(accepted) /\ handled \in Seq(accepted)
    BY DEF Init
  <2>4. before \in [Messages -> SUBSET returned]
    BY DEF Init
  <2> QED
    BY <2>1, <2>2, <2>3, <2>4 DEF Init, Types, TypeOK
<1>2. InFlight = {}
  BY DEF Init, InFlight
<1>3. GroupCounts
  BY <1>2, FS_EmptySet DEF Init, GroupCounts, Flag
<1>4. Drained /\ Reported /\ Fresh /\ Accounted /\ Ordered
  BY DEF Init, Drained, Reported, Fresh, Accounted, Ordered
<1> QED
  BY <1>1, <1>3, <1>4 DEF ActorInv

\* A sequence of accepted messages stays one when more are accepted.
LEMMA SeqGrows ==
    ASSUME NEW S, NEW T, S \subseteq T, NEW s \in Seq(S)
    PROVE  s \in Seq(T)
OBVIOUS

\* Accepting a message inside the lifecycle lock.
LEMMA AcceptTypes ==
    ASSUME Types, NEW m \in Messages, Accept(m), UNCHANGED <<queue, handled, job, returned>>
    PROVE  /\ queue' \in Seq(accepted') /\ handled' \in Seq(accepted')
           /\ job' \in accepted' \cup {None} /\ returned' \subseteq accepted'
           /\ accepted' \subseteq Messages /\ before' \in [Messages -> SUBSET returned']
<1>1. accepted' = accepted \cup {m} /\ before' = [before EXCEPT ![m] = returned]
  BY DEF Accept
<1>2. queue \in Seq(accepted \cup {m}) /\ handled \in Seq(accepted \cup {m})
  BY SeqGrows DEF Types, TypeOK
<1> QED
  BY <1>1, <1>2 DEF Types, TypeOK

\* The message of a send that is on its way reaches the queue.
LEMMA DispatchTypes ==
    ASSUME Types, NEW m \in accepted, queue' = Append(queue, m), returned' = returned \cup {m},
           UNCHANGED <<handled, job, accepted, before>>
    PROVE  /\ queue' \in Seq(accepted') /\ returned' \subseteq accepted'
           /\ before' \in [Messages -> SUBSET returned']
BY DEF Types, TypeOK

LEMMA SendTypes ==
    ASSUME Types, Fresh, NEW s \in Senders, SendLocked(s) \/ SendDispatch(s)
    PROVE  Types'
<1>0. sent \in [Senders -> 0..MaxSends] /\ spc \in [Senders -> {"idle", "dispatch"}] /\ MaxSends \in Nat
  BY ActorAssumption DEF Types, TypeOK
<1>1. CASE SendLocked(s) /\ UNCHANGED <<group, spc, accepted, before>>
  <2>1. /\ UNCHANGED <<actorVars, queue, group, spc, accepted, before, job, jobpc, returned,
                       joinVars, selfSends, failures, handled>>
        /\ sent[s] < MaxSends /\ sent' = [sent EXCEPT ![s] = sent[s] + 1]
    BY <1>1 DEF SendLocked
  <2>2. sent' \in [Senders -> 0..MaxSends]
    BY <1>0, <2>1
  <2> QED
    BY <2>1, <2>2 DEF Types, TypeOK, actorVars, joinVars
<1>2. CASE SendLocked(s) /\ Accept(<<s, sent[s] + 1>>) /\ Enter
           /\ spc' = [spc EXCEPT ![s] = "dispatch"]
  <2>1. /\ UNCHANGED <<actorVars, queue, job, jobpc, returned, joinVars, selfSends, failures, handled>>
        /\ sent[s] < MaxSends /\ sent' = [sent EXCEPT ![s] = sent[s] + 1]
        /\ group' = group + 1
    BY <1>2 DEF SendLocked, Enter
  <2>2. /\ sent' \in [Senders -> 0..MaxSends] /\ spc' \in [Senders -> {"idle", "dispatch"}]
        /\ <<s, sent[s] + 1>> \in Messages
    BY <1>0, <1>2, <2>1 DEF Messages
  <2>3. /\ queue' \in Seq(accepted') /\ handled' \in Seq(accepted')
        /\ job' \in accepted' \cup {None} /\ returned' \subseteq accepted'
        /\ accepted' \subseteq Messages /\ before' \in [Messages -> SUBSET returned']
    BY <1>2, <2>1, <2>2, AcceptTypes
  <2> QED
    BY <2>1, <2>2, <2>3 DEF Types, TypeOK, actorVars, joinVars
<1>3. CASE SendDispatch(s)
  <2>1. /\ UNCHANGED <<actorVars, group, job, jobpc, sent, accepted, before, joinVars, selfSends,
                       failures, handled>>
        /\ queue' = Append(queue, <<s, sent[s]>>) /\ returned' = returned \cup {<<s, sent[s]>>}
        /\ spc[s] = "dispatch" /\ spc' = [spc EXCEPT ![s] = "idle"]
    BY <1>3 DEF SendDispatch
  <2>2. <<s, sent[s]>> \in accepted /\ spc' \in [Senders -> {"idle", "dispatch"}]
    BY <1>0, <2>1 DEF Fresh
  <2>3. /\ queue' \in Seq(accepted') /\ returned' \subseteq accepted'
        /\ before' \in [Messages -> SUBSET returned']
    BY <2>1, <2>2, DispatchTypes
  <2> QED
    BY <2>1, <2>2, <2>3 DEF Types, TypeOK, actorVars, joinVars
<1> QED
  BY <1>1, <1>2, <1>3 DEF SendLocked

LEMMA RunTypes ==
    ASSUME Types, Fresh, GroupCounts, Run
    PROVE  Types'
<1>1. CASE JobStart
  <2>1. /\ UNCHANGED <<actorVars, group, sendVars, joinVars, selfSends>>
        /\ queue # <<>> /\ queue' = Tail(queue) /\ job' = Head(queue)
        /\ jobpc' \in {"failed", "handler"}
        /\ failures' \in {failures, failures + 1}
        /\ handled' = handled \/ handled' = Append(handled, Head(queue))
    BY <1>1 DEF JobStart
  <2>2. Head(queue) \in accepted /\ Tail(queue) \in Seq(accepted)
    BY <2>1 DEF Types, TypeOK
  <2>3. handled' \in Seq(accepted)
    <3>1. handled \in Seq(accepted)
      BY DEF Types, TypeOK
    <3>2. Append(handled, Head(queue)) \in Seq(accepted)
      BY <2>2, <3>1
    <3> QED
      BY <2>1, <3>1, <3>2
  <2> QED
    BY <2>1, <2>2, <2>3 DEF Types, TypeOK, actorVars, sendVars, joinVars
<1>2. CASE HandlerReturns \/ JobFails
  <2>1. /\ UNCHANGED <<joined, join_result, owner, queue, group, job, sendVars, joinVars, selfSends, handled>>
        /\ jobpc' \in {"failed", "leave"} /\ failures' \in {failures, failures + 1}
    BY <1>2 DEF HandlerReturns, JobFails, actorVars
  <2>2. closing' \in BOOLEAN /\ failed' \in BOOLEAN
    <3>1. CASE HandlerReturns
      BY <3>1 DEF HandlerReturns, actorVars, Types, TypeOK
    <3>2. CASE JobFails
      BY <3>2 DEF JobFails
    <3> QED
      BY <1>2, <3>1, <3>2
  <2>3. failures' \in Nat
    BY <2>1 DEF Types
  <2> QED
    BY <2>1, <2>2, <2>3 DEF Types, TypeOK, sendVars, joinVars
<1>3. CASE SelfSend /\ UNCHANGED <<group, jobpc, accepted, before>>
  <2>1. /\ UNCHANGED <<actorVars, queue, group, job, jobpc, sendVars, joinVars, failures, handled>>
        /\ selfSends < MaxSelfSends /\ selfSends' = selfSends + 1
    BY <1>3 DEF SelfSend, sendVars
  <2> QED
    BY <2>1, ActorAssumption DEF Types, TypeOK, actorVars, sendVars, joinVars
<1>4. CASE SelfSend /\ Accept(<<"self", selfSends + 1>>) /\ Enter /\ jobpc' = "selfDispatch"
  <2>1. /\ UNCHANGED <<actorVars, queue, job, sent, spc, returned, joinVars, failures, handled>>
        /\ selfSends < MaxSelfSends /\ selfSends' = selfSends + 1 /\ group' = group + 1
    BY <1>4 DEF SelfSend, Enter
  <2>2. selfSends' \in 0..MaxSelfSends /\ <<"self", selfSends + 1>> \in Messages
    BY <2>1, ActorAssumption DEF Types, Messages
  <2>3. /\ queue' \in Seq(accepted') /\ handled' \in Seq(accepted')
        /\ job' \in accepted' \cup {None} /\ returned' \subseteq accepted'
        /\ accepted' \subseteq Messages /\ before' \in [Messages -> SUBSET returned']
    BY <1>4, <2>1, <2>2, AcceptTypes
  <2> QED
    BY <1>4, <2>1, <2>2, <2>3 DEF Types, TypeOK, actorVars, joinVars
<1>5. CASE SelfDispatch
  <2>1. /\ UNCHANGED <<actorVars, group, job, sent, spc, accepted, before, joinVars, selfSends,
                       failures, handled>>
        /\ queue' = Append(queue, <<"self", selfSends>>)
        /\ returned' = returned \cup {<<"self", selfSends>>}
        /\ jobpc = "selfDispatch" /\ jobpc' = "handler"
    BY <1>5 DEF SelfDispatch
  <2>2. <<"self", selfSends>> \in accepted
    BY <2>1 DEF Fresh
  <2>3. /\ queue' \in Seq(accepted') /\ returned' \subseteq accepted'
        /\ before' \in [Messages -> SUBSET returned']
    BY <2>1, <2>2, DispatchTypes
  <2> QED
    BY <2>1, <2>3 DEF Types, TypeOK, actorVars, joinVars
<1>6. CASE JobLeave
  <2>1. /\ UNCHANGED <<actorVars, queue, sendVars, joinVars, selfSends, failures, handled>>
        /\ jobpc = "leave" /\ jobpc' = "idle" /\ job' = None /\ group' = group - 1
    BY <1>6 DEF JobLeave
  <2>2. Cardinality(InFlight) \in Nat /\ Len(queue) \in Nat
    BY ActorAssumption, FS_Subset, FS_CardinalityType DEF InFlight, Types, TypeOK
  <2>3. group' \in Nat
    BY <2>1, <2>2 DEF GroupCounts, Flag
  <2> QED
    BY <2>1, <2>3 DEF Types, TypeOK, actorVars, sendVars, joinVars
<1> QED
  BY <1>1, <1>2, <1>3, <1>4, <1>5, <1>6 DEF Run, SelfSend

LEMMA JoinTypes ==
    ASSUME Types, NEW j \in Joiners, JoinBegin(j) \/ Join(j)
    PROVE  Types'
<1>1. UNCHANGED <<failed, queue, group, job, jobpc, sendVars, selfSends, failures, handled>>
  BY DEF JoinBegin, Join, JoinWaited, JoinFinish, JoinClose, actorVars
<1>2. PICK l \in {"wait", "finish", "close", "done"} : jpc' = [jpc EXCEPT ![j] = l]
  BY DEF JoinBegin, Join, JoinWaited, JoinFinish, JoinClose, JoinAt
<1>3. closing' \in BOOLEAN /\ joined' \in BOOLEAN
  BY Zenon DEF Types, TypeOK, JoinBegin, Join, JoinWaited, JoinFinish, JoinClose, actorVars
<1>4. join_result' \in {"none", "ok", "EIO"} /\ owner' \in {"held", "taken", "closed"}
  BY DEF Types, TypeOK, JoinBegin, Join, JoinWaited, JoinFinish, JoinClose, actorVars
<1>5. UNCHANGED result \/ \E r \in {"none", "ok", "EIO", "closeError"} : result' = [result EXCEPT ![j] = r]
  BY DEF Types, TypeOK, JoinBegin, Join, JoinWaited, JoinFinish, JoinClose, Return
<1>6. result' \in [Joiners -> {"none", "ok", "EIO", "closeError"}]
  BY <1>5, Zenon DEF Types, TypeOK
<1>7. jpc' \in [Joiners -> {"idle", "wait", "finish", "close", "done"}]
  BY <1>2 DEF Types, TypeOK
<1> QED
  BY <1>1, <1>3, <1>4, <1>6, <1>7 DEF Types, TypeOK, sendVars

LEMMA TypesStep ==
    ASSUME ActorInv, [Next]_vars
    PROVE  Types'
<1>1. CASE \E p \in Stoppers : Stop(p)
  <2>1. /\ UNCHANGED <<joined, failed, join_result, owner, queue, group, job, jobpc, sendVars,
                       joinVars, selfSends, failures, handled>>
        /\ closing' = TRUE
    BY <1>1 DEF Stop
  <2> QED
    BY <2>1 DEF ActorInv, Types, TypeOK, sendVars, joinVars
<1>2. CASE UNCHANGED vars
  BY <1>2 DEF ActorInv, Types, TypeOK, vars, actorVars, sendVars, joinVars
<1> QED
  BY <1>1, <1>2, SendTypes, RunTypes, JoinTypes DEF ActorInv, Next

LEMMA InFlightFinite ==
    IsFiniteSet(InFlight) /\ Cardinality(InFlight) \in Nat
BY ActorAssumption, FS_Subset, FS_CardinalityType DEF InFlight

\* Nobody is inside a send or a job of a drained group.
LEMMA EmptyGroup ==
    ASSUME Types, GroupCounts, group = 0
    PROVE  queue = <<>> /\ jobpc = "idle" /\ \A s \in Senders : spc[s] = "idle"
<1>1. Len(queue) \in Nat /\ queue \in Seq(accepted)
  BY DEF Types, TypeOK
<1>2. Len(queue) = 0 /\ Cardinality(InFlight) = 0 /\ jobpc = "idle"
  BY <1>1, InFlightFinite DEF GroupCounts, Flag
<1>3. InFlight = {}
  BY <1>2, InFlightFinite, FS_EmptySet
<1>4. \A s \in Senders : spc[s] = "idle"
  BY <1>3 DEF InFlight, Types, TypeOK
<1> QED
  BY <1>1, <1>2, <1>4

LEMMA GroupStep ==
    ASSUME ActorInv, [Next]_vars
    PROVE  GroupCounts'
<1> USE DEF GroupCounts
<1>0. /\ GroupCounts /\ group \in Nat /\ Len(queue) \in Nat /\ queue \in Seq(accepted)
      /\ spc \in [Senders -> {"idle", "dispatch"}]
      /\ Cardinality(InFlight) \in Nat /\ IsFiniteSet(InFlight)
  BY InFlightFinite DEF ActorInv, Types, TypeOK
<1>1. ASSUME NEW s \in Senders, SendLocked(s) PROVE GroupCounts'
  <2>1. CASE UNCHANGED <<group, spc>>
    BY <1>0, <1>1, <2>1 DEF SendLocked, InFlight
  <2>2. CASE group' = group + 1 /\ spc' = [spc EXCEPT ![s] = "dispatch"]
    <3>1. s \notin InFlight /\ InFlight' = InFlight \cup {s}
      BY <1>0, <1>1, <2>2 DEF SendLocked, InFlight
    <3>2. Cardinality(InFlight') = Cardinality(InFlight) + 1
      BY <1>0, <3>1, FS_AddElement, Zenon
    <3>3. UNCHANGED <<queue, jobpc>>
      BY <1>1 DEF SendLocked
    <3> QED
      BY <1>0, <2>2, <3>2, <3>3 DEF Flag
  <2> QED
    BY <1>1, <2>1, <2>2 DEF SendLocked, Enter
<1>2. ASSUME NEW s \in Senders, SendDispatch(s) PROVE GroupCounts'
  <2>1. s \in InFlight /\ InFlight' = InFlight \ {s}
    BY <1>0, <1>2 DEF SendDispatch, InFlight
  <2>2. Cardinality(InFlight') = Cardinality(InFlight) - 1
    BY <1>0, <2>1, FS_RemoveElement, Zenon
  <2>3. /\ UNCHANGED <<group, jobpc>> /\ queue' = Append(queue, <<s, sent[s]>>)
        /\ <<s, sent[s]>> \in accepted
    BY <1>2 DEF SendDispatch, ActorInv, Fresh
  <2>4. Len(queue') = Len(queue) + 1
    BY <1>0, <2>3
  <2> QED
    BY <1>0, <2>2, <2>3, <2>4 DEF Flag
<1>3. CASE Run
  <2>0. InFlight' = InFlight
    BY <1>3 DEF Run, JobStart, HandlerReturns, SelfSend, SelfDispatch, JobFails, JobLeave,
                sendVars, InFlight
  <2>1. CASE JobStart
    <3>1. Len(queue') = Len(queue) - 1
      BY <1>0, <2>1 DEF JobStart
    <3> QED
      BY <1>0, <2>0, <2>1, <3>1 DEF JobStart, Flag
  <2>2. CASE HandlerReturns \/ JobFails
    BY <1>0, <2>0, <2>2 DEF HandlerReturns, JobFails, Flag
  <2>3. CASE SelfSend
    BY <1>0, <2>0, <2>3 DEF SelfSend, Enter, Flag
  <2>4. CASE SelfDispatch
    <3>1. queue' = Append(queue, <<"self", selfSends>>) /\ <<"self", selfSends>> \in accepted
      BY <2>4 DEF SelfDispatch, ActorInv, Fresh
    <3>2. Len(queue') = Len(queue) + 1
      BY <1>0, <3>1
    <3> QED
      BY <1>0, <2>0, <2>4, <3>2 DEF SelfDispatch, Flag
  <2>5. CASE JobLeave
    BY <1>0, <2>0, <2>5 DEF JobLeave, Flag
  <2> QED
    BY <1>3, <2>1, <2>2, <2>3, <2>4, <2>5 DEF Run
<1>4. CASE (\E p \in Stoppers : Stop(p)) \/ (\E j \in Joiners : JoinBegin(j) \/ Join(j)) \/ UNCHANGED vars
  <2>1. UNCHANGED <<group, queue, jobpc, spc>>
    BY <1>4 DEF Stop, JoinBegin, Join, JoinWaited, JoinFinish, JoinClose, vars, sendVars
  <2>2. InFlight' = InFlight
    BY <2>1 DEF InFlight
  <2> QED
    BY <1>0, <2>1, <2>2, SMTT(30)
<1> QED
  BY <1>1, <1>2, <1>3, <1>4 DEF Next

\* The mailbox stays closed, and a drained group of a closed actor stays empty.
LEMMA ClosedStaysEmpty ==
    ASSUME ActorInv, [Next]_vars, closing
    PROVE  closing' /\ (group = 0 => group' = 0)
<1>1. group = 0 => jobpc = "idle"
  BY EmptyGroup DEF ActorInv
<1>2. CASE \E s \in Senders : SendLocked(s) \/ SendDispatch(s)
  BY <1>2, Zenon DEF SendLocked, SendDispatch, actorVars
<1>3. CASE Run
  BY <1>1, <1>3, Zenon DEF Run, JobStart, HandlerReturns, SelfSend, SelfDispatch, JobFails, JobLeave, actorVars
<1>4. CASE \E p \in Stoppers : Stop(p)
  BY <1>4 DEF Stop
<1>5. CASE \E j \in Joiners : JoinBegin(j) \/ Join(j)
  BY <1>5, Zenon DEF JoinBegin, Join, JoinWaited, JoinFinish, JoinClose, actorVars
<1>6. CASE UNCHANGED vars
  BY <1>6 DEF vars, actorVars
<1> QED
  BY <1>2, <1>3, <1>4, <1>5, <1>6 DEF Next

LEMMA DrainedStep ==
    ASSUME ActorInv, [Next]_vars
    PROVE  Drained'
<1>0. /\ Drained /\ jpc \in [Joiners -> {"idle", "wait", "finish", "close", "done"}]
      /\ closing => closing' /\ (group = 0 => group' = 0)
  BY ClosedStaysEmpty DEF ActorInv, Types, TypeOK
<1>1. ASSUME NEW j \in Joiners, JoinBegin(j) \/ Join(j) PROVE Drained'
  <2>1. CASE JoinBegin(j)
    BY <1>0, <2>1 DEF JoinBegin, JoinAt, Drained
  <2>2. CASE JoinWaited(j)
    BY <1>0, <2>2 DEF JoinWaited, JoinAt, Drained, actorVars
  <2>3. CASE JoinFinish(j)
    BY <1>0, <2>3 DEF JoinFinish, JoinAt, Drained
  <2>4. CASE JoinClose(j)
    BY <1>0, <2>4 DEF JoinClose, JoinAt, Drained
  <2> QED
    BY <1>1, <2>1, <2>2, <2>3, <2>4 DEF Join
<1>2. CASE UNCHANGED <<joined, jpc>>
  BY <1>0, <1>2 DEF Drained
<1>3. CASE \/ \E s \in Senders : SendLocked(s) \/ SendDispatch(s)
           \/ Run \/ (\E p \in Stoppers : Stop(p)) \/ UNCHANGED vars
  BY <1>2, <1>3, Zenon DEF SendLocked, SendDispatch, Run, JobStart, HandlerReturns, SelfSend, SelfDispatch,
                    JobFails, JobLeave, Stop, vars, actorVars, joinVars
<1> QED
  BY <1>1, <1>3 DEF Next

LEMMA ReportedStep ==
    ASSUME ActorInv, [Next]_vars
    PROVE  Reported'
<1>0. Reported /\ result \in [Joiners -> {"none", "ok", "EIO", "closeError"}]
  BY DEF ActorInv, Types, TypeOK
<1>1. ASSUME NEW j \in Joiners, JoinBegin(j) \/ Join(j) PROVE Reported'
  <2>1. CASE JoinBegin(j)
    BY <1>0, <2>1 DEF JoinBegin, Return, Reported
  <2>2. CASE JoinWaited(j)
    BY <1>0, <2>2 DEF JoinWaited, Reported, actorVars
  <2>3. CASE JoinFinish(j)
    BY <1>0, <2>3 DEF JoinFinish, Return, Reported
  <2>4. CASE JoinClose(j)
    BY <1>0, <2>4 DEF JoinClose, Return, Reported
  <2> QED
    BY <1>1, <2>1, <2>2, <2>3, <2>4 DEF Join
<1>2. CASE JobFails
  <2>1. ~joined
    BY <1>2, EmptyGroup DEF JobFails, ActorInv, Drained
  <2> QED
    BY <1>0, <1>2, <2>1 DEF JobFails, Reported, joinVars
<1>3. CASE \/ \E s \in Senders : SendLocked(s) \/ SendDispatch(s)
           \/ JobStart \/ HandlerReturns \/ SelfSend \/ SelfDispatch \/ JobLeave
           \/ (\E p \in Stoppers : Stop(p)) \/ UNCHANGED vars
  <2>1. UNCHANGED <<joined, join_result, failed, result>>
    BY <1>3, Zenon DEF SendLocked, SendDispatch, JobStart, HandlerReturns, SelfSend, SelfDispatch,
                JobLeave, Stop, vars, actorVars, joinVars
  <2> QED
    BY <1>0, <2>1, Zenon DEF Reported
<1> QED
  BY <1>1, <1>2, <1>3 DEF Next, Run

LEMMA FreshStep ==
    ASSUME ActorInv, [Next]_vars
    PROVE  Fresh'
<1>0. /\ Fresh /\ returned \subseteq accepted /\ accepted \subseteq Messages
      /\ sent \in [Senders -> Nat] /\ spc \in [Senders -> {"idle", "dispatch"}]
      /\ selfSends \in Nat /\ "self" \notin Senders
  BY ActorAssumption DEF ActorInv, Types, TypeOK
<1>1. ASSUME NEW s \in Senders, SendLocked(s) PROVE Fresh'
  <2>1. /\ sent' = [sent EXCEPT ![s] = sent[s] + 1] /\ spc[s] = "idle"
        /\ UNCHANGED <<returned, selfSends, jobpc>>
    BY <1>1 DEF SendLocked
  <2>2. CASE UNCHANGED <<spc, accepted>>
    BY <1>0, <2>1, <2>2 DEF Fresh
  <2>3. CASE /\ spc' = [spc EXCEPT ![s] = "dispatch"]
             /\ accepted' = accepted \cup {<<s, sent[s] + 1>>}
    <3>1. <<s, sent[s] + 1>> \notin accepted
      BY <1>0 DEF Fresh
    <3>2. \A u \in Senders, n \in Nat : <<u, n>> \in accepted' => n <= sent'[u]
      BY <1>0, <2>1, <2>3 DEF Fresh
    <3>3. \A n \in Nat : <<"self", n>> \in accepted' => n <= selfSends'
      BY <1>0, <2>1, <2>3 DEF Fresh
    <3>4. \A u \in Senders : spc'[u] = "dispatch" => <<u, sent'[u]>> \in accepted' \ returned'
      BY <1>0, <2>1, <2>3, <3>1 DEF Fresh
    <3>5. jobpc' = "selfDispatch" => <<"self", selfSends'>> \in accepted' \ returned'
      BY <1>0, <2>1, <2>3 DEF Fresh
    <3> QED
      BY <3>2, <3>3, <3>4, <3>5 DEF Fresh
  <2> QED
    BY <1>1, <2>2, <2>3 DEF SendLocked, Accept
<1>2. ASSUME NEW s \in Senders, SendDispatch(s) PROVE Fresh'
  <2>1. /\ UNCHANGED <<sent, accepted, selfSends, jobpc>> /\ spc' = [spc EXCEPT ![s] = "idle"]
        /\ returned' = returned \cup {<<s, sent[s]>>}
    BY <1>2 DEF SendDispatch
  <2> QED
    BY <1>0, <2>1 DEF Fresh
<1>3. CASE SelfSend
  <2>1. /\ selfSends' = selfSends + 1 /\ jobpc = "handler" /\ UNCHANGED <<returned, sent, spc>>
    BY <1>3 DEF SelfSend
  <2>2. CASE UNCHANGED <<jobpc, accepted>>
    BY <1>0, <2>1, <2>2 DEF Fresh
  <2>3. CASE accepted' = accepted \cup {<<"self", selfSends + 1>>}
    <3>1. <<"self", selfSends + 1>> \notin accepted
      BY <1>0 DEF Fresh
    <3> QED
      BY <1>0, <2>1, <2>3, <3>1 DEF Fresh
  <2> QED
    BY <1>3, <2>2, <2>3 DEF SelfSend, Accept
<1>4. CASE SelfDispatch
  <2>1. /\ UNCHANGED <<sent, spc, accepted, selfSends>> /\ jobpc' = "handler"
        /\ returned' = returned \cup {<<"self", selfSends>>}
    BY <1>4 DEF SelfDispatch
  <2> QED
    BY <1>0, <2>1 DEF Fresh
<1>5. CASE \/ JobStart \/ HandlerReturns \/ JobFails \/ JobLeave \/ (\E p \in Stoppers : Stop(p))
           \/ (\E j \in Joiners : JoinBegin(j) \/ Join(j)) \/ UNCHANGED vars
  <2>1. UNCHANGED <<sendVars, selfSends>> /\ (jobpc' = "selfDispatch" => jobpc = "selfDispatch")
    BY <1>5 DEF JobStart, HandlerReturns, JobFails, JobLeave, Stop, JoinBegin, Join, JoinWaited,
                JoinFinish, JoinClose, vars
  <2> QED
    BY <1>0, <2>1, Zenon DEF Fresh, sendVars
<1> QED
  BY <1>1, <1>2, <1>3, <1>4, <1>5 DEF Next, Run

LEMMA AccountedStep ==
    ASSUME ActorInv, [Next]_vars
    PROVE  Accounted'
<1> SUFFICES ASSUME ~failed', jobpc' # "failed", NEW m \in accepted'
             PROVE  Somewhere(m)'
  BY DEF Accounted
<1>0. /\ queue \in Seq(accepted) /\ handled \in Seq(accepted)
      /\ sent \in [Senders -> Nat] /\ spc \in [Senders -> {"idle", "dispatch"}] /\ Fresh
  BY ActorAssumption DEF ActorInv, Types, TypeOK
<1>1. ~failed /\ jobpc # "failed"
  <2>1. CASE \E s \in Senders : SendLocked(s) \/ SendDispatch(s)
    BY <2>1 DEF SendLocked, SendDispatch, actorVars
  <2>2. CASE JobStart \/ HandlerReturns \/ SelfSend \/ SelfDispatch \/ JobLeave
    BY <2>2 DEF JobStart, HandlerReturns, SelfSend, SelfDispatch, JobLeave, actorVars
  <2>3. ~JobFails
    BY DEF JobFails
  <2>4. CASE (\E p \in Stoppers : Stop(p)) \/ UNCHANGED vars
    BY <2>4, SMTT(30) DEF Stop, vars, actorVars
  <2>5. CASE \E j \in Joiners : JoinBegin(j) \/ Join(j)
    BY <2>5 DEF JoinBegin, Join, JoinWaited, JoinFinish, JoinClose, actorVars
  <2> QED
    BY <2>1, <2>2, <2>3, <2>4, <2>5 DEF Next, Run
<1>2. m \in accepted => Somewhere(m)
  BY <1>1 DEF ActorInv, Accounted
<1>3. ASSUME NEW s \in Senders, SendLocked(s) PROVE Somewhere(m)'
  <2>1. /\ sent' = [sent EXCEPT ![s] = sent[s] + 1] /\ spc[s] = "idle"
        /\ UNCHANGED <<queue, handled, selfSends, jobpc>>
    BY <1>3 DEF SendLocked
  <2>2. CASE UNCHANGED <<spc, accepted>>
    BY <1>0, <1>2, <2>1, <2>2 DEF Somewhere
  <2>3. CASE /\ spc' = [spc EXCEPT ![s] = "dispatch"]
             /\ accepted' = accepted \cup {<<s, sent[s] + 1>>}
    BY <1>0, <1>2, <2>1, <2>3 DEF Somewhere
  <2> QED
    BY <1>3, <2>2, <2>3 DEF SendLocked, Accept
<1>4. ASSUME NEW s \in Senders, SendDispatch(s) PROVE Somewhere(m)'
  <2>1. /\ UNCHANGED <<sent, accepted, selfSends, jobpc, handled>> /\ spc' = [spc EXCEPT ![s] = "idle"]
        /\ queue' = Append(queue, <<s, sent[s]>>) /\ <<s, sent[s]>> \in accepted
    BY <1>0, <1>4 DEF SendDispatch, Fresh
  <2>2. /\ Len(queue') = Len(queue) + 1 /\ queue'[Len(queue) + 1] = <<s, sent[s]>>
        /\ \A i \in 1..Len(queue) : queue'[i] = queue[i]
    BY <1>0, <2>1, SMTT(30)
  <2> QED
    BY <1>0, <1>2, <2>1, <2>2 DEF Somewhere
<1>5. CASE JobStart
  <2>1. /\ UNCHANGED <<sent, spc, accepted, selfSends>> /\ jobpc = "idle" /\ queue # <<>>
        /\ queue' = Tail(queue) /\ handled' = Append(handled, Head(queue))
    BY <1>5 DEF JobStart, sendVars
  <2>2. /\ Len(queue') = Len(queue) - 1 /\ \A i \in 1..Len(queue) - 1 : queue'[i] = queue[i + 1]
        /\ Len(handled') = Len(handled) + 1 /\ handled'[Len(handled) + 1] = queue[1]
        /\ \A i \in 1..Len(handled) : handled'[i] = handled[i]
    BY <1>0, <2>1
  <2>3. \A i \in 1..Len(queue) : i = 1 \/ (i - 1 \in 1..Len(queue') /\ queue'[i - 1] = queue[i])
    BY <1>0, <2>2, SMTT(30)
  <2>4. CASE \E i \in 1..Len(handled) : handled[i] = m
    BY <1>0, <2>2, <2>4 DEF Somewhere
  <2>5. CASE \E i \in 1..Len(queue) : queue[i] = m
    <3>1. PICK i \in 1..Len(queue) : queue[i] = m
      BY <2>5
    <3>2. CASE i = 1
      <4>1. Len(handled) + 1 \in 1..Len(handled') /\ handled'[Len(handled) + 1] = m
        BY <1>0, <2>2, <3>1, <3>2
      <4> QED
        BY <4>1 DEF Somewhere
    <3>3. CASE i # 1
      BY <2>3, <3>1, <3>3 DEF Somewhere
    <3> QED
      BY <3>2, <3>3
  <2>6. CASE \E s \in Senders : spc[s] = "dispatch" /\ m = <<s, sent[s]>>
    BY <2>1, <2>6 DEF Somewhere
  <2> QED
    BY <1>2, <2>1, <2>4, <2>5, <2>6 DEF Somewhere
<1>6. CASE SelfSend
  BY <1>0, <1>2, <1>6, Zenon DEF SelfSend, Accept, Somewhere
<1>7. CASE SelfDispatch
  <2>1. /\ UNCHANGED <<sent, spc, accepted, selfSends, handled>> /\ <<"self", selfSends>> \in accepted
        /\ queue' = Append(queue, <<"self", selfSends>>)
    BY <1>0, <1>7 DEF SelfDispatch, Fresh
  <2>2. /\ Len(queue') = Len(queue) + 1 /\ queue'[Len(queue) + 1] = <<"self", selfSends>>
        /\ \A i \in 1..Len(queue) : queue'[i] = queue[i]
    BY <1>0, <2>1
  <2>3. CASE m = <<"self", selfSends>>
    <3>1. Len(queue) + 1 \in 1..Len(queue')
      BY <1>0, <2>2
    <3> QED
      BY <2>2, <2>3, <3>1 DEF Somewhere
  <2>4. CASE \E i \in 1..Len(queue) : queue[i] = m
    BY <1>0, <2>2, <2>4 DEF Somewhere
  <2>5. CASE \/ \E i \in 1..Len(handled) : handled[i] = m
             \/ \E s \in Senders : spc[s] = "dispatch" /\ m = <<s, sent[s]>>
    BY <2>1, <2>5 DEF Somewhere
  <2> QED
    BY <1>2, <2>1, <2>3, <2>4, <2>5 DEF Somewhere
<1>8. CASE \/ HandlerReturns \/ JobFails \/ JobLeave \/ (\E p \in Stoppers : Stop(p))
           \/ (\E j \in Joiners : JoinBegin(j) \/ Join(j)) \/ UNCHANGED vars
  <2>1. /\ UNCHANGED <<queue, handled, sent, spc, accepted, selfSends>>
        /\ jobpc = "selfDispatch" => jobpc' = "selfDispatch"
    BY <1>8, Zenon DEF HandlerReturns, JobFails, JobLeave, Stop, JoinBegin, Join, JoinWaited,
                JoinFinish, JoinClose, vars, sendVars
  <2> QED
    BY <1>2, <2>1, Zenon DEF Somewhere
<1> QED
  BY <1>3, <1>4, <1>5, <1>6, <1>7, <1>8 DEF Next, Run

\* A message that was not accepted yet is in no sequence.
LEMMA AcceptOrdered ==
    ASSUME ActorInv, NEW m \in Messages \ accepted, Accept(m), UNCHANGED <<queue, handled>>
    PROVE  Ordered'
<1>1. /\ \A i \in 1..Len(handled) : handled[i] \in accepted
      /\ \A i \in 1..Len(queue) : queue[i] \in accepted
      /\ before \in [Messages -> SUBSET returned] /\ accepted \subseteq Messages
  BY DEF ActorInv, Types, TypeOK
<1>2. \A n \in accepted : before'[n] = before[n]
  BY <1>1 DEF Accept
<1> QED
  BY <1>1, <1>2, Zenon DEF ActorInv, Ordered

\* A message that had not returned is in nobody's past.
LEMMA DispatchOrdered ==
    ASSUME ActorInv, NEW m \in accepted \ returned, queue' = Append(queue, m),
           UNCHANGED <<handled, before>>
    PROVE  Ordered'
<1>0. queue \in Seq(accepted) /\ handled \in Seq(accepted) /\ Ordered
  BY DEF ActorInv, Types, TypeOK
<1>1. \A n \in accepted : m \notin before[n]
  BY DEF ActorInv, Types, TypeOK
<1>2. /\ Len(queue') = Len(queue) + 1 /\ queue'[Len(queue) + 1] = m
      /\ \A i \in 1..Len(queue) : queue'[i] = queue[i]
  BY <1>0
<1>3. \A i \in 1..Len(queue') : queue'[i] \in accepted /\ (i \in 1..Len(queue) \/ i = Len(queue) + 1)
  BY <1>0, <1>2
<1>4. \A i \in 1..Len(handled), k \in 1..Len(queue') : queue'[k] \notin before[handled[i]]
  BY <1>0, <1>1, <1>2, <1>3 DEF Ordered
<1>5. \A i, k \in 1..Len(queue') : queue'[k] \in before[queue'[i]] => k < i
  BY <1>0, <1>1, <1>2, <1>3 DEF Ordered
<1> QED
  BY <1>0, <1>4, <1>5, Zenon DEF Ordered

LEMMA JobStartOrdered ==
    ASSUME ActorInv, JobStart
    PROVE  Ordered'
<1>0. queue \in Seq(accepted) /\ handled \in Seq(accepted) /\ Ordered
  BY DEF ActorInv, Types, TypeOK
<1>1. queue # <<>> /\ queue' = Tail(queue) /\ UNCHANGED before
  BY DEF JobStart, sendVars
<1>2. Len(queue') = Len(queue) - 1 /\ \A i \in 1..Len(queue') : i + 1 \in 1..Len(queue) /\ queue'[i] = queue[i + 1]
  BY <1>0, <1>1
<1>3. \A i, k \in 1..Len(queue') : queue'[k] \in before'[queue'[i]] => k < i
  BY <1>0, <1>1, <1>2, SMTT(30) DEF Ordered
<1>4. CASE UNCHANGED handled
  BY <1>0, <1>1, <1>2, <1>3, <1>4 DEF Ordered
<1>5. CASE handled' = Append(handled, Head(queue))
  <2>1. /\ Len(handled') = Len(handled) + 1 /\ handled'[Len(handled) + 1] = queue[1]
        /\ 1 \in 1..Len(queue)
        /\ \A i \in 1..Len(handled) : handled'[i] = handled[i]
    BY <1>0, <1>1, <1>5
  <2>2. \A i \in 1..Len(handled') : i \in 1..Len(handled) \/ i = Len(handled) + 1
    BY <1>0, <2>1
  <2>3. \A i, k \in 1..Len(handled') : handled'[k] \in before'[handled'[i]] => k < i
    BY <1>0, <1>1, <2>1, <2>2 DEF Ordered
  <2>4. \A i \in 1..Len(handled'), k \in 1..Len(queue') : queue'[k] \notin before'[handled'[i]]
    BY <1>0, <1>1, <1>2, <2>1, <2>2 DEF Ordered
  <2> QED
    BY <1>3, <2>3, <2>4 DEF Ordered
<1> QED
  BY <1>4, <1>5 DEF JobStart

LEMMA OrderedStep ==
    ASSUME ActorInv, [Next]_vars
    PROVE  Ordered'
<1>0. /\ Fresh /\ sent \in [Senders -> 0..MaxSends] /\ selfSends \in 0..MaxSelfSends
      /\ MaxSends \in Nat /\ MaxSelfSends \in Nat /\ Ordered
  BY ActorAssumption DEF ActorInv, Types, TypeOK
<1>1. CASE UNCHANGED <<queue, handled, before>>
  BY <1>0, <1>1 DEF Ordered
<1>2. ASSUME NEW s \in Senders, SendLocked(s) PROVE Ordered'
  <2>1. <<s, sent[s] + 1>> \in Messages \ accepted
    BY <1>0, <1>2 DEF SendLocked, Messages, Fresh
  <2> QED
    BY <1>1, <1>2, <2>1, AcceptOrdered DEF SendLocked
<1>3. ASSUME NEW s \in Senders, SendDispatch(s) PROVE Ordered'
  <2>1. <<s, sent[s]>> \in accepted \ returned
    BY <1>0, <1>3 DEF SendDispatch, Fresh
  <2> QED
    BY <1>3, <2>1, DispatchOrdered DEF SendDispatch
<1>4. CASE SelfSend
  <2>1. <<"self", selfSends + 1>> \in Messages \ accepted
    BY <1>0, <1>4 DEF SelfSend, Messages, Fresh
  <2> QED
    BY <1>1, <1>4, <2>1, AcceptOrdered DEF SelfSend
<1>5. CASE SelfDispatch
  <2>1. <<"self", selfSends>> \in accepted \ returned
    BY <1>0, <1>5, Zenon DEF SelfDispatch, Fresh
  <2> QED
    BY <1>5, <2>1, DispatchOrdered DEF SelfDispatch
<1>6. CASE \/ HandlerReturns \/ JobFails \/ JobLeave \/ (\E p \in Stoppers : Stop(p))
           \/ (\E j \in Joiners : JoinBegin(j) \/ Join(j)) \/ UNCHANGED vars
  BY <1>1, <1>6 DEF HandlerReturns, JobFails, JobLeave, Stop, JoinBegin, Join, JoinWaited,
                    JoinFinish, JoinClose, vars, sendVars
<1> QED
  BY <1>2, <1>3, <1>4, <1>5, <1>6, JobStartOrdered DEF Next, Run

\* What send accepted is handled, in the order of the sends of each sender, and before
\* a join takes the owner: for any number of senders, joiners, stops, failures and
\* messages that handlers send to their own actor.
THEOREM MessagesHandledTheorem == Spec => []MessagesHandled
<1>1. Init => ActorInv
  BY ActorInit
<1>2. ActorInv /\ [Next]_vars => ActorInv'
  BY TypesStep, GroupStep, DrainedStep, ReportedStep, FreshStep, AccountedStep, OrderedStep DEF ActorInv
<1>3. ActorInv => MessagesHandled
  <2> SUFFICES ASSUME ActorInv PROVE MessagesHandled
    OBVIOUS
  <2>0. queue \in Seq(accepted) /\ handled \in Seq(accepted)
    BY DEF ActorInv, Types, TypeOK
  <2>1. NoJobAfterJoin
    BY EmptyGroup DEF ActorInv, Drained, NoJobAfterJoin
  <2>2. ASSUME NEW j \in Joiners, result[j] = "ok" PROVE Range(handled) = accepted
    <3>1. joined /\ ~failed
      BY <2>2 DEF ActorInv, Reported
    <3>2. queue = <<>> /\ jobpc = "idle" /\ \A s \in Senders : spc[s] = "idle"
      BY <2>1, <3>1 DEF NoJobAfterJoin
    <3>3. \A m \in accepted : Somewhere(m)
      BY <3>1, <3>2 DEF ActorInv, Accounted
    <3>4. \A m \in accepted : \E i \in 1..Len(handled) : handled[i] = m
      BY <3>2, <3>3 DEF Somewhere
    <3>5. /\ DOMAIN handled = 1..Len(handled)
          /\ \A i \in DOMAIN handled : handled[i] \in accepted
      BY <2>0
    <3>6. Range(handled) = {handled[i] : i \in DOMAIN handled}
      BY DEF Range
    <3>7. \A m \in accepted : \E i \in DOMAIN handled : handled[i] = m
      BY <3>4, <3>5
    <3> QED
      BY <3>5, <3>6, <3>7
  <2>3. AcceptedAreHandled
    BY <2>2 DEF ActorInv, Types, AcceptedAreHandled
  <2>4. SendOrder
    <3> SUFFICES ASSUME NEW i \in DOMAIN handled, NEW m \in before[handled[i]], m \in Range(handled)
                 PROVE  \E k \in 1..(i - 1) : handled[k] = m
      BY DEF SendOrder
    <3>1. DOMAIN handled = 1..Len(handled)
      BY <2>0
    <3>2. PICK k \in 1..Len(handled) : handled[k] = m
      BY <3>1 DEF Range
    <3>3. k < i
      BY <3>1, <3>2 DEF ActorInv, Ordered
    <3> QED
      BY <3>1, <3>2, <3>3
  <2> QED
    BY <2>1, <2>3, <2>4 DEF MessagesHandled
<1> QED
  BY <1>1, <1>2, <1>3, PTL DEF Spec
=============================================================================
