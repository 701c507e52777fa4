------------------------- MODULE AsyncChannelProofs -------------------------
(***************************************************************************)
(* Proofs about AsyncChannel for any capacity, any sets of tasks and       *)
(* threads in any roles, any cancellations and closings.                   *)
(***************************************************************************)
EXTENDS AsyncChannel, SequenceTheorems, FiniteSetTheorems, TLAPS

\* Appending to the right operand of a concatenation appends to the whole.
LEMMA AppendRight ==
    ASSUME NEW S, NEW s \in Seq(S), NEW t \in Seq(S), NEW e \in S
    PROVE  s \o Append(t, e) = Append(s \o t, e)
<1>1. <<e>> \in Seq(S) /\ s \o t \in Seq(S)
  OBVIOUS
<1>2. s \o (t \o <<e>>) = (s \o t) \o <<e>>
  BY <1>1, ConcatAssociative
<1>3. Append(t, e) = t \o <<e>> /\ Append(s \o t, e) = (s \o t) \o <<e>>
  BY <1>1, AppendIsConcat, Zenon
<1> QED
  BY <1>2, <1>3, Zenon

\* Moving the head of the right operand to the end of the left one changes
\* nothing.
LEMMA ShiftHead ==
    ASSUME NEW S, NEW s \in Seq(S), NEW t \in Seq(S), t # <<>>
    PROVE  Append(s, Head(t)) \o Tail(t) = s \o t
<1>1. Head(t) \in S /\ Tail(t) \in Seq(S) /\ <<Head(t)>> \in Seq(S)
  OBVIOUS
<1>2. <<Head(t)>> \o Tail(t) = t
  OBVIOUS
<1>3. Append(s, Head(t)) = s \o <<Head(t)>>
  BY <1>1, AppendIsConcat, Zenon
<1>4. (s \o <<Head(t)>>) \o Tail(t) = s \o (<<Head(t)>> \o Tail(t))
  BY <1>1, ConcatAssociative
<1> QED
  BY <1>2, <1>3, <1>4, Zenon

\* A frame only polls the channel while it has no permit, and a run that is
\* under way is what keeps its future running.
PermitPhase ==
    /\ \A t \in Tasks : pc[t] \in {"poll", "body", "ready", "again"} =>
                            fstate[t] = "running"
    /\ \A a \in Actors : pc[a] \in {"poll", "wait"} => permit[a] = "none"
    /\ \A t \in Tasks : permit[t] # "none" =>
           \/ frame[t] = "body"
           \/ pc[t] \in {"body", "ready"}
           \/ fstate[t] \in {"complete", "failed"}

\* While the receiving half is open nothing is lost, doubled or reordered.
InOrder == ~receiver_closed => received \o queue = sent

ChannelInv == TypeOK /\ PermitPhase /\ CapacityRespected /\ InOrder
-----------------------------------------------------------------------------
\* Taking nodes off the wait lists leaves lists of tasks, and takes tasks.
WaitTypes ==
    /\ send_waiters \in Seq(Tasks) /\ recv_waiters \in Seq(Tasks)
    /\ asleep \subseteq Threads /\ wakes \subseteq Tasks

LEMMA PartsOfWaiters ==
    ASSUME NEW w \in Seq(Tasks)
    PROVE  Top(w) \subseteq Tasks /\ Rest(w) \in Seq(Tasks) /\ Range(w) \subseteq Tasks
<1>1. Range(w) \subseteq Tasks
  BY DEF Range
<1>2. CASE w = <<>>
  BY <1>1, <1>2 DEF Top, Rest
<1>3. CASE w # <<>>
  BY <1>1, <1>3 DEF Top, Rest
<1> QED
  BY <1>2, <1>3

LEMMA TakeTypes ==
    ASSUME WaitTypes,
           TakeRecvWaiter \/ TakeSendWaiter \/ TakeAllSendWaiters \/ TakeAllQueuedWaiters
    PROVE  WaitTypes'
<1>1. ASSUME SignalCond PROVE asleep' \subseteq Threads
  BY <1>1 DEF SignalCond, WaitTypes
<1>2. /\ Top(send_waiters) \subseteq Tasks /\ Top(recv_waiters) \subseteq Tasks
      /\ Rest(send_waiters) \in Seq(Tasks) /\ Rest(recv_waiters) \in Seq(Tasks)
      /\ Range(send_waiters) \subseteq Tasks /\ Range(recv_waiters) \subseteq Tasks
  BY PartsOfWaiters DEF WaitTypes
<1>3. CASE TakeRecvWaiter
  BY <1>1, <1>2, <1>3 DEF TakeRecvWaiter, WaitTypes
<1>4. CASE TakeSendWaiter
  BY <1>1, <1>2, <1>4 DEF TakeSendWaiter, WaitTypes
<1>5. CASE TakeAllSendWaiters
  BY <1>2, <1>5 DEF TakeAllSendWaiters, WaitTypes
<1>6. CASE TakeAllQueuedWaiters
  BY <1>2, <1>6 DEF TakeAllQueuedWaiters, WaitTypes
<1> QED
  BY <1>3, <1>4, <1>5, <1>6

\* The rest of TypeOK.
ChannelTypes ==
    /\ queue \in Seq(Actors) /\ reserved \in Nat
    /\ sender_closed \in BOOLEAN /\ receiver_closed \in BOOLEAN
    /\ permit \in [Actors -> {"none", "held", "used"}]
    /\ sent \in Seq(Actors) /\ received \in Seq(Actors)

TaskTypes ==
    /\ tstate \in [Tasks -> {"active", "cleaning", "finished"}]
    /\ scheduled \in [Tasks -> BOOLEAN]
    /\ fstate \in [Tasks -> {"pending", "running", "complete", "failed"}]
    /\ cancel_requested \in [Tasks -> BOOLEAN]
    /\ pending \in [Tasks -> {"none", "send", "recv", "other"}]
    /\ frame \in [Tasks -> {"poll", "body"}]
    /\ pc \in [Actors -> {"idle", "start", "poll", "body", "ready", "again",
                          "cleanup", "suspend", "snapshot", "register",
                          "finish", "wait", "done"}]
    /\ canceller \in [Cancellable -> {"none", "broadcast", "cleanup",
                                      "inspect", "finish", "done"}]

LEMMA TypeParts == TypeOK <=> WaitTypes /\ ChannelTypes /\ TaskTypes
BY DEF TypeOK, WaitTypes, ChannelTypes, TaskTypes

LEMMA TypeInit == Init => TypeOK
<1> SUFFICES ASSUME Init PROVE TypeOK
  OBVIOUS
<1>1. <<>> \in Seq(Actors) /\ <<>> \in Seq(Tasks)
  OBVIOUS
<1>2. /\ tstate = [t \in Tasks |-> "active"] /\ scheduled = [t \in Tasks |-> TRUE]
      /\ fstate = [t \in Tasks |-> "pending"]
      /\ pc \in [Actors -> {"idle", "poll", "done"}]
  BY DEF Init, InitWith, Actors
<1> QED
  BY <1>1, <1>2, Zenon DEF Init, InitWith, TypeOK

\* Every step keeps the types of what the channel and its permits hold.
LEMMA ChannelTypeStep ==
    ASSUME TypeOK, [Next]_vars
    PROVE  ChannelTypes'
<1> USE DEF ChannelTypes
<1>0. ChannelTypes
  BY TypeParts
<1>1. ASSUME NEW a \in Actors, Enqueue(a), permit' \in [Actors -> {"none", "held", "used"}],
             reserved' \in Nat
      PROVE  ChannelTypes'
  BY <1>0, <1>1 DEF Enqueue
<1>2. ASSUME NEW a \in Actors, Release(a) PROVE /\ permit' \in [Actors -> {"none", "held", "used"}]
                                               /\ reserved' \in Nat
                                               /\ UNCHANGED <<queue, sender_closed, receiver_closed>>
  BY <1>0, <1>2 DEF Release, Unreserve
<1>3. ASSUME NEW a \in Actors, Poll(a) PROVE ChannelTypes'
  <2>1. CASE PollClosed(a)
    BY <1>0, <2>1 DEF PollClosed, chanVars, history
  <2>2. CASE PollAgain(a)
    BY <1>0, <2>2 DEF PollAgain, chanVars, history
  <2>3. CASE SendPoll(a)
    BY <1>0, <1>1, <2>3 DEF SendPoll
  <2>4. CASE ReservePoll(a)
    BY <1>0, <2>4 DEF ReservePoll, history
  <2>5. CASE RecvPoll(a)
    BY <1>0, <2>5 DEF RecvPoll
  <2> QED
    BY <1>3, <2>1, <2>2, <2>3, <2>4, <2>5 DEF Poll
<1>4. ASSUME NEW a \in Actors, UsePermit(a) PROVE ChannelTypes'
  <2>1. CASE PermitSend(a)
    <3>1. permit' \in [Actors -> {"none", "held", "used"}] /\ reserved' \in Nat
      BY <1>0, <2>1 DEF PermitSend, Unreserve
    <3> QED
      BY <1>0, <1>1, <2>1, <3>1 DEF PermitSend, history
  <2>2. CASE PermitDrop(a)
    BY <1>0, <1>2, <2>2 DEF PermitDrop, history
  <2> QED
    BY <1>4, <2>1, <2>2 DEF UsePermit
<1>5. ASSUME NEW t \in Tasks, TaskStep(t) PROVE ChannelTypes'
  <2>1. CASE OwnerClose(t)
    BY <1>0, <1>2, <2>1, Zenon DEF OwnerClose, history, Actors
  <2>2. CASE ~OwnerClose(t)
    BY <1>0, <1>5, <2>2 DEF TaskStep, Run, PollBegin, PollEnd, Cleanup, Suspend, Snapshot,
       Register, FinishBegin, FinishEnd, chanVars, history
  <2> QED
    BY <2>1, <2>2
<1>6. ASSUME NEW t \in Tasks, Schedule(t) \/ OtherReady(t) \/ CancelStep(t) PROVE ChannelTypes'
  BY <1>0, <1>6 DEF Schedule, OtherReady, CancelStep, CancelFuture, CancelBroadcast,
     CancelInspect, chanVars, history
<1>7. ASSUME NEW b \in Actors, ThreadWait(b) \/ SpuriousWakeup(b) \/ BodyAwait(b)
      PROVE  ChannelTypes'
  BY <1>0, <1>7 DEF ThreadWait, SpuriousWakeup, BodyAwait, chanVars, history
<1>8. CASE CloseSender
  BY <1>0, <1>8 DEF CloseSender, history
<1>9. CASE CloseReceiver
  BY <1>0, <1>9 DEF CloseReceiver, history
<1>10. CASE UNCHANGED vars
  BY <1>0, <1>10 DEF vars, chanVars, history
<1> QED
  BY <1>3, <1>4, <1>5, <1>6, <1>7, <1>8, <1>9, <1>10, Zenon DEF Next, Actors

\* Every step keeps the types of the wait lists.
LEMMA WaitTypeStep ==
    ASSUME TypeOK, [Next]_vars
    PROVE  WaitTypes'
<1>0. WaitTypes
  BY TypeParts
<1>1. ASSUME NEW a \in Actors, Poll(a) \/ UsePermit(a) \/ BodyAwait(a) PROVE WaitTypes'
  <2>1. CASE PollClosed(a) \/ PollAgain(a) \/ ReservePoll(a) \/ BodyAwait(a)
    BY <1>0, <2>1 DEF PollClosed, PollAgain, ReservePoll, BodyAwait, waitVars, WaitTypes
  <2>2. CASE SendPoll(a)
    BY <1>0, <2>2, TakeTypes DEF SendPoll, Enqueue
  <2>3. CASE RecvPoll(a)
    BY <1>0, <2>3, TakeTypes DEF RecvPoll
  <2>4. CASE PermitSend(a)
    BY <1>0, <2>4, TakeTypes DEF PermitSend, Enqueue
  <2>5. CASE PermitDrop(a)
    BY <1>0, <2>5, TakeTypes DEF PermitDrop, Release
  <2> QED
    BY <1>1, <2>1, <2>2, <2>3, <2>4, <2>5 DEF Poll, UsePermit
<1>2. ASSUME NEW b \in Threads, ThreadWait(b) \/ SpuriousWakeup(b) PROVE WaitTypes'
  BY <1>0, <1>2 DEF ThreadWait, SpuriousWakeup, WaitTypes
<1>3. ASSUME NEW t \in Tasks, TaskStep(t) PROVE WaitTypes'
  <2>1. CASE \/ Run(t) \/ PollBegin(t) \/ PollEnd(t) \/ Suspend(t) \/ FinishBegin(t)
             \/ FinishEnd(t)
    BY <1>0, <2>1 DEF Run, PollBegin, PollEnd, Suspend, FinishBegin, FinishEnd, waitVars,
       WaitTypes
  <2>2. CASE Cleanup(t)
    BY <1>0, <2>2, TakeTypes, Zenon DEF Cleanup
  <2>3. CASE Snapshot(t)
    BY <1>0, <2>3 DEF Snapshot, WaitTypes
  <2>4. CASE Register(t)
    <3>1. /\ <<t>> \o send_waiters \in Seq(Tasks)
          /\ <<t>> \o recv_waiters \in Seq(Tasks)
      BY <1>0 DEF WaitTypes
    <3> QED
      BY <1>0, <2>4, <3>1, Zenon DEF Register, WaitTypes
  <2>5. CASE OwnerClose(t)
    BY <1>0, <2>5, TakeTypes, Zenon DEF OwnerClose, Release
  <2> QED
    BY <1>3, <2>1, <2>2, <2>3, <2>4, <2>5, Zenon DEF TaskStep
<1>4. ASSUME NEW t \in Tasks, Schedule(t) \/ OtherReady(t) PROVE WaitTypes'
  BY <1>0, <1>4 DEF Schedule, OtherReady, WaitTypes
<1>5. ASSUME NEW t \in Tasks, CancelStep(t) PROVE WaitTypes'
  <2>1. CASE CancelBroadcast(t)
    BY <1>0, <2>1, TakeTypes DEF CancelBroadcast
  <2>2. CASE CancelFuture(t) \/ CancelInspect(t)
    BY <1>0, <2>2 DEF CancelFuture, CancelInspect, waitVars, WaitTypes
  <2> QED
    BY <1>5, <2>1, <2>2 DEF CancelStep
<1>6. CASE CloseSender \/ CloseReceiver
  BY <1>0, <1>6, TakeTypes DEF CloseSender, CloseReceiver
<1>7. CASE UNCHANGED vars
  BY <1>0, <1>7 DEF vars, waitVars, WaitTypes
<1> QED
  BY <1>1, <1>2, <1>3, <1>4, <1>5, <1>6, <1>7 DEF Next

\* Every step keeps the types of the tasks, their futures and their frames.
LEMMA TaskTypeStep ==
    ASSUME TypeOK, [Next]_vars
    PROVE  TaskTypes'
<1> USE DEF TaskTypes, Goto
<1>0. TaskTypes
  BY TypeParts
<1>1. ASSUME NEW a \in Actors, Poll(a) \/ UsePermit(a) \/ BodyAwait(a) PROVE TaskTypes'
  <2>1. CASE PollClosed(a) \/ SendPoll(a) \/ RecvPoll(a)
    BY <1>0, <2>1, ZenonT(30) DEF PollClosed, SendPoll, RecvPoll, Return, taskVars, futureVars
  <2>2. CASE PollAgain(a)
    BY <1>0, <2>2 DEF PollAgain, taskVars
  <2>3. CASE ReservePoll(a)
    BY <1>0, <2>3 DEF ReservePoll, taskVars, futureVars
  <2>4. CASE PermitSend(a) \/ PermitDrop(a)
    BY <1>0, <2>4 DEF PermitSend, PermitDrop, Return, taskVars, futureVars
  <2>5. CASE BodyAwait(a)
    BY <1>0, <2>5 DEF BodyAwait, taskVars
  <2> QED
    BY <1>1, <2>1, <2>2, <2>3, <2>4, <2>5 DEF Poll, UsePermit
<1>2. ASSUME NEW b \in Threads, ThreadWait(b) \/ SpuriousWakeup(b) PROVE TaskTypes'
  BY <1>0, <1>2 DEF ThreadWait, SpuriousWakeup, taskVars, futureVars
<1>3. ASSUME NEW t \in Tasks, TaskStep(t) PROVE TaskTypes'
  <2>1. CASE Run(t)
    BY <1>0, <2>1, Zenon DEF Run, futureVars
  <2>2. CASE PollBegin(t)
    BY <1>0, <2>2 DEF PollBegin, taskVars
  <2>3. CASE PollEnd(t)
    <3>1. UNCHANGED <<tstate, scheduled, frame, canceller>>
      BY <2>3 DEF PollEnd, taskVars
    <3>2. fstate' \in [Tasks -> {"pending", "running", "complete", "failed"}]
      BY <1>0, <2>3 DEF PollEnd
    <3>3. /\ cancel_requested' \in [Tasks -> BOOLEAN]
          /\ pending' \in [Tasks -> {"none", "send", "recv", "other"}]
      BY <1>0, <2>3, Zenon DEF PollEnd
    <3>4. PICK l \in {"cleanup", "finish", "suspend"} : pc' = [pc EXCEPT ![t] = l]
      BY <2>3 DEF PollEnd
    <3>5. pc' \in [Actors -> {"idle", "start", "poll", "body", "ready", "again",
                             "cleanup", "suspend", "snapshot", "register",
                             "finish", "wait", "done"}]
      BY <1>0, <3>4, Zenon
    <3> QED
      BY <1>0, <3>1, <3>2, <3>3, <3>5
  <2>4. CASE Cleanup(t)
    BY <1>0, <2>4, Zenon DEF Cleanup, taskVars, futureVars
  <2>5. CASE Suspend(t)
    BY <1>0, <2>5, Zenon DEF Suspend, futureVars
  <2>6. CASE Snapshot(t) \/ Register(t)
    BY <1>0, <2>6 DEF Snapshot, Register, taskVars, futureVars
  <2>7. CASE FinishBegin(t)
    <3>1. UNCHANGED <<fstate, cancel_requested, pending, frame>>
      BY <2>7 DEF FinishBegin, futureVars
    <3>2. /\ tstate' \in [Tasks -> {"active", "cleaning", "finished"}]
          /\ scheduled' \in [Tasks -> BOOLEAN]
      BY <1>0, <2>7, Zenon DEF FinishBegin
    <3>3. UNCHANGED pc \/ pc' = [pc EXCEPT ![t] = "idle"]
      BY <2>7 DEF FinishBegin
    <3>4. UNCHANGED canceller \/ canceller' = [canceller EXCEPT ![t] = "done"]
      BY <2>7 DEF FinishBegin
    <3>5. /\ pc' \in [Actors -> {"idle", "start", "poll", "body", "ready", "again",
                                "cleanup", "suspend", "snapshot", "register",
                                "finish", "wait", "done"}]
      BY <1>0, <3>3
    <3>6. canceller' \in [Cancellable -> {"none", "broadcast", "cleanup",
                                          "inspect", "finish", "done"}]
      BY <1>0, <3>4
    <3> QED
      BY <1>0, <3>1, <3>2, <3>5, <3>6
  <2>8. CASE OwnerClose(t) \/ FinishEnd(t)
    BY <1>0, <2>8 DEF OwnerClose, FinishEnd, taskVars, futureVars
  <2> QED
    BY <1>3, <2>1, <2>2, <2>3, <2>4, <2>5, <2>6, <2>7, <2>8 DEF TaskStep
<1>4. ASSUME NEW t \in Tasks, Schedule(t) PROVE TaskTypes'
  BY <1>0, <1>4 DEF Schedule, futureVars
<1>5. ASSUME NEW t \in Tasks, OtherReady(t) PROVE TaskTypes'
  BY <1>0, <1>5 DEF OtherReady, taskVars, futureVars
<1>6. ASSUME NEW t \in Tasks, CancelStep(t) PROVE TaskTypes'
  <2>1. CASE CancelFuture(t)
    BY <1>0, <2>1, Zenon DEF CancelFuture, taskVars, futureVars
  <2>2. CASE CancelBroadcast(t) \/ CancelInspect(t)
    BY <1>0, <2>2 DEF CancelBroadcast, CancelInspect, taskVars, futureVars
  <2> QED
    BY <1>6, <2>1, <2>2 DEF CancelStep
<1>7. CASE CloseSender \/ CloseReceiver
  BY <1>0, <1>7 DEF CloseSender, CloseReceiver, taskVars, futureVars
<1>8. CASE UNCHANGED vars
  BY <1>0, <1>8 DEF vars, taskVars, futureVars
<1> QED
  BY <1>1, <1>2, <1>3, <1>4, <1>5, <1>6, <1>7, <1>8 DEF Next

\* The variables of the channel, its tasks and their futures keep their types,
\* whatever the roles of the actors and whoever is cancelled.
THEOREM TypeCorrect == Spec => []TypeOK
<1>1. TypeOK /\ [Next]_vars => TypeOK'
  BY ChannelTypeStep, WaitTypeStep, TaskTypeStep, Zenon
     DEF TypeOK, ChannelTypes, WaitTypes, TaskTypes
<1> QED
  BY TypeInit, <1>1, PTL DEF Spec
-----------------------------------------------------------------------------
\* Where a frame is decides whether it can hold a permit.
LEMMA PhaseStep ==
    ASSUME TypeOK, PermitPhase, [Next]_vars
    PROVE  PermitPhase'
<1> USE DEF PermitPhase, Goto
<1>0. /\ TaskTypes /\ permit \in [Actors -> {"none", "held", "used"}]
      /\ Tasks \subseteq Actors /\ Threads \subseteq Actors /\ Tasks \cap Threads = {}
  BY TypeParts, AsyncChannelAssumption, Zenon DEF ChannelTypes, Actors
<1>1. ASSUME NEW a \in Actors, Poll(a) PROVE PermitPhase'
  <2>1. CASE PollClosed(a) \/ SendPoll(a) \/ RecvPoll(a)
    <3>1. /\ pc[a] = "poll"
          /\ UNCHANGED <<permit, frame, fstate>>
          /\ pc' = [pc EXCEPT ![a] = IF a \in Tasks THEN "ready" ELSE "done"]
      BY <2>1 DEF PollClosed, SendPoll, RecvPoll, Return, futureVars
    <3> QED
      BY <1>0, <3>1 DEF TaskTypes
  <2>2. CASE PollAgain(a)
    BY <1>0, <2>2 DEF TaskTypes, PollAgain
  <2>3. CASE ReservePoll(a)
    BY <1>0, <2>3 DEF TaskTypes, ReservePoll, futureVars
  <2> QED
    BY <1>1, <2>1, <2>2, <2>3 DEF Poll
<1>2. ASSUME NEW a \in Actors, UsePermit(a) PROVE PermitPhase'
  BY <1>0, <1>2 DEF TaskTypes, UsePermit, PermitSend, PermitDrop, Release, Return, futureVars
<1>3. ASSUME NEW a \in Actors, BodyAwait(a) PROVE PermitPhase'
  BY <1>0, <1>3 DEF TaskTypes, BodyAwait
<1>4. ASSUME NEW b \in Threads, ThreadWait(b) \/ SpuriousWakeup(b) PROVE PermitPhase'
  BY <1>0, <1>4, SMTT(30) DEF TaskTypes, ThreadWait, SpuriousWakeup, futureVars
<1>5. ASSUME NEW t \in Tasks, TaskStep(t) PROVE PermitPhase'
  <2>1. CASE Run(t)
    BY <1>0, <2>1 DEF TaskTypes, Run, futureVars
  <2>2. CASE PollBegin(t)
    BY <1>0, <2>2 DEF TaskTypes, PollBegin
  <2>3. CASE PollEnd(t)
    <3>1. fstate[t] = "running" /\ t \in Actors
      BY <1>0, <2>3 DEF PollEnd
    <3>2. PICK l \in {"cleanup", "finish", "suspend"} :
              /\ pc' = [pc EXCEPT ![t] = l]
              /\ \/ fstate'[t] \in {"complete", "failed"}
                 \/ pc[t] = "again" /\ fstate'[t] = "pending"
      BY <1>0, <2>3 DEF TaskTypes, PollEnd
    <3>3. /\ UNCHANGED <<permit, frame>>
          /\ \A u \in Tasks : u # t => fstate'[u] = fstate[u]
      BY <1>0, <2>3 DEF TaskTypes, PollEnd
    <3>4. /\ pc'[t] = l
          /\ \A a \in Actors : a # t => pc'[a] = pc[a]
      BY <1>0, <3>1, <3>2 DEF TaskTypes
    <3> QED
      BY <1>0, <3>1, <3>2, <3>3, <3>4
  <2>4. CASE Cleanup(t) \/ Suspend(t)
    BY <1>0, <2>4 DEF TaskTypes, Cleanup, Suspend, futureVars
  <2>5. CASE Snapshot(t) \/ Register(t)
    BY <1>0, <2>5 DEF TaskTypes, Snapshot, Register, futureVars
  <2>6. CASE FinishBegin(t) \/ FinishEnd(t)
    BY <1>0, <2>6 DEF TaskTypes, FinishBegin, FinishEnd, futureVars
  <2>7. CASE OwnerClose(t)
    BY <1>0, <2>7 DEF TaskTypes, OwnerClose, Release, futureVars
  <2> QED
    BY <1>5, <2>1, <2>2, <2>3, <2>4, <2>5, <2>6, <2>7, Zenon DEF TaskStep
<1>6. ASSUME NEW t \in Tasks, Schedule(t) \/ OtherReady(t) PROVE PermitPhase'
  BY <1>0, <1>6 DEF TaskTypes, Schedule, OtherReady, futureVars
<1>7. ASSUME NEW t \in Tasks, CancelStep(t) PROVE PermitPhase'
  <2>1. UNCHANGED <<pc, permit, frame>>
    BY <1>7, Zenon DEF CancelStep, CancelFuture, CancelBroadcast, CancelInspect
  <2>2. UNCHANGED fstate \/ (fstate[t] = "pending" /\ fstate' = [fstate EXCEPT ![t] = "failed"])
    BY <1>7 DEF CancelStep, CancelFuture, CancelBroadcast, CancelInspect, futureVars
  <2> QED
    BY <1>0, <2>1, <2>2 DEF TaskTypes
<1>8. CASE CloseSender \/ CloseReceiver
  BY <1>0, <1>8 DEF TaskTypes, CloseSender, CloseReceiver, futureVars
<1>9. CASE UNCHANGED vars
  BY <1>0, <1>9 DEF TaskTypes, vars, futureVars
<1> QED
  BY <1>1, <1>2, <1>3, <1>4, <1>5, <1>6, <1>7, <1>8, <1>9 DEF Next

\* Taking a permit adds one holder, using or releasing it removes one.
LEMMA HeldAdd ==
    ASSUME TypeOK, NEW a \in Actors, permit[a] # "held",
           permit' = [permit EXCEPT ![a] = "held"]
    PROVE  /\ Held' = Held \cup {a} /\ a \notin Held
           /\ Cardinality(Held) \in Nat
           /\ Cardinality(Held') = Cardinality(Held) + 1
<1>1. IsFiniteSet(Held)
  BY AsyncChannelAssumption, FS_Subset DEF Held
<1>2. Held' = Held \cup {a} /\ a \notin Held
  BY DEF Held, TypeOK
<1>3. Cardinality(Held \cup {a}) = Cardinality(Held) + 1
  BY <1>1, <1>2, FS_AddElement, Zenon
<1> QED
  BY <1>1, <1>2, <1>3, FS_CardinalityType

LEMMA HeldRemove ==
    ASSUME TypeOK, NEW a \in Actors, permit[a] = "held",
           permit' = [permit EXCEPT ![a] = "used"]
    PROVE  /\ Held' = Held \ {a} /\ a \in Held
           /\ Cardinality(Held) \in Nat
           /\ Cardinality(Held') = Cardinality(Held) - 1
           /\ Cardinality(Held) > 0
<1>1. IsFiniteSet(Held)
  BY AsyncChannelAssumption, FS_Subset DEF Held
<1>2. Held' = Held \ {a} /\ a \in Held
  BY DEF Held, TypeOK
<1>3. Cardinality(Held \ {a}) = Cardinality(Held) - 1
  BY <1>1, <1>2, FS_RemoveElement
<1>4. Cardinality(Held) \in Nat /\ Cardinality(Held) # 0
  BY <1>1, <1>2, FS_CardinalityType, FS_EmptySet
<1> QED
  BY <1>2, <1>3, <1>4

\* The steps that touch neither the queue nor a permit, and those that do.
Quiet == UNCHANGED <<chanVars, permit, history>>

Loud(a) ==
    \/ PollClosed(a) \/ SendPoll(a) \/ ReservePoll(a) \/ RecvPoll(a)
    \/ PermitSend(a) \/ (Release(a) /\ UNCHANGED history)

LEMMA QuietSteps ==
    ASSUME [Next]_vars
    PROVE  Quiet \/ (\E a \in Actors : Loud(a)) \/ CloseSender \/ CloseReceiver
<1> USE DEF Quiet
<1>1. ASSUME NEW a \in Actors, PollAgain(a) \/ BodyAwait(a) PROVE Quiet
  BY <1>1 DEF PollAgain, BodyAwait
<1>2. ASSUME NEW b \in Threads, ThreadWait(b) \/ SpuriousWakeup(b) PROVE Quiet
  BY <1>2 DEF ThreadWait, SpuriousWakeup
<1>3. ASSUME NEW t \in Tasks, TaskStep(t), ~OwnerClose(t) PROVE Quiet
  BY <1>3, Zenon DEF TaskStep, Run, PollBegin, PollEnd, Cleanup, Suspend, Snapshot, Register,
     FinishBegin, FinishEnd
<1>4. ASSUME NEW t \in Tasks, Schedule(t) \/ OtherReady(t) \/ CancelStep(t) PROVE Quiet
  BY <1>4, Zenon DEF Schedule, OtherReady, CancelStep, CancelFuture, CancelBroadcast, CancelInspect
<1>5. ASSUME NEW t \in Actors, OwnerClose(t) \/ PermitDrop(t)
      PROVE  Release(t) /\ UNCHANGED history
  BY <1>5 DEF OwnerClose, PermitDrop
<1>6. ASSUME UNCHANGED vars PROVE Quiet
  BY <1>6 DEF vars
<1> HIDE DEF Quiet
<1>7. ASSUME NEW a \in Actors, Poll(a) \/ UsePermit(a) \/ BodyAwait(a)
      PROVE  Quiet \/ Loud(a)
  BY <1>1, <1>5, <1>7 DEF Poll, UsePermit, Loud
<1>8. ASSUME NEW t \in Tasks, TaskStep(t) \/ Schedule(t) \/ OtherReady(t) \/ CancelStep(t)
      PROVE  t \in Actors /\ (Quiet \/ Loud(t))
  <2>1. t \in Actors
    BY DEF Actors
  <2> QED
    BY <1>3, <1>4, <1>5, <1>8, <2>1 DEF Loud
<1> QED
  BY <1>2, <1>6, <1>7, <1>8 DEF Next
-----------------------------------------------------------------------------
\* Capacity and permits.
LEMMA CapacityStep ==
    ASSUME ChannelInv, [Next]_vars
    PROVE  CapacityRespected'
<1> USE DEF CapacityRespected
<1>0. /\ TypeOK /\ PermitPhase /\ CapacityRespected
      /\ queue \in Seq(Actors) /\ reserved \in Nat /\ Capacity \in Nat
  BY AsyncChannelAssumption DEF ChannelInv, TypeOK
<1>1. CASE Quiet
  BY <1>0, <1>1 DEF Quiet, chanVars, Held
<1>2. ASSUME NEW a \in Actors, PollClosed(a) PROVE CapacityRespected'
  BY <1>0, <1>2 DEF PollClosed, chanVars, Held
<1>3. ASSUME NEW a \in Actors, SendPoll(a) PROVE CapacityRespected'
  <2>1. queue' = Append(queue, a) /\ UNCHANGED <<reserved, permit>> /\ ~Full
    BY <1>3 DEF SendPoll, Enqueue
  <2>2. Len(queue') = Len(queue) + 1 /\ Held' = Held
    BY <1>0, <2>1 DEF Held
  <2> QED
    BY <1>0, <2>1, <2>2 DEF Full
<1>4. ASSUME NEW a \in Actors, ReservePoll(a) PROVE CapacityRespected'
  <2>1. permit[a] = "none"
    BY <1>0, <1>4 DEF ReservePoll, PermitPhase
  <2>2. Cardinality(Held') = Cardinality(Held) + 1
    BY <1>0, <1>4, <2>1, HeldAdd, Zenon DEF ReservePoll
  <2> QED
    BY <1>0, <1>4, <2>2 DEF ReservePoll, Full
<1>5. ASSUME NEW a \in Actors, RecvPoll(a) PROVE CapacityRespected'
  BY <1>0, <1>5, SMTT(30) DEF RecvPoll, Held
<1>6. ASSUME NEW a \in Actors, PermitSend(a) PROVE CapacityRespected'
  <2>1. Cardinality(Held') = Cardinality(Held) - 1 /\ Cardinality(Held) > 0
    BY <1>0, <1>6, HeldRemove, Zenon DEF PermitSend
  <2>2. reserved' = reserved - 1
    BY <1>0, <1>6, <2>1 DEF PermitSend, Unreserve
  <2> QED
    BY <1>0, <1>6, <2>1, <2>2 DEF PermitSend, Enqueue
<1>7. ASSUME NEW a \in Actors, Release(a) PROVE CapacityRespected'
  <2>1. Cardinality(Held') = Cardinality(Held) - 1 /\ Cardinality(Held) > 0
    BY <1>0, <1>7, HeldRemove, Zenon DEF Release
  <2> QED
    BY <1>0, <1>7, <2>1 DEF Release, Unreserve
<1>8. CASE CloseSender
  BY <1>0, <1>8 DEF CloseSender, Held
<1>9. CASE CloseReceiver
  BY <1>0, <1>9 DEF CloseReceiver, Held
<1> QED
  BY <1>1, <1>2, <1>3, <1>4, <1>5, <1>6, <1>7, <1>8, <1>9, QuietSteps DEF Loud

\* The order of the values.
LEMMA InOrderStep ==
    ASSUME ChannelInv, [Next]_vars
    PROVE  InOrder'
<1> USE DEF InOrder
<1>0. /\ InOrder /\ queue \in Seq(Actors) /\ received \in Seq(Actors)
  BY DEF ChannelInv, TypeOK
<1>1. CASE Quiet
  BY <1>0, <1>1 DEF Quiet, chanVars, history
<1>2. ASSUME NEW a \in Actors, PollClosed(a) \/ ReservePoll(a) \/ (Release(a) /\ UNCHANGED history)
      PROVE  InOrder'
  BY <1>0, <1>2, Zenon DEF PollClosed, ReservePoll, Release, chanVars, history
<1>3. ASSUME NEW a \in Actors, Enqueue(a) PROVE InOrder'
  <2>1. received \o Append(queue, a) = Append(received \o queue, a)
    BY <1>0, AppendRight
  <2> QED
    BY <1>0, <1>3, <2>1 DEF Enqueue
<1>4. ASSUME NEW a \in Actors, RecvPoll(a) PROVE InOrder'
  <2>1. Append(received, Head(queue)) \o Tail(queue) = received \o queue
    BY <1>0, <1>4, ShiftHead, Zenon DEF RecvPoll
  <2> QED
    BY <1>0, <1>4, <2>1 DEF RecvPoll
<1>5. ASSUME NEW a \in Actors, SendPoll(a) \/ PermitSend(a) PROVE InOrder'
  BY <1>0, <1>3, <1>5 DEF SendPoll, PermitSend
<1>6. CASE CloseSender
  BY <1>0, <1>6 DEF CloseSender, history
<1>7. CASE CloseReceiver
  BY <1>7 DEF CloseReceiver
<1> QED
  BY <1>1, <1>2, <1>4, <1>5, <1>6, <1>7, QuietSteps DEF Loud

LEMMA ChannelInvInit == Init => ChannelInv
<1> SUFFICES ASSUME Init PROVE ChannelInv
  OBVIOUS
<1>1. TypeOK
  BY TypeInit
<1>2. PermitPhase
  BY AsyncChannelAssumption DEF Init, InitWith, PermitPhase, Actors
<1>3. Held = {} /\ Cardinality(Held) = 0
  BY FS_EmptySet, Zenon DEF Init, InitWith, Held
<1>4. CapacityRespected
  BY <1>3, AsyncChannelAssumption DEF Init, InitWith, CapacityRespected
<1>5. <<>> \o <<>> = <<>>
  OBVIOUS
<1> QED
  BY <1>1, <1>2, <1>4, <1>5 DEF Init, InitWith, ChannelInv, InOrder

LEMMA ChannelInvariant == Spec => []ChannelInv
<1>1. ChannelInv /\ [Next]_vars => ChannelInv'
  <2> SUFFICES ASSUME ChannelInv, [Next]_vars PROVE ChannelInv'
    BY Zenon
  <2>1. TypeOK'
    BY ChannelTypeStep, WaitTypeStep, TaskTypeStep
       DEF ChannelInv, TypeOK, ChannelTypes, WaitTypes, TaskTypes
  <2>2. PermitPhase'
    BY PhaseStep DEF ChannelInv
  <2> QED
    BY <2>1, <2>2, CapacityStep, InOrderStep DEF ChannelInv
<1> QED
  BY ChannelInvInit, <1>1, PTL DEF Spec

\* Values in the queue and permits together stay within the capacity, and the
\* counter of reserved slots is exactly the number of permits held.
THEOREM CapacityTheorem == Spec => []CapacityRespected
<1>1. ChannelInv => CapacityRespected
  BY DEF ChannelInv
<1> QED
  BY ChannelInvariant, <1>1, PTL
-----------------------------------------------------------------------------
(* The refinement: Held is the abstract set of permits.                    *)

LEMMA AbstractInit == Init => Abstract!Init
BY DEF Init, InitWith, Abstract!Init, Held

\* Every step of the runtime is a step of the abstract channel or stutters.
LEMMA AbstractStep ==
    ASSUME ChannelInv, ChannelInv', [Next]_vars
    PROVE  [Abstract!Next]_(Abstract!vars)
<1>0. /\ TypeOK /\ PermitPhase /\ CapacityRespected /\ InOrder
      /\ queue \in Seq(Actors) /\ received \in Seq(Actors) /\ sent \in Seq(Actors)
      /\ reserved \in Nat /\ Capacity \in Nat
  BY AsyncChannelAssumption DEF ChannelInv, TypeOK
<1>1. ~receiver_closed => Abstract!InFlight = Len(queue)
  <2>1. Len(received \o queue) = Len(received) + Len(queue)
    BY <1>0
  <2> QED
    BY <1>0, <2>1 DEF InOrder, Abstract!InFlight
<1>2. ~receiver_closed /\ ~Full => Abstract!HasRoom
  <2>1. Abstract!Cardinality(Held) = Cardinality(Held)
    BY DEF Abstract!Cardinality, Cardinality
  <2> QED
    BY <1>0, <1>1, <2>1 DEF Abstract!HasRoom, Full, CapacityRespected
<1>3. ASSUME Quiet PROVE UNCHANGED Abstract!vars
  BY <1>3, Zenon DEF Quiet, Abstract!vars, chanVars, history, Held
<1>4. ASSUME NEW a \in Actors, PollClosed(a) PROVE UNCHANGED Abstract!vars
  BY <1>4 DEF PollClosed, Abstract!vars, chanVars, history, Held
<1>5. ASSUME NEW a \in Actors, SendPoll(a) PROVE Abstract!Send(a)
  BY <1>2, <1>5 DEF SendPoll, Enqueue, Abstract!Send, Abstract!Open, Held
<1>6. ASSUME NEW a \in Actors, ReservePoll(a) PROVE Abstract!Reserve(a)
  <2>1. permit[a] = "none"
    BY <1>0, <1>6 DEF ReservePoll, PermitPhase
  <2>2. Held' = Held \cup {a} /\ a \notin Held
    BY <1>0, <1>6, <2>1, HeldAdd, Zenon DEF ReservePoll
  <2> QED
    BY <1>2, <1>6, <2>2, Zenon DEF ReservePoll, Abstract!Reserve, Abstract!Open, history
<1>7. ASSUME NEW a \in Actors, RecvPoll(a) PROVE Abstract!Receive
  <2>1. ~receiver_closed /\ queue # <<>> /\ Len(queue) > 0
    BY <1>0, <1>7 DEF RecvPoll
  <2>2. (received \o queue)[Len(received) + 1] = Head(queue)
    BY <1>0, <2>1
  <2>3. sent[Len(received) + 1] = Head(queue)
    BY <1>0, <2>1, <2>2 DEF InOrder
  <2> QED
    BY <1>1, <1>7, <2>1, <2>3 DEF RecvPoll, Abstract!Receive, Held
<1>8. ASSUME NEW a \in Actors, PermitSend(a)
      PROVE  Abstract!SendReserved(a) \/ Abstract!Release(a)
  <2>1. Held' = Held \ {a} /\ a \in Held
    BY <1>0, <1>8, HeldRemove, Zenon DEF PermitSend
  <2> QED
    BY <1>8, <2>1 DEF PermitSend, Enqueue, history, Abstract!SendReserved, Abstract!Release
<1>9. ASSUME NEW a \in Actors, Release(a), UNCHANGED history PROVE Abstract!Release(a)
  <2>1. Held' = Held \ {a} /\ a \in Held
    BY <1>0, <1>9, HeldRemove, Zenon DEF Release
  <2> QED
    BY <1>9, <2>1 DEF Release, history, Abstract!Release
<1>10. ASSUME CloseSender PROVE Abstract!CloseSender
  BY <1>10 DEF CloseSender, Abstract!CloseSender, history, Held
<1>11. ASSUME CloseReceiver PROVE Abstract!CloseReceiver
  BY <1>11 DEF CloseReceiver, Abstract!CloseReceiver, history, Held
<1>12. ASSUME NEW a \in Actors, Loud(a)
       PROVE  Abstract!Next \/ UNCHANGED Abstract!vars
  BY <1>4, <1>5, <1>6, <1>7, <1>8, <1>9, <1>12 DEF Loud, Abstract!Next
<1> QED
  BY <1>3, <1>10, <1>11, <1>12, QuietSteps, Zenon DEF Abstract!Next

\* The channel with its polls, wait nodes, cancellations and cleanups
\* implements the bounded FIFO with permits.
THEOREM ChannelRefinement == Spec => RefinesBoundedChannel
<1>1. ChannelInv /\ ChannelInv' /\ [Next]_vars => [Abstract!Next]_(Abstract!vars)
  BY AbstractStep
<1> QED
  BY AbstractInit, ChannelInvariant, <1>1, PTL
     DEF Spec, RefinesBoundedChannel, Abstract!Spec
-----------------------------------------------------------------------------
(* Wake-ups, as long as nobody is cancelled.                               *)

\* Where task t is: a task that runs is scheduled, one that looks for a place to
\* park is not, and a node in flight belongs to a task at rest.
Place(t) ==
    /\ ~cancel_requested[t]
    /\ pc[t] # "cleanup"
    /\ pc[t] # "idle" => tstate[t] = "active"
    /\ tstate[t] = "active" /\ pc[t] \in {"idle", "start", "suspend", "snapshot", "register"} =>
           fstate[t] = "pending"
    /\ pc[t] \in {"start", "poll", "body", "ready", "again", "suspend", "finish"} => scheduled[t]
    /\ pc[t] \in {"snapshot", "register"} => ~scheduled[t]
    /\ t \in wakes => pc[t] = "idle" /\ ~scheduled[t]
    /\ pc[t] \in {"poll", "register"} => frame[t] = "poll"
    /\ frame[t] = "poll" => pending[t] # "other"
    /\ frame[t] = "body" /\ pc[t] \in {"again", "suspend", "snapshot"} => pending[t] = "other"

\* A parked task sleeps until its node is taken.
Asleep(t) ==
    /\ tstate[t] = "active" /\ pc[t] = "idle" /\ ~scheduled[t] /\ t \notin wakes
    /\ frame[t] = "poll"

Once(w) == \A i, j \in DOMAIN w : w[i] = w[j] => i = j

\* The wait lists hold parked tasks, each once, and nobody parks at a closed channel.
Parked ==
    /\ \A u \in Range(recv_waiters) : u \in Receivers /\ Asleep(u)
    /\ \A u \in Range(send_waiters) : u \notin Receivers /\ Asleep(u)
    /\ Once(recv_waiters) /\ Once(send_waiters)
    /\ sender_closed \/ receiver_closed => recv_waiters = <<>> /\ send_waiters = <<>>

WakeInv == (\A t \in Tasks : Place(t)) /\ Parked /\ EnoughOnTheWay

\* What a step leaves alone of task u.
Same(u) ==
    /\ pc'[u] = pc[u] /\ tstate'[u] = tstate[u] /\ scheduled'[u] = scheduled[u]
    /\ fstate'[u] = fstate[u] /\ cancel_requested'[u] = cancel_requested[u]
    /\ pending'[u] = pending[u] /\ frame'[u] = frame[u]

LEMMA Names ==
    /\ Tasks \subseteq Actors /\ Threads \subseteq Actors /\ Tasks \cap Threads = {}
    /\ Capacity \in Nat /\ IsFiniteSet(Tasks)
<1>1. IsFiniteSet(Actors) /\ Tasks \subseteq Actors
  BY AsyncChannelAssumption, Zenon DEF Actors
<1>2. IsFiniteSet(Tasks)
  BY <1>1, FS_Subset, Zenon
<1> QED
  BY <1>1, <1>2, AsyncChannelAssumption DEF Actors

\* One node taken from the top of a wait list.
LEMMA TakeTop ==
    ASSUME NEW w \in Seq(Tasks), Once(w)
    PROVE  /\ Once(Rest(w)) /\ Range(Rest(w)) = Range(w) \ Top(w) /\ Top(w) \subseteq Range(w)
           /\ w # <<>> => Top(w) = {Head(w)} /\ Head(w) \in Tasks
<1>1. CASE w = <<>>
  BY <1>1, Zenon DEF Top, Rest
<1>2. CASE w # <<>>
  <2>1. /\ Top(w) = {w[1]} /\ Rest(w) = Tail(w) /\ 1 \in DOMAIN w /\ Head(w) = w[1] /\ w[1] \in Tasks
    BY <1>2 DEF Top, Rest
  <2>2. /\ \A i \in DOMAIN Tail(w) : i + 1 \in DOMAIN w /\ Tail(w)[i] = w[i + 1] /\ i + 1 # 1
        /\ \A i \in DOMAIN w : i # 1 => i - 1 \in DOMAIN Tail(w) /\ Tail(w)[i - 1] = w[i]
    BY <1>2
  <2>3. \A i, j \in DOMAIN Tail(w) : i + 1 = j + 1 => i = j
    BY <1>2
  <2>4. Once(Tail(w))
    <3> SUFFICES ASSUME NEW i \in DOMAIN Tail(w), NEW j \in DOMAIN Tail(w), Tail(w)[i] = Tail(w)[j]
                 PROVE  i = j
      BY Zenon DEF Once
    <3>1. i + 1 \in DOMAIN w /\ j + 1 \in DOMAIN w /\ w[i + 1] = w[j + 1]
      BY <2>2, Zenon
    <3>2. i + 1 = j + 1
      BY <3>1, Zenon DEF Once
    <3> QED
      BY <2>3, <3>2, Zenon
  <2>5. Range(Tail(w)) \subseteq Range(w) \ {w[1]}
    <3> SUFFICES ASSUME NEW x \in Range(Tail(w)) PROVE x \in Range(w) /\ x # w[1]
      BY Zenon
    <3>1. PICK i \in DOMAIN Tail(w) : x = Tail(w)[i]
      BY Zenon DEF Range
    <3>2. i + 1 \in DOMAIN w /\ x = w[i + 1] /\ i + 1 # 1
      BY <2>2, <3>1, Zenon
    <3>3. x # w[1]
      BY <2>1, <3>2, Zenon DEF Once
    <3> QED
      BY <3>2, <3>3, Zenon DEF Range
  <2>6. Range(w) \ {w[1]} \subseteq Range(Tail(w))
    <3> SUFFICES ASSUME NEW x \in Range(w), x # w[1] PROVE x \in Range(Tail(w))
      BY Zenon
    <3>1. PICK i \in DOMAIN w : x = w[i]
      BY Zenon DEF Range
    <3>2. i - 1 \in DOMAIN Tail(w) /\ Tail(w)[i - 1] = x
      BY <2>2, <3>1, Zenon
    <3> QED
      BY <3>2, Zenon DEF Range
  <2>7. {w[1]} \subseteq Range(w)
    BY <2>1, Zenon DEF Range
  <2> QED
    BY <2>1, <2>4, <2>5, <2>6, <2>7, Zenon
<1> QED
  BY <1>1, <1>2

\* One node pushed.
LEMMA PushTop ==
    ASSUME NEW w \in Seq(Tasks), Once(w), NEW t \in Tasks, t \notin Range(w)
    PROVE  Once(<<t>> \o w) /\ Range(<<t>> \o w) = Range(w) \cup {t}
<1> DEFINE v == <<t>> \o w
<1>1. /\ 1 \in DOMAIN v /\ v[1] = t
      /\ \A i \in DOMAIN v : i # 1 => i - 1 \in DOMAIN w /\ v[i] = w[i - 1]
      /\ \A i \in DOMAIN w : i + 1 \in DOMAIN v /\ v[i + 1] = w[i]
      /\ \A i, j \in DOMAIN v : i - 1 = j - 1 => i = j
  OBVIOUS
<1> HIDE DEF v
<1>2. Range(v) = Range(w) \cup {t}
  <2>1. ASSUME NEW x \in Range(v) PROVE x \in Range(w) \cup {t}
    <3>1. PICK i \in DOMAIN v : x = v[i]
      BY <2>1, Zenon DEF Range
    <3>2. CASE i = 1
      BY <1>1, <3>1, <3>2, Zenon
    <3>3. CASE i # 1
      <4>1. i - 1 \in DOMAIN w /\ w[i - 1] = x
        BY <1>1, <3>1, <3>3, Zenon
      <4> QED
        BY <4>1, Zenon DEF Range
    <3> QED
      BY <3>2, <3>3, Zenon
  <2>2. ASSUME NEW x \in Range(w) PROVE x \in Range(v)
    <3>1. PICK i \in DOMAIN w : x = w[i]
      BY <2>2, Zenon DEF Range
    <3>2. i + 1 \in DOMAIN v /\ v[i + 1] = x
      BY <1>1, <3>1, Zenon
    <3> QED
      BY <3>2, Zenon DEF Range
  <2>3. t \in Range(v)
    BY <1>1, Zenon DEF Range
  <2> QED
    BY <2>1, <2>2, <2>3, Zenon
<1>3. \A i, j \in DOMAIN v : v[i] = v[j] => i = j
  <2> SUFFICES ASSUME NEW i \in DOMAIN v, NEW j \in DOMAIN v, v[i] = v[j] PROVE i = j
    OBVIOUS
  <2>1. CASE i # 1 /\ j # 1
    <3>1. i - 1 \in DOMAIN w /\ j - 1 \in DOMAIN w /\ w[i - 1] = w[j - 1]
      BY <1>1, <2>1, Zenon
    <3>2. i - 1 = j - 1
      BY <3>1, Zenon DEF Once
    <3> QED
      BY <1>1, <3>2, Zenon
  <2>2. i = 1 \/ j = 1 => i = 1 /\ j = 1
    <3>1. \A k \in DOMAIN v : k # 1 => v[k] \in Range(w)
      <4> SUFFICES ASSUME NEW k \in DOMAIN v, k # 1 PROVE v[k] \in Range(w)
        BY Zenon
      <4>1. k - 1 \in DOMAIN w /\ v[k] = w[k - 1]
        BY <1>1, Zenon
      <4> QED
        BY <4>1, Zenon DEF Range
    <3> QED
      BY <1>1, <3>1, Zenon
  <2> QED
    BY <2>1, <2>2, Zenon
<1> QED
  BY <1>2, <1>3, Zenon DEF Once, v

\* Enough tasks are on their way after one more, or one less, has to be.
LEMMA Enough ==
    ASSUME NEW S, IsFiniteSet(S), NEW T, IsFiniteSet(T), NEW m \in Int, NEW n \in Int,
           m <= Cardinality(S),
           \/ S \subseteq T /\ n <= m
           \/ S \subseteq T /\ T \ S # {} /\ n <= m + 1
           \/ \E x : S \subseteq T \cup {x} /\ n <= m - 1
    PROVE  n <= Cardinality(T)
<1>0. Cardinality(S) \in Nat /\ Cardinality(T) \in Nat
  BY FS_CardinalityType, Zenon
<1>1. S \subseteq T => Cardinality(S) <= Cardinality(T)
  BY FS_Subset, Zenon
<1>2. ASSUME S \subseteq T, T \ S # {} PROVE Cardinality(S) + 1 <= Cardinality(T)
  <2>1. PICK x \in T : x \notin S
    BY <1>2, Zenon
  <2>2. S \cup {x} \subseteq T
    BY <1>2, <2>1, Zenon
  <2>3. IsFiniteSet(S \cup {x}) /\ Cardinality(S \cup {x}) = Cardinality(S) + 1
    BY <2>1, FS_AddElement
  <2> QED
    BY <2>2, <2>3, FS_Subset
<1>3. ASSUME NEW x, S \subseteq T \cup {x} PROVE Cardinality(S) <= Cardinality(T) + 1
  <2>1. IsFiniteSet(T \cup {x}) /\ Cardinality(T \cup {x}) <= Cardinality(T) + 1
    BY <1>0, FS_AddElement
  <2>2. Cardinality(S) <= Cardinality(T \cup {x}) /\ Cardinality(T \cup {x}) \in Nat
    BY <1>3, <2>1, FS_Subset, FS_CardinalityType, Zenon
  <2> QED
    BY <1>0, <2>1, <2>2
<1>4. CASE S \subseteq T /\ n <= m
  BY <1>0, <1>1, <1>4
<1>5. CASE S \subseteq T /\ T \ S # {} /\ n <= m + 1
  BY <1>0, <1>2, <1>5
<1>6. CASE \E x : S \subseteq T \cup {x} /\ n <= m - 1
  <2>1. Cardinality(S) <= Cardinality(T) + 1 /\ n <= m - 1
    BY <1>3, <1>6, Zenon
  <2> QED
    BY <1>0, <2>1
<1> QED
  BY <1>4, <1>5, <1>6, Zenon

OnRecv == {t \in Receivers \cap Tasks : OnItsWay(t)}
OnSend == {t \in Tasks \ Receivers : OnItsWay(t)}
Slots == Capacity - (Len(queue) + reserved)

LEMMA OnFinite == IsFiniteSet(OnRecv) /\ IsFiniteSet(OnSend)
                  /\ IsFiniteSet(OnRecv') /\ IsFiniteSet(OnSend')
<1>1. /\ OnRecv \subseteq Tasks /\ OnSend \subseteq Tasks
      /\ OnRecv' \subseteq Tasks /\ OnSend' \subseteq Tasks
  BY Zenon DEF OnRecv, OnSend
<1> QED
  BY <1>1, Names, FS_Subset, Zenon

\* A step of actor t that takes the nodes of P.
LEMMA StepOf ==
    ASSUME \A u \in Tasks : Place(u), Parked, NEW t, NEW P,
           P \subseteq Range(recv_waiters) \cup Range(send_waiters), P \subseteq Tasks,
           \A u \in Tasks \ {t} : Same(u) /\ (u \in wakes' <=> u \in wakes \/ u \in P),
           Range(recv_waiters') = Range(recv_waiters) \ P, Once(recv_waiters'),
           Range(send_waiters') = Range(send_waiters) \ P, Once(send_waiters'),
           Range(recv_waiters) \subseteq Tasks, Range(send_waiters) \subseteq Tasks,
           t \in Tasks => ~Asleep(t) /\ Place(t)',
           sender_closed' \/ receiver_closed' => recv_waiters' = <<>> /\ send_waiters' = <<>>
    PROVE  /\ \A u \in Tasks : Place(u)'
           /\ Parked'
           /\ \A u \in Tasks \ {t} : OnItsWay(u)' <=> OnItsWay(u) \/ u \in P
           /\ t \notin P /\ \A u \in P : ~OnItsWay(u)
<1>1. /\ \A u \in P : Asleep(u) /\ u # t
      /\ \A u \in Range(recv_waiters) \cup Range(send_waiters) : Asleep(u) /\ u \in Tasks \ {t}
  BY Zenon DEF Parked
<1>2. ASSUME NEW u \in Tasks PROVE Place(u)'
  <2>1. CASE u = t
    BY <2>1, Zenon
  <2>2. CASE u # t /\ u \in P
    <3>1. Place(u) /\ Same(u) /\ Asleep(u)
      BY <1>1, <2>2, Zenon
    <3> QED
      BY <3>1, Zenon DEF Same, Place, Asleep
  <2>3. CASE u # t /\ u \notin P
    <3>1. Place(u) /\ Same(u) /\ (u \in wakes' => u \in wakes)
      BY <2>3, Zenon
    <3> QED
      BY <3>1, Zenon DEF Same, Place
  <2> QED
    BY <2>1, <2>2, <2>3, Zenon
<1>3. ASSUME NEW u \in Range(recv_waiters') \cup Range(send_waiters') PROVE Asleep(u)'
  <2>1. Asleep(u) /\ u \in Tasks \ {t} /\ u \notin P
    BY <1>1, <1>3, Zenon
  <2> QED
    BY <2>1, Zenon DEF Same, Asleep
<1>4. Parked'
  BY <1>3, Zenon DEF Parked, Once
<1>5. ASSUME NEW u \in Tasks \ {t} PROVE OnItsWay(u)' <=> OnItsWay(u) \/ u \in P
  <2>1. CASE u \in P
    BY <1>1, <1>5, <2>1, Zenon DEF Same, OnItsWay, Asleep
  <2>2. CASE u \notin P
    BY <1>5, <2>2, Zenon DEF Same, OnItsWay
  <2> QED
    BY <2>1, <2>2, Zenon
<1>6. \A u \in P : ~OnItsWay(u)
  BY <1>1, Zenon DEF Asleep, OnItsWay
<1> QED
  BY <1>1, <1>2, <1>4, <1>5, <1>6, Zenon

\* A step that neither takes nodes nor changes the channel.
LEMMA QuietStep ==
    ASSUME TypeOK, WakeInv, NEW t,
           UNCHANGED <<queue, reserved, sender_closed, receiver_closed, send_waiters, recv_waiters>>,
           \A u \in Tasks \ {t} : Same(u) /\ (u \in wakes' <=> u \in wakes),
           t \in Tasks => ~Asleep(t) /\ Place(t)',
           \/ t \in Tasks => (OnItsWay(t) => OnItsWay(t)')
           \/ recv_waiters = <<>> /\ send_waiters = <<>>
    PROVE  WakeInv'
<1>1. Range(recv_waiters) \subseteq Tasks /\ Range(send_waiters) \subseteq Tasks
  BY PartsOfWaiters, Zenon DEF TypeOK
<1>2. /\ \A u \in Tasks : Place(u)'
      /\ Parked'
      /\ \A u \in Tasks \ {t} : OnItsWay(u)' <=> OnItsWay(u)
  <2> DEFINE P == {}
  <2>1. /\ P \subseteq Range(recv_waiters) \cup Range(send_waiters) /\ P \subseteq Tasks
        /\ \A u \in Tasks \ {t} : Same(u) /\ (u \in wakes' <=> u \in wakes \/ u \in P)
        /\ Range(recv_waiters') = Range(recv_waiters) \ P /\ Once(recv_waiters')
        /\ Range(send_waiters') = Range(send_waiters) \ P /\ Once(send_waiters')
        /\ sender_closed' \/ receiver_closed' => recv_waiters' = <<>> /\ send_waiters' = <<>>
    BY Zenon DEF WakeInv, Parked
  <2>2. \A u : u \notin P
    OBVIOUS
  <2> HIDE DEF P
  <2>3. (\A u \in Tasks : Place(u)) /\ Parked
    BY Zenon DEF WakeInv
  <2>4. /\ \A u \in Tasks : Place(u)'
        /\ Parked'
        /\ \A u \in Tasks \ {t} : OnItsWay(u)' <=> OnItsWay(u) \/ u \in P
    BY <1>1, <2>1, <2>3, StepOf, Zenon
  <2> QED
    BY <2>2, <2>4, Zenon
<1>3. EnoughOnTheWay'
  <2>1. CASE recv_waiters = <<>> /\ send_waiters = <<>>
    BY <2>1, Zenon DEF EnoughOnTheWay
  <2>2. CASE t \in Tasks => (OnItsWay(t) => OnItsWay(t)')
    <3>1. OnRecv \subseteq OnRecv' /\ OnSend \subseteq OnSend'
      BY <1>2, <2>2, Zenon DEF OnRecv, OnSend
    <3>2. Cardinality(OnRecv) <= Cardinality(OnRecv') /\ Cardinality(OnSend) <= Cardinality(OnSend')
      BY <3>1, OnFinite, FS_Subset, Zenon
    <3>3. /\ Cardinality(OnRecv) \in Nat /\ Cardinality(OnRecv') \in Nat
          /\ Cardinality(OnSend) \in Nat /\ Cardinality(OnSend') \in Nat
      BY OnFinite, FS_CardinalityType, Zenon
    <3>4. Len(queue) \in Nat /\ Slots \in Int
      BY Names DEF Slots, TypeOK
    <3>5. /\ recv_waiters # <<>> => Len(queue) <= Cardinality(OnRecv)
          /\ send_waiters # <<>> => Slots <= Cardinality(OnSend)
      BY Zenon DEF WakeInv, EnoughOnTheWay, OnRecv, OnSend, Slots
    <3>6. /\ recv_waiters' # <<>> => Len(queue') <= Cardinality(OnRecv')
          /\ send_waiters' # <<>> => Slots' <= Cardinality(OnSend')
      <4>1. Slots' = Slots
        BY Zenon DEF Slots
      <4> QED
        BY <3>2, <3>3, <3>4, <3>5, <4>1
    <3> QED
      BY <3>6, Zenon DEF EnoughOnTheWay, OnRecv, OnSend, Slots
  <2> QED
    BY <2>1, <2>2, Zenon
<1> QED
  BY <1>2, <1>3, Zenon DEF WakeInv

\* Steps of actor t that take the nodes of P: what has to be shown of the counts.
LEMMA LoudStep ==
    ASSUME TypeOK, TypeOK', WakeInv, NEW t, NEW P,
           P \subseteq Range(recv_waiters) \cup Range(send_waiters),
           \A u \in Tasks \ {t} : Same(u) /\ (u \in wakes' <=> u \in wakes \/ u \in P),
           Range(recv_waiters') = Range(recv_waiters) \ P, Once(recv_waiters'),
           Range(send_waiters') = Range(send_waiters) \ P, Once(send_waiters'),
           t \in Tasks => ~Asleep(t) /\ Place(t)',
           sender_closed' \/ receiver_closed' => recv_waiters' = <<>> /\ send_waiters' = <<>>,
           \/ recv_waiters' = <<>>
           \/ /\ recv_waiters # <<>> /\ t \notin OnRecv /\ P \cap Receivers # {}
              /\ Len(queue') <= Len(queue) + 1
           \/ /\ recv_waiters # <<>> /\ t \notin OnRecv /\ Len(queue') <= Len(queue)
           \/ /\ recv_waiters # <<>> /\ Len(queue') <= Len(queue) - 1,
           \/ send_waiters' = <<>>
           \/ /\ send_waiters # <<>> /\ t \notin OnSend /\ P \ Receivers # {}
              /\ Slots' <= Slots + 1
           \/ /\ send_waiters # <<>> /\ t \notin OnSend /\ Slots' <= Slots
           \/ /\ send_waiters # <<>> /\ Slots' <= Slots - 1
    PROVE  WakeInv'
<1>1. Range(recv_waiters) \subseteq Tasks /\ Range(send_waiters) \subseteq Tasks
  BY PartsOfWaiters, Zenon DEF TypeOK
<1>2. P \subseteq Tasks /\ (\A u \in Tasks : Place(u)) /\ Parked
  BY <1>1, Zenon DEF WakeInv
<1>3. /\ \A u \in Tasks : Place(u)'
      /\ Parked'
      /\ \A u \in Tasks \ {t} : OnItsWay(u)' <=> OnItsWay(u) \/ u \in P
      /\ t \notin P /\ \A u \in P : ~OnItsWay(u)
  BY <1>1, <1>2, StepOf, Zenon
<1>4. /\ Len(queue) \in Int /\ Slots \in Int /\ Len(queue') \in Int /\ Slots' \in Int
  BY Names DEF Slots, TypeOK
<1>5. /\ recv_waiters # <<>> => Len(queue) <= Cardinality(OnRecv)
      /\ send_waiters # <<>> => Slots <= Cardinality(OnSend)
  BY Zenon DEF WakeInv, EnoughOnTheWay, OnRecv, OnSend, Slots
<1>6. OnRecv \subseteq OnRecv' \cup {t} /\ OnSend \subseteq OnSend' \cup {t}
  BY <1>3, Zenon DEF OnRecv, OnSend
<1>7. /\ P \cap Receivers \subseteq OnRecv' \ OnRecv
      /\ P \ Receivers \subseteq OnSend' \ OnSend
  BY <1>2, <1>3, Zenon DEF OnRecv, OnSend
<1>8. ASSUME recv_waiters' # <<>> PROVE Len(queue') <= Cardinality(OnRecv')
  <2>1. /\ Len(queue) <= Cardinality(OnRecv)
        /\ \/ OnRecv \subseteq OnRecv' /\ Len(queue') <= Len(queue)
           \/ OnRecv \subseteq OnRecv' /\ OnRecv' \ OnRecv # {} /\ Len(queue') <= Len(queue) + 1
           \/ \E x : OnRecv \subseteq OnRecv' \cup {x} /\ Len(queue') <= Len(queue) - 1
    BY <1>5, <1>6, <1>7, <1>8, Zenon
  <2> QED
    BY <1>4, <2>1, OnFinite, Enough, Zenon
<1>9. ASSUME send_waiters' # <<>> PROVE Slots' <= Cardinality(OnSend')
  <2>1. /\ Slots <= Cardinality(OnSend)
        /\ \/ OnSend \subseteq OnSend' /\ Slots' <= Slots
           \/ OnSend \subseteq OnSend' /\ OnSend' \ OnSend # {} /\ Slots' <= Slots + 1
           \/ \E x : OnSend \subseteq OnSend' \cup {x} /\ Slots' <= Slots - 1
    BY <1>5, <1>6, <1>7, <1>9, Zenon
  <2> QED
    BY <1>4, <2>1, OnFinite, Enough, Zenon
<1>10. EnoughOnTheWay'
  BY <1>8, <1>9, Zenon DEF EnoughOnTheWay, OnRecv, OnSend, Slots
<1> QED
  BY <1>3, <1>10, Zenon DEF WakeInv

\* What the steps below use of the types.
LEMMA TaskFacts ==
    ASSUME TypeOK, NEW t \in Tasks
    PROVE  /\ TaskTypes /\ t \in Actors /\ Tasks \subseteq Actors
           /\ scheduled[t] \in BOOLEAN /\ cancel_requested[t] \in BOOLEAN
           /\ wakes \subseteq Tasks
BY TypeParts, Names, Zenon DEF TaskTypes, WaitTypes

\* The steps of a task between its polls.
LEMMA TaskWakes ==
    ASSUME TypeOK, WakeInv, NobodyCancelled, NEW t \in Tasks,
           \/ Run(t) \/ PollBegin(t) \/ PollEnd(t) \/ Suspend(t) \/ Snapshot(t)
           \/ FinishBegin(t) \/ FinishEnd(t) \/ Schedule(t) \/ OtherReady(t)
    PROVE  WakeInv'
<1>0. /\ Place(t) /\ TaskTypes /\ t \in Actors /\ Tasks \subseteq Actors
      /\ ~(t \in Cancellable /\ canceller[t] = "finish")
  BY TaskFacts, Zenon DEF WakeInv, NobodyCancelled
<1>1. CASE Run(t)
  <2>1. UNCHANGED <<queue, reserved, sender_closed, receiver_closed, send_waiters, recv_waiters>>
    BY <1>1, Zenon DEF Run, chanVars, waitVars
  <2>2. \A u \in Tasks \ {t} : Same(u) /\ (u \in wakes' <=> u \in wakes)
    BY <1>0, <1>1 DEF Run, TaskTypes, Same, Goto, waitVars, taskVars, futureVars
  <2>3. ~Asleep(t)
    BY <1>0, <1>1, Zenon DEF Run, Place, Asleep
  <2>4. Place(t)'
    BY <1>0, <1>1, SMTT(30) DEF Run, TaskTypes, Place, Goto, waitVars, taskVars, futureVars
  <2>5. OnItsWay(t) => OnItsWay(t)'
    BY <1>0, <1>1 DEF Run, TaskTypes, Place, OnItsWay, Goto, waitVars, taskVars, futureVars
  <2> QED
    BY <2>1, <2>2, <2>3, <2>4, <2>5, QuietStep, Zenon
<1>2. CASE PollBegin(t)
  <2>1. UNCHANGED <<queue, reserved, sender_closed, receiver_closed, send_waiters, recv_waiters>>
    BY <1>2, Zenon DEF PollBegin, chanVars, waitVars
  <2>2. \A u \in Tasks \ {t} : Same(u) /\ (u \in wakes' <=> u \in wakes)
    BY <1>0, <1>2 DEF PollBegin, TaskTypes, Same, Goto, waitVars, taskVars, futureVars
  <2>3. ~Asleep(t)
    BY <1>0, <1>2, Zenon DEF PollBegin, Place, Asleep
  <2>4. Place(t)'
    BY <1>0, <1>2, SMTT(30) DEF PollBegin, TaskTypes, Place, Goto, waitVars, taskVars, futureVars
  <2>5. OnItsWay(t) => OnItsWay(t)'
    BY <1>0, <1>2 DEF PollBegin, TaskTypes, Place, OnItsWay, Goto, waitVars, taskVars, futureVars
  <2> QED
    BY <2>1, <2>2, <2>3, <2>4, <2>5, QuietStep, Zenon
<1>3. CASE PollEnd(t)
  <2>1. UNCHANGED <<queue, reserved, sender_closed, receiver_closed, send_waiters, recv_waiters>>
    BY <1>3, Zenon DEF PollEnd, chanVars, waitVars
  <2>2. \A u \in Tasks \ {t} : Same(u) /\ (u \in wakes' <=> u \in wakes)
    BY <1>0, <1>3 DEF PollEnd, TaskTypes, Same, Goto, waitVars, taskVars, futureVars
  <2>3. ~Asleep(t)
    BY <1>0, <1>3, Zenon DEF PollEnd, Place, Asleep
  <2>4. Place(t)'
    BY <1>0, <1>3, SMTT(30) DEF PollEnd, TaskTypes, Place, Goto, waitVars, taskVars, futureVars
  <2>5. OnItsWay(t) => OnItsWay(t)'
    BY <1>0, <1>3 DEF PollEnd, TaskTypes, Place, OnItsWay, Goto, waitVars, taskVars, futureVars
  <2> QED
    BY <2>1, <2>2, <2>3, <2>4, <2>5, QuietStep, Zenon
<1>4. CASE Suspend(t)
  <2>1. UNCHANGED <<queue, reserved, sender_closed, receiver_closed, send_waiters, recv_waiters>>
    BY <1>4, Zenon DEF Suspend, chanVars, waitVars
  <2>2. \A u \in Tasks \ {t} : Same(u) /\ (u \in wakes' <=> u \in wakes)
    BY <1>0, <1>4 DEF Suspend, TaskTypes, Same, Goto, waitVars, taskVars, futureVars
  <2>3. ~Asleep(t)
    BY <1>0, <1>4, Zenon DEF Suspend, Place, Asleep
  <2>4. Place(t)'
    BY <1>0, <1>4, SMTT(30) DEF Suspend, TaskTypes, Place, Goto, waitVars, taskVars, futureVars
  <2>5. OnItsWay(t) => OnItsWay(t)'
    BY <1>0, <1>4 DEF Suspend, TaskTypes, Place, OnItsWay, Goto, waitVars, taskVars, futureVars
  <2> QED
    BY <2>1, <2>2, <2>3, <2>4, <2>5, QuietStep, Zenon
<1>5. CASE Snapshot(t)
  <2>1. UNCHANGED <<queue, reserved, sender_closed, receiver_closed, send_waiters, recv_waiters>>
    BY <1>5, Zenon DEF Snapshot, chanVars, waitVars
  <2>2. \A u \in Tasks \ {t} : Same(u) /\ (u \in wakes' <=> u \in wakes)
    BY <1>0, <1>5 DEF Snapshot, TaskTypes, Same, Goto, waitVars, taskVars, futureVars
  <2>3. ~Asleep(t)
    BY <1>0, <1>5, Zenon DEF Snapshot, Place, Asleep
  <2>4. Place(t)'
    BY <1>0, <1>5, SMTT(30) DEF Snapshot, TaskTypes, Place, Goto, waitVars, taskVars, futureVars
  <2>5. OnItsWay(t) => OnItsWay(t)'
    BY <1>0, <1>5 DEF Snapshot, TaskTypes, Place, OnItsWay, Goto, waitVars, taskVars, futureVars
  <2> QED
    BY <2>1, <2>2, <2>3, <2>4, <2>5, QuietStep, Zenon
<1>6. CASE FinishBegin(t)
  <2>1. UNCHANGED <<queue, reserved, sender_closed, receiver_closed, send_waiters, recv_waiters>>
    BY <1>6, Zenon DEF FinishBegin, chanVars, waitVars
  <2>2. \A u \in Tasks \ {t} : Same(u) /\ (u \in wakes' <=> u \in wakes)
    BY <1>0, <1>6 DEF FinishBegin, TaskTypes, Same, Goto, waitVars, taskVars, futureVars
  <2>3. ~Asleep(t)
    BY <1>0, <1>6, Zenon DEF FinishBegin, Place, Asleep
  <2>4. Place(t)'
    BY <1>0, <1>6, SMTT(30) DEF FinishBegin, TaskTypes, Place, Goto, waitVars, taskVars, futureVars
  <2>5. OnItsWay(t) => OnItsWay(t)'
    BY <1>0, <1>6 DEF FinishBegin, TaskTypes, Place, OnItsWay, Goto, waitVars, taskVars, futureVars
  <2> QED
    BY <2>1, <2>2, <2>3, <2>4, <2>5, QuietStep, Zenon
<1>7. CASE FinishEnd(t)
  <2>1. UNCHANGED <<queue, reserved, sender_closed, receiver_closed, send_waiters, recv_waiters>>
    BY <1>7, Zenon DEF FinishEnd, chanVars, waitVars
  <2>2. \A u \in Tasks \ {t} : Same(u) /\ (u \in wakes' <=> u \in wakes)
    BY <1>0, <1>7 DEF FinishEnd, TaskTypes, Same, Goto, waitVars, taskVars, futureVars
  <2>3. ~Asleep(t)
    BY <1>0, <1>7, Zenon DEF FinishEnd, Place, Asleep
  <2>4. Place(t)'
    BY <1>0, <1>7, SMTT(30) DEF FinishEnd, TaskTypes, Place, Goto, waitVars, taskVars, futureVars
  <2>5. OnItsWay(t) => OnItsWay(t)'
    BY <1>0, <1>7 DEF FinishEnd, TaskTypes, Place, OnItsWay, Goto, waitVars, taskVars, futureVars
  <2> QED
    BY <2>1, <2>2, <2>3, <2>4, <2>5, QuietStep, Zenon
<1>8. CASE Schedule(t)
  <2>1. UNCHANGED <<queue, reserved, sender_closed, receiver_closed, send_waiters, recv_waiters>>
    BY <1>8, Zenon DEF Schedule, chanVars, waitVars
  <2>2. \A u \in Tasks \ {t} : Same(u) /\ (u \in wakes' <=> u \in wakes)
    BY <1>0, <1>8 DEF Schedule, TaskTypes, Same, Goto, waitVars, taskVars, futureVars
  <2>3. ~Asleep(t)
    BY <1>0, <1>8, Zenon DEF Schedule, Place, Asleep
  <2>4. Place(t)'
    BY <1>0, <1>8, SMTT(30) DEF Schedule, TaskTypes, Place, Goto, waitVars, taskVars, futureVars
  <2>5. OnItsWay(t) => OnItsWay(t)'
    BY <1>0, <1>8, Zenon DEF Schedule, TaskTypes, Place, OnItsWay, Goto, waitVars, taskVars, futureVars
  <2> QED
    BY <2>1, <2>2, <2>3, <2>4, <2>5, QuietStep, Zenon
<1>9. CASE OtherReady(t)
  <2>1. UNCHANGED <<queue, reserved, sender_closed, receiver_closed, send_waiters, recv_waiters>>
    BY <1>9, Zenon DEF OtherReady, chanVars, waitVars
  <2>2. \A u \in Tasks \ {t} : Same(u) /\ (u \in wakes' <=> u \in wakes)
    BY <1>0, <1>9 DEF OtherReady, TaskTypes, Same, Goto, waitVars, taskVars, futureVars
  <2>3. ~Asleep(t)
    BY <1>0, <1>9, Zenon DEF OtherReady, Place, Asleep
  <2>4. Place(t)'
    BY <1>0, <1>9, SMTT(30) DEF OtherReady, TaskTypes, Place, Goto, waitVars, taskVars, futureVars
  <2>5. OnItsWay(t) => OnItsWay(t)'
    BY <1>0, <1>9 DEF OtherReady, TaskTypes, Place, OnItsWay, Goto, waitVars, taskVars, futureVars
  <2> QED
    BY <2>1, <2>2, <2>3, <2>4, <2>5, QuietStep, Zenon
<1> QED
  BY <1>1, <1>2, <1>3, <1>4, <1>5, <1>6, <1>7, <1>8, <1>9, Zenon

\* The polls that leave the channel alone.
LEMMA PollWakes ==
    ASSUME TypeOK, WakeInv, NEW a \in Actors, PollClosed(a) \/ PollAgain(a) \/ BodyAwait(a)
    PROVE  WakeInv'
<1>0. (a \in Tasks => Place(a)) /\ TaskTypes /\ Tasks \subseteq Actors
  BY TypeParts, Names, Zenon DEF WakeInv
<1>1. CASE PollClosed(a)
  <2>1. UNCHANGED <<queue, reserved, sender_closed, receiver_closed, send_waiters, recv_waiters>>
    BY <1>1, Zenon DEF PollClosed, chanVars, waitVars
  <2>2. \A u \in Tasks \ {a} : Same(u) /\ (u \in wakes' <=> u \in wakes)
    BY <1>0, <1>1 DEF PollClosed, TaskTypes, Same, Return, Goto, waitVars, taskVars, futureVars
  <2>3. ASSUME a \in Tasks PROVE ~Asleep(a) /\ Place(a)'
    <3>1. ~Asleep(a)
      BY <1>1, Zenon DEF PollClosed, Asleep
    <3>2. Place(a)'
      BY <1>0, <1>1, <2>3 DEF PollClosed, TaskTypes, Place, Return, Goto, waitVars, taskVars, futureVars
    <3> QED
      BY <3>1, <3>2
  <2>4. recv_waiters = <<>> /\ send_waiters = <<>>
    BY <1>1, Zenon DEF PollClosed, WakeInv, Parked
  <2> QED
    BY <2>1, <2>2, <2>3, <2>4, QuietStep, Zenon
<1>2. CASE PollAgain(a)
  <2>1. UNCHANGED <<queue, reserved, sender_closed, receiver_closed, send_waiters, recv_waiters>>
    BY <1>2, Zenon DEF PollAgain, chanVars, waitVars
  <2>2. \A u \in Tasks \ {a} : Same(u) /\ (u \in wakes' <=> u \in wakes)
    BY <1>0, <1>2 DEF PollAgain, TaskTypes, Same, Return, Goto, waitVars, taskVars, futureVars
  <2>3. ASSUME a \in Tasks PROVE ~Asleep(a) /\ Place(a)'
    <3>1. ~Asleep(a)
      BY <1>2, Zenon DEF PollAgain, Asleep
    <3>2. Place(a)'
      BY <1>0, <1>2, <2>3, SMTT(30) DEF PollAgain, TaskTypes, Place, Return, Goto, waitVars, taskVars, futureVars
    <3> QED
      BY <3>1, <3>2
  <2>4. a \in Tasks => (OnItsWay(a) => OnItsWay(a)')
    BY <1>0, <1>2 DEF PollAgain, TaskTypes, OnItsWay, Goto, waitVars, taskVars
  <2> QED
    BY <2>1, <2>2, <2>3, <2>4, QuietStep, Zenon
<1>3. CASE BodyAwait(a)
  <2>1. UNCHANGED <<queue, reserved, sender_closed, receiver_closed, send_waiters, recv_waiters>>
    BY <1>3, Zenon DEF BodyAwait, chanVars, waitVars
  <2>2. \A u \in Tasks \ {a} : Same(u) /\ (u \in wakes' <=> u \in wakes)
    BY <1>0, <1>3 DEF BodyAwait, TaskTypes, Same, Return, Goto, waitVars, taskVars, futureVars
  <2>3. ASSUME a \in Tasks PROVE ~Asleep(a) /\ Place(a)'
    <3>1. ~Asleep(a)
      BY <1>3, Zenon DEF BodyAwait, Asleep
    <3>2. Place(a)'
      BY <1>0, <1>3, <2>3 DEF BodyAwait, TaskTypes, Place, Return, Goto, waitVars, taskVars, futureVars
    <3> QED
      BY <3>1, <3>2
  <2>4. a \in Tasks => (OnItsWay(a) => OnItsWay(a)')
    BY <1>3, Zenon DEF BodyAwait, OnItsWay
  <2> QED
    BY <2>1, <2>2, <2>3, <2>4, QuietStep, Zenon
<1> QED
  BY <1>1, <1>2, <1>3, Zenon

LEMMA ThreadWakes ==
    ASSUME TypeOK, WakeInv, NEW b \in Threads, ThreadWait(b) \/ SpuriousWakeup(b)
    PROVE  WakeInv'
<1>1. b \notin Tasks /\ b \in Actors /\ Tasks \subseteq Actors /\ TaskTypes
  BY Names, TypeParts
<1>2. UNCHANGED <<queue, reserved, sender_closed, receiver_closed, send_waiters, recv_waiters>>
  BY Zenon DEF ThreadWait, SpuriousWakeup, chanVars
<1>3. \A u \in Tasks \ {b} : Same(u) /\ (u \in wakes' <=> u \in wakes)
  BY <1>1 DEF ThreadWait, SpuriousWakeup, TaskTypes, Same, Goto, taskVars, futureVars
<1> QED
  BY <1>1, <1>2, <1>3, QuietStep, Zenon

\* Nodes are taken: one receiver's, one sender's, or all of them.
LEMMA TakeRecv ==
    ASSUME TypeOK, Parked, TakeRecvWaiter, NEW P, P = Top(recv_waiters)
    PROVE  /\ P \subseteq Range(recv_waiters) \cup Range(send_waiters) /\ wakes' = wakes \cup P
           /\ Range(recv_waiters') = Range(recv_waiters) \ P /\ Once(recv_waiters')
           /\ Range(send_waiters') = Range(send_waiters) \ P /\ Once(send_waiters')
           /\ send_waiters' = send_waiters
           /\ recv_waiters = <<>> => recv_waiters' = <<>>
           /\ recv_waiters # <<>> => P \cap Receivers # {}
<1>1. recv_waiters \in Seq(Tasks) /\ recv_waiters' = Rest(recv_waiters) /\ send_waiters' = send_waiters
      /\ wakes' = wakes \cup P /\ Once(recv_waiters) /\ Once(send_waiters)
  BY Zenon DEF TypeOK, TakeRecvWaiter, Parked
<1>2. /\ Once(recv_waiters') /\ Range(recv_waiters') = Range(recv_waiters) \ P
      /\ P \subseteq Range(recv_waiters) /\ (recv_waiters # <<>> => P = {Head(recv_waiters)})
  BY <1>1, TakeTop, Zenon
<1>a. P \subseteq Receivers /\ \A u \in Range(send_waiters) : u \notin Receivers
  BY <1>2, Zenon DEF Parked
<1>3. Range(send_waiters) = Range(send_waiters) \ P /\ P \subseteq Receivers
  BY <1>a, Zenon
<1>4. recv_waiters # <<>> => P \cap Receivers # {}
  BY <1>2, <1>3, Zenon
<1>5. recv_waiters = <<>> => recv_waiters' = <<>>
  BY <1>1, Zenon DEF Rest
<1>6. Range(send_waiters') = Range(send_waiters) \ P /\ Once(send_waiters')
  BY <1>1, <1>3
<1> QED
  BY <1>1, <1>2, <1>4, <1>5, <1>6, Zenon

LEMMA TakeSend ==
    ASSUME TypeOK, Parked, TakeSendWaiter, NEW P, P = Top(send_waiters)
    PROVE  /\ P \subseteq Range(recv_waiters) \cup Range(send_waiters) /\ wakes' = wakes \cup P
           /\ Range(recv_waiters') = Range(recv_waiters) \ P /\ Once(recv_waiters')
           /\ Range(send_waiters') = Range(send_waiters) \ P /\ Once(send_waiters')
           /\ recv_waiters' = recv_waiters
           /\ send_waiters = <<>> => send_waiters' = <<>>
           /\ send_waiters # <<>> => P \ Receivers # {}
<1>1. send_waiters \in Seq(Tasks) /\ send_waiters' = Rest(send_waiters) /\ recv_waiters' = recv_waiters
      /\ wakes' = wakes \cup P /\ Once(recv_waiters) /\ Once(send_waiters)
  BY Zenon DEF TypeOK, TakeSendWaiter, Parked
<1>2. /\ Once(send_waiters') /\ Range(send_waiters') = Range(send_waiters) \ P
      /\ P \subseteq Range(send_waiters) /\ (send_waiters # <<>> => P = {Head(send_waiters)})
  BY <1>1, TakeTop, Zenon
<1>a. (\A u \in P : u \notin Receivers) /\ Range(recv_waiters) \subseteq Receivers
  BY <1>2, Zenon DEF Parked
<1>3. Range(recv_waiters) = Range(recv_waiters) \ P /\ P \cap Receivers = {}
  BY <1>a, Zenon
<1>4. send_waiters # <<>> => P \ Receivers # {}
  BY <1>2, <1>3, Zenon
<1>5. send_waiters = <<>> => send_waiters' = <<>>
  BY <1>1, Zenon DEF Rest
<1>6. Range(recv_waiters') = Range(recv_waiters) \ P /\ Once(recv_waiters')
  BY <1>1, <1>3
<1> QED
  BY <1>1, <1>2, <1>4, <1>5, <1>6, Zenon

\* Every node is taken: nobody is left who could miss a wake-up.
LEMMA TakeAll ==
    ASSUME TypeOK, WakeInv, TakeAllQueuedWaiters, UNCHANGED <<taskVars, futureVars, frame, pc>>
    PROVE  WakeInv'
<1>1. /\ wakes' = wakes \cup Range(send_waiters) \cup Range(recv_waiters)
      /\ send_waiters' = <<>> /\ recv_waiters' = <<>>
      /\ \A u \in Tasks : Same(u)
  BY Zenon DEF TakeAllQueuedWaiters, taskVars, futureVars, Same
<1>2. ASSUME NEW u \in Tasks PROVE Place(u)'
  <2>1. CASE u \in Range(send_waiters) \cup Range(recv_waiters)
    <3>1. Asleep(u) /\ Place(u)
      BY <2>1, Zenon DEF WakeInv, Parked
    <3> QED
      BY <1>1, <3>1, Zenon DEF Same, Asleep, Place
  <2>2. CASE u \notin Range(send_waiters) \cup Range(recv_waiters)
    <3>1. Place(u) /\ (u \in wakes' <=> u \in wakes)
      BY <1>1, <2>2, Zenon DEF WakeInv
    <3> QED
      BY <1>1, <3>1, Zenon DEF Same, Place
  <2> QED
    BY <2>1, <2>2, Zenon
<1>3. Range(<<>>) = {} /\ Once(<<>>)
  BY DEF Range, Once
<1>4. Parked'
  BY <1>1, <1>3, Zenon DEF Parked, Once
<1>5. EnoughOnTheWay'
  BY <1>1, Zenon DEF EnoughOnTheWay
<1> QED
  BY <1>2, <1>4, <1>5, Zenon DEF WakeInv

\* A value is queued: send, try_send, or a permit that is used.
LEMMA SendWakes ==
    ASSUME TypeOK, TypeOK', WakeInv, NEW a \in Actors, SendPoll(a)
    PROVE  WakeInv'
<1>0. /\ a \in Tasks => Place(a)
      /\ TaskTypes /\ Tasks \subseteq Actors /\ a \notin Receivers /\ Parked
  BY TypeParts, Names, AsyncChannelAssumption, Zenon DEF WakeInv, SendPoll
<1>1. PICK P : P = Top(recv_waiters)
  OBVIOUS
<1>2. /\ P \subseteq Range(recv_waiters) \cup Range(send_waiters) /\ wakes' = wakes \cup P
      /\ Range(recv_waiters') = Range(recv_waiters) \ P /\ Once(recv_waiters')
      /\ Range(send_waiters') = Range(send_waiters) \ P /\ Once(send_waiters')
      /\ send_waiters' = send_waiters
      /\ recv_waiters = <<>> => recv_waiters' = <<>>
      /\ recv_waiters # <<>> => P \cap Receivers # {}
  BY <1>0, <1>1, TakeRecv, Zenon DEF SendPoll, Enqueue
<1>3. \A u \in Tasks \ {a} : Same(u) /\ (u \in wakes' <=> u \in wakes \/ u \in P)
  <2>1. \A u \in Tasks \ {a} : Same(u)
    BY <1>0 DEF SendPoll, TaskTypes, Same, Return, Goto, taskVars, futureVars
  <2> QED
    BY <1>2, <2>1, Zenon
<1>4. ASSUME a \in Tasks PROVE ~Asleep(a) /\ Place(a)'
  <2>1. ~Asleep(a)
    BY Zenon DEF SendPoll, Asleep
  <2>2. a \notin wakes'
    <3>1. a \notin wakes /\ a \notin Range(recv_waiters) \cup Range(send_waiters)
      BY <1>0, <1>4, <2>1, Zenon DEF Place, SendPoll, Parked
    <3> QED
      BY <1>2, <3>1, Zenon
  <2>3. Place(a)'
    BY <1>0, <1>4, <2>2 DEF SendPoll, TaskTypes, Place, Return, Goto, taskVars, futureVars
  <2> QED
    BY <2>1, <2>3
<1>5. sender_closed' \/ receiver_closed' => recv_waiters' = <<>> /\ send_waiters' = <<>>
  BY Zenon DEF SendPoll, Enqueue
<1>6. Len(queue') = Len(queue) + 1 /\ Slots' = Slots - 1
  BY Names DEF SendPoll, Enqueue, Slots, TypeOK
<1>7. a \notin OnRecv /\ Len(queue') <= Len(queue) + 1 /\ Slots' <= Slots - 1
  <2>1. a \notin OnRecv
    BY <1>0, Zenon DEF OnRecv
  <2>2. Len(queue) \in Nat /\ Slots \in Int
    BY Names DEF TypeOK, Slots
  <2> QED
    BY <1>6, <2>1, <2>2
<1>8. \/ recv_waiters' = <<>>
      \/ recv_waiters # <<>> /\ a \notin OnRecv /\ P \cap Receivers # {} /\ Len(queue') <= Len(queue) + 1
  BY <1>2, <1>7, Zenon
<1>9. send_waiters' = <<>> \/ (send_waiters # <<>> /\ Slots' <= Slots - 1)
  BY <1>2, <1>7, Zenon
<1> QED
  BY <1>2, <1>3, <1>4, <1>5, <1>8, <1>9, LoudStep, Zenon

LEMMA PermitWakes ==
    ASSUME TypeOK, TypeOK', WakeInv, NEW a \in Actors, PermitSend(a)
    PROVE  WakeInv'
<1>0. /\ a \in Tasks => Place(a) /\ ~OnItsWay(a) /\ ~Asleep(a)
      /\ TaskTypes /\ Tasks \subseteq Actors /\ Parked
  BY TypeParts, Names, Zenon DEF WakeInv, PermitSend, OnItsWay, Asleep
<1>1. \A u \in Tasks \ {a} : Same(u)
  BY <1>0 DEF PermitSend, TaskTypes, Same, Return, Goto, taskVars, futureVars
<1>2. ASSUME a \in Tasks PROVE a \notin Range(recv_waiters) \cup Range(send_waiters) /\ a \notin wakes
  BY <1>0, <1>2, Zenon DEF Place, PermitSend, Parked
<1>3. ASSUME a \in Tasks, a \notin wakes' PROVE Place(a)'
  BY <1>0, <1>3 DEF PermitSend, TaskTypes, Place, Return, Goto, taskVars, futureVars
<1>4. CASE receiver_closed
  <2>1. /\ recv_waiters = <<>> /\ send_waiters = <<>> /\ recv_waiters' = <<>> /\ send_waiters' = <<>>
        /\ wakes' = wakes \cup Range(<<>>)
    BY <1>0, <1>4, Zenon DEF Parked, PermitSend, TakeAllSendWaiters
  <2>2. Range(<<>>) = {}
    BY DEF Range
  <2>3. wakes' = wakes
    BY <2>1, <2>2, Zenon
  <2>a. PICK P : P = {}
    BY Zenon
  <2>4. /\ P \subseteq Range(recv_waiters) \cup Range(send_waiters)
        /\ \A u \in Tasks \ {a} : Same(u) /\ (u \in wakes' <=> u \in wakes \/ u \in P)
        /\ Range(recv_waiters') = Range(recv_waiters) \ P /\ Range(send_waiters') = Range(send_waiters) \ P
    BY <1>1, <2>a, <2>1, <2>3, Zenon
  <2>5. Once(recv_waiters') /\ Once(send_waiters')
    BY <2>1 DEF Once
  <2>6. a \in Tasks => ~Asleep(a) /\ Place(a)'
    BY <1>0, <1>2, <1>3, <2>3, Zenon
  <2> QED
    BY <2>1, <2>4, <2>5, <2>6, LoudStep, Zenon
<1>5. CASE ~receiver_closed
  <2>1. PICK P : P = Top(recv_waiters)
    OBVIOUS
  <2>2. /\ P \subseteq Range(recv_waiters) \cup Range(send_waiters) /\ wakes' = wakes \cup P
        /\ Range(recv_waiters') = Range(recv_waiters) \ P /\ Once(recv_waiters')
        /\ Range(send_waiters') = Range(send_waiters) \ P /\ Once(send_waiters')
        /\ send_waiters' = send_waiters
        /\ recv_waiters = <<>> => recv_waiters' = <<>>
        /\ recv_waiters # <<>> => P \cap Receivers # {}
    BY <1>0, <1>5, <2>1, TakeRecv, Zenon DEF PermitSend, Enqueue
  <2>3. \A u \in Tasks \ {a} : Same(u) /\ (u \in wakes' <=> u \in wakes \/ u \in P)
    BY <1>1, <2>2, Zenon
  <2>4. a \in Tasks => ~Asleep(a) /\ Place(a)'
    BY <1>0, <1>2, <1>3, <2>2, Zenon
  <2>5. sender_closed' \/ receiver_closed' => recv_waiters' = <<>> /\ send_waiters' = <<>>
    BY <1>0, <1>5, <2>2, Zenon DEF PermitSend, Enqueue, Parked
  <2>6. Len(queue') <= Len(queue) + 1 /\ Slots' <= Slots
    <3>1. /\ queue \in Seq(Actors) /\ reserved \in Nat /\ queue' = Append(queue, a)
          /\ reserved' = Unreserve
      BY <1>5, Zenon DEF PermitSend, Enqueue, TypeOK
    <3>2. Len(queue') = Len(queue) + 1 /\ Len(queue) \in Nat
      BY <3>1
    <3>3. reserved' \in Nat /\ reserved <= reserved' + 1
      BY <3>1 DEF Unreserve
    <3> QED
      BY <3>1, <3>2, <3>3, Names DEF Slots
  <2>7. a \notin OnRecv /\ a \notin OnSend
    BY <1>0, Zenon DEF OnRecv, OnSend
  <2>8. \/ recv_waiters' = <<>>
        \/ recv_waiters # <<>> /\ a \notin OnRecv /\ P \cap Receivers # {} /\ Len(queue') <= Len(queue) + 1
    BY <2>2, <2>6, <2>7, Zenon
  <2>9. send_waiters' = <<>> \/ (send_waiters # <<>> /\ a \notin OnSend /\ Slots' <= Slots)
    BY <2>2, <2>6, <2>7, Zenon
  <2> QED
    BY <2>2, <2>3, <2>4, <2>5, <2>8, <2>9, LoudStep, Zenon
<1> QED
  BY <1>4, <1>5

\* A slot becomes free: recv, a permit that is dropped, or the owner of a cancelled body.
LEMMA ReleaseWakes ==
    ASSUME TypeOK, TypeOK', WakeInv, NEW a \in Actors,
           PermitDrop(a) \/ (a \in Tasks /\ OwnerClose(a))
    PROVE  WakeInv'
<1>0. /\ a \in Tasks => Place(a) /\ ~OnItsWay(a) /\ ~Asleep(a)
      /\ TaskTypes /\ Tasks \subseteq Actors /\ Parked
  BY TypeParts, Names, Zenon DEF WakeInv, PermitDrop, OwnerClose, OnItsWay, Asleep
<1>1. \A u \in Tasks \ {a} : Same(u)
  BY <1>0 DEF PermitDrop, OwnerClose, TaskTypes, Same, Return, Goto, taskVars, futureVars
<1>2. ASSUME a \in Tasks PROVE a \notin Range(recv_waiters) \cup Range(send_waiters)
  BY <1>0, <1>2, Zenon DEF Parked
<1>3. ASSUME a \in Tasks, a \in wakes' <=> a \in wakes PROVE Place(a)'
  <2>1. CASE PermitDrop(a)
    BY <1>0, <1>3, <2>1 DEF PermitDrop, TaskTypes, Place, Return, Goto, taskVars, futureVars
  <2>2. CASE OwnerClose(a)
    BY <1>0, <1>3, <2>2, Zenon DEF OwnerClose, Place, taskVars, futureVars
  <2> QED
    BY <2>1, <2>2, SMTT(30)
<1>4. PICK P : P = Top(send_waiters)
  OBVIOUS
<1>5. Release(a)
  BY Zenon DEF PermitDrop, OwnerClose
<1>6. /\ P \subseteq Range(recv_waiters) \cup Range(send_waiters) /\ wakes' = wakes \cup P
      /\ Range(recv_waiters') = Range(recv_waiters) \ P /\ Once(recv_waiters')
      /\ Range(send_waiters') = Range(send_waiters) \ P /\ Once(send_waiters')
      /\ recv_waiters' = recv_waiters
      /\ send_waiters = <<>> => send_waiters' = <<>>
      /\ send_waiters # <<>> => P \ Receivers # {}
  BY <1>0, <1>4, <1>5, TakeSend, Zenon DEF Release
<1>7. \A u \in Tasks \ {a} : Same(u) /\ (u \in wakes' <=> u \in wakes \/ u \in P)
  BY <1>1, <1>6, Zenon
<1>8. a \in Tasks => ~Asleep(a) /\ Place(a)'
  BY <1>0, <1>2, <1>3, <1>6, Zenon
<1>9. sender_closed' \/ receiver_closed' => recv_waiters' = <<>> /\ send_waiters' = <<>>
  BY <1>0, <1>5, <1>6, Zenon DEF Release, Parked
<1>10. queue' = queue /\ Slots' <= Slots + 1
  BY <1>5, Names DEF Release, Slots, TypeOK, Unreserve
<1>11. a \notin OnRecv /\ a \notin OnSend /\ Len(queue') <= Len(queue)
  <2>1. a \notin OnRecv /\ a \notin OnSend
    BY <1>0, Zenon DEF OnRecv, OnSend
  <2>2. Len(queue) \in Nat
    BY DEF TypeOK
  <2> QED
    BY <1>10, <2>1, <2>2
<1>12. recv_waiters' = <<>> \/ (recv_waiters # <<>> /\ a \notin OnRecv /\ Len(queue') <= Len(queue))
  BY <1>6, <1>11, Zenon
<1>13. \/ send_waiters' = <<>>
       \/ send_waiters # <<>> /\ a \notin OnSend /\ P \ Receivers # {} /\ Slots' <= Slots + 1
  BY <1>6, <1>10, <1>11, Zenon
<1> QED
  BY <1>6, <1>7, <1>8, <1>9, <1>12, <1>13, LoudStep, Zenon

LEMMA RecvWakes ==
    ASSUME TypeOK, TypeOK', WakeInv, NEW a \in Actors, RecvPoll(a)
    PROVE  WakeInv'
<1>0. /\ a \in Tasks => Place(a)
      /\ TaskTypes /\ Tasks \subseteq Actors /\ a \in Receivers /\ Parked
  BY TypeParts, Names, Zenon DEF WakeInv, RecvPoll
<1>1. PICK P : P = Top(send_waiters)
  OBVIOUS
<1>2. /\ P \subseteq Range(recv_waiters) \cup Range(send_waiters) /\ wakes' = wakes \cup P
      /\ Range(recv_waiters') = Range(recv_waiters) \ P /\ Once(recv_waiters')
      /\ Range(send_waiters') = Range(send_waiters) \ P /\ Once(send_waiters')
      /\ recv_waiters' = recv_waiters
      /\ send_waiters = <<>> => send_waiters' = <<>>
      /\ send_waiters # <<>> => P \ Receivers # {}
  BY <1>0, <1>1, TakeSend, Zenon DEF RecvPoll
<1>3. \A u \in Tasks \ {a} : Same(u) /\ (u \in wakes' <=> u \in wakes \/ u \in P)
  <2>1. \A u \in Tasks \ {a} : Same(u)
    BY <1>0 DEF RecvPoll, TaskTypes, Same, Return, Goto, taskVars, futureVars
  <2> QED
    BY <1>2, <2>1, Zenon
<1>4. ASSUME a \in Tasks PROVE ~Asleep(a) /\ Place(a)'
  <2>1. ~Asleep(a)
    BY Zenon DEF RecvPoll, Asleep
  <2>2. a \notin wakes'
    <3>1. a \notin wakes /\ a \notin Range(recv_waiters) \cup Range(send_waiters)
      BY <1>0, <1>4, <2>1, Zenon DEF Place, RecvPoll, Parked
    <3> QED
      BY <1>2, <3>1, Zenon
  <2>3. Place(a)'
    BY <1>0, <1>4, <2>2 DEF RecvPoll, TaskTypes, Place, Return, Goto, taskVars, futureVars
  <2> QED
    BY <2>1, <2>3
<1>5. sender_closed' \/ receiver_closed' => recv_waiters' = <<>> /\ send_waiters' = <<>>
  BY <1>0, <1>2, Zenon DEF RecvPoll, Parked
<1>6. Len(queue') <= Len(queue) - 1 /\ Slots' <= Slots + 1
  <2>1. /\ queue \in Seq(Actors) /\ queue # <<>> /\ queue' = Tail(queue) /\ reserved' = reserved
        /\ reserved \in Nat
    BY Zenon DEF RecvPoll, TypeOK
  <2>2. Len(queue') = Len(queue) - 1 /\ Len(queue) \in Nat
    BY <2>1
  <2> QED
    BY <2>1, <2>2, Names DEF Slots
<1>7. a \notin OnSend
  BY <1>0, Zenon DEF OnSend
<1>8. recv_waiters' = <<>> \/ (recv_waiters # <<>> /\ Len(queue') <= Len(queue) - 1)
  BY <1>2, <1>6, Zenon
<1>9. \/ send_waiters' = <<>>
      \/ send_waiters # <<>> /\ a \notin OnSend /\ P \ Receivers # {} /\ Slots' <= Slots + 1
  BY <1>2, <1>6, <1>7, Zenon
<1> QED
  BY <1>2, <1>3, <1>4, <1>5, <1>8, <1>9, LoudStep, Zenon

\* A permit is granted: a free slot and a task that was on its way go together.
LEMMA ReserveWakes ==
    ASSUME TypeOK, TypeOK', WakeInv, NEW a \in Actors, ReservePoll(a)
    PROVE  WakeInv'
<1>0. /\ a \in Tasks => Place(a)
      /\ TaskTypes /\ Tasks \subseteq Actors /\ a \notin Receivers /\ Parked
  BY TypeParts, Names, AsyncChannelAssumption, Zenon DEF WakeInv, ReservePoll
<1>1. /\ UNCHANGED <<queue, sender_closed, receiver_closed, send_waiters, recv_waiters, wakes>>
      /\ reserved' = reserved + 1 /\ ~sender_closed /\ ~receiver_closed
  BY Zenon DEF ReservePoll, waitVars
<1>a. PICK P : P = {}
  BY Zenon
<1>2. /\ P \subseteq Range(recv_waiters) \cup Range(send_waiters)
      /\ Range(recv_waiters') = Range(recv_waiters) \ P /\ Once(recv_waiters')
      /\ Range(send_waiters') = Range(send_waiters) \ P /\ Once(send_waiters')
      /\ \A u : u \in wakes' <=> u \in wakes \/ u \in P
  BY <1>0, <1>a, <1>1, Zenon DEF Parked
<1>3. \A u \in Tasks \ {a} : Same(u) /\ (u \in wakes' <=> u \in wakes \/ u \in P)
  <2>1. \A u \in Tasks \ {a} : Same(u)
    BY <1>0 DEF ReservePoll, TaskTypes, Same, Goto, taskVars, futureVars
  <2> QED
    BY <1>2, <2>1, Zenon
<1>4. ASSUME a \in Tasks PROVE ~Asleep(a) /\ Place(a)'
  <2>1. ~Asleep(a)
    BY Zenon DEF ReservePoll, Asleep
  <2>2. Place(a)'
    BY <1>0, <1>1, <1>4 DEF ReservePoll, TaskTypes, Place, Goto, taskVars, futureVars
  <2> QED
    BY <2>1, <2>2
<1>5. sender_closed' \/ receiver_closed' => recv_waiters' = <<>> /\ send_waiters' = <<>>
  BY <1>1, Zenon
<1>6. Len(queue') <= Len(queue) /\ Slots' <= Slots - 1
  BY <1>1, Names DEF Slots, TypeOK
<1>7. a \notin OnRecv
  BY <1>0, Zenon DEF OnRecv
<1>8. recv_waiters' = <<>> \/ (recv_waiters # <<>> /\ a \notin OnRecv /\ Len(queue') <= Len(queue))
  BY <1>1, <1>6, <1>7, Zenon
<1>9. send_waiters' = <<>> \/ (send_waiters # <<>> /\ Slots' <= Slots - 1)
  BY <1>1, <1>6, Zenon
<1> QED
  BY <1>2, <1>3, <1>4, <1>5, <1>8, <1>9, LoudStep, Zenon

\* A task registers: under channel->mutex its source was found not ready.
LEMMA RegisterWakes ==
    ASSUME TypeOK, WakeInv, NEW t \in Tasks, Register(t)
    PROVE  WakeInv'
<1>0. /\ Place(t) /\ Parked /\ EnoughOnTheWay /\ TaskTypes /\ t \in Actors /\ Tasks \subseteq Actors
      /\ ~Asleep(t) /\ OnItsWay(t) /\ pc[t] = "register"
  BY TaskFacts, Zenon DEF WakeInv, Register, Asleep, OnItsWay, Place
<1>1. /\ \A u \in Tasks \ {t} : Same(u)
      /\ UNCHANGED <<queue, reserved, sender_closed, receiver_closed>>
  BY <1>0, SMTT(30) DEF Register, TaskTypes, Same, Goto, chanVars, taskVars, futureVars
<1>2. /\ tstate'[t] = "active" /\ pc'[t] = "idle" /\ ~scheduled'[t] /\ frame'[t] = "poll"
      /\ fstate'[t] = "pending" /\ ~cancel_requested'[t] /\ pending'[t] # "other" /\ t \notin wakes
  BY <1>0 DEF Register, TaskTypes, Place, Goto, taskVars, futureVars
<1>3. Place(t)'
  BY <1>2, Zenon DEF Place
<1>4. CASE Ready(t)
  <2>1. wakes' = wakes \cup {t} /\ UNCHANGED <<send_waiters, recv_waiters>>
    BY <1>4, Zenon DEF Register
  <2>2. OnItsWay(t)'
    BY <1>2, <2>1, Zenon DEF OnItsWay
  <2>3. \A u \in Tasks \ {t} : Same(u) /\ (u \in wakes' <=> u \in wakes)
    BY <1>1, <2>1, Zenon
  <2> QED
    BY <1>0, <1>1, <1>3, <2>1, <2>2, <2>3, QuietStep, Zenon
<1>5. CASE ~Ready(t)
  <2>1. /\ wakes' = wakes
        /\ \/ /\ t \in Receivers
              /\ recv_waiters' = <<t>> \o recv_waiters /\ send_waiters' = send_waiters
           \/ /\ t \notin Receivers
              /\ send_waiters' = <<t>> \o send_waiters /\ recv_waiters' = recv_waiters
    BY <1>5, Zenon DEF Register
  <2>2. /\ ~sender_closed /\ ~receiver_closed
        /\ t \in Receivers => queue = <<>>
        /\ t \notin Receivers => Full
    BY <1>5, Zenon DEF Ready, SendReady, RecvReady
  <2>3. Asleep(t)'
    BY <1>2, <2>1 DEF Asleep
  <2>4. t \notin Range(recv_waiters) /\ t \notin Range(send_waiters)
    BY <1>0, Zenon DEF Parked
  <2>5. /\ recv_waiters \in Seq(Tasks) /\ send_waiters \in Seq(Tasks)
        /\ Range(recv_waiters) \subseteq Tasks \ {t} /\ Range(send_waiters) \subseteq Tasks \ {t}
        /\ Once(recv_waiters) /\ Once(send_waiters)
    BY <1>0, <2>4, PartsOfWaiters, Zenon DEF TypeOK, Parked
  <2>6. /\ Once(<<t>> \o recv_waiters) /\ Range(<<t>> \o recv_waiters) = Range(recv_waiters) \cup {t}
        /\ Once(<<t>> \o send_waiters) /\ Range(<<t>> \o send_waiters) = Range(send_waiters) \cup {t}
    BY <2>4, <2>5, PushTop, Zenon
  <2>7. \A u \in Range(recv_waiters) \cup Range(send_waiters) : Asleep(u)'
    BY <1>0, <1>1, <2>1, <2>5, Zenon DEF Parked, Same, Asleep
  <2>8. /\ \A u \in Range(recv_waiters') : u \in Receivers /\ Asleep(u)'
        /\ \A u \in Range(send_waiters') : u \notin Receivers /\ Asleep(u)'
        /\ Once(recv_waiters') /\ Once(send_waiters')
    BY <1>0, <2>1, <2>3, <2>5, <2>6, <2>7, Zenon DEF Parked
  <2>9. Parked'
    BY <1>1, <2>2, <2>8, Zenon DEF Parked, Once
  <2>10. \A u \in Tasks : Place(u)'
    <3>1. ASSUME NEW u \in Tasks \ {t} PROVE Place(u)'
      <4>1. Place(u) /\ Same(u) /\ wakes' = wakes
        BY <1>1, <2>1, <3>1, Zenon DEF WakeInv
      <4> QED
        BY <4>1, Zenon DEF Place, Same
    <3> QED
      BY <1>3, <3>1, Zenon
  <2>11. \A u \in Tasks \ {t} : OnItsWay(u)' <=> OnItsWay(u)
    BY <1>1, <2>1, Zenon DEF OnItsWay, Same
  <2>12. /\ Cardinality(OnRecv') \in Nat /\ Cardinality(OnSend') \in Nat
    BY OnFinite, FS_CardinalityType, Zenon
  <2>13. Len(queue') = Len(queue) /\ Slots' = Slots
    BY <1>1, Zenon DEF Slots
  <2>14. CASE t \in Receivers
    <3>1. OnSend' = OnSend
      BY <2>11, <2>14, Zenon DEF OnSend
    <3>2. Len(queue') <= Cardinality(OnRecv')
      <4>1. Len(queue') = 0
        BY <2>2, <2>13, <2>14
      <4> QED
        BY <2>12, <4>1
    <3>3. send_waiters' # <<>> => Slots' <= Cardinality(OnSend')
      BY <1>0, <2>1, <2>13, <2>14, <3>1, Zenon DEF EnoughOnTheWay, OnSend, Slots
    <3> QED
      BY <2>9, <2>10, <3>2, <3>3, Zenon DEF WakeInv, EnoughOnTheWay, OnRecv, OnSend, Slots
  <2>15. CASE t \notin Receivers
    <3>1. OnRecv' = OnRecv
      BY <2>11, <2>15, Zenon DEF OnRecv
    <3>2. Slots' <= Cardinality(OnSend')
      <4>1. Slots <= 0 /\ Slots \in Int
        BY <2>2, <2>15, Names DEF Full, Slots, TypeOK
      <4> QED
        BY <2>12, <2>13, <4>1, SMTT(30)
    <3>3. recv_waiters' # <<>> => Len(queue') <= Cardinality(OnRecv')
      BY <1>0, <2>1, <2>13, <2>15, <3>1, Zenon DEF EnoughOnTheWay, OnRecv
    <3> QED
      BY <2>9, <2>10, <3>2, <3>3, Zenon DEF WakeInv, EnoughOnTheWay, OnRecv, OnSend, Slots
  <2> QED
    BY <2>14, <2>15
<1> QED
  BY <1>4, <1>5

LEMMA WakeInit == Init => WakeInv
<1> SUFFICES ASSUME Init PROVE WakeInv
  OBVIOUS
<1>1. ASSUME NEW t \in Tasks PROVE Place(t)
  BY Names DEF Init, InitWith, Place
<1>2. Range(<<>>) = {} /\ Once(<<>>)
  BY DEF Range, Once
<1>3. Parked
  BY <1>2, Zenon DEF Init, InitWith, Parked
<1>4. EnoughOnTheWay
  BY Zenon DEF Init, InitWith, EnoughOnTheWay
<1> QED
  BY <1>1, <1>3, <1>4, Zenon DEF WakeInv

\* A cancel is never taken back: if nobody is cancelled after a step, nobody was before it.
LEMMA NobodyYet ==
    ASSUME TypeOK, [Next]_vars, NobodyCancelled'
    PROVE  NobodyCancelled /\ \A t \in Tasks : ~CancelStep(t)
<1>1. ASSUME NEW t \in Cancellable, NEW v \in {"broadcast", "cleanup", "inspect", "finish", "done"},
             canceller' = [canceller EXCEPT ![t] = v]
      PROVE  FALSE
  <2>1. canceller'[t] = v /\ v # "none"
    BY <1>1 DEF TypeOK
  <2> QED
    BY <2>1, Zenon DEF NobodyCancelled
<1>2. ASSUME NEW t \in Tasks, CancelStep(t) PROVE FALSE
  <2>1. /\ t \in Cancellable
        /\ \E v \in {"broadcast", "cleanup", "inspect", "finish", "done"} :
               canceller' = [canceller EXCEPT ![t] = v]
    BY <1>2 DEF CancelStep, CancelFuture, CancelBroadcast, CancelInspect
  <2> QED
    BY <1>1, <2>1, Zenon
<1>3. ASSUME NEW t \in Tasks, FinishBegin(t) PROVE canceller' = canceller
  <2>1. CASE UNCHANGED canceller
    BY <2>1, Zenon
  <2>2. CASE t \in Cancellable /\ canceller' = [canceller EXCEPT ![t] = "done"]
    BY <1>1, <2>2
  <2> QED
    BY <1>3, <2>1, <2>2, Zenon DEF FinishBegin
<1>4. canceller' = canceller
  <2>1. ASSUME NEW a \in Actors, Poll(a) \/ UsePermit(a) \/ BodyAwait(a) PROVE canceller' = canceller
    BY <2>1, Zenon DEF Poll, PollClosed, PollAgain, SendPoll, ReservePoll, RecvPoll, UsePermit, PermitSend,
                       PermitDrop, BodyAwait
  <2>2. ASSUME NEW b \in Threads, ThreadWait(b) \/ SpuriousWakeup(b) PROVE canceller' = canceller
    BY <2>2, Zenon DEF ThreadWait, SpuriousWakeup
  <2>3. ASSUME NEW t \in Tasks, TaskStep(t) \/ Schedule(t) \/ OtherReady(t) PROVE canceller' = canceller
    BY <1>3, <2>3, Zenon DEF TaskStep, Run, PollBegin, PollEnd, Cleanup, Suspend, Snapshot, Register,
                             OwnerClose, FinishEnd, Schedule, OtherReady
  <2>4. CASE CloseSender \/ CloseReceiver
    BY <2>4, Zenon DEF CloseSender, CloseReceiver
  <2>5. CASE UNCHANGED vars
    BY <2>5, Zenon DEF vars
  <2> QED
    BY <1>2, <2>1, <2>2, <2>3, <2>4, <2>5, Zenon DEF Next
<1>5. NobodyCancelled
  BY <1>4, Zenon DEF NobodyCancelled
<1> QED
  BY <1>2, <1>5, Zenon

LEMMA WakeStep ==
    ASSUME NobodyCancelled, NobodyCancelled', TypeOK, TypeOK', WakeInv, [Next]_vars
    PROVE  WakeInv'
<1>1. ASSUME NEW a \in Actors, Poll(a) PROVE WakeInv'
  BY <1>1, PollWakes, SendWakes, ReserveWakes, RecvWakes, Zenon DEF Poll
<1>2. ASSUME NEW a \in Actors, UsePermit(a) \/ BodyAwait(a) PROVE WakeInv'
  BY <1>2, PermitWakes, ReleaseWakes, PollWakes, Zenon DEF UsePermit
<1>3. ASSUME NEW b \in Threads, ThreadWait(b) \/ SpuriousWakeup(b) PROVE WakeInv'
  BY <1>3, ThreadWakes, Zenon
<1>4. ASSUME NEW t \in Tasks, TaskStep(t) \/ Schedule(t) \/ OtherReady(t) PROVE WakeInv'
  <2>1. ~Cleanup(t) /\ t \in Actors
    BY Names, Zenon DEF Cleanup, WakeInv, Place
  <2>2. CASE OwnerClose(t)
    BY <2>1, <2>2, ReleaseWakes, Zenon
  <2>3. CASE Register(t)
    BY <2>3, RegisterWakes, Zenon
  <2> QED
    BY <1>4, <2>1, <2>2, <2>3, TaskWakes, Zenon DEF TaskStep
<1>5. ASSUME NEW t \in Tasks PROVE ~CancelStep(t)
  BY NobodyYet, Zenon
<1>6. CASE CloseSender \/ CloseReceiver
  <2>1. TakeAllQueuedWaiters /\ UNCHANGED <<taskVars, futureVars, frame, pc>>
    BY <1>6, Zenon DEF CloseSender, CloseReceiver
  <2> QED
    BY <2>1, TakeAll, Zenon
<1>7. CASE UNCHANGED vars
  BY <1>7, Zenon DEF vars, chanVars, waitVars, taskVars, futureVars, WakeInv, Place, Parked, Once,
                     Asleep, EnoughOnTheWay, OnItsWay
<1> QED
  BY <1>1, <1>2, <1>3, <1>4, <1>5, <1>6, <1>7, Zenon DEF Next

\* For any capacity, tasks and threads, any number of them parked: a send, a receive
\* or a released permit that wakes one waiter wakes enough of them (the
\* take_*_waiter_locked functions), so that no task sleeps beside a value or a free
\* slot that nobody else is on the way to, for as long as no task is cancelled.
THEOREM WakeTheorem == Spec => []NoLostWake
<1> DEFINE Inv == NobodyCancelled => WakeInv
<1>1. Init => Inv
  BY WakeInit
<1>2. Inv /\ TypeOK /\ TypeOK' /\ [Next]_vars => Inv'
  <2> SUFFICES ASSUME Inv, TypeOK, TypeOK', [Next]_vars, NobodyCancelled' PROVE WakeInv'
    OBVIOUS
  <2>1. NobodyCancelled
    BY NobodyYet
  <2> QED
    BY <2>1, WakeStep
<1>3. Inv => NoLostWake
  BY DEF WakeInv, NoLostWake
<1> HIDE DEF Inv
<1> QED
  BY <1>1, <1>2, <1>3, TypeCorrect, PTL DEF Spec
=============================================================================
