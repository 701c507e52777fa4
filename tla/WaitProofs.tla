----------------------------- MODULE WaitProofs -----------------------------
(***************************************************************************)
(* Proofs about two places where the runtime waits: SyncChannel, for any   *)
(* finite set of receivers, any payloads and any number of sends, and      *)
(* Select, for any number of arms, sources and dispatch threads, and any   *)
(* events, failed attachments and cancels.                                 *)
(***************************************************************************)
EXTENDS SyncChannel, Select, SequenceTheorems, FiniteSetTheorems, WellFoundedInduction, TLAPS

-----------------------------------------------------------------------------
(* The blocking channel.                                                   *)

\* Appending to the right operand of a concatenation appends to the whole.
LEMMA AppendRight ==
    ASSUME NEW S, NEW s \in Seq(S), NEW t \in Seq(S), NEW e \in S
    PROVE  s \o Append(t, e) = Append(s \o t, e)
<1>1. <<e>> \in Seq(S) /\ s \o t \in Seq(S)
  OBVIOUS
<1>2. s \o (t \o <<e>>) = (s \o t) \o <<e>>
  BY <1>1, ConcatAssociative
<1>3. Append(t, e) = t \o <<e>> /\ Append(s \o t, e) = (s \o t) \o <<e>>
  BY <1>1, AppendIsConcat, Zenon
<1> QED
  BY <1>2, <1>3, Zenon

\* Moving the head of the right operand to the end of the left one changes
\* nothing.
LEMMA ShiftHead ==
    ASSUME NEW S, NEW s \in Seq(S), NEW t \in Seq(S), t # <<>>
    PROVE  Append(s, Head(t)) \o Tail(t) = s \o t
<1>1. Head(t) \in S /\ Tail(t) \in Seq(S) /\ <<Head(t)>> \in Seq(S)
  OBVIOUS
<1>2. <<Head(t)>> \o Tail(t) = t
  OBVIOUS
<1>3. Append(s, Head(t)) = s \o <<Head(t)>>
  BY <1>1, AppendIsConcat, Zenon
<1>4. (s \o <<Head(t)>>) \o Tail(t) = s \o (<<Head(t)>> \o Tail(t))
  BY <1>1, ConcatAssociative
<1> QED
  BY <1>2, <1>3, <1>4, Zenon

\* The inductive invariant behind DeliveredInOrder: types, and the order.
OrderInv == ChannelTypeOK /\ DeliveredInOrder

LEMMA OrderInit == ChannelInit => OrderInv
<1> SUFFICES ASSUME ChannelInit PROVE OrderInv
  OBVIOUS
<1>1. <<>> \in Seq(Values)
  OBVIOUS
<1>2. <<>> \o <<>> = <<>>
  BY <1>1
<1>3. rstate \in [Receivers -> ReceiverStates]
  BY DEF ChannelInit, ReceiverStates
<1> QED
  BY <1>1, <1>2, <1>3, Zenon DEF ChannelInit, OrderInv, DeliveredInOrder, ChannelTypeOK

LEMMA OrderStep == OrderInv /\ [ChannelNext]_channelVars => OrderInv'
<1> SUFFICES ASSUME OrderInv, [ChannelNext]_channelVars PROVE OrderInv'
  OBVIOUS
<1> USE DEF OrderInv, ChannelTypeOK, DeliveredInOrder, ReceiverStates
<1>1. CASE \E v \in Values : Send(v)
  <2>1. PICK v \in Values : Send(v)
    BY <1>1
  <2>2. rstate' \in [Receivers -> ReceiverStates]
    BY <2>1, Zenon DEF Send, Signal, Waiting
  <2>3. delivered \o Append(queue, v) = Append(accepted, v)
    BY AppendRight
  <2> QED
    BY <2>1, <2>2, <2>3 DEF Send
<1>2. ASSUME NEW r \in Receivers, RecvBlock(r) PROVE OrderInv'
  BY <1>2 DEF RecvBlock
<1>3. ASSUME NEW r \in Receivers, RecvClosed(r) PROVE OrderInv'
  BY <1>3 DEF RecvClosed
<1>4. ASSUME NEW r \in Receivers, RecvTake(r) PROVE OrderInv'
  <2>1. Append(delivered, Head(queue)) \o Tail(queue) = delivered \o queue
    BY <1>4, ShiftHead, Zenon DEF RecvTake
  <2> QED
    BY <1>4, <2>1 DEF RecvTake
<1>5. ASSUME NEW r \in Receivers, SpuriousWakeup(r) PROVE OrderInv'
  BY <1>5 DEF SpuriousWakeup
<1>6. CASE Close
  BY <1>6 DEF Close, Broadcast
<1>7. CASE UNCHANGED channelVars
  BY <1>7 DEF channelVars
<1> QED
  BY <1>1, <1>2, <1>3, <1>4, <1>5, <1>6, <1>7, SMTT(30) DEF ChannelNext, Recv

\* The blocking channel is a FIFO queue: whatever receivers race, sleep, are
\* woken or find the channel closed, what they were given, followed by what is
\* still queued, is the sequence of accepted sends (sync.c, send and recv).
THEOREM DeliveryOrder == ChannelSpec => []DeliveredInOrder
<1>1. OrderInv => DeliveredInOrder
  BY DEF OrderInv
<1> QED
  BY OrderInit, OrderStep, <1>1, PTL DEF ChannelSpec

-----------------------------------------------------------------------------
\* NoLostSignal is inductive together with the types.
SignalInv == ChannelTypeOK /\ NoLostSignal

\* The receivers on their way to the queue are finitely many.
LEMMA WokenFinite ==
    ASSUME SignalInv
    PROVE  IsFiniteSet(Woken) /\ Cardinality(Woken) \in Nat
  BY SyncChannelAssumption, FS_Subset, FS_CardinalityType DEF Woken

LEMMA SignalStep == SignalInv /\ [ChannelNext]_channelVars /\ ChannelTypeOK' => NoLostSignal'
<1> SUFFICES ASSUME SignalInv, [ChannelNext]_channelVars, ChannelTypeOK' PROVE NoLostSignal'
  OBVIOUS
<1> USE DEF SignalInv, ChannelTypeOK, NoLostSignal
<1>a. IsFiniteSet(Woken) /\ Cardinality(Woken) \in Nat
  BY WokenFinite
<1>b. IsFiniteSet(Woken') /\ Cardinality(Woken') \in Nat
  BY SyncChannelAssumption, FS_Subset, FS_CardinalityType DEF Woken
\* Waking one sleeper adds one to the receivers on their way.
<1>w. ASSUME NEW r \in Waiting, rstate' = [rstate EXCEPT ![r] = "woken"]
      PROVE  Cardinality(Woken') = Cardinality(Woken) + 1
  <2>1. Woken' = Woken \cup {r} /\ r \notin Woken
    BY <1>w DEF Woken, Waiting
  <2>2. Cardinality(Woken \cup {r}) = Cardinality(Woken) + 1
    BY <1>a, <2>1, FS_AddElement, Zenon
  <2> QED
    BY <2>1, <2>2
\* A receiver that leaves the wake-up path takes at most one from them.
<1>l. ASSUME NEW r \in Receivers, rstate' = [rstate EXCEPT ![r] = "idle"]
      PROVE  Cardinality(Woken) <= Cardinality(Woken') + 1
  <2>1. Woken' = Woken \ {r}
    BY <1>l DEF Woken
  <2>2. Cardinality(Woken \ {r}) \in {Cardinality(Woken), Cardinality(Woken) - 1}
    BY <1>a, FS_RemoveElement, Zenon
  <2> QED
    BY <1>a, <2>1, <2>2
<1>1. CASE \E v \in Values : Send(v)
  <2>1. PICK v \in Values : Send(v)
    BY <1>1
  <2>2. Len(queue') = Len(queue) + 1
    BY <2>1 DEF Send
  <2>3. CASE Waiting = {}
    BY <2>1, <2>3 DEF Send, Signal, Waiting
  <2>4. CASE Waiting # {}
    <3>1. PICK r \in Waiting : rstate' = [rstate EXCEPT ![r] = "woken"]
      BY <2>1, <2>4 DEF Send, Signal
    <3>2. Cardinality(Woken') = Cardinality(Woken) + 1
      BY <1>w, <3>1, Zenon
    <3> QED
      BY <1>a, <2>2, <2>4, <3>2
  <2> QED
    BY <2>3, <2>4
<1>2. ASSUME NEW r \in Receivers, RecvBlock(r) PROVE NoLostSignal'
  BY <1>2, <1>b DEF RecvBlock
<1>3. ASSUME NEW r \in Receivers, RecvClosed(r) PROVE NoLostSignal'
  BY <1>3, <1>b DEF RecvClosed
<1>4. ASSUME NEW r \in Receivers, RecvTake(r) PROVE NoLostSignal'
  <2>1. Len(queue') = Len(queue) - 1
    BY <1>4 DEF RecvTake
  <2>2. Waiting' = Waiting
    BY <1>4 DEF RecvTake, Waiting
  <2>3. Cardinality(Woken) <= Cardinality(Woken') + 1
    BY <1>4, <1>l, Zenon DEF RecvTake
  <2> QED
    BY <1>4, <1>a, <1>b, <2>1, <2>2, <2>3 DEF RecvTake
<1>5. ASSUME NEW r \in Receivers, SpuriousWakeup(r) PROVE NoLostSignal'
  <2>1. r \in Waiting
    BY <1>5 DEF SpuriousWakeup, Waiting
  <2>2. Cardinality(Woken') = Cardinality(Woken) + 1
    BY <1>5, <1>w, <2>1, Zenon DEF SpuriousWakeup
  <2> QED
    BY <1>5, <1>a, <2>1, <2>2 DEF SpuriousWakeup
<1>6. CASE Close
  BY <1>6 DEF Close, Broadcast, Waiting
<1>7. CASE UNCHANGED channelVars
  BY <1>7 DEF channelVars, Waiting, Woken
<1> QED
  BY <1>1, <1>2, <1>3, <1>4, <1>5, <1>6, <1>7 DEF ChannelNext, Recv

\* One pthread_cond_signal per send is enough, for any number of receivers: a
\* receiver never sleeps while more values are queued than receivers are awake
\* to take them (sync.c, the loop of ciel_channel_recv).
THEOREM SignalSuffices == ChannelSpec => []NoLostSignal
<1>1. ChannelInit => SignalInv
  <2> SUFFICES ASSUME ChannelInit PROVE SignalInv
    OBVIOUS
  <2>1. ChannelTypeOK
    BY OrderInit DEF OrderInv
  <2>2. Waiting = {}
    BY DEF ChannelInit, Waiting
  <2> QED
    BY <2>1, <2>2 DEF SignalInv, NoLostSignal
<1>2. SignalInv /\ OrderInv /\ [ChannelNext]_channelVars => SignalInv' /\ OrderInv'
  BY OrderStep, SignalStep DEF SignalInv, OrderInv
<1>3. SignalInv => NoLostSignal
  BY DEF SignalInv
<1> QED
  BY OrderInit, <1>1, <1>2, <1>3, PTL DEF ChannelSpec
-----------------------------------------------------------------------------
(* The select.                                                             *)

\* A nonempty set of numbers has a least element.
LEMMA LeastElement ==
    ASSUME NEW T \in SUBSET Nat, T # {}
    PROVE  \E x \in T : \A y \in T : x <= y
<1> DEFINE R == OpToRel(<, Nat)
<1>1. \E x \in T : \A y \in T : ~ (<<y, x>> \in R)
  <2>1. IsWellFoundedOn(R, Nat)
    BY NatLessThanWellFounded, Zenon
  <2> HIDE DEF R
  <2> QED BY <2>1, WFMin, Zenon
<1>2. \A x, y \in Nat : y < x => <<y, x>> \in R
  BY DEF OpToRel
<1> HIDE DEF R
<1>3. PICK x \in T : \A y \in T : ~ (<<y, x>> \in R)
  BY <1>1
<1>4. x \in Nat /\ \A y \in T : y \in Nat
  BY <1>3
<1>5. \A y \in T : ~(y < x)
  BY <1>2, <1>3, <1>4, Zenon
<1>6. \A y \in T : x <= y
  BY <1>4, <1>5
<1> QED
  BY <1>3, <1>6
-----------------------------------------------------------------------------
MainLabels == {"run", "lock", "poll", "polling", "claim", "losers", "recheck", "register",
               "wait", "finish", "stop", "arms", "done"}
WorkerLabels == {"idle", "lock", "poll", "polling", "rearm", "claim", "losers"}
AbortLabels == {"start", "stop", "arms", "done"}
LabelsOf(t) ==
    IF t = "main" THEN MainLabels ELSE IF t = "abort" THEN AbortLabels ELSE WorkerLabels

\* The places each thread can be at, and the arms it has to poll.
PcTypes ==
    /\ pc \in [Threads -> MainLabels \cup WorkerLabels \cup AbortLabels]
    /\ \A t \in Threads : pc[t] \in LabelsOf(t)

TodoTypes == todo \in [Threads -> Seq(ArmSet)]

SelTypes ==
    TypeOK /\ biased \in BOOLEAN /\ cancelReq \in BOOLEAN /\ PcTypes /\ TodoTypes

\* A thread that polls holds poll_mutex, the holder polls or arms again, and a
\* thread on that path has an arm to poll.
Holding ==
    \A t \in Threads :
        /\ pc[t] \in {"poll", "polling", "claim"} => lock = t
        /\ lock = t => pc[t] \in {"poll", "polling", "claim", "rearm"}
        /\ pc[t] \in {"lock", "poll", "polling", "claim", "rearm"} => todo[t] # <<>>

\* The select is decided and nobody polls any more: a state that lasts.
Closed == state # "pending" /\ lock = Nobody

\* The state of arm i while the select is not closed: pending, unless the holder
\* of the lock is polling it or has just seen it complete.
OpenState(i) ==
    IF lock # Nobody /\ pc[lock] = "polling" /\ i = Head(todo[lock]) THEN "running"
    ELSE IF lock # Nobody /\ pc[lock] = "claim" /\ i = Head(todo[lock]) THEN "complete"
    ELSE "pending"

OpenArms == ~Closed => \A i \in ArmSet : fut[i].st = OpenState(i)

\* In a closed select no arm runs, one at most is complete, and in a won one that
\* is the winner.
ClosedArms ==
    /\ Closed => \A i \in ArmSet :
           /\ fut[i].st # "running"
           /\ fut[i].st = "complete" =>
                  /\ \A j \in ArmSet \ {i} : fut[j].st # "complete"
                  /\ winner = i \/ state = "stopped"
    /\ state = "won" => Closed /\ fut[winner].st = "complete"

\* Arms are cancelled only in a closed select.
Cancelling ==
    \A t \in Threads :
        /\ pc[t] \in {"losers", "finish"} => state = "won"
        /\ pc[t] = "arms" => Closed

AllOver == \A i \in ArmSet : fut[i].st \in {"complete", "failed"}

\* The future of the select runs while its driver does; once it has an outcome
\* every arm is over, or somebody is about to cancel the rest.
SelfState ==
    /\ pc["main"] \in {"lock", "poll", "polling", "claim", "losers", "recheck", "finish"} =>
           self = "running"
    /\ pc["main"] \in {"run", "register", "wait"} => self \in {"pending", "failed"}
    /\ pc["main"] \in {"stop", "arms"} => self \in {"running", "failed"}
    /\ pc["main"] = "done" => self \in {"complete", "failed"}
    /\ self = "complete" => pc["main"] = "done" /\ state = "won" /\ AllOver
    /\ self = "failed" /\ pc["abort"] \in {"start", "done"} /\ pc["main"] \notin {"stop", "arms"} =>
           Closed /\ AllOver

SelectInv ==
    SelTypes /\ Holding /\ OpenArms /\ ClosedArms /\ Cancelling /\ SelfState

LEMMA ThreadNames ==
    ASSUME SelectAssumption
    PROVE  /\ "main" \in Threads /\ "abort" \in Threads /\ Nobody \notin Threads
           /\ Workers \subseteq Threads
           /\ \A w \in Workers : w # "main" /\ w # "abort"
  BY DEF SelectAssumption, Threads, Nobody

\* One thread moves.
LEMMA PcStep ==
    ASSUME PcTypes, NEW t \in Threads, NEW l \in LabelsOf(t), Goto(t, l)
    PROVE  /\ PcTypes' /\ pc'[t] = l
           /\ \A u \in Threads \ {t} : pc'[u] = pc[u]
<1>1. l \in MainLabels \cup WorkerLabels \cup AbortLabels
  BY DEF LabelsOf
<1>2. pc' = [pc EXCEPT ![t] = l]
  BY DEF Goto
<1> QED
  BY <1>1, <1>2 DEF PcTypes

\* One thread gets another list of arms.
LEMMA TodoStep ==
    ASSUME TodoTypes, NEW t \in Threads, NEW q \in Seq(ArmSet),
           todo' = [todo EXCEPT ![t] = q]
    PROVE  /\ TodoTypes' /\ todo'[t] = q
           /\ \A u \in Threads \ {t} : todo'[u] = todo[u]
  BY DEF TodoTypes

LEMMA SourceParts ==
    /\ \A s \in Sources : s[1] \in ArmSet
    /\ \A i \in ArmSet : \A k \in 1..Stages[i] : <<i, k>> \in Sources
  BY DEF Sources

LEMMA HeadAndTail ==
    ASSUME NEW S, NEW q \in Seq(S), q # <<>>
    PROVE  /\ Head(q) \in S /\ Tail(q) \in Seq(S)
           /\ Len(q) # 1 => Tail(q) # <<>>
<1>1. Head(q) \in S /\ Tail(q) \in Seq(S) /\ Len(q) \in Nat /\ Len(Tail(q)) = Len(q) - 1
  OBVIOUS
<1>2. ASSUME Tail(q) = <<>> PROVE Len(q) = 1
  <2> DEFINE r == Tail(q)
             n == Len(q)
  <2>1. Len(<<>>) = 0
    OBVIOUS
  <2>2. Len(r) = 0
    BY <1>2, <2>1, Zenon
  <2>3. n \in Nat /\ Len(r) = n - 1
    BY <1>1
  <2> HIDE DEF r, n
  <2>4. n = 1
    BY <2>2, <2>3
  <2> QED
    BY <2>4 DEF n
<1> QED
  BY <1>1, <1>2

LEMMA HeadIsArm ==
    ASSUME SelectInv, NEW t \in Threads, todo[t] # <<>>
    PROVE  /\ Head(todo[t]) \in ArmSet /\ Tail(todo[t]) \in Seq(ArmSet)
           /\ Len(todo[t]) # 1 => Tail(todo[t]) # <<>>
<1>1. todo[t] \in Seq(ArmSet)
  BY DEF SelectInv, SelTypes, TodoTypes
<1> QED
  BY <1>1, HeadAndTail

LEMMA BackIsLabel ==
    ASSUME NEW t \in Threads, t # "abort"
    PROVE  Back(t) \in LabelsOf(t) /\ Back(t) \in {"recheck", "idle"}
  BY DEF Back, LabelsOf, MainLabels, WorkerLabels

\* Who can be where.
LEMMA PlaceOwners ==
    ASSUME SelectAssumption, SelectInv, NEW t \in Threads
    PROVE  /\ pc[t] \in {"lock", "poll", "polling", "rearm", "claim", "losers"} => t # "abort"
           /\ pc[t] = "rearm" => t # "main"
           /\ pc[t] \in {"stop", "arms"} => t \in {"main", "abort"}
           /\ pc[t] = "idle" => t \notin {"main", "abort"}
  BY DEF SelectInv, SelTypes, PcTypes, LabelsOf, MainLabels, WorkerLabels, AbortLabels

\* Cancelling the arms but w.
LEMMA CancelledArms ==
    ASSUME SelectAssumption, SelectInv, NEW w, fut' = CancelledBut(w)
    PROVE  /\ fut' \in [ArmSet -> [st : {"pending", "running", "complete", "failed"}, stage : Nat]]
           /\ \A i \in ArmSet :
                  /\ fut'[i].stage = fut[i].stage
                  /\ fut'[i].st = IF i # w /\ fut[i].st = "pending" THEN "failed" ELSE fut[i].st
<1>1. fut \in [ArmSet -> [st : {"pending", "running", "complete", "failed"}, stage : Nat]]
  BY DEF SelectInv, SelTypes, TypeOK
<1> QED
  BY <1>1 DEF CancelledBut

LEMMA StageBounds ==
    ASSUME SelectAssumption, SelectInv, NEW i \in ArmSet
    PROVE  Stages[i] \in Nat \ {0} /\ fut[i].stage \in Nat \ {0} /\ fut[i].stage <= Stages[i]
<1>1. Stages[i] \in Nat \ {0}
  BY DEF SelectAssumption, ArmSet
<1>2. fut[i].stage \in 1..Stages[i]
  BY DEF SelectInv, SelTypes, TypeOK
<1> QED
  BY <1>1, <1>2

\* The stage that an arm gets to is one of its stages, or the end.
LEMMA ReachedStage ==
    ASSUME SelectAssumption, SelectInv, NEW i \in ArmSet
    PROVE  Reached(i) \in fut[i].stage..(Stages[i] + 1)
<1> DEFINE a == fut[i].stage
           n == Stages[i] + 1
           T == {k \in a..n : k = n \/ <<i, k>> \notin ready}
<1>1. a \in Nat /\ n \in Nat /\ a <= n
  BY StageBounds
<1>2. PICK s \in T : \A k \in T : s <= k
  <2>1. T \subseteq Nat /\ n \in T
    BY <1>1
  <2> QED
    BY <2>1, LeastElement, Zenon
<1>3. s \in a..n /\ (s = n \/ <<i, s>> \notin ready)
  BY <1>2
<1>4. \A k \in a..(s - 1) : <<i, k>> \in ready
  BY <1>1, <1>2, <1>3
<1> QED
  BY <1>3, <1>4 DEF Reached

\* The orders in which the arms are polled.
LEMMA ArmOrder ==
    ASSUME SelectAssumption
    PROVE  /\ [k \in ArmSet |-> k] \in Seq(ArmSet) /\ [k \in ArmSet |-> k] # <<>>
           /\ \A i \in ArmSet : <<i>> \in Seq(ArmSet) /\ <<i>> # <<>>
<1>1. Arms \in Nat \ {0}
  BY DEF SelectAssumption
<1>2. [k \in 1..Arms |-> k] \in Seq(1..Arms) /\ Len([k \in 1..Arms |-> k]) = Arms
  BY <1>1
<1> QED
  BY <1>1, <1>2 DEF ArmSet

LEMMA RotatedOrder ==
    ASSUME SelectAssumption, NEW k \in 0..(Arms - 1)
    PROVE  LET q == [j \in ArmSet |-> ((k + j - 1) % Arms) + 1]
           IN  q \in Seq(ArmSet) /\ q # <<>>
<1>1. Arms \in Nat \ {0}
  BY DEF SelectAssumption
<1> DEFINE q == [j \in 1..Arms |-> ((k + j - 1) % Arms) + 1]
<1>2. \A j \in 1..Arms : ((k + j - 1) % Arms) + 1 \in 1..Arms
  BY <1>1
<1>3. q \in Seq(1..Arms) /\ Len(q) = Arms
  BY <1>1, <1>2
<1>4. q # <<>>
  BY <1>1, <1>3
<1> QED
  BY <1>3, <1>4 DEF ArmSet

LEMMA EventKeeps ==
    ASSUME SelectAssumption, SelectInv, NEW s \in Sources, Event(s)
    PROVE  SelectInv'
<1>a. UNCHANGED <<state, winner, self, cancelReq, fut, lock, pc, todo, biased>>
  BY DEF Event, setVars, selfVars
<1>1. SelTypes'
  <2>1. /\ ready \subseteq Sources /\ taskNodes \subseteq Sources
        /\ nodes \in [Sources -> Nat] /\ jobs \in [ArmSet -> Nat] /\ s[1] \in ArmSet
    BY SourceParts DEF SelectInv, SelTypes, TypeOK
  <2>2. ready' \subseteq Sources /\ taskNodes' \subseteq Sources
    BY <2>1 DEF Event
  <2>3. nodes' \in [Sources -> Nat] /\ jobs' \in [ArmSet -> Nat]
    BY <2>1 DEF Event
  <2>4. PcTypes' /\ TodoTypes'
    BY <1>a DEF SelectInv, SelTypes, PcTypes, TodoTypes
  <2> QED
    BY <1>a, <2>2, <2>3, <2>4 DEF SelectInv, SelTypes, TypeOK
<1>2. Holding'
  BY <1>a, ThreadNames DEF SelectInv, Holding
<1>3. OpenArms'
  BY <1>a, ThreadNames DEF SelectInv, Holding, OpenArms, OpenState, ClosedArms, Closed
<1>4. ClosedArms'
  BY <1>a, ThreadNames DEF SelectInv, Holding, OpenArms, OpenState, ClosedArms, Closed
<1>5. Cancelling'
  BY <1>a, ThreadNames DEF SelectInv, Holding, ClosedArms, Cancelling, Closed
<1>6. SelfState'
  BY <1>a, ThreadNames DEF SelectInv, Holding, OpenArms, OpenState, ClosedArms, Cancelling, SelfState, Closed, AllOver
<1> QED
  BY <1>1, <1>2, <1>3, <1>4, <1>5, <1>6 DEF SelectInv

LEMMA StealKeeps ==
    ASSUME SelectAssumption, SelectInv, NEW s \in Sources, Steal(s)
    PROVE  SelectInv'
<1>a. UNCHANGED <<state, winner, self, cancelReq, fut, lock, pc, todo, biased, nodes, taskNodes, jobs>>
  BY DEF Steal, setVars, selfVars, wakeVars
<1>1. SelTypes'
  <2>1. ready' \subseteq Sources
    BY DEF Steal, SelectInv, SelTypes, TypeOK
  <2>2. PcTypes' /\ TodoTypes'
    BY <1>a DEF SelectInv, SelTypes, PcTypes, TodoTypes
  <2> QED
    BY <1>a, <2>1, <2>2 DEF SelectInv, SelTypes, TypeOK
<1>2. Holding'
  BY <1>a, ThreadNames, Zenon DEF SelectInv, Holding
<1>3. OpenArms'
  BY <1>a, ThreadNames DEF SelectInv, Holding, OpenArms, OpenState, ClosedArms, Closed
<1>4. ClosedArms'
  BY <1>a, ThreadNames DEF SelectInv, Holding, OpenArms, OpenState, ClosedArms, Closed
<1>5. Cancelling'
  BY <1>a, ThreadNames, Zenon DEF SelectInv, Holding, ClosedArms, Cancelling, Closed
<1>6. SelfState'
  BY <1>a, ThreadNames DEF SelectInv, Holding, OpenArms, OpenState, ClosedArms, Cancelling, SelfState, Closed, AllOver
<1> QED
  BY <1>1, <1>2, <1>3, <1>4, <1>5, <1>6 DEF SelectInv

LEMMA LockKeeps ==
    ASSUME SelectAssumption, SelectInv, NEW t \in Threads, Lock(t)
    PROVE  SelectInv'
<1>t. SelTypes /\ PcTypes /\ pc[t] = "lock" /\ lock = Nobody /\ todo[t] # <<>>
  BY ThreadNames DEF SelectInv, SelTypes, Holding, Lock
<1>b. t # "abort" /\ Back(t) \in LabelsOf(t) /\ Back(t) \in {"recheck", "idle"}
  BY <1>t, BackIsLabel, PlaceOwners
<1>f. UNCHANGED <<state, winner, self, cancelReq, fut, todo, biased, ready, nodes, taskNodes, jobs>>
  BY DEF Lock, Stopped, setVars, selfVars, sourceVars, wakeVars, bounds
<1>p. PICK l \in {Back(t), "poll"} :
          /\ Goto(t, l)
          /\ l = "poll" => state = "pending" /\ lock' = t
          /\ l # "poll" => state # "pending" /\ lock' = lock
  BY <1>b DEF Lock, Stopped
<1>l. l \in LabelsOf(t)
  BY <1>p, <1>b DEF LabelsOf, MainLabels, WorkerLabels
<1>q. /\ PcTypes' /\ pc'[t] = l /\ l \in {"recheck", "idle", "poll"}
      /\ \A u \in Threads \ {t} : pc'[u] = pc[u]
  BY <1>t, <1>p, <1>l, <1>b, PcStep
<1>m. t = "main" => self = "running"
  BY <1>t DEF SelectInv, SelfState
<1>1. SelTypes'
  BY <1>t, <1>f, <1>p, <1>q, Zenon DEF SelTypes, TypeOK, TodoTypes
<1>2. Holding'
  BY <1>t, <1>b, <1>f, <1>p, <1>q, <1>m, ThreadNames, SMTT(30) DEF SelectInv, Holding
<1>3. OpenArms'
  BY <1>t, <1>b, <1>f, <1>p, <1>q, <1>m, ThreadNames, Zenon DEF SelectInv, Holding, OpenArms, OpenState, ClosedArms, Closed
<1>4. ClosedArms'
  BY <1>t, <1>b, <1>f, <1>p, <1>q, <1>m, ThreadNames DEF SelectInv, Holding, OpenArms, OpenState, ClosedArms, Closed
<1>5. Cancelling'
  BY <1>t, <1>b, <1>f, <1>p, <1>q, <1>m, ThreadNames, Zenon DEF SelectInv, Holding, ClosedArms, Cancelling, Closed
<1>6. SelfState'
  BY <1>t, <1>b, <1>f, <1>p, <1>q, <1>m, ThreadNames, Zenon DEF SelectInv, Holding, OpenArms, OpenState, ClosedArms, Cancelling, SelfState, Closed, AllOver
<1> QED
  BY <1>1, <1>2, <1>3, <1>4, <1>5, <1>6 DEF SelectInv

LEMMA PollBeginKeeps ==
    ASSUME SelectAssumption, SelectInv, NEW t \in Threads, PollBegin(t)
    PROVE  SelectInv'
<1>t. SelTypes /\ PcTypes /\ pc[t] = "poll" /\ lock = t /\ todo[t] # <<>>
  BY ThreadNames DEF SelectInv, SelTypes, Holding, PollBegin
<1> DEFINE i == Head(todo[t])
<1>i. i \in ArmSet /\ t # "abort"
  BY <1>t, HeadIsArm, PlaceOwners, Zenon
<1>f. UNCHANGED <<state, winner, self, cancelReq, todo, biased, ready, nodes, taskNodes, jobs, lock>>
  BY DEF PollBegin, Stopped, setVars, selfVars, sourceVars, wakeVars, bounds
<1>q. /\ PcTypes' /\ pc'[t] = "polling" /\ \A u \in Threads \ {t} : pc'[u] = pc[u]
  <2>1. Goto(t, "polling")
    BY DEF PollBegin
  <2>2. "polling" \in LabelsOf(t)
    BY <1>i DEF LabelsOf, MainLabels, WorkerLabels
  <2> QED
    BY <1>t, <2>1, <2>2, PcStep
<1> HIDE DEF i
<1>g. fut \in [ArmSet -> [st : {"pending", "running", "complete", "failed"}, stage : Nat]]
  BY <1>t DEF SelTypes, TypeOK
<1>h. fut' = [fut EXCEPT ![i].st = "running"]
  BY DEF PollBegin, i
<1>j. /\ fut' \in [ArmSet -> [st : {"pending", "running", "complete", "failed"}, stage : Nat]]
      /\ \A k \in ArmSet : fut'[k].stage = fut[k].stage
      /\ fut'[i].st = "running" /\ \A k \in ArmSet \ {i} : fut'[k].st = fut[k].st
  BY <1>g, <1>h, <1>i, Zenon
<1>o. ~Closed /\ ~Closed' /\ state # "won"
  BY <1>t, <1>f, ThreadNames DEF Closed, SelectInv, ClosedArms
<1>m. t = "main" => self = "running"
  BY <1>t, Zenon DEF SelectInv, SelfState
<1>1. SelTypes'
  BY <1>t, <1>f, <1>q, <1>j, Zenon DEF SelTypes, TypeOK, TodoTypes
<1>2. Holding'
  BY <1>t, <1>i, <1>f, <1>q, <1>j, <1>o, <1>m, ThreadNames, Zenon DEF SelectInv, Holding
<1>3. OpenArms'
  <2>1. \A k \in ArmSet \ {i} : fut[k].st = "pending"
    BY <1>t, <1>o, ThreadNames, Zenon DEF SelectInv, OpenArms, OpenState
  <2>2. \A k \in ArmSet : OpenState(k)' = IF k = i THEN "running" ELSE "pending"
    BY <1>t, <1>f, <1>q, ThreadNames DEF OpenState, i
  <2> QED
    BY <1>i, <1>j, <2>1, <2>2, Zenon DEF OpenArms
<1>4. ClosedArms'
  BY <1>f, <1>o, Zenon DEF ClosedArms
<1>5. Cancelling'
  BY <1>t, <1>i, <1>f, <1>q, <1>j, <1>o, <1>m, ThreadNames, Zenon DEF SelectInv, Holding, ClosedArms, Cancelling, Closed
<1>6. SelfState'
  BY <1>t, <1>i, <1>f, <1>q, <1>j, <1>o, <1>m, ThreadNames, Zenon DEF SelectInv, Holding, OpenArms, OpenState, ClosedArms, Cancelling, SelfState, Closed, AllOver
<1> QED
  BY <1>1, <1>2, <1>3, <1>4, <1>5, <1>6 DEF SelectInv

LEMMA PollEndKeeps ==
    ASSUME SelectAssumption, SelectInv, NEW t \in Threads, PollEnd(t)
    PROVE  SelectInv'
<1>t. SelTypes /\ PcTypes /\ TodoTypes /\ pc[t] = "polling" /\ lock = t /\ todo[t] # <<>>
  BY ThreadNames DEF SelectInv, SelTypes, Holding, PollEnd
<1> DEFINE i == Head(todo[t])
           s == Reached(i)
<1>i. i \in ArmSet /\ t # "abort"
  BY <1>t, HeadIsArm, PlaceOwners
<1>s. /\ fut[i].stage \in Nat \ {0} /\ Stages[i] \in Nat
      /\ s \in Nat \ {0} /\ s <= Stages[i] + 1
  <2>1. s \in fut[i].stage..(Stages[i] + 1)
    BY <1>i, ReachedStage, Zenon
  <2> HIDE DEF i, s
  <2> QED
    BY <1>i, <2>1, StageBounds
<1>f. UNCHANGED <<state, winner, self, cancelReq, biased, nodes, taskNodes, jobs>>
  BY Zenon DEF PollEnd, Stopped, setVars, selfVars, sourceVars, wakeVars, bounds
<1>r. ready' \subseteq ready
  BY Zenon DEF PollEnd
<1>g. fut \in [ArmSet -> [st : {"pending", "running", "complete", "failed"}, stage : Nat]]
  BY <1>t, Zenon DEF SelTypes, TypeOK
<1>o. ~Closed /\ state # "won" /\ \A k \in ArmSet \ {i} : fut[k].st = "pending"
  BY <1>t, ThreadNames DEF Closed, SelectInv, ClosedArms, OpenArms, OpenState
<1>m. t = "main" => self = "running"
  BY <1>t DEF SelectInv, SelfState
<1>b. Back(t) \in LabelsOf(t) /\ Back(t) \in {"recheck", "idle"}
  BY <1>i, BackIsLabel, Zenon
<1>h. \/ /\ fut' = [fut EXCEPT ![i].st = "complete"]
         /\ Goto(t, "claim") /\ UNCHANGED <<lock, todo>>
      \/ /\ s <= Stages[i] /\ fut' = [fut EXCEPT ![i] = [st |-> "pending", stage |-> s]]
         /\ \/ NextArm(t)
            \/ /\ t # "main" /\ Goto(t, "rearm") /\ UNCHANGED todo
               /\ lock' \in {lock, Nobody}
  BY DEF PollEnd
<1>l. {"claim", "poll"} \subseteq LabelsOf(t) /\ (t # "main" => "rearm" \in LabelsOf(t))
  BY <1>i DEF LabelsOf, MainLabels, WorkerLabels
<1> HIDE DEF i, s
\* What a poll leaves of its arm, by where the thread goes.
<1>j. /\ fut' \in [ArmSet -> [st : {"pending", "running", "complete", "failed"}, stage : Nat]]
      /\ \A k \in ArmSet : fut'[k].stage \in 1..Stages[k]
      /\ \A k \in ArmSet \ {i} : fut'[k].st = "pending"
  <2>1. \A k \in ArmSet : fut[k].stage \in 1..Stages[k]
    BY <1>t DEF SelTypes, TypeOK
  <2> QED
    BY <1>g, <1>h, <1>i, <1>s, <1>o, <2>1
<1>q. /\ PcTypes' /\ TodoTypes' /\ \A u \in Threads \ {t} : pc'[u] = pc[u] /\ todo'[u] = todo[u]
      /\ \/ /\ pc'[t] = "claim" /\ lock' = t /\ todo'[t] = todo[t] /\ fut'[i].st = "complete"
         \/ /\ fut'[i].st = "pending"
            /\ \/ pc'[t] \in {"recheck", "idle"} /\ lock' = Nobody
               \/ pc'[t] = "poll" /\ lock' = t /\ todo'[t] # <<>>
               \/ /\ pc'[t] = "rearm" /\ t # "main" /\ lock' \in {t, Nobody}
                  /\ todo'[t] = todo[t]
  <2>1. CASE Goto(t, "claim") /\ UNCHANGED <<lock, todo>> /\ fut' = [fut EXCEPT ![i].st = "complete"]
    BY <1>t, <1>g, <1>i, <1>l, <2>1, PcStep, ZenonT(30) DEF TodoTypes
  <2>2. CASE /\ t # "main" /\ Goto(t, "rearm") /\ UNCHANGED todo /\ lock' \in {lock, Nobody}
             /\ fut' = [fut EXCEPT ![i] = [st |-> "pending", stage |-> s]]
    BY <1>t, <1>g, <1>i, <1>l, <2>2, PcStep, Zenon DEF TodoTypes
  <2>3. CASE NextArm(t) /\ fut' = [fut EXCEPT ![i] = [st |-> "pending", stage |-> s]]
    <3>1. Tail(todo[t]) \in Seq(ArmSet) /\ (Len(todo[t]) # 1 => Tail(todo[t]) # <<>>)
      BY <1>t, HeadIsArm, Zenon
    <3>2. todo' = [todo EXCEPT ![t] = Tail(todo[t])]
      BY <2>3 DEF NextArm
    <3>3. TodoTypes' /\ todo'[t] = Tail(todo[t]) /\ \A u \in Threads \ {t} : todo'[u] = todo[u]
      BY <1>t, <3>1, <3>2, TodoStep, Zenon
    <3>4. fut'[i].st = "pending"
      BY <1>g, <1>i, <2>3, Zenon
    <3>5. CASE Len(todo[t]) = 1
      <4>1. Goto(t, Back(t)) /\ lock' = Nobody
        BY <2>3, <3>5, Zenon DEF NextArm
      <4> QED
        BY <1>t, <1>b, <3>3, <3>4, <4>1, PcStep, Zenon
    <3>6. CASE Len(todo[t]) # 1
      <4>1. Goto(t, "poll") /\ lock' = lock
        BY <2>3, <3>6 DEF NextArm
      <4> QED
        BY <1>t, <1>l, <3>1, <3>3, <3>4, <3>6, <4>1, PcStep
    <3> QED
      BY <3>5, <3>6
  <2> QED
    BY <1>h, <2>1, <2>2, <2>3
<1>1. SelTypes'
  BY <1>t, <1>f, <1>r, <1>q, <1>j, Zenon DEF SelTypes, TypeOK
<1>2. Holding'
  BY <1>t, <1>i, <1>f, <1>o, <1>m, <1>q, <1>j, ThreadNames, Zenon DEF SelectInv, Holding, i
<1>3. OpenArms'
  BY <1>t, <1>i, <1>f, <1>o, <1>m, <1>q, <1>j, ThreadNames, SMTT(30) DEF SelectInv, Holding, OpenArms, OpenState, ClosedArms, Closed, i
<1>4. ClosedArms'
  BY <1>t, <1>i, <1>f, <1>o, <1>m, <1>q, <1>j, ThreadNames DEF SelectInv, Holding, OpenArms, OpenState, ClosedArms, Closed, i
<1>5. Cancelling'
  BY <1>t, <1>i, <1>f, <1>o, <1>m, <1>q, <1>j, ThreadNames, ZenonT(30) DEF SelectInv, Holding, ClosedArms, Cancelling, Closed, i
<1>6. SelfState'
  BY <1>t, <1>i, <1>f, <1>o, <1>m, <1>q, <1>j, ThreadNames, Zenon DEF SelectInv, Holding, OpenArms, OpenState, ClosedArms, Cancelling, SelfState, Closed, AllOver, i
<1> QED
  BY <1>1, <1>2, <1>3, <1>4, <1>5, <1>6 DEF SelectInv

LEMMA RearmKeeps ==
    ASSUME SelectAssumption, SelectInv, NEW t \in Threads, Rearm(t)
    PROVE  SelectInv'
<1>t. SelTypes /\ PcTypes /\ TodoTypes /\ pc[t] = "rearm" /\ todo[t] # <<>>
  BY ThreadNames, Zenon DEF SelectInv, SelTypes, Holding, Rearm
<1> DEFINE i == Head(todo[t])
           s == <<i, fut[i].stage>>
<1>i. i \in ArmSet /\ t \notin {"abort", "main"}
  BY <1>t, HeadIsArm, PlaceOwners
<1>s. s \in Sources
  BY <1>t, <1>i, SourceParts, Zenon DEF SelTypes, TypeOK
<1>f. UNCHANGED <<state, winner, self, cancelReq, fut, biased, ready, taskNodes>>
  BY Zenon DEF Rearm, Stopped, setVars, selfVars, sourceVars, wakeVars, bounds
<1>r. \/ jobs' = [jobs EXCEPT ![i] = @ + 1] /\ nodes' = nodes
      \/ nodes' = [nodes EXCEPT ![s] = @ + 1] /\ jobs' = jobs
  BY DEF Rearm
<1>b. Back(t) \in LabelsOf(t) /\ Back(t) = "idle"
  BY <1>i, BackIsLabel DEF Back
<1>l. {"idle", "poll"} \subseteq LabelsOf(t)
  BY <1>i DEF LabelsOf, WorkerLabels
<1>n. nodes' \in [Sources -> Nat] /\ jobs' \in [ArmSet -> Nat]
  <2>1. nodes \in [Sources -> Nat] /\ jobs \in [ArmSet -> Nat]
    BY <1>t, Zenon DEF SelTypes, TypeOK
  <2> HIDE DEF i, s
  <2> QED
    BY <1>r, <1>i, <1>s, <2>1, SMTT(30)
<1>q. /\ PcTypes' /\ TodoTypes' /\ \A u \in Threads \ {t} : pc'[u] = pc[u] /\ todo'[u] = todo[u]
      /\ \/ pc'[t] = "idle" /\ lock' = IF lock = t THEN Nobody ELSE lock
         \/ pc'[t] = "poll" /\ lock = t /\ lock' = t /\ todo'[t] # <<>>
  <2>1. CASE lock # t
    <3>1. todo' = [todo EXCEPT ![t] = <<>>] /\ Goto(t, "idle") /\ lock' = lock
      BY <2>1 DEF Rearm
    <3>2. <<>> \in Seq(ArmSet)
      BY SMTT(30)
    <3> QED
      BY <1>t, <1>l, <2>1, <3>1, <3>2, PcStep, TodoStep, Zenon
  <2>2. CASE lock = t
    <3>1. Tail(todo[t]) \in Seq(ArmSet) /\ (Len(todo[t]) # 1 => Tail(todo[t]) # <<>>)
      BY <1>t, HeadIsArm, Zenon
    <3>0. NextArm(t)
      BY <2>2 DEF Rearm
    <3>2. todo' = [todo EXCEPT ![t] = Tail(todo[t])]
      BY <3>0 DEF NextArm
    <3>3. TodoTypes' /\ todo'[t] = Tail(todo[t]) /\ \A u \in Threads \ {t} : todo'[u] = todo[u]
      BY <1>t, <3>1, <3>2, TodoStep, Zenon
    <3>5. CASE Len(todo[t]) = 1
      <4>1. Goto(t, "idle") /\ lock' = Nobody
        BY <1>b, <3>0, <3>5, Zenon DEF NextArm
      <4> QED
        BY <1>t, <1>l, <2>2, <3>3, <4>1, PcStep, Zenon
    <3>6. CASE Len(todo[t]) # 1
      <4>1. Goto(t, "poll") /\ lock' = lock
        BY <3>0, <3>6, Zenon DEF NextArm
      <4> QED
        BY <1>t, <1>l, <2>2, <3>1, <3>3, <3>6, <4>1, PcStep
    <3> QED
      BY <3>5, <3>6, Zenon
  <2> QED
    BY <2>1, <2>2
<1> HIDE DEF i, s
<1>1. SelTypes'
  BY <1>t, <1>f, <1>n, <1>q, ThreadNames, Zenon DEF SelTypes, TypeOK
<1>2. Holding'
  BY <1>t, <1>i, <1>f, <1>q, ThreadNames DEF SelectInv, Holding
<1>3. OpenArms'
  <2>1. CASE lock = t
    <3>1. ~Closed /\ \A k \in ArmSet : fut[k].st = "pending"
      BY <1>t, <2>1, ThreadNames, Zenon DEF SelectInv, OpenArms, OpenState, Closed
    <3>2. \A k \in ArmSet : OpenState(k)' = "pending"
      BY <1>q, <2>1, ThreadNames DEF OpenState
    <3> QED
      BY <1>f, <3>1, <3>2 DEF OpenArms
  <2>2. CASE lock # t
    <3>1. lock' = lock /\ (Closed' <=> Closed)
      BY <1>f, <1>q, <2>2, Zenon DEF Closed
    <3>2. lock \in Threads \cup {Nobody}
      BY <1>t DEF SelTypes, TypeOK
    <3>3. \A k \in ArmSet : OpenState(k)' = OpenState(k)
      BY <1>q, <2>2, <3>1, <3>2, Zenon DEF OpenState
    <3> QED
      BY <1>f, <3>1, <3>3, Zenon DEF SelectInv, OpenArms
  <2> QED
    BY <2>1, <2>2, Zenon
<1>4. ClosedArms'
  BY <1>t, <1>i, <1>f, <1>q, ThreadNames DEF SelectInv, Holding, OpenArms, OpenState, ClosedArms, Closed
<1>5. Cancelling'
  BY <1>t, <1>i, <1>f, <1>q, ThreadNames, Zenon DEF SelectInv, Holding, ClosedArms, Cancelling, Closed
<1>6. SelfState'
  BY <1>t, <1>i, <1>f, <1>q, ThreadNames, Zenon DEF SelectInv, Holding, OpenArms, OpenState, ClosedArms, Cancelling, SelfState, Closed, AllOver
<1> QED
  BY <1>1, <1>2, <1>3, <1>4, <1>5, <1>6 DEF SelectInv

LEMMA ClaimKeeps ==
    ASSUME SelectAssumption, SelectInv, NEW t \in Threads, Claim(t)
    PROVE  SelectInv'
<1>t. SelTypes /\ PcTypes /\ TodoTypes /\ pc[t] = "claim" /\ lock = t /\ todo[t] # <<>>
  BY ThreadNames, Zenon DEF SelectInv, SelTypes, Holding, Claim
<1> DEFINE i == Head(todo[t])
<1>i. i \in ArmSet /\ t # "abort" /\ i # NoArm
  BY <1>t, HeadIsArm, PlaceOwners, SMTT(30) DEF ArmSet, NoArm, SelectAssumption
<1>f. UNCHANGED <<self, cancelReq, fut, biased, ready, nodes, taskNodes, jobs>> /\ lock' = Nobody
  BY DEF Claim, Stopped, setVars, selfVars, sourceVars, wakeVars, bounds
<1>o. /\ ~Closed /\ state # "won" /\ fut[i].st = "complete"
      /\ \A k \in ArmSet \ {i} : fut[k].st = "pending"
  BY <1>t, <1>i, ThreadNames, Zenon DEF Closed, SelectInv, ClosedArms, OpenArms, OpenState
<1>m. t = "main" => self = "running"
  BY <1>t, Zenon DEF SelectInv, SelfState
<1>w. winner = NoArm
  BY <1>t, <1>o, Zenon DEF SelTypes, TypeOK
<1>h. \/ state = "stopped" /\ state' = "stopped" /\ winner' = NoArm /\ Goto(t, Back(t))
      \/ state' = "won" /\ winner' = i /\ Goto(t, "losers")
  BY <1>t, <1>o, <1>w DEF Claim, Stopped, setVars, SelTypes, TypeOK
<1>b. Back(t) \in LabelsOf(t) /\ Back(t) \in {"recheck", "idle"}
  BY <1>i, BackIsLabel
<1>l. "losers" \in LabelsOf(t)
  BY <1>i DEF LabelsOf, MainLabels, WorkerLabels
<1>d. TodoTypes' /\ \A u \in Threads \ {t} : todo'[u] = todo[u]
  <2>1. todo' = [todo EXCEPT ![t] = <<>>] /\ <<>> \in Seq(ArmSet)
    BY SMTT(30) DEF Claim
  <2> QED
    BY <1>t, <2>1, TodoStep, Zenon
<1>q. /\ PcTypes' /\ \A u \in Threads \ {t} : pc'[u] = pc[u]
      /\ \/ pc'[t] \in {"recheck", "idle"} /\ state = "stopped" /\ state' = "stopped" /\ winner' = NoArm
         \/ pc'[t] = "losers" /\ state' = "won" /\ winner' = i
  BY <1>t, <1>h, <1>b, <1>l, PcStep, Zenon
<1> HIDE DEF i
<1>c. Closed' /\ state' \in {"won", "stopped"}
  BY <1>f, <1>q, Zenon DEF Closed
<1>1. SelTypes'
  BY <1>t, <1>i, <1>f, <1>q, <1>d DEF SelTypes, TypeOK
<1>2. Holding'
  BY <1>t, <1>i, <1>f, <1>o, <1>m, <1>q, <1>d, <1>c, ThreadNames, Zenon DEF SelectInv, Holding
<1>3. OpenArms'
  BY <1>t, <1>i, <1>f, <1>o, <1>m, <1>q, <1>d, <1>c, ThreadNames, Zenon DEF SelectInv, Holding, OpenArms, OpenState, ClosedArms, Closed
<1>4. ClosedArms'
  BY <1>t, <1>i, <1>f, <1>o, <1>m, <1>q, <1>d, <1>c, ThreadNames, Zenon DEF SelectInv, Holding, OpenArms, OpenState, ClosedArms, Closed
<1>5. Cancelling'
  BY <1>t, <1>i, <1>f, <1>o, <1>m, <1>q, <1>d, <1>c, ThreadNames, Zenon DEF SelectInv, Holding, ClosedArms, Cancelling, Closed
<1>6. SelfState'
  BY <1>t, <1>i, <1>f, <1>o, <1>m, <1>q, <1>d, <1>c, ThreadNames, Zenon DEF SelectInv, Holding, OpenArms, OpenState, ClosedArms, Cancelling, SelfState, Closed, AllOver
<1> QED
  BY <1>1, <1>2, <1>3, <1>4, <1>5, <1>6 DEF SelectInv

LEMMA LosersKeeps ==
    ASSUME SelectAssumption, SelectInv, NEW t \in Threads, Losers(t)
    PROVE  SelectInv'
<1>t. SelTypes /\ PcTypes /\ pc[t] = "losers" /\ state = "won" /\ Closed /\ fut[winner].st = "complete"
  BY ThreadNames, Zenon DEF SelectInv, SelTypes, Cancelling, ClosedArms, Losers
<1>f. UNCHANGED <<state, winner, self, cancelReq, todo, biased, ready, nodes, taskNodes, jobs, lock>>
  BY Zenon DEF Losers, Stopped, setVars, selfVars, sourceVars, wakeVars, bounds
<1>b. t # "abort" /\ Back(t) \in LabelsOf(t) /\ Back(t) \in {"recheck", "idle"}
  BY <1>t, BackIsLabel, PlaceOwners, Zenon
<1>q. /\ PcTypes' /\ pc'[t] \in {"recheck", "idle"} /\ \A u \in Threads \ {t} : pc'[u] = pc[u]
  BY <1>t, <1>b, PcStep, Zenon DEF Losers
<1>j. /\ fut' \in [ArmSet -> [st : {"pending", "running", "complete", "failed"}, stage : Nat]]
      /\ \A i \in ArmSet :
             /\ fut'[i].stage = fut[i].stage
             /\ fut'[i].st = IF i # winner /\ fut[i].st = "pending" THEN "failed" ELSE fut[i].st
  BY CancelledArms, Zenon DEF Losers
<1>m. t = "main" => self = "running"
  BY <1>t, Zenon DEF SelectInv, SelfState
<1>w. winner \in ArmSet
  BY <1>t, Zenon DEF SelTypes, TypeOK
<1>c. Closed'
  BY <1>t, <1>f DEF Closed
<1>1. SelTypes'
  BY <1>t, <1>f, <1>q, <1>j, Zenon DEF SelTypes, TypeOK, TodoTypes
<1>2. Holding'
  BY <1>t, <1>b, <1>f, <1>q, <1>j, <1>m, <1>w, <1>c, ThreadNames, Zenon DEF SelectInv, Holding
<1>3. OpenArms'
  BY <1>t, <1>b, <1>f, <1>q, <1>j, <1>m, <1>w, <1>c, ThreadNames, Zenon DEF SelectInv, Holding, OpenArms, OpenState, ClosedArms, Closed
<1>4. ClosedArms'
  BY <1>t, <1>b, <1>f, <1>q, <1>j, <1>m, <1>w, <1>c, ThreadNames, ZenonT(30) DEF SelectInv, Holding, OpenArms, OpenState, ClosedArms, Closed
<1>5. Cancelling'
  BY <1>t, <1>b, <1>f, <1>q, <1>j, <1>m, <1>w, <1>c, ThreadNames, Zenon DEF SelectInv, Holding, ClosedArms, Cancelling, Closed
<1>6. SelfState'
  BY <1>t, <1>b, <1>f, <1>q, <1>j, <1>m, <1>w, <1>c, ThreadNames, Zenon DEF SelectInv, Holding, OpenArms, OpenState, ClosedArms, Cancelling, SelfState, Closed, AllOver
<1> QED
  BY <1>1, <1>2, <1>3, <1>4, <1>5, <1>6 DEF SelectInv

LEMMA StopKeeps ==
    ASSUME SelectAssumption, SelectInv, NEW t \in Threads, Stop(t)
    PROVE  SelectInv'
<1>t. SelTypes /\ PcTypes /\ pc[t] = "stop" /\ lock = Nobody
  BY Zenon DEF SelectInv, SelTypes, Stop
<1>f. UNCHANGED <<winner, self, cancelReq, fut, todo, biased, ready, nodes, taskNodes, jobs, lock>>
  BY Zenon DEF Stop, Stopped, setVars, selfVars, sourceVars, wakeVars, bounds
<1>b. t \in {"main", "abort"} /\ "arms" \in LabelsOf(t)
  BY <1>t, PlaceOwners, Zenon DEF LabelsOf, MainLabels, AbortLabels
<1>q. /\ PcTypes' /\ pc'[t] = "arms" /\ \A u \in Threads \ {t} : pc'[u] = pc[u]
  BY <1>t, <1>b, PcStep DEF Stop
<1>s. state' = IF state = "pending" THEN "stopped" ELSE state
  BY DEF Stop, Stopped
<1>1. SelTypes'
  BY <1>t, <1>f, <1>q, <1>s, Zenon DEF SelTypes, TypeOK, TodoTypes
<1>2. Holding'
  BY <1>t, <1>b, <1>f, <1>q, <1>s, ThreadNames, Zenon DEF SelectInv, Holding
<1>3. OpenArms'
  BY <1>t, <1>b, <1>f, <1>q, <1>s, ThreadNames, Zenon DEF SelectInv, Holding, OpenArms, OpenState, ClosedArms, Closed
<1>4. ClosedArms'
  BY <1>t, <1>b, <1>f, <1>q, <1>s, ThreadNames DEF SelectInv, Holding, OpenArms, OpenState, ClosedArms, Closed
<1>5. Cancelling'
  BY <1>t, <1>b, <1>f, <1>q, <1>s, ThreadNames, Zenon DEF SelectInv, Holding, ClosedArms, Cancelling, Closed
<1>6. SelfState'
  BY <1>t, <1>b, <1>f, <1>q, <1>s, ThreadNames DEF SelectInv, Holding, OpenArms, OpenState, ClosedArms, Cancelling, SelfState, Closed, AllOver
<1> QED
  BY <1>1, <1>2, <1>3, <1>4, <1>5, <1>6 DEF SelectInv

LEMMA CancelArmsKeeps ==
    ASSUME SelectAssumption, SelectInv, NEW t \in Threads, CancelArms(t)
    PROVE  SelectInv'
<1>t. SelTypes /\ PcTypes /\ pc[t] = "arms" /\ Closed
  BY Zenon DEF SelectInv, SelTypes, Cancelling, CancelArms
<1>f. UNCHANGED <<state, winner, cancelReq, todo, biased, ready, nodes, taskNodes, jobs, lock>>
  BY DEF CancelArms, Stopped, setVars, selfVars, sourceVars, wakeVars, bounds
<1>s. self' = IF t = "main" THEN "failed" ELSE self
  BY DEF CancelArms
<1>b. t \in {"main", "abort"} /\ "done" \in LabelsOf(t)
  BY <1>t, PlaceOwners, Zenon DEF LabelsOf, MainLabels, AbortLabels
<1>q. /\ PcTypes' /\ pc'[t] = "done" /\ \A u \in Threads \ {t} : pc'[u] = pc[u]
  BY <1>t, <1>b, PcStep, Zenon DEF CancelArms
<1>j. /\ fut' \in [ArmSet -> [st : {"pending", "running", "complete", "failed"}, stage : Nat]]
      /\ \A i \in ArmSet :
             /\ fut'[i].stage = fut[i].stage
             /\ fut'[i].st = IF fut[i].st = "pending" THEN "failed" ELSE fut[i].st
  <2>1. \A i \in ArmSet : i # NoArm
    BY DEF ArmSet, NoArm
  <2> QED
    BY <2>1, CancelledArms DEF CancelArms
<1>c. Closed'
  BY <1>t, <1>f, Zenon DEF Closed
<1>w. state = "won" => winner \in ArmSet
  BY <1>t, Zenon DEF SelTypes, TypeOK
<1>o. AllOver'
  <2>1. \A i \in ArmSet : fut[i].st \in {"pending", "complete", "failed"}
    BY <1>t DEF SelectInv, ClosedArms, SelTypes, TypeOK
  <2> QED
    BY <1>j, <2>1, Zenon DEF AllOver
<1>1. SelTypes'
  BY <1>t, <1>f, <1>s, <1>q, <1>j, Zenon DEF SelTypes, TypeOK, TodoTypes
<1>2. Holding'
  BY <1>t, <1>b, <1>f, <1>s, <1>q, <1>j, <1>c, <1>w, <1>o, ThreadNames, Zenon DEF SelectInv, Holding
<1>3. OpenArms'
  BY <1>t, <1>b, <1>f, <1>s, <1>q, <1>j, <1>c, <1>w, <1>o, ThreadNames, Zenon DEF SelectInv, Holding, OpenArms, OpenState, ClosedArms, Closed
<1>4. ClosedArms'
  BY <1>t, <1>b, <1>f, <1>s, <1>q, <1>j, <1>c, <1>w, <1>o, ThreadNames, Zenon DEF SelectInv, Holding, OpenArms, OpenState, ClosedArms, Closed
<1>5. Cancelling'
  BY <1>t, <1>b, <1>f, <1>s, <1>q, <1>j, <1>c, <1>w, <1>o, ThreadNames, Zenon DEF SelectInv, Holding, ClosedArms, Cancelling, Closed
<1>6. SelfState'
  BY <1>t, <1>b, <1>f, <1>s, <1>q, <1>j, <1>c, <1>w, <1>o, ThreadNames DEF SelectInv, Holding, OpenArms, OpenState, ClosedArms, Cancelling, SelfState, Closed, AllOver
<1> QED
  BY <1>1, <1>2, <1>3, <1>4, <1>5, <1>6 DEF SelectInv

LEMMA WakeArmKeeps ==
    ASSUME SelectAssumption, SelectInv, NEW w \in Workers, WakeArm(w)
    PROVE  SelectInv'
<1>t. SelTypes /\ PcTypes /\ TodoTypes /\ pc[w] = "idle" /\ w \in Threads
  BY ThreadNames, Zenon DEF SelectInv, SelTypes, WakeArm
<1>f. UNCHANGED <<winner, self, cancelReq, fut, biased, ready, nodes, taskNodes, lock>>
  BY Zenon DEF WakeArm, Stopped, setVars, selfVars, sourceVars, wakeVars, bounds
<1>b. w \notin {"main", "abort"} /\ lock # w /\ "lock" \in LabelsOf(w)
  BY <1>t, PlaceOwners DEF LabelsOf, WorkerLabels, SelectInv, Holding
<1>p. PICK i \in ArmSet :
          /\ jobs[i] > 0 /\ jobs' = [jobs EXCEPT ![i] = @ - 1]
          /\ \/ pc' = pc /\ todo' = todo /\ state' = state
             \/ /\ state = "pending" /\ state' = state /\ Goto(w, "lock")
                /\ todo' = [todo EXCEPT ![w] = IF biased THEN [k \in ArmSet |-> k] ELSE <<i>>]
             \/ /\ pc' = pc /\ todo' = todo
                /\ state' = IF state = "pending" THEN "stopped" ELSE state
  BY Zenon DEF WakeArm, Stopped
<1>n. jobs' \in [ArmSet -> Nat]
  <2>1. jobs \in [ArmSet -> Nat]
    BY <1>t, Zenon DEF SelTypes, TypeOK
  <2> QED
    BY <1>p, <2>1, SMTT(30)
<1>a. LET q == IF biased THEN [k \in ArmSet |-> k] ELSE <<i>>
      IN  q \in Seq(ArmSet) /\ q # <<>>
  BY ArmOrder, <1>p, Zenon
<1>q. /\ PcTypes' /\ TodoTypes' /\ \A u \in Threads \ {w} : pc'[u] = pc[u] /\ todo'[u] = todo[u]
      /\ \/ pc'[w] = pc[w] /\ todo'[w] = todo[w]
         \/ pc'[w] = "lock" /\ todo'[w] # <<>> /\ state' = state
  <2>1. CASE pc' = pc /\ todo' = todo
    BY <1>t, <2>1, Zenon DEF PcTypes, TodoTypes
  <2>2. CASE /\ Goto(w, "lock") /\ state' = state
             /\ todo' = [todo EXCEPT ![w] = IF biased THEN [k \in ArmSet |-> k] ELSE <<i>>]
    <3> DEFINE q == IF biased THEN [k \in ArmSet |-> k] ELSE <<i>>
    <3>1. q \in Seq(ArmSet) /\ q # <<>>
      BY <1>a
    <3>2. todo' = [todo EXCEPT ![w] = q]
      BY <2>2
    <3> HIDE DEF q
    <3>3. TodoTypes' /\ todo'[w] = q /\ \A u \in Threads \ {w} : todo'[u] = todo[u]
      BY <1>t, <3>1, <3>2, TodoStep, Zenon
    <3>4. PcTypes' /\ pc'[w] = "lock" /\ \A u \in Threads \ {w} : pc'[u] = pc[u]
      BY <1>t, <1>b, <2>2, PcStep
    <3> QED
      BY <2>2, <3>1, <3>3, <3>4
  <2> QED
    BY <1>p, <2>1, <2>2
<1>s. state' \in {state, "stopped"} /\ (state # "pending" => state' = state)
  BY <1>p, Zenon
<1>1. SelTypes'
  BY <1>t, <1>f, <1>s, <1>n, <1>q DEF SelTypes, TypeOK
<1>2. Holding'
  BY <1>t, <1>b, <1>f, <1>s, <1>q, ThreadNames, Zenon DEF SelectInv, Holding
<1>3. OpenArms'
  <2>1. lock \in Threads \cup {Nobody}
    BY <1>t, Zenon DEF SelTypes, TypeOK
  <2>2. \A k \in ArmSet : OpenState(k)' = OpenState(k)
    BY <1>f, <1>q, <1>b, <2>1, ThreadNames DEF OpenState
  <2>3. ~Closed' => ~Closed
    BY <1>f, <1>s, Zenon DEF Closed
  <2> QED
    BY <1>f, <2>2, <2>3 DEF SelectInv, OpenArms
<1>4. ClosedArms'
  BY <1>t, <1>b, <1>f, <1>s, <1>q, ThreadNames, Zenon DEF SelectInv, Holding, OpenArms, OpenState, ClosedArms, Closed
<1>5. Cancelling'
  BY <1>t, <1>b, <1>f, <1>s, <1>q, ThreadNames, Zenon DEF SelectInv, Holding, ClosedArms, Cancelling, Closed
<1>6. SelfState'
  BY <1>t, <1>b, <1>f, <1>s, <1>q, ThreadNames DEF SelectInv, Holding, OpenArms, OpenState, ClosedArms, Cancelling, SelfState, Closed, AllOver
<1> QED
  BY <1>1, <1>2, <1>3, <1>4, <1>5, <1>6, Zenon DEF SelectInv

LEMMA RunKeeps ==
    ASSUME SelectAssumption, SelectInv, Run
    PROVE  SelectInv'
<1>t. SelTypes /\ PcTypes /\ TodoTypes /\ pc["main"] = "run" /\ lock # "main"
  BY ThreadNames, Zenon DEF SelectInv, SelTypes, Holding, Run
<1>f. UNCHANGED <<state, winner, cancelReq, fut, biased, ready, nodes, taskNodes, jobs, lock>>
  BY DEF Run, Stopped, setVars, selfVars, sourceVars, wakeVars, bounds
<1>d. /\ Decided \in {"finish", "stop", "lock"}
      /\ Decided = "finish" <=> state = "won"
      /\ Decided = "lock" <=> state = "pending"
  BY <1>t DEF Decided, SelTypes, TypeOK
<1>s. self \in {"pending", "failed"}
  BY <1>t, Zenon DEF SelectInv, SelfState
<1>q. /\ PcTypes' /\ TodoTypes'
      /\ \A u \in Threads \ {"main"} : pc'[u] = pc[u] /\ todo'[u] = todo[u]
      /\ \/ self = "failed" /\ self' = "failed" /\ pc'["main"] = "done"
         \/ self = "pending" /\ self' = "running" /\ pc'["main"] = Decided /\ todo'["main"] # <<>>
  <2>1. CASE self = "failed" /\ Goto("main", "done") /\ UNCHANGED <<self, todo>>
    <3>1. "done" \in LabelsOf("main")
      BY Zenon DEF LabelsOf, MainLabels
    <3> QED
      BY <1>t, <2>1, <3>1, PcStep, ThreadNames DEF TodoTypes
  <2>2. CASE /\ self # "failed" /\ self' = "running" /\ Goto("main", Decided)
             /\ \E k \in IF biased THEN {0} ELSE 0..(Arms - 1) :
                    todo' = [todo EXCEPT !["main"] = [j \in ArmSet |-> ((k + j - 1) % Arms) + 1]]
    <3>1. Decided \in LabelsOf("main")
      BY <1>d, Zenon DEF LabelsOf, MainLabels
    <3>2. PcTypes' /\ pc'["main"] = Decided /\ \A u \in Threads \ {"main"} : pc'[u] = pc[u]
      BY <1>t, <2>2, <3>1, PcStep, ThreadNames
    <3>3. PICK k \in 0..(Arms - 1) :
              todo' = [todo EXCEPT !["main"] = [j \in ArmSet |-> ((k + j - 1) % Arms) + 1]]
      <4>1. 0 \in 0..(Arms - 1)
        BY DEF SelectAssumption
      <4>2. \A k \in IF biased THEN {0} ELSE 0..(Arms - 1) : k \in 0..(Arms - 1)
        BY <4>1, Zenon
      <4> QED
        BY <2>2, <4>2, Zenon
    <3> DEFINE q == [j \in ArmSet |-> ((k + j - 1) % Arms) + 1]
    <3>4. q \in Seq(ArmSet) /\ q # <<>>
      BY RotatedOrder, Zenon
    <3>5. todo' = [todo EXCEPT !["main"] = q]
      BY <3>3
    <3> HIDE DEF q
    <3>6. TodoTypes' /\ todo'["main"] = q /\ \A u \in Threads \ {"main"} : todo'[u] = todo[u]
      BY <1>t, <3>4, <3>5, TodoStep, ThreadNames, Zenon
    <3> QED
      BY <1>s, <2>2, <3>2, <3>4, <3>6
  <2> QED
    BY <2>1, <2>2, Zenon DEF Run
<1>c. lock \in Threads \cup {Nobody}
  BY <1>t, Zenon DEF SelTypes, TypeOK
<1>1. SelTypes'
  BY <1>t, <1>f, <1>q, Zenon DEF SelTypes, TypeOK
<1>2. Holding'
  BY <1>t, <1>f, <1>d, <1>q, ThreadNames, Zenon DEF SelectInv, Holding
<1>3. OpenArms'
  <2>1. \A k \in ArmSet : OpenState(k)' = OpenState(k)
    BY <1>t, <1>f, <1>q, <1>c, Zenon DEF OpenState
  <2> QED
    BY <1>f, <2>1 DEF SelectInv, OpenArms, Closed
<1>4. ClosedArms'
  BY <1>t, <1>f, <1>d, <1>q, ThreadNames, Zenon DEF SelectInv, Holding, OpenArms, OpenState, ClosedArms, Closed
<1>5. Cancelling'
  BY <1>t, <1>f, <1>d, <1>q, ThreadNames, Zenon DEF SelectInv, Holding, ClosedArms, Cancelling, Closed
<1>6. SelfState'
  BY <1>t, <1>f, <1>d, <1>q, ThreadNames, Zenon DEF SelectInv, Holding, OpenArms, OpenState, ClosedArms, Cancelling, SelfState, Closed, AllOver
<1> QED
  BY <1>1, <1>2, <1>3, <1>4, <1>5, <1>6, Zenon DEF SelectInv

LEMMA RecheckKeeps ==
    ASSUME SelectAssumption, SelectInv, Recheck
    PROVE  SelectInv'
<1>t. SelTypes /\ PcTypes /\ TodoTypes /\ pc["main"] = "recheck" /\ lock # "main" /\ self = "running"
  BY ThreadNames, Zenon DEF SelectInv, SelTypes, Holding, SelfState, Recheck
<1>f. UNCHANGED <<state, winner, cancelReq, fut, biased, ready, nodes, taskNodes, jobs, lock>>
  BY DEF Recheck, Stopped, setVars, selfVars, sourceVars, wakeVars, bounds
<1>d. /\ Decided \in {"finish", "stop", "lock"}
      /\ Decided = "finish" <=> state = "won"
      /\ Decided = "lock" <=> state = "pending"
  BY <1>t, Zenon DEF Decided, SelTypes, TypeOK
<1>h. \/ Decided # "lock" /\ Goto("main", Decided) /\ self' = self
      \/ self' = "failed" /\ Goto("main", "stop")
      \/ self' = "pending" /\ Goto("main", "register")
  BY DEF Recheck
<1>l. {Decided, "stop", "register"} \subseteq LabelsOf("main")
  BY <1>d, Zenon DEF LabelsOf, MainLabels
<1>q. /\ PcTypes' /\ \A u \in Threads \ {"main"} : pc'[u] = pc[u]
      /\ \/ pc'["main"] = Decided /\ Decided # "lock" /\ self' = "running"
         \/ pc'["main"] = "stop" /\ self' = "failed"
         \/ pc'["main"] = "register" /\ self' = "pending"
  BY <1>t, <1>h, <1>l, PcStep, ThreadNames
<1>u. TodoTypes' /\ \A u \in Threads \ {"main"} : todo'[u] = todo[u]
  <2> DEFINE q == [i \in ArmSet |-> i]
  <2>1. q \in Seq(ArmSet) /\ todo' = [todo EXCEPT !["main"] = q]
    BY ArmOrder DEF Recheck
  <2> HIDE DEF q
  <2> QED
    BY <1>t, <2>1, TodoStep, ThreadNames, Zenon
<1>c. lock \in Threads \cup {Nobody}
  BY <1>t, Zenon DEF SelTypes, TypeOK
<1>1. SelTypes'
  BY <1>t, <1>f, <1>q, <1>u, Zenon DEF SelTypes, TypeOK
<1>2. Holding'
  BY <1>t, <1>f, <1>d, <1>q, <1>u, ThreadNames DEF SelectInv, Holding
<1>3. OpenArms'
  <2>1. \A k \in ArmSet : OpenState(k)' = OpenState(k)
    BY <1>t, <1>f, <1>q, <1>u, <1>c, Zenon DEF OpenState
  <2> QED
    BY <1>f, <2>1 DEF SelectInv, OpenArms, Closed
<1>4. ClosedArms'
  BY <1>t, <1>f, <1>d, <1>q, <1>u, ThreadNames, Zenon DEF SelectInv, Holding, OpenArms, OpenState, ClosedArms, Closed
<1>5. Cancelling'
  BY <1>t, <1>f, <1>d, <1>q, <1>u, ThreadNames, Zenon DEF SelectInv, Holding, ClosedArms, Cancelling, Closed
<1>6. SelfState'
  BY <1>t, <1>f, <1>d, <1>q, <1>u, ThreadNames, Zenon DEF SelectInv, Holding, OpenArms, OpenState, ClosedArms, Cancelling, SelfState, Closed, AllOver
<1> QED
  BY <1>1, <1>2, <1>3, <1>4, <1>5, <1>6 DEF SelectInv

LEMMA RegisterKeeps ==
    ASSUME SelectAssumption, SelectInv, Register
    PROVE  SelectInv'
<1>t. SelTypes /\ PcTypes /\ TodoTypes /\ pc["main"] = "register" /\ lock # "main" /\ todo["main"] # <<>>
  BY ThreadNames, Zenon DEF SelectInv, SelTypes, Holding, Register
<1> DEFINE i == Head(todo["main"])
           s == <<i, fut[i].stage>>
<1>i. i \in ArmSet /\ Tail(todo["main"]) \in Seq(ArmSet)
  BY <1>t, HeadIsArm, ThreadNames
<1>s. s \in Sources
  BY <1>t, <1>i, SourceParts, Zenon DEF SelTypes, TypeOK
<1>f. UNCHANGED <<state, winner, self, cancelReq, fut, biased, ready, jobs, lock, pc>>
  BY Zenon DEF Register, Stopped, setVars, selfVars, sourceVars, wakeVars, bounds
<1>r. /\ taskNodes' \subseteq taskNodes \cup {s}
      /\ \/ nodes' = nodes
         \/ nodes' = [nodes EXCEPT ![s] = @ + 0]
         \/ nodes' = [nodes EXCEPT ![s] = @ + 1]
  BY Zenon DEF Register
<1>n. nodes' \in [Sources -> Nat] /\ taskNodes' \subseteq Sources
  <2>1. nodes \in [Sources -> Nat] /\ taskNodes \subseteq Sources
    BY <1>t DEF SelTypes, TypeOK
  <2> HIDE DEF s
  <2> QED
    BY <1>r, <1>s, <2>1, SMTT(30)
<1>q. PcTypes' /\ TodoTypes' /\ \A u \in Threads \ {"main"} : todo'[u] = todo[u]
  <2>1. PICK q \in {<<>>, Tail(todo["main"])} : todo' = [todo EXCEPT !["main"] = q]
    BY DEF Register
  <2>2. <<>> \in Seq(ArmSet)
    OBVIOUS
  <2>3. q \in Seq(ArmSet)
    BY <1>i, <2>1, <2>2, Zenon
  <2> QED
    BY <1>t, <1>f, <2>1, <2>3, TodoStep, ThreadNames, Zenon DEF PcTypes
<1> HIDE DEF i, s
<1>c. lock \in Threads \cup {Nobody}
  BY <1>t, Zenon DEF SelTypes, TypeOK
<1>1. SelTypes'
  BY <1>t, <1>f, <1>n, <1>q, SMTT(30) DEF SelTypes, TypeOK
<1>2. Holding'
  BY <1>t, <1>f, <1>q, ThreadNames, Zenon DEF SelectInv, Holding
<1>3. OpenArms'
  <2>1. \A k \in ArmSet : OpenState(k)' = OpenState(k)
    BY <1>t, <1>f, <1>q, <1>c, Zenon DEF OpenState
  <2> QED
    BY <1>f, <2>1 DEF SelectInv, OpenArms, Closed
<1>4. ClosedArms'
  BY <1>t, <1>f, <1>q, ThreadNames, Zenon DEF SelectInv, Holding, OpenArms, OpenState, ClosedArms, Closed
<1>5. Cancelling'
  BY <1>t, <1>f, <1>q, ThreadNames, Zenon DEF SelectInv, Holding, ClosedArms, Cancelling, Closed
<1>6. SelfState'
  BY <1>t, <1>f, <1>q, ThreadNames DEF SelectInv, Holding, OpenArms, OpenState, ClosedArms, Cancelling, SelfState, Closed, AllOver
<1> QED
  BY <1>1, <1>2, <1>3, <1>4, <1>5, <1>6 DEF SelectInv

LEMMA RegisteredKeeps ==
    ASSUME SelectAssumption, SelectInv, Registered
    PROVE  SelectInv'
<1>t. SelTypes /\ PcTypes /\ pc["main"] = "register" /\ self \in {"pending", "failed"}
  BY Zenon DEF SelectInv, SelTypes, SelfState, Registered
<1>f. UNCHANGED <<state, winner, self, cancelReq, fut, todo, biased, ready, nodes, taskNodes, jobs, lock>>
  BY Zenon DEF Registered, Stopped, setVars, selfVars, sourceVars, wakeVars, bounds
<1>h. PICK l \in {"run", "wait"} : Goto("main", l)
  BY Zenon DEF Registered
<1>q. /\ PcTypes' /\ pc'["main"] \in {"run", "wait"} /\ \A u \in Threads \ {"main"} : pc'[u] = pc[u]
  <2>1. l \in LabelsOf("main")
    BY <1>h, Zenon DEF LabelsOf, MainLabels
  <2> QED
    BY <1>t, <1>h, <2>1, PcStep, ThreadNames
<1>1. SelTypes'
  BY <1>t, <1>f, <1>q DEF SelTypes, TypeOK, TodoTypes
<1>2. Holding'
  BY <1>t, <1>f, <1>q, ThreadNames, Zenon DEF SelectInv, Holding
<1>3. OpenArms'
  <2>1. lock \in Threads \cup {Nobody} /\ lock # "main"
    BY <1>t, ThreadNames DEF SelTypes, TypeOK, SelectInv, Holding
  <2>2. \A k \in ArmSet : OpenState(k)' = OpenState(k)
    BY <1>t, <1>f, <1>q, <2>1, Zenon DEF OpenState
  <2> QED
    BY <1>f, <2>2, Zenon DEF SelectInv, OpenArms, Closed
<1>4. ClosedArms'
  BY <1>t, <1>f, <1>q, ThreadNames, Zenon DEF SelectInv, Holding, OpenArms, OpenState, ClosedArms, Closed
<1>5. Cancelling'
  BY <1>t, <1>f, <1>q, ThreadNames, Zenon DEF SelectInv, Holding, ClosedArms, Cancelling, Closed
<1>6. SelfState'
  BY <1>t, <1>f, <1>q, ThreadNames DEF SelectInv, Holding, OpenArms, OpenState, ClosedArms, Cancelling, SelfState, Closed, AllOver
<1> QED
  BY <1>1, <1>2, <1>3, <1>4, <1>5, <1>6 DEF SelectInv

LEMMA WaitKeeps ==
    ASSUME SelectAssumption, SelectInv, Wait
    PROVE  SelectInv'
<1>t. SelTypes /\ PcTypes /\ pc["main"] = "wait" /\ self \in {"pending", "failed"}
  BY Zenon DEF SelectInv, SelTypes, SelfState, Wait
<1>f. UNCHANGED <<state, winner, self, cancelReq, fut, todo, biased, ready, nodes, taskNodes, jobs, lock>>
  BY DEF Wait, Stopped, setVars, selfVars, sourceVars, wakeVars, bounds
<1>h. PICK l \in {"run"} : Goto("main", l)
  BY Zenon DEF Wait
<1>q. /\ PcTypes' /\ pc'["main"] \in {"run"} /\ \A u \in Threads \ {"main"} : pc'[u] = pc[u]
  <2>1. l \in LabelsOf("main")
    BY <1>h, Zenon DEF LabelsOf, MainLabels
  <2> QED
    BY <1>t, <1>h, <2>1, PcStep, ThreadNames
<1>1. SelTypes'
  BY <1>t, <1>f, <1>q DEF SelTypes, TypeOK, TodoTypes
<1>2. Holding'
  BY <1>t, <1>f, <1>q, ThreadNames, Zenon DEF SelectInv, Holding
<1>3. OpenArms'
  <2>1. lock \in Threads \cup {Nobody} /\ lock # "main"
    BY <1>t, ThreadNames DEF SelTypes, TypeOK, SelectInv, Holding
  <2>2. \A k \in ArmSet : OpenState(k)' = OpenState(k)
    BY <1>t, <1>f, <1>q, <2>1, Zenon DEF OpenState
  <2> QED
    BY <1>f, <2>2, Zenon DEF SelectInv, OpenArms, Closed
<1>4. ClosedArms'
  BY <1>t, <1>f, <1>q, ThreadNames, Zenon DEF SelectInv, Holding, OpenArms, OpenState, ClosedArms, Closed
<1>5. Cancelling'
  BY <1>t, <1>f, <1>q, ThreadNames, Zenon DEF SelectInv, Holding, ClosedArms, Cancelling, Closed
<1>6. SelfState'
  BY <1>t, <1>f, <1>q, ThreadNames, Zenon DEF SelectInv, Holding, OpenArms, OpenState, ClosedArms, Cancelling, SelfState, Closed, AllOver
<1> QED
  BY <1>1, <1>2, <1>3, <1>4, <1>5, <1>6, Zenon DEF SelectInv

LEMMA FinishKeeps ==
    ASSUME SelectAssumption, SelectInv, Finish
    PROVE  SelectInv'
<1>t. /\ SelTypes /\ PcTypes /\ pc["main"] = "finish" /\ self = "running"
      /\ state = "won" /\ Closed /\ fut[winner].st = "complete"
  BY ThreadNames DEF SelectInv, SelTypes, Cancelling, ClosedArms, SelfState, Finish
<1>f. UNCHANGED <<state, winner, cancelReq, todo, biased, ready, nodes, taskNodes, jobs, lock>>
  BY Zenon DEF Finish, Stopped, setVars, selfVars, sourceVars, wakeVars, bounds
<1>h. \/ Goto("main", "stop") /\ self' = "failed"
      \/ Goto("main", "done") /\ self' = "complete"
  BY <1>t, Zenon DEF Finish
<1>q. /\ PcTypes' /\ \A u \in Threads \ {"main"} : pc'[u] = pc[u]
      /\ \/ pc'["main"] = "stop" /\ self' = "failed"
         \/ pc'["main"] = "done" /\ self' = "complete"
  <2>1. {"stop", "done"} \subseteq LabelsOf("main")
    BY Zenon DEF LabelsOf, MainLabels
  <2> QED
    BY <1>t, <1>h, <2>1, PcStep, ThreadNames
<1>j. /\ fut' \in [ArmSet -> [st : {"pending", "running", "complete", "failed"}, stage : Nat]]
      /\ \A i \in ArmSet :
             /\ fut'[i].stage = fut[i].stage
             /\ fut'[i].st = IF i # winner /\ fut[i].st = "pending" THEN "failed" ELSE fut[i].st
  BY CancelledArms, Zenon DEF Finish
<1>w. winner \in ArmSet
  BY <1>t, Zenon DEF SelTypes, TypeOK
<1>c. Closed'
  BY <1>t, <1>f DEF Closed
<1>o. AllOver'
  <2>1. \A i \in ArmSet : fut[i].st \in {"pending", "complete", "failed"}
    BY <1>t, Zenon DEF SelectInv, ClosedArms, SelTypes, TypeOK
  <2> QED
    BY <1>t, <1>j, <2>1, Zenon DEF AllOver
<1>1. SelTypes'
  BY <1>t, <1>f, <1>q, <1>j, Zenon DEF SelTypes, TypeOK, TodoTypes
<1>2. Holding'
  BY <1>t, <1>f, <1>q, <1>j, <1>w, <1>c, <1>o, ThreadNames, Zenon DEF SelectInv, Holding
<1>3. OpenArms'
  BY <1>t, <1>f, <1>q, <1>j, <1>w, <1>c, <1>o, ThreadNames, Zenon DEF SelectInv, Holding, OpenArms, OpenState, ClosedArms, Closed
<1>4. ClosedArms'
  BY <1>t, <1>f, <1>q, <1>j, <1>w, <1>c, <1>o, ThreadNames, ZenonT(30) DEF SelectInv, Holding, OpenArms, OpenState, ClosedArms, Closed
<1>5. Cancelling'
  BY <1>t, <1>f, <1>q, <1>j, <1>w, <1>c, <1>o, ThreadNames, Zenon DEF SelectInv, Holding, ClosedArms, Cancelling, Closed
<1>6. SelfState'
  BY <1>t, <1>f, <1>q, <1>j, <1>w, <1>c, <1>o, ThreadNames, Zenon DEF SelectInv, Holding, OpenArms, OpenState, ClosedArms, Cancelling, SelfState, Closed, AllOver
<1> QED
  BY <1>1, <1>2, <1>3, <1>4, <1>5, <1>6 DEF SelectInv

LEMMA AbortKeeps ==
    ASSUME SelectAssumption, SelectInv, Abort
    PROVE  SelectInv'
<1>t. SelTypes /\ PcTypes /\ pc["abort"] = "start" /\ lock # "abort"
  BY ThreadNames, Zenon DEF SelectInv, SelTypes, Holding, Abort
<1>f. UNCHANGED <<state, winner, fut, todo, biased, ready, nodes, taskNodes, jobs, lock>>
  BY DEF Abort, Stopped, setVars, selfVars, sourceVars, wakeVars, bounds
<1>h. \/ Goto("abort", "done") /\ self' = self /\ cancelReq' \in BOOLEAN
      \/ /\ self = "pending" /\ self' = "failed" /\ Goto("abort", "stop")
         /\ cancelReq' \in BOOLEAN
  BY <1>t, Zenon DEF Abort, selfVars, SelTypes
<1>q. /\ PcTypes' /\ cancelReq' \in BOOLEAN /\ \A u \in Threads \ {"abort"} : pc'[u] = pc[u]
      /\ \/ pc'["abort"] = "done" /\ self' = self
         \/ pc'["abort"] = "stop" /\ self = "pending" /\ self' = "failed"
  <2>1. {"stop", "done"} \subseteq LabelsOf("abort")
    BY DEF LabelsOf, AbortLabels
  <2> QED
    BY <1>t, <1>h, <2>1, PcStep, ThreadNames
<1>c. lock \in Threads \cup {Nobody}
  BY <1>t, Zenon DEF SelTypes, TypeOK
<1>1. SelTypes'
  BY <1>t, <1>f, <1>q, Zenon DEF SelTypes, TypeOK, TodoTypes
<1>2. Holding'
  BY <1>t, <1>f, <1>q, ThreadNames, Zenon DEF SelectInv, Holding
<1>3. OpenArms'
  <2>1. \A k \in ArmSet : OpenState(k)' = OpenState(k)
    BY <1>t, <1>f, <1>q, <1>c, Zenon DEF OpenState
  <2> QED
    BY <1>f, <2>1 DEF SelectInv, OpenArms, Closed
<1>4. ClosedArms'
  BY <1>t, <1>f, <1>q, ThreadNames, Zenon DEF SelectInv, Holding, OpenArms, OpenState, ClosedArms, Closed
<1>5. Cancelling'
  BY <1>t, <1>f, <1>q, ThreadNames, Zenon DEF SelectInv, Holding, ClosedArms, Cancelling, Closed
<1>6. SelfState'
  BY <1>t, <1>f, <1>q, ThreadNames, Zenon DEF SelectInv, Holding, OpenArms, OpenState, ClosedArms, Cancelling, SelfState, Closed, AllOver
<1> QED
  BY <1>1, <1>2, <1>3, <1>4, <1>5, <1>6 DEF SelectInv

LEMMA SelectInit ==
    ASSUME SelectAssumption, Init
    PROVE  SelectInv
<1> USE DEF SelectAssumption
<1>1. SelTypes
  <2>1. PcTypes
    BY ThreadNames, Zenon DEF Init, PcTypes, LabelsOf, MainLabels, WorkerLabels, AbortLabels
  <2>2. TodoTypes
    BY SMTT(30) DEF Init, TodoTypes
  <2>3. TypeOK
    BY SMTT(30) DEF Init, TypeOK, ArmSet, NoArm
  <2> QED
    BY <2>1, <2>2, <2>3, Zenon DEF SelTypes, Init
<1>2. \A t \in Threads : pc[t] \in {"run", "start", "idle"}
  BY Zenon DEF Init
<1>3. pc["main"] = "run" /\ state = "pending" /\ self = "pending" /\ lock = Nobody
  BY ThreadNames, Zenon DEF Init
<1>4. \A i \in ArmSet : fut[i].st = "pending"
  BY Zenon DEF Init
<1> QED
  BY <1>1, <1>2, <1>3, <1>4, ThreadNames, Zenon
  DEF SelectInv, Holding, OpenArms, OpenState, ClosedArms, Cancelling, SelfState, Closed

LEMMA SelectStep ==
    ASSUME SelectAssumption, SelectInv, [Next]_vars
    PROVE  SelectInv'
<1>1. CASE \E s \in Sources : Event(s) \/ Steal(s)
  BY <1>1, EventKeeps, StealKeeps, Zenon
<1>2. CASE \E t \in Threads : Step(t)
  BY <1>2, LockKeeps, PollBeginKeeps, PollEndKeeps, RearmKeeps, ClaimKeeps, LosersKeeps,
     StopKeeps, CancelArmsKeeps DEF Step
<1>3. CASE \E w \in Workers : WakeArm(w)
  BY <1>3, WakeArmKeeps
<1>4. CASE Drive
  BY <1>4, RunKeeps, RecheckKeeps, RegisterKeeps, RegisteredKeeps, WaitKeeps, FinishKeeps
  DEF Drive
<1>5. CASE Abort
  BY <1>5, AbortKeeps
<1>6. CASE UNCHANGED vars
  BY <1>6, ZenonT(30) DEF vars, SelectInv, SelTypes, PcTypes, TodoTypes, TypeOK, Holding, OpenArms,
     OpenState, ClosedArms, Cancelling, SelfState, Closed, AllOver
<1> QED
  BY <1>1, <1>2, <1>3, <1>4, <1>5, <1>6 DEF Next

LEMMA SelectSafe ==
    ASSUME SelectAssumption, SelectInv
    PROVE  OneArmWins
<1>1. SelTypes /\ TypeOK
  BY DEF SelectInv, SelTypes
<1>2. OneArmCompletes
  <2>1. CASE Closed
    BY <2>1, Zenon DEF SelectInv, ClosedArms, OneArmCompletes
  <2>2. CASE ~Closed
    BY <2>2, Zenon DEF SelectInv, OpenArms, OpenState, OneArmCompletes
  <2> QED
    BY <2>1, <2>2
<1>3. NeverCancelRunning
  <2> SUFFICES ASSUME NEW t \in Threads
               PROVE  /\ pc[t] = "poll" => fut[Head(todo[t])].st = "pending"
                      /\ pc[t] \in {"losers", "arms", "finish"} => \A i \in ArmSet : fut[i].st # "running"
    BY Zenon DEF NeverCancelRunning
  <2>1. CASE pc[t] = "poll"
    <3>1. lock = t /\ lock # Nobody /\ ~Closed /\ Head(todo[t]) \in ArmSet
      BY <2>1, ThreadNames, HeadIsArm, Zenon DEF SelectInv, Holding, Closed
    <3> QED
      BY <2>1, <3>1, Zenon DEF SelectInv, OpenArms, OpenState
  <2>2. CASE pc[t] \in {"losers", "arms", "finish"}
    <3>1. Closed
      BY <2>2, Zenon DEF SelectInv, Cancelling, ClosedArms
    <3> QED
      BY <2>2, <3>1, Zenon DEF SelectInv, ClosedArms
  <2> QED
    BY <2>1, <2>2
<1>4. LosersEnd
  <2>1. ASSUME pc["main"] = "done", pc["abort"] \in {"start", "done"}
        PROVE  AllOver /\ (self = "complete" => fut[winner].st = "complete")
    BY <2>1 DEF SelectInv, SelfState, ClosedArms
  <2> QED
    BY <1>1, <2>1, Zenon DEF LosersEnd, AllOver
<1> QED
  BY <1>2, <1>3, <1>4 DEF OneArmWins

\* A select runs one arm at most to its end, never cancels an arm while it is
\* polled, and when it is over the winner is complete and every other arm is
\* cancelled: for any arms and sources, dispatch threads, stolen events, failed
\* attachments and aborts (async.c, ciel_select_wake_arm, ciel_select_record_winner
\* and ciel_select_finish_stop).
THEOREM OneArmTheorem == Spec => []OneArmWins
<1>1. Init => SelectInv
  BY SelectConstants, SelectInit
<1>2. SelectInv /\ [Next]_vars => SelectInv'
  BY SelectConstants, SelectStep
<1>3. SelectInv => OneArmWins
  BY SelectConstants, SelectSafe
<1> QED
  BY <1>1, <1>2, <1>3, PTL DEF Spec
=============================================================================
