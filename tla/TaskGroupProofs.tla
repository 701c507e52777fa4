--------------------------- MODULE TaskGroupProofs ---------------------------
(***************************************************************************)
(* Proofs about TaskGroup for any tasks, any registrations of them, any    *)
(* users and any roles.                                                    *)
(***************************************************************************)
EXTENDS TaskGroup, SequenceTheorems, TLAPS

\* Appending to the right operand of a concatenation appends to the whole.
LEMMA AppendRight ==
    ASSUME NEW S, NEW s \in Seq(S), NEW t \in Seq(S), NEW e \in S
    PROVE  s \o Append(t, e) = Append(s \o t, e)
<1>1. <<e>> \in Seq(S) /\ s \o t \in Seq(S)
  OBVIOUS
<1>2. s \o (t \o <<e>>) = (s \o t) \o <<e>>
  BY <1>1, ConcatAssociative
<1>3. Append(t, e) = t \o <<e>> /\ Append(s \o t, e) = (s \o t) \o <<e>>
  BY <1>1, AppendIsConcat, Zenon
<1> QED
  BY <1>2, <1>3, Zenon

\* Moving the head of the right operand to the end of the left one changes
\* nothing.
LEMMA ShiftHead ==
    ASSUME NEW S, NEW s \in Seq(S), NEW t \in Seq(S), t # <<>>
    PROVE  Append(s, Head(t)) \o Tail(t) = s \o t
<1>1. Head(t) \in S /\ Tail(t) \in Seq(S) /\ <<Head(t)>> \in Seq(S)
  OBVIOUS
<1>2. <<Head(t)>> \o Tail(t) = t
  OBVIOUS
<1>3. Append(s, Head(t)) = s \o <<Head(t)>>
  BY <1>1, AppendIsConcat, Zenon
<1>4. (s \o <<Head(t)>>) \o Tail(t) = s \o (<<Head(t)>> \o Tail(t))
  BY <1>1, ConcatAssociative
<1> QED
  BY <1>2, <1>3, <1>4, Zenon

\* Each worker finishes its own task, each rejected registration the task it is
\* about; a registration is rejected only when group_add has returned.
FinisherTasks ==
    /\ \A t \in Tasks : ftask[t] = t
    /\ \A r \in Regs : ftask[r] = TaskOf[r] /\ (rpc[r] # "done" => fin[r] = "none")

\* A task that is being polled is running; whoever finishes a task has seen its
\* future settled, or has left a request that the running poll will find.
FinishersSettle ==
    /\ \A t \in Tasks : /\ fin[t] = "poll" => fstate[t] = "running"
                        /\ tstate[t] # "active" => Settled(t)
    /\ \A f \in Finishers :
           /\ fin[f] = "inspect" => \/ Settled(ftask[f])
                                    \/ fstate[ftask[f]] = "running" /\ cancel_requested[ftask[f]]
           /\ fin[f] \in {"begin", "settle", "commit"} => Settled(ftask[f])
           /\ fin[f] = "poll" => f \in Tasks

\* One finisher takes a task through its two walks.
OneFinisher ==
    /\ \A f \in Finishers : /\ fin[f] = "settle" => tstate[ftask[f]] = "cleaning"
                            /\ fin[f] = "commit" => tstate[ftask[f]] = "finished"
    /\ \A f, g \in Finishers :
           fin[f] \in {"settle", "commit"} /\ fin[g] \in {"settle", "commit"} /\ ftask[f] = ftask[g]
               => f = g
    /\ \A t \in Tasks : tstate[t] = "active" => locked[t] = {}

\* The registrations: what is in the group, on the list of its task, completed.
Registered ==
    /\ added \subseteq Regs /\ tasks = added \ completed
    /\ \A r \in Regs : rpc[r] = "idle" => r \notin added
    /\ \A r \in Regs : rpc[r] = "complete" => r \in added /\ tstate[TaskOf[r]] = "finished"
    /\ \A r \in completed : tstate[TaskOf[r]] = "finished"
    /\ \A r \in added : tstate[TaskOf[r]] # "finished" => r \in twaiters[TaskOf[r]]

\* A registration is flagged as settled exactly when its task had settled, or, in a
\* closed group, had settled when the group was closed.
Flagged ==
    /\ ~closed => SettledNow \ completed = settled \ completed
    /\ closed => atClose \ completed = settled \ completed

Yielded == delivered \o done

\* What was yielded.
Exact ==
    /\ delivered \in Seq(Regs) /\ done \in Seq(completed)
    /\ \A i, j \in DOMAIN Yielded : Yielded[i] = Yielded[j] => i = j
    /\ Range(Yielded) = {r \in completed : closed => r \in atClose}

\* A task that no longer needs a cancel: a stable condition.
Covered(t) == tstate[t] # "active" \/ Settled(t) \/ cancel_requested[t]

\* A rejected registration is about to cancel its task, or has done so.
Rejected ==
    \A r \in Regs \ added : rpc[r] = "done" => fin[r] = "abort" \/ Covered(TaskOf[r])

\* The owner that closed the group cancels the tasks that it found in it.
Owned(u) ==
    /\ upc[u] = "cancelAll" => shutdown = "closed" /\ "shutdown" \in Role[u]
    /\ shutdown = "closed" /\ "shutdown" \in Role[u] =>
           \/ upc[u] = "cancelAll"
           \/ /\ upc[u] = "cancelling"
              /\ \A r \in added : \/ Covered(TaskOf[r]) \/ TaskOf[r] \in todo[u]
                                  \/ fin[u] = "abort" /\ ftask[u] = TaskOf[r]

Shutdown ==
    /\ shutdown \in {"no", "closed", "done"} /\ (shutdown # "no" => closed)
    /\ Rejected /\ \A u \in Users : Owned(u)
    /\ shutdown = "done" => \A r \in added : Covered(TaskOf[r])

\* A join that returned on a closed group found every task finished.
Joined == joined => closed /\ \A r \in added : tstate[TaskOf[r]] = "finished"

GroupInv ==
    /\ TypeOK /\ FinisherTasks /\ FinishersSettle /\ OneFinisher /\ Registered /\ Flagged
    /\ Exact /\ Shutdown /\ Joined

\* Appending to a sequence adds one element to its range ...
LEMMA AppendRange ==
    ASSUME NEW S, NEW s \in Seq(S), NEW e \in S
    PROVE  Range(Append(s, e)) = Range(s) \cup {e}
<1>1. /\ DOMAIN s = 1..Len(s) /\ DOMAIN Append(s, e) = 1..(Len(s) + 1) /\ Len(s) \in Nat
      /\ Append(s, e)[Len(s) + 1] = e
      /\ \A i \in 1..Len(s) : Append(s, e)[i] = s[i]
  OBVIOUS
<1>2. \A i \in 1..(Len(s) + 1) : i \in 1..Len(s) \/ i = Len(s) + 1
  BY <1>1
<1>3. \A i \in 1..Len(s) : i \in 1..(Len(s) + 1)
  BY <1>1
<1>4. Len(s) + 1 \in 1..(Len(s) + 1)
  BY <1>1
<1> QED
  BY <1>1, <1>2, <1>3, <1>4 DEF Range

\* ... and keeps it without repetitions if the element is new.
LEMMA AppendDistinct ==
    ASSUME NEW S, NEW s \in Seq(S), NEW e \in S, e \notin Range(s),
           \A i, j \in DOMAIN s : s[i] = s[j] => i = j
    PROVE  \A i, j \in DOMAIN Append(s, e) : Append(s, e)[i] = Append(s, e)[j] => i = j
<1>1. /\ DOMAIN s = 1..Len(s) /\ DOMAIN Append(s, e) = 1..(Len(s) + 1) /\ Len(s) \in Nat
      /\ Append(s, e)[Len(s) + 1] = e
      /\ \A i \in 1..Len(s) : Append(s, e)[i] = s[i]
  OBVIOUS
<1>2. \A i \in 1..(Len(s) + 1) : i \in 1..Len(s) \/ i = Len(s) + 1
  BY <1>1
<1>3. \A i \in DOMAIN s : s[i] # e
  BY DEF Range
<1>4. ASSUME NEW i \in 1..(Len(s) + 1), NEW j \in 1..(Len(s) + 1), Append(s, e)[i] = Append(s, e)[j]
      PROVE  i = j
  <2>1. CASE i \in 1..Len(s) /\ j \in 1..Len(s)
    BY <1>1, <1>4, <2>1
  <2>2. CASE i = Len(s) + 1 /\ j = Len(s) + 1
    BY <2>2
  <2>3. CASE i \in 1..Len(s) /\ j = Len(s) + 1
    BY <1>1, <1>3, <1>4, <2>3
  <2>4. CASE i = Len(s) + 1 /\ j \in 1..Len(s)
    BY <1>1, <1>3, <1>4, <2>4
  <2> QED
    BY <1>2, <2>1, <2>2, <2>3, <2>4
<1> QED
  BY <1>1, <1>4

FinLabels == {"none", "poll", "abort", "inspect", "begin", "settle", "commit"}
UserLabels == {"idle", "next", "nextPark", "nextParked", "join", "joinPark", "joinParked",
               "cancelAll", "cancelling"}

LEMMA Names ==
    /\ Tasks \subseteq Finishers /\ Regs \subseteq Finishers /\ Users \subseteq Finishers
    /\ \A f \in Finishers : f \in Tasks \/ f \in Regs \/ f \in Users
    /\ \A t \in Tasks : t \notin Regs /\ t \notin Users
    /\ \A r \in Regs : r \notin Users /\ TaskOf[r] \in Tasks
  BY GroupAssumption DEF Finishers

\* One finisher moves.
LEMMA FinStep ==
    ASSUME GroupInv, NEW f \in Finishers, NEW l \in FinLabels, FinAt(f, l)
    PROVE  /\ fin' \in [Finishers -> FinLabels] /\ fin'[f] = l
           /\ \A g \in Finishers \ {f} : fin'[g] = fin[g]
<1>1. fin \in [Finishers -> FinLabels]
  BY DEF GroupInv, TypeOK, FinLabels
<1> QED
  BY <1>1 DEF FinAt

\* One user moves.
LEMMA UserStep ==
    ASSUME GroupInv, NEW u \in Users, NEW l \in UserLabels, UserAt(u, l)
    PROVE  /\ upc' \in [Users -> UserLabels] /\ upc'[u] = l
           /\ \A v \in Users \ {u} : upc'[v] = upc[v]
<1>1. upc \in [Users -> UserLabels]
  BY DEF GroupInv, TypeOK, UserLabels
<1> QED
  BY <1>1 DEF UserAt

LEMMA FinisherTask ==
    ASSUME GroupInv, NEW f \in Finishers
    PROVE  ftask[f] \in Tasks
  BY DEF GroupInv, TypeOK

\* What is yielded is not touched by a step that leaves the sequences alone.
LEMMA ExactFrame ==
    ASSUME GroupInv, UNCHANGED <<delivered, done, completed, closed, atClose>>
    PROVE  Exact'
  BY DEF GroupInv, Exact, Yielded

\* A completion that is popped changes sides.
LEMMA ExactPop ==
    ASSUME GroupInv, PopDone, UNCHANGED <<completed, closed, atClose>>
    PROVE  Exact' /\ done' \in Seq(completed)
<1>1. delivered \in Seq(Regs) /\ done \in Seq(completed) /\ done # <<>> /\ completed \subseteq Regs
  BY DEF GroupInv, Exact, PopDone, TypeOK, Registered
<1>2. done \in Seq(Regs)
  BY <1>1
<1>3. Head(done) \in Regs /\ Tail(done) \in Seq(completed)
  BY <1>1
<1>4. Append(delivered, Head(done)) \o Tail(done) = delivered \o done
  BY <1>1, <1>2, ShiftHead
<1>5. Append(delivered, Head(done)) \in Seq(Regs)
  BY <1>1, <1>3
<1>6. Yielded' = Yielded
  BY <1>4, Zenon DEF Yielded, PopDone
<1> QED
  BY <1>3, <1>5, <1>6 DEF GroupInv, Exact, PopDone

\* A registration that completes is yielded once, if its task had settled in time.
LEMMA ExactComplete ==
    ASSUME GroupInv, NEW r \in added, CompleteTask(r), UNCHANGED <<delivered, closed, settled, atClose>>
    PROVE  Exact' /\ done' \in Seq(completed')
<1>1. CASE r \in completed
  <2>1. UNCHANGED <<completed, done>>
    BY <1>1 DEF CompleteTask
  <2> QED
    BY <2>1, ExactFrame DEF GroupInv, Exact
<1>2. CASE r \notin completed
  <2>1. /\ delivered \in Seq(Regs) /\ done \in Seq(completed) /\ completed \subseteq Regs /\ r \in Regs
        /\ completed' = completed \cup {r}
        /\ done' = IF Enqueues(r) THEN Append(done, r) ELSE done
    BY <1>2 DEF GroupInv, Exact, TypeOK, Registered, CompleteTask
  <2>2. done \in Seq(completed') /\ done \in Seq(Regs)
    BY <2>1
  <2>3. closed => (r \in atClose <=> r \in settled)
    BY <1>2 DEF GroupInv, Flagged
  <2>4. CASE ~Enqueues(r)
    <3>1. closed /\ r \notin atClose /\ Yielded' = Yielded
      BY <2>1, <2>3, <2>4, Zenon DEF Enqueues, Yielded
    <3> QED
      BY <2>1, <2>2, <2>4, <3>1 DEF GroupInv, Exact
  <2>5. CASE Enqueues(r)
    <3> DEFINE y == Yielded
               n == Len(y)
    <3>1. y \in Seq(Regs)
      BY <2>1, <2>2 DEF Yielded
    <3>2. Yielded' = Append(y, r)
      BY <2>1, <2>2, <2>5, AppendRight DEF Yielded
    <3>3. done' \in Seq(completed')
      BY <2>1, <2>2, <2>5
    <3>4. r \notin Range(y)
      BY <1>2 DEF GroupInv, Exact
    <3>5. \A i, j \in DOMAIN y : y[i] = y[j] => i = j
      BY DEF GroupInv, Exact
    <3>6. Range(y) = {s \in completed : closed => s \in atClose}
      BY DEF GroupInv, Exact
    <3> HIDE DEF y
    <3>7. Range(Append(y, r)) = Range(y) \cup {r}
      BY <2>1, <3>1, AppendRange
    <3>8. \A i, j \in DOMAIN Append(y, r) : Append(y, r)[i] = Append(y, r)[j] => i = j
      BY <2>1, <3>1, <3>4, <3>5, AppendDistinct, Zenon
    <3>9. closed => r \in atClose
      BY <2>3, <2>5 DEF Enqueues
    <3>10. Range(Append(y, r)) = {s \in completed' : closed' => s \in atClose'}
      BY <2>1, <3>6, <3>7, <3>9
    <3> QED
      BY <2>1, <3>2, <3>3, <3>8, <3>10 DEF Exact
  <2> QED
    BY <2>4, <2>5
<1> QED
  BY <1>1, <1>2

\* The shutdown is not touched by a step after which every cancel that was to come
\* is still to come, or has done its work.
LEMMA ShutdownFrame ==
    ASSUME GroupInv, UNCHANGED <<shutdown, closed, added, upc, todo, ftask>>,
           \A r \in Regs \ added : rpc'[r] = rpc[r],
           \A x \in Tasks : Covered(x) => Covered(x)',
           \A g \in Finishers, x \in Tasks :
               fin[g] = "abort" /\ ftask[g] = x => fin'[g] = "abort" \/ Covered(x)'
    PROVE  Shutdown'
<1>1. Rejected'
  <2> SUFFICES ASSUME NEW r \in Regs \ added, rpc[r] = "done"
               PROVE  fin'[r] = "abort" \/ Covered(TaskOf[r])'
    BY DEF Rejected
  <2>1. TaskOf[r] \in Tasks /\ r \in Finishers /\ ftask[r] = TaskOf[r]
    BY Names DEF GroupInv, FinisherTasks
  <2>2. fin[r] = "abort" \/ Covered(TaskOf[r])
    BY DEF GroupInv, Shutdown, Rejected
  <2> QED
    BY <2>1, <2>2
<1>2. \A r \in added : TaskOf[r] \in Tasks
  BY Names DEF GroupInv, Registered
<1>3. ASSUME NEW u \in Users PROVE Owned(u)'
  <2>1. Owned(u) /\ u \in Finishers
    BY Names DEF GroupInv, Shutdown
  <2>2. ASSUME NEW r \in added,
               \/ Covered(TaskOf[r]) \/ TaskOf[r] \in todo[u]
               \/ fin[u] = "abort" /\ ftask[u] = TaskOf[r]
        PROVE  \/ Covered(TaskOf[r])' \/ TaskOf[r] \in todo[u]
               \/ fin'[u] = "abort" /\ ftask[u] = TaskOf[r]
    BY <1>2, <2>1, <2>2, Zenon
  <2> QED
    BY <2>1, <2>2 DEF Owned
<1>4. shutdown = "done" => \A r \in added : Covered(TaskOf[r])'
  BY <1>2 DEF GroupInv, Shutdown
<1> QED
  BY <1>1, <1>3, <1>4 DEF GroupInv, Shutdown

\* Each part of the invariant is kept by a step that leaves its variables alone.
LEMMA FinisherTasksFrame ==
    ASSUME GroupInv, UNCHANGED <<ftask, rpc, fin>>
    PROVE  FinisherTasks'
  BY Zenon DEF GroupInv, FinisherTasks

LEMMA FinishersSettleFrame ==
    ASSUME GroupInv, UNCHANGED <<fin, ftask, fstate, tstate, cancel_requested>>
    PROVE  FinishersSettle'
  BY DEF GroupInv, FinishersSettle, Settled

LEMMA OneFinisherFrame ==
    ASSUME GroupInv, UNCHANGED <<fin, ftask, tstate, locked>>
    PROVE  OneFinisher'
  BY DEF GroupInv, OneFinisher

LEMMA RegisteredFrame ==
    ASSUME GroupInv, UNCHANGED <<added, tasks, completed, rpc, tstate, twaiters>>
    PROVE  Registered'
  BY DEF GroupInv, Registered

LEMMA FlaggedFrame ==
    ASSUME GroupInv, UNCHANGED <<closed, added, tstate, locked, completed, settled, atClose>>
    PROVE  Flagged'
<1>1. SettledNow' = SettledNow
  BY DEF SettledNow
<1> QED
  BY <1>1 DEF GroupInv, Flagged

LEMMA JoinedFrame ==
    ASSUME GroupInv, UNCHANGED <<joined, closed, added, tstate>>
    PROVE  Joined'
  BY DEF GroupInv, Joined

\* A finisher that enters neither walk leaves the walks to whom they belong.
LEMMA WalksKept ==
    ASSUME GroupInv, UNCHANGED <<ftask, tstate, locked>>,
           \A g \in Finishers : fin'[g] \in {"settle", "commit"} => fin'[g] = fin[g]
    PROVE  OneFinisher'
<1>1. \A g \in Finishers : ftask[g] \in Tasks
  BY DEF GroupInv, TypeOK
<1> QED
  BY <1>1 DEF GroupInv, OneFinisher

\* The walk over the registrations of a task that is not active gets shorter.
LEMMA WalkShortens ==
    ASSUME GroupInv, UNCHANGED <<fin, ftask, tstate>>,
           \A x \in Tasks : tstate[x] = "active" => locked'[x] = locked[x]
    PROVE  OneFinisher'
  BY DEF GroupInv, OneFinisher

\* A registration that completes is one of a finished task.
LEMMA RegisteredCompletes ==
    ASSUME GroupInv, NEW r \in added, tstate[TaskOf[r]] = "finished",
           completed' = completed \cup {r}, tasks' = tasks \ {r},
           UNCHANGED <<added, tstate, twaiters>>,
           \A s \in Regs : rpc'[s] = rpc[s] \/ (rpc'[s] = "done" /\ rpc[s] # "idle")
    PROVE  Registered'
<1>1. /\ added \subseteq Regs /\ tasks = added \ completed
      /\ \A s \in Regs : rpc[s] = "idle" => s \notin added
      /\ \A s \in Regs : rpc[s] = "complete" => s \in added /\ tstate[TaskOf[s]] = "finished"
      /\ \A s \in completed : tstate[TaskOf[s]] = "finished"
      /\ \A s \in added : tstate[TaskOf[s]] # "finished" => s \in twaiters[TaskOf[s]]
  BY DEF GroupInv, Registered
<1>2. tasks' = added' \ completed'
  BY <1>1
<1>3. \A s \in completed' : tstate'[TaskOf[s]] = "finished"
  BY <1>1
<1>4. \A s \in Regs : /\ rpc'[s] = "idle" => rpc[s] = "idle"
                      /\ rpc'[s] = "complete" => rpc[s] = "complete"
  BY Zenon
<1> QED
  BY <1>1, <1>2, <1>3, <1>4 DEF Registered

\* A task is published: its registrations are those of a finished task.
LEMMA RegisteredPublishes ==
    ASSUME GroupInv, UNCHANGED <<added, tasks, completed, rpc>>,
           \A x \in Tasks : /\ tstate[x] = "finished" => tstate'[x] = "finished"
                            /\ tstate'[x] # "finished" => twaiters'[x] = twaiters[x]
    PROVE  Registered'
<1>1. \A s \in Regs : TaskOf[s] \in Tasks
  BY Names, Zenon
<1>2. added \subseteq Regs /\ completed \subseteq Regs
  BY DEF GroupInv, Registered, TypeOK
<1> QED
  BY <1>1, <1>2 DEF GroupInv, Registered

LEMMA FinisherTasksMove ==
    ASSUME GroupInv, UNCHANGED <<ftask, rpc>>,
           \A g \in Finishers : fin[g] = "none" => fin'[g] = "none" \/ g \in Tasks
    PROVE  FinisherTasks'
<1>1. \A r \in Regs : r \in Finishers /\ r \notin Tasks
  BY Names
<1> QED
  BY <1>1 DEF GroupInv, FinisherTasks

\* A finisher goes on with a task that has settled.
LEMMA FinishersMove ==
    ASSUME GroupInv, UNCHANGED <<ftask, fstate, cancel_requested>>,
           \A g \in Finishers : \/ fin'[g] = fin[g]
                                \/ fin'[g] \in {"none", "abort"}
                                \/ fin'[g] \in {"begin", "settle", "commit"} /\ Settled(ftask[g]),
           \A x \in Tasks : tstate'[x] # "active" => Settled(x)
    PROVE  FinishersSettle'
<1>1. \A x \in Tasks : x \in Finishers
  BY Names
<1>2. \A x : Settled(x)' <=> Settled(x)
  BY Zenon DEF Settled
<1> QED
  BY <1>1, <1>2 DEF GroupInv, FinishersSettle

\* A finisher begins one of the walks over the registrations of its task.
LEMMA WalkBegins ==
    ASSUME GroupInv, NEW f \in Finishers, ftask' = ftask,
           \A g \in Finishers \ {f} : fin'[g] = fin[g],
           \/ fin'[f] = "settle" /\ tstate'[ftask[f]] = "cleaning"
           \/ fin'[f] = "commit" /\ tstate'[ftask[f]] = "finished",
           \A x \in Tasks : x # ftask[f] => tstate'[x] = tstate[x] /\ locked'[x] = locked[x],
           \A g \in Finishers \ {f} : ftask[g] = ftask[f] => fin[g] \notin {"settle", "commit"}
    PROVE  OneFinisher'
<1>1. \A g \in Finishers : ftask[g] \in Tasks
  BY DEF GroupInv, TypeOK
<1>2. \A g \in Finishers : /\ fin'[g] = "settle" => tstate'[ftask[g]] = "cleaning"
                           /\ fin'[g] = "commit" => tstate'[ftask[g]] = "finished"
  BY <1>1 DEF GroupInv, OneFinisher
<1>3. \A x \in Tasks : tstate'[x] = "active" => locked'[x] = {}
  BY DEF GroupInv, OneFinisher
<1>4. \A g, h \in Finishers :
          fin'[g] \in {"settle", "commit"} /\ fin'[h] \in {"settle", "commit"} /\ ftask[g] = ftask[h]
              => g = h
  BY DEF GroupInv, OneFinisher
<1> QED
  BY <1>2, <1>3, <1>4, Zenon DEF OneFinisher

LEMMA CoveredFrame ==
    ASSUME UNCHANGED <<tstate, fstate, cancel_requested>>
    PROVE  \A x : Covered(x)' <=> Covered(x)
  BY Zenon DEF Covered, Settled

LEMMA RejectedFrame ==
    ASSUME GroupInv, UNCHANGED <<tstate, fstate, cancel_requested, added, rpc>>,
           \A r \in Regs : fin'[r] = fin[r]
    PROVE  Rejected'
  BY CoveredFrame DEF GroupInv, Shutdown, Rejected

LEMMA OwnedFrame ==
    ASSUME GroupInv, UNCHANGED <<tstate, fstate, cancel_requested, added, shutdown>>, NEW v \in Users,
           \/ upc'[v] = upc[v]
           \/ upc[v] \notin {"cancelAll", "cancelling"} /\ upc'[v] \notin {"cancelAll", "cancelling"},
           fin'[v] = fin[v], ftask'[v] = ftask[v], todo'[v] = todo[v]
    PROVE  Owned(v)'
<1>1. Owned(v)
  BY DEF GroupInv, Shutdown
<1> QED
  BY <1>1, CoveredFrame DEF Owned
-----------------------------------------------------------------------------
(* The types, in four groups.                                              *)

TaskTypes ==
    /\ tstate \in [Tasks -> {"active", "cleaning", "finished"}]
    /\ fstate \in [Tasks -> {"pending", "running", "complete", "failed"}]
    /\ cancel_requested \in [Tasks -> BOOLEAN]

ListTypes ==
    /\ twaiters \in [Tasks -> SUBSET Regs] /\ locked \in [Tasks -> SUBSET Regs]
    /\ \A t \in Tasks : /\ twaiters[t] \subseteq {r \in added : TaskOf[r] = t}
                        /\ locked[t] \subseteq {r \in added : TaskOf[r] = t}
    /\ tasks \subseteq added \ completed /\ completed \subseteq added /\ settled \subseteq added

QueueTypes ==
    /\ done \in Seq(completed) /\ closed \in BOOLEAN
    /\ waiters \subseteq Users /\ wakes \subseteq Users

PlaceTypes ==
    /\ rpc \in [Regs -> {"idle", "complete", "done"}] /\ upc \in [Users -> UserLabels]
    /\ todo \in [Users -> SUBSET Tasks]
    /\ fin \in [Finishers -> FinLabels] /\ ftask \in [Finishers -> Tasks]

LEMMA TypeGroups ==
    ASSUME GroupInv
    PROVE  TaskTypes /\ ListTypes /\ QueueTypes /\ PlaceTypes
  BY DEF GroupInv, TypeOK, TaskTypes, ListTypes, QueueTypes, PlaceTypes, UserLabels, FinLabels

LEMMA MapTypes ==
    ASSUME GroupInv
    PROVE  /\ tstate \in [Tasks -> {"active", "cleaning", "finished"}]
           /\ locked \in [Tasks -> SUBSET Regs] /\ twaiters \in [Tasks -> SUBSET Regs]
  BY TypeGroups DEF TaskTypes, ListTypes

LEMMA TaskTypesFrame ==
    ASSUME GroupInv, UNCHANGED <<tstate, fstate, cancel_requested>>
    PROVE  TaskTypes'
  BY TypeGroups DEF TaskTypes

LEMMA ListTypesFrame ==
    ASSUME GroupInv, UNCHANGED <<twaiters, locked, added, tasks, completed, settled>>
    PROVE  ListTypes'
  BY TypeGroups DEF ListTypes

LEMMA QueueTypesFrame ==
    ASSUME GroupInv, UNCHANGED <<done, completed, closed, waiters, wakes>>
    PROVE  QueueTypes'
  BY TypeGroups DEF QueueTypes

LEMMA PlaceTypesFrame ==
    ASSUME GroupInv, UNCHANGED <<rpc, upc, todo, fin, ftask>>
    PROVE  PlaceTypes'
  BY TypeGroups, Zenon DEF PlaceTypes

\* The worker of a task begins a poll, or leaves one.
LEMMA FinishersPoll ==
    ASSUME GroupInv, NEW t \in Tasks, UNCHANGED <<ftask, tstate>>, ftask[t] = t,
           \A g \in Finishers \ {t} : fin'[g] = fin[g],
           fin'[t] \in {"poll", "begin", "none"},
           fin'[t] = "poll" => fstate'[t] = "running",
           fin'[t] = "begin" => Settled(t)',
           \A x \in Tasks \ {t} : fstate[x] = "running" => fstate'[x] = "running",
           \A x \in Tasks : Settled(x) => Settled(x)',
           \A x \in Tasks : fstate[x] = "running" /\ cancel_requested[x] =>
               Settled(x)' \/ (fstate'[x] = "running" /\ cancel_requested'[x])
    PROVE  FinishersSettle'
<1>1. \A x \in Tasks : /\ fin'[x] = "poll" => fstate'[x] = "running"
                       /\ tstate[x] # "active" => Settled(x)'
  <2>1. \A x \in Tasks : x \in Finishers
    BY Names, Zenon
  <2> QED
    BY <2>1, Zenon DEF GroupInv, FinishersSettle
<1>2. ASSUME NEW g \in Finishers, NEW x \in Tasks, x = ftask[g]
      PROVE  /\ fin'[g] = "inspect" => \/ Settled(x)'
                                       \/ fstate'[x] = "running" /\ cancel_requested'[x]
             /\ fin'[g] \in {"begin", "settle", "commit"} => Settled(x)'
             /\ fin'[g] = "poll" => g \in Tasks
  BY <1>2, ZenonT(30) DEF GroupInv, FinishersSettle
<1>3. \A g \in Finishers : ftask[g] \in Tasks
  BY FinisherTask, Zenon
<1>4. \A x, y : x = y => (Settled(x)' <=> Settled(y)')
  BY DEF Settled
<1> QED
  BY <1>1, <1>2, <1>3, <1>4, Zenon DEF FinishersSettle

LEMMA PollKeeps ==
    ASSUME GroupInv, NEW t \in Tasks, Poll(t)
    PROVE  GroupInv'
<1>f. UNCHANGED <<tstate, cancel_requested, twaiters, locked, tasks, done, closed, waiters,
  wakes, completed, settled, rpc, upc, todo, ftask, added, delivered, atClose, joined,
  shutdown>>
  BY Zenon DEF Poll, taskVars, groupVars, finVars, history
<1>a. fin[t] = "none" /\ tstate[t] = "active" /\ ftask[t] = t /\ t \in Finishers
  BY Names DEF Poll, GroupInv, FinisherTasks
<1>b. PICK l \in {"poll", "begin"} :
          /\ FinAt(t, l)
          /\ l = "poll" => fstate[t] = "pending" /\ fstate' = [fstate EXCEPT ![t] = "running"]
          /\ l = "begin" => Settled(t) /\ fstate' = fstate
  BY Zenon DEF Poll
<1>c. /\ fin' \in [Finishers -> FinLabels] /\ fin'[t] = l
      /\ \A g \in Finishers \ {t} : fin'[g] = fin[g]
  BY <1>a, <1>b, FinStep, Zenon DEF FinLabels
<1>d. /\ fstate' \in [Tasks -> {"pending", "running", "complete", "failed"}]
      /\ \A x \in Tasks \ {t} : fstate'[x] = fstate[x]
      /\ l = "poll" => fstate[t] = "pending" /\ fstate'[t] = "running"
      /\ l = "begin" => Settled(t) /\ fstate'[t] = fstate[t]
  BY <1>b, SMTT(30) DEF GroupInv, TypeOK
<1>g. \A x \in Tasks : Settled(x) => fstate'[x] = fstate[x]
  BY <1>d DEF Settled
<1>m. \A x \in Tasks : (Settled(x) => Settled(x)') /\ (Covered(x) => Covered(x)')
  BY <1>f, <1>g DEF Settled, Covered
<1>1. Registered' /\ Flagged' /\ Joined'
  BY <1>f, RegisteredFrame, FlaggedFrame, JoinedFrame, Zenon
<1>2. TypeOK'
  <2>1. ListTypes' /\ QueueTypes'
    BY <1>f, ListTypesFrame, QueueTypesFrame, Zenon
  <2>2. TaskTypes'
    BY <1>f, <1>a, <1>b, <1>c, <1>d, <1>g, TypeGroups, Zenon DEF TaskTypes
  <2>3. PlaceTypes'
    BY <1>f, <1>a, <1>b, <1>c, <1>d, <1>g, TypeGroups, Zenon DEF PlaceTypes
  <2> QED
    BY <2>1, <2>2, <2>3
       DEF TypeOK, TaskTypes, ListTypes, QueueTypes, PlaceTypes, UserLabels, FinLabels
<1>3. FinisherTasks'
  BY <1>f, <1>a, <1>c, FinisherTasksMove, Zenon
<1>4. FinishersSettle'
  <2>1. \A x \in Tasks : fstate[x] = "running" => fstate'[x] = "running"
    BY <1>d, Zenon
  <2>2. fin'[t] = "begin" => Settled(t)'
    BY <1>c, <1>d, <1>m, Zenon
  <2> QED
    BY <1>f, <1>a, <1>c, <1>d, <1>m, <2>1, <2>2, FinishersPoll, SMTT(30)
<1>5. OneFinisher'
  BY <1>f, <1>a, <1>c, WalksKept
<1>6. Exact'
  BY <1>f, ExactFrame, Zenon
<1>7. Shutdown'
  BY <1>f, <1>a, <1>c, <1>m, ShutdownFrame
<1> QED
  BY <1>1, <1>2, <1>3, <1>4, <1>5, <1>6, <1>7, Zenon DEF GroupInv

LEMMA PollEndKeeps ==
    ASSUME GroupInv, NEW t \in Tasks, PollEnd(t)
    PROVE  GroupInv'
<1>f. UNCHANGED <<tstate, twaiters, locked, tasks, done, closed, waiters, wakes, completed,
  settled, rpc, upc, todo, ftask, added, delivered, atClose, joined, shutdown>>
  BY Zenon DEF PollEnd, taskVars, groupVars, finVars, history
<1>a. /\ fin[t] = "poll" /\ ftask[t] = t /\ t \in Finishers
      /\ fstate[t] = "running" /\ ~Settled(t) /\ tstate[t] = "active"
  BY Names, Zenon DEF PollEnd, GroupInv, FinisherTasks, FinishersSettle, Settled, TypeOK
<1>b. PICK l \in {"begin", "none"} :
          /\ FinAt(t, l)
          /\ \/ l = "begin" /\ \E s \in {"failed", "complete"} : fstate' = [fstate EXCEPT ![t] = s]
             \/ l = "none" /\ fstate' = [fstate EXCEPT ![t] = "pending"] /\ ~cancel_requested[t]
          /\ \/ cancel_requested' = cancel_requested
             \/ cancel_requested' = [cancel_requested EXCEPT ![t] = FALSE]
  BY Zenon DEF PollEnd
<1>c. /\ fin' \in [Finishers -> FinLabels] /\ fin'[t] = l
      /\ \A g \in Finishers \ {t} : fin'[g] = fin[g]
  BY <1>a, <1>b, FinStep DEF FinLabels
<1>d. /\ fstate' \in [Tasks -> {"pending", "running", "complete", "failed"}]
      /\ \A x \in Tasks \ {t} : fstate'[x] = fstate[x]
      /\ l = "begin" => fstate'[t] \in {"failed", "complete"}
      /\ l = "none" => ~cancel_requested[t]
  <2>1. fstate \in [Tasks -> {"pending", "running", "complete", "failed"}]
    BY DEF GroupInv, TypeOK
  <2> QED
    BY <1>b, <2>1, Zenon
<1>e. /\ cancel_requested' \in [Tasks -> BOOLEAN]
      /\ \A x \in Tasks \ {t} : cancel_requested'[x] = cancel_requested[x]
  <2>1. cancel_requested \in [Tasks -> BOOLEAN]
    BY DEF GroupInv, TypeOK
  <2>2. CASE cancel_requested' = cancel_requested
    BY <2>1, <2>2, Zenon
  <2>3. CASE cancel_requested' = [cancel_requested EXCEPT ![t] = FALSE]
    BY <2>1, <2>3
  <2> QED
    BY <1>b, <2>2, <2>3, Zenon
<1>g. cancel_requested[t] => Settled(t)'
  BY <1>b, <1>d DEF Settled
<1>h. l = "begin" => Settled(t)'
  BY <1>d, Zenon DEF Settled
<1>m. \A x \in Tasks : (Settled(x) => Settled(x)') /\ (Covered(x) => Covered(x)')
  BY <1>f, <1>a, <1>d, <1>e, <1>g, Zenon DEF Settled, Covered
<1>1. Registered' /\ Flagged' /\ Joined'
  BY <1>f, RegisteredFrame, FlaggedFrame, JoinedFrame, Zenon
<1>2. TypeOK'
  <2>1. ListTypes' /\ QueueTypes'
    BY <1>f, ListTypesFrame, QueueTypesFrame
  <2>2. TaskTypes'
    BY <1>f, <1>a, <1>c, <1>d, <1>e, <1>g, <1>h, TypeGroups, Zenon DEF TaskTypes
  <2>3. PlaceTypes'
    BY <1>f, <1>a, <1>c, <1>d, <1>e, <1>g, <1>h, TypeGroups, Zenon DEF PlaceTypes
  <2> QED
    BY <2>1, <2>2, <2>3, Zenon
       DEF TypeOK, TaskTypes, ListTypes, QueueTypes, PlaceTypes, UserLabels, FinLabels
<1>3. FinisherTasks'
  BY <1>f, <1>a, <1>c, FinisherTasksMove, Zenon
<1>4. FinishersSettle'
  <2>1. \A x \in Tasks : fstate[x] = "running" /\ cancel_requested[x] =>
            Settled(x)' \/ (fstate'[x] = "running" /\ cancel_requested'[x])
    BY <1>d, <1>e, <1>g
  <2>2. fin'[t] \in {"begin", "none"} /\ (fin'[t] = "begin" => Settled(t)')
    BY <1>c, <1>h
  <2>3. \A x \in Tasks \ {t} : fstate[x] = "running" => fstate'[x] = "running"
    BY <1>d, Zenon
  <2> QED
    BY <1>f, <1>a, <1>c, <1>m, <2>1, <2>2, <2>3, FinishersPoll, Zenon
<1>5. OneFinisher'
  BY <1>f, <1>a, <1>c, WalksKept
<1>6. Exact'
  BY <1>f, ExactFrame, Zenon
<1>7. Shutdown'
  BY <1>f, <1>a, <1>c, <1>m, ShutdownFrame
<1> QED
  BY <1>1, <1>2, <1>3, <1>4, <1>5, <1>6, <1>7 DEF GroupInv

LEMMA AbortKeeps ==
    ASSUME GroupInv, NEW f \in Finishers, Abort(f)
    PROVE  GroupInv'
<1>f. UNCHANGED <<tstate, twaiters, locked, tasks, done, closed, waiters, wakes, completed,
  settled, rpc, upc, todo, ftask, added, delivered, atClose, joined, shutdown>>
  BY Zenon DEF Abort, taskVars, groupVars, finVars, history
<1> DEFINE t == ftask[f]
<1>a. fin[f] = "abort" /\ t \in Tasks
  BY FinisherTask, Zenon DEF Abort
<1>b. /\ FinAt(f, "inspect")
      /\ \/ /\ fstate[t] = "running" /\ fstate' = fstate
            /\ cancel_requested' = [cancel_requested EXCEPT ![t] = TRUE]
         \/ /\ fstate[t] = "pending" /\ fstate' = [fstate EXCEPT ![t] = "failed"]
            /\ cancel_requested' = cancel_requested
         \/ Settled(t) /\ fstate' = fstate /\ cancel_requested' = cancel_requested
  BY Zenon DEF Abort
<1> HIDE DEF t
<1>c. /\ fin' \in [Finishers -> FinLabels] /\ fin'[f] = "inspect"
      /\ \A g \in Finishers \ {f} : fin'[g] = fin[g]
  BY <1>a, <1>b, FinStep DEF FinLabels
<1>d. /\ fstate' \in [Tasks -> {"pending", "running", "complete", "failed"}]
      /\ cancel_requested' \in [Tasks -> BOOLEAN]
  <2>1. fstate \in [Tasks -> {"pending", "running", "complete", "failed"}]
    BY Zenon DEF GroupInv, TypeOK
  <2>2. cancel_requested \in [Tasks -> BOOLEAN]
    BY DEF GroupInv, TypeOK
  <2>3. fstate' \in [Tasks -> {"pending", "running", "complete", "failed"}]
    BY <1>b, <2>1
  <2>4. [cancel_requested EXCEPT ![t] = TRUE] \in [Tasks -> BOOLEAN]
    BY <2>2, Zenon
  <2>5. cancel_requested' \in [Tasks -> BOOLEAN]
    BY <1>b, <2>2, <2>4, Zenon
  <2> QED
    BY <2>3, <2>5, Zenon
<1>e. \A x \in Tasks : /\ fstate[x] = "running" => fstate'[x] = "running"
                       /\ Settled(x) => Settled(x)'
                       /\ cancel_requested[x] => cancel_requested'[x]
  BY <1>a, <1>b, SMTT(30) DEF GroupInv, TypeOK, Settled
<1>g. fstate'[t] \in {"complete", "failed"} \/ (fstate'[t] = "running" /\ cancel_requested'[t])
  BY <1>a, <1>b, SMTT(30) DEF GroupInv, TypeOK, Settled, t
<1>h. \A x \in Tasks : x = t => Covered(x)' /\ (Settled(x)' \/ (fstate'[x] = "running" /\ cancel_requested'[x]))
  BY <1>g, Zenon DEF Covered, Settled
<1>m. \A x \in Tasks : (Settled(x) => Settled(x)') /\ (Covered(x) => Covered(x)')
  BY <1>f, <1>e, Zenon DEF Covered
<1>1. Registered' /\ Flagged' /\ Joined'
  BY <1>f, RegisteredFrame, FlaggedFrame, JoinedFrame, Zenon
<1>2. TypeOK'
  <2>1. ListTypes' /\ QueueTypes'
    BY <1>f, ListTypesFrame, QueueTypesFrame
  <2>2. TaskTypes'
    BY <1>f, <1>a, <1>c, <1>d, <1>e, <1>h, TypeGroups, Zenon DEF TaskTypes
  <2>3. PlaceTypes'
    BY <1>f, <1>a, <1>c, <1>d, <1>e, <1>h, TypeGroups DEF PlaceTypes
  <2> QED
    BY <2>1, <2>2, <2>3, Zenon
       DEF TypeOK, TaskTypes, ListTypes, QueueTypes, PlaceTypes, UserLabels, FinLabels
<1>3. FinisherTasks'
  BY <1>f, <1>a, <1>c, FinisherTasksMove, Zenon
<1>4. FinishersSettle'
  BY <1>f, <1>a, <1>c, <1>e, <1>h, Names, FinisherTask, Zenon DEF GroupInv, FinishersSettle, t
<1>5. OneFinisher'
  BY <1>f, <1>a, <1>c, WalksKept
<1>6. Exact'
  BY <1>f, ExactFrame, Zenon
<1>7. Shutdown'
  BY <1>f, <1>a, <1>c, <1>h, <1>m, ShutdownFrame, Zenon DEF t
<1> QED
  BY <1>1, <1>2, <1>3, <1>4, <1>5, <1>6, <1>7 DEF GroupInv

LEMMA InspectKeeps ==
    ASSUME GroupInv, NEW f \in Finishers, Inspect(f)
    PROVE  GroupInv'
<1>f. UNCHANGED <<tstate, fstate, cancel_requested, twaiters, locked, tasks, done, closed,
  waiters, wakes, completed, settled, rpc, upc, todo, ftask, added, delivered, atClose, joined,
  shutdown>>
  BY Zenon DEF Inspect, taskVars, groupVars, finVars, history
<1>a. fin[f] = "inspect" /\ ftask[f] \in Tasks
  BY FinisherTask, Zenon DEF Inspect
<1>b. PICK l \in {"none", "begin"} : FinAt(f, l) /\ (l = "begin" => fstate[ftask[f]] # "running")
  BY Zenon DEF Inspect
<1>c. /\ fin' \in [Finishers -> FinLabels] /\ fin'[f] = l
      /\ \A g \in Finishers \ {f} : fin'[g] = fin[g]
  BY <1>b, FinStep DEF FinLabels
<1>d. l = "begin" => Settled(ftask[f])
  BY <1>a, <1>b, Zenon DEF GroupInv, FinishersSettle
<1>m. \A x \in Tasks : (Settled(x) => Settled(x)') /\ (Covered(x) => Covered(x)')
  BY <1>f, Zenon DEF Settled, Covered
<1>1. Registered' /\ Flagged' /\ Joined'
  BY <1>f, RegisteredFrame, FlaggedFrame, JoinedFrame, Zenon
<1>2. TypeOK'
  <2>1. TaskTypes' /\ ListTypes' /\ QueueTypes'
    BY <1>f, TaskTypesFrame, ListTypesFrame, QueueTypesFrame, Zenon
  <2>2. PlaceTypes'
    BY <1>f, <1>a, <1>b, <1>c, <1>d, TypeGroups, Zenon DEF PlaceTypes
  <2> QED
    BY <2>1, <2>2
       DEF TypeOK, TaskTypes, ListTypes, QueueTypes, PlaceTypes, UserLabels, FinLabels
<1>3. FinisherTasks'
  BY <1>f, <1>a, <1>c, FinisherTasksMove, Zenon
<1>4. FinishersSettle'
  BY <1>f, <1>a, <1>b, <1>c, <1>d, <1>m, Names, FinisherTask, Zenon DEF GroupInv, FinishersSettle
<1>5. OneFinisher'
  BY <1>f, <1>a, <1>c, WalksKept, Zenon
<1>6. Exact'
  BY <1>f, ExactFrame
<1>7. Shutdown'
  BY <1>f, <1>a, <1>c, <1>m, ShutdownFrame, Zenon
<1> QED
  BY <1>1, <1>2, <1>3, <1>4, <1>5, <1>6, <1>7 DEF GroupInv

LEMMA FinishedKeeps ==
    ASSUME GroupInv, NEW f \in Finishers, Finished(f)
    PROVE  GroupInv'
<1>f. UNCHANGED <<tstate, fstate, cancel_requested, twaiters, locked, tasks, done, closed,
  waiters, wakes, completed, settled, rpc, upc, todo, ftask, added, delivered, atClose, joined,
  shutdown>>
  BY Zenon DEF Finished, taskVars, groupVars, finVars, history
<1>a. fin[f] = "commit" /\ FinAt(f, "none")
  BY Zenon DEF Finished
<1>c. /\ fin' \in [Finishers -> FinLabels] /\ fin'[f] = "none"
      /\ \A g \in Finishers \ {f} : fin'[g] = fin[g]
  BY <1>a, FinStep, Zenon DEF FinLabels
<1>m. \A x \in Tasks : (Settled(x) => Settled(x)') /\ (Covered(x) => Covered(x)')
  BY <1>f, Zenon DEF Settled, Covered
<1>1. Registered' /\ Flagged' /\ Joined'
  BY <1>f, RegisteredFrame, FlaggedFrame, JoinedFrame, Zenon
<1>2. TypeOK'
  <2>1. TaskTypes' /\ ListTypes' /\ QueueTypes'
    BY <1>f, TaskTypesFrame, ListTypesFrame, QueueTypesFrame, Zenon
  <2>2. PlaceTypes'
    BY <1>f, <1>a, <1>c, TypeGroups, Zenon DEF PlaceTypes
  <2> QED
    BY <2>1, <2>2, Zenon
       DEF TypeOK, TaskTypes, ListTypes, QueueTypes, PlaceTypes, UserLabels, FinLabels
<1>3. FinisherTasks'
  BY <1>f, <1>a, <1>c, FinisherTasksMove
<1>4. FinishersSettle'
  BY <1>f, <1>a, <1>c, <1>m, Names, FinisherTask, Zenon DEF GroupInv, FinishersSettle
<1>5. OneFinisher'
  BY <1>f, <1>a, <1>c, WalksKept
<1>6. Exact'
  BY <1>f, ExactFrame, Zenon
<1>7. Shutdown'
  BY <1>f, <1>a, <1>c, <1>m, ShutdownFrame
<1> QED
  BY <1>1, <1>2, <1>3, <1>4, <1>5, <1>6, <1>7 DEF GroupInv

LEMMA FinishBeginKeeps ==
    ASSUME GroupInv, NEW f \in Finishers, FinishBegin(f)
    PROVE  GroupInv'
<1>f. UNCHANGED <<fstate, cancel_requested, twaiters, tasks, done, closed, waiters, wakes,
  completed, settled, rpc, upc, todo, ftask, added, delivered, atClose, joined, shutdown>>
  BY Zenon DEF FinishBegin, taskVars, groupVars, finVars, history
<1> DEFINE t == ftask[f]
<1>a. fin[f] = "begin" /\ t \in Tasks /\ locked[t] = {} /\ Settled(t)
  BY FinisherTask, Zenon DEF FinishBegin, GroupInv, FinishersSettle
<1>b. PICK l \in {"settle", "none"} :
          /\ FinAt(f, l)
          /\ l = "settle" => /\ tstate[t] = "active" /\ tstate' = [tstate EXCEPT ![t] = "cleaning"]
                             /\ locked' = [locked EXCEPT ![t] = twaiters[t]]
          /\ l = "none" => tstate' = tstate /\ locked' = locked
  BY DEF FinishBegin
<1> HIDE DEF t
<1>c. /\ fin' \in [Finishers -> FinLabels] /\ fin'[f] = l
      /\ \A g \in Finishers \ {f} : fin'[g] = fin[g]
  BY <1>b, FinStep, Zenon DEF FinLabels
<1>d. /\ tstate' \in [Tasks -> {"active", "cleaning", "finished"}]
      /\ locked' \in [Tasks -> SUBSET Regs]
      /\ \A x \in Tasks \ {t} : tstate'[x] = tstate[x] /\ locked'[x] = locked[x]
      /\ l = "settle" => tstate[t] = "active" /\ tstate'[t] = "cleaning" /\ locked'[t] = twaiters[t]
      /\ l = "none" => tstate'[t] = tstate[t] /\ locked'[t] = locked[t]
  <2>1. CASE l = "settle"
    BY <1>a, <1>b, <2>1, MapTypes, Zenon
  <2>2. CASE l = "none"
    BY <1>b, <2>2, MapTypes
  <2> QED
    BY <2>1, <2>2, Zenon
<1>m. \A x \in Tasks : (Settled(x) => Settled(x)') /\ (Covered(x) => Covered(x)')
  BY <1>f, <1>a, <1>d, Zenon DEF Settled, Covered
<1>1. TypeOK'
  <2>1. QueueTypes'
    BY <1>f, QueueTypesFrame, Zenon
  <2>2. TaskTypes'
    BY <1>f, <1>a, <1>c, <1>d, TypeGroups, Zenon DEF TaskTypes
  <2>3. ListTypes'
    <3>1. \A x \in Tasks : locked'[x] = locked[x] \/ locked'[x] = twaiters[x]
      BY <1>a, <1>b, <1>d
    <3> QED
      BY <1>f, <1>d, <3>1, TypeGroups, Zenon DEF ListTypes
  <2>4. PlaceTypes'
    BY <1>f, <1>a, <1>c, <1>d, TypeGroups, Zenon DEF PlaceTypes
  <2> QED
    BY <2>1, <2>2, <2>3, <2>4
       DEF TypeOK, TaskTypes, ListTypes, QueueTypes, PlaceTypes, UserLabels, FinLabels
<1>2. FinisherTasks'
  BY <1>f, <1>a, <1>c, FinisherTasksMove, Zenon
<1>3. FinishersSettle'
  <2>1. \A g \in Finishers : \/ fin'[g] = fin[g] \/ fin'[g] \in {"none", "abort"}
                             \/ fin'[g] \in {"begin", "settle", "commit"} /\ Settled(ftask[g])
    BY <1>a, <1>c, Zenon DEF t
  <2>2. \A x \in Tasks : tstate'[x] # "active" => Settled(x)
    BY <1>a, <1>d, Zenon DEF GroupInv, FinishersSettle
  <2> QED
    BY <1>f, <2>1, <2>2, FinishersMove, Zenon
<1>4. OneFinisher'
  <2>1. CASE l = "none"
    <3>1. UNCHANGED <<ftask, tstate, locked>>
      BY <1>f, <1>b, <2>1
    <3>2. \A g \in Finishers : fin'[g] \in {"settle", "commit"} => fin'[g] = fin[g]
      BY <1>c, <2>1, Zenon
    <3> QED
      BY <3>1, <3>2, WalksKept, Zenon
  <2>2. CASE l = "settle"
    <3>1. \A g \in Finishers \ {f} : ftask[g] = ftask[f] => fin[g] \notin {"settle", "commit"}
      BY <1>d, <2>2, Zenon DEF GroupInv, OneFinisher, t
    <3>2. \A x \in Tasks : x # ftask[f] => tstate'[x] = tstate[x] /\ locked'[x] = locked[x]
      BY <1>d, Zenon DEF t
    <3>3. fin'[f] = "settle" /\ tstate'[ftask[f]] = "cleaning"
      BY <1>c, <1>d, <2>2, Zenon DEF t
    <3> QED
      BY <1>f, <1>c, <3>1, <3>2, <3>3, WalkBegins, Zenon
  <2> QED
    BY <2>1, <2>2
<1>5. Registered'
  <2>1. \A x \in Tasks : /\ tstate[x] = "finished" => tstate'[x] = "finished"
                         /\ tstate'[x] # "finished" => twaiters'[x] = twaiters[x]
    BY <1>f, <1>d, Zenon
  <2> QED
    BY <1>f, <2>1, RegisteredPublishes, Zenon
<1>6. Flagged'
  <2>1. \A s \in added : TaskOf[s] \in Tasks /\ (tstate[TaskOf[s]] = "active" => s \in twaiters[TaskOf[s]])
    BY Names DEF GroupInv, Registered
  <2>2. ASSUME NEW s \in added, NEW x \in Tasks, x = TaskOf[s]
        PROVE  (tstate'[x] # "active" /\ ~(tstate'[x] = "cleaning" /\ s \in locked'[x]))
               <=> (tstate[x] # "active" /\ ~(tstate[x] = "cleaning" /\ s \in locked[x]))
    BY <1>d, <2>1, <2>2, Zenon
  <2>3. SettledNow' = SettledNow
    BY <1>f, <2>1, <2>2 DEF SettledNow
  <2> QED
    BY <1>f, <2>3, Zenon DEF GroupInv, Flagged
<1>7. Exact'
  BY <1>f, ExactFrame, Zenon
<1>8. Shutdown'
  BY <1>f, <1>a, <1>c, <1>m, ShutdownFrame
<1>9. Joined'
  BY <1>f, <1>a, <1>b, <1>d, Names, Zenon DEF GroupInv, Joined, Registered
<1> QED
  BY <1>1, <1>2, <1>3, <1>4, <1>5, <1>6, <1>7, <1>8, <1>9, Zenon DEF GroupInv

LEMMA SettleKeeps ==
    ASSUME GroupInv, NEW f \in Finishers, NEW r \in Regs, Settle(f, r)
    PROVE  GroupInv'
<1>f. UNCHANGED <<tstate, fstate, cancel_requested, twaiters, tasks, done, closed, waiters,
  wakes, completed, rpc, upc, todo, fin, ftask, added, delivered, atClose, joined, shutdown>>
  BY Zenon DEF Settle, taskVars, groupVars, finVars, history
<1> DEFINE t == ftask[f]
<1>a. fin[f] = "settle" /\ t \in Tasks /\ r \in locked[t] /\ tstate[t] = "cleaning"
  BY FinisherTask, Zenon DEF Settle, GroupInv, OneFinisher
<1>b. /\ locked' = [locked EXCEPT ![t] = @ \ {r}]
      /\ settled' = IF ~closed /\ r \notin completed THEN settled \cup {r} ELSE settled
  BY Zenon DEF Settle
<1> HIDE DEF t
<1>c. r \in added /\ TaskOf[r] = t /\ r \notin completed
  BY <1>a DEF GroupInv, TypeOK, Registered
<1>d. /\ locked' \in [Tasks -> SUBSET Regs] /\ locked'[t] = locked[t] \ {r}
      /\ \A x \in Tasks \ {t} : locked'[x] = locked[x]
  BY <1>a, <1>b, MapTypes, Zenon
<1>m. \A x \in Tasks : (Settled(x) => Settled(x)') /\ (Covered(x) => Covered(x)')
  BY <1>f, Zenon DEF Settled, Covered
<1>1. FinisherTasks' /\ FinishersSettle' /\ Registered' /\ Joined'
  BY <1>f, FinisherTasksFrame, FinishersSettleFrame, RegisteredFrame, JoinedFrame, Zenon
<1>2. TypeOK'
  <2>1. TaskTypes' /\ QueueTypes' /\ PlaceTypes'
    BY <1>f, TaskTypesFrame, QueueTypesFrame, PlaceTypesFrame, Zenon
  <2>2. ListTypes'
    <3>1. settled' \subseteq added /\ \A x \in Tasks : locked'[x] \subseteq locked[x]
      BY <1>b, <1>c, <1>d, TypeGroups, Zenon DEF ListTypes
    <3> QED
      BY <1>f, <1>d, <3>1, TypeGroups, Zenon DEF ListTypes
  <2> QED
    BY <2>1, <2>2
       DEF TypeOK, TaskTypes, ListTypes, QueueTypes, PlaceTypes, UserLabels, FinLabels
<1>3. OneFinisher'
  BY <1>f, <1>a, <1>d, WalkShortens, Zenon
<1>4. Flagged'
  <2>1. \A s \in added : TaskOf[s] \in Tasks
    BY Names, Zenon DEF GroupInv, Registered
  <2>2. ASSUME NEW s \in added, NEW x \in Tasks, x = TaskOf[s]
        PROVE  (tstate[x] # "active" /\ ~(tstate[x] = "cleaning" /\ s \in locked'[x]))
               <=> (s = r \/ (tstate[x] # "active" /\ ~(tstate[x] = "cleaning" /\ s \in locked[x])))
    BY <1>a, <1>c, <1>d, <2>2, Zenon
  <2>3. SettledNow' = SettledNow \cup {r}
    BY <1>f, <1>c, <2>1, <2>2 DEF SettledNow
  <2> QED
    BY <1>f, <1>b, <1>c, <2>3, Zenon DEF GroupInv, Flagged
<1>5. Exact'
  BY <1>f, ExactFrame, Zenon
<1>6. Shutdown'
  BY <1>f, <1>a, <1>c, <1>m, ShutdownFrame, Zenon
<1> QED
  BY <1>1, <1>2, <1>3, <1>4, <1>5, <1>6, Zenon DEF GroupInv

LEMMA PublishKeeps ==
    ASSUME GroupInv, NEW f \in Finishers, Publish(f)
    PROVE  GroupInv'
<1>f. UNCHANGED <<fstate, cancel_requested, tasks, done, closed, waiters, wakes, completed,
  settled, rpc, upc, todo, ftask, added, delivered, atClose, joined, shutdown>>
  BY Zenon DEF Publish, taskVars, groupVars, finVars, history
<1> DEFINE t == ftask[f]
<1>a. fin[f] = "settle" /\ t \in Tasks /\ locked[t] = {} /\ Settled(t) /\ tstate[t] = "cleaning"
  BY FinisherTask, Zenon DEF Publish, GroupInv, FinishersSettle, OneFinisher
<1>b. /\ FinAt(f, "commit") /\ tstate' = [tstate EXCEPT ![t] = "finished"]
      /\ locked' = [locked EXCEPT ![t] = twaiters[t]] /\ twaiters' = [twaiters EXCEPT ![t] = {}]
  BY Zenon DEF Publish
<1> HIDE DEF t
<1>c. /\ fin' \in [Finishers -> FinLabels] /\ fin'[f] = "commit"
      /\ \A g \in Finishers \ {f} : fin'[g] = fin[g]
  BY <1>b, FinStep DEF FinLabels
<1>d. /\ tstate' \in [Tasks -> {"active", "cleaning", "finished"}] /\ tstate'[t] = "finished"
      /\ locked' \in [Tasks -> SUBSET Regs] /\ twaiters' \in [Tasks -> SUBSET Regs]
      /\ locked'[t] = twaiters[t] /\ twaiters'[t] = {}
      /\ \A x \in Tasks \ {t} :
             tstate'[x] = tstate[x] /\ locked'[x] = locked[x] /\ twaiters'[x] = twaiters[x]
  BY <1>a, <1>b, MapTypes, Zenon
<1>m. \A x \in Tasks : (Settled(x) => Settled(x)') /\ (Covered(x) => Covered(x)')
  BY <1>f, <1>a, <1>d, Zenon DEF Settled, Covered
<1>1. TypeOK'
  <2>1. QueueTypes'
    BY <1>f, QueueTypesFrame, Zenon
  <2>2. TaskTypes'
    BY <1>f, <1>a, <1>c, <1>d, TypeGroups, Zenon DEF TaskTypes
  <2>3. ListTypes'
    <3>1. \A x \in Tasks : /\ locked'[x] = locked[x] \/ locked'[x] = twaiters[x]
                           /\ twaiters'[x] = twaiters[x] \/ twaiters'[x] = {}
      BY <1>d
    <3> QED
      BY <1>f, <1>d, <3>1, TypeGroups, Zenon DEF ListTypes
  <2>4. PlaceTypes'
    BY <1>f, <1>a, <1>c, <1>d, TypeGroups, Zenon DEF PlaceTypes
  <2> QED
    BY <2>1, <2>2, <2>3, <2>4
       DEF TypeOK, TaskTypes, ListTypes, QueueTypes, PlaceTypes, UserLabels, FinLabels
<1>2. FinisherTasks'
  BY <1>f, <1>a, <1>c, FinisherTasksMove, Zenon
<1>3. FinishersSettle'
  <2>1. \A g \in Finishers : \/ fin'[g] = fin[g] \/ fin'[g] \in {"none", "abort"}
                             \/ fin'[g] \in {"begin", "settle", "commit"} /\ Settled(ftask[g])
    BY <1>a, <1>c, Zenon DEF t
  <2>2. \A x \in Tasks : tstate'[x] # "active" => Settled(x)
    BY <1>a, <1>d, Zenon DEF GroupInv, FinishersSettle
  <2> QED
    BY <1>f, <2>1, <2>2, FinishersMove, Zenon
<1>4. OneFinisher'
  <2>1. \A g \in Finishers \ {f} : ftask[g] = ftask[f] => fin[g] \notin {"settle", "commit"}
    BY <1>a DEF GroupInv, OneFinisher
  <2>2. \A x \in Tasks : x # ftask[f] => tstate'[x] = tstate[x] /\ locked'[x] = locked[x]
    BY <1>d, Zenon DEF t
  <2>3. fin'[f] = "commit" /\ tstate'[ftask[f]] = "finished"
    BY <1>c, <1>d, Zenon DEF t
  <2> QED
    BY <1>f, <1>c, <2>1, <2>2, <2>3, WalkBegins, Zenon
<1>5. Registered'
  <2>1. \A x \in Tasks : /\ tstate[x] = "finished" => tstate'[x] = "finished"
                         /\ tstate'[x] # "finished" => twaiters'[x] = twaiters[x]
    BY <1>f, <1>d, Zenon
  <2> QED
    BY <1>f, <2>1, RegisteredPublishes, Zenon
<1>6. Flagged'
  <2>1. SettledNow' = SettledNow
    <3>1. \A s \in added : TaskOf[s] \in Tasks
      BY Names, Zenon DEF GroupInv, Registered
    <3>2. \A s \in added :
              (tstate'[TaskOf[s]] # "active" /\ ~(tstate'[TaskOf[s]] = "cleaning" /\ s \in locked'[TaskOf[s]]))
              <=> (tstate[TaskOf[s]] # "active" /\ ~(tstate[TaskOf[s]] = "cleaning" /\ s \in locked[TaskOf[s]]))
      BY <1>a, <1>d, <3>1
    <3> QED
      BY <1>f, <3>2 DEF SettledNow
  <2> QED
    BY <1>f, <2>1, Zenon DEF GroupInv, Flagged
<1>7. Exact'
  BY <1>f, ExactFrame, Zenon
<1>8. Shutdown'
  BY <1>f, <1>a, <1>c, <1>m, ShutdownFrame
<1>9. Joined'
  BY <1>f, <1>a, <1>b, <1>d, Names, Zenon DEF GroupInv, Joined, Registered
<1> QED
  BY <1>1, <1>2, <1>3, <1>4, <1>5, <1>6, <1>7, <1>8, <1>9, Zenon DEF GroupInv

LEMMA CommitKeeps ==
    ASSUME GroupInv, NEW f \in Finishers, NEW r \in Regs, Commit(f, r)
    PROVE  GroupInv'
<1>f. UNCHANGED <<tstate, fstate, cancel_requested, twaiters, closed, settled, rpc, upc, todo,
  fin, ftask, added, delivered, atClose, joined, shutdown>>
  BY Zenon DEF Commit, taskVars, groupVars, finVars, history
<1> DEFINE t == ftask[f]
<1>a. fin[f] = "commit" /\ t \in Tasks /\ r \in locked[t] /\ tstate[t] = "finished"
  BY FinisherTask, Zenon DEF Commit, GroupInv, OneFinisher
<1>b. locked' = [locked EXCEPT ![t] = @ \ {r}]
  BY Zenon DEF Commit
<1> HIDE DEF t
<1>c. r \in added /\ TaskOf[r] = t /\ CompleteTask(r)
  BY <1>a, Zenon DEF GroupInv, TypeOK, Commit
<1>d. /\ locked' \in [Tasks -> SUBSET Regs] /\ locked'[t] = locked[t] \ {r}
      /\ \A x \in Tasks \ {t} : locked'[x] = locked[x]
  BY <1>a, <1>b, MapTypes, Zenon
<1>e. /\ completed' = completed \cup {r} /\ tasks' = tasks \ {r}
      /\ waiters' \subseteq Users /\ wakes' \subseteq Users
  BY <1>c DEF CompleteTask, Unlinked, TakeWaiters, GroupInv, TypeOK
<1>x. Exact' /\ done' \in Seq(completed')
  BY <1>f, <1>c, ExactComplete, Zenon
<1>m. \A x \in Tasks : (Settled(x) => Settled(x)') /\ (Covered(x) => Covered(x)')
  BY <1>f DEF Settled, Covered
<1>1. FinisherTasks' /\ FinishersSettle' /\ Joined'
  BY <1>f, FinisherTasksFrame, FinishersSettleFrame, JoinedFrame, Zenon
<1>2. TypeOK'
  <2>1. TaskTypes' /\ PlaceTypes'
    BY <1>f, TaskTypesFrame, PlaceTypesFrame, Zenon
  <2>2. ListTypes'
    <3>1. \A x \in Tasks : locked'[x] \subseteq locked[x]
      BY <1>d
    <3> QED
      BY <1>f, <1>c, <1>d, <1>e, <3>1, TypeGroups, Zenon DEF ListTypes
  <2>3. QueueTypes'
    BY <1>f, <1>e, <1>x, TypeGroups, Zenon DEF QueueTypes
  <2> QED
    BY <2>1, <2>2, <2>3
       DEF TypeOK, TaskTypes, ListTypes, QueueTypes, PlaceTypes, UserLabels, FinLabels
<1>3. OneFinisher'
  BY <1>f, <1>a, <1>d, WalkShortens, Zenon
<1>4. Registered'
  BY <1>f, <1>a, <1>c, <1>e, RegisteredCompletes
<1>5. Flagged'
  <2>1. SettledNow' = SettledNow
    BY <1>f, <1>a, <1>d, Names, Zenon DEF GroupInv, SettledNow, Registered
  <2> QED
    BY <1>f, <1>e, <2>1, Zenon DEF GroupInv, Flagged
<1>6. Exact'
  BY <1>x, Zenon
<1>7. Shutdown'
  BY <1>f, <1>a, <1>c, <1>m, ShutdownFrame, Zenon
<1> QED
  BY <1>1, <1>2, <1>3, <1>4, <1>5, <1>6, <1>7 DEF GroupInv

LEMMA GroupAddCompletesKeeps ==
    ASSUME GroupInv, NEW r \in Regs, GroupAddCompletes(r)
    PROVE  GroupInv'
<1>f. UNCHANGED <<tstate, fstate, cancel_requested, twaiters, locked, closed, settled, upc,
  todo, fin, ftask, added, delivered, atClose, joined, shutdown>>
  BY Zenon DEF GroupAddCompletes, taskVars, groupVars, finVars, history
<1>a. rpc[r] = "complete" /\ tstate[TaskOf[r]] = "finished"
  BY Zenon DEF GroupAddCompletes, GroupInv, Registered
<1>b. rpc' = [rpc EXCEPT ![r] = "done"]
  BY Zenon DEF GroupAddCompletes
<1>c. r \in added /\ CompleteTask(r)
  BY <1>a, Zenon DEF GroupInv, Registered, GroupAddCompletes
<1>d. /\ rpc' \in [Regs -> {"idle", "complete", "done"}] /\ rpc'[r] = "done"
      /\ \A s \in Regs \ {r} : rpc'[s] = rpc[s]
  BY <1>b, ZenonT(30) DEF GroupInv, TypeOK
<1>e. /\ completed' = completed \cup {r} /\ tasks' = tasks \ {r}
      /\ waiters' \subseteq Users /\ wakes' \subseteq Users
  BY <1>c, SMTT(30) DEF CompleteTask, Unlinked, TakeWaiters, GroupInv, TypeOK
<1>x. Exact' /\ done' \in Seq(completed')
  BY <1>f, <1>c, ExactComplete, Zenon
<1>m. \A x \in Tasks : (Settled(x) => Settled(x)') /\ (Covered(x) => Covered(x)')
  BY <1>f, Zenon DEF Settled, Covered
<1>1. FinishersSettle' /\ OneFinisher' /\ Joined'
  BY <1>f, FinishersSettleFrame, OneFinisherFrame, JoinedFrame, Zenon
<1>2. TypeOK'
  <2>1. TaskTypes'
    BY <1>f, TaskTypesFrame, Zenon
  <2>2. ListTypes'
    BY <1>f, <1>c, <1>e, TypeGroups, Zenon DEF ListTypes
  <2>3. QueueTypes'
    BY <1>f, <1>e, <1>x, TypeGroups, Zenon DEF QueueTypes
  <2>4. PlaceTypes'
    BY <1>f, <1>d, TypeGroups DEF PlaceTypes
  <2> QED
    BY <2>1, <2>2, <2>3, <2>4, Zenon
       DEF TypeOK, TaskTypes, ListTypes, QueueTypes, PlaceTypes, UserLabels, FinLabels
<1>3. FinisherTasks'
  BY <1>f, <1>a, <1>c, <1>d, <1>e, <1>m, Names, Zenon DEF GroupInv, FinisherTasks
<1>4. Registered'
  BY <1>f, <1>a, <1>c, <1>d, <1>e, RegisteredCompletes, Zenon
<1>5. Flagged'
  <2>1. SettledNow' = SettledNow
    BY <1>f, Zenon DEF SettledNow
  <2> QED
    BY <1>f, <1>e, <2>1, Zenon DEF GroupInv, Flagged
<1>6. Exact'
  BY <1>x, Zenon
<1>7. Shutdown'
  <2>1. \A s \in Regs \ added : rpc'[s] = rpc[s]
    BY <1>c, <1>d
  <2> QED
    BY <1>f, <1>m, <2>1, ShutdownFrame, Zenon
<1> QED
  BY <1>1, <1>2, <1>3, <1>4, <1>5, <1>6, <1>7, Zenon DEF GroupInv

LEMMA GroupAddRejectsKeeps ==
    ASSUME GroupInv, NEW r \in Regs, GroupAdd(r), closed
    PROVE  GroupInv'
<1>f. UNCHANGED <<tstate, fstate, cancel_requested, twaiters, locked, tasks, done, closed,
  waiters, wakes, completed, settled, upc, todo, added, delivered, atClose, joined, shutdown>>
  BY Zenon DEF GroupAdd, Reject, taskVars, groupVars, finVars, history
<1>a. rpc[r] = "idle" /\ r \notin added /\ fin[r] = "none" /\ r \in Finishers /\ TaskOf[r] \in Tasks
  BY Names, Zenon DEF GroupAdd, GroupInv, Registered, FinisherTasks
<1>b. /\ rpc' = [rpc EXCEPT ![r] = "done"] /\ FinAt(r, "abort")
      /\ ftask' = [ftask EXCEPT ![r] = TaskOf[r]]
  BY Zenon DEF GroupAdd, Reject, CallCancel, FinAt
<1>c. /\ fin' \in [Finishers -> FinLabels] /\ fin'[r] = "abort"
      /\ \A g \in Finishers \ {r} : fin'[g] = fin[g]
  BY <1>a, <1>b, FinStep, Zenon DEF FinLabels
<1>d. /\ rpc' \in [Regs -> {"idle", "complete", "done"}] /\ rpc'[r] = "done"
      /\ \A s \in Regs \ {r} : rpc'[s] = rpc[s]
  BY <1>b DEF GroupInv, TypeOK
<1>e. ftask' = ftask
  <2>1. ftask \in [Finishers -> Tasks] /\ ftask[r] = TaskOf[r]
    BY Zenon DEF GroupInv, TypeOK, FinisherTasks
  <2> QED
    BY <1>a, <1>b, <2>1, Zenon
<1>m. \A x \in Tasks : (Settled(x) => Settled(x)') /\ (Covered(x) => Covered(x)')
  BY <1>f DEF Settled, Covered
<1>1. Flagged' /\ Joined'
  BY <1>f, FlaggedFrame, JoinedFrame, Zenon
<1>2. TypeOK'
  <2>1. TaskTypes' /\ ListTypes' /\ QueueTypes'
    BY <1>f, TaskTypesFrame, ListTypesFrame, QueueTypesFrame, Zenon
  <2>2. PlaceTypes'
    BY <1>f, <1>a, <1>c, <1>d, <1>e, TypeGroups DEF PlaceTypes
  <2> QED
    BY <2>1, <2>2
       DEF TypeOK, TaskTypes, ListTypes, QueueTypes, PlaceTypes, UserLabels, FinLabels
<1>3. FinisherTasks'
  BY <1>f, <1>a, <1>c, <1>d, <1>e, <1>m, Names, Zenon DEF GroupInv, FinisherTasks
<1>4. FinishersSettle'
  BY <1>f, <1>a, <1>c, <1>e, <1>m, Names, FinisherTask, Zenon DEF GroupInv, FinishersSettle
<1>5. OneFinisher'
  BY <1>f, <1>a, <1>c, <1>e, FinisherTask, Zenon DEF GroupInv, OneFinisher
<1>6. Registered'
  <2>1. \A s \in Regs : /\ rpc'[s] = "idle" => rpc[s] = "idle"
                        /\ rpc'[s] = "complete" => rpc[s] = "complete"
    BY <1>d, Zenon
  <2> QED
    BY <1>f, <2>1, Zenon DEF GroupInv, Registered
<1>7. Exact'
  BY <1>f, ExactFrame
<1>8. Shutdown'
  <2>1. Rejected'
    <3>1. \A s \in Regs : s \in Finishers
      BY Names, Zenon
    <3> QED
      BY <1>f, <1>a, <1>c, <1>d, <3>1, CoveredFrame, Zenon DEF GroupInv, Shutdown, Rejected
  <2>2. \A u \in Users : fin'[u] = fin[u]
    <3>1. \A u \in Users : u \in Finishers /\ u # r
      BY Names, Zenon
    <3> QED
      BY <1>c, <3>1
  <2>3. \A u \in Users : Owned(u)'
    BY <1>f, <1>e, <2>2, OwnedFrame, SMTT(30)
  <2> QED
    BY <1>f, <2>1, <2>3, CoveredFrame, Zenon DEF GroupInv, Shutdown
<1> QED
  BY <1>1, <1>2, <1>3, <1>4, <1>5, <1>6, <1>7, <1>8, Zenon DEF GroupInv

LEMMA GroupAddEntersKeeps ==
    ASSUME GroupInv, NEW r \in Regs, GroupAdd(r), ~closed
    PROVE  GroupInv'
<1>f. UNCHANGED <<tstate, fstate, cancel_requested, locked, done, closed, waiters, wakes,
  completed, upc, todo, fin, ftask, delivered, atClose, joined, shutdown>>
  BY DEF GroupAdd, taskVars, groupVars, finVars, history
<1> DEFINE t == TaskOf[r]
<1>a. rpc[r] = "idle" /\ r \notin added /\ r \notin completed /\ t \in Tasks /\ locked[t] = {}
  BY Names, Zenon DEF GroupAdd, GroupInv, Registered, TypeOK
<1>b. /\ tasks' = tasks \cup {r} /\ added' = added \cup {r}
      /\ settled' = IF tstate[t] # "active" THEN settled \cup {r} ELSE settled
      /\ \/ /\ tstate[t] = "finished" /\ twaiters' = twaiters
            /\ rpc' = [rpc EXCEPT ![r] = "complete"]
         \/ /\ tstate[t] # "finished" /\ rpc' = [rpc EXCEPT ![r] = "done"]
            /\ twaiters' = [twaiters EXCEPT ![t] = @ \cup {r}]
  BY Zenon DEF GroupAdd, SettledWhenAdded
<1>c. fin[r] = "none" /\ settled \subseteq added
  BY <1>a, Zenon DEF GroupInv, FinisherTasks, TypeOK
<1>d. /\ rpc' \in [Regs -> {"idle", "complete", "done"}]
      /\ rpc'[r] = IF tstate[t] = "finished" THEN "complete" ELSE "done"
      /\ \A s \in Regs \ {r} : rpc'[s] = rpc[s]
  <2>1. rpc \in [Regs -> {"idle", "complete", "done"}]
    BY TypeGroups, Zenon DEF PlaceTypes
  <2> HIDE DEF t
  <2>2. CASE tstate[t] = "finished"
    <3>1. rpc' = [rpc EXCEPT ![r] = "complete"]
      BY <1>b, <2>2, Zenon
    <3> QED
      BY <2>1, <2>2, <3>1, Zenon
  <2>3. CASE tstate[t] # "finished"
    <3>1. rpc' = [rpc EXCEPT ![r] = "done"]
      BY <1>b, <2>3, Zenon
    <3> QED
      BY <2>1, <2>3, <3>1
  <2> QED
    BY <2>2, <2>3
<1>e. /\ twaiters' \in [Tasks -> SUBSET Regs]
      /\ \A x \in Tasks \ {t} : twaiters'[x] = twaiters[x]
      /\ twaiters'[t] = IF tstate[t] = "finished" THEN twaiters[t] ELSE twaiters[t] \cup {r}
  <2>1. twaiters \in [Tasks -> SUBSET Regs] /\ t \in Tasks
    BY <1>a, Zenon DEF GroupInv, TypeOK
  <2> HIDE DEF t
  <2>2. CASE tstate[t] = "finished"
    BY <1>b, <2>1, <2>2, Zenon
  <2>3. CASE tstate[t] # "finished"
    <3>1. twaiters' = [twaiters EXCEPT ![t] = @ \cup {r}]
      BY <1>b, <2>3
    <3> QED
      BY <2>1, <2>3, <3>1, Zenon
  <2> QED
    BY <2>2, <2>3, Zenon
<1>g. shutdown = "no" /\ ~joined
  BY Zenon DEF GroupInv, Shutdown, Joined
<1>m. \A x \in Tasks : (Settled(x) => Settled(x)') /\ (Covered(x) => Covered(x)')
  BY <1>f, Zenon DEF Settled, Covered
<1>1. FinishersSettle' /\ OneFinisher'
  BY <1>f, FinishersSettleFrame, OneFinisherFrame, Zenon
<1>2. TypeOK'
  <2>1. TaskTypes' /\ QueueTypes'
    BY <1>f, TaskTypesFrame, QueueTypesFrame, Zenon
  <2>2. ListTypes'
    <3>1. \A x \in Tasks : twaiters'[x] \subseteq {s \in added' : TaskOf[s] = x}
      <4>1. \A x \in Tasks : twaiters[x] \subseteq {s \in added' : TaskOf[s] = x}
        BY <1>b, TypeGroups, Zenon DEF ListTypes
      <4>2. r \in added'
        BY <1>b, SMTT(30)
      <4> QED
        BY <1>e, <4>1, <4>2, SMTT(30)
    <3>2. completed \subseteq added /\ settled \subseteq added /\ tasks \subseteq added \ completed
      BY TypeGroups, Zenon DEF ListTypes
    <3>3. \A x \in Tasks : locked[x] \subseteq {s \in added' : TaskOf[s] = x}
      BY <1>b, TypeGroups, Zenon DEF ListTypes
    <3>4. settled' \subseteq added' /\ tasks' \subseteq added' \ completed /\ completed \subseteq added'
      BY <1>a, <1>b, <3>2, Zenon
    <3>5. locked \in [Tasks -> SUBSET Regs]
      BY TypeGroups, SMTT(30) DEF ListTypes
    <3> QED
      BY <1>f, <1>e, <3>1, <3>3, <3>4, <3>5, Zenon DEF ListTypes
  <2>3. PlaceTypes'
    BY <1>f, <1>d, TypeGroups, Zenon DEF PlaceTypes
  <2> QED
    BY <2>1, <2>2, <2>3
       DEF TypeOK, TaskTypes, ListTypes, QueueTypes, PlaceTypes, UserLabels, FinLabels
<1>3. FinisherTasks'
  BY <1>f, <1>a, <1>b, <1>c, <1>d, <1>e, <1>g, <1>m, Names, Zenon DEF GroupInv, FinisherTasks
<1>4. Registered'
  <2>1. added' \subseteq Regs /\ tasks' = added' \ completed'
    BY <1>f, <1>a, <1>b, Zenon DEF GroupInv, Registered
  <2>2. \A s \in Regs : rpc'[s] = "idle" => s \notin added'
    BY <1>b, <1>d, Zenon DEF GroupInv, Registered
  <2>3. \A s \in Regs : rpc'[s] = "complete" => s \in added' /\ tstate'[TaskOf[s]] = "finished"
    BY <1>f, <1>b, <1>d, Zenon DEF GroupInv, Registered
  <2>4. ASSUME NEW s \in added', tstate[TaskOf[s]] # "finished" PROVE s \in twaiters'[TaskOf[s]]
    <3>1. CASE s = r
      BY <1>e, <2>4, <3>1
    <3>2. CASE s # r
      <4>1. s \in added /\ TaskOf[s] \in Tasks
        BY <1>b, <2>1, <3>2, Names, Zenon
      <4>2. s \in twaiters[TaskOf[s]]
        BY <2>4, <4>1, Zenon DEF GroupInv, Registered
      <4> QED
        BY <1>e, <4>1, <4>2, Zenon
    <3> QED
      BY <3>1, <3>2, Zenon
  <2> QED
    BY <1>f, <2>1, <2>2, <2>3, <2>4, Zenon DEF GroupInv, Registered
<1>5. Flagged'
  <2>1. SettledNow' = SettledNow \cup (IF tstate[t] # "active" THEN {r} ELSE {})
    BY <1>f, <1>a, <1>b, Zenon DEF SettledNow
  <2> QED
    BY <1>f, <1>a, <1>b, <2>1, Zenon DEF GroupInv, Flagged
<1>6. Exact'
  BY <1>f, ExactFrame
<1>7. Shutdown'
  <2>1. Rejected'
    BY <1>f, <1>b, <1>d, CoveredFrame DEF GroupInv, Shutdown, Rejected
  <2>2. \A v \in Users : Owned(v)'
    BY <1>f, <1>g, Zenon DEF GroupInv, Shutdown, Owned
  <2> QED
    BY <1>f, <1>g, <2>1, <2>2, Zenon DEF Shutdown
<1>8. Joined'
  BY <1>f, <1>a, <1>b, <1>c, <1>d, <1>e, <1>g, <1>m, Names, Zenon DEF GroupInv, Joined
<1> QED
  BY <1>1, <1>2, <1>3, <1>4, <1>5, <1>6, <1>7, <1>8, Zenon DEF GroupInv

LEMMA QuietUserKeeps ==
    ASSUME GroupInv,
           UNCHANGED <<taskVars, twaiters, locked, tasks, closed, completed, settled, rpc, todo, finVars,
                       added, atClose, shutdown>>,
           waiters' \subseteq Users, wakes' \subseteq Users, done' \in Seq(completed),
           upc' \in [Users -> UserLabels],
           \A v \in Users : \/ upc'[v] = upc[v]
                            \/ /\ upc[v] \notin {"cancelAll", "cancelling"}
                               /\ upc'[v] \notin {"cancelAll", "cancelling"},
           Exact', Joined' 
    PROVE  GroupInv'
<1>f. UNCHANGED <<tstate, fstate, cancel_requested, twaiters, locked, tasks, closed, completed,
  settled, rpc, todo, fin, ftask, added, atClose, shutdown>>
  BY Zenon DEF taskVars, finVars

<1>1. FinisherTasks' /\ FinishersSettle' /\ OneFinisher' /\ Registered' /\ Flagged'
  BY <1>f, FinisherTasksFrame, FinishersSettleFrame, OneFinisherFrame, RegisteredFrame,
    FlaggedFrame, Zenon
<1>2. TypeOK'
  <2>1. TaskTypes' /\ ListTypes'
    BY <1>f, TaskTypesFrame, ListTypesFrame, Zenon
  <2>2. QueueTypes'
    BY <1>f, TypeGroups, Zenon DEF QueueTypes
  <2>3. PlaceTypes'
    BY <1>f, TypeGroups DEF PlaceTypes
  <2> QED
    BY <2>1, <2>2, <2>3, Zenon
       DEF TypeOK, TaskTypes, ListTypes, QueueTypes, PlaceTypes, UserLabels, FinLabels
<1>3. Exact'
  BY Zenon
<1>4. Shutdown'
  <2>1. Rejected'
    BY <1>f, RejectedFrame, Zenon
  <2>2. \A v \in Users : Owned(v)'
    BY <1>f, OwnedFrame, Zenon
  <2> QED
    BY <1>f, <2>1, <2>2, CoveredFrame DEF GroupInv, Shutdown
<1>5. Joined'
  OBVIOUS
<1> QED
  BY <1>1, <1>2, <1>3, <1>4, <1>5 DEF GroupInv

LEMMA UserKeeps ==
    ASSUME GroupInv, NEW u \in Users,
           \/ NextPoll(u) \/ JoinPoll(u) \/ TryNext(u) \/ Wake(u) \/ GiveUp(u)
           \/ \E op \in {"next", "join"} : Call(u, op) \/ Park(u, op)
    PROVE  GroupInv'
<1> DEFINE Quiet == UserLabels \ {"cancelAll", "cancelling"}
<1>t. /\ waiters \subseteq Users /\ wakes \subseteq Users /\ done \in Seq(completed)
      /\ upc \in [Users -> UserLabels]
  BY DEF GroupInv, TypeOK, UserLabels
<1>u. ASSUME NEW l \in Quiet, UserAt(u, l), upc[u] \in Quiet
      PROVE  /\ upc' \in [Users -> UserLabels]
             /\ \A v \in Users : \/ upc'[v] = upc[v]
                                 \/ /\ upc[v] \notin {"cancelAll", "cancelling"}
                                    /\ upc'[v] \notin {"cancelAll", "cancelling"}
  BY <1>u, UserStep, Zenon
<1>j. ASSUME UNCHANGED <<joined, closed, added, tstate>>
      PROVE  Joined'
  BY <1>j, Zenon DEF GroupInv, Joined
<1>1. CASE NextPoll(u)
  <2>1. PICK l \in {"idle", "nextPark"} :
            UserAt(u, l) /\ (PopDone \/ UNCHANGED <<done, delivered, waiters, wakes>>)
    BY <1>1, Zenon DEF NextPoll
  <2>2. /\ UNCHANGED <<taskVars, twaiters, locked, tasks, closed, completed, settled, rpc, todo, finVars,
                       added, atClose, joined, shutdown>>
        /\ upc[u] = "next"
    BY <1>1, Zenon DEF NextPoll
  <2>3. Exact' /\ done' \in Seq(completed)
    BY <1>t, <2>1, <2>2, ExactPop, ExactFrame, Zenon
  <2>4. waiters' \subseteq Users /\ wakes' \subseteq Users
    BY <1>t, <2>1 DEF PopDone, TakeWaiters
  <2>5. l \in Quiet /\ upc[u] \in Quiet
    BY <2>2, Zenon DEF UserLabels
  <2>6. Joined'
    BY <2>2, <1>j, Zenon DEF taskVars
  <2> QED
    BY <1>u, <2>1, <2>2, <2>3, <2>4, <2>5, <2>6, QuietUserKeeps, Zenon
<1>2. CASE JoinPoll(u)
  <2>1. PICK l \in {"idle", "joinPark"} :
            UserAt(u, l) /\ (UNCHANGED joined \/ (tasks = {} /\ joined' = (joined \/ closed)))
    BY <1>2, Zenon DEF JoinPoll, JoinReady
  <2>2. /\ UNCHANGED <<taskVars, twaiters, locked, groupVars, rpc, todo, finVars, added,
                       delivered, atClose, shutdown>>
        /\ upc[u] = "join"
    BY <1>2, Zenon DEF JoinPoll
  <2>3. UNCHANGED <<tstate, tasks, done, closed, waiters, wakes, completed, settled>>
    BY <2>2, Zenon DEF groupVars, taskVars
  <2>4. Exact'
    BY <2>2, <2>3, ExactFrame, Zenon
  <2>5. l \in Quiet /\ upc[u] \in Quiet
    BY <2>2, Zenon DEF UserLabels
  <2>6. Joined'
    <3>1. CASE UNCHANGED joined
      BY <2>2, <2>3, <3>1, <1>j
    <3>2. CASE tasks = {} /\ joined' = (joined \/ closed)
      <4>1. \A r \in added : tstate[TaskOf[r]] = "finished"
        BY <3>2, Zenon DEF GroupInv, Registered
      <4> QED
        BY <2>2, <2>3, <3>2, <4>1, Zenon DEF GroupInv, Joined
    <3> QED
      BY <2>1, <3>1, <3>2, Zenon
  <2> QED
    BY <1>t, <1>u, <2>1, <2>2, <2>3, <2>4, <2>5, <2>6, QuietUserKeeps, Zenon
<1>3. CASE TryNext(u)
  <2>1. /\ PopDone
        /\ UNCHANGED <<taskVars, twaiters, locked, tasks, closed, completed, settled, rpc, upc, todo, finVars,
                       added, atClose, joined, shutdown>>
    BY <1>3, Zenon DEF TryNext
  <2>2. Exact' /\ done' \in Seq(completed)
    BY <2>1, ExactPop, Zenon
  <2>3. waiters' \subseteq Users /\ wakes' \subseteq Users
    BY <1>t, <2>1 DEF PopDone, TakeWaiters
  <2>4. Joined'
    BY <2>1, <1>j, Zenon DEF taskVars
  <2> QED
    BY <1>t, <2>1, <2>2, <2>3, <2>4, QuietUserKeeps, Zenon
<1>4. ASSUME UNCHANGED <<taskVars, twaiters, locked, tasks, done, closed, completed, settled, rpc, todo,
                         finVars, history>>,
             waiters' \subseteq Users, wakes' \subseteq Users,
             \/ UNCHANGED upc
             \/ upc[u] \in Quiet /\ \E l \in Quiet : UserAt(u, l)
      PROVE  GroupInv'
  <2>1. UNCHANGED <<tstate, added, delivered, atClose, joined, shutdown>>
    BY <1>4, Zenon DEF history, taskVars
  <2>2. Exact' /\ Joined'
    BY <1>4, <1>j, <2>1, ExactFrame, Zenon
  <2>3. /\ upc' \in [Users -> UserLabels]
        /\ \A v \in Users : \/ upc'[v] = upc[v]
                            \/ /\ upc[v] \notin {"cancelAll", "cancelling"}
                               /\ upc'[v] \notin {"cancelAll", "cancelling"}
    BY <1>t, <1>u, <1>4, Zenon
  <2> QED
    BY <1>t, <1>4, <2>1, <2>2, <2>3, QuietUserKeeps
<1>5. CASE Wake(u) \/ GiveUp(u)
  <2>1. /\ UNCHANGED <<taskVars, twaiters, locked, tasks, done, closed, completed, settled, rpc, todo,
                       finVars, history>>
        /\ waiters' \subseteq Users /\ wakes' \subseteq Users
    BY <1>5, <1>t, Zenon DEF Wake, GiveUp, groupVars
  <2>2. \/ UNCHANGED upc
        \/ upc[u] \in Quiet /\ \E l \in Quiet : UserAt(u, l)
    BY <1>5, Zenon DEF Wake, GiveUp, UserLabels
  <2> QED
    BY <1>4, <2>1, <2>2, Zenon
<1>6. ASSUME NEW op \in {"next", "join"}, Call(u, op) \/ Park(u, op)
      PROVE  GroupInv'
  <2>1. /\ UNCHANGED <<taskVars, twaiters, locked, tasks, done, closed, completed, settled, rpc, todo,
                       finVars, history>>
        /\ waiters' \subseteq Users /\ wakes' \subseteq Users
    BY <1>6, <1>t DEF Call, Park, groupVars
  <2>2. upc[u] \in Quiet /\ \E l \in Quiet : UserAt(u, l)
    BY <1>6, Zenon DEF Call, CanCall, Park, UserLabels
  <2> QED
    BY <1>4, <2>1, <2>2, Zenon
<1> QED
  BY <1>1, <1>2, <1>3, <1>5, <1>6, Zenon


LEMMA CloseGroupKeeps ==
    ASSUME GroupInv, NEW u \in Users, NEW l \in {"idle", "cancelAll"}, CloseGroup(u, l)
    PROVE  GroupInv'
<1>f. UNCHANGED <<tstate, fstate, cancel_requested, twaiters, locked, tasks, done, completed,
  settled, rpc, todo, fin, ftask, added, delivered, joined>>
  BY DEF CloseGroup, taskVars, groupVars, finVars, history
<1>a. /\ upc[u] = "idle" /\ closed' = TRUE /\ UserAt(u, l)
      /\ atClose' = IF closed THEN atClose ELSE SettledNow
      /\ waiters' \subseteq Users /\ wakes' \subseteq Users
  BY Zenon DEF CloseGroup, CanCall, CloseWakes, TakeWaiters, GroupInv, TypeOK
<1>b. \/ l = "idle" /\ shutdown' = shutdown
      \/ l = "cancelAll" /\ shutdown = "no" /\ shutdown' = "closed" /\ "shutdown" \in Role[u]
  BY Zenon DEF CloseGroup, CanCall
<1>c. /\ upc' \in [Users -> UserLabels] /\ upc'[u] = l
      /\ \A v \in Users \ {u} : upc'[v] = upc[v]
  BY <1>a, UserStep, Zenon DEF UserLabels
<1>m. \A x \in Tasks : (Settled(x) => Settled(x)') /\ (Covered(x) => Covered(x)')
  BY <1>f, Zenon DEF Settled, Covered
<1>1. FinisherTasks' /\ FinishersSettle' /\ OneFinisher' /\ Registered'
  BY <1>f, FinisherTasksFrame, FinishersSettleFrame, OneFinisherFrame, RegisteredFrame, Zenon
<1>2. TypeOK'
  <2>1. TaskTypes' /\ ListTypes'
    BY <1>f, TaskTypesFrame, ListTypesFrame
  <2>2. QueueTypes'
    BY <1>f, <1>a, TypeGroups, Zenon DEF QueueTypes
  <2>3. PlaceTypes'
    BY <1>f, <1>c, TypeGroups, Zenon DEF PlaceTypes
  <2> QED
    BY <2>1, <2>2, <2>3, Zenon
       DEF TypeOK, TaskTypes, ListTypes, QueueTypes, PlaceTypes, UserLabels, FinLabels
<1>3. Flagged'
  BY <1>f, <1>a DEF GroupInv, Flagged
<1>4. Exact'
  <2>1. CASE closed
    <3>1. UNCHANGED <<delivered, done, completed, closed, atClose>>
      BY <1>f, <1>a, <2>1, Zenon DEF GroupInv, TypeOK
    <3> QED
      BY <3>1, ExactFrame, Zenon
  <2>2. CASE ~closed
    <3>1. completed \subseteq SettledNow
      BY Zenon DEF GroupInv, Registered, SettledNow, TypeOK
    <3>2. Yielded' = Yielded
      BY <1>f, Zenon DEF Yielded
    <3>3. {r \in completed' : closed' => r \in atClose'} = {r \in completed : closed => r \in atClose}
      BY <1>f, <1>a, <2>2, <3>1, Zenon
    <3> QED
      BY <1>f, <3>2, <3>3, Zenon DEF GroupInv, Exact
  <2> QED
    BY <2>1, <2>2
<1>5. Shutdown'
  <2>1. Rejected'
    BY <1>f, RejectedFrame, Zenon
  <2>2. CASE l = "idle" /\ shutdown' = shutdown
    <3>1. \A v \in Users : \/ upc'[v] = upc[v]
                           \/ /\ upc[v] \notin {"cancelAll", "cancelling"}
                              /\ upc'[v] \notin {"cancelAll", "cancelling"}
      BY <1>a, <1>c, <2>2
    <3>2. \A v \in Users : Owned(v)'
      BY <1>f, <2>2, <3>1, OwnedFrame, Zenon
    <3> QED
      BY <1>f, <1>a, <2>1, <2>2, <3>2, CoveredFrame, Zenon DEF GroupInv, Shutdown
  <2>3. CASE l = "cancelAll" /\ shutdown = "no" /\ shutdown' = "closed" /\ "shutdown" \in Role[u]
    <3>1. \A v \in Users : "shutdown" \in Role[v] => v = u
      BY <2>3, GroupAssumption, Zenon
    <3>2. \A v \in Users : upc[v] # "cancelAll"
      BY <2>3, Zenon DEF GroupInv, Shutdown, Owned
    <3>3. \A v \in Users : Owned(v)'
      BY <1>c, <2>3, <3>1, <3>2 DEF Owned
    <3> QED
      BY <1>a, <2>1, <2>3, <3>3, Zenon DEF Shutdown
  <2> QED
    BY <1>b, <2>2, <2>3
<1>6. Joined'
  BY <1>f, <1>a, <1>b, <1>c, <1>m, Names, Zenon DEF GroupInv, Joined
<1> QED
  BY <1>1, <1>2, <1>3, <1>4, <1>5, <1>6, Zenon DEF GroupInv

LEMMA CancelAllKeeps ==
    ASSUME GroupInv, NEW u \in Users, CancelAll(u), CanCall(u, "cancel") \/ upc[u] = "cancelAll"
    PROVE  GroupInv'
<1>f. UNCHANGED <<tstate, fstate, cancel_requested, twaiters, locked, tasks, done, closed,
  waiters, wakes, completed, settled, rpc, fin, ftask, added, delivered, atClose, joined,
  shutdown>>
  BY Zenon DEF CancelAll, taskVars, groupVars, finVars, history
<1>a. /\ upc[u] \in {"idle", "cancelAll"} /\ UserAt(u, "cancelling")
      /\ todo' = [todo EXCEPT ![u] = {TaskOf[r] : r \in tasks}]
  BY Zenon DEF CancelAll, CanCall
<1>c. /\ upc' \in [Users -> UserLabels] /\ upc'[u] = "cancelling"
      /\ \A v \in Users \ {u} : upc'[v] = upc[v]
  BY <1>a, UserStep DEF UserLabels
<1>d. /\ todo' \in [Users -> SUBSET Tasks] /\ todo'[u] = {TaskOf[r] : r \in tasks}
      /\ \A v \in Users \ {u} : todo'[v] = todo[v]
  <2>1. todo \in [Users -> SUBSET Tasks] /\ {TaskOf[r] : r \in tasks} \in SUBSET Tasks
    <3>1. tasks \subseteq Regs /\ todo \in [Users -> SUBSET Tasks]
      BY TypeGroups, Zenon DEF GroupInv, Registered, PlaceTypes
    <3> QED
      <4>1. \A r \in tasks : TaskOf[r] \in Tasks
        BY <3>1, Names, Zenon
      <4> QED
        BY <3>1, <4>1, Zenon
  <2> QED
    BY <1>a, <2>1, Zenon
<1>1. FinisherTasks' /\ FinishersSettle' /\ OneFinisher' /\ Registered' /\ Flagged' /\ Joined'
  BY <1>f, FinisherTasksFrame, FinishersSettleFrame, OneFinisherFrame, RegisteredFrame,
    FlaggedFrame, JoinedFrame, Zenon
<1>2. TypeOK'
  <2>1. TaskTypes' /\ ListTypes' /\ QueueTypes'
    BY <1>f, TaskTypesFrame, ListTypesFrame, QueueTypesFrame
  <2>2. PlaceTypes'
    BY <1>f, <1>c, <1>d, TypeGroups, Zenon DEF PlaceTypes
  <2> QED
    BY <2>1, <2>2, Zenon
       DEF TypeOK, TaskTypes, ListTypes, QueueTypes, PlaceTypes, UserLabels, FinLabels
<1>3. Exact'
  BY <1>f, ExactFrame, Zenon
<1>4. Shutdown'
  <2>1. Rejected'
    BY <1>f, RejectedFrame
  <2>2. \A r \in added : Covered(TaskOf[r])' \/ TaskOf[r] \in todo'[u]
    BY <1>f, <1>d, Zenon DEF GroupInv, Registered, Covered
  <2>3. Owned(u)'
    BY <1>f, <1>c, <2>2, Zenon DEF Owned
  <2>4. \A v \in Users \ {u} : Owned(v)'
    BY <1>f, <1>c, <1>d, OwnedFrame
  <2> QED
    BY <1>f, <2>1, <2>3, <2>4, CoveredFrame, Zenon DEF GroupInv, Shutdown
<1> QED
  BY <1>1, <1>2, <1>3, <1>4, Zenon DEF GroupInv

LEMMA CancelOneKeeps ==
    ASSUME GroupInv, NEW u \in Users, NEW t \in Tasks, CancelOne(u, t)
    PROVE  GroupInv'
<1>f. UNCHANGED <<tstate, fstate, cancel_requested, twaiters, locked, tasks, done, closed,
  waiters, wakes, completed, settled, rpc, upc, added, delivered, atClose, joined, shutdown>>
  BY Zenon DEF CancelOne, taskVars, groupVars, finVars, history
<1>a. /\ upc[u] = "cancelling" /\ fin[u] = "none" /\ t \in todo[u] /\ FinAt(u, "abort") /\ u \in Finishers
      /\ todo' = [todo EXCEPT ![u] = @ \ {t}] /\ ftask' = [ftask EXCEPT ![u] = t]
  BY Names, Zenon DEF CancelOne, CallCancel, FinAt
<1>c. /\ fin' \in [Finishers -> FinLabels] /\ fin'[u] = "abort"
      /\ \A g \in Finishers \ {u} : fin'[g] = fin[g]
  BY <1>a, FinStep, Zenon DEF FinLabels
<1>d. /\ todo' \in [Users -> SUBSET Tasks] /\ todo'[u] = todo[u] \ {t}
      /\ \A v \in Users \ {u} : todo'[v] = todo[v]
  BY <1>a, TypeGroups DEF PlaceTypes
<1>e. /\ ftask' \in [Finishers -> Tasks] /\ ftask'[u] = t
      /\ \A g \in Finishers \ {u} : ftask'[g] = ftask[g]
  BY <1>a, TypeGroups, Zenon DEF PlaceTypes
<1>m. \A x \in Tasks : (Settled(x) => Settled(x)') /\ (Covered(x) => Covered(x)')
  BY <1>f, Zenon DEF Settled, Covered
<1>1. Registered' /\ Flagged' /\ Joined'
  BY <1>f, RegisteredFrame, FlaggedFrame, JoinedFrame, Zenon
<1>2. TypeOK'
  <2>1. TaskTypes' /\ ListTypes' /\ QueueTypes'
    BY <1>f, TaskTypesFrame, ListTypesFrame, QueueTypesFrame, Zenon
  <2>2. PlaceTypes'
    BY <1>f, <1>c, <1>d, <1>e, TypeGroups, Zenon DEF PlaceTypes
  <2> QED
    BY <2>1, <2>2, Zenon
       DEF TypeOK, TaskTypes, ListTypes, QueueTypes, PlaceTypes, UserLabels, FinLabels
<1>3. FinisherTasks'
  <2>1. \A g \in Tasks \cup Regs : ftask'[g] = ftask[g] /\ fin'[g] = fin[g]
    BY <1>c, <1>e, Names
  <2> QED
    BY <1>f, <2>1, Zenon DEF GroupInv, FinisherTasks
<1>4. FinishersSettle'
  BY <1>f, <1>a, <1>c, <1>e, <1>m, FinisherTask, Names, Zenon DEF GroupInv, FinishersSettle
<1>5. OneFinisher'
  <2>1. \A g \in Finishers : fin'[g] \in {"settle", "commit"} =>
            fin'[g] = fin[g] /\ ftask'[g] = ftask[g] /\ ftask[g] \in Tasks
    BY <1>c, <1>e, FinisherTask, Zenon
  <2>2. \A g \in Finishers : /\ fin'[g] = "settle" => tstate[ftask'[g]] = "cleaning"
                             /\ fin'[g] = "commit" => tstate[ftask'[g]] = "finished"
    BY <2>1, Zenon DEF GroupInv, OneFinisher
  <2>3. \A g, h \in Finishers :
            fin'[g] \in {"settle", "commit"} /\ fin'[h] \in {"settle", "commit"} /\ ftask'[g] = ftask'[h]
                => g = h
    <3>1. \A g, h \in Finishers :
              fin[g] \in {"settle", "commit"} /\ fin[h] \in {"settle", "commit"} /\ ftask[g] = ftask[h]
                  => g = h
      BY Zenon DEF GroupInv, OneFinisher
    <3> QED
      BY <2>1, <3>1, Zenon
  <2> QED
    BY <1>f, <2>2, <2>3, Zenon DEF GroupInv, OneFinisher
<1>6. Exact'
  BY <1>f, ExactFrame, Zenon
<1>7. Shutdown'
  <2>1. \A r \in Regs : fin'[r] = fin[r]
    BY <1>c, Names, SMTT(30)
  <2>2. Rejected'
    BY <1>f, <2>1, RejectedFrame, Zenon
  <2>3. \A v \in Users \ {u} : fin'[v] = fin[v] /\ ftask'[v] = ftask[v]
    BY <1>c, <1>e, Names, Zenon
  <2>4. \A v \in Users \ {u} : Owned(v)'
    BY <1>f, <1>d, <2>3, OwnedFrame, Zenon
  <2>5. Owned(u)'
    <3>1. Owned(u)
      BY DEF GroupInv, Shutdown
    <3>2. ASSUME NEW r \in added,
                 \/ Covered(TaskOf[r]) \/ TaskOf[r] \in todo[u]
                 \/ fin[u] = "abort" /\ ftask[u] = TaskOf[r]
          PROVE  \/ Covered(TaskOf[r])' \/ TaskOf[r] \in todo'[u]
                 \/ fin'[u] = "abort" /\ ftask'[u] = TaskOf[r]
      BY <1>f, <1>a, <1>c, <1>d, <1>e, <3>2, CoveredFrame, Zenon
    <3> QED
      BY <1>f, <1>a, <3>1, <3>2, Zenon DEF Owned
  <2> QED
    BY <1>f, <2>2, <2>4, <2>5, CoveredFrame, Zenon DEF GroupInv, Shutdown
<1> QED
  BY <1>1, <1>2, <1>3, <1>4, <1>5, <1>6, <1>7, Zenon DEF GroupInv

LEMMA CancelDoneKeeps ==
    ASSUME GroupInv, NEW u \in Users, CancelDone(u)
    PROVE  GroupInv'
<1>f. UNCHANGED <<tstate, fstate, cancel_requested, twaiters, locked, tasks, done, closed,
  completed, settled, rpc, todo, fin, ftask, added, delivered, atClose, joined>>
  BY Zenon DEF CancelDone, taskVars, groupVars, finVars, history
<1>a. /\ upc[u] = "cancelling" /\ fin[u] = "none" /\ todo[u] = {} /\ UserAt(u, "idle")
      /\ shutdown' = IF shutdown = "closed" /\ "shutdown" \in Role[u] THEN "done" ELSE shutdown
      /\ waiters' \subseteq Users /\ wakes' \subseteq Users
  BY Zenon DEF CancelDone, TakeWaiters, GroupInv, TypeOK
<1>c. /\ upc' \in [Users -> UserLabels] /\ upc'[u] = "idle"
      /\ \A v \in Users \ {u} : upc'[v] = upc[v]
  BY <1>a, UserStep, Zenon DEF UserLabels
<1>1. FinisherTasks' /\ FinishersSettle' /\ OneFinisher' /\ Registered' /\ Flagged' /\ Joined'
  BY <1>f, FinisherTasksFrame, FinishersSettleFrame, OneFinisherFrame, RegisteredFrame,
    FlaggedFrame, JoinedFrame, Zenon
<1>2. TypeOK'
  <2>1. TaskTypes' /\ ListTypes'
    BY <1>f, TaskTypesFrame, ListTypesFrame, Zenon
  <2>2. QueueTypes'
    BY <1>f, <1>a, TypeGroups, Zenon DEF QueueTypes
  <2>3. PlaceTypes'
    BY <1>f, <1>c, TypeGroups, Zenon DEF PlaceTypes
  <2> QED
    BY <2>1, <2>2, <2>3, SMTT(30)
       DEF TypeOK, TaskTypes, ListTypes, QueueTypes, PlaceTypes, UserLabels, FinLabels
<1>3. Exact'
  BY <1>f, ExactFrame, Zenon
<1>4. Shutdown'
  <2>1. Rejected'
    BY <1>f, RejectedFrame, Zenon
  <2>2. CASE shutdown = "closed" /\ "shutdown" \in Role[u]
    <3>1. \A r \in added : Covered(TaskOf[r])
      BY <1>a, <2>2, Zenon DEF GroupInv, Shutdown, Owned
    <3>2. \A v \in Users : upc[v] = "cancelAll" => "shutdown" \in Role[v]
      BY Zenon DEF GroupInv, Shutdown, Owned
    <3>3. \A v \in Users : "shutdown" \in Role[v] => v = u
      BY <2>2, GroupAssumption, Zenon
    <3>4. shutdown' = "done" /\ \A v \in Users : upc'[v] # "cancelAll"
      BY <1>a, <1>c, <2>2, <3>2, <3>3, Zenon
    <3>5. \A v \in Users : Owned(v)'
      BY <3>4, Zenon DEF Owned
    <3> QED
      BY <1>f, <2>1, <2>2, <3>1, <3>4, <3>5, CoveredFrame, Zenon DEF GroupInv, Shutdown
  <2>3. CASE ~(shutdown = "closed" /\ "shutdown" \in Role[u])
    <3>1. shutdown' = shutdown
      BY <1>a, <2>3, Zenon
    <3>2. Owned(u)'
      BY <1>c, <2>3, <3>1, Zenon DEF Owned
    <3>3. \A v \in Users \ {u} : Owned(v)'
      BY <1>f, <1>c, <3>1, OwnedFrame, Zenon
    <3> QED
      BY <1>f, <2>1, <3>1, <3>2, <3>3, CoveredFrame, Zenon DEF GroupInv, Shutdown
  <2> QED
    BY <2>2, <2>3
<1> QED
  BY <1>1, <1>2, <1>3, <1>4, Zenon DEF GroupInv

LEMMA GroupInit == Init => GroupInv
<1> SUFFICES ASSUME Init PROVE GroupInv
  OBVIOUS
<1> USE DEF Init
<1>1. TypeOK
  <2>1. (CHOOSE t \in Tasks : TRUE) \in Tasks
    BY GroupAssumption, Zenon
  <2>2. ftask \in [Finishers -> Tasks]
    BY <2>1, GroupAssumption
  <2>3. done \in Seq(completed)
    <3>1. done = <<>>
      BY Zenon
    <3> HIDE DEF Init
    <3> QED
      BY <3>1, SMTT(30)
  <2>4. cancel_requested \in [Tasks -> BOOLEAN] /\ closed \in BOOLEAN
    BY Zenon
  <2>5. /\ twaiters \in [Tasks -> SUBSET Regs] /\ locked \in [Tasks -> SUBSET Regs]
        /\ \A t \in Tasks : twaiters[t] = {} /\ locked[t] = {}
        /\ todo \in [Users -> SUBSET Tasks]
    BY Zenon
  <2>6. /\ tstate \in [Tasks -> {"active", "cleaning", "finished"}]
        /\ fstate \in [Tasks -> {"pending", "running", "complete", "failed"}]
        /\ rpc \in [Regs -> {"idle", "complete", "done"}]
        /\ upc \in [Users -> UserLabels] /\ fin \in [Finishers -> FinLabels]
    BY Zenon DEF UserLabels, FinLabels
  <2> QED
    BY <2>2, <2>3, <2>4, <2>5, <2>6, Zenon DEF TypeOK, UserLabels, FinLabels
<1>2. FinisherTasks
  BY Names, Zenon DEF FinisherTasks
<1>3. FinishersSettle /\ OneFinisher
  BY Names, Zenon DEF FinishersSettle, OneFinisher
<1>4. Registered /\ Flagged /\ Joined
  BY Zenon DEF Registered, Flagged, SettledNow, Joined
<1>5. Exact
  <2>1. delivered = <<>> /\ done = <<>> /\ completed = {}
    BY Zenon
  <2> HIDE DEF Init
  <2>2. Yielded = <<>>
    BY <2>1 DEF Yielded
  <2>3. Range(Yielded) = {} /\ DOMAIN Yielded = {}
    BY <2>2 DEF Range
  <2>4. delivered \in Seq(Regs) /\ done \in Seq(completed)
    BY <2>1
  <2> QED
    BY <2>1, <2>3, <2>4 DEF Exact
<1>6. Shutdown
  BY Zenon DEF Shutdown, Rejected, Owned
<1> QED
  BY <1>1, <1>2, <1>3, <1>4, <1>5, <1>6, Zenon DEF GroupInv

LEMMA GroupStep == GroupInv /\ [Next]_vars => GroupInv'
<1> SUFFICES ASSUME GroupInv, [Next]_vars PROVE GroupInv'
  OBVIOUS
<1>1. ASSUME NEW t \in Tasks, Poll(t) \/ PollEnd(t) PROVE GroupInv'
  BY <1>1, PollKeeps, PollEndKeeps, Zenon
<1>2. ASSUME NEW f \in Finishers, Finish(f) PROVE GroupInv'
  BY <1>2, AbortKeeps, InspectKeeps, FinishBeginKeeps, PublishKeeps, FinishedKeeps, SettleKeeps, CommitKeeps
     DEF Finish
<1>3. ASSUME NEW r \in Regs, GroupAdd(r) \/ GroupAddCompletes(r) PROVE GroupInv'
  BY <1>3, GroupAddRejectsKeeps, GroupAddEntersKeeps, GroupAddCompletesKeeps, Zenon
<1>4. ASSUME NEW u \in Users,
             \/ Proceed(u) \/ TryNext(u) \/ GiveUp(u)
             \/ \E op \in {"next", "join"} : Call(u, op)
             \/ \E l \in {"idle", "cancelAll"} : CloseGroup(u, l)
             \/ CanCall(u, "cancel") /\ CancelAll(u)
      PROVE  GroupInv'
  BY <1>4, UserKeeps, CancelAllKeeps, CancelOneKeeps, CancelDoneKeeps, CloseGroupKeeps, Zenon DEF Proceed
<1>5. CASE UNCHANGED vars
  <2>1. UNCHANGED <<tstate, fstate, cancel_requested, twaiters, locked, tasks, done, closed, waiters,
                    wakes, completed, settled, rpc, upc, todo, fin, ftask, added, delivered, atClose,
                    joined, shutdown>>
    BY <1>5, Zenon DEF vars, taskVars, groupVars, finVars, history
  <2>2. upc' \in [Users -> UserLabels] /\ done' \in Seq(completed) /\ waiters' \subseteq Users
        /\ wakes' \subseteq Users
    BY <2>1, Zenon DEF GroupInv, TypeOK, UserLabels
  <2>3. Exact' /\ Joined'
    BY <2>1, ExactFrame DEF GroupInv, Joined
  <2> QED
    BY <2>1, <2>2, <2>3, QuietUserKeeps, Zenon DEF taskVars, finVars
<1> QED
  BY <1>1, <1>2, <1>3, <1>4, <1>5 DEF Next

LEMMA GroupInvExact == GroupInv => GroupExact
<1> SUFFICES ASSUME GroupInv PROVE GroupExact
  BY Zenon
<1>1. JoinQuiescent
  <2>1. \A r \in added : TaskOf[r] \in Tasks
    BY Names, Zenon DEF GroupInv, Registered
  <2>2. \A t \in Tasks : tstate[t] = "finished" => fin[t] # "poll"
    BY Zenon DEF GroupInv, FinishersSettle, Settled
  <2> QED
    BY <2>1, <2>2, Zenon DEF JoinQuiescent, GroupInv, Joined
<1>2. CompletionsExact
  BY Zenon DEF CompletionsExact, GroupInv, Exact, Yielded
<1>3. RegistrationCovered
  <2> SUFFICES ASSUME shutdown = "done", NEW r \in Regs, rpc[r] = "done", fin[r] = "none"
               PROVE  Covered(TaskOf[r])
    BY DEF RegistrationCovered, Covered
  <2> QED
    BY Zenon DEF GroupInv, Shutdown, Rejected
<1> QED
  BY <1>1, <1>2, <1>3 DEF GroupExact

\* In every run of a task group, with any number of tasks, registrations and users: a
\* join that returned on a closed group left no registered task unfinished or polled,
\* each completion is yielded once and exactly the ones settled in time are, and after
\* a shutdown no registered task is left without a cancel.
THEOREM GroupExactTheorem == Spec => []GroupExact
<1>1. Init /\ [][Next]_vars => []GroupInv
  BY GroupInit, GroupStep, PTL
<1> QED
  BY <1>1, GroupInvExact, PTL DEF Spec
=============================================================================
