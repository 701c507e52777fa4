---------------------------- MODULE AsyncOpProofs ----------------------------
(***************************************************************************)
(* Proofs about AsyncOp for any kind of operation and any finite sets of   *)
(* threads that finish, cancel and notify, each with one role.             *)
(***************************************************************************)
EXTENDS AsyncOp, FiniteSetTheorems, TLAPS

Labels == {"armed", "start", "finish", "takeRaw", "cancelSource", "complete", "notify", "refused",
           "wake", "park", "deadline", "parked", "stopSource", "done"}

OpType == [complete : BOOLEAN, canceled : BOOLEAN, finished : BOOLEAN, error : Outcomes,
           result : BOOLEAN, notify : {"unset", "set", "sent"}, box : BOOLEAN,
           source : BOOLEAN, raw : BOOLEAN, waiters : SUBSET Finishers, pinned : BOOLEAN]

\* The types, with those of the threads.
Types ==
    /\ TypeOK
    /\ pc \in [Threads -> Labels] /\ out \in [Threads -> Outcomes]
    /\ desc \in [Threads -> BOOLEAN] /\ early \in BOOLEAN

\* Who waits is parked, and is woken by one thread only; who has returned stays so.
Parking ==
    /\ \A f \in op.waiters : pc[f] = "parked"
    /\ \A t \in Threads : \A f \in wakes[t] : pc[f] = "parked" /\ f \notin op.waiters
    /\ \A t, u \in Threads : t # u => wakes[t] \cap wakes[u] = {}
    /\ \A f \in Finishers : ret[f] # "none" => pc[f] = "done"
    /\ \A t \in Threads : pc[t] = "start" => t \in Cancellers \cup Notifiers

Notifying == {t \in Threads : pc[t] = "notify"}
Started == {n \in Notifiers : pc[n] # "start"}
Consumers == {f \in Finishers : ret[f] \notin {"none", "EALREADY"}}

\* The box of the operation is sent once, after the completion; no box is lost.
Boxes ==
    /\ Cardinality(Notifying) + delivered <= Flag(op.notify = "sent")
    /\ op.notify = "sent" => op.complete
    /\ Cardinality(Started) = Flag(op.box) + Cardinality(Notifying) + delivered + freed

\* A result is consumed by the finish that marks the operation as finished.
Consumed ==
    /\ Cardinality(Consumers) <= Flag(op.finished)
    /\ early => /\ op.canceled /\ delivered = 0 /\ Notifying = {}
                /\ \A f \in Finishers : ret[f] \in {"none", "EALREADY", "ECANCELED"}

OpInv == Types /\ Parking /\ Boxes /\ Consumed

LEMMA ThreadsFinite == IsFiniteSet(Threads)
<1>1. Threads = (Finishers \cup Cancellers \cup Notifiers) \cup {"cb"}
  BY DEF Threads
<1> QED
  BY <1>1, OpAssumption, FS_AddElement

\* Facts about finite sets of threads.
LEMMA ThreadSets ==
    /\ IsFiniteSet(Notifying) /\ Cardinality(Notifying) \in Nat
    /\ IsFiniteSet(Started) /\ Cardinality(Started) \in Nat
    /\ IsFiniteSet(Consumers) /\ Cardinality(Consumers) \in Nat
    /\ Finishers \subseteq Threads /\ Cancellers \subseteq Threads /\ Notifiers \subseteq Threads
<1>1. Threads = (Finishers \cup Cancellers \cup Notifiers) \cup {"cb"}
  BY DEF Threads
<1>2. IsFiniteSet(Threads)
  BY ThreadsFinite
<1>3. Notifying \in SUBSET Threads /\ Started \in SUBSET Threads /\ Consumers \in SUBSET Threads
  BY DEF Notifying, Started, Consumers, Threads
<1>4. IsFiniteSet(Notifying) /\ IsFiniteSet(Started) /\ IsFiniteSet(Consumers)
  BY <1>2, <1>3, FS_Subset
<1> QED
  BY <1>1, <1>4, FS_CardinalityType

LEMMA OpInit == Init => OpInv
<1> SUFFICES ASSUME Init PROVE OpInv
  OBVIOUS
<1>1. op \in OpType /\ op.box = FALSE /\ op.notify = "unset" /\ op.waiters = {} /\ op.finished = FALSE
  <2>1. (kind # "io") \in BOOLEAN /\ (kind = "connect") \in BOOLEAN
    OBVIOUS
  <2>2. Pending \in OpType
    BY <2>1 DEF Pending, OpType, Outcomes
  <2>3. Pending.box = FALSE /\ Pending.notify = "unset" /\ Pending.waiters = {} /\ Pending.finished = FALSE
    BY DEF Pending
  <2>4. CASE op = Pending
    BY <2>2, <2>3, <2>4
  <2>5. ASSUME NEW e \in {"ok", "err"}, op = Immediate(e) PROVE <1>1!:
    <3>1. (e = "ok") \in BOOLEAN /\ e \in Outcomes
      BY DEF Outcomes
    <3> QED
      BY <2>2, <2>3, <2>5, <3>1, Zenon DEF Immediate, OpType
  <2> QED
    BY <2>4, <2>5, Zenon DEF Init
<1>2. out \in [Threads -> Outcomes]
  BY DEF Init, Outcomes
<1>3. pc \in [Threads -> Labels] /\ \A t \in Threads : pc[t] # "notify"
  BY DEF Init, Labels
<1>4. closes \in Nat /\ delivered = 0 /\ freed = 0 /\ refusals = 0 /\ early = FALSE
  BY DEF Init
<1>5. /\ wakes = [t \in Threads |-> {}] /\ desc = [t \in Threads |-> FALSE]
      /\ ret = [f \in Finishers |-> "none"] /\ kind \in Kinds
  BY DEF Init
<1>6. Types
  <2>1. /\ wakes \in [Threads -> SUBSET Finishers]
        /\ ret \in [Finishers -> Outcomes \cup {"none", "EALREADY", "ECANCELED"}]
        /\ {closes, delivered, freed, refusals} \subseteq Nat
    BY <1>4, <1>5
  <2>0. desc \in [Threads -> BOOLEAN] /\ early \in BOOLEAN
    BY <1>4, <1>5, Zenon
  <2>2. op.box => op.notify = "set"
    BY <1>1
  <2>3. op \in OpType /\ kind \in Kinds
    BY <1>1, <1>5
  <2>4. TypeOK
    BY <2>1, <2>2, <2>3 DEF TypeOK, OpType
  <2> QED
    BY <1>2, <1>3, <2>0, <2>4 DEF Types
<1>7. \A t \in Threads : pc[t] = "start" => t \in Cancellers \cup Notifiers
  BY DEF Init, Threads
<1>8. Parking
  BY <1>1, <1>5, <1>7, ThreadSets DEF Parking
<1>9. Notifying = {} /\ Started = {} /\ Consumers = {}
  <2>1. \A n \in Notifiers : n \in Threads /\ n \notin Finishers /\ n # "cb"
    BY OpAssumption DEF Threads
  <2>2. \A n \in Notifiers : pc[n] = "start"
    BY <2>1 DEF Init
  <2> QED
    BY <1>3, <1>5, <2>2 DEF Notifying, Started, Consumers
<1>10. Boxes /\ Consumed
  BY <1>1, <1>4, <1>9, FS_EmptySet DEF Boxes, Consumed, Flag
<1> QED
  BY <1>6, <1>8, <1>10 DEF OpInv

\* One thread moves.
LEMMA Moves ==
    ASSUME Types, NEW t \in Threads, NEW l \in Labels, pc' = [pc EXCEPT ![t] = l]
    PROVE  /\ pc' \in [Threads -> Labels]
           /\ pc[t] # "notify" /\ l # "notify" => Notifying' = Notifying
           /\ pc[t] # "notify" /\ l = "notify" =>
                Cardinality(Notifying') = Cardinality(Notifying) + 1
           /\ pc[t] = "notify" /\ l # "notify" =>
                Cardinality(Notifying') = Cardinality(Notifying) - 1 /\ Notifying' \subseteq Notifying
           /\ pc[t] # "start" /\ l # "start" => Started' = Started
           /\ t \notin Notifiers => Started' = Started
           /\ t \in Notifiers /\ pc[t] = "start" /\ l # "start" =>
                Cardinality(Started') = Cardinality(Started) + 1
<1>0. pc \in [Threads -> Labels]
  BY DEF Types
<1>1. pc[t] # "notify" /\ l # "notify" => Notifying' = Notifying
  BY <1>0 DEF Notifying
<1>2. ASSUME pc[t] # "notify", l = "notify"
      PROVE  Cardinality(Notifying') = Cardinality(Notifying) + 1
  <2>1. Notifying' = Notifying \cup {t} /\ t \notin Notifying
    BY <1>0, <1>2 DEF Notifying
  <2> QED
    BY <2>1, ThreadSets, FS_AddElement, Zenon
<1>3. ASSUME pc[t] = "notify", l # "notify"
      PROVE  Cardinality(Notifying') = Cardinality(Notifying) - 1 /\ Notifying' \subseteq Notifying
  <2>1. Notifying' = Notifying \ {t} /\ t \in Notifying
    BY <1>0, <1>3 DEF Notifying
  <2> QED
    BY <2>1, ThreadSets, FS_RemoveElement, Zenon
<1>4. /\ pc[t] # "start" /\ l # "start" => Started' = Started
      /\ t \notin Notifiers => Started' = Started
  BY <1>0, ThreadSets DEF Started
<1>5. ASSUME t \in Notifiers, pc[t] = "start", l # "start"
      PROVE  Cardinality(Started') = Cardinality(Started) + 1
  <2>1. Started' = Started \cup {t} /\ t \notin Started
    BY <1>0, <1>5, ThreadSets DEF Started
  <2> QED
    BY <2>1, ThreadSets, FS_AddElement, Zenon
<1> QED
  BY <1>0, <1>1, <1>2, <1>3, <1>4, <1>5

\* A thread that moves outside the notification, while the parts of the operation
\* that the invariant is about stay as they are.
LEMMA QuietMove ==
    ASSUME OpInv, NEW t \in Threads, NEW l \in Labels, pc' = [pc EXCEPT ![t] = l],
           pc[t] \notin {"notify", "start", "parked", "done"}, l \notin {"notify", "start"},
           op' \in OpType, op'.complete = op.complete, op'.canceled = op.canceled,
           op'.finished = op.finished, op'.notify = op.notify, op'.box = op.box,
           op'.waiters = op.waiters,
           kind' = kind, ret' = ret, wakes' = wakes, delivered' = delivered, freed' = freed,
           refusals' = refusals, early' = early, closes' \in Nat,
           out' \in [Threads -> Outcomes], desc' \in [Threads -> BOOLEAN]
    PROVE  OpInv'
<1>1. /\ pc' \in [Threads -> Labels] /\ Notifying' = Notifying /\ Started' = Started
      /\ Consumers' = Consumers
  BY Moves, Zenon DEF OpInv, Consumers
<1>2. Types'
  BY <1>1 DEF OpInv, Types, TypeOK, OpType
<1>3. \A p \in Threads : pc[p] \in {"parked", "done"} => pc'[p] = pc[p]
  BY DEF OpInv, Types
<1>4. \A p \in Threads : pc'[p] = "start" => pc[p] = "start"
  BY DEF OpInv, Types
<1>5. \A f \in op.waiters : f \in Threads
  BY ThreadSets DEF OpInv, Types, TypeOK
<1>6. \A p \in Threads : \A f \in wakes[p] : f \in Threads
  BY ThreadSets DEF OpInv, Types, TypeOK
<1>7. Parking'
  BY <1>3, <1>4, <1>5, <1>6, ThreadSets DEF OpInv, Parking
<1>8. Boxes' /\ Consumed'
  BY <1>1 DEF OpInv, Boxes, Consumed
<1> QED
  BY <1>2, <1>7, <1>8 DEF OpInv

LEMMA QuietSteps ==
    ASSUME OpInv,
           \/ TimePasses \/ Fire \/ TakeRaw \/ UNCHANGED vars
           \/ \E t \in Threads : CancelSource(t) \/ NotifyRefused(t)
           \/ \E f \in Finishers : Deadline(f)
           \/ \E c \in Cancellers : StopSource(c)
    PROVE  OpInv'
<1>0. /\ op \in OpType /\ out \in [Threads -> Outcomes] /\ desc \in [Threads -> BOOLEAN]
      /\ closes \in Nat /\ "cb" \in Threads
  BY DEF OpInv, Types, TypeOK, OpType, Threads
<1>1. CASE TimePasses \/ UNCHANGED vars
  <2>1. UNCHANGED <<kind, op, pc, localVars, ret, closes, boxVars, early>>
    BY <1>1 DEF TimePasses, vars, localVars, boxVars
  <2>2. Notifying' = Notifying /\ Started' = Started /\ Consumers' = Consumers
    BY <2>1 DEF Notifying, Started, Consumers
  <2> QED
    BY <2>1, <2>2 DEF OpInv, Types, TypeOK, Parking, Boxes, Consumed, localVars, boxVars
<1>2. CASE Fire
  <2>1. /\ pc["cb"] = "armed" /\ UNCHANGED <<kind, op, wakes, desc, ret, closes, boxVars, early>>
        /\ \E e \in {"ok", "err"} : out' = [out EXCEPT !["cb"] = e]
    BY <1>2, Zenon DEF Fire
  <2>2. \E l \in {"complete", "takeRaw", "cancelSource"} : pc' = [pc EXCEPT !["cb"] = l]
    BY <1>2, Zenon DEF Fire, Goto
  <2>3. out' \in [Threads -> Outcomes]
    BY <1>0, <2>1 DEF Outcomes
  <2> QED
    BY <1>0, <2>1, <2>2, <2>3, QuietMove, Zenon DEF Labels, boxVars
<1>3. CASE TakeRaw
  <2>1. /\ pc["cb"] = "takeRaw" /\ UNCHANGED <<kind, out, wakes, ret, boxVars, early>>
        /\ op' = [op EXCEPT !.raw = FALSE]
    BY <1>3 DEF TakeRaw
  <2>2. \E l \in {"cancelSource", "done"} : pc' = [pc EXCEPT !["cb"] = l]
    BY <1>3, Zenon DEF TakeRaw, Goto
  <2>3. closes' \in Nat
    BY <1>0, <1>3 DEF TakeRaw
  <2>4. desc' \in [Threads -> BOOLEAN]
    BY <1>0, <1>3 DEF TakeRaw, OpType
  <2>5. /\ op' \in OpType /\ op'.complete = op.complete /\ op'.canceled = op.canceled
        /\ op'.finished = op.finished /\ op'.notify = op.notify /\ op'.box = op.box
        /\ op'.waiters = op.waiters
    BY <1>0, <2>1, Zenon DEF OpType
  <2> QED
    BY <1>0, <2>1, <2>2, <2>3, <2>4, <2>5, QuietMove, Zenon DEF Labels, boxVars
<1>4. ASSUME NEW t \in Threads, CancelSource(t) \/ NotifyRefused(t) PROVE OpInv'
  <2>1. /\ pc[t] \in {"cancelSource", "refused"}
        /\ UNCHANGED <<kind, localVars, ret, closes, boxVars, early>>
        /\ \/ op' = [op EXCEPT !.source = FALSE]
           \/ op' = [op EXCEPT !.error = "EPIPE"]
        /\ \E l \in {"complete", "wake"} : pc' = [pc EXCEPT ![t] = l]
    BY <1>4 DEF CancelSource, NotifyRefused, Goto
  <2>2. /\ op' \in OpType /\ op'.complete = op.complete /\ op'.canceled = op.canceled
        /\ op'.finished = op.finished /\ op'.notify = op.notify /\ op'.box = op.box
        /\ op'.waiters = op.waiters
    BY <1>0, <2>1, Zenon DEF OpType, Outcomes
  <2> QED
    BY <1>0, <2>1, <2>2, QuietMove, Zenon DEF Labels, boxVars, localVars
<1>5. ASSUME NEW f \in Finishers, Deadline(f) PROVE OpInv'
  <2>1. /\ pc[f] = "deadline" /\ UNCHANGED <<kind, op, wakes, desc, ret, closes, boxVars, early>>
        /\ out' = [out EXCEPT ![f] = "ok"] /\ f \in Threads
        /\ \E l \in {"finish", "cancelSource", "park"} : pc' = [pc EXCEPT ![f] = l]
    BY <1>5, ThreadSets, Zenon DEF Deadline, Goto
  <2>2. out' \in [Threads -> Outcomes]
    BY <1>0, <2>1 DEF Outcomes
  <2> QED
    BY <1>0, <2>1, <2>2, QuietMove, Zenon DEF Labels, boxVars
<1>6. ASSUME NEW c \in Cancellers, StopSource(c) PROVE OpInv'
  <2>1. /\ pc[c] = "stopSource" /\ UNCHANGED <<kind, op, localVars, ret, boxVars, early>>
        /\ c \in Threads /\ pc' = [pc EXCEPT ![c] = "wake"]
    BY <1>6, ThreadSets DEF StopSource, Goto
  <2>2. closes' \in Nat
    BY <1>6 DEF StopSource, OpInv, Types, TypeOK
  <2> QED
    BY <1>0, <2>1, <2>2, QuietMove, Zenon DEF Labels, boxVars, localVars
<1> QED
  BY <1>1, <1>2, <1>3, <1>4, <1>5, <1>6

\* The lock is held while the state of the completion changes and the box is taken.
LEMMA TakeBoxKeeps ==
    ASSUME OpInv, NEW t \in Threads, pc[t] = "complete", NEW o \in OpType, TakeBox(t, o),
           o.complete = TRUE, o.canceled = op.canceled, o.finished = op.finished,
           o.notify = op.notify, o.box = op.box, o.waiters = {},
           wakes' = [wakes EXCEPT ![t] = op.waiters],
           UNCHANGED <<kind, out, ret, closes, boxVars, early>>,
           desc' \in [Threads -> BOOLEAN]
    PROVE  OpInv'
<1> USE DEF boxVars
<1>0. /\ Types /\ op \in OpType /\ op.waiters \subseteq Finishers /\ wakes \in [Threads -> SUBSET Finishers]
      /\ Consumers' = Consumers /\ {delivered, freed} \subseteq Nat /\ (op.box => op.notify = "set")
  BY DEF OpInv, Types, TypeOK, OpType, Consumers
<1>1. PICK l \in {"notify", "wake"} : pc' = [pc EXCEPT ![t] = l]
  BY DEF TakeBox, Goto
<1>2. /\ op' \in OpType /\ op'.waiters = {} /\ op'.complete = TRUE /\ op'.canceled = op.canceled
      /\ op'.finished = op.finished
  BY ZenonT(30) DEF TakeBox, OpType
<1>3. pc' \in [Threads -> Labels] /\ Started' = Started
  BY <1>0, <1>1, Moves, Zenon DEF Labels
<1>4. wakes' \in [Threads -> SUBSET Finishers] /\ (op'.box => op'.notify = "set")
  BY <1>0, Zenon DEF TakeBox, OpType
<1>5. Types'
  BY <1>0, <1>2, <1>3, <1>4 DEF Types, TypeOK, OpType
<1>6. Parking'
  <2>1. \A p \in Threads : p # t => pc'[p] = pc[p]
    BY <1>0, <1>1 DEF Types
  <2>2. \A p \in Threads : \A f \in wakes'[p] : f # t /\ pc[f] = "parked" /\ f \in Threads
    BY <1>0, ThreadSets, SMTT(30) DEF OpInv, Parking
  <2>3. \A p \in Threads : \A f \in wakes'[p] : pc'[f] = "parked" /\ f \notin op'.waiters
    BY <1>2, <2>1, <2>2
  <2>4. \A p, q \in Threads : p # q => wakes'[p] \cap wakes'[q] = {}
    BY <1>0 DEF OpInv, Parking
  <2>5. \A f \in Finishers : ret'[f] # "none" => pc'[f] = "done"
    BY <2>1, ThreadSets DEF OpInv, Parking
  <2>6. \A p \in Threads : pc'[p] = "start" => p \in Cancellers \cup Notifiers
    BY <1>0, <1>1, <2>1 DEF OpInv, Parking, Types
  <2> QED
    BY <1>2, <2>3, <2>4, <2>5, <2>6 DEF Parking
<1>7. CASE Notifies(o)
  <2>1. pc' = [pc EXCEPT ![t] = "notify"] /\ op'.notify = "sent" /\ op'.box = FALSE
    BY <1>7, Zenon DEF TakeBox, Goto, OpType
  <2>2. Cardinality(Notifying') = Cardinality(Notifying) + 1
    BY <1>0, <2>1, Moves, Zenon DEF Labels
  <2>3. op.box = TRUE /\ op.notify = "set" /\ op.canceled = FALSE
    BY <1>0, <1>7 DEF Notifies, OpType
  <2>4. Cardinality(Notifying) \in Nat
    BY ThreadSets
  <2>5. Boxes'
    BY <1>0, <1>2, <1>3, <2>1, <2>2, <2>3, <2>4 DEF OpInv, Boxes, Flag
  <2>6. Consumed'
    BY <1>0, <1>2, <2>3 DEF OpInv, Consumed
  <2> QED
    BY <1>5, <1>6, <2>5, <2>6 DEF OpInv
<1>8. CASE ~Notifies(o)
  <2>1. pc' = [pc EXCEPT ![t] = "wake"] /\ op' = o
    BY <1>8 DEF TakeBox, Goto
  <2>2. Notifying' = Notifying
    BY <1>0, <2>1, Moves, Zenon DEF Labels
  <2>3. Boxes' /\ Consumed'
    BY <1>0, <1>2, <1>3, <2>1, <2>2 DEF OpInv, Boxes, Consumed
  <2> QED
    BY <1>5, <1>6, <2>3 DEF OpInv
<1> QED
  BY <1>7, <1>8

LEMMA CompleteKeeps ==
    ASSUME OpInv, NEW t \in Threads, Complete(t) \/ CompleteStream(t)
    PROVE  OpInv'
<1>0. /\ pc[t] = "complete" /\ op \in OpType /\ out \in [Threads -> Outcomes]
      /\ desc \in [Threads -> BOOLEAN] /\ closes \in Nat /\ wakes \in [Threads -> SUBSET Finishers]
      /\ UNCHANGED <<kind, out, ret, closes, boxVars, early>>
  BY DEF OpInv, Types, TypeOK, OpType, Complete, CompleteStream
<1>1. CASE Complete(t) /\ (op.complete \/ op.finished)
  <2>1. UNCHANGED <<op, wakes, desc>> /\ pc' = [pc EXCEPT ![t] = "wake"]
    BY <1>1 DEF Complete, Goto
  <2> QED
    BY <1>0, <2>1, QuietMove, Zenon DEF Labels, boxVars
<1>2. CASE Complete(t) /\ ~(op.complete \/ op.finished)
  <2> DEFINE o == [op EXCEPT !.complete = TRUE, !.waiters = {},
                             !.error = IF op.canceled THEN @ ELSE out[t],
                             !.result = IF op.canceled THEN @ ELSE TRUE]
  <2>1. TakeBox(t, o) /\ wakes' = [wakes EXCEPT ![t] = op.waiters] /\ UNCHANGED desc
    BY <1>2 DEF Complete
  <2>2. /\ o \in OpType /\ o.complete = TRUE /\ o.canceled = op.canceled /\ o.finished = op.finished
        /\ o.notify = op.notify /\ o.box = op.box /\ o.waiters = {}
    BY <1>0, Zenon DEF OpType
  <2> QED
    BY <1>0, <2>1, <2>2, TakeBoxKeeps, Zenon
<1>3. CASE CompleteStream(t)
  <2> DEFINE o == [op EXCEPT !.complete = TRUE, !.waiters = {},
                             !.error = IF op.canceled THEN @ ELSE out[t],
                             !.result = IF op.canceled THEN @ ELSE desc[t]]
  <2>1. TakeBox(t, o) /\ wakes' = [wakes EXCEPT ![t] = op.waiters]
    BY <1>3 DEF CompleteStream
  <2>2. /\ o \in OpType /\ o.complete = TRUE /\ o.canceled = op.canceled /\ o.finished = op.finished
        /\ o.notify = op.notify /\ o.box = op.box /\ o.waiters = {}
    BY <1>0, Zenon DEF OpType
  <2>3. desc' \in [Threads -> BOOLEAN]
    BY <1>0, <1>3 DEF CompleteStream, OpType
  <2> QED
    BY <1>0, <2>1, <2>2, <2>3, TakeBoxKeeps, Zenon
<1> QED
  BY <1>1, <1>2, <1>3

\* The actor takes the message or refuses it; then the box is freed.
LEMMA NotifySendKeeps ==
    ASSUME OpInv, NEW t \in Threads, NotifySend(t)
    PROVE  OpInv'
<1>0. /\ pc[t] = "notify" /\ UNCHANGED <<kind, op, out, wakes, desc, ret, closes, early>>
      /\ Types /\ {delivered, freed, refusals} \subseteq Nat /\ pc \in [Threads -> Labels]
  BY DEF NotifySend, OpInv, Types, TypeOK, localVars
<1>1. PICK l \in {"wake", "refused"} : pc' = [pc EXCEPT ![t] = l]
  BY DEF NotifySend, Goto
<1>2. /\ pc' \in [Threads -> Labels] /\ Started' = Started /\ Consumers' = Consumers
      /\ Cardinality(Notifying') = Cardinality(Notifying) - 1
  BY <1>0, <1>1, Moves, Zenon DEF Labels, Consumers
<1>3. /\ {delivered', freed', refusals'} \subseteq Nat
      /\ delivered' + freed' = delivered + freed + 1 /\ delivered' <= delivered + 1
  BY <1>0 DEF NotifySend
<1>4. Types'
  BY <1>0, <1>2, <1>3 DEF Types, TypeOK
<1>5. Parking'
  <2>1. \A p \in Threads : pc[p] \in {"parked", "done"} => pc'[p] = pc[p]
    BY <1>0, <1>1
  <2>2. \A p \in Threads : pc'[p] = "start" => pc[p] = "start"
    BY <1>0, <1>1
  <2>3. \A f \in op.waiters : f \in Threads
    BY <1>0, ThreadSets DEF Types, TypeOK
  <2>4. \A p \in Threads : \A f \in wakes[p] : f \in Threads
    BY <1>0, ThreadSets DEF Types, TypeOK
  <2> QED
    BY <1>0, <2>1, <2>2, <2>3, <2>4, ThreadSets DEF OpInv, Parking
<1>6. Boxes'
  <2>1. Cardinality(Notifying) \in Nat /\ Flag(op.box) \in Nat /\ Flag(op.notify = "sent") \in Nat
    BY ThreadSets DEF Flag
  <2> QED
    BY <1>0, <1>2, <1>3, <2>1 DEF OpInv, Boxes
<1>7. Consumed'
  <2>1. t \in Notifying
    BY <1>0 DEF Notifying
  <2>2. early = FALSE
    BY <1>0, <2>1 DEF OpInv, Consumed, Types
  <2> QED
    BY <1>0, <1>2, <2>2 DEF OpInv, Consumed
<1> QED
  BY <1>4, <1>5, <1>6, <1>7 DEF OpInv

LEMMA WakeKeeps ==
    ASSUME OpInv, NEW t \in Threads, Wake(t)
    PROVE  OpInv'
<1>0. /\ pc[t] = "wake" /\ UNCHANGED <<kind, op, out, ret, delivered, freed, refusals, early>>
      /\ Types /\ pc \in [Threads -> Labels] /\ wakes \in [Threads -> SUBSET Finishers]
      /\ closes \in Nat /\ desc \in [Threads -> BOOLEAN] /\ Consumers' = Consumers
      /\ wakes' = [wakes EXCEPT ![t] = {}]
  BY DEF Wake, OpInv, Types, TypeOK, boxVars, Consumers
<1>1. /\ pc' \in [Threads -> Labels]
      /\ \A p \in Threads : p \notin wakes[t] /\ p # t => pc'[p] = pc[p]
      /\ \A p \in Threads : p \in wakes[t] \/ p = t => pc'[p] \in {"finish", "done"}
  BY <1>0 DEF Wake, Labels
<1>2. \A p \in wakes[t] : pc[p] = "parked"
  BY DEF OpInv, Parking
<1>3. Notifying' = Notifying
  BY <1>0, <1>1, <1>2 DEF Notifying
<1>4. Started' = Started
  BY <1>0, <1>1, <1>2, ThreadSets DEF Started
<1>5. Types'
  <2>1. closes' \in Nat
    BY <1>0 DEF Wake
  <2>2. desc' \in [Threads -> BOOLEAN] /\ wakes' \in [Threads -> SUBSET Finishers]
    BY <1>0 DEF Wake
  <2> QED
    BY <1>0, <1>1, <2>1, <2>2 DEF Types, TypeOK
<1>6. Parking'
  <2>1. \A f \in op.waiters : f \notin wakes[t] /\ f # t /\ f \in Threads
    BY <1>0, ThreadSets, Zenon DEF OpInv, Parking, Types, TypeOK
  <2>2. \A p \in Threads : \A f \in wakes'[p] :
           f \in wakes[p] /\ f \notin wakes[t] /\ f # t /\ f \in Threads
    BY <1>0, ThreadSets DEF OpInv, Parking
  <2>3. \A p, q \in Threads : p # q => wakes'[p] \cap wakes'[q] = {}
    BY <1>0 DEF OpInv, Parking
  <2>4. \A f \in Finishers : ret[f] # "none" => f \notin wakes[t] /\ f # t /\ f \in Threads
    BY <1>0, <1>2, ThreadSets DEF OpInv, Parking
  <2>5. \A p \in Threads : pc'[p] = "start" => p \in Cancellers \cup Notifiers
    BY <1>1 DEF OpInv, Parking
  <2> QED
    BY <1>0, <1>1, <2>1, <2>2, <2>3, <2>4, <2>5, Zenon DEF OpInv, Parking
<1>7. Boxes' /\ Consumed'
  BY <1>0, <1>3, <1>4 DEF OpInv, Boxes, Consumed
<1> QED
  BY <1>5, <1>6, <1>7 DEF OpInv

\* A finish that returns; only one that is not refused marks the operation.
LEMMA ReturnKeeps ==
    ASSUME OpInv, NEW f \in Finishers, pc[f] = "finish",
           NEW r \in Outcomes \cup {"EALREADY", "ECANCELED"}, Return(f, r),
           UNCHANGED <<kind, localVars, closes, boxVars, early>>,
           \/ r = "EALREADY" /\ op' = op
           \/ ~op.finished /\ op' = Finished(op) /\ (op.canceled => r = "ECANCELED")
    PROVE  OpInv'
<1> USE DEF boxVars, localVars
<1>0. /\ f \in Threads /\ pc' = [pc EXCEPT ![f] = "done"] /\ ret' = [ret EXCEPT ![f] = r]
      /\ Types /\ op \in OpType /\ pc \in [Threads -> Labels]
      /\ ret \in [Finishers -> Outcomes \cup {"none", "EALREADY", "ECANCELED"}]
  BY ThreadSets DEF Return, Goto, OpInv, Types, TypeOK, OpType
<1>1. pc' \in [Threads -> Labels] /\ Notifying' = Notifying /\ Started' = Started
  BY <1>0, Moves, Zenon DEF Labels
<1>2. /\ op' \in OpType /\ op'.complete = op.complete /\ op'.canceled = op.canceled
      /\ op'.notify = op.notify /\ op'.box = op.box /\ op'.waiters = op.waiters
  BY <1>0, Zenon DEF Finished, OpType
<1>3. Types'
  BY <1>0, <1>1, <1>2, Zenon DEF Types, TypeOK, OpType
<1>4. ret[f] = "none"
  BY <1>0 DEF OpInv, Parking
<1>5. Parking'
  <2>1. \A p \in Threads : p # f => pc'[p] = pc[p]
    BY <1>0
  <2>2. \A g \in op.waiters : g # f /\ g \in Threads
    BY <1>0, ThreadSets, Zenon DEF OpInv, Parking, Types, TypeOK
  <2>3. \A p \in Threads : \A g \in wakes[p] : g # f /\ g \in Threads
    BY <1>0, ThreadSets, Zenon DEF OpInv, Parking, Types, TypeOK
  <2>4. \A g \in Finishers : ret'[g] # "none" => pc'[g] = "done"
    BY <1>0, <2>1, ThreadSets DEF OpInv, Parking
  <2>5. \A p \in Threads : pc'[p] = "start" => p \in Cancellers \cup Notifiers
    BY <1>0 DEF OpInv, Parking
  <2> QED
    BY <1>2, <2>1, <2>2, <2>3, <2>4, <2>5 DEF OpInv, Parking
<1>6. Boxes'
  BY <1>1, <1>2 DEF OpInv, Boxes
<1>7. CASE r = "EALREADY" /\ op' = op
  <2>1. Consumers' = Consumers
    BY <1>0, <1>4, <1>7 DEF Consumers
  <2> QED
    BY <1>0, <1>1, <1>3, <1>5, <1>6, <1>7, <2>1 DEF OpInv, Consumed
<1>8. CASE ~op.finished /\ op' = Finished(op) /\ (op.canceled => r = "ECANCELED")
  <2>1. op'.finished = TRUE
    BY <1>0, <1>8 DEF Finished, OpType
  <2>2. Cardinality(Consumers) = 0
    BY <1>0, <1>8, ThreadSets DEF OpInv, Consumed, Flag
  <2>3. Consumers' \subseteq Consumers \cup {f}
    BY <1>0 DEF Consumers
  <2>4. Cardinality(Consumers') <= 1
    <3>1. Consumers = {}
      BY <2>2, ThreadSets, FS_EmptySet
    <3>2. Consumers' = {} \/ Consumers' = {f}
      BY <2>3, <3>1, Zenon
    <3> QED
      BY <3>2, FS_EmptySet, FS_Singleton
  <2>5. Consumed'
    BY <1>0, <1>1, <1>2, <1>8, <2>1, <2>4 DEF OpInv, Consumed, Flag
  <2> QED
    BY <1>3, <1>5, <1>6, <2>5 DEF OpInv
<1> QED
  BY <1>7, <1>8

LEMMA PollKeeps ==
    ASSUME OpInv, NEW f \in Finishers, Finish(f) \/ Park(f)
    PROVE  OpInv'
<1>0. /\ f \in Threads /\ UNCHANGED <<kind, localVars, closes, boxVars, early>>
      /\ Types /\ op \in OpType /\ pc \in [Threads -> Labels] /\ out \in [Threads -> Outcomes]
      /\ desc \in [Threads -> BOOLEAN] /\ closes \in Nat
  BY ThreadSets DEF Finish, Park, OpInv, Types, TypeOK, OpType
<1>1. CASE Finish(f) /\ (op.finished \/ op.canceled \/ op.complete)
  <2>1. op.error \in Outcomes
    BY <1>0 DEF OpType
  <2>2. PICK r \in Outcomes \cup {"EALREADY", "ECANCELED"} :
           /\ Return(f, r)
           /\ \/ r = "EALREADY" /\ op' = op
              \/ ~op.finished /\ op' = Finished(op) /\ (op.canceled => r = "ECANCELED")
    BY <1>1, <2>1 DEF Finish
  <2>3. pc[f] = "finish"
    BY <1>1 DEF Finish
  <2> QED
    BY <1>0, <2>2, <2>3, ReturnKeeps
<1>2. CASE Finish(f) /\ ~(op.finished \/ op.canceled \/ op.complete)
  <2>1. /\ pc[f] = "finish" /\ UNCHANGED <<op, ret>>
        /\ \E l \in {"deadline", "park"} : pc' = [pc EXCEPT ![f] = l]
    BY <1>2 DEF Finish, Goto
  <2> QED
    BY <1>0, <2>1, QuietMove, Zenon DEF Labels, boxVars, localVars
<1>3. CASE Park(f) /\ (op.complete \/ op.canceled \/ op.finished)
  <2>1. pc[f] = "park" /\ UNCHANGED <<op, ret>> /\ pc' = [pc EXCEPT ![f] = "finish"]
    BY <1>3 DEF Park, Goto
  <2> QED
    BY <1>0, <2>1, QuietMove, Zenon DEF Labels, boxVars, localVars
<1>4. CASE Park(f) /\ ~(op.complete \/ op.canceled \/ op.finished)
  <2>1. /\ pc[f] = "park" /\ UNCHANGED ret /\ pc' = [pc EXCEPT ![f] = "parked"]
        /\ op' = [op EXCEPT !.waiters = @ \cup {f}]
    BY <1>4 DEF Park, Goto
  <2>2. /\ pc' \in [Threads -> Labels] /\ Notifying' = Notifying /\ Started' = Started
        /\ Consumers' = Consumers
    BY <1>0, <2>1, Moves, Zenon DEF Labels, Consumers
  <2>3. /\ op' \in OpType /\ op'.complete = op.complete /\ op'.canceled = op.canceled
        /\ op'.finished = op.finished /\ op'.notify = op.notify /\ op'.box = op.box
        /\ op'.waiters = op.waiters \cup {f}
    BY <1>0, <2>1 DEF OpType
  <2>4. Types'
    BY <1>0, <2>1, <2>2, <2>3 DEF Types, TypeOK, OpType, boxVars, localVars
  <2>5. Parking'
    <3>1. \A p \in Threads : p # f => pc'[p] = pc[p]
      BY <1>0, <2>1
    <3>2. pc'[f] = "parked"
      BY <1>0, <2>1, Zenon
    <3>3. \A g \in op'.waiters : pc'[g] = "parked"
      BY <1>0, <2>3, <3>1, <3>2, ThreadSets DEF OpInv, Parking, Types, TypeOK
    <3>4. \A p \in Threads : \A g \in wakes[p] : pc'[g] = "parked" /\ g \notin op'.waiters
      BY <1>0, <2>1, <2>3, <3>1, ThreadSets DEF OpInv, Parking, Types, TypeOK
    <3>5. \A g \in Finishers : ret[g] # "none" => pc'[g] = "done"
      BY <1>0, <2>1, <3>1, ThreadSets DEF OpInv, Parking
    <3>6. \A p \in Threads : pc'[p] = "start" => p \in Cancellers \cup Notifiers
      BY <3>1, <3>2 DEF OpInv, Parking
    <3> QED
      BY <1>0, <2>1, <3>3, <3>4, <3>5, <3>6 DEF OpInv, Parking, localVars
  <2>6. Boxes' /\ Consumed'
    BY <1>0, <2>1, <2>2, <2>3 DEF OpInv, Boxes, Consumed, boxVars
  <2> QED
    BY <2>4, <2>5, <2>6 DEF OpInv
<1> QED
  BY <1>1, <1>2, <1>3, <1>4

LEMMA CancelKeeps ==
    ASSUME OpInv, NEW c \in Cancellers, Cancel(c)
    PROVE  OpInv'
<1>0. /\ c \in Threads /\ c \notin Notifiers /\ pc[c] = "start"
      /\ UNCHANGED <<kind, out, ret, closes, delivered, refusals>>
      /\ Types /\ op \in OpType /\ pc \in [Threads -> Labels]
      /\ wakes \in [Threads -> SUBSET Finishers] /\ desc \in [Threads -> BOOLEAN]
      /\ {closes, delivered, freed, refusals} \subseteq Nat /\ Consumers' = Consumers
      /\ (op.box => op.notify = "set") /\ early \in BOOLEAN
  BY ThreadSets, OpAssumption DEF Cancel, OpInv, Types, TypeOK, OpType, Consumers
<1>1. PICK l \in {"done", "stopSource", "wake"} : pc' = [pc EXCEPT ![c] = l]
  BY DEF Cancel, Goto
<1>2. pc' \in [Threads -> Labels] /\ Notifying' = Notifying /\ Started' = Started
  BY <1>0, <1>1, Moves, Zenon DEF Labels
<1>3. \A p \in Threads : p # c => pc'[p] = pc[p]
  BY <1>0, <1>1
<1>4. \A p \in Threads : pc'[p] = "start" => p \in Cancellers \cup Notifiers
  BY <1>3, <1>0 DEF OpInv, Parking
<1>5. \A f \in Finishers : ret'[f] # "none" => pc'[f] = "done"
  BY <1>0, <1>3, ThreadSets, Zenon DEF OpInv, Parking
<1>6. /\ \A f \in op.waiters : f # c /\ f \in Threads
      /\ \A p \in Threads : \A f \in wakes[p] : f # c /\ f \in Threads
  BY <1>0, ThreadSets DEF OpInv, Parking, Types, TypeOK
<1>7. CASE op.finished
  <2>1. UNCHANGED <<op, wakes, desc, freed, early>>
    BY <1>7, Zenon DEF Cancel
  <2>2. Types'
    BY <1>0, <1>2, <2>1 DEF Types, TypeOK
  <2>3. Parking'
    BY <1>0, <1>3, <1>4, <1>5, <1>6, <2>1, Zenon DEF OpInv, Parking
  <2>4. Boxes' /\ Consumed'
    BY <1>0, <1>2, <2>1 DEF OpInv, Boxes, Consumed
  <2> QED
    BY <2>2, <2>3, <2>4 DEF OpInv
<1>8. CASE ~op.finished
  <2>1. /\ op' = Cancelled(op) /\ wakes' = [wakes EXCEPT ![c] = op.waiters]
        /\ desc' = [desc EXCEPT ![c] = op.raw \/ (kind = "connect" /\ op.result)]
        /\ freed' = freed + Flag(op.box) /\ early' = (early \/ ~op.complete)
    BY <1>8 DEF Cancel, Flag
  <2>2. /\ op' \in OpType /\ op'.complete = op.complete /\ op'.canceled = TRUE
        /\ op'.finished = op.finished /\ op'.notify = op.notify /\ op'.box = FALSE
        /\ op'.waiters = {}
    BY <1>0, <2>1, Zenon DEF Cancelled, OpType
  <2>3. freed' \in Nat
    BY <1>0, <2>1, SMTT(30) DEF Flag
  <2>4. desc' \in [Threads -> BOOLEAN]
    BY <1>0, <2>1 DEF OpType
  <2>5. early' \in BOOLEAN
    BY <1>0, <2>1 DEF OpType
  <2>6. wakes' \in [Threads -> SUBSET Finishers]
    BY <1>0, <2>1, Zenon DEF OpType
  <2>7. Types'
    BY <1>0, <1>2, <2>2, <2>3, <2>4, <2>5, <2>6, Zenon DEF Types, TypeOK, OpType
  <2>8. Parking'
    <3>1. \A p \in Threads : \A f \in wakes'[p] : f # c /\ f \in Threads /\ pc[f] = "parked"
      BY <1>0, <1>6, <2>1 DEF OpInv, Parking
    <3>2. \A p, q \in Threads : p # q => wakes'[p] \cap wakes'[q] = {}
      BY <1>0, <2>1 DEF OpInv, Parking
    <3> QED
      BY <1>3, <1>4, <1>5, <2>2, <3>1, <3>2, SMTT(30) DEF Parking
  <2>9. Boxes'
    <3>1. /\ Cardinality(Notifying) \in Nat /\ Flag(op.box) \in Nat
          /\ Flag(op.notify = "sent") \in Nat
      BY ThreadSets DEF Flag
    <3>2. Flag(op'.box) = 0 /\ Flag(op'.notify = "sent") = Flag(op.notify = "sent")
      BY <2>2, Zenon DEF Flag
    <3>3. Cardinality(Started') = Flag(op'.box) + Cardinality(Notifying') + delivered' + freed'
      BY <1>0, <1>2, <2>1, <3>1, <3>2, SMTT(30) DEF OpInv, Boxes
    <3> QED
      BY <1>0, <1>2, <2>2, <3>2, <3>3 DEF OpInv, Boxes
  <2>10. Consumed'
    <3>1. ~op.complete => delivered = 0 /\ Cardinality(Notifying) = 0
      BY <1>0, ThreadSets DEF OpInv, Boxes, Flag
    <3>2. ~op.complete => delivered = 0 /\ Notifying = {}
      BY <3>1, ThreadSets, FS_EmptySet
    <3>3. Cardinality(Consumers) = 0
      BY <1>8, ThreadSets DEF OpInv, Consumed, Flag
    <3>4. Consumers = {}
      BY <3>3, ThreadSets, FS_EmptySet
    <3>5. \A f \in Finishers : ret[f] \in {"none", "EALREADY", "ECANCELED"}
      BY <3>4 DEF Consumers
    <3>6. early' => delivered = 0 /\ Notifying = {}
      BY <2>1, <3>2, Zenon DEF OpInv, Consumed
    <3> QED
      BY <1>0, <1>2, <2>2, <3>5, <3>6 DEF OpInv, Consumed
  <2> QED
    BY <2>7, <2>8, <2>9, <2>10 DEF OpInv
<1> QED
  BY <1>7, <1>8, Zenon

LEMMA NotifyKeeps ==
    ASSUME OpInv, NEW n \in Notifiers, Notify(n)
    PROVE  OpInv'
<1> DEFINE o == [op EXCEPT !.notify = "set", !.box = TRUE]
<1>0. /\ n \in Threads /\ pc[n] = "start"
      /\ UNCHANGED <<kind, localVars, ret, closes, delivered, refusals, early>>
      /\ Types /\ op \in OpType /\ pc \in [Threads -> Labels]
      /\ {closes, delivered, freed, refusals} \subseteq Nat /\ Consumers' = Consumers
      /\ (op.box => op.notify = "set") /\ Cardinality(Notifying) \in Nat
  BY ThreadSets, OpAssumption DEF Notify, OpInv, Types, TypeOK, OpType, Consumers
<1>1. /\ o \in OpType /\ o.complete = op.complete /\ o.canceled = op.canceled
      /\ o.finished = op.finished /\ o.notify = "set" /\ o.box = TRUE /\ o.waiters = op.waiters
  BY <1>0, Zenon DEF OpType
<1> HIDE DEF o
<1>2. \/ /\ op.notify # "unset" \/ op.canceled
         /\ pc' = [pc EXCEPT ![n] = "done"] /\ op' = op /\ freed' = freed + 1
      \/ /\ op.notify = "unset" /\ ~op.canceled /\ op.complete
         /\ pc' = [pc EXCEPT ![n] = "notify"] /\ freed' = freed
         /\ op' = [o EXCEPT !.notify = "sent", !.box = FALSE]
      \/ /\ op.notify = "unset" /\ ~op.canceled
         /\ pc' = [pc EXCEPT ![n] = "wake"] /\ freed' = freed /\ op' = o
  BY <1>1 DEF Notify, Goto, TakeBox, Notifies, o
<1>3. /\ op' \in OpType /\ op'.complete = op.complete /\ op'.canceled = op.canceled
      /\ op'.finished = op.finished /\ op'.waiters = op.waiters
      /\ (op'.box => op'.notify = "set")
  BY <1>0, <1>1, <1>2, ZenonT(30) DEF OpType
<1>4. PICK l \in {"done", "notify", "wake"} : pc' = [pc EXCEPT ![n] = l]
  BY <1>2
<1>5. pc' \in [Threads -> Labels] /\ Cardinality(Started') = Cardinality(Started) + 1
  BY <1>0, <1>4, Moves, Zenon DEF Labels
<1>6. freed' \in Nat
  BY <1>0, <1>2
<1>7. Types'
  BY <1>0, <1>3, <1>5, <1>6, SMTT(30) DEF Types, TypeOK, OpType, localVars
<1>8. Parking'
  <2>1. \A p \in Threads : p # n => pc'[p] = pc[p]
    BY <1>0, <1>4
  <2>2. \A p \in Threads : pc'[p] = "start" => p \in Cancellers \cup Notifiers
    BY <2>1, Zenon DEF OpInv, Parking
  <2>3. \A f \in Finishers : ret[f] # "none" => pc'[f] = "done"
    BY <1>0, <2>1, ThreadSets, Zenon DEF OpInv, Parking
  <2>4. /\ \A f \in op.waiters : f # n /\ f \in Threads
        /\ \A p \in Threads : \A f \in wakes[p] : f # n /\ f \in Threads
    BY <1>0, ThreadSets, SMTT(30) DEF OpInv, Parking, Types, TypeOK
  <2> QED
    BY <1>0, <1>3, <2>1, <2>2, <2>3, <2>4, SMTT(30) DEF OpInv, Parking, localVars
<1>9. CASE pc' = [pc EXCEPT ![n] = "done"] /\ op' = op /\ freed' = freed + 1
  <2>1. Notifying' = Notifying
    BY <1>0, <1>9, Moves, Zenon DEF Labels
  <2>2. Flag(op.box) \in Nat
    BY Zenon DEF Flag
  <2>3. Boxes'
    BY <1>0, <1>5, <1>9, <2>1, <2>2, SMTT(30) DEF OpInv, Boxes
  <2>4. Consumed'
    BY <1>0, <1>9, <2>1 DEF OpInv, Consumed
  <2> QED
    BY <1>7, <1>8, <2>3, <2>4 DEF OpInv
<1>10. CASE /\ op.notify = "unset" /\ ~op.canceled /\ op.complete
            /\ pc' = [pc EXCEPT ![n] = "notify"] /\ freed' = freed
            /\ op' = [o EXCEPT !.notify = "sent", !.box = FALSE]
  <2>1. Cardinality(Notifying') = Cardinality(Notifying) + 1
    BY <1>0, <1>10, Moves, Zenon DEF Labels
  <2>2. op'.notify = "sent" /\ op'.box = FALSE
    BY <1>1, <1>10 DEF OpType
  <2>3. op.box = FALSE
    BY <1>0, <1>10 DEF OpType
  <2>4. Boxes'
    BY <1>0, <1>3, <1>5, <1>10, <2>1, <2>2, <2>3 DEF OpInv, Boxes, Flag
  <2>5. early = FALSE
    BY <1>0, <1>10 DEF OpInv, Consumed, Types
  <2>6. Consumed'
    BY <1>0, <1>3, <2>5 DEF OpInv, Consumed
  <2> QED
    BY <1>7, <1>8, <2>4, <2>6 DEF OpInv
<1>11. CASE /\ op.notify = "unset" /\ ~op.canceled
            /\ pc' = [pc EXCEPT ![n] = "wake"] /\ freed' = freed /\ op' = o
  <2>1. Notifying' = Notifying
    BY <1>0, <1>11, Moves, Zenon DEF Labels
  <2>2. op'.notify = "set" /\ op'.box = TRUE
    BY <1>1, <1>11, Zenon
  <2>3. op.box = FALSE
    BY <1>0, <1>11, Zenon DEF OpType
  <2>4. Boxes'
    BY <1>0, <1>3, <1>5, <1>11, <2>1, <2>2, <2>3 DEF OpInv, Boxes, Flag
  <2>5. Consumed'
    BY <1>0, <1>3, <2>1 DEF OpInv, Consumed
  <2> QED
    BY <1>7, <1>8, <2>4, <2>5 DEF OpInv
<1> QED
  BY <1>2, <1>9, <1>10, <1>11

LEMMA OpStep == OpInv /\ [Next]_vars => OpInv'
  BY QuietSteps, CompleteKeeps, NotifySendKeeps, WakeKeeps, PollKeeps, CancelKeeps, NotifyKeeps
     DEF Next, Step, Poll

\* "Exactly one path may consume the result" and the notification box, and after a
\* cancel that comes before the completion neither a result nor a message is seen: for
\* any number of threads in ciel_async_finish_*, ciel_async_cancel and ciel_async_notify.
THEOREM ConsumedOnceTheorem == Spec => []ConsumedOnce
<1>1. OpInv => ConsumedOnce
  <2> SUFFICES ASSUME OpInv PROVE ConsumedOnce
    OBVIOUS
  <2>1. OneFinish
    BY ThreadSets DEF OpInv, Types, Consumed, Consumers, OneFinish, Flag
  <2>2. BoxConserved
    <3>1. {delivered, freed} \subseteq Nat /\ Flag(op.notify = "sent") \in {0, 1}
      BY DEF OpInv, Types, TypeOK, Flag
    <3>2. delivered <= 1
      BY <3>1, ThreadSets DEF OpInv, Boxes
    <3> QED
      BY <3>2 DEF OpInv, Boxes, BoxConserved, Notifying, Started
  <2>3. NoNoticeAfterCancel
    BY DEF OpInv, Consumed, Notifying, NoNoticeAfterCancel
  <2> QED
    BY <2>1, <2>2, <2>3 DEF ConsumedOnce
<1> QED
  BY <1>1, OpInit, OpStep, PTL DEF Spec
-----------------------------------------------------------------------------
(* The descriptor of a connect.                                            *)

Holding == {t \in Threads : desc[t]}
Handed == {f \in Finishers : ret[f] = "ok"}

\* What the labels of the threads tell of the operation.
Labelled ==
    /\ \A t \in Threads : pc[t] = "start" => ~desc[t]
    /\ \A t \in Threads : pc[t] = "refused" => refusals > 0
    /\ \A t \in Threads : pc[t] = "deadline" => kind = "sleep"
    /\ \A t \in Threads : pc[t] \in {"cancelSource", "complete"} => t = "cb" \/ kind = "sleep"

\* Until the callback has completed the operation there is no result; the outcome it
\* has in hand tells whether it has the descriptor.
InCallback ==
    kind = "connect" =>
        /\ pc["cb"] \in {"armed", "takeRaw", "cancelSource", "complete"} =>
               ~op.result /\ ~op.complete
        /\ pc["cb"] \in {"armed", "takeRaw"} => ~desc["cb"]
        /\ pc["cb"] \in {"cancelSource", "complete"} => (desc["cb"] <=> out["cb"] = "ok")

\* A cancel takes all there is; a result comes with the code that says so.
Coded ==
    kind = "connect" =>
        /\ op.canceled => ~op.raw /\ ~op.result
        /\ refusals = 0 /\ op.complete /\ ~op.canceled /\ ~op.finished =>
               (op.result <=> op.error = "ok")

Conserved ==
    kind = "connect" /\ refusals = 0 =>
        Flag(op.raw) + Flag(op.result) + Cardinality(Holding) + Cardinality(Handed) + closes = 1

DescInv == Labelled /\ InCallback /\ Coded /\ Conserved
\* One thread takes or gives up the descriptor.
LEMMA HoldingMoves ==
    ASSUME Types, NEW t \in Threads, NEW b \in BOOLEAN, desc' = [desc EXCEPT ![t] = b]
    PROVE  Cardinality(Holding') = Cardinality(Holding) + Flag(b) - Flag(desc[t])
<1>0. desc \in [Threads -> BOOLEAN] /\ IsFiniteSet(Threads)
  BY ThreadsFinite DEF Types
<1>1. IsFiniteSet(Holding) /\ Cardinality(Holding) \in Nat
  BY <1>0, FS_Subset, FS_CardinalityType DEF Holding
<1>2. CASE b = desc[t]
  <2>1. Holding' = Holding
    BY <1>0, <1>2 DEF Holding
  <2>2. Flag(b) = Flag(desc[t]) /\ Flag(b) \in Nat
    BY <1>2 DEF Flag
  <2> QED
    BY <1>1, <2>1, <2>2
<1>3. CASE b = TRUE /\ desc[t] = FALSE
  <2>1. Holding' = Holding \cup {t} /\ t \notin Holding
    BY <1>0, <1>3 DEF Holding
  <2>2. Cardinality(Holding') = Cardinality(Holding) + 1
    BY <1>1, <2>1, FS_AddElement, Zenon
  <2>3. Flag(b) = 1 /\ Flag(desc[t]) = 0
    BY <1>3 DEF Flag
  <2> QED
    BY <1>1, <2>2, <2>3
<1>4. CASE b = FALSE /\ desc[t] = TRUE
  <2>1. Holding' = Holding \ {t} /\ t \in Holding
    BY <1>0, <1>4 DEF Holding
  <2>2. Cardinality(Holding') = Cardinality(Holding) - 1
    BY <1>1, <2>1, FS_RemoveElement, Zenon
  <2>3. Flag(b) = 0 /\ Flag(desc[t]) = 1
    BY <1>4 DEF Flag
  <2> QED
    BY <1>1, <2>2, <2>3
<1>5. b \in {TRUE, FALSE} /\ desc[t] \in {TRUE, FALSE}
  BY <1>0, Zenon
<1> QED
  BY <1>2, <1>3, <1>4, <1>5, Zenon

LEMMA HoldingEnds ==
    ASSUME Types, NEW t \in Threads, desc' = [desc EXCEPT ![t] = FALSE]
    PROVE  Cardinality(Holding') = Cardinality(Holding) - Flag(desc[t])
<1>0. desc \in [Threads -> BOOLEAN] /\ IsFiniteSet(Threads)
  BY ThreadsFinite DEF Types
<1>1. IsFiniteSet(Holding) /\ Cardinality(Holding) \in Nat
  BY <1>0, FS_Subset, FS_CardinalityType DEF Holding
<1>2. CASE desc[t]
  <2>1. Holding' = Holding \ {t} /\ t \in Holding
    BY <1>0, <1>2 DEF Holding
  <2>2. Cardinality(Holding') = Cardinality(Holding) - 1
    BY <1>1, <2>1, FS_RemoveElement, Zenon
  <2> QED
    BY <1>2, <2>2 DEF Flag
<1>3. CASE ~desc[t]
  <2>1. Holding' = Holding
    BY <1>0, <1>3 DEF Holding
  <2> QED
    BY <1>1, <1>3, <2>1 DEF Flag
<1> QED
  BY <1>2, <1>3

\* One finish returns.
LEMMA HandedMoves ==
    ASSUME Types, NEW f \in Finishers, NEW r, ret' = [ret EXCEPT ![f] = r], ret[f] = "none"
    PROVE  Cardinality(Handed') = Cardinality(Handed) + Flag(r = "ok")
<1>0. /\ ret \in [Finishers -> Outcomes \cup {"none", "EALREADY", "ECANCELED"}]
      /\ IsFiniteSet(Threads)
  BY ThreadsFinite DEF Types, TypeOK
<1>1. Handed \in SUBSET Threads
  BY DEF Handed, Threads
<1>2. IsFiniteSet(Handed) /\ Cardinality(Handed) \in Nat
  BY <1>0, <1>1, FS_Subset, FS_CardinalityType
<1>3. CASE r = "ok"
  <2>1. Handed' = Handed \cup {f} /\ f \notin Handed
    BY <1>0, <1>3 DEF Handed
  <2> QED
    BY <1>2, <1>3, <2>1, FS_AddElement DEF Flag
<1>4. CASE r # "ok"
  <2>1. Handed' = Handed
    BY <1>0, <1>4 DEF Handed
  <2> QED
    BY <1>2, <1>4, <2>1 DEF Flag
<1> QED
  BY <1>3, <1>4

\* What the taking of the box leaves alone.
LEMMA TakeBoxFields ==
    ASSUME NEW t, NEW o \in OpType, TakeBox(t, o)
    PROVE  /\ op'.complete = o.complete /\ op'.canceled = o.canceled /\ op'.finished = o.finished
           /\ op'.error = o.error /\ op'.result = o.result /\ op'.raw = o.raw
           /\ \E l \in {"notify", "wake"} : pc' = [pc EXCEPT ![t] = l]
  BY Zenon DEF TakeBox, OpType, Goto

LEMMA LabelledStep == OpInv /\ DescInv /\ [Next]_vars => Labelled'
<1> SUFFICES ASSUME OpInv, DescInv, [Next]_vars PROVE Labelled'
  OBVIOUS
<1>0. /\ op \in OpType /\ pc \in [Threads -> Labels] /\ out \in [Threads -> Outcomes]
      /\ desc \in [Threads -> BOOLEAN] /\ wakes \in [Threads -> SUBSET Finishers]
      /\ refusals \in Nat /\ "cb" \in Threads /\ "cb" \notin Finishers \cup Cancellers \cup Notifiers
      /\ Labelled
  BY OpAssumption DEF OpInv, DescInv, Types, TypeOK, OpType, Threads
<1> USE DEF Goto, boxVars, localVars
<1>1. CASE TimePasses
  BY <1>0, <1>1 DEF TimePasses, Labelled, OpType
<1>2. CASE Fire
  BY <1>0, <1>2 DEF Fire, Labelled, OpType
<1>3. CASE TakeRaw
  BY <1>0, <1>3 DEF TakeRaw, Labelled, OpType
<1>4. ASSUME NEW t \in Threads, CancelSource(t) PROVE Labelled'
  BY <1>0, <1>4 DEF CancelSource, Labelled, OpType
<1>5. ASSUME NEW t \in Threads, Complete(t) PROVE Labelled'
  BY <1>0, <1>5 DEF Complete, TakeBox, Labelled, OpType
<1>6. ASSUME NEW t \in Threads, CompleteStream(t) PROVE Labelled'
  BY <1>0, <1>6 DEF CompleteStream, TakeBox, Labelled, OpType
<1>7. ASSUME NEW t \in Threads, NotifySend(t) PROVE Labelled'
  BY <1>0, <1>7 DEF NotifySend, Labelled, OpType
<1>8. ASSUME NEW t \in Threads, NotifyRefused(t) PROVE Labelled'
  BY <1>0, <1>8, Zenon DEF NotifyRefused, Labelled, OpType
<1>9. ASSUME NEW t \in Threads, Wake(t) PROVE Labelled'
  BY <1>0, <1>9 DEF Wake, Labelled, OpType
<1>10. ASSUME NEW f \in Finishers, Finish(f) PROVE Labelled'
  BY <1>0, <1>10, ThreadSets, SMTT(30) DEF Finish, Return, Finished, Labelled, OpType
<1>11. ASSUME NEW f \in Finishers, Deadline(f) PROVE Labelled'
  BY <1>0, <1>11, ThreadSets DEF Deadline, Labelled, OpType
<1>12. ASSUME NEW f \in Finishers, Park(f) PROVE Labelled'
  BY <1>0, <1>12, ThreadSets DEF Park, Labelled, OpType
<1>13. ASSUME NEW c \in Cancellers, Cancel(c) PROVE Labelled'
  BY <1>0, <1>13, ThreadSets DEF Cancel, Cancelled, Labelled, OpType
<1>14. ASSUME NEW c \in Cancellers, StopSource(c) PROVE Labelled'
  BY <1>0, <1>14, ThreadSets, SMTT(30) DEF StopSource, Labelled, OpType
<1>15. ASSUME NEW n \in Notifiers, Notify(n) PROVE Labelled'
  BY <1>0, <1>15, ThreadSets DEF Notify, TakeBox, Labelled, OpType
<1>16. CASE UNCHANGED vars
  BY <1>0, <1>16 DEF vars, Labelled, OpType
<1> QED
  BY <1>1, <1>2, <1>3, <1>4, <1>5, <1>6, <1>7, <1>8, <1>9, <1>10, <1>11, <1>12, <1>13, <1>14, <1>15, <1>16 DEF Next, Step, Poll

LEMMA InCallbackStep == OpInv /\ DescInv /\ [Next]_vars => InCallback'
<1> SUFFICES ASSUME OpInv, DescInv, [Next]_vars PROVE InCallback'
  OBVIOUS
<1>0. /\ op \in OpType /\ pc \in [Threads -> Labels] /\ out \in [Threads -> Outcomes]
      /\ desc \in [Threads -> BOOLEAN] /\ wakes \in [Threads -> SUBSET Finishers]
      /\ refusals \in Nat /\ "cb" \in Threads /\ "cb" \notin Finishers \cup Cancellers \cup Notifiers
      /\ InCallback
  BY OpAssumption, Zenon DEF OpInv, DescInv, Types, TypeOK, OpType, Threads
<1> USE DEF Goto, boxVars, localVars
<1>1. CASE TimePasses
  BY <1>0, <1>1 DEF TimePasses, InCallback, OpType
<1>2. CASE Fire
  BY <1>0, <1>2 DEF Fire, InCallback, OpType
<1>3. CASE TakeRaw
  BY <1>0, <1>3 DEF TakeRaw, InCallback, OpType
<1>4. ASSUME NEW t \in Threads, CancelSource(t) PROVE InCallback'
  BY <1>0, <1>4 DEF CancelSource, InCallback, OpType
<1>5. ASSUME NEW t \in Threads, Complete(t) PROVE InCallback'
  BY <1>0, <1>5 DEF Complete, TakeBox, InCallback, OpType
<1>6. ASSUME NEW t \in Threads, CompleteStream(t) PROVE InCallback'
  <2> DEFINE o == [op EXCEPT !.complete = TRUE, !.waiters = {},
                             !.error = IF op.canceled THEN @ ELSE out[t],
                             !.result = IF op.canceled THEN @ ELSE desc[t]]
  <2>1. /\ o \in OpType /\ o.complete = TRUE /\ o.canceled = op.canceled /\ o.finished = op.finished
        /\ o.error = (IF op.canceled THEN op.error ELSE out[t]) /\ o.raw = op.raw
        /\ o.result = (IF op.canceled THEN op.result ELSE desc[t])
    BY <1>0, Zenon DEF OpType
  <2>2. /\ TakeBox(t, o) /\ desc' = [desc EXCEPT ![t] = @ /\ op.canceled] /\ kind = "connect"
        /\ UNCHANGED <<kind, out, refusals, ret, closes>> /\ pc[t] = "complete"
    BY <1>6 DEF CompleteStream, boxVars
  <2>3. t = "cb"
    BY <2>2, SMTT(30) DEF DescInv, Labelled
  <2> HIDE DEF o
  <2>4. pc'["cb"] \in {"notify", "wake"}
    BY <1>0, <2>1, <2>2, <2>3, TakeBoxFields
  <2> QED
    BY <2>4 DEF InCallback
<1>7. ASSUME NEW t \in Threads, NotifySend(t) PROVE InCallback'
  BY <1>0, <1>7 DEF NotifySend, InCallback, OpType
<1>8. ASSUME NEW t \in Threads, NotifyRefused(t) PROVE InCallback'
  BY <1>0, <1>8, SMTT(30) DEF NotifyRefused, InCallback, OpType
<1>9. ASSUME NEW t \in Threads, Wake(t) PROVE InCallback'
  BY <1>0, <1>9 DEF Wake, InCallback, OpType
<1>10. ASSUME NEW f \in Finishers, Finish(f) PROVE InCallback'
  BY <1>0, <1>10, ThreadSets, Zenon DEF Finish, Return, Finished, InCallback, OpType
<1>11. ASSUME NEW f \in Finishers, Deadline(f) PROVE InCallback'
  BY <1>0, <1>11, ThreadSets, Zenon DEF Deadline, InCallback, OpType
<1>12. ASSUME NEW f \in Finishers, Park(f) PROVE InCallback'
  BY <1>0, <1>12, ThreadSets DEF Park, InCallback, OpType
<1>13. ASSUME NEW c \in Cancellers, Cancel(c) PROVE InCallback'
  BY <1>0, <1>13, ThreadSets, ZenonT(30) DEF Cancel, Cancelled, InCallback, OpType
<1>14. ASSUME NEW c \in Cancellers, StopSource(c) PROVE InCallback'
  BY <1>0, <1>14, ThreadSets DEF StopSource, InCallback, OpType
<1>15. ASSUME NEW n \in Notifiers, Notify(n) PROVE InCallback'
  <2> DEFINE o == [op EXCEPT !.notify = "set", !.box = TRUE]
  <2>1. /\ o \in OpType /\ o.complete = op.complete /\ o.canceled = op.canceled
        /\ o.finished = op.finished /\ o.error = op.error /\ o.raw = op.raw /\ o.result = op.result
    BY <1>0, Zenon DEF OpType
  <2>2. /\ op' = op \/ TakeBox(n, o)
        /\ UNCHANGED <<kind, out, desc, refusals, ret, closes>>
        /\ n \in Threads /\ n # "cb"
    BY <1>0, <1>15, ThreadSets DEF Notify
  <2>3. \E l \in {"done", "notify", "wake"} : pc' = [pc EXCEPT ![n] = l]
    BY <1>15, Zenon DEF Notify, TakeBox
  <2> HIDE DEF o
  <2>4. /\ op'.complete = op.complete /\ op'.canceled = op.canceled /\ op'.finished = op.finished
        /\ op'.error = op.error /\ op'.raw = op.raw /\ op'.result = op.result
    BY <2>1, <2>2, TakeBoxFields, SMTT(30)
  <2> QED
    BY <1>0, <2>2, <2>3, <2>4, Zenon DEF InCallback
<1>16. CASE UNCHANGED vars
  BY <1>0, <1>16 DEF vars, InCallback, OpType
<1> QED
  BY <1>1, <1>2, <1>3, <1>4, <1>5, <1>6, <1>7, <1>8, <1>9, <1>10, <1>11, <1>12, <1>13, <1>14, <1>15, <1>16 DEF Next, Step, Poll

LEMMA CodedStep == OpInv /\ DescInv /\ [Next]_vars => Coded'
<1> SUFFICES ASSUME OpInv, DescInv, [Next]_vars PROVE Coded'
  OBVIOUS
<1>0. /\ op \in OpType /\ pc \in [Threads -> Labels] /\ out \in [Threads -> Outcomes]
      /\ desc \in [Threads -> BOOLEAN] /\ wakes \in [Threads -> SUBSET Finishers]
      /\ refusals \in Nat /\ "cb" \in Threads /\ "cb" \notin Finishers \cup Cancellers \cup Notifiers
      /\ Coded
  BY OpAssumption DEF OpInv, DescInv, Types, TypeOK, OpType, Threads
<1> USE DEF Goto, boxVars, localVars
<1>1. CASE TimePasses
  BY <1>0, <1>1 DEF TimePasses, Coded, OpType, Outcomes
<1>2. CASE Fire
  BY <1>0, <1>2 DEF Fire, Coded, OpType, Outcomes
<1>3. CASE TakeRaw
  BY <1>0, <1>3 DEF TakeRaw, Coded, OpType, Outcomes
<1>4. ASSUME NEW t \in Threads, CancelSource(t) PROVE Coded'
  BY <1>0, <1>4 DEF CancelSource, Coded, OpType, Outcomes
<1>5. ASSUME NEW t \in Threads, Complete(t) PROVE Coded'
  BY <1>0, <1>5, Zenon DEF Complete, TakeBox, Coded, OpType, Outcomes
<1>6. ASSUME NEW t \in Threads, CompleteStream(t) PROVE Coded'
  <2> DEFINE o == [op EXCEPT !.complete = TRUE, !.waiters = {},
                             !.error = IF op.canceled THEN @ ELSE out[t],
                             !.result = IF op.canceled THEN @ ELSE desc[t]]
  <2>1. /\ o \in OpType /\ o.complete = TRUE /\ o.canceled = op.canceled /\ o.finished = op.finished
        /\ o.error = (IF op.canceled THEN op.error ELSE out[t]) /\ o.raw = op.raw
        /\ o.result = (IF op.canceled THEN op.result ELSE desc[t])
    BY <1>0, Zenon DEF OpType
  <2>2. /\ TakeBox(t, o) /\ desc' = [desc EXCEPT ![t] = @ /\ op.canceled] /\ kind = "connect"
        /\ UNCHANGED <<kind, out, refusals, ret, closes>> /\ pc[t] = "complete"
    BY <1>6 DEF CompleteStream, boxVars
  <2>3. t = "cb"
    BY <2>2 DEF DescInv, Labelled
  <2> HIDE DEF o
  <2>4. /\ op'.complete = TRUE /\ op'.canceled = op.canceled /\ op'.raw = op.raw
        /\ op'.result = (IF op.canceled THEN op.result ELSE desc["cb"])
        /\ op'.error = (IF op.canceled THEN op.error ELSE out["cb"])
    BY <2>1, <2>2, <2>3, TakeBoxFields
  <2>5. desc["cb"] <=> out["cb"] = "ok"
    BY <2>2, <2>3, Zenon DEF DescInv, InCallback
  <2> QED
    BY <1>0, <2>2, <2>4, <2>5, Zenon DEF Coded, OpType
<1>7. ASSUME NEW t \in Threads, NotifySend(t) PROVE Coded'
  BY <1>0, <1>7 DEF NotifySend, Coded, OpType, Outcomes
<1>8. ASSUME NEW t \in Threads, NotifyRefused(t) PROVE Coded'
  <2>1. refusals > 0
    BY <1>8, Zenon DEF DescInv, Labelled, NotifyRefused
  <2> QED
    BY <1>0, <1>8, <2>1 DEF NotifyRefused, Coded, OpType
<1>9. ASSUME NEW t \in Threads, Wake(t) PROVE Coded'
  BY <1>0, <1>9 DEF Wake, Coded, OpType, Outcomes
<1>10. ASSUME NEW f \in Finishers, Finish(f) PROVE Coded'
  BY <1>0, <1>10, ThreadSets, Zenon DEF Finish, Return, Finished, Coded, OpType, Outcomes
<1>11. ASSUME NEW f \in Finishers, Deadline(f) PROVE Coded'
  BY <1>0, <1>11, ThreadSets, Zenon DEF Deadline, Coded, OpType, Outcomes
<1>12. ASSUME NEW f \in Finishers, Park(f) PROVE Coded'
  BY <1>0, <1>12, ThreadSets DEF Park, Coded, OpType, Outcomes
<1>13. ASSUME NEW c \in Cancellers, Cancel(c) PROVE Coded'
  BY <1>0, <1>13, ThreadSets, ZenonT(30) DEF Cancel, Cancelled, Coded, OpType, Outcomes
<1>14. ASSUME NEW c \in Cancellers, StopSource(c) PROVE Coded'
  BY <1>0, <1>14, ThreadSets DEF StopSource, Coded, OpType, Outcomes
<1>15. ASSUME NEW n \in Notifiers, Notify(n) PROVE Coded'
  <2> DEFINE o == [op EXCEPT !.notify = "set", !.box = TRUE]
  <2>1. /\ o \in OpType /\ o.complete = op.complete /\ o.canceled = op.canceled
        /\ o.finished = op.finished /\ o.error = op.error /\ o.raw = op.raw /\ o.result = op.result
    BY <1>0, Zenon DEF OpType
  <2>2. /\ op' = op \/ TakeBox(n, o)
        /\ UNCHANGED <<kind, out, desc, refusals, ret, closes>>
        /\ n \in Threads /\ n # "cb"
    BY <1>0, <1>15, ThreadSets DEF Notify
  <2>3. \E l \in {"done", "notify", "wake"} : pc' = [pc EXCEPT ![n] = l]
    BY <1>15 DEF Notify, TakeBox
  <2> HIDE DEF o
  <2>4. /\ op'.complete = op.complete /\ op'.canceled = op.canceled /\ op'.finished = op.finished
        /\ op'.error = op.error /\ op'.raw = op.raw /\ op'.result = op.result
    BY <2>1, <2>2, TakeBoxFields
  <2> QED
    BY <1>0, <2>2, <2>4, Zenon DEF Coded
<1>16. CASE UNCHANGED vars
  BY <1>0, <1>16, Zenon DEF vars, Coded, OpType, Outcomes
<1> QED
  BY <1>1, <1>2, <1>3, <1>4, <1>5, <1>6, <1>7, <1>8, <1>9, <1>10, <1>11, <1>12, <1>13, <1>14, <1>15, <1>16 DEF Next, Step, Poll

\* The descriptor moves from one place to the next.
LEMMA ConservedStep == OpInv /\ DescInv /\ [Next]_vars => Conserved'
<1> SUFFICES ASSUME OpInv, DescInv, [Next]_vars, kind' = "connect", refusals' = 0
             PROVE  Flag(op'.raw) + Flag(op'.result) + Cardinality(Holding')
                    + Cardinality(Handed') + closes' = 1
  BY Zenon DEF Conserved
<1>0. /\ Types /\ op \in OpType /\ pc \in [Threads -> Labels] /\ out \in [Threads -> Outcomes]
      /\ desc \in [Threads -> BOOLEAN] /\ "cb" \in Threads
      /\ {refusals, closes} \subseteq Nat
  BY DEF OpInv, Types, TypeOK, OpType, Threads
<1>1. kind = "connect" /\ refusals = 0
  <2>1. kind' = kind
    BY Zenon DEF Next, vars, Step, Poll, TimePasses, Fire, TakeRaw, CancelSource, Complete, CompleteStream,
           NotifySend, NotifyRefused, Wake, Finish, Deadline, Park, Cancel, StopSource, Notify
  <2>2. refusals' = refusals \/ refusals' = refusals + 1
    BY Zenon DEF Next, vars, boxVars, Step, Poll, TimePasses, Fire, TakeRaw, CancelSource, Complete,
           CompleteStream, NotifySend, NotifyRefused, Wake, Finish, Deadline, Park, Cancel,
           StopSource, Notify
  <2> QED
    BY <1>0, <2>1, <2>2
<1>2. Flag(op.raw) + Flag(op.result) + Cardinality(Holding) + Cardinality(Handed) + closes = 1
  BY <1>1 DEF DescInv, Conserved
<1>3. /\ Cardinality(Holding) \in Nat /\ Cardinality(Handed) \in Nat
      /\ {Flag(op.raw), Flag(op.result)} \subseteq {0, 1}
  <2>1. Holding \in SUBSET Threads /\ Handed \in SUBSET Threads
    BY DEF Holding, Handed, Threads
  <2> QED
    BY <2>1, ThreadsFinite, FS_Subset, FS_CardinalityType DEF Flag
<1>4. ASSUME op'.raw = op.raw, op'.result = op.result, UNCHANGED <<desc, ret, closes>>
      PROVE  Flag(op'.raw) + Flag(op'.result) + Cardinality(Holding')
             + Cardinality(Handed') + closes' = 1
  <2>1. Holding' = Holding /\ Handed' = Handed
    BY <1>4 DEF Holding, Handed
  <2> QED
    BY <1>2, <1>4, <2>1
<1>5. CASE TimePasses \/ Fire \/ UNCHANGED vars
  BY <1>4, <1>5 DEF TimePasses, Fire, vars, localVars
<1>6. ASSUME NEW t \in Threads, CancelSource(t) \/ NotifyRefused(t) \/ NotifySend(t)
      PROVE  op'.raw = op.raw /\ op'.result = op.result /\ UNCHANGED <<desc, ret, closes>>
  BY <1>0, <1>6 DEF CancelSource, NotifyRefused, NotifySend, localVars, OpType
<1>7. ASSUME NEW f \in Finishers, Deadline(f) \/ Park(f)
      PROVE  op'.raw = op.raw /\ op'.result = op.result /\ UNCHANGED <<desc, ret, closes>>
  BY <1>0, <1>7 DEF Deadline, Park, localVars, OpType
<1>8. ASSUME NEW c \in Cancellers, StopSource(c)
      PROVE  op'.raw = op.raw /\ op'.result = op.result /\ UNCHANGED <<desc, ret, closes>>
  BY <1>0, <1>1, <1>8 DEF StopSource, localVars
<1>9. ASSUME NEW n \in Notifiers, Notify(n)
      PROVE  op'.raw = op.raw /\ op'.result = op.result /\ UNCHANGED <<desc, ret, closes>>
  <2> DEFINE o == [op EXCEPT !.notify = "set", !.box = TRUE]
  <2>1. o \in OpType /\ o.raw = op.raw /\ o.result = op.result
    BY <1>0, Zenon DEF OpType
  <2>2. (op' = op \/ TakeBox(n, o)) /\ UNCHANGED <<desc, ret, closes>>
    BY <1>9 DEF Notify, localVars
  <2> HIDE DEF o
  <2> QED
    BY <2>1, <2>2, TakeBoxFields
<1>10. CASE TakeRaw
  <2>1. /\ op'.raw = FALSE /\ op'.result = op.result /\ Handed' = Handed
        /\ desc' = [desc EXCEPT !["cb"] = op.raw /\ out["cb"] = "ok"]
        /\ closes' = closes + IF op.raw /\ out["cb"] # "ok" THEN 1 ELSE 0
    BY <1>0, <1>10 DEF TakeRaw, OpType, Handed
  <2>2. (op.raw /\ out["cb"] = "ok") \in BOOLEAN
    BY <1>0 DEF OpType
  <2>3. ~desc["cb"]
    BY <1>1, <1>10 DEF DescInv, InCallback, TakeRaw
  <2>4. Cardinality(Holding') = Cardinality(Holding) + Flag(op.raw /\ out["cb"] = "ok") - Flag(desc["cb"])
    BY <1>0, <2>1, <2>2, HoldingMoves, Zenon
  <2>5. Flag(desc["cb"]) = 0 /\ Flag(op'.raw) = 0 /\ Flag(op'.result) = Flag(op.result)
    BY <2>1, <2>3, SMTT(30) DEF Flag
  <2>6. CASE op.raw
    <3>1. Flag(op.raw) = 1 /\ closes' + Flag(op.raw /\ out["cb"] = "ok") = closes + 1
      BY <1>0, <2>1, <2>6 DEF Flag
    <3>2. closes' \in Nat /\ Flag(op.raw /\ out["cb"] = "ok") \in Nat
      BY <1>0, <2>1, SMTT(30) DEF Flag
    <3> QED
      BY <1>0, <1>2, <1>3, <2>1, <2>4, <2>5, <3>1, <3>2
  <2>7. CASE ~op.raw
    <3>1. Flag(op.raw) = 0 /\ closes' = closes /\ Flag(op.raw /\ out["cb"] = "ok") = 0
      BY <1>0, <2>1, <2>7 DEF Flag
    <3> QED
      BY <1>0, <1>2, <1>3, <2>1, <2>4, <2>5, <3>1
  <2> QED
    BY <2>6, <2>7
<1>11. ASSUME NEW t \in Threads, CompleteStream(t)
       PROVE  Flag(op'.raw) + Flag(op'.result) + Cardinality(Holding')
              + Cardinality(Handed') + closes' = 1
  <2> DEFINE o == [op EXCEPT !.complete = TRUE, !.waiters = {},
                             !.error = IF op.canceled THEN @ ELSE out[t],
                             !.result = IF op.canceled THEN @ ELSE desc[t]]
  <2>1. /\ o \in OpType /\ o.complete = TRUE /\ o.canceled = op.canceled /\ o.finished = op.finished
        /\ o.error = (IF op.canceled THEN op.error ELSE out[t]) /\ o.raw = op.raw
        /\ o.result = (IF op.canceled THEN op.result ELSE desc[t])
    BY <1>0, Zenon DEF OpType
  <2>2. /\ TakeBox(t, o) /\ desc' = [desc EXCEPT ![t] = @ /\ op.canceled] /\ kind = "connect"
        /\ UNCHANGED <<kind, out, refusals, ret, closes>> /\ pc[t] = "complete"
    BY <1>11 DEF CompleteStream, boxVars
  <2>3. t = "cb"
    BY <2>2 DEF DescInv, Labelled
  <2> HIDE DEF o
  <2>4. /\ op'.raw = op.raw /\ Handed' = Handed
        /\ op'.result = (IF op.canceled THEN op.result ELSE desc[t])
    BY <2>1, <2>2, TakeBoxFields, Zenon DEF Handed
  <2>5. CASE op.canceled
    <3>1. desc' = desc /\ op'.result = op.result
      BY <1>0, <2>2, <2>4, <2>5, SMTT(30)
    <3> QED
      BY <1>4, <2>2, <2>4, <3>1, SMTT(30)
  <2>6. CASE ~op.canceled
    <3>1. desc' = [desc EXCEPT ![t] = FALSE] /\ op'.result = desc[t]
      BY <1>0, <2>2, <2>4, <2>6, Zenon
    <3>2. Cardinality(Holding') = Cardinality(Holding) - Flag(desc[t])
      BY <1>0, <3>1, HoldingEnds, Zenon
    <3>3. ~op.result
      BY <2>2, <2>3 DEF DescInv, InCallback
    <3>4. /\ Flag(op'.result) = Flag(desc[t]) /\ Flag(op.result) = 0
          /\ Flag(op'.raw) = Flag(op.raw) /\ Flag(desc[t]) \in Nat
      BY <2>4, <3>1, <3>3, Zenon DEF Flag
    <3> QED
      BY <1>0, <1>2, <1>3, <2>2, <2>4, <3>2, <3>4, SMTT(30)
  <2> QED
    BY <2>5, <2>6
<1>12. ASSUME NEW t \in Threads, Wake(t)
       PROVE  Flag(op'.raw) + Flag(op'.result) + Cardinality(Holding')
              + Cardinality(Handed') + closes' = 1
  <2>1. /\ op' = op /\ Handed' = Handed /\ desc' = [desc EXCEPT ![t] = FALSE]
        /\ closes' = closes + Flag(desc[t])
    BY <1>12 DEF Wake, Handed, Flag
  <2>2. Cardinality(Holding') = Cardinality(Holding) - Flag(desc[t])
    BY <1>0, <2>1, HoldingEnds, Zenon
  <2>3. /\ Flag(desc[t]) \in Nat
        /\ Flag(op'.raw) = Flag(op.raw) /\ Flag(op'.result) = Flag(op.result)
    BY <2>1, Zenon DEF Flag
  <2> QED
    BY <1>0, <1>2, <1>3, <2>1, <2>2, <2>3, SMTT(30)
<1>13. ASSUME NEW f \in Finishers, Finish(f)
       PROVE  Flag(op'.raw) + Flag(op'.result) + Cardinality(Holding')
              + Cardinality(Handed') + closes' = 1
  <2>1. Holding' = Holding /\ closes' = closes /\ pc[f] = "finish"
    BY <1>13 DEF Finish, Holding, localVars
  <2>2. ret[f] = "none"
    BY <2>1, Zenon DEF OpInv, Parking
  <2>3. CASE UNCHANGED ret /\ op' = op
    BY <1>4, <1>13, <2>3, Zenon DEF Finish, localVars
  <2>4. ASSUME NEW r, ret' = [ret EXCEPT ![f] = r], op'.raw = op.raw,
               Flag(op'.result) + Flag(r = "ok") = Flag(op.result), Flag(op'.result) \in {0, 1}
        PROVE  Flag(op'.raw) + Flag(op'.result) + Cardinality(Holding')
               + Cardinality(Handed') + closes' = 1
    <3>1. Cardinality(Handed') = Cardinality(Handed) + Flag(r = "ok")
      BY <1>0, <2>2, <2>4, HandedMoves, Zenon
    <3>2. Flag(op'.raw) = Flag(op.raw) /\ Flag(r = "ok") \in Nat
      BY <2>4, Zenon DEF Flag
    <3> QED
      BY <1>0, <1>2, <1>3, <2>1, <2>4, <3>1, <3>2, SMTT(30)
  <2>5. CASE op.finished
    <3>1. ret' = [ret EXCEPT ![f] = "EALREADY"] /\ op' = op
      BY <1>13, <2>5, SMTT(30) DEF Finish, Return
    <3>2. Flag(op'.result) + Flag("EALREADY" = "ok") = Flag(op.result) /\ Flag(op'.result) \in {0, 1}
      BY <3>1, SMTT(30) DEF Flag
    <3> QED
      BY <2>4, <3>1, <3>2, Zenon
  <2>6. CASE ~op.finished /\ op.canceled
    <3>1. /\ ret' = [ret EXCEPT ![f] = "ECANCELED"]
          /\ op'.raw = op.raw /\ op'.result = FALSE
      BY <1>0, <1>13, <2>6, Zenon DEF Finish, Return, Finished, OpType
    <3>2. ~op.result
      BY <1>1, <2>6 DEF DescInv, Coded
    <3>3. Flag(op'.result) + Flag("ECANCELED" = "ok") = Flag(op.result) /\ Flag(op'.result) \in {0, 1}
      BY <3>1, <3>2, SMTT(30) DEF Flag
    <3> QED
      BY <2>4, <3>1, <3>3, Zenon
  <2>7. CASE ~op.finished /\ ~op.canceled /\ op.complete
    <3>1. /\ ret' = [ret EXCEPT ![f] = op.error]
          /\ op'.raw = op.raw /\ op'.result = FALSE
      BY <1>0, <1>13, <2>7, Zenon DEF Finish, Return, Finished, OpType
    <3>2. op.result <=> op.error = "ok"
      BY <1>1, <2>7 DEF DescInv, Coded
    <3>3. Flag(op'.result) + Flag(op.error = "ok") = Flag(op.result) /\ Flag(op'.result) \in {0, 1}
      BY <3>1, <3>2, SMTT(30) DEF Flag
    <3> QED
      BY <2>4, <3>1, <3>3, Zenon
  <2> QED
    BY <1>13, <2>3, <2>5, <2>6, <2>7, SMTT(30) DEF Finish
<1>14. ASSUME NEW c \in Cancellers, Cancel(c)
       PROVE  Flag(op'.raw) + Flag(op'.result) + Cardinality(Holding')
              + Cardinality(Handed') + closes' = 1
  <2>1. CASE op.finished
    BY <1>4, <1>14, <2>1, Zenon DEF Cancel
  <2>2. CASE ~op.finished
    <3>1. /\ op'.raw = FALSE /\ op'.result = FALSE /\ Handed' = Handed /\ closes' = closes
          /\ desc' = [desc EXCEPT ![c] = op.raw \/ op.result]
      BY <1>0, <1>1, <1>14, <2>2, Zenon DEF Cancel, Cancelled, OpType, Handed
    <3>2. (op.raw \/ op.result) \in BOOLEAN /\ c \in Threads
      BY <1>0, ThreadSets DEF OpType
    <3>3. Cardinality(Holding') = Cardinality(Holding) + Flag(op.raw \/ op.result) - Flag(desc[c])
      BY <1>0, <3>1, <3>2, HoldingMoves, Zenon
    <3>4. ~desc[c]
      BY <1>14, <3>2 DEF DescInv, Labelled, Cancel
    <3>5. Flag(op'.raw) = 0 /\ Flag(op'.result) = 0 /\ Flag(desc[c]) = 0
      BY <3>1, <3>4, Zenon DEF Flag
    <3>6. Flag(op.raw) + Flag(op.result) <= 1
      BY <1>0, <1>2, <1>3
    <3>7. Flag(op.raw \/ op.result) = Flag(op.raw) + Flag(op.result)
      BY <3>6 DEF Flag
    <3> QED
      BY <1>0, <1>2, <1>3, <3>1, <3>3, <3>5, <3>7
  <2> QED
    BY <2>1, <2>2, Zenon
<1>15. ASSUME NEW t \in Threads, Complete(t) PROVE FALSE
  BY <1>1, <1>15 DEF Complete
<1> QED
  BY <1>4, <1>5, <1>6, <1>7, <1>8, <1>9, <1>10, <1>11, <1>12, <1>13, <1>14, <1>15, Zenon DEF Next, Step, Poll

LEMMA DescInit == Init => DescInv
<1> SUFFICES ASSUME Init PROVE DescInv
  OBVIOUS
<1>1. /\ \A t \in Threads : pc[t] \in {"finish", "start", "done", "armed"} /\ desc[t] = FALSE
      /\ "cb" \in Threads /\ "cb" \notin Finishers
      /\ pc["cb"] = IF op.complete THEN "done" ELSE "armed"
  BY OpAssumption DEF Init, Threads
<1>2. Labelled
  BY <1>1, Zenon DEF Labelled
<1>3. \/ /\ op.complete = FALSE /\ op.result = FALSE /\ op.raw = (kind = "connect")
         /\ op.error = "ok" /\ op.canceled = FALSE
      \/ /\ op.complete = TRUE /\ op.result = (op.error = "ok") /\ op.raw = FALSE
         /\ op.error \in {"ok", "err"} /\ op.canceled = FALSE
  <2>1. CASE op = Pending
    BY <2>1, Zenon DEF Pending
  <2>2. ASSUME NEW e \in {"ok", "err"}, op = Immediate(e)
        PROVE  /\ op.complete = TRUE /\ op.result = (op.error = "ok") /\ op.raw = FALSE
               /\ op.error \in {"ok", "err"} /\ op.canceled = FALSE
    BY <2>2 DEF Immediate, Pending
  <2> QED
    BY <2>1, <2>2, Zenon DEF Init
<1>4. op.canceled = FALSE
  BY <1>3
<1>5. InCallback /\ Coded
  BY <1>1, <1>3, <1>4, Zenon DEF InCallback, Coded
<1>6. Holding = {} /\ Handed = {}
  BY <1>1, ZenonT(30) DEF Init, Holding, Handed
<1>7. closes = IF kind = "connect" /\ op.error = "err" THEN 1 ELSE 0
  BY DEF Init
<1>8. ASSUME kind = "connect" PROVE Flag(op.raw) + Flag(op.result) + closes = 1
  <2>1. CASE op.raw = TRUE /\ op.result = FALSE /\ op.error = "ok"
    BY <1>7, <2>1 DEF Flag
  <2>2. CASE op.raw = FALSE /\ op.result = TRUE /\ op.error = "ok"
    BY <1>7, <2>2 DEF Flag
  <2>3. CASE op.raw = FALSE /\ op.result = FALSE /\ op.error = "err"
    BY <1>7, <1>8, <2>3 DEF Flag
  <2> QED
    BY <1>3, <1>8, <2>1, <2>2, <2>3, Zenon
<1>9. Conserved
  BY <1>6, <1>7, <1>8, FS_EmptySet DEF Conserved, Flag
<1> QED
  BY <1>2, <1>5, <1>9, SMTT(30) DEF DescInv

\* The socket of a connect is never lost and never closed twice, whatever the order
\* of the callback, the cancels and the finishes of ciel_async_tcp_connect's operation.
THEOREM DescriptorTheorem == Spec => []DescriptorConserved
<1>1. OpInv /\ DescInv /\ [Next]_vars => (OpInv /\ DescInv)'
  BY OpStep, LabelledStep, InCallbackStep, CodedStep, ConservedStep DEF DescInv
<1>2. DescInv => DescriptorConserved
  BY DEF DescInv, Conserved, DescriptorConserved, Holding, Handed
<1> QED
  BY <1>1, <1>2, OpInit, DescInit, PTL DEF Spec
=============================================================================
