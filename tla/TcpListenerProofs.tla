-------------------------- MODULE TcpListenerProofs --------------------------
(***************************************************************************)
(* The accept operations of a TCP listener, proved for every set of        *)
(* operations, every number of connections and of failures: an accepted    *)
(* connection is in one place, and a task that waits for one is in the     *)
(* slot or about to be completed.                                          *)
(***************************************************************************)
EXTENDS TcpListener, TLAPS

-----------------------------------------------------------------------------
(* The inductive invariant.                                                *)

Labels == {"idle", "loop", "deliver", "error", "clear", "store",
           "start", "cancelSource", "drain", "await", "done"}

OpRecords == [complete : BOOLEAN, canceled : BOOLEAN, finished : BOOLEAN, stream : Conns \cup {Nobody}]

\* The variables have their types, those that TypeOK leaves open included.
ListenerTypes ==
    /\ TypeOK /\ closed \in BOOLEAN /\ live \in BOOLEAN /\ errors \in Nat
    /\ pc \in [Threads -> Labels]
    /\ cancelPc \in [Ops -> {"start", "clear", "done"}]
    /\ cancelled \in [Ops -> Conns \cup {Nobody}]

\* A thread carries a completion while it is on its way to store it: an accept its own,
\* the closer one without a stream, the callback also a stream that has no taker yet.
Jobs ==
    \A t \in Threads :
        /\ pc[t] \in {"clear", "store"} => job[t].op \in Ops
        /\ pc[t] \notin {"clear", "store", "deliver", "cancelSource"} => job[t] = NoJob
        /\ pc[t] = "deliver" => job[t].op = None /\ job[t].conn # Nobody
        /\ t \in Ops => job[t].op \in {t, None}
        /\ t = "closer" => job[t].conn = Nobody

\* An operation in the slot, or carried, is not complete, and is so in one place.
Expected(o) == ~op[o].complete /\ op[o].stream = Nobody /\ pc[o] # "start"

OneCompletion ==
    /\ pending # None => Expected(pending)
    /\ \A t \in Threads : job[t].op # None =>
           /\ Expected(job[t].op) /\ pending # job[t].op
           /\ \A u \in Threads : job[u].op = job[t].op => u = t

\* A cancelled operation has no stream; a stream that was set aside is not closed yet.
\* Nothing has happened to an operation that has not started.
Cancels ==
    \A o \in Ops :
        /\ op[o].canceled => op[o].stream = Nobody
        /\ op[o].canceled <=> cancelPc[o] # "start"
        /\ cancelled[o] # Nobody => cancelPc[o] = "clear"
        /\ pc[o] = "start" => op[o] = NewOp

\* One of five sets has one element and the others none.
Alone(A, B, C, D, E) == (\E x : A = {x}) /\ B = {} /\ C = {} /\ D = {} /\ E = {}
OneOf(Q, O, J, S, F) ==
    \/ Alone(Q, O, J, S, F) \/ Alone(O, Q, J, S, F) \/ Alone(J, Q, O, S, F)
    \/ Alone(S, Q, O, J, F) \/ Alone(F, Q, O, J, S)

Settled(c) == OneOf(QueuedAt(c), StoredIn(c), CarriedBy(c), SetAsideBy(c), FatesOf(c))
Nowhere(c) ==
    QueuedAt(c) = {} /\ StoredIn(c) = {} /\ CarriedBy(c) = {} /\ SetAsideBy(c) = {} /\ FatesOf(c) = {}

\* Every connection that was accepted is in one place, and no other is anywhere.
Located ==
    /\ pc["closer"] = "start" => closing = {}
    /\ \A c \in Conns : IF c <= taken THEN Settled(c) ELSE Nowhere(c)

ListenerInv ==
    /\ ListenerTypes /\ Jobs /\ OneCompletion /\ Cancels /\ Located
    /\ NoStrandedAccept /\ WaitIsOwned
-----------------------------------------------------------------------------
(* Places.                                                                 *)

\* A tagged set with one element, and with none.
LEMMA Tagged == ASSUME NEW a PROVE (\A x : {a} \X {x} = {<<a, x>>}) /\ {a} \X {} = {}
<1>1. ASSUME NEW x PROVE {a} \X {x} = {<<a, x>>}
    OBVIOUS
<1>2. {a} \X {} = {}
    OBVIOUS
<1>. QED  BY <1>1, <1>2

\* A union of tagged sets has one element when one of the sets has one and the
\* others have none.
LEMMA TaggedSets ==
    ASSUME NEW Q, NEW O, NEW J, NEW S, NEW F, OneOf(Q, O, J, S, F)
    PROVE  \E p \in ({"queue"} \X Q) \cup ({"op"} \X O) \cup ({"job"} \X J)
                    \cup ({"cancel"} \X S) \cup ({"fate"} \X F) :
              ({"queue"} \X Q) \cup ({"op"} \X O) \cup ({"job"} \X J)
                  \cup ({"cancel"} \X S) \cup ({"fate"} \X F) = {p}
<1>1. CASE Alone(Q, O, J, S, F)
    <2>1. PICK x : Q = {x}
        BY <1>1 DEF Alone
    <2>2. ({"queue"} \X Q) \cup ({"op"} \X O) \cup ({"job"} \X J)
              \cup ({"cancel"} \X S) \cup ({"fate"} \X F) = {<<"queue", x>>}
        BY <1>1, <2>1, Tagged, Zenon DEF Alone
    <2>. QED  BY <2>2, Zenon
<1>2. CASE Alone(O, Q, J, S, F)
    <2>1. PICK x : O = {x}
        BY <1>2 DEF Alone
    <2>2. ({"queue"} \X Q) \cup ({"op"} \X O) \cup ({"job"} \X J)
              \cup ({"cancel"} \X S) \cup ({"fate"} \X F) = {<<"op", x>>}
        BY <1>2, <2>1, Tagged, Zenon DEF Alone
    <2>. QED  BY <2>2, Zenon
<1>3. CASE Alone(J, Q, O, S, F)
    <2>1. PICK x : J = {x}
        BY <1>3 DEF Alone
    <2>2. ({"queue"} \X Q) \cup ({"op"} \X O) \cup ({"job"} \X J)
              \cup ({"cancel"} \X S) \cup ({"fate"} \X F) = {<<"job", x>>}
        BY <1>3, <2>1, Tagged, Zenon DEF Alone
    <2>. QED  BY <2>2, Zenon
<1>4. CASE Alone(S, Q, O, J, F)
    <2>1. PICK x : S = {x}
        BY <1>4 DEF Alone
    <2>2. ({"queue"} \X Q) \cup ({"op"} \X O) \cup ({"job"} \X J)
              \cup ({"cancel"} \X S) \cup ({"fate"} \X F) = {<<"cancel", x>>}
        BY <1>4, <2>1, Tagged, Zenon DEF Alone
    <2>. QED  BY <2>2, Zenon
<1>5. CASE Alone(F, Q, O, J, S)
    <2>1. PICK x : F = {x}
        BY <1>5 DEF Alone
    <2>2. ({"queue"} \X Q) \cup ({"op"} \X O) \cup ({"job"} \X J)
              \cup ({"cancel"} \X S) \cup ({"fate"} \X F) = {<<"fate", x>>}
        BY <1>5, <2>1, Tagged, Zenon DEF Alone
    <2>. QED  BY <2>2, Zenon
<1>. QED  BY <1>1, <1>2, <1>3, <1>4, <1>5 DEF OneOf

\* The invariant implies what is to be shown.
LEMMA InvKept == ListenerInv => ConnectionKept
<1>. SUFFICES ASSUME ListenerInv PROVE ConnectionKept
    OBVIOUS
<1>1. TypeOK /\ NoStrandedAccept /\ WaitIsOwned
    BY DEF ListenerInv, ListenerTypes
<1>2. ASSUME NEW c \in 1..taken PROVE \E p \in Places(c) : Places(c) = {p}
    <2>1. c \in Conns /\ c <= taken
        BY <1>1, ListenerAssumption DEF TypeOK, Conns
    <2>2. Settled(c)
        BY <2>1 DEF ListenerInv, Located
    <2>. QED  BY <2>2, TaggedSets DEF Settled, Places
<1>. QED  BY <1>1, <1>2 DEF ConnectionKept, ConnectionConserved

\* An element of one of the five sets is all there is.
LEMMA TheOne ==
    ASSUME NEW Q, NEW O, NEW J, NEW S, NEW F, OneOf(Q, O, J, S, F)
    PROVE  /\ \A x \in Q : Q = {x} /\ O = {} /\ J = {} /\ S = {} /\ F = {}
           /\ \A x \in O : O = {x} /\ Q = {} /\ J = {} /\ S = {} /\ F = {}
           /\ \A x \in J : J = {x} /\ Q = {} /\ O = {} /\ S = {} /\ F = {}
           /\ \A x \in S : S = {x} /\ Q = {} /\ O = {} /\ J = {} /\ F = {}
           /\ \A x \in F : F = {x} /\ Q = {} /\ O = {} /\ J = {} /\ S = {}
BY DEF OneOf, Alone

\* Where a connection is found is its one place, and it has been accepted.
LEMMA Found ==
    ASSUME Located, NEW c \in Conns
    PROVE  /\ \A x \in QueuedAt(c) :
                 /\ c <= taken /\ QueuedAt(c) = {x} /\ StoredIn(c) = {} /\ CarriedBy(c) = {}
                 /\ SetAsideBy(c) = {} /\ FatesOf(c) = {}
           /\ \A x \in StoredIn(c) :
                 /\ c <= taken /\ StoredIn(c) = {x} /\ QueuedAt(c) = {} /\ CarriedBy(c) = {}
                 /\ SetAsideBy(c) = {} /\ FatesOf(c) = {}
           /\ \A x \in CarriedBy(c) :
                 /\ c <= taken /\ CarriedBy(c) = {x} /\ QueuedAt(c) = {} /\ StoredIn(c) = {}
                 /\ SetAsideBy(c) = {} /\ FatesOf(c) = {}
           /\ \A x \in SetAsideBy(c) :
                 /\ c <= taken /\ SetAsideBy(c) = {x} /\ QueuedAt(c) = {} /\ StoredIn(c) = {}
                 /\ CarriedBy(c) = {} /\ FatesOf(c) = {}
           /\ \A x \in FatesOf(c) :
                 /\ c <= taken /\ FatesOf(c) = {x} /\ QueuedAt(c) = {} /\ StoredIn(c) = {}
                 /\ CarriedBy(c) = {} /\ SetAsideBy(c) = {}
<1>1. CASE c <= taken
    <2>1. OneOf(QueuedAt(c), StoredIn(c), CarriedBy(c), SetAsideBy(c), FatesOf(c))
        BY <1>1 DEF Located, Settled
    <2>. QED  BY <1>1, <2>1, TheOne
<1>2. CASE ~(c <= taken)
    <2>1. Nowhere(c)
        BY <1>2 DEF Located
    <2>. QED  BY <2>1, Zenon DEF Nowhere
<1>. QED  BY <1>1, <1>2

\* A connection whose places a step leaves alone is where it was.
LEMMA SamePlace ==
    ASSUME NEW c, QueuedAt(c)' = QueuedAt(c), StoredIn(c)' = StoredIn(c),
           CarriedBy(c)' = CarriedBy(c), SetAsideBy(c)' = SetAsideBy(c), FatesOf(c)' = FatesOf(c)
    PROVE  Settled(c)' = Settled(c) /\ Nowhere(c)' = Nowhere(c)
BY DEF Settled, Nowhere, OneOf, Alone

\* A step that moves no connection.
LEMMA StillLocated ==
    ASSUME Located, UNCHANGED <<queue, op, job, cancelled, closing, given, shut, taken>>,
           pc'["closer"] = "start" => pc["closer"] = "start"
    PROVE  Located'
<1>1. ASSUME NEW c PROVE Settled(c)' = Settled(c) /\ Nowhere(c)' = Nowhere(c)
    <2>1. /\ QueuedAt(c)' = QueuedAt(c) /\ StoredIn(c)' = StoredIn(c)
          /\ CarriedBy(c)' = CarriedBy(c) /\ SetAsideBy(c)' = SetAsideBy(c)
          /\ FatesOf(c)' = FatesOf(c)
        BY DEF QueuedAt, StoredIn, CarriedBy, SetAsideBy, FatesOf
    <2>. QED  BY <2>1, SamePlace
<1>. QED  BY <1>1 DEF Located

\* A step that moves one connection, m, to where it is settled.
LEMMA OneMoved ==
    ASSUME Located, taken' = taken, NEW m, m \in Conns => m <= taken /\ Settled(m)',
           pc'["closer"] = "start" => closing' = {},
           \A c \in Conns \ {m} :
               /\ QueuedAt(c)' = QueuedAt(c) /\ StoredIn(c)' = StoredIn(c)
               /\ CarriedBy(c)' = CarriedBy(c) /\ SetAsideBy(c)' = SetAsideBy(c)
               /\ FatesOf(c)' = FatesOf(c)
    PROVE  Located'
<1>1. ASSUME NEW c \in Conns \ {m} PROVE Settled(c)' = Settled(c) /\ Nowhere(c)' = Nowhere(c)
    BY SamePlace
<1>. QED  BY <1>1 DEF Located

\* What a thread carries, an operation stores and a cancel sets aside after one of
\* them changes.
LEMMA JobSet ==
    ASSUME NEW t \in Threads, \A u \in Threads \ {t} : job'[u] = job[u], NEW c
    PROVE  CarriedBy(c)' = (CarriedBy(c) \ {t}) \cup (IF job'[t].conn = c THEN {t} ELSE {})
BY DEF CarriedBy

LEMMA OpSet ==
    ASSUME NEW o \in Ops, \A x \in Ops \ {o} : op'[x] = op[x], NEW c
    PROVE  StoredIn(c)' = (StoredIn(c) \ {o}) \cup (IF op'[o].stream = c THEN {o} ELSE {})
BY DEF StoredIn

LEMMA CancelSet ==
    ASSUME NEW o \in Ops, \A x \in Ops \ {o} : cancelled'[x] = cancelled[x], NEW c
    PROVE  SetAsideBy(c)' = (SetAsideBy(c) \ {o}) \cup (IF cancelled'[o] = c THEN {o} ELSE {})
BY DEF SetAsideBy

\* A thread that takes up a completion, or puts it down.
LEMMA JobChange ==
    ASSUME TypeOK, NEW t \in Threads, NEW a \in Ops \cup {None}, NEW d \in Conns \cup {Nobody},
           job' = [job EXCEPT ![t] = [op |-> a, conn |-> d]]
    PROVE  /\ job' \in [Threads -> [op : Ops \cup {None}, conn : Conns \cup {Nobody}]]
           /\ job'[t].op = a /\ job'[t].conn = d /\ \A u \in Threads \ {t} : job'[u] = job[u]
BY DEF TypeOK

\* An operation that changes.
LEMMA OpChange ==
    ASSUME TypeOK, NEW o \in Ops, NEW r \in OpRecords, op' = [op EXCEPT ![o] = r]
    PROVE  op' \in [Ops -> OpRecords] /\ op'[o] = r /\ \A x \in Ops \ {o} : op'[x] = op[x]
BY DEF TypeOK, OpRecords

\* A connection that is closed, or returned.
LEMMA ShutSet ==
    ASSUME NEW X, shut' = shut \cup X, UNCHANGED <<closing, given>>, NEW c
    PROVE  FatesOf(c)' = FatesOf(c) \cup (IF c \in X THEN {"shut"} ELSE {})
BY DEF FatesOf

LEMMA ShutOne ==
    ASSUME NEW m, shut' = shut \cup {m} \/ shut' = shut \cup ({m} \ {Nobody}),
           UNCHANGED <<closing, given>>, m \in Conns => FatesOf(m) = {}
    PROVE  /\ m \in Conns => FatesOf(m)' = {"shut"}
           /\ \A c \in Conns \ {m} : FatesOf(c)' = FatesOf(c)
<1>1. \A c \in Conns : c # Nobody
    BY DEF Conns, Nobody
<1>. QED  BY <1>1 DEF FatesOf

LEMMA GivenOne ==
    ASSUME NEW m, given' = given \cup ({m} \ {Nobody}),
           UNCHANGED <<closing, shut>>, m \in Conns => FatesOf(m) = {}
    PROVE  /\ m \in Conns => FatesOf(m)' = {"given"}
           /\ \A c \in Conns \ {m} : FatesOf(c)' = FatesOf(c)
<1>1. \A c \in Conns : c # Nobody
    BY DEF Conns, Nobody
<1>. QED  BY <1>1 DEF FatesOf

-----------------------------------------------------------------------------
(* Every step keeps the invariant.                                         *)

\* The threads that are not operations.
LEMMA Names ==
    /\ "cb" \in Threads /\ "closer" \in Threads /\ Ops \subseteq Threads
    /\ "cb" \notin Ops /\ "closer" \notin Ops /\ None \notin Ops
BY ListenerAssumption DEF Threads, None

\* A client that connects moves no connection.
LEMMA ArriveKeeps ==
    ASSUME ListenerInv, Arrive PROVE ListenerInv'
<1>. USE Names DEF ListenerInv
<1>1. ListenerTypes'
    <2>1. (pending \in Ops \cup {None} /\ queue \in Seq(Conns))'
        BY DEF Arrive, ListenerTypes, TypeOK, listenerVars
    <2>2. (arrived \in 0..MaxConns /\ taken \in 0..arrived /\ errors \in Nat)'
        BY ListenerAssumption DEF Arrive, ListenerTypes, TypeOK, kernelVars
    <2>3. (op \in [Ops -> [complete : BOOLEAN, canceled : BOOLEAN, finished : BOOLEAN,
                           stream : Conns \cup {Nobody}]])'
        BY DEF Arrive, ListenerTypes, TypeOK
    <2>4. (job \in [Threads -> [op : Ops \cup {None}, conn : Conns \cup {Nobody}]])'
        BY DEF Arrive, ListenerTypes, TypeOK, NoJob, Jobs
    <2>5. (closing \cup given \cup shut \cup dropped \subseteq Conns)'
        BY DEF Arrive, ListenerTypes, TypeOK, fateVars
    <2>6. (closed => pending = None /\ queue = <<>>)'
        BY DEF Arrive, ListenerTypes, TypeOK, listenerVars
    <2>7. (pc \in [Threads -> Labels])'
        BY DEF Arrive, ListenerTypes, Labels
    <2>8. /\ (closed \in BOOLEAN /\ live \in BOOLEAN)'
          /\ (cancelPc \in [Ops -> {"start", "clear", "done"}] /\ cancelled \in [Ops -> Conns \cup {Nobody}])'
        BY DEF Arrive, ListenerTypes, TypeOK, listenerVars, cancelVars
    <2>. QED  BY <2>1, <2>2, <2>3, <2>4, <2>5, <2>6, <2>7, <2>8 DEF ListenerTypes, TypeOK
<1>2. Jobs'
    BY Zenon DEF Arrive, ListenerTypes, TypeOK, Jobs, NoJob, None, Nobody, Threads, listenerVars, cancelVars, fateVars, kernelVars
<1>3. OneCompletion'
    BY DEF Arrive, ListenerTypes, TypeOK, Jobs, OneCompletion, Expected, Cancels, NewOp, NoJob, None, Nobody, Threads, listenerVars, cancelVars, fateVars, kernelVars
<1>4. Cancels'
    BY DEF Arrive, ListenerTypes, TypeOK, Cancels, Jobs, OneCompletion, Expected, NewOp, None, Nobody, Threads, listenerVars, cancelVars, fateVars, kernelVars
<1>5. NoStrandedAccept'
    BY DEF Arrive, NoStrandedAccept, ListenerTypes, TypeOK, listenerVars, cancelVars, fateVars, kernelVars
<1>6. WaitIsOwned'
    BY DEF Arrive, ListenerTypes, TypeOK, Jobs, OneCompletion, Cancels, WaitIsOwned, NewOp, NoJob, None, Threads, listenerVars, cancelVars, fateVars, kernelVars
<1>7. Located'
    BY StillLocated DEF Arrive, ListenerTypes, TypeOK, listenerVars, cancelVars, fateVars, kernelVars
<1>. QED  BY <1>1, <1>2, <1>3, <1>4, <1>5, <1>6, <1>7

\* Nor does the event that starts the handler.
LEMMA FireKeeps ==
    ASSUME ListenerInv, Fire PROVE ListenerInv'
<1>. USE Names DEF ListenerInv
<1>1. ListenerTypes'
    BY DEF Fire, Goto, ListenerTypes, TypeOK, Labels, NoJob, listenerVars, cancelVars, fateVars, kernelVars
<1>2. Jobs'
    BY DEF Fire, Goto, ListenerTypes, TypeOK, Jobs, NoJob, None, Nobody, Threads, listenerVars, cancelVars, fateVars, kernelVars
<1>3. OneCompletion'
    BY SMTT(30) DEF Fire, Goto, ListenerTypes, TypeOK, Jobs, OneCompletion, Expected, Cancels, NewOp, NoJob, None, Nobody, Threads, listenerVars, cancelVars, fateVars, kernelVars
<1>4. Cancels'
    BY DEF Fire, Goto, ListenerTypes, TypeOK, Cancels, Jobs, OneCompletion, Expected, NewOp, None, Nobody, Threads, listenerVars, cancelVars, fateVars, kernelVars
<1>5. NoStrandedAccept'
    BY DEF Fire, Goto, NoStrandedAccept, ListenerTypes, TypeOK, listenerVars, cancelVars, fateVars, kernelVars
<1>6. WaitIsOwned'
    BY DEF Fire, Goto, ListenerTypes, TypeOK, Jobs, OneCompletion, Cancels, WaitIsOwned, NewOp, NoJob, None, Threads, listenerVars, cancelVars, fateVars, kernelVars
<1>7. Located'
    BY StillLocated DEF Fire, Goto, ListenerTypes, TypeOK, listenerVars, cancelVars, fateVars, kernelVars
<1>. QED  BY <1>1, <1>2, <1>3, <1>4, <1>5, <1>6, <1>7

\* The handler accepts a connection, which it then carries or has closed, or stops.
LEMMA CbAcceptKeeps ==
    ASSUME ListenerInv, CbAccept PROVE ListenerInv'
<1>. USE Names DEF ListenerInv
<1>a. taken < arrived => taken + 1 \in Conns
    BY ListenerAssumption, SMTT(30) DEF ListenerTypes, TypeOK, Conns
<1>1. ListenerTypes'
    <2>1. (pending \in Ops \cup {None} /\ queue \in Seq(Conns))'
        BY <1>a, Zenon DEF CbAccept, ListenerTypes, TypeOK, listenerVars
    <2>2. (arrived \in 0..MaxConns /\ taken \in 0..arrived /\ errors \in Nat)'
        BY ListenerAssumption, SMTT(30) DEF CbAccept, ListenerTypes, TypeOK, kernelVars
    <2>3. (op \in [Ops -> [complete : BOOLEAN, canceled : BOOLEAN, finished : BOOLEAN,
                           stream : Conns \cup {Nobody}]])'
        BY Zenon DEF CbAccept, ListenerTypes, TypeOK
    <2>4. (job \in [Threads -> [op : Ops \cup {None}, conn : Conns \cup {Nobody}]])'
        BY <1>a, JobChange DEF CbAccept, Goto, ListenerTypes, TypeOK, NoJob
    <2>5. (closing \cup given \cup shut \cup dropped \subseteq Conns)'
        BY <1>a DEF CbAccept, ListenerTypes, TypeOK, fateVars
    <2>6. (closed => pending = None /\ queue = <<>>)'
        BY DEF CbAccept, ListenerTypes, TypeOK, listenerVars
    <2>7. (pc \in [Threads -> Labels])'
        BY DEF CbAccept, Goto, ListenerTypes, Labels
    <2>8. /\ (closed \in BOOLEAN /\ live \in BOOLEAN)'
          /\ (cancelPc \in [Ops -> {"start", "clear", "done"}] /\ cancelled \in [Ops -> Conns \cup {Nobody}])'
        BY DEF CbAccept, ListenerTypes, TypeOK, listenerVars, cancelVars
    <2>. QED  BY <2>1, <2>2, <2>3, <2>4, <2>5, <2>6, <2>7, <2>8 DEF ListenerTypes, TypeOK
<1>2. Jobs'
    BY SMTT(30) DEF CbAccept, Goto, ListenerTypes, TypeOK, Jobs, NoJob, None, Nobody, Threads, listenerVars, cancelVars, fateVars, kernelVars
<1>3. OneCompletion'
    BY SMTT(30) DEF CbAccept, Goto, ListenerTypes, TypeOK, Jobs, OneCompletion, Expected, Cancels, NewOp, NoJob, None, Nobody, Threads, listenerVars, cancelVars, fateVars, kernelVars
<1>4. Cancels'
    BY DEF CbAccept, Goto, ListenerTypes, TypeOK, Cancels, Jobs, OneCompletion, Expected, NewOp, None, Nobody, Threads, listenerVars, cancelVars, fateVars, kernelVars
<1>5. NoStrandedAccept'
    BY DEF CbAccept, Goto, NoStrandedAccept, ListenerTypes, TypeOK, listenerVars, cancelVars, fateVars, kernelVars
<1>6. WaitIsOwned'
    <2>. SUFFICES ASSUME NEW x \in Ops, pc'[x] = "await", ~op'[x].complete, ~op'[x].canceled
                  PROVE  pending' = x \/ \E u \in Threads : job'[u].op = x
        BY DEF WaitIsOwned
    <2>1. pc[x] = "await" /\ op' = op /\ pending' = pending
        BY DEF CbAccept, Goto, ListenerTypes, listenerVars
    <2>2. pending = x \/ \E u \in Threads : job[u].op = x
        BY <2>1 DEF WaitIsOwned
    <2>3. job["cb"].op = None
        BY DEF CbAccept, Jobs, NoJob
    <2>4. \A u \in Threads \ {"cb"} : job'[u] = job[u]
        BY DEF CbAccept, ListenerTypes, TypeOK
    <2>. QED  BY <2>1, <2>2, <2>3, <2>4
<1>7. Located'
    <2>. PICK n : n = taken + 1
        OBVIOUS
    <2>1. CASE taken' = taken
        BY <2>1, StillLocated DEF CbAccept, Goto, ListenerTypes, TypeOK, listenerVars, cancelVars
    <2>2. CASE taken' # taken
        <3>1. /\ taken' = n /\ taken \in Nat /\ n \in Conns /\ job["cb"] = NoJob
              /\ \/ /\ job'["cb"].conn = n /\ \A u \in Threads \ {"cb"} : job'[u] = job[u]
                    /\ shut' = shut
                 \/ job' = job /\ shut' = shut \cup {n}
              /\ UNCHANGED <<queue, op, cancelled, closing, given>>
              /\ pc'["closer"] = pc["closer"]
            BY <1>a, <2>2, SMTT(30)
            DEF CbAccept, Goto, ListenerTypes, TypeOK, Jobs, listenerVars, cancelVars
        <3>2. Nowhere(n)
            BY <3>1 DEF Located
        <3>3. \A c : QueuedAt(c)' = QueuedAt(c) /\ StoredIn(c)' = StoredIn(c)
                     /\ SetAsideBy(c)' = SetAsideBy(c)
            BY <3>1, Zenon DEF QueuedAt, StoredIn, SetAsideBy
        <3>4. ASSUME NEW c \in Conns \ {n}
              PROVE  CarriedBy(c)' = CarriedBy(c) /\ FatesOf(c)' = FatesOf(c)
            <4>1. "cb" \notin CarriedBy(c)
                BY <3>1 DEF CarriedBy, NoJob, Nobody, Conns
            <4>2. CASE shut' = shut \cup {n} /\ job' = job
                BY <3>1, <4>2 DEF CarriedBy, FatesOf
            <4>3. CASE shut' = shut /\ job'["cb"].conn = n /\ \A u \in Threads \ {"cb"} : job'[u] = job[u]
                <5>1. FatesOf(c)' = FatesOf(c)
                    BY <3>1, <4>3 DEF FatesOf
                <5>. QED  BY <4>1, <4>3, <5>1, JobSet, SMTT(30)
            <4>. QED  BY <3>1, <4>2, <4>3
        <3>5. Settled(n)'
            <4>1. CASE shut' = shut \cup {n} /\ job' = job
                <5>1. CarriedBy(n)' = {} /\ FatesOf(n)' = {"shut"}
                    BY <3>1, <3>2, <4>1, ShutSet DEF Nowhere, CarriedBy
                <5>. QED  BY <3>2, <3>3, <5>1, Zenon DEF Nowhere, Settled, OneOf, Alone
            <4>2. CASE shut' = shut /\ job'["cb"].conn = n /\ \A u \in Threads \ {"cb"} : job'[u] = job[u]
                <5>1. FatesOf(n)' = {}
                    BY <3>1, <3>2, <4>2 DEF FatesOf, Nowhere
                <5>2. CarriedBy(n)' = {"cb"}
                    BY <3>2, <4>2, JobSet, Zenon DEF Nowhere
                <5>. QED  BY <3>2, <3>3, <5>1, <5>2 DEF Nowhere, Settled, OneOf, Alone
            <4>. QED  BY <3>1, <4>1, <4>2
        <3>6. ASSUME NEW c \in Conns PROVE IF c <= taken' THEN Settled(c)' ELSE Nowhere(c)'
            <4>1. CASE c # n
                <5>1. c <= taken' <=> c <= taken
                    BY <3>1, <4>1 DEF Conns
                <5>2. Settled(c)' = Settled(c) /\ Nowhere(c)' = Nowhere(c)
                    BY <3>3, <3>4, <4>1, SamePlace, Zenon
                <5>. QED  BY <5>1, <5>2 DEF Located
            <4>. QED  BY <3>1, <3>5, <4>1
        <3>. QED  BY <3>1, <3>6, Zenon DEF Located
    <2>. QED  BY <2>1, <2>2
<1>. QED  BY <1>1, <1>2, <1>3, <1>4, <1>5, <1>6, <1>7

\* A connection that was accepted is closed, given to the pending accept or queued.
LEMMA DeliverKeeps ==
    ASSUME ListenerInv, Deliver PROVE ListenerInv'
<1>. USE Names DEF ListenerInv
<1>a. job["cb"].conn \in Conns
    BY DEF Deliver, Jobs, ListenerTypes, TypeOK
<1>1. ListenerTypes'
    <2>1. (pending \in Ops \cup {None} /\ queue \in Seq(Conns))'
        <3>1. Append(queue, job["cb"].conn) \in Seq(Conns)
            BY <1>a, SMTT(30) DEF ListenerTypes, TypeOK
        <3>. QED  BY <3>1, Zenon DEF Deliver, ListenerTypes, TypeOK
    <2>2. (arrived \in 0..MaxConns /\ taken \in 0..arrived /\ errors \in Nat)'
        BY ListenerAssumption, Zenon DEF Deliver, ListenerTypes, TypeOK, kernelVars
    <2>3. (op \in [Ops -> [complete : BOOLEAN, canceled : BOOLEAN, finished : BOOLEAN,
                           stream : Conns \cup {Nobody}]])'
        BY Zenon DEF Deliver, ListenerTypes, TypeOK
    <2>4. (job \in [Threads -> [op : Ops \cup {None}, conn : Conns \cup {Nobody}]])'
        BY <1>a, JobChange, Zenon DEF Deliver, Completing, Goto, ListenerTypes, TypeOK, NoJob
    <2>5. (closing \cup given \cup shut \cup dropped \subseteq Conns)'
        BY <1>a, Zenon DEF Deliver, ListenerTypes, TypeOK, fateVars
    <2>6. (closed => pending = None /\ queue = <<>>)'
        BY DEF Deliver, ListenerTypes, TypeOK, listenerVars
    <2>7. (pc \in [Threads -> Labels])'
        BY Zenon DEF Deliver, Completing, Goto, ListenerTypes, Labels
    <2>8. /\ (closed \in BOOLEAN /\ live \in BOOLEAN)'
          /\ (cancelPc \in [Ops -> {"start", "clear", "done"}] /\ cancelled \in [Ops -> Conns \cup {Nobody}])'
        BY Zenon DEF Deliver, ListenerTypes, TypeOK, listenerVars, cancelVars
    <2>. QED  BY <2>1, <2>2, <2>3, <2>4, <2>5, <2>6, <2>7, <2>8 DEF ListenerTypes, TypeOK
<1>2. Jobs'
    BY SMTT(30) DEF Deliver, Completing, Goto, ListenerTypes, TypeOK, Jobs, NoJob, None, Nobody, Threads, listenerVars, cancelVars, fateVars, kernelVars
<1>3. OneCompletion'
    BY SMTT(30) DEF Deliver, Completing, Goto, ListenerTypes, TypeOK, Jobs, OneCompletion, Expected, Cancels, NewOp, NoJob, None, Nobody, Threads, listenerVars, cancelVars, fateVars, kernelVars
<1>4. Cancels'
    BY SMTT(30) DEF Deliver, Completing, Goto, ListenerTypes, TypeOK, Cancels, Jobs, OneCompletion, Expected, NewOp, None, Nobody, Threads, listenerVars, cancelVars, fateVars, kernelVars
<1>5. NoStrandedAccept'
    BY Zenon DEF Deliver, Completing, Goto, NoStrandedAccept, ListenerTypes, TypeOK, listenerVars, cancelVars, fateVars, kernelVars
<1>6. WaitIsOwned'
    BY SMTT(30) DEF Deliver, Completing, Goto, ListenerTypes, TypeOK, Jobs, OneCompletion, Cancels, WaitIsOwned, NewOp, NoJob, None, Threads, listenerVars, cancelVars, fateVars, kernelVars
<1>7. Located'
    <2>. PICK m : m = job["cb"].conn
        BY Zenon
    <2>1. /\ m \in Conns /\ taken' = taken /\ pc'["closer"] = pc["closer"] /\ "cb" \in CarriedBy(m)
          /\ UNCHANGED <<op, cancelled, closing, given>>
        BY SMTT(30) DEF Deliver, Completing, Goto, ListenerTypes, TypeOK, Jobs, CarriedBy, kernelVars, cancelVars
    <2>2. /\ m <= taken /\ CarriedBy(m) = {"cb"} /\ QueuedAt(m) = {} /\ StoredIn(m) = {}
          /\ SetAsideBy(m) = {} /\ FatesOf(m) = {}
        BY <2>1, Found
    <2>3. \A c : StoredIn(c)' = StoredIn(c) /\ SetAsideBy(c)' = SetAsideBy(c)
        BY <2>1 DEF StoredIn, SetAsideBy
    <2>4. pc'["closer"] = "start" => closing' = {}
        BY <2>1 DEF Located
    <2>5. \A c \in Conns \ {m} : "cb" \notin CarriedBy(c) /\ c # Nobody
        BY SMTT(30) DEF CarriedBy, Conns, Nobody
    <2>6. CASE closed
        <3>1. /\ job'["cb"].conn = Nobody /\ (\A u \in Threads \ {"cb"} : job'[u] = job[u])
              /\ shut' = shut \cup {m} /\ queue' = queue
            BY <2>6 DEF Deliver, ListenerTypes, TypeOK, NoJob
        <3>2. \A c : QueuedAt(c)' = QueuedAt(c)
            BY <3>1, Zenon DEF QueuedAt
        <3>3. CarriedBy(m)' = {} /\ \A c \in Conns \ {m} : CarriedBy(c)' = CarriedBy(c)
            <4>1. ASSUME NEW c \in Conns PROVE CarriedBy(c)' = CarriedBy(c) \ {"cb"}
                BY <3>1, JobSet, SMTT(30) DEF Nobody, Conns
            <4>. QED  BY <2>1, <2>2, <2>5, <4>1
        <3>4. FatesOf(m)' = {"shut"} /\ \A c \in Conns \ {m} : FatesOf(c)' = FatesOf(c)
            BY <2>1, <2>2, <3>1, ShutOne, Zenon
        <3>5. Settled(m)'
            BY <2>1, <2>2, <2>3, <3>2, <3>3, <3>4, Zenon DEF Settled, OneOf, Alone
        <3>9. \A c \in Conns \ {m} :
                  /\ QueuedAt(c)' = QueuedAt(c) /\ StoredIn(c)' = StoredIn(c)
                  /\ CarriedBy(c)' = CarriedBy(c) /\ SetAsideBy(c)' = SetAsideBy(c)
                  /\ FatesOf(c)' = FatesOf(c)
            BY <2>1, <2>2, <2>3, <2>4, <2>5, <3>2, <3>3, <3>4, <3>5, Zenon
        <3>. QED  BY <2>1, <2>2, <2>3, <2>4, <2>5, <3>2, <3>3, <3>4, <3>5, <3>9, OneMoved, Zenon
    <2>7. CASE ~closed /\ pending # None
        <3>1. /\ job'["cb"].conn = m /\ \A u \in Threads \ {"cb"} : job'[u] = job[u]
              /\ shut' = shut /\ queue' = queue
            BY <2>7 DEF Deliver, Completing, ListenerTypes, TypeOK
        <3>2. \A c : QueuedAt(c)' = QueuedAt(c) /\ FatesOf(c)' = FatesOf(c)
            BY <2>1, <3>1, Zenon DEF QueuedAt, FatesOf
        <3>3. \A c \in Conns : CarriedBy(c)' = CarriedBy(c)
            BY <2>1, <2>2, <2>5, <3>1, JobSet, SMTT(30)
        <3>4. Settled(m)'
            BY <2>1, <2>2, <2>3, <3>2, <3>3, Zenon DEF Settled, OneOf, Alone
        <3>9. \A c \in Conns \ {m} :
                  /\ QueuedAt(c)' = QueuedAt(c) /\ StoredIn(c)' = StoredIn(c)
                  /\ CarriedBy(c)' = CarriedBy(c) /\ SetAsideBy(c)' = SetAsideBy(c)
                  /\ FatesOf(c)' = FatesOf(c)
            BY <2>1, <2>2, <2>3, <2>4, <3>2, <3>3, <3>4, Zenon
        <3>. QED  BY <2>1, <2>2, <2>3, <2>4, <3>2, <3>3, <3>4, <3>9, OneMoved, Zenon
    <2>8. CASE ~closed /\ pending = None
        <3>1. /\ job'["cb"].conn = Nobody /\ (\A u \in Threads \ {"cb"} : job'[u] = job[u])
              /\ shut' = shut /\ queue' = Append(queue, m)
            BY <2>8, SMTT(30) DEF Deliver, ListenerTypes, TypeOK, NoJob
        <3>2. \A c : FatesOf(c)' = FatesOf(c)
            BY <2>1, <3>1 DEF FatesOf
        <3>3. CarriedBy(m)' = {} /\ \A c \in Conns \ {m} : CarriedBy(c)' = CarriedBy(c)
            <4>1. ASSUME NEW c \in Conns PROVE CarriedBy(c)' = CarriedBy(c) \ {"cb"}
                BY <3>1, JobSet DEF Nobody, Conns
            <4>. QED  BY <2>1, <2>2, <2>5, <4>1
        <3>4. QueuedAt(m)' = {Len(queue) + 1} /\ \A c \in Conns \ {m} : QueuedAt(c)' = QueuedAt(c)
            <4>1. \A c : QueuedAt(c)' = QueuedAt(c) \cup (IF c = m THEN {Len(queue) + 1} ELSE {})
                BY <3>1, <2>1, SMTT(30) DEF QueuedAt, ListenerTypes, TypeOK
            <4>. QED  BY <2>2, <4>1, Zenon
        <3>5. Settled(m)'
            BY <2>1, <2>2, <2>3, <3>2, <3>3, <3>4, Zenon DEF Settled, OneOf, Alone
        <3>9. \A c \in Conns \ {m} :
                  /\ QueuedAt(c)' = QueuedAt(c) /\ StoredIn(c)' = StoredIn(c)
                  /\ CarriedBy(c)' = CarriedBy(c) /\ SetAsideBy(c)' = SetAsideBy(c)
                  /\ FatesOf(c)' = FatesOf(c)
            BY <2>1, <2>2, <2>3, <2>4, <2>5, <3>2, <3>3, <3>4, <3>5, Zenon
        <3>. QED  BY <2>1, <2>2, <2>3, <2>4, <2>5, <3>2, <3>3, <3>4, <3>5, <3>9, OneMoved, Zenon
    <2>. QED  BY <2>6, <2>7, <2>8, Zenon DEF Deliver
<1>. QED  BY <1>1, <1>2, <1>3, <1>4, <1>5, <1>6, <1>7

\* A failed accept completes the pending operation without a stream.
LEMMA DeliverErrorKeeps ==
    ASSUME ListenerInv, DeliverError PROVE ListenerInv'
<1>. USE Names DEF ListenerInv
<1>a. pending \in Ops \cup {None}
    BY Zenon DEF ListenerTypes, TypeOK
<1>1. ListenerTypes'
    <2>1. (pending \in Ops \cup {None} /\ queue \in Seq(Conns))'
        BY <1>a, Zenon DEF DeliverError, ListenerTypes, TypeOK, listenerVars
    <2>2. (arrived \in 0..MaxConns /\ taken \in 0..arrived /\ errors \in Nat)'
        BY ListenerAssumption, Zenon DEF DeliverError, ListenerTypes, TypeOK, kernelVars
    <2>3. (op \in [Ops -> [complete : BOOLEAN, canceled : BOOLEAN, finished : BOOLEAN,
                           stream : Conns \cup {Nobody}]])'
        BY Zenon DEF DeliverError, ListenerTypes, TypeOK
    <2>4. (job \in [Threads -> [op : Ops \cup {None}, conn : Conns \cup {Nobody}]])'
        BY <1>a, JobChange, Zenon DEF DeliverError, Completing, Goto, ListenerTypes, TypeOK, NoJob
    <2>5. (closing \cup given \cup shut \cup dropped \subseteq Conns)'
        BY <1>a, Zenon DEF DeliverError, ListenerTypes, TypeOK, fateVars
    <2>6. (closed => pending = None /\ queue = <<>>)'
        BY Zenon DEF DeliverError, ListenerTypes, TypeOK, listenerVars
    <2>7. (pc \in [Threads -> Labels])'
        BY Zenon DEF DeliverError, Completing, Goto, ListenerTypes, Labels
    <2>8. /\ (closed \in BOOLEAN /\ live \in BOOLEAN)'
          /\ (cancelPc \in [Ops -> {"start", "clear", "done"}] /\ cancelled \in [Ops -> Conns \cup {Nobody}])'
        BY Zenon DEF DeliverError, ListenerTypes, TypeOK, listenerVars, cancelVars
    <2>. QED  BY <2>1, <2>2, <2>3, <2>4, <2>5, <2>6, <2>7, <2>8 DEF ListenerTypes, TypeOK
<1>2. Jobs'
    BY SMTT(30) DEF DeliverError, Completing, Goto, ListenerTypes, TypeOK, Jobs, NoJob, None, Nobody, Threads, listenerVars, cancelVars, fateVars, kernelVars
<1>3. OneCompletion'
    BY SMTT(30) DEF DeliverError, Completing, Goto, ListenerTypes, TypeOK, Jobs, OneCompletion, Expected, Cancels, NewOp, NoJob, None, Nobody, Threads, listenerVars, cancelVars, fateVars, kernelVars
<1>4. Cancels'
    BY SMTT(30) DEF DeliverError, Completing, Goto, ListenerTypes, TypeOK, Cancels, Jobs, OneCompletion, Expected, NewOp, None, Nobody, Threads, listenerVars, cancelVars, fateVars, kernelVars
<1>5. NoStrandedAccept'
    BY Zenon DEF DeliverError, Completing, Goto, NoStrandedAccept, ListenerTypes, TypeOK, listenerVars, cancelVars, fateVars, kernelVars
<1>6. WaitIsOwned'
    <2>. SUFFICES ASSUME NEW x \in Ops, pc'[x] = "await", ~op'[x].complete, ~op'[x].canceled
                  PROVE  pending' = x \/ \E u \in Threads : job'[u].op = x
        BY DEF WaitIsOwned
    <2>1. pc[x] = "await" /\ op' = op
        BY Zenon DEF DeliverError, Completing, Goto, ListenerTypes
    <2>2. pending = x \/ \E u \in Threads : job[u].op = x
        BY <2>1, Zenon DEF WaitIsOwned
    <2>3. job["cb"].op = None
        BY DEF DeliverError, Jobs, NoJob
    <2>. QED  BY <2>2, <2>3, SMTT(30) DEF DeliverError, Completing, ListenerTypes, TypeOK
<1>7. Located'
    <2>1. CASE ~closed /\ pending # None
        <3>1. ASSUME NEW c \in Conns PROVE CarriedBy(c)' = CarriedBy(c)
            <4>1. c # Nobody /\ "cb" \notin CarriedBy(c)
                BY SMTT(30) DEF DeliverError, Jobs, NoJob, CarriedBy, Conns, Nobody
            <4>2. job'["cb"].conn = Nobody /\ \A u \in Threads \ {"cb"} : job'[u] = job[u]
                BY <2>1, SMTT(30) DEF DeliverError, Completing, ListenerTypes, TypeOK
            <4>. QED  BY <4>1, <4>2, JobSet, SMTT(30)
        <3>2. ASSUME NEW c \in Conns
              PROVE  /\ QueuedAt(c)' = QueuedAt(c) /\ StoredIn(c)' = StoredIn(c)
                     /\ SetAsideBy(c)' = SetAsideBy(c) /\ FatesOf(c)' = FatesOf(c)
            BY DEF DeliverError, QueuedAt, StoredIn, SetAsideBy, FatesOf, cancelVars, fateVars
        <3>3. Nobody \notin Conns
            BY SMTT(30) DEF Conns, Nobody
        <3>4. pc'["closer"] = "start" => closing' = {}
            BY <2>1 DEF DeliverError, Completing, Goto, Located, ListenerTypes
        <3>5. taken' = taken
            BY Zenon DEF DeliverError, kernelVars
        <3>. QED  BY <3>1, <3>2, <3>3, <3>4, <3>5, OneMoved, Zenon
    <2>2. CASE ~(~closed /\ pending # None)
        BY <2>2, StillLocated DEF DeliverError, Goto, ListenerTypes, cancelVars, fateVars, kernelVars
    <2>. QED  BY <2>1, <2>2
<1>. QED  BY <1>1, <1>2, <1>3, <1>4, <1>5, <1>6, <1>7

\* A completion clears the slot of the listener, which no longer holds its operation.
LEMMA ClearKeeps ==
    ASSUME NEW t \in Threads, ListenerInv, Clear(t) PROVE ListenerInv'
<1>. USE Names DEF ListenerInv
<1>1. ListenerTypes'
    BY Zenon DEF Clear, Cleared, Goto, ListenerTypes, TypeOK, Labels, NoJob, listenerVars, cancelVars, fateVars, kernelVars
<1>2. Jobs'
    BY Zenon DEF Clear, Cleared, Goto, ListenerTypes, TypeOK, Jobs, NoJob, None, Nobody, Threads, listenerVars, cancelVars, fateVars, kernelVars
<1>3. OneCompletion'
    BY DEF Clear, Cleared, Goto, ListenerTypes, TypeOK, Jobs, OneCompletion, Expected, Cancels, NewOp, NoJob, None, Nobody, Threads, listenerVars, cancelVars, fateVars, kernelVars
<1>4. Cancels'
    BY Zenon DEF Clear, Cleared, Goto, ListenerTypes, TypeOK, Cancels, Jobs, OneCompletion, Expected, NewOp, None, Nobody, Threads, listenerVars, cancelVars, fateVars, kernelVars
<1>5. NoStrandedAccept'
    BY Zenon DEF Clear, Cleared, Goto, NoStrandedAccept, ListenerTypes, TypeOK, listenerVars, cancelVars, fateVars, kernelVars
<1>6. WaitIsOwned'
    BY DEF Clear, Cleared, Goto, ListenerTypes, TypeOK, Jobs, OneCompletion, Cancels, WaitIsOwned, NewOp, NoJob, None, Threads, listenerVars, cancelVars, fateVars, kernelVars
<1>7. Located'
    BY StillLocated, Zenon DEF Clear, Goto, ListenerTypes, TypeOK, listenerVars, cancelVars, fateVars, kernelVars
<1>. QED  BY <1>1, <1>2, <1>3, <1>4, <1>5, <1>6, <1>7, Zenon

\* A completion stores its stream, or closes that of an operation that was cancelled.
LEMMA StoreKeeps ==
    ASSUME NEW t \in Threads, ListenerInv, Store(t) PROVE ListenerInv'
<1>. USE Names DEF ListenerInv
<1>. PICK o : o = job[t].op
    BY Zenon
<1>a. /\ o \in Ops /\ ~op[o].complete /\ op[o].stream = Nobody /\ pc[o] # "start" /\ pending # o
      /\ \A u \in Threads : job[u].op = o => u = t
    BY DEF Store, Jobs, OneCompletion, Expected, None
<1>b. /\ op' \in [Ops -> OpRecords]
      /\ op'[o].complete /\ op'[o].canceled = op[o].canceled
      /\ op'[o].stream = IF op[o].canceled THEN Nobody ELSE job[t].conn
      /\ \A x \in Ops \ {o} : op'[x] = op[x]
    <2>. PICK d : d = IF op[o].canceled THEN Nobody ELSE job[t].conn
        BY Zenon
    <2>1. d \in Conns \cup {Nobody}
        BY Zenon DEF ListenerTypes, TypeOK
    <2>2. op' = [op EXCEPT ![o] = [@ EXCEPT !.complete = TRUE, !.stream = d]]
        BY <1>a, Zenon DEF Store, ListenerTypes, TypeOK
    <2>. PICK r : r = [op[o] EXCEPT !.complete = TRUE, !.stream = d]
        OBVIOUS
    <2>3. r \in OpRecords /\ r.complete /\ r.canceled = op[o].canceled /\ r.stream = d
        <3>1. op[o] \in OpRecords
            BY <1>a DEF OpRecords, ListenerTypes, TypeOK
        <3>. QED  BY <2>1, <3>1, Zenon DEF OpRecords
    <2>4. op' = [op EXCEPT ![o] = r]
        BY <2>2
    <2>. QED  BY <1>a, <2>3, <2>4, OpChange, Zenon DEF ListenerTypes
<1>c. /\ job' \in [Threads -> [op : Ops \cup {None}, conn : Conns \cup {Nobody}]]
      /\ job'[t] = NoJob /\ \A u \in Threads \ {t} : job'[u] = job[u]
    BY Zenon DEF Store, ListenerTypes, TypeOK, NoJob
<1>d. /\ pc' \in [Threads -> Labels] /\ pc'[t] \in {"idle", "loop", "drain", "await"}
      /\ \A u \in Threads \ {t} : pc'[u] = pc[u]
    BY DEF Store, AfterStore, Goto, ListenerTypes, Labels
<1>1. ListenerTypes'
    <2>1. (pending \in Ops \cup {None} /\ queue \in Seq(Conns) /\ (closed => pending = None /\ queue = <<>>))'
        BY DEF Store, ListenerTypes, TypeOK, listenerVars
    <2>2. (arrived \in 0..MaxConns /\ taken \in 0..arrived /\ errors \in Nat)'
        BY Zenon DEF Store, ListenerTypes, TypeOK, kernelVars
    <2>3. (closing \cup given \cup shut \cup dropped \subseteq Conns)'
        BY DEF Store, ListenerTypes, TypeOK
    <2>4. /\ (closed \in BOOLEAN /\ live \in BOOLEAN)'
          /\ (cancelPc \in [Ops -> {"start", "clear", "done"}] /\ cancelled \in [Ops -> Conns \cup {Nobody}])'
        BY Zenon DEF Store, ListenerTypes, TypeOK, listenerVars, cancelVars
    <2>. QED  BY <1>b, <1>c, <1>d, <2>1, <2>2, <2>3, <2>4, Zenon DEF ListenerTypes, TypeOK, OpRecords
<1>2. Jobs'
    BY DEF Store, AfterStore, Goto, ListenerTypes, TypeOK, Jobs, NoJob, None, Nobody, Threads, listenerVars, cancelVars, fateVars, kernelVars
<1>3. OneCompletion'
    <2>1. pending' = pending
        BY Zenon DEF Store, listenerVars
    <2>2. pending # None => pending \in Ops \ {o}
        BY <1>a, Zenon DEF ListenerTypes, TypeOK
    <2>3. \A u \in Threads : job'[u].op # None => /\ u # t /\ job'[u] = job[u]
                                                  /\ job[u].op \in Ops \ {o}
        BY <1>a, <1>c DEF NoJob, ListenerTypes, TypeOK
    <2>4. \A x \in Ops \ {o} : op'[x] = op[x] /\ (pc'[x] = "start" => pc[x] = "start")
        BY <1>b, <1>d, Zenon
    <2>5. pending' # None => Expected(pending)'
        BY <2>1, <2>2, <2>4, Zenon DEF OneCompletion, Expected
    <2>6. ASSUME NEW u \in Threads, job'[u].op # None
          PROVE  /\ Expected(job[u].op)' /\ pending' # job'[u].op
                 /\ \A v \in Threads : job'[v].op = job'[u].op => v = u
        BY <2>1, <2>3, <2>4, <2>6 DEF OneCompletion, Expected
    <2>. QED  BY <2>5, <2>6, Zenon DEF OneCompletion
<1>4. Cancels'
    <2>1. UNCHANGED <<cancelPc, cancelled>>
        BY Zenon DEF Store, cancelVars
    <2>2. ASSUME NEW x \in Ops, x # o
          PROVE  /\ op'[x].canceled => op'[x].stream = Nobody
                 /\ op'[x].canceled <=> cancelPc'[x] # "start"
                 /\ cancelled'[x] # Nobody => cancelPc'[x] = "clear"
                 /\ pc'[x] = "start" => op'[x] = NewOp
        <3>1. op'[x] = op[x]
            BY <1>b, <2>2, Zenon
        <3>2. pc'[x] = "start" => pc[x] = "start"
            BY <1>d, <2>2
        <3>. QED  BY <2>1, <3>1, <3>2, Zenon DEF Cancels
    <2>3. /\ op'[o].canceled => op'[o].stream = Nobody
          /\ op'[o].canceled <=> cancelPc'[o] # "start"
          /\ cancelled'[o] # Nobody => cancelPc'[o] = "clear"
          /\ pc'[o] # "start"
        BY <1>a, <1>b, <1>d, <2>1, Zenon DEF Cancels
    <2>. QED  BY <2>2, <2>3, Zenon DEF Cancels
<1>5. NoStrandedAccept'
    BY Zenon DEF Store, AfterStore, Goto, NoStrandedAccept, ListenerTypes, TypeOK, listenerVars, cancelVars, fateVars, kernelVars
<1>6. WaitIsOwned'
    <2>. SUFFICES ASSUME NEW x \in Ops, pc'[x] = "await", ~op'[x].complete, ~op'[x].canceled
                  PROVE  pending' = x \/ \E u \in Threads : job'[u].op = x
        BY DEF WaitIsOwned
    <2>1. x # o /\ op'[x] = op[x] /\ pending' = pending
        BY <1>b, Zenon DEF Store, listenerVars
    <2>2. pc[x] = "await"
        <3>1. CASE x = t
            BY <1>a, <2>1, <3>1, Zenon DEF Jobs, None
        <3>. QED  BY <1>d, <3>1
    <2>3. pending = x \/ \E u \in Threads : job[u].op = x
        BY <2>1, <2>2, Zenon DEF WaitIsOwned
    <2>. QED  BY <1>c, <2>1, <2>3, Zenon
<1>7. Located'
    <2>. PICK m : m = job[t].conn
        BY Zenon
    <2>1. taken' = taken /\ UNCHANGED <<queue, cancelled, closing, given>>
        BY DEF Store, listenerVars, kernelVars, cancelVars
    <2>2. m \in Conns => /\ m <= taken /\ CarriedBy(m) = {t} /\ QueuedAt(m) = {} /\ StoredIn(m) = {}
                         /\ SetAsideBy(m) = {} /\ FatesOf(m) = {}
        <3>1. t \in CarriedBy(m)
            BY Zenon DEF CarriedBy
        <3>. QED  BY <3>1, Found, Zenon
    <2>3. \A c : QueuedAt(c)' = QueuedAt(c) /\ SetAsideBy(c)' = SetAsideBy(c)
        BY <2>1, Zenon DEF QueuedAt, SetAsideBy
    <2>4. \A c \in Conns : c # Nobody
        BY DEF Conns, Nobody
    <2>6. \A c \in Conns \ {m} : t \notin CarriedBy(c) /\ o \notin StoredIn(c)
        BY <1>a, <2>4, Zenon DEF CarriedBy, StoredIn
    <2>5. (m \in Conns => CarriedBy(m)' = {}) /\ \A c \in Conns \ {m} : CarriedBy(c)' = CarriedBy(c)
        <3>1. ASSUME NEW c \in Conns PROVE CarriedBy(c)' = CarriedBy(c) \ {t}
            BY <1>c, <2>4, JobSet DEF NoJob
        <3>2. m \in Conns => CarriedBy(m)' = {}
            BY <2>2, <3>1, Zenon
        <3>3. \A c \in Conns \ {m} : CarriedBy(c)' = CarriedBy(c)
            BY <2>6, <3>1, Zenon
        <3>. QED  BY <3>2, <3>3, Zenon
    <2>7. pc'["closer"] = "start" => closing' = {}
        BY <1>d, <2>1 DEF Located
    <2>8. CASE op[o].canceled
        <3>1. shut' = shut \cup ({m} \ {Nobody})
            BY <2>8 DEF Store
        <3>2. (m \in Conns => FatesOf(m)' = {"shut"}) /\ \A c \in Conns \ {m} : FatesOf(c)' = FatesOf(c)
            BY <2>1, <2>2, <3>1, ShutOne, Zenon
        <3>3. (m \in Conns => StoredIn(m)' = {}) /\ \A c \in Conns \ {m} : StoredIn(c)' = StoredIn(c)
            <4>1. ASSUME NEW c \in Conns PROVE StoredIn(c)' = StoredIn(c) \ {o}
                BY <1>a, <1>b, <2>4, <2>8, OpSet, SMTT(30)
            <4>2. m \in Conns => StoredIn(m)' = {}
                BY <2>2, <4>1
            <4>3. \A c \in Conns \ {m} : StoredIn(c)' = StoredIn(c)
                BY <2>6, <4>1, SMTT(30)
            <4>. QED  BY <4>2, <4>3
        <3>4. m \in Conns => Settled(m)'
            BY <2>2, <2>3, <2>4, <2>5, <3>2, <3>3, Zenon DEF Settled, OneOf, Alone
        <3>9. \A c \in Conns \ {m} :
                  /\ QueuedAt(c)' = QueuedAt(c) /\ StoredIn(c)' = StoredIn(c)
                  /\ CarriedBy(c)' = CarriedBy(c) /\ SetAsideBy(c)' = SetAsideBy(c)
                  /\ FatesOf(c)' = FatesOf(c)
            BY <2>1, <2>2, <2>3, <2>5, <2>6, <2>7, <3>2, <3>3, <3>4, Zenon
        <3>. QED  BY <2>1, <2>2, <2>3, <2>5, <2>6, <2>7, <3>2, <3>3, <3>4, <3>9, OneMoved, Zenon
    <2>9. CASE ~op[o].canceled
        <3>1. shut' = shut
            BY <2>9, Zenon DEF Store
        <3>2. \A c : FatesOf(c)' = FatesOf(c)
            BY <2>1, <3>1, Zenon DEF FatesOf
        <3>3. (m \in Conns => StoredIn(m)' = {o}) /\ \A c \in Conns \ {m} : StoredIn(c)' = StoredIn(c)
            <4>1. ASSUME NEW c \in Conns
                  PROVE  StoredIn(c)' = (StoredIn(c) \ {o}) \cup (IF m = c THEN {o} ELSE {})
                BY <1>a, <1>b, <2>9, OpSet
            <4>. QED  BY <2>2, <2>6, <4>1, SMTT(30)
        <3>4. m \in Conns => Settled(m)'
            BY <2>2, <2>3, <2>5, <3>2, <3>3, Zenon DEF Settled, OneOf, Alone
        <3>9. \A c \in Conns \ {m} :
                  /\ QueuedAt(c)' = QueuedAt(c) /\ StoredIn(c)' = StoredIn(c)
                  /\ CarriedBy(c)' = CarriedBy(c) /\ SetAsideBy(c)' = SetAsideBy(c)
                  /\ FatesOf(c)' = FatesOf(c)
            BY <2>1, <2>2, <2>3, <2>5, <2>6, <2>7, <3>2, <3>3, <3>4, Zenon
        <3>. QED  BY <2>1, <2>2, <2>3, <2>5, <2>6, <2>7, <3>2, <3>3, <3>4, <3>9, OneMoved, Zenon
    <2>. QED  BY <2>8, <2>9
<1>. QED  BY <1>1, <1>2, <1>3, <1>4, <1>5, <1>6, <1>7, Zenon

\* An accept fails, takes the first of the queue or the slot.
LEMMA AcceptKeeps ==
    ASSUME NEW o \in Ops, ListenerInv, Accept(o) PROVE ListenerInv'
<1>. USE Names DEF ListenerInv
<1>a. queue # <<>> => Head(queue) \in Conns /\ Tail(queue) \in Seq(Conns)
    BY DEF ListenerTypes, TypeOK
<1>b. /\ job' = job => queue' = queue
      /\ job' = job \/ (~closed /\ queue # <<>>)
    <2>1. job[o] = NoJob
        BY Zenon DEF Accept, Jobs
    <2>2. CASE ~closed /\ queue # <<>>
        <3>1. job'[o].op = o
            BY <2>2 DEF Accept, Completing, ListenerTypes, TypeOK
        <3>. QED  BY <2>1, <2>2, <3>1, SMTT(30) DEF NoJob
    <2>. QED  BY <2>2, Zenon DEF Accept
<1>c. pc'["closer"] = pc["closer"] /\ closing' = closing
    BY Zenon DEF Accept, Completing, Goto, ListenerTypes
<1>1. ListenerTypes'
    <2>1. (pending \in Ops \cup {None} /\ queue \in Seq(Conns))'
        BY <1>a, Zenon DEF Accept, ListenerTypes, TypeOK, listenerVars
    <2>2. (arrived \in 0..MaxConns /\ taken \in 0..arrived /\ errors \in Nat)'
        BY ListenerAssumption, Zenon DEF Accept, ListenerTypes, TypeOK, kernelVars
    <2>3. (op \in [Ops -> [complete : BOOLEAN, canceled : BOOLEAN, finished : BOOLEAN,
                           stream : Conns \cup {Nobody}]])'
        BY Zenon DEF Accept, ListenerTypes, TypeOK
    <2>4. (job \in [Threads -> [op : Ops \cup {None}, conn : Conns \cup {Nobody}]])'
        BY <1>a, JobChange, Zenon DEF Accept, Completing, Goto, ListenerTypes, TypeOK, NoJob
    <2>5. (closing \cup given \cup shut \cup dropped \subseteq Conns)'
        BY <1>a, Zenon DEF Accept, ListenerTypes, TypeOK, fateVars
    <2>6. (closed => pending = None /\ queue = <<>>)'
        BY Zenon DEF Accept, ListenerTypes, TypeOK, listenerVars
    <2>7. (pc \in [Threads -> Labels])'
        BY Zenon DEF Accept, Completing, Goto, ListenerTypes, Labels
    <2>8. /\ (closed \in BOOLEAN /\ live \in BOOLEAN)'
          /\ (cancelPc \in [Ops -> {"start", "clear", "done"}] /\ cancelled \in [Ops -> Conns \cup {Nobody}])'
        BY Zenon DEF Accept, ListenerTypes, TypeOK, listenerVars, cancelVars
    <2>. QED  BY <2>1, <2>2, <2>3, <2>4, <2>5, <2>6, <2>7, <2>8, Zenon DEF ListenerTypes, TypeOK
<1>2. Jobs'
    <2>1. /\ o \in Threads /\ o # "closer" /\ job[o] = NoJob /\ NoJob.op = None /\ NoJob.conn = Nobody
          /\ \A u \in Threads \ {o} : pc'[u] = pc[u]
        BY SMTT(30) DEF Accept, Completing, Goto, ListenerTypes, TypeOK, Jobs, NoJob, Threads
    <2>2. CASE job' = job /\ pc'[o] \in {"done", "await"}
        BY <2>1, <2>2, Zenon DEF Jobs
    <2>3. CASE pc'[o] = "clear" /\ job'[o].op = o /\ \A u \in Threads \ {o} : job'[u] = job[u]
        BY <2>1, <2>3 DEF Jobs
    <2>4. \/ job' = job /\ pc'[o] \in {"done", "await"}
          \/ pc'[o] = "clear" /\ job'[o].op = o /\ \A u \in Threads \ {o} : job'[u] = job[u]
        BY DEF Accept, Completing, Goto, ListenerTypes, TypeOK, Threads
    <2>. QED  BY <2>2, <2>3, <2>4, Zenon
<1>3. OneCompletion'
    <2>1. op' = op /\ op[o] = NewOp /\ job[o].op = None /\ pc[o] = "start"
        BY SMTT(30) DEF Accept, Cancels, Jobs, NoJob
    <2>2. pc'[o] # "start" /\ \A x \in Ops \ {o} : pc'[x] = pc[x]
        BY Zenon DEF Accept, Completing, Goto, ListenerTypes
    <2>3. Expected(o)'
        BY <2>1, <2>2 DEF Expected, NewOp
    <2>4. \A x \in Ops : Expected(x) => Expected(x)'
        BY <2>1, <2>2 DEF Expected
    <2>5. pending # o /\ \A u \in Threads : job[u].op # o
        BY <2>1, Zenon DEF OneCompletion, Expected, None
    <2>6. /\ pending' \in {pending, o} /\ \A u \in Threads \ {o} : job'[u] = job[u]
          /\ job'[o].op \in {None, o} /\ (job'[o].op = o => pending' = pending)
        BY <2>1 DEF Accept, Completing, ListenerTypes, TypeOK
    <2>7. pending' # None => Expected(pending)'
        BY <2>3, <2>4, <2>6, ZenonT(30) DEF OneCompletion, ListenerTypes, TypeOK, Expected
    <2>8. ASSUME NEW t \in Threads, job'[t].op # None
          PROVE  /\ Expected(job[t].op)' /\ pending' # job'[t].op
                 /\ \A u \in Threads : job'[u].op = job'[t].op => u = t
        <3>1. CASE t = o
            BY <2>3, <2>5, <2>6, <2>8, <3>1, SMTT(30) DEF Expected
        <3>2. CASE t # o
            <4>1. job'[t] = job[t] /\ job[t].op \in Ops
                BY <2>6, <2>8, <3>2, Zenon DEF ListenerTypes, TypeOK
            <4>2. Expected(job[t].op)'
                BY <2>4, <2>8, <4>1, Zenon DEF OneCompletion, Expected
            <4>. QED  BY <2>5, <2>6, <2>8, <4>1, <4>2, ZenonT(30) DEF OneCompletion
        <3>. QED  BY <3>1, <3>2
    <2>. QED  BY <2>7, <2>8, Zenon DEF OneCompletion
<1>4. Cancels'
    BY DEF Accept, Completing, Goto, ListenerTypes, TypeOK, Cancels, Jobs, OneCompletion, Expected, NewOp, None, Nobody, Threads, listenerVars, cancelVars, fateVars, kernelVars
<1>5. NoStrandedAccept'
    BY Zenon DEF Accept, Completing, Goto, NoStrandedAccept, ListenerTypes, TypeOK, listenerVars, cancelVars, fateVars, kernelVars
<1>6. WaitIsOwned'
    <2>. SUFFICES ASSUME NEW x \in Ops, pc'[x] = "await", ~op'[x].complete, ~op'[x].canceled
                  PROVE  pending' = x \/ \E u \in Threads : job'[u].op = x
        BY Zenon DEF WaitIsOwned
    <2>1. op' = op
        BY Zenon DEF Accept
    <2>2. CASE x = o
        BY <2>2, Zenon DEF Accept, Completing, Goto, ListenerTypes
    <2>3. CASE x # o
        <3>1. pc[x] = "await"
            BY <2>3, Zenon DEF Accept, Completing, Goto, ListenerTypes
        <3>2. pending = x \/ \E u \in Threads : job[u].op = x
            BY <2>1, <3>1, Zenon DEF WaitIsOwned
        <3>3. job[o].op = None
            BY DEF Accept, Jobs, NoJob
        <3>4. \A u \in Threads \ {o} : job'[u] = job[u]
            BY Zenon DEF Accept, Completing, ListenerTypes, TypeOK
        <3>5. pending = x => pending' = x
            BY Zenon DEF Accept
        <3>. QED  BY <3>2, <3>3, <3>4, <3>5, Zenon
    <2>. QED  BY <2>2, <2>3, Zenon
<1>7. Located'
    <2>1. CASE job' = job
        <3>1. queue' = queue
            BY <1>b, <2>1, Zenon
        <3>. QED  BY <1>c, <2>1, <3>1, StillLocated, Zenon DEF Accept, kernelVars, cancelVars, fateVars
    <2>2. CASE ~closed /\ queue # <<>>
        <3>. PICK m : m = Head(queue)
            OBVIOUS
        <3>1. /\ taken' = taken /\ queue' = Tail(queue) /\ m \in Conns
              /\ UNCHANGED <<op, cancelled, closing, given, shut>>
            BY <1>a, <2>2, Zenon DEF Accept, kernelVars, cancelVars, fateVars
        <3>2. \A c : /\ StoredIn(c)' = StoredIn(c) /\ SetAsideBy(c)' = SetAsideBy(c)
                     /\ FatesOf(c)' = FatesOf(c)
            BY <3>1, Zenon DEF StoredIn, SetAsideBy, FatesOf
        <3>3. /\ m <= taken /\ QueuedAt(m) = {1} /\ StoredIn(m) = {} /\ CarriedBy(m) = {}
              /\ SetAsideBy(m) = {} /\ FatesOf(m) = {}
            <4>1. 1 \in QueuedAt(m)
                BY <2>2 DEF QueuedAt, ListenerTypes, TypeOK
            <4>. QED  BY <3>1, <4>1, Found, Zenon
        <3>4. CarriedBy(m)' = {o} /\ \A c \in Conns \ {m} : CarriedBy(c)' = CarriedBy(c)
            <4>1. job'[o].conn = m /\ \A u \in Threads \ {o} : job'[u] = job[u]
                BY <2>2 DEF Accept, Completing, ListenerTypes, TypeOK
            <4>2. \A c \in Conns : o \notin CarriedBy(c)
                BY DEF CarriedBy, Accept, Jobs, NoJob, Conns, Nobody
            <4>3. ASSUME NEW c \in Conns
                  PROVE  CarriedBy(c)' = CarriedBy(c) \cup (IF m = c THEN {o} ELSE {})
                <5>1. CarriedBy(c)' = (CarriedBy(c) \ {o}) \cup (IF job'[o].conn = c THEN {o} ELSE {})
                    BY <4>1, JobSet, Zenon
                <5>. QED  BY <4>1, <4>2, <5>1, Zenon
            <4>4. CarriedBy(m)' = {o}
                BY <3>1, <3>3, <4>3, Zenon
            <4>5. ASSUME NEW c \in Conns \ {m} PROVE CarriedBy(c)' = CarriedBy(c)
                BY <4>3, Zenon
            <4>. QED  BY <4>4, <4>5, Zenon
        <3>5. \A c, i : i \in QueuedAt(c)' <=> i \in Nat \ {0} /\ i + 1 \in QueuedAt(c)
            BY <2>2, <3>1 DEF QueuedAt, ListenerTypes, TypeOK
        <3>6. \A c : \A x \in QueuedAt(c) : x \in Nat \ {0}
            BY SMTT(30) DEF QueuedAt, ListenerTypes, TypeOK
        <3>7. Settled(m)'
            <4>1. QueuedAt(m)' = {}
                BY <3>3, <3>5, SMTT(30)
            <4>. QED  BY <3>2, <3>3, <3>4, <4>1, Zenon DEF Settled, OneOf, Alone
        <3>8. ASSUME NEW c \in Conns \ {m} PROVE IF c <= taken THEN Settled(c)' ELSE Nowhere(c)'
            <4>1. CASE QueuedAt(c) = {}
                <5>1. QueuedAt(c)' = QueuedAt(c)
                    BY <3>5, <4>1
                <5>. QED  BY <3>2, <3>4, <5>1, SamePlace, Zenon DEF Located
            <4>2. ASSUME NEW x \in QueuedAt(c) PROVE c <= taken /\ Settled(c)'
                <5>1. /\ c <= taken /\ QueuedAt(c) = {x} /\ StoredIn(c) = {} /\ CarriedBy(c) = {}
                      /\ SetAsideBy(c) = {} /\ FatesOf(c) = {}
                    BY Found, Zenon
                <5>2. x # 1
                    BY <3>3, <4>2, <2>2 DEF QueuedAt
                <5>3. QueuedAt(c)' = {x - 1}
                    BY <3>5, <3>6, <5>1, <5>2
                <5>. QED  BY <3>2, <3>4, <5>1, <5>3, Zenon DEF Settled, OneOf, Alone
            <4>. QED  BY <4>1, <4>2
        <3>. QED  BY <1>c, <3>1, <3>3, <3>7, <3>8 DEF Located
    <2>. QED  BY <1>b, <2>1, <2>2
<1>. QED  BY <1>1, <1>2, <1>3, <1>4, <1>5, <1>6, <1>7, Zenon

\* A finish returns the stream of its operation.
LEMMA FinishKeeps ==
    ASSUME NEW o \in Ops, ListenerInv, Finish(o) PROVE ListenerInv'
<1>. USE Names DEF ListenerInv
<1>b. /\ op' \in [Ops -> OpRecords]
      /\ op'[o].complete = op[o].complete /\ op'[o].canceled = op[o].canceled /\ op'[o].stream = Nobody
      /\ \A x \in Ops \ {o} : op'[x] = op[x]
    <2>. PICK r : r = [op[o] EXCEPT !.finished = TRUE, !.stream = Nobody]
        OBVIOUS
    <2>1. /\ r \in OpRecords /\ r.complete = op[o].complete /\ r.stream = Nobody
          /\ r.canceled = op[o].canceled
        BY ZenonT(30) DEF OpRecords, ListenerTypes, TypeOK
    <2>2. op' = [op EXCEPT ![o] = r]
        BY Zenon DEF Finish, ListenerTypes, TypeOK
    <2>. QED  BY <2>1, <2>2, OpChange, Zenon DEF ListenerTypes
<1>c. pc'[o] = "done" /\ \A u \in Threads \ {o} : pc'[u] = pc[u]
    BY DEF Finish, Goto, ListenerTypes
<1>1. ListenerTypes'
    <2>1. (pending \in Ops \cup {None} /\ queue \in Seq(Conns))'
        BY DEF Finish, ListenerTypes, TypeOK, listenerVars
    <2>2. (arrived \in 0..MaxConns /\ taken \in 0..arrived /\ errors \in Nat)'
        BY ListenerAssumption DEF Finish, ListenerTypes, TypeOK, kernelVars
    <2>3. (op \in [Ops -> [complete : BOOLEAN, canceled : BOOLEAN, finished : BOOLEAN,
                           stream : Conns \cup {Nobody}]])'
        BY <1>b DEF OpRecords
    <2>4. (job \in [Threads -> [op : Ops \cup {None}, conn : Conns \cup {Nobody}]])'
        BY DEF Finish, Goto, ListenerTypes, TypeOK, NoJob, Jobs
    <2>5. (closing \cup given \cup shut \cup dropped \subseteq Conns)'
        BY DEF Finish, ListenerTypes, TypeOK, fateVars
    <2>6. (closed => pending = None /\ queue = <<>>)'
        BY DEF Finish, ListenerTypes, TypeOK, listenerVars
    <2>7. (pc \in [Threads -> Labels])'
        BY DEF Finish, Goto, ListenerTypes, Labels
    <2>8. /\ (closed \in BOOLEAN /\ live \in BOOLEAN)'
          /\ (cancelPc \in [Ops -> {"start", "clear", "done"}] /\ cancelled \in [Ops -> Conns \cup {Nobody}])'
        BY DEF Finish, ListenerTypes, TypeOK, listenerVars, cancelVars
    <2>. QED  BY <2>1, <2>2, <2>3, <2>4, <2>5, <2>6, <2>7, <2>8, Zenon DEF ListenerTypes, TypeOK
<1>2. Jobs'
    BY Zenon DEF Finish, Goto, ListenerTypes, TypeOK, Jobs, NoJob, None, Nobody, Threads, listenerVars, cancelVars, fateVars, kernelVars
<1>3. OneCompletion'
    BY SMTT(30) DEF Finish, Goto, ListenerTypes, TypeOK, Jobs, OneCompletion, Expected, Cancels, NewOp, NoJob, None, Nobody, Threads, listenerVars, cancelVars, fateVars, kernelVars
<1>4. Cancels'
    BY <1>b, <1>c DEF Finish, Cancels, cancelVars
<1>5. NoStrandedAccept'
    BY DEF Finish, Goto, NoStrandedAccept, ListenerTypes, TypeOK, listenerVars, cancelVars, fateVars, kernelVars
<1>6. WaitIsOwned'
    BY SMTT(30) DEF Finish, Goto, ListenerTypes, TypeOK, Jobs, OneCompletion, Cancels, WaitIsOwned, NewOp, NoJob, None, Threads, listenerVars, cancelVars, fateVars, kernelVars
<1>7. Located'
    <2>. PICK m : m = op[o].stream
        OBVIOUS
    <2>1. taken' = taken /\ UNCHANGED <<queue, job, cancelled, closing, shut>>
        BY DEF Finish, listenerVars, kernelVars, cancelVars
    <2>2. m \in Conns => /\ m <= taken /\ StoredIn(m) = {o} /\ QueuedAt(m) = {} /\ CarriedBy(m) = {}
                         /\ SetAsideBy(m) = {} /\ FatesOf(m) = {}
        <3>1. o \in StoredIn(m)
            BY Zenon DEF StoredIn
        <3>. QED  BY <3>1, Found, Zenon
    <2>3. \A c : QueuedAt(c)' = QueuedAt(c) /\ SetAsideBy(c)' = SetAsideBy(c) /\ CarriedBy(c)' = CarriedBy(c)
        BY <2>1 DEF QueuedAt, SetAsideBy, CarriedBy
    <2>4. \A c \in Conns : c # Nobody
        BY SMTT(30) DEF Conns, Nobody
    <2>5. (m \in Conns => StoredIn(m)' = {}) /\ \A c \in Conns \ {m} : StoredIn(c)' = StoredIn(c)
        <3>1. ASSUME NEW c \in Conns PROVE StoredIn(c)' = StoredIn(c) \ {o}
            BY <1>b, <2>4, OpSet
        <3>2. \A c \in Conns \ {m} : o \notin StoredIn(c)
            BY DEF StoredIn
        <3>. QED  BY <2>2, <3>1, <3>2
    <2>6. given' = given \cup ({m} \ {Nobody})
        BY DEF Finish, Cancels
    <2>7. (m \in Conns => FatesOf(m)' = {"given"}) /\ \A c \in Conns \ {m} : FatesOf(c)' = FatesOf(c)
        BY <2>1, <2>2, <2>6, GivenOne, Zenon
    <2>8. pc'["closer"] = "start" => closing' = {}
        BY <1>c, <2>1 DEF Located
    <2>9. m \in Conns => Settled(m)'
        BY <2>2, <2>3, <2>5, <2>7, Zenon DEF Settled, OneOf, Alone
    <2>10. \A c \in Conns \ {m} :
               /\ QueuedAt(c)' = QueuedAt(c) /\ StoredIn(c)' = StoredIn(c)
               /\ CarriedBy(c)' = CarriedBy(c) /\ SetAsideBy(c)' = SetAsideBy(c)
               /\ FatesOf(c)' = FatesOf(c)
        BY <2>3, <2>5, <2>7
    <2>. QED  BY <2>1, <2>2, <2>8, <2>9, <2>10, OneMoved, Zenon
<1>. QED  BY <1>1, <1>2, <1>3, <1>4, <1>5, <1>6, <1>7

\* A cancel sets the stream of its operation aside ...
LEMMA CancelKeeps ==
    ASSUME NEW o \in Ops, ListenerInv, Cancel(o) PROVE ListenerInv'
<1>. USE Names DEF ListenerInv
<1>b. /\ op' \in [Ops -> OpRecords]
      /\ op'[o].complete = op[o].complete /\ op'[o].canceled /\ op'[o].stream = Nobody
      /\ \A x \in Ops \ {o} : op'[x] = op[x]
    <2>. PICK r : r = [op[o] EXCEPT !.canceled = TRUE, !.stream = Nobody]
        OBVIOUS
    <2>1. /\ r \in OpRecords /\ r.complete = op[o].complete /\ r.stream = Nobody
          /\ r.canceled = TRUE
        BY ZenonT(30) DEF OpRecords, ListenerTypes, TypeOK
    <2>2. op' = [op EXCEPT ![o] = r]
        BY Zenon DEF Cancel, ListenerTypes, TypeOK
    <2>. QED  BY <2>1, <2>2, OpChange, Zenon DEF ListenerTypes
<1>c. /\ cancelPc'[o] = "clear" /\ \A x \in Ops \ {o} : cancelPc'[x] = cancelPc[x]
      /\ cancelled'[o] = op[o].stream /\ \A x \in Ops \ {o} : cancelled'[x] = cancelled[x]
    BY DEF Cancel, ListenerTypes
<1>1. ListenerTypes'
    <2>1. (pending \in Ops \cup {None} /\ queue \in Seq(Conns))'
        BY DEF Cancel, ListenerTypes, TypeOK, listenerVars
    <2>2. (arrived \in 0..MaxConns /\ taken \in 0..arrived /\ errors \in Nat)'
        BY ListenerAssumption, Zenon DEF Cancel, ListenerTypes, TypeOK, kernelVars
    <2>3. (op \in [Ops -> [complete : BOOLEAN, canceled : BOOLEAN, finished : BOOLEAN,
                           stream : Conns \cup {Nobody}]])'
        BY <1>b DEF OpRecords
    <2>4. (job \in [Threads -> [op : Ops \cup {None}, conn : Conns \cup {Nobody}]])'
        BY DEF Cancel, ListenerTypes, TypeOK, NoJob, Jobs
    <2>5. (closing \cup given \cup shut \cup dropped \subseteq Conns)'
        BY DEF Cancel, ListenerTypes, TypeOK, fateVars
    <2>6. (closed => pending = None /\ queue = <<>>)'
        BY DEF Cancel, ListenerTypes, TypeOK, listenerVars
    <2>7. (pc \in [Threads -> Labels])'
        BY DEF Cancel, ListenerTypes, Labels
    <2>8. /\ (closed \in BOOLEAN /\ live \in BOOLEAN)'
          /\ (cancelPc \in [Ops -> {"start", "clear", "done"}] /\ cancelled \in [Ops -> Conns \cup {Nobody}])'
        BY DEF Cancel, ListenerTypes, TypeOK, listenerVars, cancelVars
    <2>. QED  BY <2>1, <2>2, <2>3, <2>4, <2>5, <2>6, <2>7, <2>8, SMTT(30) DEF ListenerTypes, TypeOK
<1>2. Jobs'
    BY Zenon DEF Cancel, ListenerTypes, TypeOK, Jobs, NoJob, None, Nobody, Threads, listenerVars, cancelVars, fateVars, kernelVars
<1>3. OneCompletion'
    BY SMTT(30) DEF Cancel, ListenerTypes, TypeOK, Jobs, OneCompletion, Expected, Cancels, NewOp, NoJob, None, Nobody, Threads, listenerVars, cancelVars, fateVars, kernelVars
<1>4. Cancels'
    <2>1. pc' = pc /\ pc[o] = "await"
        BY DEF Cancel
    <2>. QED  BY <1>b, <1>c, <2>1 DEF Cancels
<1>5. NoStrandedAccept'
    BY DEF Cancel, NoStrandedAccept, ListenerTypes, TypeOK, listenerVars, cancelVars, fateVars, kernelVars
<1>6. WaitIsOwned'
    BY DEF Cancel, ListenerTypes, TypeOK, Jobs, OneCompletion, Cancels, WaitIsOwned, NewOp, NoJob, None, Threads, listenerVars, cancelVars, fateVars, kernelVars
<1>7. Located'
    <2>. PICK m : m = op[o].stream
        OBVIOUS
    <2>1. taken' = taken /\ UNCHANGED <<queue, job, pc, closing, shut, given>>
        BY Zenon DEF Cancel, listenerVars, kernelVars, fateVars
    <2>2. m \in Conns => /\ m <= taken /\ StoredIn(m) = {o} /\ QueuedAt(m) = {} /\ CarriedBy(m) = {}
                         /\ SetAsideBy(m) = {} /\ FatesOf(m) = {}
        <3>1. o \in StoredIn(m)
            BY DEF StoredIn
        <3>. QED  BY <3>1, Found, Zenon
    <2>3. \A c : QueuedAt(c)' = QueuedAt(c) /\ CarriedBy(c)' = CarriedBy(c) /\ FatesOf(c)' = FatesOf(c)
        BY <2>1 DEF QueuedAt, CarriedBy, FatesOf
    <2>4. \A c \in Conns : c # Nobody
        BY DEF Conns, Nobody
    <2>5. (m \in Conns => StoredIn(m)' = {}) /\ \A c \in Conns \ {m} : StoredIn(c)' = StoredIn(c)
        <3>1. ASSUME NEW c \in Conns PROVE StoredIn(c)' = StoredIn(c) \ {o}
            BY <1>b, <2>4, OpSet, SMTT(30)
        <3>2. \A c \in Conns \ {m} : o \notin StoredIn(c)
            BY DEF StoredIn
        <3>. QED  BY <2>2, <3>1, <3>2
    <2>6. (m \in Conns => SetAsideBy(m)' = {o}) /\ \A c \in Conns \ {m} : SetAsideBy(c)' = SetAsideBy(c)
        <3>1. ASSUME NEW c \in Conns
              PROVE  SetAsideBy(c)' = (SetAsideBy(c) \ {o}) \cup (IF m = c THEN {o} ELSE {})
            BY <1>c, CancelSet
        <3>2. \A c \in Conns : o \notin SetAsideBy(c)
            BY <2>4 DEF SetAsideBy, Cancel, Cancels
        <3>. QED  BY <2>2, <3>1, <3>2, SMTT(30)
    <2>8. pc'["closer"] = "start" => closing' = {}
        BY <2>1 DEF Located
    <2>9. m \in Conns => Settled(m)'
        BY <2>2, <2>3, <2>5, <2>6, Zenon DEF Settled, OneOf, Alone
    <2>10. \A c \in Conns \ {m} :
               /\ QueuedAt(c)' = QueuedAt(c) /\ StoredIn(c)' = StoredIn(c)
               /\ CarriedBy(c)' = CarriedBy(c) /\ SetAsideBy(c)' = SetAsideBy(c)
               /\ FatesOf(c)' = FatesOf(c)
        BY <2>3, <2>5, <2>6, Zenon
    <2>. QED  BY <2>1, <2>2, <2>8, <2>9, <2>10, OneMoved, Zenon
<1>. QED  BY <1>1, <1>2, <1>3, <1>4, <1>5, <1>6, <1>7

\* ... and closes it.
LEMMA CancelClearKeeps ==
    ASSUME NEW o \in Ops, ListenerInv, CancelClear(o) PROVE ListenerInv'
<1>. USE Names DEF ListenerInv
<1>1. ListenerTypes'
    BY ZenonT(30) DEF CancelClear, Cleared, ListenerTypes, TypeOK, Labels, NoJob, listenerVars, cancelVars, fateVars, kernelVars
<1>2. Jobs'
    BY Zenon DEF CancelClear, Cleared, ListenerTypes, TypeOK, Jobs, NoJob, None, Nobody, Threads, listenerVars, cancelVars, fateVars, kernelVars
<1>3. OneCompletion'
    BY Zenon DEF CancelClear, Cleared, ListenerTypes, TypeOK, Jobs, OneCompletion, Expected, Cancels, NewOp, NoJob, None, Nobody, Threads, listenerVars, cancelVars, fateVars, kernelVars
<1>4. Cancels'
    BY SMTT(30) DEF CancelClear, Cleared, ListenerTypes, TypeOK, Cancels, Jobs, OneCompletion, Expected, NewOp, None, Nobody, Threads, listenerVars, cancelVars, fateVars, kernelVars
<1>5. NoStrandedAccept'
    BY Zenon DEF CancelClear, Cleared, NoStrandedAccept, ListenerTypes, TypeOK, listenerVars, cancelVars, fateVars, kernelVars
<1>6. WaitIsOwned'
    BY SMTT(30) DEF CancelClear, Cleared, ListenerTypes, TypeOK, Jobs, OneCompletion, Cancels, WaitIsOwned, NewOp, NoJob, None, Threads, listenerVars, cancelVars, fateVars, kernelVars
<1>7. Located'
    <2>. PICK m : m = cancelled[o]
        BY Zenon
    <2>1. taken' = taken /\ UNCHANGED <<queue, op, job, pc, closing, given>>
        BY Zenon DEF CancelClear, kernelVars
    <2>2. m \in Conns => /\ m <= taken /\ SetAsideBy(m) = {o} /\ QueuedAt(m) = {} /\ CarriedBy(m) = {}
                         /\ StoredIn(m) = {} /\ FatesOf(m) = {}
        <3>1. o \in SetAsideBy(m)
            BY Zenon DEF SetAsideBy
        <3>. QED  BY <3>1, Found, Zenon
    <2>3. \A c : QueuedAt(c)' = QueuedAt(c) /\ StoredIn(c)' = StoredIn(c) /\ CarriedBy(c)' = CarriedBy(c)
        BY <2>1, Zenon DEF QueuedAt, StoredIn, CarriedBy
    <2>4. \A c \in Conns : c # Nobody
        BY SMTT(30) DEF Conns, Nobody
    <2>5. (m \in Conns => SetAsideBy(m)' = {}) /\ \A c \in Conns \ {m} : SetAsideBy(c)' = SetAsideBy(c)
        <3>1. cancelled'[o] = Nobody /\ \A x \in Ops \ {o} : cancelled'[x] = cancelled[x]
            BY Zenon DEF CancelClear, ListenerTypes
        <3>2. ASSUME NEW c \in Conns PROVE SetAsideBy(c)' = SetAsideBy(c) \ {o}
            BY <2>4, <3>1, CancelSet
        <3>3. \A c \in Conns \ {m} : o \notin SetAsideBy(c)
            BY Zenon DEF SetAsideBy
        <3>. QED  BY <2>2, <3>2, <3>3, SMTT(30)
    <2>6. shut' = shut \cup ({m} \ {Nobody})
        BY Zenon DEF CancelClear
    <2>7. (m \in Conns => FatesOf(m)' = {"shut"}) /\ \A c \in Conns \ {m} : FatesOf(c)' = FatesOf(c)
        BY <2>1, <2>2, <2>6, ShutOne, Zenon
    <2>8. pc'["closer"] = "start" => closing' = {}
        BY <2>1, Zenon DEF Located
    <2>9. m \in Conns => Settled(m)'
        BY <2>2, <2>3, <2>5, <2>7, Zenon DEF Settled, OneOf, Alone
    <2>10. \A c \in Conns \ {m} :
               /\ QueuedAt(c)' = QueuedAt(c) /\ StoredIn(c)' = StoredIn(c)
               /\ CarriedBy(c)' = CarriedBy(c) /\ SetAsideBy(c)' = SetAsideBy(c)
               /\ FatesOf(c)' = FatesOf(c)
        BY <2>3, <2>5, <2>7, Zenon
    <2>. QED  BY <2>1, <2>2, <2>8, <2>9, <2>10, OneMoved, Zenon
<1>. QED  BY <1>1, <1>2, <1>3, <1>4, <1>5, <1>6, <1>7

\* The close of the listener takes the queue and the pending accept.
LEMMA CloseKeeps ==
    ASSUME ListenerInv, Close PROVE ListenerInv'
<1>. USE Names DEF ListenerInv
<1>1. ListenerTypes'
    <2>1. (pending \in Ops \cup {None} /\ queue \in Seq(Conns))'
        BY SMTT(30) DEF Close, ListenerTypes, TypeOK, listenerVars
    <2>2. (arrived \in 0..MaxConns /\ taken \in 0..arrived /\ errors \in Nat)'
        BY ListenerAssumption, Zenon DEF Close, ListenerTypes, TypeOK, kernelVars
    <2>3. (op \in [Ops -> [complete : BOOLEAN, canceled : BOOLEAN, finished : BOOLEAN,
                           stream : Conns \cup {Nobody}]])'
        BY Zenon DEF Close, ListenerTypes, TypeOK
    <2>4. (job \in [Threads -> [op : Ops \cup {None}, conn : Conns \cup {Nobody}]])'
        BY DEF Close, Goto, ListenerTypes, TypeOK, NoJob, Jobs
    <2>5. (closing \cup given \cup shut \cup dropped \subseteq Conns)'
        <3>1. Range(queue) \subseteq Conns
            BY SMTT(30) DEF Range, ListenerTypes, TypeOK
        <3>. QED  BY <3>1, Zenon DEF Close, ListenerTypes, TypeOK, fateVars
    <2>6. (closed => pending = None /\ queue = <<>>)'
        BY Zenon DEF Close, ListenerTypes, TypeOK, listenerVars
    <2>7. (pc \in [Threads -> Labels])'
        BY DEF Close, Goto, ListenerTypes, Labels
    <2>8. /\ (closed \in BOOLEAN /\ live \in BOOLEAN)'
          /\ (cancelPc \in [Ops -> {"start", "clear", "done"}] /\ cancelled \in [Ops -> Conns \cup {Nobody}])'
        BY Zenon DEF Close, ListenerTypes, TypeOK, listenerVars, cancelVars
    <2>. QED  BY <2>1, <2>2, <2>3, <2>4, <2>5, <2>6, <2>7, <2>8 DEF ListenerTypes, TypeOK
<1>2. Jobs'
    BY SMTT(30) DEF Close, Goto, ListenerTypes, TypeOK, Jobs, NoJob, None, Nobody, Threads, listenerVars, cancelVars, fateVars, kernelVars
<1>3. OneCompletion'
    BY SMTT(30) DEF Close, Goto, ListenerTypes, TypeOK, Jobs, OneCompletion, Expected, Cancels, NewOp, NoJob, None, Nobody, Threads, listenerVars, cancelVars, fateVars, kernelVars
<1>4. Cancels'
    BY Zenon DEF Close, Goto, ListenerTypes, TypeOK, Cancels, Jobs, OneCompletion, Expected, NewOp, None, Nobody, Threads, listenerVars, cancelVars, fateVars, kernelVars
<1>5. NoStrandedAccept'
    BY Zenon DEF Close, Goto, NoStrandedAccept, ListenerTypes, TypeOK, listenerVars, cancelVars, fateVars, kernelVars
<1>6. WaitIsOwned'
    BY SMTT(30) DEF Close, Goto, ListenerTypes, TypeOK, Jobs, OneCompletion, Cancels, WaitIsOwned, NewOp, NoJob, None, Threads, listenerVars, cancelVars, fateVars, kernelVars
<1>7. Located'
    <2>1. /\ taken' = taken /\ queue' = <<>> /\ closing = {} /\ closing' = Range(queue)
          /\ pc'["closer"] # "start" /\ UNCHANGED <<op, cancelled, given, shut>>
        BY Zenon DEF Close, Goto, Located, ListenerTypes, kernelVars, cancelVars, fateVars
    <2>2. \A c : /\ QueuedAt(c)' = {} /\ StoredIn(c)' = StoredIn(c)
                 /\ SetAsideBy(c)' = SetAsideBy(c)
        BY <2>1, SMTT(30) DEF QueuedAt, StoredIn, SetAsideBy
    <2>3. \A c \in Conns : CarriedBy(c)' = CarriedBy(c)
        <3>1. job'["closer"].conn = Nobody /\ \A u \in Threads \ {"closer"} : job'[u] = job[u]
            BY Zenon DEF Close, ListenerTypes, TypeOK
        <3>2. \A c \in Conns : c # Nobody /\ "closer" \notin CarriedBy(c)
            BY DEF Close, Jobs, NoJob, CarriedBy, Conns, Nobody
        <3>. QED  BY <3>1, <3>2, JobSet, SMTT(30)
    <2>4. \A c : c \in Range(queue) <=> QueuedAt(c) # {}
        BY Zenon DEF Range, QueuedAt
    <2>5. \A c : QueuedAt(c) = {} => FatesOf(c)' = FatesOf(c)
        BY <2>1, <2>4, Zenon DEF FatesOf
    <2>6. \A c : QueuedAt(c) # {} /\ FatesOf(c) = {} => FatesOf(c)' = {"closing"}
        BY <2>1, <2>4 DEF FatesOf
    <2>7. ASSUME NEW c \in Conns PROVE IF c <= taken THEN Settled(c)' ELSE Nowhere(c)'
        <3>1. CASE QueuedAt(c) = {}
            BY <2>2, <2>3, <2>5, <3>1, SamePlace, Zenon DEF Located
        <3>2. CASE QueuedAt(c) # {}
            <4>1. /\ c <= taken /\ StoredIn(c) = {} /\ CarriedBy(c) = {}
                  /\ SetAsideBy(c) = {} /\ FatesOf(c) = {}
                BY <3>2, Found, Zenon
            <4>. QED  BY <2>2, <2>3, <2>6, <3>2, <4>1, Zenon DEF Settled, OneOf, Alone
        <3>. QED  BY <3>1, <3>2, Zenon
    <2>. QED  BY <2>1, <2>7, Zenon DEF Located
<1>. QED  BY <1>1, <1>2, <1>3, <1>4, <1>5, <1>6, <1>7

\* The source of a closed listener is cancelled.
LEMMA CloseSourceKeeps ==
    ASSUME ListenerInv, CloseSource PROVE ListenerInv'
<1>. USE Names DEF ListenerInv
<1>1. ListenerTypes'
    BY Zenon DEF CloseSource, Goto, ListenerTypes, TypeOK, Labels, NoJob, listenerVars, cancelVars, fateVars, kernelVars
<1>2. Jobs'
    BY SMTT(30) DEF CloseSource, Goto, ListenerTypes, TypeOK, Jobs, NoJob, None, Nobody, Threads, listenerVars, cancelVars, fateVars, kernelVars
<1>3. OneCompletion'
    BY DEF CloseSource, Goto, ListenerTypes, TypeOK, Jobs, OneCompletion, Expected, Cancels, NewOp, NoJob, None, Nobody, Threads, listenerVars, cancelVars, fateVars, kernelVars
<1>4. Cancels'
    BY Zenon DEF CloseSource, Goto, ListenerTypes, TypeOK, Cancels, Jobs, OneCompletion, Expected, NewOp, None, Nobody, Threads, listenerVars, cancelVars, fateVars, kernelVars
<1>5. NoStrandedAccept'
    BY Zenon DEF CloseSource, Goto, NoStrandedAccept, ListenerTypes, TypeOK, listenerVars, cancelVars, fateVars, kernelVars
<1>6. WaitIsOwned'
    BY SMTT(30) DEF CloseSource, Goto, ListenerTypes, TypeOK, Jobs, OneCompletion, Cancels, WaitIsOwned, NewOp, NoJob, None, Threads, listenerVars, cancelVars, fateVars, kernelVars
<1>7. Located'
    BY StillLocated, Zenon DEF CloseSource, Goto, ListenerTypes, TypeOK, listenerVars, cancelVars, fateVars, kernelVars
<1>. QED  BY <1>1, <1>2, <1>3, <1>4, <1>5, <1>6, <1>7

\* The streams of the queue of a closed listener are closed.
LEMMA DrainKeeps ==
    ASSUME ListenerInv, Drain PROVE ListenerInv'
<1>. USE Names DEF ListenerInv
<1>1. ListenerTypes'
    BY Zenon DEF Drain, Goto, ListenerTypes, TypeOK, Labels, NoJob, listenerVars, cancelVars, fateVars, kernelVars
<1>2. Jobs'
    BY Zenon DEF Drain, Goto, ListenerTypes, TypeOK, Jobs, NoJob, None, Nobody, Threads, listenerVars, cancelVars, fateVars, kernelVars
<1>3. OneCompletion'
    BY SMTT(30) DEF Drain, Goto, ListenerTypes, TypeOK, Jobs, OneCompletion, Expected, Cancels, NewOp, NoJob, None, Nobody, Threads, listenerVars, cancelVars, fateVars, kernelVars
<1>4. Cancels'
    BY Zenon DEF Drain, Goto, ListenerTypes, TypeOK, Cancels, Jobs, OneCompletion, Expected, NewOp, None, Nobody, Threads, listenerVars, cancelVars, fateVars, kernelVars
<1>5. NoStrandedAccept'
    BY Zenon DEF Drain, Goto, NoStrandedAccept, ListenerTypes, TypeOK, listenerVars, cancelVars, fateVars, kernelVars
<1>6. WaitIsOwned'
    BY DEF Drain, Goto, ListenerTypes, TypeOK, Jobs, OneCompletion, Cancels, WaitIsOwned, NewOp, NoJob, None, Threads, listenerVars, cancelVars, fateVars, kernelVars
<1>7. Located'
    <2>1. /\ taken' = taken /\ closing' = {} /\ shut' = shut \cup closing
          /\ UNCHANGED <<queue, op, job, cancelled, given>>
        BY Zenon DEF Drain, listenerVars, kernelVars, cancelVars
    <2>2. \A c : /\ QueuedAt(c)' = QueuedAt(c) /\ StoredIn(c)' = StoredIn(c)
                 /\ CarriedBy(c)' = CarriedBy(c) /\ SetAsideBy(c)' = SetAsideBy(c)
        BY <2>1 DEF QueuedAt, StoredIn, CarriedBy, SetAsideBy
    <2>3. \A c : c \notin closing => FatesOf(c)' = FatesOf(c)
        BY <2>1 DEF FatesOf
    <2>4. \A c : c \in closing /\ FatesOf(c) = {"closing"} => FatesOf(c)' = {"shut"}
        BY <2>1 DEF FatesOf
    <2>5. ASSUME NEW c \in Conns PROVE IF c <= taken THEN Settled(c)' ELSE Nowhere(c)'
        <3>1. CASE c \notin closing
            BY <2>2, <2>3, <3>1, SamePlace, Zenon DEF Located
        <3>2. CASE c \in closing
            <4>1. "closing" \in FatesOf(c)
                BY <3>2, Zenon DEF FatesOf
            <4>2. /\ c <= taken /\ FatesOf(c) = {"closing"} /\ QueuedAt(c) = {} /\ StoredIn(c) = {}
                  /\ CarriedBy(c) = {} /\ SetAsideBy(c) = {}
                BY <4>1, Found, Zenon
            <4>. QED  BY <2>2, <2>4, <3>2, <4>2, Zenon DEF Settled, OneOf, Alone
        <3>. QED  BY <3>1, <3>2, Zenon
    <2>. QED  BY <2>1, <2>5 DEF Located
<1>. QED  BY <1>1, <1>2, <1>3, <1>4, <1>5, <1>6, <1>7
-----------------------------------------------------------------------------
(* Results.                                                                *)

\* The invariant holds initially.
LEMMA InitInv == Init => ListenerInv
<1>. SUFFICES ASSUME Init PROVE ListenerInv
    OBVIOUS
<1>. USE Names DEF Init, NoJob, NewOp
<1>1. ListenerTypes
    <2>1. 0 \in 0..MaxConns /\ 0 \in 0..0 /\ 0 \in Nat
        BY ListenerAssumption, SMTT(30)
    <2>2. op \in [Ops -> [complete : BOOLEAN, canceled : BOOLEAN, finished : BOOLEAN,
                          stream : Conns \cup {Nobody}]]
        BY Zenon
    <2>3. job \in [Threads -> [op : Ops \cup {None}, conn : Conns \cup {Nobody}]]
        BY Zenon
    <2>4. pc \in [Threads -> Labels]
        BY Zenon DEF Labels
    <2>5. TypeOK
        BY <2>1, <2>2, <2>3, SMTT(30) DEF TypeOK
    <2>. QED  BY <2>1, <2>4, <2>5, Zenon DEF ListenerTypes
<1>2. Jobs
    BY Zenon DEF Jobs
<1>3. OneCompletion
    BY Zenon DEF OneCompletion
<1>4. Cancels
    BY Zenon DEF Cancels
<1>5. ASSUME NEW c \in Conns PROVE Nowhere(c) /\ ~(c <= taken)
    <2>1. c # Nobody /\ ~(c <= 0)
        BY SMTT(30) DEF Conns, Nobody
    <2>2. QueuedAt(c) = {} /\ FatesOf(c) = {}
        BY SMTT(30) DEF QueuedAt, FatesOf
    <2>3. StoredIn(c) = {} /\ CarriedBy(c) = {} /\ SetAsideBy(c) = {}
        BY <2>1, Zenon DEF StoredIn, CarriedBy, SetAsideBy
    <2>. QED  BY <2>1, <2>2, <2>3, Zenon DEF Nowhere
<1>6. Located
    BY <1>5, Zenon DEF Located
<1>7. NoStrandedAccept /\ WaitIsOwned
    BY Zenon DEF NoStrandedAccept, WaitIsOwned
<1>. QED  BY <1>1, <1>2, <1>3, <1>4, <1>6, <1>7 DEF ListenerInv

\* Every step keeps the invariant.
LEMMA StepInv == ListenerInv /\ [Next]_vars => ListenerInv'
<1>. SUFFICES ASSUME ListenerInv, [Next]_vars PROVE ListenerInv'
    OBVIOUS
<1>1. CASE UNCHANGED vars
    <2>1. ListenerTypes' /\ Jobs' /\ OneCompletion' /\ Cancels'
        BY <1>1 DEF vars, ListenerInv, ListenerTypes, TypeOK, Jobs, OneCompletion, Expected, Cancels
    <2>2. NoStrandedAccept' /\ WaitIsOwned'
        BY <1>1, Zenon DEF vars, ListenerInv, NoStrandedAccept, WaitIsOwned
    <2>3. Located'
        BY <1>1, StillLocated DEF vars, ListenerInv
    <2>. QED  BY <2>1, <2>2, <2>3, Zenon DEF ListenerInv
<1>2. CASE Arrive \/ Callback
    BY <1>2, ArriveKeeps, FireKeeps, CbAcceptKeeps, DeliverKeeps, DeliverErrorKeeps DEF Callback
<1>3. ASSUME NEW t \in Threads, Clear(t) \/ Store(t) PROVE ListenerInv'
    BY <1>3, ClearKeeps, StoreKeeps
<1>4. ASSUME NEW o \in Ops, Run(o) PROVE ListenerInv'
    BY <1>4, AcceptKeeps, FinishKeeps DEF Run
<1>5. ASSUME NEW o \in Cancellers, Cancel(o) \/ CancelClear(o) PROVE ListenerInv'
    <2>1. o \in Ops
        BY ListenerAssumption
    <2>. QED  BY <1>5, <2>1, CancelKeeps, CancelClearKeeps
<1>6. CASE Close \/ CloseRest
    BY <1>6, CloseKeeps, CloseSourceKeeps, DrainKeeps DEF CloseRest
<1>. QED  BY <1>1, <1>2, <1>3, <1>4, <1>5, <1>6 DEF Next

\* A connection that the source callback accepted is in exactly one place, whatever
\* the callback, the accepts, their cancels and the close of the listener interleave:
\* it is not lost and not handed out twice.  A task whose accept is pending is in the
\* slot of a listener with an empty queue, or a thread is about to complete it.
THEOREM ConnectionTheorem == Spec => []ConnectionKept
<1>1. Spec => []ListenerInv
    BY InitInv, StepInv, PTL DEF Spec
<1>. QED  BY <1>1, InvKept, PTL
=============================================================================
