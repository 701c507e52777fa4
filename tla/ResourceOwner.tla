---------------------------- MODULE ResourceOwner ----------------------------
(***************************************************************************)
(* The resource owners of runtime/src/resource.c: a tree of owners with    *)
(* quotas, the entries registered with them, and the threads that create   *)
(* scopes and tasks, register, move and close resources, and close owners  *)
(* while others use them.  A call that fails changes nothing, so only the  *)
(* calls that succeed are steps.  Handles may be copied: every thread may  *)
(* use every handle that was ever issued.                                  *)
(***************************************************************************)
EXTENDS Integers, Sequences, FiniteSets, Functions, SequencesExt

CONSTANTS Threads, Resources,
          Main,                     \* the thread that exits the process
          Descriptors,              \* the resources that are descriptors
          MaxOwners,                \* owner ids that are handed out
          MaxId,                    \* the last resource id (UINT64_MAX)
          MaxDepth,                 \* the owner stack of a thread (128)
          DefaultLimits, ScopeLimits,
          Programs                  \* what the threads do, see ProgramType

Limits == [resources : Nat, descriptors : Nat, children : Nat]

\* A program: the threads that open scopes, the ones with scopes that await, the ones
\* that spawn, poll and end tasks, what each thread opens, and a bound on its owners.
ProgramType == [scoping : SUBSET Threads, awaiting : SUBSET Threads,
                working : SUBSET Threads, opens : [Threads -> SUBSET Resources],
                owners : 1..MaxOwners]

ASSUME ResourceAssumption ==
    /\ Descriptors \subseteq Resources /\ Main \in Threads
    /\ {MaxOwners, MaxId, MaxDepth} \subseteq Nat /\ MaxOwners > 0
    /\ DefaultLimits \in Limits /\ ScopeLimits \in Limits
    /\ Programs \subseteq ProgramType

VARIABLES
    program,                        \* one of Programs
    owners,                         \* number of owners that exist
    closed, parent, children, limits, entries,
    liveResources, liveDescriptors, liveChildren,       \* struct CielResourceOwner
    current, stack,                 \* the owner of each thread and the ones below
    tasks, scopes,                  \* owners of tasks and of asynchronous scopes
    call,                           \* a call between two locked sections
    work,                           \* what a thread that closes has still to do
    closes                          \* how often the host resource was closed

treeVars == <<program, owners, parent, children, limits, liveChildren, closed>>
entryVars == <<entries, liveResources, liveDescriptors>>
threadVars == <<current, stack, tasks, scopes>>
vars == <<treeVars, entryVars, threadVars, call, work, closes>>

Root == 1
None == 0
Owners == 1..MaxOwners
Handles == {<<o, i>> \in Owners \X (1..MaxId) : i <= Len(entries[o])}
Entry(h) == entries[h[1]][h[2]]
Registered == {Entry(h).res : h \in Handles}
NoCall == <<"none">>

Init ==
    /\ program \in Programs
    /\ owners = 1
    /\ closed = [o \in Owners |-> FALSE] /\ parent = [o \in Owners |-> None]
    /\ children = [o \in Owners |-> <<>>] /\ limits = [o \in Owners |-> DefaultLimits]
    /\ entries = [o \in Owners |-> <<>>]
    /\ liveResources = [o \in Owners |-> 0] /\ liveDescriptors = [o \in Owners |-> 0]
    /\ liveChildren = [o \in Owners |-> 0]
    /\ current = [t \in Threads |-> Root] /\ stack = [t \in Threads |-> <<>>]
    /\ tasks = {} /\ scopes = {}
    /\ call = [t \in Threads |-> NoCall] /\ work = [t \in Threads |-> <<>>]
    /\ closes = [r \in Resources |-> 0]

Free(t) == call[t] = NoCall /\ work[t] = <<>>
-----------------------------------------------------------------------------
(* The tree.                                                               *)

\* ciel_resource_find_owner_locked searches from the root through the child lists.
Found(o) ==
    LET Below[n \in 0..MaxOwners] ==
            IF n = 0 THEN {Root}
            ELSE Below[n - 1] \cup UNION {Range(children[p]) : p \in Below[n - 1]}
    IN  o \in Below[MaxOwners]

\* ciel_resource_owner_is_ancestor_locked follows the parent pointers.
IsAncestor(a, o) ==
    LET Above[n \in 0..MaxOwners] ==
            IF n = 0 THEN {o} ELSE Above[n - 1] \cup {parent[p] : p \in Above[n - 1] \ {None}}
    IN  a \in Above[MaxOwners]

ChildRoom(p) == limits[p].children = 0 \/ liveChildren[p] < limits[p].children

\* ciel_resource_owner_alloc_locked.
NewChild(p, l) ==
    LET o == owners + 1 IN
    /\ o <= program.owners /\ ~closed[p] /\ ChildRoom(p)
    /\ owners' = o
    /\ limits' = [limits EXCEPT ![o] = l]
    /\ parent' = [parent EXCEPT ![o] = p]
    /\ children' = [children EXCEPT ![p] = <<o>> \o @]
    /\ liveChildren' = [liveChildren EXCEPT ![p] = @ + 1]
    /\ UNCHANGED <<program, closed>>

Push(t, kind, o) ==
    /\ stack' = [stack EXCEPT ![t] = <<<<kind, current[t]>>>> \o @]
    /\ current' = [current EXCEPT ![t] = o]

Pop(t, kind) ==
    /\ stack[t] # <<>> /\ Head(stack[t])[1] = kind
    /\ stack' = [stack EXCEPT ![t] = Tail(@)]

\* ciel_resource_scope_push_limits.
ScopePush(t) ==
    /\ t \in program.scoping /\ Free(t) /\ Len(stack[t]) < MaxDepth
    /\ NewChild(current[t], ScopeLimits)
    /\ Push(t, "scope", owners + 1)
    /\ UNCHANGED <<entryVars, tasks, scopes, call, work, closes>>

\* ciel_resource_scope_close_current.
ScopeClose(t) ==
    /\ Free(t) /\ Pop(t, "scope")
    /\ current' = [current EXCEPT ![t] = Head(stack[t])[2]]
    /\ work' = [work EXCEPT ![t] = <<<<"owner", current[t]>>>>]
    /\ UNCHANGED <<treeVars, entryVars, tasks, scopes, call, closes>>

\* ciel_task_spawn and ciel_actor_spawn: a child of the current owner ...
Spawn(t) ==
    /\ t \in program.working /\ Free(t)
    /\ NewChild(current[t], DefaultLimits)
    /\ call' = [call EXCEPT ![t] = <<"detach", owners + 1>>]
    /\ UNCHANGED <<entryVars, threadVars, work, closes>>

\* Mutant: the root may be closed when a task is moved below it.
DetachUnchecked(t) ==
    /\ call[t][1] = "detach"
    /\ LET o == call[t][2]
           p == parent[o]
           ok == ~closed[o]
       IN  \/ /\ ok /\ p \in {None, Root}
              /\ tasks' = tasks \cup {o}
              /\ UNCHANGED <<treeVars, work>>
           \/ /\ ok /\ p \notin {None, Root} /\ ChildRoom(Root) /\ o \in Range(children[p])
              /\ parent' = [parent EXCEPT ![o] = Root]
              /\ children' = [children EXCEPT ![p] = Remove(@, o), ![Root] = <<o>> \o @]
              /\ liveChildren' = [liveChildren EXCEPT ![p] = @ - 1, ![Root] = @ + 1]
              /\ tasks' = tasks \cup {o}
              /\ UNCHANGED <<program, owners, limits, closed, work>>
           \/ /\ \/ ~ok
                 \/ p \notin {None, Root} /\ ~(ChildRoom(Root) /\ o \in Range(children[p]))
              /\ work' = [work EXCEPT ![t] = <<<<"owner", o>>>>]
              /\ UNCHANGED <<treeVars, tasks>>
    /\ call' = [call EXCEPT ![t] = NoCall]
    /\ UNCHANGED <<entryVars, current, stack, scopes, closes>>

\* ... that ciel_resource_owner_detach moves below the root, or that is closed.
Detach(t) ==
    /\ call[t][1] = "detach"
    /\ LET o == call[t][2]
           p == parent[o]
           ok == ~closed[o] /\ ~closed[Root]
       IN  \/ /\ ok /\ p \in {None, Root}
              /\ tasks' = tasks \cup {o}
              /\ UNCHANGED <<treeVars, work>>
           \/ /\ ok /\ p \notin {None, Root} /\ ChildRoom(Root) /\ o \in Range(children[p])
              /\ parent' = [parent EXCEPT ![o] = Root]
              /\ children' = [children EXCEPT ![p] = Remove(@, o), ![Root] = <<o>> \o @]
              /\ liveChildren' = [liveChildren EXCEPT ![p] = @ - 1, ![Root] = @ + 1]
              /\ tasks' = tasks \cup {o}
              /\ UNCHANGED <<program, owners, limits, closed, work>>
           \/ /\ \/ ~ok
                 \/ p \notin {None, Root} /\ ~(ChildRoom(Root) /\ o \in Range(children[p]))
              /\ work' = [work EXCEPT ![t] = <<<<"owner", o>>>>]
              /\ UNCHANGED <<treeVars, tasks>>
    /\ call' = [call EXCEPT ![t] = NoCall]
    /\ UNCHANGED <<entryVars, current, stack, scopes, closes>>

Busy(o) == \E t \in Threads : current[t] = o \/ \E f \in Range(stack[t]) : f[2] = o

\* A poll of the task, or a job of the actor, makes its owner the current one.
PollBegin(t, o) ==
    /\ t \in program.working /\ Free(t) /\ o \in tasks /\ ~Busy(o) /\ Len(stack[t]) < MaxDepth
    /\ Push(t, "poll", o)
    /\ UNCHANGED <<treeVars, entryVars, tasks, scopes, call, work, closes>>

PollEnd(t) ==
    /\ Free(t) /\ Pop(t, "poll")
    /\ current' = [current EXCEPT ![t] = Head(stack[t])[2]]
    /\ UNCHANGED <<treeVars, entryVars, tasks, scopes, call, work, closes>>

\* ciel_task_finish or ciel_actor_join, when no poll runs.
TaskClose(t, o) ==
    /\ t \in program.working /\ Free(t) /\ o \in tasks /\ ~Busy(o)
    /\ tasks' = tasks \ {o}
    /\ work' = [work EXCEPT ![t] = <<<<"owner", o>>>>]
    /\ UNCHANGED <<treeVars, entryVars, current, stack, scopes, call, closes>>
-----------------------------------------------------------------------------
(* scoped_async of std/resource: the scope is entered to build the future  *)
(* and again to move its result out, and left in between.                  *)

EnterChild(t) ==
    /\ t \in program.awaiting /\ Free(t) /\ Len(stack[t]) < MaxDepth
    /\ NewChild(current[t], ScopeLimits)
    /\ Push(t, "async", owners + 1)
    /\ scopes' = scopes \cup {owners + 1}
    /\ UNCHANGED <<entryVars, tasks, call, work, closes>>

\* ciel_resource_restore_owner: an owner that is not found leaves the scope current.
Restore(t) ==
    /\ Free(t) /\ Pop(t, "async")
    /\ LET o == Head(stack[t])[2] IN
       current' = [current EXCEPT ![t] = IF Found(o) /\ ~closed[o] THEN o ELSE @]
    /\ UNCHANGED <<treeVars, entryVars, tasks, scopes, call, work, closes>>

Reenter(t, o) ==
    /\ Free(t) /\ o \in scopes /\ parent[o] = current[t] /\ Found(o) /\ ~closed[o]
    /\ Len(stack[t]) < MaxDepth
    /\ Push(t, "async", o)
    /\ UNCHANGED <<treeVars, entryVars, tasks, scopes, call, work, closes>>

\* ciel_resource_owner_close_id, when the scope is left.
ScopeCloseId(t, o) ==
    /\ Free(t) /\ o \in scopes
    /\ \A u \in Threads : \A f \in Range(stack[u]) : f[1] = "async" => current[u] # o
    /\ scopes' = scopes \ {o}
    /\ work' = [work EXCEPT ![t] = IF Found(o) THEN <<<<"owner", o>>>> ELSE <<>>]
    /\ UNCHANGED <<treeVars, entryVars, current, stack, tasks, call, closes>>
-----------------------------------------------------------------------------
(* Entries.                                                                *)

One(r) == IF r \in Descriptors THEN 1 ELSE 0

\* Mutant: the owner is full when it is over its limit.
HasCapacityLate(o, r) ==
    /\ ~closed[o]
    /\ Len(entries[o]) < MaxId
    /\ limits[o].resources # 0 => liveResources[o] <= limits[o].resources
    /\ r \in Descriptors /\ limits[o].descriptors # 0 =>
           liveDescriptors[o] <= limits[o].descriptors

\* ciel_resource_owner_has_capacity_locked.
HasCapacity(o, r) ==
    /\ ~closed[o]
    /\ Len(entries[o]) < MaxId
    /\ limits[o].resources # 0 => liveResources[o] < limits[o].resources
    /\ r \in Descriptors /\ limits[o].descriptors # 0 =>
           liveDescriptors[o] < limits[o].descriptors

Open(r) == [res |-> r, state |-> "open"]

\* ciel_resource_register_entry_locked, for the current owner.
Register(t, r) ==
    LET o == current[t] IN
    /\ r \in program.opens[t] /\ Free(t) /\ r \notin Registered /\ HasCapacity(o, r)
    /\ entries' = [entries EXCEPT ![o] = Append(@, Open(r))]
    /\ liveResources' = [liveResources EXCEPT ![o] = @ + 1]
    /\ liveDescriptors' = [liveDescriptors EXCEPT ![o] = @ + One(r)]
    /\ UNCHANGED <<treeVars, threadVars, call, work, closes>>

\* ciel_resource_close: find the owner, under the global mutex ...
CloseFind(t, h) ==
    /\ Free(t) /\ h \in Handles /\ Entry(h).state = "open"
    /\ h[1] = current[t] \/ Found(h[1])
    /\ call' = [call EXCEPT ![t] = <<"close", h>>]
    /\ UNCHANGED <<treeVars, entryVars, threadVars, work, closes>>

\* Mutant: the state is changed by whoever runs the close action, too late.
CloseLockedLate(t) ==
    LET h == call[t][2]
        o == h[1]
    IN
    /\ call[t][1] = "close"
    /\ \/ /\ closed[o] \/ Entry(h).state # "open"
          /\ UNCHANGED work
       \/ /\ ~closed[o] /\ Entry(h).state = "open"
          /\ work' = [work EXCEPT ![t] = <<<<"resource", Entry(h).res>>>>]
    /\ call' = [call EXCEPT ![t] = NoCall]
    /\ UNCHANGED <<treeVars, entryVars, threadVars, closes>>

\* ... then the entry, under the mutex of the owner.  The action runs unlocked.
CloseLocked(t) ==
    LET h == call[t][2]
        o == h[1]
    IN
    /\ call[t][1] = "close"
    /\ \/ /\ closed[o] \/ Entry(h).state # "open"
          /\ UNCHANGED <<entryVars, work>>
       \/ /\ ~closed[o] /\ Entry(h).state = "open"
          /\ entries' = [entries EXCEPT ![o][h[2]].state = "closed"]
          /\ liveResources' = [liveResources EXCEPT ![o] = @ - 1]
          /\ liveDescriptors' = [liveDescriptors EXCEPT ![o] = @ - One(Entry(h).res)]
          /\ work' = [work EXCEPT ![t] = <<<<"resource", Entry(h).res>>>>]
    /\ call' = [call EXCEPT ![t] = NoCall]
    /\ UNCHANGED <<treeVars, threadVars, closes>>

\* ciel_resource_transfer_to_owner_with_owners_locked, between two owners.
Move(h, d) ==
    LET o == h[1]
        r == Entry(h).res
    IN
    /\ ~closed[o] /\ Entry(h).state = "open" /\ HasCapacity(d, r)
    /\ entries' = [entries EXCEPT ![o][h[2]].state = "moved", ![d] = Append(@, Open(r))]
    /\ liveResources' = [liveResources EXCEPT ![o] = @ - 1, ![d] = @ + 1]
    /\ liveDescriptors' = [liveDescriptors EXCEPT ![o] = @ - One(r), ![d] = @ + One(r)]

\* ciel_resource_transfer_to_parent; reattach_to_parent does the same to a handle
\* of the current owner and returns the others as they are.
TransferToParent(t, h) ==
    /\ Free(t) /\ h \in Handles /\ Entry(h).state = "open" /\ Found(h[1]) /\ parent[h[1]] # None
    /\ Move(h, parent[h[1]])
    /\ UNCHANGED <<treeVars, threadVars, call, work, closes>>

\* ciel_resource_transfer_to_current.
TransferToCurrent(t, h) ==
    /\ Free(t) /\ h \in Handles /\ Entry(h).state = "open" /\ Found(h[1]) /\ h[1] # current[t]
    /\ IsAncestor(h[1], current[t])
    /\ Move(h, current[t])
    /\ UNCHANGED <<treeVars, threadVars, call, work, closes>>
-----------------------------------------------------------------------------
(* ciel_resource_owner_close.  The recursion is a list of what is left: the *)
(* actions of an owner come before its children.                           *)

Opened(o) == SelectSeq(Reverse(entries[o]), LAMBDA e : e.state = "open")

\* ciel_resource_collect_owner_close_locked, under the global mutex and the owner's.
Collect(t, o, rest) ==
    LET p == parent[o]
        actions == [i \in 1..Len(Opened(o)) |-> <<"resource", Opened(o)[i].res>>]
        linked == p # None /\ o \in Range(children[p])
        below == SelectSeq(children[o], LAMBDA c : ~closed[c])
    IN
    /\ ~closed[o]
    /\ closed' = [closed EXCEPT ![o] = TRUE]
    /\ IF linked
       THEN /\ children' = [children EXCEPT ![p] = Remove(@, o)]
            /\ liveChildren' = [liveChildren EXCEPT ![p] = @ - 1]
            /\ parent' = [parent EXCEPT ![o] = None]
       ELSE UNCHANGED <<children, liveChildren, parent>>
    /\ entries' = [entries EXCEPT ![o] = [i \in DOMAIN @ |->
                      IF @[i].state = "open" THEN [@[i] EXCEPT !.state = "closed"] ELSE @[i]]]
    /\ liveResources' = [liveResources EXCEPT ![o] = 0]
    /\ liveDescriptors' = [liveDescriptors EXCEPT ![o] = 0]
    /\ work' = [work EXCEPT ![t] = actions \o [i \in DOMAIN below |-> <<"owner", below[i]>>]
                                   \o rest]
    /\ UNCHANGED <<program, owners, limits>>

CloseOwner(t) ==
    /\ work[t] # <<>> /\ Head(work[t])[1] = "owner"
    /\ LET o == Head(work[t])[2] IN
       \/ Collect(t, o, Tail(work[t]))
       \/ /\ closed[o]
          /\ work' = [work EXCEPT ![t] = Tail(@)]
          /\ UNCHANGED <<treeVars, entryVars>>
    /\ UNCHANGED <<threadVars, call, closes>>

\* ciel_resource_apply_close_action, outside the locks.
ApplyClose(t) ==
    /\ work[t] # <<>> /\ Head(work[t])[1] = "resource"
    /\ closes' = [closes EXCEPT ![Head(work[t])[2]] = @ + 1]
    /\ work' = [work EXCEPT ![t] = Tail(@)]
    /\ UNCHANGED <<treeVars, entryVars, threadVars, call>>

\* ciel_resource_close_root_at_shutdown, wherever the main thread exits.
Shutdown ==
    /\ Free(Main) /\ ~closed[Root]
    /\ call' = [call EXCEPT ![Main] = <<"exit">>]
    /\ work' = [work EXCEPT ![Main] = <<<<"owner", Root>>>>]
    /\ UNCHANGED <<treeVars, entryVars, threadVars, closes>>
-----------------------------------------------------------------------------
Continue(t) == CloseLocked(t) \/ Detach(t) \/ CloseOwner(t) \/ ApplyClose(t)

Next ==
    \/ Shutdown
    \/ \E t \in Threads :
        \/ ScopePush(t) \/ ScopeClose(t) \/ EnterChild(t) \/ Restore(t)
        \/ Spawn(t) \/ PollEnd(t)
        \/ \E o \in Owners : \/ PollBegin(t, o) \/ TaskClose(t, o)
                             \/ Reenter(t, o) \/ ScopeCloseId(t, o)
        \/ \E r \in Resources : Register(t, r)
        \/ \E h \in Handles : \/ CloseFind(t, h) \/ TransferToParent(t, h)
                              \/ TransferToCurrent(t, h)
        \/ Continue(t)

\* The handler that main runs at exit, like every call of main, goes on to its end.
\* Nothing is assumed of the others: the process may end without another step of theirs.
Fairness == WF_vars(Continue(Main))

Spec == Init /\ [][Next]_vars /\ Fairness
-----------------------------------------------------------------------------
(* Properties.                                                             *)

\* The variables have their types.
TypeOK ==
    /\ program \in Programs /\ owners \in 1..program.owners
    /\ closed \in [Owners -> BOOLEAN] /\ parent \in [Owners -> Owners \cup {None}]
    /\ children \in [Owners -> Seq(Owners)] /\ limits \in [Owners -> Limits]
    /\ entries \in [Owners -> Seq([res : Resources, state : {"open", "closed", "moved"}])]
    /\ {liveResources, liveDescriptors, liveChildren} \subseteq [Owners -> Nat]
    /\ current \in [Threads -> 1..owners]
    /\ stack \in [Threads -> Seq({"scope", "poll", "async"} \X (1..owners))]
    /\ tasks \subseteq 2..owners /\ scopes \subseteq 2..owners
    /\ work \in [Threads -> Seq(({"resource"} \X Resources) \cup ({"owner"} \X (1..owners)))]
    /\ closes \in [Resources -> Nat]

OpenIn(o) == {i \in 1..Len(entries[o]) : entries[o][i].state = "open"}

\* The counters an owner checks its limits with are exact after any mixture of
\* registrations, moves, closes and detached children, and stay within the limits.
CountersExact ==
    \A o \in Owners :
        /\ liveResources[o] = Cardinality(OpenIn(o))
        /\ liveDescriptors[o] =
               Cardinality({i \in OpenIn(o) : entries[o][i].res \in Descriptors})
        /\ liveChildren[o] = Len(children[o])
        /\ limits[o].resources # 0 => liveResources[o] <= limits[o].resources
        /\ limits[o].descriptors # 0 => liveDescriptors[o] <= limits[o].descriptors
        /\ limits[o].children # 0 => liveChildren[o] <= limits[o].children

\* Every registered resource is in exactly one place: open in one owner, on the
\* list of one thread that is going to close it, or closed once on the host.
\* Checked together with the type invariant.
Conserved ==
    /\ TypeOK
    /\ \A r \in Registered :
        Cardinality({h \in Handles : Entry(h) = Open(r)})
        + Cardinality({<<t, i>> \in Threads \X (1..Cardinality(Resources) + MaxOwners) :
                           i <= Len(work[t]) /\ work[t][i] = <<"resource", r>>})
        + closes[r] = 1

\* An owner that is not closed cannot be forgotten: it is once in the child list
\* of its parent, and either the parent is open, so that closing it collects the
\* child, or it was closed by a thread that still has the child on its list.
Covered ==
    \A o \in 2..owners : ~closed[o] =>
        LET p == parent[o] IN
        /\ p # None /\ Cardinality({i \in 1..Len(children[p]) : children[p][i] = o}) = 1
        /\ ~closed[p] \/ \E t \in Threads : <<"owner", o>> \in Range(work[t])

\* r is on the list of a thread other than Main: by itself, or below an owner that
\* the thread has begun to close.
HeldElsewhere(r) ==
    \E t \in Threads \ {Main} : \E w \in Range(work[t]) :
        \/ w = <<"resource", r>>
        \/ /\ w[1] = "owner"
           /\ \E h \in Handles : Entry(h) = Open(r) /\ IsAncestor(w[2], h[1])

\* The handler at exit returns, and from then on every resource that was ever
\* registered, before or during the exit, is closed or in the hands of a thread that
\* had begun to close it: no spawn, move or registration slips past the closing root.
ShutdownReleases ==
    (call[Main] = <<"exit">>) ~>
        [](work[Main] = <<>> /\ \A r \in Registered : closes[r] = 1 \/ HeldElsewhere(r))

\* A resource is held once until it is closed once, by an owner that will close it.
ResourceKept == Conserved /\ Covered
=============================================================================
