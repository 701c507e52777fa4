--------------------------- MODULE MCResourceOwner ---------------------------
(***************************************************************************)
(* Small instances of ResourceOwner.                                       *)
(***************************************************************************)
EXTENDS ResourceOwner, TLC
CONSTANTS t1, t2, r1, r2

Wide == [resources |-> 2, descriptors |-> 1, children |-> 2]
Narrow == [resources |-> 1, descriptors |-> 0, children |-> 1]

\* Two threads that may do everything, with one resource.
Anything == [scoping |-> Threads, awaiting |-> {t2}, working |-> Threads,
             opens |-> [t \in Threads |-> {r1}], owners |-> 3]
\* Nested scopes of two threads with a descriptor each: scopes, and the root, are full.
Nested == [scoping |-> Threads, awaiting |-> {}, working |-> {},
           opens |-> t1 :> {r1} @@ t2 :> {r2}, owners |-> 3]
\* A thread that spawns from a scope and polls, while the other one uses its handles.
Working == [scoping |-> {t2}, awaiting |-> {}, working |-> {t2},
            opens |-> t1 :> {r1} @@ t2 :> {r2}, owners |-> 3]
\* The same without resources, and with more owners: the root has no room for a task.
Crowded == [scoping |-> {t2}, awaiting |-> {}, working |-> {t2},
            opens |-> [t \in Threads |-> {}], owners |-> 4]
Workloads == {Anything, Nested, Working, Crowded}
=============================================================================
