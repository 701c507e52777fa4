-------------------------------- MODULE Mono --------------------------------
(***************************************************************************)
(* Monomorphization (mono.rs): from the roots, every function that is      *)
(* reached, an instance for every generic function and its arguments, the  *)
(* impls that vtables and retained closures need; then the aggregates they *)
(* use, and the order of their C layouts (codegen/plan.rs).                *)
(*                                                                         *)
(* Functions are identified as the targets of calls are: <<"function",     *)
(* f>>, <<"generic", f, args>>, <<"impl", term>>.  j is [k, m]: the table  *)
(* of the type checker and the state of the worklist.  A frame is          *)
(* <<f, args>>.                                                            *)
(***************************************************************************)
EXTENDS Collect

CONSTANTS
    MaxWork,      \* functions processed, then the bench gives up (stuck)
    MaxNesting    \* complexity of a type collected, likewise

NoMono ==
    [work |-> <<>>, queued |-> {}, done |-> <<>>, chains |-> <<>>, diags |-> 0, stuck |-> FALSE]

ByDef(k, def) == SelectSeq(k.checked, LAMBDA f : f.owner = def)

\* A function without a checked body is not known to the worklist.
MarkFunction(j, def) ==
    IF def \in j.m.queued \/ ByDef(j.k, def) = <<>> THEN j
    ELSE [j EXCEPT !.m.work = Append(@, def), !.m.queued = @ \cup {def}]

(***************************************************************************)
(* Instances of generic functions.                                         *)
(***************************************************************************)
Complexity(args) == FoldSeq(LAMBDA t, n : n + TypeComplexity(t), 0, args)

IsStrictGrowth(previous, next) ==
    /\ Complexity(next) > Complexity(previous)
    /\ \E old \in ToSet(previous), new \in ToSet(next) : TyContains(new, old)

\* At the third instance of a template on a chain whose arguments still grow.
InfiniteGrowth(stack, f, args) ==
    LET same == SelectSeq(stack, LAMBDA frame : frame[1] = f)
    IN  Len(same) >= 2 /\ IsStrictGrowth(Last(same)[2], args)

ChainOf(m, def) == IF def \in DOMAIN m.chains THEN m.chains[def] ELSE <<>>

\* Each instance is checked by a new checker on the impls found so far: its
\* own body first, then those of the impls it brought in.
RECURSIVE DrainBodies(_, _)
DrainBodies(k, n) == IF k.bodies = <<>> \/ n = 0 THEN k ELSE DrainBodies(DrainOneBody(k), n - 1)

Queued(k, owner, calls) == [k EXCEPT !.bodies = Append(@, [owner |-> owner, calls |-> calls])]

CheckInstance(k, def) ==
    LET f == Functions[def[2]]
        s == ArgsFor(Each(LAMBDA g : g.name, f.generics), def[3])
    IN  DrainBodies(Queued(CheckGenericConstraints(Bump(k), TopLevel, f.generics, s),
                           def, SubstBody(f.body, s)), MaxWork)

Failed(j) == [j EXCEPT !.m.diags = @ + 1]

\* The instance is known only when it and the impls it needs check; the
\* chain belongs to the instance, not to the functions of those impls.
AddInstance(j, k, def, stack) ==
    CASE k.bodies # <<>> -> [j EXCEPT !.m.stuck = TRUE]
      [] k.bodies = <<>> /\ k.diags > j.k.diags -> Failed(j)
      [] OTHER -> MarkFunction([k |-> k, m |-> [j.m EXCEPT
                    !.chains = (def :> Append(stack, <<def[2], def[3]>>)) @@ @]], def)

InstantiateGeneric(j, def, stack) ==
    CASE def \in DOMAIN j.m.chains -> j
      [] def \notin DOMAIN j.m.chains /\ InfiniteGrowth(stack, def[2], def[3]) -> Failed(j)
      [] OTHER -> AddInstance(j, CheckInstance(j.k, def), def, stack)

(***************************************************************************)
(* What an expression marks.                                               *)
(***************************************************************************)
Implementing(k, term) ==
    SelectSeq(k.impls, LAMBDA i :
        /\ i.iface = term.iface /\ Len(i.args) = Len(term.args)
        /\ \A n \in DOMAIN i.args : SameIgnoringOpaqueState(i.args[n], term.args[n]))

MarkImpl(j, term) ==
    LET found == Implementing(j.k, term)
    IN  IF found = <<>> THEN j ELSE MarkFunction(j, <<"impl", found[1]>>)

\* A slip: an alias is taken for an interface of its own.
MarkDynamicImplsDirect(j, dyn, concrete) ==
    IF Kind(concrete) = "dyn" THEN j
    ELSE MarkImpl(j, Term(Con(dyn), Args(dyn), ReceiverFromValue(concrete)))

MarkDynamicImpls(j, dyn, concrete) ==
    IF Kind(concrete) = "dyn" THEN j
    ELSE InTurn(MarkImpl, j, Goals(ReceiverFromValue(concrete),
                                     View(dyn)[1]))

MissingCapabilities(target, source) ==
    SelectSeq(Bounds(target)[1], LAMBDA ref : ~RetainedClosureProves(source, ref[1], ref[2]))

MarkRetained(j, target, source) ==
    InTurn(MarkImpl, j, Goals(source, MissingCapabilities(target, source)))

RewriteTarget(j, target, stack) ==
    CASE target[1] \in {"function", "impl"} -> MarkFunction(j, target)
      [] target[1] = "generic" -> InstantiateGeneric(j, target, stack)
      [] target[1] = "dynamic" -> MarkDynamicImpls(j, target[2], target[3])
      [] target[1] = "retain" -> MarkRetained(j, target[2], target[3])

\* The first failure ends the rewriting of a body.
ProcessFunction(j) ==
    LET def == Head(j.m.work)
        body == ByDef(j.k, def)[1]
        start == [j EXCEPT !.m.work = Tail(@), !.m.done = Append(@, def)]
    IN  InTurn(LAMBDA i, target :
            IF i.m.diags > j.m.diags THEN i ELSE RewriteTarget(i, target, ChainOf(j.m, def)),
            start, body.targets)

(***************************************************************************)
(* Aggregates.  a is [done, open, dyns, stack, retained, diags, stuck]:    *)
(* instances in the order they are completed, those being expanded, the    *)
(* dynamic interfaces expanded so far and those on the way, the retained   *)
(* capabilities seen.  Instances are known by their mangled name.          *)
(***************************************************************************)
NoAggregates ==
    [done |-> <<>>, open |-> {}, dyns |-> {}, stack |-> <<>>, retained |-> {}, diags |-> 0,
     stuck |-> FALSE]

InstanceName(t) == AggregateInstanceName(Con(t), Args(t))

Names(instances) == {InstanceName(t) : t \in ToSet(instances)}

\* Erased payloads of a variant take no room.
Components(t) ==
    LET all == FlattenSeq(Variants(t))
    IN  IF Aggregates[Con(t)].kind = "enum" THEN SelectSeq(all, LAMBDA c : ~IsErasedValue(c)) ELSE all

ParamsAfterReceiver(ref, receiver) ==
    LET i == Interfaces[ref[1]]
        s == ArgsFor(i.generics, <<receiver>> \o ref[2])
    IN  Each(LAMBDA t : SubstituteTy(t, s), <<i.ret>> \o Tail(i.params))

RECURSIVE CollectTy(_, _)

CollectAll(a, ts) == InTurn(CollectTy, a, ts)

Completed(a, t) == [a EXCEPT !.open = @ \ {InstanceName(t)}, !.done = Append(@, t)]

InstantiateAggregate(a, t) ==
    IF InstanceName(t) \in Names(a.done) \cup a.open THEN a
    ELSE Completed(CollectAll([a EXCEPT !.open = @ \cup {InstanceName(t)}], Components(t)), t)

Leaving(a, stack) == [a EXCEPT !.stack = stack]

ExpandDynamic(a, t) ==
    LET signatures == Each(LAMBDA ref : ParamsAfterReceiver(ref, Pointer(FALSE, TRUE, Prim("void"))),
                           View(t)[1])
    IN  Leaving(CollectAll([a EXCEPT !.stack = Append(@, <<Con(t), Args(t)>>)],
                           Args(t) \o FlattenSeq(signatures)), a.stack)

CollectDynamic(a, t) ==
    LET b == [a EXCEPT !.dyns = @ \cup {t}]
    IN  CASE t \in a.dyns -> a
          [] t \notin a.dyns /\ InfiniteGrowth(a.stack, Con(t), Args(t)) -> [b EXCEPT !.diags = @ + 1]
          [] OTHER -> ExpandDynamic(b, t)

CollectRetained(a, t, ref) ==
    IF <<t, ref>> \in a.retained THEN a
    ELSE CollectAll([a EXCEPT !.retained = @ \cup {<<t, ref>>}],
                    ref[2] \o ParamsAfterReceiver(ref, t))

CollectTy(a, t) ==
    CASE TypeComplexity(t) > MaxNesting -> [a EXCEPT !.stuck = TRUE]
      [] OTHER ->
         CASE Kind(t) = "named" -> CollectAll(InstantiateAggregate(a, t), Args(t))
           [] Kind(t) = "dyn" -> CollectDynamic(a, t)
           [] Kind(t) = "future" -> CollectAll(a, <<Args(t)[1], Named("Future", <<Args(t)[1]>>)>>)
           [] Kind(t) = "closure" ->
                InTurn(LAMBDA b, ref : CollectRetained(b, t, ref),
                         CollectAll(a, Args(t) \o BoundArgs(Bounds(t))), Bounds(t)[1])
           [] Kind(t) = "inst" -> CollectAll(a, <<Ret(t)>> \o Params(t))
           [] OTHER -> CollectAll(a, Args(t))

\* The types of a function: its signature, its body and, for an impl, the
\* arguments of the interface.
SignatureTypes(def) ==
    IF def[1] = "impl"
    THEN LET i == Interfaces[def[2].iface]
             s == ArgsFor(i.generics, def[2].args)
         IN  Each(LAMBDA t : SubstituteTy(t, s), <<i.ret>> \o i.params) \o def[2].args
    ELSE LET f == Functions[def[2]]
             s == IF def[1] = "generic"
                  THEN ArgsFor(Each(LAMBDA g : g.name, f.generics), def[3]) ELSE <<>>
         IN  Each(LAMBDA t : SubstituteTy(t, s), <<f.ret>> \o f.params)

CollectFrom(k, defs) ==
    InTurn(LAMBDA a, def : CollectAll(a, SignatureTypes(def) \o ByDef(k, def)[1].types),
             NoAggregates, defs)

(***************************************************************************)
(* Layouts: by-value cycles are reported, and a layout comes after those   *)
(* of its by-value components, structs before enums.                       *)
(***************************************************************************)
RECURSIVE LayoutEdges(_, _)
LayoutEdges(t, names) ==
    CASE Kind(t) = "named" -> {InstanceName(t)} \cap names
      [] Kind(t) \in {"array", "opaque"} -> UNION {LayoutEdges(c, names) : c \in ToSet(Args(t))}
      [] OTHER -> {}

EdgesOf(done, name) ==
    LET mine == SelectSeq(done, LAMBDA t : InstanceName(t) = name)
    IN  UNION {LayoutEdges(c, Names(done)) : c \in ToSet(Components(mine[1]))}

RECURSIVE OnCycle(_, _, _)
OnCycle(done, name, path) ==
    name \in path \/ \E next \in EdgesOf(done, name) : OnCycle(done, next, path \cup {name})

LayoutCycle(done) == \E name \in Names(done) : OnCycle(done, name, {})

\* A slip: arrays are taken for pointers.
AggregateValueDepsDirect(t, names) ==
    IF Kind(t) = "named" THEN SelectSeq(<<InstanceName(t)>>, LAMBDA n : n \in names) ELSE <<>>

RECURSIVE AggregateValueDeps(_, _)
AggregateValueDeps(t, names) ==
    CASE Kind(t) = "array" -> AggregateValueDeps(Args(t)[1], names)
      [] Kind(t) = "named" -> SelectSeq(<<InstanceName(t)>>, LAMBDA n : n \in names)
      [] OTHER -> <<>>

\* The dependencies are sorted by name in the code; their order among
\* themselves does not matter here.
AggregateLayoutDeps(done, t) ==
    FlattenSeq(Each(LAMBDA c : AggregateValueDeps(c, Names(done)), Components(t)))

\* o is [visiting, out], out the instances already laid out.
RECURSIVE VisitAggregateLayout(_, _, _)
Visited(o, name, t) == [visiting |-> o.visiting \ {name}, out |-> Append(o.out, t)]

VisitAggregateLayout(done, o, name) ==
    LET t == SelectSeq(done, LAMBDA u : InstanceName(u) = name)[1]
    IN  IF name \in Names(o.out) \cup o.visiting THEN o
        ELSE Visited(InTurn(LAMBDA q, dep : VisitAggregateLayout(done, q, dep),
                              [o EXCEPT !.visiting = @ \cup {name}], AggregateLayoutDeps(done, t)),
                     name, t)

AggregateLayoutOrder(done) ==
    LET Of(kind) == Each(InstanceName, SelectSeq(done, LAMBDA t : Aggregates[Con(t)].kind = kind))
    IN  InTurn(LAMBDA o, name : VisitAggregateLayout(done, o, name),
                 [visiting |-> {}, out |-> <<>>], Of("struct") \o Of("enum")).out
=============================================================================
