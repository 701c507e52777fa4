-------------------------------- MODULE Infer --------------------------------
(***************************************************************************)
(* Inference (typeck/infer.rs, typeck/expr/generics.rs): type holes of     *)
(* local declarations, the unification that infers type arguments at a     *)
(* call, and hidden parameters.  Unlike the matching of impl heads these   *)
(* functions update their bindings in place: a failed attempt keeps what   *)
(* it had bound so far, and the calls go on from there.                    *)
(*                                                                         *)
(* `h` maps type holes to their solutions, `s` generic names to types.     *)
(***************************************************************************)
EXTENDS Capability

RECURSIVE ResolveTypeHoles(_, _)
ResolveTypeHoles(t, h) ==
    LET Child(c) == ResolveTypeHoles(c, h)
    IN  CASE Kind(t) = "hole" -> IF Con(t) \in DOMAIN h THEN Child(h[Con(t)]) ELSE t
          [] Kind(t) \in Structural -> Rebuild(t, Each(Child, Args(t)), EachBound(Child, Bounds(t)))
          [] OTHER -> t

\* The children that two types of the same form match on; a closure type
\* matches an instance on its signature.
Signature(t) == IF Kind(t) \in {"closure", "inst"} THEN <<Ret(t)>> \o Params(t) ELSE Args(t)

IsStdFuture(t) == Kind(t) = "named" /\ Con(t) = "Future"

Peel(t) == IF Kind(t) = "opaque" THEN Args(t)[1] ELSE t

FutureAcceptsGenerated(e, a) == IsStdFuture(StripOpaque(e)) /\ Kind(Peel(a)) = "future"

(***************************************************************************)
(* Type holes.                                                             *)
(***************************************************************************)
Inferred(ok, s) == [ok |-> ok, s |-> s]

\* What a failed step has bound stays bound.
OrKeep(m, Next(_)) == IF m.ok THEN Next(m.s) ELSE m

HoleForm(e, a) ==
    \/ Kind(e) \in Structural \ {"closure"} /\ SameShape(e, a)
    \/ Kind(e) = "slice" /\ Kind(a) = "array"
    \/ Kind(e) = "closure" /\ Kind(a) \in {"closure", "inst"} /\ Len(Params(e)) = Len(Params(a))

Pairs(e, a) ==
    IF Kind(e) = "inst" THEN <<Args(e), Args(a)>> ELSE <<Signature(e), Signature(a)>>

RECURSIVE BindTypeHole(_, _, _), UnifyTypeHoles(_, _, _), UnifyHolesAll(_, _, _)

BindResolved(id, t, h) ==
    CASE t \in {Hole(id), Prim("unknown")} -> Inferred(TRUE, h)
      [] id \in DOMAIN h -> UnifyTypeHoles(h[id], t, h)
      [] OTHER -> Inferred(TRUE, Bind(h, id, t))

BindTypeHole(id, ty, h) == BindResolved(id, ResolveTypeHoles(ty, h), h)

UnifyHolesAll(es, as, h) ==
    IF es = <<>> THEN Inferred(TRUE, h)
    ELSE OrKeep(UnifyTypeHoles(es[1], as[1], h), LAMBDA g : UnifyHolesAll(Tail(es), Tail(as), g))

UnifyHoleForms(e, a, h) ==
    CASE Kind(e) = "opaque" -> UnifyTypeHoles(Args(e)[1], a, h)
      [] Kind(e) # "opaque" /\ Kind(a) = "opaque" -> UnifyTypeHoles(e, Args(a)[1], h)
      [] Kind(e) = "hole" /\ Kind(a) # "opaque" -> BindTypeHole(Con(e), a, h)
      [] Kind(a) = "hole" /\ Kind(e) \notin {"opaque", "hole"} -> BindTypeHole(Con(a), e, h)
      [] OTHER -> IF HoleForm(e, a) THEN UnifyHolesAll(Pairs(e, a)[1], Pairs(e, a)[2], h)
                  ELSE Inferred(FALSE, h)

OrHoleForms(future, e, a) == IF future.ok THEN future ELSE UnifyHoleForms(e, a, future.s)

UnifyResolved(e, a, h) ==
    CASE SameIgnoringOpaqueState(e, a) -> Inferred(TRUE, h)
      [] ~SameIgnoringOpaqueState(e, a) /\ FutureAcceptsGenerated(e, a) ->
            OrHoleForms(UnifyTypeHoles(Args(StripOpaque(e))[1], Args(Peel(a))[1], h), e, a)
      [] OTHER -> UnifyHoleForms(e, a, h)

UnifyTypeHoles(expected, actual, h) ==
    UnifyResolved(ResolveTypeHoles(expected, h), ResolveTypeHoles(actual, h), h)

(***************************************************************************)
(* Unification for inference: views may weaken, arrays may become slices,  *)
(* a closure instance may become a closure.                                *)
(***************************************************************************)
InferForm(p, a) ==
    CASE Kind(p) = "ptr" ->
            /\ Kind(a) = "ptr" /\ (Con(p)[1] \/ ~Con(a)[1])
            /\ ViewCanWeaken(Con(p)[2], Con(a)[2])
      [] Kind(p) = "slice" ->
            Kind(a) = "array" \/ (Kind(a) = "slice" /\ ViewCanWeaken(Con(p), Con(a)))
      [] Kind(p) = "closure" ->
            Kind(a) \in {"closure", "inst"} /\ Len(Params(p)) = Len(Params(a))
      [] OTHER -> Kind(p) \in Structural /\ SameShape(p, a)

RECURSIVE UnifyForInference(_, _, _), InferAll(_, _, _), InferRefs(_, _, _)

InferAll(ps, as, s) ==
    IF ps = <<>> THEN Inferred(TRUE, s)
    ELSE OrKeep(UnifyForInference(ps[1], as[1], s), LAMBDA r : InferAll(Tail(ps), Tail(as), r))

InferRefs(ps, as, s) ==
    IF ps = <<>> THEN Inferred(TRUE, s)
    ELSE FirstMatch(LAMBDA c :
            IF ps[1][1] # c[1] \/ Len(ps[1][2]) # Len(c[2]) THEN NoMatch
            ELSE OrKeep(InferAll(ps[1][2], c[2], s), LAMBDA r : InferRefs(Tail(ps), as, r)), as)

OrRestore(m, Next(_), s) == IF m.ok THEN Next(m.s) ELSE Inferred(FALSE, s)

InferBounds(p, a, s) ==
    OrRestore(InferRefs(p[1], a[1], s), LAMBDA r :
        OrRestore(InferRefs(p[2], a[2], r), LAMBDA q : Inferred(TRUE, q), s), s)

InferClosure(p, a, s) ==
    IF ~InferForm(p, a) THEN Inferred(FALSE, s)
    ELSE OrKeep(InferAll(Signature(p), Signature(a), s), LAMBDA r :
            IF Kind(a) = "closure" THEN InferBounds(Bounds(p), Bounds(a), r) ELSE Inferred(TRUE, r))

InferForms(p, a, s) ==
    CASE SameIgnoringOpaqueState(p, a) -> Inferred(TRUE, s)
      [] OTHER ->
         CASE Kind(p) = "opaque" -> UnifyForInference(Args(p)[1], a, s)
           [] Kind(p) # "opaque" /\ Kind(a) = "opaque" -> UnifyForInference(p, Args(a)[1], s)
           [] Kind(p) = "gen" /\ Kind(a) # "opaque" ->
                IF Con(p) \notin DOMAIN s \/ s[Con(p)] = p THEN Inferred(TRUE, Bind(s, Con(p), a))
                ELSE UnifyForInference(s[Con(p)], a, s)
           [] Kind(p) = "closure" /\ Kind(a) # "opaque" -> InferClosure(p, a, s)
           [] Kind(p) = "named" /\ Kind(a) = "future" ->
                IF IsStdFuture(p) THEN UnifyForInference(Args(p)[1], Args(a)[1], s)
                ELSE Inferred(FALSE, s)
           [] OTHER ->
                IF InferForm(p, a) THEN InferAll(Args(p), Args(a), s) ELSE Inferred(FALSE, s)

UnifyForInference(pattern, actual, s) == InferForms(SubstituteTy(pattern, s), actual, s)

\* A receiver parameter is a pointer to the receiver; a value is taken by
\* reference.
UnifyReceiver(p, a, s) ==
    IF Kind(p) = "ptr"
    THEN UnifyForInference(Args(p)[1], IF Kind(a) = "ptr" THEN Args(a)[1] ELSE a, s)
    ELSE UnifyForInference(p, a, s)

(***************************************************************************)
(* Hidden parameters, solved from the constraints of known receivers until *)
(* nothing changes, at most one round per hidden parameter and one more.   *)
(***************************************************************************)
\* The impls the constraints in scope promise.
HiddenSolverAssumptions(env, receiver) ==
    (IF Kind(receiver) = "ret"
     THEN Each(LAMBDA ref : Term(ref[1], ref[2], receiver), Bounds(receiver)[1]) ELSE <<>>)
    \o FlattenSeq(Each(LAMBDA g :
        Each(LAMBDA ref : Term(ref[1], ref[2], Generic(g.name)), OwnBounds(g)[1]), env))

\* u is [s, ambiguous].
WithSolution(u, found) ==
    CASE found = {} -> u
      [] Cardinality(found) = 1 -> [u EXCEPT !.s = (CHOOSE m \in found : TRUE) @@ @]
      [] OTHER -> [u EXCEPT !.ambiguous = @ + 1]

SolveFrom(tab, env, receiver, ref, hidden, u) ==
    WithSolution(u, SolveHidden(tab, Term(ref[1], ref[2], receiver), hidden,
                                HiddenSolverAssumptions(env, receiver)))

SolveRound(tab, env, generics, hidden, u) ==
    InTurn(LAMBDA v, g :
        IF g.name \notin DOMAIN v.s THEN v
        ELSE InTurn(LAMBDA w, ref : SolveFrom(tab, env, v.s[g.name], ref, hidden, w),
                      v, ConstraintBounds(g, v.s)[1]), u, generics)

RECURSIVE SolveRounds(_, _, _, _, _, _)
SolvedRound(tab, env, generics, hidden, u, v, n) ==
    IF n = 0 \/ v.s = u.s THEN v ELSE SolveRounds(tab, env, generics, hidden, v, n - 1)

SolveRounds(tab, env, generics, hidden, u, n) ==
    SolvedRound(tab, env, generics, hidden, u, SolveRound(tab, env, generics, hidden, u), n)

SolveHiddenGenerics(tab, env, generics, s) ==
    LET hidden == {g.name : g \in {f \in ToSet(generics) : f.hidden}}
        u == [s |-> s, ambiguous |-> 0]
    IN  IF hidden = {} THEN u
        ELSE SolveRounds(tab, env, generics, hidden, u, Cardinality(hidden))

\* The arguments a known receiver gives a constraint, when they are unique.
UniqueArgs(ref, found) ==
    IF Cardinality(found) # 1 THEN <<>>
    ELSE Each(LAMBDA t : SubstituteTy(t, CHOOSE m \in found : TRUE), ref[2])

ActualCapabilityArgs(tab, env, ref, receiver) ==
    LET names == UNION {TyGenericNames(t) : t \in ToSet(ref[2])}
    IN  IF names = {} THEN <<>>
        ELSE UniqueArgs(ref, SolveHidden(tab, Term(ref[1], ref[2], receiver), names,
                                         HiddenSolverAssumptions(env, receiver)))

UnifyActual(args, actual, s) ==
    InTurnDomain(LAMBDA r, i : UnifyForInference(args[i], actual[i], r).s, s, actual)

KnownReceiverRound(tab, env, generics, s) ==
    InTurn(LAMBDA v, g :
        IF g.name \notin DOMAIN v THEN v
        ELSE InTurn(LAMBDA w, ref :
                UnifyActual(ref[2], ActualCapabilityArgs(tab, env, ref, v[g.name]), w),
                v, ConstraintBounds(g, v)[1]), s, generics)

RECURSIVE InferFromReceivers(_, _, _, _, _)
InferAgain(tab, env, generics, s, t, n) ==
    IF n = 0 \/ t = s THEN t ELSE InferFromReceivers(tab, env, generics, t, n - 1)

InferFromReceivers(tab, env, generics, s, n) ==
    InferAgain(tab, env, generics, s, KnownReceiverRound(tab, env, generics, s), n)
=============================================================================
