------------------------------- MODULE Coerce -------------------------------
(***************************************************************************)
(* What happens to a value where a type is expected of it: a coercion that *)
(* erases it, retains capabilities or weakens a view, or a diagnostic      *)
(* (typeck/expr/core.rs, typeck/expr/lvalues.rs), and the types of local   *)
(* declarations (typeck/infer.rs).                                         *)
(*                                                                         *)
(* A value is known by its type; `writable` says whether it is a writable  *)
(* place.  A result is [k, ty, targets]: the checker, the type of the      *)
(* coerced value and the witnesses that the coercion needs.  Values of     *)
(* meta representations and null literals are left out.                    *)
(***************************************************************************)
EXTENDS ImplTable

Coerced(k, ty, targets) == [k |-> k, ty |-> ty, targets |-> targets]

TyCanAssignFrom(e, a) == CanAssignFrom(e, a) \/ FutureAcceptsGenerated(e, a)

ClosureShapeSatisfies(e, a) ==
    /\ Kind(e) = "closure" /\ Kind(a) \in {"closure", "inst"}
    /\ Params(e) = Params(a) /\ TyCanAssignFrom(Ret(e), Ret(a))

\* A function without captures becomes a closure.
FunctionFits(e, a) ==
    /\ Kind(e) = "closure" /\ Kind(a) = "fn" /\ ~Con(a)[1] /\ ~ContainsGeneric(e)
    /\ Params(e) = Params(a) /\ TyCanAssignFrom(Ret(e), Ret(a))

NeedsRetain(e, a) ==
    CASE Kind(a) = "closure" -> Bounds(a) # Bounds(e)
      [] Kind(a) = "inst" -> Bounds(e) # NoBounds
      [] Kind(a) = "fn" -> FALSE

\* j is the checker after the constraints of the closure type, k before.
CoerceCallable(k, j, e, a) ==
    IF j.diags > k.diags THEN Coerced(j, a, <<>>)
    ELSE Coerced(j, e, IF NeedsRetain(e, a) THEN <<<<"retain", e, a>>>> ELSE <<>>)

(***************************************************************************)
(* Erasure into Error, Report or a dynamic interface.                      *)
(***************************************************************************)
ErrorTrait == Dynamic("ErrorTrait", <<>>)

ErrorTypes == {Named("Error", <<>>), Named("Report", <<>>)}

\* What stands behind the erased value, and what is asked of its type: of an
\* error only that it can be formatted.
ErasedAs(e) == IF e \in ErrorTypes THEN ErrorTrait ELSE e

Asked(e) == IF e \in ErrorTypes THEN <<<<<<"format_error", <<>>>>>>, <<>>>> ELSE View(e)

\* Neither a nullable error nor a resource, owned or pointed to, is erased;
\* behind other interfaces a pointer to a resource may hide.
RejectErasure(c, dyn, a) ==
    \/ TypeIsAffine(a, c.resources)
    \/ /\ ViewIncludes(dyn, ErrorTrait)
       /\ (Kind(a) = "ptr" /\ Con(a)[1]) \/ TypeIsAffine(ReceiverFromValue(a), c.resources)

Erased(c, answer, e, a) ==
    IF answer.yes /\ ~RejectErasure(c, ErasedAs(e), a)
    THEN Coerced(answer.k, e, <<<<"dynamic", ErasedAs(e), a>>>>)
    ELSE Coerced(Diag(answer.k), a, <<>>)

CoerceErased(k, c, e, a) ==
    IF e \in ErrorTypes \/ Kind(e) = "dyn"
    THEN Erased(c, Satisfies(k, c, ErasedAs(e), Asked(e), a), e, a)
    ELSE Coerced(Diag(k), a, <<>>)

(***************************************************************************)
(* coerce_expr_to_expected, after type holes.                              *)
(***************************************************************************)
SliceToConst(e, a) ==
    /\ Kind(e) = "slice" /\ Kind(a) = "slice" /\ ~Con(e) /\ Con(a) /\ Args(e) = Args(a)

ArrayToSlice(e, a) == Kind(e) = "slice" /\ Kind(a) = "array" /\ Args(e) = Args(a)

Coerce(k, c, e, a, writable) ==
    CASE ClosureShapeSatisfies(e, a) \/ FunctionFits(e, a) ->
            CoerceCallable(k, RequireBounds(k, c, a, Bounds(e)), e, a)
      [] SliceToConst(e, a) -> Coerced(k, e, <<>>)
      [] ArrayToSlice(e, a) ->
            IF Con(e) => writable THEN Coerced(k, e, <<>>) ELSE Coerced(Diag(k), a, <<>>)
      [] OTHER ->
            IF TyCanAssignFrom(e, a) \/ ContainsGeneric(e) \/ a = Prim("unknown")
            THEN Coerced(k, a, <<>>) ELSE CoerceErased(k, c, e, a)

\* A mismatch is reported here too; the constraints of a closure are not.
RequireAssignable(k, c, e, a) ==
    CASE ContainsGeneric(e) \/ ContainsGeneric(a) \/ Prim("unknown") \in {e, a} -> k
      [] ClosureShapeSatisfies(e, a) -> Truncate(RequireBounds(k, c, a, Bounds(e)), k)
      [] OTHER -> IF TyCanAssignFrom(e, a) THEN k ELSE Diag(k)

Required(r, c, e) == [r EXCEPT !.k = RequireAssignable(r.k, c, e, r.ty)]

(***************************************************************************)
(* Local declarations: `declared` may contain holes, `init` is the type of *)
(* the initializer.                                                        *)
(***************************************************************************)
\* What a value carries besides its declared type is kept.
PreservingHiddenState(e, a) ==
    CASE Kind(a) = "opaque" /\ TyCanAssignFrom(e, Args(a)[1]) -> OpaqueState(e, Tail(Args(a)))
      [] OTHER -> IF FutureAcceptsGenerated(e, a) THEN a ELSE e

WithType(r, t) == [r EXCEPT !.ty = t]

\* A mismatch is reported; values that carry more than their type always fit.
Initialized(r, t) ==
    IF IsErasedValue(t) THEN Coerced(Diag(r.k), t, r.targets)
    ELSE WithType(r, PreservingHiddenState(t, r.ty))

Settled(r, c, t) == IF t = Prim("unknown") THEN WithType(r, t) ELSE Initialized(Required(r, c, t), t)

OrUnknown(t) == IF ContainsTypeHole(t) THEN Prim("unknown") ELSE t

\* A hole that is still open is reported, otherwise the initializer is coerced
\* to the type found.
Within(outer, inner) == [outer EXCEPT !.targets = inner.targets \o @]

Recoerced(r, c, t, writable) ==
    IF t = Prim("unknown") THEN [r EXCEPT !.k = Diag(@)]
    ELSE Within(Coerce(r.k, c, t, r.ty, writable), r)

\* r is the initializer, checked against what h knows of the declared type.
AfterInit(r, c, declared, t, writable) ==
    Settled(IF ContainsTypeHole(declared) THEN Recoerced(r, c, t, writable) ELSE r, c, t)

InferLocal(r, c, declared, h, writable) ==
    AfterInit(r, c, declared,
              OrUnknown(ResolveTypeHoles(declared, UnifyTypeHoles(declared, r.ty, h).s)), writable)

CheckInit(k, c, declared, init, h, writable) ==
    InferLocal(IF Kind(declared) = "hole" THEN Coerced(k, init, <<>>)
               ELSE Coerce(k, c, ResolveTypeHoles(declared, h), init, writable),
               c, declared, h, writable)

CheckLocalDecl(k, c, declared, init, writable) ==
    IF IsErasedValue(declared) THEN Coerced(Diag(k), declared, <<>>)
    ELSE CheckInit(k, c, declared, init, UnifyTypeHoles(declared, init, <<>>).s, writable)
=============================================================================
