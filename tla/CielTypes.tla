------------------------------ MODULE CielTypes ------------------------------
(***************************************************************************)
(* The type terms of the compiler (enum Ty of types.rs) and the pure       *)
(* functions on them: substitution, one-sided unification, assignability,  *)
(* containment and the mangled names that key the instance tables.         *)
(*                                                                         *)
(* A term is <<kind, con, args, bounds>>: `con` is the part a kind         *)
(* compares by equality (a definition, a length, the view flags), `args`   *)
(* the types under it and `bounds` its <<positive, negative>> capability   *)
(* references, each a pair <<interface, args>>:                            *)
(*   prim   void, never, the primitives and the error type                 *)
(*   hole   a local type hole, con is its number                           *)
(*   ptr    con <<nullable, writable>>, args <<inner>>                     *)
(*   array  con length, args <<elem>>                                      *)
(*   slice  con writable, args <<elem>>                                    *)
(*   named  con definition, args type arguments                            *)
(*   future con <<name, affine>>, args <<output>> \o hidden state          *)
(*   opaque args <<base>> \o hidden state                                  *)
(*   gen    con name of the generic parameter                              *)
(*   dyn    con interface, args its arguments                              *)
(*   ret    con function, args generic arguments, bounds the promise       *)
(*   fn     con <<unsafe, abi>>, args <<ret>> \o params                    *)
(*   closure args <<ret>> \o params, bounds the retained capabilities      *)
(*   inst   con <<id, number of params>>, args <<ret>> \o params           *)
(*          \o captures                                                    *)
(* C spellings behave as primitives.  Names of hidden state slots, which   *)
(* only diagnostics show, are left out.                                    *)
(***************************************************************************)
EXTENDS Integers, Sequences, FiniteSets, SequencesExt, TLC

NoBounds == <<<<>>, <<>>>>
Kind(t) == t[1]
Con(t) == t[2]
Args(t) == t[3]
Bounds(t) == t[4]

Prim(p) == <<"prim", p, <<>>, NoBounds>>
Hole(n) == <<"hole", n, <<>>, NoBounds>>
Generic(x) == <<"gen", x, <<>>, NoBounds>>
Pointer(nullable, writable, t) == <<"ptr", <<nullable, writable>>, <<t>>, NoBounds>>
Array(n, t) == <<"array", n, <<t>>, NoBounds>>
Slice(writable, t) == <<"slice", writable, <<t>>, NoBounds>>
Named(d, ts) == <<"named", d, ts, NoBounds>>
Dynamic(i, ts) == <<"dyn", i, ts, NoBounds>>
Future(name, affine, output, state) ==
    <<"future", <<name, affine>>, <<output>> \o state, NoBounds>>
Function(unsafe, ret, params) == <<"fn", <<unsafe, "ciel">>, <<ret>> \o params, NoBounds>>
Closure(ret, params, b) == <<"closure", "closure", <<ret>> \o params, b>>
ClosureInstance(id, ret, params, captures) ==
    <<"inst", <<id, Len(params)>>, <<ret>> \o params \o captures, NoBounds>>

\* The elements of s under F, as a tuple.
Each(F(_), s) == <<>> \o [i \in DOMAIN s |-> F(s[i])]

\* F(x), where TLC evaluates x before F: what follows a pass works on the
\* table the pass has reached, not on the expression that computes it.
With(x, F(_)) == [v \in {x} |-> F(v)][x]

\* The left fold of F over s, one element after the other.
InTurn(F(_, _), x, s) ==
    LET after[n \in 0 .. Len(s)] ==
            IF n = 0 THEN x ELSE With(after[n - 1], LAMBDA y : F(y, s[n]))
    IN  after[Len(s)]

InTurnDomain(F(_, _), x, s) == InTurn(F, x, [i \in DOMAIN s |-> i])

EachRef(F(_), refs) == <<>> \o [i \in DOMAIN refs |-> <<refs[i][1], Each(F, refs[i][2])>>]

EachBound(F(_), b) == <<EachRef(F, b[1]), EachRef(F, b[2])>>

BoundArgs(b) == FlattenSeq(Each(LAMBDA r : r[2], b[1] \o b[2]))

(***************************************************************************)
(* Hidden state: wrapping a type that is already opaque extends its state. *)
(***************************************************************************)
OpaqueState(base, state) ==
    IF state = <<>> THEN base
    ELSE IF Kind(base) = "opaque"
         THEN <<"opaque", "opaque", Args(base) \o state, NoBounds>>
         ELSE <<"opaque", "opaque", <<base>> \o state, NoBounds>>

RECURSIVE StripOpaque(_)
StripOpaque(t) == IF Kind(t) = "opaque" THEN StripOpaque(Args(t)[1]) ELSE t

Rebuild(t, args, bounds) ==
    IF Kind(t) = "opaque" THEN OpaqueState(args[1], Tail(args))
    ELSE <<Kind(t), Con(t), args, bounds>>

(***************************************************************************)
(* The walks: every one of them visits a term and its children and differs *)
(* in what it looks for and in whether it follows capability bounds.       *)
(***************************************************************************)
RECURSIVE Subterms(_)
Subterms(t) ==
    {t} \cup UNION {Subterms(c) : c \in ToSet(Args(t) \o BoundArgs(Bounds(t)))}

ContainsGeneric(t) == \E s \in Subterms(t) : Kind(s) = "gen"

ContainsTypeHole(t) == \E s \in Subterms(t) : Kind(s) = "hole"

ContainsAnyGenericName(t, names) ==
    \E s \in Subterms(t) : Kind(s) = "gen" /\ Con(s) \in names

TyContains(container, needle) == needle \in Subterms(container)

ReprMarkers == {"RefRepr", "Repr"}

LeafKinds == {"prim", "hole", "gen"}

RECURSIVE TypeComplexity(_)
TypeComplexity(t) ==
    LET Sum(ts) == FoldSeq(LAMBDA c, n : n + TypeComplexity(c), 0, ts)
    IN  IF Kind(t) \in LeafKinds THEN 0
        ELSE 1 + Sum(Args(t)) + Sum(BoundArgs(Bounds(t)))
               + Len(Bounds(t)[1]) + Len(Bounds(t)[2])

\* The generic names of a type; those of an opaque return and those that
\* occur only in the bounds of a closure are not collected.
RECURSIVE TyGenericNames(_)
TyGenericNames(t) ==
    CASE Kind(t) = "gen" -> {Con(t)}
      [] Kind(t) = "ret" -> {}
      [] OTHER -> UNION {TyGenericNames(c) : c \in ToSet(Args(t))}

(***************************************************************************)
(* Substitution.  A substitution is a function from names to terms.        *)
(***************************************************************************)
RECURSIVE SubstituteTy(_, _)
SubstituteTy(t, s) ==
    IF Kind(t) = "gen" THEN IF Con(t) \in DOMAIN s THEN s[Con(t)] ELSE t
    ELSE LET Child(c) == SubstituteTy(c, s)
         IN  Rebuild(t, Each(Child, Args(t)), EachBound(Child, Bounds(t)))

SubstituteBounds(b, s) == EachBound(LAMBDA c : SubstituteTy(c, s), b)

(***************************************************************************)
(* Equality up to hidden state, and assignability.                         *)
(***************************************************************************)
RECURSIVE SameIgnoringOpaqueState(_, _)
SameIgnoringOpaqueState(l, r) ==
    \/ l = r
    \/ /\ Kind(l) = "opaque"
       /\ SameIgnoringOpaqueState(Args(l)[1], r)
    \/ /\ Kind(l) # "opaque" /\ Kind(r) = "opaque"
       /\ SameIgnoringOpaqueState(l, Args(r)[1])
    \/ /\ Kind(l) = Kind(r) /\ Kind(l) \notin {"opaque", "ret"}
       /\ Con(l) = Con(r) /\ Bounds(l) = Bounds(r)
       /\ Len(Args(l)) = Len(Args(r))
       /\ \A i \in DOMAIN Args(l) : SameIgnoringOpaqueState(Args(l)[i], Args(r)[i])

\* A writable view may be used where a read-only one is expected.
ViewCanWeaken(expected, actual) == expected = actual \/ (~expected /\ actual)

ProvesAll(have, required) ==
    \A i \in {1, 2} : ToSet(required[i]) \subseteq ToSet(have[i])

Ret(t) == Args(t)[1]
Params(t) == IF Kind(t) = "inst" THEN SubSeq(Args(t), 2, 1 + Con(t)[2]) ELSE Tail(Args(t))

SameParams(l, r) ==
    /\ Len(Params(l)) = Len(Params(r))
    /\ \A i \in DOMAIN Params(l) : SameIgnoringOpaqueState(Params(l)[i], Params(r)[i])

RECURSIVE CanAssignFrom(_, _)

CanAssignStripped(e, a) ==
    LET SameInner == SameIgnoringOpaqueState(Args(e)[1], Args(a)[1])
    IN  \/ Kind(e) = "hole" \/ Kind(a) = "hole"
        \/ SameIgnoringOpaqueState(e, a)
        \/ /\ Kind(e) = "ptr" /\ Kind(a) = "ptr"
           /\ Con(e)[1] \/ ~Con(a)[1]
           /\ ViewCanWeaken(Con(e)[2], Con(a)[2])
           /\ SameInner
        \/ /\ Kind(e) = "slice" /\ Kind(a) = "slice"
           /\ ViewCanWeaken(Con(e), Con(a))
           /\ SameInner
        \/ /\ Kind(e) = "fn" /\ Kind(a) = "fn"
           /\ Con(e)[2] = Con(a)[2]
           /\ SameParams(e, a)
           /\ CanAssignFrom(Ret(e), Ret(a))
           /\ Con(a)[1] => Con(e)[1]
        \/ /\ Kind(e) = "closure" /\ Kind(a) \in {"closure", "inst"}
           /\ SameParams(e, a)
           /\ CanAssignFrom(Ret(e), Ret(a))
           /\ IF Kind(a) = "closure" THEN ProvesAll(Bounds(a), Bounds(e))
              ELSE Bounds(e) = NoBounds

CanAssignFrom(expected, source) ==
    CanAssignStripped(StripOpaque(expected), StripOpaque(source))

(***************************************************************************)
(* One-sided unification of a pattern with a type: the generics of the     *)
(* pattern are bound once, in the order of the walk.  The result says      *)
(* whether they match and carries the bindings.                            *)
(***************************************************************************)
Match(s) == [ok |-> TRUE, s |-> s]
NoMatch == [ok |-> FALSE, s |-> <<>>]

Bind(s, x, t) == (x :> t) @@ s

AndThen(m, Next(_)) == IF m.ok THEN Next(m.s) ELSE NoMatch

\* The first candidate whose trial succeeds decides.
FirstMatch(Trial(_), candidates) ==
    FoldLeft(LAMBDA m, c : IF m.ok THEN m ELSE Trial(c), NoMatch, candidates)

\* A generic of the pattern is bound when it is unbound or bound to itself;
\* afterwards only an equal type matches.
UnifyGeneric(p, a, s) ==
    IF Con(p) \notin DOMAIN s \/ s[Con(p)] = p THEN Match(Bind(s, Con(p), a))
    ELSE IF s[Con(p)] = a THEN Match(s) ELSE NoMatch

SameShape(l, r) ==
    Kind(l) = Kind(r) /\ Con(l) = Con(r) /\ Len(Args(l)) = Len(Args(r))

RECURSIVE UnifyTy(_, _, _), UnifyAll(_, _, _), UnifyRefs(_, _, _)

UnifyAll(ps, as, s) ==
    IF ps = <<>> THEN Match(s)
    ELSE AndThen(UnifyTy(ps[1], as[1], s), LAMBDA r : UnifyAll(Tail(ps), Tail(as), r))

UnifyRefs(ps, as, s) ==
    IF ps = <<>> THEN Match(s)
    ELSE FirstMatch(LAMBDA c :
            IF ps[1][1] # c[1] \/ Len(ps[1][2]) # Len(c[2]) THEN NoMatch
            ELSE AndThen(UnifyAll(ps[1][2], c[2], s), LAMBDA r : UnifyRefs(Tail(ps), as, r)), as)

UnifyBounds(p, a, s) ==
    AndThen(UnifyRefs(p[1], a[1], s), LAMBDA r : UnifyRefs(p[2], a[2], r))

\* A closure type also matches a closure instance, unless it retains
\* capabilities.
UnifyClosure(p, a, s) ==
    IF Len(Params(p)) # Len(Params(a)) THEN NoMatch
    ELSE AndThen(UnifyAll(<<Ret(p)>> \o Params(p), <<Ret(a)>> \o Params(a), s), LAMBDA r :
            IF Kind(a) = "closure" THEN UnifyBounds(Bounds(p), Bounds(a), r)
            ELSE IF Bounds(p) = NoBounds THEN Match(r) ELSE NoMatch)

UnifyStripped(p, a, s) ==
    CASE Kind(p) = "hole" -> Match(s)
      [] Kind(p) = "gen" -> UnifyGeneric(p, a, s)
      [] Kind(p) = "closure" ->
            IF Kind(a) \in {"closure", "inst"} THEN UnifyClosure(p, a, s) ELSE NoMatch
      [] Kind(p) = "future" ->
            IF Kind(a) = "future" /\ Con(p)[1] = Con(a)[1] /\ Len(Args(p)) = Len(Args(a))
            THEN UnifyAll(Args(p), Args(a), s) ELSE NoMatch
      [] OTHER -> IF SameShape(p, a) THEN UnifyAll(Args(p), Args(a), s) ELSE NoMatch

UnifyTy(pattern, actual, s) == UnifyStripped(StripOpaque(pattern), StripOpaque(actual), s)

InitialSubst(names) == [x \in names |-> Generic(x)]

(***************************************************************************)
(* The bounds a closure type carries, and the receivers of values.         *)
(***************************************************************************)
RetainedClosureProves(t, interface, args) ==
    Kind(t) = "closure" /\ <<interface, args>> \in ToSet(Bounds(t)[1])

ReceiverFromValue(t) == IF Kind(t) = "ptr" THEN Args(t)[1] ELSE t

RECURSIVE IsErasedValue(_)
IsErasedValue(t) ==
    \/ t = Prim("void")
    \/ Kind(t) \in {"array", "opaque"} /\ IsErasedValue(Args(t)[1])

(***************************************************************************)
(* Mangling: the words that are joined with `_` into a C name.  The tables *)
(* of aggregate, function and impl instances are keyed by these names.     *)
(***************************************************************************)
PointerPrefix(con) ==
    CASE con = <<FALSE, TRUE>> -> "ptr"
      [] con = <<FALSE, FALSE>> -> "cptr"
      [] con = <<TRUE, TRUE>> -> "qptr"
      [] con = <<TRUE, FALSE>> -> "qcptr"

RECURSIVE MangleTy(_), MangleAll(_), MangleRefs(_, _)

MangleAll(ts) == FlattenSeq(Each(MangleTy, ts))

MangleRefs(sign, refs) ==
    FlattenSeq(Each(LAMBDA r : <<sign, r[1]>> \o MangleAll(r[2]), refs))

MangleBounds(b) ==
    IF b = NoBounds THEN <<"none">> ELSE MangleRefs("pos", b[1]) \o MangleRefs("neg", b[2])

ListOr(ts, empty) == IF ts = <<>> THEN <<empty>> ELSE MangleAll(ts)

Captures(t) == SubSeq(Args(t), 2 + Con(t)[2], Len(Args(t)))

MangleTy(t) ==
    CASE Kind(t) = "prim" -> <<Con(t)>>
      [] Kind(t) = "hole" -> <<"hole">>
      [] Kind(t) = "gen" -> <<"gen", Con(t)>>
      [] Kind(t) = "ptr" -> <<PointerPrefix(Con(t))>> \o MangleAll(Args(t))
      [] Kind(t) = "array" -> <<"arr" \o ToString(Con(t))>> \o MangleAll(Args(t))
      [] Kind(t) = "slice" -> <<IF Con(t) THEN "slice" ELSE "cslice">> \o MangleAll(Args(t))
      [] Kind(t) = "named" -> <<Con(t)>> \o MangleAll(Args(t))
      [] Kind(t) = "dyn" -> <<"dyn", Con(t)>> \o MangleAll(Args(t))
      [] Kind(t) = "opaque" -> MangleTy(Args(t)[1])
      [] Kind(t) = "future" ->
            <<IF Con(t)[2] THEN "generated_affine_future" ELSE "generated_future", Con(t)[1]>>
                \o MangleTy(Args(t)[1])
      [] Kind(t) = "ret" ->
            <<"opaque_ret", Con(t), "args">> \o ListOr(Args(t), "void")
                \o <<"caps">> \o MangleBounds(Bounds(t))
      [] Kind(t) = "fn" ->
            <<"fn", IF Con(t)[1] THEN "unsafe" ELSE "safe", Con(t)[2], "ret">> \o MangleTy(Ret(t))
                \o <<"args">> \o ListOr(Params(t), "void")
      [] Kind(t) = "closure" ->
            <<"closure", "ret">> \o MangleTy(Ret(t)) \o <<"args">> \o ListOr(Params(t), "void")
                \o <<"caps">> \o MangleBounds(Bounds(t))
      [] Kind(t) = "inst" ->
            <<"closure_inst", Con(t)[1], "ret">> \o MangleTy(Ret(t))
                \o <<"args">> \o ListOr(Params(t), "void")
                \o <<"caps">> \o ListOr(Captures(t), "empty")

AggregateInstanceName(def, args) == MangleTy(Named(def, args))
=============================================================================
