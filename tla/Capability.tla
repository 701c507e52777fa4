------------------------------ MODULE Capability ------------------------------
(***************************************************************************)
(* What the type checker asks of a table of impls without changing it      *)
(* (typeck/capability.rs, typeck/capability_solve.rs, affine.rs): affinity *)
(* of a type, lookup, overlap of marker impls, coherence of determined     *)
(* parameters and the inference of hidden parameters.                      *)
(*                                                                         *)
(* An impl is [iface, args], args[1] the receiver.  A generic impl         *)
(* (template) also has `generics`, a sequence of [name, resource, hidden,  *)
(* terms]; a term of a constraint is [op, iface, args], op "add", "sub"    *)
(* (mask out) or "not" (must be absent).                                   *)
(***************************************************************************)
EXTENDS CielTypes

CONSTANTS
    Interfaces,   \* interface -> [generics, params, ret, determined, marker,
                  \* unsafe]; generics are names, the first one the receiver;
                  \* determined is the number of determinants, 0 without an arrow
    Aliases,      \* interface alias -> [generics, terms]
    Aggregates    \* definition -> [kind, resource, generics, variants], kind
                  \* "struct" or "enum"; a struct has one variant, its fields

Arity(iface) == Len(Interfaces[iface].generics)

(***************************************************************************)
(* Affine types: resources, futures and what holds one by value.           *)
(***************************************************************************)
ArgsFor(names, args) ==
    [x \in ToSet(names) |-> args[CHOOSE i \in DOMAIN names : names[i] = x]]

Variants(t) ==
    LET d == Aggregates[Con(t)]
    IN  Each(LAMBDA v : Each(LAMBDA f : SubstituteTy(f, ArgsFor(d.generics, Args(t))), v),
             d.variants)

\* `resources` are the generic parameters in scope that are resource-only;
\* `through` are the kinds that are affine when something under them is.
RECURSIVE AffineInner(_, _, _, _)
AffineInner(t, resources, through, visiting) ==
    LET AnyOf(ts, seen) == \E c \in ToSet(ts) : AffineInner(c, resources, through, seen)
    IN  CASE Kind(t) = "gen" -> Con(t) \in resources
          [] Kind(t) = "future" -> TRUE
          [] Kind(t) \in through -> AnyOf(Args(t), visiting)
          [] Kind(t) = "inst" -> AnyOf(Captures(t), visiting)
          [] Kind(t) = "named" ->
                /\ t \notin visiting /\ Con(t) \in DOMAIN Aggregates
                /\ \/ Aggregates[Con(t)].resource
                   \/ AnyOf(FlattenSeq(Variants(t)), visiting \cup {t})
          [] OTHER -> FALSE

TypeIsAffine(t, resources) == AffineInner(t, resources, {"array", "opaque"}, {})

\* The solver's own copy knows no resource parameters and no hidden state.
AffineReadonly(t) == AffineInner(t, {}, {"array"}, {})

(***************************************************************************)
(* Views: the capabilities a constraint or an alias stands for.            *)
(***************************************************************************)
Without(refs, removed) == SelectSeq(refs, LAMBDA r : r \notin ToSet(removed))

Including(refs, more) == refs \o Without(more, refs)

RECURSIVE InterfaceView(_, _, _), ViewOf(_, _, _)

\* An alias that meets itself again contributes nothing, nor does one with
\* the wrong number of arguments.
InterfaceView(iface, args, expanding) ==
    IF iface \notin DOMAIN Aliases THEN <<<<<<iface, args>>>>, <<>>>>
    ELSE IF iface \in expanding \/ Len(Aliases[iface].generics) # Len(args) THEN NoBounds
    ELSE ViewOf(Aliases[iface].terms, ArgsFor(Aliases[iface].generics, args),
                expanding \cup {iface})

Composed(b, op, v) ==
    CASE op = "add" -> <<Including(b[1], v[1]), Including(b[2], v[2])>>
      [] op = "sub" -> <<Without(b[1], v[1]), Without(b[2], v[2])>>
      [] op = "not" -> <<b[1], Including(b[2], v[1])>>

ViewOf(terms, s, expanding) ==
    InTurn(LAMBDA b, term :
        Composed(b, term.op, InterfaceView(term.iface, Each(LAMBDA t : SubstituteTy(t, s), term.args),
                                           expanding)),
        NoBounds, terms)

ConstraintBounds(g, s) == ViewOf(g.terms, s, {})

\* The bounds a template keeps are lowered once, with its own parameters.
OwnBounds(g) == ConstraintBounds(g, <<>>)

(***************************************************************************)
(* Lookup: a ground impl is found by its exact, fully applied term.        *)
(***************************************************************************)
Term(iface, args, recv) == [iface |-> iface, args |-> <<recv>> \o args]

HeadTerm(tpl) == Term(tpl.iface, Tail(tpl.args), tpl.args[1])

FindImpl(impls, term) == \E i \in DOMAIN impls : impls[i] = term

GenericNames(tpl) == {g.name : g \in ToSet(tpl.generics)}

\* Matching of the head of a template; every parameter has to become ground.
Fixed(tpl, m) ==
    IF m.ok /\ \A x \in GenericNames(tpl) : ~ContainsGeneric(m.s[x]) THEN m ELSE NoMatch

HeadMatch(tpl, args) ==
    IF Len(tpl.args) # Len(args) THEN NoMatch
    ELSE Fixed(tpl, UnifyAll(tpl.args, args, InitialSubst(GenericNames(tpl))))

MatchesWithoutConstraints(templates, term) ==
    \E tpl \in ToSet(templates) :
        /\ tpl.iface = term.iface
        /\ \A g \in ToSet(tpl.generics) : g.terms = <<>>
        /\ HeadMatch(tpl, term.args).ok

(***************************************************************************)
(* Overlap of two marker impls, by the shape of their heads alone.         *)
(***************************************************************************)
Structural == {"ptr", "array", "slice", "named", "dyn", "fn", "closure", "inst"}

RECURSIVE MarkerTyPatternsOverlap(_, _)
MarkerTyPatternsOverlap(l, r) ==
    \/ Kind(l) = "gen" \/ Kind(r) = "gen"
    \/ IF Kind(l) \in Structural /\ SameShape(l, r)
       THEN \A i \in DOMAIN Args(l) : MarkerTyPatternsOverlap(Args(l)[i], Args(r)[i])
       ELSE l = r

MarkerImplPatternsOverlap(l, r) ==
    /\ Len(l) = Len(r)
    /\ \A i \in DOMAIN l : MarkerTyPatternsOverlap(l[i], r[i])

\* The domains of the compiler-provided markers: plain function values and
\* closure instances.
DomainOf(has) ==
    CASE "ciel_fn_value_marker" \in has /\ "closure_value_marker" \notin has -> "fn"
      [] "closure_value_marker" \in has /\ "ciel_fn_value_marker" \notin has -> "closure"
      [] OTHER -> "none"

CompilerDomain(tpl) ==
    IF Kind(tpl.args[1]) # "gen" THEN "none"
    ELSE DomainOf(UNION {{ref[1] : ref \in ToSet(OwnBounds(g)[1])} :
                         g \in {h \in ToSet(tpl.generics) : h.name = Con(tpl.args[1])}})

InCompilerDomain(t, domain) ==
    \/ Kind(t) = "gen"
    \/ domain = "fn" /\ Kind(t) = "fn" /\ ~Con(t)[1]
    \/ domain = "closure" /\ Kind(t) = "inst"

MarkerImplDomainsDisjoint(l, lrecv, r, rrecv) ==
    \/ l # "none" /\ r # "none" /\ l # r
    \/ l # "none" /\ ~InCompilerDomain(rrecv, l)
    \/ r # "none" /\ ~InCompilerDomain(lrecv, r)

(***************************************************************************)
(* Coherence: two-sided unification of the determinants of two impls, with *)
(* the generics of each side kept apart.                                   *)
(***************************************************************************)
\* A slip: the generics of the two sides share their names.
CoherenceScopeShared(t, prefix) == t

CoherenceScope(t, prefix) ==
    SubstituteTy(t, [x \in TyGenericNames(t) |-> Generic(prefix \o x)])

RECURSIVE CoherenceNormalize(_, _, _)
CoherenceNormalize(t, s, visiting) ==
    IF Kind(t) = "gen"
    THEN IF Con(t) \in DOMAIN s /\ Con(t) \notin visiting
         THEN CoherenceNormalize(s[Con(t)], s, visiting \cup {Con(t)})
         ELSE t
    ELSE LET Child(c) == CoherenceNormalize(c, s, visiting)
         IN  Rebuild(t, Each(Child, Args(t)), EachBound(Child, Bounds(t)))

CoherenceBindGeneric(x, ty, s) ==
    LET t == CoherenceNormalize(ty, s, {})
    IN  IF t = Generic(x) THEN Match(s)
        ELSE IF x \in TyGenericNames(t) THEN NoMatch
        ELSE Match(Bind(s, x, t))

RefHeads(b) == Each(LAMBDA refs : Each(LAMBDA r : <<r[1], Len(r[2])>>, refs), b)

CoherentShape(l, r) ==
    /\ Kind(l) = Kind(r) /\ Kind(l) \in Structural \cup {"future", "ret"}
    /\ IF Kind(l) = "future" THEN Con(l)[1] = Con(r)[1] ELSE Con(l) = Con(r)
    /\ Len(Args(l)) = Len(Args(r))
    /\ RefHeads(Bounds(l)) = RefHeads(Bounds(r))

RECURSIVE CoherenceUnify(_, _, _), CoherenceAll(_, _, _)

CoherenceAll(ls, rs, s) ==
    IF ls = <<>> THEN Match(s)
    ELSE AndThen(CoherenceUnify(ls[1], rs[1], s), LAMBDA q : CoherenceAll(Tail(ls), Tail(rs), q))

CoherenceForms(l, r, s) ==
    CASE Kind(l) = "gen" -> CoherenceBindGeneric(Con(l), r, s)
      [] Kind(l) # "gen" /\ Kind(r) = "gen" -> CoherenceBindGeneric(Con(r), l, s)
      [] OTHER ->
            IF CoherentShape(l, r)
            THEN CoherenceAll(Args(l) \o BoundArgs(Bounds(l)), Args(r) \o BoundArgs(Bounds(r)), s)
            ELSE IF l = r THEN Match(s) ELSE NoMatch

CoherenceUnify(left, right, s) ==
    CoherenceForms(CoherenceNormalize(left, s, {}), CoherenceNormalize(right, s, {}), s)

\* "apart" when the determinants cannot meet, else whether the determined
\* parameters are the same wherever they do.
Determined(m, l, r, determined) ==
    CASE ~m.ok -> "apart"
      [] m.ok /\ \A i \in determined + 1 .. Len(l) :
            CoherenceNormalize(l[i], m.s, {}) = CoherenceNormalize(r[i], m.s, {}) -> "same"
      [] OTHER -> "conflict"

OverlappingScoped(l, r, determined) ==
    Determined(CoherenceAll(SubSeq(l, 1, determined), SubSeq(r, 1, determined), <<>>),
               l, r, determined)

OverlappingDetermined(left, right, determined) ==
    OverlappingScoped(Each(LAMBDA t : CoherenceScope(t, "left:"), left),
                      Each(LAMBDA t : CoherenceScope(t, "right:"), right), determined)

\* One pass over the constraints: a constraint on a known parameter whose
\* determinants are known makes its determined names known.
FixedBy(known, generics, own) ==
    known \cup UNION {UNION {
        IF /\ Interfaces[ref[1]].determined > 0
           /\ Len(ref[2]) + 1 = Arity(ref[1])
           /\ \A i \in 1 .. Interfaces[ref[1]].determined - 1 :
                TyGenericNames(ref[2][i]) \subseteq known
        THEN own \cap UNION {TyGenericNames(ref[2][i]) :
                i \in Interfaces[ref[1]].determined .. Len(ref[2])}
        ELSE {} : ref \in ToSet(OwnBounds(g)[1])} : g \in {h \in ToSet(generics) : h.name \in known}}

RECURSIVE FixedClosure(_, _, _)
FixedClosure(known, generics, own) ==
    LET next == FixedBy(known, generics, own)
    IN  IF next = known THEN known ELSE FixedClosure(next, generics, own)

HasUnfixedDetermined(tpl, determined) ==
    LET own == GenericNames(tpl)
        Names(a, b) == own \cap UNION {TyGenericNames(tpl.args[i]) : i \in a .. b}
    IN  ~(Names(determined + 1, Len(tpl.args))
            \subseteq FixedClosure(Names(1, determined), tpl.generics, own))

\* Hidden parameters of a declaration that its explicit ones do not determine.
UnderivableHidden(generics) ==
    LET hidden == {g.name : g \in {h \in ToSet(generics) : h.hidden}}
        explicit == {g.name : g \in ToSet(generics)} \ hidden
    IN  hidden \ FixedClosure(explicit, generics, hidden)

\* The diagnostics of the whole-program coherence check, as pairs of indices
\* of conflicting impls and as templates that leave a determined name open.
CoherenceErrors(impls, templates) ==
    LET all == impls \o Each(HeadTerm, templates)
        D(i) == Interfaces[all[i].iface].determined
    IN  {<<i, j>> \in (DOMAIN all) \X (DOMAIN all) :
            /\ i < j /\ D(i) > 0
            /\ all[i].iface = all[j].iface /\ Len(all[i].args) = Len(all[j].args)
            /\ OverlappingDetermined(all[i].args, all[j].args, D(i)) = "conflict"}
        \cup {<<i, i>> : i \in {i \in DOMAIN all :
            /\ i > Len(impls) /\ D(i) > 0
            /\ HasUnfixedDetermined(templates[i - Len(impls)], D(i))}}

(***************************************************************************)
(* The solver of hidden parameters works on the table as it stands; a goal *)
(* that meets itself fails.                                                *)
(***************************************************************************)
RECURSIVE CapabilitySatisfied(_, _, _), ConstraintsSatisfied(_, _, _, _)

\* tab is [impls, templates].
MatchSatisfied(tab, tpl, m, stack) == m.ok /\ ConstraintsSatisfied(tab, tpl, m.s, stack)

CapabilitySatisfied(tab, term, stack) ==
    /\ term \notin stack
    /\ \/ FindImpl(tab.impls, term)
       \/ \E tpl \in ToSet(tab.templates) :
            /\ tpl.iface = term.iface
            /\ MatchSatisfied(tab, tpl, HeadMatch(tpl, term.args), stack \cup {term})

ConstraintsSatisfied(tab, tpl, s, stack) ==
    \A g \in ToSet(tpl.generics) :
        LET b == SubstituteBounds(OwnBounds(g), s)
            Holds(ref) == CapabilitySatisfied(tab, Term(ref[1], ref[2], s[g.name]), stack)
        IN  /\ g.resource => AffineReadonly(s[g.name])
            /\ \A ref \in ToSet(b[1]) : Holds(ref)
            /\ \A ref \in ToSet(b[2]) : ~Holds(ref)

RECURSIVE BindHidden(_, _, _, _), BindHiddenAll(_, _, _, _)

BindHiddenAll(required, candidate, hidden, s) ==
    IF required = <<>> THEN Match(s)
    ELSE AndThen(BindHidden(required[1], candidate[1], hidden, s),
                 LAMBDA q : BindHiddenAll(Tail(required), Tail(candidate), hidden, q))

BindHidden(required, candidate, hidden, s) ==
    CASE Kind(required) = "gen" /\ Con(required) \in hidden ->
            IF Con(required) \notin DOMAIN s THEN Match(Bind(s, Con(required), candidate))
            ELSE IF s[Con(required)] = candidate THEN Match(s) ELSE NoMatch
      [] Kind(required) \in Structural \ {"inst"} ->
            IF SameShape(required, candidate) /\ Bounds(required) = Bounds(candidate)
            THEN BindHiddenAll(Args(required), Args(candidate), hidden, s) ELSE NoMatch
      [] OTHER -> IF required = candidate THEN Match(s) ELSE NoMatch

DeterminantsMatch(required, candidate, determined) ==
    /\ Len(required) = Len(candidate)
    /\ \A i \in 1 .. determined : required[i] = candidate[i]

HiddenSolution(required, candidate, determined, hidden) ==
    BindHiddenAll(SubSeq(required, determined + 1, Len(required)),
                  SubSeq(candidate, determined + 1, Len(candidate)), hidden, <<>>)

\* The distinct solutions for the hidden names of a constraint; exactly one
\* is a solution, none or several is not.
Determinants(tpl, term, d) ==
    Fixed(tpl, UnifyAll(SubSeq(tpl.args, 1, d), SubSeq(term.args, 1, d),
                        InitialSubst(GenericNames(tpl))))

\* The arguments of the instance of a template, if its constraints hold.
Candidate(tab, tpl, m) ==
    IF m.ok /\ ConstraintsSatisfied(tab, tpl, m.s, {})
    THEN {Each(LAMBDA t : SubstituteTy(t, m.s), tpl.args)} ELSE {}

Candidates(tab, term, assumptions, d) ==
    {c.args : c \in {c \in ToSet(assumptions \o tab.impls) :
                        c.iface = term.iface /\ DeterminantsMatch(term.args, c.args, d)}}
    \cup UNION {Candidate(tab, tpl, Determinants(tpl, term, d)) :
        tpl \in {t \in ToSet(tab.templates) :
                    t.iface = term.iface /\ Len(t.args) = Len(term.args)}}

SolveHidden(tab, term, hidden, assumptions) ==
    LET d == Interfaces[term.iface].determined
    IN  IF d = 0 \/ Len(term.args) # Arity(term.iface) THEN {}
        ELSE {m.s : m \in {n \in {HiddenSolution(term.args, c, d, hidden) :
                                 c \in Candidates(tab, term, assumptions, d)} : n.ok}}
=============================================================================
