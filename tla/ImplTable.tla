------------------------------ MODULE ImplTable ------------------------------
(***************************************************************************)
(* The table of impls that the type checker fills from the declarations of *)
(* a program (typeck/functions.rs), and the queries on it, which add       *)
(* instances of generic impls and cache their answers                      *)
(* (typeck/expr/utilities.rs).                                             *)
(*                                                                         *)
(* k is the part of the checker that changes: impls (ground), templates    *)
(* (generic), derivables, the derives still to be validated (tplChecks,    *)
(* genericDerives, negChecks), bodies still to be checked, the cache of    *)
(* answers, the number of diagnostics and whether a coherence error makes  *)
(* the checker stop before the bodies.  A body is the sequence of its      *)
(* calls; checked are the bodies done, with what their calls resolved to   *)
(* and the types they use.                                                 *)
(*                                                                         *)
(* c is the context of a query: the resource parameters in scope, the      *)
(* environments of constraints (innermost last) and the two stacks of open *)
(* goals; symbolic says whether unknown types may be reasoned about.       *)
(***************************************************************************)
EXTENDS Infer

NoTable ==
    [impls |-> <<>>, templates |-> <<>>, derivables |-> <<>>, tplChecks |-> <<>>,
     genericDerives |-> <<>>, negChecks |-> <<>>, bodies |-> <<>>, checked |-> <<>>,
     cache |-> <<>>, diags |-> 0, fatal |-> FALSE]

TopLevel == [resources |-> {}, env |-> <<>>, symbolic |-> FALSE, stack |-> {}, symStack |-> {}]

Answer(k, yes) == [k |-> k, yes |-> yes]

Diag(k) == [k EXCEPT !.diags = @ + 1]

Truncate(k, to) == [k EXCEPT !.diags = to.diags]

Bump(k) == [k EXCEPT !.cache = <<>>]

SubstTerm(term, s) ==
    Term(term.iface, Each(LAMBDA t : SubstituteTy(t, s), Tail(term.args)),
         SubstituteTy(term.args[1], s))

Goals(recv, refs) == Each(LAMBDA ref : Term(ref[1], ref[2], recv), refs)

\* The positive goals come first; with each goal the answer it wants.
Wanted(recv, b) ==
    Each(LAMBDA goal : <<goal, TRUE>>, Goals(recv, b[1]))
        \o Each(LAMBDA goal : <<goal, FALSE>>, Goals(recv, b[2]))

(***************************************************************************)
(* Answers that need no table.                                             *)
(***************************************************************************)
MessageInterfaces == {"clone_message", "share_handle", "thread_local"}

CompilerProvided == {"ciel_fn_value_marker", "closure_value_marker", "erased_error_ref"}

Recv(term) == term.args[1]

\* The affine types are never messages, whatever impls there are.
Barred(term, c) ==
    /\ term.iface \in MessageInterfaces /\ Len(term.args) = 1
    /\ TypeIsAffine(Recv(term), c.resources)

ImplementsCompilerProvided(term) ==
    /\ Len(term.args) = 1
    /\ \/ term.iface = "erased_error_ref" /\ Recv(term) # Prim("unknown") /\ Kind(Recv(term)) # "hole"
       \/ term.iface = "ciel_fn_value_marker" /\ Kind(Recv(term)) = "fn" /\ ~Con(Recv(term))[1]
       \/ term.iface = "closure_value_marker" /\ Kind(Recv(term)) = "inst"

\* Generated futures are cancel safe and abortable in this model.
FutureImplements(term) ==
    \/ term.iface = "awaitable" /\ Tail(term.args) = <<Args(Recv(term))[1]>>
    \/ term.iface \in {"cancel_safe", "abort_future"} /\ Len(term.args) = 1

BoundsSay(refs, term) == <<term.iface, Tail(term.args)>> \in ToSet(refs)

\* The innermost constraint that mentions the capability decides.
RECURSIVE EnvProves(_, _)
EnvProves(env, term) ==
    /\ Kind(Recv(term)) = "gen" /\ env # <<>>
    /\ LET mine == {g \in ToSet(Last(env)) : g.name = Con(Recv(term))}
           says(i) == \E g \in mine : BoundsSay(OwnBounds(g)[i], term)
       IN  says(1) \/ (~says(2) /\ EnvProves(Front(env), term))

(***************************************************************************)
(* Symbolic proofs: goals with generic parameters, from the constraints in *)
(* scope and the heads of all templates, those of pending derives too.     *)
(***************************************************************************)
Pending(k) == Each(LAMBDA d : d.template, k.genericDerives)

VisibleTemplates(k) == k.templates \o Pending(k)

Scoped(tpl, prefix) == [x \in GenericNames(tpl) |-> Generic(prefix \o x)]

RECURSIVE SymbolicallyProves(_, _, _)

SymbolicBounds(k, c, g, t, b) ==
    LET Holds(ref) == SymbolicallyProves(k, c, Term(ref[1], ref[2], t))
    IN  /\ g.resource => TypeIsAffine(t, c.resources)
        /\ \A i \in 1 .. 2 : \A ref \in ToSet(b[i]) : Holds(ref) = (i = 1)

SymbolicMatch(k, c, tpl, scoped, m) ==
    LET names == {Con(scoped[x]) : x \in DOMAIN scoped}
    IN  /\ m.ok /\ \A x \in names : ~ContainsAnyGenericName(m.s[x], names)
        /\ \A g \in ToSet(tpl.generics) :
            SymbolicBounds(k, c, g, m.s[Con(scoped[g.name])],
                           SubstituteBounds(SubstituteBounds(OwnBounds(g), scoped), m.s))

SymbolicTemplate(k, c, tpl, term, scoped) ==
    SymbolicMatch(k, c, tpl, scoped,
                  UnifyAll(Each(LAMBDA t : SubstituteTy(t, scoped), tpl.args), term.args,
                           InitialSubst({Con(scoped[x]) : x \in DOMAIN scoped})))

SymbolicallyProves(k, c, term) ==
    /\ term \notin c.symStack
    /\ ~Barred(term, c)
    /\ \/ EnvProves(c.env, term)
       \/ ImplementsCompilerProvided(term)
       \/ IF Kind(Recv(term)) = "future" THEN FutureImplements(term)
          ELSE \/ RetainedClosureProves(Recv(term), term.iface, Tail(term.args))
               \/ FindImpl(k.impls, term)
               \/ \E tpl \in ToSet(VisibleTemplates(k)) :
                    /\ tpl.iface = term.iface /\ Len(tpl.args) = Len(term.args)
                    /\ SymbolicTemplate(k, [c EXCEPT !.symStack = @ \cup {term}], tpl, term,
                                        Scoped(tpl, "impl:"))

(***************************************************************************)
(* Queries.  A goal that meets itself on the stack fails; an answer is     *)
(* cached, for goals without unknown types, unless it came with            *)
(* diagnostics.                                                            *)
(***************************************************************************)
RECURSIVE Implements(_, _, _)

\* check_generic_constraints: one diagnostic for each constraint that fails.
Judged(a, wanted) == IF a.yes = wanted THEN a.k ELSE Diag(a.k)

RequireBounds(k, c, t, b) ==
    InTurn(LAMBDA j, w : Judged(Implements(j, c, w[1]), w[2]), k, Wanted(t, b))

RequireResource(k, c, g, t) == IF g.resource /\ ~TypeIsAffine(t, c.resources) THEN Diag(k) ELSE k

CheckGenericConstraints(k, c, generics, s) ==
    InTurn(LAMBDA j, g :
        RequireBounds(RequireResource(j, c, g, s[g.name]), c, s[g.name], ConstraintBounds(g, s)),
        k, SelectSeq(generics, LAMBDA g : g.name \in DOMAIN s))

\* impl_term_ty_equivalent: selection is over the exact term, while inference
\* may weaken views.
TermEquivalent(l, r) ==
    \/ SameIgnoringOpaqueState(l, r)
    \/ FutureAcceptsGenerated(l, r) \/ FutureAcceptsGenerated(r, l)

SubstBody(calls, s) ==
    Each(LAMBDA call : [call EXCEPT !.types = Each(LAMBDA t : SubstituteTy(t, s), @),
                                    !.args = Each(LAMBDA t : SubstituteTy(t, s), @),
                                    !.want = Each(LAMBDA t : SubstituteTy(t, s), @)], calls)

InstanceOf(tpl, s) ==
    [term |-> SubstTerm(HeadTerm(tpl), s), body |-> SubstBody(tpl.body, s)]

\* acc is [k, found]; a template whose constraints fail leaves no diagnostics.
UsableIf(k, acc, instance, term) ==
    IF /\ k.diags = acc.k.diags
       /\ \A n \in DOMAIN term.args : TermEquivalent(instance.term.args[n], term.args[n])
    THEN [k |-> k, found |-> Append(acc.found, instance)]
    ELSE [acc EXCEPT !.k = Truncate(k, acc.k)]

TryMatch(c, acc, tpl, term, m) ==
    IF ~Fixed(tpl, m).ok THEN acc
    ELSE UsableIf(CheckGenericConstraints(acc.k, c, tpl.generics, m.s), acc, InstanceOf(tpl, m.s), term)

TryTemplate(c, acc, tpl, term) ==
    IF tpl.iface # term.iface \/ Len(tpl.args) # Len(term.args) THEN acc
    ELSE TryMatch(c, acc, tpl, term,
                  InferAll(Append(tpl.args, tpl.args[1]), Append(term.args, term.args[1]),
                           InitialSubst(GenericNames(tpl))))

\* Registering an instance adds its body to the bodies to check; the cache of
\* answers stays as it is.
Register(k, term, body) ==
    IF FindImpl(k.impls, term) THEN k
    ELSE [k EXCEPT !.impls = Append(@, term),
                   !.bodies = Append(@, [owner |-> <<"impl", term>>, calls |-> body])]

Select(acc) ==
    CASE acc.found = <<>> -> Answer(acc.k, FALSE)
      [] Len(acc.found) = 1 -> Answer(Register(acc.k, acc.found[1].term, acc.found[1].body), TRUE)
      [] OTHER -> Answer(Diag(acc.k), FALSE)

InstantiateGenericImpl(k, c, term) ==
    Select(InTurn(LAMBDA acc, tpl : TryTemplate(c, acc, tpl, term),
                    [k |-> k, found |-> <<>>], k.templates))

OrAnswer(a, yes) == [a EXCEPT !.yes = @ \/ yes]

OrSymbolic(a, c, term) == OrAnswer(a, c.symbolic /\ SymbolicallyProves(a.k, c, term))

FindOrInstantiateStripped(k, c, t) ==
    CASE Kind(Recv(t)) = "ret" /\ ~BoundsSay(Bounds(Recv(t))[1], t) -> Answer(k, FALSE)
      [] FindImpl(k.impls, t) -> Answer(k, TRUE)
      [] OTHER -> OrSymbolic(InstantiateGenericImpl(k, c, t), c, t)

FindOrInstantiate(k, c, term) ==
    FindOrInstantiateStripped(k, c, [term EXCEPT !.args = Each(StripOpaque, @)])

AllImplement(k, c, goals) ==
    InTurn(LAMBDA a, goal : IF a.yes THEN Implements(a.k, c, goal) ELSE a, Answer(k, TRUE), goals)

FromTable(k, c, term) ==
    CASE c.symbolic /\ SymbolicallyProves(k, c, term) -> Answer(k, TRUE)
      [] ImplementsCompilerProvided(term) -> Answer(k, TRUE)
      [] Kind(Recv(term)) = "future" -> Answer(k, FutureImplements(term))
      [] RetainedClosureProves(Recv(term), term.iface, Tail(term.args)) -> Answer(k, TRUE)
      [] OTHER ->
            OrAnswer(FindOrInstantiate(k, c, term),
                     /\ term.iface \in {"cancel_safe", "abort_future"}
                     /\ MatchesWithoutConstraints(k.templates, term))

\* type_implements_capability_inner: a closure is a message if what it
\* captured is, besides the impls for closures.
Stripped(term) == [term EXCEPT !.args[1] = StripOpaque(@)]

AfterCaptures(a, c, term) == IF a.yes THEN FromTable(a.k, c, term) ELSE a

CapturesImplement(k, c, term) ==
    IF Len(term.args) = 1 /\ Kind(Recv(term)) = "inst"
    THEN AllImplement(k, c, Each(LAMBDA t : [term EXCEPT !.args[1] = t], Captures(Recv(term))))
    ELSE Answer(k, TRUE)

ImplementsInner(k, c, term) ==
    LET message == term.iface \in MessageInterfaces
    IN  IF Barred(term, c) THEN Answer(k, FALSE)
        ELSE AfterCaptures(IF message THEN CapturesImplement(k, c, term) ELSE Answer(k, TRUE), c,
                           IF message THEN term ELSE Stripped(term))

Uncached(k, c, term) ==
    CASE Kind(Recv(term)) = "ret" /\ BoundsSay(Bounds(Recv(term))[2], term) -> Answer(k, FALSE)
      [] Kind(Recv(term)) = "ret" /\ BoundsSay(Bounds(Recv(term))[1], term) -> Answer(k, TRUE)
      [] term \in c.stack -> Answer(k, FALSE)
      [] OTHER -> ImplementsInner(k, [c EXCEPT !.stack = @ \cup {term}], term)

Cacheable(c, term) ==
    ~c.symbolic /\ \A t \in ToSet(term.args) : ~ContainsGeneric(t) /\ ~ContainsTypeHole(t)

Remember(before, a, c, term) ==
    IF Cacheable(c, term) /\ a.k.diags = before.diags
    THEN [a EXCEPT !.k.cache = (term :> a.yes) @@ @] ELSE a

Implements(k, c, term) ==
    IF Cacheable(c, term) /\ term \in DOMAIN k.cache THEN Answer(k, k.cache[term])
    ELSE Remember(k, Uncached(k, c, term), c, term)

\* A value behind a dynamic view has the positive capabilities and none of
\* the negative ones; the first failure ends the queries.
Sought(a, wanted) == Answer(a.k, a.yes = wanted)

SatisfiesView(k, c, recv, view) ==
    InTurn(LAMBDA a, w : IF a.yes THEN Sought(Implements(a.k, c, w[1]), w[2]) ELSE a,
           Answer(k, TRUE), Wanted(recv, view))

View(dyn) == InterfaceView(Con(dyn), Args(dyn), {})

ViewIncludes(actual, dyn) == \A i \in 1 .. 2 : ToSet(View(dyn)[i]) \subseteq ToSet(View(actual)[i])

\* Whether a value can stand behind `dyn`; of a concrete one `view` is asked.
Satisfies(k, c, dyn, view, actual) ==
    IF Kind(actual) = "dyn" THEN Answer(k, ViewIncludes(actual, dyn))
    ELSE SatisfiesView(k, c, ReceiverFromValue(actual), view)
=============================================================================
