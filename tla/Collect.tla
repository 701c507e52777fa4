------------------------------- MODULE Collect -------------------------------
(***************************************************************************)
(* From the declarations of a program to its table of impls                *)
(* (typeck/functions.rs): impls and derivable impls in source order, then  *)
(* derives, then the derives whose validity depends on other derives.      *)
(*                                                                         *)
(* A declaration is a record with kind                                     *)
(*   "impl", "derivable": name, types (explicit arguments), params,        *)
(*      generics, unsafe, body (its calls); a derivable impl may ask for   *)
(*      an unsafe derive (asks);                                           *)
(*   "derive": name (interface or alias), recv, generics, unsafe.          *)
(***************************************************************************)
EXTENDS Coerce

CONSTANT Functions   \* function -> [generics, params, ret, body]

(***************************************************************************)
(* The signature of an impl gives the arguments of its interface.          *)
(***************************************************************************)
Scope(generics) ==
    [TopLevel EXCEPT !.resources = {g.name : g \in {h \in ToSet(generics) : h.resource}},
                     !.env = <<generics>>]

Placeholder(g) == Generic("interface:" \o g)

\* A parameter that does not match leaves its placeholders open or shows as
\* a mismatch of the parameter.
MatchParams(expected, params, s) ==
    InTurnDomain(LAMBDA r, i :
        LET m == UnifyTy(expected[i], params[i], r) IN IF m.ok THEN m.s ELSE r, s, params)

Analyzed(i, d, own, expected, s) ==
    LET names == {Con(own[g]) : g \in DOMAIN own}
        found == Each(LAMBDA t : SubstituteTy(t, s), expected)
        open == \E t \in ToSet(Append(found, SubstituteTy(SubstituteTy(i.ret, own), s))) :
                    ContainsAnyGenericName(t, names)
    IN  [ok |-> ~open, args |-> Each(LAMBDA g : s[Con(own[g])], i.generics),
         mismatches |-> Cardinality({j \in DOMAIN found : found[j] # d.params[j]})]

\* Explicit arguments follow the receiver.
AnalyzeAgainst(i, d, own) ==
    LET explicit == ArgsFor(Each(LAMBDA g : Con(own[g]), SubSeq(i.generics, 2, Len(d.types) + 1)),
                            d.types)
        expected == Each(LAMBDA t : SubstituteTy(t, own), i.params)
        start == explicit @@ InitialSubst({Con(own[g]) : g \in DOMAIN own})
    IN  With(MatchParams(expected, d.params, start), LAMBDA s : Analyzed(i, d, own, expected, s))

AnalyzeImplSignature(d) ==
    LET i == Interfaces[d.name]
    IN  IF Len(d.params) # Len(i.params) \/ Len(d.types) >= Len(i.generics)
        THEN [ok |-> FALSE, args |-> <<>>, mismatches |-> 0]
        ELSE AnalyzeAgainst(i, d, ArgsFor(i.generics, Each(Placeholder, i.generics)))

Template(d, args) ==
    [iface |-> d.name, args |-> args, generics |-> d.generics, body |-> d.body]

(***************************************************************************)
(* Overlap of marker impls, decided on the table as it is at this point.   *)
(***************************************************************************)
Quiet(a, before) == [a EXCEPT !.k = Truncate(@, before)]

CandidateSatisfies(k, c, candidate, ref) ==
    IF Kind(candidate) = "gen" THEN Answer(k, TRUE)
    ELSE Quiet(Implements(k, c, Term(ref[1], ref[2], candidate)), k)

\* Stops at the first capability that the candidate lacks.
ConstraintsReject(k, c, tpl, candidate) ==
    LET mine == SelectSeq(tpl.generics, LAMBDA g : tpl.args[1] = Generic(g.name))
    IN  IF mine = <<>> THEN Answer(k, FALSE)
        ELSE IF mine[1].resource /\ ~TypeIsAffine(candidate, c.resources) THEN Answer(k, TRUE)
        ELSE InTurn(LAMBDA a, ref :
                IF a.yes THEN a ELSE Sought(CandidateSatisfies(a.k, c, candidate, ref), FALSE),
                Answer(k, FALSE), OwnBounds(mine[1])[1])

ConstraintsDisjoint(k, c, l, r) ==
    InTurn(LAMBDA a, p : IF a.yes THEN a ELSE ConstraintsReject(a.k, c, p[1], p[2].args[1]),
             Answer(k, FALSE), <<<<l, r>>, <<r, l>>>>)

HeadsOverlap(l, r) ==
    /\ ~MarkerImplDomainsDisjoint(CompilerDomain(l), l.args[1], CompilerDomain(r), r.args[1])
    /\ MarkerImplPatternsOverlap(l.args, r.args)

UnlessDisjoint(a, l, r) == Answer(a.k, ~a.yes /\ HeadsOverlap(l, r))

Concrete(impls) == Each(LAMBDA t : t @@ [generics |-> <<>>, body |-> <<>>], impls)

MarkerImplOverlaps(k, c, tpl) ==
    LET others == SelectSeq(VisibleTemplates(k)
                                \o (IF tpl.generics = <<>> THEN <<>> ELSE Concrete(k.impls)),
                            LAMBDA o : o.iface = tpl.iface)
    IN  IF ~Interfaces[tpl.iface].marker THEN Answer(k, FALSE)
        ELSE InTurn(LAMBDA a, o :
                IF a.yes THEN a
                ELSE UnlessDisjoint(ConstraintsDisjoint(a.k, c, o, tpl), o, tpl),
                Answer(k, FALSE), others)

\* Messages are copied, so no resource may be one.
ForbiddenMessageImpl(c, tpl) ==
    tpl.iface \in {"clone_message", "share_handle"} /\ TypeIsAffine(tpl.args[1], c.resources)

(***************************************************************************)
(* Impls and derivable impls.                                              *)
(***************************************************************************)
AddImpl(k, tpl) ==
    CASE tpl.generics # <<>> -> [Bump(k) EXCEPT !.templates = Append(@, tpl)]
      [] tpl.generics = <<>> /\ FindImpl(k.impls, HeadTerm(tpl)) -> Diag(k)
      [] OTHER -> Register(Bump(k), HeadTerm(tpl), tpl.body)

AddUnlessOverlapping(a, tpl) ==
    IF a.yes THEN Diag([a.k EXCEPT !.fatal = TRUE]) ELSE AddImpl(a.k, tpl)

AddDerivable(k, tpl, asks) ==
    LET open == \E t \in ToSet(Tail(tpl.args)) : ContainsAnyGenericName(t, GenericNames(tpl))
        taken == \E o \in ToSet(k.derivables) : o.iface = tpl.iface /\ Tail(o.args) = Tail(tpl.args)
    IN  IF open \/ taken THEN Diag(k)
        ELSE [k EXCEPT !.derivables = Append(@, tpl @@ [asks |-> asks])]

AddAnalyzed(k, d, a) ==
    LET tpl == Template(d, a.args)
        j == [k EXCEPT !.diags = @ + a.mismatches]
    IN  CASE ~a.ok -> Diag(k)
          [] a.ok /\ ForbiddenMessageImpl(TopLevel, tpl) -> Diag(j)
          [] OTHER -> IF d.kind = "derivable" THEN AddDerivable(j, tpl, d.asks)
                      ELSE AddUnlessOverlapping(MarkerImplOverlaps(j, TopLevel, tpl), tpl)

\* One diagnostic for each hidden parameter that nothing determines.
ValidateGenericBindings(k, generics) ==
    [k EXCEPT !.diags = @ + Cardinality(UnderivableHidden(generics))]

CollectImpl(k, d) ==
    IF Interfaces[d.name].unsafe # d.unsafe \/ d.name \in CompilerProvided THEN Diag(k)
    ELSE AddAnalyzed(ValidateGenericBindings(k, d.generics), d, AnalyzeImplSignature(d))

(***************************************************************************)
(* Derives.                                                                *)
(***************************************************************************)
\* An erased error inside a type keeps it from being a message.
RECURSIVE MessageDerivationBlocked(_, _)
MessageDerivationBlocked(t, visiting) ==
    CASE t = Named("Error", <<>>) -> TRUE
      [] Kind(t) \in {"array", "opaque"} ->
            \E u \in ToSet(Args(t)) : MessageDerivationBlocked(u, visiting)
      [] Kind(t) = "named" /\ t # Named("Error", <<>>) ->
            t \notin visiting /\ \E u \in ToSet(FlattenSeq(Variants(t))) :
                MessageDerivationBlocked(u, visiting \cup {t})
      [] OTHER -> FALSE

DerivableMatch(scoped, m) ==
    LET names == {Con(scoped[x]) : x \in DOMAIN scoped}
    IN  IF m.ok /\ \A x \in names : ~ContainsAnyGenericName(SubstituteTy(m.s[x], m.s), names)
        THEN Match([x \in DOMAIN scoped |-> SubstituteTy(m.s[Con(scoped[x])], m.s)])
        ELSE NoMatch

DerivableTemplateSubst(tpl, args) ==
    LET scoped == Scoped(tpl, "derivable:")
    IN  DerivableMatch(scoped,
            UnifyAll(Each(LAMBDA t : SubstituteTy(t, scoped), tpl.args), args,
                     InitialSubst({Con(scoped[x]) : x \in DOMAIN scoped})))

UninferableDeriveGenerics(tpl) ==
    {x \in GenericNames(tpl) : \A t \in ToSet(tpl.args) : ~ContainsAnyGenericName(t, {x})}

\* A concrete derive is registered at once and validated later; a generic one
\* stays pending.
AddDerived(a, tpl, derivable, s) ==
    LET check == [generics |-> tpl.generics, wanted |-> derivable.generics, s |-> s, template |-> tpl]
    IN  CASE a.yes -> Diag([a.k EXCEPT !.fatal = TRUE])
          [] ~a.yes /\ tpl.generics # <<>> -> [a.k EXCEPT !.genericDerives = Append(@, check)]
          [] OTHER -> IF FindImpl(a.k.impls, HeadTerm(tpl)) THEN a.k
                      ELSE [Register(Bump(a.k), HeadTerm(tpl), tpl.body)
                                EXCEPT !.tplChecks = Append(@, check)]

DeriveFrom(k, c, d, derivable, m) ==
    LET tpl == [iface |-> derivable.iface, generics |-> d.generics,
                args |-> Each(LAMBDA t : SubstituteTy(t, m.s), derivable.args),
                body |-> SubstBody(derivable.body, m.s)]
        bad == UninferableDeriveGenerics(tpl)
    IN  CASE ~m.ok -> Diag(k)
          [] m.ok /\ bad # {} -> [k EXCEPT !.diags = @ + Cardinality(bad)]
          [] m.ok /\ bad = {} /\ ForbiddenMessageImpl(c, tpl) -> Diag(k)
          [] OTHER -> AddDerived(MarkerImplOverlaps(k, c, tpl), tpl, derivable, m.s)

DerivePositiveCapability(k, c, d, ref) ==
    LET term == Term(ref[1], ref[2], d.recv)
        derivables == SelectSeq(k.derivables, LAMBDA o : o.iface = ref[1] /\ Tail(o.args) = ref[2])
    IN  CASE ref[1] = "clone_message" /\ MessageDerivationBlocked(d.recv, {}) -> Diag(k)
          [] ref[1] \in CompilerProvided \/ FindImpl(k.impls, term) \/ derivables = <<>> -> Diag(k)
          [] OTHER -> IF derivables[1].asks /\ ~d.unsafe THEN Diag(k)
                      ELSE DeriveFrom(k, c, d, derivables[1],
                                      DerivableTemplateSubst(derivables[1], term.args))

\* The target is an interface of one parameter, or an alias without any.
CollectDerive(k, d) ==
    LET view == InterfaceView(d.name, <<>>, {})
        NegCheck(ref) == [generics |-> d.generics, recv |-> d.recv, ref |-> ref]
        target == IF d.name \in DOMAIN Aliases THEN Aliases[d.name].generics = <<>>
                  ELSE Arity(d.name) = 1
    IN  IF ~target THEN Diag(k)
        ELSE InTurn(LAMBDA j, ref : DerivePositiveCapability(j, Scope(d.generics), d, ref),
                    [ValidateGenericBindings(k, d.generics)
                            EXCEPT !.negChecks = @ \o Each(NegCheck, view[2])], view[1])

(***************************************************************************)
(* Validation of derives.  Concrete derives: the impls in question leave   *)
(* the table and come back one by one, as their own constraints are met by *)
(* what is there; what is left when a round adds none is reported.         *)
(***************************************************************************)
ValidateConstraints(k, check) ==
    CheckGenericConstraints(k, [Scope(check.generics) EXCEPT !.symbolic = TRUE],
                            check.wanted, check.s)

Restore(k, term) ==
    IF FindImpl(k.impls, term) THEN k ELSE Bump([k EXCEPT !.impls = Append(@, term)])

\* acc is [k, left]; left keeps the failed checks with their diagnostics.
LeastStep(acc, check, k) ==
    IF k.diags = acc.k.diags
    THEN [acc EXCEPT !.k = Restore(k, HeadTerm(check.template))]
    ELSE [k |-> Truncate(k, acc.k),
          left |-> Append(acc.left, [check |-> check, diags |-> k.diags - acc.k.diags])]

LeastRound(k, checks) ==
    InTurn(LAMBDA acc, check : LeastStep(acc, check, ValidateConstraints(acc.k, check)),
             [k |-> k, left |-> <<>>], checks)

RECURSIVE DrainLeast(_, _)
LeastNext(r, before) ==
    IF Len(r.left) = before
    THEN InTurn(LAMBDA k, f : [Restore(k, HeadTerm(f.check.template)) EXCEPT !.diags = @ + f.diags],
                  r.k, r.left)
    ELSE DrainLeast(r.k, Each(LAMBDA f : f.check, r.left))

DrainLeast(k, checks) ==
    IF checks = <<>> THEN k ELSE LeastNext(LeastRound(k, checks), Len(checks))

\* A slip: the impls in question stay in the table while they are validated.
DrainTemplateChecksInPlace(k) ==
    IF k.tplChecks = <<>> THEN k
    ELSE DrainLeast(Bump([k EXCEPT !.tplChecks = <<>>]), k.tplChecks)

DrainTemplateChecks(k) ==
    LET terms == {HeadTerm(check.template) : check \in ToSet(k.tplChecks)}
    IN  IF k.tplChecks = <<>> THEN k
        ELSE DrainLeast(Bump([k EXCEPT !.impls = SelectSeq(@, LAMBDA t : t \notin terms),
                                       !.tplChecks = <<>>]), k.tplChecks)

OrImplements(a, c, term) == IF a.yes THEN a ELSE Implements(a.k, c, term)

\* The capabilities that the target of a derive excludes.
ForbiddenQuery(k, check) ==
    LET term == Term(check.ref[1], check.ref[2], check.recv)
    IN  OrImplements(IF check.generics = <<>> THEN Answer(k, FALSE)
                     ELSE MarkerImplOverlaps(k, Scope(check.generics),
                                             term @@ [generics |-> check.generics, body |-> <<>>]),
                     [Scope(check.generics) EXCEPT !.symbolic = TRUE], term)

DrainNegativeChecks(k) ==
    InTurn(LAMBDA j, check : Judged(ForbiddenQuery(j, check), FALSE),
             [k EXCEPT !.negChecks = <<>>], k.negChecks)

CollectImplSignatures(k, program) ==
    LET impls == SelectSeq(program, LAMBDA d : d.kind # "derive")
        derives == SelectSeq(program, LAMBDA d : d.kind = "derive")
        collected == InTurn(CollectDerive, InTurn(CollectImpl, k, impls), derives)
    IN  With(With(collected, DrainTemplateChecks), DrainNegativeChecks)

(***************************************************************************)
(* Calls, as the table sees them: what a call resolves to, or diagnostics. *)
(* A call is [kind, name, types, args, want]: explicit type arguments, the *)
(* types of the arguments and the expected result (one type or none).      *)
(***************************************************************************)
Resolved(k, targets) == [k |-> k, targets |-> targets, params |-> <<>>, args |-> <<>>]

\* A call resolved before its arguments are checked.
Awaiting(k, targets, params, args) ==
    [k |-> k, targets |-> targets, params |-> params, args |-> args]

Following(targets, r) == Resolved(r.k, targets \o r.targets)

ArgStep(call, params, from, s) ==
    InTurnDomain(LAMBDA r, i :
        IF i < from \/ i > Len(params) THEN r
        ELSE UnifyForInference(SubstituteTy(params[i], r), call.args[i], r).s, s, call.args)

WantStep(ret, call, s) ==
    IF call.want = <<>> THEN s ELSE UnifyForInference(SubstituteTy(ret, s), call.want[1], s).s

\* Determined parameters still open come from the impls of the determinants.
WithUnique(s, found) == IF Cardinality(found) = 1 THEN (CHOOSE m \in found : TRUE) @@ s ELSE s

InferDetermined(k, c, iface, s) ==
    LET i == Interfaces[iface]
        hidden == {g \in ToSet(SubSeq(i.generics, i.determined + 1, Len(i.generics))) :
                        s[g] = Generic(g)}
        full == Each(LAMBDA g : s[g], i.generics)
    IN  IF i.determined = 0 \/ hidden = {} THEN s
        ELSE WithUnique(s, SolveHidden(k, Term(iface, Tail(full), full[1]), hidden,
                                       HiddenSolverAssumptions(FlattenSeq(c.env), full[1])))

SelectImpl(k, c, term, a) ==
    CASE ~c.symbolic /\ \E t \in ToSet(term.args) : ContainsGeneric(t) -> Resolved(Diag(k), <<>>)
      [] RetainedClosureProves(Recv(term), term.iface, Tail(term.args)) -> Resolved(k, <<>>)
      [] OTHER -> IF a.yes THEN Resolved(a.k, <<<<"impl", term>>>>) ELSE Resolved(Diag(a.k), <<>>)

StaticCall(r, c, call, s) ==
    LET i == Interfaces[call.name]
        full == Each(LAMBDA g : s[g], i.generics)
        term == Term(call.name, Tail(full), full[1])
        j == IF Len(call.args) = Len(i.params) THEN r.k ELSE Diag(r.k)
    IN  With(FindOrInstantiate(j, c, term),
             LAMBDA a : Following(r.targets, SelectImpl(j, c, term, a)))

\* The arguments after the receiver, against the parameters they are known to
\* have so far; q is [r, s].
WithCoerced(q, p, r) ==
    [r |-> Resolved(r.k, q.r.targets \o r.targets), s |-> UnifyForInference(p, r.ty, q.s).s]

InterfaceArg(c, q, p, arg) ==
    WithCoerced(q, p, IF ContainsGeneric(p) THEN Coerced(q.r.k, arg, <<>>)
                      ELSE Coerce(q.r.k, c, p, arg, FALSE))

InterfaceArgs(k, c, call, params, s) ==
    InTurnDomain(LAMBDA q, n :
        IF n = 1 \/ n > Len(params) THEN q
        ELSE InterfaceArg(c, q, SubstituteTy(params[n], q.s), call.args[n]),
        [r |-> Resolved(k, <<>>), s |-> s], call.args)

\* The arguments against parameters that are known.
CheckArg(c, targets, p, r) == Resolved(RequireAssignable(r.k, c, p, r.ty), targets \o r.targets)

CheckArguments(r, c) ==
    InTurnDomain(LAMBDA q, n :
        IF n > Len(r.params) THEN q
        ELSE CheckArg(c, q.targets, r.params[n], Coerce(q.k, c, r.params[n], r.args[n], FALSE)),
        Resolved(IF Len(r.args) = Len(r.params) THEN r.k ELSE Diag(r.k), r.targets), r.args)

DynamicCall(k, call, ref) ==
    LET i == Interfaces[call.name]
        s == ArgsFor(i.generics, <<Generic(i.generics[1])>> \o ref[2])
    IN  Awaiting(k, <<>>, Each(LAMBDA t : SubstituteTy(t, s), Tail(i.params)), Tail(call.args))

ReceiverStep(i, recv, s) == UnifyReceiver(SubstituteTy(i.params[1], s), recv, s).s

SolvedStaticCall(q, c, call) == StaticCall(q.r, c, call, InferDetermined(q.r.k, c, call.name, q.s))

InferStaticCall(k, c, call, i) ==
    LET start == ArgsFor(i.generics, <<Generic(i.generics[1])>>
                    \o call.types
                    \o Each(Generic, SubSeq(i.generics, Len(call.types) + 2, Len(i.generics))))
    IN  SolvedStaticCall(InterfaceArgs(k, c, call, i.params,
                                       ReceiverStep(i, call.args[1], WantStep(i.ret, call, start))), c, call)

\* What a dynamic receiver offers under the name of the call.
Offered(recv, name) ==
    IF Kind(recv) # "dyn" THEN <<>>
    ELSE SelectSeq(View(recv)[1], LAMBDA ref : ref[1] = name)

CheckOffered(k, c, call, i, offered) ==
    CASE offered # <<>> -> DynamicCall(k, call, offered[1])
      [] offered = <<>> /\ Len(call.types) >= Len(i.generics) -> Resolved(Diag(k), <<>>)
      [] OTHER -> InferStaticCall(k, c, call, i)

CheckInterfaceCall(k, c, call) ==
    LET i == Interfaces[call.name]
    IN  IF i.params = <<>> \/ call.args = <<>> THEN Resolved(Diag(k), <<>>)
        ELSE CheckOffered(k, c, call, i, Offered(call.args[1], call.name))

InstantiateCall(k, c, call, s) ==
    LET f == Functions[call.name]
    IN  Awaiting(CheckGenericConstraints(k, c, f.generics, s),
                 <<<<"generic", call.name, Each(LAMBDA g : s[g.name], f.generics)>>>>,
                 Each(LAMBDA t : SubstituteTy(t, s), f.params), call.args)

SolvedCall(k, c, call, u) ==
    LET f == Functions[call.name]
        j == [k EXCEPT !.diags = @ + u.ambiguous]
    IN  IF \A g \in ToSet(f.generics) : g.name \in DOMAIN u.s
        THEN InstantiateCall(j, c, call, u.s) ELSE Resolved(Diag(j), <<>>)

\* infer_generic_function_call: explicit arguments, then the arguments in
\* order, the expected result, the constraints of known receivers and last
\* the hidden parameters.
InferGenericCall(k, c, call) ==
    LET f == Functions[call.name]
        visible == SelectSeq(f.generics, LAMBDA g : ~g.hidden)
        start == ArgsFor(Each(LAMBDA g : g.name, SubSeq(visible, 1, Len(call.types))), call.types)
        env == FlattenSeq(c.env)
        j == IF Len(call.args) = Len(f.params) THEN k ELSE Diag(k)
    IN  IF Len(call.types) > Len(visible) THEN Resolved(Diag(k), <<>>)
        ELSE SolvedCall(j, c, call,
                SolveHiddenGenerics(k, env, f.generics,
                    InferFromReceivers(k, env, f.generics,
                        WantStep(f.ret, call, ArgStep(call, f.params, 1, start)), Len(f.generics))))

CheckFunctionCall(k, c, call) ==
    LET f == Functions[call.name]
    IN  CASE f.generics # <<>> -> InferGenericCall(k, c, call)
          [] f.generics = <<>> /\ call.types # <<>> -> Resolved(Diag(k), <<>>)
          [] OTHER -> Awaiting(k, <<<<"function", call.name>>>>, f.params, call.args)

CheckLocal(r) == Resolved(r.k, r.targets \o <<<<"local", r.ty>>>>)

\* A declaration of a local is a call "local": its type is `want`, its name
\* says whether the initializer is a writable place.
CheckCall(k, c, call) ==
    IF call.kind = "local"
    THEN CheckLocal(CheckLocalDecl(k, c, call.want[1], call.args[1], call.name = "writable"))
    ELSE With(IF call.kind = "interface" THEN CheckInterfaceCall(k, c, call)
              ELSE CheckFunctionCall(k, c, call), LAMBDA r : CheckArguments(r, c))

CheckBody(k, c, calls) ==
    InTurn(LAMBDA r, call : Following(r.targets, CheckCall(r.k, c, call)),
             Resolved(k, <<>>), calls)

\* The types of a body are those of its values and locals.
Checked(r, owner, calls) ==
    LET types == FlattenSeq(Each(LAMBDA call : call.args, calls))
        locals == Each(LAMBDA t : t[2], SelectSeq(r.targets, LAMBDA t : t[1] = "local"))
    IN  [r.k EXCEPT !.checked = Append(@, [owner |-> owner, types |-> types \o locals,
                                           targets |-> SelectSeq(r.targets, LAMBDA t : t[1] # "local")])]

CheckOwned(k, b) == Checked(CheckBody(k, TopLevel, b.calls), b.owner, b.calls)

\* The bodies of impls, the last one queued first; checking one may queue more.
DrainOneBody(k) == CheckOwned([k EXCEPT !.bodies = Front(@)], Last(k.bodies))

(***************************************************************************)
(* Generic derives: all candidates may rely on each other, and a round     *)
(* that rejects one starts again without it.                               *)
(***************************************************************************)
\* A body that fails counts as one diagnostic.
OneDiag(before, k) == IF k.diags = before.diags THEN k ELSE Diag(Truncate(k, before))

ValidateDerivedBody(k, check) ==
    OneDiag(k, CheckBody(k, [Scope(check.generics) EXCEPT !.symbolic = TRUE], check.template.body).k)

ValidateDerive(before, check, k) ==
    IF k.diags = before.diags THEN ValidateDerivedBody(k, check) ELSE k

\* acc is [k, valid, rejected]; rejected counts diagnostics.
GreatestStep(acc, check, k) ==
    IF k.diags = acc.k.diags THEN [acc EXCEPT !.k = k, !.valid = Append(@, check)]
    ELSE [acc EXCEPT !.k = Truncate(k, acc.k), !.rejected = @ + k.diags - acc.k.diags]

GreatestRound(k, checks) ==
    InTurn(LAMBDA acc, check :
                GreatestStep(acc, check,
                             ValidateDerive(acc.k, check, ValidateConstraints(acc.k, check))),
             [k |-> [k EXCEPT !.genericDerives = checks], valid |-> <<>>, rejected |-> 0], checks)

RECURSIVE DrainGreatest(_, _, _)
GreatestNext(r, diags) ==
    IF r.rejected = 0
    THEN [Bump(r.k) EXCEPT !.genericDerives = <<>>, !.diags = @ + diags,
                           !.templates = @ \o Each(LAMBDA check : check.template, r.valid)]
    ELSE DrainGreatest(r.k, r.valid, diags + r.rejected)

DrainGreatest(k, checks, diags) ==
    IF checks = <<>> THEN [k EXCEPT !.genericDerives = <<>>, !.diags = @ + diags]
    ELSE GreatestNext(GreatestRound(k, checks), diags)

DrainGenericDerives(k) == DrainGreatest(k, k.genericDerives, 0)

CheckCoherence(k) ==
    [k EXCEPT !.diags = @ + Cardinality(CoherenceErrors(k.impls, k.templates))]

CollectFunctions(k) ==
    [k EXCEPT !.diags = @ + MapThenSumSet(LAMBDA f : Cardinality(UnderivableHidden(Functions[f].generics)),
                                          DOMAIN Functions)]

\* Everything before the first body.
Declarations(program) ==
    With(With(CollectFunctions(CollectImplSignatures(NoTable, program)), DrainGenericDerives),
         CheckCoherence)
=============================================================================
