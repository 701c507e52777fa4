------------------------------- MODULE Typeck -------------------------------
(***************************************************************************)
(* A program through the type checker and monomorphization, in the order   *)
(* of TypeChecker::check and MonoContext::run: declarations, functions,    *)
(* bodies of impls, then the worklist of instances, aggregates and their   *)
(* layouts.  A program is [decls, main]: its impls and derives in source   *)
(* order and the calls of `main`; interfaces, aggregates and the other     *)
(* functions are constants.                                                *)
(***************************************************************************)
EXTENDS Mono

CONSTANTS
    Programs,
    Ground      \* types over which uniqueness of determined arguments is read

VARIABLES program, stage, todo, k, m, layouts

vars == <<program, stage, todo, k, m, layouts>>

Init ==
    /\ program \in Programs
    /\ stage = "parsed"
    /\ todo = {}
    /\ k = NoTable
    /\ m = NoMono
    /\ layouts = <<>>

Declared(table) ==
    /\ k' = table
    /\ stage' = IF table.fatal THEN "rejected" ELSE "checking"
    /\ todo' = {f \in DOMAIN Functions : Functions[f].generics = <<>>}

\* A coherence error keeps the bodies from being checked.
Declare ==
    /\ stage = "parsed"
    /\ Declared(Declarations(program.decls))
    /\ UNCHANGED <<program, m, layouts>>

BodyOf(f) == IF f = "main" THEN program.main ELSE Functions[f].body

\* The functions come first, in any order; generic ones wait for their
\* instances.  Then the bodies of impls, which may queue more.
ToCheck ==
    IF todo # {} THEN {[owner |-> <<"function", f>>, calls |-> BodyOf(f)] : f \in todo}
    ELSE {Last(k.bodies)}

CheckNextBody ==
    /\ stage = "checking" /\ (todo # {} \/ k.bodies # <<>>)
    /\ \E b \in ToCheck :
        IF Len(k.checked) >= MaxWork THEN stage' = "stuck" /\ UNCHANGED <<todo, k>>
        ELSE /\ todo' = todo \ {b.owner[2]}
             /\ k' = CheckOwned(IF todo = {} THEN [k EXCEPT !.bodies = Front(@)] ELSE k, b)
             /\ UNCHANGED stage
    /\ UNCHANGED <<program, m, layouts>>

\* root_defs: main.
TypeChecked ==
    /\ stage = "checking" /\ todo = {} /\ k.bodies = <<>>
    /\ IF k.diags > 0 THEN stage' = "rejected" /\ UNCHANGED m
       ELSE /\ stage' = "mono"
            /\ m' = MarkFunction([k |-> k, m |-> m], <<"function", "main">>).m
    /\ UNCHANGED <<program, todo, k, layouts>>

Processed(j) ==
    /\ k' = j.k /\ m' = j.m
    /\ stage' = IF j.m.stuck \/ Len(j.m.done) > MaxWork THEN "stuck" ELSE "mono"

Process ==
    /\ stage = "mono" /\ m.work # <<>>
    /\ Processed(ProcessFunction([k |-> k, m |-> m]))
    /\ UNCHANGED <<program, todo, layouts>>

Laid(a) ==
    /\ stage' = IF a.stuck THEN "stuck"
                ELSE IF a.diags > 0 \/ LayoutCycle(a.done) THEN "rejected" ELSE "done"
    /\ layouts' = IF stage' = "done" THEN AggregateLayoutOrder(a.done) ELSE <<>>

Finish ==
    /\ stage = "mono" /\ m.work = <<>>
    /\ IF m.diags > 0 THEN stage' = "rejected" /\ UNCHANGED layouts
       ELSE Laid(CollectFrom(k, m.done))
    /\ UNCHANGED <<program, todo, k, m>>

Next ==
    \/ Declare
    \/ CheckNextBody
    \/ TypeChecked
    \/ Process
    \/ Finish

Spec == Init /\ [][Next]_vars
-----------------------------------------------------------------------------
\* A reference for the table: a ground impl is justified by a declaration
\* whose constraints justified impls meet.  `tab` is the final table.
Instances(tab, term) ==
    {tpl \in ToSet(tab.templates) : tpl.iface = term.iface /\ HeadMatch(tpl, term.args).ok}

Meets(tab, justified, generics, s) ==
    \A g \in ToSet(generics) :
        LET b == ConstraintBounds(g, s)
            Given(goal) == ImplementsCompilerProvided(goal) \/ goal \in justified
        IN  /\ g.resource => TypeIsAffine(s[g.name], {})
            /\ \A goal \in ToSet(Goals(s[g.name], b[1])) : Given(goal)
            /\ \A goal \in ToSet(Goals(s[g.name], b[2])) :
                ~Given(goal) /\ goal \notin ToSet(tab.impls)

Written(decls) ==
    {d \in ToSet(decls) : d.kind = "impl" /\ d.generics = <<>>}

JustifiedBy(decls, tab, justified, term) ==
    \/ \E d \in Written(decls) : Term(d.name, Tail(AnalyzeImplSignature(d).args),
                                      AnalyzeImplSignature(d).args[1]) = term
    \/ \E tpl \in Instances(tab, term) :
            Meets(tab, justified, tpl.generics, HeadMatch(tpl, term.args).s)
    \/ \E o \in ToSet(tab.derivables) :
            /\ o.iface = term.iface /\ Tail(o.args) = Tail(term.args)
            /\ \E d \in ToSet(decls) : d.kind = "derive" /\ d.recv = term.args[1]
            /\ LET n == DerivableTemplateSubst(o, term.args)
               IN  n.ok /\ Meets(tab, justified, o.generics, n.s)

RECURSIVE LeastJustified(_, _, _)
LeastJustified(decls, tab, justified) ==
    LET next == {term \in ToSet(tab.impls) : JustifiedBy(decls, tab, justified, term)}
    IN  IF next = justified THEN justified ELSE LeastJustified(decls, tab, next)

\* In a program that the type checker accepts every impl in the table rests
\* on declarations whose constraints are met without going in a circle:
\* drain_pending_derived_template_constraint_checks and the instantiation of
\* generic impls never let derives justify each other.
ImplsJustified ==
    stage = "mono" => LeastJustified(program.decls, k, {}) = ToSet(k.impls)

\* In a program that the type checker accepts the determinants of an interface
\* leave no choice: no two impls, written or instances of generic ones, give
\* the same receiver different determined arguments.
DeterminedUnique ==
    stage = "mono" =>
        \A i \in {i \in DOMAIN Interfaces : Interfaces[i].determined > 0} :
            \A l, r \in {args \in [1 .. Arity(i) -> Ground] :
                            CapabilitySatisfied(k, Term(i, Tail(args), args[1]), {})} :
                DeterminantsMatch(l, r, Interfaces[i].determined) => l = r

Emitted == ToSet(m.done)

Needed(target) ==
    LET Impls(goals) == {<<"impl", t>> : t \in {u \in ToSet(goals) : u.iface \notin CompilerProvided}}
    IN  CASE target[1] \in {"function", "impl", "generic"} -> {target}
          [] target[1] = "dynamic" ->
                IF Kind(target[3]) = "dyn" THEN {}
                ELSE Impls(Goals(ReceiverFromValue(target[3]), View(target[2])[1]))
          [] target[1] = "retain" ->
                Impls(Goals(target[3], SelectSeq(Bounds(target[2])[1], LAMBDA r :
                    Kind(target[3]) = "inst" \/ r \notin ToSet(Bounds(target[3])[1]))))

\* What the emitted functions call, and what their vtables and retained
\* closures point to, is emitted: monomorphization marks everything that
\* code generation names.  And it ends: instantiation that goes on forever is
\* cut by the growth checks of generic functions and of dynamic interfaces.
MonoClosed ==
    /\ stage # "stuck"
    /\ stage = "done" =>
        \A def \in Emitted : \A target \in ToSet(ByDef(k, def)[1].targets) :
            Needed(target) \subseteq Emitted

RECURSIVE ByValue(_)
ByValue(t) ==
    CASE Kind(t) = "named" -> {t}
      [] Kind(t) = "array" -> ByValue(Args(t)[1])
      [] OTHER -> {}

\* In the emitted C every aggregate is declared once and after the aggregates
\* it holds by value, directly, in arrays or in the payload of a variant.
LayoutOrder ==
    \A i \in DOMAIN layouts :
        /\ \A j \in DOMAIN layouts : layouts[i] = layouts[j] => i = j
        /\ \A c \in ToSet(Components(layouts[i])) : \A t \in ByValue(c) :
            \E j \in 1 .. i - 1 : layouts[j] = t
=============================================================================
