----------------------------- MODULE CodegenC -----------------------------
(***************************************************************************)
(* The statement lowering of the C backend.  The emitted C is a sequence   *)
(* of items: straight-line operations (read, move, call, await, try, set,  *)
(* clean, arm, deferred call, return) and the structured statements of C   *)
(* (if, loop, switch, break, continue, goto, label) with sub-sequences.    *)
(*                                                                         *)
(* The generator's state g is threaded through: ds is defer_stack, one     *)
(* frame of pending exit code per open scope; ls, bs and ct are the stacks *)
(* loop_defer_starts, break_defer_starts and continue_targets; n is        *)
(* current_async_await_index, lab numbers labels, matched flags and defer  *)
(* argument slots, temps counts the temporary frames on top of ds.         *)
(***************************************************************************)
EXTENDS FlowCheck

Read(x) == [k |-> "read", x |-> x]
Move(x) == [k |-> "move", x |-> x]
Clean(x) == [k |-> "clean", x |-> x]
CleanTemp(x) == [k |-> "cleantemp", x |-> x]

Top(seq) == seq[Len(seq)]
PushTo(ds, item) == [ds EXCEPT ![Len(ds)] = Append(@, item)]

(* emit_defer_frames over the frames from start on, innermost first. *)
EmitFrames(ds, start) ==
    Concat([i \in 1..(Len(ds) - start) |-> Reverse(ds[Len(ds) + 1 - i])])
EmitCurrent(ds) == Reverse(Top(ds))

(* with_temporary_resource_cleanup_scope *)
TempScope(g) == [g EXCEPT !.ds = Append(@, << >>), !.temps = @ \cup {Len(g.ds) + 1}]
EndTempScope(g, out) ==
    [out EXCEPT !.g.ds = g.ds, !.g.temps = g.temps]

(* async_cleanup_defer_stack leaves the temporary frames out. *)
AbortCode(g) ==
    EmitFrames([i \in 1..Len(g.ds) |-> IF i \in g.temps THEN << >> ELSE g.ds[i]], 0)

(* Lowering an expression gives the statements emitted before the C        *)
(* expression, and the operations left inside the C expression itself.     *)
Lowered(g, pre, rest) == [pre |-> pre, rest |-> rest, g |-> g]

RECURSIVE LowerExpr(_, _), LowerArgs(_, _)
LowerArgs(g, es) ==
    IF es = << >> THEN Lowered(g, << >>, << >>)
    ELSE LET first == LowerExpr(g, Head(es))
             others == LowerArgs(first.g, Tail(es))
         IN  Lowered(others.g, first.pre \o others.pre, first.rest \o others.rest)

(* gen_expr_in_stmt: a temporary frame of its own around the lowering. *)
LowerInStmt(g, e) == EndTempScope(g, LowerExpr(TempScope(g), e))

(* emit_future_run: the await takes its index before its operand does. *)
LowerAwait(g, e) ==
    LET idx == g.n + 1
        inner == LowerInStmt([g EXCEPT !.n = idx], e.e)
    IN  Lowered(inner.g,
                inner.pre \o inner.rest
                \o <<[k |-> "await", ty |-> e.ty, idx |-> idx, abort |-> AbortCode(g)]>>, << >>)

(* emit_try_expr: on an error all defers run, then the function returns. *)
LowerTry(g, e) ==
    LET inner == LowerInStmt(g, e.e)
    IN  Lowered(inner.g,
                inner.pre \o inner.rest
                \o <<[k |-> "try", err |-> EmitFrames(inner.g.ds, 0)]>>, << >>)

(* emit_temp_value: a resource is moved to a tracked temporary. *)
LowerMove(g, x) == Lowered([g EXCEPT !.ds = PushTo(@, CleanTemp(x))], <<Move(x)>>, << >>)

LowerExpr(g, e) ==
    CASE e.k = "local" /\ e.x \in AffineLocal -> LowerMove(g, e.x)
      [] e.k \in {"local", "addr"} -> Lowered(g, << >>, <<Read(e.x)>>)
      [] e.k = "call" ->
            LET args == LowerArgs(g, e.es)
            IN  [args EXCEPT !.rest = Append(@, [k |-> "op", f |-> e.f, es |-> e.es])]
      [] e.k = "await" -> LowerAwait(g, e)
      [] e.k = "try" -> LowerTry(g, e)
      [] OTHER -> Lowered(g, << >>, << >>)

(* expr_needs_stmt_lowering *)
RECURSIVE NeedsLowering(_)
NeedsLowering(e) ==
    \/ e.k \in {"await", "try"}
    \/ e.k = "local" /\ e.x \in AffineLocal
    \/ \E i \in DOMAIN Operands(e) : NeedsLowering(Operands(e)[i])

(* The code is complete before the state that it leaves is used. *)
Gen(g, code, falls) == [code |-> code, falls |-> falls, g |-> g]

GenExprStmt(g, e, code) ==
    LET l == LowerInStmt(g, e)
    IN  Gen(l.g, l.pre \o l.rest \o code, TRUE)

(* push_resource_cleanup_defer: the innermost frame closes an affine local. *)
PushCleanup(g, x) == IF x \in AffineLocal THEN [g EXCEPT !.ds = PushTo(@, Clean(x))] ELSE g

(* The initialiser is stored under a temporary frame that already holds    *)
(* the local's own cleanup.                                                *)
LowerInit(g, s) == EndTempScope(g, LowerExpr(PushCleanup(TempScope(g), s.x), s.e))

GenDecl(g, s) ==
    LET l == LowerInit(g, s)
        store == IF IsSome(s.e) THEN <<[k |-> "set", x |-> s.x, e |-> s.e]>> ELSE << >>
    IN  Gen(PushCleanup(l.g, s.x),
            <<[k |-> "decl", x |-> s.x]>> \o l.pre \o l.rest \o store, TRUE)

(* emit_assignment: the value is complete before the old resource goes. *)
GenAssign(g, s) ==
    GenExprStmt(g, s.e, (IF s.x \in AffineLocal THEN <<Clean(s.x)>> ELSE << >>)
                        \o <<[k |-> "set", x |-> s.x, e |-> s.e]>>)

RECURSIVE GenStmt(_, _), GenSeq(_, _)
GenThen(first, rest) == Gen(rest.g, first.code \o rest.code, rest.falls)

GenAfter(first, ss) == IF first.falls THEN GenThen(first, GenSeq(first.g, ss)) ELSE first

GenSeq(g, ss) ==
    IF ss = << >> THEN Gen(g, << >>, TRUE) ELSE GenAfter(GenStmt(g, Head(ss)), Tail(ss))

OpenScope(g) == [g EXCEPT !.ds = Append(@, << >>)]
CloseScope(g) == [g EXCEPT !.ds = Front(@)]

(* gen_block_inner *)
GenBlock(g, ss) ==
    LET r == GenSeq(OpenScope(g), ss)
    IN  Gen(CloseScope(r.g), r.code \o (IF r.falls THEN EmitCurrent(r.g.ds) ELSE << >>), r.falls)

GenIf(g, s) ==
    LET c == LowerInStmt(g, s.c)
        th == GenBlock(c.g, s.th)
        el == IF IsSome(s.el) THEN GenStmt(th.g, s.el) ELSE Gen(th.g, << >>, TRUE)
    IN  Gen(el.g, c.pre \o c.rest \o <<[k |-> "if", th |-> th.code, el |-> el.code]>>,
            th.falls \/ el.falls)

EnterLoop(g, target) ==
    [g EXCEPT !.ls = Append(@, Len(g.ds)), !.bs = Append(@, Len(g.ds)), !.ct = Append(@, target)]
LeaveLoop(g) == [g EXCEPT !.ls = Front(@), !.bs = Front(@), !.ct = Front(@)]

CLoop(cond, test, body, step) ==
    [k |-> "loop", cond |-> cond, test |-> test, body |-> body, step |-> step]

(* An absent or literally true condition makes no choice. *)
Tests(c) == IsSome(c) /\ c # TrueLit
BreakUnless(c) ==
    IF Tests(c) THEN <<[k |-> "if", th |-> << >>, el |-> <<[k |-> "break"]>>]>> ELSE << >>

GenWhile(g, s) ==
    LET c == LowerInStmt(g, s.c)
        body == GenBlock(EnterLoop(c.g, 0), s.body)
        ops == c.pre \o c.rest
    IN  Gen(LeaveLoop(body.g),
            IF NeedsLowering(s.c)
            THEN <<CLoop(<< >>, FALSE, ops \o BreakUnless(s.c) \o body.code, << >>)>>
            ELSE <<CLoop(ops, Tests(s.c), body.code, << >>)>>,
            TRUE)

(* for_stmt_needs_stmt_lowering and for_stmt_needs_resource_lowering *)
ClauseLowered(s) ==
    IsSome(s) /\ (NeedsLowering(s.e) \/ (s.k # "expr" /\ s.x \in AffineLocal))

(* The initialiser or the step of a for loop, if it has one. *)
GenClauseOpt(g, s) == IF IsSome(s) THEN GenStmt(g, s) ELSE Gen(g, << >>, TRUE)

(* gen_lowered_for_stmt: the step is behind a label inside while (true). *)
GenLoweredFor(g, s) ==
    LET label == g.lab + 1
        opened == OpenScope([g EXCEPT !.lab = label])
        init == GenClauseOpt(opened, s.init)
        c == LowerInStmt(init.g, s.c)
        body == GenBlock(EnterLoop(c.g, label), s.body)
        step == GenClauseOpt(LeaveLoop(body.g), s.step)
        loop == c.pre \o c.rest \o BreakUnless(s.c) \o body.code
                \o <<[k |-> "label", lab |-> label]>> \o step.code
    IN  Gen(CloseScope(step.g),
            init.code \o <<CLoop(<< >>, FALSE, loop, << >>)>> \o EmitCurrent(step.g.ds), TRUE)

GenFor(g, s) ==
    IF ClauseLowered(s.init) \/ NeedsLowering(s.c) \/ ClauseLowered(s.step)
    THEN GenLoweredFor(g, s)
    ELSE LET init == GenClauseOpt(g, s.init)
             c == LowerExpr(init.g, s.c)
             step == GenClauseOpt(c.g, s.step)
             body == GenBlock(EnterLoop(step.g, 0), s.body)
         IN  Gen(LeaveLoop(body.g),
                 init.code \o <<CLoop(c.rest, Tests(s.c), body.code, step.code)>>, TRUE)

(* A clause of a switch: its own defer frame, then the break that ends it. *)
GenClause(g, ss, mark, last) ==
    LET r == GenSeq(OpenScope(g), ss)
    IN  Gen(CloseScope(r.g),
            mark \o r.code \o (IF r.falls THEN EmitCurrent(r.g.ds) \o last ELSE << >>), r.falls)

(* The cases of the C switch, one after the other. *)
RECURSIVE GenCases(_, _, _)
GenCases(g, cases, mark) ==
    IF cases = << >> THEN [out |-> << >>, g |-> g]
    ELSE LET c == Head(cases)
             r == GenClause(g, c.ss, mark, <<[k |-> "break"]>>)
             others == GenCases(r.g, Tail(cases), mark)
         IN  [out |-> <<[v |-> c.v, m |-> c.m, code |-> r.code]>> \o others.out, g |-> others.g]

(* The can_fallthrough that the checker records in the tree. *)
SwitchFalls(s) ==
    CheckSwitch(EntryScopes({}), [depth |-> 0, break |-> TRUE, continue |-> TRUE, move |-> FALSE],
                s).fall

(* The default clause is emitted behind the C switch, under !matched. *)
GenSwitch(g, s) ==
    LET flag == g.lab + 1
        start == [g EXCEPT !.lab = flag, !.bs = Append(@, Len(g.ds))]
        mark == IF s.hasDefault THEN <<[k |-> "flag", n |-> flag, to |-> TRUE]>> ELSE << >>
        cases == GenCases(start, GroupedCases(s.cases), mark)
        default == GenClause(cases.g, s.default, << >>, << >>)
        tail == IF s.hasDefault THEN <<[k |-> "unless", n |-> flag, code |-> default.code]>>
                                ELSE << >>
    IN  Gen([(IF s.hasDefault THEN default.g ELSE cases.g) EXCEPT !.bs = Front(@)],
            (IF s.hasDefault THEN <<[k |-> "flag", n |-> flag, to |-> FALSE]>> ELSE << >>)
            \o <<[k |-> "switch", cases |-> cases.out]>> \o tail,
            SwitchFalls(s))

(* gen_defer_call: the arguments are stored now, the callee expression is  *)
(* part of the call that is emitted at the end of the scope.               *)
GenDefer(g, s) ==
    LET slot == g.lab + 1
        r == GenExprStmt([g EXCEPT !.lab = slot], s.e, <<[k |-> "arm", n |-> slot, e |-> s.e]>>)
    IN  [r EXCEPT !.g.ds = PushTo(@, [k |-> "dcall", f |-> s.f, n |-> slot])]

GenReturn(g, s) ==
    LET l == LowerInStmt(g, s.e)
    IN  Gen(l.g, l.pre \o l.rest \o <<[k |-> "result", e |-> s.e]>> \o EmitFrames(g.ds, 0)
                 \o <<[k |-> "return"]>>, FALSE)

GenBreak(g) == Gen(g, EmitFrames(g.ds, Top(g.bs)) \o <<[k |-> "break"]>>, FALSE)

(* A mutant: continue runs only the exit code of the nearest breakable. *)
ContinueFromBreak(g) ==
    Gen(g, EmitFrames(g.ds, Top(g.bs))
           \o <<IF Top(g.ct) = 0 THEN [k |-> "continue"] ELSE [k |-> "goto", lab |-> Top(g.ct)]>>,
        FALSE)

GenContinue(g) ==
    Gen(g, EmitFrames(g.ds, Top(g.ls))
           \o <<IF Top(g.ct) = 0 THEN [k |-> "continue"] ELSE [k |-> "goto", lab |-> Top(g.ct)]>>,
        FALSE)

GenStmt(g, s) ==
    CASE s.k = "block" -> GenBlock(g, s.ss)
      [] s.k = "decl" -> GenDecl(g, s)
      [] s.k = "assign" -> GenAssign(g, s)
      [] s.k = "if" -> GenIf(g, s)
      [] s.k = "while" -> GenWhile(g, s)
      [] s.k = "for" -> GenFor(g, s)
      [] s.k = "switch" -> GenSwitch(g, s)
      [] s.k = "defer" -> GenDefer(g, s)
      [] s.k = "return" -> GenReturn(g, s)
      [] s.k = "break" -> GenBreak(g)
      [] s.k = "continue" -> GenContinue(g)
      [] s.k = "expr" -> [GenExprStmt(g, s.e, << >>) EXCEPT !.falls = ~IsNever(s.e)]

(* gen_function and gen_async_function: the owned parameters are cleaned   *)
(* by the outermost frame.                                                 *)
Emitted(g, r) ==
    [code |-> r.code \o (IF r.falls THEN EmitCurrent(r.g.ds) ELSE << >>) \o <<[k |-> "return"]>>,
     awaits |-> r.g.n,
     unpolled |-> EmitCurrent(g.ds)]

GenFunction(fn) ==
    LET roots == SetToSeq(fn.params \cap AffineLocal)
        g == [ds |-> <<[i \in DOMAIN roots |-> Clean(roots[i])]>>, ls |-> << >>, bs |-> << >>,
              ct |-> << >>, n |-> 0, lab |-> 0, temps |-> {}]
    IN  Emitted(g, GenSeq(g, fn.body))
=============================================================================
