----------------------------- MODULE FlowCheck -----------------------------
(***************************************************************************)
(* The flow-sensitive part of the type checker: definite assignment, moves *)
(* of affine locals, single initialisation of immutable bindings, and      *)
(* whether a statement can fall through.                                   *)
(*                                                                         *)
(* A scope state sc maps a local to its InitState s and to the loop depth  *)
(* d of its declaration.  The environment env is the checker's own state   *)
(* on the way down: the current loop depth, whether a break or a continue  *)
(* has a target, and whether a move out of a loop is allowed (the operand  *)
(* of a return).  A check yields the new state, fall-through, whether no   *)
(* diagnostic was issued, and the scope states recorded at the breaks that *)
(* leave for the nearest enclosing context.                                *)
(***************************************************************************)
EXTENDS CielTree

(* A mutant: a local assigned on one of the two paths counts as assigned. *)
MergeOptimistic(s, t) == IF "Assigned" \in {s, t} THEN "Assigned" ELSE s

Merge(s, t) ==
    CASE s = t -> s
      [] {s, t} = {"Assigned", "Moved"} \/ "MaybeMoved" \in {s, t} -> "MaybeMoved"
      [] OTHER -> "MaybeAssigned"

MergeScopes(left, right) ==
    LET differ == {x \in Local : left[x] # right[x]}
    IN  [x \in differ |-> [left[x] EXCEPT !.s = Merge(@, right[x].s)]] @@ left

MergeReachable(sc, flows) ==
    IF flows = << >> THEN sc ELSE FoldLeft(MergeScopes, flows[1], Tail(flows))

(* consume_affine_expr on a local: a resource declared outside the current *)
(* loop may only be moved by a return.                                     *)
CanMove(sc, env, x) == sc[x].d >= env.depth \/ env.move

RECURSIVE CheckExpr(_, _, _, _)
CheckExpr(sc, env, e, consumed) ==
    IF e.k \in {"local", "addr"}
    THEN LET moves == e.k = "local" /\ consumed /\ e.x \in AffineLocal
             allowed == moves /\ CanMove(sc, env, e.x)
         IN  [sc |-> IF allowed THEN [sc EXCEPT ![e.x].s = "Moved"] ELSE sc,
              ok |-> sc[e.x].s = "Assigned" /\ (moves => allowed)]
    ELSE FoldLeft(LAMBDA acc, arg :
                     LET c == CheckExpr(acc.sc, env, arg, TRUE)
                     IN  [sc |-> c.sc, ok |-> acc.ok /\ c.ok],
                  [sc |-> sc, ok |-> TRUE], Operands(e))

(* validate_assignment_target for a local that nothing has captured. *)
MayAssign(sc, env, x) ==
    x \in ImmutableLocal => sc[x].s = "Unassigned" /\ sc[x].d >= env.depth

(* TLC evaluates the fields in this order: a statement is checked before   *)
(* the scopes it leaves are used.                                          *)
Checked(sc, fall, ok, brk) == [ok |-> ok, fall |-> fall, brk |-> brk, sc |-> sc]

CheckDecl(sc, env, s) ==
    LET c == CheckExpr(sc, env, s.e, TRUE)
        state == IF IsSome(s.e) THEN "Assigned" ELSE "Unassigned"
    IN  Checked([c.sc EXCEPT ![s.x] = [s |-> state, d |-> env.depth]], TRUE, c.ok, << >>)

CheckAssign(sc, env, s) ==
    LET allowed == MayAssign(sc, env, s.x)
        c == CheckExpr(sc, env, s.e, TRUE)
    IN  Checked(IF allowed THEN [c.sc EXCEPT ![s.x].s = "Assigned"] ELSE c.sc,
                TRUE, c.ok /\ allowed, << >>)

RECURSIVE CheckStmt(_, _, _), CheckSeq(_, _, _)
Sequence(c, rest) ==
    Checked(rest.sc, c.fall /\ rest.fall, c.ok /\ rest.ok, c.brk \o rest.brk)

CheckAfter(c, env, ss) == Sequence(c, CheckSeq(c.sc, env, ss))

CheckSeq(sc, env, ss) ==
    IF ss = << >> THEN Checked(sc, TRUE, TRUE, << >>)
    ELSE CheckAfter(CheckStmt(sc, env, Head(ss)), env, Tail(ss))

(* The scopes that fall out of a checked statement. *)
Flow(c) == IF c.fall THEN <<c.sc>> ELSE << >>

Join(sc, flows, ok, brk) == Checked(MergeReachable(sc, flows), flows # << >>, ok, brk)

Branches(c, th, el) ==
    Join(c.sc, Flow(th) \o Flow(el), c.ok /\ th.ok /\ el.ok, th.brk \o el.brk)

CheckIf(sc, env, s) ==
    LET c == CheckExpr(sc, env, s.c, FALSE)
    IN  Branches(c, CheckSeq(c.sc, env, s.th),
                 IF IsSome(s.el) THEN CheckStmt(c.sc, env, s.el)
                                 ELSE Checked(c.sc, TRUE, TRUE, << >>))

LoopEnv(env) == [env EXCEPT !.depth = @ + 1, !.break = TRUE, !.continue = TRUE]

(* The body runs on a copy of the scopes which is then dropped: the state  *)
(* after a loop is the state before its first iteration.                   *)
CheckWhile(sc, env, s) ==
    LET inner == [env EXCEPT !.depth = @ + 1]
        c == CheckExpr(sc, inner, s.c, FALSE)
        body == CheckSeq(c.sc, LoopEnv(env), s.body)
    IN  Checked(c.sc, s.c # TrueLit \/ body.brk # << >>, c.ok /\ body.ok, << >>)

(* check_for_init and check_for_step *)
CheckClauseOpt(sc, env, s) ==
    IF IsSome(s) THEN CheckStmt(sc, env, s) ELSE Checked(sc, TRUE, TRUE, << >>)

(* The step is checked on the loop's scopes before the body is. *)
CheckFor(sc, env, s) ==
    LET inner == [env EXCEPT !.depth = @ + 1]
        init == CheckClauseOpt(sc, env, s.init)
        c == CheckExpr(init.sc, inner, s.c, FALSE)
        step == CheckClauseOpt(c.sc, inner, s.step)
        body == CheckSeq(step.sc, LoopEnv(env), s.body)
    IN  Checked(c.sc, (IsSome(s.c) /\ s.c # TrueLit) \/ body.brk # << >>,
                init.ok /\ c.ok /\ step.ok /\ body.ok, << >>)

(* Every clause starts from the scopes before the switch.  The breaks of a *)
(* default that the cases have made unreachable are dropped again.         *)
Clauses(sc, s, exhaustive, cases, default) ==
    Join(sc, Concat([i \in DOMAIN cases |-> Flow(cases[i])])
             \o (IF s.hasDefault /\ ~exhaustive THEN Flow(default) ELSE << >>)
             \o (IF ~s.hasDefault /\ ~exhaustive THEN <<sc>> ELSE << >>)
             \o Concat([i \in DOMAIN cases |-> cases[i].brk])
             \o (IF exhaustive THEN << >> ELSE default.brk),
         /\ s.hasDefault \/ exhaustive
         /\ default.ok
         /\ \A i \in DOMAIN cases : cases[i].ok,
         << >>)

CheckSwitch(sc, env, s) ==
    LET inner == [env EXCEPT !.break = TRUE]
    IN  Clauses(sc, s, UNION {s.cases[i].m : i \in DOMAIN s.cases} = ScrutVal,
                [i \in DOMAIN s.cases |-> CheckSeq(sc, inner, s.cases[i].ss)],
                CheckSeq(sc, inner, s.default))

CheckStmt(sc, env, s) ==
    CASE s.k = "block" -> CheckSeq(sc, env, s.ss)
      [] s.k = "decl" -> CheckDecl(sc, env, s)
      [] s.k = "assign" -> CheckAssign(sc, env, s)
      [] s.k = "if" -> CheckIf(sc, env, s)
      [] s.k = "while" -> CheckWhile(sc, env, s)
      [] s.k = "for" -> CheckFor(sc, env, s)
      [] s.k = "switch" -> CheckSwitch(sc, env, s)
      [] s.k = "defer" ->
            LET c == CheckExpr(sc, env, Call(s.f, <<Loc(s.f), s.e>>), FALSE)
            IN  Checked(c.sc, TRUE, c.ok, << >>)
      [] s.k = "return" ->
            LET c == CheckExpr(sc, [env EXCEPT !.move = TRUE], s.e, TRUE)
            IN  Checked(c.sc, FALSE, c.ok, << >>)
      [] s.k = "break" -> Checked(sc, FALSE, env.break, <<sc>>)
      [] s.k = "continue" -> Checked(sc, FALSE, env.continue, << >>)
      [] s.k = "expr" ->
            LET c == CheckExpr(sc, env, s.e, TRUE)
            IN  Checked(c.sc, ~IsNever(s.e), c.ok, << >>)

(* check_function_body: parameters start assigned, and a function with a   *)
(* result must not fall off its end.                                       *)
EntryScopes(params) ==
    [x \in params |-> [s |-> "Assigned", d |-> 0]]
    @@ [x \in Local |-> [s |-> "Unassigned", d |-> 0]]

Accepted(fn) ==
    LET env == [depth |-> 0, break |-> FALSE, continue |-> FALSE, move |-> FALSE]
        c == CheckSeq(EntryScopes(fn.params), env, fn.body)
    IN  c.ok /\ (fn.result => ~c.fall)
=============================================================================
