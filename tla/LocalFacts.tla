----------------------------- MODULE LocalFacts -----------------------------
(***************************************************************************)
(* The two analyses that decide where a local lives.                       *)
(*                                                                         *)
(* What the type checker records about an async body for the code          *)
(* generator (typeck/async_check.rs): which locals must live in the heap   *)
(* frame because they are live across an await, and the list of await      *)
(* result slots.  The liveness analysis runs backwards.  A result is the   *)
(* set live of locals live before the statement and the set across of      *)
(* locals found live at some await inside it; brk and cont are the live    *)
(* sets at the targets of the nearest break and continue.                  *)
(*                                                                         *)
(* Escape analysis (escape.rs): which locals of a function are promoted to *)
(* the heap, and which parameters of a callee escape.  It is one pass over *)
(* the tree in source order.  Its state es has the storage each pointer    *)
(* local may stand for, the promoted locals and the escaping parameters.   *)
(***************************************************************************)
EXTENDS CielTree

RECURSIVE HasAwait(_)
HasAwait(e) ==
    e.k = "await" \/ \E i \in DOMAIN Operands(e) : HasAwait(Operands(e)[i])

(* collect_awaits_in_expr: at every await of an expression, what is live   *)
(* after the expression and all the locals of the expression are live.     *)
AcrossExpr(e, live) == IF HasAwait(e) THEN live \cup UsedLocals(e) ELSE {}

Live(live, across) == [live |-> live, across |-> across]

LiveBeforeExpr(e, live) == Live(live \cup UsedLocals(e), AcrossExpr(e, live))

LiveBoth(first, rest) == Live(first.live, rest.across \cup first.across)

RECURSIVE LiveStmt(_, _, _, _), LiveSeq(_, _, _, _)
LiveSeq(ss, after, brk, cont) ==
    IF ss = << >> THEN Live(after, {})
    ELSE With(LiveSeq(Tail(ss), after, brk, cont),
              LAMBDA rest : LiveBoth(LiveStmt(Head(ss), rest.live, brk, cont), rest))

(* A mutant: the end of the body leads behind the loop, never around it. *)
LoopPassOnce(s, step, guess, after) ==
    LET body == LiveSeq(s.body, after, after, after)
    IN  Live(after \cup UsedLocals(s.c) \cup body.live,
             body.across \cup AcrossExpr(s.c, guess))

(* The loop's fixpoint: live before the loop from a guess of it.  The      *)
(* continue target is the step when there is one.                          *)
LoopPass(s, step, guess, after) ==
    LET st == IF IsSome(step) THEN LiveStmt(step, guess, {}, {}) ELSE Live(guess, {})
        body == LiveSeq(s.body, st.live, after, st.live)
    IN  Live(after \cup UsedLocals(s.c) \cup body.live,
             st.across \cup body.across \cup AcrossExpr(s.c, guess))

RECURSIVE LoopFix(_, _, _, _)
LoopFix(s, step, guess, after) ==
    LET next == LoopPass(s, step, guess, after)
    IN  IF next.live = guess THEN next ELSE LoopFix(s, step, next.live, after)

LiveLoop(s, step, after) == LoopFix(s, step, after \cup UsedLocals(s.c), after)

LiveIf(s, after, brk, cont) ==
    LET th == LiveSeq(s.th, after, brk, cont)
        el == IF IsSome(s.el) THEN LiveStmt(s.el, after, brk, cont) ELSE Live(after, {})
        c == LiveBeforeExpr(s.c, th.live \cup el.live)
    IN  Live(c.live, th.across \cup el.across \cup c.across)

LiveSwitch(s, after, cont) ==
    LET clauses == {LiveSeq(s.cases[i].ss, after, after, cont) : i \in DOMAIN s.cases}
                   \cup {LiveSeq(s.default, after, after, cont)}
    IN  Live(UNION {c.live : c \in clauses}, UNION {c.across : c \in clauses})

LiveStmt(s, after, brk, cont) ==
    CASE s.k = "block" -> LiveSeq(s.ss, after, brk, cont)
      [] s.k \in {"decl", "assign"} -> LiveBeforeExpr(s.e, after \ {s.x})
      [] s.k = "if" -> LiveIf(s, after, brk, cont)
      [] s.k = "while" -> LiveLoop(s, NoStmt, after)
      [] s.k = "for" ->
            LET loop == LiveLoop(s, s.step, after)
                init == IF IsSome(s.init) THEN LiveStmt(s.init, loop.live, {}, {})
                                          ELSE Live(loop.live, {})
            IN  Live(init.live, init.across \cup loop.across)
      [] s.k = "switch" -> LiveSwitch(s, after, cont)
      [] s.k = "defer" -> LiveBeforeExpr(Call(s.f, <<Loc(s.f), s.e>>), after)
      [] s.k = "expr" -> LiveBeforeExpr(s.e, after)
      [] s.k = "return" -> LiveBeforeExpr(s.e, {})
      [] s.k = "break" -> Live(brk, {})
      [] s.k = "continue" -> Live(cont, {})

(* async_facts_for_block: the frame holds what is live across an await and *)
(* every owned resource.                                                   *)
FrameLocals(fn) == LiveSeq(fn.body, {}, {}, {}).across \cup AffineLocal \cup fn.params

(* AsyncAwaitOutputCollector: the result types of the awaits, the operand  *)
(* of an await before the await itself.                                    *)
RECURSIVE AwaitOutputsExpr(_)
AwaitOutputsExpr(e) ==
    Concat([i \in DOMAIN Operands(e) |-> AwaitOutputsExpr(Operands(e)[i])])
    \o (IF e.k = "await" THEN <<e.ty>> ELSE << >>)

RECURSIVE AwaitOutputs(_)
AwaitOutputs(s) ==
    LET seq(ss) == Concat([i \in DOMAIN ss |-> AwaitOutputs(ss[i])])
    IN  CASE s.k = "block" -> seq(s.ss)
          [] s.k \in {"decl", "assign", "defer", "expr", "return"} -> AwaitOutputsExpr(s.e)
          [] s.k = "if" -> AwaitOutputsExpr(s.c) \o seq(s.th) \o AwaitOutputs(s.el)
          [] s.k = "while" -> AwaitOutputsExpr(s.c) \o seq(s.body)
          [] s.k = "for" -> AwaitOutputs(s.init) \o AwaitOutputsExpr(s.c) \o seq(s.body)
                            \o AwaitOutputs(s.step)
          [] s.k = "switch" ->
                LET g == GroupedCases(s.cases)
                IN  Concat([i \in DOMAIN g |-> seq(g[i].ss)]) \o seq(s.default)
          [] OTHER -> << >>
-----------------------------------------------------------------------------
(* Escape analysis.                                                        *)

RECURSIVE Sources(_, _)
Sources(es, e) ==
    CASE e.k = "addr" -> {e.x}
      [] e.k = "local" -> IF es.alias[e.x] # {} THEN es.alias[e.x]
                          ELSE {e.x} \cap es.params
      [] e.k \in {"await", "try"} -> Sources(es, e.e)
      [] OTHER -> {}

(* escape_sources *)
EscapeSources(es, sources) ==
    [es EXCEPT !.heap = @ \cup (sources \ es.params), !.out = @ \cup (sources \cap es.params)]

Escapes(es, e) == EscapeSources(es, Sources(es, e))

(* The operands in order, then the arguments that the callee lets escape. *)
RECURSIVE ScanExpr(_, _, _), ScanExprs(_, _, _)
ScanExprs(es, args, sums) ==
    IF args = << >> THEN es ELSE ScanExprs(ScanExpr(es, Head(args), sums), Tail(args), sums)

ScanExpr(es, e, sums) ==
    LET inner == ScanExprs(es, Operands(e), sums)
    IN  IF e.k # "call" THEN inner
        ELSE EscapeSources(inner, UNION {Sources(es, e.es[i]) : i \in sums[e.f] \cap DOMAIN e.es})

(* A mutant: a copy of a pointer is not followed. *)
AliasForgotten(es, x, e) == [es EXCEPT !.alias[x] = {}]

(* update_alias replaces what the local stood for. *)
UpdateAlias(es, x, e) == [es EXCEPT !.alias[x] = Sources(es, e)]

RECURSIVE ScanStmt(_, _, _), ScanSeq(_, _, _)
ScanSeq(es, ss, sums) ==
    IF ss = << >> THEN es
    ELSE With(ScanStmt(es, Head(ss), sums), LAMBDA next : ScanSeq(next, Tail(ss), sums))

ScanStmt(es, s, sums) ==
    LET scan(acc, e) == ScanExpr(acc, e, sums)
        clause(acc, s2) == IF IsSome(s2) THEN ScanStmt(acc, s2, sums) ELSE acc
    IN  CASE s.k = "block" -> ScanSeq(es, s.ss, sums)
          [] s.k \in {"decl", "assign"} -> UpdateAlias(scan(es, s.e), s.x, s.e)
          [] s.k = "if" -> clause(ScanSeq(scan(es, s.c), s.th, sums), s.el)
          [] s.k = "while" -> ScanSeq(scan(es, s.c), s.body, sums)
          [] s.k = "for" -> ScanSeq(clause(scan(clause(es, s.init), s.c), s.step), s.body, sums)
          [] s.k = "switch" ->
                ScanSeq(FoldLeft(LAMBDA acc, c : ScanSeq(acc, c.ss, sums), es, s.cases),
                        s.default, sums)
          [] s.k = "expr" -> scan(es, s.e)
          [] s.k \in {"defer", "return"} -> Escapes(scan(es, s.e), s.e)
          [] OTHER -> es

(* analyze_function *)
Analyze(body, params, sums) ==
    ScanSeq([alias |-> [x \in Local |-> {}], heap |-> {}, out |-> {}, params |-> params],
            body, sums)

(* analyze_escapes: the summaries of the callees, iterated until stable. *)
RECURSIVE Summaries(_)
Summaries(sums) ==
    LET next == [f \in DOMAIN sums |->
                    IF f \in DOMAIN Externs THEN Externs[f]
                    ELSE LET fn == Callees[f]
                             out == Analyze(fn.body, Range(fn.params), sums).out
                         IN  {i \in DOMAIN fn.params : fn.params[i] \in out}]
    IN  IF next = sums THEN sums ELSE Summaries(next)

CalleeSummaries ==
    Summaries([f \in DOMAIN Externs \cup DOMAIN Callees |->
                  IF f \in DOMAIN Externs THEN Externs[f] ELSE {}])

HeapLocals(fn) == Analyze(fn.body, fn.params, CalleeSummaries).heap
=============================================================================
