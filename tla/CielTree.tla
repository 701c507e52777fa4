----------------------------- MODULE CielTree -----------------------------
(***************************************************************************)
(* The typed tree (src/src/thir) that the middle and back end of the       *)
(* compiler pass around, cut down to what control flow, initialisation,    *)
(* ownership and suspension depend on.  A local is a LocalId: the resolver *)
(* has made every declaration unique.  AffineLocal are the locals whose    *)
(* type owns a resource, ImmutableLocal the ones declared without `mut`.   *)
(* Externs maps the functions without a body to the argument positions     *)
(* they may keep (pointers, unless the function is noescape); Callees maps *)
(* other functions of the program to their parameters and bodies.          *)
(***************************************************************************)
EXTENDS Integers, Sequences, FiniteSets, SequencesExt

CONSTANTS Local, AffineLocal, ImmutableLocal, Externs, Callees

ASSUME LocalKinds == AffineLocal \subseteq Local /\ ImmutableLocal \subseteq Local

(* Expressions.  Call stands for every operation with an effect: its       *)
(* operands are evaluated and consumed, its result is opaque.  Every other *)
(* TExprKind either forwards to its operands or is a constant.             *)
Lit(v) == [k |-> "lit", v |-> v]
Loc(x) == [k |-> "local", x |-> x]
Addr(x) == [k |-> "addr", x |-> x]
Call(f, es) == [k |-> "call", f |-> f, es |-> es]
Await(ty, e) == [k |-> "await", ty |-> ty, e |-> e]
Try(e) == [k |-> "try", e |-> e]
NoExpr == [k |-> "no"]
TrueLit == Lit("true")
Cond == Call("cond", << >>)

(* Statements.  A block is a sequence of statements; a case has the index  *)
(* of its variant and the set of scrutinee values its pattern matches.     *)
Block(ss) == [k |-> "block", ss |-> ss]
VarDecl(x, e) == [k |-> "decl", x |-> x, e |-> e]
Assign(x, e) == [k |-> "assign", x |-> x, e |-> e]
If(c, th, el) == [k |-> "if", c |-> c, th |-> th, el |-> el]
While(c, body) == [k |-> "while", c |-> c, body |-> body]
For(init, c, step, body) ==
    [k |-> "for", init |-> init, c |-> c, step |-> step, body |-> body]
Case(v, m, ss) == [v |-> v, m |-> m, ss |-> ss]
Switch(cases, hasDefault, default) ==
    [k |-> "switch", cases |-> cases, hasDefault |-> hasDefault, default |-> default]
Defer(f, e) == [k |-> "defer", f |-> f, e |-> e]
Return(e) == [k |-> "return", e |-> e]
Break == [k |-> "break"]
Continue == [k |-> "continue"]
Expr(e) == [k |-> "expr", e |-> e]
NoStmt == [k |-> "no"]

IsSome(n) == n.k # "no"

(* An expression of type never: a call of a function that does not return. *)
IsNever(e) == e.k = "call" /\ e.f = "exit"

(* A scrutinee value is <<variant, payload>>. *)
ScrutVal == {<<1, 0>>, <<1, 1>>, <<2, 0>>}

Concat(seqs) == FlattenSeq(seqs)

(* Op(x), where TLC evaluates x before Op: a pass over a body hands on the *)
(* state it has reached, and never the expression that computes it.        *)
With(x, Op(_)) == [v \in {x} |-> Op(v)][x]

(* walk_expr: the operands of an expression, left to right. *)
Operands(e) ==
    CASE e.k = "call" -> e.es
      [] e.k \in {"await", "try"} -> <<e.e>>
      [] OTHER -> << >>

(* The statements directly in a statement, and the expressions.            *)
Parts(s) ==
    CASE s.k = "block" -> Range(s.ss)
      [] s.k = "if" -> Range(s.th) \cup {s.el}
      [] s.k = "while" -> Range(s.body)
      [] s.k = "for" -> Range(s.body) \cup {s.init, s.step}
      [] s.k = "switch" -> UNION {Range(c.ss) : c \in Range(s.cases)} \cup Range(s.default)
      [] OTHER -> {}
Exprs(s) ==
    CASE s.k \in {"decl", "assign", "defer", "expr", "return"} -> {s.e}
      [] s.k \in {"if", "while", "for"} -> {s.c}
      [] OTHER -> {}

RECURSIVE Inside(_)
Inside(s) == Parts(s) \cup UNION {Inside(t) : t \in Parts(s)}

RECURSIVE UsedLocals(_)
UsedLocals(e) ==
    CASE e.k \in {"local", "addr"} -> {e.x}
      [] OTHER -> UNION {UsedLocals(Operands(e)[i]) : i \in DOMAIN Operands(e)}

(* What a call does with pointers: the value that the callee returns, and  *)
(* the ones that an extern has kept.  A callee is a single statement.      *)
RECURSIVE Returned(_, _), ReturnedBy(_, _)
Returned(f, vs) ==
    IF f \in DOMAIN Externs THEN "result"
    ELSE LET s == Callees[f].body[1]
         IN  IF s.k = "return" THEN ReturnedBy(s.e, [i \in DOMAIN vs |-> <<Callees[f].params[i], vs[i]>>])
                               ELSE "result"
ReturnedBy(e, bound) ==
    CASE e.k = "local" -> (CHOOSE b \in Range(bound) : b[1] = e.x)[2]
      [] e.k = "call" -> Returned(e.f, [i \in DOMAIN e.es |-> ReturnedBy(e.es[i], bound)])
      [] OTHER -> "result"

RECURSIVE Kept(_, _)
Kept(f, vs) ==
    IF f \in DOMAIN Externs THEN {vs[i] : i \in Externs[f]}
    ELSE LET e == Callees[f].body[1].e
             bound == [i \in DOMAIN vs |-> <<Callees[f].params[i], vs[i]>>]
         IN  IF e.k = "call" THEN Kept(e.f, [i \in DOMAIN e.es |-> ReturnedBy(e.es[i], bound)])
                             ELSE {}

(* The value of an expression whose operations are done, in a machine that *)
(* keeps a resource taken out of a local in tmp.                           *)
RECURSIVE Value(_, _)
Value(m, e) ==
    CASE e.k = "lit" -> e.v
      [] e.k = "local" -> IF e.x \in AffineLocal THEN m.tmp[e.x] ELSE m.st[e.x]
      [] e.k = "addr" -> e.x
      [] e.k = "call" -> Returned(e.f, [i \in DOMAIN e.es |-> Value(m, e.es[i])])
      [] OTHER -> "result"
Values(m, es) == [i \in DOMAIN es |-> Value(m, es[i])]

(* The first item of a control stack of one of the kinds, and what follows. *)
First(ctl, kinds) ==
    LET at == {i \in DOMAIN ctl : ctl[i].k \in kinds}
    IN  IF at = {} THEN 0 ELSE CHOOSE i \in at : \A j \in at : i <= j
After(ctl, i) == SubSeq(ctl, i, Len(ctl))

(* The cases in the order in which both the collectors and the code        *)
(* generator visit them: grouped by variant index, source order inside.    *)
GroupedCases(cases) ==
    Concat([v \in 1..2 |-> SelectSeq(cases, LAMBDA c : c.v = v)])
=============================================================================
