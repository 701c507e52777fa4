---------------------------- MODULE CielMachine ----------------------------
(***************************************************************************)
(* What a Ciel function body means (design.md, "Statements", "Expressions" *)
(* and "Defer"), as a machine that the compiled code is compared with.     *)
(*                                                                         *)
(* A configuration has the control stack ctl (next item first), the values *)
(* st of the locals, tmp for a resource that an unfinished expression has  *)
(* taken out of a local, res for the returned value, and bad, which        *)
(* records that the program did something the checker must exclude.  The   *)
(* stack holds statements, operations and three kinds of marks: a scope    *)
(* with its exit actions, a loop and a switch.  Items that the environment *)
(* can observe, or that need a choice of it, are events; every other item  *)
(* is executed silently by Settle.                                         *)
(***************************************************************************)
EXTENDS CielTree

(* Expressions are evaluated left to right, operands before operators. *)
RECURSIVE Ops(_)
Ops(e) ==
    CASE e.k = "local" -> <<[k |-> IF e.x \in AffineLocal THEN "take" ELSE "read", x |-> e.x]>>
      [] e.k = "addr" -> <<[k |-> "read", x |-> e.x]>>
      [] OTHER ->
            Concat([i \in DOMAIN Operands(e) |-> Ops(Operands(e)[i])])
            \o (CASE e.k = "call" -> <<[k |-> "op", f |-> e.f, es |-> e.es]>>
                  [] e.k = "await" -> <<[k |-> "await", ty |-> e.ty]>>
                  [] e.k = "try" -> <<[k |-> "try"]>>
                  [] OTHER -> << >>)

Scope == [k |-> "scope", acts |-> << >>]
Marks == {"loop", "switchend"}

(* The exit actions of the scopes among the first n items, innermost       *)
(* scope first, and last registered first in each.                         *)
Unwind(ctl, n) ==
    Concat([i \in 1..n |-> IF ctl[i].k = "scope" THEN Reverse(ctl[i].acts) ELSE << >>])

Register(ctl, act) == [ctl EXCEPT ![First(ctl, {"scope"})].acts = Append(@, act)]

(* Leaving the function: what an unfinished expression holds, then every   *)
(* open scope.                                                             *)
Leave(m) ==
    LET held == SetToSeq({x \in AffineLocal : m.tmp[x] = "live"})
    IN  [i \in DOMAIN held |-> [k |-> "droptemp", x |-> held[i]]] \o Unwind(m.ctl, Len(m.ctl))

SourceEvents == {"op", "await", "try", "if", "switch", "iterate", "dcall", "return"}

Observable(m) ==
    LET i == Head(m.ctl)
    IN  \/ i.k \in SourceEvents \ {"if", "switch"}
        \/ i.k \in {"branch", "select"}
        \/ i.k = "drop" /\ m.st[i.x] = "live"
        \/ i.k = "droptemp" /\ m.tmp[i.x] = "live"

Owned(x, v) == IF x \in AffineLocal THEN "live" ELSE v

(* One silent item; rest is the control stack behind it. *)
Silent(m, i, rest) ==
    LET to(ctl) == [m EXCEPT !.ctl = ctl]
    IN  CASE i.k = "block" -> to(i.ss \o <<Scope>> \o rest)
          [] i.k = "decl" ->
                to(<<[k |-> "forget", x |-> i.x]>>
                   \o (IF IsSome(i.e) THEN Ops(i.e) \o <<[k |-> "set", x |-> i.x, e |-> i.e]>>
                                      ELSE << >>)
                   \o (IF i.x \in AffineLocal THEN <<[k |-> "own", x |-> i.x]>> ELSE << >>) \o rest)
          [] i.k = "forget" -> [to(rest) EXCEPT !.st[i.x] = "none"]
          [] i.k = "own" -> to(Register(rest, [k |-> "drop", x |-> i.x]))
          [] i.k = "assign" ->
                to(Ops(i.e) \o (IF i.x \in AffineLocal THEN <<[k |-> "drop", x |-> i.x]>> ELSE << >>)
                   \o <<[k |-> "set", x |-> i.x, e |-> i.e]>> \o rest)
          [] i.k = "set" ->
                [to(rest) EXCEPT !.st[i.x] = Owned(i.x, Value(m, i.e)),
                                 !.tmp = [x \in AffineLocal |-> IF i.e = Loc(x) THEN "zero" ELSE m.tmp[x]],
                                 !.bad = @ \/ (i.x \in ImmutableLocal /\ m.st[i.x] # "none")]
          [] i.k = "read" -> [to(rest) EXCEPT !.bad = @ \/ m.st[i.x] \in {"none", "zero"}]
          [] i.k = "take" -> [to(rest) EXCEPT !.tmp[i.x] = "live", !.st[i.x] = "zero",
                                              !.bad = @ \/ m.st[i.x] # "live"]
          [] i.k \in {"drop", "droptemp"} -> to(rest)
          [] i.k = "if" ->
                to(Ops(i.c) \o <<[k |-> "branch", th |-> <<Block(i.th)>>,
                                  el |-> IF IsSome(i.el) THEN <<i.el>> ELSE << >>]>> \o rest)
          [] i.k = "while" ->
                to(<<[k |-> "iterate", c |-> i.c, step |-> NoStmt, body |-> i.body]>> \o rest)
          [] i.k = "for" ->
                to((IF IsSome(i.init) THEN <<i.init>> ELSE << >>)
                   \o <<[k |-> "iterate", c |-> i.c, step |-> i.step, body |-> i.body], Scope>> \o rest)
          [] i.k = "loop" ->
                to((IF IsSome(i.again.step) THEN <<i.again.step>> ELSE << >>) \o <<i.again>> \o rest)
          [] i.k = "switch" -> to(<<[k |-> "select", s |-> i]>> \o rest)
          [] i.k = "switchend" -> to(rest)
          [] i.k = "scope" -> to(Reverse(i.acts) \o rest)
          [] i.k = "break" -> LET n == First(rest, Marks)
                              IN  to(Unwind(rest, n) \o After(rest, n + 1))
          [] i.k = "continue" -> LET n == First(rest, {"loop"})
                                 IN  to(Unwind(rest, n) \o After(rest, n))
          [] i.k = "defer" -> to(<<[k |-> "read", x |-> i.f]>> \o Ops(i.e)
                                 \o <<[k |-> "arm", f |-> i.f, e |-> i.e]>> \o rest)
          [] i.k = "arm" ->
                to(Register(rest, [k |-> "dcall", fv |-> m.st[i.f], av |-> Value(m, i.e)]))
          [] i.k = "expr" -> to(Ops(i.e) \o rest)
          [] i.k = "result" ->
                LET done == [m EXCEPT !.tmp = [x \in AffineLocal |-> IF i.e = Loc(x) THEN "zero" ELSE m.tmp[x]]]
                IN  [done EXCEPT !.ctl = Leave(done) \o <<[k |-> "return"]>>, !.res = Value(m, i.e)]
          [] i.k = "missing" -> [to(rest) EXCEPT !.bad = TRUE]

(* A source return is an expression, a result and the way out. *)
Expand(m) ==
    IF Head(m.ctl).k = "return" /\ "e" \in DOMAIN Head(m.ctl)
    THEN [m EXCEPT !.ctl = Ops(Head(m.ctl).e) \o <<[k |-> "result", e |-> Head(m.ctl).e]>> \o Tail(@)]
    ELSE m

RECURSIVE Settle(_)
Settle(m0) ==
    LET m == Expand(m0)
    IN  IF m # m0 THEN Settle(m)
        ELSE IF Observable(m) THEN m
        ELSE Settle(Silent(m, Head(m.ctl), Tail(m.ctl)))

(* The event at which a settled configuration stands. *)
SourceEvent(m) ==
    LET i == Head(m.ctl)
    IN  CASE i.k = "op" -> <<"op", i.f, Values(m, i.es)>>
          [] i.k = "await" -> <<"await", i.ty>>
          [] i.k = "branch" -> <<"if">>
          [] i.k = "select" -> <<"switch">>
          [] i.k \in {"drop", "droptemp"} -> <<"release", i.x>>
          [] i.k = "dcall" -> <<"call", i.fv, i.av>>
          [] i.k = "return" -> <<"return", m.res>>
          [] OTHER -> <<i.k>>

Chosen(cases, v) ==
    LET hit == {i \in DOMAIN cases : v \in cases[i].m}
    IN  IF hit = {} THEN 0 ELSE CHOOSE i \in hit : \A j \in hit : i <= j

(* The configuration after the event, given the environment's choice.      *)
SourceStep(m, choice) ==
    LET i == Head(m.ctl)
        rest == Tail(m.ctl)
        to(ctl) == [m EXCEPT !.ctl = ctl]
        loop == [k |-> "loop", again |-> i]
        body == <<Block(i.body), loop>>
        clause == LET n == Chosen(i.s.cases, choice)
                  IN  IF n = 0 THEN i.s.default ELSE i.s.cases[n].ss
    IN  CASE i.k = "op" ->
                [to(rest) EXCEPT !.tmp = [x \in AffineLocal |->
                                            IF Loc(x) \in Range(i.es) THEN "zero" ELSE m.tmp[x]]]
          [] i.k = "try" ->
                IF choice = "ok" THEN to(rest)
                ELSE [to(Leave(m) \o <<[k |-> "return"]>>) EXCEPT !.res = "error"]
          [] i.k = "await" ->
                IF choice = "abort"
                THEN [to(Leave(m) \o <<[k |-> "return"]>>) EXCEPT !.res = "aborted"]
                ELSE to(rest)
          [] i.k = "branch" -> to((IF choice = "then" THEN i.th ELSE i.el) \o rest)
          [] i.k = "iterate" ->
                to((IF IsSome(i.c) /\ i.c # TrueLit
                    THEN Ops(i.c) \o <<[k |-> "branch", th |-> body, el |-> << >>]>>
                    ELSE body) \o rest)
          [] i.k = "select" -> to(<<Block(clause), [k |-> "switchend"]>> \o rest)
          [] i.k = "drop" -> [to(rest) EXCEPT !.st[i.x] = "zero"]
          [] i.k = "droptemp" -> [to(rest) EXCEPT !.tmp[i.x] = "zero"]
          [] OTHER -> to(rest)

SourceStart(fn) ==
    LET owned == SetToSeq(fn.params \cap AffineLocal)
        root == [Scope EXCEPT !.acts = [i \in DOMAIN owned |-> [k |-> "drop", x |-> owned[i]]]]
    IN  [ctl |-> fn.body \o <<root>> \o (IF fn.result THEN <<[k |-> "missing"]>> ELSE << >>)
                 \o <<[k |-> "return"]>>,
         st |-> [x \in Local |-> IF x \notin fn.params THEN "none"
                                 ELSE Owned(x, "1")],
         tmp |-> [x \in AffineLocal |-> "zero"], res |-> "void", bad |-> FALSE]
=============================================================================
