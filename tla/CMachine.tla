------------------------------ MODULE CMachine ------------------------------
(***************************************************************************)
(* The meaning of the emitted C.  A configuration has the control stack    *)
(* ctl, the objects st behind the locals, tmp for the C locals that a      *)
(* resource move goes through, slot for the defer arguments, flag for the  *)
(* matched flags, res for the result and bad for undefined behaviour.  An  *)
(* object is "junk" while its value is indeterminate.                      *)
(*                                                                         *)
(* C has no hidden control state, so jumping to a resume label inside      *)
(* nested statements continues with the same control stack; only objects   *)
(* that are not in the heap frame are new.                                 *)
(***************************************************************************)
EXTENDS CielTree

CObservable(m) ==
    LET i == Head(m.ctl)
    IN  \/ i.k \in {"op", "await", "try", "if", "loop", "switch", "dcall", "return", "stuck"}
        \/ i.k = "clean" /\ m.st[i.x] = "live"
        \/ i.k = "cleantemp" /\ m.tmp[i.x] = "live"

(* A break leaves the nearest loop or switch; outside of both the C does   *)
(* not compile.                                                            *)
BreakTo(ctl) ==
    LET n == First(ctl, {"loopend", "switchend"})
    IN  IF n = 0 THEN <<[k |-> "stuck"]>> ELSE After(ctl, n + 1)

CSilent(m, i, rest, frame) ==
    LET to(ctl) == [m EXCEPT !.ctl = ctl]
    IN  CASE i.k = "read" -> [to(rest) EXCEPT !.bad = @ \/ m.st[i.x] \in {"junk", "zero"}]
          [] i.k = "move" -> [to(rest) EXCEPT !.tmp[i.x] = m.st[i.x], !.st[i.x] = "zero",
                                              !.bad = @ \/ m.st[i.x] # "live"]
          [] i.k = "decl" -> IF i.x \in frame THEN to(rest)
                             ELSE [to(rest) EXCEPT !.st[i.x] = IF i.x \in AffineLocal THEN "zero" ELSE "junk"]
          [] i.k = "set" ->
                [to(rest) EXCEPT !.st[i.x] = IF i.x \in AffineLocal /\ i.e.k # "local" THEN "live"
                                             ELSE Value(m, i.e)]
          [] i.k = "clean" -> [to(rest) EXCEPT !.bad = @ \/ m.st[i.x] = "junk"]
          [] i.k = "cleantemp" -> [to(rest) EXCEPT !.bad = @ \/ m.tmp[i.x] = "junk"]
          [] i.k = "arm" -> [to(rest) EXCEPT !.slot = (i.n :> Value(m, i.e)) @@ @]
          [] i.k = "result" -> [to(rest) EXCEPT !.res = Value(m, i.e)]
          [] i.k = "loopend" -> to(i.loop.step \o <<i.loop>> \o rest)
          [] i.k \in {"switchend", "label"} -> to(rest)
          [] i.k = "flag" -> [to(rest) EXCEPT !.flag = (i.n :> i.to) @@ @]
          [] i.k = "unless" -> to((IF m.flag[i.n] THEN << >> ELSE i.code) \o rest)
          [] i.k = "break" -> to(BreakTo(rest))
          [] i.k = "continue" -> to(After(rest, First(rest, {"loopend"})))
          [] i.k = "goto" ->
                to(After(rest, CHOOSE n \in DOMAIN rest : rest[n] = [k |-> "label", lab |-> i.lab]))

RECURSIVE CSettle(_, _)
CSettle(m, frame) ==
    IF CObservable(m) THEN m
    ELSE CSettle(CSilent(m, Head(m.ctl), Tail(m.ctl), frame), frame)

CEvent(m) ==
    LET i == Head(m.ctl)
    IN  CASE i.k = "op" -> <<"op", i.f, [n \in DOMAIN i.es |-> Value(m, i.es[n])]>>
          [] i.k = "await" -> <<"await", i.ty>>
          [] i.k = "loop" -> <<"iterate">>
          [] i.k \in {"clean", "cleantemp"} -> <<"release", i.x>>
          [] i.k = "dcall" -> <<"call", m.st[i.f], m.slot[i.n]>>
          [] i.k = "return" -> <<"return", m.res>>
          [] OTHER -> <<i.k>>

CClause(cases, v) ==
    LET hit == {i \in DOMAIN cases : cases[i].v = v[1] /\ v \in cases[i].m}
    IN  IF hit = {} THEN << >> ELSE cases[CHOOSE i \in hit : \A j \in hit : i <= j].code

CStep(m, choice) ==
    LET i == Head(m.ctl)
        rest == Tail(m.ctl)
        to(ctl) == [m EXCEPT !.ctl = ctl]
        body == i.body \o <<[k |-> "loopend", loop |-> i]>>
        leave(code, res) == [to(code \o <<[k |-> "return"]>>) EXCEPT !.res = res]
    IN  CASE i.k = "try" -> IF choice = "ok" THEN to(rest) ELSE leave(i.err, "error")
          [] i.k = "await" -> IF choice = "abort" THEN leave(i.abort, "aborted") ELSE to(rest)
          [] i.k = "if" -> to((IF choice = "then" THEN i.th ELSE i.el) \o rest)
          [] i.k = "loop" ->
                to(i.cond \o (IF i.test THEN <<[k |-> "if", th |-> body, el |-> << >>]>> ELSE body)
                   \o rest)
          [] i.k = "switch" -> to(CClause(i.cases, choice) \o <<[k |-> "switchend"]>> \o rest)
          [] i.k = "clean" -> [to(rest) EXCEPT !.st[i.x] = "zero"]
          [] i.k = "cleantemp" -> [to(rest) EXCEPT !.tmp[i.x] = "zero"]
          [] OTHER -> to(rest)

(* Returning EAGAIN and being polled again: what is not in the frame is    *)
(* indeterminate; flag gives what the matched flags happen to hold.        *)
Suspended(m, frame, flag) ==
    [m EXCEPT !.st = [x \in Local |-> IF x \in frame THEN @[x] ELSE "junk"],
              !.tmp = [x \in AffineLocal |-> "junk"], !.flag = flag]

(* ciel_alloc and memset: an affine frame slot starts out zero. *)
CStart(fn, code) ==
    [ctl |-> code,
     st |-> [x \in Local |-> CASE x \in fn.params -> IF x \in AffineLocal THEN "live" ELSE "1"
                               [] x \in AffineLocal -> "zero"
                               [] OTHER -> "junk"],
     tmp |-> [x \in AffineLocal |-> "junk"], slot |-> << >>, flag |-> << >>, res |-> "void",
     bad |-> FALSE]
=============================================================================
