------------------------------- MODULE Compile -------------------------------
(***************************************************************************)
(* One function through the compiler and then run: the type checker's flow *)
(* analysis, the async facts, escape analysis and C code generation, in    *)
(* the order in which the driver calls them, followed by an execution of   *)
(* the emitted C next to an execution of the source.  The two executions   *)
(* go from event to event and get the same answers from the environment.   *)
(***************************************************************************)
EXTENDS FlowCheck, LocalFacts, CodegenC, CielMachine, CMachine

(* A sequence of sets of functions. *)
CONSTANT Functions

VARIABLES fn, stage, facts, src, obj

vars == <<fn, stage, facts, src, obj>>

NoFacts == [frame |-> Local, slots |-> << >>, heap |-> {}, awaits |-> 0, unpolled |-> << >>]

Init ==
    /\ \E i \in DOMAIN Functions : fn \in Functions[i]
    /\ stage = "parsed"
    /\ facts = NoFacts
    /\ src = SourceStart(fn)
    /\ obj = CStart(fn, << >>)

(* check_program: a diagnostic ends the compilation. *)
Check ==
    /\ stage = "parsed"
    /\ stage' = IF Accepted(fn) THEN "checked" ELSE "rejected"
    /\ UNCHANGED <<fn, facts, src, obj>>

Output(out) ==
    /\ facts' = [frame |-> IF fn.async THEN FrameLocals(fn) ELSE {},
                 slots |-> Concat([i \in DOMAIN fn.body |-> AwaitOutputs(fn.body[i])]),
                 heap |-> HeapLocals(fn), awaits |-> out.awaits, unpolled |-> out.unpolled]
    /\ obj' = CStart(fn, out.code)

(* analyze_escapes and codegen *)
Generate ==
    /\ stage = "checked"
    /\ Output(GenFunction(fn))
    /\ stage' = "created"
    /\ UNCHANGED <<fn, src>>

(* The call runs a sync function; for an async one it is the first poll. *)
Start ==
    /\ stage = "created"
    /\ src' = Settle(src)
    /\ obj' = CSettle(obj, facts.frame)
    /\ stage' = "running"
    /\ UNCHANGED <<fn, facts>>

(* A future that was never polled is dropped: its cleanup_state is 0. *)
DropUnpolled ==
    /\ stage = "created"
    /\ fn.async
    /\ src' = Settle([src EXCEPT !.ctl = Leave(src) \o <<[k |-> "return"]>>])
    /\ obj' = CSettle([obj EXCEPT !.ctl = facts.unpolled \o <<[k |-> "return"]>>], facts.frame)
    /\ stage' = "running"
    /\ UNCHANGED <<fn, facts>>

Agree == SourceEvent(src) = CEvent(obj)

Advance(choice) ==
    /\ src' = Settle(SourceStep(src, choice))
    /\ obj' = CSettle(CStep(obj, choice), facts.frame)

At(event) == stage = "running" /\ Agree /\ SourceEvent(src)[1] = event

Answers == [if |-> {"then", "else"}, try |-> {"ok", "err"}, switch |-> ScrutVal,
            op |-> {"go"}, call |-> {"go"}, release |-> {"go"}, iterate |-> {"go"}]

Exits == SourceEvent(src)[1] = "op" /\ SourceEvent(src)[2] = "exit"

Run ==
    /\ stage = "running" /\ Agree /\ SourceEvent(src)[1] \in DOMAIN Answers /\ ~Exits
    /\ \E choice \in Answers[SourceEvent(src)[1]] : Advance(choice)
    /\ UNCHANGED <<fn, stage, facts>>

(* ciel_future_poll returned at once, or EAGAIN and the task suspends. *)
Ready ==
    /\ At("await")
    /\ Advance("ready")
    /\ UNCHANGED <<fn, stage, facts>>

Suspend ==
    /\ At("await")
    /\ \E flag \in [DOMAIN obj.flag -> BOOLEAN] : obj' = Suspended(obj, facts.frame, flag)
    /\ stage' = "suspended"
    /\ UNCHANGED <<fn, facts, src>>

Resume ==
    /\ stage = "suspended"
    /\ Advance("ready")
    /\ stage' = "running"
    /\ UNCHANGED <<fn, facts>>

(* The generated cleanup function, called when the task is aborted. *)
Abort ==
    /\ stage = "suspended"
    /\ Advance("abort")
    /\ stage' = "running"
    /\ UNCHANGED <<fn, facts>>

Finish ==
    /\ At("return") \/ (At("op") /\ Exits)
    /\ stage' = "done"
    /\ UNCHANGED <<fn, facts, src, obj>>

Next ==
    \/ Check \/ Generate \/ Start \/ DropUnpolled \/ Run \/ Ready \/ Suspend \/ Resume
    \/ Abort \/ Finish

Spec == Init /\ [][Next]_vars

-----------------------------------------------------------------------------
Executing == stage \in {"running", "suspended", "done"}

(* The type checker's flow analysis is sound: a function it accepted never *)
(* reads a local that is unassigned or moved away, never initialises an    *)
(* immutable binding twice, and never falls off the end without a result.  *)
CheckedIsSafe == Executing => ~src.bad

(* The emitted C does what the source says, in the same order: the same    *)
(* calls with the same values, deferred calls and resource releases, the   *)
(* same result, on every path and also when the task is aborted.           *)
CompiledAgrees == stage = "running" => Agree

(* An await in the operand of another one. *)
RECURSIVE Nested(_)
Nested(e) ==
    \/ e.k = "await" /\ HasAwait(e.e)
    \/ \E i \in DOMAIN Operands(e) : Nested(Operands(e)[i])
NestsAwaits ==
    \E s \in Range(fn.body) : \E t \in {s} \cup Inside(s) : \E e \in Exprs(t) : Nested(e)

(* What an await stores has the type of its slot. *)
SlotFits ==
    stage = "running" /\ Head(obj.ctl).k = "await" => facts.slots[Head(obj.ctl).idx] = Head(obj.ctl).ty

(* The frame of an async function fits its code.  The emitted C reads no   *)
(* indeterminate object and closes none: whatever is used after an await   *)
(* was kept in the heap frame.  The checker's list of await slots is as    *)
(* long as the one that code generation uses: every resume label that is   *)
(* dispatched to exists.  What an await stores has the type of its slot,   *)
(* in a function in which no await has another one in its operand: there   *)
(* the collector numbers the inner await first and code generation the     *)
(* outer one, and SlotFits does not hold.                                  *)
FrameKeepsLive ==
    /\ Executing => ~obj.bad
    /\ stage \notin {"parsed", "checked", "rejected"} => Len(facts.slots) = facts.awaits
    /\ SlotFits \/ NestsAwaits

Leaks ==
    LET i == Head(obj.ctl)
    IN  CASE i.k = "return" -> {obj.res}
          [] i.k = "op" -> Kept(i.f, Values(obj, i.es))
          [] i.k = "dcall" -> {obj.slot[i.n]}
          [] OTHER -> {}

(* A local whose address is returned, or goes where an extern keeps it,    *)
(* was promoted to the heap: "Escape analysis is conservative. If unsure,  *)
(* promote." (design.md:2311).                                             *)
AddressesPromoted == stage = "running" => Leaks \cap Local \subseteq facts.heap

(* A branch, a loop or a block makes a pointer refer to something else. *)
RebindsInside ==
    \E s \in Range(fn.body) : \E t \in Inside(s) : t.k = "assign" /\ t.e.k \in {"addr", "local"}

(* The address of a stack local gets out of no function whose pointers are *)
(* assigned in straight-line code, whatever copies, branches, loops, calls *)
(* and deferred calls use them.  Where a pointer is assigned inside a      *)
(* branch or a loop, the analysis forgets what it stood for before, and    *)
(* AddressesPromoted does not hold.                                        *)
NoDangling == AddressesPromoted \/ RebindsInside
=============================================================================
