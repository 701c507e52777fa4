-------------------------------- MODULE Parser --------------------------------
(***************************************************************************)
(* The recursive descent parser of src/parser.rs, with its speculation and *)
(* its error recovery.                                                     *)
(*                                                                         *)
(* A parser state is a record: tokens and position, whether a diagnostic   *)
(* has been pushed, whether the current method returned Ok, and out, the   *)
(* nodes built so far by the methods on the call stack.  Every method maps *)
(* a state to a state and leaves a state that is not ok alone, as the `?`  *)
(* of the code does.  A node keeps the tokens it was built from, in order; *)
(* the syntax tree of the code keeps their spans.  A loop that comes back  *)
(* to the same token with the same tokens to read runs forever: the state  *)
(* is then marked stuck, and nothing recovers from it.                     *)
(*                                                                         *)
(* Left out: the wording and the number of diagnostics, and the ABI that   *)
(* an extern block lends to the function types in it.                      *)
(***************************************************************************)
EXTENDS Naturals, Sequences, FiniteSets, SequencesExt

Idents == {"x", "y", "T", "_", "fn", "resource", "derive", "derivable", "async", "await", "select", "biased",
           "has_feature"}

Primitives == {"never", "void", "i64"}

Literals == {"int", "huge", "str", "C", "true", "null"}

UnaryOps == {"!", "-", "~", "&", "*"}

OpeningOf == [paren |-> "(", brace |-> "{", bracket |-> "["]

ClosingOf == [paren |-> ")", brace |-> "}", bracket |-> "]"]

StatementHeads == {"if", "while", "for", "switch", "defer", "return", "break", "continue"}

TypeStarts == Idents \cup Primitives \cup {"unsafe", "extern", "*", "?*", "(", "[", "const"}

ExprStarts == Idents \cup Literals \cup UnaryOps \cup {"||", "|", "{", "[", "(", "unsafe", "err"}

ExprRecoveryStops == {",", ";", ":", ")", "]", "}", "case", "default"}

ItemStarters == {"import", "type", "struct", "enum", "interface", "impl", "extern", "unsafe", "export",
                 "resource", "derive", "derivable"}

\* The parser before its first token; the token list ends in "eof".
Parser(tokens) == [toks |-> tokens, pos |-> 1, diags |-> FALSE, ok |-> TRUE, stuck |-> FALSE, out |-> <<>>]

\* The kind of the token n places ahead (peek, peek_next, peek_n).
Peek(r, n) == IF r.pos + n \in DOMAIN r.toks THEN r.toks[r.pos + n] ELSE r.toks[r.pos]

At(r, kind) == r.ok /\ r.toks[r.pos] = kind

AtAny(r, kinds) == r.ok /\ r.toks[r.pos] \in kinds

AtIdent(r) == AtAny(r, Idents)

AtTypeGt(r) == AtAny(r, {">", ">>"})

Leaf(kind) == [k |-> kind, leaf |-> TRUE, c |-> <<>>]

Fail(r) == [r EXCEPT !.ok = FALSE]

\* A loop whose next round would find what this round found.
Hang(r) == [r EXCEPT !.ok = FALSE, !.stuck = TRUE]

Same(r, s) == r.pos = s.pos /\ r.toks = s.toks

\* The end s of a round that began in state r.
Progress(r, s) == IF s.ok /\ Same(r, s) THEN Hang(s) ELSE s

Diag(r) == IF r.ok THEN [r EXCEPT !.diags = TRUE] ELSE r

\* A caller that handles Err: the diagnostic is pushed and parsing goes on.
Rescue(r) == IF r.stuck THEN r ELSE [r EXCEPT !.ok = TRUE, !.diags = TRUE]

Advance(r) ==
    IF ~r.ok \/ At(r, "eof") THEN r
    ELSE [r EXCEPT !.pos = @ + 1, !.out = Append(@, Leaf(r.toks[r.pos]))]

Eat(r, kind) == IF At(r, kind) THEN Advance(r) ELSE r

Expect(r, kind) == IF At(r, kind) THEN Advance(r) ELSE Fail(r)

ExpectAny(r, kinds) == IF AtAny(r, kinds) THEN Advance(r) ELSE Fail(r)

ExpectIdent(r) == ExpectAny(r, Idents)

ExpectOrMissing(r, kind) == IF At(r, kind) THEN Advance(r) ELSE Diag(r)

ExpectIdentOrMissing(r) == IF AtIdent(r) THEN Advance(r) ELSE Diag(r)

\* MUTANT of EatTypeGt: a `>>` is never split.
EatTypeGtWhole(r) == Eat(r, ">")

\* A `>>` that closes two lists is split: the second half stays to be read.
EatTypeGt(r) ==
    IF At(r, ">>") THEN [r EXCEPT !.toks[r.pos] = ">", !.out = Append(@, Leaf(">"))] ELSE Eat(r, ">")

ExpectTypeGt(r) == IF AtTypeGt(r) THEN EatTypeGt(r) ELSE Fail(r)

\* Everything built since state r becomes one node.
Node(kind, r, s) ==
    IF ~s.ok THEN s
    ELSE LET mark == Len(r.out)
         IN  [s EXCEPT !.out = Append(SubSeq(@, 1, mark),
                                      [k |-> kind, leaf |-> FALSE, c |-> SubSeq(@, mark + 1, Len(@))])]

\* Parentheses leave no trace in the syntax tree of the code: what they enclose is what is seen.
RECURSIVE Enclosed(_)
Enclosed(node) ==
    IF node.k # "Paren" THEN node
    ELSE Enclosed(IF Last(node.c).k = ")" THEN node.c[Len(node.c) - 1] ELSE Last(node.c))

LastKind(r) == Enclosed(Last(r.out)).k

\* MUTANT of Rewind: the tokens are not restored, so a split `>>` stays split.
RewindPosition(r, saved) ==
    [r EXCEPT !.pos = saved.pos, !.diags = saved.diags, !.ok = TRUE, !.out = saved.out]

Rewind(r, saved) ==
    [r EXCEPT !.pos = saved.pos, !.toks = saved.toks, !.diags = saved.diags, !.ok = TRUE, !.out = saved.out]

(* ------------------------------ Skipping ------------------------------- *)

Nesting(depth, kind) ==
    [b \in DOMAIN depth |->
        IF kind = OpeningOf[b] THEN depth[b] + 1
        ELSE IF kind = ClosingOf[b] /\ depth[b] > 0 THEN depth[b] - 1 ELSE depth[b]]

\* Whether no bracket opened between positions from and to is still open.
Level0(r, from, to) ==
    LET flat == [paren |-> 0, brace |-> 0, bracket |-> 0]
    IN  FoldLeft(Nesting, flat, SubSeq(r.toks, from, to - 1)) = flat

\* The first position, outside the brackets opened on the way, in stops, or the end of the file.
SkipTarget(r, stops) ==
    CHOOSE q \in r.pos .. Len(r.toks) :
        /\ r.toks[q] = "eof" \/ (q \in stops /\ Level0(r, r.pos, q))
        /\ \A p \in r.pos .. q - 1 : ~(r.toks[p] = "eof" \/ (p \in stops /\ Level0(r, r.pos, p)))

\* The tokens before position q become an error node.
SkipTo(r, q) ==
    IF ~r.ok THEN r
    ELSE Node("Error", r, [r EXCEPT !.pos = q,
                                    !.out = @ \o [i \in 1 .. q - r.pos |-> Leaf(r.toks[r.pos + i - 1])]])

RecoverExprUntil(r, kinds) == SkipTo(r, SkipTarget(r, {q \in DOMAIN r.toks : r.toks[q] \in kinds}))

StructLiteralAt(r, q) == q + 2 <= Len(r.toks) /\ r.toks[q] = "{" /\ r.toks[q + 1] \in Idents /\ r.toks[q + 2] = ":"

StatementHeadAt(r, q) == r.toks[q] \in StatementHeads \/ (r.toks[q] = "{" /\ ~StructLiteralAt(r, q))

\* After a failed statement that began in state r0: past the next `;`, or before what looks like a statement.
SynchronizeStatement(r0, r) ==
    LET starter(q) == r.toks[q] \in {"}", "case", "default"} \cup TypeStarts \/ StatementHeadAt(r, q)
        q == SkipTarget(r, {p \in DOMAIN r.toks : r.toks[p] = ";" \/ (p > r0.pos /\ starter(p))})
    IN  SkipTo(r, IF r.toks[q] = ";" THEN q + 1 ELSE q)

SynchronizeItem(r0, r) ==
    LET q == SkipTarget(r, {p \in DOMAIN r.toks : r.toks[p] \in {";", "}"}
                                                 \/ (p > r0.pos /\ r.toks[p] \in ItemStarters)})
    IN  SkipTo(r, IF r.toks[q] \in {";", "}"} THEN q + 1 ELSE q)

\* The methods call one another through this operator.
RECURSIVE Call(_, _)
RECURSIVE TypeSuffixes(_, _)
RECURSIVE ParsePrefixType(_)
RECURSIVE PathTail(_)
RECURSIVE ConstraintArgs(_)
RECURSIVE ParseBinary(_, _)
RECURSIVE BinaryTail(_, _, _)
RECURSIVE PostfixTail(_, _, _)
RECURSIVE StrictTypes(_)
RECURSIVE SelectArms(_)
RECURSIVE ExprBlockParts(_)
RECURSIVE Statements(_, _)
RECURSIVE SwitchClauses(_)

(* -------------------------------- Types -------------------------------- *)

\* A method that failed after it was called in state r: its caller skips to one of kinds.
RecoverTo(r, s, kinds) == IF ~r.ok \/ s.ok THEN s ELSE RecoverExprUntil(Rescue(s), kinds)

ParseTypeRecovering(r, stops) == RecoverTo(r, Call("type", r), stops)

PathTail(r) == IF At(r, "::") THEN PathTail(ExpectIdent(Advance(r))) ELSE r

ParsePath(r) == PathTail(ExpectIdent(r))

\* parse_type_list and parse_type_arg_list_opt: the closing `>` or `)` is the caller's.
TypeArgs(r) ==
    IF ~At(r, "<") THEN r
    ELSE LET list == Call("types", Advance(r)) IN IF AtTypeGt(list) THEN EatTypeGt(list) ELSE Diag(list)

TypesInParens(r) ==
    LET open == Expect(r, "(") IN Expect(IF At(open, ")") THEN open ELSE Call("types", open), ")")

ParsePrimaryType(r) ==
    LET elemStops == {",", ";", ")", "]"}
        open == Advance(r)
        view == Eat(Advance(open), "const")
        len == ExpectOrMissing(IF At(open, "huge") THEN Fail(Advance(open)) ELSE Expect(open, "int"), "]")
    IN  CASE AtAny(r, Primitives \cup {"_", "err"}) -> Node("Type", r, Advance(r))
          [] AtIdent(r) /\ ~At(r, "_") -> Node("Named", r, TypeArgs(ParsePath(r)))
          [] At(r, "[") /\ At(open, "]") -> Node("Slice", r, ParseTypeRecovering(view, elemStops))
          [] At(r, "[") /\ ~At(open, "]") -> Node("Array", r, ParseTypeRecovering(len, elemStops))
          [] At(r, "(") -> Node("Paren", r, ExpectOrMissing(ParseTypeRecovering(open, {")", ";"}), ")"))
          [] OTHER -> Fail(r)

ParsePrefixType(r) ==
    IF AtAny(r, {"*", "?*"}) THEN Node("Pointer", r, Call("prefix type", Eat(Advance(r), "const")))
    ELSE IF At(r, "const") THEN Fail(r) ELSE ParsePrimaryType(r)

\* A constraint: terms joined by + and -, the subtracted ones not negated.
ConstraintArg(r) ==
    IF AtIdent(r) /\ Peek(r, 1) = "=" /\ ~At(r, "_")
    THEN LET hole == Advance(Advance(r))
             binding == IF At(hole, "_") THEN Advance(hole) ELSE Fail(hole)
         IN  IF At(binding, ":") THEN Call("terms", Advance(binding)) ELSE binding
    ELSE Call("type", r)

ConstraintArgs(r) ==
    LET arg == ConstraintArg(r)
        more == Advance(arg)
    IN  IF ~At(arg, ",") \/ AtTypeGt(more) \/ At(more, ")") THEN Eat(arg, ",") ELSE ConstraintArgs(more)

ConstraintTerm(r) ==
    LET path == ParsePath(Eat(r, "!"))
    IN  IF At(path, "<") THEN ExpectTypeGt(ConstraintArgs(Advance(path))) ELSE path

ConstraintTerms(r) ==
    LET term == ConstraintTerm(r)
        next == Advance(term)
    IN  CASE At(term, "+") -> Call("terms", next)
          [] At(term, "-") -> IF At(next, "!") THEN Fail(next) ELSE Call("terms", next)
          [] OTHER -> term

\* The `fn (..)` and `|(..)|` suffixes, each around the type read so far.
TypeSuffixes(r, ty) ==
    LET params == TypesInParens(Advance(ty))
        closure == Expect(IF At(params, ":") THEN Call("terms", Advance(params)) ELSE params, "|")
    IN  CASE At(ty, "fn") -> TypeSuffixes(r, Node("FnType", r, params))
          [] At(ty, "|") -> TypeSuffixes(r, Node("ClosureType", r, closure))
          [] OTHER -> ty

ParseType(r) ==
    LET unsafe == Eat(r, "unsafe")
        abi == IF At(unsafe, "extern") THEN Expect(Advance(unsafe), "C") ELSE unsafe
        ty == TypeSuffixes(r, Call("prefix type", abi))
    IN  IF ty.ok /\ abi.pos # r.pos /\ LastKind(ty) # "FnType" THEN Fail(ty) ELSE ty

(* -------------------------------- Lists -------------------------------- *)

ParseBindingName(r) == ExpectIdent(Eat(r, "@"))

ParseGenericParam(r) ==
    LET name == ExpectIdent(IF At(r, "resource") /\ Peek(r, 1) \in Idents THEN Advance(r) ELSE r)
    IN  IF At(name, ":") THEN Call("terms", Advance(name)) ELSE name

ParseClosureParam(r) ==
    IF At(r, "@") \/ (AtIdent(r) /\ Peek(r, 1) \in {",", "|"}) THEN ParseBindingName(r)
    ELSE ParseBindingName(Call("type", r))

ParseParam(r) ==
    LET ty == ParseTypeRecovering(r, {",", ")", ";"})
    IN  IF AtIdent(ty) \/ At(ty, "@") THEN ParseBindingName(ty) ELSE Diag(ty)

ParseExpr(r) == ParseBinary(r, 1)

ParseExprRecovering(r, stops) == RecoverTo(r, Call("expr", r), stops)

\* One element of each of the comma separated lists.
Element(r, list) ==
    CASE list = "types" ->
           IF AtIdent(r) /\ Peek(r, 1) = "=" /\ ~At(r, "_") THEN Fail(r)
           ELSE ParseTypeRecovering(r, {",", ")", ">", ">>", ";"})
      [] list = "params" -> Node("Param", r, ParseParam(r))
      [] list = "generics" -> LET p == ParseGenericParam(r) IN IF p.ok THEN Node("Generic", r, p) ELSE Rescue(p)
      [] list = "patterns" -> LET p == Call("pattern", r) IN IF p.ok THEN p ELSE Rescue(p)
      [] list = "closure params" -> LET p == ParseClosureParam(r) IN IF p.ok THEN Node("Param", r, p) ELSE Rescue(p)
      [] list = "args" -> ParseExprRecovering(r, {",", ")", ";"})
      [] list = "elems" -> ParseExprRecovering(r, {",", "]", ";"})
      [] list = "fields" ->
           Node("Init", r, ParseExprRecovering(ExpectOrMissing(ExpectIdent(r), ":"), {",", "}", ";"}))

Closes(list) ==
    CASE list = "types" -> {">", ">>", ")"}
      [] list = "generics" -> {">", ">>"}
      [] list \in {"params", "patterns", "args"} -> {")"}
      [] list = "closure params" -> {"|"}
      [] list = "elems" -> {"]"}
      [] list = "fields" -> {"}"}

\* MUTANT of Continues: generic parameters take the test that type arguments use.
ContinuesType(list) ==
    CASE list \in {"types", "params", "generics"} -> TypeStarts
      [] list = "fields" -> Idents
      [] list = "patterns" -> Idents \cup {"@", "err"}
      [] list = "closure params" -> TypeStarts \cup {"@"}
      [] list \in {"args", "elems"} -> ExprStarts

\* What makes the parser assume that only the comma is missing.
Continues(list) ==
    CASE list \in {"types", "params"} -> TypeStarts
      [] list \in {"generics", "fields"} -> Idents
      [] list = "patterns" -> Idents \cup {"@", "err"}
      [] list = "closure params" -> TypeStarts \cup {"@"}
      [] list \in {"args", "elems"} -> ExprStarts

\* The rest of a list after the element that was read from state r; the closing token is left.
ListTail(r, elem, list) ==
    LET next == Advance(elem)
    IN  CASE ~elem.ok -> elem
          [] At(elem, ",") -> IF AtAny(next, Closes(list)) THEN next ELSE Call(list, next)
          [] AtAny(elem, Closes(list)) -> elem
          [] AtAny(elem, Continues(list)) ->
               IF Same(r, elem) THEN Hang(elem) ELSE Call(list, Diag(elem))
          [] OTHER -> Diag(elem)

List(r, list) == IF r.ok THEN ListTail(r, Element(r, list), list) ELSE r

ParseParams(r) == IF At(r, ")") THEN Advance(r) ELSE ExpectOrMissing(Call("params", r), ")")

ParseGenericsOpt(r) ==
    LET open == Advance(r)
        list == IF AtTypeGt(open) THEN open ELSE Call("generics", open)
    IN  IF ~At(r, "<") THEN r ELSE IF AtTypeGt(list) THEN EatTypeGt(list) ELSE list

ParsePattern(r) ==
    LET path == ParsePath(r)
        open == Advance(path)
        args == IF At(open, ")") THEN open ELSE Call("patterns", open)
    IN  CASE AtAny(r, {"err", "_"}) -> Node("Pattern", r, Advance(r))
          [] At(r, "@") -> Node("Pattern", r, ParseBindingName(r))
          [] OTHER -> Node("Pattern", r, IF At(path, "(") THEN ExpectOrMissing(args, ")") ELSE path)

(* ----------------------------- Expressions ----------------------------- *)

\* The rung of the ladder parse_logical_or .. parse_multiplicative that reads a binary operator.
OperatorLevel(kind) ==
    CASE kind = "||" -> 1
      [] kind = "&&" -> 2
      [] kind = "|" -> 3
      [] kind = "^" -> 4
      [] kind = "&" -> 5
      [] kind \in {"==", "!="} -> 6
      [] kind \in {"<", "<=", ">", ">="} -> 7
      [] kind \in {"<<", ">>"} -> 8
      [] kind \in {"+", "-"} -> 9
      [] kind \in {"*", "/", "%"} -> 10
      [] OTHER -> 0

ParseCast(r) ==
    LET expr == Call("unary", r)
    IN  IF At(expr, "as") THEN Node("Cast", r, ParseTypeRecovering(Advance(expr), {",", ";", ")", "]"})) ELSE expr

\* The rungs at or above level: operands of a rung are read by the next one, operators associate to the left.
ParseBinary(r, level) == BinaryTail(r, ParseCast(r), level)

BinaryTail(r, left, level) ==
    LET here == OperatorLevel(Peek(left, 0))
        right == RecoverTo(left, ParseBinary(Advance(left), here + 1), ExprRecoveryStops)
    IN  IF left.ok /\ here >= level /\ here > 0 THEN BinaryTail(r, Node("Binary", r, right), level) ELSE left

StrictTypes(r) ==
    LET ty == Call("type", r)
        more == Advance(ty)
    IN  IF At(ty, ",") THEN IF AtTypeGt(more) THEN EatTypeGt(more) ELSE StrictTypes(more)
        ELSE ExpectTypeGt(ty)

TryParsePostfixTypeArgs(r) == IF AtTypeGt(Advance(r)) THEN EatTypeGt(Advance(r)) ELSE StrictTypes(Advance(r))

ParseArgList(r) == IF At(r, ")") THEN Advance(r) ELSE ExpectOrMissing(Call("args", r), ")")

\* After `[` or after the start of a range: an optional end, and the bracket.
RangeEnd(r) ==
    ExpectOrMissing(IF At(r, "]") THEN r ELSE ParseExprRecovering(r, {"]", ";"}), "]")

\* The suffixes of the expression that began in state r; `?` is not one of them after `await`.
PostfixTail(r, expr, allowTry) ==
    LET next == Advance(expr)
        typed == TryParsePostfixTypeArgs(expr)
        field == ExpectIdentOrMissing(next)
        first == ParseExprRecovering(next, {"..", "]", ";"})
        then(kind, s) == PostfixTail(r, Node(kind, r, s), allowTry)
    IN  CASE At(expr, "<") /\ At(typed, "(") -> then("Call", ParseArgList(Advance(typed)))
          [] At(expr, "<") /\ typed.ok /\ ~At(typed, "(") /\ LastKind(expr) = "Name" -> then("GenericValue", typed)
          [] At(expr, "<") /\ ~At(typed, "(") /\ (~typed.ok \/ LastKind(expr) # "Name") -> Rewind(typed, expr)
          [] At(expr, "(") -> then("Call", ParseArgList(next))
          [] At(expr, ".") -> IF At(field, "::") THEN then("Selector", ExpectIdentOrMissing(Advance(field)))
                              ELSE then("Field", field)
          [] At(expr, "->") -> then("Arrow", field)
          [] At(expr, "[") /\ At(next, "..") -> then("Range", RangeEnd(Advance(next)))
          [] At(expr, "[") /\ ~At(next, "..") -> IF At(first, "..") THEN then("Range", RangeEnd(Advance(first)))
                                                 ELSE then("Index", ExpectOrMissing(first, "]"))
          [] At(expr, "?") /\ allowTry -> then("Try", next)
          [] OTHER -> expr

SelectArms(r) ==
    LET binding == ExpectOrMissing(ExpectIdent(ExpectOrMissing(r, "case")), "=")
        future == ExpectOrMissing(ParseExprRecovering(binding, {":", ";", "}"}), ":")
        body == Eat(ParseExprRecovering(future, {";", "}"}), ";")
    IN  IF AtAny(r, {"}", "eof"}) THEN ExpectOrMissing(r, "}")
        ELSE IF ~body.ok THEN body ELSE SelectArms(Node("Arm", r, body))

ParseClosure(r) ==
    LET open == ExpectOrMissing(r, "|")
        params == ExpectOrMissing(IF At(open, "|") THEN open ELSE Call("closure params", open), "|")
        intro == IF At(r, "||") THEN Advance(r) ELSE params
    IN  IF At(intro, "{") THEN Call("block", intro)
        ELSE ParseExprRecovering(intro, {";", "}"})

ParseStructLiteral(r) ==
    LET open == Advance(r) IN ExpectOrMissing(IF At(open, "}") THEN open ELSE Call("fields", open), "}")

ParseArrayLiteral(r) ==
    LET open == Advance(r)
        first == Element(open, "elems")
        repeat == Advance(first)
        len == IF At(repeat, "]") THEN repeat
               ELSE IF At(repeat, "huge") THEN Fail(Advance(repeat)) ELSE Expect(repeat, "int")
    IN  IF At(open, "]") THEN Advance(open)
        ELSE ExpectOrMissing(IF At(first, ";") THEN len ELSE ListTail(open, first, "elems"), "]")

ParsePrimary(r) ==
    LET next == Advance(r)
    IN  CASE At(r, "biased") /\ At(next, "select") /\ Peek(next, 1) = "{" ->
               Node("Select", r, SelectArms(Advance(Advance(next))))
          [] At(r, "select") /\ At(next, "{") -> Node("Select", r, SelectArms(Advance(next)))
          [] At(r, "await") -> Node("Await", r, PostfixTail(next, Call("primary", next), FALSE))
          [] At(r, "async") /\ AtAny(next, {"||", "|"}) -> Node("Closure", r, ParseClosure(next))
          [] At(r, "err") -> Node("Error", r, next)
          [] AtAny(r, Literals) -> Node("Literal", r, next)
          [] AtAny(r, {"||", "|"}) -> Node("Closure", r, ParseClosure(r))
          [] At(r, "{") -> Node("StructLiteral", r, ParseStructLiteral(r))
          [] At(r, "[") -> Node("ArrayLiteral", r, ParseArrayLiteral(r))
          [] At(r, "(") -> Node("Paren", r, ExpectOrMissing(ParseExprRecovering(next, {")", ";"}), ")"))
          [] At(r, "unsafe") -> Node("Unsafe", r, ExprBlockParts(ExpectOrMissing(next, "{")))
          [] OTHER -> Node("Name", r, ParsePath(r))

ParseUnary(r) ==
    IF AtAny(r, UnaryOps) THEN Node("Unary", r, Call("unary", Advance(r)))
    ELSE PostfixTail(r, Call("primary", r), TRUE)

(* ------------------------------ Statements ----------------------------- *)

Built(r, s) == s.ok /\ Len(s.out) > Len(r.out)

\* A declaration is tried first and given up without a trace unless a type, a name and `=` or `;` were there.
TryParseVarDecl(r) ==
    LET ty == Call("type", r)
        name == ParseBindingName(ty)
        init == IF At(name, "=") THEN ParseExprRecovering(Advance(name), {";", "}"}) ELSE name
    IN  CASE ~AtAny(r, TypeStarts) -> r
          [] At(r, "const") -> Fail(r)
          [] OTHER -> IF ~ty.ok \/ ~(AtIdent(ty) \/ At(ty, "@")) THEN Rewind(ty, r)
                      ELSE IF ~name.ok THEN name
                      ELSE IF ~AtAny(name, {"=", ";"}) THEN Rewind(name, r)
                      ELSE Node("VarDecl", r, ExpectOrMissing(init, ";"))

\* An expression or an assignment whose value ends at one of stops, without the `;`.
ExprOrAssign(r, expr, stops) ==
    IF At(expr, "=") THEN Node("Assign", r, ParseExprRecovering(Advance(expr), stops)) ELSE expr

ParseForInit(r) ==
    LET ty == Call("type", r)
        name == ParseBindingName(ty)
        decl == IF At(name, "=") THEN ParseExprRecovering(Advance(name), {";", ")"}) ELSE name
        plain(s) == ExprOrAssign(s, Call("expr", s), {";", ")"})
    IN  CASE ~AtAny(r, TypeStarts) -> plain(r)
          [] At(r, "const") -> Fail(r)
          [] OTHER -> IF AtIdent(ty) \/ At(ty, "@") THEN Node("VarDecl", r, decl) ELSE plain(Rewind(ty, r))

\* `if`, `while` and `switch`: the parenthesized head.
Condition(r) ==
    ExpectOrMissing(ParseExprRecovering(ExpectOrMissing(Advance(r), "("), {")", "{"}), ")")

ParseIf(r) ==
    LET then == Call("block", Condition(r))
        next == Advance(then)
    IN  Node("If", r, IF ~At(then, "else") THEN then ELSE IF At(next, "if") THEN Call("if", next) ELSE Call("block", next))

ParseFor(r) ==
    LET open == ExpectOrMissing(Advance(r), "(")
        init == ExpectOrMissing(IF At(open, ";") THEN open ELSE ParseForInit(open), ";")
        cond == ExpectOrMissing(IF At(init, ";") THEN init ELSE ParseExprRecovering(init, {";", ")"}), ";")
        step == IF At(cond, ")") THEN cond ELSE ExprOrAssign(cond, Call("expr", cond), {")"})
    IN  Call("block", ExpectOrMissing(step, ")"))

SwitchClauses(r) ==
    LET pattern == Call("pattern", Advance(r))
        label == IF At(r, "case") THEN IF pattern.ok THEN pattern ELSE Rescue(pattern) ELSE Advance(r)
        body == Statements(ExpectOrMissing(label, ":"), {"case", "default", "}"})
    IN  IF AtAny(r, {"}", "eof"}) THEN ExpectOrMissing(r, "}")
        ELSE IF AtAny(r, {"case", "default"}) THEN IF body.ok THEN SwitchClauses(Node("Case", r, body)) ELSE body
        ELSE Fail(r)

ParseStatement(r) ==
    LET next == Advance(r)
        semi(s) == ExpectOrMissing(s, ";")
        decl == Call("declaration", r)
        other == semi(ExprOrAssign(r, Call("expr", decl), {";", "}"}))
    IN  CASE At(r, "{") -> Call("block", r)
          [] At(r, "if") -> Call("if", r)
          [] At(r, "while") -> Node("While", r, Call("block", Condition(r)))
          [] At(r, "for") -> Node("For", r, ParseFor(r))
          [] At(r, "switch") -> Node("Switch", r, SwitchClauses(ExpectOrMissing(Condition(r), "{")))
          [] At(r, "defer") -> Node("Defer", r, semi(ParseExprRecovering(next, {";", "}"})))
          [] At(r, "return") ->
               Node("Return", r, semi(IF At(next, ";") THEN next ELSE ParseExprRecovering(next, {";", "}"})))
          [] AtAny(r, {"break", "continue"}) -> Node("Jump", r, semi(next))
          [] OTHER -> IF ~decl.ok \/ Built(r, decl) THEN decl ELSE Node("Stmt", r, other)

\* A statement, or the tokens skipped in its place.
OrSkipped(r, stmt) == IF stmt.ok THEN stmt ELSE SynchronizeStatement(r, Rescue(stmt))

StatementOrError(r) == Progress(r, OrSkipped(r, ParseStatement(r)))

Statements(r, stops) ==
    LET stmt == Call("statement", r)
    IN  IF ~r.ok \/ AtAny(r, stops \cup {"eof"}) THEN r ELSE IF stmt.ok THEN Statements(stmt, stops) ELSE stmt

ParseBlock(r) == Node("Block", r, ExpectOrMissing(Statements(Expect(r, "{"), {"}"}), "}"))

\* The statements of an unsafe block, and its value: an expression without `;`.
ExprBlockParts(r) ==
    LET stmt == Call("statement", r)
        decl == Call("declaration", r)
        expr == ParseExprRecovering(decl, {";", "}"})
        effect == ExpectOrMissing(ExprOrAssign(r, expr, {";", "}"}), ";")
    IN  IF AtAny(r, {"}", "eof"}) THEN ExpectOrMissing(r, "}")
        ELSE IF ~r.ok THEN r
        ELSE IF StatementHeadAt(r, r.pos) THEN IF stmt.ok THEN ExprBlockParts(stmt) ELSE stmt
        ELSE IF ~decl.ok THEN decl
        ELSE IF Built(r, decl) THEN ExprBlockParts(decl)
        ELSE IF AtAny(expr, {"=", ";"}) THEN IF effect.ok THEN ExprBlockParts(Node("Stmt", r, effect)) ELSE effect
        ELSE ExpectOrMissing(expr, "}")

(* -------------------------------- Items -------------------------------- *)

RECURSIVE StructFields(_)
RECURSIVE EnumVariants(_)
RECURSIVE InterfaceTerms(_)
RECURSIVE InterfaceGenerics(_, _, _)
RECURSIVE ModulePathTail(_)
RECURSIVE ModulePathUp(_)
RECURSIVE ExternItems(_)
RECURSIVE EatAll(_, _)
RECURSIVE Items(_)

ModulePathTail(r) == IF At(r, "/") THEN ModulePathTail(ExpectIdent(Advance(r))) ELSE r

ModulePathUp(r) == IF At(r, "..") THEN ModulePathUp(Expect(Advance(r), "/")) ELSE r

ParseImport(r) ==
    LET start == Advance(r)
        root == IF At(start, "/") THEN Advance(start)
                ELSE IF At(start, ".") THEN Expect(Advance(start), "/") ELSE ModulePathUp(start)
        path == ModulePathTail(ExpectIdent(root))
    IN  Expect(IF At(path, "as") THEN ExpectIdent(Advance(path)) ELSE path, ";")

\* A C spelling is for extern aliases without type parameters.
ParseTypeAlias(r, isExtern) ==
    LET name == ExpectIdent(Expect(r, "type"))
        generics == ParseGenericsOpt(name)
        target == Expect(generics, "=")
        isGeneric == At(name, "<") /\ ~AtTypeGt(Advance(name))
        spelling == IF isExtern /\ ~isGeneric THEN Advance(target) ELSE Fail(Advance(target))
    IN  Expect(IF AtAny(target, {"str", "C"}) THEN spelling ELSE Call("type", target), ";")

StructFields(r) ==
    LET ty == ParseTypeRecovering(r, {";", "}"})
        field == ExpectOrMissing(ExpectIdentOrMissing(ty), ";")
    IN  IF ~r.ok \/ AtAny(r, {"}", "eof"}) THEN ExpectOrMissing(r, "}")
        ELSE StructFields(Node("Field", r, Progress(r, field)))

\* Without its `{` a struct ends at once, so that the next item is kept.
ParseStruct(r) ==
    LET head == ParseGenericsOpt(ExpectIdent(Expect(r, "struct")))
    IN  IF At(head, "{") THEN StructFields(Advance(head)) ELSE Diag(head)

EnumVariants(r) ==
    LET name == ExpectIdent(r)
        open == Advance(name)
        payload == ExpectOrMissing(IF At(open, ")") THEN open ELSE Call("types", open), ")")
        variant == IF At(name, "(") THEN payload ELSE name
    IN  IF ~r.ok \/ AtAny(r, {"}", "eof"}) THEN r
        ELSE IF At(variant, ",") THEN EnumVariants(Advance(variant)) ELSE variant

ParseEnum(r) ==
    ExpectOrMissing(EnumVariants(ExpectOrMissing(ParseGenericsOpt(ExpectIdent(Advance(r))), "{")), "}")

InterfaceTerms(r) ==
    LET term == TypeArgs(ParsePath(Eat(r, "!")))
        next == Advance(term)
    IN  CASE At(term, "+") -> InterfaceTerms(next)
          [] At(term, "-") -> IF At(next, "!") THEN Fail(next) ELSE InterfaceTerms(next)
          [] OTHER -> term

\* `->` splits the parameters once, with parameters on both sides.
InterfaceGenerics(r, count, split) ==
    LET leading == Eat(r, "->")
        param == ParseGenericParam(leading)
        arrow == Advance(param)
        comma == Advance(param)
        wasSplit == split \/ At(r, "->")
    IN  IF At(r, "->") /\ (split \/ count = 0) THEN Fail(r)
        ELSE IF At(param, "->") THEN IF wasSplit \/ AtTypeGt(arrow) THEN Fail(arrow)
                                     ELSE InterfaceGenerics(arrow, count + 1, TRUE)
        ELSE IF At(param, ",") THEN IF AtTypeGt(comma) THEN EatTypeGt(comma)
                                    ELSE InterfaceGenerics(comma, count + 1, wasSplit)
        ELSE ExpectTypeGt(param)

ParseSignature(r) ==
    LET opaque == At(r, "_") /\ Peek(r, 1) = ":"
        ret == IF opaque THEN Call("terms", Advance(Advance(r))) ELSE Call("type", r)
        params == ParseParams(Expect(ParseGenericsOpt(ExpectIdent(ret)), "("))
        receiver == Advance(params)
    IN  IF ~At(params, "=") THEN params
        ELSE ExpectIdent(IF At(receiver, ".") THEN Advance(receiver) ELSE Expect(ExpectIdent(receiver), "."))

ParseInterface(r, isUnsafe) ==
    LET next == Advance(r)
        alias == Expect(InterfaceTerms(Expect(ParseGenericsOpt(ExpectIdent(next)), "=")), ";")
        open == Expect(next, "<")
        generics == IF AtTypeGt(open) THEN EatTypeGt(open) ELSE InterfaceGenerics(open, 0, FALSE)
    IN  IF AtIdent(next) THEN IF isUnsafe THEN Fail(next) ELSE alias
        ELSE Expect(Call("signature", generics), ";")

ParseImpl(r) ==
    Call("block", ParseParams(Expect(TypeArgs(ParsePath(ParseGenericsOpt(Expect(r, "impl")))), "(")))

ParseDerive(r) ==
    LET path == ParsePath(ParseGenericsOpt(Advance(r)))
    IN  IF At(path, "<") THEN Expect(TypeArgs(path), ";") ELSE Fail(path)

ParseFunction(r) ==
    LET abi == IF At(r, "extern") THEN Expect(Advance(r), "C") ELSE r
        sig == Call("signature", IF At(abi, "async") /\ Peek(abi, 1) # "::" THEN Advance(abi) ELSE abi)
    IN  IF At(sig, ";") THEN Advance(sig) ELSE Call("block", sig)

EatAll(r, kind) == IF At(r, kind) THEN EatAll(Advance(r), kind) ELSE r

ExternItems(r) ==
    LET item == CASE At(r, "opaque") -> Expect(ExpectIdent(Expect(Advance(r), "struct")), ";")
                  [] At(r, "type") -> ParseTypeAlias(r, TRUE)
                  [] OTHER -> Expect(Call("signature", EatAll(r, "noescape")), ";")
    IN  IF ~r.ok \/ AtAny(r, {"}", "eof"}) THEN Expect(r, "}") ELSE ExternItems(Node("ExternItem", r, item))

ParseExtern(r, isUnsafe) ==
    LET abi == Expect(Advance(r), "C")
    IN  CASE At(abi, "{") -> ExternItems(Advance(abi))
          [] At(abi, "type") -> IF isUnsafe THEN Fail(abi) ELSE ParseTypeAlias(abi, TRUE)
          [] OTHER -> IF abi.ok THEN ParseFunction(r) ELSE abi

ParseItem(r) ==
    LET exported == Eat(r, "export")
        isResource == At(exported, "resource") /\ Peek(exported, 1) \in {"unsafe", "struct"}
        modified == IF isResource THEN Advance(exported) ELSE exported
        isUnsafe == At(modified, "unsafe")
        item == Eat(modified, "unsafe")
        only(allowed, s) == IF allowed THEN s ELSE Fail(item)
        plain == ~isUnsafe /\ ~isResource
        private == exported.pos = r.pos
    IN  CASE At(r, "err") -> Node("Error", r, Advance(r))
          [] At(item, "derive") -> Node("Derive", r, only(private /\ ~isResource, ParseDerive(item)))
          [] At(item, "derivable") ->
               Node("Derivable", r, only(private /\ ~isResource, ParseImpl(Eat(Advance(item), "unsafe"))))
          [] At(item, "import") -> Node("Import", r, only(plain, ParseImport(item)))
          [] At(item, "#c_include") ->
               Node("CInclude", r, only(plain, Eat(ExpectAny(Advance(item), {"str", "C"}), ";")))
          [] At(item, "type") -> Node("TypeAlias", r, only(plain, ParseTypeAlias(item, FALSE)))
          [] At(item, "enum") -> Node("Enum", r, only(plain, ParseEnum(item)))
          [] At(item, "struct") -> Node("Struct", r, ParseStruct(item))
          [] At(item, "interface") -> Node("Interface", r, ParseInterface(item, isUnsafe))
          [] At(item, "impl") -> Node("Impl", r, only(private, ParseImpl(item)))
          [] At(item, "extern") -> Node("Extern", r, ParseExtern(item, isUnsafe))
          [] AtAny(item, {"noescape", "#if"}) -> Fail(item)
          [] OTHER -> Node("Function", r, only(~isResource, ParseFunction(item)))

Call(method, r) ==
    CASE method = "type" -> ParseType(r)
      [] method = "prefix type" -> ParsePrefixType(r)
      [] method = "terms" -> ConstraintTerms(r)
      [] method = "pattern" -> ParsePattern(r)
      [] method = "expr" -> ParseExpr(r)
      [] method = "unary" -> ParseUnary(r)
      [] method = "primary" -> ParsePrimary(r)
      [] method = "block" -> ParseBlock(r)
      [] method = "statement" -> StatementOrError(r)
      [] method = "declaration" -> TryParseVarDecl(r)
      [] method = "if" -> ParseIf(r)
      [] method = "signature" -> ParseSignature(r)
      [] method = "item" -> ParseItem(r)
      [] OTHER -> List(r, method)

ItemOrSkipped(r, item) == IF item.ok THEN item ELSE SynchronizeItem(r, Rescue(item))

Items(r) ==
    IF ~r.ok \/ At(r, "eof") THEN r
    ELSE Items(Progress(r, ItemOrSkipped(r, Call("item", r))))

ParseFile(tokens) == Items(Parser(tokens))
=============================================================================
