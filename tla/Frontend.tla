------------------------------- MODULE Frontend -------------------------------
(***************************************************************************)
(* From the text of a file to its syntax tree: lexing (src/lexer.rs), the  *)
(* configuration gates (src/driver.rs) and the parser (Parser.tla), run    *)
(* again after every edit of the file, as the language server does.        *)
(*                                                                         *)
(* The text is a sequence of token kinds.  An edit inserts, deletes or     *)
(* replaces one token, so that the parser meets the programs that someone  *)
(* typing or deleting goes through and has to recover.                     *)
(***************************************************************************)
EXTENDS Parser, CielGrammar

CONSTANTS
    Files,       \* the files at the start: their text, and what of it is selected
    Alphabet,    \* the token kinds an edit may write
    MaxEdits     \* bound on the edits of one behaviour

\* What the constants are.
MaxEditsAssumption == MaxEdits \in Nat

(* ------------------------- Configuration gates ------------------------- *)

\* has_feature stands for the three functions: each compares its string with the configuration.
ConfigFunctions == {"has_feature"}

Directives == {"#elif", "#else", "#endif"}

RECURSIVE ConfigOr(_)
RECURSIVE ConfigAnd(_)
RECURSIVE ConfigUnary(_)
RECURSIVE OrTail(_, _)
RECURSIVE AndTail(_, _)
RECURSIVE ProcessRange(_, _, _)
RECURSIVE ProcessIf(_, _)

\* A preprocessor state: the tokens, the position, the tokens kept, and whether it reported anything.
Gate(tokens) == [toks |-> tokens, pos |-> 1, kept |-> <<>>, diags |-> FALSE]

Here(g) == IF g.pos \in DOMAIN g.toks THEN g.toks[g.pos] ELSE "none"

Step(g) == [g EXCEPT !.pos = @ + 1]

Report(g) == [g EXCEPT !.diags = TRUE]

Want(g, kind) == IF Here(g) = kind THEN Step(g) ELSE Report(g)

Value(g, value) == [g |-> g, value |-> value]

\* The string names an enabled feature, or the target, exactly when it is "C".
ConfigPrimary(g) ==
    LET inner == ConfigOr(Step(g))
        open == Want(Step(g), "(")
        close == Want(Step(open), ")")
    IN  CASE Here(g) = "(" -> Value(Want(inner.g, ")"), inner.value)
          [] Here(g) \in Idents ->
               IF Here(open) \notin {"str", "C"} THEN Value(Report(open), FALSE)
               ELSE IF Here(g) \in ConfigFunctions THEN Value(close, Here(open) = "C")
               ELSE Value(Report(close), FALSE)
          [] OTHER -> Value(Report(g), FALSE)

ConfigUnary(g) ==
    LET inner == ConfigUnary(Step(g))
    IN  IF Here(g) = "!" THEN Value(inner.g, ~inner.value) ELSE ConfigPrimary(g)

AndTail(g, value) ==
    LET right == ConfigUnary(Step(g))
    IN  IF Here(g) = "&&" THEN AndTail(right.g, right.value /\ value) ELSE Value(g, value)

ConfigAnd(g) == LET left == ConfigUnary(g) IN AndTail(left.g, left.value)

OrTail(g, value) ==
    LET right == ConfigAnd(Step(g))
    IN  IF Here(g) = "||" THEN OrTail(right.g, right.value \/ value) ELSE Value(g, value)

ConfigOr(g) == LET left == ConfigAnd(g) IN OrTail(left.g, left.value)

\* MUTANT of FindBranchEnd: the first directive ends the branch, that of a nested gate too.
FindBranchEndFlat(g) ==
    LET ends == {q \in g.pos .. Len(g.toks) : g.toks[q] \in Directives \cup {"eof"}}
    IN  CHOOSE q \in ends : \A p \in ends : q <= p

\* The directive that ends the branch at pos, past the gates nested in it.
FindBranchEnd(g) ==
    LET depth(q) == Cardinality({p \in g.pos .. q - 1 : g.toks[p] = "#if"})
                    - Cardinality({p \in g.pos .. q - 1 : g.toks[p] = "#endif"})
        ends == {q \in g.pos .. Len(g.toks) : g.toks[q] = "eof" \/ (g.toks[q] \in Directives /\ depth(q) = 0)}
    IN  CHOOSE q \in ends : \A p \in ends : q <= p

\* From the condition of one branch to the end of the gate; selected: a branch has been kept.
BranchEnd(start, active) ==
    IF active THEN ProcessRange(start, Directives, [paren |-> 0, brace |-> 0, bracket |-> 0])
    ELSE [start EXCEPT !.pos = FindBranchEnd(start)]

GateTail(end, selected) ==
    CASE Here(end) \in {"#elif", "#else"} -> ProcessIf(end, selected)
      [] Here(end) = "#endif" -> Step(end)
      [] OTHER -> Report(end)

Branch(condition, selected) ==
    GateTail(BranchEnd(condition.g, ~selected /\ condition.value), selected \/ condition.value)

ProcessIf(g, selected) ==
    Branch(IF Here(g) = "#else" THEN Value(Step(g), TRUE) ELSE ConfigOr(Step(g)), selected)

\* The tokens up to one of stops outside brackets, with the gates in between resolved.
ProcessRange(g, stops, depth) ==
    LET flat == \A b \in DOMAIN depth : depth[b] = 0
        keep == [g EXCEPT !.pos = @ + 1, !.kept = Append(@, Here(g))]
    IN  CASE Here(g) \in {"none", "eof"} \/ (flat /\ Here(g) \in stops) -> g
          [] flat /\ Here(g) = "#if" -> ProcessRange(ProcessIf(g, FALSE), stops, depth)
          [] OTHER -> ProcessRange(IF Here(g) \in Directives \cup {"#if"} THEN Report(keep) ELSE keep,
                                   stops, Nesting(depth, Here(g)))

Preprocessed(g) == [tokens |-> Append(g.kept, "eof"), diags |-> g.diags]

PreprocessConfig(tokens) ==
    Preprocessed(ProcessRange(Gate(tokens), {}, [paren |-> 0, brace |-> 0, bracket |-> 0]))

(* ----------------------------- The pipeline ---------------------------- *)

\* lex_lossy: what it does not recognize becomes an error token and a diagnostic.
LexDiags(text) == \E i \in DOMAIN text : text[i] = "err"

\* One run of the front end over a file.
Analysed(text, gated, file) ==
    [tokens |-> gated.tokens, file |-> file, diags |-> LexDiags(text) \/ gated.diags \/ file.diags]

Analyse(text) ==
    LET gated == PreprocessConfig(Append(text, "eof"))
    IN  Analysed(text, gated, ParseFile(gated.tokens))

VARIABLES
    source,    \* the file as it was opened
    text,      \* its text now
    edits,     \* the edits made so far
    outcome,    \* what the last run of the front end returned
    current    \* whether that run saw the text as it is now

vars == <<source, text, edits, outcome, current>>

Init ==
    /\ source \in Files
    /\ text = source.text
    /\ edits = 0
    /\ outcome = <<>>
    /\ current = FALSE

\* The front end runs over the file.
Check ==
    /\ ~current
    /\ outcome' = Analyse(text)
    /\ current' = TRUE
    /\ UNCHANGED <<source, text, edits>>

Edit(changed) ==
    /\ current
    /\ edits < MaxEdits
    /\ text' = changed
    /\ edits' = edits + 1
    /\ outcome' = <<>>
    /\ current' = FALSE
    /\ UNCHANGED source

Insert == \E i \in 1 .. Len(text) + 1, kind \in Alphabet : Edit(InsertAt(text, i, kind))

Delete == \E i \in DOMAIN text : Edit(RemoveAt(text, i))

Replace == \E i \in DOMAIN text, kind \in Alphabet : Edit([text EXCEPT ![i] = kind])

Next == Check \/ Insert \/ Delete \/ Replace

Spec == Init /\ [][Next]_vars

(* ----------------------------- Properties ------------------------------ *)

\* Whether a list of closure parameters may have come to the token at position p, a `const` that begins no type.
StrayConst(tokens, p) ==
    /\ tokens[p] = "const"
    /\ \E q \in 1 .. p - 1 : tokens[q] = "|"
    /\ tokens[p - 1] \notin {"*", "?*", "]"}

\* Every file is parsed to its end: no recovery loop comes back to the same token with nothing consumed.  The
\* one exception is a closure's parameter list at a `const`: can_start_type lets the list go on there, while
\* parse_type refuses the token and leaves it (ParseAlwaysEnds, which does not hold).
ParseEnds == current /\ outcome.file.stuck => StrayConst(outcome.file.toks, outcome.file.pos)

ParseAlwaysEnds == current => ~outcome.file.stuck

RECURSIVE Yield(_)
Yield(node) == IF node.leaf THEN <<node.k>> ELSE FlattenSeq([i \in DOMAIN node.c |-> Yield(node.c[i])])

\* The text with every `>>` written as two `>`.
SplitShifts(tokens) ==
    FlattenSeq([i \in DOMAIN tokens |-> IF tokens[i] = ">>" THEN <<">", ">">> ELSE <<tokens[i]>>])

\* Whether an expression may stand as an operand of an operator of the given rank.
Rank(node) ==
    CASE node.k = "Binary" -> Precedence(node.c[2].k)
      [] node.k = "Cast" -> 11
      [] node.k = "Unary" -> 12
      [] OTHER -> 13

RECURSIVE WellShaped(_)
WellShaped(node) ==
    /\ node.k = "Binary" => /\ Len(node.c) = 3
                            /\ Rank(node.c[1]) >= Rank(node)
                            /\ Rank(node.c[3]) > Rank(node)
    /\ node.k = "Cast" => Rank(node.c[1]) > 11
    /\ node.k = "Unary" => Rank(node.c[2]) >= 12
    /\ node.k = "Await" => node.c[2].k # "Try"
    /\ node.k \in {"Call", "Field", "Arrow", "Index", "Range", "Try", "Selector"} => Rank(node.c[1]) = 13
    /\ \A i \in DOMAIN node.c : WellShaped(node.c[i])

\* The tree of a file holds each of its tokens once and in order, whatever was speculated, given up and
\* parsed again.  In a file without diagnostics the operators group by the precedences of the grammar, and a
\* `?` after an awaited expression applies to the await: so design.md uses it, though its production
\* AwaitExpr would give the `?` to the operand.
TreeFaithful ==
    current /\ ~outcome.file.stuck =>
        LET tree == [k |-> "File", leaf |-> FALSE, c |-> outcome.file.out]
        IN  /\ SplitShifts(Yield(tree)) = SplitShifts(Front(outcome.tokens))
            /\ ~outcome.diags => WellShaped(tree)

\* A file that the grammar of design.md derives is parsed without a diagnostic.
GrammarAccepted == current /\ outcome.diags => ~Sentence(text) /\ ~Sentence(SplitShifts(text))

\* The parser receives exactly the items of the branches whose conditions hold, nested gates included.
GatesSelect == current /\ edits = 0 => /\ outcome.tokens = Append(source.selected, "eof")
                                       /\ ~outcome.diags
=============================================================================
