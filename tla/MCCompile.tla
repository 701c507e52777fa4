------------------------------ MODULE MCCompile ------------------------------
(***************************************************************************)
(* Two benches in one state graph.  "compile": functions that are compiled *)
(* and run, every choice of a compound statement over short bodies between *)
(* declarations and a tail.  "parse": files for the front end, one for     *)
(* each construct of the grammar, each small enough that every single      *)
(* edit of a token is tried, and files with configuration gates.  The      *)
(* variables of the bench that does not run stay as its initial state left *)
(* them.                                                                   *)
(***************************************************************************)
EXTENDS Compile

CONSTANTS Family, Files, Alphabet, MaxEdits

VARIABLES bench, source, text, edits, outcome, current

FE == INSTANCE Frontend

ASSUME FE!MaxEditsAssumption

frontendVars == <<source, text, edits, outcome, current>>
benchVars == <<bench, vars, frontendVars>>

MCLocal == {"a", "b", "r", "s", "q", "p", "x", "y", "f"}
MCAffine == {"r", "s", "q"}
MCImmutable == {"b", "q"}
MCExterns == [exit |-> {}, use |-> {}, open |-> {}, get |-> {}, cond |-> {}, step |-> {}, keep |-> {1}]
(* id returns its argument, same does so through id, store keeps it. *)
MCCallees ==
    [id |-> [params |-> <<"p">>, body |-> <<Return(Loc("p"))>>],
     same |-> [params |-> <<"p">>, body |-> <<Return(Call("id", <<Loc("p")>>))>>],
     store |-> [params |-> <<"p">>, body |-> <<Expr(Call("keep", <<Loc("p")>>))>>]]

Do(f, es) == Expr(Call(f, es))
Use(x) == Do("use", <<Loc(x)>>)
Open == Call("open", << >>)
Get(es) == Await("T", Call("get", es))
Fetch(es) == Await("S", Call("get", es))
Step == Do("step", << >>)
Leaves == {Break, Continue, Return(NoExpr)}
Fn(async, params, result, body) ==
    [async |-> async, params |-> params, result |-> result, body |-> body]

UpTo1(S) == {<< >>} \cup {<<s>> : s \in S}
UpTo2(S) == UpTo1(S) \cup {<<s, t>> : s \in S, t \in S}
NoDeadCode(bodies) == {b \in bodies : Len(b) = 2 => b[1] \notin Leaves}

(* Every compound statement over the bodies B; S are the statements of its *)
(* short bodies, D those in a switch that has a default, T the steps of a  *)
(* for.  No default body breaks (see the family default_break).            *)
Compounds(B, S, D, T) ==
    {If(Cond, th, NoStmt) : th \in B}
    \cup {If(Cond, th, Block(el)) : th \in UpTo1(S), el \in UpTo1(S \ Leaves)}
    \cup {While(c, b) : c \in {Cond, TrueLit}, b \in B}
    \cup {For(i, c, st, b) : i \in {NoStmt, VarDecl("s", Open)}, c \in {Cond, NoExpr},
                             st \in {NoStmt} \cup T, b \in B}
    \cup {Switch(<<Case(1, {<<1, 0>>}, u), Case(2, {<<2, 0>>}, v)>>, TRUE, w) :
              u \in UpTo1(D), v \in UpTo1(D), w \in UpTo1(D \ {Break})}
    \cup {Switch(<<Case(2, {<<2, 0>>}, u), Case(1, {<<1, 0>>, <<1, 1>>}, v)>>, FALSE, << >>) :
              u \in UpTo1(S), v \in UpTo1(S \ Leaves)}

(* Assignment, moves and deferred calls on every path. *)
FlowStmts == {Assign("a", Lit("2")), Assign("b", Lit("1")), Use("a"), Use("r"),
              Assign("r", Open), Defer("f", Loc("a"))} \cup Leaves
PathStmts == {Assign("a", Lit("2")), Assign("b", Lit("1")), Use("r"), Break, Return(NoExpr)}
FlowFns ==
    {Fn(FALSE, {"f"}, FALSE,
        <<VarDecl("a", i), VarDecl("b", NoExpr), VarDecl("r", Open), c>> \o t) :
        i \in {NoExpr, Lit("1")}, c \in Compounds(UpTo2(FlowStmts), FlowStmts, PathStmts, {Step}),
        t \in {<< >>, <<Use("a")>>, <<Use("r")>>, <<Assign("b", Lit("2"))>>}}

(* A function with a result: every path must end in a return. *)
ResultStmts == {Return(Lit("1")), Break, Continue, Use("f"), Do("exit", << >>)}
ResultFns ==
    {Fn(FALSE, {"f"}, TRUE, <<c>> \o t) :
        c \in Compounds(UpTo2(ResultStmts), ResultStmts, ResultStmts, {Step}),
        t \in {<< >>, <<Return(Lit("2"))>>}}

(* Suspension, abort and early error returns. *)
AsyncStmts == {Use("a"), Expr(Get(<< >>)), Expr(Get(<<Loc("r")>>)), Expr(Get(<<Fetch(<< >>)>>)),
               Assign("a", Fetch(<<Loc("a")>>)), Assign("r", Try(Open)), Defer("f", Loc("a")),
               Break, Continue}
Quiet == {Use("a"), Assign("r", Try(Open)), Defer("f", Loc("a")), Continue}
AsyncFns ==
    {Fn(TRUE, {"f", "q"}, FALSE, <<VarDecl("a", Lit("1")), VarDecl("r", Open), c>> \o t) :
        c \in Compounds(NoDeadCode(UpTo2(AsyncStmts)), AsyncStmts, Quiet,
                        {Assign("a", Fetch(<< >>))}),
        t \in {<< >>, <<Use("a")>>, <<Expr(Get(<< >>)), Use("r")>>}}

(* A switch and a block inside a loop, each with deferred calls. *)
NestStmts == {Break, Continue, Return(NoExpr), Expr(Try(Open)), Defer("f", Lit("4"))}
NestBodies ==
    {<<VarDecl("r", Open), Defer("f", Lit("3")),
       Switch(<<Case(1, {<<1, 0>>}, u)>>, TRUE, w), Block(<<Defer("f", Lit("5"))>> \o v)>> :
        u \in UpTo2(NestStmts), v \in UpTo1(NestStmts), w \in UpTo1(NestStmts \ {Break})}
NestFns ==
    {Fn(FALSE, {"f"}, FALSE, <<While(Cond, b)>>) : b \in NestBodies}
    \cup {Fn(TRUE, {"f"}, FALSE, <<For(NoStmt, Cond, Expr(Get(<< >>)), b)>>) : b \in NestBodies}

(* Addresses: where the pointer goes after it was made. *)
PtrStmts == {Use("p"), Assign("p", Addr("y")), Do("keep", <<Loc("p")>>), Do("store", <<Addr("x")>>), Defer("f", Loc("p")),
             Do("use", <<Call("same", <<Addr("y")>>)>>), Return(Loc("p"))}
PtrFns ==
    {Fn(FALSE, {"f"}, TRUE,
        <<VarDecl("x", Lit("1")), VarDecl("y", Lit("2")), VarDecl("p", e), c>> \o t) :
        e \in {Addr("x"), Call("same", <<Addr("x")>>)},
        c \in Compounds(UpTo2(PtrStmts), PtrStmts, PtrStmts, {Step}),
        t \in {<<Return(Loc("p"))>>, <<Return(Lit("1"))>>, <<Return(Call("same", <<Addr("y")>>))>>,
               <<Assign("p", Addr("y")), Return(Loc("p"))>>,
               <<VarDecl("a", Loc("p")), Assign("p", Addr("y")), Return(Loc("a"))>>}}

(* The constructs on which the code disagrees with the design document. *)
StepFns ==
    {Fn(FALSE, {}, FALSE, <<VarDecl("a", NoExpr), For(NoStmt, Cond, Assign("a", Lit("1")), b)>>) :
        b \in UpTo2({Step, Use("a"), Break, Continue})}
DefaultFns ==
    {Fn(FALSE, {}, FALSE, <<While(Cond, <<Switch(<<Case(1, {<<1, 0>>}, << >>)>>, TRUE, w), Step>>)>>) :
        w \in UpTo2({Step, Break})}

MCFunctions ==
    CASE Family = "all" -> <<FlowFns, ResultFns, AsyncFns, NestFns, PtrFns>>
      [] Family = "for_step" -> <<StepFns>>
      [] Family = "default_break" -> <<DefaultFns>>
-----------------------------------------------------------------------------
(* The files of the front end. *)

ItemTexts == {
    <<"type", "T", "=", "unsafe", "(", "T", "fn", "(", ")", ")", ";">>,
    <<"import", ".", "/", "x", "/", "y", "as", "T", ";">>,
    <<"#c_include", "str", "type", "T", "=", "i64", ";">>,
    <<"type", "T", "<", "x", ":", "T", "<", "y", "=", "_", ":", "T", ">>", "=", "unsafe", "extern", "C",
      "i64", "fn", "(", "[", "]", "const", "T", ")", ";">>,
    <<"unsafe", "extern", "C", "{", "opaque", "struct", "T", ";", "noescape", "void", "x", "(", ")", ";",
      "type", "T", "=", "str", ";", "}">>,
    <<"resource", "unsafe", "struct", "T", "<", "resource", "x", ">", "{", "*", "const", "T", "x", ";",
      "[", "int", "]", "T", "y", ";", "}">>,
    <<"enum", "T", "{", "x", "(", "T", ",", "T", ")", ",", "y", ",", "}">>,
    <<"unsafe", "interface", "<", "T", "->", "y", ">", "T", "x", "(", "T", "@", "x", ")", "=", ".", "y", ";">>,
    <<"interface", "T", "=", "x", "+", "y", "-", "T", "<", "T", ">", ";">>,
    <<"unsafe", "derivable", "unsafe", "impl", "<", "T", ">", "x", "<", "T", ">", "(", "T", "x", ")", "{", "}">>,
    <<"derive", "<", "T", ">", "x", "<", "T", "<", "T", ">>", ";", "enum", "T", "{", "}">>,
    <<"export", "async", "_", ":", "T", "+", "T", "x", "(", ")", "=", "x", ".", "y", ";">>,
    <<"extern", "C", "type", "T", "=", "str", ";", "extern", "C", "i64", "x", "(", ")", ";">> }

StatementTexts == {
    <<"T", "<", "T", ">", "@", "x", "=", "x", "<", "T", ">", "(", "y", ",", "x", ")", ";">>,
    <<"x", ".", "y", "<", "T", "<", "y", ">>", "x", ";">>,
    <<"(", "x", ")", "<", "T", "<", "y", ">>", ";">>,
    <<"if", "(", "x", ")", "{", "}", "else", "if", "(", "y", ")", "{", "}", "else", "{", "}">>,
    <<"while", "(", "!", "x", ")", "{", "break", ";", "}">>,
    <<"for", "(", "i64", "x", "=", "int", ";", "x", "<", "y", ";", "x", "=", "y", ")", "{", "continue", ";", "}">>,
    <<"switch", "(", "x", ")", "{", "case", "T", "::", "x", "(", "@", "y", ",", "_", ")", ":", "return", ";",
      "default", ":", "x", ";", "}">>,
    <<"defer", "x", "(", ")", ";", "return", "&", "x", ".", "y", ";">>,
    <<"x", "=", "y", "+", "x", "*", "int", "==", "x", "&", "y", "||", "x", ";">>,
    <<"x", "[", "y", "..", "]", "=", "[", "x", ",", "y", "]", ";">>,
    <<"x", "=", "{", "x", ":", "int", ",", "y", ":", "x", "}", ";">>,
    <<"x", "=", "async", "|", "T", "x", ",", "@", "y", "|", "{", "return", "x", ";", "}", ";">>,
    <<"x", "=", "||", "await", "x", "(", ")", "?", ";">>,
    <<"x", "=", "biased", "select", "{", "case", "x", "=", "y", ":", "x", ";", "case", "y", "=", "x", ":", "y", "}", ";">>,
    <<"x", "=", "unsafe", "{", "T", "y", "=", "x", ";", "x", "->", "y", "=", "x", ";", "y", "}", ";">>,
    <<"x", ".", "T", "::", "y", "(", "[", "int", ";", "int", "]", ")", ";">>,
    <<"T", "|", "(", "T", ")", "|", "x", "=", "x", "as", "T", ";">> }

InFunction(body) == <<"void", "x", "(", ")", "{">> \o body \o <<"}">>

Texts == ItemTexts \cup {InFunction(body) : body \in StatementTexts}

(* Gated files: a gate is a sequence of branches, the last of them perhaps an #else. *)

Item(n) == <<"import", IF n = 1 THEN "x" ELSE IF n = 2 THEN "y" ELSE "T", ";">>

Conditions == { [text |-> <<"has_feature", "(", "C", ")">>, holds |-> TRUE],
                [text |-> <<"!", "has_feature", "(", "C", ")">>, holds |-> FALSE],
                [text |-> <<"has_feature", "(", "str", ")", "||", "has_feature", "(", "C", ")", "&&",
                            "has_feature", "(", "str", ")">>, holds |-> FALSE] }

\* if c1 { b1 } elif c2 { b2 } else { b3 }: its text, and the branch it selects.
GateSource(c1, b1, c2, b2, b3) ==
    [text |-> <<"#if">> \o c1.text \o b1.text \o <<"#elif">> \o c2.text \o b2.text
              \o <<"#else">> \o b3.text \o <<"#endif">>,
     selected |-> IF c1.holds THEN b1.selected ELSE IF c2.holds THEN b2.selected ELSE b3.selected]

Ungated(items) == [text |-> items, selected |-> items]

SmallGate(c, n) ==
    [text |-> <<"#if">> \o c.text \o Item(n) \o <<"#endif">>, selected |-> IF c.holds THEN Item(n) ELSE <<>>]

Inner(n) == {Ungated(Item(n))} \cup {SmallGate(c, n) : c \in Conditions}

GateSources ==
    { GateSource(c1, b1, c2, Ungated(Item(2)), Ungated(Item(3))) :
        c1 \in Conditions, c2 \in Conditions, b1 \in Inner(1) }
    \cup { GateSource(c1, Ungated(Item(1)), c2, b2, Ungated(Item(3))) :
            c1 \in Conditions, c2 \in Conditions, b2 \in Inner(2) }

MCFiles == {Ungated(t) : t \in Texts} \cup GateSources

FrontendRests == source = (CHOOSE s \in Files : TRUE) /\ FE!Init
CompileRests == fn = (CHOOSE f \in Functions[Len(Functions)] : TRUE) /\ Init

BenchInit ==
    \/ bench = "compile" /\ FrontendRests /\ Init
    \/ bench = "parse" /\ CompileRests /\ FE!Init

Compiles(Act) == bench = "compile" /\ Act /\ UNCHANGED <<bench, frontendVars>>
Parses(Act) == bench = "parse" /\ Act /\ UNCHANGED <<bench, vars>>

BenchNext ==
    \/ Compiles(Check) \/ Compiles(Generate) \/ Compiles(Start) \/ Compiles(DropUnpolled)
    \/ Compiles(Run) \/ Compiles(Ready) \/ Compiles(Suspend) \/ Compiles(Resume)
    \/ Compiles(Abort) \/ Compiles(Finish)
    \/ Parses(FE!Check) \/ Parses(FE!Insert) \/ Parses(FE!Delete) \/ Parses(FE!Replace)

BenchSpec == BenchInit /\ [][BenchNext]_benchVars

(* The invariants of the front end (Frontend). *)
ParseEnds == FE!ParseEnds
TreeFaithful == FE!TreeFaithful
GrammarAccepted == FE!GrammarAccepted
GatesSelect == FE!GatesSelect
=============================================================================
