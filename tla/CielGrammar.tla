----------------------------- MODULE CielGrammar -----------------------------
(***************************************************************************)
(* The grammar that design.md gives for Ciel (its EBNF blocks), as data,   *)
(* and the set of token strings it derives.  This is the reference the     *)
(* parser is checked against; nothing here is taken from src/parser.rs.    *)
(***************************************************************************)
EXTENDS Naturals, Sequences

Tok(kinds) == [op |-> "tok", kinds |-> kinds]
T(kind) == Tok({kind})
NT(name) == [op |-> "nt", name |-> name]
Seq_(parts) == [op |-> "seq", parts |-> parts]
Alt(parts) == [op |-> "alt", parts |-> parts]
Opt(part) == [op |-> "opt", part |-> part]
Rep(part) == [op |-> "rep", part |-> part]

\* The empty string, where the next token is none of kinds.
Unless(kinds) == [op |-> "unless", kinds |-> kinds]

\* X { "," X } [ "," ]
Commas(part) == Seq_(<<part, Rep(Seq_(<<T(","), part>>)), Opt(T(","))>>)

\* X { op X }
Chain(kinds, part) == Seq_(<<part, Rep(Seq_(<<Tok(kinds), part>>))>>)

Identifier == Tok({"x", "y", "T"})
IntegerLiteral == T("int")
StringLiteral == Tok({"str", "C"})
Type == NT("Type")
Expr == NT("Expr")
Block == NT("Block")
Generics == Opt(NT("GenericParamList"))
AbiSpec == Seq_(<<T("extern"), T("C")>>)
Unsafe == Opt(T("unsafe"))
PrefixOps == Rep(Tok({"!", "~", "-", "&", "*"}))

TypeRules ==
    [ Type |-> Seq_(<<Unsafe, Opt(AbiSpec), NT("PrefixType"), Rep(NT("CallableSuffix"))>>),
      PrefixType |-> Seq_(<<Rep(Seq_(<<Tok({"*", "?*"}), Opt(T("const"))>>)), NT("PrimaryType")>>),
      PrimaryType |-> Alt(<<Seq_(<<Identifier, Opt(NT("TypeArgList"))>>), Tok({"_", "never", "void", "i64"}),
                            Seq_(<<T("["), IntegerLiteral, T("]"), Type>>),
                            Seq_(<<T("["), T("]"), Opt(T("const")), Type>>),
                            Seq_(<<T("("), Type, T(")")>>)>>),
      TypeArgList |-> Seq_(<<T("<"), Commas(Type), T(">")>>),
      CallableSuffix |-> Alt(<<Seq_(<<T("fn"), T("("), Opt(Commas(Type)), T(")")>>),
                               Seq_(<<T("|"), T("("), Opt(Commas(Type)), T(")"), T("|")>>)>>) ]

DeclarationRules ==
    [ TopLevel |-> Alt(<<Seq_(<<Opt(T("export")), NT("ExportableItem")>>), NT("ImplDecl"),
                         Seq_(<<Unsafe, T("derivable"), NT("ImplDecl")>>),
                         Seq_(<<Unsafe, T("derive"), Generics, Identifier, NT("TypeArgList"), T(";")>>),
                         Seq_(<<T("#c_include"), StringLiteral>>)>>),
      ExportableItem |->
          Alt(<<Seq_(<<T("import"), Alt(<<T("/"), Opt(Seq_(<<T("."), T("/")>>))>>), Chain({"/"}, Identifier),
                       Opt(Seq_(<<T("as"), Identifier>>)), T(";")>>),
                Seq_(<<T("type"), Identifier, Generics, T("="), Type, T(";")>>),
                Seq_(<<AbiSpec, T("type"), Identifier, T("="), Alt(<<Type, StringLiteral>>), T(";")>>),
                Seq_(<<Opt(T("resource")), Unsafe, T("struct"), Identifier, Generics,
                       T("{"), Rep(Seq_(<<Type, Identifier, T(";")>>)), T("}")>>),
                Seq_(<<T("enum"), Identifier, Generics, T("{"), Opt(Commas(NT("VariantDecl"))), T("}")>>),
                Seq_(<<Unsafe, T("interface"), NT("InterfaceGenerics"), NT("ReturnType"), Identifier,
                       NT("Params"), Opt(NT("ReceiverSelector")), T(";")>>),
                Seq_(<<T("interface"), Identifier, Generics, T("="), NT("InterfaceExpr"), T(";")>>),
                Seq_(<<NT("FunctionHead"), Alt(<<Block, T(";")>>)>>),
                Seq_(<<Unsafe, AbiSpec, T("{"), Rep(NT("ExternItem")), T("}")>>)>>),
      FunctionHead |->
          Seq_(<<Unsafe, Opt(AbiSpec), Opt(T("async")), NT("Signature"), Opt(NT("ReceiverSelector"))>>),
      VariantDecl |-> Seq_(<<Identifier, Opt(Seq_(<<T("("), Commas(Type), T(")")>>))>>),
      InterfaceExpr |-> Chain({"+", "-"}, Seq_(<<Identifier, Opt(NT("TypeArgList"))>>)),
      ImplDecl |-> Seq_(<<Unsafe, T("impl"), Generics, Identifier, Opt(NT("TypeArgList")), NT("Params"), Block>>),
      Signature |-> Seq_(<<NT("ReturnType"), Identifier, Generics, NT("Params")>>),
      ReturnType |-> Alt(<<Type, Seq_(<<T("_"), T(":"), NT("ConstraintExpr")>>)>>),
      ReceiverSelector |-> Seq_(<<T("="), Opt(Identifier), T("."), Identifier>>),
      GenericParamList |-> Seq_(<<T("<"), Commas(NT("GenericParam")), T(">")>>),
      InterfaceGenerics |-> Seq_(<<T("<"), Chain({","}, NT("GenericParam")),
                                   Opt(Seq_(<<T("->"), Chain({","}, NT("GenericParam"))>>)), Opt(T(",")), T(">")>>),
      GenericParam |-> Seq_(<<Opt(T("resource")), Identifier, Opt(Seq_(<<T(":"), NT("ConstraintExpr")>>))>>),
      ConstraintExpr |-> Chain({"+", "-"}, Seq_(<<Identifier, Opt(NT("ConstraintArgs"))>>)),
      ConstraintArgs |-> Seq_(<<T("<"), Commas(Alt(<<Type, Seq_(<<Identifier, T("="), T("_"),
                                        Opt(Seq_(<<T(":"), NT("ConstraintExpr")>>))>>)>>)), T(">")>>),
      Params |-> Seq_(<<T("("), Opt(Commas(Seq_(<<Type, NT("BindingName")>>))), T(")")>>),
      BindingName |-> Seq_(<<Opt(T("@")), Identifier>>),
      ExternItem |-> Alt(<<Seq_(<<T("opaque"), T("struct"), Identifier, T(";")>>),
                           Seq_(<<Opt(T("noescape")), NT("Signature"), T(";")>>),
                           Seq_(<<T("type"), Identifier, T("="), Alt(<<Type, StringLiteral>>), T(";")>>)>>) ]

\* Where both a block and a struct literal could start a statement, it is a block.
StatementRules ==
    [ Block |-> Seq_(<<T("{"), Rep(NT("Statement")), T("}")>>),
      Statement |->
          Alt(<<Block, NT("IfStmt"), Seq_(<<NT("VarDecl"), T(";")>>), Seq_(<<NT("Assign"), T(";")>>),
                Seq_(<<T("while"), T("("), Expr, T(")"), Block>>),
                Seq_(<<T("for"), T("("), Opt(Alt(<<NT("VarDecl"), NT("Assign"), Expr>>)), T(";"), Opt(Expr), T(";"),
                       Opt(Alt(<<NT("Assign"), Expr>>)), T(")"), Block>>),
                Seq_(<<T("switch"), T("("), Expr, T(")"), T("{"),
                       Rep(Seq_(<<T("case"), NT("Pattern"), T(":"), Rep(NT("Statement"))>>)),
                       Opt(Seq_(<<T("default"), T(":"), Rep(NT("Statement"))>>)), T("}")>>),
                Seq_(<<T("defer"), NT("PostfixExpr"), T(";")>>), Seq_(<<T("return"), Opt(Expr), T(";")>>),
                Seq_(<<Tok({"break", "continue"}), T(";")>>), Seq_(<<Unless({"{"}), Expr, T(";")>>)>>),
      IfStmt |-> Seq_(<<T("if"), T("("), Expr, T(")"), Block,
                        Opt(Seq_(<<T("else"), Alt(<<Block, NT("IfStmt")>>)>>))>>),
      VarDecl |-> Seq_(<<Type, NT("BindingName"), Opt(Seq_(<<T("="), Expr>>))>>),
      Assign |-> Seq_(<<NT("LValue"), T("="), Expr>>),
      LValue |-> Alt(<<NT("PostfixExpr"), Seq_(<<T("*"), NT("UnaryExpr")>>)>>),
      Pattern |-> Alt(<<Seq_(<<Chain({"::"}, Identifier), Opt(Seq_(<<T("("), Commas(NT("Pattern")), T(")")>>))>>),
                        NT("BindingName"), T("_")>>) ]

\* LogicalOr .. Multiplicative in three rules that derive the same strings, but for a comparison of a comparison:
\* `a < b > c` is `a<b>` with type arguments.  Which operand is whose is Precedence below.  CastExpr spells out the
\* UnaryExpr in it.
ExpressionRules ==
    [ Expr |-> Chain({"||", "&&", "|", "^", "&", "==", "!="}, NT("RelationalExpr")),
      RelationalExpr |-> Seq_(<<NT("ShiftExpr"), Opt(Seq_(<<Tok({"<", "<=", ">", ">="}), NT("ShiftExpr")>>))>>),
      ShiftExpr |-> Chain({"<<", ">>", "+", "-", "*", "/", "%"}, NT("CastExpr")),
      CastExpr |-> Seq_(<<PrefixOps, NT("PrimaryExpr"), Rep(NT("PostfixOp")), Opt(Seq_(<<T("as"), Type>>))>>),
      UnaryExpr |-> Seq_(<<PrefixOps, NT("PostfixExpr")>>),
      PostfixExpr |-> Seq_(<<NT("PrimaryExpr"), Rep(NT("PostfixOp"))>>),
      PostfixOp |-> Alt(<<Seq_(<<Opt(NT("TypeArgList")), T("("), Opt(Commas(Expr)), T(")")>>),
                          Seq_(<<T("."), Chain({"::"}, Identifier)>>), Seq_(<<T("->"), Identifier>>), T("?"),
                          Seq_(<<T("["), Expr, T("]")>>), Seq_(<<T("["), Opt(Expr), T(".."), Opt(Expr), T("]")>>)>>),
      PrimaryExpr |->
          Alt(<<Seq_(<<Chain({"::"}, Identifier), Opt(NT("TypeArgList"))>>), Tok({"int", "str", "C", "true", "null"}),
                Seq_(<<T("{"), Opt(Commas(Seq_(<<Identifier, T(":"), Expr>>))), T("}")>>),
                Seq_(<<T("["), Opt(Alt(<<Commas(Expr), Seq_(<<Expr, T(";"), Opt(IntegerLiteral)>>)>>)), T("]")>>),
                Seq_(<<Opt(T("async")), Alt(<<T("||"), Seq_(<<T("|"), Commas(NT("ClosureParam")), T("|")>>)>>),
                       Alt(<<Block, Expr>>)>>),
                Seq_(<<T("await"), NT("PostfixExpr")>>),
                Seq_(<<Opt(T("biased")), T("select"), T("{"), NT("SelectArm"), Rep(NT("SelectArm")), T("}")>>),
                Seq_(<<T("unsafe"), T("{"), Rep(NT("Statement")), Opt(Expr), T("}")>>),
                Seq_(<<T("("), Expr, T(")")>>)>>),
      ClosureParam |-> Alt(<<NT("BindingName"), Seq_(<<Type, NT("BindingName")>>)>>),
      SelectArm |-> Seq_(<<T("case"), Identifier, T("="), Expr, T(":"), Expr, Opt(T(";"))>>) ]

Rule(name) ==
    CASE name \in DOMAIN TypeRules -> TypeRules[name]
      [] name \in DOMAIN DeclarationRules -> DeclarationRules[name]
      [] name \in DOMAIN StatementRules -> StatementRules[name]
      [] name \in DOMAIN ExpressionRules -> ExpressionRules[name]

\* The rank of an operator in the chain of rules LogicalOr .. Multiplicative.
Precedence(kind) ==
    LET ranks == <<{"||"}, {"&&"}, {"|"}, {"^"}, {"&"}, {"==", "!="}, {"<", "<=", ">", ">="}, {"<<", ">>"},
                   {"+", "-"}, {"*", "/", "%"}>>
    IN  CHOOSE n \in DOMAIN ranks : kind \in ranks[n]

\* The positions where a string derived from part may end when it starts at position i of text.
RECURSIVE Ends(_, _, _)
RECURSIVE SeqEnds(_, _, _, _)
RECURSIVE RepEnds(_, _, _)

\* A nonterminal stands for its rule.
Expand(part) == IF part.op = "nt" THEN Rule(part.name) ELSE part

Ends(part, text, i) ==
    CASE part.op = "tok" -> IF i <= Len(text) /\ text[i] \in part.kinds THEN {i + 1} ELSE {}
      [] part.op = "unless" -> IF i <= Len(text) /\ text[i] \in part.kinds THEN {} ELSE {i}
      [] part.op = "seq" -> SeqEnds(part.parts, 1, text, i)
      [] part.op = "alt" -> UNION {Ends(Expand(part.parts[n]), text, i) : n \in DOMAIN part.parts}
      [] part.op = "opt" -> {i} \cup Ends(Expand(part.part), text, i)
      [] part.op = "rep" -> RepEnds(Expand(part.part), text, i)

SeqEnds(parts, n, text, i) ==
    IF n > Len(parts) THEN {i}
    ELSE UNION {SeqEnds(parts, n + 1, text, j) : j \in Ends(Expand(parts[n]), text, i)}

RepEnds(part, text, i) == {i} \cup UNION {RepEnds(part, text, j) : j \in Ends(part, text, i)}

\* The files the grammar derives, without configuration gates.
Sentence(text) == Len(text) + 1 \in Ends(Rep(NT("TopLevel")), text, 1)
=============================================================================
