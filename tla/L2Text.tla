------------------------------- MODULE L2Text -------------------------------
(***************************************************************************)
(* The reference for the parser: the tokens of a syntax tree.  A chain of  *)
(* operators of one rank groups from the right; where a tree groups        *)
(* otherwise, its text has parentheses, or brackets around conditions, and *)
(* brackets where && and || would be links of one chain.                   *)
(* What a negation applies to reaches as far as it can.                    *)
(***************************************************************************)
EXTENDS L2Ast, L2Tokens

Parens(text)   == <<Token("LParen")>> \o text \o <<Token("RParen")>>
Braces(text)   == <<Token("LBrace")>> \o text \o <<Token("RBrace")>>
Brackets(text) == <<Token("LBracket")>> \o text \o <<Token("RBracket")>>

Commas(texts) == IF texts = <<>> THEN <<>>
                 ELSE Head(texts) \o FlattenSeq([i \in 1..(Len(texts) - 1) |-> <<Token("Comma")>> \o texts[i + 1]])

DeclText(ds) == FlattenSeq([i \in DOMAIN ds |->
                  <<TypeToken(ds[i].type), IdToken(ds[i].id), Token("Semicolon")>>])
ParamText(ps) == Commas([i \in DOMAIN ps |-> <<TypeToken(ps[i].type), IdToken(ps[i].id)>>])

\* The operators that need grouping as operands on the left, or on the right.
GroupedLeft(op) == CASE op = "mul" -> ArithmeticOps
                     [] op \in {"add", "sub"} -> {"add", "sub"}
                     [] op \in LogicalOps -> LogicalOps \cup {"not"}
                     [] OTHER -> {}
GroupedRight(op) == CASE op = "mul" -> {"add", "sub"}
                      [] op \in LogicalOps -> LogicalOps \ {op}
                      [] OTHER -> {}

RECURSIVE Text(_)
Text(t) ==
  LET Grouped(ops, e) == IF e.op \notin ops THEN Text(e)
                         ELSE IF e.op \in ArithmeticOps THEN Parens(Text(e)) ELSE Brackets(Text(e))
      Texts(es) == FlattenSeq([i \in DOMAIN es |-> Text(es[i])])
  IN
  CASE t.op = "int"  -> <<NumToken(t.value)>>
    [] t.op = "nil"  -> <<Token("Nil")>>
    [] t.op = "new"  -> <<Token("New"), TypeToken(t.type)>>
    [] t.op = "path" -> <<IdToken(t.root)>>
                        \o FlattenSeq([i \in DOMAIN t.fieldAccesses |->
                                         <<Token("Dot"), IdToken(t.fieldAccesses[i])>>])
    [] t.op \in BinaryOps -> Grouped(GroupedLeft(t.op), t.lhs) \o <<OperatorToken(t.op)>>
                             \o Grouped(GroupedRight(t.op), t.rhs)
    [] t.op = "not"  -> <<Token("LNeg")>> \o Text(t.operand)
    [] t.op = "call" -> <<IdToken(t.callee_name)>>
                        \o Parens(Commas([i \in DOMAIN t.arguments |-> Text(t.arguments[i])]))
    [] t.op = "assign" -> Text(t.lhs) \o <<Token("Assign")>> \o Text(t.rhs) \o <<Token("Semicolon")>>
    [] t.op = "block"  -> DeclText(t.decls) \o Texts(t.stmts)
    [] t.op = "while"  -> <<Token("While")>> \o Parens(Text(t.guard)) \o Braces(Text(t.body))
    [] t.op = "if"     -> <<Token("If")>> \o Parens(Text(t.guard)) \o Braces(Text(t.true_branch))
                          \o IF t.false_branch = Block(<<>>, <<>>) THEN <<>>
                             ELSE <<Token("Else")>> \o Braces(Text(t.false_branch))
    [] t.op = "typedef" -> <<Token("Struct"), TypeToken(t.type_name)>> \o Braces(DeclText(t.fields))
                           \o <<Token("Semicolon")>>
    [] t.op = "fundef" -> <<Token("Def"), IdToken(t.function_name)>> \o Parens(ParamText(t.parameters))
                          \o <<Token("HasType"), TypeToken(t.type)>>
                          \o Braces(Text(t.function_body) \o <<Token("Return")>> \o Text(t.retval)
                                    \o <<Token("Semicolon")>>)
    [] t.op = "program" -> Texts(t.type_defs) \o Texts(t.function_defs) \o Text(t.statements)
                           \o <<Token("Output")>> \o Text(t.arithmetic_exp) \o <<Token("Semicolon")>>

\* The tokens that only group or separate.
Grouping == {"LParen", "RParen", "LBracket", "RBracket", "Comma"}
Ungrouped(text) == SelectSeq(text, LAMBDA t : t.type \notin Grouping)
=============================================================================
