------------------------------ MODULE Printer ------------------------------
(***************************************************************************)
(* AstNode::toString(): the text that PrintVisitor builds of a tree.  The  *)
(* tests of the parser compare trees by it alone.                          *)
(***************************************************************************)
EXTENDS L2Ast, TLC

Appended(texts) == FoldLeft(LAMBDA s, t : s \o t, "", texts)

\* Mutant: the text of < was copied for <=.
SymbolCopied(op) == CASE op = "add" -> "+" [] op = "sub" -> "-"  [] op = "mul" -> "*"
                      [] op = "lt"  -> "<" [] op = "le"  -> "<"  [] op = "eq"  -> "="
                      [] op = "and" -> "&&" [] op = "or" -> "||"

Symbol(op) == CASE op = "add" -> "+" [] op = "sub" -> "-"  [] op = "mul" -> "*"
                [] op = "lt"  -> "<" [] op = "le"  -> "<=" [] op = "eq"  -> "="
                [] op = "and" -> "&&" [] op = "or" -> "||"

PrintPath(p) == p.root \o Appended([i \in DOMAIN p.fieldAccesses |-> "." \o p.fieldAccesses[i]])

PrintDecls(ds) == Appended([i \in DOMAIN ds |-> ds[i].type \o " " \o ds[i].id \o "; "])

PrintParams(ps) ==
  Appended([i \in DOMAIN ps |->
              ps[i].type \o " " \o ps[i].id \o (IF i < Len(ps) THEN ", " ELSE "")])

PrintArithmetic(op, l, r) == "(" \o Symbol(op) \o " " \o l \o " " \o r \o ")"
PrintCondition(op, l, r)  == "[" \o Symbol(op) \o " " \o l \o " " \o r \o "]"
PrintNot(e)               == "[!" \o e \o "]"

\* Arguments are printed one after the other, with nothing between them.
PrintCall(f, args) == f \o "(" \o Appended(args) \o ")"

PrintBlock(ds, stmts) == PrintDecls(ds) \o " " \o Appended(stmts)
PrintAssign(l, r)     == l \o " := " \o r \o "; "
PrintIf(g, b1, b2)    == "if " \o g \o " {" \o b1 \o "} else {" \o b2 \o "}"
PrintWhile(g, b)      == "while (" \o g \o ") {" \o b \o "}"

PrintFunctionDef(f, params, t, b, e) ==
  "def " \o f \o "(" \o params \o ") : " \o t \o " {" \o b \o "return " \o e \o "; }"

PrintTypeDef(t, ds) == "struct " \o t \o " {\n" \o PrintDecls(ds) \o "\n};"

\* The definitions of types are not visited.
PrintProgram(funs, b, e) == Appended(funs) \o b \o " output " \o e \o ";"

RECURSIVE toString(_)
toString(t) ==
  LET Each(ts) == [i \in DOMAIN ts |-> toString(ts[i])]
  IN
  CASE t.op = "int"  -> ToString(t.value)
    [] t.op = "nil"  -> "nil"
    [] t.op = "new"  -> "new " \o t.type
    [] t.op = "path" -> PrintPath(t)
    [] t.op \in ArithmeticOps -> PrintArithmetic(t.op, toString(t.lhs), toString(t.rhs))
    [] t.op \in RelationalOps \cup LogicalOps -> PrintCondition(t.op, toString(t.lhs), toString(t.rhs))
    [] t.op = "not"  -> PrintNot(toString(t.operand))
    [] t.op = "call" -> PrintCall(t.callee_name, Each(t.arguments))
    [] t.op = "block"  -> PrintBlock(t.decls, Each(t.stmts))
    [] t.op = "assign" -> PrintAssign(toString(t.lhs), toString(t.rhs))
    [] t.op = "if"     -> PrintIf(toString(t.guard), toString(t.true_branch), toString(t.false_branch))
    [] t.op = "while"  -> PrintWhile(toString(t.guard), toString(t.body))
    [] t.op = "fundef" -> PrintFunctionDef(t.function_name, PrintParams(t.parameters), t.type,
                                           toString(t.function_body), toString(t.retval))
    [] t.op = "typedef" -> PrintTypeDef(t.type_name, t.fields)
    [] t.op = "program" -> PrintProgram(Each(t.function_defs), toString(t.statements),
                                        toString(t.arithmetic_exp))

-----------------------------------------------------------------------------
(* What a printed tree does not show. *)

RECURSIVE Shown(_)
\* The tree without its type definitions, the arguments of a call merged.
Shown(t) ==
  LET Each(ts) == [i \in DOMAIN ts |-> Shown(ts[i])]
  IN
  CASE t.op \in BinaryOps -> Binary(t.op, Shown(t.lhs), Shown(t.rhs))
    [] t.op = "not"  -> Not(Shown(t.operand))
    [] t.op = "call" -> Call(t.callee_name,
                             Appended([i \in DOMAIN t.arguments |-> toString(t.arguments[i])]))
    [] t.op = "assign" -> Assign(t.lhs, Shown(t.rhs))
    [] t.op = "block"  -> Block(t.decls, Each(t.stmts))
    [] t.op = "if"     -> If(Shown(t.guard), Shown(t.true_branch), Shown(t.false_branch))
    [] t.op = "while"  -> While(Shown(t.guard), Shown(t.body))
    [] t.op = "fundef" -> FunctionDef(t.function_name, t.type, t.parameters,
                                      Shown(t.function_body), Shown(t.retval))
    [] t.op = "program" -> Program(<<>>, Each(t.function_defs), Shown(t.statements),
                                   Shown(t.arithmetic_exp))
    [] OTHER -> t
=============================================================================
