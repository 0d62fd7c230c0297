------------------------------ MODULE L2Grammar ------------------------------
(***************************************************************************)
(* The syntax trees of L2 by kind, as the class hierarchy and the          *)
(* constructors of frontend/ast.h allow them.  t is a choice of sets of    *)
(* trees, t.aexps (ArithmeticExpr), t.rexps (RelationalExpr), t.stmts      *)
(* (Statement) and t.blocks (BlockStmt); each operator has the trees of    *)
(* one kind whose parts are in these sets.                                 *)
(***************************************************************************)
EXTENDS L2Ast

Paths        == [op : {"path"}, root : STRING, fieldAccesses : Seq(STRING)]
Declarations == [type : STRING, id : STRING]
TypeDefs     == [op : {"typedef"}, type_name : STRING, fields : Seq(Declarations)]

ArithmeticExprs(t) ==
  [op : {"int"}, value : Int] \cup {Nil} \cup [op : {"new"}, type : STRING] \cup Paths
  \cup [op : ArithmeticOps, lhs : t.aexps, rhs : t.aexps]

RelationalExprs(t) ==
  [op : RelationalOps, lhs : t.aexps, rhs : t.aexps]
  \cup [op : LogicalOps, lhs : t.rexps, rhs : t.rexps]
  \cup [op : {"not"}, operand : t.rexps]

FunctionCalls(t) == [op : {"call"}, callee_name : STRING, arguments : Seq(t.aexps)]

Statements(t) ==
  [op : {"assign"}, lhs : Paths, rhs : t.aexps \cup FunctionCalls(t)]
  \cup [op : {"if"}, guard : t.rexps, true_branch : t.blocks, false_branch : t.blocks]
  \cup [op : {"while"}, guard : t.rexps, body : t.blocks]

BlockStmts(t) == [op : {"block"}, decls : Seq(Declarations), stmts : Seq(t.stmts)]

FunctionDefs(t) ==
  [op : {"fundef"}, function_name : STRING, type : STRING, parameters : Seq(Declarations),
   function_body : t.blocks, retval : t.aexps]

ProgramTrees(t) ==
  [op : {"program"}, type_defs : Seq(TypeDefs), function_defs : Seq(FunctionDefs(t)),
   statements : t.blocks, arithmetic_exp : t.aexps]

\* Whatever the constructors make of the trees of t is in t.
Closed(t) ==
  /\ ArithmeticExprs(t) \subseteq t.aexps
  /\ RelationalExprs(t) \subseteq t.rexps
  /\ Statements(t) \subseteq t.stmts
  /\ BlockStmts(t) \subseteq t.blocks

\* The trees of t are made by the constructors from trees of t.
Made(t) ==
  /\ t.aexps \subseteq ArithmeticExprs(t)
  /\ t.rexps \subseteq RelationalExprs(t)
  /\ t.stmts \subseteq Statements(t)
  /\ t.blocks \subseteq BlockStmts(t)
=============================================================================
