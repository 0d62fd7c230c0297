-------------------------------- MODULE L2Ast --------------------------------
(***************************************************************************)
(* The syntax trees of L2 (frontend/ast.h): one constructor per node       *)
(* class.  A node is a record whose field op names its class, the other    *)
(* fields being the accessors of the class.  Names are strings; a type is  *)
(* the string its TypeExpr holds.                                          *)
(***************************************************************************)
EXTENDS Integers, Sequences, SequencesExt

Int32(n)  == [op |-> "int", value |-> n]
Nil       == [op |-> "nil"]
New(t)    == [op |-> "new", type |-> t]
Path(x, fields) == [op |-> "path", root |-> x, fieldAccesses |-> fields]

Binary(op, l, r) == [op |-> op, lhs |-> l, rhs |-> r]
Add(l, r)      == Binary("add", l, r)
Subtract(l, r) == Binary("sub", l, r)
Multiply(l, r) == Binary("mul", l, r)
LessThan(l, r) == Binary("lt", l, r)
LessEqual(l, r) == Binary("le", l, r)
EqualTo(l, r)  == Binary("eq", l, r)
And(l, r)      == Binary("and", l, r)
Or(l, r)       == Binary("or", l, r)
Not(e)         == [op |-> "not", operand |-> e]

ArithmeticOps == {"add", "sub", "mul"}
RelationalOps == {"lt", "le", "eq"}
LogicalOps    == {"and", "or"}
BinaryOps     == ArithmeticOps \cup RelationalOps \cup LogicalOps

Declaration(t, x) == [type |-> t, id |-> x]
IsIntType(t)      == t = "int"

Assign(p, e)     == [op |-> "assign", lhs |-> p, rhs |-> e]
Call(f, args)    == [op |-> "call", callee_name |-> f, arguments |-> args]
If(re, b1, b2)   == [op |-> "if", guard |-> re, true_branch |-> b1, false_branch |-> b2]
While(re, b)     == [op |-> "while", guard |-> re, body |-> b]
Block(ds, stmts) == [op |-> "block", decls |-> ds, stmts |-> stmts]

TypeDef(t, ds) == [op |-> "typedef", type_name |-> t, fields |-> ds]
FunctionDef(f, t, params, b, e) ==
  [op |-> "fundef", function_name |-> f, type |-> t, parameters |-> params,
   function_body |-> b, retval |-> e]
Program(types, funs, b, e) ==
  [op |-> "program", type_defs |-> types, function_defs |-> funs, statements |-> b, arithmetic_exp |-> e]

Ids(ds) == {ds[i].id : i \in DOMAIN ds}
=============================================================================
