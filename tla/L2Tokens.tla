------------------------------ MODULE L2Tokens ------------------------------
(* The tokens of L2 (frontend/token.h).  s is the string or operator a      *)
(* token holds, n its number.                                               *)
EXTENDS Integers

TokenTypes ==
  {"Id", "Num", "Type", "If", "Else", "While", "Def", "Return", "Output",
   "ArithOp", "RelOp", "LBinOp", "LNeg", "LParen", "RParen", "LBrace", "RBrace",
   "LBracket", "RBracket", "Semicolon", "Assign", "HasType", "Comma", "Dot",
   "Nil", "Struct", "New"}

Tokens == [type : TokenTypes, s : STRING, n : Int]

Token(type)      == [type |-> type, s |-> "", n |-> 0]
WithText(type, s) == [type |-> type, s |-> s, n |-> 0]
IdToken(x)       == WithText("Id", x)
TypeToken(t)     == WithText("Type", t)
NumToken(k)      == [type |-> "Num", s |-> "", n |-> k]

\* The token of an operator of the syntax tree.
OperatorToken(op) ==
  WithText(CASE op \in {"add", "sub", "mul"} -> "ArithOp"
             [] op \in {"lt", "le", "eq"}    -> "RelOp"
             [] op \in {"and", "or"}         -> "LBinOp", op)
=============================================================================
