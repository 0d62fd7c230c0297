------------------------------- MODULE Parser -------------------------------
(***************************************************************************)
(* The recursive descent of frontend/parser.cpp.                           *)
(*                                                                         *)
(* The activations of the parse methods are the stack todo, of what        *)
(* remains to be done in order: parse a nonterminal, match a token, take   *)
(* its value, build a node.  What the methods have returned to their       *)
(* callers lies on the stack values, the last value on top.                *)
(***************************************************************************)
EXTENDS L2Ast, L2Tokens

CONSTANT
  Inputs   \* pairs of a program and tokens that are read for it, right or wrong

ASSUME InputsAssumption == \A input \in Inputs : input[2] \in Seq(Tokens)

VARIABLES
  source,    \* history: the program meant
  tokens,
  head,      \* how many tokens have been matched: one more than Parser::head
  todo,
  values,
  outcome    \* "parsing", "parsed", "error" (InvalidASTError), "undefined"

vars == <<source, tokens, head, todo, values, outcome>>

-----------------------------------------------------------------------------
P(rule)  == [op |-> "parse", arg |-> rule]
M(type)  == [op |-> "match", arg |-> type]
Take(type) == [op |-> "take", arg |-> type]    \* match, and keep the token
Many(rule) == [op |-> "many", arg |-> rule]    \* a loop around a parse method
List(rule) == <<[op |-> "list", arg |-> ""], Many(rule)>>
B(node)  == [op |-> "build", arg |-> node]
Tag(op)  == [op |-> "tag", arg |-> op]

None == Token("none")

\* nextToken() and, where the caller has tested nextToken(), nextToken(2).
nextToken == IF head = Len(tokens) THEN None ELSE tokens[head + 1]
Next2Mapped == head + 2 <= Len(tokens)

Task == Head(todo)
At(op) == outcome = "parsing" /\ todo # <<>> /\ Task.op = op
Rule(rules) == At("parse") /\ Task.arg \in rules
Then(tasks) == todo' = tasks \o Tail(todo)
Push(v) == values' = Append(values, v)
Top == Last(values)

\* throw InvalidASTError.
Reject == outcome' = "error" /\ UNCHANGED <<source, tokens, head, todo, values>>

Init ==
  /\ \E input \in Inputs : source = input[1] /\ tokens = input[2]
  /\ head = 0
  /\ todo = <<P("program")>>
  /\ values = <<>>
  /\ outcome = "parsing"

-----------------------------------------------------------------------------
(* Tokens. *)

\* Mutant of matchToken: a token of another type, or none, is matched, too.
MatchAnything ==
  /\ At("match") \/ At("take")
  /\ head' = head + 1
  /\ IF Task.op = "take" THEN Push(nextToken) ELSE UNCHANGED values
  /\ Then(<<>>)
  /\ UNCHANGED <<source, tokens, outcome>>

matchToken ==
  /\ At("match") \/ At("take")
  /\ nextToken.type = Task.arg
  /\ head' = head + 1
  /\ IF Task.op = "take" THEN Push(nextToken) ELSE UNCHANGED values
  /\ Then(<<>>)
  /\ UNCHANGED <<source, tokens, outcome>>

MismatchedToken ==
  /\ At("match") \/ At("take")
  /\ nextToken.type # Task.arg
  /\ Reject

-----------------------------------------------------------------------------
(* Loops: parseDecls, parseStmts, parseFunArgs, parseParams, parseFunDefs,  *)
(* parseTypeDefs, and that of parseAccessPath.                              *)

\* Mutant of FirstOf: an argument cannot begin with a name.
FirstOfNoName(rule) ==
  CASE rule = "field" -> {"Dot"}
    [] rule \in {"declaration", "param"} -> {"Type"}
    [] rule = "statement" -> {"Id", "While", "If"}
    [] rule = "argument" -> {"Num", "ArithOp"}
    [] rule = "fundef" -> {"Def"}
    [] rule = "typedef" -> {"Struct"}

\* The tokens on which a loop goes on.
FirstOf(rule) ==
  CASE rule = "field" -> {"Dot"}
    [] rule \in {"declaration", "param"} -> {"Type"}
    [] rule = "statement" -> {"Id", "While", "If"}
    [] rule = "argument" -> {"Num", "Id", "ArithOp"}
    [] rule = "fundef" -> {"Def"}
    [] rule = "typedef" -> {"Struct"}

StartList ==
  /\ At("list")
  /\ Push(<<>>)
  /\ Then(<<>>)
  /\ UNCHANGED <<source, tokens, head, outcome>>

\* One more element, then a comma that may be there or not.
GoOn ==
  /\ At("many") /\ nextToken.type \in FirstOf(Task.arg)
  /\ Then(<<P(Task.arg), B(IF Task.arg = "field" THEN "name" ELSE "append")>>
          \o (IF Task.arg \in {"argument", "param"} THEN <<P("comma")>> ELSE <<>>)
          \o <<Task>>)
  /\ UNCHANGED <<source, tokens, head, values, outcome>>

EndList ==
  /\ At("many") /\ nextToken.type \notin FirstOf(Task.arg)
  /\ Then(<<>>)
  /\ UNCHANGED <<source, tokens, head, values, outcome>>

\* Mutant of OptionalComma: a loop that does not match the comma.
CommaNotMatched ==
  /\ Rule({"comma"})
  /\ Then(IF nextToken.type = "Comma" THEN <<Task>> ELSE <<>>)
  /\ UNCHANGED <<source, tokens, head, values, outcome>>

OptionalComma ==
  /\ Rule({"comma"})
  /\ Then(IF nextToken.type = "Comma" THEN <<M("Comma")>> ELSE <<>>)
  /\ UNCHANGED <<source, tokens, head, values, outcome>>

-----------------------------------------------------------------------------
(* Arithmetic and relational expressions. *)

\* parseArithmeticExpr, parseATerm and parseRexp: an operand, then the rest
\* of the chain, nothing or a pair of an operator and what follows it.
Operand(rule) == CASE rule = "aexp" -> "aterm" [] rule = "aterm" -> "afactor" [] rule = "rexp" -> "rexp1"
Rest(rule)    == CASE rule = "aexp" -> "aexp'" [] rule = "aterm" -> "aterm'"  [] rule = "rexp" -> "rexp'"

ParseChain ==
  /\ Rule({"aexp", "aterm", "rexp"})
  /\ Then(<<P(Operand(Task.arg)), P(Rest(Task.arg)), B("join")>>)
  /\ UNCHANGED <<source, tokens, head, values, outcome>>

LinkOps(rule) == CASE rule = "aexp'"  -> {"add", "sub"}
                   [] rule = "aterm'" -> {"mul"}
                   [] rule = "rexp'"  -> {"and", "or"}
LinkOperand(rule) == CASE rule = "aexp'" -> "aterm" [] rule = "aterm'" -> "afactor" [] rule = "rexp'" -> "rexp1"

\* nextToken() is one of the operator tokens the method compares it with.
NextIsOperator(ops) == nextToken.type \in {"ArithOp", "RelOp", "LBinOp"} /\ nextToken.s \in ops

NoRest == [op |-> "none"]

\* What joins the operand behind the operator op to the rest behind it: the
\* operator the rest begins with, but for conditions, where it is op again.
LinkNode(op, rule) == IF rule = "rexp'" THEN op ELSE "join"

\* Mutant of Link: every operator of a sum is returned as a plus.
LinkAsPlus(op, rule) ==
  <<M(nextToken.type), P(LinkOperand(rule)), P(rule), B(LinkNode(op, rule)),
    Tag(IF op = "sub" THEN "add" ELSE op)>>

\* The operator, its operand, and the rest of the chain joined to that.
Link(op, rule) ==
  <<M(nextToken.type), P(LinkOperand(rule)), P(rule), B(LinkNode(op, rule)), Tag(op)>>

\* parseAExpPrime, parseATermPrime and parseRexpPrime2: the last one does not
\* look at the operator that its own recursive call returns.
ParseRest ==
  /\ Rule({"aexp'", "aterm'", "rexp'"})
  /\ IF NextIsOperator(LinkOps(Task.arg))
     THEN Then(Link(nextToken.s, Task.arg)) /\ UNCHANGED values
     ELSE Then(<<>>) /\ Push(NoRest)
  /\ UNCHANGED <<source, tokens, head, outcome>>

TagRest ==
  /\ At("tag")
  /\ values' = Append(Front(values), [op |-> "rest", link |-> Task.arg, tree |-> Top])
  /\ Then(<<>>)
  /\ UNCHANGED <<source, tokens, head, outcome>>

FactorStarts == {"LParen", "Num", "Id", "Nil", "New"}

parseAFactor ==
  /\ Rule({"afactor"}) /\ nextToken.type \in FactorStarts
  /\ Then(CASE nextToken.type = "LParen" -> <<M("LParen"), P("aexp"), M("RParen")>>
            [] nextToken.type = "Num"    -> <<Take("Num"), B("int")>>
            [] nextToken.type = "Id"     -> <<P("path")>>
            [] nextToken.type = "Nil"    -> <<M("Nil"), B("nil")>>
            [] nextToken.type = "New"    -> <<M("New"), Take("Type"), P("notint"), B("new")>>)
  /\ UNCHANGED <<source, tokens, head, values, outcome>>

parseAccessPath ==
  /\ Rule({"path"})
  /\ Then(<<Take("Id")>> \o List("field") \o <<B("path")>>)
  /\ UNCHANGED <<source, tokens, head, values, outcome>>

\* Mutant of parseRexpPrime1: a negation applies to the next operand only.
NegateOperand ==
  /\ Rule({"rexp1"})
  /\ Then(CASE nextToken.type = "LNeg"     -> <<M("LNeg"), P("rexp1"), B("not")>>
            [] nextToken.type = "LBracket" -> <<M("LBracket"), P("rexp"), M("RBracket")>>
            [] OTHER                       -> <<P("aexp"), P("comparison")>>)
  /\ UNCHANGED <<source, tokens, head, values, outcome>>

\* parseRexpPrime1, with a comparison after its first operand.
parseRexpPrime1 ==
  /\ Rule({"rexp1"})
  /\ Then(CASE nextToken.type = "LNeg"     -> <<M("LNeg"), P("rexp"), B("not")>>
            [] nextToken.type = "LBracket" -> <<M("LBracket"), P("rexp"), M("RBracket")>>
            [] OTHER                       -> <<P("aexp"), P("comparison")>>)
  /\ UNCHANGED <<source, tokens, head, values, outcome>>

ParseComparison ==
  /\ Rule({"comparison"}) /\ NextIsOperator(RelationalOps)
  /\ Then(<<M("RelOp"), P("aexp"), B(nextToken.s)>>)
  /\ UNCHANGED <<source, tokens, head, values, outcome>>

\* No factor begins here, no comparison follows, or int is not a struct.
RejectExpression ==
  /\ \/ Rule({"afactor"}) /\ nextToken.type \notin FactorStarts
     \/ Rule({"comparison"}) /\ ~NextIsOperator(RelationalOps)
     \/ Rule({"notint"}) /\ Top.s = "int"
  /\ Reject

AcceptType ==
  /\ Rule({"notint"}) /\ Top.s # "int"
  /\ Then(<<>>)
  /\ UNCHANGED <<source, tokens, head, values, outcome>>

-----------------------------------------------------------------------------
(* Statements. *)

ParseRightHandSide(rule) ==
  /\ Then(<<P(rule)>>)
  /\ UNCHANGED <<source, tokens, head, values, outcome>>

LooksLikeCall == nextToken.type = "Id" /\ tokens[head + 2].type = "LParen"

\* parseAssignmentExprP after the sign, "the one place we do LL(2)".
LookAhead ==
  /\ Rule({"rhs"}) /\ (nextToken = None \/ Next2Mapped)
  /\ ParseRightHandSide(IF nextToken # None /\ LooksLikeCall THEN "call" ELSE "aexp")

\* nextToken(2) copies a token from behind the last: the copy may fail, or
\* yield a token of any type.
LookPastEnd ==
  /\ Rule({"rhs"}) /\ nextToken # None /\ ~Next2Mapped
  /\ \/ ParseRightHandSide("aexp")
     \/ nextToken.type = "Id" /\ ParseRightHandSide("call")
     \/ outcome' = "undefined" /\ UNCHANGED <<source, tokens, head, todo, values>>

StatementRules == {"statement", "block", "else"}

\* parseStatementP and the methods it calls, parseBlockStmt among them.
Condition == <<M("LParen"), P("rexp"), M("RParen")>>
Branch    == <<M("LBrace"), P("block"), M("RBrace")>>

StatementTasks ==
  CASE nextToken.type = "While" -> <<M("While")>> \o Condition \o Branch \o <<B("while")>>
    [] nextToken.type = "If"    -> <<M("If")>> \o Condition \o Branch \o <<P("else"), B("if")>>
    [] nextToken.type = "Id"    -> <<P("path"), M("Assign"), P("rhs"), M("Semicolon"), B("assign")>>

ParseStatement ==
  /\ Rule(StatementRules)
  /\ Then(CASE Task.arg = "statement" -> StatementTasks
            [] Task.arg = "block" -> List("declaration") \o List("statement") \o <<B("block")>>
            [] Task.arg = "else" -> IF nextToken.type = "Else" THEN <<M("Else")>> \o Branch
                                    ELSE <<B("noelse")>>)
  /\ UNCHANGED <<source, tokens, head, values, outcome>>

\* parseFunCall and parseFunArgs.
parseFunCall ==
  /\ Rule({"call", "argument"})
  /\ Then(IF Task.arg = "argument" THEN <<P("aexp")>>
          ELSE <<Take("Id"), M("LParen")>> \o List("argument") \o <<M("RParen"), B("call")>>)
  /\ UNCHANGED <<source, tokens, head, values, outcome>>

-----------------------------------------------------------------------------
(* Definitions and programs. *)

DefinitionRules == {"declaration", "param", "field", "fundef", "typedef", "program"}

DefinitionTasks(rule) ==
  CASE rule = "declaration" -> <<Take("Type"), Take("Id"), M("Semicolon"), B("declaration")>>
    [] rule = "param"  -> <<Take("Type"), Take("Id"), B("declaration")>>
    [] rule = "field"  -> <<M("Dot"), Take("Id")>>
    [] rule = "fundef" ->
         <<M("Def"), Take("Id"), M("LParen")>> \o List("param")
         \o <<M("RParen"), M("HasType"), Take("Type"), M("LBrace"), P("block"), M("Return"),
              P("aexp"), M("Semicolon"), M("RBrace"), B("fundef")>>
    [] rule = "typedef" ->
         <<M("Struct"), Take("Type"), P("notint"), M("LBrace")>> \o List("declaration")
         \o <<M("RBrace"), M("Semicolon"), B("typedef")>>
    [] rule = "program" ->
         List("typedef") \o List("fundef")
         \o <<P("block"), M("Output"), P("aexp"), M("Semicolon"), B("program")>>

ParseDefinition ==
  /\ Rule(DefinitionRules)
  /\ Then(DefinitionTasks(Task.arg))
  /\ UNCHANGED <<source, tokens, head, values, outcome>>

-----------------------------------------------------------------------------
(* Nodes, from the values of their parts. *)

\* r.first joined by r.second, and by an operator that is fixed.
Join(l, rest) == IF rest.op = "none" THEN l ELSE Binary(rest.link, l, rest.tree)
JoinBy(op, l, rest) == IF rest.op = "none" THEN l ELSE Binary(op, l, rest.tree)

Arity(node) == CASE node \in {"nil", "noelse"} -> 0
                 [] node \in {"int", "new", "not"} -> 1
                 [] node = "if" -> 3
                 [] node = "program" -> 4
                 [] node = "fundef" -> 5
                 [] OTHER -> 2

Node(node, v) ==
  CASE node = "append" -> Append(v[1], v[2])
    [] node = "name"   -> Append(v[1], v[2].s)
    [] node = "join"   -> Join(v[1], v[2])
    [] node \in LogicalOps -> JoinBy(node, v[1], v[2])
    [] node = "int"    -> Int32(v[1].n)
    [] node = "nil"    -> Nil
    [] node = "noelse" -> Block(<<>>, <<>>)
    [] node = "new"    -> New(v[1].s)
    [] node = "not"    -> Not(v[1])
    [] node = "path"   -> Path(v[1].s, v[2])
    [] node \in RelationalOps -> Binary(node, v[1], v[2])
    [] node = "call"   -> Call(v[1].s, v[2])
    [] node = "assign" -> Assign(v[1], v[2])
    [] node = "block"  -> Block(v[1], v[2])
    [] node = "while"  -> While(v[1], v[2])
    [] node = "if"     -> If(v[1], v[2], v[3])
    [] node = "declaration" -> Declaration(v[1].s, v[2].s)
    [] node = "typedef" -> TypeDef(v[1].s, v[2])
    [] node = "fundef" -> FunctionDef(v[1].s, v[3].s, v[2], v[4], v[5])
    [] node = "program" -> Program(v[1], v[2], v[3], v[4])

BuildNode ==
  /\ At("build")
  /\ Then(<<>>)
  /\ LET n == Len(values) - Arity(Task.arg)
     IN  values' = Append(SubSeq(values, 1, n), Node(Task.arg, SubSeq(values, n + 1, Len(values))))
  /\ UNCHANGED <<source, tokens, head, outcome>>

Finish ==
  /\ outcome = "parsing" /\ todo = <<>>
  /\ outcome' = "parsed"
  /\ UNCHANGED <<source, tokens, head, todo, values>>

\* parse() has returned or thrown.
Ended == outcome # "parsing" /\ UNCHANGED vars

Step ==
  \/ matchToken \/ MismatchedToken \/ StartList \/ GoOn \/ EndList \/ OptionalComma
  \/ ParseChain \/ ParseRest \/ TagRest \/ parseAFactor \/ parseAccessPath
  \/ parseRexpPrime1 \/ ParseComparison \/ RejectExpression \/ AcceptType
  \/ LookAhead \/ LookPastEnd \/ ParseStatement \/ parseFunCall \/ ParseDefinition
  \/ BuildNode \/ Finish

Next == Step \/ Ended

\* Every step changes what remains to be done, or ends the parsing.
Spec == Init /\ [][Next]_vars /\ WF_<<todo, outcome>>(Step)

-----------------------------------------------------------------------------
\* Type invariant: among others, no value is missing or left over.
TypeOK ==
  /\ head \in 0..Len(tokens)
  /\ \A i \in DOMAIN todo : todo[i].op \in {"parse", "match", "take", "many", "list", "build", "tag"}
  /\ outcome \in {"parsing", "parsed", "error", "undefined"}
  /\ outcome = "parsed" => Len(values) = 1

\* parse() ends: recursion and loops consume tokens.
Terminates == outcome = "parsing" ~> outcome # "parsing"
=============================================================================
