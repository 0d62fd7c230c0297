------------------------------ MODULE MCParser ------------------------------
(***************************************************************************)
(* The parser on the texts of the programs of L2Programs, on damaged texts *)
(* (a token lost, or replaced, or the end missing), on chains of && and || *)
(* without brackets, and on arguments of every beginning.                  *)
(***************************************************************************)
EXTENDS Parser

P0 == INSTANCE L2Programs
T == INSTANCE L2Text
Pr == INSTANCE Printer

\* Programs in whose texts every rule of the grammar occurs.
Samples ==
  {Program(<<TypeDef("t", <<Declaration("int", "n")>>)>>,
           <<FunctionDef("f", "t", <<Declaration("int", "a"), Declaration("t", "p")>>,
                         Block(<<Declaration("int", "x")>>, <<>>), Nil)>>,
           Block(<<Declaration("t", "p")>>,
                 <<Assign(Path("p", <<>>), New("t")),
                   Assign(Path("p", <<"n">>), Call("f", <<Int32(1), Path("p", <<"n">>)>>))>>),
           Path("p", <<"n">>)),
   Program(<<>>, <<>>,
           Block(<<>>,
                 <<While(Not(And(LessThan(Int32(1), Path("x", <<>>)), EqualTo(Nil, Nil))),
                         Block(<<>>, <<>>)),
                   If(Or(And(LessThan(Int32(1), Int32(2)), EqualTo(Int32(3), Int32(4))),
                         LessEqual(Int32(5), Int32(6))),
                      Block(<<>>, <<>>), Block(<<>>, <<Assign(Path("x", <<>>), Int32(1))>>))>>),
           Subtract(Multiply(Add(Int32(1), Int32(2)), Int32(3)),
                    Subtract(Int32(4), Add(Int32(5), Int32(6)))))}

AnyToken == {Token(ty) : ty \in TokenTypes \ {"Id", "Num", "Type", "ArithOp", "RelOp", "LBinOp"}}
            \cup {IdToken("z"), TypeToken("int"), NumToken(9)} \cup {OperatorToken(op) : op \in {"sub", "mul", "le", "or"}}

Damaged(text) ==
  {SubSeq(text, 1, k) : k \in 0..(Len(text) - 1)}
  \cup {[text EXCEPT ![k] = t] : k \in DOMAIN text, t \in AnyToken}
  \cup {RemoveAt(text, k) : k \in DOMAIN text}

TextsOf(pg) == LET text == T!Text(pg)
               IN  {text} \cup IF pg \in Samples THEN Damaged(text) ELSE {}

\* Chains with both connectives, grouped as they are without brackets.
OneGuard(g) == Program(<<>>, <<>>, Block(<<>>, <<While(g, Block(<<>>, <<>>))>>), Int32(0))
Compared(k) == LessThan(Int32(k), Int32(2))
MixedChains ==
  {OneGuard(Binary(o1, Compared(0), Binary(o2, Compared(1), Binary(o3, Compared(3), Compared(4))))) :
     o1, o2, o3 \in LogicalOps}
Unbracketed(text) == SelectSeq(text, LAMBDA t : t.type \notin {"LBracket", "RBracket"})

\* Calls with an argument of each form, before and behind another one.
Arguments == {Int32(1), Path("x", <<"n">>), Add(Int32(1), Int32(2)), Nil, New("t"),
              Multiply(Add(Int32(1), Int32(2)), Int32(3))}
Calls ==
  {Program(<<>>, <<>>, Block(<<>>, <<Assign(Path("x", <<>>), Call("f", args))>>), Int32(0)) :
     args \in {<<a>> : a \in Arguments} \cup {<<a, Int32(7)>> : a \in Arguments}
              \cup {<<Int32(7), a>> : a \in Arguments}}

MCInputs ==
  UNION {{pg} \X TextsOf(pg) : pg \in P0!AllPrograms \cup Samples \cup Calls}
  \cup {<<pg, Unbracketed(T!Text(pg))>> : pg \in MixedChains}

Tree == values[1]

\* What parseFunArgs does not go on at: an argument begins with one of these.
BeginsArgument(text, k) ==
  \/ k > 1 /\ text[k - 1].type = "Comma"
  \/ k > 2 /\ text[k - 1].type = "LParen" /\ text[k - 2].type = "Id"
RefusedArgument(text) ==
  \E k \in DOMAIN text : text[k].type \in {"LParen", "Nil", "New"} /\ BeginsArgument(text, k)

\* From the text of a program the parser gets that program back: every tree
\* the code generator is run on is one it builds.  Only a text with such an
\* argument is refused, though calls take "a (possibly empty) sequence of
\* arithmetic expressions as arguments" (ast.h:35).
RoundTrip ==
  outcome # "parsing" /\ tokens = T!Text(source) =>
    IF RefusedArgument(tokens) THEN outcome = "error"
    ELSE outcome = "parsed" /\ Tree = source /\ head = Len(tokens)

\* The tokens read, and the connectives among tokens.
Read == SubSeq(tokens, 1, head)
Connectives(text) == SelectSeq(text, LAMBDA t : t.type = "LBinOp")
OneKind(text) == Cardinality({Connectives(text)[k] : k \in DOMAIN Connectives(text)}) < 2
AnyConnective(text) == [k \in DOMAIN text |-> IF text[k].type = "LBinOp" THEN OperatorToken("and") ELSE text[k]]

\* Whatever text is accepted, the tree has its tokens, in their order: but
\* for grouping, nothing is dropped, doubled or exchanged.  Where && and ||
\* both occur, this is said of all tokens but them.
KeepsTokens ==
  outcome = "parsed" =>
    LET built == T!Ungrouped(T!Text(Tree))
        read  == T!Ungrouped(Read)
    IN  IF OneKind(read) THEN built = read ELSE AnyConnective(built) = AnyConnective(read)

\* A tree has the connectives that were read: a token "keeps the exact
\* operator" (token.h:60).
KeepsConnectives == outcome = "parsed" => Connectives(T!Text(Tree)) = Connectives(Read)

\* An error is reported at a token that has gone wrong, or after it: not as
\* long as what was read, and the token found, begin the program meant.
\* Programs with an argument that is refused are left to RoundTrip.
NoFalseAlarm ==
  outcome = "error" /\ head < Len(tokens) /\ ~RefusedArgument(T!Text(source)) =>
    ~IsPrefix(SubSeq(tokens, 1, head + 1), T!Text(source))

\* The texts toString() gives of the programs, with what they show of them.
Printed == {<<Pr!toString(pg), Pr!Shown(pg)>> : pg \in P0!AllPrograms \cup Samples \cup Calls}

\* The tests of the parser (parser_test.cpp) compare the tree it built with
\* the tree expected by the text toString() gives of each.  Trees of equal
\* text differ in nothing but their type definitions, which are not printed,
\* and where one argument of a call ends and the next begins.
PrintsApart ==
  outcome = "parsed" =>
    \A p \in Printed : Pr!toString(Tree) = p[1] => Pr!Shown(Tree) = p[2]
=============================================================================
