------------------------------ MODULE L2Syntax ------------------------------
(***************************************************************************)
(* The concrete syntax of L2, as rules that say which parts of a sequence  *)
(* of tokens ts spell which trees.  A phrase is a tree and the part of ts  *)
(* it spans: the tokens after the first p.from, up to the p.to-th.  d is a *)
(* choice of a set of phrases for each nonterminal; it obeys the rules if  *)
(* what they make of its phrases is in it.  What ts spells are the phrases *)
(* that are in every such choice.                                          *)
(*                                                                         *)
(* Nothing is said of how phrases are found: the rules know neither the    *)
(* order in which tokens are read nor how far one may look ahead.  Chains  *)
(* of connectives have two rules: as they are written, and as the parser   *)
(* reads them.                                                             *)
(***************************************************************************)
EXTENDS L2Ast, L2Tokens

Phrase(x, from, to) == [tree |-> x, from |-> from, to |-> to]

\* The k-th token.
TokenAt(ts, k) == IF k \in DOMAIN ts THEN ts[k] ELSE Token("none")
Is(ts, k, type) == TokenAt(ts, k).type = type
IsOperator(ts, k, ops) ==
  TokenAt(ts, k).type \in {"ArithOp", "RelOp", "LBinOp"} /\ TokenAt(ts, k).s \in ops

\* The tokens right before and behind a phrase.
Between(ts, open, p, close) == Is(ts, p.from, open) /\ Is(ts, p.to + 1, close)
InParens(ts, p) == Between(ts, "LParen", p, "RParen")
InBraces(ts, p) == Between(ts, "LBrace", p, "RBrace")

-----------------------------------------------------------------------------
\* A chain of operators groups from the right.
Chain(ts, operands, ops, chains) ==
  /\ operands \subseteq chains
  /\ \A l \in operands, r \in chains :
       IsOperator(ts, l.to + 1, ops) /\ r.from = l.to + 1 =>
         Phrase(Binary(TokenAt(ts, l.to + 1).s, l.tree, r.tree), l.from, r.to) \in chains

\* Any number of elements, one after the other.
ListOf(ts, elements, lists) ==
  /\ \A k \in 0..Len(ts) : Phrase(<<>>, k, k) \in lists
  /\ \A l \in lists, e \in elements :
       e.from = l.to => Phrase(Append(l.tree, e.tree), l.from, e.to) \in lists

\* The same, with a comma after an element, or without.
CommaList(ts, elements, lists) ==
  /\ ListOf(ts, elements, lists)
  /\ \A l \in lists, e \in elements :
       e.from = l.to /\ Is(ts, e.to + 1, "Comma") =>
         Phrase(Append(l.tree, e.tree), l.from, e.to + 1) \in lists

-----------------------------------------------------------------------------
FactorRules(ts, d) ==
  /\ \A k \in DOMAIN ts : Is(ts, k, "Num") => Phrase(Int32(ts[k].n), k - 1, k) \in d["afactor"]
  /\ \A k \in DOMAIN ts : Is(ts, k, "Nil") => Phrase(Nil, k - 1, k) \in d["afactor"]
  /\ \A k \in DOMAIN ts : Is(ts, k, "Type") /\ ts[k].s # "int" /\ Is(ts, k - 1, "New") =>
       Phrase(New(ts[k].s), k - 2, k) \in d["afactor"]
  /\ \A e \in d["aexp"] : InParens(ts, e) => Phrase(e.tree, e.from - 1, e.to + 1) \in d["afactor"]
  /\ d["path"] \subseteq d["afactor"]

PathRules(ts, d) ==
  /\ \A k \in DOMAIN ts : Is(ts, k, "Id") /\ Is(ts, k - 1, "Dot") =>
       Phrase(ts[k].s, k - 2, k) \in d["field"]
  /\ ListOf(ts, d["field"], d["fields"])
  /\ \A l \in d["fields"] : Is(ts, l.from, "Id") =>
       Phrase(Path(ts[l.from].s, l.tree), l.from - 1, l.to) \in d["path"]

ExpressionRules(ts, d) ==
  /\ Chain(ts, d["afactor"], {"mul"}, d["aterm"])
  /\ Chain(ts, d["aterm"], {"add", "sub"}, d["aexp"])

\* A negation reaches as far as it can.  d["conditions"] is what stands behind
\* a connective, and is joined by it to the condition before it.
Connected(ts, l, r) == IsOperator(ts, l.to + 1, LogicalOps) /\ r.from = l.to + 1
Joined(ts, k, l, r) == Phrase(Binary(TokenAt(ts, k).s, l.tree, r.tree), l.from, r.to)

ConditionRules(ts, d) ==
  /\ d["rexp1"] \subseteq d["rexp"] \cap d["conditions"]
  /\ \A l \in d["rexp1"], r \in d["conditions"] :
       Connected(ts, l, r) => Joined(ts, l.to + 1, l, r) \in d["rexp"]
  /\ \A l, r \in d["aexp"] :
       IsOperator(ts, l.to + 1, RelationalOps) /\ r.from = l.to + 1 =>
         Phrase(Binary(TokenAt(ts, l.to + 1).s, l.tree, r.tree), l.from, r.to) \in d["rexp1"]
  /\ \A e \in d["rexp"] : Is(ts, e.from, "LNeg") => Phrase(Not(e.tree), e.from - 1, e.to) \in d["rexp1"]
  /\ \A e \in d["rexp"] : Between(ts, "LBracket", e, "RBracket") =>
       Phrase(e.tree, e.from - 1, e.to + 1) \in d["rexp1"]

CallRules(ts, d) ==
  /\ CommaList(ts, d["aexp"], d["arguments"])
  /\ \A l \in d["arguments"] : Is(ts, l.from - 1, "Id") /\ InParens(ts, l) =>
       Phrase(Call(ts[l.from - 1].s, l.tree), l.from - 2, l.to + 1) \in d["call"]

AssignmentRule(ts, d) ==
  \A p \in d["path"], e \in d["aexp"] \cup d["call"] :
    Is(ts, p.to + 1, "Assign") /\ e.from = p.to + 1 /\ Is(ts, e.to + 1, "Semicolon") =>
      Phrase(Assign(p.tree, e.tree), p.from, e.to + 1) \in d["statement"]

LoopRule(ts, d) ==
  \A g \in d["rexp"], b \in d["block"] :
    Is(ts, g.from - 1, "While") /\ InParens(ts, g) /\ InBraces(ts, b) /\ b.from = g.to + 2 =>
      Phrase(While(g.tree, b.tree), g.from - 2, b.to + 1) \in d["statement"]

ConditionalRules(ts, d) ==
  /\ \A k \in 0..Len(ts) : Phrase(Block(<<>>, <<>>), k, k) \in d["else"]
  /\ \A b \in d["block"] : Is(ts, b.from - 1, "Else") /\ InBraces(ts, b) =>
       Phrase(b.tree, b.from - 2, b.to + 1) \in d["else"]
  /\ \A g \in d["rexp"], b \in d["block"], e \in d["else"] :
       /\ Is(ts, g.from - 1, "If") /\ InParens(ts, g)
       /\ b.from = g.to + 2 /\ InBraces(ts, b) /\ e.from = b.to + 1
       => Phrase(If(g.tree, b.tree, e.tree), g.from - 2, e.to) \in d["statement"]

DeclarationRules(ts, d) ==
  /\ \A k \in DOMAIN ts : Is(ts, k - 1, "Type") /\ Is(ts, k, "Id") =>
       /\ Phrase(Declaration(ts[k - 1].s, ts[k].s), k - 2, k) \in d["param"]
       /\ Is(ts, k + 1, "Semicolon") =>
            Phrase(Declaration(ts[k - 1].s, ts[k].s), k - 2, k + 1) \in d["declaration"]
  /\ ListOf(ts, d["declaration"], d["declarations"])
  /\ CommaList(ts, d["param"], d["params"])

BlockRules(ts, d) ==
  /\ ListOf(ts, d["statement"], d["statements"])
  /\ \A ds \in d["declarations"], ss \in d["statements"] :
       ss.from = ds.to => Phrase(Block(ds.tree, ss.tree), ds.from, ss.to) \in d["block"]

FunctionRules(ts, d) ==
  /\ \A ps \in d["params"], b \in d["block"], e \in d["aexp"] :
       /\ Is(ts, ps.from - 2, "Def") /\ Is(ts, ps.from - 1, "Id") /\ InParens(ts, ps)
       /\ Is(ts, ps.to + 2, "HasType") /\ Is(ts, ps.to + 3, "Type")
       /\ b.from = ps.to + 4 /\ Between(ts, "LBrace", b, "Return")
       /\ e.from = b.to + 1 /\ Is(ts, e.to + 1, "Semicolon") /\ Is(ts, e.to + 2, "RBrace")
       => Phrase(FunctionDef(ts[ps.from - 1].s, ts[ps.to + 3].s, ps.tree, b.tree, e.tree),
                 ps.from - 3, e.to + 2) \in d["fundef"]
  /\ ListOf(ts, d["fundef"], d["fundefs"])

StructRules(ts, d) ==
  /\ \A ds \in d["declarations"] :
       /\ Is(ts, ds.from - 2, "Struct") /\ Is(ts, ds.from - 1, "Type") /\ ts[ds.from - 1].s # "int"
       /\ InBraces(ts, ds) /\ Is(ts, ds.to + 2, "Semicolon")
       => Phrase(TypeDef(ts[ds.from - 1].s, ds.tree), ds.from - 3, ds.to + 2) \in d["typedef"]
  /\ ListOf(ts, d["typedef"], d["typedefs"])

ProgramRule(ts, d) ==
  \A td \in d["typedefs"], fd \in d["fundefs"], b \in d["block"], e \in d["aexp"] :
    /\ fd.from = td.to /\ b.from = fd.to
    /\ Is(ts, b.to + 1, "Output") /\ e.from = b.to + 1 /\ Is(ts, e.to + 1, "Semicolon")
    => Phrase(Program(td.tree, fd.tree, b.tree, e.tree), td.from, e.to + 1) \in d["program"]

\* All rules but that of chains of connectives.
CommonRules(ts, d) ==
  /\ FactorRules(ts, d) /\ PathRules(ts, d) /\ ExpressionRules(ts, d) /\ ConditionRules(ts, d)
  /\ CallRules(ts, d) /\ AssignmentRule(ts, d) /\ LoopRule(ts, d) /\ ConditionalRules(ts, d)
  /\ DeclarationRules(ts, d) /\ BlockRules(ts, d) /\ FunctionRules(ts, d) /\ StructRules(ts, d) /\ ProgramRule(ts, d)

\* Several conditions behind a connective are joined by those between them.
ChainsAsWritten(ts, d) ==
  \A l \in d["rexp1"], r \in d["conditions"] :
    Connected(ts, l, r) => Joined(ts, l.to + 1, l, r) \in d["conditions"]

\* They are joined by the one before the first: a && b || c is a && (b && c).
ChainsAsRead(ts, d) ==
  \A l \in d["rexp1"], r \in d["conditions"] :
    Connected(ts, l, r) /\ IsOperator(ts, l.from, LogicalOps) =>
      Joined(ts, l.from, l, r) \in d["conditions"]

Obeys(ts, d) == CommonRules(ts, d) /\ ChainsAsWritten(ts, d)
ObeysAsRead(ts, d) == CommonRules(ts, d) /\ ChainsAsRead(ts, d)

\* The first n tokens of ts are a text of the program x.
Spells(ts, n, x) == \A d : Obeys(ts, d) => Phrase(x, 0, n) \in d["program"]

\* They are read as the program x.
ReadsAs(ts, n, x) == \A d : ObeysAsRead(ts, d) => Phrase(x, 0, n) \in d["program"]

\* No two connectives differ: either rule makes the same of them.
OneConnective(ts) ==
  \A i, j \in DOMAIN ts :
    IsOperator(ts, i, LogicalOps) /\ IsOperator(ts, j, LogicalOps) => ts[i].s = ts[j].s
=============================================================================
