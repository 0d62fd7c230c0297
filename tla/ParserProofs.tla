---------------------------- MODULE ParserProofs ----------------------------
(***************************************************************************)
(* What the parser promises for every sequence of tokens: the stack of     *)
(* values fits what remains to be done, so that a node is always built     *)
(* from values of the right kinds, no token is read that is not there,     *)
(* and the tree returned is one the constructors of ast.h can make.        *)
(*                                                                         *)
(* The kinds of the values on the stack are followed through the tasks     *)
(* still to be done: for each task, the kinds that will be there when it   *)
(* begins, up to one program when all is done.                             *)
(*                                                                         *)
(* And that the tree says what the tokens say.  What the tasks still to be *)
(* done will make of the values and of the tokens left is followed from    *)
(* its end: whatever they make of them is a program that the tokens spell, *)
(* from the first one on, by the rules of L2Syntax.                        *)
(***************************************************************************)
EXTENDS Parser, L2Syntax, ProofBasics

-----------------------------------------------------------------------------
(* Kinds of values. *)

Kinds == {"token", "names", "path", "aexp", "rexp", "rhs", "arest", "rrest",
          "declaration", "declarations", "arguments", "block", "statement", "statements",
          "typedef", "typedefs", "fundef", "fundefs", "program"}

\* The rest of a chain of operators.
RestOf(ops, trees) == {NoRest} \cup [op : {"rest"}, link : ops, tree : trees]

\* The values of a kind, the trees being in the sets of t.
ValuesOf(t, kind) ==
  CASE kind = "token" -> Tokens
    [] kind = "names" -> Seq(STRING)
    [] kind = "path"  -> Paths
    [] kind = "aexp"  -> t.aexps
    [] kind = "rexp"  -> t.rexps
    [] kind = "rhs"   -> t.aexps \cup FunctionCalls(t)
    [] kind = "arest" -> RestOf(ArithmeticOps, t.aexps)
    [] kind = "rrest" -> RestOf(LogicalOps, t.rexps)
    [] kind = "declaration"  -> Declarations
    [] kind = "declarations" -> Seq(Declarations)
    [] kind = "arguments"    -> Seq(t.aexps)
    [] kind = "block"        -> t.blocks
    [] kind = "statement"    -> t.stmts
    [] kind = "statements"   -> Seq(t.stmts)
    [] kind = "typedef"      -> TypeDefs
    [] kind = "typedefs"     -> Seq(TypeDefs)
    [] kind = "fundef"       -> FunctionDefs(t)
    [] kind = "fundefs"      -> Seq(FunctionDefs(t))
    [] kind = "program"      -> ProgramTrees(t)

\* The kinds a value of this kind may serve as.
ServesAs(kind) ==
  CASE kind = "path" -> {"path", "aexp", "rhs"}
    [] kind = "aexp" -> {"aexp", "rhs"}
    [] OTHER -> {kind}

ListRules == {"field", "declaration", "param", "statement", "argument", "typedef", "fundef"}
ListKinds == {"names", "declarations", "statements", "arguments", "typedefs", "fundefs"}

ListKind(rule) ==
  CASE rule = "field" -> "names"
    [] rule \in {"declaration", "param"} -> "declarations"
    [] rule = "statement" -> "statements"
    [] rule = "argument"  -> "arguments"
    [] rule = "typedef"   -> "typedefs"
    [] rule = "fundef"    -> "fundefs"

\* What the method of a rule returns, for those that return a value.
Returned(rule) ==
  CASE rule = "field" -> "token"
    [] rule \in {"declaration", "param"} -> "declaration"
    [] rule \in {"aexp", "aterm", "afactor", "argument"} -> "aexp"
    [] rule \in {"aexp'", "aterm'"} -> "arest"
    [] rule \in {"rexp", "rexp1"} -> "rexp"
    [] rule = "rexp'" -> "rrest"
    [] rule \in {"block", "else"} -> "block"
    [] rule = "call" -> "rhs"
    [] rule \in {"path", "rhs", "statement", "typedef", "fundef", "program"} -> rule

\* But for statement, which is parsed where a loop has just seen one begin.
ReturningRules ==
  (ListRules \ {"statement"}) \cup {"aexp", "aterm", "afactor", "aexp'", "aterm'", "rexp", "rexp1", "rexp'",
                  "path", "rhs", "call", "block", "else", "program"}

\* A node, the kinds of the values it is built from, and its kind.
Sig(node, parts, kind) == [node |-> node, parts |-> parts, kind |-> kind]
Signatures ==
  {Sig("append", <<"declarations", "declaration">>, "declarations"),
   Sig("append", <<"statements", "statement">>, "statements"),
   Sig("append", <<"arguments", "aexp">>, "arguments"),
   Sig("append", <<"typedefs", "typedef">>, "typedefs"),
   Sig("append", <<"fundefs", "fundef">>, "fundefs"),
   Sig("name", <<"names", "token">>, "names"),
   Sig("join", <<"aexp", "arest">>, "aexp"), Sig("join", <<"rexp", "rrest">>, "rexp"),
   Sig("and", <<"rexp", "rrest">>, "rexp"), Sig("or", <<"rexp", "rrest">>, "rexp"),
   Sig("int", <<"token">>, "aexp"), Sig("nil", <<>>, "aexp"), Sig("new", <<"token">>, "aexp"),
   Sig("path", <<"token", "names">>, "path"),
   Sig("lt", <<"aexp", "aexp">>, "rexp"), Sig("le", <<"aexp", "aexp">>, "rexp"),
   Sig("eq", <<"aexp", "aexp">>, "rexp"), Sig("not", <<"rexp">>, "rexp"),
   Sig("call", <<"token", "arguments">>, "rhs"),
   Sig("assign", <<"path", "rhs">>, "statement"), Sig("while", <<"rexp", "block">>, "statement"),
   Sig("if", <<"rexp", "block", "block">>, "statement"),
   Sig("noelse", <<>>, "block"), Sig("block", <<"declarations", "statements">>, "block"),
   Sig("declaration", <<"token", "token">>, "declaration"),
   Sig("typedef", <<"token", "declarations">>, "typedef"),
   Sig("fundef", <<"token", "declarations", "token", "block", "aexp">>, "fundef"),
   Sig("program", <<"typedefs", "fundefs", "block", "aexp">>, "program")}

-----------------------------------------------------------------------------
(* Tasks, and what they do to the kinds ks on the stack. *)

\* The parts on top give way to one value of a kind in results.
Rewrites(ks, parts, results, ls) ==
  /\ ls \in Seq(Kinds) /\ Len(ls) = Len(ks) - Len(parts) + 1
  /\ Len(parts) <= Len(ks)
  /\ \A j \in 1..Len(parts) : ks[Len(ks) - Len(parts) + j] = parts[j]
  /\ \A j \in 1..(Len(ls) - 1) : ls[j] = ks[j]
  /\ ls[Len(ls)] \in results

TopIs(ks, kind) == Len(ks) > 0 /\ ks[Len(ks)] = kind

ParseDoes(rule, ks, ls) ==
  \/ rule = "comma" /\ ls = ks
  \/ rule = "notint" /\ TopIs(ks, "token") /\ ls = ks
  \/ rule = "comparison" /\ Rewrites(ks, <<"aexp">>, {"rexp"}, ls)
  \/ rule \in ReturningRules /\ Rewrites(ks, <<>>, ServesAs(Returned(rule)), ls)

TagDoes(op, ks, ls) ==
  \/ op \in ArithmeticOps /\ Rewrites(ks, <<"aexp">>, {"arest"}, ls)
  \/ op \in LogicalOps /\ Rewrites(ks, <<"rexp">>, {"rrest"}, ls)

BuildDoes(node, ks, ls) ==
  \E sig \in Signatures : node = sig.node /\ Rewrites(ks, sig.parts, ServesAs(sig.kind), ls)

Does(task, ks, ls) ==
  /\ ks \in Seq(Kinds)
  /\ \/ task.op = "parse" /\ ParseDoes(task.arg, ks, ls)
     \/ task.op = "match" /\ task.arg \in TokenTypes /\ ls = ks
     \/ task.op = "take" /\ task.arg \in TokenTypes /\ Rewrites(ks, <<>>, {"token"}, ls)
     \/ task.op = "list" /\ Rewrites(ks, <<>>, ListKinds, ls)
     \/ task.op = "many" /\ task.arg \in ListRules /\ TopIs(ks, ListKind(task.arg)) /\ ls = ks
     \/ task.op = "tag" /\ TagDoes(task.arg, ks, ls)
     \/ task.op = "build" /\ BuildDoes(task.arg, ks, ls)

\* The k-th task of a stack: to parse a statement can only be the first of
\* them, and where st is {"statement"}.
DoesAt(st, k, task, ks, ls) ==
  \/ Does(task, ks, ls)
  \/ /\ k = 1 /\ task.op = "parse" /\ task.arg \in st \cap {"statement"}
     /\ ks \in Seq(Kinds) /\ Rewrites(ks, <<>>, {"statement"}, ls)

\* h[k] are the kinds on the stack when the k-th task of s begins.
Follows(st, h, s) ==
  /\ DOMAIN h = 1..(Len(s) + 1)
  /\ \A k \in 1..Len(s) : DoesAt(st, k, s[k], h[k], h[k + 1])
  /\ h[Len(s) + 1] = <<"program">>

StatementAhead == nextToken.type \in FirstOf("statement")

\* The values are of the kinds ks, in whatever sets of trees are closed.
OfKinds(vs, ks) ==
  /\ IsSequence(vs) /\ ks \in Seq(Kinds) /\ Len(vs) = Len(ks)
  /\ \A t : Closed(t) => \A j \in 1..Len(ks) : vs[j] \in ValuesOf(t, ks[j])

Stands(st, h) ==
  /\ Follows(st, h, todo) /\ OfKinds(values, h[1])
  /\ "statement" \in st => StatementAhead

Balanced == \E st, h : Stands(st, h)

IInv ==
  /\ tokens \in Seq(Tokens) /\ IsSequence(todo)
  /\ TypeOK
  /\ outcome = "parsing" => Balanced
  /\ outcome = "parsed" => OfKinds(values, <<"program">>)

-----------------------------------------------------------------------------
(* Stacks of kinds. *)

LEMMA Pushed ==
  ASSUME NEW ks \in Seq(Kinds), NEW kind \in Kinds
  PROVE  /\ Append(ks, kind) \in Seq(Kinds) /\ Len(Append(ks, kind)) = Len(ks) + 1
         /\ Len(ks) \in Nat
         /\ \A j \in 1..Len(ks) : Append(ks, kind)[j] = ks[j]
         /\ Append(ks, kind)[Len(ks) + 1] = kind
         /\ \A S : kind \in S => Rewrites(ks, <<>>, S, Append(ks, kind))
         /\ TopIs(Append(ks, kind), kind)
PROOF
<1>1. PICK m : m = Append(ks, kind) OBVIOUS
<1>2. /\ m \in Seq(Kinds) /\ Len(m) = Len(ks) + 1 /\ Len(ks) \in Nat
      /\ \A j \in 1..Len(ks) : m[j] = ks[j]
      /\ m[Len(ks) + 1] = kind
  BY <1>1
<1>3. Len(<<>>) = 0 OBVIOUS
<1>4. \A S : kind \in S => Rewrites(ks, <<>>, S, m) BY <1>2, <1>3 DEF Rewrites
<1>5. TopIs(m, kind) BY <1>2 DEF TopIs
<1>. QED BY <1>1, <1>2, <1>4, <1>5

\* The tasks of a rule push the parts of a node, and building it pops them.
LEMMA PoppedLast ==
  ASSUME NEW ks \in Seq(Kinds), NEW S, NEW ls, NEW q \in Seq(Kinds), NEW b \in Kinds,
         Rewrites(ks, q, S, ls), NEW p, p = Append(q, b)
  PROVE  Rewrites(Append(ks, b), p, S, ls)
PROOF
<1>1. PICK m : m = Append(ks, b) OBVIOUS
<1>2. /\ m \in Seq(Kinds) /\ Len(m) = Len(ks) + 1 /\ Len(ks) \in Nat
      /\ (\A j \in 1..Len(ks) : m[j] = ks[j]) /\ m[Len(ks) + 1] = b
  BY <1>1, Pushed
<1>3. /\ p \in Seq(Kinds) /\ Len(p) = Len(q) + 1 /\ Len(q) \in Nat
      /\ (\A j \in 1..Len(q) : p[j] = q[j]) /\ p[Len(q) + 1] = b
  BY Pushed
<1>4. /\ ls \in Seq(Kinds) /\ Len(ls) = Len(ks) - Len(q) + 1 /\ ls[Len(ls)] \in S /\ Len(q) <= Len(ks)
      /\ \A j \in 1..(Len(ls) - 1) : ls[j] = ks[j]
      /\ \A j \in 1..Len(q) : ks[Len(ks) - Len(q) + j] = q[j]
  BY <1>2, <1>3 DEF Rewrites
<1>5. \A j \in 1..(Len(ls) - 1) : ls[j] = m[j] BY <1>2, <1>3, <1>4
<1>6. ASSUME NEW j \in 1..Len(p) PROVE m[Len(m) - Len(p) + j] = p[j]
  <2>1. CASE j = Len(p) BY <2>1, <1>2, <1>3, <1>4
  <2>2. CASE j < Len(p)
    <3>1. j \in 1..Len(q) /\ Len(m) - Len(p) + j = Len(ks) - Len(q) + j
          /\ Len(ks) - Len(q) + j \in 1..Len(ks)
      BY <2>2, <1>2, <1>3, <1>4
    <3>. QED BY <3>1, <1>2, <1>3, <1>4
  <2>. QED BY <2>1, <2>2, <1>3
<1>7. Rewrites(m, p, S, ls) BY <1>2, <1>3, <1>4, <1>5, <1>6 DEF Rewrites
<1>. QED BY <1>1, <1>7

LEMMA Tuples ==
  ASSUME NEW a, NEW b, NEW c, NEW d, NEW e
  PROVE  /\ <<a>> = Append(<<>>, a) /\ <<a, b>> = Append(<<a>>, b) /\ <<a, b, c>> = Append(<<a, b>>, c)
         /\ <<a, b, c, d>> = Append(<<a, b, c>>, d)
         /\ <<a, b, c, d, e>> = Append(<<a, b, c, d>>, e)
OBVIOUS

LEMMA PoppedTwo ==
  ASSUME NEW ks \in Seq(Kinds), NEW S, NEW ls, NEW a \in Kinds, NEW b \in Kinds,
         Rewrites(ks, <<a>>, S, ls)
  PROVE  Rewrites(Append(ks, b), <<a, b>>, S, ls)
PROOF
<1>1. <<a>> \in Seq(Kinds) OBVIOUS
<1>2. PICK p, q : p = <<a, b>> /\ q = <<a>> OBVIOUS
<1>3. p = Append(q, b) BY <1>2, Tuples
<1>4. Rewrites(Append(ks, b), p, S, ls) BY <1>1, <1>2, <1>3, PoppedLast
<1>. QED BY <1>2, <1>4

LEMMA Popped ==
  ASSUME NEW ks \in Seq(Kinds), NEW S, NEW ls, Rewrites(ks, <<>>, S, ls),
         NEW a \in Kinds, NEW b \in Kinds, NEW c \in Kinds, NEW d \in Kinds, NEW e \in Kinds
  PROVE  /\ Rewrites(Append(ks, a), <<a>>, S, ls)
         /\ Rewrites(Append(Append(ks, a), b), <<a, b>>, S, ls)
         /\ Rewrites(Append(Append(Append(ks, a), b), c), <<a, b, c>>, S, ls)
         /\ Rewrites(Append(Append(Append(Append(ks, a), b), c), d), <<a, b, c, d>>, S, ls)
         /\ Rewrites(Append(Append(Append(Append(Append(ks, a), b), c), d), e), <<a, b, c, d, e>>, S, ls)
PROOF
<1>1. PICK k1, k2, k3, k4, k5 :
        /\ k1 = Append(ks, a) /\ k2 = Append(k1, b) /\ k3 = Append(k2, c)
        /\ k4 = Append(k3, d) /\ k5 = Append(k4, e)
  OBVIOUS
<1>2. PICK p0, p1, p2, p3, p4, p5 :
        /\ p0 = <<>> /\ p1 = <<a>> /\ p2 = <<a, b>> /\ p3 = <<a, b, c>>
        /\ p4 = <<a, b, c, d>> /\ p5 = <<a, b, c, d, e>>
  OBVIOUS
<1>3. /\ p1 = Append(p0, a) /\ p2 = Append(p1, b) /\ p3 = Append(p2, c)
      /\ p4 = Append(p3, d) /\ p5 = Append(p4, e)
  <2>1. /\ <<a>> = Append(<<>>, a) /\ <<a, b>> = Append(<<a>>, b) /\ <<a, b, c>> = Append(<<a, b>>, c)
        /\ <<a, b, c, d>> = Append(<<a, b, c>>, d)
        /\ <<a, b, c, d, e>> = Append(<<a, b, c, d>>, e)
    BY ONLY Tuples
  <2>. QED BY ONLY <1>2, <2>1, Zenon
<1>4. p0 \in Seq(Kinds) BY <1>2
<1>5. p1 \in Seq(Kinds) /\ p2 \in Seq(Kinds) /\ p3 \in Seq(Kinds) /\ p4 \in Seq(Kinds)
  BY <1>3, <1>4
<1>6. k1 \in Seq(Kinds) /\ k2 \in Seq(Kinds) /\ k3 \in Seq(Kinds) /\ k4 \in Seq(Kinds)
  BY <1>1
<1>7. Rewrites(ks, p0, S, ls) BY <1>2
<1>8. Rewrites(k1, p1, S, ls) BY <1>1, <1>3, <1>4, <1>7, PoppedLast
<1>9. Rewrites(k2, p2, S, ls) BY <1>1, <1>3, <1>5, <1>6, <1>8, PoppedLast
<1>10. Rewrites(k3, p3, S, ls) BY <1>1, <1>3, <1>5, <1>6, <1>9, PoppedLast
<1>11. Rewrites(k4, p4, S, ls) BY <1>1, <1>3, <1>5, <1>6, <1>10, PoppedLast
<1>12. Rewrites(k5, p5, S, ls) BY <1>1, <1>3, <1>5, <1>6, <1>11, PoppedLast
<1>. QED BY <1>1, <1>2, <1>8, <1>9, <1>10, <1>11, <1>12

LEMMA SignatureParts == \A sig \in Signatures : sig.parts \in Seq(Kinds)
PROOF
<1>1. /\ "declarations" \in Kinds /\ "declaration" \in Kinds /\ "statements" \in Kinds
      /\ "statement" \in Kinds /\ "arguments" \in Kinds /\ "aexp" \in Kinds /\ "typedefs" \in Kinds
      /\ "typedef" \in Kinds /\ "fundefs" \in Kinds /\ "fundef" \in Kinds /\ "names" \in Kinds
      /\ "token" \in Kinds /\ "arest" \in Kinds /\ "rexp" \in Kinds /\ "rrest" \in Kinds
      /\ "path" \in Kinds /\ "rhs" \in Kinds /\ "block" \in Kinds
  BY DEF Kinds
<1>2. <<>> \in Seq(Kinds) OBVIOUS
<1>3. \A a \in Kinds : <<a>> \in Seq(Kinds) OBVIOUS
<1>4. \A a, b \in Kinds : <<a, b>> \in Seq(Kinds) OBVIOUS
<1>5. \A a, b, c \in Kinds : <<a, b, c>> \in Seq(Kinds) OBVIOUS
<1>6. \A a, b, c, d \in Kinds : <<a, b, c, d>> \in Seq(Kinds) OBVIOUS
<1>7. \A a, b, c, d, e \in Kinds : <<a, b, c, d, e>> \in Seq(Kinds) OBVIOUS
<1>. HIDE DEF Kinds
<1>8. \A n, p, k : p \in Seq(Kinds) => Sig(n, p, k).parts \in Seq(Kinds) BY DEF Sig
<1>. QED BY <1>1, <1>2, <1>3, <1>4, <1>5, <1>6, <1>7, <1>8 DEF Signatures

-----------------------------------------------------------------------------
(* What a step does to the stacks. *)

\* The tasks new turn the kinds ks into ls.
ExpandsFrom(st, new, ks, ls) ==
  /\ IsSequence(new)
  /\ \E g : /\ g[1] = ks /\ g[Len(new) + 1] = ls
            /\ \A k \in 1..Len(new) : DoesAt(st, k, new[k], g[k], g[k + 1])

Expands(new, ks, ls) ==
  /\ IsSequence(new)
  /\ \E g : /\ g[1] = ks /\ g[Len(new) + 1] = ls
            /\ \A k \in 1..Len(new) : Does(new[k], g[k], g[k + 1])

LEMMA ExpandsAnywhere ==
  ASSUME NEW new, NEW ks, NEW ls, Expands(new, ks, ls), NEW st
  PROVE  ExpandsFrom(st, new, ks, ls)
BY DEF Expands, ExpandsFrom, DoesAt

LEMMA ExpandsNone ==
  ASSUME NEW ks
  PROVE  Expands(<<>>, ks, ks)
PROOF
<1>1. IsSequence(<<>>) /\ Len(<<>>) = 0 /\ 1..0 = {} BY DEF IsSequence
<1>2. PICK g : g = <<ks>> OBVIOUS
<1>3. g[1] = ks BY <1>2
<1>4. PICK new : new = <<>> OBVIOUS
<1>5. \A k \in 1..Len(new) : Does(new[k], g[k], g[k + 1]) BY <1>1, <1>4
<1>6. Len(new) + 1 = 1 BY <1>1, <1>4
<1>7. Expands(new, ks, ks) BY <1>1, <1>3, <1>4, <1>5, <1>6 DEF Expands
<1>. QED BY <1>4, <1>7

LEMMA ExpandsOne ==
  ASSUME NEW ks, NEW ls, NEW a, Does(a, ks, ls)
  PROVE  Expands(<<a>>, ks, ls)
PROOF
<1>. DEFINE g == <<ks, ls>>
<1>1. IsSequence(<<a>>) /\ Len(<<a>>) = 1 BY DEF IsSequence, ToSet
<1>2. g[1] = ks /\ g[2] = ls OBVIOUS
<1>. HIDE DEF g
<1>3. \A k \in 1..1 : Does(<<a>>[k], g[k], g[k + 1]) BY <1>2
<1>. QED BY <1>1, <1>2, <1>3 DEF Expands

LEMMA ExpandsConcat ==
  ASSUME NEW a, NEW b, NEW ks, NEW ms, NEW ls, Expands(a, ks, ms), Expands(b, ms, ls)
  PROVE  Expands(a \o b, ks, ls)
PROOF
<1>1. IsSequence(a) /\ IsSequence(b) /\ Len(a) \in Nat /\ Len(b) \in Nat BY SequenceBasics DEF Expands
<1>2. PICK f : /\ f[1] = ks /\ f[Len(a) + 1] = ms
               /\ \A k \in 1..Len(a) : Does(a[k], f[k], f[k + 1])
  BY DEF Expands
<1>3. PICK g : /\ g[1] = ms /\ g[Len(b) + 1] = ls
               /\ \A k \in 1..Len(b) : Does(b[k], g[k], g[k + 1])
  BY DEF Expands
<1>4. PICK c : c = a \o b OBVIOUS
<1>5. /\ IsSequence(c) /\ Len(c) = Len(a) + Len(b)
      /\ \A i \in 1..Len(a) : c[i] = a[i]
      /\ \A i \in (Len(a) + 1)..(Len(a) + Len(b)) : c[i] = b[i - Len(a)]
  BY <1>1, <1>4, ConcatSequences
<1>. DEFINE h == [k \in 1..(Len(a) + Len(b) + 1) |-> IF k <= Len(a) THEN f[k] ELSE g[k - Len(a)]]
<1>6. h[1] = ks /\ h[Len(c) + 1] = ls
  <2>1. h[1] = ks
    <3>1. CASE Len(a) = 0 BY <3>1, <1>1, <1>2, <1>3
    <3>2. CASE Len(a) > 0 BY <3>2, <1>1, <1>2
    <3>. QED BY <3>1, <3>2, <1>1
  <2>2. h[Len(c) + 1] = g[Len(b) + 1] BY <1>1, <1>5
  <2>. QED BY <2>1, <2>2, <1>3
<1>7. ASSUME NEW k \in 1..Len(c) PROVE Does(c[k], h[k], h[k + 1])
  <2>1. CASE k < Len(a)
    <3>1. k \in 1..Len(a) /\ h[k] = f[k] /\ h[k + 1] = f[k + 1] BY <2>1, <1>1, <1>5
    <3>. QED BY <3>1, <1>2, <1>5
  <2>2. CASE k = Len(a)
    <3>1. k \in 1..Len(a) /\ h[k] = f[k] /\ h[k + 1] = g[1] BY <2>2, <1>1, <1>5
    <3>. QED BY <3>1, <2>2, <1>2, <1>3, <1>5
  <2>3. CASE k > Len(a)
    <3>1. PICK i : i = k - Len(a) OBVIOUS
    <3>2. i \in 1..Len(b) /\ h[k] = g[i] /\ h[k + 1] = g[i + 1] /\ k \in (Len(a) + 1)..(Len(a) + Len(b))
      BY <2>3, <3>1, <1>1, <1>5
    <3>. QED BY <3>1, <3>2, <1>3, <1>5
  <2>. QED BY <2>1, <2>2, <2>3, <1>1, <1>5
<1>. HIDE DEF h
<1>. QED BY <1>4, <1>5, <1>6, <1>7 DEF Expands

LEMMA ExpandsFromConcat ==
  ASSUME NEW st, NEW a, NEW b, NEW ks, NEW ms, NEW ls, ExpandsFrom(st, a, ks, ms), Expands(b, ms, ls),
         a # <<>>
  PROVE  ExpandsFrom(st, a \o b, ks, ls)
PROOF
<1>1. IsSequence(a) /\ IsSequence(b) /\ Len(a) \in Nat /\ Len(b) \in Nat BY SequenceBasics DEF Expands, ExpandsFrom
<1>2. PICK f : /\ f[1] = ks /\ f[Len(a) + 1] = ms
               /\ \A k \in 1..Len(a) : DoesAt(st, k, a[k], f[k], f[k + 1])
  BY DEF ExpandsFrom
<1>3. PICK g : /\ g[1] = ms /\ g[Len(b) + 1] = ls
               /\ \A k \in 1..Len(b) : Does(b[k], g[k], g[k + 1])
  BY DEF Expands
<1>4. PICK c : c = a \o b OBVIOUS
<1>5. /\ IsSequence(c) /\ Len(c) = Len(a) + Len(b)
      /\ \A i \in 1..Len(a) : c[i] = a[i]
      /\ \A i \in (Len(a) + 1)..(Len(a) + Len(b)) : c[i] = b[i - Len(a)]
  BY <1>1, <1>4, ConcatSequences
<1>. DEFINE h == [k \in 1..(Len(a) + Len(b) + 1) |-> IF k <= Len(a) THEN f[k] ELSE g[k - Len(a)]]
<1>6. h[1] = ks /\ h[Len(c) + 1] = ls
  <2>1. h[1] = ks
    <3>1. CASE Len(a) = 0 BY <3>1, <1>1, <1>2, <1>3
    <3>2. CASE Len(a) > 0 BY <3>2, <1>1, <1>2
    <3>. QED BY <3>1, <3>2, <1>1
  <2>2. h[Len(c) + 1] = g[Len(b) + 1] BY <1>1, <1>5
  <2>. QED BY <2>1, <2>2, <1>3
<1>7. ASSUME NEW k \in 1..Len(c) PROVE DoesAt(st, k, c[k], h[k], h[k + 1])
  <2>1. CASE k < Len(a)
    <3>1. k \in 1..Len(a) /\ h[k] = f[k] /\ h[k + 1] = f[k + 1] BY <2>1, <1>1, <1>5
    <3>. QED BY <3>1, <1>2, <1>5
  <2>2. CASE k = Len(a)
    <3>1. k \in 1..Len(a) /\ h[k] = f[k] /\ h[k + 1] = g[1] BY <2>2, <1>1, <1>5
    <3>. QED BY <3>1, <2>2, <1>2, <1>3, <1>5
  <2>3. CASE k > Len(a)
    <3>1. PICK i : i = k - Len(a) OBVIOUS
    <3>2. i \in 1..Len(b) /\ h[k] = g[i] /\ h[k + 1] = g[i + 1] /\ k \in (Len(a) + 1)..(Len(a) + Len(b))
      BY <2>3, <3>1, <1>1, <1>5
    <3>. QED BY <3>1, <3>2, <1>3, <1>5 DEF DoesAt
  <2>. QED BY <2>1, <2>2, <2>3, <1>1, <1>5
<1>. HIDE DEF h
<1>. QED BY <1>4, <1>5, <1>6, <1>7 DEF ExpandsFrom

\* Tuples of tasks, one after the other.
LEMMA ExpandsTwo ==
  ASSUME NEW k1, NEW k2, NEW k3, NEW a, NEW b, Does(a, k1, k2), Does(b, k2, k3)
  PROVE  Expands(<<a, b>>, k1, k3)
PROOF
<1>. DEFINE g == <<k1, k2, k3>>
            s == <<a, b>>
<1>1. IsSequence(s) /\ Len(s) = 2 /\ s[1] = a /\ s[2] = b BY DEF IsSequence, ToSet
<1>2. g[1] = k1 /\ g[2] = k2 /\ g[3] = k3 OBVIOUS
<1>. HIDE DEF g, s
<1>3. \A k \in 1..2 : Does(s[k], g[k], g[k + 1]) BY <1>1, <1>2
<1>. QED BY <1>1, <1>2, <1>3 DEF Expands, s

LEMMA ExpandsThree ==
  ASSUME NEW k1, NEW k2, NEW k3, NEW k4, NEW a, NEW b, NEW c,
         Does(a, k1, k2), Does(b, k2, k3), Does(c, k3, k4)
  PROVE  Expands(<<a, b, c>>, k1, k4)
PROOF
<1>. DEFINE g == <<k1, k2, k3, k4>>
            s == <<a, b, c>>
<1>1. IsSequence(s) /\ Len(s) = 3 /\ s[1] = a /\ s[2] = b /\ s[3] = c BY DEF IsSequence, ToSet
<1>2. g[1] = k1 /\ g[2] = k2 /\ g[3] = k3 /\ g[4] = k4 OBVIOUS
<1>. HIDE DEF g, s
<1>3. \A k \in 1..3 : Does(s[k], g[k], g[k + 1]) BY <1>1, <1>2
<1>. QED BY <1>1, <1>2, <1>3 DEF Expands, s

LEMMA ExpandsFour ==
  ASSUME NEW k1, NEW k2, NEW k3, NEW k4, NEW k5, NEW a, NEW b, NEW c, NEW d,
         Does(a, k1, k2), Does(b, k2, k3), Does(c, k3, k4), Does(d, k4, k5)
  PROVE  Expands(<<a, b, c, d>>, k1, k5)
PROOF
<1>. DEFINE g == <<k1, k2, k3, k4, k5>>
            s == <<a, b, c, d>>
<1>1. IsSequence(s) /\ Len(s) = 4 /\ s[1] = a /\ s[2] = b /\ s[3] = c /\ s[4] = d BY DEF IsSequence, ToSet
<1>2. g[1] = k1 /\ g[2] = k2 /\ g[3] = k3 /\ g[4] = k4 /\ g[5] = k5 OBVIOUS
<1>. HIDE DEF g, s
<1>3. \A k \in 1..4 : Does(s[k], g[k], g[k + 1]) BY <1>1, <1>2
<1>. QED BY <1>1, <1>2, <1>3 DEF Expands, s

LEMMA ExpandsFive ==
  ASSUME NEW k1, NEW k2, NEW k3, NEW k4, NEW k5, NEW k6, NEW a, NEW b, NEW c, NEW d, NEW e,
         Does(a, k1, k2), Does(b, k2, k3), Does(c, k3, k4), Does(d, k4, k5), Does(e, k5, k6)
  PROVE  Expands(<<a, b, c, d, e>>, k1, k6)
PROOF
<1>. DEFINE g == <<k1, k2, k3, k4, k5, k6>>
            s == <<a, b, c, d, e>>
<1>1. /\ IsSequence(s) /\ Len(s) = 5 /\ s[1] = a /\ s[2] = b /\ s[3] = c
      /\ s[4] = d /\ s[5] = e
  BY DEF IsSequence, ToSet
<1>2. g[1] = k1 /\ g[2] = k2 /\ g[3] = k3 /\ g[4] = k4 /\ g[5] = k5 /\ g[6] = k6 OBVIOUS
<1>. HIDE DEF g, s
<1>3. \A k \in 1..5 : Does(s[k], g[k], g[k + 1]) BY <1>1, <1>2
<1>. QED BY <1>1, <1>2, <1>3 DEF Expands, s

LEMMA ExpandsTen ==
  ASSUME NEW k1, NEW k2, NEW k3, NEW k4, NEW k5, NEW k6, NEW k7, NEW k8, NEW k9, NEW k10, NEW k11,
         NEW a, NEW b, NEW c, NEW d, NEW e, NEW f, NEW i, NEW j, NEW m, NEW n,
         Does(a, k1, k2), Does(b, k2, k3), Does(c, k3, k4), Does(d, k4, k5), Does(e, k5, k6),
         Does(f, k6, k7), Does(i, k7, k8), Does(j, k8, k9), Does(m, k9, k10), Does(n, k10, k11)
  PROVE  Expands(<<a, b, c, d, e, f, i, j, m, n>>, k1, k11)
PROOF
<1>. DEFINE g == <<k1, k2, k3, k4, k5, k6, k7, k8, k9, k10, k11>>
            s == <<a, b, c, d, e, f, i, j, m, n>>
<1>1. /\ IsSequence(s) /\ Len(s) = 10 /\ s[1] = a /\ s[2] = b /\ s[3] = c
      /\ s[4] = d /\ s[5] = e /\ s[6] = f /\ s[7] = i /\ s[8] = j /\ s[9] = m /\ s[10] = n
  BY DEF IsSequence, ToSet
<1>2. /\ g[1] = k1 /\ g[2] = k2 /\ g[3] = k3 /\ g[4] = k4 /\ g[5] = k5 /\ g[6] = k6
      /\ g[7] = k7 /\ g[8] = k8 /\ g[9] = k9 /\ g[10] = k10 /\ g[11] = k11
  OBVIOUS
<1>. HIDE DEF g, s
<1>3. \A k \in 1..10 : Does(s[k], g[k], g[k + 1]) BY <1>1, <1>2
<1>. QED BY <1>1, <1>2, <1>3 DEF Expands, s

\* The tasks s turn the kinds ks into one program.
Leads(st, ks, s) == \E h : Follows(st, h, s) /\ h[1] = ks

\* A task replaced by tasks that do what it does.
LEMMA StackFollows ==
  ASSUME NEW s, IsSequence(s), s # <<>>, NEW st, NEW h, Follows(st, h, s),
         NEW new, NEW ks, NEW su, ExpandsFrom(su, new, ks, h[2]), NEW r, r = new \o Tail(s)
  PROVE  IsSequence(r) /\ Leads(su, ks, r)
PROOF
<1>1. IsSequence(new) BY DEF ExpandsFrom
<1>2. r = new \o Tail(s) OBVIOUS
<1>3. /\ IsSequence(r) /\ Len(r) = Len(new) + Len(s) - 1
      /\ Len(new) \in Nat /\ Len(s) \in Nat \ {0}
      /\ \A i \in 1..Len(new) : r[i] = new[i]
      /\ \A i \in (Len(new) + 1)..(Len(new) + Len(s) - 1) : r[i] = s[i - Len(new) + 1]
  BY <1>1, <1>2, HeadReplaced
<1>4. PICK f : /\ f[1] = ks /\ f[Len(new) + 1] = h[2]
               /\ \A k \in 1..Len(new) : DoesAt(su, k, new[k], f[k], f[k + 1])
  BY DEF ExpandsFrom
<1>5. /\ \A k \in 1..Len(s) : DoesAt(st, k, s[k], h[k], h[k + 1])
      /\ h[Len(s) + 1] = <<"program">>
  BY DEF Follows
<1>. DEFINE g == [k \in 1..(Len(r) + 1) |-> IF k <= Len(new) THEN f[k] ELSE h[k - Len(new) + 1]]
<1>6. g[1] = ks
  <2>1. CASE Len(new) = 0 BY <2>1, <1>3, <1>4
  <2>2. CASE Len(new) > 0 BY <2>2, <1>3, <1>4
  <2>. QED BY <2>1, <2>2, <1>3
<1>7. g[Len(r) + 1] = <<"program">> BY <1>3, <1>5
<1>8. ASSUME NEW k \in 1..Len(r) PROVE DoesAt(su, k, r[k], g[k], g[k + 1])
  <2>1. CASE k < Len(new)
    <3>1. k \in 1..Len(new) /\ g[k] = f[k] /\ g[k + 1] = f[k + 1] BY <2>1, <1>3
    <3>. QED BY <3>1, <1>3, <1>4
  <2>2. CASE k = Len(new)
    <3>1. k \in 1..Len(new) /\ g[k] = f[k] /\ g[k + 1] = h[2] BY <2>2, <1>3
    <3>. QED BY <3>1, <2>2, <1>3, <1>4
  <2>3. CASE k > Len(new)
    <3>1. PICK i : i = k - Len(new) + 1 OBVIOUS
    <3>2. i \in 1..Len(s) /\ g[k] = h[i] /\ g[k + 1] = h[i + 1]
          /\ k \in (Len(new) + 1)..(Len(new) + Len(s) - 1)
      BY <2>3, <3>1, <1>3
    <3>3. i # 1 BY <2>3, <3>1, <1>3
    <3>. QED BY <3>1, <3>2, <3>3, <1>3, <1>5 DEF DoesAt
  <2>. QED BY <2>1, <2>2, <2>3, <1>3
<1>9. DOMAIN g = 1..(Len(r) + 1) OBVIOUS
<1>. HIDE DEF g
<1>10. Follows(su, g, r) BY <1>7, <1>8, <1>9 DEF Follows
<1>. QED BY <1>2, <1>3, <1>6, <1>10 DEF Leads

-----------------------------------------------------------------------------
(* Values. *)

\* A value that serves as another kind is of that kind.
LEMMA Serves ==
  ASSUME NEW t, Closed(t), NEW kind \in Kinds, NEW other \in ServesAs(kind), NEW v \in ValuesOf(t, kind)
  PROVE  v \in ValuesOf(t, other)
PROOF
<1>1. CASE other = kind BY <1>1
<1>2. CASE kind = "path" /\ other = "aexp"
  BY <1>2 DEF ValuesOf, Closed, ArithmeticExprs
<1>3. CASE kind = "path" /\ other = "rhs"
  BY <1>3 DEF ValuesOf, Closed, ArithmeticExprs
<1>4. CASE kind = "aexp" /\ other = "rhs"
  BY <1>4 DEF ValuesOf
<1>. QED BY <1>1, <1>2, <1>3, <1>4 DEF ServesAs

\* The values on top replaced by one of the right kind.
LEMMA ValuesRewritten ==
  ASSUME NEW vs, NEW ks, OfKinds(vs, ks), NEW parts \in Seq(Kinds), NEW kind \in Kinds, NEW ls,
         Rewrites(ks, parts, ServesAs(kind), ls), NEW v,
         \A t : Closed(t) => v \in ValuesOf(t, kind)
  PROVE  OfKinds(Append(SubSeq(vs, 1, Len(vs) - Len(parts)), v), ls)
PROOF
<1>1. /\ IsSequence(vs) /\ ks \in Seq(Kinds) /\ Len(vs) = Len(ks) /\ Len(ks) \in Nat
      /\ Len(parts) \in Nat /\ Len(parts) <= Len(ks)
      /\ ls \in Seq(Kinds) /\ Len(ls) = Len(ks) - Len(parts) + 1 /\ ls[Len(ls)] \in ServesAs(kind)
      /\ \A j \in 1..(Len(ls) - 1) : ls[j] = ks[j]
  BY DEF OfKinds, Rewrites
<1>2. PICK n : n = Len(vs) - Len(parts) OBVIOUS
<1>3. n \in 0..Len(vs) /\ 1 \in 1..(Len(vs) + 1) /\ 1 <= n + 1 /\ n - 1 + 1 = n BY <1>1, <1>2
<1>4. PICK sub : sub = SubSeq(vs, 1, n) OBVIOUS
<1>5. IsSequence(sub) /\ Len(sub) = n /\ \A i \in 1..n : sub[i] = vs[i]
  BY <1>1, <1>3, <1>4, SubSequence
<1>6. PICK w : w = Append(sub, v) OBVIOUS
<1>7. IsSequence(w) /\ Len(w) = n + 1 /\ (\A i \in 1..n : w[i] = vs[i]) /\ w[n + 1] = v
  BY <1>5, <1>6, AppendSequence
<1>8. ASSUME NEW t, Closed(t), NEW j \in 1..Len(ls) PROVE w[j] \in ValuesOf(t, ls[j])
  <2>1. CASE j <= n
    <3>1. j \in 1..n /\ j \in 1..Len(ks) /\ j \in 1..(Len(ls) - 1) BY <2>1, <1>1, <1>2
    <3>2. vs[j] \in ValuesOf(t, ks[j]) BY <3>1, <1>8 DEF OfKinds
    <3>. QED BY <3>1, <3>2, <1>1, <1>7
  <2>2. CASE j = n + 1
    <3>1. ls[j] \in ServesAs(kind) BY <2>2, <1>1, <1>2
    <3>2. v \in ValuesOf(t, kind) BY <1>8
    <3>3. v \in ValuesOf(t, ls[j]) BY <3>1, <3>2, <1>8, Serves
    <3>. QED BY <3>3, <2>2, <1>7
  <2>. QED BY <2>1, <2>2, <1>1, <1>2, <1>3
<1>9. Len(w) = Len(ls) BY <1>1, <1>2, <1>7
<1>10. OfKinds(w, ls) BY <1>1, <1>7, <1>8, <1>9 DEF OfKinds
<1>. QED BY <1>2, <1>4, <1>6, <1>10

LEMMA ValuePushed ==
  ASSUME NEW vs, NEW ks, OfKinds(vs, ks), NEW kind \in Kinds, NEW ls,
         Rewrites(ks, <<>>, ServesAs(kind), ls), NEW v,
         \A t : Closed(t) => v \in ValuesOf(t, kind)
  PROVE  OfKinds(Append(vs, v), ls)
PROOF
<1>1. IsSequence(vs) /\ Len(vs) \in Nat BY SequenceBasics DEF OfKinds
<1>2. <<>> \in Seq(Kinds) /\ Len(<<>>) = 0 OBVIOUS
<1>3. PICK none : none = <<>> OBVIOUS
<1>4. OfKinds(Append(SubSeq(vs, 1, Len(vs) - Len(none)), v), ls) BY <1>2, <1>3, ValuesRewritten
<1>5. Len(vs) - Len(none) = Len(vs) BY <1>1, <1>2, <1>3
<1>6. SubSeq(vs, 1, Len(vs)) = vs BY <1>1 DEF IsSequence
<1>. QED BY <1>4, <1>5, <1>6

\* The node built is of the kind its signature says.
LEMMA SignatureOf ==
  ASSUME NEW node, NEW parts, NEW kind
  PROVE  /\ Sig(node, parts, kind).node = node /\ Sig(node, parts, kind).parts = parts
         /\ Sig(node, parts, kind).kind = kind
BY DEF Sig

LEMMA SequenceFacts ==
  \A S : <<>> \in Seq(S) /\ \A s \in Seq(S), e \in S : Append(s, e) \in Seq(S)
OBVIOUS

LEMMA SignatureArity == \A sig \in Signatures : Arity(sig.node) = Len(sig.parts) /\ sig.kind \in Kinds
PROOF
<1>1. \A node, kind : kind \in Kinds /\ Arity(node) = 0 =>
        LET s == Sig(node, <<>>, kind) IN Arity(s.node) = Len(s.parts) /\ s.kind \in Kinds
  BY DEF Sig
<1>2. \A node, a, kind : kind \in Kinds /\ Arity(node) = 1 =>
        LET s == Sig(node, <<a>>, kind) IN Arity(s.node) = Len(s.parts) /\ s.kind \in Kinds
  BY DEF Sig
<1>3. \A node, a, b, kind : kind \in Kinds /\ Arity(node) = 2 =>
        LET s == Sig(node, <<a, b>>, kind) IN Arity(s.node) = Len(s.parts) /\ s.kind \in Kinds
  BY DEF Sig
<1>4. \A node, a, b, c, kind : kind \in Kinds /\ Arity(node) = 3 =>
        LET s == Sig(node, <<a, b, c>>, kind) IN Arity(s.node) = Len(s.parts) /\ s.kind \in Kinds
  BY DEF Sig
<1>5. \A node, a, b, c, d, kind : kind \in Kinds /\ Arity(node) = 4 =>
        LET s == Sig(node, <<a, b, c, d>>, kind) IN Arity(s.node) = Len(s.parts) /\ s.kind \in Kinds
  BY DEF Sig
<1>6. \A node, a, b, c, d, f, kind : kind \in Kinds /\ Arity(node) = 5 =>
        LET s == Sig(node, <<a, b, c, d, f>>, kind) IN Arity(s.node) = Len(s.parts) /\ s.kind \in Kinds
  BY DEF Sig
<1>7. /\ \A node \in {"nil", "noelse"} : Arity(node) = 0
      /\ \A node \in {"int", "new", "not"} : Arity(node) = 1
      /\ Arity("if") = 3 /\ Arity("program") = 4 /\ Arity("fundef") = 5
      /\ \A node \in {"append", "name", "join", "and", "or", "path", "lt", "le", "eq", "call", "assign", "while",
                      "block", "declaration", "typedef"} : Arity(node) = 2
  BY DEF Arity
<1>8. /\ "declarations" \in Kinds /\ "declaration" \in Kinds /\ "statements" \in Kinds
      /\ "statement" \in Kinds /\ "arguments" \in Kinds /\ "aexp" \in Kinds /\ "typedefs" \in Kinds
      /\ "typedef" \in Kinds /\ "fundefs" \in Kinds /\ "fundef" \in Kinds /\ "names" \in Kinds
      /\ "rexp" \in Kinds /\ "path" \in Kinds /\ "rhs" \in Kinds /\ "block" \in Kinds /\ "program" \in Kinds
  BY DEF Kinds
<1>. QED BY <1>1, <1>2, <1>3, <1>4, <1>5, <1>6, <1>7, <1>8 DEF Signatures

LEMMA NodeBuilt ==
  ASSUME NEW t, Closed(t), NEW sig \in Signatures, NEW v,
         \A j \in 1..Len(sig.parts) : v[j] \in ValuesOf(t, sig.parts[j])
  PROVE  Node(sig.node, v) \in ValuesOf(t, sig.kind)
PROOF
<1>0. \A S : <<>> \in Seq(S) /\ \A s \in Seq(S), e \in S : Append(s, e) \in Seq(S)
  BY SequenceFacts
<1>1. CASE sig = Sig("append", <<"declarations", "declaration">>, "declarations")
  <2>1. sig.node = "append" /\ sig.kind = "declarations" /\ sig.parts = <<"declarations", "declaration">>
    BY <1>1, SignatureOf
  <2>2. v[1] \in ValuesOf(t, "declarations") /\ v[2] \in ValuesOf(t, "declaration")
    BY <2>1
  <2>3. Node(sig.node, v) = Append(v[1], v[2])
    BY <2>1 DEF Node, RelationalOps, LogicalOps
  <2>4. Append(v[1], v[2]) \in ValuesOf(t, "declarations")
    BY <2>2, <1>0 DEF ValuesOf
  <2>. QED BY <2>1, <2>3, <2>4
<1>2. CASE sig = Sig("append", <<"statements", "statement">>, "statements")
  <2>1. sig.node = "append" /\ sig.kind = "statements" /\ sig.parts = <<"statements", "statement">>
    BY <1>2, SignatureOf
  <2>2. v[1] \in ValuesOf(t, "statements") /\ v[2] \in ValuesOf(t, "statement")
    BY <2>1
  <2>3. Node(sig.node, v) = Append(v[1], v[2])
    BY <2>1 DEF Node, RelationalOps, LogicalOps
  <2>4. Append(v[1], v[2]) \in ValuesOf(t, "statements")
    BY <2>2, <1>0 DEF ValuesOf
  <2>. QED BY <2>1, <2>3, <2>4
<1>3. CASE sig = Sig("append", <<"arguments", "aexp">>, "arguments")
  <2>1. sig.node = "append" /\ sig.kind = "arguments" /\ sig.parts = <<"arguments", "aexp">>
    BY <1>3, SignatureOf
  <2>2. v[1] \in ValuesOf(t, "arguments") /\ v[2] \in ValuesOf(t, "aexp")
    BY <2>1
  <2>3. Node(sig.node, v) = Append(v[1], v[2])
    BY <2>1 DEF Node, RelationalOps, LogicalOps
  <2>4. Append(v[1], v[2]) \in ValuesOf(t, "arguments")
    BY <2>2, <1>0 DEF ValuesOf
  <2>. QED BY <2>1, <2>3, <2>4
<1>4. CASE sig = Sig("append", <<"typedefs", "typedef">>, "typedefs")
  <2>1. sig.node = "append" /\ sig.kind = "typedefs" /\ sig.parts = <<"typedefs", "typedef">>
    BY <1>4, SignatureOf
  <2>2. v[1] \in ValuesOf(t, "typedefs") /\ v[2] \in ValuesOf(t, "typedef")
    BY <2>1
  <2>3. Node(sig.node, v) = Append(v[1], v[2])
    BY <2>1 DEF Node, RelationalOps, LogicalOps
  <2>4. Append(v[1], v[2]) \in ValuesOf(t, "typedefs")
    BY <2>2, <1>0 DEF ValuesOf
  <2>. QED BY <2>1, <2>3, <2>4
<1>5. CASE sig = Sig("append", <<"fundefs", "fundef">>, "fundefs")
  <2>1. sig.node = "append" /\ sig.kind = "fundefs" /\ sig.parts = <<"fundefs", "fundef">>
    BY <1>5, SignatureOf
  <2>2. v[1] \in ValuesOf(t, "fundefs") /\ v[2] \in ValuesOf(t, "fundef")
    BY <2>1
  <2>3. Node(sig.node, v) = Append(v[1], v[2])
    BY <2>1 DEF Node, RelationalOps, LogicalOps
  <2>4. Append(v[1], v[2]) \in ValuesOf(t, "fundefs")
    BY <2>2, <1>0 DEF ValuesOf
  <2>. QED BY <2>1, <2>3, <2>4
<1>6. CASE sig = Sig("name", <<"names", "token">>, "names")
  <2>1. sig.node = "name" /\ sig.kind = "names" /\ sig.parts = <<"names", "token">>
    BY <1>6, SignatureOf
  <2>2. v[1] \in ValuesOf(t, "names") /\ v[2] \in ValuesOf(t, "token")
    BY <2>1
  <2>3. Node(sig.node, v) = Append(v[1], v[2].s)
    BY <2>1 DEF Node, RelationalOps, LogicalOps
  <2>4. Append(v[1], v[2].s) \in ValuesOf(t, "names")
    BY <2>2, <1>0 DEF ValuesOf, Tokens
  <2>. QED BY <2>1, <2>3, <2>4
<1>7. CASE sig = Sig("join", <<"aexp", "arest">>, "aexp")
  <2>1. sig.node = "join" /\ sig.kind = "aexp" /\ sig.parts = <<"aexp", "arest">>
    BY <1>7, SignatureOf
  <2>2. v[1] \in ValuesOf(t, "aexp") /\ v[2] \in ValuesOf(t, "arest")
    BY <2>1
  <2>3. Node(sig.node, v) = Join(v[1], v[2])
    BY <2>1 DEF Node, RelationalOps, LogicalOps
  <2>4. Join(v[1], v[2]) \in ValuesOf(t, "aexp")
    BY <2>2 DEF ValuesOf, Join, RestOf, NoRest, Binary, Closed, ArithmeticExprs, RelationalExprs, ArithmeticOps
  <2>. QED BY <2>1, <2>3, <2>4
<1>8. CASE sig = Sig("join", <<"rexp", "rrest">>, "rexp")
  <2>1. sig.node = "join" /\ sig.kind = "rexp" /\ sig.parts = <<"rexp", "rrest">>
    BY <1>8, SignatureOf
  <2>2. v[1] \in ValuesOf(t, "rexp") /\ v[2] \in ValuesOf(t, "rrest")
    BY <2>1
  <2>3. Node(sig.node, v) = Join(v[1], v[2])
    BY <2>1 DEF Node, RelationalOps, LogicalOps
  <2>4. Join(v[1], v[2]) \in ValuesOf(t, "rexp")
    BY <2>2 DEF ValuesOf, Join, RestOf, NoRest, Binary, Closed, ArithmeticExprs, RelationalExprs, LogicalOps
  <2>. QED BY <2>1, <2>3, <2>4
<1>9. CASE sig = Sig("int", <<"token">>, "aexp")
  <2>1. sig.node = "int" /\ sig.kind = "aexp" /\ sig.parts = <<"token">>
    BY <1>9, SignatureOf
  <2>2. v[1] \in ValuesOf(t, "token")
    BY <2>1
  <2>3. Node(sig.node, v) = Int32(v[1].n)
    BY <2>1 DEF Node, RelationalOps, LogicalOps
  <2>4. Int32(v[1].n) \in ValuesOf(t, "aexp")
    BY <2>2 DEF ValuesOf, Tokens, Int32, Closed, ArithmeticExprs
  <2>. QED BY <2>1, <2>3, <2>4
<1>10. CASE sig = Sig("nil", <<>>, "aexp")
  <2>1. sig.node = "nil" /\ sig.kind = "aexp" /\ sig.parts = <<>>
    BY <1>10, SignatureOf
  <2>3. Node(sig.node, v) = Nil
    BY <2>1 DEF Node, RelationalOps, LogicalOps
  <2>4. Nil \in ValuesOf(t, "aexp")
    BY <1>0 DEF ValuesOf, Closed, ArithmeticExprs
  <2>. QED BY <2>1, <2>3, <2>4
<1>11. CASE sig = Sig("new", <<"token">>, "aexp")
  <2>1. sig.node = "new" /\ sig.kind = "aexp" /\ sig.parts = <<"token">>
    BY <1>11, SignatureOf
  <2>2. v[1] \in ValuesOf(t, "token")
    BY <2>1
  <2>3. Node(sig.node, v) = New(v[1].s)
    BY <2>1 DEF Node, RelationalOps, LogicalOps
  <2>4. New(v[1].s) \in ValuesOf(t, "aexp")
    BY <2>2 DEF ValuesOf, Tokens, New, Closed, ArithmeticExprs
  <2>. QED BY <2>1, <2>3, <2>4
<1>12. CASE sig = Sig("path", <<"token", "names">>, "path")
  <2>1. sig.node = "path" /\ sig.kind = "path" /\ sig.parts = <<"token", "names">>
    BY <1>12, SignatureOf
  <2>2. v[1] \in ValuesOf(t, "token") /\ v[2] \in ValuesOf(t, "names")
    BY <2>1
  <2>3. Node(sig.node, v) = Path(v[1].s, v[2])
    BY <2>1 DEF Node, RelationalOps, LogicalOps
  <2>4. Path(v[1].s, v[2]) \in ValuesOf(t, "path")
    BY <2>2 DEF ValuesOf, Tokens, Path, Paths
  <2>. QED BY <2>1, <2>3, <2>4
<1>13. CASE sig = Sig("lt", <<"aexp", "aexp">>, "rexp")
  <2>1. sig.node = "lt" /\ sig.kind = "rexp" /\ sig.parts = <<"aexp", "aexp">>
    BY <1>13, SignatureOf
  <2>2. v[1] \in ValuesOf(t, "aexp") /\ v[2] \in ValuesOf(t, "aexp")
    BY <2>1
  <2>3. Node(sig.node, v) = Binary("lt", v[1], v[2])
    BY <2>1 DEF Node, RelationalOps, LogicalOps
  <2>4. Binary("lt", v[1], v[2]) \in ValuesOf(t, "rexp")
    BY <2>2 DEF ValuesOf, Binary, RelationalOps, Closed, RelationalExprs
  <2>. QED BY <2>1, <2>3, <2>4
<1>14. CASE sig = Sig("le", <<"aexp", "aexp">>, "rexp")
  <2>1. sig.node = "le" /\ sig.kind = "rexp" /\ sig.parts = <<"aexp", "aexp">>
    BY <1>14, SignatureOf
  <2>2. v[1] \in ValuesOf(t, "aexp") /\ v[2] \in ValuesOf(t, "aexp")
    BY <2>1
  <2>3. Node(sig.node, v) = Binary("le", v[1], v[2])
    BY <2>1 DEF Node, RelationalOps, LogicalOps
  <2>4. Binary("le", v[1], v[2]) \in ValuesOf(t, "rexp")
    BY <2>2 DEF ValuesOf, Binary, RelationalOps, Closed, RelationalExprs
  <2>. QED BY <2>1, <2>3, <2>4
<1>15. CASE sig = Sig("eq", <<"aexp", "aexp">>, "rexp")
  <2>1. sig.node = "eq" /\ sig.kind = "rexp" /\ sig.parts = <<"aexp", "aexp">>
    BY <1>15, SignatureOf
  <2>2. v[1] \in ValuesOf(t, "aexp") /\ v[2] \in ValuesOf(t, "aexp")
    BY <2>1
  <2>3. Node(sig.node, v) = Binary("eq", v[1], v[2])
    BY <2>1 DEF Node, RelationalOps, LogicalOps
  <2>4. Binary("eq", v[1], v[2]) \in ValuesOf(t, "rexp")
    BY <2>2 DEF ValuesOf, Binary, RelationalOps, Closed, RelationalExprs
  <2>. QED BY <2>1, <2>3, <2>4
<1>16. CASE sig = Sig("not", <<"rexp">>, "rexp")
  <2>1. sig.node = "not" /\ sig.kind = "rexp" /\ sig.parts = <<"rexp">>
    BY <1>16, SignatureOf
  <2>2. v[1] \in ValuesOf(t, "rexp")
    BY <2>1
  <2>3. Node(sig.node, v) = Not(v[1])
    BY <2>1 DEF Node, RelationalOps, LogicalOps
  <2>4. Not(v[1]) \in ValuesOf(t, "rexp")
    BY <2>2 DEF ValuesOf, Not, Closed, RelationalExprs
  <2>. QED BY <2>1, <2>3, <2>4
<1>17. CASE sig = Sig("call", <<"token", "arguments">>, "rhs")
  <2>1. sig.node = "call" /\ sig.kind = "rhs" /\ sig.parts = <<"token", "arguments">>
    BY <1>17, SignatureOf
  <2>2. v[1] \in ValuesOf(t, "token") /\ v[2] \in ValuesOf(t, "arguments")
    BY <2>1
  <2>3. Node(sig.node, v) = Call(v[1].s, v[2])
    BY <2>1 DEF Node, RelationalOps, LogicalOps
  <2>4. Call(v[1].s, v[2]) \in ValuesOf(t, "rhs")
    BY <2>2 DEF ValuesOf, Tokens, Call, FunctionCalls
  <2>. QED BY <2>1, <2>3, <2>4
<1>18. CASE sig = Sig("assign", <<"path", "rhs">>, "statement")
  <2>1. sig.node = "assign" /\ sig.kind = "statement" /\ sig.parts = <<"path", "rhs">>
    BY <1>18, SignatureOf
  <2>2. v[1] \in ValuesOf(t, "path") /\ v[2] \in ValuesOf(t, "rhs")
    BY <2>1
  <2>3. Node(sig.node, v) = Assign(v[1], v[2])
    BY <2>1 DEF Node, RelationalOps, LogicalOps
  <2>4. Assign(v[1], v[2]) \in ValuesOf(t, "statement")
    BY <2>2 DEF ValuesOf, Assign, Closed, Statements
  <2>. QED BY <2>1, <2>3, <2>4
<1>19. CASE sig = Sig("while", <<"rexp", "block">>, "statement")
  <2>1. sig.node = "while" /\ sig.kind = "statement" /\ sig.parts = <<"rexp", "block">>
    BY <1>19, SignatureOf
  <2>2. v[1] \in ValuesOf(t, "rexp") /\ v[2] \in ValuesOf(t, "block")
    BY <2>1
  <2>3. Node(sig.node, v) = While(v[1], v[2])
    BY <2>1 DEF Node, RelationalOps, LogicalOps
  <2>4. While(v[1], v[2]) \in ValuesOf(t, "statement")
    BY <2>2 DEF ValuesOf, While, Closed, Statements
  <2>. QED BY <2>1, <2>3, <2>4
<1>20. CASE sig = Sig("if", <<"rexp", "block", "block">>, "statement")
  <2>1. sig.node = "if" /\ sig.kind = "statement" /\ sig.parts = <<"rexp", "block", "block">>
    BY <1>20, SignatureOf
  <2>2. v[1] \in ValuesOf(t, "rexp") /\ v[2] \in ValuesOf(t, "block") /\ v[3] \in ValuesOf(t, "block")
    BY <2>1
  <2>3. Node(sig.node, v) = If(v[1], v[2], v[3])
    BY <2>1 DEF Node, RelationalOps, LogicalOps
  <2>4. If(v[1], v[2], v[3]) \in ValuesOf(t, "statement")
    BY <2>2 DEF ValuesOf, If, Closed, Statements
  <2>. QED BY <2>1, <2>3, <2>4
<1>21. CASE sig = Sig("noelse", <<>>, "block")
  <2>1. sig.node = "noelse" /\ sig.kind = "block" /\ sig.parts = <<>>
    BY <1>21, SignatureOf
  <2>3. Node(sig.node, v) = Block(<<>>, <<>>)
    BY <2>1 DEF Node, RelationalOps, LogicalOps
  <2>4. Block(<<>>, <<>>) \in ValuesOf(t, "block")
    BY <1>0 DEF ValuesOf, Block, Closed, BlockStmts
  <2>. QED BY <2>1, <2>3, <2>4
<1>22. CASE sig = Sig("block", <<"declarations", "statements">>, "block")
  <2>1. sig.node = "block" /\ sig.kind = "block" /\ sig.parts = <<"declarations", "statements">>
    BY <1>22, SignatureOf
  <2>2. v[1] \in ValuesOf(t, "declarations") /\ v[2] \in ValuesOf(t, "statements")
    BY <2>1
  <2>3. Node(sig.node, v) = Block(v[1], v[2])
    BY <2>1 DEF Node, RelationalOps, LogicalOps
  <2>4. Block(v[1], v[2]) \in ValuesOf(t, "block")
    BY <2>2 DEF ValuesOf, Block, Closed, BlockStmts
  <2>. QED BY <2>1, <2>3, <2>4
<1>23. CASE sig = Sig("declaration", <<"token", "token">>, "declaration")
  <2>1. sig.node = "declaration" /\ sig.kind = "declaration" /\ sig.parts = <<"token", "token">>
    BY <1>23, SignatureOf
  <2>2. v[1] \in ValuesOf(t, "token") /\ v[2] \in ValuesOf(t, "token")
    BY <2>1
  <2>3. Node(sig.node, v) = Declaration(v[1].s, v[2].s)
    BY <2>1 DEF Node, RelationalOps, LogicalOps
  <2>4. Declaration(v[1].s, v[2].s) \in ValuesOf(t, "declaration")
    BY <2>2 DEF ValuesOf, Tokens, Declaration, Declarations
  <2>. QED BY <2>1, <2>3, <2>4
<1>24. CASE sig = Sig("typedef", <<"token", "declarations">>, "typedef")
  <2>1. sig.node = "typedef" /\ sig.kind = "typedef" /\ sig.parts = <<"token", "declarations">>
    BY <1>24, SignatureOf
  <2>2. v[1] \in ValuesOf(t, "token") /\ v[2] \in ValuesOf(t, "declarations")
    BY <2>1
  <2>3. Node(sig.node, v) = TypeDef(v[1].s, v[2])
    BY <2>1 DEF Node, RelationalOps, LogicalOps
  <2>4. TypeDef(v[1].s, v[2]) \in ValuesOf(t, "typedef")
    BY <2>2 DEF ValuesOf, Tokens, TypeDef, TypeDefs
  <2>. QED BY <2>1, <2>3, <2>4
<1>25. CASE sig = Sig("fundef", <<"token", "declarations", "token", "block", "aexp">>, "fundef")
  <2>1. sig.node = "fundef" /\ sig.kind = "fundef" /\ sig.parts = <<"token", "declarations", "token", "block", "aexp">>
    BY <1>25, SignatureOf
  <2>2. v[1] \in ValuesOf(t, "token") /\ v[2] \in ValuesOf(t, "declarations") /\ v[3] \in ValuesOf(t, "token") /\ v[4] \in ValuesOf(t, "block") /\ v[5] \in ValuesOf(t, "aexp")
    BY <2>1
  <2>3. Node(sig.node, v) = FunctionDef(v[1].s, v[3].s, v[2], v[4], v[5])
    BY <2>1 DEF Node, RelationalOps, LogicalOps
  <2>4. FunctionDef(v[1].s, v[3].s, v[2], v[4], v[5]) \in ValuesOf(t, "fundef")
    BY <2>2 DEF ValuesOf, Tokens, FunctionDef, FunctionDefs
  <2>. QED BY <2>1, <2>3, <2>4
<1>26. CASE sig = Sig("program", <<"typedefs", "fundefs", "block", "aexp">>, "program")
  <2>1. sig.node = "program" /\ sig.kind = "program" /\ sig.parts = <<"typedefs", "fundefs", "block", "aexp">>
    BY <1>26, SignatureOf
  <2>2. v[1] \in ValuesOf(t, "typedefs") /\ v[2] \in ValuesOf(t, "fundefs") /\ v[3] \in ValuesOf(t, "block") /\ v[4] \in ValuesOf(t, "aexp")
    BY <2>1
  <2>3. Node(sig.node, v) = Program(v[1], v[2], v[3], v[4])
    BY <2>1 DEF Node, RelationalOps, LogicalOps
  <2>4. Program(v[1], v[2], v[3], v[4]) \in ValuesOf(t, "program")
    BY <2>2 DEF ValuesOf, Program, ProgramTrees
  <2>. QED BY <2>1, <2>3, <2>4
<1>27. CASE sig = Sig("and", <<"rexp", "rrest">>, "rexp")
  <2>1. sig.node = "and" /\ sig.kind = "rexp" /\ sig.parts = <<"rexp", "rrest">>
    BY <1>27, SignatureOf
  <2>2. v[1] \in ValuesOf(t, "rexp") /\ v[2] \in ValuesOf(t, "rrest")
    BY <2>1
  <2>3. Node(sig.node, v) = JoinBy("and", v[1], v[2])
    BY <2>1 DEF Node, RelationalOps, LogicalOps
  <2>4. JoinBy("and", v[1], v[2]) \in ValuesOf(t, "rexp")
    BY <2>2 DEF ValuesOf, JoinBy, RestOf, NoRest, Binary, Closed, ArithmeticExprs, RelationalExprs, LogicalOps
  <2>. QED BY <2>1, <2>3, <2>4
<1>28. CASE sig = Sig("or", <<"rexp", "rrest">>, "rexp")
  <2>1. sig.node = "or" /\ sig.kind = "rexp" /\ sig.parts = <<"rexp", "rrest">>
    BY <1>28, SignatureOf
  <2>2. v[1] \in ValuesOf(t, "rexp") /\ v[2] \in ValuesOf(t, "rrest")
    BY <2>1
  <2>3. Node(sig.node, v) = JoinBy("or", v[1], v[2])
    BY <2>1 DEF Node, RelationalOps, LogicalOps
  <2>4. JoinBy("or", v[1], v[2]) \in ValuesOf(t, "rexp")
    BY <2>2 DEF ValuesOf, JoinBy, RestOf, NoRest, Binary, Closed, ArithmeticExprs, RelationalExprs, LogicalOps
  <2>. QED BY <2>1, <2>3, <2>4
<1>. QED
  BY <1>1, <1>2, <1>3, <1>4, <1>5, <1>6, <1>7, <1>8, <1>9, <1>10, <1>11, <1>12, <1>13,
     <1>14, <1>15, <1>16, <1>17, <1>18, <1>19, <1>20, <1>21, <1>22, <1>23, <1>24, <1>25, <1>26,
     <1>27, <1>28
  DEF Signatures

-----------------------------------------------------------------------------
(* Tasks do what they are for. *)

LEMMA DoesParse ==
  ASSUME NEW ks \in Seq(Kinds), NEW rule \in ReturningRules, NEW ls,
         Rewrites(ks, <<>>, ServesAs(Returned(rule)), ls)
  PROVE  Does(P(rule), ks, ls)
BY DEF Does, P, ParseDoes

LEMMA DoesMatch ==
  ASSUME NEW ks \in Seq(Kinds), NEW type \in TokenTypes
  PROVE  Does(M(type), ks, ks)
BY DEF Does, M

LEMMA DoesTake ==
  ASSUME NEW ks \in Seq(Kinds), NEW type \in TokenTypes
  PROVE  Does(Take(type), ks, Append(ks, "token"))
PROOF
<1>1. "token" \in Kinds BY DEF Kinds
<1>2. Rewrites(ks, <<>>, {"token"}, Append(ks, "token")) BY <1>1, Pushed
<1>. QED BY <1>2 DEF Does, Take

LEMMA ListKindIn ==
  ASSUME NEW rule \in ListRules
  PROVE  ListKind(rule) \in ListKinds /\ ListKind(rule) \in Kinds
BY DEF ListRules, ListKind, ListKinds, Kinds

LEMMA DoesList ==
  ASSUME NEW ks \in Seq(Kinds), NEW rule \in ListRules
  PROVE  Expands(List(rule), ks, Append(ks, ListKind(rule)))
PROOF
<1>. DEFINE ls == Append(ks, ListKind(rule))
<1>1. Rewrites(ks, <<>>, ListKinds, ls) /\ TopIs(ls, ListKind(rule)) /\ ls \in Seq(Kinds)
  BY ListKindIn, Pushed
<1>. HIDE DEF ls
<1>2. PICK t : t = [op |-> "list", arg |-> ""] OBVIOUS
<1>3. Does(t, ks, ls) BY <1>1, <1>2 DEF Does
<1>4. Does(Many(rule), ls, ls) BY <1>1 DEF Does, Many
<1>5. Expands(<<t, Many(rule)>>, ks, ls) BY <1>3, <1>4, ExpandsTwo
<1>. QED BY <1>2, <1>5 DEF List, ls

LEMMA DoesBuild ==
  ASSUME NEW ks \in Seq(Kinds), NEW node, NEW parts, NEW kind, Sig(node, parts, kind) \in Signatures,
         NEW ls, Rewrites(ks, parts, ServesAs(kind), ls)
  PROVE  Does(B(node), ks, ls)
PROOF
<1>1. PICK sig : sig = Sig(node, parts, kind) OBVIOUS
<1>2. node = sig.node /\ sig.parts = parts /\ sig.kind = kind BY <1>1, SignatureOf
<1>3. BuildDoes(node, ks, ls) BY <1>1, <1>2 DEF BuildDoes
<1>. QED BY <1>3 DEF Does, B

-----------------------------------------------------------------------------
(* What each rule leaves to be done does what the rule does. *)

\* An expression: an operand, the rest of its chain, and the two joined.
LEMMA ChainDoes ==
  ASSUME NEW ks \in Seq(Kinds), NEW rule \in {"aexp", "aterm", "rexp"}, NEW ls,
         Rewrites(ks, <<>>, ServesAs(Returned(rule)), ls)
  PROVE  Expands(<<P(Operand(rule)), P(Rest(rule)), B("join")>>, ks, ls)
PROOF
<1>1. ASSUME NEW kind \in {"aexp", "rexp"}, NEW rest \in {"arest", "rrest"},
             Returned(rule) = kind, kind \in ServesAs(Returned(Operand(rule))),
             rest \in ServesAs(Returned(Rest(rule))), Sig("join", <<kind, rest>>, kind) \in Signatures
      PROVE  Expands(<<P(Operand(rule)), P(Rest(rule)), B("join")>>, ks, ls)
  <2>1. kind \in Kinds /\ rest \in Kinds BY DEF Kinds
  <2>2. PICK k1, k2 : k1 = Append(ks, kind) /\ k2 = Append(k1, rest) OBVIOUS
  <2>3. k1 \in Seq(Kinds) /\ k2 \in Seq(Kinds) BY <2>1, <2>2
  <2>4. Operand(rule) \in ReturningRules /\ Rest(rule) \in ReturningRules
    BY DEF Operand, Rest, ReturningRules
  <2>5. Does(P(Operand(rule)), ks, k1) BY <1>1, <2>1, <2>2, <2>4, Pushed, DoesParse
  <2>6. Does(P(Rest(rule)), k1, k2) BY <1>1, <2>1, <2>2, <2>3, <2>4, Pushed, DoesParse
  <2>7. Rewrites(k2, <<kind, rest>>, ServesAs(kind), ls) BY <1>1, <2>1, <2>2, Popped
  <2>8. Does(B("join"), k2, ls) BY <1>1, <2>3, <2>7, DoesBuild
  <2>. QED BY <2>5, <2>6, <2>8, ExpandsThree
<1>2. CASE rule \in {"aexp", "aterm"}
  <2>1. /\ Returned(rule) = "aexp" /\ "aexp" \in ServesAs(Returned(Operand(rule)))
        /\ "arest" \in ServesAs(Returned(Rest(rule)))
    BY <1>2 DEF Returned, ServesAs, Operand, Rest
  <2>2. Sig("join", <<"aexp", "arest">>, "aexp") \in Signatures BY DEF Signatures
  <2>. QED BY <1>1, <2>1, <2>2
<1>3. CASE rule = "rexp"
  <2>1. /\ Returned(rule) = "rexp" /\ "rexp" \in ServesAs(Returned(Operand(rule)))
        /\ "rrest" \in ServesAs(Returned(Rest(rule)))
    BY <1>3 DEF Returned, ServesAs, Operand, Rest
  <2>2. Sig("join", <<"rexp", "rrest">>, "rexp") \in Signatures BY DEF Signatures
  <2>. QED BY <1>1, <2>1, <2>2
<1>. QED BY <1>2, <1>3

\* The rest of a chain: the operand after the operator, what follows it
\* joined to it, and the operator to both.
LEMMA LinkDoes ==
  ASSUME NEW ks \in Seq(Kinds), NEW rule \in {"aexp'", "aterm'", "rexp'"}, NEW op \in LinkOps(rule),
         NEW ls, Rewrites(ks, <<>>, ServesAs(Returned(rule)), ls), NEW type \in TokenTypes
  PROVE  Expands(<<M(type), P(LinkOperand(rule)), P(rule), B(LinkNode(op, rule)), Tag(op)>>, ks, ls)
PROOF
<1>1. ASSUME NEW kind \in {"aexp", "rexp"}, NEW rest \in {"arest", "rrest"},
             ServesAs(Returned(rule)) = {rest}, kind \in ServesAs(Returned(LinkOperand(rule))),
             kind \in ServesAs(kind), Sig(LinkNode(op, rule), <<kind, rest>>, kind) \in Signatures,
             \A ms : Rewrites(ms, <<kind>>, {rest}, ls) => TagDoes(op, ms, ls)
      PROVE  Expands(<<M(type), P(LinkOperand(rule)), P(rule), B(LinkNode(op, rule)), Tag(op)>>, ks, ls)
  <2>1. kind \in Kinds /\ rest \in Kinds BY DEF Kinds
  <2>2. PICK k1, k2 : k1 = Append(ks, kind) /\ k2 = Append(k1, rest) OBVIOUS
  <2>3. k1 \in Seq(Kinds) /\ k2 \in Seq(Kinds) BY <2>1, <2>2
  <2>4. rule \in ReturningRules /\ LinkOperand(rule) \in ReturningRules
    BY DEF LinkOperand, ReturningRules
  <2>5. Does(M(type), ks, ks) BY DoesMatch
  <2>6. Does(P(LinkOperand(rule)), ks, k1) BY <1>1, <2>1, <2>2, <2>4, Pushed, DoesParse
  <2>7. Rewrites(k1, <<>>, ServesAs(Returned(rule)), k2) BY <1>1, <2>1, <2>2, <2>3, Pushed
  <2>8. Does(P(rule), k1, k2) BY <2>3, <2>4, <2>7, DoesParse
  <2>9. Rewrites(ks, <<>>, ServesAs(kind), k1) BY <1>1, <2>1, <2>2, Pushed
  <2>10. Rewrites(k2, <<kind, rest>>, ServesAs(kind), k1) BY <2>1, <2>2, <2>9, Popped
  <2>11. Does(B(LinkNode(op, rule)), k2, k1) BY <1>1, <2>3, <2>10, DoesBuild
  <2>12. Rewrites(k1, <<kind>>, {rest}, ls) BY <1>1, <2>1, <2>2, Popped
  <2>13. Does(Tag(op), k1, ls) BY <1>1, <2>3, <2>12 DEF Does, Tag
  <2>. QED BY <2>5, <2>6, <2>8, <2>11, <2>13, ExpandsFive
<1>2. CASE rule \in {"aexp'", "aterm'"}
  <2>1. /\ ServesAs(Returned(rule)) = {"arest"} /\ "aexp" \in ServesAs(Returned(LinkOperand(rule)))
        /\ "aexp" \in ServesAs("aexp")
    BY <1>2 DEF Returned, ServesAs, LinkOperand
  <2>2. Sig(LinkNode(op, rule), <<"aexp", "arest">>, "aexp") \in Signatures BY <1>2 DEF Signatures, LinkNode
  <2>3. op \in ArithmeticOps BY <1>2 DEF LinkOps, ArithmeticOps
  <2>. QED BY <1>1, <2>1, <2>2, <2>3 DEF TagDoes
<1>3. CASE rule = "rexp'"
  <2>1. /\ ServesAs(Returned(rule)) = {"rrest"} /\ "rexp" \in ServesAs(Returned(LinkOperand(rule)))
        /\ "rexp" \in ServesAs("rexp")
    BY <1>3 DEF Returned, ServesAs, LinkOperand
  <2>3. op \in LogicalOps BY <1>3 DEF LinkOps, LogicalOps
  <2>4. LinkNode(op, rule) = op BY <1>3 DEF LinkNode
  <2>2. Sig(LinkNode(op, rule), <<"rexp", "rrest">>, "rexp") \in Signatures
    BY ONLY <2>3, <2>4 DEF Signatures, LogicalOps
  <2>. QED BY <1>1, <2>1, <2>2, <2>3 DEF TagDoes
<1>. QED BY <1>2, <1>3

\* A factor, by the type of its first token.
LEMMA FactorDoes ==
  ASSUME NEW ks \in Seq(Kinds), NEW ls, Rewrites(ks, <<>>, ServesAs("aexp"), ls)
  PROVE  /\ Expands(<<M("LParen"), P("aexp"), M("RParen")>>, ks, ls)
         /\ Expands(<<Take("Num"), B("int")>>, ks, ls)
         /\ Expands(<<P("path")>>, ks, ls)
         /\ Expands(<<M("Nil"), B("nil")>>, ks, ls)
         /\ Expands(<<M("New"), Take("Type"), P("notint"), B("new")>>, ks, ls)
PROOF
<1>1. "token" \in Kinds BY DEF Kinds
<1>2. /\ "LParen" \in TokenTypes /\ "RParen" \in TokenTypes /\ "Num" \in TokenTypes
      /\ "Nil" \in TokenTypes /\ "New" \in TokenTypes /\ "Type" \in TokenTypes
  BY DEF TokenTypes
<1>3. ls \in Seq(Kinds) BY DEF Rewrites
<1>4. PICK k1 : k1 = Append(ks, "token") OBVIOUS
<1>5. k1 \in Seq(Kinds) /\ TopIs(k1, "token") /\ Rewrites(k1, <<"token">>, ServesAs("aexp"), ls)
  BY <1>1, <1>4, Pushed, Popped
<1>6. Expands(<<M("LParen"), P("aexp"), M("RParen")>>, ks, ls)
  <2>1. "aexp" \in ReturningRules /\ Returned("aexp") = "aexp" BY DEF ReturningRules, Returned
  <2>2. Does(P("aexp"), ks, ls) BY <2>1, DoesParse
  <2>. QED BY <1>2, <1>3, <2>2, DoesMatch, ExpandsThree
<1>7. Expands(<<Take("Num"), B("int")>>, ks, ls)
  <2>1. Sig("int", <<"token">>, "aexp") \in Signatures BY DEF Signatures
  <2>2. Does(B("int"), k1, ls) BY <1>5, <2>1, DoesBuild
  <2>. QED BY <1>2, <1>4, <2>2, DoesTake, ExpandsTwo
<1>8. Expands(<<P("path")>>, ks, ls)
  <2>1. "path" \in ReturningRules /\ Returned("path") = "path" /\ ServesAs("aexp") \subseteq ServesAs("path")
    BY DEF ReturningRules, Returned, ServesAs
  <2>2. Rewrites(ks, <<>>, ServesAs(Returned("path")), ls) BY <2>1 DEF Rewrites
  <2>. QED BY <2>1, <2>2, DoesParse, ExpandsOne
<1>9. Expands(<<M("Nil"), B("nil")>>, ks, ls)
  <2>1. Sig("nil", <<>>, "aexp") \in Signatures BY DEF Signatures
  <2>2. Does(B("nil"), ks, ls) BY <2>1, DoesBuild
  <2>. QED BY <1>2, <2>2, DoesMatch, ExpandsTwo
<1>10. Expands(<<M("New"), Take("Type"), P("notint"), B("new")>>, ks, ls)
  <2>1. Sig("new", <<"token">>, "aexp") \in Signatures BY DEF Signatures
  <2>2. Does(B("new"), k1, ls) BY <1>5, <2>1, DoesBuild
  <2>3. Does(P("notint"), k1, k1) BY <1>5 DEF Does, P, ParseDoes
  <2>4. Does(M("New"), ks, ks) /\ Does(Take("Type"), ks, k1) BY <1>2, <1>4, DoesMatch, DoesTake
  <2>. QED BY <2>2, <2>3, <2>4, ExpandsFour
<1>. QED BY <1>6, <1>7, <1>8, <1>9, <1>10

\* A method that does nothing but call another.
LEMMA DelegateDoes ==
  ASSUME NEW ks \in Seq(Kinds), NEW ls, NEW S, Rewrites(ks, <<>>, S, ls),
         NEW rule \in ReturningRules, S \subseteq ServesAs(Returned(rule))
  PROVE  Expands(<<P(rule)>>, ks, ls)
PROOF
<1>1. Rewrites(ks, <<>>, ServesAs(Returned(rule)), ls) BY DEF Rewrites
<1>. QED BY <1>1, DoesParse, ExpandsOne

\* A name and the fields that follow it.
LEMMA PathDoes ==
  ASSUME NEW ks \in Seq(Kinds), NEW ls, Rewrites(ks, <<>>, ServesAs("path"), ls)
  PROVE  Expands(<<Take("Id")>> \o List("field") \o <<B("path")>>, ks, ls)
PROOF
<1>1. "token" \in Kinds /\ "names" \in Kinds BY DEF Kinds
<1>2. PICK k1, k2 : k1 = Append(ks, "token") /\ k2 = Append(k1, "names") OBVIOUS
<1>3. k1 \in Seq(Kinds) /\ k2 \in Seq(Kinds) BY <1>1, <1>2
<1>4. Expands(<<Take("Id")>>, ks, k1)
  <2>1. "Id" \in TokenTypes BY DEF TokenTypes
  <2>. QED BY <2>1, <1>2, DoesTake, ExpandsOne
<1>5. Expands(List("field"), k1, k2)
  <2>1. "field" \in ListRules /\ ListKind("field") = "names" BY DEF ListRules, ListKind
  <2>. QED BY <2>1, <1>2, <1>3, DoesList
<1>6. Expands(<<B("path")>>, k2, ls)
  <2>1. Sig("path", <<"token", "names">>, "path") \in Signatures BY DEF Signatures
  <2>2. Rewrites(k2, <<"token", "names">>, ServesAs("path"), ls) BY <1>1, <1>2, Popped
  <2>. QED BY <2>1, <2>2, <1>3, DoesBuild, ExpandsOne
<1>. QED BY <1>4, <1>5, <1>6, ExpandsConcat

\* parseRexpPrime1, by the type of its first token.
LEMMA RelationDoes ==
  ASSUME NEW ks \in Seq(Kinds), NEW ls, Rewrites(ks, <<>>, ServesAs("rexp"), ls)
  PROVE  /\ Expands(<<M("LNeg"), P("rexp"), B("not")>>, ks, ls)
         /\ Expands(<<M("LBracket"), P("rexp"), M("RBracket")>>, ks, ls)
         /\ Expands(<<P("aexp"), P("comparison")>>, ks, ls)
PROOF
<1>1. "rexp" \in Kinds /\ "aexp" \in Kinds BY DEF Kinds
<1>2. "LNeg" \in TokenTypes /\ "LBracket" \in TokenTypes /\ "RBracket" \in TokenTypes BY DEF TokenTypes
<1>3. ls \in Seq(Kinds) BY DEF Rewrites
<1>4. PICK k1, k2 : k1 = Append(ks, "rexp") /\ k2 = Append(ks, "aexp") OBVIOUS
<1>5. /\ k1 \in Seq(Kinds) /\ k2 \in Seq(Kinds)
      /\ Rewrites(ks, <<>>, ServesAs("rexp"), k1) /\ Rewrites(ks, <<>>, ServesAs("aexp"), k2)
  <2>1. "rexp" \in ServesAs("rexp") /\ "aexp" \in ServesAs("aexp") BY DEF ServesAs
  <2>. QED BY <2>1, <1>1, <1>4, Pushed
<1>6. /\ "rexp" \in ReturningRules /\ Returned("rexp") = "rexp"
      /\ "aexp" \in ReturningRules /\ Returned("aexp") = "aexp"
  BY DEF ReturningRules, Returned
<1>7. Expands(<<M("LNeg"), P("rexp"), B("not")>>, ks, ls)
  <2>1. Sig("not", <<"rexp">>, "rexp") \in Signatures BY DEF Signatures
  <2>2. Rewrites(k1, <<"rexp">>, ServesAs("rexp"), ls) BY <1>1, <1>4, Popped
  <2>3. Does(B("not"), k1, ls) BY <2>1, <2>2, <1>5, DoesBuild
  <2>4. Does(P("rexp"), ks, k1) BY <1>5, <1>6, DoesParse
  <2>. QED BY <2>3, <2>4, <1>2, DoesMatch, ExpandsThree
<1>8. Expands(<<M("LBracket"), P("rexp"), M("RBracket")>>, ks, ls)
  <2>1. Does(P("rexp"), ks, ls) BY <1>6, DoesParse
  <2>. QED BY <2>1, <1>2, <1>3, DoesMatch, ExpandsThree
<1>9. Expands(<<P("aexp"), P("comparison")>>, ks, ls)
  <2>1. Does(P("aexp"), ks, k2) BY <1>5, <1>6, DoesParse
  <2>2. Rewrites(k2, <<"aexp">>, ServesAs("rexp"), ls) BY <1>1, <1>4, Popped
  <2>3. ServesAs("rexp") = {"rexp"} BY DEF ServesAs
  <2>4. Does(P("comparison"), k2, ls) BY <2>2, <2>3, <1>5 DEF Does, P, ParseDoes
  <2>. QED BY <2>1, <2>4, ExpandsTwo
<1>. QED BY <1>7, <1>8, <1>9

\* What follows the first operand of a comparison.
LEMMA ComparisonDoes ==
  ASSUME NEW ks \in Seq(Kinds), NEW ls, Rewrites(ks, <<"aexp">>, {"rexp"}, ls), NEW op \in RelationalOps
  PROVE  Expands(<<M("RelOp"), P("aexp"), B(op)>>, ks, ls)
PROOF
<1>1. "aexp" \in Kinds /\ "RelOp" \in TokenTypes BY DEF Kinds, TokenTypes
<1>2. PICK k1 : k1 = Append(ks, "aexp") OBVIOUS
<1>3. k1 \in Seq(Kinds) BY <1>1, <1>2
<1>4. Does(P("aexp"), ks, k1)
  <2>1. "aexp" \in ReturningRules /\ Returned("aexp") = "aexp" /\ "aexp" \in ServesAs("aexp")
    BY DEF ReturningRules, Returned, ServesAs
  <2>. QED BY <2>1, <1>1, <1>2, Pushed, DoesParse
<1>5. Does(B(op), k1, ls)
  <2>1. Sig(op, <<"aexp", "aexp">>, "rexp") \in Signatures BY DEF Signatures, RelationalOps
  <2>2. Rewrites(k1, <<"aexp", "aexp">>, {"rexp"}, ls) BY <1>1, <1>2, PoppedTwo
  <2>3. ServesAs("rexp") = {"rexp"} BY DEF ServesAs
  <2>. QED BY <2>1, <2>2, <2>3, <1>3, DoesBuild
<1>. QED BY <1>1, <1>4, <1>5, DoesMatch, ExpandsThree

\* The condition and the branches of a statement.
LEMMA BranchDoes ==
  ASSUME NEW ks \in Seq(Kinds)
  PROVE  /\ Expands(Condition, ks, Append(ks, "rexp"))
         /\ Expands(Branch, ks, Append(ks, "block"))
         /\ Does(P("else"), ks, Append(ks, "block"))
         /\ Append(ks, "rexp") \in Seq(Kinds) /\ Append(ks, "block") \in Seq(Kinds)
PROOF
<1>1. PICK k1, k2 : k1 = Append(ks, "rexp") /\ k2 = Append(ks, "block") OBVIOUS
<1>2. "rexp" \in Kinds /\ "block" \in Kinds BY DEF Kinds
<1>3. /\ k1 \in Seq(Kinds) /\ k2 \in Seq(Kinds)
      /\ Rewrites(ks, <<>>, ServesAs("rexp"), k1) /\ Rewrites(ks, <<>>, ServesAs("block"), k2)
  <2>1. "rexp" \in ServesAs("rexp") /\ "block" \in ServesAs("block") BY DEF ServesAs
  <2>. QED BY <2>1, <1>1, <1>2, Pushed
<1>4. /\ "LParen" \in TokenTypes /\ "RParen" \in TokenTypes
      /\ "LBrace" \in TokenTypes /\ "RBrace" \in TokenTypes
  BY DEF TokenTypes
<1>5. /\ "rexp" \in ReturningRules /\ Returned("rexp") = "rexp"
      /\ "block" \in ReturningRules /\ Returned("block") = "block"
      /\ "else" \in ReturningRules /\ Returned("else") = "block"
  BY DEF ReturningRules, Returned
<1>6. Does(P("rexp"), ks, k1) /\ Does(P("block"), ks, k2) /\ Does(P("else"), ks, k2)
  BY <1>3, <1>5, DoesParse
<1>7. Expands(Condition, ks, k1) BY <1>3, <1>4, <1>6, DoesMatch, ExpandsThree DEF Condition
<1>8. Expands(Branch, ks, k2) BY <1>3, <1>4, <1>6, DoesMatch, ExpandsThree DEF Branch
<1>. QED BY <1>1, <1>3, <1>6, <1>7, <1>8

LEMMA WhileDoes ==
  ASSUME NEW ks \in Seq(Kinds), NEW ls, Rewrites(ks, <<>>, ServesAs("statement"), ls)
  PROVE  Expands(<<M("While")>> \o Condition \o Branch \o <<B("while")>>, ks, ls)
PROOF
<1>1. "rexp" \in Kinds /\ "block" \in Kinds /\ "While" \in TokenTypes BY DEF Kinds, TokenTypes
<1>2. PICK k1, k2 : k1 = Append(ks, "rexp") /\ k2 = Append(k1, "block") OBVIOUS
<1>3. /\ Expands(Condition, ks, k1) /\ Expands(Branch, k1, k2)
      /\ k1 \in Seq(Kinds) /\ k2 \in Seq(Kinds)
  BY <1>2, BranchDoes
<1>4. Expands(<<M("While")>>, ks, ks) BY <1>1, DoesMatch, ExpandsOne
<1>5. Expands(<<B("while")>>, k2, ls)
  <2>1. Sig("while", <<"rexp", "block">>, "statement") \in Signatures BY DEF Signatures
  <2>2. Rewrites(k2, <<"rexp", "block">>, ServesAs("statement"), ls) BY <1>1, <1>2, Popped
  <2>. QED BY <2>1, <2>2, <1>3, DoesBuild, ExpandsOne
<1>. QED BY <1>3, <1>4, <1>5, ExpandsConcat

LEMMA IfDoes ==
  ASSUME NEW ks \in Seq(Kinds), NEW ls, Rewrites(ks, <<>>, ServesAs("statement"), ls)
  PROVE  Expands(<<M("If")>> \o Condition \o Branch \o <<P("else"), B("if")>>, ks, ls)
PROOF
<1>1. "rexp" \in Kinds /\ "block" \in Kinds /\ "If" \in TokenTypes BY DEF Kinds, TokenTypes
<1>2. PICK k1, k2, k3 : k1 = Append(ks, "rexp") /\ k2 = Append(k1, "block") /\ k3 = Append(k2, "block")
  OBVIOUS
<1>3. /\ Expands(Condition, ks, k1) /\ Expands(Branch, k1, k2)
      /\ k1 \in Seq(Kinds) /\ k2 \in Seq(Kinds)
  BY <1>2, BranchDoes
<1>4. Does(P("else"), k2, k3) /\ k3 \in Seq(Kinds) BY <1>2, <1>3, BranchDoes
<1>5. Expands(<<M("If")>>, ks, ks) BY <1>1, DoesMatch, ExpandsOne
<1>6. Expands(<<P("else"), B("if")>>, k2, ls)
  <2>1. Sig("if", <<"rexp", "block", "block">>, "statement") \in Signatures BY DEF Signatures
  <2>2. Rewrites(k3, <<"rexp", "block", "block">>, ServesAs("statement"), ls) BY <1>1, <1>2, Popped
  <2>3. Does(B("if"), k3, ls) BY <2>1, <2>2, <1>4, DoesBuild
  <2>. QED BY <2>3, <1>4, ExpandsTwo
<1>. QED BY <1>3, <1>5, <1>6, ExpandsConcat

LEMMA AssignDoes ==
  ASSUME NEW ks \in Seq(Kinds), NEW ls, Rewrites(ks, <<>>, ServesAs("statement"), ls)
  PROVE  Expands(<<P("path"), M("Assign"), P("rhs"), M("Semicolon"), B("assign")>>, ks, ls)
PROOF
<1>1. /\ "path" \in Kinds /\ "rhs" \in Kinds /\ "Assign" \in TokenTypes /\ "Semicolon" \in TokenTypes
  BY DEF Kinds, TokenTypes
<1>2. /\ "path" \in ReturningRules /\ "path" \in ServesAs(Returned("path"))
      /\ "rhs" \in ReturningRules /\ "rhs" \in ServesAs(Returned("rhs"))
  BY DEF ReturningRules, Returned, ServesAs
<1>3. PICK k1, k2 : k1 = Append(ks, "path") /\ k2 = Append(k1, "rhs") OBVIOUS
<1>4. k1 \in Seq(Kinds) /\ k2 \in Seq(Kinds) BY <1>1, <1>3
<1>5. Does(P("path"), ks, k1) BY <1>1, <1>2, <1>3, Pushed, DoesParse
<1>6. Does(P("rhs"), k1, k2) BY <1>1, <1>2, <1>3, <1>4, Pushed, DoesParse
<1>7. Does(B("assign"), k2, ls)
  <2>1. Sig("assign", <<"path", "rhs">>, "statement") \in Signatures BY DEF Signatures
  <2>2. Rewrites(k2, <<"path", "rhs">>, ServesAs("statement"), ls) BY <1>1, <1>3, Popped
  <2>. QED BY <2>1, <2>2, <1>4, DoesBuild
<1>. QED BY <1>1, <1>4, <1>5, <1>6, <1>7, DoesMatch, ExpandsFive

LEMMA BlockDoes ==
  ASSUME NEW ks \in Seq(Kinds), NEW ls, Rewrites(ks, <<>>, ServesAs("block"), ls)
  PROVE  /\ Expands(List("declaration") \o List("statement") \o <<B("block")>>, ks, ls)
         /\ Expands(<<M("Else")>> \o Branch, ks, ls)
         /\ Expands(<<B("noelse")>>, ks, ls)
PROOF
<1>1. "declarations" \in Kinds /\ "statements" \in Kinds BY DEF Kinds
<1>2. PICK k1, k2 : k1 = Append(ks, "declarations") /\ k2 = Append(k1, "statements") OBVIOUS
<1>3. k1 \in Seq(Kinds) /\ k2 \in Seq(Kinds) BY <1>1, <1>2
<1>4. Expands(List("declaration"), ks, k1) /\ Expands(List("statement"), k1, k2)
  <2>1. /\ "declaration" \in ListRules /\ ListKind("declaration") = "declarations"
        /\ "statement" \in ListRules /\ ListKind("statement") = "statements"
    BY DEF ListRules, ListKind
  <2>. QED BY <2>1, <1>2, <1>3, DoesList
<1>5. Expands(<<B("block")>>, k2, ls)
  <2>1. Sig("block", <<"declarations", "statements">>, "block") \in Signatures BY DEF Signatures
  <2>2. Rewrites(k2, <<"declarations", "statements">>, ServesAs("block"), ls) BY <1>1, <1>2, Popped
  <2>. QED BY <2>1, <2>2, <1>3, DoesBuild, ExpandsOne
<1>6. Expands(List("declaration") \o List("statement") \o <<B("block")>>, ks, ls)
  BY <1>4, <1>5, ExpandsConcat
<1>7. Expands(<<M("Else")>> \o Branch, ks, ls)
  <2>1. "Else" \in TokenTypes /\ "LBrace" \in TokenTypes /\ "RBrace" \in TokenTypes BY DEF TokenTypes
  <2>2. "block" \in ReturningRules /\ Returned("block") = "block" BY DEF ReturningRules, Returned
  <2>3. Does(P("block"), ks, ls) /\ ls \in Seq(Kinds) BY <2>2, DoesParse DEF Rewrites
  <2>4. Expands(Branch, ks, ls) BY <2>1, <2>3, DoesMatch, ExpandsThree DEF Branch
  <2>5. Expands(<<M("Else")>>, ks, ks) BY <2>1, DoesMatch, ExpandsOne
  <2>. QED BY <2>4, <2>5, ExpandsConcat
<1>8. Expands(<<B("noelse")>>, ks, ls)
  <2>1. Sig("noelse", <<>>, "block") \in Signatures BY DEF Signatures
  <2>. QED BY <2>1, DoesBuild, ExpandsOne
<1>. QED BY <1>6, <1>7, <1>8

LEMMA CallDoes ==
  ASSUME NEW ks \in Seq(Kinds), NEW ls, Rewrites(ks, <<>>, ServesAs("rhs"), ls)
  PROVE  Expands(<<Take("Id"), M("LParen")>> \o List("argument") \o <<M("RParen"), B("call")>>, ks, ls)
PROOF
<1>1. /\ "token" \in Kinds /\ "arguments" \in Kinds
      /\ "Id" \in TokenTypes /\ "LParen" \in TokenTypes /\ "RParen" \in TokenTypes
  BY DEF Kinds, TokenTypes
<1>2. PICK k1, k2 : k1 = Append(ks, "token") /\ k2 = Append(k1, "arguments") OBVIOUS
<1>3. k1 \in Seq(Kinds) /\ k2 \in Seq(Kinds) BY <1>1, <1>2
<1>4. Expands(<<Take("Id"), M("LParen")>>, ks, k1) BY <1>1, <1>2, <1>3, DoesTake, DoesMatch, ExpandsTwo
<1>5. Expands(List("argument"), k1, k2)
  <2>1. "argument" \in ListRules /\ ListKind("argument") = "arguments" BY DEF ListRules, ListKind
  <2>. QED BY <2>1, <1>2, <1>3, DoesList
<1>6. Expands(<<M("RParen"), B("call")>>, k2, ls)
  <2>1. Sig("call", <<"token", "arguments">>, "rhs") \in Signatures BY DEF Signatures
  <2>2. Rewrites(k2, <<"token", "arguments">>, ServesAs("rhs"), ls) BY <1>1, <1>2, Popped
  <2>3. Does(B("call"), k2, ls) BY <2>1, <2>2, <1>3, DoesBuild
  <2>. QED BY <2>3, <1>1, <1>3, DoesMatch, ExpandsTwo
<1>. QED BY <1>4, <1>5, <1>6, ExpandsConcat

\* One more element of a list, appended to it.
LEMMA GoOnParts ==
  ASSUME NEW ks \in Seq(Kinds), NEW rule \in ListRules, TopIs(ks, ListKind(rule))
  PROVE  ExpandsFrom({"statement"}, <<P(rule), B(IF rule = "field" THEN "name" ELSE "append")>>, ks, ks)
         /\ (rule # "statement" =>
               Expands(<<P(rule), B(IF rule = "field" THEN "name" ELSE "append")>>, ks, ks))
         /\ Expands(IF rule \in {"argument", "param"} THEN <<P("comma")>> ELSE <<>>, ks, ks)
PROOF
<1>. DEFINE node == IF rule = "field" THEN "name" ELSE "append"
<1>1. PICK elt : elt = Returned(rule) OBVIOUS
<1>2. /\ elt \in Kinds /\ elt \in ServesAs(Returned(rule))
      /\ ListKind(rule) \in Kinds /\ ListKind(rule) \in ServesAs(ListKind(rule))
  BY <1>1 DEF ListRules, Returned, ServesAs, Kinds, ListKind
<1>3. Sig(node, <<ListKind(rule), elt>>, ListKind(rule)) \in Signatures
  BY <1>1 DEF ListRules, Returned, ListKind, Signatures
<1>4. PICK k1 : k1 = Append(ks, elt) OBVIOUS
<1>5. k1 \in Seq(Kinds) BY <1>2, <1>4
<1>6. Rewrites(ks, <<ListKind(rule)>>, ServesAs(ListKind(rule)), ks)
  <2>1. PICK p : p = <<ListKind(rule)>> OBVIOUS
  <2>2. Len(p) = 1 /\ p[1] = ListKind(rule) BY <2>1
  <2>3. Len(ks) \in Nat /\ Len(ks) > 0 /\ ks[Len(ks)] = ListKind(rule) BY DEF TopIs
  <2>4. Rewrites(ks, p, ServesAs(ListKind(rule)), ks) BY <1>2, <2>2, <2>3 DEF Rewrites
  <2>. QED BY <2>1, <2>4
<1>7. Rewrites(k1, <<ListKind(rule), elt>>, ServesAs(ListKind(rule)), ks) BY <1>2, <1>4, <1>6, PoppedTwo
<1>8. Does(B(node), k1, ks) BY <1>3, <1>5, <1>7, DoesBuild
<1>. HIDE DEF node
<1>9. ASSUME rule # "statement" PROVE Expands(<<P(rule), B(node)>>, ks, ks)
  <2>1. rule \in ReturningRules BY <1>9 DEF ReturningRules
  <2>2. Does(P(rule), ks, k1) BY <2>1, <1>2, <1>4, Pushed, DoesParse
  <2>. QED BY <2>2, <1>8, ExpandsTwo
<1>10. ASSUME rule = "statement" PROVE ExpandsFrom({"statement"}, <<P(rule), B(node)>>, ks, ks)
  <2>1. elt = "statement" BY <1>1, <1>10 DEF Returned
  <2>2. Rewrites(ks, <<>>, {"statement"}, k1) BY <2>1, <1>2, <1>4, Pushed
  <2>3. DoesAt({"statement"}, 1, P(rule), ks, k1) BY <1>10, <2>2 DEF DoesAt, P
  <2>4. DoesAt({"statement"}, 2, B(node), k1, ks) BY <1>8 DEF DoesAt
  <2>5. PICK s, g : s = <<P(rule), B(node)>> /\ g = <<ks, k1, ks>> OBVIOUS
  <2>6. /\ IsSequence(s) /\ Len(s) = 2 /\ s[1] = P(rule) /\ s[2] = B(node)
        /\ g[1] = ks /\ g[2] = k1 /\ g[3] = ks
    BY <2>5 DEF IsSequence, ToSet
  <2>7. \A k \in 1..2 : DoesAt({"statement"}, k, s[k], g[k], g[k + 1]) BY <2>3, <2>4, <2>6
  <2>. QED BY <2>5, <2>6, <2>7 DEF ExpandsFrom
<1>11. Expands(IF rule \in {"argument", "param"} THEN <<P("comma")>> ELSE <<>>, ks, ks)
  <2>1. Does(P("comma"), ks, ks) BY DEF Does, P, ParseDoes
  <2>. QED BY <2>1, ExpandsOne, ExpandsNone
<1>12. ExpandsFrom({"statement"}, <<P(rule), B(node)>>, ks, ks) BY <1>9, <1>10, ExpandsAnywhere
<1>. QED BY <1>9, <1>11, <1>12 DEF node

\* Declarations, parameters and fields.
LEMMA DeclarationDoes ==
  ASSUME NEW ks \in Seq(Kinds), NEW ls, Rewrites(ks, <<>>, ServesAs("declaration"), ls)
  PROVE  /\ Expands(<<Take("Type"), Take("Id"), M("Semicolon"), B("declaration")>>, ks, ls)
         /\ Expands(<<Take("Type"), Take("Id"), B("declaration")>>, ks, ls)
PROOF
<1>1. /\ "token" \in Kinds
      /\ "Type" \in TokenTypes /\ "Id" \in TokenTypes /\ "Semicolon" \in TokenTypes
  BY DEF Kinds, TokenTypes
<1>2. PICK k1, k2 : k1 = Append(ks, "token") /\ k2 = Append(k1, "token") OBVIOUS
<1>3. k1 \in Seq(Kinds) /\ k2 \in Seq(Kinds) BY <1>1, <1>2
<1>4. /\ Does(Take("Type"), ks, k1) /\ Does(Take("Id"), k1, k2) /\ Does(M("Semicolon"), k2, k2)
  BY <1>1, <1>2, <1>3, DoesTake, DoesMatch
<1>5. Does(B("declaration"), k2, ls)
  <2>1. Sig("declaration", <<"token", "token">>, "declaration") \in Signatures BY DEF Signatures
  <2>2. Rewrites(k2, <<"token", "token">>, ServesAs("declaration"), ls) BY <1>1, <1>2, Popped
  <2>. QED BY <2>1, <2>2, <1>3, DoesBuild
<1>. QED BY <1>4, <1>5, ExpandsThree, ExpandsFour

LEMMA FieldDoes ==
  ASSUME NEW ks \in Seq(Kinds), NEW ls, Rewrites(ks, <<>>, ServesAs("token"), ls)
  PROVE  Expands(<<M("Dot"), Take("Id")>>, ks, ls)
PROOF
<1>1. "Dot" \in TokenTypes /\ "Id" \in TokenTypes BY DEF TokenTypes
<1>2. ServesAs("token") = {"token"} BY DEF ServesAs
<1>3. Does(Take("Id"), ks, ls) BY <1>1, <1>2 DEF Does, Take
<1>. QED BY <1>1, <1>3, DoesMatch, ExpandsTwo

LEMMA FunctionDoes ==
  ASSUME NEW ks \in Seq(Kinds), NEW ls, Rewrites(ks, <<>>, ServesAs("fundef"), ls)
  PROVE  Expands(DefinitionTasks("fundef"), ks, ls)
PROOF
<1>1. /\ "token" \in Kinds /\ "declarations" \in Kinds /\ "block" \in Kinds /\ "aexp" \in Kinds
      /\ "Def" \in TokenTypes /\ "Id" \in TokenTypes /\ "LParen" \in TokenTypes /\ "RParen" \in TokenTypes
      /\ "HasType" \in TokenTypes /\ "Type" \in TokenTypes /\ "LBrace" \in TokenTypes
      /\ "Return" \in TokenTypes /\ "Semicolon" \in TokenTypes /\ "RBrace" \in TokenTypes
  BY DEF Kinds, TokenTypes
<1>2. PICK k1, k2, k3, k4, k5 :
        /\ k1 = Append(ks, "token") /\ k2 = Append(k1, "declarations") /\ k3 = Append(k2, "token")
        /\ k4 = Append(k3, "block") /\ k5 = Append(k4, "aexp")
  OBVIOUS
<1>3. /\ k1 \in Seq(Kinds) /\ k2 \in Seq(Kinds) /\ k3 \in Seq(Kinds) /\ k4 \in Seq(Kinds)
      /\ k5 \in Seq(Kinds)
  BY <1>1, <1>2
<1>4. Expands(<<M("Def"), Take("Id"), M("LParen")>>, ks, k1)
  BY <1>1, <1>2, <1>3, DoesMatch, DoesTake, ExpandsThree
<1>5. Expands(List("param"), k1, k2)
  <2>1. "param" \in ListRules /\ ListKind("param") = "declarations" BY DEF ListRules, ListKind
  <2>. QED BY <2>1, <1>2, <1>3, DoesList
<1>6. Does(P("block"), k3, k4)
  <2>1. "block" \in ReturningRules /\ "block" \in ServesAs(Returned("block"))
    BY DEF ReturningRules, Returned, ServesAs
  <2>. QED BY <2>1, <1>1, <1>2, <1>3, Pushed, DoesParse
<1>7. Does(P("aexp"), k4, k5)
  <2>1. "aexp" \in ReturningRules /\ "aexp" \in ServesAs(Returned("aexp"))
    BY DEF ReturningRules, Returned, ServesAs
  <2>. QED BY <2>1, <1>1, <1>2, <1>3, Pushed, DoesParse
<1>8. Does(B("fundef"), k5, ls)
  <2>1. Sig("fundef", <<"token", "declarations", "token", "block", "aexp">>, "fundef") \in Signatures
    BY DEF Signatures
  <2>2. Rewrites(k5, <<"token", "declarations", "token", "block", "aexp">>, ServesAs("fundef"), ls)
    BY <1>1, <1>2, Popped
  <2>. QED BY <2>1, <2>2, <1>3, DoesBuild
<1>9. Does(Take("Type"), k2, k3) BY <1>1, <1>2, <1>3, DoesTake
<1>10. \A type \in TokenTypes, k \in {k2, k3, k4, k5} : Does(M(type), k, k) BY <1>3, DoesMatch
<1>11. Expands(<<M("RParen"), M("HasType"), Take("Type"), M("LBrace"), P("block"), M("Return"),
                 P("aexp"), M("Semicolon"), M("RBrace"), B("fundef")>>, k2, ls)
  BY <1>1, <1>6, <1>7, <1>8, <1>9, <1>10, ExpandsTen
<1>12. Expands(<<M("Def"), Take("Id"), M("LParen")>> \o List("param")
               \o <<M("RParen"), M("HasType"), Take("Type"), M("LBrace"), P("block"), M("Return"),
                    P("aexp"), M("Semicolon"), M("RBrace"), B("fundef")>>, ks, ls)
  BY <1>4, <1>5, <1>11, ExpandsConcat
<1>. QED BY <1>12 DEF DefinitionTasks

LEMMA TypeDefDoes ==
  ASSUME NEW ks \in Seq(Kinds), NEW ls, Rewrites(ks, <<>>, ServesAs("typedef"), ls)
  PROVE  Expands(DefinitionTasks("typedef"), ks, ls)
PROOF
<1>1. /\ "token" \in Kinds /\ "declarations" \in Kinds
      /\ "Struct" \in TokenTypes /\ "Type" \in TokenTypes /\ "LBrace" \in TokenTypes
      /\ "Semicolon" \in TokenTypes /\ "RBrace" \in TokenTypes
  BY DEF Kinds, TokenTypes
<1>2. PICK k1, k2 : k1 = Append(ks, "token") /\ k2 = Append(k1, "declarations") OBVIOUS
<1>3. k1 \in Seq(Kinds) /\ k2 \in Seq(Kinds) /\ TopIs(k1, "token") BY <1>1, <1>2, Pushed
<1>4. Does(P("notint"), k1, k1) BY <1>3 DEF Does, P, ParseDoes
<1>5. Expands(<<M("Struct"), Take("Type"), P("notint"), M("LBrace")>>, ks, k1)
  <2>1. Does(M("Struct"), ks, ks) /\ Does(Take("Type"), ks, k1) /\ Does(M("LBrace"), k1, k1)
    BY <1>1, <1>2, <1>3, DoesMatch, DoesTake
  <2>. QED BY <2>1, <1>4, ExpandsFour
<1>6. Expands(List("declaration"), k1, k2)
  <2>1. "declaration" \in ListRules /\ ListKind("declaration") = "declarations" BY DEF ListRules, ListKind
  <2>. QED BY <2>1, <1>2, <1>3, DoesList
<1>7. Expands(<<M("RBrace"), M("Semicolon"), B("typedef")>>, k2, ls)
  <2>1. Sig("typedef", <<"token", "declarations">>, "typedef") \in Signatures BY DEF Signatures
  <2>2. Rewrites(k2, <<"token", "declarations">>, ServesAs("typedef"), ls) BY <1>1, <1>2, Popped
  <2>3. Does(B("typedef"), k2, ls) BY <2>1, <2>2, <1>3, DoesBuild
  <2>4. Does(M("RBrace"), k2, k2) /\ Does(M("Semicolon"), k2, k2) BY <1>1, <1>3, DoesMatch
  <2>. QED BY <2>3, <2>4, ExpandsThree
<1>8. Expands(<<M("Struct"), Take("Type"), P("notint"), M("LBrace")>> \o List("declaration")
              \o <<M("RBrace"), M("Semicolon"), B("typedef")>>, ks, ls)
  BY <1>5, <1>6, <1>7, ExpandsConcat
<1>. QED BY <1>8 DEF DefinitionTasks

LEMMA ProgramDoes ==
  ASSUME NEW ks \in Seq(Kinds), NEW ls, Rewrites(ks, <<>>, ServesAs("program"), ls)
  PROVE  Expands(DefinitionTasks("program"), ks, ls)
PROOF
<1>1. /\ "typedefs" \in Kinds /\ "fundefs" \in Kinds /\ "block" \in Kinds /\ "aexp" \in Kinds
      /\ "Output" \in TokenTypes /\ "Semicolon" \in TokenTypes
  BY DEF Kinds, TokenTypes
<1>2. PICK k1, k2, k3, k4 :
        /\ k1 = Append(ks, "typedefs") /\ k2 = Append(k1, "fundefs")
        /\ k3 = Append(k2, "block") /\ k4 = Append(k3, "aexp")
  OBVIOUS
<1>3. k1 \in Seq(Kinds) /\ k2 \in Seq(Kinds) /\ k3 \in Seq(Kinds) /\ k4 \in Seq(Kinds) BY <1>1, <1>2
<1>4. Expands(List("typedef"), ks, k1) /\ Expands(List("fundef"), k1, k2)
  <2>1. /\ "typedef" \in ListRules /\ ListKind("typedef") = "typedefs"
        /\ "fundef" \in ListRules /\ ListKind("fundef") = "fundefs"
    BY DEF ListRules, ListKind
  <2>. QED BY <2>1, <1>2, <1>3, DoesList
<1>5. Does(P("block"), k2, k3)
  <2>1. "block" \in ReturningRules /\ "block" \in ServesAs(Returned("block"))
    BY DEF ReturningRules, Returned, ServesAs
  <2>. QED BY <2>1, <1>1, <1>2, <1>3, Pushed, DoesParse
<1>6. Does(P("aexp"), k3, k4)
  <2>1. "aexp" \in ReturningRules /\ "aexp" \in ServesAs(Returned("aexp"))
    BY DEF ReturningRules, Returned, ServesAs
  <2>. QED BY <2>1, <1>1, <1>2, <1>3, Pushed, DoesParse
<1>7. Does(B("program"), k4, ls)
  <2>1. Sig("program", <<"typedefs", "fundefs", "block", "aexp">>, "program") \in Signatures
    BY DEF Signatures
  <2>2. Rewrites(k4, <<"typedefs", "fundefs", "block", "aexp">>, ServesAs("program"), ls)
    BY <1>1, <1>2, Popped
  <2>. QED BY <2>1, <2>2, <1>3, DoesBuild
<1>8. Does(M("Output"), k3, k3) /\ Does(M("Semicolon"), k4, k4) BY <1>1, <1>3, DoesMatch
<1>9. Expands(<<P("block"), M("Output"), P("aexp"), M("Semicolon"), B("program")>>, k2, ls)
  BY <1>5, <1>6, <1>7, <1>8, ExpandsFive
<1>10. Expands(List("typedef") \o List("fundef")
               \o <<P("block"), M("Output"), P("aexp"), M("Semicolon"), B("program")>>, ks, ls)
  BY <1>4, <1>9, ExpandsConcat
<1>. QED BY <1>10 DEF DefinitionTasks

LEMMA DefinitionDoes ==
  ASSUME NEW ks \in Seq(Kinds), NEW rule \in DefinitionRules, NEW ls,
         Rewrites(ks, <<>>, ServesAs(Returned(rule)), ls)
  PROVE  Expands(DefinitionTasks(rule), ks, ls)
PROOF
<1>1. CASE rule \in {"declaration", "param"}
  <2>1. Returned(rule) = "declaration" BY <1>1 DEF Returned
  <2>. QED BY <1>1, <2>1, DeclarationDoes DEF DefinitionTasks
<1>2. CASE rule = "field"
  <2>1. Returned(rule) = "token" BY <1>2 DEF Returned
  <2>. QED BY <1>2, <2>1, FieldDoes DEF DefinitionTasks
<1>3. CASE rule = "fundef"
  <2>1. Returned(rule) = "fundef" BY <1>3 DEF Returned
  <2>. QED BY <1>3, <2>1, FunctionDoes
<1>4. CASE rule = "typedef"
  <2>1. Returned(rule) = "typedef" BY <1>4 DEF Returned
  <2>. QED BY <1>4, <2>1, TypeDefDoes
<1>5. CASE rule = "program"
  <2>1. Returned(rule) = "program" BY <1>5 DEF Returned
  <2>. QED BY <1>5, <2>1, ProgramDoes
<1>. QED BY <1>1, <1>2, <1>3, <1>4, <1>5 DEF DefinitionRules

-----------------------------------------------------------------------------
(* Every step keeps the stacks balanced. *)

LEMMA Initially == Init => IInv
PROOF
<1>. SUFFICES ASSUME Init PROVE IInv OBVIOUS
<1>1. tokens \in Seq(Tokens) BY InputsAssumption DEF Init
<1>2. PICK k0, k1 : k0 = <<>> /\ k1 = <<"program">> OBVIOUS
<1>3. "program" \in Kinds /\ "program" \in ReturningRules /\ "program" \in ServesAs(Returned("program"))
  BY DEF Kinds, ReturningRules, Returned, ServesAs
<1>4. k0 \in Seq(Kinds) /\ k1 = Append(k0, "program") BY <1>2, Tuples
<1>5. Does(P("program"), k0, k1) BY <1>3, <1>4, Pushed, DoesParse
<1>6. IsSequence(todo) /\ Len(todo) = 1 /\ todo[1] = P("program") /\ DOMAIN todo = 1..1
  BY DEF Init, IsSequence, ToSet
<1>7. PICK h : h = <<k0, k1>> OBVIOUS
<1>8. h[1] = k0 /\ h[2] = k1 /\ DOMAIN h = 1..2 BY <1>7
<1>9. Follows({}, h, todo) BY <1>2, <1>5, <1>6, <1>8 DEF Follows, DoesAt
<1>10. OfKinds(values, h[1])
  <2>1. IsSequence(values) /\ Len(values) = 0 /\ Len(k0) = 0 /\ 1..0 = {} BY <1>2 DEF Init, IsSequence
  <2>2. \A t : Closed(t) => \A j \in 1..Len(k0) : values[j] \in ValuesOf(t, k0[j]) BY <2>1
  <2>. QED BY <1>4, <1>8, <2>1, <2>2 DEF OfKinds
<1>11. TypeOK
  <2>1. Len(tokens) \in Nat BY <1>1
  <2>2. P("program").op = "parse" BY DEF P
  <2>3. head = 0 /\ outcome = "parsing" BY DEF Init
  <2>. QED BY <1>6, <2>1, <2>2, <2>3 DEF TypeOK
<1>12. outcome # "parsed" BY DEF Init
<1>. QED BY <1>1, <1>6, <1>9, <1>10, <1>11, <1>12 DEF IInv, Balanced, Stands

LEMMA OpsOfTasks ==
  ASSUME NEW st, NEW k, NEW task, NEW ks, NEW ls, DoesAt(st, k, task, ks, ls)
  PROVE  task.op \in {"parse", "match", "take", "many", "list", "build", "tag"}
BY DEF Does, DoesAt

\* The first task, and what it does.
LEMMA TaskDoes ==
  ASSUME IInv, outcome = "parsing", todo # <<>>, NEW st, NEW h, Stands(st, h)
  PROVE  /\ Follows(st, h, todo) /\ OfKinds(values, h[1]) /\ DoesAt(st, 1, Task, h[1], h[2])
         /\ ~(Task.op = "parse" /\ Task.arg = "statement") => Does(Task, h[1], h[2])
         /\ "statement" \in st => StatementAhead
         /\ h[1] \in Seq(Kinds)
PROOF
<1>1. Follows(st, h, todo) /\ OfKinds(values, h[1]) /\ ("statement" \in st => StatementAhead)
  BY DEF Stands
<1>2. Len(todo) \in Nat /\ Len(todo) # 0 /\ Task = todo[1] BY SequenceBasics DEF IInv, Task
<1>3. DoesAt(st, 1, todo[1], h[1], h[1 + 1]) BY <1>1, <1>2 DEF Follows
<1>4. ~(Task.op = "parse" /\ Task.arg = "statement") => Does(Task, h[1], h[2]) BY <1>2, <1>3 DEF DoesAt
<1>. QED BY <1>1, <1>2, <1>3, <1>4 DEF OfKinds

\* A step that leaves new in the place of the first task keeps the
\* invariant, when new begins with the kinds of the new values.
LEMMA ContinuesFrom ==
  ASSUME IInv, outcome = "parsing", todo # <<>>, NEW st, NEW h, Follows(st, h, todo),
         NEW new, NEW ks, NEW su, ExpandsFrom(su, new, ks, h[2]), "statement" \in su => StatementAhead',
         todo' = new \o Tail(todo), OfKinds(values', ks),
         head' \in 0..Len(tokens), UNCHANGED <<tokens, outcome>>
  PROVE  IInv'
PROOF
<1>1. IsSequence(todo) BY DEF IInv
<1>2. PICK s, r : s = todo /\ r = todo' OBVIOUS
<1>3. IsSequence(s) /\ s # <<>> /\ Follows(st, h, s) /\ r = new \o Tail(s) BY <1>1, <1>2
<1>4. IsSequence(r) /\ Leads(su, ks, r) BY ONLY <1>3, ExpandsFrom(su, new, ks, h[2]), StackFollows
<1>5. PICK g : Follows(su, g, r) /\ g[1] = ks BY <1>4 DEF Leads
<1>6. Balanced' BY <1>2, <1>5 DEF Balanced, Stands
<1>7. \A i \in DOMAIN todo' : todo'[i].op \in {"parse", "match", "take", "many", "list", "build", "tag"}
  <2>1. DOMAIN todo' = 1..Len(todo') BY <1>2, <1>4, SequenceBasics
  <2>2. \A i \in 1..Len(todo') : DoesAt(su, i, todo'[i], g[i], g[i + 1]) BY <1>2, <1>5 DEF Follows
  <2>. QED BY <2>1, <2>2, OpsOfTasks
<1>8. TypeOK' BY <1>7 DEF TypeOK, IInv
<1>. QED BY <1>2, <1>4, <1>6, <1>8 DEF IInv

LEMMA Continues ==
  ASSUME IInv, outcome = "parsing", todo # <<>>, NEW st, NEW h, Follows(st, h, todo),
         NEW new, NEW ks, Expands(new, ks, h[2]), todo' = new \o Tail(todo), OfKinds(values', ks),
         head' \in 0..Len(tokens), UNCHANGED <<tokens, outcome>>
  PROVE  IInv'
PROOF
<1>1. PICK none : none = {} OBVIOUS
<1>2. ExpandsFrom(none, new, ks, h[2]) /\ "statement" \notin none BY <1>1, ExpandsAnywhere
<1>. QED BY <1>2, ContinuesFrom

\* A step that reads no value and leaves none.
LEMMA Replaces ==
  ASSUME IInv, outcome = "parsing", todo # <<>>, ~(Task.op = "parse" /\ Task.arg = "statement"),
         NEW new, Then(new),
         \A ks \in Seq(Kinds) : \A ls : Does(Task, ks, ls) => Expands(new, ks, ls),
         UNCHANGED <<source, tokens, head, values, outcome>>
  PROVE  IInv'
PROOF
<1>0. PICK st, h : Stands(st, h) BY DEF IInv, Balanced
<1>1. /\ Follows(st, h, todo) /\ OfKinds(values, h[1]) /\ Does(Task, h[1], h[2])
      /\ h[1] \in Seq(Kinds)
  BY <1>0, TaskDoes
<1>2. Expands(new, h[1], h[2]) BY <1>1
<1>3. OfKinds(values', h[1]) BY <1>1
<1>4. head' \in 0..Len(tokens) BY DEF IInv, TypeOK
<1>. QED BY <1>1, <1>2, <1>3, <1>4, Continues DEF Then

\* A step that leaves nothing to do, and replaces some values by one.
LEMMA Reduces ==
  ASSUME IInv, outcome = "parsing", todo # <<>>, Then(<<>>), NEW st, NEW h, Follows(st, h, todo),
         OfKinds(values', h[2]), head' \in 0..Len(tokens), UNCHANGED <<source, tokens, outcome>>
  PROVE  IInv'
BY ExpandsNone, Continues DEF Then

LEMMA Rejects ==
  ASSUME IInv, UNCHANGED <<source, tokens, head, todo, values>>, outcome' \in {"error", "undefined"}
  PROVE  IInv'
PROOF
<1>1. TypeOK' BY DEF IInv, TypeOK
<1>. QED BY <1>1 DEF IInv

\* What a rule does.
LEMMA RuleDoes ==
  ASSUME NEW task, task.op = "parse", NEW ks, NEW ls, Does(task, ks, ls)
  PROVE  ParseDoes(task.arg, ks, ls) /\ ks \in Seq(Kinds)
BY DEF Does

LEMMA ReturningDoes ==
  ASSUME NEW task, task.op = "parse", task.arg \in ReturningRules, NEW ks, NEW ls, Does(task, ks, ls)
  PROVE  Rewrites(ks, <<>>, ServesAs(Returned(task.arg)), ls)
PROOF
<1>1. task.arg \notin {"comma", "notint", "comparison"} BY DEF ReturningRules, ListRules
<1>. QED BY <1>1, RuleDoes DEF ParseDoes

LEMMA matchTokenKeeps ==
  ASSUME IInv, matchToken
  PROVE  IInv'
PROOF
<1>1. /\ outcome = "parsing" /\ todo # <<>> /\ Task.op \in {"match", "take"} /\ Then(<<>>)
      /\ nextToken.type = Task.arg /\ head' = head + 1 /\ UNCHANGED <<source, tokens, outcome>>
      /\ IF Task.op = "take" THEN Push(nextToken) ELSE UNCHANGED values
  BY DEF matchToken, At
<1>0. PICK st, h : Stands(st, h) BY <1>1 DEF IInv, Balanced
<1>2. /\ Follows(st, h, todo) /\ OfKinds(values, h[1]) /\ Does(Task, h[1], h[2])
      /\ h[1] \in Seq(Kinds)
  BY <1>1, <1>0, TaskDoes
<1>3. Task.arg \in TokenTypes BY <1>1, <1>2 DEF Does
<1>4. nextToken \in Tokens /\ head' \in 0..Len(tokens)
  <2>1. head \in 0..Len(tokens) /\ tokens \in Seq(Tokens) BY DEF IInv, TypeOK
  <2>2. head # Len(tokens)
    <3>1. None.type = "none" /\ "none" \notin TokenTypes BY DEF None, Token, TokenTypes
    <3>. QED BY <3>1, <1>1, <1>3 DEF nextToken
  <2>3. head + 1 \in 1..Len(tokens) BY <2>1, <2>2
  <2>4. nextToken = tokens[head + 1] BY <2>2 DEF nextToken
  <2>5. nextToken \in Tokens BY <2>1, <2>3, <2>4
  <2>. QED BY <2>3, <2>5, <1>1
<1>5. CASE Task.op = "match"
  <2>1. h[2] = h[1] BY <1>2, <1>5 DEF Does
  <2>2. OfKinds(values', h[2]) BY <2>1, <1>1, <1>2, <1>5
  <2>. QED BY <2>2, <1>1, <1>2, <1>4, Reduces
<1>6. CASE Task.op = "take"
  <2>1. Rewrites(h[1], <<>>, ServesAs("token"), h[2]) BY <1>2, <1>6 DEF Does, ServesAs
  <2>2. "token" \in Kinds /\ \A t : nextToken \in ValuesOf(t, "token") BY <1>4 DEF Kinds, ValuesOf
  <2>3. OfKinds(Append(values, nextToken), h[2]) BY <2>1, <2>2, <1>2, ValuePushed
  <2>4. OfKinds(values', h[2]) BY <2>3, <1>1, <1>6 DEF Push
  <2>. QED BY <2>4, <1>1, <1>2, <1>4, Reduces
<1>. QED BY <1>1, <1>5, <1>6

\* The empty list.
LEMMA StartListKeeps ==
  ASSUME IInv, StartList
  PROVE  IInv'
PROOF
<1>1. /\ outcome = "parsing" /\ todo # <<>> /\ Task.op = "list" /\ Then(<<>>)
      /\ values' = Append(values, <<>>) /\ UNCHANGED <<source, tokens, head, outcome>>
  BY DEF StartList, At, Push
<1>0. PICK st, h : Stands(st, h) BY <1>1 DEF IInv, Balanced
<1>2. /\ Follows(st, h, todo) /\ OfKinds(values, h[1]) /\ Does(Task, h[1], h[2])
      /\ h[1] \in Seq(Kinds)
  BY <1>1, <1>0, TaskDoes
<1>3. Rewrites(h[1], <<>>, ListKinds, h[2]) BY <1>1, <1>2 DEF Does
<1>4. PICK kind \in ListKinds : kind = h[2][Len(h[2])] BY <1>3 DEF Rewrites
<1>5. ServesAs(kind) = {kind} /\ kind \in Kinds BY DEF ListKinds, ServesAs, Kinds
<1>6. Rewrites(h[1], <<>>, ServesAs(kind), h[2]) BY <1>3, <1>4, <1>5 DEF Rewrites
<1>7. \A t : <<>> \in ValuesOf(t, kind) BY SequenceFacts DEF ListKinds, ValuesOf
<1>8. OfKinds(values', h[2]) BY <1>1, <1>2, <1>5, <1>6, <1>7, ValuePushed
<1>9. head' \in 0..Len(tokens) BY <1>1 DEF IInv, TypeOK
<1>. QED BY <1>1, <1>2, <1>8, <1>9, Reduces

LEMMA ListsKeep ==
  ASSUME IInv, GoOn \/ EndList \/ OptionalComma
  PROVE  IInv'
PROOF
<1>1. CASE GoOn
  <2>1. /\ outcome = "parsing" /\ todo # <<>> /\ Task.op = "many" /\ nextToken.type \in FirstOf(Task.arg)
        /\ Then(<<P(Task.arg), B(IF Task.arg = "field" THEN "name" ELSE "append")>>
                \o (IF Task.arg \in {"argument", "param"} THEN <<P("comma")>> ELSE <<>>)
                \o <<Task>>)
        /\ UNCHANGED <<source, tokens, head, values, outcome>>
    BY <1>1 DEF GoOn, At
  <2>0. PICK st, h : Stands(st, h) BY <2>1 DEF IInv, Balanced
  <2>2. /\ Follows(st, h, todo) /\ OfKinds(values, h[1]) /\ Does(Task, h[1], h[2])
        /\ h[1] \in Seq(Kinds)
    BY <2>1, <2>0, TaskDoes
  <2>3. Task.arg \in ListRules /\ TopIs(h[1], ListKind(Task.arg)) /\ h[2] = h[1] BY <2>1, <2>2 DEF Does
  <2>4. PICK element, comma, ks :
          /\ element = <<P(Task.arg), B(IF Task.arg = "field" THEN "name" ELSE "append")>>
          /\ comma = IF Task.arg \in {"argument", "param"} THEN <<P("comma")>> ELSE <<>>
          /\ ks = h[1]
    OBVIOUS
  <2>5. /\ ExpandsFrom({"statement"}, element, ks, ks)
        /\ Task.arg # "statement" => Expands(element, ks, ks)
        /\ Expands(comma, ks, ks)
    BY <2>2, <2>3, <2>4, GoOnParts
  <2>6. Expands(<<Task>>, ks, ks) BY <2>2, <2>3, <2>4, ExpandsOne
  <2>7. Then(element \o comma \o <<Task>>) BY <2>1, <2>4
  <2>8. OfKinds(values', ks) /\ head' \in 0..Len(tokens) BY <2>1, <2>2, <2>4 DEF IInv, TypeOK
  <2>9. CASE Task.arg # "statement"
    <3>1. Expands(element \o comma \o <<Task>>, ks, ks) BY <2>5, <2>6, <2>9, ExpandsConcat
    <3>. QED BY <3>1, <2>1, <2>2, <2>3, <2>4, <2>7, <2>8, Continues DEF Then
  <2>10. CASE Task.arg = "statement"
    <3>1. Task.arg \notin {"argument", "param"} BY <2>10
    <3>2. comma = <<>> BY <2>4, <3>1
    <3>3. IsSequence(element) /\ Len(element) = 2 BY <2>4 DEF IsSequence, ToSet
    <3>4. element # <<>> BY <3>3, SequenceBasics
    <3>5. element \o comma = element BY <3>2, <3>3 DEF IsSequence
    <3>6. ExpandsFrom({"statement"}, element \o <<Task>>, ks, ks) BY <2>5, <2>6, <3>4, ExpandsFromConcat
    <3>7. StatementAhead'
      BY <2>1, <2>10 DEF StatementAhead, nextToken
    <3>8. todo' = (element \o <<Task>>) \o Tail(todo) BY <2>7, <3>5 DEF Then
    <3>. QED BY <3>6, <3>7, <3>8, <2>1, <2>2, <2>3, <2>4, <2>8, ContinuesFrom
  <2>. QED BY <2>9, <2>10
<1>2. CASE EndList
  <2>1. /\ outcome = "parsing" /\ todo # <<>> /\ Task.op = "many" /\ Then(<<>>)
        /\ UNCHANGED <<source, tokens, head, values, outcome>>
    BY <1>2 DEF EndList, At
  <2>2. \A ks \in Seq(Kinds) : \A ls : Does(Task, ks, ls) => Expands(<<>>, ks, ls)
    BY <2>1, ExpandsNone DEF Does
  <2>. QED BY <2>1, <2>2, Replaces
<1>3. CASE OptionalComma
  <2>1. /\ outcome = "parsing" /\ todo # <<>> /\ Task.op = "parse" /\ Task.arg = "comma"
        /\ Then(IF nextToken.type = "Comma" THEN <<M("Comma")>> ELSE <<>>)
        /\ UNCHANGED <<source, tokens, head, values, outcome>>
    BY <1>3 DEF OptionalComma, Rule, At
  <2>2. ASSUME NEW ks \in Seq(Kinds), NEW ls, Does(Task, ks, ls)
        PROVE  Expands(IF nextToken.type = "Comma" THEN <<M("Comma")>> ELSE <<>>, ks, ls)
    <3>1. "comma" \notin ReturningRules BY DEF ReturningRules, ListRules
    <3>2. ls = ks BY <2>1, <2>2, <3>1, RuleDoes DEF ParseDoes
    <3>3. "Comma" \in TokenTypes BY DEF TokenTypes
    <3>4. Does(M("Comma"), ks, ks) BY <3>3, DoesMatch
    <3>5. Expands(<<M("Comma")>>, ks, ks) /\ Expands(<<>>, ks, ks) BY <3>4, ExpandsOne, ExpandsNone
    <3>. QED BY <3>2, <3>5
  <2>. QED BY <2>1, <2>2, Replaces
<1>. QED BY <1>1, <1>2, <1>3

LEMMA ExpressionsKeep ==
  ASSUME IInv, ParseChain \/ parseAFactor \/ parseAccessPath \/ parseRexpPrime1 \/ ParseComparison \/ AcceptType
  PROVE  IInv'
PROOF
<1>1. CASE ParseChain
  <2>1. /\ outcome = "parsing" /\ todo # <<>> /\ Task.op = "parse" /\ Task.arg \in {"aexp", "aterm", "rexp"}
        /\ Then(<<P(Operand(Task.arg)), P(Rest(Task.arg)), B("join")>>)
        /\ UNCHANGED <<source, tokens, head, values, outcome>>
    BY <1>1 DEF ParseChain, Rule, At
  <2>2. ASSUME NEW ks \in Seq(Kinds), NEW ls, Does(Task, ks, ls)
        PROVE  Expands(<<P(Operand(Task.arg)), P(Rest(Task.arg)), B("join")>>, ks, ls)
    <3>1. Task.arg \in ReturningRules BY <2>1 DEF ReturningRules
    <3>2. Rewrites(ks, <<>>, ServesAs(Returned(Task.arg)), ls) BY <2>1, <2>2, <3>1, ReturningDoes
    <3>. QED BY <2>1, <3>2, ChainDoes
  <2>. QED BY <2>1, <2>2, Replaces
<1>2. CASE parseAFactor
  <2>. DEFINE new ==
         CASE nextToken.type = "LParen" -> <<M("LParen"), P("aexp"), M("RParen")>>
           [] nextToken.type = "Num"    -> <<Take("Num"), B("int")>>
           [] nextToken.type = "Id"     -> <<P("path")>>
           [] nextToken.type = "Nil"    -> <<M("Nil"), B("nil")>>
           [] nextToken.type = "New"    -> <<M("New"), Take("Type"), P("notint"), B("new")>>
  <2>1. /\ outcome = "parsing" /\ todo # <<>> /\ Task.op = "parse" /\ Task.arg = "afactor"
        /\ nextToken.type \in FactorStarts /\ Then(new)
        /\ UNCHANGED <<source, tokens, head, values, outcome>>
    BY <1>2 DEF parseAFactor, Rule, At
  <2>2. ASSUME NEW ks \in Seq(Kinds), NEW ls, Does(Task, ks, ls)
        PROVE  Expands(new, ks, ls)
    <3>1. "afactor" \in ReturningRules /\ Returned("afactor") = "aexp" BY DEF ReturningRules, Returned
    <3>2. Rewrites(ks, <<>>, ServesAs("aexp"), ls) BY <2>1, <2>2, <3>1, ReturningDoes
    <3>3. CASE nextToken.type = "LParen" BY <3>2, <3>3, FactorDoes
    <3>4. CASE nextToken.type = "Num" BY <3>2, <3>4, FactorDoes
    <3>5. CASE nextToken.type = "Id" BY <3>2, <3>5, FactorDoes
    <3>6. CASE nextToken.type = "Nil" BY <3>2, <3>6, FactorDoes
    <3>7. CASE nextToken.type = "New" BY <3>2, <3>7, FactorDoes
    <3>. QED BY <2>1, <3>3, <3>4, <3>5, <3>6, <3>7 DEF FactorStarts
  <2>. HIDE DEF new
  <2>. QED BY <2>1, <2>2, Replaces
<1>3. CASE parseAccessPath
  <2>1. /\ outcome = "parsing" /\ todo # <<>> /\ Task.op = "parse" /\ Task.arg = "path"
        /\ Then(<<Take("Id")>> \o List("field") \o <<B("path")>>)
        /\ UNCHANGED <<source, tokens, head, values, outcome>>
    BY <1>3 DEF parseAccessPath, Rule, At
  <2>2. ASSUME NEW ks \in Seq(Kinds), NEW ls, Does(Task, ks, ls)
        PROVE  Expands(<<Take("Id")>> \o List("field") \o <<B("path")>>, ks, ls)
    <3>1. "path" \in ReturningRules /\ Returned("path") = "path" BY DEF ReturningRules, Returned
    <3>2. Rewrites(ks, <<>>, ServesAs("path"), ls) BY <2>1, <2>2, <3>1, ReturningDoes
    <3>. QED BY <3>2, PathDoes
  <2>. QED BY <2>1, <2>2, Replaces
<1>4. CASE parseRexpPrime1
  <2>. DEFINE new ==
         CASE nextToken.type = "LNeg"     -> <<M("LNeg"), P("rexp"), B("not")>>
           [] nextToken.type = "LBracket" -> <<M("LBracket"), P("rexp"), M("RBracket")>>
           [] OTHER                       -> <<P("aexp"), P("comparison")>>
  <2>1. /\ outcome = "parsing" /\ todo # <<>> /\ Task.op = "parse" /\ Task.arg = "rexp1" /\ Then(new)
        /\ UNCHANGED <<source, tokens, head, values, outcome>>
    BY <1>4 DEF parseRexpPrime1, Rule, At
  <2>2. ASSUME NEW ks \in Seq(Kinds), NEW ls, Does(Task, ks, ls)
        PROVE  Expands(new, ks, ls)
    <3>1. "rexp1" \in ReturningRules /\ Returned("rexp1") = "rexp" BY DEF ReturningRules, Returned
    <3>2. Rewrites(ks, <<>>, ServesAs("rexp"), ls) BY <2>1, <2>2, <3>1, ReturningDoes
    <3>3. CASE nextToken.type = "LNeg" BY <3>2, <3>3, RelationDoes
    <3>4. CASE nextToken.type = "LBracket" BY <3>2, <3>4, RelationDoes
    <3>5. CASE nextToken.type \notin {"LNeg", "LBracket"} BY <3>2, <3>5, RelationDoes
    <3>. QED BY <3>3, <3>4, <3>5
  <2>. HIDE DEF new
  <2>. QED BY <2>1, <2>2, Replaces
<1>5. CASE ParseComparison
  <2>1. /\ outcome = "parsing" /\ todo # <<>> /\ Task.op = "parse" /\ Task.arg = "comparison"
        /\ nextToken.s \in RelationalOps /\ Then(<<M("RelOp"), P("aexp"), B(nextToken.s)>>)
        /\ UNCHANGED <<source, tokens, head, values, outcome>>
    BY <1>5 DEF ParseComparison, Rule, At, NextIsOperator
  <2>2. ASSUME NEW ks \in Seq(Kinds), NEW ls, Does(Task, ks, ls)
        PROVE  Expands(<<M("RelOp"), P("aexp"), B(nextToken.s)>>, ks, ls)
    <3>1. "comparison" \notin ReturningRules BY DEF ReturningRules, ListRules
    <3>2. Rewrites(ks, <<"aexp">>, {"rexp"}, ls) BY <2>1, <2>2, <3>1, RuleDoes DEF ParseDoes
    <3>. QED BY <2>1, <3>2, ComparisonDoes
  <2>. QED BY <2>1, <2>2, Replaces
<1>6. CASE AcceptType
  <2>1. /\ outcome = "parsing" /\ todo # <<>> /\ Task.op = "parse" /\ Task.arg = "notint" /\ Then(<<>>)
        /\ UNCHANGED <<source, tokens, head, values, outcome>>
    BY <1>6 DEF AcceptType, Rule, At
  <2>2. ASSUME NEW ks \in Seq(Kinds), NEW ls, Does(Task, ks, ls)
        PROVE  Expands(<<>>, ks, ls)
    <3>1. "notint" \notin ReturningRules BY DEF ReturningRules, ListRules
    <3>2. ls = ks BY <2>1, <2>2, <3>1, RuleDoes DEF ParseDoes
    <3>. QED BY <3>2, ExpandsNone
  <2>. QED BY <2>1, <2>2, Replaces
<1>. QED BY <1>1, <1>2, <1>3, <1>4, <1>5, <1>6

\* The end of a chain is a value of its own.
LEMMA ParseRestKeeps ==
  ASSUME IInv, ParseRest
  PROVE  IInv'
PROOF
<1>1. /\ outcome = "parsing" /\ todo # <<>> /\ Task.op = "parse" /\ Task.arg \in {"aexp'", "aterm'", "rexp'"}
      /\ UNCHANGED <<source, tokens, head, outcome>>
      /\ IF NextIsOperator(LinkOps(Task.arg))
         THEN Then(Link(nextToken.s, Task.arg)) /\ UNCHANGED values
         ELSE Then(<<>>) /\ Push(NoRest)
  BY DEF ParseRest, Rule, At
<1>2. Task.arg \in ReturningRules BY <1>1 DEF ReturningRules
<1>3. CASE NextIsOperator(LinkOps(Task.arg))
  <2>1. nextToken.s \in LinkOps(Task.arg) /\ nextToken.type \in TokenTypes
    BY <1>3 DEF NextIsOperator, TokenTypes
  <2>2. ASSUME NEW ks \in Seq(Kinds), NEW ls, Does(Task, ks, ls)
        PROVE  Expands(Link(nextToken.s, Task.arg), ks, ls)
    <3>1. Rewrites(ks, <<>>, ServesAs(Returned(Task.arg)), ls) BY <1>1, <1>2, <2>2, ReturningDoes
    <3>. QED BY <1>1, <2>1, <3>1, LinkDoes DEF Link
  <2>. QED BY <1>1, <1>3, <2>2, Replaces
<1>4. CASE ~NextIsOperator(LinkOps(Task.arg))
  <2>0. PICK st, h : Stands(st, h) BY <1>1 DEF IInv, Balanced
  <2>1. /\ Follows(st, h, todo) /\ OfKinds(values, h[1]) /\ Does(Task, h[1], h[2])
        /\ h[1] \in Seq(Kinds)
    BY <1>1, <2>0, TaskDoes
  <2>2. Rewrites(h[1], <<>>, ServesAs(Returned(Task.arg)), h[2]) BY <1>1, <1>2, <2>1, ReturningDoes
  <2>3. PICK kind \in {"arest", "rrest"} : kind = Returned(Task.arg) BY <1>1 DEF Returned
  <2>4. kind \in Kinds /\ \A t : NoRest \in ValuesOf(t, kind) BY DEF Kinds, ValuesOf, RestOf
  <2>5. OfKinds(Append(values, NoRest), h[2]) BY <2>1, <2>2, <2>3, <2>4, ValuePushed
  <2>6. head' \in 0..Len(tokens) /\ Then(<<>>) /\ values' = Append(values, NoRest)
    BY <1>1, <1>4 DEF IInv, TypeOK, Push
  <2>. QED BY <1>1, <2>1, <2>5, <2>6, Reduces
<1>. QED BY <1>3, <1>4

LEMMA TagRestKeeps ==
  ASSUME IInv, TagRest
  PROVE  IInv'
PROOF
<1>1. /\ outcome = "parsing" /\ todo # <<>> /\ Task.op = "tag" /\ Then(<<>>)
      /\ values' = Append(Front(values), [op |-> "rest", link |-> Task.arg, tree |-> Top])
      /\ UNCHANGED <<source, tokens, head, outcome>>
  BY DEF TagRest, At
<1>0. PICK st, h : Stands(st, h) BY <1>1 DEF IInv, Balanced
<1>2. /\ Follows(st, h, todo) /\ OfKinds(values, h[1]) /\ Does(Task, h[1], h[2])
      /\ h[1] \in Seq(Kinds)
  BY <1>1, <1>0, TaskDoes
<1>3. TagDoes(Task.arg, h[1], h[2]) BY <1>1, <1>2 DEF Does
<1>4. ASSUME NEW kind \in {"aexp", "rexp"}, NEW rest \in {"arest", "rrest"},
             Rewrites(h[1], <<kind>>, {rest}, h[2]),
             \A t : \A v \in ValuesOf(t, kind) :
                 [op |-> "rest", link |-> Task.arg, tree |-> v] \in ValuesOf(t, rest)
      PROVE  IInv'
  <2>1. PICK p : p = <<kind>> OBVIOUS
  <2>2. p \in Seq(Kinds) /\ Len(p) = 1 /\ p[1] = kind BY <2>1 DEF Kinds
  <2>3. ServesAs(rest) = {rest} /\ rest \in Kinds BY DEF ServesAs, Kinds
  <2>4. Rewrites(h[1], p, ServesAs(rest), h[2]) BY <1>4, <2>1, <2>3
  <2>5. /\ IsSequence(values) /\ Len(values) = Len(h[1]) /\ Len(h[1]) \in Nat /\ 1 <= Len(h[1])
        /\ h[1][Len(h[1])] = kind
    <3>1. /\ IsSequence(values) /\ Len(values) = Len(h[1]) /\ Len(h[1]) \in Nat
      BY <1>2 DEF OfKinds
    <3>2. 1 <= Len(h[1]) /\ \A j \in 1..1 : h[1][Len(h[1]) - 1 + j] = p[j] BY <2>2, <2>4 DEF Rewrites
    <3>3. h[1][Len(h[1]) - 1 + 1] = kind BY <2>2, <3>2
    <3>. QED BY <3>1, <3>2, <3>3
  <2>6. \A t : Closed(t) => values[Len(values)] \in ValuesOf(t, kind)
    BY <1>2, <2>5 DEF OfKinds
  <2>7. Top = values[Len(values)] /\ Front(values) = SubSeq(values, 1, Len(values) - Len(p))
    BY <2>2 DEF Top, Last, Front
  <2>8. \A t : Closed(t) => [op |-> "rest", link |-> Task.arg, tree |-> Top] \in ValuesOf(t, rest)
    BY <1>4, <2>6, <2>7
  <2>9. OfKinds(values', h[2]) BY <1>1, <1>2, <2>2, <2>3, <2>4, <2>7, <2>8, ValuesRewritten
  <2>10. head' \in 0..Len(tokens) BY <1>1 DEF IInv, TypeOK
  <2>. QED BY <1>1, <1>2, <2>9, <2>10, Reduces
<1>5. CASE Task.arg \in ArithmeticOps /\ Rewrites(h[1], <<"aexp">>, {"arest"}, h[2])
  <2>1. \A t : \A v \in ValuesOf(t, "aexp") :
           [op |-> "rest", link |-> Task.arg, tree |-> v] \in ValuesOf(t, "arest")
    BY <1>5 DEF ValuesOf, RestOf
  <2>. QED BY <1>4, <1>5, <2>1
<1>6. CASE Task.arg \in LogicalOps /\ Rewrites(h[1], <<"rexp">>, {"rrest"}, h[2])
  <2>1. \A t : \A v \in ValuesOf(t, "rexp") :
           [op |-> "rest", link |-> Task.arg, tree |-> v] \in ValuesOf(t, "rrest")
    BY <1>6 DEF ValuesOf, RestOf
  <2>. QED BY <1>4, <1>6, <2>1
<1>. QED BY <1>3, <1>5, <1>6 DEF TagDoes

\* The right hand side of an assignment, the token behind it read or not.
LEMMA RightHandSideKeeps ==
  ASSUME IInv, Rule({"rhs"}), NEW rule \in {"call", "aexp"}, ParseRightHandSide(rule)
  PROVE  IInv'
PROOF
<1>1. /\ outcome = "parsing" /\ todo # <<>> /\ Task.op = "parse" /\ Task.arg = "rhs" /\ Then(<<P(rule)>>)
      /\ UNCHANGED <<source, tokens, head, values, outcome>>
  BY DEF Rule, At, ParseRightHandSide
<1>2. ASSUME NEW ks \in Seq(Kinds), NEW ls, Does(Task, ks, ls)
      PROVE  Expands(<<P(rule)>>, ks, ls)
  <2>1. /\ "rhs" \in ReturningRules /\ Returned("rhs") = "rhs" /\ rule \in ReturningRules
        /\ ServesAs("rhs") \subseteq ServesAs(Returned(rule))
    BY DEF ReturningRules, Returned, ServesAs
  <2>2. Rewrites(ks, <<>>, ServesAs("rhs"), ls) BY <1>1, <1>2, <2>1, ReturningDoes
  <2>. QED BY <2>1, <2>2, DelegateDoes
<1>. QED BY <1>1, <1>2, Replaces

LEMMA LookAheadKeeps ==
  ASSUME IInv, LookAhead \/ LookPastEnd
  PROVE  IInv'
PROOF
<1>1. CASE LookAhead
  <2>1. PICK rule \in {"call", "aexp"} : ParseRightHandSide(rule) BY <1>1 DEF LookAhead
  <2>2. Rule({"rhs"}) BY <1>1 DEF LookAhead
  <2>. QED BY <2>1, <2>2, RightHandSideKeeps
<1>2. CASE LookPastEnd
  <2>1. Rule({"rhs"}) BY <1>2 DEF LookPastEnd
  <2>2. CASE \E rule \in {"call", "aexp"} : ParseRightHandSide(rule) BY <2>1, <2>2, RightHandSideKeeps
  <2>3. CASE outcome' = "undefined" /\ UNCHANGED <<source, tokens, head, todo, values>>
    BY <2>3, Rejects
  <2>. QED BY <1>2, <2>2, <2>3 DEF LookPastEnd
<1>. QED BY <1>1, <1>2

\* The loop has seen the token a statement begins with.
LEMMA StatementDoes ==
  ASSUME IInv, Rule({"statement"})
  PROVE  StatementAhead
PROOF
<1>1. outcome = "parsing" /\ todo # <<>> /\ Task.op = "parse" /\ Task.arg = "statement" BY DEF Rule, At
<1>0. PICK st, h : Stands(st, h) BY <1>1 DEF IInv, Balanced
<1>2. /\ DoesAt(st, 1, Task, h[1], h[2])
      /\ "statement" \in st => StatementAhead
  BY <1>1, <1>0, TaskDoes
<1>3. ~Does(Task, h[1], h[2])
  <2>1. "statement" \notin ReturningRules BY DEF ReturningRules, ListRules
  <2>. QED BY <1>1, <2>1, RuleDoes DEF ParseDoes
<1>. QED BY <1>1, <1>2, <1>3 DEF DoesAt

LEMMA ParseStatementKeeps ==
  ASSUME IInv, ParseStatement
  PROVE  IInv'
PROOF
<1>. DEFINE new ==
       CASE Task.arg = "statement" -> StatementTasks
         [] Task.arg = "block" -> List("declaration") \o List("statement") \o <<B("block")>>
         [] Task.arg = "else" -> IF nextToken.type = "Else" THEN <<M("Else")>> \o Branch
                                 ELSE <<B("noelse")>>
<1>1. /\ outcome = "parsing" /\ todo # <<>> /\ Task.op = "parse" /\ Task.arg \in StatementRules /\ Then(new)
      /\ UNCHANGED <<source, tokens, head, values, outcome>>
  BY DEF ParseStatement, Rule, At
<1>2. CASE Task.arg = "statement"
  <2>1. StatementAhead BY <1>2, StatementDoes DEF ParseStatement, Rule, At
  <2>0. PICK st, h : Stands(st, h) BY <1>1 DEF IInv, Balanced
  <2>2. /\ Follows(st, h, todo) /\ OfKinds(values, h[1]) /\ DoesAt(st, 1, Task, h[1], h[2])
        /\ h[1] \in Seq(Kinds)
    BY <1>1, <2>0, TaskDoes
  <2>3. ServesAs("statement") = {"statement"} BY DEF ServesAs
  <2>4. Rewrites(h[1], <<>>, ServesAs("statement"), h[2])
    <3>1. "statement" \notin ReturningRules BY DEF ReturningRules, ListRules
    <3>2. ~Does(Task, h[1], h[2]) BY <1>1, <1>2, <3>1, RuleDoes DEF ParseDoes
    <3>. QED BY <2>2, <2>3, <3>2 DEF DoesAt
  <2>5. nextToken.type \in {"Id", "While", "If"} BY <2>1 DEF StatementAhead, FirstOf
  <2>6. Expands(new, h[1], h[2])
    <3>1. CASE nextToken.type = "While" BY <1>2, <2>2, <2>4, <3>1, WhileDoes DEF StatementTasks
    <3>2. CASE nextToken.type = "If" BY <1>2, <2>2, <2>4, <3>2, IfDoes DEF StatementTasks
    <3>3. CASE nextToken.type = "Id" BY <1>2, <2>2, <2>4, <3>3, AssignDoes DEF StatementTasks
    <3>. QED BY <2>5, <3>1, <3>2, <3>3
  <2>. HIDE DEF new
  <2>7. OfKinds(values', h[1]) /\ head' \in 0..Len(tokens) BY <1>1, <2>2 DEF IInv, TypeOK
  <2>. QED BY <1>1, <2>2, <2>6, <2>7, Continues DEF Then
<1>3. CASE Task.arg # "statement"
  <2>1. ASSUME NEW ks \in Seq(Kinds), NEW ls, Does(Task, ks, ls)
        PROVE  Expands(new, ks, ls)
    <3>1. Task.arg \in {"block", "else"} /\ Task.arg \in ReturningRules
      BY <1>1, <1>3 DEF ReturningRules, StatementRules
    <3>2. Rewrites(ks, <<>>, ServesAs(Returned(Task.arg)), ls) BY <1>1, <2>1, <3>1, ReturningDoes
    <3>3. Returned(Task.arg) = "block" BY <3>1 DEF Returned
    <3>. QED BY <3>1, <3>2, <3>3, BlockDoes
  <2>. HIDE DEF new
  <2>. QED BY <1>1, <1>3, <2>1, Replaces
<1>. QED BY <1>2, <1>3

LEMMA parseFunCallKeeps ==
  ASSUME IInv, parseFunCall
  PROVE  IInv'
PROOF
<1>. DEFINE new ==
       IF Task.arg = "argument" THEN <<P("aexp")>>
       ELSE <<Take("Id"), M("LParen")>> \o List("argument") \o <<M("RParen"), B("call")>>
<1>1. /\ outcome = "parsing" /\ todo # <<>> /\ Task.op = "parse" /\ Task.arg \in {"call", "argument"}
      /\ Then(new) /\ UNCHANGED <<source, tokens, head, values, outcome>>
  BY DEF parseFunCall, Rule, At
<1>2. ASSUME NEW ks \in Seq(Kinds), NEW ls, Does(Task, ks, ls)
      PROVE  Expands(new, ks, ls)
  <2>1. Task.arg \in ReturningRules BY <1>1 DEF ReturningRules, ListRules
  <2>2. Rewrites(ks, <<>>, ServesAs(Returned(Task.arg)), ls) BY <1>1, <1>2, <2>1, ReturningDoes
  <2>3. CASE Task.arg = "call"
    <3>1. Returned(Task.arg) = "rhs" BY <2>3 DEF Returned
    <3>. QED BY <2>2, <2>3, <3>1, CallDoes
  <2>4. CASE Task.arg = "argument"
    <3>1. /\ Returned(Task.arg) = "aexp" /\ "aexp" \in ReturningRules /\ Returned("aexp") = "aexp"
      BY <2>4 DEF Returned, ReturningRules
    <3>. QED BY <2>2, <2>4, <3>1, DelegateDoes
  <2>. QED BY <1>1, <2>3, <2>4
<1>. HIDE DEF new
<1>. QED BY <1>1, <1>2, Replaces

LEMMA ParseDefinitionKeeps ==
  ASSUME IInv, ParseDefinition
  PROVE  IInv'
PROOF
<1>1. /\ outcome = "parsing" /\ todo # <<>> /\ Task.op = "parse" /\ Task.arg \in DefinitionRules
      /\ Then(DefinitionTasks(Task.arg)) /\ UNCHANGED <<source, tokens, head, values, outcome>>
  BY DEF ParseDefinition, Rule, At
<1>0. Task.arg # "statement" BY <1>1 DEF DefinitionRules
<1>2. ASSUME NEW ks \in Seq(Kinds), NEW ls, Does(Task, ks, ls)
      PROVE  Expands(DefinitionTasks(Task.arg), ks, ls)
  <2>1. Task.arg \in ReturningRules BY <1>1 DEF ReturningRules, ListRules, DefinitionRules
  <2>2. Rewrites(ks, <<>>, ServesAs(Returned(Task.arg)), ls) BY <1>1, <1>2, <2>1, ReturningDoes
  <2>. QED BY <1>1, <2>2, DefinitionDoes
<1>. QED BY <1>0, <1>1, <1>2, Replaces

\* The values on top are the parts of the node.
LEMMA PartsOnTop ==
  ASSUME NEW vs, NEW ks, OfKinds(vs, ks), NEW sig \in Signatures, NEW ls,
         Rewrites(ks, sig.parts, ServesAs(sig.kind), ls), NEW n, n = Len(vs) - Arity(sig.node)
  PROVE  OfKinds(Append(SubSeq(vs, 1, n), Node(sig.node, SubSeq(vs, n + 1, Len(vs)))), ls)
PROOF
<1>1. PICK parts, v : parts = sig.parts /\ v = SubSeq(vs, n + 1, Len(vs)) OBVIOUS
<1>2. parts \in Seq(Kinds) /\ Len(parts) \in Nat BY <1>1, SignatureParts
<1>3. n = Len(vs) - Len(parts) /\ sig.kind \in Kinds BY <1>1, SignatureArity
<1>4. /\ IsSequence(vs) /\ Len(vs) = Len(ks) /\ Len(ks) \in Nat /\ Len(parts) <= Len(ks)
      /\ \A j \in 1..Len(parts) : ks[Len(ks) - Len(parts) + j] = parts[j]
  <2>1. Rewrites(ks, parts, ServesAs(sig.kind), ls) BY <1>1
  <2>2. IsSequence(vs) /\ Len(vs) = Len(ks) /\ Len(ks) \in Nat BY DEF OfKinds
  <2>3. Len(parts) <= Len(ks) /\ \A j \in 1..Len(parts) : ks[Len(ks) - Len(parts) + j] = parts[j]
    BY ONLY <2>1 DEF Rewrites
  <2>. QED BY ONLY <2>2, <2>3
<1>5. /\ n + 1 \in 1..(Len(vs) + 1) /\ Len(vs) \in 0..Len(vs) /\ n + 1 <= Len(vs) + 1
      /\ Len(vs) - (n + 1) + 1 = Len(parts)
  BY <1>2, <1>3, <1>4
<1>6. \A j \in 1..Len(parts) : v[j] = vs[n + j]
  <2>1. \A j \in 1..(Len(vs) - (n + 1) + 1) : v[j] = vs[(n + 1) + j - 1]
    BY <1>1, <1>4, <1>5, SubSequence
  <2>2. n \in Int /\ \A j \in 1..Len(parts) : (n + 1) + j - 1 = n + j BY <1>2, <1>3, <1>4
  <2>. QED BY ONLY <2>1, <2>2, <1>5
<1>7. ASSUME NEW t, Closed(t) PROVE Node(sig.node, v) \in ValuesOf(t, sig.kind)
  <2>1. ASSUME NEW j \in 1..Len(parts) PROVE v[j] \in ValuesOf(t, parts[j])
    <3>1. PICK i : i = n + j OBVIOUS
    <3>2. i \in 1..Len(ks) /\ ks[i] = parts[j] BY <3>1, <1>2, <1>3, <1>4
    <3>3. vs[i] \in ValuesOf(t, ks[i]) BY <3>2, <1>7 DEF OfKinds
    <3>. QED BY <3>1, <3>2, <3>3, <1>6
  <2>. QED BY <2>1, <1>1, <1>7, NodeBuilt
<1>8. OfKinds(Append(SubSeq(vs, 1, Len(vs) - Len(parts)), Node(sig.node, v)), ls)
  BY <1>1, <1>2, <1>3, <1>7, ValuesRewritten
<1>. QED BY <1>1, <1>3, <1>8

LEMMA BuildNodeKeeps ==
  ASSUME IInv, BuildNode
  PROVE  IInv'
PROOF
<1>1. /\ outcome = "parsing" /\ todo # <<>> /\ Task.op = "build" /\ Then(<<>>)
      /\ UNCHANGED <<source, tokens, head, outcome>>
  BY DEF BuildNode, At
<1>0. PICK st, h : Stands(st, h) BY <1>1 DEF IInv, Balanced
<1>2. /\ Follows(st, h, todo) /\ OfKinds(values, h[1]) /\ Does(Task, h[1], h[2])
      /\ h[1] \in Seq(Kinds)
  BY <1>1, <1>0, TaskDoes
<1>3. PICK sig \in Signatures : Task.arg = sig.node /\ Rewrites(h[1], sig.parts, ServesAs(sig.kind), h[2])
  BY <1>1, <1>2 DEF Does, BuildDoes
<1>4. PICK n, vs : n = Len(values) - Arity(sig.node) /\ vs = values OBVIOUS
<1>5. values' = Append(SubSeq(vs, 1, n), Node(sig.node, SubSeq(vs, n + 1, Len(vs))))
  BY <1>3, <1>4 DEF BuildNode
<1>6. OfKinds(Append(SubSeq(vs, 1, n), Node(sig.node, SubSeq(vs, n + 1, Len(vs)))), h[2])
  BY <1>2, <1>3, <1>4, PartsOnTop
<1>7. OfKinds(values', h[2]) BY <1>5, <1>6
<1>8. head' \in 0..Len(tokens) BY <1>1 DEF IInv, TypeOK
<1>. QED BY <1>1, <1>2, <1>7, <1>8, Reduces

LEMMA FinishKeeps ==
  ASSUME IInv, Finish
  PROVE  IInv'
PROOF
<1>1. /\ outcome = "parsing" /\ todo = <<>> /\ outcome' = "parsed"
      /\ UNCHANGED <<source, tokens, head, todo, values>>
  BY DEF Finish
<1>2. PICK st, h : Stands(st, h) BY <1>1 DEF IInv, Balanced
<1>9. Follows(st, h, todo) /\ OfKinds(values, h[1]) BY <1>2 DEF Stands
<1>3. Len(todo) = 0 BY <1>1
<1>4. h[1] = <<"program">> BY <1>9, <1>3 DEF Follows
<1>5. PICK p : p = <<"program">> OBVIOUS
<1>6. Len(p) = 1 /\ OfKinds(values, p) BY <1>9, <1>4, <1>5
<1>7. Len(values) = 1 BY <1>6 DEF OfKinds
<1>8. TypeOK' BY <1>1, <1>7 DEF IInv, TypeOK
<1>. QED BY <1>1, <1>5, <1>6, <1>8 DEF IInv

LEMMA StepKeeps == IInv /\ [Next]_vars => IInv'
PROOF
<1>. SUFFICES ASSUME IInv, [Next]_vars PROVE IInv' OBVIOUS
<1>1. CASE UNCHANGED vars BY <1>1 DEF vars, IInv, TypeOK, Balanced, Stands, StatementAhead, nextToken
<1>2. CASE Step
  <2>1. CASE MismatchedToken \/ RejectExpression BY <2>1, Rejects DEF MismatchedToken, RejectExpression, Reject
  <2>. QED
    BY <1>2, <2>1, matchTokenKeeps, StartListKeeps, ListsKeep, ExpressionsKeep, ParseRestKeeps, TagRestKeeps,
       LookAheadKeeps, ParseStatementKeeps, parseFunCallKeeps, ParseDefinitionKeeps, BuildNodeKeeps, FinishKeeps
    DEF Step
<1>. QED BY <1>1, <1>2 DEF Next, Ended

LEMMA Invariance == Spec => []IInv
PROOF
<1>. QED BY Initially, StepKeeps, PTL DEF Spec

-----------------------------------------------------------------------------
(* Theorems. *)

\* Of every sequence of tokens: no token behind the last is matched, and a
\* parse that succeeds leaves one value, the tree, none lost and none over.
THEOREM TypeCorrect == Spec => []TypeOK
PROOF
<1>1. IInv => TypeOK BY DEF IInv
<1>. QED BY <1>1, Invariance, PTL

\* What parse() returns is a tree of a program: every node of it has been
\* built from parts of the kinds its constructor takes.
ReturnsProgram == outcome = "parsed" => \A t : Closed(t) => values[1] \in ProgramTrees(t)

THEOREM ParseReturnsProgram == Spec => []ReturnsProgram
PROOF
<1>1. ASSUME IInv, outcome = "parsed", NEW t, Closed(t) PROVE values[1] \in ProgramTrees(t)
  <2>1. PICK p : p = <<"program">> OBVIOUS
  <2>2. OfKinds(values, p) /\ Len(p) = 1 /\ p[1] = "program" BY <1>1, <2>1 DEF IInv
  <2>3. values[1] \in ValuesOf(t, p[1]) BY <1>1, <2>2 DEF OfKinds
  <2>. QED BY <2>2, <2>3 DEF ValuesOf
<1>2. IInv => ReturnsProgram BY <1>1 DEF ReturnsProgram
<1>. QED BY <1>2, Invariance, PTL

LEMMA PartsThere ==
  ASSUME IInv, At("build")
  PROVE  Arity(Task.arg) \in Nat /\ Arity(Task.arg) <= Len(values)
PROOF
<1>1. outcome = "parsing" /\ todo # <<>> /\ Task.op = "build" BY DEF At
<1>2. PICK st, h : Stands(st, h) BY <1>1 DEF IInv, Balanced
<1>3. OfKinds(values, h[1]) /\ Does(Task, h[1], h[2]) BY <1>1, <1>2, TaskDoes
<1>4. PICK sig \in Signatures : Task.arg = sig.node /\ Rewrites(h[1], sig.parts, ServesAs(sig.kind), h[2])
  BY <1>1, <1>3 DEF Does, BuildDoes
<1>5. Arity(Task.arg) = Len(sig.parts) /\ sig.parts \in Seq(Kinds) BY <1>4, SignatureArity, SignatureParts
<1>. QED BY <1>3, <1>4, <1>5 DEF OfKinds, Rewrites

\* No method builds a node before the methods it has called have returned
\* the parts of the node.
PartsAreThere == At("build") => Arity(Task.arg) <= Len(values)

THEOREM NoPartMissing == Spec => []PartsAreThere
PROOF
<1>1. IInv => PartsAreThere BY PartsThere DEF PartsAreThere
<1>. QED BY <1>1, Invariance, PTL

\* parseStatementP never reaches the exception at its end: the loop that
\* calls it has seen one of the tokens it asks for.
StatementBegins == Rule({"statement"}) => nextToken.type \in {"Id", "While", "If"}

THEOREM NoStatementRefused == Spec => []StatementBegins
PROOF
<1>1. IInv => StatementBegins BY StatementDoes DEF StatementBegins, StatementAhead, FirstOf
<1>. QED BY <1>1, Invariance, PTL

-----------------------------------------------------------------------------
(* What the tasks do to the stack of values and the place in the tokens, as *)
(* seen from their end: a method that is called leaves a phrase.            *)

\* The stack s with x on top.
Onto(s, x) == Append(s, x)

PhraseRules == {"path", "aexp", "aterm", "afactor", "rexp", "rexp1", "call", "statement", "block", "else",
                "declaration", "param", "fundef", "typedef", "program", "argument", "rhs"}

Phrases(d, rule) ==
  CASE rule = "argument" -> d["aexp"]
    [] rule = "rhs" -> d["aexp"] \cup d["call"]
    [] OTHER -> d[rule]

\* The lists of the phrases of a rule.
ListsOf(d, rule) ==
  CASE rule = "field" -> d["fields"]
    [] rule = "declaration" -> d["declarations"]
    [] rule = "param" -> d["params"]
    [] rule = "statement" -> d["statements"]
    [] rule = "argument" -> d["arguments"]
    [] rule = "typedef" -> d["typedefs"]
    [] rule = "fundef" -> d["fundefs"]

RestRules == {"aexp'", "aterm'", "rexp'"}
Chained(rule) == CASE rule = "aexp'" -> "aexp" [] rule = "aterm'" -> "aterm" [] rule = "rexp'" -> "conditions"

\* r is the rest of a chain, from a to b.
RestSpelled(ts, d, rule, r, a, b) ==
  \/ r = NoRest /\ b = a
  \/ /\ r.op = "rest" /\ IsOperator(ts, a + 1, LinkOps(rule)) /\ r.link = TokenAt(ts, a + 1).s
     /\ Phrase(r.tree, a + 1, b) \in d[Chained(rule)]

ParsePerforms(ts, d, rule, s, a, t, b) ==
  \/ rule \in PhraseRules /\ \E x : t = Onto(s, x) /\ Phrase(x, a, b) \in Phrases(d, rule)
  \/ rule = "field" /\ \E x : t = Onto(s, x) /\ Phrase(x.s, a, b) \in d["field"]
  \/ rule \in RestRules /\ \E r : t = Onto(s, r) /\ RestSpelled(ts, d, rule, r, a, b)
  \/ /\ rule = "comparison" /\ IsOperator(ts, a + 1, RelationalOps)
     /\ \E u, l, r : /\ IsSequence(u) /\ s = Onto(u, l) /\ Phrase(r, a + 1, b) \in d["aexp"]
                     /\ t = Onto(u, Binary(TokenAt(ts, a + 1).s, l, r))
  \/ rule = "comma" /\ t = s /\ (b = a \/ (Is(ts, a + 1, "Comma") /\ b = a + 1))
  \/ rule = "notint" /\ t = s /\ b = a /\ Last(s).s # "int"

\* A list is made longer, whatever it held before.
ManyPerforms(d, rule, s, a, t, b) ==
  \A u, l : IsSequence(u) /\ s = Onto(u, l) =>
    \E m : /\ t = Onto(u, m)
           /\ \A o : Phrase(l, o, a) \in ListsOf(d, rule) => Phrase(m, o, b) \in ListsOf(d, rule)

\* us[0] are the values below the parts v of the node, us[k] has k of them.
BuildPerforms(node, s, t) ==
  \E us, v : /\ IsSequence(us[0]) /\ s = us[Arity(node)] /\ t = Onto(us[0], Node(node, v))
             /\ \A k \in 1..Arity(node) : us[k] = Onto(us[k - 1], v[k])

TagPerforms(op, s, t) ==
  \E u, x : IsSequence(u) /\ s = Onto(u, x) /\ t = Onto(u, [op |-> "rest", link |-> op, tree |-> x])

\* The task turns the stack s at place a into the stack t at place b.
TaskPerforms(ts, d, task, s, a, t, b) ==
  \/ task.op = "parse" /\ ParsePerforms(ts, d, task.arg, s, a, t, b)
  \/ task.op = "match" /\ Is(ts, a + 1, task.arg) /\ t = s /\ b = a + 1
  \/ task.op = "take" /\ Is(ts, a + 1, task.arg) /\ t = Onto(s, TokenAt(ts, a + 1)) /\ b = a + 1
  \/ task.op = "list" /\ t = Onto(s, <<>>) /\ b = a
  \/ task.op = "many" /\ ManyPerforms(d, task.arg, s, a, t, b)
  \/ task.op = "tag" /\ TagPerforms(task.arg, s, t) /\ b = a
  \/ task.op = "build" /\ BuildPerforms(task.arg, s, t) /\ b = a

Performs(ts, d, task, s, a, t, b) ==
  /\ IsSequence(s) /\ IsSequence(t) /\ a \in 0..Len(ts) /\ b \in 0..Len(ts)
  /\ TaskPerforms(ts, d, task, s, a, t, b)

\* So do the tasks one after the other.
PerformsAll(ts, d, tasks, s, a, t, b) ==
  /\ IsSequence(tasks)
  /\ \E ss, as : /\ ss[1] = s /\ as[1] = a /\ ss[Len(tasks) + 1] = t /\ as[Len(tasks) + 1] = b
                 /\ \A k \in 1..Len(tasks) : Performs(ts, d, tasks[k], ss[k], as[k], ss[k + 1], as[k + 1])

LEMMA AllOfNone ==
  ASSUME NEW ts, NEW d, NEW s, NEW a, NEW t, NEW b, PerformsAll(ts, d, <<>>, s, a, t, b)
  PROVE  t = s /\ b = a
PROOF
<1>1. Len(<<>>) + 1 = 1 OBVIOUS
<1>. QED BY <1>1 DEF PerformsAll

LEMMA AllOfOne ==
  ASSUME NEW ts, NEW d, NEW x, NEW s, NEW a, NEW t, NEW b, PerformsAll(ts, d, <<x>>, s, a, t, b)
  PROVE  Performs(ts, d, x, s, a, t, b)
PROOF
<1>1. PICK q : q = <<x>> OBVIOUS
<1>2. Len(q) = 1 /\ q[1] = x /\ 1 \in 1..1 /\ 1 + 1 = 2 BY <1>1
<1>3. PerformsAll(ts, d, q, s, a, t, b) BY <1>1
<1>. QED BY <1>2, <1>3 DEF PerformsAll

\* The tasks of a concatenation: those of the first part, then the others.
LEMMA AllOfConcat ==
  ASSUME NEW ts, NEW d, NEW x, NEW y, IsSequence(x), IsSequence(y),
         NEW s, NEW a, NEW t, NEW b, PerformsAll(ts, d, x \o y, s, a, t, b)
  PROVE  \E u, c : PerformsAll(ts, d, x, s, a, u, c) /\ PerformsAll(ts, d, y, u, c, t, b)
PROOF
<1>1. PICK z : z = x \o y OBVIOUS
<1>2. /\ Len(z) = Len(x) + Len(y) /\ Len(x) \in Nat /\ Len(y) \in Nat
      /\ (\A i \in 1..Len(x) : z[i] = x[i])
      /\ \A i \in (Len(x) + 1)..(Len(x) + Len(y)) : z[i] = y[i - Len(x)]
  BY <1>1, ConcatSequences, SequenceBasics
<1>3. PICK ss, as : /\ ss[1] = s /\ as[1] = a /\ ss[Len(z) + 1] = t /\ as[Len(z) + 1] = b
                    /\ \A k \in 1..Len(z) : Performs(ts, d, z[k], ss[k], as[k], ss[k + 1], as[k + 1])
  BY <1>1 DEF PerformsAll
<1>4. PICK u, c, n : u = ss[Len(x) + 1] /\ c = as[Len(x) + 1] /\ n = Len(x) OBVIOUS
<1>5. ASSUME NEW k \in 1..Len(x) PROVE Performs(ts, d, x[k], ss[k], as[k], ss[k + 1], as[k + 1])
  <2>1. k \in 1..Len(z) BY <1>2
  <2>2. z[k] = x[k] BY <1>2
  <2>3. Performs(ts, d, z[k], ss[k], as[k], ss[k + 1], as[k + 1]) BY <1>3, <2>1
  <2>. QED BY ONLY <2>2, <2>3
<1>6. PerformsAll(ts, d, x, s, a, u, c) BY <1>3, <1>4, <1>5 DEF PerformsAll
<1>7. PICK rs, bs : rs = [k \in 1..(Len(y) + 1) |-> ss[k + n]] /\ bs = [k \in 1..(Len(y) + 1) |-> as[k + n]]
  OBVIOUS
<1>8. ASSUME NEW k \in 1..Len(y) PROVE Performs(ts, d, y[k], rs[k], bs[k], rs[k + 1], bs[k + 1])
  <2>1. k + n \in (Len(x) + 1)..(Len(x) + Len(y)) /\ k + n \in 1..Len(z) /\ k + n - Len(x) = k BY <1>2, <1>4
  <2>2. Performs(ts, d, y[k], ss[k + n], as[k + n], ss[k + n + 1], as[k + n + 1])
    <3>1. PICK i : i = k + n OBVIOUS
    <3>4. i \in (Len(x) + 1)..(Len(x) + Len(y)) /\ i - Len(x) = k BY <1>2, <1>4, <2>1, <3>1
    <3>5. z[i] = y[i - Len(x)] BY ONLY <1>2, <3>4
    <3>2. z[k + n] = y[k] BY ONLY <3>1, <3>4, <3>5
    <3>3. Performs(ts, d, z[k + n], ss[k + n], as[k + n], ss[k + n + 1], as[k + n + 1]) BY <1>3, <2>1
    <3>. QED BY ONLY <3>2, <3>3
  <2>3. k \in 1..(Len(y) + 1) /\ k + 1 \in 1..(Len(y) + 1) /\ k + 1 + n = k + n + 1 BY <1>2, <1>4
  <2>4. rs[k] = ss[k + n] /\ bs[k] = as[k + n] /\ rs[k + 1] = ss[k + n + 1] /\ bs[k + 1] = as[k + n + 1]
    BY <1>7, <2>3
  <2>. QED BY <2>2, <2>4
<1>9. rs[1] = u /\ bs[1] = c /\ rs[Len(y) + 1] = t /\ bs[Len(y) + 1] = b
  <2>1. /\ 1 \in 1..(Len(y) + 1) /\ Len(y) + 1 \in 1..(Len(y) + 1)
        /\ 1 + n = Len(x) + 1 /\ Len(y) + 1 + n = Len(z) + 1
    BY <1>2, <1>4
  <2>. QED BY <1>3, <1>4, <1>7, <2>1
<1>10. PerformsAll(ts, d, y, u, c, t, b) BY <1>8, <1>9 DEF PerformsAll
<1>. QED BY <1>6, <1>10

\* A first task before others.
LEMMA AllWithFirst ==
  ASSUME NEW ts, NEW d, NEW q, IsSequence(q), q # <<>>, NEW s, NEW a, NEW u, NEW c, NEW t, NEW b,
         Performs(ts, d, Head(q), s, a, u, c), PerformsAll(ts, d, Tail(q), u, c, t, b)
  PROVE  PerformsAll(ts, d, q, s, a, t, b)
PROOF
<1>1. /\ Len(q) \in Nat \ {0} /\ Head(q) = q[1] /\ Len(Tail(q)) = Len(q) - 1
      /\ \A i \in 1..(Len(q) - 1) : Tail(q)[i] = q[i + 1]
  BY SequenceBasics, TailSequence
<1>2. PICK r : r = Tail(q) OBVIOUS
<1>3. PICK ss, as : /\ ss[1] = u /\ as[1] = c /\ ss[Len(r) + 1] = t /\ as[Len(r) + 1] = b
                    /\ \A k \in 1..Len(r) : Performs(ts, d, r[k], ss[k], as[k], ss[k + 1], as[k + 1])
  BY <1>2 DEF PerformsAll
<1>4. PICK rs, bs : /\ rs = [k \in 1..(Len(q) + 1) |-> IF k = 1 THEN s ELSE ss[k - 1]]
                    /\ bs = [k \in 1..(Len(q) + 1) |-> IF k = 1 THEN a ELSE as[k - 1]]
  OBVIOUS
<1>5. rs[1] = s /\ bs[1] = a /\ \A k \in 2..(Len(q) + 1) : rs[k] = ss[k - 1] /\ bs[k] = as[k - 1]
  <2>1. 1 \in 1..(Len(q) + 1) /\ \A k \in 2..(Len(q) + 1) : k \in 1..(Len(q) + 1) /\ k # 1 BY <1>1
  <2>. QED BY <1>4, <2>1
<1>6. ASSUME NEW k \in 1..Len(q) PROVE Performs(ts, d, q[k], rs[k], bs[k], rs[k + 1], bs[k + 1])
  <2>1. k + 1 \in 2..(Len(q) + 1) /\ k + 1 - 1 = k BY <1>1
  <2>2. PICK i : i = k + 1 OBVIOUS
  <2>6. i \in 2..(Len(q) + 1) /\ i - 1 = k BY <2>1, <2>2
  <2>7. rs[i] = ss[i - 1] /\ bs[i] = as[i - 1] BY ONLY <1>5, <2>6
  <2>5. rs[k + 1] = ss[k] /\ bs[k + 1] = as[k] BY ONLY <2>2, <2>6, <2>7
  <2>3. CASE k = 1 BY <1>1, <1>3, <1>5, <2>5, <2>3
  <2>4. CASE k # 1
    <3>1. k \in 2..(Len(q) + 1) /\ k - 1 \in 1..(Len(q) - 1) /\ k - 1 + 1 = k BY <1>1, <2>4
    <3>2. r[k - 1] = q[k] /\ k - 1 \in 1..Len(r) BY <1>1, <1>2, <3>1
    <3>3. Performs(ts, d, q[k], ss[k - 1], as[k - 1], ss[k], as[k]) BY <1>3, <3>1, <3>2
    <3>. QED BY <1>5, <2>5, <3>1, <3>3
  <2>. QED BY <2>3, <2>4
<1>7. rs[Len(q) + 1] = t /\ bs[Len(q) + 1] = b
  <2>1. Len(q) + 1 \in 2..(Len(q) + 1) /\ Len(q) + 1 - 1 = Len(r) + 1 BY <1>1, <1>2
  <2>2. PICK i : i = Len(q) + 1 OBVIOUS
  <2>3. rs[i] = ss[i - 1] /\ bs[i] = as[i - 1] BY <1>5, <2>1, <2>2
  <2>4. i - 1 = Len(r) + 1 BY ONLY <2>1, <2>2
  <2>5. rs[i] = t /\ bs[i] = b BY ONLY <1>3, <2>3, <2>4
  <2>. QED BY ONLY <2>2, <2>5
<1>. QED BY <1>5, <1>6, <1>7 DEF PerformsAll

LEMMA AllOfTwo ==
  ASSUME NEW ts, NEW d, NEW x1, NEW x2,
         NEW s, NEW a, NEW t, NEW b, PerformsAll(ts, d, <<x1, x2>>, s, a, t, b)
  PROVE  \E s1, a1 :
           /\ Performs(ts, d, x1, s, a, s1, a1) /\ Performs(ts, d, x2, s1, a1, t, b)
PROOF
<1>1. PICK q : q = <<x1, x2>> OBVIOUS
<1>2. Len(q) = 2 /\ q[1] = x1 /\ q[2] = x2 BY <1>1
<1>3. PICK ss, as : /\ ss[1] = s /\ as[1] = a /\ ss[Len(q) + 1] = t /\ as[Len(q) + 1] = b
                    /\ \A k \in 1..Len(q) : Performs(ts, d, q[k], ss[k], as[k], ss[k + 1], as[k + 1])
  BY <1>1 DEF PerformsAll
<1>4. ss[3] = t /\ as[3] = b
  <2>1. Len(q) + 1 = 3 BY <1>2
  <2>. QED BY ONLY <1>3, <2>1
<1>5. Performs(ts, d, x1, ss[1], as[1], ss[2], as[2])
  <2>1. 1 \in 1..Len(q) /\ 1 + 1 = 2 BY <1>2
  <2>. QED BY <1>2, <1>3, <2>1
<1>6. Performs(ts, d, x2, ss[2], as[2], ss[3], as[3])
  <2>1. 2 \in 1..Len(q) /\ 2 + 1 = 3 BY <1>2
  <2>. QED BY <1>2, <1>3, <2>1
<1>. QED BY <1>3, <1>4, <1>5, <1>6

LEMMA AllOfThree ==
  ASSUME NEW ts, NEW d, NEW x1, NEW x2, NEW x3,
         NEW s, NEW a, NEW t, NEW b, PerformsAll(ts, d, <<x1, x2, x3>>, s, a, t, b)
  PROVE  \E s1, a1, s2, a2 :
           /\ Performs(ts, d, x1, s, a, s1, a1) /\ Performs(ts, d, x2, s1, a1, s2, a2)
           /\ Performs(ts, d, x3, s2, a2, t, b)
PROOF
<1>1. PICK q : q = <<x1, x2, x3>> OBVIOUS
<1>2. Len(q) = 3 /\ q[1] = x1 /\ q[2] = x2 /\ q[3] = x3 BY <1>1
<1>3. PICK ss, as : /\ ss[1] = s /\ as[1] = a /\ ss[Len(q) + 1] = t /\ as[Len(q) + 1] = b
                    /\ \A k \in 1..Len(q) : Performs(ts, d, q[k], ss[k], as[k], ss[k + 1], as[k + 1])
  BY <1>1 DEF PerformsAll
<1>4. ss[4] = t /\ as[4] = b
  <2>1. Len(q) + 1 = 4 BY <1>2
  <2>. QED BY ONLY <1>3, <2>1
<1>5. Performs(ts, d, x1, ss[1], as[1], ss[2], as[2])
  <2>1. 1 \in 1..Len(q) /\ 1 + 1 = 2 BY <1>2
  <2>. QED BY <1>2, <1>3, <2>1
<1>6. Performs(ts, d, x2, ss[2], as[2], ss[3], as[3])
  <2>1. 2 \in 1..Len(q) /\ 2 + 1 = 3 BY <1>2
  <2>. QED BY <1>2, <1>3, <2>1
<1>7. Performs(ts, d, x3, ss[3], as[3], ss[4], as[4])
  <2>1. 3 \in 1..Len(q) /\ 3 + 1 = 4 BY <1>2
  <2>. QED BY <1>2, <1>3, <2>1
<1>. QED BY <1>3, <1>4, <1>5, <1>6, <1>7

LEMMA AllOfFour ==
  ASSUME NEW ts, NEW d, NEW x1, NEW x2, NEW x3, NEW x4,
         NEW s, NEW a, NEW t, NEW b, PerformsAll(ts, d, <<x1, x2, x3, x4>>, s, a, t, b)
  PROVE  \E s1, a1, s2, a2, s3, a3 :
           /\ Performs(ts, d, x1, s, a, s1, a1) /\ Performs(ts, d, x2, s1, a1, s2, a2)
           /\ Performs(ts, d, x3, s2, a2, s3, a3) /\ Performs(ts, d, x4, s3, a3, t, b)
PROOF
<1>1. PICK q : q = <<x1, x2, x3, x4>> OBVIOUS
<1>2. Len(q) = 4 /\ q[1] = x1 /\ q[2] = x2 /\ q[3] = x3 /\ q[4] = x4 BY <1>1
<1>3. PICK ss, as : /\ ss[1] = s /\ as[1] = a /\ ss[Len(q) + 1] = t /\ as[Len(q) + 1] = b
                    /\ \A k \in 1..Len(q) : Performs(ts, d, q[k], ss[k], as[k], ss[k + 1], as[k + 1])
  BY <1>1 DEF PerformsAll
<1>4. ss[5] = t /\ as[5] = b
  <2>1. Len(q) + 1 = 5 BY <1>2
  <2>. QED BY ONLY <1>3, <2>1
<1>5. Performs(ts, d, x1, ss[1], as[1], ss[2], as[2])
  <2>1. 1 \in 1..Len(q) /\ 1 + 1 = 2 BY <1>2
  <2>. QED BY <1>2, <1>3, <2>1
<1>6. Performs(ts, d, x2, ss[2], as[2], ss[3], as[3])
  <2>1. 2 \in 1..Len(q) /\ 2 + 1 = 3 BY <1>2
  <2>. QED BY <1>2, <1>3, <2>1
<1>7. Performs(ts, d, x3, ss[3], as[3], ss[4], as[4])
  <2>1. 3 \in 1..Len(q) /\ 3 + 1 = 4 BY <1>2
  <2>. QED BY <1>2, <1>3, <2>1
<1>8. Performs(ts, d, x4, ss[4], as[4], ss[5], as[5])
  <2>1. 4 \in 1..Len(q) /\ 4 + 1 = 5 BY <1>2
  <2>. QED BY <1>2, <1>3, <2>1
<1>. QED BY <1>3, <1>4, <1>5, <1>6, <1>7, <1>8

LEMMA AllOfFive ==
  ASSUME NEW ts, NEW d, NEW x1, NEW x2, NEW x3, NEW x4, NEW x5,
         NEW s, NEW a, NEW t, NEW b, PerformsAll(ts, d, <<x1, x2, x3, x4, x5>>, s, a, t, b)
  PROVE  \E s1, a1, s2, a2, s3, a3, s4, a4 :
           /\ Performs(ts, d, x1, s, a, s1, a1) /\ Performs(ts, d, x2, s1, a1, s2, a2)
           /\ Performs(ts, d, x3, s2, a2, s3, a3) /\ Performs(ts, d, x4, s3, a3, s4, a4)
           /\ Performs(ts, d, x5, s4, a4, t, b)
PROOF
<1>1. PICK q : q = <<x1, x2, x3, x4, x5>> OBVIOUS
<1>2. Len(q) = 5 /\ q[1] = x1 /\ q[2] = x2 /\ q[3] = x3 /\ q[4] = x4 /\ q[5] = x5 BY <1>1
<1>3. PICK ss, as : /\ ss[1] = s /\ as[1] = a /\ ss[Len(q) + 1] = t /\ as[Len(q) + 1] = b
                    /\ \A k \in 1..Len(q) : Performs(ts, d, q[k], ss[k], as[k], ss[k + 1], as[k + 1])
  BY <1>1 DEF PerformsAll
<1>4. ss[6] = t /\ as[6] = b
  <2>1. Len(q) + 1 = 6 BY <1>2
  <2>. QED BY ONLY <1>3, <2>1
<1>5. Performs(ts, d, x1, ss[1], as[1], ss[2], as[2])
  <2>1. 1 \in 1..Len(q) /\ 1 + 1 = 2 BY <1>2
  <2>. QED BY <1>2, <1>3, <2>1
<1>6. Performs(ts, d, x2, ss[2], as[2], ss[3], as[3])
  <2>1. 2 \in 1..Len(q) /\ 2 + 1 = 3 BY <1>2
  <2>. QED BY <1>2, <1>3, <2>1
<1>7. Performs(ts, d, x3, ss[3], as[3], ss[4], as[4])
  <2>1. 3 \in 1..Len(q) /\ 3 + 1 = 4 BY <1>2
  <2>. QED BY <1>2, <1>3, <2>1
<1>8. Performs(ts, d, x4, ss[4], as[4], ss[5], as[5])
  <2>1. 4 \in 1..Len(q) /\ 4 + 1 = 5 BY <1>2
  <2>. QED BY <1>2, <1>3, <2>1
<1>9. Performs(ts, d, x5, ss[5], as[5], ss[6], as[6])
  <2>1. 5 \in 1..Len(q) /\ 5 + 1 = 6 BY <1>2
  <2>. QED BY <1>2, <1>3, <2>1
<1>10. /\ Performs(ts, d, x1, s, a, ss[2], as[2])
       /\ Performs(ts, d, x5, ss[5], as[5], t, b)
  BY ONLY <1>3, <1>4, <1>5, <1>9
<1>. QED BY ONLY <1>6, <1>7, <1>8, <1>10

-----------------------------------------------------------------------------
(* Single tasks. *)

LEMMA PlacesOf ==
  ASSUME NEW ts, NEW d, NEW task, NEW s, NEW a, NEW t, NEW b, Performs(ts, d, task, s, a, t, b)
  PROVE  IsSequence(s) /\ IsSequence(t) /\ a \in 0..Len(ts) /\ b \in 0..Len(ts)
BY DEF Performs, TaskPerforms

LEMMA OfMatch ==
  ASSUME NEW ts, NEW d, NEW type, NEW s, NEW a, NEW t, NEW b, Performs(ts, d, M(type), s, a, t, b)
  PROVE  t = s /\ b = a + 1 /\ Is(ts, a + 1, type) /\ IsSequence(t) /\ a \in 0..Len(ts) /\ b \in 0..Len(ts)
PROOF
<1>1. PICK m : m = M(type) OBVIOUS
<1>2. m.op = "match" /\ m.arg = type BY <1>1 DEF M
<1>3. Performs(ts, d, m, s, a, t, b) BY <1>1
<1>. QED BY <1>2, <1>3 DEF Performs, TaskPerforms

LEMMA OfTake ==
  ASSUME NEW ts, NEW d, NEW type, NEW s, NEW a, NEW t, NEW b, Performs(ts, d, Take(type), s, a, t, b)
  PROVE  /\ t = Onto(s, TokenAt(ts, a + 1)) /\ b = a + 1 /\ Is(ts, a + 1, type)
         /\ IsSequence(s) /\ IsSequence(t) /\ a \in 0..Len(ts) /\ b \in 0..Len(ts)
PROOF
<1>1. PICK m : m = Take(type) OBVIOUS
<1>2. m.op = "take" /\ m.arg = type BY <1>1 DEF Take
<1>3. Performs(ts, d, m, s, a, t, b) BY <1>1
<1>. QED BY <1>2, <1>3 DEF Performs, TaskPerforms

\* A method that is called leaves what it has parsed.
LEMMA OfParse ==
  ASSUME NEW ts, NEW d, NEW rule, NEW s, NEW a, NEW t, NEW b, Performs(ts, d, P(rule), s, a, t, b)
  PROVE  ParsePerforms(ts, d, rule, s, a, t, b) /\ IsSequence(s) /\ IsSequence(t) /\ a \in 0..Len(ts) /\ b \in 0..Len(ts)
PROOF
<1>1. PICK m : m = P(rule) OBVIOUS
<1>2. m.op = "parse" /\ m.arg = rule BY <1>1 DEF P
<1>3. Performs(ts, d, m, s, a, t, b) BY <1>1
<1>. QED BY <1>2, <1>3 DEF Performs, TaskPerforms

LEMMA OfPhrase ==
  ASSUME NEW ts, NEW d, NEW rule \in PhraseRules, NEW s, NEW a, NEW t, NEW b,
         Performs(ts, d, P(rule), s, a, t, b)
  PROVE  \E x : t = Onto(s, x) /\ Phrase(x, a, b) \in Phrases(d, rule)
PROOF
<1>1. rule \notin {"field", "comparison", "comma", "notint"} /\ rule \notin RestRules BY DEF PhraseRules, RestRules
<1>2. ParsePerforms(ts, d, rule, s, a, t, b) BY OfParse
<1>3. \E x : t = Onto(s, x) /\ Phrase(x, a, b) \in Phrases(d, rule) BY <1>1, <1>2 DEF ParsePerforms
<1>. QED BY <1>3, OfParse

LEMMA OntoSequence == \A s, x : IsSequence(s) => IsSequence(Onto(s, x))
BY AppendSequence DEF Onto

LEMMA Unpushed ==
  ASSUME NEW r, NEW x, NEW s, NEW y, IsSequence(r), IsSequence(s), Onto(r, x) = Onto(s, y)
  PROVE  r = s /\ x = y
PROOF
<1>1. PICK p : p = Append(r, x) /\ p = Append(s, y) BY DEF Onto
<1>2. Front(p) = r /\ Last(p) = x BY <1>1, FrontOfAppend
<1>3. Front(p) = s /\ Last(p) = y BY <1>1, FrontOfAppend
<1>. QED BY <1>2, <1>3

\* A list that begins with nothing.
LEMMA OfList ==
  ASSUME NEW ts, NEW d, NEW rule, NEW s, NEW a, NEW t, NEW b, PerformsAll(ts, d, List(rule), s, a, t, b),
         \A k \in 0..Len(ts) : Phrase(<<>>, k, k) \in ListsOf(d, rule)
  PROVE  \E x : t = Onto(s, x) /\ Phrase(x, a, b) \in ListsOf(d, rule)
PROOF
<1>1. PICK l, m : l = [op |-> "list", arg |-> ""] /\ m = Many(rule) OBVIOUS
<1>2. l.op = "list" /\ m.op = "many" /\ m.arg = rule BY <1>1 DEF Many
<1>3. PerformsAll(ts, d, <<l, m>>, s, a, t, b) BY <1>1 DEF List
<1>4. PICK u, c : Performs(ts, d, l, s, a, u, c) /\ Performs(ts, d, m, u, c, t, b) BY <1>3, AllOfTwo
<1>5. u = Onto(s, <<>>) /\ c = a BY <1>2, <1>4 DEF Performs, TaskPerforms
<1>6. IsSequence(s) /\ IsSequence(t) /\ a \in 0..Len(ts) /\ b \in 0..Len(ts) BY <1>4, PlacesOf
<1>7. ManyPerforms(d, rule, u, c, t, b) BY <1>2, <1>4 DEF Performs, TaskPerforms
<1>8. PICK y : /\ t = Onto(s, y)
               /\ \A o : Phrase(<<>>, o, c) \in ListsOf(d, rule) => Phrase(y, o, b) \in ListsOf(d, rule)
  BY <1>5, <1>6, <1>7 DEF ManyPerforms
<1>. QED BY <1>5, <1>6, <1>8

LEMMA OfBuild ==
  ASSUME NEW ts, NEW d, NEW node, NEW s, NEW a, NEW t, NEW b, Performs(ts, d, B(node), s, a, t, b)
  PROVE  BuildPerforms(node, s, t) /\ b = a
PROOF
<1>1. PICK m : m = B(node) OBVIOUS
<1>2. m.op = "build" /\ m.arg = node BY <1>1 DEF B
<1>3. Performs(ts, d, m, s, a, t, b) BY <1>1
<1>. QED BY <1>2, <1>3 DEF Performs, TaskPerforms

\* A node is built from what has been pushed.
LEMMA OfBuildNone ==
  ASSUME NEW ts, NEW d, NEW node, Arity(node) = 0, NEW s, NEW a, NEW t, NEW b, Performs(ts, d, B(node), s, a, t, b)
  PROVE  \E v : t = Onto(s, Node(node, v)) /\ b = a
PROOF
<1>1. BuildPerforms(node, s, t) /\ b = a BY OfBuild
<1>. QED BY <1>1 DEF BuildPerforms

LEMMA OfBuildOne ==
  ASSUME NEW ts, NEW d, NEW node, Arity(node) = 1, NEW u, IsSequence(u), NEW p,
         NEW u1,
         u1 = Onto(u, p),
         NEW a, NEW t, NEW b, Performs(ts, d, B(node), u1, a, t, b)
  PROVE  \E v : t = Onto(u, Node(node, v)) /\ v[1] = p /\ b = a
PROOF
<1>1. BuildPerforms(node, u1, t) /\ b = a BY OfBuild
<1>2. PICK us, v : /\ IsSequence(us[0]) /\ u1 = us[1] /\ t = Onto(us[0], Node(node, v))
                   /\ \A k \in 1..1 : us[k] = Onto(us[k - 1], v[k])
  BY <1>1 DEF BuildPerforms
<1>3. us[1] = Onto(us[0], v[1])
  BY ONLY <1>2
<1>4. IsSequence(us[0]) BY <1>2
<1>5. u = us[0] /\ p = v[1] BY ONLY IsSequence(u), <1>2, <1>3, <1>4, u1 = Onto(u, p), Unpushed
<1>. QED BY ONLY <1>1, <1>2, <1>5

LEMMA OfBuildTwo ==
  ASSUME NEW ts, NEW d, NEW node, Arity(node) = 2, NEW u, IsSequence(u), NEW p, NEW q,
         NEW u1, NEW u2,
         u1 = Onto(u, p), u2 = Onto(u1, q),
         NEW a, NEW t, NEW b, Performs(ts, d, B(node), u2, a, t, b)
  PROVE  \E v : t = Onto(u, Node(node, v)) /\ v[1] = p /\ v[2] = q /\ b = a
PROOF
<1>1. BuildPerforms(node, u2, t) /\ b = a BY OfBuild
<1>2. PICK us, v : /\ IsSequence(us[0]) /\ u2 = us[2] /\ t = Onto(us[0], Node(node, v))
                   /\ \A k \in 1..2 : us[k] = Onto(us[k - 1], v[k])
  BY <1>1 DEF BuildPerforms
<1>3. us[1] = Onto(us[0], v[1]) /\ us[2] = Onto(us[1], v[2])
  BY ONLY <1>2
<1>4. IsSequence(u1) /\ IsSequence(us[1])
  BY ONLY IsSequence(u), <1>2, <1>3, u1 = Onto(u, p), OntoSequence
<1>5. u1 = us[1] /\ q = v[2] BY ONLY IsSequence(u), <1>2, <1>3, <1>4, u2 = Onto(u1, q), Unpushed
<1>6. u = us[0] /\ p = v[1] BY ONLY IsSequence(u), <1>2, <1>3, <1>4, <1>5, u1 = Onto(u, p), Unpushed
<1>. QED BY ONLY <1>1, <1>2, <1>5, <1>6

LEMMA OfBuildThree ==
  ASSUME NEW ts, NEW d, NEW node, Arity(node) = 3, NEW u, IsSequence(u), NEW p, NEW q, NEW z,
         NEW u1, NEW u2, NEW u3,
         u1 = Onto(u, p), u2 = Onto(u1, q), u3 = Onto(u2, z),
         NEW a, NEW t, NEW b, Performs(ts, d, B(node), u3, a, t, b)
  PROVE  \E v : t = Onto(u, Node(node, v)) /\ v[1] = p /\ v[2] = q /\ v[3] = z /\ b = a
PROOF
<1>1. BuildPerforms(node, u3, t) /\ b = a BY OfBuild
<1>2. PICK us, v : /\ IsSequence(us[0]) /\ u3 = us[3] /\ t = Onto(us[0], Node(node, v))
                   /\ \A k \in 1..3 : us[k] = Onto(us[k - 1], v[k])
  BY <1>1 DEF BuildPerforms
<1>3. us[1] = Onto(us[0], v[1]) /\ us[2] = Onto(us[1], v[2]) /\ us[3] = Onto(us[2], v[3])
  BY ONLY <1>2
<1>4. IsSequence(u1) /\ IsSequence(us[1]) /\ IsSequence(u2) /\ IsSequence(us[2])
  BY ONLY IsSequence(u), <1>2, <1>3, u1 = Onto(u, p), u2 = Onto(u1, q), OntoSequence
<1>5. u2 = us[2] /\ z = v[3] BY ONLY IsSequence(u), <1>2, <1>3, <1>4, u3 = Onto(u2, z), Unpushed
<1>6. u1 = us[1] /\ q = v[2] BY ONLY IsSequence(u), <1>2, <1>3, <1>4, <1>5, u2 = Onto(u1, q), Unpushed
<1>7. u = us[0] /\ p = v[1] BY ONLY IsSequence(u), <1>2, <1>3, <1>4, <1>6, u1 = Onto(u, p), Unpushed
<1>. QED BY ONLY <1>1, <1>2, <1>5, <1>6, <1>7

LEMMA OfBuildFour ==
  ASSUME NEW ts, NEW d, NEW node, Arity(node) = 4, NEW u, IsSequence(u), NEW p, NEW q, NEW z, NEW x,
         NEW u1, NEW u2, NEW u3, NEW u4,
         u1 = Onto(u, p), u2 = Onto(u1, q), u3 = Onto(u2, z), u4 = Onto(u3, x),
         NEW a, NEW t, NEW b, Performs(ts, d, B(node), u4, a, t, b)
  PROVE  \E v : t = Onto(u, Node(node, v)) /\ v[1] = p /\ v[2] = q /\ v[3] = z /\ v[4] = x /\ b = a
PROOF
<1>1. BuildPerforms(node, u4, t) /\ b = a BY OfBuild
<1>2. PICK us, v : /\ IsSequence(us[0]) /\ u4 = us[4] /\ t = Onto(us[0], Node(node, v))
                   /\ \A k \in 1..4 : us[k] = Onto(us[k - 1], v[k])
  BY <1>1 DEF BuildPerforms
<1>3. us[1] = Onto(us[0], v[1]) /\ us[2] = Onto(us[1], v[2]) /\ us[3] = Onto(us[2], v[3]) /\ us[4] = Onto(us[3], v[4])
  BY ONLY <1>2
<1>4. IsSequence(u1) /\ IsSequence(us[1]) /\ IsSequence(u2) /\ IsSequence(us[2]) /\ IsSequence(u3) /\ IsSequence(us[3])
  BY ONLY IsSequence(u), <1>2, <1>3, u1 = Onto(u, p), u2 = Onto(u1, q), u3 = Onto(u2, z), OntoSequence
<1>5. u3 = us[3] /\ x = v[4] BY ONLY IsSequence(u), <1>2, <1>3, <1>4, u4 = Onto(u3, x), Unpushed
<1>6. u2 = us[2] /\ z = v[3] BY ONLY IsSequence(u), <1>2, <1>3, <1>4, <1>5, u3 = Onto(u2, z), Unpushed
<1>7. u1 = us[1] /\ q = v[2] BY ONLY IsSequence(u), <1>2, <1>3, <1>4, <1>6, u2 = Onto(u1, q), Unpushed
<1>8. u = us[0] /\ p = v[1] BY ONLY IsSequence(u), <1>2, <1>3, <1>4, <1>7, u1 = Onto(u, p), Unpushed
<1>. QED BY ONLY <1>1, <1>2, <1>5, <1>6, <1>7, <1>8

LEMMA OfBuildFive ==
  ASSUME NEW ts, NEW d, NEW node, Arity(node) = 5, NEW u, IsSequence(u), NEW p, NEW q, NEW z, NEW x, NEW y,
         NEW u1, NEW u2, NEW u3, NEW u4, NEW u5,
         u1 = Onto(u, p), u2 = Onto(u1, q), u3 = Onto(u2, z), u4 = Onto(u3, x), u5 = Onto(u4, y),
         NEW a, NEW t, NEW b, Performs(ts, d, B(node), u5, a, t, b)
  PROVE  \E v : t = Onto(u, Node(node, v)) /\ v[1] = p /\ v[2] = q /\ v[3] = z /\ v[4] = x /\ v[5] = y /\ b = a
PROOF
<1>1. BuildPerforms(node, u5, t) /\ b = a BY OfBuild
<1>2. PICK us, v : /\ IsSequence(us[0]) /\ u5 = us[5] /\ t = Onto(us[0], Node(node, v))
                   /\ \A k \in 1..5 : us[k] = Onto(us[k - 1], v[k])
  BY <1>1 DEF BuildPerforms
<1>3. us[1] = Onto(us[0], v[1]) /\ us[2] = Onto(us[1], v[2]) /\ us[3] = Onto(us[2], v[3]) /\ us[4] = Onto(us[3], v[4]) /\ us[5] = Onto(us[4], v[5])
  BY ONLY <1>2
<1>4. IsSequence(u1) /\ IsSequence(us[1]) /\ IsSequence(u2) /\ IsSequence(us[2]) /\ IsSequence(u3) /\ IsSequence(us[3]) /\ IsSequence(u4) /\ IsSequence(us[4])
  BY ONLY IsSequence(u), <1>2, <1>3, u1 = Onto(u, p), u2 = Onto(u1, q), u3 = Onto(u2, z), u4 = Onto(u3, x), OntoSequence
<1>5. u4 = us[4] /\ y = v[5] BY ONLY IsSequence(u), <1>2, <1>3, <1>4, u5 = Onto(u4, y), Unpushed
<1>6. u3 = us[3] /\ x = v[4] BY ONLY IsSequence(u), <1>2, <1>3, <1>4, <1>5, u4 = Onto(u3, x), Unpushed
<1>7. u2 = us[2] /\ z = v[3] BY ONLY IsSequence(u), <1>2, <1>3, <1>4, <1>6, u3 = Onto(u2, z), Unpushed
<1>8. u1 = us[1] /\ q = v[2] BY ONLY IsSequence(u), <1>2, <1>3, <1>4, <1>7, u2 = Onto(u1, q), Unpushed
<1>9. u = us[0] /\ p = v[1] BY ONLY IsSequence(u), <1>2, <1>3, <1>4, <1>8, u1 = Onto(u, p), Unpushed
<1>. QED BY ONLY <1>1, <1>2, <1>5, <1>6, <1>7, <1>8, <1>9

-----------------------------------------------------------------------------
(* The rules: the tasks of a method make a phrase of the phrases they find. *)

LEMMA PhraseParts ==
  ASSUME NEW x, NEW a, NEW b
  PROVE  Phrase(x, a, b).tree = x /\ Phrase(x, a, b).from = a /\ Phrase(x, a, b).to = b
BY DEF Phrase

LEMMA PhrasesOf ==
  ASSUME NEW d
  PROVE  /\ \A rule \in PhraseRules \ {"argument", "rhs"} : Phrases(d, rule) = d[rule]
         /\ Phrases(d, "argument") = d["aexp"] /\ Phrases(d, "rhs") = d["aexp"] \cup d["call"]
BY DEF Phrases

\* Operands, and operands joined to a chain by the operator before it.
JoinsInto(ts, operands, ops, chains, out) ==
  /\ operands \subseteq out
  /\ \A l \in operands, r \in chains :
       IsOperator(ts, l.to + 1, ops) /\ r.from = l.to + 1 =>
         Phrase(Binary(TokenAt(ts, l.to + 1).s, l.tree, r.tree), l.from, r.to) \in out

\* An operand joined to the rest of its chain.
LEMMA JoinSpelled ==
  ASSUME NEW ts, NEW d, NEW rule \in RestRules, NEW out,
         JoinsInto(ts, d[LinkOperand(rule)], LinkOps(rule), d[Chained(rule)], out),
         NEW l, NEW r, NEW a, NEW m, NEW b, Phrase(l, a, m) \in d[LinkOperand(rule)], RestSpelled(ts, d, rule, r, m, b)
  PROVE  Phrase(Join(l, r), a, b) \in out
PROOF
<1>1. CASE r = NoRest /\ b = m
  <2>1. r.op = "none" BY <1>1 DEF NoRest
  <2>2. Join(l, r) = l BY <2>1 DEF Join
  <2>. QED BY <1>1, <2>2 DEF JoinsInto
<1>2. CASE /\ r.op = "rest" /\ IsOperator(ts, m + 1, LinkOps(rule)) /\ r.link = TokenAt(ts, m + 1).s
           /\ Phrase(r.tree, m + 1, b) \in d[Chained(rule)]
  <2>1. Join(l, r) = Binary(r.link, l, r.tree) BY <1>2 DEF Join
  <2>2. PICK p, q : p = Phrase(l, a, m) /\ q = Phrase(r.tree, m + 1, b) OBVIOUS
  <2>3. p.tree = l /\ p.from = a /\ p.to = m /\ q.tree = r.tree /\ q.from = m + 1 /\ q.to = b BY <2>2, PhraseParts
  <2>4. Phrase(Binary(TokenAt(ts, p.to + 1).s, p.tree, q.tree), p.from, q.to) \in out
    BY <1>2, <2>2, <2>3 DEF JoinsInto
  <2>. QED BY ONLY <1>2, <2>1, <2>3, <2>4
<1>. QED BY <1>1, <1>2 DEF RestSpelled

\* A condition joined to what is behind it by the connective before it.
LEMMA JoinBySpelled ==
  ASSUME NEW ts, NEW d, ObeysAsRead(ts, d), NEW a, IsOperator(ts, a, LogicalOps), NEW op, op = TokenAt(ts, a).s,
         NEW l, NEW r, NEW m, NEW b, Phrase(l, a, m) \in d["rexp1"], RestSpelled(ts, d, "rexp'", r, m, b)
  PROVE  Phrase(JoinBy(op, l, r), a, b) \in d["conditions"]
PROOF
<1>0. /\ ChainsAsRead(ts, d) /\ d["rexp1"] \subseteq d["conditions"]
      /\ LinkOps("rexp'") = LogicalOps /\ Chained("rexp'") = "conditions"
  BY DEF ObeysAsRead, CommonRules, ConditionRules, LinkOps, LogicalOps, Chained
<1>1. CASE r = NoRest /\ b = m
  <2>1. r.op = "none" BY <1>1 DEF NoRest
  <2>2. JoinBy(op, l, r) = l BY <2>1 DEF JoinBy
  <2>. QED BY <1>0, <1>1, <2>2
<1>2. CASE /\ r.op = "rest" /\ IsOperator(ts, m + 1, LogicalOps) /\ Phrase(r.tree, m + 1, b) \in d["conditions"]
  <2>1. JoinBy(op, l, r) = Binary(op, l, r.tree) BY <1>2 DEF JoinBy
  <2>2. PICK p, q : p = Phrase(l, a, m) /\ q = Phrase(r.tree, m + 1, b) OBVIOUS
  <2>3. p.tree = l /\ p.from = a /\ p.to = m /\ q.tree = r.tree /\ q.from = m + 1 /\ q.to = b BY <2>2, PhraseParts
  <2>4. Connected(ts, p, q) /\ IsOperator(ts, p.from, LogicalOps) BY <1>2, <2>3 DEF Connected
  <2>5. Joined(ts, p.from, p, q) \in d["conditions"] BY <1>0, <1>2, <2>2, <2>4 DEF ChainsAsRead
  <2>. QED BY ONLY <2>1, <2>3, <2>5, op = TokenAt(ts, a).s DEF Joined
<1>. QED BY <1>0, <1>1, <1>2 DEF RestSpelled

LEMMA OfRest ==
  ASSUME NEW ts, NEW d, NEW rule \in RestRules, NEW s, NEW a, NEW t, NEW b,
         Performs(ts, d, P(rule), s, a, t, b)
  PROVE  \E r : t = Onto(s, r) /\ RestSpelled(ts, d, rule, r, a, b)
PROOF
<1>1. rule \notin {"field", "comparison", "comma", "notint"} /\ rule \notin PhraseRules BY DEF PhraseRules, RestRules
<1>2. ParsePerforms(ts, d, rule, s, a, t, b) BY OfParse
<1>3. \E r : t = Onto(s, r) /\ RestSpelled(ts, d, rule, r, a, b) BY <1>1, <1>2 DEF ParsePerforms
<1>. QED BY <1>3, OfParse

\* The chains of L2: what a method makes of an operand and a rest.
LEMMA Chains ==
  ASSUME NEW ts, NEW d, ObeysAsRead(ts, d)
  PROVE  /\ \A rule \in {"aexp", "aterm", "rexp"} :
              JoinsInto(ts, d[Operand(rule)], LinkOps(Rest(rule)), d[Chained(Rest(rule))], d[rule])
         /\ \A rule \in {"aexp'", "aterm'"} :
              JoinsInto(ts, d[LinkOperand(rule)], LinkOps(rule), d[Chained(rule)], d[Chained(rule)])
PROOF
<1>1. ExpressionRules(ts, d) /\ ConditionRules(ts, d) BY DEF ObeysAsRead, CommonRules
<1>2. /\ JoinsInto(ts, d["afactor"], {"mul"}, d["aterm"], d["aterm"])
      /\ JoinsInto(ts, d["aterm"], {"add", "sub"}, d["aexp"], d["aexp"])
  BY ONLY <1>1 DEF ExpressionRules, Chain, JoinsInto
<1>3. JoinsInto(ts, d["rexp1"], {"and", "or"}, d["conditions"], d["rexp"])
  BY ONLY <1>1 DEF ConditionRules, Connected, Joined, JoinsInto, LogicalOps
<1>4. /\ Operand("aexp") = "aterm" /\ Rest("aexp") = "aexp'" /\ Operand("aterm") = "afactor"
      /\ Rest("aterm") = "aterm'" /\ Operand("rexp") = "rexp1" /\ Rest("rexp") = "rexp'"
  BY DEF Operand, Rest
<1>5. /\ LinkOperand("aexp'") = "aterm" /\ LinkOps("aexp'") = {"add", "sub"} /\ Chained("aexp'") = "aexp"
      /\ LinkOperand("aterm'") = "afactor" /\ LinkOps("aterm'") = {"mul"} /\ Chained("aterm'") = "aterm"
      /\ LinkOps("rexp'") = {"and", "or"} /\ Chained("rexp'") = "conditions"
  BY DEF LinkOperand, LinkOps, Chained
<1>6. ASSUME NEW rule \in {"aexp", "aterm", "rexp"}
      PROVE  JoinsInto(ts, d[Operand(rule)], LinkOps(Rest(rule)), d[Chained(Rest(rule))], d[rule])
  <2>1. CASE rule = "aexp" BY ONLY <1>2, <1>4, <1>5, <2>1
  <2>2. CASE rule = "aterm" BY ONLY <1>2, <1>4, <1>5, <2>2
  <2>3. CASE rule = "rexp" BY ONLY <1>3, <1>4, <1>5, <2>3
  <2>. QED BY <1>6, <2>1, <2>2, <2>3
<1>7. ASSUME NEW rule \in {"aexp'", "aterm'"}
      PROVE  JoinsInto(ts, d[LinkOperand(rule)], LinkOps(rule), d[Chained(rule)], d[Chained(rule)])
  <2>1. CASE rule = "aexp'" BY ONLY <1>2, <1>5, <2>1
  <2>2. CASE rule = "aterm'" BY ONLY <1>2, <1>5, <2>2
  <2>. QED BY <1>7, <2>1, <2>2
<1>. QED BY <1>6, <1>7

\* An operand, the rest of a chain, and a node made of the two.
LEMMA OperandAndRest ==
  ASSUME NEW ts, NEW d, NEW rule \in RestRules, NEW node, Arity(node) = 2,
         NEW s, NEW a, NEW s1, NEW a1, NEW s2, NEW a2, NEW t, NEW b,
         Performs(ts, d, P(LinkOperand(rule)), s, a, s1, a1), Performs(ts, d, P(rule), s1, a1, s2, a2),
         Performs(ts, d, B(node), s2, a2, t, b)
  PROVE  \E l, r, v : /\ t = Onto(s, Node(node, v)) /\ v[1] = l /\ v[2] = r
                      /\ Phrase(l, a, a1) \in d[LinkOperand(rule)] /\ RestSpelled(ts, d, rule, r, a1, b)
PROOF
<1>1. LinkOperand(rule) \in PhraseRules \ {"argument", "rhs"} BY DEF LinkOperand, RestRules, PhraseRules
<1>2. Phrases(d, LinkOperand(rule)) = d[LinkOperand(rule)] BY <1>1, PhrasesOf
<1>3. PICK l : s1 = Onto(s, l) /\ Phrase(l, a, a1) \in d[LinkOperand(rule)]
  <2>1. PICK o : o = LinkOperand(rule) OBVIOUS
  <2>2. o \in PhraseRules /\ Performs(ts, d, P(o), s, a, s1, a1) BY ONLY <1>1, <2>1, Performs(ts, d, P(LinkOperand(rule)), s, a, s1, a1)
  <2>3. \E x : s1 = Onto(s, x) /\ Phrase(x, a, a1) \in Phrases(d, o) BY ONLY <2>2, OfPhrase
  <2>. QED BY ONLY <1>2, <2>1, <2>3
<1>4. PICK r : s2 = Onto(s1, r) /\ RestSpelled(ts, d, rule, r, a1, a2) BY OfRest
<1>5. IsSequence(s) BY PlacesOf
<1>6. PICK v : t = Onto(s, Node(node, v)) /\ v[1] = l /\ v[2] = r /\ b = a2
  BY ONLY <1>3, <1>4, <1>5, Arity(node) = 2, Performs(ts, d, B(node), s2, a2, t, b), OfBuildTwo
<1>. QED BY ONLY <1>3, <1>4, <1>6

LEMMA ChainSpelled ==
  ASSUME NEW ts, NEW d, ObeysAsRead(ts, d), NEW rule \in {"aexp", "aterm", "rexp"}, NEW s, NEW a, NEW t, NEW b,
         PerformsAll(ts, d, <<P(Operand(rule)), P(Rest(rule)), B("join")>>, s, a, t, b)
  PROVE  \E x : t = Onto(s, x) /\ Phrase(x, a, b) \in d[rule]
PROOF
<1>1. Rest(rule) \in RestRules /\ LinkOperand(Rest(rule)) = Operand(rule)
  BY DEF Rest, RestRules, LinkOperand, Operand
<1>2. PICK s1, a1, s2, a2 : /\ Performs(ts, d, P(Operand(rule)), s, a, s1, a1)
                            /\ Performs(ts, d, P(Rest(rule)), s1, a1, s2, a2)
                            /\ Performs(ts, d, B("join"), s2, a2, t, b)
  BY AllOfThree
<1>3. PICK node, rest : node = "join" /\ rest = Rest(rule) OBVIOUS
<1>4. Arity(node) = 2 /\ \A v : Node(node, v) = Join(v[1], v[2]) BY <1>3 DEF Arity, Node, RelationalOps, LogicalOps
<1>5. PICK l, r, v : /\ t = Onto(s, Node(node, v)) /\ v[1] = l /\ v[2] = r
                     /\ Phrase(l, a, a1) \in d[LinkOperand(rest)] /\ RestSpelled(ts, d, rest, r, a1, b)
  <2>1. /\ rest \in RestRules /\ Performs(ts, d, P(LinkOperand(rest)), s, a, s1, a1)
        /\ Performs(ts, d, P(rest), s1, a1, s2, a2) /\ Performs(ts, d, B(node), s2, a2, t, b)
    BY ONLY <1>1, <1>2, <1>3
  <2>. QED BY ONLY <1>4, <2>1, OperandAndRest
<1>6. JoinsInto(ts, d[LinkOperand(rest)], LinkOps(rest), d[Chained(rest)], d[rule])
  <2>1. JoinsInto(ts, d[Operand(rule)], LinkOps(Rest(rule)), d[Chained(Rest(rule))], d[rule]) BY Chains
  <2>. QED BY ONLY <1>1, <1>3, <2>1
<1>7. Phrase(Join(l, r), a, b) \in d[rule]
  <2>1. rest \in RestRules BY ONLY <1>1, <1>3
  <2>. QED BY ONLY <1>5, <1>6, <2>1, JoinSpelled
<1>. QED BY ONLY <1>4, <1>5, <1>7

LEMMA LinkSpelled ==
  ASSUME NEW ts, NEW d, ObeysAsRead(ts, d), NEW rule \in RestRules, NEW s, NEW a, NEW t, NEW b, NEW op, NEW type,
         IsOperator(ts, a + 1, LinkOps(rule)), op = TokenAt(ts, a + 1).s,
         PerformsAll(ts, d, <<M(type), P(LinkOperand(rule)), P(rule), B(LinkNode(op, rule)), Tag(op)>>, s, a, t, b)
  PROVE  \E r : t = Onto(s, r) /\ RestSpelled(ts, d, rule, r, a, b)
PROOF
<1>0. PICK node : node = LinkNode(op, rule) OBVIOUS
<1>1. PICK s1, a1, s2, a2, s3, a3, s4, a4 :
        /\ Performs(ts, d, M(type), s, a, s1, a1) /\ Performs(ts, d, P(LinkOperand(rule)), s1, a1, s2, a2)
        /\ Performs(ts, d, P(rule), s2, a2, s3, a3) /\ Performs(ts, d, B(node), s3, a3, s4, a4)
        /\ Performs(ts, d, Tag(op), s4, a4, t, b)
  BY <1>0, AllOfFive
<1>2. s1 = s /\ a1 = a + 1 BY <1>1, OfMatch
<1>3. PICK x : s4 = Onto(s, x) /\ Phrase(x, a + 1, a4) \in d[Chained(rule)]
  <2>1. op \in LinkOps(rule) BY DEF IsOperator
  <2>2. Arity(node) = 2 BY <1>0, <2>1 DEF LinkNode, LinkOps, Arity, RestRules
  <2>3. PICK l, r, v : /\ s4 = Onto(s, Node(node, v)) /\ v[1] = l /\ v[2] = r
                       /\ Phrase(l, a + 1, a2) \in d[LinkOperand(rule)] /\ RestSpelled(ts, d, rule, r, a2, a4)
    BY ONLY <1>1, <1>2, <2>2, rule \in RestRules, OperandAndRest
  <2>4. CASE rule = "rexp'"
    <3>1. op \in LogicalOps /\ LinkOps(rule) = LogicalOps BY <2>1, <2>4 DEF LinkOps, LogicalOps
    <3>2. Node(node, v) = JoinBy(op, l, r)
      <4>1. node = op BY <1>0, <2>4 DEF LinkNode
      <4>2. Node(op, v) = JoinBy(op, v[1], v[2]) BY <3>1 DEF Node, LogicalOps, RelationalOps
      <4>. QED BY ONLY <2>3, <4>1, <4>2
    <3>3. LinkOperand(rule) = "rexp1" /\ Chained(rule) = "conditions" BY <2>4 DEF LinkOperand, Chained
    <3>4. PICK c : c = a + 1 OBVIOUS
    <3>5. /\ IsOperator(ts, c, LogicalOps) /\ op = TokenAt(ts, c).s /\ Phrase(l, c, a2) \in d["rexp1"]
          /\ RestSpelled(ts, d, "rexp'", r, a2, a4)
      BY ONLY <2>3, <2>4, <3>1, <3>3, <3>4, IsOperator(ts, a + 1, LinkOps(rule)), op = TokenAt(ts, a + 1).s
    <3>6. Phrase(JoinBy(op, l, r), c, a4) \in d["conditions"] BY ONLY ObeysAsRead(ts, d), <3>5, JoinBySpelled
    <3>. QED BY ONLY <2>3, <3>2, <3>3, <3>4, <3>6
  <2>5. CASE rule \in {"aexp'", "aterm'"}
    <3>1. Node(node, v) = Join(l, r)
      <4>1. node = "join" BY <1>0, <2>5 DEF LinkNode
      <4>2. Node("join", v) = Join(v[1], v[2]) BY DEF Node, RelationalOps, LogicalOps
      <4>. QED BY ONLY <2>3, <4>1, <4>2
    <3>2. JoinsInto(ts, d[LinkOperand(rule)], LinkOps(rule), d[Chained(rule)], d[Chained(rule)]) BY <2>5, Chains
    <3>3. Phrase(Join(l, r), a + 1, a4) \in d[Chained(rule)]
      BY ONLY <2>3, <3>2, rule \in RestRules, JoinSpelled
    <3>. QED BY ONLY <2>3, <3>1, <3>3
  <2>. QED BY <2>4, <2>5 DEF RestRules
<1>4. PICK g : g = Tag(op) OBVIOUS
<1>5. g.op = "tag" /\ g.arg = op BY <1>4 DEF Tag
<1>6. TagPerforms(op, s4, t) /\ b = a4 /\ IsSequence(s4)
  <2>1. Performs(ts, d, g, s4, a4, t, b) BY <1>1, <1>4
  <2>. QED BY <1>5, <2>1 DEF Performs, TaskPerforms
<1>7. PICK u, y : IsSequence(u) /\ s4 = Onto(u, y) /\ t = Onto(u, [op |-> "rest", link |-> op, tree |-> y])
  BY <1>6 DEF TagPerforms
<1>8. IsSequence(s) BY <1>1, PlacesOf
<1>9. u = s /\ y = x BY <1>3, <1>7, <1>8, Unpushed
<1>10. PICK r : r = [op |-> "rest", link |-> op, tree |-> x] OBVIOUS
<1>11. r.op = "rest" /\ r.link = op /\ r.tree = x BY <1>10
<1>12. RestSpelled(ts, d, rule, r, a, b) BY <1>3, <1>6, <1>11 DEF RestSpelled
<1>13. t = Onto(s, r) BY <1>7, <1>9, <1>10
<1>. QED BY <1>12, <1>13

-----------------------------------------------------------------------------
(* Expressions. *)

Nonterminals == PhraseRules \ {"argument", "rhs"}

\* What the methods find that others call.
LEMMA OfNonterminal ==
  ASSUME NEW ts, NEW d, NEW rule \in Nonterminals, NEW s, NEW a, NEW t, NEW b, Performs(ts, d, P(rule), s, a, t, b)
  PROVE  \E x : t = Onto(s, x) /\ Phrase(x, a, b) \in d[rule]
PROOF
<1>1. rule \in PhraseRules /\ Phrases(d, rule) = d[rule] BY PhrasesOf DEF Nonterminals
<1>2. \E x : t = Onto(s, x) /\ Phrase(x, a, b) \in Phrases(d, rule) BY <1>1, OfPhrase
<1>. QED BY <1>1, <1>2

LEMMA TokenThere ==
  ASSUME NEW ts, NEW k, NEW type \in TokenTypes, Is(ts, k, type)
  PROVE  k \in DOMAIN ts /\ TokenAt(ts, k) = ts[k] /\ ts[k].type = type
PROOF
<1>1. Token("none").type = "none" /\ type # "none" BY DEF Token, TokenTypes
<1>. QED BY <1>1 DEF Is, TokenAt

LEMMA ParenSpelled ==
  ASSUME NEW ts, NEW d, ObeysAsRead(ts, d), NEW s, NEW a, NEW t, NEW b,
         PerformsAll(ts, d, <<M("LParen"), P("aexp"), M("RParen")>>, s, a, t, b)
  PROVE  \E x : t = Onto(s, x) /\ Phrase(x, a, b) \in d["afactor"]
PROOF
<1>1. PICK s1, a1, s2, a2 : /\ Performs(ts, d, M("LParen"), s, a, s1, a1) /\ Performs(ts, d, P("aexp"), s1, a1, s2, a2)
                            /\ Performs(ts, d, M("RParen"), s2, a2, t, b)
  BY AllOfThree
<1>2. s1 = s /\ a1 = a + 1 /\ Is(ts, a1, "LParen") /\ a \in 0..Len(ts) BY <1>1, OfMatch
<1>3. t = s2 /\ b = a2 + 1 /\ Is(ts, a2 + 1, "RParen") BY <1>1, OfMatch
<1>4. PICK x : s2 = Onto(s1, x) /\ Phrase(x, a1, a2) \in d["aexp"] BY <1>1, OfNonterminal DEF Nonterminals, PhraseRules
<1>5. PICK e : e = Phrase(x, a1, a2) OBVIOUS
<1>6. e.tree = x /\ e.from = a1 /\ e.to = a2 /\ a1 - 1 = a BY <1>2, <1>5, PhraseParts
<1>7. InParens(ts, e) BY <1>2, <1>3, <1>6 DEF InParens, Between
<1>8. Phrase(e.tree, e.from - 1, e.to + 1) \in d["afactor"] BY <1>4, <1>5, <1>7 DEF ObeysAsRead, CommonRules, FactorRules
<1>. QED BY <1>2, <1>3, <1>4, <1>6, <1>8

LEMMA NumSpelled ==
  ASSUME NEW ts, NEW d, ObeysAsRead(ts, d), NEW s, NEW a, NEW t, NEW b, PerformsAll(ts, d, <<Take("Num"), B("int")>>, s, a, t, b)
  PROVE  \E x : t = Onto(s, x) /\ Phrase(x, a, b) \in d["afactor"]
PROOF
<1>1. PICK s1, a1 : Performs(ts, d, Take("Num"), s, a, s1, a1) /\ Performs(ts, d, B("int"), s1, a1, t, b) BY AllOfTwo
<1>2. PICK k : k = a + 1 OBVIOUS
<1>3. s1 = Onto(s, TokenAt(ts, k)) /\ a1 = k /\ Is(ts, k, "Num") /\ IsSequence(s) /\ a \in 0..Len(ts)
  BY <1>1, <1>2, OfTake
<1>4. k \in DOMAIN ts /\ TokenAt(ts, k) = ts[k] BY <1>3, TokenThere DEF TokenTypes
<1>5. Arity("int") = 1 BY DEF Arity
<1>6. PICK v : t = Onto(s, Node("int", v)) /\ v[1] = ts[k] /\ b = a1 BY <1>1, <1>3, <1>4, <1>5, OfBuildOne
<1>7. Node("int", v) = Int32(ts[k].n) BY <1>6 DEF Node, RelationalOps, LogicalOps
<1>8. Phrase(Int32(ts[k].n), k - 1, k) \in d["afactor"] BY <1>3, <1>4 DEF ObeysAsRead, CommonRules, FactorRules
<1>9. k - 1 = a BY <1>2, <1>3
<1>. QED BY <1>3, <1>6, <1>7, <1>8, <1>9

LEMMA NilSpelled ==
  ASSUME NEW ts, NEW d, ObeysAsRead(ts, d), NEW s, NEW a, NEW t, NEW b, PerformsAll(ts, d, <<M("Nil"), B("nil")>>, s, a, t, b)
  PROVE  \E x : t = Onto(s, x) /\ Phrase(x, a, b) \in d["afactor"]
PROOF
<1>1. PICK s1, a1 : Performs(ts, d, M("Nil"), s, a, s1, a1) /\ Performs(ts, d, B("nil"), s1, a1, t, b) BY AllOfTwo
<1>2. s1 = s /\ a1 = a + 1 /\ Is(ts, a1, "Nil") /\ a \in 0..Len(ts) BY <1>1, OfMatch
<1>3. a1 \in DOMAIN ts /\ a1 - 1 = a BY <1>2, TokenThere DEF TokenTypes
<1>4. Arity("nil") = 0 BY DEF Arity
<1>5. PICK v : t = Onto(s, Node("nil", v)) /\ b = a1 BY <1>1, <1>2, <1>4, OfBuildNone
<1>6. Node("nil", v) = Nil BY DEF Node, RelationalOps, LogicalOps
<1>7. Phrase(Nil, a1 - 1, a1) \in d["afactor"] BY <1>2, <1>3 DEF ObeysAsRead, CommonRules, FactorRules
<1>. QED BY <1>3, <1>5, <1>6, <1>7

LEMMA OfNotInt ==
  ASSUME NEW ts, NEW d, NEW s, NEW x, IsSequence(s), NEW u, u = Onto(s, x), NEW a, NEW t, NEW b, Performs(ts, d, P("notint"), u, a, t, b)
  PROVE  t = u /\ b = a /\ x.s # "int"
PROOF
<1>1. ParsePerforms(ts, d, "notint", u, a, t, b) BY OfParse
<1>2. t = u /\ b = a /\ Last(u).s # "int" BY <1>1 DEF ParsePerforms, PhraseRules, RestRules
<1>3. Last(u) = x BY FrontOfAppend DEF Onto
<1>. QED BY <1>2, <1>3

LEMMA NewSpelled ==
  ASSUME NEW ts, NEW d, ObeysAsRead(ts, d), NEW s, NEW a, NEW t, NEW b,
         PerformsAll(ts, d, <<M("New"), Take("Type"), P("notint"), B("new")>>, s, a, t, b)
  PROVE  \E x : t = Onto(s, x) /\ Phrase(x, a, b) \in d["afactor"]
PROOF
<1>1. PICK s1, a1, s2, a2, s3, a3 :
        /\ Performs(ts, d, M("New"), s, a, s1, a1) /\ Performs(ts, d, Take("Type"), s1, a1, s2, a2)
        /\ Performs(ts, d, P("notint"), s2, a2, s3, a3) /\ Performs(ts, d, B("new"), s3, a3, t, b)
  BY AllOfFour
<1>2. PICK j, k : j = a + 1 /\ k = a1 + 1 OBVIOUS
<1>3. s1 = s /\ a1 = j /\ Is(ts, j, "New") /\ IsSequence(s) /\ a \in 0..Len(ts) BY <1>1, <1>2, OfMatch
<1>4. s2 = Onto(s, TokenAt(ts, k)) /\ a2 = k /\ Is(ts, k, "Type") BY <1>1, <1>2, <1>3, OfTake
<1>5. k \in DOMAIN ts /\ TokenAt(ts, k) = ts[k] BY <1>4, TokenThere DEF TokenTypes
<1>6. s3 = s2 /\ a3 = a2 /\ ts[k].s # "int" BY <1>1, <1>3, <1>4, <1>5, OfNotInt
<1>7. Arity("new") = 1 BY DEF Arity
<1>8. PICK v : t = Onto(s, Node("new", v)) /\ v[1] = ts[k] /\ b = a3
  BY <1>1, <1>3, <1>4, <1>5, <1>6, <1>7, OfBuildOne
<1>9. Node("new", v) = New(ts[k].s) BY <1>8 DEF Node, RelationalOps, LogicalOps
<1>10. k - 1 = j /\ k - 2 = a BY <1>2, <1>3
<1>11. Phrase(New(ts[k].s), k - 2, k) \in d["afactor"] BY <1>3, <1>4, <1>5, <1>6, <1>10 DEF ObeysAsRead, CommonRules, FactorRules
<1>. QED BY <1>4, <1>6, <1>8, <1>9, <1>10, <1>11

LEMMA PathFactorSpelled ==
  ASSUME NEW ts, NEW d, ObeysAsRead(ts, d), NEW s, NEW a, NEW t, NEW b, PerformsAll(ts, d, <<P("path")>>, s, a, t, b)
  PROVE  \E x : t = Onto(s, x) /\ Phrase(x, a, b) \in d["afactor"]
PROOF
<1>1. Performs(ts, d, P("path"), s, a, t, b) BY AllOfOne
<1>2. \E x : t = Onto(s, x) /\ Phrase(x, a, b) \in d["path"] BY <1>1, OfNonterminal DEF Nonterminals, PhraseRules
<1>. QED BY <1>2 DEF ObeysAsRead, CommonRules, FactorRules

-----------------------------------------------------------------------------
(* Paths and calls. *)

LEMMA ShortSequences ==
  ASSUME NEW x1, NEW x2, NEW x3, NEW x4, NEW x5
  PROVE  /\ IsSequence(<<>>) /\ IsSequence(<<x1>>) /\ IsSequence(<<x1, x2>>) /\ IsSequence(<<x1, x2, x3>>)
         /\ IsSequence(<<x1, x2, x3, x4>>) /\ IsSequence(<<x1, x2, x3, x4, x5>>)
PROOF
<1>1. PICK q0, q1, q2, q3, q4, q5 : /\ q0 = <<>> /\ q1 = <<x1>> /\ q2 = <<x1, x2>> /\ q3 = <<x1, x2, x3>>
                                    /\ q4 = <<x1, x2, x3, x4>> /\ q5 = <<x1, x2, x3, x4, x5>>
  OBVIOUS
<1>2. IsSequence(q0) BY <1>1 DEF IsSequence, ToSet
<1>3. q1 = Append(q0, x1) /\ q2 = Append(q1, x2) /\ q3 = Append(q2, x3) /\ q4 = Append(q3, x4) /\ q5 = Append(q4, x5)
  <2>1. /\ <<x1>> = Append(<<>>, x1) /\ <<x1, x2>> = Append(<<x1>>, x2) /\ <<x1, x2, x3>> = Append(<<x1, x2>>, x3)
        /\ <<x1, x2, x3, x4>> = Append(<<x1, x2, x3>>, x4)
        /\ <<x1, x2, x3, x4, x5>> = Append(<<x1, x2, x3, x4>>, x5)
    BY ONLY Tuples
  <2>. QED BY ONLY <1>1, <2>1
<1>4. IsSequence(q1) BY ONLY <1>2, <1>3, AppendSequence
<1>5. IsSequence(q2) BY ONLY <1>4, <1>3, AppendSequence
<1>6. IsSequence(q3) BY ONLY <1>5, <1>3, AppendSequence
<1>7. IsSequence(q4) BY ONLY <1>6, <1>3, AppendSequence
<1>8. IsSequence(q5) BY ONLY <1>7, <1>3, AppendSequence
<1>. QED BY <1>1, <1>2, <1>4, <1>5, <1>6, <1>7, <1>8

LEMMA ListIsSequence == \A rule : IsSequence(List(rule))
BY ShortSequences DEF List

\* A stack that is not empty is what lies below its top, and the top.
LEMMA FrontAndLast ==
  ASSUME NEW s, IsSequence(s), s # <<>>
  PROVE  IsSequence(Front(s)) /\ s = Onto(Front(s), Last(s))
PROOF
<1>1. PICK f, e, p : f = Front(s) /\ e = Last(s) /\ p = Append(f, e) OBVIOUS
<1>2. /\ IsSequence(f) /\ Len(f) = Len(s) - 1 /\ (\A i \in 1..(Len(s) - 1) : f[i] = s[i]) /\ e = s[Len(s)]
      /\ Len(s) \in Nat /\ Len(s) # 0
  BY <1>1, FrontSequence, SequenceBasics DEF Last
<1>3. IsSequence(p) /\ Len(p) = Len(f) + 1 /\ (\A i \in 1..Len(f) : p[i] = f[i]) /\ p[Len(f) + 1] = e
  BY <1>1, <1>2, AppendSequence
<1>4. PICK n : n = Len(s) OBVIOUS
<1>5. Len(p) = n /\ Len(f) = n - 1 /\ n \in Nat /\ n # 0 BY ONLY <1>2, <1>3, <1>4
<1>6. p[n] = e /\ s[n] = e BY ONLY <1>2, <1>3, <1>4, <1>5
<1>7. ASSUME NEW i \in 1..n PROVE s[i] = p[i]
  <2>1. CASE i = n BY ONLY <1>6, <2>1
  <2>2. CASE i # n
    <3>1. i \in 1..(n - 1) BY ONLY <1>5, <1>7, <2>2
    <3>. QED BY ONLY <3>1, <1>2, <1>3, <1>4, <1>5
  <2>. QED BY <2>1, <2>2
<1>8. s = p BY ONLY IsSequence(s), <1>3, <1>4, <1>5, <1>7, SameSequence
<1>. QED BY <1>1, <1>2, <1>8 DEF Onto

\* The tasks of three sequences, one after the other.
LEMMA AllOfParts ==
  ASSUME NEW ts, NEW d, NEW x, NEW y, NEW z, IsSequence(x), IsSequence(y), IsSequence(z),
         NEW s, NEW a, NEW t, NEW b, PerformsAll(ts, d, x \o y \o z, s, a, t, b)
  PROVE  \E s1, a1, s2, a2 : /\ PerformsAll(ts, d, x, s, a, s1, a1) /\ PerformsAll(ts, d, y, s1, a1, s2, a2)
                             /\ PerformsAll(ts, d, z, s2, a2, t, b)
PROOF
<1>1. PICK w : w = x \o y OBVIOUS
<1>2. IsSequence(w) BY <1>1, ConcatSequences
<1>3. PerformsAll(ts, d, w \o z, s, a, t, b) BY <1>1
<1>4. PICK s2, a2 : PerformsAll(ts, d, w, s, a, s2, a2) /\ PerformsAll(ts, d, z, s2, a2, t, b)
  BY ONLY <1>2, <1>3, IsSequence(z), AllOfConcat
<1>5. PerformsAll(ts, d, x \o y, s, a, s2, a2) BY <1>1, <1>4
<1>6. \E s1, a1 : PerformsAll(ts, d, x, s, a, s1, a1) /\ PerformsAll(ts, d, y, s1, a1, s2, a2)
  BY ONLY <1>5, IsSequence(x), IsSequence(y), AllOfConcat
<1>. QED BY <1>4, <1>6

\* A loop around a method begins with nothing.
LEMMA ListsOfPhrases ==
  ASSUME NEW ts, NEW d, ObeysAsRead(ts, d), NEW rule \in ListRules
  PROVE  \A k \in 0..Len(ts) : Phrase(<<>>, k, k) \in ListsOf(d, rule)
PROOF
<1>1. /\ ListOf(ts, d["field"], d["fields"]) /\ ListOf(ts, d["declaration"], d["declarations"])
      /\ ListOf(ts, d["statement"], d["statements"]) /\ ListOf(ts, d["fundef"], d["fundefs"])
      /\ ListOf(ts, d["typedef"], d["typedefs"])
  BY DEF ObeysAsRead, CommonRules, PathRules, DeclarationRules, BlockRules, FunctionRules, StructRules
<1>2. ListOf(ts, d["aexp"], d["arguments"]) /\ ListOf(ts, d["param"], d["params"])
  BY DEF ObeysAsRead, CommonRules, CallRules, DeclarationRules, CommaList
<1>3. \A e, l : ListOf(ts, e, l) => \A k \in 0..Len(ts) : Phrase(<<>>, k, k) \in l BY DEF ListOf
<1>. QED BY <1>1, <1>2, <1>3 DEF ListRules, ListsOf

LEMMA OfLoop ==
  ASSUME NEW ts, NEW d, ObeysAsRead(ts, d), NEW rule \in ListRules, NEW s, NEW a, NEW t, NEW b,
         PerformsAll(ts, d, List(rule), s, a, t, b)
  PROVE  \E x : t = Onto(s, x) /\ Phrase(x, a, b) \in ListsOf(d, rule)
BY ListsOfPhrases, OfList

LEMMA ListBegins ==
  ASSUME NEW ts, NEW d, NEW rule, NEW s, NEW a, NEW t, NEW b, PerformsAll(ts, d, List(rule), s, a, t, b)
  PROVE  IsSequence(s) /\ IsSequence(t) /\ a \in 0..Len(ts) /\ b \in 0..Len(ts)
PROOF
<1>1. \E u, c : /\ Performs(ts, d, [op |-> "list", arg |-> ""], s, a, u, c)
                /\ Performs(ts, d, Many(rule), u, c, t, b)
  BY AllOfTwo DEF List
<1>. QED BY <1>1, PlacesOf

LEMMA PathSpelled ==
  ASSUME NEW ts, NEW d, ObeysAsRead(ts, d), NEW s, NEW a, NEW t, NEW b,
         PerformsAll(ts, d, <<Take("Id")>> \o List("field") \o <<B("path")>>, s, a, t, b)
  PROVE  \E x : t = Onto(s, x) /\ Phrase(x, a, b) \in d["path"]
PROOF
<1>1. PICK s1, a1, s2, a2 : /\ PerformsAll(ts, d, <<Take("Id")>>, s, a, s1, a1)
                            /\ PerformsAll(ts, d, List("field"), s1, a1, s2, a2)
                            /\ PerformsAll(ts, d, <<B("path")>>, s2, a2, t, b)
  BY ShortSequences, ListIsSequence, AllOfParts
<1>2. Performs(ts, d, Take("Id"), s, a, s1, a1) /\ Performs(ts, d, B("path"), s2, a2, t, b) BY <1>1, AllOfOne
<1>3. PICK k : k = a + 1 OBVIOUS
<1>4. s1 = Onto(s, TokenAt(ts, k)) /\ a1 = k /\ Is(ts, k, "Id") /\ IsSequence(s) /\ a \in 0..Len(ts)
  BY <1>2, <1>3, OfTake
<1>5. k \in DOMAIN ts /\ TokenAt(ts, k) = ts[k] BY <1>4, TokenThere DEF TokenTypes
<1>6. PICK l : s2 = Onto(s1, l) /\ Phrase(l, a1, a2) \in d["fields"]
  BY <1>1, OfLoop DEF ListRules, ListsOf
<1>7. Arity("path") = 2 BY DEF Arity
<1>8. PICK v : t = Onto(s, Node("path", v)) /\ v[1] = ts[k] /\ v[2] = l /\ b = a2
  BY <1>2, <1>4, <1>5, <1>6, <1>7, OfBuildTwo
<1>9. Node("path", v) = Path(ts[k].s, l) BY <1>8 DEF Node, RelationalOps, LogicalOps
<1>10. PICK p : p = Phrase(l, a1, a2) OBVIOUS
<1>11. p.tree = l /\ p.from = k /\ p.to = a2 /\ k - 1 = a BY <1>3, <1>4, <1>10, PhraseParts
<1>12. Phrase(Path(ts[p.from].s, p.tree), p.from - 1, p.to) \in d["path"]
  BY <1>4, <1>6, <1>10, <1>11 DEF ObeysAsRead, CommonRules, PathRules
<1>. QED BY <1>8, <1>9, <1>11, <1>12

LEMMA CallSpelled ==
  ASSUME NEW ts, NEW d, ObeysAsRead(ts, d), NEW s, NEW a, NEW t, NEW b,
         PerformsAll(ts, d, <<Take("Id"), M("LParen")>> \o List("argument") \o <<M("RParen"), B("call")>>, s, a, t, b)
  PROVE  \E x : t = Onto(s, x) /\ Phrase(x, a, b) \in d["call"]
PROOF
<1>1. PICK s2, a2, s3, a3 : /\ PerformsAll(ts, d, <<Take("Id"), M("LParen")>>, s, a, s2, a2)
                            /\ PerformsAll(ts, d, List("argument"), s2, a2, s3, a3)
                            /\ PerformsAll(ts, d, <<M("RParen"), B("call")>>, s3, a3, t, b)
  BY ShortSequences, ListIsSequence, AllOfParts
<1>2. PICK s1, a1 : Performs(ts, d, Take("Id"), s, a, s1, a1) /\ Performs(ts, d, M("LParen"), s1, a1, s2, a2)
  BY <1>1, AllOfTwo
<1>3. PICK s4, a4 : Performs(ts, d, M("RParen"), s3, a3, s4, a4) /\ Performs(ts, d, B("call"), s4, a4, t, b)
  BY <1>1, AllOfTwo
<1>4. PICK k : k = a + 1 OBVIOUS
<1>5. s1 = Onto(s, TokenAt(ts, k)) /\ a1 = k /\ Is(ts, k, "Id") /\ IsSequence(s) /\ a \in 0..Len(ts)
  BY <1>2, <1>4, OfTake
<1>6. k \in DOMAIN ts /\ TokenAt(ts, k) = ts[k] BY <1>5, TokenThere DEF TokenTypes
<1>7. s2 = s1 /\ a2 = a1 + 1 /\ Is(ts, a2, "LParen") BY <1>2, OfMatch
<1>8. s4 = s3 /\ a4 = a3 + 1 /\ Is(ts, a3 + 1, "RParen") BY <1>3, OfMatch
<1>9. PICK l : s3 = Onto(s2, l) /\ Phrase(l, a2, a3) \in d["arguments"]
  BY <1>1, OfLoop DEF ListRules, ListsOf
<1>10. Arity("call") = 2 BY DEF Arity
<1>11. PICK v : t = Onto(s, Node("call", v)) /\ v[1] = ts[k] /\ v[2] = l /\ b = a4
  BY <1>3, <1>5, <1>6, <1>7, <1>8, <1>9, <1>10, OfBuildTwo
<1>12. Node("call", v) = Call(ts[k].s, l) BY <1>11 DEF Node, RelationalOps, LogicalOps
<1>13. PICK p : p = Phrase(l, a2, a3) OBVIOUS
<1>14. p.tree = l /\ p.from = a2 /\ p.to = a3 /\ p.from - 1 = k /\ p.from - 2 = a
  BY <1>4, <1>5, <1>7, <1>13, PhraseParts
<1>15. InParens(ts, p) BY <1>7, <1>8, <1>14 DEF InParens, Between
<1>16. Phrase(Call(ts[p.from - 1].s, p.tree), p.from - 2, p.to + 1) \in d["call"]
  BY <1>5, <1>9, <1>13, <1>14, <1>15 DEF ObeysAsRead, CommonRules, CallRules
<1>. QED BY <1>8, <1>11, <1>12, <1>14, <1>16

-----------------------------------------------------------------------------
(* Conditions. *)

LEMMA NegationSpelled ==
  ASSUME NEW ts, NEW d, ObeysAsRead(ts, d), NEW s, NEW a, NEW t, NEW b,
         PerformsAll(ts, d, <<M("LNeg"), P("rexp"), B("not")>>, s, a, t, b)
  PROVE  \E x : t = Onto(s, x) /\ Phrase(x, a, b) \in d["rexp1"]
PROOF
<1>1. PICK s1, a1, s2, a2 : /\ Performs(ts, d, M("LNeg"), s, a, s1, a1) /\ Performs(ts, d, P("rexp"), s1, a1, s2, a2)
                            /\ Performs(ts, d, B("not"), s2, a2, t, b)
  BY AllOfThree
<1>2. s1 = s /\ a1 = a + 1 /\ Is(ts, a1, "LNeg") /\ IsSequence(s1) /\ a \in 0..Len(ts) BY <1>1, OfMatch
<1>3. PICK x : s2 = Onto(s1, x) /\ Phrase(x, a1, a2) \in d["rexp"] BY <1>1, OfNonterminal DEF Nonterminals, PhraseRules
<1>4. Arity("not") = 1 BY DEF Arity
<1>5. PICK v : t = Onto(s1, Node("not", v)) /\ v[1] = x /\ b = a2 BY <1>1, <1>2, <1>3, <1>4, OfBuildOne
<1>6. Node("not", v) = Not(x) BY <1>5 DEF Node, RelationalOps, LogicalOps
<1>7. PICK e : e = Phrase(x, a1, a2) OBVIOUS
<1>8. e.tree = x /\ e.from = a1 /\ e.to = a2 /\ a1 - 1 = a BY <1>2, <1>7, PhraseParts
<1>9. Phrase(Not(e.tree), e.from - 1, e.to) \in d["rexp1"] BY <1>2, <1>3, <1>7, <1>8 DEF ObeysAsRead, CommonRules, ConditionRules
<1>. QED BY <1>2, <1>5, <1>6, <1>8, <1>9

LEMMA BracketSpelled ==
  ASSUME NEW ts, NEW d, ObeysAsRead(ts, d), NEW s, NEW a, NEW t, NEW b,
         PerformsAll(ts, d, <<M("LBracket"), P("rexp"), M("RBracket")>>, s, a, t, b)
  PROVE  \E x : t = Onto(s, x) /\ Phrase(x, a, b) \in d["rexp1"]
PROOF
<1>1. PICK s1, a1, s2, a2 : /\ Performs(ts, d, M("LBracket"), s, a, s1, a1) /\ Performs(ts, d, P("rexp"), s1, a1, s2, a2)
                            /\ Performs(ts, d, M("RBracket"), s2, a2, t, b)
  BY AllOfThree
<1>2. s1 = s /\ a1 = a + 1 /\ Is(ts, a1, "LBracket") /\ a \in 0..Len(ts) BY <1>1, OfMatch
<1>3. t = s2 /\ b = a2 + 1 /\ Is(ts, a2 + 1, "RBracket") BY <1>1, OfMatch
<1>4. PICK x : s2 = Onto(s1, x) /\ Phrase(x, a1, a2) \in d["rexp"] BY <1>1, OfNonterminal DEF Nonterminals, PhraseRules
<1>5. PICK e : e = Phrase(x, a1, a2) OBVIOUS
<1>6. e.tree = x /\ e.from = a1 /\ e.to = a2 /\ a1 - 1 = a BY <1>2, <1>5, PhraseParts
<1>7. Between(ts, "LBracket", e, "RBracket") BY <1>2, <1>3, <1>6 DEF Between
<1>8. Phrase(e.tree, e.from - 1, e.to + 1) \in d["rexp1"] BY <1>4, <1>5, <1>7 DEF ObeysAsRead, CommonRules, ConditionRules
<1>. QED BY <1>2, <1>3, <1>4, <1>6, <1>8

\* An expression, and a comparison of it with another.
LEMMA RelationSpelled ==
  ASSUME NEW ts, NEW d, ObeysAsRead(ts, d), NEW s, NEW a, NEW t, NEW b,
         PerformsAll(ts, d, <<P("aexp"), P("comparison")>>, s, a, t, b)
  PROVE  \E x : t = Onto(s, x) /\ Phrase(x, a, b) \in d["rexp1"]
PROOF
<1>1. PICK s1, a1 : Performs(ts, d, P("aexp"), s, a, s1, a1) /\ Performs(ts, d, P("comparison"), s1, a1, t, b) BY AllOfTwo
<1>2. PICK x : s1 = Onto(s, x) /\ Phrase(x, a, a1) \in d["aexp"] BY <1>1, OfNonterminal DEF Nonterminals, PhraseRules
<1>3. IsSequence(s) BY <1>1, PlacesOf
<1>4. ParsePerforms(ts, d, "comparison", s1, a1, t, b) BY <1>1, OfParse
<1>5. /\ IsOperator(ts, a1 + 1, RelationalOps)
      /\ \E u, l, r : /\ IsSequence(u) /\ s1 = Onto(u, l) /\ Phrase(r, a1 + 1, b) \in d["aexp"]
                      /\ t = Onto(u, Binary(TokenAt(ts, a1 + 1).s, l, r))
  BY <1>4 DEF ParsePerforms, PhraseRules, RestRules
<1>6. PICK u, l, r : /\ IsSequence(u) /\ s1 = Onto(u, l) /\ Phrase(r, a1 + 1, b) \in d["aexp"]
                     /\ t = Onto(u, Binary(TokenAt(ts, a1 + 1).s, l, r))
  BY <1>5
<1>7. u = s /\ l = x BY <1>2, <1>3, <1>6, Unpushed
<1>8. PICK p, q : p = Phrase(x, a, a1) /\ q = Phrase(r, a1 + 1, b) OBVIOUS
<1>9. p.tree = x /\ p.from = a /\ p.to = a1 /\ q.tree = r /\ q.from = a1 + 1 /\ q.to = b BY <1>8, PhraseParts
<1>10. Phrase(Binary(TokenAt(ts, p.to + 1).s, p.tree, q.tree), p.from, q.to) \in d["rexp1"]
  BY <1>2, <1>5, <1>6, <1>8, <1>9 DEF ObeysAsRead, CommonRules, ConditionRules
<1>. QED BY <1>6, <1>7, <1>9, <1>10

LEMMA ComparisonSpelled ==
  ASSUME NEW ts, NEW d, ObeysAsRead(ts, d), NEW s, NEW a, NEW t, NEW b, NEW op,
         IsOperator(ts, a + 1, RelationalOps), op = TokenAt(ts, a + 1).s,
         PerformsAll(ts, d, <<M("RelOp"), P("aexp"), B(op)>>, s, a, t, b)
  PROVE  ParsePerforms(ts, d, "comparison", s, a, t, b)
PROOF
<1>1. PICK s1, a1, s2, a2 : /\ Performs(ts, d, M("RelOp"), s, a, s1, a1) /\ Performs(ts, d, P("aexp"), s1, a1, s2, a2)
                            /\ Performs(ts, d, B(op), s2, a2, t, b)
  BY AllOfThree
<1>2. s1 = s /\ a1 = a + 1 /\ IsSequence(s1) /\ a \in 0..Len(ts) BY <1>1, OfMatch
<1>3. PICK r : s2 = Onto(s1, r) /\ Phrase(r, a1, a2) \in d["aexp"] BY <1>1, OfNonterminal DEF Nonterminals, PhraseRules
<1>4. op \in RelationalOps BY DEF IsOperator
<1>5. Arity(op) = 2 BY <1>4 DEF Arity, RelationalOps
<1>6. BuildPerforms(op, s2, t) /\ b = a2 BY <1>1, OfBuild
<1>7. PICK us, v : /\ IsSequence(us[0]) /\ s2 = us[2] /\ t = Onto(us[0], Node(op, v))
                   /\ \A k \in 1..2 : us[k] = Onto(us[k - 1], v[k])
  BY <1>5, <1>6 DEF BuildPerforms
<1>8. us[1] = Onto(us[0], v[1]) /\ us[2] = Onto(us[1], v[2]) BY ONLY <1>7
<1>9. IsSequence(us[1]) BY ONLY <1>7, <1>8, OntoSequence
<1>10. s1 = us[1] /\ r = v[2]
  <2>1. PICK w, y : w = us[1] /\ y = v[2] OBVIOUS
  <2>2. IsSequence(w) /\ IsSequence(s1) /\ Onto(s1, r) = Onto(w, y) BY ONLY <1>2, <1>3, <1>7, <1>8, <1>9, <2>1
  <2>3. s1 = w /\ r = y BY ONLY <2>2, Unpushed
  <2>. QED BY ONLY <2>1, <2>3
<1>11. Node(op, v) = Binary(op, v[1], v[2])
  <2>1. CASE op = "lt" BY <2>1 DEF Node, RelationalOps, LogicalOps
  <2>2. CASE op = "le" BY <2>2 DEF Node, RelationalOps, LogicalOps
  <2>3. CASE op = "eq" BY <2>3 DEF Node, RelationalOps, LogicalOps
  <2>. QED BY <1>4, <2>1, <2>2, <2>3 DEF RelationalOps
<1>12. PICK u, l : u = us[0] /\ l = v[1] OBVIOUS
<1>13. /\ IsSequence(u) /\ s = Onto(u, l) /\ Phrase(r, a + 1, b) \in d["aexp"]
       /\ t = Onto(u, Binary(TokenAt(ts, a + 1).s, l, r))
  BY ONLY <1>2, <1>3, <1>6, <1>7, <1>8, <1>10, <1>11, <1>12, op = TokenAt(ts, a + 1).s
<1>. QED BY <1>13 DEF ParsePerforms

-----------------------------------------------------------------------------
(* Statements and blocks. *)

LEMMA ConditionPerformed ==
  ASSUME NEW ts, NEW d, NEW s, NEW a, NEW t, NEW b, PerformsAll(ts, d, Condition, s, a, t, b)
  PROVE  \E x, c : /\ t = Onto(s, x) /\ Phrase(x, a + 1, c) \in d["rexp"] /\ b = c + 1
                   /\ Is(ts, a + 1, "LParen") /\ Is(ts, b, "RParen")
                   /\ IsSequence(s) /\ IsSequence(t) /\ a \in 0..Len(ts) /\ c \in 0..Len(ts)
PROOF
<1>1. PICK s1, a1, s2, a2 : /\ Performs(ts, d, M("LParen"), s, a, s1, a1) /\ Performs(ts, d, P("rexp"), s1, a1, s2, a2)
                            /\ Performs(ts, d, M("RParen"), s2, a2, t, b)
  BY AllOfThree DEF Condition
<1>2. s1 = s /\ a1 = a + 1 /\ Is(ts, a1, "LParen") /\ IsSequence(s1) /\ a \in 0..Len(ts) BY <1>1, OfMatch
<1>3. t = s2 /\ b = a2 + 1 /\ Is(ts, b, "RParen") /\ IsSequence(t) /\ a2 \in 0..Len(ts) BY <1>1, OfMatch
<1>4. PICK x : s2 = Onto(s1, x) /\ Phrase(x, a1, a2) \in d["rexp"] BY <1>1, OfNonterminal DEF Nonterminals, PhraseRules
<1>. QED BY <1>2, <1>3, <1>4

LEMMA BranchPerformed ==
  ASSUME NEW ts, NEW d, NEW s, NEW a, NEW t, NEW b, PerformsAll(ts, d, Branch, s, a, t, b)
  PROVE  \E x, c : /\ t = Onto(s, x) /\ Phrase(x, a + 1, c) \in d["block"] /\ b = c + 1
                   /\ Is(ts, a + 1, "LBrace") /\ Is(ts, b, "RBrace")
                   /\ IsSequence(s) /\ IsSequence(t) /\ a \in 0..Len(ts) /\ c \in 0..Len(ts)
PROOF
<1>1. PICK s1, a1, s2, a2 : /\ Performs(ts, d, M("LBrace"), s, a, s1, a1) /\ Performs(ts, d, P("block"), s1, a1, s2, a2)
                            /\ Performs(ts, d, M("RBrace"), s2, a2, t, b)
  BY AllOfThree DEF Branch
<1>2. s1 = s /\ a1 = a + 1 /\ Is(ts, a1, "LBrace") /\ IsSequence(s1) /\ a \in 0..Len(ts) BY <1>1, OfMatch
<1>3. t = s2 /\ b = a2 + 1 /\ Is(ts, b, "RBrace") /\ IsSequence(t) /\ a2 \in 0..Len(ts) BY <1>1, OfMatch
<1>4. PICK x : s2 = Onto(s1, x) /\ Phrase(x, a1, a2) \in d["block"] BY <1>1, OfNonterminal DEF Nonterminals, PhraseRules
<1>. QED BY <1>2, <1>3, <1>4

LEMMA AllOfFourParts ==
  ASSUME NEW ts, NEW d, NEW w, NEW x, NEW y, NEW z, IsSequence(w), IsSequence(x), IsSequence(y), IsSequence(z),
         NEW s, NEW a, NEW t, NEW b, PerformsAll(ts, d, w \o x \o y \o z, s, a, t, b)
  PROVE  \E s1, a1, s2, a2, s3, a3 :
           /\ PerformsAll(ts, d, w, s, a, s1, a1) /\ PerformsAll(ts, d, x, s1, a1, s2, a2)
           /\ PerformsAll(ts, d, y, s2, a2, s3, a3) /\ PerformsAll(ts, d, z, s3, a3, t, b)
PROOF
<1>1. PICK v : v = w \o x OBVIOUS
<1>2. IsSequence(v) BY <1>1, ConcatSequences
<1>3. PerformsAll(ts, d, v \o y \o z, s, a, t, b) BY <1>1
<1>4. PICK s2, a2, s3, a3 : /\ PerformsAll(ts, d, v, s, a, s2, a2) /\ PerformsAll(ts, d, y, s2, a2, s3, a3)
                            /\ PerformsAll(ts, d, z, s3, a3, t, b)
  BY ONLY <1>2, <1>3, IsSequence(y), IsSequence(z), AllOfParts
<1>5. PerformsAll(ts, d, w \o x, s, a, s2, a2) BY <1>1, <1>4
<1>6. \E s1, a1 : PerformsAll(ts, d, w, s, a, s1, a1) /\ PerformsAll(ts, d, x, s1, a1, s2, a2)
  BY ONLY <1>5, IsSequence(w), IsSequence(x), AllOfConcat
<1>. QED BY <1>4, <1>6

LEMMA WhileSpelled ==
  ASSUME NEW ts, NEW d, ObeysAsRead(ts, d), NEW s, NEW a, NEW t, NEW b,
         PerformsAll(ts, d, <<M("While")>> \o Condition \o Branch \o <<B("while")>>, s, a, t, b)
  PROVE  \E x : t = Onto(s, x) /\ Phrase(x, a, b) \in d["statement"]
PROOF
<1>0. IsSequence(Condition) /\ IsSequence(Branch) BY ShortSequences DEF Condition, Branch
<1>1. PICK s1, a1, s2, a2, s3, a3 :
        /\ PerformsAll(ts, d, <<M("While")>>, s, a, s1, a1) /\ PerformsAll(ts, d, Condition, s1, a1, s2, a2)
        /\ PerformsAll(ts, d, Branch, s2, a2, s3, a3) /\ PerformsAll(ts, d, <<B("while")>>, s3, a3, t, b)
  <2>1. PICK w, x, y, z : w = <<M("While")>> /\ x = Condition /\ y = Branch /\ z = <<B("while")>> OBVIOUS
  <2>2. IsSequence(w) /\ IsSequence(x) /\ IsSequence(y) /\ IsSequence(z) BY <1>0, <2>1, ShortSequences
  <2>3. PerformsAll(ts, d, w \o x \o y \o z, s, a, t, b) BY <2>1
  <2>4. \E s1, a1, s2, a2, s3, a3 :
           /\ PerformsAll(ts, d, w, s, a, s1, a1) /\ PerformsAll(ts, d, x, s1, a1, s2, a2)
           /\ PerformsAll(ts, d, y, s2, a2, s3, a3) /\ PerformsAll(ts, d, z, s3, a3, t, b)
    BY ONLY <2>2, <2>3, AllOfFourParts
  <2>. QED BY ONLY <2>1, <2>4
<1>2. s1 = s /\ a1 = a + 1 /\ Is(ts, a1, "While") /\ IsSequence(s) /\ a \in 0..Len(ts) BY <1>1, AllOfOne, OfMatch
<1>3. PICK x, c : /\ s2 = Onto(s1, x) /\ Phrase(x, a1 + 1, c) \in d["rexp"] /\ a2 = c + 1
                  /\ Is(ts, a1 + 1, "LParen") /\ Is(ts, a2, "RParen") /\ c \in 0..Len(ts)
  BY <1>1, ConditionPerformed
<1>4. PICK y, e : /\ s3 = Onto(s2, y) /\ Phrase(y, a2 + 1, e) \in d["block"] /\ a3 = e + 1
                  /\ Is(ts, a2 + 1, "LBrace") /\ Is(ts, a3, "RBrace")
  BY <1>1, BranchPerformed
<1>5. Performs(ts, d, B("while"), s3, a3, t, b) BY <1>1, AllOfOne
<1>6. Arity("while") = 2 BY DEF Arity
<1>7. PICK v : t = Onto(s, Node("while", v)) /\ v[1] = x /\ v[2] = y /\ b = a3
  BY <1>2, <1>3, <1>4, <1>5, <1>6, OfBuildTwo
<1>8. Node("while", v) = While(x, y) BY <1>7 DEF Node, RelationalOps, LogicalOps
<1>9. PICK p, q : p = Phrase(x, a1 + 1, c) /\ q = Phrase(y, a2 + 1, e) OBVIOUS
<1>10. /\ p.tree = x /\ p.from = a1 + 1 /\ p.to = c /\ q.tree = y /\ q.from = a2 + 1 /\ q.to = e
       /\ p.from - 1 = a1 /\ p.from - 2 = a /\ q.from = p.to + 2
  BY <1>2, <1>3, <1>9, PhraseParts
<1>11. InParens(ts, p) /\ InBraces(ts, q) BY <1>3, <1>4, <1>10 DEF InParens, InBraces, Between
<1>12. Phrase(While(p.tree, q.tree), p.from - 2, q.to + 1) \in d["statement"]
  BY <1>2, <1>3, <1>4, <1>9, <1>10, <1>11 DEF ObeysAsRead, CommonRules, LoopRule
<1>. QED BY <1>4, <1>7, <1>8, <1>10, <1>12

LEMMA IfSpelled ==
  ASSUME NEW ts, NEW d, ObeysAsRead(ts, d), NEW s, NEW a, NEW t, NEW b,
         PerformsAll(ts, d, <<M("If")>> \o Condition \o Branch \o <<P("else"), B("if")>>, s, a, t, b)
  PROVE  \E x : t = Onto(s, x) /\ Phrase(x, a, b) \in d["statement"]
PROOF
<1>0. IsSequence(Condition) /\ IsSequence(Branch) BY ShortSequences DEF Condition, Branch
<1>1. PICK s1, a1, s2, a2, s3, a3 :
        /\ PerformsAll(ts, d, <<M("If")>>, s, a, s1, a1) /\ PerformsAll(ts, d, Condition, s1, a1, s2, a2)
        /\ PerformsAll(ts, d, Branch, s2, a2, s3, a3) /\ PerformsAll(ts, d, <<P("else"), B("if")>>, s3, a3, t, b)
  <2>1. PICK w, x, y, z : w = <<M("If")>> /\ x = Condition /\ y = Branch /\ z = <<P("else"), B("if")>> OBVIOUS
  <2>2. IsSequence(w) /\ IsSequence(x) /\ IsSequence(y) /\ IsSequence(z) BY <1>0, <2>1, ShortSequences
  <2>3. PerformsAll(ts, d, w \o x \o y \o z, s, a, t, b) BY <2>1
  <2>4. \E s1, a1, s2, a2, s3, a3 :
           /\ PerformsAll(ts, d, w, s, a, s1, a1) /\ PerformsAll(ts, d, x, s1, a1, s2, a2)
           /\ PerformsAll(ts, d, y, s2, a2, s3, a3) /\ PerformsAll(ts, d, z, s3, a3, t, b)
    BY ONLY <2>2, <2>3, AllOfFourParts
  <2>. QED BY ONLY <2>1, <2>4
<1>2. s1 = s /\ a1 = a + 1 /\ Is(ts, a1, "If") /\ IsSequence(s) /\ a \in 0..Len(ts) BY <1>1, AllOfOne, OfMatch
<1>3. PICK x, c : /\ s2 = Onto(s1, x) /\ Phrase(x, a1 + 1, c) \in d["rexp"] /\ a2 = c + 1
                  /\ Is(ts, a1 + 1, "LParen") /\ Is(ts, a2, "RParen") /\ c \in 0..Len(ts)
  BY <1>1, ConditionPerformed
<1>4. PICK y, e : /\ s3 = Onto(s2, y) /\ Phrase(y, a2 + 1, e) \in d["block"] /\ a3 = e + 1
                  /\ Is(ts, a2 + 1, "LBrace") /\ Is(ts, a3, "RBrace")
  BY <1>1, BranchPerformed
<1>5. PICK s4, a4 : Performs(ts, d, P("else"), s3, a3, s4, a4) /\ Performs(ts, d, B("if"), s4, a4, t, b)
  BY <1>1, AllOfTwo
<1>6. PICK z : s4 = Onto(s3, z) /\ Phrase(z, a3, a4) \in d["else"] BY <1>5, OfNonterminal DEF Nonterminals, PhraseRules
<1>7. Arity("if") = 3 BY DEF Arity
<1>8. PICK v : t = Onto(s, Node("if", v)) /\ v[1] = x /\ v[2] = y /\ v[3] = z /\ b = a4
  BY <1>2, <1>3, <1>4, <1>5, <1>6, <1>7, OfBuildThree
<1>9. Node("if", v) = If(x, y, z) BY <1>8 DEF Node, RelationalOps, LogicalOps
<1>10. PICK p, q, r : p = Phrase(x, a1 + 1, c) /\ q = Phrase(y, a2 + 1, e) /\ r = Phrase(z, a3, a4) OBVIOUS
<1>11. /\ p.tree = x /\ p.from = a1 + 1 /\ p.to = c /\ q.tree = y /\ q.from = a2 + 1 /\ q.to = e
       /\ r.tree = z /\ r.from = q.to + 1 /\ r.to = a4
       /\ p.from - 1 = a1 /\ p.from - 2 = a /\ q.from = p.to + 2
  <2>1. /\ p.tree = x /\ p.from = a1 + 1 /\ p.to = c /\ q.tree = y /\ q.from = a2 + 1 /\ q.to = e
        /\ r.tree = z /\ r.from = a3 /\ r.to = a4
    BY ONLY <1>10, PhraseParts
  <2>. QED BY ONLY <1>2, <1>3, <1>4, <2>1
<1>12. InParens(ts, p) /\ InBraces(ts, q) BY <1>3, <1>4, <1>11 DEF InParens, InBraces, Between
<1>13. Phrase(If(p.tree, q.tree, r.tree), p.from - 2, r.to) \in d["statement"]
  BY <1>2, <1>3, <1>4, <1>6, <1>10, <1>11, <1>12 DEF ObeysAsRead, CommonRules, ConditionalRules
<1>. QED BY <1>8, <1>9, <1>11, <1>13

LEMMA ElseSpelled ==
  ASSUME NEW ts, NEW d, ObeysAsRead(ts, d), NEW s, NEW a, NEW t, NEW b, PerformsAll(ts, d, <<M("Else")>> \o Branch, s, a, t, b)
  PROVE  \E x : t = Onto(s, x) /\ Phrase(x, a, b) \in d["else"]
PROOF
<1>0. IsSequence(Branch) BY ShortSequences DEF Branch
<1>1. PICK s1, a1 : PerformsAll(ts, d, <<M("Else")>>, s, a, s1, a1) /\ PerformsAll(ts, d, Branch, s1, a1, t, b)
  BY <1>0, ShortSequences, AllOfConcat
<1>2. s1 = s /\ a1 = a + 1 /\ Is(ts, a1, "Else") /\ a \in 0..Len(ts) BY <1>1, AllOfOne, OfMatch
<1>3. PICK x, c : /\ t = Onto(s1, x) /\ Phrase(x, a1 + 1, c) \in d["block"] /\ b = c + 1
                  /\ Is(ts, a1 + 1, "LBrace") /\ Is(ts, b, "RBrace")
  BY <1>1, BranchPerformed
<1>4. PICK p : p = Phrase(x, a1 + 1, c) OBVIOUS
<1>5. p.tree = x /\ p.from = a1 + 1 /\ p.to = c /\ p.from - 1 = a1 /\ p.from - 2 = a BY <1>2, <1>4, PhraseParts
<1>6. InBraces(ts, p) BY <1>3, <1>5 DEF InBraces, Between
<1>7. Phrase(p.tree, p.from - 2, p.to + 1) \in d["else"]
  BY <1>2, <1>3, <1>4, <1>5, <1>6 DEF ObeysAsRead, CommonRules, ConditionalRules
<1>. QED BY <1>2, <1>3, <1>5, <1>7

LEMMA NoElseSpelled ==
  ASSUME NEW ts, NEW d, ObeysAsRead(ts, d), NEW s, NEW a, NEW t, NEW b, PerformsAll(ts, d, <<B("noelse")>>, s, a, t, b)
  PROVE  \E x : t = Onto(s, x) /\ Phrase(x, a, b) \in d["else"]
PROOF
<1>1. Performs(ts, d, B("noelse"), s, a, t, b) BY AllOfOne
<1>2. Arity("noelse") = 0 BY DEF Arity
<1>3. PICK v : t = Onto(s, Node("noelse", v)) /\ b = a BY <1>1, <1>2, OfBuildNone
<1>4. Node("noelse", v) = Block(<<>>, <<>>) BY DEF Node, RelationalOps, LogicalOps
<1>5. a \in 0..Len(ts) BY <1>1, PlacesOf
<1>6. Phrase(Block(<<>>, <<>>), a, a) \in d["else"] BY <1>5 DEF ObeysAsRead, CommonRules, ConditionalRules
<1>. QED BY <1>3, <1>4, <1>6

LEMMA AssignmentSpelled ==
  ASSUME NEW ts, NEW d, ObeysAsRead(ts, d), NEW s, NEW a, NEW t, NEW b,
         PerformsAll(ts, d, <<P("path"), M("Assign"), P("rhs"), M("Semicolon"), B("assign")>>, s, a, t, b)
  PROVE  \E x : t = Onto(s, x) /\ Phrase(x, a, b) \in d["statement"]
PROOF
<1>1. PICK s1, a1, s2, a2, s3, a3, s4, a4 :
        /\ Performs(ts, d, P("path"), s, a, s1, a1) /\ Performs(ts, d, M("Assign"), s1, a1, s2, a2)
        /\ Performs(ts, d, P("rhs"), s2, a2, s3, a3) /\ Performs(ts, d, M("Semicolon"), s3, a3, s4, a4)
        /\ Performs(ts, d, B("assign"), s4, a4, t, b)
  BY AllOfFive
<1>2. PICK l : s1 = Onto(s, l) /\ Phrase(l, a, a1) \in d["path"] BY <1>1, OfNonterminal DEF Nonterminals, PhraseRules
<1>3. s2 = s1 /\ a2 = a1 + 1 /\ Is(ts, a2, "Assign") BY <1>1, OfMatch
<1>4. PICK r : s3 = Onto(s2, r) /\ Phrase(r, a2, a3) \in d["aexp"] \cup d["call"]
  <2>1. "rhs" \in PhraseRules /\ Phrases(d, "rhs") = d["aexp"] \cup d["call"] BY PhrasesOf DEF PhraseRules
  <2>2. \E r : s3 = Onto(s2, r) /\ Phrase(r, a2, a3) \in Phrases(d, "rhs") BY <1>1, <2>1, OfPhrase
  <2>. QED BY <2>1, <2>2
<1>5. s4 = s3 /\ a4 = a3 + 1 /\ Is(ts, a4, "Semicolon") BY <1>1, OfMatch
<1>6. Arity("assign") = 2 /\ IsSequence(s) BY <1>1, PlacesOf DEF Arity
<1>7. PICK v : t = Onto(s, Node("assign", v)) /\ v[1] = l /\ v[2] = r /\ b = a4
  BY <1>1, <1>2, <1>3, <1>4, <1>5, <1>6, OfBuildTwo
<1>8. Node("assign", v) = Assign(l, r) BY <1>7 DEF Node, RelationalOps, LogicalOps
<1>9. PICK p, q : p = Phrase(l, a, a1) /\ q = Phrase(r, a2, a3) OBVIOUS
<1>10. p.tree = l /\ p.from = a /\ p.to = a1 /\ q.tree = r /\ q.from = a1 + 1 /\ q.to = a3
  BY <1>3, <1>9, PhraseParts
<1>11. Phrase(Assign(p.tree, q.tree), p.from, q.to + 1) \in d["statement"]
  BY <1>2, <1>3, <1>4, <1>5, <1>9, <1>10 DEF ObeysAsRead, CommonRules, AssignmentRule
<1>. QED BY <1>5, <1>7, <1>8, <1>10, <1>11

LEMMA BlockSpelled ==
  ASSUME NEW ts, NEW d, ObeysAsRead(ts, d), NEW s, NEW a, NEW t, NEW b,
         PerformsAll(ts, d, List("declaration") \o List("statement") \o <<B("block")>>, s, a, t, b)
  PROVE  \E x : t = Onto(s, x) /\ Phrase(x, a, b) \in d["block"]
PROOF
<1>1. PICK s1, a1, s2, a2 : /\ PerformsAll(ts, d, List("declaration"), s, a, s1, a1)
                            /\ PerformsAll(ts, d, List("statement"), s1, a1, s2, a2)
                            /\ PerformsAll(ts, d, <<B("block")>>, s2, a2, t, b)
  BY ShortSequences, ListIsSequence, AllOfParts
<1>2. PICK x : s1 = Onto(s, x) /\ Phrase(x, a, a1) \in d["declarations"] BY <1>1, OfLoop DEF ListRules, ListsOf
<1>3. PICK y : s2 = Onto(s1, y) /\ Phrase(y, a1, a2) \in d["statements"] BY <1>1, OfLoop DEF ListRules, ListsOf
<1>4. Performs(ts, d, B("block"), s2, a2, t, b) BY <1>1, AllOfOne
<1>5. Arity("block") = 2 BY DEF Arity
<1>6. IsSequence(s) BY <1>1, ListBegins
<1>7. PICK v : t = Onto(s, Node("block", v)) /\ v[1] = x /\ v[2] = y /\ b = a2
  BY <1>2, <1>3, <1>4, <1>5, <1>6, OfBuildTwo
<1>8. Node("block", v) = Block(x, y) BY <1>7 DEF Node, RelationalOps, LogicalOps
<1>9. PICK p, q : p = Phrase(x, a, a1) /\ q = Phrase(y, a1, a2) OBVIOUS
<1>10. p.tree = x /\ p.from = a /\ p.to = a1 /\ q.tree = y /\ q.from = a1 /\ q.to = a2 BY <1>9, PhraseParts
<1>11. Phrase(Block(p.tree, q.tree), p.from, q.to) \in d["block"]
  BY <1>2, <1>3, <1>9, <1>10 DEF ObeysAsRead, CommonRules, BlockRules
<1>. QED BY <1>7, <1>8, <1>10, <1>11

-----------------------------------------------------------------------------
(* Lists. *)

\* The phrases that a loop around the method of a rule collects.
ElementsOf(d, rule) == IF rule = "field" THEN d["field"] ELSE Phrases(d, rule)
HasComma(rule) == rule \in {"argument", "param"}

LEMMA ListGrows ==
  ASSUME NEW ts, NEW d, ObeysAsRead(ts, d), NEW rule \in ListRules, NEW l, NEW e, NEW o, NEW a, NEW b,
         Phrase(l, o, a) \in ListsOf(d, rule), Phrase(e, a, b) \in ElementsOf(d, rule)
  PROVE  /\ Phrase(Append(l, e), o, b) \in ListsOf(d, rule)
         /\ HasComma(rule) /\ Is(ts, b + 1, "Comma") => Phrase(Append(l, e), o, b + 1) \in ListsOf(d, rule)
PROOF
<1>1. /\ ListOf(ts, d["field"], d["fields"]) /\ ListOf(ts, d["declaration"], d["declarations"])
      /\ ListOf(ts, d["statement"], d["statements"]) /\ ListOf(ts, d["fundef"], d["fundefs"])
      /\ ListOf(ts, d["typedef"], d["typedefs"])
      /\ CommaList(ts, d["aexp"], d["arguments"]) /\ CommaList(ts, d["param"], d["params"])
  BY DEF ObeysAsRead, CommonRules, PathRules, DeclarationRules, BlockRules, FunctionRules, StructRules, CallRules
<1>2. /\ ListOf(ts, ElementsOf(d, rule), ListsOf(d, rule))
      /\ HasComma(rule) => CommaList(ts, ElementsOf(d, rule), ListsOf(d, rule))
  <2>1. \A u, v : CommaList(ts, u, v) => ListOf(ts, u, v) BY DEF CommaList
  <2>2. CASE rule = "field" BY <1>1, <2>2 DEF ElementsOf, ListsOf, HasComma
  <2>3. CASE rule = "declaration" BY <1>1, <2>3 DEF ElementsOf, ListsOf, HasComma, Phrases
  <2>4. CASE rule = "statement" BY <1>1, <2>4 DEF ElementsOf, ListsOf, HasComma, Phrases
  <2>5. CASE rule = "fundef" BY <1>1, <2>5 DEF ElementsOf, ListsOf, HasComma, Phrases
  <2>6. CASE rule = "typedef" BY <1>1, <2>6 DEF ElementsOf, ListsOf, HasComma, Phrases
  <2>7. CASE rule = "argument" BY <1>1, <2>1, <2>7 DEF ElementsOf, ListsOf, HasComma, Phrases
  <2>8. CASE rule = "param" BY <1>1, <2>1, <2>8 DEF ElementsOf, ListsOf, HasComma, Phrases
  <2>. QED BY <2>2, <2>3, <2>4, <2>5, <2>6, <2>7, <2>8 DEF ListRules
<1>3. PICK p, q, es, ls : /\ p = Phrase(l, o, a) /\ q = Phrase(e, a, b)
                          /\ es = ElementsOf(d, rule) /\ ls = ListsOf(d, rule)
  OBVIOUS
<1>4. p.tree = l /\ p.from = o /\ p.to = a /\ q.tree = e /\ q.from = a /\ q.to = b BY <1>3, PhraseParts
<1>5. p \in ls /\ q \in es BY <1>3
<1>6. Phrase(Append(p.tree, q.tree), p.from, q.to) \in ls BY ONLY <1>2, <1>3, <1>4, <1>5 DEF ListOf
<1>7. HasComma(rule) /\ Is(ts, q.to + 1, "Comma") => Phrase(Append(p.tree, q.tree), p.from, q.to + 1) \in ls
  BY ONLY <1>2, <1>3, <1>4, <1>5 DEF CommaList
<1>. QED BY ONLY <1>3, <1>4, <1>6, <1>7

\* One more element.
LEMMA ElementAdded ==
  ASSUME NEW ts, NEW d, NEW rule \in ListRules, NEW u, NEW l, IsSequence(u), NEW s, s = Onto(u, l), NEW a, NEW t, NEW b,
         PerformsAll(ts, d, <<P(rule), B(IF rule = "field" THEN "name" ELSE "append")>>, s, a, t, b)
  PROVE  \E e : t = Onto(u, Append(l, e)) /\ Phrase(e, a, b) \in ElementsOf(d, rule)
PROOF
<1>1. PICK n : n = IF rule = "field" THEN "name" ELSE "append" OBVIOUS
<1>2. PerformsAll(ts, d, <<P(rule), B(n)>>, s, a, t, b) BY <1>1
<1>3. PICK s1, a1 : Performs(ts, d, P(rule), s, a, s1, a1) /\ Performs(ts, d, B(n), s1, a1, t, b) BY <1>2, AllOfTwo
<1>4. Arity(n) = 2 BY <1>1 DEF Arity
<1>5. CASE rule = "field"
  <2>1. ParsePerforms(ts, d, rule, s, a, s1, a1) BY <1>3, OfParse
  <2>2. rule \notin PhraseRules /\ rule \notin RestRules BY <1>5 DEF PhraseRules, RestRules
  <2>3. PICK x : s1 = Onto(s, x) /\ Phrase(x.s, a, a1) \in d["field"] BY ONLY <1>5, <2>1, <2>2 DEF ParsePerforms
  <2>4. PICK v : t = Onto(u, Node(n, v)) /\ v[1] = l /\ v[2] = x /\ b = a1
    BY ONLY IsSequence(u), s = Onto(u, l), <1>3, <1>4, <2>3, OfBuildTwo
  <2>5. Node(n, v) = Append(v[1], v[2].s) BY <1>1, <1>5 DEF Node, RelationalOps, LogicalOps
  <2>6. PICK e : e = x.s OBVIOUS
  <2>7. Node(n, v) = Append(l, e) BY ONLY <2>4, <2>5, <2>6
  <2>8. Phrase(e, a, b) \in ElementsOf(d, rule) BY <1>5, <2>3, <2>4, <2>6 DEF ElementsOf
  <2>. QED BY ONLY <2>4, <2>7, <2>8
<1>6. CASE rule # "field"
  <2>1. rule \in PhraseRules BY <1>6 DEF ListRules, PhraseRules
  <2>2. PICK x : s1 = Onto(s, x) /\ Phrase(x, a, a1) \in Phrases(d, rule) BY <1>3, <2>1, OfPhrase
  <2>4. PICK v : t = Onto(u, Node(n, v)) /\ v[1] = l /\ v[2] = x /\ b = a1
    BY ONLY IsSequence(u), s = Onto(u, l), <1>3, <1>4, <2>2, OfBuildTwo
  <2>5. Node(n, v) = Append(v[1], v[2]) BY <1>1, <1>6 DEF Node, RelationalOps, LogicalOps
  <2>6. Node(n, v) = Append(l, x) BY ONLY <2>4, <2>5
  <2>7. Phrase(x, a, b) \in ElementsOf(d, rule) BY <1>6, <2>2, <2>4 DEF ElementsOf
  <2>. QED BY ONLY <2>4, <2>6, <2>7
<1>. QED BY <1>5, <1>6

\* A comma, or none.
LEMMA CommaPassed ==
  ASSUME NEW ts, NEW d, NEW rule, NEW s, NEW a, NEW t, NEW b,
         PerformsAll(ts, d, IF rule \in {"argument", "param"} THEN <<P("comma")>> ELSE <<>>, s, a, t, b)
  PROVE  t = s /\ (b = a \/ (HasComma(rule) /\ Is(ts, a + 1, "Comma") /\ b = a + 1))
PROOF
<1>1. CASE HasComma(rule)
  <2>1. PerformsAll(ts, d, <<P("comma")>>, s, a, t, b) BY <1>1 DEF HasComma
  <2>2. ParsePerforms(ts, d, "comma", s, a, t, b) BY <2>1, AllOfOne, OfParse
  <2>. QED BY <1>1, <2>2 DEF ParsePerforms, PhraseRules, RestRules
<1>2. CASE ~HasComma(rule)
  <2>1. PerformsAll(ts, d, <<>>, s, a, t, b) BY <1>2 DEF HasComma
  <2>. QED BY <2>1, AllOfNone
<1>. QED BY <1>1, <1>2

LEMMA ManySpelled ==
  ASSUME NEW ts, NEW d, ObeysAsRead(ts, d), NEW many, many.op = "many", many.arg \in ListRules, NEW s, NEW a, NEW t, NEW b,
         PerformsAll(ts, d, <<P(many.arg), B(IF many.arg = "field" THEN "name" ELSE "append")>>
                            \o (IF many.arg \in {"argument", "param"} THEN <<P("comma")>> ELSE <<>>)
                            \o <<many>>, s, a, t, b)
  PROVE  ManyPerforms(d, many.arg, s, a, t, b)
PROOF
<1>1. PICK rule, x, y, z : /\ rule = many.arg /\ x = <<P(rule), B(IF rule = "field" THEN "name" ELSE "append")>>
                           /\ y = (IF rule \in {"argument", "param"} THEN <<P("comma")>> ELSE <<>>) /\ z = <<many>>
  OBVIOUS
<1>2. IsSequence(x) /\ IsSequence(y) /\ IsSequence(z) BY <1>1, ShortSequences
<1>3. PerformsAll(ts, d, x \o y \o z, s, a, t, b) BY <1>1
<1>4. PICK s1, a1, s2, a2 : /\ PerformsAll(ts, d, x, s, a, s1, a1) /\ PerformsAll(ts, d, y, s1, a1, s2, a2)
                            /\ PerformsAll(ts, d, z, s2, a2, t, b)
  BY ONLY <1>2, <1>3, AllOfParts
<1>5. s2 = s1 /\ (a2 = a1 \/ (HasComma(rule) /\ Is(ts, a1 + 1, "Comma") /\ a2 = a1 + 1))
  <2>1. PerformsAll(ts, d, IF rule \in {"argument", "param"} THEN <<P("comma")>> ELSE <<>>, s1, a1, s2, a2)
    BY ONLY <1>1, <1>4
  <2>. QED BY ONLY <2>1, CommaPassed
<1>6. Performs(ts, d, many, s2, a2, t, b) BY <1>1, <1>4, AllOfOne
<1>7. ManyPerforms(d, rule, s2, a2, t, b) BY <1>1, <1>6 DEF Performs, TaskPerforms
<1>8. ASSUME NEW u, NEW l, IsSequence(u), s = Onto(u, l)
      PROVE  \E m : /\ t = Onto(u, m)
                    /\ \A o : Phrase(l, o, a) \in ListsOf(d, rule) => Phrase(m, o, b) \in ListsOf(d, rule)
  <2>1. rule \in ListRules BY <1>1
  <2>2. PICK e : s1 = Onto(u, Append(l, e)) /\ Phrase(e, a, a1) \in ElementsOf(d, rule)
    <3>1. PerformsAll(ts, d, <<P(rule), B(IF rule = "field" THEN "name" ELSE "append")>>, s, a, s1, a1)
      BY ONLY <1>1, <1>4
    <3>. QED BY ONLY <1>8, <2>1, <3>1, ElementAdded
  <2>3. PICK g : g = Append(l, e) OBVIOUS
  <2>4. PICK m : /\ t = Onto(u, m)
                 /\ \A o : Phrase(g, o, a2) \in ListsOf(d, rule) => Phrase(m, o, b) \in ListsOf(d, rule)
    BY <1>5, <1>7, <1>8, <2>2, <2>3 DEF ManyPerforms
  <2>5. ASSUME NEW o, Phrase(l, o, a) \in ListsOf(d, rule) PROVE Phrase(g, o, a2) \in ListsOf(d, rule)
    BY <1>5, <2>1, <2>2, <2>3, <2>5, ListGrows
  <2>. QED BY <2>4, <2>5
<1>. QED BY <1>1, <1>8 DEF ManyPerforms

-----------------------------------------------------------------------------
(* Definitions. *)

LEMMA FieldSpelled ==
  ASSUME NEW ts, NEW d, ObeysAsRead(ts, d), NEW s, NEW a, NEW t, NEW b, PerformsAll(ts, d, <<M("Dot"), Take("Id")>>, s, a, t, b)
  PROVE  \E x : t = Onto(s, x) /\ Phrase(x.s, a, b) \in d["field"]
PROOF
<1>1. PICK s1, a1 : Performs(ts, d, M("Dot"), s, a, s1, a1) /\ Performs(ts, d, Take("Id"), s1, a1, t, b) BY AllOfTwo
<1>2. PICK k : k = a1 + 1 OBVIOUS
<1>3. s1 = s /\ a1 = a + 1 /\ Is(ts, a1, "Dot") /\ a \in 0..Len(ts) BY <1>1, OfMatch
<1>4. t = Onto(s, TokenAt(ts, k)) /\ b = k /\ Is(ts, k, "Id") BY <1>1, <1>2, <1>3, OfTake
<1>5. k \in DOMAIN ts /\ TokenAt(ts, k) = ts[k] /\ k - 1 = a1 /\ k - 2 = a
  BY <1>2, <1>3, <1>4, TokenThere DEF TokenTypes
<1>6. Phrase(ts[k].s, k - 2, k) \in d["field"] BY <1>3, <1>4, <1>5 DEF ObeysAsRead, CommonRules, PathRules
<1>. QED BY <1>4, <1>5, <1>6

LEMMA ParamSpelled ==
  ASSUME NEW ts, NEW d, ObeysAsRead(ts, d), NEW s, NEW a, NEW t, NEW b,
         PerformsAll(ts, d, <<Take("Type"), Take("Id"), B("declaration")>>, s, a, t, b)
  PROVE  \E x : t = Onto(s, x) /\ Phrase(x, a, b) \in d["param"]
PROOF
<1>1. PICK s1, a1, s2, a2 : /\ Performs(ts, d, Take("Type"), s, a, s1, a1) /\ Performs(ts, d, Take("Id"), s1, a1, s2, a2)
                            /\ Performs(ts, d, B("declaration"), s2, a2, t, b)
  BY AllOfThree
<1>2. PICK j, k : j = a + 1 /\ k = a1 + 1 OBVIOUS
<1>3. s1 = Onto(s, TokenAt(ts, j)) /\ a1 = j /\ Is(ts, j, "Type") /\ IsSequence(s) /\ a \in 0..Len(ts)
  BY <1>1, <1>2, OfTake
<1>4. s2 = Onto(s1, TokenAt(ts, k)) /\ a2 = k /\ Is(ts, k, "Id") BY <1>1, <1>2, OfTake
<1>5. /\ TokenAt(ts, j) = ts[j] /\ k \in DOMAIN ts /\ TokenAt(ts, k) = ts[k] /\ k - 1 = j /\ k - 2 = a
  BY <1>2, <1>3, <1>4, TokenThere DEF TokenTypes
<1>6. Arity("declaration") = 2 BY DEF Arity
<1>7. PICK v : t = Onto(s, Node("declaration", v)) /\ v[1] = ts[j] /\ v[2] = ts[k] /\ b = a2
  BY <1>1, <1>3, <1>4, <1>5, <1>6, OfBuildTwo
<1>8. Node("declaration", v) = Declaration(ts[j].s, ts[k].s) BY <1>7 DEF Node, RelationalOps, LogicalOps
<1>9. Phrase(Declaration(ts[k - 1].s, ts[k].s), k - 2, k) \in d["param"]
  BY <1>3, <1>4, <1>5 DEF ObeysAsRead, CommonRules, DeclarationRules
<1>. QED BY <1>4, <1>5, <1>7, <1>8, <1>9

LEMMA DeclarationSpelled ==
  ASSUME NEW ts, NEW d, ObeysAsRead(ts, d), NEW s, NEW a, NEW t, NEW b,
         PerformsAll(ts, d, <<Take("Type"), Take("Id"), M("Semicolon"), B("declaration")>>, s, a, t, b)
  PROVE  \E x : t = Onto(s, x) /\ Phrase(x, a, b) \in d["declaration"]
PROOF
<1>1. PICK s1, a1, s2, a2, s3, a3 :
        /\ Performs(ts, d, Take("Type"), s, a, s1, a1) /\ Performs(ts, d, Take("Id"), s1, a1, s2, a2)
        /\ Performs(ts, d, M("Semicolon"), s2, a2, s3, a3) /\ Performs(ts, d, B("declaration"), s3, a3, t, b)
  BY AllOfFour
<1>2. PICK j, k : j = a + 1 /\ k = a1 + 1 OBVIOUS
<1>3. s1 = Onto(s, TokenAt(ts, j)) /\ a1 = j /\ Is(ts, j, "Type") /\ IsSequence(s) /\ a \in 0..Len(ts)
  BY <1>1, <1>2, OfTake
<1>4. s2 = Onto(s1, TokenAt(ts, k)) /\ a2 = k /\ Is(ts, k, "Id") BY <1>1, <1>2, OfTake
<1>5. /\ TokenAt(ts, j) = ts[j] /\ k \in DOMAIN ts /\ TokenAt(ts, k) = ts[k] /\ k - 1 = j /\ k - 2 = a
  BY <1>2, <1>3, <1>4, TokenThere DEF TokenTypes
<1>6. s3 = s2 /\ a3 = k + 1 /\ Is(ts, k + 1, "Semicolon") BY <1>1, <1>4, OfMatch
<1>7. Arity("declaration") = 2 BY DEF Arity
<1>8. PICK v : t = Onto(s, Node("declaration", v)) /\ v[1] = ts[j] /\ v[2] = ts[k] /\ b = a3
  BY <1>1, <1>3, <1>4, <1>5, <1>6, <1>7, OfBuildTwo
<1>9. Node("declaration", v) = Declaration(ts[j].s, ts[k].s) BY <1>8 DEF Node, RelationalOps, LogicalOps
<1>10. Phrase(Declaration(ts[k - 1].s, ts[k].s), k - 2, k + 1) \in d["declaration"]
  BY <1>3, <1>4, <1>5, <1>6 DEF ObeysAsRead, CommonRules, DeclarationRules
<1>. QED BY <1>5, <1>6, <1>8, <1>9, <1>10

LEMMA TypeDefSpelled ==
  ASSUME NEW ts, NEW d, ObeysAsRead(ts, d), NEW s, NEW a, NEW t, NEW b,
         PerformsAll(ts, d, <<M("Struct"), Take("Type"), P("notint"), M("LBrace")>> \o List("declaration")
                            \o <<M("RBrace"), M("Semicolon"), B("typedef")>>, s, a, t, b)
  PROVE  \E x : t = Onto(s, x) /\ Phrase(x, a, b) \in d["typedef"]
PROOF
<1>1. PICK s4, a4, s5, a5 :
        /\ PerformsAll(ts, d, <<M("Struct"), Take("Type"), P("notint"), M("LBrace")>>, s, a, s4, a4)
        /\ PerformsAll(ts, d, List("declaration"), s4, a4, s5, a5)
        /\ PerformsAll(ts, d, <<M("RBrace"), M("Semicolon"), B("typedef")>>, s5, a5, t, b)
  BY ShortSequences, ListIsSequence, AllOfParts
<1>2. PICK s1, a1, s2, a2, s3, a3 :
        /\ Performs(ts, d, M("Struct"), s, a, s1, a1) /\ Performs(ts, d, Take("Type"), s1, a1, s2, a2)
        /\ Performs(ts, d, P("notint"), s2, a2, s3, a3) /\ Performs(ts, d, M("LBrace"), s3, a3, s4, a4)
  BY <1>1, AllOfFour
<1>3. PICK s6, a6, s7, a7 : /\ Performs(ts, d, M("RBrace"), s5, a5, s6, a6)
                            /\ Performs(ts, d, M("Semicolon"), s6, a6, s7, a7)
                            /\ Performs(ts, d, B("typedef"), s7, a7, t, b)
  BY <1>1, AllOfThree
<1>4. PICK k : k = a1 + 1 OBVIOUS
<1>5. s1 = s /\ a1 = a + 1 /\ Is(ts, a1, "Struct") /\ IsSequence(s) /\ a \in 0..Len(ts) BY <1>2, OfMatch
<1>6. s2 = Onto(s, TokenAt(ts, k)) /\ a2 = k /\ Is(ts, k, "Type") BY <1>2, <1>4, <1>5, OfTake
<1>7. TokenAt(ts, k) = ts[k] BY <1>6, TokenThere DEF TokenTypes
<1>8. s3 = s2 /\ a3 = a2 /\ ts[k].s # "int" BY <1>2, <1>5, <1>6, <1>7, OfNotInt
<1>9. s4 = s3 /\ a4 = a3 + 1 /\ Is(ts, a4, "LBrace") BY <1>2, OfMatch
<1>10. PICK l : s5 = Onto(s4, l) /\ Phrase(l, a4, a5) \in d["declarations"] BY <1>1, OfLoop DEF ListRules, ListsOf
<1>11. s6 = s5 /\ a6 = a5 + 1 /\ Is(ts, a5 + 1, "RBrace") /\ a5 \in 0..Len(ts) BY <1>3, OfMatch
<1>12. s7 = s6 /\ a7 = a5 + 2 /\ Is(ts, a5 + 2, "Semicolon")
  <2>1. s7 = s6 /\ a7 = a6 + 1 /\ Is(ts, a7, "Semicolon") BY <1>3, OfMatch
  <2>2. a7 = a5 + 2 BY ONLY <1>11, <2>1
  <2>. QED BY ONLY <2>1, <2>2
<1>13. Arity("typedef") = 2 BY DEF Arity
<1>14. PICK v : t = Onto(s, Node("typedef", v)) /\ v[1] = ts[k] /\ v[2] = l /\ b = a7
  BY <1>3, <1>5, <1>6, <1>7, <1>8, <1>9, <1>10, <1>11, <1>12, <1>13, OfBuildTwo
<1>15. Node("typedef", v) = TypeDef(ts[k].s, l) BY <1>14 DEF Node, RelationalOps, LogicalOps
<1>16. PICK p : p = Phrase(l, a4, a5) OBVIOUS
<1>17. p.tree = l /\ p.from = a4 /\ p.to = a5 /\ p.from - 1 = k /\ p.from - 2 = a1 /\ p.from - 3 = a
  BY <1>4, <1>5, <1>6, <1>8, <1>9, <1>16, PhraseParts
<1>18. InBraces(ts, p) BY <1>9, <1>11, <1>17 DEF InBraces, Between
<1>19. Phrase(TypeDef(ts[p.from - 1].s, p.tree), p.from - 3, p.to + 2) \in d["typedef"]
  BY <1>5, <1>6, <1>8, <1>10, <1>12, <1>16, <1>17, <1>18 DEF ObeysAsRead, CommonRules, StructRules
<1>. QED BY <1>12, <1>14, <1>15, <1>17, <1>19

\* A program: two lists, a block and an expression.
LEMMA ProgramSpelled ==
  ASSUME NEW ts, NEW d, ObeysAsRead(ts, d), NEW s, NEW a, NEW t, NEW b,
         PerformsAll(ts, d, List("typedef") \o List("fundef")
                            \o <<P("block"), M("Output"), P("aexp"), M("Semicolon"), B("program")>>, s, a, t, b)
  PROVE  \E x : t = Onto(s, x) /\ Phrase(x, a, b) \in d["program"]
PROOF
<1>1. PICK s1, a1, s2, a2 :
        /\ PerformsAll(ts, d, List("typedef"), s, a, s1, a1) /\ PerformsAll(ts, d, List("fundef"), s1, a1, s2, a2)
        /\ PerformsAll(ts, d, <<P("block"), M("Output"), P("aexp"), M("Semicolon"), B("program")>>, s2, a2, t, b)
  BY ShortSequences, ListIsSequence, AllOfParts
<1>2. PICK s3, a3, s4, a4, s5, a5, s6, a6 :
        /\ Performs(ts, d, P("block"), s2, a2, s3, a3) /\ Performs(ts, d, M("Output"), s3, a3, s4, a4)
        /\ Performs(ts, d, P("aexp"), s4, a4, s5, a5) /\ Performs(ts, d, M("Semicolon"), s5, a5, s6, a6)
        /\ Performs(ts, d, B("program"), s6, a6, t, b)
  BY <1>1, AllOfFive
<1>3. PICK x : s1 = Onto(s, x) /\ Phrase(x, a, a1) \in d["typedefs"] BY <1>1, OfLoop DEF ListRules, ListsOf
<1>4. PICK y : s2 = Onto(s1, y) /\ Phrase(y, a1, a2) \in d["fundefs"] BY <1>1, OfLoop DEF ListRules, ListsOf
<1>5. PICK z : s3 = Onto(s2, z) /\ Phrase(z, a2, a3) \in d["block"] BY <1>2, OfNonterminal DEF Nonterminals, PhraseRules
<1>6. s4 = s3 /\ a4 = a3 + 1 /\ Is(ts, a4, "Output") BY <1>2, OfMatch
<1>7. PICK w : s5 = Onto(s4, w) /\ Phrase(w, a4, a5) \in d["aexp"] BY <1>2, OfNonterminal DEF Nonterminals, PhraseRules
<1>8. s6 = s5 /\ a6 = a5 + 1 /\ Is(ts, a6, "Semicolon") BY <1>2, OfMatch
<1>9. Arity("program") = 4 /\ IsSequence(s) BY <1>1, ListBegins DEF Arity
<1>10. PICK v : t = Onto(s, Node("program", v)) /\ v[1] = x /\ v[2] = y /\ v[3] = z /\ v[4] = w /\ b = a6
  <2>1. /\ s1 = Onto(s, x) /\ s2 = Onto(s1, y) /\ s3 = Onto(s2, z) /\ s5 = Onto(s3, w)
        /\ Performs(ts, d, B("program"), s5, a6, t, b)
    BY ONLY <1>2, <1>3, <1>4, <1>5, <1>6, <1>7, <1>8
  <2>. QED BY ONLY <1>9, <2>1, OfBuildFour
<1>11. Node("program", v) = Program(x, y, z, w) BY <1>10 DEF Node, RelationalOps, LogicalOps
<1>12. PICK p, q, r, e : /\ p = Phrase(x, a, a1) /\ q = Phrase(y, a1, a2)
                         /\ r = Phrase(z, a2, a3) /\ e = Phrase(w, a4, a5)
  OBVIOUS
<1>13. /\ p.tree = x /\ p.from = a /\ p.to = a1 /\ q.tree = y /\ q.from = a1 /\ q.to = a2
       /\ r.tree = z /\ r.from = a2 /\ r.to = a3 /\ e.tree = w /\ e.from = a3 + 1 /\ e.to = a5
  BY <1>6, <1>12, PhraseParts
<1>14. ProgramRule(ts, d) BY DEF ObeysAsRead, CommonRules
<1>15. Phrase(Program(p.tree, q.tree, r.tree, e.tree), p.from, e.to + 1) \in d["program"]
  BY ONLY <1>3, <1>4, <1>5, <1>6, <1>7, <1>8, <1>12, <1>13, <1>14 DEF ProgramRule
<1>. QED BY <1>8, <1>10, <1>11, <1>13, <1>15

\* Ten tasks are five, and then five.
LEMMA AllOfTen ==
  ASSUME NEW ts, NEW d, NEW x1, NEW x2, NEW x3, NEW x4, NEW x5, NEW x6, NEW x7, NEW x8, NEW x9, NEW x10,
         NEW s, NEW a, NEW t, NEW b, PerformsAll(ts, d, <<x1, x2, x3, x4, x5, x6, x7, x8, x9, x10>>, s, a, t, b)
  PROVE  \E u, c : /\ PerformsAll(ts, d, <<x1, x2, x3, x4, x5>>, s, a, u, c)
                   /\ PerformsAll(ts, d, <<x6, x7, x8, x9, x10>>, u, c, t, b)
PROOF
<1>1. PICK x, y : x = <<x1, x2, x3, x4, x5>> /\ y = <<x6, x7, x8, x9, x10>> OBVIOUS
<1>2. IsSequence(x) /\ IsSequence(y) BY <1>1, ShortSequences
<1>3. PICK z, w : z = <<x1, x2, x3, x4, x5, x6, x7, x8, x9, x10>> /\ w = x \o y OBVIOUS
<1>4. IsSequence(z) /\ Len(z) = 10 BY <1>3 DEF IsSequence, ToSet
<1>5. Len(x) = 5 /\ Len(y) = 5 BY <1>1
<1>6. /\ IsSequence(w) /\ Len(w) = 10
      /\ (\A i \in 1..5 : w[i] = x[i]) /\ \A i \in 6..10 : w[i] = y[i - 5]
  <2>1. /\ IsSequence(x \o y) /\ Len(x \o y) = Len(x) + Len(y)
        /\ \A i \in 1..Len(x) : (x \o y)[i] = x[i]
        /\ \A i \in (Len(x) + 1)..(Len(x) + Len(y)) : (x \o y)[i] = y[i - Len(x)]
    BY ONLY <1>2, ConcatSequences
  <2>2. /\ IsSequence(w) /\ Len(w) = Len(x) + Len(y)
        /\ \A i \in 1..Len(x) : w[i] = x[i]
        /\ \A i \in (Len(x) + 1)..(Len(x) + Len(y)) : w[i] = y[i - Len(x)]
    BY ONLY <1>3, <2>1
  <2>. QED BY ONLY <1>5, <2>2
<1>7. /\ w[1] = x[1] /\ w[2] = x[2] /\ w[3] = x[3] /\ w[4] = x[4] /\ w[5] = x[5]
      /\ w[6] = y[1] /\ w[7] = y[2] /\ w[8] = y[3] /\ w[9] = y[4] /\ w[10] = y[5]
  BY ONLY <1>6
<1>8. /\ x[1] = x1 /\ x[2] = x2 /\ x[3] = x3 /\ x[4] = x4 /\ x[5] = x5
      /\ y[1] = x6 /\ y[2] = x7 /\ y[3] = x8 /\ y[4] = x9 /\ y[5] = x10
  BY ONLY <1>1
<1>9. /\ z[1] = x1 /\ z[2] = x2 /\ z[3] = x3 /\ z[4] = x4 /\ z[5] = x5
      /\ z[6] = x6 /\ z[7] = x7 /\ z[8] = x8 /\ z[9] = x9 /\ z[10] = x10
  BY ONLY <1>3
<1>10. \A i \in 1..10 : z[i] = w[i] BY ONLY <1>7, <1>8, <1>9
<1>11. z = w BY ONLY <1>4, <1>6, <1>10, SameSequence
<1>12. PerformsAll(ts, d, x \o y, s, a, t, b) BY <1>3, <1>11
<1>. QED BY <1>1, <1>2, <1>12, AllOfConcat

LEMMA FunctionSpelled ==
  ASSUME NEW ts, NEW d, ObeysAsRead(ts, d), NEW s, NEW a, NEW t, NEW b,
         PerformsAll(ts, d, <<M("Def"), Take("Id"), M("LParen")>> \o List("param")
                            \o <<M("RParen"), M("HasType"), Take("Type"), M("LBrace"), P("block"), M("Return"),
                                 P("aexp"), M("Semicolon"), M("RBrace"), B("fundef")>>, s, a, t, b)
  PROVE  \E x : t = Onto(s, x) /\ Phrase(x, a, b) \in d["fundef"]
PROOF
<1>1. PICK s3, a3, s4, a4, s9, a9 :
        /\ PerformsAll(ts, d, <<M("Def"), Take("Id"), M("LParen")>>, s, a, s3, a3)
        /\ PerformsAll(ts, d, List("param"), s3, a3, s4, a4)
        /\ PerformsAll(ts, d, <<M("RParen"), M("HasType"), Take("Type"), M("LBrace"), P("block")>>, s4, a4, s9, a9)
        /\ PerformsAll(ts, d, <<M("Return"), P("aexp"), M("Semicolon"), M("RBrace"), B("fundef")>>, s9, a9, t, b)
  <2>1. PICK x, y, z : /\ x = <<M("Def"), Take("Id"), M("LParen")>> /\ y = List("param")
                       /\ z = <<M("RParen"), M("HasType"), Take("Type"), M("LBrace"), P("block"), M("Return"),
                                P("aexp"), M("Semicolon"), M("RBrace"), B("fundef")>>
    OBVIOUS
  <2>2. IsSequence(x) /\ IsSequence(y) BY <2>1, ShortSequences, ListIsSequence
  <2>3. IsSequence(z) BY <2>1 DEF IsSequence, ToSet
  <2>4. PerformsAll(ts, d, x \o y \o z, s, a, t, b) BY <2>1
  <2>5. PICK s3, a3, s4, a4 : /\ PerformsAll(ts, d, x, s, a, s3, a3) /\ PerformsAll(ts, d, y, s3, a3, s4, a4)
                              /\ PerformsAll(ts, d, z, s4, a4, t, b)
    BY ONLY <2>2, <2>3, <2>4, AllOfParts
  <2>6. PerformsAll(ts, d, <<M("RParen"), M("HasType"), Take("Type"), M("LBrace"), P("block"), M("Return"),
                             P("aexp"), M("Semicolon"), M("RBrace"), B("fundef")>>, s4, a4, t, b)
    BY ONLY <2>1, <2>5
  <2>. QED BY <2>1, <2>5, <2>6, AllOfTen
<1>2. PICK s1, a1, s2, a2 : /\ Performs(ts, d, M("Def"), s, a, s1, a1) /\ Performs(ts, d, Take("Id"), s1, a1, s2, a2)
                            /\ Performs(ts, d, M("LParen"), s2, a2, s3, a3)
  BY <1>1, AllOfThree
<1>3. PICK s5, a5, s6, a6, s7, a7, s8, a8 :
        /\ Performs(ts, d, M("RParen"), s4, a4, s5, a5) /\ Performs(ts, d, M("HasType"), s5, a5, s6, a6)
        /\ Performs(ts, d, Take("Type"), s6, a6, s7, a7) /\ Performs(ts, d, M("LBrace"), s7, a7, s8, a8)
        /\ Performs(ts, d, P("block"), s8, a8, s9, a9)
  BY <1>1, AllOfFive
<1>4. PICK s10, a10, s11, a11, s12, a12, s13, a13 :
        /\ Performs(ts, d, M("Return"), s9, a9, s10, a10) /\ Performs(ts, d, P("aexp"), s10, a10, s11, a11)
        /\ Performs(ts, d, M("Semicolon"), s11, a11, s12, a12) /\ Performs(ts, d, M("RBrace"), s12, a12, s13, a13)
        /\ Performs(ts, d, B("fundef"), s13, a13, t, b)
  BY <1>1, AllOfFive
<1>5. PICK j, k : j = a1 + 1 /\ k = a6 + 1 OBVIOUS
<1>6. s1 = s /\ a1 = a + 1 /\ Is(ts, a1, "Def") /\ IsSequence(s) /\ a \in 0..Len(ts) BY <1>2, OfMatch
<1>7. s2 = Onto(s, TokenAt(ts, j)) /\ a2 = j /\ Is(ts, j, "Id") BY <1>2, <1>5, <1>6, OfTake
<1>8. s3 = s2 /\ a3 = a2 + 1 /\ Is(ts, a3, "LParen") BY <1>2, OfMatch
<1>9. PICK ps : s4 = Onto(s3, ps) /\ Phrase(ps, a3, a4) \in d["params"] BY <1>1, OfLoop DEF ListRules, ListsOf
<1>10. s5 = s4 /\ a5 = a4 + 1 /\ Is(ts, a4 + 1, "RParen") /\ a4 \in 0..Len(ts) BY <1>3, OfMatch
<1>11. s6 = s5 /\ a6 = a5 + 1 /\ Is(ts, a6, "HasType") BY <1>3, OfMatch
<1>12. s7 = Onto(s6, TokenAt(ts, k)) /\ a7 = k /\ Is(ts, k, "Type") BY <1>3, <1>5, OfTake
<1>13. s8 = s7 /\ a8 = a7 + 1 /\ Is(ts, a8, "LBrace") BY <1>3, OfMatch
<1>14. PICK y : s9 = Onto(s8, y) /\ Phrase(y, a8, a9) \in d["block"] BY <1>3, OfNonterminal DEF Nonterminals, PhraseRules
<1>15. s10 = s9 /\ a10 = a9 + 1 /\ Is(ts, a10, "Return") BY <1>4, OfMatch
<1>16. PICK z : s11 = Onto(s10, z) /\ Phrase(z, a10, a11) \in d["aexp"] BY <1>4, OfNonterminal DEF Nonterminals, PhraseRules
<1>17. s12 = s11 /\ a12 = a11 + 1 /\ Is(ts, a11 + 1, "Semicolon") /\ a11 \in 0..Len(ts) BY <1>4, OfMatch
<1>18. s13 = s12 /\ a13 = a12 + 1 /\ Is(ts, a13, "RBrace") BY <1>4, OfMatch
<1>19. TokenAt(ts, j) = ts[j] /\ TokenAt(ts, k) = ts[k] BY <1>7, <1>12, TokenThere DEF TokenTypes
<1>20. Arity("fundef") = 5 BY DEF Arity
<1>21. PICK v : /\ t = Onto(s, Node("fundef", v)) /\ v[1] = ts[j] /\ v[2] = ps /\ v[3] = ts[k] /\ v[4] = y /\ v[5] = z
                /\ b = a13
  <2>1. PICK tj, tk : tj = ts[j] /\ tk = ts[k] OBVIOUS
  <2>2. /\ s2 = Onto(s, tj) /\ s4 = Onto(s2, ps) /\ s7 = Onto(s4, tk) /\ s9 = Onto(s7, y) /\ s11 = Onto(s9, z)
        /\ Performs(ts, d, B("fundef"), s11, a13, t, b) /\ IsSequence(s)
    BY ONLY <1>4, <1>6, <1>7, <1>8, <1>9, <1>10, <1>11, <1>12, <1>13, <1>14, <1>15, <1>16, <1>17, <1>18, <1>19, <2>1
  <2>3. \E v : /\ t = Onto(s, Node("fundef", v)) /\ v[1] = tj /\ v[2] = ps /\ v[3] = tk /\ v[4] = y /\ v[5] = z
               /\ b = a13
    BY ONLY <1>20, <2>2, OfBuildFive
  <2>. QED BY ONLY <2>1, <2>3
<1>22. Node("fundef", v) = FunctionDef(ts[j].s, ts[k].s, ps, y, z) BY <1>21 DEF Node, RelationalOps, LogicalOps
<1>23. PICK p, q, e : p = Phrase(ps, a3, a4) /\ q = Phrase(y, a8, a9) /\ e = Phrase(z, a10, a11) OBVIOUS
<1>24. /\ p.tree = ps /\ p.from = a3 /\ p.to = a4 /\ q.tree = y /\ q.from = a8 /\ q.to = a9
       /\ e.tree = z /\ e.from = a10 /\ e.to = a11
  BY <1>23, PhraseParts
<1>25. /\ p.from - 1 = j /\ p.from - 2 = a1 /\ p.from - 3 = a
       /\ p.to + 2 = a6 /\ p.to + 3 = k /\ q.from = p.to + 4 /\ q.to + 1 = a10 /\ e.from = q.to + 1
       /\ e.to + 1 = a11 + 1 /\ e.to + 2 = a13
  BY ONLY <1>5, <1>6, <1>7, <1>8, <1>10, <1>11, <1>12, <1>13, <1>15, <1>17, <1>18, <1>24
<1>26. InParens(ts, p) /\ Between(ts, "LBrace", q, "Return")
  BY <1>8, <1>10, <1>13, <1>15, <1>24 DEF InParens, Between
<1>27. FunctionRules(ts, d) BY DEF ObeysAsRead, CommonRules
<1>28. /\ p \in d["params"] /\ q \in d["block"] /\ e \in d["aexp"]
       /\ Is(ts, p.from - 2, "Def") /\ Is(ts, p.from - 1, "Id") /\ Is(ts, p.to + 2, "HasType") /\ Is(ts, p.to + 3, "Type")
       /\ Is(ts, e.to + 1, "Semicolon") /\ Is(ts, e.to + 2, "RBrace")
  BY ONLY <1>6, <1>7, <1>9, <1>11, <1>12, <1>14, <1>16, <1>17, <1>18, <1>23, <1>24, <1>25
<1>29. Phrase(FunctionDef(ts[p.from - 1].s, ts[p.to + 3].s, p.tree, q.tree, e.tree), p.from - 3, e.to + 2) \in d["fundef"]
  BY ONLY <1>25, <1>26, <1>27, <1>28 DEF FunctionRules
<1>. QED BY ONLY <1>21, <1>22, <1>24, <1>25, <1>29

-----------------------------------------------------------------------------
(* The steps: what has been done and what remains make a program. *)

\* Whatever the remaining tasks make of the values and the tokens that are
\* left is a program that the tokens spell from the first one on.
Spelled ==
  \A d : ObeysAsRead(tokens, d) =>
    /\ outcome = "parsing" =>
         \A x, b : PerformsAll(tokens, d, todo, values, head, <<x>>, b) => Phrase(x, 0, b) \in d["program"]
    /\ outcome = "parsed" => Phrase(values[1], 0, head) \in d["program"]

LEMMA NextIsTokenAt == IInv => nextToken = TokenAt(tokens, head + 1)
PROOF
<1>. SUFFICES ASSUME IInv PROVE nextToken = TokenAt(tokens, head + 1) OBVIOUS
<1>1. tokens \in Seq(Tokens) /\ head \in 0..Len(tokens) BY DEF IInv, TypeOK
<1>2. DOMAIN tokens = 1..Len(tokens) /\ Len(tokens) \in Nat BY <1>1
<1>3. head + 1 \in DOMAIN tokens <=> head # Len(tokens)
  <2>1. PICK n : n = Len(tokens) OBVIOUS
  <2>2. n \in Nat /\ head \in 0..n BY <1>1, <1>2, <2>1
  <2>3. head + 1 \in 1..n <=> head # n BY ONLY <2>2
  <2>. QED BY ONLY <1>2, <2>1, <2>3
<1>. QED BY <1>3 DEF nextToken, TokenAt, None

LEMMA ValuesAreSequence == IInv /\ outcome = "parsing" => IsSequence(values)
BY DEF IInv, Balanced, Stands, OfKinds

LEMMA PlacesOfAll ==
  ASSUME NEW ts, NEW d, NEW new, IsSequence(new), NEW s, NEW a, NEW t, NEW b, PerformsAll(ts, d, new, s, a, t, b),
         IsSequence(s), a \in 0..Len(ts)
  PROVE  IsSequence(t) /\ b \in 0..Len(ts)
PROOF
<1>1. PICK ss, as : /\ ss[1] = s /\ as[1] = a /\ ss[Len(new) + 1] = t /\ as[Len(new) + 1] = b
                    /\ \A k \in 1..Len(new) : Performs(ts, d, new[k], ss[k], as[k], ss[k + 1], as[k + 1])
  BY DEF PerformsAll
<1>2. Len(new) \in Nat BY SequenceBasics
<1>3. PICK n : n = Len(new) OBVIOUS
<1>4. CASE n = 0
  <2>1. Len(new) + 1 = 1 BY <1>3, <1>4
  <2>. QED BY ONLY <1>1, <2>1, IsSequence(s), a \in 0..Len(ts)
<1>5. CASE n # 0
  <2>1. n \in 1..Len(new) BY <1>2, <1>3, <1>5
  <2>2. Performs(ts, d, new[n], ss[n], as[n], ss[n + 1], as[n + 1]) BY <1>1, <2>1
  <2>3. Performs(ts, d, new[n], ss[n], as[n], t, b) BY <1>1, <1>3, <2>2
  <2>. QED BY <2>3, PlacesOf
<1>. QED BY <1>4, <1>5

\* A step that leaves tasks that do what the first did.
LEMMA Advances ==
  ASSUME IInv, IInv', Spelled, outcome = "parsing", todo # <<>>, NEW new, IsSequence(new), Then(new),
         UNCHANGED <<tokens, outcome>>,
         \A d : ObeysAsRead(tokens, d) =>
           \A t, b : PerformsAll(tokens, d, new, values', head', t, b) => TaskPerforms(tokens, d, Task, values, head, t, b)
  PROVE  Spelled'
PROOF
<1>1. IsSequence(todo) /\ head \in 0..Len(tokens) BY DEF IInv, TypeOK
<1>2. IsSequence(values) BY ValuesAreSequence
<1>3. IsSequence(values') /\ head' \in 0..Len(tokens)
  <2>1. outcome' = "parsing" /\ tokens' = tokens OBVIOUS
  <2>2. IsSequence(values') BY <2>1 DEF IInv, Balanced, Stands, OfKinds
  <2>3. head' \in 0..Len(tokens') BY DEF IInv, TypeOK
  <2>. QED BY <2>1, <2>2, <2>3
<1>4. ASSUME NEW d, ObeysAsRead(tokens, d), NEW x, NEW b, PerformsAll(tokens, d, todo', values', head', <<x>>, b)
      PROVE  Phrase(x, 0, b) \in d["program"]
  <2>1. PICK r, q : r = Tail(todo) /\ q = <<x>> OBVIOUS
  <2>2. IsSequence(r) BY <1>1, <2>1, TailSequence
  <2>3. PerformsAll(tokens, d, new \o r, values', head', q, b) BY <1>4, <2>1 DEF Then
  <2>4. PICK t, c : PerformsAll(tokens, d, new, values', head', t, c) /\ PerformsAll(tokens, d, r, t, c, q, b)
    BY <2>2, <2>3, AllOfConcat
  <2>5. TaskPerforms(tokens, d, Task, values, head, t, c) BY <1>4, <2>4
  <2>6. IsSequence(t) /\ c \in 0..Len(tokens) BY <1>3, <2>4, PlacesOfAll
  <2>7. Performs(tokens, d, Head(todo), values, head, t, c) BY <1>1, <1>2, <2>5, <2>6 DEF Performs, Task
  <2>8. PerformsAll(tokens, d, Tail(todo), t, c, q, b) BY <2>1, <2>4
  <2>9. PerformsAll(tokens, d, todo, values, head, q, b) BY <1>1, <2>7, <2>8, AllWithFirst
  <2>. QED BY <1>4, <2>1, <2>9 DEF Spelled
<1>. QED BY <1>4 DEF Spelled

\* A step that leaves nothing of the first task.
LEMMA Concludes ==
  ASSUME IInv, IInv', Spelled, outcome = "parsing", todo # <<>>, Then(<<>>), UNCHANGED <<tokens, outcome>>,
         \A d : ObeysAsRead(tokens, d) => TaskPerforms(tokens, d, Task, values, head, values', head')
  PROVE  Spelled'
PROOF
<1>1. PICK new : new = <<>> OBVIOUS
<1>2. IsSequence(new) /\ Then(new) BY <1>1, ShortSequences
<1>3. ASSUME NEW d, ObeysAsRead(tokens, d), NEW t, NEW b, PerformsAll(tokens, d, new, values', head', t, b)
      PROVE  TaskPerforms(tokens, d, Task, values, head, t, b)
  <2>1. t = values' /\ b = head' BY <1>1, <1>3, AllOfNone
  <2>. QED BY <1>3, <2>1
<1>. QED BY ONLY IInv, IInv', Spelled, outcome = "parsing", todo # <<>>, UNCHANGED <<tokens, outcome>>, <1>2, <1>3, Advances

\* A method that returns a phrase.
LEMMA Calls ==
  ASSUME IInv, IInv', Spelled, outcome = "parsing", todo # <<>>, NEW new, IsSequence(new), Then(new),
         UNCHANGED <<tokens, head, values, outcome>>, Task.op = "parse", Task.arg \in PhraseRules,
         \A d : ObeysAsRead(tokens, d) =>
           \A t, b : PerformsAll(tokens, d, new, values, head, t, b) =>
             \E x : t = Onto(values, x) /\ Phrase(x, head, b) \in Phrases(d, Task.arg)
  PROVE  Spelled'
PROOF
<1>1. ASSUME NEW d, ObeysAsRead(tokens, d), NEW t, NEW b, PerformsAll(tokens, d, new, values', head', t, b)
      PROVE  TaskPerforms(tokens, d, Task, values, head, t, b)
  <2>1. PerformsAll(tokens, d, new, values, head, t, b) BY <1>1
  <2>2. \E x : t = Onto(values, x) /\ Phrase(x, head, b) \in Phrases(d, Task.arg) BY <1>1, <2>1
  <2>3. ParsePerforms(tokens, d, Task.arg, values, head, t, b) BY <2>2 DEF ParsePerforms
  <2>. QED BY <2>3 DEF TaskPerforms
<1>. QED BY <1>1, Advances

LEMMA TokensPassed ==
  ASSUME IInv, IInv', Spelled, matchToken \/ AcceptType \/ StartList
  PROVE  Spelled'
PROOF
<1>0. nextToken = TokenAt(tokens, head + 1) BY NextIsTokenAt
<1>1. CASE matchToken
  <2>1. /\ outcome = "parsing" /\ todo # <<>> /\ Task.op \in {"match", "take"} /\ nextToken.type = Task.arg
        /\ head' = head + 1 /\ Then(<<>>) /\ UNCHANGED <<tokens, outcome>>
        /\ IF Task.op = "take" THEN Push(nextToken) ELSE UNCHANGED values
    BY <1>1 DEF matchToken, At
  <2>2. Is(tokens, head + 1, Task.arg) BY <1>0, <2>1 DEF Is
  <2>3. ASSUME NEW d PROVE TaskPerforms(tokens, d, Task, values, head, values', head')
    <3>1. CASE Task.op = "take"
      <4>1. values' = Onto(values, TokenAt(tokens, head + 1)) BY <1>0, <2>1, <3>1 DEF Push, Onto
      <4>. QED BY <2>1, <2>2, <3>1, <4>1 DEF TaskPerforms
    <3>2. CASE Task.op = "match"
      <4>1. values' = values BY <2>1, <3>2
      <4>. QED BY <2>1, <2>2, <3>2, <4>1 DEF TaskPerforms
    <3>. QED BY <2>1, <3>1, <3>2
  <2>. QED BY ONLY IInv, IInv', Spelled, <2>1, <2>3, Concludes
<1>2. CASE AcceptType
  <2>1. /\ outcome = "parsing" /\ todo # <<>> /\ Task.op = "parse" /\ Task.arg = "notint" /\ Top.s # "int"
        /\ Then(<<>>) /\ UNCHANGED <<tokens, head, values, outcome>>
    BY <1>2 DEF AcceptType, Rule, At
  <2>2. ASSUME NEW d PROVE TaskPerforms(tokens, d, Task, values, head, values', head')
    <3>1. ParsePerforms(tokens, d, Task.arg, values, head, values', head') BY <2>1 DEF ParsePerforms, Top
    <3>. QED BY <2>1, <3>1 DEF TaskPerforms
  <2>. QED BY ONLY IInv, IInv', Spelled, <2>1, <2>2, Concludes
<1>3. CASE StartList
  <2>1. /\ outcome = "parsing" /\ todo # <<>> /\ Task.op = "list" /\ values' = Onto(values, <<>>)
        /\ Then(<<>>) /\ UNCHANGED <<tokens, head, outcome>>
    BY <1>3 DEF StartList, At, Push, Onto
  <2>2. ASSUME NEW d PROVE TaskPerforms(tokens, d, Task, values, head, values', head')
    BY <2>1 DEF TaskPerforms
  <2>. QED BY ONLY IInv, IInv', Spelled, <2>1, <2>2, Concludes
<1>. QED BY <1>1, <1>2, <1>3

\* What a loop goes around is one of the lists.
LEMMA ManyIsList ==
  ASSUME IInv, At("many")
  PROVE  Task.arg \in ListRules
PROOF
<1>1. outcome = "parsing" /\ todo # <<>> /\ Task.op = "many" BY DEF At
<1>2. PICK st, h : Stands(st, h) BY <1>1 DEF IInv, Balanced
<1>3. Does(Task, h[1], h[2]) BY <1>1, <1>2, TaskDoes
<1>. QED BY <1>1, <1>3 DEF Does

LEMMA ListsPassed ==
  ASSUME IInv, IInv', Spelled, GoOn \/ EndList \/ OptionalComma
  PROVE  Spelled'
PROOF
<1>1. CASE GoOn
  <2>. DEFINE new == <<P(Task.arg), B(IF Task.arg = "field" THEN "name" ELSE "append")>>
                     \o (IF Task.arg \in {"argument", "param"} THEN <<P("comma")>> ELSE <<>>)
                     \o <<Task>>
  <2>1. outcome = "parsing" /\ todo # <<>> /\ Task.op = "many" /\ Then(new) /\ UNCHANGED <<tokens, head, values, outcome>>
    BY <1>1 DEF GoOn, At
  <2>2. Task.arg \in ListRules BY <1>1, ManyIsList DEF GoOn
  <2>3. IsSequence(new) BY ShortSequences, ConcatThree
  <2>4. ASSUME NEW d, ObeysAsRead(tokens, d), NEW t, NEW b, PerformsAll(tokens, d, new, values', head', t, b)
        PROVE  TaskPerforms(tokens, d, Task, values, head, t, b)
    <3>1. PerformsAll(tokens, d, new, values, head, t, b) BY <2>1, <2>4
    <3>2. ManyPerforms(d, Task.arg, values, head, t, b) BY <2>1, <2>2, <2>4, <3>1, ManySpelled
    <3>. QED BY <2>1, <3>2 DEF TaskPerforms
  <2>. HIDE DEF new
  <2>. QED BY ONLY IInv, IInv', Spelled, <2>1, <2>3, <2>4, Advances
<1>2. CASE EndList
  <2>1. /\ outcome = "parsing" /\ todo # <<>> /\ Task.op = "many" /\ Then(<<>>)
        /\ UNCHANGED <<tokens, head, values, outcome>>
    BY <1>2 DEF EndList, At
  <2>2. ASSUME NEW d PROVE TaskPerforms(tokens, d, Task, values, head, values', head')
    <3>1. ManyPerforms(d, Task.arg, values, head, values', head') BY <2>1 DEF ManyPerforms
    <3>. QED BY <2>1, <3>1 DEF TaskPerforms
  <2>. QED BY ONLY IInv, IInv', Spelled, <2>1, <2>2, Concludes
<1>3. CASE OptionalComma
  <2>1. /\ outcome = "parsing" /\ todo # <<>> /\ Task.op = "parse" /\ Task.arg = "comma"
        /\ Then(IF nextToken.type = "Comma" THEN <<M("Comma")>> ELSE <<>>)
        /\ UNCHANGED <<tokens, head, values, outcome>>
    BY <1>3 DEF OptionalComma, Rule, At
  <2>2. PICK new : new = IF nextToken.type = "Comma" THEN <<M("Comma")>> ELSE <<>> OBVIOUS
  <2>3. IsSequence(new) /\ Then(new) BY <2>1, <2>2, ShortSequences
  <2>4. ASSUME NEW d, ObeysAsRead(tokens, d), NEW t, NEW b, PerformsAll(tokens, d, new, values', head', t, b)
        PROVE  TaskPerforms(tokens, d, Task, values, head, t, b)
    <3>1. PerformsAll(tokens, d, new, values, head, t, b) BY <2>1, <2>4
    <3>2. CASE nextToken.type = "Comma"
      <4>1. PerformsAll(tokens, d, <<M("Comma")>>, values, head, t, b) BY <2>2, <3>1, <3>2
      <4>2. t = values /\ b = head + 1 /\ Is(tokens, head + 1, "Comma") BY <4>1, AllOfOne, OfMatch
      <4>3. ParsePerforms(tokens, d, Task.arg, values, head, t, b) BY <2>1, <4>2 DEF ParsePerforms
      <4>. QED BY <2>1, <4>3 DEF TaskPerforms
    <3>3. CASE nextToken.type # "Comma"
      <4>1. PerformsAll(tokens, d, <<>>, values, head, t, b) BY <2>2, <3>1, <3>3
      <4>2. t = values /\ b = head BY <4>1, AllOfNone
      <4>3. ParsePerforms(tokens, d, Task.arg, values, head, t, b) BY <2>1, <4>2 DEF ParsePerforms
      <4>. QED BY <2>1, <4>3 DEF TaskPerforms
    <3>. QED BY <3>2, <3>3
  <2>. QED BY ONLY IInv, IInv', Spelled, <2>1, <2>3, <2>4, Advances
<1>. QED BY <1>1, <1>2, <1>3

\* A chain, and the rest of one.
LEMMA ChainsPassed ==
  ASSUME IInv, IInv', Spelled, ParseChain \/ ParseRest \/ TagRest
  PROVE  Spelled'
PROOF
<1>0. nextToken = TokenAt(tokens, head + 1) BY NextIsTokenAt
<1>1. CASE ParseChain
  <2>1. /\ outcome = "parsing" /\ todo # <<>> /\ Task.op = "parse" /\ Task.arg \in {"aexp", "aterm", "rexp"}
        /\ Then(<<P(Operand(Task.arg)), P(Rest(Task.arg)), B("join")>>)
        /\ UNCHANGED <<tokens, head, values, outcome>>
    BY <1>1 DEF ParseChain, Rule, At
  <2>2. PICK new : new = <<P(Operand(Task.arg)), P(Rest(Task.arg)), B("join")>> OBVIOUS
  <2>3. IsSequence(new) /\ Then(new) BY <2>1, <2>2, ShortSequences
  <2>4. Task.arg \in PhraseRules /\ \A d : Phrases(d, Task.arg) = d[Task.arg] BY <2>1 DEF PhraseRules, Phrases
  <2>5. ASSUME NEW d, ObeysAsRead(tokens, d), NEW t, NEW b, PerformsAll(tokens, d, new, values, head, t, b)
        PROVE  \E x : t = Onto(values, x) /\ Phrase(x, head, b) \in Phrases(d, Task.arg)
    <3>1. \E x : t = Onto(values, x) /\ Phrase(x, head, b) \in d[Task.arg] BY <2>1, <2>2, <2>5, ChainSpelled
    <3>. QED BY <2>4, <3>1
  <2>. QED BY ONLY IInv, IInv', Spelled, <2>1, <2>3, <2>4, <2>5, Calls
<1>2. CASE ParseRest
  <2>1. /\ outcome = "parsing" /\ todo # <<>> /\ Task.op = "parse" /\ Task.arg \in RestRules
        /\ UNCHANGED <<tokens, head, outcome>>
        /\ IF NextIsOperator(LinkOps(Task.arg))
           THEN Then(Link(nextToken.s, Task.arg)) /\ UNCHANGED values
           ELSE Then(<<>>) /\ Push(NoRest)
    BY <1>2 DEF ParseRest, Rule, At, RestRules
  <2>2. CASE NextIsOperator(LinkOps(Task.arg))
    <3>1. PICK op, type : op = nextToken.s /\ type = nextToken.type OBVIOUS
    <3>2. PICK new : new = <<M(type), P(LinkOperand(Task.arg)), P(Task.arg), B(LinkNode(op, Task.arg)), Tag(op)>> OBVIOUS
    <3>3. IsSequence(new) /\ Then(new) /\ UNCHANGED values BY <2>1, <2>2, <3>1, <3>2, ShortSequences DEF Link
    <3>4. IsOperator(tokens, head + 1, LinkOps(Task.arg)) /\ op = TokenAt(tokens, head + 1).s
      BY <1>0, <2>2, <3>1 DEF NextIsOperator, IsOperator
    <3>5. ASSUME NEW d, ObeysAsRead(tokens, d), NEW t, NEW b, PerformsAll(tokens, d, new, values', head', t, b)
          PROVE  TaskPerforms(tokens, d, Task, values, head, t, b)
      <4>1. PerformsAll(tokens, d, <<M(type), P(LinkOperand(Task.arg)), P(Task.arg), B(LinkNode(op, Task.arg)), Tag(op)>>, values, head, t, b)
        BY <2>1, <3>2, <3>3, <3>5
      <4>2. \E r : t = Onto(values, r) /\ RestSpelled(tokens, d, Task.arg, r, head, b)
        BY <2>1, <3>4, <3>5, <4>1, LinkSpelled
      <4>3. ParsePerforms(tokens, d, Task.arg, values, head, t, b) BY <2>1, <4>2 DEF ParsePerforms
      <4>. QED BY <2>1, <4>3 DEF TaskPerforms
    <3>. QED BY ONLY IInv, IInv', Spelled, <2>1, <3>3, <3>5, Advances
  <2>3. CASE ~NextIsOperator(LinkOps(Task.arg))
    <3>1. Then(<<>>) /\ values' = Onto(values, NoRest) BY <2>1, <2>3 DEF Push, Onto
    <3>2. ASSUME NEW d PROVE TaskPerforms(tokens, d, Task, values, head, values', head')
      <4>1. RestSpelled(tokens, d, Task.arg, NoRest, head, head') BY <2>1 DEF RestSpelled
      <4>2. ParsePerforms(tokens, d, Task.arg, values, head, values', head') BY <2>1, <3>1, <4>1 DEF ParsePerforms
      <4>. QED BY <2>1, <4>2 DEF TaskPerforms
    <3>. QED BY ONLY IInv, IInv', Spelled, <2>1, <3>1, <3>2, Concludes
  <2>. QED BY <2>2, <2>3
<1>3. CASE TagRest
  <2>1. /\ outcome = "parsing" /\ todo # <<>> /\ Task.op = "tag" /\ Then(<<>>) /\ UNCHANGED <<tokens, head, outcome>>
        /\ values' = Append(Front(values), [op |-> "rest", link |-> Task.arg, tree |-> Top])
    BY <1>3 DEF TagRest, At
  <2>2. values # <<>> /\ IsSequence(values)
    <3>1. PICK st, h : Stands(st, h) BY <2>1 DEF IInv, Balanced
    <3>2. OfKinds(values, h[1]) /\ Does(Task, h[1], h[2]) BY <2>1, <3>1, TaskDoes
    <3>3. TagDoes(Task.arg, h[1], h[2]) BY <2>1, <3>2 DEF Does
    <3>4. PICK kind, rest : Rewrites(h[1], <<kind>>, {rest}, h[2]) BY <3>3 DEF TagDoes
    <3>5. Len(<<kind>>) = 1 OBVIOUS
    <3>6. 1 <= Len(h[1]) BY <3>4, <3>5 DEF Rewrites
    <3>7. Len(values) # 0 /\ IsSequence(values) BY <3>2, <3>6 DEF OfKinds
    <3>. QED BY <3>7
  <2>3. IsSequence(Front(values)) /\ values = Onto(Front(values), Top) BY <2>2, FrontAndLast DEF Top
  <2>4. ASSUME NEW d PROVE TaskPerforms(tokens, d, Task, values, head, values', head')
    <3>1. PICK u, x : u = Front(values) /\ x = Top OBVIOUS
    <3>2. IsSequence(u) /\ values = Onto(u, x) /\ values' = Onto(u, [op |-> "rest", link |-> Task.arg, tree |-> x])
      BY <2>1, <2>3, <3>1 DEF Onto
    <3>3. TagPerforms(Task.arg, values, values') BY ONLY <3>2 DEF TagPerforms
    <3>. QED BY <2>1, <3>3 DEF TaskPerforms
  <2>. QED BY ONLY IInv, IInv', Spelled, <2>1, <2>4, Concludes
<1>. QED BY <1>1, <1>2, <1>3

\* A method that returns a phrase of its own.
LEMMA Finds ==
  ASSUME IInv, IInv', Spelled, outcome = "parsing", todo # <<>>, NEW new, IsSequence(new), Then(new),
         UNCHANGED <<tokens, head, values, outcome>>, Task.op = "parse", Task.arg \in Nonterminals,
         \A d : ObeysAsRead(tokens, d) =>
           \A t, b : PerformsAll(tokens, d, new, values, head, t, b) =>
             \E x : t = Onto(values, x) /\ Phrase(x, head, b) \in d[Task.arg]
  PROVE  Spelled'
PROOF
<1>1. Task.arg \in PhraseRules /\ \A d : Phrases(d, Task.arg) = d[Task.arg] BY DEF Nonterminals, Phrases
<1>2. ASSUME NEW d, ObeysAsRead(tokens, d), NEW t, NEW b, PerformsAll(tokens, d, new, values, head, t, b)
      PROVE  \E x : t = Onto(values, x) /\ Phrase(x, head, b) \in Phrases(d, Task.arg)
  BY <1>1, <1>2
<1>. QED BY <1>1, <1>2, Calls

\* Factors, and the paths among them.
LEMMA FactorsPassed ==
  ASSUME IInv, IInv', Spelled, parseAFactor \/ parseAccessPath
  PROVE  Spelled'
PROOF
<1>1. CASE parseAFactor
  <2>1. PICK new : new = CASE nextToken.type = "LParen" -> <<M("LParen"), P("aexp"), M("RParen")>>
                           [] nextToken.type = "Num"    -> <<Take("Num"), B("int")>>
                           [] nextToken.type = "Id"     -> <<P("path")>>
                           [] nextToken.type = "Nil"    -> <<M("Nil"), B("nil")>>
                           [] nextToken.type = "New"    -> <<M("New"), Take("Type"), P("notint"), B("new")>>
    OBVIOUS
  <2>2. /\ outcome = "parsing" /\ todo # <<>> /\ Task.op = "parse" /\ Task.arg = "afactor"
        /\ nextToken.type \in FactorStarts /\ Then(new) /\ UNCHANGED <<tokens, head, values, outcome>>
    BY <1>1, <2>1 DEF parseAFactor, Rule, At
  <2>3. PICK type : type = nextToken.type OBVIOUS
  <2>4. \/ type = "LParen" /\ new = <<M("LParen"), P("aexp"), M("RParen")>>
        \/ type = "Num" /\ new = <<Take("Num"), B("int")>>
        \/ type = "Id" /\ new = <<P("path")>>
        \/ type = "Nil" /\ new = <<M("Nil"), B("nil")>>
        \/ type = "New" /\ new = <<M("New"), Take("Type"), P("notint"), B("new")>>
    <3>1. type \in {"LParen", "Num", "Id", "Nil", "New"} BY <2>2, <2>3 DEF FactorStarts
    <3>. QED BY ONLY <2>1, <2>3, <3>1
  <2>5. IsSequence(new) BY <2>4, ShortSequences
  <2>6. Task.arg \in Nonterminals BY <2>2 DEF Nonterminals, PhraseRules
  <2>7. ASSUME NEW d, ObeysAsRead(tokens, d), NEW t, NEW b, PerformsAll(tokens, d, new, values, head, t, b)
        PROVE  \E x : t = Onto(values, x) /\ Phrase(x, head, b) \in d[Task.arg]
    <3>1. CASE type = "LParen" BY <2>2, <2>4, <2>7, <3>1, ParenSpelled
    <3>2. CASE type = "Num" BY <2>2, <2>4, <2>7, <3>2, NumSpelled
    <3>3. CASE type = "Id" BY <2>2, <2>4, <2>7, <3>3, PathFactorSpelled
    <3>4. CASE type = "Nil" BY <2>2, <2>4, <2>7, <3>4, NilSpelled
    <3>5. CASE type = "New" BY <2>2, <2>4, <2>7, <3>5, NewSpelled
    <3>. QED BY ONLY <2>4, <3>1, <3>2, <3>3, <3>4, <3>5
  <2>. QED BY ONLY IInv, IInv', Spelled, <2>2, <2>5, <2>6, <2>7, Finds
<1>2. CASE parseAccessPath
  <2>1. PICK new : new = <<Take("Id")>> \o List("field") \o <<B("path")>> OBVIOUS
  <2>2. /\ outcome = "parsing" /\ todo # <<>> /\ Task.op = "parse" /\ Task.arg = "path"
        /\ Then(new) /\ UNCHANGED <<tokens, head, values, outcome>>
    BY <1>2, <2>1 DEF parseAccessPath, Rule, At
  <2>3. IsSequence(new)
    <3>1. IsSequence(<<Take("Id")>>) /\ IsSequence(List("field")) /\ IsSequence(<<B("path")>>)
      BY ShortSequences, ListIsSequence
    <3>. QED BY ONLY <2>1, <3>1, ConcatThree
  <2>4. Task.arg \in Nonterminals BY <2>2 DEF Nonterminals, PhraseRules
  <2>5. ASSUME NEW d, ObeysAsRead(tokens, d), NEW t, NEW b, PerformsAll(tokens, d, new, values, head, t, b)
        PROVE  \E x : t = Onto(values, x) /\ Phrase(x, head, b) \in d[Task.arg]
    BY <2>1, <2>2, <2>5, PathSpelled
  <2>. QED BY ONLY IInv, IInv', Spelled, <2>2, <2>3, <2>4, <2>5, Finds
<1>. QED BY <1>1, <1>2

\* Relational expressions.
LEMMA RelationsPassed ==
  ASSUME IInv, IInv', Spelled, parseRexpPrime1 \/ ParseComparison
  PROVE  Spelled'
PROOF
<1>0. nextToken = TokenAt(tokens, head + 1) BY NextIsTokenAt
<1>1. CASE parseRexpPrime1
  <2>1. PICK new : new = CASE nextToken.type = "LNeg"     -> <<M("LNeg"), P("rexp"), B("not")>>
                           [] nextToken.type = "LBracket" -> <<M("LBracket"), P("rexp"), M("RBracket")>>
                           [] OTHER                       -> <<P("aexp"), P("comparison")>>
    OBVIOUS
  <2>2. /\ outcome = "parsing" /\ todo # <<>> /\ Task.op = "parse" /\ Task.arg = "rexp1"
        /\ Then(new) /\ UNCHANGED <<tokens, head, values, outcome>>
    BY <1>1, <2>1 DEF parseRexpPrime1, Rule, At
  <2>3. \/ new = <<M("LNeg"), P("rexp"), B("not")>>
        \/ new = <<M("LBracket"), P("rexp"), M("RBracket")>>
        \/ new = <<P("aexp"), P("comparison")>>
    <3>1. PICK x, y, z : /\ x = <<M("LNeg"), P("rexp"), B("not")>> /\ y = <<M("LBracket"), P("rexp"), M("RBracket")>>
                         /\ z = <<P("aexp"), P("comparison")>>
      OBVIOUS
    <3>2. new = CASE nextToken.type = "LNeg" -> x [] nextToken.type = "LBracket" -> y [] OTHER -> z
      BY <2>1, <3>1
    <3>3. new = x \/ new = y \/ new = z BY ONLY <3>2
    <3>. QED BY ONLY <3>1, <3>3
  <2>4. IsSequence(new) BY <2>3, ShortSequences
  <2>5. Task.arg \in Nonterminals BY <2>2 DEF Nonterminals, PhraseRules
  <2>6. ASSUME NEW d, ObeysAsRead(tokens, d), NEW t, NEW b, PerformsAll(tokens, d, new, values, head, t, b)
        PROVE  \E x : t = Onto(values, x) /\ Phrase(x, head, b) \in d[Task.arg]
    <3>1. CASE new = <<M("LNeg"), P("rexp"), B("not")>> BY <2>2, <2>6, <3>1, NegationSpelled
    <3>2. CASE new = <<M("LBracket"), P("rexp"), M("RBracket")>> BY <2>2, <2>6, <3>2, BracketSpelled
    <3>3. CASE new = <<P("aexp"), P("comparison")>> BY <2>2, <2>6, <3>3, RelationSpelled
    <3>. QED BY ONLY <2>3, <3>1, <3>2, <3>3
  <2>. QED BY ONLY IInv, IInv', Spelled, <2>2, <2>4, <2>5, <2>6, Finds
<1>2. CASE ParseComparison
  <2>1. PICK op, new : op = nextToken.s /\ new = <<M("RelOp"), P("aexp"), B(op)>> OBVIOUS
  <2>2. /\ outcome = "parsing" /\ todo # <<>> /\ Task.op = "parse" /\ Task.arg = "comparison"
        /\ NextIsOperator(RelationalOps) /\ Then(new) /\ UNCHANGED <<tokens, head, values, outcome>>
    BY <1>2, <2>1 DEF ParseComparison, Rule, At
  <2>3. IsSequence(new) BY <2>1, ShortSequences
  <2>4. IsOperator(tokens, head + 1, RelationalOps) /\ op = TokenAt(tokens, head + 1).s
    BY <1>0, <2>1, <2>2 DEF NextIsOperator, IsOperator
  <2>5. ASSUME NEW d, ObeysAsRead(tokens, d), NEW t, NEW b, PerformsAll(tokens, d, new, values', head', t, b)
        PROVE  TaskPerforms(tokens, d, Task, values, head, t, b)
    <3>1. PerformsAll(tokens, d, <<M("RelOp"), P("aexp"), B(op)>>, values, head, t, b) BY <2>1, <2>2, <2>5
    <3>2. ParsePerforms(tokens, d, Task.arg, values, head, t, b) BY <2>2, <2>4, <2>5, <3>1, ComparisonSpelled
    <3>. QED BY <2>2, <3>2 DEF TaskPerforms
  <2>. QED BY ONLY IInv, IInv', Spelled, <2>2, <2>3, <2>5, Advances
<1>. QED BY <1>1, <1>2

\* What follows the sign of an assignment, and calls.
LEMMA RightHandSidesPassed ==
  ASSUME IInv, IInv', Spelled, LookAhead \/ LookPastEnd \/ parseFunCall
  PROVE  Spelled'
PROOF
<1>1. ASSUME NEW rule \in {"call", "aexp"}, Rule({"rhs"}), ParseRightHandSide(rule) PROVE Spelled'
  <2>1. PICK new : new = <<P(rule)>> OBVIOUS
  <2>2. /\ outcome = "parsing" /\ todo # <<>> /\ Task.op = "parse" /\ Task.arg = "rhs"
        /\ Then(new) /\ UNCHANGED <<tokens, head, values, outcome>>
    BY <1>1, <2>1 DEF ParseRightHandSide, Rule, At
  <2>3. IsSequence(new) BY <2>1, ShortSequences
  <2>4. rule \in Nonterminals /\ Task.arg \in PhraseRules BY <1>1, <2>2 DEF Nonterminals, PhraseRules
  <2>5. ASSUME NEW d, ObeysAsRead(tokens, d), NEW t, NEW b, PerformsAll(tokens, d, new, values, head, t, b)
        PROVE  \E x : t = Onto(values, x) /\ Phrase(x, head, b) \in Phrases(d, Task.arg)
    <3>1. Performs(tokens, d, P(rule), values, head, t, b) BY <2>1, <2>5, AllOfOne
    <3>2. PICK x : t = Onto(values, x) /\ Phrase(x, head, b) \in d[rule] BY <2>4, <3>1, OfNonterminal
    <3>3. Phrases(d, Task.arg) = d["aexp"] \cup d["call"] BY <2>2, PhrasesOf
    <3>4. Phrase(x, head, b) \in Phrases(d, Task.arg) BY <1>1, <3>2, <3>3
    <3>. QED BY <3>2, <3>4
  <2>. QED BY ONLY IInv, IInv', Spelled, <2>2, <2>3, <2>4, <2>5, Calls
<1>2. CASE LookAhead
  <2>1. PICK rule : rule \in {"call", "aexp"} /\ ParseRightHandSide(rule) BY <1>2 DEF LookAhead
  <2>2. Rule({"rhs"}) BY <1>2 DEF LookAhead
  <2>. QED BY <1>1, <2>1, <2>2
<1>3. CASE LookPastEnd
  <2>1. Rule({"rhs"}) BY <1>3 DEF LookPastEnd
  <2>2. CASE \E rule \in {"call", "aexp"} : ParseRightHandSide(rule) BY <1>1, <2>1, <2>2
  <2>3. CASE outcome' = "undefined" BY <2>3 DEF Spelled
  <2>. QED BY <1>3, <2>2, <2>3 DEF LookPastEnd
<1>4. CASE parseFunCall
  <2>1. PICK new : new = IF Task.arg = "argument" THEN <<P("aexp")>>
                         ELSE <<Take("Id"), M("LParen")>> \o List("argument") \o <<M("RParen"), B("call")>>
    OBVIOUS
  <2>2. /\ outcome = "parsing" /\ todo # <<>> /\ Task.op = "parse" /\ Task.arg \in {"call", "argument"}
        /\ Then(new) /\ UNCHANGED <<tokens, head, values, outcome>>
    BY <1>4, <2>1 DEF parseFunCall, Rule, At
  <2>3. CASE Task.arg = "argument"
    <3>1. new = <<P("aexp")>> BY <2>1, <2>3
    <3>2. IsSequence(new) BY <3>1, ShortSequences
    <3>3. "aexp" \in Nonterminals /\ Task.arg \in PhraseRules BY <2>3 DEF Nonterminals, PhraseRules
    <3>4. ASSUME NEW d, ObeysAsRead(tokens, d), NEW t, NEW b, PerformsAll(tokens, d, new, values, head, t, b)
          PROVE  \E x : t = Onto(values, x) /\ Phrase(x, head, b) \in Phrases(d, Task.arg)
      <4>1. Performs(tokens, d, P("aexp"), values, head, t, b) BY <3>1, <3>4, AllOfOne
      <4>2. \E x : t = Onto(values, x) /\ Phrase(x, head, b) \in d["aexp"] BY <3>3, <4>1, OfNonterminal
      <4>3. Phrases(d, Task.arg) = d["aexp"] BY <2>3, PhrasesOf
      <4>. QED BY <4>2, <4>3
    <3>. QED BY ONLY IInv, IInv', Spelled, <2>2, <3>2, <3>3, <3>4, Calls
  <2>4. CASE Task.arg = "call"
    <3>1. new = <<Take("Id"), M("LParen")>> \o List("argument") \o <<M("RParen"), B("call")>> BY <2>1, <2>4
    <3>2. IsSequence(new)
      <4>1. IsSequence(<<Take("Id"), M("LParen")>>) /\ IsSequence(List("argument")) /\ IsSequence(<<M("RParen"), B("call")>>)
        BY ShortSequences, ListIsSequence
      <4>. QED BY ONLY <3>1, <4>1, ConcatThree
    <3>3. Task.arg \in Nonterminals BY <2>4 DEF Nonterminals, PhraseRules
    <3>4. ASSUME NEW d, ObeysAsRead(tokens, d), NEW t, NEW b, PerformsAll(tokens, d, new, values, head, t, b)
          PROVE  \E x : t = Onto(values, x) /\ Phrase(x, head, b) \in d[Task.arg]
      <4>1. PerformsAll(tokens, d, <<Take("Id"), M("LParen")>> \o List("argument") \o <<M("RParen"), B("call")>>,
                        values, head, t, b)
        BY ONLY <3>1, <3>4
      <4>2. \E x : t = Onto(values, x) /\ Phrase(x, head, b) \in d["call"] BY ONLY <3>4, <4>1, CallSpelled
      <4>. QED BY <2>4, <4>2
    <3>. QED BY ONLY IInv, IInv', Spelled, <2>2, <3>2, <3>3, <3>4, Finds
  <2>. QED BY <2>2, <2>3, <2>4
<1>. QED BY <1>2, <1>3, <1>4

LEMMA ConcatFour ==
  ASSUME NEW s, NEW t, NEW u, NEW v, IsSequence(s), IsSequence(t), IsSequence(u), IsSequence(v)
  PROVE  IsSequence(s \o t \o u \o v)
PROOF
<1>1. PICK w : w = s \o t \o u OBVIOUS
<1>2. IsSequence(w) BY ONLY <1>1, ConcatThree, IsSequence(s), IsSequence(t), IsSequence(u)
<1>3. IsSequence(w \o v) BY ONLY <1>2, ConcatSequences, IsSequence(v)
<1>. QED BY ONLY <1>1, <1>3

LEMMA StatementsPassed ==
  ASSUME IInv, IInv', Spelled, ParseStatement
  PROVE  Spelled'
PROOF
<1>0. IsSequence(Condition) /\ IsSequence(Branch) BY ShortSequences DEF Condition, Branch
<1>1. PICK new : new = CASE Task.arg = "statement" -> StatementTasks
                         [] Task.arg = "block" -> List("declaration") \o List("statement") \o <<B("block")>>
                         [] Task.arg = "else" -> IF nextToken.type = "Else" THEN <<M("Else")>> \o Branch
                                                 ELSE <<B("noelse")>>
  OBVIOUS
<1>2. /\ outcome = "parsing" /\ todo # <<>> /\ Task.op = "parse" /\ Task.arg \in StatementRules
      /\ Then(new) /\ UNCHANGED <<tokens, head, values, outcome>>
  BY <1>1 DEF ParseStatement, Rule, At
<1>3. Task.arg \in Nonterminals BY <1>2 DEF Nonterminals, PhraseRules, StatementRules
<1>4. CASE Task.arg = "statement"
  <2>1. PICK type : type = nextToken.type OBVIOUS
  <2>2. type \in {"Id", "While", "If"} BY <1>4, <2>1, StatementDoes DEF ParseStatement, Rule, At, StatementAhead, FirstOf
  <2>3. \/ type = "While" /\ new = <<M("While")>> \o Condition \o Branch \o <<B("while")>>
        \/ type = "If" /\ new = <<M("If")>> \o Condition \o Branch \o <<P("else"), B("if")>>
        \/ type = "Id" /\ new = <<P("path"), M("Assign"), P("rhs"), M("Semicolon"), B("assign")>>
    <3>1. new = StatementTasks BY <1>1, <1>4
    <3>2. CASE type = "While" BY <2>1, <3>1, <3>2 DEF StatementTasks
    <3>3. CASE type = "If" BY <2>1, <3>1, <3>3 DEF StatementTasks
    <3>4. CASE type = "Id" BY <2>1, <3>1, <3>4 DEF StatementTasks
    <3>. QED BY ONLY <2>2, <3>2, <3>3, <3>4
  <2>4. IsSequence(new)
    <3>1. PICK x, y, z, w : x = <<M("While")>> /\ y = <<B("while")>> /\ z = <<M("If")>> /\ w = <<P("else"), B("if")>> OBVIOUS
    <3>2. IsSequence(x) /\ IsSequence(y) /\ IsSequence(z) /\ IsSequence(w) BY <3>1, ShortSequences
    <3>3. IsSequence(x \o Condition \o Branch \o y) /\ IsSequence(z \o Condition \o Branch \o w)
      BY ONLY <1>0, <3>2, ConcatFour
    <3>4. IsSequence(<<P("path"), M("Assign"), P("rhs"), M("Semicolon"), B("assign")>>) BY ShortSequences
    <3>. QED BY ONLY <2>3, <3>1, <3>3, <3>4
  <2>5. ASSUME NEW d, ObeysAsRead(tokens, d), NEW t, NEW b, PerformsAll(tokens, d, new, values, head, t, b)
        PROVE  \E x : t = Onto(values, x) /\ Phrase(x, head, b) \in d[Task.arg]
    <3>1. CASE type = "While"
      <4>1. Task.arg = "statement" /\ new = <<M("While")>> \o Condition \o Branch \o <<B("while")>>
        BY <1>4, <2>3, <3>1
      <4>2. PerformsAll(tokens, d, <<M("While")>> \o Condition \o Branch \o <<B("while")>>, values, head, t, b)
        BY ONLY <2>5, <4>1
      <4>3. \E x : t = Onto(values, x) /\ Phrase(x, head, b) \in d["statement"] BY ONLY <2>5, <4>2, WhileSpelled
      <4>. QED BY ONLY <4>1, <4>3
    <3>2. CASE type = "If"
      <4>1. Task.arg = "statement" /\ new = <<M("If")>> \o Condition \o Branch \o <<P("else"), B("if")>>
        BY <1>4, <2>3, <3>2
      <4>2. PerformsAll(tokens, d, <<M("If")>> \o Condition \o Branch \o <<P("else"), B("if")>>, values, head, t, b)
        BY ONLY <2>5, <4>1
      <4>3. \E x : t = Onto(values, x) /\ Phrase(x, head, b) \in d["statement"] BY ONLY <2>5, <4>2, IfSpelled
      <4>. QED BY ONLY <4>1, <4>3
    <3>3. CASE type = "Id" BY <1>4, <2>3, <2>5, <3>3, AssignmentSpelled
    <3>. QED BY ONLY <2>3, <3>1, <3>2, <3>3
  <2>. QED BY ONLY IInv, IInv', Spelled, <1>2, <1>3, <2>4, <2>5, Finds
<1>5. CASE Task.arg = "block"
  <2>1. new = List("declaration") \o List("statement") \o <<B("block")>> BY <1>1, <1>5
  <2>2. IsSequence(new)
    <3>1. IsSequence(List("declaration")) /\ IsSequence(List("statement")) /\ IsSequence(<<B("block")>>)
      BY ShortSequences, ListIsSequence
    <3>. QED BY ONLY <2>1, <3>1, ConcatThree
  <2>3. ASSUME NEW d, ObeysAsRead(tokens, d), NEW t, NEW b, PerformsAll(tokens, d, new, values, head, t, b)
        PROVE  \E x : t = Onto(values, x) /\ Phrase(x, head, b) \in d[Task.arg]
    BY <1>5, <2>1, <2>3, BlockSpelled
  <2>. QED BY ONLY IInv, IInv', Spelled, <1>2, <1>3, <2>2, <2>3, Finds
<1>6. CASE Task.arg = "else"
  <2>1. new = IF nextToken.type = "Else" THEN <<M("Else")>> \o Branch ELSE <<B("noelse")>> BY <1>1, <1>6
  <2>2. IsSequence(new)
    <3>1. PICK x, y : x = <<M("Else")>> /\ y = <<B("noelse")>> OBVIOUS
    <3>2. IsSequence(x) /\ IsSequence(y) BY <3>1, ShortSequences
    <3>3. IsSequence(x \o Branch) BY ONLY <1>0, <3>2, ConcatSequences
    <3>. QED BY ONLY <2>1, <3>1, <3>2, <3>3
  <2>3. ASSUME NEW d, ObeysAsRead(tokens, d), NEW t, NEW b, PerformsAll(tokens, d, new, values, head, t, b)
        PROVE  \E x : t = Onto(values, x) /\ Phrase(x, head, b) \in d[Task.arg]
    <3>1. CASE nextToken.type = "Else"
      <4>1. new = <<M("Else")>> \o Branch BY <2>1, <3>1
      <4>. QED BY <1>6, <2>3, <4>1, ElseSpelled
    <3>2. CASE nextToken.type # "Else"
      <4>1. new = <<B("noelse")>> BY <2>1, <3>2
      <4>. QED BY <1>6, <2>3, <4>1, NoElseSpelled
    <3>. QED BY <3>1, <3>2
  <2>. QED BY ONLY IInv, IInv', Spelled, <1>2, <1>3, <2>2, <2>3, Finds
<1>. QED BY <1>2, <1>4, <1>5, <1>6 DEF StatementRules

LEMMA DefinitionsPassed ==
  ASSUME IInv, IInv', Spelled, ParseDefinition
  PROVE  Spelled'
PROOF
<1>1. PICK rule, new : rule = Task.arg /\ new = DefinitionTasks(rule) OBVIOUS
<1>2. /\ outcome = "parsing" /\ todo # <<>> /\ Task.op = "parse" /\ Task.arg \in DefinitionRules
      /\ Then(new) /\ UNCHANGED <<tokens, head, values, outcome>>
  BY <1>1 DEF ParseDefinition, Rule, At
<1>3. \/ rule = "declaration" /\ new = <<Take("Type"), Take("Id"), M("Semicolon"), B("declaration")>>
      \/ rule = "param" /\ new = <<Take("Type"), Take("Id"), B("declaration")>>
      \/ rule = "field" /\ new = <<M("Dot"), Take("Id")>>
      \/ rule = "fundef" /\ new = <<M("Def"), Take("Id"), M("LParen")>> \o List("param")
                                  \o <<M("RParen"), M("HasType"), Take("Type"), M("LBrace"), P("block"), M("Return"),
                                       P("aexp"), M("Semicolon"), M("RBrace"), B("fundef")>>
      \/ rule = "typedef" /\ new = <<M("Struct"), Take("Type"), P("notint"), M("LBrace")>> \o List("declaration")
                                   \o <<M("RBrace"), M("Semicolon"), B("typedef")>>
      \/ rule = "program" /\ new = List("typedef") \o List("fundef")
                                   \o <<P("block"), M("Output"), P("aexp"), M("Semicolon"), B("program")>>
  <2>0. rule \in {"declaration", "param", "field", "fundef", "typedef", "program"} BY <1>1, <1>2 DEF DefinitionRules
  <2>1. CASE rule = "declaration" BY <1>1, <2>1 DEF DefinitionTasks
  <2>2. CASE rule = "param" BY <1>1, <2>2 DEF DefinitionTasks
  <2>3. CASE rule = "field" BY <1>1, <2>3 DEF DefinitionTasks
  <2>4. CASE rule = "fundef" BY <1>1, <2>4 DEF DefinitionTasks
  <2>5. CASE rule = "typedef" BY <1>1, <2>5 DEF DefinitionTasks
  <2>6. CASE rule = "program" BY <1>1, <2>6 DEF DefinitionTasks
  <2>. QED BY ONLY <2>0, <2>1, <2>2, <2>3, <2>4, <2>5, <2>6
<1>4. IsSequence(new)
  <2>1. PICK x1, x2, x3, x4, x5, x6, x7 :
          /\ x1 = <<M("Def"), Take("Id"), M("LParen")>>
          /\ x2 = <<M("RParen"), M("HasType"), Take("Type"), M("LBrace"), P("block"), M("Return"),
                    P("aexp"), M("Semicolon"), M("RBrace"), B("fundef")>>
          /\ x3 = <<M("Struct"), Take("Type"), P("notint"), M("LBrace")>>
          /\ x4 = <<M("RBrace"), M("Semicolon"), B("typedef")>>
          /\ x5 = <<P("block"), M("Output"), P("aexp"), M("Semicolon"), B("program")>>
          /\ x6 = <<M("RParen"), M("HasType"), Take("Type"), M("LBrace"), P("block")>>
          /\ x7 = <<M("Return"), P("aexp"), M("Semicolon"), M("RBrace"), B("fundef")>>
    OBVIOUS
  <2>2. /\ IsSequence(x1) /\ IsSequence(x3) /\ IsSequence(x4) /\ IsSequence(x5) /\ IsSequence(x6) /\ IsSequence(x7)
        /\ \A r : IsSequence(List(r))
    BY <2>1, ShortSequences, ListIsSequence
  <2>3. x2 = x6 \o x7 BY ONLY <2>1
  <2>4. IsSequence(x2) BY ONLY <2>2, <2>3, ConcatSequences
  <2>5. CASE rule \in {"declaration", "param", "field"}
    <3>1. /\ IsSequence(<<Take("Type"), Take("Id"), M("Semicolon"), B("declaration")>>)
          /\ IsSequence(<<Take("Type"), Take("Id"), B("declaration")>>) /\ IsSequence(<<M("Dot"), Take("Id")>>)
      BY ShortSequences
    <3>. QED BY <1>3, <2>5, <3>1
  <2>6. CASE rule = "fundef"
    <3>1. new = x1 \o List("param") \o x2 BY <1>3, <2>1, <2>6
    <3>. QED BY ONLY <2>2, <2>4, <3>1, ConcatThree
  <2>7. CASE rule = "typedef"
    <3>1. new = x3 \o List("declaration") \o x4 BY <1>3, <2>1, <2>7
    <3>. QED BY ONLY <2>2, <3>1, ConcatThree
  <2>8. CASE rule = "program"
    <3>1. new = List("typedef") \o List("fundef") \o x5 BY <1>3, <2>1, <2>8
    <3>. QED BY ONLY <2>2, <3>1, ConcatThree
  <2>. QED BY ONLY <1>3, <2>5, <2>6, <2>7, <2>8
<1>5. CASE rule = "field"
  <2>1. new = <<M("Dot"), Take("Id")>> BY <1>3, <1>5
  <2>2. ASSUME NEW d, ObeysAsRead(tokens, d), NEW t, NEW b, PerformsAll(tokens, d, new, values', head', t, b)
        PROVE  TaskPerforms(tokens, d, Task, values, head, t, b)
    <3>1. PerformsAll(tokens, d, <<M("Dot"), Take("Id")>>, values, head, t, b) BY <1>2, <2>1, <2>2
    <3>2. \E x : t = Onto(values, x) /\ Phrase(x.s, head, b) \in d["field"] BY <2>2, <3>1, FieldSpelled
    <3>3. ParsePerforms(tokens, d, Task.arg, values, head, t, b) BY <1>1, <1>5, <3>2 DEF ParsePerforms
    <3>. QED BY <1>2, <3>3 DEF TaskPerforms
  <2>. QED BY ONLY IInv, IInv', Spelled, <1>2, <1>4, <2>2, Advances
<1>6. CASE rule # "field"
  <2>1. Task.arg \in Nonterminals BY <1>1, <1>2, <1>6 DEF Nonterminals, PhraseRules, DefinitionRules
  <2>2. ASSUME NEW d, ObeysAsRead(tokens, d), NEW t, NEW b, PerformsAll(tokens, d, new, values, head, t, b)
        PROVE  \E x : t = Onto(values, x) /\ Phrase(x, head, b) \in d[Task.arg]
    <3>1. CASE rule = "declaration" BY <1>1, <1>3, <2>2, <3>1, DeclarationSpelled
    <3>2. CASE rule = "param" BY <1>1, <1>3, <2>2, <3>2, ParamSpelled
    <3>3. CASE rule = "fundef"
      <4>1. PICK s : s = <<M("Def"), Take("Id"), M("LParen")>> \o List("param")
              \o <<M("RParen"), M("HasType"), Take("Type"), M("LBrace"), P("block"), M("Return"),
                   P("aexp"), M("Semicolon"), M("RBrace"), B("fundef")>>
        OBVIOUS
      <4>2. new = s BY <1>3, <3>3, <4>1
      <4>3. PerformsAll(tokens, d, s, values, head, t, b) BY ONLY <2>2, <4>2
      <4>4. PerformsAll(tokens, d, <<M("Def"), Take("Id"), M("LParen")>> \o List("param")
              \o <<M("RParen"), M("HasType"), Take("Type"), M("LBrace"), P("block"), M("Return"),
                   P("aexp"), M("Semicolon"), M("RBrace"), B("fundef")>>, values, head, t, b)
        BY ONLY <4>1, <4>3
      <4>5. \E x : t = Onto(values, x) /\ Phrase(x, head, b) \in d["fundef"] BY ONLY <2>2, <4>4, FunctionSpelled
      <4>. QED BY <1>1, <3>3, <4>5
    <3>4. CASE rule = "typedef"
      <4>1. PICK s : s = <<M("Struct"), Take("Type"), P("notint"), M("LBrace")>> \o List("declaration")
              \o <<M("RBrace"), M("Semicolon"), B("typedef")>>
        OBVIOUS
      <4>2. new = s BY <1>3, <3>4, <4>1
      <4>3. PerformsAll(tokens, d, s, values, head, t, b) BY ONLY <2>2, <4>2
      <4>4. PerformsAll(tokens, d, <<M("Struct"), Take("Type"), P("notint"), M("LBrace")>> \o List("declaration")
              \o <<M("RBrace"), M("Semicolon"), B("typedef")>>, values, head, t, b)
        BY ONLY <4>1, <4>3
      <4>5. \E x : t = Onto(values, x) /\ Phrase(x, head, b) \in d["typedef"] BY ONLY <2>2, <4>4, TypeDefSpelled
      <4>. QED BY <1>1, <3>4, <4>5
    <3>5. CASE rule = "program"
      <4>1. PICK s : s = List("typedef") \o List("fundef")
              \o <<P("block"), M("Output"), P("aexp"), M("Semicolon"), B("program")>>
        OBVIOUS
      <4>2. new = s BY <1>3, <3>5, <4>1
      <4>3. PerformsAll(tokens, d, s, values, head, t, b) BY ONLY <2>2, <4>2
      <4>4. PerformsAll(tokens, d, List("typedef") \o List("fundef")
              \o <<P("block"), M("Output"), P("aexp"), M("Semicolon"), B("program")>>, values, head, t, b)
        BY ONLY <4>1, <4>3
      <4>5. \E x : t = Onto(values, x) /\ Phrase(x, head, b) \in d["program"] BY ONLY <2>2, <4>4, ProgramSpelled
      <4>. QED BY <1>1, <3>5, <4>5
    <3>. QED BY ONLY <1>3, <1>6, <3>1, <3>2, <3>3, <3>4, <3>5
  <2>. QED BY ONLY IInv, IInv', Spelled, <1>2, <1>4, <2>1, <2>2, Finds
<1>. QED BY <1>5, <1>6

\* The sequence up to k is that up to k - 1, and its k-th element.
LEMMA OneMore ==
  ASSUME NEW s, IsSequence(s), NEW k \in 1..Len(s)
  PROVE  SubSeq(s, 1, k) = Onto(SubSeq(s, 1, k - 1), s[k])
PROOF
<1>1. Len(s) \in Nat BY SequenceBasics
<1>2. PICK n, j : n = Len(s) /\ j = k - 1 OBVIOUS
<1>3. /\ 1 \in 1..(n + 1) /\ k \in 0..n /\ j \in 0..n /\ 1 <= k + 1 /\ 1 <= j + 1 /\ k - 1 + 1 = k /\ j - 1 + 1 = j
      /\ j + 1 = k /\ j \in Nat /\ k \in Nat
  BY <1>1, <1>2
<1>4. PICK p, q, r : p = SubSeq(s, 1, k) /\ q = SubSeq(s, 1, j) /\ r = Append(q, s[k]) OBVIOUS
<1>5. IsSequence(p) /\ Len(p) = k /\ \A i \in 1..k : p[i] = s[i]
  <2>1. IsSequence(p) /\ Len(p) = k - 1 + 1 /\ \A i \in 1..(k - 1 + 1) : p[i] = s[1 + i - 1]
    BY ONLY IsSequence(s), <1>2, <1>3, <1>4, SubSequence
  <2>2. \A i \in 1..k : 1 + i - 1 = i BY ONLY <1>3
  <2>. QED BY ONLY <1>3, <2>1, <2>2
<1>6. IsSequence(q) /\ Len(q) = j /\ \A i \in 1..j : q[i] = s[i]
  <2>1. IsSequence(q) /\ Len(q) = j - 1 + 1 /\ \A i \in 1..(j - 1 + 1) : q[i] = s[1 + i - 1]
    BY ONLY IsSequence(s), <1>2, <1>3, <1>4, SubSequence
  <2>2. \A i \in 1..j : 1 + i - 1 = i BY ONLY <1>3
  <2>. QED BY ONLY <1>3, <2>1, <2>2
<1>7. IsSequence(r) /\ Len(r) = k /\ (\A i \in 1..j : r[i] = s[i]) /\ r[k] = s[k]
  BY <1>3, <1>4, <1>6, AppendSequence
<1>8. \A i \in 1..k : p[i] = r[i]
  <2>1. \A i \in 1..k : i = k \/ i \in 1..j BY ONLY <1>3
  <2>. QED BY ONLY <1>5, <1>7, <2>1
<1>9. p = r BY ONLY <1>5, <1>7, <1>8, SameSequence
<1>. QED BY <1>2, <1>4, <1>9 DEF Onto

\* A node takes the place of its parts.
LEMMA NodesPassed ==
  ASSUME IInv, IInv', Spelled, BuildNode
  PROVE  Spelled'
PROOF
<1>1. PICK m, n : m = Arity(Task.arg) /\ n = Len(values) - m OBVIOUS
<1>2. /\ outcome = "parsing" /\ todo # <<>> /\ Task.op = "build" /\ Then(<<>>) /\ UNCHANGED <<tokens, head, outcome>>
      /\ values' = Append(SubSeq(values, 1, n), Node(Task.arg, SubSeq(values, n + 1, Len(values))))
  BY <1>1 DEF BuildNode, At
<1>3. m \in Nat /\ m <= Len(values) BY <1>1, PartsThere DEF BuildNode
<1>4. IsSequence(values) /\ Len(values) \in Nat BY <1>2, ValuesAreSequence, SequenceBasics
<1>5. PICK l : l = Len(values) OBVIOUS
<1>6. l \in Nat /\ n \in 0..l /\ n + m = l /\ n = l - m /\ m \in 0..l BY <1>1, <1>3, <1>4, <1>5
<1>7. PICK us, v : us = [k \in 0..m |-> SubSeq(values, 1, n + k)] /\ v = SubSeq(values, n + 1, l) OBVIOUS
<1>8. \A k \in 0..m : us[k] = SubSeq(values, 1, n + k) BY <1>7
<1>9. us[0] = SubSeq(values, 1, n) /\ IsSequence(us[0])
  <2>1. 0 \in 0..m /\ n + 0 = n /\ 1 \in 1..(l + 1) /\ 1 <= n + 1 BY <1>6
  <2>2. us[0] = SubSeq(values, 1, n) BY <1>8, <2>1
  <2>3. IsSequence(SubSeq(values, 1, n)) BY ONLY <1>4, <1>5, <1>6, <2>1, SubSequence
  <2>. QED BY ONLY <2>2, <2>3
<1>10. values = us[m]
  <2>1. m \in 0..m /\ n + m = l /\ 1 \in 1..(l + 1) /\ l \in 0..l /\ 1 <= l + 1 /\ l - 1 + 1 = l BY <1>6
  <2>2. PICK p : p = SubSeq(values, 1, l) OBVIOUS
  <2>3. IsSequence(p) /\ Len(p) = l - 1 + 1 /\ \A i \in 1..(l - 1 + 1) : p[i] = values[1 + i - 1]
    BY ONLY <1>4, <1>5, <2>1, <2>2, SubSequence
  <2>4. \A i \in 1..l : 1 + i - 1 = i BY <1>6
  <2>5. Len(p) = Len(values) /\ \A i \in 1..Len(values) : values[i] = p[i] BY ONLY <1>5, <2>1, <2>3, <2>4
  <2>6. values = p BY ONLY <1>4, <2>3, <2>5, SameSequence
  <2>. QED BY <1>8, <2>1, <2>2, <2>6
<1>11. ASSUME NEW k \in 1..m PROVE us[k] = Onto(us[k - 1], v[k])
  <2>1. PICK i : i = n + k OBVIOUS
  <2>2. /\ i \in 1..Len(values) /\ k \in 0..m /\ k - 1 \in 0..m /\ n + (k - 1) = i - 1
        /\ n + 1 \in 1..(l + 1) /\ l \in 0..l /\ n + 1 <= l + 1 /\ k \in 1..(l - (n + 1) + 1) /\ n + 1 + k - 1 = i
    BY ONLY <1>5, <1>6, <2>1
  <2>3. v[k] = values[i]
    <3>1. \A j \in 1..(l - (n + 1) + 1) : v[j] = values[n + 1 + j - 1]
      BY ONLY <1>4, <1>5, <1>7, <2>2, SubSequence
    <3>. QED BY ONLY <2>2, <3>1
  <2>4. us[k] = SubSeq(values, 1, i) /\ us[k - 1] = SubSeq(values, 1, i - 1) BY ONLY <1>8, <2>1, <2>2
  <2>5. SubSeq(values, 1, i) = Onto(SubSeq(values, 1, i - 1), values[i]) BY ONLY <1>4, <2>2, OneMore
  <2>. QED BY ONLY <2>3, <2>4, <2>5
<1>12. values' = Onto(us[0], Node(Task.arg, v)) BY <1>2, <1>5, <1>7, <1>9 DEF Onto
<1>13. BuildPerforms(Task.arg, values, values')
  <2>1. PICK node : node = Task.arg OBVIOUS
  <2>2. /\ IsSequence(us[0]) /\ values = us[Arity(node)] /\ values' = Onto(us[0], Node(node, v))
        /\ \A k \in 1..Arity(node) : us[k] = Onto(us[k - 1], v[k])
    BY <1>1, <1>9, <1>10, <1>11, <1>12, <2>1
  <2>3. BuildPerforms(node, values, values') BY ONLY <2>2 DEF BuildPerforms
  <2>. QED BY ONLY <2>1, <2>3
<1>14. ASSUME NEW d PROVE TaskPerforms(tokens, d, Task, values, head, values', head')
  BY <1>2, <1>13 DEF TaskPerforms
<1>. QED BY ONLY IInv, IInv', Spelled, <1>2, <1>14, Concludes

\* Nothing remains: the only value is the program.
LEMMA FinishPassed ==
  ASSUME IInv, IInv', Spelled, Finish
  PROVE  Spelled'
PROOF
<1>1. /\ outcome = "parsing" /\ todo = <<>> /\ outcome' = "parsed" /\ UNCHANGED <<tokens, head, todo, values>>
  BY DEF Finish
<1>2. values = <<values[1]>>
  <2>1. Len(values) = 1
    <3>1. outcome' = "parsed" => Len(values') = 1 BY DEF IInv, TypeOK
    <3>. QED BY <1>1, <3>1
  <2>2. PICK x, p : x = values[1] /\ p = <<x>> OBVIOUS
  <2>3. IsSequence(p) /\ Len(p) = 1 /\ p[1] = x BY <2>2, ShortSequences
  <2>4. \A i \in 1..Len(values) : values[i] = p[i] BY <2>1, <2>2, <2>3
  <2>5. values = p BY <1>1, <2>1, <2>3, <2>4, ValuesAreSequence, SameSequence
  <2>. QED BY <2>2, <2>5
<1>3. ASSUME NEW d, ObeysAsRead(tokens, d) PROVE Phrase(values[1], 0, head) \in d["program"]
  <2>1. PICK q, x, r : q = <<>> /\ x = values[1] /\ r = <<x>> OBVIOUS
  <2>2. IsSequence(q) /\ Len(q) = 0 BY <2>1, ShortSequences
  <2>3. PerformsAll(tokens, d, q, values, head, r, head)
    <3>1. PICK ss, as : ss = [k \in {1} |-> values] /\ as = [k \in {1} |-> head] OBVIOUS
    <3>2. ss[1] = values /\ as[1] = head /\ values = r /\ Len(q) + 1 = 1 /\ 1..Len(q) = {} BY <1>2, <2>1, <2>2, <3>1
    <3>. QED BY ONLY <2>2, <3>2 DEF PerformsAll
  <2>4. PerformsAll(tokens, d, todo, values, head, <<x>>, head) BY <1>1, <2>1, <2>3
  <2>5. Phrase(x, 0, head) \in d["program"] BY <1>1, <1>3, <2>4 DEF Spelled
  <2>. QED BY <2>1, <2>5
<1>. QED BY <1>1, <1>3 DEF Spelled

LEMMA StepSpelled == IInv /\ IInv' /\ Spelled /\ [Next]_vars => Spelled'
PROOF
<1>. SUFFICES ASSUME IInv, IInv', Spelled, [Next]_vars PROVE Spelled' OBVIOUS
<1>1. CASE UNCHANGED vars BY <1>1 DEF vars, Spelled
<1>2. ASSUME Reject PROVE Spelled' BY <1>2 DEF Reject, Spelled
<1>3. CASE matchToken \/ AcceptType \/ StartList BY <1>3, TokensPassed
<1>4. CASE GoOn \/ EndList \/ OptionalComma BY <1>4, ListsPassed
<1>5. CASE ParseChain \/ ParseRest \/ TagRest BY <1>5, ChainsPassed
<1>6. CASE parseAFactor \/ parseAccessPath BY <1>6, FactorsPassed
<1>7. CASE parseRexpPrime1 \/ ParseComparison BY <1>7, RelationsPassed
<1>8. CASE LookAhead \/ LookPastEnd \/ parseFunCall BY <1>8, RightHandSidesPassed
<1>9. CASE MismatchedToken \/ RejectExpression BY <1>2, <1>9 DEF MismatchedToken, RejectExpression
<1>10. CASE ParseStatement BY <1>10, StatementsPassed
<1>11. CASE ParseDefinition BY <1>11, DefinitionsPassed
<1>12. CASE BuildNode BY <1>12, NodesPassed
<1>13. CASE Finish BY <1>13, FinishPassed
<1>14. CASE Ended BY <1>1, <1>14 DEF Ended
<1>. QED BY <1>1, <1>3, <1>4, <1>5, <1>6, <1>7, <1>8, <1>9, <1>10, <1>11, <1>12, <1>13, <1>14 DEF Next, Step

LEMMA InitiallySpelled == Init => Spelled
PROOF
<1>. SUFFICES ASSUME Init PROVE Spelled OBVIOUS
<1>1. outcome = "parsing" /\ head = 0 /\ values = <<>> /\ todo = <<P("program")>> BY DEF Init
<1>2. ASSUME NEW d, ObeysAsRead(tokens, d), NEW x, NEW b, PerformsAll(tokens, d, todo, values, head, <<x>>, b)
      PROVE  Phrase(x, 0, b) \in d["program"]
  <2>1. PICK q, r : q = <<>> /\ r = <<x>> OBVIOUS
  <2>2. PerformsAll(tokens, d, <<P("program")>>, q, 0, r, b) BY <1>1, <1>2, <2>1
  <2>3. Performs(tokens, d, P("program"), q, 0, r, b) BY ONLY <2>2, AllOfOne
  <2>4. "program" \in Nonterminals BY DEF Nonterminals, PhraseRules
  <2>5. PICK y : r = Onto(q, y) /\ Phrase(y, 0, b) \in d["program"] BY ONLY <2>3, <2>4, OfNonterminal
  <2>6. y = x
    <3>1. <<x>> = Append(<<>>, x) OBVIOUS
    <3>2. r = Onto(q, x) BY <2>1, <3>1 DEF Onto
    <3>3. IsSequence(q) BY <2>1, ShortSequences
    <3>. QED BY ONLY <2>5, <3>2, <3>3, Unpushed
  <2>. QED BY <2>5, <2>6
<1>. QED BY <1>1, <1>2 DEF Spelled

\* What parse() returns is a program that the tokens it has matched are read
\* as by the rules of L2Syntax: no token is passed over, and none is used for
\* anything but what it says, but for a connective behind another one in a
\* chain, in whose place parseRexpPrime2 uses the one before it.
ParsedAsRead == outcome = "parsed" => ReadsAs(tokens, head, values[1])

THEOREM ParsesAsRead == Spec => []ParsedAsRead
PROOF
<1>1. Init => IInv /\ Spelled BY Initially, InitiallySpelled
<1>2. IInv /\ Spelled /\ [Next]_vars => (IInv /\ Spelled)' BY StepKeeps, StepSpelled
<1>3. IInv /\ Spelled => ParsedAsRead BY DEF Spelled, ParsedAsRead, ReadsAs
<1>. QED BY <1>1, <1>2, <1>3, PTL DEF Spec

\* Where all connectives are the same, the two rules for chains agree.
LEMMA WrittenAsRead ==
  ASSUME NEW ts, OneConnective(ts), NEW d, Obeys(ts, d)
  PROVE  ObeysAsRead(ts, d)
PROOF
<1>1. ASSUME NEW l \in d["rexp1"], NEW r \in d["conditions"], Connected(ts, l, r), IsOperator(ts, l.from, LogicalOps)
      PROVE  Joined(ts, l.from, l, r) \in d["conditions"]
  <2>1. Joined(ts, l.to + 1, l, r) \in d["conditions"] BY <1>1 DEF Obeys, ChainsAsWritten
  <2>2. ASSUME NEW k, IsOperator(ts, k, LogicalOps) PROVE k \in DOMAIN ts /\ TokenAt(ts, k) = ts[k]
    <3>1. Token("none").type = "none" BY DEF Token
    <3>. QED BY <2>2, <3>1 DEF IsOperator, TokenAt
  <2>3. PICK i, j : i = l.from /\ j = l.to + 1 OBVIOUS
  <2>4. IsOperator(ts, i, LogicalOps) /\ IsOperator(ts, j, LogicalOps) BY <1>1, <2>3 DEF Connected
  <2>5. TokenAt(ts, i).s = TokenAt(ts, j).s BY <2>2, <2>4 DEF OneConnective
  <2>6. Joined(ts, i, l, r) = Joined(ts, j, l, r) BY <2>5 DEF Joined
  <2>. QED BY ONLY <2>1, <2>3, <2>6
<1>. QED BY <1>1 DEF Obeys, ObeysAsRead, ChainsAsRead

\* A text all of whose connectives are the same is parsed as the program it
\* spells, by the rules as they are written.
ParsedAsSpelled ==
  outcome = "parsed" /\ OneConnective(tokens) => Spells(tokens, head, values[1])

THEOREM ParsesByGrammar == Spec => []ParsedAsSpelled
PROOF
<1>1. ParsedAsRead => ParsedAsSpelled BY WrittenAsRead DEF ParsedAsRead, ParsedAsSpelled, ReadsAs, Spells
<1>. QED BY <1>1, ParsesAsRead, PTL

-----------------------------------------------------------------------------
(* The rules spell programs only. *)

\* All phrases with trees of a set.
PhrasesWith(trees) == [tree : trees, from : Int, to : Int]

\* One choice of phrases that obeys the rules, for any tokens ts.
AllPhrases(ts) ==
  [rule \in {"field", "fields", "path", "afactor", "aterm", "aexp", "rexp1", "rexp", "conditions", "arguments", "call",
             "statement", "else", "block", "param", "params", "declaration", "declarations", "statements", "fundef", "fundefs",
             "typedef", "typedefs", "program"} |->
     CASE rule = "field" -> PhrasesWith(STRING)
       [] rule = "fields" -> PhrasesWith(Seq(STRING))
       [] rule = "path" -> PhrasesWith(Paths)
       [] rule \in {"afactor", "aterm", "aexp"} -> PhrasesWith(AllTrees.aexps)
       [] rule \in {"rexp1", "rexp", "conditions"} -> PhrasesWith(AllTrees.rexps)
       [] rule = "arguments" -> PhrasesWith(Seq(AllTrees.aexps))
       [] rule = "call" -> PhrasesWith(FunctionCalls(AllTrees))
       [] rule = "statement" -> PhrasesWith(AllTrees.stmts)
       [] rule = "statements" -> PhrasesWith(Seq(AllTrees.stmts))
       [] rule \in {"else", "block"} -> PhrasesWith(AllTrees.blocks)
       [] rule \in {"param", "declaration"} -> PhrasesWith(Declarations)
       [] rule \in {"params", "declarations"} -> PhrasesWith(Seq(Declarations))
       [] rule = "fundef" -> PhrasesWith(FunctionDefs(AllTrees))
       [] rule = "fundefs" -> PhrasesWith(Seq(FunctionDefs(AllTrees)))
       [] rule = "typedef" -> PhrasesWith(TypeDefs)
       [] rule = "typedefs" -> PhrasesWith(Seq(TypeDefs))
       [] rule = "program" -> {p \in PhrasesWith(ProgramTrees(AllTrees)) : Is(ts, p.to, "Semicolon")}]

LEMMA AllPhrasesAre ==
  ASSUME NEW ts, NEW d, d = AllPhrases(ts)
  PROVE  /\ d["field"] = PhrasesWith(STRING) /\ d["fields"] = PhrasesWith(Seq(STRING))
         /\ d["path"] = PhrasesWith(Paths) /\ d["afactor"] = PhrasesWith(AllTrees.aexps)
         /\ d["aterm"] = PhrasesWith(AllTrees.aexps) /\ d["aexp"] = PhrasesWith(AllTrees.aexps)
         /\ d["rexp1"] = PhrasesWith(AllTrees.rexps) /\ d["rexp"] = PhrasesWith(AllTrees.rexps)
         /\ d["conditions"] = PhrasesWith(AllTrees.rexps)
         /\ d["arguments"] = PhrasesWith(Seq(AllTrees.aexps)) /\ d["call"] = PhrasesWith(FunctionCalls(AllTrees))
         /\ d["statement"] = PhrasesWith(AllTrees.stmts) /\ d["statements"] = PhrasesWith(Seq(AllTrees.stmts))
         /\ d["else"] = PhrasesWith(AllTrees.blocks) /\ d["block"] = PhrasesWith(AllTrees.blocks)
         /\ d["param"] = PhrasesWith(Declarations) /\ d["declaration"] = PhrasesWith(Declarations)
         /\ d["params"] = PhrasesWith(Seq(Declarations)) /\ d["declarations"] = PhrasesWith(Seq(Declarations))
         /\ d["fundef"] = PhrasesWith(FunctionDefs(AllTrees)) /\ d["fundefs"] = PhrasesWith(Seq(FunctionDefs(AllTrees)))
         /\ d["typedef"] = PhrasesWith(TypeDefs) /\ d["typedefs"] = PhrasesWith(Seq(TypeDefs))
         /\ d["program"] = {p \in PhrasesWith(ProgramTrees(AllTrees)) : Is(ts, p.to, "Semicolon")}
BY DEF AllPhrases

LEMMA PhraseIn ==
  ASSUME NEW S
  PROVE  /\ \A x \in S, a \in Int, b \in Int : Phrase(x, a, b) \in PhrasesWith(S)
         /\ \A p \in PhrasesWith(S) : p.tree \in S /\ p.from \in Int /\ p.to \in Int
BY DEF Phrase, PhrasesWith

\* A token that is there has a place and texts.
LEMMA TokenIn ==
  ASSUME NEW ts \in Seq(Tokens)
  PROVE  /\ \A k \in DOMAIN ts : k \in Int /\ ts[k].s \in STRING /\ ts[k].n \in Int
         /\ \A k : \A type \in TokenTypes : Is(ts, k, type) => k \in DOMAIN ts /\ ts[k].s \in STRING
PROOF
<1>1. \A k \in DOMAIN ts : k \in Int /\ ts[k] \in Tokens
  <2>1. DOMAIN ts = 1..Len(ts) /\ \A k \in 1..Len(ts) : ts[k] \in Tokens OBVIOUS
  <2>. QED BY <2>1
<1>2. \A t \in Tokens : t.s \in STRING /\ t.n \in Int BY DEF Tokens
<1>3. "none" \notin TokenTypes BY DEF TokenTypes
<1>4. ASSUME NEW k, NEW type \in TokenTypes, Is(ts, k, type) PROVE k \in DOMAIN ts
  BY <1>3, <1>4 DEF Is, TokenAt, Token
<1>. QED BY <1>1, <1>2, <1>4

LEMMA ListOfAll ==
  ASSUME NEW ts \in Seq(Tokens), NEW S
  PROVE  ListOf(ts, PhrasesWith(S), PhrasesWith(Seq(S))) /\ CommaList(ts, PhrasesWith(S), PhrasesWith(Seq(S)))
PROOF
<1>1. Len(ts) \in Nat OBVIOUS
<1>2. ASSUME NEW k \in 0..Len(ts) PROVE Phrase(<<>>, k, k) \in PhrasesWith(Seq(S))
  <2>1. <<>> \in Seq(S) /\ k \in Int BY <1>1
  <2>. QED BY <2>1, PhraseIn
<1>3. ASSUME NEW l \in PhrasesWith(Seq(S)), NEW e \in PhrasesWith(S)
      PROVE  /\ Phrase(Append(l.tree, e.tree), l.from, e.to) \in PhrasesWith(Seq(S))
             /\ Phrase(Append(l.tree, e.tree), l.from, e.to + 1) \in PhrasesWith(Seq(S))
  <2>1. l.tree \in Seq(S) /\ l.from \in Int /\ e.tree \in S /\ e.to \in Int /\ e.to + 1 \in Int BY PhraseIn
  <2>2. Append(l.tree, e.tree) \in Seq(S) BY <2>1
  <2>. QED BY <2>1, <2>2, PhraseIn
<1>4. ListOf(ts, PhrasesWith(S), PhrasesWith(Seq(S))) BY <1>2, <1>3 DEF ListOf
<1>. QED BY <1>3, <1>4 DEF CommaList

\* What the constructors make of trees.
LEMMA TreesMade ==
  /\ \A n \in Int : Int32(n) \in AllTrees.aexps
  /\ Nil \in AllTrees.aexps
  /\ \A t \in STRING : New(t) \in AllTrees.aexps
  /\ \A x \in STRING, fs \in Seq(STRING) : Path(x, fs) \in Paths
  /\ Paths \subseteq AllTrees.aexps
  /\ \A op \in ArithmeticOps, l, r \in AllTrees.aexps : Binary(op, l, r) \in AllTrees.aexps
  /\ \A op \in RelationalOps, l, r \in AllTrees.aexps : Binary(op, l, r) \in AllTrees.rexps
  /\ \A op \in LogicalOps, l, r \in AllTrees.rexps : Binary(op, l, r) \in AllTrees.rexps
  /\ \A e \in AllTrees.rexps : Not(e) \in AllTrees.rexps
  /\ \A f \in STRING, args \in Seq(AllTrees.aexps) : Call(f, args) \in FunctionCalls(AllTrees)
  /\ \A p \in Paths, e \in AllTrees.aexps \cup FunctionCalls(AllTrees) : Assign(p, e) \in AllTrees.stmts
  /\ \A e \in AllTrees.rexps, b \in AllTrees.blocks : While(e, b) \in AllTrees.stmts
  /\ \A e \in AllTrees.rexps, b, c \in AllTrees.blocks : If(e, b, c) \in AllTrees.stmts
  /\ \A ds \in Seq(Declarations), ss \in Seq(AllTrees.stmts) : Block(ds, ss) \in AllTrees.blocks
  /\ \A t, x \in STRING : Declaration(t, x) \in Declarations
  /\ \A t \in STRING, ds \in Seq(Declarations) : TypeDef(t, ds) \in TypeDefs
  /\ \A f, t \in STRING, ds \in Seq(Declarations), b \in AllTrees.blocks, e \in AllTrees.aexps :
       FunctionDef(f, t, ds, b, e) \in FunctionDefs(AllTrees)
  /\ \A tds \in Seq(TypeDefs), fds \in Seq(FunctionDefs(AllTrees)), b \in AllTrees.blocks, e \in AllTrees.aexps :
       Program(tds, fds, b, e) \in ProgramTrees(AllTrees)
PROOF
<1>1. Closed(AllTrees) BY AllTreesClosed
<1>2. PICK A, R, S, K : A = AllTrees.aexps /\ R = AllTrees.rexps /\ S = AllTrees.stmts /\ K = AllTrees.blocks OBVIOUS
<1>3. /\ \A n \in Int : Int32(n) \in A
      /\ Nil \in A
      /\ \A t \in STRING : New(t) \in A
      /\ Paths \subseteq A
  BY <1>1, <1>2 DEF Closed, ArithmeticExprs, Int32, New
<1>4. \A op \in ArithmeticOps, l, r \in A : Binary(op, l, r) \in A
  BY <1>1, <1>2 DEF Closed, ArithmeticExprs, Binary
<1>5. /\ \A op \in RelationalOps, l, r \in A : Binary(op, l, r) \in R
      /\ \A op \in LogicalOps, l, r \in R : Binary(op, l, r) \in R
      /\ \A e \in R : Not(e) \in R
  BY <1>1, <1>2 DEF Closed, RelationalExprs, Binary, Not
<1>6. \A x \in STRING, fs \in Seq(STRING) : Path(x, fs) \in Paths BY DEF Path, Paths
<1>7. \A f \in STRING, args \in Seq(A) : Call(f, args) \in FunctionCalls(AllTrees)
  BY <1>2 DEF Call, FunctionCalls
<1>8. /\ \A p \in Paths, e \in A \cup FunctionCalls(AllTrees) : Assign(p, e) \in S
      /\ \A e \in R, b \in K : While(e, b) \in S
      /\ \A e \in R, b, c \in K : If(e, b, c) \in S
  BY <1>1, <1>2 DEF Closed, Statements, Assign, While, If
<1>9. \A ds \in Seq(Declarations), ss \in Seq(S) : Block(ds, ss) \in K BY <1>1, <1>2 DEF Closed, BlockStmts, Block
<1>10. \A t, x \in STRING : Declaration(t, x) \in Declarations BY DEF Declaration, Declarations
<1>11. \A t \in STRING, ds \in Seq(Declarations) : TypeDef(t, ds) \in TypeDefs BY DEF TypeDef, TypeDefs
<1>12. \A f, t \in STRING, ds \in Seq(Declarations), b \in K, e \in A :
         FunctionDef(f, t, ds, b, e) \in FunctionDefs(AllTrees)
  BY <1>2 DEF FunctionDef, FunctionDefs
<1>13. \A tds \in Seq(TypeDefs), fds \in Seq(FunctionDefs(AllTrees)), b \in K, e \in A :
         Program(tds, fds, b, e) \in ProgramTrees(AllTrees)
  BY <1>2 DEF Program, ProgramTrees
<1>. QED BY ONLY <1>2, <1>3, <1>4, <1>5, <1>6, <1>7, <1>8, <1>9, <1>10, <1>11, <1>12, <1>13

LEMMA ChainOfAll ==
  ASSUME NEW ts, NEW S, NEW ops, \A op \in ops, l, r \in S : Binary(op, l, r) \in S
  PROVE  Chain(ts, PhrasesWith(S), ops, PhrasesWith(S))
PROOF
<1>1. ASSUME NEW l \in PhrasesWith(S), NEW r \in PhrasesWith(S), IsOperator(ts, l.to + 1, ops)
      PROVE  Phrase(Binary(TokenAt(ts, l.to + 1).s, l.tree, r.tree), l.from, r.to) \in PhrasesWith(S)
  <2>1. TokenAt(ts, l.to + 1).s \in ops BY <1>1 DEF IsOperator
  <2>2. l.tree \in S /\ r.tree \in S /\ l.from \in Int /\ r.to \in Int BY PhraseIn
  <2>3. Binary(TokenAt(ts, l.to + 1).s, l.tree, r.tree) \in S BY <2>1, <2>2
  <2>. QED BY <2>2, <2>3, PhraseIn
<1>. QED BY <1>1 DEF Chain

LEMMA AllPhrasesObey ==
  ASSUME NEW ts \in Seq(Tokens)
  PROVE  Obeys(ts, AllPhrases(ts)) /\ ObeysAsRead(ts, AllPhrases(ts))
PROOF
<1>1. PICK d : d = AllPhrases(ts) OBVIOUS
<1>2. PICK A, R, S, K, C, F : /\ A = AllTrees.aexps /\ R = AllTrees.rexps /\ S = AllTrees.stmts /\ K = AllTrees.blocks
                              /\ C = FunctionCalls(AllTrees) /\ F = FunctionDefs(AllTrees)
  OBVIOUS
<1>3. /\ d["field"] = PhrasesWith(STRING) /\ d["fields"] = PhrasesWith(Seq(STRING)) /\ d["path"] = PhrasesWith(Paths)
      /\ d["afactor"] = PhrasesWith(A) /\ d["aterm"] = PhrasesWith(A) /\ d["aexp"] = PhrasesWith(A)
      /\ d["rexp1"] = PhrasesWith(R) /\ d["rexp"] = PhrasesWith(R) /\ d["conditions"] = PhrasesWith(R)
      /\ d["arguments"] = PhrasesWith(Seq(A)) /\ d["call"] = PhrasesWith(C)
      /\ d["statement"] = PhrasesWith(S) /\ d["statements"] = PhrasesWith(Seq(S))
      /\ d["else"] = PhrasesWith(K) /\ d["block"] = PhrasesWith(K)
      /\ d["param"] = PhrasesWith(Declarations) /\ d["declaration"] = PhrasesWith(Declarations)
      /\ d["params"] = PhrasesWith(Seq(Declarations)) /\ d["declarations"] = PhrasesWith(Seq(Declarations))
      /\ d["fundef"] = PhrasesWith(F) /\ d["fundefs"] = PhrasesWith(Seq(F))
      /\ d["typedef"] = PhrasesWith(TypeDefs) /\ d["typedefs"] = PhrasesWith(Seq(TypeDefs))
      /\ d["program"] = {p \in PhrasesWith(ProgramTrees(AllTrees)) : Is(ts, p.to, "Semicolon")}
  BY <1>1, <1>2, AllPhrasesAre
<1>4. /\ \A n \in Int : Int32(n) \in A
      /\ Nil \in A /\ Paths \subseteq A
      /\ \A t \in STRING : New(t) \in A
      /\ \A x \in STRING, fs \in Seq(STRING) : Path(x, fs) \in Paths
      /\ \A op \in ArithmeticOps, l, r \in A : Binary(op, l, r) \in A
  BY <1>2, TreesMade
<1>5. /\ \A op \in RelationalOps, l, r \in A : Binary(op, l, r) \in R
      /\ \A op \in LogicalOps, l, r \in R : Binary(op, l, r) \in R
      /\ \A e \in R : Not(e) \in R
      /\ \A f \in STRING, args \in Seq(A) : Call(f, args) \in C
  BY <1>2, TreesMade
<1>6. /\ \A p \in Paths, e \in A \cup C : Assign(p, e) \in S
      /\ \A e \in R, b \in K : While(e, b) \in S
      /\ \A e \in R, b, c \in K : If(e, b, c) \in S
      /\ \A ds \in Seq(Declarations), ss \in Seq(S) : Block(ds, ss) \in K
      /\ \A t, x \in STRING : Declaration(t, x) \in Declarations
      /\ \A t \in STRING, ds \in Seq(Declarations) : TypeDef(t, ds) \in TypeDefs
      /\ \A f, t \in STRING, ds \in Seq(Declarations), b \in K, e \in A : FunctionDef(f, t, ds, b, e) \in F
      /\ \A tds \in Seq(TypeDefs), fds \in Seq(F), b \in K, e \in A : Program(tds, fds, b, e) \in ProgramTrees(AllTrees)
  BY <1>2, TreesMade
<1>7. /\ \A k \in DOMAIN ts : k \in Int /\ ts[k].s \in STRING /\ ts[k].n \in Int
      /\ \A k : \A type \in TokenTypes : Is(ts, k, type) => k \in DOMAIN ts /\ ts[k].s \in STRING
  BY TokenIn
<1>8. \A k : Is(ts, k, "Id") \/ Is(ts, k, "Type") => ts[k].s \in STRING
  <2>1. PICK i, t : i = "Id" /\ t = "Type" OBVIOUS
  <2>2. i \in TokenTypes /\ t \in TokenTypes BY <2>1 DEF TokenTypes
  <2>3. \A k : Is(ts, k, i) \/ Is(ts, k, t) => ts[k].s \in STRING BY ONLY <1>7, <2>2
  <2>. QED BY ONLY <2>1, <2>3
<1>9. FactorRules(ts, d)
  <2>1. ASSUME NEW k \in DOMAIN ts
        PROVE  /\ Phrase(Int32(ts[k].n), k - 1, k) \in PhrasesWith(A) /\ Phrase(Nil, k - 1, k) \in PhrasesWith(A)
               /\ Phrase(New(ts[k].s), k - 2, k) \in PhrasesWith(A)
    <3>1. k \in Int /\ k - 1 \in Int /\ k - 2 \in Int BY <1>7
    <3>2. Int32(ts[k].n) \in A /\ New(ts[k].s) \in A /\ Nil \in A BY <1>4, <1>7
    <3>. QED BY ONLY <3>1, <3>2, PhraseIn
  <2>2. ASSUME NEW e \in PhrasesWith(A) PROVE Phrase(e.tree, e.from - 1, e.to + 1) \in PhrasesWith(A)
    <3>1. e.tree \in A /\ e.from - 1 \in Int /\ e.to + 1 \in Int BY PhraseIn
    <3>. QED BY ONLY <3>1, PhraseIn
  <2>3. PhrasesWith(Paths) \subseteq PhrasesWith(A) BY <1>4 DEF PhrasesWith
  <2>. QED BY <1>3, <2>1, <2>2, <2>3 DEF FactorRules
<1>10. PathRules(ts, d)
  <2>1. ASSUME NEW k \in DOMAIN ts PROVE Phrase(ts[k].s, k - 2, k) \in PhrasesWith(STRING)
    <3>1. k \in Int /\ k - 2 \in Int /\ ts[k].s \in STRING BY <1>7
    <3>. QED BY ONLY <3>1, PhraseIn
  <2>2. ListOf(ts, PhrasesWith(STRING), PhrasesWith(Seq(STRING))) BY ListOfAll
  <2>3. ASSUME NEW l \in PhrasesWith(Seq(STRING)), Is(ts, l.from, "Id")
        PROVE  Phrase(Path(ts[l.from].s, l.tree), l.from - 1, l.to) \in PhrasesWith(Paths)
    <3>1. l.tree \in Seq(STRING) /\ l.from - 1 \in Int /\ l.to \in Int BY PhraseIn
    <3>2. ts[l.from].s \in STRING BY <1>8, <2>3
    <3>3. Path(ts[l.from].s, l.tree) \in Paths BY <1>4, <3>1, <3>2
    <3>. QED BY ONLY <3>1, <3>3, PhraseIn
  <2>. QED BY <1>3, <2>1, <2>2, <2>3 DEF PathRules
<1>11. ExpressionRules(ts, d)
  <2>1. \A ops \in {{"mul"}, {"add", "sub"}} : Chain(ts, PhrasesWith(A), ops, PhrasesWith(A))
    <3>1. ASSUME NEW ops \in {{"mul"}, {"add", "sub"}} PROVE \A op \in ops, l, r \in A : Binary(op, l, r) \in A
      BY <1>4 DEF ArithmeticOps
    <3>. QED BY <3>1, ChainOfAll
  <2>. QED BY <1>3, <2>1 DEF ExpressionRules
<1>12. ASSUME NEW l \in PhrasesWith(R), NEW r \in PhrasesWith(R), NEW k, IsOperator(ts, k, LogicalOps)
       PROVE  Joined(ts, k, l, r) \in PhrasesWith(R)
  <2>1. PICK op : op = TokenAt(ts, k).s OBVIOUS
  <2>2. op \in LogicalOps BY <1>12, <2>1 DEF IsOperator
  <2>3. l.tree \in R /\ r.tree \in R /\ l.from \in Int /\ r.to \in Int BY PhraseIn
  <2>4. Binary(op, l.tree, r.tree) \in R BY <1>5, <2>2, <2>3
  <2>. QED BY ONLY <2>1, <2>3, <2>4, PhraseIn DEF Joined
<1>22. ConditionRules(ts, d)
  <2>1. ASSUME NEW l \in PhrasesWith(R), NEW r \in PhrasesWith(R), Connected(ts, l, r)
        PROVE  Joined(ts, l.to + 1, l, r) \in PhrasesWith(R)
    BY <1>12, <2>1 DEF Connected
  <2>2. ASSUME NEW l \in PhrasesWith(A), NEW r \in PhrasesWith(A), IsOperator(ts, l.to + 1, RelationalOps)
        PROVE  Phrase(Binary(TokenAt(ts, l.to + 1).s, l.tree, r.tree), l.from, r.to) \in PhrasesWith(R)
    <3>1. PICK op : op = TokenAt(ts, l.to + 1).s OBVIOUS
    <3>2. op \in RelationalOps BY <2>2, <3>1 DEF IsOperator
    <3>3. l.tree \in A /\ r.tree \in A /\ l.from \in Int /\ r.to \in Int BY PhraseIn
    <3>4. Binary(op, l.tree, r.tree) \in R BY <1>5, <3>2, <3>3
    <3>. QED BY ONLY <3>1, <3>3, <3>4, PhraseIn
  <2>3. ASSUME NEW e \in PhrasesWith(R)
        PROVE  /\ Phrase(Not(e.tree), e.from - 1, e.to) \in PhrasesWith(R)
               /\ Phrase(e.tree, e.from - 1, e.to + 1) \in PhrasesWith(R)
    <3>1. e.tree \in R /\ e.from - 1 \in Int /\ e.to \in Int /\ e.to + 1 \in Int BY PhraseIn
    <3>2. Not(e.tree) \in R BY <1>5, <3>1
    <3>. QED BY ONLY <3>1, <3>2, PhraseIn
  <2>. QED BY <1>3, <2>1, <2>2, <2>3 DEF ConditionRules
<1>13. CallRules(ts, d)
  <2>1. ASSUME NEW l \in PhrasesWith(Seq(A)), Is(ts, l.from - 1, "Id")
        PROVE  Phrase(Call(ts[l.from - 1].s, l.tree), l.from - 2, l.to + 1) \in PhrasesWith(C)
    <3>1. l.tree \in Seq(A) /\ l.from - 2 \in Int /\ l.to + 1 \in Int BY PhraseIn
    <3>2. ts[l.from - 1].s \in STRING BY <1>8, <2>1
    <3>3. Call(ts[l.from - 1].s, l.tree) \in C BY <1>5, <3>1, <3>2
    <3>. QED BY ONLY <3>1, <3>3, PhraseIn
  <2>2. CommaList(ts, PhrasesWith(A), PhrasesWith(Seq(A))) BY ListOfAll
  <2>. QED BY <1>3, <2>1, <2>2 DEF CallRules
<1>14. AssignmentRule(ts, d)
  <2>1. ASSUME NEW p \in PhrasesWith(Paths), NEW e \in PhrasesWith(A) \cup PhrasesWith(C)
        PROVE  Phrase(Assign(p.tree, e.tree), p.from, e.to + 1) \in PhrasesWith(S)
    <3>1. p.tree \in Paths /\ p.from \in Int /\ e.tree \in A \cup C /\ e.to + 1 \in Int BY PhraseIn
    <3>2. Assign(p.tree, e.tree) \in S BY <1>6, <3>1
    <3>. QED BY ONLY <3>1, <3>2, PhraseIn
  <2>. QED BY <1>3, <2>1 DEF AssignmentRule
<1>15. LoopRule(ts, d)
  <2>1. ASSUME NEW g \in PhrasesWith(R), NEW b \in PhrasesWith(K)
        PROVE  Phrase(While(g.tree, b.tree), g.from - 2, b.to + 1) \in PhrasesWith(S)
    <3>1. g.tree \in R /\ g.from - 2 \in Int /\ b.tree \in K /\ b.to + 1 \in Int BY PhraseIn
    <3>2. While(g.tree, b.tree) \in S BY <1>6, <3>1
    <3>. QED BY ONLY <3>1, <3>2, PhraseIn
  <2>. QED BY <1>3, <2>1 DEF LoopRule
<1>16. ConditionalRules(ts, d)
  <2>1. ASSUME NEW k \in 0..Len(ts) PROVE Phrase(Block(<<>>, <<>>), k, k) \in PhrasesWith(K)
    <3>1. k \in Int /\ <<>> \in Seq(Declarations) /\ <<>> \in Seq(S) OBVIOUS
    <3>2. Block(<<>>, <<>>) \in K BY <1>6, <3>1
    <3>. QED BY ONLY <3>1, <3>2, PhraseIn
  <2>2. ASSUME NEW b \in PhrasesWith(K) PROVE Phrase(b.tree, b.from - 2, b.to + 1) \in PhrasesWith(K)
    <3>1. b.tree \in K /\ b.from - 2 \in Int /\ b.to + 1 \in Int BY PhraseIn
    <3>. QED BY ONLY <3>1, PhraseIn
  <2>3. ASSUME NEW g \in PhrasesWith(R), NEW b \in PhrasesWith(K), NEW e \in PhrasesWith(K)
        PROVE  Phrase(If(g.tree, b.tree, e.tree), g.from - 2, e.to) \in PhrasesWith(S)
    <3>1. g.tree \in R /\ g.from - 2 \in Int /\ b.tree \in K /\ e.tree \in K /\ e.to \in Int BY PhraseIn
    <3>2. If(g.tree, b.tree, e.tree) \in S BY <1>6, <3>1
    <3>. QED BY ONLY <3>1, <3>2, PhraseIn
  <2>. QED BY <1>3, <2>1, <2>2, <2>3 DEF ConditionalRules
<1>17. DeclarationRules(ts, d)
  <2>1. ASSUME NEW k \in DOMAIN ts, Is(ts, k - 1, "Type")
        PROVE  /\ Phrase(Declaration(ts[k - 1].s, ts[k].s), k - 2, k) \in PhrasesWith(Declarations)
               /\ Phrase(Declaration(ts[k - 1].s, ts[k].s), k - 2, k + 1) \in PhrasesWith(Declarations)
    <3>1. k \in Int /\ k - 2 \in Int /\ k + 1 \in Int /\ ts[k].s \in STRING BY <1>7
    <3>2. ts[k - 1].s \in STRING BY <1>8, <2>1
    <3>3. Declaration(ts[k - 1].s, ts[k].s) \in Declarations BY <1>6, <3>1, <3>2
    <3>. QED BY ONLY <3>1, <3>3, PhraseIn
  <2>2. /\ ListOf(ts, PhrasesWith(Declarations), PhrasesWith(Seq(Declarations)))
        /\ CommaList(ts, PhrasesWith(Declarations), PhrasesWith(Seq(Declarations)))
    BY ListOfAll
  <2>. QED BY <1>3, <2>1, <2>2 DEF DeclarationRules
<1>18. BlockRules(ts, d)
  <2>1. ASSUME NEW ds \in PhrasesWith(Seq(Declarations)), NEW ss \in PhrasesWith(Seq(S))
        PROVE  Phrase(Block(ds.tree, ss.tree), ds.from, ss.to) \in PhrasesWith(K)
    <3>1. ds.tree \in Seq(Declarations) /\ ds.from \in Int /\ ss.tree \in Seq(S) /\ ss.to \in Int BY PhraseIn
    <3>2. Block(ds.tree, ss.tree) \in K BY <1>6, <3>1
    <3>. QED BY ONLY <3>1, <3>2, PhraseIn
  <2>2. ListOf(ts, PhrasesWith(S), PhrasesWith(Seq(S))) BY ListOfAll
  <2>. QED BY <1>3, <2>1, <2>2 DEF BlockRules
<1>19. FunctionRules(ts, d)
  <2>1. ASSUME NEW ps \in PhrasesWith(Seq(Declarations)), NEW b \in PhrasesWith(K), NEW e \in PhrasesWith(A),
               Is(ts, ps.from - 1, "Id"), Is(ts, ps.to + 3, "Type")
        PROVE  Phrase(FunctionDef(ts[ps.from - 1].s, ts[ps.to + 3].s, ps.tree, b.tree, e.tree), ps.from - 3, e.to + 2)
                 \in PhrasesWith(F)
    <3>1. ps.tree \in Seq(Declarations) /\ ps.from - 3 \in Int /\ b.tree \in K /\ e.tree \in A /\ e.to + 2 \in Int
      BY PhraseIn
    <3>2. ts[ps.from - 1].s \in STRING /\ ts[ps.to + 3].s \in STRING BY <1>8, <2>1
    <3>3. FunctionDef(ts[ps.from - 1].s, ts[ps.to + 3].s, ps.tree, b.tree, e.tree) \in F BY <1>6, <3>1, <3>2
    <3>. QED BY ONLY <3>1, <3>3, PhraseIn
  <2>2. ListOf(ts, PhrasesWith(F), PhrasesWith(Seq(F))) BY ListOfAll
  <2>. QED BY <1>3, <2>1, <2>2 DEF FunctionRules
<1>20. StructRules(ts, d)
  <2>1. ASSUME NEW ds \in PhrasesWith(Seq(Declarations)), Is(ts, ds.from - 1, "Type")
        PROVE  Phrase(TypeDef(ts[ds.from - 1].s, ds.tree), ds.from - 3, ds.to + 2) \in PhrasesWith(TypeDefs)
    <3>1. ds.tree \in Seq(Declarations) /\ ds.from - 3 \in Int /\ ds.to + 2 \in Int BY PhraseIn
    <3>2. ts[ds.from - 1].s \in STRING BY <1>8, <2>1
    <3>3. TypeDef(ts[ds.from - 1].s, ds.tree) \in TypeDefs BY <1>6, <3>1, <3>2
    <3>. QED BY ONLY <3>1, <3>3, PhraseIn
  <2>2. ListOf(ts, PhrasesWith(TypeDefs), PhrasesWith(Seq(TypeDefs))) BY ListOfAll
  <2>. QED BY <1>3, <2>1, <2>2 DEF StructRules
<1>21. ProgramRule(ts, d)
  <2>1. ASSUME NEW td \in PhrasesWith(Seq(TypeDefs)), NEW fd \in PhrasesWith(Seq(F)), NEW b \in PhrasesWith(K),
               NEW e \in PhrasesWith(A), Is(ts, e.to + 1, "Semicolon")
        PROVE  Phrase(Program(td.tree, fd.tree, b.tree, e.tree), td.from, e.to + 1)
                 \in {p \in PhrasesWith(ProgramTrees(AllTrees)) : Is(ts, p.to, "Semicolon")}
    <3>1. td.tree \in Seq(TypeDefs) /\ fd.tree \in Seq(F) /\ b.tree \in K /\ e.tree \in A /\ td.from \in Int /\ e.to + 1 \in Int
      BY PhraseIn
    <3>2. PICK x : x = Program(td.tree, fd.tree, b.tree, e.tree) OBVIOUS
    <3>3. x \in ProgramTrees(AllTrees) BY <1>6, <3>1, <3>2
    <3>4. PICK p : p = Phrase(x, td.from, e.to + 1) OBVIOUS
    <3>5. p \in PhrasesWith(ProgramTrees(AllTrees)) /\ p.to = e.to + 1 BY ONLY <3>1, <3>3, <3>4, PhraseIn, PhraseParts
    <3>. QED BY <2>1, <3>2, <3>4, <3>5
  <2>. QED BY <1>3, <2>1 DEF ProgramRule
<1>23. CommonRules(ts, d)
  BY <1>9, <1>10, <1>11, <1>13, <1>14, <1>15, <1>16, <1>17, <1>18, <1>19, <1>20, <1>21, <1>22 DEF CommonRules
<1>24. PICK c, t : c = d["conditions"] /\ t = d["rexp1"] OBVIOUS
<1>25. c = PhrasesWith(R) /\ t = PhrasesWith(R) BY <1>3, <1>24
<1>26. ChainsAsWritten(ts, d)
  <2>1. ASSUME NEW l \in t, NEW r \in c, Connected(ts, l, r) PROVE Joined(ts, l.to + 1, l, r) \in c
    BY <1>12, <1>25, <2>1 DEF Connected
  <2>. QED BY <1>24, <2>1 DEF ChainsAsWritten
<1>27. ChainsAsRead(ts, d)
  <2>1. ASSUME NEW l \in t, NEW r \in c, IsOperator(ts, l.from, LogicalOps) PROVE Joined(ts, l.from, l, r) \in c
    BY <1>12, <1>25, <2>1
  <2>. QED BY <1>24, <2>1 DEF ChainsAsRead
<1>. QED BY <1>1, <1>23, <1>26, <1>27 DEF Obeys, ObeysAsRead

\* Not everything is spelled: what the rules spell, or read, are trees that
\* the constructors of ast.h can build, by tokens that end with a semicolon.
THEOREM SpelledArePrograms ==
  \A ts \in Seq(Tokens) : \A n, x :
    Spells(ts, n, x) \/ ReadsAs(ts, n, x) => x \in ProgramTrees(AllTrees) /\ Is(ts, n, "Semicolon")
PROOF
<1>. SUFFICES ASSUME NEW ts \in Seq(Tokens), NEW n, NEW x, Spells(ts, n, x) \/ ReadsAs(ts, n, x)
              PROVE  x \in ProgramTrees(AllTrees) /\ Is(ts, n, "Semicolon")
  OBVIOUS
<1>1. PICK d, p : d = AllPhrases(ts) /\ p = Phrase(x, 0, n) OBVIOUS
<1>2. p \in d["program"] BY <1>1, AllPhrasesObey DEF Spells, ReadsAs
<1>3. p \in PhrasesWith(ProgramTrees(AllTrees)) /\ Is(ts, p.to, "Semicolon") BY <1>1, <1>2, AllPhrasesAre
<1>4. p.tree = x /\ p.to = n BY <1>1, PhraseParts
<1>5. p.tree \in ProgramTrees(AllTrees) BY <1>3, PhraseIn
<1>. QED BY <1>3, <1>4, <1>5
=============================================================================
