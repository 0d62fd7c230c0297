---------------------------- MODULE CodeGenProofs ----------------------------
(***************************************************************************)
(* Proofs about CodeGen, for every program that the constructors of ast.h  *)
(* can build.                                                              *)
(*                                                                         *)
(* The generator never looks at what is left to do: that a temporary is    *)
(* freed in the scope it opened, that ESP is moved back by what it was     *)
(* moved, that the body of a function ends in the scope of the function,   *)
(* all rests on the order in which the Visit functions call one another.   *)
(* So the invariant says of the whole call stack todo that each task will  *)
(* find the symbol table as it needs it: a task is given a View of the     *)
(* table and leaves another (Does), and the views chain up (Runs).         *)
(***************************************************************************)
EXTENDS CodeGen, ProofBasics

-----------------------------------------------------------------------------
(* What a task sees of the symbol table. *)

\* A context without the places of its variables.
Shape(s) ==
  [kind |-> s.kind, next |-> s.next, pushed |-> Len(s.args), arity |-> s.arity,
   tmp |-> IF s.kind = "tmp" THEN DOMAIN s.vars ELSE {}]

ShapesOf(c) == [i \in DOMAIN c |-> Shape(c[i])]

Seen(scopes, top, kind, defs) == [scopes |-> scopes, top |-> top, frame |-> kind, defs |-> defs]

View == Seen(ShapesOf(ctx), inTop, frame.kind, frame.begun)

Current(v) == v.scopes[Len(v.scopes)]
InFrame(v) == v.frame \in {"def", "entry"}

Entered(v, shape)  == Seen(Append(v.scopes, shape), v.top, v.frame, v.defs)
Left(v)            == Seen(Front(v.scopes), v.top, v.frame, v.defs)
Replaced(v, shape) == Seen(Append(Front(v.scopes), shape), v.top, v.frame, v.defs)

\* The shapes of the contexts that the visitor opens.
Plain(kind, next)  == [kind |-> kind, next |-> next, pushed |-> 0, arity |-> NoCall, tmp |-> {}]
TmpShape(next, x)  == [kind |-> "tmp", next |-> next, pushed |-> 0, arity |-> NoCall, tmp |-> {x}]
RootShapes         == <<Plain("root", 12)>>
FunctionShapes     == <<Plain("root", 12), Plain("params", 12)>>

\* A shape with the call in it gone on.
Moved(s, next, pushed, arity) ==
  [kind |-> s.kind, next |-> next, pushed |-> pushed, arity |-> arity, tmp |-> s.tmp]

\* What is left when nothing is to be done.
Finished == Seen(<<>>, TRUE, "none", 0)

\* An expression may be visited.
Computes(v) ==
  /\ InFrame(v)
  /\ Current(v).kind \in {"body", "block", "tmp"}
  /\ Current(v).arity # NoCall => Current(v).pushed < Current(v).arity

\* The visitor is between two statements of a block.
AtStatement(v) ==
  /\ InFrame(v) /\ ~v.top
  /\ Current(v).kind \in {"body", "block"}
  /\ Current(v).arity = NoCall /\ Current(v).pushed = 0

\* The temporary called x is in the current context.
HoldsTmp(v, x) == InFrame(v) /\ Current(v).kind = "tmp" /\ x \in Current(v).tmp

\* The visitor is between two definitions.
BetweenDefinitions(v) ==
  /\ v.frame = "none" /\ v.top
  /\ Current(v).kind \in {"root", "params"} /\ Current(v).next = 12
  /\ Current(v).arity = NoCall /\ Current(v).pushed = 0

\* The code of a body, and of the result, has been generated.
AfterBody(v) ==
  /\ InFrame(v) /\ v.top
  /\ Current(v).kind = "body" /\ Current(v).arity = NoCall /\ Current(v).pushed = 0

\* The visitor is in a call.
InCall(v) ==
  /\ InFrame(v) /\ ~v.top
  /\ Current(v).kind \in {"body", "block"}
  /\ Current(v).arity # NoCall

\* The current context was opened in one that ends this many bytes before it.
OpenedIn(v, bytes) ==
  Len(v.scopes) > 1 /\ v.scopes[Len(v.scopes) - 1].next + bytes = Current(v).next

-----------------------------------------------------------------------------
(* What a task needs, and what it leaves. *)

Expressions   == AllTrees.aexps \cup AllTrees.rexps
ExpressionOps == {"int", "nil", "new", "path", "not"} \cup BinaryOps
StatementOps  == {"assign", "if", "while"}

\* An instruction that leaves EBP - ESP alone.
Neutral(i) == i.op \notin {"push", "pushl", "pop"} /\ i.dst # ESP /\ i.src # ESP

Typed(i) == i.src \in Operands /\ i.dst \in Operands

\* The visit of an expression, or a piece of code, changes nothing.
DoesCode(t, v, w) ==
  /\ t.op \in ExpressionOps => t \in Expressions /\ Computes(v) /\ w = v
  /\ t.op = "fields" => t.fields \in Seq(STRING) /\ Computes(v) /\ w = v
  /\ t.op = "code" =>
       /\ IsSequence(t.insns) /\ \A i \in 1..Len(t.insns) : Neutral(t.insns[i]) /\ Typed(t.insns[i])
       /\ Computes(v) /\ w = v

\* The tasks that use a temporary, and the one that gives it back.
DoesTmp(t, v, w) ==
  /\ t.op \in {"save", "operate", "store"} => HoldsTmp(v, t.tmp) /\ w = v
  /\ t.op = "operate" => t.by \in BinaryOps
  /\ t.op = "free" =>
       /\ InFrame(v) /\ Current(v).kind = "tmp" /\ Current(v).arity = NoCall
       /\ OpenedIn(v, Word) /\ w = Left(v)

DoesStatement(t, v, w) ==
  /\ t.op \in StatementOps => t \in AllTrees.stmts /\ AtStatement(v) /\ w = v
  /\ t.op = "assignto" => t.lhs \in Paths /\ AtStatement(v) /\ w = v
  /\ t.op = "call" => t \in FunctionCalls(AllTrees) /\ AtStatement(v) /\ w = v
  /\ t.op = "arguments" =>
       /\ t.rest \in Seq(AllTrees.aexps) /\ t.callee_name \in STRING
       /\ InCall(v) /\ Current(v).arity = Current(v).pushed + Len(t.rest)
       /\ w = Replaced(v, Moved(Current(v), Current(v).next - Word * Current(v).pushed, 0, NoCall))
  /\ t.op = "push" =>
       /\ InCall(v) /\ Current(v).pushed < Current(v).arity
       /\ w = Replaced(v, Moved(Current(v), Current(v).next + Word, Current(v).pushed + 1, Current(v).arity))

\* A body stays open, for the expression that follows it; an inner block
\* declares nothing.
DoesBlock(t, v, w) ==
  /\ t.op = "block" =>
       /\ t \in AllTrees.blocks
       /\ IF v.top
          THEN /\ InFrame(v) /\ Current(v).kind \in {"root", "params"}
               /\ w = Entered(v, Plain("body", Current(v).next + Word * Len(t.decls)))
          ELSE AtStatement(v) /\ w = v
  /\ t.op = "endblock" =>
       /\ AtStatement(v) /\ t.wasTop \in BOOLEAN
       /\ IF t.wasTop
          THEN Current(v).kind = "body" /\ w = Seen(v.scopes, TRUE, v.frame, v.defs)
          ELSE /\ Current(v).kind = "block" /\ t.size = 0
               /\ OpenedIn(v, 0) /\ w = Left(v)

DoesDefinition(t, v, w) ==
  /\ t.op = "typedef" =>
       t \in TypeDefs /\ BetweenDefinitions(v) /\ v.defs = 0 /\ w = v
  /\ t.op = "addfn" =>
       t.def \in FunctionDefs(AllTrees) /\ BetweenDefinitions(v) /\ v.defs = 0 /\ w = v
  /\ t.op = "fundef" =>
       /\ t \in FunctionDefs(AllTrees) /\ BetweenDefinitions(v)
       /\ w = Seen(FunctionShapes, TRUE, "none", v.defs + 1)
  /\ t.op = "endfn" =>
       /\ t.def \in FunctionDefs(AllTrees)
       /\ AfterBody(v) /\ v.frame = "def" /\ Len(v.scopes) > 1
       /\ w = Seen(Front(v.scopes), TRUE, "none", v.defs)
  /\ t.op = "entry" => BetweenDefinitions(v) /\ w = Finished
  /\ t.op = "endentry" => AfterBody(v) /\ v.frame = "entry" /\ w = Finished

Does(t, v, w) ==
  DoesCode(t, v, w) /\ DoesTmp(t, v, w) /\ DoesStatement(t, v, w) /\ DoesBlock(t, v, w) /\ DoesDefinition(t, v, w)

\* The tasks of ts, one after the other, lead from view v to view w.
Runs(ts, v, w) ==
  /\ IsSequence(ts)
  /\ \E h : h[1] = v /\ h[Len(ts) + 1] = w /\ \A i \in 1..Len(ts) : Does(ts[i], h[i], h[i + 1])

CodeOK == IsSequence(insns) /\ \A i \in DOMAIN insns : Typed(insns[i])

\* The variables of a scope come before the arguments pushed on it.
ScopeOK(s) == IsScope(s) /\ s.next - Word * Len(s.args) \in Nat

ContextsOK == IsSequence(ctx) /\ ctx # <<>> /\ \A i \in DOMAIN ctx : ScopeOK(ctx[i])

NumbersOK ==
  /\ nextTmp \in Nat /\ nextIndex \in Nat /\ depth \in Int
  /\ inLhs \in BOOLEAN /\ inTop \in BOOLEAN
  /\ frame.kind \in {"none", "def", "entry"} /\ frame.begun \in Nat /\ DOMAIN frame = {"kind", "params", "begun"}

TablesOK == \A x \in DOMAIN typeInfo : typeInfo[x] \in Seq(Declarations)

\* Before generateCode(), the symbol table is that of a new object.
FreshOK ==
  phase = "ready" => ctx = RootContext /\ inTop /\ frame.kind = "none" /\ frame.begun = 0 /\ depth = 0

\* No construct gives back more of the stack than it took.
DepthOK == frame.kind # "none" => depth - (Top.next - Word) \in Nat

\* The invariant.
IInv ==
  /\ phase \in {"ready", "generating", "done", "error"}
  /\ CodeOK /\ ContextsOK /\ NumbersOK /\ TablesOK /\ FreshOK
  /\ phase = "generating" => prog \in ProgramTrees(AllTrees) /\ Runs(todo, View, Finished) /\ DepthOK

-----------------------------------------------------------------------------
(* Chains of views. *)

LEMMA RunsNone ==
  ASSUME NEW v
  PROVE  Runs(<<>>, v, v)
PROOF
<1>1. PICK h : h = [i \in 1..1 |-> v] OBVIOUS
<1>2. IsSequence(<<>>) /\ Len(<<>>) = 0 BY DEF IsSequence
<1>. QED BY <1>1, <1>2 DEF Runs

LEMMA RunsOne ==
  ASSUME NEW t, NEW v, NEW w, Does(t, v, w)
  PROVE  Runs(<<t>>, v, w)
PROOF
<1>1. IsSequence(<<t>>) /\ Len(<<t>>) = 1 /\ <<t>>[1] = t BY DEF IsSequence, ToSet
<1>2. PICK h : h = <<v, w>> OBVIOUS
<1>3. h[1] = v /\ h[2] = w BY <1>2
<1>4. Does(<<t>>[1], h[1], h[1 + 1]) BY <1>1, <1>3
<1>. QED BY <1>1, <1>3, <1>4 DEF Runs

LEMMA RunsConcat ==
  ASSUME NEW s, NEW t, NEW u, NEW v, NEW w, Runs(s, v, u), Runs(t, u, w)
  PROVE  Runs(s \o t, v, w)
PROOF
<1>1. IsSequence(s) /\ IsSequence(t) BY DEF Runs
<1>2. /\ IsSequence(s \o t) /\ Len(s \o t) = Len(s) + Len(t)
      /\ \A i \in 1..Len(s) : (s \o t)[i] = s[i]
      /\ \A i \in (Len(s) + 1)..(Len(s) + Len(t)) : (s \o t)[i] = t[i - Len(s)]
      /\ Len(s) \in Nat /\ Len(t) \in Nat
  BY <1>1, ConcatSequences, SequenceBasics
<1>3. PICK g : g[1] = v /\ g[Len(s) + 1] = u /\ \A i \in 1..Len(s) : Does(s[i], g[i], g[i + 1]) BY DEF Runs
<1>4. PICK k : k[1] = u /\ k[Len(t) + 1] = w /\ \A i \in 1..Len(t) : Does(t[i], k[i], k[i + 1]) BY DEF Runs
<1>5. PICK h : h = [i \in 1..(Len(s) + Len(t) + 1) |-> IF i <= Len(s) THEN g[i] ELSE k[i - Len(s)]] OBVIOUS
<1>6. /\ \A i \in 1..(Len(s) + 1) : h[i] = g[i]
      /\ \A i \in (Len(s) + 1)..(Len(s) + Len(t) + 1) : h[i] = k[i - Len(s)]
  <2>1. ASSUME NEW i \in 1..(Len(s) + 1) PROVE h[i] = g[i]
    <3>1. CASE i <= Len(s) BY <1>2, <1>5, <3>1
    <3>2. CASE i = Len(s) + 1
      <4>1. i - Len(s) = 1 BY <1>2, <3>2
      <4>. QED BY <1>2, <1>3, <1>4, <1>5, <3>2, <4>1
    <3>. QED BY <1>2, <3>1, <3>2
  <2>2. ASSUME NEW i \in (Len(s) + 1)..(Len(s) + Len(t) + 1) PROVE h[i] = k[i - Len(s)] BY <1>2, <1>5
  <2>. QED BY <2>1, <2>2
<1>7. h[1] = v BY <1>2, <1>3, <1>6
<1>8. h[Len(s \o t) + 1] = w
  <2>1. Len(s) + Len(t) + 1 - Len(s) = Len(t) + 1 BY <1>2
  <2>. QED BY <1>2, <1>4, <1>6, <2>1
<1>9. ASSUME NEW i \in 1..Len(s \o t) PROVE Does((s \o t)[i], h[i], h[i + 1])
  <2>1. CASE i <= Len(s)
    <3>1. i \in 1..Len(s) /\ i + 1 \in 1..(Len(s) + 1) BY <1>2, <2>1
    <3>. QED BY <1>2, <1>3, <1>6, <3>1
  <2>2. CASE i > Len(s)
    <3>1. i - Len(s) \in 1..Len(t) /\ (i + 1) - Len(s) = (i - Len(s)) + 1 BY <1>2, <2>2
    <3>2. i \in (Len(s) + 1)..(Len(s) + Len(t)) /\ i + 1 \in (Len(s) + 1)..(Len(s) + Len(t) + 1) BY <1>2, <2>2
    <3>3. (s \o t)[i] = t[i - Len(s)] BY <1>2, <3>2
    <3>4. h[i] = k[i - Len(s)] BY ONLY <1>6, <3>2
    <3>5. h[i + 1] = k[(i + 1) - Len(s)] BY ONLY <1>6, <3>2
    <3>6. Does(t[i - Len(s)], k[i - Len(s)], k[(i - Len(s)) + 1]) BY ONLY <1>4, <3>1
    <3>. QED BY <3>1, <3>3, <3>4, <3>5, <3>6
  <2>. QED BY <1>2, <2>1, <2>2
<1>. QED BY <1>2, <1>7, <1>8, <1>9 DEF Runs

\* The first task of a chain, and the rest of it.
LEMMA RunsHead ==
  ASSUME NEW ts, NEW v, NEW w, Runs(ts, v, w), ts # <<>>
  PROVE  \E u : Does(Head(ts), v, u) /\ Runs(Tail(ts), u, w)
PROOF
<1>1. IsSequence(ts) BY DEF Runs
<1>2. Len(ts) \in Nat /\ Len(ts) # 0 /\ Head(ts) = ts[1] BY <1>1, SequenceBasics
<1>3. IsSequence(Tail(ts)) /\ Len(Tail(ts)) = Len(ts) - 1 /\ \A i \in 1..(Len(ts) - 1) : Tail(ts)[i] = ts[i + 1]
  BY <1>1, TailSequence
<1>4. PICK h : h[1] = v /\ h[Len(ts) + 1] = w /\ \A i \in 1..Len(ts) : Does(ts[i], h[i], h[i + 1]) BY DEF Runs
<1>5. Does(Head(ts), v, h[2])
  <2>1. 1 \in 1..Len(ts) /\ 1 + 1 = 2 BY <1>2
  <2>. QED BY <1>2, <1>4, <2>1
<1>6. PICK g : g = [i \in 1..Len(ts) |-> h[i + 1]] OBVIOUS
<1>7. g[1] = h[2] /\ g[Len(Tail(ts)) + 1] = w BY <1>2, <1>3, <1>4, <1>6
<1>8. ASSUME NEW i \in 1..Len(Tail(ts)) PROVE Does(Tail(ts)[i], g[i], g[i + 1])
  <2>1. i \in 1..Len(ts) /\ i + 1 \in 1..Len(ts) /\ i \in 1..(Len(ts) - 1) BY <1>2, <1>3
  <2>2. g[i] = h[i + 1] /\ g[i + 1] = h[(i + 1) + 1] BY <1>6, <2>1
  <2>. QED BY <1>3, <1>4, <2>1, <2>2
<1>9. Runs(Tail(ts), h[2], w) BY <1>3, <1>7, <1>8 DEF Runs
<1>. QED BY <1>5, <1>9

\* Tasks that change nothing.
LEMMA RunsAll ==
  ASSUME NEW ts, NEW v, IsSequence(ts), \A i \in 1..Len(ts) : Does(ts[i], v, v)
  PROVE  Runs(ts, v, v)
PROOF
<1>1. Len(ts) \in Nat BY SequenceBasics
<1>2. PICK h : h = [i \in 1..(Len(ts) + 1) |-> v] OBVIOUS
<1>3. h[1] = v /\ h[Len(ts) + 1] = v /\ \A i \in 1..Len(ts) : h[i] = v /\ h[i + 1] = v BY <1>1, <1>2
<1>. QED BY <1>3 DEF Runs

LEMMA RunsFurther ==
  ASSUME NEW ts, NEW t, NEW v, NEW u, NEW w, Runs(ts, v, u), Does(t, u, w)
  PROVE  Runs(Append(ts, t), v, w)
PROOF
<1>1. IsSequence(ts) BY DEF Runs
<1>2. /\ IsSequence(Append(ts, t)) /\ Len(Append(ts, t)) = Len(ts) + 1
      /\ \A i \in 1..Len(ts) : Append(ts, t)[i] = ts[i]
      /\ Append(ts, t)[Len(ts) + 1] = t /\ Len(ts) \in Nat
  BY <1>1, AppendSequence, SequenceBasics
<1>3. PICK g : g[1] = v /\ g[Len(ts) + 1] = u /\ \A i \in 1..Len(ts) : Does(ts[i], g[i], g[i + 1]) BY DEF Runs
<1>4. PICK h : h = [i \in 1..(Len(ts) + 2) |-> IF i = Len(ts) + 2 THEN w ELSE g[i]] OBVIOUS
<1>5. h[Len(ts) + 2] = w /\ \A i \in 1..(Len(ts) + 1) : h[i] = g[i] BY <1>2, <1>4
<1>6. h[1] = v /\ h[Len(Append(ts, t)) + 1] = w BY <1>2, <1>3, <1>5
<1>7. ASSUME NEW i \in 1..Len(Append(ts, t)) PROVE Does(Append(ts, t)[i], h[i], h[i + 1])
  <2>1. CASE i = Len(ts) + 1 BY <1>2, <1>3, <1>5, <2>1
  <2>2. CASE i # Len(ts) + 1 BY <1>2, <1>3, <1>5, <2>2
  <2>. QED BY <1>2, <2>1, <2>2
<1>. QED BY <1>2, <1>6, <1>7 DEF Runs

LEMMA RunsTwo ==
  ASSUME NEW a, NEW b, NEW v, NEW u, NEW w, Does(a, v, u), Does(b, u, w)
  PROVE  Runs(<<a, b>>, v, w)
PROOF
<1>1. Runs(<<a>>, v, u) BY RunsOne
<1>2. Runs(Append(<<a>>, b), v, w) BY <1>1, RunsFurther
<1>3. <<a, b>> = Append(<<a>>, b) OBVIOUS
<1>. QED BY <1>2, <1>3

LEMMA RunsThree ==
  ASSUME NEW a, NEW b, NEW c, NEW v, NEW u1, NEW u2, NEW w, Does(a, v, u1), Does(b, u1, u2), Does(c, u2, w)
  PROVE  Runs(<<a, b, c>>, v, w)
PROOF
<1>1. Runs(<<a, b>>, v, u2) BY RunsTwo
<1>2. Runs(Append(<<a, b>>, c), v, w) BY <1>1, RunsFurther
<1>3. <<a, b, c>> = Append(<<a, b>>, c) OBVIOUS
<1>. QED BY <1>2, <1>3

\* The tasks of an operator, of a branch or of a loop: all but the last see
\* the same.
LEMMA RunsInPlace ==
  ASSUME NEW a, NEW b, NEW c, NEW d, NEW e, NEW f, NEW v, NEW w,
         Does(a, v, v), Does(b, v, v), Does(c, v, v), Does(d, v, v)
  PROVE  /\ Runs(<<a, b, c, d>>, v, v)
         /\ Does(e, v, w) => Runs(<<a, b, c, d, e>>, v, w)
         /\ Does(e, v, v) /\ Does(f, v, v) => Runs(<<a, b, c, d, e, f>>, v, v)
PROOF
<1>1. Runs(<<a, b, c>>, v, v) BY RunsThree
<1>2. Runs(Append(<<a, b, c>>, d), v, v) BY <1>1, RunsFurther
<1>3. <<a, b, c, d>> = Append(<<a, b, c>>, d) OBVIOUS
<1>4. Runs(<<a, b, c, d>>, v, v) BY <1>2, <1>3
<1>5. ASSUME NEW x, Does(e, v, x) PROVE Runs(<<a, b, c, d, e>>, v, x)
  <2>1. Runs(Append(<<a, b, c, d>>, e), v, x) BY <1>4, <1>5, RunsFurther
  <2>2. <<a, b, c, d, e>> = Append(<<a, b, c, d>>, e) OBVIOUS
  <2>. QED BY <2>1, <2>2
<1>6. ASSUME Does(e, v, v), Does(f, v, v) PROVE Runs(<<a, b, c, d, e, f>>, v, v)
  <2>1. Runs(<<a, b, c, d, e>>, v, v) BY <1>5, <1>6
  <2>2. Runs(Append(<<a, b, c, d, e>>, f), v, v) BY <1>6, <2>1, RunsFurther
  <2>3. <<a, b, c, d, e, f>> = Append(<<a, b, c, d, e>>, f) OBVIOUS
  <2>. QED BY <2>2, <2>3
<1>. QED BY <1>4, <1>5, <1>6

-----------------------------------------------------------------------------
(* EBP - ESP. *)

\* f is what EBP - ESP comes to after each of the instructions is, from d on.
Stages(f, d, is) ==
  /\ f[0] = d
  /\ \A k \in 1..Len(is) : f[k] = DepthAfter(f[k - 1], is[k])

LEMMA DepthStages ==
  ASSUME NEW is, IsSequence(is), NEW d
  PROVE  \E f : Stages(f, d, is) /\ DepthAfterAll(d, is) = f[Len(is)]
PROOF
<1>1. Len(is) \in Nat BY SequenceBasics
<1>. DEFINE ValueAt(f, k) == IF k = 0 THEN d ELSE DepthAfter(f[k - 1], is[k])
            T == {n \in 0..Len(is) : \E f : f = [k \in 0..n |-> ValueAt(f, k)]}
<1>. HIDE DEF ValueAt
<1>2. 0 \in T
  <2>1. PICK f : f = [k \in 0..0 |-> d] OBVIOUS
  <2>2. f = [k \in 0..0 |-> ValueAt(f, k)] BY <2>1 DEF ValueAt
  <2>. QED BY <1>1, <2>2
<1>3. ASSUME NEW n \in 0..(Len(is) - 1), n \in T PROVE n + 1 \in T
  <2>1. PICK f : f = [k \in 0..n |-> ValueAt(f, k)] BY <1>3
  <2>2. PICK g : g = [k \in 0..(n + 1) |-> IF k = n + 1 THEN DepthAfter(f[n], is[n + 1]) ELSE f[k]] OBVIOUS
  <2>3. g[n + 1] = DepthAfter(f[n], is[n + 1]) /\ \A k \in 0..n : g[k] = f[k] BY <2>2
  <2>4. ASSUME NEW k \in 0..(n + 1) PROVE g[k] = ValueAt(g, k)
    <3>1. CASE k = n + 1
      <4>1. g[k - 1] = f[n] /\ k # 0 BY <2>3, <3>1
      <4>. QED BY <2>3, <3>1, <4>1 DEF ValueAt
    <3>2. CASE k # n + 1
      <4>1. f[k] = ValueAt(f, k) BY <2>1, <3>2
      <4>2. k = 0 \/ k - 1 \in 0..n BY <3>2
      <4>. QED BY <2>3, <3>2, <4>1, <4>2 DEF ValueAt
    <3>. QED BY <3>1, <3>2
  <2>5. g = [k \in 0..(n + 1) |-> g[k]] BY ONLY <2>2
  <2>6. g = [k \in 0..(n + 1) |-> ValueAt(g, k)] BY <2>4, <2>5
  <2>7. n + 1 \in 0..Len(is) BY <1>1
  <2>. QED BY <2>6, <2>7
<1>. HIDE DEF T
<1>4. 0..Len(is) \subseteq T BY <1>1, <1>2, <1>3, InductionUpTo
<1>5. Len(is) \in T BY <1>1, <1>4
<1>6. \E f : f = [k \in 0..Len(is) |-> ValueAt(f, k)] BY <1>5 DEF T
<1>7. PICK f : f = CHOOSE g : g = [k \in 0..Len(is) |-> ValueAt(g, k)] OBVIOUS
<1>8. f = [k \in 0..Len(is) |-> ValueAt(f, k)] BY <1>6, <1>7
<1>9. DepthAfterAll(d, is) = f[Len(is)] BY <1>7 DEF DepthAfterAll, ValueAt
<1>10. Stages(f, d, is)
  <2>1. f[0] = d BY <1>1, <1>8 DEF ValueAt
  <2>2. ASSUME NEW k \in 1..Len(is) PROVE f[k] = DepthAfter(f[k - 1], is[k])
    <3>1. k \in 0..Len(is) /\ k # 0 BY <1>1
    <3>. QED BY <1>8, <3>1 DEF ValueAt
  <2>. QED BY <2>1, <2>2 DEF Stages
<1>. QED BY <1>9, <1>10

\* Neutral instructions at the end do not matter.
LEMMA NeutralEnd ==
  ASSUME NEW f, NEW d, NEW is, Len(is) \in Nat, Stages(f, d, is), NEW m \in 0..Len(is),
         \A k \in (m + 1)..Len(is) : Neutral(is[k])
  PROVE  f[Len(is)] = f[m]
PROOF
<1>. DEFINE n == Len(is) - m
            T == {j \in 0..n : f[m + j] = f[m]}
<1>1. n \in Nat /\ m + n = Len(is) /\ m + 0 = m OBVIOUS
<1>2. 0 \in T BY <1>1
<1>3. ASSUME NEW j \in 0..(n - 1), j \in T PROVE j + 1 \in T
  <2>1. m + (j + 1) \in (m + 1)..Len(is) /\ m + (j + 1) \in 1..Len(is) /\ (m + (j + 1)) - 1 = m + j BY <1>1
  <2>2. f[m + (j + 1)] = DepthAfter(f[m + j], is[m + (j + 1)]) BY <2>1 DEF Stages
  <2>3. DepthAfter(f[m + j], is[m + (j + 1)]) = f[m + j] BY <2>1 DEF Neutral, DepthAfter, ESP, EBP, Reg
  <2>. QED BY <1>3, <2>2, <2>3
<1>. HIDE DEF T, n
<1>4. 0..n \subseteq T BY <1>1, <1>2, <1>3, InductionUpTo
<1>5. n \in T BY <1>1, <1>4
<1>. QED BY <1>1, <1>5 DEF T

LEMMA DepthOfNeutral ==
  ASSUME NEW d, NEW is, IsSequence(is), \A k \in 1..Len(is) : Neutral(is[k])
  PROVE  DepthAfterAll(d, is) = d
PROOF
<1>1. PICK f : Stages(f, d, is) /\ DepthAfterAll(d, is) = f[Len(is)] BY DepthStages
<1>2. Len(is) \in Nat BY SequenceBasics
<1>3. f[Len(is)] = f[0] BY <1>1, <1>2, NeutralEnd
<1>. QED BY <1>1, <1>3 DEF Stages

\* One instruction, then neutral ones.
LEMMA DepthOfFirst ==
  ASSUME NEW d, NEW is, IsSequence(is), is # <<>>, \A k \in 2..Len(is) : Neutral(is[k])
  PROVE  DepthAfterAll(d, is) = DepthAfter(d, is[1])
PROOF
<1>1. PICK f : Stages(f, d, is) /\ DepthAfterAll(d, is) = f[Len(is)] BY DepthStages
<1>2. Len(is) \in Nat \ {0} BY SequenceBasics
<1>3. f[Len(is)] = f[1] BY <1>1, <1>2, NeutralEnd
<1>4. f[1] = DepthAfter(f[0], is[1]) BY <1>1, <1>2 DEF Stages
<1>. QED BY <1>1, <1>3, <1>4 DEF Stages

-----------------------------------------------------------------------------
(* The numbers the generator computes. *)

LEMMA GreatestElement ==
  ASSUME NEW n \in Nat, NEW T \in SUBSET (1..n), T # {}
  PROVE  Max(T) \in T /\ \A y \in T : y <= Max(T)
PROOF
<1>. DEFINE U == {n - x : x \in T}
<1>1. U \in SUBSET Nat /\ U # {} OBVIOUS
<1>2. PICK u \in U : \A y \in U : u <= y BY <1>1, LeastElement
<1>3. PICK x \in T : u = n - x OBVIOUS
<1>4. \A y \in T : x >= y
  <2>. SUFFICES ASSUME NEW y \in T PROVE x >= y OBVIOUS
  <2>1. n - y \in U OBVIOUS
  <2>2. n - x <= n - y BY <1>2, <1>3, <2>1
  <2>. QED BY <2>2
<1>5. PICK m : m = Max(T) OBVIOUS
<1>6. m \in T /\ \A y \in T : m >= y BY <1>3, <1>4, <1>5 DEF Max
<1>. QED BY <1>5, <1>6

LEMMA SmallestElement ==
  ASSUME NEW T \in SUBSET Nat, T # {}
  PROVE  Min(T) \in T /\ \A y \in T : Min(T) <= y
PROOF
<1>1. \E x \in T : \A y \in T : x =< y BY LeastElement
<1>2. PICK m : m = Min(T) OBVIOUS
<1>3. m \in T /\ \A y \in T : m =< y BY <1>1, <1>2 DEF Min
<1>. QED BY <1>2, <1>3

\* f is the word of the bits of S from each of them on.
BitStages(f, S) ==
  /\ f[31] = (IF 31 \in S THEN -1 ELSE 0)
  /\ \A b \in 0..31 : f[b] \in Int
  /\ \A b \in 0..30 : f[b] = (IF b \in S THEN 1 ELSE 0) + 2 * f[b + 1]

LEMMA WordOfStages ==
  ASSUME NEW S
  PROVE  \E f : BitStages(f, S) /\ WordOf(S) = f[0]
PROOF
<1>. DEFINE ValueAt(f, b) == IF b = 31 THEN (IF b \in S THEN -1 ELSE 0)
                                       ELSE (IF b \in S THEN 1 ELSE 0) + 2 * f[b + 1]
            T == {j \in 0..31 : \E f : /\ f = [b \in (31 - j)..31 |-> ValueAt(f, b)]
                                       /\ \A b \in (31 - j)..31 : f[b] \in Int}
<1>. HIDE DEF ValueAt
<1>1. 0 \in T
  <2>1. PICK e : e = (IF 31 \in S THEN -1 ELSE 0) OBVIOUS
  <2>2. PICK f : f = [b \in 31..31 |-> e] OBVIOUS
  <2>3. 31 - 0 = 31 /\ e \in Int /\ \A b \in 31..31 : b = 31 BY <2>1
  <2>4. \A b \in 31..31 : ValueAt(f, b) = e BY <2>1, <2>3 DEF ValueAt
  <2>5. f = [b \in (31 - 0)..31 |-> ValueAt(f, b)] BY <2>2, <2>3, <2>4
  <2>6. \A b \in (31 - 0)..31 : f[b] \in Int BY <2>2, <2>3
  <2>. QED BY <2>5, <2>6
<1>2. ASSUME NEW j \in 0..(31 - 1), j \in T PROVE j + 1 \in T
  <2>1. PICK f : /\ f = [b \in (31 - j)..31 |-> ValueAt(f, b)]
                 /\ \A b \in (31 - j)..31 : f[b] \in Int
    BY <1>2
  <2>2. PICK m : m = 30 - j OBVIOUS
  <2>3. m \in 0..30 /\ 31 - (j + 1) = m /\ 31 - j = m + 1 BY <2>2
  <2>4. PICK e : e = (IF m \in S THEN 1 ELSE 0) + 2 * f[m + 1] OBVIOUS
  <2>5. f[m + 1] \in Int /\ e \in Int
    <3>1. m + 1 \in (31 - j)..31 BY <2>3
    <3>2. f[m + 1] \in Int BY <2>1, <3>1
    <3>. QED BY <2>4, <3>2
  <2>6. PICK g : g = [b \in m..31 |-> IF b = m THEN e ELSE f[b]] OBVIOUS
  <2>7. g[m] = e /\ \A b \in (m + 1)..31 : g[b] = f[b] BY <2>3, <2>6
  <2>8. ASSUME NEW b \in m..31 PROVE g[b] = ValueAt(g, b) /\ g[b] \in Int
    <3>1. CASE b = m
      <4>1. b # 31 /\ g[b + 1] = f[m + 1] BY <2>3, <2>7, <3>1
      <4>. QED BY <2>4, <2>5, <2>7, <3>1, <4>1 DEF ValueAt
    <3>2. CASE b # m
      <4>1. b \in (m + 1)..31 /\ (b = 31 \/ b + 1 \in (m + 1)..31) BY <2>3, <3>2
      <4>2. f[b] = ValueAt(f, b) BY <2>1, <2>3, <4>1
      <4>3. ValueAt(f, b) = ValueAt(g, b) BY <2>7, <4>1 DEF ValueAt
      <4>. QED BY <2>1, <2>3, <2>7, <4>1, <4>2, <4>3
    <3>. QED BY <3>1, <3>2
  <2>9. g = [b \in m..31 |-> g[b]] BY ONLY <2>6
  <2>10. g = [b \in m..31 |-> ValueAt(g, b)] BY <2>8, <2>9
  <2>11. j + 1 \in 0..31 OBVIOUS
  <2>. QED BY <2>3, <2>8, <2>10, <2>11
<1>. HIDE DEF T
<1>3. 31 \in Nat /\ 31 - 31 = 0 OBVIOUS
<1>4. 0..31 \subseteq T BY <1>1, <1>2, <1>3, InductionUpTo
<1>5. 31 \in T BY <1>4
<1>6. \E f : f = [b \in 0..31 |-> ValueAt(f, b)] BY <1>3, <1>5 DEF T
<1>7. PICK f : f = CHOOSE g : g = [b \in 0..31 |-> ValueAt(g, b)] OBVIOUS
<1>8. f = [b \in 0..31 |-> ValueAt(f, b)] BY <1>6, <1>7
<1>9. WordOf(S) = f[0] BY <1>7 DEF WordOf, ValueAt
<1>10. f[31] = (IF 31 \in S THEN -1 ELSE 0)
  <2>1. f[31] = ValueAt(f, 31) BY <1>8
  <2>. QED BY <2>1 DEF ValueAt
<1>11. ASSUME NEW b \in 0..30 PROVE f[b] = (IF b \in S THEN 1 ELSE 0) + 2 * f[b + 1]
  <2>1. b \in 0..31 /\ b # 31 OBVIOUS
  <2>2. f[b] = ValueAt(f, b) BY <1>8, <2>1
  <2>. QED BY <2>1, <2>2 DEF ValueAt
<1>12. \A b \in 0..31 : f[b] \in Int
  <2>. DEFINE U == {j \in 0..31 : f[31 - j] \in Int}
  <2>1. 0 \in U BY <1>10
  <2>2. ASSUME NEW j \in 0..(31 - 1), j \in U PROVE j + 1 \in U
    <3>1. PICK m : m = 30 - j OBVIOUS
    <3>2. m \in 0..30 /\ 31 - (j + 1) = m /\ 31 - j = m + 1 /\ j + 1 \in 0..31 BY <3>1
    <3>3. f[m] = (IF m \in S THEN 1 ELSE 0) + 2 * f[m + 1] BY <1>11, <3>2
    <3>4. f[m + 1] \in Int BY <2>2, <3>2
    <3>. QED BY <3>2, <3>3, <3>4
  <2>. HIDE DEF U
  <2>3. 0..31 \subseteq U BY <1>3, <2>1, <2>2, InductionUpTo
  <2>. SUFFICES ASSUME NEW b \in 0..31 PROVE f[b] \in Int OBVIOUS
  <2>4. 31 - b \in 0..31 /\ 31 - (31 - b) = b OBVIOUS
  <2>5. 31 - b \in U BY <2>3, <2>4
  <2>. QED BY <2>4, <2>5 DEF U
<1>. QED BY <1>9, <1>10, <1>11, <1>12 DEF BitStages

LEMMA WordOfInt ==
  ASSUME NEW S
  PROVE  WordOf(S) \in Int
PROOF
<1>1. PICK f : BitStages(f, S) /\ WordOf(S) = f[0] BY WordOfStages
<1>. QED BY <1>1 DEF BitStages

LEMMA InfoWordsInt ==
  ASSUME NEW ds
  PROVE  PointerBits(ds) \in Int /\ Tag(ds) \in Int
BY WordOfInt DEF PointerBits, Tag

-----------------------------------------------------------------------------
(* The parts of a syntax tree. *)

LEMMA ExpressionParts ==
  ASSUME NEW e \in Expressions
  PROVE  /\ e.op \in ExpressionOps
         /\ e.op = "int" => e.value \in Int
         /\ e.op = "new" => e.type \in STRING
         /\ e.op = "path" => e \in Paths
         /\ e.op = "not" => e.operand \in Expressions
         /\ e.op \in BinaryOps => e.lhs \in Expressions /\ e.rhs \in Expressions
PROOF
<1>. DEFINE A == AllTrees.aexps
            R == AllTrees.rexps
<1>1. e \in ArithmeticExprs(AllTrees) \/ e \in RelationalExprs(AllTrees) BY AllTreesMade DEF Made, Expressions
<1>. USE DEF ExpressionOps, BinaryOps, ArithmeticOps, RelationalOps, LogicalOps
<1>2. CASE e \in [op : {"int"}, value : Int] BY <1>2
<1>3. CASE e = Nil BY <1>3 DEF Nil
<1>4. CASE e \in [op : {"new"}, type : STRING] BY <1>4
<1>5. CASE e \in Paths BY <1>5 DEF Paths
<1>6. CASE e \in [op : ArithmeticOps, lhs : A, rhs : A] BY <1>6 DEF Expressions
<1>7. CASE e \in [op : RelationalOps, lhs : A, rhs : A] BY <1>7 DEF Expressions
<1>8. CASE e \in [op : LogicalOps, lhs : R, rhs : R] BY <1>8 DEF Expressions
<1>9. CASE e \in [op : {"not"}, operand : R] BY <1>9 DEF Expressions
<1>10. \/ e \in [op : {"int"}, value : Int] \/ e = Nil \/ e \in [op : {"new"}, type : STRING] \/ e \in Paths
       \/ e \in [op : ArithmeticOps, lhs : A, rhs : A] \/ e \in [op : RelationalOps, lhs : A, rhs : A]
       \/ e \in [op : LogicalOps, lhs : R, rhs : R] \/ e \in [op : {"not"}, operand : R]
  BY <1>1 DEF ArithmeticExprs, RelationalExprs
<1>. QED BY <1>2, <1>3, <1>4, <1>5, <1>6, <1>7, <1>8, <1>9, <1>10

LEMMA StatementParts ==
  ASSUME NEW s \in AllTrees.stmts
  PROVE  /\ s.op \in StatementOps
         /\ s.op = "assign" => s.lhs \in Paths /\ (s.rhs \in AllTrees.aexps \/ s.rhs \in FunctionCalls(AllTrees))
         /\ s.op = "if" => /\ s.guard \in AllTrees.rexps
                           /\ s.true_branch \in AllTrees.blocks /\ s.false_branch \in AllTrees.blocks
         /\ s.op = "while" => s.guard \in AllTrees.rexps /\ s.body \in AllTrees.blocks
PROOF
<1>1. s \in Statements(AllTrees) BY AllTreesMade DEF Made
<1>2. PICK F : F = FunctionCalls(AllTrees) OBVIOUS
<1>. QED BY <1>1, <1>2 DEF Statements, StatementOps

LEMMA BlockParts ==
  ASSUME NEW b \in AllTrees.blocks
  PROVE  b.op = "block" /\ b.decls \in Seq(Declarations) /\ b.stmts \in Seq(AllTrees.stmts)
BY AllTreesMade DEF Made, BlockStmts

LEMMA FunctionParts ==
  ASSUME NEW f \in FunctionDefs(AllTrees)
  PROVE  /\ f.op = "fundef" /\ f.function_name \in STRING /\ f.parameters \in Seq(Declarations)
         /\ f.function_body \in AllTrees.blocks /\ f.retval \in AllTrees.aexps
BY DEF FunctionDefs

LEMMA ProgramParts ==
  ASSUME NEW p \in ProgramTrees(AllTrees)
  PROVE  /\ p.type_defs \in Seq(TypeDefs) /\ p.function_defs \in Seq(FunctionDefs(AllTrees))
         /\ p.statements \in AllTrees.blocks /\ p.arithmetic_exp \in AllTrees.aexps
BY DEF ProgramTrees

-----------------------------------------------------------------------------
(* What the parts of a tree do. *)

LEMMA StatementIsCode ==
  ASSUME NEW v, AtStatement(v)
  PROVE  Computes(v)
BY DEF AtStatement, Computes

LEMMA ExpressionDoes ==
  ASSUME NEW e \in Expressions, NEW v, Computes(v)
  PROVE  Does(e, v, v)
PROOF
<1>1. e.op \in ExpressionOps BY ExpressionParts
<1>. QED BY <1>1 DEF Does, DoesCode, DoesTmp, DoesStatement, DoesBlock, DoesDefinition, ExpressionOps, StatementOps,
                     BinaryOps, ArithmeticOps, RelationalOps, LogicalOps

LEMMA StatementDoes ==
  ASSUME NEW s \in AllTrees.stmts, NEW v, AtStatement(v)
  PROVE  Does(s, v, v)
PROOF
<1>1. s.op \in StatementOps BY StatementParts
<1>. QED BY <1>1 DEF Does, DoesCode, DoesTmp, DoesStatement, DoesBlock, DoesDefinition, ExpressionOps, StatementOps,
                     BinaryOps, ArithmeticOps, RelationalOps, LogicalOps

LEMMA CallDoes ==
  ASSUME NEW c \in FunctionCalls(AllTrees), NEW v, AtStatement(v)
  PROVE  Does(c, v, v)
PROOF
<1>1. c.op = "call" BY DEF FunctionCalls
<1>. QED BY <1>1 DEF Does, DoesCode, DoesTmp, DoesStatement, DoesBlock, DoesDefinition, ExpressionOps, StatementOps,
                     BinaryOps, ArithmeticOps, RelationalOps, LogicalOps

LEMMA BlockDoes ==
  ASSUME NEW b \in AllTrees.blocks, NEW v
  PROVE  /\ AtStatement(v) => Does(b, v, v)
         /\ InFrame(v) /\ v.top /\ Current(v).kind \in {"root", "params"} =>
              Does(b, v, Entered(v, Plain("body", Current(v).next + Word * Len(b.decls))))
PROOF
<1>1. b.op = "block" BY BlockParts
<1>2. AtStatement(v) => ~v.top BY DEF AtStatement
<1>. QED BY <1>1, <1>2 DEF Does, DoesCode, DoesTmp, DoesStatement, DoesBlock, DoesDefinition, ExpressionOps, StatementOps,
                     BinaryOps, ArithmeticOps, RelationalOps, LogicalOps

LEMMA CodeDoes ==
  ASSUME NEW is, IsSequence(is), \A i \in 1..Len(is) : Neutral(is[i]) /\ Typed(is[i]), NEW v, Computes(v)
  PROVE  Does(Code(is), v, v)
BY DEF Code, Does, DoesCode, DoesTmp, DoesStatement, DoesBlock, DoesDefinition, ExpressionOps, StatementOps,
       BinaryOps, ArithmeticOps, RelationalOps, LogicalOps

-----------------------------------------------------------------------------
(* Contexts and their shapes. *)

LEMMA ShapesSequence ==
  ASSUME NEW c, IsSequence(c)
  PROVE  /\ IsSequence(ShapesOf(c)) /\ Len(ShapesOf(c)) = Len(c)
         /\ \A i \in 1..Len(c) : ShapesOf(c)[i] = Shape(c[i])
         /\ c # <<>> => ShapesOf(c) # <<>>
PROOF
<1>1. Len(c) \in Nat /\ DOMAIN c = 1..Len(c) BY SequenceBasics
<1>2. IsSequence(ShapesOf(c)) /\ Len(ShapesOf(c)) = Len(c) BY <1>1, ToSequence DEF ShapesOf
<1>3. c # <<>> => ShapesOf(c) # <<>> BY <1>2, SequenceBasics
<1>. QED BY <1>1, <1>2, <1>3 DEF ShapesOf

LEMMA ShapesAppend ==
  ASSUME NEW c, IsSequence(c), NEW s
  PROVE  ShapesOf(Append(c, s)) = Append(ShapesOf(c), Shape(s))
PROOF
<1>1. Len(c) \in Nat BY SequenceBasics
<1>2. PICK d : d = Append(c, s) OBVIOUS
<1>3. IsSequence(d) /\ Len(d) = Len(c) + 1 /\ d[Len(c) + 1] = s /\ \A i \in 1..Len(c) : d[i] = c[i]
  BY <1>2, AppendSequence
<1>4. PICK e : e = ShapesOf(c) OBVIOUS
<1>5. IsSequence(e) /\ Len(e) = Len(c) /\ \A i \in 1..Len(c) : e[i] = Shape(c[i]) BY <1>4, ShapesSequence
<1>6. PICK x : x = Shape(s) OBVIOUS
<1>7. /\ IsSequence(Append(e, x)) /\ Len(Append(e, x)) = Len(e) + 1 /\ Append(e, x)[Len(e) + 1] = x
      /\ \A i \in 1..Len(e) : Append(e, x)[i] = e[i]
  BY <1>5, AppendSequence
<1>8. IsSequence(ShapesOf(d)) /\ Len(ShapesOf(d)) = Len(d) /\ \A i \in 1..Len(d) : ShapesOf(d)[i] = Shape(d[i])
  BY <1>3, ShapesSequence
<1>9. ASSUME NEW i \in 1..Len(d) PROVE ShapesOf(d)[i] = Append(e, x)[i]
  <2>1. CASE i = Len(c) + 1 BY <1>3, <1>5, <1>6, <1>7, <1>8, <2>1
  <2>2. CASE i # Len(c) + 1
    <3>1. i \in 1..Len(c) BY <1>1, <1>3, <2>2
    <3>. QED BY <1>3, <1>5, <1>7, <1>8, <3>1
  <2>. QED BY <2>1, <2>2
<1>10. PICK f, g : f = ShapesOf(d) /\ g = Append(e, x) OBVIOUS
<1>11. IsSequence(f) /\ IsSequence(g) /\ Len(f) = Len(g) /\ \A i \in 1..Len(f) : f[i] = g[i]
  BY <1>3, <1>5, <1>7, <1>8, <1>9, <1>10
<1>12. f = g BY ONLY <1>11, SameSequence
<1>. QED BY <1>2, <1>4, <1>6, <1>10, <1>12

LEMMA ShapesFront ==
  ASSUME NEW c, IsSequence(c), c # <<>>
  PROVE  ShapesOf(Front(c)) = Front(ShapesOf(c))
PROOF
<1>1. Len(c) \in Nat \ {0} BY SequenceBasics
<1>2. PICK d : d = Front(c) OBVIOUS
<1>3. IsSequence(d) /\ Len(d) = Len(c) - 1 /\ \A i \in 1..(Len(c) - 1) : d[i] = c[i] BY <1>2, FrontSequence
<1>4. PICK e : e = ShapesOf(c) OBVIOUS
<1>5. IsSequence(e) /\ e # <<>> /\ Len(e) = Len(c) /\ \A i \in 1..Len(c) : e[i] = Shape(c[i]) BY <1>4, ShapesSequence
<1>6. IsSequence(Front(e)) /\ Len(Front(e)) = Len(e) - 1 /\ \A i \in 1..(Len(e) - 1) : Front(e)[i] = e[i]
  BY <1>5, FrontSequence
<1>7. IsSequence(ShapesOf(d)) /\ Len(ShapesOf(d)) = Len(d) /\ \A i \in 1..Len(d) : ShapesOf(d)[i] = Shape(d[i])
  BY <1>3, ShapesSequence
<1>8. \A i \in 1..Len(d) : ShapesOf(d)[i] = Front(e)[i] BY <1>1, <1>3, <1>5, <1>6, <1>7
<1>9. ShapesOf(d) = Front(e) BY <1>3, <1>5, <1>6, <1>7, <1>8, SameSequence
<1>. QED BY <1>2, <1>4, <1>9

\* A stack of contexts with one more, with one less, with another on top.
LEMMA ContextsOpened ==
  ASSUME NEW c, IsSequence(c), \A i \in DOMAIN c : ScopeOK(c[i]), NEW s, ScopeOK(s)
  PROVE  /\ IsSequence(Append(c, s)) /\ Append(c, s) # <<>> /\ \A i \in DOMAIN Append(c, s) : ScopeOK(Append(c, s)[i])
         /\ Last(Append(c, s)) = s /\ Append(c, s)[Len(Append(c, s))] = s
PROOF
<1>1. Len(c) \in Nat /\ DOMAIN c = 1..Len(c) BY SequenceBasics
<1>2. PICK d : d = Append(c, s) OBVIOUS
<1>3. IsSequence(d) /\ Len(d) = Len(c) + 1 /\ d[Len(c) + 1] = s /\ \A i \in 1..Len(c) : d[i] = c[i]
  BY <1>2, AppendSequence
<1>4. DOMAIN d = 1..Len(d) /\ d # <<>> BY <1>1, <1>3, SequenceBasics
<1>5. \A i \in DOMAIN d : ScopeOK(d[i]) BY <1>1, <1>3, <1>4
<1>6. Last(d) = s BY <1>2, FrontOfAppend
<1>. QED BY <1>2, <1>3, <1>4, <1>5, <1>6

LEMMA ContextsLeft ==
  ASSUME NEW c, IsSequence(c), c # <<>>, \A i \in DOMAIN c : ScopeOK(c[i])
  PROVE  /\ IsSequence(Front(c)) /\ \A i \in DOMAIN Front(c) : ScopeOK(Front(c)[i])
         /\ Len(Front(c)) = Len(c) - 1
         /\ Len(c) > 1 => Front(c) # <<>> /\ Front(c)[Len(Front(c))] = c[Len(c) - 1]
PROOF
<1>1. Len(c) \in Nat \ {0} /\ DOMAIN c = 1..Len(c) BY SequenceBasics
<1>2. PICK d : d = Front(c) OBVIOUS
<1>3. IsSequence(d) /\ Len(d) = Len(c) - 1 /\ \A i \in 1..(Len(c) - 1) : d[i] = c[i] BY <1>2, FrontSequence
<1>4. DOMAIN d = 1..Len(d) /\ (d = <<>> <=> Len(d) = 0) BY <1>3, SequenceBasics
<1>5. \A i \in DOMAIN d : ScopeOK(d[i]) BY <1>1, <1>3, <1>4
<1>6. Len(c) > 1 => d # <<>> /\ d[Len(d)] = c[Len(c) - 1] BY <1>1, <1>3, <1>4
<1>. QED BY <1>2, <1>3, <1>5, <1>6

-----------------------------------------------------------------------------
(* Instructions. *)

Quiet(is) == IsSequence(is) /\ \A i \in 1..Len(is) : Neutral(is[i]) /\ Typed(is[i])
WellTyped(is) == IsSequence(is) /\ \A i \in 1..Len(is) : Typed(is[i])

LEMMA OperandFacts ==
  /\ {EAX, EDX, EBP, ESP, None, Lbl("Entry"), Lbl("allocate")} \subseteq Operands
  /\ \A n \in Int : Imm(n) \in Operands /\ Imm(n) # ESP
  /\ \A n \in Int : \A r \in Registers : Mem(n, r) \in Operands /\ Mem(n, r) # ESP
  /\ \A l \in STRING : Lbl(l) \in Operands /\ Lbl(l) # ESP
  /\ \A l \in LabelTexts : \A n \in Nat : Numbered(l, n) \in Operands /\ Numbered(l, n) # ESP
  /\ EAX # ESP /\ EDX # ESP /\ EBP # ESP /\ None # ESP /\ Lbl("Entry") # ESP /\ Lbl("allocate") # ESP
PROOF
<1>. USE DEF Operands, Registers, EAX, EDX, EBP, ESP, None, Lbl, Imm, Mem, Numbered, Reg, Unnumbered
<1>1. {EAX, EDX, EBP, ESP, None, Lbl("Entry"), Lbl("allocate")} \subseteq Operands OBVIOUS
<1>2. \A n \in Int : Imm(n) \in Operands /\ Imm(n) # ESP OBVIOUS
<1>3. \A n \in Int : \A r \in Registers : Mem(n, r) \in Operands /\ Mem(n, r) # ESP OBVIOUS
<1>4. \A l \in STRING : Lbl(l) \in Operands /\ Lbl(l) # ESP OBVIOUS
<1>5. \A l \in LabelTexts : \A n \in Nat : Numbered(l, n) \in Operands /\ Numbered(l, n) # ESP OBVIOUS
<1>6. EAX # ESP /\ EDX # ESP /\ EBP # ESP /\ None # ESP /\ Lbl("Entry") # ESP /\ Lbl("allocate") # ESP OBVIOUS
<1>. QED BY <1>1, <1>2, <1>3, <1>4, <1>5, <1>6

LEMMA InsnFacts ==
  ASSUME NEW op, NEW a \in Operands, NEW b \in Operands
  PROVE  /\ Typed(Insn(op, a, b))
         /\ Typed(Insn1(op, a))
         /\ op \notin {"push", "pushl", "pop"} /\ a # ESP /\ b # ESP => Neutral(Insn(op, a, b))
         /\ op \notin {"push", "pushl", "pop"} /\ a # ESP => Neutral(Insn1(op, a))
         /\ a # ESP => Neutral(Label(a))
BY OperandFacts DEF Typed, Neutral, Insn, Insn1, Label

LEMMA QuietShort ==
  /\ Quiet(<<>>)
  /\ \A i : Neutral(i) /\ Typed(i) => Quiet(<<i>>)
  /\ \A i, j : Neutral(i) /\ Typed(i) /\ Neutral(j) /\ Typed(j) => Quiet(<<i, j>>)
PROOF
<1>1. Quiet(<<>>) BY DEF Quiet, IsSequence
<1>2. ASSUME NEW i, Neutral(i), Typed(i) PROVE Quiet(<<i>>)
  <2>1. IsSequence(<<i>>) /\ Len(<<i>>) = 1 /\ <<i>>[1] = i BY DEF IsSequence, ToSet
  <2>. QED BY <1>2, <2>1 DEF Quiet
<1>3. ASSUME NEW i, NEW j, Neutral(i), Typed(i), Neutral(j), Typed(j) PROVE Quiet(<<i, j>>)
  <2>1. IsSequence(<<i, j>>) /\ Len(<<i, j>>) = 2 /\ <<i, j>>[1] = i /\ <<i, j>>[2] = j BY DEF IsSequence, ToSet
  <2>. QED BY <1>3, <2>1 DEF Quiet
<1>. QED BY <1>1, <1>2, <1>3

LEMMA QuietConcat ==
  ASSUME NEW s, NEW t, Quiet(s), Quiet(t)
  PROVE  Quiet(s \o t)
PROOF
<1>1. IsSequence(s) /\ IsSequence(t) /\ Len(s) \in Nat /\ Len(t) \in Nat BY SequenceBasics DEF Quiet
<1>2. /\ IsSequence(s \o t) /\ Len(s \o t) = Len(s) + Len(t)
      /\ \A i \in 1..Len(s) : (s \o t)[i] = s[i]
      /\ \A i \in (Len(s) + 1)..(Len(s) + Len(t)) : (s \o t)[i] = t[i - Len(s)]
  BY <1>1, ConcatSequences
<1>3. ASSUME NEW i \in 1..Len(s \o t) PROVE Neutral((s \o t)[i]) /\ Typed((s \o t)[i])
  <2>1. CASE i <= Len(s)
    <3>1. i \in 1..Len(s) BY <1>1, <1>2, <2>1
    <3>. QED BY <1>2, <3>1 DEF Quiet
  <2>2. CASE i > Len(s)
    <3>1. i - Len(s) \in 1..Len(t) /\ i \in (Len(s) + 1)..(Len(s) + Len(t)) BY <1>1, <1>2, <2>2
    <3>2. (s \o t)[i] = t[i - Len(s)] BY <1>2, <3>1
    <3>. QED BY <3>1, <3>2 DEF Quiet
  <2>. QED BY <1>1, <1>2, <2>1, <2>2
<1>. QED BY <1>2, <1>3 DEF Quiet

\* An instruction, then quiet code.
LEMMA FirstThenQuiet ==
  ASSUME NEW i, Typed(i), NEW s, Quiet(s), NEW d
  PROVE  WellTyped(<<i>> \o s) /\ DepthAfterAll(d, <<i>> \o s) = DepthAfter(d, i)
PROOF
<1>1. IsSequence(<<i>>) /\ Len(<<i>>) = 1 /\ <<i>>[1] = i BY DEF IsSequence, ToSet
<1>2. IsSequence(s) /\ Len(s) \in Nat BY SequenceBasics DEF Quiet
<1>3. PICK t : t = <<i>> \o s OBVIOUS
<1>4. /\ IsSequence(t) /\ Len(t) = 1 + Len(s) /\ t[1] = i
      /\ \A k \in 2..(1 + Len(s)) : t[k] = s[k - 1]
  BY <1>1, <1>2, <1>3, ConcatSequences
<1>5. \A k \in 2..Len(t) : k - 1 \in 1..Len(s) /\ t[k] = s[k - 1] BY <1>2, <1>4
<1>6. \A k \in 2..Len(t) : Neutral(t[k]) /\ Typed(t[k]) BY <1>5 DEF Quiet
<1>7. \A k \in 1..Len(t) : k = 1 \/ k \in 2..Len(t) BY <1>2, <1>4
<1>8. WellTyped(t) BY <1>4, <1>6, <1>7 DEF WellTyped
<1>9. t # <<>> BY <1>2, <1>4, SequenceBasics
<1>10. DepthAfterAll(d, t) = DepthAfter(d, i) BY <1>4, <1>6, <1>9, DepthOfFirst
<1>. QED BY <1>3, <1>8, <1>10

LEMMA OneInsn ==
  ASSUME NEW i, Typed(i), NEW d
  PROVE  WellTyped(<<i>>) /\ DepthAfterAll(d, <<i>>) = DepthAfter(d, i)
PROOF
<1>1. IsSequence(<<i>>) /\ Len(<<i>>) = 1 /\ <<i>>[1] = i BY DEF IsSequence, ToSet
<1>2. \A k \in 2..Len(<<i>>) : Neutral(<<i>>[k]) BY <1>1
<1>3. <<i>> # <<>> OBVIOUS
<1>4. DepthAfterAll(d, <<i>>) = DepthAfter(d, <<i>>[1]) BY ONLY <1>1, <1>2, <1>3, DepthOfFirst
<1>. QED BY <1>1, <1>4 DEF WellTyped

LEMMA TwoInsns ==
  ASSUME NEW i, Typed(i), NEW j, Typed(j), NEW d
  PROVE  WellTyped(<<i, j>>) /\ DepthAfterAll(d, <<i, j>>) = DepthAfter(DepthAfter(d, i), j)
PROOF
<1>1. PICK is : is = <<i, j>> OBVIOUS
<1>2. IsSequence(is) /\ Len(is) = 2 /\ is[1] = i /\ is[2] = j BY <1>1 DEF IsSequence, ToSet
<1>3. PICK f : Stages(f, d, is) /\ DepthAfterAll(d, is) = f[Len(is)] BY <1>2, DepthStages
<1>4. \A k \in 1..2 : k = 1 \/ k = 2 OBVIOUS
<1>5. f[1] = DepthAfter(d, i) /\ f[2] = DepthAfter(f[1], j)
  <2>1. 1 \in 1..2 /\ 2 \in 1..2 /\ 1 - 1 = 0 /\ 2 - 1 = 1 OBVIOUS
  <2>. QED BY <1>2, <1>3, <2>1 DEF Stages
<1>. QED BY <1>1, <1>2, <1>3, <1>4, <1>5 DEF WellTyped

LEMMA PairAsSequences == \A i, j : <<i>> \o <<j>> = <<i, j>>
PROOF
<1>. SUFFICES ASSUME NEW i, NEW j PROVE <<i>> \o <<j>> = <<i, j>> OBVIOUS
<1>1. PICK s, t, u : s = <<i>> /\ t = <<j>> /\ u = <<i, j>> OBVIOUS
<1>2. IsSequence(s) /\ IsSequence(t) /\ IsSequence(u) BY <1>1 DEF IsSequence, ToSet
<1>3. Len(s) = 1 /\ Len(t) = 1 /\ Len(u) = 2 /\ s[1] = i /\ t[1] = j /\ u[1] = i /\ u[2] = j BY <1>1
<1>4. PICK v : v = s \o t OBVIOUS
<1>5. IsSequence(v) /\ Len(v) = 2 /\ v[1] = i /\ v[2] = j
  <2>1. /\ IsSequence(v) /\ Len(v) = Len(s) + Len(t) /\ \A k \in 1..Len(s) : v[k] = s[k]
        /\ \A k \in (Len(s) + 1)..(Len(s) + Len(t)) : v[k] = t[k - Len(s)]
    BY <1>2, <1>4, ConcatSequences
  <2>2. 1 \in 1..1 /\ 2 \in (1 + 1)..(1 + 1) /\ 2 - 1 = 1 OBVIOUS
  <2>. QED BY <1>3, <2>1, <2>2
<1>6. \A k \in 1..Len(u) : u[k] = v[k]
  <2>1. \A k \in 1..2 : k = 1 \/ k = 2 OBVIOUS
  <2>. QED BY <1>3, <1>5, <2>1
<1>7. u = v BY <1>2, <1>3, <1>5, <1>6, SameSequence
<1>. QED BY <1>1, <1>4, <1>7

\* What Emit does.
LEMMA Emitted ==
  ASSUME CodeOK, NEW is, WellTyped(is), Emit(is)
  PROVE  CodeOK'
PROOF
<1>1. insns' = insns \o is BY DEF Emit
<1>2. IsSequence(insns) /\ Len(insns) \in Nat /\ DOMAIN insns = 1..Len(insns) BY SequenceBasics DEF CodeOK
<1>3. IsSequence(is) /\ Len(is) \in Nat BY SequenceBasics DEF WellTyped
<1>4. PICK s : s = insns OBVIOUS
<1>5. PICK t : t = s \o is OBVIOUS
<1>6. /\ IsSequence(t) /\ Len(t) = Len(s) + Len(is)
      /\ \A i \in 1..Len(s) : t[i] = s[i]
      /\ \A i \in (Len(s) + 1)..(Len(s) + Len(is)) : t[i] = is[i - Len(s)]
      /\ DOMAIN t = 1..Len(t)
  BY <1>2, <1>3, <1>4, <1>5, ConcatSequences, SequenceBasics
<1>7. ASSUME NEW i \in DOMAIN t PROVE Typed(t[i])
  <2>1. CASE i <= Len(s)
    <3>1. i \in 1..Len(s) BY <1>2, <1>3, <1>4, <1>6, <2>1
    <3>. QED BY <1>2, <1>4, <1>6, <3>1 DEF CodeOK
  <2>2. CASE i > Len(s)
    <3>1. i - Len(s) \in 1..Len(is) /\ i \in (Len(s) + 1)..(Len(s) + Len(is)) BY <1>2, <1>3, <1>4, <1>6, <2>2
    <3>2. t[i] = is[i - Len(s)] BY <1>6, <3>1
    <3>. QED BY <3>1, <3>2 DEF WellTyped
  <2>. QED BY <1>2, <1>3, <1>4, <1>6, <2>1, <2>2
<1>8. insns' = t BY <1>1, <1>4, <1>5
<1>. QED BY <1>6, <1>7, <1>8 DEF CodeOK

LEMMA EmittedQuiet ==
  ASSUME CodeOK, NEW is, Quiet(is), Emit(is)
  PROVE  CodeOK' /\ depth' = depth
PROOF
<1>1. WellTyped(is) BY DEF Quiet, WellTyped
<1>2. PICK d : d = depth OBVIOUS
<1>3. DepthAfterAll(d, is) = d BY DepthOfNeutral DEF Quiet
<1>. QED BY <1>1, <1>2, <1>3, Emitted DEF Emit

LEMMA EmittedNothing ==
  ASSUME CodeOK, EmitNothing
  PROVE  CodeOK' /\ depth' = depth
BY DEF EmitNothing, CodeOK

\* Where a variable that some context holds lives.
LEMMA LookupFinds ==
  ASSUME NEW c, IsSequence(c), \A i \in DOMAIN c : ScopeOK(c[i]), NEW x, Scopes(c, x) # {}
  PROVE  Lookup(c, x) \in [off : Int, type : Types]
PROOF
<1>1. Len(c) \in Nat /\ DOMAIN c = 1..Len(c) BY SequenceBasics
<1>2. Scopes(c, x) \in SUBSET (1..Len(c)) BY <1>1 DEF Scopes
<1>3. Max(Scopes(c, x)) \in Scopes(c, x) BY <1>1, <1>2, GreatestElement
<1>4. PICK m : m = Max(Scopes(c, x)) OBVIOUS
<1>5. m \in DOMAIN c /\ x \in DOMAIN c[m].vars BY <1>3, <1>4 DEF Scopes
<1>. QED BY <1>4, <1>5 DEF Lookup, ScopeOK, IsScope

LEMMA CurrentIsTop ==
  ASSUME ContextsOK
  PROVE  /\ Len(ctx) \in Nat \ {0} /\ Top = Last(ctx) /\ ScopeOK(Top)
         /\ IsSequence(View.scopes) /\ View.scopes # <<>> /\ Len(View.scopes) = Len(ctx)
         /\ \A i \in 1..Len(ctx) : View.scopes[i] = Shape(ctx[i])
         /\ Current(View) = Shape(Top)
         /\ View = Seen(ShapesOf(ctx), inTop, frame.kind, frame.begun)
         /\ View.scopes = ShapesOf(ctx) /\ View.top = inTop /\ View.frame = frame.kind /\ View.defs = frame.begun
PROOF
<1>1. IsSequence(ctx) /\ ctx # <<>> BY DEF ContextsOK
<1>2. Len(ctx) \in Nat \ {0} /\ DOMAIN ctx = 1..Len(ctx) BY <1>1, SequenceBasics
<1>3. View.scopes = ShapesOf(ctx) BY DEF View, Seen
<1>4. /\ IsSequence(ShapesOf(ctx)) /\ Len(ShapesOf(ctx)) = Len(ctx) /\ ShapesOf(ctx) # <<>>
      /\ \A i \in 1..Len(ctx) : ShapesOf(ctx)[i] = Shape(ctx[i])
  BY <1>1, ShapesSequence
<1>5. Current(View) = Shape(Top) BY <1>2, <1>3, <1>4 DEF Current, Top
<1>6. ScopeOK(Top) BY <1>2 DEF ContextsOK, Top
<1>. QED BY <1>2, <1>3, <1>4, <1>5, <1>6 DEF Top, Last, View, Seen

\* The operand of a temporary that is in the current context.
LEMMA TmpSlotFacts ==
  ASSUME ContextsOK, NEW x, HoldsTmp(View, x)
  PROVE  TmpSlot(x) \in Operands /\ TmpSlot(x) # ESP
PROOF
<1>1. Current(View) = Shape(Top) /\ Len(ctx) \in Nat \ {0} BY CurrentIsTop
<1>2. x \in DOMAIN Top.vars BY <1>1 DEF HoldsTmp, Shape
<1>3. IsSequence(ctx) /\ \A i \in DOMAIN ctx : ScopeOK(ctx[i]) BY DEF ContextsOK
<1>4. Len(ctx) \in DOMAIN ctx BY <1>1, <1>3, SequenceBasics
<1>5. Scopes(ctx, x) # {} BY <1>2, <1>4 DEF Scopes, Top
<1>6. Lookup(ctx, x) \in [off : Int, type : Types] BY <1>3, <1>5, LookupFinds
<1>7. -Lookup(ctx, x).off \in Int BY <1>6
<1>. QED BY <1>7, OperandFacts DEF TmpSlot, Registers

-----------------------------------------------------------------------------
(* The steps.  The task on top of the call stack finds what it needs; what  *)
(* it is replaced by leads to the same view that it led to.                 *)

LEMMA HeadTask ==
  ASSUME IInv, phase = "generating"
  PROVE  /\ \E u : Does(Task, View, u) /\ Runs(Tail(todo), u, Finished)
         /\ IsSequence(todo) /\ todo # <<>>
         /\ CodeOK /\ ContextsOK /\ NumbersOK /\ TablesOK /\ DepthOK /\ prog \in ProgramTrees(AllTrees)
PROOF
<1>1. Runs(todo, View, Finished) /\ ContextsOK BY DEF IInv
<1>2. todo # <<>>
  <2>1. View # Finished BY <1>1, CurrentIsTop DEF View, Finished, Seen
  <2>. SUFFICES ASSUME todo = <<>> PROVE FALSE OBVIOUS
  <2>2. Len(todo) + 1 = 1 BY SequenceBasics, <1>1 DEF Runs
  <2>. QED BY <1>1, <2>1, <2>2 DEF Runs
<1>3. PICK v, t : v = View /\ t = todo OBVIOUS
<1>4. \E u : Does(Head(t), v, u) /\ Runs(Tail(t), u, Finished) BY <1>1, <1>2, <1>3, RunsHead
<1>5. \E u : Does(Task, View, u) /\ Runs(Tail(todo), u, Finished) BY <1>3, <1>4 DEF Task
<1>. QED BY <1>1, <1>2, <1>5 DEF IInv, Runs

\* Nothing emitted.
LEMMA NothingEmitted ==
  ASSUME IInv, phase = "generating", EmitNothing
  PROVE  insns' = insns \o <<>>
PROOF
<1>1. IsSequence(insns) BY HeadTask DEF CodeOK
<1>2. PICK s : s = insns OBVIOUS
<1>3. s = s \o <<>>
  <2>1. IsSequence(s) BY <1>1, <1>2
  <2>. QED BY ONLY <2>1 DEF IsSequence
<1>. QED BY <1>2, <1>3 DEF EmitNothing

LEMMA StepKeeps ==
  ASSUME IInv, phase = "generating", phase' = "generating", prog' = prog,
         CodeOK', ContextsOK', NumbersOK', TablesOK', DepthOK',
         NEW u, Runs(Tail(todo), u, Finished), NEW ts, Then(ts), Runs(ts, View', u)
  PROVE  IInv'
PROOF
<1>1. PICK v, r : v = View' /\ r = Tail(todo) OBVIOUS
<1>2. Runs(ts \o r, v, Finished) BY <1>1, RunsConcat
<1>3. todo' = ts \o r BY <1>1 DEF Then
<1>4. (Runs(todo, View, Finished))' BY <1>1, <1>2, <1>3
<1>5. FreshOK' BY DEF FreshOK
<1>. QED BY <1>4, <1>5 DEF IInv

\* A step that emits quiet code and leaves the contexts alone.
LEMMA QuietStep ==
  ASSUME IInv, phase = "generating", UNCHANGED <<phase, prog, typeInfo, ctx, inTop, frame>>,
         nextTmp' \in Nat, nextIndex' \in Nat, inLhs' \in BOOLEAN, CodeOK', depth' = depth,
         NEW u, Runs(Tail(todo), u, Finished), NEW ts, Then(ts), Runs(ts, View, u)
  PROVE  IInv'
PROOF
<1>1. View' = View BY DEF View
<1>2. ContextsOK' /\ TablesOK' BY HeadTask DEF ContextsOK, TablesOK
<1>3. NumbersOK' /\ DepthOK' BY HeadTask DEF NumbersOK, DepthOK, Top
<1>4. Runs(ts, View', u) BY <1>1
<1>. QED BY <1>2, <1>3, <1>4, StepKeeps

\* Errors leave everything as it is.
LEMMA FailStep ==
  ASSUME IInv, Fail, prog' = prog
  PROVE  IInv'
BY DEF Fail, IInv, CodeOK, ContextsOK, NumbersOK, TablesOK, FreshOK, names, tables, where, Typed

LEMMA EmitCodeStep == IInv /\ EmitCode => IInv' /\ depth' = depth
PROOF
<1>. SUFFICES ASSUME IInv, EmitCode PROVE IInv' /\ depth' = depth OBVIOUS
<1>. USE DEF EmitCode, At
<1>1. PICK u : Does(Task, View, u) /\ Runs(Tail(todo), u, Finished) BY HeadTask
<1>2. Quiet(Task.insns) /\ u = View BY <1>1 DEF Does, DoesCode, Quiet
<1>3. CodeOK' /\ depth' = depth
  <2>1. PICK is : is = Task.insns OBVIOUS
  <2>. QED BY <1>2, <2>1, HeadTask, EmittedQuiet
<1>4. Runs(<<>>, View, u) BY <1>2, RunsNone
<1>5. nextTmp' \in Nat /\ nextIndex' \in Nat /\ inLhs' \in BOOLEAN BY HeadTask DEF NumbersOK, names
<1>6. UNCHANGED <<phase, prog, typeInfo, ctx, inTop, frame>> BY DEF tables, where
<1>. QED BY <1>1, <1>3, <1>4, <1>5, <1>6, QuietStep

LEMMA SaveTmpStep == IInv /\ SaveTmp => IInv' /\ depth' = depth
PROOF
<1>. SUFFICES ASSUME IInv, SaveTmp PROVE IInv' /\ depth' = depth OBVIOUS
<1>. USE DEF SaveTmp, At
<1>1. PICK u : Does(Task, View, u) /\ Runs(Tail(todo), u, Finished) BY HeadTask
<1>2. HoldsTmp(View, Task.tmp) /\ u = View BY <1>1 DEF Does, DoesTmp
<1>3. CodeOK' /\ depth' = depth
  <2>1. PICK slot : slot = TmpSlot(Task.tmp) OBVIOUS
  <2>2. slot \in Operands /\ slot # ESP BY <1>2, <2>1, HeadTask, TmpSlotFacts
  <2>3. Quiet(<<Insn("movl", EAX, slot)>>) BY <2>2, OperandFacts, InsnFacts, QuietShort
  <2>. QED BY <2>1, <2>3, HeadTask, EmittedQuiet
<1>4. Runs(<<>>, View, u) BY <1>2, RunsNone
<1>5. nextTmp' \in Nat /\ nextIndex' \in Nat /\ inLhs' \in BOOLEAN BY HeadTask DEF NumbersOK, names
<1>6. UNCHANGED <<phase, prog, typeInfo, ctx, inTop, frame>> BY DEF tables, where
<1>. QED BY <1>1, <1>3, <1>4, <1>5, <1>6, QuietStep

LEMMA VisitConstantStep == IInv /\ VisitConstant => IInv' /\ depth' = depth
PROOF
<1>. SUFFICES ASSUME IInv, VisitConstant PROVE IInv' /\ depth' = depth OBVIOUS
<1>. USE DEF VisitConstant, At
<1>1. PICK u : Does(Task, View, u) /\ Runs(Tail(todo), u, Finished) BY HeadTask
<1>2. Task \in Expressions /\ u = View BY <1>1 DEF Does, DoesCode, ExpressionOps
<1>3. CodeOK' /\ depth' = depth
  <2>1. \E n \in Int : Emit(<<Insn("movl", Imm(n), EAX)>>) BY <1>2, ExpressionParts
  <2>2. PICK n \in Int : Emit(<<Insn("movl", Imm(n), EAX)>>) BY <2>1
  <2>3. Quiet(<<Insn("movl", Imm(n), EAX)>>) BY OperandFacts, InsnFacts, QuietShort
  <2>. QED BY <2>2, <2>3, HeadTask, EmittedQuiet
<1>4. Runs(<<>>, View, u) BY <1>2, RunsNone
<1>5. nextTmp' \in Nat /\ nextIndex' \in Nat /\ inLhs' \in BOOLEAN BY HeadTask DEF NumbersOK, names
<1>6. UNCHANGED <<phase, prog, typeInfo, ctx, inTop, frame>> /\ phase = "generating" BY DEF tables, where
<1>. QED BY <1>1, <1>3, <1>4, <1>5, <1>6, QuietStep

LEMMA LoadPathStep == IInv /\ LoadPath => IInv' /\ depth' = depth
PROOF
<1>. SUFFICES ASSUME IInv, LoadPath PROVE IInv' /\ depth' = depth OBVIOUS
<1>. USE DEF LoadPath, At
<1>1. PICK u : Does(Task, View, u) /\ Runs(Tail(todo), u, Finished) BY HeadTask
<1>2. u = View BY <1>1 DEF Does, DoesCode
<1>3. CodeOK' /\ depth' = depth
  <2>1. 0 \in Int /\ "eax" \in Registers BY DEF Registers
  <2>2. Quiet(<<Insn("movl", Mem(0, "eax"), EAX)>>) BY <2>1, OperandFacts, InsnFacts, QuietShort
  <2>3. Quiet(<<>>) BY QuietShort
  <2>. QED BY <2>2, <2>3, HeadTask, EmittedQuiet
<1>4. Runs(<<>>, View, u) BY <1>2, RunsNone
<1>5. nextTmp' \in Nat /\ nextIndex' \in Nat /\ inLhs' \in BOOLEAN BY HeadTask DEF NumbersOK, names
<1>6. UNCHANGED <<phase, prog, typeInfo, ctx, inTop, frame>> /\ phase = "generating" BY DEF tables, where
<1>. QED BY <1>1, <1>3, <1>4, <1>5, <1>6, QuietStep

LEMMA OperatorCodeQuiet ==
  ASSUME NEW op \in BinaryOps
  PROVE  Quiet(OperatorCode(op))
PROOF
<1>. USE OperandFacts, InsnFacts, QuietShort
<1>1. Quiet(<<Insn("add", EDX, EAX)>>) OBVIOUS
<1>2. Quiet(<<Insn("sub", EAX, EDX), Insn("movl", EDX, EAX)>>) OBVIOUS
<1>3. Quiet(<<Insn("imul", EDX, EAX)>>) OBVIOUS
<1>4. Quiet(<<Insn("andl", EDX, EAX)>>) OBVIOUS
<1>5. Quiet(<<Insn("orl", EDX, EAX)>>) OBVIOUS
<1>6. Quiet(Compare("setl")) BY DEF Compare
<1>7. Quiet(Compare("setle")) BY DEF Compare
<1>8. Quiet(Compare("sete")) BY DEF Compare
<1>. QED BY ONLY op \in BinaryOps, <1>1, <1>2, <1>3, <1>4, <1>5, <1>6, <1>7, <1>8
         DEF OperatorCode, BinaryOps, ArithmeticOps, RelationalOps, LogicalOps

LEMMA ApplyOperatorStep == IInv /\ ApplyOperator => IInv' /\ depth' = depth
PROOF
<1>. SUFFICES ASSUME IInv, ApplyOperator PROVE IInv' /\ depth' = depth OBVIOUS
<1>. USE DEF ApplyOperator, At
<1>1. PICK u : Does(Task, View, u) /\ Runs(Tail(todo), u, Finished) BY HeadTask
<1>2. HoldsTmp(View, Task.tmp) /\ u = View /\ Task.by \in BinaryOps BY <1>1 DEF Does, DoesTmp
<1>3. CodeOK' /\ depth' = depth
  <2>1. PICK slot, code : slot = TmpSlot(Task.tmp) /\ code = OperatorCode(Task.by) OBVIOUS
  <2>2. slot \in Operands /\ slot # ESP BY <1>2, <2>1, HeadTask, TmpSlotFacts
  <2>3. Quiet(<<Insn("movl", slot, EDX)>>) BY <2>2, OperandFacts, InsnFacts, QuietShort
  <2>4. Quiet(code) BY <1>2, <2>1, OperatorCodeQuiet
  <2>5. Quiet(<<Insn("movl", slot, EDX)>> \o code) BY <2>3, <2>4, QuietConcat
  <2>. QED BY <2>1, <2>5, HeadTask, EmittedQuiet
<1>4. Runs(<<>>, View, u) BY <1>2, RunsNone
<1>5. nextTmp' \in Nat /\ nextIndex' \in Nat /\ inLhs' \in BOOLEAN BY HeadTask DEF NumbersOK, names
<1>6. UNCHANGED <<phase, prog, typeInfo, ctx, inTop, frame>> BY DEF tables, where
<1>. QED BY <1>1, <1>3, <1>4, <1>5, <1>6, QuietStep

LEMMA StoreValueStep == IInv /\ StoreValue => IInv' /\ depth' = depth
PROOF
<1>. SUFFICES ASSUME IInv, StoreValue PROVE IInv' /\ depth' = depth OBVIOUS
<1>. USE DEF StoreValue, At
<1>1. PICK u : Does(Task, View, u) /\ Runs(Tail(todo), u, Finished) BY HeadTask
<1>2. HoldsTmp(View, Task.tmp) /\ u = View BY <1>1 DEF Does, DoesTmp
<1>3. CodeOK' /\ depth' = depth
  <2>1. PICK slot : slot = TmpSlot(Task.tmp) OBVIOUS
  <2>2. slot \in Operands /\ slot # ESP BY <1>2, <2>1, HeadTask, TmpSlotFacts
  <2>3. 0 \in Int /\ "eax" \in Registers BY DEF Registers
  <2>4. Quiet(<<Insn("movl", slot, EDX), Insn("movl", EDX, Mem(0, "eax"))>>)
    BY <2>2, <2>3, OperandFacts, InsnFacts, QuietShort
  <2>. QED BY <2>1, <2>4, HeadTask, EmittedQuiet
<1>4. Runs(<<>>, View, u) BY <1>2, RunsNone
<1>5. nextTmp' \in Nat /\ nextIndex' \in Nat /\ inLhs' \in BOOLEAN BY HeadTask DEF NumbersOK, names
<1>6. UNCHANGED <<phase, prog, typeInfo, ctx, inTop, frame>> BY DEF tables, where
<1>. QED BY <1>1, <1>3, <1>4, <1>5, <1>6, QuietStep

LEMMA FieldIndicesFacts ==
  ASSUME TablesOK, NEW type, NEW f, FieldIndices(type, f) # {}
  PROVE  Min(FieldIndices(type, f)) \in Nat
PROOF
<1>1. type \in DOMAIN typeInfo BY DEF FieldIndices
<1>2. typeInfo[type] \in Seq(Declarations) BY <1>1 DEF TablesOK
<1>3. DOMAIN typeInfo[type] \subseteq Nat BY <1>2
<1>4. FieldIndices(type, f) \in SUBSET Nat BY <1>3 DEF FieldIndices
<1>. QED BY <1>4, SmallestElement

LEMMA FieldsDoes ==
  ASSUME NEW type, NEW fs \in Seq(STRING), NEW v, Computes(v)
  PROVE  Does(Fields(type, fs), v, v)
BY DEF Fields, Does, DoesCode, DoesTmp, DoesStatement, DoesBlock, DoesDefinition, ExpressionOps, StatementOps,
       BinaryOps, ArithmeticOps, RelationalOps, LogicalOps

LEMMA FollowFieldStep == IInv /\ FollowField => IInv' /\ (phase' = "error" \/ depth' = depth)
PROOF
<1>. SUFFICES ASSUME IInv, FollowField PROVE IInv' /\ (phase' = "error" \/ depth' = depth) OBVIOUS
<1>. DEFINE f == Head(Task.fields)
            ok == FieldIndices(Task.type, f) # {}
<1>. USE DEF At
<1>1. CASE ~ok BY <1>1, FailStep DEF FollowField, Fail
<1>2. CASE ok
  <2>1. PICK u : Does(Task, View, u) /\ Runs(Tail(todo), u, Finished) BY HeadTask DEF FollowField
  <2>2. Task.fields \in Seq(STRING) /\ Computes(View) /\ u = View BY <2>1 DEF FollowField, Does, DoesCode
  <2>3. CodeOK' /\ depth' = depth
    <3>1. PICK n : n = Word * (Min(FieldIndices(Task.type, f)) - 1) OBVIOUS
    <3>2. Min(FieldIndices(Task.type, f)) \in Nat BY <1>2, HeadTask, FieldIndicesFacts DEF FollowField
    <3>3. n \in Int BY <3>1, <3>2 DEF Word
    <3>4. 0 \in Int /\ "eax" \in Registers BY DEF Registers
    <3>5. Quiet(<<Insn("movl", Mem(0, "eax"), EAX), Insn("add", Imm(n), EAX)>>)
      BY <3>3, <3>4, OperandFacts, InsnFacts, QuietShort
    <3>6. Emit(<<Insn("movl", Mem(0, "eax"), EAX), Insn("add", Imm(n), EAX)>>)
      BY <1>2, <3>1 DEF FollowField, FieldCode
    <3>. QED BY <3>5, <3>6, HeadTask, EmittedQuiet DEF FollowField
  <2>4. PICK t, fs, v : t = FieldType(Task.type, f) /\ fs = Tail(Task.fields) /\ v = View OBVIOUS
  <2>5. fs \in Seq(STRING)
    <3>1. Task.fields # <<>> BY DEF FollowField
    <3>. QED BY <2>2, <2>4, <3>1, HeadTailProperties
  <2>6. Runs(<<Fields(t, fs)>>, v, v) BY <2>2, <2>4, <2>5, FieldsDoes, RunsOne
  <2>7. Then(<<Fields(t, fs)>>) BY <1>2, <2>4 DEF FollowField
  <2>8. Runs(<<Fields(t, fs)>>, View, u) BY <2>2, <2>4, <2>6
  <2>9. nextTmp' \in Nat /\ nextIndex' \in Nat /\ inLhs' \in BOOLEAN BY <1>2, HeadTask DEF FollowField, NumbersOK, names
  <2>10. UNCHANGED <<phase, prog, typeInfo, ctx, inTop, frame>> /\ phase = "generating"
    BY <1>2 DEF FollowField, tables, where
  <2>. QED BY <2>1, <2>3, <2>7, <2>8, <2>9, <2>10, QuietStep
<1>. QED BY <1>1, <1>2

LEMMA VisitAccessPathStep == IInv /\ VisitAccessPath => IInv' /\ (phase' = "error" \/ depth' = depth)
PROOF
<1>. SUFFICES ASSUME IInv, VisitAccessPath PROVE IInv' /\ (phase' = "error" \/ depth' = depth) OBVIOUS
<1>. DEFINE ok == Scopes(ctx, Task.root) # {}
<1>. USE DEF At
<1>1. CASE ~ok BY <1>1, FailStep DEF VisitAccessPath, Fail
<1>2. CASE ok
  <2>1. PICK u : Does(Task, View, u) /\ Runs(Tail(todo), u, Finished) BY HeadTask DEF VisitAccessPath
  <2>2. Task \in Expressions /\ Task.op = "path" /\ Computes(View) /\ u = View
    BY <2>1 DEF VisitAccessPath, Does, DoesCode, ExpressionOps
  <2>3. Task.fieldAccesses \in Seq(STRING) BY <2>2, ExpressionParts DEF Paths
  <2>4. PICK c, x, root : c = ctx /\ x = Task.root /\ root = Lookup(ctx, Task.root) OBVIOUS
  <2>5. root \in [off : Int, type : Types] BY <1>2, <2>4, HeadTask, LookupFinds DEF VisitAccessPath, ContextsOK
  <2>6. CodeOK' /\ depth' = depth
    <3>1. root.off \in Int BY <2>5
    <3>2. Quiet(<<Insn("movl", EBP, EAX), Insn("sub", Imm(root.off), EAX)>>)
      BY <3>1, OperandFacts, InsnFacts, QuietShort
    <3>3. Emit(<<Insn("movl", EBP, EAX), Insn("sub", Imm(root.off), EAX)>>) BY <1>2, <2>4 DEF VisitAccessPath
    <3>. QED BY <3>2, <3>3, HeadTask, EmittedQuiet DEF VisitAccessPath
  <2>7. PICK fs, v : fs = Task.fieldAccesses /\ v = View OBVIOUS
  <2>8. Runs(<<Fields(root.type, fs)>>, v, v) BY <2>2, <2>3, <2>7, FieldsDoes, RunsOne
  <2>9. Then(<<Fields(root.type, fs)>>) BY <1>2, <2>4, <2>7 DEF VisitAccessPath
  <2>10. Runs(<<Fields(root.type, fs)>>, View, u) BY <2>2, <2>7, <2>8
  <2>11. nextTmp' \in Nat /\ nextIndex' \in Nat /\ inLhs' \in BOOLEAN
    BY <1>2, HeadTask DEF VisitAccessPath, NumbersOK, names
  <2>12. UNCHANGED <<phase, prog, typeInfo, ctx, inTop, frame>> /\ phase = "generating"
    BY <1>2 DEF VisitAccessPath, tables, where
  <2>. QED BY <2>1, <2>6, <2>9, <2>10, <2>11, <2>12, QuietStep
<1>. QED BY <1>1, <1>2

LEMMA VisitNotStep == IInv /\ VisitNot => IInv' /\ depth' = depth
PROOF
<1>. SUFFICES ASSUME IInv, VisitNot PROVE IInv' /\ depth' = depth OBVIOUS
<1>. USE DEF VisitNot, At
<1>1. PICK u : Does(Task, View, u) /\ Runs(Tail(todo), u, Finished) BY HeadTask
<1>2. Task \in Expressions /\ Task.op = "not" /\ Computes(View) /\ u = View
  BY <1>1 DEF Does, DoesCode, ExpressionOps
<1>3. CodeOK' /\ depth' = depth BY HeadTask, EmittedNothing
<1>4. PICK e, is, v : e = Task.operand /\ is = <<Insn("cmp", Imm(0), EAX), Insn("sete", None, EAX)>> /\ v = View OBVIOUS
<1>5. e \in Expressions BY <1>2, <1>4, ExpressionParts
<1>6. Quiet(is)
  <2>1. Imm(0) \in Operands /\ Imm(0) # ESP
    <3>1. 0 \in Int OBVIOUS
    <3>. QED BY <3>1, OperandFacts
  <2>2. Neutral(Insn("cmp", Imm(0), EAX)) /\ Typed(Insn("cmp", Imm(0), EAX)) BY <2>1, OperandFacts, InsnFacts
  <2>3. Neutral(Insn("sete", None, EAX)) /\ Typed(Insn("sete", None, EAX)) BY OperandFacts, InsnFacts
  <2>. QED BY <1>4, <2>2, <2>3, QuietShort
<1>7. Does(e, v, v) /\ Does(Code(is), v, v) BY <1>2, <1>4, <1>5, <1>6, ExpressionDoes, CodeDoes DEF Quiet
<1>8. Runs(<<e, Code(is)>>, v, v) BY <1>7, RunsTwo
<1>9. Then(<<e, Code(is)>>) BY <1>4
<1>10. Runs(<<e, Code(is)>>, View, u) BY <1>2, <1>4, <1>8
<1>11. nextTmp' \in Nat /\ nextIndex' \in Nat /\ inLhs' \in BOOLEAN BY HeadTask DEF NumbersOK, names
<1>12. UNCHANGED <<phase, prog, typeInfo, ctx, inTop, frame>> BY DEF tables, where
<1>. QED BY <1>1, <1>3, <1>9, <1>10, <1>11, <1>12, QuietStep

LEMMA AssignToDoes ==
  ASSUME NEW p \in Paths, NEW v, AtStatement(v)
  PROVE  Does([op |-> "assignto", lhs |-> p], v, v)
BY DEF Does, DoesCode, DoesTmp, DoesStatement, DoesBlock, DoesDefinition, ExpressionOps, StatementOps,
       BinaryOps, ArithmeticOps, RelationalOps, LogicalOps

LEMMA VisitAssignmentStep == IInv /\ VisitAssignment => IInv' /\ depth' = depth
PROOF
<1>. SUFFICES ASSUME IInv, VisitAssignment PROVE IInv' /\ depth' = depth OBVIOUS
<1>. USE DEF VisitAssignment, At
<1>1. PICK u : Does(Task, View, u) /\ Runs(Tail(todo), u, Finished) BY HeadTask
<1>2. Task \in AllTrees.stmts /\ Task.op = "assign" /\ AtStatement(View) /\ u = View
  BY <1>1 DEF Does, DoesStatement, StatementOps
<1>3. CodeOK' /\ depth' = depth BY HeadTask, EmittedNothing
<1>4. PICK l, e, v : l = Task.lhs /\ e = Task.rhs /\ v = View OBVIOUS
<1>5. l \in Paths /\ (e \in AllTrees.aexps \/ e \in FunctionCalls(AllTrees)) BY <1>2, <1>4, StatementParts
<1>6. Does(e, v, v) BY <1>2, <1>4, <1>5, StatementIsCode, ExpressionDoes, CallDoes DEF Expressions
<1>7. Runs(<<e, [op |-> "assignto", lhs |-> l]>>, v, v) BY <1>2, <1>4, <1>5, <1>6, AssignToDoes, RunsTwo
<1>8. Then(<<e, [op |-> "assignto", lhs |-> l]>>) BY <1>4
<1>9. Runs(<<e, [op |-> "assignto", lhs |-> l]>>, View, u) BY <1>2, <1>4, <1>7
<1>10. nextTmp' \in Nat /\ nextIndex' \in Nat /\ inLhs' \in BOOLEAN BY HeadTask DEF NumbersOK, names
<1>11. UNCHANGED <<phase, prog, typeInfo, ctx, inTop, frame>> BY DEF tables, where
<1>. QED BY <1>1, <1>3, <1>8, <1>9, <1>10, <1>11, QuietStep

\* The code of branches and loops.
LEMMA BranchCode ==
  ASSUME NEW n \in Nat
  PROVE  /\ Quiet(UnlessTrue(IfFalse(n))) /\ Quiet(UnlessTrue(WhileEnd(n)))
         /\ Quiet(<<Insn1("jmp", IfEnd(n)), Label(IfFalse(n))>>) /\ Quiet(<<Label(IfEnd(n))>>)
         /\ Quiet(<<Insn1("jmp", WhileStart(n)), Label(WhileEnd(n))>>) /\ Quiet(<<Label(WhileStart(n))>>)
PROOF
<1>1. \A l \in {IfFalse(n), IfEnd(n), WhileStart(n), WhileEnd(n)} : l \in Operands /\ l # ESP
  BY OperandFacts DEF IfFalse, IfEnd, WhileStart, WhileEnd, LabelTexts
<1>2. ASSUME NEW l \in {IfFalse(n), IfEnd(n), WhileStart(n), WhileEnd(n)}
      PROVE  /\ Neutral(Label(l)) /\ Typed(Label(l)) /\ Neutral(Insn1("jmp", l)) /\ Typed(Insn1("jmp", l))
             /\ Quiet(UnlessTrue(l))
  <2>1. Neutral(Label(l)) /\ Typed(Label(l)) BY <1>1, InsnFacts, OperandFacts DEF Label
  <2>2. Neutral(Insn1("jmp", l)) /\ Typed(Insn1("jmp", l)) BY <1>1, InsnFacts, OperandFacts
  <2>3. Neutral(Insn1("je", l)) /\ Typed(Insn1("je", l)) BY <1>1, InsnFacts, OperandFacts
  <2>4. 0 \in Int OBVIOUS
  <2>5. Neutral(Insn("cmp", Imm(0), EAX)) /\ Typed(Insn("cmp", Imm(0), EAX)) BY <2>4, InsnFacts, OperandFacts
  <2>6. Quiet(UnlessTrue(l)) BY <2>3, <2>5, QuietShort DEF UnlessTrue
  <2>. QED BY <2>1, <2>2, <2>6
<1>. QED BY <1>2, QuietShort

LEMMA VisitConditionalStep == IInv /\ VisitConditional => IInv' /\ depth' = depth
PROOF
<1>. SUFFICES ASSUME IInv, VisitConditional PROVE IInv' /\ depth' = depth OBVIOUS
<1>. USE DEF VisitConditional, At
<1>1. PICK u : Does(Task, View, u) /\ Runs(Tail(todo), u, Finished) BY HeadTask
<1>2. Task \in AllTrees.stmts /\ Task.op = "if" /\ AtStatement(View) /\ u = View
  BY <1>1 DEF Does, DoesStatement, StatementOps
<1>3. CodeOK' /\ depth' = depth BY HeadTask, EmittedNothing
<1>4. PICK g, b1, b2, n, v : /\ g = Task.guard /\ b1 = Task.true_branch /\ b2 = Task.false_branch
                             /\ n = nextIndex /\ v = View
  OBVIOUS
<1>5. g \in AllTrees.rexps /\ b1 \in AllTrees.blocks /\ b2 \in AllTrees.blocks /\ AtStatement(v)
  BY <1>2, <1>4, StatementParts
<1>6. PICK c1, c2, c3 : /\ c1 = UnlessTrue(IfFalse(n))
                        /\ c2 = <<Insn1("jmp", IfEnd(n)), Label(IfFalse(n))>> /\ c3 = <<Label(IfEnd(n))>>
  OBVIOUS
<1>7. n \in Nat BY <1>4, HeadTask DEF NumbersOK
<1>8. Quiet(c1) /\ Quiet(c2) /\ Quiet(c3) BY <1>6, <1>7, BranchCode
<1>9. Computes(v) BY <1>5, StatementIsCode
<1>10. Does(g, v, v) /\ Does(b1, v, v) /\ Does(b2, v, v) BY <1>5, <1>9, ExpressionDoes, BlockDoes DEF Expressions
<1>11. Does(Code(c1), v, v) /\ Does(Code(c2), v, v) /\ Does(Code(c3), v, v) BY <1>8, <1>9, CodeDoes DEF Quiet
<1>12. Runs(<<g, Code(c1), b1, Code(c2), b2, Code(c3)>>, v, v) BY <1>10, <1>11, RunsInPlace
<1>13. Then(<<g, Code(c1), b1, Code(c2), b2, Code(c3)>>) BY <1>4, <1>6
<1>14. Runs(<<g, Code(c1), b1, Code(c2), b2, Code(c3)>>, View, u) BY <1>2, <1>4, <1>12
<1>15. nextTmp' \in Nat /\ nextIndex' \in Nat /\ inLhs' \in BOOLEAN BY HeadTask DEF NumbersOK
<1>16. UNCHANGED <<phase, prog, typeInfo, ctx, inTop, frame>> BY DEF tables, where
<1>. QED BY <1>1, <1>3, <1>13, <1>14, <1>15, <1>16, QuietStep

LEMMA VisitLoopStep == IInv /\ VisitLoop => IInv' /\ depth' = depth
PROOF
<1>. SUFFICES ASSUME IInv, VisitLoop PROVE IInv' /\ depth' = depth OBVIOUS
<1>. USE DEF VisitLoop, At
<1>1. PICK u : Does(Task, View, u) /\ Runs(Tail(todo), u, Finished) BY HeadTask
<1>2. Task \in AllTrees.stmts /\ Task.op = "while" /\ AtStatement(View) /\ u = View
  BY <1>1 DEF Does, DoesStatement, StatementOps
<1>3. PICK g, b, n, v : g = Task.guard /\ b = Task.body /\ n = nextIndex /\ v = View OBVIOUS
<1>4. g \in AllTrees.rexps /\ b \in AllTrees.blocks /\ AtStatement(v) BY <1>2, <1>3, StatementParts
<1>5. PICK c0, c1, c2 : /\ c0 = <<Label(WhileStart(n))>> /\ c1 = UnlessTrue(WhileEnd(n))
                        /\ c2 = <<Insn1("jmp", WhileStart(n)), Label(WhileEnd(n))>>
  OBVIOUS
<1>6. n \in Nat BY <1>3, HeadTask DEF NumbersOK
<1>7. Quiet(c0) /\ Quiet(c1) /\ Quiet(c2) BY <1>5, <1>6, BranchCode
<1>8. CodeOK' /\ depth' = depth BY <1>3, <1>5, <1>7, HeadTask, EmittedQuiet
<1>9. Computes(v) BY <1>4, StatementIsCode
<1>10. Does(g, v, v) /\ Does(b, v, v) BY <1>4, <1>9, ExpressionDoes, BlockDoes DEF Expressions
<1>11. Does(Code(c1), v, v) /\ Does(Code(c2), v, v) BY <1>7, <1>9, CodeDoes DEF Quiet
<1>12. Runs(<<g, Code(c1), b, Code(c2)>>, v, v) BY <1>10, <1>11, RunsInPlace
<1>13. Then(<<g, Code(c1), b, Code(c2)>>) BY <1>3, <1>5
<1>14. Runs(<<g, Code(c1), b, Code(c2)>>, View, u) BY <1>2, <1>3, <1>12
<1>15. nextTmp' \in Nat /\ nextIndex' \in Nat /\ inLhs' \in BOOLEAN BY HeadTask DEF NumbersOK
<1>16. UNCHANGED <<phase, prog, typeInfo, ctx, inTop, frame>> BY DEF tables, where
<1>. QED BY <1>1, <1>8, <1>13, <1>14, <1>15, <1>16, QuietStep

-----------------------------------------------------------------------------
(* Views of a stack that is opened, left or changed on top. *)

IsView(v) ==
  IsSequence(v.scopes) /\ v.scopes # <<>> /\ v = Seen(v.scopes, v.top, v.frame, v.defs)

LEMMA ViewIsView ==
  ASSUME ContextsOK
  PROVE  IsView(View)
BY CurrentIsTop DEF IsView

LEMMA EnteredView ==
  ASSUME NEW v, IsView(v), NEW s, NEW w, w = Entered(v, s)
  PROVE  /\ IsView(w) /\ Current(w) = s /\ Left(w) = v
         /\ w.top = v.top /\ w.frame = v.frame /\ w.defs = v.defs
         /\ Len(v.scopes) \in Nat \ {0}
         /\ Len(w.scopes) = Len(v.scopes) + 1 /\ w.scopes[Len(w.scopes) - 1] = Current(v)
PROOF
<1>1. IsSequence(v.scopes) /\ Len(v.scopes) \in Nat \ {0} BY SequenceBasics DEF IsView
<1>2. PICK c : c = v.scopes OBVIOUS
<1>3. PICK d : d = Append(c, s) OBVIOUS
<1>4. IsSequence(d) /\ Len(d) = Len(c) + 1 /\ d[Len(c) + 1] = s /\ (\A i \in 1..Len(c) : d[i] = c[i])
  BY <1>1, <1>2, <1>3, AppendSequence
<1>5. d # <<>> /\ Front(d) = c BY <1>1, <1>2, <1>3, FrontOfAppend
<1>6. w.scopes = d /\ w = Seen(d, v.top, v.frame, v.defs) /\ w.top = v.top /\ w.frame = v.frame /\ w.defs = v.defs
  BY <1>2, <1>3 DEF Entered, Seen
<1>7. Left(w) = v BY <1>2, <1>5, <1>6 DEF Left, IsView
<1>8. Len(d) - 1 = Len(c) /\ Len(c) \in 1..Len(c) BY <1>1, <1>2, <1>4
<1>9. d[Len(d) - 1] = c[Len(c)] BY <1>4, <1>8
<1>. QED BY <1>1, <1>2, <1>4, <1>5, <1>6, <1>7, <1>9 DEF IsView, Current

LEMMA LeftView ==
  ASSUME NEW v, IsView(v), Len(v.scopes) > 1
  PROVE  IsView(Left(v)) /\ Current(Left(v)) = v.scopes[Len(v.scopes) - 1]
PROOF
<1>1. IsSequence(v.scopes) /\ Len(v.scopes) \in Nat \ {0} BY SequenceBasics DEF IsView
<1>2. PICK c : c = v.scopes OBVIOUS
<1>3. PICK d : d = Front(c) OBVIOUS
<1>4. IsSequence(d) /\ Len(d) = Len(c) - 1 /\ \A i \in 1..(Len(c) - 1) : d[i] = c[i]
  BY <1>1, <1>2, <1>3, FrontSequence DEF IsView
<1>5. d # <<>> /\ d[Len(d)] = c[Len(c) - 1] BY <1>1, <1>2, <1>4, SequenceBasics
<1>. QED BY <1>2, <1>3, <1>4, <1>5 DEF IsView, Left, Current, Seen

LEMMA ReplacedView ==
  ASSUME NEW v, IsView(v), NEW s, NEW w, w = Replaced(v, s)
  PROVE  /\ IsView(w) /\ Current(w) = s
         /\ w.top = v.top /\ w.frame = v.frame /\ w.defs = v.defs
         /\ \A t : Replaced(w, t) = Replaced(v, t)
         /\ Replaced(v, Current(v)) = v
PROOF
<1>1. IsSequence(v.scopes) /\ v.scopes # <<>> /\ Len(v.scopes) \in Nat \ {0} BY SequenceBasics DEF IsView
<1>2. PICK c : c = v.scopes OBVIOUS
<1>3. PICK f : f = Front(c) OBVIOUS
<1>4. IsSequence(f) /\ Len(f) = Len(c) - 1 /\ \A i \in 1..(Len(c) - 1) : f[i] = c[i] BY <1>1, <1>2, <1>3, FrontSequence
<1>5. PICK d : d = Append(f, s) OBVIOUS
<1>6. IsSequence(d) /\ d # <<>> /\ Front(d) = f /\ Last(d) = s BY <1>4, <1>5, AppendSequence, FrontOfAppend
<1>7. w.scopes = d /\ w = Seen(d, v.top, v.frame, v.defs) /\ w.top = v.top /\ w.frame = v.frame /\ w.defs = v.defs
  BY <1>2, <1>3, <1>5 DEF Replaced, Seen
<1>8. \A t : Replaced(w, t) = Replaced(v, t) BY <1>2, <1>3, <1>6, <1>7 DEF Replaced
<1>9. PICK x : x = c[Len(c)] OBVIOUS
<1>10. Append(f, x) = c
  <2>1. PICK e : e = Append(f, x) OBVIOUS
  <2>2. IsSequence(e) /\ Len(e) = Len(f) + 1 /\ e[Len(f) + 1] = x /\ \A i \in 1..Len(f) : e[i] = f[i]
    BY <1>4, <2>1, AppendSequence
  <2>3. Len(e) = Len(c) BY <1>1, <1>2, <1>4, <2>2
  <2>4. \A i \in 1..Len(e) : e[i] = c[i]
    <3>. SUFFICES ASSUME NEW i \in 1..Len(e) PROVE e[i] = c[i] OBVIOUS
    <3>1. i = Len(f) + 1 \/ i \in 1..Len(f) BY <1>1, <1>2, <1>4, <2>2
    <3>2. Len(f) + 1 = Len(c) BY <1>1, <1>2, <1>4
    <3>. QED BY <1>4, <1>9, <2>2, <3>1, <3>2
  <2>. QED BY <1>1, <1>2, <2>1, <2>2, <2>3, <2>4, SameSequence
<1>11. Replaced(v, Current(v)) = v BY <1>2, <1>3, <1>9, <1>10 DEF Replaced, Current, IsView
<1>. QED BY <1>6, <1>7, <1>8, <1>11 DEF IsView, Current, Last

LEMMA ViewOpened ==
  ASSUME ContextsOK, NEW s, ctx' = Append(ctx, s), inTop' = inTop, frame' = frame
  PROVE  View' = Entered(View, Shape(s))
PROOF
<1>1. PICK c, d : c = ctx /\ d = ctx' OBVIOUS
<1>2. IsSequence(c) BY <1>1 DEF ContextsOK
<1>3. ShapesOf(d) = Append(ShapesOf(c), Shape(s)) BY <1>1, <1>2, ShapesAppend
<1>. QED BY <1>1, <1>3 DEF View, Entered, Seen

LEMMA ViewLeft ==
  ASSUME ContextsOK, ctx' = Front(ctx), inTop' = inTop, frame' = frame
  PROVE  View' = Left(View)
PROOF
<1>1. PICK c, d : c = ctx /\ d = ctx' OBVIOUS
<1>2. IsSequence(c) /\ c # <<>> BY <1>1 DEF ContextsOK
<1>3. ShapesOf(d) = Front(ShapesOf(c)) BY <1>1, <1>2, ShapesFront
<1>. QED BY <1>1, <1>3 DEF View, Left, Seen

LEMMA ViewReplaced ==
  ASSUME ContextsOK, NEW s, ctx' = WithTop(s), inTop' = inTop, frame' = frame
  PROVE  View' = Replaced(View, Shape(s))
PROOF
<1>1. PICK c, d : c = ctx /\ d = ctx' OBVIOUS
<1>2. IsSequence(c) /\ c # <<>> BY <1>1 DEF ContextsOK
<1>3. IsSequence(Front(c)) BY <1>2, FrontSequence
<1>4. ShapesOf(d) = Append(ShapesOf(Front(c)), Shape(s)) BY <1>1, <1>3, ShapesAppend DEF WithTop
<1>5. ShapesOf(Front(c)) = Front(ShapesOf(c)) BY <1>2, ShapesFront
<1>. QED BY <1>1, <1>4, <1>5 DEF View, Replaced, Seen

\* The contexts after the three of them.
LEMMA TopOpened ==
  ASSUME ContextsOK, NEW s, ScopeOK(s), ctx' = Append(ctx, s)
  PROVE  ContextsOK' /\ Top' = s
PROOF
<1>1. PICK c, d : c = ctx /\ d = ctx' OBVIOUS
<1>2. IsSequence(d) /\ d # <<>> /\ (\A i \in DOMAIN d : ScopeOK(d[i])) /\ d[Len(d)] = s
  BY <1>1, ContextsOpened DEF ContextsOK
<1>. QED BY <1>1, <1>2 DEF ContextsOK, Top

LEMMA TopLeft ==
  ASSUME ContextsOK, Len(ctx) > 1, ctx' = Front(ctx)
  PROVE  ContextsOK' /\ Top' = ctx[Len(ctx) - 1]
PROOF
<1>1. PICK c, d : c = ctx /\ d = ctx' OBVIOUS
<1>2. IsSequence(d) /\ (\A i \in DOMAIN d : ScopeOK(d[i])) /\ d # <<>> /\ d[Len(d)] = c[Len(c) - 1]
  BY <1>1, ContextsLeft DEF ContextsOK
<1>. QED BY <1>1, <1>2 DEF ContextsOK, Top

LEMMA TopReplaced ==
  ASSUME ContextsOK, NEW s, ScopeOK(s), ctx' = WithTop(s)
  PROVE  ContextsOK' /\ Top' = s
PROOF
<1>1. PICK c, d : c = ctx /\ d = ctx' OBVIOUS
<1>2. IsSequence(Front(c)) /\ \A i \in DOMAIN Front(c) : ScopeOK(Front(c)[i]) BY <1>1, ContextsLeft DEF ContextsOK
<1>3. d = Append(Front(c), s) BY <1>1 DEF WithTop
<1>4. IsSequence(d) /\ d # <<>> /\ (\A i \in DOMAIN d : ScopeOK(d[i])) /\ d[Len(d)] = s
  BY <1>2, <1>3, ContextsOpened
<1>. QED BY <1>1, <1>4 DEF ContextsOK, Top

-----------------------------------------------------------------------------
(* Temporaries. *)

TmpScope(next, x) ==
  [kind |-> "tmp", vars |-> With(<<>>, x, [off |-> next, type |-> "int"]),
   next |-> next + Word, args |-> <<>>, arity |-> NoCall]

LEMMA TmpScopeFacts ==
  ASSUME NEW n \in Nat, NEW x
  PROVE  /\ ScopeOK(TmpScope(n, x)) /\ Shape(TmpScope(n, x)) = TmpShape(n + Word, x)
         /\ DOMAIN TmpScope(n, x).vars = {x} /\ TmpScope(n, x).vars[x] = [off |-> n, type |-> "int"]
PROOF
<1>1. PICK f : f = With(<<>>, x, [off |-> n, type |-> "int"]) OBVIOUS
<1>2. DOMAIN f = {x} /\ f[x] = [off |-> n, type |-> "int"] BY <1>1 DEF With
<1>3. PICK s : s = [kind |-> "tmp", vars |-> f, next |-> n + Word, args |-> <<>>, arity |-> NoCall] OBVIOUS
<1>4. s = TmpScope(n, x) BY <1>1, <1>3 DEF TmpScope
<1>5. DOMAIN s = {"kind", "vars", "next", "args", "arity"} BY <1>3
<1>6. \A y \in DOMAIN s.vars : s.vars[y] \in [off : Int, type : Types] BY <1>2, <1>3 DEF Types
<1>7. s.kind = "tmp" /\ s.next = n + Word /\ s.args = <<>> /\ s.arity = NoCall /\ s.vars = f BY <1>3
<1>8. <<>> \in Seq(Nat) /\ Len(<<>>) = 0 OBVIOUS
<1>9. IsScope(s) BY <1>5, <1>6, <1>7, <1>8 DEF IsScope, Word, NoCall
<1>10. ScopeOK(s) BY <1>7, <1>8, <1>9 DEF ScopeOK, Word
<1>11. Shape(s) = TmpShape(n + Word, x) BY <1>2, <1>7, <1>8 DEF Shape, TmpShape
<1>. QED BY <1>2, <1>4, <1>7, <1>10, <1>11

LEMMA OpenTmpEffect ==
  ASSUME ContextsOK, OpenTmp
  PROVE  /\ ctx' = Append(ctx, TmpScope(Top.next, Tmp(nextTmp)))
         /\ Top.next \in Nat /\ nextTmp' = nextTmp + 1 /\ nextIndex' = nextIndex
PROOF
<1>1. PICK c, x, n : c = ctx /\ x = Tmp(nextTmp) /\ n = Last(c).next OBVIOUS
<1>2. PICK s : s = [kind |-> "tmp", vars |-> <<>>, next |-> n, args |-> <<>>, arity |-> NoCall] OBVIOUS
<1>3. PICK d : d = Append(c, s) OBVIOUS
<1>4. IsSequence(c) BY <1>1 DEF ContextsOK
<1>5. Front(d) = c /\ Last(d) = s BY <1>3, <1>4, FrontOfAppend
<1>6. d = OpenScope(c, "tmp") BY <1>1, <1>2, <1>3 DEF OpenScope
<1>7. [Last(d) EXCEPT !.vars = With(@, x, [off |-> Last(d).next, type |-> "int"]), !.next = @ + Word] = TmpScope(n, x)
  <2>1. PICK vs : vs = With(<<>>, x, [off |-> n, type |-> "int"]) OBVIOUS
  <2>2. PICK m : m = n + Word OBVIOUS
  <2>3. [s EXCEPT !.vars = vs, !.next = m] = [kind |-> "tmp", vars |-> vs, next |-> m, args |-> <<>>, arity |-> NoCall]
    <3>. DEFINE Fs == {"kind", "vars", "next", "args", "arity"}
    <3>1. DOMAIN s = Fs BY <1>2
    <3>2. PICK t : t = [s EXCEPT !.vars = vs, !.next = m] OBVIOUS
    <3>3. t = [f \in Fs |-> IF f = "vars" THEN vs ELSE IF f = "next" THEN m ELSE s[f]] BY <3>1, <3>2
    <3>4. PICK u : u = [kind |-> "tmp", vars |-> vs, next |-> m, args |-> <<>>, arity |-> NoCall] OBVIOUS
    <3>5. u = [f \in Fs |-> IF f = "vars" THEN vs ELSE IF f = "next" THEN m ELSE s[f]] BY <1>2, <3>4
    <3>. QED BY <3>2, <3>3, <3>4, <3>5
  <2>4. s.vars = <<>> /\ s.next = n BY <1>2
  <2>. QED BY <1>5, <2>1, <2>2, <2>3, <2>4 DEF TmpScope
<1>8. AllocateVar(d, x, "int") = Append(c, TmpScope(n, x)) BY <1>5, <1>7 DEF AllocateVar
<1>9. Top = Last(ctx) /\ Top.next \in Nat BY CurrentIsTop DEF ScopeOK, IsScope
<1>. QED BY <1>1, <1>6, <1>8, <1>9 DEF OpenTmp

LEMMA TmpView ==
  ASSUME NEW v, IsView(v), InFrame(v), NEW x, NEW w, w = Entered(v, TmpShape(Current(v).next + Word, x))
  PROVE  /\ Computes(w) /\ Does(Do("free"), w, v)
         /\ Does(Save(x), w, w) /\ \A op \in BinaryOps : Does(Operate(op, x), w, w)
         /\ Does([op |-> "store", tmp |-> x], w, w)
PROOF
<1>1. /\ IsView(w) /\ Current(w) = TmpShape(Current(v).next + Word, x) /\ Left(w) = v
      /\ w.frame = v.frame /\ Len(v.scopes) \in Nat \ {0}
      /\ Len(w.scopes) = Len(v.scopes) + 1 /\ w.scopes[Len(w.scopes) - 1] = Current(v)
  BY EnteredView
<1>2. InFrame(w) /\ Current(w).kind = "tmp" /\ Current(w).arity = NoCall /\ HoldsTmp(w, x)
  BY <1>1 DEF InFrame, TmpShape, HoldsTmp
<1>3. OpenedIn(w, Word) BY <1>1 DEF OpenedIn, TmpShape
<1>4. Computes(w) BY <1>2 DEF Computes
<1>. USE DEF Does, DoesCode, DoesTmp, DoesStatement, DoesBlock, DoesDefinition, ExpressionOps, StatementOps,
             BinaryOps, ArithmeticOps, RelationalOps, LogicalOps
<1>5. Does(Do("free"), w, v) BY <1>1, <1>2, <1>3 DEF Do
<1>6. Does(Save(x), w, w) BY <1>2 DEF Save
<1>7. \A op \in BinaryOps : Does(Operate(op, x), w, w) BY <1>2 DEF Operate
<1>8. Does([op |-> "store", tmp |-> x], w, w) BY <1>2
<1>. QED BY <1>4, <1>5, <1>6, <1>7, <1>8

\* What sub and add do to ESP.
LEMMA MovesDepth ==
  ASSUME NEW n \in Int, NEW d \in Int
  PROVE  /\ DepthAfter(d, Insn("sub", Imm(n), ESP)) = d + n /\ DepthAfter(d, Insn("add", Imm(n), ESP)) = d - n
         /\ \A a : DepthAfter(d, Insn1("push", a)) = d + Word /\ DepthAfter(d, Insn1("pushl", a)) = d + Word
         /\ Typed(Insn("sub", Imm(n), ESP)) /\ Typed(Insn("add", Imm(n), ESP))
PROOF
<1>1. Typed(Insn("sub", Imm(n), ESP)) /\ Typed(Insn("add", Imm(n), ESP)) BY OperandFacts, InsnFacts
<1>2. Imm(n).n = n BY DEF Imm
<1>3. DepthAfter(d, Insn("sub", Imm(n), ESP)) = d + n BY <1>2 DEF DepthAfter, Insn
<1>4. DepthAfter(d, Insn("add", Imm(n), ESP)) = d - n BY <1>2 DEF DepthAfter, Insn
<1>5. \A a : DepthAfter(d, Insn1("push", a)) = d + Word /\ DepthAfter(d, Insn1("pushl", a)) = d + Word
  BY DEF DepthAfter, Insn1, Insn
<1>. QED BY <1>1, <1>3, <1>4, <1>5

LEMMA FreeTmpStep ==
  IInv /\ FreeTmp =>
    /\ IInv' /\ InFrame(View) /\ Top.kind = "tmp"
    /\ depth' = depth - Word /\ Top'.next = Top.next - Word
PROOF
<1>. SUFFICES ASSUME IInv, FreeTmp
              PROVE  /\ IInv' /\ InFrame(View) /\ Top.kind = "tmp"
                     /\ depth' = depth - Word /\ Top'.next = Top.next - Word
  OBVIOUS
<1>. USE DEF FreeTmp, At
<1>1. PICK u : Does(Task, View, u) /\ Runs(Tail(todo), u, Finished) BY HeadTask
<1>2. /\ InFrame(View) /\ Current(View).kind = "tmp" /\ Current(View).arity = NoCall
      /\ OpenedIn(View, Word) /\ u = Left(View)
  BY <1>1 DEF Does, DoesTmp
<1>3. ContextsOK /\ CodeOK /\ NumbersOK /\ TablesOK /\ DepthOK BY HeadTask
<1>4. UNCHANGED <<phase, prog, typeInfo, nextTmp, nextIndex, inLhs, inTop, frame>> BY DEF tables, names, where
<1>5. /\ Len(ctx) > 1 /\ Current(View) = Shape(Top) /\ Len(ctx) \in Nat
      /\ View.scopes[Len(ctx) - 1].next = ctx[Len(ctx) - 1].next
      /\ Len(View.scopes) = Len(ctx) /\ Top.next \in Nat
  <2>1. Current(View) = Shape(Top) /\ Len(ctx) \in Nat \ {0} /\ Len(View.scopes) = Len(ctx) /\ ScopeOK(Top)
    BY <1>3, CurrentIsTop
  <2>2. Len(ctx) > 1 BY <1>2, <2>1 DEF OpenedIn
  <2>3. Len(ctx) - 1 \in 1..Len(ctx) BY <2>1, <2>2
  <2>4. View.scopes[Len(ctx) - 1] = Shape(ctx[Len(ctx) - 1]) BY <1>3, <2>3, CurrentIsTop
  <2>. QED BY <2>1, <2>2, <2>4 DEF Shape, ScopeOK, IsScope
<1>6. ContextsOK' /\ Top' = ctx[Len(ctx) - 1] BY <1>3, <1>5, TopLeft
<1>7. Top'.next = Top.next - Word /\ Top.kind = "tmp"
  <2>1. ScopeOK(ctx[Len(ctx) - 1]) BY <1>3, <1>5, SequenceBasics DEF ContextsOK
  <2>2. Top'.next \in Nat BY <1>6, <2>1 DEF ScopeOK, IsScope
  <2>3. Current(View).next = Top.next /\ Top.kind = "tmp" BY <1>2, <1>5 DEF Shape
  <2>4. Top'.next + Word = Top.next BY <1>2, <1>5, <1>6, <2>3 DEF OpenedIn
  <2>. QED BY <1>5, <2>2, <2>3, <2>4 DEF Word
<1>8. CodeOK' /\ depth' = depth - Word
  <2>1. PICK d : d = depth OBVIOUS
  <2>2. d \in Int BY <1>3, <2>1 DEF NumbersOK
  <2>3. Word \in Int BY DEF Word
  <2>4. Typed(Insn("add", Imm(Word), ESP)) /\ DepthAfter(d, Insn("add", Imm(Word), ESP)) = d - Word
    BY <2>2, <2>3, MovesDepth
  <2>5. WellTyped(<<Insn("add", Imm(Word), ESP)>>) /\ DepthAfterAll(d, <<Insn("add", Imm(Word), ESP)>>) = d - Word
    BY <2>4, OneInsn
  <2>. QED BY <1>3, <2>1, <2>5, Emitted DEF Emit
<1>9. View' = Left(View) BY <1>3, <1>4, ViewLeft
<1>10. Runs(<<>>, View', u) BY <1>2, <1>9, RunsNone
<1>11. NumbersOK' BY <1>3, <1>4, <1>8 DEF NumbersOK, Word
<1>12. DepthOK'
  <2>1. PICK d, n : d = depth /\ n = Top.next OBVIOUS
  <2>2. d \in Int /\ n \in Nat BY <1>3, <1>5, <2>1 DEF NumbersOK
  <2>3. (d - Word) - ((n - Word) - Word) = d - (n - Word) BY <2>2 DEF Word
  <2>4. frame.kind # "none" => d - (n - Word) \in Nat BY <1>3, <2>1 DEF DepthOK
  <2>. QED BY <1>4, <1>7, <1>8, <2>1, <2>3, <2>4 DEF DepthOK
<1>13. TablesOK' BY <1>3, <1>4 DEF TablesOK
<1>14. IInv' BY <1>1, <1>4, <1>6, <1>8, <1>10, <1>11, <1>12, <1>13, StepKeeps
<1>. QED BY <1>2, <1>7, <1>8, <1>14

\* A temporary is opened, and ESP moved down for it.
LEMMA TmpOpened ==
  ASSUME IInv, phase = "generating", OpenTmp, NEW s, Quiet(s), Emit(<<Insn("sub", Imm(Word), ESP)>> \o s),
         UNCHANGED <<typeInfo, inTop, frame>>, inLhs' \in BOOLEAN
  PROVE  /\ CodeOK' /\ ContextsOK' /\ NumbersOK' /\ TablesOK' /\ DepthOK'
         /\ depth' = depth + Word /\ Top'.next = Top.next + Word
         /\ Top' = TmpScope(Top.next, Tmp(nextTmp)) /\ ctx' = Append(ctx, Top')
         /\ View' = Entered(View, TmpShape(Current(View).next + Word, Tmp(nextTmp)))
PROOF
<1>1. CodeOK /\ ContextsOK /\ NumbersOK /\ TablesOK /\ DepthOK BY HeadTask
<1>2. PICK c, x, n, d : c = ctx /\ x = Tmp(nextTmp) /\ n = Top.next /\ d = depth OBVIOUS
<1>3. ctx' = Append(c, TmpScope(n, x)) /\ n \in Nat /\ nextTmp' = nextTmp + 1 /\ nextIndex' = nextIndex
  BY <1>1, <1>2, OpenTmpEffect
<1>4. PICK scope : scope = TmpScope(n, x) OBVIOUS
<1>5. ScopeOK(scope) /\ Shape(scope) = TmpShape(n + Word, x) BY <1>3, <1>4, TmpScopeFacts
<1>6. scope.next = n + Word BY <1>4 DEF TmpScope
<1>7. ctx' = Append(ctx, scope) BY <1>2, <1>3, <1>4
<1>8. ContextsOK' /\ Top' = scope BY <1>1, <1>5, <1>7, TopOpened
<1>9. View' = Entered(View, TmpShape(n + Word, x)) BY <1>1, <1>5, <1>7, ViewOpened
<1>10. Current(View).next = n BY <1>1, <1>2, CurrentIsTop DEF Shape
<1>11. CodeOK' /\ depth' = d + Word
  <2>1. d \in Int /\ Word \in Int BY <1>1, <1>2 DEF NumbersOK, Word
  <2>2. PICK i : i = Insn("sub", Imm(Word), ESP) OBVIOUS
  <2>3. Typed(i) /\ DepthAfter(d, i) = d + Word BY <2>1, <2>2, MovesDepth
  <2>4. PICK is : is = <<i>> \o s OBVIOUS
  <2>5. WellTyped(is) /\ DepthAfterAll(d, is) = d + Word BY <2>3, <2>4, FirstThenQuiet
  <2>. QED BY <1>1, <1>2, <2>2, <2>4, <2>5, Emitted DEF Emit
<1>12. NumbersOK' BY <1>1, <1>2, <1>3, <1>11 DEF NumbersOK, Word
<1>13. DepthOK'
  <2>1. d \in Int BY <1>1, <1>2 DEF NumbersOK
  <2>2. (d + Word) - ((n + Word) - Word) = d - (n - Word) BY <1>3, <2>1 DEF Word
  <2>3. frame.kind # "none" => d - (n - Word) \in Nat BY <1>1, <1>2 DEF DepthOK
  <2>. QED BY <1>6, <1>8, <1>11, <2>2, <2>3 DEF DepthOK
<1>14. TablesOK' BY <1>1 DEF TablesOK
<1>. QED BY <1>2, <1>4, <1>6, <1>7, <1>8, <1>9, <1>10, <1>11, <1>12, <1>13, <1>14

LEMMA VisitBinaryStep ==
  IInv /\ VisitBinary =>
    /\ IInv' /\ InFrame(View)
    /\ depth' = depth + Word /\ Top' = TmpScope(Top.next, Tmp(nextTmp)) /\ ctx' = Append(ctx, Top')
PROOF
<1>. SUFFICES ASSUME IInv, VisitBinary
              PROVE  /\ IInv' /\ InFrame(View)
                     /\ depth' = depth + Word /\ Top' = TmpScope(Top.next, Tmp(nextTmp)) /\ ctx' = Append(ctx, Top')
  OBVIOUS
<1>. USE DEF VisitBinary, At
<1>1. PICK u : Does(Task, View, u) /\ Runs(Tail(todo), u, Finished) BY HeadTask
<1>2. Task \in Expressions /\ Computes(View) /\ u = View
  BY <1>1 DEF Does, DoesCode, ExpressionOps
<1>3. UNCHANGED <<phase, prog, typeInfo, inLhs, inTop, frame>> BY DEF tables, where
<1>4. Emit(<<Insn("sub", Imm(Word), ESP)>> \o <<>>)
  <2>1. <<Insn("sub", Imm(Word), ESP)>> \o <<>> = <<Insn("sub", Imm(Word), ESP)>> OBVIOUS
  <2>. QED BY <2>1
<1>5. inLhs' \in BOOLEAN BY <1>3, HeadTask DEF NumbersOK
<1>6. Quiet(<<>>) BY QuietShort
<1>7. /\ CodeOK' /\ ContextsOK' /\ NumbersOK' /\ TablesOK' /\ DepthOK'
      /\ depth' = depth + Word
      /\ Top' = TmpScope(Top.next, Tmp(nextTmp)) /\ ctx' = Append(ctx, Top')
      /\ View' = Entered(View, TmpShape(Current(View).next + Word, Tmp(nextTmp)))
  BY <1>3, <1>4, <1>5, <1>6, TmpOpened
<1>8. PICK v, w, x, op, e, f : v = View /\ w = View' /\ x = Tmp(nextTmp) /\ op = Task.op /\ e = Task.lhs /\ f = Task.rhs
  OBVIOUS
<1>9. IsView(v) /\ InFrame(v) BY <1>2, <1>8, HeadTask, ViewIsView DEF Computes
<1>10. w = Entered(v, TmpShape(Current(v).next + Word, x)) BY <1>7, <1>8
<1>11. Computes(w) /\ Does(Do("free"), w, v) /\ Does(Save(x), w, w) /\ Does(Operate(op, x), w, w)
  BY <1>8, <1>9, <1>10, TmpView
<1>12. Does(e, w, w) /\ Does(f, w, w) BY <1>2, <1>8, <1>11, ExpressionParts, ExpressionDoes
<1>13. Runs(<<e, Save(x), f, Operate(op, x), Do("free")>>, w, v) BY <1>11, <1>12, RunsInPlace
<1>14. Then(<<e, Save(x), f, Operate(op, x), Do("free")>>) BY <1>8
<1>15. Runs(<<e, Save(x), f, Operate(op, x), Do("free")>>, View', u) BY <1>2, <1>8, <1>13
<1>16. IInv' BY <1>1, <1>3, <1>7, <1>14, <1>15, StepKeeps
<1>. QED BY <1>7, <1>8, <1>9, <1>16

LEMMA AssignToStep ==
  IInv /\ AssignTo =>
    /\ IInv' /\ InFrame(View)
    /\ depth' = depth + Word /\ Top' = TmpScope(Top.next, Tmp(nextTmp)) /\ ctx' = Append(ctx, Top')
PROOF
<1>. SUFFICES ASSUME IInv, AssignTo
              PROVE  /\ IInv' /\ InFrame(View)
                     /\ depth' = depth + Word /\ Top' = TmpScope(Top.next, Tmp(nextTmp)) /\ ctx' = Append(ctx, Top')
  OBVIOUS
<1>. USE DEF AssignTo, At
<1>1. PICK u : Does(Task, View, u) /\ Runs(Tail(todo), u, Finished) BY HeadTask
<1>2. Task.lhs \in Paths /\ AtStatement(View) /\ u = View BY <1>1 DEF Does, DoesStatement
<1>3. UNCHANGED <<phase, prog, typeInfo, inTop, frame>> BY DEF tables, where
<1>4. PICK i : i = Insn("movl", EAX, Mem(-Top.next, "ebp")) OBVIOUS
<1>5. Quiet(<<i>>)
  <2>1. Top.next \in Nat BY HeadTask, CurrentIsTop DEF ScopeOK, IsScope
  <2>2. -Top.next \in Int BY <2>1
  <2>3. "ebp" \in Registers BY DEF Registers
  <2>4. Mem(-Top.next, "ebp") \in Operands /\ Mem(-Top.next, "ebp") # ESP BY <2>2, <2>3, OperandFacts
  <2>. QED BY <1>4, <2>4, OperandFacts, InsnFacts, QuietShort
<1>6. Emit(<<Insn("sub", Imm(Word), ESP)>> \o <<i>>)
  <2>1. PICK j : j = Insn("sub", Imm(Word), ESP) OBVIOUS
  <2>2. <<j>> \o <<i>> = <<j, i>> BY PairAsSequences
  <2>. QED BY <1>4, <2>1, <2>2
<1>7. /\ CodeOK' /\ ContextsOK' /\ NumbersOK' /\ TablesOK' /\ DepthOK'
      /\ depth' = depth + Word
      /\ Top' = TmpScope(Top.next, Tmp(nextTmp)) /\ ctx' = Append(ctx, Top')
      /\ View' = Entered(View, TmpShape(Current(View).next + Word, Tmp(nextTmp)))
  BY <1>3, <1>5, <1>6, TmpOpened
<1>8. PICK v, w, x, p : v = View /\ w = View' /\ x = Tmp(nextTmp) /\ p = Task.lhs OBVIOUS
<1>9. IsView(v) /\ InFrame(v) BY <1>2, <1>8, HeadTask, ViewIsView DEF AtStatement
<1>10. w = Entered(v, TmpShape(Current(v).next + Word, x)) BY <1>7, <1>8
<1>11. Computes(w) /\ Does(Do("free"), w, v) /\ Does([op |-> "store", tmp |-> x], w, w)
  BY <1>9, <1>10, TmpView
<1>12. Does(p, w, w)
  <2>1. p \in Expressions BY <1>2, <1>8, AllTreesClosed DEF Closed, Expressions, ArithmeticExprs
  <2>. QED BY <1>11, <2>1, ExpressionDoes
<1>13. Runs(<<p, [op |-> "store", tmp |-> x], Do("free")>>, w, v) BY <1>11, <1>12, RunsThree
<1>14. Then(<<p, [op |-> "store", tmp |-> x], Do("free")>>) BY <1>8
<1>15. Runs(<<p, [op |-> "store", tmp |-> x], Do("free")>>, View', u) BY <1>2, <1>8, <1>13
<1>16. IInv' BY <1>1, <1>3, <1>7, <1>14, <1>15, StepKeeps
<1>. QED BY <1>7, <1>8, <1>9, <1>16

\* Three instructions, then quiet code.
LEMMA ThreeThenQuiet ==
  ASSUME NEW i, NEW j, NEW k, NEW l, Typed(i), Typed(j), Typed(k), Typed(l), Neutral(l), NEW s, Quiet(s), NEW d
  PROVE  /\ WellTyped(<<i, j, k, l>> \o s)
         /\ DepthAfterAll(d, <<i, j, k, l>> \o s) = DepthAfter(DepthAfter(DepthAfter(d, i), j), k)
PROOF
<1>1. PICK h : h = <<i, j, k, l>> OBVIOUS
<1>2. IsSequence(h) /\ Len(h) = 4 /\ h[1] = i /\ h[2] = j /\ h[3] = k /\ h[4] = l BY <1>1 DEF IsSequence, ToSet
<1>3. IsSequence(s) /\ Len(s) \in Nat BY SequenceBasics DEF Quiet
<1>4. PICK t : t = h \o s OBVIOUS
<1>5. /\ IsSequence(t) /\ Len(t) = 4 + Len(s) /\ (\A n \in 1..4 : t[n] = h[n])
      /\ \A n \in 5..(4 + Len(s)) : t[n] = s[n - 4]
  <2>1. /\ IsSequence(t) /\ Len(t) = Len(h) + Len(s) /\ (\A n \in 1..Len(h) : t[n] = h[n])
        /\ \A n \in (Len(h) + 1)..(Len(h) + Len(s)) : t[n] = s[n - Len(h)]
    BY <1>2, <1>3, <1>4, ConcatSequences
  <2>2. Len(h) = 4 /\ 4 + 1 = 5 BY <1>2
  <2>. QED BY <2>1, <2>2
<1>6. t[1] = i /\ t[2] = j /\ t[3] = k /\ t[4] = l BY <1>2, <1>5
<1>7. \A n \in 5..Len(t) : n - 4 \in 1..Len(s) /\ t[n] = s[n - 4] BY <1>3, <1>5
<1>8. \A n \in 5..Len(t) : Neutral(t[n]) /\ Typed(t[n]) BY <1>7 DEF Quiet
<1>9. \A n \in 1..Len(t) : n \in 1..4 \/ n \in 5..Len(t) BY <1>3, <1>5
<1>10. \A n \in 1..4 : n = 1 \/ n = 2 \/ n = 3 \/ n = 4 OBVIOUS
<1>11. \A n \in 1..Len(t) : Typed(t[n]) BY <1>6, <1>8, <1>9, <1>10
<1>12. \A n \in 4..Len(t) : Neutral(t[n])
  <2>1. \A n \in 4..Len(t) : n = 4 \/ n \in 5..Len(t) BY <1>3, <1>5
  <2>. QED BY <1>6, <1>8, <2>1
<1>13. PICK f : Stages(f, d, t) /\ DepthAfterAll(d, t) = f[Len(t)] BY <1>5, DepthStages
<1>14. f[Len(t)] = f[3]
  <2>1. 3 \in 0..Len(t) /\ 3 + 1 = 4 /\ Len(t) \in Nat BY <1>3, <1>5
  <2>. QED BY <1>12, <1>13, <2>1, NeutralEnd
<1>15. f[3] = DepthAfter(DepthAfter(DepthAfter(d, i), j), k)
  <2>1. 1 \in 1..Len(t) /\ 2 \in 1..Len(t) /\ 3 \in 1..Len(t) BY <1>3, <1>5
  <2>2. f[0] = d /\ f[1] = DepthAfter(f[1 - 1], t[1]) /\ f[2] = DepthAfter(f[2 - 1], t[2]) /\ f[3] = DepthAfter(f[3 - 1], t[3])
    BY <1>13, <2>1 DEF Stages
  <2>3. 1 - 1 = 0 /\ 2 - 1 = 1 /\ 3 - 1 = 2 OBVIOUS
  <2>. QED BY <1>6, <2>2, <2>3
<1>. QED BY <1>1, <1>4, <1>5, <1>11, <1>13, <1>14, <1>15 DEF WellTyped

LEMMA NewCodeFacts ==
  ASSUME NEW fields \in Seq(Declarations), NEW d \in Int
  PROVE  WellTyped(NewCode(fields)) /\ DepthAfterAll(d, NewCode(fields)) = d + 2 * Word
PROOF
<1>1. IsSequence(fields) /\ Len(fields) \in Nat /\ DOMAIN fields = 1..Len(fields) BY IsSequenceIn, SequenceBasics
<1>2. PICK tag : tag = Tag(fields) OBVIOUS
<1>3. tag \in Int BY <1>2, InfoWordsInt
<1>4. PICK a, b, c, e : /\ a = Insn1("pushl", Imm(Len(fields))) /\ b = Insn1("call", Lbl("allocate"))
                        /\ c = Insn("sub", Imm(Word), ESP) /\ e = Insn("movl", Imm(tag), Mem(-Word, "eax"))
  OBVIOUS
<1>5. "eax" \in Registers /\ -Word \in Int /\ Word \in Int BY DEF Registers, Word
<1>6. Typed(a)
  <2>1. Imm(Len(fields)) \in Operands BY <1>1, OperandFacts
  <2>. QED BY <1>4, <2>1, OperandFacts, InsnFacts
<1>7. Neutral(b) /\ Typed(b) BY <1>4, OperandFacts, InsnFacts
<1>8. Typed(c) BY <1>4, <1>5, MovesDepth
<1>9. Neutral(e) /\ Typed(e)
  <2>1. Imm(tag) \in Operands /\ Imm(tag) # ESP BY <1>3, OperandFacts
  <2>2. Mem(-Word, "eax") \in Operands /\ Mem(-Word, "eax") # ESP BY <1>5, OperandFacts
  <2>. QED BY <1>4, <2>1, <2>2, InsnFacts
<1>10. PICK s : s = [i \in DOMAIN fields |-> Insn("movl", Imm(0), Mem(Word * (i - 1), "eax"))] OBVIOUS
<1>11. Quiet(s)
  <2>1. IsSequence(s) /\ Len(s) = Len(fields) BY <1>1, <1>10, ToSequence
  <2>2. ASSUME NEW i \in 1..Len(fields) PROVE Neutral(s[i]) /\ Typed(s[i])
    <3>1. PICK o : o = Word * (i - 1) OBVIOUS
    <3>2. o \in Int /\ 0 \in Int BY <3>1 DEF Word
    <3>3. Mem(o, "eax") \in Operands /\ Mem(o, "eax") # ESP BY <1>5, <3>2, OperandFacts
    <3>4. Imm(0) \in Operands /\ Imm(0) # ESP BY <3>2, OperandFacts
    <3>5. s[i] = Insn("movl", Imm(0), Mem(o, "eax")) BY <1>1, <1>10, <3>1
    <3>. QED BY <3>3, <3>4, <3>5, InsnFacts
  <2>. QED BY <2>1, <2>2 DEF Quiet
<1>12. NewCode(fields) = <<a, b, c, e>> \o s BY <1>2, <1>4, <1>10 DEF NewCode
<1>13. WellTyped(<<a, b, c, e>> \o s)
       /\ DepthAfterAll(d, <<a, b, c, e>> \o s) = DepthAfter(DepthAfter(DepthAfter(d, a), b), c)
  BY <1>6, <1>7, <1>8, <1>9, <1>11, ThreeThenQuiet
<1>14. DepthAfter(d, a) = d + Word BY <1>4, <1>5, MovesDepth
<1>15. DepthAfter(d + Word, b) = d + Word BY <1>4 DEF DepthAfter, Insn1, Insn, None, Lbl, ESP, EBP, Reg
<1>16. DepthAfter(d + Word, c) = d + Word + Word
  <2>1. d + Word \in Int BY <1>5
  <2>. QED BY <1>4, <1>5, <2>1, MovesDepth
<1>17. d + Word + Word = d + 2 * Word BY <1>5 DEF Word
<1>. QED BY <1>12, <1>13, <1>14, <1>15, <1>16, <1>17

LEMMA VisitNewStep ==
  IInv /\ VisitNew => IInv' /\ InFrame(View) /\ (phase' = "error" \/ depth' = depth + 2 * Word)
PROOF
<1>. SUFFICES ASSUME IInv, VisitNew PROVE IInv' /\ InFrame(View) /\ (phase' = "error" \/ depth' = depth + 2 * Word) OBVIOUS
<1>. DEFINE ok == Task.type \in DOMAIN typeInfo
<1>. USE DEF At
<1>1. PICK u : Does(Task, View, u) /\ Runs(Tail(todo), u, Finished) BY HeadTask DEF VisitNew
<1>2. Computes(View) /\ u = View BY <1>1 DEF VisitNew, Does, DoesCode, ExpressionOps
<1>3. CASE ~ok BY <1>2, <1>3, FailStep DEF VisitNew, Fail, Computes
<1>4. CASE ok
  <2>1. CodeOK /\ ContextsOK /\ NumbersOK /\ TablesOK /\ DepthOK BY HeadTask DEF VisitNew
  <2>2. UNCHANGED <<phase, prog, typeInfo, ctx, nextTmp, nextIndex, inLhs, inTop, frame>>
    BY <1>4 DEF VisitNew, tables, names, where
  <2>3. PICK d, fields : d = depth /\ fields = typeInfo[Task.type] OBVIOUS
  <2>4. d \in Int /\ fields \in Seq(Declarations) BY <1>4, <2>1, <2>3 DEF NumbersOK, TablesOK
  <2>5. WellTyped(NewCode(fields)) /\ DepthAfterAll(d, NewCode(fields)) = d + 2 * Word BY <2>4, NewCodeFacts
  <2>6. Emit(NewCode(fields)) /\ Then(<<>>) BY <1>4, <2>3 DEF VisitNew
  <2>7. CodeOK' /\ depth' = d + 2 * Word BY <2>1, <2>3, <2>5, <2>6, Emitted DEF Emit
  <2>8. View' = View BY <2>2 DEF View
  <2>9. ContextsOK' /\ TablesOK' /\ Top' = Top BY <2>1, <2>2 DEF ContextsOK, TablesOK, Top
  <2>10. NumbersOK' BY <2>1, <2>2, <2>4, <2>7 DEF NumbersOK, Word
  <2>11. DepthOK'
    <3>1. Top.next \in Nat BY <2>1, CurrentIsTop DEF ScopeOK, IsScope
    <3>. QED BY <2>1, <2>2, <2>3, <2>4, <2>7, <2>9, <3>1 DEF DepthOK, Word
  <2>12. Runs(<<>>, View', u) BY <1>2, <2>8, RunsNone
  <2>13. phase = "generating" BY DEF VisitNew
  <2>14. IInv' BY <1>1, <2>2, <2>6, <2>7, <2>9, <2>10, <2>11, <2>12, <2>13, StepKeeps
  <2>. QED BY <1>2, <2>3, <2>7, <2>14 DEF Computes
<1>. QED BY <1>3, <1>4

-----------------------------------------------------------------------------
(* Calls. *)

\* A scope with the call in it begun, gone on or ended.
LEMMA ScopeChangedOK ==
  ASSUME NEW s, ScopeOK(s), NEW n \in Nat, NEW a \in Seq(Nat), NEW r \in Nat \cup {NoCall},
         n - Word * Len(a) = s.next - Word * Len(s.args),
         NEW t, t.kind = s.kind, t.vars = s.vars, t.next = n, t.args = a, t.arity = r,
         DOMAIN t = {"kind", "vars", "next", "args", "arity"}
  PROVE  ScopeOK(t) /\ Shape(t) = Moved(Shape(s), n, Len(a), r)
PROOF
<1>1. IsScope(t) BY DEF ScopeOK, IsScope
<1>2. t.next - Word * Len(t.args) \in Nat BY DEF ScopeOK
<1>3. Shape(t) = Moved(Shape(s), n, Len(a), r) BY DEF Shape, Moved
<1>. QED BY <1>1, <1>2, <1>3 DEF ScopeOK

LEMMA MovedFields ==
  \A s, n, k, r : LET t == Moved(s, n, k, r)
                  IN  t.kind = s.kind /\ t.next = n /\ t.pushed = k /\ t.arity = r /\ t.tmp = s.tmp
BY DEF Moved

LEMMA ArgumentsDoes ==
  ASSUME NEW f \in STRING, NEW rest \in Seq(AllTrees.aexps), NEW v,
         InCall(v), Current(v).arity = Current(v).pushed + Len(rest)
  PROVE  Does(Arguments(f, rest), v,
              Replaced(v, Moved(Current(v), Current(v).next - Word * Current(v).pushed, 0, NoCall)))
BY DEF Arguments, Does, DoesCode, DoesTmp, DoesStatement, DoesBlock, DoesDefinition, ExpressionOps, StatementOps,
       BinaryOps, ArithmeticOps, RelationalOps, LogicalOps

LEMMA PushDoes ==
  ASSUME NEW v, InCall(v), Current(v).pushed < Current(v).arity
  PROVE  Does(Do("push"), v,
              Replaced(v, Moved(Current(v), Current(v).next + Word, Current(v).pushed + 1, Current(v).arity)))
BY DEF Do, Does, DoesCode, DoesTmp, DoesStatement, DoesBlock, DoesDefinition, ExpressionOps, StatementOps,
       BinaryOps, ArithmeticOps, RelationalOps, LogicalOps

LEMMA NextArgumentStep == IInv /\ NextArgument => IInv' /\ depth' = depth
PROOF
<1>. SUFFICES ASSUME IInv, NextArgument PROVE IInv' /\ depth' = depth OBVIOUS
<1>. USE DEF NextArgument, At
<1>1. PICK u : Does(Task, View, u) /\ Runs(Tail(todo), u, Finished) BY HeadTask
<1>2. CodeOK /\ ContextsOK /\ NumbersOK BY HeadTask
<1>3. PICK v, f, rest, n, k, m : /\ v = View /\ f = Task.callee_name /\ rest = Task.rest
                                 /\ n = Current(View).next /\ k = Current(View).pushed /\ m = Current(View).arity
  OBVIOUS
<1>4. /\ rest \in Seq(AllTrees.aexps) /\ f \in STRING /\ rest # <<>>
      /\ InCall(v) /\ m = k + Len(rest)
      /\ u = Replaced(v, Moved(Current(v), n - Word * k, 0, NoCall))
  BY <1>1, <1>3 DEF Does, DoesStatement
<1>5. n \in Nat /\ k \in Nat BY <1>2, <1>3, CurrentIsTop DEF Shape, ScopeOK, IsScope
<1>6. IsSequence(rest) /\ Len(rest) \in Nat \ {0} BY <1>4, IsSequenceIn, SequenceBasics
<1>7. PICK e, front : e = Last(rest) /\ front = Front(rest) OBVIOUS
<1>8. /\ IsSequence(front) /\ Len(front) = Len(rest) - 1 /\ e = rest[Len(rest)]
      /\ \A i \in 1..(Len(rest) - 1) : front[i] = rest[i]
  BY <1>4, <1>6, <1>7, FrontSequence
<1>9. e \in AllTrees.aexps BY <1>4, <1>6, <1>8
<1>10. front \in Seq(AllTrees.aexps)
  <2>1. \A i \in 1..Len(front) : rest[i] \in AllTrees.aexps BY <1>4, <1>6, <1>8
  <2>2. \A i \in 1..Len(front) : front[i] \in AllTrees.aexps BY <1>8, <2>1
  <2>. QED BY <1>8, <2>2, InSeq
<1>11. Computes(v) BY <1>3, <1>4, <1>5, <1>6 DEF InCall, Computes
<1>12. Does(e, v, v) BY <1>9, <1>11, ExpressionDoes DEF Expressions
<1>13. PICK w : w = Replaced(v, Moved(Current(v), n + Word, k + 1, m)) OBVIOUS
<1>14. Does(Do("push"), v, w)
  <2>1. k < m BY <1>4, <1>5, <1>6
  <2>. QED BY <1>3, <1>4, <1>13, <2>1, PushDoes
<1>15. IsView(v) BY <1>2, <1>3, ViewIsView
<1>16. /\ Current(w) = Moved(Current(v), n + Word, k + 1, m) /\ w.top = v.top /\ w.frame = v.frame
       /\ \A t : Replaced(w, t) = Replaced(v, t)
  BY <1>13, <1>15, ReplacedView
<1>17. InCall(w) /\ Current(w).arity = Current(w).pushed + Len(front)
  <2>1. /\ Current(w).kind = Current(v).kind /\ Current(w).next = n + Word
        /\ Current(w).pushed = k + 1 /\ Current(w).arity = m
    BY <1>16, MovedFields
  <2>2. m = k + 1 + Len(front) BY <1>4, <1>5, <1>6, <1>8
  <2>. QED BY <1>3, <1>4, <1>16, <2>1, <2>2 DEF InCall, InFrame
<1>18. Does(Arguments(f, front), w, Replaced(w, Moved(Current(w), Current(w).next - Word * Current(w).pushed, 0, NoCall)))
  BY <1>4, <1>10, <1>17, ArgumentsDoes
<1>19. Moved(Current(w), Current(w).next - Word * Current(w).pushed, 0, NoCall) = Moved(Current(v), n - Word * k, 0, NoCall)
  <2>1. /\ Current(w).kind = Current(v).kind /\ Current(w).next = n + Word
        /\ Current(w).pushed = k + 1 /\ Current(w).tmp = Current(v).tmp
    BY <1>16, MovedFields
  <2>2. PICK n2, k2 : n2 = Current(w).next /\ k2 = Current(w).pushed OBVIOUS
  <2>3. n2 - Word * k2 = n - Word * k
    <3>1. n2 = n + Word /\ k2 = k + 1 BY <2>1, <2>2
    <3>. QED BY <1>5, <3>1 DEF Word
  <2>4. Moved(Current(w), n2 - Word * k2, 0, NoCall) = Moved(Current(v), n - Word * k, 0, NoCall) BY <2>1, <2>3 DEF Moved
  <2>. QED BY <2>2, <2>4
<1>20. Does(Arguments(f, front), w, u) BY <1>4, <1>16, <1>18, <1>19
<1>21. Runs(<<e, Do("push"), Arguments(f, front)>>, v, u) BY <1>12, <1>14, <1>20, RunsThree
<1>22. Then(<<e, Do("push"), Arguments(f, front)>>) BY <1>3, <1>7
<1>23. Runs(<<e, Do("push"), Arguments(f, front)>>, View, u) BY <1>3, <1>21
<1>24. CodeOK' /\ depth' = depth BY <1>2, EmittedNothing
<1>25. nextTmp' \in Nat /\ nextIndex' \in Nat /\ inLhs' \in BOOLEAN BY <1>2 DEF NumbersOK, names
<1>26. UNCHANGED <<phase, prog, typeInfo, ctx, inTop, frame>> BY DEF tables, where
<1>. QED BY <1>1, <1>22, <1>23, <1>24, <1>25, <1>26, QuietStep

LEMMA VisitCallStep ==
  IInv /\ VisitCall =>
    /\ IInv' /\ AtStatement(View)
    /\ \/ phase' = "error"
       \/ depth' = depth /\ Top'.next = Top.next /\ Len(Task.arguments) \in Nat
PROOF
<1>. SUFFICES ASSUME IInv, VisitCall
              PROVE  /\ IInv' /\ AtStatement(View)
                     /\ \/ phase' = "error"
                        \/ depth' = depth /\ Top'.next = Top.next /\ Len(Task.arguments) \in Nat
  OBVIOUS
<1>. DEFINE ok == Task.callee_name \in DOMAIN fnInfo /\ fnInfo[Task.callee_name] = Len(Task.arguments)
<1>. USE DEF At
<1>1. PICK u : Does(Task, View, u) /\ Runs(Tail(todo), u, Finished) BY HeadTask DEF VisitCall
<1>2. Task \in FunctionCalls(AllTrees) /\ AtStatement(View) /\ u = View
  BY <1>1 DEF VisitCall, Does, DoesStatement
<1>3. CASE ~ok BY <1>2, <1>3, FailStep DEF VisitCall, Fail
<1>4. CASE ok
  <2>1. CodeOK /\ ContextsOK /\ NumbersOK /\ TablesOK /\ DepthOK BY HeadTask DEF VisitCall
  <2>2. UNCHANGED <<phase, prog, typeInfo, nextTmp, nextIndex, inLhs, inTop, frame>>
    BY <1>4 DEF VisitCall, tables, names, where
  <2>3. PICK v, w, f, args : v = View /\ w = View' /\ f = Task.callee_name /\ args = Task.arguments OBVIOUS
  <2>4. f \in STRING /\ args \in Seq(AllTrees.aexps) BY <1>2, <2>3 DEF FunctionCalls
  <2>5. Len(args) \in Nat BY <2>4
  <2>6. PICK s, t : s = Top /\ t = [Top EXCEPT !.arity = Len(args)] OBVIOUS
  <2>7. ScopeOK(s) /\ Current(v) = Shape(s) /\ IsView(v) BY <2>1, <2>3, <2>6, CurrentIsTop, ViewIsView
  <2>8. /\ t.kind = s.kind /\ t.vars = s.vars /\ t.next = s.next /\ t.args = s.args /\ t.arity = Len(args)
        /\ DOMAIN t = {"kind", "vars", "next", "args", "arity"}
    <3>1. DOMAIN s = {"kind", "vars", "next", "args", "arity"} BY <2>7 DEF ScopeOK, IsScope
    <3>2. t = [s EXCEPT !.arity = Len(args)] BY <2>6
    <3>. QED BY ONLY <3>1, <3>2
  <2>9. s.next \in Nat /\ s.args \in Seq(Nat) /\ Len(s.args) \in Nat BY <2>7 DEF ScopeOK, IsScope
  <2>10. ScopeOK(t) /\ Shape(t) = Moved(Shape(s), s.next, Len(s.args), Len(args))
    BY <2>5, <2>7, <2>8, <2>9, ScopeChangedOK
  <2>11. ctx' = WithTop(t) BY <1>4, <2>3, <2>6 DEF VisitCall
  <2>12. ContextsOK' /\ Top' = t BY <2>1, <2>10, <2>11, TopReplaced
  <2>13. w = Replaced(v, Shape(t)) BY <2>1, <2>2, <2>3, <2>11, ViewReplaced
  <2>14. Current(v).arity = NoCall /\ Current(v).pushed = 0 /\ Len(s.args) = 0 /\ Current(v).next = s.next
    BY <1>2, <2>3, <2>7 DEF AtStatement, Shape
  <2>15. /\ Current(w) = Shape(t) /\ w.top = v.top /\ w.frame = v.frame
         /\ (\A x : Replaced(w, x) = Replaced(v, x)) /\ Replaced(v, Current(v)) = v
    BY <2>7, <2>13, ReplacedView
  <2>16. InCall(w) /\ Current(w).arity = Current(w).pushed + Len(args)
    <3>1. /\ Current(w).kind = Current(v).kind /\ Current(w).pushed = 0 /\ Current(w).arity = Len(args)
      BY <2>7, <2>10, <2>14, <2>15, MovedFields
    <3>. QED BY <1>2, <2>3, <2>5, <2>15, <3>1 DEF InCall, AtStatement, InFrame, NoCall
  <2>17. Does(Arguments(f, args), w, Replaced(w, Moved(Current(w), Current(w).next - Word * Current(w).pushed, 0, NoCall)))
    BY <2>4, <2>16, ArgumentsDoes
  <2>18. Moved(Current(w), Current(w).next - Word * Current(w).pushed, 0, NoCall) = Current(v)
    <3>1. s.next - Word * 0 = s.next BY <2>9 DEF Word
    <3>2. Current(w).next = s.next /\ Current(w).pushed = 0 /\ Current(w).kind = s.kind /\ Current(w).tmp = Shape(s).tmp
      BY <2>10, <2>14, <2>15 DEF Moved, Shape
    <3>3. Shape(s).arity = NoCall /\ Shape(s).pushed = 0 /\ Shape(s).next = s.next /\ Shape(s).kind = s.kind
      BY <2>7, <2>14 DEF Shape
    <3>4. Moved(Current(w), s.next, 0, NoCall) = Shape(s) BY <3>2, <3>3 DEF Moved, Shape
    <3>. QED BY <2>7, <3>1, <3>2, <3>4
  <2>19. Runs(<<Arguments(f, args)>>, w, v) BY <2>15, <2>17, <2>18, RunsOne
  <2>20. Then(<<Arguments(f, args)>>) BY <1>4, <2>3 DEF VisitCall
  <2>21. Runs(<<Arguments(f, args)>>, View', u) BY <1>2, <2>3, <2>19
  <2>22. CodeOK' /\ depth' = depth BY <1>4, <2>1, EmittedNothing DEF VisitCall
  <2>23. NumbersOK' /\ TablesOK' BY <2>1, <2>2, <2>22 DEF NumbersOK, TablesOK
  <2>24. Top'.next = Top.next BY <2>6, <2>8, <2>12
  <2>25. DepthOK' BY <2>1, <2>2, <2>22, <2>24 DEF DepthOK
  <2>26. phase = "generating" BY DEF VisitCall
  <2>27. IInv' BY <1>1, <2>2, <2>12, <2>20, <2>21, <2>22, <2>23, <2>25, <2>26, StepKeeps
  <2>. QED BY <1>2, <2>3, <2>5, <2>22, <2>24, <2>27
<1>. QED BY <1>3, <1>4

LEMMA PushArgStep ==
  IInv /\ PushArg =>
    /\ IInv' /\ InCall(View) /\ Len(Top.args) < Top.arity
    /\ depth' = depth + Word /\ Top'.next = Top.next + Word
PROOF
<1>. SUFFICES ASSUME IInv, PushArg
              PROVE  /\ IInv' /\ InCall(View) /\ Len(Top.args) < Top.arity
                     /\ depth' = depth + Word /\ Top'.next = Top.next + Word
  OBVIOUS
<1>. USE DEF PushArg, At
<1>1. PICK u : Does(Task, View, u) /\ Runs(Tail(todo), u, Finished) BY HeadTask
<1>2. CodeOK /\ ContextsOK /\ NumbersOK /\ TablesOK /\ DepthOK BY HeadTask
<1>3. UNCHANGED <<phase, prog, typeInfo, nextTmp, nextIndex, inLhs, inTop, frame>> BY DEF tables, names, where
<1>4. PICK v, w, d : v = View /\ w = View' /\ d = depth OBVIOUS
<1>5. /\ InCall(v) /\ Current(v).pushed < Current(v).arity
      /\ u = Replaced(v, Moved(Current(v), Current(v).next + Word, Current(v).pushed + 1, Current(v).arity))
  BY <1>1, <1>4 DEF Does, DoesStatement
<1>6. PICK s, t : s = Top /\ t = [Top EXCEPT !.next = @ + Word, !.args = Append(@, depth + Word)] OBVIOUS
<1>7. ScopeOK(s) /\ Current(v) = Shape(s) BY <1>2, <1>4, <1>6, CurrentIsTop
<1>8. /\ s.next \in Nat /\ s.args \in Seq(Nat) /\ Len(s.args) \in Nat /\ s.arity \in Nat \cup {NoCall}
      /\ DOMAIN s = {"kind", "vars", "next", "args", "arity"} /\ s.next - Word * Len(s.args) \in Nat
  BY <1>7 DEF ScopeOK, IsScope
<1>9. Current(v).next = s.next /\ Current(v).pushed = Len(s.args) /\ Current(v).arity = s.arity BY <1>7 DEF Shape
<1>10. d \in Int /\ d + Word \in Nat
  <2>1. d \in Int BY <1>2, <1>4 DEF NumbersOK
  <2>2. d - (s.next - Word) \in Nat BY <1>2, <1>4, <1>5, <1>6, CurrentIsTop DEF DepthOK, InCall, InFrame
  <2>. QED BY <1>8, <2>1, <2>2 DEF Word
<1>11. PICK n, a : n = s.next + Word /\ a = Append(s.args, d + Word) OBVIOUS
<1>12. n \in Nat /\ a \in Seq(Nat) /\ Len(a) = Len(s.args) + 1 BY <1>8, <1>10, <1>11 DEF Word
<1>13. /\ t.kind = s.kind /\ t.vars = s.vars /\ t.next = n /\ t.args = a /\ t.arity = s.arity
       /\ DOMAIN t = {"kind", "vars", "next", "args", "arity"}
  <2>1. t = [s EXCEPT !.next = n, !.args = a] BY <1>4, <1>6, <1>11
  <2>. QED BY ONLY <1>8, <2>1
<1>14. n - Word * Len(a) = s.next - Word * Len(s.args) BY <1>8, <1>11, <1>12 DEF Word
<1>15. ScopeOK(t) /\ Shape(t) = Moved(Shape(s), n, Len(a), s.arity)
  BY <1>7, <1>8, <1>12, <1>13, <1>14, ScopeChangedOK
<1>16. ctx' = WithTop(t) BY <1>6
<1>17. ContextsOK' /\ Top' = t BY <1>2, <1>15, <1>16, TopReplaced
<1>18. w = Replaced(v, Shape(t)) BY <1>2, <1>3, <1>4, <1>15, <1>16, ViewReplaced
<1>19. w = u BY <1>5, <1>7, <1>9, <1>11, <1>12, <1>15, <1>18
<1>20. Runs(<<>>, View', u) BY <1>4, <1>19, RunsNone
<1>21. CodeOK' /\ depth' = d + Word
  <2>1. PICK i : i = Insn1("push", EAX) OBVIOUS
  <2>2. Typed(i) BY <2>1, OperandFacts, InsnFacts
  <2>3. DepthAfter(d, i) = d + Word
    <3>1. 0 \in Int OBVIOUS
    <3>. QED BY <1>10, <2>1, <3>1, MovesDepth
  <2>4. WellTyped(<<i>>) /\ DepthAfterAll(d, <<i>>) = d + Word BY <2>2, <2>3, OneInsn
  <2>. QED BY <1>2, <1>4, <2>1, <2>4, Emitted DEF Emit
<1>22. NumbersOK' BY <1>2, <1>3, <1>10, <1>21 DEF NumbersOK
<1>23. TablesOK' BY <1>2, <1>3 DEF TablesOK
<1>24. Top'.next = Top.next + Word BY <1>6, <1>11, <1>13, <1>17
<1>25. DepthOK'
  <2>1. (d + Word) - ((s.next + Word) - Word) = d - (s.next - Word) BY <1>8, <1>10 DEF Word
  <2>2. frame.kind # "none" => d - (s.next - Word) \in Nat BY <1>2, <1>4, <1>6 DEF DepthOK
  <2>. QED BY <1>3, <1>6, <1>21, <1>24, <2>1, <2>2 DEF DepthOK
<1>26. IInv' BY <1>1, <1>3, <1>17, <1>20, <1>21, <1>22, <1>23, <1>25, StepKeeps
<1>. QED BY <1>4, <1>5, <1>6, <1>9, <1>21, <1>24, <1>26

LEMMA DoCallStep ==
  IInv /\ DoCall =>
    /\ IInv' /\ InCall(View) /\ Len(Top.args) = Top.arity
    /\ depth' = depth - Word * Top.arity /\ Top'.next = Top.next - Word * Top.arity
PROOF
<1>. SUFFICES ASSUME IInv, DoCall
              PROVE  /\ IInv' /\ InCall(View) /\ Len(Top.args) = Top.arity
                     /\ depth' = depth - Word * Top.arity /\ Top'.next = Top.next - Word * Top.arity
  OBVIOUS
<1>. USE DEF DoCall, At
<1>1. PICK u : Does(Task, View, u) /\ Runs(Tail(todo), u, Finished) BY HeadTask
<1>2. CodeOK /\ ContextsOK /\ NumbersOK /\ TablesOK /\ DepthOK BY HeadTask
<1>3. UNCHANGED <<phase, prog, typeInfo, nextTmp, nextIndex, inLhs, inTop, frame>> BY DEF tables, names, where
<1>4. PICK v, w, d, f : v = View /\ w = View' /\ d = depth /\ f = Task.callee_name OBVIOUS
<1>5. /\ InCall(v) /\ Current(v).arity = Current(v).pushed + Len(Task.rest) /\ f \in STRING /\ Task.rest = <<>>
      /\ u = Replaced(v, Moved(Current(v), Current(v).next - Word * Current(v).pushed, 0, NoCall))
  BY <1>1, <1>4 DEF Does, DoesStatement
<1>6. PICK s, t : s = Top /\ t = [Top EXCEPT !.next = @ - Word * Top.arity, !.args = <<>>, !.arity = NoCall] OBVIOUS
<1>7. ScopeOK(s) /\ Current(v) = Shape(s) BY <1>2, <1>4, <1>6, CurrentIsTop
<1>8. /\ s.next \in Nat /\ s.args \in Seq(Nat) /\ Len(s.args) \in Nat
      /\ DOMAIN s = {"kind", "vars", "next", "args", "arity"} /\ s.next - Word * Len(s.args) \in Nat
  BY <1>7 DEF ScopeOK, IsScope
<1>9. /\ Current(v).next = s.next /\ Current(v).pushed = Len(s.args) /\ Current(v).arity = s.arity
      /\ s.arity = Len(s.args)
  <2>1. Current(v).next = s.next /\ Current(v).pushed = Len(s.args) /\ Current(v).arity = s.arity BY <1>7 DEF Shape
  <2>2. Len(Task.rest) = 0 BY <1>5
  <2>. QED BY <1>5, <1>8, <2>1, <2>2
<1>10. PICK n : n = s.next - Word * s.arity OBVIOUS
<1>11. n \in Nat BY <1>8, <1>9, <1>10
<1>12. /\ t.kind = s.kind /\ t.vars = s.vars /\ t.next = n /\ t.args = <<>> /\ t.arity = NoCall
       /\ DOMAIN t = {"kind", "vars", "next", "args", "arity"}
  <2>1. t = [s EXCEPT !.next = n, !.args = <<>>, !.arity = NoCall] BY <1>6, <1>10
  <2>. QED BY ONLY <1>8, <2>1
<1>13. ScopeOK(t) /\ Shape(t) = Moved(Shape(s), n, 0, NoCall)
  <2>1. PICK a, r : a = <<>> /\ r = NoCall OBVIOUS
  <2>2. a \in Seq(Nat) /\ Len(a) = 0 /\ r \in Nat \cup {NoCall} BY <2>1
  <2>3. n - Word * 0 = s.next - Word * Len(s.args) BY <1>8, <1>9, <1>10, <1>11 DEF Word
  <2>4. /\ t.kind = s.kind /\ t.vars = s.vars /\ t.next = n /\ t.args = a /\ t.arity = r
        /\ DOMAIN t = {"kind", "vars", "next", "args", "arity"}
    BY <1>12, <2>1
  <2>5. n - Word * Len(a) = s.next - Word * Len(s.args) BY <2>2, <2>3
  <2>6. ScopeOK(t) /\ Shape(t) = Moved(Shape(s), n, Len(a), r)
    <3>1. a \in Seq(Nat) /\ r \in Nat \cup {NoCall} BY <2>2
    <3>2. t.kind = s.kind /\ t.vars = s.vars BY <2>4
    <3>3. t.next = n /\ t.args = a /\ t.arity = r BY <2>4
    <3>4. DOMAIN t = {"kind", "vars", "next", "args", "arity"} BY <2>4
    <3>5. ScopeOK(s) BY <1>7
    <3>. QED BY ONLY <1>11, <2>5, <3>1, <3>2, <3>3, <3>4, <3>5, ScopeChangedOK
  <2>. QED BY <2>1, <2>2, <2>6
<1>14. ctx' = WithTop(t) BY <1>6
<1>15. ContextsOK' /\ Top' = t BY <1>2, <1>13, <1>14, TopReplaced
<1>16. w = Replaced(v, Shape(t)) BY <1>2, <1>3, <1>4, <1>13, <1>14, ViewReplaced
<1>17. w = u BY <1>5, <1>7, <1>9, <1>10, <1>13, <1>16
<1>18. Runs(<<>>, View', u) BY <1>4, <1>17, RunsNone
<1>19. d \in Int BY <1>2, <1>4 DEF NumbersOK
<1>20. CodeOK' /\ depth' = d - Word * s.arity
  <2>1. PICK m : m = Word * s.arity OBVIOUS
  <2>2. m \in Int BY <1>8, <1>9, <2>1 DEF Word
  <2>3. PICK i, j : i = Insn1("call", Lbl(f)) /\ j = Insn("add", Imm(m), ESP) OBVIOUS
  <2>4. Neutral(i) /\ Typed(i) BY <1>5, <2>3, OperandFacts, InsnFacts
  <2>5. Typed(j) BY <2>2, <2>3, MovesDepth
  <2>6. DepthAfter(d, i) = d /\ DepthAfter(d, j) = d - m
    <3>1. DepthAfter(d, i) = d BY <2>4 DEF DepthAfter, Neutral, EBP, ESP, Reg
    <3>. QED BY <1>19, <2>2, <2>3, <3>1, MovesDepth
  <2>7. WellTyped(<<i, j>>) /\ DepthAfterAll(d, <<i, j>>) = d - m BY <2>4, <2>5, <2>6, TwoInsns
  <2>8. Emit(<<i, j>>) BY <1>4, <1>6, <2>1, <2>3
  <2>. QED BY <1>2, <1>4, <2>1, <2>7, <2>8, Emitted DEF Emit
<1>21. NumbersOK' BY <1>2, <1>3, <1>8, <1>9, <1>19, <1>20 DEF NumbersOK, Word
<1>22. TablesOK' BY <1>2, <1>3 DEF TablesOK
<1>23. Top'.next = Top.next - Word * Top.arity BY <1>6, <1>10, <1>12, <1>15
<1>24. DepthOK'
  <2>1. PICK m : m = Word * s.arity OBVIOUS
  <2>2. m \in Int BY <1>8, <1>9, <2>1 DEF Word
  <2>3. d - (s.next - Word) \in Nat BY <1>2, <1>4, <1>5, <1>6, CurrentIsTop DEF DepthOK, InCall, InFrame
  <2>4. (d - m) - ((s.next - m) - Word) = d - (s.next - Word) BY <1>8, <1>19, <2>2 DEF Word
  <2>. QED BY <1>6, <1>20, <1>23, <2>1, <2>3, <2>4 DEF DepthOK
<1>25. IInv' BY <1>1, <1>3, <1>15, <1>18, <1>20, <1>21, <1>22, <1>24, StepKeeps
<1>. QED BY <1>4, <1>5, <1>6, <1>9, <1>20, <1>23, <1>25

-----------------------------------------------------------------------------
(* Blocks. *)

\* What the last declaration of a name is.
DeclaredAt(ds, x) == Max({j \in DOMAIN ds : ds[j].id = x})

BlockVars(next, ds) ==
  [x \in Ids(ds) |-> [off |-> next + Word * (DeclaredAt(ds, x) - 1), type |-> ds[DeclaredAt(ds, x)].type]]

BlockScope(kind, next, ds) ==
  [kind |-> kind, vars |-> BlockVars(next, ds), next |-> next + Word * Len(ds), args |-> <<>>, arity |-> NoCall]

LEMMA DeclaredAtFacts ==
  ASSUME NEW ds, IsSequence(ds), NEW x \in Ids(ds)
  PROVE  DeclaredAt(ds, x) \in 1..Len(ds) /\ ds[DeclaredAt(ds, x)].id = x
PROOF
<1>1. Len(ds) \in Nat /\ DOMAIN ds = 1..Len(ds) BY SequenceBasics
<1>2. PICK T : T = {j \in DOMAIN ds : ds[j].id = x} OBVIOUS
<1>3. T \in SUBSET (1..Len(ds)) /\ T # {} BY <1>1, <1>2 DEF Ids
<1>4. Max(T) \in T BY <1>1, <1>3, GreatestElement
<1>. QED BY <1>1, <1>2, <1>4 DEF DeclaredAt

LEMMA BlockScopeFacts ==
  ASSUME NEW kind \in {"body", "block"}, NEW n \in Nat, NEW ds \in Seq(Declarations)
  PROVE  /\ ScopeOK(BlockScope(kind, n, ds))
         /\ Shape(BlockScope(kind, n, ds)) = Plain(kind, n + Word * Len(ds))
         /\ BlockScope(kind, n, ds).next = n + Word * Len(ds) /\ DOMAIN BlockScope(kind, n, ds).vars = Ids(ds)
PROOF
<1>1. IsSequence(ds) /\ Len(ds) \in Nat /\ DOMAIN ds = 1..Len(ds) BY IsSequenceIn, SequenceBasics
<1>2. PICK f : f = BlockVars(n, ds) OBVIOUS
<1>3. DOMAIN f = Ids(ds) BY <1>2 DEF BlockVars
<1>4. ASSUME NEW x \in DOMAIN f PROVE f[x] \in [off : Int, type : Types]
  <2>1. PICK i : i = DeclaredAt(ds, x) OBVIOUS
  <2>2. i \in 1..Len(ds) BY <1>1, <1>3, <1>4, <2>1, DeclaredAtFacts
  <2>3. ds[i] \in Declarations BY <1>1, <2>2
  <2>4. ds[i].type \in Types BY <2>3 DEF Declarations, Types
  <2>5. n + Word * (i - 1) \in Int BY <2>2 DEF Word
  <2>6. f[x] = [off |-> n + Word * (i - 1), type |-> ds[i].type] BY <1>2, <1>3, <2>1 DEF BlockVars
  <2>. QED BY <2>4, <2>5, <2>6
<1>5. PICK m : m = n + Word * Len(ds) OBVIOUS
<1>6. m \in Nat BY <1>1, <1>5 DEF Word
<1>7. PICK s : s = [kind |-> kind, vars |-> f, next |-> m, args |-> <<>>, arity |-> NoCall] OBVIOUS
<1>8. s = BlockScope(kind, n, ds) BY <1>2, <1>5, <1>7 DEF BlockScope
<1>9. /\ DOMAIN s = {"kind", "vars", "next", "args", "arity"}
      /\ s.kind = kind /\ s.vars = f /\ s.next = m /\ s.args = <<>> /\ s.arity = NoCall
  BY <1>7
<1>10. <<>> \in Seq(Nat) /\ Len(<<>>) = 0 OBVIOUS
<1>11. IsScope(s) BY <1>4, <1>6, <1>9, <1>10 DEF IsScope, NoCall
<1>12. ScopeOK(s) BY <1>6, <1>9, <1>10, <1>11 DEF ScopeOK, Word
<1>13. Shape(s) = Plain(kind, m) BY <1>9, <1>10 DEF Shape, Plain
<1>. QED BY <1>3, <1>5, <1>8, <1>9, <1>12, <1>13

LEMMA DeclareOpens ==
  ASSUME NEW c, IsSequence(c), NEW kind, NEW ds
  PROVE  Declare(OpenScope(c, kind), ds) = Append(c, BlockScope(kind, Last(c).next, ds))
PROOF
<1>1. PICK n : n = Last(c).next OBVIOUS
<1>2. PICK s : s = [kind |-> kind, vars |-> <<>>, next |-> n, args |-> <<>>, arity |-> NoCall] OBVIOUS
<1>3. PICK d : d = Append(c, s) OBVIOUS
<1>4. Front(d) = c /\ Last(d) = s BY <1>3, FrontOfAppend
<1>5. d = OpenScope(c, kind) BY <1>1, <1>2, <1>3 DEF OpenScope
<1>6. s.next = n BY <1>2
<1>7. PICK vs, m : vs = BlockVars(n, ds) /\ m = n + Word * Len(ds) OBVIOUS
<1>8. [s EXCEPT !.vars = vs, !.next = m] = BlockScope(kind, n, ds)
  <2>. DEFINE Fs == {"kind", "vars", "next", "args", "arity"}
  <2>1. DOMAIN s = Fs BY <1>2
  <2>2. PICK t : t = [s EXCEPT !.vars = vs, !.next = m] OBVIOUS
  <2>3. t = [f \in Fs |-> IF f = "vars" THEN vs ELSE IF f = "next" THEN m ELSE s[f]] BY <2>1, <2>2
  <2>4. BlockScope(kind, n, ds) = [f \in Fs |-> IF f = "vars" THEN vs ELSE IF f = "next" THEN m ELSE s[f]]
    BY <1>2, <1>7 DEF BlockScope
  <2>. QED BY <2>2, <2>3, <2>4
<1>9. vs = [x \in Ids(ds) |-> LET i == Max({j \in DOMAIN ds : ds[j].id = x})
                              IN  [off |-> s.next + Word * (i - 1), type |-> ds[i].type]]
  BY <1>6, <1>7 DEF BlockVars, DeclaredAt
<1>10. Declare(d, ds) = Append(c, [s EXCEPT !.vars = vs, !.next = m]) BY <1>4, <1>6, <1>7, <1>9 DEF Declare
<1>. QED BY <1>1, <1>5, <1>8, <1>10

LEMMA InitializeQuiet ==
  ASSUME NEW ds, IsSequence(ds), NEW c, IsSequence(c), c # <<>>, \A i \in DOMAIN c : ScopeOK(c[i]),
         DOMAIN c[Len(c)].vars = Ids(ds)
  PROVE  Quiet(Initialize(ds, c))
PROOF
<1>1. Len(ds) \in Nat /\ DOMAIN ds = 1..Len(ds) /\ Len(c) \in DOMAIN c BY SequenceBasics
<1>2. PICK s : s = Initialize(ds, c) OBVIOUS
<1>3. s = [i \in 1..Len(ds) |-> Insn("movl", Imm(0), Mem(-Lookup(c, ds[i].id).off, "ebp"))]
  BY <1>1, <1>2 DEF Initialize
<1>4. IsSequence(s) /\ Len(s) = Len(ds) BY <1>1, <1>3, ToSequence
<1>5. ASSUME NEW i \in 1..Len(ds) PROVE Neutral(s[i]) /\ Typed(s[i])
  <2>1. PICK x : x = ds[i].id OBVIOUS
  <2>2. x \in Ids(ds) BY <1>1, <2>1 DEF Ids
  <2>3. Scopes(c, x) # {} BY <1>1, <2>2 DEF Scopes
  <2>4. Lookup(c, x) \in [off : Int, type : Types] BY <2>3, LookupFinds
  <2>5. PICK o : o = -Lookup(c, x).off OBVIOUS
  <2>6. o \in Int /\ 0 \in Int /\ "ebp" \in Registers BY <2>4, <2>5 DEF Registers
  <2>7. Mem(o, "ebp") \in Operands /\ Mem(o, "ebp") # ESP BY <2>6, OperandFacts
  <2>8. Imm(0) \in Operands /\ Imm(0) # ESP BY <2>6, OperandFacts
  <2>9. s[i] = Insn("movl", Imm(0), Mem(o, "ebp")) BY <1>3, <2>1, <2>5
  <2>. QED BY <2>7, <2>8, <2>9, InsnFacts
<1>. QED BY <1>2, <1>4, <1>5 DEF Quiet

EndOfBlock(top, size) == [op |-> "endblock", wasTop |-> top, size |-> size]

LEMMA EndOfBlockDoes ==
  ASSUME NEW v, AtStatement(v), NEW size
  PROVE  /\ Current(v).kind = "body" => Does(EndOfBlock(TRUE, size), v, Seen(v.scopes, TRUE, v.frame, v.defs))
         /\ Current(v).kind = "block" /\ OpenedIn(v, 0) /\ size = 0 => Does(EndOfBlock(FALSE, size), v, Left(v))
BY DEF EndOfBlock, Does, DoesCode, DoesTmp, DoesStatement, DoesBlock, DoesDefinition, ExpressionOps, StatementOps,
       BinaryOps, ArithmeticOps, RelationalOps, LogicalOps

LEMMA VisitBlockStep ==
  IInv /\ VisitBlock =>
    /\ IInv' /\ Task.decls \in Seq(Declarations)
    /\ IF inTop THEN InFrame(View) /\ Top.kind \in {"root", "params"} ELSE AtStatement(View)
    /\ \/ phase' = "error"
       \/ /\ DistinctIds(Task.decls) /\ (inTop \/ Task.decls = <<>>)
          /\ ctx' = Append(ctx, BlockScope(IF inTop THEN "body" ELSE "block", Top.next, Task.decls))
          /\ depth' = depth + Word * Len(Task.decls)
          /\ Top'.next = Top.next + Word * Len(Task.decls)
PROOF
<1>. DEFINE kind == IF inTop THEN "body" ELSE "block"
            Effect == /\ ctx' = Append(ctx, BlockScope(kind, Top.next, Task.decls))
                      /\ depth' = depth + Word * Len(Task.decls)
                      /\ Top'.next = Top.next + Word * Len(Task.decls)
            ok == DistinctIds(Task.decls) /\ (inTop \/ Task.decls = <<>>)
            Before == IF inTop THEN InFrame(View) /\ Top.kind \in {"root", "params"} ELSE AtStatement(View)
<1>. SUFFICES ASSUME IInv, VisitBlock
              PROVE  /\ IInv' /\ Task.decls \in Seq(Declarations) /\ Before
                     /\ (phase' = "error" \/ (ok /\ Effect))
  OBVIOUS
<1>. HIDE DEF Effect, Before
<1>0. phase = "generating" /\ Task.op = "block" /\ prog' = prog BY DEF VisitBlock, At
<1>1. PICK u : Does(Task, View, u) /\ Runs(Tail(todo), u, Finished) BY <1>0, HeadTask
<1>2. CodeOK /\ ContextsOK /\ NumbersOK /\ TablesOK /\ DepthOK BY <1>0, HeadTask
<1>3. PICK v, w, ds, ss, n, d, top :
        /\ v = View /\ w = View' /\ ds = Task.decls /\ ss = Task.stmts
        /\ n = Top.next /\ d = depth /\ top = inTop
  OBVIOUS
<1>4. ds \in Seq(Declarations) /\ ss \in Seq(AllTrees.stmts)
  BY <1>0, <1>1, <1>3, BlockParts DEF Does, DoesBlock
<1>5. /\ v.top = top /\ v.frame = frame.kind /\ Current(v) = Shape(Top) /\ ScopeOK(Top) /\ Top = Last(ctx)
      /\ IsView(v) /\ Current(v).next = n /\ n \in Nat /\ Current(v).kind = Top.kind
  BY <1>2, <1>3, CurrentIsTop, ViewIsView DEF Shape, ScopeOK, IsScope
<1>6. IF top
      THEN /\ InFrame(v) /\ Current(v).kind \in {"root", "params"}
           /\ u = Entered(v, Plain("body", n + Word * Len(ds)))
      ELSE AtStatement(v) /\ u = v
  BY <1>0, <1>1, <1>3, <1>5 DEF Does, DoesBlock
<1>7. Before BY <1>3, <1>5, <1>6 DEF Before
<1>8. CASE ~ok
  <2>1. Fail BY <1>8 DEF VisitBlock
  <2>2. IInv' BY <1>0, <2>1, FailStep
  <2>. QED BY <1>3, <1>4, <1>7, <2>1, <2>2 DEF Fail
<1>9. CASE ok
  <2>1. PICK k : k = kind OBVIOUS
  <2>2. k \in {"body", "block"} /\ (top => k = "body") /\ (~top => k = "block" /\ ds = <<>>) BY <1>3, <1>9, <2>1
  <2>3. PICK s : s = BlockScope(k, n, ds) OBVIOUS
  <2>4. /\ ScopeOK(s) /\ Shape(s) = Plain(k, n + Word * Len(ds)) /\ s.next = n + Word * Len(ds)
        /\ DOMAIN s.vars = Ids(ds)
    BY <1>4, <1>5, <2>2, <2>3, BlockScopeFacts
  <2>5. PICK c : c = Declare(OpenScope(ctx, k), ds) OBVIOUS
  <2>6. c = Append(ctx, s)
    <3>1. PICK c0 : c0 = ctx OBVIOUS
    <3>2. IsSequence(c0) /\ Last(c0).next = n BY <1>2, <1>3, <1>5, <3>1 DEF ContextsOK
    <3>. QED BY <2>3, <2>5, <3>1, <3>2, DeclareOpens
  <2>7. /\ ctx' = c /\ Emit(Reserve(ds) \o Initialize(ds, c)) /\ inTop' = FALSE
        /\ Then(ss \o <<EndOfBlock(top, Word * Len(ds))>>)
    BY <1>3, <1>9, <2>1, <2>5 DEF VisitBlock, EndOfBlock
  <2>8. UNCHANGED <<phase, typeInfo, nextTmp, nextIndex, inLhs, frame>> BY <1>9 DEF VisitBlock, tables, names
  <2>9. ContextsOK' /\ Top' = s BY <1>2, <2>4, <2>6, <2>7, TopOpened
  <2>10. IsSequence(ds) /\ Len(ds) \in Nat BY <1>4, IsSequenceIn, SequenceBasics
  <2>11. Quiet(Initialize(ds, c))
    <3>1. IsSequence(c) /\ c # <<>> /\ \A i \in DOMAIN c : ScopeOK(c[i]) BY <2>7, <2>9 DEF ContextsOK
    <3>2. c[Len(c)] = s BY <2>7, <2>9 DEF Top
    <3>. QED BY <2>4, <2>10, <3>1, <3>2, InitializeQuiet
  <2>12. CodeOK' /\ depth' = d + Word * Len(ds)
    <3>1. PICK m, is : m = Word * Len(ds) /\ is = Initialize(ds, c) OBVIOUS
    <3>2. m \in Int /\ d \in Int BY <1>2, <1>3, <2>10, <3>1 DEF Word, NumbersOK
    <3>3. PICK i : i = Insn("sub", Imm(m), ESP) OBVIOUS
    <3>4. Typed(i) /\ DepthAfter(d, i) = d + m BY <3>2, <3>3, MovesDepth
    <3>5. WellTyped(<<i>> \o is) /\ DepthAfterAll(d, <<i>> \o is) = d + m BY <2>11, <3>1, <3>4, FirstThenQuiet
    <3>6. PICK all : all = <<i>> \o is OBVIOUS
    <3>7. Emit(all) BY <2>7, <3>1, <3>3, <3>6 DEF Reserve
    <3>. QED BY <1>2, <1>3, <3>1, <3>5, <3>6, <3>7, Emitted DEF Emit
  <2>13. NumbersOK'
    <3>1. d \in Int /\ Word * Len(ds) \in Int BY <1>2, <1>3, <2>10 DEF Word, NumbersOK
    <3>2. depth' \in Int BY <2>12, <3>1
    <3>. QED BY <1>2, <2>7, <2>8, <3>2 DEF NumbersOK
  <2>14. TablesOK' BY <1>2, <2>8 DEF TablesOK
  <2>15. DepthOK'
    <3>1. PICK m : m = Word * Len(ds) OBVIOUS
    <3>2. m \in Int /\ d \in Int BY <1>2, <1>3, <2>10, <3>1 DEF Word, NumbersOK
    <3>3. frame.kind # "none" => d - (n - Word) \in Nat BY <1>2, <1>3 DEF DepthOK
    <3>4. (d + m) - ((n + m) - Word) = d - (n - Word) BY <1>5, <3>2 DEF Word
    <3>. QED BY <2>4, <2>8, <2>9, <2>12, <3>1, <3>3, <3>4 DEF DepthOK
  <2>16. w = Seen(Append(v.scopes, Shape(s)), FALSE, v.frame, v.defs)
    <3>1. PICK c0 : c0 = ctx OBVIOUS
    <3>2. IsSequence(c0) BY <1>2, <3>1 DEF ContextsOK
    <3>3. ShapesOf(c) = Append(ShapesOf(c0), Shape(s)) BY <2>6, <3>1, <3>2, ShapesAppend
    <3>. QED BY <1>3, <2>7, <2>8, <3>1, <3>3 DEF View, Seen
  <2>17. PICK x, sh : sh = Shape(s) /\ x = Entered(v, sh) OBVIOUS
  <2>18. /\ IsView(x) /\ Current(x) = sh /\ Left(x) = v
         /\ x.top = v.top /\ x.frame = v.frame /\ x.defs = v.defs
         /\ Len(v.scopes) \in Nat \ {0}
         /\ Len(x.scopes) = Len(v.scopes) + 1 /\ x.scopes[Len(x.scopes) - 1] = Current(v)
    BY <1>5, <2>17, EnteredView
  <2>19. /\ w.scopes = x.scopes /\ w = Seen(x.scopes, FALSE, v.frame, v.defs) /\ w.top = FALSE
         /\ w.frame = v.frame /\ w.defs = v.defs /\ Current(w) = sh
         /\ Current(w).kind = k /\ Current(w).next = n + Word * Len(ds)
         /\ Current(w).arity = NoCall /\ Current(w).pushed = 0
    <3>1. w.scopes = x.scopes /\ w = Seen(x.scopes, FALSE, v.frame, v.defs) BY <2>16, <2>17 DEF Entered, Seen
    <3>2. w.top = FALSE /\ w.frame = v.frame /\ w.defs = v.defs BY <3>1 DEF Seen
    <3>3. Current(w) = sh BY <2>18, <3>1 DEF Current
    <3>4. PICK m : m = n + Word * Len(ds) OBVIOUS
    <3>5. sh = Plain(k, m) BY <2>4, <2>17, <3>4
    <3>6. sh.kind = k /\ sh.next = m /\ sh.arity = NoCall /\ sh.pushed = 0 BY <3>5 DEF Plain
    <3>. QED BY <3>1, <3>2, <3>3, <3>4, <3>6
  <2>20. AtStatement(w)
    <3>1. InFrame(w) BY <1>6, <2>19 DEF InFrame, AtStatement
    <3>. QED BY <2>2, <2>19, <3>1 DEF AtStatement
  <2>21. Runs(ss, w, w)
    <3>1. IsSequence(ss) BY <1>4, IsSequenceIn
    <3>2. \A i \in 1..Len(ss) : ss[i] \in AllTrees.stmts BY <1>4
    <3>3. \A i \in 1..Len(ss) : Does(ss[i], w, w) BY <2>20, <3>2, StatementDoes
    <3>. QED BY <3>1, <3>3, RunsAll
  <2>22. PICK e : e = EndOfBlock(top, Word * Len(ds)) OBVIOUS
  <2>23. Does(e, w, u)
    <3>1. CASE top
      <4>1. Current(w).kind = "body" BY <2>2, <2>19, <3>1
      <4>2. e = EndOfBlock(TRUE, Word * Len(ds)) BY <1>3, <1>5, <2>22, <3>1 DEF EndOfBlock, NumbersOK, View, Seen, IsView
      <4>3. Does(e, w, Seen(w.scopes, TRUE, w.frame, w.defs)) BY <2>20, <4>1, <4>2, EndOfBlockDoes
      <4>4. u = x BY <1>6, <2>2, <2>4, <2>17, <3>1
      <4>5. x = Seen(x.scopes, TRUE, x.frame, x.defs) BY <1>5, <2>18, <3>1 DEF IsView
      <4>. QED BY <2>18, <2>19, <4>3, <4>4, <4>5
    <3>2. CASE ~top
      <4>1. Current(w).kind = "block" /\ Current(w).next = n + Word * Len(ds)
        BY <2>2, <2>19, <3>2
      <4>2. Word * Len(ds) = 0 /\ n + Word * Len(ds) = n
        <5>1. ds = <<>> BY <2>2, <3>2
        <5>2. Len(ds) = 0 BY ONLY <5>1
        <5>. QED BY <1>5, <5>2 DEF Word
      <4>3. OpenedIn(w, 0)
        <5>1. Current(w).next = n BY <4>1, <4>2
        <5>2. Len(w.scopes) = Len(x.scopes) /\ w.scopes[Len(w.scopes) - 1] = Current(v) BY <2>18, <2>19
        <5>3. Len(w.scopes) > 1 BY <2>18, <5>2
        <5>. QED BY <1>5, <5>1, <5>2, <5>3 DEF OpenedIn
      <4>4. Left(w) = v
        <5>1. Left(w) = Seen(Front(x.scopes), FALSE, v.frame, v.defs) BY <2>19 DEF Left
        <5>2. Left(x) = Seen(Front(x.scopes), v.top, v.frame, v.defs) BY <2>18 DEF Left
        <5>3. v.top = FALSE BY <1>2, <1>3, <1>5, <3>2 DEF NumbersOK
        <5>. QED BY <2>18, <5>1, <5>2, <5>3
      <4>5. e = EndOfBlock(FALSE, Word * Len(ds)) BY <1>2, <1>3, <2>22, <3>2 DEF NumbersOK
      <4>6. Does(e, w, Left(w)) BY <2>20, <4>1, <4>2, <4>3, <4>5, EndOfBlockDoes
      <4>. QED BY <1>6, <3>2, <4>4, <4>6
    <3>. QED BY <3>1, <3>2
  <2>24. Runs(ss \o <<e>>, w, u)
    <3>1. Runs(<<e>>, w, u) BY <2>23, RunsOne
    <3>. QED BY <2>21, <3>1, RunsConcat
  <2>25. Then(ss \o <<e>>) /\ Runs(ss \o <<e>>, View', u) BY <1>3, <2>7, <2>22, <2>24
  <2>26. IInv' BY <1>0, <1>1, <2>8, <2>9, <2>12, <2>13, <2>14, <2>15, <2>25, StepKeeps
  <2>27. Effect BY <1>3, <2>1, <2>3, <2>4, <2>6, <2>7, <2>9, <2>12 DEF Effect
  <2>. QED BY <1>3, <1>4, <1>7, <1>9, <2>26, <2>27
<1>. QED BY <1>8, <1>9

LEMMA EndBlockStep ==
  IInv /\ EndBlock =>
    /\ IInv' /\ AtStatement(View) /\ depth' = depth /\ Top'.next = Top.next /\ Task.wasTop \in BOOLEAN
    /\ IF Task.wasTop THEN ctx' = ctx ELSE Top.kind = "block" /\ ctx' = Front(ctx)
PROOF
<1>. SUFFICES ASSUME IInv, EndBlock
              PROVE  /\ IInv' /\ AtStatement(View) /\ depth' = depth /\ Top'.next = Top.next /\ Task.wasTop \in BOOLEAN
                     /\ IF Task.wasTop THEN ctx' = ctx ELSE Top.kind = "block" /\ ctx' = Front(ctx)
  OBVIOUS
<1>. USE DEF EndBlock, At
<1>1. PICK u : Does(Task, View, u) /\ Runs(Tail(todo), u, Finished) BY HeadTask
<1>2. CodeOK /\ ContextsOK /\ NumbersOK /\ TablesOK /\ DepthOK BY HeadTask
<1>3. UNCHANGED <<phase, prog, typeInfo, nextTmp, nextIndex, inLhs, frame>> BY DEF tables, names
<1>4. PICK v : v = View OBVIOUS
<1>5. /\ AtStatement(v) /\ Task.wasTop \in BOOLEAN
      /\ IF Task.wasTop
         THEN Current(v).kind = "body" /\ u = Seen(v.scopes, TRUE, v.frame, v.defs)
         ELSE /\ Current(v).kind = "block" /\ Task.size = 0
              /\ OpenedIn(v, 0) /\ u = Left(v)
  BY <1>1, <1>4 DEF Does, DoesBlock
<1>6. /\ Current(v) = Shape(Top) /\ v.top = inTop /\ ScopeOK(Top) /\ Current(v).kind = Top.kind /\ Top.next \in Nat
      /\ Len(ctx) \in Nat \ {0} /\ Len(v.scopes) = Len(ctx) /\ v = Seen(ShapesOf(ctx), inTop, frame.kind, frame.begun)
      /\ v.scopes = ShapesOf(ctx) /\ v.frame = frame.kind /\ v.defs = frame.begun /\ Current(v).next = Top.next
  BY <1>2, <1>4, CurrentIsTop DEF Shape, ScopeOK, IsScope
<1>7. inTop' = Task.wasTop /\ Then(<<>>) OBVIOUS
<1>8. ContextsOK' /\ Top'.next = Top.next /\ CodeOK' /\ depth' = depth /\ View' = u
      /\ IF Task.wasTop THEN ctx' = ctx ELSE Top.kind = "block" /\ ctx' = Front(ctx)
  <2>1. CASE Task.wasTop
    <3>1. EmitNothing /\ ctx' = ctx BY <2>1
    <3>2. CodeOK' /\ depth' = depth BY <1>2, <3>1, EmittedNothing
    <3>3. ContextsOK' /\ Top' = Top BY <1>2, <3>1 DEF ContextsOK, Top
    <3>4. inTop' = TRUE BY <1>5, <1>7, <2>1
    <3>5. View' = u BY <1>3, <1>5, <1>6, <2>1, <3>1, <3>4 DEF View
    <3>. QED BY <2>1, <3>1, <3>2, <3>3, <3>5
  <2>2. CASE ~Task.wasTop
    <3>1. Emit(<<Insn("add", Imm(Task.size), ESP)>>) /\ ctx' = Front(ctx) BY <2>2
    <3>2. CodeOK' /\ depth' = depth
      <4>1. PICK i, d : i = Insn("add", Imm(0), ESP) /\ d = depth OBVIOUS
      <4>2. d \in Int /\ 0 \in Int BY <1>2, <4>1 DEF NumbersOK
      <4>3. Typed(i) /\ DepthAfter(d, i) = d - 0 BY <4>1, <4>2, MovesDepth
      <4>4. WellTyped(<<i>>) /\ DepthAfterAll(d, <<i>>) = d - 0 BY <4>3, OneInsn
      <4>5. Emit(<<i>>) BY <1>5, <2>2, <3>1, <4>1
      <4>6. d - 0 = d BY <4>2
      <4>7. CodeOK' BY <1>2, <4>4, <4>5, Emitted
      <4>. QED BY <4>1, <4>4, <4>5, <4>6, <4>7 DEF Emit
    <3>3. OpenedIn(v, 0) /\ u = Left(v) /\ Top.kind = "block" BY <1>5, <1>6, <2>2
    <3>4. Len(ctx) > 1 /\ Len(ctx) - 1 \in 1..Len(ctx) BY <1>6, <3>3 DEF OpenedIn
    <3>5. ContextsOK' /\ Top' = ctx[Len(ctx) - 1] BY <1>2, <3>1, <3>4, TopLeft
    <3>6. Top'.next = Top.next
      <4>1. v.scopes[Len(ctx) - 1] = Shape(ctx[Len(ctx) - 1]) BY <1>2, <1>4, <3>4, CurrentIsTop
      <4>2. ctx[Len(ctx) - 1].next + 0 = Top.next BY <1>6, <3>3, <4>1 DEF OpenedIn, Shape
      <4>3. ScopeOK(ctx[Len(ctx) - 1]) BY <1>2, <3>4, SequenceBasics DEF ContextsOK
      <4>. QED BY <3>5, <4>2, <4>3 DEF ScopeOK, IsScope
    <3>7. inTop' = FALSE /\ inTop = FALSE
      <4>1. Task.wasTop = FALSE BY <1>5, <2>2
      <4>2. ~inTop BY <1>5, <1>6 DEF AtStatement
      <4>. QED BY <1>2, <1>7, <4>1, <4>2 DEF NumbersOK
    <3>8. View' = u BY <1>2, <1>3, <1>4, <3>1, <3>3, <3>7, ViewLeft
    <3>. QED BY <2>2, <3>1, <3>2, <3>3, <3>5, <3>6, <3>8
  <2>. QED BY <2>1, <2>2
<1>9. NumbersOK' BY <1>2, <1>3, <1>5, <1>7, <1>8 DEF NumbersOK
<1>10. TablesOK' /\ DepthOK' BY <1>2, <1>3, <1>8 DEF TablesOK, DepthOK
<1>11. Runs(<<>>, View', u) BY <1>8, RunsNone
<1>12. IInv' BY <1>1, <1>2, <1>3, <1>7, <1>8, <1>9, <1>10, <1>11, StepKeeps
<1>. QED BY <1>4, <1>5, <1>8, <1>12

-----------------------------------------------------------------------------
(* Definitions. *)

LEMMA VisitTypeDefStep ==
  IInv /\ VisitTypeDef =>
    /\ IInv' /\ BetweenDefinitions(View) /\ frame.begun = 0
    /\ phase' = "error" \/ (depth' = depth /\ UNCHANGED <<phase, ctx, frame>>)
PROOF
<1>. SUFFICES ASSUME IInv, VisitTypeDef
              PROVE  /\ IInv' /\ BetweenDefinitions(View) /\ frame.begun = 0
                     /\ phase' = "error" \/ (depth' = depth /\ UNCHANGED <<phase, ctx, frame>>)
  OBVIOUS
<1>. DEFINE ok == Task.type_name \notin DOMAIN typeInfo
<1>. USE DEF VisitTypeDef, At
<1>1. PICK u : Does(Task, View, u) /\ Runs(Tail(todo), u, Finished) BY HeadTask
<1>2. CodeOK /\ ContextsOK /\ NumbersOK /\ TablesOK /\ DepthOK BY HeadTask
<1>3. Task \in TypeDefs /\ BetweenDefinitions(View) /\ View.defs = 0 /\ u = View BY <1>1 DEF Does, DoesDefinition
<1>4. frame.begun = 0 BY <1>3 DEF View, Seen
<1>5. CASE ~ok
  <2>1. Fail BY <1>5
  <2>. QED BY <1>3, <1>4, <2>1, FailStep DEF Fail
<1>6. CASE ok
  <2>1. UNCHANGED <<phase, prog, ctx, nextTmp, nextIndex, inLhs, inTop, frame>> BY <1>6 DEF names, where
  <2>2. Then(<<>>) /\ EmitNothing BY <1>6
  <2>3. CodeOK' /\ depth' = depth BY <1>2, <2>2, EmittedNothing
  <2>4. TablesOK'
    <3>1. PICK x, fs, f, g : x = Task.type_name /\ fs = Task.fields /\ f = typeInfo /\ g = typeInfo' OBVIOUS
    <3>2. fs \in Seq(Declarations) BY <1>3, <3>1 DEF TypeDefs
    <3>3. g = [y \in DOMAIN f \cup {x} |-> IF y = x THEN fs ELSE f[y]] BY <1>6, <3>1 DEF With
    <3>4. \A y \in DOMAIN f : f[y] \in Seq(Declarations) BY <1>2, <3>1 DEF TablesOK
    <3>5. \A y \in DOMAIN g : g[y] \in Seq(Declarations) BY <3>2, <3>3, <3>4
    <3>. QED BY <3>1, <3>5 DEF TablesOK
  <2>5. View' = View BY <2>1 DEF View
  <2>6. ContextsOK' /\ Top' = Top BY <1>2, <2>1 DEF ContextsOK, Top
  <2>7. NumbersOK' /\ DepthOK' BY <1>2, <2>1, <2>3, <2>6 DEF NumbersOK, DepthOK
  <2>8. Runs(<<>>, View', u) BY <1>3, <2>5, RunsNone
  <2>9. IInv' BY <1>1, <2>1, <2>2, <2>3, <2>4, <2>6, <2>7, <2>8, StepKeeps
  <2>. QED BY <1>3, <1>4, <2>1, <2>3, <2>9
<1>. QED BY <1>5, <1>6

LEMMA AddFunctionStep ==
  IInv /\ AddFunction =>
    /\ IInv' /\ BetweenDefinitions(View) /\ frame.begun = 0
    /\ phase' = "error" \/ (depth' = depth /\ UNCHANGED <<phase, ctx, frame>>)
PROOF
<1>. SUFFICES ASSUME IInv, AddFunction
              PROVE  /\ IInv' /\ BetweenDefinitions(View) /\ frame.begun = 0
                     /\ phase' = "error" \/ (depth' = depth /\ UNCHANGED <<phase, ctx, frame>>)
  OBVIOUS
<1>. DEFINE ok == Task.def.function_name \notin DOMAIN fnInfo
<1>. USE DEF AddFunction, At
<1>1. PICK u : Does(Task, View, u) /\ Runs(Tail(todo), u, Finished) BY HeadTask
<1>2. BetweenDefinitions(View) /\ View.defs = 0 /\ u = View BY <1>1 DEF Does, DoesDefinition
<1>3. frame.begun = 0 BY <1>2 DEF View, Seen
<1>4. CASE ~ok
  <2>1. Fail BY <1>4
  <2>. QED BY <1>2, <1>3, <2>1, FailStep DEF Fail
<1>5. CASE ok
  <2>1. UNCHANGED <<phase, prog, typeInfo, ctx, inTop, frame>> BY <1>5 DEF where
  <2>2. Then(<<>>) /\ EmitNothing BY <1>5
  <2>3. CodeOK' /\ depth' = depth BY <2>2, HeadTask, EmittedNothing
  <2>4. nextTmp' \in Nat /\ nextIndex' \in Nat /\ inLhs' \in BOOLEAN BY <1>5, HeadTask DEF NumbersOK, names
  <2>5. Runs(<<>>, View, u) BY <1>2, RunsNone
  <2>6. IInv' BY <1>1, <2>1, <2>2, <2>3, <2>4, <2>5, QuietStep
  <2>. QED BY <1>2, <1>3, <2>1, <2>3, <2>6
<1>. QED BY <1>4, <1>5

\* A frame is set up: EBP is saved and ESP put there, and two words are pushed.
LEMMA PrologueFacts ==
  ASSUME NEW l, Lbl(l) \in Operands, NEW a \in Int, NEW b \in Int, NEW d
  PROVE  WellTyped(Prologue(l, a, b)) /\ DepthAfterAll(d, Prologue(l, a, b)) = 2 * Word
PROOF
<1>1. PICK i1, i2, i3, i4, i5 :
        /\ i1 = Label(Lbl(l)) /\ i2 = Insn1("push", EBP) /\ i3 = Insn("movl", ESP, EBP)
        /\ i4 = Insn1("pushl", Imm(a)) /\ i5 = Insn1("pushl", Imm(b))
  OBVIOUS
<1>2. PICK is : is = <<i1, i2, i3, i4, i5>> OBVIOUS
<1>3. is = Prologue(l, a, b) BY <1>1, <1>2 DEF Prologue
<1>4. IsSequence(is) /\ Len(is) = 5 /\ is[1] = i1 /\ is[2] = i2 /\ is[3] = i3 /\ is[4] = i4 /\ is[5] = i5
  BY <1>2 DEF IsSequence, ToSet
<1>5. Typed(i1) /\ Typed(i2) /\ Typed(i3)
  BY <1>1, OperandFacts, InsnFacts DEF Label
<1>6. Typed(i4) /\ Typed(i5)
  <2>1. Imm(a) \in Operands /\ Imm(b) \in Operands BY OperandFacts
  <2>. QED BY <1>1, <2>1, InsnFacts
<1>7. \A k \in 1..5 : k = 1 \/ k = 2 \/ k = 3 \/ k = 4 \/ k = 5 OBVIOUS
<1>8. WellTyped(is) BY <1>4, <1>5, <1>6, <1>7 DEF WellTyped
<1>9. PICK f : Stages(f, d, is) /\ DepthAfterAll(d, is) = f[Len(is)] BY <1>4, DepthStages
<1>10. f[3] = DepthAfter(f[2], i3) /\ f[4] = DepthAfter(f[3], i4) /\ f[5] = DepthAfter(f[4], i5)
  <2>1. 3 \in 1..5 /\ 4 \in 1..5 /\ 5 \in 1..5 /\ 3 - 1 = 2 /\ 4 - 1 = 3 /\ 5 - 1 = 4 OBVIOUS
  <2>. QED BY <1>4, <1>9, <2>1 DEF Stages
<1>11. f[3] = 0 BY <1>1, <1>10 DEF DepthAfter, Insn, ESP, EBP, Reg
<1>12. f[4] = 0 + Word
  <2>1. 0 \in Int OBVIOUS
  <2>2. DepthAfter(0, i4) = 0 + Word BY <1>1, <2>1, MovesDepth
  <2>. QED BY ONLY <1>10, <1>11, <2>2
<1>13. f[5] = 0 + Word + Word
  <2>1. PICK e : e = 0 + Word OBVIOUS
  <2>2. e \in Int BY <2>1 DEF Word
  <2>3. DepthAfter(e, i5) = e + Word BY <1>1, <2>2, MovesDepth
  <2>. QED BY <1>10, <1>12, <2>1, <2>3
<1>14. f[5] = 2 * Word BY <1>13 DEF Word
<1>. QED BY <1>3, <1>4, <1>8, <1>9, <1>14

\* A frame is left.
LEMMA EpilogueFacts ==
  ASSUME NEW n \in Int, NEW d
  PROVE  WellTyped(Epilogue(n)) /\ DepthAfterAll(d, Epilogue(n)) = 0
PROOF
<1>1. PICK i1, i2, i3, i4 :
        /\ i1 = Insn("add", Imm(n), ESP) /\ i2 = Insn("movl", EBP, ESP)
        /\ i3 = Insn1("pop", EBP) /\ i4 = Insn("ret", None, None)
  OBVIOUS
<1>2. PICK is : is = <<i1, i2, i3, i4>> OBVIOUS
<1>3. is = Epilogue(n) BY <1>1, <1>2 DEF Epilogue
<1>4. IsSequence(is) /\ Len(is) = 4 /\ is[1] = i1 /\ is[2] = i2 /\ is[3] = i3 /\ is[4] = i4
  BY <1>2 DEF IsSequence, ToSet
<1>5. Typed(i2) /\ Typed(i3) /\ Typed(i4) BY <1>1, OperandFacts, InsnFacts
<1>6. Typed(i1)
  <2>1. Imm(n) \in Operands BY OperandFacts
  <2>. QED BY <1>1, <2>1, OperandFacts, InsnFacts
<1>7. \A k \in 1..4 : k = 1 \/ k = 2 \/ k = 3 \/ k = 4 OBVIOUS
<1>8. WellTyped(is) BY <1>4, <1>5, <1>6, <1>7 DEF WellTyped
<1>9. PICK f : Stages(f, d, is) /\ DepthAfterAll(d, is) = f[Len(is)] BY <1>4, DepthStages
<1>10. f[3] = DepthAfter(f[2], i3) /\ f[4] = DepthAfter(f[3], i4)
  <2>1. 3 \in 1..4 /\ 4 \in 1..4 /\ 3 - 1 = 2 /\ 4 - 1 = 3 OBVIOUS
  <2>. QED BY <1>4, <1>9, <2>1 DEF Stages
<1>11. f[3] = 0 BY <1>1, <1>10 DEF DepthAfter, Insn1, Insn, None, ESP, EBP, Reg
<1>12. f[4] = 0 BY <1>1, <1>10, <1>11 DEF DepthAfter, Insn, None, ESP, EBP, Reg
<1>. QED BY <1>3, <1>4, <1>8, <1>9, <1>12

ParamScope(ps) == [kind |-> "params", vars |-> ParamVars(ps), next |-> 12, args |-> <<>>, arity |-> NoCall]

RootScope == [kind |-> "root", vars |-> <<>>, next |-> 12, args |-> <<>>, arity |-> NoCall]

LEMMA RootFacts ==
  /\ RootContext = <<RootScope>> /\ IsSequence(RootContext) /\ Len(RootContext) = 1
  /\ RootContext[1] = RootScope /\ Last(RootContext) = RootScope /\ RootContext # <<>>
  /\ ScopeOK(RootScope) /\ Shape(RootScope) = Plain("root", 12)
PROOF
<1>1. RootContext = <<RootScope>> BY DEF RootContext, RootScope
<1>2. PICK s : s = RootScope OBVIOUS
<1>3. IsSequence(<<s>>) /\ Len(<<s>>) = 1 /\ <<s>>[1] = s /\ Last(<<s>>) = s /\ <<s>> # <<>> BY DEF IsSequence, ToSet, Last
<1>4. /\ DOMAIN s = {"kind", "vars", "next", "args", "arity"}
      /\ s.kind = "root" /\ s.vars = <<>> /\ s.next = 12 /\ s.args = <<>> /\ s.arity = NoCall
  BY <1>2 DEF RootScope
<1>5. <<>> \in Seq(Nat) /\ Len(<<>>) = 0 /\ DOMAIN <<>> = {} OBVIOUS
<1>6. IsScope(s) BY <1>4, <1>5 DEF IsScope, NoCall
<1>7. ScopeOK(s) BY <1>4, <1>5, <1>6 DEF ScopeOK, Word
<1>8. Shape(s) = Plain("root", 12) BY <1>4, <1>5 DEF Shape, Plain
<1>. QED BY <1>1, <1>2, <1>3, <1>7, <1>8

LEMMA ParamScopeFacts ==
  ASSUME NEW ps \in Seq(Declarations)
  PROVE  ScopeOK(ParamScope(ps)) /\ Shape(ParamScope(ps)) = Plain("params", 12) /\ DOMAIN ParamScope(ps).vars = Ids(ps)
PROOF
<1>1. IsSequence(ps) /\ Len(ps) \in Nat /\ DOMAIN ps = 1..Len(ps) BY IsSequenceIn, SequenceBasics
<1>2. PICK f : f = ParamVars(ps) OBVIOUS
<1>3. DOMAIN f = Ids(ps) BY <1>2 DEF ParamVars
<1>4. ASSUME NEW x \in Ids(ps) PROVE f[x] \in [off : Int, type : Types]
  <2>1. PICK T : T = {j \in DOMAIN ps : ps[j].id = x} OBVIOUS
  <2>2. T \in SUBSET Nat /\ T # {} BY <1>1, <2>1 DEF Ids
  <2>3. PICK i : i = Min(T) OBVIOUS
  <2>4. i \in 1..Len(ps) BY <1>1, <2>1, <2>2, <2>3, SmallestElement
  <2>5. ps[i] \in Declarations BY <1>1, <2>4
  <2>6. ps[i].type \in Types BY <2>5 DEF Declarations, Types
  <2>7. -4 - Word * i \in Int BY <2>4 DEF Word
  <2>8. f[x] = [off |-> -4 - Word * i, type |-> ps[i].type] BY <1>2, <2>1, <2>3 DEF ParamVars
  <2>. QED BY <2>6, <2>7, <2>8
<1>5. PICK s : s = ParamScope(ps) OBVIOUS
<1>6. /\ DOMAIN s = {"kind", "vars", "next", "args", "arity"}
      /\ s.kind = "params" /\ s.vars = f /\ s.next = 12 /\ s.args = <<>> /\ s.arity = NoCall
  BY <1>2, <1>5 DEF ParamScope
<1>7. <<>> \in Seq(Nat) /\ Len(<<>>) = 0 OBVIOUS
<1>8. IsScope(s) BY <1>3, <1>4, <1>6, <1>7 DEF IsScope, NoCall
<1>9. ScopeOK(s) BY <1>6, <1>7, <1>8 DEF ScopeOK, Word
<1>10. Shape(s) = Plain("params", 12) BY <1>6, <1>7 DEF Shape, Plain
<1>. QED BY <1>3, <1>5, <1>6, <1>9, <1>10

\* The contexts in which the body of a function is visited.
LEMMA FunctionContexts ==
  ASSUME NEW ps \in Seq(Declarations), NEW c,
         c = RootContext \o <<[Last(OpenScope(RootContext, "params")) EXCEPT !.vars = ParamVars(ps)]>>
  PROVE  /\ c = Append(RootContext, ParamScope(ps)) /\ IsSequence(c) /\ c # <<>>
         /\ \A i \in DOMAIN c : ScopeOK(c[i])
         /\ Len(c) = 2 /\ c[2] = ParamScope(ps) /\ ShapesOf(c) = FunctionShapes
PROOF
<1>1. PICK r, s, p : r = RootContext /\ s = RootScope /\ p = ParamScope(ps) OBVIOUS
<1>2. r = <<s>> /\ IsSequence(r) /\ Len(r) = 1 /\ r[1] = s /\ Last(r) = s BY <1>1, RootFacts
<1>3. PICK o : o = [kind |-> "params", vars |-> <<>>, next |-> s.next, args |-> <<>>, arity |-> NoCall] OBVIOUS
<1>4. OpenScope(r, "params") = Append(r, o) BY <1>2, <1>3 DEF OpenScope
<1>5. Last(OpenScope(r, "params")) = o BY <1>2, <1>4, FrontOfAppend
<1>6. s.next = 12 BY <1>1 DEF RootScope
<1>7. [o EXCEPT !.vars = ParamVars(ps)] = p
  <2>. DEFINE Fs == {"kind", "vars", "next", "args", "arity"}
  <2>1. PICK vs : vs = ParamVars(ps) OBVIOUS
  <2>2. DOMAIN o = Fs BY <1>3
  <2>3. PICK t : t = [o EXCEPT !.vars = vs] OBVIOUS
  <2>4. t = [f \in Fs |-> IF f = "vars" THEN vs ELSE o[f]] BY <2>2, <2>3
  <2>5. p = [f \in Fs |-> IF f = "vars" THEN vs ELSE o[f]] BY <1>1, <1>3, <1>6, <2>1 DEF ParamScope
  <2>. QED BY <2>1, <2>3, <2>4, <2>5
<1>8. c = <<s>> \o <<p>> BY <1>1, <1>2, <1>5, <1>7
<1>9. <<s>> \o <<p>> = <<s, p>> BY PairAsSequences
<1>10. <<s, p>> = Append(<<s>>, p) OBVIOUS
<1>11. c = Append(r, p) BY <1>2, <1>8, <1>9, <1>10
<1>12. ScopeOK(p) /\ Shape(p) = Plain("params", 12) /\ ScopeOK(s) /\ Shape(s) = Plain("root", 12)
  BY <1>1, ParamScopeFacts, RootFacts
<1>13. \A i \in DOMAIN r : ScopeOK(r[i]) BY <1>2, <1>12
<1>14. IsSequence(c) /\ c # <<>> /\ (\A i \in DOMAIN c : ScopeOK(c[i])) /\ c[Len(c)] = p
  <2>1. /\ IsSequence(Append(r, p)) /\ Append(r, p) # <<>> /\ \A i \in DOMAIN Append(r, p) : ScopeOK(Append(r, p)[i])
        /\ Append(r, p)[Len(Append(r, p))] = p
    BY <1>2, <1>12, <1>13, ContextsOpened
  <2>. QED BY <1>11, <2>1
<1>15. Len(c) = 2
  <2>1. Len(<<s, p>>) = 2 OBVIOUS
  <2>. QED BY <1>8, <1>9, <2>1
<1>16. ShapesOf(r) = RootShapes
  <2>1. PICK e, q : e = ShapesOf(r) /\ q = Plain("root", 12) OBVIOUS
  <2>2. IsSequence(e) /\ Len(e) = 1 /\ e[1] = q BY <1>2, <1>12, <2>1, ShapesSequence
  <2>3. IsSequence(<<q>>) /\ Len(<<q>>) = 1 /\ <<q>>[1] = q BY DEF IsSequence, ToSet
  <2>4. \A k \in 1..Len(e) : e[k] = <<q>>[k] BY <2>2, <2>3
  <2>5. e = <<q>> BY ONLY <2>2, <2>3, <2>4, SameSequence
  <2>. QED BY <2>1, <2>5 DEF RootShapes
<1>17. ShapesOf(c) = Append(RootShapes, Plain("params", 12)) BY <1>2, <1>11, <1>12, <1>16, ShapesAppend
<1>18. FunctionShapes = Append(RootShapes, Plain("params", 12)) BY DEF FunctionShapes, RootShapes
<1>. QED BY <1>1, <1>11, <1>14, <1>15, <1>17, <1>18

\* A body, the expression after it, and the end of the frame.
LEMMA BodyRuns ==
  ASSUME NEW v, IsView(v), InFrame(v), v.top, Current(v).kind \in {"root", "params"},
         NEW b \in AllTrees.blocks, NEW e \in AllTrees.aexps, NEW t, NEW w, NEW u,
         w = Entered(v, Plain("body", Current(v).next + Word * Len(b.decls))), Does(t, w, u)
  PROVE  Runs(<<b, e, t>>, v, u)
PROOF
<1>1. Does(b, v, w) BY BlockDoes
<1>2. IsView(w) /\ Current(w) = Plain("body", Current(v).next + Word * Len(b.decls)) /\ w.frame = v.frame
  BY EnteredView
<1>3. Current(w).kind = "body" /\ Current(w).arity = NoCall BY <1>2 DEF Plain
<1>4. Computes(w) BY <1>2, <1>3 DEF Computes, InFrame
<1>5. Does(e, w, w) BY <1>4, ExpressionDoes DEF Expressions
<1>. QED BY <1>1, <1>5, RunsThree

LEMMA EndOfBody ==
  ASSUME NEW v, IsView(v), InFrame(v), v.top, NEW n, NEW w, w = Entered(v, Plain("body", n))
  PROVE  AfterBody(w) /\ Len(w.scopes) > 1 /\ Front(w.scopes) = v.scopes
PROOF
<1>1. PICK x : x = Plain("body", n) OBVIOUS
<1>2. /\ Current(w) = x /\ Left(w) = v /\ w.top = v.top /\ w.frame = v.frame
      /\ Len(v.scopes) \in Nat \ {0} /\ Len(w.scopes) = Len(v.scopes) + 1
  <2>1. IsView(v) /\ w = Entered(v, x) BY <1>1
  <2>. QED BY ONLY <2>1, EnteredView
<1>3. AfterBody(w)
  <2>1. x.kind = "body" /\ x.arity = NoCall /\ x.pushed = 0 BY <1>1 DEF Plain
  <2>. QED BY <1>2, <2>1 DEF AfterBody, InFrame
<1>4. Front(w.scopes) = v.scopes BY <1>2 DEF Left, Seen
<1>. QED BY <1>2, <1>3, <1>4

LEMMA EndOfFrameDoes ==
  ASSUME NEW w, AfterBody(w)
  PROVE  /\ w.frame = "entry" => Does(Do("endentry"), w, Finished)
         /\ \A f \in FunctionDefs(AllTrees) :
              w.frame = "def" /\ Len(w.scopes) > 1 =>
                Does([op |-> "endfn", def |-> f], w, Seen(Front(w.scopes), TRUE, "none", w.defs))
BY DEF Do, Does, DoesCode, DoesTmp, DoesStatement, DoesBlock, DoesDefinition, ExpressionOps, StatementOps,
       BinaryOps, ArithmeticOps, RelationalOps, LogicalOps

LEMMA VisitFunctionDefStep ==
  IInv /\ VisitFunctionDef =>
    /\ IInv' /\ BetweenDefinitions(View) /\ depth' = 2 * Word
    /\ Task \in FunctionDefs(AllTrees) /\ ctx' = Append(RootContext, ParamScope(Task.parameters))
PROOF
<1>. SUFFICES ASSUME IInv, VisitFunctionDef
              PROVE  /\ IInv' /\ BetweenDefinitions(View) /\ depth' = 2 * Word
                     /\ Task \in FunctionDefs(AllTrees) /\ ctx' = Append(RootContext, ParamScope(Task.parameters))
  OBVIOUS
<1>. USE DEF VisitFunctionDef, At
<1>1. PICK u : Does(Task, View, u) /\ Runs(Tail(todo), u, Finished) BY HeadTask
<1>2. CodeOK /\ ContextsOK /\ NumbersOK /\ TablesOK /\ DepthOK BY HeadTask
<1>3. /\ Task \in FunctionDefs(AllTrees) /\ BetweenDefinitions(View)
      /\ u = Seen(FunctionShapes, TRUE, "none", View.defs + 1)
  BY <1>1 DEF Does, DoesDefinition
<1>4. UNCHANGED <<phase, prog, typeInfo, nextTmp, nextIndex, inLhs, inTop>> BY DEF tables, names
<1>5. PICK f, ps, b, e : f = Task /\ ps = f.parameters /\ b = f.function_body /\ e = f.retval OBVIOUS
<1>6. /\ f.function_name \in STRING /\ ps \in Seq(Declarations) /\ b \in AllTrees.blocks /\ e \in AllTrees.aexps
      /\ b.decls \in Seq(Declarations)
  BY <1>3, <1>5, FunctionParts, BlockParts
<1>7. PICK c, d : c = ctx' /\ d = frame' OBVIOUS
<1>8. c = RootContext \o <<[Last(OpenScope(RootContext, "params")) EXCEPT !.vars = ParamVars(ps)]>>
  BY <1>5, <1>7
<1>9. /\ c = Append(RootContext, ParamScope(ps)) /\ IsSequence(c) /\ c # <<>>
      /\ (\A i \in DOMAIN c : ScopeOK(c[i])) /\ Len(c) = 2 /\ c[2] = ParamScope(ps) /\ ShapesOf(c) = FunctionShapes
  BY <1>6, <1>8, FunctionContexts
<1>10. ContextsOK' /\ Top'.next = 12
  <2>1. ContextsOK' BY <1>7, <1>9 DEF ContextsOK
  <2>2. Top' = ParamScope(ps) BY <1>7, <1>9 DEF Top
  <2>3. ParamScope(ps).next = 12 BY DEF ParamScope
  <2>. QED BY <2>1, <2>2, <2>3
<1>11. /\ d.kind = "def" /\ d.begun = frame.begun + 1 /\ DOMAIN d = {"kind", "params", "begun"}
  <2>1. PICK q, m : q = [i \in DOMAIN ps |-> ps[i].id] /\ m = frame.begun + 1 OBVIOUS
  <2>2. d = [kind |-> "def", params |-> q, begun |-> m] BY <1>5, <1>7, <2>1
  <2>. QED BY <2>1, <2>2
<1>12. CodeOK' /\ depth' = 2 * Word
  <2>1. PICK l, x, y, d0 : l = f.function_name /\ x = PointerBits(ps) /\ y = PointerBits(b.decls) /\ d0 = depth OBVIOUS
  <2>2. x \in Int /\ y \in Int BY <2>1, InfoWordsInt
  <2>3. Lbl(l) \in Operands BY <1>6, <2>1, OperandFacts
  <2>4. WellTyped(Prologue(l, x, y)) /\ DepthAfterAll(d0, Prologue(l, x, y)) = 2 * Word BY <2>2, <2>3, PrologueFacts
  <2>5. Emit(Prologue(l, x, y)) BY <1>5, <2>1
  <2>6. CodeOK' BY <1>2, <2>4, <2>5, Emitted
  <2>. QED BY <2>1, <2>4, <2>5, <2>6 DEF Emit
<1>13. View' = Seen(FunctionShapes, TRUE, "def", View.defs + 1)
  <2>1. View.top /\ View.top = inTop /\ View.defs = frame.begun BY <1>2, <1>3, CurrentIsTop DEF BetweenDefinitions
  <2>2. inTop' = TRUE BY <1>2, <1>4, <2>1 DEF NumbersOK
  <2>. QED BY <1>7, <1>9, <1>11, <2>1, <2>2 DEF View
<1>14. PICK v : v = View' OBVIOUS
<1>15. IsView(v) /\ v.scopes = FunctionShapes /\ v.top /\ v.frame = "def" /\ v.defs = View.defs + 1
  <2>1. IsSequence(FunctionShapes) /\ FunctionShapes # <<>> BY <1>9, ShapesSequence
  <2>. QED BY <1>13, <1>14, <2>1 DEF IsView, Seen
<1>16. Current(v) = Plain("params", 12) /\ InFrame(v) /\ Current(v).kind = "params"
  <2>1. Len(FunctionShapes) = 2 /\ FunctionShapes[2] = Plain("params", 12) BY DEF FunctionShapes
  <2>. QED BY <1>15, <2>1 DEF Current, InFrame, Plain
<1>17. PICK t, w : t = [op |-> "endfn", def |-> f] /\ w = Entered(v, Plain("body", Current(v).next + Word * Len(b.decls)))
  OBVIOUS
<1>18. AfterBody(w) /\ Len(w.scopes) > 1 /\ Front(w.scopes) = FunctionShapes BY <1>15, <1>16, <1>17, EndOfBody
<1>19. w.frame = "def" /\ w.defs = View.defs + 1 BY <1>15, <1>17, EnteredView
<1>20. Does(t, w, u)
  <2>1. f \in FunctionDefs(AllTrees) BY <1>3, <1>5
  <2>2. Does(t, w, Seen(Front(w.scopes), TRUE, "none", w.defs)) BY <1>17, <1>18, <1>19, <2>1, EndOfFrameDoes
  <2>. QED BY <1>3, <1>18, <1>19, <2>2
<1>21. Runs(<<b, e, t>>, v, u) BY <1>6, <1>15, <1>16, <1>17, <1>20, BodyRuns
<1>22. Then(<<b, e, t>>) BY <1>5, <1>17
<1>23. NumbersOK' BY <1>2, <1>4, <1>7, <1>11, <1>12 DEF NumbersOK, Word
<1>24. TablesOK' BY <1>2, <1>4 DEF TablesOK
<1>25. DepthOK' BY <1>10, <1>12 DEF DepthOK, Word
<1>26. IInv' BY <1>1, <1>4, <1>10, <1>12, <1>14, <1>21, <1>22, <1>23, <1>24, <1>25, StepKeeps
<1>. QED BY <1>3, <1>5, <1>7, <1>9, <1>12, <1>26

LEMMA EndFunctionDefStep ==
  IInv /\ EndFunctionDef =>
    /\ IInv' /\ AfterBody(View) /\ frame.kind = "def" /\ depth' = 0 /\ Len(ctx) > 1 /\ ctx' = Front(ctx)
PROOF
<1>. SUFFICES ASSUME IInv, EndFunctionDef
              PROVE  /\ IInv' /\ AfterBody(View) /\ frame.kind = "def" /\ depth' = 0 /\ Len(ctx) > 1 /\ ctx' = Front(ctx)
  OBVIOUS
<1>. USE DEF EndFunctionDef, At
<1>1. PICK u : Does(Task, View, u) /\ Runs(Tail(todo), u, Finished) BY HeadTask
<1>2. CodeOK /\ ContextsOK /\ NumbersOK /\ TablesOK BY HeadTask
<1>3. /\ Task.def \in FunctionDefs(AllTrees) /\ AfterBody(View) /\ View.frame = "def" /\ Len(View.scopes) > 1
      /\ u = Seen(Front(View.scopes), TRUE, "none", View.defs)
  BY <1>1 DEF Does, DoesDefinition
<1>4. /\ View.scopes = ShapesOf(ctx) /\ View.top = inTop /\ View.frame = frame.kind /\ View.defs = frame.begun
      /\ Len(View.scopes) = Len(ctx)
  BY <1>2, CurrentIsTop
<1>5. UNCHANGED <<phase, prog, typeInfo, nextTmp, nextIndex, inLhs, inTop>> /\ Then(<<>>) BY DEF tables, names
<1>6. ContextsOK' BY <1>2, <1>3, <1>4, TopLeft
<1>7. PICK d, e : d = frame /\ e = frame' OBVIOUS
<1>8. e.kind = "none" /\ e.begun = d.begun /\ DOMAIN e = {"kind", "params", "begun"}
  <2>1. DOMAIN d = {"kind", "params", "begun"} BY <1>2, <1>7 DEF NumbersOK
  <2>2. e = [d EXCEPT !.kind = "none", !.params = <<>>] BY <1>7
  <2>. QED BY ONLY <2>1, <2>2
<1>9. CodeOK' /\ depth' = 0
  <2>1. PICK n, d0 : n = Word * Len(Task.def.function_body.decls) /\ d0 = depth OBVIOUS
  <2>2. Task.def.function_body.decls \in Seq(Declarations) BY <1>3, FunctionParts, BlockParts
  <2>3. n \in Int BY <2>1, <2>2 DEF Word
  <2>4. WellTyped(Epilogue(n)) /\ DepthAfterAll(d0, Epilogue(n)) = 0 BY <2>3, EpilogueFacts
  <2>5. Emit(Epilogue(n)) BY <2>1
  <2>6. CodeOK' BY <1>2, <2>4, <2>5, Emitted
  <2>. QED BY <2>1, <2>4, <2>5, <2>6 DEF Emit
<1>10. View' = u
  <2>1. PICK c, c1 : c = ctx /\ c1 = ctx' OBVIOUS
  <2>2. IsSequence(c) /\ c # <<>> BY <1>2, <2>1 DEF ContextsOK
  <2>3. ShapesOf(c1) = Front(ShapesOf(c)) BY <2>1, <2>2, ShapesFront
  <2>4. inTop' = TRUE BY <1>2, <1>3, <1>4, <1>5 DEF NumbersOK, AfterBody
  <2>. QED BY <1>3, <1>4, <1>7, <1>8, <2>1, <2>3, <2>4 DEF View
<1>11. Runs(<<>>, View', u) BY <1>10, RunsNone
<1>12. NumbersOK' BY <1>2, <1>5, <1>7, <1>8, <1>9 DEF NumbersOK
<1>13. TablesOK' /\ DepthOK' BY <1>2, <1>5, <1>7, <1>8 DEF TablesOK, DepthOK
<1>14. IInv' BY <1>1, <1>5, <1>6, <1>9, <1>11, <1>12, <1>13, StepKeeps
<1>. QED BY <1>3, <1>4, <1>9, <1>14

LEMMA VisitEntryStep ==
  IInv /\ VisitEntry => IInv' /\ BetweenDefinitions(View) /\ depth' = 2 * Word
PROOF
<1>. SUFFICES ASSUME IInv, VisitEntry PROVE IInv' /\ BetweenDefinitions(View) /\ depth' = 2 * Word OBVIOUS
<1>. USE DEF VisitEntry, At
<1>1. PICK u : Does(Task, View, u) /\ Runs(Tail(todo), u, Finished) BY HeadTask
<1>2. CodeOK /\ ContextsOK /\ NumbersOK /\ TablesOK /\ prog \in ProgramTrees(AllTrees) BY HeadTask
<1>3. BetweenDefinitions(View) /\ u = Finished BY <1>1 DEF Does, DoesDefinition
<1>4. /\ View = Seen(ShapesOf(ctx), inTop, frame.kind, frame.begun)
      /\ View.scopes = ShapesOf(ctx) /\ View.top = inTop /\ View.frame = frame.kind /\ View.defs = frame.begun
      /\ Current(View) = Shape(Top)
  BY <1>2, CurrentIsTop
<1>5. UNCHANGED <<phase, prog, typeInfo, ctx, nextTmp, nextIndex, inLhs, inTop>> BY DEF tables, names
<1>6. PICK b, e : b = prog.statements /\ e = prog.arithmetic_exp OBVIOUS
<1>7. b \in AllTrees.blocks /\ e \in AllTrees.aexps /\ b.decls \in Seq(Declarations)
  BY <1>2, <1>6, ProgramParts, BlockParts
<1>8. PICK d, d1 : d = frame /\ d1 = frame' OBVIOUS
<1>9. d1.kind = "entry" /\ d1.begun = d.begun /\ DOMAIN d1 = {"kind", "params", "begun"}
  <2>1. DOMAIN d = {"kind", "params", "begun"} BY <1>2, <1>8 DEF NumbersOK
  <2>2. d1 = [d EXCEPT !.kind = "entry", !.params = <<>>] BY <1>8
  <2>. QED BY ONLY <2>1, <2>2
<1>10. ContextsOK' /\ Top'.next = 12
  <2>1. Top' = Top BY <1>5 DEF Top
  <2>2. Top.next = 12 BY <1>3, <1>4 DEF BetweenDefinitions, Shape
  <2>. QED BY <1>2, <1>5, <2>1, <2>2 DEF ContextsOK
<1>11. CodeOK' /\ depth' = 2 * Word
  <2>1. PICK y, d0 : y = PointerBits(b.decls) /\ d0 = depth OBVIOUS
  <2>2. y \in Int /\ 0 \in Int BY <2>1, InfoWordsInt
  <2>3. Lbl("Entry") \in Operands BY OperandFacts
  <2>4. WellTyped(Prologue("Entry", 0, y)) /\ DepthAfterAll(d0, Prologue("Entry", 0, y)) = 2 * Word
    BY <2>2, <2>3, PrologueFacts
  <2>5. Emit(Prologue("Entry", 0, y)) BY <1>6, <2>1
  <2>6. CodeOK' BY <1>2, <2>4, <2>5, Emitted
  <2>. QED BY <2>1, <2>4, <2>5, <2>6 DEF Emit
<1>12. PICK v0, v : v0 = View /\ v = View' OBVIOUS
<1>13. v = Seen(v0.scopes, v0.top, "entry", v0.defs) BY <1>4, <1>5, <1>8, <1>9, <1>12 DEF View
<1>14. IsView(v) /\ v.top /\ v.frame = "entry" /\ InFrame(v) /\ Current(v).kind \in {"root", "params"}
  <2>1. IsView(v0) BY <1>2, <1>12, ViewIsView
  <2>2. v.scopes = v0.scopes /\ v.top = v0.top /\ v.frame = "entry" /\ v.defs = v0.defs BY <1>13 DEF Seen
  <2>3. v0.top /\ Current(v0).kind \in {"root", "params"} BY <1>3, <1>12 DEF BetweenDefinitions
  <2>. QED BY <1>13, <2>1, <2>2, <2>3 DEF IsView, InFrame, Current
<1>15. PICK n, w : n = Current(v).next + Word * Len(b.decls) /\ w = Entered(v, Plain("body", n)) OBVIOUS
<1>16. AfterBody(w) BY <1>14, <1>15, EndOfBody
<1>17. w.frame = "entry" BY <1>14, <1>15, EnteredView
<1>18. Does(Do("endentry"), w, u) BY <1>3, <1>16, <1>17, EndOfFrameDoes
<1>19. Runs(<<b, e, Do("endentry")>>, v, u) BY <1>7, <1>14, <1>15, <1>18, BodyRuns
<1>20. Then(<<b, e, Do("endentry")>>) BY <1>6
<1>21. NumbersOK' BY <1>2, <1>5, <1>8, <1>9, <1>11 DEF NumbersOK, Word
<1>22. TablesOK' /\ DepthOK' BY <1>2, <1>5, <1>10, <1>11 DEF TablesOK, DepthOK, Word
<1>23. IInv' BY <1>1, <1>5, <1>10, <1>11, <1>12, <1>19, <1>20, <1>21, <1>22, StepKeeps
<1>. QED BY <1>3, <1>11, <1>23

LEMMA EndEntryStep ==
  IInv /\ EndEntry => IInv' /\ AfterBody(View) /\ frame.kind = "entry" /\ depth' = 0
PROOF
<1>. SUFFICES ASSUME IInv, EndEntry PROVE IInv' /\ AfterBody(View) /\ frame.kind = "entry" /\ depth' = 0 OBVIOUS
<1>. USE DEF EndEntry, At
<1>1. PICK u : Does(Task, View, u) /\ Runs(Tail(todo), u, Finished) BY HeadTask
<1>2. CodeOK /\ ContextsOK /\ NumbersOK /\ TablesOK /\ prog \in ProgramTrees(AllTrees) BY HeadTask
<1>3. AfterBody(View) /\ View.frame = "entry" /\ View.frame = frame.kind BY <1>1, <1>2, CurrentIsTop DEF Does, DoesDefinition
<1>4. UNCHANGED <<prog, typeInfo, ctx, nextTmp, nextIndex, inLhs, inTop>> BY DEF tables, names
<1>5. PICK d, d1 : d = frame /\ d1 = frame' OBVIOUS
<1>6. d1.kind = "none" /\ d1.begun = d.begun /\ DOMAIN d1 = {"kind", "params", "begun"}
  <2>1. DOMAIN d = {"kind", "params", "begun"} BY <1>2, <1>5 DEF NumbersOK
  <2>2. d1 = [d EXCEPT !.kind = "none"] BY <1>5
  <2>. QED BY ONLY <2>1, <2>2
<1>7. CodeOK' /\ depth' = 0
  <2>1. PICK n, d0 : n = Word * Len(prog.statements.decls) /\ d0 = depth OBVIOUS
  <2>2. prog.statements.decls \in Seq(Declarations) BY <1>2, ProgramParts, BlockParts
  <2>3. n \in Int BY <2>1, <2>2 DEF Word
  <2>4. WellTyped(Epilogue(n)) /\ DepthAfterAll(d0, Epilogue(n)) = 0 BY <2>3, EpilogueFacts
  <2>5. Emit(Epilogue(n)) BY <2>1
  <2>6. CodeOK' BY <1>2, <2>4, <2>5, Emitted
  <2>. QED BY <2>1, <2>4, <2>5, <2>6 DEF Emit
<1>8. ContextsOK' /\ TablesOK' BY <1>2, <1>4 DEF ContextsOK, TablesOK
<1>9. NumbersOK' BY <1>2, <1>4, <1>5, <1>6, <1>7 DEF NumbersOK
<1>10. phase' = "done" OBVIOUS
<1>11. FreshOK' BY <1>10 DEF FreshOK
<1>12. IInv' BY <1>7, <1>8, <1>9, <1>10, <1>11 DEF IInv
<1>. QED BY <1>3, <1>7, <1>12

-----------------------------------------------------------------------------
(* The program. *)

LEMMA DefinitionDoes ==
  ASSUME NEW v, BetweenDefinitions(v)
  PROVE  /\ v.defs = 0 => \A t \in TypeDefs : Does(t, v, v)
         /\ v.defs = 0 => \A f \in FunctionDefs(AllTrees) : Does([op |-> "addfn", def |-> f], v, v)
         /\ \A f \in FunctionDefs(AllTrees) : Does(f, v, Seen(FunctionShapes, TRUE, "none", v.defs + 1))
         /\ Does(Do("entry"), v, Finished)
PROOF
<1>. USE DEF Do, Does, DoesCode, DoesTmp, DoesStatement, DoesBlock, DoesDefinition, ExpressionOps, StatementOps,
             BinaryOps, ArithmeticOps, RelationalOps, LogicalOps
<1>1. ASSUME NEW t \in TypeDefs, v.defs = 0 PROVE Does(t, v, v)
  <2>1. t.op = "typedef" BY DEF TypeDefs
  <2>. QED BY <1>1, <2>1
<1>2. ASSUME NEW f \in FunctionDefs(AllTrees) PROVE Does(f, v, Seen(FunctionShapes, TRUE, "none", v.defs + 1))
  <2>1. f.op = "fundef" BY FunctionParts
  <2>. QED BY <2>1
<1>. QED BY <1>1, <1>2

\* What the generator sees after n functions.
AfterFunctions(n) == Seen(IF n = 0 THEN RootShapes ELSE FunctionShapes, TRUE, "none", n)

LEMMA AfterFunctionsBetween ==
  ASSUME NEW n \in Nat
  PROVE  BetweenDefinitions(AfterFunctions(n)) /\ AfterFunctions(n).defs = n
PROOF
<1>1. PICK v : v = AfterFunctions(n) OBVIOUS
<1>2. v.top /\ v.frame = "none" /\ v.defs = n /\ v.scopes = (IF n = 0 THEN RootShapes ELSE FunctionShapes)
  BY <1>1 DEF AfterFunctions, Seen
<1>3. Len(RootShapes) = 1 /\ RootShapes[1] = Plain("root", 12) BY DEF RootShapes
<1>4. Len(FunctionShapes) = 2 /\ FunctionShapes[2] = Plain("params", 12) BY DEF FunctionShapes
<1>5. Current(v) = Plain("root", 12) \/ Current(v) = Plain("params", 12) BY <1>2, <1>3, <1>4 DEF Current
<1>6. BetweenDefinitions(v) BY <1>2, <1>5 DEF BetweenDefinitions, Plain
<1>. QED BY <1>1, <1>2, <1>6

LEMMA FunctionsRun ==
  ASSUME NEW fs \in Seq(FunctionDefs(AllTrees))
  PROVE  Runs(fs, AfterFunctions(0), AfterFunctions(Len(fs)))
PROOF
<1>1. IsSequence(fs) /\ Len(fs) \in Nat /\ \A i \in 1..Len(fs) : fs[i] \in FunctionDefs(AllTrees)
  BY IsSequenceIn, SequenceBasics
<1>2. PICK h : h = [i \in 1..(Len(fs) + 1) |-> AfterFunctions(i - 1)] OBVIOUS
<1>3. h[1] = AfterFunctions(0) /\ h[Len(fs) + 1] = AfterFunctions(Len(fs))
  <2>1. 1 \in 1..(Len(fs) + 1) /\ Len(fs) + 1 \in 1..(Len(fs) + 1) /\ 1 - 1 = 0 /\ (Len(fs) + 1) - 1 = Len(fs) BY <1>1
  <2>. QED BY <1>2, <2>1
<1>4. ASSUME NEW i \in 1..Len(fs) PROVE Does(fs[i], h[i], h[i + 1])
  <2>1. /\ i - 1 \in Nat /\ (i + 1) - 1 = i /\ (i - 1) + 1 = i /\ i # 0
        /\ i \in 1..(Len(fs) + 1) /\ i + 1 \in 1..(Len(fs) + 1)
    BY <1>1
  <2>2. h[i] = AfterFunctions(i - 1) /\ h[i + 1] = AfterFunctions(i) BY <1>2, <2>1
  <2>3. PICK v : v = AfterFunctions(i - 1) OBVIOUS
  <2>4. BetweenDefinitions(v) /\ v.defs = i - 1 BY <2>1, <2>3, AfterFunctionsBetween
  <2>5. Does(fs[i], v, Seen(FunctionShapes, TRUE, "none", v.defs + 1)) BY <1>1, <2>4, DefinitionDoes
  <2>6. AfterFunctions(i) = Seen(FunctionShapes, TRUE, "none", v.defs + 1) BY <2>1, <2>4 DEF AfterFunctions
  <2>. QED BY <2>2, <2>3, <2>5, <2>6
<1>. QED BY <1>1, <1>3, <1>4 DEF Runs

\* What generateCode() has to do leads to the end.
LEMMA ProgramRuns ==
  ASSUME NEW p \in ProgramTrees(AllTrees)
  PROVE  Runs(p.type_defs \o [i \in DOMAIN p.function_defs |-> [op |-> "addfn", def |-> p.function_defs[i]]]
                \o p.function_defs \o <<Do("entry")>>, AfterFunctions(0), Finished)
PROOF
<1>1. PICK ds, fs, v : ds = p.type_defs /\ fs = p.function_defs /\ v = AfterFunctions(0) OBVIOUS
<1>2. ds \in Seq(TypeDefs) /\ fs \in Seq(FunctionDefs(AllTrees)) BY <1>1, ProgramParts
<1>3. /\ IsSequence(ds) /\ \A i \in 1..Len(ds) : ds[i] \in TypeDefs
      /\ IsSequence(fs) /\ Len(fs) \in Nat /\ DOMAIN fs = 1..Len(fs) /\ \A i \in 1..Len(fs) : fs[i] \in FunctionDefs(AllTrees)
  BY <1>2, IsSequenceIn, SequenceBasics
<1>4. BetweenDefinitions(v) /\ v.defs = 0 BY <1>1, AfterFunctionsBetween
<1>5. Runs(ds, v, v)
  <2>1. \A i \in 1..Len(ds) : Does(ds[i], v, v) BY <1>3, <1>4, DefinitionDoes
  <2>. QED BY <1>3, <2>1, RunsAll
<1>6. PICK as : as = [i \in DOMAIN fs |-> [op |-> "addfn", def |-> fs[i]]] OBVIOUS
<1>7. Runs(as, v, v)
  <2>1. IsSequence(as) /\ Len(as) = Len(fs) BY <1>3, <1>6, ToSequence
  <2>2. \A i \in 1..Len(as) : as[i] = [op |-> "addfn", def |-> fs[i]] /\ fs[i] \in FunctionDefs(AllTrees)
    BY <1>3, <1>6, <2>1
  <2>3. \A i \in 1..Len(as) : Does(as[i], v, v) BY <1>4, <2>2, DefinitionDoes
  <2>. QED BY <2>1, <2>3, RunsAll
<1>8. PICK w : w = AfterFunctions(Len(fs)) OBVIOUS
<1>9. Runs(fs, v, w) BY <1>1, <1>2, <1>8, FunctionsRun
<1>10. BetweenDefinitions(w) BY <1>3, <1>8, AfterFunctionsBetween
<1>11. Runs(<<Do("entry")>>, w, Finished) BY <1>10, DefinitionDoes, RunsOne
<1>12. Runs(ds \o as, v, v) BY <1>5, <1>7, RunsConcat
<1>13. Runs((ds \o as) \o fs, v, w) BY <1>9, <1>12, RunsConcat
<1>14. Runs(((ds \o as) \o fs) \o <<Do("entry")>>, v, Finished) BY <1>11, <1>13, RunsConcat
<1>. QED BY <1>1, <1>6, <1>14

LEMMA GenerateCodeStep ==
  ASSUME Programs \subseteq ProgramTrees(AllTrees), IInv, GenerateCode
  PROVE  IInv' /\ ctx' = ctx /\ frame' = frame /\ depth' = depth /\ frame.kind = "none" /\ frame.begun = 0
PROOF
<1>1. phase = "ready" /\ phase' = "generating" /\ prog' \in Programs BY DEF GenerateCode
<1>2. ctx = RootContext /\ inTop /\ frame.kind = "none" /\ frame.begun = 0 /\ depth = 0 BY <1>1 DEF IInv, FreshOK
<1>3. CodeOK /\ ContextsOK /\ NumbersOK BY DEF IInv
<1>4. ctx' = ctx /\ frame' = frame /\ inLhs' = inLhs /\ inTop' = TRUE BY <1>2 DEF GenerateCode
<1>5. insns' = <<>> /\ depth' = 0 /\ nextTmp' = 0 /\ nextIndex' = 0 /\ typeInfo' = <<>> BY DEF GenerateCode
<1>6. CodeOK' BY <1>5 DEF CodeOK, IsSequence
<1>7. ContextsOK' BY <1>3, <1>4 DEF ContextsOK
<1>8. NumbersOK' BY <1>3, <1>4, <1>5 DEF NumbersOK
<1>9. TablesOK' BY <1>5 DEF TablesOK
<1>10. FreshOK' /\ DepthOK' BY <1>1, <1>2, <1>4 DEF FreshOK, DepthOK
<1>11. PICK p, t : p = prog' /\ t = todo' OBVIOUS
<1>12. p \in ProgramTrees(AllTrees) BY <1>1, <1>11
<1>13. t = p.type_defs \o [i \in DOMAIN p.function_defs |-> [op |-> "addfn", def |-> p.function_defs[i]]]
             \o p.function_defs \o <<Do("entry")>>
  BY <1>11 DEF GenerateCode
<1>14. Runs(t, AfterFunctions(0), Finished) BY <1>12, <1>13, ProgramRuns
<1>15. View' = AfterFunctions(0)
  <2>1. PICK c : c = RootContext OBVIOUS
  <2>2. ShapesOf(c) = RootShapes
    <3>1. PICK e, q : e = ShapesOf(c) /\ q = Plain("root", 12) OBVIOUS
    <3>2. IsSequence(c) /\ Len(c) = 1 /\ Shape(c[1]) = q BY <2>1, <3>1, RootFacts
    <3>3. IsSequence(e) /\ Len(e) = 1 /\ e[1] = q BY <3>1, <3>2, ShapesSequence
    <3>4. IsSequence(<<q>>) /\ Len(<<q>>) = 1 /\ <<q>>[1] = q BY DEF IsSequence, ToSet
    <3>5. \A k \in 1..Len(e) : e[k] = <<q>>[k] BY <3>3, <3>4
    <3>6. e = <<q>> BY ONLY <3>3, <3>4, <3>5, SameSequence
    <3>. QED BY <3>1, <3>6 DEF RootShapes
  <2>3. ctx' = c BY <1>2, <1>4, <2>1
  <2>. QED BY <1>2, <1>4, <2>2, <2>3 DEF View, AfterFunctions
<1>16. (Runs(todo, View, Finished))' BY <1>11, <1>14, <1>15
<1>. QED BY <1>1, <1>2, <1>4, <1>5, <1>6, <1>7, <1>8, <1>9, <1>10, <1>11, <1>12, <1>16 DEF IInv

LEMMA StutterStep == IInv /\ UNCHANGED vars => IInv'
PROOF
<1>. SUFFICES ASSUME IInv, UNCHANGED vars PROVE IInv' OBVIOUS
<1>1. UNCHANGED <<phase, prog, todo, typeInfo, fnInfo, ctx, nextTmp, nextIndex, insns, inLhs, inTop, frame, depth>>
  BY DEF vars, tables, names, where
<1>2. CodeOK' /\ ContextsOK' /\ NumbersOK' BY <1>1 DEF IInv, CodeOK, ContextsOK, NumbersOK
<1>3. TablesOK' /\ FreshOK' /\ DepthOK' = DepthOK BY <1>1 DEF IInv, TablesOK, FreshOK, DepthOK, Top
<1>4. View' = View BY <1>1 DEF View
<1>. QED BY <1>1, <1>2, <1>3, <1>4 DEF IInv

LEMMA StartsRight == Init => IInv
PROOF
<1>. SUFFICES ASSUME Init PROVE IInv OBVIOUS
<1>. USE DEF Init
<1>1. CodeOK BY DEF CodeOK, IsSequence
<1>2. ContextsOK
  <2>1. PICK c : c = RootContext OBVIOUS
  <2>2. IsSequence(c) /\ c # <<>> /\ Len(c) = 1 /\ c[1] = RootScope /\ ScopeOK(RootScope) BY <2>1, RootFacts
  <2>3. DOMAIN c = 1..1 BY <2>2, SequenceBasics
  <2>. QED BY <2>1, <2>2, <2>3 DEF ContextsOK
<1>3. NumbersOK
  <2>1. PICK d : d = frame OBVIOUS
  <2>2. d.kind = "none" /\ d.begun = 0 /\ DOMAIN d = {"kind", "params", "begun"} BY <2>1
  <2>3. depth = 0 /\ nextTmp = 0 /\ nextIndex = 0 OBVIOUS
  <2>4. inLhs \in BOOLEAN /\ inTop \in BOOLEAN OBVIOUS
  <2>5. frame.kind \in {"none", "def", "entry"} /\ frame.begun \in Nat /\ DOMAIN frame = {"kind", "params", "begun"}
    BY ONLY <2>1, <2>2
  <2>. QED BY ONLY <2>3, <2>4, <2>5 DEF NumbersOK
<1>4. TablesOK BY DEF TablesOK
<1>5. FreshOK BY DEF FreshOK
<1>. QED BY <1>1, <1>2, <1>3, <1>4, <1>5 DEF IInv

LEMMA KeepsInvariant ==
  ASSUME Programs \subseteq ProgramTrees(AllTrees), IInv, [Next]_vars
  PROVE  IInv'
PROOF
<1>1. CASE GenerateCode BY <1>1, GenerateCodeStep
<1>2. CASE Step
  <2>1. CASE FreeTmp \/ EmitCode \/ SaveTmp \/ VisitConstant \/ VisitNew \/ VisitAccessPath \/ FollowField
    BY <2>1, FreeTmpStep, EmitCodeStep, SaveTmpStep, VisitConstantStep, VisitNewStep, VisitAccessPathStep, FollowFieldStep
  <2>2. CASE LoadPath \/ VisitBinary \/ ApplyOperator \/ VisitNot \/ VisitBlock \/ EndBlock
    BY <2>2, LoadPathStep, VisitBinaryStep, ApplyOperatorStep, VisitNotStep, VisitBlockStep, EndBlockStep
  <2>3. CASE VisitAssignment \/ AssignTo \/ StoreValue \/ VisitConditional \/ VisitLoop
    BY <2>3, VisitAssignmentStep, AssignToStep, StoreValueStep, VisitConditionalStep, VisitLoopStep
  <2>4. CASE VisitCall \/ NextArgument \/ PushArg \/ DoCall
    BY <2>4, VisitCallStep, NextArgumentStep, PushArgStep, DoCallStep
  <2>5. CASE VisitTypeDef \/ AddFunction \/ VisitFunctionDef \/ EndFunctionDef \/ VisitEntry \/ EndEntry
    BY <2>5, VisitTypeDefStep, AddFunctionStep, VisitFunctionDefStep, EndFunctionDefStep, VisitEntryStep, EndEntryStep
  <2>. QED BY <1>2, <2>1, <2>2, <2>3, <2>4, <2>5 DEF Step
<1>3. CASE Idle \/ UNCHANGED vars BY <1>3, StutterStep DEF Idle
<1>. QED BY <1>1, <1>2, <1>3 DEF Next

\* Type correctness, whatever the programs.
THEOREM TypeCorrect ==
  ASSUME Programs \subseteq ProgramTrees(AllTrees)
  PROVE  Spec => []TypeOK
PROOF
<1>1. IInv => TypeOK
  <2>. SUFFICES ASSUME IInv PROVE TypeOK OBVIOUS
  <2>1. phase \in {"ready", "generating", "done", "error"} BY DEF IInv
  <2>2. ctx # <<>> /\ \A i \in DOMAIN ctx : IsScope(ctx[i]) BY DEF IInv, ContextsOK, ScopeOK
  <2>3. \A i \in DOMAIN insns : insns[i].src \in Operands /\ insns[i].dst \in Operands BY DEF IInv, CodeOK, Typed
  <2>. QED BY <2>1, <2>2, <2>3 DEF IInv, NumbersOK, TypeOK
<1>. QED BY StartsRight, KeepsInvariant, <1>1, PTL DEF Spec

=============================================================================
