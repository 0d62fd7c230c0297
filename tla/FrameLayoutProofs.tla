------------------------- MODULE FrameLayoutProofs -------------------------
(***************************************************************************)
(* Proofs about FrameLayout, for every set of names and every bound.       *)
(*                                                                         *)
(* The invariant is about the stack of contexts as a whole.  A scope keeps *)
(* its own variables below the arguments pushed on it (ScopeOK), and every *)
(* scope opened above it starts where it ends (Above).  Opening, closing   *)
(* and extending the innermost scope preserve both (three lemmas), which   *)
(* is all the actions do to ctx.                                           *)
(***************************************************************************)
EXTENDS FrameLayout, SequenceTheorems, WellFoundedInduction, TLAPS

\* Where the variables of a scope end and the arguments pushed on it begin.
Base(s) == s.next - Word * Len(s.args)

ScopeOK(s) ==
  /\ s.kind = "root" => Bound(s) = {}
  /\ s.kind \in {"root", "params"} => s.next = 12
  /\ s.kind = "params" => \A x \in Bound(s) : s.vars[x] <= -8
  /\ s.kind \notin {"root", "params"} => \A x \in Bound(s) : s.vars[x] \in 12..(Base(s) - Word)
  /\ \A x, y \in Bound(s) : s.vars[x] = s.vars[y] => x = y
  /\ Base(s) >= 12
  /\ s.arity = NoCall => s.args = <<>>
  /\ s.arity # NoCall => s.kind \in {"body", "block"} /\ Len(s.args) <= s.arity

\* What holds of a scope t opened, directly or not, inside s.
Above(s, t) ==
  /\ s.next <= Base(t)
  /\ \A x \in Bound(t) : t.vars[x] > 0 => t.vars[x] >= s.next
  /\ t.kind # "root"
  /\ t.kind = "params" => s.kind = "root"
  /\ t.kind = "body" => s.kind \in {"root", "params"}

\* What holds of t when s is the scope it was opened in.
Inside(s, t) ==
  /\ t.kind = "block" => Base(t) = s.next
  /\ t.kind = "tmp" => Base(t) = s.next + Word

CtxOK(c) ==
  /\ c \in Seq(Scopes) /\ c # <<>>
  /\ c[1].kind = "root"
  /\ \A i \in 1..(Len(c) - 1) : Inside(c[i], c[i + 1])
  /\ \A i \in 1..Len(c) : ScopeOK(c[i])
  /\ \A i, j \in 1..Len(c) : i < j => Above(c[i], c[j])

\* The arguments pushed on a scope are contiguous, from its base on.
ArgsInPlace(s) == \A a \in 1..Len(s.args) : s.args[a] = Base(s) + Word * (a - 1)

IInv ==
  /\ TypeOK
  /\ CtxOK(ctx)
  /\ Accounting
  /\ leaked = 0 => \A i \in 1..Len(ctx) : ArgsInPlace(ctx[i])
  /\ phase = "idle" => \A i \in 1..Len(ctx) : ctx[i].kind \in {"root", "params"}
  /\ phase = "def" => \A i \in 1..Len(ctx) :
                        ctx[i].kind = "params" => Bound(ctx[i]) \subseteq ToSet(params)

-----------------------------------------------------------------------------
(* Sequences used as stacks. *)

\* What Append, the push of openScope(), gives.
LEMMA PushStack ==
  ASSUME NEW S, NEW c \in Seq(S), NEW e \in S
  PROVE  /\ Append(c, e) \in Seq(S) /\ Append(c, e) # <<>>
         /\ Len(Append(c, e)) = Len(c) + 1
         /\ Append(c, e)[Len(c) + 1] = e
         /\ \A i \in 1..Len(c) : Append(c, e)[i] = c[i]
OBVIOUS

\* What Front, the pop of closeScope(), gives.
LEMMA PopStack ==
  ASSUME NEW S, NEW c \in Seq(S), c # <<>>
  PROVE  /\ Front(c) \in Seq(S)
         /\ Len(c) \in Nat \ {0}
         /\ Len(Front(c)) = Len(c) - 1
         /\ \A i \in 1..(Len(c) - 1) : Front(c)[i] = c[i]
<1>1. Len(c) \in Nat \ {0}
  OBVIOUS
<1>2. Len(c) - 1 \in Int /\ \A i \in 1..(Len(c) - 1) : c[i] \in S
  BY <1>1
<1> DEFINE n == Len(c) - 1
<1>3. /\ SubSeq(c, 1, n) \in Seq(S)
      /\ Len(SubSeq(c, 1, n)) = IF 1 <= n THEN n - 1 + 1 ELSE 0
      /\ \A i \in 1..(n - 1 + 1) : SubSeq(c, 1, n)[i] = c[1 + i - 1]
  <2> HIDE DEF n
  <2> QED
    BY <1>2, SubSeqProperties DEF n
<1>4. n \in Nat /\ n - 1 + 1 = n /\ \A i \in 1..n : 1 + i - 1 = i
  BY <1>1
<1>5. /\ Len(SubSeq(c, 1, n)) = n
      /\ \A i \in 1..n : SubSeq(c, 1, n)[i] = c[i]
  BY <1>3, <1>4
<1> QED
  BY <1>1, <1>3, <1>5 DEF Front

\* The innermost scope replaced, as allocateVar and a push of an argument do.
LEMMA ReplaceTop ==
  ASSUME NEW S, NEW c \in Seq(S), c # <<>>, NEW e \in S
  PROVE  /\ Append(Front(c), e) \in Seq(S) /\ Append(Front(c), e) # <<>>
         /\ Len(Append(Front(c), e)) = Len(c)
         /\ Append(Front(c), e)[Len(c)] = e
         /\ \A i \in 1..(Len(c) - 1) : Append(Front(c), e)[i] = c[i]
<1>1. /\ Front(c) \in Seq(S) /\ Len(c) \in Nat \ {0}
      /\ Len(Front(c)) = Len(c) - 1
      /\ \A i \in 1..(Len(c) - 1) : Front(c)[i] = c[i]
  BY PopStack
<1>2. /\ Append(Front(c), e) \in Seq(S) /\ Append(Front(c), e) # <<>>
      /\ Len(Append(Front(c), e)) = Len(Front(c)) + 1
      /\ Append(Front(c), e)[Len(Front(c)) + 1] = e
      /\ \A i \in 1..Len(Front(c)) : Append(Front(c), e)[i] = Front(c)[i]
  BY <1>1, PushStack
<1> QED
  BY <1>1, <1>2

\* The innermost of a stack of contexts is a scope, and it is legal.
LEMMA InnermostOK ==
  ASSUME NEW c, CtxOK(c)
  PROVE  /\ Len(c) \in Nat \ {0}
         /\ c[Len(c)] \in Scopes
         /\ ScopeOK(c[Len(c)])
         /\ Base(c[Len(c)]) \in Int /\ c[Len(c)].next \in Int
         /\ 12 <= Base(c[Len(c)]) /\ Base(c[Len(c)]) <= c[Len(c)].next
<1>1. Len(c) \in Nat \ {0} /\ c[Len(c)] \in Scopes /\ ScopeOK(c[Len(c)])
  BY DEF CtxOK
<1>2. c[Len(c)].next \in Int /\ Len(c[Len(c)].args) \in Nat
  BY <1>1 DEF Scopes
<1> QED
  BY <1>1, <1>2 DEF ScopeOK, Base, Word

\* Opening a legal scope above the innermost one keeps the stack legal.
LEMMA OpenKeeps ==
  ASSUME NEW c, CtxOK(c), NEW s \in Scopes, ScopeOK(s), Above(c[Len(c)], s),
         Inside(c[Len(c)], s)
  PROVE  CtxOK(Append(c, s))
<1> DEFINE n == Len(c)  d == Append(c, s)
<1>1. n \in Nat \ {0} /\ c[n] \in Scopes /\ Base(c[n]) <= c[n].next
      /\ Base(c[n]) \in Int /\ c[n].next \in Int
  BY InnermostOK
<1>2. c \in Seq(Scopes)
  BY DEF CtxOK
<1>3. /\ d \in Seq(Scopes) /\ d # <<>> /\ Len(d) = n + 1 /\ d[n + 1] = s
      /\ \A i \in 1..n : d[i] = c[i]
  BY <1>2, PushStack
<1>4. \A i \in 1..n : Above(c[i], s)
  <2> SUFFICES ASSUME NEW i \in 1..n  PROVE Above(c[i], s)
    OBVIOUS
  <2>1. CASE i = n
    BY <2>1
  <2>2. CASE i # n
    <3>1. Above(c[i], c[n]) /\ c[i] \in Scopes
      BY <1>1, <1>2, <2>2 DEF CtxOK
    <3>2. /\ c[i].next \in Int /\ c[n].next \in Int /\ Base(s) \in Int
          /\ \A x \in Bound(s) : s.vars[x] \in Int
      BY <1>1, <3>1 DEF Scopes, Base, Bound, Word
    <3>3. c[i].next <= c[n].next
      BY <1>1, <3>1, <3>2 DEF Above
    <3>4. c[i].next <= Base(s) /\ \A x \in Bound(s) : s.vars[x] > 0 => s.vars[x] >= c[i].next
      BY <3>2, <3>3 DEF Above
    <3> QED
      BY <3>1, <3>4 DEF Above
  <2> QED
    BY <2>1, <2>2
<1>5. \A i \in 1..(n + 1) : ScopeOK(d[i])
  BY <1>1, <1>3 DEF CtxOK
<1>7. \A i \in 1..n : Inside(d[i], d[i + 1])
  <2> SUFFICES ASSUME NEW i \in 1..n  PROVE Inside(d[i], d[i + 1])
    OBVIOUS
  <2>1. CASE i = n
    BY <1>3, <2>1
  <2>2. CASE i # n
    BY <1>1, <1>3, <2>2 DEF CtxOK
  <2> QED
    BY <2>1, <2>2
<1>8. d[1].kind = "root"
  BY <1>1, <1>3 DEF CtxOK
<1>6. ASSUME NEW i \in 1..(n + 1), NEW j \in 1..(n + 1), i < j  PROVE Above(d[i], d[j])
  <2>1. i \in 1..n /\ d[i] = c[i]
    BY <1>1, <1>3, <1>6
  <2>2. CASE j = n + 1
    BY <1>3, <1>4, <2>1, <2>2
  <2>3. CASE j # n + 1
    <3>1. j \in 1..n /\ d[j] = c[j]
      BY <1>1, <1>3, <2>3
    <3> QED
      BY <1>6, <2>1, <3>1 DEF CtxOK
  <2> QED
    BY <2>2, <2>3
<1> QED
  BY <1>1, <1>3, <1>5, <1>6, <1>7, <1>8 DEF CtxOK

\* Closing the innermost scope keeps the stack legal, if one is left.
LEMMA CloseKeeps ==
  ASSUME NEW c, CtxOK(c), Len(c) > 1
  PROVE  /\ CtxOK(Front(c))
         /\ Len(Front(c)) = Len(c) - 1
         /\ \A i \in 1..(Len(c) - 1) : Front(c)[i] = c[i]
<1>1. c \in Seq(Scopes) /\ c # <<>>
  BY DEF CtxOK
<1>2. /\ Front(c) \in Seq(Scopes) /\ Len(c) \in Nat \ {0} /\ Len(Front(c)) = Len(c) - 1
      /\ \A i \in 1..(Len(c) - 1) : Front(c)[i] = c[i]
  BY <1>1, PopStack
<1>3. Front(c) # <<>>
  BY <1>2
<1> QED
  BY <1>2, <1>3 DEF CtxOK

\* So does replacing it by a legal one that differs in its call alone.
LEMMA ReplaceKeeps ==
  ASSUME NEW c, CtxOK(c), NEW s \in Scopes, ScopeOK(s),
         s.kind = c[Len(c)].kind, s.vars = c[Len(c)].vars, Base(s) = Base(c[Len(c)])
  PROVE  /\ CtxOK(Append(Front(c), s))
         /\ Len(Append(Front(c), s)) = Len(c)
         /\ Append(Front(c), s)[Len(c)] = s
         /\ \A i \in 1..(Len(c) - 1) : Append(Front(c), s)[i] = c[i]
<1> DEFINE n == Len(c)  d == Append(Front(c), s)
<1>1. c \in Seq(Scopes) /\ c # <<>> /\ n \in Nat \ {0}
  BY InnermostOK DEF CtxOK
<1>2. /\ d \in Seq(Scopes) /\ d # <<>> /\ Len(d) = n /\ d[n] = s
      /\ \A i \in 1..(n - 1) : d[i] = c[i]
  BY <1>1, ReplaceTop
<1>3. \A i \in 1..(n - 1) : Above(c[i], s)
  BY <1>1 DEF CtxOK, Above, Bound
<1>4. \A i \in 1..n : ScopeOK(d[i])
  BY <1>1, <1>2 DEF CtxOK
<1>5. ASSUME NEW i \in 1..n, NEW j \in 1..n, i < j  PROVE Above(d[i], d[j])
  <2>1. i \in 1..(n - 1) /\ d[i] = c[i]
    BY <1>1, <1>2, <1>5
  <2>2. CASE j = n
    BY <1>2, <1>3, <2>1, <2>2
  <2>3. CASE j # n
    <3>1. d[j] = c[j]
      BY <1>1, <1>2, <2>3
    <3> QED
      BY <1>5, <2>1, <3>1 DEF CtxOK
  <2> QED
    BY <2>2, <2>3
<1>6. \A i \in 1..(n - 1) : Inside(d[i], d[i + 1])
  <2> SUFFICES ASSUME NEW i \in 1..(n - 1)  PROVE Inside(d[i], d[i + 1])
    OBVIOUS
  <2>1. Inside(c[i], c[i + 1]) /\ d[i] = c[i]
    BY <1>1, <1>2 DEF CtxOK
  <2>2. CASE i + 1 = n
    BY <1>2, <2>1, <2>2 DEF Inside
  <2>3. CASE i + 1 # n
    BY <1>1, <1>2, <2>1, <2>3
  <2> QED
    BY <2>2, <2>3
<1>7. d[1].kind = "root"
  BY <1>1, <1>2 DEF CtxOK
<1> QED
  BY <1>1, <1>2, <1>4, <1>5, <1>6, <1>7 DEF CtxOK

-----------------------------------------------------------------------------
(* Bindings. *)

\* A name that occurs in a list of parameters or declarations has a first
\* place in it.
LEMMA FirstIndexOK ==
  ASSUME NEW s \in Seq(Names), NEW x \in ToSet(s)
  PROVE  FirstIndex(s, x) \in 1..Len(s) /\ s[FirstIndex(s, x)] = x
<1> DEFINE P == {i \in 1..Len(s) : s[i] = x}
<1>1. P # {} /\ P \subseteq Nat /\ DOMAIN s = 1..Len(s)
  BY DEF ToSet
<1>2. PICK i \in P : \A j \in P : ~(<<j, i>> \in OpToRel(<, Nat))
  BY <1>1, WFMin, NatLessThanWellFounded
<1>3. \A j \in P : ~(j < i)
  BY <1>1, <1>2 DEF OpToRel
<1>4. i \in DOMAIN s /\ s[i] = x /\ \A j \in 1..(i - 1) : s[j] # x
  BY <1>1, <1>3
<1> QED
  BY <1>1, <1>4 DEF FirstIndex

\* The scope of the parameters is legal, and binds nothing else.
LEMMA ParamsScope ==
  ASSUME NEW ps \in Seq(Names)
  PROVE  LET s == NewScope("params", ParamBindings(ps), RootScope.next)
         IN  /\ s \in Scopes /\ ScopeOK(s) /\ s.next = 12 /\ s.args = <<>>
             /\ s.kind = "params" /\ s.arity = NoCall /\ Base(s) = 12
             /\ Bound(s) \subseteq ToSet(ps) /\ \A x \in Bound(s) : s.vars[x] <= -8
<1> DEFINE s == NewScope("params", ParamBindings(ps), RootScope.next)
<1>1. \A x \in ToSet(ps) : FirstIndex(ps, x) \in 1..Len(ps) /\ ps[FirstIndex(ps, x)] = x
  BY FirstIndexOK
<1>2. RootScope.next = 12
  BY DEF RootScope, NewScope
<1>3. /\ s.kind = "params" /\ s.vars = ParamBindings(ps) /\ s.next = 12
      /\ s.args = <<>> /\ s.arity = NoCall
  BY <1>2 DEF NewScope
<1>4. Len(ps) \in Nat
  OBVIOUS
<1>5. \A x \in ToSet(ps) : ParamOffset(FirstIndex(ps, x)) \in Int /\ ParamOffset(FirstIndex(ps, x)) <= -8
  BY <1>1, <1>4 DEF ParamOffset, Word
<1>6. ParamBindings(ps) \in [AllNames -> Int]
  BY <1>5 DEF ParamBindings, Unbound
<1>7. s \in Scopes
  BY <1>2, <1>6 DEF NewScope, Scopes, Kinds, NoCall
<1>8. Bound(s) \subseteq ToSet(ps) /\ \A x \in Bound(s) : s.vars[x] = ParamOffset(FirstIndex(ps, x))
  BY <1>3 DEF Bound, ParamBindings
<1>9. \A x, y \in Bound(s) : s.vars[x] = s.vars[y] => x = y
  BY <1>1, <1>4, <1>8 DEF ParamOffset, Word
<1>10. Base(s) = 12
  BY <1>3 DEF Base, Word
<1>11. \A x \in Bound(s) : s.vars[x] <= -8
  BY <1>5, <1>8
<1> HIDE DEF s
<1>12. ScopeOK(s)
  BY <1>3, <1>9, <1>10, <1>11 DEF ScopeOK
<1> QED
  BY <1>3, <1>7, <1>8, <1>10, <1>11, <1>12 DEF s

\* The scope of a block is legal when its declarations are distinct, and
\* its variables start where the enclosing scope ends.
LEMMA BlockScope ==
  ASSUME NEW kind \in {"body", "block"}, NEW ds \in Seq(Names), IsInjective(ds),
         NEW base \in Int, base >= 12
  PROVE  LET s == NewScope(kind, DeclBindings(ds, base), base + Word * Len(ds))
         IN  /\ s \in Scopes /\ ScopeOK(s) /\ s.kind = kind
             /\ s.next = base + Word * Len(ds) /\ Base(s) = s.next /\ base <= s.next
             /\ s.args = <<>> /\ \A x \in Bound(s) : s.vars[x] >= base
<1> DEFINE s == NewScope(kind, DeclBindings(ds, base), base + Word * Len(ds))
<1>1. \A x \in ToSet(ds) : FirstIndex(ds, x) \in 1..Len(ds) /\ ds[FirstIndex(ds, x)] = x
  BY FirstIndexOK
<1>2. /\ s.kind = kind /\ s.vars = DeclBindings(ds, base) /\ s.next = base + Word * Len(ds)
      /\ s.args = <<>> /\ s.arity = NoCall
  BY DEF NewScope
<1>3. Len(ds) \in Nat /\ s.next \in Int /\ base <= s.next
  BY <1>2 DEF Word
<1>4. \A x \in ToSet(ds) : base + Word * (FirstIndex(ds, x) - 1) \in base..(s.next - Word)
  BY <1>1, <1>2, <1>3 DEF Word
<1>5. DeclBindings(ds, base) \in [AllNames -> Int]
  BY <1>3, <1>4 DEF DeclBindings, Unbound, Word
<1>6. s \in Scopes
  BY <1>2, <1>3, <1>5 DEF NewScope, Scopes, Kinds, NoCall
<1>7. \A x \in Bound(s) : x \in ToSet(ds) /\ s.vars[x] = base + Word * (FirstIndex(ds, x) - 1)
  BY <1>2 DEF Bound, DeclBindings
<1>8. \A x, y \in Bound(s) : s.vars[x] = s.vars[y] => x = y
  BY <1>1, <1>3, <1>7 DEF Word
<1>9. Base(s) = s.next
  BY <1>2, <1>3 DEF Base, Word
<1>10. \A x \in Bound(s) : s.vars[x] \in base..(s.next - Word)
  BY <1>4, <1>7
<1> HIDE DEF s
<1>11. ScopeOK(s)
  BY <1>2, <1>3, <1>8, <1>9, <1>10 DEF ScopeOK, Word
<1> QED
  BY <1>2, <1>3, <1>6, <1>9, <1>10, <1>11 DEF s, Word

\* The scope of a temporary is legal and has its one slot.
LEMMA TmpScope ==
  ASSUME NEW base \in Int, base >= 12
  PROVE  LET s == NewScope("tmp", [RootScope.vars EXCEPT ![TmpName] = base], base + Word)
         IN  /\ s \in Scopes /\ ScopeOK(s) /\ s.kind = "tmp"
             /\ s.next = base + Word /\ Base(s) = s.next /\ base <= s.next
             /\ s.args = <<>> /\ \A x \in Bound(s) : s.vars[x] >= base
<1> DEFINE s == NewScope("tmp", [RootScope.vars EXCEPT ![TmpName] = base], base + Word)
<1>1. RootScope.vars = [x \in AllNames |-> Unbound]
  BY DEF RootScope, NewScope
<1>2. /\ s.kind = "tmp" /\ s.vars = [RootScope.vars EXCEPT ![TmpName] = base]
      /\ s.next = base + Word /\ s.args = <<>> /\ s.arity = NoCall
  BY DEF NewScope
<1>3. s \in Scopes
  <2> DEFINE v == [RootScope.vars EXCEPT ![TmpName] = base]
  <2>1. RootScope.vars \in [AllNames -> Int]
    BY <1>1 DEF Unbound
  <2>2. v \in [AllNames -> Int]
    BY <2>1
  <2> HIDE DEF v
  <2>3. NewScope("tmp", v, base + Word) \in Scopes
    BY <2>2 DEF NewScope, Scopes, Kinds, NoCall, Word
  <2> QED
    BY <2>3 DEF v
<1>4. \A x \in Bound(s) : x = TmpName /\ s.vars[x] = base
  BY <1>1, <1>2 DEF Bound, AllNames
<1>5. Base(s) = s.next /\ base <= s.next /\ s.next \in Int
  BY <1>2 DEF Base, Word
<1> HIDE DEF s
<1>6. ScopeOK(s)
  BY <1>2, <1>4, <1>5 DEF ScopeOK, Word
<1> QED
  BY <1>2, <1>3, <1>4, <1>5, <1>6 DEF s

-----------------------------------------------------------------------------
(* The invariant. *)

LEMMA RootScopeOK ==
  /\ RootScope \in Scopes /\ ScopeOK(RootScope)
  /\ RootScope.kind = "root" /\ RootScope.next = 12 /\ RootScope.args = <<>>
  /\ Base(RootScope) = 12
<1>1. /\ RootScope.kind = "root" /\ RootScope.vars = [x \in AllNames |-> Unbound]
      /\ RootScope.next = 12 /\ RootScope.args = <<>> /\ RootScope.arity = NoCall
  BY DEF RootScope, NewScope
<1>2. RootScope \in Scopes
  BY DEF RootScope, NewScope, Scopes, Kinds, Unbound, NoCall
<1>3. Bound(RootScope) = {}
  BY <1>1 DEF Bound
<1>4. Base(RootScope) = 12
  BY <1>1 DEF Base, Word
<1>5. ScopeOK(RootScope)
  BY <1>1, <1>3, <1>4 DEF ScopeOK
<1> QED
  BY <1>1, <1>2, <1>4, <1>5

LEMMA InitIInv == Init => IInv
<1> SUFFICES ASSUME Init  PROVE IInv
  OBVIOUS
<1>1. ctx \in Seq(Scopes) /\ ctx # <<>> /\ Len(ctx) = 1 /\ ctx[1] = RootScope
  BY RootScopeOK DEF Init
<1>2. CtxOK(ctx)
  BY <1>1, RootScopeOK DEF CtxOK
<1>3. TypeOK
  BY <1>1 DEF Init, TypeOK
<1>4. \A i \in 1..Len(ctx) : ArgsInPlace(ctx[i]) /\ ctx[i].kind \in {"root", "params"}
  BY <1>1, RootScopeOK DEF ArgsInPlace
<1> QED
  BY <1>2, <1>3, <1>4 DEF Init, IInv, Accounting, Generating

\* A new scope above the innermost one, ESP moved by as much as nextOffset.
LEMMA OpenStep ==
  ASSUME IInv, Generating, UNCHANGED <<phase, defs, params, leaked>>,
         NEW s \in Scopes, ScopeOK(s), s.args = <<>>, s.kind \in {"body", "block", "tmp"},
         Top.next <= s.next, \A x \in Bound(s) : s.vars[x] >= Top.next,
         s.kind = "body" => Top.kind \in {"root", "params"}, Inside(Top, s),
         ctx' = Append(ctx, s), depth' = depth + (s.next - Top.next)
  PROVE  IInv'
<1>1. CtxOK(ctx) /\ TypeOK /\ Accounting
  BY DEF IInv
<1>2. /\ Len(ctx) \in Nat \ {0} /\ Top \in Scopes /\ Top.next \in Int /\ s.next \in Int
      /\ ctx[Len(ctx)] = Top
  BY <1>1, InnermostOK DEF Top, Scopes
<1>3. Base(s) = s.next
  BY <1>2 DEF Base, Word
<1>4. Above(ctx[Len(ctx)], s)
  BY <1>2, <1>3 DEF Above
<1>5. CtxOK(ctx')
  BY <1>1, <1>2, <1>4, OpenKeeps
<1>6. ctx \in Seq(Scopes)
  BY <1>1 DEF TypeOK
<1>7. /\ ctx' \in Seq(Scopes) /\ ctx' # <<>> /\ Len(ctx') = Len(ctx) + 1
      /\ ctx'[Len(ctx) + 1] = s /\ \A i \in 1..Len(ctx) : ctx'[i] = ctx[i]
  BY <1>6, PushStack
<1>8. TypeOK'
  BY <1>1, <1>2, <1>7 DEF TypeOK
<1>9. Accounting'
  <2> DEFINE m == Top.next  n == s.next
  <2>1. Top'.next = n
    BY <1>7 DEF Top
  <2>2. depth = Top.next - Word + leaked /\ depth \in Int /\ leaked \in Nat
    BY <1>1 DEF Accounting, TypeOK
  <2>3. m \in Int /\ n \in Int /\ depth' = depth + (n - m)
    BY <1>2
  <2> HIDE DEF m, n
  <2>4. depth' = n - Word + leaked
    BY <2>2, <2>3 DEF Word, m
  <2> QED
    BY <2>1, <2>4 DEF Accounting
<1>10. \A i \in 1..Len(ctx') : i \in 1..Len(ctx) \/ ctx'[i] = s
  BY <1>2, <1>7
<1>11. ArgsInPlace(s)
  BY DEF ArgsInPlace
<1>12. leaked' = 0 => \A i \in 1..Len(ctx') : ArgsInPlace(ctx'[i])
  BY <1>7, <1>10, <1>11 DEF IInv
<1>13. phase' = "def" => \A i \in 1..Len(ctx') :
         ctx'[i].kind = "params" => Bound(ctx'[i]) \subseteq ToSet(params')
  BY <1>7, <1>10 DEF IInv
<1>14. phase' # "idle"
  BY DEF Generating
<1> QED
  BY <1>5, <1>8, <1>9, <1>12, <1>13, <1>14 DEF IInv

\* The innermost scope closed, ESP moved back by as much.
LEMMA CloseStep ==
  ASSUME IInv, Generating, UNCHANGED <<phase, defs, params, leaked>>, Len(ctx) > 1,
         ctx' = CloseScope, depth' = depth - (Top.next - ctx[Len(ctx) - 1].next)
  PROVE  IInv'
<1>1. CtxOK(ctx) /\ TypeOK /\ Accounting
  BY DEF IInv
<1>2. /\ Len(ctx) \in Nat \ {0} /\ Top.next \in Int
  BY <1>1, InnermostOK DEF Top
<1>3. /\ CtxOK(ctx') /\ Len(ctx') = Len(ctx) - 1
      /\ \A i \in 1..(Len(ctx) - 1) : ctx'[i] = ctx[i]
  BY <1>1, CloseKeeps DEF CloseScope
<1>4. ctx[Len(ctx) - 1] \in Scopes /\ ctx'[Len(ctx')] = ctx[Len(ctx) - 1]
  BY <1>1, <1>2, <1>3 DEF CtxOK
<1>5. ctx[Len(ctx) - 1].next \in Int
  BY <1>4 DEF Scopes
<1>6. TypeOK'
  BY <1>1, <1>2, <1>3, <1>5 DEF TypeOK, CtxOK
<1>7. Accounting'
  <2>1. Top' = ctx[Len(ctx) - 1]
    BY <1>4 DEF Top
  <2>2. depth = Top.next - Word + leaked /\ depth \in Int /\ leaked \in Nat
    BY <1>1 DEF Accounting, TypeOK
  <2> DEFINE m == Top.next  n == ctx[Len(ctx) - 1].next
  <2>3. Top'.next = n /\ leaked' = leaked
    BY <2>1
  <2>4. m \in Int /\ n \in Int /\ depth' = depth - (m - n)
    BY <1>2, <1>5
  <2> HIDE DEF m, n
  <2>5. depth' = n - Word + leaked
    BY <2>2, <2>4 DEF Word, m
  <2> QED
    BY <2>3, <2>5 DEF Accounting
<1>8. \A i \in 1..Len(ctx') : i \in 1..Len(ctx) /\ ctx'[i] = ctx[i]
  BY <1>2, <1>3
<1>9. phase' # "idle"
  BY DEF Generating
<1> QED
  BY <1>3, <1>6, <1>7, <1>8, <1>9 DEF IInv

\* The call of the innermost scope moved on, ESP with it.
LEMMA CallStep ==
  ASSUME IInv, Generating, UNCHANGED <<phase, defs, params, leaked>>,
         NEW s \in Scopes, ScopeOK(s), s.kind = Top.kind, s.vars = Top.vars,
         Base(s) = Base(Top), leaked = 0 => ArgsInPlace(s),
         ctx' = WithTop(s), depth' = depth + (s.next - Top.next)
  PROVE  IInv'
<1>1. CtxOK(ctx) /\ TypeOK /\ Accounting
  BY DEF IInv
<1>2. Len(ctx) \in Nat \ {0} /\ Top.next \in Int /\ s.next \in Int /\ ctx[Len(ctx)] = Top
  BY <1>1, InnermostOK DEF Top, Scopes
<1>3. /\ CtxOK(ctx') /\ Len(ctx') = Len(ctx) /\ ctx'[Len(ctx)] = s
      /\ \A i \in 1..(Len(ctx) - 1) : ctx'[i] = ctx[i]
  BY <1>1, <1>2, ReplaceKeeps DEF WithTop
<1>4. TypeOK'
  BY <1>1, <1>2, <1>3 DEF TypeOK, CtxOK
<1>5. Accounting'
  BY <1>1, <1>2, <1>3 DEF Accounting, Top, TypeOK, Generating, Word
<1>6. \A i \in 1..Len(ctx') :
         /\ i \in 1..Len(ctx) /\ ctx'[i].kind = ctx[i].kind
         /\ Bound(ctx'[i]) = Bound(ctx[i]) /\ ctx'[i] \in {ctx[i], s}
  <2> SUFFICES ASSUME NEW i \in 1..Len(ctx')
               PROVE  /\ i \in 1..Len(ctx) /\ ctx'[i].kind = ctx[i].kind
                      /\ Bound(ctx'[i]) = Bound(ctx[i]) /\ ctx'[i] \in {ctx[i], s}
    OBVIOUS
  <2>1. i \in 1..Len(ctx)
    BY <1>3
  <2>2. CASE i = Len(ctx)
    <3>1. ctx'[i] = s /\ ctx[i] = Top
      BY <1>2, <1>3, <2>2
    <3> QED
      BY <2>1, <3>1 DEF Bound
  <2>3. CASE i # Len(ctx)
    <3>1. ctx'[i] = ctx[i]
      BY <1>2, <1>3, <2>1, <2>3
    <3> QED
      BY <2>1, <3>1
  <2> QED
    BY <2>2, <2>3
<1>7. leaked' = 0 => \A i \in 1..Len(ctx') : ArgsInPlace(ctx'[i])
  BY <1>6 DEF IInv
<1>8. phase' = "def" => \A i \in 1..Len(ctx') :
         ctx'[i].kind = "params" => Bound(ctx'[i]) \subseteq ToSet(params')
  <2> SUFFICES ASSUME phase = "def", NEW i \in 1..Len(ctx'), ctx'[i].kind = "params"
               PROVE  Bound(ctx'[i]) \subseteq ToSet(params)
    OBVIOUS
  <2>1. i \in 1..Len(ctx) /\ ctx[i].kind = "params"
    BY <1>6
  <2>2. Bound(ctx'[i]) = Bound(ctx[i])
    BY <1>2, <1>3 DEF Bound
  <2> QED
    BY <2>1, <2>2 DEF IInv
<1>9. phase' # "idle"
  BY DEF Generating
<1> QED
  BY <1>3, <1>4, <1>5, <1>7, <1>8, <1>9 DEF IInv

\* A CodeGenError leaves the contexts as they are.
LEMMA ErrorStep ==
  ASSUME IInv, phase' = "error", UNCHANGED <<defs, params, ctx, depth, leaked>>
  PROVE  IInv'
<1>1. TypeOK' /\ CtxOK(ctx')
  BY DEF IInv, TypeOK
<1>2. leaked' = 0 => \A i \in 1..Len(ctx') : ArgsInPlace(ctx'[i])
  BY DEF IInv
<1> QED
  BY <1>1, <1>2 DEF IInv, Accounting, Generating

-----------------------------------------------------------------------------
(* One lemma per action that changes the contexts or the frame. *)

LEMMA DefineFunctionStep == IInv /\ DefineFunction => IInv'
<1> SUFFICES ASSUME IInv, DefineFunction  PROVE IInv'
  OBVIOUS
<1> USE BoundsAssumption
<1>1. PICK ps \in NameLists :
        /\ params' = ps
        /\ ctx' = <<RootScope, NewScope("params", ParamBindings(ps), RootScope.next)>>
  BY DEF DefineFunction
<1>2. ps \in Seq(Names)
  OBVIOUS
<1> DEFINE s == NewScope("params", ParamBindings(ps), RootScope.next)
<1>3. /\ s \in Scopes /\ ScopeOK(s) /\ s.next = 12 /\ s.args = <<>>
      /\ s.kind = "params" /\ s.arity = NoCall /\ Base(s) = 12
      /\ Bound(s) \subseteq ToSet(ps) /\ \A x \in Bound(s) : s.vars[x] <= -8
  BY <1>2, ParamsScope
<1> HIDE DEF s
<1>4. /\ ctx' = <<RootScope, s>> /\ ctx' \in Seq(Scopes) /\ ctx' # <<>> /\ Len(ctx') = 2
      /\ ctx'[1] = RootScope /\ ctx'[2] = s
  BY <1>1, <1>3, RootScopeOK DEF s
<1>5. \A i \in 1..2 : i = 1 \/ i = 2
  OBVIOUS
<1>6. \A x \in Bound(s) : s.vars[x] \in Int
  BY <1>3 DEF Scopes, Bound
<1>7. Above(RootScope, s) /\ Inside(RootScope, s)
  BY <1>3, <1>6, RootScopeOK DEF Above, Inside
<1>8. \A i \in 1..Len(ctx') : ScopeOK(ctx'[i])
  BY <1>3, <1>4, <1>5, RootScopeOK
<1>9. \A i, j \in 1..Len(ctx') : i < j => Above(ctx'[i], ctx'[j])
  BY <1>4, <1>5, <1>7
<1>10. \A i \in 1..(Len(ctx') - 1) : Inside(ctx'[i], ctx'[i + 1])
  BY <1>4, <1>7
<1>11. CtxOK(ctx')
  BY <1>4, <1>8, <1>9, <1>10, RootScopeOK DEF CtxOK
<1>12. TypeOK'
  BY <1>1, <1>2, <1>4 DEF IInv, TypeOK, DefineFunction
<1>13. Accounting'
  BY <1>3, <1>4 DEF Accounting, Top, DefineFunction, Word
<1>14. \A i \in 1..Len(ctx') : ArgsInPlace(ctx'[i])
  BY <1>3, <1>4, <1>5, RootScopeOK DEF ArgsInPlace
<1>15. \A i \in 1..Len(ctx') : ctx'[i].kind = "params" => Bound(ctx'[i]) \subseteq ToSet(params')
  BY <1>1, <1>3, <1>4, <1>5, RootScopeOK
<1>16. phase' # "idle"
  BY DEF DefineFunction
<1> QED
  BY <1>11, <1>12, <1>13, <1>14, <1>15, <1>16 DEF IInv

\* Outside a call the arguments of every scope are in place: there are none
\* in the root, params and body scopes that may then be left.
LEMMA NoArgs ==
  ASSUME NEW c, CtxOK(c), NEW i \in 1..Len(c), c[i].arity = NoCall \/ c[i].kind \in {"root", "params"}
  PROVE  ArgsInPlace(c[i])
<1>1. c[i].args = <<>>
  BY DEF CtxOK, ScopeOK
<1> QED
  BY <1>1 DEF ArgsInPlace

LEMMA StartEntryStep == IInv /\ StartEntry => IInv'
<1> SUFFICES ASSUME IInv, StartEntry  PROVE IInv'
  OBVIOUS
<1>1. /\ phase = "idle" /\ phase' = "entry" /\ params' = <<>> /\ depth' = 8 /\ leaked' = 0
      /\ defs' = defs /\ ctx' = ctx
  BY DEF StartEntry
<1>2. CtxOK(ctx) /\ TypeOK /\ \A i \in 1..Len(ctx) : ctx[i].kind \in {"root", "params"}
  BY <1>1 DEF IInv
<1>3. Top.next = 12
  BY <1>2, InnermostOK DEF Top, ScopeOK
<1>4. \A i \in 1..Len(ctx) : ArgsInPlace(ctx[i])
  BY <1>2, NoArgs
<1>5. TypeOK'
  BY <1>1, <1>2 DEF TypeOK
<1>6. Accounting'
  BY <1>1, <1>3 DEF Accounting, Top, Word
<1> QED
  BY <1>1, <1>2, <1>4, <1>5, <1>6 DEF IInv

LEMMA EnterBodyStep == IInv /\ EnterBody => IInv'
<1> SUFFICES ASSUME IInv, EnterBody  PROVE IInv'
  OBVIOUS
<1> USE BoundsAssumption
<1>1. PICK ds \in NameLists :
        IF IsInjective(ds)
        THEN ctx' = OpenBlock("body", ds) /\ depth' = depth + Word * Len(ds) /\ UNCHANGED phase
        ELSE phase' = "error" /\ UNCHANGED <<ctx, depth>>
  BY DEF EnterBody
<1>2. /\ Generating /\ UNCHANGED <<defs, params, leaked>> /\ Top.kind \in {"root", "params"}
  BY DEF EnterBody, Generating
<1>3. CASE ~IsInjective(ds)
  BY <1>1, <1>2, <1>3, ErrorStep
<1>4. CASE IsInjective(ds)
  <2> DEFINE s == NewScope("body", DeclBindings(ds, Top.next), Top.next + Word * Len(ds))
  <2>1. ds \in Seq(Names) /\ Len(ds) \in Nat
    OBVIOUS
  <2>2. Top.next \in Int /\ Top.next >= 12
    BY InnermostOK DEF IInv, Top
  <2>3. /\ s \in Scopes /\ ScopeOK(s) /\ s.kind = "body" /\ s.next = Top.next + Word * Len(ds)
        /\ Top.next <= s.next /\ s.args = <<>> /\ \A x \in Bound(s) : s.vars[x] >= Top.next
    BY <1>4, <2>1, <2>2, BlockScope
  <2>4. ctx' = Append(ctx, s) /\ depth' = depth + Word * Len(ds) /\ UNCHANGED phase
    BY <1>1, <1>4 DEF OpenBlock
  <2> HIDE DEF s
  <2>5. s.next - Top.next = Word * Len(ds)
    BY <2>1, <2>2, <2>3 DEF Word
  <2>6. Inside(Top, s)
    BY <2>3 DEF Inside
  <2> QED
    BY <1>2, <2>3, <2>4, <2>5, <2>6, OpenStep
<1> QED
  BY <1>3, <1>4

LEMMA EnterBlockStep == IInv /\ EnterBlock => IInv'
<1> SUFFICES ASSUME IInv, EnterBlock  PROVE IInv'
  OBVIOUS
<1>1. Generating /\ UNCHANGED <<defs, params, depth, leaked>>
  BY DEF EnterBlock, Generating
<1>2. CASE phase' = "error" /\ UNCHANGED ctx
  BY <1>1, <1>2, ErrorStep
<1>3. CASE ctx' = OpenBlock("block", <<>>) /\ UNCHANGED phase
  <2> DEFINE s == NewScope("block", DeclBindings(<<>>, Top.next), Top.next + Word * Len(<<>>))
  <2>1. <<>> \in Seq(Names) /\ Len(<<>>) = 0 /\ IsInjective(<<>>)
    BY DEF IsInjective
  <2>2. Top.next \in Int /\ Top.next >= 12 /\ depth \in Int
    BY InnermostOK DEF IInv, Top, TypeOK
  <2>3. /\ s \in Scopes /\ ScopeOK(s) /\ s.kind = "block" /\ s.next = Top.next + Word * Len(<<>>)
        /\ Base(s) = s.next /\ s.args = <<>> /\ \A x \in Bound(s) : s.vars[x] >= Top.next
    BY <2>1, <2>2, BlockScope
  <2>4. ctx' = Append(ctx, s)
    BY <1>3 DEF OpenBlock
  <2> HIDE DEF s
  <2>5. s.next = Top.next /\ depth' = depth + (s.next - Top.next) /\ Top.next <= s.next
    BY <1>1, <2>1, <2>2, <2>3 DEF Word
  <2>6. Inside(Top, s)
    BY <2>3, <2>5 DEF Inside
  <2> QED
    BY <1>1, <1>3, <2>3, <2>4, <2>5, <2>6, OpenStep
<1> QED
  BY <1>2, <1>3 DEF EnterBlock

\* A scope that is not the root lies in another.
LEMMA NotOutermost ==
  ASSUME IInv, Top.kind # "root"
  PROVE  Len(ctx) > 1 /\ Inside(ctx[Len(ctx) - 1], Top) /\ ctx[Len(ctx) - 1].next \in Int
<1>1. CtxOK(ctx) /\ Len(ctx) \in Nat \ {0}
  BY InnermostOK DEF IInv
<1>2. Len(ctx) # 1
  BY <1>1 DEF CtxOK, Top
<1> DEFINE n == Len(ctx)  m == n - 1
<1>3. n > 1 /\ m \in 1..m /\ m \in 1..n /\ m + 1 = n
  <2>1. n \in Nat \ {0, 1}
    BY <1>1, <1>2
  <2> HIDE DEF n
  <2> QED
    BY <2>1
<1>4. Inside(ctx[m], ctx[m + 1]) /\ ctx[m] \in Scopes
  <2> HIDE DEF m
  <2>1. \A i \in 1..m : Inside(ctx[i], ctx[i + 1])
    BY <1>1 DEF CtxOK, m
  <2>2. \A i \in 1..n : ctx[i] \in Scopes
    BY <1>1 DEF CtxOK
  <2> QED
    BY <1>3, <2>1, <2>2
<1>5. ctx[m].next \in Int
  BY <1>4 DEF Scopes
<1> QED
  BY <1>3, <1>4, <1>5 DEF Top

LEMMA LeaveBlockStep == IInv /\ LeaveBlock => IInv'
<1> SUFFICES ASSUME IInv, LeaveBlock  PROVE IInv'
  OBVIOUS
<1>1. /\ Generating /\ UNCHANGED <<phase, defs, params, leaked>> /\ depth' = depth
      /\ Top.kind = "block" /\ Top.arity = NoCall /\ ctx' = CloseScope
  BY DEF LeaveBlock, Generating, AtStatement
<1>2. Len(ctx) > 1 /\ Inside(ctx[Len(ctx) - 1], Top) /\ ctx[Len(ctx) - 1].next \in Int
  BY <1>1, NotOutermost
<1>3. Top.args = <<>> /\ Top.next \in Int /\ depth \in Int
  BY <1>1, InnermostOK DEF IInv, ScopeOK, Top, TypeOK
<1>4. Top.next = ctx[Len(ctx) - 1].next
  BY <1>1, <1>2, <1>3 DEF Inside, Base, Word
<1>5. depth' = depth - (Top.next - ctx[Len(ctx) - 1].next)
  BY <1>1, <1>3, <1>4
<1> QED
  BY <1>1, <1>2, <1>5, CloseStep

LEMMA FreshTmpStep == IInv /\ FreshTmp => IInv'
<1> SUFFICES ASSUME IInv, FreshTmp  PROVE IInv'
  OBVIOUS
<1> DEFINE s == NewScope("tmp", [RootScope.vars EXCEPT ![TmpName] = Top.next], Top.next + Word)
<1>1. /\ Generating /\ UNCHANGED <<phase, defs, params, leaked>> /\ depth' = depth + Word
      /\ ctx' = Append(ctx, s)
  BY DEF FreshTmp, Generating, OpenTmp
<1>2. Top.next \in Int /\ Top.next >= 12
  BY InnermostOK DEF IInv, Top
<1>3. /\ s \in Scopes /\ ScopeOK(s) /\ s.kind = "tmp" /\ s.next = Top.next + Word
      /\ Base(s) = s.next /\ Top.next <= s.next
      /\ s.args = <<>> /\ \A x \in Bound(s) : s.vars[x] >= Top.next
  BY <1>2, TmpScope
<1> HIDE DEF s
<1>4. s.next - Top.next = Word
  BY <1>2, <1>3 DEF Word
<1>5. Inside(Top, s)
  BY <1>3 DEF Inside
<1> QED
  BY <1>1, <1>3, <1>4, <1>5, OpenStep

LEMMA FreeTmpStep == IInv /\ FreeTmp => IInv'
<1> SUFFICES ASSUME IInv, FreeTmp  PROVE IInv'
  OBVIOUS
<1>1. /\ Generating /\ UNCHANGED <<phase, defs, params, leaked>> /\ depth' = depth - Word
      /\ Top.kind = "tmp" /\ ctx' = CloseScope
  BY DEF FreeTmp, Generating
<1>2. Len(ctx) > 1 /\ Inside(ctx[Len(ctx) - 1], Top) /\ ctx[Len(ctx) - 1].next \in Int
  BY <1>1, NotOutermost
<1>3. Top.args = <<>> /\ Top.next \in Int
  BY <1>1, InnermostOK DEF IInv, ScopeOK, Top
<1>4. Top.next = ctx[Len(ctx) - 1].next + Word
  BY <1>1, <1>2, <1>3 DEF Inside, Base, Word
<1>5. Word = Top.next - ctx[Len(ctx) - 1].next
  BY <1>2, <1>4 DEF Word
<1> QED
  BY <1>1, <1>2, <1>5, CloseStep

LEMMA VisitNewStep == IInv /\ VisitNew => IInv'
<1> SUFFICES ASSUME IInv, VisitNew  PROVE IInv'
  OBVIOUS
<1>1. /\ Generating /\ UNCHANGED <<phase, defs, params, ctx>>
      /\ depth' = depth + NewSpace /\ leaked' = leaked + NewSpace
  BY DEF VisitNew, Generating
<1>2. TypeOK /\ CtxOK(ctx) /\ Accounting
  BY DEF IInv
<1>3. leaked \in Nat /\ depth \in Int /\ NewSpace = 8 /\ Top.next \in Int
  BY <1>2, InnermostOK DEF TypeOK, NewSpace, Word, Top
<1>4. TypeOK' /\ leaked' # 0
  BY <1>1, <1>2, <1>3 DEF TypeOK
<1>5. Accounting'
  <2>1. Top' = Top
    BY <1>1 DEF Top
  <2>2. depth = Top.next - Word + leaked
    BY <1>1, <1>2 DEF Accounting
  <2>3. depth' = Top.next - Word + leaked'
    BY <1>1, <1>3, <2>2 DEF Word
  <2> QED
    BY <2>1, <2>3 DEF Accounting
<1>6. phase' # "idle"
  BY <1>1 DEF Generating
<1>7. phase' = "def" => \A i \in 1..Len(ctx') :
         ctx'[i].kind = "params" => Bound(ctx'[i]) \subseteq ToSet(params')
  BY <1>1 DEF IInv
<1> QED
  BY <1>1, <1>2, <1>4, <1>5, <1>6, <1>7 DEF IInv

LEMMA BeginCallStep == IInv /\ BeginCall => IInv'
<1> SUFFICES ASSUME IInv, BeginCall  PROVE IInv'
  OBVIOUS
<1>1. /\ Generating /\ UNCHANGED <<defs, params, depth, leaked>>
      /\ Top.kind \in {"body", "block"} /\ Top.arity = NoCall
  BY DEF BeginCall, Generating, AtStatement
<1>2. CASE phase' = "error" /\ UNCHANGED ctx
  BY <1>1, <1>2, ErrorStep
<1>3. CASE \E n \in ArgCounts : ctx' = WithTop([Top EXCEPT !.arity = n]) /\ UNCHANGED phase
  <2>1. PICK n \in ArgCounts : ctx' = WithTop([Top EXCEPT !.arity = n])
    BY <1>3
  <2> DEFINE s == [Top EXCEPT !.arity = n]
  <2>2. Top \in Scopes /\ ScopeOK(Top) /\ Top.next \in Int /\ depth \in Int
    BY InnermostOK DEF IInv, Top, TypeOK
  <2>3. n \in Nat
    BY BoundsAssumption
  <2>4. /\ s \in Scopes /\ s.kind = Top.kind /\ s.vars = Top.vars /\ s.next = Top.next
        /\ s.args = Top.args /\ s.arity = n
    BY <2>2, <2>3 DEF Scopes
  <2>5. Top.args = <<>>
    BY <1>1, <2>2 DEF ScopeOK
  <2> HIDE DEF s
  <2>6. Base(s) = Base(Top) /\ Bound(s) = Bound(Top)
    BY <2>4 DEF Base, Bound
  <2>7. ScopeOK(s)
    BY <1>1, <2>2, <2>3, <2>4, <2>5, <2>6 DEF ScopeOK
  <2>8. ArgsInPlace(s) /\ depth' = depth + (s.next - Top.next)
    BY <1>1, <2>2, <2>4, <2>5 DEF ArgsInPlace
  <2>9. ctx' = WithTop(s) /\ UNCHANGED phase
    BY <1>3, <2>1 DEF s
  <2> QED
    BY <1>1, <2>4, <2>6, <2>7, <2>8, <2>9, CallStep
<1> QED
  BY <1>2, <1>3 DEF BeginCall

\* While no allocation was met, the word a push writes is the next argument
\* slot of the scope.
LEMMA PushArgStep == IInv /\ PushArg => IInv'
<1> SUFFICES ASSUME IInv, PushArg  PROVE IInv'
  OBVIOUS
<1> DEFINE s == [Top EXCEPT !.args = Append(@, depth + Word), !.next = @ + Word]
<1>1. /\ Generating /\ UNCHANGED <<phase, defs, params, leaked>> /\ depth' = depth + Word
      /\ Top.arity # NoCall /\ Len(Top.args) < Top.arity /\ ctx' = WithTop(s)
  BY DEF PushArg, Generating
<1>2. /\ Top \in Scopes /\ ScopeOK(Top) /\ Top.next \in Int /\ depth \in Int
      /\ leaked \in Nat /\ depth = Top.next - Word + leaked
  BY <1>1, InnermostOK DEF IInv, Top, TypeOK, Accounting
<1>3. /\ Top.args \in Seq(Int) /\ Len(Top.args) \in Nat /\ Top.arity \in Nat
      /\ depth + Word \in Int /\ Top.next + Word \in Int
  BY <1>1, <1>2 DEF Scopes, Word
<1>4. /\ s.kind = Top.kind /\ s.vars = Top.vars /\ s.next = Top.next + Word
      /\ s.args = Append(Top.args, depth + Word) /\ s.arity = Top.arity
  BY <1>2 DEF Scopes
<1>5. /\ s.args \in Seq(Int) /\ Len(s.args) = Len(Top.args) + 1
      /\ s.args[Len(Top.args) + 1] = depth + Word
      /\ \A i \in 1..Len(Top.args) : s.args[i] = Top.args[i]
  BY <1>3, <1>4, PushStack
<1>6. s \in Scopes
  BY <1>2, <1>3, <1>5 DEF Scopes
<1> HIDE DEF s
<1>7. Base(s) = Base(Top) /\ Bound(s) = Bound(Top) /\ Base(Top) = Top.next - Word * Len(Top.args)
  BY <1>2, <1>3, <1>4, <1>5 DEF Base, Bound, Word
<1>8. ScopeOK(s)
  BY <1>1, <1>2, <1>3, <1>4, <1>5, <1>7 DEF ScopeOK
<1>9. ASSUME leaked = 0  PROVE ArgsInPlace(s)
  <2>1. ArgsInPlace(Top)
    BY <1>9, InnermostOK DEF IInv, Top
  <2>2. depth + Word = Base(Top) + Word * (Len(Top.args) + 1 - 1)
    BY <1>2, <1>3, <1>7, <1>9 DEF Word
  <2> SUFFICES ASSUME NEW a \in 1..Len(s.args)
               PROVE  s.args[a] = Base(Top) + Word * (a - 1)
    BY <1>7 DEF ArgsInPlace
  <2>3. CASE a = Len(Top.args) + 1
    BY <1>5, <2>2, <2>3
  <2>4. CASE a # Len(Top.args) + 1
    <3>1. a \in 1..Len(Top.args)
      BY <1>3, <1>5, <2>4
    <3>2. s.args[a] = Top.args[a]
      BY <1>5, <3>1
    <3> QED
      BY <2>1, <3>1, <3>2 DEF ArgsInPlace
  <2> QED
    BY <2>3, <2>4
<1>10. depth' = depth + (s.next - Top.next)
  BY <1>1, <1>2, <1>4 DEF Word
<1> QED
  BY <1>1, <1>4, <1>6, <1>7, <1>8, <1>9, <1>10, CallStep

LEMMA FinishCallStep == IInv /\ FinishCall => IInv'
<1> SUFFICES ASSUME IInv, FinishCall  PROVE IInv'
  OBVIOUS
<1> DEFINE s == [Top EXCEPT !.args = <<>>, !.arity = NoCall, !.next = @ - Word * Top.arity]
<1>1. /\ Generating /\ UNCHANGED <<phase, defs, params, leaked>>
      /\ depth' = depth - Word * Top.arity
      /\ Top.arity # NoCall /\ Len(Top.args) = Top.arity /\ ctx' = WithTop(s)
  BY DEF FinishCall, Generating
<1>2. Top \in Scopes /\ ScopeOK(Top) /\ Top.next \in Int /\ depth \in Int
  BY InnermostOK DEF IInv, Top, TypeOK
<1>3. Top.args \in Seq(Int) /\ Top.arity \in Nat /\ Top.next - Word * Top.arity \in Int
  BY <1>1, <1>2 DEF Scopes, Word
<1>4. /\ s.kind = Top.kind /\ s.vars = Top.vars /\ s.next = Top.next - Word * Top.arity
      /\ s.args = <<>> /\ s.arity = NoCall
  BY <1>2 DEF Scopes
<1>5. s \in Scopes
  <2> DEFINE e == <<>>  k == NoCall  n == Top.next - Word * Top.arity
  <2>1. e \in Seq(Int) /\ k \in Nat \cup {NoCall} /\ n \in Int
    BY <1>3
  <2>2. s = [Top EXCEPT !.args = e, !.arity = k, !.next = n]
    BY <1>2 DEF Scopes
  <2> HIDE DEF e, k, n
  <2>3. [Top EXCEPT !.args = e, !.arity = k, !.next = n] \in Scopes
    BY <1>2, <2>1 DEF Scopes
  <2> QED
    BY <2>2, <2>3
<1> HIDE DEF s
<1>6. Base(s) = Base(Top) /\ Bound(s) = Bound(Top)
  BY <1>1, <1>3, <1>4 DEF Base, Bound, Word
<1>7. ScopeOK(s)
  <2>1. Top.kind \in {"body", "block"}
    BY <1>1, <1>2 DEF ScopeOK
  <2> QED
    BY <1>2, <1>4, <1>6, <2>1 DEF ScopeOK
<1>8. ArgsInPlace(s)
  BY <1>4 DEF ArgsInPlace
<1>9. depth' = depth + (s.next - Top.next)
  BY <1>1, <1>2, <1>3, <1>4 DEF Word
<1> QED
  BY <1>1, <1>4, <1>5, <1>6, <1>7, <1>8, <1>9, CallStep

\* The contexts below the body of a function or of the main program.
LEMMA BelowBody ==
  ASSUME IInv, Top.kind = "body"
  PROVE  \A i \in 1..(Len(ctx) - 1) : ctx[i].kind \in {"root", "params"}
<1>1. CtxOK(ctx) /\ Len(ctx) \in Nat \ {0} /\ ctx[Len(ctx)] = Top
  BY InnermostOK DEF IInv, Top
<1> QED
  BY <1>1 DEF CtxOK, Above

LEMMA FinishFunctionStep == IInv /\ FinishFunction => IInv'
<1> SUFFICES ASSUME IInv, FinishFunction  PROVE IInv'
  OBVIOUS
<1>1. /\ phase' = "idle" /\ params' = <<>> /\ ctx' = Front(ctx) /\ depth' = 0
      /\ leaked' = 0 /\ defs' = defs /\ Top.kind = "body"
  BY DEF FinishFunction, CloseScope
<1>2. Len(ctx) > 1 /\ CtxOK(ctx)
  BY <1>1, NotOutermost DEF IInv
<1>3. /\ CtxOK(ctx') /\ Len(ctx') = Len(ctx) - 1
      /\ \A i \in 1..(Len(ctx) - 1) : ctx'[i] = ctx[i]
  BY <1>1, <1>2, CloseKeeps
<1>4. \A i \in 1..Len(ctx') : ctx'[i].kind \in {"root", "params"}
  BY <1>1, <1>3, BelowBody
<1>5. \A i \in 1..Len(ctx') : ArgsInPlace(ctx'[i])
  BY <1>3, <1>4, NoArgs
<1>6. TypeOK'
  BY <1>1, <1>3 DEF IInv, TypeOK, CtxOK
<1> QED
  BY <1>1, <1>3, <1>4, <1>5, <1>6 DEF IInv, Accounting, Generating

LEMMA FinishEntryStep == IInv /\ FinishEntry => IInv'
<1> SUFFICES ASSUME IInv, FinishEntry  PROVE IInv'
  OBVIOUS
<1>1. /\ phase' = "done" /\ depth' = 0 /\ leaked' = 0 /\ UNCHANGED <<defs, params, ctx>>
      /\ Top.kind = "body" /\ Top.arity = NoCall
  BY DEF FinishEntry, AtStatement
<1>2. CtxOK(ctx) /\ Len(ctx) \in Nat \ {0}
  BY InnermostOK DEF IInv
<1>3. \A i \in 1..Len(ctx) : ctx[i].arity = NoCall \/ ctx[i].kind \in {"root", "params"}
  BY <1>1, <1>2, BelowBody DEF Top
<1>4. \A i \in 1..Len(ctx) : ArgsInPlace(ctx[i])
  BY <1>2, <1>3, NoArgs
<1>5. TypeOK'
  BY <1>1 DEF IInv, TypeOK
<1> QED
  BY <1>1, <1>2, <1>4, <1>5 DEF IInv, Accounting, Generating

\* IInv is inductive.
LEMMA StepIInv == IInv /\ [Next]_vars => IInv'
<1> SUFFICES ASSUME IInv, [Next]_vars  PROVE IInv'
  OBVIOUS
<1>1. CASE DefineFunction
  BY <1>1, DefineFunctionStep
<1>2. CASE StartEntry
  BY <1>2, StartEntryStep
<1>3. CASE EnterBody
  BY <1>3, EnterBodyStep
<1>4. CASE EnterBlock
  BY <1>4, EnterBlockStep
<1>5. CASE LeaveBlock
  BY <1>5, LeaveBlockStep
<1>6. CASE FreshTmp
  BY <1>6, FreshTmpStep
<1>7. CASE FreeTmp
  BY <1>7, FreeTmpStep
<1>8. CASE VisitNew
  BY <1>8, VisitNewStep
<1>9. CASE RejectName \/ RejectDefinition
  BY <1>9, ErrorStep DEF RejectName, RejectDefinition
<1>10. CASE BeginCall
  BY <1>10, BeginCallStep
<1>11. CASE PushArg
  BY <1>11, PushArgStep
<1>12. CASE FinishCall
  BY <1>12, FinishCallStep
<1>13. CASE FinishFunction
  BY <1>13, FinishFunctionStep
<1>14. CASE FinishEntry
  BY <1>14, FinishEntryStep
<1>15. CASE Stopped \/ UNCHANGED vars
  <2>1. UNCHANGED vars
    BY <1>15 DEF Stopped
  <2> QED
    BY <2>1 DEF vars, IInv, TypeOK, Accounting, Generating, Top
<1> QED
  BY <1>1, <1>2, <1>3, <1>4, <1>5, <1>6, <1>7, <1>8, <1>9, <1>10, <1>11, <1>12,
     <1>13, <1>14, <1>15 DEF Next

LEMMA InductiveInvariant == Spec => []IInv
<1> QED
  BY InitIInv, StepIInv, PTL DEF Spec

-----------------------------------------------------------------------------
(* What the invariant says. *)

\* What is bound in a scope, and where; Base is a number.
LEMMA ScopeFacts ==
  ASSUME NEW c, CtxOK(c), NEW i \in 1..Len(c)
  PROVE  /\ c[i] \in Scopes /\ ScopeOK(c[i])
         /\ c[i].next \in Int /\ Base(c[i]) \in Int /\ Len(c[i].args) \in Nat
         /\ Base(c[i]) <= c[i].next /\ Base(c[i]) >= 12
         /\ \A x \in Bound(c[i]) : c[i].vars[x] \in Int
<1>1. c[i] \in Scopes /\ ScopeOK(c[i])
  BY DEF CtxOK
<1>2. c[i].next \in Int /\ Len(c[i].args) \in Nat /\ \A x \in Bound(c[i]) : c[i].vars[x] \in Int
  BY <1>1 DEF Scopes, Bound
<1> QED
  BY <1>1, <1>2 DEF ScopeOK, Base, Word

\* A slot is either a word of the parameters or one between the root
\* information and the base of its scope.
LEMMA SlotRange ==
  ASSUME NEW c, CtxOK(c), NEW i \in 1..Len(c), NEW x \in Bound(c[i])
  PROVE  \/ c[i].kind = "params" /\ c[i].vars[x] <= -8
         \/ c[i].kind \notin {"root", "params"} /\ c[i].vars[x] \in 12..(Base(c[i]) - Word)
<1>1. ScopeOK(c[i])
  BY ScopeFacts
<1>2. c[i].kind # "root"
  BY <1>1 DEF ScopeOK
<1> QED
  BY <1>1, <1>2 DEF ScopeOK

\* Scopes at two levels share no slot.
LEMMA LevelsDisjoint ==
  ASSUME NEW c, CtxOK(c), NEW i \in 1..Len(c), NEW j \in 1..Len(c), i < j,
         NEW x \in Bound(c[i]), NEW y \in Bound(c[j])
  PROVE  c[i].vars[x] # c[j].vars[y]
<1>1. Above(c[i], c[j])
  BY DEF CtxOK
<1>2. c[i].vars[x] \in Int /\ c[j].vars[y] \in Int /\ Base(c[i]) <= c[i].next
      /\ c[i].next \in Int /\ Base(c[i]) \in Int /\ Base(c[j]) \in Int
  BY ScopeFacts
<1>3. CASE c[j].kind = "params"
  <2>1. c[i].kind = "root"
    BY <1>1, <1>3 DEF Above
  <2> QED
    BY <2>1, ScopeFacts DEF ScopeOK
<1>4. CASE c[j].kind # "params"
  <2>1. c[j].vars[y] \in 12..(Base(c[j]) - Word)
    BY <1>4, SlotRange
  <2>2. c[j].vars[y] >= 12 /\ c[j].vars[y] >= c[i].next
    BY <1>1, <1>2, <2>1 DEF Above, Word
  <2>3. CASE c[i].vars[x] <= -8
    BY <1>2, <2>2, <2>3
  <2>4. CASE c[i].vars[x] \in 12..(Base(c[i]) - Word)
    BY <1>2, <2>2, <2>4 DEF Word
  <2> QED
    BY <2>3, <2>4, SlotRange
<1> QED
  BY <1>3, <1>4

\* The domain of a legal stack of contexts.
LEMMA CtxDomain ==
  ASSUME NEW c, CtxOK(c)
  PROVE  DOMAIN c = 1..Len(c)
BY DEF CtxOK

\* Every variable of the code generator keeps its type.
THEOREM TypeCorrect == Spec => []TypeOK
<1>1. IInv => TypeOK
  BY DEF IInv
<1> QED
  BY <1>1, InductiveInvariant, PTL

\* nextOffset and the stack pointer agree in every construct, up to what
\* allocations leave on the stack.
THEOREM AccountingHolds == Spec => []Accounting
<1>1. IInv => Accounting
  BY DEF IInv
<1> QED
  BY <1>1, InductiveInvariant, PTL

\* Live variables and temporaries never share a word, however deep the
\* nesting and however many declarations, arguments or allocations.
THEOREM SlotsNeverShared == Spec => []SlotsDisjoint
<1>1. IInv => SlotsDisjoint
  <2> SUFFICES ASSUME IInv, NEW i \in DOMAIN ctx, NEW j \in DOMAIN ctx,
                      NEW x \in Bound(ctx[i]), NEW y \in Bound(ctx[j]),
                      ctx[i].vars[x] = ctx[j].vars[y]
               PROVE  i = j /\ x = y
    BY DEF SlotsDisjoint
  <2>1. CtxOK(ctx) /\ i \in 1..Len(ctx) /\ j \in 1..Len(ctx) /\ Len(ctx) \in Nat
    BY CtxDomain, InnermostOK DEF IInv
  <2>2. ~(i < j) /\ ~(j < i)
    BY <2>1, LevelsDisjoint
  <2>3. i = j
    BY <2>1, <2>2
  <2> QED
    BY <2>1, <2>3, ScopeFacts DEF ScopeOK
<1> QED
  BY <1>1, InductiveInvariant, PTL

\* A scope ends no later than the innermost one, hence no later than ESP.
LEMMA WithinInnermost ==
  ASSUME NEW c, CtxOK(c), NEW i \in 1..Len(c)
  PROVE  c[i].next <= c[Len(c)].next
<1>1. Len(c) \in Nat \ {0} /\ Base(c[Len(c)]) <= c[Len(c)].next
      /\ Base(c[Len(c)]) \in Int /\ c[Len(c)].next \in Int /\ c[i].next \in Int
  BY InnermostOK, ScopeFacts
<1>2. CASE i = Len(c)
  BY <1>1, <1>2
<1>3. CASE i # Len(c)
  <2>1. Above(c[i], c[Len(c)])
    BY <1>1, <1>3 DEF CtxOK
  <2> QED
    BY <1>1, <2>1 DEF Above
<1> QED
  BY <1>2, <1>3

\* Every slot is inside the frame: at or above ESP and clear of the words
\* the collector reads, or among the caller's arguments.
THEOREM SlotsWithinFrame == Spec => []SlotsInFrame
<1>1. IInv => SlotsInFrame
  <2> SUFFICES ASSUME IInv, Generating, NEW i \in DOMAIN ctx, NEW x \in Bound(ctx[i])
               PROVE  ctx[i].vars[x] \in 12..depth \/ ctx[i].vars[x] <= -8
    BY DEF SlotsInFrame
  <2>1. CtxOK(ctx) /\ i \in 1..Len(ctx)
    BY CtxDomain DEF IInv
  <2>2. /\ depth = Top.next - Word + leaked /\ depth \in Int /\ leaked \in Nat
        /\ Top.next \in Int
    BY <2>1, InnermostOK DEF IInv, Accounting, TypeOK, Top
  <2>3. ctx[i].next <= Top.next
    BY <2>1, WithinInnermost DEF Top
  <2>4. /\ Base(ctx[i]) <= ctx[i].next /\ ctx[i].next \in Int /\ Base(ctx[i]) \in Int
        /\ ctx[i].vars[x] \in Int
    BY <2>1, ScopeFacts
  <2>5. CASE ctx[i].vars[x] \in 12..(Base(ctx[i]) - Word)
    BY <2>2, <2>3, <2>4, <2>5 DEF Word
  <2> QED
    BY <2>1, <2>5, SlotRange
<1> QED
  BY <1>1, InductiveInvariant, PTL

\* In a frame without allocations no code overwrites a pushed argument, and
\* every call finds its arguments where the callee looks for them.
THEOREM CallsSafe == Spec => []CallsSafeWithoutNew
<1>1. ASSUME IInv, leaked = 0  PROVE ArgsSafe
  <2> SUFFICES ASSUME NEW i \in DOMAIN ctx, NEW j \in DOMAIN ctx,
                      NEW x \in Bound(ctx[i]), NEW a \in DOMAIN ctx[j].args
               PROVE  ctx[i].vars[x] # ctx[j].args[a]
    BY DEF ArgsSafe
  <2>1. CtxOK(ctx) /\ i \in 1..Len(ctx) /\ j \in 1..Len(ctx) /\ Len(ctx) \in Nat
    BY <1>1, CtxDomain, InnermostOK DEF IInv
  <2>2. ctx[j].args \in Seq(Int)
    BY <2>1, ScopeFacts DEF Scopes
  <2>3. a \in 1..Len(ctx[j].args) /\ Len(ctx[j].args) \in Nat
    BY <2>2
  <2>4. ctx[j].args[a] = Base(ctx[j]) + Word * (a - 1)
    BY <1>1, <2>1, <2>3 DEF IInv, ArgsInPlace
  <2>5. /\ Base(ctx[j]) \in Int /\ Base(ctx[j]) >= 12
        /\ ctx[j].next = Base(ctx[j]) + Word * Len(ctx[j].args)
    <3>1. Base(ctx[j]) \in Int /\ Base(ctx[j]) >= 12 /\ ctx[j].next \in Int
      BY <2>1, ScopeFacts
    <3>2. ctx[j].next = Base(ctx[j]) + Word * Len(ctx[j].args)
      BY <2>3, <3>1 DEF Base, Word
    <3> QED
      BY <3>1, <3>2
  <2>6. ctx[j].args[a] >= Base(ctx[j]) /\ ctx[j].args[a] < ctx[j].next
    BY <2>3, <2>4, <2>5 DEF Word
  <2>7. ctx[i].vars[x] \in Int /\ Base(ctx[i]) \in Int /\ ctx[i].next \in Int
        /\ Base(ctx[i]) <= ctx[i].next
    BY <2>1, ScopeFacts
  <2>8. CASE ctx[i].vars[x] <= -8
    BY <2>4, <2>5, <2>6, <2>7, <2>8
  <2>9. CASE ctx[i].vars[x] \in 12..(Base(ctx[i]) - Word)
    <3>1. CASE i = j
      BY <2>5, <2>6, <2>7, <2>9, <3>1 DEF Word
    <3>2. CASE i < j
      <4>1. ctx[i].next <= Base(ctx[j])
        BY <2>1, <3>2 DEF CtxOK, Above
      <4> QED
        BY <2>5, <2>6, <2>7, <2>9, <4>1 DEF Word
    <3>3. CASE j < i
      <4>1. Above(ctx[j], ctx[i])
        BY <2>1, <3>3 DEF CtxOK
      <4>2. ctx[i].vars[x] > 0
        BY <2>7, <2>9
      <4>3. ctx[i].vars[x] >= ctx[j].next /\ ctx[j].next \in Int /\ ctx[j].args[a] \in Int
        BY <2>2, <2>3, <2>5, <4>1, <4>2, ScopeFacts, <2>1 DEF Above
      <4> QED
        BY <2>6, <2>7, <4>3
    <3> QED
      BY <2>1, <3>1, <3>2, <3>3
  <2> QED
    BY <2>1, <2>8, <2>9, SlotRange
<1>2. ASSUME IInv, leaked = 0  PROVE CalleeFindsArgs
  <2> SUFFICES ASSUME Generating, Top.arity = Len(Top.args), NEW i \in 1..Top.arity
               PROVE  Top.args[Top.arity + 1 - i] = depth + 8 + ParamOffset(i)
    BY DEF CalleeFindsArgs
  <2>1. /\ CtxOK(ctx) /\ Len(ctx) \in 1..Len(ctx) /\ Top = ctx[Len(ctx)]
        /\ depth = Top.next - Word
    <3>1. depth = Top.next - Word + leaked /\ Top.next \in Int
      BY <1>2, InnermostOK DEF IInv, Accounting, Top
    <3> QED
      BY <1>2, <3>1, InnermostOK DEF IInv, Top, Word
  <2>2. /\ Top.next \in Int /\ Top.arity \in Nat /\ ArgsInPlace(Top)
        /\ Base(Top) = Top.next - Word * Top.arity
    BY <1>2, <2>1, ScopeFacts DEF IInv, Base
  <2> DEFINE m == Top.arity + 1 - i
  <2>3. m \in 1..Len(Top.args) /\ i \in Int /\ m - 1 = Top.arity - i /\ m \in Int
    BY <2>2
  <2> HIDE DEF m
  <2>4. Top.args[m] = Base(Top) + Word * (m - 1)
    BY <2>2, <2>3 DEF ArgsInPlace
  <2>5. Top.args[m] = Top.next - Word * i
    <3>1. Word * (m - 1) = Word * Top.arity - Word * i
      BY <2>2, <2>3 DEF Word
    <3> QED
      BY <2>2, <2>3, <2>4, <3>1 DEF Word
  <2>6. depth + 8 + ParamOffset(i) = Top.next - Word * i
    <3>1. depth = Top.next - 4 /\ Top.next \in Int /\ i \in Int
      BY <2>1, <2>2, <2>3 DEF Word
    <3> QED
      BY <3>1 DEF ParamOffset, Word
  <2> QED
    BY <2>5, <2>6 DEF m
<1>3. IInv => CallsSafeWithoutNew
  BY <1>1, <1>2 DEF CallsSafeWithoutNew
<1> QED
  BY <1>3, InductiveInvariant, PTL

\* No function sees a parameter of another.
THEOREM OnlyOwnParams == Spec => []OwnParams
<1>1. IInv => OwnParams
  <2> SUFFICES ASSUME IInv, phase = "def", NEW i \in DOMAIN ctx, NEW x \in Bound(ctx[i]),
                      ctx[i].vars[x] < 0
               PROVE  x \in ToSet(params)
    BY DEF OwnParams
  <2>1. CtxOK(ctx) /\ i \in 1..Len(ctx)
    BY CtxDomain DEF IInv
  <2>2. ctx[i].vars[x] \in Int /\ Base(ctx[i]) \in Int
    BY <2>1, ScopeFacts
  <2>3. ctx[i].kind = "params"
    BY <2>1, <2>2, SlotRange DEF Word
  <2> QED
    BY <2>1, <2>3 DEF IInv
<1> QED
  BY <1>1, InductiveInvariant, PTL

\* Nothing declared in a function body outlives it.
THEOREM NoLocalOutlives == Spec => []LocalsGone
<1>1. IInv => LocalsGone
  <2> SUFFICES ASSUME IInv, phase = "idle", NEW i \in DOMAIN ctx, NEW x \in Bound(ctx[i])
               PROVE  ctx[i].vars[x] < 0
    BY DEF LocalsGone
  <2>1. CtxOK(ctx) /\ i \in 1..Len(ctx) /\ ctx[i].kind \in {"root", "params"}
    BY CtxDomain DEF IInv
  <2>2. ctx[i].vars[x] <= -8 /\ ctx[i].vars[x] \in Int
    BY <2>1, SlotRange, ScopeFacts
  <2> QED
    BY <2>2
<1> QED
  BY <1>1, InductiveInvariant, PTL
=============================================================================
