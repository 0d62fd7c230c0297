---------------------------- MODULE ProofBasics -----------------------------
(***************************************************************************)
(* What the proofs about the components share.                             *)
(*                                                                         *)
(* Sequences and induction: the control stacks of the parser and of the    *)
(* code generator are sequences of tasks, the first of which a step        *)
(* replaces by others; induction over the natural numbers is in a form     *)
(* that names a set.                                                       *)
(*                                                                         *)
(* The syntax trees of L2: those that the constructors of frontend/ast.h   *)
(* build step by step, from nothing, are closed under these constructors,  *)
(* and nothing else is among them.                                         *)
(***************************************************************************)
EXTENDS L2Grammar, SequenceTheorems, WellFoundedInduction, TLAPS

-----------------------------------------------------------------------------
(* Sequences and induction. *)

\* A sequence, whatever its elements are.
IsSequence(s) == s \in Seq(ToSet(s))

-----------------------------------------------------------------------------
\* A set of natural numbers that is not empty has a least element.
LEMMA LeastElement ==
  ASSUME NEW T \in SUBSET Nat, T # {}
  PROVE  \E x \in T : \A y \in T : x <= y
PROOF
<1>. DEFINE Less == {p \in Nat \X Nat : p[1] < p[2]}
<1>1. IsWellFoundedOn(Less, Nat) BY NatLessThanWellFounded DEF OpToRel
<1>2. PICK x \in T : \A y \in T : ~ (<<y, x>> \in Less) BY <1>1, WFMin
<1>3. ASSUME NEW y \in T PROVE x <= y
  <2>1. <<y, x>> \in Nat \X Nat OBVIOUS
  <2>2. ~ (<<y, x>>[1] < <<y, x>>[2]) BY ONLY <1>2, <2>1, y \in T, Zenon DEF Less
  <2>. QED BY <2>2
<1>. QED BY <1>3

\* Induction: the set of the numbers for which a claim holds is all of them.
LEMMA InductionUpTo ==
  ASSUME NEW n \in Nat, NEW T, 0 \in T, \A k \in 0..(n - 1) : k \in T => k + 1 \in T
  PROVE  0..n \subseteq T
PROOF
<1>. DEFINE Missing == (0..n) \ T
<1>. SUFFICES ASSUME Missing # {} PROVE FALSE OBVIOUS
<1>1. PICK x \in Missing : \A y \in Missing : x <= y
  <2>1. Missing \in SUBSET Nat OBVIOUS
  <2>. QED BY <2>1, LeastElement
<1>2. x # 0 /\ x - 1 \in 0..(n - 1) /\ x - 1 \in T BY <1>1
<1>. QED BY <1>1, <1>2

-----------------------------------------------------------------------------
\* A sequence is known by its length and its elements.
LEMMA SequenceBasics ==
  ASSUME NEW s, IsSequence(s)
  PROVE  /\ Len(s) \in Nat /\ DOMAIN s = 1..Len(s)
         /\ s = <<>> <=> Len(s) = 0
         /\ s # <<>> => Head(s) = s[1] /\ 1 \in DOMAIN s
BY DEF IsSequence

LEMMA IsSequenceIn ==
  ASSUME NEW S, NEW s \in Seq(S)
  PROVE  IsSequence(s)
BY DEF IsSequence, ToSet

LEMMA ToSequence ==
  ASSUME NEW n \in Nat, NEW s, DOMAIN s = 1..n, s = [i \in 1..n |-> s[i]]
  PROVE  IsSequence(s) /\ Len(s) = n
BY DEF IsSequence, ToSet

LEMMA InSeq ==
  ASSUME NEW S, NEW s, IsSequence(s), \A i \in 1..Len(s) : s[i] \in S
  PROVE  s \in Seq(S)
BY DEF IsSequence, ToSet

LEMMA ConcatSequences ==
  ASSUME NEW s, NEW t, IsSequence(s), IsSequence(t)
  PROVE  /\ IsSequence(s \o t) /\ Len(s \o t) = Len(s) + Len(t)
         /\ \A i \in 1..Len(s) : (s \o t)[i] = s[i]
         /\ \A i \in (Len(s) + 1)..(Len(s) + Len(t)) : (s \o t)[i] = t[i - Len(s)]
PROOF
<1>. DEFINE S == ToSet(s) \cup ToSet(t)
<1>1. s \in Seq(S) /\ t \in Seq(S)
  BY InSeq, SequenceBasics DEF ToSet
<1>2. /\ s \o t \in Seq(S) /\ Len(s \o t) = Len(s) + Len(t)
      /\ \A i \in 1..(Len(s) + Len(t)) : (s \o t)[i] = IF i <= Len(s) THEN s[i] ELSE t[i - Len(s)]
  BY ONLY <1>1, ConcatProperties
<1>3. Len(s) \in Nat /\ Len(t) \in Nat BY SequenceBasics
<1>4. IsSequence(s \o t) BY ONLY <1>2, IsSequenceIn
<1>. HIDE DEF S
<1>. QED BY <1>2, <1>3, <1>4

LEMMA ConcatThree ==
  ASSUME NEW s, NEW t, NEW u, IsSequence(s), IsSequence(t), IsSequence(u)
  PROVE  /\ IsSequence(s \o t \o u) /\ Len(s \o t \o u) = Len(s) + Len(t) + Len(u)
         /\ \A i \in 1..Len(s) : (s \o t \o u)[i] = s[i]
         /\ \A i \in 1..Len(t) : (s \o t \o u)[Len(s) + i] = t[i]
         /\ \A i \in 1..Len(u) : (s \o t \o u)[Len(s) + Len(t) + i] = u[i]
PROOF
<1>1. Len(s) \in Nat /\ Len(t) \in Nat /\ Len(u) \in Nat BY SequenceBasics
<1>2. /\ IsSequence(s \o t) /\ Len(s \o t) = Len(s) + Len(t)
      /\ \A i \in 1..Len(s) : (s \o t)[i] = s[i]
      /\ \A i \in (Len(s) + 1)..(Len(s) + Len(t)) : (s \o t)[i] = t[i - Len(s)]
  BY ConcatSequences
<1>3. PICK st : st = s \o t OBVIOUS
<1>4. /\ IsSequence(st \o u) /\ Len(st \o u) = Len(st) + Len(u)
      /\ \A i \in 1..Len(st) : (st \o u)[i] = st[i]
      /\ \A i \in (Len(st) + 1)..(Len(st) + Len(u)) : (st \o u)[i] = u[i - Len(st)]
  BY <1>2, <1>3, ConcatSequences
<1>5. \A i \in 1..Len(t) : st[Len(s) + i] = t[i]
  BY ONLY <1>1, <1>2, <1>3
<1>6. \A i \in 1..Len(u) : (st \o u)[Len(s) + Len(t) + i] = u[i]
  BY ONLY <1>1, <1>2, <1>3, <1>4
<1>. QED BY ONLY <1>1, <1>2, <1>3, <1>4, <1>5, <1>6

LEMMA TailSequence ==
  ASSUME NEW s, IsSequence(s), s # <<>>
  PROVE  /\ IsSequence(Tail(s)) /\ Len(Tail(s)) = Len(s) - 1
         /\ \A i \in 1..(Len(s) - 1) : Tail(s)[i] = s[i + 1]
PROOF
<1>1. s \in Seq(ToSet(s)) BY DEF IsSequence
<1>2. Tail(s) \in Seq(ToSet(s)) /\ Len(Tail(s)) = Len(s) - 1 /\ \A i \in 1..Len(Tail(s)) : Tail(s)[i] = s[i + 1]
  BY ONLY <1>1, s # <<>>, HeadTailProperties
<1>. QED BY ONLY <1>2, IsSequenceIn

LEMMA AppendSequence ==
  ASSUME NEW s, NEW e, IsSequence(s)
  PROVE  /\ IsSequence(Append(s, e)) /\ Len(Append(s, e)) = Len(s) + 1
         /\ \A i \in 1..Len(s) : Append(s, e)[i] = s[i]
         /\ Append(s, e)[Len(s) + 1] = e
PROOF
<1>. DEFINE S == ToSet(s) \cup {e}
<1>1. s \in Seq(S) BY InSeq, SequenceBasics DEF ToSet
<1>2. Append(s, e) \in Seq(S) BY <1>1
<1>. HIDE DEF S
<1>3. IsSequence(Append(s, e)) BY <1>2, IsSequenceIn
<1>. QED BY <1>1, <1>3

\* A step replaces the first element of a stack by the sequence new.
LEMMA HeadReplaced ==
  ASSUME NEW s, IsSequence(s), s # <<>>, NEW new, IsSequence(new)
  PROVE  /\ IsSequence(new \o Tail(s)) /\ Len(new \o Tail(s)) = Len(new) + Len(s) - 1
         /\ Len(new) \in Nat /\ Len(s) \in Nat \ {0}
         /\ \A i \in 1..Len(new) : (new \o Tail(s))[i] = new[i]
         /\ \A i \in (Len(new) + 1)..(Len(new) + Len(s) - 1) : (new \o Tail(s))[i] = s[i - Len(new) + 1]
         /\ DOMAIN (new \o Tail(s)) = 1..(Len(new) + Len(s) - 1)
PROOF
<1>1. Len(new) \in Nat /\ Len(s) \in Nat \ {0} BY SequenceBasics
<1>2. /\ IsSequence(Tail(s)) /\ Len(Tail(s)) = Len(s) - 1
      /\ \A i \in 1..(Len(s) - 1) : Tail(s)[i] = s[i + 1]
  BY TailSequence
<1>3. /\ IsSequence(new \o Tail(s)) /\ Len(new \o Tail(s)) = Len(new) + Len(Tail(s))
      /\ \A i \in 1..Len(new) : (new \o Tail(s))[i] = new[i]
      /\ \A i \in (Len(new) + 1)..(Len(new) + Len(Tail(s))) : (new \o Tail(s))[i] = Tail(s)[i - Len(new)]
  BY <1>2, ConcatSequences
<1>4. DOMAIN (new \o Tail(s)) = 1..Len(new \o Tail(s)) BY <1>3, SequenceBasics
<1>5. ASSUME NEW i \in (Len(new) + 1)..(Len(new) + Len(s) - 1)
      PROVE  (new \o Tail(s))[i] = s[i - Len(new) + 1]
  <2>1. i - Len(new) \in 1..(Len(s) - 1) /\ i \in (Len(new) + 1)..(Len(new) + Len(Tail(s))) BY <1>1, <1>2
  <2>2. (new \o Tail(s))[i] = Tail(s)[i - Len(new)] BY <2>1, <1>3
  <2>3. Tail(s)[i - Len(new)] = s[i - Len(new) + 1] BY <2>1, <1>2
  <2>. QED BY <2>2, <2>3
<1>. QED BY <1>1, <1>2, <1>3, <1>4, <1>5

\* The top of a stack of values, and what lies below it.
LEMMA SubSequence ==
  ASSUME NEW s, IsSequence(s), NEW m \in 1..(Len(s) + 1), NEW n \in 0..Len(s), m <= n + 1
  PROVE  /\ IsSequence(SubSeq(s, m, n)) /\ Len(SubSeq(s, m, n)) = n - m + 1
         /\ \A i \in 1..(n - m + 1) : SubSeq(s, m, n)[i] = s[m + i - 1]
PROOF
<1>1. m \in Int /\ n \in Int /\ Len(s) \in Nat /\ DOMAIN s = 1..Len(s) BY SequenceBasics
<1>2. \A i \in m..n : s[i] \in ToSet(s)
  <2>. SUFFICES ASSUME NEW i \in m..n PROVE s[i] \in ToSet(s) OBVIOUS
  <2>1. i \in DOMAIN s BY <1>1
  <2>. QED BY <2>1 DEF ToSet
<1>3. /\ SubSeq(s, m, n) \in Seq(ToSet(s))
      /\ Len(SubSeq(s, m, n)) = IF m <= n THEN n - m + 1 ELSE 0
      /\ \A i \in 1..(n - m + 1) : SubSeq(s, m, n)[i] = s[m + i - 1]
  BY ONLY <1>1, <1>2, SubSeqProperties
<1>4. IsSequence(SubSeq(s, m, n)) BY ONLY <1>3, IsSequenceIn
<1>. QED BY <1>1, <1>3, <1>4

LEMMA FrontSequence ==
  ASSUME NEW s, IsSequence(s), s # <<>>
  PROVE  /\ IsSequence(Front(s)) /\ Len(Front(s)) = Len(s) - 1
         /\ \A i \in 1..(Len(s) - 1) : Front(s)[i] = s[i]
         /\ Last(s) = s[Len(s)]
PROOF
<1>1. Len(s) \in Nat \ {0} BY SequenceBasics
<1>2. Front(s) = SubSeq(s, 1, Len(s) - 1) /\ Last(s) = s[Len(s)] BY DEF Front, Last
<1>3. 1 \in 1..(Len(s) + 1) /\ Len(s) - 1 \in 0..Len(s) /\ 1 <= (Len(s) - 1) + 1 BY <1>1
<1>4. /\ IsSequence(SubSeq(s, 1, Len(s) - 1)) /\ Len(SubSeq(s, 1, Len(s) - 1)) = (Len(s) - 1) - 1 + 1
      /\ \A i \in 1..((Len(s) - 1) - 1 + 1) : SubSeq(s, 1, Len(s) - 1)[i] = s[1 + i - 1]
  BY <1>3, SubSequence
<1>. QED BY <1>1, <1>2, <1>4

\* Two sequences with the same elements are the same.
LEMMA SameSequence ==
  ASSUME NEW s, NEW t, IsSequence(s), IsSequence(t), Len(s) = Len(t), \A i \in 1..Len(s) : s[i] = t[i]
  PROVE  s = t
PROOF
<1>. DEFINE S == ToSet(s) \cup ToSet(t)
<1>1. s \in Seq(S) /\ t \in Seq(S) BY InSeq, SequenceBasics DEF ToSet
<1>. HIDE DEF S
<1>. QED BY <1>1, SeqEqual

\* What was pushed last is popped first.
LEMMA FrontOfAppend ==
  ASSUME NEW s, NEW e, IsSequence(s)
  PROVE  Front(Append(s, e)) = s /\ Last(Append(s, e)) = e /\ Append(s, e) # <<>>
PROOF
<1>1. Len(s) \in Nat BY SequenceBasics
<1>2. PICK a : a = Append(s, e) OBVIOUS
<1>3. IsSequence(a) /\ Len(a) = Len(s) + 1 /\ a[Len(s) + 1] = e /\ \A i \in 1..Len(s) : a[i] = s[i]
  BY <1>2, AppendSequence
<1>4. a # <<>> BY <1>1, <1>3, SequenceBasics
<1>5. IsSequence(Front(a)) /\ Len(Front(a)) = Len(a) - 1 /\ \A i \in 1..(Len(a) - 1) : Front(a)[i] = a[i] /\ Last(a) = a[Len(a)]
  BY <1>3, <1>4, FrontSequence
<1>6. Front(a) = s BY <1>1, <1>3, <1>5, SameSequence
<1>7. Last(a) = e BY <1>3 DEF Last
<1>. QED BY <1>2, <1>4, <1>6, <1>7

-----------------------------------------------------------------------------
(* Syntax trees. *)

NoTrees == [aexps |-> {}, rexps |-> {}, stmts |-> {}, blocks |-> {}]

\* What the constructors make of the trees of t.
Built(t) ==
  [aexps |-> ArithmeticExprs(t), rexps |-> RelationalExprs(t),
   stmts |-> Statements(t), blocks |-> BlockStmts(t)]

IsBuildUp(L, n) ==
  /\ L = [k \in 0..n |-> L[k]]
  /\ L[0] = NoTrees
  /\ \A k \in 1..n : L[k] = Built(L[k - 1])

BuildUp(n) == CHOOSE L : IsBuildUp(L, n)

\* The trees that n rounds of building give.
TreesOfHeight(n) == BuildUp(n)[n]

\* All syntax trees.
AllTrees ==
  [aexps  |-> UNION {TreesOfHeight(n).aexps : n \in Nat},
   rexps  |-> UNION {TreesOfHeight(n).rexps : n \in Nat},
   stmts  |-> UNION {TreesOfHeight(n).stmts : n \in Nat},
   blocks |-> UNION {TreesOfHeight(n).blocks : n \in Nat}]

-----------------------------------------------------------------------------
LEMMA BuildUpExists ==
  ASSUME NEW n \in Nat
  PROVE  IsBuildUp(BuildUp(n), n)
PROOF
<1>. DEFINE T == {k \in 0..n : \E L : IsBuildUp(L, k)}
<1>1. 0 \in T
  <2>1. PICK L : L = [k \in 0..0 |-> NoTrees] OBVIOUS
  <2>2. IsBuildUp(L, 0) BY <2>1 DEF IsBuildUp
  <2>. QED BY <2>2
<1>2. ASSUME NEW k \in 0..(n - 1), k \in T PROVE k + 1 \in T
  <2>1. PICK L : IsBuildUp(L, k) BY <1>2
  <2>2. PICK M : M = [j \in 0..(k + 1) |-> IF j = k + 1 THEN Built(L[k]) ELSE L[j]] OBVIOUS
  <2>3. M[k + 1] = Built(L[k]) /\ \A j \in 0..k : M[j] = L[j] BY <2>2
  <2>4. M = [j \in 0..(k + 1) |-> M[j]] BY ONLY <2>2
  <2>5. M[0] = NoTrees BY <2>1, <2>3 DEF IsBuildUp
  <2>6. ASSUME NEW j \in 1..(k + 1) PROVE M[j] = Built(M[j - 1])
    <3>1. CASE j = k + 1
      <4>1. M[j - 1] = L[k] BY <2>3, <3>1
      <4>. QED BY <2>3, <3>1, <4>1
    <3>2. CASE j # k + 1
      <4>1. j \in 1..k /\ j \in 0..k /\ j - 1 \in 0..k BY <3>2
      <4>2. L[j] = Built(L[j - 1]) BY <2>1, <4>1 DEF IsBuildUp
      <4>. QED BY <2>3, <4>1, <4>2
    <3>. QED BY <3>1, <3>2
  <2>7. IsBuildUp(M, k + 1) BY <2>4, <2>5, <2>6 DEF IsBuildUp
  <2>8. k + 1 \in 0..n OBVIOUS
  <2>. QED BY <2>7, <2>8
<1>. HIDE DEF T
<1>3. 0..n \subseteq T BY <1>1, <1>2, InductionUpTo
<1>4. n \in T BY <1>3
<1>. QED BY <1>4 DEF T, BuildUp

LEMMA BuildUpsAgree ==
  ASSUME NEW n \in Nat, NEW m \in Nat, m <= n, NEW L, NEW M, IsBuildUp(L, n), IsBuildUp(M, m)
  PROVE  \A k \in 0..m : L[k] = M[k]
PROOF
<1>. DEFINE T == {k \in 0..m : L[k] = M[k]}
<1>1. 0 \in T BY DEF IsBuildUp
<1>2. ASSUME NEW k \in 0..(m - 1), k \in T PROVE k + 1 \in T
  <2>1. k + 1 \in 1..n /\ k + 1 \in 1..m /\ (k + 1) - 1 = k OBVIOUS
  <2>2. L[k + 1] = Built(L[(k + 1) - 1]) BY <2>1 DEF IsBuildUp
  <2>3. M[k + 1] = Built(M[(k + 1) - 1]) BY <2>1 DEF IsBuildUp
  <2>4. L[k] = M[k] BY <1>2
  <2>. QED BY <2>1, <2>2, <2>3, <2>4
<1>. HIDE DEF T
<1>3. 0..m \subseteq T BY <1>1, <1>2, InductionUpTo
<1>. QED BY <1>3 DEF T

\* Each round builds upon the trees of the one before.
LEMMA RoundAfterRound ==
  /\ TreesOfHeight(0) = NoTrees
  /\ \A n \in Nat : TreesOfHeight(n + 1) = Built(TreesOfHeight(n))
PROOF
<1>1. TreesOfHeight(0) = NoTrees BY BuildUpExists DEF TreesOfHeight, IsBuildUp
<1>2. ASSUME NEW n \in Nat PROVE TreesOfHeight(n + 1) = Built(TreesOfHeight(n))
  <2>1. n + 1 \in Nat /\ n <= n + 1 /\ n \in 0..n /\ n + 1 \in 1..(n + 1) /\ (n + 1) - 1 = n OBVIOUS
  <2>2. IsBuildUp(BuildUp(n), n) /\ IsBuildUp(BuildUp(n + 1), n + 1) BY <2>1, BuildUpExists
  <2>3. PICK L, M : L = BuildUp(n + 1) /\ M = BuildUp(n) OBVIOUS
  <2>4. L[n] = M[n] BY <2>1, <2>2, <2>3, BuildUpsAgree
  <2>5. L[n + 1] = Built(L[(n + 1) - 1]) BY <2>1, <2>2, <2>3 DEF IsBuildUp
  <2>. QED BY <2>1, <2>3, <2>4, <2>5 DEF TreesOfHeight
<1>. QED BY <1>1, <1>2

-----------------------------------------------------------------------------
\* All trees of t are among those of u.
Within(t, u) ==
  /\ t.aexps \subseteq u.aexps /\ t.rexps \subseteq u.rexps
  /\ t.stmts \subseteq u.stmts /\ t.blocks \subseteq u.blocks

LEMMA SeqWithin ==
  ASSUME NEW S, NEW T, S \subseteq T
  PROVE  Seq(S) \subseteq Seq(T)
OBVIOUS

\* More trees make more trees.
LEMMA BuiltWithin ==
  ASSUME NEW t, NEW u, Within(t, u)
  PROVE  /\ Within(Built(t), Built(u))
         /\ FunctionCalls(t) \subseteq FunctionCalls(u)
PROOF
<1>1. Seq(t.aexps) \subseteq Seq(u.aexps) /\ Seq(t.stmts) \subseteq Seq(u.stmts) BY SeqWithin DEF Within
<1>2. ArithmeticExprs(t) \subseteq ArithmeticExprs(u) BY DEF ArithmeticExprs, Within
<1>3. RelationalExprs(t) \subseteq RelationalExprs(u) BY DEF RelationalExprs, Within
<1>4. FunctionCalls(t) \subseteq FunctionCalls(u) BY <1>1 DEF FunctionCalls
<1>5. Statements(t) \subseteq Statements(u) BY <1>4 DEF Statements, Within
<1>6. BlockStmts(t) \subseteq BlockStmts(u) BY <1>1 DEF BlockStmts
<1>. QED BY <1>2, <1>3, <1>4, <1>5, <1>6 DEF Within, Built

LEMMA HeightsGrow ==
  ASSUME NEW m \in Nat, NEW n \in Nat, m <= n
  PROVE  Within(TreesOfHeight(m), TreesOfHeight(n))
PROOF
<1>1. ASSUME NEW k \in Nat PROVE Within(TreesOfHeight(k), TreesOfHeight(k + 1))
  <2>. DEFINE T == {j \in 0..k : Within(TreesOfHeight(j), TreesOfHeight(j + 1))}
  <2>1. 0 \in T BY RoundAfterRound DEF NoTrees, Within
  <2>2. ASSUME NEW j \in 0..(k - 1), j \in T PROVE j + 1 \in T
    <3>1. Within(TreesOfHeight(j), TreesOfHeight(j + 1)) BY <2>2
    <3>2. j \in Nat /\ j + 1 \in Nat /\ j + 1 \in 0..k OBVIOUS
    <3>3. TreesOfHeight(j + 1) = Built(TreesOfHeight(j)) BY <3>2, RoundAfterRound
    <3>4. TreesOfHeight((j + 1) + 1) = Built(TreesOfHeight(j + 1)) BY <3>2, RoundAfterRound
    <3>5. Within(Built(TreesOfHeight(j)), Built(TreesOfHeight(j + 1))) BY <3>1, BuiltWithin
    <3>. QED BY <3>2, <3>3, <3>4, <3>5
  <2>. HIDE DEF T
  <2>3. 0..k \subseteq T BY <2>1, <2>2, InductionUpTo
  <2>4. k \in T BY <2>3
  <2>. QED BY <2>4 DEF T
<1>. DEFINE d == n - m
            D == {j \in 0..d : Within(TreesOfHeight(m), TreesOfHeight(m + j))}
<1>2. d \in Nat OBVIOUS
<1>3. 0 \in D
  <2>1. m + 0 = m /\ 0 \in 0..d OBVIOUS
  <2>. QED BY <2>1 DEF Within
<1>4. ASSUME NEW j \in 0..(d - 1), j \in D PROVE j + 1 \in D
  <2>1. Within(TreesOfHeight(m), TreesOfHeight(m + j)) BY <1>4
  <2>2. m + j \in Nat /\ (m + j) + 1 = m + (j + 1) /\ j + 1 \in 0..d OBVIOUS
  <2>3. Within(TreesOfHeight(m + j), TreesOfHeight((m + j) + 1)) BY <1>1, <2>2
  <2>4. Within(TreesOfHeight(m), TreesOfHeight((m + j) + 1)) BY <2>1, <2>3 DEF Within
  <2>. QED BY <2>2, <2>4
<1>5. m + d = n OBVIOUS
<1>. HIDE DEF D, d
<1>6. 0..d \subseteq D BY <1>2, <1>3, <1>4, InductionUpTo
<1>7. d \in D BY <1>2, <1>6
<1>. QED BY <1>5, <1>7 DEF D

-----------------------------------------------------------------------------
LEMMA HeightsWithinAll ==
  ASSUME NEW n \in Nat
  PROVE  Within(TreesOfHeight(n), AllTrees)
BY DEF Within, AllTrees

\* Finitely many trees are all of some height.
LEMMA HeightOfTwo ==
  ASSUME NEW m \in Nat, NEW n \in Nat
  PROVE  \E k \in Nat : Within(TreesOfHeight(m), TreesOfHeight(k)) /\ Within(TreesOfHeight(n), TreesOfHeight(k))
PROOF
<1>1. CASE m <= n BY <1>1, HeightsGrow DEF Within
<1>2. CASE n <= m BY <1>2, HeightsGrow DEF Within
<1>. QED BY <1>1, <1>2

LEMMA HeightOfMany ==
  ASSUME NEW n \in Nat, NEW h \in [1..n -> Nat]
  PROVE  \E k \in Nat : \A i \in 1..n : Within(TreesOfHeight(h[i]), TreesOfHeight(k))
PROOF
<1>. DEFINE T == {j \in 0..n : \E k \in Nat : \A i \in 1..j : Within(TreesOfHeight(h[i]), TreesOfHeight(k))}
<1>1. 0 \in T OBVIOUS
<1>2. ASSUME NEW j \in 0..(n - 1), j \in T PROVE j + 1 \in T
  <2>1. PICK k \in Nat : \A i \in 1..j : Within(TreesOfHeight(h[i]), TreesOfHeight(k)) BY <1>2
  <2>2. h[j + 1] \in Nat OBVIOUS
  <2>3. PICK m \in Nat : /\ Within(TreesOfHeight(k), TreesOfHeight(m))
                         /\ Within(TreesOfHeight(h[j + 1]), TreesOfHeight(m))
    BY <2>2, HeightOfTwo
  <2>4. ASSUME NEW i \in 1..(j + 1) PROVE Within(TreesOfHeight(h[i]), TreesOfHeight(m))
    <3>1. CASE i = j + 1 BY <2>3, <3>1
    <3>2. CASE i # j + 1
      <4>1. Within(TreesOfHeight(h[i]), TreesOfHeight(k)) BY <2>1, <3>2
      <4>. QED BY <2>3, <4>1 DEF Within
    <3>. QED BY <3>1, <3>2
  <2>. QED BY <2>4
<1>. HIDE DEF T
<1>3. 0..n \subseteq T BY <1>1, <1>2, InductionUpTo
<1>4. n \in T BY <1>3
<1>. QED BY <1>4 DEF T

\* A list of arguments, or of statements, has a height.
LEMMA HeightOfLists ==
  /\ \A s \in Seq(AllTrees.aexps) : \E k \in Nat : s \in Seq(TreesOfHeight(k).aexps)
  /\ \A s \in Seq(AllTrees.stmts) : \E k \in Nat : s \in Seq(TreesOfHeight(k).stmts)
PROOF
<1>1. ASSUME NEW s \in Seq(AllTrees.aexps) PROVE \E k \in Nat : s \in Seq(TreesOfHeight(k).aexps)
  <2>1. ASSUME NEW i \in 1..Len(s) PROVE \E n \in Nat : s[i] \in TreesOfHeight(n).aexps
    <3>1. s[i] \in AllTrees.aexps OBVIOUS
    <3>. QED BY <3>1 DEF AllTrees
  <2>2. PICK h : h = [i \in 1..Len(s) |-> CHOOSE n \in Nat : s[i] \in TreesOfHeight(n).aexps] OBVIOUS
  <2>3. h \in [1..Len(s) -> Nat] /\ \A i \in 1..Len(s) : s[i] \in TreesOfHeight(h[i]).aexps BY <2>1, <2>2
  <2>4. Len(s) \in Nat OBVIOUS
  <2>5. PICK k \in Nat : \A i \in 1..Len(s) : Within(TreesOfHeight(h[i]), TreesOfHeight(k))
    BY <2>3, <2>4, HeightOfMany
  <2>6. \A i \in 1..Len(s) : s[i] \in TreesOfHeight(k).aexps BY <2>3, <2>5 DEF Within
  <2>7. IsSequence(s) BY IsSequenceIn
  <2>. QED BY <2>6, <2>7, InSeq
<1>2. ASSUME NEW s \in Seq(AllTrees.stmts) PROVE \E k \in Nat : s \in Seq(TreesOfHeight(k).stmts)
  <2>1. ASSUME NEW i \in 1..Len(s) PROVE \E n \in Nat : s[i] \in TreesOfHeight(n).stmts
    <3>1. s[i] \in AllTrees.stmts OBVIOUS
    <3>. QED BY <3>1 DEF AllTrees
  <2>2. PICK h : h = [i \in 1..Len(s) |-> CHOOSE n \in Nat : s[i] \in TreesOfHeight(n).stmts] OBVIOUS
  <2>3. h \in [1..Len(s) -> Nat] /\ \A i \in 1..Len(s) : s[i] \in TreesOfHeight(h[i]).stmts BY <2>1, <2>2
  <2>4. Len(s) \in Nat OBVIOUS
  <2>5. PICK k \in Nat : \A i \in 1..Len(s) : Within(TreesOfHeight(h[i]), TreesOfHeight(k))
    BY <2>3, <2>4, HeightOfMany
  <2>6. \A i \in 1..Len(s) : s[i] \in TreesOfHeight(k).stmts BY <2>3, <2>5 DEF Within
  <2>7. IsSequence(s) BY IsSequenceIn
  <2>. QED BY <2>6, <2>7, InSeq
<1>. QED BY <1>1, <1>2

LEMMA AllTreesMade ==
  Made(AllTrees)
PROOF
<1>1. ASSUME NEW n \in Nat, TreesOfHeight(n) # NoTrees
      PROVE  /\ TreesOfHeight(n).aexps \subseteq ArithmeticExprs(AllTrees)
             /\ TreesOfHeight(n).rexps \subseteq RelationalExprs(AllTrees)
             /\ TreesOfHeight(n).stmts \subseteq Statements(AllTrees)
             /\ TreesOfHeight(n).blocks \subseteq BlockStmts(AllTrees)
  <2>1. n # 0 BY <1>1, RoundAfterRound
  <2>2. PICK m \in Nat : n = m + 1
    <3>1. n - 1 \in Nat /\ n = (n - 1) + 1 BY <2>1
    <3>. QED BY <3>1
  <2>3. TreesOfHeight(n) = Built(TreesOfHeight(m)) BY <2>2, RoundAfterRound
  <2>4. Within(Built(TreesOfHeight(m)), Built(AllTrees)) BY HeightsWithinAll, BuiltWithin
  <2>. QED BY <2>3, <2>4 DEF Within, Built
<1>2. ASSUME NEW n \in Nat
      PROVE  /\ TreesOfHeight(n).aexps \subseteq ArithmeticExprs(AllTrees)
             /\ TreesOfHeight(n).rexps \subseteq RelationalExprs(AllTrees)
             /\ TreesOfHeight(n).stmts \subseteq Statements(AllTrees)
             /\ TreesOfHeight(n).blocks \subseteq BlockStmts(AllTrees)
  <2>1. CASE TreesOfHeight(n) = NoTrees BY <2>1 DEF NoTrees
  <2>2. CASE TreesOfHeight(n) # NoTrees BY <1>1, <2>2
  <2>. QED BY <2>1, <2>2
<1>3. AllTrees.aexps \subseteq ArithmeticExprs(AllTrees)
  <2>. SUFFICES ASSUME NEW e \in AllTrees.aexps PROVE e \in ArithmeticExprs(AllTrees) OBVIOUS
  <2>1. PICK n \in Nat : e \in TreesOfHeight(n).aexps BY DEF AllTrees
  <2>. QED BY <1>2, <2>1
<1>4. AllTrees.rexps \subseteq RelationalExprs(AllTrees)
  <2>. SUFFICES ASSUME NEW e \in AllTrees.rexps PROVE e \in RelationalExprs(AllTrees) OBVIOUS
  <2>1. PICK n \in Nat : e \in TreesOfHeight(n).rexps BY DEF AllTrees
  <2>. QED BY <1>2, <2>1
<1>5. AllTrees.stmts \subseteq Statements(AllTrees)
  <2>. SUFFICES ASSUME NEW e \in AllTrees.stmts PROVE e \in Statements(AllTrees) OBVIOUS
  <2>1. PICK n \in Nat : e \in TreesOfHeight(n).stmts BY DEF AllTrees
  <2>. QED BY <1>2, <2>1
<1>6. AllTrees.blocks \subseteq BlockStmts(AllTrees)
  <2>. SUFFICES ASSUME NEW e \in AllTrees.blocks PROVE e \in BlockStmts(AllTrees) OBVIOUS
  <2>1. PICK n \in Nat : e \in TreesOfHeight(n).blocks BY DEF AllTrees
  <2>. QED BY <1>2, <2>1
<1>. QED BY <1>3, <1>4, <1>5, <1>6 DEF Made

\* What can be made of the trees of some height is among all trees.
LEMMA BuiltFromHeight ==
  ASSUME NEW k \in Nat
  PROVE  /\ ArithmeticExprs(TreesOfHeight(k)) \subseteq AllTrees.aexps
         /\ RelationalExprs(TreesOfHeight(k)) \subseteq AllTrees.rexps
         /\ Statements(TreesOfHeight(k)) \subseteq AllTrees.stmts
         /\ BlockStmts(TreesOfHeight(k)) \subseteq AllTrees.blocks
PROOF
<1>1. TreesOfHeight(k + 1) = Built(TreesOfHeight(k)) BY RoundAfterRound
<1>2. Within(TreesOfHeight(k + 1), AllTrees) BY HeightsWithinAll
<1>. QED BY <1>1, <1>2 DEF Within, Built

\* Two trees are among those of one height.
LEMMA PairOfHeight ==
  /\ \A a, b \in AllTrees.aexps : \E k \in Nat : {a, b} \subseteq TreesOfHeight(k).aexps
  /\ \A a, b \in AllTrees.rexps : \E k \in Nat : {a, b} \subseteq TreesOfHeight(k).rexps
  /\ \A g \in AllTrees.rexps, a, b \in AllTrees.blocks :
       \E k \in Nat : g \in TreesOfHeight(k).rexps /\ {a, b} \subseteq TreesOfHeight(k).blocks
PROOF
<1>1. ASSUME NEW a \in AllTrees.aexps, NEW b \in AllTrees.aexps
      PROVE  \E k \in Nat : {a, b} \subseteq TreesOfHeight(k).aexps
  <2>1. PICK m \in Nat : a \in TreesOfHeight(m).aexps BY DEF AllTrees
  <2>2. PICK n \in Nat : b \in TreesOfHeight(n).aexps BY DEF AllTrees
  <2>3. PICK k \in Nat : Within(TreesOfHeight(m), TreesOfHeight(k)) /\ Within(TreesOfHeight(n), TreesOfHeight(k))
    BY HeightOfTwo
  <2>. QED BY <2>1, <2>2, <2>3 DEF Within
<1>2. ASSUME NEW a \in AllTrees.rexps, NEW b \in AllTrees.rexps
      PROVE  \E k \in Nat : {a, b} \subseteq TreesOfHeight(k).rexps
  <2>1. PICK m \in Nat : a \in TreesOfHeight(m).rexps BY DEF AllTrees
  <2>2. PICK n \in Nat : b \in TreesOfHeight(n).rexps BY DEF AllTrees
  <2>3. PICK k \in Nat : Within(TreesOfHeight(m), TreesOfHeight(k)) /\ Within(TreesOfHeight(n), TreesOfHeight(k))
    BY HeightOfTwo
  <2>. QED BY <2>1, <2>2, <2>3 DEF Within
<1>3. ASSUME NEW g \in AllTrees.rexps, NEW a \in AllTrees.blocks, NEW b \in AllTrees.blocks
      PROVE  \E k \in Nat : g \in TreesOfHeight(k).rexps /\ {a, b} \subseteq TreesOfHeight(k).blocks
  <2>1. PICK m \in Nat : a \in TreesOfHeight(m).blocks BY DEF AllTrees
  <2>2. PICK n \in Nat : b \in TreesOfHeight(n).blocks BY DEF AllTrees
  <2>3. PICK l \in Nat : g \in TreesOfHeight(l).rexps BY DEF AllTrees
  <2>4. PICK j \in Nat : Within(TreesOfHeight(m), TreesOfHeight(j)) /\ Within(TreesOfHeight(n), TreesOfHeight(j))
    BY HeightOfTwo
  <2>5. PICK k \in Nat : Within(TreesOfHeight(j), TreesOfHeight(k)) /\ Within(TreesOfHeight(l), TreesOfHeight(k))
    BY HeightOfTwo
  <2>. QED BY <2>1, <2>2, <2>3, <2>4, <2>5 DEF Within
<1>. QED BY <1>1, <1>2, <1>3

LEMMA AllTreesClosed ==
  Closed(AllTrees)
PROOF
<1>. DEFINE A == AllTrees
            H(k) == TreesOfHeight(k)
<1>1. ASSUME NEW e \in ArithmeticExprs(A) PROVE \E k \in Nat : e \in ArithmeticExprs(H(k))
  <2>1. CASE e \in [op : ArithmeticOps, lhs : A.aexps, rhs : A.aexps]
    <3>1. PICK o \in ArithmeticOps, a \in A.aexps, b \in A.aexps : e = [op |-> o, lhs |-> a, rhs |-> b] BY <2>1
    <3>2. PICK k \in Nat : {a, b} \subseteq H(k).aexps BY PairOfHeight
    <3>3. e \in [op : ArithmeticOps, lhs : H(k).aexps, rhs : H(k).aexps] BY <3>1, <3>2
    <3>. QED BY <3>3 DEF ArithmeticExprs
  <2>2. CASE e \notin [op : ArithmeticOps, lhs : A.aexps, rhs : A.aexps]
    <3>1. 0 \in Nat /\ e \in ArithmeticExprs(H(0)) BY <2>2 DEF ArithmeticExprs
    <3>. QED BY <3>1
  <2>. QED BY <2>1, <2>2
<1>2. ASSUME NEW e \in RelationalExprs(A) PROVE \E k \in Nat : e \in RelationalExprs(H(k))
  <2>1. CASE e \in [op : RelationalOps, lhs : A.aexps, rhs : A.aexps]
    <3>1. PICK o \in RelationalOps, a \in A.aexps, b \in A.aexps : e = [op |-> o, lhs |-> a, rhs |-> b] BY <2>1
    <3>2. PICK k \in Nat : {a, b} \subseteq H(k).aexps BY PairOfHeight
    <3>3. e \in [op : RelationalOps, lhs : H(k).aexps, rhs : H(k).aexps] BY <3>1, <3>2
    <3>. QED BY <3>3 DEF RelationalExprs
  <2>2. CASE e \in [op : LogicalOps, lhs : A.rexps, rhs : A.rexps]
    <3>1. PICK o \in LogicalOps, a \in A.rexps, b \in A.rexps : e = [op |-> o, lhs |-> a, rhs |-> b] BY <2>2
    <3>2. PICK k \in Nat : {a, b} \subseteq H(k).rexps BY PairOfHeight
    <3>3. e \in [op : LogicalOps, lhs : H(k).rexps, rhs : H(k).rexps] BY <3>1, <3>2
    <3>. QED BY <3>3 DEF RelationalExprs
  <2>3. CASE e \in [op : {"not"}, operand : A.rexps]
    <3>1. PICK a \in A.rexps : e = [op |-> "not", operand |-> a] BY <2>3
    <3>2. PICK k \in Nat : {a, a} \subseteq H(k).rexps BY PairOfHeight
    <3>3. e \in [op : {"not"}, operand : H(k).rexps] BY <3>1, <3>2
    <3>. QED BY <3>3 DEF RelationalExprs
  <2>. QED BY <2>1, <2>2, <2>3 DEF RelationalExprs
<1>3. ASSUME NEW e \in FunctionCalls(A) PROVE \E k \in Nat : e \in FunctionCalls(H(k))
  <2>1. PICK f \in STRING, s \in Seq(A.aexps) : e = [op |-> "call", callee_name |-> f, arguments |-> s]
    BY DEF FunctionCalls
  <2>2. PICK k \in Nat : s \in Seq(H(k).aexps) BY HeightOfLists
  <2>. QED BY <2>1, <2>2 DEF FunctionCalls
<1>4. ASSUME NEW e \in Statements(A) PROVE \E k \in Nat : e \in Statements(H(k))
  <2>1. CASE e \in [op : {"assign"}, lhs : Paths, rhs : A.aexps \cup FunctionCalls(A)]
    <3>1. PICK l \in Paths, r \in A.aexps \cup FunctionCalls(A) : e = [op |-> "assign", lhs |-> l, rhs |-> r]
      BY <2>1
    <3>2. \E k \in Nat : r \in H(k).aexps \cup FunctionCalls(H(k))
      <4>1. CASE r \in A.aexps
        <5>1. PICK k \in Nat : {r, r} \subseteq H(k).aexps BY <4>1, PairOfHeight
        <5>. QED BY <5>1
      <4>2. CASE r \in FunctionCalls(A) BY <4>2, <1>3
      <4>. QED BY <3>1, <4>1, <4>2
    <3>3. PICK k \in Nat : r \in H(k).aexps \cup FunctionCalls(H(k)) BY <3>2
    <3>4. e \in [op : {"assign"}, lhs : Paths, rhs : H(k).aexps \cup FunctionCalls(H(k))] BY <3>1, <3>3
    <3>. QED BY <3>4 DEF Statements
  <2>2. CASE e \in [op : {"if"}, guard : A.rexps, true_branch : A.blocks, false_branch : A.blocks]
    <3>1. PICK g \in A.rexps, a \in A.blocks, b \in A.blocks :
            e = [op |-> "if", guard |-> g, true_branch |-> a, false_branch |-> b] BY <2>2
    <3>2. PICK k \in Nat : g \in H(k).rexps /\ {a, b} \subseteq H(k).blocks BY PairOfHeight
    <3>3. e \in [op : {"if"}, guard : H(k).rexps, true_branch : H(k).blocks, false_branch : H(k).blocks]
      BY <3>1, <3>2
    <3>. QED BY <3>3 DEF Statements
  <2>3. CASE e \in [op : {"while"}, guard : A.rexps, body : A.blocks]
    <3>1. PICK g \in A.rexps, a \in A.blocks : e = [op |-> "while", guard |-> g, body |-> a] BY <2>3
    <3>2. PICK k \in Nat : g \in H(k).rexps /\ {a, a} \subseteq H(k).blocks BY PairOfHeight
    <3>3. e \in [op : {"while"}, guard : H(k).rexps, body : H(k).blocks] BY <3>1, <3>2
    <3>. QED BY <3>3 DEF Statements
  <2>. QED BY <2>1, <2>2, <2>3 DEF Statements
<1>5. ASSUME NEW e \in BlockStmts(A) PROVE \E k \in Nat : e \in BlockStmts(H(k))
  <2>1. PICK ds \in Seq(Declarations), s \in Seq(A.stmts) : e = [op |-> "block", decls |-> ds, stmts |-> s]
    BY DEF BlockStmts
  <2>2. PICK k \in Nat : s \in Seq(H(k).stmts) BY HeightOfLists
  <2>. QED BY <2>1, <2>2 DEF BlockStmts
<1>. QED BY <1>1, <1>2, <1>4, <1>5, BuiltFromHeight DEF Closed

-----------------------------------------------------------------------------
\* There are sets of trees that hold exactly what the constructors of ast.h
\* make of them: what the theorems about the parser and the code generator
\* suppose of the trees can be had.
THEOREM TreesExist ==
  Closed(AllTrees) /\ Made(AllTrees)
BY AllTreesClosed, AllTreesMade

=============================================================================
