----------------------------- MODULE LexerProofs -----------------------------
(***************************************************************************)
(* What tokenize() promises for texts of any length, whatever the          *)
(* automata: it stays inside the text, always moves on, and returns what   *)
(* Tokenizes says.  All that is assumed of the automata is that their      *)
(* edges lead to states of theirs and that the empty text is no token.     *)
(***************************************************************************)
EXTENDS Lexer, ProofBasics, FiniteSetTheorems

Spans == Seq([from : Nat, to : Nat])

\* Elements of sequences, and what Append leaves of them.
LEMMA SeqElement ==
  ASSUME NEW S, NEW s \in Seq(S), NEW k \in DOMAIN s
  PROVE  s[k] \in S
OBVIOUS

LEMMA SeqAppended ==
  ASSUME NEW S, NEW s \in Seq(S), NEW e \in S
  PROVE  /\ Len(s) \in Nat /\ DOMAIN s = 1..Len(s)
         /\ DOMAIN Append(s, e) = 1..(Len(s) + 1)
         /\ \A k \in 1..Len(s) : Append(s, e)[k] = s[k] /\ s[k] \in S
         /\ Append(s, e)[Len(s) + 1] = e
OBVIOUS

-----------------------------------------------------------------------------
(* Automata. *)

\* The states that epsilon edges lead to from those of qs.
OneEdgeFrom(nfa, qs) == UNION {nfa.epsilonTransitions[q] : q \in qs \cap DOMAIN nfa.epsilonTransitions}
IsClosed(nfa, qs) == OneEdgeFrom(nfa, qs) \subseteq qs
ClosedAround(nfa, qs) == {c \in SUBSET States(nfa) : qs \subseteq c /\ IsClosed(nfa, c)}
LeastClosed(nfa, qs) == {q \in States(nfa) : \A c \in ClosedAround(nfa, qs) : q \in c}

LEMMA MoreEdges ==
  ASSUME NEW nfa, IsAutomaton(nfa), NEW qs \in SUBSET States(nfa)
  PROVE  /\ OneEdgeFrom(nfa, qs) \subseteq States(nfa)
         /\ \A c \in SUBSET States(nfa) : qs \subseteq c => OneEdgeFrom(nfa, qs) \subseteq OneEdgeFrom(nfa, c)
BY DEF IsAutomaton, OneEdgeFrom

LEMMA LeastClosedStep ==
  ASSUME NEW nfa, IsAutomaton(nfa), NEW qs \in SUBSET States(nfa)
  PROVE  /\ IsClosed(nfa, qs) => LeastClosed(nfa, qs) = qs
         /\ LeastClosed(nfa, qs) = LeastClosed(nfa, qs \cup OneEdgeFrom(nfa, qs))
PROOF
<1>1. ASSUME IsClosed(nfa, qs) PROVE LeastClosed(nfa, qs) = qs
  BY <1>1 DEF LeastClosed, ClosedAround
<1>2. ASSUME NEW c \in ClosedAround(nfa, qs) PROVE c \in ClosedAround(nfa, qs \cup OneEdgeFrom(nfa, qs))
  BY <1>2, MoreEdges DEF ClosedAround, IsClosed
<1>3. ASSUME NEW c \in ClosedAround(nfa, qs \cup OneEdgeFrom(nfa, qs)) PROVE c \in ClosedAround(nfa, qs)
  BY <1>3 DEF ClosedAround
<1>. QED BY <1>1, <1>2, <1>3 DEF LeastClosed

\* epsClosure() finds the least set of states that holds those it is given
\* and that no epsilon edge leaves, whatever the automaton.
THEOREM EpsClosureIsLeast ==
  ASSUME NEW nfa, IsAutomaton(nfa), NEW qs \in SUBSET States(nfa)
  PROVE  epsClosure(nfa, qs) = LeastClosed(nfa, qs)
PROOF
<1>. DEFINE Steps(f) == f = [s \in SUBSET States(nfa) |->
                               IF IsClosed(nfa, s) THEN s ELSE f[s \cup OneEdgeFrom(nfa, s)]]
<1>1. Steps([s \in SUBSET States(nfa) |-> LeastClosed(nfa, s)])
  <2>. DEFINE l == [s \in SUBSET States(nfa) |-> LeastClosed(nfa, s)]
  <2>1. ASSUME NEW s \in SUBSET States(nfa)
        PROVE  LeastClosed(nfa, s) = IF IsClosed(nfa, s) THEN s ELSE l[s \cup OneEdgeFrom(nfa, s)]
    <3>1. s \cup OneEdgeFrom(nfa, s) \in SUBSET States(nfa) BY MoreEdges
    <3>. QED BY <3>1, LeastClosedStep
  <2>. QED BY <2>1
<1>2. PICK closure : Steps(closure) /\ epsClosure(nfa, qs) = closure[qs]
  <2>. DEFINE chosen == CHOOSE f : Steps(f)
  <2>1. Steps(chosen) BY <1>1
  <2>2. epsClosure(nfa, qs) = chosen[qs] BY DEF epsClosure, IsClosed, OneEdgeFrom
  <2>. QED BY <2>1, <2>2
<1>. DEFINE Wrong == {s \in SUBSET States(nfa) : closure[s] # LeastClosed(nfa, s)}
            Sizes == {Cardinality(States(nfa) \ s) : s \in Wrong}
<1>3. IsFiniteSet(States(nfa))
  <2>1. 1 \in Int /\ nfa.last \in Int BY DEF IsAutomaton
  <2>. QED BY ONLY <2>1, FS_Interval DEF States
<1>4. ASSUME NEW s \in SUBSET States(nfa)
      PROVE  IsFiniteSet(States(nfa) \ s) /\ Cardinality(States(nfa) \ s) \in Nat
  <2>1. States(nfa) \ s \in SUBSET States(nfa) OBVIOUS
  <2>2. IsFiniteSet(States(nfa) \ s) BY ONLY <2>1, <1>3, FS_Subset
  <2>. QED BY ONLY <2>2, FS_CardinalityType
<1>5. Wrong = {}
  <2>. SUFFICES ASSUME Wrong # {} PROVE FALSE OBVIOUS
  <2>1. PICK s \in Wrong : \A r \in Wrong : Cardinality(States(nfa) \ s) <= Cardinality(States(nfa) \ r)
    <3>1. Sizes \in SUBSET Nat /\ Sizes # {} BY <1>4
    <3>2. PICK n \in Sizes : \A k \in Sizes : n <= k BY ONLY <3>1, LeastElement
    <3>. QED BY <3>2
  <2>. DEFINE more == s \cup OneEdgeFrom(nfa, s)
  <2>2. more \in SUBSET States(nfa) BY MoreEdges
  <2>3. closure[s] = IF IsClosed(nfa, s) THEN s ELSE closure[more] BY <1>2
  <2>4. ~IsClosed(nfa, s) BY <2>3, LeastClosedStep
  <2>5. closure[more] # LeastClosed(nfa, more) BY <2>3, <2>4, LeastClosedStep
  <2>6. Cardinality(States(nfa) \ s) <= Cardinality(States(nfa) \ more) BY <2>1, <2>2, <2>5
  <2>7. States(nfa) \ more \in SUBSET (States(nfa) \ s) /\ States(nfa) \ more # States(nfa) \ s
    BY <2>2, <2>4 DEF IsClosed
  <2>8. IsFiniteSet(States(nfa) \ s) BY <1>4
  <2>9. Cardinality(States(nfa) \ more) \in Nat /\ Cardinality(States(nfa) \ s) \in Nat BY <1>4, <2>2
  <2>10. Cardinality(States(nfa) \ more) < Cardinality(States(nfa) \ s)
    <3>1. /\ Cardinality(States(nfa) \ more) <= Cardinality(States(nfa) \ s)
          /\ Cardinality(States(nfa) \ s) # Cardinality(States(nfa) \ more)
      BY ONLY <2>7, <2>8, FS_Subset
    <3>. QED BY ONLY <3>1, <2>9
  <2>. QED BY ONLY <2>6, <2>10, <2>9
<1>. QED BY <1>2, <1>5

-----------------------------------------------------------------------------
(* What munch() is for, and what tokenize() returns, without their loops. *)

\* The states automaton m is in at each place of t, having begun at from.
Reads(m, t, from) ==
  LET reads[k \in from..Len(t)] ==
        IF k = from THEN Start[m] ELSE delta(NFAOf(m), reads[k - 1], Char(t, k))
  IN  reads

Accepting(m, t, from, to) == Reads(m, t, from)[to] \cap NFAOf(m).accept
Accepts(m, t, from, to)   == anyAccepting(NFAOf(m), Reads(m, t, from)[to])

\* The text up to the place to is the longest that m accepts; there is none.
Longest(m, t, from, to) ==
  to \in from..Len(t) /\ Accepts(m, t, from, to) /\ \A k \in (to + 1)..Len(t) : ~Accepts(m, t, from, k)
AcceptsNone(m, t, from) == \A k \in from..Len(t) : ~Accepts(m, t, from, k)

\* The white space that follows the place from ends at to.
SkippedTo(t, from, to) ==
  Longest("whitespace", t, from, to) \/ (AcceptsNone("whitespace", t, from) /\ to = from)

TypeAt(t, from, to) == getMostPrioritizedTokenType(Accepting("lexeme", t, from, to))
TokenAt(t, from, to) == getToken(TypeAt(t, from, to), SubSeq(t, from + 1, to))
TooLarge(t, from, to) ==
  TypeAt(t, from, to) = "Num" /\ Number(SubSeq(t, from + 1, to)) \notin (-MaxInt - 1)..MaxInt

EndBefore(ss, k) == IF k = 1 THEN 0 ELSE ss[k - 1].to
LatestEnd == EndBefore(spans, Len(spans) + 1)

\* Every token is the longest text that lexemeNFA accepts behind the white
\* space after the token before, of the type preferred among those it is
\* accepted as; and tokenize() stops where the text ends, where lexemeNFA
\* accepts nothing, or where it accepts a number too large for an int.
Tokenizes ==
  /\ Len(tokens) = Len(spans)
  /\ \A k \in DOMAIN spans :
       /\ SkippedTo(text, EndBefore(spans, k), spans[k].from)
       /\ Longest("lexeme", text, spans[k].from, spans[k].to)
       /\ tokens[k] = TokenAt(text, spans[k].from, spans[k].to)
  /\ outcome # "lexing" => SkippedTo(text, LatestEnd, currentIndex)
  /\ outcome = "tokens"  => currentIndex = Len(text)
  /\ outcome = "invalid" => AcceptsNone("lexeme", text, currentIndex)
  /\ outcome = "out_of_range" =>
       \E to \in 0..Len(text) : Longest("lexeme", text, currentIndex, to) /\ TooLarge(text, currentIndex, to)

\* What is known in munch() at place at of t, the automaton m having begun at
\* from: the states it is in, and the last place where it accepted.
MunchKnows(m, t, from, at, qs, last) ==
  /\ qs = Reads(m, t, from)[at]
  /\ last # NoAccept =>
       /\ last.index \in from..at /\ Accepts(m, t, from, last.index)
       /\ last.states = Accepting(m, t, from, last.index)
  /\ \A k \in from..at : Accepts(m, t, from, k) => last # NoAccept /\ k <= last.index

LEMMA ReadsStep ==
  ASSUME NEW m, NEW t, Len(t) \in Nat, NEW from \in 0..Len(t)
  PROVE  /\ Reads(m, t, from)[from] = Start[m]
         /\ \A k \in from..(Len(t) - 1) :
              Reads(m, t, from)[k + 1] = delta(NFAOf(m), Reads(m, t, from)[k], Char(t, k + 1))
PROOF
<1>. DEFINE After(qs, k) == delta(NFAOf(m), qs, Char(t, k))
<1>. DEFINE Runs(r, to) ==
       /\ r = [k \in from..to |-> r[k]] /\ r[from] = Start[m]
       /\ \A k \in from..(to - 1) : r[k + 1] = After(r[k], k + 1)
<1>. PICK len \in Nat : len = Len(t) OBVIOUS
<1>. DEFINE n == len - from
            T == {d \in 0..n : \E r : Runs(r, from + d)}
<1>. HIDE DEF After
<1>0. from \in Nat /\ from <= len /\ n \in Nat OBVIOUS
<1>1. 0 \in T
  <2>1. PICK r : r = [k \in from..from |-> Start[m]] OBVIOUS
  <2>2. Runs(r, from) BY <2>1
  <2>3. from + 0 = from /\ 0 \in 0..n BY <1>0
  <2>. HIDE DEF Runs, n
  <2>. QED BY ONLY <2>2, <2>3 DEF T
<1>2. ASSUME NEW d \in 0..(n - 1), d \in T PROVE d + 1 \in T
  <2>1. PICK r : Runs(r, from + d) BY <1>2
  <2>2. PICK to \in from..(len - 1) : to = from + d BY <1>0
  <2>3. PICK r2 : r2 = [k \in from..(to + 1) |-> IF k <= to THEN r[k] ELSE After(r[to], to + 1)] OBVIOUS
  <2>4. /\ r2 = [k \in from..(to + 1) |-> r2[k]] /\ \A k \in from..to : r2[k] = r[k]
        /\ r2[to + 1] = After(r[to], to + 1)
    BY <2>3
  <2>5. ASSUME NEW k \in from..to PROVE r2[k + 1] = After(r2[k], k + 1)
    <3>1. CASE k = to BY <3>1, <2>4
    <3>2. CASE k \in from..(to - 1)
      <4>0. k \in from..to /\ k + 1 \in from..to BY <3>2, <1>0
      <4>1. r2[k + 1] = r[k + 1] /\ r2[k] = r[k] BY ONLY <4>0, <2>4
      <4>. QED BY <4>1, <3>2, <2>1, <2>2
    <3>. QED BY <3>1, <3>2
  <2>6. r2[from] = Start[m]
    <3>1. from \in from..to BY <1>0
    <3>. QED BY ONLY <3>1, <2>1, <2>4
  <2>7. from + (d + 1) = to + 1 /\ from..((from + (d + 1)) - 1) = from..to BY <2>2
  <2>8. Runs(r2, from + (d + 1)) BY <2>4, <2>5, <2>6, <2>7
  <2>9. d + 1 \in 0..n BY <1>0
  <2>. HIDE DEF Runs, n
  <2>. QED BY ONLY <2>8, <2>9 DEF T
<1>3. n \in T
  <2>. HIDE DEF T, n
  <2>1. 0..n \subseteq T BY ONLY <1>0, <1>1, <1>2, InductionUpTo
  <2>. QED BY <2>1, <1>0
<1>4. PICK r : Runs(r, len)
  <2>1. from + n = len OBVIOUS
  <2>. QED BY <1>3, <2>1
<1>. DEFINE Equation(f) == f = [k \in from..len |-> IF k = from THEN Start[m] ELSE After(f[k - 1], k)]
<1>5. Equation(r)
  <2>1. ASSUME NEW k \in from..len PROVE r[k] = IF k = from THEN Start[m] ELSE After(r[k - 1], k)
    <3>1. CASE k = from BY <3>1, <1>4
    <3>2. CASE k \in (from + 1)..len
      <4>1. k - 1 \in from..(len - 1) /\ (k - 1) + 1 = k /\ k # from BY <3>2
      <4>. QED BY <4>1, <1>4
    <3>. QED BY <3>1, <3>2
  <2>. QED BY <2>1, <1>4
<1>6. Reads(m, t, from) = CHOOSE c : Equation(c) BY DEF Reads, After
<1>7. PICK c : c = Reads(m, t, from) /\ Equation(c)
  <2>. DEFINE chosen == CHOOSE c : Equation(c)
  <2>1. Equation(chosen)
    <3>. HIDE DEF Equation
    <3>. QED BY <1>5
  <2>. HIDE DEF Equation
  <2>. QED BY <2>1, <1>6
<1>8. c[from] = Start[m] BY <1>7
<1>9. ASSUME NEW k \in from..(len - 1) PROVE c[k + 1] = After(c[k], k + 1)
  <2>1. k + 1 \in from..len /\ k + 1 # from /\ (k + 1) - 1 = k OBVIOUS
  <2>. QED BY <2>1, <1>7
<1>. QED BY <1>7, <1>8, <1>9 DEF After

\* An automaton in no state comes into none.
LEMMA DeadStays ==
  ASSUME NEW m \in Munchers, NEW t, Len(t) \in Nat, NEW from \in 0..Len(t),
         NEW at \in from..Len(t), Reads(m, t, from)[at] = {}
  PROVE  \A k \in at..Len(t) : Reads(m, t, from)[k] = {}
PROOF
<1>1. ASSUME NEW c PROVE delta(NFAOf(m), {}, c) = {}
  <2>1. IsAutomaton(NFAOf(m)) BY AutomataAssumption
  <2>2. epsClosure(NFAOf(m), {}) = LeastClosed(NFAOf(m), {}) BY <2>1, EpsClosureIsLeast
  <2>3. IsClosed(NFAOf(m), {}) BY DEF IsClosed, OneEdgeFrom
  <2>4. LeastClosed(NFAOf(m), {}) = {} BY <2>1, <2>3, LeastClosedStep
  <2>5. UNION {{e.to : e \in {d \in NFAOf(m).transitions[q] : c \in d.chars}} :
                 q \in {} \cap DOMAIN NFAOf(m).transitions} = {} OBVIOUS
  <2>. QED BY <2>2, <2>4, <2>5 DEF delta
<1>. PICK r : r = Reads(m, t, from) OBVIOUS
<1>. PICK len \in Nat : len = Len(t) OBVIOUS
<1>. DEFINE n == len - at
            T == {d \in 0..n : r[at + d] = {}}
<1>2. n \in Nat /\ 0 \in T OBVIOUS
<1>3. ASSUME NEW d \in 0..(n - 1), d \in T PROVE d + 1 \in T
  <2>1. PICK k \in from..(len - 1) : k = at + d OBVIOUS
  <2>2. r[k + 1] = delta(NFAOf(m), r[k], Char(t, k + 1))
    BY ReadsStep
  <2>3. r[k] = {} BY <1>3, <2>1
  <2>4. r[k + 1] = {} BY ONLY <1>1, <2>2, <2>3
  <2>5. d + 1 \in 0..n /\ at + (d + 1) = k + 1 BY <2>1
  <2>. QED BY <2>4, <2>5
<1>4. 0..n \subseteq T
  <2>. HIDE DEF T, n
  <2>. QED BY ONLY <1>2, <1>3, InductionUpTo
<1>5. ASSUME NEW k \in at..Len(t) PROVE Reads(m, t, from)[k] = {}
  <2>1. k - at \in 0..n /\ at + (k - at) = k OBVIOUS
  <2>2. k - at \in T BY ONLY <1>4, <2>1
  <2>. QED BY <2>1, <2>2
<1>. QED BY <1>5

LEMMA AcceptKnows ==
  ASSUME NEW m, NEW t, NEW from \in Nat, NEW at \in Nat, NEW qs, NEW old, from <= at,
         qs = Reads(m, t, from)[at],
         old # NoAccept => /\ old.index \in from..(at - 1) /\ Accepts(m, t, from, old.index)
                           /\ old.states = Accepting(m, t, from, old.index),
         \A k \in from..(at - 1) : Accepts(m, t, from, k) => old # NoAccept /\ k <= old.index
  PROVE  MunchKnows(m, t, from, at, qs, Accept(NFAOf(m), at, qs, old))
PROOF
<1>. DEFINE new == Accept(NFAOf(m), at, qs, old)
<1>1. CASE anyAccepting(NFAOf(m), qs)
  <2>1. new = [index |-> at, states |-> qs \cap NFAOf(m).accept] BY <1>1 DEF Accept
  <2>2. new # NoAccept /\ new.index = at /\ new.states = Accepting(m, t, from, at)
    BY <2>1 DEF NoAccept, Accepting
  <2>3. Accepts(m, t, from, at) BY <1>1 DEF Accepts
  <2>. HIDE DEF new
  <2>4. MunchKnows(m, t, from, at, qs, new) BY <2>2, <2>3 DEF MunchKnows
  <2>. QED BY <2>4 DEF new
<1>2. CASE ~anyAccepting(NFAOf(m), qs)
  <2>1. new = old BY <1>2 DEF Accept
  <2>2. ~Accepts(m, t, from, at) BY <1>2 DEF Accepts
  <2>3. old # NoAccept => old.index \in from..at OBVIOUS
  <2>4. \A k \in from..at : k \in from..(at - 1) \/ k = at OBVIOUS
  <2>. HIDE DEF new
  <2>5. MunchKnows(m, t, from, at, qs, new) BY <2>1, <2>2, <2>3, <2>4 DEF MunchKnows
  <2>. QED BY <2>5 DEF new
<1>. QED BY <1>1, <1>2

LEMMA MunchBegins ==
  ASSUME NEW m, NEW t, Len(t) \in Nat, NEW from \in 0..Len(t)
  PROVE  MunchKnows(m, t, from, from, Start[m], Accept(NFAOf(m), from, Start[m], NoAccept))
PROOF
<1>1. Start[m] = Reads(m, t, from)[from] BY ReadsStep
<1>2. from..(from - 1) = {} OBVIOUS
<1>. QED BY <1>1, <1>2, AcceptKnows

LEMMA MunchAdvances ==
  ASSUME NEW m, NEW t, Len(t) \in Nat, NEW from \in 0..Len(t), NEW at \in from..(Len(t) - 1),
         NEW qs, NEW last, MunchKnows(m, t, from, at, qs, last)
  PROVE  LET to == delta(NFAOf(m), qs, Char(t, at + 1))
         IN  MunchKnows(m, t, from, at + 1, to, Accept(NFAOf(m), at + 1, to, last))
PROOF
<1>. DEFINE to == delta(NFAOf(m), qs, Char(t, at + 1))
<1>1. to = Reads(m, t, from)[at + 1] BY ReadsStep DEF MunchKnows
<1>2. (at + 1) - 1 = at /\ at + 1 \in Nat /\ from \in Nat /\ from <= at + 1 OBVIOUS
<1>. HIDE DEF to
<1>3. PICK next \in Nat : next = at + 1 /\ next - 1 = at BY <1>2
<1>4. /\ last # NoAccept => /\ last.index \in from..(next - 1) /\ Accepts(m, t, from, last.index)
                           /\ last.states = Accepting(m, t, from, last.index)
      /\ \A k \in from..(next - 1) : Accepts(m, t, from, k) => last # NoAccept /\ k <= last.index
  BY <1>3 DEF MunchKnows
<1>5. MunchKnows(m, t, from, next, to, Accept(NFAOf(m), next, to, last))
  BY ONLY <1>1, <1>2, <1>3, <1>4, AcceptKnows
<1>. QED BY <1>3, <1>5 DEF to

\* munch() returns the longest text accepted.
LEMMA MunchEnds ==
  ASSUME NEW m \in Munchers, NEW t, Len(t) \in Nat, NEW from \in 0..Len(t), NEW at \in from..Len(t),
         NEW qs, NEW last, MunchKnows(m, t, from, at, qs, last), qs = {} \/ at = Len(t)
  PROVE  /\ last # NoAccept => Longest(m, t, from, last.index)
         /\ last = NoAccept => AcceptsNone(m, t, from)
PROOF
<1>1. ASSUME NEW k \in (at + 1)..Len(t) PROVE ~Accepts(m, t, from, k)
  <2>1. qs = {} /\ Reads(m, t, from)[at] = {} BY DEF MunchKnows
  <2>2. Reads(m, t, from)[k] = {} BY <2>1, DeadStays
  <2>. QED BY <2>2 DEF Accepts, anyAccepting
<1>2. ASSUME NEW k \in from..at, Accepts(m, t, from, k) PROVE last # NoAccept /\ k <= last.index
  BY <1>2 DEF MunchKnows
<1>3. \A k \in from..Len(t) : k \in from..at \/ k \in (at + 1)..Len(t) OBVIOUS
<1>4. ASSUME last # NoAccept PROVE Longest(m, t, from, last.index)
  <2>1. last.index \in from..at /\ Accepts(m, t, from, last.index) BY <1>4 DEF MunchKnows
  <2>. QED BY <1>1, <1>2, <1>3, <2>1 DEF Longest
<1>. QED BY <1>1, <1>2, <1>3, <1>4 DEF AcceptsNone

-----------------------------------------------------------------------------
\* A lexeme that is found has a character.
MovesOn ==
  munching = "lexeme" /\ lastAccept # NoAccept => lastAccept.index > currentIndex

IInv == text \in Texts /\ spans \in Spans /\ TypeOK /\ MovesOn /\ SpansInOrder

\* munch() accepts nothing before it has run, but for white space.
LEMMA MunchStarts ==
  ASSUME NEW m \in Munchers, NEW at \in Nat, Munch(m, at)
  PROVE  /\ munching' = m /\ i' = at
         /\ lastAccept' = NoAccept \/ lastAccept'.index = at
         /\ m = "lexeme" => lastAccept' = NoAccept
PROOF
<1>1. munching' = m /\ i' = at BY DEF Munch
<1>2. lastAccept' = NoAccept \/ lastAccept'.index = at
  BY DEF Munch, Accept
<1>3. ASSUME m = "lexeme" PROVE lastAccept' = NoAccept
  BY <1>3, LexemeAssumption DEF Munch, Accept, NFAOf
<1>. QED BY <1>1, <1>2, <1>3

\* Adding a span behind the others keeps them in order.
LEMMA AppendInOrder ==
  ASSUME spans \in Spans, SpansInOrder, currentIndex \in Nat,
         NEW to \in Nat, currentIndex < to,
         spans' = Append(spans, [from |-> currentIndex, to |-> to]), currentIndex' = to
  PROVE  spans' \in Spans /\ SpansInOrder'
PROOF
<1>. PICK new \in [from : Nat, to : Nat] : new = [from |-> currentIndex, to |-> to] OBVIOUS
<1>1. spans' \in Spans BY DEF Spans
<1>2. /\ DOMAIN spans = 1..Len(spans) /\ DOMAIN spans' = 1..(Len(spans) + 1) /\ Len(spans) \in Nat
      /\ \A k \in 1..Len(spans) : spans'[k] = spans[k] /\ spans[k] \in [from : Nat, to : Nat]
      /\ spans'[Len(spans) + 1] = new
  <2>1. PICK S : S = [from : Nat, to : Nat] OBVIOUS
  <2>2. spans \in Seq(S) /\ new \in S /\ spans' = Append(spans, new) BY <2>1 DEF Spans
  <2>3. /\ DOMAIN spans = 1..Len(spans) /\ DOMAIN spans' = 1..(Len(spans) + 1) /\ Len(spans) \in Nat
        /\ \A k \in 1..Len(spans) : spans'[k] = spans[k] /\ spans[k] \in S
        /\ spans'[Len(spans) + 1] = new
    BY ONLY <2>2, SeqAppended
  <2>. QED BY <2>1, <2>3
<1>3. ASSUME NEW k \in DOMAIN spans'
      PROVE  spans'[k].from < spans'[k].to /\ spans'[k].to <= currentIndex'
  <2>1. CASE k \in 1..Len(spans)
    <3>1. spans[k].from < spans[k].to /\ spans[k].to <= currentIndex BY <2>1, <1>2 DEF SpansInOrder
    <3>2. spans[k].from \in Nat /\ spans[k].to \in Nat BY <2>1, <1>2
    <3>. QED BY <3>1, <3>2, <2>1, <1>2
  <2>2. CASE k = Len(spans) + 1 BY <2>2, <1>2
  <2>. QED BY <1>2, <2>1, <2>2
<1>4. ASSUME NEW j \in DOMAIN spans', NEW k \in DOMAIN spans', j < k
      PROVE  spans'[j].to <= spans'[k].from
  <2>1. j \in 1..Len(spans) /\ spans[j].to <= currentIndex BY <1>2, <1>4 DEF SpansInOrder
  <2>2. CASE k \in 1..Len(spans) BY <2>1, <2>2, <1>2, <1>4 DEF SpansInOrder
  <2>3. CASE k = Len(spans) + 1 BY <2>1, <2>3, <1>2
  <2>. QED BY <1>2, <2>2, <2>3
<1>. QED BY <1>1, <1>3, <1>4 DEF SpansInOrder

LEMMA InvInit == Init => IInv
PROOF
<1>. SUFFICES ASSUME Init PROVE IInv OBVIOUS
<1>1. text \in Texts /\ Len(text) \in Nat BY TextsAssumption DEF Init
<1>2. lastAccept = NoAccept \/ lastAccept.index = 0 BY DEF Init, Accept
<1>3. TypeOK BY <1>1, <1>2 DEF Init, TypeOK, Munchers
<1>4. spans \in Spans /\ SpansInOrder BY DEF Init, Spans, SpansInOrder
<1>5. MovesOn BY DEF Init, MovesOn
<1>. QED BY <1>1, <1>3, <1>4, <1>5 DEF IInv

LEMMA InvNext == IInv /\ [Next]_vars => IInv'
PROOF
<1>. SUFFICES ASSUME IInv, [Next]_vars PROVE IInv' OBVIOUS
<1>a. /\ text \in Texts /\ Len(text) \in Nat
      /\ currentIndex \in Nat /\ i \in Nat /\ currentIndex <= i /\ i <= Len(text)
  BY TextsAssumption DEF IInv, TypeOK
<1>b. lastAccept # NoAccept => lastAccept.index \in Nat /\ currentIndex <= lastAccept.index /\ lastAccept.index <= i
  BY <1>a DEF IInv, TypeOK
<1>1. CASE Advance
  <2>1. /\ i' = i + 1 /\ i' <= Len(text) /\ currentIndex <= i'
        /\ UNCHANGED <<text, currentIndex, munching, outcome, spans>>
    BY <1>1, <1>a DEF Advance
  <2>2. lastAccept' = lastAccept \/ lastAccept'.index = i + 1
    BY <1>1 DEF Advance, Accept
  <2>3. TypeOK' BY <2>1, <2>2, <1>a, <1>b DEF IInv, TypeOK
  <2>4. MovesOn' BY <2>1, <2>2, <1>a DEF IInv, MovesOn
  <2>5. text' \in Texts /\ spans' \in Spans /\ SpansInOrder' BY <2>1 DEF IInv, SpansInOrder
  <2>. QED BY <2>3, <2>4, <2>5 DEF IInv
<1>2. CASE SkipWhitespace
  <2>1. /\ text' = text /\ spans' = spans
        /\ currentIndex' = (IF lastAccept = NoAccept THEN currentIndex ELSE lastAccept.index)
    BY <1>2 DEF SkipWhitespace
  <2>2. currentIndex' \in Nat /\ currentIndex <= currentIndex' /\ currentIndex' <= i
    BY <2>1, <1>a, <1>b
  <2>3. SpansInOrder'
    <3>1. ASSUME NEW k \in DOMAIN spans PROVE spans[k].to <= currentIndex'
      <4>1. spans[k] \in [from : Nat, to : Nat] BY SeqElement DEF IInv, Spans
      <4>2. spans[k].to <= currentIndex BY DEF IInv, SpansInOrder
      <4>. QED BY <4>1, <4>2, <2>2, <1>a
    <3>. QED BY <3>1, <2>1 DEF IInv, SpansInOrder
  <2>4. TypeOK' /\ MovesOn'
    <3>1. CASE currentIndex' = Len(text)
      <4>1. outcome' = "tokens" /\ UNCHANGED <<munching, i, lastAccept>> BY <3>1, <1>2 DEF SkipWhitespace, munch
      <4>2. munching = "whitespace" BY <1>2 DEF SkipWhitespace
      <4>3. lastAccept = NoAccept \/ lastAccept.index = currentIndex' BY <2>1
      <4>. QED BY <4>1, <4>2, <4>3, <2>1, <2>2, <1>a DEF IInv, TypeOK, MovesOn
    <3>2. CASE currentIndex' # Len(text)
      <4>1. Munch("lexeme", currentIndex') /\ outcome' = outcome BY <3>2, <1>2 DEF SkipWhitespace
      <4>2. munching' = "lexeme" /\ i' = currentIndex' /\ lastAccept' = NoAccept
        BY <4>1, <2>2, MunchStarts DEF Munchers
      <4>. QED BY <4>1, <4>2, <2>1, <2>2, <1>a DEF IInv, TypeOK, MovesOn, Munchers
    <3>. QED BY <3>1, <3>2
  <2>. QED BY <2>1, <2>3, <2>4 DEF IInv
<1>3. CASE TakeToken
  <2>. DEFINE at == lastAccept.index
  <2>1. /\ munching = "lexeme" /\ lastAccept # NoAccept /\ currentIndex' = at
        /\ spans' = Append(spans, [from |-> currentIndex, to |-> at])
        /\ text' = text /\ outcome' = outcome /\ Munch("whitespace", at)
    BY <1>3 DEF TakeToken, LexemeFound
  <2>2. at \in Nat /\ currentIndex < at /\ at <= Len(text) BY <2>1, <1>a, <1>b DEF IInv, MovesOn
  <2>3. spans' \in Spans /\ SpansInOrder' BY <2>1, <2>2, <1>a, AppendInOrder DEF IInv
  <2>4. munching' = "whitespace" /\ i' = at /\ (lastAccept' = NoAccept \/ lastAccept'.index = at)
    BY <2>1, <2>2, MunchStarts DEF Munchers
  <2>5. TypeOK' BY <2>1, <2>2, <2>4, <1>a DEF IInv, TypeOK, Munchers
  <2>6. MovesOn' BY <2>4 DEF MovesOn
  <2>. QED BY <2>1, <2>3, <2>5, <2>6 DEF IInv
<1>4. CASE NumberTooLarge
  BY <1>4 DEF NumberTooLarge, munch, IInv, TypeOK, MovesOn, SpansInOrder
<1>5. CASE InvalidLexeme
  BY <1>5 DEF InvalidLexeme, munch, IInv, TypeOK, MovesOn, SpansInOrder
<1>6. CASE UNCHANGED vars
  BY <1>6 DEF vars, munch, IInv, TypeOK, MovesOn, SpansInOrder
<1>. QED BY <1>1, <1>2, <1>3, <1>4, <1>5, <1>6 DEF Next, Step, Finished

LEMMA Invariant == Spec => []IInv
PROOF BY InvInit, InvNext, PTL DEF Spec

-----------------------------------------------------------------------------
\* tokenize() and munch() stay within the text, however long it is.
THEOREM LexerTypeCorrect == Spec => []TypeOK
PROOF
<1>1. IInv => TypeOK BY DEF IInv
<1>. QED BY <1>1, Invariant, PTL

\* Tokens are never empty, never share a character and come in the order of
\* the text, whatever the automata accept but the empty text.
THEOREM TokensInOrder == Spec => []SpansInOrder
PROOF
<1>1. IInv => SpansInOrder BY DEF IInv
<1>. QED BY <1>1, Invariant, PTL

\* tokenize() never goes back: what has been made a token, or skipped, is not
\* read again.
THEOREM NeverBack == Spec => [][currentIndex' >= currentIndex]_vars
PROOF
<1>1. IInv /\ [Next]_vars => [currentIndex' >= currentIndex]_vars
  <2>. SUFFICES ASSUME IInv, [Next]_vars PROVE [currentIndex' >= currentIndex]_vars OBVIOUS
  <2>1. currentIndex \in Nat BY TextsAssumption DEF IInv, TypeOK
  <2>2. lastAccept # NoAccept => lastAccept.index \in Nat /\ currentIndex <= lastAccept.index
    BY TextsAssumption DEF IInv, TypeOK
  <2>3. CASE currentIndex' = currentIndex BY <2>1, <2>3
  <2>4. CASE SkipWhitespace BY <2>1, <2>2, <2>4 DEF SkipWhitespace
  <2>5. CASE TakeToken BY <2>1, <2>2, <2>5 DEF TakeToken, LexemeFound
  <2>. QED BY <2>3, <2>4, <2>5 DEF Next, Step, Finished, Advance, NumberTooLarge, InvalidLexeme, vars
<1>. QED BY <1>1, Invariant, PTL DEF Spec

-----------------------------------------------------------------------------
(* What tokenize() returns. *)

Munching ==
  outcome = "lexing" =>
    /\ MunchKnows(munching, text, currentIndex, i, states, lastAccept)
    /\ munching = "whitespace" => currentIndex = LatestEnd
    /\ munching = "lexeme" => SkippedTo(text, LatestEnd, currentIndex)

LEMMA LengthsKnown ==
  IInv => /\ Len(text) \in Nat /\ currentIndex \in 0..Len(text) /\ i \in currentIndex..Len(text)
          /\ munching \in Munchers
          /\ Len(spans) \in Nat /\ DOMAIN spans = 1..Len(spans)
BY TextsAssumption DEF IInv, TypeOK, Spans

LEMMA TokenizesInit == Init => Tokenizes /\ Munching
PROOF
<1>. SUFFICES ASSUME Init PROVE Tokenizes /\ Munching OBVIOUS
<1>1. Len(text) \in Nat /\ 0 \in 0..Len(text) BY TextsAssumption DEF Init
<1>2. MunchKnows("whitespace", text, 0, 0, Start["whitespace"],
                 Accept(NFAOf("whitespace"), 0, Start["whitespace"], NoAccept))
  BY <1>1, MunchBegins
<1>3. Munching BY <1>2 DEF Init, Munching, LatestEnd, EndBefore, NFAOf
<1>4. Tokenizes BY DEF Init, Tokenizes
<1>. QED BY <1>3, <1>4

\* What munch() returns where it ends.
LEMMA MunchReturns ==
  ASSUME IInv, Munching, Ended
  PROVE  /\ lastAccept # NoAccept => Longest(munching, text, currentIndex, lastAccept.index)
         /\ lastAccept = NoAccept => AcceptsNone(munching, text, currentIndex)
PROOF
<1>1. /\ Len(text) \in Nat /\ currentIndex \in 0..Len(text) /\ i \in currentIndex..Len(text)
      /\ munching \in Munchers
  BY LengthsKnown
<1>2. MunchKnows(munching, text, currentIndex, i, states, lastAccept) /\ (states = {} \/ i = Len(text))
  BY DEF Munching, Ended
<1>. PICK m, t, from, at, qs, last :
       m = munching /\ t = text /\ from = currentIndex /\ at = i /\ qs = states /\ last = lastAccept
  OBVIOUS
<1>3. /\ last # NoAccept => Longest(m, t, from, last.index)
      /\ last = NoAccept => AcceptsNone(m, t, from)
  BY <1>1, <1>2, MunchEnds
<1>. QED BY <1>3

LEMMA AdvanceTokenizes ==
  ASSUME IInv, Tokenizes, Munching, Advance
  PROVE  Tokenizes' /\ Munching'
PROOF
<1>1. UNCHANGED <<text, currentIndex, tokens, munching, outcome, spans>> /\ outcome = "lexing"
  BY DEF Advance
<1>2. LatestEnd' = LatestEnd BY <1>1 DEF LatestEnd, EndBefore
<1>3. Tokenizes' BY <1>1, <1>2 DEF Tokenizes, EndBefore
<1>4. MunchKnows(munching, text, currentIndex, i', states', lastAccept')
  <2>1. /\ Len(text) \in Nat /\ currentIndex \in 0..Len(text) /\ i \in currentIndex..(Len(text) - 1)
        /\ MunchKnows(munching, text, currentIndex, i, states, lastAccept)
    BY <1>1, LengthsKnown DEF Advance, Munching
  <2>. PICK m, t, from, at, qs, last :
         m = munching /\ t = text /\ from = currentIndex /\ at = i /\ qs = states /\ last = lastAccept
    OBVIOUS
  <2>. PICK to : to = delta(NFAOf(m), qs, Char(t, at + 1)) OBVIOUS
  <2>2. MunchKnows(m, t, from, at + 1, to, Accept(NFAOf(m), at + 1, to, last))
    BY <2>1, MunchAdvances
  <2>3. i' = at + 1 /\ states' = to /\ lastAccept' = Accept(NFAOf(m), at + 1, to, last)
    BY DEF Advance
  <2>. QED BY <2>2, <2>3
<1>. QED BY <1>1, <1>2, <1>3, <1>4 DEF Munching

LEMMA MunchStartsKnowing ==
  ASSUME NEW m \in Munchers, NEW at \in 0..Len(text), Len(text) \in Nat, Munch(m, at)
  PROVE  munching' = m /\ MunchKnows(m, text, at, i', states', lastAccept')
PROOF
<1>1. i' = at /\ states' = Start[m] /\ lastAccept' = Accept(NFAOf(m), at, Start[m], NoAccept) /\ munching' = m
  BY DEF Munch
<1>. PICK t : t = text OBVIOUS
<1>2. MunchKnows(m, t, at, at, Start[m], Accept(NFAOf(m), at, Start[m], NoAccept))
  BY MunchBegins
<1>. QED BY <1>1, <1>2

LEMMA SkipTokenizes ==
  ASSUME IInv, Tokenizes, Munching, SkipWhitespace
  PROVE  Tokenizes' /\ Munching'
PROOF
<1>1. /\ Ended /\ outcome = "lexing" /\ munching = "whitespace" /\ UNCHANGED <<text, tokens, spans>>
      /\ currentIndex' = IF lastAccept = NoAccept THEN currentIndex ELSE lastAccept.index
  BY DEF SkipWhitespace, Ended
<1>2. LatestEnd' = LatestEnd /\ currentIndex = LatestEnd BY <1>1 DEF LatestEnd, EndBefore, Munching
<1>3. SkippedTo(text, LatestEnd, currentIndex') BY <1>1, <1>2, MunchReturns DEF SkippedTo
<1>4. Len(text) \in Nat /\ currentIndex' \in 0..Len(text)
  BY <1>1, LengthsKnown DEF IInv, TypeOK
<1>5. CASE currentIndex' = Len(text)
  <2>1. outcome' = "tokens" BY <1>5 DEF SkipWhitespace
  <2>2. Munching' BY <2>1 DEF Munching
  <2>3. Tokenizes' BY <1>1, <1>2, <1>3, <1>5, <2>1 DEF Tokenizes, EndBefore
  <2>. QED BY <2>2, <2>3
<1>6. CASE currentIndex' # Len(text)
  <2>1. Munch("lexeme", currentIndex') /\ outcome' = outcome BY <1>6 DEF SkipWhitespace
  <2>2. munching' = "lexeme" /\ MunchKnows("lexeme", text, currentIndex', i', states', lastAccept')
    <3>. PICK at \in 0..Len(text) : at = currentIndex' BY <1>4
    <3>. QED BY <2>1, <1>4, MunchStartsKnowing DEF Munchers
  <2>3. Munching' BY <1>1, <1>2, <1>3, <2>2 DEF Munching
  <2>4. Tokenizes' BY <1>1, <2>1 DEF Tokenizes, EndBefore
  <2>. QED BY <2>3, <2>4
<1>. QED BY <1>5, <1>6

LEMMA TakeTokenizes ==
  ASSUME IInv, IsSequence(tokens), Tokenizes, Munching, TakeToken
  PROVE  IsSequence(tokens') /\ Tokenizes' /\ Munching'
PROOF
<1>1. /\ Ended /\ outcome = "lexing" /\ munching = "lexeme" /\ lastAccept # NoAccept /\ UNCHANGED <<text, outcome>>
      /\ currentIndex' = lastAccept.index /\ Munch("whitespace", lastAccept.index)
      /\ tokens' = Append(tokens, getToken(Type, accepted))
      /\ spans' = Append(spans, [from |-> currentIndex, to |-> lastAccept.index])
  BY DEF TakeToken, LexemeFound, Ended
<1>. PICK from, to : from = currentIndex /\ to = lastAccept.index OBVIOUS
<1>2. Longest("lexeme", text, from, to) BY <1>1, MunchReturns
<1>3. SkippedTo(text, LatestEnd, from) BY <1>1 DEF Munching
<1>4. Len(text) \in Nat /\ to \in 0..Len(text)
  BY <1>1, LengthsKnown DEF IInv, TypeOK
<1>5. getToken(Type, accepted) = TokenAt(text, from, to)
  BY <1>1 DEF Munching, MunchKnows, Type, accepted, TokenAt, TypeAt
<1>6. /\ Len(spans) \in Nat /\ Len(spans') = Len(spans) + 1
      /\ DOMAIN spans = 1..Len(spans) /\ DOMAIN spans' = 1..(Len(spans) + 1)
      /\ \A k \in 1..Len(spans) : spans'[k] = spans[k]
      /\ spans'[Len(spans) + 1] = [from |-> from, to |-> to]
  BY <1>1, LengthsKnown DEF IInv, Spans
<1>. PICK n \in Nat : n = Len(spans) BY <1>6
<1>7. /\ Len(tokens) = n /\ IsSequence(tokens') /\ Len(tokens') = n + 1
      /\ tokens'[n + 1] = TokenAt(text, from, to) /\ \A k \in 1..n : tokens'[k] = tokens[k]
  <2>1. Len(tokens) = n BY DEF Tokenizes
  <2>2. PICK ts, e : ts = tokens /\ e = TokenAt(text, from, to) OBVIOUS
  <2>3. IsSequence(ts) /\ tokens' = Append(ts, e) BY <1>1, <1>5, <2>2
  <2>4. /\ IsSequence(Append(ts, e)) /\ Len(Append(ts, e)) = Len(ts) + 1
        /\ \A k \in 1..Len(ts) : Append(ts, e)[k] = ts[k]
        /\ Append(ts, e)[Len(ts) + 1] = e
    BY ONLY <2>3, AppendSequence
  <2>. QED BY <2>1, <2>2, <2>3, <2>4
<1>8. /\ LatestEnd = EndBefore(spans, n + 1) /\ LatestEnd' = to
      /\ \A k \in 1..(n + 1) : EndBefore(spans', k) = EndBefore(spans, k)
  <2>1. LatestEnd' = to BY <1>6 DEF LatestEnd, EndBefore
  <2>2. ASSUME NEW k \in 1..(n + 1) PROVE EndBefore(spans', k) = EndBefore(spans, k)
    <3>1. CASE k = 1 BY <3>1 DEF EndBefore
    <3>2. CASE k # 1
      <4>1. k - 1 \in 1..n BY <3>2
      <4>. QED BY <4>1, <3>2, <1>6 DEF EndBefore
    <3>. QED BY <3>1, <3>2
  <2>. QED BY <2>1, <2>2 DEF LatestEnd
<1>9. ASSUME NEW k \in DOMAIN spans'
      PROVE  /\ SkippedTo(text, EndBefore(spans', k), spans'[k].from)
             /\ Longest("lexeme", text, spans'[k].from, spans'[k].to)
             /\ tokens'[k] = TokenAt(text, spans'[k].from, spans'[k].to)
  <2>1. CASE k \in 1..n
    <3>1. /\ SkippedTo(text, EndBefore(spans, k), spans[k].from)
          /\ Longest("lexeme", text, spans[k].from, spans[k].to)
          /\ tokens[k] = TokenAt(text, spans[k].from, spans[k].to)
      BY <2>1, <1>6 DEF Tokenizes
    <3>2. spans'[k] = spans[k] /\ tokens'[k] = tokens[k] /\ EndBefore(spans', k) = EndBefore(spans, k)
      BY <2>1, <1>6, <1>7, <1>8
    <3>. QED BY <3>1, <3>2
  <2>2. CASE k = n + 1
    <3>1. spans'[k].from = from /\ spans'[k].to = to BY <2>2, <1>6
    <3>. QED BY <3>1, <2>2, <1>2, <1>3, <1>7, <1>8
  <2>. QED BY <2>1, <2>2, <1>6
<1>10. Tokenizes'
  BY <1>1, <1>6, <1>7, <1>9 DEF Tokenizes
<1>11. Munching'
  <2>1. munching' = "whitespace" /\ MunchKnows("whitespace", text, to, i', states', lastAccept')
    BY <1>1, <1>4, MunchStartsKnowing DEF Munchers
  <2>. QED BY <2>1, <1>1, <1>8 DEF Munching
<1>. QED BY <1>7, <1>10, <1>11

LEMMA GiveUpTokenizes ==
  ASSUME IInv, Tokenizes, Munching, NumberTooLarge \/ InvalidLexeme
  PROVE  Tokenizes' /\ Munching'
PROOF
<1>1. /\ Ended /\ munching = "lexeme" /\ outcome = "lexing" /\ UNCHANGED <<text, currentIndex, tokens, spans>>
      /\ outcome' \in {"invalid", "out_of_range"}
  BY DEF NumberTooLarge, InvalidLexeme, LexemeFound, Ended
<1>2. SkippedTo(text, LatestEnd, currentIndex) /\ LatestEnd' = LatestEnd
  BY <1>1 DEF Munching, LatestEnd, EndBefore
<1>3. CASE InvalidLexeme
  <2>1. outcome' = "invalid" /\ AcceptsNone("lexeme", text, currentIndex)
    BY <1>1, <1>3, MunchReturns DEF InvalidLexeme
  <2>. QED BY <1>1, <1>2, <2>1 DEF Tokenizes, Munching, EndBefore
<1>4. CASE NumberTooLarge
  <2>. PICK to : to = lastAccept.index OBVIOUS
  <2>1. outcome' = "out_of_range" /\ lastAccept # NoAccept /\ ~Fits BY <1>4 DEF NumberTooLarge, LexemeFound
  <2>2. Longest("lexeme", text, currentIndex, to) BY <1>1, <2>1, MunchReturns
  <2>3. to \in 0..Len(text) BY <2>1, LengthsKnown DEF IInv, TypeOK
  <2>4. lastAccept.states = Accepting("lexeme", text, currentIndex, to)
    BY <1>1, <2>1 DEF Munching, MunchKnows
  <2>5. TooLarge(text, currentIndex, to)
    BY <2>1, <2>4 DEF Fits, TooLarge, TypeAt, Type, accepted
  <2>. QED BY <1>1, <1>2, <2>1, <2>2, <2>3, <2>5 DEF Tokenizes, Munching, EndBefore
<1>. QED BY <1>3, <1>4

TokensInv == IInv /\ IsSequence(tokens) /\ Tokenizes /\ Munching

LEMMA TokensInvNext == TokensInv /\ [Next]_vars => TokensInv'
PROOF
<1>. SUFFICES ASSUME TokensInv, [Next]_vars PROVE TokensInv' OBVIOUS
<1>1. IInv' /\ IInv /\ IsSequence(tokens) /\ Tokenizes /\ Munching BY InvNext DEF TokensInv
<1>2. CASE TakeToken BY <1>1, <1>2, TakeTokenizes DEF TokensInv
<1>3. CASE tokens' = tokens
  <2>1. CASE Advance BY <1>1, <1>3, <2>1, AdvanceTokenizes DEF TokensInv
  <2>2. CASE SkipWhitespace BY <1>1, <1>3, <2>2, SkipTokenizes DEF TokensInv
  <2>3. CASE NumberTooLarge \/ InvalidLexeme BY <1>1, <1>3, <2>3, GiveUpTokenizes DEF TokensInv
  <2>4. CASE UNCHANGED vars
    BY <1>1, <1>3, <2>4 DEF TokensInv, vars, munch, Tokenizes, Munching, LatestEnd, EndBefore
  <2>5. CASE TakeToken BY <2>5, <1>2
  <2>. QED BY <2>1, <2>2, <2>3, <2>4, <2>5 DEF Next, Step, Finished
<1>4. TakeToken \/ tokens' = tokens
  BY DEF Next, Step, Finished, Advance, SkipWhitespace, NumberTooLarge, InvalidLexeme, vars
<1>. QED BY <1>2, <1>3, <1>4

\* The longest text is always the one that is taken, whatever the automata:
\* the tokens are those that Tokenizes gives without their loops, and the
\* lexer stops for none but the three reasons it names.
THEOREM TokenizesByLongestMatch == Spec => []Tokenizes
PROOF
<1>1. Init => TokensInv
  <2>. SUFFICES ASSUME Init PROVE TokensInv OBVIOUS
  <2>1. IsSequence(<<>>) BY DEF IsSequence
  <2>. QED BY <2>1, InvInit, TokenizesInit DEF Init, TokensInv
<1>2. TokensInv => Tokenizes BY DEF TokensInv
<1>. QED BY <1>1, <1>2, TokensInvNext, PTL DEF Spec
=============================================================================
