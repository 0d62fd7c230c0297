--------------------------------- MODULE NFA ---------------------------------
(***************************************************************************)
(* The automata of the lexer (struct NFA of frontend/lexer.cpp).  The      *)
(* states are numbers; last is the latest number genState() has given when *)
(* the automaton is complete, where a later one goes on.  Maps merge as    *)
(* std::map does: insert keeps the entry that is there.                    *)
(***************************************************************************)
EXTENDS Integers, Sequences, SequencesExt

Char(s, k) == SubSeq(s, k, k)
Chars(s)   == {Char(s, k) : k \in 1..Len(s)}

Edge(chars, q) == {[chars |-> chars, to |-> q]}

\* A chain of states that lets only s go through.
acceptOnly(s, n) ==
  [start |-> n + 1, accept |-> {n + 1 + Len(s)}, last |-> n + 1 + Len(s),
   transitions |-> [q \in (n + 1)..(n + Len(s)) |-> Edge({Char(s, q - n)}, q + 1)],
   epsilonTransitions |-> <<>>]

acceptRange(chars, n) ==
  [start |-> n + 1, accept |-> {n + 2}, last |-> n + 2,
   transitions |-> (n + 1) :> Edge(chars, n + 2),
   epsilonTransitions |-> <<>>]

\* a | b, with b made after a.
Union(a, b) ==
  LET newStart == b.last + 1
  IN  [start |-> newStart, accept |-> a.accept \cup b.accept, last |-> newStart,
       transitions |-> a.transitions @@ b.transitions,
       epsilonTransitions |-> (newStart :> {a.start, b.start})
                              @@ a.epsilonTransitions @@ b.epsilonTransitions]

\* The epsilon edges eps, and one to q from each state of qs.
WithEdges(eps, qs, q) ==
  [p \in DOMAIN eps \cup qs |->
     (IF p \in DOMAIN eps THEN eps[p] ELSE {}) \cup (IF p \in qs THEN {q} ELSE {})]

\* a * b: one after the other.
Concat(a, b) ==
  [start |-> a.start, accept |-> b.accept, last |-> b.last,
   transitions |-> a.transitions @@ b.transitions,
   epsilonTransitions |-> WithEdges(a.epsilonTransitions @@ b.epsilonTransitions, a.accept, b.start)]

\* *a, any number of times.
Star(a) ==
  LET newStart == a.last + 1
  IN  [start |-> newStart, accept |-> {newStart}, last |-> newStart,
       transitions |-> a.transitions,
       epsilonTransitions |-> (newStart :> {a.start})
                              @@ WithEdges(a.epsilonTransitions, a.accept, newStart)]

\* +a, at least once: the second a has the states of the first.
Plus(a) == Concat(a, Star(a))

\* a or nothing.
optional(a) ==
  LET newStart == a.last + 1
  IN  [start |-> newStart, accept |-> a.accept \cup {newStart}, last |-> newStart,
       transitions |-> a.transitions,
       epsilonTransitions |-> (newStart :> {a.start}) @@ a.epsilonTransitions]

-----------------------------------------------------------------------------
States(nfa) == 1..nfa.last

\* The edges of an automaton lead to states of its own.
IsAutomaton(nfa) ==
  /\ nfa.last \in Nat /\ nfa.start \in States(nfa)
  /\ \A q \in DOMAIN nfa.epsilonTransitions : nfa.epsilonTransitions[q] \subseteq States(nfa)
  /\ \A q \in DOMAIN nfa.transitions : \A e \in nfa.transitions[q] : e.to \in States(nfa)

\* All states reached from qs by epsilon edges.
epsClosure(nfa, qs) ==
  LET eps == nfa.epsilonTransitions
      closure[s \in SUBSET States(nfa)] ==
        LET more == UNION {eps[q] : q \in s \cap DOMAIN eps}
        IN  IF more \subseteq s THEN s ELSE closure[s \cup more]
  IN  closure[qs]

delta(nfa, qs, c) ==
  epsClosure(nfa, UNION {{e.to : e \in {d \in nfa.transitions[q] : c \in d.chars}} :
                           q \in qs \cap DOMAIN nfa.transitions})
=============================================================================
