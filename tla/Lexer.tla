-------------------------------- MODULE Lexer --------------------------------
(***************************************************************************)
(* Lexer::tokenize() (frontend/lexer.cpp), one character a step, for any   *)
(* automata.  tokenize() lets one of them run as far as it can (munch),    *)
(* goes back to where it last accepted, and turns to the other.            *)
(***************************************************************************)
EXTENDS NFAInfo, L2Tokens

CONSTANTS
  Texts,          \* the program texts that may be lexed
  MaxInt          \* the largest int

VARIABLES
  text, currentIndex, tokens,   \* of tokenize()
  munching,                     \* the automaton that runs: "whitespace" or "lexeme"
  i, states, lastAccept,        \* of munch()
  outcome,                      \* "lexing", "tokens", "invalid", "out_of_range"
  spans                         \* history: where in the text each token lies

munch == <<munching, i, states, lastAccept>>
vars  == <<text, currentIndex, tokens, munch, outcome, spans>>

NFAOf(m) == IF m = "whitespace" THEN whitespaceNFA ELSE lexemeNFA

anyAccepting(nfa, qs) == qs \cap nfa.accept # {}

\* The states in which each automaton begins.
Munchers == {"whitespace", "lexeme"}
Start    == [m \in Munchers |-> epsClosure(NFAOf(m), {NFAOf(m).start})]

\* Texts have a length, the edges of the automata lead to states of theirs,
\* and the empty text is no token.
ASSUME TextsAssumption == \A t \in Texts : Len(t) \in Nat
ASSUME AutomataAssumption == \A m \in Munchers : IsAutomaton(NFAOf(m))
ASSUME LexemeAssumption == ~anyAccepting(lexemeNFA, Start["lexeme"])

NoAccept == [index |-> -1, states |-> {}]

-----------------------------------------------------------------------------
\* Mutant of Accept: the last place is kept though a longer text is accepted.
AcceptFirst(nfa, at, qs, otherwise) ==
  IF anyAccepting(nfa, qs) /\ otherwise = NoAccept THEN [index |-> at, states |-> qs \cap nfa.accept] ELSE otherwise

\* Mutant of Accept: one place further than what the automaton has read.
AcceptNext(nfa, at, qs, otherwise) ==
  IF anyAccepting(nfa, qs) THEN [index |-> at + 1, states |-> qs \cap nfa.accept] ELSE otherwise

\* What munch() remembers, the states pruned to those that accept.
Accept(nfa, at, qs, otherwise) ==
  IF anyAccepting(nfa, qs) THEN [index |-> at, states |-> qs \cap nfa.accept] ELSE otherwise

\* munch() is called.
Munch(m, at) ==
  /\ munching' = m
  /\ i' = at
  /\ states' = Start[m]
  /\ lastAccept' = Accept(NFAOf(m), at, Start[m], NoAccept)

\* One round of its loop.
Advance ==
  /\ outcome = "lexing" /\ states # {} /\ i < Len(text)
  /\ i' = i + 1
  /\ states' = delta(NFAOf(munching), states, Char(text, i + 1))
  /\ lastAccept' = Accept(NFAOf(munching), i + 1, states', lastAccept)
  /\ UNCHANGED <<text, currentIndex, tokens, munching, outcome, spans>>

Ended == outcome = "lexing" /\ (states = {} \/ i = Len(text))

-----------------------------------------------------------------------------
\* Mutant of getMostPrioritizedTokenType: a name is a name.
PrioritizedNames(qs) ==
  LET types == {q2tokType[q] : q \in qs}
  IN  IF "Id" \in types THEN "Id" ELSE CHOOSE ty \in types : TRUE

\* Everything else goes before names; no two others accept the same text.
getMostPrioritizedTokenType(qs) ==
  LET types == {q2tokType[q] : q \in qs}
  IN  IF types = {"Id"} THEN "Id" ELSE CHOOSE ty \in types \ {"Id"} : TRUE

Digit(c) == CHOOSE d \in 0..9 : ToString(d) = c
Number(s) ==
  IF Char(s, 1) = "-"
  THEN -FoldLeft(LAMBDA n, k : 10 * n + Digit(Char(s, k)), 0, [k \in 1..(Len(s) - 1) |-> k + 1])
  ELSE FoldLeft(LAMBDA n, k : 10 * n + Digit(Char(s, k)), 0, [k \in 1..Len(s) |-> k])

Operator(s) == CASE s = "+" -> "add" [] s = "-" -> "sub" [] s = "*" -> "mul"
                 [] s = "<" -> "lt" [] s = "<=" -> "le" [] s = "=" -> "eq"
                 [] s = "&&" -> "and" [] s = "||" -> "or"

getToken(type, s) ==
  CASE type \in {"Id", "Type"} -> WithText(type, s)
    [] type = "Num" -> NumToken(Number(s))
    [] type \in {"ArithOp", "RelOp", "LBinOp"} -> OperatorToken(Operator(s))
    [] OTHER -> Token(type)

-----------------------------------------------------------------------------
\* skipWhitespace(), and the test of the loop of tokenize().
SkipWhitespace ==
  /\ Ended /\ munching = "whitespace"
  /\ currentIndex' = IF lastAccept = NoAccept THEN currentIndex ELSE lastAccept.index
  /\ IF currentIndex' = Len(text)
     THEN outcome' = "tokens" /\ UNCHANGED munch
     ELSE Munch("lexeme", currentIndex') /\ UNCHANGED outcome
  /\ UNCHANGED <<text, tokens, spans>>

accepted == SubSeq(text, currentIndex + 1, lastAccept.index)
Type     == getMostPrioritizedTokenType(lastAccept.states)
LexemeFound == Ended /\ munching = "lexeme" /\ lastAccept # NoAccept

\* std::stoi() throws std::out_of_range.
Fits == Type = "Num" => Number(accepted) \in (-MaxInt - 1)..MaxInt

\* Mutant of TakeToken: on from where the automaton stopped.
TakeTokenNoReturn ==
  /\ LexemeFound /\ Fits
  /\ tokens' = Append(tokens, getToken(Type, accepted))
  /\ spans' = Append(spans, [from |-> currentIndex, to |-> lastAccept.index])
  /\ currentIndex' = i
  /\ Munch("whitespace", i)
  /\ UNCHANGED <<text, outcome>>

\* Mutant of TakeToken: it does not go on.
TakeTokenStays ==
  /\ LexemeFound /\ Fits
  /\ tokens' = Append(tokens, getToken(Type, accepted))
  /\ spans' = Append(spans, [from |-> currentIndex, to |-> lastAccept.index])
  /\ Munch("whitespace", currentIndex)
  /\ UNCHANGED <<text, currentIndex, outcome>>

TakeToken ==
  /\ LexemeFound /\ Fits
  /\ tokens' = Append(tokens, getToken(Type, accepted))
  /\ spans' = Append(spans, [from |-> currentIndex, to |-> lastAccept.index])
  /\ currentIndex' = lastAccept.index
  /\ Munch("whitespace", lastAccept.index)
  /\ UNCHANGED <<text, outcome>>

NumberTooLarge ==
  /\ LexemeFound /\ ~Fits
  /\ outcome' = "out_of_range"
  /\ UNCHANGED <<text, currentIndex, tokens, munch, spans>>

\* Mutant of InvalidLexeme: nothing is thrown.
InvalidLexemeIgnored ==
  /\ Ended /\ munching = "lexeme" /\ lastAccept = NoAccept
  /\ Munch("whitespace", currentIndex)
  /\ UNCHANGED <<text, currentIndex, tokens, outcome, spans>>

\* InvalidLexemeError, at currentIndex.
InvalidLexeme ==
  /\ Ended /\ munching = "lexeme" /\ lastAccept = NoAccept
  /\ outcome' = "invalid"
  /\ UNCHANGED <<text, currentIndex, tokens, munch, spans>>

Finished == outcome # "lexing" /\ UNCHANGED vars

-----------------------------------------------------------------------------
Init ==
  /\ text \in Texts
  /\ currentIndex = 0
  /\ tokens = <<>> /\ spans = <<>>
  /\ munching = "whitespace"
  /\ i = 0
  /\ states = Start["whitespace"]
  /\ lastAccept = Accept(whitespaceNFA, 0, Start["whitespace"], NoAccept)
  /\ outcome = "lexing"

Step == Advance \/ SkipWhitespace \/ TakeToken \/ NumberTooLarge \/ InvalidLexeme

Next == Step \/ Finished

Spec == Init /\ [][Next]_vars /\ WF_vars(Step)

-----------------------------------------------------------------------------
\* Type invariant.
TypeOK ==
  /\ currentIndex \in 0..Len(text) /\ i \in currentIndex..Len(text)
  /\ munching \in Munchers
  /\ lastAccept = NoAccept \/ lastAccept.index \in currentIndex..i
  /\ outcome \in {"lexing", "tokens", "invalid", "out_of_range"}

\* The tokens lie in the text one after the other, none of them empty, and
\* none is behind the place reached: whatever the automata accept, no part
\* of the text is read into two tokens, and tokenize() never stands still.
SpansInOrder ==
  /\ \A k \in DOMAIN spans : spans[k].from < spans[k].to /\ spans[k].to <= currentIndex
  /\ \A j, k \in DOMAIN spans : j < k => spans[j].to <= spans[k].from

\* tokenize() returns or throws, whatever the text.
Terminates == <>(outcome # "lexing")
=============================================================================
