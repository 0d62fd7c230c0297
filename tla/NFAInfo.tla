------------------------------- MODULE NFAInfo -------------------------------
(***************************************************************************)
(* The automata for L2 (struct NFAInfo of frontend/lexer.cpp): lexemeNFA   *)
(* for the tokens, whitespaceNFA for what lies between them, and           *)
(* q2tokType, the type each accepting state of lexemeNFA stands for.       *)
(***************************************************************************)
EXTENDS NFA

alpha   == Chars("abcdefghijklmnopqrstuvwxyzABCDEFGHIJKLMNOPQRSTUVWXYZ")
digits  == Chars("0123456789")
alnum   == alpha \cup digits
\* The printable characters, ' ' to '~', but one, `, which no module can
\* quote; and not the last of the range, 127.
nonLine == alnum \cup Chars(" !\"#$%&'()*+,-./:;<=>?@[\\]^_{|}~")
whitespace == Chars(" \t\n\r")

keywordAndPunct ==
  <<<<"int", "Type">>, <<"while", "While">>, <<"if", "If">>, <<"else", "Else">>, <<"def", "Def">>,
    <<"return", "Return">>, <<"output", "Output">>, <<"+", "ArithOp">>, <<"-", "ArithOp">>,
    <<"*", "ArithOp">>, <<"&&", "LBinOp">>, <<"||", "LBinOp">>, <<"!", "LNeg">>, <<"<=", "RelOp">>,
    <<"<", "RelOp">>, <<"=", "RelOp">>, <<"(", "LParen">>, <<")", "RParen">>, <<"{", "LBrace">>,
    <<"}", "RBrace">>, <<"[", "LBracket">>, <<"]", "RBracket">>, <<";", "Semicolon">>,
    <<":=", "Assign">>, <<".", "Dot">>, <<"new", "New">>, <<"nil", "Nil">>, <<"struct", "Struct">>,
    <<":", "HasType">>, <<",", "Comma">>>>

id  == LET first == acceptRange(alpha, 0)
       IN  Concat(first, Star(acceptRange(alnum, first.last)))
num == LET sign == optional(acceptOnly("-", id.last))
       IN  Concat(sign, Plus(acceptRange(digits, sign.last)))
TypeNFA(n) == LET percent == acceptOnly("%", n)
              IN  Concat(percent, Plus(acceptRange(alnum, percent.last)))

\* An automaton, and the types of its accepting states, joined by one more.
Joined(acc, nfa, type) ==
  [nfa |-> Union(acc.nfa, nfa), types |-> acc.types @@ [q \in nfa.accept |-> type]]

names == [nfa |-> id, types |-> [q \in id.accept |-> "Id"]]
words == FoldLeft(LAMBDA acc, word : Joined(acc, acceptOnly(word[1], acc.nfa.last), word[2]),
                  Joined(names, num, "Num"), keywordAndPunct)
lexemes == Joined(words, TypeNFA(words.nfa.last), "Type")

lexemeNFA == lexemes.nfa
q2tokType == lexemes.types

\* Mutant of whitespaceNFA: a single blank or comment.
whitespaceOnce ==
  LET blank   == acceptRange(whitespace, lexemeNFA.last)
      slashes == acceptOnly("//", blank.last)
      inside  == Star(acceptRange(nonLine, slashes.last))
      newline == acceptRange({"\n"}, inside.last)
  IN  optional(Union(blank, Concat(Concat(slashes, inside), newline)))

whitespaceNFA ==
  LET blank   == acceptRange(whitespace, lexemeNFA.last)
      slashes == acceptOnly("//", blank.last)
      inside  == Star(acceptRange(nonLine, slashes.last))
      newline == acceptRange({"\n"}, inside.last)
  IN  Star(Union(blank, Concat(Concat(slashes, inside), newline)))
=============================================================================
