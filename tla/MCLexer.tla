------------------------------- MODULE MCLexer -------------------------------
(***************************************************************************)
(* The lexer of L2 on every short text over a few characters, and on some  *)
(* longer ones, against a description of the tokens that needs no automata.*)
(***************************************************************************)
EXTENDS Lexer

\* The texts of up to n characters.
RECURSIVE Upto(_, _)
Upto(n, chars) ==
  IF n = 0 THEN {""} ELSE LET shorter == Upto(n - 1, chars) IN shorter \cup {t \o c : t \in shorter, c \in chars}

\* A sequence of tokens, as written, with sep between any two.
Written(list, sep) == FoldLeft(LAMBDA t, w : t \o sep \o w, "", list)

Words == [k \in DOMAIN keywordAndPunct |-> keywordAndPunct[k][1]] \o <<"a1B", "%a", "-7", "0", "128">>

\* Words that begin like keywords or other words, next to each other.
Pairs == {v \o w : v, w \in {"int", "i", "nil", "%int", "1", "-", "--", ":", "<", "=", "&", "|", ".", "%"}}

MCTexts ==
  Upto(3, {"i", "f", "1", "-", " ", "/", "\n", "\t"}) \cup Upto(5, {"/", "\n", "\t", "a"})
  \cup Upto(4, {"1", "-"}) \cup Pairs
  \cup {Written(Words, sep) : sep \in {" ", "\n\t", "//int//\n ", "\f", "// \t\n"}}
  \cup {"-128 0127 -00", "1 128", "-129", "x:=a-1;", "x := a - 1;", "while(a<=-1){}//", "%", "a%", "_a", "a&b"}

-----------------------------------------------------------------------------
(* What the tokens of L2 are. *)

All(s, chars) == Chars(s) \subseteq chars
IsKeyword(s) == \E k \in DOMAIN keywordAndPunct : keywordAndPunct[k][1] = s
IsName(s)    == s # "" /\ Char(s, 1) \in alpha /\ All(s, alnum)
IsNumber(s)  == (s # "" /\ All(s, digits)) \/ (Len(s) > 1 /\ Char(s, 1) = "-" /\ All(Tail(s), digits))
IsType(s)    == Len(s) > 1 /\ Char(s, 1) = "%" /\ All(Tail(s), alnum)
IsLexeme(s)  == IsKeyword(s) \/ IsName(s) \/ IsNumber(s) \/ IsType(s)

\* The type and what else a token of this text holds.
TypeOf(s) ==
  IF IsKeyword(s) THEN (CHOOSE k \in {keywordAndPunct[n] : n \in DOMAIN keywordAndPunct} : k[1] = s)[2]
  ELSE IF IsName(s) THEN "Id" ELSE IF IsNumber(s) THEN "Num" ELSE "Type"
IsTokenOf(t, s) ==
  /\ t.type = TypeOf(s)
  /\ t.type \in {"Id", "Type"} => t.s = s
  /\ t.type \in {"ArithOp", "RelOp", "LBinOp"} =>
       <<t.s, s>> \in {<<"add", "+">>, <<"sub", "-">>, <<"mul", "*">>, <<"lt", "<">>, <<"le", "<=">>,
                       <<"eq", "=">>, <<"and", "&&">>, <<"or", "||">>}
  /\ t.type = "Num" =>
       LET negative == Char(s, 1) = "-"
           shown    == IF negative THEN Tail(s) ELSE s
       IN  \E zeros \in 0..(Len(shown) - 1) :
             /\ All(SubSeq(shown, 1, zeros), {"0"})
             /\ SubSeq(shown, zeros + 1, Len(shown)) = ToString(IF negative THEN -t.n ELSE t.n)

BeginsComment(t, k) == k < Len(t) /\ SubSeq(t, k, k + 1) = "//"

\* The end of the line that the k-th character is in, or the end of the text.
LineEnd(t, k) == Min({n \in k..Len(t) : Char(t, n) = "\n"} \cup {Len(t) + 1})

\* The index after all white space, and comments with their newline, from k
\* on.  A comment may hold "all characters but null or newline"
\* (lexer.cpp:434), and so may be any line.
RECURSIVE AfterBlanks(_, _)
AfterBlanks(t, k) ==
  IF k < Len(t) /\ Char(t, k + 1) \in whitespace THEN AfterBlanks(t, k + 1)
  ELSE IF BeginsComment(t, k + 1) /\ LineEnd(t, k + 1) <= Len(t) THEN AfterBlanks(t, LineEnd(t, k + 1))
  ELSE k

\* No comment holds a tab, or another character that cannot be printed.
PlainComments(t) ==
  \A k \in 1..Len(t) : BeginsComment(t, k) => All(SubSeq(t, k, LineEnd(t, k) - 1), nonLine)

-----------------------------------------------------------------------------
\* The latest token; those before it were the latest in earlier states.
latest == Last(spans)
Spanned(to) == SubSeq(text, latest.from + 1, to)

\* Of the texts that begin where a token begins, it is the longest that is a
\* lexeme: <= is one token, iff a name, a-1 a name and a number, and a
\* keyword next to a letter none.
MaximalMunch ==
  spans # <<>> =>
    /\ IsLexeme(Spanned(latest.to))
    /\ \A to \in (latest.to + 1)..Len(text) : ~IsLexeme(Spanned(to))

\* A token has the type and the value of its text: a name only if no keyword
\* is spelled like it.
TokensOfTheirText == spans # <<>> => IsTokenOf(Last(tokens), Spanned(latest.to))

\* Nothing is dropped between two tokens, or before the first, but white
\* space and whole comments, and no token begins in either.
OnlyBlanksBetween ==
  spans # <<>> =>
    latest.from = AfterBlanks(text, IF Len(spans) = 1 THEN 0 ELSE spans[Len(spans) - 1].to)

\* How tokenize() ends: with tokens, once only blanks are left; with
\* InvalidLexemeError, at the first character after the blanks at which no
\* lexeme begins; and otherwise at a number too large for an int.  A comment
\* with a tab in it ends no text well: it is not skipped, as lexer.cpp:434 and
\* 438 ("make whitespace NFA skip comments as well") say, but refused.
EndsAsItShould ==
  LET at == AfterBlanks(text, IF spans = <<>> THEN 0 ELSE Last(spans).to)
      ends == {to \in (at + 1)..Len(text) : IsLexeme(SubSeq(text, at + 1, to))}
  IN  IF PlainComments(text)
      THEN /\ outcome = "tokens"  => at = Len(text)
           /\ outcome \in {"invalid", "out_of_range"} => currentIndex = at /\ at < Len(text)
           /\ outcome = "invalid" => ends = {}
           /\ outcome = "out_of_range" => \E to \in ends : IsNumber(SubSeq(text, at + 1, to))
      ELSE outcome # "tokens"
=============================================================================
