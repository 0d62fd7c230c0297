-------------------------- MODULE CodeGenLabelProofs --------------------------
(***************************************************************************)
(* The code that CodeGen generates can be assembled, for every program     *)
(* that the constructors of ast.h can build: no label is defined twice,    *)
(* and every jump and call goes to a label that is defined.                *)
(*                                                                         *)
(* Labels are made when a branch or a loop is visited, used in code that   *)
(* waits on the call stack todo, and joined by what the constructs inside  *)
(* make meanwhile.  So the invariant is about all code there will be: what *)
(* has been emitted and what waits in todo, to which each label belongs    *)
(* once, and whose jumps have their labels in it already.                  *)
(***************************************************************************)
EXTENDS CodeGenProofs

-----------------------------------------------------------------------------
(* Labels in a piece of code. *)

Defines(is) == {is[i].src : i \in {j \in DOMAIN is : is[j].op = "label"}}
GoesTo(is)  == {is[i].src : i \in {j \in DOMAIN is : is[j].op \in {"jmp", "je", "call"}}}

Once(is) ==
  \A i, j \in DOMAIN is : is[i].op = "label" /\ is[j].op = "label" /\ is[i].src = is[j].src => i = j

\* The label of the collector's function, which the bootstrap defines.
Elsewhere == {Lbl("allocate")}

\* Code without labels, and without jumps but to the bootstrap.
Straight(is) == IsSequence(is) /\ Defines(is) = {} /\ GoesTo(is) \subseteq Elsewhere

-----------------------------------------------------------------------------
(* Labels in what remains to be done. *)

\* The labels that a task is to define, but for those it is yet to make.
Given(t) ==
  CASE t.op = "code"   -> Defines(t.insns)
    [] t.op = "fundef" -> {Lbl(t.function_name)}
    [] t.op = "entry"  -> {Lbl("Entry")}
    [] OTHER           -> {}

\* The labels that the code of a task will go to, but for those.
Wanted(t) ==
  CASE t.op = "code"      -> GoesTo(t.insns)
    [] t.op = "arguments" -> {Lbl(t.callee_name)}
    [] t.op = "addfn"     -> {Lbl(t.def.function_name)}
    [] OTHER              -> {}

GivenBy(ts)  == UNION {Given(ts[i]) : i \in DOMAIN ts}
WantedBy(ts) == UNION {Wanted(ts[i]) : i \in DOMAIN ts}

\* The tasks of ts define no label twice between them.
Apart(ts) ==
  /\ \A i \in DOMAIN ts : ts[i].op = "code" => Once(ts[i].insns)
  /\ \A i, j \in DOMAIN ts : i # j => Given(ts[i]) \cap Given(ts[j]) = {}

Labels(is, ts) == Defines(is) \cup GivenBy(ts)

\* The code is, followed by that of ts, defines each label once, numbered
\* ones below n, and those that it and goals go to.
LabelsFit(is, ts, n, goals) ==
  /\ Once(is) /\ Apart(ts) /\ Defines(is) \cap GivenBy(ts) = {}
  /\ \A l \in Labels(is, ts) : l.n \in Int /\ l.n < n
  /\ goals \cup GoesTo(is) \cup WantedBy(ts) \subseteq Labels(is, ts) \cup Elsewhere

\* The code of Entry comes last.
EndsInEntry(ts) == ts # <<>> /\ \A i \in DOMAIN ts : ts[i].op \in {"entry", "endentry"} <=> i = Len(ts)

-----------------------------------------------------------------------------
(* Functions, which are all entered in the table before any is generated. *)

FunctionNames(pg) == {pg.function_defs[i].function_name : i \in DOMAIN pg.function_defs}

Additions(pg) == [i \in DOMAIN pg.function_defs |-> [op |-> "addfn", def |-> pg.function_defs[i]]]

Plan(pg) == pg.type_defs \o Additions(pg) \o pg.function_defs \o <<Do("entry")>>

\* The number of tasks up to the last function entered.
Preparations(pg) == Len(pg.type_defs) + Len(pg.function_defs)

\* The functions in the first p tasks of the plan are in the table, and
\* have different names.
AddedUpTo(p) ==
  LET Added == {i \in DOMAIN prog.function_defs : Len(prog.type_defs) + i <= p}
      NameOf(i) == prog.function_defs[i].function_name
  IN  /\ \A i \in Added : NameOf(i) \in DOMAIN fnInfo
      /\ \A i, j \in Added : NameOf(i) = NameOf(j) => i = j

\* Nothing else has been done.
OnlyPrepared(p) ==
  /\ Len(todo) = Len(Plan(prog)) - p
  /\ \A i \in 1..Len(todo) : todo[i] = Plan(prog)[p + i]

FunctionsOK ==
  \/ AddedUpTo(Preparations(prog))
  \/ \E p \in 0..(Preparations(prog) - 1) : OnlyPrepared(p) /\ AddedUpTo(p)

\* No two functions have one name, and none that of Entry.
GoodNames(pg) ==
  /\ \A i, j \in DOMAIN pg.function_defs :
       pg.function_defs[i].function_name = pg.function_defs[j].function_name => i = j
  /\ "Entry" \notin FunctionNames(pg)

Known == {Lbl(f) : f \in DOMAIN fnInfo}

\* The invariant, beside IInv.
CodeComplete ==
  /\ EndsInEntry(todo)
  /\ FunctionsOK
  /\ GoodNames(prog) => LabelsFit(insns, todo, nextIndex, Known)

LInv ==
  /\ phase = "generating" => CodeComplete
  /\ JumpsResolved

-----------------------------------------------------------------------------
(* Labels in code put together. *)

LEMMA LabelsOfConcat ==
  ASSUME NEW s, NEW t, IsSequence(s), IsSequence(t)
  PROVE  /\ Defines(s \o t) = Defines(s) \cup Defines(t)
         /\ GoesTo(s \o t) = GoesTo(s) \cup GoesTo(t)
         /\ Once(s) /\ Once(t) /\ Defines(s) \cap Defines(t) = {} => Once(s \o t)
PROOF
<1>1. PICK c, m, n : c = s \o t /\ m = Len(s) /\ n = Len(t) OBVIOUS
<1>2. /\ m \in Nat /\ n \in Nat /\ DOMAIN s = 1..m /\ DOMAIN t = 1..n /\ DOMAIN c = 1..(m + n)
      /\ \A i \in 1..m : c[i] = s[i]
      /\ \A i \in (m + 1)..(m + n) : c[i] = t[i - m] /\ i - m \in 1..n
  <2>1. /\ IsSequence(c) /\ Len(c) = m + n /\ m \in Nat /\ n \in Nat
        /\ \A i \in 1..m : c[i] = s[i]
        /\ \A i \in (m + 1)..(m + n) : c[i] = t[i - m]
    BY <1>1, ConcatSequences, SequenceBasics
  <2>2. DOMAIN s = 1..m /\ DOMAIN t = 1..n /\ DOMAIN c = 1..(m + n) BY <1>1, <2>1, SequenceBasics
  <2>. QED BY <2>1, <2>2
<1>3. /\ \A i \in DOMAIN c : (i \in DOMAIN s /\ c[i] = s[i]) \/ (i - m \in DOMAIN t /\ c[i] = t[i - m] /\ i > m)
      /\ \A i \in DOMAIN s : i \in DOMAIN c /\ c[i] = s[i]
      /\ \A i \in DOMAIN t : m + i \in DOMAIN c /\ c[m + i] = t[i]
  BY <1>2
<1>4. Defines(c) = Defines(s) \cup Defines(t) BY <1>3 DEF Defines
<1>5. GoesTo(c) = GoesTo(s) \cup GoesTo(t) BY <1>3 DEF GoesTo
<1>6. ASSUME Once(s), Once(t), Defines(s) \cap Defines(t) = {} PROVE Once(c)
  <2>. SUFFICES ASSUME NEW i \in DOMAIN c, NEW j \in DOMAIN c,
                       c[i].op = "label", c[j].op = "label", c[i].src = c[j].src
                PROVE  i = j
    BY DEF Once
  <2>0. /\ \A k \in DOMAIN s : s[k].op = "label" => s[k].src \in Defines(s)
        /\ \A k \in DOMAIN t : t[k].op = "label" => t[k].src \in Defines(t)
    BY DEF Defines
  <2>1. CASE i \in DOMAIN s /\ j \in DOMAIN s BY <1>3, <1>6, <2>1 DEF Once
  <2>2. CASE i \notin DOMAIN s /\ j \notin DOMAIN s
    <3>1. i - m = j - m BY <1>3, <1>6, <2>2 DEF Once
    <3>. QED BY <1>2, <3>1
  <2>3. ~(i \in DOMAIN s /\ j \notin DOMAIN s) /\ ~(i \notin DOMAIN s /\ j \in DOMAIN s)
    BY <1>3, <1>6, <2>0
  <2>. QED BY <2>1, <2>2, <2>3
<1>. QED BY <1>1, <1>4, <1>5, <1>6

\* The first of the tasks, and the others.
LEMMA LabelsOfHead ==
  ASSUME NEW ts, IsSequence(ts), ts # <<>>
  PROVE  /\ GivenBy(ts) = Given(Head(ts)) \cup GivenBy(Tail(ts))
         /\ WantedBy(ts) = Wanted(Head(ts)) \cup WantedBy(Tail(ts))
         /\ Apart(ts) => /\ Apart(Tail(ts)) /\ Given(Head(ts)) \cap GivenBy(Tail(ts)) = {}
                         /\ Head(ts).op = "code" => Once(Head(ts).insns)
PROOF
<1>1. PICK r, n : r = Tail(ts) /\ n = Len(ts) OBVIOUS
<1>2. /\ IsSequence(r) /\ Len(r) = n - 1 /\ n \in Nat /\ DOMAIN ts = 1..n /\ Head(ts) = ts[1] /\ 1 \in DOMAIN ts
      /\ \A i \in 1..(n - 1) : r[i] = ts[i + 1]
  BY <1>1, TailSequence, SequenceBasics
<1>3. DOMAIN r = 1..(n - 1) BY <1>2, SequenceBasics
<1>4. /\ \A i \in DOMAIN ts : i = 1 \/ (i - 1 \in DOMAIN r /\ ts[i] = r[i - 1])
      /\ \A i \in DOMAIN r : i + 1 \in DOMAIN ts /\ i + 1 # 1 /\ r[i] = ts[i + 1]
      /\ \A i, j \in DOMAIN r : i # j => i + 1 # j + 1
  BY <1>2, <1>3
<1>5. GivenBy(ts) = Given(Head(ts)) \cup GivenBy(r) BY <1>2, <1>4 DEF GivenBy
<1>6. WantedBy(ts) = Wanted(Head(ts)) \cup WantedBy(r) BY <1>2, <1>4 DEF WantedBy
<1>7. ASSUME Apart(ts)
      PROVE  Apart(r) /\ Given(Head(ts)) \cap GivenBy(r) = {} /\ (Head(ts).op = "code" => Once(Head(ts).insns))
  <2>1. Apart(r) BY <1>4, <1>7 DEF Apart
  <2>2. Given(Head(ts)) \cap GivenBy(r) = {} BY <1>2, <1>4, <1>7 DEF Apart, GivenBy
  <2>. QED BY <1>2, <1>7, <2>1, <2>2 DEF Apart
<1>. QED BY <1>1, <1>5, <1>6, <1>7

LEMMA LabelsOfTasks ==
  ASSUME NEW s, NEW t, IsSequence(s), IsSequence(t)
  PROVE  /\ GivenBy(s \o t) = GivenBy(s) \cup GivenBy(t)
         /\ WantedBy(s \o t) = WantedBy(s) \cup WantedBy(t)
         /\ Apart(s) /\ Apart(t) /\ GivenBy(s) \cap GivenBy(t) = {} => Apart(s \o t)
PROOF
<1>1. PICK c, m, n : c = s \o t /\ m = Len(s) /\ n = Len(t) OBVIOUS
<1>2. /\ IsSequence(c) /\ Len(c) = m + n /\ m \in Nat /\ n \in Nat
      /\ \A i \in 1..m : c[i] = s[i]
      /\ \A i \in (m + 1)..(m + n) : c[i] = t[i - m]
  BY <1>1, ConcatSequences, SequenceBasics
<1>3. DOMAIN s = 1..m /\ DOMAIN t = 1..n /\ DOMAIN c = 1..(m + n) BY <1>1, <1>2, SequenceBasics
<1>4. /\ \A i \in DOMAIN c : (i \in DOMAIN s /\ c[i] = s[i]) \/ (i - m \in DOMAIN t /\ c[i] = t[i - m])
      /\ \A i \in DOMAIN s : i \in DOMAIN c /\ c[i] = s[i]
      /\ \A i \in DOMAIN t : m + i \in DOMAIN c /\ c[m + i] = t[i]
      /\ \A i, j \in DOMAIN c : i # j => i - m # j - m
  BY <1>2, <1>3
<1>5. GivenBy(c) = GivenBy(s) \cup GivenBy(t) BY <1>4 DEF GivenBy
<1>6. WantedBy(c) = WantedBy(s) \cup WantedBy(t) BY <1>4 DEF WantedBy
<1>7. ASSUME Apart(s), Apart(t), GivenBy(s) \cap GivenBy(t) = {} PROVE Apart(c)
  <2>1. ASSUME NEW i \in DOMAIN c, c[i].op = "code" PROVE Once(c[i].insns) BY <1>4, <1>7, <2>1 DEF Apart
  <2>2. ASSUME NEW i \in DOMAIN c, NEW j \in DOMAIN c, i # j PROVE Given(c[i]) \cap Given(c[j]) = {}
    <3>1. (\A k \in DOMAIN s : Given(s[k]) \subseteq GivenBy(s)) /\ (\A k \in DOMAIN t : Given(t[k]) \subseteq GivenBy(t))
      BY DEF GivenBy
    <3>2. CASE i \in DOMAIN s /\ j \in DOMAIN s
      <4>1. c[i] = s[i] /\ c[j] = s[j] BY <1>4, <3>2
      <4>. QED BY <1>7, <2>2, <3>2, <4>1 DEF Apart
    <3>3. CASE i \notin DOMAIN s /\ j \notin DOMAIN s
      <4>1. c[i] = t[i - m] /\ c[j] = t[j - m] /\ i - m \in DOMAIN t /\ j - m \in DOMAIN t /\ i - m # j - m
        BY <1>4, <2>2, <3>3
      <4>. QED BY <1>7, <4>1 DEF Apart
    <3>4. CASE i \in DOMAIN s /\ j \notin DOMAIN s
      <4>1. c[i] = s[i] /\ c[j] = t[j - m] /\ j - m \in DOMAIN t BY <1>4, <3>4
      <4>. QED BY <1>7, <3>1, <3>4, <4>1
    <3>5. CASE i \notin DOMAIN s /\ j \in DOMAIN s
      <4>1. c[j] = s[j] /\ c[i] = t[i - m] /\ i - m \in DOMAIN t BY <1>4, <3>5
      <4>. QED BY <1>7, <3>1, <3>5, <4>1
    <3>. QED BY <3>2, <3>3, <3>4, <3>5
  <2>. QED BY <2>1, <2>2 DEF Apart
<1>. QED BY <1>1, <1>5, <1>6, <1>7

-----------------------------------------------------------------------------
(* A task done: its code emitted, other tasks in its place. *)

\* What a task turns into defines no label twice.
TurnsApart(more, new) == Once(more) /\ Apart(new) /\ Defines(more) \cap GivenBy(new) = {}

LEMMA Refit ==
  ASSUME NEW is, IsSequence(is), NEW ts, IsSequence(ts), ts # <<>>, NEW n \in Int, NEW goals,
         LabelsFit(is, ts, n, goals),
         NEW more, IsSequence(more), NEW new, IsSequence(new), NEW m \in Int, n <= m, NEW made,
         TurnsApart(more, new), Labels(more, new) = Given(Head(ts)) \cup made,
         \A l \in made : l.n \in Int /\ n <= l.n /\ l.n < m,
         NEW aims,
         aims \cup GoesTo(more) \cup WantedBy(new)
           \subseteq goals \cup Wanted(Head(ts)) \cup Labels(more, new) \cup Elsewhere
  PROVE  LabelsFit(is \o more, new \o Tail(ts), m, aims)
PROOF
<1>1. PICK r, h : r = Tail(ts) /\ h = Head(ts) OBVIOUS
<1>2. IsSequence(r) BY <1>1, TailSequence
<1>3. /\ Once(is) /\ Apart(ts) /\ Defines(is) \cap GivenBy(ts) = {}
      /\ \A l \in Labels(is, ts) : l.n \in Int /\ l.n < n
      /\ goals \cup GoesTo(is) \cup WantedBy(ts) \subseteq Labels(is, ts) \cup Elsewhere
  BY DEF LabelsFit
<1>4. /\ GivenBy(ts) = Given(h) \cup GivenBy(r) /\ WantedBy(ts) = Wanted(h) \cup WantedBy(r)
      /\ Apart(r) /\ Given(h) \cap GivenBy(r) = {}
  BY <1>1, <1>3, LabelsOfHead
<1>5. Labels(is, ts) = Defines(is) \cup Given(h) \cup GivenBy(r) BY <1>4 DEF Labels
<1>6. Defines(more) \cup GivenBy(new) = Given(h) \cup made BY <1>1 DEF Labels
<1>7. made \cap Labels(is, ts) = {}
  <2>1. \A l : l \in made /\ l \in Labels(is, ts) => l.n \in Int /\ n <= l.n /\ l.n < n BY <1>3
  <2>2. \A k \in Int : ~(n <= k /\ k < n) OBVIOUS
  <2>. QED BY <2>1, <2>2
<1>8. /\ Defines(is \o more) = Defines(is) \cup Defines(more) /\ GoesTo(is \o more) = GoesTo(is) \cup GoesTo(more)
      /\ GivenBy(new \o r) = GivenBy(new) \cup GivenBy(r) /\ WantedBy(new \o r) = WantedBy(new) \cup WantedBy(r)
  BY <1>2, LabelsOfConcat, LabelsOfTasks
<1>9. Once(is \o more)
  <2>1. Defines(is) \cap Defines(more) = {} BY <1>3, <1>4, <1>5, <1>6, <1>7
  <2>2. Once(is) /\ Once(more) BY <1>3 DEF TurnsApart
  <2>. QED BY <2>1, <2>2, LabelsOfConcat
<1>10. Apart(new \o r)
  <2>1. GivenBy(new) \cap GivenBy(r) = {} BY <1>4, <1>5, <1>6, <1>7
  <2>2. Apart(new) /\ Apart(r) BY <1>4 DEF TurnsApart
  <2>. QED BY <1>2, <2>1, <2>2, LabelsOfTasks
<1>11. Defines(is \o more) \cap GivenBy(new \o r) = {}
  <2>1. Defines(more) \cap GivenBy(new) = {} BY DEF TurnsApart
  <2>. QED BY <1>3, <1>4, <1>5, <1>6, <1>7, <1>8, <2>1
<1>12. Labels(is \o more, new \o r) = Labels(is, ts) \cup made BY <1>5, <1>6, <1>8 DEF Labels
<1>13. ASSUME NEW l \in Labels(is \o more, new \o r) PROVE l.n \in Int /\ l.n < m
  <2>1. l.n \in Int /\ (l.n < n \/ l.n < m) BY <1>3, <1>12
  <2>. QED BY <2>1
<1>14. aims \cup GoesTo(is \o more) \cup WantedBy(new \o r) \subseteq Labels(is \o more, new \o r) \cup Elsewhere
  <2>1. Labels(more, new) \subseteq Labels(is, ts) \cup made BY <1>1, <1>5
  <2>2. aims \cup GoesTo(more) \cup WantedBy(new) \subseteq Labels(is, ts) \cup made \cup Elsewhere
    BY <1>1, <1>3, <1>4, <2>1
  <2>3. GoesTo(is) \cup WantedBy(r) \subseteq Labels(is, ts) \cup Elsewhere BY <1>3, <1>4
  <2>. QED BY <1>8, <1>12, <2>2, <2>3
<1>. QED BY <1>1, <1>9, <1>10, <1>11, <1>13, <1>14 DEF LabelsFit

-----------------------------------------------------------------------------
(* Tasks that have nothing to do with labels. *)

Calm(t) ==
  \/ t.op \notin {"code", "fundef", "entry", "endentry", "arguments", "addfn"}
  \/ t.op = "code" /\ Straight(t.insns)

CalmTasks(ts) == IsSequence(ts) /\ \A i \in 1..Len(ts) : Calm(ts[i])

LEMMA CalmTask ==
  ASSUME NEW t, Calm(t)
  PROVE  /\ Given(t) = {} /\ Wanted(t) \subseteq Elsewhere
         /\ t.op \notin {"entry", "endentry"} /\ (t.op = "code" => Once(t.insns))
PROOF
<1>1. CASE t.op = "code"
  <2>1. Defines(t.insns) = {} /\ GoesTo(t.insns) \subseteq Elsewhere BY <1>1 DEF Calm, Straight
  <2>2. Once(t.insns) BY <2>1 DEF Defines, Once
  <2>. QED BY <1>1, <2>1, <2>2 DEF Given, Wanted
<1>2. CASE t.op # "code" BY <1>2 DEF Calm, Given, Wanted
<1>. QED BY <1>1, <1>2

LEMMA CalmGives ==
  ASSUME NEW ts, CalmTasks(ts)
  PROVE  /\ GivenBy(ts) = {} /\ WantedBy(ts) \subseteq Elsewhere /\ Apart(ts)
         /\ IsSequence(ts) /\ \A i \in 1..Len(ts) : ts[i].op \notin {"entry", "endentry"}
PROOF
<1>1. IsSequence(ts) /\ DOMAIN ts = 1..Len(ts) BY SequenceBasics DEF CalmTasks
<1>2. \A i \in DOMAIN ts : /\ Given(ts[i]) = {} /\ Wanted(ts[i]) \subseteq Elsewhere
                           /\ ts[i].op \notin {"entry", "endentry"} /\ (ts[i].op = "code" => Once(ts[i].insns))
  BY <1>1, CalmTask DEF CalmTasks
<1>. QED BY <1>1, <1>2 DEF GivenBy, WantedBy, Apart

LEMMA StraightIs ==
  ASSUME NEW is, Straight(is)
  PROVE  IsSequence(is) /\ Defines(is) = {} /\ GoesTo(is) \subseteq Elsewhere /\ Once(is)
BY DEF Straight, Defines, Once

\* Straight code and calm tasks take the place of a task that defines none.
LEMMA CalmRefit ==
  ASSUME NEW is, IsSequence(is), NEW ts, IsSequence(ts), ts # <<>>, NEW n \in Int, NEW goals,
         LabelsFit(is, ts, n, goals), Given(Head(ts)) = {},
         NEW more, Straight(more), NEW new, CalmTasks(new)
  PROVE  LabelsFit(is \o more, new \o Tail(ts), n, goals)
PROOF
<1>1. IsSequence(more) /\ Defines(more) = {} /\ GoesTo(more) \subseteq Elsewhere /\ Once(more) BY StraightIs
<1>2. IsSequence(new) /\ GivenBy(new) = {} /\ WantedBy(new) \subseteq Elsewhere /\ Apart(new) BY CalmGives
<1>3. PICK made : made = {} OBVIOUS
<1>4. TurnsApart(more, new) BY <1>1, <1>2 DEF TurnsApart
<1>5. Labels(more, new) = Given(Head(ts)) \cup made BY <1>1, <1>2, <1>3 DEF Labels
<1>6. \A l \in made : l.n \in Int /\ n <= l.n /\ l.n < n BY <1>3
<1>7. goals \cup GoesTo(more) \cup WantedBy(new)
        \subseteq goals \cup Wanted(Head(ts)) \cup Labels(more, new) \cup Elsewhere
  BY <1>1, <1>2
<1>8. n <= n OBVIOUS
<1>. QED BY <1>1, <1>2, <1>4, <1>5, <1>6, <1>7, <1>8, Refit

LEMMA EntryStaysLast ==
  ASSUME NEW ts, IsSequence(ts), EndsInEntry(ts), Head(ts).op \notin {"entry", "endentry"},
         NEW new, IsSequence(new), \A i \in 1..Len(new) : new[i].op \notin {"entry", "endentry"}
  PROVE  EndsInEntry(new \o Tail(ts))
PROOF
<1>1. PICK c, m, n : c = new \o Tail(ts) /\ m = Len(new) /\ n = Len(ts) OBVIOUS
<1>2. ts # <<>> BY DEF EndsInEntry
<1>3. /\ IsSequence(c) /\ Len(c) = m + n - 1 /\ m \in Nat /\ n \in Nat \ {0} /\ DOMAIN c = 1..(m + n - 1)
      /\ \A i \in 1..m : c[i] = new[i]
      /\ \A i \in (m + 1)..(m + n - 1) : c[i] = ts[i - m + 1]
  BY <1>1, <1>2, HeadReplaced
<1>4. DOMAIN ts = 1..n /\ Head(ts) = ts[1] BY <1>1, <1>2, SequenceBasics
<1>5. n > 1
  <2>1. 1 \in DOMAIN ts BY <1>3, <1>4
  <2>2. n # 1 BY <1>1, <1>4, <2>1 DEF EndsInEntry
  <2>. QED BY <1>3, <2>2
<1>6. c # <<>>
  <2>1. Len(c) # 0 BY <1>3, <1>5
  <2>. QED BY <1>3, <2>1, SequenceBasics
<1>7. ASSUME NEW i \in DOMAIN c PROVE c[i].op \in {"entry", "endentry"} <=> i = Len(c)
  <2>1. CASE i <= m
    <3>1. i \in 1..m /\ i # m + n - 1 BY <1>3, <1>5, <2>1
    <3>. QED BY <1>1, <1>3, <3>1
  <2>2. CASE i > m
    <3>1. i \in (m + 1)..(m + n - 1) /\ i - m + 1 \in 1..n BY <1>3, <2>2
    <3>2. c[i] = ts[i - m + 1] BY <1>3, <3>1
    <3>3. c[i].op \in {"entry", "endentry"} <=> i - m + 1 = n BY <1>1, <1>4, <3>1, <3>2 DEF EndsInEntry
    <3>. QED BY <1>3, <3>1, <3>3
  <2>. QED BY <1>3, <2>1, <2>2
<1>. QED BY <1>1, <1>6, <1>7 DEF EndsInEntry

-----------------------------------------------------------------------------
(* What a program makes the generator do. *)

LEMMA FourInARow ==
  ASSUME NEW s, NEW t, NEW u, IsSequence(s), IsSequence(t), IsSequence(u), NEW e, Len(t) = Len(u)
  PROVE  /\ Len(s) \in Nat /\ Len(t) \in Nat
         /\ IsSequence(Append(s \o t \o u, e)) /\ Len(Append(s \o t \o u, e)) = Len(s) + Len(t) + Len(t) + 1
         /\ DOMAIN Append(s \o t \o u, e) = 1..(Len(s) + Len(t) + Len(t) + 1)
         /\ \A i \in 1..Len(s) : Append(s \o t \o u, e)[i] = s[i]
         /\ \A i \in 1..Len(t) : /\ Append(s \o t \o u, e)[Len(s) + i] = t[i]
                                /\ Append(s \o t \o u, e)[Len(s) + Len(t) + i] = u[i]
         /\ Append(s \o t \o u, e)[Len(s) + Len(t) + Len(t) + 1] = e
PROOF
<1>0. PICK c, m, n : c = Append(s \o t \o u, e) /\ m = Len(s) /\ n = Len(t) OBVIOUS
<1>1. m \in Nat /\ n \in Nat BY <1>0, SequenceBasics
<1>2. PICK b : b = s \o t \o u OBVIOUS
<1>3. /\ IsSequence(b) /\ Len(b) = m + n + n
      /\ \A i \in 1..m : b[i] = s[i]
      /\ \A i \in 1..n : b[m + i] = t[i]
      /\ \A i \in 1..n : b[m + n + i] = u[i]
  <2>1. IsSequence(s) /\ IsSequence(t) /\ IsSequence(u) OBVIOUS
  <2>2. /\ IsSequence(s \o t \o u) /\ Len(s \o t \o u) = Len(s) + Len(t) + Len(u)
        /\ \A i \in 1..Len(s) : (s \o t \o u)[i] = s[i]
        /\ \A i \in 1..Len(t) : (s \o t \o u)[Len(s) + i] = t[i]
        /\ \A i \in 1..Len(u) : (s \o t \o u)[Len(s) + Len(t) + i] = u[i]
    BY ONLY <2>1, ConcatThree
  <2>. QED BY <1>0, <1>2, <2>2
<1>4. c = Append(b, e) BY <1>0, <1>2
<1>5. /\ IsSequence(c) /\ Len(c) = m + n + n + 1
      /\ \A i \in 1..(m + n + n) : c[i] = b[i]
      /\ c[m + n + n + 1] = e
  <2>1. /\ IsSequence(Append(b, e)) /\ Len(Append(b, e)) = Len(b) + 1
        /\ \A i \in 1..Len(b) : Append(b, e)[i] = b[i]
        /\ Append(b, e)[Len(b) + 1] = e
    BY ONLY <1>3, AppendSequence
  <2>. QED BY ONLY <1>3, <1>4, <2>1
<1>6. DOMAIN c = 1..(m + n + n + 1) BY <1>5, SequenceBasics
<1>7. \A i \in 1..m : i \in 1..(m + n + n) BY <1>1
<1>8. \A i \in 1..n : m + i \in 1..(m + n + n) /\ m + n + i \in 1..(m + n + n) BY <1>1
<1>. QED BY <1>0, <1>1, <1>3, <1>5, <1>6, <1>7, <1>8

\* The plan for fs, after m types: n functions to enter, then to generate.
IsPlan(plan, fs, m, n) ==
  /\ m \in Nat /\ n \in Nat /\ DOMAIN fs = 1..n
  /\ IsSequence(plan) /\ Len(plan) = m + n + n + 1 /\ DOMAIN plan = 1..(m + n + n + 1)
  /\ \A i \in 1..m : plan[i].op = "typedef"
  /\ \A i \in 1..n : /\ plan[m + i] = [op |-> "addfn", def |-> fs[i]]
                     /\ plan[m + n + i] = fs[i] /\ fs[i].op = "fundef"
  /\ plan[m + n + n + 1] = Do("entry")

LEMMA PlanFacts ==
  ASSUME NEW pg, pg \in ProgramTrees(AllTrees)
  PROVE  IsPlan(Plan(pg), pg.function_defs, Len(pg.type_defs), Len(pg.function_defs))
PROOF
<1>1. PICK ds, fs, adds, c, e, m, n : /\ ds = pg.type_defs /\ fs = pg.function_defs /\ adds = Additions(pg)
                                    /\ c = Plan(pg) /\ e = Do("entry") /\ m = Len(ds) /\ n = Len(fs)
  OBVIOUS
<1>2. ds \in Seq(TypeDefs) /\ fs \in Seq(FunctionDefs(AllTrees)) BY <1>1, ProgramParts
<1>3. IsSequence(ds) /\ IsSequence(fs) BY <1>2, IsSequenceIn
<1>4. Len(ds) = m /\ Len(fs) = n BY <1>1
<1>5. /\ \A i \in 1..m : ds[i] \in TypeDefs
      /\ DOMAIN fs = 1..n /\ n \in Nat /\ \A i \in 1..n : fs[i] \in FunctionDefs(AllTrees)
  BY <1>2, <1>3, <1>4, SequenceBasics
<1>6. adds = [i \in 1..n |-> [op |-> "addfn", def |-> fs[i]]] BY <1>1, <1>5 DEF Additions
<1>7. IsSequence(adds) /\ Len(adds) = n /\ \A i \in 1..n : adds[i] = [op |-> "addfn", def |-> fs[i]]
  <2>1. DOMAIN adds = 1..n /\ adds = [i \in 1..n |-> adds[i]] BY <1>6
  <2>. QED BY <1>5, <1>6, <2>1, ToSequence
<1>8. c = ds \o adds \o fs \o <<e>> BY <1>1 DEF Plan
<1>9. /\ m \in Nat /\ n \in Nat
      /\ IsSequence(c) /\ Len(c) = m + n + n + 1 /\ DOMAIN c = 1..(m + n + n + 1)
      /\ \A i \in 1..m : c[i] = ds[i]
      /\ \A i \in 1..n : c[m + i] = adds[i] /\ c[m + n + i] = fs[i]
      /\ c[m + n + n + 1] = e
  <2>1. IsSequence(ds) /\ IsSequence(adds) /\ IsSequence(fs) /\ Len(ds) = m /\ Len(adds) = n /\ Len(fs) = n
    BY <1>3, <1>4, <1>7
  <2>2. PICK row : row = Append(ds \o adds \o fs, e) OBVIOUS
  <2>3. /\ Len(ds) \in Nat /\ Len(adds) \in Nat
        /\ IsSequence(row) /\ Len(row) = Len(ds) + Len(adds) + Len(adds) + 1
        /\ DOMAIN row = 1..(Len(ds) + Len(adds) + Len(adds) + 1)
        /\ \A i \in 1..Len(ds) : row[i] = ds[i]
        /\ \A i \in 1..Len(adds) : row[Len(ds) + i] = adds[i] /\ row[Len(ds) + Len(adds) + i] = fs[i]
        /\ row[Len(ds) + Len(adds) + Len(adds) + 1] = e
    <3>1. IsSequence(ds) /\ IsSequence(adds) /\ IsSequence(fs) BY ONLY <2>1
    <3>2. Len(adds) = Len(fs) BY ONLY <2>1
    <3>. QED BY ONLY <2>2, <3>1, <3>2, FourInARow
  <2>4. c = row
    <3>1. PICK b : b = ds \o adds \o fs OBVIOUS
    <3>2. c = b \o <<e>> BY ONLY <1>8, <3>1
    <3>3. IsSequence(b) BY ONLY <2>1, <3>1, ConcatThree
    <3>4. c = Append(b, e) BY ONLY <3>2, <3>3 DEF IsSequence
    <3>. QED BY ONLY <2>2, <3>1, <3>4
  <2>. QED BY ONLY <2>1, <2>3, <2>4
<1>10. \A i \in 1..m : c[i].op = "typedef" BY <1>5, <1>9 DEF TypeDefs
<1>11. \A i \in 1..n : fs[i].op = "fundef" BY <1>5, FunctionParts
<1>12. \A i \in 1..n : c[m + i] = [op |-> "addfn", def |-> fs[i]] /\ c[m + n + i] = fs[i] BY <1>7, <1>9
<1>13. IsPlan(c, fs, m, n) BY <1>1, <1>5, <1>9, <1>10, <1>11, <1>12 DEF IsPlan
<1>. QED BY <1>1, <1>13

-----------------------------------------------------------------------------
(* Steps. *)

\* Once it turns to the functions, or to Entry, all functions are in the table.
LEMMA AllAdded ==
  ASSUME IInv, phase = "generating", FunctionsOK, Task.op \notin {"typedef", "addfn"}
  PROVE  AddedUpTo(Preparations(prog))
PROOF
<1>1. PICK m, n : m = Len(prog.type_defs) /\ n = Len(prog.function_defs) OBVIOUS
<1>2. prog \in ProgramTrees(AllTrees) /\ IsSequence(todo) /\ todo # <<>> BY HeadTask
<1>3. AddedUpTo(Preparations(prog))
  <2>1. SUFFICES ASSUME NEW p \in 0..(Preparations(prog) - 1), OnlyPrepared(p) PROVE FALSE BY DEF FunctionsOK
  <2>2. Preparations(prog) = m + n BY <1>1 DEF Preparations
  <2>3. PICK plan : plan = Plan(prog) OBVIOUS
  <2>4. /\ m \in Nat /\ n \in Nat
        /\ \A i \in 1..m : plan[i].op = "typedef"
        /\ \A i \in 1..n : plan[m + i] = [op |-> "addfn", def |-> prog.function_defs[i]]
    <3>1. IsPlan(plan, prog.function_defs, m, n) BY <1>1, <1>2, <2>3, PlanFacts
    <3>. QED BY <3>1 DEF IsPlan
  <2>5. 1 \in 1..Len(todo) /\ Task = todo[1] BY <1>2, SequenceBasics DEF Task
  <2>6. Task = plan[p + 1] BY <2>1, <2>3, <2>5 DEF OnlyPrepared
  <2>7. p + 1 \in 1..m \/ (p + 1 - m \in 1..n /\ m + (p + 1 - m) = p + 1) BY <2>2, <2>4
  <2>8. plan[p + 1].op \in {"typedef", "addfn"}
    <3>1. CASE p + 1 \in 1..m BY <2>4, <3>1
    <3>2. CASE p + 1 - m \in 1..n /\ m + (p + 1 - m) = p + 1
      <4>1. PICK i : i = p + 1 - m OBVIOUS
      <4>2. i \in 1..n /\ m + i = p + 1 BY ONLY <3>2, <4>1
      <4>3. plan[m + i] = [op |-> "addfn", def |-> prog.function_defs[i]] BY <2>4, <4>2
      <4>. QED BY ONLY <4>2, <4>3
    <3>. QED BY <2>7, <3>1, <3>2
  <2>. QED BY <2>6, <2>8
<1>. QED BY <1>3

LEMMA FunctionsStay ==
  ASSUME IInv, phase = "generating", FunctionsOK, Task.op \notin {"typedef", "addfn"},
         prog' = prog, DOMAIN fnInfo \subseteq DOMAIN fnInfo'
  PROVE  FunctionsOK'
PROOF
<1>1. AddedUpTo(Preparations(prog)) BY AllAdded
<1>2. AddedUpTo(Preparations(prog))' BY <1>1 DEF AddedUpTo, Preparations
<1>. QED BY <1>2 DEF FunctionsOK

LEMMA Onward ==
  ASSUME IInv, LInv, phase = "generating", phase' = "generating", prog' = prog,
         Task.op \notin {"entry", "endentry"}, FunctionsOK',
         NEW more, insns' = insns \o more, NEW new, IsSequence(new), Then(new),
         \A i \in 1..Len(new) : new[i].op \notin {"entry", "endentry"},
         GoodNames(prog) => LabelsFit(insns \o more, new \o Tail(todo), nextIndex', Known')
  PROVE  LInv'
PROOF
<1>1. IsSequence(todo) /\ EndsInEntry(todo) BY HeadTask DEF LInv, CodeComplete
<1>2. todo' = new \o Tail(todo) BY DEF Then
<1>3. EndsInEntry(todo')
  <2>1. EndsInEntry(new \o Tail(todo)) BY <1>1, EntryStaysLast DEF Task
  <2>. QED BY <1>2, <2>1
<1>4. GoodNames(prog') => LabelsFit(insns', todo', nextIndex', Known') BY <1>2
<1>5. CodeComplete' BY <1>3, <1>4 DEF CodeComplete
<1>6. JumpsResolved' BY DEF JumpsResolved
<1>. QED BY <1>5, <1>6 DEF LInv

\* A step that has nothing to do with labels or functions.
LEMMA CalmStep ==
  ASSUME IInv, LInv, phase = "generating", phase' = "generating",
         prog' = prog, fnInfo' = fnInfo, nextIndex' = nextIndex,
         Task.op \notin {"code", "fundef", "entry", "endentry", "typedef", "addfn"},
         NEW more, Straight(more), insns' = insns \o more, NEW new, CalmTasks(new), Then(new)
  PROVE  LInv'
PROOF
<1>1. IsSequence(todo) /\ todo # <<>> /\ IsSequence(insns) /\ nextIndex \in Int
  BY HeadTask DEF CodeOK, NumbersOK
<1>2. CodeComplete BY DEF LInv
<1>3. FunctionsOK' BY <1>2, FunctionsStay DEF CodeComplete
<1>4. Given(Head(todo)) = {} BY DEF Given, Task
<1>5. Known' = Known BY DEF Known
<1>6. GoodNames(prog) => LabelsFit(insns \o more, new \o Tail(todo), nextIndex', Known')
  <2>1. SUFFICES ASSUME GoodNames(prog) PROVE LabelsFit(insns \o more, new \o Tail(todo), nextIndex, Known)
    BY <1>5
  <2>2. LabelsFit(insns, todo, nextIndex, Known) BY <1>2, <2>1 DEF CodeComplete
  <2>. QED BY <1>1, <1>4, <2>2, CalmRefit
<1>7. IsSequence(new) /\ \A i \in 1..Len(new) : new[i].op \notin {"entry", "endentry"} BY CalmGives
<1>. QED BY <1>3, <1>6, <1>7, Onward

LEMMA NotGenerating ==
  ASSUME LInv, phase' = "error"
  PROVE  LInv'
BY DEF LInv, JumpsResolved

-----------------------------------------------------------------------------
(* Straight code and calm tasks, of the visitors. *)

StraightInsn(i) == i.op \notin {"label", "jmp", "je", "call"}

LEMMA StraightInsns ==
  ASSUME NEW is, IsSequence(is), \A i \in 1..Len(is) : StraightInsn(is[i])
  PROVE  Straight(is)
PROOF
<1>1. DOMAIN is = 1..Len(is) BY SequenceBasics
<1>2. \A i \in DOMAIN is : is[i].op # "label" /\ is[i].op \notin {"jmp", "je", "call"} BY <1>1 DEF StraightInsn
<1>. QED BY <1>2 DEF Straight, Defines, GoesTo

LEMMA InsnIsStraight ==
  ASSUME NEW op, op \notin {"label", "jmp", "je", "call"}
  PROVE  \A a, b : StraightInsn(Insn(op, a, b)) /\ StraightInsn(Insn1(op, a))
BY DEF StraightInsn, Insn, Insn1

LEMMA StraightShort ==
  /\ Straight(<<>>)
  /\ \A i : StraightInsn(i) => Straight(<<i>>)
  /\ \A i, j : StraightInsn(i) /\ StraightInsn(j) => Straight(<<i, j>>)
  /\ \A i, j, k, l : StraightInsn(i) /\ StraightInsn(j) /\ StraightInsn(k) /\ StraightInsn(l) =>
       Straight(<<i, j, k, l>>)
PROOF
<1>1. Straight(<<>>)
  <2>1. IsSequence(<<>>) BY DEF IsSequence
  <2>2. Len(<<>>) = 0 OBVIOUS
  <2>. QED BY <2>1, <2>2, StraightInsns
<1>2. ASSUME NEW i, StraightInsn(i) PROVE Straight(<<i>>)
  <2>1. IsSequence(<<i>>) /\ Len(<<i>>) = 1 /\ <<i>>[1] = i BY ONLY DEF IsSequence, ToSet
  <2>. QED BY <1>2, <2>1, StraightInsns
<1>3. ASSUME NEW i, NEW j, StraightInsn(i), StraightInsn(j) PROVE Straight(<<i, j>>)
  <2>1. IsSequence(<<i, j>>) /\ Len(<<i, j>>) = 2 /\ <<i, j>>[1] = i /\ <<i, j>>[2] = j BY ONLY DEF IsSequence, ToSet
  <2>. QED BY <1>3, <2>1, StraightInsns
<1>4. ASSUME NEW i, NEW j, NEW k, NEW l, StraightInsn(i), StraightInsn(j), StraightInsn(k), StraightInsn(l)
      PROVE  Straight(<<i, j, k, l>>)
  <2>1. PICK s : s = <<i, j, k, l>> OBVIOUS
  <2>2. IsSequence(s) /\ Len(s) = 4 /\ s[1] = i /\ s[2] = j /\ s[3] = k /\ s[4] = l
    BY ONLY <2>1 DEF IsSequence, ToSet
  <2>. QED BY <1>4, <2>1, <2>2, StraightInsns
<1>. QED BY <1>1, <1>2, <1>3, <1>4

LEMMA StraightConcat ==
  ASSUME NEW s, NEW t, Straight(s), Straight(t)
  PROVE  Straight(s \o t)
PROOF
<1>1. IsSequence(s \o t) BY ConcatSequences DEF Straight
<1>. QED BY <1>1, LabelsOfConcat DEF Straight

LEMMA CalmShort ==
  /\ CalmTasks(<<>>)
  /\ \A a : Calm(a) => CalmTasks(<<a>>)
  /\ \A a, b : Calm(a) /\ Calm(b) => CalmTasks(<<a, b>>)
  /\ \A a, b, c : Calm(a) /\ Calm(b) /\ Calm(c) => CalmTasks(<<a, b, c>>)
  /\ \A a, b, c, d, e : Calm(a) /\ Calm(b) /\ Calm(c) /\ Calm(d) /\ Calm(e) => CalmTasks(<<a, b, c, d, e>>)
PROOF
<1>1. CalmTasks(<<>>)
  <2>1. IsSequence(<<>>) /\ Len(<<>>) = 0 BY DEF IsSequence
  <2>. QED BY <2>1 DEF CalmTasks
<1>2. ASSUME NEW a, Calm(a) PROVE CalmTasks(<<a>>)
  <2>1. IsSequence(<<a>>) /\ Len(<<a>>) = 1 /\ <<a>>[1] = a BY ONLY DEF IsSequence, ToSet
  <2>. QED BY <1>2, <2>1 DEF CalmTasks
<1>3. ASSUME NEW a, NEW b, Calm(a), Calm(b) PROVE CalmTasks(<<a, b>>)
  <2>1. IsSequence(<<a, b>>) /\ Len(<<a, b>>) = 2 /\ <<a, b>>[1] = a /\ <<a, b>>[2] = b BY ONLY DEF IsSequence, ToSet
  <2>. QED BY <1>3, <2>1 DEF CalmTasks
<1>4. ASSUME NEW a, NEW b, NEW c, Calm(a), Calm(b), Calm(c) PROVE CalmTasks(<<a, b, c>>)
  <2>1. PICK s : s = <<a, b, c>> OBVIOUS
  <2>2. IsSequence(s) /\ Len(s) = 3 /\ s[1] = a /\ s[2] = b /\ s[3] = c BY ONLY <2>1 DEF IsSequence, ToSet
  <2>. QED BY <1>4, <2>1, <2>2 DEF CalmTasks
<1>5. ASSUME NEW a, NEW b, NEW c, NEW d, NEW e, Calm(a), Calm(b), Calm(c), Calm(d), Calm(e)
      PROVE  CalmTasks(<<a, b, c, d, e>>)
  <2>1. PICK s : s = <<a, b, c, d, e>> OBVIOUS
  <2>2. IsSequence(s) /\ Len(s) = 5 /\ s[1] = a /\ s[2] = b /\ s[3] = c /\ s[4] = d /\ s[5] = e
    BY ONLY <2>1 DEF IsSequence, ToSet
  <2>. QED BY <1>5, <2>1, <2>2 DEF CalmTasks
<1>. QED BY <1>1, <1>2, <1>3, <1>4, <1>5

LEMMA CalmOps ==
  /\ \A t : t.op \notin {"code", "fundef", "entry", "endentry", "arguments", "addfn"} => Calm(t)
  /\ \A e \in Expressions : Calm(e)
  /\ \A s \in AllTrees.stmts : Calm(s)
  /\ \A b \in AllTrees.blocks : Calm(b)
  /\ \A c \in FunctionCalls(AllTrees) : Calm(c)
  /\ \A is : Straight(is) => Calm(Code(is))
PROOF
<1>1. ASSUME NEW e \in Expressions PROVE Calm(e)
  <2>1. e.op \in ExpressionOps BY ExpressionParts
  <2>. QED BY <2>1 DEF Calm, ExpressionOps, BinaryOps, ArithmeticOps, RelationalOps, LogicalOps
<1>2. ASSUME NEW s \in AllTrees.stmts PROVE Calm(s)
  <2>1. s.op \in StatementOps BY StatementParts
  <2>. QED BY <2>1 DEF Calm, StatementOps
<1>3. ASSUME NEW b \in AllTrees.blocks PROVE Calm(b)
  <2>1. b.op = "block" BY BlockParts
  <2>. QED BY <2>1 DEF Calm
<1>4. ASSUME NEW c \in FunctionCalls(AllTrees) PROVE Calm(c)
  <2>1. c.op = "call" BY DEF FunctionCalls
  <2>. QED BY <2>1 DEF Calm
<1>5. ASSUME NEW is, Straight(is) PROVE Calm(Code(is)) BY <1>5 DEF Calm, Code
<1>6. \A t : t.op \notin {"code", "fundef", "entry", "endentry", "arguments", "addfn"} => Calm(t) BY DEF Calm
<1>. QED BY <1>1, <1>2, <1>3, <1>4, <1>5, <1>6

-----------------------------------------------------------------------------
(* The steps that have nothing to do with labels. *)

LEMMA FreeTmpJumps == IInv /\ LInv /\ FreeTmp => LInv'
PROOF
<1>. SUFFICES ASSUME IInv, LInv, FreeTmp PROVE LInv' OBVIOUS
<1>1. PICK more : more = <<Insn("add", Imm(Word), ESP)>> OBVIOUS
<1>2. Straight(more) BY <1>1, InsnIsStraight, StraightShort
<1>3. insns' = insns \o more /\ Then(<<>>) BY <1>1 DEF FreeTmp, Emit
<1>4. UNCHANGED <<phase, prog, fnInfo, nextIndex>> BY DEF FreeTmp, tables, names
<1>5. phase = "generating" /\ Task.op = "free" BY DEF FreeTmp, At
<1>. QED BY <1>2, <1>3, <1>4, <1>5, CalmShort, CalmStep

LEMMA SaveTmpJumps == IInv /\ LInv /\ SaveTmp => LInv'
PROOF
<1>. SUFFICES ASSUME IInv, LInv, SaveTmp PROVE LInv' OBVIOUS
<1>1. PICK more : more = <<Insn("movl", EAX, TmpSlot(Task.tmp))>> OBVIOUS
<1>2. Straight(more) BY <1>1, InsnIsStraight, StraightShort
<1>3. insns' = insns \o more /\ Then(<<>>) BY <1>1 DEF SaveTmp, Emit
<1>4. UNCHANGED <<phase, prog, fnInfo, nextIndex>> BY DEF SaveTmp, tables, names
<1>5. phase = "generating" /\ Task.op = "save" BY DEF SaveTmp, At
<1>. QED BY <1>2, <1>3, <1>4, <1>5, CalmShort, CalmStep

LEMMA VisitConstantJumps == IInv /\ LInv /\ VisitConstant => LInv'
PROOF
<1>. SUFFICES ASSUME IInv, LInv, VisitConstant PROVE LInv' OBVIOUS
<1>1. PICK n : n = IF At("nil") THEN 0 ELSE Task.value OBVIOUS
<1>2. PICK more : more = <<Insn("movl", Imm(n), EAX)>> OBVIOUS
<1>3. Straight(more) BY <1>2, InsnIsStraight, StraightShort
<1>4. insns' = insns \o more /\ Then(<<>>) BY <1>1, <1>2 DEF VisitConstant, Emit, At
<1>5. UNCHANGED <<phase, prog, fnInfo, nextIndex>> BY DEF VisitConstant, tables, names
<1>6. phase = "generating" /\ Task.op \in {"nil", "int"} BY DEF VisitConstant, At
<1>. QED BY <1>3, <1>4, <1>5, <1>6, CalmShort, CalmStep

\* The call of allocate() is the only one that the program does not define.
LEMMA NewCodeStraight ==
  ASSUME NEW fields, IsSequence(fields)
  PROVE  Straight(NewCode(fields))
PROOF
<1>1. PICK a, b : /\ a = <<Insn1("pushl", Imm(Len(fields))), Insn1("call", Lbl("allocate")),
                          Insn("sub", Imm(Word), ESP), Insn("movl", Imm(Tag(fields)), Mem(-Word, "eax"))>>
                  /\ b = [i \in DOMAIN fields |-> Insn("movl", Imm(0), Mem(Word * (i - 1), "eax"))]
  OBVIOUS
<1>2. Straight(a)
  <2>1. PICK i, j, k, l : /\ i = Insn1("pushl", Imm(Len(fields))) /\ j = Insn1("call", Lbl("allocate"))
                          /\ k = Insn("sub", Imm(Word), ESP) /\ l = Insn("movl", Imm(Tag(fields)), Mem(-Word, "eax"))
    OBVIOUS
  <2>2. StraightInsn(i) /\ StraightInsn(k) /\ StraightInsn(l) BY <2>1, InsnIsStraight
  <2>3. j.op = "call" /\ j.src = Lbl("allocate") BY <2>1 DEF Insn1, Insn
  <2>4. a = <<i, j, k, l>> BY <1>1, <2>1
  <2>5. IsSequence(a) /\ DOMAIN a = 1..4 /\ a[1] = i /\ a[2] = j /\ a[3] = k /\ a[4] = l
    BY ONLY <2>4 DEF IsSequence, ToSet
  <2>6. \A x \in DOMAIN a : x = 2 \/ StraightInsn(a[x]) BY <2>2, <2>5
  <2>7. \A x \in DOMAIN a : a[x].op # "label" /\ (a[x].op \in {"jmp", "je", "call"} => a[x].src = Lbl("allocate"))
    BY <2>3, <2>5, <2>6 DEF StraightInsn
  <2>. QED BY <2>5, <2>7 DEF Straight, Defines, GoesTo, Elsewhere
<1>3. Straight(b)
  <2>1. DOMAIN fields = 1..Len(fields) /\ Len(fields) \in Nat BY SequenceBasics
  <2>2. DOMAIN b = 1..Len(fields) /\ b = [i \in 1..Len(fields) |-> b[i]] BY <1>1, <2>1
  <2>3. IsSequence(b) /\ Len(b) = Len(fields) BY <2>1, <2>2, ToSequence
  <2>4. \A i \in 1..Len(b) : StraightInsn(b[i]) BY <1>1, <2>1, <2>3, InsnIsStraight
  <2>. QED BY <2>3, <2>4, StraightInsns
<1>4. Straight(a \o b) BY <1>2, <1>3, StraightConcat
<1>. QED BY <1>1, <1>4 DEF NewCode

LEMMA VisitNewJumps == IInv /\ LInv /\ VisitNew => LInv'
PROOF
<1>. SUFFICES ASSUME IInv, LInv, VisitNew PROVE LInv' OBVIOUS
<1>1. phase = "generating" /\ Task.op = "new" /\ prog' = prog BY DEF VisitNew, At
<1>2. CASE Task.type \in DOMAIN typeInfo
  <2>1. PICK fields : fields = typeInfo[Task.type] OBVIOUS
  <2>2. fields \in Seq(Declarations) BY <1>1, <1>2, <2>1, HeadTask DEF TablesOK
  <2>3. PICK more : more = NewCode(fields) OBVIOUS
  <2>4. Straight(more) BY <2>2, <2>3, IsSequenceIn, NewCodeStraight
  <2>5. insns' = insns \o more /\ Then(<<>>) BY <1>2, <2>1, <2>3 DEF VisitNew, Emit
  <2>6. UNCHANGED <<phase, fnInfo, nextIndex>> BY <1>2 DEF VisitNew, tables, names
  <2>. QED BY <1>1, <2>4, <2>5, <2>6, CalmShort, CalmStep
<1>3. CASE Task.type \notin DOMAIN typeInfo
  <2>1. phase' = "error" BY <1>3 DEF VisitNew, Fail
  <2>. QED BY <2>1, NotGenerating
<1>. QED BY <1>2, <1>3

LEMMA VisitAccessPathJumps == IInv /\ LInv /\ VisitAccessPath => LInv'
PROOF
<1>. SUFFICES ASSUME IInv, LInv, VisitAccessPath PROVE LInv' OBVIOUS
<1>1. phase = "generating" /\ Task.op = "path" /\ prog' = prog BY DEF VisitAccessPath, At
<1>2. CASE Scopes(ctx, Task.root) # {}
  <2>1. PICK root : root = Lookup(ctx, Task.root) OBVIOUS
  <2>2. PICK more, t : /\ more = <<Insn("movl", EBP, EAX), Insn("sub", Imm(root.off), EAX)>>
                       /\ t = Fields(root.type, Task.fieldAccesses)
    OBVIOUS
  <2>3. Straight(more) BY <2>2, InsnIsStraight, StraightShort
  <2>4. t.op = "fields" BY <2>2 DEF Fields
  <2>5. CalmTasks(<<t>>) BY <2>4, CalmOps, CalmShort
  <2>6. insns' = insns \o more /\ Then(<<t>>) BY <1>2, <2>1, <2>2 DEF VisitAccessPath, Emit
  <2>7. UNCHANGED <<phase, fnInfo, nextIndex>> BY <1>2 DEF VisitAccessPath, tables, names
  <2>. QED BY <1>1, <2>3, <2>5, <2>6, <2>7, CalmStep
<1>3. CASE Scopes(ctx, Task.root) = {}
  <2>1. phase' = "error" BY <1>3 DEF VisitAccessPath, Fail
  <2>. QED BY <2>1, NotGenerating
<1>. QED BY <1>2, <1>3

LEMMA FollowFieldJumps == IInv /\ LInv /\ FollowField => LInv'
PROOF
<1>. SUFFICES ASSUME IInv, LInv, FollowField PROVE LInv' OBVIOUS
<1>1. phase = "generating" /\ Task.op = "fields" /\ prog' = prog BY DEF FollowField, At
<1>2. PICK f : f = Head(Task.fields) OBVIOUS
<1>3. CASE FieldIndices(Task.type, f) # {}
  <2>1. PICK more, t : /\ more = FieldCode(Task.type, f)
                       /\ t = Fields(FieldType(Task.type, f), Tail(Task.fields))
    OBVIOUS
  <2>2. Straight(more) BY <2>1, InsnIsStraight, StraightShort DEF FieldCode
  <2>3. t.op = "fields" BY <2>1 DEF Fields
  <2>4. CalmTasks(<<t>>) BY <2>3, CalmOps, CalmShort
  <2>5. insns' = insns \o more /\ Then(<<t>>) BY <1>2, <1>3, <2>1 DEF FollowField, Emit
  <2>6. UNCHANGED <<phase, fnInfo, nextIndex>> BY <1>2, <1>3 DEF FollowField, tables, names
  <2>. QED BY <1>1, <2>2, <2>4, <2>5, <2>6, CalmStep
<1>4. CASE FieldIndices(Task.type, f) = {}
  <2>1. phase' = "error" BY <1>2, <1>4 DEF FollowField, Fail
  <2>. QED BY <2>1, NotGenerating
<1>. QED BY <1>3, <1>4

LEMMA LoadPathJumps == IInv /\ LInv /\ LoadPath => LInv'
PROOF
<1>. SUFFICES ASSUME IInv, LInv, LoadPath PROVE LInv' OBVIOUS
<1>1. PICK more : more = IF inLhs THEN <<>> ELSE <<Insn("movl", Mem(0, "eax"), EAX)>> OBVIOUS
<1>2. Straight(more) BY <1>1, InsnIsStraight, StraightShort
<1>3. insns' = insns \o more /\ Then(<<>>) BY <1>1 DEF LoadPath, Emit
<1>4. UNCHANGED <<phase, prog, fnInfo, nextIndex>> BY DEF LoadPath, tables, names
<1>5. phase = "generating" /\ Task.op = "fields" BY DEF LoadPath, At
<1>. QED BY <1>2, <1>3, <1>4, <1>5, CalmShort, CalmStep

LEMMA VisitBinaryJumps == IInv /\ LInv /\ VisitBinary => LInv'
PROOF
<1>. SUFFICES ASSUME IInv, LInv, VisitBinary PROVE LInv' OBVIOUS
<1>1. phase = "generating" /\ Task.op \in BinaryOps BY DEF VisitBinary
<1>2. PICK u : Does(Task, View, u) BY <1>1, HeadTask
<1>3. Task \in Expressions BY <1>1, <1>2 DEF Does, DoesCode, ExpressionOps
<1>4. PICK more, a, b, c, d, e :
        /\ more = <<Insn("sub", Imm(Word), ESP)>> /\ a = Task.lhs /\ b = Save(Tmp(nextTmp)) /\ c = Task.rhs
        /\ d = Operate(Task.op, Tmp(nextTmp)) /\ e = Do("free")
  OBVIOUS
<1>5. Straight(more) BY <1>4, InsnIsStraight, StraightShort
<1>6. Calm(a) /\ Calm(c) BY <1>1, <1>3, <1>4, ExpressionParts, CalmOps
<1>7. b.op = "save" /\ d.op = "operate" /\ e.op = "free" BY <1>4 DEF Save, Operate, Do
<1>8. CalmTasks(<<a, b, c, d, e>>) BY <1>6, <1>7, CalmOps, CalmShort
<1>9. insns' = insns \o more /\ Then(<<a, b, c, d, e>>) BY <1>4 DEF VisitBinary, Emit
<1>10. UNCHANGED <<phase, prog, fnInfo, nextIndex>> BY DEF VisitBinary, OpenTmp, tables
<1>11. Task.op \notin {"code", "fundef", "entry", "endentry", "typedef", "addfn"}
  BY <1>1 DEF BinaryOps, ArithmeticOps, RelationalOps, LogicalOps
<1>. QED BY <1>1, <1>5, <1>8, <1>9, <1>10, <1>11, CalmStep

LEMMA ApplyOperatorJumps == IInv /\ LInv /\ ApplyOperator => LInv'
PROOF
<1>. SUFFICES ASSUME IInv, LInv, ApplyOperator PROVE LInv' OBVIOUS
<1>1. phase = "generating" /\ Task.op = "operate" BY DEF ApplyOperator, At
<1>2. PICK u : Does(Task, View, u) BY <1>1, HeadTask
<1>3. PICK op : op = Task.by OBVIOUS
<1>4. op \in BinaryOps BY <1>1, <1>2, <1>3 DEF Does, DoesTmp
<1>5. PICK a, b : a = <<Insn("movl", TmpSlot(Task.tmp), EDX)>> /\ b = OperatorCode(op) OBVIOUS
<1>6. Straight(a) BY <1>5, InsnIsStraight, StraightShort
<1>7. Straight(b)
  <2>1. \A set \in {"setl", "setle", "sete"} : Straight(Compare(set)) BY InsnIsStraight, StraightShort DEF Compare
  <2>2. op \in {"add", "sub", "mul", "lt", "le", "eq", "and", "or"}
    BY <1>4 DEF BinaryOps, ArithmeticOps, RelationalOps, LogicalOps
  <2>3. /\ Straight(<<Insn("add", EDX, EAX)>>) /\ Straight(<<Insn("sub", EAX, EDX), Insn("movl", EDX, EAX)>>)
        /\ Straight(<<Insn("imul", EDX, EAX)>>) /\ Straight(<<Insn("andl", EDX, EAX)>>)
        /\ Straight(<<Insn("orl", EDX, EAX)>>)
    BY InsnIsStraight, StraightShort
  <2>4. Straight(OperatorCode(op)) BY <2>1, <2>2, <2>3 DEF OperatorCode
  <2>. QED BY <1>5, <2>4
<1>8. Straight(a \o b) BY <1>6, <1>7, StraightConcat
<1>9. insns' = insns \o (a \o b) /\ Then(<<>>) BY <1>3, <1>5 DEF ApplyOperator, Emit
<1>10. UNCHANGED <<phase, prog, fnInfo, nextIndex>> BY DEF ApplyOperator, tables, names
<1>. QED BY <1>1, <1>8, <1>9, <1>10, CalmShort, CalmStep

LEMMA VisitNotJumps == IInv /\ LInv /\ VisitNot => LInv'
PROOF
<1>. SUFFICES ASSUME IInv, LInv, VisitNot PROVE LInv' OBVIOUS
<1>1. phase = "generating" /\ Task.op = "not" BY DEF VisitNot, At
<1>2. PICK u : Does(Task, View, u) BY <1>1, HeadTask
<1>3. Task \in Expressions BY <1>1, <1>2 DEF Does, DoesCode, ExpressionOps
<1>4. PICK a, code : a = Task.operand /\ code = <<Insn("cmp", Imm(0), EAX), Insn("sete", None, EAX)>> OBVIOUS
<1>5. Straight(code) BY <1>4, InsnIsStraight, StraightShort
<1>6. Calm(a) /\ Calm(Code(code)) BY <1>1, <1>3, <1>4, <1>5, ExpressionParts, CalmOps
<1>7. CalmTasks(<<a, Code(code)>>) BY <1>6, CalmShort
<1>8. PICK more : more = <<>> OBVIOUS
<1>9. insns' = insns \o more /\ Straight(more) BY <1>1, <1>8, NothingEmitted, StraightShort DEF VisitNot
<1>10. Then(<<a, Code(code)>>) BY <1>4 DEF VisitNot
<1>11. UNCHANGED <<phase, prog, fnInfo, nextIndex>> BY DEF VisitNot, tables, names
<1>. QED BY <1>1, <1>7, <1>9, <1>10, <1>11, CalmStep

LEMMA InitializeStraight ==
  ASSUME NEW ds, IsSequence(ds), NEW c
  PROVE  Straight(Initialize(ds, c))
PROOF
<1>1. PICK b : b = Initialize(ds, c) OBVIOUS
<1>2. DOMAIN ds = 1..Len(ds) /\ Len(ds) \in Nat BY SequenceBasics
<1>3. b = [i \in 1..Len(ds) |-> Insn("movl", Imm(0), Mem(-Lookup(c, ds[i].id).off, "ebp"))]
  BY <1>1, <1>2 DEF Initialize
<1>4. DOMAIN b = 1..Len(ds) /\ b = [i \in 1..Len(ds) |-> b[i]] BY <1>3
<1>5. IsSequence(b) /\ Len(b) = Len(ds) BY <1>2, <1>4, ToSequence
<1>6. \A i \in 1..Len(b) : StraightInsn(b[i]) BY <1>3, <1>5, InsnIsStraight
<1>. QED BY <1>1, <1>5, <1>6, StraightInsns

LEMMA VisitBlockJumps == IInv /\ LInv /\ VisitBlock => LInv'
PROOF
<1>. SUFFICES ASSUME IInv, LInv, VisitBlock PROVE LInv' OBVIOUS
<1>1. phase = "generating" /\ Task.op = "block" /\ prog' = prog BY DEF VisitBlock, At
<1>2. CASE DistinctIds(Task.decls) /\ (inTop \/ Task.decls = <<>>)
  <2>1. PICK u : Does(Task, View, u) BY <1>1, HeadTask
  <2>2. PICK ds, ss, c, t :
          /\ ds = Task.decls /\ ss = Task.stmts
          /\ c = Declare(OpenScope(ctx, IF inTop THEN "body" ELSE "block"), Task.decls)
          /\ t = EndOfBlock(inTop, Word * Len(Task.decls))
    OBVIOUS
  <2>3. ds \in Seq(Declarations) /\ ss \in Seq(AllTrees.stmts)
    BY <1>1, <2>1, <2>2, BlockParts DEF Does, DoesBlock
  <2>4. IsSequence(ds) /\ IsSequence(ss) /\ \A i \in 1..Len(ss) : ss[i] \in AllTrees.stmts
    BY <2>3, IsSequenceIn, SequenceBasics
  <2>5. PICK more : more = Reserve(ds) \o Initialize(ds, c) OBVIOUS
  <2>6. Straight(Reserve(ds)) BY InsnIsStraight, StraightShort DEF Reserve
  <2>7. Straight(more) BY <2>4, <2>5, <2>6, InitializeStraight, StraightConcat
  <2>8. insns' = insns \o more /\ Then(ss \o <<t>>)
    BY <1>2, <2>2, <2>5 DEF VisitBlock, Emit, EndOfBlock
  <2>9. t.op = "endblock" BY <2>2 DEF EndOfBlock
  <2>10. PICK new : new = Append(ss, t) OBVIOUS
  <2>11. ss \o <<t>> = new BY ONLY <2>4, <2>10 DEF IsSequence
  <2>12. CalmTasks(new)
    <3>1. /\ IsSequence(new) /\ Len(new) = Len(ss) + 1 /\ Len(ss) \in Nat
          /\ \A i \in 1..Len(ss) : new[i] = ss[i]
          /\ new[Len(ss) + 1] = t
      BY <2>4, <2>10, AppendSequence, SequenceBasics
    <3>2. Calm(t) /\ \A i \in 1..Len(ss) : Calm(ss[i]) BY <2>4, <2>9, CalmOps
    <3>3. \A i \in 1..Len(new) : i \in 1..Len(ss) \/ i = Len(ss) + 1 BY <3>1
    <3>. QED BY <3>1, <3>2, <3>3 DEF CalmTasks
  <2>13. UNCHANGED <<phase, fnInfo, nextIndex>> BY <1>2 DEF VisitBlock, tables, names
  <2>14. Then(new) BY <2>8, <2>11
  <2>. QED BY <1>1, <2>7, <2>8, <2>12, <2>13, <2>14, CalmStep
<1>3. CASE ~(DistinctIds(Task.decls) /\ (inTop \/ Task.decls = <<>>))
  <2>1. phase' = "error" BY <1>3 DEF VisitBlock, Fail
  <2>. QED BY <2>1, NotGenerating
<1>. QED BY <1>2, <1>3

LEMMA EndBlockJumps == IInv /\ LInv /\ EndBlock => LInv'
PROOF
<1>. SUFFICES ASSUME IInv, LInv, EndBlock PROVE LInv' OBVIOUS
<1>1. phase = "generating" /\ Task.op = "endblock" BY DEF EndBlock, At
<1>2. PICK more : more = IF Task.wasTop THEN <<>> ELSE <<Insn("add", Imm(Task.size), ESP)>> OBVIOUS
<1>3. Straight(more) BY <1>2, InsnIsStraight, StraightShort
<1>4. insns' = insns \o more
  <2>1. CASE Task.wasTop BY <1>1, <1>2, <2>1, NothingEmitted DEF EndBlock
  <2>2. CASE ~Task.wasTop BY <1>2, <2>2 DEF EndBlock, Emit
  <2>. QED BY <2>1, <2>2
<1>5. Then(<<>>) BY DEF EndBlock
<1>6. UNCHANGED <<phase, prog, fnInfo, nextIndex>> BY DEF EndBlock, tables, names
<1>. QED BY <1>1, <1>3, <1>4, <1>5, <1>6, CalmShort, CalmStep

LEMMA VisitAssignmentJumps == IInv /\ LInv /\ VisitAssignment => LInv'
PROOF
<1>. SUFFICES ASSUME IInv, LInv, VisitAssignment PROVE LInv' OBVIOUS
<1>1. phase = "generating" /\ Task.op = "assign" BY DEF VisitAssignment, At
<1>2. PICK u : Does(Task, View, u) BY <1>1, HeadTask
<1>3. Task \in AllTrees.stmts BY <1>1, <1>2 DEF Does, DoesStatement, StatementOps
<1>4. PICK a, b : a = Task.rhs /\ b = [op |-> "assignto", lhs |-> Task.lhs] OBVIOUS
<1>5. a \in AllTrees.aexps \/ a \in FunctionCalls(AllTrees) BY <1>1, <1>3, <1>4, StatementParts
<1>6. Calm(a) BY <1>5, CalmOps DEF Expressions
<1>7. b.op = "assignto" BY <1>4
<1>8. CalmTasks(<<a, b>>) BY <1>6, <1>7, CalmOps, CalmShort
<1>9. PICK more : more = <<>> OBVIOUS
<1>10. insns' = insns \o more /\ Straight(more) BY <1>1, <1>9, NothingEmitted, StraightShort DEF VisitAssignment
<1>11. Then(<<a, b>>) BY <1>4 DEF VisitAssignment
<1>12. UNCHANGED <<phase, prog, fnInfo, nextIndex>> BY DEF VisitAssignment, tables, names
<1>. QED BY <1>1, <1>8, <1>10, <1>11, <1>12, CalmStep

LEMMA AssignToJumps == IInv /\ LInv /\ AssignTo => LInv'
PROOF
<1>. SUFFICES ASSUME IInv, LInv, AssignTo PROVE LInv' OBVIOUS
<1>1. phase = "generating" /\ Task.op = "assignto" BY DEF AssignTo, At
<1>2. PICK u : Does(Task, View, u) BY <1>1, HeadTask
<1>3. PICK more, a, b, c : /\ more = <<Insn("sub", Imm(Word), ESP), Insn("movl", EAX, Mem(-Top.next, "ebp"))>>
                           /\ a = Task.lhs /\ b = [op |-> "store", tmp |-> Tmp(nextTmp)] /\ c = Do("free")
  OBVIOUS
<1>4. a.op = "path" BY <1>1, <1>2, <1>3 DEF Does, DoesStatement, Paths
<1>5. b.op = "store" /\ c.op = "free" BY <1>3 DEF Do
<1>6. CalmTasks(<<a, b, c>>) BY <1>4, <1>5, CalmOps, CalmShort
<1>7. Straight(more) BY <1>3, InsnIsStraight, StraightShort
<1>8. insns' = insns \o more /\ Then(<<a, b, c>>) BY <1>3 DEF AssignTo, Emit
<1>9. UNCHANGED <<phase, prog, fnInfo, nextIndex>> BY DEF AssignTo, OpenTmp, tables
<1>. QED BY <1>1, <1>6, <1>7, <1>8, <1>9, CalmStep

LEMMA StoreValueJumps == IInv /\ LInv /\ StoreValue => LInv'
PROOF
<1>. SUFFICES ASSUME IInv, LInv, StoreValue PROVE LInv' OBVIOUS
<1>1. PICK more : more = <<Insn("movl", TmpSlot(Task.tmp), EDX), Insn("movl", EDX, Mem(0, "eax"))>> OBVIOUS
<1>2. Straight(more) BY <1>1, InsnIsStraight, StraightShort
<1>3. insns' = insns \o more /\ Then(<<>>) BY <1>1 DEF StoreValue, Emit
<1>4. UNCHANGED <<phase, prog, fnInfo, nextIndex>> BY DEF StoreValue, tables, names
<1>5. phase = "generating" /\ Task.op = "store" BY DEF StoreValue, At
<1>. QED BY <1>2, <1>3, <1>4, <1>5, CalmShort, CalmStep

LEMMA PushArgJumps == IInv /\ LInv /\ PushArg => LInv'
PROOF
<1>. SUFFICES ASSUME IInv, LInv, PushArg PROVE LInv' OBVIOUS
<1>1. PICK more : more = <<Insn1("push", EAX)>> OBVIOUS
<1>2. Straight(more) BY <1>1, InsnIsStraight, StraightShort
<1>3. insns' = insns \o more /\ Then(<<>>) BY <1>1 DEF PushArg, Emit
<1>4. UNCHANGED <<phase, prog, fnInfo, nextIndex>> BY DEF PushArg, tables, names
<1>5. phase = "generating" /\ Task.op = "push" BY DEF PushArg, At
<1>. QED BY <1>2, <1>3, <1>4, <1>5, CalmShort, CalmStep

LEMMA EpilogueStraight ==
  ASSUME NEW size
  PROVE  Straight(Epilogue(size))
PROOF
<1>1. PICK a, b, c, d : /\ a = Insn("add", Imm(size), ESP) /\ b = Insn("movl", EBP, ESP)
                        /\ c = Insn1("pop", EBP) /\ d = Insn("ret", None, None)
  OBVIOUS
<1>2. StraightInsn(a) /\ StraightInsn(b) /\ StraightInsn(c) /\ StraightInsn(d) BY <1>1, InsnIsStraight
<1>3. Straight(<<a, b, c, d>>) BY <1>2, StraightShort
<1>. QED BY <1>1, <1>3 DEF Epilogue

LEMMA EndFunctionDefJumps == IInv /\ LInv /\ EndFunctionDef => LInv'
PROOF
<1>. SUFFICES ASSUME IInv, LInv, EndFunctionDef PROVE LInv' OBVIOUS
<1>1. PICK more : more = Epilogue(Word * Len(Task.def.function_body.decls)) OBVIOUS
<1>2. Straight(more) BY <1>1, EpilogueStraight
<1>3. insns' = insns \o more /\ Then(<<>>) BY <1>1 DEF EndFunctionDef, Emit
<1>4. UNCHANGED <<phase, prog, fnInfo, nextIndex>> BY DEF EndFunctionDef, tables, names
<1>5. phase = "generating" /\ Task.op = "endfn" BY DEF EndFunctionDef, At
<1>. QED BY <1>2, <1>3, <1>4, <1>5, CalmShort, CalmStep

-----------------------------------------------------------------------------
(* The steps that define labels, or go to them. *)

\* No label is made: what the task defines is in the code emitted.
LEMMA RefitNoneMade ==
  ASSUME NEW is, IsSequence(is), NEW ts, IsSequence(ts), ts # <<>>, NEW n \in Int, NEW goals,
         LabelsFit(is, ts, n, goals),
         NEW more, IsSequence(more), Once(more), Defines(more) = Given(Head(ts)),
         NEW new, IsSequence(new), GivenBy(new) = {}, Apart(new),
         NEW aims, aims \cup GoesTo(more) \cup WantedBy(new) \subseteq goals \cup Wanted(Head(ts)) \cup Elsewhere
  PROVE  LabelsFit(is \o more, new \o Tail(ts), n, aims)
PROOF
<1>1. PICK made : made = {} OBVIOUS
<1>2. TurnsApart(more, new) BY DEF TurnsApart
<1>3. Labels(more, new) = Given(Head(ts)) \cup made BY <1>1 DEF Labels
<1>4. \A l \in made : l.n \in Int /\ n <= l.n /\ l.n < n BY <1>1
<1>5. n <= n OBVIOUS
<1>6. aims \cup GoesTo(more) \cup WantedBy(new)
        \subseteq goals \cup Wanted(Head(ts)) \cup Labels(more, new) \cup Elsewhere
  OBVIOUS
<1>. QED BY <1>2, <1>3, <1>4, <1>5, <1>6, Refit

\* What the steps below start from.
LEMMA BeforeStep ==
  ASSUME IInv, LInv, phase = "generating"
  PROVE  /\ IsSequence(todo) /\ todo # <<>> /\ IsSequence(insns) /\ nextIndex \in Nat /\ nextIndex \in Int
         /\ prog \in ProgramTrees(AllTrees) /\ FunctionsOK /\ EndsInEntry(todo)
         /\ GoodNames(prog) => LabelsFit(insns, todo, nextIndex, Known)
BY HeadTask DEF CodeOK, NumbersOK, LInv, CodeComplete

LEMMA NoTasks ==
  /\ IsSequence(<<>>) /\ GivenBy(<<>>) = {} /\ WantedBy(<<>>) = {} /\ Apart(<<>>)
  /\ \A i \in 1..Len(<<>>) : FALSE
PROOF
<1>1. IsSequence(<<>>) /\ Len(<<>>) = 0 /\ DOMAIN <<>> = {} BY DEF IsSequence
<1>. QED BY <1>1 DEF GivenBy, WantedBy, Apart

LEMMA NoCode ==
  IsSequence(<<>>) /\ Defines(<<>>) = {} /\ GoesTo(<<>>) = {} /\ Once(<<>>)
PROOF
<1>1. IsSequence(<<>>) /\ DOMAIN <<>> = {} BY DEF IsSequence
<1>. QED BY <1>1 DEF Defines, GoesTo, Once

LEMMA EmitCodeJumps == IInv /\ LInv /\ EmitCode => LInv'
PROOF
<1>. SUFFICES ASSUME IInv, LInv, EmitCode PROVE LInv' OBVIOUS
<1>1. phase = "generating" /\ Task.op = "code" BY DEF EmitCode, At
<1>2. PICK u : Does(Task, View, u) BY <1>1, HeadTask
<1>3. PICK more, new : more = Task.insns /\ new = <<>> OBVIOUS
<1>4. IsSequence(more) BY <1>1, <1>2, <1>3 DEF Does, DoesCode
<1>5. insns' = insns \o more /\ Then(new) BY <1>3 DEF EmitCode, Emit
<1>6. UNCHANGED <<phase, prog, fnInfo, nextIndex>> BY DEF EmitCode, tables, names
<1>7. FunctionsOK' BY <1>1, <1>6, BeforeStep, FunctionsStay
<1>8. Known' = Known BY <1>6 DEF Known
<1>9. ASSUME GoodNames(prog) PROVE LabelsFit(insns \o more, new \o Tail(todo), nextIndex, Known)
  <2>1. LabelsFit(insns, todo, nextIndex, Known) BY <1>1, <1>9, BeforeStep
  <2>2. Once(more)
    <3>1. Apart(todo) BY <2>1 DEF LabelsFit
    <3>. QED BY <1>1, <1>3, <3>1, BeforeStep, LabelsOfHead DEF Task
  <2>3. Defines(more) = Given(Head(todo)) /\ GoesTo(more) = Wanted(Head(todo))
    BY <1>1, <1>3 DEF Given, Wanted, Task
  <2>4. IsSequence(new) /\ GivenBy(new) = {} /\ WantedBy(new) = {} /\ Apart(new) BY <1>3, NoTasks
  <2>5. Known \cup GoesTo(more) \cup WantedBy(new) \subseteq Known \cup Wanted(Head(todo)) \cup Elsewhere
    BY <2>3, <2>4
  <2>6. IsSequence(todo) /\ todo # <<>> /\ IsSequence(insns) /\ nextIndex \in Int BY <1>1, BeforeStep
  <2>. QED BY <1>4, <2>1, <2>2, <2>3, <2>4, <2>5, <2>6, RefitNoneMade
<1>10. IsSequence(new) /\ \A i \in 1..Len(new) : new[i].op \notin {"entry", "endentry"} BY <1>3, NoTasks
<1>. QED BY <1>1, <1>5, <1>6, <1>7, <1>8, <1>9, <1>10, Onward

LEMMA DoCallJumps == IInv /\ LInv /\ DoCall => LInv'
PROOF
<1>. SUFFICES ASSUME IInv, LInv, DoCall PROVE LInv' OBVIOUS
<1>1. phase = "generating" /\ Task.op = "arguments" BY DEF DoCall, At
<1>2. PICK a, b, new : /\ a = Insn1("call", Lbl(Task.callee_name)) /\ b = Insn("add", Imm(Word * Top.arity), ESP)
                       /\ new = <<>>
  OBVIOUS
<1>3. PICK more : more = <<a, b>> OBVIOUS
<1>4. /\ IsSequence(more) /\ Defines(more) = {} /\ Once(more)
      /\ GoesTo(more) = {Lbl(Task.callee_name)}
  <2>1. a.op = "call" /\ a.src = Lbl(Task.callee_name) /\ b.op = "add" BY <1>2 DEF Insn1, Insn
  <2>2. IsSequence(more) /\ DOMAIN more = 1..2 /\ more[1] = a /\ more[2] = b BY ONLY <1>3 DEF IsSequence, ToSet
  <2>. QED BY <2>1, <2>2 DEF Defines, GoesTo, Once
<1>5. insns' = insns \o more /\ Then(new) BY <1>2, <1>3 DEF DoCall, Emit
<1>6. UNCHANGED <<phase, prog, fnInfo, nextIndex>> BY DEF DoCall, tables, names
<1>7. FunctionsOK' BY <1>1, <1>6, BeforeStep, FunctionsStay
<1>8. Known' = Known BY <1>6 DEF Known
<1>9. ASSUME GoodNames(prog) PROVE LabelsFit(insns \o more, new \o Tail(todo), nextIndex, Known)
  <2>1. LabelsFit(insns, todo, nextIndex, Known) BY <1>1, <1>9, BeforeStep
  <2>2. Given(Head(todo)) = {} /\ Wanted(Head(todo)) = GoesTo(more) BY <1>1, <1>4 DEF Given, Wanted, Task
  <2>3. IsSequence(new) /\ GivenBy(new) = {} /\ WantedBy(new) = {} /\ Apart(new) BY <1>2, NoTasks
  <2>4. Known \cup GoesTo(more) \cup WantedBy(new) \subseteq Known \cup Wanted(Head(todo)) \cup Elsewhere
    BY <2>2, <2>3
  <2>5. IsSequence(todo) /\ todo # <<>> /\ IsSequence(insns) /\ nextIndex \in Int BY <1>1, BeforeStep
  <2>6. Defines(more) = Given(Head(todo)) BY <1>4, <2>2
  <2>. QED BY <1>4, <2>1, <2>3, <2>4, <2>5, <2>6, RefitNoneMade
<1>10. IsSequence(new) /\ \A i \in 1..Len(new) : new[i].op \notin {"entry", "endentry"} BY <1>2, NoTasks
<1>. QED BY <1>1, <1>5, <1>6, <1>7, <1>8, <1>9, <1>10, Onward

LEMMA NextArgumentJumps == IInv /\ LInv /\ NextArgument => LInv'
PROOF
<1>. SUFFICES ASSUME IInv, LInv, NextArgument PROVE LInv' OBVIOUS
<1>1. phase = "generating" /\ Task.op = "arguments" /\ Task.rest # <<>> BY DEF NextArgument, At
<1>2. PICK u : Does(Task, View, u) BY <1>1, HeadTask
<1>3. PICK a, b, c, more : /\ a = Last(Task.rest) /\ b = Do("push")
                           /\ c = Arguments(Task.callee_name, Front(Task.rest)) /\ more = <<>>
  OBVIOUS
<1>4. a \in AllTrees.aexps
  <2>1. PICK rest : rest = Task.rest OBVIOUS
  <2>2. rest \in Seq(AllTrees.aexps) /\ rest # <<>> BY <1>1, <1>2, <2>1 DEF Does, DoesStatement
  <2>3. IsSequence(rest) /\ Len(rest) \in Nat \ {0} /\ \A i \in 1..Len(rest) : rest[i] \in AllTrees.aexps
    BY <2>2, IsSequenceIn, SequenceBasics
  <2>4. Last(rest) = rest[Len(rest)] BY <2>2, <2>3, FrontSequence
  <2>. QED BY <1>3, <2>1, <2>3, <2>4
<1>5. PICK new : new = <<a, b, c>> OBVIOUS
<1>6. /\ IsSequence(new) /\ GivenBy(new) = {} /\ Apart(new) /\ WantedBy(new) \subseteq Wanted(Task) \cup Elsewhere
      /\ \A i \in 1..Len(new) : new[i].op \notin {"entry", "endentry"}
  <2>1. Calm(a) /\ Calm(b) BY <1>3, <1>4, CalmOps DEF Expressions, Do
  <2>2. c.op = "arguments" /\ c.callee_name = Task.callee_name BY <1>3 DEF Arguments
  <2>3. Given(c) = {} /\ Wanted(c) = Wanted(Task) BY <1>1, <2>2 DEF Given, Wanted
  <2>4. /\ Given(a) = {} /\ Wanted(a) \subseteq Elsewhere /\ (a.op = "code" => Once(a.insns))
        /\ Given(b) = {} /\ Wanted(b) \subseteq Elsewhere /\ (b.op = "code" => Once(b.insns))
        /\ a.op \notin {"entry", "endentry"} /\ b.op \notin {"entry", "endentry"}
    BY <2>1, CalmTask
  <2>5. /\ IsSequence(new) /\ DOMAIN new = 1..3 /\ Len(new) = 3
        /\ new[1] = a /\ new[2] = b /\ new[3] = c
    BY ONLY <1>5 DEF IsSequence, ToSet
  <2>6. \A i \in DOMAIN new : new[i] = a \/ new[i] = b \/ new[i] = c BY <2>5
  <2>7. \A i \in DOMAIN new : /\ Given(new[i]) = {} /\ Wanted(new[i]) \subseteq Wanted(Task) \cup Elsewhere
                              /\ (new[i].op = "code" => Once(new[i].insns))
                              /\ new[i].op \notin {"entry", "endentry"}
    BY <2>2, <2>3, <2>4, <2>6
  <2>. QED BY <2>5, <2>7 DEF GivenBy, WantedBy, Apart
<1>7. insns' = insns \o more BY <1>1, <1>3, NothingEmitted DEF NextArgument
<1>8. Then(new) BY <1>3, <1>5 DEF NextArgument
<1>9. UNCHANGED <<phase, prog, fnInfo, nextIndex>> BY DEF NextArgument, tables, names
<1>10. FunctionsOK' BY <1>1, <1>9, BeforeStep, FunctionsStay
<1>11. Known' = Known BY <1>9 DEF Known
<1>12. ASSUME GoodNames(prog) PROVE LabelsFit(insns \o more, new \o Tail(todo), nextIndex, Known)
  <2>1. LabelsFit(insns, todo, nextIndex, Known) BY <1>1, <1>12, BeforeStep
  <2>2. IsSequence(more) /\ Defines(more) = {} /\ GoesTo(more) = {} /\ Once(more) BY <1>3, NoCode
  <2>3. Defines(more) = Given(Head(todo)) BY <1>1, <2>2 DEF Given, Task
  <2>4. Known \cup GoesTo(more) \cup WantedBy(new) \subseteq Known \cup Wanted(Head(todo)) \cup Elsewhere
    BY <1>6, <2>2 DEF Task
  <2>5. IsSequence(todo) /\ todo # <<>> /\ IsSequence(insns) /\ nextIndex \in Int BY <1>1, BeforeStep
  <2>. QED BY <1>6, <2>1, <2>2, <2>3, <2>4, <2>5, RefitNoneMade
<1>. QED BY <1>1, <1>6, <1>7, <1>8, <1>9, <1>10, <1>11, <1>12, Onward

LEMMA VisitCallJumps == IInv /\ LInv /\ VisitCall => LInv'
PROOF
<1>. SUFFICES ASSUME IInv, LInv, VisitCall PROVE LInv' OBVIOUS
<1>1. phase = "generating" /\ Task.op = "call" /\ prog' = prog BY DEF VisitCall, At
<1>2. CASE Task.callee_name \in DOMAIN fnInfo /\ fnInfo[Task.callee_name] = Len(Task.arguments)
  <2>1. PICK c, more : c = Arguments(Task.callee_name, Task.arguments) /\ more = <<>> OBVIOUS
  <2>2. PICK new : new = <<c>> OBVIOUS
  <2>3. insns' = insns \o more BY <1>1, <1>2, <2>1, NothingEmitted DEF VisitCall
  <2>4. Then(new) BY <1>2, <2>1, <2>2 DEF VisitCall
  <2>5. UNCHANGED <<phase, fnInfo, nextIndex>> BY <1>2 DEF VisitCall, tables, names
  <2>6. FunctionsOK' BY <1>1, <2>5, BeforeStep, FunctionsStay
  <2>7. Known' = Known BY <2>5 DEF Known
  <2>8. /\ IsSequence(new) /\ GivenBy(new) = {} /\ Apart(new) /\ WantedBy(new) \subseteq Known
        /\ \A i \in 1..Len(new) : new[i].op \notin {"entry", "endentry"}
    <3>1. c.op = "arguments" /\ c.callee_name = Task.callee_name BY <2>1 DEF Arguments
    <3>2. Given(c) = {} /\ Wanted(c) \subseteq Known BY <1>2, <3>1 DEF Given, Wanted, Known
    <3>3. IsSequence(new) /\ DOMAIN new = 1..1 /\ Len(new) = 1 /\ new[1] = c BY ONLY <2>2 DEF IsSequence, ToSet
    <3>4. \A i \in DOMAIN new : new[i] = c BY <3>3
    <3>. QED BY <3>1, <3>2, <3>3, <3>4 DEF GivenBy, WantedBy, Apart
  <2>9. ASSUME GoodNames(prog) PROVE LabelsFit(insns \o more, new \o Tail(todo), nextIndex, Known)
    <3>1. LabelsFit(insns, todo, nextIndex, Known) BY <1>1, <2>9, BeforeStep
    <3>2. IsSequence(more) /\ Defines(more) = {} /\ GoesTo(more) = {} /\ Once(more) BY <2>1, NoCode
    <3>3. Defines(more) = Given(Head(todo)) BY <1>1, <3>2 DEF Given, Task
    <3>4. Known \cup GoesTo(more) \cup WantedBy(new) \subseteq Known \cup Wanted(Head(todo)) \cup Elsewhere
      BY <2>8, <3>2
    <3>5. IsSequence(todo) /\ todo # <<>> /\ IsSequence(insns) /\ nextIndex \in Int BY <1>1, BeforeStep
    <3>. QED BY <2>8, <3>1, <3>2, <3>3, <3>4, <3>5, RefitNoneMade
  <2>. QED BY <1>1, <2>3, <2>4, <2>5, <2>6, <2>7, <2>8, <2>9, Onward
<1>3. CASE ~(Task.callee_name \in DOMAIN fnInfo /\ fnInfo[Task.callee_name] = Len(Task.arguments))
  <2>1. phase' = "error" BY <1>3 DEF VisitCall, Fail
  <2>. QED BY <2>1, NotGenerating
<1>. QED BY <1>2, <1>3

\* The pieces of code of branches and loops.
LEMMA BranchLabels ==
  /\ \A l : /\ IsSequence(UnlessTrue(l)) /\ Once(UnlessTrue(l))
            /\ Defines(UnlessTrue(l)) = {} /\ GoesTo(UnlessTrue(l)) = {l}
  /\ \A l : /\ IsSequence(<<Label(l)>>) /\ Once(<<Label(l)>>)
            /\ Defines(<<Label(l)>>) = {l} /\ GoesTo(<<Label(l)>>) = {}
  /\ \A k, l : LET code == <<Insn1("jmp", k), Label(l)>>
               IN  IsSequence(code) /\ Once(code) /\ Defines(code) = {l} /\ GoesTo(code) = {k}
PROOF
<1>1. ASSUME NEW l, NEW code, code = UnlessTrue(l)
      PROVE  IsSequence(code) /\ Once(code) /\ Defines(code) = {} /\ GoesTo(code) = {l}
  <2>1. PICK a, b : a = Insn("cmp", Imm(0), EAX) /\ b = Insn1("je", l) OBVIOUS
  <2>2. code = <<a, b>> BY <1>1, <2>1 DEF UnlessTrue
  <2>3. a.op = "cmp" /\ b.op = "je" /\ b.src = l BY <2>1 DEF Insn1, Insn
  <2>4. IsSequence(code) /\ DOMAIN code = 1..2 /\ code[1] = a /\ code[2] = b BY ONLY <2>2 DEF IsSequence, ToSet
  <2>. QED BY <2>3, <2>4 DEF Defines, GoesTo, Once
<1>2. ASSUME NEW l, NEW code, code = <<Label(l)>>
      PROVE  IsSequence(code) /\ Once(code) /\ Defines(code) = {l} /\ GoesTo(code) = {}
  <2>1. PICK a : a = Label(l) OBVIOUS
  <2>2. code = <<a>> BY <1>2, <2>1
  <2>3. a.op = "label" /\ a.src = l BY <2>1 DEF Label, Insn1, Insn
  <2>4. IsSequence(code) /\ DOMAIN code = 1..1 /\ code[1] = a BY ONLY <2>2 DEF IsSequence, ToSet
  <2>. QED BY <2>3, <2>4 DEF Defines, GoesTo, Once
<1>3. ASSUME NEW k, NEW l, NEW code, code = <<Insn1("jmp", k), Label(l)>>
      PROVE  IsSequence(code) /\ Once(code) /\ Defines(code) = {l} /\ GoesTo(code) = {k}
  <2>1. PICK a, b : a = Insn1("jmp", k) /\ b = Label(l) OBVIOUS
  <2>2. code = <<a, b>> BY <1>3, <2>1
  <2>3. a.op = "jmp" /\ a.src = k /\ b.op = "label" /\ b.src = l BY <2>1 DEF Label, Insn1, Insn
  <2>4. IsSequence(code) /\ DOMAIN code = 1..2 /\ code[1] = a /\ code[2] = b BY ONLY <2>2 DEF IsSequence, ToSet
  <2>. QED BY <2>3, <2>4 DEF Defines, GoesTo, Once
<1>. QED BY <1>1, <1>2, <1>3

\* The two labels of a construct are made for it alone.
LEMMA LabelsOfConstruct ==
  ASSUME NEW n \in Nat
  PROVE  /\ IfFalse(n) # IfEnd(n) /\ WhileStart(n) # WhileEnd(n)
         /\ \A l \in {IfFalse(n), IfEnd(n), WhileStart(n), WhileEnd(n)} : l.n \in Int /\ n <= l.n /\ l.n < n + 1
PROOF
<1>1. /\ IfFalse(n).n = n /\ IfEnd(n).n = n /\ WhileStart(n).n = n /\ WhileEnd(n).n = n
      /\ IfFalse(n).s = "IF_FALSE_" /\ IfEnd(n).s = "IF_END_"
      /\ WhileStart(n).s = "WHILE_START_" /\ WhileEnd(n).s = "WHILE_END_"
  BY DEF IfFalse, IfEnd, WhileStart, WhileEnd, Numbered
<1>2. IfFalse(n) # IfEnd(n) /\ WhileStart(n) # WhileEnd(n) BY <1>1
<1>3. \A l \in {IfFalse(n), IfEnd(n), WhileStart(n), WhileEnd(n)} : l.n = n BY <1>1
<1>. QED BY <1>2, <1>3

LEMMA VisitConditionalJumps == IInv /\ LInv /\ VisitConditional => LInv'
PROOF
<1>. SUFFICES ASSUME IInv, LInv, VisitConditional PROVE LInv' OBVIOUS
<1>1. phase = "generating" /\ Task.op = "if" BY DEF VisitConditional, At
<1>2. PICK u : Does(Task, View, u) BY <1>1, HeadTask
<1>3. Task \in AllTrees.stmts BY <1>1, <1>2 DEF Does, DoesStatement, StatementOps
<1>4. PICK n, x, y, more : n = nextIndex /\ x = IfFalse(n) /\ y = IfEnd(n) /\ more = <<>> OBVIOUS
<1>5. n \in Nat BY <1>1, <1>4, BeforeStep
<1>6. x # y /\ \A l \in {x, y} : l.n \in Int /\ n <= l.n /\ l.n < n + 1 BY <1>4, <1>5, LabelsOfConstruct
<1>7. PICK c1, c2, c3 : c1 = UnlessTrue(x) /\ c2 = <<Insn1("jmp", y), Label(x)>> /\ c3 = <<Label(y)>> OBVIOUS
<1>8. PICK a, b, c, d, e, f : /\ a = Task.guard /\ c = Task.true_branch /\ e = Task.false_branch
                              /\ b = Code(c1) /\ d = Code(c2) /\ f = Code(c3)
  OBVIOUS
<1>9. PICK new : new = <<a, b, c, d, e, f>> OBVIOUS
<1>10. Then(new) BY <1>4, <1>7, <1>8, <1>9 DEF VisitConditional
<1>11. /\ IsSequence(new) /\ DOMAIN new = 1..6 /\ Len(new) = 6
       /\ new[1] = a /\ new[2] = b /\ new[3] = c /\ new[4] = d /\ new[5] = e /\ new[6] = f
  BY ONLY <1>9 DEF IsSequence, ToSet
<1>12. /\ Given(a) = {} /\ Wanted(a) \subseteq Elsewhere /\ (a.op = "code" => Once(a.insns))
       /\ Given(c) = {} /\ Wanted(c) \subseteq Elsewhere /\ (c.op = "code" => Once(c.insns))
       /\ Given(e) = {} /\ Wanted(e) \subseteq Elsewhere /\ (e.op = "code" => Once(e.insns))
       /\ a.op \notin {"entry", "endentry"} /\ c.op \notin {"entry", "endentry"} /\ e.op \notin {"entry", "endentry"}
  <2>1. Calm(a) /\ Calm(c) /\ Calm(e) BY <1>1, <1>3, <1>8, StatementParts, CalmOps DEF Expressions
  <2>. QED BY <2>1, CalmTask
<1>13. /\ b.op = "code" /\ b.insns = c1 /\ d.op = "code" /\ d.insns = c2 /\ f.op = "code" /\ f.insns = c3
  BY <1>8 DEF Code
<1>14. /\ Once(c1) /\ Defines(c1) = {} /\ GoesTo(c1) = {x}
       /\ Once(c2) /\ Defines(c2) = {x} /\ GoesTo(c2) = {y}
       /\ Once(c3) /\ Defines(c3) = {y} /\ GoesTo(c3) = {}
  BY <1>7, BranchLabels
<1>15. Given(b) = {} /\ Given(d) = {x} /\ Given(f) = {y} /\ Wanted(b) = {x} /\ Wanted(d) = {y} /\ Wanted(f) = {}
  BY <1>13, <1>14 DEF Given, Wanted
<1>16. \A i \in DOMAIN new : i = 1 \/ i = 2 \/ i = 3 \/ i = 4 \/ i = 5 \/ i = 6 BY <1>11
<1>17. GivenBy(new) = {x, y}
  <2>1. \A i \in DOMAIN new : Given(new[i]) \subseteq {x, y} BY <1>11, <1>12, <1>15, <1>16
  <2>2. 4 \in DOMAIN new /\ 6 \in DOMAIN new /\ x \in Given(new[4]) /\ y \in Given(new[6]) BY <1>11, <1>15
  <2>. QED BY <2>1, <2>2 DEF GivenBy
<1>18. WantedBy(new) \subseteq {x, y} \cup Elsewhere
  <2>1. \A i \in DOMAIN new : Wanted(new[i]) \subseteq {x, y} \cup Elsewhere BY <1>11, <1>12, <1>15, <1>16
  <2>. QED BY <2>1 DEF WantedBy
<1>19. Apart(new)
  <2>1. \A i \in DOMAIN new : new[i].op = "code" => Once(new[i].insns) BY <1>11, <1>12, <1>13, <1>14, <1>16
  <2>2. \A i \in DOMAIN new : /\ x \in Given(new[i]) => i = 4
                              /\ y \in Given(new[i]) => i = 6
                              /\ Given(new[i]) \subseteq {x, y}
    BY <1>6, <1>11, <1>12, <1>15, <1>16
  <2>3. \A i, j \in DOMAIN new : i # j => Given(new[i]) \cap Given(new[j]) = {} BY <2>2
  <2>. QED BY <2>1, <2>3 DEF Apart
<1>20. \A i \in 1..Len(new) : new[i].op \notin {"entry", "endentry"} BY <1>11, <1>12, <1>13, <1>16
<1>21. insns' = insns \o more BY <1>1, <1>4, NothingEmitted DEF VisitConditional
<1>22. UNCHANGED <<phase, prog, fnInfo>> /\ nextIndex' = n + 1 BY <1>4 DEF VisitConditional, tables
<1>23. FunctionsOK' BY <1>1, <1>22, BeforeStep, FunctionsStay
<1>24. Known' = Known BY <1>22 DEF Known
<1>25. ASSUME GoodNames(prog) PROVE LabelsFit(insns \o more, new \o Tail(todo), nextIndex', Known')
  <2>1. LabelsFit(insns, todo, n, Known) BY <1>1, <1>4, <1>25, BeforeStep
  <2>2. IsSequence(more) /\ Defines(more) = {} /\ GoesTo(more) = {} /\ Once(more) BY <1>4, NoCode
  <2>3. TurnsApart(more, new) BY <1>19, <2>2 DEF TurnsApart
  <2>4. PICK made : made = {x, y} OBVIOUS
  <2>5. Labels(more, new) = Given(Head(todo)) \cup made BY <1>1, <1>17, <2>2, <2>4 DEF Labels, Given, Task
  <2>6. \A l \in made : l.n \in Int /\ n <= l.n /\ l.n < n + 1 BY <1>6, <2>4
  <2>7. Known \cup GoesTo(more) \cup WantedBy(new)
          \subseteq Known \cup Wanted(Head(todo)) \cup Labels(more, new) \cup Elsewhere
    BY <1>18, <2>2, <2>4, <2>5
  <2>8. IsSequence(todo) /\ todo # <<>> /\ IsSequence(insns) BY <1>1, BeforeStep
  <2>9. n \in Int /\ n + 1 \in Int /\ n <= n + 1 BY <1>5
  <2>10. LabelsFit(insns \o more, new \o Tail(todo), n + 1, Known)
    BY <1>11, <2>1, <2>2, <2>3, <2>5, <2>6, <2>7, <2>8, <2>9, Refit
  <2>. QED BY <1>22, <1>24, <2>10
<1>. QED BY <1>1, <1>10, <1>11, <1>20, <1>21, <1>22, <1>23, <1>25, Onward

LEMMA VisitLoopJumps == IInv /\ LInv /\ VisitLoop => LInv'
PROOF
<1>. SUFFICES ASSUME IInv, LInv, VisitLoop PROVE LInv' OBVIOUS
<1>1. phase = "generating" /\ Task.op = "while" BY DEF VisitLoop, At
<1>2. PICK u : Does(Task, View, u) BY <1>1, HeadTask
<1>3. Task \in AllTrees.stmts BY <1>1, <1>2 DEF Does, DoesStatement, StatementOps
<1>4. PICK n, x, y : n = nextIndex /\ x = WhileStart(n) /\ y = WhileEnd(n) OBVIOUS
<1>5. n \in Nat BY <1>1, <1>4, BeforeStep
<1>6. x # y /\ \A l \in {x, y} : l.n \in Int /\ n <= l.n /\ l.n < n + 1 BY <1>4, <1>5, LabelsOfConstruct
<1>7. PICK more, c1, c2 : more = <<Label(x)>> /\ c1 = UnlessTrue(y) /\ c2 = <<Insn1("jmp", x), Label(y)>> OBVIOUS
<1>8. PICK a, b, c, d : a = Task.guard /\ b = Code(c1) /\ c = Task.body /\ d = Code(c2) OBVIOUS
<1>9. PICK new : new = <<a, b, c, d>> OBVIOUS
<1>10. Then(new) /\ insns' = insns \o more BY <1>4, <1>7, <1>8, <1>9 DEF VisitLoop, Emit
<1>11. /\ IsSequence(new) /\ DOMAIN new = 1..4 /\ Len(new) = 4
       /\ new[1] = a /\ new[2] = b /\ new[3] = c /\ new[4] = d
  BY ONLY <1>9 DEF IsSequence, ToSet
<1>12. /\ Given(a) = {} /\ Wanted(a) \subseteq Elsewhere /\ (a.op = "code" => Once(a.insns))
       /\ Given(c) = {} /\ Wanted(c) \subseteq Elsewhere /\ (c.op = "code" => Once(c.insns))
       /\ a.op \notin {"entry", "endentry"} /\ c.op \notin {"entry", "endentry"}
  <2>1. Calm(a) /\ Calm(c) BY <1>1, <1>3, <1>8, StatementParts, CalmOps DEF Expressions
  <2>. QED BY <2>1, CalmTask
<1>13. b.op = "code" /\ b.insns = c1 /\ d.op = "code" /\ d.insns = c2 BY <1>8 DEF Code
<1>14. /\ IsSequence(more) /\ Once(more) /\ Defines(more) = {x} /\ GoesTo(more) = {}
       /\ Once(c1) /\ Defines(c1) = {} /\ GoesTo(c1) = {y}
       /\ Once(c2) /\ Defines(c2) = {y} /\ GoesTo(c2) = {x}
  BY <1>7, BranchLabels
<1>15. Given(b) = {} /\ Given(d) = {y} /\ Wanted(b) = {y} /\ Wanted(d) = {x} BY <1>13, <1>14 DEF Given, Wanted
<1>16. \A i \in DOMAIN new : i = 1 \/ i = 2 \/ i = 3 \/ i = 4 BY <1>11
<1>17. GivenBy(new) = {y}
  <2>1. \A i \in DOMAIN new : Given(new[i]) \subseteq {y} BY <1>11, <1>12, <1>15, <1>16
  <2>2. 4 \in DOMAIN new /\ y \in Given(new[4]) BY <1>11, <1>15
  <2>. QED BY <2>1, <2>2 DEF GivenBy
<1>18. WantedBy(new) \subseteq {x, y} \cup Elsewhere
  <2>1. \A i \in DOMAIN new : Wanted(new[i]) \subseteq {x, y} \cup Elsewhere BY <1>11, <1>12, <1>15, <1>16
  <2>. QED BY <2>1 DEF WantedBy
<1>19. Apart(new)
  <2>1. \A i \in DOMAIN new : new[i].op = "code" => Once(new[i].insns) BY <1>11, <1>12, <1>13, <1>14, <1>16
  <2>2. \A i \in DOMAIN new : i # 4 => Given(new[i]) = {} BY <1>11, <1>12, <1>15, <1>16
  <2>3. \A i, j \in DOMAIN new : i # j => Given(new[i]) \cap Given(new[j]) = {} BY <2>2
  <2>. QED BY <2>1, <2>3 DEF Apart
<1>20. \A i \in 1..Len(new) : new[i].op \notin {"entry", "endentry"} BY <1>11, <1>12, <1>13, <1>16
<1>22. UNCHANGED <<phase, prog, fnInfo>> /\ nextIndex' = n + 1 BY <1>4 DEF VisitLoop, tables
<1>23. FunctionsOK' BY <1>1, <1>22, BeforeStep, FunctionsStay
<1>24. Known' = Known BY <1>22 DEF Known
<1>25. ASSUME GoodNames(prog) PROVE LabelsFit(insns \o more, new \o Tail(todo), nextIndex', Known')
  <2>1. LabelsFit(insns, todo, n, Known) BY <1>1, <1>4, <1>25, BeforeStep
  <2>3. TurnsApart(more, new) BY <1>6, <1>14, <1>17, <1>19 DEF TurnsApart
  <2>4. PICK made : made = {x, y} OBVIOUS
  <2>5. Labels(more, new) = Given(Head(todo)) \cup made BY <1>1, <1>14, <1>17, <2>4 DEF Labels, Given, Task
  <2>6. \A l \in made : l.n \in Int /\ n <= l.n /\ l.n < n + 1 BY <1>6, <2>4
  <2>7. Known \cup GoesTo(more) \cup WantedBy(new)
          \subseteq Known \cup Wanted(Head(todo)) \cup Labels(more, new) \cup Elsewhere
    BY <1>14, <1>18, <2>4, <2>5
  <2>8. IsSequence(todo) /\ todo # <<>> /\ IsSequence(insns) BY <1>1, BeforeStep
  <2>9. n \in Int /\ n + 1 \in Int /\ n <= n + 1 BY <1>5
  <2>10. LabelsFit(insns \o more, new \o Tail(todo), n + 1, Known)
    BY <1>11, <1>14, <2>1, <2>3, <2>5, <2>6, <2>7, <2>8, <2>9, Refit
  <2>. QED BY <1>22, <1>24, <2>10
<1>. QED BY <1>1, <1>10, <1>11, <1>20, <1>22, <1>23, <1>25, Onward

-----------------------------------------------------------------------------
(* Types and functions entered in the tables. *)

\* One more of the preparations is done.
LEMMA FunctionsMove ==
  ASSUME IInv, phase = "generating", FunctionsOK, Task.op \in {"typedef", "addfn"},
         prog' = prog, Then(<<>>), DOMAIN fnInfo \subseteq DOMAIN fnInfo',
         Task.op = "addfn" => /\ Task.def.function_name \notin DOMAIN fnInfo
                              /\ Task.def.function_name \in DOMAIN fnInfo'
  PROVE  FunctionsOK'
PROOF
<1>1. CASE AddedUpTo(Preparations(prog))
  <2>1. AddedUpTo(Preparations(prog))' BY <1>1 DEF AddedUpTo, Preparations
  <2>. QED BY <2>1 DEF FunctionsOK
<1>2. CASE \E p \in 0..(Preparations(prog) - 1) : OnlyPrepared(p) /\ AddedUpTo(p)
  <2>1. PICK p \in 0..(Preparations(prog) - 1) : OnlyPrepared(p) /\ AddedUpTo(p) BY <1>2
  <2>2. PICK fs, m, n, plan, q : /\ fs = prog.function_defs /\ m = Len(prog.type_defs) /\ n = Len(prog.function_defs)
                                 /\ plan = Plan(prog) /\ q = p + 1
    OBVIOUS
  <2>3. prog \in ProgramTrees(AllTrees) /\ IsSequence(todo) /\ todo # <<>> BY HeadTask
  <2>4. IsPlan(plan, fs, m, n) BY <2>2, <2>3, PlanFacts
  <2>5. /\ m \in Nat /\ n \in Nat /\ DOMAIN fs = 1..n /\ Len(plan) = m + n + n + 1
        /\ \A i \in 1..m : plan[i].op = "typedef"
        /\ \A i \in 1..n : plan[m + i] = [op |-> "addfn", def |-> fs[i]]
    BY <2>4 DEF IsPlan
  <2>6. Preparations(prog) = m + n BY <2>2 DEF Preparations
  <2>7. p \in Nat /\ q \in Nat /\ q = p + 1 /\ q \in 1..(m + n)
    <3>1. p \in 0..(m + n - 1)
      <4>1. PICK b : b = Preparations(prog) OBVIOUS
      <4>2. p \in 0..(b - 1) BY <2>1, <4>1
      <4>3. b = m + n BY <2>6, <4>1
      <4>4. m \in Nat /\ n \in Nat BY ONLY <2>5
      <4>. QED BY ONLY <4>2, <4>3, <4>4
    <3>2. q = p + 1 /\ m \in Nat /\ n \in Nat BY ONLY <2>2, <2>5
    <3>. QED BY ONLY <3>1, <3>2
  <2>8. PICK t, r : t = todo /\ r = todo' OBVIOUS
  <2>9. IsSequence(t) /\ t # <<>> /\ r = <<>> \o Tail(t) BY <2>3, <2>8 DEF Then
  <2>10. Len(t) = Len(plan) - p /\ \A i \in 1..Len(t) : t[i] = plan[p + i] BY <2>1, <2>2, <2>8 DEF OnlyPrepared
  <2>11. Len(t) = m + n + n + 1 - p /\ Len(t) \in Nat \ {0}
    <3>1. m \in Nat /\ n \in Nat /\ Len(plan) = m + n + n + 1 BY ONLY <2>5
    <3>2. Len(t) = Len(plan) - p BY ONLY <2>10
    <3>. QED BY ONLY <2>7, <3>1, <3>2
  <2>12. Task = plan[q]
    <3>1. 1 \in 1..Len(t) /\ Task = t[1] BY <2>8, <2>9, <2>11, SequenceBasics DEF Task
    <3>. QED BY <2>2, <2>10, <3>1
  <2>13. Len(r) = Len(t) - 1 /\ \A i \in 1..(Len(t) - 1) : r[i] = t[i + 1]
    <3>1. IsSequence(Tail(t)) /\ Len(Tail(t)) = Len(t) - 1 /\ \A i \in 1..(Len(t) - 1) : Tail(t)[i] = t[i + 1]
      BY ONLY <2>9, TailSequence
    <3>2. r = Tail(t)
      <4>1. PICK u : u = Tail(t) OBVIOUS
      <4>2. IsSequence(u) BY ONLY <3>1, <4>1
      <4>3. <<>> \o u = u BY ONLY <4>2 DEF IsSequence
      <4>. QED BY ONLY <2>9, <4>1, <4>3
    <3>. QED BY ONLY <3>1, <3>2
  <2>14. OnlyPrepared(q)'
    <3>1. Len(r) = Len(plan) - q
      <4>1. m \in Nat /\ n \in Nat /\ Len(plan) = m + n + n + 1 BY ONLY <2>5
      <4>2. Len(r) = Len(t) - 1 BY ONLY <2>13
      <4>. QED BY ONLY <2>7, <2>11, <4>1, <4>2
    <3>2. ASSUME NEW i \in 1..Len(r) PROVE r[i] = plan[q + i]
      <4>1. i \in 1..(Len(t) - 1) /\ i + 1 \in 1..Len(t) BY <2>11, <2>13
      <4>2. r[i] = t[i + 1] /\ t[i + 1] = plan[p + (i + 1)] BY <2>10, <2>13, <4>1
      <4>3. p + (i + 1) = q + i BY <2>2, <2>7, <4>1
      <4>. QED BY <4>2, <4>3
    <3>3. Plan(prog)' = plan BY <2>2
    <3>. QED BY <2>8, <3>1, <3>2, <3>3 DEF OnlyPrepared
  <2>15. AddedUpTo(q)'
    <3>1. PICK D, E : D = DOMAIN fnInfo /\ E = DOMAIN fnInfo' OBVIOUS
    <3>2. /\ \A i \in 1..n : m + i <= p => fs[i].function_name \in D
          /\ \A i, j \in 1..n : m + i <= p /\ m + j <= p /\ fs[i].function_name = fs[j].function_name => i = j
      BY <2>1, <2>2, <2>5, <3>1 DEF AddedUpTo
    <3>3. D \subseteq E BY <3>1
    <3>4. ASSUME NEW k \in 1..n, m + k = q PROVE fs[k].function_name \notin D /\ fs[k].function_name \in E
      <4>1. Task = [op |-> "addfn", def |-> fs[k]] BY <2>5, <2>12, <3>4
      <4>2. Task.op = "addfn" /\ Task.def = fs[k] BY <4>1
      <4>. QED BY <3>1, <4>2
    <3>5. \A i \in 1..n : m + i <= q => (m + i <= p \/ m + i = q) BY <2>2, <2>5, <2>7
    <3>6. \A i \in 1..n : m + i <= q => fs[i].function_name \in E BY <3>2, <3>3, <3>4, <3>5
    <3>7. ASSUME NEW i \in 1..n, NEW j \in 1..n, m + i <= q, m + j <= q, fs[i].function_name = fs[j].function_name
          PROVE  i = j
      <4>1. CASE m + i <= p /\ m + j <= p BY <3>2, <3>7, <4>1
      <4>2. CASE m + i = q /\ m + j = q BY <2>5, <4>2
      <4>3. CASE m + i <= p /\ m + j = q BY <3>2, <3>4, <3>7, <4>3
      <4>4. CASE m + i = q /\ m + j <= p BY <3>2, <3>4, <3>7, <4>4
      <4>. QED BY <3>5, <3>7, <4>1, <4>2, <4>3, <4>4
    <3>. QED BY <2>2, <2>5, <3>1, <3>6, <3>7 DEF AddedUpTo
  <2>16. Preparations(prog)' = m + n BY <2>6 DEF Preparations
  <2>17. CASE q = m + n
    <3>1. Preparations(prog)' = q BY <2>16, <2>17
    <3>2. (AddedUpTo(Preparations(prog)))' BY <2>15, <3>1 DEF AddedUpTo
    <3>. QED BY <3>2 DEF FunctionsOK
  <2>18. CASE q # m + n
    <3>1. q \in 0..(m + n - 1)
      <4>1. m \in Nat /\ n \in Nat BY ONLY <2>5
      <4>. QED BY ONLY <2>7, <2>18, <4>1
    <3>2. q \in 0..(Preparations(prog)' - 1)
      <4>1. PICK b : b = Preparations(prog)' OBVIOUS
      <4>2. b = m + n BY <2>16, <4>1
      <4>3. q \in 0..(b - 1)
        <5>1. m \in Nat /\ n \in Nat BY ONLY <2>5
        <5>. QED BY ONLY <3>1, <4>2, <5>1
      <4>. QED BY <4>1, <4>3
    <3>. QED BY <2>14, <2>15, <3>2 DEF FunctionsOK
  <2>. QED BY <2>17, <2>18
<1>. QED BY <1>1, <1>2 DEF FunctionsOK

LEMMA VisitTypeDefJumps == IInv /\ LInv /\ VisitTypeDef => LInv'
PROOF
<1>. SUFFICES ASSUME IInv, LInv, VisitTypeDef PROVE LInv' OBVIOUS
<1>1. phase = "generating" /\ Task.op = "typedef" /\ prog' = prog BY DEF VisitTypeDef, At
<1>2. CASE Task.type_name \notin DOMAIN typeInfo
  <2>1. PICK more, new : more = <<>> /\ new = <<>> OBVIOUS
  <2>2. Then(new) BY <1>2, <2>1 DEF VisitTypeDef
  <2>3. insns' = insns \o more BY <1>1, <1>2, <2>1, NothingEmitted DEF VisitTypeDef
  <2>4. UNCHANGED <<phase, fnInfo, nextIndex>> BY <1>2 DEF VisitTypeDef, names
  <2>5. FunctionsOK' BY <1>1, <2>1, <2>2, <2>4, BeforeStep, FunctionsMove
  <2>6. Known' = Known BY <2>4 DEF Known
  <2>7. Straight(more) /\ CalmTasks(new) BY <2>1, StraightShort, CalmShort
  <2>8. ASSUME GoodNames(prog) PROVE LabelsFit(insns \o more, new \o Tail(todo), nextIndex, Known)
    <3>1. LabelsFit(insns, todo, nextIndex, Known) BY <1>1, <2>8, BeforeStep
    <3>2. Given(Head(todo)) = {} BY <1>1 DEF Given, Task
    <3>3. IsSequence(todo) /\ todo # <<>> /\ IsSequence(insns) /\ nextIndex \in Int BY <1>1, BeforeStep
    <3>. QED BY <2>7, <3>1, <3>2, <3>3, CalmRefit
  <2>9. IsSequence(new) /\ \A i \in 1..Len(new) : new[i].op \notin {"entry", "endentry"} BY <2>1, NoTasks
  <2>. QED BY <1>1, <2>2, <2>3, <2>4, <2>5, <2>6, <2>8, <2>9, Onward
<1>3. CASE Task.type_name \in DOMAIN typeInfo
  <2>1. phase' = "error" BY <1>3 DEF VisitTypeDef, Fail
  <2>. QED BY <2>1, NotGenerating
<1>. QED BY <1>2, <1>3

LEMMA AddFunctionJumps == IInv /\ LInv /\ AddFunction => LInv'
PROOF
<1>. SUFFICES ASSUME IInv, LInv, AddFunction PROVE LInv' OBVIOUS
<1>1. phase = "generating" /\ Task.op = "addfn" /\ prog' = prog BY DEF AddFunction, At
<1>2. CASE Task.def.function_name \notin DOMAIN fnInfo
  <2>1. PICK more, new : more = <<>> /\ new = <<>> OBVIOUS
  <2>2. Then(new) BY <1>2, <2>1 DEF AddFunction
  <2>3. insns' = insns \o more BY <1>1, <1>2, <2>1, NothingEmitted DEF AddFunction
  <2>4. UNCHANGED <<phase, nextIndex>> BY <1>2 DEF AddFunction, names
  <2>5. DOMAIN fnInfo' = DOMAIN fnInfo \cup {Task.def.function_name}
    <3>1. PICK x, e, f, g : /\ x = Task.def.function_name /\ e = Len(Task.def.parameters)
                            /\ f = fnInfo /\ g = fnInfo'
      OBVIOUS
    <3>2. g = With(f, x, e) BY <1>2, <3>1 DEF AddFunction
    <3>3. DOMAIN g = DOMAIN f \cup {x} BY <3>2 DEF With
    <3>. QED BY <3>1, <3>3
  <2>6. FunctionsOK' BY <1>1, <1>2, <2>1, <2>2, <2>5, BeforeStep, FunctionsMove
  <2>7. Known' = Known \cup {Lbl(Task.def.function_name)} BY <2>5 DEF Known
  <2>8. ASSUME GoodNames(prog) PROVE LabelsFit(insns \o more, new \o Tail(todo), nextIndex, Known')
    <3>1. LabelsFit(insns, todo, nextIndex, Known) BY <1>1, <2>8, BeforeStep
    <3>2. Given(Head(todo)) = {} /\ Wanted(Head(todo)) = {Lbl(Task.def.function_name)}
      BY <1>1 DEF Given, Wanted, Task
    <3>3. IsSequence(todo) /\ todo # <<>> /\ IsSequence(insns) /\ nextIndex \in Int BY <1>1, BeforeStep
    <3>4. IsSequence(more) /\ Defines(more) = {} /\ GoesTo(more) = {} /\ Once(more) BY <2>1, NoCode
    <3>5. IsSequence(new) /\ GivenBy(new) = {} /\ WantedBy(new) = {} /\ Apart(new) BY <2>1, NoTasks
    <3>6. PICK aims : aims = Known' OBVIOUS
    <3>7. aims \cup GoesTo(more) \cup WantedBy(new) \subseteq Known \cup Wanted(Head(todo)) \cup Elsewhere
      BY <2>7, <3>2, <3>4, <3>5, <3>6
    <3>8. Defines(more) = Given(Head(todo)) BY <3>2, <3>4
    <3>9. LabelsFit(insns \o more, new \o Tail(todo), nextIndex, aims)
      BY <3>1, <3>3, <3>4, <3>5, <3>7, <3>8, RefitNoneMade
    <3>. QED BY <3>6, <3>9
  <2>9. IsSequence(new) /\ \A i \in 1..Len(new) : new[i].op \notin {"entry", "endentry"} BY <2>1, NoTasks
  <2>. QED BY <1>1, <2>2, <2>3, <2>4, <2>6, <2>8, <2>9, Onward
<1>3. CASE Task.def.function_name \in DOMAIN fnInfo
  <2>1. phase' = "error" BY <1>3 DEF AddFunction, Fail
  <2>. QED BY <2>1, NotGenerating
<1>. QED BY <1>2, <1>3

-----------------------------------------------------------------------------
(* Frames. *)

LEMMA PrologueLabels ==
  ASSUME NEW l, NEW x, NEW y
  PROVE  /\ IsSequence(Prologue(l, x, y)) /\ Once(Prologue(l, x, y))
         /\ Defines(Prologue(l, x, y)) = {Lbl(l)} /\ GoesTo(Prologue(l, x, y)) = {}
PROOF
<1>1. PICK a, b, c, d, e : /\ a = Label(Lbl(l)) /\ b = Insn1("push", EBP) /\ c = Insn("movl", ESP, EBP)
                           /\ d = Insn1("pushl", Imm(x)) /\ e = Insn1("pushl", Imm(y))
  OBVIOUS
<1>2. PICK is : is = <<a, b, c, d, e>> OBVIOUS
<1>3. is = Prologue(l, x, y) BY <1>1, <1>2 DEF Prologue
<1>4. /\ IsSequence(is) /\ DOMAIN is = 1..5
      /\ is[1] = a /\ is[2] = b /\ is[3] = c /\ is[4] = d /\ is[5] = e
  BY ONLY <1>2 DEF IsSequence, ToSet
<1>5. a.op = "label" /\ a.src = Lbl(l) BY <1>1 DEF Label, Insn1, Insn
<1>6. StraightInsn(b) /\ StraightInsn(c) /\ StraightInsn(d) /\ StraightInsn(e) BY <1>1, InsnIsStraight
<1>7. \A i \in DOMAIN is : i = 1 \/ StraightInsn(is[i])
  <2>1. \A i \in DOMAIN is : i = 1 \/ i = 2 \/ i = 3 \/ i = 4 \/ i = 5 BY <1>4
  <2>. QED BY <1>4, <1>6, <2>1
<1>8. \A i \in DOMAIN is : (is[i].op = "label" <=> i = 1) /\ is[i].op \notin {"jmp", "je", "call"}
  BY <1>4, <1>5, <1>7 DEF StraightInsn
<1>9. 1 \in DOMAIN is /\ is[1].src = Lbl(l) BY <1>4, <1>5
<1>10. Defines(is) = {Lbl(l)} BY <1>8, <1>9 DEF Defines
<1>11. GoesTo(is) = {} BY <1>8 DEF GoesTo
<1>12. Once(is) BY <1>8 DEF Once
<1>. QED BY <1>3, <1>4, <1>10, <1>11, <1>12

LEMMA VisitFunctionDefJumps == IInv /\ LInv /\ VisitFunctionDef => LInv'
PROOF
<1>. SUFFICES ASSUME IInv, LInv, VisitFunctionDef PROVE LInv' OBVIOUS
<1>1. phase = "generating" /\ Task.op = "fundef" BY DEF VisitFunctionDef, At
<1>2. PICK l, x, y : /\ l = Task.function_name /\ x = PointerBits(Task.parameters)
                     /\ y = PointerBits(Task.function_body.decls)
  OBVIOUS
<1>3. PICK more : more = Prologue(l, x, y) OBVIOUS
<1>4. IsSequence(more) /\ Once(more) /\ Defines(more) = {Lbl(l)} /\ GoesTo(more) = {} BY <1>3, PrologueLabels
<1>5. PICK a, b, c : a = Task.function_body /\ b = Task.retval /\ c = [op |-> "endfn", def |-> Task] OBVIOUS
<1>6. PICK new : new = <<a, b, c>> OBVIOUS
<1>7. CalmTasks(new)
  <2>1. Task \in FunctionDefs(AllTrees)
    <3>1. PICK u : Does(Task, View, u) BY <1>1, HeadTask
    <3>. QED BY <1>1, <3>1 DEF Does, DoesDefinition
  <2>2. a \in AllTrees.blocks /\ b \in Expressions BY <1>5, <2>1, FunctionParts DEF Expressions
  <2>3. c.op = "endfn" BY <1>5
  <2>4. Calm(a) /\ Calm(b) /\ Calm(c) BY <2>2, <2>3, CalmOps
  <2>. QED BY <1>6, <2>4, CalmShort
<1>8. insns' = insns \o more /\ Then(new) BY <1>2, <1>3, <1>5, <1>6 DEF VisitFunctionDef, Emit
<1>9. UNCHANGED <<phase, prog, fnInfo, nextIndex>> BY DEF VisitFunctionDef, tables, names
<1>10. FunctionsOK' BY <1>1, <1>9, BeforeStep, FunctionsStay
<1>11. Known' = Known BY <1>9 DEF Known
<1>12. /\ IsSequence(new) /\ GivenBy(new) = {} /\ WantedBy(new) \subseteq Elsewhere /\ Apart(new)
       /\ \A i \in 1..Len(new) : new[i].op \notin {"entry", "endentry"}
  BY <1>7, CalmGives
<1>13. ASSUME GoodNames(prog) PROVE LabelsFit(insns \o more, new \o Tail(todo), nextIndex, Known)
  <2>1. LabelsFit(insns, todo, nextIndex, Known) BY <1>1, <1>13, BeforeStep
  <2>2. Given(Head(todo)) = {Lbl(l)} BY <1>1, <1>2 DEF Given, Task
  <2>3. Defines(more) = Given(Head(todo)) BY <1>4, <2>2
  <2>4. Known \cup GoesTo(more) \cup WantedBy(new) \subseteq Known \cup Wanted(Head(todo)) \cup Elsewhere
    BY <1>4, <1>12
  <2>5. IsSequence(todo) /\ todo # <<>> /\ IsSequence(insns) /\ nextIndex \in Int BY <1>1, BeforeStep
  <2>. QED BY <1>4, <1>12, <2>1, <2>3, <2>4, <2>5, RefitNoneMade
<1>. QED BY <1>1, <1>8, <1>9, <1>10, <1>11, <1>12, <1>13, Onward

\* Nothing comes after Entry.
LEMMA EntryIsLast ==
  ASSUME NEW ts, IsSequence(ts), EndsInEntry(ts), Head(ts).op \in {"entry", "endentry"}
  PROVE  Len(ts) = 1 /\ Tail(ts) = <<>>
PROOF
<1>1. PICK n, r : n = Len(ts) /\ r = Tail(ts) OBVIOUS
<1>2. ts # <<>> BY DEF EndsInEntry
<1>3. n \in Nat \ {0} /\ DOMAIN ts = 1..n /\ Head(ts) = ts[1] BY <1>1, <1>2, SequenceBasics
<1>4. n = 1 BY <1>1, <1>3 DEF EndsInEntry
<1>5. IsSequence(r) /\ Len(r) = 0
  <2>1. IsSequence(Tail(ts)) /\ Len(Tail(ts)) = Len(ts) - 1 BY <1>2, TailSequence
  <2>2. Len(r) = n - 1 BY ONLY <1>1, <2>1
  <2>. QED BY <1>1, <1>4, <2>1, <2>2
<1>6. r = <<>> BY <1>5, SequenceBasics
<1>. QED BY <1>1, <1>4, <1>6

LEMMA VisitEntryJumps == IInv /\ LInv /\ VisitEntry => LInv'
PROOF
<1>. SUFFICES ASSUME IInv, LInv, VisitEntry PROVE LInv' OBVIOUS
<1>1. phase = "generating" /\ Task.op = "entry" BY DEF VisitEntry, At
<1>2. PICK y : y = PointerBits(prog.statements.decls) OBVIOUS
<1>3. PICK more : more = Prologue("Entry", 0, y) OBVIOUS
<1>4. IsSequence(more) /\ Once(more) /\ Defines(more) = {Lbl("Entry")} /\ GoesTo(more) = {} BY <1>3, PrologueLabels
<1>5. PICK a, b, c : a = prog.statements /\ b = prog.arithmetic_exp /\ c = Do("endentry") OBVIOUS
<1>6. PICK new : new = <<a, b, c>> OBVIOUS
<1>7. insns' = insns \o more /\ Then(new) BY <1>2, <1>3, <1>5, <1>6 DEF VisitEntry, Emit
<1>8. UNCHANGED <<phase, prog, fnInfo, nextIndex>> BY DEF VisitEntry, tables, names
<1>9. FunctionsOK' BY <1>1, <1>8, BeforeStep, FunctionsStay
<1>10. Known' = Known BY <1>8 DEF Known
<1>11. c.op = "endentry" BY <1>5 DEF Do
<1>12. /\ Given(a) = {} /\ Wanted(a) \subseteq Elsewhere /\ (a.op = "code" => Once(a.insns))
       /\ Given(b) = {} /\ Wanted(b) \subseteq Elsewhere /\ (b.op = "code" => Once(b.insns))
       /\ a.op \notin {"entry", "endentry"} /\ b.op \notin {"entry", "endentry"}
  <2>1. a \in AllTrees.blocks /\ b \in Expressions BY <1>1, <1>5, BeforeStep, ProgramParts DEF Expressions
  <2>2. Calm(a) /\ Calm(b) BY <2>1, CalmOps
  <2>. QED BY <2>2, CalmTask
<1>13. Given(c) = {} /\ Wanted(c) = {} BY <1>11 DEF Given, Wanted
<1>14. IsSequence(new) /\ DOMAIN new = 1..3 /\ Len(new) = 3 /\ new[1] = a /\ new[2] = b /\ new[3] = c /\ new # <<>>
  BY ONLY <1>6 DEF IsSequence, ToSet
<1>15. \A i \in DOMAIN new : i = 1 \/ i = 2 \/ i = 3 BY <1>14
<1>16. GivenBy(new) = {} /\ WantedBy(new) \subseteq Elsewhere /\ Apart(new)
  <2>1. \A i \in DOMAIN new : /\ Given(new[i]) = {} /\ Wanted(new[i]) \subseteq Elsewhere
                              /\ (new[i].op = "code" => Once(new[i].insns))
    BY <1>11, <1>12, <1>13, <1>14, <1>15
  <2>. QED BY <2>1 DEF GivenBy, WantedBy, Apart
<1>17. EndsInEntry(new) BY <1>11, <1>12, <1>14, <1>15 DEF EndsInEntry
<1>18. todo' = new
  <2>1. Tail(todo) = <<>> BY <1>1, BeforeStep, EntryIsLast DEF Task
  <2>2. new \o <<>> = new BY ONLY <1>14 DEF IsSequence
  <2>. QED BY <1>7, <2>1, <2>2 DEF Then
<1>19. EndsInEntry(todo') BY <1>17, <1>18
<1>20. GoodNames(prog') => LabelsFit(insns', todo', nextIndex', Known')
  <2>. SUFFICES ASSUME GoodNames(prog) PROVE LabelsFit(insns \o more, new \o Tail(todo), nextIndex, Known)
    BY <1>7, <1>8, <1>10 DEF Then
  <2>1. LabelsFit(insns, todo, nextIndex, Known) BY <1>1, BeforeStep
  <2>2. Given(Head(todo)) = {Lbl("Entry")} BY <1>1 DEF Given, Task
  <2>3. Defines(more) = Given(Head(todo)) BY <1>4, <2>2
  <2>4. Known \cup GoesTo(more) \cup WantedBy(new) \subseteq Known \cup Wanted(Head(todo)) \cup Elsewhere
    BY <1>4, <1>16
  <2>5. IsSequence(todo) /\ todo # <<>> /\ IsSequence(insns) /\ nextIndex \in Int BY <1>1, BeforeStep
  <2>. QED BY <1>4, <1>14, <1>16, <2>1, <2>3, <2>4, <2>5, RefitNoneMade
<1>21. CodeComplete' BY <1>9, <1>19, <1>20 DEF CodeComplete
<1>22. JumpsResolved' BY <1>1, <1>8 DEF JumpsResolved
<1>. QED BY <1>21, <1>22 DEF LInv

\* At the end, the names that the tables took tell that all labels differ.
LEMMA NamesTaken ==
  ASSUME NEW pg, NEW m, NEW n, m = Len(pg.type_defs), n = Len(pg.function_defs),
         m \in Nat, n \in Nat, DOMAIN pg.function_defs = 1..n,
         prog = pg, AddedUpTo(Preparations(pg)), "Entry" \notin DOMAIN fnInfo
  PROVE  GoodNames(pg)
PROOF
<1>1. PICK fs, D : fs = pg.function_defs /\ D = DOMAIN fnInfo OBVIOUS
<1>2. PICK k : k = Preparations(pg) OBVIOUS
<1>3. k = m + n BY <1>2 DEF Preparations
<1>4. /\ prog.function_defs = fs /\ Len(prog.type_defs) = m /\ DOMAIN fs = 1..n /\ DOMAIN fnInfo = D
      /\ AddedUpTo(k)
  BY <1>1, <1>2
<1>5. /\ \A i \in 1..n : m + i <= k => fs[i].function_name \in D
      /\ \A i, j \in 1..n : m + i <= k /\ m + j <= k /\ fs[i].function_name = fs[j].function_name => i = j
  BY ONLY <1>4 DEF AddedUpTo
<1>6. \A i \in 1..n : m + i <= k BY <1>3
<1>7. /\ \A i \in 1..n : fs[i].function_name \in D
      /\ \A i, j \in 1..n : fs[i].function_name = fs[j].function_name => i = j
  BY ONLY <1>5, <1>6
<1>. QED BY <1>1, <1>4, <1>7 DEF GoodNames, FunctionNames

LEMMA EndEntryJumps == IInv /\ LInv /\ EndEntry => LInv'
PROOF
<1>. SUFFICES ASSUME IInv, LInv, EndEntry PROVE LInv' OBVIOUS
<1>1. phase = "generating" /\ Task.op = "endentry" /\ phase' = "done" BY DEF EndEntry, At
<1>2. PICK more, new : more = Epilogue(Word * Len(prog.statements.decls)) /\ new = <<>> OBVIOUS
<1>3. Straight(more) /\ CalmTasks(new) BY <1>2, EpilogueStraight, CalmShort
<1>4. insns' = insns \o more /\ fnInfo' = fnInfo BY <1>2 DEF EndEntry, Emit, tables
<1>5. SUFFICES ASSUME "Entry" \notin DOMAIN fnInfo
               PROVE  Once(insns') /\ GoesTo(insns') \subseteq Defines(insns') \cup Elsewhere
  BY <1>1, <1>4 DEF LInv, JumpsResolved, IsLabel, Defined, Targets, Once, Defines, GoesTo, Elsewhere
<1>6. GoodNames(prog)
  <2>1. PICK m, n : m = Len(prog.type_defs) /\ n = Len(prog.function_defs) OBVIOUS
  <2>2. PICK fs, plan : fs = prog.function_defs /\ plan = Plan(prog) OBVIOUS
  <2>3. IsPlan(plan, fs, m, n) BY <1>1, <2>1, <2>2, BeforeStep, PlanFacts
  <2>4. m \in Nat /\ n \in Nat /\ DOMAIN prog.function_defs = 1..n BY <2>2, <2>3 DEF IsPlan
  <2>5. AddedUpTo(Preparations(prog)) BY <1>1, BeforeStep, AllAdded
  <2>. QED BY <1>5, <2>1, <2>4, <2>5, NamesTaken
<1>7. LabelsFit(insns \o more, new \o Tail(todo), nextIndex, Known)
  <2>1. LabelsFit(insns, todo, nextIndex, Known) BY <1>1, <1>6, BeforeStep
  <2>2. Given(Head(todo)) = {} BY <1>1 DEF Given, Task
  <2>3. IsSequence(todo) /\ todo # <<>> /\ IsSequence(insns) /\ nextIndex \in Int BY <1>1, BeforeStep
  <2>. QED BY <1>3, <2>1, <2>2, <2>3, CalmRefit
<1>8. new \o Tail(todo) = <<>>
  <2>1. Tail(todo) = <<>> BY <1>1, BeforeStep, EntryIsLast DEF Task
  <2>. QED BY <1>2, <2>1
<1>9. PICK is : is = insns' OBVIOUS
<1>10. LabelsFit(is, <<>>, nextIndex, Known) BY <1>4, <1>7, <1>8, <1>9
<1>11. Once(is) /\ GoesTo(is) \subseteq Defines(is) \cup Elsewhere BY <1>10, NoTasks DEF LabelsFit, Labels
<1>. QED BY <1>9, <1>11

-----------------------------------------------------------------------------
(* The program. *)

\* Of the plan, the functions and Entry define their labels; the code to come
\* goes to those of the functions.
LEMMA PlanFits ==
  ASSUME NEW pg, pg \in ProgramTrees(AllTrees), GoodNames(pg)
  PROVE  LabelsFit(<<>>, Plan(pg), 0, {})
PROOF
<1>1. PICK fs, m, n, plan : /\ fs = pg.function_defs /\ m = Len(pg.type_defs) /\ n = Len(pg.function_defs)
                            /\ plan = Plan(pg)
  OBVIOUS
<1>2. IsPlan(plan, fs, m, n) BY <1>1, PlanFacts
<1>3. PICK last : last = m + n + n + 1 OBVIOUS
<1>4. /\ m \in Nat /\ n \in Nat /\ DOMAIN fs = 1..n /\ DOMAIN plan = 1..(m + n + n + 1)
      /\ \A i \in 1..m : plan[i].op = "typedef"
      /\ \A i \in 1..n : /\ plan[m + i] = [op |-> "addfn", def |-> fs[i]]
                         /\ plan[m + n + i] = fs[i] /\ fs[i].op = "fundef"
      /\ plan[m + n + n + 1] = Do("entry")
  BY <1>2 DEF IsPlan
<1>5. /\ \A i, j \in 1..n : fs[i].function_name = fs[j].function_name => i = j
      /\ \A i \in 1..n : fs[i].function_name # "Entry"
  BY <1>1, <1>4 DEF GoodNames, FunctionNames
<1>6. ASSUME NEW i \in 1..m PROVE plan[i].op = "typedef" /\ Given(plan[i]) = {} /\ Wanted(plan[i]) = {}
  <2>1. plan[i].op = "typedef" BY <1>4
  <2>. QED BY <2>1 DEF Given, Wanted
<1>7. ASSUME NEW i \in 1..n
      PROVE  /\ plan[m + i].op = "addfn" /\ Given(plan[m + i]) = {}
             /\ Wanted(plan[m + i]) = {Lbl(fs[i].function_name)}
  <2>1. PICK t, f : t = plan[m + i] /\ f = fs[i] OBVIOUS
  <2>2. t = [op |-> "addfn", def |-> f] BY <1>4, <2>1
  <2>3. t.op = "addfn" /\ t.def = f BY ONLY <2>2
  <2>4. Given(t) = {} /\ Wanted(t) = {Lbl(f.function_name)} BY ONLY <2>3 DEF Given, Wanted
  <2>. QED BY ONLY <2>1, <2>3, <2>4
<1>8. ASSUME NEW i \in 1..n
      PROVE  /\ plan[m + n + i].op = "fundef" /\ Wanted(plan[m + n + i]) = {}
             /\ Given(plan[m + n + i]) = {Lbl(fs[i].function_name)}
  <2>1. plan[m + n + i] = fs[i] /\ fs[i].op = "fundef" BY <1>4
  <2>. QED BY <2>1 DEF Given, Wanted
<1>9. plan[last].op = "entry" /\ Wanted(plan[last]) = {} /\ Given(plan[last]) = {Lbl("Entry")}
  BY <1>3, <1>4 DEF Do, Given, Wanted
<1>10. ASSUME NEW k \in DOMAIN plan
       PROVE  \/ k \in 1..m
              \/ \E i \in 1..n : k = m + i
              \/ \E i \in 1..n : k = m + n + i
              \/ k = last
  <2>1. k \in 1..(m + n + n + 1) BY <1>4
  <2>2. CASE k \in (m + 1)..(m + n)
    <3>1. PICK i : i = k - m OBVIOUS
    <3>2. i \in 1..n /\ k = m + i BY <1>4, <2>2, <3>1
    <3>. QED BY <3>2
  <2>3. CASE k \in (m + n + 1)..(m + n + n)
    <3>1. PICK i : i = k - (m + n) OBVIOUS
    <3>2. i \in 1..n /\ k = m + n + i BY <1>4, <2>3, <3>1
    <3>. QED BY <3>2
  <2>4. k \in 1..m \/ k \in (m + 1)..(m + n) \/ k \in (m + n + 1)..(m + n + n) \/ k = last BY <1>3, <1>4, <2>1
  <2>. QED BY <2>2, <2>3, <2>4
<1>11. ASSUME NEW k \in DOMAIN plan
       PROVE  /\ plan[k].op # "code"
              /\ \/ Given(plan[k]) = {}
                 \/ \E i \in 1..n : k = m + n + i /\ Given(plan[k]) = {Lbl(fs[i].function_name)}
                 \/ k = last /\ Given(plan[k]) = {Lbl("Entry")}
              /\ Wanted(plan[k]) = {} \/ \E i \in 1..n : Wanted(plan[k]) = {Lbl(fs[i].function_name)}
  <2>1. CASE k \in 1..m BY <1>6, <2>1
  <2>2. CASE \E i \in 1..n : k = m + i BY <1>7, <2>2
  <2>3. CASE \E i \in 1..n : k = m + n + i BY <1>8, <2>3
  <2>4. CASE k = last BY <1>9, <2>4
  <2>. QED BY <1>10, <2>1, <2>2, <2>3, <2>4
<1>12. PICK Own : Own = {Lbl(fs[i].function_name) : i \in 1..n} OBVIOUS
<1>13. Own \subseteq GivenBy(plan)
  <2>1. SUFFICES ASSUME NEW i \in 1..n PROVE Lbl(fs[i].function_name) \in GivenBy(plan) BY <1>12
  <2>2. m + n + i \in DOMAIN plan BY <1>4
  <2>. QED BY <1>8, <2>2 DEF GivenBy
<1>14. GivenBy(plan) \subseteq Own \cup {Lbl("Entry")} BY <1>11, <1>12 DEF GivenBy
<1>15. WantedBy(plan) \subseteq Own BY <1>11, <1>12 DEF WantedBy
<1>16. \A a, b : Lbl(a) = Lbl(b) => a = b
  <2>1. SUFFICES ASSUME NEW a, NEW b, Lbl(a) = Lbl(b) PROVE a = b OBVIOUS
  <2>2. Lbl(a).s = a /\ Lbl(b).s = b BY DEF Lbl
  <2>. QED BY <2>1, <2>2
<1>17. Apart(plan)
  <2>1. SUFFICES ASSUME NEW j \in DOMAIN plan, NEW k \in DOMAIN plan, NEW l, l \in Given(plan[j]), l \in Given(plan[k])
                 PROVE  j = k
    BY <1>11 DEF Apart
  <2>2. \A k1 \in DOMAIN plan : l \in Given(plan[k1]) =>
          \/ \E i \in 1..n : k1 = m + n + i /\ l = Lbl(fs[i].function_name)
          \/ k1 = last /\ l = Lbl("Entry")
    BY <1>11
  <2>3. CASE l = Lbl("Entry")
    <3>1. j = last /\ k = last BY <1>5, <1>16, <2>1, <2>2, <2>3
    <3>. QED BY <3>1
  <2>4. CASE l # Lbl("Entry")
    <3>1. PICK i1 \in 1..n : j = m + n + i1 /\ l = Lbl(fs[i1].function_name) BY <2>1, <2>2, <2>4
    <3>2. PICK i2 \in 1..n : k = m + n + i2 /\ l = Lbl(fs[i2].function_name) BY <2>1, <2>2, <2>4
    <3>3. i1 = i2 BY <1>5, <1>16, <3>1, <3>2
    <3>. QED BY ONLY <3>1, <3>2, <3>3
  <2>. QED BY <2>3, <2>4
<1>18. \A l \in Own \cup {Lbl("Entry")} : l.n \in Int /\ l.n < 0
  <2>1. \A f : Lbl(f).n = -1 BY DEF Lbl, Unnumbered
  <2>2. \A l \in Own \cup {Lbl("Entry")} : l.n = -1 BY <1>12, <2>1
  <2>. QED BY <2>2
<1>19. Labels(<<>>, plan) = GivenBy(plan) BY NoCode DEF Labels
<1>. QED BY <1>1, <1>13, <1>14, <1>15, <1>17, <1>18, <1>19, NoCode DEF LabelsFit

LEMMA PlanEndsInEntry ==
  ASSUME NEW pg, pg \in ProgramTrees(AllTrees)
  PROVE  EndsInEntry(Plan(pg))
PROOF
<1>1. PICK fs, m, n, plan : /\ fs = pg.function_defs /\ m = Len(pg.type_defs) /\ n = Len(pg.function_defs)
                            /\ plan = Plan(pg)
  OBVIOUS
<1>2. IsPlan(plan, fs, m, n) BY <1>1, PlanFacts
<1>3. PICK last : last = m + n + n + 1 OBVIOUS
<1>4. /\ m \in Nat /\ n \in Nat /\ DOMAIN fs = 1..n /\ IsSequence(plan) /\ Len(plan) = last /\ DOMAIN plan = 1..last
      /\ \A i \in 1..m : plan[i].op = "typedef"
      /\ \A i \in 1..n : /\ plan[m + i] = [op |-> "addfn", def |-> fs[i]]
                         /\ plan[m + n + i] = fs[i] /\ fs[i].op = "fundef"
      /\ plan[last] = Do("entry")
  BY <1>2, <1>3 DEF IsPlan
<1>5. ASSUME NEW k \in DOMAIN plan, k # last PROVE plan[k].op \in {"typedef", "addfn", "fundef"}
  <2>1. k \in 1..(m + n + n) BY <1>3, <1>4, <1>5
  <2>2. CASE k \in 1..m BY <1>4, <2>2
  <2>3. CASE k \in (m + 1)..(m + n)
    <3>1. PICK i : i = k - m OBVIOUS
    <3>2. i \in 1..n /\ k = m + i BY <1>4, <2>3, <3>1
    <3>3. plan[k] = [op |-> "addfn", def |-> fs[i]] BY <1>4, <3>2
    <3>. QED BY <3>3
  <2>4. CASE k \in (m + n + 1)..(m + n + n)
    <3>1. PICK i : i = k - (m + n) OBVIOUS
    <3>2. i \in 1..n /\ k = m + n + i BY <1>4, <2>4, <3>1
    <3>. QED BY <1>4, <3>2
  <2>5. k \in 1..m \/ k \in (m + 1)..(m + n) \/ k \in (m + n + 1)..(m + n + n) BY <1>4, <2>1
  <2>. QED BY <2>2, <2>3, <2>4, <2>5
<1>6. plan[last].op = "entry" BY <1>4 DEF Do
<1>7. plan # <<>>
  <2>1. Len(plan) # 0 BY <1>3, <1>4
  <2>. QED BY <2>1
<1>8. \A k \in DOMAIN plan : plan[k].op \in {"entry", "endentry"} <=> k = Len(plan) BY <1>4, <1>5, <1>6
<1>. QED BY <1>1, <1>7, <1>8 DEF EndsInEntry

LEMMA GenerateCodeJumps ==
  ASSUME Programs \subseteq ProgramTrees(AllTrees), IInv, LInv, GenerateCode
  PROVE  LInv'
PROOF
<1>1. PICK pg : pg = prog' OBVIOUS
<1>2. pg \in ProgramTrees(AllTrees) /\ phase' = "generating" BY <1>1 DEF GenerateCode
<1>3. PICK fs, m, n, plan : /\ fs = pg.function_defs /\ m = Len(pg.type_defs) /\ n = Len(pg.function_defs)
                            /\ plan = Plan(pg)
  OBVIOUS
<1>4. IsPlan(plan, fs, m, n) BY <1>2, <1>3, PlanFacts
<1>5. m \in Nat /\ n \in Nat /\ DOMAIN fs = 1..n /\ IsSequence(plan) /\ Len(plan) = m + n + n + 1 BY <1>4 DEF IsPlan
<1>6. todo' = plan
  <2>1. todo' = prog'.type_defs
           \o [i \in DOMAIN prog'.function_defs |-> [op |-> "addfn", def |-> prog'.function_defs[i]]]
           \o prog'.function_defs
           \o <<Do("entry")>>
    BY DEF GenerateCode
  <2>. QED BY <1>1, <1>3, <2>1 DEF Plan, Additions
<1>7. fnInfo' = <<>> /\ insns' = <<>> /\ nextIndex' = 0 BY DEF GenerateCode
<1>8. Known' = {}
  <2>1. DOMAIN <<>> = {} OBVIOUS
  <2>. QED BY <1>7, <2>1 DEF Known
<1>9. Preparations(pg) = m + n BY <1>3 DEF Preparations
<1>10. AddedUpTo(0)'
  <2>1. \A i \in 1..n : ~(m + i <= 0) BY <1>5
  <2>. QED BY <1>1, <1>3, <1>5, <2>1 DEF AddedUpTo
<1>11. OnlyPrepared(0)'
  <2>1. Len(plan) = Len(plan) - 0 /\ \A i \in 1..Len(plan) : plan[i] = plan[0 + i] BY <1>5
  <2>. QED BY <1>1, <1>3, <1>6, <2>1 DEF OnlyPrepared
<1>12. FunctionsOK'
  <2>1. CASE m + n = 0
    <3>1. Preparations(pg) = 0 BY <1>9, <2>1
    <3>2. (AddedUpTo(Preparations(prog)))' BY <1>1, <1>10, <3>1 DEF AddedUpTo
    <3>. QED BY <3>2 DEF FunctionsOK
  <2>2. CASE m + n # 0
    <3>1. 0 \in 0..(m + n - 1) BY <1>5, <2>2
    <3>2. 0 \in 0..(Preparations(prog)' - 1)
      <4>1. PICK b : b = Preparations(prog)' OBVIOUS
      <4>2. b = m + n BY <1>1, <1>9, <4>1 DEF Preparations
      <4>3. m \in Nat /\ n \in Nat BY ONLY <1>5
      <4>4. 0 \in 0..(b - 1) BY ONLY <3>1, <4>2, <4>3
      <4>. QED BY <4>1, <4>4
    <3>. QED BY <1>10, <1>11, <3>2 DEF FunctionsOK
  <2>. QED BY <2>1, <2>2
<1>13. EndsInEntry(todo') BY <1>2, <1>3, <1>6, PlanEndsInEntry
<1>14. GoodNames(pg) => LabelsFit(<<>>, plan, 0, {}) BY <1>2, <1>3, PlanFits
<1>15. GoodNames(prog') => LabelsFit(insns', todo', nextIndex', Known') BY <1>1, <1>6, <1>7, <1>8, <1>14
<1>16. CodeComplete' BY <1>12, <1>13, <1>15 DEF CodeComplete
<1>17. JumpsResolved' BY <1>2 DEF JumpsResolved
<1>. QED BY <1>16, <1>17 DEF LInv

LEMMA KeepsLabels ==
  ASSUME Programs \subseteq ProgramTrees(AllTrees), IInv, LInv, [Next]_vars
  PROVE  LInv'
PROOF
<1>1. CASE GenerateCode BY <1>1, GenerateCodeJumps
<1>2. CASE Step
  <2>1. CASE FreeTmp \/ EmitCode \/ SaveTmp \/ VisitConstant \/ VisitNew \/ VisitAccessPath \/ FollowField
    BY <2>1, FreeTmpJumps, EmitCodeJumps, SaveTmpJumps, VisitConstantJumps, VisitNewJumps, VisitAccessPathJumps,
       FollowFieldJumps
  <2>2. CASE LoadPath \/ VisitBinary \/ ApplyOperator \/ VisitNot \/ VisitBlock \/ EndBlock
    BY <2>2, LoadPathJumps, VisitBinaryJumps, ApplyOperatorJumps, VisitNotJumps, VisitBlockJumps, EndBlockJumps
  <2>3. CASE VisitAssignment \/ AssignTo \/ StoreValue \/ VisitConditional \/ VisitLoop
    BY <2>3, VisitAssignmentJumps, AssignToJumps, StoreValueJumps, VisitConditionalJumps, VisitLoopJumps
  <2>4. CASE VisitCall \/ NextArgument \/ PushArg \/ DoCall
    BY <2>4, VisitCallJumps, NextArgumentJumps, PushArgJumps, DoCallJumps
  <2>5. CASE VisitTypeDef \/ AddFunction \/ VisitFunctionDef \/ EndFunctionDef \/ VisitEntry \/ EndEntry
    BY <2>5, VisitTypeDefJumps, AddFunctionJumps, VisitFunctionDefJumps, EndFunctionDefJumps, VisitEntryJumps,
       EndEntryJumps
  <2>. QED BY <1>2, <2>1, <2>2, <2>3, <2>4, <2>5 DEF Step
<1>3. CASE Idle \/ UNCHANGED vars
  <2>1. UNCHANGED <<phase, prog, todo, typeInfo, fnInfo, nextIndex, insns>>
    BY <1>3 DEF Idle, vars, tables, names
  <2>2. CodeComplete' = CodeComplete
    BY <2>1 DEF CodeComplete, FunctionsOK, OnlyPrepared, AddedUpTo, Preparations, Known
  <2>3. JumpsResolved' = JumpsResolved BY <2>1 DEF JumpsResolved, IsLabel, Defined, Targets
  <2>. QED BY <2>1, <2>2, <2>3 DEF LInv
<1>. QED BY <1>1, <1>2, <1>3 DEF Next

\* The code generated for any program can be assembled: each label is defined
\* once, and every jump and call goes to a label of the code, or to the
\* function of the collector.
THEOREM LabelsResolved ==
  ASSUME Programs \subseteq ProgramTrees(AllTrees)
  PROVE  Spec => []JumpsResolved
PROOF
<1>1. Init => LInv
  <2>. SUFFICES ASSUME Init PROVE LInv OBVIOUS
  <2>1. phase = "ready" BY DEF Init
  <2>. QED BY <2>1 DEF LInv, JumpsResolved
<1>2. IInv /\ LInv /\ [Next]_vars => IInv' /\ LInv' BY KeepsInvariant, KeepsLabels
<1>3. LInv => JumpsResolved BY DEF LInv
<1>. QED BY StartsRight, <1>1, <1>2, <1>3, PTL DEF Spec

=============================================================================
