----------------------------- MODULE L2Semantics -----------------------------
(***************************************************************************)
(* What L2 programs mean, independently of the code generated for them:    *)
(* which syntax trees name only what is declared, and what a program       *)
(* prints.  The code generator is compared with these definitions.         *)
(*                                                                         *)
(* Locals and fields start at 0, nil is 0, truth is 1.  A pointer is       *)
(* FirstObject plus the number of the object among those allocated.        *)
(* Arithmetic does not wrap: the programs compared keep to small values.   *)
(***************************************************************************)
EXTENDS L2Ast, FiniteSets, TLC

FirstObject == 1000000

FieldsOf(pg, t) ==
  LET defs == SelectSeq(pg.type_defs, LAMBDA d : d.type_name = t)
  IN  IF defs = <<>> THEN <<>> ELSE defs[1].fields

FirstWith(ds, x) == ds[Min({i \in DOMAIN ds : ds[i].id = x})]

\* The variables of a list of declarations, with their types.
Scope(ds) == [x \in Ids(ds) |-> FirstWith(ds, x).type]

Distinct(ds) == Cardinality(Ids(ds)) = Len(ds)

-----------------------------------------------------------------------------
(* Well-formedness. *)

FieldOK(pg, t, f) == f \in Ids(FieldsOf(pg, t))

\* The type of a path whose root is declared, "none" if a field is not there.
PathType(pg, scope, p) ==
  LET step(t, f) == IF FieldOK(pg, t, f) THEN FirstWith(FieldsOf(pg, t), f).type ELSE "none"
  IN  FoldLeft(step, scope[p.root], p.fieldAccesses)

PathOK(pg, scope, p) == p.root \in DOMAIN scope /\ PathType(pg, scope, p) # "none"

RECURSIVE ExprOK(_, _, _)
ExprOK(pg, scope, e) ==
  CASE e.op \in {"int", "nil"} -> TRUE
    [] e.op = "new"            -> \E i \in DOMAIN pg.type_defs : pg.type_defs[i].type_name = e.type
    [] e.op = "path"           -> PathOK(pg, scope, e)
    [] e.op = "not"            -> ExprOK(pg, scope, e.operand)
    [] e.op \in BinaryOps      -> ExprOK(pg, scope, e.lhs) /\ ExprOK(pg, scope, e.rhs)
    [] e.op = "call" ->
         /\ \E i \in DOMAIN pg.function_defs :
              /\ pg.function_defs[i].function_name = e.callee_name
              /\ Len(pg.function_defs[i].parameters) = Len(e.arguments)
         /\ \A i \in DOMAIN e.arguments : ExprOK(pg, scope, e.arguments[i])

RECURSIVE StatementsOK(_, _, _)
StatementsOK(pg, scope, stmts) ==
  LET InnerOK(b) == b.decls = <<>> /\ StatementsOK(pg, scope, b.stmts)
      StatementOK(s) ==
        CASE s.op = "assign" -> PathOK(pg, scope, s.lhs) /\ ExprOK(pg, scope, s.rhs)
          [] s.op = "if"     -> /\ ExprOK(pg, scope, s.guard)
                                /\ InnerOK(s.true_branch) /\ InnerOK(s.false_branch)
          [] s.op = "while"  -> ExprOK(pg, scope, s.guard) /\ InnerOK(s.body)
  IN  \A i \in DOMAIN stmts : StatementOK(stmts[i])

\* A body and the expression after it, in the scope around them.
BodyOK(pg, outer, b, e) ==
  LET scope == Scope(b.decls) @@ outer
  IN  Distinct(b.decls) /\ StatementsOK(pg, scope, b.stmts) /\ ExprOK(pg, scope, e)

WellFormed(pg, mainScope) ==
  /\ IsInjective([i \in DOMAIN pg.type_defs |-> pg.type_defs[i].type_name])
  /\ IsInjective([i \in DOMAIN pg.function_defs |-> pg.function_defs[i].function_name])
  /\ \A i \in DOMAIN pg.function_defs :
       LET d == pg.function_defs[i] IN BodyOK(pg, Scope(d.parameters), d.function_body, d.retval)
  /\ BodyOK(pg, mainScope, pg.statements, pg.arithmetic_exp)

-----------------------------------------------------------------------------
(* Pointers in flight: computed, and needed after an allocation that is *)
(* made meanwhile.                                                          *)

ArgumentScope(d) == Scope(d.function_body.decls) @@ Scope(d.parameters)

RECURSIVE Allocates(_)
Allocates(e) ==
  CASE e.op \in {"int", "nil", "path"} -> FALSE
    [] e.op = "new"       -> TRUE
    [] e.op = "not"       -> Allocates(e.operand)
    [] e.op \in BinaryOps -> Allocates(e.lhs) \/ Allocates(e.rhs)
    [] e.op = "call"      -> TRUE   \* or may

\* The value may be the address of an object.
RECURSIVE MayPoint(_, _, _)
MayPoint(pg, scope, e) ==
  CASE e.op \in {"new", "call"}    -> TRUE
    [] e.op = "path"               -> ~IsIntType(PathType(pg, scope, e))
    [] e.op \in ArithmeticOps      -> MayPoint(pg, scope, e.lhs) \/ MayPoint(pg, scope, e.rhs)
    [] OTHER                       -> FALSE

\* A left operand, or an argument that is not the first, points while what
\* is evaluated after it allocates.
RECURSIVE InFlight(_, _, _)
InFlight(pg, scope, e) ==
  CASE e.op \in {"int", "nil", "path", "new"} -> FALSE
    [] e.op = "not"       -> InFlight(pg, scope, e.operand)
    [] e.op \in BinaryOps -> \/ MayPoint(pg, scope, e.lhs) /\ Allocates(e.rhs)
                             \/ InFlight(pg, scope, e.lhs) \/ InFlight(pg, scope, e.rhs)
    [] e.op = "call" ->
         \E k \in DOMAIN e.arguments :
           \/ InFlight(pg, scope, e.arguments[k])
           \/ MayPoint(pg, scope, e.arguments[k]) /\ \E j \in 1..(k - 1) : Allocates(e.arguments[j])

RECURSIVE InFlightIn(_, _, _)
InFlightIn(pg, scope, stmts) ==
  LET Holds(s) ==
        CASE s.op = "assign" -> InFlight(pg, scope, s.rhs)
          [] s.op = "if"     -> \/ InFlight(pg, scope, s.guard)
                                \/ InFlightIn(pg, scope, s.true_branch.stmts)
                                \/ InFlightIn(pg, scope, s.false_branch.stmts)
          [] s.op = "while"  -> InFlight(pg, scope, s.guard) \/ InFlightIn(pg, scope, s.body.stmts)
  IN  \E k \in DOMAIN stmts : Holds(stmts[k])

\* Of a well-formed program.
PointerInFlight(pg) ==
  LET Body(scope, b, e) == InFlightIn(pg, scope, b.stmts) \/ InFlight(pg, scope, e)
  IN  \/ \E k \in DOMAIN pg.function_defs :
           LET d == pg.function_defs[k] IN Body(ArgumentScope(d), d.function_body, d.retval)
      \/ Body(Scope(pg.statements.decls), pg.statements, pg.arithmetic_exp)

-----------------------------------------------------------------------------
(* Evaluation.  A state holds the variables of the function that runs, the  *)
(* objects, in val the value of the expression evaluated last, and whether  *)
(* a field of nil has been asked for, which ends the program.               *)

Truth(b) == IF b THEN 1 ELSE 0

Apply(op, a, b) ==
  CASE op = "add" -> a + b
    [] op = "sub" -> a - b
    [] op = "mul" -> a * b
    [] op = "lt"  -> Truth(a < b)
    [] op = "le"  -> Truth(a <= b)
    [] op = "eq"  -> Truth(a = b)
    [] op = "and" -> Truth(a # 0 /\ b # 0)
    [] op = "or"  -> Truth(a # 0 \/ b # 0)

Follows(st, x, fields) ==
  FoldLeft(LAMBDA v, f : IF v = 0 THEN 0 ELSE st.heap[v - FirstObject][f], st.vars[x], fields)

ThroughNil(st, x, fields) ==
  \E i \in 0..(Len(fields) - 1) : Follows(st, x, SubSeq(fields, 1, i)) = 0

Zeros(ds) == [x \in Ids(ds) |-> 0]

RECURSIVE Eval(_, _, _), Exec(_, _, _)
Eval(pg, e, st) ==
  CASE e.op = "int"  -> [st EXCEPT !.val = e.value]
    [] e.op = "nil"  -> [st EXCEPT !.val = 0]
    [] e.op = "new"  -> [st EXCEPT !.heap = Append(@, Zeros(FieldsOf(pg, e.type))),
                                   !.val = FirstObject + Len(st.heap) + 1]
    [] e.op = "path" -> [st EXCEPT !.val = Follows(st, e.root, e.fieldAccesses),
                                   !.fault = @ \/ ThroughNil(st, e.root, e.fieldAccesses)]
    [] e.op = "not"  -> LET a == Eval(pg, e.operand, st) IN [a EXCEPT !.val = Truth(@ = 0)]
    [] e.op \in BinaryOps ->
         LET a == Eval(pg, e.lhs, st)
             b == Eval(pg, e.rhs, a)
         IN  [b EXCEPT !.val = Apply(e.op, a.val, @)]
    [] e.op = "call" ->
         LET def  == SelectSeq(pg.function_defs, LAMBDA d : d.function_name = e.callee_name)[1]
             \* Arguments from last to first; args collects their values.
             Arg(acc, a) == LET r == Eval(pg, a, acc.st) IN [st |-> r, args |-> <<r.val>> \o acc.args]
             all  == FoldLeft(Arg, [st |-> st, args |-> <<>>], Reverse(e.arguments))
             given == [x \in Ids(def.parameters) |->
                         all.args[Min({i \in DOMAIN def.parameters : def.parameters[i].id = x})]]
             ran  == Exec(pg, def.function_body.stmts,
                          [all.st EXCEPT !.vars = Zeros(def.function_body.decls) @@ given])
         IN  [Eval(pg, def.retval, ran) EXCEPT !.vars = st.vars]

Exec(pg, stmts, st) ==
  IF stmts = <<>> \/ st.fault THEN st
  ELSE LET s == Head(stmts)
           rest == Tail(stmts)
       IN  CASE s.op = "assign" ->
                  LET r == Eval(pg, s.rhs, st)
                      fs == s.lhs.fieldAccesses
                      o == Follows(r, s.lhs.root, Front(fs)) - FirstObject
                  IN  Exec(pg, rest,
                           IF fs = <<>> THEN [r EXCEPT !.vars[s.lhs.root] = r.val]
                           ELSE IF ThroughNil(r, s.lhs.root, fs) THEN [r EXCEPT !.fault = TRUE]
                           ELSE [r EXCEPT !.heap[o][Last(fs)] = r.val])
             [] s.op = "if" ->
                  LET g == Eval(pg, s.guard, st)
                  IN  Exec(pg, (IF g.val # 0 THEN s.true_branch ELSE s.false_branch).stmts \o rest, g)
             [] s.op = "while" ->
                  LET g == Eval(pg, s.guard, st)
                  IN  Exec(pg, IF g.val # 0 THEN s.body.stmts \o stmts ELSE rest, g)

\* How the program ends: in val what it prints, unless fault.
Outcome(pg) ==
  LET start == [vars |-> Zeros(pg.statements.decls), heap |-> <<>>, val |-> 0, fault |-> FALSE]
  IN  Eval(pg, pg.arithmetic_exp, Exec(pg, pg.statements.stmts, start))
=============================================================================
