--------------------------- MODULE CodeGenLayout ---------------------------
(***************************************************************************)
(* The code generator keeps to the frame discipline: CodeGen implements    *)
(* FrameLayout, in which the syntax tree is left open.  What holds of      *)
(* every frame there, for every program, holds of the frames here.         *)
(***************************************************************************)
EXTENDS CodeGen

CONSTANTS
  Identifiers,  \* the names of variables and parameters in Programs
  TmpName,      \* what every temporary is called in FrameLayout
  NameLists, DefCounts, Nestings, ArgCounts, Leaks   \* bounds, as in FrameLayout

ASSUME TmpAssumption == TmpName \notin Identifiers

Binders == Identifiers \cup {TmpName}

\* The definition being generated.
LayoutPhase ==
  IF phase \in {"done", "error"} THEN phase
  ELSE IF frame.kind = "none" THEN "idle" ELSE frame.kind

\* Where a name lives, in a scope of FrameLayout.
LayoutVars(s) ==
  IF s.kind = "tmp"
  THEN [x \in Binders |-> IF x = TmpName THEN s.vars[CHOOSE t \in DOMAIN s.vars : TRUE].off ELSE 0]
  ELSE [x \in Binders |-> IF x \in DOMAIN s.vars THEN s.vars[x].off ELSE 0]

LayoutScope(s) ==
  [kind |-> s.kind, vars |-> LayoutVars(s), next |-> s.next, args |-> s.args, arity |-> s.arity]

LayoutContexts(c) == [i \in DOMAIN c |-> LayoutScope(c[i])]

\* What `new` has left on the stack.
LayoutLeaked == IF frame.kind = "none" THEN 0 ELSE depth - (Top.next - Word)

Layout == INSTANCE FrameLayout WITH
  Names <- Identifiers,
  phase <- LayoutPhase,
  defs <- frame.begun,
  params <- frame.params,
  ctx <- LayoutContexts(ctx),
  depth <- depth,
  leaked <- LayoutLeaked

\* Every step of the visitor on a program moves the symbol table and the
\* stack pointer as one step of FrameLayout does, or leaves both alone: the
\* contexts nest as the syntax does, errors come only where they may, and
\* nothing but an allocation leaves words on the stack.
FollowsLayout == Layout!Spec
=============================================================================
