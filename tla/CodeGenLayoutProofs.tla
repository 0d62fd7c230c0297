------------------------ MODULE CodeGenLayoutProofs ------------------------
(***************************************************************************)
(* CodeGen implements FrameLayout: every step of the visitor, on any       *)
(* program that the constructors of ast.h can build, is a step of the      *)
(* frame discipline or leaves the frame alone.  Which step may come next   *)
(* rests on the invariant of CodeGenProofs.                                *)
(*                                                                         *)
(* The second half is about what the prologue tells the collector of the   *)
(* frame it opens: the two words of root information describe the          *)
(* parameters and the locals of that very frame.                           *)
(***************************************************************************)
EXTENDS CodeGenLayout, CodeGenProofs

\* Any program may be compiled, and nothing is bounded.
AnyProgram ==
  /\ Programs \subseteq ProgramTrees(AllTrees)
  /\ Identifiers = STRING /\ NameLists = Seq(STRING)
  /\ DefCounts = Nat /\ Nestings = Nat /\ ArgCounts = Nat /\ Leaks = Nat

-----------------------------------------------------------------------------
(* The contexts as FrameLayout sees them. *)

LEMMA LayoutSequence ==
  ASSUME NEW c, IsSequence(c)
  PROVE  /\ IsSequence(LayoutContexts(c)) /\ Len(LayoutContexts(c)) = Len(c)
         /\ \A i \in 1..Len(c) : LayoutContexts(c)[i] = LayoutScope(c[i])
PROOF
<1>1. Len(c) \in Nat /\ DOMAIN c = 1..Len(c) BY SequenceBasics
<1>2. IsSequence(LayoutContexts(c)) /\ Len(LayoutContexts(c)) = Len(c) BY <1>1, ToSequence DEF LayoutContexts
<1>. QED BY <1>1, <1>2 DEF LayoutContexts

LEMMA LayoutAppend ==
  ASSUME NEW c, IsSequence(c), NEW s
  PROVE  LayoutContexts(Append(c, s)) = Append(LayoutContexts(c), LayoutScope(s))
PROOF
<1>1. Len(c) \in Nat BY SequenceBasics
<1>2. PICK d : d = Append(c, s) OBVIOUS
<1>3. IsSequence(d) /\ Len(d) = Len(c) + 1 /\ d[Len(c) + 1] = s /\ \A i \in 1..Len(c) : d[i] = c[i]
  BY <1>2, AppendSequence
<1>4. PICK e : e = LayoutContexts(c) OBVIOUS
<1>5. IsSequence(e) /\ Len(e) = Len(c) /\ \A i \in 1..Len(c) : e[i] = LayoutScope(c[i]) BY <1>4, LayoutSequence
<1>6. PICK x : x = LayoutScope(s) OBVIOUS
<1>7. /\ IsSequence(Append(e, x)) /\ Len(Append(e, x)) = Len(e) + 1 /\ Append(e, x)[Len(e) + 1] = x
      /\ \A i \in 1..Len(e) : Append(e, x)[i] = e[i]
  BY <1>5, AppendSequence
<1>8. PICK f : f = LayoutContexts(d) OBVIOUS
<1>9. IsSequence(f) /\ Len(f) = Len(d) /\ \A i \in 1..Len(d) : f[i] = LayoutScope(d[i])
  BY <1>3, <1>8, LayoutSequence
<1>10. ASSUME NEW i \in 1..Len(d) PROVE f[i] = Append(e, x)[i]
  <2>1. CASE i = Len(c) + 1 BY <1>3, <1>5, <1>6, <1>7, <1>9, <2>1
  <2>2. CASE i # Len(c) + 1
    <3>1. i \in 1..Len(c) BY <1>1, <1>3, <2>2
    <3>. QED BY <1>3, <1>5, <1>7, <1>9, <3>1
  <2>. QED BY <2>1, <2>2
<1>11. PICK g : g = Append(e, x) OBVIOUS
<1>12. IsSequence(f) /\ IsSequence(g) /\ Len(f) = Len(g) /\ \A i \in 1..Len(f) : f[i] = g[i]
  BY <1>3, <1>5, <1>7, <1>9, <1>10, <1>11
<1>13. f = g BY ONLY <1>12, SameSequence
<1>. QED BY <1>2, <1>4, <1>6, <1>8, <1>11, <1>13

LEMMA LayoutFront ==
  ASSUME NEW c, IsSequence(c), c # <<>>
  PROVE  LayoutContexts(Front(c)) = Front(LayoutContexts(c))
PROOF
<1>1. Len(c) \in Nat \ {0} BY SequenceBasics
<1>2. PICK d : d = Front(c) OBVIOUS
<1>3. IsSequence(d) /\ Len(d) = Len(c) - 1 /\ \A i \in 1..(Len(c) - 1) : d[i] = c[i] BY <1>2, FrontSequence
<1>4. PICK e : e = LayoutContexts(c) OBVIOUS
<1>5. IsSequence(e) /\ e # <<>> /\ Len(e) = Len(c) /\ \A i \in 1..Len(c) : e[i] = LayoutScope(c[i])
  BY <1>1, <1>4, LayoutSequence, SequenceBasics
<1>6. IsSequence(Front(e)) /\ Len(Front(e)) = Len(e) - 1 /\ \A i \in 1..(Len(e) - 1) : Front(e)[i] = e[i]
  BY <1>5, FrontSequence
<1>7. PICK f : f = LayoutContexts(d) OBVIOUS
<1>8. IsSequence(f) /\ Len(f) = Len(d) /\ \A i \in 1..Len(d) : f[i] = LayoutScope(d[i])
  BY <1>3, <1>7, LayoutSequence
<1>9. \A i \in 1..Len(d) : f[i] = Front(e)[i] BY <1>1, <1>3, <1>5, <1>6, <1>8
<1>10. f = Front(e) BY <1>3, <1>5, <1>6, <1>8, <1>9, SameSequence
<1>. QED BY <1>2, <1>4, <1>7, <1>10

LEMMA LayoutTop ==
  ASSUME ContextsOK
  PROVE  /\ Layout!Top = LayoutScope(Top) /\ Len(LayoutContexts(ctx)) = Len(ctx) /\ Len(ctx) \in Nat
         /\ Layout!Top.kind = Top.kind /\ Layout!Top.next = Top.next
         /\ Layout!Top.args = Top.args /\ Layout!Top.arity = Top.arity
PROOF
<1>1. PICK c : c = ctx OBVIOUS
<1>2. IsSequence(c) /\ c # <<>> BY <1>1 DEF ContextsOK
<1>3. Len(c) \in Nat \ {0} BY <1>2, SequenceBasics
<1>4. Len(LayoutContexts(c)) = Len(c) /\ \A i \in 1..Len(c) : LayoutContexts(c)[i] = LayoutScope(c[i])
  BY <1>2, LayoutSequence
<1>5. Layout!Top = LayoutScope(Top) BY <1>1, <1>3, <1>4 DEF Layout!Top, Top
<1>. QED BY <1>1, <1>3, <1>4, <1>5 DEF LayoutScope

\* What the tasks ask for is what the steps of FrameLayout ask for.
LEMMA SeenByLayout ==
  ASSUME IInv, phase = "generating"
  PROVE  /\ InFrame(View) => LayoutPhase \in {"def", "entry"} /\ LayoutLeaked \in Nat
         /\ Computes(View) => Layout!InCode
         /\ AtStatement(View) => Layout!AtStatement
         /\ BetweenDefinitions(View) => LayoutPhase = "idle"
PROOF
<1>1. ContextsOK /\ DepthOK BY HeadTask
<1>2. Current(View) = Shape(Top) /\ View.frame = frame.kind BY <1>1, CurrentIsTop
<1>3. Layout!Top.kind = Top.kind /\ Layout!Top.args = Top.args /\ Layout!Top.arity = Top.arity BY <1>1, LayoutTop
<1>4. InFrame(View) => LayoutPhase \in {"def", "entry"} /\ LayoutLeaked \in Nat
  BY <1>1, <1>2 DEF InFrame, LayoutPhase, LayoutLeaked, DepthOK
<1>5. Computes(View) => Layout!InCode BY <1>2, <1>3 DEF Computes, Shape, Layout!InCode, Layout!NoCall, NoCall
<1>6. AtStatement(View) => Layout!AtStatement
  BY <1>2, <1>3 DEF AtStatement, Shape, Layout!AtStatement, Layout!NoCall, NoCall
<1>7. BetweenDefinitions(View) => LayoutPhase = "idle" BY <1>2 DEF BetweenDefinitions, LayoutPhase
<1>. QED BY <1>4, <1>5, <1>6, <1>7

-----------------------------------------------------------------------------
(* Steps that leave the frame alone. *)

LEMMA LayoutStutters ==
  ASSUME UNCHANGED <<phase, ctx, frame>>, depth' = depth
  PROVE  UNCHANGED Layout!vars
BY DEF Layout!vars, LayoutPhase, LayoutLeaked, Top

LEMMA LayoutQuiet ==
  ASSUME IInv, \/ EmitCode \/ SaveTmp \/ VisitConstant \/ LoadPath \/ ApplyOperator \/ VisitNot
               \/ VisitAssignment \/ StoreValue \/ VisitConditional \/ VisitLoop \/ NextArgument
  PROVE  UNCHANGED Layout!vars
PROOF
<1>1. CASE EmitCode BY <1>1, EmitCodeStep, LayoutStutters DEF EmitCode, where
<1>2. CASE SaveTmp BY <1>2, SaveTmpStep, LayoutStutters DEF SaveTmp, where
<1>3. CASE VisitConstant BY <1>3, VisitConstantStep, LayoutStutters DEF VisitConstant, where
<1>4. CASE LoadPath BY <1>4, LoadPathStep, LayoutStutters DEF LoadPath, where
<1>5. CASE ApplyOperator BY <1>5, ApplyOperatorStep, LayoutStutters DEF ApplyOperator, where
<1>6. CASE VisitNot BY <1>6, VisitNotStep, LayoutStutters DEF VisitNot, where
<1>7. CASE VisitAssignment BY <1>7, VisitAssignmentStep, LayoutStutters DEF VisitAssignment, where
<1>8. CASE StoreValue BY <1>8, StoreValueStep, LayoutStutters DEF StoreValue, where
<1>9. CASE VisitConditional BY <1>9, VisitConditionalStep, LayoutStutters DEF VisitConditional, where
<1>10. CASE VisitLoop BY <1>10, VisitLoopStep, LayoutStutters DEF VisitLoop, where
<1>11. CASE NextArgument BY <1>11, NextArgumentStep, LayoutStutters DEF NextArgument, where
<1>. QED BY <1>1, <1>2, <1>3, <1>4, <1>5, <1>6, <1>7, <1>8, <1>9, <1>10, <1>11

LEMMA LayoutBegins ==
  ASSUME AnyProgram, IInv, GenerateCode
  PROVE  UNCHANGED Layout!vars
PROOF
<1>1. ctx' = ctx /\ frame' = frame /\ depth' = depth /\ frame.kind = "none" BY GenerateCodeStep DEF AnyProgram
<1>2. phase = "ready" /\ phase' = "generating" BY DEF GenerateCode
<1>. QED BY <1>1, <1>2 DEF Layout!vars, LayoutPhase, LayoutLeaked

-----------------------------------------------------------------------------
(* Errors. *)

LEMMA LayoutFails ==
  ASSUME Fail
  PROVE  LayoutPhase' = "error" /\ UNCHANGED <<frame, LayoutContexts(ctx), depth, LayoutLeaked>>
BY DEF Fail, LayoutPhase, LayoutLeaked, Top, where

LEMMA LayoutRejectsName ==
  ASSUME IInv, phase = "generating", Computes(View), Fail
  PROVE  Layout!RejectName
BY SeenByLayout, LayoutFails DEF Layout!RejectName, Computes

LEMMA LayoutPaths ==
  ASSUME IInv, VisitAccessPath \/ FollowField
  PROVE  Layout!RejectName \/ UNCHANGED Layout!vars
PROOF
<1>1. CASE VisitAccessPath
  <2>. USE <1>1 DEF VisitAccessPath, At
  <2>1. PICK u : Does(Task, View, u) BY HeadTask
  <2>2. Computes(View) BY <2>1 DEF Does, DoesCode, ExpressionOps
  <2>3. CASE Scopes(ctx, Task.root) = {}
    <3>1. Fail BY <2>3
    <3>. QED BY <2>2, <3>1, LayoutRejectsName
  <2>4. CASE Scopes(ctx, Task.root) # {}
    <3>1. UNCHANGED <<phase, ctx, frame>> BY <2>4 DEF where
    <3>2. phase' # "error" BY <3>1
    <3>. QED BY <3>1, <3>2, VisitAccessPathStep, LayoutStutters
  <2>. QED BY <2>3, <2>4
<1>2. CASE FollowField
  <2>. USE <1>2 DEF FollowField, At
  <2>1. PICK u : Does(Task, View, u) BY HeadTask
  <2>2. Computes(View) BY <2>1 DEF Does, DoesCode
  <2>3. CASE FieldIndices(Task.type, Head(Task.fields)) = {}
    <3>1. Fail BY <2>3
    <3>. QED BY <2>2, <3>1, LayoutRejectsName
  <2>4. CASE FieldIndices(Task.type, Head(Task.fields)) # {}
    <3>1. UNCHANGED <<phase, ctx, frame>> BY <2>4 DEF where
    <3>2. phase' # "error" BY <3>1
    <3>. QED BY <3>1, <3>2, FollowFieldStep, LayoutStutters
  <2>. QED BY <2>3, <2>4
<1>. QED BY <1>1, <1>2

\* A type or a function defined twice.
LEMMA LayoutDefinitions ==
  ASSUME IInv, VisitTypeDef \/ AddFunction
  PROVE  Layout!RejectDefinition \/ UNCHANGED Layout!vars
PROOF
<1>1. phase = "generating" BY DEF VisitTypeDef, AddFunction, At
<1>2. /\ BetweenDefinitions(View) /\ frame.begun = 0
      /\ phase' = "error" \/ (depth' = depth /\ UNCHANGED <<phase, ctx, frame>>)
  BY VisitTypeDefStep, AddFunctionStep
<1>3. CASE phase' = "error"
  <2>1. Fail BY <1>1, <1>3 DEF VisitTypeDef, AddFunction
  <2>. QED BY <1>1, <1>2, <2>1, SeenByLayout, LayoutFails DEF Layout!RejectDefinition
<1>4. CASE phase' # "error" BY <1>2, <1>4, LayoutStutters
<1>. QED BY <1>3, <1>4

-----------------------------------------------------------------------------
(* Temporaries and allocations. *)

LEMMA LeakedKept ==
  ASSUME ContextsOK, NumbersOK, NEW k \in Int, depth' = depth + k, Top'.next = Top.next + k, frame' = frame
  PROVE  LayoutLeaked' = LayoutLeaked
PROOF
<1>1. PICK d, n : d = depth /\ n = Top.next OBVIOUS
<1>2. d \in Int /\ n \in Int BY <1>1, CurrentIsTop DEF NumbersOK, ScopeOK, IsScope
<1>3. (d + k) - ((n + k) - Word) = d - (n - Word) BY <1>2 DEF Word
<1>. QED BY <1>1, <1>3 DEF LayoutLeaked

LEMMA LayoutLeaves ==
  ASSUME ContextsOK, ctx' = Front(ctx)
  PROVE  LayoutContexts(ctx)' = Layout!CloseScope
PROOF
<1>1. PICK c, d : c = ctx /\ d = ctx' OBVIOUS
<1>2. IsSequence(c) /\ c # <<>> BY <1>1 DEF ContextsOK
<1>3. LayoutContexts(d) = Front(LayoutContexts(c)) BY <1>1, <1>2, LayoutFront
<1>. QED BY <1>1, <1>3 DEF Layout!CloseScope, Layout!Front, Front

LEMMA LayoutFreesTmp ==
  ASSUME IInv, FreeTmp
  PROVE  Layout!FreeTmp
PROOF
<1>1. phase = "generating" /\ UNCHANGED <<phase, frame>> /\ ctx' = Front(ctx) BY DEF FreeTmp, At, where
<1>2. InFrame(View) /\ Top.kind = "tmp" /\ depth' = depth - Word /\ Top'.next = Top.next - Word BY FreeTmpStep
<1>3. ContextsOK /\ NumbersOK BY <1>1, HeadTask
<1>4. LayoutLeaked' = LayoutLeaked
  <2>1. -Word \in Int BY DEF Word
  <2>2. depth \in Int /\ Top.next \in Int BY <1>3, CurrentIsTop DEF NumbersOK, ScopeOK, IsScope
  <2>3. depth' = depth + (-Word) /\ Top'.next = Top.next + (-Word) BY <1>2, <2>2 DEF Word
  <2>. QED BY <1>1, <1>3, <2>1, <2>3, LeakedKept
<1>5. LayoutContexts(ctx)' = Layout!CloseScope BY <1>1, <1>3, LayoutLeaves
<1>6. LayoutPhase \in {"def", "entry"} /\ LayoutPhase' = LayoutPhase BY <1>1, <1>2, SeenByLayout DEF LayoutPhase
<1>7. Layout!Top.kind = "tmp" BY <1>2, <1>3, LayoutTop
<1>. QED BY <1>1, <1>2, <1>4, <1>5, <1>6, <1>7 DEF Layout!FreeTmp, Layout!Word, Word

LEMMA TmpLayout ==
  ASSUME NEW n, NEW x
  PROVE  LayoutScope(TmpScope(n, x)) = Layout!NewScope("tmp", [Layout!RootScope.vars EXCEPT ![TmpName] = n], n + Word)
PROOF
<1>1. PICK f : f = With(<<>>, x, [off |-> n, type |-> "int"]) OBVIOUS
<1>2. DOMAIN f = {x} /\ f[x].off = n BY <1>1 DEF With
<1>3. PICK t : t = CHOOSE y \in DOMAIN f : TRUE OBVIOUS
<1>4. t = x BY <1>2, <1>3
<1>5. PICK s : s = TmpScope(n, x) OBVIOUS
<1>6. s.kind = "tmp" /\ s.vars = f /\ s.next = n + Word /\ s.args = <<>> /\ s.arity = NoCall BY <1>1, <1>5 DEF TmpScope
<1>7. LayoutVars(s) = [y \in Binders |-> IF y = TmpName THEN n ELSE 0] BY <1>2, <1>3, <1>4, <1>6 DEF LayoutVars
<1>8. [Layout!RootScope.vars EXCEPT ![TmpName] = n] = [y \in Binders |-> IF y = TmpName THEN n ELSE 0]
  <2>1. PICK g : g = Layout!RootScope.vars OBVIOUS
  <2>2. g = [y \in Binders |-> 0]
    BY <2>1 DEF Layout!RootScope, Layout!NewScope, Layout!AllNames, Layout!Unbound, Binders
  <2>3. DOMAIN g = Binders /\ \A y \in Binders : g[y] = 0 BY ONLY <2>2
  <2>4. [g EXCEPT ![TmpName] = n] = [y \in Binders |-> IF y = TmpName THEN n ELSE 0] BY ONLY <2>3
  <2>. QED BY <2>1, <2>4
<1>9. LayoutScope(s) = [kind |-> "tmp", vars |-> LayoutVars(s), next |-> n + Word, args |-> <<>>, arity |-> NoCall]
  BY <1>6 DEF LayoutScope
<1>. QED BY <1>5, <1>7, <1>8, <1>9 DEF Layout!NewScope, Layout!NoCall, NoCall

LEMMA LayoutOpensTmp ==
  ASSUME AnyProgram, IInv, VisitBinary \/ AssignTo
  PROVE  Layout!FreshTmp
PROOF
<1>1. phase = "generating" /\ UNCHANGED <<phase, frame>> BY DEF VisitBinary, AssignTo, At, where
<1>2. depth' = depth + Word /\ Top' = TmpScope(Top.next, Tmp(nextTmp)) /\ ctx' = Append(ctx, Top')
  BY VisitBinaryStep, AssignToStep
<1>3. ContextsOK /\ NumbersOK BY <1>1, HeadTask
<1>4. Computes(View)
  <2>1. PICK u : Does(Task, View, u) BY <1>1, HeadTask
  <2>2. CASE VisitBinary BY <2>1, <2>2 DEF VisitBinary, Does, DoesCode, ExpressionOps
  <2>3. CASE AssignTo
    <3>1. AtStatement(View) BY <2>1, <2>3 DEF AssignTo, At, Does, DoesStatement
    <3>. QED BY <3>1, StatementIsCode
  <2>. QED BY <2>2, <2>3
<1>5. PICK c, d, n, s : c = ctx /\ d = ctx' /\ n = Top.next /\ s = Top' OBVIOUS
<1>6. LayoutContexts(d) = Append(LayoutContexts(c), LayoutScope(s)) BY <1>2, <1>3, <1>5, LayoutAppend DEF ContextsOK
<1>7. s.next = n + Word BY <1>2, <1>5 DEF TmpScope
<1>8. LayoutScope(s) = Layout!NewScope("tmp", [Layout!RootScope.vars EXCEPT ![TmpName] = n], n + Word)
  BY <1>2, <1>5, TmpLayout
<1>9. Layout!Top.next = n /\ Len(LayoutContexts(ctx)) \in Nat BY <1>3, <1>5, LayoutTop
<1>10. LayoutContexts(ctx)' = Layout!OpenTmp
  BY <1>5, <1>6, <1>8, <1>9 DEF Layout!OpenTmp, Layout!Word, Word
<1>11. LayoutLeaked' = LayoutLeaked
  <2>1. Word \in Int BY DEF Word
  <2>. QED BY <1>1, <1>2, <1>3, <1>5, <1>7, <2>1, LeakedKept
<1>12. LayoutPhase \in {"def", "entry"} /\ LayoutPhase' = LayoutPhase
  BY <1>1, <1>4, SeenByLayout DEF LayoutPhase, Computes
<1>13. Layout!InCode BY <1>1, <1>4, SeenByLayout
<1>14. Len(LayoutContexts(ctx)) \in Nestings BY <1>9 DEF AnyProgram
<1>. QED BY <1>1, <1>2, <1>10, <1>11, <1>12, <1>13, <1>14 DEF Layout!FreshTmp, Layout!Word, Word

LEMMA LayoutVisitsNew ==
  ASSUME AnyProgram, IInv, VisitNew
  PROVE  Layout!VisitNew \/ Layout!RejectName
PROOF
<1>. USE DEF VisitNew, At
<1>1. PICK u : Does(Task, View, u) BY HeadTask
<1>2. Computes(View) BY <1>1 DEF Does, DoesCode, ExpressionOps
<1>3. CASE Task.type \notin DOMAIN typeInfo
  <2>1. Fail BY <1>3
  <2>. QED BY <1>2, <2>1, LayoutRejectsName
<1>4. CASE Task.type \in DOMAIN typeInfo
  <2>1. UNCHANGED <<phase, ctx, frame>> /\ phase' # "error" BY <1>4 DEF where
  <2>2. depth' = depth + 2 * Word BY <2>1, VisitNewStep
  <2>3. ContextsOK /\ NumbersOK BY HeadTask
  <2>4. frame.kind # "none" /\ LayoutPhase \in {"def", "entry"} /\ LayoutLeaked \in Nat /\ Layout!InCode
    BY <1>2, <2>3, SeenByLayout, CurrentIsTop DEF Computes, InFrame
  <2>5. LayoutLeaked' = LayoutLeaked + 2 * Word
    <3>1. PICK d, n : d = depth /\ n = Top.next OBVIOUS
    <3>2. d \in Int /\ n \in Int BY <2>3, <3>1, CurrentIsTop DEF NumbersOK, ScopeOK, IsScope
    <3>3. (d + 2 * Word) - (n - Word) = (d - (n - Word)) + 2 * Word BY <3>2 DEF Word
    <3>4. Top' = Top BY <2>1 DEF Top
    <3>. QED BY <2>1, <2>2, <2>4, <3>1, <3>3, <3>4 DEF LayoutLeaked
  <2>6. LayoutPhase' = LayoutPhase /\ LayoutContexts(ctx)' = LayoutContexts(ctx) BY <2>1 DEF LayoutPhase
  <2>7. LayoutLeaked \in Leaks BY <2>4 DEF AnyProgram
  <2>. QED BY <2>1, <2>2, <2>4, <2>5, <2>6, <2>7 DEF Layout!VisitNew, Layout!NewSpace, Layout!Word, Word
<1>. QED BY <1>3, <1>4

-----------------------------------------------------------------------------
(* Calls. *)

\* A context of FrameLayout with the call in it gone on.
CallLayout(s, n, a, r) == [kind |-> s.kind, vars |-> LayoutVars(s), next |-> n, args |-> a, arity |-> r]

LEMMA CallContexts ==
  ASSUME ContextsOK, NEW t, ctx' = WithTop(t), t.kind = Top.kind, t.vars = Top.vars
  PROVE  LayoutContexts(ctx)' = Layout!WithTop(CallLayout(Top, t.next, t.args, t.arity))
PROOF
<1>1. PICK c, d, s : c = ctx /\ d = ctx' /\ s = Top OBVIOUS
<1>2. IsSequence(c) /\ c # <<>> BY <1>1 DEF ContextsOK
<1>3. IsSequence(Front(c)) BY <1>2, FrontSequence
<1>4. LayoutContexts(Front(c)) = Front(LayoutContexts(c)) BY <1>2, LayoutFront
<1>5. LayoutContexts(d) = Append(Front(LayoutContexts(c)), LayoutScope(t)) BY <1>1, <1>3, <1>4, LayoutAppend DEF WithTop
<1>6. LayoutVars(t) = LayoutVars(s) BY <1>1 DEF LayoutVars
<1>7. LayoutScope(t) = CallLayout(s, t.next, t.args, t.arity) BY <1>1, <1>6 DEF LayoutScope, CallLayout
<1>. QED BY <1>1, <1>5, <1>7 DEF Layout!WithTop, Layout!Front, Front

LEMMA LayoutCalls ==
  ASSUME AnyProgram, IInv, VisitCall
  PROVE  Layout!BeginCall
PROOF
<1>1. AtStatement(View) /\ (phase' = "error" \/ (depth' = depth /\ Top'.next = Top.next /\ Len(Task.arguments) \in Nat))
  BY VisitCallStep
<1>. USE DEF VisitCall, At
<1>2. ContextsOK /\ NumbersOK BY HeadTask
<1>3. LayoutPhase \in {"def", "entry"} /\ Layout!AtStatement BY <1>1, SeenByLayout DEF AtStatement
<1>4. CASE Fail BY <1>3, <1>4, LayoutFails DEF Layout!BeginCall
<1>5. CASE ~Fail
  <2>1. PICK n : n = Len(Task.arguments) OBVIOUS
  <2>2. UNCHANGED <<phase, frame>> /\ ctx' = WithTop([Top EXCEPT !.arity = n]) BY <1>5, <2>1 DEF where
  <2>3. n \in Nat /\ depth' = depth /\ Top'.next = Top.next BY <1>1, <2>1, <2>2
  <2>4. PICK s, t : s = Top /\ t = [s EXCEPT !.arity = n] OBVIOUS
  <2>5. DOMAIN s = {"kind", "vars", "next", "args", "arity"} BY <1>2, <2>4, CurrentIsTop DEF ScopeOK, IsScope
  <2>6. t.kind = s.kind /\ t.vars = s.vars /\ t.next = s.next /\ t.args = s.args /\ t.arity = n BY ONLY <2>4, <2>5
  <2>7. ctx' = WithTop(t) BY <2>2, <2>4
  <2>8. LayoutContexts(ctx)' = Layout!WithTop(CallLayout(s, s.next, s.args, n))
    <3>1. LayoutContexts(ctx)' = Layout!WithTop(CallLayout(Top, t.next, t.args, t.arity)) BY <1>2, <2>4, <2>6, <2>7, CallContexts
    <3>. QED BY <2>4, <2>6, <3>1
  <2>9. [Layout!Top EXCEPT !.arity = n] = CallLayout(s, s.next, s.args, n)
    <3>. DEFINE Fs == {"kind", "vars", "next", "args", "arity"}
    <3>1. PICK l : l = Layout!Top OBVIOUS
    <3>2. l = LayoutScope(s) BY <1>2, <2>4, <3>1, LayoutTop
    <3>3. /\ DOMAIN l = Fs /\ l.kind = s.kind /\ l.vars = LayoutVars(s) /\ l.next = s.next
          /\ l.args = s.args /\ l.arity = s.arity
      BY <3>2 DEF LayoutScope
    <3>4. PICK m : m = [l EXCEPT !.arity = n] OBVIOUS
    <3>5. m = [f \in Fs |-> IF f = "arity" THEN n ELSE l[f]] BY ONLY <3>3, <3>4
    <3>6. PICK k : k = CallLayout(s, s.next, s.args, n) OBVIOUS
    <3>7. k = [f \in Fs |-> IF f = "arity" THEN n ELSE l[f]] BY <3>3, <3>6 DEF CallLayout
    <3>. QED BY <3>1, <3>4, <3>5, <3>6, <3>7
  <2>10. LayoutContexts(ctx)' = Layout!WithTop([Layout!Top EXCEPT !.arity = n]) BY <2>8, <2>9
  <2>11. LayoutLeaked' = LayoutLeaked BY <2>2, <2>3 DEF LayoutLeaked
  <2>12. n \in ArgCounts BY <2>3 DEF AnyProgram
  <2>13. LayoutPhase' = LayoutPhase BY <2>2 DEF LayoutPhase
  <2>. QED BY <1>3, <2>2, <2>3, <2>10, <2>11, <2>12, <2>13 DEF Layout!BeginCall
<1>. QED BY <1>4, <1>5

LEMMA LayoutPushes ==
  ASSUME IInv, PushArg
  PROVE  Layout!PushArg
PROOF
<1>. USE DEF PushArg, At
<1>1. InCall(View) /\ Len(Top.args) < Top.arity /\ depth' = depth + Word /\ Top'.next = Top.next + Word BY PushArgStep
<1>2. ContextsOK /\ NumbersOK BY HeadTask
<1>3. LayoutPhase \in {"def", "entry"} BY <1>1, SeenByLayout DEF InCall
<1>4. UNCHANGED <<phase, frame>> BY DEF where
<1>5. PICK s, d : s = Top /\ d = depth OBVIOUS
<1>6. /\ Layout!Top = LayoutScope(s) /\ Layout!Top.args = s.args /\ Layout!Top.arity = s.arity
      /\ Layout!Top.next = s.next
  BY <1>2, <1>5, LayoutTop
<1>7. Current(View) = Shape(s) BY <1>2, <1>5, CurrentIsTop
<1>8. s.arity # NoCall /\ Len(s.args) < s.arity BY <1>1, <1>5, <1>7 DEF InCall, Shape
<1>9. PICK n, a : n = s.next + Word /\ a = Append(s.args, d + Word) OBVIOUS
<1>10. PICK t : t = [s EXCEPT !.next = n, !.args = a] OBVIOUS
<1>11. DOMAIN s = {"kind", "vars", "next", "args", "arity"} BY <1>2, <1>5, CurrentIsTop DEF ScopeOK, IsScope
<1>12. t.kind = s.kind /\ t.vars = s.vars /\ t.next = n /\ t.args = a /\ t.arity = s.arity BY ONLY <1>10, <1>11
<1>13. ctx' = WithTop(t) BY <1>5, <1>9, <1>10
<1>14. LayoutContexts(ctx)' = Layout!WithTop(CallLayout(s, n, a, s.arity))
  <2>1. LayoutContexts(ctx)' = Layout!WithTop(CallLayout(Top, t.next, t.args, t.arity)) BY <1>2, <1>5, <1>12, <1>13, CallContexts
  <2>. QED BY <1>5, <1>12, <2>1
<1>15. [Layout!Top EXCEPT !.args = a, !.next = n] = CallLayout(s, n, a, s.arity)
  <2>. DEFINE Fs == {"kind", "vars", "next", "args", "arity"}
  <2>1. PICK l : l = Layout!Top OBVIOUS
  <2>2. /\ DOMAIN l = Fs /\ l.kind = s.kind /\ l.vars = LayoutVars(s) /\ l.next = s.next
        /\ l.args = s.args /\ l.arity = s.arity
    BY <1>6, <2>1 DEF LayoutScope
  <2>3. PICK m : m = [l EXCEPT !.args = a, !.next = n] OBVIOUS
  <2>4. m = [f \in Fs |-> IF f = "next" THEN n ELSE IF f = "args" THEN a ELSE l[f]] BY ONLY <2>2, <2>3
  <2>5. PICK k : k = CallLayout(s, n, a, s.arity) OBVIOUS
  <2>6. k = [f \in Fs |-> IF f = "next" THEN n ELSE IF f = "args" THEN a ELSE l[f]] BY <2>2, <2>5 DEF CallLayout
  <2>. QED BY <2>1, <2>3, <2>4, <2>5, <2>6
<1>16. LayoutContexts(ctx)' =
         Layout!WithTop([Layout!Top EXCEPT !.args = Append(Layout!Top.args, depth + Word), !.next = Layout!Top.next + Word])
  BY <1>5, <1>6, <1>9, <1>14, <1>15
<1>17. LayoutLeaked' = LayoutLeaked
  <2>1. Word \in Int BY DEF Word
  <2>. QED BY <1>1, <1>2, <1>4, <2>1, LeakedKept
<1>18. LayoutPhase' = LayoutPhase BY <1>4 DEF LayoutPhase
<1>. QED BY <1>1, <1>3, <1>4, <1>6, <1>8, <1>16, <1>17, <1>18 DEF Layout!PushArg, Layout!Word, Word, Layout!NoCall, NoCall

LEMMA LayoutFinishesCall ==
  ASSUME IInv, DoCall
  PROVE  Layout!FinishCall
PROOF
<1>. USE DEF DoCall, At
<1>1. /\ InCall(View) /\ Len(Top.args) = Top.arity
      /\ depth' = depth - Word * Top.arity /\ Top'.next = Top.next - Word * Top.arity
  BY DoCallStep
<1>2. ContextsOK /\ NumbersOK BY HeadTask
<1>3. LayoutPhase \in {"def", "entry"} BY <1>1, SeenByLayout DEF InCall
<1>4. UNCHANGED <<phase, frame>> BY DEF where
<1>5. PICK s : s = Top OBVIOUS
<1>6. /\ Layout!Top = LayoutScope(s) /\ Layout!Top.args = s.args /\ Layout!Top.arity = s.arity
      /\ Layout!Top.next = s.next
  BY <1>2, <1>5, LayoutTop
<1>7. Current(View) = Shape(s) BY <1>2, <1>5, CurrentIsTop
<1>8. s.arity # NoCall /\ Len(s.args) = s.arity BY <1>1, <1>5, <1>7 DEF InCall, Shape
<1>9. PICK n : n = s.next - Word * s.arity OBVIOUS
<1>10. PICK t : t = [s EXCEPT !.next = n, !.args = <<>>, !.arity = NoCall] OBVIOUS
<1>11. DOMAIN s = {"kind", "vars", "next", "args", "arity"} BY <1>2, <1>5, CurrentIsTop DEF ScopeOK, IsScope
<1>12. t.kind = s.kind /\ t.vars = s.vars /\ t.next = n /\ t.args = <<>> /\ t.arity = NoCall BY ONLY <1>10, <1>11
<1>13. ctx' = WithTop(t) BY <1>5, <1>9, <1>10
<1>14. LayoutContexts(ctx)' = Layout!WithTop(CallLayout(s, n, <<>>, NoCall))
  <2>1. LayoutContexts(ctx)' = Layout!WithTop(CallLayout(Top, t.next, t.args, t.arity)) BY <1>2, <1>5, <1>12, <1>13, CallContexts
  <2>. QED BY <1>5, <1>12, <2>1
<1>15. [Layout!Top EXCEPT !.args = <<>>, !.arity = NoCall, !.next = n] = CallLayout(s, n, <<>>, NoCall)
  <2>. DEFINE Fs == {"kind", "vars", "next", "args", "arity"}
  <2>1. PICK l, a, r : l = Layout!Top /\ a = <<>> /\ r = NoCall OBVIOUS
  <2>2. /\ DOMAIN l = Fs /\ l.kind = s.kind /\ l.vars = LayoutVars(s)
    BY <1>6, <2>1 DEF LayoutScope
  <2>3. PICK m : m = [l EXCEPT !.args = a, !.arity = r, !.next = n] OBVIOUS
  <2>4. m = [f \in Fs |-> IF f = "next" THEN n ELSE IF f = "args" THEN a ELSE IF f = "arity" THEN r ELSE l[f]]
    BY ONLY <2>2, <2>3
  <2>5. PICK k : k = CallLayout(s, n, a, r) OBVIOUS
  <2>6. k = [f \in Fs |-> IF f = "next" THEN n ELSE IF f = "args" THEN a ELSE IF f = "arity" THEN r ELSE l[f]]
    BY <2>2, <2>5 DEF CallLayout
  <2>. QED BY <2>1, <2>3, <2>4, <2>5, <2>6
<1>16. LayoutContexts(ctx)' =
         Layout!WithTop([Layout!Top EXCEPT !.args = <<>>, !.arity = NoCall, !.next = Layout!Top.next - Word * Layout!Top.arity])
  BY <1>6, <1>9, <1>14, <1>15
<1>17. LayoutLeaked' = LayoutLeaked
  <2>1. PICK d, k, m : d = depth /\ k = -(Word * s.arity) /\ m = Word * s.arity OBVIOUS
  <2>2. s.args \in Seq(Nat) /\ s.next \in Int /\ d \in Int
    BY <1>2, <1>5, <2>1, CurrentIsTop DEF NumbersOK, ScopeOK, IsScope
  <2>3. s.arity \in Nat BY <1>8, <2>2
  <2>4. m \in Int /\ k = -m /\ k \in Int BY <2>1, <2>3 DEF Word
  <2>5. d - m = d + k /\ s.next - m = s.next + k BY <2>2, <2>4
  <2>6. depth' = depth + k /\ Top'.next = Top.next + k BY <1>1, <1>5, <2>1, <2>5
  <2>. QED BY <1>2, <1>4, <2>4, <2>6, LeakedKept
<1>18. LayoutPhase' = LayoutPhase BY <1>4 DEF LayoutPhase
<1>19. depth' = depth - Word * Layout!Top.arity BY <1>1, <1>5, <1>6
<1>. QED BY <1>3, <1>4, <1>6, <1>8, <1>16, <1>17, <1>18, <1>19 DEF Layout!FinishCall, Layout!Word, Word, Layout!NoCall, NoCall

-----------------------------------------------------------------------------
(* Blocks and parameters. *)

\* The names that declarations give.
NamesOf(ds) == [i \in DOMAIN ds |-> ds[i].id]

LEMMA NamesOfFacts ==
  ASSUME NEW ds \in Seq(Declarations)
  PROVE  /\ NamesOf(ds) \in Seq(STRING) /\ Len(NamesOf(ds)) = Len(ds) /\ DOMAIN NamesOf(ds) = 1..Len(ds)
         /\ \A i \in 1..Len(ds) : NamesOf(ds)[i] = ds[i].id
         /\ Layout!ToSet(NamesOf(ds)) = Ids(ds)
         /\ DistinctIds(ds) <=> Layout!IsInjective(NamesOf(ds))
PROOF
<1>1. IsSequence(ds) /\ Len(ds) \in Nat /\ DOMAIN ds = 1..Len(ds) BY IsSequenceIn, SequenceBasics
<1>2. \A i \in 1..Len(ds) : ds[i].id \in STRING
  <2>1. \A d \in Declarations : d.id \in STRING BY DEF Declarations
  <2>2. \A i \in 1..Len(ds) : ds[i] \in Declarations BY <1>1
  <2>. QED BY <2>1, <2>2
<1>3. PICK s : s = NamesOf(ds) OBVIOUS
<1>4. s = [i \in 1..Len(ds) |-> ds[i].id] BY <1>1, <1>3 DEF NamesOf
<1>5. s \in Seq(STRING) /\ Len(s) = Len(ds) /\ DOMAIN s = 1..Len(ds) BY <1>1, <1>2, <1>4
<1>6. \A i \in 1..Len(ds) : s[i] = ds[i].id BY <1>4
<1>7. Layout!ToSet(s) = Ids(ds) BY <1>1, <1>5, <1>6 DEF Layout!ToSet, Ids
<1>8. DistinctIds(ds) <=> Layout!IsInjective(s) BY <1>1, <1>5, <1>6 DEF DistinctIds, Layout!IsInjective
<1>. QED BY <1>3, <1>5, <1>6, <1>7, <1>8

LEMMA FirstIndexIs ==
  ASSUME NEW s, NEW n \in Nat, DOMAIN s = 1..n, NEW i \in 1..n, NEW x, s[i] = x, \A j \in 1..(i - 1) : s[j] # x
  PROVE  Layout!FirstIndex(s, x) = i
PROOF
<1>1. PICK k : k = Layout!FirstIndex(s, x) OBVIOUS
<1>2. k \in 1..n /\ s[k] = x /\ \A j \in 1..(k - 1) : s[j] # x BY <1>1 DEF Layout!FirstIndex
<1>3. ~(k < i) /\ ~(i < k) BY <1>2
<1>. QED BY <1>1, <1>2, <1>3

LEMMA BlockLayout ==
  ASSUME NEW ds \in Seq(Declarations), DistinctIds(ds), NEW kind \in {"body", "block"}, NEW n \in Nat
  PROVE  LayoutScope(BlockScope(kind, n, ds))
           = Layout!NewScope(kind, Layout!DeclBindings(NamesOf(ds), n), n + Word * Len(ds))
PROOF
<1>1. IsSequence(ds) /\ Len(ds) \in Nat /\ DOMAIN ds = 1..Len(ds) BY IsSequenceIn, SequenceBasics
<1>2. PICK q : q = NamesOf(ds) OBVIOUS
<1>3. /\ DOMAIN q = 1..Len(ds) /\ (\A i \in 1..Len(ds) : q[i] = ds[i].id) /\ Layout!ToSet(q) = Ids(ds)
  BY <1>2, NamesOfFacts
<1>4. PICK s, f : s = BlockScope(kind, n, ds) /\ f = BlockVars(n, ds) OBVIOUS
<1>5. s.kind = kind /\ s.vars = f /\ s.next = n + Word * Len(ds) /\ s.args = <<>> /\ s.arity = NoCall
  BY <1>4 DEF BlockScope
<1>6. ASSUME NEW x \in Ids(ds) PROVE f[x].off = n + Word * (Layout!FirstIndex(q, x) - 1)
  <2>1. PICK i : i = DeclaredAt(ds, x) OBVIOUS
  <2>2. i \in 1..Len(ds) /\ ds[i].id = x BY <1>1, <2>1, DeclaredAtFacts
  <2>3. \A j \in 1..(i - 1) : q[j] # x
    <3>. SUFFICES ASSUME NEW j \in 1..(i - 1), q[j] = x PROVE FALSE OBVIOUS
    <3>1. j \in 1..Len(ds) /\ j # i BY <1>1, <2>2
    <3>2. ds[j].id = x BY <1>3, <3>1
    <3>. QED BY <1>1, <2>2, <3>1, <3>2 DEF DistinctIds
  <2>4. q[i] = x BY <1>3, <2>2
  <2>5. Layout!FirstIndex(q, x) = i BY <1>1, <1>3, <2>2, <2>3, <2>4, FirstIndexIs
  <2>6. f[x] = [off |-> n + Word * (i - 1), type |-> ds[i].type] BY <1>4, <2>1 DEF BlockVars
  <2>. QED BY <2>5, <2>6
<1>7. DOMAIN f = Ids(ds) BY <1>4 DEF BlockVars
<1>8. LayoutVars(s) = [x \in Binders |-> IF x \in Ids(ds) THEN n + Word * (Layout!FirstIndex(q, x) - 1) ELSE 0]
  BY <1>5, <1>6, <1>7 DEF LayoutVars
<1>9. Layout!DeclBindings(q, n) = [x \in Binders |-> IF x \in Ids(ds) THEN n + Word * (Layout!FirstIndex(q, x) - 1) ELSE 0]
  BY <1>3 DEF Layout!DeclBindings, Layout!AllNames, Binders, Layout!Word, Word, Layout!Unbound
<1>10. LayoutScope(s) = [kind |-> kind, vars |-> Layout!DeclBindings(q, n), next |-> n + Word * Len(ds),
                         args |-> <<>>, arity |-> NoCall]
  BY <1>5, <1>8, <1>9 DEF LayoutScope
<1>. QED BY <1>2, <1>4, <1>10 DEF Layout!NewScope, Layout!NoCall, NoCall

LEMMA ParamLayout ==
  ASSUME NEW ps \in Seq(Declarations)
  PROVE  LayoutScope(ParamScope(ps)) = Layout!NewScope("params", Layout!ParamBindings(NamesOf(ps)), 12)
PROOF
<1>1. IsSequence(ps) /\ Len(ps) \in Nat /\ DOMAIN ps = 1..Len(ps) BY IsSequenceIn, SequenceBasics
<1>2. PICK q : q = NamesOf(ps) OBVIOUS
<1>3. /\ DOMAIN q = 1..Len(ps) /\ (\A i \in 1..Len(ps) : q[i] = ps[i].id) /\ Layout!ToSet(q) = Ids(ps)
  BY <1>2, NamesOfFacts
<1>4. PICK s, f : s = ParamScope(ps) /\ f = ParamVars(ps) OBVIOUS
<1>5. s.kind = "params" /\ s.vars = f /\ s.next = 12 /\ s.args = <<>> /\ s.arity = NoCall
  BY <1>4 DEF ParamScope
<1>6. ASSUME NEW x \in Ids(ps) PROVE f[x].off = -4 - Word * Layout!FirstIndex(q, x)
  <2>1. PICK T : T = {j \in DOMAIN ps : ps[j].id = x} OBVIOUS
  <2>2. T \in SUBSET Nat /\ T # {} BY <1>1, <2>1 DEF Ids
  <2>3. PICK i : i = Min(T) OBVIOUS
  <2>4. i \in T /\ \A y \in T : i <= y BY <2>2, <2>3, SmallestElement
  <2>5. i \in 1..Len(ps) /\ q[i] = x BY <1>1, <1>3, <2>1, <2>4
  <2>6. \A j \in 1..(i - 1) : q[j] # x
    <3>. SUFFICES ASSUME NEW j \in 1..(i - 1), q[j] = x PROVE FALSE OBVIOUS
    <3>1. j \in 1..Len(ps) /\ j < i BY <1>1, <2>5
    <3>2. ps[j].id = x BY <1>3, <3>1
    <3>3. j \in T BY <1>1, <2>1, <3>1, <3>2
    <3>. QED BY <1>1, <2>4, <2>5, <3>1, <3>3
  <2>7. Layout!FirstIndex(q, x) = i BY <1>1, <1>3, <2>5, <2>6, FirstIndexIs
  <2>8. f[x] = [off |-> -4 - Word * i, type |-> ps[i].type] BY <1>4, <2>1, <2>3 DEF ParamVars
  <2>. QED BY <2>7, <2>8
<1>7. DOMAIN f = Ids(ps) BY <1>4 DEF ParamVars
<1>8. LayoutVars(s) = [x \in Binders |-> IF x \in Ids(ps) THEN -4 - Word * Layout!FirstIndex(q, x) ELSE 0]
  BY <1>5, <1>6, <1>7 DEF LayoutVars
<1>9. Layout!ParamBindings(q) = [x \in Binders |-> IF x \in Ids(ps) THEN -4 - Word * Layout!FirstIndex(q, x) ELSE 0]
  BY <1>3 DEF Layout!ParamBindings, Layout!ParamOffset, Layout!AllNames, Binders, Layout!Word, Word, Layout!Unbound
<1>10. LayoutScope(s) = [kind |-> "params", vars |-> Layout!ParamBindings(q), next |-> 12, args |-> <<>>, arity |-> NoCall]
  BY <1>5, <1>8, <1>9 DEF LayoutScope
<1>. QED BY <1>2, <1>4, <1>10 DEF Layout!NewScope, Layout!NoCall, NoCall

LEMMA RootLayout == LayoutScope(RootScope) = Layout!RootScope /\ LayoutContexts(RootContext) = <<Layout!RootScope>>
PROOF
<1>1. PICK s : s = RootScope OBVIOUS
<1>2. s.kind = "root" /\ s.vars = <<>> /\ s.next = 12 /\ s.args = <<>> /\ s.arity = NoCall BY <1>1 DEF RootScope
<1>3. DOMAIN s.vars = {} BY <1>2
<1>4. LayoutVars(s) = [x \in Binders |-> 0] BY <1>2, <1>3 DEF LayoutVars
<1>5. LayoutScope(s) = [kind |-> "root", vars |-> [x \in Binders |-> 0], next |-> 12, args |-> <<>>, arity |-> NoCall]
  BY <1>2, <1>4 DEF LayoutScope
<1>6. LayoutScope(s) = Layout!RootScope
  BY <1>5 DEF Layout!RootScope, Layout!NewScope, Layout!AllNames, Binders, Layout!Unbound, Layout!NoCall, NoCall
<1>7. PICK c : c = RootContext OBVIOUS
<1>8. IsSequence(c) /\ Len(c) = 1 /\ c[1] = s BY <1>1, <1>7, RootFacts
<1>9. PICK e, q : e = LayoutContexts(c) /\ q = Layout!RootScope OBVIOUS
<1>10. IsSequence(e) /\ Len(e) = 1 /\ e[1] = q BY <1>6, <1>8, <1>9, LayoutSequence
<1>11. IsSequence(<<q>>) /\ Len(<<q>>) = 1 /\ <<q>>[1] = q BY DEF IsSequence, ToSet
<1>12. \A k \in 1..Len(e) : e[k] = <<q>>[k] BY <1>10, <1>11
<1>13. e = <<q>> BY ONLY <1>10, <1>11, <1>12, SameSequence
<1>. QED BY <1>1, <1>6, <1>7, <1>9, <1>13

LEMMA LayoutVisitsBlock ==
  ASSUME AnyProgram, IInv, VisitBlock
  PROVE  Layout!EnterBody \/ Layout!EnterBlock
PROOF
<1>1. /\ Task.decls \in Seq(Declarations)
      /\ IF inTop THEN InFrame(View) /\ Top.kind \in {"root", "params"} ELSE AtStatement(View)
      /\ \/ phase' = "error"
         \/ /\ DistinctIds(Task.decls) /\ (inTop \/ Task.decls = <<>>)
            /\ ctx' = Append(ctx, BlockScope(IF inTop THEN "body" ELSE "block", Top.next, Task.decls))
            /\ depth' = depth + Word * Len(Task.decls)
            /\ Top'.next = Top.next + Word * Len(Task.decls)
  BY VisitBlockStep
<1>2. phase = "generating" BY DEF VisitBlock, At
<1>3. ContextsOK /\ NumbersOK BY <1>2, HeadTask
<1>4. inTop \in BOOLEAN BY <1>3 DEF NumbersOK
<1>5. LayoutPhase \in {"def", "entry"} BY <1>1, <1>2, SeenByLayout DEF AtStatement
<1>6. PICK ds, n, q, c, d : ds = Task.decls /\ n = Top.next /\ q = NamesOf(ds) /\ c = ctx /\ d = ctx' OBVIOUS
<1>7. /\ Layout!Top.kind = Top.kind /\ Layout!Top.next = n /\ n \in Nat
      /\ Len(LayoutContexts(ctx)) \in Nat /\ IsSequence(c)
  BY <1>3, <1>6, LayoutTop, CurrentIsTop DEF ScopeOK, IsScope, ContextsOK
<1>8. /\ q \in Seq(STRING) /\ Len(q) = Len(ds) /\ (DistinctIds(ds) <=> Layout!IsInjective(q)) /\ Len(ds) \in Nat
  BY <1>1, <1>6, NamesOfFacts
<1>9. q \in NameLists BY <1>8 DEF AnyProgram
<1>10. (phase' = "error" /\ Fail /\ ~(DistinctIds(ds) /\ (inTop \/ ds = <<>>))) \/ (phase' = phase /\ frame' = frame)
  BY <1>2, <1>6 DEF VisitBlock, Fail
<1>11. CASE phase' = "error"
  <2>1. Fail /\ ~(DistinctIds(ds) /\ (inTop \/ ds = <<>>)) BY <1>2, <1>10, <1>11
  <2>2. LayoutPhase' = "error" /\ UNCHANGED <<frame, LayoutContexts(ctx), depth, LayoutLeaked>> BY <2>1, LayoutFails
  <2>3. CASE inTop
    <3>1. ~Layout!IsInjective(q) BY <1>8, <2>1, <2>3
    <3>2. Layout!Top.kind \in {"root", "params"} BY <1>1, <1>7, <2>3
    <3>. QED BY <1>5, <1>9, <2>2, <3>1, <3>2 DEF Layout!EnterBody
  <2>4. CASE ~inTop
    <3>1. Layout!AtStatement BY <1>1, <1>2, <2>4, SeenByLayout
    <3>2. Len(LayoutContexts(ctx)) \in Nestings BY <1>7 DEF AnyProgram
    <3>. QED BY <1>5, <2>2, <3>1, <3>2 DEF Layout!EnterBlock
  <2>. QED BY <2>3, <2>4
<1>12. CASE phase' # "error"
  <2>1. PICK kind, s : kind = (IF inTop THEN "body" ELSE "block") /\ s = BlockScope(kind, n, ds) OBVIOUS
  <2>2. DistinctIds(ds) /\ (inTop \/ ds = <<>>) /\ d = Append(c, s) BY <1>1, <1>6, <1>12, <2>1
  <2>3. depth' = depth + Word * Len(ds) /\ Top'.next = n + Word * Len(ds) BY <1>1, <1>6, <1>12
  <2>4. phase' = phase /\ frame' = frame BY <1>10, <1>12
  <2>5. kind \in {"body", "block"} BY <2>1
  <2>6. LayoutScope(s) = Layout!NewScope(kind, Layout!DeclBindings(q, n), n + Word * Len(ds))
    BY <1>1, <1>6, <1>7, <2>1, <2>2, <2>5, BlockLayout
  <2>7. LayoutContexts(d) = Append(LayoutContexts(c), LayoutScope(s)) BY <1>7, <2>2, LayoutAppend
  <2>8. LayoutContexts(ctx)' = Layout!OpenBlock(kind, q)
    BY <1>6, <1>7, <1>8, <2>6, <2>7 DEF Layout!OpenBlock, Layout!Word, Word
  <2>9. LayoutLeaked' = LayoutLeaked
    <3>1. PICK k : k = Word * Len(ds) OBVIOUS
    <3>2. k \in Int BY <1>8, <3>1 DEF Word
    <3>. QED BY <1>3, <1>6, <2>3, <2>4, <3>1, <3>2, LeakedKept
  <2>10. LayoutPhase' = LayoutPhase BY <2>4 DEF LayoutPhase
  <2>11. CASE inTop
    <3>1. Layout!Top.kind \in {"root", "params"} BY <1>1, <1>7, <2>11
    <3>2. Layout!IsInjective(q) BY <1>8, <2>2
    <3>3. LayoutContexts(ctx)' = Layout!OpenBlock("body", q) BY <2>1, <2>8, <2>11
    <3>4. depth' = depth + Layout!Word * Len(q) BY <1>8, <2>3 DEF Layout!Word, Word
    <3>. QED BY <1>5, <1>9, <2>4, <2>9, <2>10, <3>1, <3>2, <3>3, <3>4 DEF Layout!EnterBody
  <2>12. CASE ~inTop
    <3>1. Layout!AtStatement BY <1>1, <1>2, <2>12, SeenByLayout
    <3>2. Len(LayoutContexts(ctx)) \in Nestings BY <1>7 DEF AnyProgram
    <3>3. ds = <<>> /\ Len(ds) = 0 BY <2>2, <2>12
    <3>4. q = <<>>
      <4>1. IsSequence(q) /\ Len(q) = 0 BY <1>8, <3>3, IsSequenceIn
      <4>. QED BY <4>1, SequenceBasics
    <3>5. LayoutContexts(ctx)' = Layout!OpenBlock("block", <<>>) BY <2>1, <2>8, <2>12, <3>4
    <3>6. depth' = depth
      <4>1. depth \in Int BY <1>3 DEF NumbersOK
      <4>. QED BY <2>3, <3>3, <4>1 DEF Word
    <3>. QED BY <1>5, <2>4, <2>9, <2>10, <3>1, <3>2, <3>5, <3>6 DEF Layout!EnterBlock
  <2>. QED BY <2>11, <2>12
<1>. QED BY <1>11, <1>12

LEMMA LayoutLeavesBlock ==
  ASSUME IInv, EndBlock
  PROVE  Layout!LeaveBlock \/ UNCHANGED Layout!vars
PROOF
<1>1. /\ AtStatement(View) /\ depth' = depth /\ Top'.next = Top.next
      /\ IF Task.wasTop THEN ctx' = ctx ELSE Top.kind = "block" /\ ctx' = Front(ctx)
  BY EndBlockStep
<1>2. phase = "generating" /\ UNCHANGED <<phase, frame>> BY DEF EndBlock, At
<1>3. ContextsOK BY <1>2, HeadTask
<1>4. CASE Task.wasTop BY <1>1, <1>2, <1>4, LayoutStutters
<1>5. CASE ~Task.wasTop
  <2>1. Top.kind = "block" /\ ctx' = Front(ctx) BY <1>1, <1>5
  <2>2. LayoutContexts(ctx)' = Layout!CloseScope BY <1>3, <2>1, LayoutLeaves
  <2>3. LayoutPhase \in {"def", "entry"} /\ Layout!AtStatement BY <1>1, <1>2, SeenByLayout DEF AtStatement
  <2>4. Layout!Top.kind = "block" BY <1>3, <2>1, LayoutTop
  <2>5. LayoutLeaked' = LayoutLeaked /\ LayoutPhase' = LayoutPhase BY <1>1, <1>2 DEF LayoutLeaked, LayoutPhase
  <2>. QED BY <1>1, <1>2, <2>2, <2>3, <2>4, <2>5 DEF Layout!LeaveBlock
<1>. QED BY <1>4, <1>5

-----------------------------------------------------------------------------
(* Definitions and the program. *)

LEMMA PairIsAppend == \A a, b : <<a, b>> = Append(<<a>>, b)
PROOF
<1>. TAKE a, b
<1>. QED OBVIOUS

LEMMA LayoutDefines ==
  ASSUME AnyProgram, IInv, VisitFunctionDef
  PROVE  Layout!DefineFunction
PROOF
<1>1. /\ BetweenDefinitions(View) /\ depth' = 2 * Word
      /\ Task \in FunctionDefs(AllTrees) /\ ctx' = Append(RootContext, ParamScope(Task.parameters))
  BY VisitFunctionDefStep
<1>2. phase = "generating" /\ phase' = phase BY DEF VisitFunctionDef, At
<1>3. NumbersOK BY <1>2, HeadTask
<1>4. LayoutPhase = "idle" /\ frame.begun \in Nat BY <1>1, <1>2, <1>3, SeenByLayout DEF NumbersOK
<1>5. PICK ps, q, s, c, d, e : ps = Task.parameters /\ q = NamesOf(ps) /\ s = ParamScope(ps)
                               /\ c = RootContext /\ d = ctx' /\ e = frame'
  OBVIOUS
<1>6. ps \in Seq(Declarations) BY <1>1, <1>5, FunctionParts
<1>7. q \in NameLists BY <1>5, <1>6, NamesOfFacts DEF AnyProgram
<1>8. IsSequence(c) /\ d = Append(c, s) /\ LayoutContexts(c) = <<Layout!RootScope>>
  BY <1>1, <1>5, RootFacts, RootLayout
<1>9. LayoutContexts(d) = Append(<<Layout!RootScope>>, LayoutScope(s)) BY <1>8, LayoutAppend
<1>10. LayoutScope(s) = Layout!NewScope("params", Layout!ParamBindings(q), 12) BY <1>5, <1>6, ParamLayout
<1>11. Layout!RootScope.next = 12 BY DEF Layout!RootScope, Layout!NewScope
<1>12. LayoutContexts(ctx)' = <<Layout!RootScope, Layout!NewScope("params", Layout!ParamBindings(q), Layout!RootScope.next)>>
  <2>1. PICK a, b : a = Layout!RootScope /\ b = Layout!NewScope("params", Layout!ParamBindings(q), 12) OBVIOUS
  <2>2. <<a, b>> = Append(<<a>>, b) BY ONLY PairIsAppend
  <2>. QED BY <1>5, <1>9, <1>10, <1>11, <2>1, <2>2
<1>13. e.kind = "def" /\ e.params = q /\ e.begun = frame.begun + 1
  <2>1. PICK r, m : r = [i \in DOMAIN ps |-> ps[i].id] /\ m = frame.begun + 1 OBVIOUS
  <2>2. e = [kind |-> "def", params |-> r, begun |-> m] BY <1>5, <2>1 DEF VisitFunctionDef
  <2>3. r = q BY <1>5, <2>1 DEF NamesOf
  <2>. QED BY <2>1, <2>2, <2>3
<1>14. LayoutPhase' = "def" BY <1>2, <1>5, <1>13 DEF LayoutPhase
<1>15. depth' = 8 BY <1>1 DEF Word
<1>16. LayoutLeaked' = 0
  <2>1. d[Len(d)] = s
    <3>1. Append(c, s)[Len(c) + 1] = s /\ Len(Append(c, s)) = Len(c) + 1 BY <1>8, AppendSequence
    <3>. QED BY <1>8, <3>1
  <2>2. Top' = s BY <1>5, <2>1 DEF Top
  <2>3. s.next = 12 BY <1>5 DEF ParamScope
  <2>4. Top'.next = 12 BY <2>2, <2>3
  <2>. QED BY <1>5, <1>13, <1>15, <2>4 DEF LayoutLeaked, Word
<1>17. frame.begun \in DefCounts BY <1>4 DEF AnyProgram
<1>. QED BY <1>4, <1>5, <1>7, <1>12, <1>13, <1>14, <1>15, <1>16, <1>17 DEF Layout!DefineFunction

LEMMA LayoutFinishesFunction ==
  ASSUME IInv, EndFunctionDef
  PROVE  Layout!FinishFunction
PROOF
<1>1. AfterBody(View) /\ frame.kind = "def" /\ depth' = 0 /\ ctx' = Front(ctx) BY EndFunctionDefStep
<1>2. phase = "generating" /\ phase' = phase BY DEF EndFunctionDef, At
<1>3. ContextsOK /\ NumbersOK BY <1>2, HeadTask
<1>4. Current(View) = Shape(Top) BY <1>3, CurrentIsTop
<1>5. Layout!Top.kind = "body" /\ Layout!Top.arity = NoCall BY <1>1, <1>3, <1>4, LayoutTop DEF AfterBody, Shape
<1>6. Layout!AtStatement BY <1>5 DEF Layout!AtStatement, Layout!NoCall, NoCall
<1>7. LayoutContexts(ctx)' = Layout!CloseScope BY <1>1, <1>3, LayoutLeaves
<1>8. PICK d, e : d = frame /\ e = frame' OBVIOUS
<1>9. e.kind = "none" /\ e.params = <<>> /\ e.begun = d.begun
  <2>1. DOMAIN d = {"kind", "params", "begun"} BY <1>3, <1>8 DEF NumbersOK
  <2>2. e = [d EXCEPT !.kind = "none", !.params = <<>>] BY <1>8 DEF EndFunctionDef
  <2>. QED BY ONLY <2>1, <2>2
<1>10. LayoutPhase = "def" /\ LayoutPhase' = "idle" /\ LayoutLeaked' = 0
  BY <1>1, <1>2, <1>8, <1>9 DEF LayoutPhase, LayoutLeaked
<1>. QED BY <1>1, <1>5, <1>6, <1>7, <1>8, <1>9, <1>10 DEF Layout!FinishFunction

LEMMA LayoutStartsEntry ==
  ASSUME IInv, VisitEntry
  PROVE  Layout!StartEntry
PROOF
<1>1. BetweenDefinitions(View) /\ depth' = 2 * Word BY VisitEntryStep
<1>2. phase = "generating" /\ UNCHANGED <<phase, ctx>> BY DEF VisitEntry, At
<1>3. ContextsOK /\ NumbersOK BY <1>2, HeadTask
<1>4. LayoutPhase = "idle" BY <1>1, <1>2, SeenByLayout
<1>5. PICK d, e : d = frame /\ e = frame' OBVIOUS
<1>6. e.kind = "entry" /\ e.params = <<>> /\ e.begun = d.begun
  <2>1. DOMAIN d = {"kind", "params", "begun"} BY <1>3, <1>5 DEF NumbersOK
  <2>2. e = [d EXCEPT !.kind = "entry", !.params = <<>>] BY <1>5 DEF VisitEntry
  <2>. QED BY ONLY <2>1, <2>2
<1>7. LayoutPhase' = "entry" BY <1>2, <1>5, <1>6 DEF LayoutPhase
<1>8. depth' = 8 BY <1>1 DEF Word
<1>9. LayoutLeaked' = 0
  <2>1. Top' = Top BY <1>2 DEF Top
  <2>2. Top.next = 12 BY <1>1, <1>3, CurrentIsTop DEF BetweenDefinitions, Shape
  <2>3. Top'.next = 12 BY <2>1, <2>2
  <2>. QED BY <1>5, <1>6, <1>8, <2>3 DEF LayoutLeaked, Word
<1>. QED BY <1>2, <1>4, <1>5, <1>6, <1>7, <1>8, <1>9 DEF Layout!StartEntry

LEMMA LayoutFinishesEntry ==
  ASSUME IInv, EndEntry
  PROVE  Layout!FinishEntry
PROOF
<1>1. AfterBody(View) /\ frame.kind = "entry" /\ depth' = 0 BY EndEntryStep
<1>2. phase = "generating" /\ phase' = "done" /\ ctx' = ctx BY DEF EndEntry, At
<1>3. ContextsOK /\ NumbersOK BY <1>2, HeadTask
<1>4. Current(View) = Shape(Top) BY <1>3, CurrentIsTop
<1>5. Layout!Top.kind = "body" /\ Layout!Top.arity = NoCall BY <1>1, <1>3, <1>4, LayoutTop DEF AfterBody, Shape
<1>6. Layout!AtStatement BY <1>5 DEF Layout!AtStatement, Layout!NoCall, NoCall
<1>7. PICK d, e : d = frame /\ e = frame' OBVIOUS
<1>8. e.kind = "none" /\ e.params = d.params /\ e.begun = d.begun
  <2>1. DOMAIN d = {"kind", "params", "begun"} BY <1>3, <1>7 DEF NumbersOK
  <2>2. e = [d EXCEPT !.kind = "none"] BY <1>7 DEF EndEntry
  <2>. QED BY ONLY <2>1, <2>2
<1>9. LayoutPhase = "entry" /\ LayoutPhase' = "done" /\ LayoutLeaked' = 0
  BY <1>1, <1>2, <1>7, <1>8 DEF LayoutPhase, LayoutLeaked
<1>. QED BY <1>1, <1>2, <1>5, <1>6, <1>7, <1>8, <1>9 DEF Layout!FinishEntry

-----------------------------------------------------------------------------
LEMMA LayoutStep ==
  ASSUME AnyProgram, IInv, [Next]_vars
  PROVE  [Layout!Next]_Layout!vars
PROOF
<1>1. CASE GenerateCode BY <1>1, LayoutBegins
<1>2. CASE Step
  <2>1. CASE \/ EmitCode \/ SaveTmp \/ VisitConstant \/ LoadPath \/ ApplyOperator \/ VisitNot
             \/ VisitAssignment \/ StoreValue \/ VisitConditional \/ VisitLoop \/ NextArgument
    BY <2>1, LayoutQuiet
  <2>2. CASE VisitAccessPath \/ FollowField BY <2>2, LayoutPaths DEF Layout!Next
  <2>3. CASE VisitTypeDef \/ AddFunction BY <2>3, LayoutDefinitions DEF Layout!Next
  <2>4. CASE FreeTmp BY <2>4, LayoutFreesTmp DEF Layout!Next
  <2>5. CASE VisitBinary \/ AssignTo BY <2>5, LayoutOpensTmp DEF Layout!Next
  <2>6. CASE VisitNew BY <2>6, LayoutVisitsNew DEF Layout!Next
  <2>7. CASE VisitCall BY <2>7, LayoutCalls DEF Layout!Next
  <2>8. CASE PushArg BY <2>8, LayoutPushes DEF Layout!Next
  <2>9. CASE DoCall BY <2>9, LayoutFinishesCall DEF Layout!Next
  <2>10. CASE VisitBlock BY <2>10, LayoutVisitsBlock DEF Layout!Next
  <2>11. CASE EndBlock BY <2>11, LayoutLeavesBlock DEF Layout!Next
  <2>12. CASE VisitFunctionDef BY <2>12, LayoutDefines DEF Layout!Next
  <2>13. CASE EndFunctionDef BY <2>13, LayoutFinishesFunction DEF Layout!Next
  <2>14. CASE VisitEntry BY <2>14, LayoutStartsEntry DEF Layout!Next
  <2>15. CASE EndEntry BY <2>15, LayoutFinishesEntry DEF Layout!Next
  <2>. QED BY <1>2, <2>1, <2>2, <2>3, <2>4, <2>5, <2>6, <2>7, <2>8, <2>9, <2>10, <2>11, <2>12, <2>13, <2>14, <2>15 DEF Step
<1>3. CASE UNCHANGED vars
  BY <1>3, LayoutStutters DEF vars, where
<1>. QED BY <1>1, <1>2, <1>3 DEF Next, Idle

LEMMA LayoutStarts == Init => Layout!Init
PROOF
<1>. SUFFICES ASSUME Init PROVE Layout!Init OBVIOUS
<1>1. PICK d : d = frame OBVIOUS
<1>2. d.kind = "none" /\ d.params = <<>> /\ d.begun = 0
  <2>1. d = [kind |-> "none", params |-> <<>>, begun |-> 0] BY <1>1 DEF Init
  <2>. QED BY <2>1
<1>3. phase = "ready" /\ ctx = RootContext /\ depth = 0 BY DEF Init
<1>4. LayoutPhase = "idle" /\ LayoutLeaked = 0 BY <1>1, <1>2, <1>3 DEF LayoutPhase, LayoutLeaked
<1>5. LayoutContexts(ctx) = <<Layout!RootScope>> BY <1>3, RootLayout
<1>. QED BY <1>1, <1>2, <1>3, <1>4, <1>5 DEF Layout!Init

\* For every program, the code generator keeps to the frame discipline: the
\* property the runs check, with the bounds of FrameLayout lifted.
THEOREM CodeFollowsLayout ==
  ASSUME AnyProgram
  PROVE  Spec => FollowsLayout
PROOF
<1>1. ASSUME IInv, [Next]_vars PROVE IInv' BY <1>1, KeepsInvariant DEF AnyProgram
<1>2. ASSUME IInv, [Next]_vars PROVE [Layout!Next]_Layout!vars BY <1>2, LayoutStep
<1>. QED BY StartsRight, LayoutStarts, <1>1, <1>2, PTL DEF Spec, FollowsLayout, Layout!Spec

-----------------------------------------------------------------------------
(* The bits of a word. *)

\* h is w halved, again and again, b times.
Halvings(h, w, b) ==
  /\ h[0] = w
  /\ \A k \in 1..b : h[k] = h[k - 1] \div 2

LEMMA BitHalvings ==
  ASSUME NEW w, NEW b \in Nat
  PROVE  \E h : Halvings(h, w, b) /\ (Bit(w, b) <=> h[b] % 2 = 1)
PROOF
<1>. DEFINE ValueAt(f, k) == IF k = 0 THEN w ELSE f[k - 1] \div 2
            T == {n \in 0..b : \E f : f = [k \in 0..n |-> ValueAt(f, k)]}
<1>. HIDE DEF ValueAt
<1>1. 0 \in T
  <2>1. PICK f : f = [k \in 0..0 |-> w] OBVIOUS
  <2>2. f = [k \in 0..0 |-> ValueAt(f, k)] BY <2>1 DEF ValueAt
  <2>. QED BY <2>2
<1>2. ASSUME NEW n \in 0..(b - 1), n \in T PROVE n + 1 \in T
  <2>1. PICK f : f = [k \in 0..n |-> ValueAt(f, k)] BY <1>2
  <2>2. PICK g : g = [k \in 0..(n + 1) |-> IF k = n + 1 THEN f[n] \div 2 ELSE f[k]] OBVIOUS
  <2>3. g[n + 1] = f[n] \div 2 /\ \A k \in 0..n : g[k] = f[k] BY <2>2
  <2>4. ASSUME NEW k \in 0..(n + 1) PROVE g[k] = ValueAt(g, k)
    <3>1. CASE k = n + 1
      <4>1. g[k - 1] = f[n] /\ k # 0 BY <2>3, <3>1
      <4>. QED BY <2>3, <3>1, <4>1 DEF ValueAt
    <3>2. CASE k # n + 1
      <4>1. f[k] = ValueAt(f, k) BY <2>1, <3>2
      <4>2. k = 0 \/ k - 1 \in 0..n BY <3>2
      <4>. QED BY <2>3, <3>2, <4>1, <4>2 DEF ValueAt
    <3>. QED BY <3>1, <3>2
  <2>5. g = [k \in 0..(n + 1) |-> g[k]] BY ONLY <2>2
  <2>6. g = [k \in 0..(n + 1) |-> ValueAt(g, k)] BY <2>4, <2>5
  <2>. QED BY <2>6
<1>. HIDE DEF T
<1>3. 0..b \subseteq T BY <1>1, <1>2, InductionUpTo
<1>4. b \in T BY <1>3
<1>5. \E f : f = [k \in 0..b |-> ValueAt(f, k)] BY <1>4 DEF T
<1>6. PICK h : h = CHOOSE g : g = [k \in 0..b |-> ValueAt(g, k)] OBVIOUS
<1>7. h = [k \in 0..b |-> ValueAt(h, k)] BY <1>5, <1>6
<1>8. Bit(w, b) <=> h[b] % 2 = 1 BY <1>6 DEF Bit, ValueAt
<1>9. h[0] = w BY <1>7 DEF ValueAt
<1>10. ASSUME NEW k \in 1..b PROVE h[k] = h[k - 1] \div 2
  <2>1. k \in 0..b /\ k # 0 OBVIOUS
  <2>. QED BY <1>7, <2>1 DEF ValueAt
<1>. QED BY <1>8, <1>9, <1>10 DEF Halvings

\* A bit of the word of S is set if it is one of S.
LEMMA BitOfWord ==
  ASSUME NEW S, NEW b \in 0..31
  PROVE  Bit(WordOf(S), b) <=> b \in S
PROOF
<1>1. PICK f : BitStages(f, S) /\ WordOf(S) = f[0] BY WordOfStages
<1>2. PICK w : w = WordOf(S) OBVIOUS
<1>3. PICK h : Halvings(h, w, b) /\ (Bit(w, b) <=> h[b] % 2 = 1) BY BitHalvings
<1>4. ASSUME NEW k \in 0..30
      PROVE  f[k] \div 2 = f[k + 1] /\ (f[k] % 2 = 1 <=> k \in S)
  <2>1. f[k + 1] \in Int /\ f[k] = (IF k \in S THEN 1 ELSE 0) + 2 * f[k + 1]
    <3>1. k + 1 \in 0..31 OBVIOUS
    <3>. QED BY <1>1, <3>1 DEF BitStages
  <2>2. PICK x, y : x = f[k] /\ y = f[k + 1] OBVIOUS
  <2>3. CASE k \in S
    <3>1. y \in Int /\ x = 1 + 2 * y BY <2>1, <2>2, <2>3
    <3>2. x \div 2 = y /\ x % 2 = 1 BY ONLY <3>1
    <3>. QED BY <2>2, <2>3, <3>2
  <2>4. CASE k \notin S
    <3>1. y \in Int /\ x = 2 * y BY <2>1, <2>2, <2>4
    <3>2. x \div 2 = y /\ x % 2 = 0 BY ONLY <3>1
    <3>. QED BY <2>2, <2>4, <3>2
  <2>. QED BY <2>3, <2>4
<1>. DEFINE T == {k \in 0..b : h[k] = f[k]}
<1>5. 0 \in T BY <1>1, <1>2, <1>3 DEF Halvings
<1>6. ASSUME NEW k \in 0..(b - 1), k \in T PROVE k + 1 \in T
  <2>1. k + 1 \in 1..b /\ (k + 1) - 1 = k /\ k \in 0..30 /\ k + 1 \in 0..b OBVIOUS
  <2>2. h[k + 1] = h[k] \div 2 BY <1>3, <2>1 DEF Halvings
  <2>. QED BY <1>4, <1>6, <2>1, <2>2
<1>. HIDE DEF T
<1>7. b \in T BY <1>5, <1>6, InductionUpTo
<1>8. h[b] = f[b] BY <1>7 DEF T
<1>9. CASE b = 31
  <2>1. f[b] = (IF b \in S THEN -1 ELSE 0) BY <1>1, <1>9 DEF BitStages
  <2>2. PICK x : x = f[b] OBVIOUS
  <2>3. CASE b \in S
    <3>1. PICK y : y \in Int /\ x = 1 + 2 * y
      <4>1. x = 1 + 2 * (-1) BY <2>1, <2>2, <2>3
      <4>. QED BY <4>1
    <3>2. x % 2 = 1 BY ONLY <3>1
    <3>. QED BY <1>2, <1>3, <1>8, <2>2, <2>3, <3>2
  <2>4. CASE b \notin S
    <3>1. x % 2 = 0 BY <2>1, <2>2, <2>4
    <3>. QED BY <1>2, <1>3, <1>8, <2>2, <2>4, <3>1
  <2>. QED BY <2>3, <2>4
<1>10. CASE b # 31
  <2>1. b \in 0..30 BY <1>10
  <2>. QED BY <1>2, <1>3, <1>4, <1>8, <2>1
<1>. QED BY <1>9, <1>10

\* Bit b of the word of ds is set if the declaration after the first b is
\* there, and not an int.
LEMMA BitOfPointer ==
  ASSUME NEW ds, IsSequence(ds), Len(ds) <= 32, NEW b \in 0..31
  PROVE  Bit(PointerBits(ds), b) <=> b < Len(ds) /\ ~IsIntType(ds[b + 1].type)
PROOF
<1>1. Len(ds) \in Nat /\ DOMAIN ds = 1..Len(ds) BY SequenceBasics
<1>2. PICK S : S = {(k - 1) % 32 : k \in Pointers(ds)} OBVIOUS
<1>3. b \in S <=> b + 1 \in Pointers(ds)
  <2>1. \A k \in Pointers(ds) : k \in 1..32 /\ (k - 1) % 32 = k - 1
    <3>. SUFFICES ASSUME NEW k \in Pointers(ds) PROVE k \in 1..32 /\ (k - 1) % 32 = k - 1 OBVIOUS
    <3>1. k \in 1..Len(ds) BY <1>1 DEF Pointers
    <3>2. k \in 1..32 BY <1>1, <3>1
    <3>. QED BY <3>2
  <2>2. ASSUME b \in S PROVE b + 1 \in Pointers(ds)
    <3>1. PICK k \in Pointers(ds) : b = (k - 1) % 32 BY <1>2, <2>2
    <3>2. k \in 1..32 /\ b = k - 1 BY <2>1, <3>1
    <3>3. k = b + 1 BY ONLY <3>2
    <3>. QED BY <3>3
  <2>3. ASSUME b + 1 \in Pointers(ds) PROVE b \in S
    <3>1. ((b + 1) - 1) % 32 = b BY <2>1, <2>3
    <3>. QED BY <1>2, <2>3, <3>1
  <2>. QED BY <2>2, <2>3
<1>4. b + 1 \in Pointers(ds) <=> b < Len(ds) /\ ~IsIntType(ds[b + 1].type) BY <1>1 DEF Pointers
<1>5. PointerBits(ds) = WordOf(S) BY <1>2 DEF PointerBits, WordBits
<1>6. Bit(WordOf(S), b) <=> b \in S BY BitOfWord
<1>. QED BY <1>3, <1>4, <1>5, <1>6

-----------------------------------------------------------------------------
(* The words of root information in the code. *)

Pushes(i) == i.op = "pushl"

EndsInPush(is) == is # <<>> /\ Pushes(is[Len(is)])

\* The n-th instruction is the last to follow a pushl with one, and the two
\* push these words.
NotedAt(is, n, args, locals) ==
  /\ n \in 4..Len(is)
  /\ Pushes(is[n - 1]) /\ is[n - 1].src = Imm(args)
  /\ Pushes(is[n]) /\ is[n].src = Imm(locals)
  /\ \A i \in (n + 1)..Len(is) : ~(Pushes(is[i - 1]) /\ Pushes(is[i]))

\* The last root information is that of a frame with these locals, and with
\* these parameters if it is one of a function.
Noted(is, kind, ps, ds) ==
  \E n, args : NotedAt(is, n, args, PointerBits(ds)) /\ (kind = "def" => args = PointerBits(ps))

\* Each pushl is followed by another instruction.
Unpaired(is) == IsSequence(is) /\ \A i \in 1..Len(is) : Pushes(is[i]) => i < Len(is) /\ ~Pushes(is[i + 1])

\* No pushl at all.
Pushless(is) == IsSequence(is) /\ \A i \in 1..Len(is) : ~Pushes(is[i])

LEMMA PushlessIs ==
  /\ \A is : Pushless(is) => Unpaired(is)
  /\ \A is : Quiet(is) => Pushless(is)
BY DEF Pushless, Unpaired, Quiet, Neutral, Pushes

LEMMA PushlessShort ==
  /\ Pushless(<<>>)
  /\ \A i : ~Pushes(i) => Pushless(<<i>>)
  /\ \A i, j : ~Pushes(i) /\ ~Pushes(j) => Pushless(<<i, j>>)
PROOF
<1>1. Pushless(<<>>) BY DEF Pushless, IsSequence
<1>2. ASSUME NEW i, ~Pushes(i) PROVE Pushless(<<i>>)
  <2>1. IsSequence(<<i>>) /\ Len(<<i>>) = 1 /\ <<i>>[1] = i BY DEF IsSequence, ToSet
  <2>. QED BY <1>2, <2>1 DEF Pushless
<1>3. ASSUME NEW i, NEW j, ~Pushes(i), ~Pushes(j) PROVE Pushless(<<i, j>>)
  <2>1. IsSequence(<<i, j>>) /\ Len(<<i, j>>) = 2 /\ <<i, j>>[1] = i /\ <<i, j>>[2] = j BY DEF IsSequence, ToSet
  <2>. QED BY <1>3, <2>1 DEF Pushless
<1>. QED BY <1>1, <1>2, <1>3

LEMMA PushlessConcat ==
  ASSUME NEW s, NEW t, Pushless(s), Pushless(t)
  PROVE  Pushless(s \o t)
PROOF
<1>1. IsSequence(s) /\ IsSequence(t) /\ Len(s) \in Nat /\ Len(t) \in Nat BY SequenceBasics DEF Pushless
<1>2. /\ IsSequence(s \o t) /\ Len(s \o t) = Len(s) + Len(t)
      /\ \A i \in 1..Len(s) : (s \o t)[i] = s[i]
      /\ \A i \in (Len(s) + 1)..(Len(s) + Len(t)) : (s \o t)[i] = t[i - Len(s)]
  BY <1>1, ConcatSequences
<1>3. ASSUME NEW i \in 1..Len(s \o t) PROVE ~Pushes((s \o t)[i])
  <2>1. CASE i <= Len(s)
    <3>1. i \in 1..Len(s) BY <1>1, <1>2, <2>1
    <3>. QED BY <1>2, <3>1 DEF Pushless
  <2>2. CASE i > Len(s)
    <3>1. i - Len(s) \in 1..Len(t) /\ i \in (Len(s) + 1)..(Len(s) + Len(t)) BY <1>1, <1>2, <2>2
    <3>2. (s \o t)[i] = t[i - Len(s)] BY <1>2, <3>1
    <3>. QED BY <3>1, <3>2 DEF Pushless
  <2>. QED BY <1>1, <1>2, <2>1, <2>2
<1>. QED BY <1>2, <1>3 DEF Pushless

LEMMA PushesInsn ==
  \A op, a, b : op # "pushl" => ~Pushes(Insn(op, a, b)) /\ ~Pushes(Insn1(op, a))
BY DEF Pushes, Insn, Insn1

\* Code in which every pushl is followed by something else leaves the root
\* information the last.
LEMMA UnpairedFollows ==
  ASSUME NEW is, IsSequence(is), NEW more, Unpaired(more),
         EndsInPush(is) => more # <<>> /\ ~Pushes(more[1])
  PROVE  /\ ~EndsInPush(is \o more)
         /\ \A n, args, locals : NotedAt(is, n, args, locals) => NotedAt(is \o more, n, args, locals)
PROOF
<1>1. IsSequence(more) /\ Len(is) \in Nat /\ Len(more) \in Nat BY SequenceBasics DEF Unpaired
<1>2. PICK m, t : m = Len(is) /\ t = is \o more OBVIOUS
<1>3. /\ IsSequence(t) /\ Len(t) = m + Len(more)
      /\ \A i \in 1..m : t[i] = is[i]
      /\ \A i \in (m + 1)..(m + Len(more)) : t[i] = more[i - m]
  BY <1>1, <1>2, ConcatSequences
<1>4. ~EndsInPush(t)
  <2>1. CASE more = <<>>
    <3>1. Len(more) = 0 BY <1>1, <2>1, SequenceBasics
    <3>2. ~EndsInPush(is) BY <2>1
    <3>3. t # <<>> => is # <<>> /\ Len(t) = m /\ m \in 1..m BY <1>1, <1>2, <1>3, <3>1, SequenceBasics
    <3>. QED BY <1>2, <1>3, <3>2, <3>3 DEF EndsInPush
  <2>2. CASE more # <<>>
    <3>1. Len(more) # 0 BY <1>1, <2>2, SequenceBasics
    <3>2. Len(t) \in (m + 1)..(m + Len(more)) /\ Len(t) - m = Len(more) /\ Len(more) \in 1..Len(more)
      BY <1>1, <1>2, <1>3, <3>1
    <3>3. t[Len(t)] = more[Len(more)] BY <1>3, <3>2
    <3>4. ~Pushes(more[Len(more)]) BY <1>1, <3>2 DEF Unpaired
    <3>. QED BY <3>3, <3>4 DEF EndsInPush
  <2>. QED BY <2>1, <2>2
<1>5. ASSUME NEW n, NEW args, NEW locals, NotedAt(is, n, args, locals) PROVE NotedAt(t, n, args, locals)
  <2>1. n \in 4..m /\ n \in 4..Len(t) /\ n \in 1..m /\ n - 1 \in 1..m BY <1>1, <1>2, <1>3, <1>5 DEF NotedAt
  <2>2. t[n - 1] = is[n - 1] /\ t[n] = is[n] BY <1>3, <2>1
  <2>3. ASSUME NEW i \in (n + 1)..Len(t) PROVE ~(Pushes(t[i - 1]) /\ Pushes(t[i]))
    <3>1. CASE i <= m
      <4>1. i \in (n + 1)..m /\ i \in 1..m /\ i - 1 \in 1..m BY <1>1, <1>2, <1>3, <2>1, <3>1
      <4>. QED BY <1>2, <1>3, <1>5, <4>1 DEF NotedAt
    <3>2. CASE i = m + 1
      <4>1. m \in 1..m /\ i - 1 = m /\ i \in (m + 1)..(m + Len(more)) /\ i - m = 1 BY <1>1, <1>2, <1>3, <2>1, <3>2
      <4>2. t[i] = more[1] /\ t[i - 1] = is[m] BY <1>3, <4>1
      <4>3. is # <<>> BY <1>2, <4>1, SequenceBasics
      <4>. QED BY <1>2, <4>2, <4>3 DEF EndsInPush
    <3>3. CASE i > m + 1
      <4>1. /\ i \in (m + 1)..(m + Len(more)) /\ i - 1 \in (m + 1)..(m + Len(more))
            /\ (i - 1) - m \in 1..Len(more) /\ ((i - 1) - m) + 1 = i - m
        BY <1>1, <1>2, <1>3, <2>1, <3>3
      <4>2. t[i] = more[i - m] BY <1>3, <4>1
      <4>3. t[i - 1] = more[(i - 1) - m] BY <1>3, <4>1
      <4>. QED BY <4>1, <4>2, <4>3 DEF Unpaired
    <3>4. i <= m \/ i = m + 1 \/ i > m + 1
      <4>1. n \in Int /\ Len(t) \in Int BY <1>1, <1>2, <1>3, <2>1
      <4>. QED BY ONLY <1>1, <1>2, <4>1, i \in (n + 1)..Len(t)
    <3>. QED BY <3>1, <3>2, <3>3, <3>4
  <2>. QED BY <1>5, <2>1, <2>2, <2>3 DEF NotedAt
<1>. QED BY <1>2, <1>4, <1>5

\* The prologue of a frame notes its information.
LEMMA PrologueNotes ==
  ASSUME NEW is, IsSequence(is), NEW l, NEW a, NEW b
  PROVE  NotedAt(is \o Prologue(l, a, b), Len(is) + 5, a, b)
PROOF
<1>1. PICK i1, i2, i3, i4, i5 :
        /\ i1 = Label(Lbl(l)) /\ i2 = Insn1("push", EBP) /\ i3 = Insn("movl", ESP, EBP)
        /\ i4 = Insn1("pushl", Imm(a)) /\ i5 = Insn1("pushl", Imm(b))
  OBVIOUS
<1>2. PICK more : more = <<i1, i2, i3, i4, i5>> OBVIOUS
<1>3. more = Prologue(l, a, b) BY <1>1, <1>2 DEF Prologue
<1>4. IsSequence(more) /\ Len(more) = 5 /\ more[4] = i4 /\ more[5] = i5 BY <1>2 DEF IsSequence, ToSet
<1>5. PICK m, t : m = Len(is) /\ t = is \o more OBVIOUS
<1>6. m \in Nat BY <1>5, SequenceBasics
<1>7. IsSequence(t) /\ Len(t) = m + 5 /\ \A i \in (m + 1)..(m + 5) : t[i] = more[i - m]
  <2>1. /\ IsSequence(t) /\ Len(t) = Len(is) + Len(more)
        /\ \A i \in (Len(is) + 1)..(Len(is) + Len(more)) : t[i] = more[i - Len(is)]
    BY <1>4, <1>5, ConcatSequences
  <2>. QED BY <1>4, <1>5, <2>1
<1>8. /\ m + 4 \in (m + 1)..(m + 5) /\ (m + 4) - m = 4 /\ m + 5 \in (m + 1)..(m + 5) /\ (m + 5) - m = 5
      /\ (m + 5) - 1 = m + 4
  BY <1>6
<1>9. t[m + 4] = i4 /\ t[m + 5] = i5 BY <1>4, <1>7, <1>8
<1>10. /\ Pushes(i4) /\ i4.src = Imm(a) /\ Pushes(i5) /\ i5.src = Imm(b) BY <1>1 DEF Pushes, Insn1, Insn
<1>11. m + 5 \in 4..Len(t) /\ (m + 5 + 1)..Len(t) = {} BY <1>6, <1>7
<1>12. NotedAt(t, m + 5, a, b) BY <1>8, <1>9, <1>10, <1>11 DEF NotedAt
<1>. QED BY <1>3, <1>5, <1>12

\* What the generator notes is what the collector would look for.
LEMMA LastNoted ==
  ASSUME IsSequence(insns), NEW n, NEW args, NEW locals, NotedAt(insns, n, args, locals)
  PROVE  Max(InfoPushes) = n /\ insns[n - 1].src.n = args /\ insns[n].src.n = locals
PROOF
<1>1. Len(insns) \in Nat /\ DOMAIN insns = 1..Len(insns) BY SequenceBasics
<1>2. PICK m : m = Len(insns) OBVIOUS
<1>3. InfoPushes = {i \in 1..m : i > 3 /\ Pushes(insns[i - 1]) /\ Pushes(insns[i])} BY <1>1, <1>2 DEF InfoPushes, Pushes
<1>4. n \in InfoPushes BY <1>1, <1>2, <1>3 DEF NotedAt
<1>5. Max(InfoPushes) \in InfoPushes /\ \A y \in InfoPushes : y <= Max(InfoPushes)
  <2>1. InfoPushes \in SUBSET (1..m) /\ InfoPushes # {} BY <1>3, <1>4
  <2>. QED BY <1>1, <1>2, <2>1, GreatestElement
<1>6. PICK x : x = Max(InfoPushes) OBVIOUS
<1>7. x \in 1..m /\ n <= x /\ Pushes(insns[x - 1]) /\ Pushes(insns[x]) BY <1>3, <1>4, <1>5, <1>6
<1>8. ~(x \in (n + 1)..m) BY <1>2, <1>7 DEF NotedAt
<1>9. x = n
  <2>1. n \in Int BY <1>1, <1>2 DEF NotedAt
  <2>. QED BY <1>1, <1>2, <1>7, <1>8, <2>1
<1>10. insns[n - 1].src.n = args /\ insns[n].src.n = locals
  <2>1. insns[n - 1].src = Imm(args) /\ insns[n].src = Imm(locals) BY DEF NotedAt
  <2>2. Imm(args).n = args /\ Imm(locals).n = locals BY DEF Imm
  <2>. QED BY <2>1, <2>2
<1>. QED BY <1>6, <1>9, <1>10

-----------------------------------------------------------------------------
(* The homes of the variables that the words are about. *)

OutsideKinds == {"root", "params"}
InsideKinds  == {"block", "tmp"}

\* No body is open.
Outside(c) == \A i \in 1..Len(c) : c[i].kind \in OutsideKinds

\* c has one body, which holds the locals ds from the first place on, and
\* outside of it, in a function, the parameters ps.
Homes(c, kind, ps, ds) ==
  \E b \in 1..Len(c) :
    /\ c[b].kind = "body" /\ c[b].vars = BlockVars(12, ds)
    /\ \A i \in 1..(b - 1) : c[i].kind \in OutsideKinds
    /\ \A i \in (b + 1)..Len(c) : c[i].kind \in InsideKinds
    /\ kind = "def" => b > 1 /\ c[b - 1].vars = ParamVars(ps)

\* A frame has been set up, and the next task is the body it was set up for.
AwaitsBody(ps, ds) ==
  /\ Outside(ctx) /\ Task.op = "block" /\ Task.decls = ds /\ Top.next = 12
  /\ frame.kind = "def" => Top.vars = ParamVars(ps)

InBody(ps, ds) == ~EndsInPush(insns) /\ DistinctIds(ds) /\ Homes(ctx, frame.kind, ps, ds)

\* The frame is one of a function with as many parameters.
Counted(f, ps) == f.kind = "def" => Len(f.params) = Len(ps)

\* The invariant, beside IInv.
RInv ==
  phase = "generating" =>
    IF frame.kind = "none"
    THEN ~EndsInPush(insns) /\ Outside(ctx)
    ELSE \E ps, ds \in Seq(Declarations) :
           /\ Noted(insns, frame.kind, ps, ds) /\ Counted(frame, ps)
           /\ AwaitsBody(ps, ds) \/ InBody(ps, ds)

LEMMA RootsAreRight == IInv /\ RInv => RootInfoMatches
PROOF
<1>. SUFFICES ASSUME IInv, RInv, phase = "generating", Top.kind \in {"body", "block", "tmp"}
              PROVE  RootInfoMatches
  BY DEF RootInfoMatches
<1>1. CodeOK /\ ContextsOK BY HeadTask
<1>2. IsSequence(insns) /\ IsSequence(ctx) BY <1>1 DEF CodeOK, ContextsOK
<1>3. Len(ctx) \in Nat \ {0} /\ DOMAIN ctx = 1..Len(ctx) /\ Len(ctx) \in 1..Len(ctx) BY <1>1, <1>2, CurrentIsTop, SequenceBasics
<1>4. ~Outside(ctx) BY <1>3 DEF Outside, OutsideKinds, Top
<1>5. PICK ps \in Seq(Declarations), ds \in Seq(Declarations) :
        Noted(insns, frame.kind, ps, ds) /\ Counted(frame, ps) /\ InBody(ps, ds)
  BY <1>4 DEF RInv, AwaitsBody
<1>6. IsSequence(ps) /\ IsSequence(ds) BY IsSequenceIn
<1>7. PICK n, args : NotedAt(insns, n, args, PointerBits(ds)) /\ (frame.kind = "def" => args = PointerBits(ps))
  BY <1>5 DEF Noted
<1>8. Max(InfoPushes) = n /\ insns[n - 1].src.n = args /\ insns[n].src.n = PointerBits(ds) BY <1>2, <1>7, LastNoted
<1>9. PICK b \in 1..Len(ctx) :
        /\ ctx[b].kind = "body" /\ ctx[b].vars = BlockVars(12, ds)
        /\ \A i \in 1..(b - 1) : ctx[i].kind \in OutsideKinds
        /\ \A i \in (b + 1)..Len(ctx) : ctx[i].kind \in InsideKinds
        /\ frame.kind = "def" => b > 1 /\ ctx[b - 1].vars = ParamVars(ps)
  BY <1>5 DEF InBody, Homes
<1>10. (CHOOSE i \in DOMAIN ctx : ctx[i].kind = "body") = b
  <2>1. ASSUME NEW i \in DOMAIN ctx, ctx[i].kind = "body" PROVE i = b
    <3>1. i \in 1..(b - 1) \/ i = b \/ i \in (b + 1)..Len(ctx) BY <1>3
    <3>. QED BY <1>9, <2>1, <3>1 DEF OutsideKinds, InsideKinds
  <2>. QED BY <1>3, <1>9, <2>1
<1>11. ASSUME \A x \in DOMAIN BlockVars(12, ds) : BlockVars(12, ds)[x].off < 12 + Word * WordBits
       PROVE  Len(ds) <= 32
  <2>. SUFFICES ASSUME Len(ds) # 0 PROVE Len(ds) <= 32 OBVIOUS
  <2>1. Len(ds) \in Nat \ {0} /\ DOMAIN ds = 1..Len(ds) BY <1>6, SequenceBasics
  <2>2. PICK n0, x : n0 = Len(ds) /\ x = ds[n0].id OBVIOUS
  <2>3. x \in Ids(ds) BY <2>1, <2>2 DEF Ids
  <2>4. DeclaredAt(ds, x) \in 1..Len(ds) /\ ds[DeclaredAt(ds, x)].id = x BY <1>6, <2>3, DeclaredAtFacts
  <2>5. DeclaredAt(ds, x) = n0 BY <1>5, <2>1, <2>2, <2>4 DEF InBody, DistinctIds
  <2>6. x \in DOMAIN BlockVars(12, ds) /\ BlockVars(12, ds)[x].off = 12 + Word * (n0 - 1)
    BY <2>3, <2>5 DEF BlockVars
  <2>7. 12 + Word * (n0 - 1) < 12 + Word * WordBits BY <1>11, <2>6
  <2>. QED BY <2>1, <2>2, <2>7 DEF Word, WordBits
<1>12. ASSUME Len(ds) <= 32, NEW k \in 0..31
       PROVE  Bit(PointerBits(ds), k) <=>
                \E x \in DOMAIN BlockVars(12, ds) :
                  BlockVars(12, ds)[x].off = 12 + Word * k /\ BlockVars(12, ds)[x].type # "int"
  <2>1. k \in Nat OBVIOUS
  <2>2. Bit(PointerBits(ds), k) <=> k < Len(ds) /\ ~IsIntType(ds[k + 1].type) BY <1>6, <1>12, BitOfPointer
  <2>3. Len(ds) \in Nat /\ DOMAIN ds = 1..Len(ds) BY <1>6, SequenceBasics
  <2>4. ASSUME NEW x \in Ids(ds)
        PROVE  /\ DeclaredAt(ds, x) \in 1..Len(ds) /\ ds[DeclaredAt(ds, x)].id = x
               /\ BlockVars(12, ds)[x].off = 12 + Word * k <=> DeclaredAt(ds, x) = k + 1
               /\ BlockVars(12, ds)[x].type = ds[DeclaredAt(ds, x)].type
    <3>1. DeclaredAt(ds, x) \in 1..Len(ds) /\ ds[DeclaredAt(ds, x)].id = x BY <1>6, DeclaredAtFacts
    <3>2. PICK i : i = DeclaredAt(ds, x) OBVIOUS
    <3>3. BlockVars(12, ds)[x] = [off |-> 12 + Word * (i - 1), type |-> ds[i].type] BY <3>2 DEF BlockVars
    <3>4. 12 + Word * (i - 1) = 12 + Word * k <=> i = k + 1 BY <2>1, <3>1, <3>2 DEF Word
    <3>. QED BY <3>1, <3>2, <3>3, <3>4
  <2>5. DOMAIN BlockVars(12, ds) = Ids(ds) BY DEF BlockVars
  <2>6. ASSUME k < Len(ds), ~IsIntType(ds[k + 1].type)
        PROVE  \E x \in Ids(ds) : BlockVars(12, ds)[x].off = 12 + Word * k /\ BlockVars(12, ds)[x].type # "int"
    <3>1. k + 1 \in 1..Len(ds) BY <2>1, <2>3, <2>6
    <3>2. PICK x : x = ds[k + 1].id OBVIOUS
    <3>3. x \in Ids(ds) BY <2>3, <3>1, <3>2 DEF Ids
    <3>4. DeclaredAt(ds, x) = k + 1 BY <1>5, <2>3, <2>4, <3>1, <3>2, <3>3 DEF InBody, DistinctIds
    <3>. QED BY <2>4, <2>6, <3>3, <3>4 DEF IsIntType
  <2>7. ASSUME NEW x \in Ids(ds), BlockVars(12, ds)[x].off = 12 + Word * k, BlockVars(12, ds)[x].type # "int"
        PROVE  k < Len(ds) /\ ~IsIntType(ds[k + 1].type)
    <3>1. DeclaredAt(ds, x) = k + 1 /\ DeclaredAt(ds, x) \in 1..Len(ds) BY <2>4, <2>7
    <3>. QED BY <2>1, <2>3, <2>4, <2>7, <3>1 DEF IsIntType
  <2>. QED BY <2>2, <2>5, <2>6, <2>7
<1>13. ASSUME Len(ps) <= 32, NEW x \in DOMAIN ParamVars(ps)
       PROVE  Bit(PointerBits(ps), (-8 - ParamVars(ps)[x].off) \div Word) <=> ParamVars(ps)[x].type # "int"
  <2>1. Len(ps) \in Nat /\ DOMAIN ps = 1..Len(ps) BY <1>6, SequenceBasics
  <2>2. x \in Ids(ps) BY DEF ParamVars
  <2>3. PICK T : T = {j \in DOMAIN ps : ps[j].id = x} OBVIOUS
  <2>4. T \in SUBSET Nat /\ T # {} BY <2>1, <2>2, <2>3 DEF Ids
  <2>5. PICK i : i = Min(T) OBVIOUS
  <2>6. i \in 1..Len(ps) BY <2>1, <2>3, <2>4, <2>5, SmallestElement
  <2>7. ParamVars(ps)[x] = [off |-> -4 - Word * i, type |-> ps[i].type] BY <2>2, <2>3, <2>5 DEF ParamVars
  <2>8. (-8 - (-4 - Word * i)) \div Word = i - 1
    <3>1. -8 - (-4 - Word * i) = 4 * (i - 1) BY <2>6 DEF Word
    <3>2. (4 * (i - 1)) \div 4 = i - 1 BY <2>6
    <3>. QED BY <3>1, <3>2 DEF Word
  <2>9. i - 1 \in 0..31 /\ i - 1 < Len(ps) /\ (i - 1) + 1 = i BY <1>13, <2>1, <2>6
  <2>10. Bit(PointerBits(ps), i - 1) <=> ~IsIntType(ps[i].type) BY <1>6, <1>13, <2>9, BitOfPointer
  <2>. QED BY <2>7, <2>8, <2>10 DEF IsIntType
<1>14. frame.kind = "def" => Len(frame.params) = Len(ps) BY <1>5 DEF Counted
<1>. QED BY <1>7, <1>8, <1>9, <1>10, <1>11, <1>12, <1>13, <1>14 DEF RootInfoMatches, WordBits

-----------------------------------------------------------------------------
(* The homes while code of a body is generated. *)

LEMMA HomesOpened ==
  ASSUME NEW c, IsSequence(c), NEW s, s.kind \in InsideKinds, NEW kind, NEW ps, NEW ds, Homes(c, kind, ps, ds)
  PROVE  Homes(Append(c, s), kind, ps, ds)
PROOF
<1>1. Len(c) \in Nat BY SequenceBasics
<1>2. PICK d : d = Append(c, s) OBVIOUS
<1>3. Len(d) = Len(c) + 1 /\ d[Len(c) + 1] = s /\ \A i \in 1..Len(c) : d[i] = c[i] BY <1>2, AppendSequence
<1>4. PICK b \in 1..Len(c) :
        /\ c[b].kind = "body" /\ c[b].vars = BlockVars(12, ds)
        /\ \A i \in 1..(b - 1) : c[i].kind \in OutsideKinds
        /\ \A i \in (b + 1)..Len(c) : c[i].kind \in InsideKinds
        /\ kind = "def" => b > 1 /\ c[b - 1].vars = ParamVars(ps)
  BY DEF Homes
<1>5. b \in 1..Len(d) /\ d[b] = c[b] BY <1>1, <1>3
<1>6. \A i \in 1..(b - 1) : d[i] = c[i] BY <1>1, <1>3
<1>7. ASSUME NEW i \in (b + 1)..Len(d) PROVE d[i].kind \in InsideKinds
  <2>1. i = Len(c) + 1 \/ (i \in (b + 1)..Len(c) /\ i \in 1..Len(c)) BY <1>1, <1>3
  <2>. QED BY <1>3, <1>4, <2>1
<1>8. kind = "def" => b > 1 /\ d[b - 1].vars = ParamVars(ps)
  <2>. SUFFICES ASSUME kind = "def" PROVE b > 1 /\ d[b - 1].vars = ParamVars(ps) OBVIOUS
  <2>1. b - 1 \in 1..(b - 1) BY <1>4
  <2>. QED BY <1>4, <1>6, <2>1
<1>9. Homes(d, kind, ps, ds) BY <1>4, <1>5, <1>6, <1>7, <1>8 DEF Homes
<1>. QED BY <1>2, <1>9

LEMMA HomesLeft ==
  ASSUME NEW c, IsSequence(c), c # <<>>, c[Len(c)].kind \in InsideKinds,
         NEW kind, NEW ps, NEW ds, Homes(c, kind, ps, ds)
  PROVE  Homes(Front(c), kind, ps, ds)
PROOF
<1>1. Len(c) \in Nat \ {0} BY SequenceBasics
<1>2. PICK d : d = Front(c) OBVIOUS
<1>3. Len(d) = Len(c) - 1 /\ \A i \in 1..(Len(c) - 1) : d[i] = c[i] BY <1>2, FrontSequence
<1>4. PICK b \in 1..Len(c) :
        /\ c[b].kind = "body" /\ c[b].vars = BlockVars(12, ds)
        /\ \A i \in 1..(b - 1) : c[i].kind \in OutsideKinds
        /\ \A i \in (b + 1)..Len(c) : c[i].kind \in InsideKinds
        /\ kind = "def" => b > 1 /\ c[b - 1].vars = ParamVars(ps)
  BY DEF Homes
<1>5. b # Len(c) BY <1>4 DEF InsideKinds
<1>6. b \in 1..Len(d) /\ \A i \in 1..b : d[i] = c[i] BY <1>1, <1>3, <1>5
<1>7. \A i \in (b + 1)..Len(d) : d[i] = c[i] /\ i \in (b + 1)..Len(c) BY <1>1, <1>3
<1>8. \A i \in 1..(b - 1) : d[i] = c[i] BY <1>6
<1>9. b \in 1..b /\ (b > 1 => b - 1 \in 1..b) OBVIOUS
<1>10. Homes(d, kind, ps, ds) BY <1>4, <1>6, <1>7, <1>8, <1>9 DEF Homes
<1>. QED BY <1>2, <1>10

LEMMA HomesReplaced ==
  ASSUME NEW c, IsSequence(c), c # <<>>, NEW s, s.kind = c[Len(c)].kind, s.vars = c[Len(c)].vars,
         NEW kind, NEW ps, NEW ds, Homes(c, kind, ps, ds)
  PROVE  Homes(Append(Front(c), s), kind, ps, ds)
PROOF
<1>1. Len(c) \in Nat \ {0} BY SequenceBasics
<1>2. PICK f, d : f = Front(c) /\ d = Append(f, s) OBVIOUS
<1>3. IsSequence(f) /\ Len(f) = Len(c) - 1 /\ \A i \in 1..(Len(c) - 1) : f[i] = c[i] BY <1>2, FrontSequence
<1>4. Len(d) = Len(f) + 1 /\ d[Len(f) + 1] = s /\ \A i \in 1..Len(f) : d[i] = f[i] BY <1>2, <1>3, AppendSequence
<1>5. Len(d) = Len(c) /\ \A i \in 1..Len(c) : d[i].kind = c[i].kind /\ d[i].vars = c[i].vars
  <2>. SUFFICES ASSUME NEW i \in 1..Len(c) PROVE d[i].kind = c[i].kind /\ d[i].vars = c[i].vars
    BY <1>1, <1>3, <1>4
  <2>1. i = Len(c) \/ (i \in 1..Len(f) /\ i \in 1..(Len(c) - 1)) BY <1>1, <1>3
  <2>2. Len(f) + 1 = Len(c) BY <1>1, <1>3
  <2>. QED BY <1>3, <1>4, <2>1, <2>2
<1>6. PICK b \in 1..Len(c) :
        /\ c[b].kind = "body" /\ c[b].vars = BlockVars(12, ds)
        /\ \A i \in 1..(b - 1) : c[i].kind \in OutsideKinds
        /\ \A i \in (b + 1)..Len(c) : c[i].kind \in InsideKinds
        /\ kind = "def" => b > 1 /\ c[b - 1].vars = ParamVars(ps)
  BY DEF Homes
<1>7. /\ \A i \in 1..(b - 1) : d[i].kind = c[i].kind
      /\ \A i \in (b + 1)..Len(c) : d[i].kind = c[i].kind
      /\ b > 1 => d[b - 1].vars = c[b - 1].vars
  BY <1>1, <1>5
<1>8. Homes(d, kind, ps, ds) BY <1>5, <1>6, <1>7 DEF Homes
<1>. QED BY <1>2, <1>8

\* The tasks of a body.
WorkOps ==
  ExpressionOps \cup StatementOps \cup
  {"fields", "code", "save", "operate", "store", "free", "assignto", "call", "arguments", "push", "endblock"}

LEMMA WorkIsInside ==
  ASSUME IInv, phase = "generating", Task.op \in WorkOps
  PROVE  frame.kind # "none" /\ ~Outside(ctx)
PROOF
<1>1. PICK u : Does(Task, View, u) BY HeadTask
<1>2. PICK v : v = View OBVIOUS
<1>3. InFrame(v) /\ Current(v).kind \in {"body", "block", "tmp"}
  <2>1. CASE Task.op \in ExpressionOps \cup {"fields", "code"} BY <1>1, <1>2, <2>1 DEF Does, DoesCode, Computes
  <2>2. CASE Task.op \in {"save", "operate", "store", "free"} BY <1>1, <1>2, <2>2 DEF Does, DoesTmp, HoldsTmp
  <2>3. CASE Task.op \in StatementOps \cup {"assignto", "call"}
    BY <1>1, <1>2, <2>3 DEF Does, DoesStatement, AtStatement
  <2>4. CASE Task.op \in {"arguments", "push"} BY <1>1, <1>2, <2>4 DEF Does, DoesStatement, InCall
  <2>5. CASE Task.op = "endblock" BY <1>1, <1>2, <2>5 DEF Does, DoesBlock, AtStatement
  <2>. QED BY <2>1, <2>2, <2>3, <2>4, <2>5 DEF WorkOps
<1>4. Current(View) = Shape(Top) /\ View.frame = frame.kind /\ Len(ctx) \in 1..Len(ctx) BY HeadTask, CurrentIsTop
<1>5. Top.kind \in {"body", "block", "tmp"} BY <1>2, <1>3, <1>4 DEF Shape
<1>6. ~Outside(ctx) BY <1>4, <1>5 DEF Outside, OutsideKinds, Top
<1>. QED BY <1>2, <1>3, <1>4, <1>6 DEF InFrame

\* A step within a body.
LEMMA InsideStep ==
  ASSUME IInv, RInv, phase = "generating", phase' = "generating", frame' = frame,
         frame.kind # "none", ~Outside(ctx),
         NEW more, Unpaired(more), insns' = insns \o more,
         \A ps, ds : Homes(ctx, frame.kind, ps, ds) => Homes(ctx', frame.kind, ps, ds)
  PROVE  RInv'
PROOF
<1>1. PICK ps \in Seq(Declarations), ds \in Seq(Declarations) :
        Noted(insns, frame.kind, ps, ds) /\ Counted(frame, ps) /\ InBody(ps, ds)
  BY DEF RInv, AwaitsBody
<1>2. IsSequence(insns) BY HeadTask DEF CodeOK
<1>3. PICK is : is = insns OBVIOUS
<1>4. ~EndsInPush(is) BY <1>1, <1>3 DEF InBody
<1>5. /\ ~EndsInPush(is \o more)
      /\ \A n, args, locals : NotedAt(is, n, args, locals) => NotedAt(is \o more, n, args, locals)
  BY <1>2, <1>3, <1>4, UnpairedFollows
<1>6. Noted(is \o more, frame.kind, ps, ds) BY <1>1, <1>3, <1>5 DEF Noted
<1>7. Noted(insns, frame.kind, ps, ds)' BY <1>3, <1>6
<1>8. InBody(ps, ds)' BY <1>1, <1>3, <1>5 DEF InBody
<1>9. Counted(frame, ps)' BY <1>1 DEF Counted
<1>. QED BY <1>7, <1>8, <1>9 DEF RInv

LEMMA WorkStep ==
  ASSUME IInv, RInv, phase = "generating", phase' = "generating", frame' = frame, Task.op \in WorkOps,
         NEW more, Unpaired(more), insns' = insns \o more,
         \A ps, ds : Homes(ctx, frame.kind, ps, ds) => Homes(ctx', frame.kind, ps, ds)
  PROVE  RInv'
BY WorkIsInside, InsideStep

LEMMA NotGeneratingRoots == phase' # "generating" => RInv'
BY DEF RInv

\* A step within a body that leaves the contexts alone and pushes nothing.
LEMMA PlainWork ==
  ASSUME IInv, RInv, phase = "generating", Task.op \in WorkOps, UNCHANGED <<phase, ctx, frame>>,
         NEW more, Pushless(more), insns' = insns \o more
  PROVE  RInv'
PROOF
<1>1. Unpaired(more) BY PushlessIs
<1>2. \A ps, ds : Homes(ctx, frame.kind, ps, ds) => Homes(ctx', frame.kind, ps, ds) OBVIOUS
<1>3. phase' = "generating" /\ frame' = frame OBVIOUS
<1>. QED BY ONLY <1>1, <1>2, <1>3, IInv, RInv, phase = "generating", Task.op \in WorkOps, insns' = insns \o more, WorkStep

-----------------------------------------------------------------------------
(* The steps within a body. *)

LEMMA EmitCodeRoots == IInv /\ RInv /\ EmitCode => RInv'
PROOF
<1>. SUFFICES ASSUME IInv, RInv, EmitCode PROVE RInv' OBVIOUS
<1>1. phase = "generating" /\ Task.op = "code" BY DEF EmitCode, At
<1>2. PICK u : Does(Task, View, u) BY <1>1, HeadTask
<1>3. PICK more : more = Task.insns OBVIOUS
<1>4. Quiet(more) BY <1>1, <1>2, <1>3 DEF Does, DoesCode, Quiet
<1>5. Pushless(more) BY <1>4, PushlessIs
<1>6. insns' = insns \o more /\ UNCHANGED <<phase, ctx, frame>> BY <1>3 DEF EmitCode, Emit, where
<1>7. Task.op \in WorkOps BY <1>1 DEF WorkOps
<1>. QED BY <1>1, <1>5, <1>6, <1>7, PlainWork

LEMMA SaveTmpRoots == IInv /\ RInv /\ SaveTmp => RInv'
PROOF
<1>. SUFFICES ASSUME IInv, RInv, SaveTmp PROVE RInv' OBVIOUS
<1>1. phase = "generating" /\ Task.op = "save" BY DEF SaveTmp, At
<1>2. PICK more : more = <<Insn("movl", EAX, TmpSlot(Task.tmp))>> OBVIOUS
<1>3. Pushless(more) BY <1>2, PushesInsn, PushlessShort
<1>4. insns' = insns \o more /\ UNCHANGED <<phase, ctx, frame>> BY <1>2 DEF SaveTmp, Emit, where
<1>5. Task.op \in WorkOps BY <1>1 DEF WorkOps
<1>. QED BY <1>1, <1>3, <1>4, <1>5, PlainWork

LEMMA VisitConstantRoots == IInv /\ RInv /\ VisitConstant => RInv'
PROOF
<1>. SUFFICES ASSUME IInv, RInv, VisitConstant PROVE RInv' OBVIOUS
<1>1. phase = "generating" /\ Task.op \in {"nil", "int"} BY DEF VisitConstant, At
<1>2. PICK n : n = IF At("nil") THEN 0 ELSE Task.value OBVIOUS
<1>3. PICK more : more = <<Insn("movl", Imm(n), EAX)>> OBVIOUS
<1>4. Pushless(more) BY <1>3, PushesInsn, PushlessShort
<1>5. insns' = insns \o more BY <1>2, <1>3 DEF VisitConstant, Emit, At
<1>6. UNCHANGED <<phase, ctx, frame>> BY DEF VisitConstant, where
<1>7. Task.op \in WorkOps BY <1>1 DEF WorkOps, ExpressionOps
<1>. QED BY <1>1, <1>4, <1>5, <1>6, <1>7, PlainWork

LEMMA VisitAccessPathRoots == IInv /\ RInv /\ VisitAccessPath => RInv'
PROOF
<1>. SUFFICES ASSUME IInv, RInv, VisitAccessPath PROVE RInv' OBVIOUS
<1>1. phase = "generating" /\ Task.op = "path" BY DEF VisitAccessPath, At
<1>2. CASE Scopes(ctx, Task.root) # {}
  <2>1. PICK more : more = <<Insn("movl", EBP, EAX), Insn("sub", Imm(Lookup(ctx, Task.root).off), EAX)>> OBVIOUS
  <2>2. Pushless(more) BY <2>1, PushesInsn, PushlessShort
  <2>3. insns' = insns \o more /\ UNCHANGED <<phase, ctx, frame>> BY <1>2, <2>1 DEF VisitAccessPath, Emit, where
  <2>4. Task.op \in WorkOps BY <1>1 DEF WorkOps, ExpressionOps
  <2>. QED BY <1>1, <2>2, <2>3, <2>4, PlainWork
<1>3. CASE Scopes(ctx, Task.root) = {}
  <2>1. phase' = "error" BY <1>3 DEF VisitAccessPath, Fail
  <2>. QED BY <2>1, NotGeneratingRoots
<1>. QED BY <1>2, <1>3

LEMMA FollowFieldRoots == IInv /\ RInv /\ FollowField => RInv'
PROOF
<1>. SUFFICES ASSUME IInv, RInv, FollowField PROVE RInv' OBVIOUS
<1>1. phase = "generating" /\ Task.op = "fields" BY DEF FollowField, At
<1>2. PICK f : f = Head(Task.fields) OBVIOUS
<1>3. CASE FieldIndices(Task.type, f) # {}
  <2>1. PICK more : more = FieldCode(Task.type, f) OBVIOUS
  <2>2. Pushless(more) BY <2>1, PushesInsn, PushlessShort DEF FieldCode
  <2>3. insns' = insns \o more /\ UNCHANGED <<phase, ctx, frame>> BY <1>2, <1>3, <2>1 DEF FollowField, Emit, where
  <2>4. Task.op \in WorkOps BY <1>1 DEF WorkOps
  <2>. QED BY <1>1, <2>2, <2>3, <2>4, PlainWork
<1>4. CASE FieldIndices(Task.type, f) = {}
  <2>1. phase' = "error" BY <1>2, <1>4 DEF FollowField, Fail
  <2>. QED BY <2>1, NotGeneratingRoots
<1>. QED BY <1>3, <1>4

LEMMA LoadPathRoots == IInv /\ RInv /\ LoadPath => RInv'
PROOF
<1>. SUFFICES ASSUME IInv, RInv, LoadPath PROVE RInv' OBVIOUS
<1>1. phase = "generating" /\ Task.op = "fields" BY DEF LoadPath, At
<1>2. PICK more : more = IF inLhs THEN <<>> ELSE <<Insn("movl", Mem(0, "eax"), EAX)>> OBVIOUS
<1>3. Pushless(more) BY <1>2, PushesInsn, PushlessShort
<1>4. insns' = insns \o more /\ UNCHANGED <<phase, ctx, frame>> BY <1>2 DEF LoadPath, Emit, where
<1>5. Task.op \in WorkOps BY <1>1 DEF WorkOps
<1>. QED BY <1>1, <1>3, <1>4, <1>5, PlainWork

LEMMA ApplyOperatorRoots == IInv /\ RInv /\ ApplyOperator => RInv'
PROOF
<1>. SUFFICES ASSUME IInv, RInv, ApplyOperator PROVE RInv' OBVIOUS
<1>1. phase = "generating" /\ Task.op = "operate" BY DEF ApplyOperator, At
<1>2. PICK u : Does(Task, View, u) BY <1>1, HeadTask
<1>3. PICK op : op = Task.by OBVIOUS
<1>4. op \in BinaryOps BY <1>1, <1>2, <1>3 DEF Does, DoesTmp
<1>5. PICK a, b : a = <<Insn("movl", TmpSlot(Task.tmp), EDX)>> /\ b = OperatorCode(op) OBVIOUS
<1>6. Pushless(a) BY <1>5, PushesInsn, PushlessShort
<1>7. Pushless(b) BY <1>4, <1>5, OperatorCodeQuiet, PushlessIs
<1>8. Pushless(a \o b) BY <1>6, <1>7, PushlessConcat
<1>9. insns' = insns \o (a \o b) /\ UNCHANGED <<phase, ctx, frame>> BY <1>3, <1>5 DEF ApplyOperator, Emit, where
<1>10. Task.op \in WorkOps BY <1>1 DEF WorkOps
<1>. QED BY <1>1, <1>8, <1>9, <1>10, PlainWork

LEMMA StoreValueRoots == IInv /\ RInv /\ StoreValue => RInv'
PROOF
<1>. SUFFICES ASSUME IInv, RInv, StoreValue PROVE RInv' OBVIOUS
<1>1. phase = "generating" /\ Task.op = "store" BY DEF StoreValue, At
<1>2. PICK more : more = <<Insn("movl", TmpSlot(Task.tmp), EDX), Insn("movl", EDX, Mem(0, "eax"))>> OBVIOUS
<1>3. Pushless(more) BY <1>2, PushesInsn, PushlessShort
<1>4. insns' = insns \o more /\ UNCHANGED <<phase, ctx, frame>> BY <1>2 DEF StoreValue, Emit, where
<1>5. Task.op \in WorkOps BY <1>1 DEF WorkOps
<1>. QED BY <1>1, <1>3, <1>4, <1>5, PlainWork

LEMMA VisitLoopRoots == IInv /\ RInv /\ VisitLoop => RInv'
PROOF
<1>. SUFFICES ASSUME IInv, RInv, VisitLoop PROVE RInv' OBVIOUS
<1>1. phase = "generating" /\ Task.op = "while" BY DEF VisitLoop, At
<1>2. PICK more : more = <<Label(WhileStart(nextIndex))>> OBVIOUS
<1>3. Pushless(more) BY <1>2, PushesInsn, PushlessShort DEF Label
<1>4. insns' = insns \o more /\ UNCHANGED <<phase, ctx, frame>> BY <1>2 DEF VisitLoop, Emit, where
<1>5. Task.op \in WorkOps BY <1>1 DEF WorkOps, StatementOps
<1>. QED BY <1>1, <1>3, <1>4, <1>5, PlainWork

\* The visits that only go to the parts of a node.
LEMMA PartsRoots == IInv /\ RInv /\ (VisitNot \/ VisitAssignment \/ VisitConditional \/ NextArgument) => RInv'
PROOF
<1>. SUFFICES ASSUME IInv, RInv, VisitNot \/ VisitAssignment \/ VisitConditional \/ NextArgument PROVE RInv' OBVIOUS
<1>1. phase = "generating" /\ Task.op \in {"not", "assign", "if", "arguments"}
  BY DEF VisitNot, VisitAssignment, VisitConditional, NextArgument, At
<1>2. EmitNothing /\ UNCHANGED <<phase, ctx, frame>>
  BY DEF VisitNot, VisitAssignment, VisitConditional, NextArgument, where
<1>3. PICK more : more = <<>> OBVIOUS
<1>4. insns' = insns \o more /\ Pushless(more) BY <1>1, <1>2, <1>3, NothingEmitted, PushlessShort
<1>5. Task.op \in WorkOps BY <1>1 DEF WorkOps, ExpressionOps, StatementOps
<1>. QED BY <1>1, <1>2, <1>4, <1>5, PlainWork

\* The word pushed for allocate() is followed by the call.
LEMMA NewCodeUnpaired ==
  ASSUME NEW fields, IsSequence(fields)
  PROVE  Unpaired(NewCode(fields))
PROOF
<1>1. PICK a, b, c, e : /\ a = Insn1("pushl", Imm(Len(fields))) /\ b = Insn1("call", Lbl("allocate"))
                        /\ c = Insn("sub", Imm(Word), ESP) /\ e = Insn("movl", Imm(Tag(fields)), Mem(-Word, "eax"))
  OBVIOUS
<1>2. PICK h : h = <<a, b, c, e>> OBVIOUS
<1>3. IsSequence(h) /\ Len(h) = 4 /\ h[1] = a /\ h[2] = b /\ h[3] = c /\ h[4] = e BY <1>2 DEF IsSequence, ToSet
<1>4. ~Pushes(b) /\ ~Pushes(c) /\ ~Pushes(e) BY <1>1, PushesInsn
<1>5. PICK s : s = [i \in DOMAIN fields |-> Insn("movl", Imm(0), Mem(Word * (i - 1), "eax"))] OBVIOUS
<1>6. DOMAIN fields = 1..Len(fields) /\ Len(fields) \in Nat BY SequenceBasics
<1>7. IsSequence(s) /\ Len(s) = Len(fields) BY <1>5, <1>6, ToSequence
<1>8. \A i \in 1..Len(s) : ~Pushes(s[i]) BY <1>5, <1>6, <1>7, PushesInsn
<1>9. PICK t : t = h \o s OBVIOUS
<1>10. /\ IsSequence(t) /\ Len(t) = 4 + Len(s) /\ \A i \in 1..4 : t[i] = h[i]
       /\ \A i \in 5..(4 + Len(s)) : t[i] = s[i - 4]
  <2>1. /\ IsSequence(t) /\ Len(t) = Len(h) + Len(s) /\ (\A n \in 1..Len(h) : t[n] = h[n])
        /\ \A n \in (Len(h) + 1)..(Len(h) + Len(s)) : t[n] = s[n - Len(h)]
    BY <1>3, <1>7, <1>9, ConcatSequences
  <2>2. Len(h) = 4 /\ 4 + 1 = 5 BY <1>3
  <2>. QED BY <2>1, <2>2
<1>11. t[2] = b /\ t[3] = c /\ t[4] = e BY <1>3, <1>10
<1>12. \A i \in 2..Len(t) : ~Pushes(t[i])
  <2>. SUFFICES ASSUME NEW i \in 2..Len(t) PROVE ~Pushes(t[i]) OBVIOUS
  <2>1. i = 2 \/ i = 3 \/ i = 4 \/ (i \in 5..(4 + Len(s)) /\ i - 4 \in 1..Len(s)) BY <1>6, <1>7, <1>10
  <2>. QED BY <1>4, <1>8, <1>10, <1>11, <2>1
<1>13. \A i \in 1..Len(t) : Pushes(t[i]) => i = 1
  <2>. SUFFICES ASSUME NEW i \in 1..Len(t), i # 1 PROVE ~Pushes(t[i]) OBVIOUS
  <2>1. i \in 2..Len(t) BY <1>6, <1>7, <1>10
  <2>. QED BY <1>12, <2>1
<1>14. 1 < Len(t) /\ 1 + 1 = 2 /\ 2 \in 2..Len(t) BY <1>6, <1>7, <1>10
<1>15. Unpaired(t) BY <1>10, <1>12, <1>13, <1>14 DEF Unpaired
<1>16. t = NewCode(fields) BY <1>1, <1>2, <1>5, <1>9 DEF NewCode
<1>. QED BY <1>15, <1>16

LEMMA VisitNewRoots == IInv /\ RInv /\ VisitNew => RInv'
PROOF
<1>. SUFFICES ASSUME IInv, RInv, VisitNew PROVE RInv' OBVIOUS
<1>1. phase = "generating" /\ Task.op = "new" BY DEF VisitNew, At
<1>2. CASE Task.type \in DOMAIN typeInfo
  <2>1. PICK fields : fields = typeInfo[Task.type] OBVIOUS
  <2>2. fields \in Seq(Declarations) BY <1>1, <1>2, <2>1, HeadTask DEF TablesOK
  <2>3. PICK more : more = NewCode(fields) OBVIOUS
  <2>4. Unpaired(more) BY <2>2, <2>3, IsSequenceIn, NewCodeUnpaired
  <2>5. insns' = insns \o more /\ UNCHANGED <<phase, ctx, frame>> BY <1>2, <2>1, <2>3 DEF VisitNew, Emit, where
  <2>6. Task.op \in WorkOps BY <1>1 DEF WorkOps, ExpressionOps
  <2>7. \A ps, ds : Homes(ctx, frame.kind, ps, ds) => Homes(ctx', frame.kind, ps, ds) BY <2>5
  <2>8. phase' = "generating" /\ frame' = frame BY <1>1, <2>5
  <2>. QED BY <1>1, <2>4, <2>5, <2>6, <2>7, <2>8, WorkStep
<1>3. CASE Task.type \notin DOMAIN typeInfo
  <2>1. phase' = "error" BY <1>3 DEF VisitNew, Fail
  <2>. QED BY <2>1, NotGeneratingRoots
<1>. QED BY <1>2, <1>3

\* A step within a body that opens a context, leaves the one it is in, or
\* goes on with a call.
LEMMA ScopeWork ==
  ASSUME IInv, RInv, phase = "generating", Task.op \in WorkOps, UNCHANGED <<phase, frame>>,
         NEW more, Pushless(more), insns' = insns \o more,
         \/ \E s : s.kind \in InsideKinds /\ ctx' = Append(ctx, s)
         \/ Top.kind \in InsideKinds /\ ctx' = Front(ctx)
         \/ \E s : s.kind = Top.kind /\ s.vars = Top.vars /\ ctx' = WithTop(s)
  PROVE  RInv'
PROOF
<1>1. Unpaired(more) BY PushlessIs
<1>2. phase' = "generating" /\ frame' = frame OBVIOUS
<1>3. PICK c, d : c = ctx /\ d = ctx' OBVIOUS
<1>4. IsSequence(c) /\ c # <<>> BY <1>3, HeadTask DEF ContextsOK
<1>5. Top = c[Len(c)] BY <1>3 DEF Top
<1>6. ASSUME NEW ps, NEW ds, NEW kind, Homes(c, kind, ps, ds) PROVE Homes(d, kind, ps, ds)
  <2>1. CASE \E s : s.kind \in InsideKinds /\ ctx' = Append(ctx, s)
    <3>1. PICK s : s.kind \in InsideKinds /\ d = Append(c, s) BY <1>3, <2>1
    <3>. QED BY <1>4, <1>6, <3>1, HomesOpened
  <2>2. CASE Top.kind \in InsideKinds /\ ctx' = Front(ctx)
    <3>1. c[Len(c)].kind \in InsideKinds /\ d = Front(c) BY <1>3, <1>5, <2>2
    <3>. QED BY <1>4, <1>6, <3>1, HomesLeft
  <2>3. CASE \E s : s.kind = Top.kind /\ s.vars = Top.vars /\ ctx' = WithTop(s)
    <3>1. PICK s : s.kind = c[Len(c)].kind /\ s.vars = c[Len(c)].vars /\ d = Append(Front(c), s)
      BY <1>3, <1>5, <2>3 DEF WithTop
    <3>. QED BY <1>4, <1>6, <3>1, HomesReplaced
  <2>. QED BY <2>1, <2>2, <2>3
<1>7. \A ps, ds : Homes(ctx, frame.kind, ps, ds) => Homes(ctx', frame.kind, ps, ds) BY <1>3, <1>6
<1>. QED BY ONLY <1>1, <1>2, <1>7, IInv, RInv, phase = "generating", Task.op \in WorkOps, insns' = insns \o more, WorkStep

LEMMA TmpRoots == IInv /\ RInv /\ (VisitBinary \/ AssignTo) => RInv'
PROOF
<1>. SUFFICES ASSUME IInv, RInv, VisitBinary \/ AssignTo PROVE RInv' OBVIOUS
<1>1. phase = "generating" /\ Task.op \in BinaryOps \cup {"assignto"} /\ OpenTmp /\ UNCHANGED <<phase, frame>>
  BY DEF VisitBinary, AssignTo, At, where
<1>2. PICK s : s = TmpScope(Top.next, Tmp(nextTmp)) OBVIOUS
<1>3. ctx' = Append(ctx, s) /\ s.kind \in InsideKinds
  <2>1. ctx' = Append(ctx, s) BY <1>1, <1>2, HeadTask, OpenTmpEffect
  <2>. QED BY <1>2, <2>1 DEF TmpScope, InsideKinds
<1>4. PICK i, j : i = Insn("sub", Imm(Word), ESP) /\ j = Insn("movl", EAX, Mem(-Top.next, "ebp")) OBVIOUS
<1>5. \E more : Pushless(more) /\ insns' = insns \o more
  <2>1. ~Pushes(i) /\ ~Pushes(j) BY <1>4, PushesInsn
  <2>2. insns' = insns \o <<i>> \/ insns' = insns \o <<i, j>> BY <1>4 DEF VisitBinary, AssignTo, Emit
  <2>. QED BY <2>1, <2>2, PushlessShort
<1>6. Task.op \in WorkOps BY <1>1 DEF WorkOps, ExpressionOps
<1>. QED BY <1>1, <1>3, <1>5, <1>6, ScopeWork

LEMMA FreeTmpRoots == IInv /\ RInv /\ FreeTmp => RInv'
PROOF
<1>. SUFFICES ASSUME IInv, RInv, FreeTmp PROVE RInv' OBVIOUS
<1>1. phase = "generating" /\ Task.op = "free" BY DEF FreeTmp, At
<1>2. Top.kind \in InsideKinds /\ ctx' = Front(ctx) BY FreeTmpStep DEF FreeTmp, InsideKinds
<1>3. PICK more : more = <<Insn("add", Imm(Word), ESP)>> OBVIOUS
<1>4. Pushless(more) BY <1>3, PushesInsn, PushlessShort
<1>5. insns' = insns \o more /\ UNCHANGED <<phase, frame>> BY <1>3 DEF FreeTmp, Emit, where
<1>6. Task.op \in WorkOps BY <1>1 DEF WorkOps
<1>. QED BY <1>1, <1>2, <1>4, <1>5, <1>6, ScopeWork

LEMMA EndBlockRoots == IInv /\ RInv /\ EndBlock => RInv'
PROOF
<1>. SUFFICES ASSUME IInv, RInv, EndBlock PROVE RInv' OBVIOUS
<1>1. phase = "generating" /\ Task.op = "endblock" BY DEF EndBlock, At
<1>2. UNCHANGED <<phase, frame>> BY DEF EndBlock
<1>3. Task.op \in WorkOps BY <1>1 DEF WorkOps
<1>4. CASE Task.wasTop
  <2>1. ctx' = ctx /\ EmitNothing BY <1>4 DEF EndBlock
  <2>2. PICK more : more = <<>> OBVIOUS
  <2>3. insns' = insns \o more /\ Pushless(more) BY <1>1, <2>1, <2>2, NothingEmitted, PushlessShort
  <2>. QED BY <1>1, <1>2, <1>3, <2>1, <2>3, PlainWork
<1>5. CASE ~Task.wasTop
  <2>1. Top.kind \in InsideKinds /\ ctx' = Front(ctx) BY <1>5, EndBlockStep DEF InsideKinds
  <2>2. PICK more : more = <<Insn("add", Imm(Task.size), ESP)>> OBVIOUS
  <2>3. Pushless(more) BY <2>2, PushesInsn, PushlessShort
  <2>4. insns' = insns \o more BY <1>5, <2>2 DEF EndBlock, Emit
  <2>. QED BY <1>1, <1>2, <1>3, <2>1, <2>3, <2>4, ScopeWork
<1>. QED BY <1>4, <1>5

LEMMA CallRoots == IInv /\ RInv /\ (VisitCall \/ PushArg \/ DoCall) => RInv'
PROOF
<1>. SUFFICES ASSUME IInv, RInv, VisitCall \/ PushArg \/ DoCall PROVE RInv' OBVIOUS
<1>1. phase = "generating" /\ Task.op \in {"call", "push", "arguments"} BY DEF VisitCall, PushArg, DoCall, At
<1>2. Task.op \in WorkOps BY <1>1 DEF WorkOps
<1>3. PICK t : t = Top OBVIOUS
<1>4. DOMAIN t = {"kind", "vars", "next", "args", "arity"}
  <2>1. ContextsOK BY <1>1, HeadTask
  <2>. QED BY <1>3, <2>1, CurrentIsTop DEF ScopeOK, IsScope
<1>5. CASE phase' = "error" BY <1>5, NotGeneratingRoots
<1>6. CASE phase' # "error"
  <2>1. UNCHANGED <<phase, frame>> BY <1>6 DEF VisitCall, PushArg, DoCall, Fail, where
  <2>2. \E s : s.kind = Top.kind /\ s.vars = Top.vars /\ ctx' = WithTop(s)
    <3>1. CASE VisitCall
      <4>1. PICK s : s = [t EXCEPT !.arity = Len(Task.arguments)] OBVIOUS
      <4>2. ctx' = WithTop(s) BY <1>3, <1>6, <3>1, <4>1 DEF VisitCall, Fail
      <4>3. s.kind = t.kind /\ s.vars = t.vars BY <1>4, <4>1
      <4>. QED BY <1>3, <4>2, <4>3
    <3>2. CASE PushArg
      <4>1. PICK s : s = [t EXCEPT !.next = @ + Word, !.args = Append(@, depth + Word)] OBVIOUS
      <4>2. ctx' = WithTop(s) BY <1>3, <3>2, <4>1 DEF PushArg
      <4>3. s.kind = t.kind /\ s.vars = t.vars BY <1>4, <4>1
      <4>. QED BY <1>3, <4>2, <4>3
    <3>3. CASE DoCall
      <4>1. PICK s : s = [t EXCEPT !.next = @ - Word * t.arity, !.args = <<>>, !.arity = NoCall] OBVIOUS
      <4>2. ctx' = WithTop(s) BY <1>3, <3>3, <4>1 DEF DoCall
      <4>3. s.kind = t.kind /\ s.vars = t.vars BY <1>4, <4>1
      <4>. QED BY <1>3, <4>2, <4>3
    <3>. QED BY <3>1, <3>2, <3>3
  <2>3. \E more : Pushless(more) /\ insns' = insns \o more
    <3>1. CASE VisitCall
      <4>1. EmitNothing BY <1>6, <3>1 DEF VisitCall, Fail
      <4>. QED BY <1>1, <4>1, NothingEmitted, PushlessShort
    <3>2. CASE PushArg
      <4>1. PICK more : more = <<Insn1("push", EAX)>> OBVIOUS
      <4>2. Pushless(more) BY <4>1, PushesInsn, PushlessShort
      <4>. QED BY <3>2, <4>1, <4>2 DEF PushArg, Emit
    <3>3. CASE DoCall
      <4>1. PICK more : more = <<Insn1("call", Lbl(Task.callee_name)), Insn("add", Imm(Word * Top.arity), ESP)>> OBVIOUS
      <4>2. Pushless(more) BY <4>1, PushesInsn, PushlessShort
      <4>. QED BY <3>3, <4>1, <4>2 DEF DoCall, Emit
    <3>. QED BY <3>1, <3>2, <3>3
  <2>. QED BY <1>1, <1>2, <2>1, <2>2, <2>3, ScopeWork
<1>. QED BY <1>5, <1>6

-----------------------------------------------------------------------------
(* The steps that set up a frame, enter its body, or leave it. *)

LEMMA InitializePushless ==
  ASSUME NEW ds, IsSequence(ds), NEW c
  PROVE  Pushless(Initialize(ds, c))
PROOF
<1>1. PICK s : s = Initialize(ds, c) OBVIOUS
<1>2. DOMAIN ds = 1..Len(ds) /\ Len(ds) \in Nat BY SequenceBasics
<1>3. s = [i \in 1..Len(ds) |-> Insn("movl", Imm(0), Mem(-Lookup(c, ds[i].id).off, "ebp"))]
  BY <1>1, <1>2 DEF Initialize
<1>4. IsSequence(s) /\ Len(s) = Len(ds) BY <1>2, <1>3, ToSequence
<1>5. \A i \in 1..Len(s) : ~Pushes(s[i]) BY <1>3, <1>4, PushesInsn
<1>. QED BY <1>1, <1>4, <1>5 DEF Pushless

LEMMA EnteringCode ==
  ASSUME NEW ds, IsSequence(ds), NEW c, NEW more, more = Reserve(ds) \o Initialize(ds, c)
  PROVE  Pushless(more) /\ more # <<>> /\ ~Pushes(more[1])
PROOF
<1>1. PICK a, b : a = Reserve(ds) /\ b = Initialize(ds, c) OBVIOUS
<1>2. a = <<Insn("sub", Imm(Word * Len(ds)), ESP)>> BY <1>1 DEF Reserve
<1>3. Pushless(a) /\ Pushless(b) BY <1>1, <1>2, PushesInsn, PushlessShort, InitializePushless
<1>4. IsSequence(a) /\ Len(a) = 1 /\ IsSequence(b) /\ Len(b) \in Nat BY <1>2, <1>3, SequenceBasics DEF Pushless
<1>5. PICK t : t = a \o b OBVIOUS
<1>6. Pushless(t) BY <1>3, <1>5, PushlessConcat
<1>7. IsSequence(t) /\ Len(t) = 1 + Len(b)
  <2>1. IsSequence(t) /\ Len(t) = Len(a) + Len(b) BY <1>4, <1>5, ConcatSequences
  <2>. QED BY <1>4, <2>1
<1>8. t # <<>> /\ 1 \in 1..Len(t) BY <1>4, <1>7, SequenceBasics
<1>. QED BY <1>1, <1>5, <1>6, <1>8 DEF Pushless

\* The context opened for a body holds its locals, the one around it the
\* parameters.
LEMMA HomesMade ==
  ASSUME NEW c, IsSequence(c), c # <<>>, Outside(c), NEW kind, NEW ps, NEW ds,
         kind = "def" => c[Len(c)].vars = ParamVars(ps)
  PROVE  Homes(Append(c, BlockScope("body", 12, ds)), kind, ps, ds)
PROOF
<1>1. Len(c) \in Nat \ {0} BY SequenceBasics
<1>2. PICK s, d : s = BlockScope("body", 12, ds) /\ d = Append(c, s) OBVIOUS
<1>3. Len(d) = Len(c) + 1 /\ d[Len(c) + 1] = s /\ \A i \in 1..Len(c) : d[i] = c[i] BY <1>2, AppendSequence
<1>4. s.kind = "body" /\ s.vars = BlockVars(12, ds) BY <1>2 DEF BlockScope
<1>5. PICK b : b = Len(c) + 1 OBVIOUS
<1>6. b \in 1..Len(d) /\ d[b] = s /\ b > 1 /\ b - 1 \in 1..Len(c) /\ b - 1 = Len(c) BY <1>1, <1>3, <1>5
<1>7. \A i \in 1..(b - 1) : d[i].kind \in OutsideKinds BY <1>3, <1>6 DEF Outside
<1>8. (b + 1)..Len(d) = {} BY <1>1, <1>3, <1>5
<1>9. kind = "def" => d[b - 1].vars = ParamVars(ps) BY <1>3, <1>6
<1>10. Homes(d, kind, ps, ds) BY <1>4, <1>6, <1>7, <1>8, <1>9 DEF Homes
<1>. QED BY <1>2, <1>10

LEMMA VisitBlockRoots == IInv /\ RInv /\ VisitBlock => RInv'
PROOF
<1>. SUFFICES ASSUME IInv, RInv, VisitBlock, phase' # "error" PROVE RInv' BY NotGeneratingRoots
<1>1. phase = "generating" BY DEF VisitBlock, At
<1>2. PICK ds : ds = Task.decls OBVIOUS
<1>3. /\ ds \in Seq(Declarations) /\ DistinctIds(ds)
      /\ ctx' = Append(ctx, BlockScope(IF inTop THEN "body" ELSE "block", Top.next, ds))
      /\ IF inTop THEN InFrame(View) /\ Top.kind \in {"root", "params"} ELSE AtStatement(View)
  BY <1>2, VisitBlockStep
<1>4. IsSequence(ds) BY <1>3, IsSequenceIn
<1>5. UNCHANGED <<phase, frame>> BY DEF VisitBlock, Fail
<1>6. PICK opened, more : /\ opened = Declare(OpenScope(ctx, IF inTop THEN "body" ELSE "block"), ds)
                          /\ more = Reserve(ds) \o Initialize(ds, opened)
  OBVIOUS
<1>7. insns' = insns \o more BY <1>2, <1>6 DEF VisitBlock, Fail, Emit
<1>8. Pushless(more) /\ Unpaired(more) /\ more # <<>> /\ ~Pushes(more[1]) BY <1>4, <1>6, EnteringCode, PushlessIs
<1>9. PICK c : c = ctx OBVIOUS
<1>10. /\ IsSequence(c) /\ c # <<>> /\ Len(c) \in 1..Len(c) /\ Top = c[Len(c)] /\ Current(View) = Shape(Top)
       /\ View.frame = frame.kind
  BY <1>1, <1>9, HeadTask, CurrentIsTop DEF ContextsOK, Top
<1>11. CASE inTop
  <2>1. frame.kind # "none" /\ Top.kind \in {"root", "params"} BY <1>3, <1>10, <1>11 DEF InFrame
  <2>2. PICK ps \in Seq(Declarations), es \in Seq(Declarations) :
          /\ Noted(insns, frame.kind, ps, es) /\ Counted(frame, ps)
          /\ AwaitsBody(ps, es) \/ InBody(ps, es)
    BY <1>1, <2>1 DEF RInv
  <2>3. ASSUME InBody(ps, es) PROVE FALSE
    <3>1. PICK b \in 1..Len(c) : c[b].kind = "body" /\ \A i \in (b + 1)..Len(c) : c[i].kind \in InsideKinds
      BY <1>9, <2>3 DEF InBody, Homes
    <3>2. b = Len(c) \/ Len(c) \in (b + 1)..Len(c) BY <1>10
    <3>. QED BY <1>10, <2>1, <3>1, <3>2 DEF InsideKinds
  <2>4. AwaitsBody(ps, es) BY <2>2, <2>3
  <2>5. es = ds /\ Outside(c) /\ Top.next = 12 /\ (frame.kind = "def" => c[Len(c)].vars = ParamVars(ps))
    BY <1>2, <1>9, <1>10, <2>4 DEF AwaitsBody
  <2>6. Homes(Append(c, BlockScope("body", 12, ds)), frame.kind, ps, ds) BY <1>10, <2>5, HomesMade
  <2>7. Homes(ctx', frame.kind, ps, ds) BY <1>3, <1>9, <1>11, <2>5, <2>6
  <2>8. PICK is : is = insns OBVIOUS
  <2>9. IsSequence(is) BY <1>1, <2>8, HeadTask DEF CodeOK
  <2>10. /\ ~EndsInPush(is \o more)
         /\ \A n, args, locals : NotedAt(is, n, args, locals) => NotedAt(is \o more, n, args, locals)
    BY <1>8, <2>9, UnpairedFollows
  <2>11. Noted(is \o more, frame.kind, ps, ds) BY <2>2, <2>5, <2>8, <2>10 DEF Noted
  <2>12. InBody(ps, ds)' BY <1>3, <1>5, <1>7, <2>7, <2>8, <2>10 DEF InBody
  <2>13. Noted(insns, frame.kind, ps, ds)' BY <1>5, <1>7, <2>8, <2>11
  <2>14. Counted(frame, ps)' BY <1>5, <2>2 DEF Counted
  <2>. QED BY <1>3, <2>12, <2>13, <2>14, <1>5, <2>1 DEF RInv
<1>12. CASE ~inTop
  <2>1. AtStatement(View) BY <1>3, <1>12
  <2>2. frame.kind # "none" /\ Top.kind \in {"body", "block"} BY <1>10, <2>1 DEF AtStatement, InFrame, Shape
  <2>3. ~Outside(ctx) BY <1>9, <1>10, <2>2 DEF Outside, OutsideKinds
  <2>4. PICK s : s = BlockScope("block", Top.next, ds) OBVIOUS
  <2>5. s.kind \in InsideKinds BY <2>4 DEF BlockScope, InsideKinds
  <2>6. ctx' = Append(c, s) BY <1>3, <1>9, <1>12, <2>4
  <2>7. \A ps, es : Homes(ctx, frame.kind, ps, es) => Homes(ctx', frame.kind, ps, es)
    BY <1>9, <1>10, <2>5, <2>6, HomesOpened
  <2>8. phase' = "generating" /\ frame' = frame BY <1>1, <1>5
  <2>. QED BY <1>1, <1>7, <1>8, <2>2, <2>3, <2>7, <2>8, InsideStep
<1>. QED BY <1>11, <1>12

\* Between two definitions no frame is set up.
LEMMA NoFrame ==
  ASSUME IInv, RInv, phase = "generating", BetweenDefinitions(View)
  PROVE  frame.kind = "none" /\ ~EndsInPush(insns) /\ Outside(ctx) /\ Top.next = 12
PROOF
<1>1. View.frame = frame.kind /\ Current(View) = Shape(Top) BY HeadTask, CurrentIsTop
<1>. QED BY <1>1 DEF BetweenDefinitions, RInv, Shape

LEMMA TablesRoots == IInv /\ RInv /\ (VisitTypeDef \/ AddFunction) => RInv'
PROOF
<1>. SUFFICES ASSUME IInv, RInv, VisitTypeDef \/ AddFunction, phase' # "error" PROVE RInv' BY NotGeneratingRoots
<1>1. phase = "generating" /\ UNCHANGED <<phase, ctx, frame, insns>>
  BY DEF VisitTypeDef, AddFunction, At, Fail, EmitNothing, where
<1>2. BetweenDefinitions(View) BY VisitTypeDefStep, AddFunctionStep
<1>3. frame.kind = "none" /\ ~EndsInPush(insns) /\ Outside(ctx) BY <1>1, <1>2, NoFrame
<1>. QED BY <1>1, <1>3 DEF RInv, EndsInPush, Outside

\* The first of the tasks that a step adds is the next.
LEMMA NextTask ==
  ASSUME IInv, phase = "generating", NEW a, NEW b, NEW c, Then(<<a, b, c>>)
  PROVE  Task' = a
PROOF
<1>1. PICK t, new : t = todo /\ new = <<a, b, c>> OBVIOUS
<1>2. IsSequence(t) /\ t # <<>> BY <1>1, HeadTask
<1>3. IsSequence(new) /\ Len(new) = 3 /\ new[1] = a BY <1>1 DEF IsSequence, ToSet
<1>4. PICK r, u : r = Tail(t) /\ u = new \o r OBVIOUS
<1>5. IsSequence(r) /\ Len(r) \in Nat BY <1>2, <1>4, TailSequence, SequenceBasics
<1>6. IsSequence(u) /\ Len(u) = 3 + Len(r) /\ u[1] = a
  <2>1. IsSequence(u) /\ Len(u) = Len(new) + Len(r) /\ \A i \in 1..Len(new) : u[i] = new[i]
    BY <1>3, <1>4, <1>5, ConcatSequences
  <2>2. 1 \in 1..3 OBVIOUS
  <2>. QED BY <1>3, <2>1, <2>2
<1>7. u # <<>> /\ Head(u) = u[1] BY <1>5, <1>6, SequenceBasics
<1>8. todo' = u BY <1>1, <1>4 DEF Then
<1>. QED BY <1>6, <1>7, <1>8 DEF Task

LEMMA VisitFunctionDefRoots == IInv /\ RInv /\ VisitFunctionDef => RInv'
PROOF
<1>. SUFFICES ASSUME IInv, RInv, VisitFunctionDef PROVE RInv' OBVIOUS
<1>1. phase = "generating" /\ phase' = "generating" /\ frame'.kind = "def" BY DEF VisitFunctionDef, At
<1>2. Task \in FunctionDefs(AllTrees) /\ ctx' = Append(RootContext, ParamScope(Task.parameters))
  BY VisitFunctionDefStep
<1>3. PICK ps, body, ds, l : /\ ps = Task.parameters /\ body = Task.function_body /\ ds = body.decls
                             /\ l = Task.function_name
  OBVIOUS
<1>4. ps \in Seq(Declarations) /\ body \in AllTrees.blocks BY <1>2, <1>3, FunctionParts
<1>5. body.op = "block" /\ ds \in Seq(Declarations) BY <1>3, <1>4, BlockParts
<1>6. PICK is, t : is = insns /\ t = is \o Prologue(l, PointerBits(ps), PointerBits(ds)) OBVIOUS
<1>7. insns' = t BY <1>3, <1>6 DEF VisitFunctionDef, Emit
<1>8. IsSequence(is) BY <1>1, <1>6, HeadTask DEF CodeOK
<1>9. NotedAt(t, Len(is) + 5, PointerBits(ps), PointerBits(ds)) BY <1>6, <1>8, PrologueNotes
<1>10. Noted(t, "def", ps, ds) BY <1>9 DEF Noted
<1>11. Noted(insns, frame.kind, ps, ds)' BY <1>1, <1>7, <1>10
<1>12. PICK r, p, d : r = RootContext /\ p = ParamScope(ps) /\ d = Append(r, p) OBVIOUS
<1>13. IsSequence(r) /\ Len(r) = 1 /\ r[1].kind = "root" BY <1>12, RootFacts DEF RootScope
<1>14. p.kind = "params" /\ p.next = 12 /\ p.vars = ParamVars(ps) BY <1>12 DEF ParamScope
<1>15. Len(d) = 2 /\ d[1].kind = "root" /\ d[2] = p
  <2>1. Len(Append(r, p)) = Len(r) + 1 /\ Append(r, p)[Len(r) + 1] = p
        /\ \A i \in 1..Len(r) : Append(r, p)[i] = r[i]
    BY ONLY <1>13, AppendSequence
  <2>2. PICK q : q = Append(r, p) OBVIOUS
  <2>3. Len(q) = Len(r) + 1 /\ q[Len(r) + 1] = p /\ \A i \in 1..Len(r) : q[i] = r[i]
    BY ONLY <2>1, <2>2
  <2>4. Len(q) = 1 + 1 /\ q[1 + 1] = p /\ q[1] = r[1]
    <3>1. 1 \in 1..1 OBVIOUS
    <3>. QED BY ONLY <1>13, <2>3, <3>1
  <2>5. 1 + 1 = 2 OBVIOUS
  <2>6. q = d BY ONLY <1>12, <2>2
  <2>. QED BY ONLY <1>13, <2>4, <2>5, <2>6
<1>16. Outside(d)
  <2>1. \A i \in 1..2 : i = 1 \/ i = 2 OBVIOUS
  <2>. QED BY <1>14, <1>15, <2>1 DEF Outside, OutsideKinds
<1>17. ctx' = d /\ Top' = p BY <1>2, <1>3, <1>12, <1>15 DEF Top
<1>18. Task' = body BY <1>1, <1>3, NextTask DEF VisitFunctionDef
<1>19. AwaitsBody(ps, ds)' BY <1>3, <1>5, <1>14, <1>16, <1>17, <1>18 DEF AwaitsBody
<1>20. Counted(frame, ps)'
  <2>1. PICK q : q = [i \in DOMAIN ps |-> ps[i].id] OBVIOUS
  <2>2. IsSequence(ps) /\ Len(ps) \in Nat /\ DOMAIN ps = 1..Len(ps) BY <1>4, IsSequenceIn, SequenceBasics
  <2>3. Len(q) = Len(ps) BY <2>1, <2>2, ToSequence
  <2>4. frame' = [kind |-> "def", params |-> q, begun |-> frame.begun + 1] BY <1>3, <2>1 DEF VisitFunctionDef
  <2>5. frame'.params = q BY <2>4
  <2>. QED BY <2>3, <2>5 DEF Counted
<1>. QED BY <1>1, <1>4, <1>5, <1>11, <1>19, <1>20 DEF RInv

LEMMA VisitEntryRoots == IInv /\ RInv /\ VisitEntry => RInv'
PROOF
<1>. SUFFICES ASSUME IInv, RInv, VisitEntry PROVE RInv' OBVIOUS
<1>1. phase = "generating" /\ phase' = "generating" /\ ctx' = ctx BY DEF VisitEntry, At
<1>2. frame'.kind = "entry"
  <2>1. PICK f : f = frame OBVIOUS
  <2>2. DOMAIN f = {"kind", "params", "begun"} BY <1>1, <2>1, HeadTask DEF NumbersOK
  <2>3. frame' = [f EXCEPT !.kind = "entry", !.params = <<>>] BY <2>1 DEF VisitEntry
  <2>. QED BY <2>2, <2>3
<1>3. Outside(ctx) /\ Top.next = 12 BY <1>1, VisitEntryStep, NoFrame
<1>4. PICK body, ds : body = prog.statements /\ ds = body.decls OBVIOUS
<1>5. body \in AllTrees.blocks BY <1>1, <1>4, HeadTask, ProgramParts
<1>6. body.op = "block" /\ ds \in Seq(Declarations) BY <1>4, <1>5, BlockParts
<1>7. PICK is, t : is = insns /\ t = is \o Prologue("Entry", 0, PointerBits(ds)) OBVIOUS
<1>8. insns' = t BY <1>4, <1>7 DEF VisitEntry, Emit
<1>9. IsSequence(is) BY <1>1, <1>7, HeadTask DEF CodeOK
<1>10. NotedAt(t, Len(is) + 5, 0, PointerBits(ds)) BY <1>7, <1>9, PrologueNotes
<1>11. PICK ps : ps = <<>> /\ ps \in Seq(Declarations)
  <2>1. <<>> \in Seq(Declarations) OBVIOUS
  <2>. QED BY <2>1
<1>12. Noted(t, "entry", ps, ds) BY <1>10 DEF Noted
<1>13. Noted(insns, frame.kind, ps, ds)' BY <1>2, <1>8, <1>12
<1>14. Task' = body BY <1>1, <1>4, NextTask DEF VisitEntry
<1>15. AwaitsBody(ps, ds)' BY <1>1, <1>2, <1>3, <1>4, <1>6, <1>14 DEF AwaitsBody, Outside, Top
<1>16. Counted(frame, ps)' BY <1>2 DEF Counted
<1>. QED BY <1>1, <1>2, <1>6, <1>11, <1>13, <1>15, <1>16 DEF RInv

LEMMA EpiloguePushless ==
  ASSUME NEW size
  PROVE  Pushless(Epilogue(size))
PROOF
<1>1. PICK a, b, c, d : /\ a = Insn("add", Imm(size), ESP) /\ b = Insn("movl", EBP, ESP)
                        /\ c = Insn1("pop", EBP) /\ d = Insn("ret", None, None)
  OBVIOUS
<1>2. ~Pushes(a) /\ ~Pushes(b) /\ ~Pushes(c) /\ ~Pushes(d) BY <1>1, PushesInsn
<1>3. PICK t : t = <<a, b, c, d>> OBVIOUS
<1>4. IsSequence(t) /\ Len(t) = 4 /\ t[1] = a /\ t[2] = b /\ t[3] = c /\ t[4] = d BY <1>3 DEF IsSequence, ToSet
<1>5. \A i \in 1..4 : i = 1 \/ i = 2 \/ i = 3 \/ i = 4 OBVIOUS
<1>6. Pushless(t) BY <1>2, <1>4, <1>5 DEF Pushless
<1>. QED BY <1>1, <1>3, <1>6 DEF Epilogue

LEMMA EndFunctionDefRoots == IInv /\ RInv /\ EndFunctionDef => RInv'
PROOF
<1>. SUFFICES ASSUME IInv, RInv, EndFunctionDef PROVE RInv' OBVIOUS
<1>1. phase = "generating" /\ phase' = "generating" BY DEF EndFunctionDef, At
<1>2. frame'.kind = "none"
  <2>1. PICK f : f = frame OBVIOUS
  <2>2. DOMAIN f = {"kind", "params", "begun"} BY <1>1, <2>1, HeadTask DEF NumbersOK
  <2>3. frame' = [f EXCEPT !.kind = "none", !.params = <<>>] BY <2>1 DEF EndFunctionDef
  <2>. QED BY <2>2, <2>3
<1>3. AfterBody(View) /\ frame.kind = "def" /\ ctx' = Front(ctx) BY EndFunctionDefStep
<1>4. PICK c : c = ctx OBVIOUS
<1>5. /\ IsSequence(c) /\ c # <<>> /\ Len(c) \in Nat \ {0} /\ Len(c) \in 1..Len(c) /\ Top = c[Len(c)]
      /\ Current(View) = Shape(Top)
  BY <1>1, <1>4, HeadTask, CurrentIsTop DEF ContextsOK, Top
<1>6. c[Len(c)].kind = "body" BY <1>3, <1>5 DEF AfterBody, Shape
<1>7. ~Outside(ctx) BY <1>4, <1>5, <1>6 DEF Outside, OutsideKinds
<1>8. PICK ps, ds : InBody(ps, ds) BY <1>1, <1>3, <1>7 DEF RInv, AwaitsBody
<1>9. PICK b \in 1..Len(c) :
        /\ \A i \in 1..(b - 1) : c[i].kind \in OutsideKinds
        /\ \A i \in (b + 1)..Len(c) : c[i].kind \in InsideKinds
  BY <1>4, <1>8 DEF InBody, Homes
<1>10. b = Len(c)
  <2>1. b = Len(c) \/ Len(c) \in (b + 1)..Len(c) BY <1>5
  <2>. QED BY <1>6, <1>9, <2>1 DEF InsideKinds
<1>11. PICK d : d = Front(c) OBVIOUS
<1>12. Len(d) = Len(c) - 1 /\ \A i \in 1..(Len(c) - 1) : d[i] = c[i] BY <1>5, <1>11, FrontSequence
<1>13. Outside(d) BY <1>9, <1>10, <1>12 DEF Outside
<1>14. Outside(ctx)' BY <1>3, <1>4, <1>11, <1>13 DEF Outside
<1>15. PICK more : more = Epilogue(Word * Len(Task.def.function_body.decls)) OBVIOUS
<1>16. Unpaired(more) BY <1>15, EpiloguePushless, PushlessIs
<1>17. PICK is : is = insns OBVIOUS
<1>18. IsSequence(is) /\ ~EndsInPush(is) BY <1>1, <1>8, <1>17, HeadTask DEF CodeOK, InBody
<1>19. ~EndsInPush(is \o more) BY <1>16, <1>18, UnpairedFollows
<1>20. insns' = is \o more BY <1>15, <1>17 DEF EndFunctionDef, Emit
<1>. QED BY <1>2, <1>14, <1>19, <1>20 DEF RInv

LEMMA GenerateCodeRoots == IInv /\ GenerateCode => RInv'
PROOF
<1>. SUFFICES ASSUME IInv, GenerateCode PROVE RInv' OBVIOUS
<1>1. phase = "ready" /\ frame' = frame /\ ctx' = RootContext /\ insns' = <<>> BY DEF GenerateCode
<1>2. frame.kind = "none" BY <1>1 DEF IInv, FreshOK
<1>3. PICK c : c = RootContext OBVIOUS
<1>4. Len(c) = 1 /\ c[1].kind = "root" BY <1>3, RootFacts DEF RootScope
<1>5. Outside(c)
  <2>1. \A i \in 1..1 : i = 1 OBVIOUS
  <2>. QED BY <1>4, <2>1 DEF Outside, OutsideKinds
<1>6. ctx' = c BY <1>1, <1>3
<1>. QED BY <1>1, <1>2, <1>5, <1>6 DEF RInv, EndsInPush

LEMMA StutterRoots == RInv /\ UNCHANGED vars => RInv'
PROOF
<1>. SUFFICES ASSUME RInv, UNCHANGED vars PROVE RInv' OBVIOUS
<1>1. UNCHANGED <<phase, todo, ctx, insns, frame>> BY DEF vars, where
<1>. QED BY <1>1 DEF RInv, AwaitsBody, InBody, Task, Top

LEMMA KeepsRoots ==
  ASSUME IInv, RInv, [Next]_vars
  PROVE  RInv'
PROOF
<1>1. CASE GenerateCode BY <1>1, GenerateCodeRoots
<1>2. CASE Step
  <2>1. CASE FreeTmp \/ EmitCode \/ SaveTmp \/ VisitConstant \/ VisitNew \/ VisitAccessPath \/ FollowField
    BY <2>1, FreeTmpRoots, EmitCodeRoots, SaveTmpRoots, VisitConstantRoots, VisitNewRoots, VisitAccessPathRoots, FollowFieldRoots
  <2>2. CASE LoadPath \/ VisitBinary \/ ApplyOperator \/ VisitNot \/ VisitBlock \/ EndBlock
    BY <2>2, LoadPathRoots, TmpRoots, ApplyOperatorRoots, PartsRoots, VisitBlockRoots, EndBlockRoots
  <2>3. CASE VisitAssignment \/ AssignTo \/ StoreValue \/ VisitConditional \/ VisitLoop
    BY <2>3, PartsRoots, TmpRoots, StoreValueRoots, VisitLoopRoots
  <2>4. CASE VisitCall \/ NextArgument \/ PushArg \/ DoCall BY <2>4, PartsRoots, CallRoots
  <2>5. CASE VisitTypeDef \/ AddFunction \/ VisitFunctionDef \/ EndFunctionDef \/ VisitEntry
    BY <2>5, TablesRoots, VisitFunctionDefRoots, EndFunctionDefRoots, VisitEntryRoots
  <2>6. CASE EndEntry
    <3>1. phase' = "done" BY <2>6 DEF EndEntry
    <3>. QED BY <3>1, NotGeneratingRoots
  <2>. QED BY <1>2, <2>1, <2>2, <2>3, <2>4, <2>5, <2>6 DEF Step
<1>3. CASE Idle \/ UNCHANGED vars BY <1>3, StutterRoots DEF Idle
<1>. QED BY <1>1, <1>2, <1>3 DEF Next

\* What the collector is told about a frame agrees with where the generator
\* puts the variables, in Entry and in every function of every program: a bit
\* of the words pushed by the prologue is set exactly for a local, or a
\* parameter, that is not an int, wherever there are at most 32 locals, or
\* parameters, so that none shares the bit of another.
THEOREM RootInfoHolds ==
  ASSUME Programs \subseteq ProgramTrees(AllTrees)
  PROVE  Spec => []RootInfoMatches
PROOF
<1>1. Init => RInv BY DEF Init, RInv
<1>2. IInv /\ RInv => RootInfoMatches BY RootsAreRight
<1>. QED BY StartsRight, KeepsInvariant, KeepsRoots, <1>1, <1>2, PTL DEF Spec

=============================================================================
