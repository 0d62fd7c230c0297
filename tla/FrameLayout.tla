----------------------------- MODULE FrameLayout -----------------------------
(***************************************************************************)
(* The stack-frame discipline of the L2 code generator                     *)
(* (backend/codegen.cpp): what the symbol table says about the frame,      *)
(* followed next to what the emitted instructions do to the stack pointer. *)
(*                                                                         *)
(* The generator never tests the stack pointer.  It addresses variables    *)
(* and temporaries from EBP, at offsets it computes from nextOffset, and   *)
(* moves ESP with literal push, sub and add instructions.  A program is    *)
(* compiled correctly only while the two agree.                            *)
(*                                                                         *)
(* A behaviour is the visit of one program, construct by construct, with   *)
(* the syntax tree left open: any legal nesting of blocks, temporaries,    *)
(* allocations and calls may come next.  A construct is entered by one     *)
(* action and left by another; expressions that neither move ESP nor       *)
(* change the symbol table are stuttering steps.                           *)
(***************************************************************************)
EXTENDS Integers, Sequences, SequencesExt

CONSTANTS
  Names,      \* identifiers a program may use
  TmpName,    \* stands for every tmp_N: no identifier holds an underscore
  NameLists,  \* bound: lists of parameters, and of declarations
  DefCounts,  \* bound: functions there may be when one more is defined
  Nestings,   \* bound: scopes that may be open when one more is opened
  ArgCounts,  \* bound: arguments of a call
  Leaks       \* bound: bytes that may have been leaked when `new` is met

ASSUME NamesAssumption == TmpName \notin Names
ASSUME BoundsAssumption ==
  /\ NameLists \subseteq Seq(Names)
  /\ DefCounts \subseteq Nat /\ Nestings \subseteq Nat /\ ArgCounts \subseteq Nat /\ Leaks \subseteq Nat

VARIABLES
  phase,   \* "idle" between definitions, "def" in a function, "entry" in the
           \* main program, then "done"; "error" once CodeGenError is thrown
  defs,    \* how many functions have been generated
  params,  \* parameter names of the definition being visited
  ctx,     \* SymbolTable::ctx, outermost context first
  depth,   \* EBP - ESP, in bytes, after the instructions emitted so far
  leaked   \* bytes of depth that no later instruction of the frame gives back

vars == <<phase, defs, params, ctx, depth, leaked>>

-----------------------------------------------------------------------------
(* Contexts.  vars and next are varInfo and nextOffset; kind names the      *)
(* construct that opened the scope; args and arity belong to the call       *)
(* being visited directly in that scope, if any: the frame slots of the     *)
(* arguments pushed so far, and how many it has in all.                     *)

NoCall == -1
Word == 4
Unbound == 0   \* no variable lives at EBP itself
AllNames == Names \cup {TmpName}
Kinds  == {"root", "params", "body", "block", "tmp"}

Scopes == [kind : Kinds, vars : [AllNames -> Int], next : Int,
           args : Seq(Int), arity : Nat \cup {NoCall}]

NewScope(kind, bindings, next) ==
  [kind |-> kind, vars |-> bindings, next |-> next, args |-> <<>>, arity |-> NoCall]

Bound(scope) == {x \in AllNames : scope.vars[x] # Unbound}

\* Mutant of RootScope: a nextOffset that forgets the words of root information.
RootScopeAtEight == NewScope("root", [x \in AllNames |-> Unbound], 8)

RootScope == NewScope("root", [x \in AllNames |-> Unbound], 12)

\* The context now current.
Top == ctx[Len(ctx)]

\* The current context replaced by s, its parents untouched.
WithTop(s) == Append(Front(ctx), s)

\* Where the definition of a function finds its i-th parameter.
ParamOffset(i) == -4 - Word * i

FirstIndex(s, x) ==
  CHOOSE i \in DOMAIN s : s[i] = x /\ \A j \in 1..(i - 1) : s[j] # x

\* insert() keeps the first of two parameters of one name; the offset moves
\* on in either case.
ParamBindings(ps) ==
  [x \in AllNames |-> IF x \in ToSet(ps) THEN ParamOffset(FirstIndex(ps, x)) ELSE Unbound]

\* allocateVar() for each declaration, from offset base on.
DeclBindings(ds, base) ==
  [x \in AllNames |->
     IF x \in ToSet(ds) THEN base + Word * (FirstIndex(ds, x) - 1) ELSE Unbound]

\* VisitBlockStmt: openScope(), then one slot for each declaration.
OpenBlock(kind, ds) ==
  Append(ctx, NewScope(kind, DeclBindings(ds, Top.next), Top.next + Word * Len(ds)))

\* Mutant of OpenTmp: allocateVar() does not move nextOffset.
OpenTmpInPlace ==
  Append(ctx, NewScope("tmp", [RootScope.vars EXCEPT ![TmpName] = Top.next], Top.next))

\* TmpVar: openScope(), then one slot for the temporary.
OpenTmp ==
  Append(ctx, NewScope("tmp", [RootScope.vars EXCEPT ![TmpName] = Top.next],
                       Top.next + Word))

CloseScope == Front(ctx)

\* The visitor is inside an expression or a statement list, so that a
\* sub-expression may come next; the arguments of a call are not exceeded.
InCode == /\ Top.kind \in {"body", "block", "tmp"}
          /\ Top.arity # NoCall => Len(Top.args) < Top.arity

\* The visitor is between two statements of a block.
AtStatement == Top.kind \in {"body", "block"} /\ Top.arity = NoCall

-----------------------------------------------------------------------------
Init ==
  /\ phase = "idle"
  /\ defs = 0
  /\ params = <<>>
  /\ ctx = <<RootScope>>
  /\ depth = 0
  /\ leaked = 0

\* Mutant of DefineFunction: no resetLocalsInfo().
DefineFunctionNoReset ==
  /\ phase = "idle" /\ defs \in DefCounts
  /\ \E ps \in NameLists :
       /\ params' = ps
       /\ ctx' = Append(ctx, NewScope("params", ParamBindings(ps), Top.next))
  /\ phase' = "def"
  /\ defs' = defs + 1
  /\ depth' = 8
  /\ leaked' = 0

\* A type or a function defined twice, found before any function is generated.
RejectDefinition ==
  /\ phase = "idle" /\ defs = 0
  /\ phase' = "error"
  /\ UNCHANGED <<defs, params, ctx, depth, leaked>>

\* VisitFunctionDefExpr up to its body: reset the contexts, emit the
\* prologue (EBP and the two words of root information), bind parameters.
DefineFunction ==
  /\ phase = "idle" /\ defs \in DefCounts
  /\ \E ps \in NameLists :
       /\ params' = ps
       /\ ctx' = <<RootScope, NewScope("params", ParamBindings(ps), RootScope.next)>>
  /\ phase' = "def"
  /\ defs' = defs + 1
  /\ depth' = 8
  /\ leaked' = 0

\* VisitProgramExpr from the label Entry to its prologue: the contexts stay.
StartEntry ==
  /\ phase = "idle"
  /\ phase' = "entry"
  /\ params' = <<>>
  /\ depth' = 8
  /\ leaked' = 0
  /\ UNCHANGED <<defs, ctx>>

\* VisitBlockStmt of a function body or of the main block.
EnterBody ==
  /\ phase \in {"def", "entry"}
  /\ Top.kind \in {"root", "params"}
  /\ \E ds \in NameLists :
       IF IsInjective(ds)
       THEN /\ ctx' = OpenBlock("body", ds)
            /\ depth' = depth + Word * Len(ds)
            /\ UNCHANGED phase
       ELSE phase' = "error" /\ UNCHANGED <<ctx, depth>>
  /\ UNCHANGED <<defs, params, leaked>>

\* VisitBlockStmt of a branch or a loop body.  Declarations are refused.
EnterBlock ==
  /\ phase \in {"def", "entry"} /\ AtStatement
  /\ Len(ctx) \in Nestings
  /\ \/ ctx' = OpenBlock("block", <<>>) /\ UNCHANGED phase
     \/ phase' = "error" /\ UNCHANGED ctx
  /\ UNCHANGED <<defs, params, depth, leaked>>

LeaveBlock ==
  /\ phase \in {"def", "entry"} /\ AtStatement /\ Top.kind = "block"
  /\ ctx' = CloseScope
  /\ UNCHANGED <<phase, defs, params, depth, leaked>>

\* The constructor of TmpVar: an operand or the value of an assignment.
FreshTmp ==
  /\ phase \in {"def", "entry"} /\ InCode
  /\ Len(ctx) \in Nestings
  /\ ctx' = OpenTmp
  /\ depth' = depth + Word
  /\ UNCHANGED <<phase, defs, params, leaked>>

\* Mutant of FreeTmp: the word is not given back.
FreeTmpKeepsWord ==
  /\ phase \in {"def", "entry"} /\ Top.kind = "tmp"
  /\ ctx' = CloseScope
  /\ UNCHANGED <<phase, defs, params, depth, leaked>>

\* The destructor of TmpVar.
FreeTmp ==
  /\ phase \in {"def", "entry"} /\ Top.kind = "tmp"
  /\ ctx' = CloseScope
  /\ depth' = depth - Word
  /\ UNCHANGED <<phase, defs, params, leaked>>

\* Mutant of NewSpace: twice the word is popped.
NewSpaceOverPopped == Word - 2 * Word

\* What VisitNewExpr does to ESP: pushl of the size, then sub $4 where the
\* word was to be popped.
NewSpace == 2 * Word

VisitNew ==
  /\ phase \in {"def", "entry"} /\ InCode
  /\ leaked \in Leaks
  /\ depth' = depth + NewSpace
  /\ leaked' = leaked + NewSpace
  /\ UNCHANGED <<phase, defs, params, ctx>>

\* A name in an expression that is not known: a variable that no context
\* holds, a field its type does not have, a type after `new`.
RejectName ==
  /\ phase \in {"def", "entry"} /\ InCode
  /\ phase' = "error"
  /\ UNCHANGED <<defs, params, ctx, depth, leaked>>

\* VisitFunctionCallExpr: a call is the whole right-hand side of an
\* assignment.  Its arity may be refused.
BeginCall ==
  /\ phase \in {"def", "entry"} /\ AtStatement
  /\ \/ \E n \in ArgCounts : ctx' = WithTop([Top EXCEPT !.arity = n]) /\ UNCHANGED phase
     \/ phase' = "error" /\ UNCHANGED ctx
  /\ UNCHANGED <<defs, params, depth, leaked>>

\* Mutant of PushArg: nextOffset stays.
PushArgUncounted ==
  /\ phase \in {"def", "entry"}
  /\ Top.arity # NoCall /\ Len(Top.args) < Top.arity
  /\ depth' = depth + Word
  /\ ctx' = WithTop([Top EXCEPT !.args = Append(@, depth + Word)])
  /\ UNCHANGED <<phase, defs, params, leaked>>

\* push of an argument whose code has been emitted.
PushArg ==
  /\ phase \in {"def", "entry"}
  /\ Top.arity # NoCall /\ Len(Top.args) < Top.arity
  /\ depth' = depth + Word
  /\ ctx' = WithTop([Top EXCEPT !.args = Append(@, depth + Word), !.next = @ + Word])
  /\ UNCHANGED <<phase, defs, params, leaked>>

\* call, then the space of the arguments given back.
FinishCall ==
  /\ phase \in {"def", "entry"}
  /\ Top.arity # NoCall /\ Len(Top.args) = Top.arity
  /\ depth' = depth - Word * Top.arity
  /\ ctx' = WithTop([Top EXCEPT !.args = <<>>, !.arity = NoCall, !.next = @ - Word * Top.arity])
  /\ UNCHANGED <<phase, defs, params, leaked>>

\* Mutant of FinishFunction: no closeScope().
FinishFunctionNoClose ==
  /\ phase = "def" /\ AtStatement /\ Top.kind = "body"
  /\ phase' = "idle"
  /\ params' = <<>>
  /\ depth' = 0
  /\ leaked' = 0
  /\ UNCHANGED <<defs, ctx>>

\* The rest of VisitFunctionDefExpr, the result being in EAX: the epilogue
\* restores ESP from EBP, and closeScope() closes the scope of the body,
\* which VisitBlockStmt had left open.
FinishFunction ==
  /\ phase = "def" /\ AtStatement /\ Top.kind = "body"
  /\ phase' = "idle"
  /\ params' = <<>>
  /\ ctx' = CloseScope
  /\ depth' = 0
  /\ leaked' = 0
  /\ UNCHANGED defs

\* The rest of VisitProgramExpr.
FinishEntry ==
  /\ phase = "entry" /\ AtStatement /\ Top.kind = "body"
  /\ phase' = "done"
  /\ depth' = 0
  /\ leaked' = 0
  /\ UNCHANGED <<defs, params, ctx>>

\* generateCode() has returned or thrown.
Stopped == phase \in {"done", "error"} /\ UNCHANGED vars

Next ==
  \/ DefineFunction \/ StartEntry \/ EnterBody \/ EnterBlock \/ LeaveBlock
  \/ FreshTmp \/ FreeTmp \/ VisitNew \/ RejectName
  \/ RejectDefinition \/ BeginCall \/ PushArg \/ FinishCall
  \/ FinishFunction \/ FinishEntry \/ Stopped

Spec == Init /\ [][Next]_vars

-----------------------------------------------------------------------------
Generating == phase \in {"def", "entry"}

\* Type invariant: every variable keeps its type, whatever is visited.
TypeOK ==
  /\ phase \in {"idle", "def", "entry", "done", "error"}
  /\ defs \in Nat
  /\ params \in Seq(Names)
  /\ ctx \in Seq(Scopes) /\ ctx # <<>>
  /\ depth \in Int
  /\ leaked \in Nat

\* nextOffset is exactly the depth of the stack, but for what `new` leaves
\* behind: ESP = EBP - (nextOffset - 4) - leaked in every construct, so no
\* path through blocks, temporaries and calls gives back too much or too
\* little.
Accounting == Generating => depth = Top.next - Word + leaked

\* No two variables or temporaries that are live together, in whatever
\* scopes, share a word of the frame.
SlotsDisjoint ==
  \A i, j \in DOMAIN ctx : \A x \in Bound(ctx[i]), y \in Bound(ctx[j]) :
    ctx[i].vars[x] = ctx[j].vars[y] => i = j /\ x = y

\* Every slot lies in the frame: a local or a temporary above ESP, where a
\* callee cannot write, and past the words of root information; a parameter
\* beyond the return address.
SlotsInFrame ==
  Generating => \A i \in DOMAIN ctx : \A x \in Bound(ctx[i]) :
    ctx[i].vars[x] \in 12..depth \/ ctx[i].vars[x] <= -8

\* An argument already pushed is not the home of a variable or temporary,
\* so that code computing the other arguments cannot overwrite it.
ArgsSafe ==
  \A i, j \in DOMAIN ctx : \A x \in Bound(ctx[i]), a \in DOMAIN ctx[j].args :
    ctx[i].vars[x] # ctx[j].args[a]

\* When the call instruction comes, the i-th argument is the word the callee
\* will read as its i-th parameter: the callee's EBP is 8 bytes below ESP.
CalleeFindsArgs ==
  Generating /\ Top.arity = Len(Top.args) =>
    \A i \in 1..Top.arity : Top.args[Top.arity + 1 - i] = depth + 8 + ParamOffset(i)

\* ArgsSafe and CalleeFindsArgs for a frame in which no allocation was met.
CallsSafeWithoutNew == leaked = 0 => ArgsSafe /\ CalleeFindsArgs

\* Offsets beyond EBP belong to the function being generated: no parameter
\* of an earlier function is visible in a later one.
OwnParams ==
  phase = "def" => \A i \in DOMAIN ctx : \A x \in Bound(ctx[i]) :
    ctx[i].vars[x] < 0 => x \in ToSet(params)

\* Between two definitions nothing of a finished body is still bound.
LocalsGone ==
  phase = "idle" => \A i \in DOMAIN ctx : \A x \in Bound(ctx[i]) :
    ctx[i].vars[x] < 0

\* What the comment on the last line of VisitFunctionDefExpr says: once a
\* definition is generated, its parameters are no longer in the context.
ParamsGone ==
  phase \in {"idle", "entry"} => \A i \in DOMAIN ctx : \A x \in Bound(ctx[i]) :
    ctx[i].vars[x] >= 0
=============================================================================
