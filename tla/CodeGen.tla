------------------------------- MODULE CodeGen -------------------------------
(***************************************************************************)
(* The L2 code generator (backend/codegen.cpp, codegen.h): the visitor     *)
(* that turns a syntax tree into x86 instructions.                         *)
(*                                                                         *)
(* The call stack of the visitor is the sequence todo: what is still to be *)
(* done, innermost first.  Visiting a node replaces it by what its Visit   *)
(* function does next, in order: nodes to visit, and the pieces of code    *)
(* that follow them, as tasks of their own.  One step is one task.         *)
(*                                                                         *)
(* An instruction is a record with an operation and its operands;          *)
(* comments and directives are left out.                                   *)
(***************************************************************************)
EXTENDS L2Ast, FiniteSets, TLC

CONSTANTS
  Programs  \* the syntax trees generateCode() may be called with

VARIABLES
  phase,      \* "ready", "generating", then "done" (returned) or "error" (thrown)
  prog,       \* its argument
  todo,       \* the call stack of the visitor
  typeInfo,   \* SymbolTable: fields of each type, a sequence of [id, type]
  fnInfo,     \* SymbolTable: arity of each function
  ctx,        \* SymbolTable: contexts, outermost first
  nextTmp,    \* SymbolTable: number of the next temporary
  nextIndex,  \* number of the next pair of labels
  insns,      \* instructions generated so far
  inLhs,      \* inLhsOfAssignment
  inTop,      \* inTopLevelScope
  depth,      \* history: EBP - ESP in the frame the last instruction runs in
  frame       \* history: the definition whose frame that is, if any; the names
              \* of its parameters; and how many functions have been begun

tables == <<typeInfo, fnInfo>>
names  == <<nextTmp, nextIndex>>
where  == <<inTop, frame>>
vars == <<phase, prog, todo, tables, ctx, names, insns, inLhs, where, depth>>

-----------------------------------------------------------------------------
(* Instructions. *)

Unnumbered == -1

Reg(r)    == [mode |-> "reg", n |-> 0, s |-> r]
Imm(n)    == [mode |-> "imm", n |-> n, s |-> ""]
Mem(o, r) == [mode |-> "mem", n |-> o, s |-> r]
Lbl(l)    == [mode |-> "label", n |-> Unnumbered, s |-> l]
None      == [mode |-> "none", n |-> 0, s |-> ""]

\* The label that is this text and a number behind it.
Numbered(l, n) == [mode |-> "label", n |-> n, s |-> l]

EAX == Reg("eax")
EDX == Reg("edx")
EBP == Reg("ebp")
ESP == Reg("esp")

Insn(op, src, dst) == [op |-> op, src |-> src, dst |-> dst]
Insn1(op, src)     == Insn(op, src, None)
Label(l)           == Insn1("label", l)

Word == 4

\* What an instruction does to EBP - ESP.  movl sets up a frame or leaves it.
DepthAfter(d, i) ==
  CASE i.op \in {"push", "pushl"}                         -> d + Word
    [] i.op = "sub" /\ i.dst = ESP                        -> d + i.src.n
    [] i.op = "add" /\ i.dst = ESP                        -> d - i.src.n
    [] i.op = "movl" /\ {i.src, i.dst} = {EBP, ESP}       -> 0
    [] i.op = "pop"                                       -> 0
    [] OTHER                                              -> d

\* What all of them do, one after the other.
DepthAfterAll(d, is) ==
  LET after[k \in 0..Len(is)] == IF k = 0 THEN d ELSE DepthAfter(after[k - 1], is[k])
  IN  after[Len(is)]

Emit(is) ==
  /\ insns' = insns \o is
  /\ depth' = DepthAfterAll(depth, is)

EmitNothing == UNCHANGED <<insns, depth>>

-----------------------------------------------------------------------------
(* Contexts.  args and arity record, for the call visited directly in the   *)
(* scope, where its arguments were pushed and how many it has; kind is the  *)
(* construct that opened the scope.                                         *)

\* f with e at x.
With(f, x, e) == [y \in DOMAIN f \cup {x} |-> IF y = x THEN e ELSE f[y]]

NoCall == -1
Top == ctx[Len(ctx)]
WithTop(s) == Append(Front(ctx), s)

\* openScope(), the new context being of this kind.
OpenScope(c, kind) ==
  Append(c, [kind |-> kind, vars |-> <<>>, next |-> Last(c).next, args |-> <<>>, arity |-> NoCall])

\* Context{}.
RootContext ==
  <<[kind |-> "root", vars |-> <<>>, next |-> 12, args |-> <<>>, arity |-> NoCall]>>

\* Mutant of AllocateVar: the offset counter is not moved.
AllocateVarInPlace(c, x, type) ==
  Append(Front(c), [Last(c) EXCEPT !.vars = With(@, x, [off |-> Last(c).next, type |-> type])])

\* allocateVar(), for a name the current context does not hold.
AllocateVar(c, x, type) ==
  Append(Front(c), [Last(c) EXCEPT !.vars = With(@, x, [off |-> Last(c).next, type |-> type]),
                                   !.next = @ + Word])

\* Mutant of Scopes: the parents are not asked.
ScopesInnermost(c, x) == {i \in {Len(c)} : x \in DOMAIN c[i].vars}

Scopes(c, x) == {i \in DOMAIN c : x \in DOMAIN c[i].vars}

\* Context::lookup(), of a name some context holds: the innermost wins.
Lookup(c, x) == c[Max(Scopes(c, x))].vars[x]

\* The operand a temporary lives in.
TmpSlot(x) == Mem(-Lookup(ctx, x).off, "ebp")

Tmp(n) == "tmp_" \o ToString(n)

\* Mutant of DistinctIds: allocateVar() does not look for the name.
DistinctIdsUnchecked(ds) == TRUE

DistinctIds(ds) == \A i, j \in DOMAIN ds : ds[i].id = ds[j].id => i = j

WordBits == 32

\* Bit b of a word, counted from 0.
Bit(w, b) ==
  LET half[k \in 0..b] == IF k = 0 THEN w ELSE half[k - 1] \div 2
  IN  half[b] % 2 = 1

\* The 32-bit word in which the bits of S are set, as a signed number.
WordOf(S) ==
  LET bits[b \in 0..31] ==
        IF b = 31 THEN (IF b \in S THEN -1 ELSE 0)
                  ELSE (IF b \in S THEN 1 ELSE 0) + 2 * bits[b + 1]
  IN  bits[0]

\* The declarations that are not ints, counted from 1.
Pointers(ds) == {k \in DOMAIN ds : ~IsIntType(ds[k].type)}

\* Mutant of PointerBits: the bits are shifted by one.
PointerBitsShifted(ds) == WordOf({k % WordBits : k \in Pointers(ds)})

\* The word that has bit k - 1 set if the k-th declaration is not an int.  A
\* shift of 1 by 32 or more is undefined; x86 shifts by what is left mod 32.
PointerBits(ds) == WordOf({(k - 1) % WordBits : k \in Pointers(ds)})

\* The low eight bits of n, as the upper eight of a word.
InUpperByte(n) == {24 + b : b \in {c \in 0..7 : Bit(n, c)}}

\* Mutant of Tag: no field is told to be a pointer.
TagNoPointers(fields) == WordOf({0} \cup InUpperByte(Len(fields)))

\* Mutant of Tag: only the pointers are counted.
TagCountsPointers(fields) ==
  WordOf({0} \cup {k % WordBits : k \in Pointers(fields)} \cup InUpperByte(Cardinality(Pointers(fields))))

\* TypeInfo::tag(): the number of fields, their bits and the mark bit, or-ed.
Tag(fields) ==
  WordOf({0} \cup {k % WordBits : k \in Pointers(fields)} \cup InUpperByte(Len(fields)))

-----------------------------------------------------------------------------
(* Tasks. *)

Task == Head(todo)
At(op) == phase = "generating" /\ Task.op = op
Then(tasks) == todo' = tasks \o Tail(todo)

\* CodeGenError or logic_error, out of generateCode(): the object stays as
\* it is but for the temporaries, whose destructors run.
Fail == /\ phase' = "error"
        /\ UNCHANGED <<todo, tables, ctx, names, insns, inLhs, where, depth>>

\* The tasks that need more than their name.
Do(op)         == [op |-> op]
Code(is)       == [op |-> "code", insns |-> is]
Save(x)        == [op |-> "save", tmp |-> x]
Operate(op, x) == [op |-> "operate", by |-> op, tmp |-> x]

\* TmpVar::TmpVar().
OpenTmp ==
  /\ ctx' = AllocateVar(OpenScope(ctx, "tmp"), Tmp(nextTmp), "int")
  /\ nextTmp' = nextTmp + 1
  /\ UNCHANGED nextIndex

\* TmpVar::~TmpVar().
FreeTmp ==
  /\ At("free")
  /\ ctx' = Front(ctx)
  /\ Emit(<<Insn("add", Imm(Word), ESP)>>)
  /\ Then(<<>>)
  /\ UNCHANGED <<phase, prog, tables, names, inLhs, where>>

\* Instructions that follow a visited node, whatever it was.
EmitCode ==
  /\ At("code")
  /\ Emit(Task.insns)
  /\ Then(<<>>)
  /\ UNCHANGED <<phase, prog, tables, ctx, names, inLhs, where>>

SaveTmp ==
  /\ At("save")
  /\ Emit(<<Insn("movl", EAX, TmpSlot(Task.tmp))>>)
  /\ Then(<<>>)
  /\ UNCHANGED <<phase, prog, tables, ctx, names, inLhs, where>>

-----------------------------------------------------------------------------
(* Expressions.  The result is left in EAX. *)

\* VisitNil and VisitIntegerExpr.
VisitConstant ==
  /\ \/ At("nil") /\ Emit(<<Insn("movl", Imm(0), EAX)>>)
     \/ At("int") /\ Emit(<<Insn("movl", Imm(Task.value), EAX)>>)
  /\ Then(<<>>)
  /\ UNCHANGED <<phase, prog, tables, ctx, names, inLhs, where>>

\* The word pushed for allocate is not popped: ESP is moved down again.
NewCode(fields) ==
  <<Insn1("pushl", Imm(Len(fields))), Insn1("call", Lbl("allocate")),
    Insn("sub", Imm(Word), ESP), Insn("movl", Imm(Tag(fields)), Mem(-Word, "eax"))>>
  \o [i \in DOMAIN fields |-> Insn("movl", Imm(0), Mem(Word * (i - 1), "eax"))]

VisitNew ==
  /\ At("new")
  /\ IF Task.type \in DOMAIN typeInfo
     THEN /\ Emit(NewCode(typeInfo[Task.type]))
          /\ Then(<<>>)
          /\ UNCHANGED <<phase, tables, ctx, names, inLhs, where>>
     ELSE Fail
  /\ UNCHANGED prog

\* varInfoOf(): the places a field has in a type, at most one expected.
FieldIndices(type, f) ==
  IF type \in DOMAIN typeInfo THEN {i \in DOMAIN typeInfo[type] : typeInfo[type][i].id = f} ELSE {}

\* The type of a field that is there.
FieldType(type, f) == typeInfo[type][Min(FieldIndices(type, f))].type

FieldCode(type, f) ==
  <<Insn("movl", Mem(0, "eax"), EAX),
    Insn("add", Imm(Word * (Min(FieldIndices(type, f)) - 1)), EAX)>>

\* The fields of a path still to follow from the address in EAX.
Fields(type, fs) == [op |-> "fields", type |-> type, fields |-> fs]

\* VisitVariable, and VisitAccessPath up to its loop: the address of the root.
VisitAccessPath ==
  /\ At("path")
  /\ IF Scopes(ctx, Task.root) # {}
     THEN LET root == Lookup(ctx, Task.root)
          IN  /\ Emit(<<Insn("movl", EBP, EAX), Insn("sub", Imm(root.off), EAX)>>)
              /\ Then(<<Fields(root.type, Task.fieldAccesses)>>)
              /\ UNCHANGED <<phase, tables, ctx, names, inLhs, where>>
     ELSE Fail
  /\ UNCHANGED prog

\* A round of the loop; varInfoOf() throws if the type has no such field.
FollowField ==
  /\ At("fields") /\ Task.fields # <<>>
  /\ LET f == Head(Task.fields)
     IN  IF FieldIndices(Task.type, f) # {}
         THEN /\ Emit(FieldCode(Task.type, f))
              /\ Then(<<Fields(FieldType(Task.type, f), Tail(Task.fields))>>)
              /\ UNCHANGED <<phase, tables, ctx, names, inLhs, where>>
         ELSE Fail
  /\ UNCHANGED prog

\* The word at the address, unless the path is being assigned to.
LoadPath ==
  /\ At("fields") /\ Task.fields = <<>>
  /\ Emit(IF inLhs THEN <<>> ELSE <<Insn("movl", Mem(0, "eax"), EAX)>>)
  /\ Then(<<>>)
  /\ UNCHANGED <<phase, prog, tables, ctx, names, inLhs, where>>

\* Every binary visitor: the left operand waits in a temporary while the
\* right one is computed.
VisitBinary ==
  /\ phase = "generating" /\ Task.op \in BinaryOps
  /\ OpenTmp
  /\ Emit(<<Insn("sub", Imm(Word), ESP)>>)
  /\ Then(<<Task.lhs, Save(Tmp(nextTmp)), Task.rhs,
            Operate(Task.op, Tmp(nextTmp)), Do("free")>>)
  /\ UNCHANGED <<phase, prog, tables, inLhs, where>>

\* Mutant of Compare: the operands exchanged.
CompareSwapped(set) == <<Insn("cmp", EDX, EAX), Insn(set, None, EAX)>>

\* set<op> %al then movzbl %al, %eax, as one instruction.
Compare(set) == <<Insn("cmp", EAX, EDX), Insn(set, None, EAX)>>

\* The left operand is in EDX, the right one in EAX.
OperatorCode(op) ==
  CASE op = "add" -> <<Insn("add", EDX, EAX)>>
    [] op = "sub" -> <<Insn("sub", EAX, EDX), Insn("movl", EDX, EAX)>>
    [] op = "mul" -> <<Insn("imul", EDX, EAX)>>
    [] op = "lt"  -> Compare("setl")
    [] op = "le"  -> Compare("setle")
    [] op = "eq"  -> Compare("sete")
    [] op = "and" -> <<Insn("andl", EDX, EAX)>>
    [] op = "or"  -> <<Insn("orl", EDX, EAX)>>

ApplyOperator ==
  /\ At("operate")
  /\ Emit(<<Insn("movl", TmpSlot(Task.tmp), EDX)>> \o OperatorCode(Task.by))
  /\ Then(<<>>)
  /\ UNCHANGED <<phase, prog, tables, ctx, names, inLhs, where>>

VisitNot ==
  /\ At("not")
  /\ Then(<<Task.operand, Code(<<Insn("cmp", Imm(0), EAX), Insn("sete", None, EAX)>>)>>)
  /\ EmitNothing
  /\ UNCHANGED <<phase, prog, tables, ctx, names, inLhs, where>>

-----------------------------------------------------------------------------
(* Statements. *)

\* allocateVar() for each declaration, in a context just opened.
Declare(c, ds) ==
  Append(Front(c), [Last(c) EXCEPT
    !.vars = [x \in Ids(ds) |->
                LET i == Max({j \in DOMAIN ds : ds[j].id = x})
                IN  [off |-> Last(c).next + Word * (i - 1), type |-> ds[i].type]],
    !.next = @ + Word * Len(ds)])

\* Mutant of Reserve: ESP stays where it is.
ReserveNothing(ds) == <<>>

Reserve(ds) == <<Insn("sub", Imm(Word * Len(ds)), ESP)>>

\* Mutant of Initialize: the locals keep what the stack held.
InitializeNothing(ds, c) == <<>>

Initialize(ds, c) ==
  [i \in DOMAIN ds |-> Insn("movl", Imm(0), Mem(-Lookup(c, ds[i].id).off, "ebp"))]

\* VisitBlockStmt up to its statements.  kind tells the body of a function
\* or of the program from an inner block, as inTopLevelScope does.
VisitBlock ==
  /\ At("block")
  /\ LET kind   == IF inTop THEN "body" ELSE "block"
         opened == Declare(OpenScope(ctx, kind), Task.decls)
     IN  IF DistinctIds(Task.decls) /\ (inTop \/ Task.decls = <<>>)
         THEN /\ ctx' = opened
              /\ Emit(Reserve(Task.decls) \o Initialize(Task.decls, opened))
              /\ Then(Task.stmts \o <<[op |-> "endblock", wasTop |-> inTop,
                                        size |-> Word * Len(Task.decls)]>>)
              /\ inTop' = FALSE
              /\ UNCHANGED <<phase, tables, names, inLhs, frame>>
         ELSE Fail
  /\ UNCHANGED prog

\* The rest of VisitBlockStmt.  A top-level block stays open for the
\* expression that follows it.
EndBlock ==
  /\ At("endblock")
  /\ IF Task.wasTop
     THEN EmitNothing /\ UNCHANGED ctx
     ELSE Emit(<<Insn("add", Imm(Task.size), ESP)>>) /\ ctx' = Front(ctx)
  /\ inTop' = Task.wasTop
  /\ Then(<<>>)
  /\ UNCHANGED <<phase, prog, tables, names, inLhs, frame>>

\* VisitAssignmentExpr: the value first, then the address it goes to.
VisitAssignment ==
  /\ At("assign")
  /\ Then(<<Task.rhs, [op |-> "assignto", lhs |-> Task.lhs]>>)
  /\ EmitNothing
  /\ UNCHANGED <<phase, prog, tables, ctx, names, inLhs, where>>

AssignTo ==
  /\ At("assignto")
  /\ OpenTmp
  /\ Emit(<<Insn("sub", Imm(Word), ESP), Insn("movl", EAX, Mem(-Top.next, "ebp"))>>)
  /\ inLhs' = TRUE
  /\ Then(<<Task.lhs, [op |-> "store", tmp |-> Tmp(nextTmp)], Do("free")>>)
  /\ UNCHANGED <<phase, prog, tables, where>>

StoreValue ==
  /\ At("store")
  /\ inLhs' = FALSE
  /\ Emit(<<Insn("movl", TmpSlot(Task.tmp), EDX), Insn("movl", EDX, Mem(0, "eax"))>>)
  /\ Then(<<>>)
  /\ UNCHANGED <<phase, prog, tables, ctx, names, where>>

\* Mutants of IfFalse and WhileEnd: the other label of the construct.
IfFalseAtEnd(n) == Numbered("IF_END_", n)
WhileEndAtStart(n) == Numbered("WHILE_START_", n)

IfFalse(n)    == Numbered("IF_FALSE_", n)
IfEnd(n)      == Numbered("IF_END_", n)
WhileStart(n) == Numbered("WHILE_START_", n)
WhileEnd(n)   == Numbered("WHILE_END_", n)

UnlessTrue(label) == <<Insn("cmp", Imm(0), EAX), Insn1("je", label)>>

VisitConditional ==
  /\ At("if")
  /\ Then(<<Task.guard, Code(UnlessTrue(IfFalse(nextIndex))),
            Task.true_branch,
            Code(<<Insn1("jmp", IfEnd(nextIndex)), Label(IfFalse(nextIndex))>>),
            Task.false_branch, Code(<<Label(IfEnd(nextIndex))>>)>>)
  /\ nextIndex' = nextIndex + 1
  /\ EmitNothing
  /\ UNCHANGED <<phase, prog, tables, ctx, nextTmp, inLhs, where>>

VisitLoop ==
  /\ At("while")
  /\ Emit(<<Label(WhileStart(nextIndex))>>)
  /\ Then(<<Task.guard, Code(UnlessTrue(WhileEnd(nextIndex))), Task.body,
            Code(<<Insn1("jmp", WhileStart(nextIndex)), Label(WhileEnd(nextIndex))>>)>>)
  /\ nextIndex' = nextIndex + 1
  /\ UNCHANGED <<phase, prog, tables, ctx, nextTmp, inLhs, where>>

\* The arguments of a call still to be pushed.
Arguments(f, rest) == [op |-> "arguments", callee_name |-> f, rest |-> rest]

\* VisitFunctionCallExpr up to its loop.
VisitCall ==
  /\ At("call")
  /\ IF Task.callee_name \in DOMAIN fnInfo /\ fnInfo[Task.callee_name] = Len(Task.arguments)
     THEN /\ Then(<<Arguments(Task.callee_name, Task.arguments)>>)
          /\ ctx' = WithTop([Top EXCEPT !.arity = Len(Task.arguments)])
          /\ EmitNothing
          /\ UNCHANGED <<phase, tables, names, inLhs, where>>
     ELSE Fail
  /\ UNCHANGED prog

\* A round of the loop: the last argument comes first.
NextArgument ==
  /\ At("arguments") /\ Task.rest # <<>>
  /\ Then(<<Last(Task.rest), Do("push"), Arguments(Task.callee_name, Front(Task.rest))>>)
  /\ EmitNothing
  /\ UNCHANGED <<phase, prog, tables, ctx, names, inLhs, where>>

PushArg ==
  /\ At("push")
  /\ Emit(<<Insn1("push", EAX)>>)
  /\ ctx' = WithTop([Top EXCEPT !.next = @ + Word, !.args = Append(@, depth + Word)])
  /\ Then(<<>>)
  /\ UNCHANGED <<phase, prog, tables, names, inLhs, where>>

\* Mutant of DoCall: the bytes of the arguments are taken for words.
DoCallInWords ==
  /\ At("arguments") /\ Task.rest = <<>>
  /\ Emit(<<Insn1("call", Lbl(Task.callee_name)), Insn("add", Imm(Word * Top.arity), ESP)>>)
  /\ ctx' = WithTop([Top EXCEPT !.next = @ - Word * Word * Top.arity, !.args = <<>>, !.arity = NoCall])
  /\ Then(<<>>)
  /\ UNCHANGED <<phase, prog, tables, names, inLhs, where>>

DoCall ==
  /\ At("arguments") /\ Task.rest = <<>>
  /\ Emit(<<Insn1("call", Lbl(Task.callee_name)), Insn("add", Imm(Word * Top.arity), ESP)>>)
  /\ ctx' = WithTop([Top EXCEPT !.next = @ - Word * Top.arity, !.args = <<>>, !.arity = NoCall])
  /\ Then(<<>>)
  /\ UNCHANGED <<phase, prog, tables, names, inLhs, where>>

-----------------------------------------------------------------------------
(* Definitions and the program. *)

\* VisitTypeDef.
VisitTypeDef ==
  /\ At("typedef")
  /\ IF Task.type_name \notin DOMAIN typeInfo
     THEN /\ typeInfo' = With(typeInfo, Task.type_name, Task.fields)
          /\ Then(<<>>)
          /\ EmitNothing
          /\ UNCHANGED <<phase, fnInfo, ctx, names, inLhs, where>>
     ELSE Fail
  /\ UNCHANGED prog

\* addFnDef(), of every function before any is generated.
AddFunction ==
  /\ At("addfn")
  /\ IF Task.def.function_name \notin DOMAIN fnInfo
     THEN /\ fnInfo' = With(fnInfo, Task.def.function_name, Len(Task.def.parameters))
          /\ Then(<<>>)
          /\ EmitNothing
          /\ UNCHANGED <<phase, typeInfo, ctx, names, inLhs, where>>
     ELSE Fail
  /\ UNCHANGED prog

\* The frame of a function or of Entry: EBP saved, the arguments and the
\* locals that hold pointers noted for the collector.
Prologue(label, argInfo, localsInfo) ==
  <<Label(Lbl(label)), Insn1("push", EBP), Insn("movl", ESP, EBP),
    Insn1("pushl", Imm(argInfo)), Insn1("pushl", Imm(localsInfo))>>

\* Mutant of Epilogue: EBP is not restored.
EpilogueKeepsEbp(size) ==
  <<Insn("add", Imm(size), ESP), Insn("movl", EBP, ESP), Insn("ret", None, None)>>

Epilogue(size) ==
  <<Insn("add", Imm(size), ESP), Insn("movl", EBP, ESP), Insn1("pop", EBP), Insn("ret", None, None)>>

\* insert(): the first of two parameters of a name stays; offsets go on.
ParamVars(ps) ==
  [x \in Ids(ps) |-> LET i == Min({j \in DOMAIN ps : ps[j].id = x})
                     IN  [off |-> -4 - Word * i, type |-> ps[i].type]]

\* VisitFunctionDefExpr up to its body, the contexts reset.
VisitFunctionDef ==
  /\ At("fundef")
  /\ LET def == Task
     IN  /\ Emit(Prologue(def.function_name, PointerBits(def.parameters), PointerBits(def.function_body.decls)))
         /\ ctx' = RootContext \o
                    <<[Last(OpenScope(RootContext, "params")) EXCEPT !.vars = ParamVars(def.parameters)]>>
         /\ frame' = [kind |-> "def", params |-> [i \in DOMAIN def.parameters |-> def.parameters[i].id],
                       begun |-> frame.begun + 1]
         /\ Then(<<def.function_body, def.retval, [op |-> "endfn", def |-> def]>>)
  /\ UNCHANGED <<phase, prog, tables, names, inLhs, inTop>>

\* The rest of VisitFunctionDefExpr; closeScope() meets the body's scope.
EndFunctionDef ==
  /\ At("endfn")
  /\ Emit(Epilogue(Word * Len(Task.def.function_body.decls)))
  /\ ctx' = Front(ctx)
  /\ frame' = [frame EXCEPT !.kind = "none", !.params = <<>>]
  /\ Then(<<>>)
  /\ UNCHANGED <<phase, prog, tables, names, inLhs, inTop>>

\* VisitProgramExpr from the label Entry on.
VisitEntry ==
  /\ At("entry")
  /\ Emit(Prologue("Entry", 0, PointerBits(prog.statements.decls)))
  /\ frame' = [frame EXCEPT !.kind = "entry", !.params = <<>>]
  /\ Then(<<prog.statements, prog.arithmetic_exp, Do("endentry")>>)
  /\ UNCHANGED <<phase, prog, tables, ctx, names, inLhs, inTop>>

EndEntry ==
  /\ At("endentry")
  /\ Emit(Epilogue(Word * Len(prog.statements.decls)))
  /\ Then(<<>>)
  /\ phase' = "done"
  /\ frame' = [frame EXCEPT !.kind = "none"]
  /\ UNCHANGED <<prog, tables, ctx, names, inLhs, inTop>>

\* generateCode(): a fresh symbol table, no instruction, no label; then
\* VisitProgramExpr goes through types, functions and the main program.
GenerateCode ==
  /\ phase = "ready"
  /\ phase' = "generating"
  /\ prog' \in Programs
  /\ todo' = prog'.type_defs
           \o [i \in DOMAIN prog'.function_defs |-> [op |-> "addfn", def |-> prog'.function_defs[i]]]
           \o prog'.function_defs
           \o <<Do("entry")>>
  /\ typeInfo' = <<>> /\ fnInfo' = <<>>
  /\ ctx' = RootContext
  /\ nextTmp' = 0 /\ nextIndex' = 0
  /\ insns' = <<>>
  /\ depth' = 0
  /\ inTop' = TRUE
  /\ UNCHANGED <<inLhs, frame>>

Init ==
  /\ phase = "ready"
  /\ prog = <<>> /\ todo = <<>>
  /\ typeInfo = <<>> /\ fnInfo = <<>>
  /\ ctx = RootContext
  /\ nextTmp = 0 /\ nextIndex = 0
  /\ insns = <<>>
  /\ inLhs = FALSE /\ inTop = TRUE
  /\ depth = 0
  /\ frame = [kind |-> "none", params |-> <<>>, begun |-> 0]

\* main() makes a CodeGen object for one program.
Idle == phase \in {"done", "error"} /\ UNCHANGED vars

Step ==
  \/ FreeTmp \/ EmitCode \/ SaveTmp
  \/ VisitConstant \/ VisitNew \/ VisitAccessPath \/ FollowField \/ LoadPath \/ VisitBinary \/ ApplyOperator \/ VisitNot
  \/ VisitBlock \/ EndBlock \/ VisitAssignment \/ AssignTo \/ StoreValue
  \/ VisitConditional \/ VisitLoop \/ VisitCall \/ NextArgument \/ PushArg \/ DoCall
  \/ VisitTypeDef \/ AddFunction \/ VisitFunctionDef \/ EndFunctionDef
  \/ VisitEntry \/ EndEntry

Next == GenerateCode \/ Step \/ Idle

Spec == Init /\ [][Next]_vars /\ WF_vars(Step)

-----------------------------------------------------------------------------
IsLabel(i) == insns[i].op = "label"
Defined    == {insns[i].src : i \in {j \in DOMAIN insns : IsLabel(j)}}
Targets    == {insns[i].src : i \in {j \in DOMAIN insns : insns[j].op \in {"jmp", "je", "call"}}}

Registers == {"eax", "edx", "ebp", "esp"}
LabelTexts == {"IF_FALSE_", "IF_END_", "WHILE_START_", "WHILE_END_"}
Operands ==
  {None} \cup [mode : {"reg"}, n : {0}, s : Registers] \cup [mode : {"imm"}, n : Int, s : {""}]
  \cup [mode : {"mem"}, n : Int, s : Registers] \cup [mode : {"label"}, n : Nat, s : LabelTexts]
  \cup [mode : {"label"}, n : {Unnumbered}, s : STRING \cup {"Entry", "allocate"}]

Types == STRING \cup {"int"}
IsScope(s) ==
  /\ DOMAIN s = {"kind", "vars", "next", "args", "arity"}
  /\ s.kind \in {"root", "params", "body", "block", "tmp"}
  /\ \A x \in DOMAIN s.vars : s.vars[x] \in [off : Int, type : Types]
  /\ s.next \in Nat /\ s.arity \in Nat \cup {NoCall} /\ s.args \in Seq(Nat)

\* Type invariant.
TypeOK ==
  /\ phase \in {"ready", "generating", "done", "error"}
  /\ ctx # <<>> /\ \A i \in DOMAIN ctx : IsScope(ctx[i])
  /\ nextTmp \in Nat /\ nextIndex \in Nat /\ depth \in Int
  /\ \A i \in DOMAIN insns : insns[i].src \in Operands /\ insns[i].dst \in Operands
  /\ inLhs \in BOOLEAN /\ inTop \in BOOLEAN
  /\ frame.kind \in {"none", "def", "entry"} /\ frame.begun \in Nat

\* The code that generateCode() returns can be assembled: no label is
\* defined twice, in nested or successive branches and loops of any
\* function, and every jump and call goes to a label that is defined.
\* (Entry is a label of its own, so no function may be called so.)
JumpsResolved ==
  phase = "done" /\ "Entry" \notin DOMAIN fnInfo =>
    /\ \A i, j \in DOMAIN insns : IsLabel(i) /\ IsLabel(j) /\ insns[i].src = insns[j].src => i = j
    /\ Targets \subseteq Defined \cup {Lbl("allocate")}

\* The words of root information in the frame being generated: the last
\* two pushed by a prologue.
InfoPushes == {i \in DOMAIN insns : i > 3 /\ insns[i - 1].op = "pushl" /\ insns[i].op = "pushl"}

\* What the collector is told about a frame agrees with where the generator
\* puts the variables, if each of its locals and parameters has a bit of its
\* own: a bit of the local information is set exactly for the words that are
\* the home of a local that is not an int, and the bit of a parameter, of the
\* argument information, exactly if it is not an int.
RootInfoMatches ==
  phase = "generating" /\ Top.kind \in {"body", "block", "tmp"} =>
    LET last   == Max(InfoPushes)
        body   == CHOOSE i \in DOMAIN ctx : ctx[i].kind = "body"
        locals == ctx[body].vars
        params == ctx[body - 1].vars
    IN  /\ (\A x \in DOMAIN locals : locals[x].off < 12 + Word * WordBits) =>
             \A k \in 0..31 : Bit(insns[last].src.n, k) <=>
               \E x \in DOMAIN locals : locals[x].off = 12 + Word * k /\ locals[x].type # "int"
        /\ frame.kind = "def" /\ Len(frame.params) <= WordBits => \A x \in DOMAIN params :
             Bit(insns[last - 1].src.n, (-8 - params[x].off) \div Word) <=> params[x].type # "int"
=============================================================================
