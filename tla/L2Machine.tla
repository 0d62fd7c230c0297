------------------------------ MODULE L2Machine ------------------------------
(***************************************************************************)
(* The generated program running: CodeGen, then main() of bootstrap.cpp    *)
(* calling Entry, one instruction a step, and allocate() serving it from   *)
(* the collector's heap (bootstrap.cpp, gc.cpp).                           *)
(*                                                                         *)
(* Memory is addressed in bytes, by word.  A word never written, and a     *)
(* word below ESP after a call of C++ code, reads as Junk: the program     *)
(* cannot rely on it.  Values are integers that do not wrap; the programs  *)
(* keep to small ones.                                                     *)
(***************************************************************************)
EXTENDS CodeGen

CONSTANTS
  HeapWords,  \* the size of the heap asked for, large enough not to collect
  MaxFrames   \* bound: nested calls

ASSUME BoundsAssumption == HeapWords \in Nat /\ MaxFrames \in Nat

S == INSTANCE L2Semantics

StackBase == 4000     \* ESP in main() before it calls Entry
StackEnd  == 1000     \* bound: the stack stays above
HeapBase  == 10000    \* what malloc() returns
MainFrame == 4100     \* EBP in main()
Junk      == 999999
MainPc    == -1       \* the return address in main()

VARIABLES
  status,    \* "compiling", "running", "exited", "fault"; "oom" in Collector
  pc,        \* index of the next instruction
  regs,      \* eax, edx, ebp, esp
  mem,       \* the words written so far, by address
  cmp,       \* operands of the last comparison, destination first
  heapbase,  \* GcSemiSpace: the start of the heap in use
  heapcur,   \* GcSemiSpace: the bump pointer
  from,      \* GcSemiSpace: words allocated
  objects    \* history: the objects allocated, their sizes by their addresses

machine == <<status, pc, regs, mem, cmp, heapbase, heapcur, from, objects>>
allVars == <<vars, machine>>

-----------------------------------------------------------------------------
(* Operands. *)

Load(a) == IF a \in DOMAIN mem THEN mem[a] ELSE Junk

Address(o) == regs[o.s] + o.n

Value(o) == CASE o.mode = "imm" -> o.n
              [] o.mode = "reg" -> regs[o.s]
              [] o.mode = "mem" -> Load(Address(o))

InHeap(a)  == a \in heapbase..(heapcur - Word)
InStack(a) == a \in StackEnd..(StackBase - Word)
Mapped(a)  == InHeap(a) \/ InStack(a)

Faults(i) == \E o \in {i.src, i.dst} : o.mode = "mem" /\ ~Mapped(Address(o))

Store(a, v) == mem' = (a :> v) @@ mem
SetReg(r, v) == regs' = [regs EXCEPT ![r] = v]

\* The result v goes to operand o.
Write(o, v) ==
  IF o.mode = "reg" THEN SetReg(o.s, v) /\ UNCHANGED mem
  ELSE Store(Address(o), v) /\ UNCHANGED regs

Advance == pc' = pc + 1
Target(l) == CHOOSE i \in DOMAIN insns : insns[i] = Label(l)

Current == insns[pc]
On(ops) == status = "running" /\ Current.op \in ops /\ ~Faults(Current)
NoAlloc == UNCHANGED <<heapbase, heapcur, from, objects>>

-----------------------------------------------------------------------------
(* Instructions. *)

\* main() calls Entry once it has set up the heap.
Start ==
  /\ status = "compiling" /\ phase = "done"
  /\ status' = "running"
  /\ pc' = Target(Lbl("Entry"))
  /\ regs' = [eax |-> Junk, edx |-> Junk, ebp |-> MainFrame, esp |-> StackBase - Word]
  /\ Store(StackBase - Word, MainPc)
  /\ NoAlloc /\ UNCHANGED cmp

Move ==
  /\ On({"movl"})
  /\ Write(Current.dst, Value(Current.src))
  /\ Advance /\ NoAlloc /\ UNCHANGED <<status, cmp>>

\* Bitwise operators only meet truth values.
Result(op, a, b) ==
  CASE op = "add"  -> a + b
    [] op = "sub"  -> a - b
    [] op = "imul" -> a * b
    [] op = "andl" -> IF a = 1 /\ b = 1 THEN 1 ELSE 0
    [] op = "orl"  -> IF a = 0 /\ b = 0 THEN 0 ELSE 1

Compute ==
  /\ On({"add", "sub", "imul", "andl", "orl"})
  /\ Write(Current.dst, Result(Current.op, Value(Current.dst), Value(Current.src)))
  /\ Advance /\ NoAlloc /\ UNCHANGED <<status, cmp>>

CompareWords ==
  /\ On({"cmp"})
  /\ cmp' = <<Value(Current.dst), Value(Current.src)>>
  /\ Advance /\ NoAlloc /\ UNCHANGED <<status, regs, mem>>

\* set<op> and movzbl.
Holds(set) == CASE set = "setl"  -> cmp[1] < cmp[2]
                [] set = "setle" -> cmp[1] <= cmp[2]
                [] set = "sete"  -> cmp[1] = cmp[2]

SetTruth ==
  /\ On({"setl", "setle", "sete"})
  /\ SetReg("eax", IF Holds(Current.op) THEN 1 ELSE 0)
  /\ Advance /\ NoAlloc /\ UNCHANGED <<status, mem, cmp>>

PassLabel ==
  /\ On({"label"})
  /\ Advance /\ NoAlloc /\ UNCHANGED <<status, regs, mem, cmp>>

Jump ==
  /\ On({"jmp", "je"})
  /\ IF Current.op = "je" /\ cmp[1] # cmp[2] THEN Advance ELSE pc' = Target(Current.src)
  /\ NoAlloc /\ UNCHANGED <<status, regs, mem, cmp>>

Push ==
  /\ On({"push", "pushl"})
  /\ Store(regs.esp - Word, Value(Current.src))
  /\ SetReg("esp", regs.esp - Word)
  /\ Advance /\ NoAlloc /\ UNCHANGED <<status, cmp>>

Pop ==
  /\ On({"pop"})
  /\ regs' = [regs EXCEPT !.esp = @ + Word, ![Current.src.s] = Load(regs.esp)]
  /\ Advance /\ NoAlloc /\ UNCHANGED <<status, mem, cmp>>

CallFunction ==
  /\ On({"call"}) /\ Current.src.s # "allocate"
  /\ Store(regs.esp - Word, pc + 1)
  /\ SetReg("esp", regs.esp - Word)
  /\ pc' = Target(Current.src)
  /\ NoAlloc /\ UNCHANGED <<status, cmp>>

Return ==
  /\ On({"ret"})
  /\ SetReg("esp", regs.esp + Word)
  /\ IF Load(regs.esp) = MainPc THEN status' = "exited" /\ UNCHANGED pc
     ELSE pc' = Load(regs.esp) /\ UNCHANGED status
  /\ NoAlloc /\ UNCHANGED <<mem, cmp>>

AtAllocate == On({"call"}) /\ Current.src.s = "allocate"
Requested  == Load(regs.esp)

\* EDX and the stack below ESP are the callee's to use.
CalleeUses(m) == [a \in {b \in DOMAIN m : b \notin StackEnd..(regs.esp - Word)} |-> m[a]]

\* A call of allocate() answers with the object behind a header at p.
Answer(p) ==
  /\ objects' = ((p + Word) :> Requested) @@ objects
  /\ regs' = [regs EXCEPT !.eax = p + Word, !.edx = Junk]
  /\ mem' = CalleeUses(mem)
  /\ Advance

\* allocate(num_words), and Alloc() where no collection is needed: pointer
\* arithmetic on intptr_t counts in words, so that four words are taken for
\* each one asked for, the header among them.
CallAllocate ==
  /\ AtAllocate
  /\ from + Requested + 1 < HeapWords
  /\ heapcur' = heapcur + 4 * Word * (Requested + 1)
  /\ heapcur' <= HeapBase + Word * HeapWords
  /\ from' = from + Requested + 1
  /\ Answer(heapcur + 3 * Word)
  /\ UNCHANGED <<status, cmp, heapbase>>

\* A word outside the stack and the heap is touched, or code that is not there.
Fault ==
  /\ status = "running"
  /\ pc \notin DOMAIN insns \/ Faults(Current)
  /\ status' = "fault"
  /\ NoAlloc /\ UNCHANGED <<pc, regs, mem, cmp>>

-----------------------------------------------------------------------------
\* One instruction, but for calls of allocate().
Instruction ==
  \/ Move \/ Compute \/ CompareWords \/ SetTruth \/ PassLabel \/ Jump
  \/ Push \/ Pop \/ CallFunction \/ Return \/ Fault

Execute == Start \/ Instruction \/ CallAllocate

MachineInit ==
  /\ Init
  /\ status = "compiling"
  /\ pc = MainPc
  /\ regs = [eax |-> Junk, edx |-> Junk, ebp |-> MainFrame, esp |-> StackBase]
  /\ mem = <<>>
  /\ cmp = <<0, 0>>
  /\ heapbase = HeapBase /\ heapcur = HeapBase
  /\ from = 0
  /\ objects = <<>>

Compile == (GenerateCode \/ Step) /\ UNCHANGED machine

\* The program has ended, or there is none to run.
Ended == (phase = "error" \/ status \in {"exited", "fault"}) /\ UNCHANGED allVars

MachineNext == Compile \/ (Execute /\ UNCHANGED vars) \/ Ended

Progress == (Step /\ UNCHANGED machine) \/ (Execute /\ UNCHANGED vars)

MachineSpec == MachineInit /\ [][MachineNext]_allVars /\ WF_allVars(Progress)

-----------------------------------------------------------------------------
\* Type invariant.
MachineTypeOK ==
  /\ status \in {"compiling", "running", "exited", "fault", "oom"}
  /\ pc \in {MainPc} \cup 1..Len(insns)
  /\ \A r \in {"eax", "edx", "ebp", "esp"} : regs[r] \in Int
  /\ regs.esp \in StackEnd..StackBase /\ regs.esp % Word = 0
  /\ \A a \in DOMAIN mem : a % Word = 0 /\ mem[a] \in Int
  /\ heapbase \in Nat /\ heapcur \in Nat /\ from \in Nat
  /\ \A p \in DOMAIN objects : objects[p] \in Nat

\* The compiled program prints what the source program means, whatever it
\* did to its stack main() gets its own back, and the only programs that
\* fault are those that ask for a field of nil.
ResultCorrect ==
  /\ status = "exited" => /\ ~S!Outcome(prog).fault /\ regs.eax = S!Outcome(prog).val
                          /\ regs.esp = StackBase /\ regs.ebp = MainFrame
  /\ status = "fault"  => S!Outcome(prog).fault

\* The bytes of the arguments of the function whose code i is in; Entry,
\* which has none, is the last.
ArgWords(i) ==
  LET starts == [d \in DOMAIN prog.function_defs |-> Target(Lbl(prog.function_defs[d].function_name))]
      inside == {d \in DOMAIN starts : starts[d] <= i}
  IN  IF i >= Target(Lbl("Entry")) \/ inside = {} THEN 0
      ELSE Word * Len(prog.function_defs[Max(inside)].parameters)

OwnWords == (regs.esp .. (regs.ebp - 12)) \cup ((regs.ebp + 8) .. (regs.ebp + 4 + ArgWords(pc)))
ObjectWords == UNION {(p - Word) .. (p + Word * objects[p] - Word) : p \in DOMAIN objects}

\* A store that is carried out goes to a local, a temporary or an argument
\* of the function that runs, or into an object: never to a saved EBP, a return address, root
\* information, a word of a caller, or a word ESP has given back.
StoresInPlace ==
  status = "running" /\ pc \in DOMAIN insns /\ Current.dst.mode = "mem" /\ ~Faults(Current) =>
    Address(Current.dst) \in OwnWords \cup ObjectWords

\* The frames a collector meets from EBP on; frame n is main()'s or beyond
\* once the chain has come to main().
Frames ==
  LET chain[n \in 0..MaxFrames] ==
        IF n = 0 THEN regs.ebp
        ELSE IF chain[n - 1] = MainFrame THEN MainFrame ELSE Load(chain[n - 1])
  IN  [n \in 0..MaxFrames |-> chain[n]]

\* The words of a frame that its root information marks.
RootWords(f) ==
  {f - 12 - Word * k : k \in {j \in 0..(WordBits - 1) : Bit(Load(f - 8), j)}}
  \cup {f + 8 + Word * k : k \in {j \in 0..(WordBits - 1) : Bit(Load(f - 4), j)}}

\* Whenever memory is asked for, the frames form a chain to main(), each
\* above the one before, and every word they mark as a root is nil or an
\* object: the walk of a collector finds its way and meets no stray value.
RootsSound ==
  status = "running" /\ pc \in DOMAIN insns /\ Current = Insn1("call", Lbl("allocate")) =>
    /\ Frames[MaxFrames] = MainFrame
    /\ \A n \in 1..MaxFrames : Frames[n - 1] = MainFrame \/ Frames[n - 1] < Frames[n]
    /\ \A n \in 0..MaxFrames : Frames[n] # MainFrame =>
         \A a \in RootWords(Frames[n]) : Load(a) \in {0} \cup DOMAIN objects

\* A program whose loops and recursion end is compiled and runs to its end.
Terminates == phase = "generating" ~> status \in {"exited", "fault"}
=============================================================================
