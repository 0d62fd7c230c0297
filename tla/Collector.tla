------------------------------ MODULE Collector ------------------------------
(***************************************************************************)
(* The generated program on the collector that README.md asks for.  It is  *)
(* not the collector of gc.cpp, which SemiSpace models: that one moves     *)
(* nothing, and its walk of the stack does not end.  It stands in for it,  *)
(* to check what codegen.cpp emits for a collector to rely on: the chain   *)
(* of frames, the root information of each, and the header word of each    *)
(* object.  What runs here is said of the emitted code, not of gc.cpp.     *)
(*                                                                         *)
(* The heap has two halves, one of them in use.  When an object does not   *)
(* fit, the objects that can be reached from the roots are copied to the   *)
(* other half, and every root and pointer field is rewritten; a word that  *)
(* is neither keeps its value.                                             *)
(***************************************************************************)
EXTENDS L2Machine

CONSTANTS
  Heaps        \* pairs of a program and a size of the heap, in words

VARIABLES
  size,        \* words of the heap, both halves
  collected    \* the heap has been collected for the request at hand

allocator == <<size, collected>>

HalfWords == size \div 2
OtherHalf == IF heapbase = HeapBase THEN HeapBase + Word * HalfWords ELSE HeapBase

-----------------------------------------------------------------------------
(* Roots and objects, as the generated code describes them. *)

RootFrames == {Frames[n] : n \in 0..MaxFrames} \ {MainFrame}
Roots      == UNION {RootWords(f) : f \in RootFrames}

\* Of the object at p: its fields are counted and told apart by its header.
FieldCount(p)    == (Load(p - Word) \div 2^24) % 256
ChunkWords(p)    == FieldCount(p) + 1
PointerFields(p) == {p + Word * (k - 1) : k \in {j \in 1..FieldCount(p) : Bit(Load(p - Word), j)}}

\* The objects that can be reached from the roots.
Live ==
  LET PointedAt(words) == {Load(a) : a \in words} \cap DOMAIN objects
      reach[found \in SUBSET DOMAIN objects] ==
        LET more == PointedAt(UNION {PointerFields(p) : p \in found})
        IN  IF more \subseteq found THEN found ELSE reach[found \cup more]
  IN  reach[PointedAt(Roots)]

-----------------------------------------------------------------------------
Fits == from + Requested + 1 <= HalfWords

\* Live objects, in the order of their addresses, behind each other in the
\* other half.
Collect ==
  /\ AtAllocate /\ ~Fits /\ ~collected
  /\ LET live     == Live
         roots    == Roots
         words    == MapThenSumSet(ChunkWords, live)
         place    == [p \in live |-> OtherHalf + Word * (1 + MapThenSumSet(ChunkWords, {q \in live : q < p}))]
         Moved(v) == IF v \in live THEN place[v] ELSE v
         Copy(p)  == [a \in {place[p] + Word * k : k \in -1..(FieldCount(p) - 1)} |->
                        LET old == p + (a - place[p])
                        IN  IF old \in PointerFields(p) THEN Moved(Load(old)) ELSE Load(old)]
         stack    == [a \in DOMAIN mem \cap (regs.esp .. StackBase) |->
                        IF a \in roots THEN Moved(mem[a]) ELSE mem[a]]
     IN  /\ mem' = FoldSet(LAMBDA p, m : Copy(p) @@ m, stack, live)
         /\ objects' = [p \in {place[q] : q \in live} |-> objects[CHOOSE q \in live : place[q] = p]]
         /\ heapbase' = OtherHalf
         /\ heapcur' = OtherHalf + Word * words
         /\ from' = words
  /\ collected' = TRUE
  /\ UNCHANGED <<status, pc, regs, cmp, size>>

Allocate ==
  /\ AtAllocate /\ Fits
  /\ heapcur' = heapcur + Word * (Requested + 1)
  /\ from' = from + Requested + 1
  /\ Answer(heapcur)
  /\ collected' = FALSE
  /\ UNCHANGED <<status, cmp, heapbase, size>>

OutOfMemory ==
  /\ AtAllocate /\ ~Fits /\ collected
  /\ status' = "oom"
  /\ NoAlloc /\ UNCHANGED <<pc, regs, mem, cmp, allocator>>

\* main(), given the size of the heap.
StartHeap ==
  /\ Start
  /\ \E h \in Heaps : h.program = prog /\ size' = h.size
  /\ UNCHANGED collected

Run ==
  \/ StartHeap
  \/ Instruction /\ UNCHANGED allocator
  \/ Collect \/ Allocate \/ OutOfMemory

-----------------------------------------------------------------------------
everything == <<allVars, allocator>>

CollectorInit == MachineInit /\ size = 0 /\ collected = FALSE

CompileProgram == Compile /\ UNCHANGED allocator

Finished ==
  /\ phase = "error" \/ status \in {"exited", "fault", "oom"}
  /\ UNCHANGED everything

CollectorNext == CompileProgram \/ (Run /\ UNCHANGED vars) \/ Finished

CollectorProgress == (Step /\ UNCHANGED <<machine, allocator>>) \/ (Run /\ UNCHANGED vars)

CollectorSpec ==
  CollectorInit /\ [][CollectorNext]_everything /\ WF_everything(CollectorProgress)

-----------------------------------------------------------------------------
\* Type invariant.  The objects lie one behind the other in the half in use,
\* headers and all, and fill it as far as it is filled.
CollectorTypeOK ==
  /\ MachineTypeOK
  /\ heapbase \in {HeapBase, HeapBase + Word * HalfWords}
  /\ heapcur = heapbase + Word * from /\ from \in 0..HalfWords
  /\ \A p \in DOMAIN objects :
       LET next == p + Word * (objects[p] + 1)
       IN  p > heapbase /\ (next \in DOMAIN objects \/ next = heapcur + Word)

\* A program prints what it means however small the heap, and however often
\* its objects have moved under it, as long as it holds no pointer in a
\* temporary or pushed argument, of which root information knows nothing,
\* while it allocates.
CollectedResult == ResultCorrect \/ S!PointerInFlight(prog)

\* Its stores go to its frame and to objects where they are now, never to
\* where an object was before it was moved, unless they are through nil.
CollectedStores ==
  status = "running" /\ pc \in DOMAIN insns /\ Current.dst.mode = "mem" =>
    \/ Address(Current.dst) \in OwnWords \cup ObjectWords
    \/ Address(Current.dst) \in 0..StackEnd
    \/ S!PointerInFlight(prog)

\* However small the heap, a program whose loops and recursion end is run to
\* its end or stopped for want of memory.
CollectorTerminates == phase = "generating" ~> status \in {"exited", "fault", "oom"}
=============================================================================
