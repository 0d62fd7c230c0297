------------------------------ MODULE SemiSpace ------------------------------
(***************************************************************************)
(* GcSemiSpace (gc.cpp, gc.h) under the calls an L2 program makes:         *)
(* functions called and returned from, and allocate() (bootstrap.cpp)      *)
(* passing Alloc() the frame of the L2 function that runs.                 *)
(*                                                                         *)
(* An address counts words, the unit of arithmetic on intptr_t*.  The      *)
(* stack grows towards lower addresses, from base.  What lies on it below  *)
(* the frame a collection starts from - the frames of allocate(), Alloc()  *)
(* and collect(), and words no function owns - is not known, so what copy  *)
(* finds there is a choice.                                                *)
(*                                                                         *)
(* collect() passes copy() a word where a pointer is expected (gc.cpp:37)  *)
(* and is read as if the word were converted.  That loop is not modelled:  *)
(* scan < heapcur only after an object was copied, and once one frame is   *)
(* walked the walk does not come to base any more.  What copy() writes     *)
(* below the stack in use is not modelled either.                          *)
(***************************************************************************)
EXTENDS Integers, Sequences, SequencesExt

CONSTANTS
  HeapSizes,   \* heap sizes in words that the program may be started with
  Sizes,       \* numbers of words asked for
  OutsideCalls,  \* whether Alloc() is also called from outside any L2 function
  MaxCalls,    \* bound: nested L2 functions
  MaxBlocks    \* bound: no request once malloc() has returned so many blocks

base       == 500     \* the frame pointer of main()
StackLimit == 400     \* the lowest word of the stack that is mapped
FrameSize  == 8       \* words between the frame pointers of two L2 functions
BlockStart(k) == 1000 * k

\* The L2 functions that run fit on the stack.
ASSUME ConstantsAssumption ==
  /\ HeapSizes \subseteq Nat /\ Sizes \subseteq Nat /\ OutsideCalls \in BOOLEAN
  /\ MaxCalls \in Nat /\ base - FrameSize * MaxCalls >= StackLimit
  /\ MaxBlocks \in Nat \ {0}

VARIABLES
  status,     \* "running", "walking" the stack in collect(), "collected",
              \* "oom" once OutOfMemoryError is thrown, "fault"
  frames,     \* frame pointers of the L2 functions that run, outermost first
  heapbase, heapcur, from, totalheapwords,   \* of GcSemiSpace
  request,    \* num_words of the call of Alloc() in progress, or NoRequest
  frame,      \* of collect(): the frame pointer reached
  blocks,     \* how many blocks malloc() has returned
  objects     \* history: objects [at, size] handed out of the current block

heap == <<heapbase, heapcur, from, totalheapwords>>
vars == <<status, frames, heap, request, frame, blocks, objects>>

NoRequest == -1

\* The frame pointer allocate() hands to Alloc().
CurrFrame == IF frames = <<>> THEN base ELSE Last(frames)

-----------------------------------------------------------------------------
\* main() of bootstrap.cpp: the constructor, before Entry is called.
Init ==
  /\ status = "running"
  /\ frames = <<>>
  /\ totalheapwords \in HeapSizes
  /\ heapbase = BlockStart(1) /\ heapcur = heapbase
  /\ from = 0
  /\ request = NoRequest
  /\ frame = base
  /\ blocks = 1
  /\ objects = <<>>

CallFunction ==
  /\ status = "running" /\ request = NoRequest /\ Len(frames) < MaxCalls
  /\ frames' = Append(frames, CurrFrame - FrameSize)
  /\ UNCHANGED <<status, heap, request, frame, blocks, objects>>

ReturnFunction ==
  /\ status = "running" /\ request = NoRequest /\ frames # <<>>
  /\ frames' = Front(frames)
  /\ UNCHANGED <<status, heap, request, frame, blocks, objects>>

\* Alloc() is entered.  A frame of base stands for a call from outside any
\* L2 function, which the interface allows and bootstrap.cpp does not make:
\* only then does a collection end.
RequestWords ==
  /\ status = "running" /\ request = NoRequest /\ blocks < MaxBlocks
  /\ frames # <<>> \/ OutsideCalls
  /\ request' \in Sizes
  /\ UNCHANGED <<status, frames, heap, frame, blocks, objects>>

\* Mutant of checkspace: the header word is not counted.
checkspaceNoHeader(n) == from + n < totalheapwords

checkspace(n) == from + n + 1 < totalheapwords

\* Mutant of Chunk: the words asked for, without the header.
ChunkNoHeader(n) == n

\* What heapcur moves by, in words.
Chunk(n) == (n + 1) * 4

\* The rest of Alloc() when the words fit, at once or after a collection.
TakeWords ==
  /\ status \in {"running", "collected"} /\ request # NoRequest
  /\ checkspace(request)
  /\ objects' = Append(objects, [at |-> heapcur + 4, size |-> request])
  /\ heapcur' = heapcur + Chunk(request)
  /\ from' = from + request + 1
  /\ status' = "running"
  /\ request' = NoRequest
  /\ UNCHANGED <<frames, heapbase, totalheapwords, frame, blocks>>

\* collect() up to its first loop.
Collect ==
  /\ status = "running" /\ request # NoRequest
  /\ ~checkspace(request)
  /\ status' = "walking"
  /\ frame' = CurrFrame
  /\ blocks' = blocks + 1
  /\ heapcur' = BlockStart(blocks + 1)
  /\ from' = 0
  /\ UNCHANGED <<frames, heapbase, totalheapwords, request, objects>>

\* Mutant of WalkFrame: up the stack, where the callers are.
WalkFrameUp ==
  /\ status = "walking" /\ frame # base
  /\ frame' = frame + 12
  /\ heapcur' \in {heapcur, heapcur + 4}
  /\ UNCHANGED <<status, frames, heapbase, from, totalheapwords, request, blocks, objects>>

\* One round of the walk: twelve words down, and copy() of the frame itself,
\* which takes four words if the word it tests happens to be odd.
WalkFrame ==
  /\ status = "walking" /\ frame # base
  /\ frame - 12 - 4 >= StackLimit
  /\ frame' = frame - 12
  /\ heapcur' \in {heapcur, heapcur + 4}
  /\ UNCHANGED <<status, frames, heapbase, from, totalheapwords, request, blocks, objects>>

\* copy() reads below the stack.
WalkFaults ==
  /\ status = "walking" /\ frame # base
  /\ frame - 12 - 4 < StackLimit
  /\ status' = "fault"
  /\ UNCHANGED <<frames, heap, request, frame, blocks, objects>>

\* collect() returns.  Objects still in the old block are lost to the new.
FinishCollect ==
  /\ status = "walking" /\ frame = base
  /\ heapbase' = BlockStart(blocks)
  /\ objects' = <<>>
  /\ status' = "collected"
  /\ UNCHANGED <<frames, heapcur, from, totalheapwords, request, frame, blocks>>

\* Alloc() gives up.
OutOfMemory ==
  /\ status = "collected" /\ ~checkspace(request)
  /\ status' = "oom"
  /\ UNCHANGED <<frames, heap, request, frame, blocks, objects>>

\* The program has ended.
Stopped == status \in {"oom", "fault"} /\ UNCHANGED vars

\* The steps of a call of Alloc().
Alloc == TakeWords \/ Collect \/ WalkFrame \/ WalkFaults \/ FinishCollect \/ OutOfMemory

Next == CallFunction \/ ReturnFunction \/ RequestWords \/ Alloc \/ Stopped

Spec == Init /\ [][Next]_vars /\ WF_vars(Alloc)

-----------------------------------------------------------------------------
\* Type invariant.
TypeOK ==
  /\ status \in {"running", "walking", "collected", "oom", "fault"}
  /\ frames \in Seq(StackLimit..base)
  /\ heapbase \in Nat /\ heapcur \in Nat /\ from \in Nat /\ totalheapwords \in HeapSizes
  /\ request \in Sizes \cup {NoRequest}
  /\ frame \in StackLimit..base
  /\ blocks \in 1..MaxBlocks
  /\ objects \in Seq([at : Nat, size : Sizes])

\* The words of an object, its header before them.
Words(o) == (o.at - 1)..(o.at + o.size - 1)

\* Two objects handed out of one block never share a word, headers
\* included, so that setting the fields of one leaves the other alone.
ObjectsDisjoint ==
  \A i, j \in DOMAIN objects : i # j => Words(objects[i]) \cap Words(objects[j]) = {}

\* The count that decides when to collect follows the bump pointer: outside
\* a collection the words counted are those handed out of the block in use,
\* and there are fewer of them than the heap has.
CountsWords ==
  status \in {"running", "collected"} =>
    /\ heapcur = heapbase + 4 * from
    /\ from = 0 \/ from < totalheapwords
    /\ \A i \in DOMAIN objects : Words(objects[i]) \subseteq heapbase..(heapcur - 1)

-----------------------------------------------------------------------------
(* What README.md asks of the collector. *)

\* The bump pointer stays in the heap while the program runs.
BumpPointerInHeap ==
  status = "running" => heapcur - heapbase \in 0..totalheapwords

\* A call of Alloc() ends: with the words, or with OutOfMemoryError.
AllocAnswers == request # NoRequest ~> (request = NoRequest \/ status = "oom")
=============================================================================
