-------------------------- MODULE SemiSpaceProofs --------------------------
(***************************************************************************)
(* The invariants of SemiSpace, for all sizes of heaps and of requests.    *)
(* They are not inductive by themselves: what a call of Alloc() may assume *)
(* while it is in progress is added (Phases), and where frames lie.        *)
(***************************************************************************)
EXTENDS SemiSpace, SequenceTheorems, TLAPS

\* The frames that run lie one below the other, from base.
FramesInOrder ==
  /\ Len(frames) <= MaxCalls
  /\ \A i \in DOMAIN frames : frames[i] = base - FrameSize * i

\* What is known at each stage of Alloc().
Phases ==
  /\ status = "running" /\ request # NoRequest => blocks < MaxBlocks
  /\ status \in {"walking", "collected"} => from = 0
  /\ status = "walking" /\ frame = base => heapcur = BlockStart(blocks)
  /\ status \in {"walking", "collected"} => request # NoRequest
  /\ status = "collected" => objects = <<>>

IInv == TypeOK /\ FramesInOrder /\ Phases /\ ObjectsDisjoint /\ CountsWords

USE DEF NoRequest, base, StackLimit, FrameSize

-----------------------------------------------------------------------------
\* The last element of a sequence, and the sequence without it.
LEMMA LastAndFront ==
  ASSUME NEW S, NEW s \in Seq(S), s # <<>>
  PROVE  /\ Len(s) \in Nat \ {0} /\ Last(s) = s[Len(s)] /\ Last(s) \in S
         /\ Front(s) \in Seq(S) /\ Len(Front(s)) = Len(s) - 1
         /\ \A i \in 1..(Len(s) - 1) : Front(s)[i] = s[i]
<1>1. Len(s) \in Nat \ {0}
  BY EmptySeq
<1>2. \A i \in 1..Len(s) : s[i] \in S
  BY LenProperties
<1> DEFINE n == Len(s) - 1
<1>4. n \in Int /\ \A i \in 1..n : s[i] \in S
  BY <1>1, <1>2
<1>5. /\ SubSeq(s, 1, n) \in Seq(S)
      /\ Len(SubSeq(s, 1, n)) = IF 1 <= n THEN n - 1 + 1 ELSE 0
      /\ \A i \in 1..(n - 1 + 1) : SubSeq(s, 1, n)[i] = s[1 + i - 1]
  <2> HIDE DEF n
  <2> QED BY <1>4, SubSeqProperties
<1>6. Front(s) = SubSeq(s, 1, n)
  BY DEF Front
<1>7. n \in Nat /\ n = Len(s) - 1
  BY <1>1
<1>8. Len(SubSeq(s, 1, n)) = n /\ \A i \in 1..n : SubSeq(s, 1, n)[i] = s[i]
  <2> HIDE DEF n
  <2>1. \A i \in 1..n : i \in 1..(n - 1 + 1) /\ 1 + i - 1 = i
    BY <1>7
  <2>2. (IF 1 <= n THEN n - 1 + 1 ELSE 0) = n
    BY <1>7
  <2> QED BY <1>5, <2>1, <2>2
<1>9. Last(s) = s[Len(s)] /\ Last(s) \in S
  BY <1>1, <1>2 DEF Last
<1> QED BY <1>1, <1>5, <1>6, <1>8, <1>9

\* The frame handed to Alloc() is mapped, and not above base.
LEMMA CurrFrameInStack ==
  ASSUME TypeOK, FramesInOrder
  PROVE  CurrFrame \in StackLimit..base
<1>1. CASE frames = <<>>
  BY <1>1 DEF CurrFrame
<1>2. CASE frames # <<>>
  <2>1. frames \in Seq(StackLimit..base)
    BY DEF TypeOK
  <2>2. Last(frames) \in StackLimit..base
    BY <1>2, <2>1, LastAndFront
  <2> QED BY <1>2, <2>2 DEF CurrFrame
<1> QED BY <1>1, <1>2

\* The initial states of the collector satisfy the invariant.
LEMMA InitInvariant == Init => IInv
<1> SUFFICES ASSUME Init PROVE IInv
  OBVIOUS
<1> USE ConstantsAssumption
<1>1. TypeOK
  BY DEF Init, TypeOK, BlockStart
<1>2. FramesInOrder
  BY DEF Init, FramesInOrder
<1>3. Phases
  BY DEF Init, Phases
<1>4. ObjectsDisjoint
  BY DEF Init, ObjectsDisjoint
<1>5. CountsWords
  BY <1>1 DEF Init, CountsWords, TypeOK
<1> QED BY <1>1, <1>2, <1>3, <1>4, <1>5 DEF IInv

-----------------------------------------------------------------------------
\* The steps of the program outside of Alloc() move only the frames, or
\* make a request.
LEMMA ProgramStep ==
  ASSUME IInv, CallFunction \/ ReturnFunction \/ RequestWords
  PROVE  IInv'
<1> USE ConstantsAssumption DEF IInv
<1>1. CASE CallFunction
  <2>0. /\ frames \in Seq(StackLimit..base) /\ Len(frames) \in Nat
        /\ Len(frames) < MaxCalls
        /\ frames' = Append(frames, CurrFrame - FrameSize)
    BY <1>1 DEF CallFunction, TypeOK
  <2>1. CurrFrame = base - FrameSize * Len(frames)
    <3>1. CASE frames = <<>>
      BY <3>1 DEF CurrFrame
    <3>2. CASE frames # <<>>
      BY <2>0, <3>2 DEF CurrFrame, Last, FramesInOrder
    <3> QED BY <3>1, <3>2
  <2>2. CurrFrame - FrameSize \in StackLimit..base
    <3> DEFINE n == Len(frames)
    <3>1. n \in Nat /\ n < MaxCalls /\ CurrFrame = base - FrameSize * n
      BY <2>0, <2>1
    <3>2. MaxCalls \in Nat /\ base - FrameSize * MaxCalls >= StackLimit
      OBVIOUS
    <3> HIDE ConstantsAssumption DEF n, IInv
    <3> QED BY <3>1, <3>2
  <2>3. frames' \in Seq(StackLimit..base) /\ Len(frames') = Len(frames) + 1
    BY <2>0, <2>2
  <2>4. TypeOK'
    BY <1>1, <2>3 DEF CallFunction, TypeOK, heap
  <2>5. FramesInOrder'
    <3>1. ASSUME NEW i \in DOMAIN frames' PROVE frames'[i] = base - FrameSize * i
      BY <2>0, <2>1, <2>2, <2>3, <3>1 DEF FramesInOrder
    <3> QED BY <2>0, <2>3, <3>1 DEF FramesInOrder
  <2>6. (Phases /\ ObjectsDisjoint /\ CountsWords)'
    BY <1>1 DEF CallFunction, Phases, ObjectsDisjoint, CountsWords, Words, heap
  <2> QED BY <2>4, <2>5, <2>6
<1>2. CASE ReturnFunction
  <2>0. frames \in Seq(StackLimit..base) /\ frames # <<>> /\ frames' = Front(frames)
    BY <1>2 DEF ReturnFunction, TypeOK
  <2>1. /\ Len(frames) \in Nat \ {0}
        /\ frames' \in Seq(StackLimit..base) /\ Len(frames') = Len(frames) - 1
        /\ \A i \in 1..(Len(frames) - 1) : frames'[i] = frames[i]
    <3> HIDE ConstantsAssumption DEF IInv
    <3> DEFINE S == StackLimit..base
    <3>0. frames \in Seq(S) /\ frames # <<>>
      BY <2>0
    <3>1. /\ Len(frames) \in Nat \ {0}
          /\ Front(frames) \in Seq(S) /\ Len(Front(frames)) = Len(frames) - 1
          /\ \A i \in 1..(Len(frames) - 1) : Front(frames)[i] = frames[i]
      <4> HIDE DEF S
      <4> QED BY <3>0, LastAndFront
    <3> QED BY <2>0, <3>1
  <2>2. TypeOK'
    BY <1>2, <2>1 DEF ReturnFunction, TypeOK, heap
  <2>3. FramesInOrder'
    <3>1. Len(frames) <= MaxCalls /\ \A i \in 1..Len(frames) : frames[i] = base - FrameSize * i
      BY <2>0 DEF FramesInOrder
    <3>2. DOMAIN frames' = 1..(Len(frames) - 1) /\ Len(frames') <= MaxCalls
      BY <2>1, <3>1
    <3>3. \A i \in 1..(Len(frames) - 1) : frames'[i] = base - FrameSize * i
      BY <2>1, <3>1
    <3> QED BY <3>2, <3>3 DEF FramesInOrder
  <2>4. (Phases /\ ObjectsDisjoint /\ CountsWords)'
    BY <1>2 DEF ReturnFunction, Phases, ObjectsDisjoint, CountsWords, Words, heap
  <2> QED BY <2>2, <2>3, <2>4
<1>3. CASE RequestWords
  <2>1. (TypeOK /\ FramesInOrder)'
    BY <1>3 DEF RequestWords, TypeOK, FramesInOrder, heap
  <2>2. (Phases /\ ObjectsDisjoint /\ CountsWords)'
    BY <1>3 DEF RequestWords, Phases, ObjectsDisjoint, CountsWords, Words, heap
  <2> QED BY <2>1, <2>2
<1> QED BY <1>1, <1>2, <1>3

\* A request that fits takes words above all that were handed out before.
LEMMA TakeWordsStep ==
  ASSUME IInv, TakeWords
  PROVE  IInv'
<1> USE ConstantsAssumption DEF IInv
<1> DEFINE o == [at |-> heapcur + 4, size |-> request]
<1>0. /\ status \in {"running", "collected"} /\ request \in Sizes /\ request \in Nat
      /\ heapcur \in Nat /\ heapbase \in Nat /\ from \in Nat /\ totalheapwords \in Nat
      /\ from + request + 1 < totalheapwords
      /\ heapcur = heapbase + 4 * from
  BY DEF TakeWords, TypeOK, checkspace, CountsWords
<1>1. /\ heapcur' = heapcur + 4 * (request + 1) /\ from' = from + request + 1
      /\ heapbase' = heapbase /\ totalheapwords' = totalheapwords
      /\ status' = "running" /\ request' = NoRequest
      /\ frames' = frames /\ frame' = frame /\ blocks' = blocks
  BY <1>0 DEF TakeWords, Chunk
<1>2. /\ objects \in Seq([at : Nat, size : Sizes]) /\ Len(objects) \in Nat
      /\ o \in [at : Nat, size : Sizes]
      /\ objects' = Append(objects, o)
  BY <1>0 DEF TakeWords, TypeOK
<1>3. /\ objects' \in Seq([at : Nat, size : Sizes])
      /\ DOMAIN objects' = 1..(Len(objects) + 1)
      /\ \A i \in 1..Len(objects) : objects'[i] = objects[i]
      /\ objects'[Len(objects) + 1] = o
  BY <1>2
<1>4. TypeOK'
  BY <1>0, <1>1, <1>3 DEF TypeOK
<1>5. FramesInOrder'
  BY <1>1 DEF FramesInOrder
<1>6. Phases'
  BY <1>1 DEF Phases
<1>7. Words(o) = (heapcur + 3)..(heapcur + 3 + request)
  <2>1. o.at = heapcur + 4 /\ o.size = request
    OBVIOUS
  <2> QED BY <1>0, <2>1 DEF Words
<1>8. \A i \in 1..Len(objects) : Words(objects'[i]) \subseteq heapbase..(heapcur - 1)
  BY <1>0, <1>2, <1>3 DEF CountsWords
<1>9. ObjectsDisjoint'
  <2> SUFFICES ASSUME NEW i \in 1..(Len(objects) + 1), NEW j \in 1..(Len(objects) + 1), i # j
               PROVE  Words(objects'[i]) \cap Words(objects'[j]) = {}
    BY <1>3 DEF ObjectsDisjoint, Words
  <2> HIDE DEF o
  <2>1. CASE i \in 1..Len(objects) /\ j \in 1..Len(objects)
    BY <1>2, <1>3, <2>1 DEF ObjectsDisjoint
  <2>2. ASSUME NEW k \in 1..Len(objects) PROVE Words(objects'[k]) \cap Words(o) = {}
    BY <1>0, <1>7, <1>8, <2>2
  <2>3. CASE i = Len(objects) + 1
    BY <1>2, <1>3, <2>2, <2>3
  <2>4. CASE j = Len(objects) + 1
    BY <1>2, <1>3, <2>2, <2>4
  <2>5. \/ i = Len(objects) + 1 \/ j = Len(objects) + 1
        \/ i \in 1..Len(objects) /\ j \in 1..Len(objects)
    BY <1>2
  <2> QED BY <2>1, <2>3, <2>4, <2>5
<1>10. CountsWords'
  <2> HIDE DEF o
  <2>1. heapcur' = heapbase' + 4 * from'
    BY <1>0, <1>1
  <2>2. from' < totalheapwords'
    BY <1>0, <1>1
  <2>3. ASSUME NEW i \in 1..(Len(objects) + 1)
        PROVE  Words(objects'[i]) \subseteq heapbase'..(heapcur' - 1)
    <3>1. CASE i \in 1..Len(objects)
      <4>1. Words(objects'[i]) \subseteq heapbase..(heapcur - 1)
        BY <1>8, <3>1
      <4>2. heapbase..(heapcur - 1) \subseteq heapbase'..(heapcur' - 1)
        BY <1>0, <1>1
      <4> QED BY <4>1, <4>2
    <3>2. CASE i = Len(objects) + 1
      BY <1>0, <1>1, <1>3, <1>7, <3>2
    <3> QED BY <1>2, <3>1, <3>2
  <2> QED BY <1>3, <2>1, <2>2, <2>3 DEF CountsWords, Words
<1> QED BY <1>4, <1>5, <1>6, <1>9, <1>10

\* A collection starts in a fresh block, and its walk never meets base again
\* once it has left it.
LEMMA CollectionStep ==
  ASSUME IInv, Collect \/ WalkFrame \/ WalkFaults \/ FinishCollect \/ OutOfMemory
  PROVE  IInv'
<1> USE ConstantsAssumption DEF IInv
<1>1. CASE Collect
  <2>1. CurrFrame \in StackLimit..base
    BY CurrFrameInStack
  <2>2. blocks \in 1..(MaxBlocks - 1)
    BY <1>1 DEF Collect, TypeOK, Phases
  <2>3. TypeOK'
    BY <1>1, <2>1, <2>2 DEF Collect, TypeOK, BlockStart
  <2>4. (FramesInOrder /\ Phases)'
    BY <1>1 DEF Collect, FramesInOrder, Phases, BlockStart
  <2>5. (ObjectsDisjoint /\ CountsWords)'
    BY <1>1 DEF Collect, ObjectsDisjoint, CountsWords, Words
  <2> QED BY <2>3, <2>4, <2>5
<1>2. CASE WalkFrame
  <2>1. TypeOK'
    BY <1>2 DEF WalkFrame, TypeOK
  <2>2. frame' # base
    BY <1>2 DEF WalkFrame, TypeOK
  <2>3. (FramesInOrder /\ Phases)'
    BY <1>2, <2>2 DEF WalkFrame, FramesInOrder, Phases
  <2>4. (ObjectsDisjoint /\ CountsWords)'
    BY <1>2 DEF WalkFrame, ObjectsDisjoint, CountsWords, Words
  <2> QED BY <2>1, <2>3, <2>4
<1>3. CASE WalkFaults
  <2>1. (TypeOK /\ FramesInOrder /\ Phases)'
    BY <1>3 DEF WalkFaults, TypeOK, FramesInOrder, Phases, heap
  <2>2. (ObjectsDisjoint /\ CountsWords)'
    BY <1>3 DEF WalkFaults, ObjectsDisjoint, CountsWords, Words, heap
  <2> QED BY <2>1, <2>2
<1>4. CASE FinishCollect
  <2>1. TypeOK'
    BY <1>4 DEF FinishCollect, TypeOK, BlockStart
  <2>2. (FramesInOrder /\ Phases)'
    BY <1>4 DEF FinishCollect, FramesInOrder, Phases
  <2>3. ObjectsDisjoint'
    BY <1>4 DEF FinishCollect, ObjectsDisjoint
  <2>4. CountsWords'
    BY <1>4, <2>1 DEF FinishCollect, CountsWords, Phases, TypeOK
  <2> QED BY <2>1, <2>2, <2>3, <2>4
<1>5. CASE OutOfMemory
  <2>1. (TypeOK /\ FramesInOrder)'
    BY <1>5 DEF OutOfMemory, TypeOK, FramesInOrder, heap
  <2>2. Phases'
    BY <1>5 DEF OutOfMemory, Phases, heap
  <2>3. (ObjectsDisjoint /\ CountsWords)'
    BY <1>5 DEF OutOfMemory, ObjectsDisjoint, CountsWords, Words, heap
  <2> QED BY <2>1, <2>2, <2>3
<1> QED BY <1>1, <1>2, <1>3, <1>4, <1>5

\* Nothing changes.
LEMMA StutterStep == IInv /\ UNCHANGED vars => IInv'
BY DEF IInv, vars, heap, TypeOK, FramesInOrder, Phases, ObjectsDisjoint, CountsWords, Words

-----------------------------------------------------------------------------
\* The invariant holds of every state the runtime reaches.
THEOREM Invariant == Spec => []IInv
<1>1. Init => IInv
  BY InitInvariant
<1>2. IInv /\ [Next]_vars => IInv'
  <2> SUFFICES ASSUME IInv, [Next]_vars PROVE IInv'
    OBVIOUS
  <2>1. CASE CallFunction \/ ReturnFunction \/ RequestWords
    BY <2>1, ProgramStep
  <2>2. CASE TakeWords
    BY <2>2, TakeWordsStep
  <2>3. CASE Collect \/ WalkFrame \/ WalkFaults \/ FinishCollect \/ OutOfMemory
    BY <2>3, CollectionStep
  <2>4. CASE UNCHANGED vars
    BY <2>4, StutterStep
  <2> QED BY <2>1, <2>2, <2>3, <2>4 DEF Next, Alloc, Stopped
<1> QED BY <1>1, <1>2, PTL DEF Spec

\* Every variable of the collector keeps its type: among others, the walk of
\* the stack never rises above base.
THEOREM HeapTypeCorrect == Spec => []TypeOK
<1>1. IInv => TypeOK
  BY DEF IInv
<1> QED BY <1>1, Invariant, PTL

\* No two objects that Alloc() hands out of one block share a word.
THEOREM ObjectsNeverOverlap == Spec => []ObjectsDisjoint
<1>1. IInv => ObjectsDisjoint
  BY DEF IInv
<1> QED BY <1>1, Invariant, PTL

\* from counts the words handed out of the block in use, whatever their
\* sizes, and stays below the size of the heap.
THEOREM CountIsRight == Spec => []CountsWords
<1>1. IInv => CountsWords
  BY DEF IInv
<1> QED BY <1>1, Invariant, PTL
=============================================================================
