----------------------------- MODULE HeapProofs -----------------------------
(***************************************************************************)
(* Proofs about Heap for every Header, Sizes, FirstBreak and MaxBreak.     *)
(*                                                                         *)
(* ChainTiles is not inductive: alloc trusts the cursor to stand on a head *)
(* or on the end, and the room of a held block is known only through the   *)
(* size written when the block was first made.  IInv adds those facts.     *)
(***************************************************************************)
EXTENDS Heap, TLAPS

(* Every block has room for its header and lies below the chain's end.     *)
Sized ==
  \A h \in Heads : size[h] >= Header /\ h + size[h] <= End

(* A held address is just past a head whose block has the requested room.  *)
HasRoom ==
  \A p \in DOMAIN owned :
    p - Header \in Heads /\ owned[p] + Header <= size[p - Header]

(* What alloc knows at each point of a call.                               *)
CallState ==
  /\ pc = "boot" => Heads = {} /\ DOMAIN owned = {} /\ memLast = memStart
  /\ pc = "scan" =>
       /\ cursor \in Heads \union {memLast}
       /\ need >= Header
       /\ \A h \in Heads : h < cursor /\ avail[h] = 1 => size[h] < need
  /\ pc \in {"header", "fault"} => memLast = cursor + need /\ need >= Header
  /\ pc \in {"scan", "header"} => need - Header \in Sizes

IInv == TypeOK /\ ChainTiles /\ Sized /\ HasRoom /\ HeldIffUnavailable
        /\ CallState

-----------------------------------------------------------------------------
(* IInv is inductive.                                                      *)

LEMMA InitEstablishes == Init => IInv
  BY HeaderAssumption, SizesAssumption, BreakAssumption
  DEF Init, IInv, TypeOK, ChainTiles, Sized, HasRoom, HeldIffUnavailable,
      CallState, End, Heads, Empty

LEMMA InitHeapPreserves == IInv /\ InitHeap => IInv'
  BY HeaderAssumption, SizesAssumption, BreakAssumption
  DEF InitHeap, IInv, TypeOK, ChainTiles, Sized, HasRoom, HeldIffUnavailable,
      CallState, End, Heads

LEMMA CallAllocPreserves == IInv /\ CallAlloc => IInv'
  BY HeaderAssumption, SizesAssumption, BreakAssumption
  DEF CallAlloc, IInv, TypeOK, ChainTiles, Sized, HasRoom,
      HeldIffUnavailable, CallState, End, Heads, heap

LEMMA MovePreserves == IInv /\ Move => IInv'
  BY HeaderAssumption, SizesAssumption, BreakAssumption
  DEF Move, Fits, IInv, TypeOK, ChainTiles, Sized, HasRoom,
      HeldIffUnavailable, CallState, End, Heads, heap

LEMMA GrowPreserves == IInv /\ Grow => IInv'
  BY HeaderAssumption, SizesAssumption, BreakAssumption
  DEF Grow, IInv, TypeOK, ChainTiles, Sized, HasRoom,
      HeldIffUnavailable, CallState, End, Heads

LEMMA FaultPreserves == IInv /\ Fault => IInv'
  BY HeaderAssumption, SizesAssumption, BreakAssumption
  DEF Fault, IInv, TypeOK, ChainTiles, Sized, HasRoom,
      HeldIffUnavailable, CallState, End, Heads, heap

LEMMA TakePreserves == IInv /\ Take => IInv'
<1> SUFFICES ASSUME IInv, Take PROVE IInv'
  OBVIOUS
<1>1. /\ cursor \in Heads /\ avail[cursor] = 1
      /\ pc' = "idle" /\ Heads' = Heads /\ End' = End
      /\ avail' = [h \in Heads |-> IF h = cursor THEN 0 ELSE avail[h]]
      /\ owned' = [p \in DOMAIN owned \union {cursor + Header} |->
                     IF p = cursor + Header THEN need - Header ELSE owned[p]]
      /\ UNCHANGED <<memStart, memLast, size, cursor, need>>
  BY DEF IInv, TypeOK, CallState, Take, Fits, Answer, With, Heads, End
<1>2. cursor + Header \notin DOMAIN owned
  BY <1>1, HeaderAssumption DEF IInv, TypeOK, HeldIffUnavailable
<1>3. TypeOK'
  BY <1>1, HeaderAssumption DEF IInv, TypeOK, CallState, Take, Heads
<1>4. ChainTiles' /\ Sized' /\ CallState'
  BY <1>1 DEF IInv, ChainTiles, Sized, CallState
<1>5. HasRoom'
  BY <1>1, <1>2, HeaderAssumption DEF IInv, TypeOK, HasRoom, Take, Fits
<1>6. HeldIffUnavailable'
  BY <1>1, <1>2, HeaderAssumption DEF IInv, TypeOK, HeldIffUnavailable
<1> QED
  BY <1>3, <1>4, <1>5, <1>6 DEF IInv

LEMMA WriteHeaderPreserves == IInv /\ WriteHeader => IInv'
  BY HeaderAssumption, SizesAssumption, BreakAssumption, SMTT(30)
  DEF WriteHeader, Answer, With, IInv, TypeOK, ChainTiles, Sized, HasRoom,
      HeldIffUnavailable, CallState, End, Heads, heap

LEMMA CallFreePreserves == IInv /\ CallFree => IInv'
  BY HeaderAssumption, SizesAssumption, BreakAssumption
  DEF CallFree, Without, IInv, TypeOK, ChainTiles, Sized, HasRoom,
      HeldIffUnavailable, CallState, End, Heads, heap

(* The chain of headers stays whole through every call of alloc and free.  *)
THEOREM Invariance == Spec => []IInv
<1>1. IInv /\ [Next]_vars => IInv'
  <2> SUFFICES ASSUME IInv, [Next]_vars PROVE IInv'
    OBVIOUS
  <2>1. CASE AllocStep
    BY <2>1, TakePreserves, MovePreserves, GrowPreserves,
       WriteHeaderPreserves, FaultPreserves DEF AllocStep
  <2>2. CASE InitHeap \/ CallAlloc \/ CallFree
    BY <2>2, InitHeapPreserves, CallAllocPreserves, CallFreePreserves
  <2>3. CASE UNCHANGED vars
    BY <2>3 DEF vars, IInv, TypeOK, ChainTiles, Sized, HasRoom,
       HeldIffUnavailable, CallState, End, Heads
  <2> QED
    BY <2>1, <2>2, <2>3 DEF Next
<1> QED
  BY InitEstablishes, <1>1, PTL DEF Spec

-----------------------------------------------------------------------------
(* What follows from IInv.                                                 *)

(* Type correctness of the heap's words and registers.                     *)
THEOREM TypeCorrect == Spec => []TypeOK
  BY Invariance, PTL DEF IInv

(* The chain tiles the heap: the scan of alloc visits every block and      *)
(* stops exactly at V_mem_last.                                            *)
THEOREM Tiling == Spec => []ChainTiles
  BY Invariance, PTL DEF IInv

(* What free releases can be found again, what is held is never handed out *)
(* a second time.                                                          *)
THEOREM HeldExactly == Spec => []HeldIffUnavailable
  BY Invariance, PTL DEF IInv

LEMMA RoomIsPrivate == IInv => BlocksDisjoint
<1> SUFFICES ASSUME IInv PROVE BlocksDisjoint
  OBVIOUS
<1>1. ASSUME NEW p \in DOMAIN owned, NEW h \in Heads
      PROVE  h + Header <= p \/ p + owned[p] <= h
  BY <1>1, HeaderAssumption
  DEF IInv, TypeOK, ChainTiles, Sized, HasRoom, Heads
<1>2. ASSUME NEW p \in DOMAIN owned, NEW q \in DOMAIN owned, p < q
      PROVE  p + owned[p] <= q
  BY <1>1, <1>2, HeaderAssumption DEF IInv, TypeOK, ChainTiles, HasRoom
<1> QED
  BY <1>1, <1>2 DEF BlocksDisjoint

(* No two objects of the program overlap, and none overlaps a header.      *)
THEOREM Disjoint == Spec => []BlocksDisjoint
  BY Invariance, RoomIsPrivate, PTL

(* alloc moves the break only when no available block is large enough.     *)
THEOREM GrowsLast == Spec => GrowsOnlyWhenNothingFits
<1>1. IInv /\ [Next]_vars =>
        [memLast' # memLast /\ pc = "scan" =>
           \A h \in Heads : avail[h] = 1 => size[h] < need]_vars
  <2> SUFFICES ASSUME IInv, Next, memLast' # memLast, pc = "scan",
                      NEW h \in Heads, avail[h] = 1
               PROVE  size[h] < need
    BY DEF vars
  <2>1. Grow
    BY DEF Next, AllocStep, InitHeap, CallAlloc, Take, Move, WriteHeader,
           Fault, CallFree, heap
  <2>2. h < cursor
    BY <2>1, HeaderAssumption DEF Grow, IInv, TypeOK, Sized, End
  <2> QED
    BY <2>2 DEF IInv, CallState
<1> QED
  BY Invariance, <1>1, PTL DEF Spec, GrowsOnlyWhenNothingFits

(* Every byte the program holds lies below the break, unless the kernel    *)
(* refused to move it last (alloc ignores the answer).                     *)
THEOREM Mapped == Spec => []HeldIsMapped
<1>1. ASSUME IInv, memLast <= brk, NEW p \in DOMAIN owned
      PROVE  p + owned[p] <= brk
  <2>1. End <= memLast
    BY <1>1, HeaderAssumption DEF IInv, TypeOK, CallState, End
  <2>2. p + owned[p] <= End
    BY <1>1, HeaderAssumption DEF IInv, TypeOK, HasRoom, Sized, Heads, End
  <2> QED
    BY <1>1, <2>1, <2>2, HeaderAssumption DEF IInv, TypeOK, End
<1>2. IInv => HeldIsMapped
  BY <1>1 DEF HeldIsMapped
<1> QED
  BY Invariance, <1>2, PTL

(* When the kernel refuses nothing, V_mem_last is the break and no header  *)
(* write faults.                                                           *)
BreakAgrees == pc = "boot" \/ (pc # "fault" /\ brk = memLast)

(* A fault of alloc needs a kernel that refuses to move the break.         *)
THEOREM NeverFaults == ASSUME MayRefuse = FALSE PROVE Spec => []BreakAgrees
<1>1. Init => BreakAgrees
  BY DEF Init, BreakAgrees
<1>2. IInv /\ BreakAgrees /\ [Next]_vars => BreakAgrees'
  BY DEF IInv, TypeOK, BreakAgrees, Next, vars, heap, AllocStep, InitHeap,
         CallAlloc, Take, Move, Grow, WriteHeader, Fault, CallFree, Answer
<1> QED
  BY Invariance, <1>1, <1>2, PTL DEF Spec

(* The heap implements the abstract allocator.                             *)
THEOREM Implements == Spec => KeepsPromise
<1>1. Init => Abs!Init
  BY DEF Init, Abs!Init, Empty
<1>2. IInv /\ [Next]_vars => [Abs!Next]_owned
  <2> SUFFICES ASSUME IInv, Next, owned' # owned PROVE Abs!Next
    BY DEF vars
  <2>1. CASE CallFree
    BY <2>1 DEF CallFree, Without, Abs!Next, Abs!Free
  <2>2. CASE Take \/ WriteHeader
    <3> DEFINE p == cursor + Header
    <3>1. owned' = [q \in DOMAIN owned \union {p} |->
                      IF q = p THEN need - Header ELSE owned[q]]
      BY <2>2 DEF Take, WriteHeader, Answer, With
    <3>2. need - Header \in Sizes
      BY <2>2 DEF Take, WriteHeader, IInv, CallState
    <3>3. ASSUME NEW q \in DOMAIN owned
          PROVE  q # p /\ Abs!Apart(p, need - Header, q, owned[q])
      <4> DEFINE g == q - Header
      <4>1. /\ g \in Heads /\ avail[g] = 0
            /\ owned[q] \in Nat /\ size[g] \in Nat /\ q \in Nat
            /\ q + owned[q] <= g + size[g]
        BY HeaderAssumption
        DEF IInv, TypeOK, HasRoom, HeldIffUnavailable, Heads
      <4>2. CASE Take
        <5>1. cursor \in Heads /\ avail[cursor] = 1 /\ size[cursor] >= need
          BY <4>2 DEF Take, Fits, IInv, CallState
        <5>2. g + size[g] <= cursor \/ cursor + size[cursor] <= g
          BY <4>1, <5>1 DEF IInv, ChainTiles, TypeOK
        <5> QED
          BY <4>1, <5>1, <5>2, HeaderAssumption
          DEF IInv, TypeOK, Sized, Heads, Abs!Apart
      <4>3. CASE WriteHeader
        <5>1. g + size[g] <= cursor
          BY <4>1, <4>3 DEF WriteHeader, IInv, Sized, End
        <5> QED
          BY <4>1, <5>1, HeaderAssumption DEF IInv, TypeOK, Abs!Apart
      <4> QED
        BY <2>2, <4>2, <4>3
    <3> QED
      BY <3>1, <3>2, <3>3 DEF Abs!Next, Abs!Alloc
  <2> QED
    BY <2>1, <2>2 DEF Next, AllocStep, InitHeap, CallAlloc, Move, Grow, Fault
<1> QED
  BY Invariance, <1>1, <1>2, PTL DEF Spec, KeepsPromise, Abs!Spec
=============================================================================
