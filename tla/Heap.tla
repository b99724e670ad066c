-------------------------------- MODULE Heap --------------------------------
(***************************************************************************)
(* The heap of a compiled EDDI program: functions/x86_64_{init,alloc,free} *)
(* (the x86_32 versions differ only in registers and in Header, 8 for 16). *)
(*                                                                         *)
(* The heap is a chain of blocks from V_mem_start to V_mem_last.  A block  *)
(* is a header <<avail, size>> followed by the user's bytes; size counts   *)
(* the header.  alloc scans the chain for the first available block that   *)
(* is large enough and otherwise moves the program break; free sets the    *)
(* availability word.  Blocks are neither split nor merged.                *)
(*                                                                         *)
(* The program is single threaded; a step is one iteration of the scan,    *)
(* one system call or one header write.                                    *)
(***************************************************************************)
EXTENDS Integers

CONSTANTS
  Header,      \* bytes of a header
  Sizes,       \* lengths the program asks for
  FirstBreak,  \* program break when the program starts
  MaxBreak,    \* bound of the model: no request may move the break beyond
  MayRefuse    \* TRUE: the kernel may refuse to move the break

ASSUME HeaderAssumption  == Header \in Nat \ {0}
ASSUME SizesAssumption   == Sizes \subseteq Nat
ASSUME BreakAssumption   == FirstBreak \in Nat /\ MaxBreak \in Nat
ASSUME RefuseAssumption  == MayRefuse \in BOOLEAN

VARIABLES
  pc,        \* boot, idle (in the program), scan, header, fault
  memStart,  \* V_mem_start
  memLast,   \* V_mem_last
  brk,       \* the kernel's program break
  avail,     \* first word of every header written so far
  size,      \* second word of every header written so far
  cursor,    \* r12: the block under examination
  need,      \* r14: requested length plus header
  owned      \* blocks the program holds: user address -> requested length

heap == <<memStart, memLast, brk, avail, size>>
vars == <<pc, memStart, memLast, brk, avail, size, cursor, need, owned>>

Heads == DOMAIN size

(* f with the value of x set to v, whether or not x was in its domain.     *)
With(f, x, v) == [y \in DOMAIN f \union {x} |-> IF y = x THEN v ELSE f[y]]

Without(f, x) == [y \in DOMAIN f \ {x} |-> f[y]]

Empty == [a \in {} |-> 0]

Init ==
  /\ pc = "boot"
  /\ memStart = 0 /\ memLast = 0
  /\ brk = FirstBreak
  /\ avail = Empty /\ size = Empty
  /\ cursor = 0 /\ need = 0
  /\ owned = Empty

(* _F4init: brk(0) answers the current break.                              *)
InitHeap ==
  /\ pc = "boot"
  /\ pc' = "idle"
  /\ memStart' = brk /\ memLast' = brk
  /\ UNCHANGED <<brk, avail, size, cursor, need, owned>>

(* The program calls alloc: add r14, 16 and load start and last.  (The     *)
(* bound: only requests that an available block or MaxBreak allows.)       *)
CallAlloc ==
  /\ pc = "idle"
  /\ \E n \in Sizes :
       /\ \/ memLast + n + Header <= MaxBreak
          \/ \E h \in Heads : avail[h] = 1 /\ size[h] >= n + Header
       /\ need' = n + Header
  /\ cursor' = memStart
  /\ pc' = "scan"
  /\ UNCHANGED <<heap, owned>>

(* Faulty variants: the size is not compared; equal sizes are refused.     *)
FitsAnySize == avail[cursor] = 1
FitsStrict  == avail[cursor] = 1 /\ size[cursor] > need

(* Whether alloc settles for the block under the cursor.                   *)
Fits == avail[cursor] = 1 /\ size[cursor] >= need

(* alloc answers the address past the header to the program.               *)
Answer ==
  /\ owned' = With(owned, cursor + Header, need - Header)
  /\ pc' = "idle"

(* Faulty variant: the block taken stays available.                        *)
TakeNotMarked ==
  /\ pc = "scan"
  /\ cursor # memLast
  /\ Fits
  /\ Answer
  /\ UNCHANGED <<heap, cursor, need>>

(* An available block of sufficient size ends the scan.                    *)
Take ==
  /\ pc = "scan"
  /\ cursor # memLast
  /\ Fits
  /\ avail' = [avail EXCEPT ![cursor] = 0]
  /\ Answer
  /\ UNCHANGED <<memStart, memLast, brk, size, cursor, need>>

(* Faulty variant: the size of the next block is never added.              *)
MoveNowhere ==
  /\ pc = "scan"
  /\ cursor # memLast
  /\ ~Fits
  /\ UNCHANGED vars

(* .move: on to the next block.                                            *)
Move ==
  /\ pc = "scan"
  /\ cursor # memLast
  /\ ~Fits
  /\ cursor' = cursor + size[cursor]
  /\ UNCHANGED <<pc, heap, need, owned>>

(* Faulty variant: V_mem_last without the header's bytes.                  *)
GrowBy(last, break) ==
  /\ pc = "scan"
  /\ cursor = memLast
  /\ brk' = break
  /\ memLast' = last
  /\ pc' = "header"
  /\ UNCHANGED <<memStart, avail, size, cursor, need, owned>>

GrowShort == GrowBy(cursor + need - Header, cursor + need)

(* .alloc: ask the kernel for the room of one block.  V_mem_last takes the *)
(* requested break; what brk answered in rax is not looked at.             *)
Grow ==
  /\ pc = "scan"
  /\ cursor = memLast
  /\ \/ brk' = cursor + need
     \/ MayRefuse /\ UNCHANGED brk
  /\ memLast' = cursor + need
  /\ pc' = "header"
  /\ UNCHANGED <<memStart, avail, size, cursor, need, owned>>

(* Faulty variant: the availability word of a new block is not written.    *)
WriteHeaderHalf ==
  /\ pc = "header"
  /\ size' = With(size, cursor, need)
  /\ Answer
  /\ UNCHANGED <<memStart, memLast, brk, avail, cursor, need>>

(* Write the header of the new block and answer it.                        *)
WriteHeader ==
  /\ pc = "header"
  /\ avail' = With(avail, cursor, 0)
  /\ size' = With(size, cursor, need)
  /\ Answer
  /\ UNCHANGED <<memStart, memLast, brk, cursor, need>>

(* Had the break not moved, the header lies past it: the write either hits *)
(* the mapped rest of the last page (WriteHeader) or kills the program.    *)
Fault ==
  /\ pc = "header"
  /\ brk < memLast
  /\ pc' = "fault"
  /\ UNCHANGED <<heap, cursor, need, owned>>

(* Faulty variant: free writes elsewhere than the availability word.       *)
CallFreeLost ==
  /\ pc = "idle"
  /\ \E p \in DOMAIN owned : owned' = Without(owned, p)
  /\ UNCHANGED <<pc, heap, cursor, need>>

(* The program deletes a block it holds.                                   *)
CallFree ==
  /\ pc = "idle"
  /\ \E p \in DOMAIN owned :
       /\ avail' = [avail EXCEPT ![p - Header] = 1]
       /\ owned' = Without(owned, p)
  /\ UNCHANGED <<pc, memStart, memLast, brk, size, cursor, need>>

AllocStep == Take \/ Move \/ Grow \/ WriteHeader \/ Fault

Next == InitHeap \/ CallAlloc \/ AllocStep \/ CallFree

(* The machine executes the instructions of alloc once it is entered; the  *)
(* program need never call.                                                *)
Fairness == WF_vars(AllocStep)

Spec == Init /\ [][Next]_vars /\ Fairness

-----------------------------------------------------------------------------
(* Properties.                                                             *)

TypeOK ==
  /\ pc \in {"boot", "idle", "scan", "header", "fault"}
  /\ memStart \in Nat /\ memLast \in Nat /\ brk \in Nat
  /\ size \in [Heads -> Nat]
  /\ Heads \subseteq Nat
  /\ avail \in [Heads -> {0, 1}]
  /\ cursor \in Nat /\ need \in Nat
  /\ owned \in [DOMAIN owned -> Nat]
  /\ DOMAIN owned \subseteq Nat

(* Two blocks the program holds never share a byte, nor does a header lie  *)
(* in a held block, so that no write of the program to its own memory can  *)
(* damage another object or the chain.                                     *)
BlocksDisjoint ==
  /\ \A p, q \in DOMAIN owned : p < q => p + owned[p] <= q
  /\ \A p \in DOMAIN owned : \A h \in Heads :
       h + Header <= p \/ p + owned[p] <= h

(* Following the sizes from V_mem_start visits every block and arrives     *)
(* exactly at V_mem_last: no byte is lost and the scan cannot run past the *)
(* end.  (While a new block has no header yet, the chain ends at it.)      *)
End == IF pc \in {"header", "fault"} THEN cursor ELSE memLast

ChainTiles ==
  /\ memStart \in Heads \union {End}
  /\ \A h \in Heads :
       /\ h >= memStart
       /\ h + size[h] \in Heads \union {End}
       /\ \A g \in Heads : g < h => g + size[g] <= h

(* A block is marked unavailable exactly while the program holds it: what  *)
(* is freed can be found again and what is held cannot be handed out.      *)
HeldIffUnavailable ==
  {h \in Heads : avail[h] = 0} = {p - Header : p \in DOMAIN owned}

(* The break is moved only if no available block anywhere in the chain is  *)
(* large enough, although alloc looks at one block at a time.              *)
GrowsOnlyWhenNothingFits ==
  [][memLast' # memLast /\ pc = "scan" =>
       \A h \in Heads : avail[h] = 1 => size[h] < need]_vars

(* Every held byte lies below the program break, unless the kernel refused *)
(* the last move of it (alloc does not look): the program may write to     *)
(* what it holds.                                                          *)
HeldIsMapped ==
  memLast <= brk => \A p \in DOMAIN owned : p + owned[p] <= brk

(* Every call of alloc ends: the scan arrives at the end of the chain.     *)
AllocReturns == pc = "scan" ~> pc \in {"idle", "fault"}

(* The heap keeps the promise of the abstract allocator.                   *)
Abs == INSTANCE Allocator
KeepsPromise == Abs!Spec
=============================================================================
