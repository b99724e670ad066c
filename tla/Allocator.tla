----------------------------- MODULE Allocator ------------------------------
(***************************************************************************)
(* What an EDDI program is promised by `new` and `delete`: a block of the  *)
(* requested length that overlaps no block it still holds.  Nothing is     *)
(* said of where blocks lie or when the address space grows.               *)
(***************************************************************************)
EXTENDS Integers

CONSTANT Sizes     \* lengths a program may ask for

VARIABLE owned     \* function: start of a live block -> requested length

(* The n bytes at q and the m bytes at p have no byte in common.           *)
Apart(p, m, q, n) == p + m <= q \/ q + n <= p

Init == owned = [p \in {} |-> 0]

Alloc ==
  \E p \in DOMAIN owned' :
    /\ p \notin DOMAIN owned
    /\ owned'[p] \in Sizes
    /\ \A q \in DOMAIN owned : Apart(p, owned'[p], q, owned[q])
    /\ owned' = [q \in DOMAIN owned \union {p} |->
                   IF q = p THEN owned'[p] ELSE owned[q]]

Free ==
  \E p \in DOMAIN owned :
    owned' = [q \in DOMAIN owned \ {p} |-> owned[q]]

Next == Alloc \/ Free

Spec == Init /\ [][Next]_owned
=============================================================================
