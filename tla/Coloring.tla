------------------------------ MODULE Coloring ------------------------------
(***************************************************************************)
(* Graph colouring in the register allocator (ltac/register_allocator.cpp, *)
(* steps "simplify" and "select"): the nodes of an interference graph are  *)
(* put on a stack or marked to be spilled; if none is spilled, they are    *)
(* taken off the stack again and given hard registers.                     *)
(*                                                                         *)
(* Bound nodes, which stand for a hard register already, are put first on  *)
(* the code's stack and taken out of it before anything is selected; here  *)
(* order holds the other nodes only.                                       *)
(***************************************************************************)
EXTENDS Integers, Sequences, FiniteSets, SequencesExt

CONSTANTS
  Graphs,   \* [size, neighbors, binding, cost]: functions on 0 .. size - 1
  Colors,   \* the hard registers, in the order in which they are tried
  Hard,     \* hard registers, and
  None      \* no hard register: not bound, not allocated

K == Len(Colors)

ASSUME ColorsAssumption ==
  /\ Colors \in Seq(Hard) /\ None \notin Hard
  /\ \A i, j \in 1 .. K : Colors[i] = Colors[j] => i = j

(* Neighbours are never a node's own and are each other's: the code reads  *)
(* them off the lower triangle of a bit matrix.                            *)
IsGraph(g) ==
  /\ g.size \in Nat
  /\ g.neighbors \in [0 .. g.size - 1 -> SUBSET (0 .. g.size - 1)]
  /\ g.binding \in [0 .. g.size - 1 -> Hard \union {None}]
  /\ \A r, s \in 0 .. g.size - 1 :
       s \in g.neighbors[r] => r # s /\ r \in g.neighbors[s]

ASSUME GraphsAssumption == \A g \in Graphs : IsGraph(g)

VARIABLES
  graph,
  n,           \* nodes not yet simplified
  order,       \* the stack
  spilled,     \* nodes marked to be spilled
  allocation,
  pc           \* simplify, spill, select, done, failed

vars == <<graph, n, order, spilled, allocation, pc>>

Nodes == 0 .. graph.size - 1
Bound == {r \in Nodes : graph.binding[r] # None}

(* Faulty variant: bound nodes are simplified like any other.              *)
InitAll ==
  /\ graph \in Graphs
  /\ n = Nodes
  /\ order = <<>> /\ spilled = {}
  /\ allocation = [r \in Nodes |-> None]
  /\ pc = "simplify"

Init ==
  /\ graph \in Graphs
  /\ n = Nodes \ Bound
  /\ order = <<>> /\ spilled = {}
  /\ allocation = [r \in Nodes |-> None]
  /\ pc = "simplify"

(* Faulty variant: bound neighbours, being on the stack, do not count.     *)
DegreeUnbound(r) ==
  Cardinality(graph.neighbors[r] \ (Bound \union ToSet(order)))

(* The neighbours that are not on the stack (those marked to be spilled    *)
(* among them), and the hard registers of the bound ones.                  *)
Degree(r) ==
  Cardinality(graph.neighbors[r] \ (Bound \union ToSet(order)))
  + Cardinality({graph.binding[b] : b \in graph.neighbors[r] \intersect Bound})

Colorable == {r \in n : Degree(r) < K}

(* The first node of low degree goes on the stack.                         *)
Put ==
  /\ pc = "simplify" /\ Colorable # {}
  /\ \E r \in Colorable :
       /\ \A s \in Colorable : r <= s
       /\ order' = Append(order, r)
       /\ n' = n \ {r}
  /\ UNCHANGED <<graph, spilled, allocation, pc>>

(* cost / degree of r is lower than that of s, or r comes first.           *)
Before(r, s) ==
  LET x == graph.cost[r] * Degree(s)
      y == graph.cost[s] * Degree(r)
  IN  x < y \/ (x = y /\ r <= s)

(* There is none: the node that costs least is to be spilled.              *)
Mark ==
  /\ pc = "simplify" /\ n # {} /\ Colorable = {}
  /\ \E r \in n :
       /\ \A s \in n : Before(r, s)
       /\ spilled' = spilled \union {r}
       /\ n' = n \ {r}
  /\ UNCHANGED <<graph, order, allocation, pc>>

(* Faulty variant: bound nodes are not taken out of the stack.             *)
EndSimplifyUnbound ==
  /\ pc = "simplify" /\ n = {}
  /\ pc' = (IF spilled = {} THEN "select" ELSE "spill")
  /\ UNCHANGED <<graph, n, order, spilled, allocation>>

(* Spill code changes the function and the whole allocation starts again;  *)
(* otherwise the bound nodes get their registers.                          *)
EndSimplify ==
  /\ pc = "simplify" /\ n = {}
  /\ IF spilled = {}
     THEN pc' = "select" /\ allocation' = graph.binding
     ELSE pc' = "spill" /\ UNCHANGED allocation
  /\ UNCHANGED <<graph, n, order, spilled>>

(* Faulty variant: bound neighbours are not asked.                         *)
UsedUnbound(r) == {allocation[s] : s \in graph.neighbors[r] \ Bound}

Used(r) == {allocation[s] : s \in graph.neighbors[r]}

Free(r) == {i \in 1 .. K : Colors[i] \notin Used(r)}

(* The top of the stack gets the first register that no neighbour has; if  *)
(* there is none, an assertion fails.                                      *)
Select ==
  /\ pc = "select" /\ order # <<>>
  /\ LET r == Last(order) IN
       IF Free(r) = {}
       THEN pc' = "failed" /\ UNCHANGED <<order, allocation>>
       ELSE /\ \E i \in Free(r) :
                 /\ \A j \in Free(r) : i <= j
                 /\ allocation' = [allocation EXCEPT ![r] = Colors[i]]
            /\ order' = Front(order)
            /\ UNCHANGED pc
  /\ UNCHANGED <<graph, n, spilled>>

EndSelect ==
  /\ pc = "select" /\ order = <<>>
  /\ pc' = "done"
  /\ UNCHANGED <<graph, n, order, spilled, allocation>>

Next == Put \/ Mark \/ EndSimplify \/ Select \/ EndSelect

Spec == Init /\ [][Next]_vars

-----------------------------------------------------------------------------

(* The variables have the types the code gives them.                       *)
TypeOK ==
  /\ IsGraph(graph)
  /\ n \subseteq Nodes \ Bound /\ spilled \subseteq Nodes \ Bound
  /\ order \in Seq(Nodes \ Bound)
  /\ allocation \in [Nodes -> Hard \union {None}]
  /\ pc \in {"simplify", "spill", "select", "done", "failed"}

(* Every node is in one place: to simplify, on the stack, or to be spilled *)
(* (and later coloured), and once on the stack only.                       *)
OnePlace ==
  /\ \A i, j \in 1 .. Len(order) : order[i] = order[j] => i = j
  /\ n \intersect (ToSet(order) \union spilled) = {}
  /\ ToSet(order) \intersect spilled = {}
  /\ pc = "simplify" => n \union ToSet(order) \union spilled = Nodes \ Bound

(* "The register must have been allocated a color": a node that was put on *)
(* the stack finds a register when it is taken off again, whatever its     *)
(* neighbours got in between.                                              *)
AlwaysAColor == pc # "failed"

(* A node never shares the hard register it is given with a node that it   *)
(* interferes with, bound or not, given its own before or after. (Two      *)
(* bound nodes have what they are bound to.)                               *)
ProperColoring ==
  \A r \in Nodes \ Bound : \A s \in graph.neighbors[r] :
    allocation[r] # None => allocation[r] # allocation[s]

(* In the end every node has a register: one of Colors, or its own.        *)
AllColored ==
  pc = "done" =>
    \A r \in Nodes : IF r \in Bound THEN allocation[r] = graph.binding[r]
                                    ELSE allocation[r] \in ToSet(Colors)
=============================================================================
