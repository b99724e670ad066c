--------------------------- MODULE ColoringProofs ---------------------------
(***************************************************************************)
(* For every interference graph and every list of registers: when nothing  *)
(* is spilled, every node finds a register that no neighbour has.          *)
(***************************************************************************)
EXTENDS Coloring, FiniteSetTheorems, TLAPS

-----------------------------------------------------------------------------
(* Counting.                                                               *)

LEMMA Image ==
  ASSUME NEW S, IsFiniteSet(S), NEW f
  PROVE  /\ IsFiniteSet({f[x] : x \in S})
         /\ Cardinality({f[x] : x \in S}) \in Nat
         /\ Cardinality(S) \in Nat
         /\ Cardinality({f[x] : x \in S}) <= Cardinality(S)
<1> DEFINE T == {f[x] : x \in S}
           g == [x \in S |-> f[x]]
<1>1. g \in Surjection(S, T)
  BY DEF Surjection
<1>2. IsFiniteSet(T) /\ Cardinality(T) <= Cardinality(S)
  BY <1>1, FS_Surjection
<1> QED BY <1>2, FS_CardinalityType

(* A union has at most as many members as its parts have.                  *)
LEMMA Union ==
  ASSUME NEW S, NEW T, IsFiniteSet(S), IsFiniteSet(T)
  PROVE  /\ IsFiniteSet(S \union T)
         /\ Cardinality(S \union T) \in Nat
         /\ Cardinality(S \union T) <= Cardinality(S) + Cardinality(T)
<1>1. /\ IsFiniteSet(S \union T)
      /\ Cardinality(S \union T) =
           Cardinality(S) + Cardinality(T) - Cardinality(S \intersect T)
  BY FS_Union
<1>2. IsFiniteSet(S \intersect T)
  BY FS_Subset
<1> QED BY <1>1, <1>2, FS_CardinalityType

(* There are K hard registers to choose from.                              *)
LEMMA ColorsCount == /\ K \in Nat
                     /\ IsFiniteSet(ToSet(Colors))
                     /\ Cardinality(ToSet(Colors)) = K
<1>1. Colors \in Seq(Hard) /\ K \in Nat /\ DOMAIN Colors = 1 .. K
  BY ColorsAssumption DEF K
<1>2. Colors \in Bijection(1 .. K, ToSet(Colors))
  <2>1. Colors \in [1 .. K -> ToSet(Colors)]
    BY <1>1 DEF ToSet
  <2>2. \A i, j \in 1 .. K : Colors[i] = Colors[j] => i = j
    BY ColorsAssumption
  <2>3. \A c \in ToSet(Colors) : \E i \in 1 .. K : Colors[i] = c
    BY <1>1 DEF ToSet
  <2> QED BY <2>1, <2>2, <2>3 DEF Bijection, Injection, Surjection, IsInjective
<1>3. IsFiniteSet(1 .. K) /\ Cardinality(1 .. K) = K
  BY <1>1, FS_Interval
<1> QED BY <1>1, <1>2, <1>3, FS_Bijection DEF ExistsBijection

-----------------------------------------------------------------------------
(* The inductive invariant.  A node on the stack had, when it was put      *)
(* there, fewer than K neighbours that can have a register by the time it  *)
(* is taken off: those below it on the stack have none yet.                *)
Below(k) == {order[j] : j \in 1 .. k - 1}

BoundColors(r) == {graph.binding[b] : b \in graph.neighbors[r] \intersect Bound}

Low ==
  \A k \in 1 .. Len(order) :
    Cardinality(graph.neighbors[order[k]] \ (Bound \union Below(k)))
    + Cardinality(BoundColors(order[k])) < K

(* Before the selection no node has a register; in it, those still on the  *)
(* stack have none.                                                        *)
Uncolored ==
  /\ pc \in {"simplify", "spill"} => \A r \in Nodes : allocation[r] = None
  /\ pc \in {"select", "done"} =>
       /\ \A b \in Bound : allocation[b] = graph.binding[b]
       /\ \A k \in 1 .. Len(order) : allocation[order[k]] = None
       /\ \A r \in Nodes \ Bound :
            r \in ToSet(order) \/ allocation[r] \in ToSet(Colors)
  /\ pc = "done" => order = <<>>

IInv ==
  TypeOK /\ OnePlace /\ Low /\ Uncolored /\ AlwaysAColor /\ ProperColoring

LEMMA InitIInv == Init => IInv
<1> SUFFICES ASSUME Init PROVE IInv
  OBVIOUS
<1>1. IsGraph(graph)
  BY GraphsAssumption DEF Init
<1>2. TypeOK
  BY <1>1 DEF Init, TypeOK, Nodes
<1>3. ToSet(order) = {} /\ Len(order) = 0
  BY DEF Init, ToSet
<1>4. OnePlace
  BY <1>3 DEF OnePlace, Init
<1>5. Low /\ Uncolored /\ AlwaysAColor
  BY <1>3 DEF Low, Uncolored, AlwaysAColor, Init
<1>6. ProperColoring
  BY <1>1 DEF ProperColoring, Init, Bound
<1> QED BY <1>2, <1>4, <1>5, <1>6 DEF IInv
LEMMA StepPut == ASSUME IInv, Put PROVE IInv'
<1>1. PICK r \in Colorable : order' = Append(order, r) /\ n' = n \ {r}
  BY DEF Put
<1>2. /\ r \in n /\ r \in Nodes /\ r \notin Bound
      /\ order \in Seq(Nodes \ Bound) /\ Len(order) \in Nat
  BY DEF Colorable, IInv, TypeOK
<1>3. UNCHANGED <<graph, spilled, allocation, pc>>
  BY DEF Put
<1>4. /\ Nodes' = Nodes /\ Bound' = Bound
      /\ \A x : BoundColors(x)' = BoundColors(x)
  BY <1>3 DEF Nodes, Bound, BoundColors
<1>5. /\ Len(order') = Len(order) + 1
      /\ \A k \in 1 .. Len(order) : order'[k] = order[k]
      /\ order'[Len(order) + 1] = r
      /\ order' \in Seq(Nodes \ Bound)
  BY <1>1, <1>2
<1>6. /\ ToSet(order) = {order[k] : k \in 1 .. Len(order)}
      /\ ToSet(order') = {order'[k] : k \in 1 .. Len(order')}
  BY <1>2, <1>5 DEF ToSet
<1>7. ToSet(order') = ToSet(order) \union {r} /\ r \notin ToSet(order)
  BY <1>1, <1>2, <1>5, <1>6 DEF IInv, OnePlace
<1>8. TypeOK'
  BY <1>1, <1>3, <1>4, <1>5 DEF IInv, TypeOK
<1>9. OnePlace'
  <2>1. \A i, j \in 1 .. Len(order') : order'[i] = order'[j] => i = j
    BY <1>2, <1>5, <1>6, <1>7 DEF IInv, OnePlace
  <2> QED BY <2>1, <1>1, <1>2, <1>3, <1>4, <1>7 DEF IInv, OnePlace, TypeOK
<1>10. Low'
  <2> SUFFICES ASSUME NEW k \in 1 .. Len(order')
               PROVE  Cardinality(graph.neighbors[order'[k]] \ (Bound \union Below(k)'))
                      + Cardinality(BoundColors(order'[k])) < K
    BY <1>3, <1>4 DEF Low, BoundColors
  <2>1. CASE k \in 1 .. Len(order)
    <3>1. Below(k)' = Below(k) /\ order'[k] = order[k]
      BY <1>2, <1>5, <2>1 DEF Below
    <3> QED BY <3>1, <2>1 DEF IInv, Low
  <2>2. CASE k = Len(order) + 1
    <3>1. Below(k)' = ToSet(order) /\ order'[k] = r
      BY <1>2, <1>5, <1>6, <2>2 DEF Below
    <3>2. Degree(r) < K
      BY DEF Colorable
    <3>3. Bound \union Below(k)' = Bound \union ToSet(order)
      BY <3>1
    <3> QED BY <3>1, <3>2, <3>3 DEF Degree, BoundColors
  <2> QED BY <2>1, <2>2, <1>2, <1>5
<1>11. pc = "simplify" /\ pc' = "simplify"
  BY DEF Put
<1>12. Uncolored' /\ AlwaysAColor' /\ ProperColoring'
  BY <1>3, <1>4, <1>11 DEF IInv, Uncolored, AlwaysAColor, ProperColoring
<1> QED BY <1>8, <1>9, <1>10, <1>12 DEF IInv

LEMMA StepMark == ASSUME IInv, Mark PROVE IInv'
<1>1. PICK r \in n : spilled' = spilled \union {r} /\ n' = n \ {r}
  BY DEF Mark
<1>2. /\ UNCHANGED <<graph, order, allocation, pc>> /\ pc = "simplify"
      /\ Nodes' = Nodes /\ Bound' = Bound
  BY DEF Mark, Nodes, Bound
<1>3. TypeOK' /\ OnePlace'
  BY <1>1, <1>2 DEF IInv, TypeOK, OnePlace
<1>4. Low' /\ Uncolored' /\ AlwaysAColor' /\ ProperColoring'
  BY <1>2 DEF IInv, Low, Below, BoundColors, Uncolored, AlwaysAColor, ProperColoring
<1> QED BY <1>3, <1>4 DEF IInv

LEMMA StepEndSimplify == ASSUME IInv, EndSimplify PROVE IInv'
<1>1. /\ UNCHANGED <<graph, n, order, spilled>> /\ pc = "simplify" /\ n = {}
      /\ Nodes' = Nodes /\ Bound' = Bound
  BY DEF EndSimplify, Nodes, Bound
<1>2. Low' /\ AlwaysAColor'
  BY <1>1 DEF EndSimplify, IInv, Low, Below, BoundColors, AlwaysAColor
<1>3. OnePlace'
  BY <1>1 DEF EndSimplify, IInv, OnePlace
<1>4. CASE spilled # {}
  <2>1. pc' = "spill" /\ UNCHANGED allocation
    BY <1>4 DEF EndSimplify
  <2>2. TypeOK' /\ Uncolored' /\ ProperColoring'
    BY <2>1, <1>1 DEF IInv, TypeOK, Uncolored, ProperColoring
  <2> QED BY <2>2, <1>2, <1>3 DEF IInv
<1>5. CASE spilled = {}
  <2>1. pc' = "select" /\ allocation' = graph.binding
    BY <1>5 DEF EndSimplify
  <2>2. TypeOK'
    BY <2>1, <1>1 DEF IInv, TypeOK, IsGraph, Nodes
  <2>3. order \in Seq(Nodes \ Bound)
    BY DEF IInv, TypeOK
  <2>4. \A r \in Nodes \ Bound : graph.binding[r] = None
    BY DEF Bound
  <2>5. ToSet(order) = Nodes \ Bound
    BY <1>1, <1>5 DEF IInv, OnePlace
  <2>6. \A k \in 1 .. Len(order) : order[k] \in Nodes \ Bound
    BY <2>3
  <2>7. Uncolored'
    BY <2>1, <2>4, <2>5, <2>6, <1>1 DEF Uncolored
  <2>8. ProperColoring'
    BY <2>1, <2>4, <1>1 DEF ProperColoring
  <2> QED BY <2>2, <2>7, <2>8, <1>2, <1>3 DEF IInv
<1> QED BY <1>4, <1>5

(* The argument of Chaitin: the registers that the neighbours of the top   *)
(* of the stack have are fewer than K.                                     *)
LEMMA FreeColor ==
  ASSUME IInv, pc = "select", order # <<>>
  PROVE  Free(Last(order)) # {}
<1> DEFINE k == Len(order)
           r == order[k]
           B == BoundColors(r)
           U == graph.neighbors[r] \ (Bound \union Below(k))
           A == {allocation[s] : s \in U}
<1>1. /\ order \in Seq(Nodes \ Bound) /\ k \in Nat /\ k \in 1 .. k
      /\ r \in Nodes /\ r \notin Bound /\ Last(order) = r
  BY DEF IInv, TypeOK, Last
<1>2. graph.neighbors[r] \subseteq Nodes /\ graph.size \in Nat
  BY <1>1 DEF IInv, TypeOK, IsGraph, Nodes
<1>3. IsFiniteSet(graph.neighbors[r])
  <2>1. 0 \in Int /\ graph.size - 1 \in Int
    BY <1>2
  <2>2. IsFiniteSet(Nodes)
    BY <2>1, FS_Interval DEF Nodes
  <2> QED BY <1>2, <2>2, FS_Subset
<1>4. /\ IsFiniteSet(U) /\ IsFiniteSet(graph.neighbors[r] \intersect Bound)
  BY <1>3, FS_Subset
<1>5. /\ IsFiniteSet(A) /\ Cardinality(A) \in Nat /\ Cardinality(U) \in Nat
      /\ Cardinality(A) <= Cardinality(U)
  BY <1>4, Image
<1>6. IsFiniteSet(B) /\ Cardinality(B) \in Nat
  BY <1>4, Image DEF BoundColors
<1>7. Cardinality(U) + Cardinality(B) < K
  BY <1>1 DEF IInv, Low
<1>8. /\ IsFiniteSet(A \union B)
      /\ Cardinality(A \union B) \in Nat
      /\ Cardinality(A \union B) <= Cardinality(A) + Cardinality(B)
  BY <1>5, <1>6, Union
<1>9. Used(r) \subseteq A \union B \union {None}
  <2> SUFFICES ASSUME NEW s \in graph.neighbors[r]
               PROVE  allocation[s] \in A \union B \union {None}
    BY DEF Used
  <2>1. CASE s \in Bound
    BY <2>1 DEF IInv, Uncolored, BoundColors
  <2>2. CASE s \in Below(k)
    BY <2>2, <1>1 DEF IInv, Uncolored, Below
  <2>3. CASE s \in U
    BY <2>3
  <2> QED BY <2>1, <2>2, <2>3
<1>10. ~(ToSet(Colors) \subseteq A \union B)
  BY <1>5, <1>6, <1>7, <1>8, ColorsCount, FS_Subset
<1>11. PICK c \in ToSet(Colors) : c \notin A \union B
  BY <1>10
<1>12. PICK i \in 1 .. K : Colors[i] = c
  BY <1>11, ColorsAssumption DEF ToSet, K
<1>13. c # None
  BY <1>12, ColorsAssumption DEF K
<1>14. i \in Free(r)
  BY <1>9, <1>11, <1>12, <1>13 DEF Free
<1> QED BY <1>1, <1>14

LEMMA StepSelect == ASSUME IInv, Select PROVE IInv'
<1> DEFINE k == Len(order)
           r == order[k]
<1>1. /\ order \in Seq(Nodes \ Bound) /\ k \in Nat /\ k \in 1 .. k
      /\ r \in Nodes /\ r \notin Bound /\ Last(order) = r
      /\ pc = "select" /\ order # <<>>
  BY DEF IInv, TypeOK, Last, Select
<1>2. Free(r) # {}
  BY <1>1, FreeColor
<1>3. PICK i \in Free(r) : allocation' = [allocation EXCEPT ![r] = Colors[i]]
  BY <1>1, <1>2 DEF Select
<1>4. /\ UNCHANGED <<graph, n, spilled, pc>> /\ order' = Front(order)
      /\ Nodes' = Nodes /\ Bound' = Bound
  BY <1>1, <1>2 DEF Select, Nodes, Bound
<1>5. /\ order' \in Seq(Nodes \ Bound) /\ Len(order') = k - 1
      /\ \A j \in 1 .. k - 1 : order'[j] = order[j]
  <2>1. order' = [j \in 1 .. k - 1 |-> order[j]]
    BY <1>1, <1>4 DEF Front
  <2> QED BY <2>1, <1>1
<1>6. /\ ToSet(order) = {order[j] : j \in 1 .. k}
      /\ ToSet(order') = {order'[j] : j \in 1 .. k - 1}
  BY <1>1, <1>5 DEF ToSet
<1>7. ToSet(order) = ToSet(order') \union {r}
  BY <1>1, <1>5, <1>6
<1>8. \A j \in 1 .. k - 1 : order[j] # r
  BY <1>1 DEF IInv, OnePlace
<1>9. /\ Colors[i] \in ToSet(Colors) /\ Colors[i] \in Hard
      /\ Colors[i] \notin Used(r) /\ Colors[i] # None
  BY ColorsAssumption DEF Free, ToSet, K
<1>10. allocation \in [Nodes -> Hard \union {None}]
  BY DEF IInv, TypeOK
<1>11. TypeOK'
  BY <1>1, <1>3, <1>4, <1>5, <1>9, <1>10 DEF IInv, TypeOK
<1>12. OnePlace'
  <2>1. \A i1, i2 \in 1 .. Len(order') : order'[i1] = order'[i2] => i1 = i2
    BY <1>1, <1>5 DEF IInv, OnePlace
  <2> QED BY <2>1, <1>1, <1>4, <1>7 DEF IInv, OnePlace
<1>13. Low'
  <2> SUFFICES ASSUME NEW j \in 1 .. k - 1
               PROVE  Cardinality(graph.neighbors[order[j]] \ (Bound \union Below(j)'))
                      + Cardinality(BoundColors(order[j])) < K
    BY <1>4, <1>5 DEF Low, BoundColors
  <2>1. Below(j)' = Below(j) /\ j \in 1 .. k
    BY <1>1, <1>5 DEF Below
  <2> QED BY <2>1 DEF IInv, Low
<1>14. Uncolored'
  <2>1. \A b \in Bound : allocation'[b] = graph.binding[b]
    BY <1>1, <1>3 DEF IInv, Uncolored
  <2>2. \A j \in 1 .. Len(order') : allocation'[order'[j]] = None
    BY <1>1, <1>3, <1>5, <1>8, <1>10 DEF IInv, Uncolored
  <2>3. \A s \in Nodes \ Bound :
          s \in ToSet(order') \/ allocation'[s] \in ToSet(Colors)
    BY <1>1, <1>3, <1>7, <1>9, <1>10 DEF IInv, Uncolored
  <2> QED BY <2>1, <2>2, <2>3, <1>1, <1>4 DEF Uncolored
<1>15. ProperColoring'
  <2> SUFFICES ASSUME NEW x \in Nodes \ Bound, NEW s \in graph.neighbors[x],
                      allocation'[x] # None
               PROVE  allocation'[x] # allocation'[s]
    BY <1>4 DEF ProperColoring
  <2>1. s \in Nodes /\ s # x /\ x \in graph.neighbors[s]
    BY DEF IInv, TypeOK, IsGraph, Nodes
  <2>2. CASE x = r
    BY <2>1, <2>2, <1>1, <1>3, <1>9, <1>10 DEF Used
  <2>3. CASE s = r
    BY <2>1, <2>3, <1>1, <1>3, <1>9, <1>10 DEF Used
  <2>4. CASE x # r /\ s # r
    BY <2>1, <2>4, <1>1, <1>3, <1>10 DEF IInv, ProperColoring
  <2> QED BY <2>2, <2>3, <2>4
<1>16. AlwaysAColor'
  BY <1>1, <1>4 DEF AlwaysAColor
<1> QED BY <1>11, <1>12, <1>13, <1>14, <1>15, <1>16 DEF IInv

LEMMA StepEndSelect == ASSUME IInv, EndSelect PROVE IInv'
<1>1. /\ UNCHANGED <<graph, n, order, spilled, allocation>>
      /\ pc = "select" /\ pc' = "done" /\ order = <<>>
      /\ Nodes' = Nodes /\ Bound' = Bound
  BY DEF EndSelect, Nodes, Bound
<1> QED BY <1>1 DEF IInv, TypeOK, OnePlace, Low, Below, BoundColors, Uncolored,
  AlwaysAColor, ProperColoring

(* The inductive invariant holds in every reachable state.                 *)
THEOREM Invariance == Spec => []IInv
<1>1. Init => IInv
  BY InitIInv
<1>2. IInv /\ [Next]_vars => IInv'
  <2> SUFFICES ASSUME IInv, [Next]_vars PROVE IInv'
    OBVIOUS
  <2>1. CASE UNCHANGED vars
    <3>1. /\ UNCHANGED <<graph, n, order, spilled, allocation, pc>>
          /\ Nodes' = Nodes /\ Bound' = Bound
      BY <2>1 DEF vars, Nodes, Bound
    <3>2. TypeOK' /\ OnePlace' /\ Uncolored' /\ AlwaysAColor' /\ ProperColoring'
      BY <3>1 DEF IInv, TypeOK, OnePlace, Uncolored, AlwaysAColor, ProperColoring
    <3>3. Low'
      BY <3>1 DEF IInv, Low, Below, BoundColors
    <3> QED BY <3>2, <3>3 DEF IInv
  <2> QED BY <2>1, StepPut, StepMark, StepEndSimplify, StepSelect,
    StepEndSelect DEF Next
<1> QED BY <1>1, <1>2, PTL DEF Spec

(* The variables keep their types, and every node its place.               *)
THEOREM TypeCorrect == Spec => [](TypeOK /\ OnePlace)
<1>1. IInv => TypeOK /\ OnePlace
  BY DEF IInv
<1> QED BY <1>1, Invariance, PTL

(* The assertion at the end of select never fails: every node that was put *)
(* on the stack finds a register, for every graph.                         *)
THEOREM Colorability == Spec => []AlwaysAColor
<1>1. IInv => AlwaysAColor
  BY DEF IInv
<1> QED BY <1>1, Invariance, PTL

(* Nodes that interfere never share a register.                            *)
THEOREM Proper == Spec => []ProperColoring
<1>1. IInv => ProperColoring
  BY DEF IInv
<1> QED BY <1>1, Invariance, PTL

(* An allocation that ends gives every node a register.                    *)
THEOREM Complete == Spec => []AllColored
<1>1. IInv => AllColored
  <2> SUFFICES ASSUME IInv, pc = "done", NEW r \in Nodes
               PROVE  IF r \in Bound THEN allocation[r] = graph.binding[r]
                                     ELSE allocation[r] \in ToSet(Colors)
    BY DEF AllColored
  <2>1. ToSet(order) = {}
    BY DEF IInv, Uncolored, ToSet
  <2> QED BY <2>1 DEF IInv, Uncolored
<1> QED BY <1>1, Invariance, PTL
=============================================================================
