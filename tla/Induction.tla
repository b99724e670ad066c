----------------------------- MODULE Induction ------------------------------
(***************************************************************************)
(* Induction over the natural numbers, with a set in the place of the      *)
(* predicate: {n \in Nat : P(n)} turns one into the other.  It rests on    *)
(* the library's theorem that a well-founded relation has minimal          *)
(* elements.  The theorems of this form can be cited where the library's   *)
(* own, whose parameter is an operator, cannot.                            *)
(***************************************************************************)
EXTENDS Integers, WellFoundedInduction, TLAPS

Before == OpToRel(<, Nat)

LEMMA LessIsBefore ==
  \A m \in Nat : \A n \in Nat : m < n => <<m, n>> \in Before
<1> SUFFICES ASSUME NEW m \in Nat, NEW n \in Nat, m < n
             PROVE  <<m, n>> \in {ss \in Nat \X Nat : ss[1] < ss[2]}
  BY Zenon DEF Before, OpToRel
<1> QED
  OBVIOUS

(* A set of natural numbers has a least element.                           *)
THEOREM LeastElement ==
  ASSUME NEW T, T \subseteq Nat, T # {}
  PROVE  \E n \in T : \A m \in T : n <= m
<1>1. PICK n \in T : \A m \in T : ~(<<m, n>> \in Before)
  BY NatLessThanWellFounded, WFMin, Zenon DEF Before
<1>2. ASSUME NEW m \in T PROVE n <= m
  <2> SUFFICES ASSUME m < n PROVE FALSE
    OBVIOUS
  <2>1. <<m, n>> \in Before
    BY LessIsBefore
  <2> QED
    BY <1>1, <2>1
<1> QED
  BY <1>2

(* A set of numbers with 0 and the successor of each of its numbers has    *)
(* all.                                                                    *)
THEOREM UpwardInduction ==
  ASSUME NEW T, 0 \in T, \A n \in Nat : n \in T => n + 1 \in T
  PROVE  Nat \subseteq T
<1> SUFFICES ASSUME NEW x \in Nat, x \notin T PROVE FALSE
  OBVIOUS
<1>1. PICK n \in Nat \ T : \A m \in Nat \ T : n <= m
  BY LeastElement, Nat \ T \subseteq Nat, Nat \ T # {}
<1>2. n # 0 /\ n - 1 \in Nat /\ n - 1 \in T
  BY <1>1
<1>3. (n - 1) + 1 \in T
  BY <1>2
<1> QED
  BY <1>1, <1>3

(* From n down to 0.                                                       *)
THEOREM DownwardInduction ==
  ASSUME NEW n \in Nat, NEW T, n \in T,
         \A k \in 1 .. n : k \in T => k - 1 \in T
  PROVE  0 .. n \subseteq T
<1> DEFINE U == {m \in Nat : m <= n => n - m \in T}
<1>1. 0 \in U
  OBVIOUS
<1>2. ASSUME NEW m \in Nat, m \in U PROVE m + 1 \in U
  <2> SUFFICES ASSUME m + 1 <= n PROVE n - (m + 1) \in T
    OBVIOUS
  <2>1. n - m \in T /\ n - m \in 1 .. n
    BY <1>2
  <2>2. (n - m) - 1 \in T
    BY <2>1
  <2> QED
    BY <2>2
<1> HIDE DEF U
<1>3. Nat \subseteq U
  BY <1>1, <1>2, UpwardInduction
<1>4. ASSUME NEW k \in 0 .. n PROVE k \in T
  <2>1. n - k \in Nat /\ n - k \in U
    BY <1>3
  <2>2. n - (n - k) \in T
    BY <2>1 DEF U
  <2> QED
    BY <2>2
<1> QED
  BY <1>4

(* A function on 0 .. n may be defined by its first value and by what      *)
(* follows each value: there is one that satisfies the equation.           *)
Follows(f, n, S, first, step) ==
  /\ f \in [0 .. n -> S] /\ f[0] = first
  /\ \A k \in 1 .. n : f[k] = step[<<k, f[k - 1]>>]

THEOREM Recursion ==
  ASSUME NEW n \in Nat, NEW S, NEW first \in S,
         NEW step \in [(1 .. n) \X S -> S]
  PROVE  \E f : Follows(f, n, S, first, step)
<1> DEFINE Solves(f, m) == /\ f \in [0 .. m -> S] /\ f[0] = first
                           /\ \A k \in 1 .. m : f[k] = step[<<k, f[k - 1]>>]
           T == {m \in Nat : m <= n => \E f : Solves(f, m)}
<1>1. 0 \in T
  <2> DEFINE f == [k \in 0 .. 0 |-> first]
  <2>1. Solves(f, 0)
    OBVIOUS
  <2> HIDE DEF Solves, f
  <2> QED
    BY <2>1
<1>2. ASSUME NEW m \in Nat, m \in T PROVE m + 1 \in T
  <2> SUFFICES ASSUME m + 1 <= n PROVE \E f : Solves(f, m + 1)
    OBVIOUS
  <2>1. PICK f : Solves(f, m)
    BY <1>2
  <2> DEFINE next == step[<<m + 1, f[m]>>]
             g == [k \in 0 .. m + 1 |-> IF k = m + 1 THEN next ELSE f[k]]
  <2>2. next \in S
    <3>1. f[m] \in S /\ m + 1 \in 1 .. n
      BY <2>1
    <3> QED
      BY <3>1
  <2>3. \A k \in 0 .. m : g[k] = f[k]
    OBVIOUS
  <2>4. g[m + 1] = next
    OBVIOUS
  <2>5. g \in [0 .. m + 1 -> S]
    <3>1. \A k \in 0 .. m : f[k] \in S
      BY <2>1
    <3>2. \A k \in 0 .. m + 1 : k = m + 1 \/ k \in 0 .. m
      OBVIOUS
    <3> HIDE DEF next
    <3> QED
      BY <2>2, <3>1, <3>2
  <2> HIDE DEF g
  <2>6. ASSUME NEW k \in 1 .. m + 1 PROVE g[k] = step[<<k, g[k - 1]>>]
    <3>1. k - 1 \in 0 .. m /\ (k = m + 1 => k - 1 = m)
      OBVIOUS
    <3>2. CASE k = m + 1
      BY <2>3, <2>4, <3>1, <3>2
    <3>3. CASE k \in 1 .. m
      <4>1. f[k] = step[<<k, f[k - 1]>>]
        BY <2>1, <3>3
      <4> QED
        BY <2>3, <3>1, <3>3, <4>1
    <3> QED
      BY <3>2, <3>3
  <2>7. g[0] = first
    BY <2>1, <2>3
  <2>8. Solves(g, m + 1)
    BY <2>5, <2>6, <2>7
  <2> HIDE DEF Solves
  <2> QED
    BY <2>8
<1> HIDE DEF T
<1>3. n \in T
  BY <1>1, <1>2, UpwardInduction
<1>4. PICK f : Solves(f, n)
  BY <1>3 DEF T
<1>5. Follows(f, n, S, first, step)
  BY <1>4 DEF Follows
<1> HIDE DEF Solves
<1> QED
  BY <1>5
=============================================================================
