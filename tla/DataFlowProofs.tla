--------------------------- MODULE DataFlowProofs ---------------------------
(***************************************************************************)
(* The solver computes the best solution of the data-flow equations, for   *)
(* every function and every problem whose meet is a semilattice and whose  *)
(* transfers are monotone (the ASSUMEs of DataFlow).                       *)
(***************************************************************************)
EXTENDS DataFlow, TLAPS

(* The block b has been visited, up to its first k dependencies, with the  *)
(* values the dependencies have now.                                       *)
UpTo(b, k) ==
  /\ \A j \in 1 .. k : j <= Len(fn.deps[b]) =>
       Below(before[b], after[fn.deps[b][j]])
  /\ k >= 1 /\ Len(fn.deps[b]) >= 1 => after[b] = Transfer(fn, b, before[b])

(* As long as the flag is clear nothing after a block has changed in this  *)
(* sweep, so that what the sweep has passed still holds.                   *)
Clean ==
  ~changes =>
    /\ \A b \in Blocks \ {fn.source} :
         (pc # "sweep" \/ b < B) => UpTo(b, Len(fn.deps[b]))
    /\ pc = "sweep" /\ B \in Blocks /\ B # fn.source => UpTo(B, i - 1)

IInv == TypeOK /\ Clean

LEMMA MeetIsBelow ==
  ASSUME NEW x \in Values, NEW y \in Values
  PROVE  Below(Meet(x, y), y) /\ Below(Meet(x, y), x)
  BY MeetAssumption DEF Below

LEMMA MeetStaysBelow ==
  ASSUME NEW x \in Values, NEW y \in Values, NEW z \in Values, Below(x, z)
  PROVE  Below(Meet(x, y), z)
<1>1. Meet(Meet(x, y), z) = Meet(x, Meet(z, y))
  BY MeetAssumption
<1>2. Meet(x, Meet(z, y)) = Meet(Meet(x, z), y)
  BY MeetAssumption
<1> QED
  BY <1>1, <1>2 DEF Below

LEMMA BelowIsTransitive ==
  ASSUME NEW x \in Values, NEW y \in Values, NEW z \in Values,
         Below(x, y), Below(y, z)
  PROVE  Below(x, z)
<1>1. Meet(x, z) = Meet(Meet(x, y), z)
  BY DEF Below
<1>2. Meet(Meet(x, y), z) = Meet(x, Meet(y, z))
  BY MeetAssumption
<1> QED
  BY <1>1, <1>2 DEF Below

LEMMA BelowMeet ==
  ASSUME NEW x \in Values, NEW y \in Values, NEW z \in Values,
         Below(z, x), Below(z, y)
  PROVE  Below(z, Meet(x, y))
<1>1. Meet(z, Meet(x, y)) = Meet(Meet(z, x), y)
  BY MeetAssumption
<1> QED
  BY <1>1 DEF Below

LEMMA DepsType ==
  ASSUME fn \in Functions, NEW b \in Blocks
  PROVE  /\ fn.n \in Nat /\ fn.source \in Blocks
         /\ Len(fn.deps[b]) \in Nat
         /\ \A j \in 1 .. Len(fn.deps[b]) : fn.deps[b][j] \in Blocks
<1>1. fn.deps[b] \in Seq(Blocks)
  BY FunctionsAssumption DEF Blocks
<1> QED
  BY <1>1, FunctionsAssumption DEF Blocks

LEMMA InitEstablishes == Init => IInv
<1> SUFFICES ASSUME Init PROVE IInv
  OBVIOUS
<1>1. TypeOK
  BY FunctionsAssumption DEF Init, TypeOK, Values, Blocks
<1> QED
  BY <1>1 DEF Init, IInv, Clean

LEMMA VisitPreserves == IInv /\ Visit => IInv'
<1> SUFFICES ASSUME IInv, Visit PROVE IInv'
  OBVIOUS
<1> DEFINE d == fn.deps[B][i]
           m == Meet(before[B], after[d])
           x == Transfer(fn, B, m)
<1>1. /\ fn' = fn /\ B' = B /\ pc' = pc /\ i' = i + 1
      /\ fn \in Functions /\ B \in Blocks /\ d \in Blocks
      /\ i \in 1 .. Len(fn.deps[B]) /\ Len(fn.deps[B]) \in Nat
  <2>1. fn \in Functions /\ B \in Blocks /\ i \in Nat \ {0}
        /\ i <= Len(fn.deps[B])
    BY DEF IInv, TypeOK, Visit
  <2>2. Len(fn.deps[B]) \in Nat /\ i \in 1 .. Len(fn.deps[B])
    BY <2>1, DepsType
  <2>3. d \in Blocks
    BY <2>1, <2>2, DepsType
  <2> QED
    BY <2>1, <2>2, <2>3 DEF Visit
<1>2. m \in Values /\ x \in Values
  BY <1>1, MeetAssumption, TransferAssumption DEF IInv, TypeOK, Blocks
<1>3. /\ before' = [before EXCEPT ![B] = m]
      /\ before'[B] = m
      /\ after' = [after EXCEPT ![B] = x]
      /\ changes' = (changes \/ after[B] # x)
  BY <1>1 DEF Visit, IInv, TypeOK
<1>4. TypeOK'
  <2>1. changes' \in BOOLEAN
    BY <1>3 DEF IInv, TypeOK
  <2> QED
    BY <1>1, <1>2, <1>3, <2>1 DEF IInv, TypeOK, Blocks
<1>5. ASSUME ~changes' PROVE Clean'
  <2>1. ~changes /\ after' = after /\ after[B] = x
    BY <1>1, <1>3, <1>5 DEF IInv, TypeOK
  <2>2. ASSUME NEW b \in Blocks \ {fn.source}, b < B
        PROVE  UpTo(b, Len(fn.deps[b]))'
    BY <1>1, <1>3, <2>1, <2>2, SMTT(30) DEF IInv, TypeOK, Clean, UpTo, Visit, Blocks
  <2>3. Below(m, after[d])
    BY <1>1, MeetIsBelow DEF IInv, TypeOK
  <2>4. ASSUME NEW j \in 1 .. i - 1
        PROVE  Below(m, after[fn.deps[B][j]])
    <3>1. j \in 1 .. Len(fn.deps[B]) /\ fn.deps[B][j] \in Blocks
      BY <1>1, DepsType
    <3>2. Below(before[B], after[fn.deps[B][j]])
      BY <1>1, <2>1 DEF IInv, TypeOK, Clean, UpTo, Visit
    <3> QED
      BY <1>1, <3>1, <3>2, MeetStaysBelow DEF IInv, TypeOK
  <2>5. UpTo(B, i - 1)'
    <3>1. i' - 1 = i
      BY <1>1
    <3>2. ASSUME NEW j \in 1 .. i
          PROVE  Below(m, after[fn.deps[B][j]])
      BY <1>1, <2>3, <2>4
    <3> QED
      BY <1>1, <1>3, <2>1, <3>1, <3>2 DEF UpTo
  <2>6. pc = "sweep" /\ pc' = "sweep" /\ B \in Int
    BY <1>1 DEF Visit, Blocks
  <2> QED
    BY <1>1, <2>2, <2>5, <2>6 DEF Clean, Blocks
<1> QED
  BY <1>4, <1>5 DEF IInv, Clean

LEMMA NextBlockPreserves == IInv /\ NextBlock => IInv'
<1> SUFFICES ASSUME IInv, NextBlock PROVE IInv'
  OBVIOUS
<1>1. /\ fn \in Functions /\ fn.n \in Nat /\ B \in Blocks
      /\ Len(fn.deps[B]) \in Nat /\ i \in Nat \ {0}
      /\ UNCHANGED <<fn, before, after, changes, pc>> /\ B' = B + 1 /\ i' = 1
  BY DepsType DEF IInv, TypeOK, NextBlock
<1>2. TypeOK'
  BY <1>1 DEF IInv, TypeOK, Blocks
<1>3. ASSUME ~changes, B # fn.source PROVE UpTo(B, Len(fn.deps[B]))
  BY <1>1, <1>3 DEF IInv, Clean, UpTo, NextBlock
<1>4. ASSUME NEW b \in Blocks PROVE UpTo(b, 0)
  BY DEF UpTo
<1>5. ASSUME ~changes' PROVE Clean'
  <2>1. ~changes /\ Blocks' = Blocks /\ pc = "sweep" /\ pc' = "sweep"
    BY <1>1, <1>5 DEF Blocks, NextBlock
  <2>2. ASSUME NEW b \in Blocks \ {fn.source}, b < B + 1
        PROVE  UpTo(b, Len(fn.deps[b]))
    <3>1. CASE b = B
      BY <2>1, <3>1, <1>3
    <3>2. CASE b # B
      BY <1>1, <2>1, <2>2, <3>2 DEF IInv, Clean, Blocks
    <3> QED
      BY <3>1, <3>2
  <2>3. ASSUME NEW b \in Blocks' \ {fn'.source}, b < B'
        PROVE  UpTo(b, Len(fn.deps[b]))'
    <3>1. UpTo(b, Len(fn.deps[b]))
      BY <1>1, <2>1, <2>2, <2>3
    <3> QED
      BY <1>1, <3>1 DEF UpTo
  <2>4. i' - 1 = 0
    BY <1>1
  <2> QED
    BY <1>1, <2>1, <2>3, <2>4 DEF Clean, UpTo
<1>6. changes' => Clean'
  BY DEF Clean
<1> QED
  BY <1>2, <1>5, <1>6 DEF IInv

LEMMA OthersPreserve == IInv /\ (Sweep \/ EndSweep \/ Solve) => IInv'
<1> SUFFICES ASSUME IInv, Sweep \/ EndSweep \/ Solve PROVE IInv'
  OBVIOUS
<1>1. fn \in Functions /\ fn.n \in Nat \ {0}
  BY FunctionsAssumption DEF IInv, TypeOK
<1>2. CASE Sweep
  <2>1. UNCHANGED <<fn, before, after>> /\ changes' = FALSE /\ B' = 1 /\ i' = 1
        /\ Blocks' = Blocks /\ pc' = "sweep"
    BY <1>2 DEF Sweep, Blocks
  <2>2. TypeOK'
    <3>1. B' \in 1 .. fn'.n + 1 /\ i' \in Nat \ {0}
      BY <1>1, <2>1
    <3>2. /\ fn' \in Functions /\ changes' \in BOOLEAN
          /\ before' \in [Blocks' -> Values] /\ after' \in [Blocks' -> Values]
      BY <2>1 DEF IInv, TypeOK
    <3> QED
      BY <2>1, <3>1, <3>2 DEF TypeOK
  <2>3. UpTo(B, i - 1)'
    BY <2>1 DEF UpTo
  <2>4. \A b \in Blocks' : ~(b < B')
    BY <1>1, <2>1 DEF Blocks
  <2> QED
    BY <2>1, <2>2, <2>3, <2>4 DEF IInv, Clean
<1>3. CASE EndSweep
  <2>1. UNCHANGED <<fn, before, after, changes, B, i>> /\ pc' = "loop"
        /\ B = fn.n + 1
    BY <1>1, <1>3 DEF EndSweep, IInv, TypeOK, Blocks
  <2>2. \A b \in Blocks : b < B
    BY <1>1, <2>1 DEF Blocks
  <2>3. TypeOK'
    BY <2>1 DEF IInv, TypeOK, Blocks
  <2>4. Clean'
    BY <1>3, <2>1, <2>2 DEF EndSweep, IInv, Clean, UpTo, Blocks
  <2> QED
    BY <2>3, <2>4 DEF IInv
<1>4. CASE Solve
  BY <1>1, <1>4 DEF Solve, IInv, TypeOK, Clean, UpTo, Blocks
<1> QED
  BY <1>2, <1>3, <1>4

LEMMA NextPreserves == IInv /\ [Next]_dfvars => IInv'
<1>1. IInv /\ UNCHANGED dfvars => IInv'
  BY DEF dfvars, IInv, TypeOK, Clean, UpTo, Blocks
<1> QED
  BY <1>1, VisitPreserves, NextBlockPreserves, OthersPreserve DEF Next

(* The solver keeps what its flag promises (GlobalOptimizations.hpp).      *)
THEOREM Invariance == Spec => []IInv
  BY InitEstablishes, NextPreserves, PTL DEF Spec

(* The solver stops with the flag clear.                                   *)
Settled == pc = "solved" => ~changes

LEMMA InitSettled == Init => Settled
  BY DEF Init, Settled

LEMMA NextSettled == Settled /\ [Next]_dfvars => Settled'
  BY DEF Settled, Next, dfvars, Sweep, Visit, NextBlock, EndSweep, Solve

LEMMA SettledFixpoint == IInv /\ Settled => Fixpoint
<1> SUFFICES ASSUME IInv, Settled, pc = "solved",
                    NEW b \in Blocks \ {fn.source}, Deps(b) # {}
             PROVE  /\ \A e \in Deps(b) : Below(before[b], after[e])
                    /\ after[b] = Transfer(fn, b, before[b])
  BY DEF Fixpoint
<1>1. UpTo(b, Len(fn.deps[b])) /\ Len(fn.deps[b]) \in Nat
  BY DepsType DEF IInv, TypeOK, Clean, Settled
<1>2. Len(fn.deps[b]) >= 1
  BY <1>1 DEF Deps
<1> QED
  BY <1>1, <1>2 DEF UpTo, Deps

(* When the flag is clear after a sweep, the result solves the equations   *)
(* although each block was compared before later blocks were visited.      *)
THEOREM SolvesEquations == Spec => []Fixpoint
  BY InitSettled, NextSettled, SettledFixpoint, Invariance, PTL DEF Spec

-----------------------------------------------------------------------------
(* The invariant behind the last theorem also bounds the values met.       *)
AboveBoth(x, y) ==
  \A b \in Blocks : Below(y[b], after[b]) /\ Below(x[b], before[b])

AllAbove ==
  \A x, y \in [Blocks -> Values] : Solution(x, y) => AboveBoth(x, y)

LEMMA InitAbove == Init => AllAbove
<1> SUFFICES ASSUME Init, NEW x \in [Blocks -> Values],
                    NEW y \in [Blocks -> Values], Solution(x, y),
                    NEW b \in Blocks
             PROVE  Below(y[b], after[b]) /\ Below(x[b], before[b])
  BY DEF AllAbove, AboveBoth
<1>1. Below(y[b], after[b])
  BY DEF Init, Solution
<1>2. before[b] = Top /\ x[b] \in Values
  BY DEF Init
<1> QED
  BY <1>1, <1>2, MeetAssumption DEF Below

LEMMA VisitAbove == IInv /\ AllAbove /\ Visit => AllAbove'
<1> SUFFICES ASSUME IInv, AllAbove, Visit PROVE AllAbove'
  OBVIOUS
<1> DEFINE d == fn.deps[B][i]
           m == Meet(before[B], after[d])
           t == Transfer(fn, B, m)
<1>1. /\ fn \in Functions /\ B \in Blocks \ {fn.source} /\ d \in Deps(B)
      /\ Deps(B) \subseteq Blocks /\ fn' = fn
  BY DepsType DEF IInv, TypeOK, Visit, Deps
<1>2. m \in Values
  BY <1>1, MeetAssumption DEF IInv, TypeOK
<1>3. /\ before' = [before EXCEPT ![B] = m]
      /\ after' = [after EXCEPT ![B] = t]
  BY DEF Visit, IInv, TypeOK
<1>s. Blocks' = Blocks /\ \A x, y : Solution(x, y)' <=> Solution(x, y)
  BY <1>1 DEF Solution, Blocks, Deps
<1> SUFFICES ASSUME NEW x \in [Blocks -> Values], NEW y \in [Blocks -> Values],
                    Solution(x, y)
             PROVE  AboveBoth(x, y)'
  BY <1>s DEF AllAbove
<1>4. AboveBoth(x, y)
  BY DEF AllAbove
<1>5. Below(x[B], m)
  <2>1. Below(x[B], y[d]) /\ Below(y[d], after[d]) /\ Below(x[B], before[B])
    BY <1>1, <1>4 DEF AboveBoth, Solution
  <2>2. Below(x[B], after[d])
    BY <1>1, <2>1, BelowIsTransitive DEF IInv, TypeOK
  <2> QED
    BY <1>1, <2>1, <2>2, BelowMeet DEF IInv, TypeOK
<1>6. Below(y[B], t)
  <2>1. y[B] = Transfer(fn, B, x[B])
    BY <1>1 DEF Solution
  <2> QED
    BY <1>1, <1>2, <1>5, <2>1, TransferAssumption DEF Blocks
<1> QED
  BY <1>1, <1>3, <1>4, <1>5, <1>6 DEF AboveBoth, Blocks, IInv, TypeOK

(* No solution of the equations is better than what the solver holds, at   *)
(* any moment; so what it stops with is the best solution.                 *)
THEOREM Best == Spec => []BestSolution
<1>1. IInv /\ AllAbove /\ [Next]_dfvars => AllAbove'
  <2>1. ASSUME UNCHANGED <<fn, before, after>>, AllAbove PROVE AllAbove'
    <3>1. Blocks' = Blocks /\ \A x, y : Solution(x, y)' <=> Solution(x, y)
      BY <2>1 DEF Solution, Blocks, Deps
    <3>2. \A x, y : AboveBoth(x, y)' <=> AboveBoth(x, y)
      BY <2>1 DEF AboveBoth, Blocks
    <3> QED
      BY <2>1, <3>1, <3>2 DEF AllAbove
  <2> QED
    BY <2>1, VisitAbove
    DEF Next, dfvars, Sweep, NextBlock, EndSweep, Solve
<1>2. AllAbove => BestSolution
  BY DEF AllAbove, AboveBoth, BestSolution
<1> QED
  BY <1>1, <1>2, InitAbove, Invariance, PTL DEF Spec
=============================================================================
