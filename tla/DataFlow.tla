------------------------------ MODULE DataFlow ------------------------------
(***************************************************************************)
(* The data-flow solver (include/mtac/GlobalOptimizations.hpp), in its     *)
(* "fast" forms: forward or backward, over statements or whole blocks.     *)
(* They differ in the direction only, so one machine models them.  deps[b] *)
(* are the predecessors of b for a forward problem and its successors for  *)
(* a backward one; source is ENTRY or EXIT; before and after are IN and    *)
(* OUT, or OUT and IN.                                                     *)
(*                                                                         *)
(* Blocks are visited in the order of the function, in both directions.    *)
(* before[b] is never reset: every sweep meets the new values into it.     *)
(***************************************************************************)
EXTENDS Integers, Sequences

CONSTANTS
  Functions,          \* analysed functions: [n, source, deps, ...]
  Domain,             \* the values of the problem, and
  Top,                \* the value of a default-constructed domain
  Meet(_, _),         \* problem.meet(x, y): the new x
  Transfer(_, _, _),  \* problem.transfer over block b of f, applied to x
  Boundary(_),        \* problem.Boundary(f)
  InitValue(_)        \* problem.Init(f)

Values == Domain \union {Top}

ASSUME FunctionsAssumption ==
  \A f \in Functions :
    /\ f.n \in Nat \ {0} /\ f.source \in 1 .. f.n
    /\ f.deps \in [1 .. f.n -> Seq(1 .. f.n)]
    /\ Boundary(f) \in Values /\ InitValue(f) \in Values

ASSUME MeetAssumption ==
  \A x, y, z \in Values :
    /\ Meet(x, y) \in Values
    /\ Meet(x, x) = x /\ Meet(x, Top) = x
    /\ Meet(x, y) = Meet(y, x)
    /\ Meet(Meet(x, y), z) = Meet(x, Meet(y, z))

Below(x, y) == Meet(x, y) = x

ASSUME TransferAssumption ==
  \A f \in Functions : \A b \in 1 .. f.n : \A x, y \in Values :
    /\ Transfer(f, b, x) \in Values
    /\ Below(x, y) => Below(Transfer(f, b, x), Transfer(f, b, y))

VARIABLES
  fn,       \* the function under analysis
  before,   \* IN (forward) or OUT (backward)
  after,    \* OUT (forward) or IN (backward)
  changes,  \* the flag of the outer loop
  B,        \* the block of the inner loop
  i,        \* the dependency of B to meet next
  pc        \* loop (the while condition), sweep, solved

dfvars == <<fn, before, after, changes, B, i, pc>>

Blocks == 1 .. fn.n
Deps(b) == {fn.deps[b][j] : j \in 1 .. Len(fn.deps[b])}

(* Faulty variant: every block starts from the boundary's value.           *)
InitLow ==
  /\ fn \in Functions
  /\ before = [b \in Blocks |-> Top]
  /\ after = [b \in Blocks |-> Boundary(fn)]
  /\ changes = TRUE
  /\ B = 1 /\ i = 1
  /\ pc = "loop"

Init ==
  /\ fn \in Functions
  /\ before = [b \in Blocks |-> Top]
  /\ after = [b \in Blocks |-> IF b = fn.source THEN Boundary(fn)
                                                ELSE InitValue(fn)]
  /\ changes = TRUE
  /\ B = 1 /\ i = 1
  /\ pc = "loop"

Sweep ==
  /\ pc = "loop" /\ changes
  /\ changes' = FALSE
  /\ B' = 1 /\ i' = 1
  /\ pc' = "sweep"
  /\ UNCHANGED <<fn, before, after>>

(* Faulty variants: only the last block decides the flag; the flag always  *)
(* asks for another sweep; dependencies are counted from 0.                *)
VisitFlagging(Flag(_)) ==
  /\ pc = "sweep" /\ B \in Blocks /\ B # fn.source
  /\ i <= Len(fn.deps[B])
  /\ before' = [before EXCEPT ![B] = Meet(before[B], after[fn.deps[B][i]])]
  /\ LET x == Transfer(fn, B, before'[B]) IN
       /\ changes' = Flag(x)
       /\ after' = [after EXCEPT ![B] = x]
  /\ i' = i + 1
  /\ UNCHANGED <<fn, B, pc>>

VisitLastDecides == LET F(x) == after[B] # x IN VisitFlagging(F)
VisitAlwaysAgain == LET F(x) == TRUE IN VisitFlagging(F)

(* Meet the next dependency into B and carry the result across B.          *)
Visit ==
  /\ pc = "sweep" /\ B \in Blocks /\ B # fn.source
  /\ i <= Len(fn.deps[B])
  /\ before' = [before EXCEPT ![B] = Meet(before[B], after[fn.deps[B][i]])]
  /\ LET x == Transfer(fn, B, before'[B]) IN
       /\ changes' = (changes \/ after[B] # x)
       /\ after' = [after EXCEPT ![B] = x]
  /\ i' = i + 1
  /\ UNCHANGED <<fn, B, pc>>

NextBlock ==
  /\ pc = "sweep" /\ B \in Blocks
  /\ B = fn.source \/ i > Len(fn.deps[B])
  /\ B' = B + 1 /\ i' = 1
  /\ UNCHANGED <<fn, before, after, changes, pc>>

EndSweep ==
  /\ pc = "sweep" /\ B \notin Blocks
  /\ pc' = "loop"
  /\ UNCHANGED <<fn, before, after, changes, B, i>>

Solve ==
  /\ pc = "loop" /\ ~changes
  /\ pc' = "solved"
  /\ UNCHANGED <<fn, before, after, changes, B, i>>

Next == Sweep \/ Visit \/ NextBlock \/ EndSweep \/ Solve

Spec == Init /\ [][Next]_dfvars /\ WF_dfvars(Next)

-----------------------------------------------------------------------------

TypeOK ==
  /\ fn \in Functions
  /\ before \in [Blocks -> Values]
  /\ after \in [Blocks -> Values]
  /\ changes \in BOOLEAN
  /\ B \in 1 .. fn.n + 1
  /\ i \in Nat \ {0}
  /\ pc \in {"loop", "sweep", "solved"}

(* When the solver stops, its result solves the data-flow equations: the   *)
(* value before a block is below that of every dependency, and the value   *)
(* after it is what the transfer makes of it.  The loop looks only at the  *)
(* values after blocks, and at those visited before they changed again.    *)
Fixpoint ==
  pc = "solved" =>
    \A b \in Blocks \ {fn.source} :
      Deps(b) # {} =>
        /\ \A d \in Deps(b) : Below(before[b], after[d])
        /\ after[b] = Transfer(fn, b, before[b])

(* (x, y) solves the equations of the function.                            *)
Solution(x, y) ==
  /\ \A b \in Blocks : Below(y[b], IF b = fn.source THEN Boundary(fn)
                                                    ELSE InitValue(fn))
  /\ \A b \in Blocks \ {fn.source} :
       Deps(b) # {} => /\ \A d \in Deps(b) : Below(x[b], y[d])
                       /\ y[b] = Transfer(fn, b, x[b])

(* The solver gives nothing away: whatever else solves the equations lies  *)
(* below its result, so that no constant, copy or dead store is missed.    *)
BestSolution ==
  pc = "solved" =>
  \A x, y \in [Blocks -> Values] :
    Solution(x, y) =>
      \A b \in Blocks : Below(y[b], after[b])

(* The solver stops (the flag is set only when a value came down).         *)
Stops == <>(pc = "solved")
=============================================================================
