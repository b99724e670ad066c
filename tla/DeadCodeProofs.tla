--------------------------- MODULE DeadCodeProofs ---------------------------
(***************************************************************************)
(* Dead code elimination removes no store that a kept statement reads by   *)
(* name, for every function and along every path (DirectReadsSame); and    *)
(* the analysis it rests on finds every variable that a path reads before  *)
(* it is overwritten (LiveCoversPaths).                                    *)
(***************************************************************************)
EXTENDS DeadCode, Induction, SequenceTheorems

(* What is proved of every solver holds of this one.                       *)
Solver == INSTANCE DataFlowProofs WITH
  Functions <- Programs, Domain <- SUBSET Vars, Top <- NoLive,
  Transfer <- TransferBlock, Boundary <- NothingLive,
  InitValue <- NothingLive

-----------------------------------------------------------------------------
(* The live-variable problem satisfies what the solver asks of a problem.  *)

LEMMA FunctionType ==
  ASSUME NEW f \in Programs
  PROVE  /\ f.n \in Nat \ {0} /\ f.source = f.n
         /\ f.deps \in [1 .. f.n -> Seq(1 .. f.n)]
         /\ DOMAIN f.code = 1 .. f.n
         /\ f.code[f.n] = <<>>
         /\ \A b \in 1 .. f.n : /\ Len(f.deps[b]) = 0 <=> b = f.n
                                /\ Len(f.code[b]) \in Nat
                                /\ DOMAIN f.code[b] = 1 .. Len(f.code[b])
         /\ \A b \in 1 .. f.n : \A k \in 1 .. Len(f.code[b]) :
              f.code[b][k].res \in Vars \union {None}
<1> DEFINE S == [op : STRING, res : Vars \union {None},
                 a1 : Vars \union Offsets \union {None, Imm},
                 a2 : Vars \union Offsets \union {None, Imm}]
<1>1. /\ f.n \in Nat \ {0} /\ f.source = f.n
      /\ f.deps \in [1 .. f.n -> Seq(1 .. f.n)]
      /\ f.code \in [1 .. f.n -> Seq(S)]
      /\ f.code[f.n] = <<>>
      /\ \A b \in 1 .. f.n : Len(f.deps[b]) = 0 <=> b = f.n
  BY FunctionsAssumption
<1>2. \A q \in S : q.res \in Vars \union {None}
  OBVIOUS
<1> HIDE DEF S
<1>3. ASSUME NEW b \in 1 .. f.n
      PROVE  /\ f.code[b] \in Seq(S)
             /\ \A k \in 1 .. Len(f.code[b]) : f.code[b][k] \in S
  BY <1>1, <1>3
<1>4. ASSUME NEW b \in 1 .. f.n
      PROVE  /\ Len(f.code[b]) \in Nat
             /\ DOMAIN f.code[b] = 1 .. Len(f.code[b])
  BY <1>3
<1>5. \A b \in 1 .. f.n : \A k \in 1 .. Len(f.code[b]) :
        f.code[b][k].res \in Vars \union {None}
  BY <1>2, <1>3
<1> QED
  BY <1>1, <1>4, <1>5

LEMMA SolverFunctions ==
  \A f \in Programs :
    /\ f.n \in Nat \ {0} /\ f.source \in 1 .. f.n
    /\ f.deps \in [1 .. f.n -> Seq(1 .. f.n)]
    /\ NothingLive(f) \in Solver!Values /\ NothingLive(f) \in Solver!Values
  BY FunctionType DEF NothingLive, Solver!Values

LEMMA MeetIsSemilattice ==
  \A x, y, z \in Solver!Values :
    /\ Meet(x, y) \in Solver!Values
    /\ Meet(x, x) = x /\ Meet(x, NoLive) = x
    /\ Meet(x, y) = Meet(y, x)
    /\ Meet(Meet(x, y), z) = Meet(x, Meet(y, z))
<1> SUFFICES ASSUME NEW x \in Solver!Values, NEW y \in Solver!Values,
                    NEW z \in Solver!Values
             PROVE  /\ Meet(x, y) \in Solver!Values
                    /\ Meet(x, x) = x /\ Meet(x, NoLive) = x
                    /\ Meet(x, y) = Meet(y, x)
                    /\ Meet(Meet(x, y), z) = Meet(x, Meet(y, z))
  OBVIOUS
<1>1. \A u, v \in SUBSET Vars : u \union v \in SUBSET Vars /\ u \union v # NoLive
  BY NamesAssumption
<1> QED
  BY <1>1, NamesAssumption DEF Solver!Values, Meet

LEMMA UsesType ==
  ASSUME NEW q
  PROVE  Uses(q) \subseteq Vars
  BY DEF Uses, VarArgs

LEMMA TransferIsMonotone ==
  \A f \in Programs : \A b \in 1 .. f.n : \A x, y \in Solver!Values :
    /\ TransferBlock(f, b, x) \in Solver!Values
    /\ Solver!Below(x, y) =>
         Solver!Below(TransferBlock(f, b, x), TransferBlock(f, b, y))
<1> SUFFICES ASSUME NEW f \in Programs, NEW b \in 1 .. f.n,
                    NEW x \in Solver!Values, NEW y \in Solver!Values
             PROVE  /\ TransferBlock(f, b, x) \in Solver!Values
                    /\ Solver!Below(x, y) =>
                         Solver!Below(TransferBlock(f, b, x), TransferBlock(f, b, y))
  OBVIOUS
<1> DEFINE d == Def(f.code[b])
           u == Use(f.code[b]) \union escape_analysis(f.code)
           t(v) == (v \ d) \union u
<1>1. u \subseteq Vars
  BY UsesType DEF Use, escape_analysis
<1>2. \A v \in SUBSET Vars : TransferBlock(f, b, v) = t(v) /\ v # NoLive
  BY NamesAssumption DEF TransferBlock
<1>3. TransferBlock(f, b, NoLive) = NoLive
  BY DEF TransferBlock
<1> HIDE DEF d, u
<1>4. \A v \in SUBSET Vars : t(v) \in SUBSET Vars /\ t(v) # NoLive
  BY <1>1, NamesAssumption
<1>5. TransferBlock(f, b, x) \in Solver!Values
  BY <1>2, <1>3, <1>4 DEF Solver!Values
<1>6. ASSUME Meet(x, y) = x
      PROVE  Meet(TransferBlock(f, b, x), TransferBlock(f, b, y))
               = TransferBlock(f, b, x)
  <2>1. CASE y = NoLive
    BY <2>1, <1>3 DEF Meet
  <2>2. CASE x \in SUBSET Vars /\ y \in SUBSET Vars
    <3>1. y \subseteq x
      BY <1>2, <1>6, <2>2 DEF Meet
    <3>2. t(x) \union t(y) = t(x)
      BY <3>1
    <3> QED
      BY <1>2, <1>4, <2>2, <3>2 DEF Meet
  <2>3. CASE x = NoLive /\ y \in SUBSET Vars
    BY <1>6, <2>3, NamesAssumption DEF Meet
  <2> QED
    BY <2>1, <2>2, <2>3 DEF Solver!Values
<1> QED
  BY <1>5, <1>6 DEF Solver!Below

LEMMA SolverSteps ==
  /\ Solver!Init => Solver!IInv /\ Solver!Settled
  /\ Solver!IInv /\ Solver!Settled /\ [Solver!Next]_Solver!dfvars
       => Solver!IInv' /\ Solver!Settled'
  /\ Solver!IInv' /\ Solver!Settled' => Solver!Fixpoint'
<1>1. Solver!Init => Solver!IInv
  BY Solver!InitEstablishes, SolverFunctions, MeetIsSemilattice, TransferIsMonotone
<1>2. Solver!IInv /\ [Solver!Next]_Solver!dfvars => Solver!IInv'
  BY Solver!NextPreserves, SolverFunctions, MeetIsSemilattice, TransferIsMonotone
<1>3. Solver!Init => Solver!Settled
  BY Solver!InitSettled, SolverFunctions, MeetIsSemilattice, TransferIsMonotone
<1>4. Solver!Settled /\ [Solver!Next]_Solver!dfvars => Solver!Settled'
  BY Solver!NextSettled, SolverFunctions, MeetIsSemilattice, TransferIsMonotone
<1>5. Solver!IInv /\ Solver!Settled => Solver!Fixpoint
  BY Solver!SettledFixpoint, SolverFunctions, MeetIsSemilattice, TransferIsMonotone
<1>6. Solver!IInv' /\ Solver!Settled' => Solver!Fixpoint'
  BY <1>5, PTL
<1> QED
  BY <1>1, <1>2, <1>3, <1>4, <1>6

-----------------------------------------------------------------------------
(* Inside a block.                                                         *)

(* The variables of a domain.                                              *)
Alive(x) == IF x = NoLive THEN {} ELSE x

(* LiveAfter is defined by recursion from the end of the block; a function *)
(* that satisfies its equation exists.                                     *)
LEMMA LiveAfterEquation ==
  ASSUME NEW block, NEW out, Len(block) \in Nat
  PROVE  /\ LiveAfter(block, out)[Len(block)] = out
         /\ \A k \in 0 .. Len(block) - 1 :
              LiveAfter(block, out)[k] =
                TransferStatement(block[k + 1], LiveAfter(block, out)[k + 1])
<1> DEFINE n == Len(block)
           step(k, x) == TransferStatement(block[k + 1], x)
           Solves(l, j) ==
             l = [k \in j .. n |-> IF k = n THEN out ELSE step(k, l[k + 1])]
           T == {j \in 0 .. n : \E l : Solves(l, j)}
<1> HIDE DEF step
<1>1. n \in T
  <2> DEFINE l == [k \in n .. n |-> out]
  <2>1. l = [k \in n .. n |-> IF k = n THEN out ELSE step(k, l[k + 1])]
    OBVIOUS
  <2>2. Solves(l, n)
    BY <2>1
  <2> HIDE DEF l, Solves
  <2> QED
    BY <2>2
<1>2. ASSUME NEW j \in 1 .. n, j \in T PROVE j - 1 \in T
  <2>1. PICK l : Solves(l, j)
    BY <1>2
  <2> DEFINE h == j - 1
             m == [k \in h .. n |-> IF k = h THEN step(h, l[j]) ELSE l[k]]
  <2>2. ASSUME NEW k \in h .. n
        PROVE  m[k] = IF k = n THEN out ELSE step(k, m[k + 1])
    <3>1. CASE k = h
      <4>1. h + 1 = j /\ j \in h .. n /\ j # h /\ h # n
        OBVIOUS
      <4> QED
        BY <3>1, <4>1
    <3>2. CASE k # h
      <4>1. k \in j .. n /\ (k # n => k + 1 \in h .. n /\ k + 1 # h)
        BY <3>2
      <4>2. l[k] = IF k = n THEN out ELSE step(k, l[k + 1])
        BY <2>1, <4>1
      <4> QED
        BY <3>2, <4>1, <4>2
    <3> QED
      BY <3>1, <3>2
  <2>3. Solves(m, h)
    <3>1. m = [k \in h .. n |-> m[k]]
      OBVIOUS
    <3> HIDE DEF m
    <3> QED
      BY <2>2, <3>1
  <2> HIDE DEF m, Solves
  <2> QED
    BY <2>3
<1> HIDE DEF T
<1>3. 0 \in T
  <2>1. 0 .. n \subseteq T
    BY <1>1, <1>2, DownwardInduction
  <2> QED
    BY <2>1
<1>4. \E l : Solves(l, 0)
  BY <1>3 DEF T
<1>5. Solves(LiveAfter(block, out), 0)
  BY <1>4 DEF LiveAfter, step
<1> HIDE DEF Solves
<1> DEFINE L == LiveAfter(block, out)
<1>6. L = [k \in 0 .. n |-> IF k = n THEN out ELSE step(k, L[k + 1])]
  BY <1>5 DEF Solves
<1> HIDE DEF L
<1>7. \A k \in 0 .. n : L[k] = IF k = n THEN out ELSE step(k, L[k + 1])
  BY <1>6
<1> QED
  BY <1>7 DEF L, step

LEMMA LiveAfterType ==
  ASSUME NEW block, Len(block) \in Nat, NEW out \in (SUBSET Vars) \union {NoLive},
         NEW k \in 0 .. Len(block)
  PROVE  LiveAfter(block, out)[k] \in (SUBSET Vars) \union {NoLive}
<1> DEFINE n == Len(block)
           L == LiveAfter(block, out)
           T == {j \in 0 .. n : L[j] \in (SUBSET Vars) \union {NoLive}}
<1>1. n \in T
  BY LiveAfterEquation
<1>2. ASSUME NEW j \in 1 .. n, j \in T PROVE j - 1 \in T
  <2>1. L[j - 1] = TransferStatement(block[j], L[j])
    <3>1. j - 1 \in 0 .. n - 1 /\ (j - 1) + 1 = j
      OBVIOUS
    <3> QED
      BY <3>1, LiveAfterEquation
  <2>2. L[j] \in (SUBSET Vars) \union {NoLive}
    BY <1>2
  <2> HIDE DEF L
  <2>3. L[j - 1] \in SUBSET Vars
    BY <2>1, <2>2, UsesType DEF TransferStatement
  <2>4. j - 1 \in 0 .. n
    OBVIOUS
  <2> QED
    BY <2>3, <2>4
<1> HIDE DEF T
<1>3. 0 .. n \subseteq T
  BY <1>1, <1>2, DownwardInduction
<1> QED
  BY <1>3 DEF T

(* What is live at the start of a block is live at its end and not         *)
(* overwritten, or used in it: the transfer over blocks keeps all of it.   *)
LEMMA LiveAtStart ==
  ASSUME NEW block, NEW out, Len(block) \in Nat,
         DOMAIN block = 1 .. Len(block)
  PROVE  Alive(LiveAfter(block, out)[0])
           \subseteq (Alive(out) \ Def(block)) \union Use(block)
<1> DEFINE n == Len(block)
           L == LiveAfter(block, out)
           kept(k) == {v \in Alive(out) : \A j \in k + 1 .. n :
                         ~(Erases(block[j]) /\ block[j].res = v)}
           T == {k \in 0 .. n : Alive(L[k]) \subseteq kept(k) \union Use(block)}
<1>1. n \in T
  BY LiveAfterEquation
<1>2. ASSUME NEW k \in 1 .. n, k \in T PROVE k - 1 \in T
  <2>1. L[k - 1] = TransferStatement(block[k], L[k])
    <3>1. k - 1 \in 0 .. n - 1 /\ (k - 1) + 1 = k
      OBVIOUS
    <3> QED
      BY <3>1, LiveAfterEquation
  <2>2. Uses(block[k]) \subseteq Use(block)
    BY DEF Use
  <2> DEFINE q == block[k]
  <2>3. /\ Alive(L[k - 1]) \subseteq Alive(L[k]) \union Uses(q)
        /\ Erases(q) => \A v \in Alive(L[k - 1]) : v # q.res \/ v \in Uses(q)
    <3>1. L[k - 1] =
            IF q.op = "NOP" THEN Alive(L[k])
            ELSE (IF erase_result(q.op) THEN Alive(L[k]) \ {q.res}
                  ELSE Alive(L[k])) \union Uses(q)
      BY <2>1 DEF TransferStatement, Alive
    <3>2. Erases(q) => erase_result(q.op) /\ q.op # "NOP"
      BY DEF Erases, erase_result
    <3>3. Alive(L[k - 1]) \subseteq L[k - 1]
      BY DEF Alive
    <3> HIDE DEF q, L
    <3> QED
      BY <3>1, <3>2, <3>3
  <2>4. ASSUME NEW v \in Alive(L[k - 1])
        PROVE  v \in kept(k - 1) \union Use(block)
    <3> SUFFICES ASSUME v \notin Use(block) PROVE v \in kept(k - 1)
      OBVIOUS
    <3>1. v \in Alive(L[k]) /\ (Erases(q) => v # q.res)
      BY <2>2, <2>3
    <3>2. v \in kept(k)
      BY <1>2, <3>1
    <3>3. \A j \in k .. n : j = k \/ j \in k + 1 .. n
      OBVIOUS
    <3>4. (k - 1) + 1 = k
      OBVIOUS
    <3> QED
      BY <3>1, <3>2, <3>3, <3>4
  <2> QED
    BY <2>4
<1> HIDE DEF T
<1>3. 0 \in T
  <2>1. 0 .. n \subseteq T
    BY <1>1, <1>2, DownwardInduction
  <2> QED
    BY <2>1
<1>4. kept(0) \subseteq Alive(out) \ Def(block)
  BY DEF Def
<1> QED
  BY <1>3, <1>4 DEF T

-----------------------------------------------------------------------------
(* The inductive invariant.                                                *)

(* The function is one of Programs but for its code.                       *)
Shape ==
  \E f \in Programs :
    /\ orig = f.code
    /\ fn = [n |-> f.n, source |-> f.source, deps |-> f.deps, code |-> fn.code]

(* Until the analysis is done the code is what it was.                     *)
Analysing ==
  pc \in {"loop", "sweep", "solved"} =>
    /\ Solver!IInv /\ Solver!Settled
    /\ fn.code = orig
    /\ \A b \in 1 .. fn.n : after[b] # NoLive
    /\ before[fn.n] = NoLive

(* Then OUT holds the IN of every successor, and IN what the transfer over *)
(* the block makes of OUT.  Nothing is live at EXIT.                       *)
Solved ==
  pc \in {"solved", "selfish", "offsets", "run"} =>
    /\ before[fn.n] = NoLive
    /\ \A b \in 1 .. fn.n : after[b] \in SUBSET Vars
    /\ \A b \in 1 .. fn.n - 1 :
         /\ before[b] \in SUBSET Vars
         /\ \A d \in Live!Deps(b) : after[d] \subseteq before[b]
         /\ after[b] = (before[b] \ Def(orig[b])) \union Use(orig[b])
                         \union escape_analysis(orig)

(* What the code names, and what is live before statement k + 1 of b.      *)
Reads(code) == UNION {DirectReads(q) : q \in Statements(code)}
LiveAt(b, k) == Alive(LiveAfter(orig[b], before[b])[k])

(* The reasons for which a statement may be a NOP now: its result is not   *)
(* live, or nothing that is left reads the cell it writes.                 *)
MayGo(b, k) ==
  LET q == orig[b][k] IN
  \/ Erases(q) /\ q.res \notin LiveAt(b, k)
  \/ Erases(q) /\ q.res \notin Reads(fn.code)
  \/ /\ q.op \in {"DOT_ASSIGN", "DOT_PASSIGN"}
     /\ q.res \in Vars \ Pointers /\ q.a1 \in Offsets
     /\ <<q.res, q.a1>> \notin Reads(fn.code)

Shrunk ==
  /\ DOMAIN fn.code = 1 .. fn.n
  /\ \A b \in 1 .. fn.n :
       /\ DOMAIN fn.code[b] = 1 .. Len(orig[b])
       /\ Len(fn.code[b]) = Len(orig[b])
       /\ \A k \in 1 .. Len(orig[b]) :
            \/ fn.code[b][k] = orig[b][k]
            \/ fn.code[b][k] = Nop /\ MayGo(b, k)

(* The execution stays inside the function, and only pointers point.       *)
Position ==
  /\ at[1] \in 1 .. fn.n /\ at[2] \in 1 .. Len(orig[at[1]]) + 1
  /\ DOMAIN old = Cells /\ DOMAIN new = Cells
  /\ DOMAIN points = Vars
  /\ \A v \in Vars : points[v] # None => v \in Pointers

(* A cell that is still read - a variable from where the execution is, a   *)
(* member from anywhere - was last written at the same time in both codes. *)
Needed(c) == c \in Reads(fn.code) /\ (c \in Vars => c \in LiveAt(at[1], at[2] - 1))

Agreement == \A c \in Cells : Needed(c) => old[c] = new[c]

IInv ==
  /\ pc \in {"loop", "sweep", "solved", "selfish", "offsets", "run"}
  /\ Shape /\ Analysing /\ Solved /\ Shrunk /\ Position
  /\ pc # "run" => old = new
  /\ Agreement

LEMMA ShapeFacts ==
  ASSUME Shape
  PROVE  /\ fn.n \in Nat \ {0} /\ fn.source = fn.n
         /\ fn.deps \in [1 .. fn.n -> Seq(1 .. fn.n)]
         /\ DOMAIN orig = 1 .. fn.n
         /\ orig[fn.n] = <<>>
         /\ \A b \in 1 .. fn.n : /\ Len(fn.deps[b]) = 0 <=> b = fn.n
                                 /\ Len(orig[b]) \in Nat
                                 /\ DOMAIN orig[b] = 1 .. Len(orig[b])
         /\ \A b \in 1 .. fn.n : \A k \in 1 .. Len(orig[b]) :
              orig[b][k].res \in Vars \union {None}
<1>1. PICK f \in Programs :
        /\ orig = f.code
        /\ fn = [n |-> f.n, source |-> f.source, deps |-> f.deps, code |-> fn.code]
  BY DEF Shape
<1>2. fn.n = f.n /\ fn.source = f.source /\ fn.deps = f.deps
  BY <1>1
<1> QED
  BY <1>1, <1>2, FunctionType

(* The instance of the model and that of its proofs are the same machine.  *)
LEMMA SameMachine ==
  /\ Live!Init <=> Solver!Init
  /\ Live!Next <=> Solver!Next
  BY DEF Live!Init, Solver!Init, Live!Next, Solver!Next, Live!Sweep, Solver!Sweep,
         Live!Visit, Solver!Visit, Live!NextBlock, Solver!NextBlock,
         Live!EndSweep, Solver!EndSweep, Live!Solve, Solver!Solve,
         Live!Blocks, Solver!Blocks

LEMMA Initially == Init => IInv
<1> SUFFICES ASSUME Init PROVE IInv
  OBVIOUS
<1>1. /\ fn \in Programs /\ orig = fn.code /\ pc = "loop"
      /\ before = [b \in 1 .. fn.n |-> NoLive]
      /\ after = [b \in 1 .. fn.n |-> {}]
  BY DEF Init, Live!Init, Live!Blocks, NothingLive
<1>2. Shape
  <2> DEFINE S == [op : STRING, res : Vars \union {None},
                   a1 : Vars \union Offsets \union {None, Imm},
                   a2 : Vars \union Offsets \union {None, Imm}]
  <2>1. fn \in [n : Nat \ {0}, source : Nat, deps : [1 .. fn.n -> Seq(1 .. fn.n)],
                code : [1 .. fn.n -> Seq(S)]]
    BY <1>1, FunctionsAssumption
  <2> HIDE DEF S
  <2>2. fn = [n |-> fn.n, source |-> fn.source, deps |-> fn.deps, code |-> fn.code]
    BY <2>1
  <2> QED
    BY <1>1, <2>2 DEF Shape
<1>3. fn.n \in Nat \ {0} /\ {} # NoLive
  BY <1>2, ShapeFacts, NamesAssumption
<1>4. Analysing
  <2>1. Solver!IInv /\ Solver!Settled
    BY SolverSteps, SameMachine DEF Init
  <2>2. before[fn.n] = NoLive /\ \A b \in 1 .. fn.n : after[b] # NoLive
    BY <1>1, <1>3
  <2> QED
    BY <1>1, <2>1, <2>2 DEF Analysing
<1>5. Shrunk
  BY <1>1, <1>2, ShapeFacts DEF Shrunk
<1>6. Position
  <2>1. /\ at = <<1, 1>> /\ old = [c \in Cells |-> 0] /\ new = [c \in Cells |-> 0]
        /\ points = [v \in Vars |-> None]
    BY DEF Init
  <2>2. 1 \in 1 .. fn.n /\ Len(orig[1]) \in Nat
    BY <1>2, <1>3, ShapeFacts
  <2>3. 1 \in 1 .. Len(orig[1]) + 1
    BY <2>2
  <2> QED
    BY <2>1, <2>2, <2>3 DEF Position
<1>7. Solved
  BY <1>1 DEF Solved
<1>8. old = new
  BY DEF Init
<1> QED
  BY <1>1, <1>2, <1>4, <1>5, <1>6, <1>7, <1>8 DEF IInv, Agreement

(* A step of the analysis.                                                 *)
LEMMA AnalysePreserves == IInv /\ Analyse => IInv'
<1> SUFFICES ASSUME IInv, Analyse PROVE IInv'
  OBVIOUS
<1>1. /\ pc \in {"loop", "sweep"} /\ pc' \in {"loop", "sweep", "solved"}
      /\ UNCHANGED <<fn, orig, at, time, old, new, points>>
  BY DEF Analyse, Live!Next, Live!Sweep, Live!Visit, Live!NextBlock,
         Live!EndSweep, Live!Solve, run
<1>2. Solver!IInv /\ Solver!Settled /\ fn.code = orig /\ before[fn.n] = NoLive
      /\ \A b \in 1 .. fn.n : after[b] # NoLive
  BY <1>1 DEF IInv, Analysing
<1>3. Solver!IInv' /\ Solver!Settled'
  BY <1>2, SolverSteps, SameMachine DEF Analyse
<1>4. Solver!Fixpoint'
  BY <1>3, SolverSteps
<1>5. /\ fn \in Programs /\ fn.n \in Nat \ {0} /\ fn.source = fn.n
      /\ before \in [1 .. fn.n -> Solver!Values]
      /\ after \in [1 .. fn.n -> Solver!Values]
      /\ before' \in [1 .. fn.n -> Solver!Values]
      /\ after' \in [1 .. fn.n -> Solver!Values]
  <2>1. fn \in Programs
    BY <1>2 DEF Solver!IInv, Solver!TypeOK
  <2>2. Solver!TypeOK /\ Solver!TypeOK'
    BY <1>2, <1>3 DEF Solver!IInv
  <2> QED
    BY <1>1, <2>1, <2>2, FunctionType DEF Solver!TypeOK, Solver!Blocks
<1>6. before'[fn.n] = NoLive /\ \A b \in 1 .. fn.n : after'[b] # NoLive
  <2>1. CASE UNCHANGED <<before, after>>
    BY <1>2, <2>1
  <2>2. CASE Solver!Visit
    <3> DEFINE d == fn.deps[B][i]
               m == Meet(before[B], after[d])
               t == TransferBlock(fn, B, m)
    <3>1. /\ B \in 1 .. fn.n /\ B # fn.n /\ i \in 1 .. Len(fn.deps[B])
          /\ before' = [before EXCEPT ![B] = m]
          /\ after' = [after EXCEPT ![B] = t]
      <4>1. /\ B \in 1 .. fn.n /\ B # fn.n /\ i <= Len(fn.deps[B])
            /\ before' = [before EXCEPT ![B] = m]
            /\ after' = [after EXCEPT ![B] = TransferBlock(fn, B, before'[B])]
        BY <2>2, <1>5 DEF Solver!Visit, Solver!Blocks
      <4>2. i \in Nat \ {0} /\ Len(fn.deps[B]) \in Nat
        BY <1>2, <1>5, <4>1, FunctionType DEF Solver!IInv, Solver!TypeOK
      <4>3. before'[B] = m
        BY <4>1, <1>5
      <4>4. i \in 1 .. Len(fn.deps[B])
        BY <4>1, <4>2
      <4> HIDE DEF m
      <4> QED
        BY <4>1, <4>3, <4>4
    <3>2. d \in 1 .. fn.n
      BY <3>1, <1>5, FunctionType
    <3>3. m \in SUBSET Vars
      <4>1. after[d] \in SUBSET Vars /\ before[B] \in Solver!Values
        BY <3>1, <3>2, <1>2, <1>5 DEF Solver!Values
      <4> QED
        BY <4>1 DEF Meet, Solver!Values
    <3>4. t # NoLive
      <4>1. t = (m \ Def(fn.code[B])) \union Use(fn.code[B])
                 \union escape_analysis(fn.code)
        BY <3>3, NamesAssumption DEF TransferBlock
      <4>2. Use(fn.code[B]) \subseteq Vars /\ escape_analysis(fn.code) \subseteq Vars
        BY UsesType DEF Use, escape_analysis
      <4> HIDE DEF t, m
      <4>3. t \in SUBSET Vars
        BY <4>1, <4>2, <3>3
      <4> QED
        BY <4>3, NamesAssumption
    <3> HIDE DEF t, m
    <3> QED
      BY <3>1, <3>4, <1>2, <1>5
  <2> QED
    BY <2>1, <2>2, SameMachine
    DEF Analyse, Solver!Next, Solver!Sweep, Solver!NextBlock, Solver!EndSweep,
        Solver!Solve
<1>7. Shape' /\ Position' /\ old' = new'
  <2>1. Shape /\ Position /\ old = new
    BY <1>1 DEF IInv
  <2> QED
    BY <1>1, <2>1 DEF Shape, Position, Cells
<1>8. Analysing'
  BY <1>1, <1>2, <1>3, <1>6 DEF Analysing
<1>9. Shrunk'
  BY <1>1, <1>2, <1>7, ShapeFacts DEF Shrunk, IInv
<1>10. Solved'
  <2> SUFFICES ASSUME pc' = "solved" PROVE Solved'
    BY <1>1 DEF Solved
  <2>1. \A b \in 1 .. fn.n : after'[b] \in SUBSET Vars
    BY <1>5, <1>6 DEF Solver!Values
  <2>2. ASSUME NEW b \in 1 .. fn.n - 1
        PROVE  /\ before'[b] \in SUBSET Vars
               /\ \A d \in Live!Deps(b) : after'[d] \subseteq before'[b]
               /\ after'[b] = (before'[b] \ Def(orig[b])) \union Use(orig[b])
                                \union escape_analysis(orig)
    <3>1. /\ b \in 1 .. fn.n /\ b # fn.n
          /\ Len(fn.deps[b]) \in Nat \ {0}
          /\ \A j \in 1 .. Len(fn.deps[b]) : fn.deps[b][j] \in 1 .. fn.n
      <4>1. b \in 1 .. fn.n /\ b # fn.n
        BY <1>5
      <4> DEFINE S == 1 .. fn.n
      <4>2. fn.deps \in [S -> Seq(S)] /\ Len(fn.deps[b]) # 0
        BY <1>5, <4>1, FunctionType
      <4> HIDE DEF S
      <4>3. fn.deps[b] \in Seq(S)
        BY <4>1, <4>2 DEF S
      <4>4. Len(fn.deps[b]) \in Nat /\ \A j \in 1 .. Len(fn.deps[b]) : fn.deps[b][j] \in S
        BY <4>3
      <4> QED
        BY <4>1, <4>2, <4>4 DEF S
    <3> DEFINE D == Live!Deps(b)
    <3>2. D \subseteq 1 .. fn.n /\ D # {} /\ D = Solver!Deps(b)
      <4>1. D = {fn.deps[b][j] : j \in 1 .. Len(fn.deps[b])} /\ D = Solver!Deps(b)
        BY DEF Live!Deps, Solver!Deps
      <4>2. 1 \in 1 .. Len(fn.deps[b])
        BY <3>1
      <4> QED
        BY <3>1, <4>1, <4>2
    <3> HIDE DEF D
    <3>3. /\ \A d \in D : Meet(before'[b], after'[d]) = before'[b]
          /\ after'[b] = TransferBlock(fn, b, before'[b])
      <4>1. Solver!Deps(b)' = Solver!Deps(b) /\ Solver!Blocks' = 1 .. fn.n
        BY <1>1 DEF Solver!Deps, Solver!Blocks
      <4> QED
        BY <1>1, <1>4, <1>5, <3>1, <3>2, <4>1 DEF Solver!Fixpoint, Solver!Below
    <3>4. \A d \in D : before'[b] \in SUBSET Vars /\ after'[d] \subseteq before'[b]
      <4> SUFFICES ASSUME NEW d \in D
                   PROVE  before'[b] \in SUBSET Vars /\ after'[d] \subseteq before'[b]
        OBVIOUS
      <4>1. /\ after'[d] \in SUBSET Vars /\ after'[d] # NoLive
            /\ before'[b] \in (SUBSET Vars) \union {NoLive}
        BY <2>1, <1>5, <1>6, <3>1, <3>2 DEF Solver!Values
      <4> QED
        BY <3>3, <4>1 DEF Meet
    <3>5. before'[b] \in SUBSET Vars /\ before'[b] # NoLive
      BY <3>2, <3>4, NamesAssumption
    <3> QED
      BY <1>2, <3>2, <3>3, <3>4, <3>5 DEF D, TransferBlock
  <2>3. \A b : Live!Deps(b)' = Live!Deps(b)
    BY <1>1 DEF Live!Deps
  <2> QED
    BY <1>1, <1>6, <2>1, <2>2, <2>3 DEF Solved
<1> QED
  BY <1>1, <1>7, <1>8, <1>9, <1>10 DEF IInv, Agreement

-----------------------------------------------------------------------------
(* The passes.                                                             *)

LEMMA NopDoesNothing ==
  /\ DirectReads(Nop) = {} /\ Writes(Nop) = {} /\ ~Erases(Nop)
  /\ Nop.op = "NOP"
  BY NamesAssumption DEF Nop, Stmt, DirectReads, VarArgs, Writes, Erases, erase_result

LEMMA StatementFacts ==
  ASSUME Shape, NEW b \in 1 .. fn.n, NEW k \in 1 .. Len(orig[b])
  PROVE  LET q == orig[b][k] IN
         /\ q.op = "NOP" => q = Nop
         /\ q.op \in {"DOT", "PDOT"} => q.a1 \in Vars
         /\ q.op \in {"DOT_ASSIGN", "DOT_PASSIGN"} => q.res \in Vars
         /\ q.op = "PASSIGN" /\ q.a1 \in Vars => q.res \in Pointers
<1> DEFINE q == orig[b][k]
<1>1. PICK f \in Programs : orig = f.code
  BY DEF Shape
<1>2. q \in Statements(f.code)
  BY <1>1, ShapeFacts DEF Statements
<1> HIDE DEF q
<1>3. /\ q.op = "NOP" => q = Nop
      /\ q.op \in {"DOT", "PDOT"} => q.a1 \in Vars
      /\ q.op \in {"DOT_ASSIGN", "DOT_PASSIGN"} => q.res \in Vars
      /\ q.op = "PASSIGN" /\ q.a1 \in Vars => q.res \in Pointers
  BY <1>1, <1>2, StatementsAssumption
<1> QED
  BY <1>3 DEF q

(* What is left of the code is read by statements of the old code.         *)
LEMMA StatementsOf ==
  ASSUME Shape, Shrunk
  PROVE  Statements(fn.code) =
           UNION {{fn.code[b][k] : k \in 1 .. Len(orig[b])} : b \in 1 .. fn.n}
  BY DEF Shrunk, Statements

LEMMA Kept ==
  ASSUME Shape, Shrunk, NEW q \in Statements(fn.code), q # Nop
  PROVE  \E b \in 1 .. fn.n : \E k \in 1 .. Len(orig[b]) :
           q = orig[b][k] /\ q = fn.code[b][k]
  BY StatementsOf DEF Shrunk

(* Turning statements into NOPs keeps the shape of the code.               *)
LEMMA WithoutKeeps ==
  ASSUME Shape, Shrunk, NEW dead, orig' = orig,
         fn' = [fn EXCEPT !.code = Without(fn.code, dead)]
  PROVE  /\ Shape' /\ fn'.n = fn.n
         /\ DOMAIN fn'.code = 1 .. fn.n
         /\ \A b \in 1 .. fn.n :
              /\ DOMAIN fn'.code[b] = 1 .. Len(orig[b])
              /\ Len(fn'.code[b]) = Len(orig[b])
              /\ \A k \in 1 .. Len(orig[b]) :
                   fn'.code[b][k] = IF <<b, k>> \in dead THEN Nop
                                                        ELSE fn.code[b][k]
<1> DEFINE w == Without(fn.code, dead)
<1>1. PICK f \in Programs :
        /\ orig = f.code
        /\ fn = [n |-> f.n, source |-> f.source, deps |-> f.deps, code |-> fn.code]
  BY DEF Shape
<1>2. fn' = [n |-> f.n, source |-> f.source, deps |-> f.deps, code |-> w]
  <2>1. fn' = [fn EXCEPT !.code = w]
    OBVIOUS
  <2> HIDE DEF w
  <2> QED
    BY <1>1, <2>1
<1>3. fn'.code = w /\ fn'.n = fn.n
  BY <1>1, <1>2
<1>4. Shape'
  <2>1. fn' = [n |-> f.n, source |-> f.source, deps |-> f.deps, code |-> fn'.code]
    BY <1>2, <1>3
  <2> QED
    BY <1>1, <2>1 DEF Shape
<1>5. DOMAIN w = 1 .. fn.n
  BY DEF Without, Shrunk
<1>6. ASSUME NEW b \in 1 .. fn.n
      PROVE  /\ DOMAIN w[b] = 1 .. Len(orig[b])
             /\ Len(w[b]) = Len(orig[b])
             /\ \A k \in 1 .. Len(orig[b]) :
                  w[b][k] = IF <<b, k>> \in dead THEN Nop ELSE fn.code[b][k]
  <2>1. w[b] = [k \in 1 .. Len(orig[b]) |->
                  IF <<b, k>> \in dead THEN Nop ELSE fn.code[b][k]]
    BY DEF Without, Shrunk
  <2>2. Len(orig[b]) \in Nat
    BY ShapeFacts
  <2> HIDE DEF w
  <2> QED
    BY <2>1, <2>2
<1> HIDE DEF w
<1> QED
  BY <1>3, <1>4, <1>5, <1>6

(* It removes reads, and so leaves every statement that may go a reason.   *)
LEMMA PassShrinks ==
  ASSUME Shape, Shrunk, NEW dead, orig' = orig, before' = before,
         fn' = [fn EXCEPT !.code = Without(fn.code, dead)],
         \A b \in 1 .. fn.n : \A k \in 1 .. Len(orig[b]) :
           <<b, k>> \in dead => fn.code[b][k] = Nop \/ MayGo(b, k)'
  PROVE  Shrunk'
<1> DEFINE c == fn'.code
<1>1. /\ Shape' /\ fn'.n = fn.n
      /\ DOMAIN c = 1 .. fn.n
      /\ \A b \in 1 .. fn.n :
           /\ DOMAIN c[b] = 1 .. Len(orig[b])
           /\ Len(c[b]) = Len(orig[b])
           /\ \A k \in 1 .. Len(orig[b]) :
                c[b][k] = IF <<b, k>> \in dead THEN Nop ELSE fn.code[b][k]
  BY WithoutKeeps
<1> HIDE DEF c
<1>2. Reads(c) \subseteq Reads(fn.code)
  <2> SUFFICES ASSUME NEW q \in Statements(c)
               PROVE  DirectReads(q) \subseteq Reads(fn.code)
    BY DEF Reads
  <2>0. PICK b \in 1 .. fn.n : \E k \in 1 .. Len(orig[b]) : q = c[b][k]
    BY <1>1 DEF Statements
  <2>1. PICK k \in 1 .. Len(orig[b]) : q = c[b][k]
    BY <2>0
  <2>2. fn.code[b][k] \in Statements(fn.code)
    BY StatementsOf
  <2>3. q \in {Nop, fn.code[b][k]}
    BY <1>1, <2>1
  <2>4. DirectReads(fn.code[b][k]) \subseteq Reads(fn.code)
    BY <2>2 DEF Reads
  <2> QED
    BY <2>3, <2>4, NopDoesNothing
<1>3. \A b, k : LiveAt(b, k)' = LiveAt(b, k)
  BY DEF LiveAt
<1>4. \A b, k : MayGo(b, k) => MayGo(b, k)'
  BY <1>2, <1>3 DEF MayGo, c
<1>5. ASSUME NEW b \in 1 .. fn.n, NEW k \in 1 .. Len(orig[b])
      PROVE  \/ c[b][k] = orig[b][k]
             \/ c[b][k] = Nop /\ MayGo(b, k)'
  <2>1. \/ fn.code[b][k] = orig[b][k]
        \/ fn.code[b][k] = Nop /\ MayGo(b, k)'
    BY <1>4 DEF Shrunk
  <2>2. CASE <<b, k>> \in dead
    BY <1>1, <2>1, <2>2
  <2>3. CASE <<b, k>> \notin dead
    BY <1>1, <2>1, <2>3
  <2> QED
    BY <2>2, <2>3
<1> QED
  BY <1>1, <1>5 DEF Shrunk, c

(* Before the code runs, it has nothing to disagree about.                 *)
LEMMA PassPreserves ==
  ASSUME IInv, NEW from, NEW to, NEW dead, Pass(from, to, dead),
         from \in {"solved", "selfish", "offsets"},
         to \in {"selfish", "offsets", "run"}, Shrunk'
  PROVE  IInv'
<1>1. /\ pc = from /\ pc' = to
      /\ fn' = [fn EXCEPT !.code = Without(fn.code, dead)]
      /\ UNCHANGED <<before, after, changes, B, i, orig, at, time, old, new, points>>
  BY DEF Pass, solver, run
<1>2. Shape' /\ fn'.n = fn.n
  BY <1>1, WithoutKeeps DEF IInv
<1>3. old' = new'
  BY <1>1 DEF IInv
<1>4. Analysing'
  BY <1>1 DEF Analysing
<1>5. Position'
  BY <1>1, <1>2 DEF IInv, Position, Cells
<1>6. fn'.deps = fn.deps
  BY <1>1 DEF IInv, Shape
<1>7. Solved'
  <2>1. \A b : Live!Deps(b)' = Live!Deps(b)
    BY <1>6 DEF Live!Deps
  <2> QED
    BY <1>1, <1>2, <2>1 DEF IInv, Solved
<1> QED
  BY <1>1, <1>2, <1>3, <1>4, <1>5, <1>7 DEF IInv, Agreement

LEMMA RemoveDeadPreserves == IInv /\ RemoveDead => IInv'
<1> SUFFICES ASSUME IInv, RemoveDead PROVE IInv'
  OBVIOUS
<1> DEFINE Unused(b, k) ==
             LET live == LiveAfter(fn.code[b], before[b])[k]
             IN  live = NoLive \/ fn.code[b][k].res \notin live
           dead == {x \in Positions(fn.code) :
                      Erases(fn.code[x[1]][x[2]]) /\ Unused(x[1], x[2])}
<1>1. Pass("solved", "selfish", dead)
  BY DEF RemoveDead
<1>2. /\ fn.code = orig /\ Shape /\ Shrunk
      /\ fn' = [fn EXCEPT !.code = Without(fn.code, dead)]
      /\ UNCHANGED <<before, orig>>
  BY <1>1 DEF Pass, IInv, Analysing, solver
<1>3. ASSUME NEW b \in 1 .. fn.n, NEW k \in 1 .. Len(orig[b]), <<b, k>> \in dead
      PROVE  MayGo(b, k)'
  <2>1. Erases(orig[b][k]) /\ Unused(b, k)
    BY <1>2, <1>3
  <2>2. orig[b][k].res \notin LiveAt(b, k)
    BY <1>2, <2>1 DEF LiveAt, Alive
  <2> QED
    BY <1>2, <2>1, <2>2 DEF MayGo, LiveAt
<1> HIDE DEF dead
<1>4. Shrunk'
  BY <1>2, <1>3, PassShrinks
<1> QED
  BY <1>1, <1>4, PassPreserves

(* A statement that is left was there before the pass, and not chosen.     *)
LeftOver(q, dead) ==
  \E b \in 1 .. fn.n : \E k \in 1 .. Len(orig[b]) :
    <<b, k>> \notin dead /\ q = fn.code[b][k] /\ q = orig[b][k]

LEMMA Left ==
  ASSUME Shape, Shrunk, NEW dead, orig' = orig,
         fn' = [fn EXCEPT !.code = Without(fn.code, dead)],
         NEW q \in Statements(fn'.code), q # Nop
  PROVE  LeftOver(q, dead)
<1> DEFINE c == fn'.code
<1>1. /\ DOMAIN c = 1 .. fn.n
      /\ \A b \in 1 .. fn.n :
           /\ Len(c[b]) = Len(orig[b])
           /\ \A k \in 1 .. Len(orig[b]) :
                c[b][k] = IF <<b, k>> \in dead THEN Nop ELSE fn.code[b][k]
  BY WithoutKeeps
<1>2. q \in Statements(c)
  OBVIOUS
<1> HIDE DEF c
<1>3. PICK b \in 1 .. fn.n : \E k \in 1 .. Len(orig[b]) : q = c[b][k]
  BY <1>1, <1>2 DEF Statements
<1>4. PICK k \in 1 .. Len(orig[b]) : q = c[b][k]
  BY <1>3
<1>5. <<b, k>> \notin dead /\ q = fn.code[b][k]
  BY <1>1, <1>4
<1>6. q = orig[b][k]
  BY <1>5 DEF Shrunk
<1> QED
  BY <1>5, <1>6 DEF LeftOver

LEMMA Chosen ==
  ASSUME Shape, Shrunk, NEW b \in 1 .. fn.n, NEW k \in 1 .. Len(orig[b])
  PROVE  <<b, k>> \in Positions(fn.code) /\ fn.code[b][k] \in Statements(fn.code)
<1>1. b \in DOMAIN fn.code /\ k \in DOMAIN fn.code[b]
  BY DEF Shrunk
<1>2. <<b, k>> \in Positions(fn.code)
  BY <1>1 DEF Positions
<1> QED
  BY <1>2, StatementsOf

LEMMA RemoveSelfContributorsPreserves == IInv /\ RemoveSelfContributors => IInv'
<1> SUFFICES ASSUME IInv, RemoveSelfContributors PROVE IInv'
  OBVIOUS
<1> DEFINE self == SelfContributors(fn.code)
           dead == {x \in Positions(fn.code) :
                      LET q == fn.code[x[1]][x[2]]
                      IN  Erases(q) /\ q.res \in self}
<1>1. Pass("selfish", "offsets", dead)
  BY DEF RemoveSelfContributors
<1>2. /\ Shape /\ Shrunk
      /\ fn' = [fn EXCEPT !.code = Without(fn.code, dead)]
      /\ UNCHANGED <<before, orig>>
  BY <1>1 DEF Pass, IInv, solver
<1>s. ASSUME NEW v \in self, NEW q \in Statements(fn.code)
      PROVE  /\ ~Erases(q) => v \notin VarArgs(q) \union {q.res}
             /\ Erases(q) /\ q.res # v => v \notin VarArgs(q)
  BY <1>s DEF SelfContributors
<1>d. ASSUME NEW b \in 1 .. fn.n, NEW k \in 1 .. Len(orig[b]),
             Erases(fn.code[b][k]), fn.code[b][k].res \in self
      PROVE  <<b, k>> \in dead
  BY <1>2, <1>d, Chosen
<1>3. ASSUME NEW b \in 1 .. fn.n, NEW k \in 1 .. Len(orig[b]), <<b, k>> \in dead
      PROVE  MayGo(b, k)'
  <2>1. Erases(fn.code[b][k]) /\ fn.code[b][k].res \in self
    BY <1>3
  <2>2. fn.code[b][k] = orig[b][k]
    BY <1>2, <2>1, NopDoesNothing DEF Shrunk
  <2> DEFINE v == orig[b][k].res
  <2>3. v \in Vars /\ v \in self
    <3>1. v \in Vars \union {None} /\ v # None
      BY <1>2, <2>1, <2>2, ShapeFacts DEF Erases
    <3> QED
      BY <2>1, <2>2, <3>1
  <2>4. ASSUME NEW q \in Statements(fn'.code), v \in DirectReads(q) PROVE FALSE
    <3>1. q # Nop
      BY <2>4, NopDoesNothing
    <3>2. PICK bb \in 1 .. fn.n : \E kk \in 1 .. Len(orig[bb]) :
            <<bb, kk>> \notin dead /\ q = fn.code[bb][kk] /\ q = orig[bb][kk]
      <4> HIDE DEF dead
      <4>1. LeftOver(q, dead)
        BY <1>2, <3>1, Left
      <4> QED
        BY <4>1 DEF LeftOver
    <3>3. PICK kk \in 1 .. Len(orig[bb]) : <<bb, kk>> \notin dead /\ q = fn.code[bb][kk]
      BY <3>2
    <3>4. ~(Erases(q) /\ q.res \in self) /\ q \in Statements(fn.code)
      BY <1>2, <1>d, <3>3, Chosen
    <3> HIDE DEF v, dead, self
    <3>5. v \notin VarArgs(q) /\ (Erases(q) \/ v # q.res)
      BY <1>s, <2>3, <3>4
    <3>6. /\ \A x \in Vars, off \in Offsets : <<x, off>> # v
          /\ q.op \in {"DOT", "PDOT"} => q.a1 \in Vars
          /\ q.op \in {"DOT_ASSIGN", "DOT_PASSIGN"} => ~Erases(q)
      <4>1. \E k3 \in 1 .. Len(orig[bb]) : q = orig[bb][k3]
        BY <1>2, <3>1, <3>3 DEF Shrunk
      <4>2. q.op \in {"DOT", "PDOT"} => q.a1 \in Vars
        BY <1>2, <4>1, StatementFacts
      <4> QED
        BY <2>3, <4>2, NamesAssumption DEF Erases, erase_result
    <3> QED
      BY <2>4, <3>5, <3>6 DEF DirectReads, Members
  <2>5. v \notin Reads(fn'.code)
    BY <2>4 DEF Reads
  <2> QED
    BY <1>2, <2>1, <2>2, <2>5 DEF MayGo
<1> HIDE DEF dead
<1>4. Shrunk'
  BY <1>2, <1>3, PassShrinks, ZenonT(30)
<1> QED
  BY <1>1, <1>4, PassPreserves

LEMMA RemoveUnreadMembersPreserves == IInv /\ RemoveUnreadMembers => IInv'
<1> SUFFICES ASSUME IInv, RemoveUnreadMembers PROVE IInv'
  OBVIOUS
<1> DEFINE used == {<<q.a1, q.a2>> : q \in MemberReads(fn.code)}
           invalidated == {q.a1 : q \in {r \in MemberReads(fn.code) :
                                           r.a2 \notin Offsets}}
           dead == {x \in Positions(fn.code) :
                      LET q == fn.code[x[1]][x[2]] IN
                        /\ q.op \in {"DOT_ASSIGN", "DOT_PASSIGN"}
                        /\ q.res \notin invalidated \union Pointers
                        /\ q.a1 \in Offsets /\ <<q.res, q.a1>> \notin PointerMembers
                        /\ q.res \notin escape_analysis(orig)
                        /\ <<q.res, q.a1>> \notin used}
<1>1. Pass("offsets", "run", dead)
  BY ZenonT(30) DEF RemoveUnreadMembers
<1>2. /\ Shape /\ Shrunk
      /\ fn' = [fn EXCEPT !.code = Without(fn.code, dead)]
      /\ UNCHANGED <<before, orig>>
  BY <1>1, ZenonT(30) DEF Pass, IInv, solver
<1>3. ASSUME NEW b \in 1 .. fn.n, NEW k \in 1 .. Len(orig[b]), <<b, k>> \in dead
      PROVE  MayGo(b, k)'
  <2> DEFINE r == orig[b][k]
  <2>1. /\ fn.code[b][k].op \in {"DOT_ASSIGN", "DOT_PASSIGN"}
        /\ fn.code[b][k].res \notin invalidated \union Pointers
        /\ fn.code[b][k].a1 \in Offsets
        /\ <<fn.code[b][k].res, fn.code[b][k].a1>> \notin used
    BY <1>3, SMTT(60)
  <2>2. fn.code[b][k] = r
    BY <1>2, <2>1, NopDoesNothing, ZenonT(30) DEF Shrunk
  <2>3. r.res \in Vars
    BY <1>2, <2>1, <2>2, StatementFacts, ZenonT(30)
  <2> DEFINE cell == <<r.res, r.a1>>
  <2>4. ASSUME NEW q \in Statements(fn'.code), cell \in DirectReads(q) PROVE FALSE
    <3>1. q # Nop
      BY <2>4, NopDoesNothing
    <3>2. PICK bb \in 1 .. fn.n : \E kk \in 1 .. Len(orig[bb]) :
            <<bb, kk>> \notin dead /\ q = fn.code[bb][kk] /\ q = orig[bb][kk]
      <4> HIDE DEF dead
      <4>1. LeftOver(q, dead)
        BY <1>2, <3>1, Left
      <4> QED
        BY <4>1 DEF LeftOver
    <3>3. PICK kk \in 1 .. Len(orig[bb]) : q = fn.code[bb][kk] /\ q = orig[bb][kk]
      BY <3>2, ZenonT(30)
    <3>4. /\ q.op \in {"DOT", "PDOT"} => q.a1 \in Vars
          /\ q.op \in {"DOT_ASSIGN", "DOT_PASSIGN"} => q.res \in Vars
      BY <1>2, <3>3, StatementFacts, ZenonT(30)
    <3>5. cell \notin Vars
      BY <2>1, <2>2, <2>3, NamesAssumption, SMTT(30)
    <3>6. q.op \in {"DOT", "PDOT"} /\ cell \in Members(q.a1, q.a2)
      BY <2>4, <3>4, <3>5 DEF DirectReads, VarArgs
    <3>7. q \in MemberReads(fn.code)
      BY <1>2, <3>3, <3>4, <3>6, Chosen, ZenonT(30) DEF MemberReads
    <3>8. CASE q.a2 \in Offsets
      <4>1. cell = <<q.a1, q.a2>>
        BY <3>6, <3>8 DEF Members
      <4>2. cell \in used
        BY <3>7, <4>1
      <4> QED
        BY <2>1, <2>2, <4>2
    <3>9. CASE q.a2 \notin Offsets
      <4>1. r.res = q.a1
        BY <3>6, <3>9 DEF Members
      <4>2. r.res \in invalidated
        BY <3>7, <3>9, <4>1
      <4> QED
        BY <2>1, <2>2, <4>2
    <3> QED
      BY <3>8, <3>9
  <2>5. cell \notin Reads(fn'.code)
    BY <2>4 DEF Reads
  <2> QED
    BY <1>2, <2>1, <2>2, <2>3, <2>5, ZenonT(30) DEF MayGo
<1> HIDE DEF dead
<1>4. Shrunk'
  BY <1>2, <1>3, PassShrinks, ZenonT(30)
<1> QED
  BY <1>1, <1>4, PassPreserves

-----------------------------------------------------------------------------
(* The execution.                                                          *)

(* What is live before a statement: what is live after it and not          *)
(* overwritten, and whatever the statement reads by name.                  *)
LEMMA LiveAcross ==
  ASSUME Shape, NEW b \in 1 .. fn.n, NEW k \in 1 .. Len(orig[b]),
         before[b] \in (SUBSET Vars) \union {NoLive}
  PROVE  LET q == orig[b][k] IN
         /\ \A v \in LiveAt(b, k) : \/ v = q.res /\ erase_result(q.op)
                                   \/ v \in LiveAt(b, k - 1)
         /\ DirectReads(q) \intersect Vars \subseteq LiveAt(b, k - 1)
<1> DEFINE q == orig[b][k]
           block == orig[b]
           L == LiveAfter(block, before[b])
<1>1. Len(block) \in Nat
  BY ShapeFacts
<1>2. L[k - 1] = TransferStatement(q, L[k])
  <2>1. k - 1 \in 0 .. Len(block) - 1 /\ (k - 1) + 1 = k
    BY <1>1
  <2> QED
    BY <1>1, <2>1, LiveAfterEquation
<1>3. /\ q.op = "NOP" => q = Nop
      /\ q.op \in {"DOT", "PDOT"} => q.a1 \in Vars
      /\ q.op \in {"DOT_ASSIGN", "DOT_PASSIGN"} => q.res \in Vars
  BY StatementFacts
<1>4. LiveAt(b, k) = Alive(L[k]) /\ LiveAt(b, k - 1) = Alive(L[k - 1])
  BY DEF LiveAt
<1> HIDE DEF q, L, block
<1>5. L[k - 1] = IF q.op = "NOP" THEN Alive(L[k])
                 ELSE (IF erase_result(q.op) THEN Alive(L[k]) \ {q.res}
                       ELSE Alive(L[k])) \union Uses(q)
  BY <1>2 DEF TransferStatement, Alive
<1>6. \A v \in Alive(L[k]) : \/ v = q.res /\ erase_result(q.op)
                             \/ v \in L[k - 1]
  BY <1>5
<1>7. DirectReads(q) \intersect Vars \subseteq L[k - 1]
  <2>1. CASE q.op = "NOP"
    BY <1>3, <2>1, NopDoesNothing
  <2>2. CASE q.op # "NOP"
    <3>1. Uses(q) \subseteq L[k - 1]
      BY <1>5, <2>2
    <3>2. DirectReads(q) \intersect Vars \subseteq Uses(q)
      BY <1>3, NamesAssumption DEF DirectReads, Members, Uses, erase_result
    <3> QED
      BY <3>1, <3>2
  <2> QED
    BY <2>1, <2>2
<1>8. Alive(L[k - 1]) = L[k - 1]
  <2>1. k \in 0 .. Len(block) /\ k - 1 \in 0 .. Len(block)
    BY <1>1 DEF block
  <2>2. L[k] \in (SUBSET Vars) \union {NoLive}
    BY <1>1, <2>1, LiveAfterType DEF L
  <2>3. Alive(L[k]) \subseteq Vars
    BY <2>2 DEF Alive
  <2>4. L[k - 1] \in SUBSET Vars
    BY <1>5, <2>3, UsesType
  <2> QED
    BY <2>4, NamesAssumption DEF Alive
<1> QED
  BY <1>4, <1>6, <1>7, <1>8 DEF q

LEMMA NothingLiveAtExit ==
  ASSUME Shape, before[fn.n] = NoLive
  PROVE  LiveAt(fn.n, 0) = {}
<1>1. orig[fn.n] = <<>> /\ Len(<<>>) = 0
  BY ShapeFacts
<1>2. LiveAfter(<<>>, NoLive)[0] = NoLive
  BY <1>1, LiveAfterEquation
<1> QED
  BY <1>1, <1>2 DEF LiveAt, Alive

LEMMA ExecutePreserves == IInv /\ Execute => IInv'
<1> SUFFICES ASSUME IInv, Execute PROVE IInv'
  OBVIOUS
<1> DEFINE b == at[1]
           k == at[2]
           q == orig[b][k]
           r == fn.code[b][k]
<1>1. /\ pc = "run" /\ b \in 1 .. fn.n /\ k \in 1 .. Len(orig[b])
      /\ Len(orig[b]) \in Nat
      /\ at' = IF q.op = "RETURN" THEN <<fn.n, 1>> ELSE <<b, k + 1>>
      /\ UNCHANGED <<fn, before, after, changes, B, i, pc, orig>>
      /\ Shape /\ Shrunk /\ Position /\ Solved
  <2>1. /\ b \in 1 .. fn.n /\ k \in 1 .. Len(orig[b]) + 1 /\ k <= Len(orig[b])
        /\ Len(orig[b]) \in Nat /\ pc = "run" /\ Shape
    BY ShapeFacts DEF IInv, Position, Execute, InBlock, Running
  <2>2. at' = IF q.op = "RETURN" THEN <<fn.n, 1>> ELSE <<b, k + 1>>
    BY DEF Execute, Current
  <2>3. UNCHANGED <<fn, before, after, changes, B, i, pc, orig>>
    BY DEF Execute, solver
  <2> QED
    BY <2>1, <2>2, <2>3 DEF IInv
<1>2. /\ old' = [c \in Cells |-> IF c \in Writes(q) THEN time + 1 ELSE old[c]]
      /\ new' = [c \in Cells |-> IF c \in Writes(r) THEN time + 1 ELSE new[c]]
      /\ points' = IF q.op = "PASSIGN" /\ q.a1 \in Vars
                     THEN [points EXCEPT ![q.res] = q.a1] ELSE points
  BY DEF Execute, Wrote, Current
<1>3. /\ \/ r = q
         \/ r = Nop /\ MayGo(b, k)
      /\ before[b] \in (SUBSET Vars) \union {NoLive}
      /\ before[fn.n] = NoLive
  <2>1. b = fn.n \/ b \in 1 .. fn.n - 1
    BY <1>1, ShapeFacts
  <2> QED
    BY <1>1, <2>1 DEF Shrunk, Solved
<1>4. /\ q.op = "PASSIGN" /\ q.a1 \in Vars => q.res \in Pointers
      /\ q.op \in {"DOT_ASSIGN", "DOT_PASSIGN"} => q.res \in Vars
  BY <1>1, StatementFacts
<1>5. \A v \in LiveAt(b, k) : \/ v = q.res /\ erase_result(q.op)
                              \/ v \in LiveAt(b, k - 1)
  BY <1>1, <1>3, LiveAcross
<1>6. Position'
  <2>1. at'[1] \in 1 .. fn.n /\ at'[2] \in 1 .. Len(orig[at'[1]]) + 1
    <3>1. fn.n \in 1 .. fn.n /\ orig[fn.n] = <<>>
      BY <1>1, ShapeFacts
    <3>2. 1 \in 1 .. Len(orig[fn.n]) + 1
      BY <3>1
    <3>3. k + 1 \in 1 .. Len(orig[b]) + 1
      BY <1>1
    <3> QED
      BY <1>1, <3>1, <3>2, <3>3
  <2>2. DOMAIN points' = Vars /\ \A v \in Vars : points'[v] # None => v \in Pointers
    BY <1>1, <1>2, <1>4, SMTT(30) DEF Position
  <2> HIDE DEF b, k, q, r
  <2> QED
    BY <1>1, <1>2, <2>1, <2>2 DEF Position, Cells
<1>7. ASSUME NEW c \in Cells, Needed(c)' PROVE old'[c] = new'[c]
  <2>1. c \in Reads(fn.code) /\ (c \in Vars => c \in LiveAt(at'[1], at'[2] - 1))
    BY <1>1, <1>7 DEF Needed, LiveAt
  <2>2. c \in Vars => c \in LiveAt(b, k) /\ at'[1] = b /\ at'[2] - 1 = k
    <3>1. CASE q.op = "RETURN"
      <4>1. LiveAt(fn.n, 0) = {}
        BY <1>1, <1>3, NothingLiveAtExit
      <4>2. at'[1] = fn.n /\ at'[2] - 1 = 0
        BY <1>1, <3>1
      <4> QED
        BY <2>1, <4>1, <4>2
    <3>2. CASE q.op # "RETURN"
      <4>1. at'[1] = b /\ at'[2] - 1 = k
        BY <1>1, <3>2
      <4> QED
        BY <2>1, <4>1
    <3> QED
      BY <3>1, <3>2
  <2>3. c \notin Writes(q) => old[c] = new[c]
    <3> SUFFICES ASSUME c \notin Writes(q) PROVE Needed(c)
      BY DEF IInv, Agreement
    <3>1. ASSUME c \in Vars PROVE c \in LiveAt(b, k - 1)
      <4>1. c = q.res => ~erase_result(q.op)
        BY DEF Writes, erase_result
      <4> QED
        BY <1>5, <2>2, <3>1, <4>1, SMTT(30)
    <3> QED
      BY <2>1, <3>1 DEF Needed
  <2>4. CASE r = q
    BY <1>2, <2>3, <2>4
  <2>5. CASE r = Nop /\ MayGo(b, k)
    <3>1. c \notin Writes(r)
      BY <2>5, NopDoesNothing
    <3>2. c \notin Writes(q)
      <4>1. CASE Erases(q)
        <5>1. q.res \notin LiveAt(b, k) \/ q.res \notin Reads(fn.code)
          BY <2>5, <4>1, SMTT(60) DEF MayGo, Erases, erase_result
        <5>2. Writes(q) = {q.res} /\ q.res # None
          BY <4>1 DEF Writes, Erases, erase_result
        <5>3. q.res \in Vars
          BY <1>1, <5>2, ShapeFacts
        <5> QED
          BY <2>1, <2>2, <5>1, <5>2, <5>3
      <4>2. CASE ~Erases(q)
        <5>1. /\ q.op \in {"DOT_ASSIGN", "DOT_PASSIGN"}
              /\ q.res \in Vars \ Pointers /\ q.a1 \in Offsets
              /\ <<q.res, q.a1>> \notin Reads(fn.code)
          BY <2>5, <4>2, SMTT(30) DEF MayGo
        <5>2. Writes(q) = {<<q.res, q.a1>>}
          BY <1>1, <5>1 DEF Writes, Members, IsPointer, Position
        <5> QED
          BY <2>1, <5>1, <5>2
      <4> QED
        BY <4>1, <4>2
    <3> QED
      BY <1>2, <2>3, <3>1, <3>2
  <2> QED
    BY <1>3, <2>4, <2>5
<1>8. Shape' /\ Shrunk' /\ Solved' /\ Analysing'
  BY <1>1, SMTT(30) DEF Shape, Shrunk, Solved, Analysing, MayGo, LiveAt, Live!Deps
<1> QED
  BY <1>1, <1>6, <1>7, <1>8 DEF IInv, Agreement, Cells

LEMMA JumpPreserves == IInv /\ Jump => IInv'
<1> SUFFICES ASSUME IInv, Jump PROVE IInv'
  OBVIOUS
<1> DEFINE b == at[1]
           n == Len(orig[b])
<1>1. /\ pc = "run" /\ Shape /\ Shrunk /\ Position /\ Solved
      /\ UNCHANGED <<fn, before, after, changes, B, i, pc, orig, old, new, points>>
  BY DEF Jump, Running, IInv, solver
<1>2. PICK s \in Live!Deps(b) : at' = <<s, 1>>
  BY DEF Jump
<1>3. /\ b \in 1 .. fn.n - 1 /\ s \in 1 .. fn.n /\ n \in Nat /\ at[2] = n + 1
      /\ Len(orig[s]) \in Nat
  <2>1. b \in 1 .. fn.n /\ n \in Nat /\ at[2] \in 1 .. n + 1 /\ ~(at[2] <= n)
    BY <1>1, ShapeFacts DEF Jump, InBlock, Position
  <2> DEFINE S == 1 .. fn.n
  <2>2. fn.deps \in [S -> Seq(S)] /\ (Len(fn.deps[b]) = 0 <=> b = fn.n) /\ fn.n \in Nat
    BY <1>1, <2>1, ShapeFacts
  <2> HIDE DEF S
  <2>3. fn.deps[b] \in Seq(S)
    BY <2>1, <2>2 DEF S
  <2>4. \A j \in 1 .. Len(fn.deps[b]) : fn.deps[b][j] \in S
    BY <2>3
  <2>5. s \in S /\ Len(fn.deps[b]) # 0
    BY <1>2, <2>3, <2>4 DEF Live!Deps
  <2>6. b # fn.n
    BY <2>2, <2>5
  <2>7. s \in 1 .. fn.n
    BY <2>5 DEF S
  <2>8. Len(orig[s]) \in Nat
    BY <1>1, <2>7, ShapeFacts
  <2> QED
    BY <2>1, <2>2, <2>6, <2>7, <2>8
<1>4. before[b] \in SUBSET Vars /\ before[b] # NoLive /\ after[s] \subseteq before[b]
  BY <1>1, <1>2, <1>3, NamesAssumption DEF Solved
<1>5. LiveAt(b, n) = before[b]
  BY <1>3, <1>4, LiveAfterEquation DEF LiveAt, Alive
<1>6. LiveAt(s, 0) \subseteq before[b]
  <2>1. CASE s = fn.n
    BY <1>1, <2>1, NothingLiveAtExit DEF Solved
  <2>2. CASE s # fn.n
    <3>1. s \in 1 .. fn.n - 1
      BY <1>1, <1>3, <2>2, ShapeFacts
    <3>2. /\ before[s] \in SUBSET Vars
          /\ after[s] = (before[s] \ Def(orig[s])) \union Use(orig[s])
                          \union escape_analysis(orig)
      BY <1>1, <3>1 DEF Solved
    <3>3. LiveAt(s, 0) \subseteq (Alive(before[s]) \ Def(orig[s])) \union Use(orig[s])
      BY <1>1, <1>3, LiveAtStart, ShapeFacts DEF LiveAt
    <3>4. Alive(before[s]) = before[s]
      BY <3>2, NamesAssumption DEF Alive
    <3> QED
      BY <1>4, <3>2, <3>3, <3>4
  <2> QED
    BY <2>1, <2>2
<1>7. Position'
  <2>1. at'[1] \in 1 .. fn.n /\ at'[2] \in 1 .. Len(orig[at'[1]]) + 1
    BY <1>2, <1>3
  <2> QED
    BY <1>1, <2>1 DEF Position, Cells
<1>8. ASSUME NEW c \in Cells, Needed(c)' PROVE old'[c] = new'[c]
  <2>1. c \in Reads(fn.code) /\ (c \in Vars => c \in LiveAt(s, 0))
    <3>1. at'[1] = s /\ at'[2] - 1 = 0
      BY <1>2
    <3> QED
      BY <1>1, <1>8, <3>1 DEF Needed, LiveAt
  <2>2. at[2] - 1 = n
    BY <1>3
  <2>3. Needed(c)
    BY <1>5, <1>6, <2>1, <2>2 DEF Needed
  <2> QED
    BY <1>1, <2>3 DEF IInv, Agreement
<1>9. Shape' /\ Shrunk' /\ Solved' /\ Analysing'
  BY <1>1 DEF Shape, Shrunk, Solved, Analysing, MayGo, LiveAt, Live!Deps
<1> QED
  BY <1>1, <1>7, <1>8, <1>9 DEF IInv, Agreement, Cells

LEMMA NextPreserves == IInv /\ [Next]_vars => IInv'
<1>1. IInv /\ UNCHANGED vars => IInv'
  <2> SUFFICES ASSUME IInv, UNCHANGED vars PROVE IInv'
    OBVIOUS
  <2>1. UNCHANGED <<fn, before, after, changes, B, i, pc, orig, at, time, old,
                    new, points>>
    BY DEF vars
  <2>2. Solver!IInv' <=> Solver!IInv
    BY <2>1 DEF Solver!IInv, Solver!TypeOK, Solver!Clean, Solver!UpTo, Solver!Blocks
  <2>3. Solver!Settled' <=> Solver!Settled
    BY <2>1 DEF Solver!Settled
  <2>4. Shape' /\ Analysing' /\ Solved'
    BY <2>1, <2>2, <2>3 DEF IInv, Shape, Analysing, Solved, Live!Deps
  <2>5. Shrunk'
    <3>1. \A b, k : MayGo(b, k)' <=> MayGo(b, k)
      BY <2>1 DEF MayGo, LiveAt
    <3> QED
      BY <2>1, <3>1 DEF IInv, Shrunk
  <2>6. Position' /\ Agreement'
    BY <2>1 DEF IInv, Position, Agreement, Needed, LiveAt, Cells
  <2> QED
    BY <2>1, <2>4, <2>5, <2>6 DEF IInv
<1> QED
  BY <1>1, AnalysePreserves, RemoveDeadPreserves, RemoveSelfContributorsPreserves,
     RemoveUnreadMembersPreserves, ExecutePreserves, JumpPreserves DEF Next

(* Through the analysis, the three passes and the execution of both codes. *)
THEOREM Invariance == Spec => []IInv
  BY Initially, NextPreserves, PTL DEF Spec

(* Whatever a kept statement reads by name was written by the same         *)
(* statement execution as in the original code.                            *)
LEMMA ReadsAgree == IInv => DirectReadsSame
<1> SUFFICES ASSUME IInv, Running, InBlock,
                    NEW c \in DirectReads(Current(fn.code))
             PROVE  old[c] = new[c]
  BY DEF DirectReadsSame, Same
<1> DEFINE b == at[1]
           k == at[2]
           q == fn.code[b][k]
<1>1. /\ pc = "run" /\ Shape /\ Shrunk /\ Position /\ Solved
      /\ b \in 1 .. fn.n /\ k \in 1 .. Len(orig[b])
  <2>1. /\ b \in 1 .. fn.n /\ k \in 1 .. Len(orig[b]) + 1 /\ k <= Len(orig[b])
        /\ Len(orig[b]) \in Nat
    BY ShapeFacts DEF IInv, Position, InBlock
  <2> QED
    BY <2>1 DEF IInv, Running
<1>2. c \in DirectReads(q)
  BY DEF Current
<1>3. q = orig[b][k]
  BY <1>1, <1>2, NopDoesNothing DEF Shrunk
<1>4. c \in Reads(fn.code)
  BY <1>1, <1>2, StatementsOf DEF Reads
<1>5. before[b] \in (SUBSET Vars) \union {NoLive}
  <2>1. b = fn.n \/ b \in 1 .. fn.n - 1
    BY <1>1, ShapeFacts
  <2> QED
    BY <1>1, <2>1 DEF Solved
<1>6. c \in Vars => c \in LiveAt(b, k - 1)
  BY <1>1, <1>2, <1>3, <1>5, LiveAcross
<1>7. c \in Cells
  <2>1. /\ q.op \in {"DOT", "PDOT"} => q.a1 \in Vars
        /\ q.op \in {"DOT_ASSIGN", "DOT_PASSIGN"} => q.res \in Vars
    BY <1>1, <1>3, StatementFacts
  <2> HIDE DEF q
  <2> QED
    BY <1>2, <2>1 DEF DirectReads, VarArgs, Members, Cells
<1> QED
  BY <1>4, <1>6, <1>7 DEF IInv, Agreement, Needed

(* Dead code elimination removes no store that a statement it keeps reads  *)
(* by name, on any path through any function.                              *)
THEOREM StoresKept == Spec => []DirectReadsSame
  BY Invariance, ReadsAgree, PTL

-----------------------------------------------------------------------------
(* The blocks at whose start a variable is live are closed under the steps *)
(* that lead backwards to its reads, and so hold all that have one.        *)
LEMMA LiveIsClosed ==
  ASSUME IInv, pc = "solved", NEW v \in Vars, NEW b \in 1 .. fn.n,
         \/ v \in ReadsFirst(b)
         \/ /\ ~Overwrites(b, v)
            /\ \E d \in Live!Deps(b) : d \in 1 .. fn.n /\ v \in after[d]
  PROVE  v \in after[b]
<1>1. Shape /\ Solved
  BY DEF IInv
<1>2. b # fn.n /\ b \in 1 .. fn.n - 1 /\ DOMAIN orig[b] = 1 .. Len(orig[b])
  <2>1. ASSUME b = fn.n PROVE FALSE
    <3>1. orig[b] = <<>> /\ Len(fn.deps[b]) = 0
      BY <1>1, <2>1, ShapeFacts
    <3>2. Live!Deps(b) = {} /\ DOMAIN orig[b] = {}
      BY <3>1 DEF Live!Deps
    <3> QED
      BY <3>2 DEF ReadsFirst
  <2> QED
    BY <1>1, <2>1, ShapeFacts
<1>3. /\ \A d \in Live!Deps(b) : after[d] \subseteq before[b]
      /\ after[b] = (before[b] \ Def(orig[b])) \union Use(orig[b])
                      \union escape_analysis(orig)
  BY <1>1, <1>2 DEF Solved
<1>4. CASE v \in ReadsFirst(b)
  BY <1>3, <1>4 DEF ReadsFirst, Use, Uses
<1>5. CASE /\ ~Overwrites(b, v)
           /\ \E d \in Live!Deps(b) : d \in 1 .. fn.n /\ v \in after[d]
  <2>1. v \notin Def(orig[b])
    BY <1>5 DEF Overwrites, Def
  <2> QED
    BY <1>3, <1>5, <2>1
<1> QED
  BY <1>4, <1>5

LEMMA LiveCovers == IInv => LiveCoversPaths
<1> SUFFICES ASSUME IInv, pc = "solved", NEW v \in Vars, NEW b \in 1 .. fn.n,
                    Live!Deps(b) \intersect ReadLater(v) # {}
             PROVE  v \in before[b]
  BY DEF LiveCoversPaths, Live!Blocks
<1> DEFINE S == {d \in 1 .. fn.n : v \in after[d]}
<1>1. ASSUME NEW d \in 1 .. fn.n,
             \/ v \in ReadsFirst(d)
             \/ ~Overwrites(d, v) /\ Live!Deps(d) \intersect S # {}
      PROVE  d \in S
  BY <1>1, LiveIsClosed
<1>2. S \in SUBSET (1 .. fn.n)
  OBVIOUS
<1>3. ReadLater(v) \subseteq S
  <2> HIDE DEF S
  <2> QED
    BY <1>1, <1>2 DEF ReadLater, Live!Blocks
<1>4. PICK d \in Live!Deps(b) : v \in after[d]
  BY <1>3
<1>5. b \in 1 .. fn.n - 1
  <2>1. ASSUME b = fn.n PROVE FALSE
    <3>1. Len(fn.deps[b]) = 0
      BY <2>1, ShapeFacts DEF IInv
    <3> QED
      BY <1>4, <3>1 DEF Live!Deps
  <2> QED
    BY <2>1, ShapeFacts DEF IInv
<1> QED
  BY <1>4, <1>5 DEF IInv, Solved

(* The solved analysis has every variable that a path reads before it is   *)
(* overwritten.                                                            *)
THEOREM PathsCovered == Spec => []LiveCoversPaths
  BY Invariance, LiveCovers, PTL
=============================================================================
