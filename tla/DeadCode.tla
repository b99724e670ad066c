------------------------------ MODULE DeadCode ------------------------------
(***************************************************************************)
(* Dead code elimination of one function (mtac/DeadCodeElimination.cpp):   *)
(* the live-variable analysis is solved, then three passes turn statements *)
(* into NOPs.  After it the old and the new code are executed side by      *)
(* side, along every path, to see what a kept statement reads in each.     *)
(*                                                                         *)
(* The execution records for every variable and member when it was last    *)
(* written; a statement that reads cells written at the same time in both  *)
(* codes computes the same, and pointers then point to the same variable.  *)
(***************************************************************************)
EXTENDS Liveness

CONSTANTS
  Programs,   \* functions: [n, source, deps, code, ...], EXIT is block n
  Globals,    \* variables that other functions see
  Pointers,   \* variables of pointer or array type
  PointerMembers, \* <<v, offset>>: members of pointer type
  MaxSteps    \* bound of an execution

(* Variables, their members and what is none of both are told apart.       *)
ASSUME NamesAssumption ==
  /\ None \notin Vars /\ Pointers \subseteq Vars
  /\ Vars \intersect (Vars \X Offsets) = {}
  /\ \A S \in SUBSET Vars : S # NoLive

(* EXIT is empty, and the only block that control does not leave.          *)
ASSUME FunctionsAssumption ==
  \A f \in Programs :
    /\ f \in [n : Nat \ {0}, source : Nat, deps : [1 .. f.n -> Seq(1 .. f.n)],
              code : [1 .. f.n ->
                        Seq([op : STRING, res : Vars \union {None},
                             a1 : Vars \union Offsets \union {None, Imm},
                             a2 : Vars \union Offsets \union {None, Imm}])]]
    /\ f.source = f.n /\ f.code[f.n] = <<>>
    /\ \A b \in 1 .. f.n : Len(f.deps[b]) = 0 <=> b = f.n

(* A NOP has no arguments, members belong to variables, and a variable     *)
(* that is assigned an address is of pointer type.                         *)
ASSUME StatementsAssumption ==
  \A f \in Programs : \A q \in Statements(f.code) :
    /\ q.op = "NOP" => q = Nop
    /\ q.op \in {"DOT", "PDOT"} => q.a1 \in Vars
    /\ q.op \in {"DOT_ASSIGN", "DOT_PASSIGN"} => q.res \in Vars
    /\ q.op = "PASSIGN" /\ q.a1 \in Vars => q.res \in Pointers

VARIABLES fn, before, after, changes, B, i, pc,  \* as in DataFlow
  orig,     \* the code before the passes
  at,       \* execution: <<block, statement>>
  time,     \* execution: number of the step
  old, new, \* execution: when a cell was last written in each code
  points    \* execution: the variable a pointer points to

solver == <<before, after, changes, B, i>>
run == <<at, time, old, new, points>>
vars == <<fn, before, after, changes, B, i, pc, orig, at, time, old, new,
          points>>

Live == INSTANCE DataFlow WITH
  Functions <- Programs, Domain <- SUBSET Vars, Top <- NoLive,
  Transfer <- TransferBlock, Boundary <- NothingLive,
  InitValue <- NothingLive

Cells == Vars \union (Vars \X Offsets)

Init ==
  /\ Live!Init
  /\ orig = fn.code
  /\ at = <<1, 1>> /\ time = 0
  /\ old = [c \in Cells |-> 0] /\ new = [c \in Cells |-> 0]
  /\ points = [v \in Vars |-> None]

(* The analysis of the unchanged code.                                     *)
Analyse == Live!Next /\ UNCHANGED <<orig, run>>

-----------------------------------------------------------------------------
(* The passes.                                                             *)

Positions(code) == UNION {{b} \X DOMAIN code[b] : b \in DOMAIN code}

(* The code with the statements at the positions of S turned into NOPs.    *)
Without(code, S) ==
  [b \in DOMAIN code |->
     [k \in DOMAIN code[b] |-> IF <<b, k>> \in S THEN Nop ELSE code[b][k]]]

(* Live variables after every statement of a block, from OUT backwards.    *)
LiveAfter(block, out) ==
  LET live[k \in 0 .. Len(block)] ==
        IF k = Len(block) THEN out
        ELSE TransferStatement(block[k + 1], live[k + 1])
  IN  live

Pass(from, to, dead) ==
  /\ pc = from
  /\ fn' = [fn EXCEPT !.code = Without(fn.code, dead)]
  /\ pc' = to
  /\ UNCHANGED <<solver, orig, run>>

(* 1. Statements whose result is not live after them.                      *)
RemoveDead ==
  LET Unused(b, k) ==
        LET live == LiveAfter(fn.code[b], before[b])[k]
        IN  live = NoLive \/ fn.code[b][k].res \notin live
  IN  Pass("solved", "selfish",
        {x \in Positions(fn.code) :
           Erases(fn.code[x[1]][x[2]]) /\ Unused(x[1], x[2])})

(* 2. Variables that contribute only to themselves.  (Faulty variant:      *)
(* only statements without an overwritten result disqualify a variable.)   *)
SelfContributorsAnyResult(code) ==
  LET S == Statements(code)
  IN  {q.res : q \in {r \in S : Erases(r) /\ r.res \in {r.a1, r.a2}}}
        \ UNION {VarArgs(q) \union {q.res} : q \in {r \in S : ~Erases(r)}}

SelfContributors(code) ==
  LET S == Statements(code)
      Excluded(q) == IF Erases(q) THEN VarArgs(q) \ {q.res}
                                  ELSE VarArgs(q) \union {q.res}
  IN  {q.res : q \in {r \in S : Erases(r) /\ r.res \in {r.a1, r.a2}}}
        \ UNION {Excluded(q) : q \in S}

RemoveSelfContributors ==
  Pass("selfish", "offsets",
    {x \in Positions(fn.code) :
       LET q == fn.code[x[1]][x[2]]
       IN  Erases(q) /\ q.res \in SelfContributors(fn.code)})

(* 3. Stores to members that no statement of the function reads.           *)
MemberReads(code) ==
  {q \in Statements(code) : q.op \in {"DOT", "PDOT"} /\ q.a1 \in Vars}

RemoveUnreadMembers ==
  LET used == {<<q.a1, q.a2>> : q \in MemberReads(fn.code)}
      invalidated == {q.a1 : q \in {r \in MemberReads(fn.code) :
                                      r.a2 \notin Offsets}}
  IN  Pass("offsets", "run",
        {x \in Positions(fn.code) :
           LET q == fn.code[x[1]][x[2]] IN
             /\ q.op \in {"DOT_ASSIGN", "DOT_PASSIGN"}
             /\ q.res \notin invalidated \union Pointers
             /\ q.a1 \in Offsets /\ <<q.res, q.a1>> \notin PointerMembers
             /\ q.res \notin escape_analysis(orig)
             /\ <<q.res, q.a1>> \notin used})

-----------------------------------------------------------------------------
(* Execution of both codes along one path.                                 *)

IsPointer(v) == v \in Vars /\ points[v] # None

Members(v, off) ==
  IF off \in Offsets THEN {<<v, off>>} ELSE {v} \X Offsets

(* The cells a statement names itself.                                     *)
DirectReads(q) ==
  VarArgs(q)
  \union (IF q.op \in {"DOT", "PDOT"} /\ q.a1 \notin Pointers
            THEN Members(q.a1, q.a2) ELSE {})
  \union (IF q.op \in {"DOT_ASSIGN", "DOT_PASSIGN"} /\ q.res \in Pointers
            THEN {q.res} ELSE {})

Writes(q) ==
  CASE q.op = "CALL" -> {q.res} \union Globals
    [] q.op \in {"DOT_ASSIGN", "DOT_PASSIGN"} ->
         IF IsPointer(q.res) THEN {points[q.res]} ELSE Members(q.res, q.a1)
    [] OTHER -> IF erase_result(q.op) THEN {q.res} ELSE {}

Wrote(cells, q) ==
  [c \in Cells |-> IF c \in Writes(q) THEN time + 1 ELSE cells[c]]

Running == pc = "run" /\ time < MaxSteps
InBlock == at[2] <= Len(orig[at[1]])
Current(code) == code[at[1]][at[2]]

Execute ==
  /\ Running /\ InBlock
  /\ LET q == Current(orig)  IN
       /\ old' = Wrote(old, q)
       /\ new' = Wrote(new, Current(fn.code))
       /\ points' = IF q.op = "PASSIGN" /\ q.a1 \in Vars
                      THEN [points EXCEPT ![q.res] = q.a1] ELSE points
       /\ at' = IF q.op = "RETURN" THEN <<fn.n, 1>> ELSE <<at[1], at[2] + 1>>
  /\ time' = time + 1
  /\ UNCHANGED <<fn, solver, pc, orig>>

(* Take any edge out of the block.                                         *)
Jump ==
  /\ Running /\ ~InBlock
  /\ \E s \in Live!Deps(at[1]) : at' = <<s, 1>>
  /\ UNCHANGED <<fn, solver, pc, orig, time, old, new, points>>

Next == Analyse \/ RemoveDead \/ RemoveSelfContributors
        \/ RemoveUnreadMembers \/ Execute \/ Jump

Spec == Init /\ [][Next]_vars

-----------------------------------------------------------------------------

Same(cells) == \A c \in cells : old[c] = new[c]

(* Whatever a kept statement reads by name was written by the same         *)
(* statement execution as in the original code, on every path: none of the *)
(* three passes removed a store that such a read sees.                     *)
DirectReadsSame ==
  Running /\ InBlock => Same(DirectReads(Current(fn.code)))

(* The analysis is sound: a variable that some path from the end of the    *)
(* block reads before overwriting it is in the block's OUT.                *)
ReadsFirst(b) ==
  {v \in Vars : \E k \in DOMAIN orig[b] :
     /\ v \in VarArgs(orig[b][k])
     /\ \A j \in 1 .. k - 1 : ~(Erases(orig[b][j]) /\ orig[b][j].res = v)}

Overwrites(b, v) == \E k \in DOMAIN orig[b] :
                      Erases(orig[b][k]) /\ orig[b][k].res = v

(* Blocks from whose start v may be read before it is overwritten: the     *)
(* least set that holds the readers and is closed under going backwards    *)
(* over blocks that do not overwrite v.                                    *)
ReadLater(v) ==
  LET Closed(S) == \A b \in Live!Blocks :
                     \/ v \in ReadsFirst(b)
                     \/ ~Overwrites(b, v) /\ Live!Deps(b) \intersect S # {}
                     => b \in S
  IN  {b \in Live!Blocks : \A S \in SUBSET Live!Blocks : Closed(S) => b \in S}

LiveCoversPaths ==
  pc = "solved" =>
    \A v \in Vars : LET later == ReadLater(v) IN
      \A b \in Live!Blocks :
        Live!Deps(b) \intersect later # {} => v \in before[b]
=============================================================================
