----------------------------- MODULE ControlFlow ----------------------------
(***************************************************************************)
(* The basic blocks of one function: how they are cut out of its list of   *)
(* quadruples (mtac/BasicBlockExtractor.cpp), the edges between them       *)
(* (mtac/ControlFlowGraph.cpp), and the passes that clean them up: the     *)
(* constant branches (BranchOptimizations.cpp), the dead blocks            *)
(* (remove_dead_basic_blocks.cpp) and the merging of neighbours            *)
(* (merge_basic_blocks.cpp), which the optimizer runs round after round    *)
(* for as long as one of its passes changes something.                     *)
(*                                                                         *)
(* The other passes of a round are what gives this one work: they find the *)
(* value of a condition, or make an assignment a NOP.                      *)
(***************************************************************************)
EXTENDS Integers, Sequences, FiniteSets, SequencesExt

CONSTANTS
  Programs,    \* lists of quadruples: [op, id, target], ids are positions
  TrivialJumps \* can a condition be decided whose jump leads to the next block?

ENTRY == -1
EXIT == -2
None == 0

Jumps == {"if", "if_false", "goto"}

(* CALLs: of a function that may do anything, of one that the pure         *)
(* analysis found pure (user code), of one known as safe (standard).       *)
Operators == Jumps \union {"label", "call", "pure", "safe", "op", "return"}

ASSUME TrivialJumpsAssumption == TrivialJumps \in BOOLEAN

(* In the list of a function every jump has its label, once.               *)
Leads(p, i, j) ==
  p[i].op \in Jumps /\ p[j].op = "label" /\ p[i].target = p[j].target

ASSUME ProgramsAssumption ==
  \A p \in Programs :
    /\ p \in Seq([op : Operators, id : Nat, target : Nat])
    /\ \A i \in 1 .. Len(p) : p[i].id = i
    /\ \A i \in 1 .. Len(p) :
         p[i].op \in Jumps => \E j \in 1 .. Len(p) : Leads(p, i, j)
    /\ \A i, j \in 1 .. Len(p) :
         p[i].op = "label" /\ p[j].op = "label" /\ p[i].target = p[j].target
           => i = j

(* The compiler makes structured code: where a jump leads back, no jump    *)
(* leads from before that loop into it, other than to its start.           *)
ASSUME LoopsAssumption ==
  \A p \in Programs : \A i, head, j, into \in 1 .. Len(p) :
    /\ Leads(p, i, head) /\ head < i
    /\ Leads(p, j, into) /\ j < head
    => ~(head < into /\ into < i)

VARIABLES
  program,   \* the list that the function was made of
  facts,     \* what is known of each quadruple: "var", or "zero", "one" (conditions), "gone"
  layout,    \* the blocks, in their order
  code,      \* the quadruples of each block: [op, id, target]
  edges,     \* how many times a block is among the successors of another
  usage,     \* blocks that some quadruple has pointed to (merge)
  it,        \* iterator of the merge: an index of layout
  merged,    \* the merge changed something
  optimized, \* some pass of the round did
  pc         \* simplify, branches, dead, start merge, merge, done

vars == <<program, facts, layout, code, edges, usage, it, merged, optimized, pc>>

-----------------------------------------------------------------------------
(* Basic blocks.                                                           *)

Labels(p) == [i \in {j \in 1 .. Len(p) : p[j].op = "label"} |-> p[i].target]

(* A label starts a block, a CALL does unless it is of a safe function     *)
(* (what is pure is not known yet), and so does what follows a jump or a   *)
(* RETURN.  (acc.leader: the next quadruple starts a block.)               *)
Separate(acc, q) ==
  LET append == IF q.op \in {"call", "pure"} \/ acc.leader
                THEN Append(acc.blocks, <<q>>)
                ELSE [acc.blocks EXCEPT ![Len(acc.blocks)] = Append(@, q)]
  IN  IF q.op = "label"
      THEN [blocks |-> Append(acc.blocks, <<>>), leader |-> FALSE,
            labels |-> Append(acc.labels, <<q.target, Len(acc.blocks) + 1>>)]
      ELSE [acc EXCEPT !.blocks = append,
                       !.leader = q.op \in Jumps \union {"return"}]

Separated(p) ==
  LET acc[i \in 0 .. Len(p)] ==
        IF i = 0 THEN [blocks |-> <<>>, leader |-> TRUE, labels |-> <<>>]
        ELSE Separate(acc[i - 1], p[i])
  IN  acc

(* Jumps then point to blocks.                                             *)
extract(p) ==
  LET acc == Separated(p)[Len(p)]
      block(label) == CHOOSE b \in 1 .. Len(acc.blocks) : <<label, b>> \in ToSet(acc.labels)
      resolve(q) == IF q.op \in Jumps THEN [q EXCEPT !.target = block(q.target)] ELSE q
  IN  [b \in 1 .. Len(acc.blocks) |->
         [i \in DOMAIN acc.blocks[b] |-> resolve(acc.blocks[b][i])]]

Ids == DOMAIN edges
Position(lay, b) == CHOOSE k \in 1 .. Len(lay) : lay[k] = b
NextOf(lay, b) == lay[Position(lay, b) + 1]
PrevOf(lay, b) == lay[Position(lay, b) - 1]

(* Where control goes to from a block, by its last quadruple.              *)
Targets(block, next) ==
  IF block = <<>> THEN <<next>>
  ELSE CASE Last(block).op = "goto" -> <<Last(block).target>>
         [] Last(block).op \in {"if", "if_false"} -> <<Last(block).target, next>>
         [] OTHER -> <<next>>

build_control_flow_graph(blocks) ==
  LET n == Len(blocks)
      all == (1 .. n) \union {ENTRY, EXIT}
      next(b) == IF b = n \/ (n = 0 /\ b = ENTRY) THEN EXIT
                 ELSE IF b = ENTRY THEN 1 ELSE b + 1
      targets(b) == CASE b = EXIT -> <<>> [] b = ENTRY -> <<next(b)>>
                      [] OTHER -> Targets(blocks[b], next(b))
  IN  [a \in all |-> [b \in all |-> Cardinality({i \in DOMAIN targets(a) : targets(a)[i] = b})]]

Init ==
  /\ program \in Programs
  /\ facts = [i \in 1 .. Len(program) |-> "var"]
  /\ LET blocks == extract(program) IN
       /\ layout = <<ENTRY>> \o [b \in 1 .. Len(blocks) |-> b] \o <<EXIT>>
       /\ code = blocks
       /\ edges = build_control_flow_graph(blocks)
  /\ usage = {} /\ it = 1 /\ merged = FALSE /\ optimized = FALSE
  /\ pc = "simplify"

Next_(b) == NextOf(layout, b)
Statements(b) == IF b > 0 THEN code[b] ELSE <<>>
Live == ToSet(layout)

-----------------------------------------------------------------------------
(* The other passes.                                                       *)

Nop(id) == [op |-> "nop", id |-> id, target |-> None]

(* The value of a condition is found.                                      *)
Decide ==
  /\ pc = "simplify"
  /\ \E b \in Live : \E i \in DOMAIN Statements(b) : \E value \in {"zero", "one"} :
       LET q == code[b][i] IN
       /\ q.op \in {"if", "if_false"} /\ facts[q.id] = "var"
       /\ TrivialJumps \/ q.target # Next_(b)
       /\ facts' = [facts EXCEPT ![q.id] = value]
  /\ optimized' = TRUE
  /\ UNCHANGED <<program, layout, code, edges, usage, it, merged, pc>>

(* An assignment is not needed.                                            *)
Eliminate ==
  /\ pc = "simplify"
  /\ \E b \in Live : \E i \in DOMAIN Statements(b) :
       LET q == code[b][i] IN
       /\ q.op = "op"
       /\ facts' = [facts EXCEPT ![q.id] = "gone"]
       /\ code' = [code EXCEPT ![b][i] = Nop(q.id)]
  /\ optimized' = TRUE
  /\ UNCHANGED <<program, layout, edges, usage, it, merged, pc>>

StartBranches ==
  /\ pc = "simplify"
  /\ pc' = "branches"
  /\ UNCHANGED <<program, facts, layout, code, edges, usage, it, merged, optimized>>

-----------------------------------------------------------------------------
(* optimize_branches, one branch at a time.                                *)

(* Every edge from a to b goes.                                            *)
remove_edge(a, b) == [edges EXCEPT ![a][b] = 0]

Constant(b) ==
  {i \in DOMAIN Statements(b) :
     /\ code[b][i].op \in {"if", "if_false"}
     /\ facts[code[b][i].id] \in {"zero", "one"}}

(* Does the jump with a known value take place?                            *)
Taken(q, value) == (q.op = "if") = (value = "one")

Constants == {b \in Live : Constant(b) # {}}

(* It becomes a GOTO, and the block does not fall through any more, or a   *)
(* NOP, and the block does not jump.                                       *)
OptimizeBranches ==
  /\ pc = "branches"
  /\ \E b \in Constants : \E i \in Constant(b) :
       LET q == code[b][i] IN
       /\ \A a \in Constants : Position(layout, b) <= Position(layout, a)
       /\ IF Taken(q, facts[q.id])
          THEN /\ code' = [code EXCEPT ![b][i].op = "goto"]
               /\ edges' = remove_edge(b, Next_(b))
          ELSE /\ code' = [code EXCEPT ![b][i] = Nop(q.id)]
               /\ edges' = remove_edge(b, q.target)
  /\ optimized' = TRUE
  /\ UNCHANGED <<program, facts, layout, usage, it, merged, pc>>

StartDead ==
  /\ pc = "branches" /\ Constants = {}
  /\ pc' = "dead"
  /\ UNCHANGED <<program, facts, layout, code, edges, usage, it, merged, optimized>>

-----------------------------------------------------------------------------
(* Function::remove.                                                       *)

(* The edges without b: what fell through from the previous block to b now *)
(* falls through to the next one, as many times as it did.                 *)
RemovedEdges(e, b) ==
  LET prev == PrevOf(layout, b)
      next == NextOf(layout, b)
  IN  [x \in DOMAIN e |-> [y \in DOMAIN e |->
         IF b \in {x, y} THEN 0
         ELSE IF x = prev /\ y = next THEN e[x][y] + e[x][b] ELSE e[x][y]]]

Without(b) == RemoveAt(layout, Position(layout, b))

(* Faulty variant: a block without a label has only its neighbour above.   *)
LiveBlocksPrevious ==
  {b \in Live : b < 0 \/ edges[PrevOf(layout, b)][b] > 0}

(* remove_dead_basic_blocks: a block is live if, in the order of the       *)
(* layout, a predecessor was found live before.                            *)
LiveUpTo ==
  LET live[k \in 0 .. Len(layout)] ==
        IF k = 0 THEN {}
        ELSE LET before == live[k - 1]
                 b == layout[k]
             IN  IF b < 0 \/ \E a \in before : edges[a][b] > 0
                 THEN before \union {b} ELSE before
  IN  live

LiveBlocks == LiveUpTo[Len(layout)]

(* Removing a block ends the sweep (the iterator that remove returns is    *)
(* one past the end), and another one starts.                              *)
RemoveDead ==
  /\ pc = "dead" /\ Len(layout) > 2
  /\ \E b \in Live \ LiveBlocks :
       /\ \A a \in Live \ LiveBlocks : Position(layout, b) <= Position(layout, a)
       /\ layout' = Without(b)
       /\ edges' = RemovedEdges(edges, b)
       /\ code' = [code EXCEPT ![b] = <<>>]
  /\ optimized' = TRUE
  /\ UNCHANGED <<program, facts, usage, it, merged, pc>>

EndDead ==
  /\ pc = "dead"
  /\ Len(layout) <= 2 \/ Live \subseteq LiveBlocks
  /\ pc' = "start merge"
  /\ UNCHANGED <<program, facts, layout, code, edges, usage, it, merged, optimized>>

-----------------------------------------------------------------------------
(* merge_basic_blocks.                                                     *)

computeBlockUsage(c) ==
  UNION {{c[b][i].target : i \in DOMAIN c[b]} \ {None} : b \in {x \in Live : x > 0}}

StartMerge ==
  /\ pc = "start merge"
  /\ usage' = computeBlockUsage(code) /\ it' = 2 /\ merged' = FALSE
  /\ pc' = "merge"
  /\ UNCHANGED <<program, facts, layout, code, edges, optimized>>

b_ == layout[it]
AllNops(b) == \A i \in DOMAIN code[b] : code[b][i].op = "nop"

(* Only a block that nothing points to can be merged: its label is lost.   *)
CanMerge(next) == next # EXIT /\ next \notin usage

(* Only a CALL that may do anything stays alone.                           *)
FallsThrough(b) == Last(code[b]).op \notin Jumps \union {"call"}
StartsWithCall(b) == code[b] # <<>> /\ Head(code[b]).op = "call"

IsEmpty == b_ > 0 /\ AllNops(b_)
IsFull == b_ > 0 /\ ~AllNops(b_)
GotoNext == IsFull /\ Last(code[b_]).op = "goto" /\ Last(code[b_]).target = Next_(b_)
Mergeable ==
  \/ IsEmpty /\ b_ \in usage /\ CanMerge(Next_(b_))
  \/ IsFull /\ FallsThrough(b_) /\ CanMerge(Next_(b_)) /\ ~StartsWithCall(Next_(b_))

(* An empty block that nothing points to is removed; that ends the loop.   *)
EraseEmpty ==
  /\ pc = "merge" /\ IsEmpty /\ b_ \notin usage
  /\ layout' = Without(b_)
  /\ edges' = RemovedEdges(edges, b_)
  /\ code' = [code EXCEPT ![b_] = <<>>]
  /\ merged' = TRUE /\ it' = Len(layout')
  /\ UNCHANGED <<program, facts, usage, optimized, pc>>

(* Faulty variant: the edges of the merged block are lost.                 *)
MergedEdgesFallThrough(next) == RemovedEdges(edges, next)

(* The block takes the edges of the next one; remove then adds one for     *)
(* each time it fell through.                                              *)
MergedEdges(next) ==
  LET taken == [y \in Ids |->
                  IF code[next] # <<>> /\ y # NextOf(layout, next)
                  THEN edges[b_][y] + edges[next][y] ELSE edges[b_][y]]
  IN  RemovedEdges([edges EXCEPT ![b_] = taken], next)

(* The next block is merged into this one, and the previous block is       *)
(* looked at again.                                                        *)
MergeNext ==
  /\ pc = "merge" /\ Mergeable
  /\ LET next == Next_(b_) IN
       /\ layout' = Without(next)
       /\ edges' = MergedEdges(next)
       /\ code' = [code EXCEPT ![b_] = @ \o code[next], ![next] = <<>>]
  /\ merged' = TRUE /\ it' = it - 1
  /\ UNCHANGED <<program, facts, usage, optimized, pc>>

(* A block that ends with a GOTO to the next one needs none.  (The next    *)
(* block keeps its place in usage, so that this is all for now.)           *)
DropGoto ==
  /\ pc = "merge" /\ GotoNext
  /\ code' = [code EXCEPT ![b_] = Front(@)]
  /\ usage' = usage \union computeBlockUsage(code')
  /\ it' = it + 1
  /\ UNCHANGED <<program, facts, layout, edges, merged, optimized, pc>>

Skip ==
  /\ pc = "merge" /\ b_ # EXIT
  /\ ~(IsEmpty /\ b_ \notin usage) /\ ~Mergeable /\ ~GotoNext
  /\ it' = it + 1
  /\ UNCHANGED <<program, facts, layout, code, edges, usage, merged, optimized, pc>>

(* What was merged may allow for more.                                     *)
MergeAgain ==
  /\ pc = "merge" /\ b_ = EXIT /\ merged
  /\ optimized' = TRUE
  /\ pc' = "start merge" /\ it' = 1
  /\ UNCHANGED <<program, facts, layout, code, edges, usage, merged>>

(* Faulty variant: a round that changed nothing is followed by another.    *)
EndRoundAlways ==
  /\ pc = "merge" /\ b_ = EXIT /\ ~merged
  /\ pc' = "simplify"
  /\ optimized' = FALSE /\ it' = 1 /\ usage' = {}
  /\ UNCHANGED <<program, facts, layout, code, edges, merged>>

(* The round ends, and the last one has changed nothing.                   *)
EndRound ==
  /\ pc = "merge" /\ b_ = EXIT /\ ~merged
  /\ pc' = IF optimized THEN "simplify" ELSE "done"
  /\ optimized' = FALSE /\ it' = 1 /\ usage' = {}
  /\ UNCHANGED <<program, facts, layout, code, edges, merged>>

Next ==
  \/ Decide \/ Eliminate
  \/ StartBranches \/ OptimizeBranches
  \/ StartDead \/ RemoveDead \/ EndDead
  \/ StartMerge \/ EraseEmpty \/ DropGoto \/ MergeNext \/ Skip
  \/ MergeAgain \/ EndRound

Spec == Init /\ [][Next]_vars /\ WF_vars(Next)

-----------------------------------------------------------------------------

(* Wherever control can go from a block there is an edge: the analyses and *)
(* the search for dead blocks follow the edges only.  (Dead blocks may     *)
(* lose theirs while they are removed one by one.)                         *)
EdgesCoverFlow ==
  \A b \in LiveBlocks \ {EXIT} :
    \A i \in DOMAIN Targets(Statements(b), Next_(b)) :
      edges[b][Targets(Statements(b), Next_(b))[i]] > 0

(***************************************************************************)
(* What the list of quadruples does, facts considered: from position i, the*)
(* next quadruple that does something (its id), 0 for the end, or -1 for a *)
(* loop that does nothing.                                                 *)
(***************************************************************************)
Settle(silent(_), step(_), start, bound) ==
  LET at[n \in 0 .. bound] ==
        IF n = 0 THEN start
        ELSE LET k == at[n - 1] IN IF silent(k) THEN step(k) ELSE k
  IN  at[bound]

ListSilent(i) ==
  i <= Len(program) /\ (program[i].op \in {"label", "goto"} \/ facts[i] # "var")

Jump(i) == CHOOSE k \in DOMAIN Labels(program) : program[k].target = program[i].target

ListStep(i) ==
  LET q == program[i] IN
  IF q.op = "goto" \/ (q.op \in {"if", "if_false"} /\ Taken(q, facts[i]))
  THEN Jump(i) ELSE i + 1

ListNext(i) ==
  LET k == Settle(ListSilent, ListStep, i, 2 * Len(program))
  IN  CASE k > Len(program) -> 0 [] ListSilent(k) -> -1 [] OTHER -> k

(* And what the blocks do, from a position in a block.                     *)
BlockSilent(k) ==
  /\ k[1] \in Live \ {EXIT}
  /\ \/ k[2] > Len(Statements(k[1]))
     \/ LET q == code[k[1]][k[2]] IN
        q.op \in {"nop", "goto"} \/ facts[q.id] # "var"

BlockStep(k) ==
  IF k[2] > Len(Statements(k[1])) THEN <<Next_(k[1]), 1>>
  ELSE LET q == code[k[1]][k[2]] IN
       IF q.op = "goto" \/ (q.op \in {"if", "if_false"} /\ Taken(q, facts[q.id]))
       THEN <<q.target, 1>> ELSE <<k[1], k[2] + 1>>

BlockNext(start) ==
  LET k == Settle(BlockSilent, BlockStep, start, 4 * Len(program) + 2)
  IN  CASE k[1] = EXIT -> 0 [] BlockSilent(k) -> -1
        [] k[1] \notin Live -> -2 [] OTHER -> code[k[1]][k[2]].id

ListFollows(i) ==
  CASE program[i].op = "return" -> <<>>
    [] program[i].op \in {"if", "if_false"} -> <<ListNext(i + 1), ListNext(Jump(i))>>
    [] OTHER -> <<ListNext(i + 1)>>

BlockFollows(k) ==
  LET q == code[k[1]][k[2]] IN
  CASE q.op = "return" -> <<>>
    [] q.op \in {"if", "if_false"} ->
         <<BlockNext(<<k[1], k[2] + 1>>), BlockNext(<<q.target, 1>>)>>
    [] OTHER -> <<BlockNext(<<k[1], k[2] + 1>>)>>

Reached ==
  LET follow(S) == S \union UNION {ToSet(ListFollows(i)) : i \in S \ {0, -1}}
      reach[n \in 0 .. Len(program)] ==
        IF n = 0 THEN {ListNext(1)} ELSE LET S == reach[n - 1] IN follow(S)
  IN  reach[Len(program)] \ {0, -1}

(* The blocks do what the list of quadruples did, in the same order, under *)
(* the same conditions, whatever was cut, dropped, removed and merged.     *)
SameFlow ==
  /\ BlockNext(<<ENTRY, 1>>) = ListNext(1)
  /\ \A i \in Reached :
       \E b \in Live : \E k \in DOMAIN Statements(b) :
         /\ code[b][k].id = i /\ code[b][k].op # "nop"
         /\ BlockFollows(<<b, k>>) = ListFollows(i)

(* The rounds come to an end: no pass always finds something to change.    *)
Ends == <>[](pc = "done")
=============================================================================
