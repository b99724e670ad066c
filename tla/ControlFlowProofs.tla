-------------------------- MODULE ControlFlowProofs -------------------------
(***************************************************************************)
(* The edges of the control flow graph go wherever control can go, through *)
(* every round of the passes that decide branches, remove dead blocks and  *)
(* merge blocks - as long as no condition is decided whose jump leads to   *)
(* the next block (TrivialJumps is FALSE). Under the same condition the    *)
(* blocks do what the list of quadruples did: the second half.             *)
(***************************************************************************)
EXTENDS ControlFlow, Induction, SequenceTheorems, FiniteSetTheorems

Quads == [op : Operators \union {"nop"}, id : 1 .. Len(program), target : Nat]
Blocks == (1 .. Len(code)) \union {ENTRY, EXIT}

EndsWith(block, ops) == block # <<>> /\ Last(block).op \in ops
Falls(block) == ~EndsWith(block, {"goto"})
Leaps(block) == EndsWith(block, Jumps)
Branches(block) == EndsWith(block, {"if", "if_false"})

(* The inductive invariant.                                                *)
Types ==
  /\ program \in Programs
  /\ code \in Seq(Seq(Quads))
  /\ facts \in [1 .. Len(program) -> {"var", "zero", "one", "gone"}]
  /\ edges \in [Blocks -> [Blocks -> Nat]]
  /\ pc = "merge" => it \in 1 .. Len(layout)

Arranged ==
  /\ layout \in Seq(Blocks) /\ Len(layout) >= 2
  /\ layout[1] = ENTRY /\ layout[Len(layout)] = EXIT
  /\ \A i, j \in 1 .. Len(layout) : layout[i] = layout[j] => i = j

(* A jump is the last quadruple of its block and leads to a block.         *)
JumpsLast ==
  \A b \in 1 .. Len(code) : \A i \in 1 .. Len(code[b]) :
    code[b][i].op \in Jumps =>
      i = Len(code[b]) /\ code[b][i].target \in 1 .. Len(code)

(* A condition belongs to one block.                                       *)
OneBranch ==
  \A b, c \in 1 .. Len(code) :
    Branches(code[b]) /\ Branches(code[c]) /\ Last(code[b]).id = Last(code[c]).id
      => b = c

(* When the value of a condition is known its branch is optimized next,    *)
(* and it does not lead to the next block.                                 *)
Pending ==
  \A i \in 1 .. Len(layout) :
    /\ layout[i] > 0 /\ Branches(code[layout[i]])
    /\ facts[Last(code[layout[i]]).id] \in {"zero", "one"}
    => /\ pc \in {"simplify", "branches"}
       /\ Last(code[layout[i]]).target # layout[i + 1]

Edge(i, j) == edges[layout[i]][layout[j]] > 0

(* A block that was removed has no edges.                                  *)
EdgesStay ==
  \A a, b \in Blocks :
    edges[a][b] > 0 => /\ a \in Live \ {EXIT} /\ b \in Live \ {ENTRY}

(* A loop is entered from above at its start only.                         *)
Loops ==
  \A i, head, j, into \in 1 .. Len(layout) :
    /\ Edge(i, head) /\ head <= i
    /\ Edge(j, into) /\ j < head
    => ~(head < into /\ into <= i)

Covered(i) ==
  LET block == Statements(layout[i]) IN
  /\ Falls(block) => Edge(i, i + 1)
  /\ Leaps(block) => edges[layout[i]][Last(block).target] > 0

Cover ==
  \A i \in 1 .. Len(layout) - 1 :
    pc # "dead" \/ layout[i] \in LiveBlocks => Covered(i)

(* The merge knows the targets of all jumps.                               *)
Used ==
  pc = "merge" =>
    \A b \in Live : b > 0 /\ Leaps(code[b]) => Last(code[b]).target \in usage

IInv == Types /\ Arranged /\ JumpsLast /\ OneBranch /\ Pending /\ EdgesStay
        /\ Loops /\ Cover /\ Used
-----------------------------------------------------------------------------
(* The layout.                                                             *)

LEMMA LayoutFacts ==
  ASSUME Arranged
  PROVE  /\ Len(layout) \in Nat /\ DOMAIN layout = 1 .. Len(layout)
         /\ \A k \in 1 .. Len(layout) : layout[k] \in Blocks
         /\ Live = {layout[k] : k \in 1 .. Len(layout)}
<1>1. layout \in Seq(Blocks)
  BY DEF Arranged
<1>2. Len(layout) \in Nat /\ DOMAIN layout = 1 .. Len(layout)
  BY <1>1
<1>3. \A k \in 1 .. Len(layout) : layout[k] \in Blocks
  BY <1>1
<1> QED
  BY <1>2, <1>3 DEF Live, ToSet

LEMMA AtPosition ==
  ASSUME Arranged, NEW k \in 1 .. Len(layout)
  PROVE  /\ Position(layout, layout[k]) = k
         /\ Next_(layout[k]) = layout[k + 1]
         /\ PrevOf(layout, layout[k]) = layout[k - 1]
<1>1. Position(layout, layout[k]) = k
  BY DEF Position, Arranged
<1> QED
  BY <1>1 DEF Next_, NextOf, PrevOf

LEMMA Negative ==
  ASSUME Types, Arranged, NEW k \in 1 .. Len(layout)
  PROVE  /\ layout[k] < 0 <=> k = 1 \/ k = Len(layout)
         /\ k # 1 /\ k # Len(layout) =>
              layout[k] \in 1 .. Len(code) /\ layout[k] > 0
         /\ layout[k] \in Int
<1>1. layout[k] \in Blocks /\ Len(layout) \in Nat /\ 1 \in 1 .. Len(layout)
      /\ Len(layout) \in 1 .. Len(layout)
  BY LayoutFacts DEF Arranged
<1>2. Len(code) \in Nat
  BY DEF Types
<1>3. /\ layout[k] = ENTRY <=> k = 1
      /\ layout[k] = EXIT <=> k = Len(layout)
  BY <1>1 DEF Arranged
<1> QED
  BY <1>1, <1>2, <1>3 DEF Blocks, ENTRY, EXIT

-----------------------------------------------------------------------------
(* The search for live blocks.                                             *)

LEMMA LiveUpToEquation ==
  ASSUME Arranged
  PROVE  /\ LiveUpTo[0] = {}
         /\ \A k \in 1 .. Len(layout) :
              LiveUpTo[k] =
                IF layout[k] < 0 \/ \E a \in LiveUpTo[k - 1] : edges[a][layout[k]] > 0
                THEN LiveUpTo[k - 1] \union {layout[k]} ELSE LiveUpTo[k - 1]
<1> DEFINE n == Len(layout)
           with(k, before) == IF layout[k] < 0 \/ \E a \in before : edges[a][layout[k]] > 0
                              THEN before \union {layout[k]} ELSE before
           step == [s \in (1 .. n) \X SUBSET Live |-> with(s[1], s[2])]
           Solves(f) == f = [k \in 0 .. n |-> IF k = 0 THEN {} ELSE with(k, f[k - 1])]
<1>1. n \in Nat /\ \A k \in 1 .. n : layout[k] \in Live
  BY LayoutFacts
<1> HIDE DEF n
<1>2. \A k \in 1 .. n : \A before \in SUBSET Live : with(k, before) \in SUBSET Live
  BY <1>1
<1>3. step \in [(1 .. n) \X SUBSET Live -> SUBSET Live]
  <2> HIDE DEF with
  <2> QED
    BY <1>2
<1> HIDE DEF with
<1>4. \A k \in 1 .. n : \A before \in SUBSET Live : step[<<k, before>>] = with(k, before)
  OBVIOUS
<1> HIDE DEF step
<1>5. PICK f : Follows(f, n, SUBSET Live, {}, step)
  <2>1. {} \in SUBSET Live
    OBVIOUS
  <2> QED
    BY <1>1, <1>3, <2>1, Recursion
<1>6. \A k \in 0 .. n : f[k] = IF k = 0 THEN {} ELSE with(k, f[k - 1])
  <2>1. \A k \in 0 .. n : k = 0 \/ (k \in 1 .. n /\ k - 1 \in 0 .. n)
    BY <1>1
  <2> QED
    BY <1>4, <1>5, <2>1 DEF Follows
<1>7. Solves(f)
  <2>1. f = [k \in 0 .. n |-> f[k]]
    BY <1>5 DEF Follows
  <2> QED
    BY <1>6, <2>1
<1>8. LiveUpTo = CHOOSE g : Solves(g)
  BY DEF LiveUpTo, with, n
<1>9. Solves(LiveUpTo)
  <2> HIDE DEF Solves
  <2> QED
    BY <1>7, <1>8
<1>10. \A k \in 0 .. n : LiveUpTo[k] = IF k = 0 THEN {} ELSE with(k, LiveUpTo[k - 1])
  BY <1>9
<1> HIDE DEF Solves
<1>11. LiveUpTo[0] = {} /\ \A k \in 1 .. n : LiveUpTo[k] = with(k, LiveUpTo[k - 1])
  <2>1. 0 \in 0 .. n /\ \A k \in 1 .. n : k \in 0 .. n /\ k # 0
    BY <1>1
  <2> QED
    BY <1>10, <2>1
<1> QED
  BY <1>11 DEF with, n

(* The live blocks are the least set that holds the entry and the exit and *)
(* is closed under the edges that lead down the layout.                    *)
Closed(S) ==
  /\ \A i \in 1 .. Len(layout) : layout[i] < 0 => layout[i] \in S
  /\ \A i, j \in 1 .. Len(layout) :
       i < j /\ layout[i] \in S /\ Edge(i, j) => layout[j] \in S

LiveIsLeast ==
  Arranged =>
    /\ LiveBlocks \subseteq Live /\ Closed(LiveBlocks)
    /\ \A S : Closed(S) => LiveBlocks \subseteq S

LEMMA LeastLive == LiveIsLeast
<1> SUFFICES ASSUME Arranged
             PROVE  /\ LiveBlocks \subseteq Live /\ Closed(LiveBlocks)
                    /\ \A S : Closed(S) => LiveBlocks \subseteq S
  BY DEF LiveIsLeast
<1> DEFINE n == Len(layout)
           U == LiveUpTo
           found(k) == layout[k] < 0 \/ \E a \in U[k - 1] : edges[a][layout[k]] > 0
<1>1. n \in Nat /\ n >= 2
  BY LayoutFacts DEF Arranged
<1>2. \A i, j \in 1 .. n : layout[i] = layout[j] => i = j
  BY DEF Arranged
<1>3. U[0] = {} /\ \A k \in 1 .. n :
        U[k] = IF found(k) THEN U[k - 1] \union {layout[k]} ELSE U[k - 1]
  BY LiveUpToEquation
<1> HIDE DEF n, U, found
<1>4. ASSUME NEW m \in 0 .. n
      PROVE  U[m] = {layout[k] : k \in {h \in 1 .. m : found(h)}}
  <2> DEFINE T == {h \in Nat : h <= n =>
                     U[h] = {layout[k] : k \in {g \in 1 .. h : found(g)}}}
  <2>1. 0 \in T
    BY <1>3
  <2>2. ASSUME NEW h \in Nat, h \in T PROVE h + 1 \in T
    <3> SUFFICES ASSUME h + 1 <= n
                 PROVE  U[h + 1] = {layout[k] : k \in {g \in 1 .. h + 1 : found(g)}}
      OBVIOUS
    <3>1. U[h] = {layout[k] : k \in {g \in 1 .. h : found(g)}}
      BY <1>1, <2>2
    <3>2. U[h + 1] = IF found(h + 1) THEN U[h] \union {layout[h + 1]} ELSE U[h]
      <4>1. h + 1 \in 1 .. n /\ (h + 1) - 1 = h
        BY <1>1
      <4> QED
        BY <1>3, <4>1
    <3>3. \A g : g \in 1 .. h + 1 <=> g \in 1 .. h \/ g = h + 1
      OBVIOUS
    <3> QED
      BY <3>1, <3>2, <3>3
  <2> HIDE DEF T
  <2>3. Nat \subseteq T
    BY <2>1, <2>2, UpwardInduction
  <2> QED
    BY <1>1, <2>3 DEF T
<1>5. LiveBlocks = U[n]
  BY DEF LiveBlocks, U, n
<1>6. LiveBlocks = {layout[k] : k \in {h \in 1 .. n : found(h)}}
  BY <1>1, <1>4, <1>5
<1>7. ASSUME NEW i \in 1 .. n, layout[i] \in LiveBlocks PROVE found(i)
  BY <1>2, <1>6, <1>7
<1>8. ASSUME NEW i \in 1 .. n, NEW j \in 1 .. n, i < j,
             layout[i] \in LiveBlocks, edges[layout[i]][layout[j]] > 0
      PROVE  layout[j] \in LiveBlocks
  <2>1. i \in 1 .. j - 1 /\ j - 1 \in 0 .. n
    BY <1>1, <1>8
  <2>2. layout[i] \in U[j - 1]
    BY <1>4, <1>7, <1>8, <2>1
  <2>3. found(j)
    BY <1>8, <2>2 DEF found
  <2> QED
    BY <1>6, <2>3
<1>9. Closed(LiveBlocks)
  <2>1. \A i \in 1 .. n : layout[i] < 0 => layout[i] \in LiveBlocks
    BY <1>6 DEF found
  <2> QED
    BY <1>8, <2>1 DEF Closed, Edge, n
<1>10. LiveBlocks \subseteq Live
  BY <1>6, LayoutFacts DEF n
<1>11. ASSUME NEW S, Closed(S) PROVE LiveBlocks \subseteq S
  <2> DEFINE T == {h \in Nat : h <= n => U[h] \subseteq S}
  <2>1. 0 \in T
    BY <1>3
  <2>2. ASSUME NEW h \in Nat, h \in T PROVE h + 1 \in T
    <3> SUFFICES ASSUME h + 1 <= n PROVE U[h + 1] \subseteq S
      OBVIOUS
    <3>1. U[h] \subseteq S /\ h + 1 \in 1 .. n /\ (h + 1) - 1 = h /\ h \in 0 .. n
      BY <1>1, <2>2
    <3>2. U[h + 1] = IF found(h + 1) THEN U[h] \union {layout[h + 1]} ELSE U[h]
      BY <1>3, <3>1
    <3>3. ASSUME found(h + 1) PROVE layout[h + 1] \in S
      <4>1. CASE layout[h + 1] < 0
        BY <1>11, <3>1, <4>1 DEF Closed, n
      <4>2. CASE \E a \in U[h] : edges[a][layout[h + 1]] > 0
        <5>1. PICK i \in 1 .. h : /\ layout[i] \in U[h]
                                  /\ edges[layout[i]][layout[h + 1]] > 0
          BY <1>4, <3>1, <4>2
        <5>2. i \in 1 .. n /\ i < h + 1 /\ layout[i] \in S
          BY <1>1, <3>1, <5>1
        <5> QED
          BY <1>11, <3>1, <5>1, <5>2 DEF Closed, Edge, n
      <4> QED
        BY <3>1, <3>3, <4>1, <4>2 DEF found
    <3> QED
      BY <3>1, <3>2, <3>3
  <2> HIDE DEF T
  <2>3. Nat \subseteq T
    BY <2>1, <2>2, UpwardInduction
  <2> QED
    BY <1>1, <1>5, <2>3 DEF T
<1> QED
  BY <1>9, <1>10, <1>11

(* A block that a live block has an edge to is live, also up the layout:   *)
(* the start of a loop is live if a block of it is.                        *)
LEMMA LiveFollows ==
  ASSUME Types, Arranged, EdgesStay, Loops,
         NEW i \in 1 .. Len(layout), NEW j \in 1 .. Len(layout),
         layout[i] \in LiveBlocks, Edge(i, j)
  PROVE  layout[j] \in LiveBlocks
<1> DEFINE n == Len(layout)
           region == {layout[k] : k \in j .. i}
           S == LiveBlocks \ region
<1>1. n \in Nat /\ n >= 2 /\ \A k \in 1 .. n : layout[k] \in Blocks
  BY LayoutFacts DEF Arranged
<1>2. LiveBlocks \subseteq Live /\ Closed(LiveBlocks)
      /\ \A T : Closed(T) => LiveBlocks \subseteq T
  BY LeastLive DEF LiveIsLeast
<1>3. CASE i < j
  BY <1>2, <1>3 DEF Closed
<1>4. CASE j <= i
  <2> SUFFICES ASSUME layout[j] \notin LiveBlocks PROVE FALSE
    OBVIOUS
  <2>1. i # n /\ j # 1
    <3>1. layout[i] # EXIT /\ layout[j] # ENTRY
      BY <1>1 DEF EdgesStay, Edge
    <3> QED
      BY <3>1 DEF Arranged
  <2>2. \A k \in j .. i : k \in 1 .. n /\ k # 1 /\ k # n
    BY <1>1, <1>4, <2>1
  <2>3. \A k \in 1 .. n : layout[k] \in region <=> k \in j .. i
    BY <2>2 DEF Arranged
  <2>4. ASSUME NEW k \in 1 .. n, layout[k] < 0 PROVE layout[k] \in S
    BY <1>2, <2>2, <2>3, <2>4, Negative DEF Closed
  <2>5. ASSUME NEW x \in 1 .. n, NEW y \in 1 .. n, x < y, layout[x] \in S, Edge(x, y)
        PROVE  layout[y] \in S
    <3>1. layout[y] \in LiveBlocks
      BY <1>2, <2>5 DEF Closed
    <3>2. ASSUME y \in j .. i PROVE FALSE
      <4>1. y # j
        BY <3>1
      <4>2. ~(x \in j .. i)
        BY <2>3, <2>5
      <4>3. x < j /\ j < y /\ y <= i
        BY <1>1, <2>5, <3>2, <4>1, <4>2
      <4> QED
        BY <1>4, <2>5, <4>3 DEF Loops
    <3> QED
      BY <2>3, <3>1, <3>2
  <2>6. Closed(S)
    <3> HIDE DEF S
    <3> QED
      BY <2>4, <2>5 DEF Closed
  <2>7. layout[i] \in S
    BY <1>2, <2>6
  <2>8. layout[i] \in region
    BY <1>1, <1>4
  <2> QED
    BY <2>7, <2>8
<1> QED
  BY <1>1, <1>3, <1>4
-----------------------------------------------------------------------------
(* Steps that leave the blocks and their edges alone.                      *)

Shape == Arranged /\ JumpsLast /\ OneBranch /\ EdgesStay /\ Loops

LEMMA ShapeStays ==
  ASSUME Shape, layout' = layout, code' = code, edges' = edges
  PROVE  Shape'
<1>1. Arranged'
  BY DEF Shape, Arranged, Blocks
<1>2. JumpsLast' /\ OneBranch'
  BY DEF Shape, JumpsLast, OneBranch, Branches, EndsWith
<1>3. EdgesStay'
  BY DEF Shape, EdgesStay, Blocks, Live
<1>4. Loops'
  BY DEF Shape, Loops, Edge
<1> QED
  BY <1>1, <1>2, <1>3, <1>4 DEF Shape

LEMMA CoverStays ==
  ASSUME Cover, layout' = layout, code' = code, edges' = edges,
         pc' = "dead" \/ pc # "dead"
         \/ \A i \in 1 .. Len(layout) - 1 : layout[i] \in LiveBlocks
  PROVE  Cover'
<1>1. LiveBlocks' = LiveBlocks
  BY DEF LiveBlocks, LiveUpTo
<1>2. \A i : Covered(i)' <=> Covered(i)
  BY DEF Covered, Edge, Statements
<1>3. ASSUME NEW i \in 1 .. Len(layout) - 1, pc' # "dead" \/ layout[i] \in LiveBlocks
      PROVE  Covered(i)
  BY <1>3 DEF Cover
<1> QED
  BY <1>1, <1>2, <1>3 DEF Cover

(* The condition of a jump that does not lead to the next block.           *)
LEMMA DecideStep ==
  ASSUME IInv, ~TrivialJumps, Decide
  PROVE  IInv'
<1>1. /\ pc = "simplify" /\ pc' = pc /\ program' = program /\ layout' = layout
      /\ code' = code /\ edges' = edges /\ it' = it /\ usage' = usage
  BY DEF Decide
<1>0. PICK b \in Live : \E i \in DOMAIN Statements(b) : \E value \in {"zero", "one"} :
        /\ code[b][i].op \in {"if", "if_false"}
        /\ code[b][i].target # Next_(b)
        /\ facts' = [facts EXCEPT ![code[b][i].id] = value]
  BY DEF Decide
<1>2. PICK i \in DOMAIN Statements(b), value \in {"zero", "one"} :
        /\ code[b][i].op \in {"if", "if_false"}
        /\ code[b][i].target # Next_(b)
        /\ facts' = [facts EXCEPT ![code[b][i].id] = value]
  BY <1>0
<1>3. PICK k \in 1 .. Len(layout) : b = layout[k]
  BY LayoutFacts DEF IInv
<1>4. b \in 1 .. Len(code) /\ b > 0 /\ i \in 1 .. Len(code[b])
      /\ code[b] \in Seq(Quads)
  <2>1. b > 0
    <3>1. b \in Int
      BY <1>3, Negative DEF IInv
    <3>2. DOMAIN Statements(b) # {}
      BY <1>2
    <3> QED
      BY <3>1, <3>2 DEF Statements
  <2>2. b \in 1 .. Len(code)
    BY <1>3, <2>1, Negative DEF IInv
  <2>3. code[b] \in Seq(Quads)
    BY <2>2 DEF IInv, Types
  <2> QED
    BY <1>2, <2>1, <2>2, <2>3 DEF Statements
<1>5. code[b] # <<>> /\ Last(code[b]) = code[b][i] /\ code[b][i] \in Quads
  <2>1. i = Len(code[b])
    BY <1>2, <1>4 DEF IInv, JumpsLast, Jumps
  <2> QED
    BY <1>4, <2>1 DEF Last
<1>6. Branches(code[b])
  BY <1>2, <1>5 DEF Branches, EndsWith
<1>7. Types'
  <2>1. facts' \in [1 .. Len(program) -> {"var", "zero", "one", "gone"}]
    BY <1>2, <1>5 DEF IInv, Types, Quads
  <2> QED
    BY <1>1, <2>1 DEF IInv, Types, Quads, Blocks
<1>8. Pending'
  <2> SUFFICES ASSUME NEW h \in 1 .. Len(layout), layout[h] > 0,
                      Branches(code[layout[h]]),
                      facts'[Last(code[layout[h]]).id] \in {"zero", "one"}
               PROVE  Last(code[layout[h]]).target # layout[h + 1]
    BY <1>1 DEF Pending, Branches, EndsWith
  <2>1. CASE Last(code[layout[h]]).id = code[b][i].id
    <3>1. layout[h] \in 1 .. Len(code)
      BY Negative DEF IInv
    <3>2. layout[h] = b
      BY <1>4, <1>5, <1>6, <2>1, <3>1 DEF IInv, OneBranch
    <3>3. h = k
      BY <1>3, <3>2 DEF IInv, Arranged
    <3>4. Next_(b) = layout[h + 1]
      BY <1>3, <3>3, AtPosition DEF IInv
    <3> QED
      BY <1>2, <1>5, <3>2, <3>4
  <2>2. CASE Last(code[layout[h]]).id # code[b][i].id
    <3>1. facts'[Last(code[layout[h]]).id] = facts[Last(code[layout[h]]).id]
      BY <1>2, <2>2 DEF IInv, Types
    <3> QED
      BY <3>1 DEF IInv, Pending
  <2> QED
    BY <2>1, <2>2
<1>9. Shape' /\ Cover'
  BY <1>1, ShapeStays, CoverStays DEF IInv, Shape
<1>10. Used'
  BY <1>1 DEF Used
<1> QED
  BY <1>7, <1>8, <1>9, <1>10 DEF IInv, Shape

(* The steps from one pass to the next and over the layout.                *)
LEMMA PassStep ==
  ASSUME IInv, StartBranches \/ StartDead \/ EndDead \/ MergeAgain \/ EndRound
               \/ Skip \/ StartMerge \/ UNCHANGED vars
  PROVE  IInv'
<1>1. /\ program' = program /\ layout' = layout /\ code' = code
      /\ edges' = edges /\ facts' = facts
  BY DEF StartBranches, StartDead, EndDead, MergeAgain, EndRound, Skip,
         StartMerge, vars
<1>2. Types'
  <2>1. pc' = "merge" => it' \in 1 .. Len(layout)
    <3>1. CASE Skip
      <4>1. it \in 1 .. Len(layout) /\ it # Len(layout) /\ it' = it + 1
        BY <3>1 DEF Skip, b_, IInv, Types, Arranged
      <4>2. Len(layout) \in Nat
        BY LayoutFacts DEF IInv
      <4> QED
        BY <4>1, <4>2
    <3>2. CASE StartMerge
      <4>1. Len(layout) \in Nat /\ Len(layout) >= 2 /\ it' = 2
        BY <3>2, LayoutFacts DEF StartMerge, IInv, Arranged
      <4> QED
        BY <4>1
    <3>3. CASE ~Skip /\ ~StartMerge
      BY <3>3 DEF StartBranches, StartDead, EndDead, MergeAgain, EndRound, vars,
                  IInv, Types
    <3> QED
      BY <3>1, <3>2, <3>3
  <2> QED
    BY <1>1, <2>1 DEF IInv, Types, Quads, Blocks
<1>3. Pending'
  <2>1. ASSUME NEW h \in 1 .. Len(layout), layout[h] > 0,
               Branches(code[layout[h]]),
               facts[Last(code[layout[h]]).id] \in {"zero", "one"}
        PROVE  /\ pc' \in {"simplify", "branches"}
               /\ Last(code[layout[h]]).target # layout[h + 1]
    <3>1. /\ pc \in {"simplify", "branches"}
          /\ Last(code[layout[h]]).target # layout[h + 1]
      BY <2>1 DEF IInv, Pending
    <3>2. ~StartDead
      <4>1. code[layout[h]] \in Seq(Quads) /\ layout[h] \in Live
        <5>1. layout[h] \in Live
          BY LayoutFacts DEF IInv
        <5>2. layout[h] \in 1 .. Len(code)
          BY <2>1, Negative DEF IInv
        <5> QED
          BY <5>1, <5>2 DEF IInv, Types
      <4>2. Len(code[layout[h]]) \in DOMAIN code[layout[h]]
        BY <2>1, <4>1 DEF Branches, EndsWith
      <4>3. Len(code[layout[h]]) \in Constant(layout[h])
        BY <2>1, <4>2 DEF Constant, Statements, Branches, EndsWith, Last
      <4> QED
        BY <4>1, <4>3 DEF StartDead, Constants
    <3> QED
      BY <3>1, <3>2 DEF StartBranches, EndDead, MergeAgain, EndRound, Skip,
                        StartMerge, vars
  <2> QED
    BY <1>1, <2>1 DEF Pending, Branches, EndsWith
<1>4. Shape'
  BY <1>1, ShapeStays DEF IInv, Shape
<1>5. Cover'
  <2>1. CASE EndDead
    <3>1. ASSUME NEW i \in 1 .. Len(layout) - 1 PROVE layout[i] \in LiveBlocks
      <4>1. Len(layout) \in Nat /\ i \in 1 .. Len(layout) /\ layout[i] \in Live
        BY LayoutFacts DEF IInv
      <4>2. CASE Live \subseteq LiveBlocks
        BY <4>1, <4>2
      <4>3. CASE Len(layout) <= 2
        <5>1. i = 1 /\ layout[i] < 0
          BY <4>1, <4>3 DEF IInv, Arranged, ENTRY
        <5> QED
          BY <4>1, <5>1, LeastLive DEF LiveIsLeast, Closed, IInv
      <4> QED
        BY <2>1, <4>2, <4>3 DEF EndDead
    <3> QED
      BY <1>1, <3>1, CoverStays DEF IInv
  <2>2. CASE ~EndDead
    <3>1. pc' = "dead" \/ pc # "dead"
      BY <2>2 DEF StartBranches, StartDead, MergeAgain, EndRound, Skip,
                  StartMerge, vars
    <3> QED
      BY <1>1, <3>1, CoverStays DEF IInv
  <2> QED
    BY <2>1, <2>2
<1>6. Used'
  <2>1. ASSUME pc' = "merge", NEW b \in Live, b > 0, Leaps(code[b])
        PROVE  Last(code[b]).target \in usage'
    <3>1. CASE StartMerge
      <4>1. PICK k \in 1 .. Len(layout) : b = layout[k]
        BY LayoutFacts DEF IInv
      <4>2. b \in 1 .. Len(code)
        BY <2>1, <4>1, Negative DEF IInv
      <4>3. code[b] \in Seq(Quads) /\ code[b] # <<>>
        BY <2>1, <4>2 DEF IInv, Types, Leaps, EndsWith
      <4>4. Len(code[b]) \in DOMAIN code[b] /\ Len(code[b]) \in 1 .. Len(code[b])
        BY <4>3
      <4>5. Last(code[b]).target # None
        <5>1. code[b][Len(code[b])].op \in Jumps
          BY <2>1 DEF Leaps, EndsWith, Last
        <5> QED
          BY <4>2, <4>4, <5>1 DEF IInv, JumpsLast, None, Last
      <4>6. Last(code[b]).target
              \in {code[b][i].target : i \in DOMAIN code[b]} \ {None}
        BY <4>4, <4>5 DEF Last
      <4>7. Last(code[b]).target \in computeBlockUsage(code)
        BY <2>1, <4>6 DEF computeBlockUsage
      <4> QED
        BY <3>1, <4>7 DEF StartMerge
    <3>2. CASE ~StartMerge
      <4>1. pc = "merge" /\ usage' = usage
        BY <2>1, <3>2 DEF StartBranches, StartDead, EndDead, MergeAgain, EndRound,
                          Skip, vars
      <4> QED
        BY <2>1, <4>1 DEF IInv, Used
    <3> QED
      BY <3>1, <3>2
  <2>2. Live' = Live
    BY <1>1 DEF Live
  <2> QED
    BY <1>1, <2>1, <2>2 DEF Used, Leaps, EndsWith
<1> QED
  BY <1>2, <1>3, <1>4, <1>5, <1>6 DEF IInv, Shape
-----------------------------------------------------------------------------
(* Steps that change the code of one block and take edges from it.         *)

LEMMA LastQuad ==
  ASSUME NEW s \in Seq(Quads), s # <<>>
  PROVE  Len(s) \in 1 .. Len(s) /\ Last(s) = s[Len(s)] /\ Last(s) \in Quads
  BY DEF Last

LEMMA StatementAt ==
  ASSUME Types, Arranged, NEW b \in Live, NEW i \in DOMAIN Statements(b)
  PROVE  /\ b \in 1 .. Len(code) /\ b > 0 /\ Statements(b) = code[b]
         /\ i \in 1 .. Len(code[b]) /\ code[b] \in Seq(Quads)
         /\ code[b][i] \in Quads
         /\ \E k \in 1 .. Len(layout) - 1 : layout[k] = b
<1>1. PICK k \in 1 .. Len(layout) : b = layout[k]
  BY LayoutFacts
<1>2. b > 0
  <2>1. b \in Int
    BY <1>1, Negative
  <2> QED
    BY <2>1 DEF Statements
<1>3. b \in 1 .. Len(code) /\ k # Len(layout)
  BY <1>1, <1>2, Negative
<1>4. code[b] \in Seq(Quads) /\ Statements(b) = code[b]
  BY <1>2, <1>3 DEF Types, Statements
<1>5. k \in 1 .. Len(layout) - 1
  <2>1. Len(layout) \in Nat
    BY LayoutFacts
  <2> QED
    BY <1>3, <2>1
<1> QED
  BY <1>1, <1>2, <1>3, <1>4, <1>5

JumpsEnd(block) ==
  \A i \in 1 .. Len(block) :
    block[i].op \in Jumps => i = Len(block) /\ block[i].target \in 1 .. Len(code)

LEMMA CodeChange ==
  ASSUME IInv, NEW k \in 1 .. Len(layout) - 1, NEW b \in 1 .. Len(code), layout[k] = b,
         NEW new \in Seq(Quads), code' = [code EXCEPT ![b] = new],
         program' = program, layout' = layout, pc' = pc, pc # "dead", usage \subseteq usage',
         facts' \in [1 .. Len(program) -> {"var", "zero", "one", "gone"}],
         \A n \in 1 .. Len(program) : facts'[n] \in {"zero", "one"} => facts'[n] = facts[n],
         edges' \in [Blocks -> [Blocks -> Nat]],
         \A x, y \in Blocks : edges'[x][y] > 0 => edges[x][y] > 0,
         \A x, y \in Blocks : x # b => edges'[x][y] = edges[x][y],
         JumpsEnd(new),
         Leaps(new) => Leaps(code[b]) /\ Last(new).target = Last(code[b]).target,
         Branches(new) => Branches(code[b]) /\ Last(new).id = Last(code[b]).id,
         Falls(new) => edges'[b][layout[k + 1]] > 0,
         Leaps(new) => edges'[b][Last(new).target] > 0,
         pc = "merge" => it' \in 1 .. Len(layout)
  PROVE  IInv'
<1>1. /\ code' \in Seq(Seq(Quads)) /\ Len(code') = Len(code) /\ code'[b] = new
      /\ \A c \in 1 .. Len(code) : c # b => code'[c] = code[c]
  BY DEF IInv, Types
<1>2. Blocks' = Blocks /\ Quads' = Quads
  BY <1>1 DEF Blocks, Quads
<1>3. Types' /\ Arranged'
  BY <1>1, <1>2 DEF IInv, Types, Arranged
<1>4. JumpsLast'
  BY <1>1 DEF IInv, JumpsLast, JumpsEnd
<1>5. \A c \in 1 .. Len(code) :
        /\ Leaps(code'[c]) => Leaps(code[c]) /\ Last(code'[c]).target = Last(code[c]).target
        /\ Branches(code'[c]) => Branches(code[c]) /\ Last(code'[c]).id = Last(code[c]).id
  BY <1>1
<1>6. OneBranch'
  <2>1. ASSUME NEW c \in 1 .. Len(code'), NEW d \in 1 .. Len(code'),
               Branches(code'[c]), Branches(code'[d]),
               Last(code'[c]).id = Last(code'[d]).id
        PROVE  c = d
    <3>1. c \in 1 .. Len(code) /\ d \in 1 .. Len(code)
      BY <1>1
    <3>2. Branches(code[c]) /\ Branches(code[d]) /\ Last(code[c]).id = Last(code[d]).id
      BY <1>5, <2>1, <3>1
    <3> QED
      BY <3>1, <3>2 DEF IInv, OneBranch
  <2> QED
    BY <2>1 DEF OneBranch
<1>7. EdgesStay'
  BY <1>2 DEF IInv, EdgesStay, Live
<1>8. \A i \in 1 .. Len(layout) : layout[i] \in Blocks
  BY LayoutFacts DEF IInv
<1>9. Loops'
  <2>1. \A i, j \in 1 .. Len(layout) : Edge(i, j)' => Edge(i, j)
    BY <1>8 DEF Edge
  <2> QED
    BY <2>1 DEF IInv, Loops
<1>10. ASSUME NEW i \in 1 .. Len(layout), layout[i] > 0
       PROVE  layout[i] \in 1 .. Len(code)
  BY <1>10, Negative DEF IInv
<1>11. Pending'
  <2> SUFFICES ASSUME NEW i \in 1 .. Len(layout), layout[i] > 0,
                      Branches(code'[layout[i]]),
                      facts'[Last(code'[layout[i]]).id] \in {"zero", "one"}
               PROVE  /\ pc \in {"simplify", "branches"}
                      /\ Last(code'[layout[i]]).target # layout[i + 1]
    BY SMTT(90) DEF Pending, Branches, EndsWith
  <2>1. layout[i] \in 1 .. Len(code)
    BY <1>10
  <2>2. /\ Branches(code[layout[i]])
        /\ Last(code'[layout[i]]).id = Last(code[layout[i]]).id
        /\ Last(code'[layout[i]]).target = Last(code[layout[i]]).target
    <3>1. Leaps(code'[layout[i]])
      BY DEF Leaps, Branches, EndsWith, Jumps
    <3> QED
      BY <1>5, <2>1, <3>1
  <2>3. Last(code[layout[i]]).id \in 1 .. Len(program)
    <3>1. code[layout[i]] \in Seq(Quads) /\ code[layout[i]] # <<>>
      BY <2>1, <2>2, SMTT(30) DEF IInv, Types, Branches, EndsWith
    <3> QED
      BY <3>1, LastQuad DEF Quads
  <2> QED
    BY <2>2, <2>3, ZenonT(30) DEF IInv, Pending
<1>12. Cover'
  <2> SUFFICES ASSUME NEW i \in 1 .. Len(layout) - 1
               PROVE  Covered(i)'
    BY DEF Cover
  <2>1. Covered(i)
    BY DEF IInv, Cover
  <2>2. Len(layout) \in Nat /\ i \in 1 .. Len(layout) /\ i + 1 \in 1 .. Len(layout)
        /\ k \in 1 .. Len(layout)
    BY LayoutFacts DEF IInv
  <2>3. CASE i = k
    <3>1. b > 0
      BY DEF IInv, Types
    <3>2. Statements(layout[i])' = new
      BY <1>1, <2>3, <3>1 DEF Statements
    <3> QED
      BY <2>3, <3>2 DEF Covered, Edge
  <2>4. CASE i # k
    <3>1. layout[i] # b
      BY <2>2, <2>4 DEF IInv, Arranged
    <3>2. Statements(layout[i])' = Statements(layout[i])
      BY <1>1, <1>10, <2>2, <3>1 DEF Statements
    <3>3. edges'[layout[i]] = edges[layout[i]]
      <4>1. edges[layout[i]] \in [Blocks -> Nat] /\ edges'[layout[i]] \in [Blocks -> Nat]
        BY <1>8, <2>2 DEF IInv, Types
      <4>2. \A y \in Blocks : edges'[layout[i]][y] = edges[layout[i]][y]
        BY <1>8, <2>2, <3>1
      <4> QED
        BY <4>1, <4>2
    <3> QED
      BY <2>1, <3>2, <3>3 DEF Covered, Edge
  <2> QED
    BY <2>3, <2>4
<1>13. Used'
  <2> SUFFICES ASSUME pc = "merge", NEW c \in Live, c > 0, Leaps(code'[c])
               PROVE  Last(code'[c]).target \in usage'
    BY DEF Used, Live, Leaps, EndsWith
  <2>1. c \in 1 .. Len(code)
    BY <1>10, LayoutFacts DEF IInv
  <2> QED
    BY <1>5, <2>1 DEF IInv, Used
<1> QED
  BY <1>3, <1>4, <1>6, <1>7, <1>9, <1>11, <1>12, <1>13 DEF IInv

(* A NOP in the place of a quadruple that is no jump.                      *)
LEMMA NopInPlace ==
  ASSUME IInv, NEW b \in 1 .. Len(code), NEW i \in 1 .. Len(code[b]),
         code[b] \in Seq(Quads)
  PROVE  LET new == [code[b] EXCEPT ![i] = Nop(code[b][i].id)] IN
         /\ new \in Seq(Quads) /\ Len(new) = Len(code[b]) /\ new # <<>>
         /\ JumpsEnd(new)
         /\ i # Len(new) => Last(new) = Last(code[b])
         /\ i = Len(new) => Last(new).op = "nop"
         /\ code[b] # <<>>
<1> DEFINE new == [code[b] EXCEPT ![i] = Nop(code[b][i].id)]
<1>1. Nop(code[b][i].id) \in Quads /\ Nop(code[b][i].id).op = "nop"
  <2>1. code[b][i] \in Quads
    OBVIOUS
  <2> QED
    BY <2>1 DEF Nop, Quads, None
<1>2. /\ new \in Seq(Quads) /\ Len(new) = Len(code[b])
      /\ new[i] = Nop(code[b][i].id)
      /\ \A j \in 1 .. Len(code[b]) : j # i => new[j] = code[b][j]
  BY <1>1
<1>3. Len(code[b]) \in 1 .. Len(code[b])
  OBVIOUS
<1> HIDE DEF new
<1>4. new # <<>> /\ code[b] # <<>>
  BY <1>2
<1>5. JumpsEnd(new)
  <2>1. \A j \in 1 .. Len(code[b]) : code[b][j].op \in Jumps =>
          j = Len(code[b]) /\ code[b][j].target \in 1 .. Len(code)
    BY DEF IInv, JumpsLast
  <2> QED
    BY <1>1, <1>2, <2>1 DEF JumpsEnd, Jumps
<1>6. /\ i # Len(new) => Last(new) = Last(code[b])
      /\ i = Len(new) => Last(new).op = "nop"
  BY <1>1, <1>2, <1>3 DEF Last
<1> QED
  BY <1>2, <1>4, <1>5, <1>6 DEF new
LEMMA EliminateStep ==
  ASSUME IInv, Eliminate
  PROVE  IInv'
<1>1. /\ pc = "simplify" /\ pc' = pc /\ program' = program /\ layout' = layout
      /\ edges' = edges /\ it' = it /\ usage' = usage
  BY DEF Eliminate
<1>2. PICK b \in Live : \E i \in DOMAIN Statements(b) :
        /\ code[b][i].op = "op"
        /\ facts' = [facts EXCEPT ![code[b][i].id] = "gone"]
        /\ code' = [code EXCEPT ![b][i] = Nop(code[b][i].id)]
  BY DEF Eliminate
<1>3. PICK i \in DOMAIN Statements(b) :
        /\ code[b][i].op = "op"
        /\ facts' = [facts EXCEPT ![code[b][i].id] = "gone"]
        /\ code' = [code EXCEPT ![b][i] = Nop(code[b][i].id)]
  BY <1>2
<1>4. /\ b \in 1 .. Len(code) /\ i \in 1 .. Len(code[b]) /\ code[b] \in Seq(Quads)
      /\ code[b][i] \in Quads /\ b > 0
  BY StatementAt DEF IInv
<1>5. PICK k \in 1 .. Len(layout) - 1 : layout[k] = b
  BY StatementAt DEF IInv
<1> DEFINE new == [code[b] EXCEPT ![i] = Nop(code[b][i].id)]
<1>6. /\ new \in Seq(Quads) /\ Len(new) = Len(code[b]) /\ new # <<>>
      /\ JumpsEnd(new)
      /\ i # Len(new) => Last(new) = Last(code[b])
      /\ i = Len(new) => Last(new).op = "nop"
      /\ code[b] # <<>>
  BY <1>4, NopInPlace
<1>7. code' = [code EXCEPT ![b] = new]
  BY <1>3
<1> HIDE DEF new
<1>8. i = Len(new) => Last(code[b]).op = "op"
  BY <1>3, <1>6 DEF Last
<1>9. /\ Leaps(new) <=> Leaps(code[b])
      /\ Branches(new) <=> Branches(code[b])
      /\ Falls(new) <=> Falls(code[b])
      /\ Leaps(new) => Last(new) = Last(code[b])
      /\ Branches(new) => Leaps(new)
  BY <1>6, <1>8 DEF Leaps, Branches, Falls, EndsWith, Jumps
<1>10. Covered(k)
  BY <1>1 DEF IInv, Cover
<1>11. Statements(layout[k]) = code[b]
  BY <1>4, <1>5 DEF Statements
<1>12. /\ Falls(new) => edges[b][layout[k + 1]] > 0
       /\ Leaps(new) => edges[b][Last(new).target] > 0
  BY <1>5, <1>9, <1>10, <1>11 DEF Covered, Edge
<1>13. /\ facts' \in [1 .. Len(program) -> {"var", "zero", "one", "gone"}]
       /\ \A n \in 1 .. Len(program) : facts'[n] \in {"zero", "one"} => facts'[n] = facts[n]
  BY <1>3, <1>4 DEF IInv, Types, Quads
<1>14. edges \in [Blocks -> [Blocks -> Nat]]
  BY DEF IInv, Types
<1> QED
  BY <1>1, <1>4, <1>5, <1>6, <1>7, <1>9, <1>12, <1>13, <1>14, CodeChange

(* The two ways that a decided branch goes.  Its jump does not lead to the *)
(* next block, so that the edge that is removed is not the one that stays. *)
LEMMA OptimizeBranchesStep ==
  ASSUME IInv, OptimizeBranches
  PROVE  IInv'
<1>1. /\ pc = "branches" /\ pc' = pc /\ program' = program /\ layout' = layout
      /\ facts' = facts /\ it' = it /\ usage' = usage
  BY DEF OptimizeBranches
<1>2. PICK b \in Constants : \E i \in Constant(b) :
        IF Taken(code[b][i], facts[code[b][i].id])
        THEN /\ code' = [code EXCEPT ![b][i].op = "goto"]
             /\ edges' = remove_edge(b, Next_(b))
        ELSE /\ code' = [code EXCEPT ![b][i] = Nop(code[b][i].id)]
             /\ edges' = remove_edge(b, code[b][i].target)
  BY DEF OptimizeBranches
<1>3. PICK i \in Constant(b) :
        IF Taken(code[b][i], facts[code[b][i].id])
        THEN /\ code' = [code EXCEPT ![b][i].op = "goto"]
             /\ edges' = remove_edge(b, Next_(b))
        ELSE /\ code' = [code EXCEPT ![b][i] = Nop(code[b][i].id)]
             /\ edges' = remove_edge(b, code[b][i].target)
  BY <1>2
<1>4. /\ b \in Live /\ i \in DOMAIN Statements(b)
      /\ code[b][i].op \in {"if", "if_false"}
      /\ facts[code[b][i].id] \in {"zero", "one"}
  BY DEF Constants, Constant
<1>5. /\ b \in 1 .. Len(code) /\ i \in 1 .. Len(code[b]) /\ code[b] \in Seq(Quads)
      /\ code[b][i] \in Quads /\ b > 0 /\ b \in Blocks
  BY <1>4, StatementAt DEF IInv, Blocks
<1>6. PICK k \in 1 .. Len(layout) - 1 : layout[k] = b
  BY <1>4, StatementAt DEF IInv
<1>7. /\ i = Len(code[b]) /\ code[b] # <<>> /\ Last(code[b]) = code[b][i]
      /\ code[b][i].target \in 1 .. Len(code)
  BY <1>4, <1>5 DEF IInv, JumpsLast, Jumps, Last
<1> DEFINE q == code[b][i]
           next == layout[k + 1]
<1>8. Branches(code[b]) /\ Leaps(code[b]) /\ Falls(code[b])
  BY <1>4, <1>7 DEF Branches, Leaps, Falls, EndsWith, Jumps
<1>9. Len(layout) \in Nat /\ k \in 1 .. Len(layout) /\ next \in Blocks
      /\ Next_(b) = next
  BY <1>6, LayoutFacts, AtPosition DEF IInv
<1>10. q.target # next /\ q.target \in Blocks
  BY <1>4, <1>5, <1>6, <1>7, <1>8, <1>9 DEF IInv, Pending, Blocks
<1>11. edges[b][next] > 0 /\ edges[b][q.target] > 0
  <2>1. Covered(k)
    BY <1>1 DEF IInv, Cover
  <2>2. Statements(layout[k]) = code[b]
    BY <1>5, <1>6 DEF Statements
  <2> QED
    BY <1>6, <1>7, <1>8, <2>1, <2>2 DEF Covered, Edge
<1>12. ASSUME NEW c \in Blocks, edges' = remove_edge(b, c)
       PROVE  /\ edges' \in [Blocks -> [Blocks -> Nat]]
              /\ \A x, y \in Blocks : edges'[x][y] > 0 => edges[x][y] > 0
              /\ \A x, y \in Blocks : x # b => edges'[x][y] = edges[x][y]
              /\ \A y \in Blocks : y # c => edges'[b][y] = edges[b][y]
  <2>1. edges \in [Blocks -> [Blocks -> Nat]]
    BY DEF IInv, Types
  <2>2. edges' = [edges EXCEPT ![b][c] = 0]
    BY <1>12 DEF remove_edge
  <2> QED
    BY <1>5, <2>1, <2>2, SMTT(30)
<1>13. facts' \in [1 .. Len(program) -> {"var", "zero", "one", "gone"}]
  BY <1>1 DEF IInv, Types
<1>14. CASE Taken(q, facts[q.id])
  <2> DEFINE new == [code[b] EXCEPT ![i].op = "goto"]
             go == [q EXCEPT !.op = "goto"]
  <2>1. code' = [code EXCEPT ![b] = new] /\ edges' = remove_edge(b, next)
    BY <1>3, <1>9, <1>14
  <2>2. go \in Quads /\ go.op = "goto" /\ go.target = q.target
    BY <1>5 DEF Quads, Operators, Jumps
  <2> HIDE DEF go
  <2>3. /\ new \in Seq(Quads) /\ Len(new) = Len(code[b]) /\ new[i] = go
        /\ \A j \in 1 .. Len(code[b]) : j # i => new[j] = code[b][j]
    <3>1. new = [code[b] EXCEPT ![i] = go]
      BY DEF go
    <3> HIDE DEF new
    <3> QED
      BY <1>5, <2>2, <3>1
  <2> HIDE DEF new
  <2>4. new # <<>> /\ Last(new) = go
    BY <1>5, <1>7, <2>3 DEF Last
  <2>5. JumpsEnd(new)
    <3>1. \A j \in 1 .. Len(code[b]) : code[b][j].op \in Jumps => j = Len(code[b])
      BY <1>5 DEF IInv, JumpsLast
    <3> QED
      BY <1>7, <2>2, <2>3, <3>1 DEF JumpsEnd
  <2>6. Leaps(new) /\ ~Falls(new) /\ ~Branches(new)
    BY <2>2, <2>4 DEF Leaps, Falls, Branches, EndsWith, Jumps
  <2>7. edges'[b][go.target] > 0
    <3>1. edges'[b][q.target] = edges[b][q.target]
      BY <1>9, <1>10, <1>12, <2>1
    <3> QED
      BY <1>11, <2>2, <3>1
  <2>8. /\ Last(new).target = Last(code[b]).target
        /\ edges'[b][Last(new).target] > 0
    BY <1>7, <2>2, <2>4, <2>7
  <2>9. /\ edges' \in [Blocks -> [Blocks -> Nat]]
        /\ \A x, y \in Blocks : edges'[x][y] > 0 => edges[x][y] > 0
        /\ \A x, y \in Blocks : x # b => edges'[x][y] = edges[x][y]
    BY <1>9, <1>12, <2>1, SMTT(30)
  <2> QED
    BY <1>1, <1>5, <1>6, <1>8, <1>13, <2>1, <2>3, <2>5, <2>6, <2>8, <2>9, CodeChange,
       ZenonT(30)
<1>15. CASE ~Taken(q, facts[q.id])
  <2> DEFINE new == [code[b] EXCEPT ![i] = Nop(code[b][i].id)]
  <2>1. code' = [code EXCEPT ![b] = new] /\ edges' = remove_edge(b, q.target)
    BY <1>3, <1>15
  <2>2. /\ new \in Seq(Quads) /\ Len(new) = Len(code[b]) /\ new # <<>>
        /\ JumpsEnd(new) /\ Last(new).op = "nop"
    BY <1>5, <1>7, NopInPlace
  <2> HIDE DEF new
  <2>3. ~Leaps(new) /\ Falls(new) /\ ~Branches(new)
    BY <2>2 DEF Leaps, Falls, Branches, EndsWith, Jumps
  <2>4. edges'[b][next] > 0
    BY <1>9, <1>10, <1>11, <1>12, <2>1
  <2> QED
    BY <1>1, <1>5, <1>6, <1>10, <1>12, <1>13, <2>1, <2>2, <2>3, <2>4, CodeChange,
       ZenonT(30)
<1> QED
  BY <1>14, <1>15

(* A GOTO to the next block is not needed.                                 *)
LEMMA DropGotoStep ==
  ASSUME IInv, DropGoto
  PROVE  IInv'
<1>1. /\ pc = "merge" /\ pc' = pc /\ program' = program /\ layout' = layout
      /\ facts' = facts /\ edges' = edges /\ it' = it + 1
      /\ usage \subseteq usage' /\ code' = [code EXCEPT ![b_] = Front(@)]
  BY DEF DropGoto
<1>2. /\ it \in 1 .. Len(layout) /\ b_ = layout[it] /\ b_ > 0
      /\ Last(code[b_]).op = "goto" /\ Last(code[b_]).target = Next_(b_)
      /\ \E i \in DOMAIN code[b_] : TRUE
  BY <1>1 DEF DropGoto, GotoNext, IsFull, AllNops, b_, IInv, Types
<1> DEFINE b == layout[it]
           new == Front(code[b])
<1>3. b \in 1 .. Len(code) /\ it # Len(layout) /\ Len(layout) \in Nat
  <2>1. /\ b \in Int
        /\ b < 0 <=> it = 1 \/ it = Len(layout)
        /\ it # 1 /\ it # Len(layout) => b \in 1 .. Len(code)
    BY <1>2, Negative DEF IInv
  <2>2. b > 0 /\ Len(layout) \in Nat
    BY <1>2, LayoutFacts DEF IInv
  <2> HIDE DEF b
  <2> QED
    BY <2>1, <2>2
<1>4. it \in 1 .. Len(layout) - 1 /\ it + 1 \in 1 .. Len(layout)
  BY <1>2, <1>3
<1>5. code[b] \in Seq(Quads) /\ code[b] # <<>>
  BY <1>2, <1>3 DEF IInv, Types
<1>6. /\ new \in Seq(Quads) /\ Len(new) = Len(code[b]) - 1
      /\ \A j \in 1 .. Len(code[b]) - 1 : new[j] = code[b][j]
  <2>1. Len(code[b]) \in Nat \ {0}
    BY <1>5
  <2>2. /\ SubSeq(code[b], 1, Len(code[b]) - 1) \in Seq(Quads)
        /\ Len(SubSeq(code[b], 1, Len(code[b]) - 1)) = Len(code[b]) - 1
        /\ \A j \in 1 .. Len(code[b]) - 1 :
             SubSeq(code[b], 1, Len(code[b]) - 1)[j] = code[b][j]
    BY <1>5, <2>1
  <2> QED
    BY <2>2 DEF Front
<1>7. ASSUME NEW j \in 1 .. Len(new) PROVE new[j].op \notin Jumps
  BY <1>3, <1>5, <1>6, SMTT(30) DEF IInv, JumpsLast
<1>8. code' = [code EXCEPT ![b] = new]
  BY <1>1, <1>2
<1> HIDE DEF new
<1>9. JumpsEnd(new) /\ ~Leaps(new) /\ ~Branches(new) /\ Falls(new)
  <2>1. new # <<>> => Last(new).op \notin Jumps
    BY <1>6, <1>7, LastQuad
  <2> QED
    BY <1>7, <2>1 DEF JumpsEnd, Leaps, Branches, Falls, EndsWith, Jumps
<1>10. edges[b][layout[it + 1]] > 0
  <2>1. Covered(it)
    BY <1>1, <1>4 DEF IInv, Cover
  <2>2. Leaps(code[b]) /\ Statements(b) = code[b]
    BY <1>2, <1>5 DEF Leaps, EndsWith, Jumps, Statements
  <2>3. Last(code[b]).target = layout[it + 1]
    BY <1>2, AtPosition DEF IInv
  <2> QED
    BY <2>1, <2>2, <2>3 DEF Covered
<1>11. /\ edges \in [Blocks -> [Blocks -> Nat]]
       /\ facts \in [1 .. Len(program) -> {"var", "zero", "one", "gone"}]
  BY DEF IInv, Types
<1> QED
  BY <1>1, <1>3, <1>4, <1>6, <1>8, <1>9, <1>10, <1>11, CodeChange
-----------------------------------------------------------------------------
(* Steps that remove a block, the one at r.                                *)

Old(r, i) == IF i < r THEN i ELSE i + 1

LEMMA WithoutFacts ==
  ASSUME Types, Arranged, NEW r \in 2 .. Len(layout) - 1,
         layout' = Without(layout[r]), Len(code') = Len(code)
  PROVE  /\ Arranged' /\ Len(layout') = Len(layout) - 1
         /\ \A i \in 1 .. Len(layout) - 1 : layout'[i] = layout[Old(r, i)]
         /\ Live' = Live \ {layout[r]}
<1> DEFINE n == Len(layout)
           s == SubSeq(layout, 1, r - 1)
           t == SubSeq(layout, r + 1, n)
<1>1. /\ n \in Nat /\ layout \in Seq(Blocks) /\ r \in 1 .. n /\ r \in Nat
      /\ \A k \in 1 .. n : layout[k] \in Blocks
  BY LayoutFacts DEF Arranged
<1>2. layout' = s \o t
  BY <1>1, AtPosition DEF Without, RemoveAt
<1>3. /\ s \in Seq(Blocks) /\ Len(s) = r - 1
      /\ \A i \in 1 .. r - 1 : s[i] = layout[i]
  BY <1>1
<1>4. /\ t \in Seq(Blocks) /\ Len(t) = n - r
      /\ \A i \in 1 .. n - r : t[i] = layout[r + i]
  <2>1. /\ SubSeq(layout, r + 1, n) \in Seq(Blocks)
        /\ Len(SubSeq(layout, r + 1, n)) = n - r
        /\ \A i \in 1 .. n - r : SubSeq(layout, r + 1, n)[i] = layout[r + 1 + i - 1]
    BY <1>1, SMTT(30)
  <2>2. \A i \in 1 .. n - r : r + 1 + i - 1 = r + i
    BY <1>1
  <2> QED
    BY <2>1, <2>2
<1> HIDE DEF s, t, n
<1>5. /\ layout' \in Seq(Blocks) /\ Len(layout') = n - 1
      /\ \A i \in 1 .. n - 1 : layout'[i] = IF i < r THEN s[i] ELSE t[i - (r - 1)]
  <2>1. /\ s \o t \in Seq(Blocks) /\ Len(s \o t) = Len(s) + Len(t)
        /\ \A i \in 1 .. Len(s) + Len(t) :
             (s \o t)[i] = IF i <= Len(s) THEN s[i] ELSE t[i - Len(s)]
    <3>1. s \in Seq(Blocks) /\ t \in Seq(Blocks)
      BY <1>3, <1>4
    <3> QED
      BY <3>1, ConcatProperties, Zenon
  <2>2. Len(s) + Len(t) = n - 1 /\ \A i \in 1 .. n - 1 : i <= r - 1 <=> i < r
    BY <1>1, <1>3, <1>4
  <2> QED
    BY <1>2, <1>3, <2>1, <2>2
<1>6. ASSUME NEW i \in 1 .. n - 1 PROVE layout'[i] = layout[Old(r, i)]
  <2>1. CASE i < r
    <3>1. i \in 1 .. r - 1
      BY <1>1, <2>1
    <3> QED
      BY <1>3, <1>5, <2>1, <3>1 DEF Old
  <2>2. CASE ~(i < r)
    <3>1. i - (r - 1) \in 1 .. n - r /\ r + (i - (r - 1)) = i + 1
      BY <1>1, <2>2
    <3> QED
      BY <1>4, <1>5, <2>2, <3>1 DEF Old
  <2> QED
    BY <2>1, <2>2
<1>7. /\ \A i \in 1 .. n - 1 : Old(r, i) \in 1 .. n /\ Old(r, i) # r
      /\ \A i, j \in 1 .. n - 1 : Old(r, i) = Old(r, j) => i = j
      /\ \A k \in 1 .. n : k # r => \E i \in 1 .. n - 1 : k = Old(r, i)
      /\ Old(r, 1) = 1 /\ Old(r, n - 1) = n
  <2>1. r \in 2 .. n - 1
    BY DEF n
  <2>2. ASSUME NEW k \in 1 .. n, k # r PROVE \E i \in 1 .. n - 1 : k = Old(r, i)
    <3>1. CASE k < r
      <4>1. k \in 1 .. n - 1
        BY <1>1, <2>1, <3>1
      <4> QED
        BY <3>1, <4>1 DEF Old
    <3>2. CASE k > r
      <4>1. k - 1 \in 1 .. n - 1 /\ ~(k - 1 < r) /\ (k - 1) + 1 = k
        BY <1>1, <2>1, <3>2
      <4> QED
        BY <4>1 DEF Old
    <3> QED
      BY <1>1, <2>2, <3>1, <3>2
  <2> QED
    BY <1>1, <2>1, <2>2 DEF Old
<1>8. \A i, j \in 1 .. n : layout[i] = layout[j] => i = j
  BY DEF Arranged, n
<1>9. Blocks' = Blocks
  BY DEF Blocks
<1>10. n >= 2 /\ n - 1 >= 2 /\ 1 \in 1 .. n - 1 /\ n - 1 \in 1 .. n - 1
  <2>1. r \in 2 .. n - 1
    BY DEF n
  <2> QED
    BY <1>1, <2>1
<1>11. Arranged'
  <2>1. layout'[1] = ENTRY /\ layout'[n - 1] = EXIT
    BY <1>6, <1>7, <1>10 DEF Arranged, n
  <2>2. \A i, j \in 1 .. n - 1 : layout'[i] = layout'[j] => i = j
    BY <1>6, <1>7, <1>8
  <2> QED
    BY <1>5, <1>9, <1>10, <2>1, <2>2 DEF Arranged, ENTRY, EXIT
<1>12. Live' = Live \ {layout[r]}
  <2>1. Live = {layout[k] : k \in 1 .. n}
    BY LayoutFacts DEF n
  <2>2. Live' = {layout'[i] : i \in 1 .. n - 1}
    <3>1. DOMAIN layout' = 1 .. n - 1
      BY <1>1, <1>5
    <3> QED
      BY <3>1 DEF Live, ToSet
  <2>3. ASSUME NEW x \in Live' PROVE x \in Live \ {layout[r]}
    <3>1. PICK i \in 1 .. n - 1 : x = layout[Old(r, i)]
      BY <1>6, <2>2
    <3> QED
      BY <1>1, <1>7, <1>8, <2>1, <3>1
  <2>4. ASSUME NEW x \in Live \ {layout[r]} PROVE x \in Live'
    <3>1. PICK k \in 1 .. n : x = layout[k] /\ k # r
      BY <2>1
    <3>2. PICK i \in 1 .. n - 1 : k = Old(r, i)
      BY <1>7, <3>1
    <3> QED
      BY <1>6, <2>2, <3>1, <3>2
  <2> QED
    BY <2>3, <2>4
<1> QED
  BY <1>5, <1>6, <1>11, <1>12 DEF n

EdgeWithout(e, r, x, y) ==
  IF layout[r] \in {x, y} THEN 0
  ELSE IF x = layout[r - 1] /\ y = layout[r + 1]
  THEN e[x][y] + e[x][layout[r]] ELSE e[x][y]

LEMMA RemovedEdgesFacts ==
  ASSUME Types, Arranged, NEW r \in 2 .. Len(layout) - 1,
         NEW e \in [Blocks -> [Blocks -> Nat]]
  PROVE  /\ RemovedEdges(e, layout[r]) \in [Blocks -> [Blocks -> Nat]]
         /\ \A x, y \in Blocks :
              RemovedEdges(e, layout[r])[x][y] = EdgeWithout(e, r, x, y)
<1> DEFINE b == layout[r]
           value(x, y) == IF b \in {x, y} THEN 0
                          ELSE IF x = layout[r - 1] /\ y = layout[r + 1]
                          THEN e[x][y] + e[x][b] ELSE e[x][y]
<1>1. r \in 1 .. Len(layout) /\ b \in Blocks
  <2>1. Len(layout) \in Nat
    BY LayoutFacts
  <2>2. r \in 1 .. Len(layout)
    BY <2>1
  <2> QED
    BY <2>2, LayoutFacts
<1>2. RemovedEdges(e, b) = [x \in Blocks |-> [y \in Blocks |-> value(x, y)]]
  <2>1. /\ PrevOf(layout, b) = layout[r - 1] /\ NextOf(layout, b) = layout[r + 1]
        /\ DOMAIN e = Blocks
    BY <1>1, AtPosition DEF Next_
  <2> QED
    BY <2>1 DEF RemovedEdges
<1>3. \A x, y \in Blocks : value(x, y) \in Nat
  BY <1>1, SMTT(30)
<1> HIDE DEF value
<1>4. /\ [x \in Blocks |-> [y \in Blocks |-> value(x, y)]] \in [Blocks -> [Blocks -> Nat]]
      /\ \A x, y \in Blocks : [u \in Blocks |-> [v \in Blocks |-> value(u, v)]][x][y] = value(x, y)
  BY <1>3
<1> QED
  BY <1>2, <1>4 DEF value, EdgeWithout

(* The loops are entered from above at their start only, also when the     *)
(* block above the one that is removed takes its edges.                    *)
LEMMA LoopsKept ==
  ASSUME Loops, Len(layout) \in Nat, NEW r \in 2 .. Len(layout) - 1,
         Len(layout') = Len(layout) - 1,
         \A i, j \in 1 .. Len(layout) - 1 :
           Edge(i, j)' => \/ Edge(Old(r, i), Old(r, j))
                          \/ i = r - 1 /\ j = r
                          \/ i = r - 1 /\ Edge(r, Old(r, j))
  PROVE  Loops'
<1> DEFINE n == Len(layout)
           m == n - 1
           F(i, j) == Edge(i, j)'
<1>1. \A i, j \in 1 .. m :
        F(i, j) => \/ Edge(Old(r, i), Old(r, j))
                   \/ i = r - 1 /\ j = r
                   \/ i = r - 1 /\ Edge(r, Old(r, j))
  OBVIOUS
<1>2. ASSUME NEW i \in 1 .. m, NEW head \in 1 .. m, NEW j \in 1 .. m, NEW into \in 1 .. m,
             F(i, head), head <= i, F(j, into), j < head, head < into, into <= i
      PROVE  FALSE
  <2> HIDE DEF F
  <2>1. /\ Old(r, head) < Old(r, into) /\ Old(r, into) <= Old(r, i)
        /\ Old(r, j) < Old(r, head)
        /\ Old(r, i) \in 1 .. n /\ Old(r, head) \in 1 .. n
        /\ Old(r, j) \in 1 .. n /\ Old(r, into) \in 1 .. n /\ r \in 1 .. n
    BY <1>2 DEF Old
  <2>2. PICK s \in 1 .. n : Edge(s, Old(r, head)) /\ Old(r, i) <= s
    <3>1. CASE Edge(Old(r, i), Old(r, head))
      BY <2>1, <3>1, SMTT(30)
    <3>2. CASE i = r - 1 /\ head = r
      BY <1>2, <3>2
    <3>3. CASE i = r - 1 /\ Edge(r, Old(r, head))
      <4>1. Old(r, i) <= r
        BY <3>3 DEF Old
      <4> QED
        BY <2>1, <3>3, <4>1
    <3> QED
      BY <1>1, <1>2, <3>1, <3>2, <3>3
  <2>3. Old(r, head) <= s /\ Old(r, into) <= s
    BY <2>1, <2>2, SMTT(30)
  <2>4. CASE Edge(Old(r, j), Old(r, into))
    BY <2>1, <2>2, <2>3, <2>4 DEF Loops
  <2>5. CASE j = r - 1 /\ into = r
    BY <1>2, <2>5
  <2>6. CASE j = r - 1 /\ Edge(r, Old(r, into))
    <3>1. r < Old(r, head)
      BY <1>2, <2>6 DEF Old
    <3> QED
      BY <2>1, <2>2, <2>3, <2>6, <3>1 DEF Loops
  <2> QED
    BY <1>1, <1>2, <2>4, <2>5, <2>6
<1>3. \A i, head, j, into \in 1 .. m :
        /\ F(i, head) /\ head <= i
        /\ F(j, into) /\ j < head
        => ~(head < into /\ into <= i)
  BY <1>2
<1> HIDE DEF m
<1> QED
  BY <1>3 DEF Loops, m

LEMMA OldFacts ==
  ASSUME NEW n \in Nat, NEW r \in 2 .. n - 1, NEW i \in 1 .. n - 1
  PROVE  /\ Old(r, i) \in 1 .. n /\ Old(r, i) # r
         /\ i # n - 1 => Old(r, i) \in 1 .. n - 1
         /\ i # n - 1 => Old(r, i + 1) = IF i = r - 1 THEN r + 1 ELSE Old(r, i) + 1
         /\ Old(r, i) = r - 1 <=> i = r - 1
         /\ Old(r, i) = r + 1 <=> i = r
  BY DEF Old

LEMMA OldOnto ==
  ASSUME NEW n \in Nat, NEW r \in 2 .. n - 1
  PROVE  \A k \in 1 .. n : k # r => \E i \in 1 .. n - 1 : k = Old(r, i)
<1> SUFFICES ASSUME NEW k \in 1 .. n, k # r PROVE \E i \in 1 .. n - 1 : k = Old(r, i)
  OBVIOUS
<1>1. CASE k < r
  <2>1. k \in 1 .. n - 1
    BY <1>1
  <2> QED
    BY <1>1, <2>1 DEF Old
<1>2. CASE k > r
  <2>1. k - 1 \in 1 .. n - 1 /\ ~(k - 1 < r) /\ (k - 1) + 1 = k
    BY <1>2
  <2> QED
    BY <2>1 DEF Old
<1> QED
  BY <1>1, <1>2

(* The edges between the blocks that stay.                                 *)
Joined(e, r, i, j) ==
  e[layout[Old(r, i)]][layout[Old(r, j)]]
    + (IF i = r - 1 /\ j = r THEN e[layout[r - 1]][layout[r]] ELSE 0)

LEMMA PositiveSum ==
  \A x, y \in Nat : x > 0 \/ y > 0 => x + y > 0
  OBVIOUS

LEMMA PositivePart ==
  ASSUME NEW x \in Nat, NEW y \in Nat, x + y > 0
  PROVE  x > 0 \/ y > 0
  OBVIOUS

LEMMA EdgesAfter ==
  ASSUME Types, Arranged, NEW r \in 2 .. Len(layout) - 1,
         layout' = Without(layout[r]), Len(code') = Len(code),
         NEW e \in [Blocks -> [Blocks -> Nat]], edges' = RemovedEdges(e, layout[r])
  PROVE  \A i, j \in 1 .. Len(layout) - 1 :
           edges'[layout'[i]][layout'[j]] = Joined(e, r, i, j)
<1> SUFFICES ASSUME NEW i \in 1 .. Len(layout) - 1, NEW j \in 1 .. Len(layout) - 1
             PROVE  edges'[layout'[i]][layout'[j]] = Joined(e, r, i, j)
  OBVIOUS
<1> DEFINE n == Len(layout)
           x == layout[Old(r, i)]
           y == layout[Old(r, j)]
<1>1. n \in Nat /\ r \in 1 .. n /\ r - 1 \in 1 .. n /\ r + 1 \in 1 .. n
  <2>1. n \in Nat
    BY LayoutFacts
  <2> QED
    BY <2>1
<1>2. layout'[i] = x /\ layout'[j] = y
  BY WithoutFacts
<1>3. /\ Old(r, i) \in 1 .. n /\ Old(r, i) # r
      /\ Old(r, j) \in 1 .. n /\ Old(r, j) # r
      /\ Old(r, i) = r - 1 <=> i = r - 1
      /\ Old(r, j) = r + 1 <=> j = r
  BY <1>1, OldFacts
<1>4. \A k \in 1 .. n : layout[k] \in Blocks
  BY LayoutFacts
<1>5. \A h, k \in 1 .. n : layout[h] = layout[k] => h = k
  BY DEF Arranged
<1>6. /\ x \in Blocks /\ y \in Blocks /\ x # layout[r] /\ y # layout[r]
      /\ x = layout[r - 1] <=> i = r - 1
      /\ y = layout[r + 1] <=> j = r
  BY <1>1, <1>3, <1>4, <1>5
<1> HIDE DEF x, y
<1>7. edges'[x][y] = IF x = layout[r - 1] /\ y = layout[r + 1]
                     THEN e[x][y] + e[x][layout[r]] ELSE e[x][y]
  <2>1. RemovedEdges(e, layout[r])[x][y] =
          IF layout[r] \in {x, y} THEN 0
          ELSE IF x = layout[r - 1] /\ y = layout[r + 1]
          THEN e[x][y] + e[x][layout[r]] ELSE e[x][y]
    BY <1>6, RemovedEdgesFacts, SMTT(30) DEF EdgeWithout
  <2> QED
    BY <1>6, <2>1
<1>8. e[x][y] \in Nat
  BY <1>6
<1>9. edges'[x][y] = e[x][y] + (IF i = r - 1 /\ j = r THEN e[layout[r - 1]][layout[r]] ELSE 0)
  BY <1>6, <1>7, <1>8, SMTT(30)
<1> QED
  BY <1>2, <1>9 DEF x, y, Joined

LEMMA LeastLiveNext == LiveIsLeast'
  BY LeastLive, PTL

(* No block gets alive by the removal of a dead one.                       *)
LEMMA LiveShrinks ==
  ASSUME Types, Arranged, NEW r \in 2 .. Len(layout) - 1, layout[r] \notin LiveBlocks,
         layout' = Without(layout[r]), Len(code') = Len(code),
         edges' = RemovedEdges(edges, layout[r])
  PROVE  LiveBlocks' \subseteq LiveBlocks
<1>1. PICK S : S = LiveBlocks
  OBVIOUS
<1>2. Closed(S)
  BY <1>1, LeastLive DEF LiveIsLeast
<1>3. /\ Arranged' /\ Len(layout') = Len(layout) - 1
      /\ \A i \in 1 .. Len(layout) - 1 : layout'[i] = layout[Old(r, i)]
  BY WithoutFacts
<1>4. /\ Len(layout) \in Nat
      /\ \A i, j \in 1 .. Len(layout) : edges[layout[i]][layout[j]] \in Nat
  BY LayoutFacts DEF Types
<1>5. ASSUME NEW i \in 1 .. Len(layout) - 1, layout'[i] < 0 PROVE layout'[i] \in S
  BY <1>2, <1>3, <1>4, <1>5, OldFacts DEF Closed
<1>6. ASSUME NEW i \in 1 .. Len(layout) - 1, NEW j \in 1 .. Len(layout) - 1, i < j,
             layout'[i] \in S, edges'[layout'[i]][layout'[j]] > 0
      PROVE  layout'[j] \in S
  <2>1. /\ Old(r, i) \in 1 .. Len(layout) /\ Old(r, j) \in 1 .. Len(layout)
        /\ Old(r, i) < Old(r, j) /\ r - 1 \in 1 .. Len(layout) /\ r - 1 < r
        /\ r \in 1 .. Len(layout) /\ (i = r - 1 => Old(r, i) = r - 1)
    BY <1>4, <1>6 DEF Old
  <2>2. layout[Old(r, i)] \in S
    BY <1>3, <1>6
  <2>3. edges \in [Blocks -> [Blocks -> Nat]]
    BY DEF Types
  <2>4. edges'[layout'[i]][layout'[j]] =
          edges[layout[Old(r, i)]][layout[Old(r, j)]]
            + (IF i = r - 1 /\ j = r THEN edges[layout[r - 1]][layout[r]] ELSE 0)
    <3>1. PICK e \in [Blocks -> [Blocks -> Nat]] : e = edges
      BY <2>3
    <3>2. edges' = RemovedEdges(e, layout[r])
      BY <3>1
    <3>3. edges'[layout'[i]][layout'[j]] = Joined(e, r, i, j)
      BY <3>2, EdgesAfter
    <3> QED
      BY <3>1, <3>3 DEF Joined
  <2>5. CASE edges[layout[Old(r, i)]][layout[Old(r, j)]] > 0
    <3>1. layout[Old(r, j)] \in S
      BY <1>2, <2>1, <2>2, <2>5 DEF Closed, Edge
    <3> QED
      BY <1>3, <3>1
  <2>6. CASE i = r - 1 /\ edges[layout[r - 1]][layout[r]] > 0
    <3>1. layout[r] \in S
      BY <1>2, <2>1, <2>2, <2>6 DEF Closed, Edge
    <3> QED
      BY <1>1, <3>1
  <2>7. /\ edges[layout[Old(r, i)]][layout[Old(r, j)]] \in Nat
        /\ edges[layout[r - 1]][layout[r]] \in Nat
    BY <1>4, <2>1
  <2> QED
    BY <1>6, <2>4, <2>5, <2>6, <2>7, SMTT(30)
<1>7. Closed(S)'
  BY <1>3, <1>5, <1>6 DEF Closed, Edge
<1>8. LiveBlocks' \subseteq S
  BY <1>3, <1>7, LeastLiveNext DEF LiveIsLeast
<1> QED
  BY <1>1, <1>8

(* What holds whatever the quadruples of the block become: the edges that  *)
(* the others have afterwards, from those (e) that they have when the block*)
(* goes - the block above may have taken some of its edges.                *)
LEMMA Removal ==
  ASSUME Types, Arranged, EdgesStay, Loops, NEW r \in 2 .. Len(layout) - 1,
         layout' = Without(layout[r]), program' = program, facts' = facts, pc' = pc,
         code' \in Seq(Seq(Quads)), Len(code') = Len(code),
         pc = "merge" => it' \in 1 .. Len(layout) - 1,
         NEW e \in [Blocks -> [Blocks -> Nat]], edges' = RemovedEdges(e, layout[r]),
         \A a, c \in Blocks : e[a][c] > 0 =>
           edges[a][c] > 0 \/ (a = layout[r - 1] /\ edges[layout[r]][c] > 0)
  PROVE  Types' /\ EdgesStay' /\ Loops'
<1> DEFINE n == Len(layout)
           b == layout[r]
<1>1. /\ n \in Nat /\ r \in 1 .. n /\ r - 1 \in 1 .. n /\ r + 1 \in 1 .. n
      /\ r - 1 # n /\ r + 1 # 1
  <2>1. n \in Nat
    BY LayoutFacts
  <2> QED
    BY <2>1
<1>2. \A k \in 1 .. n : layout[k] \in Blocks
  BY LayoutFacts
<1>3. \A h, k \in 1 .. n : layout[h] = layout[k] => h = k
  BY DEF Arranged
<1>4. /\ Blocks' = Blocks /\ Live' = Live \ {b} /\ Len(layout') = n - 1
      /\ \A i \in 1 .. n - 1 : layout'[i] = layout[Old(r, i)]
  BY WithoutFacts DEF Blocks
<1>5. /\ edges' \in [Blocks -> [Blocks -> Nat]]
      /\ \A x, y \in Blocks :
           edges'[x][y] = IF b \in {x, y} THEN 0
                          ELSE IF x = layout[r - 1] /\ y = layout[r + 1]
                          THEN e[x][y] + e[x][b] ELSE e[x][y]
  <2>1. /\ RemovedEdges(e, b) \in [Blocks -> [Blocks -> Nat]]
        /\ \A x, y \in Blocks :
             RemovedEdges(e, b)[x][y] =
               IF b \in {x, y} THEN 0
               ELSE IF x = layout[r - 1] /\ y = layout[r + 1]
               THEN e[x][y] + e[x][b] ELSE e[x][y]
    <3>1. RemovedEdges(e, b) \in [Blocks -> [Blocks -> Nat]]
      BY RemovedEdgesFacts
    <3>2. \A x, y \in Blocks : RemovedEdges(e, b)[x][y] = EdgeWithout(e, r, x, y)
      BY RemovedEdgesFacts
    <3> QED
      BY <3>1, <3>2 DEF EdgeWithout
  <2> HIDE DEF b
  <2>2. edges' = RemovedEdges(e, b)
    BY DEF b
  <2> QED
    BY <2>1, <2>2
<1>6. Types'
  <2>1. /\ program' \in Programs
        /\ facts' \in [1 .. Len(program') -> {"var", "zero", "one", "gone"}]
    BY DEF Types
  <2>2. Quads' = Quads
    BY DEF Quads
  <2>3. pc' = "merge" => it' \in 1 .. Len(layout')
    BY <1>4
  <2> QED
    BY <1>4, <1>5, <2>1, <2>2, <2>3 DEF Types
<1>7. layout[1] = ENTRY /\ layout[n] = EXIT /\ 1 \in 1 .. n /\ n \in 1 .. n
  BY <1>1 DEF Arranged
<1>8. EdgesStay'
  <2>1. ASSUME NEW x \in Blocks, NEW y \in Blocks, edges'[x][y] > 0
        PROVE  x \in Live' \ {EXIT} /\ y \in Live' \ {ENTRY}
    <3>1. x # b /\ y # b
      BY <1>5, <2>1
    <3>2. e[x][y] > 0 \/ (x = layout[r - 1] /\ y = layout[r + 1])
      BY <1>5, <2>1, <3>1
    <3>3. /\ layout[r - 1] \in Live \ {EXIT} /\ layout[r + 1] \in Live \ {ENTRY}
      <4>1. layout[r - 1] \in Live /\ layout[r + 1] \in Live
        BY <1>1, LayoutFacts
      <4>2. layout[r - 1] # EXIT /\ layout[r + 1] # ENTRY
        BY <1>1, <1>3, <1>7
      <4> QED
        BY <4>1, <4>2
    <3>4. \A u, v \in Blocks : edges[u][v] > 0 => u \in Live \ {EXIT} /\ v \in Live \ {ENTRY}
      BY DEF EdgesStay
    <3>5. CASE e[x][y] > 0
      <4>1. CASE edges[x][y] > 0
        BY <1>4, <3>1, <3>4, <4>1
      <4>2. CASE x = layout[r - 1] /\ edges[b][y] > 0
        <5>1. b \in Blocks
          BY <1>1, <1>2
        <5> QED
          BY <1>4, <3>1, <3>3, <3>4, <4>2, <5>1
      <4> QED
        BY <3>5, <4>1, <4>2
    <3> QED
      BY <1>4, <3>1, <3>2, <3>3, <3>5
  <2> QED
    BY <1>4, <2>1 DEF EdgesStay
<1>9. Loops'
  <2>1. ASSUME NEW i \in 1 .. n - 1, NEW j \in 1 .. n - 1, Edge(i, j)'
        PROVE  \/ Edge(Old(r, i), Old(r, j))
               \/ i = r - 1 /\ j = r
               \/ i = r - 1 /\ Edge(r, Old(r, j))
    <3>1. edges'[layout'[i]][layout'[j]] = Joined(e, r, i, j)
      BY EdgesAfter
    <3>2. Joined(e, r, i, j) > 0
      BY <2>1, <3>1 DEF Edge
    <3>3. Old(r, i) \in 1 .. n /\ Old(r, j) \in 1 .. n
      BY <1>1, OldFacts
    <3>4. Old(r, i) = r - 1 <=> i = r - 1
      BY <1>1, OldFacts
    <3>5. e[layout[Old(r, i)]][layout[Old(r, j)]] > 0 \/ (i = r - 1 /\ j = r)
      <4>1. e[layout[Old(r, i)]][layout[Old(r, j)]] \in Nat
        BY <1>2, <3>3
      <4> QED
        BY <3>2, <4>1, SMTT(30) DEF Joined
    <3>6. ASSUME e[layout[Old(r, i)]][layout[Old(r, j)]] > 0
          PROVE  Edge(Old(r, i), Old(r, j)) \/ (i = r - 1 /\ Edge(r, Old(r, j)))
      <4>1. layout[Old(r, i)] \in Blocks /\ layout[Old(r, j)] \in Blocks
        BY <1>2, <3>3
      <4>2. \/ edges[layout[Old(r, i)]][layout[Old(r, j)]] > 0
            \/ layout[Old(r, i)] = layout[r - 1] /\ edges[b][layout[Old(r, j)]] > 0
        BY <3>6, <4>1
      <4> QED
        BY <1>1, <1>3, <3>3, <3>4, <4>2 DEF Edge
    <3> QED
      BY <3>5, <3>6
  <2>2. \A i, j \in 1 .. Len(layout) - 1 :
          Edge(i, j)' => \/ Edge(Old(r, i), Old(r, j))
                         \/ i = r - 1 /\ j = r
                         \/ i = r - 1 /\ Edge(r, Old(r, j))
    BY <2>1
  <2>3. Len(layout) \in Nat /\ Len(layout') = Len(layout) - 1
    BY <1>1, <1>4
  <2> HIDE DEF n, b
  <2> QED
    BY <2>2, <2>3, LoopsKept
<1> QED
  BY <1>6, <1>8, <1>9

(* A block that is not needed goes: nothing that matters leads to it.      *)
LEMMA RemoveBlock ==
  ASSUME IInv, NEW r \in 2 .. Len(layout) - 1, pc \in {"dead", "merge"},
         layout' = Without(layout[r]), edges' = RemovedEdges(edges, layout[r]),
         code' = [code EXCEPT ![layout[r]] = <<>>],
         program' = program, facts' = facts, usage' = usage, pc' = pc,
         pc = "merge" => it' \in 1 .. Len(layout) - 1,
         pc = "dead" => LiveBlocks' \subseteq LiveBlocks,
         \A k \in 1 .. Len(layout) - 1 :
           k # r /\ (pc # "dead" \/ layout[k] \in LiveBlocks)
           /\ Leaps(Statements(layout[k]))
             => Last(Statements(layout[k])).target # layout[r]
  PROVE  IInv'
<1> DEFINE n == Len(layout)
           b == layout[r]
<1>1. /\ n \in Nat /\ r \in 1 .. n /\ r - 1 \in 1 .. n /\ r # 1 /\ r # n
      /\ r \in 2 .. n - 1
  <2>1. n \in Nat
    BY LayoutFacts DEF IInv
  <2> QED
    BY <2>1
<1>2. b \in 1 .. Len(code) /\ b > 0
  BY <1>1, Negative DEF IInv
<1>3. /\ code' \in Seq(Seq(Quads)) /\ Len(code') = Len(code)
      /\ \A c \in 1 .. Len(code) : code'[c] = IF c = b THEN <<>> ELSE code[c]
  <2>1. code \in Seq(Seq(Quads)) /\ <<>> \in Seq(Quads)
    BY DEF IInv, Types
  <2> QED
    BY <1>2, <2>1, SMTT(30)
<1>4. Types' /\ EdgesStay' /\ Loops'
  <2>1. edges \in [Blocks -> [Blocks -> Nat]]
    BY DEF IInv, Types
  <2>2. PICK e \in [Blocks -> [Blocks -> Nat]] : e = edges
    BY <2>1
  <2>3. edges' = RemovedEdges(e, layout[r])
    BY <2>2
  <2>4. \A a, c \in Blocks : e[a][c] > 0 =>
          edges[a][c] > 0 \/ (a = layout[r - 1] /\ edges[layout[r]][c] > 0)
    BY <2>2
  <2>5. Types /\ Arranged /\ EdgesStay /\ Loops
    BY DEF IInv
  <2> HIDE DEF b, n
  <2> QED
    BY <1>3, <2>3, <2>4, <2>5, Removal
<1>5. /\ Arranged' /\ Live' = Live \ {b} /\ Len(layout') = n - 1
      /\ \A i \in 1 .. n - 1 : layout'[i] = layout[Old(r, i)]
  BY <1>3, WithoutFacts DEF IInv
<1>6. JumpsLast' /\ OneBranch'
  <2>1. JumpsLast /\ OneBranch
    BY DEF IInv
  <2>2. JumpsLast'
    BY <1>3, <2>1 DEF JumpsLast
  <2>3. OneBranch'
    BY <1>3, <2>1 DEF OneBranch, Branches, EndsWith
  <2> QED
    BY <2>2, <2>3
<1>7. ASSUME NEW i \in 1 .. n - 1
      PROVE  /\ Old(r, i) \in 1 .. n /\ Old(r, i) # r
             /\ Statements(layout[i])' = Statements(layout[Old(r, i)])
             /\ layout[Old(r, i)] > 0 =>
                  /\ layout[Old(r, i)] \in 1 .. Len(code)
                  /\ code'[layout[Old(r, i)]] = code[layout[Old(r, i)]]
  <2>1. Old(r, i) \in 1 .. n /\ Old(r, i) # r
    BY <1>1 DEF Old
  <2>2. layout[Old(r, i)] \in Blocks /\ layout[Old(r, i)] # b
    BY <1>1, <2>1, LayoutFacts DEF IInv, Arranged
  <2>3. layout[Old(r, i)] > 0 => layout[Old(r, i)] \in 1 .. Len(code)
    BY <2>2 DEF Blocks, ENTRY, EXIT
  <2>4. layout[Old(r, i)] > 0 => code'[layout[Old(r, i)]] = code[layout[Old(r, i)]]
    BY <1>3, <2>2, <2>3
  <2>5. layout'[i] = layout[Old(r, i)]
    BY <1>5
  <2>6. Statements(layout[i])' = Statements(layout[Old(r, i)])
    BY <2>4, <2>5 DEF Statements
  <2> QED
    BY <2>1, <2>3, <2>4, <2>6
<1>8. Pending'
  <2>1. ASSUME NEW i \in 1 .. n - 1, layout'[i] > 0, Branches(code'[layout'[i]]),
               facts[Last(code'[layout'[i]]).id] \in {"zero", "one"}
        PROVE  FALSE
    <3>1. /\ layout[Old(r, i)] > 0 /\ Branches(code[layout[Old(r, i)]])
          /\ facts[Last(code[layout[Old(r, i)]]).id] \in {"zero", "one"}
      BY <1>5, <1>7, <2>1
    <3> QED
      BY <1>7, <3>1 DEF IInv, Pending
  <2> QED
    BY <1>5, <2>1 DEF Pending, Branches, EndsWith
<1>9. Cover'
  <2>1. ASSUME NEW i \in 1 .. n - 2, pc # "dead" \/ layout'[i] \in LiveBlocks'
        PROVE  Covered(i)'
    <3>1. i \in 1 .. n - 1 /\ i + 1 \in 1 .. n - 1 /\ i # n - 1
      BY <1>1, SMTT(30)
    <3>2. /\ Old(r, i) \in 1 .. n - 1 /\ Old(r, i) # r
          /\ Old(r, i + 1) = IF i = r - 1 THEN r + 1 ELSE Old(r, i) + 1
          /\ Old(r, i + 1) \in 1 .. n
      BY <1>1, <3>1, OldFacts
    <3>3. pc # "dead" \/ layout[Old(r, i)] \in LiveBlocks
      BY <1>5, <2>1, <3>1
    <3>4. Covered(Old(r, i))
      BY <3>2, <3>3 DEF IInv, Cover
    <3> DEFINE block == Statements(layout[Old(r, i)])
    <3>5. Statements(layout[i])' = block
      BY <1>7, <3>1
    <3>6. ASSUME NEW j \in 1 .. n - 1
          PROVE  edges'[layout'[i]][layout'[j]] =
                   edges[layout[Old(r, i)]][layout[Old(r, j)]]
                     + (IF i = r - 1 /\ j = r THEN edges[layout[r - 1]][layout[r]] ELSE 0)
      <4>1. edges \in [Blocks -> [Blocks -> Nat]]
        BY DEF IInv, Types
      <4>2. PICK e \in [Blocks -> [Blocks -> Nat]] : e = edges
        BY <4>1
      <4>3. edges' = RemovedEdges(e, layout[r])
        BY <4>2
      <4>4. edges'[layout'[i]][layout'[j]] = Joined(e, r, i, j)
        <5>1. Types /\ Arranged
          BY DEF IInv
        <5>2. \A g, k \in 1 .. Len(layout) - 1 :
                edges'[layout'[g]][layout'[k]] = Joined(e, r, g, k)
          BY <1>3, <4>3, <5>1, EdgesAfter
        <5> QED
          BY <3>1, <5>2
      <4> QED
        BY <4>2, <4>4 DEF Joined
    <3>7. \A h, k \in 1 .. n : edges[layout[h]][layout[k]] \in Nat
      BY LayoutFacts DEF IInv, Types
    <3>8. Falls(block) => edges'[layout'[i]][layout'[i + 1]] > 0
      <4> SUFFICES ASSUME Falls(block) PROVE edges'[layout'[i]][layout'[i + 1]] > 0
        OBVIOUS
      <4>1. edges[layout[Old(r, i)]][layout[Old(r, i) + 1]] > 0
        BY <3>4 DEF Covered, Edge
      <4>2. CASE i = r - 1
        <5>1. Old(r, i) = r - 1 /\ i + 1 = r /\ r - 1 + 1 = r
          BY <1>1, <4>2 DEF Old
        <5>2. edges[layout[r - 1]][layout[r]] > 0
          BY <4>1, <5>1
        <5>3. edges[layout[Old(r, i)]][layout[Old(r, i + 1)]] \in Nat
          <6>1. Old(r, i) \in 1 .. n /\ Old(r, i + 1) \in 1 .. n
            BY <1>1, <3>2
          <6> QED
            BY <3>7, <6>1
        <5>4. edges[layout[r - 1]][layout[r]] \in Nat
          BY <1>1, <3>7
        <5>5. edges'[layout'[i]][layout'[i + 1]] =
                edges[layout[Old(r, i)]][layout[Old(r, i + 1)]] + edges[layout[r - 1]][layout[r]]
          BY <3>1, <3>6, <4>2, <5>1
        <5> QED
          BY <5>2, <5>3, <5>4, <5>5, PositiveSum
      <4>3. CASE i # r - 1
        <5>1. /\ edges[layout[Old(r, i)]][layout[Old(r, i + 1)]] > 0
              /\ edges[layout[Old(r, i)]][layout[Old(r, i + 1)]] \in Nat
          <6>1. Old(r, i + 1) = Old(r, i) + 1
            BY <3>2, <4>3
          <6>2. Old(r, i) \in 1 .. n /\ Old(r, i + 1) \in 1 .. n
            BY <1>1, <3>2
          <6>3. edges[layout[Old(r, i)]][layout[Old(r, i + 1)]] \in Nat
            BY <3>7, <6>2
          <6> QED
            BY <4>1, <6>1, <6>3
        <5>2. edges'[layout'[i]][layout'[i + 1]] =
                edges[layout[Old(r, i)]][layout[Old(r, i + 1)]]
                  + (IF i = r - 1 /\ i + 1 = r THEN edges[layout[r - 1]][layout[r]] ELSE 0)
          BY <3>1, <3>6
        <5>3. (IF i = r - 1 /\ i + 1 = r THEN edges[layout[r - 1]][layout[r]] ELSE 0) = 0
          BY <4>3
        <5> QED
          BY <5>1, <5>2, <5>3, PositiveSum
      <4> QED
        BY <4>2, <4>3
    <3>9. Leaps(block) => edges'[layout'[i]][Last(block).target] > 0
      <4> SUFFICES ASSUME Leaps(block) PROVE edges'[layout'[i]][Last(block).target] > 0
        OBVIOUS
      <4> DEFINE t == Last(block).target
      <4>1. edges[layout[Old(r, i)]][t] > 0
        BY <3>4 DEF Covered
      <4>2. t # b
        BY <3>2, <3>3
      <4>3. t \in Blocks
        <5>1. layout[Old(r, i)] > 0 /\ block = code[layout[Old(r, i)]] /\ block # <<>>
          BY DEF Leaps, EndsWith, Statements
        <5>2. layout[Old(r, i)] \in 1 .. Len(code)
          BY <1>7, <3>1, <5>1
        <5>3. /\ block \in Seq(Quads) /\ Len(block) \in 1 .. Len(block)
              /\ Last(block) = block[Len(block)]
          <6>1. block \in Seq(Quads)
            BY <5>1, <5>2 DEF IInv, Types
          <6> QED
            BY <5>1, <6>1 DEF Last
        <5> QED
          BY <5>1, <5>2, <5>3 DEF IInv, JumpsLast, Leaps, EndsWith, Blocks
      <4>4. t \in Live /\ layout[Old(r, i)] \in Blocks
        <5>1. layout[Old(r, i)] \in Blocks
          BY <1>7, <3>1, LayoutFacts, ZenonT(30) DEF IInv
        <5> HIDE DEF t
        <5> QED
          BY <4>1, <4>3, <5>1 DEF IInv, EdgesStay
      <4>5. PICK k \in 1 .. n : t = layout[k] /\ k # r
        BY <4>2, <4>4, LayoutFacts DEF IInv
      <4> HIDE DEF t
      <4>6. PICK j \in 1 .. n - 1 : k = Old(r, j)
        <5>1. \A g \in 1 .. n : g # r => \E j \in 1 .. n - 1 : g = Old(r, j)
          BY <1>1, OldOnto
        <5> QED
          BY <4>5, <5>1
      <4>7. layout'[j] = t
        BY <1>5, <4>5, <4>6
      <4>8. /\ edges[layout[Old(r, i)]][layout[Old(r, j)]] > 0
            /\ edges[layout[Old(r, i)]][layout[Old(r, j)]] \in Nat
            /\ edges[layout[r - 1]][layout[r]] \in Nat
        <5>1. edges[layout[Old(r, i)]][layout[Old(r, j)]] > 0
          BY <4>1, <4>5, <4>6
        <5>2. edges[layout[Old(r, i)]][layout[Old(r, j)]] \in Nat
          BY <1>7, <3>1, <3>7, <4>6
        <5>3. edges[layout[r - 1]][layout[r]] \in Nat
          BY <1>1, <3>7
        <5> QED
          BY <5>1, <5>2, <5>3
      <4>9. edges'[layout'[i]][layout'[j]] > 0
        <5>1. edges'[layout'[i]][layout'[j]] =
                edges[layout[Old(r, i)]][layout[Old(r, j)]]
                  + (IF i = r - 1 /\ j = r THEN edges[layout[r - 1]][layout[r]] ELSE 0)
          BY <3>6
        <5>2. (IF i = r - 1 /\ j = r THEN edges[layout[r - 1]][layout[r]] ELSE 0) \in Nat
          BY <4>8
        <5> QED
          BY <4>8, <5>1, <5>2, PositiveSum
      <4> QED
        BY <4>7, <4>9 DEF t
    <3> HIDE DEF block
    <3> QED
      BY <3>5, <3>8, <3>9 DEF Covered, Edge, Falls, Leaps, EndsWith
  <2>2. Len(layout') - 1 = n - 2
    BY <1>1, <1>5
  <2> QED
    BY <2>1, <2>2 DEF Cover
<1>10. Used'
  <2>1. ASSUME pc = "merge", NEW c \in Live', c > 0, Leaps(code'[c])
        PROVE  Last(code'[c]).target \in usage
    <3>1. c \in Live /\ c # b
      BY <1>5, <2>1
    <3>2. c \in 1 .. Len(code)
      <4>1. c \in Blocks
        BY <3>1, LayoutFacts DEF IInv
      <4> QED
        BY <2>1, <4>1 DEF Blocks, ENTRY, EXIT
    <3>3. code'[c] = code[c]
      BY <1>3, <3>1, <3>2
    <3> QED
      BY <2>1, <3>1, <3>3 DEF IInv, Used
  <2> QED
    BY <2>1 DEF Used, Leaps, EndsWith
<1> QED
  BY <1>4, <1>5, <1>6, <1>8, <1>9, <1>10 DEF IInv

LEMMA RemoveDeadStep ==
  ASSUME IInv, RemoveDead
  PROVE  IInv'
<1>1. /\ pc = "dead" /\ pc' = pc /\ program' = program /\ facts' = facts /\ usage' = usage
  BY DEF RemoveDead
<1>2. PICK b \in Live \ LiveBlocks :
        /\ layout' = Without(b) /\ edges' = RemovedEdges(edges, b)
        /\ code' = [code EXCEPT ![b] = <<>>]
  BY DEF RemoveDead
<1>3. Closed(LiveBlocks)
  BY LeastLive DEF LiveIsLeast, IInv
<1>4. PICK r \in 1 .. Len(layout) : b = layout[r]
  BY LayoutFacts DEF IInv
<1>5. r \in 2 .. Len(layout) - 1
  <2>1. ~(layout[r] < 0)
    BY <1>2, <1>3, <1>4, SMTT(30) DEF Closed
  <2>2. r # 1 /\ r # Len(layout) /\ Len(layout) \in Nat
    BY <2>1, LayoutFacts, Negative, ZenonT(30) DEF IInv
  <2> QED
    BY <2>2
<1>6. LiveBlocks' \subseteq LiveBlocks
  <2>1. Len(code') = Len(code)
    BY <1>2 DEF IInv, Types
  <2> QED
    BY <1>2, <1>4, <1>5, <2>1, LiveShrinks DEF IInv
<1>7. ASSUME NEW k \in 1 .. Len(layout) - 1, layout[k] \in LiveBlocks,
             Leaps(Statements(layout[k]))
      PROVE  Last(Statements(layout[k])).target # layout[r]
  <2> SUFFICES ASSUME Last(Statements(layout[k])).target = layout[r] PROVE FALSE
    OBVIOUS
  <2>1. Covered(k)
    BY <1>7 DEF IInv, Cover
  <2>2. Edge(k, r)
    BY <1>7, <2>1 DEF Covered, Edge
  <2>3. k \in 1 .. Len(layout)
    BY LayoutFacts DEF IInv
  <2>4. layout[r] \in LiveBlocks
    BY <1>7, <2>2, <2>3, LiveFollows DEF IInv
  <2> QED
    BY <1>2, <1>4, <2>4
<1> QED
  BY <1>1, <1>2, <1>4, <1>5, <1>6, <1>7, RemoveBlock

LEMMA EraseEmptyStep ==
  ASSUME IInv, EraseEmpty
  PROVE  IInv'
<1> DEFINE n == Len(layout)
<1>1. /\ pc = "merge" /\ pc' = pc /\ program' = program /\ facts' = facts /\ usage' = usage
      /\ layout[it] > 0 /\ layout[it] \notin usage
      /\ layout' = Without(layout[it]) /\ edges' = RemovedEdges(edges, layout[it])
      /\ code' = [code EXCEPT ![layout[it]] = <<>>]
      /\ it' = Len(layout')
  BY DEF EraseEmpty, IsEmpty, b_
<1>2. PICK r \in 1 .. n : r = it
  BY <1>1 DEF IInv, Types
<1>3. r \in 2 .. n - 1 /\ n \in Nat
  <2>1. r # 1 /\ r # n /\ n \in Nat
    <3>1. ~(layout[r] < 0)
      BY <1>1, <1>2, Negative DEF IInv
    <3> QED
      BY <3>1, LayoutFacts, Negative, ZenonT(30) DEF IInv
  <2> QED
    BY <2>1
<1>4. Len(code') = Len(code)
  BY <1>1 DEF IInv, Types
<1>5. it' \in 1 .. n - 1
  <2>1. Len(layout') = n - 1
    BY <1>1, <1>2, <1>3, <1>4, WithoutFacts DEF IInv
  <2> QED
    BY <1>1, <1>3, <2>1
<1>6. ASSUME NEW k \in 1 .. n - 1, Leaps(Statements(layout[k]))
      PROVE  Last(Statements(layout[k])).target # layout[r]
  <2>1. layout[k] \in Live
    BY <1>3, LayoutFacts DEF IInv
  <2>2. layout[k] > 0 /\ Statements(layout[k]) = code[layout[k]]
    BY <1>6 DEF Leaps, EndsWith, Statements
  <2>3. Last(code[layout[k]]).target \in usage
    BY <1>1, <1>6, <2>1, <2>2 DEF IInv, Used
  <2> QED
    BY <1>1, <1>2, <2>2, <2>3
<1> QED
  BY <1>1, <1>2, <1>3, <1>5, <1>6, RemoveBlock

(* Two blocks joined, of which the first has no jump.                      *)
JumpsOfSecond(s, t, joined) ==
  /\ joined \in Seq(Quads)
  /\ \A i \in 1 .. Len(joined) : joined[i].op \in Jumps =>
       /\ i - Len(s) \in 1 .. Len(t) /\ joined[i] = t[i - Len(s)]
       /\ i = Len(joined) <=> i - Len(s) = Len(t)
  /\ Leaps(joined) => Leaps(t) /\ Last(joined) = Last(t)

LEMMA JoinFacts ==
  ASSUME NEW s \in Seq(Quads), NEW t \in Seq(Quads),
         \A i \in 1 .. Len(s) : s[i].op \notin Jumps
  PROVE  JumpsOfSecond(s, t, s \o t)
<1> DEFINE m == s \o t
<1>1. Len(s) \in Nat /\ Len(t) \in Nat
  OBVIOUS
<1>2. /\ m \in Seq(Quads) /\ Len(m) = Len(s) + Len(t)
      /\ \A i \in 1 .. Len(s) + Len(t) : m[i] = IF i <= Len(s) THEN s[i] ELSE t[i - Len(s)]
  BY ConcatProperties, Zenon
<1> HIDE DEF m
<1>3. ASSUME NEW i \in 1 .. Len(m), m[i].op \in Jumps
      PROVE  /\ i - Len(s) \in 1 .. Len(t) /\ m[i] = t[i - Len(s)]
             /\ i = Len(m) <=> i - Len(s) = Len(t)
  <2>1. ~(i <= Len(s))
    <3> SUFFICES ASSUME i <= Len(s) PROVE FALSE
      OBVIOUS
    <3>1. i \in 1 .. Len(s) /\ m[i] = s[i]
      BY <1>1, <1>2
    <3> QED
      BY <1>3, <3>1
  <2>2. i - Len(s) \in 1 .. Len(t)
    BY <1>1, <1>2, <2>1
  <2>3. m[i] = t[i - Len(s)]
    BY <1>1, <1>2, <2>1
  <2>4. i = Len(m) <=> i - Len(s) = Len(t)
    BY <1>1, <1>2
  <2> QED
    BY <2>2, <2>3, <2>4
<1>4. ASSUME Leaps(m) PROVE Leaps(t) /\ Last(m) = Last(t)
  <2>1. m # <<>> /\ m[Len(m)].op \in Jumps
    BY <1>4 DEF Leaps, EndsWith, Last
  <2>2. Len(m) \in 1 .. Len(m)
    BY <1>2, <2>1
  <2>3. Len(m) - Len(s) \in 1 .. Len(t) /\ m[Len(m)] = t[Len(m) - Len(s)]
    BY <1>3, <2>1, <2>2
  <2>4. m[Len(m)] = t[Len(t)] /\ t # <<>>
    BY <1>1, <1>2, <2>3
  <2> QED
    BY <2>1, <2>4 DEF Leaps, EndsWith, Last
<1> QED
  BY <1>2, <1>3, <1>4 DEF m, JumpsOfSecond

(* The block at k takes the quadruples of the next one.                    *)
Merging(k) ==
  /\ IInv /\ pc = "merge" /\ k \in 2 .. Len(layout) - 2
  /\ k + 1 \in 2 .. Len(layout) - 1 /\ Len(layout) \in Nat
  /\ layout[k] \in 1 .. Len(code) /\ layout[k + 1] \in 1 .. Len(code)
  /\ layout[k] # layout[k + 1]
  /\ layout[k + 1] \notin usage
  /\ \A i \in 1 .. Len(code[layout[k]]) : code[layout[k]][i].op \notin Jumps
  /\ layout' = Without(layout[k + 1])
  /\ edges' = MergedEdges(layout[k + 1])
  /\ code' = [code EXCEPT ![layout[k]] = @ \o code[layout[k + 1]],
                          ![layout[k + 1]] = <<>>]
  /\ k = it /\ it' = k - 1
  /\ program' = program /\ facts' = facts /\ usage' = usage /\ pc' = pc

LEMMA MergingStarts ==
  ASSUME IInv, MergeNext
  PROVE  \E k \in 1 .. Len(layout) : Merging(k)
<1> DEFINE n == Len(layout)
<1>1. /\ pc = "merge" /\ pc' = pc /\ program' = program /\ facts' = facts /\ usage' = usage
      /\ b_ > 0 /\ CanMerge(Next_(b_)) /\ (AllNops(b_) \/ FallsThrough(b_))
      /\ layout' = Without(Next_(b_)) /\ edges' = MergedEdges(Next_(b_))
      /\ code' = [code EXCEPT ![b_] = @ \o code[Next_(b_)], ![Next_(b_)] = <<>>]
      /\ it' = it - 1
  BY DEF MergeNext, Mergeable, IsEmpty, IsFull
<1>2. PICK k \in 1 .. n : k = it
  BY <1>1 DEF IInv, Types
<1>3. n \in Nat /\ b_ = layout[k] /\ Next_(b_) = layout[k + 1]
  BY <1>2, LayoutFacts, AtPosition DEF IInv, b_
<1>4. k # 1 /\ k # n
  <2>1. ~(layout[k] < 0)
    BY <1>1, <1>3, Negative DEF IInv
  <2> QED
    BY <2>1, Negative DEF IInv
<1>5. k + 1 \in 1 .. n /\ k + 1 # n /\ layout[k + 1] \notin usage
  <2>1. layout[n] = EXIT
    BY DEF IInv, Arranged
  <2> QED
    BY <1>1, <1>3, <1>4, <2>1 DEF CanMerge
<1>6. k \in 2 .. n - 2 /\ k + 1 \in 2 .. n - 1
  BY <1>3, <1>4, <1>5
<1>7. layout[k] \in 1 .. Len(code) /\ layout[k + 1] \in 1 .. Len(code)
  <2>1. k + 1 # 1
    BY <1>3
  <2> QED
    BY <1>4, <1>5, <2>1, Negative DEF IInv
<1>8. layout[k] # layout[k + 1]
  <2>1. k # k + 1
    BY <1>3
  <2> QED
    BY <1>5, <2>1 DEF IInv, Arranged
<1>9. ASSUME NEW i \in 1 .. Len(code[layout[k]])
      PROVE  code[layout[k]][i].op \notin Jumps
  <2>1. DOMAIN code[layout[k]] = 1 .. Len(code[layout[k]])
    BY <1>7 DEF IInv, Types
  <2>2. CASE AllNops(b_)
    BY <1>3, <2>1, <2>2 DEF AllNops, Jumps
  <2>3. CASE FallsThrough(b_)
    <3>1. Last(code[layout[k]]).op \notin Jumps
      BY <1>3, <2>3 DEF FallsThrough
    <3>2. code[layout[k]][i].op \in Jumps => i = Len(code[layout[k]])
      BY <1>7 DEF IInv, JumpsLast
    <3> QED
      BY <3>1, <3>2 DEF Last
  <2> QED
    BY <1>1, <2>2, <2>3
<1> QED
  BY <1>1, <1>2, <1>3, <1>5, <1>6, <1>7, <1>8, <1>9 DEF Merging

(* What the blocks are made of then: a jump is one that was there.         *)
Origin(k, c) == IF c = layout[k] THEN layout[k + 1] ELSE c

LEMMA MergedCode ==
  ASSUME NEW k \in 1 .. Len(layout), Merging(k)
  PROVE  /\ code' \in Seq(Seq(Quads)) /\ Len(code') = Len(code)
         /\ \A c \in 1 .. Len(code) :
              code'[c] = IF c = layout[k] THEN code[layout[k]] \o code[layout[k + 1]]
                         ELSE IF c = layout[k + 1] THEN <<>> ELSE code[c]
         /\ \A c \in 1 .. Len(code) :
              Leaps(code'[c]) => /\ c # layout[k + 1]
                                 /\ Leaps(code[Origin(k, c)])
                                 /\ Last(code'[c]) = Last(code[Origin(k, c)])
         /\ JumpsLast'
<1> DEFINE b == layout[k]
           next == layout[k + 1]
           m == code[b] \o code[next]
<1>1. /\ b \in 1 .. Len(code) /\ next \in 1 .. Len(code) /\ b # next
      /\ code' = [code EXCEPT ![b] = @ \o code[next], ![next] = <<>>]
      /\ \A i \in 1 .. Len(code[b]) : code[b][i].op \notin Jumps
      /\ code \in Seq(Seq(Quads)) /\ JumpsLast
  BY DEF Merging, IInv, Types
<1> HIDE DEF b, next
<1>2. code[b] \in Seq(Quads) /\ code[next] \in Seq(Quads)
  BY <1>1
<1>3. /\ m \in Seq(Quads)
      /\ \A i \in 1 .. Len(m) : m[i].op \in Jumps =>
           /\ i - Len(code[b]) \in 1 .. Len(code[next])
           /\ m[i] = code[next][i - Len(code[b])]
           /\ i = Len(m) <=> i - Len(code[b]) = Len(code[next])
      /\ Leaps(m) => Leaps(code[next]) /\ Last(m) = Last(code[next])
  <2>1. JumpsOfSecond(code[b], code[next], m)
    BY <1>1, <1>2, JoinFacts
  <2> HIDE DEF m
  <2> QED
    BY <2>1 DEF JumpsOfSecond
<1> HIDE DEF m
<1>4. /\ code' \in Seq(Seq(Quads)) /\ Len(code') = Len(code)
      /\ \A c \in 1 .. Len(code) :
           code'[c] = IF c = b THEN m ELSE IF c = next THEN <<>> ELSE code[c]
  <2>1. <<>> \in Seq(Quads)
    OBVIOUS
  <2> DEFINE first == [code EXCEPT ![b] = m]
  <2>2. code' = [first EXCEPT ![next] = <<>>]
    BY <1>1 DEF m
  <2>3. /\ first \in Seq(Seq(Quads)) /\ Len(first) = Len(code)
        /\ \A c \in 1 .. Len(code) : first[c] = IF c = b THEN m ELSE code[c]
    <3>1. m \in Seq(Quads)
      BY <1>3
    <3> QED
      BY <1>1, <3>1, SMTT(30)
  <2> HIDE DEF first
  <2>4. /\ code' \in Seq(Seq(Quads)) /\ Len(code') = Len(first)
        /\ \A c \in 1 .. Len(first) : code'[c] = IF c = next THEN <<>> ELSE first[c]
    <3>1. next \in 1 .. Len(first) /\ first \in Seq(Seq(Quads))
      BY <1>1, <2>3
    <3>2. code' \in Seq(Seq(Quads)) /\ Len(code') = Len(first)
      BY <2>1, <2>2, <3>1
    <3>3. ASSUME NEW c \in 1 .. Len(first)
          PROVE  code'[c] = IF c = next THEN <<>> ELSE first[c]
      BY <2>2, <3>1
    <3> QED
      BY <3>2, <3>3
  <2> QED
    BY <1>1, <2>3, <2>4
<1>5. ASSUME NEW c \in 1 .. Len(code), Leaps(code'[c])
      PROVE  /\ c # next /\ Leaps(code[Origin(k, c)])
             /\ Last(code'[c]) = Last(code[Origin(k, c)])
  <2>1. c # next
    <3>1. code'[c] # <<>>
      BY <1>5 DEF Leaps, EndsWith
    <3> QED
      BY <1>1, <1>4, <3>1
  <2>2. CASE c = b
    <3>1. code'[c] = m /\ Origin(k, c) = next
      BY <1>4, <2>2 DEF Origin, b, next
    <3> QED
      BY <1>3, <1>5, <2>1, <3>1
  <2>3. CASE c # b
    <3>1. code'[c] = code[c] /\ Origin(k, c) = c
      BY <1>4, <2>1, <2>3 DEF Origin, b
    <3> QED
      BY <1>5, <2>1, <3>1
  <2> QED
    BY <2>1, <2>2, <2>3
<1>6. JumpsLast'
  <2>1. ASSUME NEW c \in 1 .. Len(code), NEW i \in 1 .. Len(code'[c]),
               code'[c][i].op \in Jumps
        PROVE  i = Len(code'[c]) /\ code'[c][i].target \in 1 .. Len(code)
    <3>1. CASE c = b
      <4>1. code'[c] = m
        BY <1>4, <3>1
      <4>2. /\ i - Len(code[b]) \in 1 .. Len(code[next])
            /\ m[i] = code[next][i - Len(code[b])]
            /\ i = Len(m) <=> i - Len(code[b]) = Len(code[next])
        BY <1>3, <2>1, <4>1
      <4>3. /\ i - Len(code[b]) = Len(code[next])
            /\ m[i].target \in 1 .. Len(code)
        BY <1>1, <2>1, <4>1, <4>2 DEF JumpsLast
      <4> QED
        BY <4>1, <4>2, <4>3
    <3>2. CASE c = next
      <4>1. code'[c] = <<>>
        BY <1>1, <1>4, <3>2
      <4> QED
        BY <2>1, <4>1
    <3>3. CASE c # b /\ c # next
      <4>1. code'[c] = code[c]
        BY <1>4, <3>3
      <4> QED
        BY <1>1, <2>1, <4>1 DEF JumpsLast
    <3> QED
      BY <3>1, <3>2, <3>3
  <2> QED
    BY <1>4, <2>1 DEF JumpsLast
<1> QED
  BY <1>4, <1>5, <1>6 DEF m, b, next

(* The edges that the block has when the next one goes.                    *)
TakenEdges(k, a, c) ==
  IF a = layout[k] /\ code[layout[k + 1]] # <<>> /\ c # layout[k + 2]
  THEN edges[a][c] + edges[layout[k + 1]][c] ELSE edges[a][c]

LEMMA MergedEdgesFacts ==
  ASSUME NEW k \in 1 .. Len(layout), Merging(k)
  PROVE  \E e \in [Blocks -> [Blocks -> Nat]] :
           /\ edges' = RemovedEdges(e, layout[k + 1])
           /\ \A a, c \in Blocks : e[a][c] = TakenEdges(k, a, c)
<1> DEFINE b == layout[k]
           next == layout[k + 1]
           value(y) == IF code[next] # <<>> /\ y # NextOf(layout, next)
                       THEN edges[b][y] + edges[next][y] ELSE edges[b][y]
           taken == [y \in Blocks |-> value(y)]
           e == [edges EXCEPT ![b] = taken]
<1>1. /\ Len(layout) \in Nat /\ k + 1 \in 1 .. Len(layout)
      /\ k + 2 \in 1 .. Len(layout) /\ k + 1 + 1 = k + 2
  BY DEF Merging
<1>2. b \in Blocks /\ next \in Blocks
  BY <1>1, LayoutFacts DEF Merging, IInv
<1>3. edges \in [Blocks -> [Blocks -> Nat]]
  BY DEF Merging, IInv, Types
<1>4. b_ = b /\ NextOf(layout, next) = layout[k + 2]
  <2>1. k = it
    BY DEF Merging
  <2>2. Next_(next) = layout[k + 1 + 1]
    BY <1>1, AtPosition DEF Merging, IInv
  <2> QED
    BY <1>1, <2>1, <2>2 DEF b_, Next_
<1>5. edges' = RemovedEdges(e, next)
  <2>1. edges' = MergedEdges(next)
    BY DEF Merging
  <2>2. Ids = Blocks
    BY <1>3 DEF Ids
  <2> QED
    BY <1>4, <2>1, <2>2 DEF MergedEdges
<1>6. taken \in [Blocks -> Nat] /\ \A y \in Blocks : taken[y] = value(y)
  <2>1. \A y \in Blocks : value(y) \in Nat
    BY <1>2, <1>3, SMTT(30)
  <2> HIDE DEF value
  <2> QED
    BY <2>1
<1> HIDE DEF taken
<1>7. /\ e \in [Blocks -> [Blocks -> Nat]]
      /\ \A a, c \in Blocks : e[a][c] = IF a = b THEN taken[c] ELSE edges[a][c]
  BY <1>2, <1>3, <1>6
<1> HIDE DEF e
<1>8. ASSUME NEW a \in Blocks, NEW c \in Blocks PROVE e[a][c] = TakenEdges(k, a, c)
  <2>1. CASE a = b
    BY <1>4, <1>6, <1>7, <2>1 DEF TakenEdges
  <2>2. CASE a # b
    BY <1>7, <2>2 DEF TakenEdges
  <2> QED
    BY <2>1, <2>2
<1> QED
  BY <1>5, <1>7, <1>8

(* A jump of a block that stays leads to a block that stays.               *)
LEMMA MergedTargets ==
  ASSUME NEW k \in 1 .. Len(layout), Merging(k), NEW h \in 1 .. Len(layout) - 1,
         Leaps(Statements(layout[h]))
  PROVE  /\ Last(Statements(layout[h])).target \in Blocks
         /\ edges[layout[h]][Last(Statements(layout[h])).target] > 0
         /\ \E j \in 1 .. Len(layout) - 1 :
              /\ layout'[j] = Last(Statements(layout[h])).target
              /\ layout[Old(k + 1, j)] = Last(Statements(layout[h])).target
<1> DEFINE block == Statements(layout[h])
           t == Last(block).target
           n == Len(layout)
<1>1. /\ n \in Nat /\ h \in 1 .. n /\ k + 1 \in 2 .. n - 1 /\ pc = "merge"
      /\ layout[k + 1] \notin usage
  BY DEF Merging
<1>2. layout[h] > 0 /\ block = code[layout[h]] /\ block # <<>>
  BY DEF Leaps, EndsWith, Statements
<1>3. layout[h] \in 1 .. Len(code) /\ layout[h] \in Live /\ layout[h] \in Blocks
  <2>1. layout[h] \in Blocks /\ layout[h] \in Live
    BY <1>1, LayoutFacts DEF Merging, IInv
  <2> QED
    BY <1>2, <2>1 DEF Blocks, ENTRY, EXIT
<1>4. t \in Blocks
  <2>1. block \in Seq(Quads)
    BY <1>2, <1>3 DEF Merging, IInv, Types
  <2>2. Len(block) \in 1 .. Len(block) /\ Last(block) = block[Len(block)]
    BY <1>2, <2>1 DEF Last
  <2>3. Last(block).op \in Jumps
    BY DEF Leaps, EndsWith
  <2> QED
    BY <1>2, <1>3, <2>2, <2>3 DEF Merging, IInv, JumpsLast, Blocks
<1>5. edges[layout[h]][t] > 0
  BY <1>1 DEF Merging, IInv, Cover, Covered
<1>6. t # layout[k + 1]
  <2>1. t \in usage
    BY <1>1, <1>2, <1>3 DEF Merging, IInv, Used
  <2> HIDE DEF t
  <2> QED
    BY <1>1, <2>1
<1> HIDE DEF t, block
<1>7. t \in Live
  BY <1>3, <1>4, <1>5 DEF Merging, IInv, EdgesStay
<1>8. PICK g \in 1 .. n : t = layout[g] /\ g # k + 1
  BY <1>6, <1>7, LayoutFacts DEF Merging, IInv
<1>9. PICK j \in 1 .. n - 1 : g = Old(k + 1, j)
  <2>1. \A x \in 1 .. n : x # k + 1 => \E j \in 1 .. n - 1 : x = Old(k + 1, j)
    <3> HIDE DEF n
    <3> QED
      BY <1>1, OldOnto
  <2> QED
    BY <1>8, <2>1
<1>10. layout'[j] = layout[Old(k + 1, j)]
  <2>1. layout' = Without(layout[k + 1]) /\ Len(code') = Len(code)
    BY MergedCode DEF Merging
  <2> QED
    BY <1>1, <2>1, WithoutFacts, SMTT(30) DEF Merging, IInv
<1> QED
  BY <1>4, <1>5, <1>8, <1>9, <1>10 DEF t, block

LEMMA MergedCover ==
  ASSUME NEW k \in 1 .. Len(layout), Merging(k),
         NEW e \in [Blocks -> [Blocks -> Nat]], edges' = RemovedEdges(e, layout[k + 1]),
         \A a, c \in Blocks : e[a][c] = TakenEdges(k, a, c),
         NEW i \in 1 .. Len(layout) - 2
  PROVE  Covered(i)'
<1> DEFINE n == Len(layout)
           r == k + 1
           h == Old(r, i)
           b == layout[k]
           next == layout[k + 1]
<1>1. /\ n \in Nat /\ r \in 2 .. n - 1 /\ k = r - 1 /\ r \in 1 .. n
      /\ i \in 1 .. n - 1 /\ i + 1 \in 1 .. n - 1 /\ i # n - 1
      /\ b \in 1 .. Len(code) /\ next \in 1 .. Len(code) /\ pc = "merge"
  BY DEF Merging
<1>2. /\ layout' = Without(layout[r]) /\ Len(code') = Len(code) /\ edges' = RemovedEdges(e, layout[r])
  BY MergedCode DEF Merging
<1> HIDE DEF n, r
<1>3. /\ h \in 1 .. n - 1 /\ h # r
      /\ Old(r, i + 1) = IF i = r - 1 THEN r + 1 ELSE h + 1
      /\ Old(r, i + 1) \in 1 .. n
      /\ h = r - 1 <=> i = r - 1
  <2>1. h \in 1 .. n - 1 /\ h # r
    BY <1>1 DEF Old
  <2>2. Old(r, i + 1) = IF i = r - 1 THEN r + 1 ELSE h + 1
    BY <1>1 DEF Old
  <2>3. Old(r, i + 1) \in 1 .. n
    BY <1>1 DEF Old
  <2>4. h = r - 1 <=> i = r - 1
    BY <1>1 DEF Old
  <2> QED
    BY <2>1, <2>2, <2>3, <2>4
<1> HIDE DEF h
<1>4. layout'[i] = layout[h] /\ layout[h] \in Blocks
  <2>1. layout'[i] = layout[h]
    BY <1>1, <1>2, WithoutFacts DEF Merging, IInv, n, h
  <2>2. h \in 1 .. n
    BY <1>1, <1>3
  <2> QED
    BY <2>1, <2>2, LayoutFacts DEF Merging, IInv, n
<1>5. \A g, j \in 1 .. n : layout[g] \in Blocks /\ (layout[g] = layout[j] => g = j)
  BY LayoutFacts DEF Merging, IInv, Arranged, n
<1>6. ASSUME NEW a \in Blocks, NEW c \in Blocks
      PROVE  /\ e[a][c] \in Nat /\ edges[a][c] \in Nat
             /\ edges[a][c] > 0 => e[a][c] > 0
  <2>1. next \in Blocks
    BY <1>1, <1>5 DEF r
  <2>2. edges[a][c] \in Nat /\ edges[next][c] \in Nat
    <3>1. edges \in [Blocks -> [Blocks -> Nat]]
      BY DEF Merging, IInv, Types
    <3> QED
      BY <2>1, <3>1
  <2>3. e[a][c] \in Nat
    OBVIOUS
  <2>4. e[a][c] = TakenEdges(k, a, c)
    OBVIOUS
  <2> QED
    BY <2>2, <2>3, <2>4, SMTT(30) DEF TakenEdges
<1>7. ASSUME NEW j \in 1 .. n - 1
      PROVE  /\ edges'[layout'[i]][layout'[j]] =
                  e[layout[h]][layout[Old(r, j)]]
                    + (IF i = r - 1 /\ j = r THEN e[layout[r - 1]][layout[r]] ELSE 0)
             /\ Old(r, j) \in 1 .. n
  <2>1. edges'[layout'[i]][layout'[j]] = Joined(e, r, i, j)
    <3>1. \A g, m \in 1 .. Len(layout) - 1 :
            edges'[layout'[g]][layout'[m]] = Joined(e, r, g, m)
      <4>1. Types /\ Arranged /\ r \in 2 .. Len(layout) - 1
        BY <1>1 DEF Merging, IInv, n
      <4> QED
        BY <1>2, <4>1, EdgesAfter
    <3> QED
      BY <1>1, <3>1 DEF n
  <2>2. Old(r, j) \in 1 .. n
    BY <1>1 DEF Old
  <2> QED
    BY <2>1, <2>2 DEF Joined, h
<1>8. ASSUME NEW j \in 1 .. n - 1
      PROVE  /\ e[layout[h]][layout[Old(r, j)]] > 0 => edges'[layout'[i]][layout'[j]] > 0
             /\ i = r - 1 /\ j = r /\ e[b][next] > 0 => edges'[layout'[i]][layout'[j]] > 0
  <2>1. e[layout[h]][layout[Old(r, j)]] \in Nat
    BY <1>4, <1>5, <1>6, <1>7
  <2>2. e[layout[r - 1]][layout[r]] \in Nat /\ e[layout[r - 1]][layout[r]] = e[b][next]
    <3>1. k \in 1 .. n /\ r \in 1 .. n /\ r - 1 = k
      BY <1>1
    <3>2. layout[k] \in Blocks /\ layout[r] \in Blocks
      BY <1>5, <3>1
    <3>3. e[layout[k]][layout[r]] \in Nat
      BY <1>6, <3>2
    <3> QED
      BY <3>1, <3>3 DEF r
  <2>3. edges'[layout'[i]][layout'[j]] =
          e[layout[h]][layout[Old(r, j)]]
            + (IF i = r - 1 /\ j = r THEN e[layout[r - 1]][layout[r]] ELSE 0)
    BY <1>7
  <2> HIDE DEF b, next
  <2>4. ASSUME e[layout[h]][layout[Old(r, j)]] > 0
        PROVE  edges'[layout'[i]][layout'[j]] > 0
    <3>1. (IF i = r - 1 /\ j = r THEN e[layout[r - 1]][layout[r]] ELSE 0) \in Nat
      BY <2>2
    <3> QED
      BY <2>1, <2>3, <2>4, <3>1, PositiveSum
  <2>5. ASSUME i = r - 1, j = r, e[b][next] > 0
        PROVE  edges'[layout'[i]][layout'[j]] > 0
    <3>1. edges'[layout'[i]][layout'[j]] =
            e[layout[h]][layout[Old(r, j)]] + e[layout[r - 1]][layout[r]]
      BY <2>3, <2>5
    <3> QED
      BY <2>1, <2>2, <2>5, <3>1, PositiveSum
  <2> QED
    BY <2>4, <2>5
<1>9. Covered(h) /\ Covered(k)
  BY <1>1, <1>3 DEF Merging, IInv, Cover, n
<1>10. CASE i = r - 1
  <2>1. h = k /\ layout[h] = b /\ i + 1 = r
    BY <1>1, <1>3, <1>10
  <2>2. Statements(layout[i])' = code'[b] /\ Statements(b) = code[b]
    BY <1>1, <1>4, <2>1, SMTT(30) DEF Statements
  <2>3. e[b][next] > 0
    <3>1. Falls(code[b])
      <4> SUFFICES ASSUME code[b] # <<>>, Last(code[b]).op = "goto" PROVE FALSE
        BY DEF Falls, EndsWith
      <4>1. code[b] \in Seq(Quads)
        BY <1>1 DEF Merging, IInv, Types
      <4>2. Len(code[b]) \in 1 .. Len(code[b])
        BY <4>1
      <4>3. code[b][Len(code[b])].op \notin Jumps
        BY <4>2 DEF Merging
      <4> QED
        BY <4>3 DEF Last, Jumps
    <3>2. edges[b][next] > 0
      BY <1>9, <2>2, <3>1 DEF Covered, Edge
    <3>3. b \in Blocks /\ next \in Blocks
      BY <1>1 DEF Blocks
    <3> QED
      BY <1>6, <3>2, <3>3
  <2>4. edges'[layout'[i]][layout'[i + 1]] > 0
    BY <1>1, <1>8, <1>10, <2>1, <2>3
  <2>5. ASSUME Leaps(code'[b]) PROVE edges'[layout'[i]][Last(code'[b]).target] > 0
    <3>1. Leaps(code[next]) /\ Last(code'[b]) = Last(code[next])
      BY <1>1, <2>5, MergedCode DEF Origin
    <3>2. Statements(layout[r]) = code[next] /\ layout[r] = next
      BY <1>1 DEF Statements, r
    <3> DEFINE t == Last(code[next]).target
    <3>3. /\ t \in Blocks /\ edges[next][t] > 0
          /\ \E j \in 1 .. n - 1 : layout'[j] = t /\ layout[Old(r, j)] = t
      <4>1. r \in 1 .. n - 1 /\ Leaps(Statements(layout[r])) /\ t = Last(Statements(layout[r])).target
        BY <1>1, <3>1, <3>2
      <4> HIDE DEF t, next
      <4>2. /\ t \in Blocks /\ edges[layout[r]][t] > 0
            /\ \E j \in 1 .. n - 1 : layout'[j] = t /\ layout[Old(k + 1, j)] = t
        BY <4>1, MergedTargets DEF n
      <4> QED
        BY <3>2, <4>2 DEF r
    <3>4. PICK j \in 1 .. n - 1 : layout'[j] = t /\ layout[Old(r, j)] = t
      BY <3>3
    <3> HIDE DEF t
    <3>5. CASE t = layout[k + 2]
      <4>1. k + 2 = r + 1 /\ r + 1 \in 1 .. n
        BY <1>1 DEF r
      <4>2. Old(r, j) = r + 1
        BY <1>5, <1>7, <3>4, <3>5, <4>1
      <4>3. j = r
        BY <1>1, <4>2 DEF Old
      <4>4. edges'[layout'[i]][layout'[j]] > 0
        BY <1>8, <1>10, <2>3, <4>3
      <4> QED
        BY <3>1, <3>4, <4>4 DEF t
    <3>6. CASE t # layout[k + 2]
      <4>1. code[next] # <<>>
        BY <3>1 DEF Leaps, EndsWith
      <4>2. b \in Blocks /\ next \in Blocks
        BY <1>1 DEF Blocks
      <4>3. e[b][t] = edges[b][t] + edges[next][t]
        BY <3>3, <3>6, <4>1, <4>2 DEF TakenEdges
      <4>4. edges[b][t] \in Nat /\ edges[next][t] \in Nat
        BY <1>6, <3>3, <4>2
      <4>5. e[layout[h]][layout[Old(r, j)]] > 0
        <5>1. e[b][t] > 0
          BY <3>3, <4>3, <4>4, PositiveSum
        <5> QED
          BY <2>1, <3>4, <5>1
      <4>6. edges'[layout'[i]][layout'[j]] > 0
        BY <1>8, <4>5
      <4> QED
        BY <3>1, <3>4, <4>6 DEF t
    <3> QED
      BY <3>5, <3>6
  <2> QED
    BY <2>2, <2>4, <2>5 DEF Covered, Edge, Falls, Leaps, EndsWith
<1>11. CASE i # r - 1
  <2>1. h # k /\ h \in 1 .. n /\ k \in 1 .. n
    BY <1>1, <1>3, <1>11
  <2>2. layout[h] # b /\ layout[h] # next
    BY <1>1, <1>3, <1>5, <2>1 DEF r
  <2>3. Statements(layout[i])' = Statements(layout[h])
    <3>1. layout[h] > 0 => layout[h] \in 1 .. Len(code)
      BY <1>4 DEF Blocks, ENTRY, EXIT
    <3>2. layout[h] > 0 => code'[layout[h]] = code[layout[h]]
      BY <2>2, <3>1, MergedCode
    <3> QED
      BY <1>4, <3>2 DEF Statements
  <2>4. Falls(Statements(layout[h])) => edges'[layout'[i]][layout'[i + 1]] > 0
    <3> SUFFICES ASSUME Falls(Statements(layout[h]))
                 PROVE  edges'[layout'[i]][layout'[i + 1]] > 0
      OBVIOUS
    <3>1. Old(r, i + 1) = h + 1
      BY <1>3, <1>11
    <3>2. edges[layout[h]][layout[Old(r, i + 1)]] > 0
      BY <1>9, <3>1 DEF Covered, Edge
    <3>3. layout[Old(r, i + 1)] \in Blocks
      BY <1>3, <1>5
    <3> QED
      BY <1>1, <1>4, <1>6, <1>8, <3>2, <3>3
  <2>5. Leaps(Statements(layout[h])) =>
          edges'[layout'[i]][Last(Statements(layout[h])).target] > 0
    <3> SUFFICES ASSUME Leaps(Statements(layout[h]))
                 PROVE  edges'[layout'[i]][Last(Statements(layout[h])).target] > 0
      OBVIOUS
    <3> DEFINE t == Last(Statements(layout[h])).target
    <3>1. /\ t \in Blocks /\ edges[layout[h]][t] > 0
          /\ \E j \in 1 .. n - 1 : layout'[j] = t /\ layout[Old(r, j)] = t
      BY <1>3, MergedTargets DEF n, r
    <3>2. PICK j \in 1 .. n - 1 : layout'[j] = t /\ layout[Old(r, j)] = t
      BY <3>1
    <3> HIDE DEF t
    <3>3. e[layout[h]][layout[Old(r, j)]] > 0
      <4>1. e[layout[h]][t] > 0
        BY <1>4, <1>6, <3>1
      <4> QED
        BY <3>2, <4>1
    <3>4. edges'[layout'[i]][layout'[j]] > 0
      BY <1>8, <3>3
    <3> QED
      BY <3>2, <3>4 DEF t
  <2> QED
    BY <2>3, <2>4, <2>5 DEF Covered, Edge, Falls, Leaps, EndsWith
<1> QED
  BY <1>10, <1>11

LEMMA MergeNextStep ==
  ASSUME IInv, MergeNext
  PROVE  IInv'
<1>1. PICK k \in 1 .. Len(layout) : Merging(k)
  BY MergingStarts
<1> DEFINE n == Len(layout)
<1>2. /\ n \in Nat /\ k \in 2 .. n - 2 /\ k + 1 \in 2 .. n - 1 /\ k + 1 \in 1 .. n
      /\ layout[k] \in 1 .. Len(code) /\ layout[k + 1] \in 1 .. Len(code)
      /\ layout[k] # layout[k + 1] /\ pc = "merge" /\ pc' = pc /\ it' = k - 1
      /\ program' = program /\ facts' = facts /\ usage' = usage
      /\ layout' = Without(layout[k + 1])
  BY <1>1 DEF Merging
<1>3. /\ code' \in Seq(Seq(Quads)) /\ Len(code') = Len(code) /\ JumpsLast'
      /\ \A c \in 1 .. Len(code) :
           Leaps(code'[c]) => /\ c # layout[k + 1]
                              /\ Leaps(code[Origin(k, c)])
                              /\ Last(code'[c]) = Last(code[Origin(k, c)])
  BY <1>1, MergedCode
<1>4. PICK e \in [Blocks -> [Blocks -> Nat]] :
        /\ edges' = RemovedEdges(e, layout[k + 1])
        /\ \A a, c \in Blocks : e[a][c] = TakenEdges(k, a, c)
  BY <1>1, MergedEdgesFacts
<1>5. Types' /\ EdgesStay' /\ Loops'
  <2>1. ASSUME NEW a \in Blocks, NEW c \in Blocks, e[a][c] > 0
        PROVE  edges[a][c] > 0 \/ (a = layout[k + 1 - 1] /\ edges[layout[k + 1]][c] > 0)
    <3>1. layout[k + 1] \in Blocks /\ k + 1 - 1 = k
      BY <1>2 DEF Blocks
    <3>2. edges[a][c] \in Nat /\ edges[layout[k + 1]][c] \in Nat
      BY <3>1 DEF IInv, Types
    <3>3. e[a][c] = TakenEdges(k, a, c)
      BY <1>4
    <3>4. CASE e[a][c] = edges[a][c]
      BY <2>1, <3>4
    <3>5. CASE a = layout[k] /\ e[a][c] = edges[a][c] + edges[layout[k + 1]][c]
      BY <2>1, <3>1, <3>2, <3>5, PositivePart
    <3> QED
      BY <3>3, <3>4, <3>5 DEF TakenEdges
  <2>2. PICK r \in 2 .. Len(layout) - 1 : r = k + 1
    BY <1>2
  <2>3. \A a, c \in Blocks : e[a][c] > 0 =>
          edges[a][c] > 0 \/ (a = layout[r - 1] /\ edges[layout[r]][c] > 0)
    BY <2>1, <2>2
  <2>4. pc = "merge" => it' \in 1 .. Len(layout) - 1
    BY <1>2
  <2>5. layout' = Without(layout[r]) /\ edges' = RemovedEdges(e, layout[r])
    BY <1>2, <1>4, <2>2
  <2> HIDE DEF n
  <2> QED
    BY <1>2, <1>3, <2>3, <2>4, <2>5, Removal DEF IInv
<1>6. /\ Arranged' /\ Len(layout') = n - 1 /\ Live' = Live \ {layout[k + 1]}
      /\ \A i \in 1 .. n - 1 : layout'[i] = layout[Old(k + 1, i)]
  BY <1>2, <1>3, WithoutFacts DEF IInv
<1>7. OneBranch'
  <2>1. ASSUME NEW c \in 1 .. Len(code), NEW d \in 1 .. Len(code),
               Branches(code'[c]), Branches(code'[d]),
               Last(code'[c]).id = Last(code'[d]).id
        PROVE  c = d
    <3>1. Leaps(code'[c]) /\ Leaps(code'[d])
      BY <2>1 DEF Leaps, Branches, EndsWith, Jumps
    <3>2. /\ c # layout[k + 1] /\ d # layout[k + 1]
          /\ Leaps(code[Origin(k, c)]) /\ Leaps(code[Origin(k, d)])
          /\ Last(code'[c]) = Last(code[Origin(k, c)])
          /\ Last(code'[d]) = Last(code[Origin(k, d)])
      BY <1>3, <3>1
    <3>3. Branches(code[Origin(k, c)]) /\ Branches(code[Origin(k, d)])
      BY <2>1, <3>2 DEF Leaps, Branches, EndsWith
    <3>4. Origin(k, c) \in 1 .. Len(code) /\ Origin(k, d) \in 1 .. Len(code)
      BY <1>2 DEF Origin
    <3>5. Origin(k, c) = Origin(k, d)
      BY <2>1, <3>2, <3>3, <3>4 DEF IInv, OneBranch
    <3> QED
      BY <3>2, <3>5 DEF Origin
  <2> QED
    BY <1>3, <2>1 DEF OneBranch, Branches, EndsWith
(* Where the last quadruple of a block that stays was before.              *)
<1>8. ASSUME NEW c \in Live', c > 0, Leaps(code'[c])
      PROVE  \E h \in 1 .. n :
               /\ layout[h] > 0 /\ Leaps(code[layout[h]]) /\ layout[h] \in Live
               /\ Last(code'[c]) = Last(code[layout[h]])
  <2>1. c \in Live /\ c # layout[k + 1]
    BY <1>6, <1>8
  <2>2. c \in 1 .. Len(code)
    <3>1. c \in Blocks
      BY <2>1, LayoutFacts DEF IInv
    <3> QED
      BY <1>8, <3>1 DEF Blocks, ENTRY, EXIT
  <2>3. PICK g \in 1 .. n : c = layout[g]
    BY <2>1, LayoutFacts DEF IInv
  <2>4. Leaps(code[Origin(k, c)]) /\ Last(code'[c]) = Last(code[Origin(k, c)])
    BY <1>3, <1>8, <2>2
  <2>5. CASE c = layout[k]
    <3>1. layout[k + 1] > 0 /\ layout[k + 1] \in Live
      <4>1. layout[k + 1] \in Live
        BY <1>2, LayoutFacts DEF IInv
      <4> QED
        BY <1>2, <4>1
    <3> QED
      BY <1>2, <2>4, <2>5, <3>1 DEF Origin
  <2>6. CASE c # layout[k]
    BY <1>8, <2>1, <2>3, <2>4, <2>6 DEF Origin
  <2> QED
    BY <2>5, <2>6
<1>9. Pending'
  <2>1. ASSUME NEW i \in 1 .. n - 1, layout'[i] > 0, Branches(code'[layout'[i]]),
               facts[Last(code'[layout'[i]]).id] \in {"zero", "one"}
        PROVE  FALSE
    <3>1. layout'[i] \in Live'
      <4>1. layout' \in Seq(Blocks') /\ Len(layout') = n - 1
        BY <1>6 DEF Arranged
      <4>2. i \in DOMAIN layout'
        BY <4>1
      <4> QED
        BY <4>2 DEF Live, ToSet
    <3>2. Leaps(code'[layout'[i]])
      BY <2>1 DEF Leaps, Branches, EndsWith, Jumps
    <3>3. PICK h \in 1 .. n :
            /\ layout[h] > 0 /\ Leaps(code[layout[h]])
            /\ Last(code'[layout'[i]]) = Last(code[layout[h]])
      BY <1>8, <2>1, <3>1, <3>2
    <3>4. Branches(code[layout[h]]) /\ facts[Last(code[layout[h]]).id] \in {"zero", "one"}
      BY <2>1, <3>3 DEF Branches, Leaps, EndsWith
    <3> QED
      BY <1>2, <3>3, <3>4 DEF IInv, Pending
  <2> QED
    BY <1>2, <1>6, <2>1 DEF Pending, Branches, EndsWith
<1>10. Cover'
  <2>1. ASSUME NEW i \in 1 .. n - 2 PROVE Covered(i)'
    BY <1>1, <1>4, MergedCover
  <2>2. Len(layout') - 1 = n - 2
    BY <1>2, <1>6
  <2> QED
    BY <2>1, <2>2 DEF Cover
<1>11. Used'
  <2>1. ASSUME NEW c \in Live', c > 0, Leaps(code'[c])
        PROVE  Last(code'[c]).target \in usage
    <3>1. PICK h \in 1 .. n :
            /\ layout[h] > 0 /\ Leaps(code[layout[h]]) /\ layout[h] \in Live
            /\ Last(code'[c]) = Last(code[layout[h]])
      BY <1>8, <2>1
    <3> QED
      BY <1>2, <3>1 DEF IInv, Used
  <2> QED
    BY <1>2, <2>1 DEF Used, Leaps, EndsWith
<1> QED
  BY <1>3, <1>5, <1>6, <1>7, <1>9, <1>10, <1>11 DEF IInv
-----------------------------------------------------------------------------
LEMMA Step ==
  ASSUME ~TrivialJumps, IInv, [Next]_vars
  PROVE  IInv'
<1>1. CASE Decide
  BY <1>1, DecideStep
<1>2. CASE Eliminate
  BY <1>2, EliminateStep
<1>3. CASE OptimizeBranches
  BY <1>3, OptimizeBranchesStep
<1>4. CASE RemoveDead
  BY <1>4, RemoveDeadStep
<1>5. CASE EraseEmpty
  BY <1>5, EraseEmptyStep
<1>6. CASE DropGoto
  BY <1>6, DropGotoStep
<1>7. CASE MergeNext
  BY <1>7, MergeNextStep
<1>8. CASE StartBranches \/ StartDead \/ EndDead \/ MergeAgain \/ EndRound
           \/ Skip \/ StartMerge \/ UNCHANGED vars
  BY <1>8, PassStep
<1> QED
  BY <1>1, <1>2, <1>3, <1>4, <1>5, <1>6, <1>7, <1>8 DEF Next

LEMMA Covers ==
  ASSUME IInv
  PROVE  EdgesCoverFlow
<1> SUFFICES ASSUME NEW b \in LiveBlocks \ {EXIT},
                    NEW i \in DOMAIN Targets(Statements(b), Next_(b))
             PROVE  edges[b][Targets(Statements(b), Next_(b))[i]] > 0
  BY DEF EdgesCoverFlow
<1>1. PICK k \in 1 .. Len(layout) : b = layout[k]
  <2>1. b \in Live
    BY LeastLive DEF LiveIsLeast, IInv
  <2> QED
    BY <2>1, LayoutFacts DEF IInv
<1>2. k \in 1 .. Len(layout) - 1
  <2>1. k # Len(layout) /\ Len(layout) \in Nat
    BY <1>1, LayoutFacts DEF IInv, Arranged
  <2> QED
    BY <2>1
<1>3. Covered(k)
  BY <1>1, <1>2 DEF IInv, Cover
<1>4. Next_(b) = layout[k + 1]
  BY <1>1, AtPosition DEF IInv
<1> DEFINE block == Statements(b)
           next == Next_(b)
<1>5. /\ Falls(block) => edges[b][next] > 0
      /\ Leaps(block) => edges[b][Last(block).target] > 0
  BY <1>1, <1>3, <1>4 DEF Covered, Edge
<1> HIDE DEF block, next
<1>6. Targets(block, next) =
        IF block = <<>> THEN <<next>>
        ELSE IF Last(block).op = "goto" THEN <<Last(block).target>>
        ELSE IF Last(block).op \in {"if", "if_false"} THEN <<Last(block).target, next>>
        ELSE <<next>>
  BY DEF Targets
<1>7. CASE block = <<>> \/ Last(block).op \notin Jumps
  <2>1. Targets(block, next) = <<next>> /\ Falls(block)
    BY <1>6, <1>7 DEF Falls, EndsWith, Jumps
  <2> QED
    BY <1>5, <2>1 DEF block, next
<1>8. CASE block # <<>> /\ Last(block).op = "goto"
  <2>1. Targets(block, next) = <<Last(block).target>> /\ Leaps(block)
    BY <1>6, <1>8 DEF Leaps, EndsWith, Jumps
  <2> QED
    BY <1>5, <2>1 DEF block, next
<1>9. CASE block # <<>> /\ Last(block).op \in {"if", "if_false"}
  <2>1. Targets(block, next) = <<Last(block).target, next>> /\ Leaps(block) /\ Falls(block)
    BY <1>6, <1>9 DEF Leaps, Falls, EndsWith, Jumps
  <2> QED
    BY <1>5, <2>1 DEF block, next
<1> QED
  BY <1>7, <1>8, <1>9 DEF Jumps
-----------------------------------------------------------------------------
(* The blocks that the list of quadruples is cut into.                     *)

Quad == [op : Operators, id : Nat, target : Nat]

Accumulators ==
  {acc \in [blocks : Seq(Seq(Quad)), leader : BOOLEAN, labels : Seq(Nat \X Nat)] :
     acc.leader \/ acc.blocks # <<>>}

Fresh == [blocks |-> <<>>, leader |-> TRUE, labels |-> <<>>]

(* A quadruple is the last of the last block, and ends no other: a label   *)
(* is in no block, and always starts one.                                  *)
Separates(acc, q, new) ==
  /\ new \in Accumulators
  /\ Len(new.blocks) = IF q.op \in {"label", "call", "pure"} \/ acc.leader
                       THEN Len(acc.blocks) + 1 ELSE Len(acc.blocks)
  /\ \A b \in 1 .. Len(new.blocks) : \A x \in 1 .. Len(new.blocks[b]) :
       \/ /\ b \in 1 .. Len(acc.blocks) /\ x \in 1 .. Len(acc.blocks[b])
          /\ new.blocks[b][x] = acc.blocks[b][x]
          /\ \/ b # Len(new.blocks) /\ new.blocks[b] = acc.blocks[b]
             \/ b = Len(acc.blocks) /\ ~acc.leader
       \/ /\ b = Len(new.blocks) /\ x = Len(new.blocks[b])
          /\ new.blocks[b][x] = q /\ q.op # "label"
          /\ new.leader = (q.op \in Jumps \union {"return"})
  /\ new.labels = IF q.op = "label"
                  THEN Append(acc.labels, <<q.target, Len(acc.blocks) + 1>>)
                  ELSE acc.labels

LEMMA SeparateFacts ==
  ASSUME NEW acc \in Accumulators, NEW q \in Quad
  PROVE  Separates(acc, q, Separate(acc, q))
<1> DEFINE n == Len(acc.blocks)
           new == Separate(acc, q)
<1>1. /\ acc.blocks \in Seq(Seq(Quad)) /\ acc.leader \in BOOLEAN
      /\ acc.labels \in Seq(Nat \X Nat) /\ n \in Nat
      /\ acc = [blocks |-> acc.blocks, leader |-> acc.leader, labels |-> acc.labels]
      /\ acc.leader \/ acc.blocks # <<>>
      /\ <<q.target, n + 1>> \in Nat \X Nat
  BY DEF Accumulators, Quad
<1>2. CASE q.op = "label"
  <2>1. /\ new.blocks = Append(acc.blocks, <<>>) /\ new.leader = FALSE
        /\ new.labels = Append(acc.labels, <<q.target, n + 1>>)
        /\ new = [blocks |-> new.blocks, leader |-> new.leader, labels |-> new.labels]
    BY <1>2 DEF Separate
  <2> HIDE DEF new
  <2>2. /\ new.blocks \in Seq(Seq(Quad)) /\ Len(new.blocks) = n + 1
        /\ \A b \in 1 .. n : new.blocks[b] = acc.blocks[b]
        /\ new.blocks[n + 1] = <<>> /\ new.blocks # <<>>
    <3>1. <<>> \in Seq(Quad)
      OBVIOUS
    <3> QED
      BY <1>1, <2>1, <3>1, AppendProperties
  <2>3. new.labels \in Seq(Nat \X Nat)
    BY <1>1, <2>1
  <2>4. new \in Accumulators
    BY <2>1, <2>2, <2>3 DEF Accumulators
  <2>5. ASSUME NEW b \in 1 .. n + 1, NEW x \in 1 .. Len(new.blocks[b])
        PROVE  /\ b \in 1 .. n /\ x \in 1 .. Len(acc.blocks[b]) /\ b # n + 1
               /\ new.blocks[b][x] = acc.blocks[b][x] /\ new.blocks[b] = acc.blocks[b]
    <3>1. b # n + 1
      BY <2>2
    <3>2. b \in 1 .. n
      BY <1>1, <3>1
    <3> QED
      BY <2>2, <3>1, <3>2
  <2> QED
    BY <1>2, <2>1, <2>2, <2>4, <2>5 DEF Separates, new
<1>3. CASE q.op # "label" /\ (q.op \in {"call", "pure"} \/ acc.leader)
  <2>1. /\ new.blocks = Append(acc.blocks, <<q>>)
        /\ new.leader = (q.op \in Jumps \union {"return"})
        /\ new.labels = acc.labels
        /\ new = [blocks |-> new.blocks, leader |-> new.leader, labels |-> new.labels]
    BY <1>1, <1>3 DEF Separate
  <2> HIDE DEF new
  <2>2. /\ new.blocks \in Seq(Seq(Quad)) /\ Len(new.blocks) = n + 1
        /\ \A b \in 1 .. n : new.blocks[b] = acc.blocks[b]
        /\ new.blocks[n + 1] = <<q>> /\ new.blocks # <<>>
    <3>0. <<q>> \in Seq(Quad)
      OBVIOUS
    <3>1. PICK s \in Seq(Quad) : s = <<q>>
      BY <3>0
    <3>2. new.blocks = Append(acc.blocks, s)
      BY <2>1, <3>1
    <3> HIDE DEF n
    <3>3. /\ new.blocks \in Seq(Seq(Quad)) /\ Len(new.blocks) = n + 1
          /\ \A b \in 1 .. n : new.blocks[b] = acc.blocks[b]
          /\ new.blocks[n + 1] = s /\ new.blocks # <<>>
      <4>1. PICK S, old : S = Seq(Quad) /\ old = acc.blocks
        OBVIOUS
      <4>2. old \in Seq(S) /\ s \in S
        BY <1>1, <4>1
      <4>3. /\ Append(old, s) \in Seq(S)
            /\ Append(old, s) # <<>>
            /\ Len(Append(old, s)) = Len(old) + 1
            /\ \A i \in 1 .. Len(old) : Append(old, s)[i] = old[i]
            /\ Append(old, s)[Len(old) + 1] = s
        BY <4>2, AppendProperties
      <4> QED
        BY <3>2, <4>1, <4>3 DEF n
    <3> QED
      BY <3>1, <3>3
  <2>3. new \in Accumulators
    <3>1. new.leader \in BOOLEAN
      <4>1. CASE q.op \in Jumps \union {"return"}
        BY <2>1, <4>1
      <4>2. CASE q.op \notin Jumps \union {"return"}
        BY <2>1, <4>2
      <4> QED
        BY <4>1, <4>2
    <3>2. new \in [blocks : Seq(Seq(Quad)), leader : BOOLEAN, labels : Seq(Nat \X Nat)]
      <4>1. /\ new = [blocks |-> new.blocks, leader |-> new.leader, labels |-> new.labels]
            /\ new.labels \in Seq(Nat \X Nat)
        BY <1>1, <2>1
      <4> QED
        BY <2>2, <3>1, <4>1
    <3> QED
      BY <2>2, <3>2 DEF Accumulators
  <2>4. ASSUME NEW b \in 1 .. n + 1, NEW x \in 1 .. Len(new.blocks[b])
        PROVE  \/ /\ b \in 1 .. n /\ x \in 1 .. Len(acc.blocks[b]) /\ b # n + 1
                  /\ new.blocks[b][x] = acc.blocks[b][x] /\ new.blocks[b] = acc.blocks[b]
               \/ b = n + 1 /\ x = Len(new.blocks[b]) /\ new.blocks[b][x] = q
    <3>1. CASE b = n + 1
      <4>1. Len(<<q>>) = 1 /\ <<q>>[1] = q
        OBVIOUS
      <4>2. new.blocks[b] = <<q>>
        BY <2>2, <3>1
      <4>3. x = 1
        BY <4>1, <4>2
      <4> QED
        BY <3>1, <4>1, <4>2, <4>3
    <3>2. CASE b # n + 1
      <4>1. b \in 1 .. n
        BY <1>1, <3>2
      <4> QED
        BY <2>2, <3>2, <4>1
    <3> QED
      BY <3>1, <3>2
  <2> QED
    BY <1>3, <2>1, <2>2, <2>3, <2>4 DEF Separates, new
<1>4. CASE q.op # "label" /\ q.op \notin {"call", "pure"} /\ ~acc.leader
  <2>1. /\ new.blocks = [acc.blocks EXCEPT ![n] = Append(@, q)]
        /\ new.leader = (q.op \in Jumps \union {"return"})
        /\ new.labels = acc.labels
        /\ new = [blocks |-> new.blocks, leader |-> new.leader, labels |-> new.labels]
    BY <1>1, <1>4 DEF Separate
  <2> HIDE DEF new
  <2>2. n \in 1 .. n /\ acc.blocks[n] \in Seq(Quad)
    BY <1>1, <1>4
  <2>3. /\ Append(acc.blocks[n], q) \in Seq(Quad)
        /\ Len(Append(acc.blocks[n], q)) = Len(acc.blocks[n]) + 1
        /\ \A x \in 1 .. Len(acc.blocks[n]) : Append(acc.blocks[n], q)[x] = acc.blocks[n][x]
        /\ Append(acc.blocks[n], q)[Len(acc.blocks[n]) + 1] = q
        /\ Len(acc.blocks[n]) \in Nat
    BY <2>2, AppendProperties
  <2>4. /\ new.blocks \in Seq(Seq(Quad)) /\ Len(new.blocks) = n
        /\ \A b \in 1 .. n : new.blocks[b] = IF b = n THEN Append(acc.blocks[n], q) ELSE acc.blocks[b]
    BY <1>1, <2>1, <2>2, <2>3
  <2>5. new \in Accumulators
    <3>1. new.blocks # <<>>
      BY <2>2, <2>4
    <3>2. new.leader \in BOOLEAN
      <4>1. CASE q.op \in Jumps \union {"return"}
        BY <2>1, <4>1
      <4>2. CASE q.op \notin Jumps \union {"return"}
        BY <2>1, <4>2
      <4> QED
        BY <4>1, <4>2
    <3>3. new \in [blocks : Seq(Seq(Quad)), leader : BOOLEAN, labels : Seq(Nat \X Nat)]
      <4>1. /\ new = [blocks |-> new.blocks, leader |-> new.leader, labels |-> new.labels]
            /\ new.labels \in Seq(Nat \X Nat)
        BY <1>1, <2>1
      <4> QED
        BY <2>4, <3>2, <4>1
    <3> QED
      BY <3>1, <3>3 DEF Accumulators
  <2>6. ASSUME NEW b \in 1 .. n, NEW x \in 1 .. Len(new.blocks[b])
        PROVE  \/ /\ x \in 1 .. Len(acc.blocks[b])
                  /\ new.blocks[b][x] = acc.blocks[b][x]
                  /\ (b # n /\ new.blocks[b] = acc.blocks[b]) \/ b = n
               \/ b = n /\ x = Len(new.blocks[b]) /\ new.blocks[b][x] = q
    <3>1. CASE b = n
      <4>1. new.blocks[b] = Append(acc.blocks[n], q)
        BY <2>4, <3>1
      <4>2. x \in 1 .. Len(acc.blocks[n]) \/ x = Len(acc.blocks[n]) + 1
        BY <2>3, <4>1
      <4> QED
        BY <2>3, <3>1, <4>1, <4>2
    <3>2. CASE b # n
      BY <2>4, <3>2
    <3> QED
      BY <3>1, <3>2
  <2> QED
    BY <1>4, <2>1, <2>4, <2>5, <2>6, SMTT(30) DEF Separates, new
<1> QED
  BY <1>1, <1>2, <1>3, <1>4

LEMMA SeparatedEquation ==
  ASSUME NEW p \in Seq(Quad)
  PROVE  /\ Separated(p)[0] = Fresh
         /\ \A i \in 0 .. Len(p) : Separated(p)[i] \in Accumulators
         /\ \A i \in 1 .. Len(p) :
              Separated(p)[i] = Separate(Separated(p)[i - 1], p[i])
<1> DEFINE n == Len(p)
           step == [s \in (1 .. n) \X Accumulators |-> Separate(s[2], p[s[1]])]
           Solves(f) == f = [i \in 0 .. n |-> IF i = 0 THEN Fresh
                                              ELSE Separate(f[i - 1], p[i])]
<1>1. n \in Nat /\ \A i \in 1 .. n : p[i] \in Quad
  OBVIOUS
<1> HIDE DEF n
<1>2. ASSUME NEW i \in 1 .. n, NEW acc \in Accumulators
      PROVE  Separate(acc, p[i]) \in Accumulators
  <2>1. Separates(acc, p[i], Separate(acc, p[i]))
    BY <1>1, SeparateFacts
  <2> QED
    BY <2>1 DEF Separates
<1>3. step \in [(1 .. n) \X Accumulators -> Accumulators]
  BY <1>2
<1>4. \A i \in 1 .. n : \A acc \in Accumulators :
        step[<<i, acc>>] = Separate(acc, p[i])
  OBVIOUS
<1> HIDE DEF step
<1>5. Fresh \in Accumulators
  <2>1. <<>> \in Seq(Seq(Quad)) /\ <<>> \in Seq(Nat \X Nat)
    OBVIOUS
  <2> QED
    BY <2>1 DEF Fresh, Accumulators
<1>6. PICK f : Follows(f, n, Accumulators, Fresh, step)
  BY <1>1, <1>3, <1>5, Recursion
<1>7. /\ f[0] = Fresh /\ \A i \in 0 .. n : f[i] \in Accumulators
      /\ \A i \in 1 .. n : f[i] = Separate(f[i - 1], p[i])
  <2>1. \A i \in 1 .. n : i \in 0 .. n /\ i # 0 /\ i - 1 \in 0 .. n
    BY <1>1
  <2>2. 0 \in 0 .. n
    BY <1>1
  <2> QED
    BY <1>4, <1>6, <2>1, <2>2 DEF Follows
<1>8. Solves(f)
  <2>1. f = [i \in 0 .. n |-> f[i]]
    BY <1>6 DEF Follows
  <2>2. \A i \in 0 .. n : i = 0 \/ i \in 1 .. n
    BY <1>1
  <2>3. \A i \in 0 .. n : f[i] = IF i = 0 THEN Fresh ELSE Separate(f[i - 1], p[i])
    BY <1>7, <2>2
  <2> QED
    BY <2>1, <2>3
<1>9. Separated(p) = CHOOSE g : Solves(g)
  BY DEF Separated, Fresh, n
<1>10. Solves(Separated(p))
  <2> HIDE DEF Solves
  <2> QED
    BY <1>8, <1>9
<1>11. ASSUME NEW g, Solves(g)
       PROVE  /\ g[0] = Fresh /\ \A i \in 1 .. n : g[i] = Separate(g[i - 1], p[i])
  <2>1. \A i \in 0 .. n : g[i] = IF i = 0 THEN Fresh ELSE Separate(g[i - 1], p[i])
    BY <1>11
  <2>2. 0 \in 0 .. n /\ \A i \in 1 .. n : i \in 0 .. n /\ i # 0
    BY <1>1
  <2> QED
    BY <2>1, <2>2
<1> HIDE DEF Solves
<1>12. PICK g : g = Separated(p)
  OBVIOUS
<1>13. /\ g[0] = Fresh /\ \A i \in 1 .. n : g[i] = Separate(g[i - 1], p[i])
  BY <1>10, <1>11, <1>12
<1>14. \A i \in 0 .. n : g[i] \in Accumulators
  <2> DEFINE T == {i \in Nat : i <= n => g[i] \in Accumulators}
  <2>1. 0 \in T
    BY <1>5, <1>13
  <2>2. ASSUME NEW i \in Nat, i \in T PROVE i + 1 \in T
    <3> SUFFICES ASSUME i + 1 <= n PROVE g[i + 1] \in Accumulators
      OBVIOUS
    <3>1. i + 1 \in 1 .. n /\ (i + 1) - 1 = i /\ g[i] \in Accumulators
      BY <1>1, <2>2
    <3>2. g[i + 1] = Separate(g[i], p[i + 1])
      BY <1>13, <3>1
    <3> QED
      BY <1>2, <3>1, <3>2
  <2> HIDE DEF T
  <2>3. Nat \subseteq T
    BY <2>1, <2>2, UpwardInduction
  <2> QED
    BY <1>1, <2>3 DEF T
<1> QED
  BY <1>12, <1>13, <1>14 DEF n

(* How many blocks there are once h quadruples are read: the block that the*)
(* last of them is in or, if it is a label, starts.                        *)
BlockAt(p, h) == Len(Separated(p)[h].blocks)

LEMMA BlocksInOrder ==
  ASSUME NEW p \in Seq(Quad)
  PROVE  /\ BlockAt(p, 0) = 0 /\ \A h \in 0 .. Len(p) : BlockAt(p, h) \in Nat
         /\ \A g, h \in 0 .. Len(p) :
              /\ g <= h => BlockAt(p, g) <= BlockAt(p, h)
              /\ g < h /\ p[h].op = "label" => BlockAt(p, g) < BlockAt(p, h)
<1> DEFINE n == Len(p)
           B(h) == BlockAt(p, h)
<1>1. n \in Nat /\ \A i \in 1 .. n : p[i] \in Quad
  OBVIOUS
<1>2. B(0) = 0
  BY SeparatedEquation DEF BlockAt, Fresh
<1>3. ASSUME NEW h \in 0 .. n PROVE B(h) \in Nat
  <2>1. Separated(p)[h] \in Accumulators
    BY SeparatedEquation
  <2> QED
    BY <2>1 DEF BlockAt, Accumulators
<1>4. ASSUME NEW h \in 1 .. n
      PROVE  B(h - 1) <= B(h) /\ (p[h].op = "label" => B(h) = B(h - 1) + 1)
  <2>1. h - 1 \in 0 .. n /\ h \in 0 .. n
    BY <1>1
  <2>2. PICK acc \in Accumulators : acc = Separated(p)[h - 1]
    BY <2>1, SeparatedEquation
  <2>3. PICK new : new = Separated(p)[h] /\ new = Separate(acc, p[h])
    BY <2>2, SeparatedEquation
  <2>4. Separates(acc, p[h], new)
    BY <1>1, <2>3, SeparateFacts
  <2>5. Len(new.blocks) = IF p[h].op \in {"label", "call", "pure"} \/ acc.leader
                         THEN Len(acc.blocks) + 1 ELSE Len(acc.blocks)
    BY <2>4 DEF Separates
  <2>6. B(h) = Len(new.blocks) /\ B(h - 1) = Len(acc.blocks)
    BY <2>2, <2>3 DEF BlockAt
  <2>7. B(h - 1) \in Nat
    BY <1>3, <2>1
  <2> HIDE DEF B
  <2> QED
    BY <2>5, <2>6, <2>7
<1> HIDE DEF B, n
<1>5. ASSUME NEW g \in 0 .. n, NEW h \in 0 .. n, g <= h PROVE B(g) <= B(h)
  <2> DEFINE T == {m \in Nat : m <= n => (g <= m => B(g) <= B(m))}
  <2>1. 0 \in T
    <3>1. g <= 0 => g = 0
      BY <1>1
    <3> QED
      BY <1>2, <3>1
  <2>2. ASSUME NEW m \in Nat, m \in T PROVE m + 1 \in T
    <3> SUFFICES ASSUME m + 1 <= n, g <= m + 1 PROVE B(g) <= B(m + 1)
      OBVIOUS
    <3>1. /\ m + 1 \in 1 .. n /\ (m + 1) - 1 = m /\ m \in 0 .. n /\ m + 1 \in 0 .. n
          /\ (g = m + 1 \/ g <= m)
      BY <1>1, <1>5
    <3>2. B(m) <= B(m + 1) /\ B(m) \in Nat /\ B(m + 1) \in Nat /\ B(g) \in Nat
      BY <1>3, <1>4, <3>1
    <3>3. CASE g = m + 1
      BY <3>2, <3>3
    <3>4. CASE g <= m
      <4>1. B(g) <= B(m)
        BY <2>2, <3>1, <3>4
      <4> QED
        BY <3>2, <4>1
    <3> QED
      BY <3>1, <3>3, <3>4
  <2> HIDE DEF T
  <2>3. Nat \subseteq T
    BY <2>1, <2>2, UpwardInduction
  <2>4. h \in T /\ h <= n
    BY <1>1, <2>3
  <2> QED
    BY <1>5, <2>4 DEF T
<1>6. ASSUME NEW g \in 0 .. n, NEW h \in 0 .. n, g < h, p[h].op = "label"
      PROVE  B(g) < B(h)
  <2>1. h \in 1 .. n /\ h - 1 \in 0 .. n /\ g <= h - 1
    BY <1>1, <1>6
  <2>2. B(g) <= B(h - 1) /\ B(h) = B(h - 1) + 1
    BY <1>4, <1>5, <1>6, <2>1
  <2>3. B(g) \in Nat /\ B(h - 1) \in Nat
    BY <1>3, <2>1
  <2> QED
    BY <2>2, <2>3
<1> QED
  BY <1>2, <1>3, <1>5, <1>6 DEF B, n

(* What the blocks hold once i quadruples are read.                        *)
Placed(p, i, acc, b, x) ==
  LET q == acc.blocks[b][x] IN
  /\ q.id \in 1 .. i /\ q = p[q.id] /\ b = BlockAt(p, q.id) /\ q.op # "label"
  /\ q.op \in Jumps =>
       x = Len(acc.blocks[b]) /\ (b = Len(acc.blocks) => acc.leader)

Starts(p, h) == <<p[h].target, BlockAt(p, h)>>

Cut(p, i, acc) ==
  /\ \A b \in 1 .. Len(acc.blocks) : \A x \in 1 .. Len(acc.blocks[b]) :
       Placed(p, i, acc, b, x)
  /\ \A k \in 1 .. Len(acc.labels) : \E h \in 1 .. i :
       p[h].op = "label" /\ acc.labels[k] = Starts(p, h)
  /\ \A h \in 1 .. i : p[h].op = "label" =>
       \E k \in 1 .. Len(acc.labels) : acc.labels[k] = Starts(p, h)

LEMMA CutStep ==
  ASSUME NEW p \in Seq(Quad), \A i \in 1 .. Len(p) : p[i].id = i,
         NEW i \in 1 .. Len(p), NEW acc \in Accumulators, acc = Separated(p)[i - 1],
         NEW new, new = Separated(p)[i], Cut(p, i - 1, acc)
  PROVE  Cut(p, i, new)
<1> DEFINE q == p[i]
           n == Len(acc.blocks)
           m == Len(new.blocks)
<1>1. q \in Quad /\ q.id = i /\ i \in Nat /\ i >= 1
  OBVIOUS
<1>2. Separates(acc, q, new)
  <2>1. new = Separate(acc, q)
    BY SeparatedEquation
  <2> QED
    BY <1>1, <2>1, SeparateFacts
<1>3. /\ acc.blocks \in Seq(Seq(Quad)) /\ acc.labels \in Seq(Nat \X Nat)
      /\ new.blocks \in Seq(Seq(Quad)) /\ new.labels \in Seq(Nat \X Nat)
      /\ n \in Nat /\ m \in Nat
      /\ m = IF q.op \in {"label", "call", "pure"} \/ acc.leader THEN n + 1 ELSE n
  <2>1. new \in Accumulators
    BY <1>2 DEF Separates
  <2>2. acc.blocks \in Seq(Seq(Quad)) /\ acc.labels \in Seq(Nat \X Nat)
    BY DEF Accumulators
  <2>3. new.blocks \in Seq(Seq(Quad)) /\ new.labels \in Seq(Nat \X Nat)
    BY <2>1 DEF Accumulators
  <2>4. n \in Nat /\ m \in Nat
    BY <2>2, <2>3
  <2>5. m = IF q.op \in {"label", "call", "pure"} \/ acc.leader THEN n + 1 ELSE n
    BY <1>2 DEF Separates
  <2> QED
    BY <2>2, <2>3, <2>4, <2>5
<1>4. BlockAt(p, i) = m
  BY DEF BlockAt
<1> HIDE DEF q
<1>5. ASSUME NEW b \in 1 .. m, NEW x \in 1 .. Len(new.blocks[b])
      PROVE  Placed(p, i, new, b, x)
  <2>1. \/ /\ b \in 1 .. n /\ x \in 1 .. Len(acc.blocks[b])
           /\ new.blocks[b][x] = acc.blocks[b][x]
           /\ \/ b # m /\ new.blocks[b] = acc.blocks[b]
              \/ b = n /\ ~acc.leader
        \/ /\ b = m /\ x = Len(new.blocks[b])
           /\ new.blocks[b][x] = q /\ q.op # "label"
           /\ new.leader = (q.op \in Jumps \union {"return"})
    BY <1>2 DEF Separates
  <2>2. CASE /\ b \in 1 .. n /\ x \in 1 .. Len(acc.blocks[b])
             /\ new.blocks[b][x] = acc.blocks[b][x]
             /\ \/ b # m /\ new.blocks[b] = acc.blocks[b]
                \/ b = n /\ ~acc.leader
    <3>1. Placed(p, i - 1, acc, b, x)
      BY <2>2, SMTT(30) DEF Cut
    <3>2. /\ new.blocks[b][x].id \in 1 .. i
          /\ new.blocks[b][x] = p[new.blocks[b][x].id]
          /\ b = BlockAt(p, new.blocks[b][x].id)
          /\ new.blocks[b][x].op # "label"
      <4>1. \A k \in 1 .. i - 1 : k \in 1 .. i
        BY <1>1
      <4> QED
        BY <2>2, <3>1, <4>1 DEF Placed
    <3>3. ASSUME new.blocks[b][x].op \in Jumps
          PROVE  x = Len(new.blocks[b]) /\ b # m
      <4>1. x = Len(acc.blocks[b]) /\ (b = n => acc.leader)
        BY <2>2, <3>1, <3>3 DEF Placed
      <4>2. b # m /\ new.blocks[b] = acc.blocks[b]
        BY <2>2, <4>1
      <4> QED
        BY <4>1, <4>2
    <3> QED
      BY <3>2, <3>3 DEF Placed
  <2>3. CASE /\ b = m /\ x = Len(new.blocks[b])
             /\ new.blocks[b][x] = q /\ q.op # "label"
             /\ new.leader = (q.op \in Jumps \union {"return"})
    <3>1. i \in 1 .. i
      BY <1>1
    <3>2. q.op \in Jumps => new.leader
      BY <2>3
    <3> QED
      BY <1>1, <1>4, <2>3, <3>1, <3>2 DEF Placed, q
  <2> QED
    BY <2>1, <2>2, <2>3
<1> DEFINE l == Len(acc.labels)
<1>6. /\ l \in Nat
      /\ \A k \in 1 .. l : k \in 1 .. Len(new.labels) /\ new.labels[k] = acc.labels[k]
      /\ q.op = "label" =>
           /\ Len(new.labels) = l + 1 /\ l + 1 \in 1 .. Len(new.labels)
           /\ new.labels[l + 1] = Starts(p, i)
      /\ q.op # "label" => Len(new.labels) = l
  <2>1. CASE q.op = "label"
    <3>1. new.labels = Append(acc.labels, <<q.target, n + 1>>)
      BY <1>2, <2>1 DEF Separates
    <3>2. m = n + 1
      BY <1>3, <2>1
    <3>3. Starts(p, i) = <<q.target, n + 1>> /\ Starts(p, i) \in Nat \X Nat
      BY <1>1, <1>3, <1>4, <3>2 DEF Starts, q, Quad
    <3>4. PICK e \in Nat \X Nat : e = Starts(p, i)
      BY <3>3
    <3>5. new.labels = Append(acc.labels, e)
      BY <3>1, <3>3, <3>4
    <3>6. /\ Len(new.labels) = l + 1 /\ new.labels[l + 1] = e /\ l \in Nat
          /\ \A k \in 1 .. l : new.labels[k] = acc.labels[k]
      <4>1. PICK old \in Seq(Nat \X Nat) : old = acc.labels
        BY <1>3
      <4>2. /\ Len(Append(old, e)) = Len(old) + 1 /\ Append(old, e)[Len(old) + 1] = e
            /\ Len(old) \in Nat
            /\ \A k \in 1 .. Len(old) : Append(old, e)[k] = old[k]
        BY AppendProperties
      <4> QED
        BY <3>5, <4>1, <4>2
    <3>7. l + 1 \in 1 .. l + 1 /\ \A k \in 1 .. l : k \in 1 .. l + 1
      BY <3>6, SMTT(30)
    <3> HIDE DEF l
    <3> QED
      BY <2>1, <3>4, <3>6, <3>7
  <2>2. CASE q.op # "label"
    <3>1. new.labels = acc.labels
      BY <1>2, <2>2 DEF Separates
    <3> QED
      BY <1>3, <2>2, <3>1
  <2> QED
    BY <2>1, <2>2
<1>7. ASSUME NEW k \in 1 .. Len(new.labels)
      PROVE  \E h \in 1 .. i : p[h].op = "label" /\ new.labels[k] = Starts(p, h)
  <2>1. CASE k \in 1 .. l
    <3>1. PICK h \in 1 .. i - 1 : p[h].op = "label" /\ acc.labels[k] = Starts(p, h)
      BY <2>1 DEF Cut
    <3>2. h \in 1 .. i
      BY <1>1
    <3> QED
      BY <1>6, <2>1, <3>1, <3>2
  <2>2. CASE k \notin 1 .. l
    <3>1. q.op = "label" /\ k = l + 1
      BY <1>6, <2>2, SMTT(30)
    <3>2. i \in 1 .. i
      BY <1>1
    <3> QED
      BY <1>6, <3>1, <3>2 DEF q
  <2> QED
    BY <2>1, <2>2
<1>8. ASSUME NEW h \in 1 .. i, p[h].op = "label"
      PROVE  \E k \in 1 .. Len(new.labels) : new.labels[k] = Starts(p, h)
  <2>1. CASE h = i
    BY <1>6, <1>8, <2>1 DEF q
  <2>2. CASE h # i
    <3>1. h \in 1 .. i - 1
      BY <1>1, <2>2
    <3>2. PICK k \in 1 .. l : acc.labels[k] = Starts(p, h)
      BY <1>8, <3>1 DEF Cut
    <3> QED
      BY <1>6, <3>2
  <2> QED
    BY <2>1, <2>2
<1> QED
  BY <1>5, <1>7, <1>8 DEF Cut

LEMMA AllCut ==
  ASSUME NEW p \in Seq(Quad), \A i \in 1 .. Len(p) : p[i].id = i
  PROVE  Cut(p, Len(p), Separated(p)[Len(p)])
<1> DEFINE n == Len(p)
           T == {i \in Nat : i <= n => Cut(p, i, Separated(p)[i])}
<1>1. n \in Nat
  OBVIOUS
<1>2. 0 \in T
  <2>1. PICK acc : acc = Separated(p)[0]
    OBVIOUS
  <2>2. acc = Fresh
    BY <2>1, SeparatedEquation
  <2>3. Len(acc.blocks) = 0 /\ Len(acc.labels) = 0
    BY <2>2 DEF Fresh
  <2>4. Cut(p, 0, acc)
    BY <2>3 DEF Cut
  <2> QED
    BY <2>1, <2>4
<1>3. ASSUME NEW i \in Nat, i \in T PROVE i + 1 \in T
  <2> SUFFICES ASSUME i + 1 <= n PROVE Cut(p, i + 1, Separated(p)[i + 1])
    OBVIOUS
  <2>1. i + 1 \in 1 .. n /\ i \in 0 .. n /\ (i + 1) - 1 = i
    BY <1>1
  <2>2. PICK acc \in Accumulators : acc = Separated(p)[i]
    BY <2>1, SeparatedEquation
  <2>3. Cut(p, i, acc)
    BY <1>1, <1>3, <2>1, <2>2
  <2>4. PICK k \in 1 .. n : k = i + 1 /\ k - 1 = i
    BY <2>1
  <2>5. acc = Separated(p)[k - 1] /\ Cut(p, k - 1, acc)
    BY <2>2, <2>3, <2>4
  <2>6. Cut(p, k, Separated(p)[k])
    BY <2>5, CutStep
  <2> QED
    BY <2>4, <2>6
<1> HIDE DEF T
<1>4. Nat \subseteq T
  BY <1>2, <1>3, UpwardInduction
<1> QED
  BY <1>1, <1>4 DEF T

(* A quadruple of the blocks that the function starts with.                *)
Resolved(p, blocks, b, x) ==
  LET q == blocks[b][x] IN
  /\ q.id \in 1 .. Len(p) /\ q.op = p[q.id].op /\ b = BlockAt(p, q.id)
  /\ q.op \in Jumps =>
       /\ x = Len(blocks[b]) /\ q.target \in 1 .. Len(blocks)
       /\ \E h \in 1 .. Len(p) : Leads(p, q.id, h) /\ q.target = BlockAt(p, h)

LEMMA Extracted ==
  ASSUME NEW p \in Programs
  PROVE  /\ extract(p) \in Seq(Seq([op : Operators \union {"nop"}, id : 1 .. Len(p), target : Nat]))
         /\ \A b \in 1 .. Len(extract(p)) : \A x \in 1 .. Len(extract(p)[b]) :
              Resolved(p, extract(p), b, x)
<1> DEFINE n == Len(p)
           Resolvable == [op : Operators \union {"nop"}, id : 1 .. n, target : Nat]
<1>1. /\ p \in Seq(Quad)
      /\ \A i \in 1 .. n : p[i].id = i
      /\ \A i \in 1 .. n : p[i].op \in Jumps => \E j \in 1 .. n : Leads(p, i, j)
      /\ \A i, j \in 1 .. n :
           p[i].op = "label" /\ p[j].op = "label" /\ p[i].target = p[j].target => i = j
  BY ProgramsAssumption DEF Quad
<1>2. n \in Nat /\ n \in 0 .. n /\ 0 \in 0 .. n
  BY <1>1
<1>3. PICK acc \in Accumulators : acc = Separated(p)[n]
  BY <1>1, <1>2, SeparatedEquation
<1>4. Cut(p, n, acc) /\ Len(acc.blocks) = BlockAt(p, n)
  BY <1>1, <1>3, AllCut DEF BlockAt
<1> DEFINE m == Len(acc.blocks)
           block(label) == CHOOSE b \in 1 .. m : <<label, b>> \in ToSet(acc.labels)
           resolve(q) == IF q.op \in Jumps THEN [q EXCEPT !.target = block(q.target)] ELSE q
           code0 == [b \in 1 .. m |-> [i \in DOMAIN acc.blocks[b] |-> resolve(acc.blocks[b][i])]]
<1>5. extract(p) = code0
  BY <1>3 DEF extract
<1>6. /\ acc.blocks \in Seq(Seq(Quad)) /\ acc.labels \in Seq(Nat \X Nat) /\ m \in Nat
      /\ DOMAIN acc.labels = 1 .. Len(acc.labels)
  BY DEF Accumulators
<1>7. ASSUME NEW h \in 1 .. n, p[h].op = "label"
      PROVE  /\ BlockAt(p, h) \in 1 .. m
             /\ <<p[h].target, BlockAt(p, h)>> \in ToSet(acc.labels)
  <2>1. h \in 0 .. n /\ 0 < h /\ h <= n
    BY <1>2
  <2>2. BlockAt(p, h) \in 1 .. m
    <3>1. BlockAt(p, 0) = 0 /\ BlockAt(p, h) \in Nat /\ BlockAt(p, n) \in Nat
      BY <1>1, <1>2, <2>1, BlocksInOrder
    <3>2. BlockAt(p, 0) < BlockAt(p, h) /\ BlockAt(p, h) <= BlockAt(p, n)
      BY <1>1, <1>2, <1>7, <2>1, BlocksInOrder
    <3> QED
      BY <1>4, <3>1, <3>2
  <2>3. PICK k \in 1 .. Len(acc.labels) : acc.labels[k] = Starts(p, h)
    BY <1>4, <1>7 DEF Cut
  <2>4. <<p[h].target, BlockAt(p, h)>> \in ToSet(acc.labels)
    BY <1>6, <2>3 DEF ToSet, Starts
  <2> QED
    BY <2>2, <2>4
<1>8. ASSUME NEW i \in 1 .. n, p[i].op \in Jumps
      PROVE  /\ block(p[i].target) \in 1 .. m
             /\ \E h \in 1 .. n : Leads(p, i, h) /\ block(p[i].target) = BlockAt(p, h)
  <2>1. PICK j \in 1 .. n : Leads(p, i, j)
    BY <1>1, <1>8
  <2>2. p[j].op = "label" /\ p[j].target = p[i].target
    BY <2>1 DEF Leads
  <2>3. \E b \in 1 .. m : <<p[i].target, b>> \in ToSet(acc.labels)
    BY <1>7, <2>2
  <2>4. /\ block(p[i].target) \in 1 .. m
        /\ <<p[i].target, block(p[i].target)>> \in ToSet(acc.labels)
    BY <2>3
  <2> HIDE DEF block, m
  <2>5. PICK k \in 1 .. Len(acc.labels) : acc.labels[k] = <<p[i].target, block(p[i].target)>>
    BY <1>6, <2>4 DEF ToSet
  <2>6. PICK h \in 1 .. n : p[h].op = "label" /\ acc.labels[k] = Starts(p, h)
    BY <1>4 DEF Cut
  <2>7. p[h].target = p[i].target /\ BlockAt(p, h) = block(p[i].target)
    BY <2>5, <2>6 DEF Starts
  <2>8. Leads(p, i, h)
    BY <1>8, <2>6, <2>7, SMTT(30) DEF Leads
  <2> QED
    BY <2>4, <2>7, <2>8
<1> HIDE DEF block
<1>9. ASSUME NEW b \in 1 .. m, NEW x \in 1 .. Len(acc.blocks[b])
      PROVE  LET q == acc.blocks[b][x]
                 r == resolve(q)
             IN  /\ r \in Resolvable /\ r.id = q.id /\ r.op = q.op
                 /\ q.id \in 1 .. n /\ q = p[q.id] /\ b = BlockAt(p, q.id)
                 /\ q.op \in Jumps =>
                      /\ x = Len(acc.blocks[b]) /\ r.target \in 1 .. m
                      /\ \E h \in 1 .. n : Leads(p, q.id, h) /\ r.target = BlockAt(p, h)
  <2> DEFINE q == acc.blocks[b][x]
             r == resolve(q)
  <2>1. Placed(p, n, acc, b, x)
    BY <1>4 DEF Cut
  <2>2. /\ q.id \in 1 .. n /\ q = p[q.id] /\ b = BlockAt(p, q.id)
        /\ q.op \in Jumps => x = Len(acc.blocks[b])
    BY <2>1 DEF Placed
  <2>3. q \in Quad
    BY <1>6
  <2>4. q = [op |-> q.op, id |-> q.id, target |-> q.target] /\ q.op \in Operators /\ q.target \in Nat
    BY <2>3 DEF Quad
  <2> HIDE DEF q
  <2>5. CASE q.op \in Jumps
    <3>1. /\ block(q.target) \in 1 .. m
          /\ \E h \in 1 .. n : Leads(p, q.id, h) /\ block(q.target) = BlockAt(p, h)
      BY <1>8, <2>2, <2>5
    <3>2. r = [op |-> q.op, id |-> q.id, target |-> block(q.target)]
      BY <2>4, <2>5
    <3>3. block(q.target) \in Nat
      BY <1>6, <3>1
    <3>4. r \in Resolvable
      BY <2>2, <2>4, <3>2, <3>3
    <3>5. r.id = q.id /\ r.op = q.op /\ r.target = block(q.target)
      BY <3>2
    <3> HIDE DEF r, resolve, Resolvable, m, n
    <3> QED
      BY <2>2, <3>1, <3>4, <3>5 DEF q, r
  <2>6. CASE q.op \notin Jumps
    <3>1. r = q
      BY <2>6
    <3>2. q \in Resolvable
      BY <2>2, <2>4
    <3> HIDE DEF r, resolve, Resolvable, m, n
    <3> QED
      BY <2>2, <2>6, <3>1, <3>2 DEF q, r
  <2> QED
    BY <2>5, <2>6
<1> HIDE DEF resolve, Resolvable
<1>10. ASSUME NEW b \in 1 .. m
       PROVE  /\ code0[b] \in Seq(Resolvable) /\ Len(code0[b]) = Len(acc.blocks[b])
              /\ \A x \in 1 .. Len(acc.blocks[b]) : code0[b][x] = resolve(acc.blocks[b][x])
  <2>1. /\ acc.blocks[b] \in Seq(Quad) /\ Len(acc.blocks[b]) \in Nat
        /\ DOMAIN acc.blocks[b] = 1 .. Len(acc.blocks[b])
    BY <1>6
  <2>2. code0[b] = [i \in 1 .. Len(acc.blocks[b]) |-> resolve(acc.blocks[b][i])]
    BY <2>1
  <2>3. \A x \in 1 .. Len(acc.blocks[b]) : resolve(acc.blocks[b][x]) \in Resolvable
    BY <1>9
  <2> HIDE DEF code0
  <2> QED
    BY <2>1, <2>2, <2>3
<1>11. code0 \in Seq(Seq(Resolvable)) /\ Len(code0) = m
  <2>1. \A b \in 1 .. m : code0[b] \in Seq(Resolvable)
    BY <1>10
  <2>2. code0 = [b \in 1 .. m |-> code0[b]]
    OBVIOUS
  <2> HIDE DEF code0, m
  <2>3. code0 \in [1 .. m -> Seq(Resolvable)]
    BY <2>1, <2>2
  <2> QED
    BY <1>6, <2>3
<1> HIDE DEF code0, m
<1>12. ASSUME NEW b \in 1 .. m, NEW x \in 1 .. Len(code0[b])
       PROVE  Resolved(p, code0, b, x)
  <2>1. x \in 1 .. Len(acc.blocks[b]) /\ code0[b][x] = resolve(acc.blocks[b][x])
    BY <1>10
  <2>2. LET q == acc.blocks[b][x]
            r == resolve(q)
        IN  /\ r.id = q.id /\ r.op = q.op
            /\ q.id \in 1 .. n /\ q = p[q.id] /\ b = BlockAt(p, q.id)
            /\ q.op \in Jumps =>
                 /\ x = Len(acc.blocks[b]) /\ r.target \in 1 .. m
                 /\ \E h \in 1 .. n : Leads(p, q.id, h) /\ r.target = BlockAt(p, h)
    BY <1>9, <2>1
  <2> QED
    BY <1>10, <1>11, <2>1, <2>2 DEF Resolved
<1> QED
  BY <1>5, <1>11, <1>12 DEF Resolvable
-----------------------------------------------------------------------------
(* The graph that the function starts with.                                *)

LEMMA CountPositive ==
  ASSUME NEW s, NEW n \in Nat, DOMAIN s = 1 .. n, NEW b
  PROVE  /\ Cardinality({i \in DOMAIN s : s[i] = b}) \in Nat
         /\ Cardinality({i \in DOMAIN s : s[i] = b}) > 0 <=> \E i \in DOMAIN s : s[i] = b
<1> DEFINE T == {i \in DOMAIN s : s[i] = b}
<1>1. IsFiniteSet(1 .. n) /\ T \subseteq 1 .. n
  BY FS_Interval
<1>2. IsFiniteSet(T)
  BY <1>1, FS_Subset
<1>3. Cardinality(T) \in Nat /\ (Cardinality(T) = 0 <=> T = {})
  BY <1>2, FS_CardinalityType, FS_EmptySet
<1>4. T # {} <=> \E i \in DOMAIN s : s[i] = b
  OBVIOUS
<1> HIDE DEF T
<1>5. Cardinality(T) \in Nat /\ (Cardinality(T) > 0 <=> \E i \in DOMAIN s : s[i] = b)
  BY <1>3, <1>4
<1> QED
  BY <1>5 DEF T

All(blocks) == (1 .. Len(blocks)) \union {ENTRY, EXIT}

Following(blocks, a) ==
  IF a = Len(blocks) \/ (Len(blocks) = 0 /\ a = ENTRY) THEN EXIT
  ELSE IF a = ENTRY THEN 1 ELSE a + 1

Reaches(blocks, a, b) ==
  \/ a = ENTRY /\ b = Following(blocks, a)
  \/ a \in 1 .. Len(blocks) /\ Falls(blocks[a]) /\ b = Following(blocks, a)
  \/ a \in 1 .. Len(blocks) /\ Leaps(blocks[a]) /\ b = Last(blocks[a]).target

LEMMA TargetsOf ==
  ASSUME NEW block, NEW next
  PROVE  /\ \E n \in Nat : DOMAIN Targets(block, next) = 1 .. n
         /\ \A b : (\E i \in DOMAIN Targets(block, next) : Targets(block, next)[i] = b)
              <=> (Falls(block) /\ b = next) \/ (Leaps(block) /\ b = Last(block).target)
<1> DEFINE t == Last(block).target
           s == Targets(block, next)
<1>1. s = IF block = <<>> THEN <<next>>
          ELSE IF Last(block).op = "goto" THEN <<t>>
          ELSE IF Last(block).op \in {"if", "if_false"} THEN <<t, next>>
          ELSE <<next>>
  BY DEF Targets
<1> HIDE DEF s, t
<1>2. CASE s = <<next>> /\ Falls(block) /\ ~Leaps(block)
  <2>1. DOMAIN s = 1 .. 1 /\ s[1] = next
    BY <1>2
  <2> QED
    BY <1>2, <2>1 DEF s, t
<1>3. CASE s = <<t>> /\ ~Falls(block) /\ Leaps(block)
  <2>1. DOMAIN s = 1 .. 1 /\ s[1] = t
    BY <1>3
  <2> QED
    BY <1>3, <2>1 DEF s, t
<1>4. CASE s = <<t, next>> /\ Falls(block) /\ Leaps(block)
  <2>1. DOMAIN s = 1 .. 2 /\ s[1] = t /\ s[2] = next
    BY <1>4
  <2> QED
    BY <1>4, <2>1 DEF s, t
<1> QED
  BY <1>1, <1>2, <1>3, <1>4 DEF Falls, Leaps, EndsWith, Jumps

LEMMA GraphFacts ==
  ASSUME NEW blocks, Len(blocks) \in Nat
  PROVE  /\ build_control_flow_graph(blocks) \in [All(blocks) -> [All(blocks) -> Nat]]
         /\ \A a, b \in All(blocks) :
              build_control_flow_graph(blocks)[a][b] > 0 <=> Reaches(blocks, a, b)
<1> DEFINE targets(a) == CASE a = EXIT -> <<>>
                           [] a = ENTRY -> <<Following(blocks, a)>>
                           [] OTHER -> Targets(blocks[a], Following(blocks, a))
           count(a, b) == Cardinality({i \in DOMAIN targets(a) : targets(a)[i] = b})
<1>1. build_control_flow_graph(blocks) =
        [a \in All(blocks) |-> [b \in All(blocks) |-> count(a, b)]]
  BY DEF build_control_flow_graph, All, Following
<1>2. ASSUME NEW a \in All(blocks), NEW b \in All(blocks)
      PROVE  count(a, b) \in Nat /\ (count(a, b) > 0 <=> Reaches(blocks, a, b))
  <2>1. PICK s : s = targets(a)
    OBVIOUS
  <2>2. /\ \E n \in Nat : DOMAIN s = 1 .. n
        /\ (\E i \in DOMAIN s : s[i] = b) <=> Reaches(blocks, a, b)
    <3>1. CASE a = EXIT
      <4>1. s = <<>> /\ DOMAIN s = 1 .. 0 /\ 0 \in Nat
        <5>1. targets(a) = <<>>
          BY <3>1 DEF EXIT, ENTRY
        <5> HIDE DEF targets
        <5>2. s = <<>>
          BY <2>1, <5>1
        <5>3. DOMAIN s = {} /\ 1 .. 0 = {}
          BY <5>2
        <5> QED
          BY <5>2, <5>3
      <4>2. ~Reaches(blocks, a, b)
        BY <3>1 DEF Reaches, EXIT, ENTRY
      <4> QED
        BY <4>1, <4>2
    <3>2. CASE a = ENTRY
      <4>1. s = <<Following(blocks, a)>>
        BY <2>1, <3>2 DEF EXIT, ENTRY
      <4>2. DOMAIN s = 1 .. 1 /\ s[1] = Following(blocks, a) /\ 1 \in Nat
        BY <4>1
      <4>3. Reaches(blocks, a, b) <=> b = Following(blocks, a)
        BY <3>2 DEF Reaches, ENTRY
      <4> QED
        BY <4>2, <4>3
    <3>3. CASE a # EXIT /\ a # ENTRY
      <4>1. s = Targets(blocks[a], Following(blocks, a))
        BY <2>1, <3>3
      <4>2. a \in 1 .. Len(blocks)
        BY <3>3 DEF All
      <4>3. /\ \E n \in Nat : DOMAIN s = 1 .. n
            /\ (\E i \in DOMAIN s : s[i] = b)
               <=> \/ Falls(blocks[a]) /\ b = Following(blocks, a)
                   \/ Leaps(blocks[a]) /\ b = Last(blocks[a]).target
        BY <4>1, TargetsOf
      <4> QED
        BY <3>3, <4>2, <4>3 DEF Reaches
    <3> QED
      BY <3>1, <3>2, <3>3
  <2>3. PICK n \in Nat : DOMAIN s = 1 .. n
    BY <2>2
  <2>4. /\ Cardinality({i \in DOMAIN s : s[i] = b}) \in Nat
        /\ Cardinality({i \in DOMAIN s : s[i] = b}) > 0 <=> \E i \in DOMAIN s : s[i] = b
    BY <2>3, CountPositive
  <2>5. count(a, b) = Cardinality({i \in DOMAIN s : s[i] = b})
    BY <2>1
  <2> HIDE DEF count
  <2> QED
    BY <2>2, <2>4, <2>5
<1> HIDE DEF count
<1>3. [a \in All(blocks) |-> [b \in All(blocks) |-> count(a, b)]] \in [All(blocks) -> [All(blocks) -> Nat]]
  BY <1>2
<1>4. \A a, b \in All(blocks) : build_control_flow_graph(blocks)[a][b] = count(a, b)
  BY <1>1
<1> QED
  BY <1>1, <1>2, <1>3, <1>4

(* The layout that the function starts with is that of the list.           *)
Natural(n) ==
  /\ Len(layout) = n + 2 /\ layout \in Seq(Blocks)
  /\ \A i \in 1 .. n + 2 :
       layout[i] = IF i = 1 THEN ENTRY ELSE IF i = n + 2 THEN EXIT ELSE i - 1

LEMMA NaturalLayout ==
  ASSUME Init, Len(code) \in Nat
  PROVE  Natural(Len(code))
<1> DEFINE n == Len(code)
           middle == [b \in 1 .. n |-> b]
<1>1. layout = <<ENTRY>> \o middle \o <<EXIT>>
  BY DEF Init
<1>2. middle \in Seq(Blocks) /\ Len(middle) = n /\ \A i \in 1 .. n : middle[i] = i
  BY DEF Blocks
<1> HIDE DEF middle
<1>3. <<ENTRY>> \in Seq(Blocks) /\ <<EXIT>> \in Seq(Blocks)
  BY DEF Blocks
<1>4. PICK s \in Seq(Blocks), t \in Seq(Blocks) : s = <<ENTRY>> /\ t = <<EXIT>>
  BY <1>3
<1>5. Len(s) = 1 /\ s[1] = ENTRY /\ Len(t) = 1 /\ t[1] = EXIT
  BY <1>4
<1>6. PICK u : u = s \o middle
  OBVIOUS
<1>7. /\ u \in Seq(Blocks) /\ Len(u) = n + 1
      /\ \A i \in 1 .. n + 1 : u[i] = IF i = 1 THEN ENTRY ELSE i - 1
  <2>1. /\ s \o middle \in Seq(Blocks) /\ Len(s \o middle) = Len(s) + Len(middle)
        /\ \A i \in 1 .. Len(s) + Len(middle) :
             (s \o middle)[i] = IF i <= Len(s) THEN s[i] ELSE middle[i - Len(s)]
    BY <1>2, ConcatProperties, Zenon
  <2>2. \A i \in 1 .. n + 1 : i # 1 => i - 1 \in 1 .. n /\ ~(i <= 1)
    OBVIOUS
  <2> QED
    BY <1>2, <1>5, <1>6, <2>1, <2>2
<1>8. layout = u \o t
  BY <1>1, <1>4, <1>6
<1>9. /\ layout \in Seq(Blocks) /\ Len(layout) = n + 2
      /\ \A i \in 1 .. n + 2 : layout[i] = IF i = n + 2 THEN EXIT ELSE u[i]
  <2>1. /\ u \o t \in Seq(Blocks) /\ Len(u \o t) = Len(u) + Len(t)
        /\ \A i \in 1 .. Len(u) + Len(t) :
             (u \o t)[i] = IF i <= Len(u) THEN u[i] ELSE t[i - Len(u)]
    BY <1>7, ConcatProperties, Zenon
  <2>2. /\ (n + 2) - (n + 1) = 1 /\ ~(n + 2 <= n + 1) /\ n + 1 + 1 = n + 2
        /\ \A i \in 1 .. n + 2 : i # n + 2 => i <= n + 1
    OBVIOUS
  <2> QED
    BY <1>5, <1>7, <1>8, <2>1, <2>2
<1>10. \A i \in 1 .. n + 2 :
         layout[i] = IF i = 1 THEN ENTRY ELSE IF i = n + 2 THEN EXIT ELSE i - 1
  <2>1. \A i \in 1 .. n + 2 : (i # n + 2 => i \in 1 .. n + 1) /\ n + 2 # 1
    OBVIOUS
  <2> QED
    BY <1>7, <1>9, <2>1
<1> HIDE DEF n
<1> QED
  BY <1>9, <1>10 DEF Natural, n

(* The facts about the blocks that the rest follows from.                  *)
Fine ==
  /\ program \in Programs /\ program \in Seq(Quad) /\ code \in Seq(Seq(Quads))
  /\ Natural(Len(code)) /\ edges \in [Blocks -> [Blocks -> Nat]]
  /\ \A b \in 1 .. Len(code) : \A x \in 1 .. Len(code[b]) : Resolved(program, code, b, x)
  /\ \A a, b \in Blocks : edges[a][b] > 0 <=> Reaches(code, a, b)

LEMMA FineInit ==
  ASSUME Init
  PROVE  Fine
<1>1. program \in Programs /\ code = extract(program)
      /\ edges = build_control_flow_graph(code)
  BY DEF Init
<1>2. program \in Seq(Quad)
  BY <1>1, ProgramsAssumption DEF Quad
<1>3. PICK p \in Programs : p = program
  BY <1>1
<1>4. /\ code \in Seq(Seq(Quads))
      /\ \A b \in 1 .. Len(code) : \A x \in 1 .. Len(code[b]) : Resolved(program, code, b, x)
  <2>1. /\ extract(p) \in Seq(Seq([op : Operators \union {"nop"}, id : 1 .. Len(p), target : Nat]))
        /\ \A b \in 1 .. Len(extract(p)) : \A x \in 1 .. Len(extract(p)[b]) :
             Resolved(p, extract(p), b, x)
    BY Extracted
  <2>2. code = extract(p)
    BY <1>1, <1>3
  <2> QED
    BY <1>3, <2>1, <2>2 DEF Quads
<1>5. Len(code) \in Nat
  BY <1>4
<1>6. Natural(Len(code))
  BY <1>5, NaturalLayout
<1>7. /\ edges \in [Blocks -> [Blocks -> Nat]]
      /\ \A a, b \in Blocks : edges[a][b] > 0 <=> Reaches(code, a, b)
  <2>1. PICK c : c = code
    OBVIOUS
  <2>2. /\ build_control_flow_graph(c) \in [All(c) -> [All(c) -> Nat]]
        /\ \A a, b \in All(c) : build_control_flow_graph(c)[a][b] > 0 <=> Reaches(c, a, b)
    BY <1>5, <2>1, GraphFacts
  <2>3. All(c) = Blocks
    BY <2>1 DEF All, Blocks
  <2> QED
    BY <1>1, <2>1, <2>2, <2>3
<1> QED
  BY <1>1, <1>2, <1>4, <1>6, <1>7 DEF Fine

(* No block is twice in that layout.                                       *)
LEMMA NaturalInjective ==
  ASSUME Natural(Len(code)), Len(code) \in Nat
  PROVE  /\ Len(layout) = Len(code) + 2
         /\ \A h, k \in 1 .. Len(layout) : layout[h] = layout[k] => h = k
  BY DEF Natural, ENTRY, EXIT

LEMMA NaturalNext ==
  ASSUME Natural(Len(code)), Len(code) \in Nat, NEW i \in 1 .. Len(layout) - 1
  PROVE  /\ Following(code, layout[i]) = layout[i + 1]
         /\ layout[i] = ENTRY \/ layout[i] \in 1 .. Len(code)
<1> DEFINE n == Len(code)
<1>1. /\ Len(layout) = n + 2 /\ i \in 1 .. n + 1 /\ i + 1 \in 1 .. n + 2 /\ i \in 1 .. n + 2
      /\ i # n + 2 /\ n \in Nat
  BY DEF Natural
<1>2. /\ layout[i] = IF i = 1 THEN ENTRY ELSE i - 1
      /\ layout[i + 1] = IF i = n + 1 THEN EXIT ELSE i
  <2>1. /\ layout[i] = IF i = 1 THEN ENTRY ELSE IF i = n + 2 THEN EXIT ELSE i - 1
        /\ layout[i + 1] = IF i + 1 = 1 THEN ENTRY ELSE IF i + 1 = n + 2 THEN EXIT ELSE (i + 1) - 1
    BY <1>1 DEF Natural
  <2> QED
    BY <1>1, <2>1
<1> HIDE DEF n
<1>3. CASE i = 1
  <2>1. layout[i] = ENTRY /\ layout[i + 1] = IF n = 0 THEN EXIT ELSE 1
    BY <1>1, <1>2, <1>3
  <2>2. n \in Nat
    BY DEF n
  <2>3. Following(code, ENTRY) = IF n = 0 THEN EXIT ELSE 1
    BY <2>2 DEF Following, n, ENTRY
  <2> QED
    BY <2>1, <2>3
<1>4. CASE i # 1
  <2>1. layout[i] = i - 1 /\ layout[i + 1] = IF i - 1 = n THEN EXIT ELSE (i - 1) + 1
    <3>1. n \in Nat
      BY DEF n
    <3> QED
      BY <1>1, <1>2, <1>4, <3>1
  <2>2. i - 1 \in 1 .. n /\ i - 1 # ENTRY
    BY <1>1, <1>4 DEF ENTRY
  <2>3. Following(code, i - 1) = IF i - 1 = n THEN EXIT ELSE (i - 1) + 1
    BY <2>2 DEF Following, n
  <2> QED
    BY <2>1, <2>2, <2>3 DEF n
<1> QED
  BY <1>3, <1>4

LEMMA FineLast ==
  ASSUME Fine, NEW b \in 1 .. Len(code), code[b] # <<>>
  PROVE  /\ Last(code[b]).id \in 1 .. Len(program)
         /\ Last(code[b]).op = program[Last(code[b]).id].op
         /\ b = BlockAt(program, Last(code[b]).id)
         /\ Leaps(code[b]) =>
              \E h \in 1 .. Len(program) :
                /\ Leads(program, Last(code[b]).id, h)
                /\ Last(code[b]).target = BlockAt(program, h)
<1>1. code[b] \in Seq(Quads)
  BY DEF Fine
<1>2. Len(code[b]) \in 1 .. Len(code[b]) /\ Last(code[b]) = code[b][Len(code[b])]
  BY <1>1 DEF Last
<1>3. Resolved(program, code, b, Len(code[b]))
  BY <1>2 DEF Fine
<1> QED
  BY <1>2, <1>3 DEF Resolved, Leaps, EndsWith

(* A jump that leads back leads to a label above it, and what leads into   *)
(* that loop from above it does not pass the label.                        *)
LEMMA FineLoops ==
  ASSUME Fine
  PROVE  Loops
<1> DEFINE n == Len(program)
           B(h) == BlockAt(program, h)
<1>1. /\ Len(code) \in Nat /\ Natural(Len(code)) /\ n \in Nat
      /\ \A k \in 1 .. Len(layout) : layout[k] \in Blocks
  BY DEF Fine, Natural
<1>2. ASSUME NEW x \in 1 .. Len(layout), NEW y \in 1 .. Len(layout), Edge(x, y)
      PROVE  \/ y = x + 1
             \/ /\ layout[x] = x - 1 /\ layout[y] = y - 1
                /\ \E g, h \in 1 .. n :
                     /\ Leads(program, g, h)
                     /\ layout[x] = B(g) /\ layout[y] = B(h)
  <2>1. Reaches(code, layout[x], layout[y])
    BY <1>1, <1>2 DEF Fine, Edge
  <2>2. \A h, k \in 1 .. Len(layout) : layout[h] = layout[k] => h = k
    BY <1>1, NaturalInjective
  <2>3. /\ Len(layout) = Len(code) + 2
        /\ \A k \in 1 .. Len(layout) : layout[k] \in 1 .. Len(code) => layout[k] = k - 1
    BY <1>1 DEF Natural, ENTRY, EXIT
  <2>4. layout[x] # EXIT
    BY <2>1 DEF Reaches, ENTRY, EXIT
  <2>5. x # Len(layout)
    BY <1>1, <2>3, <2>4 DEF Natural, ENTRY, EXIT
  <2>6. x \in 1 .. Len(layout) - 1 /\ x + 1 \in 1 .. Len(layout)
    BY <1>1, <2>3, <2>5
  <2>7. Following(code, layout[x]) = layout[x + 1]
    BY <1>1, <2>6, NaturalNext
  <2>8. CASE layout[y] = Following(code, layout[x])
    BY <2>2, <2>6, <2>7, <2>8
  <2>9. CASE /\ layout[x] \in 1 .. Len(code) /\ Leaps(code[layout[x]])
             /\ layout[y] = Last(code[layout[x]]).target
    <3>1. code[layout[x]] # <<>>
      BY <2>9 DEF Leaps, EndsWith
    <3>2. PICK b \in 1 .. Len(code) : b = layout[x]
      BY <2>9
    <3>3. /\ Last(code[b]).id \in 1 .. n /\ b = B(Last(code[b]).id)
          /\ \E h \in 1 .. n : Leads(program, Last(code[b]).id, h) /\ Last(code[b]).target = B(h)
      BY <2>9, <3>1, <3>2, FineLast
    <3>4. PICK h \in 1 .. n : Leads(program, Last(code[b]).id, h) /\ Last(code[b]).target = B(h)
      BY <3>3
    <3>5. layout[y] \in 1 .. Len(code)
      <4>1. code[b] \in Seq(Quads)
        BY DEF Fine
      <4>2. Len(code[b]) \in 1 .. Len(code[b]) /\ Last(code[b]) = code[b][Len(code[b])]
        BY <3>1, <3>2, <4>1 DEF Last
      <4>3. Resolved(program, code, b, Len(code[b]))
        BY <4>2 DEF Fine
      <4> QED
        BY <2>9, <3>2, <4>2, <4>3 DEF Resolved, Leaps, EndsWith
    <3>6. layout[x] = x - 1 /\ layout[y] = y - 1
      BY <2>3, <2>9, <3>5
    <3> HIDE DEF B, n
    <3> QED
      BY <2>9, <3>2, <3>3, <3>4, <3>6
  <2> QED
    BY <2>1, <2>8, <2>9 DEF Reaches
<1> SUFFICES ASSUME NEW i \in 1 .. Len(layout), NEW head \in 1 .. Len(layout),
                    NEW j \in 1 .. Len(layout), NEW into \in 1 .. Len(layout),
                    Edge(i, head), head <= i, Edge(j, into), j < head,
                    head < into, into <= i
             PROVE  FALSE
  BY DEF Loops
<1>3. head # i + 1 /\ into # j + 1 /\ Len(layout) \in Nat
  BY <1>1 DEF Natural
<1>4. PICK g \in 1 .. n, h \in 1 .. n :
        /\ Leads(program, g, h) /\ layout[i] = B(g) /\ layout[head] = B(h)
        /\ layout[i] = i - 1 /\ layout[head] = head - 1
  BY <1>2, <1>3
<1>5. PICK s \in 1 .. n, t \in 1 .. n :
        /\ Leads(program, s, t) /\ layout[j] = B(s) /\ layout[into] = B(t)
        /\ layout[j] = j - 1 /\ layout[into] = into - 1
  BY <1>2, <1>3
<1>6. B(g) = i - 1 /\ B(h) = head - 1 /\ B(s) = j - 1 /\ B(t) = into - 1
  BY <1>4, <1>5
<1>7. /\ B(h) <= B(g) /\ B(s) < B(h) /\ B(h) < B(t) /\ B(t) <= B(g)
  BY <1>3, <1>6
<1>8. /\ program[g].op \in Jumps /\ program[h].op = "label"
      /\ program[s].op \in Jumps /\ program[t].op = "label"
  BY <1>4, <1>5 DEF Leads
<1>9. g # h /\ g # t
  BY <1>8 DEF Jumps
<1>10. \A x, y \in 0 .. n :
         /\ x <= y => B(x) <= B(y)
         /\ x < y /\ program[y].op = "label" => B(x) < B(y)
  <2>1. PICK p \in Seq(Quad) : p = program
    BY DEF Fine
  <2>2. \A x, y \in 0 .. Len(p) :
         /\ x <= y => BlockAt(p, x) <= BlockAt(p, y)
         /\ x < y /\ p[y].op = "label" => BlockAt(p, x) < BlockAt(p, y)
    BY BlocksInOrder
  <2> QED
    BY <2>1, <2>2
<1>11. \A x \in 1 .. n : x \in 0 .. n
  BY <1>1
<1>12. B(g) \in Int /\ B(h) \in Int /\ B(s) \in Int /\ B(t) \in Int
  BY <1>6
<1> HIDE DEF B, n
<1>13. h < g
  BY <1>7, <1>8, <1>9, <1>10, <1>11, <1>12
<1>14. s < h
  BY <1>7, <1>10, <1>11, <1>12, SMTT(30)
<1>15. h < t
  BY <1>7, <1>10, <1>11, <1>12
<1>16. t < g
  BY <1>7, <1>8, <1>9, <1>10, <1>11, <1>12
<1>17. PICK p \in Programs : p = program
  BY DEF Fine
<1>18. Leads(p, g, h) /\ Leads(p, s, t) /\ n = Len(p)
  BY <1>4, <1>5, <1>17 DEF n
<1> QED
  BY <1>13, <1>14, <1>15, <1>16, <1>18, LoopsAssumption

LEMMA Initially ==
  ASSUME Init
  PROVE  IInv
<1>1. Fine
  BY FineInit
<1>2. /\ facts = [i \in 1 .. Len(program) |-> "var"] /\ pc = "simplify"
  BY DEF Init
<1> DEFINE n == Len(code)
<1>3. /\ n \in Nat /\ code \in Seq(Seq(Quads)) /\ program \in Programs
      /\ Natural(n) /\ edges \in [Blocks -> [Blocks -> Nat]]
      /\ Len(layout) = n + 2 /\ layout \in Seq(Blocks)
      /\ \A i \in 1 .. n + 2 :
           layout[i] = IF i = 1 THEN ENTRY ELSE IF i = n + 2 THEN EXIT ELSE i - 1
  BY <1>1 DEF Fine, Natural
<1> HIDE DEF n
<1>4. Types
  <2>1. facts \in [1 .. Len(program) -> {"var", "zero", "one", "gone"}]
    BY <1>2
  <2> QED
    BY <1>2, <1>3, <2>1 DEF Types
<1>5. Arranged
  <2>1. 1 \in 1 .. n + 2 /\ n + 2 \in 1 .. n + 2 /\ n + 2 # 1 /\ n + 2 >= 2
    BY <1>3
  <2>2. layout[1] = ENTRY /\ layout[n + 2] = EXIT
    BY <1>3, <2>1
  <2>3. ASSUME NEW i \in 1 .. n + 2, NEW j \in 1 .. n + 2, layout[i] = layout[j]
        PROVE  i = j
    BY <1>3, <2>3, NaturalInjective DEF n
  <2> QED
    BY <1>3, <2>1, <2>2, <2>3 DEF Arranged
<1>6. JumpsLast
  <2>1. ASSUME NEW b \in 1 .. Len(code), NEW x \in 1 .. Len(code[b]), code[b][x].op \in Jumps
        PROVE  x = Len(code[b]) /\ code[b][x].target \in 1 .. Len(code)
    <3>1. Resolved(program, code, b, x)
      BY <1>1 DEF Fine
    <3> QED
      BY <2>1, <3>1 DEF Resolved
  <2> QED
    BY <2>1 DEF JumpsLast
<1>7. OneBranch
  <2>1. ASSUME NEW b \in 1 .. Len(code), NEW c \in 1 .. Len(code),
               Branches(code[b]), Branches(code[c]), Last(code[b]).id = Last(code[c]).id
        PROVE  b = c
    <3>1. code[b] # <<>> /\ code[c] # <<>>
      BY <2>1 DEF Branches, EndsWith
    <3>2. b = BlockAt(program, Last(code[b]).id) /\ c = BlockAt(program, Last(code[c]).id)
      BY <1>1, <3>1, FineLast
    <3> QED
      BY <2>1, <3>2
  <2> QED
    BY <2>1 DEF OneBranch
<1>8. Pending
  <2>1. ASSUME NEW i \in 1 .. Len(layout), layout[i] > 0, Branches(code[layout[i]]),
               facts[Last(code[layout[i]]).id] \in {"zero", "one"}
        PROVE  FALSE
    <3>1. layout[i] \in 1 .. Len(code)
      <4>1. layout[i] \in Blocks
        BY <1>3
      <4> QED
        BY <2>1, <4>1 DEF Blocks, ENTRY, EXIT
    <3>2. code[layout[i]] # <<>>
      BY <2>1 DEF Branches, EndsWith
    <3>3. Last(code[layout[i]]).id \in 1 .. Len(program)
      BY <1>1, <3>1, <3>2, FineLast
    <3> QED
      BY <1>2, <2>1, <3>3
  <2> QED
    BY <2>1 DEF Pending
<1>9. EdgesStay
  <2>1. ASSUME NEW a \in Blocks, NEW b \in Blocks, edges[a][b] > 0
        PROVE  a # EXIT /\ b # ENTRY
    <3>1. Reaches(code, a, b)
      BY <1>1, <2>1 DEF Fine
    <3>2. a # EXIT
      BY <3>1 DEF Reaches, ENTRY, EXIT
    <3>3. Following(code, a) # ENTRY
      <4>1. a = ENTRY \/ a \in 1 .. Len(code)
        BY <3>2 DEF Blocks
      <4> QED
        BY <4>1 DEF Following, ENTRY, EXIT
    <3>4. ASSUME a \in 1 .. Len(code), Leaps(code[a]) PROVE Last(code[a]).target # ENTRY
      <4>1. code[a] # <<>>
        BY <3>4 DEF Leaps, EndsWith
      <4>2. Len(code[a]) \in 1 .. Len(code[a]) /\ Last(code[a]) = code[a][Len(code[a])]
        <5>1. code[a] \in Seq(Quads)
          BY <1>3, <3>4
        <5> QED
          BY <4>1, <5>1 DEF Last
      <4>3. Last(code[a]).target \in 1 .. Len(code)
        BY <1>6, <3>4, <4>2 DEF JumpsLast, Leaps, EndsWith
      <4> QED
        BY <4>3 DEF ENTRY
    <3> QED
      BY <3>1, <3>2, <3>3, <3>4 DEF Reaches
  <2>2. ASSUME NEW a \in Blocks PROVE a \in Live
    <3>1. \E i \in 1 .. n + 2 : layout[i] = a
      <4>1. CASE a = ENTRY
        BY <1>3, <1>5, <4>1 DEF Arranged
      <4>2. CASE a = EXIT
        BY <1>3, <1>5, <4>2 DEF Arranged
      <4>3. CASE a \in 1 .. n
        <5>1. a + 1 \in 1 .. n + 2 /\ a + 1 # 1 /\ a + 1 # n + 2 /\ (a + 1) - 1 = a
          BY <1>3, <4>3
        <5>2. layout[a + 1] = a
          BY <1>3, <5>1
        <5> QED
          BY <5>1, <5>2
      <4> QED
        BY <4>1, <4>2, <4>3 DEF Blocks, n
    <3> QED
      BY <1>3, <1>5, <3>1, LayoutFacts
  <2> QED
    BY <2>1, <2>2 DEF EdgesStay
<1>10. Cover
  <2>1. ASSUME NEW i \in 1 .. Len(layout) - 1 PROVE Covered(i)
    <3>1. /\ Following(code, layout[i]) = layout[i + 1]
          /\ layout[i] = ENTRY \/ layout[i] \in 1 .. Len(code)
      BY <1>3, NaturalNext DEF n
    <3>2. layout[i] \in Blocks /\ layout[i + 1] \in Blocks
      <4>1. i \in 1 .. Len(layout) /\ i + 1 \in 1 .. Len(layout)
        BY <1>3
      <4> QED
        BY <1>3, <4>1
    <3>3. Falls(Statements(layout[i])) => Edge(i, i + 1)
      <4>1. Falls(Statements(layout[i])) => Reaches(code, layout[i], layout[i + 1])
        BY <3>1 DEF Reaches, Statements, ENTRY
      <4> QED
        BY <1>1, <3>2, <4>1 DEF Fine, Edge
    <3>4. Leaps(Statements(layout[i])) => edges[layout[i]][Last(Statements(layout[i])).target] > 0
      <4> SUFFICES ASSUME Leaps(Statements(layout[i]))
                   PROVE  edges[layout[i]][Last(Statements(layout[i])).target] > 0
        OBVIOUS
      <4>1. layout[i] > 0 /\ Statements(layout[i]) = code[layout[i]] /\ code[layout[i]] # <<>>
        BY DEF Leaps, EndsWith, Statements
      <4>2. PICK b \in 1 .. Len(code) : b = layout[i]
        BY <3>1, <4>1 DEF ENTRY
      <4>3. Len(code[b]) \in 1 .. Len(code[b]) /\ Last(code[b]) = code[b][Len(code[b])]
        <5>1. code[b] \in Seq(Quads)
          BY <1>3
        <5> QED
          BY <4>1, <4>2, <5>1 DEF Last
      <4>4. Leaps(code[b])
        BY <4>1, <4>2
      <4>5. Last(code[b]).target \in Blocks
        BY <1>6, <4>3, <4>4 DEF JumpsLast, Leaps, EndsWith, Blocks
      <4>6. Reaches(code, b, Last(code[b]).target)
        BY <4>4 DEF Reaches
      <4>7. edges[b][Last(code[b]).target] > 0
        BY <1>1, <3>2, <4>2, <4>5, <4>6 DEF Fine
      <4> QED
        BY <4>1, <4>2, <4>7
    <3> QED
      BY <3>3, <3>4 DEF Covered
  <2> QED
    BY <2>1 DEF Cover
<1>11. Loops
  BY <1>1, FineLoops
<1>12. Used
  BY <1>2 DEF Used
<1> QED
  BY <1>4, <1>5, <1>6, <1>7, <1>8, <1>9, <1>10, <1>11, <1>12 DEF IInv

(* The parts of the invariant hold in every state that the passes reach    *)
(* (BranchOptimizations.cpp, remove_dead_basic_blocks.cpp,                 *)
(* merge_basic_blocks.cpp).                                                *)
THEOREM Invariance == ASSUME ~TrivialJumps PROVE Spec => []IInv
<1>1. Init => IInv
  BY Initially
<1>2. IInv /\ [Next]_vars => IInv'
  BY Step
<1> QED
  BY <1>1, <1>2, PTL DEF Spec

(* Wherever control can go from a live block there is an edge, for every   *)
(* function: no pass forgets one when it decides a branch, removes a block *)
(* or merges two (ControlFlowGraph.cpp, Function::remove).                 *)
THEOREM EdgesSound == ASSUME ~TrivialJumps PROVE Spec => []EdgesCoverFlow
<1>1. IInv => EdgesCoverFlow
  BY Covers
<1> QED
  BY <1>1, Invariance, PTL
-----------------------------------------------------------------------------
(* A walk: from start, a step from every silent position.                  *)
Walk(f, m, S, start, silent, step) ==
  /\ f \in [0 .. m -> S] /\ f[0] = start
  /\ \A k \in 1 .. m : f[k] = IF f[k - 1] \in silent THEN step[f[k - 1]] ELSE f[k - 1]

LEMMA WalkExists ==
  ASSUME NEW m \in Nat, NEW S, NEW start \in S, NEW silent \in SUBSET S,
         NEW step \in [silent -> S]
  PROVE  \E f : Walk(f, m, S, start, silent, step)
<1> DEFINE go == [s \in (1 .. m) \X S |-> IF s[2] \in silent THEN step[s[2]] ELSE s[2]]
<1>1. go \in [(1 .. m) \X S -> S]
  OBVIOUS
<1>2. \A k \in 1 .. m : \A x \in S :
        go[<<k, x>>] = IF x \in silent THEN step[x] ELSE x
  OBVIOUS
<1> HIDE DEF go
<1>3. PICK f : Follows(f, m, S, start, go)
  BY <1>1, Recursion
<1>4. /\ f \in [0 .. m -> S] /\ f[0] = start
      /\ \A k \in 1 .. m : f[k] = go[<<k, f[k - 1]>>]
  BY <1>3 DEF Follows
<1>5. \A k \in 1 .. m : f[k - 1] \in S
  BY <1>4
<1>6. Walk(f, m, S, start, silent, step)
  BY <1>2, <1>4, <1>5 DEF Walk
<1> QED
  BY <1>6

(* A closed set of silent positions is never left.                         *)
LEMMA WalkTrapped ==
  ASSUME NEW m \in Nat, NEW S, NEW start \in S, NEW silent \in SUBSET S,
         NEW step \in [silent -> S], NEW f, Walk(f, m, S, start, silent, step),
         NEW T, T \subseteq silent, start \in T, \A x \in T : step[x] \in T
  PROVE  f[m] \in T
<1> DEFINE U == {k \in Nat : k <= m => f[k] \in T}
<1>1. 0 \in U
  BY DEF Walk
<1>2. ASSUME NEW k \in Nat, k \in U PROVE k + 1 \in U
  <2> SUFFICES ASSUME k + 1 <= m PROVE f[k + 1] \in T
    OBVIOUS
  <2>1. k + 1 \in 1 .. m /\ (k + 1) - 1 = k /\ f[k] \in T
    BY <1>2
  <2>2. f[k + 1] = IF f[k] \in silent THEN step[f[k]] ELSE f[k]
    BY <2>1 DEF Walk
  <2> QED
    BY <2>1, <2>2
<1> HIDE DEF U
<1>3. Nat \subseteq U
  BY <1>1, <1>2, UpwardInduction
<1> QED
  BY <1>3 DEF U

(* A walk stays at a position that is not silent.                          *)
LEMMA WalkStays ==
  ASSUME NEW m \in Nat, NEW S, NEW start \in S, NEW silent \in SUBSET S,
         NEW step \in [silent -> S], NEW f, Walk(f, m, S, start, silent, step),
         NEW h \in 0 .. m, f[h] \notin silent
  PROVE  f[m] = f[h]
<1> DEFINE U == {k \in Nat : h + k <= m => f[h + k] = f[h]}
<1>1. 0 \in U
  OBVIOUS
<1>2. ASSUME NEW k \in Nat, k \in U PROVE k + 1 \in U
  <2> SUFFICES ASSUME h + (k + 1) <= m PROVE f[h + (k + 1)] = f[h]
    OBVIOUS
  <2>1. h + (k + 1) \in 1 .. m /\ (h + (k + 1)) - 1 = h + k /\ f[h + k] = f[h]
    BY <1>2
  <2>2. f[h + (k + 1)] = IF f[h + k] \in silent THEN step[f[h + k]] ELSE f[h + k]
    BY <2>1 DEF Walk
  <2> QED
    BY <2>1, <2>2
<1> HIDE DEF U
<1>3. Nat \subseteq U
  BY <1>1, <1>2, UpwardInduction
<1>4. m - h \in Nat /\ h + (m - h) = m
  OBVIOUS
<1>5. h + (m - h) <= m => f[h + (m - h)] = f[h]
  BY <1>3, <1>4 DEF U
<1> QED
  BY <1>4, <1>5

(* A walk that is longer than there are positions, and has not ended, is   *)
(* in a set of silent positions that it never leaves.                      *)
LEMMA WalkTurns ==
  ASSUME NEW m \in Nat, NEW S, NEW start \in S, NEW silent \in SUBSET S,
         NEW step \in [silent -> S], NEW f, Walk(f, m, S, start, silent, step),
         IsFiniteSet(silent), Cardinality(silent) <= m, f[m] \in silent
  PROVE  \E T \in SUBSET silent : start \in T /\ \A x \in T : step[x] \in T
<1>1. IsFiniteSet(0 .. m) /\ Cardinality(0 .. m) = m + 1
  BY FS_Interval
<1>2. Cardinality(silent) \in Nat
  BY FS_CardinalityType
<1>3. \A k \in 0 .. m : f[k] \in silent
  <2>1. ASSUME NEW k \in 0 .. m, f[k] \notin silent PROVE FALSE
    <3>1. f[m] = f[k]
      BY <2>1, WalkStays
    <3> QED
      BY <2>1, <3>1
  <2> QED
    BY <2>1
<1>4. \E x, y \in 0 .. m : x # y /\ f[x] = f[y]
  <2>1. Cardinality(silent) < Cardinality(0 .. m)
    BY <1>1, <1>2
  <2>2. PICK g \in [0 .. m -> silent] : \A k \in 0 .. m : g[k] = f[k]
    <3> DEFINE h == [k \in 0 .. m |-> f[k]]
    <3>1. h \in [0 .. m -> silent] /\ \A k \in 0 .. m : h[k] = f[k]
      BY <1>3
    <3> HIDE DEF h
    <3> QED
      BY <3>1
  <2>3. \E x, y \in 0 .. m : x # y /\ g[x] = g[y]
    BY <1>1, <2>1, FS_PigeonHole
  <2> QED
    BY <2>2, <2>3
<1>5. PICK a \in 0 .. m, c \in 0 .. m : a < c /\ f[a] = f[c]
  <2>1. PICK x \in 0 .. m, y \in 0 .. m : x # y /\ f[x] = f[y]
    BY <1>4
  <2>2. x < y \/ y < x
    BY <2>1
  <2> QED
    BY <2>1, <2>2
<1> DEFINE T == {f[k] : k \in 0 .. c - 1}
<1>7. T \in SUBSET silent
  BY <1>3
<1>8. start \in T
  <2>1. 0 \in 0 .. c - 1 /\ f[0] = start
    BY <1>5 DEF Walk
  <2> QED
    BY <2>1
<1>9. ASSUME NEW x \in T PROVE step[x] \in T
  <2>1. PICK k \in 0 .. c - 1 : x = f[k]
    OBVIOUS
  <2>2. k + 1 \in 1 .. m /\ (k + 1) - 1 = k /\ k \in 0 .. m
    OBVIOUS
  <2>3. f[k + 1] = step[x]
    <3>1. f[k + 1] = IF f[k] \in silent THEN step[f[k]] ELSE f[k]
      BY <2>2 DEF Walk
    <3> QED
      BY <1>3, <2>1, <2>2, <3>1
  <2>4. CASE k + 1 = c
    <3>1. a \in 0 .. c - 1
      BY <1>5
    <3> QED
      BY <1>5, <2>3, <2>4, <3>1
  <2>5. CASE k + 1 # c
    <3>1. k + 1 \in 0 .. c - 1
      BY <2>5
    <3> QED
      BY <2>3, <3>1
  <2> QED
    BY <2>4, <2>5
<1> QED
  BY <1>7, <1>8, <1>9

(* Where a walk ends does not depend on its first step.                    *)
LEMMA WalkAlike ==
  ASSUME NEW m \in Nat, NEW S, NEW start \in S, NEW silent \in SUBSET S,
         NEW step \in [silent -> S], IsFiniteSet(silent), Cardinality(silent) <= m,
         start \in silent,
         NEW f, Walk(f, m, S, start, silent, step),
         NEW g, Walk(g, m, S, step[start], silent, step)
  PROVE  f[m] = g[m] \/ (f[m] \in silent /\ g[m] \in silent)
<1>1. step[start] \in S /\ f[0] = start /\ g[0] = step[start]
  BY DEF Walk
<1>2. m # 0
  <2>1. Cardinality(silent) # 0
    BY FS_EmptySet
  <2> QED
    BY <2>1, FS_CardinalityType
<1> DEFINE U == {k \in Nat : k + 1 <= m => f[k + 1] = g[k]}
<1>3. 0 \in U
  <2>1. 1 \in 1 .. m /\ 1 - 1 = 0
    BY <1>2
  <2>2. f[1] = IF f[0] \in silent THEN step[f[0]] ELSE f[0]
    BY <2>1 DEF Walk
  <2> QED
    BY <1>1, <2>2
<1>4. ASSUME NEW k \in Nat, k \in U PROVE k + 1 \in U
  <2> SUFFICES ASSUME k + 2 <= m PROVE f[k + 2] = g[k + 1]
    OBVIOUS
  <2>1. k + 2 \in 1 .. m /\ (k + 2) - 1 = k + 1 /\ k + 1 \in 1 .. m /\ (k + 1) - 1 = k
        /\ f[k + 1] = g[k]
    BY <1>4
  <2>2. /\ f[k + 2] = IF f[k + 1] \in silent THEN step[f[k + 1]] ELSE f[k + 1]
        /\ g[k + 1] = IF g[k] \in silent THEN step[g[k]] ELSE g[k]
    BY <2>1 DEF Walk
  <2> QED
    BY <2>1, <2>2
<1> HIDE DEF U
<1>5. Nat \subseteq U
  BY <1>3, <1>4, UpwardInduction
<1>6. f[m] = g[m - 1] /\ m - 1 \in 0 .. m
  <2>1. m - 1 \in Nat /\ (m - 1) + 1 = m
    BY <1>2
  <2>2. m - 1 \in U
    BY <1>5, <2>1
  <2> QED
    BY <2>1, <2>2 DEF U
<1>7. CASE f[m] \notin silent
  <2>1. g[m] = g[m - 1]
    BY <1>1, <1>6, <1>7, WalkStays
  <2> QED
    BY <1>6, <2>1
<1>8. CASE f[m] \in silent
  <2>1. PICK T \in SUBSET silent : start \in T /\ \A x \in T : step[x] \in T
    BY <1>8, WalkTurns
  <2>2. g[m] \in T
    <3>1. step[start] \in T
      BY <2>1
    <3> QED
      BY <1>1, <2>1, <3>1, WalkTrapped
  <2> QED
    BY <1>8, <2>1, <2>2
<1> QED
  BY <1>7, <1>8

-----------------------------------------------------------------------------
(* The list of quadruples.                                                 *)

Positions == 1 .. Len(program) + 1
SilentPositions == {i \in Positions : ListSilent(i)}
ListSteps == [i \in SilentPositions |-> ListStep(i)]

LEMMA JumpTo ==
  ASSUME Types, NEW i \in 1 .. Len(program), program[i].op \in Jumps
  PROVE  /\ Jump(i) \in 1 .. Len(program) /\ program[Jump(i)].op = "label"
         /\ \A h \in 1 .. Len(program) : Leads(program, i, h) => h = Jump(i)
<1>1. program \in Programs
  BY DEF Types
<1>2. PICK j \in 1 .. Len(program) : Leads(program, i, j)
  BY <1>1, ProgramsAssumption
<1>3. DOMAIN Labels(program) = {k \in 1 .. Len(program) : program[k].op = "label"}
  BY DEF Labels
<1>4. /\ Jump(i) \in DOMAIN Labels(program)
      /\ program[Jump(i)].target = program[i].target
  <2>1. j \in DOMAIN Labels(program) /\ program[j].target = program[i].target
    BY <1>2, <1>3 DEF Leads
  <2> QED
    BY <2>1 DEF Jump
<1>5. Jump(i) \in 1 .. Len(program) /\ program[Jump(i)].op = "label"
  BY <1>3, <1>4
<1>6. ASSUME NEW h \in 1 .. Len(program), Leads(program, i, h) PROVE h = Jump(i)
  <2>1. program[h].op = "label" /\ program[h].target = program[i].target
    BY <1>6 DEF Leads
  <2>2. PICK k \in 1 .. Len(program) : k = Jump(i)
    BY <1>5
  <2>3. program[k].op = "label" /\ program[k].target = program[h].target
    BY <1>4, <1>5, <2>1, <2>2
  <2> QED
    BY <1>1, <2>1, <2>2, <2>3, ProgramsAssumption
<1> QED
  BY <1>5, <1>6

LEMMA ListTypes ==
  ASSUME Types
  PROVE  /\ Len(program) \in Nat
         /\ SilentPositions \in SUBSET (1 .. Len(program))
         /\ SilentPositions \in SUBSET Positions
         /\ ListSteps \in [SilentPositions -> Positions]
         /\ \A i \in SilentPositions : ListSteps[i] = ListStep(i) /\ ListStep(i) \in Positions
         /\ IsFiniteSet(SilentPositions) /\ Cardinality(SilentPositions) <= 2 * Len(program)
<1>1. program \in Programs
  BY DEF Types
<1>2. Len(program) \in Nat
  BY <1>1, ProgramsAssumption
<1>3. SilentPositions \in SUBSET (1 .. Len(program))
  BY <1>2 DEF SilentPositions, Positions, ListSilent
<1>4. SilentPositions \in SUBSET Positions
  BY DEF SilentPositions
<1>5. ASSUME NEW i \in SilentPositions PROVE ListStep(i) \in Positions
  <2>1. i \in 1 .. Len(program)
    BY <1>3
  <2>2. ListStep(i) = i + 1 \/ (program[i].op \in Jumps /\ ListStep(i) = Jump(i))
    BY DEF ListStep, Jumps
  <2>3. ASSUME program[i].op \in Jumps PROVE Jump(i) \in 1 .. Len(program)
    BY <2>1, <2>3, JumpTo
  <2> QED
    BY <1>2, <2>1, <2>2, <2>3 DEF Positions
<1>6. /\ ListSteps \in [SilentPositions -> Positions]
      /\ \A i \in SilentPositions : ListSteps[i] = ListStep(i)
  BY <1>5 DEF ListSteps
<1>7. IsFiniteSet(SilentPositions) /\ Cardinality(SilentPositions) <= 2 * Len(program)
  <2>1. IsFiniteSet(1 .. Len(program)) /\ Cardinality(1 .. Len(program)) = Len(program)
    <3>1. PICK n \in Nat : n = Len(program)
      BY <1>2
    <3>2. IsFiniteSet(1 .. n) /\ Cardinality(1 .. n) = IF 1 > n THEN 0 ELSE n - 1 + 1
      BY FS_Interval
    <3> QED
      BY <3>1, <3>2
  <2>2. /\ IsFiniteSet(SilentPositions)
        /\ Cardinality(SilentPositions) <= Cardinality(1 .. Len(program))
    BY <1>3, <2>1, FS_Subset
  <2>3. Cardinality(SilentPositions) \in Nat
    BY <2>2, FS_CardinalityType
  <2> QED
    BY <1>2, <2>1, <2>2, <2>3
<1> QED
  BY <1>2, <1>3, <1>4, <1>5, <1>6, <1>7

ListSettled(i) == Settle(ListSilent, ListStep, i, 2 * Len(program))

LEMMA ListWalk ==
  ASSUME Types, NEW i \in Positions
  PROVE  \E f : /\ Walk(f, 2 * Len(program), Positions, i, SilentPositions, ListSteps)
                /\ ListSettled(i) = f[2 * Len(program)]
<1> DEFINE m == 2 * Len(program)
           Solves(f) == f = [k \in 0 .. m |->
                               IF k = 0 THEN i
                               ELSE IF ListSilent(f[k - 1]) THEN ListStep(f[k - 1]) ELSE f[k - 1]]
           end == CHOOSE f : Solves(f)
<1>1. m \in Nat
  BY ListTypes
<1>2. ListSettled(i) = end[m]
  BY DEF ListSettled, Settle
<1> HIDE DEF m
<1>3. PICK f : Walk(f, m, Positions, i, SilentPositions, ListSteps)
  BY <1>1, ListTypes, WalkExists
<1>4. /\ f \in [0 .. m -> Positions] /\ f[0] = i
      /\ \A k \in 1 .. m :
           f[k] = IF f[k - 1] \in SilentPositions THEN ListSteps[f[k - 1]] ELSE f[k - 1]
  BY <1>3 DEF Walk
<1>5. \A k \in 1 .. m :
        f[k] = IF ListSilent(f[k - 1]) THEN ListStep(f[k - 1]) ELSE f[k - 1]
  <2>1. ASSUME NEW k \in 1 .. m
        PROVE  f[k] = IF ListSilent(f[k - 1]) THEN ListStep(f[k - 1]) ELSE f[k - 1]
    <3>1. f[k - 1] \in Positions
      BY <1>1, <1>4
    <3>2. f[k - 1] \in SilentPositions <=> ListSilent(f[k - 1])
      BY <3>1 DEF SilentPositions
    <3>3. f[k - 1] \in SilentPositions => ListSteps[f[k - 1]] = ListStep(f[k - 1])
      BY ListTypes
    <3> QED
      BY <1>4, <3>2, <3>3
  <2> QED
    BY <2>1
<1>6. Solves(f)
  <2>1. f = [k \in 0 .. m |-> f[k]]
    BY <1>4
  <2>2. \A k \in 0 .. m : k = 0 \/ k \in 1 .. m
    BY <1>1
  <2> QED
    BY <1>4, <1>5, <2>1, <2>2
<1>7. Solves(end)
  <2> HIDE DEF Solves
  <2> QED
    BY <1>6
<1> HIDE DEF end
<1>8. /\ \A k \in 0 .. m : end[k] = IF k = 0 THEN i
                              ELSE IF ListSilent(end[k - 1]) THEN ListStep(end[k - 1]) ELSE end[k - 1]
  BY <1>7
<1> HIDE DEF Solves
<1>9. end[m] = f[m]
  <2> DEFINE U == {k \in Nat : k <= m => end[k] = f[k]}
  <2>1. 0 \in U
    BY <1>1, <1>4, <1>8
  <2>2. ASSUME NEW k \in Nat, k \in U PROVE k + 1 \in U
    <3> SUFFICES ASSUME k + 1 <= m PROVE end[k + 1] = f[k + 1]
      OBVIOUS
    <3>1. k + 1 \in 1 .. m /\ k + 1 \in 0 .. m /\ (k + 1) - 1 = k /\ k + 1 # 0 /\ end[k] = f[k]
      BY <1>1, <2>2
    <3> QED
      BY <1>5, <1>8, <3>1
  <2> HIDE DEF U
  <2>3. Nat \subseteq U
    BY <2>1, <2>2, UpwardInduction
  <2> QED
    BY <1>1, <2>3 DEF U
<1> QED
  BY <1>2, <1>3, <1>9 DEF m

(* What the list does next, from each of its positions.                    *)
LEMMA ListNextFacts ==
  ASSUME Types, NEW i \in Positions
  PROVE  /\ i = Len(program) + 1 => ListNext(i) = 0
         /\ i \in 1 .. Len(program) /\ ~ListSilent(i) => ListNext(i) = i
         /\ ListSilent(i) => ListNext(i) = ListNext(ListStep(i))
         /\ \A T \in SUBSET SilentPositions :
              i \in T /\ (\A x \in T : ListStep(x) \in T) => ListNext(i) = -1
<1> DEFINE n == Len(program)
           m == 2 * n
           named(k) == IF k > n THEN 0 ELSE IF ListSilent(k) THEN -1 ELSE k
<1>1. m \in Nat /\ n \in Nat
  BY ListTypes
<1>2. \A k : ListNext(k) = LET s == ListSettled(k) IN
                             CASE s > n -> 0 [] ListSilent(s) -> -1 [] OTHER -> s
  BY DEF ListNext, ListSettled
<1>3. \A k \in Positions : ~(k > n /\ ListSilent(k))
  BY <1>1 DEF ListSilent, Positions
<1>4. ASSUME NEW k \in Positions, ListSettled(k) \in Positions
      PROVE  ListNext(k) = named(ListSettled(k))
  BY <1>2, <1>3, <1>4
<1>5. /\ SilentPositions \in SUBSET Positions
      /\ ListSteps \in [SilentPositions -> Positions]
      /\ \A k \in SilentPositions : ListSteps[k] = ListStep(k) /\ ListStep(k) \in Positions
      /\ IsFiniteSet(SilentPositions) /\ Cardinality(SilentPositions) <= m
  BY ListTypes
<1>6. PICK f : Walk(f, m, Positions, i, SilentPositions, ListSteps) /\ ListSettled(i) = f[m]
  BY ListWalk
<1> HIDE DEF m
<1>7. f[m] \in Positions /\ f[0] = i
  BY <1>1, <1>6 DEF Walk
<1>8. ListNext(i) = named(f[m])
  BY <1>4, <1>6, <1>7
<1>9. ASSUME ~ListSilent(i) PROVE f[m] = i
  <2>1. i \notin SilentPositions /\ 0 \in 0 .. m
    BY <1>1, <1>9 DEF SilentPositions
  <2> QED
    BY <1>1, <1>5, <1>6, <1>7, <2>1, WalkStays
<1>10. ASSUME ListSilent(i) PROVE ListNext(i) = ListNext(ListStep(i))
  <2>1. i \in SilentPositions
    BY <1>10 DEF SilentPositions
  <2>2. PICK j \in Positions : j = ListStep(i) /\ j = ListSteps[i]
    BY <1>5, <2>1
  <2>3. PICK g : Walk(g, m, Positions, j, SilentPositions, ListSteps) /\ ListSettled(j) = g[m]
    BY ListWalk DEF m
  <2>4. g[m] \in Positions
    BY <1>1, <2>3 DEF Walk
  <2>5. ListNext(j) = named(g[m])
    BY <1>4, <2>3, <2>4
  <2>6. f[m] = g[m] \/ (f[m] \in SilentPositions /\ g[m] \in SilentPositions)
    BY <1>1, <1>5, <1>6, <2>1, <2>2, <2>3, WalkAlike
  <2>7. \A k \in SilentPositions : named(k) = -1
    BY <1>3 DEF SilentPositions
  <2> HIDE DEF named
  <2> QED
    BY <1>8, <2>2, <2>5, <2>6, <2>7
<1>11. ASSUME NEW T \in SUBSET SilentPositions, i \in T, \A x \in T : ListStep(x) \in T
       PROVE  ListNext(i) = -1
  <2>1. \A x \in T : ListSteps[x] \in T
    BY <1>5, <1>11
  <2>2. f[m] \in T
    BY <1>1, <1>5, <1>6, <1>11, <2>1, WalkTrapped
  <2>3. ListSilent(f[m])
    BY <1>11, <2>2 DEF SilentPositions
  <2> QED
    BY <1>3, <1>7, <1>8, <2>3
<1>12. ASSUME i = n + 1 PROVE ListNext(i) = 0
  <2>1. ~ListSilent(i) /\ i > n
    BY <1>1, <1>3, <1>12
  <2> QED
    BY <1>8, <1>9, <2>1
<1>13. ASSUME i \in 1 .. n, ~ListSilent(i) PROVE ListNext(i) = i
  <2>1. ~(i > n)
    BY <1>1, <1>13
  <2> QED
    BY <1>8, <1>9, <1>13, <2>1
<1> QED
  BY <1>10, <1>11, <1>12, <1>13

(* From i the list comes to j, and does nothing on the way: j is in every  *)
(* set with i that silent steps do not leave.                              *)
StepsStay(S) == \A k \in S : ListSilent(k) => ListStep(k) \in S
Passes(i, j) ==
  /\ i \in Positions /\ j \in Positions
  /\ \A S \in SUBSET Positions : i \in S /\ StepsStay(S) => j \in S

LEMMA PassesFacts ==
  ASSUME Types
  PROVE  /\ \A i \in Positions : Passes(i, i)
         /\ \A i, j, k : Passes(i, j) /\ Passes(j, k) => Passes(i, k)
         /\ \A i \in Positions : ListSilent(i) => Passes(i, ListStep(i))
         /\ \A i, j : Passes(i, j) => ListNext(i) = ListNext(j)
         /\ \A i, j : Passes(i, j) /\ i # j => ListSilent(i) /\ Passes(ListStep(i), j)
<1>1. \A i \in Positions : Passes(i, i)
  BY DEF Passes
<1>2. \A i, j, k : Passes(i, j) /\ Passes(j, k) => Passes(i, k)
  BY DEF Passes
<1>3. \A i \in Positions : ListSilent(i) => ListStep(i) \in Positions
  BY ListTypes DEF SilentPositions
<1>4. \A i \in Positions : ListSilent(i) => Passes(i, ListStep(i))
  BY <1>3 DEF Passes, StepsStay
<1>5. ASSUME NEW i, NEW j, Passes(i, j) PROVE ListNext(i) = ListNext(j)
  <2> DEFINE S == {k \in Positions : ListNext(k) = ListNext(i)}
  <2>1. StepsStay(S)
    BY <1>3, ListNextFacts DEF StepsStay
  <2>2. i \in S
    BY <1>5 DEF Passes
  <2>3. j \in S
    BY <1>5, <2>1, <2>2 DEF Passes
  <2> QED
    BY <2>3
<1>6. ASSUME NEW i, NEW j, Passes(i, j), i # j
      PROVE  ListSilent(i) /\ Passes(ListStep(i), j)
  <2>1. i \in Positions /\ j \in Positions
    BY <1>6 DEF Passes
  <2>2. ListSilent(i)
    <3> SUFFICES ASSUME ~ListSilent(i) PROVE FALSE
      OBVIOUS
    <3>1. StepsStay({i}) /\ {i} \in SUBSET Positions
      BY <2>1 DEF StepsStay
    <3>2. j \in {i}
      BY <1>6, <3>1 DEF Passes
    <3> QED
      BY <1>6, <3>2
  <2>3. ASSUME NEW S \in SUBSET Positions, ListStep(i) \in S, StepsStay(S) PROVE j \in S
    <3>1. StepsStay(S \union {i}) /\ S \union {i} \in SUBSET Positions
      BY <2>1, <2>3 DEF StepsStay
    <3>2. j \in S \union {i}
      BY <1>6, <3>1 DEF Passes
    <3> QED
      BY <1>6, <3>2
  <2> QED
    BY <1>3, <2>1, <2>2, <2>3 DEF Passes
<1> QED
  BY <1>1, <1>2, <1>4, <1>5, <1>6

-----------------------------------------------------------------------------
(* A block between two positions of the list: from the first, the list     *)
(* comes to the first quadruple of the block, from behind each quadruple   *)
(* to the next one, and from behind the last to the second position.       *)
Behind(block, x, to) == IF x <= Len(block) THEN block[x].id ELSE to

Linked(block, from, to) ==
  /\ Passes(from, Behind(block, 1, to))
  /\ \A x \in 1 .. Len(block) :
       block[x].op # "goto" => Passes(block[x].id + 1, Behind(block, x + 1, to))

LEMMA LinkedFurther ==
  ASSUME Types, NEW block \in Seq(Quads), NEW from, NEW to, NEW next,
         Linked(block, from, to), Passes(to, next)
  PROVE  Linked(block, from, next)
<1>1. ASSUME NEW i, NEW x, Passes(i, Behind(block, x, to))
      PROVE  Passes(i, Behind(block, x, next))
  <2>1. CASE x <= Len(block)
    BY <1>1, <2>1 DEF Behind
  <2>2. CASE ~(x <= Len(block))
    BY <1>1, <2>2, PassesFacts DEF Behind
  <2> QED
    BY <2>1, <2>2
<1> QED
  BY <1>1 DEF Linked

LEMMA LinkedAnywhere ==
  ASSUME Types, NEW block \in Seq(Quads), NEW from, NEW to, NEW next,
         Linked(block, from, to), EndsWith(block, {"goto"})
  PROVE  Linked(block, from, next)
<1>1. /\ Len(block) \in Nat /\ 1 <= Len(block) /\ block[Len(block)].op = "goto"
  BY DEF EndsWith, Last
<1>2. Behind(block, 1, next) = Behind(block, 1, to)
  BY <1>1 DEF Behind
<1>3. ASSUME NEW x \in 1 .. Len(block), block[x].op # "goto"
      PROVE  Behind(block, x + 1, next) = Behind(block, x + 1, to)
  <2>1. x # Len(block)
    BY <1>1, <1>3
  <2>2. x + 1 <= Len(block)
    BY <1>1, <2>1
  <2> QED
    BY <2>2 DEF Behind
<1> QED
  BY <1>2, <1>3 DEF Linked

LEMMA LinkedJoin ==
  ASSUME Types, NEW s \in Seq(Quads), NEW t \in Seq(Quads),
         NEW from, NEW mid, NEW to, Linked(s, from, mid), Linked(t, mid, to),
         \A x \in 1 .. Len(s) : s[x].op # "goto"
  PROVE  Linked(s \o t, from, to)
<1> DEFINE m == s \o t
<1>1. Len(s) \in Nat /\ Len(t) \in Nat
  OBVIOUS
<1>2. /\ m \in Seq(Quads) /\ Len(m) = Len(s) + Len(t)
      /\ \A i \in 1 .. Len(s) + Len(t) : m[i] = IF i <= Len(s) THEN s[i] ELSE t[i - Len(s)]
  BY ConcatProperties, Zenon
<1> HIDE DEF m
<1>3. \A x \in 1 .. Len(s) : m[x] = s[x]
  BY <1>1, <1>2
<1>4. \A y \in 1 .. Len(t) : m[Len(s) + y] = t[y]
  <2>1. ASSUME NEW y \in 1 .. Len(t) PROVE m[Len(s) + y] = t[y]
    <3>1. /\ Len(s) + y \in 1 .. Len(s) + Len(t) /\ ~(Len(s) + y <= Len(s))
          /\ (Len(s) + y) - Len(s) = y
      BY <1>1
    <3> QED
      BY <1>2, <3>1
  <2> QED
    BY <2>1
<1>5. \A y \in 1 .. Len(t) + 1 : Behind(m, Len(s) + y, to) = Behind(t, y, to)
  <2>1. ASSUME NEW y \in 1 .. Len(t) + 1
        PROVE  Behind(m, Len(s) + y, to) = Behind(t, y, to)
    <3>1. Len(s) + y <= Len(m) <=> y <= Len(t)
      BY <1>1, <1>2
    <3>2. y <= Len(t) => y \in 1 .. Len(t)
      BY <1>1
    <3> QED
      BY <1>4, <3>1, <3>2 DEF Behind
  <2> QED
    BY <2>1
<1>6. ASSUME NEW i, NEW x \in 1 .. Len(s) + 1, Passes(i, Behind(s, x, mid))
      PROVE  Passes(i, Behind(m, x, to))
  <2>1. CASE x <= Len(s)
    <3>1. x \in 1 .. Len(s) /\ x <= Len(m)
      BY <1>1, <1>2, <2>1
    <3> QED
      BY <1>3, <1>6, <2>1, <3>1 DEF Behind
  <2>2. CASE ~(x <= Len(s))
    <3>1. x = Len(s) + 1 /\ 1 \in 1 .. Len(t) + 1
      BY <1>1, <2>2
    <3>2. Behind(s, x, mid) = mid
      BY <2>2 DEF Behind
    <3>3. Passes(mid, Behind(m, x, to))
      BY <1>5, <3>1 DEF Linked
    <3> QED
      BY <1>6, <3>2, <3>3, PassesFacts
  <2> QED
    BY <2>1, <2>2
<1>7. Passes(from, Behind(m, 1, to))
  <2>1. 1 \in 1 .. Len(s) + 1
    BY <1>1
  <2> QED
    BY <1>6, <2>1 DEF Linked
<1>8. ASSUME NEW x \in 1 .. Len(m), m[x].op # "goto"
      PROVE  Passes(m[x].id + 1, Behind(m, x + 1, to))
  <2>1. CASE x <= Len(s)
    <3>1. x \in 1 .. Len(s) /\ x + 1 \in 1 .. Len(s) + 1
      BY <1>1, <2>1
    <3> QED
      BY <1>3, <1>6, <3>1 DEF Linked
  <2>2. CASE ~(x <= Len(s))
    <3>1. PICK y \in 1 .. Len(t) : x = Len(s) + y
      <4>1. x - Len(s) \in 1 .. Len(t) /\ x = Len(s) + (x - Len(s))
        BY <1>1, <1>2, <2>2
      <4> QED
        BY <4>1
    <3>2. m[x] = t[y] /\ Behind(m, x + 1, to) = Behind(t, y + 1, to)
      <4>1. y + 1 \in 1 .. Len(t) + 1 /\ x + 1 = Len(s) + (y + 1)
        BY <1>1, <3>1
      <4> QED
        BY <1>4, <1>5, <3>1, <4>1
    <3> QED
      BY <1>8, <3>2 DEF Linked
  <2> QED
    BY <2>1, <2>2
<1> QED
  BY <1>7, <1>8 DEF Linked, m

LEMMA LinkedFront ==
  ASSUME Types, NEW s \in Seq(Quads), s # <<>>, NEW from, NEW to, NEW next,
         Linked(s, from, to), Passes(Last(s).id, next),
         NEW new \in Seq(Quads), Len(new) = Len(s) - 1,
         \A x \in 1 .. Len(new) : new[x] = s[x]
  PROVE  Linked(new, from, next)
<1>1. Len(s) \in Nat /\ Len(s) >= 1 /\ Last(s) = s[Len(s)] /\ Len(new) \in Nat
  BY DEF Last
<1>2. ASSUME NEW i, NEW x \in 1 .. Len(s), Passes(i, Behind(s, x, to))
      PROVE  Passes(i, Behind(new, x, next))
  <2>1. CASE x = Len(s)
    <3>1. Behind(s, x, to) = Last(s).id /\ Behind(new, x, next) = next
      BY <1>1, <2>1 DEF Behind
    <3> QED
      BY <1>2, <3>1, PassesFacts
  <2>2. CASE x # Len(s)
    <3>1. x \in 1 .. Len(new) /\ x <= Len(new) /\ x <= Len(s)
      BY <1>1, <2>2
    <3>2. Behind(s, x, to) = s[x].id /\ Behind(new, x, next) = new[x].id
      BY <3>1 DEF Behind
    <3> QED
      BY <1>2, <3>1, <3>2
  <2> QED
    BY <2>1, <2>2
<1>3. Passes(from, Behind(new, 1, next))
  <2>1. 1 \in 1 .. Len(s)
    BY <1>1
  <2> QED
    BY <1>2, <2>1 DEF Linked
<1>4. ASSUME NEW x \in 1 .. Len(new), new[x].op # "goto"
      PROVE  Passes(new[x].id + 1, Behind(new, x + 1, next))
  <2>1. x \in 1 .. Len(s) /\ x + 1 \in 1 .. Len(s) /\ new[x] = s[x]
    BY <1>1
  <2> QED
    BY <1>2, <1>4, <2>1 DEF Linked
<1> QED
  BY <1>3, <1>4 DEF Linked

LEMMA LinkedThrough ==
  ASSUME Types, NEW s \in Seq(Quads), NEW from, NEW to, Linked(s, from, to),
         \A x \in 1 .. Len(s) : /\ s[x].op # "goto" /\ ListSilent(s[x].id)
                                /\ ListStep(s[x].id) = s[x].id + 1
  PROVE  Passes(from, to)
<1> DEFINE U == {x \in Nat : x <= Len(s) => Passes(from, Behind(s, x + 1, to))}
<1>1. Len(s) \in Nat
  OBVIOUS
<1>2. 0 \in U
  BY DEF Linked
<1>3. ASSUME NEW x \in Nat, x \in U PROVE x + 1 \in U
  <2> SUFFICES ASSUME x + 1 <= Len(s) PROVE Passes(from, Behind(s, (x + 1) + 1, to))
    OBVIOUS
  <2>1. x + 1 \in 1 .. Len(s) /\ Passes(from, Behind(s, x + 1, to))
    BY <1>1, <1>3
  <2>2. Behind(s, x + 1, to) = s[x + 1].id /\ s[x + 1].id \in Positions
    <3>1. s[x + 1].id \in 1 .. Len(program)
      <4>1. s[x + 1] \in Quads
        BY <2>1
      <4> QED
        BY <4>1 DEF Quads
    <3>2. Len(program) \in Nat
      BY ListTypes
    <3> QED
      BY <2>1, <3>1, <3>2 DEF Behind, Positions
  <2>3. Passes(s[x + 1].id, s[x + 1].id + 1)
    BY <2>1, <2>2, PassesFacts
  <2>4. Passes(s[x + 1].id + 1, Behind(s, (x + 1) + 1, to))
    BY <2>1 DEF Linked
  <2> QED
    BY <2>1, <2>2, <2>3, <2>4, PassesFacts
<1> HIDE DEF U
<1>4. Len(s) \in U
  BY <1>1, <1>2, <1>3, UpwardInduction
<1>5. Behind(s, Len(s) + 1, to) = to
  BY <1>1 DEF Behind
<1> QED
  BY <1>1, <1>4, <1>5 DEF U

-----------------------------------------------------------------------------
(* Where a block starts in the list.                                       *)
First(b) ==
  CHOOSE h \in 1 .. Len(program) :
    BlockAt(program, h) = b /\ BlockAt(program, h - 1) # b

Start(b) == CASE b = ENTRY -> 1 [] b = EXIT -> Len(program) + 1 [] OTHER -> First(b)

(* A quadruple of a block stands for the one of the list with its id.      *)
Stands(q) ==
  /\ program[q.id].op # "label"
  /\ q.op \notin {"nop", "goto"} => q.op = program[q.id].op
  /\ q.op = "nop" => facts[q.id] # "var" /\ ListStep(q.id) = q.id + 1
  /\ q.op = "goto" => ListSilent(q.id) /\ ListStep(q.id) = Jump(q.id)
  /\ q.op \in Jumps => Start(q.target) = Jump(q.id)

Standing == \A b \in 1 .. Len(code) : \A x \in 1 .. Len(code[b]) : Stands(code[b][x])

(* No quadruple is in two places.                                          *)
Once ==
  \A b, c \in 1 .. Len(code) : \A x \in 1 .. Len(code[b]), y \in 1 .. Len(code[c]) :
    code[b][x].id = code[c][y].id => b = c /\ x = y

(* The blocks follow each other as the list does.                          *)
Chained ==
  \A k \in 1 .. Len(layout) - 1 :
    Linked(Statements(layout[k]), Start(layout[k]), Start(layout[k + 1]))

(* There are no more blocks than quadruples.                               *)
Few == Len(code) <= Len(program)

FlowInv == IInv /\ Standing /\ Once /\ Chained /\ Few

LEMMA StatementsType ==
  ASSUME Types, Arranged, NEW k \in 1 .. Len(layout)
  PROVE  /\ Statements(layout[k]) \in Seq(Quads)
         /\ layout[k] > 0 => layout[k] \in 1 .. Len(code)
<1>1. layout[k] \in Blocks
  BY LayoutFacts
<1>2. layout[k] > 0 => layout[k] \in 1 .. Len(code)
  BY <1>1 DEF Blocks, ENTRY, EXIT
<1>3. <<>> \in Seq(Quads)
  OBVIOUS
<1> QED
  BY <1>2, <1>3 DEF Statements, Types

(* What is known of a quadruple does not change what is known already.     *)
Learned ==
  /\ program' = program
  /\ \A i \in 1 .. Len(program) :
       facts'[i] = facts[i]
         \/ (facts'[i] # "var" /\ (facts[i] = "var" \/ program[i].op = "op"))

LEMMA LearnedFacts ==
  ASSUME Types, Learned
  PROVE  /\ Positions' = Positions
         /\ \A i \in Positions : ListSilent(i) =>
              ListSilent(i)' /\ ListStep(i)' = ListStep(i)
         /\ \A i, j : Passes(i, j) => Passes(i, j)'
         /\ \A b : Start(b)' = Start(b)
         /\ \A i : Jump(i)' = Jump(i)
<1>1. Positions' = Positions
  BY DEF Learned, Positions
<1>2. /\ \A b : Start(b)' = Start(b)
      /\ \A i : Jump(i)' = Jump(i)
  BY DEF Learned, Start, First, Jump
<1>3. ASSUME NEW i \in Positions, ListSilent(i)
      PROVE  ListSilent(i)' /\ ListStep(i)' = ListStep(i)
  <2>1. i \in 1 .. Len(program)
    BY <1>3, ListTypes DEF SilentPositions
  <2>2. CASE program[i].op \in {"label", "goto"}
    BY <1>2, <1>3, <2>2 DEF Learned, ListSilent, ListStep
  <2>3. CASE program[i].op \notin {"label", "goto"}
    <3>1. facts[i] # "var"
      BY <1>3, <2>3 DEF ListSilent
    <3>2. facts'[i] = facts[i] \/ (facts'[i] # "var" /\ program[i].op = "op")
      BY <2>1, <3>1 DEF Learned
    <3> QED
      BY <1>2, <1>3, <2>3, <3>1, <3>2 DEF Learned, ListSilent, ListStep
  <2> QED
    BY <2>2, <2>3
<1>4. ASSUME NEW i, NEW j, Passes(i, j) PROVE Passes(i, j)'
  <2>1. \A S \in SUBSET Positions : StepsStay(S)' => StepsStay(S)
    BY <1>3 DEF StepsStay
  <2> QED
    BY <1>1, <1>4, <2>1 DEF Passes
<1> QED
  BY <1>1, <1>2, <1>3, <1>4

LEMMA LinkedStays ==
  ASSUME Types, Learned, NEW block \in Seq(Quads), NEW from, NEW to,
         Linked(block, from, to), NEW new, Len(new) = Len(block),
         \A x \in 1 .. Len(block) : new[x].id = block[x].id
                                    /\ (block[x].op = "goto" => new[x].op = "goto")
  PROVE  Linked(new, from, to)'
<1>1. Len(block) \in Nat
  OBVIOUS
<1>2. \A x \in 1 .. Len(block) + 1 : Behind(new, x, to) = Behind(block, x, to)
  BY <1>1 DEF Behind
<1>3. 1 \in 1 .. Len(block) + 1 /\ \A x \in 1 .. Len(block) : x + 1 \in 1 .. Len(block) + 1
  BY <1>1
<1>4. Passes(from, Behind(new, 1, to))'
  BY <1>2, <1>3, LearnedFacts DEF Linked
<1>5. ASSUME NEW x \in 1 .. Len(new), new[x].op # "goto"
      PROVE  Passes(new[x].id + 1, Behind(new, x + 1, to))'
  <2>1. Passes(block[x].id + 1, Behind(block, x + 1, to))
    BY <1>5 DEF Linked
  <2> QED
    BY <1>2, <1>3, <2>1, LearnedFacts
<1> QED
  BY <1>4, <1>5 DEF Linked

(* The passes that change quadruples in their places.                      *)
LEMMA InPlace ==
  ASSUME FlowInv, Learned, layout' = layout, Len(code') = Len(code),
         \A b \in 1 .. Len(code) :
           /\ Len(code'[b]) = Len(code[b])
           /\ \A x \in 1 .. Len(code[b]) :
                /\ code'[b][x].id = code[b][x].id
                /\ code[b][x].op = "goto" => code'[b][x].op = "goto"
                /\ Stands(code[b][x])'
  PROVE  (Standing /\ Once /\ Chained)'
<1>1. Standing'
  BY DEF Standing
<1>2. Once'
  BY DEF FlowInv, Once
<1>3. ASSUME NEW k \in 1 .. Len(layout) - 1
      PROVE  Linked(Statements(layout[k]), Start(layout[k]), Start(layout[k + 1]))'
  <2>1. k \in 1 .. Len(layout)
    BY LayoutFacts DEF FlowInv, IInv
  <2>2. PICK block \in Seq(Quads) : block = Statements(layout[k])
    BY <2>1, StatementsType DEF FlowInv, IInv
  <2>3. PICK new : new = Statements(layout[k])'
    OBVIOUS
  <2>4. PICK from, to : /\ from = Start(layout[k]) /\ to = Start(layout[k + 1])
                        /\ from = Start(layout[k])' /\ to = Start(layout[k + 1])'
    BY DEF Start, First, Learned
  <2>5. Linked(block, from, to)
    BY <2>2, <2>4 DEF FlowInv, Chained
  <2>6. /\ Len(new) = Len(block)
        /\ \A x \in 1 .. Len(block) : new[x].id = block[x].id
                                      /\ (block[x].op = "goto" => new[x].op = "goto")
    BY <2>1, <2>2, <2>3, StatementsType DEF FlowInv, IInv, Statements
  <2>7. Linked(new, from, to)'
    BY <2>5, <2>6, LinkedStays DEF FlowInv, IInv
  <2> QED
    BY <2>3, <2>4, <2>7
<1>4. Chained'
  BY <1>3 DEF Chained
<1> QED
  BY <1>1, <1>2, <1>4

LEMMA StandsStays ==
  ASSUME Types, Learned, NEW q \in Quads, Stands(q)
  PROVE  Stands(q)'
<1>1. q.id \in 1 .. Len(program) /\ q.id \in Positions
  <2>1. q.id \in 1 .. Len(program) /\ Len(program) \in Nat
    BY ListTypes DEF Quads
  <2> QED
    BY <2>1 DEF Positions
<1>2. facts[q.id] # "var" => ListSilent(q.id)
  BY <1>1, ListTypes DEF ListSilent
<1>3. facts[q.id] # "var" => facts'[q.id] # "var"
  BY <1>1 DEF Learned
<1>4. /\ ListSilent(q.id) => ListSilent(q.id)' /\ ListStep(q.id)' = ListStep(q.id)
      /\ Jump(q.id)' = Jump(q.id) /\ Start(q.target)' = Start(q.target)
  BY <1>1, LearnedFacts
<1> QED
  BY <1>2, <1>3, <1>4 DEF Stands, Learned

LEMMA PassFlow ==
  ASSUME FlowInv, Learned, layout' = layout, code' = code
  PROVE  (Standing /\ Once /\ Chained)'
<1>1. ASSUME NEW b \in 1 .. Len(code), NEW x \in 1 .. Len(code[b])
      PROVE  Stands(code[b][x])'
  <2>1. PICK q \in Quads : q = code[b][x]
    <3>1. code[b] \in Seq(Quads)
      BY DEF FlowInv, IInv, Types
    <3> QED
      BY <3>1
  <2>2. Stands(q)
    BY <2>1 DEF FlowInv, Standing
  <2>3. Stands(q)'
    BY <2>2, StandsStays DEF FlowInv, IInv
  <2> QED
    BY <2>1, <2>3 DEF Stands
<1> QED
  BY <1>1, InPlace

LEMMA DecideFlow ==
  ASSUME FlowInv, Decide
  PROVE  (Standing /\ Once /\ Chained)'
<1> DEFINE Decides(b, i, value) == /\ facts[code[b][i].id] = "var"
                                   /\ facts' = [facts EXCEPT ![code[b][i].id] = value]
<1>0. PICK b \in Live : \E i \in DOMAIN Statements(b) : \E value \in {"zero", "one"} :
        Decides(b, i, value)
  BY DEF Decide
<1>1. PICK i \in DOMAIN Statements(b), value \in {"zero", "one"} : Decides(b, i, value)
  BY <1>0
<1>2. code[b][i].id \in 1 .. Len(program)
  <2>1. code[b][i] \in Quads
    BY StatementAt DEF FlowInv, IInv
  <2> QED
    BY <2>1 DEF Quads
<1>3. Learned
  <2>1. facts \in [1 .. Len(program) -> {"var", "zero", "one", "gone"}]
    BY DEF FlowInv, IInv, Types
  <2>2. program' = program
    BY DEF Decide
  <2>3. ASSUME NEW j \in 1 .. Len(program)
        PROVE  facts'[j] = facts[j] \/ (facts'[j] # "var" /\ facts[j] = "var")
    BY <1>1, <1>2, <2>1
  <2> QED
    BY <2>2, <2>3 DEF Learned
<1> QED
  BY <1>3, PassFlow DEF Decide

(* One quadruple changes, and stands for the same one of the list.         *)
LEMMA ChangeFlow ==
  ASSUME FlowInv, Learned, layout' = layout,
         NEW b \in 1 .. Len(code), NEW i \in 1 .. Len(code[b]),
         NEW new \in Quads, code' = [code EXCEPT ![b][i] = new],
         new.id = code[b][i].id, code[b][i].op # "goto", Stands(new)'
  PROVE  (Standing /\ Once /\ Chained)'
<1>1. code \in Seq(Seq(Quads)) /\ code[b] \in Seq(Quads)
  BY DEF FlowInv, IInv, Types
<1>2. PICK block : block = [code[b] EXCEPT ![i] = new]
  OBVIOUS
<1>3. /\ Len(block) = Len(code[b])
      /\ \A x \in 1 .. Len(code[b]) : block[x] = IF x = i THEN new ELSE code[b][x]
  BY <1>1, <1>2
<1>4. /\ Len(code') = Len(code)
      /\ \A c \in 1 .. Len(code) : code'[c] = IF c = b THEN block ELSE code[c]
  BY <1>1, <1>2
<1>5. ASSUME NEW c \in 1 .. Len(code), NEW x \in 1 .. Len(code[c])
      PROVE  /\ code'[c][x].id = code[c][x].id
             /\ code[c][x].op = "goto" => code'[c][x].op = "goto"
             /\ Stands(code[c][x])'
  <2>1. PICK q \in Quads : q = code[c][x]
    <3>1. code[c] \in Seq(Quads)
      BY <1>1
    <3> QED
      BY <3>1
  <2>2. CASE c = b /\ x = i
    <3>1. code'[c][x] = new
      BY <1>3, <1>4, <2>2
    <3> QED
      BY <2>2, <3>1 DEF Stands
  <2>3. CASE ~(c = b /\ x = i)
    <3>1. code'[c][x] = q
      BY <1>3, <1>4, <2>1, <2>3
    <3>2. Stands(q)'
      BY <2>1, StandsStays DEF FlowInv, IInv, Standing
    <3> QED
      BY <2>1, <3>1, <3>2 DEF Stands
  <2> QED
    BY <2>2, <2>3
<1>6. \A c \in 1 .. Len(code) : Len(code'[c]) = Len(code[c])
  BY <1>3, <1>4
<1> QED
  BY <1>4, <1>5, <1>6, InPlace

LEMMA EliminateFlow ==
  ASSUME FlowInv, Eliminate
  PROVE  (Standing /\ Once /\ Chained)'
<1> DEFINE Eliminates(b, i) == /\ code[b][i].op = "op"
                               /\ facts' = [facts EXCEPT ![code[b][i].id] = "gone"]
                               /\ code' = [code EXCEPT ![b][i] = Nop(code[b][i].id)]
<1>0. PICK b \in Live : \E i \in DOMAIN Statements(b) : Eliminates(b, i)
  BY DEF Eliminate
<1>1. PICK i \in DOMAIN Statements(b) : Eliminates(b, i)
  BY <1>0
<1>2. PICK q \in Quads : q = code[b][i]
  BY StatementAt DEF FlowInv, IInv
<1>3. b \in 1 .. Len(code) /\ i \in 1 .. Len(code[b])
  BY StatementAt DEF FlowInv, IInv
<1>4. q.id \in 1 .. Len(program) /\ q.op = "op" /\ q.op = program[q.id].op
  <2>1. Stands(q)
    BY <1>2, <1>3 DEF FlowInv, Standing
  <2> QED
    BY <1>1, <1>2, <2>1 DEF Stands, Quads
<1>5. /\ facts' \in [1 .. Len(program) -> {"var", "zero", "one", "gone"}]
      /\ facts'[q.id] = "gone"
      /\ \A j \in 1 .. Len(program) : j # q.id => facts'[j] = facts[j]
  <2>1. facts \in [1 .. Len(program) -> {"var", "zero", "one", "gone"}]
    BY DEF FlowInv, IInv, Types
  <2> QED
    BY <1>1, <1>2, <1>4, <2>1
<1>6. Learned
  <2>1. program' = program
    BY DEF Eliminate
  <2>2. "gone" # "var" /\ program[q.id].op = "op"
    BY <1>4
  <2> QED
    BY <1>5, <2>1, <2>2, Zenon DEF Learned
<1>7. PICK new \in Quads : new = Nop(q.id)
  BY <1>4 DEF Nop, Quads, None
<1>8. new.id = q.id /\ new.op = "nop"
  BY <1>7 DEF Nop
<1>9. Stands(new)'
  BY <1>4, <1>5, <1>6, <1>8 DEF Stands, Learned, ListStep, Jumps
<1> QED
  BY <1>1, <1>2, <1>3, <1>4, <1>6, <1>7, <1>8, <1>9, ChangeFlow DEF Eliminate

LEMMA OptimizeBranchesFlow ==
  ASSUME FlowInv, OptimizeBranches
  PROVE  (Standing /\ Once /\ Chained)'
<1> DEFINE Optimizes(b, i) == IF Taken(code[b][i], facts[code[b][i].id])
                              THEN code' = [code EXCEPT ![b][i].op = "goto"]
                              ELSE code' = [code EXCEPT ![b][i] = Nop(code[b][i].id)]
<1>0. PICK b \in Live : \E i \in Constant(b) : Optimizes(b, i)
  BY DEF OptimizeBranches, Constants
<1>1. PICK i \in Constant(b) : Optimizes(b, i)
  BY <1>0
<1>2. i \in DOMAIN Statements(b) /\ code[b][i].op \in {"if", "if_false"}
      /\ facts[code[b][i].id] \in {"zero", "one"}
  BY DEF Constant
<1>3. b \in 1 .. Len(code) /\ i \in 1 .. Len(code[b])
  BY <1>2, StatementAt DEF FlowInv, IInv
<1>4. PICK q \in Quads : q = code[b][i]
  BY <1>2, StatementAt DEF FlowInv, IInv
<1>5. /\ q.id \in 1 .. Len(program) /\ q.op \in {"if", "if_false"} /\ q.op = program[q.id].op
      /\ facts[q.id] \in {"zero", "one"} /\ Start(q.target) = Jump(q.id)
  <2>1. Stands(q)
    BY <1>3, <1>4 DEF FlowInv, Standing
  <2> QED
    BY <1>2, <1>4, <2>1 DEF Stands, Quads, Jumps
<1>6. Learned
  <2>1. program' = program /\ facts' = facts
    BY DEF OptimizeBranches
  <2> QED
    BY <2>1 DEF Learned
<1>7. ListSilent(q.id) /\ Taken(q, facts[q.id]) = Taken(program[q.id], facts[q.id])
  BY <1>5, ListTypes DEF ListSilent, Taken
<1>8. ListStep(q.id) = IF Taken(q, facts[q.id]) THEN Jump(q.id) ELSE q.id + 1
  BY <1>5, <1>7 DEF ListStep
<1>9. CASE Taken(q, facts[q.id])
  <2>1. PICK new \in Quads : new = [q EXCEPT !.op = "goto"]
    BY DEF Quads, Operators, Jumps
  <2>2. new.id = q.id /\ new.op = "goto" /\ new.target = q.target
    BY <2>1 DEF Quads
  <2>3. code' = [code EXCEPT ![b][i] = new]
    BY <1>1, <1>4, <1>9, <2>1
  <2>4. Stands(new)
    BY <1>5, <1>7, <1>8, <1>9, <2>2 DEF Stands, Jumps
  <2>5. Stands(new)'
    BY <1>6, <2>4, StandsStays DEF FlowInv, IInv
  <2> QED
    BY <1>3, <1>4, <1>5, <1>6, <2>2, <2>3, <2>5, ChangeFlow DEF OptimizeBranches
<1>10. CASE ~Taken(q, facts[q.id])
  <2>1. PICK new \in Quads : new = Nop(q.id)
    BY <1>5 DEF Nop, Quads, None
  <2>2. new.id = q.id /\ new.op = "nop"
    BY <2>1 DEF Nop
  <2>3. code' = [code EXCEPT ![b][i] = new]
    BY <1>1, <1>4, <1>10, <2>1
  <2>4. Stands(new)
    BY <1>5, <1>8, <1>10, <2>2 DEF Stands, Jumps
  <2>5. Stands(new)'
    BY <1>6, <2>4, StandsStays DEF FlowInv, IInv
  <2> QED
    BY <1>3, <1>4, <1>5, <1>6, <2>2, <2>3, <2>5, ChangeFlow DEF OptimizeBranches
<1> QED
  BY <1>9, <1>10

(* A block loses the GOTO to the next one.                                 *)
LEMMA DropGotoFlow ==
  ASSUME FlowInv, DropGoto
  PROVE  (Standing /\ Once /\ Chained)'
<1>1. /\ program' = program /\ facts' = facts /\ layout' = layout
      /\ code' = [code EXCEPT ![b_] = Front(@)]
      /\ pc = "merge"
  BY DEF DropGoto
<1>2. /\ it \in 1 .. Len(layout) /\ b_ = layout[it] /\ b_ > 0
      /\ Last(code[b_]).op = "goto" /\ Last(code[b_]).target = Next_(b_)
      /\ \E i \in DOMAIN code[b_] : TRUE
  BY <1>1 DEF DropGoto, GotoNext, IsFull, AllNops, b_, FlowInv, IInv, Types
<1>3. PICK n \in Nat : n = Len(layout)
  BY LayoutFacts DEF FlowInv, IInv
<1>4. PICK k \in 1 .. n - 1 : k = it
  <2>1. it # n
    BY <1>2, <1>3, Negative DEF FlowInv, IInv
  <2> QED
    BY <1>2, <1>3, <2>1
<1>5. k \in 1 .. Len(layout) /\ k + 1 \in 1 .. Len(layout)
  BY <1>3
<1>6. PICK b \in 1 .. Len(code) : b = layout[k] /\ b = b_ /\ b > 0 /\ Statements(b) = code[b]
  BY <1>2, <1>4, <1>5, StatementsType DEF FlowInv, IInv, Statements
<1>7. PICK s \in Seq(Quads) : s = code[b] /\ s # <<>>
  BY <1>2, <1>6 DEF FlowInv, IInv, Types
<1>8. PICK new \in Seq(Quads) : /\ new = Front(s) /\ Len(new) = Len(s) - 1
                                /\ \A j \in 1 .. Len(s) - 1 : new[j] = s[j]
  <2>1. Len(s) \in Nat \ {0}
    BY <1>7
  <2>2. /\ SubSeq(s, 1, Len(s) - 1) \in Seq(Quads)
        /\ Len(SubSeq(s, 1, Len(s) - 1)) = Len(s) - 1
        /\ \A j \in 1 .. Len(s) - 1 : SubSeq(s, 1, Len(s) - 1)[j] = s[j]
    BY <1>7, <2>1
  <2> QED
    BY <2>2 DEF Front
<1>9. /\ Len(code') = Len(code)
      /\ \A c \in 1 .. Len(code) : code'[c] = IF c = b THEN new ELSE code[c]
  <2>1. code \in Seq(Seq(Quads))
    BY DEF FlowInv, IInv, Types
  <2> QED
    BY <1>1, <1>6, <1>7, <1>8, <2>1
<1>10. Learned
  BY <1>1 DEF Learned
<1>11. ASSUME NEW c \in 1 .. Len(code), NEW x \in 1 .. Len(code'[c])
       PROVE  x \in 1 .. Len(code[c]) /\ code'[c][x] = code[c][x]
  <2>1. CASE c = b
    <3>1. Len(s) \in Nat /\ code'[c] = new /\ code[c] = s
      BY <1>7, <1>9, <2>1
    <3>2. x \in 1 .. Len(s) - 1
      BY <1>8, <3>1
    <3> QED
      BY <1>8, <3>1, <3>2
  <2>2. CASE c # b
    BY <1>9, <2>2
  <2> QED
    BY <2>1, <2>2
<1>12. Standing'
  <2>1. ASSUME NEW c \in 1 .. Len(code), NEW x \in 1 .. Len(code'[c])
        PROVE  Stands(code[c][x])'
    <3>1. x \in 1 .. Len(code[c]) /\ code'[c][x] = code[c][x]
      BY <1>11
    <3>2. PICK q \in Quads : q = code[c][x]
      <4>1. code[c] \in Seq(Quads)
        BY DEF FlowInv, IInv, Types
      <4> QED
        BY <3>1, <4>1
    <3>3. Stands(q)'
      BY <1>10, <3>1, <3>2, StandsStays DEF FlowInv, IInv, Standing
    <3> QED
      BY <3>1, <3>2, <3>3 DEF Stands
  <2> QED
    BY <1>9, <2>1 DEF Standing
<1>13. Once'
  <2>1. ASSUME NEW c \in 1 .. Len(code), NEW d \in 1 .. Len(code),
               NEW x \in 1 .. Len(code'[c]), NEW y \in 1 .. Len(code'[d]),
               code'[c][x].id = code'[d][y].id
        PROVE  c = d /\ x = y
    <3>1. /\ x \in 1 .. Len(code[c]) /\ y \in 1 .. Len(code[d])
          /\ code[c][x].id = code[d][y].id
      BY <1>11, <2>1
    <3> QED
      BY <3>1, ZenonT(30) DEF FlowInv, Once
  <2> QED
    BY <1>9, <2>1 DEF Once
<1>14. ASSUME NEW i \in 1 .. n - 1
       PROVE  Linked(Statements(layout[i]), Start(layout[i]), Start(layout[i + 1]))'
  <2>1. PICK from, to : /\ from = Start(layout[i]) /\ to = Start(layout[i + 1])
                        /\ from = Start(layout[i])' /\ to = Start(layout[i + 1])'
    BY <1>1 DEF Start, First
  <2>2. i \in 1 .. Len(layout)
    BY <1>3
  <2>3. PICK block \in Seq(Quads) : block = Statements(layout[i])
    BY <2>2, StatementsType DEF FlowInv, IInv
  <2>4. Linked(block, from, to)
    BY <1>3, <2>1, <2>3 DEF FlowInv, Chained
  <2>5. CASE i = k
    <3>1. block = s /\ Last(s).op = "goto" /\ Last(s).target = layout[k + 1]
      BY <1>2, <1>4, <1>5, <1>6, <1>7, <2>3, <2>5, AtPosition DEF FlowInv, IInv
    <3>2. Len(s) \in 1 .. Len(s) /\ Last(s) = s[Len(s)] /\ Last(s) \in Quads
      BY <1>7, LastQuad
    <3>3. Stands(Last(s))
      BY <1>7, <3>2 DEF FlowInv, Standing
    <3>4. /\ ListSilent(Last(s).id) /\ ListStep(Last(s).id) = to
      BY <2>1, <2>5, <3>1, <3>3 DEF Stands, Jumps
    <3>5. Last(s).id \in Positions
      <4>1. Last(s).id \in 1 .. Len(program) /\ Len(program) \in Nat
        BY <3>2, ListTypes DEF Quads, FlowInv, IInv
      <4> QED
        BY <4>1 DEF Positions
    <3>6. Passes(Last(s).id, to)
      BY <3>4, <3>5, PassesFacts DEF FlowInv, IInv
    <3>7. Len(new) = Len(s) - 1 /\ \A x \in 1 .. Len(new) : new[x] = s[x]
      BY <1>8
    <3>8. Linked(new, from, to)
      BY <1>7, <2>4, <3>1, <3>6, <3>7, LinkedFront DEF FlowInv, IInv
    <3>9. Linked(new, from, to)'
      BY <1>10, <3>8, LinkedStays DEF FlowInv, IInv
    <3>10. Statements(layout[i])' = new
      BY <1>1, <1>6, <1>9, <2>5 DEF Statements
    <3> QED
      BY <2>1, <3>9, <3>10
  <2>6. CASE i # k
    <3>1. layout[i] # b
      BY <1>5, <1>6, <2>2, <2>6 DEF FlowInv, IInv, Arranged
    <3>2. Statements(layout[i])' = block
      BY <1>1, <1>9, <2>2, <2>3, <3>1, StatementsType DEF Statements, FlowInv, IInv
    <3>3. Linked(block, from, to)'
      BY <1>10, <2>4, LinkedStays DEF FlowInv, IInv
    <3> QED
      BY <2>1, <3>2, <3>3
  <2> QED
    BY <2>5, <2>6
<1>15. Chained'
  BY <1>1, <1>3, <1>14 DEF Chained
<1> QED
  BY <1>12, <1>13, <1>15

(* A block is removed to whose place nothing falls through, or which does  *)
(* nothing.                                                                *)
LEMMA RemoveFlow ==
  ASSUME FlowInv, NEW r \in 2 .. Len(layout) - 1, layout' = Without(layout[r]),
         code' = [code EXCEPT ![layout[r]] = <<>>],
         program' = program, facts' = facts,
         EndsWith(Statements(layout[r - 1]), {"goto"})
           \/ Passes(Start(layout[r]), Start(layout[r + 1]))
  PROVE  (Standing /\ Once /\ Chained)'
<1>1. PICK n \in Nat : n = Len(layout)
  BY LayoutFacts DEF FlowInv, IInv
<1>2. /\ r \in 1 .. n /\ r - 1 \in 1 .. n /\ r + 1 \in 1 .. n /\ r # 1 /\ r # n
      /\ r \in 2 .. n - 1
  BY <1>1
<1>3. PICK b \in 1 .. Len(code) : b = layout[r]
  BY <1>1, <1>2, Negative DEF FlowInv, IInv
<1>4. /\ Len(code') = Len(code)
      /\ \A c \in 1 .. Len(code) : code'[c] = IF c = b THEN <<>> ELSE code[c]
  <2>1. code \in Seq(Seq(Quads))
    BY DEF FlowInv, IInv, Types
  <2> QED
    BY <1>3, <2>1, SMTT(30)
<1>5. Learned
  BY DEF Learned
<1>6. ASSUME NEW c \in 1 .. Len(code), NEW x \in 1 .. Len(code'[c])
      PROVE  x \in 1 .. Len(code[c]) /\ code'[c][x] = code[c][x]
  <2>1. c # b
    <3> SUFFICES ASSUME c = b PROVE FALSE
      OBVIOUS
    <3>1. Len(code'[c]) = 0
      BY <1>4
    <3> QED
      BY <3>1
  <2> QED
    BY <1>4, <2>1
<1>7. Standing'
  <2>1. ASSUME NEW c \in 1 .. Len(code), NEW x \in 1 .. Len(code'[c])
        PROVE  Stands(code[c][x])'
    <3>1. x \in 1 .. Len(code[c]) /\ code'[c][x] = code[c][x]
      BY <1>6
    <3>2. PICK q \in Quads : q = code[c][x]
      <4>1. code[c] \in Seq(Quads)
        BY DEF FlowInv, IInv, Types
      <4> QED
        BY <3>1, <4>1
    <3>3. Stands(q)'
      BY <1>5, <3>1, <3>2, StandsStays DEF FlowInv, IInv, Standing
    <3> QED
      BY <3>1, <3>2, <3>3 DEF Stands
  <2> QED
    BY <1>4, <2>1 DEF Standing
<1>8. Once'
  <2>1. ASSUME NEW c \in 1 .. Len(code), NEW d \in 1 .. Len(code),
               NEW x \in 1 .. Len(code'[c]), NEW y \in 1 .. Len(code'[d]),
               code'[c][x].id = code'[d][y].id
        PROVE  c = d /\ x = y
    <3>1. /\ x \in 1 .. Len(code[c]) /\ y \in 1 .. Len(code[d])
          /\ code[c][x].id = code[d][y].id
      BY <1>6, <2>1
    <3> QED
      BY <3>1, ZenonT(30) DEF FlowInv, Once
  <2> QED
    BY <1>4, <2>1 DEF Once
<1>9. /\ Len(layout') = n - 1
      /\ \A i \in 1 .. n - 1 : layout'[i] = layout[Old(r, i)]
  BY <1>1, <1>4, WithoutFacts DEF FlowInv, IInv
<1>10. ASSUME NEW k \in 1 .. n, k # r
       PROVE  /\ layout[k] # b
              /\ \E block \in Seq(Quads) : /\ block = Statements(layout[k])
                                           /\ block = IF layout[k] > 0 THEN code'[layout[k]] ELSE <<>>
  <2>1. layout[k] # b
    BY <1>1, <1>2, <1>3, <1>10 DEF FlowInv, IInv, Arranged
  <2>2. /\ Statements(layout[k]) \in Seq(Quads)
        /\ layout[k] > 0 => layout[k] \in 1 .. Len(code)
    BY <1>1, StatementsType DEF FlowInv, IInv
  <2> QED
    BY <1>4, <2>1, <2>2 DEF Statements
<1>11. ASSUME NEW i \in 1 .. (n - 1) - 1
       PROVE  Linked(Statements(layout[i]), Start(layout[i]), Start(layout[i + 1]))'
  <2>1. PICK k \in 1 .. n - 1 : k = Old(r, i) /\ k # r
    BY <1>1, <1>2 DEF Old
  <2>2. layout'[i] = layout[k] /\ i \in 1 .. n - 1 /\ i + 1 \in 1 .. n - 1 /\ k \in 1 .. n
    BY <1>9, <2>1
  <2>3. PICK block \in Seq(Quads) :
          /\ block = Statements(layout[k])
          /\ block = IF layout[k] > 0 THEN code'[layout[k]] ELSE <<>>
    BY <1>10, <2>1, <2>2
  <2>4. Statements(layout[i])' = block
    BY <2>2, <2>3 DEF Statements
  <2>5. PICK from, to, next : /\ from = Start(layout[k]) /\ to = Start(layout[k + 1])
                              /\ from = Start(layout[i])' /\ next = Start(layout[i + 1])'
                              /\ next = Start(layout[Old(r, i + 1)])
    BY <1>9, <2>2, ZenonT(30) DEF Start, First
  <2>6. Linked(block, from, to)
    BY <1>1, <2>3, <2>5 DEF FlowInv, Chained
  <2>7. Linked(block, from, next)
    <3>1. CASE k = r - 1
      <4>1. Old(r, i + 1) = r + 1 /\ k + 1 = r
        BY <1>1, <1>2, <2>1, <3>1 DEF Old
      <4>2. CASE EndsWith(Statements(layout[r - 1]), {"goto"})
        <5>1. EndsWith(block, {"goto"})
          BY <2>3, <3>1, <4>2
        <5> QED
          BY <2>6, <5>1, LinkedAnywhere DEF FlowInv, IInv
      <4>3. CASE Passes(Start(layout[r]), Start(layout[r + 1]))
        <5>1. Passes(to, next)
          BY <2>5, <4>1, <4>3
        <5> QED
          BY <2>6, <5>1, LinkedFurther DEF FlowInv, IInv
      <4> QED
        BY <4>2, <4>3
    <3>2. CASE k # r - 1
      <4>1. Old(r, i + 1) = k + 1
        BY <1>1, <1>2, <2>1, <3>2 DEF Old
      <4> QED
        BY <2>5, <2>6, <4>1
    <3> QED
      BY <3>1, <3>2
  <2>8. Linked(block, from, next)'
    BY <1>5, <2>7, LinkedStays DEF FlowInv, IInv
  <2> QED
    BY <2>4, <2>5, <2>8
<1>12. Chained'
  BY <1>9, <1>11 DEF Chained
<1> QED
  BY <1>7, <1>8, <1>12

LEMMA RemoveDeadFlow ==
  ASSUME FlowInv, RemoveDead
  PROVE  (Standing /\ Once /\ Chained)'
<1>1. /\ pc = "dead" /\ program' = program /\ facts' = facts
  BY DEF RemoveDead
<1>2. PICK b \in Live \ LiveBlocks :
        /\ \A a \in Live \ LiveBlocks : Position(layout, b) <= Position(layout, a)
        /\ layout' = Without(b) /\ code' = [code EXCEPT ![b] = <<>>]
  BY DEF RemoveDead
<1>3. Closed(LiveBlocks)
  BY LeastLive DEF LiveIsLeast, FlowInv, IInv
<1>4. PICK n \in Nat : n = Len(layout)
  BY LayoutFacts DEF FlowInv, IInv
<1>5. PICK r \in 1 .. n : b = layout[r]
  BY <1>2, <1>4, LayoutFacts DEF FlowInv, IInv
<1>6. r \in 2 .. n - 1
  <2>1. ~(layout[r] < 0)
    BY <1>2, <1>3, <1>4, <1>5, SMTT(30) DEF Closed
  <2>2. r # 1 /\ r # n
    BY <1>4, <2>1, Negative DEF FlowInv, IInv
  <2> QED
    BY <2>2
<1>7. PICK h \in 1 .. n - 1 : h = r - 1 /\ h \in 1 .. n /\ h + 1 = r
  BY <1>6
<1>8. layout[h] \in LiveBlocks
  <2> SUFFICES ASSUME layout[h] \notin LiveBlocks PROVE FALSE
    OBVIOUS
  <2>1. layout[h] \in Live
    BY <1>4, LayoutFacts DEF FlowInv, IInv
  <2>2. Position(layout, layout[h]) = h /\ Position(layout, layout[r]) = r
    BY <1>4, AtPosition DEF FlowInv, IInv
  <2> QED
    BY <1>2, <1>5, <1>7, <2>1, <2>2
<1>9. ~Falls(Statements(layout[h]))
  <2> SUFFICES ASSUME Falls(Statements(layout[h])) PROVE FALSE
    OBVIOUS
  <2>1. Covered(h)
    BY <1>4, <1>8 DEF FlowInv, IInv, Cover
  <2>2. Edge(h, r)
    BY <1>7, <2>1 DEF Covered
  <2>3. layout[r] \in LiveBlocks
    BY <1>4, <1>8, <2>2, LiveFollows DEF FlowInv, IInv
  <2> QED
    BY <1>2, <1>5, <2>3
<1>10. EndsWith(Statements(layout[r - 1]), {"goto"})
  BY <1>7, <1>9 DEF Falls
<1> QED
  BY <1>1, <1>2, <1>4, <1>5, <1>6, <1>10, RemoveFlow

LEMMA EraseEmptyFlow ==
  ASSUME FlowInv, EraseEmpty
  PROVE  (Standing /\ Once /\ Chained)'
<1>1. /\ pc = "merge" /\ program' = program /\ facts' = facts
      /\ layout[it] > 0 /\ \A i \in DOMAIN code[layout[it]] : code[layout[it]][i].op = "nop"
      /\ layout' = Without(layout[it])
      /\ code' = [code EXCEPT ![layout[it]] = <<>>]
  BY DEF EraseEmpty, IsEmpty, AllNops, b_
<1>2. PICK n \in Nat : n = Len(layout)
  BY LayoutFacts DEF FlowInv, IInv
<1>3. PICK r \in 1 .. n : r = it
  BY <1>1, <1>2 DEF FlowInv, IInv, Types
<1>4. r \in 2 .. n - 1
  <2>1. ~(layout[r] < 0)
    BY <1>1, <1>2, <1>3, Negative DEF FlowInv, IInv
  <2>2. r # 1 /\ r # n
    BY <1>2, <2>1, Negative DEF FlowInv, IInv
  <2> QED
    BY <2>2
<1>5. PICK b \in 1 .. Len(code) : b = layout[r] /\ Statements(b) = code[b]
  BY <1>1, <1>2, <1>3, StatementsType DEF FlowInv, IInv, Statements
<1>6. PICK s \in Seq(Quads) : s = code[b]
  BY DEF FlowInv, IInv, Types
<1>7. \A x \in 1 .. Len(s) : /\ s[x].op = "nop" /\ Stands(s[x])
  BY <1>1, <1>3, <1>5, <1>6 DEF FlowInv, Standing
<1>8. \A x \in 1 .. Len(s) : /\ s[x].op # "goto" /\ ListSilent(s[x].id)
                             /\ ListStep(s[x].id) = s[x].id + 1
  <2>1. ASSUME NEW x \in 1 .. Len(s)
        PROVE  /\ s[x].op # "goto" /\ ListSilent(s[x].id)
               /\ ListStep(s[x].id) = s[x].id + 1
    <3>1. PICK q \in Quads : q = s[x]
      OBVIOUS
    <3>2. q.op = "nop" /\ facts[q.id] # "var" /\ ListStep(q.id) = q.id + 1
      BY <1>7, <3>1 DEF Stands
    <3>3. q.id \in 1 .. Len(program) /\ Len(program) \in Nat
      BY ListTypes DEF Quads, FlowInv, IInv
    <3> QED
      BY <3>1, <3>2, <3>3 DEF ListSilent
  <2> QED
    BY <2>1
<1>9. Linked(s, Start(layout[r]), Start(layout[r + 1]))
  BY <1>2, <1>4, <1>5, <1>6 DEF FlowInv, Chained
<1>10. Passes(Start(layout[r]), Start(layout[r + 1]))
  BY <1>8, <1>9, LinkedThrough DEF FlowInv, IInv
<1> QED
  BY <1>1, <1>2, <1>3, <1>4, <1>10, RemoveFlow

LEMMA BeyondFirst ==
  ASSUME NEW u \in Nat, NEW v \in Nat, NEW y \in 1 .. u + v, ~(y <= u)
  PROVE  y \notin 1 .. u /\ y - u \in 1 .. v
OBVIOUS

(* Where the quadruples of the merged blocks were.                         *)
Came(k, c, x) ==
  LET s == code[layout[k]]
      t == code[layout[k + 1]]
  IN  \/ /\ c = layout[k] /\ x \in 1 .. Len(s) /\ code'[c][x] = s[x]
      \/ /\ c = layout[k] /\ x \notin 1 .. Len(s)
         /\ x - Len(s) \in 1 .. Len(t) /\ code'[c][x] = t[x - Len(s)]
      \/ /\ c # layout[k] /\ c # layout[k + 1]
         /\ x \in 1 .. Len(code[c]) /\ code'[c][x] = code[c][x]

LEMMA MergedFrom ==
  ASSUME FlowInv, NEW k \in 1 .. Len(layout), Merging(k),
         NEW s \in Seq(Quads), NEW t \in Seq(Quads),
         s = code[layout[k]], t = code[layout[k + 1]]
  PROVE  \A c \in 1 .. Len(code) : \A x \in 1 .. Len(code'[c]) : Came(k, c, x)
<1> SUFFICES ASSUME NEW c \in 1 .. Len(code), NEW x \in 1 .. Len(code'[c])
             PROVE  Came(k, c, x)
  OBVIOUS
<1> USE DEF Came
<1>1. code'[c] = IF c = layout[k] THEN s \o t
                 ELSE IF c = layout[k + 1] THEN <<>> ELSE code[c]
  BY MergedCode
<1>2. PICK m \in Seq(Quads) :
        /\ m = s \o t /\ Len(m) = Len(s) + Len(t)
        /\ \A i \in 1 .. Len(s) + Len(t) : m[i] = IF i <= Len(s) THEN s[i] ELSE t[i - Len(s)]
  <2>1. /\ s \o t \in Seq(Quads) /\ Len(s \o t) = Len(s) + Len(t)
        /\ \A i \in 1 .. Len(s) + Len(t) :
             (s \o t)[i] = IF i <= Len(s) THEN s[i] ELSE t[i - Len(s)]
    BY ConcatProperties, ZenonT(30)
  <2> QED
    BY <2>1
<1>3. Len(s) \in Nat /\ Len(t) \in Nat
  BY SMTT(30)
<1>4. CASE c = layout[k]
  <2>1. code'[c] = m /\ x \in 1 .. Len(s) + Len(t)
    BY <1>1, <1>2, <1>4
  <2>2. CASE x <= Len(s)
    <3>1. x \in 1 .. Len(s)
      BY <1>3, <2>1, <2>2
    <3> QED
      BY <1>2, <1>4, <2>1, <2>2, <3>1
  <2>3. CASE ~(x <= Len(s))
    <3>1. x \notin 1 .. Len(s) /\ x - Len(s) \in 1 .. Len(t)
      <4>1. PICK u \in Nat, v \in Nat : u = Len(s) /\ v = Len(t)
        BY <1>3
      <4>2. PICK y \in 1 .. u + v : y = x
        BY <2>1, <4>1
      <4>3. ~(y <= u)
        BY <2>3, <4>1, <4>2
      <4>4. y \notin 1 .. u /\ y - u \in 1 .. v
        BY <4>3, BeyondFirst
      <4> QED
        BY <4>1, <4>2, <4>4
    <3> QED
      BY <1>2, <1>4, <2>1, <2>3, <3>1
  <2> QED
    BY <2>2, <2>3
<1>5. CASE c # layout[k]
  <2>1. c # layout[k + 1]
    <3> SUFFICES ASSUME c = layout[k + 1] PROVE FALSE
      OBVIOUS
    <3>1. code'[c] = <<>> /\ Len(code'[c]) = 0
      BY <1>1, <1>5
    <3> QED
      BY <3>1
  <2> QED
    BY <1>1, <1>5, <2>1
<1> QED
  BY <1>4, <1>5

LEMMA SamePlace ==
  ASSUME NEW b, NEW next, b # next, NEW w \in Nat,
         NEW c, NEW d, NEW x \in Int, NEW y \in Int, NEW e, NEW u,
         \/ c = b /\ e = b /\ x = u
         \/ c = b /\ e = next /\ x = u + w
         \/ c # b /\ c # next /\ e = c /\ x = u,
         \/ d = b /\ e = b /\ y = u
         \/ d = b /\ e = next /\ y = u + w
         \/ d # b /\ d # next /\ e = d /\ y = u
  PROVE  c = d /\ x = y
OBVIOUS

LEMMA MergeFlow ==
  ASSUME FlowInv, NEW k \in 1 .. Len(layout), Merging(k)
  PROVE  (Standing /\ Once /\ Chained)'
<1>1. PICK n \in Nat : n = Len(layout) /\ k \in 2 .. n - 2 /\ k + 1 \in 2 .. n - 1
  BY DEF Merging
<1>2. PICK b \in 1 .. Len(code), next \in 1 .. Len(code) :
        b = layout[k] /\ next = layout[k + 1] /\ b # next
  BY DEF Merging
<1>3. PICK s \in Seq(Quads), t \in Seq(Quads) : s = code[b] /\ t = code[next]
  BY DEF FlowInv, IInv, Types
<1>4. /\ Len(code') = Len(code)
      /\ \A c \in 1 .. Len(code) :
           code'[c] = IF c = b THEN s \o t ELSE IF c = next THEN <<>> ELSE code[c]
  BY <1>2, <1>3, MergedCode
<1>5. Learned
  BY DEF Learned, Merging
<1>6. ASSUME NEW c \in 1 .. Len(code), NEW x \in 1 .. Len(code'[c])
      PROVE  \/ /\ c = b /\ x \in 1 .. Len(code[b]) /\ code'[c][x] = code[b][x]
             \/ /\ c = b /\ x \notin 1 .. Len(code[b])
                /\ x - Len(code[b]) \in 1 .. Len(code[next])
                /\ code'[c][x] = code[next][x - Len(code[b])]
             \/ /\ c # b /\ c # next
                /\ x \in 1 .. Len(code[c]) /\ code'[c][x] = code[c][x]
  <2>1. s = code[layout[k]] /\ t = code[layout[k + 1]]
    BY <1>2, <1>3
  <2>2. \A d \in 1 .. Len(code) : \A y \in 1 .. Len(code'[d]) : Came(k, d, y)
    BY <2>1, MergedFrom, Zenon
  <2>3. Came(k, c, x)
    BY <2>2
  <2> QED
    BY <1>2, <2>3 DEF Came
<1>7. Standing'
  <2>1. ASSUME NEW c \in 1 .. Len(code), NEW x \in 1 .. Len(code'[c])
        PROVE  Stands(code[c][x])'
    <3>1. PICK d \in 1 .. Len(code) : \E y \in 1 .. Len(code[d]) : code'[c][x] = code[d][y]
      BY <1>6
    <3>2. PICK y \in 1 .. Len(code[d]) : code'[c][x] = code[d][y]
      BY <3>1
    <3>3. PICK q \in Quads : q = code[d][y]
      <4>1. code[d] \in Seq(Quads)
        BY DEF FlowInv, IInv, Types
      <4> QED
        BY <4>1
    <3>4. Stands(q)'
      BY <1>5, <3>3, StandsStays DEF FlowInv, IInv, Standing
    <3> QED
      BY <3>2, <3>3, <3>4 DEF Stands
  <2> QED
    BY <1>4, <2>1 DEF Standing
<1>8. Once'
  <2> DEFINE At(c, x, d, y) ==
               /\ d \in 1 .. Len(code) /\ y \in 1 .. Len(code[d]) /\ code'[c][x] = code[d][y]
               /\ \/ c = b /\ d = b /\ x = y
                  \/ c = b /\ d = next /\ x = y + Len(code[b])
                  \/ c # b /\ c # next /\ d = c /\ x = y
  <2>1. ASSUME NEW c \in 1 .. Len(code), NEW x \in 1 .. Len(code'[c])
        PROVE  \E d, y : At(c, x, d, y)
    <3>1. PICK w \in Nat : w = Len(code[b])
      BY <1>3
    <3>2. x \in Int
      OBVIOUS
    <3>3. CASE c = b /\ x \in 1 .. Len(code[b]) /\ code'[c][x] = code[b][x]
      <4>1. At(c, x, b, x)
        BY <3>3
      <4> QED
        BY <4>1
    <3>4. CASE /\ c = b /\ x - Len(code[b]) \in 1 .. Len(code[next])
               /\ code'[c][x] = code[next][x - Len(code[b])]
      <4>1. x = (x - w) + w
        BY <3>2
      <4>2. At(c, x, next, x - w)
        BY <3>1, <3>4, <4>1
      <4> QED
        BY <4>2
    <3>5. CASE /\ c # b /\ c # next
               /\ x \in 1 .. Len(code[c]) /\ code'[c][x] = code[c][x]
      <4>1. At(c, x, c, x)
        BY <3>5
      <4> QED
        BY <4>1
    <3> QED
      BY <1>6, <3>3, <3>4, <3>5
  <2>2. ASSUME NEW c \in 1 .. Len(code), NEW x \in 1 .. Len(code'[c]),
               NEW d \in 1 .. Len(code), NEW y \in 1 .. Len(code'[d]),
               code'[c][x].id = code'[d][y].id
        PROVE  c = d /\ x = y
    <3>1. PICK e, u : At(c, x, e, u)
      BY <2>1
    <3>2. PICK f, v : At(d, y, f, v)
      BY <2>1
    <3>3. e = f /\ u = v
      <4>1. /\ e \in 1 .. Len(code) /\ u \in 1 .. Len(code[e])
            /\ f \in 1 .. Len(code) /\ v \in 1 .. Len(code[f])
            /\ code'[c][x] = code[e][u] /\ code'[d][y] = code[f][v]
        BY <3>1, <3>2
      <4> HIDE DEF At
      <4>2. code[e][u].id = code[f][v].id
        BY <2>2, <4>1
      <4>3. \A g, h \in 1 .. Len(code) : \A i \in 1 .. Len(code[g]) : \A j \in 1 .. Len(code[h]) :
              code[g][i].id = code[h][j].id => (g = h /\ i = j)
        BY DEF FlowInv, Once
      <4>4. \A i \in 1 .. Len(code[e]) : \A j \in 1 .. Len(code[f]) :
              code[e][i].id = code[f][j].id => (e = f /\ i = j)
        BY <4>1, <4>3
      <4>5. code[e][u].id = code[f][v].id => (e = f /\ u = v)
        BY <4>1, <4>4
      <4> QED
        BY <4>2, <4>5
    <3>4. PICK w \in Nat : w = Len(code[b])
      BY <1>3
    <3>5. x \in Int /\ y \in Int
      OBVIOUS
    <3>6. /\ \/ c = b /\ e = b /\ x = u
             \/ c = b /\ e = next /\ x = u + w
             \/ c # b /\ c # next /\ e = c /\ x = u
          /\ \/ d = b /\ e = b /\ y = u
             \/ d = b /\ e = next /\ y = u + w
             \/ d # b /\ d # next /\ e = d /\ y = u
      BY <3>1, <3>2, <3>3, <3>4
    <3> HIDE DEF At
    <3> QED
      BY <1>2, <3>5, <3>6, SamePlace
  <2>3. \A c \in 1 .. Len(code) : \A x \in 1 .. Len(code'[c]) :
          \A d \in 1 .. Len(code) : \A y \in 1 .. Len(code'[d]) :
            code'[c][x].id = code'[d][y].id => c = d /\ x = y
    BY <2>2
  <2> HIDE DEF At
  <2> QED
    BY <1>4, <2>3, SMTT(30) DEF Once
<1>9. /\ Len(layout') = n - 1
      /\ \A i \in 1 .. n - 1 : layout'[i] = layout[Old(k + 1, i)]
  <2>1. layout' = Without(layout[k + 1]) /\ k + 1 \in 2 .. Len(layout) - 1
    BY DEF Merging
  <2> QED
    BY <1>1, <1>4, <2>1, WithoutFacts DEF FlowInv, IInv
<1>10. ASSUME NEW i \in 1 .. (n - 1) - 1
       PROVE  Linked(Statements(layout[i]), Start(layout[i]), Start(layout[i + 1]))'
  <2>1. PICK h \in 1 .. n - 1 : h = Old(k + 1, i) /\ h # k + 1
    BY <1>1 DEF Old
  <2>2. layout'[i] = layout[h] /\ i \in 1 .. n - 1 /\ i + 1 \in 1 .. n - 1 /\ h \in 1 .. n
    BY <1>9, <2>1
  <2>3. PICK block \in Seq(Quads) : block = Statements(layout[h])
    BY <1>1, <2>2, StatementsType DEF FlowInv, IInv
  <2>4. PICK from, to, follow :
          /\ from = Start(layout[h]) /\ to = Start(layout[h + 1])
          /\ from = Start(layout[i])' /\ follow = Start(layout[i + 1])'
          /\ follow = Start(layout[Old(k + 1, i + 1)])
    BY <1>5, <1>9, <2>2, ZenonT(30) DEF Start, First, Learned
  <2>5. Linked(block, from, to)
    BY <1>1, <2>3, <2>4 DEF FlowInv, Chained
  <2>6. CASE h = k
    <3>1. i = k /\ Old(k + 1, i + 1) = k + 2
      BY <1>1, <2>1, <2>6 DEF Old
    <3>2. block = s /\ b > 0
      BY <1>2, <1>3, <2>3, <2>6 DEF Statements
    <3>3. Linked(t, to, follow)
      <4>1. k + 1 \in 1 .. Len(layout) - 1 /\ (k + 1) + 1 = k + 2
        BY <1>1
      <4>2. Statements(layout[k + 1]) = t
        BY <1>2, <1>3 DEF Statements
      <4>3. Linked(Statements(layout[k + 1]), Start(layout[k + 1]), Start(layout[k + 2]))
        BY <4>1 DEF FlowInv, Chained
      <4> QED
        BY <2>4, <2>6, <3>1, <4>2, <4>3
    <3>4. \A x \in 1 .. Len(s) : s[x].op # "goto"
      BY <1>2, <1>3 DEF Merging, Jumps
    <3>5. PICK m \in Seq(Quads) : m = s \o t
      BY ConcatProperties
    <3>6. Linked(m, from, follow)
      BY <2>5, <3>2, <3>3, <3>4, <3>5, LinkedJoin DEF FlowInv, IInv
    <3>7. Linked(m, from, follow)'
      BY <1>5, <3>6, LinkedStays DEF FlowInv, IInv
    <3>8. Statements(layout[i])' = m
      BY <1>2, <1>4, <2>2, <2>6, <3>2, <3>5 DEF Statements
    <3> QED
      BY <2>4, <3>7, <3>8
  <2>7. CASE h # k
    <3>1. layout[h] # b /\ layout[h] # next
      BY <1>1, <1>2, <2>1, <2>2, <2>7, SMTT(30) DEF FlowInv, IInv, Arranged
    <3>2. Statements(layout[i])' = block
      <4>1. layout[h] > 0 => layout[h] \in 1 .. Len(code)
        BY <1>1, <2>2, StatementsType DEF FlowInv, IInv
      <4> QED
        BY <1>4, <2>2, <2>3, <3>1, <4>1 DEF Statements
    <3>3. Old(k + 1, i + 1) = h + 1
      BY <1>1, <2>1, <2>7 DEF Old
    <3>4. Linked(block, from, follow)'
      <4>1. Linked(block, from, follow)
        BY <2>4, <2>5, <3>3
      <4> QED
        BY <1>5, <4>1, LinkedStays DEF FlowInv, IInv
    <3> QED
      BY <2>4, <3>2, <3>4
  <2> QED
    BY <2>6, <2>7
<1>11. Chained'
  BY <1>9, <1>10 DEF Chained
<1> QED
  BY <1>7, <1>8, <1>11

LEMMA FewStays ==
  ASSUME FlowInv, [Next]_vars, Types'
  PROVE  Few'
<1>1. DOMAIN code' = DOMAIN code
  <2>1. CASE Eliminate
    BY <2>1 DEF Eliminate
  <2>2. CASE OptimizeBranches
    <3>1. PICK b, i :
            \/ code' = [code EXCEPT ![b][i].op = "goto"]
            \/ code' = [code EXCEPT ![b][i] = Nop(code[b][i].id)]
      BY <2>2 DEF OptimizeBranches
    <3> QED
      BY <3>1
  <2>3. CASE RemoveDead \/ EraseEmpty \/ DropGoto \/ MergeNext
    BY <2>3 DEF RemoveDead, EraseEmpty, DropGoto, MergeNext
  <2>4. CASE Decide \/ StartBranches \/ StartDead \/ EndDead \/ MergeAgain \/ EndRound
             \/ Skip \/ StartMerge \/ UNCHANGED vars
    <3>1. code' = code
      BY <2>4 DEF Decide, StartBranches, StartDead, EndDead, MergeAgain, EndRound, Skip,
                  StartMerge, vars
    <3> QED
      BY <3>1
  <2> QED
    BY <2>1, <2>2, <2>3, <2>4 DEF Next
<1>2. program' = program
  BY DEF Next, vars, Decide, Eliminate, StartBranches, OptimizeBranches, StartDead, RemoveDead,
         EndDead, StartMerge, EraseEmpty, DropGoto, MergeNext, Skip, MergeAgain, EndRound
<1>3. Len(code') = Len(code)
  <2>1. code \in Seq(Seq(Quads)) /\ code' \in Seq(Seq(Quads'))
    BY DEF FlowInv, IInv, Types
  <2>2. PICK m \in Nat, n \in Nat : m = Len(code) /\ n = Len(code')
    BY <2>1
  <2>3. 1 .. m = 1 .. n
    BY <1>1, <2>1, <2>2
  <2>4. m \in 1 .. m \/ m = 0
    OBVIOUS
  <2>5. n \in 1 .. n \/ n = 0
    OBVIOUS
  <2>6. m = n
    BY <2>3, <2>4, <2>5
  <2> QED
    BY <2>2, <2>6
<1> QED
  BY <1>2, <1>3 DEF FlowInv, Few

LEMMA FlowStep ==
  ASSUME ~TrivialJumps, FlowInv, [Next]_vars
  PROVE  FlowInv'
<1>1. IInv' /\ Few'
  <2>1. IInv'
    BY Step DEF FlowInv
  <2> QED
    BY <2>1, FewStays DEF IInv
<1>2. CASE Decide
  BY <1>1, <1>2, DecideFlow DEF FlowInv
<1>3. CASE Eliminate
  BY <1>1, <1>3, EliminateFlow DEF FlowInv
<1>4. CASE OptimizeBranches
  BY <1>1, <1>4, OptimizeBranchesFlow DEF FlowInv
<1>5. CASE RemoveDead
  BY <1>1, <1>5, RemoveDeadFlow DEF FlowInv
<1>6. CASE EraseEmpty
  BY <1>1, <1>6, EraseEmptyFlow DEF FlowInv
<1>7. CASE DropGoto
  BY <1>1, <1>7, DropGotoFlow DEF FlowInv
<1>8. CASE MergeNext
  <2>1. PICK k \in 1 .. Len(layout) : Merging(k)
    BY <1>8, MergingStarts DEF FlowInv
  <2> QED
    BY <1>1, <2>1, MergeFlow DEF FlowInv
<1>9. CASE StartBranches \/ StartDead \/ EndDead \/ MergeAgain \/ EndRound
           \/ Skip \/ StartMerge \/ UNCHANGED vars
  <2>1. program' = program /\ facts' = facts /\ layout' = layout /\ code' = code
    BY <1>9 DEF StartBranches, StartDead, EndDead, MergeAgain, EndRound, Skip, StartMerge, vars
  <2>2. Learned
    BY <2>1 DEF Learned
  <2> QED
    BY <1>1, <2>1, <2>2, PassFlow DEF FlowInv
<1> QED
  BY <1>2, <1>3, <1>4, <1>5, <1>6, <1>7, <1>8, <1>9 DEF Next

-----------------------------------------------------------------------------
(* A block holds the quadruples of a piece of the list, but for the label  *)
(* that it may start with.                                                 *)
Skipped(p, f) == IF p[f].op = "label" THEN 1 ELSE 0

Piece(p, i, blocks, b, f, g) ==
  /\ f < g /\ g = f + Skipped(p, f) + Len(blocks[b])
  /\ \A x \in 1 .. Len(blocks[b]) : blocks[b][x].id = f + Skipped(p, f) + x - 1
  /\ \A h \in 1 .. i : BlockAt(p, h) = b <=> f <= h /\ h < g
  /\ b = Len(blocks) => g = i + 1
  /\ b # Len(blocks) => g <= i /\ BlockAt(p, g) = b + 1

Pieces(p, i, blocks) ==
  \A b \in 1 .. Len(blocks) : \E f \in 1 .. i : \E g \in 1 .. i + 1 : Piece(p, i, blocks, b, f, g)

LEMMA NewPiece ==
  ASSUME NEW p \in Seq(Quad), NEW i \in 1 .. Len(p), p[i].id = i,
         NEW old \in Seq(Seq(Quad)), Pieces(p, i - 1, old),
         \A h \in 1 .. i - 1 : BlockAt(p, h) <= Len(old),
         NEW block \in Seq(Quad), block = IF p[i].op = "label" THEN <<>> ELSE <<p[i]>>,
         NEW blocks, blocks = Append(old, block), BlockAt(p, i) = Len(blocks)
  PROVE  Pieces(p, i, blocks)
<1> DEFINE n == Len(old)
<1>1. /\ n \in Nat /\ Len(blocks) = n + 1 /\ blocks[n + 1] = block
      /\ \A b \in 1 .. n : blocks[b] = old[b]
  <2>1. /\ Len(Append(old, block)) = Len(old) + 1 /\ Append(old, block)[Len(old) + 1] = block
        /\ \A b \in 1 .. Len(old) : Append(old, block)[b] = old[b]
    BY AppendProperties
  <2> QED
    BY <2>1
<1>2. i \in Nat /\ i >= 1 /\ i \in 1 .. i /\ i + 1 \in 1 .. i + 1
      /\ \A h \in 1 .. i : h = i \/ h \in 1 .. i - 1
  OBVIOUS
<1>3. \A h \in 1 .. i - 1 : BlockAt(p, h) \in Nat
  BY BlocksInOrder
<1> HIDE DEF n
<1>4. Piece(p, i, blocks, n + 1, i, i + 1)
  <2>1. Len(block) = IF p[i].op = "label" THEN 0 ELSE 1
    OBVIOUS
  <2>2. \A x \in 1 .. Len(block) : block[x].id = i + Skipped(p, i) + x - 1
    <3>1. CASE p[i].op = "label"
      BY <2>1, <3>1
    <3>2. CASE p[i].op # "label"
      BY <1>2, <3>2 DEF Skipped
    <3> QED
      BY <3>1, <3>2
  <2>3. i + 1 = i + Skipped(p, i) + Len(block)
    BY <1>2, <2>1 DEF Skipped
  <2>4. ASSUME NEW h \in 1 .. i PROVE BlockAt(p, h) = n + 1 <=> i <= h /\ h < i + 1
    <3>1. CASE h = i
      BY <1>1, <1>2, <3>1
    <3>2. CASE h \in 1 .. i - 1
      <4>1. BlockAt(p, h) <= n /\ BlockAt(p, h) \in Nat
        BY <1>3, <3>2 DEF n
      <4> QED
        BY <1>1, <1>2, <3>2, <4>1
    <3> QED
      BY <1>2, <3>1, <3>2
  <2>5. i < i + 1
    BY <1>2
  <2> QED
    BY <1>1, <2>2, <2>3, <2>4, <2>5 DEF Piece
<1>5. ASSUME NEW b \in 1 .. n
      PROVE  \E f \in 1 .. i : \E g \in 1 .. i + 1 : Piece(p, i, blocks, b, f, g)
  <2>1. PICK f \in 1 .. i - 1 : \E g \in 1 .. (i - 1) + 1 : Piece(p, i - 1, old, b, f, g)
    BY DEF Pieces, n
  <2>2. PICK g \in 1 .. (i - 1) + 1 : Piece(p, i - 1, old, b, f, g)
    BY <2>1
  <2>3. /\ f \in 1 .. i /\ g \in 1 .. i + 1 /\ g <= i /\ f \in Nat /\ g \in Nat
        /\ b # n + 1 /\ b \in Nat
    BY <1>1, <1>2
  <2>4. ASSUME NEW h \in 1 .. i PROVE BlockAt(p, h) = b <=> f <= h /\ h < g
    <3>1. CASE h = i
      BY <1>1, <2>3, <3>1
    <3>2. CASE h \in 1 .. i - 1
      BY <2>2, <3>2 DEF Piece
    <3> QED
      BY <1>2, <3>1, <3>2
  <2>5. g <= i /\ BlockAt(p, g) = b + 1
    <3>1. CASE b = n
      <4>1. g = i
        BY <1>2, <2>2, <3>1 DEF Piece, n
      <4> QED
        BY <1>1, <2>3, <3>1, <4>1
    <3>2. CASE b # n
      BY <2>2, <2>3, <3>2 DEF Piece, n
    <3> QED
      BY <3>1, <3>2
  <2>6. Piece(p, i, blocks, b, f, g)
    BY <1>1, <2>2, <2>3, <2>4, <2>5 DEF Piece
  <2> QED
    BY <2>3, <2>6
<1>6. \A b \in 1 .. n + 1 : b = n + 1 \/ b \in 1 .. n
  BY <1>1
<1>7. \A b \in 1 .. n + 1 :
        \E f \in 1 .. i : \E g \in 1 .. i + 1 : Piece(p, i, blocks, b, f, g)
  BY <1>2, <1>4, <1>5, <1>6
<1> QED
  BY <1>1, <1>7 DEF Pieces

LEMMA Widened ==
  ASSUME NEW i \in Nat, NEW f \in 1 .. i - 1, NEW g \in 1 .. (i - 1) + 1
  PROVE  /\ f \in 1 .. i /\ g \in 1 .. i + 1 /\ f \in Nat /\ g \in Nat
         /\ (g <= i - 1 => g <= i)
OBVIOUS

LEMMA LongerPiece ==
  ASSUME NEW p \in Seq(Quad), NEW i \in 1 .. Len(p), p[i].id = i,
         NEW old \in Seq(Seq(Quad)), Pieces(p, i - 1, old),
         NEW n \in Nat, n = Len(old), n >= 1,
         NEW blocks \in Seq(Seq(Quad)), Len(blocks) = n,
         \A b \in 1 .. n : b # n => blocks[b] = old[b],
         Len(blocks[n]) = Len(old[n]) + 1, blocks[n][Len(old[n]) + 1] = p[i],
         \A x \in 1 .. Len(old[n]) : blocks[n][x] = old[n][x],
         BlockAt(p, i) = n
  PROVE  Pieces(p, i, blocks)
<1>1. i \in Nat /\ i >= 1 /\ i \in 1 .. i /\ i + 1 \in 1 .. i + 1 /\ n \in 1 .. n
      /\ \A h \in 1 .. i : h = i \/ h \in 1 .. i - 1
  OBVIOUS
<1>2. ASSUME NEW b \in 1 .. n, b # n
      PROVE  \E f \in 1 .. i : \E g \in 1 .. i + 1 : Piece(p, i, blocks, b, f, g)
  <2>1. PICK f \in 1 .. i - 1 : \E g \in 1 .. (i - 1) + 1 : Piece(p, i - 1, old, b, f, g)
    BY DEF Pieces
  <2>2. PICK g \in 1 .. (i - 1) + 1 : Piece(p, i - 1, old, b, f, g)
    BY <2>1
  <2>3. /\ f \in 1 .. i /\ g \in 1 .. i + 1 /\ f \in Nat /\ g \in Nat
        /\ g <= i - 1 /\ g <= i /\ BlockAt(p, g) = b + 1
    <3>1. b # Len(old)
      BY <1>2
    <3>2. g <= i - 1 /\ BlockAt(p, g) = b + 1
      BY <2>2, <3>1 DEF Piece
    <3>3. /\ f \in 1 .. i /\ g \in 1 .. i + 1 /\ f \in Nat /\ g \in Nat
          /\ (g <= i - 1 => g <= i)
      BY <1>1, Widened
    <3> QED
      BY <3>2, <3>3
  <2>4. ASSUME NEW h \in 1 .. i PROVE BlockAt(p, h) = b <=> f <= h /\ h < g
    <3>1. CASE h = i
      BY <1>1, <1>2, <2>3, <3>1
    <3>2. CASE h \in 1 .. i - 1
      BY <2>2, <3>2 DEF Piece
    <3> QED
      BY <1>1, <3>1, <3>2
  <2>5. blocks[b] = old[b] /\ b # Len(blocks)
    BY <1>2
  <2>6. Piece(p, i, blocks, b, f, g)
    BY <2>2, <2>3, <2>4, <2>5 DEF Piece
  <2> QED
    BY <2>3, <2>6
<1>3. \E f \in 1 .. i : \E g \in 1 .. i + 1 : Piece(p, i, blocks, n, f, g)
  <2>1. PICK f \in 1 .. i - 1 : \E g \in 1 .. (i - 1) + 1 : Piece(p, i - 1, old, n, f, g)
    BY <1>1 DEF Pieces
  <2>2. PICK g \in 1 .. (i - 1) + 1 : Piece(p, i - 1, old, n, f, g)
    BY <2>1
  <2>3. PICK l \in Nat : l = Len(old[n])
    BY <1>1
  <2>4. PICK o \in Nat : o = Skipped(p, f)
    BY DEF Skipped
  <2>5. f \in 1 .. i /\ f \in Nat /\ g = i /\ f < i /\ i = f + o + l /\ i + 1 = f + o + (l + 1)
    <3>1. f < g /\ g = f + o + l /\ g = (i - 1) + 1
      <4>1. f < g /\ g = f + Skipped(p, f) + Len(old[n]) /\ (n = Len(old) => g = (i - 1) + 1)
        BY <2>2, Zenon DEF Piece
      <4> QED
        BY <2>3, <2>4, <4>1
    <3>2. f \in 1 .. i /\ f \in Nat
      BY <1>1, Widened
    <3>3. (i - 1) + 1 = i
      OBVIOUS
    <3> QED
      BY <3>1, <3>2, <3>3
  <2>6. ASSUME NEW x \in 1 .. l + 1 PROVE blocks[n][x].id = f + o + x - 1
    <3>1. CASE x = l + 1
      <4>1. blocks[n][x].id = i
        BY <2>3, <3>1
      <4>2. f + o + x - 1 = i
        BY <2>5, <3>1
      <4> QED
        BY <4>1, <4>2
    <3>2. CASE x # l + 1
      <4>1. x \in 1 .. l
        BY <3>2
      <4>2. blocks[n][x] = old[n][x] /\ old[n][x].id = f + Skipped(p, f) + x - 1
        BY <2>2, <2>3, <4>1 DEF Piece
      <4> QED
        BY <2>4, <4>2
    <3> QED
      BY <3>1, <3>2
  <2>7. ASSUME NEW h \in 1 .. i PROVE BlockAt(p, h) = n <=> f <= h /\ h < i + 1
    <3>1. CASE h = i
      BY <1>1, <2>5, <3>1
    <3>2. CASE h \in 1 .. i - 1
      <4>1. BlockAt(p, h) = n <=> f <= h /\ h < i
        BY <2>2, <2>5, <3>2 DEF Piece
      <4>2. h < i /\ h < i + 1
        BY <1>1, <3>2, SMTT(30)
      <4> QED
        BY <4>1, <4>2
    <3> QED
      BY <1>1, <3>1, <3>2
  <2>8. f < i + 1 /\ Len(blocks[n]) = l + 1
    <3>1. f < i + 1
      BY <1>1, <2>5
    <3> QED
      BY <2>3, <3>1
  <2>9. Piece(p, i, blocks, n, f, i + 1)
    BY <2>4, <2>5, <2>6, <2>7, <2>8 DEF Piece
  <2> QED
    BY <1>1, <2>5, <2>9
<1> QED
  BY <1>2, <1>3 DEF Pieces

LEMMA AllPieces ==
  ASSUME NEW p \in Seq(Quad), \A i \in 1 .. Len(p) : p[i].id = i
  PROVE  Pieces(p, Len(p), Separated(p)[Len(p)].blocks)
<1> DEFINE T == {i \in Nat : i <= Len(p) => Pieces(p, i, Separated(p)[i].blocks)}
<1>1. Len(p) \in Nat
  OBVIOUS
<1>2. 0 \in T
  <2>1. Len(Separated(p)[0].blocks) = 0
    BY SeparatedEquation DEF Fresh
  <2> QED
    BY <2>1 DEF Pieces
<1>3. ASSUME NEW j \in Nat, j \in T PROVE j + 1 \in T
  <2> SUFFICES ASSUME j + 1 <= Len(p) PROVE Pieces(p, j + 1, Separated(p)[j + 1].blocks)
    OBVIOUS
  <2>1. PICK i \in 1 .. Len(p) : i = j + 1 /\ i - 1 = j /\ i - 1 \in 0 .. Len(p) /\ j \in 0 .. Len(p)
    BY <1>1
  <2>2. PICK acc \in Accumulators : acc = Separated(p)[j]
    BY <2>1, SeparatedEquation
  <2>3. PICK old \in Seq(Seq(Quad)) : old = acc.blocks
    BY DEF Accumulators
  <2>4. PICK q \in Quad : q = p[i] /\ q.id = i
    BY <2>1
  <2>5. Separated(p)[i] = Separate(acc, q)
    BY <2>1, <2>2, <2>4, SeparatedEquation
  <2>6. Pieces(p, i - 1, old)
    BY <1>1, <1>3, <2>1, <2>2, <2>3
  <2>7. PICK blocks : blocks = Separated(p)[i].blocks
    OBVIOUS
  <2>8. BlockAt(p, i) = Len(blocks) /\ BlockAt(p, j) = Len(old)
    BY <2>2, <2>3, <2>7 DEF BlockAt
  <2>9. \A h \in 1 .. i - 1 : BlockAt(p, h) <= Len(old)
    <3>1. \A h \in 1 .. i - 1 : h \in 0 .. Len(p) /\ h <= j
      BY <1>1, <2>1
    <3> QED
      BY <2>1, <2>8, <3>1, BlocksInOrder
  <2>10. CASE q.op \in {"label", "call", "pure"} \/ acc.leader
    <3>1. PICK block \in Seq(Quad) : block = IF q.op = "label" THEN <<>> ELSE <<q>>
      <4>1. <<>> \in Seq(Quad) /\ <<q>> \in Seq(Quad)
        OBVIOUS
      <4> QED
        BY <4>1
    <3>2. blocks = Append(old, block)
      BY <2>3, <2>5, <2>7, <2>10, <3>1 DEF Separate
    <3>3. Pieces(p, i, blocks)
      BY <2>4, <2>6, <2>8, <2>9, <3>1, <3>2, NewPiece
    <3> QED
      BY <2>1, <2>7, <3>3
  <2>11. CASE ~(q.op \in {"label", "call", "pure"} \/ acc.leader)
    <3>1. PICK n \in Nat : n = Len(old) /\ n >= 1
      BY <2>3, <2>11 DEF Accumulators
    <3>2. blocks = [old EXCEPT ![n] = Append(@, q)]
      BY <2>3, <2>5, <2>7, <2>11, <3>1 DEF Separate
    <3>3. old[n] \in Seq(Quad)
      BY <3>1
    <3>4. PICK last \in Seq(Quad) : last = old[n]
      BY <3>3
    <3>5. /\ Append(last, q) \in Seq(Quad)
          /\ Len(Append(last, q)) = Len(last) + 1 /\ Append(last, q)[Len(last) + 1] = q
          /\ \A x \in 1 .. Len(last) : Append(last, q)[x] = last[x]
      BY AppendProperties
    <3>6. blocks = [old EXCEPT ![n] = Append(last, q)]
      BY <3>2, <3>4
    <3>7. /\ blocks \in Seq(Seq(Quad)) /\ Len(blocks) = n /\ blocks[n] = Append(last, q)
          /\ \A b \in 1 .. n : b # n => blocks[b] = old[b]
      BY <3>1, <3>5, <3>6
    <3>8. /\ Len(blocks[n]) = Len(old[n]) + 1 /\ blocks[n][Len(old[n]) + 1] = p[i]
          /\ \A x \in 1 .. Len(old[n]) : blocks[n][x] = old[n][x]
      BY <2>4, <3>4, <3>5, <3>7
    <3>9. p[i].id = i /\ BlockAt(p, i) = n
      BY <2>4, <2>8, <3>7
    <3>10. Pieces(p, i, blocks)
      BY <2>6, <3>1, <3>7, <3>8, <3>9, LongerPiece
    <3> QED
      BY <2>1, <2>7, <3>10
  <2> QED
    BY <2>10, <2>11
<1> HIDE DEF T
<1>4. Len(p) \in T
  BY <1>1, <1>2, <1>3, UpwardInduction
<1> QED
  BY <1>1, <1>4 DEF T

LEMMA ExtractedPieces ==
  ASSUME NEW p \in Programs
  PROVE  /\ p \in Seq(Quad) /\ Pieces(p, Len(p), extract(p))
         /\ Len(extract(p)) = BlockAt(p, Len(p))
         /\ \A b \in 1 .. Len(extract(p)) : \A x \in 1 .. Len(extract(p)[b]) :
              p[extract(p)[b][x].id].op # "label"
<1>1. p \in Seq(Quad) /\ \A i \in 1 .. Len(p) : p[i].id = i
  BY ProgramsAssumption DEF Quad
<1>2. Len(p) \in Nat /\ Len(p) \in 0 .. Len(p)
  BY <1>1
<1>3. PICK acc \in Accumulators : acc = Separated(p)[Len(p)]
  BY <1>1, <1>2, SeparatedEquation
<1>4. PICK old \in Seq(Seq(Quad)) : old = acc.blocks
  BY DEF Accumulators
<1>5. Cut(p, Len(p), acc) /\ Pieces(p, Len(p), old) /\ Len(old) = BlockAt(p, Len(p))
  BY <1>1, <1>3, <1>4, AllCut, AllPieces DEF BlockAt
<1> DEFINE m == Len(old)
           block(label) == CHOOSE b \in 1 .. m : <<label, b>> \in ToSet(acc.labels)
           resolve(q) == IF q.op \in Jumps THEN [q EXCEPT !.target = block(q.target)] ELSE q
           code0 == [b \in 1 .. m |-> [i \in DOMAIN old[b] |-> resolve(old[b][i])]]
<1>6. extract(p) = code0
  BY <1>3, <1>4 DEF extract
<1> HIDE DEF block
<1>7. \A q \in Quad : resolve(q).id = q.id
  BY DEF Quad
<1> HIDE DEF resolve
<1>8. m \in Nat
  OBVIOUS
<1>9. Len(code0) = m
  BY <1>8
<1>10. ASSUME NEW b \in 1 .. m
       PROVE  /\ Len(code0[b]) = Len(old[b])
              /\ \A x \in 1 .. Len(old[b]) : code0[b][x].id = old[b][x].id
  <2>1. /\ old[b] \in Seq(Quad) /\ Len(old[b]) \in Nat
        /\ DOMAIN old[b] = 1 .. Len(old[b])
    OBVIOUS
  <2>2. code0[b] = [i \in 1 .. Len(old[b]) |-> resolve(old[b][i])]
    BY <2>1
  <2> HIDE DEF code0
  <2>3. Len(code0[b]) = Len(old[b])
    BY <2>1, <2>2
  <2>4. ASSUME NEW x \in 1 .. Len(old[b]) PROVE code0[b][x].id = old[b][x].id
    <3>1. old[b][x] \in Quad /\ code0[b][x] = resolve(old[b][x])
      BY <2>1, <2>2
    <3> QED
      BY <1>7, <3>1
  <2> QED
    BY <2>3, <2>4
<1> HIDE DEF code0, m
<1>11. Pieces(p, Len(p), code0)
  <2>1. ASSUME NEW b \in 1 .. m
        PROVE  \E f \in 1 .. Len(p) : \E g \in 1 .. Len(p) + 1 : Piece(p, Len(p), code0, b, f, g)
    <3>1. PICK f \in 1 .. Len(p) : \E g \in 1 .. Len(p) + 1 : Piece(p, Len(p), old, b, f, g)
      BY <1>5 DEF Pieces, m
    <3>2. PICK g \in 1 .. Len(p) + 1 : Piece(p, Len(p), old, b, f, g)
      BY <3>1
    <3>3. Piece(p, Len(p), code0, b, f, g)
      BY <1>9, <1>10, <3>2 DEF Piece, m
    <3> QED
      BY <3>3
  <2> QED
    BY <1>9, <2>1 DEF Pieces
<1>12. ASSUME NEW b \in 1 .. m, NEW x \in 1 .. Len(code0[b])
       PROVE  p[code0[b][x].id].op # "label"
  <2>1. x \in 1 .. Len(old[b]) /\ code0[b][x].id = old[b][x].id
    BY <1>10
  <2>2. Placed(p, Len(p), acc, b, x)
    BY <1>4, <1>5, <2>1 DEF Cut, m
  <2> QED
    BY <1>4, <2>1, <2>2 DEF Placed
<1> QED
  BY <1>1, <1>5, <1>6, <1>9, <1>11, <1>12 DEF m

(* The first block starts with the list.                                   *)
LEMMA FirstBlock ==
  ASSUME NEW p \in Seq(Quad), Len(p) >= 1
  PROVE  BlockAt(p, 1) = 1
<1>1. 1 \in 1 .. Len(p) /\ 1 - 1 = 0 /\ 0 \in 0 .. Len(p)
  OBVIOUS
<1>2. PICK acc \in Accumulators : acc = Separated(p)[0] /\ acc = Fresh
  BY <1>1, SeparatedEquation
<1>3. PICK new : new = Separated(p)[1] /\ new = Separate(acc, p[1])
  BY <1>1, <1>2, SeparatedEquation
<1>4. p[1] \in Quad
  BY <1>1
<1>5. Separates(acc, p[1], new)
  BY <1>3, <1>4, SeparateFacts
<1>6. acc.leader /\ Len(acc.blocks) = 0
  BY <1>2 DEF Fresh
<1> QED
  BY <1>3, <1>5, <1>6 DEF Separates, BlockAt

(* What First chooses, in the initial states.                              *)
LEMMA FirstFound ==
  ASSUME program \in Seq(Quad), NEW b \in Nat, b # 0, NEW f \in 1 .. Len(program),
         NEW g \in Nat, \A h \in 1 .. Len(program) : BlockAt(program, h) = b <=> f <= h /\ h < g
  PROVE  \A h \in 1 .. Len(program) :
           BlockAt(program, h) = b /\ BlockAt(program, h - 1) # b => h = First(b)
<1> DEFINE Starts_(h) == BlockAt(program, h) = b /\ BlockAt(program, h - 1) # b
<1>1. Len(program) \in Nat
  OBVIOUS
<1>2. ASSUME NEW h \in 1 .. Len(program), Starts_(h) PROVE h = f
  <2> SUFFICES ASSUME h # f PROVE FALSE
    OBVIOUS
  <2>1. f <= h /\ h < g
    BY <1>2
  <2>2. h - 1 \in 1 .. Len(program) /\ f <= h - 1 /\ h - 1 < g
    BY <1>1, <2>1
  <2> QED
    BY <1>2, <2>2
<1>3. First(b) = CHOOSE h \in 1 .. Len(program) : Starts_(h)
  BY DEF First
<1> HIDE DEF Starts_
<1>4. ASSUME NEW h \in 1 .. Len(program), Starts_(h) PROVE h = First(b)
  <2>1. First(b) \in 1 .. Len(program) /\ Starts_(First(b))
    BY <1>3, <1>4
  <2> QED
    BY <1>2, <1>4, <2>1
<1> QED
  BY <1>4 DEF Starts_

(* In the initial states a block is the piece from First to the next one.  *)
LEMMA InitialPiece ==
  ASSUME Init, NEW b \in 1 .. Len(code)
  PROVE  \E f \in 1 .. Len(program) : \E g \in 1 .. Len(program) + 1 :
           /\ Piece(program, Len(program), code, b, f, g)
           /\ f = First(b) /\ g = IF b = Len(code) THEN Len(program) + 1 ELSE First(b + 1)
           /\ \A h \in 1 .. Len(program) :
                BlockAt(program, h) = b /\ BlockAt(program, h - 1) # b => h = First(b)
<1> DEFINE n == Len(program)
           Found(c) == \A h \in 1 .. n :
                         BlockAt(program, h) = c /\ BlockAt(program, h - 1) # c => h = First(c)
<1>1. /\ program \in Seq(Quad) /\ Pieces(program, n, code) /\ n \in Nat
  <2>1. PICK p \in Programs : p = program /\ code = extract(p)
    BY DEF Init
  <2> QED
    BY <2>1, ExtractedPieces
<1>2. /\ Len(code) \in Nat /\ BlockAt(program, 0) = 0
  <2>1. Fine
    BY FineInit
  <2> QED
    BY <1>1, <2>1, BlocksInOrder DEF Fine
<1>3. ASSUME NEW c \in 1 .. Len(code), NEW f \in 1 .. n, NEW g \in 1 .. n + 1,
             Piece(program, n, code, c, f, g)
      PROVE  Found(c)
  <2>1. \A h \in 1 .. n : BlockAt(program, h) = c <=> f <= h /\ h < g
    BY <1>3 DEF Piece
  <2>2. c \in Nat /\ c # 0 /\ g \in Nat
    BY <1>1, <1>2
  <2> QED
    BY <1>1, <2>1, <2>2, FirstFound
<1> HIDE DEF Found
<1>4. \A c \in 1 .. Len(code) : Found(c)
  <2>1. ASSUME NEW c \in 1 .. Len(code) PROVE Found(c)
    <3>1. PICK f \in 1 .. n : \E g \in 1 .. n + 1 : Piece(program, n, code, c, f, g)
      BY <1>1 DEF Pieces
    <3>2. PICK g \in 1 .. n + 1 : Piece(program, n, code, c, f, g)
      BY <3>1
    <3> QED
      BY <1>3, <3>2
  <2> QED
    BY <2>1
<1>5. PICK f \in 1 .. n : \E g \in 1 .. n + 1 : Piece(program, n, code, b, f, g)
  BY <1>1 DEF Pieces
<1>6. PICK g \in 1 .. n + 1 : Piece(program, n, code, b, f, g)
  BY <1>5
<1>7. /\ f \in Nat /\ g \in Nat /\ f < g
      /\ \A h \in 1 .. n : BlockAt(program, h) = b <=> f <= h /\ h < g
  BY <1>1, <1>6 DEF Piece
<1>8. f = First(b)
  <2>1. BlockAt(program, f) = b
    BY <1>7
  <2>2. BlockAt(program, f - 1) # b
    <3>1. CASE f = 1
      <4>1. f - 1 = 0 /\ b # 0
        BY <1>2, <3>1
      <4> QED
        BY <1>2, <4>1
    <3>2. CASE f # 1
      <4>1. f - 1 \in 1 .. n /\ ~(f <= f - 1)
        BY <1>1, <3>2
      <4> QED
        BY <1>7, <4>1
    <3> QED
      BY <3>1, <3>2
  <2> QED
    BY <1>4, <2>1, <2>2 DEF Found
<1>9. g = IF b = Len(code) THEN n + 1 ELSE First(b + 1)
  <2>1. CASE b = Len(code)
    BY <1>6, <2>1 DEF Piece
  <2>2. CASE b # Len(code)
    <3>1. g <= n /\ BlockAt(program, g) = b + 1
      BY <1>6, <2>2 DEF Piece
    <3>2. /\ g \in 1 .. n /\ g - 1 \in 1 .. n /\ f <= g - 1 /\ g - 1 < g
          /\ b + 1 \in 1 .. Len(code) /\ b # b + 1
      BY <1>1, <1>2, <1>7, <2>2, <3>1
    <3>3. BlockAt(program, g - 1) = b
      BY <1>7, <3>2
    <3>4. g = First(b + 1)
      BY <1>4, <3>1, <3>2, <3>3 DEF Found
    <3> QED
      BY <2>2, <3>4
  <2> QED
    BY <2>1, <2>2
<1>10. \A h \in 1 .. n : BlockAt(program, h) = b /\ BlockAt(program, h - 1) # b => h = First(b)
  BY <1>4 DEF Found
<1> QED
  BY <1>6, <1>8, <1>9, <1>10

LEMMA PieceLinked ==
  ASSUME Types, NEW b \in 1 .. Len(code), NEW f \in 1 .. Len(program),
         NEW g \in 1 .. Len(program) + 1, Piece(program, Len(program), code, b, f, g)
  PROVE  Linked(code[b], f, g)
<1>1. Len(program) \in Nat
  BY ListTypes
<1>2. PICK l \in Nat : l = Len(code[b])
  <2>1. code[b] \in Seq(Quads)
    BY DEF Types
  <2> QED
    BY <2>1
<1>3. PICK o \in Nat : o = Skipped(program, f) /\ (o = IF program[f].op = "label" THEN 1 ELSE 0)
  BY DEF Skipped
<1>4. g = f + o + l /\ f < g /\ \A x \in 1 .. l : code[b][x].id = f + o + x - 1
  BY <1>2, <1>3 DEF Piece
<1>5. ASSUME NEW x \in 1 .. l + 1 PROVE Behind(code[b], x, g) = f + o + x - 1
  <2>1. CASE x <= l
    <3>1. x \in 1 .. l
      BY <2>1
    <3> QED
      BY <1>2, <1>4, <2>1, <3>1 DEF Behind
  <2>2. CASE ~(x <= l)
    <3>1. g = f + o + x - 1
      BY <1>4, <2>2
    <3> QED
      BY <1>2, <2>2, <3>1 DEF Behind
  <2> QED
    BY <2>1, <2>2
<1>6. \A x \in 1 .. l + 1 : f + o + x - 1 \in Positions
  BY <1>1, <1>4 DEF Positions
<1>7. Passes(f, Behind(code[b], 1, g))
  <2>1. 1 \in 1 .. l + 1 /\ f + o + 1 - 1 = f + o
    OBVIOUS
  <2>2. Behind(code[b], 1, g) = f + o /\ f + o \in Positions
    BY <1>5, <1>6, <2>1
  <2>3. f \in Positions
    BY <1>1 DEF Positions
  <2>4. CASE o = 0
    <3>1. f + o = f
      BY <2>4
    <3> QED
      BY <2>2, <2>3, <3>1, PassesFacts
  <2>5. CASE o # 0
    <3>1. o = 1 /\ program[f].op = "label"
      BY <1>3, <2>5
    <3>2. ListSilent(f)
      BY <1>1, <3>1 DEF ListSilent
    <3>3. ListStep(f) = f + 1
      BY <3>1 DEF ListStep
    <3> QED
      BY <2>2, <2>3, <3>1, <3>2, <3>3, PassesFacts
  <2> QED
    BY <2>4, <2>5
<1>8. ASSUME NEW x \in 1 .. l PROVE Passes(code[b][x].id + 1, Behind(code[b], x + 1, g))
  <2>1. x + 1 \in 1 .. l + 1 /\ (f + o + x - 1) + 1 = f + o + (x + 1) - 1
    OBVIOUS
  <2>2. Behind(code[b], x + 1, g) = f + o + (x + 1) - 1
    BY <1>5, <2>1
  <2>3. code[b][x].id = f + o + x - 1
    BY <1>4
  <2>4. Behind(code[b], x + 1, g) \in Positions
    BY <1>6, <2>1, <2>2
  <2> QED
    BY <2>1, <2>2, <2>3, <2>4, PassesFacts
<1> QED
  BY <1>2, <1>7, <1>8 DEF Linked

LEMMA FewBlocks ==
  ASSUME NEW p \in Seq(Quad)
  PROVE  BlockAt(p, Len(p)) <= Len(p)
<1> DEFINE T == {i \in Nat : i <= Len(p) => BlockAt(p, i) <= i}
<1>1. Len(p) \in Nat
  OBVIOUS
<1>2. 0 \in T
  BY BlocksInOrder
<1>3. ASSUME NEW j \in Nat, j \in T PROVE j + 1 \in T
  <2> SUFFICES ASSUME j + 1 <= Len(p) PROVE BlockAt(p, j + 1) <= j + 1
    OBVIOUS
  <2>1. PICK i \in 1 .. Len(p) : i = j + 1 /\ i - 1 = j /\ i - 1 \in 0 .. Len(p)
    BY <1>1
  <2>2. PICK acc \in Accumulators : acc = Separated(p)[i - 1]
    BY <2>1, SeparatedEquation
  <2>3. PICK new : new = Separated(p)[i] /\ new = Separate(acc, p[i])
    BY <2>2, SeparatedEquation
  <2>4. Separates(acc, p[i], new)
    <3>1. p[i] \in Quad
      OBVIOUS
    <3> QED
      BY <2>3, <3>1, SeparateFacts
  <2>5. BlockAt(p, i) = Len(acc.blocks) + 1 \/ BlockAt(p, i) = Len(acc.blocks)
    BY <2>3, <2>4 DEF Separates, BlockAt
  <2>6. BlockAt(p, j) = Len(acc.blocks) /\ BlockAt(p, j) <= j /\ BlockAt(p, j) \in Nat
    BY <1>3, <2>1, <2>2, BlocksInOrder DEF BlockAt
  <2> QED
    BY <2>1, <2>5, <2>6
<1> HIDE DEF T
<1>4. Len(p) \in T
  BY <1>1, <1>2, <1>3, UpwardInduction
<1> QED
  BY <1>1, <1>4 DEF T

LEMMA InitiallyFlow ==
  ASSUME Init
  PROVE  FlowInv
<1> DEFINE n == Len(program)
<1>1. IInv /\ Fine
  BY Initially, FineInit
<1>2. /\ Types /\ n \in Nat /\ Len(code) \in Nat /\ program \in Seq(Quad)
      /\ \A i \in 1 .. n : facts[i] = "var"
  <2>1. facts = [i \in 1 .. n |-> "var"]
    BY DEF Init
  <2> QED
    BY <1>1, <2>1 DEF IInv, Types, Fine
<1>3. /\ Len(code) = BlockAt(program, n)
      /\ \A b \in 1 .. Len(code) : \A x \in 1 .. Len(code[b]) :
           program[code[b][x].id].op # "label"
  <2>1. PICK p \in Programs : p = program /\ code = extract(p)
    BY DEF Init
  <2> QED
    BY <2>1, ExtractedPieces
<1>4. ASSUME NEW h \in 1 .. n, program[h].op = "label", BlockAt(program, h) \in 1 .. Len(code)
      PROVE  Start(BlockAt(program, h)) = h
  <2>1. PICK b \in 1 .. Len(code) : b = BlockAt(program, h)
    BY <1>4
  <2>2. h - 1 \in 0 .. n /\ h \in 0 .. n /\ h - 1 < h
    BY <1>2
  <2>3. BlockAt(program, h - 1) < BlockAt(program, h) /\ BlockAt(program, h - 1) \in Nat
    BY <1>2, <1>4, <2>2, BlocksInOrder
  <2>4. BlockAt(program, h - 1) # b
    BY <2>1, <2>3
  <2>5. h = First(b)
    BY <2>1, <2>4, InitialPiece
  <2>6. b # ENTRY /\ b # EXIT
    BY DEF ENTRY, EXIT
  <2> QED
    BY <2>1, <2>5, <2>6 DEF Start
<1>5. Standing
  <2>1. ASSUME NEW b \in 1 .. Len(code), NEW x \in 1 .. Len(code[b]) PROVE Stands(code[b][x])
    <3>1. PICK q \in Quads : q = code[b][x]
      <4>1. code[b] \in Seq(Quads)
        BY <1>2 DEF Types
      <4> QED
        BY <4>1
    <3>2. PICK i \in 1 .. n : i = q.id
      BY <3>1 DEF Quads
    <3>3. Resolved(program, code, b, x)
      BY <1>1 DEF Fine
    <3>4. program[i].op # "label" /\ q.op = program[i].op
      BY <1>3, <3>1, <3>2, <3>3 DEF Resolved
    <3>5. program[i].op \in Operators
      <4>1. program[i] \in Quad
        BY <1>2
      <4> QED
        BY <4>1 DEF Quad
    <3>6. q.op # "nop"
      BY <3>4, <3>5 DEF Operators, Jumps
    <3>7. q.op = "goto" => ListSilent(i) /\ ListStep(i) = Jump(i)
      BY <1>2, <3>4 DEF ListSilent, ListStep
    <3>8. ASSUME q.op \in Jumps PROVE Start(q.target) = Jump(i)
      <4>1. /\ q.target \in 1 .. Len(code)
            /\ \E h \in 1 .. n : Leads(program, i, h) /\ q.target = BlockAt(program, h)
        BY <3>1, <3>2, <3>3, <3>8 DEF Resolved
      <4>2. PICK h \in 1 .. n : Leads(program, i, h) /\ q.target = BlockAt(program, h)
        BY <4>1
      <4>3. program[h].op = "label"
        BY <4>2 DEF Leads
      <4>4. h = Jump(i)
        BY <1>2, <3>4, <3>8, <4>2, JumpTo
      <4> QED
        BY <1>4, <4>1, <4>2, <4>3, <4>4
    <3>9. Stands(q)
      BY <3>2, <3>4, <3>6, <3>7, <3>8 DEF Stands
    <3> QED
      BY <3>1, <3>9
  <2> QED
    BY <2>1 DEF Standing
<1>6. Once
  <2>1. ASSUME NEW b \in 1 .. Len(code), NEW x \in 1 .. Len(code[b]), NEW y \in 1 .. Len(code[b]),
               code[b][x].id = code[b][y].id
        PROVE  x = y
    <3>1. PICK f \in 1 .. n : \E g \in 1 .. n + 1 : Piece(program, n, code, b, f, g)
      BY InitialPiece
    <3>2. PICK g \in 1 .. n + 1 : Piece(program, n, code, b, f, g)
      BY <3>1
    <3>3. PICK o \in Nat : o = Skipped(program, f)
      BY DEF Skipped
    <3>4. code[b][x].id = f + o + x - 1 /\ code[b][y].id = f + o + y - 1
      BY <3>2, <3>3 DEF Piece
    <3>5. f + o + x - 1 = f + o + y - 1
      BY <2>1, <3>4
    <3>6. x \in Int /\ y \in Int /\ f + o \in Int
      OBVIOUS
    <3> QED
      BY <3>5, <3>6
  <2>2. \A b \in 1 .. Len(code) : \A x \in 1 .. Len(code[b]) :
          b = BlockAt(program, code[b][x].id)
    BY <1>1 DEF Fine, Resolved
  <2>3. ASSUME NEW b \in 1 .. Len(code), NEW c \in 1 .. Len(code),
               NEW x \in 1 .. Len(code[b]), NEW y \in 1 .. Len(code[c]),
               code[b][x].id = code[c][y].id
        PROVE  b = c /\ x = y
    <3>1. b = c
      BY <2>2, <2>3
    <3> QED
      BY <2>1, <2>3, <3>1
  <2> QED
    BY <2>3 DEF Once
<1>7. Chained
  <2>1. ASSUME NEW k \in 1 .. Len(layout) - 1
        PROVE  Linked(Statements(layout[k]), Start(layout[k]), Start(layout[k + 1]))
    <3>1. /\ Natural(Len(code)) /\ Len(layout) = Len(code) + 2
          /\ k \in 1 .. Len(code) + 2 /\ k + 1 \in 1 .. Len(code) + 2
      <4>1. Natural(Len(code)) /\ Len(layout) = Len(code) + 2
        BY <1>1 DEF Fine, Natural
      <4> QED
        BY <1>2, <4>1
    <3>2. PICK m \in Nat : m = Len(code)
      BY <1>2
    <3>3. /\ k \in 1 .. m + 1
          /\ layout[k] = IF k = 1 THEN ENTRY ELSE k - 1
          /\ layout[k + 1] = IF k = m + 1 THEN EXIT ELSE k
      <4>1. k \in 1 .. m + 1 /\ k # m + 2 /\ k + 1 # 1 /\ (k + 1) - 1 = k
            /\ (k + 1 = m + 2 <=> k = m + 1)
        BY <3>1, <3>2
      <4>2. /\ layout[k] = IF k = 1 THEN ENTRY ELSE IF k = m + 2 THEN EXIT ELSE k - 1
            /\ layout[k + 1] = IF k + 1 = 1 THEN ENTRY ELSE IF k + 1 = m + 2 THEN EXIT ELSE (k + 1) - 1
        BY <3>1, <3>2 DEF Natural
      <4> QED
        BY <4>1, <4>2
    <3>4. CASE k = 1
      <4>1. layout[k] = ENTRY /\ Statements(layout[k]) = <<>> /\ Start(layout[k]) = 1
        <5>1. layout[k] = ENTRY
          BY <3>3, <3>4
        <5>2. Statements(ENTRY) = <<>>
          BY DEF Statements, ENTRY
        <5>3. Start(ENTRY) = 1
          BY DEF Start, ENTRY, EXIT
        <5> QED
          BY <5>1, <5>2, <5>3
      <4>2. Start(layout[k + 1]) = 1
        <5>1. CASE m = 0
          <6>1. n = 0
            <7> SUFFICES ASSUME n # 0 PROVE FALSE
              OBVIOUS
            <7>1. n >= 1 /\ 1 \in 0 .. n /\ n \in 0 .. n /\ 1 <= n
              BY <1>2
            <7>2. BlockAt(program, 1) = 1 /\ BlockAt(program, 1) <= BlockAt(program, n)
              BY <1>2, <7>1, FirstBlock, BlocksInOrder
            <7> QED
              BY <1>3, <3>2, <5>1, <7>2
          <6>2. layout[k + 1] = EXIT
            BY <3>3, <3>4, <5>1
          <6> QED
            BY <6>1, <6>2 DEF Start, ENTRY, EXIT
        <5>2. CASE m # 0
          <6>1. layout[k + 1] = 1 /\ 1 \in 1 .. Len(code)
            BY <3>2, <3>3, <3>4, <5>2
          <6>2. n >= 1 /\ 1 \in 1 .. n /\ 1 - 1 = 0
            <7>1. PICK f \in 1 .. n : f = First(1)
              BY <6>1, InitialPiece
            <7> QED
              BY <1>2, <7>1
          <6>3. BlockAt(program, 1) = 1 /\ BlockAt(program, 1 - 1) # 1
            BY <1>2, <6>2, FirstBlock, BlocksInOrder
          <6>4. First(1) = 1
            BY <6>1, <6>2, <6>3, InitialPiece
          <6> QED
            BY <6>1, <6>4 DEF Start, ENTRY, EXIT
        <5> QED
          BY <5>1, <5>2
      <4>3. Len(<<>>) = 0 /\ 1 \in Positions
        BY <1>2 DEF Positions
      <4>4. Linked(<<>>, 1, 1)
        BY <1>2, <4>3, PassesFacts DEF Linked, Behind
      <4> QED
        BY <4>1, <4>2, <4>4
    <3>5. CASE k # 1
      <4>1. PICK b \in 1 .. Len(code) : b = k - 1 /\ k = b + 1 /\ b > 0
        BY <3>2, <3>3, <3>5
      <4>2. layout[k] = b /\ layout[k + 1] = IF b = Len(code) THEN EXIT ELSE b + 1
        BY <3>2, <3>3, <3>5, <4>1
      <4>3. PICK f \in 1 .. n : \E g \in 1 .. n + 1 :
              /\ Piece(program, n, code, b, f, g)
              /\ f = First(b) /\ g = IF b = Len(code) THEN n + 1 ELSE First(b + 1)
        BY InitialPiece
      <4>4. PICK g \in 1 .. n + 1 :
              /\ Piece(program, n, code, b, f, g)
              /\ f = First(b) /\ g = IF b = Len(code) THEN n + 1 ELSE First(b + 1)
        BY <4>3
      <4>5. Linked(code[b], f, g)
        BY <1>2, <4>4, PieceLinked
      <4>6. b # ENTRY /\ b # EXIT /\ b + 1 # ENTRY /\ b + 1 # EXIT /\ EXIT # ENTRY
        BY DEF ENTRY, EXIT
      <4>7. Start(layout[k]) = f /\ Start(layout[k + 1]) = g
        BY <4>2, <4>4, <4>6 DEF Start
      <4>8. Statements(layout[k]) = code[b]
        BY <4>1, <4>2 DEF Statements
      <4> QED
        BY <4>5, <4>7, <4>8
    <3> QED
      BY <3>4, <3>5
  <2> QED
    BY <2>1 DEF Chained
<1>8. Few
  BY <1>2, <1>3, FewBlocks DEF Few
<1> QED
  BY <1>1, <1>5, <1>6, <1>7, <1>8 DEF FlowInv

-----------------------------------------------------------------------------
(* Where control can be: in a live block, before one of its quadruples or  *)
(* behind the last, unless that is a GOTO.                                 *)
Place(b, x) ==
  /\ b \in LiveBlocks /\ x \in 1 .. Len(Statements(b)) + 1
  /\ x = Len(Statements(b)) + 1 => Falls(Statements(b))

(* The same place in the list.                                             *)
Here(b, x) ==
  Behind(Statements(b), x, IF b = EXIT THEN Len(program) + 1 ELSE Start(Next_(b)))

LEMMA LiveAt ==
  ASSUME FlowInv, NEW b, b \in LiveBlocks
  PROVE  \E i \in 1 .. Len(layout) :
           /\ b = layout[i] /\ Statements(b) \in Seq(Quads) /\ Len(Statements(b)) \in Nat
           /\ b = EXIT => Len(Statements(b)) = 0
           /\ b # EXIT => /\ i \in 1 .. Len(layout) - 1 /\ i + 1 \in 1 .. Len(layout)
                          /\ Next_(b) = layout[i + 1] /\ Covered(i)
                          /\ Linked(Statements(b), Start(b), Start(layout[i + 1]))
<1>1. Types /\ Arranged /\ Cover /\ Len(layout) \in Nat
  BY LayoutFacts DEF FlowInv, IInv
<1>2. PICK i \in 1 .. Len(layout) : b = layout[i]
  BY <1>1, LeastLive, LayoutFacts DEF LiveIsLeast
<1>3. Statements(b) \in Seq(Quads) /\ Len(Statements(b)) \in Nat
  <2>1. Statements(b) \in Seq(Quads)
    BY <1>1, <1>2, StatementsType
  <2> QED
    BY <2>1
<1>4. b = EXIT => Len(Statements(b)) = 0
  BY DEF Statements, EXIT
<1>5. ASSUME b # EXIT
      PROVE  /\ i \in 1 .. Len(layout) - 1 /\ i + 1 \in 1 .. Len(layout)
             /\ Next_(b) = layout[i + 1] /\ Covered(i)
             /\ Linked(Statements(b), Start(b), Start(layout[i + 1]))
  <2>1. i # Len(layout)
    BY <1>1, <1>2, <1>5 DEF Arranged
  <2>2. i \in 1 .. Len(layout) - 1 /\ i + 1 \in 1 .. Len(layout)
    BY <1>1, <2>1
  <2>3. Covered(i)
    BY <1>1, <1>2, <2>2 DEF Cover
  <2>4. Linked(Statements(b), Start(b), Start(layout[i + 1]))
    BY <1>2, <2>2 DEF FlowInv, Chained
  <2>5. Next_(b) = layout[i + 1]
    BY <1>1, <1>2, AtPosition
  <2> QED
    BY <2>2, <2>3, <2>4, <2>5
<1> QED
  BY <1>2, <1>3, <1>4, <1>5

LEMMA Entered ==
  ASSUME FlowInv, NEW b, b \in LiveBlocks
  PROVE  Place(b, 1) /\ Passes(Start(b), Here(b, 1))
<1>1. PICK i \in 1 .. Len(layout) :
        /\ b = layout[i] /\ Statements(b) \in Seq(Quads) /\ Len(Statements(b)) \in Nat
        /\ b = EXIT => Len(Statements(b)) = 0
        /\ b # EXIT => /\ i \in 1 .. Len(layout) - 1 /\ i + 1 \in 1 .. Len(layout)
                       /\ Next_(b) = layout[i + 1] /\ Covered(i)
                       /\ Linked(Statements(b), Start(b), Start(layout[i + 1]))
  BY LiveAt
<1>2. Place(b, 1)
  <2>1. 1 \in 1 .. Len(Statements(b)) + 1
    BY <1>1
  <2>2. ASSUME 1 = Len(Statements(b)) + 1 PROVE Falls(Statements(b))
    <3>1. Statements(b) = <<>>
      BY <1>1, <2>2
    <3> QED
      BY <3>1 DEF Falls, EndsWith
  <2> QED
    BY <2>1, <2>2 DEF Place
<1>3. CASE b = EXIT
  <2>1. Here(b, 1) = Len(program) + 1 /\ Start(b) = Len(program) + 1
    <3>1. Here(b, 1) = Len(program) + 1
      BY <1>1, <1>3 DEF Here, Behind
    <3>2. Start(EXIT) = Len(program) + 1
      BY DEF Start, ENTRY, EXIT
    <3> QED
      BY <1>3, <3>1, <3>2
  <2>2. Len(program) + 1 \in Positions /\ Types
    BY ListTypes DEF FlowInv, IInv, Positions
  <2> QED
    BY <1>2, <2>1, <2>2, PassesFacts
<1>4. CASE b # EXIT
  <2>1. Here(b, 1) = Behind(Statements(b), 1, Start(layout[i + 1]))
    BY <1>1, <1>4 DEF Here
  <2> QED
    BY <1>1, <1>2, <1>4, <2>1 DEF Linked
<1> QED
  BY <1>3, <1>4

(* Behind the last quadruple control falls through to the next block.      *)
LEMMA Ended ==
  ASSUME FlowInv, NEW b, NEW x, Place(b, x), x > Len(Statements(b)), b # EXIT
  PROVE  \E i \in 1 .. Len(layout) - 1 :
           /\ b = layout[i] /\ Next_(b) = layout[i + 1] /\ Place(layout[i + 1], 1)
           /\ Here(b, x) = Start(layout[i + 1])
           /\ Passes(Here(b, x), Here(layout[i + 1], 1))
<1>1. b \in LiveBlocks
  BY DEF Place
<1>2. PICK i \in 1 .. Len(layout) :
        /\ b = layout[i] /\ Len(Statements(b)) \in Nat
        /\ i \in 1 .. Len(layout) - 1 /\ i + 1 \in 1 .. Len(layout)
        /\ Next_(b) = layout[i + 1] /\ Covered(i)
  BY <1>1, LiveAt
<1>3. x \in Int /\ x = Len(Statements(b)) + 1 /\ ~(x <= Len(Statements(b)))
  BY <1>2 DEF Place
<1>4. Edge(i, i + 1)
  BY <1>2, <1>3 DEF Place, Covered
<1>5. layout[i + 1] \in LiveBlocks
  BY <1>1, <1>2, <1>4, LiveFollows DEF FlowInv, IInv
<1>6. Here(b, x) = Start(layout[i + 1])
  BY <1>2, <1>3 DEF Here, Behind
<1> QED
  BY <1>2, <1>5, <1>6, Entered

LEMMA QuadAt ==
  ASSUME FlowInv, NEW b, NEW x, Place(b, x), x <= Len(Statements(b))
  PROVE  /\ b \in 1 .. Len(code) /\ b # EXIT /\ b > 0 /\ Statements(b) = code[b]
         /\ x \in 1 .. Len(code[b]) /\ Len(code[b]) \in Nat
         /\ code[b][x] \in Quads /\ Stands(code[b][x])
         /\ code[b][x].id \in 1 .. Len(program) /\ Here(b, x) = code[b][x].id
<1>1. Types /\ Arranged /\ b \in Live
  BY LeastLive DEF LiveIsLeast, FlowInv, IInv, Place
<1>2. x \in 1 .. Len(Statements(b)) /\ Len(Statements(b)) \in Nat /\ x \in DOMAIN Statements(b)
  <2>1. Statements(b) \in Seq(Quads)
    BY LiveAt DEF Place
  <2> QED
    BY <2>1 DEF Place
<1>3. /\ b \in 1 .. Len(code) /\ b > 0 /\ Statements(b) = code[b]
      /\ x \in 1 .. Len(code[b]) /\ code[b][x] \in Quads
  BY <1>1, <1>2, StatementAt
<1>4. Stands(code[b][x])
  BY <1>3 DEF FlowInv, Standing
<1>5. b # EXIT
  BY <1>3 DEF EXIT
<1>6. code[b][x].id \in 1 .. Len(program)
  BY <1>3 DEF Quads
<1>7. Here(b, x) = code[b][x].id
  BY <1>3 DEF Here, Behind
<1> QED
  BY <1>2, <1>3, <1>4, <1>5, <1>6, <1>7

LEMMA Onward ==
  ASSUME FlowInv, NEW b, NEW x, Place(b, x), x <= Len(Statements(b)),
         code[b][x].op # "goto"
  PROVE  Place(b, x + 1) /\ Passes(code[b][x].id + 1, Here(b, x + 1))
<1>1. /\ b \in 1 .. Len(code) /\ b # EXIT /\ Statements(b) = code[b]
      /\ x \in 1 .. Len(code[b]) /\ Len(code[b]) \in Nat
  BY QuadAt
<1>2. PICK i \in 1 .. Len(layout) :
        /\ b = layout[i] /\ Statements(b) \in Seq(Quads) /\ Next_(b) = layout[i + 1]
        /\ Linked(Statements(b), Start(b), Start(layout[i + 1]))
  BY <1>1, LiveAt DEF Place
<1>3. Place(b, x + 1)
  <2>1. x + 1 \in 1 .. Len(code[b]) + 1
    BY <1>1
  <2>2. ASSUME x + 1 = Len(code[b]) + 1 PROVE Falls(code[b])
    <3>1. x = Len(code[b])
      BY <1>1, <2>2
    <3>2. Last(code[b]) = code[b][x]
      BY <3>1 DEF Last
    <3> QED
      BY <3>2 DEF Falls, EndsWith
  <2> QED
    BY <1>1, <2>1, <2>2 DEF Place
<1>4. Here(b, x + 1) = Behind(code[b], x + 1, Start(layout[i + 1]))
  BY <1>1, <1>2 DEF Here
<1>5. Passes(code[b][x].id + 1, Behind(code[b], x + 1, Start(layout[i + 1])))
  BY <1>1, <1>2 DEF Linked
<1> QED
  BY <1>3, <1>4, <1>5

LEMMA Jumped ==
  ASSUME FlowInv, NEW b, NEW x, Place(b, x), x <= Len(Statements(b)),
         code[b][x].op \in Jumps
  PROVE  Place(code[b][x].target, 1)
         /\ Passes(Jump(code[b][x].id), Here(code[b][x].target, 1))
<1>1. /\ b \in 1 .. Len(code) /\ b # EXIT /\ Statements(b) = code[b]
      /\ x \in 1 .. Len(code[b]) /\ Len(code[b]) \in Nat
      /\ code[b][x] \in Quads /\ Stands(code[b][x])
  BY QuadAt
<1>2. PICK i \in 1 .. Len(layout) : b = layout[i] /\ Covered(i)
  BY <1>1, LiveAt DEF Place
<1>3. PICK t \in 1 .. Len(code) : t = code[b][x].target /\ x = Len(code[b])
  BY <1>1 DEF FlowInv, IInv, JumpsLast
<1>4. Last(code[b]) = code[b][x] /\ Leaps(code[b])
  <2>1. Last(code[b]) = code[b][x] /\ code[b] # <<>>
    BY <1>1, <1>3 DEF Last
  <2> QED
    BY <2>1 DEF Leaps, EndsWith
<1>5. edges[b][t] > 0
  BY <1>1, <1>2, <1>3, <1>4 DEF Covered
<1>6. t \in Live
  <2>1. b \in Blocks /\ t \in Blocks
    BY <1>1 DEF Blocks
  <2> QED
    BY <1>5, <2>1 DEF FlowInv, IInv, EdgesStay
<1>7. PICK j \in 1 .. Len(layout) : t = layout[j]
  BY <1>6, LayoutFacts DEF FlowInv, IInv
<1>8. t \in LiveBlocks
  <2>1. Edge(i, j) /\ layout[i] \in LiveBlocks
    BY <1>2, <1>5, <1>7 DEF Edge, Place
  <2> QED
    BY <1>7, <2>1, LiveFollows DEF FlowInv, IInv
<1>9. Start(t) = Jump(code[b][x].id)
  BY <1>1, <1>3 DEF Stands
<1> QED
  BY <1>3, <1>8, <1>9, Entered

(* A silent quadruple does what the one of the list does.                  *)
LEMMA SilentStep ==
  ASSUME FlowInv, NEW b, NEW x, Place(b, x), x <= Len(Statements(b)),
         BlockSilent(<<b, x>>)
  PROVE  /\ ListSilent(code[b][x].id)
         /\ \E c, y : /\ BlockStep(<<b, x>>) = <<c, y>> /\ Place(c, y)
                      /\ Passes(ListStep(code[b][x].id), Here(c, y))
<1>1. /\ b \in 1 .. Len(code) /\ b # EXIT /\ Statements(b) = code[b]
      /\ x \in 1 .. Len(code[b]) /\ Len(code[b]) \in Nat
      /\ code[b][x] \in Quads /\ Stands(code[b][x])
      /\ code[b][x].id \in 1 .. Len(program)
  BY QuadAt
<1>2. PICK q \in Quads : q = code[b][x]
  BY <1>1
<1>3. PICK i \in 1 .. Len(program) : i = q.id
  BY <1>1, <1>2
<1>4. /\ ~(x > Len(Statements(b)))
      /\ q.op \in {"nop", "goto"} \/ facts[i] # "var"
  <2>1. ~(x > Len(Statements(b)))
    BY <1>1
  <2> QED
    BY <1>2, <1>3, <2>1 DEF BlockSilent
<1>5. /\ BlockStep(<<b, x>>) =
           IF q.op = "goto" \/ (q.op \in {"if", "if_false"} /\ Taken(q, facts[i]))
           THEN <<q.target, 1>> ELSE <<b, x + 1>>
  BY <1>2, <1>3, <1>4 DEF BlockStep
<1>6. i <= Len(program)
  <2>1. Len(program) \in Nat
    BY ListTypes DEF FlowInv, IInv
  <2> QED
    BY <2>1
<1>7. ListSilent(i)
  <2>1. CASE q.op = "goto"
    BY <1>1, <1>2, <1>3, <2>1 DEF Stands
  <2>2. CASE q.op # "goto"
    <3>1. facts[i] # "var"
      BY <1>1, <1>2, <1>3, <1>4, <2>2 DEF Stands
    <3> QED
      BY <1>6, <3>1 DEF ListSilent
  <2> QED
    BY <2>1, <2>2
<1>8. CASE q.op = "goto" \/ (q.op \in {"if", "if_false"} /\ Taken(q, facts[i]))
  <2>1. q.op \in Jumps
    BY <1>8 DEF Jumps
  <2>2. ListStep(i) = Jump(i)
    <3>1. CASE q.op = "goto"
      BY <1>1, <1>2, <1>3, <3>1 DEF Stands
    <3>2. CASE q.op \in {"if", "if_false"} /\ Taken(q, facts[i])
      <4>1. program[i].op = q.op
        BY <1>1, <1>2, <1>3, <3>2 DEF Stands
      <4> QED
        BY <3>2, <4>1 DEF ListStep, Taken
    <3> QED
      BY <1>8, <3>1, <3>2
  <2>3. Place(q.target, 1) /\ Passes(Jump(i), Here(q.target, 1))
    BY <1>2, <1>3, <2>1, Jumped
  <2> QED
    BY <1>2, <1>3, <1>5, <1>7, <1>8, <2>2, <2>3
<1>9. CASE ~(q.op = "goto" \/ (q.op \in {"if", "if_false"} /\ Taken(q, facts[i])))
  <2>1. ListStep(i) = i + 1
    <3>1. CASE q.op = "nop"
      BY <1>1, <1>2, <1>3, <3>1 DEF Stands
    <3>2. CASE q.op # "nop"
      <4>1. program[i].op = q.op
        BY <1>1, <1>2, <1>3, <1>9, <3>2 DEF Stands
      <4> QED
        BY <1>9, <4>1 DEF ListStep, Taken
    <3> QED
      BY <3>1, <3>2
  <2>2. Place(b, x + 1) /\ Passes(i + 1, Here(b, x + 1))
    BY <1>2, <1>3, <1>9, Onward
  <2> QED
    BY <1>2, <1>3, <1>5, <1>7, <1>9, <2>1, <2>2
<1> QED
  BY <1>8, <1>9

(* And so does one that is not silent.                                     *)
LEMMA LoudQuad ==
  ASSUME FlowInv, NEW b, NEW x, Place(b, x), ~BlockSilent(<<b, x>>), b # EXIT
  PROVE  /\ x <= Len(Statements(b)) /\ ~ListSilent(code[b][x].id)
         /\ program[code[b][x].id].op = code[b][x].op
         /\ code[b][x].op \notin {"nop", "goto"}
<1>1. b \in Live \ {EXIT}
  BY LeastLive DEF LiveIsLeast, FlowInv, IInv, Place
<1>2. /\ ~(x > Len(Statements(b)))
      /\ code[b][x].op \notin {"nop", "goto"} /\ facts[code[b][x].id] = "var"
  BY <1>1 DEF BlockSilent
<1>3. x <= Len(Statements(b))
  <2>1. Len(Statements(b)) \in Nat
    BY LiveAt DEF Place
  <2> QED
    BY <1>2, <2>1 DEF Place
<1>4. Stands(code[b][x])
  BY <1>3, QuadAt
<1>5. program[code[b][x].id].op = code[b][x].op /\ program[code[b][x].id].op # "label"
  BY <1>2, <1>4 DEF Stands
<1>6. ~ListSilent(code[b][x].id)
  BY <1>2, <1>5 DEF ListSilent
<1> QED
  BY <1>2, <1>3, <1>5, <1>6

-----------------------------------------------------------------------------
(* What the blocks do, as a walk.                                          *)
PlaceSet == {k \in LiveBlocks \X Nat : Place(k[1], k[2])}
SilentPlaces == {k \in PlaceSet : BlockSilent(k)}
BlockSteps == [k \in SilentPlaces |-> BlockStep(k)]
HereAt(k) == Here(k[1], k[2])

LEMMA PlacesAre ==
  ASSUME FlowInv
  PROVE  /\ \A b, x : Place(b, x) => <<b, x>> \in PlaceSet
         /\ \A k \in PlaceSet : k = <<k[1], k[2]>> /\ Place(k[1], k[2]) /\ HereAt(k) \in Positions
<1>1. ASSUME NEW b, NEW x, Place(b, x) PROVE <<b, x>> \in PlaceSet
  <2>1. b \in LiveBlocks /\ Len(Statements(b)) \in Nat
    BY <1>1, LiveAt DEF Place
  <2>2. x \in Nat
    BY <1>1, <2>1 DEF Place
  <2> QED
    BY <1>1, <2>1, <2>2 DEF PlaceSet
<1>2. ASSUME NEW k \in PlaceSet
      PROVE  k = <<k[1], k[2]>> /\ Place(k[1], k[2]) /\ HereAt(k) \in Positions
  <2>1. PICK b, x : k = <<b, x>> /\ b = k[1] /\ x = k[2] /\ Place(b, x)
    BY DEF PlaceSet
  <2>2. Here(b, x) \in Positions
    <3>1. Types /\ Len(program) \in Nat
      BY ListTypes DEF FlowInv, IInv
    <3>2. CASE x <= Len(Statements(b))
      <4>1. Here(b, x) \in 1 .. Len(program)
        BY <2>1, <3>2, QuadAt
      <4> QED
        BY <3>1, <4>1 DEF Positions
    <3>3. CASE ~(x <= Len(Statements(b))) /\ b = EXIT
      <4>1. Here(b, x) = Len(program) + 1
        BY <3>3 DEF Here, Behind
      <4> QED
        BY <3>1, <4>1 DEF Positions
    <3>4. CASE ~(x <= Len(Statements(b))) /\ b # EXIT
      <4>1. x > Len(Statements(b))
        <5>1. b \in LiveBlocks /\ Len(Statements(b)) \in Nat
          BY <2>1, LiveAt DEF Place
        <5> QED
          BY <2>1, <3>4, <5>1 DEF Place
      <4> QED
        BY <2>1, <3>4, <4>1, Ended DEF Passes
    <3> QED
      BY <3>2, <3>3, <3>4
  <2> QED
    BY <2>1, <2>2 DEF HereAt
<1> QED
  BY <1>1, <1>2

LEMMA Simulated ==
  ASSUME FlowInv, NEW k \in SilentPlaces
  PROVE  BlockStep(k) \in PlaceSet /\ Passes(HereAt(k), HereAt(BlockStep(k)))
<1>1. PICK b, x : k = <<b, x>> /\ Place(b, x) /\ BlockSilent(<<b, x>>) /\ HereAt(k) = Here(b, x)
  <2>1. k \in PlaceSet /\ BlockSilent(k)
    BY DEF SilentPlaces
  <2>2. k = <<k[1], k[2]>> /\ Place(k[1], k[2]) /\ HereAt(k) = Here(k[1], k[2])
    BY <2>1, PlacesAre DEF HereAt
  <2> QED
    BY <2>1, <2>2
<1>2. Types
  BY DEF FlowInv, IInv
<1>3. CASE x <= Len(Statements(b))
  <2>1. PICK c, y : /\ BlockStep(<<b, x>>) = <<c, y>> /\ Place(c, y)
                    /\ Passes(ListStep(code[b][x].id), Here(c, y))
    BY <1>1, <1>3, SilentStep
  <2>2. ListSilent(code[b][x].id) /\ Here(b, x) = code[b][x].id /\ code[b][x].id \in Positions
    <3>1. ListSilent(code[b][x].id)
      BY <1>1, <1>3, SilentStep
    <3>2. Here(b, x) = code[b][x].id /\ code[b][x].id \in 1 .. Len(program)
      BY <1>1, <1>3, QuadAt
    <3> QED
      BY <1>2, <3>1, <3>2, ListTypes DEF Positions
  <2>3. Passes(Here(b, x), Here(c, y))
    BY <1>2, <2>1, <2>2, PassesFacts
  <2>4. <<c, y>> \in PlaceSet /\ HereAt(<<c, y>>) = Here(c, y)
    BY <2>1, PlacesAre DEF HereAt
  <2> QED
    BY <1>1, <2>1, <2>3, <2>4
<1>4. CASE ~(x <= Len(Statements(b)))
  <2>1. x > Len(Statements(b)) /\ b # EXIT
    <3>1. b \in LiveBlocks /\ Len(Statements(b)) \in Nat
      BY <1>1, LiveAt DEF Place
    <3>2. x \in Int
      BY <1>1, <3>1 DEF Place
    <3> QED
      BY <1>1, <1>4, <3>1, <3>2 DEF BlockSilent
  <2>2. PICK i \in 1 .. Len(layout) - 1 :
           /\ Next_(b) = layout[i + 1] /\ Place(layout[i + 1], 1)
           /\ Passes(Here(b, x), Here(layout[i + 1], 1))
    BY <1>1, <2>1, Ended
  <2>3. PICK c : c = layout[i + 1]
    OBVIOUS
  <2>4. BlockStep(<<b, x>>) = <<c, 1>>
    BY <2>1, <2>2, <2>3 DEF BlockStep
  <2>5. <<c, 1>> \in PlaceSet /\ HereAt(<<c, 1>>) = Here(c, 1)
    BY <2>2, <2>3, PlacesAre DEF HereAt
  <2> QED
    BY <1>1, <2>2, <2>3, <2>4, <2>5
<1> QED
  BY <1>3, <1>4

(* There are fewer places than the walk is long.                           *)
LEMMA SilentPlacesCount ==
  ASSUME FlowInv
  PROVE  IsFiniteSet(SilentPlaces) /\ Cardinality(SilentPlaces) <= 4 * Len(program) + 2
<1>1. PICK n \in Nat : n = Len(program) /\ Len(code) <= n /\ Len(code) \in Nat
  <2>1. Len(program) \in Nat /\ Len(code) \in Nat
    BY ListTypes DEF FlowInv, IInv, Types
  <2> QED
    BY <2>1 DEF FlowInv, Few
<1> DEFINE num(k) == IF k[2] <= Len(Statements(k[1])) THEN code[k[1]][k[2]].id ELSE n + 2 + k[1]
           f == [k \in SilentPlaces |-> num(k)]
           T == 1 .. 2 * n + 2
<1>2. ASSUME NEW k \in SilentPlaces
      PROVE  /\ k = <<k[1], k[2]>> /\ Place(k[1], k[2])
             /\ k[2] <= Len(Statements(k[1])) =>
                  /\ k[1] \in 1 .. Len(code) /\ k[2] \in 1 .. Len(code[k[1]])
                  /\ num(k) = code[k[1]][k[2]].id /\ num(k) \in 1 .. n
             /\ ~(k[2] <= Len(Statements(k[1]))) =>
                  /\ k[2] = Len(Statements(k[1])) + 1
                  /\ num(k) = n + 2 + k[1] /\ num(k) \in n + 1 .. 2 * n + 2 /\ k[1] \in Int
  <2>1. PICK b, x : k = <<b, x>> /\ b = k[1] /\ x = k[2] /\ Place(b, x) /\ BlockSilent(<<b, x>>)
    <3>1. k \in PlaceSet /\ BlockSilent(k)
      BY DEF SilentPlaces
    <3>2. k = <<k[1], k[2]>> /\ Place(k[1], k[2])
      BY <3>1, PlacesAre
    <3> QED
      BY <3>1, <3>2
  <2>2. ASSUME x <= Len(Statements(b))
        PROVE  /\ b \in 1 .. Len(code) /\ x \in 1 .. Len(code[b])
               /\ num(k) = code[b][x].id /\ num(k) \in 1 .. n
    BY <1>1, <2>1, <2>2, QuadAt
  <2>3. ASSUME ~(x <= Len(Statements(b)))
        PROVE  /\ x = Len(Statements(b)) + 1
               /\ num(k) = n + 2 + b /\ num(k) \in n + 1 .. 2 * n + 2 /\ b \in Int
    <3>1. b \in LiveBlocks /\ Len(Statements(b)) \in Nat
      BY <2>1, LiveAt DEF Place
    <3>2. x = Len(Statements(b)) + 1
      BY <2>1, <2>3, <3>1 DEF Place
    <3>3. b \in Blocks /\ b # EXIT
      <4>1. PICK i \in 1 .. Len(layout) : b = layout[i]
        BY <3>1, LiveAt
      <4> QED
        BY <2>1, <4>1, LayoutFacts DEF FlowInv, IInv, BlockSilent
    <3>4. b \in 1 .. n \/ b = -1
      BY <1>1, <3>3 DEF Blocks, ENTRY
    <3>5. num(k) = n + 2 + b
      BY <2>1, <2>3
    <3> HIDE DEF num
    <3> QED
      BY <1>1, <3>2, <3>4, <3>5
  <2> HIDE DEF num
  <2> QED
    BY <2>1, <2>2, <2>3
<1> HIDE DEF num
<1>3. f \in [SilentPlaces -> T]
  <2>1. ASSUME NEW k \in SilentPlaces PROVE num(k) \in T
    <3>1. num(k) \in 1 .. n \/ num(k) \in n + 1 .. 2 * n + 2
      BY <1>2
    <3> QED
      BY <1>1, <3>1
  <2> QED
    BY <2>1
<1>4. ASSUME NEW k \in SilentPlaces, NEW l \in SilentPlaces, num(k) = num(l)
      PROVE  k = l
  <2>1. CASE k[2] <= Len(Statements(k[1])) /\ l[2] <= Len(Statements(l[1]))
    <3>1. PICK b \in 1 .. Len(code) : b = k[1]
      BY <1>2, <2>1
    <3>2. PICK c \in 1 .. Len(code) : c = l[1]
      BY <1>2, <2>1
    <3>3. PICK x \in 1 .. Len(code[b]) : x = k[2]
      BY <1>2, <2>1, <3>1
    <3>4. PICK y \in 1 .. Len(code[c]) : y = l[2]
      BY <1>2, <2>1, <3>2
    <3>5. code[b][x].id = code[c][y].id
      BY <1>2, <1>4, <2>1, <3>1, <3>2, <3>3, <3>4
    <3>6. b = c /\ x = y
      BY <3>5 DEF FlowInv, Once
    <3> QED
      BY <1>2, <3>1, <3>2, <3>3, <3>4, <3>6
  <2>2. CASE ~(k[2] <= Len(Statements(k[1]))) /\ ~(l[2] <= Len(Statements(l[1])))
    <3>1. k[1] = l[1]
      <4>1. n + 2 + k[1] = n + 2 + l[1] /\ k[1] \in Int /\ l[1] \in Int
        BY <1>2, <1>4, <2>2
      <4> QED
        BY <4>1
    <3>2. k[2] = l[2]
      BY <1>2, <2>2, <3>1
    <3> QED
      BY <1>2, <3>1, <3>2
  <2>3. CASE k[2] <= Len(Statements(k[1])) /\ ~(l[2] <= Len(Statements(l[1])))
    <3>1. num(k) \in 1 .. n /\ num(l) \in n + 1 .. 2 * n + 2
      BY <1>2, <2>3
    <3> QED
      BY <1>4, <3>1
  <2>4. CASE ~(k[2] <= Len(Statements(k[1]))) /\ l[2] <= Len(Statements(l[1]))
    <3>1. num(l) \in 1 .. n /\ num(k) \in n + 1 .. 2 * n + 2
      BY <1>2, <2>4
    <3> QED
      BY <1>4, <3>1
  <2> QED
    BY <2>1, <2>2, <2>3, <2>4
<1>5. f \in Injection(SilentPlaces, T)
  <2>1. \A k, l \in SilentPlaces : f[k] = f[l] => k = l
    BY <1>4
  <2> HIDE DEF f, T
  <2> QED
    BY <1>3, <2>1 DEF Injection, IsInjective
<1>6. IsFiniteSet(T) /\ Cardinality(T) = 2 * n + 2
  <2>1. PICK m \in Nat : m = 2 * n + 2
    OBVIOUS
  <2>2. IsFiniteSet(1 .. m) /\ Cardinality(1 .. m) = IF 1 > m THEN 0 ELSE m - 1 + 1
    BY FS_Interval
  <2> QED
    BY <2>1, <2>2
<1> HIDE DEF f, T
<1>7. IsFiniteSet(SilentPlaces) /\ Cardinality(SilentPlaces) <= 2 * n + 2
  BY <1>5, <1>6, FS_Injection
<1>8. Cardinality(SilentPlaces) \in Nat
  BY <1>7, FS_CardinalityType
<1> QED
  BY <1>1, <1>7, <1>8

BlockSettled(k) == Settle(BlockSilent, BlockStep, k, 4 * Len(program) + 2)

LEMMA BlockTypes ==
  ASSUME FlowInv
  PROVE  /\ 4 * Len(program) + 2 \in Nat
         /\ SilentPlaces \in SUBSET PlaceSet
         /\ BlockSteps \in [SilentPlaces -> PlaceSet]
         /\ \A k \in SilentPlaces : BlockSteps[k] = BlockStep(k)
<1>1. \A k \in SilentPlaces : BlockStep(k) \in PlaceSet
  BY Simulated
<1>2. BlockSteps = [k \in SilentPlaces |-> BlockStep(k)]
  BY DEF BlockSteps
<1>3. SilentPlaces \in SUBSET PlaceSet
  BY DEF SilentPlaces
<1>4. Len(program) \in Nat
  BY ListTypes DEF FlowInv, IInv
<1> QED
  BY <1>1, <1>2, <1>3, <1>4

LEMMA BlockWalk ==
  ASSUME FlowInv, NEW i \in PlaceSet
  PROVE  \E f : /\ Walk(f, 4 * Len(program) + 2, PlaceSet, i, SilentPlaces, BlockSteps)
                /\ BlockSettled(i) = f[4 * Len(program) + 2]
<1> DEFINE m == 4 * Len(program) + 2
           Solves(f) == f = [k \in 0 .. m |->
                               IF k = 0 THEN i
                               ELSE IF BlockSilent(f[k - 1]) THEN BlockStep(f[k - 1]) ELSE f[k - 1]]
           end == CHOOSE f : Solves(f)
<1>1. m \in Nat
  BY BlockTypes
<1>2. BlockSettled(i) = end[m]
  BY DEF BlockSettled, Settle
<1> HIDE DEF m
<1>3. PICK f : Walk(f, m, PlaceSet, i, SilentPlaces, BlockSteps)
  BY <1>1, BlockTypes, WalkExists
<1>4. /\ f \in [0 .. m -> PlaceSet] /\ f[0] = i
      /\ \A k \in 1 .. m :
           f[k] = IF f[k - 1] \in SilentPlaces THEN BlockSteps[f[k - 1]] ELSE f[k - 1]
  BY <1>3 DEF Walk
<1>5. \A k \in 1 .. m :
        f[k] = IF BlockSilent(f[k - 1]) THEN BlockStep(f[k - 1]) ELSE f[k - 1]
  <2>1. ASSUME NEW k \in 1 .. m
        PROVE  f[k] = IF BlockSilent(f[k - 1]) THEN BlockStep(f[k - 1]) ELSE f[k - 1]
    <3>1. f[k - 1] \in PlaceSet
      BY <1>1, <1>4
    <3>2. f[k - 1] \in SilentPlaces <=> BlockSilent(f[k - 1])
      BY <3>1 DEF SilentPlaces
    <3>3. f[k - 1] \in SilentPlaces => BlockSteps[f[k - 1]] = BlockStep(f[k - 1])
      BY BlockTypes
    <3> QED
      BY <1>4, <3>2, <3>3
  <2> QED
    BY <2>1
<1>6. Solves(f)
  <2>1. f = [k \in 0 .. m |-> f[k]]
    BY <1>4
  <2>2. \A k \in 0 .. m : k = 0 \/ k \in 1 .. m
    BY <1>1
  <2> QED
    BY <1>4, <1>5, <2>1, <2>2
<1>7. Solves(end)
  <2> HIDE DEF Solves
  <2> QED
    BY <1>6
<1> HIDE DEF end
<1>8. \A k \in 0 .. m : end[k] = IF k = 0 THEN i
                                 ELSE IF BlockSilent(end[k - 1]) THEN BlockStep(end[k - 1]) ELSE end[k - 1]
  BY <1>7
<1> HIDE DEF Solves
<1>9. end[m] = f[m]
  <2> DEFINE U == {k \in Nat : k <= m => end[k] = f[k]}
  <2>1. 0 \in U
    BY <1>1, <1>4, <1>8
  <2>2. ASSUME NEW k \in Nat, k \in U PROVE k + 1 \in U
    <3> SUFFICES ASSUME k + 1 <= m PROVE end[k + 1] = f[k + 1]
      OBVIOUS
    <3>1. k + 1 \in 1 .. m /\ k + 1 \in 0 .. m /\ (k + 1) - 1 = k /\ k + 1 # 0 /\ end[k] = f[k]
      BY <1>1, <2>2
    <3> QED
      BY <1>5, <1>8, <3>1
  <2> HIDE DEF U
  <2>3. Nat \subseteq U
    BY <2>1, <2>2, UpwardInduction
  <2> QED
    BY <1>1, <2>3 DEF U
<1> QED
  BY <1>2, <1>3, <1>9 DEF m

(* Silent places that are never left: the list does nothing there either.  *)
QuadPlace(t) == t[2] <= Len(Statements(t[1]))

LEMMA TurnsQuad ==
  ASSUME FlowInv, NEW T \in SUBSET SilentPlaces, \A t \in T : BlockStep(t) \in T,
         NEW k \in T
  PROVE  \E t \in T : QuadPlace(t) /\ Passes(HereAt(k), HereAt(t))
<1> DEFINE Goal(u) == \E t \in T : QuadPlace(t) /\ Passes(HereAt(u), HereAt(t))
           n == Len(layout)
           U == {h \in Nat : \A i \in 1 .. n : \A u \in T :
                              i + h >= n /\ u[1] = layout[i] => Goal(u)}
<1>1. Types /\ Arranged /\ n \in Nat
  BY LayoutFacts DEF FlowInv, IInv
<1>2. ASSUME NEW u \in T PROVE /\ u = <<u[1], u[2]>> /\ Place(u[1], u[2]) /\ u[1] # EXIT
                               /\ HereAt(u) \in Positions
  <2>1. u \in PlaceSet /\ BlockSilent(u)
    BY DEF SilentPlaces
  <2> QED
    BY <2>1, PlacesAre DEF BlockSilent
<1>3. ASSUME NEW u \in T, QuadPlace(u) PROVE Goal(u)
  BY <1>1, <1>2, <1>3, PassesFacts
<1>4. ASSUME NEW u \in T, ~QuadPlace(u)
      PROVE  \E i \in 1 .. n - 1 : /\ u[1] = layout[i] /\ <<layout[i + 1], 1>> \in T
                                   /\ Passes(HereAt(u), HereAt(<<layout[i + 1], 1>>))
  <2>1. PICK b, x : u = <<b, x>> /\ b = u[1] /\ x = u[2] /\ Place(b, x) /\ b # EXIT
    BY <1>2
  <2>2. x > Len(Statements(b))
    <3>1. b \in LiveBlocks /\ Len(Statements(b)) \in Nat
      BY <2>1, LiveAt DEF Place
    <3>2. x \in Int
      BY <2>1, <3>1 DEF Place
    <3> QED
      BY <1>4, <2>1, <3>1, <3>2 DEF QuadPlace
  <2>3. PICK i \in 1 .. n - 1 :
           /\ b = layout[i] /\ Next_(b) = layout[i + 1]
           /\ Passes(Here(b, x), Here(layout[i + 1], 1))
    BY <2>1, <2>2, Ended
  <2>4. BlockStep(u) = <<layout[i + 1], 1>>
    BY <2>1, <2>2, <2>3 DEF BlockStep
  <2>5. HereAt(u) = Here(b, x) /\ HereAt(<<layout[i + 1], 1>>) = Here(layout[i + 1], 1)
    BY <2>1 DEF HereAt
  <2>6. <<layout[i + 1], 1>> \in T
    BY <2>4
  <2> QED
    BY <2>1, <2>3, <2>5, <2>6
<1> HIDE DEF Goal
<1>5. 0 \in U
  <2>1. ASSUME NEW i \in 1 .. n, NEW u \in T, i + 0 >= n, u[1] = layout[i] PROVE FALSE
    <3>1. i = n
      BY <1>1, <2>1
    <3> QED
      BY <1>1, <1>2, <2>1, <3>1 DEF Arranged
  <2> QED
    BY <2>1
<1>6. ASSUME NEW h \in Nat, h \in U PROVE h + 1 \in U
  <2>1. ASSUME NEW i \in 1 .. n, NEW u \in T, i + (h + 1) >= n, u[1] = layout[i] PROVE Goal(u)
    <3>1. CASE QuadPlace(u)
      BY <1>3, <3>1
    <3>2. CASE ~QuadPlace(u)
      <4>1. PICK j \in 1 .. n - 1 : /\ u[1] = layout[j] /\ <<layout[j + 1], 1>> \in T
                                    /\ Passes(HereAt(u), HereAt(<<layout[j + 1], 1>>))
        BY <1>4, <3>2
      <4>2. j \in 1 .. n /\ j + 1 \in 1 .. n
        BY <1>1
      <4>3. i = j
        BY <1>1, <2>1, <4>1, <4>2 DEF Arranged
      <4>4. (j + 1) + h >= n
        BY <1>1, <2>1, <4>3
      <4>5. PICK v \in T : v = <<layout[j + 1], 1>> /\ v[1] = layout[j + 1]
        BY <4>1
      <4>6. Goal(v)
        BY <1>6, <4>2, <4>4, <4>5
      <4>7. PICK t \in T : QuadPlace(t) /\ Passes(HereAt(v), HereAt(t))
        BY <4>6 DEF Goal
      <4>8. Passes(HereAt(u), HereAt(t))
        BY <1>1, <4>1, <4>5, <4>7, PassesFacts
      <4> QED
        BY <4>7, <4>8 DEF Goal
    <3> QED
      BY <3>1, <3>2
  <2> QED
    BY <2>1
<1> HIDE DEF U
<1>7. n \in U
  BY <1>1, <1>5, <1>6, UpwardInduction
<1>8. PICK i \in 1 .. n : k[1] = layout[i]
  <2>1. k[1] \in LiveBlocks
    BY <1>2 DEF Place
  <2> QED
    BY <2>1, LiveAt
<1>9. i + n >= n
  BY <1>1
<1>10. Goal(k)
  BY <1>7, <1>8, <1>9 DEF U
<1> QED
  BY <1>10 DEF Goal

LEMMA BlocksTurn ==
  ASSUME FlowInv, NEW T \in SUBSET SilentPlaces, \A t \in T : BlockStep(t) \in T,
         NEW k \in T
  PROVE  ListNext(HereAt(k)) = -1
<1> DEFINE S == {i \in Positions : \E t \in T : QuadPlace(t) /\ Passes(i, HereAt(t))}
<1>1. Types
  BY DEF FlowInv, IInv
<1>2. ASSUME NEW t \in T, QuadPlace(t)
      PROVE  ListSilent(HereAt(t)) /\ ListStep(HereAt(t)) \in S
  <2>1. PICK b, x : /\ t = <<b, x>> /\ b = t[1] /\ x = t[2] /\ Place(b, x) /\ BlockSilent(<<b, x>>)
    <3>1. t \in PlaceSet /\ BlockSilent(t)
      BY DEF SilentPlaces
    <3>2. t = <<t[1], t[2]>> /\ Place(t[1], t[2])
      BY <3>1, PlacesAre
    <3> QED
      BY <3>1, <3>2
  <2>2. x <= Len(Statements(b))
    BY <1>2, <2>1 DEF QuadPlace
  <2>3. HereAt(t) = code[b][x].id
    BY <2>1, <2>2, QuadAt DEF HereAt
  <2>4. ListSilent(code[b][x].id)
    BY <2>1, <2>2, SilentStep
  <2>5. PICK c, y : /\ BlockStep(<<b, x>>) = <<c, y>> /\ Place(c, y)
                    /\ Passes(ListStep(code[b][x].id), Here(c, y))
    BY <2>1, <2>2, SilentStep
  <2>6. PICK u \in T : u = <<c, y>> /\ HereAt(u) = Here(c, y)
    BY <2>1, <2>5 DEF HereAt
  <2>7. PICK v \in T : QuadPlace(v) /\ Passes(HereAt(u), HereAt(v))
    BY TurnsQuad
  <2>8. Passes(ListStep(code[b][x].id), HereAt(v))
    BY <1>1, <2>5, <2>6, <2>7, PassesFacts
  <2> QED
    BY <2>3, <2>4, <2>7, <2>8 DEF Passes
<1>3. ASSUME NEW i \in S PROVE ListSilent(i) /\ ListStep(i) \in S
  <2>1. PICK t \in T : QuadPlace(t) /\ Passes(i, HereAt(t))
    OBVIOUS
  <2>2. CASE i = HereAt(t)
    BY <1>2, <2>1, <2>2
  <2>3. CASE i # HereAt(t)
    <3>1. ListSilent(i) /\ Passes(ListStep(i), HereAt(t))
      BY <1>1, <2>1, <2>3, PassesFacts
    <3> QED
      BY <2>1, <3>1 DEF Passes
  <2> QED
    BY <2>2, <2>3
<1>4. HereAt(k) \in S
  BY TurnsQuad DEF Passes
<1>5. S \in SUBSET SilentPositions /\ S \in SUBSET Positions
  BY <1>3 DEF SilentPositions
<1> HIDE DEF S
<1> QED
  BY <1>1, <1>3, <1>4, <1>5, ListNextFacts

(* From a place of the blocks, and from the same place of the list, the    *)
(* next quadruple that does something is the same.                         *)
Outcome(i) ==
  \/ i \in {0, -1}
  \/ \E k \in PlaceSet : k[1] # EXIT /\ ~BlockSilent(k) /\ i = code[k[1]][k[2]].id

LEMMA SameNext ==
  ASSUME FlowInv, NEW k \in PlaceSet
  PROVE  BlockNext(k) = ListNext(HereAt(k)) /\ Outcome(ListNext(HereAt(k)))
<1> DEFINE m == 4 * Len(program) + 2
<1>1. m \in Nat /\ Types
  BY BlockTypes DEF FlowInv, IInv
<1>2. PICK f : Walk(f, m, PlaceSet, k, SilentPlaces, BlockSteps) /\ BlockSettled(k) = f[m]
  BY BlockWalk
<1>3. /\ SilentPlaces \in SUBSET PlaceSet /\ BlockSteps \in [SilentPlaces -> PlaceSet]
      /\ \A i \in SilentPlaces : BlockSteps[i] = BlockStep(i)
      /\ IsFiniteSet(SilentPlaces) /\ Cardinality(SilentPlaces) <= m
  BY BlockTypes, SilentPlacesCount
<1>4. BlockNext(k) = LET s == BlockSettled(k) IN
        CASE s[1] = EXIT -> 0 [] BlockSilent(s) -> -1
          [] s[1] \notin Live -> -2 [] OTHER -> code[s[1]][s[2]].id
  BY DEF BlockNext, BlockSettled
<1> HIDE DEF m
<1>5. PICK e \in PlaceSet : e = f[m]
  BY <1>1, <1>2 DEF Walk
<1>6. e[1] \in Live /\ (e[1] = EXIT => ~BlockSilent(e))
  <2>1. e[1] \in LiveBlocks
    BY PlacesAre DEF Place
  <2> QED
    BY <2>1, LeastLive DEF LiveIsLeast, BlockSilent, FlowInv, IInv
<1>7. BlockNext(k) = IF e[1] = EXIT THEN 0 ELSE IF BlockSilent(e) THEN -1 ELSE code[e[1]][e[2]].id
  BY <1>2, <1>4, <1>5, <1>6
<1>8. ListNext(HereAt(e)) = ListNext(HereAt(k))
  <2> DEFINE U == {j \in Nat : j <= m => ListNext(HereAt(f[j])) = ListNext(HereAt(k))}
  <2>1. 0 \in U
    BY <1>2 DEF Walk
  <2>2. ASSUME NEW j \in Nat, j \in U PROVE j + 1 \in U
    <3> SUFFICES ASSUME j + 1 <= m PROVE ListNext(HereAt(f[j + 1])) = ListNext(HereAt(k))
      OBVIOUS
    <3>1. j + 1 \in 1 .. m /\ (j + 1) - 1 = j /\ j <= m
      BY <1>1
    <3>2. f[j + 1] = IF f[j] \in SilentPlaces THEN BlockSteps[f[j]] ELSE f[j]
      BY <1>2, <3>1 DEF Walk
    <3>3. ASSUME NEW i \in SilentPlaces PROVE ListNext(HereAt(i)) = ListNext(HereAt(BlockStep(i)))
      BY <1>1, Simulated, PassesFacts
    <3> QED
      BY <1>3, <2>2, <3>1, <3>2, <3>3
  <2> HIDE DEF U
  <2>3. m \in U
    BY <1>1, <2>1, <2>2, UpwardInduction
  <2> QED
    BY <1>1, <1>5, <2>3 DEF U
<1>9. CASE BlockSilent(e)
  <2>1. e \in SilentPlaces
    BY <1>9 DEF SilentPlaces
  <2>2. PICK T \in SUBSET SilentPlaces : k \in T /\ \A x \in T : BlockSteps[x] \in T
    BY <1>1, <1>2, <1>3, <1>5, <2>1, WalkTurns
  <2>3. \A x \in T : BlockStep(x) \in T
    BY <1>3, <2>2
  <2>4. ListNext(HereAt(k)) = -1
    BY <2>2, <2>3, BlocksTurn
  <2> QED
    BY <1>6, <1>7, <1>9, <2>4 DEF Outcome
<1>10. CASE e[1] = EXIT
  <2>1. HereAt(e) = Len(program) + 1
    <3>1. Place(EXIT, e[2]) /\ EXIT \in LiveBlocks
      BY <1>10, PlacesAre DEF Place
    <3>2. Len(Statements(EXIT)) = 0
      BY <3>1, LiveAt
    <3>3. ~(e[2] <= Len(Statements(EXIT)))
      BY <3>1, <3>2 DEF Place
    <3> QED
      BY <1>10, <3>3 DEF HereAt, Here, Behind
  <2>2. Len(program) + 1 \in Positions
    BY <1>1, ListTypes DEF Positions
  <2>3. ListNext(HereAt(e)) = 0
    BY <1>1, <2>1, <2>2, ListNextFacts
  <2> QED
    BY <1>7, <1>8, <1>10, <2>3 DEF Outcome
<1>11. CASE e[1] # EXIT /\ ~BlockSilent(e)
  <2>1. PICK b, x : e = <<b, x>> /\ b = e[1] /\ x = e[2] /\ Place(b, x)
    BY PlacesAre
  <2>2. x <= Len(Statements(b)) /\ ~ListSilent(code[b][x].id)
    BY <1>11, <2>1, LoudQuad
  <2>3. HereAt(e) = code[b][x].id /\ code[b][x].id \in 1 .. Len(program)
    BY <2>1, <2>2, QuadAt DEF HereAt
  <2>4. code[b][x].id \in Positions
    BY <1>1, <2>3, ListTypes DEF Positions
  <2>5. ListNext(HereAt(e)) = code[b][x].id
    BY <1>1, <2>2, <2>3, <2>4, ListNextFacts
  <2> QED
    BY <1>7, <1>8, <1>11, <2>1, <2>5 DEF Outcome
<1> QED
  BY <1>9, <1>10, <1>11

LEMMA ToSetOf ==
  ASSUME NEW a, NEW b
  PROVE  ToSet(<<>>) = {} /\ ToSet(<<a>>) = {a} /\ ToSet(<<a, b>>) = {a, b}
<1>1. DOMAIN <<>> = {} /\ DOMAIN <<a>> = {1} /\ DOMAIN <<a, b>> = {1, 2}
  OBVIOUS
<1>2. ToSet(<<>>) = {} /\ ToSet(<<a>>) = {a}
  BY <1>1 DEF ToSet
<1>3. ToSet(<<a, b>>) = {a, b}
  BY <1>1 DEF ToSet
<1> QED
  BY <1>2, <1>3

LEMMA PlaceIn ==
  ASSUME FlowInv, NEW b, NEW x, Place(b, x)
  PROVE  \E k \in PlaceSet : k = <<b, x>> /\ HereAt(k) = Here(b, x)
<1>1. <<b, x>> \in PlaceSet
  BY PlacesAre
<1>2. HereAt(<<b, x>>) = Here(b, x)
  BY DEF HereAt
<1> QED
  BY <1>1, <1>2

(* What follows a quadruple that does something is the same, too.          *)
LEMMA SameFollows ==
  ASSUME FlowInv, NEW b, NEW x, Place(b, x), ~BlockSilent(<<b, x>>), b # EXIT
  PROVE  /\ BlockFollows(<<b, x>>) = ListFollows(code[b][x].id)
         /\ \A y \in ToSet(ListFollows(code[b][x].id)) : Outcome(y)
<1>1. /\ x <= Len(Statements(b)) /\ program[code[b][x].id].op = code[b][x].op
      /\ code[b][x].op \notin {"nop", "goto"}
  BY LoudQuad
<1>2. PICK q \in Quads : q = code[b][x]
  BY <1>1, QuadAt
<1>3. PICK i \in 1 .. Len(program) : i = q.id /\ program[i].op = q.op
  BY <1>1, <1>2 DEF Quads
<1>4. Types
  BY DEF FlowInv, IInv
<1>5. /\ BlockNext(<<b, x + 1>>) = ListNext(i + 1) /\ Outcome(ListNext(i + 1))
  <2>1. Place(b, x + 1) /\ Passes(i + 1, Here(b, x + 1))
    BY <1>1, <1>2, <1>3, Onward
  <2>2. PICK k \in PlaceSet : k = <<b, x + 1>> /\ HereAt(k) = Here(b, x + 1)
    BY <2>1, PlaceIn
  <2>3. ListNext(i + 1) = ListNext(HereAt(k))
    BY <1>4, <2>1, <2>2, PassesFacts
  <2> QED
    BY <2>2, <2>3, SameNext
<1>6. ASSUME q.op \in {"if", "if_false"}
      PROVE  BlockNext(<<q.target, 1>>) = ListNext(Jump(i)) /\ Outcome(ListNext(Jump(i)))
  <2>1. Place(q.target, 1) /\ Passes(Jump(i), Here(q.target, 1))
    BY <1>1, <1>2, <1>3, <1>6, Jumped DEF Jumps
  <2>2. PICK k \in PlaceSet : k = <<q.target, 1>> /\ HereAt(k) = Here(q.target, 1)
    BY <2>1, PlaceIn
  <2>3. ListNext(Jump(i)) = ListNext(HereAt(k))
    BY <1>4, <2>1, <2>2, PassesFacts
  <2> QED
    BY <2>2, <2>3, SameNext
<1>7. CASE q.op = "return"
  <2>1. BlockFollows(<<b, x>>) = <<>> /\ ListFollows(i) = <<>>
    BY <1>2, <1>3, <1>7 DEF BlockFollows, ListFollows
  <2> QED
    BY <1>2, <1>3, <2>1, ToSetOf
<1>8. CASE q.op \in {"if", "if_false"}
  <2>1. /\ BlockFollows(<<b, x>>) = <<BlockNext(<<b, x + 1>>), BlockNext(<<q.target, 1>>)>>
        /\ ListFollows(i) = <<ListNext(i + 1), ListNext(Jump(i))>>
    BY <1>2, <1>3, <1>8 DEF BlockFollows, ListFollows
  <2>2. BlockFollows(<<b, x>>) = ListFollows(i)
    BY <1>5, <1>6, <1>8, <2>1
  <2>3. \A y \in ToSet(ListFollows(i)) : Outcome(y)
    <3>1. PICK v, w : v = ListNext(i + 1) /\ w = ListNext(Jump(i))
      OBVIOUS
    <3>2. ToSet(<<v, w>>) = {v, w}
      BY ToSetOf
    <3> QED
      BY <1>5, <1>6, <1>8, <2>1, <3>1, <3>2
  <2> QED
    BY <1>2, <1>3, <2>2, <2>3
<1>9. CASE q.op \notin {"return", "if", "if_false"}
  <2>1. /\ BlockFollows(<<b, x>>) = <<BlockNext(<<b, x + 1>>)>>
        /\ ListFollows(i) = <<ListNext(i + 1)>>
    BY <1>2, <1>3, <1>9 DEF BlockFollows, ListFollows
  <2>2. BlockFollows(<<b, x>>) = ListFollows(i)
    BY <1>5, <2>1
  <2>3. \A y \in ToSet(ListFollows(i)) : Outcome(y)
    <3>1. PICK v : v = ListNext(i + 1)
      OBVIOUS
    <3>2. ToSet(<<v>>) = {v}
      BY ToSetOf
    <3> QED
      BY <1>5, <2>1, <3>1, <3>2
  <2> QED
    BY <1>2, <1>3, <2>2, <2>3
<1> QED
  BY <1>7, <1>8, <1>9

(* What the list reaches are the outcomes of the blocks.                   *)
Outcomes == {i \in (1 .. Len(program)) \union {0, -1} : Outcome(i)}

LEMMA OutcomesAre ==
  ASSUME FlowInv
  PROVE  /\ \A i : Outcome(i) => i \in Outcomes
         /\ \A i \in Outcomes \ {0, -1} :
              /\ \E b, x : /\ Place(b, x) /\ ~BlockSilent(<<b, x>>) /\ b # EXIT
                           /\ i = code[b][x].id
              /\ ToSet(ListFollows(i)) \subseteq Outcomes
<1>1. ASSUME NEW i, Outcome(i), i \notin {0, -1}
      PROVE  \E b, x : /\ Place(b, x) /\ ~BlockSilent(<<b, x>>) /\ b # EXIT
                       /\ i = code[b][x].id
  <2>1. PICK k \in PlaceSet : k[1] # EXIT /\ ~BlockSilent(k) /\ i = code[k[1]][k[2]].id
    BY <1>1 DEF Outcome
  <2>2. PICK b, x : b = k[1] /\ x = k[2] /\ k = <<b, x>> /\ Place(b, x)
    BY PlacesAre
  <2> QED
    BY <2>1, <2>2
<1>2. ASSUME NEW i, Outcome(i) PROVE i \in Outcomes
  <2>1. CASE i \in {0, -1}
    BY <1>2, <2>1 DEF Outcomes
  <2>2. CASE i \notin {0, -1}
    <3>1. PICK b, x : /\ Place(b, x) /\ ~BlockSilent(<<b, x>>) /\ b # EXIT
                      /\ i = code[b][x].id
      BY <1>1, <1>2, <2>2
    <3>2. i \in 1 .. Len(program)
      BY <3>1, LoudQuad, QuadAt
    <3> QED
      BY <1>2, <3>2 DEF Outcomes
  <2> QED
    BY <2>1, <2>2
<1>3. ASSUME NEW i \in Outcomes \ {0, -1} PROVE ToSet(ListFollows(i)) \subseteq Outcomes
  <2>1. PICK b, x : /\ Place(b, x) /\ ~BlockSilent(<<b, x>>) /\ b # EXIT
                    /\ i = code[b][x].id
    BY <1>1 DEF Outcomes
  <2> QED
    BY <1>2, <2>1, SameFollows
<1> QED
  BY <1>1, <1>2, <1>3 DEF Outcomes

LEMMA ReachedAre ==
  ASSUME FlowInv, Outcome(ListNext(1))
  PROVE  Reached \subseteq Outcomes \ {0, -1}
<1> DEFINE n == Len(program)
           follow(S) == S \union UNION {ToSet(ListFollows(i)) : i \in S \ {0, -1}}
           first == {ListNext(1)}
           go == [s \in (1 .. n) \X SUBSET Outcomes |-> follow(s[2])]
           Solves(f) == f = [k \in 0 .. n |-> IF k = 0 THEN first ELSE follow(f[k - 1])]
           end == CHOOSE f : Solves(f)
<1>1. n \in Nat
  BY ListTypes DEF FlowInv, IInv
<1>2. Reached = end[n] \ {0, -1}
  BY DEF Reached
<1>3. first \in SUBSET Outcomes
  BY OutcomesAre
<1>4. ASSUME NEW S \in SUBSET Outcomes PROVE follow(S) \in SUBSET Outcomes
  BY OutcomesAre
<1> HIDE DEF first, follow
<1>5. /\ go \in [(1 .. n) \X SUBSET Outcomes -> SUBSET Outcomes]
      /\ \A k \in 1 .. n : \A S \in SUBSET Outcomes : go[<<k, S>>] = follow(S)
  BY <1>4
<1> HIDE DEF go
<1>6. PICK f : Follows(f, n, SUBSET Outcomes, first, go)
  BY <1>1, <1>3, <1>5, Recursion
<1>7. /\ f \in [0 .. n -> SUBSET Outcomes] /\ f[0] = first
      /\ \A k \in 1 .. n : f[k] = go[<<k, f[k - 1]>>]
  BY <1>6 DEF Follows
<1>8. \A k \in 1 .. n : f[k] = follow(f[k - 1])
  <2>1. \A k \in 1 .. n : f[k - 1] \in SUBSET Outcomes
    BY <1>1, <1>7
  <2> QED
    BY <1>5, <1>7, <2>1
<1>9. Solves(f)
  <2>1. f = [k \in 0 .. n |-> f[k]]
    BY <1>7
  <2>2. \A k \in 0 .. n : k = 0 \/ k \in 1 .. n
    BY <1>1
  <2> QED
    BY <1>7, <1>8, <2>1, <2>2
<1>10. Solves(end)
  <2> HIDE DEF Solves
  <2> QED
    BY <1>9
<1> HIDE DEF end
<1>11. \A k \in 0 .. n : end[k] = IF k = 0 THEN first ELSE follow(end[k - 1])
  BY <1>10
<1> HIDE DEF Solves
<1> DEFINE U == {k \in Nat : k <= n => end[k] \in SUBSET Outcomes}
<1>12. 0 \in U
  BY <1>1, <1>3, <1>11
<1>13. ASSUME NEW k \in Nat, k \in U PROVE k + 1 \in U
  <2> SUFFICES ASSUME k + 1 <= n PROVE end[k + 1] \in SUBSET Outcomes
    OBVIOUS
  <2>1. k + 1 \in 0 .. n /\ (k + 1) - 1 = k /\ k + 1 # 0 /\ end[k] \in SUBSET Outcomes
    BY <1>1, <1>13
  <2>2. end[k + 1] = follow(end[k])
    BY <1>11, <2>1
  <2> QED
    BY <1>4, <2>1, <2>2
<1> HIDE DEF U
<1>14. n \in U
  BY <1>1, <1>12, <1>13, UpwardInduction
<1> QED
  BY <1>1, <1>2, <1>14 DEF U

LEMMA FlowIsSame ==
  ASSUME FlowInv
  PROVE  SameFlow
<1>1. Types /\ Arranged
  BY DEF FlowInv, IInv
<1>2. ENTRY \in LiveBlocks
  <2>1. 1 \in 1 .. Len(layout) /\ layout[1] = ENTRY /\ ENTRY < 0
    BY <1>1 DEF Arranged, ENTRY
  <2> QED
    BY <1>1, <2>1, LeastLive DEF LiveIsLeast, Closed
<1>3. BlockNext(<<ENTRY, 1>>) = ListNext(1) /\ Outcome(ListNext(1))
  <2>1. Place(ENTRY, 1) /\ Passes(1, Here(ENTRY, 1))
    <3>1. Start(ENTRY) = 1
      BY DEF Start, ENTRY, EXIT
    <3> QED
      BY <1>2, <3>1, Entered
  <2>2. PICK k \in PlaceSet : k = <<ENTRY, 1>> /\ HereAt(k) = Here(ENTRY, 1)
    BY <2>1, PlaceIn
  <2>3. ListNext(1) = ListNext(HereAt(k))
    BY <1>1, <2>1, <2>2, PassesFacts
  <2> QED
    BY <2>2, <2>3, SameNext
<1>4. ASSUME NEW i \in Reached
      PROVE  \E b \in Live : \E k \in DOMAIN Statements(b) :
               /\ code[b][k].id = i /\ code[b][k].op # "nop"
               /\ BlockFollows(<<b, k>>) = ListFollows(i)
  <2>1. i \in Outcomes \ {0, -1}
    BY <1>3, ReachedAre
  <2>2. PICK b, x : Place(b, x) /\ ~BlockSilent(<<b, x>>) /\ b # EXIT /\ i = code[b][x].id
    BY <2>1, OutcomesAre
  <2>3. x <= Len(Statements(b)) /\ code[b][x].op # "nop"
    BY <2>2, LoudQuad
  <2>4. b \in Live
    BY <1>1, <2>2, LeastLive DEF LiveIsLeast, Place
  <2>5. x \in DOMAIN Statements(b)
    <3>1. Statements(b) = code[b] /\ x \in 1 .. Len(code[b]) /\ b \in 1 .. Len(code)
      BY <2>2, <2>3, QuadAt
    <3>2. code[b] \in Seq(Quads)
      BY <1>1, <3>1 DEF Types
    <3> QED
      BY <3>1, <3>2
  <2>6. BlockFollows(<<b, x>>) = ListFollows(i)
    BY <2>2, SameFollows
  <2> QED
    BY <2>2, <2>3, <2>4, <2>5, <2>6
<1> QED
  BY <1>3, <1>4 DEF SameFlow

(* The blocks stand for the list and follow each other as the list does in  *)
(* every state that the passes reach: after the extraction, and after every *)
(* branch decided, block removed and pair of blocks merged                  *)
(* (BasicBlockExtractor.cpp, BranchOptimizations.cpp,                       *)
(* remove_dead_basic_blocks.cpp, merge_basic_blocks.cpp).                   *)
THEOREM FlowInvariance == ASSUME ~TrivialJumps PROVE Spec => []FlowInv
<1>1. Init => FlowInv
  BY InitiallyFlow
<1>2. FlowInv /\ [Next]_vars => FlowInv'
  BY FlowStep
<1> QED
  BY <1>1, <1>2, PTL DEF Spec

(* The blocks do what the list of quadruples did, in the same order, under  *)
(* the same conditions, for every function and through every round of the   *)
(* passes: from where the list goes to the same quadruples, or to its end,  *)
(* or silently round for ever, so do they.                                  *)
THEOREM FlowPreserved == ASSUME ~TrivialJumps PROVE Spec => []SameFlow
<1>1. Spec => []FlowInv
  BY FlowInvariance
<1>2. FlowInv => SameFlow
  BY FlowIsSame
<1> QED
  BY <1>1, <1>2, PTL
=============================================================================
