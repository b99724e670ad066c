-------------------------- MODULE RegisterAllocation --------------------------
(***************************************************************************)
(* Register allocation by graph coloring: a round renumbers the registers  *)
(* of the blocks, builds the interference graph and then coalesces copies, *)
(* or spills what cannot be colored, or colors and is done.  k is the      *)
(* class that is allocated, "pr" or "pf".                                  *)
(***************************************************************************)
EXTENDS Assembly

-----------------------------------------------------------------------------
(* Live registers, backwards: pseudo registers or, after the allocation,   *)
(* hard ones.  Blocks without successors are not annotated.                *)

Tracked(kind, r) == IF kind = "pseudo" THEN isPseudo(r) ELSE isHard(r) \/ r \in {SP, BP}

transfer(kind, i, out) ==
  LET live(S) == {r \in S : Tracked(kind, r)}
      dead == IF erase_result_complete(i.op) /\ ~isAddress(i.a1) THEN {i.a1} ELSE {}
      first == IF dead = {} THEN RegistersIn(i.a1) ELSE {}
  IN  IF is_jumping(i) THEN (out \union live(i.uses)) \ i.kills
      ELSE IF is_label(i) THEN out
      ELSE IF i.op = "NOP" THEN out \union live(i.uses)
      ELSE (out \ dead) \union live(first \union RegistersIn(i.a2) \union RegistersIn(i.a3)
                                      \union i.uses)

live_in(kind, code, out) == FoldedRight(LAMBDA i, S : transfer(kind, i, S), code, out)
live_out(f, ins, b) == UNION {ins[s] : s \in ToSet(f.succ[b])}

RECURSIVE Solved(_, _, _)
Solved(kind, f, ins) ==
  LET more == [b \in Blocks(f) |-> IF b = EXIT THEN {}
                                   ELSE live_in(kind, f.low[b], live_out(f, ins, b))]
  IN  IF more = ins THEN ins ELSE Solved(kind, f, more)

(* What is live after each annotated instruction.                          *)
annotated(f, b) == b # EXIT /\ f.succ[b] # <<>>
live_after(kind, f) ==
  LET ins == Solved(kind, f, [b \in Blocks(f) |-> {}])
      after(b) == FoldedRight(LAMBDA i, s : <<transfer(kind, i, s[1])>> \o s,
                            f.low[b], <<live_out(f, ins, b)>>)
      OUT == Evaluated([b \in {b \in Blocks(f) : annotated(f, b)} |-> after(b)])
  IN  Evaluated([p \in {p \in LowPlaces(f) : annotated(f, p[1])} |-> OUT[p[1]][p[2] + 1]])

-----------------------------------------------------------------------------
(* The registers of a class that only one block mentions.                  *)

OfClass(S, k) == {r \in S : r[1] = k}
Mentions(i) == RegistersIn(i.a1) \union RegistersIn(i.a2) \union RegistersIn(i.a3)
find_local_registers(f, k) ==
  LET mentioned(i) == IF is_jumping(i) \/ is_label(i) THEN {} ELSE Mentions(i)
      found == Evaluated([b \in Blocks(f) |->
                 OfClass(UNION {mentioned(i) \union i.uses : i \in ToSet(f.low[b])}, k)])
  IN  Evaluated([b \in Blocks(f) |-> found[b] \ UNION {found[c] : c \in Blocks(f) \ {b}}])

replace_register(i, from, to) ==
  OnArguments(i, LAMBDA arg : Renamed(arg, LAMBDA r : IF r = from THEN to ELSE r))

(* Faulty variants: an instruction that also reads its result is taken to  *)
(* overwrite it; and what only writes a register is taken not to use it.   *)
is_store_complete_partial(i, r) == erase_result_low(i.op) /\ i.a1 = r
is_load_read(i, r) == r \in RegistersIn(i.a2) \union RegistersIn(i.a3)

is_store_complete(i, r) == erase_result_complete(i.op) /\ i.a1 = r
is_store(i, r) == erase_result_low(i.op) /\ i.a1 = r
is_load(i, r) == r \in Mentions(i)

(* 1. A local register that is stored more than once becomes one register  *)
(* for every store; only the first argument of the store is the new one.   *)
renumber_block(s, b, r) ==
  LET statement(t, i) ==
        IF is_store_complete(i, r)
        THEN [code |-> Append(t.code, [i EXCEPT !.a1 = Pseudo(r[1], t.last + 1)]),
              last |-> t.last + 1, start |-> TRUE]
        ELSE [t EXCEPT !.code = Append(@, IF t.start THEN replace_register(i, r, Pseudo(r[1], t.last))
                                          ELSE i)]
      done == Folded(statement, [code |-> <<>>, last |-> s.last[r[1]], start |-> FALSE], s.low[b])
      stores == Cardinality({j \in DOMAIN s.low[b] : is_store_complete(s.low[b][j], r)})
  IN  IF stores <= 1 THEN s
      ELSE [s EXCEPT !.low[b] = done.code, !.last[r[1]] = done.last]

renumber(f, k) ==
  LET local == find_local_registers(f, k)
      block(g, b) ==
        Folded(LAMBDA h, r : renumber_block(h, b, r), g,
                 Sorted({r \in local[b] : ~bound(r)}, LAMBDA r : r[2]))
  IN  Folded(block, f, f.list)

-----------------------------------------------------------------------------
(* 2. The graph: the registers in the order in which the code mentions     *)
(* them, and edges between those live after the same instruction.          *)

Listed(arg) == IF isAddress(arg) THEN <<arg[2], arg[3]>> ELSE <<arg>>
gather_pseudo_regs(f, k) ==
  LET gather(s, r) == IF r[1] # k \/ \E j \in DOMAIN s : s[j] = r THEN s ELSE Append(s, r)
      statement(s, i) ==
        Folded(gather, s, Listed(i.a1) \o Listed(i.a2) \o Listed(i.a3))
      block(s, b) == Folded(statement, s, f.low[b])
  IN  Folded(block, <<>>, f.list)

build_interference_graph(f, k) ==
  LET live == live_after("pseudo", f)
      together == {OfClass(live[p], k) : p \in DOMAIN live}
      nodes == gather_pseudo_regs(f, k)
  IN  [nodes |-> nodes,
       neighbors |-> Evaluated([r \in ToSet(nodes) |-> UNION {S \in together : r \in S} \ {r}])]

(* 3. Copies between local registers that do not interfere: one register,  *)
(* and each of them in one pair only until the graph is built again.       *)
coalesce(f, k, graph) ==
  LET local == find_local_registers(f, k)
      mergeable(s, b, i) ==
        /\ i.op = MoveOf(k) /\ i.a1[1] = k /\ i.a2[1] = k /\ i.a1 # i.a2
        /\ {i.a1, i.a2} \subseteq local[b]
        /\ \A r \in {i.a1, i.a2} : ~bound(r) /\ r \notin s.prune
        /\ i.a1 \notin graph.neighbors[i.a2]
      statement(s, b, i) ==
        IF mergeable(s, b, i)
        THEN [s EXCEPT !.code = Append(@, nop(i)), !.replaces = (i.a1 :> i.a2) @@ @,
                       !.prune = @ \union {i.a1, i.a2}]
        ELSE [s EXCEPT !.code = Append(@, i)]
      block(s, b) ==
        LET t == Folded(LAMBDA u, i : statement(u, b, i), [s EXCEPT !.code = <<>>], s.f.low[b])
        IN  [t EXCEPT !.f.low[b] = t.code]
      done == Folded(block, [f |-> f, code |-> <<>>, replaces |-> << >>, prune |-> {}], f.list)
      R(r) == IF r \in DOMAIN done.replaces THEN done.replaces[r] ELSE r
  IN  <<OnCode(done.f, LAMBDA i : OnArguments(i, LAMBDA arg : Renamed(arg, R))),
        done.replaces # << >>>>

-----------------------------------------------------------------------------
(* 4. Spill costs, by the depth of the loops.                              *)

store_cost == 5
load_cost == 3
depth_cost(depth) == 10 ^ depth
estimate_spill_costs(f, r) ==
  LET times(arg) == Cardinality({j \in DOMAIN Listed(arg) : Listed(arg)[j] = r})
      first(i) == IF erase_result_low(i.op) THEN IF i.a1 = r THEN store_cost ELSE 0
                  ELSE load_cost * times(i.a1)
      cost(e) == depth_cost(f.depth[e.b])
                   * (first(e.i) + load_cost * (times(e.i.a2) + times(e.i.a3)))
  IN  SumOf(Flat(f), cost)

(* Faulty variant: the bound registers are forgotten.                      *)
degree_unbound(graph, candidate, order) ==
  Cardinality(graph.neighbors[candidate] \ ToSet(order))

(* 5. The bound registers come first, then the first one of a low degree,  *)
(* or the one that is the cheapest to spill.                               *)
degree(graph, candidate, order) ==
  LET N == graph.neighbors[candidate]
  IN  Cardinality(N \ ToSet(order)) + Cardinality({r[3] : r \in {r \in N \intersect ToSet(order) : bound(r)}})

RECURSIVE Simplified(_, _, _)
Simplified(graph, cost, s) ==
  LET K == Len(registers(graph.nodes[1][1]))
      deg == Evaluated([r \in ToSet(s.left) |-> degree(graph, r, s.order)])
      low == SelectSeq(s.left, LAMBDA r : deg[r] < K)
      cheaper(r, t) == cost[t] * deg[r] < cost[r] * deg[t]
      cheapest == Folded(LAMBDA r, t : IF cheaper(r, t) THEN t ELSE r, Head(s.left), Tail(s.left))
  IN  IF s.left = <<>> THEN s
      ELSE IF low # <<>>
      THEN Simplified(graph, cost, [s EXCEPT !.order = Append(@, Head(low)),
                                             !.left = Without(@, Head(low))])
      ELSE Simplified(graph, cost, [s EXCEPT !.spilled = Append(@, cheapest),
                                             !.left = Without(@, cheapest)])
simplify(f, graph) ==
  Simplified(graph, Evaluated([r \in ToSet(graph.nodes) |-> estimate_spill_costs(f, r)]),
             [order |-> SelectSeq(graph.nodes, bound),
              left |-> SelectSeq(graph.nodes, LAMBDA r : ~bound(r)), spilled |-> <<>>])

(* 6. The colors, from the last one in the order; bound registers have     *)
(* theirs.                                                                 *)
select(f, graph, order) ==
  LET k == graph.nodes[1][1]
      colors == registers(k)
      start == [r \in {r \in ToSet(order) : bound(r)} |-> r[3]]
      color(alloc, r) ==
        LET taken == {alloc[n] : n \in graph.neighbors[r] \intersect DOMAIN alloc}
            free == SelectSeq(colors, LAMBDA n : n \notin taken)
        IN  IF free = <<>> THEN alloc ELSE (r :> Head(free)) @@ alloc
      unbound == Reverse(SelectSeq(order, LAMBDA r : ~bound(r)))
      alloc == Folded(color, start, unbound)
      R(r) == IF r \in DOMAIN alloc THEN Hard(k, alloc[r]) ELSE r
      uses(S) == IF k = "pf" THEN S ELSE {R(r) : r \in S}
      change(i) == [OnArguments(i, LAMBDA arg : Renamed(arg, R)) EXCEPT
                      !.uses = uses(@), !.kills = uses(@)]
  IN  [OnCode(f, change) EXCEPT
         !.failed = @ \/ \E r \in ToSet(unbound) : r \notin DOMAIN alloc,
         !.used = @ \union {Hard(k, alloc[r]) : r \in DOMAIN alloc},
         !.variable_used = @ \union {Hard(k, alloc[r]) : r \in ToSet(unbound) \intersect DOMAIN alloc}]

-----------------------------------------------------------------------------
(* 7. A spilled register lives on the stack: every instruction that        *)
(* mentions it gets a register of its own.                                 *)

spill(f, reg) ==
  LET k == reg[1]
      slot == stack_address(f.stack - Word)
      load(r) == I2(MoveOf(k), r, slot)
      store(r) == I2(MoveOf(k), slot, r)
      around(i, r) ==
        LET j == replace_register(i, reg, r)
        IN  IF is_store_complete(i, reg) THEN <<j, store(r)>>
            ELSE IF is_store(i, reg) THEN <<load(r), j, store(r)>>
            ELSE <<load(r), j>>
      statement(s, i) ==
        IF is_load(i, reg)
        THEN [code |-> s.code \o around(i, Pseudo(k, s.last + 1)), last |-> s.last + 1]
        ELSE [s EXCEPT !.code = Append(@, i)]
      block(g, b) ==
        LET s == Folded(statement, [code |-> <<>>, last |-> g.last[k]], g.low[b])
        IN  [g EXCEPT !.low[b] = s.code, !.last[k] = s.last]
  IN  Folded(block, [f EXCEPT !.stack = @ - Word], f.list)
spill_code(f, spilled) == Folded(spill, f, spilled)

-----------------------------------------------------------------------------
(* One round: the function, and what has come of it.                       *)
register_allocation_round(f, k, coalesced) ==
  LET g == IF coalesced THEN f ELSE renumber(f, k)
      graph == build_interference_graph(g, k)
      c == coalesce(g, k, graph)
      s == simplify(g, graph)
  IN  IF graph.nodes = <<>> THEN <<g, "done">>
      ELSE IF c[2] THEN <<c[1], "coalesced">>
      ELSE IF s.spilled # <<>> THEN <<spill_code(g, s.spilled), "spilled">>
      ELSE <<select(g, graph, s.order), "done">>
=============================================================================
