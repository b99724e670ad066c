------------------------------- MODULE Loops -------------------------------
(***************************************************************************)
(* compute_dominators: the algorithm of Lengauer and Tarjan, with balanced *)
(* path compression, on nodes 1 .. cn where node 1 is ENTRY.  Its arrays   *)
(* are the fields of a record; node 0 stands for none.                     *)
(*                                                                         *)
(* loop_analysis: the natural loops of a function, their induction         *)
(* variables and how often they iterate.                                   *)
(*                                                                         *)
(* The field loops of a function is a sequence of                          *)
(*   [blocks, biv, div, estimate, initial]                                 *)
(* with the blocks in the order of the function (the code has them in the  *)
(* order of their addresses) and, for an induction variable, the equation  *)
(*   var = e * i + d  (or i / e when div)  defined by the statement def.   *)
(***************************************************************************)
EXTENDS Subexpressions

-----------------------------------------------------------------------------
(* compute_dominators.                                                     *)

Arrays(succ) ==
  LET zero == [v \in 0 .. Len(succ) |-> 0]
      empty == [v \in 0 .. Len(succ) |-> <<>>]
  IN  [n |-> 0, parent |-> zero, semi |-> zero, vertex |-> zero, dom |-> zero,
       size |-> zero, child |-> zero, label |-> zero, ancestor |-> zero,
       pred |-> empty, bucket |-> empty]

(* Step 1: numbers in depth-first order.                                   *)
RECURSIVE dfs(_, _, _)
dfs(succ, s, v) ==
  LET n == s.n + 1
      visit(t, w) ==
        LET u == IF t.semi[w] # 0 THEN t ELSE dfs(succ, [t EXCEPT !.parent[w] = v], w)
        IN  [u EXCEPT !.pred[w] = Append(@, v)]
  IN  FoldLeft(visit,
               [s EXCEPT !.n = n, !.semi[v] = n, !.vertex[n] = v, !.label[v] = v,
                         !.size[v] = 1],
               succ[v])

RECURSIVE compress(_, _)
compress(s, v) ==
  LET a == s.ancestor[v]
      t == compress(s, a)
      label == IF t.semi[t.label[a]] < t.semi[t.label[v]] THEN t.label[a] ELSE t.label[v]
  IN  IF s.ancestor[a] = 0 THEN s
      ELSE [t EXCEPT !.label[v] = label, !.ancestor[v] = t.ancestor[a]]

Compressed(s, v) == IF s.ancestor[v] = 0 THEN s ELSE compress(s, v)

(* The value of eval; the arrays after it are those of Compressed.         *)
eval(s, v) ==
  LET t == Compressed(s, v)
      a == t.label[t.ancestor[v]]
  IN  IF s.ancestor[v] = 0 \/ t.semi[a] > t.semi[t.label[v]] THEN t.label[v] ELSE a

(* link, its first loop and its last one.                                  *)
RECURSIVE Balanced(_, _, _)
Balanced(s, r, w) ==
  LET c == s.child[r]
  IN  IF s.semi[s.label[w]] >= s.semi[s.label[c]] THEN [s |-> s, r |-> r]
      ELSE IF s.size[r] + s.size[s.child[c]] >= 2 * s.size[c]
      THEN Balanced([s EXCEPT !.ancestor[c] = r, !.child[r] = s.child[c]], r, w)
      ELSE Balanced([s EXCEPT !.size[c] = s.size[r], !.ancestor[r] = c], c, w)

RECURSIVE Attached(_, _, _)
Attached(s, r, v) ==
  IF r = 0 THEN s ELSE Attached([s EXCEPT !.ancestor[r] = v], s.child[r], v)

link(s, v, w) ==
  LET b == Balanced(s, w, w)
      t == [b.s EXCEPT !.label[b.r] = b.s.label[w], !.size[v] = @ + b.s.size[w]]
  IN  IF t.size[v] < 2 * t.size[w]
      THEN Attached([t EXCEPT !.child[v] = b.r], t.child[v], v)
      ELSE Attached(t, b.r, v)

(* Step 2: the semidominator of w.                                         *)
Semidominator(s, w) ==
  FoldLeft(LAMBDA t, v :
             LET u == eval(t, v)
                 c == Compressed(t, v)
             IN  IF c.semi[u] < c.semi[w] THEN [c EXCEPT !.semi[w] = c.semi[u]] ELSE c,
           s, s.pred[w])

(* Step 3: the dominators of what waits in the bucket of the parent.       *)
Implicit(s, w) ==
  LET p == s.parent[w]
      put == [s EXCEPT !.bucket[s.vertex[s.semi[w]]] = Append(@, w)]
      linked == link(put, p, w)
  IN  FoldLeft(LAMBDA t, v :
                 LET u == eval(t, v)
                     c == Compressed(t, v)
                 IN  [c EXCEPT !.dom[v] = IF c.semi[u] < c.semi[v] THEN u ELSE p],
               linked, linked.bucket[p])

(* Step 4: the others, in depth-first order.  Faulty variant: none.        *)
Explicit_none(s) == s

Explicit(s) ==
  FoldLeft(LAMBDA t, i :
             LET w == t.vertex[i]
             IN  IF t.dom[w] # t.vertex[t.semi[w]] THEN [t EXCEPT !.dom[w] = t.dom[t.dom[w]]]
                 ELSE t,
           s, [i \in 1 .. s.n - 1 |-> i + 1])

(* The immediate dominator of every node, 0 for ENTRY and for what cannot  *)
(* be reached.                                                             *)
compute_dominators(succ) ==
  LET first == dfs(succ, Arrays(succ), 1)
      nodes == [i \in 1 .. first.n - 1 |-> first.vertex[first.n + 1 - i]]
      second == FoldLeft(LAMBDA s, w : Implicit(Semidominator(s, w), w), first, nodes)
  IN  [v \in 1 .. Len(succ) |-> IF v = 1 THEN 0 ELSE Explicit(second).dom[v]]

-----------------------------------------------------------------------------
(* What a dominator is: v is on every path from ENTRY to w.                *)

RECURSIVE ReachedWithout(_, _, _)
ReachedWithout(succ, v, S) ==
  LET T == S \union (UNION {ToSet(succ[u]) : u \in S} \ {v})
  IN  IF T = S THEN S ELSE ReachedWithout(succ, v, T)

Reached(succ) == ReachedWithout(succ, 0, {1})

Dominates(succ, v, w) == v = 1 \/ v = w \/ w \notin ReachedWithout(succ, v, {1})

IsImmediateDominator(succ, v, w) ==
  /\ v # w /\ v \in Reached(succ) /\ Dominates(succ, v, w)
  /\ \A u \in Reached(succ) \ {w} : Dominates(succ, u, w) => Dominates(succ, u, v)

-----------------------------------------------------------------------------
(* Loops.                                                                  *)

Equation(def, i, e, d, div) == [def |-> def, i |-> i, e |-> e, d |-> d, div |-> div]

Inside(loop, b) == b \in ToSet(loop.blocks)
Statements(f, loop) == FlattenSeq([i \in DOMAIN loop.blocks |-> f.code[loop.blocks[i]]])
Last_(f, b) == f.code[b][Len(f.code[b])]
First(s, Test(_)) == s[CHOOSE i \in DOMAIN s : Test(s[i]) /\ \A j \in 1 .. i - 1 : ~Test(s[j])]

(* loop: single_exit, find_entry, find_exit, find_preheader.               *)
Exits(f, loop) ==
  {<<b, i>> \in ToSet(loop.blocks) \X (1 .. 2) :
     i \in DOMAIN f.succ[b] /\ ~Inside(loop, f.succ[b][i])}
single_exit(f, loop) == Cardinality(Exits(f, loop)) = 1
Outside(f, loop, b) == SelectSeq(f.pred[b], LAMBDA p : ~Inside(loop, p))
find_entry(f, loop) == First(loop.blocks, LAMBDA b : Outside(f, loop, b) # <<>>)
find_exit(f, loop) == First(loop.blocks, LAMBDA b : \E x \in Exits(f, loop) : x[1] = b)
find_preheader(f, loop) == Head(Outside(f, loop, find_entry(f, loop)))

(* A block that only falls through to the entry, made when there is none:  *)
(* gives [f, b].                                                           *)
find_safe_preheader(f, loop) ==
  LET d == find_entry(f, loop)
      p == find_preheader(f, loop)
      n == f.index + 1
      redirect(g, q) ==
        LET h == [remove_edge(g, q, d) EXCEPT !.succ[q] = Append(@, n), !.pred[n] = Append(@, q)]
            last == Len(g.code[q])
        IN  IF last > 0 /\ g.code[q][last].to = d THEN [h EXCEPT !.code[q][last].to = n] ELSE h
  IN  IF Len(f.succ[p]) = 1 /\ next(f, p) = d THEN [f |-> f, b |-> p]
      ELSE [f |-> make_edge(FoldLeft(redirect, insert_before(f, d, <<>>, <<>>, <<>>),
                                     Outside(f, loop, d)),
                            n, d),
            b |-> n]

-----------------------------------------------------------------------------
(* loop_analysis: natural loops of the edges to a block that dominates     *)
(* immediately (or to the block itself).                                   *)

Dominator(f) ==
  LET d == compute_dominators([i \in DOMAIN f.list |->
             [j \in DOMAIN f.succ[f.list[i]] |-> position(f, f.succ[f.list[i]][j])]])
  IN  [b \in Blocks(f) |-> IF d[position(f, b)] = 0 THEN 0 ELSE f.list[d[position(f, b)]]]

BackEdges(f, dominator) ==
  FlattenSeq([i \in DOMAIN f.list |->
    LET b == f.list[i]
        to == SelectSeq(f.succ[b], LAMBDA s : s = b \/ dominator[b] = s)
    IN  [j \in DOMAIN to |-> <<b, to[j]>>]])

RECURSIVE Gathered(_, _, _)
Gathered(f, d, S) ==
  LET T == S \union UNION {ToSet(f.pred[b]) : b \in S \ {d}}
  IN  IF T = S THEN S ELSE Gathered(f, d, T)

find_loops(f) ==
  LET dominator == Dominator(f)
      edges == BackEdges(f, dominator)
      loop(e) == LET S == IF e[1] = e[2] THEN {e[1]} ELSE Gathered(f, e[2], {e[1], e[2]})
                 IN  [blocks |-> SelectSeq(f.list, LAMBDA b : b \in S),
                      biv |-> << >>, div |-> << >>, estimate |-> -1, initial |-> 0]
  IN  [f EXCEPT !.loops = [i \in DOMAIN edges |-> loop(edges[i])], !.dominator = dominator]

find_all_candidates(code) ==
  {code[k].res : k \in {k \in DOMAIN code :
                          code[k].op \in {"ADD", "SUB", "MUL", "DIV", "MINUS"}}}

Unknown == Equation(NoUid, NoVariable, 0, 0, FALSE)
Clean(eqs) == [x \in {y \in DOMAIN eqs : eqs[y].i # NoVariable} |-> eqs[x]]

(* i = i + n, i = n + i, i = i - n and i = i / n.                          *)
Increment(q) ==
  CASE q.op = "ADD" /\ isInt(q.a1) /\ is(q.a2, q.res) ->
         Equation(q.uid, q.res, 1, q.a1[2], FALSE)
    [] q.op = "ADD" /\ isInt(q.a2) /\ is(q.a1, q.res) ->
         Equation(q.uid, q.res, 1, q.a2[2], FALSE)
    [] q.op = "SUB" /\ isInt(q.a2) /\ is(q.a1, q.res) ->
         Equation(q.uid, q.res, 1, -q.a2[2], FALSE)
    [] q.op = "DIV" /\ isInt(q.a2) /\ is(q.a1, q.res) ->
         Equation(q.uid, q.res, q.a2[2], 0, TRUE)
    [] OTHER -> Unknown

basic_induction_variables(code) ==
  LET visit(eqs, q) ==
        IF q.res \notin DOMAIN eqs THEN eqs
        ELSE IF q.op = "CALL" THEN Drop(eqs, {q.res, q.sec})
        ELSE IF eqs[q.res].i = NoVariable /\ Increment(q) # Unknown
        THEN Bind(eqs, q.res, Increment(q))
        ELSE Drop(eqs, {q.res})
  IN  Clean(FoldLeft(visit, [x \in find_all_candidates(code) |-> Unknown], code))

(* The statement as scale * i + offset, for another variable i.            *)
Linear(q) ==
  LET n == IF isInt(q.a1) THEN q.a1[2] ELSE q.a2[2]
      x == IF isVariable(q.a1) THEN q.a1[2] ELSE q.a2[2]
      mixed == (isInt(q.a1) /\ isVariable(q.a2)) \/ (isVariable(q.a1) /\ isInt(q.a2))
      t == CASE q.op = "MUL" /\ mixed -> <<x, n, 0>>
             [] q.op = "ADD" /\ mixed -> <<x, 1, n>>
             [] q.op = "ADD" /\ isVariable(q.a1) /\ q.a1 = q.a2 -> <<x, 2, 0>>
             [] q.op = "SUB" /\ isVariable(q.a1) /\ isInt(q.a2) -> <<x, 1, -n>>
             [] q.op = "MINUS" /\ isVariable(q.a1) -> <<x, -1, 0>>
             [] OTHER -> <<NoVariable, 0, 0>>
  IN  IF t[1] = q.res THEN <<NoVariable, 0, 0>> ELSE t

(* The equation of a variable that depends on a basic one, or on another   *)
(* dependent one; the variable it counts must be written in the block.     *)
Dependent(f, b, biv, div, q) ==
  LET t == Linear(q)
      eq == IF t[1] \in DOMAIN biv THEN Equation(q.uid, t[1], t[2], t[3], FALSE)
            ELSE IF t[1] \in DOMAIN div /\ div[t[1]].i # NoVariable
            THEN LET s == div[t[1]]
                 IN  Equation(q.uid, s.i, s.e * t[2], s.d * t[2] + t[3], FALSE)
            ELSE Unknown
  IN  IF \E k \in DOMAIN f.code[b] : f.code[b][k].res = eq.i THEN eq ELSE Unknown

(* One statement of block b at index k; s: [f, div].  A variable computed  *)
(* from itself a second time gets a temporary for its first computation.   *)
VisitDependent(b, k, biv, s) ==
  LET q == s.f.code[b][k]
      x == q.res
      self == s.div[x].i # NoVariable /\ (is(q.a1, x) \/ is(q.a2, x))
      tj == new_temporary(s.f, "int")
      def == s.div[x].def
      split == IF ~self THEN s
               ELSE [f |-> [with_temporary(s.f, "int") EXCEPT
                              !.code[def[1]][def[2]].res = tj,
                              !.code[b][k].a1 = IF is(@, x) THEN var(tj) ELSE @,
                              !.code[b][k].a2 = IF is(@, x) THEN var(tj) ELSE @],
                     div |-> Bind(Drop(s.div, {x}), tj, s.div[x])]
      eq == Dependent(split.f, b, biv, split.div, split.f.code[b][k])
  IN  IF x = NoVariable \/ x \notin DOMAIN s.div THEN s
      ELSE IF q.op = "CALL" THEN [s EXCEPT !.div = Drop(@, {x, q.sec})]
      ELSE IF x \in DOMAIN biv THEN [s EXCEPT !.div = Drop(@, {x})]
      ELSE [split EXCEPT !.div = IF eq = Unknown THEN Drop(@, {x}) ELSE Bind(@, x, eq)]

(* A variable that is computed after what it counts has been incremented   *)
(* refers to the next value.                                               *)
Adjusted(f, biv, div) ==
  LET after(b, x, k) ==
        LET S == {j \in DOMAIN f.code[b] : f.code[b][j].res = div[x].i}
        IN  S # {} /\ (CHOOSE j \in S : \A l \in S : j <= l) < k
      times(x) == Cardinality({p \in Places(f) : At(f, p).res = x /\ after(p[1], x, p[2])})
      step(x) == IF div[x].i \in DOMAIN biv THEN biv[div[x].i].d ELSE 0
  IN  [x \in DOMAIN div |-> [div[x] EXCEPT !.d = @ + times(x) * div[x].e * step(x)]]

find_induction_variables(f, l) ==
  LET blocks == f.loops[l].blocks
      biv == basic_induction_variables(Statements(f, f.loops[l]))
      ofBlock(s, b) == FoldLeft(LAMBDA t, k : VisitDependent(b, k, biv, t), s,
                                [k \in DOMAIN f.code[b] |-> k])
      s == FoldLeft(ofBlock,
                    [f |-> f, div |-> [x \in find_all_candidates(Statements(f, f.loops[l]))
                                         |-> Unknown]],
                    blocks)
  IN  [s.f EXCEPT !.loops[l].biv = biv, !.loops[l].div = Adjusted(s.f, biv, Clean(s.div))]

-----------------------------------------------------------------------------
(* estimate_iterations.                                                    *)

get_initial_value(code, x) ==
  LET S == {k \in DOMAIN code : code[k].res = x}
      q == code[CHOOSE k \in S : \A j \in S : j <= k]
  IN  IF S # {} /\ q.op = "ASSIGN" THEN q.a1 ELSE None

RECURSIVE Divisions(_, _, _)
Divisions(a, e, number) ==
  IF a = number THEN 0 ELSE 1 + Divisions(Quotient(a, e), e, number)

(* An upper bound, -1 when there is none.                                  *)
number_of_iterations(eq, initial, q) ==
  LET number == IF isInt(q.a1) THEN q.a1[2] ELSE q.a2[2]
      steps(n) == Quotient(n - initial, eq.d) + 1
      exact == IF isInt(q.a1) THEN CASE is_if(q) -> {"GREATER"} [] OTHER -> {"LESS_EQUALS"}
               ELSE CASE is_if(q) -> {"LESS", "GREATER"} [] OTHER -> {"GREATER_EQUALS"}
      next_one == IF isInt(q.a1) THEN CASE is_if(q) -> {"GREATER_EQUALS"} [] OTHER -> {"LESS"}
                  ELSE CASE is_if(q) -> {"LESS_EQUALS"} [] OTHER -> {"GREATER"}
  IN  IF eq.div
      THEN IF is_if(q) /\ eq.d = 0 /\ q.rel = "NOT_EQUALS"
           THEN Divisions(initial, eq.e, number) + 1 ELSE -1
      ELSE IF q.rel \in exact THEN steps(number)
      ELSE IF q.rel \in next_one THEN steps(number + 1)
      ELSE -1

estimate_iterations(f, l) ==
  LET loop == f.loops[l]
      code == f.code[find_exit(f, loop)]
      preheader == find_preheader(f, loop)
      q == code[Len(code)]
      x == IF isVariable(q.a1) THEN q.a1[2] ELSE q.a2[2]
      counts == /\ code # <<>> /\ f.code[preheader] # <<>>
                /\ q.op \in {"IF", "IF_FALSE"}
                /\ (isVariable(q.a1) /\ isInt(q.a2)) \/ (isInt(q.a1) /\ isVariable(q.a2))
                /\ x \in DOMAIN loop.biv
      initial == get_initial_value(f.code[preheader], x)
  IN  IF counts /\ isInt(initial)
      THEN [f EXCEPT !.loops[l].estimate =
                       number_of_iterations(loop.biv[x], initial[2], q) - 1,
                     !.loops[l].initial = initial[2]]
      ELSE f

Stamped(f) ==
  [f EXCEPT !.code = [b \in DOMAIN @ |-> [i \in DOMAIN @[b] |-> [@[b][i] EXCEPT !.uid = <<b, i>>]]]]

EveryLoop(f, Op(_, _)) == FoldLeft(Op, f, [i \in DOMAIN f.loops |-> i])

loop_analysis(f) ==
  Result(EveryLoop(EveryLoop(find_loops(Stamped(f)), find_induction_variables),
                   estimate_iterations),
         FALSE)
=============================================================================
