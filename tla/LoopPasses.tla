----------------------------- MODULE LoopPasses -----------------------------
(***************************************************************************)
(* The passes that change the loops loop_analysis found: invariant code    *)
(* motion, induction variables, empty loops, unrolling, unswitching and    *)
(* complete peeling.                                                       *)
(***************************************************************************)
EXTENDS Loops

find(f, uid) == CHOOSE p \in Places(f) : At(f, p).uid = uid
Put_(f, p, q) == [f EXCEPT !.code[p[1]][p[2]] = q]

(* A pass on every loop, with the loops it leaves.                         *)
OnLoops(f, Op(_, _)) ==
  FoldLeft(LAMBDA r, l : LET s == Op(r.f, l) IN Result(s.f, r.optimized \/ s.optimized),
           Result(f, FALSE), [i \in DOMAIN f.loops |-> i])

-----------------------------------------------------------------------------
(* loop_invariant_code_motion.                                             *)

is_invariant(f, loop, q) ==
  LET blocks == ToSet(loop.blocks)
      fixed(a) == isVariable(a) => write_usage(f, blocks, a[2]) = 0
  IN  /\ erase_result(q.op)
      /\ write_usage(f, blocks, q.res) <= 1
      /\ fixed(q.a1) /\ fixed(q.a2)

use_variable(f, b, x) == \E i \in DOMAIN f.code[b] :
                           f.code[b][i].res = x \/ Uses(f.code[b][i], x) > 0

DominatorOf(f, b) == IF b \in DOMAIN f.dominator THEN f.dominator[b] ELSE 0

is_valid_invariant(f, loop, b, q) ==
  LET exit == find_exit(f, loop)
  IN  /\ \A c \in ToSet(loop.blocks) \ {b} :
           use_variable(f, c, q.res) => DominatorOf(f, c) = b
      /\ \/ q.op \in IntArithmetic \union FloatArithmetic
         \/ exit = b \/ DominatorOf(f, exit) = b

(* What is invariant is decided on the writes before the first motion.     *)
MoveInvariants(f, l) ==
  LET loop == f.loops[l]
      move(s, p) ==
        LET h == IF s.b = 0 THEN find_safe_preheader(s.f, loop) ELSE [f |-> s.f, b |-> s.b]
            q == At(s.f, p)
        IN  IF is_invariant(f, loop, q) /\ is_valid_invariant(s.f, loop, p[1], q)
            THEN [f |-> [h.f EXCEPT !.code[h.b] = Append(@, Copy(q)),
                                    !.code[p[1]][p[2]] = [transform_to_nop EXCEPT !.uid = q.uid]],
                  b |-> h.b]
            ELSE s
      places == FlattenSeq([i \in DOMAIN loop.blocks |->
                  LET b == loop.blocks[i] IN [k \in DOMAIN f.code[b] |-> <<b, k>>]])
      s == FoldLeft(move, [f |-> f, b |-> 0], places)
  IN  Result(s.f, s.b # 0)

loop_invariant_code_motion(f) == OnLoops(f, MoveInvariants)

-----------------------------------------------------------------------------
(* loop_induction_variables_optimization.                                  *)

(* The statements where j becomes tj: not the increment of the basic       *)
(* variable, and the definition of j only right after it.                  *)
Renamed(code, basic, def, j, tj) ==
  [k \in DOMAIN code |->
     IF \/ code[k].uid = basic
        \/ code[k].uid = def /\ (k = 1 \/ code[k - 1].uid # basic)
     THEN code[k] ELSE replace(code[k], j, tj)]

(* j is e * i + d: it becomes the copy of a temporary that is increased    *)
(* with i.                                                                 *)
ReduceOne(f, loop, i, j) ==
  LET basic == loop.biv[i]
      eq == loop.div[j]
      tj == new_temporary(f, "int")
      p == find(f, eq.def)
      copied == Put_(with_temporary(f, "int"), p,
                     right(At(f, p), "ASSIGN", var(tj), None))
      step == Quadruple("ADD", tj, var(tj), int(eq.e * basic.d))
      rewrite(code) ==
        LET new == Renamed(code, basic.def, eq.def, j, tj)
        IN  IF \E k \in DOMAIN code : code[k].uid = basic.def
            THEN InsertAt(new, Len(new), step) ELSE new
      renamed == [copied EXCEPT !.code =
                    [b \in DOMAIN @ |-> IF Inside(loop, b) THEN rewrite(@[b]) ELSE @[b]]]
      h == find_safe_preheader(renamed, loop)
  IN  [h.f EXCEPT !.code[h.b] =
         @ \o <<Quadruple("MUL", tj, int(eq.e), var(i)),
                Quadruple("ADD", tj, var(tj), int(eq.d))>>]

strength_reduce(f, l, i) ==
  LET S == {j \in DOMAIN f.loops[l].div : f.loops[l].div[j].i = i}
  IN  FoldSet(LAMBDA j, g : ReduceOne(g, g.loops[l], i, j), f, S)

(* A sum that only its own statement reads goes, and so does a dependent   *)
(* variable that is read once.                                             *)
induction_variable_removal(f, l) ==
  LET loop == f.loops[l]
      blocks == ToSet(loop.blocks)
      alone(p) == LET q == At(f, p)
                  IN  /\ p[1] \in blocks /\ q.op = "ADD" /\ is(q.a1, q.res)
                      /\ read_usage(f, blocks, q.res) = 1
                      /\ read_usage(f, Blocks(f), q.res) = 1
      gone == {p \in Places(f) : alone(p)}
      named == {At(f, p).res : p \in gone}
      once == {j \in DOMAIN loop.div \ named : read_usage(f, blocks, j) = 1}
      nops == gone \union {find(f, loop.div[j].def) : j \in once}
  IN  [f EXCEPT !.code = [b \in DOMAIN @ |->
                            [k \in DOMAIN @[b] |->
                               IF <<b, k>> \in nops
                               THEN [transform_to_nop EXCEPT !.uid = @[b][k].uid] ELSE @[b][k]]],
                !.loops[l].div = Drop(@, named \union once)]

(* The basic variable only counts: the condition is put on a variable that *)
(* depends on it.                                                          *)
induction_variable_replace(f, l) ==
  LET loop == f.loops[l]
      b == loop.blocks[Len(loop.blocks)]
      q == Last_(f, b)
      i == IF isVariable(q.a1) THEN q.a1[2] ELSE q.a2[2]
      end == IF isVariable(q.a1) THEN q.a2[2] ELSE q.a1[2]
      counted == /\ q.op \in {"IF", "IF_FALSE"} /\ q.rel \in Relations
                 /\ (isVariable(q.a1) /\ isInt(q.a2)) \/ (isInt(q.a1) /\ isVariable(q.a2))
                 /\ i \in DOMAIN loop.biv /\ loop.biv[i].d > 0
                 /\ read_usage(f, ToSet(loop.blocks), i) = 2
      S == {j \in DOMAIN loop.div : /\ loop.div[j].i = i /\ loop.div[j].e > 0
                                    /\ At(f, find(f, loop.div[j].def)).op # "NOP"}
      j == CHOOSE j \in S : TRUE
      bound == int(loop.div[j].e * (end - 1) + loop.div[j].d)
      new == IF isVariable(q.a1) THEN [q EXCEPT !.a1 = var(j), !.a2 = bound]
             ELSE [q EXCEPT !.a1 = bound, !.a2 = var(j)]
      g == [f EXCEPT !.code[b][Len(f.code[b])] = new]
  IN  IF ~counted \/ S = {} THEN f
      ELSE [Put_(g, find(g, loop.biv[i].def),
                 [transform_to_nop EXCEPT !.uid = loop.biv[i].def])
              EXCEPT !.loops[l].biv = Drop(@, {i})]

OptimizeInduction(f, l) ==
  LET reduced == FoldSet(LAMBDA i, g : strength_reduce(g, l, i), f, DOMAIN f.loops[l].biv)
  IN  Result(induction_variable_replace(induction_variable_removal(reduced, l), l),
             reduced # f)

loop_induction_variables_optimization(f) == OnLoops(f, OptimizeInduction)

-----------------------------------------------------------------------------
(* remove_empty_loops and loop_unrolling: loops of one block.              *)

Kept(f, removed) == [f EXCEPT !.loops = SelectSeq(@, LAMBDA l : l \notin removed)]

EmptyLoop(f, loop) ==
  LET code == f.code[loop.blocks[1]]
      q == First(code, LAMBDA s : s.op # "NOP")
  IN  /\ Len(loop.blocks) = 1
      /\ Cardinality({k \in DOMAIN code : code[k].op # "NOP"}) = 2
      /\ loop.estimate > 0
      /\ q.res \in DOMAIN loop.biv

EmptyALoop(f, loop) ==
  LET b == loop.blocks[1]
      x == First(f.code[b], LAMBDA s : s.op # "NOP").res
      eq == loop.biv[CHOOSE y \in DOMAIN loop.biv : TRUE]
  IN  remove_edge([f EXCEPT !.code[b] =
                     <<Quadruple("ASSIGN", x, int(loop.initial + loop.estimate * eq.d), None)>>],
                  b, b)

remove_empty_loops(f) ==
  LET removed == {loop \in ToSet(f.loops) : EmptyLoop(f, loop)}
  IN  Result(Kept(FoldSet(LAMBDA loop, g : EmptyALoop(g, loop), f, removed), removed),
             removed # {})

UnrollFrom == 100
UnrollSize == 20

unroll_factor(n) == IF n % 8 = 0 THEN 8 ELSE IF n % 4 = 0 THEN 4 ELSE IF n % 2 = 0 THEN 2 ELSE 0

Unroll(f, l) ==
  LET loop == f.loops[l]
      code == f.code[loop.blocks[1]]
      n == unroll_factor(loop.estimate)
      body == [k \in DOMAIN Front(code) |-> Copy(code[k])]
  IN  IF /\ Len(loop.blocks) = 1 /\ loop.estimate > UnrollFrom
         /\ Len(code) < UnrollSize /\ n # 0
      THEN Result([f EXCEPT !.code[loop.blocks[1]] =
                     FlattenSeq([i \in 1 .. n |-> body]) \o <<Last(code)>>], TRUE)
      ELSE Result(f, FALSE)

loop_unrolling(f) == OnLoops(f, Unroll)

-----------------------------------------------------------------------------
(* loop_unswitching.                                                       *)

retarget(code, from, to) == [k \in DOMAIN code |->
                               IF code[k].to = from THEN [code[k] EXCEPT !.to = to] ELSE code[k]]

Unswitchable(f, loop) ==
  LET entry == find_entry(f, loop)
      exit == find_exit(f, loop)
      q == f.code[entry][1]
      fixed(a) == isVariable(a) => write_usage(f, ToSet(loop.blocks), a[2]) = 0
  IN  /\ single_exit(f, loop)
      /\ Len(f.code[entry]) = 1
      /\ Len(f.succ[entry]) = 2 /\ Len(f.pred[exit]) = 2
      /\ ToSet(f.succ[entry]) = ToSet(f.pred[exit])
      /\ q.op \in {"IF", "IF_FALSE"}
      /\ fixed(q.a1) /\ fixed(q.a2)

(* The exit is copied: one alternative loops with the copy, the other one  *)
(* with the exit; a new block leaves the first of the two loops.  The edge *)
(* from the exit to the second alternative is kept at one end only.        *)
Unswitch(f, loop) ==
  LET entry == find_entry(f, loop)
      exit == find_exit(f, loop)
      swap == next(f, f.succ[entry][2]) = f.succ[entry][1]
      one == IF swap THEN f.succ[entry][2] ELSE f.succ[entry][1]
      two == IF swap THEN f.succ[entry][1] ELSE f.succ[entry][2]
      after == next(f, exit)
      code == f.code[exit]
      succ == Without(f.succ[exit], entry)
      cut == [f EXCEPT !.pred[entry] = Without(@, entry),
                       !.succ[entry] = Without(@, exit),
                       !.succ[exit] = Append(succ, two),
                       !.code[exit] = retarget(code, entry, two),
                       !.code[one] = Front(@)]
      copy == insert_after(cut, one,
                           [k \in DOMAIN code |-> Copy(retarget(code, entry, one)[k])],
                           Append(succ, one), Front(Without(f.pred[exit], two)))
      c == copy.index
      leave == insert_after([copy EXCEPT !.pred[one] = Append(@, c)], c, <<Goto(after)>>,
                            <<>>, <<>>)
      n == leave.index
      linked == make_edge(remove_edge(leave, one, exit), one, c)
  IN  make_edge(make_edge(remove_edge(linked, c, after), n, after), c, n)

UnswitchLoop(f, l) ==
  IF Unswitchable(f, f.loops[l]) THEN Result(Unswitch(f, f.loops[l]), TRUE)
  ELSE Result(f, FALSE)

loop_unswitching(f) == OnLoops(f, UnswitchLoop)

-----------------------------------------------------------------------------
(* complete_loop_peeling: the body is repeated as often as the loop        *)
(* iterates.                                                               *)

PeelBelow == 12

Peelable(f, loop) ==
  single_exit(f, loop) /\ loop.estimate > 0 /\ loop.estimate < PeelBelow

(* One copy of the blocks after the preheader, in front of the copies made *)
(* so far; s: [f, entry].                                                  *)
CopyBody(loop, exit, real_entry, after, preheader, s) ==
  LET k == Len(loop.blocks)
      clone(b) == s.f.index + 1 + k - (CHOOSE i \in 1 .. k : loop.blocks[i] = b)
      map(b) == IF Inside(loop, b) THEN clone(b) ELSE b
      add(f, b) ==
        insert_after(f, preheader,
          [j \in DOMAIN f.code[b] |-> [Copy(f.code[b][j]) EXCEPT !.to = map(@)]],
          [j \in DOMAIN f.succ[b] |-> IF f.succ[b][j] = after THEN s.entry
                                      ELSE map(f.succ[b][j])],
          [j \in DOMAIN f.pred[b] |-> map(f.pred[b][j])])
      f == FoldLeft(add, s.f, Reverse(loop.blocks))
  IN  [f |-> IF s.entry = real_entry THEN f
             ELSE [f EXCEPT !.pred[s.entry] =
                     [j \in DOMAIN @ |-> IF @[j] = preheader THEN clone(exit) ELSE @[j]]],
       entry |-> clone(real_entry)]

Peel(f, loop) ==
  LET exit == find_exit(f, loop)
      entry == find_entry(f, loop)
      after == First(f.succ[exit], LAMBDA b : ~Inside(loop, b))
      open == remove_edge([f EXCEPT !.code[exit] = Front(@)], exit, entry)
      h == find_safe_preheader(open, loop)
      s == FoldLeft(LAMBDA t, i : CopyBody(loop, exit, entry, after, h.b, t),
                    [f |-> h.f, entry |-> entry], [i \in 1 .. loop.estimate - 1 |-> i])
      before == prev(s.f, entry)
      linked == IF loop.estimate = 1 THEN s.f
                ELSE [s.f EXCEPT !.succ[h.b][1] = s.entry]
  IN  [linked EXCEPT !.pred[entry] =
         [j \in DOMAIN @ |-> IF @[j] = h.b THEN before ELSE @[j]]]

complete_loop_peeling(f) ==
  LET removed == {loop \in ToSet(f.loops) : Peelable(f, loop)}
  IN  Result(FoldSet(LAMBDA loop, g : Kept(Peel(g, loop), {loop}), f, removed),
             removed # {})
=============================================================================
