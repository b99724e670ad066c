------------------------------- MODULE Inlining -------------------------------
(***************************************************************************)
(* The interprocedural passes that rewrite the callers: inline_functions,  *)
(* parameter_propagation and remove_empty_functions.                       *)
(*                                                                         *)
(* A program is a function from names to functions.  The arguments of a    *)
(* CALL are looked for backwards from it, or from the end of the previous  *)
(* block when it is the first of its own.  Parameters of type string,      *)
(* which are passed as two words, are left out.                            *)
(***************************************************************************)
EXTENDS LoopPasses

Passes(q) == q.op \in {"PARAM", "PPARAM"}
Calls(f, fn) == {p \in Places(f) : At(f, p).op = "CALL" /\ At(f, p).fn = fn}
Arity(P, fn) == Len(P[fn].params)

(* The places before a CALL, nearest first, and the first n PARAMs there.  *)
Before(f, p) ==
  LET b == IF p[2] = 1 THEN prev(f, p[1]) ELSE p[1]
      last == IF p[2] = 1 THEN Len(f.code[b]) ELSE p[2] - 1
  IN  [k \in 1 .. last |-> <<b, last + 1 - k>>]
Passed(f, p, n) ==
  LET found == SelectSeq(Before(f, p), LAMBDA r : Passes(At(f, r)))
  IN  SubSeq(found, 1, IF n < Len(found) THEN n ELSE Len(found))

(* VariableReplace: values is a function from variables to arguments.      *)
NamedBy(x, values) == IF x \in DOMAIN values /\ isVariable(values[x]) THEN values[x][2] ELSE x
Valued(a, values) == IF isVariable(a) /\ a[2] \in DOMAIN values THEN values[a[2]] ELSE a
VariableReplace(q, values) ==
  [q EXCEPT !.res = NamedBy(@, values), !.sec = NamedBy(@, values),
            !.a1 = Valued(@, values), !.a2 = Valued(@, values)]

-----------------------------------------------------------------------------
(* inline_functions: whether.                                              *)

SmallFunction == 12
depth(f, b) == Cardinality({l \in DOMAIN f.loops : Inside(f.loops[l], b)})
in_edges(P, fn) == {g \in DOMAIN P : Calls(P[g], fn) # {}}

count_constant_parameters(f, p, n) ==
  Cardinality({r \in ToSet(Passed(f, p, n)) :
                 At(f, r).res.type \in {"int", "float"} /\ ~isVariable(At(f, r).a1)})

can_be_inlined(P, fn) ==
  /\ fn # "main"
  /\ \A i \in DOMAIN P[fn].params : P[fn].params[i].type # "struct"
  /\ Calls(P[fn], fn) = {}

will_inline(P, dest, fn, p) ==
  LET caller == size(P[dest])
      callee == size(P[fn])
  IN  /\ dest # fn
      /\ can_be_inlined(P, fn)
      /\ IF count_constant_parameters(P[dest], p, Arity(P, fn)) = Arity(P, fn)
         THEN callee < 100 /\ caller < 300
         ELSE IF depth(P[dest], p[1]) > 1 THEN caller < 250 /\ callee < 75
         ELSE IF depth(P[dest], p[1]) > 0 THEN caller < 150 /\ callee < 50
         ELSE IF Cardinality(in_edges(P, fn)) = 1 THEN caller < 100 /\ callee < 100
         ELSE callee < SmallFunction /\ caller < 200

-----------------------------------------------------------------------------
(* inline_functions: how.                                                  *)

(* A new block with code after b takes the successors of b.                *)
TakeSuccessors(f, b, code) ==
  LET n == f.index + 1
      moved == FoldLeft(LAMBDA g, s : remove_edge(make_edge(g, n, s), b, s),
                        insert_after(f, b, code, <<>>, <<>>), f.succ[b])
  IN  make_edge(moved, b, n)

(* [f, b]: the CALL is gone and b is the block of what came after it.      *)
split_if_necessary(f, p) ==
  LET code == f.code[p[1]]
      nops(from) == [k \in DOMAIN code |-> IF k >= from THEN transform_to_nop ELSE code[k]]
      rest == TakeSuccessors(f, p[1], SubSeq(code, p[2] + 1, Len(code)))
  IN  IF p[2] = 1 THEN [f |-> [f EXCEPT !.code[p[1]][1] = transform_to_nop], b |-> p[1]]
      ELSE [f |-> [rest EXCEPT !.code[p[1]] = nops(p[2])], b |-> rest.index]

create_safe_block(f, b) ==
  LET g == TakeSuccessors(f, b, f.code[b]) IN [f |-> [g EXCEPT !.code[b] = <<>>], b |-> g.index]

(* One argument: arrays keep their name, other values are copied to a      *)
(* temporary; s: [f, values].                                              *)
CopyParameter(s, r) ==
  LET q == At(s.f, r)
      x == new_temporary(s.f, q.res.type)
      op == CASE q.res.type = "int" -> "ASSIGN"
              [] q.res.type = "pointer" -> "PASSIGN"
              [] OTHER -> "FASSIGN"
  IN  IF q.res.type = "array"
      THEN [f |-> Put_(s.f, r, transform_to_nop), values |-> Bind(s.values, q.res, q.a1)]
      ELSE [f |-> Put_(with_temporary(s.f, x.type), r, Quadruple(op, x, q.a1, None)),
            values |-> Bind(s.values, q.res, var(x))]

copy_parameters(f, b, callee) ==
  FoldLeft(CopyParameter, [f |-> f, values |-> << >>],
           Passed(f, <<b, 1>>, Len(callee.params)))

(* The variables of the callee get storage in the caller.                  *)
CloneVariable(s, x) ==
  LET y == [x EXCEPT !.name = IF x.at = "temporary" THEN "t" ELSE "g_" \o x.name,
                     !.no = s.f.temporary]
  IN  [f |-> [s.f EXCEPT !.temporary = @ + 1, !.storage = Append(@, y)],
       values |-> Bind(s.values, x, var(y))]

(* The blocks of the callee in front of safe; what led to EXIT leads to    *)
(* safe, what ENTRY led to follows the block before it.                    *)
clone(f, callee, safe) ==
  LET blocks == SelectSeq(callee.list, LAMBDA b : b > 0)
      entry == prev(f, safe)
      new(b) == IF b = EXIT THEN safe ELSE IF b = ENTRY THEN entry
                ELSE f.index + (CHOOSE i \in DOMAIN blocks : blocks[i] = b)
      all(s) == [i \in DOMAIN s |-> new(s[i])]
      add(g, b) == insert_before(g, safe,
                     [k \in DOMAIN callee.code[b] |->
                        LET q == Copy(callee.code[b][k])
                        IN  IF q.to = 0 \/ q.to = EXIT THEN q ELSE [q EXCEPT !.to = new(@)]],
                     all(callee.succ[b]), all(callee.pred[b]))
      times(s, b, n) == [i \in DOMAIN SelectSeq(s, LAMBDA c : c = b) |-> n]
      joined(g, b) == [g EXCEPT !.pred[safe] = @ \o times(callee.succ[b], EXIT, new(b)),
                                !.succ[entry] = @ \o times(callee.pred[b], ENTRY, new(b))]
  IN  FoldLeft(joined, FoldLeft(add, remove_edge(f, entry, safe), blocks), blocks)

(* A RETURN of the callee: its values are assigned to the results of the   *)
(* CALL, and control goes to safe.                                         *)
ReturnFrom(q, call, safe) ==
  LET op == CASE call.res.type = "float" -> "FASSIGN"
              [] call.res.type = "pointer" -> "PASSIGN"
              [] OTHER -> "ASSIGN"
      give(x, a) == IF x = NoVariable THEN <<>> ELSE <<Quadruple(op, x, a, None)>>
  IN  give(call.res, q.a1) \o give(call.sec, q.a2) \o <<Goto(safe)>>

(* Faulty variant: what returned still has the edge to the block after it. *)
adapt_instructions_edges(f, values, n, call, safe) ==
  LET blocks == SubSeq(f.list, position(f, safe) - n, position(f, safe) - 1)
      adapted(q) == LET r == VariableReplace(q, values)
                    IN  IF r.op = "RETURN" THEN ReturnFrom(r, call, safe) ELSE <<r>>
  IN  FoldLeft(LAMBDA g, b :
                 [g EXCEPT !.code[b] = FlattenSeq([k \in DOMAIN @ |-> adapted(@[k])])],
               f, blocks)

adapt_instructions(f, values, n, call, safe) ==
  LET blocks == SubSeq(f.list, position(f, safe) - n, position(f, safe) - 1)
      adapted(q) == LET r == VariableReplace(q, values)
                    IN  IF r.op = "RETURN" THEN ReturnFrom(r, call, safe) ELSE <<r>>
      adapt(g, b) ==
        LET h == [g EXCEPT !.code[b] = FlattenSeq([k \in DOMAIN @ |-> adapted(@[k])])]
        IN  FoldLeft(LAMBDA e, k : make_edge(remove_edge(e, b, next(e, b)), b, safe), h,
                     SelectSeq(f.code[b], LAMBDA q : q.op = "RETURN"))
  IN  FoldLeft(adapt, f, Reverse(blocks))

Inline(P, dest, fn, p) ==
  LET callee == P[fn]
      call == At(P[dest], p)
      split == split_if_necessary(P[dest], p)
      passed == copy_parameters(split.f, split.b, callee)
      stored == FoldLeft(CloneVariable, passed, callee.storage)
      safe == create_safe_block(stored.f, split.b)
      n == Len(callee.list) - 2
  IN  [P EXCEPT ![dest] =
         adapt_instructions(clone(safe.f, callee, safe.b), stored.values, n, call, safe.b)]

(* call_site_inlining, until there is no CALL left to inline.              *)
RECURSIVE InlineInto(_, _, _)
InlineInto(P, dest, fn) ==
  LET f == P[dest]
      S == {p \in Calls(f, fn) : will_inline(P, dest, fn, p)}
      first == CHOOSE p \in S : \A r \in S : \/ position(f, p[1]) < position(f, r[1])
                                             \/ p[1] = r[1] /\ p[2] <= r[2]
  IN  IF S = {} THEN P ELSE InlineInto(Inline(P, dest, fn, first), dest, fn)

RECURSIVE ReachedFrom(_, _)
ReachedFrom(P, S) ==
  LET T == S \union {fn \in DOMAIN P : \E g \in S : Calls(P[g], fn) # {}}
  IN  IF T = S THEN S ELSE ReachedFrom(P, T)
reachable(P) == ReachedFrom(P, {"main"})

(* Callees first; the programs have no cycles but of one function.         *)
topological_order(P) ==
  CHOOSE s \in SetToSeqs(reachable(P)) :
    \A i, j \in DOMAIN s : i < j => Calls(P[s[i]], s[j]) = {}

inline_functions(P) ==
  LET order == topological_order(P)
      into(Q, fn) == FoldLeft(LAMBDA R, g : IF g = fn THEN R ELSE InlineInto(R, g, fn), Q, order)
      Q == FoldLeft(into, P, order)
  IN  [P |-> Q, optimized |-> Q # P]

remove_unused_functions(P) ==
  [P |-> [fn \in reachable(P) |-> P[fn]], optimized |-> reachable(P) # DOMAIN P]

-----------------------------------------------------------------------------
(* parameter_propagation: a parameter of type int that is the same         *)
(* constant in every CALL.  Parameters are numbered from 0, the one that   *)
(* is pushed last.                                                         *)

AllCalls(P, fn) == UNION {{<<g, p>> : p \in Calls(P[g], fn)} : g \in DOMAIN P}
argument(P, fn, c, i) ==
  LET at == Passed(P[c[1]], c[2], Arity(P, fn))
      q == At(P[c[1]], at[i + 1])
  IN  IF i + 1 \in DOMAIN at /\ q.res.type = "int" THEN q.a1 ELSE None

constant_parameters(P, fn) ==
  {i \in 0 .. Arity(P, fn) - 1 :
     LET given == {argument(P, fn, c, i) : c \in AllCalls(P, fn)}
     IN  Cardinality(given) = 1 /\ \A a \in given : isInt(a)}

WithoutParameter(P, fn, i) ==
  LET drop(f) == FoldSet(LAMBDA p, g : Put_(g, Passed(f, p, Arity(P, fn))[i + 1], transform_to_nop),
                         f, Calls(f, fn))
      Q == [g \in DOMAIN P |-> drop(P[g])]
  IN  [Q EXCEPT ![fn].params = RemoveAt(@, i + 1)]

(* The last parameter first, so that the numbers of the others hold.       *)
PropagateInto(P, fn) ==
  LET S == constant_parameters(P, fn)
      value(i) == argument(P, fn, CHOOSE c \in AllCalls(P, fn) : TRUE, i)
      values == [x \in {P[fn].params[i + 1] : i \in S} |->
                   value(CHOOSE i \in S : P[fn].params[i + 1] = x)]
      replaced == [P EXCEPT ![fn].code =
                     [b \in DOMAIN @ |-> [k \in DOMAIN @[b] |-> VariableReplace(@[b][k], values)]]]
  IN  FoldLeft(LAMBDA Q, i : WithoutParameter(Q, fn, i), replaced,
               Reverse(SetToSortSeq(S, <)))

parameter_propagation(P) ==
  LET S == {fn \in DOMAIN P : Arity(P, fn) > 0 /\ AllCalls(P, fn) # {}
                              /\ constant_parameters(P, fn) # {}}
  IN  [P |-> FoldSet(LAMBDA fn, Q : PropagateInto(Q, fn), P, S), optimized |-> S # {}]

-----------------------------------------------------------------------------
(* remove_empty_functions: as many statements as the function has          *)
(* parameters are erased in front of each CALL, whatever they are.         *)

EraseCall(f, n, p) ==
  LET code == f.code[p[1]]
      b == prev(f, p[1])
      rest == SubSeq(code, p[2] + 1, Len(code))
  IN  IF n > 0 /\ p[2] = 1
      THEN [f EXCEPT !.code[b] = SubSeq(@, 1, Len(@) - n), !.code[p[1]] = rest]
      ELSE [f EXCEPT !.code[p[1]] = SubSeq(code, 1, p[2] - 1 - n) \o rest]

RECURSIVE EraseCalls(_, _, _)
EraseCalls(f, n, fn) ==
  LET S == Calls(f, fn)
  IN  IF S = {} THEN f ELSE EraseCalls(EraseCall(f, n, CHOOSE p \in S : TRUE), n, fn)

(* Faulty variant: only the CALLs go.                                      *)
remove_empty_functions_calls(P) ==
  LET S == {fn \in DOMAIN P \ {"main"} : size_no_nop(P[fn]) = 0}
      kept == [g \in DOMAIN P \ S |-> P[g]]
      erased(f) == FoldSet(LAMBDA fn, h : EraseCalls(h, 0, fn), f, S)
  IN  [P |-> [g \in DOMAIN kept |-> erased(kept[g])], optimized |-> S # {}]

remove_empty_functions(P) ==
  LET S == {fn \in DOMAIN P \ {"main"} : size_no_nop(P[fn]) = 0}
      kept == [g \in DOMAIN P \ S |-> P[g]]
      erased(f) == FoldSet(LAMBDA fn, h : EraseCalls(h, Arity(P, fn), fn), f, S)
  IN  [P |-> [g \in DOMAIN kept |-> erased(kept[g])], optimized |-> S # {}]
=============================================================================
