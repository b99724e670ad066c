--------------------------- MODULE Subexpressions ---------------------------
(***************************************************************************)
(* local_cse, global_cse and remove_aliases.                               *)
(*                                                                         *)
(* An expression is what a statement computes; tmp is the temporary that   *)
(* holds it and at the index of the statement that computed it first, in   *)
(* the block that local_cse is rewriting.                                  *)
(***************************************************************************)
EXTENDS Propagation

is_expression(op) == op \in IntArithmetic \union FloatArithmetic \union {"DOT"}
is_commutative(op) == op \in {"ADD", "FADD", "MUL", "FMUL"}
is_interesting(q) == isVariable(q.a1) \/ isVariable(q.a2)

is_valid(q, escaped) ==
  /\ ~(q.op = "DOT" /\ isVariable(q.a1) /\ q.a1[2].type = "pointer")
  /\ \A a \in {q.a1, q.a2} : isVariable(a) => a[2] \notin escaped

Counts(q, escaped) == is_expression(q.op) /\ is_interesting(q) /\ is_valid(q, escaped)

assign_op(op) == IF op \in FloatArithmetic THEN "FASSIGN" ELSE "ASSIGN"

Expression(q) == [op |-> q.op, a1 |-> q.a1, a2 |-> q.a2, type |-> q.res.type]

are_equivalent(q, e) ==
  /\ q.op = e.op /\ q.res.type = e.type
  /\ \/ q.a1 = e.a1 /\ q.a2 = e.a2
     \/ is_commutative(q.op) /\ q.a1 = e.a2 /\ q.a2 = e.a1

is_killing(q, e) == is(e.a1, q.res) \/ is(e.a2, q.res)

Kills(q) == erase_result(q.op) \/ q.op \in Stores

Named(q, x) == right(q, assign_op(q.op), var(x), None)
Compute(x, e) == Quadruple(e.op, x, e.a1, e.a2)

-----------------------------------------------------------------------------
(* local_cse: the second computation of an expression makes the first one  *)
(* go through a temporary.  known: the expressions of the block so far.    *)

Share(s, k, q) ==
  LET e == s.known[k]
      x == new_temporary(s.f, e.type)
      shift(d) == [d EXCEPT !.at = IF @ >= e.at THEN @ + 1 ELSE @]
  IN  IF e.tmp # NoVariable
      THEN [s EXCEPT !.code = Append(@, Named(q, e.tmp)), !.optimized = TRUE]
      ELSE [f |-> with_temporary(s.f, e.type),
            code |-> Append(InsertAt([s.code EXCEPT ![e.at] = Named(@, x)], e.at,
                                     Compute(x, e.e)),
                            Named(q, x)),
            known |-> [[i \in DOMAIN s.known |-> shift(s.known[i])] EXCEPT ![k].tmp = x],
            optimized |-> TRUE]

ShareStatement(escaped, s, q) ==
  LET same == {k \in DOMAIN s.known : are_equivalent(q, s.known[k].e)}
      t == IF ~Counts(q, escaped) THEN [s EXCEPT !.code = Append(@, q)]
           ELSE IF same # {} THEN Share(s, CHOOSE k \in same : \A l \in same : k <= l, q)
           ELSE [s EXCEPT !.code = Append(@, q),
                          !.known = Append(@, [e |-> Expression(q), type |-> q.res.type,
                                               tmp |-> NoVariable, at |-> Len(s.code) + 1])]
  IN  IF ~Kills(q) THEN t
      ELSE [t EXCEPT !.known = SelectSeq(@, LAMBDA k : ~is_killing(q, k.e))]

local_cse(f) ==
  LET escaped == escape_analysis(f)
      ofBlock(r, b) ==
        LET s == FoldLeft(LAMBDA a, q : ShareStatement(escaped, a, q),
                          [f |-> r.f, code |-> <<>>, known |-> <<>>, optimized |-> FALSE],
                          r.f.code[b])
        IN  Result([s.f EXCEPT !.code[b] = s.code], r.optimized \/ s.optimized)
  IN  FoldLeft(ofBlock, Result(f, FALSE), f.list)

-----------------------------------------------------------------------------
(* global_cse: available expressions, in Boundary (Eval and Kill),         *)
(* transfer and meet; then one that is available where it is computed is   *)
(* kept in a temporary by every block it comes from.                       *)

Eval(f) ==
  LET escaped == escape_analysis(f)
      after(S, q) ==
        LET T == IF Counts(q, escaped) THEN S \union {Expression(q)} ELSE S
        IN  IF Kills(q) THEN {e \in T : ~is_killing(q, e)} ELSE T
  IN  [b \in Blocks(f) |-> FoldLeft(after, {}, f.code[b])]

Kill(f, eval) ==
  [b \in Blocks(f) |->
     {e \in UNION {eval[c] : c \in Blocks(f) \ {b}} :
        \E i \in DOMAIN f.code[b] :
          Kills(f.code[b][i]) /\ is_killing(f.code[b][i], e)}]

(* The greatest solution, that the solver comes down to from all           *)
(* expressions: what is available at the start of a block.                 *)
RECURSIVE Available(_, _, _, _)
Available(f, eval, kill, out) ==
  LET in(b) == LET P == ToSet(f.pred[b])
               IN  {e \in UNION Range(out) : P # {} /\ \A p \in P : e \in out[p]}
      new == [b \in Blocks(f) |-> IF b = ENTRY THEN {}
                                  ELSE IF f.pred[b] = <<>> THEN out[b]
                                  ELSE eval[b] \union (in(b) \ kill[b])]
  IN  IF new = out THEN [b \in Blocks(f) |-> in(b)] ELSE Available(f, eval, kill, new)

(* search_path: the blocks that compute it last on the paths to the block. *)
RECURSIVE Origins(_, _, _, _)
Origins(f, e, todo, visited) ==
  LET computes(b) == \E i \in DOMAIN f.code[b] : are_equivalent(f.code[b][i], e)
      new == todo \ visited
      on == UNION {ToSet(f.pred[b]) : b \in {c \in new : ~computes(c)}}
  IN  IF new = {} THEN {} 
      ELSE {b \in new : computes(b)} \union Origins(f, e, on, visited \union new)

KeepIn(f, b, e, x) ==
  LET S == {i \in DOMAIN f.code[b] : are_equivalent(f.code[b][i], e)}
      i == CHOOSE i \in S : \A j \in S : j <= i
  IN  [f EXCEPT !.code[b] = InsertAt([@ EXCEPT ![i] = Named(@, x)], i, Compute(x, e))]

(* An expression of the block that is available at its start.              *)
Eliminate(f, b, e) ==
  LET S == {i \in DOMAIN f.code[b] : are_equivalent(f.code[b][i], e)}
      i == CHOOSE i \in S : \A j \in S : i <= j
      killed == \E j \in 1 .. i - 1 : Kills(f.code[b][j]) /\ is_killing(f.code[b][j], e)
      x == new_temporary(f, e.type)
      named == [with_temporary(f, e.type) EXCEPT !.code[b][i] = Named(@, x)]
      origins == Origins(f, e, ToSet(f.pred[b]), {b})
  IN  IF S = {} \/ killed THEN f
      ELSE FoldSet(LAMBDA c, g : KeepIn(g, c, e, x), named, origins)

global_cse(f) ==
  LET eval == Eval(f)
      all == UNION Range(eval)
      in == Available(f, eval, Kill(f, eval),
                      [b \in Blocks(f) |-> IF b = ENTRY THEN {} ELSE all])
      found == {<<b, e>> \in Blocks(f) \X all : e \in eval[b] /\ e \in in[b]}
      ofBlock(g, b) == FoldSet(LAMBDA p, h : Eliminate(h, b, p[2]), g,
                               {p \in found : p[1] = b})
  IN  Result(FoldLeft(ofBlock, f, f.list), found # {})

-----------------------------------------------------------------------------
(* remove_aliases: a variable that is written once and copied once is      *)
(* replaced by its copy, where the copy is written once too.               *)

Writes(q, x) ==
  IF q.op = "CALL" THEN q.res = x \/ q.sec = x ELSE erase_result(q.op) /\ q.res = x

is_written_once(f, x) == Cardinality({p \in Places(f) : Writes(At(f, p), x)}) <= 1

CopiesOf(f, x) ==
  {p \in Places(f) : At(f, p).op \in {"ASSIGN", "FASSIGN", "PASSIGN"} /\ is(At(f, p).a1, x)}

replace(q, x, y) ==
  [q EXCEPT !.res = IF @ = x THEN y ELSE @,
            !.sec = IF @ = x /\ q.op = "CALL" THEN y ELSE @,
            !.a1 = IF is(@, x) THEN var(y) ELSE @,
            !.a2 = IF is(@, x) THEN var(y) ELSE @]

replaceable(f, x) ==
  /\ x.at \in {"temporary", "local"} /\ x.type \in {"int", "float", "pointer"}
  /\ is_written_once(f, x)
  /\ Cardinality(CopiesOf(f, x)) = 1
  /\ x \notin escape_analysis(f)
  /\ LET y == At(f, CHOOSE p \in CopiesOf(f, x) : TRUE).res
     IN  /\ ~\E p \in Places(f) : At(f, p).op = "PASSIGN" /\ At(f, p).res = x /\ is(At(f, p).a1, y)
         /\ is_written_once(f, y) /\ y.type # "string"

(* The addresses taken are those before the pass.                          *)
remove_aliases(f) ==
  LET escaped == escape_analysis(f)
      ofVariable(r, x) ==
        IF x \in escaped \/ ~replaceable(r.f, x) THEN r
        ELSE LET y == At(r.f, CHOOSE p \in CopiesOf(r.f, x) : TRUE).res
                 g == [r.f EXCEPT !.code =
                         [b \in DOMAIN @ |-> [i \in DOMAIN @[b] |-> replace(@[b][i], x, y)]]]
             IN  Result(g, r.optimized \/ g # r.f)
  IN  FoldLeft(ofVariable, Result(f, FALSE), f.storage)

(* clean_variables: the variables that occur nowhere are forgotten.        *)
clean_variables(f) ==
  Result([f EXCEPT !.storage = SelectSeq(@, LAMBDA x : variable_usage(f, x) > 0)],
         FALSE)
=============================================================================
