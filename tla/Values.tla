------------------------------- MODULE Values -------------------------------
(***************************************************************************)
(* The passes that look at one statement or one block at a time:           *)
(* ArithmeticIdentities, ReduceInStrength, ConstantFolding,                *)
(* PointerPropagation, MathPropagation and conditional_propagation.        *)
(*                                                                         *)
(* A pass gives [f, optimized]: the function and what it answers.          *)
(***************************************************************************)
EXTENDS Quadruples

Bind(g, x, v) == x :> v @@ g
Forget(g, x) == [y \in DOMAIN g \ {x} |-> g[y]]

Result(f, optimized) == [f |-> f, optimized |-> optimized]

(* pass_runner: a pass on statements, and one on blocks with a state of    *)
(* its own.  Visit(q) and Visit(q, s) give [q, optimized (, s)].           *)
LOCAL_PASS(f, Visit(_)) ==
  Result([f EXCEPT !.code = [b \in DOMAIN f.code |->
                               [i \in DOMAIN f.code[b] |-> Visit(f.code[b][i]).q]]],
         \E p \in Places(f) : Visit(At(f, p)).optimized)

Visited(code, s, Visit(_, _)) ==
  FoldLeft(LAMBDA done, q :
             LET v == Visit(q, done.s)
             IN  [code |-> Append(done.code, v.q), s |-> v.s,
                  optimized |-> done.optimized \/ v.optimized],
           [code |-> <<>>, s |-> s, optimized |-> FALSE], code)

BB_PASS(f, clear(_), Visit(_, _)) ==
  LET done == [b \in DOMAIN f.code |-> Visited(f.code[b], clear(b), Visit)]
  IN  Result([f EXCEPT !.code = [b \in DOMAIN f.code |-> done[b].code]],
             \E b \in Blocks(f) : done[b].optimized)

Same(q) == [q |-> q, optimized |-> FALSE]
Becomes(q) == [q |-> q, optimized |-> TRUE]
Assign(q, op, a) == Becomes(right(q, op, a, None))

-----------------------------------------------------------------------------
(* ArithmeticIdentities.  The rules of an operator are tried in order;     *)
(* assign, minus, zero and one are the operators and constants of its kind. *)
(* What a rule looks for is compared as an integer, also for floats: the   *)
(* operator== of Argument with a double asks for an int.                   *)

AddIdentities(q, assign) ==
  IF q.a1 = int(0) THEN Assign(q, assign, q.a2)
  ELSE IF q.a2 = int(0) THEN Assign(q, assign, q.a1)
  ELSE Same(q)

SubIdentities(q, assign, minus, zero) ==
  IF q.a2 = int(0) THEN Assign(q, assign, q.a1)
  ELSE IF q.a1 = q.a2 THEN Assign(q, assign, zero)
  ELSE IF q.a1 = int(0) THEN Assign(q, minus, q.a2)
  ELSE Same(q)

MulIdentities(q, assign, minus, zero) ==
  IF q.a1 = int(1) THEN Assign(q, assign, q.a2)
  ELSE IF q.a2 = int(1) THEN Assign(q, assign, q.a1)
  ELSE IF int(0) \in {q.a1, q.a2} THEN Assign(q, assign, zero)
  ELSE IF q.a1 = int(-1) THEN Assign(q, minus, q.a2)
  ELSE IF q.a2 = int(-1) THEN Assign(q, minus, q.a1)
  ELSE Same(q)

(* A float divided by -1 becomes the MINUS of integers.                    *)
DivIdentities(q, assign, zero, one) ==
  IF q.a2 = int(1) THEN Assign(q, assign, q.a1)
  ELSE IF q.a1 = int(0) THEN Assign(q, assign, zero)
  ELSE IF q.a1 = q.a2 THEN Assign(q, assign, one)
  ELSE IF q.a2 = int(-1) THEN Assign(q, "MINUS", q.a1)
  ELSE Same(q)

ArithmeticIdentity(q) ==
  CASE q.op \in {"ASSIGN", "PASSIGN", "FASSIGN"} ->
         Same(IF is(q.a1, q.res) THEN transform_to_nop ELSE q)
    [] q.op = "ADD" -> AddIdentities(q, "ASSIGN")
    [] q.op = "SUB" -> SubIdentities(q, "ASSIGN", "MINUS", int(0))
    [] q.op = "MUL" -> MulIdentities(q, "ASSIGN", "MINUS", int(0))
    [] q.op = "DIV" -> DivIdentities(q, "ASSIGN", int(0), int(1))
    [] q.op = "FADD" -> AddIdentities(q, "FASSIGN")
    [] q.op = "FSUB" -> SubIdentities(q, "FASSIGN", "FMINUS", float(0))
    [] q.op = "FMUL" -> MulIdentities(q, "FASSIGN", "FMINUS", float(0))
    [] q.op = "FDIV" -> DivIdentities(q, "FASSIGN", float(0), float(1))
    [] OTHER -> Same(q)

ArithmeticIdentities(f) == LOCAL_PASS(f, ArithmeticIdentity)

-----------------------------------------------------------------------------
(* ReduceInStrength: a remainder becomes a bit mask, a product with 2 a    *)
(* sum.                                                                    *)

isPowerOfTwo(n) == n > 0 /\ \E k \in 0 .. 30 : n = 2 ^ k

Doubled(q, add) ==
  IF q.a1 = int(2) THEN Becomes(right(q, add, q.a2, q.a2))
  ELSE IF q.a2 = int(2) THEN Becomes(right(q, add, q.a1, q.a1))
  ELSE Same(q)

Reduction(q) ==
  CASE q.op = "MOD" /\ isInt(q.a2) ->
         IF isPowerOfTwo(q.a2[2]) THEN Becomes(right(q, "AND", q.a1, int(q.a2[2] - 1)))
         ELSE Same(q)
    [] q.op = "MUL" -> Doubled(q, "ADD")
    [] q.op = "FMUL" -> Doubled(q, "FADD")
    [] OTHER -> Same(q)

ReduceInStrength(f) == LOCAL_PASS(f, Reduction)

-----------------------------------------------------------------------------
(* ConstantFolding.                                                        *)

Truth(b) == int(IF b THEN 1 ELSE 0)

(* A decided jump is one on a constant; its target stays.                  *)
transform_to_if_unary(q, value) ==
  Becomes([q EXCEPT !.rel = "UNARY", !.a1 = Truth(value), !.a2 = None])

FoldUnary(q) ==
  LET n == q.a1[2]
  IN  CASE q.op = "MINUS" /\ isInt(q.a1) -> Assign(q, "ASSIGN", int(-n))
        [] q.op = "NOT" /\ isInt(q.a1) -> Assign(q, "ASSIGN", Truth(n = 0))
        [] q.op = "I2F" /\ isInt(q.a1) -> Assign(q, "FASSIGN", float(n))
        [] q.op = "FMINUS" /\ isFloat(q.a1) -> Assign(q, "FASSIGN", float(-n))
        [] q.op = "F2I" /\ isFloat(q.a1) -> Assign(q, "ASSIGN", int(n))
        [] OTHER -> Same(q)

FoldInts(q) ==
  LET a == q.a1[2]  b == q.a2[2]
  IN  CASE q.op \in IntArithmetic -> Assign(q, "ASSIGN", int(compute(q.op, a, b)))
        [] q.op \in Relations -> Assign(q, "ASSIGN", Truth(holds(q.op, a, b)))
        [] q.rel \in Relations -> transform_to_if_unary(q, holds(q.rel, a, b))
        [] OTHER -> Same(q)

(* A comparison of floats is folded to an integer, assigned as a float.    *)
FoldFloats(q) ==
  LET a == q.a1[2]  b == q.a2[2]
  IN  CASE q.op \in FloatArithmetic -> Assign(q, "FASSIGN", float(compute(q.op, a, b)))
        [] q.op \in FloatRelations -> Assign(q, "FASSIGN", Truth(holds(q.op, a, b)))
        [] q.rel \in FloatRelations -> transform_to_if_unary(q, holds(q.rel, a, b))
        [] OTHER -> Same(q)

Fold(q) ==
  IF ~isInt(q.a1) /\ ~isFloat(q.a1) THEN Same(q)
  ELSE IF isInt(q.a1) /\ isInt(q.a2) /\ q.op \notin {"MINUS", "NOT", "I2F"} THEN FoldInts(q)
  ELSE IF isFloat(q.a1) /\ isFloat(q.a2) /\ q.op \notin {"FMINUS", "F2I"} THEN FoldFloats(q)
  ELSE FoldUnary(q)

ConstantFolding(f) == LOCAL_PASS(f, Fold)

-----------------------------------------------------------------------------
(* PointerPropagation.  aliases: what a pointer is known to point to;      *)
(* copies: the pointer it is a copy of.                                    *)

Known(g, a) == isVariable(a) /\ a[2] \in DOMAIN g
standard(x) == x.type \in {"int", "float", "bool", "char", "string"}

(* The member at offset 0 of something that is not a structure is all of it. *)
optimize_dot(q, op, aliases) ==
  IF ~Known(aliases, q.a1) THEN Same(q)
  ELSE LET x == aliases[q.a1[2]]
       IN  IF standard(x) /\ q.a2 = int(0) THEN Becomes(right(q, op, var(x), None))
           ELSE Becomes([q EXCEPT !.a1 = var(x)])

optimize_dot_assign(q, op, aliases) ==
  IF q.res \notin DOMAIN aliases THEN Same(q)
  ELSE LET x == aliases[q.res]
           r == [q EXCEPT !.res = x]
       IN  IF standard(x) /\ q.a1 = int(0) THEN Becomes(right(r, op, q.a2, q.a2))
           ELSE Becomes(r)

(* CopyApplier, then what the statement itself tells.                      *)
PropagatePointer(q0, s0) ==
  LET copied(a) == IF Known(s0.copies, a) THEN var(s0.copies[a[2]]) ELSE a
      q == [q0 EXCEPT !.a1 = copied(@), !.a2 = copied(@)]
      s == IF ~erase_result(q.op) THEN s0
           ELSE [aliases |-> Forget(s0.aliases, q.res), copies |-> Forget(s0.copies, q.res)]
      direct == q.op = "PASSIGN" /\ isVariable(q.a1) /\ q.a1[2].type # "pointer"
      indirect == q.op = "PASSIGN" /\ ~direct /\ Known(s.aliases, q.a1)
      p == IF indirect THEN [q EXCEPT !.a1 = var(s.aliases[q.a1[2]])] ELSE q
      copy == p.op = "PASSIGN" /\ isVariable(p.a1)
                /\ p.a1[2].type = "pointer" /\ p.res.type = "pointer"
      r == CASE q.op = "DOT" -> optimize_dot(q, "ASSIGN", s.aliases)
             [] q.op = "FDOT" -> optimize_dot(q, "FASSIGN", s.aliases)
             [] q.op = "DOT_ASSIGN" -> optimize_dot_assign(q, "ASSIGN", s.aliases)
             [] q.op = "DOT_FASSIGN" -> optimize_dot_assign(q, "FASSIGN", s.aliases)
             [] OTHER -> IF indirect THEN Becomes(p) ELSE Same(q)
  IN  [q |-> r.q,
       optimized |-> r.optimized \/ q # q0,
       s |-> [aliases |-> IF direct THEN Bind(s.aliases, q.res, q.a1[2]) ELSE s.aliases,
              copies |-> IF copy THEN Bind(s.copies, p.res, p.a1[2]) ELSE s.copies]]

PointerPropagation(f) ==
  BB_PASS(f, LAMBDA b : [aliases |-> << >>, copies |-> << >>], PropagatePointer)

-----------------------------------------------------------------------------
(* MathPropagation: the computation of a variable that is used once is     *)
(* repeated where it is copied.  Its guard wants a statement to be a       *)
(* conditional jump, which is never an assignment: nothing is ever done.   *)

PropagateMath(q, s) ==
  LET considered == ~is_if(q) /\ is_if_false(q)
      assigns == IF considered /\ q.res # NoVariable /\ q.res \notin DOMAIN s.assigns
                 THEN Bind(s.assigns, q.res, q) ELSE s.assigns
      once == /\ considered /\ q.op = "ASSIGN" /\ Known(assigns, q.a1)
              /\ q.res.type # "array" /\ q.a1[2].type # "string"
              /\ s.usage[q.a1[2]] = 1
      d == assigns[q.a1[2]]
  IN  [q |-> IF once THEN right(q, d.op, d.a1, d.a2) ELSE q,
       optimized |-> once, s |-> [s EXCEPT !.assigns = assigns]]

MathPropagation(f) ==
  LET used(b, x) == Sum(DOMAIN f.code[b], LAMBDA i : Uses(f.code[b][i], x))
      variables(b) == {f.code[b][i].a1[2] :
                         i \in {j \in DOMAIN f.code[b] : isVariable(f.code[b][j].a1)}}
  IN  BB_PASS(f, LAMBDA b : [assigns |-> << >>,
                             usage |-> [x \in variables(b) |-> used(b, x)]],
              PropagateMath)

-----------------------------------------------------------------------------
(* conditional_propagation: a jump on a variable that is written once and  *)
(* read once takes over the comparison the variable was computed by.       *)

(* The first statement of the block that has the variable as its result.   *)
get_variable_declaration(code, x) ==
  LET S == {i \in DOMAIN code : code[i].res = x}
  IN  IF S = {} THEN code[1] ELSE code[CHOOSE i \in S : \A j \in S : i <= j]

optimize_branch(f, b, q) ==
  IF q.rel # "UNARY" \/ ~isVariable(q.a1) THEN Same(q)
  ELSE LET x == q.a1[2]
           d == get_variable_declaration(f.code[b], x)
       IN  IF /\ variable_usage(f, x) = 2
              /\ d.res = x
              /\ d.op \in Relations \union FloatRelations
           THEN Becomes([q EXCEPT !.rel = d.op, !.a1 = d.a1, !.a2 = d.a2])
           ELSE Same(q)

conditional_propagation(f) ==
  LET new(b, i) == optimize_branch(f, b, f.code[b][i])
      g == [f EXCEPT !.code = [b \in DOMAIN f.code |->
                                 [i \in DOMAIN f.code[b] |-> new(b, i).q]]]
      dead(q) == erase_result(q.op) /\ read_usage(g, Blocks(g), q.res) = 0
      h == [g EXCEPT !.code = [b \in DOMAIN g.code |->
                                 [i \in DOMAIN g.code[b] |->
                                    IF dead(g.code[b][i]) THEN transform_to_nop
                                    ELSE g.code[b][i]]]]
      optimized == \E p \in Places(f) : new(p[1], p[2]).optimized
  IN  Result(IF optimized THEN h ELSE f, optimized)
=============================================================================
