----------------------------- MODULE Quadruples -----------------------------
(***************************************************************************)
(* Functions as the optimizer sees them, blocks of quadruples, and the     *)
(* helpers its passes share.                                               *)
(***************************************************************************)
EXTENDS Integers, Sequences, FiniteSets, SequencesExt

(* A variable: type is int, float, pointer, struct, array or string, at is *)
(* local, temporary, param or global.                                      *)
Variable(name, no, type, at) == [name |-> name, no |-> no, type |-> type, at |-> at]
NoVariable == Variable("", 0, "", "")

(* Arguments.                                                              *)
None == <<"none">>
int(n) == <<"int", n>>
float(n) == <<"float", n>>
var(x) == <<"var", x>>
isInt(a) == a[1] = "int"
isFloat(a) == a[1] = "float"
isVariable(a) == a[1] = "var"
is(a, x) == a = var(x)

(* A jump is GOTO, IF or IF_FALSE with the relation rel to the block to;   *)
(* a CALL of fn has two results at most.  uid names a statement for the    *)
(* loop passes: the place where loop_analysis saw it.                      *)
NoUid == <<>>
Quadruple(op, res, a1, a2) ==
  [uid |-> NoUid, op |-> op, res |-> res, a1 |-> a1, a2 |-> a2, rel |-> "", to |-> 0,
   fn |-> "", sec |-> NoVariable]
Branch(op, rel, a1, a2, to) ==
  [Quadruple(op, NoVariable, a1, a2) EXCEPT !.rel = rel, !.to = to]
Goto(to) == Branch("GOTO", "", None, None, to)
Param(a, x, fn) == [Quadruple("PARAM", x, a, None) EXCEPT !.fn = fn]
Call(fn, x) == [Quadruple("CALL", x, None, None) EXCEPT !.fn = fn]
Return(a) == Quadruple("RETURN", NoVariable, a, None)
transform_to_nop == Quadruple("NOP", NoVariable, None, None)
Copy(q) == [q EXCEPT !.uid = NoUid]

is_if(q) == q.op = "IF"
is_if_false(q) == q.op = "IF_FALSE"
is_jump(q) == q.op \in {"GOTO", "IF", "IF_FALSE"}

(* right(q, op, a1, a2) is replaceRight.                                   *)
right(q, op, a1, a2) == [q EXCEPT !.op = op, !.a1 = a1, !.a2 = a2]

IntArithmetic == {"ADD", "SUB", "MUL", "DIV", "MOD"}
FloatArithmetic == {"FADD", "FSUB", "FMUL", "FDIV"}
Relations == {"EQUALS", "NOT_EQUALS", "GREATER", "GREATER_EQUALS", "LESS",
              "LESS_EQUALS"}
FloatRelations == {"FE", "FNE", "FG", "FGE", "FLE", "FL"}

erase_result(op) ==
  op \notin {"DOT_ASSIGN", "DOT_FASSIGN", "DOT_PASSIGN", "RETURN", "GOTO", "NOP",
             "PARAM", "PPARAM", "CALL", "IF", "IF_FALSE"}
Stores == {"DOT_ASSIGN", "DOT_FASSIGN", "DOT_PASSIGN"}

-----------------------------------------------------------------------------
(* A function: list is the order of its blocks, from ENTRY to EXIT; edges  *)
(* are lists kept at both ends.                                            *)

ENTRY == -1
EXIT == -2

Without(s, x) == SelectSeq(s, LAMBDA y : y # x)
Blocks(f) == ToSet(f.list)
position(f, b) == CHOOSE i \in DOMAIN f.list : f.list[i] = b
next(f, b) == f.list[position(f, b) + 1]
prev(f, b) == f.list[position(f, b) - 1]

(* All statements, with the place of each: <<block, index>>.               *)
Places(f) == UNION {{<<b, i>> : i \in DOMAIN f.code[b]} : b \in Blocks(f)}
At(f, p) == f.code[p[1]][p[2]]
size(f) == Cardinality(Places(f))
size_no_nop(f) == Cardinality({p \in Places(f) : At(f, p).op # "NOP"})

make_edge(f, b, c) == [f EXCEPT !.succ[b] = Append(@, c), !.pred[c] = Append(@, b)]
remove_edge(f, b, c) ==
  [f EXCEPT !.succ[b] = Without(@, c), !.pred[c] = Without(@, b)]

(* new_bb, then insert_before: the block gets the next number.             *)
insert_before(f, c, code, succ, pred) ==
  LET n == f.index + 1
      add(g, v) == [b \in DOMAIN g \union {n} |-> IF b = n THEN v ELSE g[b]]
  IN  [f EXCEPT !.index = n,
                !.list = InsertAt(f.list, position(f, c), n),
                !.code = add(f.code, code),
                !.succ = add(f.succ, succ),
                !.pred = add(f.pred, pred)]
insert_after(f, b, code, succ, pred) == insert_before(f, next(f, b), code, succ, pred)

(* Structures and arrays have MemberWords words, all of them zero at first *)
(* but the length of an array, its word 0.                                 *)
MemberWords == 3
Aggregate(x) == x.type \in {"struct", "array"}
Initially(x, offset) ==
  IF x.type = "array" /\ x.at # "param" /\ offset = 0 THEN int(MemberWords - 1) ELSE int(0)

new_temporary(f, type) == Variable("t", f.temporary, type, "temporary")
with_temporary(f, type) ==
  [f EXCEPT !.temporary = @ + 1, !.storage = Append(@, new_temporary(f, type))]

(* The address is taken: by an assignment of the pointer, to a member or   *)
(* to a pointer, or by passing it.                                         *)
escape_analysis(f) ==
  {At(f, p).a1[2] :
     p \in {p \in Places(f) : At(f, p).op \in {"PASSIGN", "PDOT", "PPARAM"}
                                 /\ isVariable(At(f, p).a1)}}
    \union
  {At(f, p).a2[2] :
     p \in {p \in Places(f) : At(f, p).op = "DOT_PASSIGN" /\ isVariable(At(f, p).a2)}}

(* Numbers of reads and writes among the statements at the places.         *)
Sum(S, Op(_)) == FoldSet(LAMBDA p, n : n + Op(p), 0, S)
In(f, blocks) == {p \in Places(f) : p[1] \in blocks}
Number(f, blocks, Test(_)) == Cardinality({p \in In(f, blocks) : Test(At(f, p))})
Uses(q, x) == (IF is(q.a1, x) THEN 1 ELSE 0) + (IF is(q.a2, x) THEN 1 ELSE 0)
arguments(f, blocks, x) ==
  Number(f, blocks, LAMBDA q : is(q.a1, x)) + Number(f, blocks, LAMBDA q : is(q.a2, x))
variable_usage(f, x) == arguments(f, Blocks(f), x) + Number(f, Blocks(f), LAMBDA q : q.res = x)
read_usage(f, blocks, x) ==
  arguments(f, blocks, x) + Number(f, blocks, LAMBDA q : ~erase_result(q.op) /\ q.res = x)
write_usage(f, blocks, x) ==
  LET writes(q) == erase_result(q.op) \/ q.op = "CALL"
  IN  Number(f, blocks, LAMBDA q : writes(q) /\ q.res = x)
        + Number(f, blocks, LAMBDA q : writes(q) /\ q.sec = x)

-----------------------------------------------------------------------------
(* Arithmetic of the operators.                                            *)

Abs(n) == IF n < 0 THEN -n ELSE n
Quotient(a, b) == IF (a < 0) = (b < 0) THEN Abs(a) \div Abs(b) ELSE -(Abs(a) \div Abs(b))
compute(op, a, b) ==
  CASE op \in {"ADD", "FADD"} -> a + b
    [] op \in {"SUB", "FSUB"} -> a - b
    [] op \in {"MUL", "FMUL"} -> a * b
    [] op \in {"DIV", "FDIV"} -> Quotient(a, b)
    [] op = "MOD" -> a - b * Quotient(a, b)

holds(rel, a, b) ==
  CASE rel \in {"EQUALS", "FE"} -> a = b
    [] rel \in {"NOT_EQUALS", "FNE"} -> a # b
    [] rel \in {"GREATER", "FG"} -> a > b
    [] rel \in {"GREATER_EQUALS", "FGE"} -> a >= b
    [] rel \in {"LESS", "FL"} -> a < b
    [] rel \in {"LESS_EQUALS", "FLE"} -> a <= b
=============================================================================
