------------------------------ MODULE Liveness ------------------------------
(***************************************************************************)
(* Live variables (mtac/LiveVariableAnalysisProblem.cpp): the backward     *)
(* problem over blocks, and the transfer over one statement with which     *)
(* dead code elimination refines its result inside a block; and what these *)
(* passes ask of a statement.                                              *)
(*                                                                         *)
(* A statement is [op, res, a1, a2]; an absent field is None.  Of the many *)
(* operators that only compute a value from their arguments (ADD .. F2I,   *)
(* the comparisons) ASSIGN stands for all, and IF for all conditional      *)
(* jumps.  A constant argument is Imm, a constant offset one of Offsets.   *)
(***************************************************************************)
EXTENDS Integers, Sequences

CONSTANTS
  Vars, Offsets, None, Imm,
  NoLive   \* a domain without values

Stmt(op, res, a1, a2) == [op |-> op, res |-> res, a1 |-> a1, a2 |-> a2]
Nop == Stmt("NOP", None, None, None)

(* Operators after which the old value of the result is gone.  (A CALL     *)
(* gives its result a value too, but is not among them.)                   *)
erase_result(op) ==
  op \notin {"DOT_ASSIGN", "DOT_PASSIGN", "RETURN", "GOTO", "NOP", "PARAM",
             "PPARAM", "CALL", "LABEL", "IF"}

(* The statement has a result that it overwrites.                          *)
Erases(q) == q.res # None /\ erase_result(q.op)

VarArgs(q) == {q.a1, q.a2} \intersect Vars

Statements(code) == UNION {{code[b][k] : k \in 1 .. Len(code[b])} :
                             b \in DOMAIN code}

(* Variables whose address is taken: by an assignment of the pointer, to a *)
(* member or to a pointer variable, or by passing it.                      *)
escape_analysis(code) ==
  Vars \intersect
    {IF q.op = "DOT_PASSIGN" THEN q.a2 ELSE q.a1 :
       q \in {r \in Statements(code) :
                r.op \in {"PASSIGN", "DOT_PASSIGN", "PDOT", "PPARAM"}}}

-----------------------------------------------------------------------------
(* What a statement needs: its variable arguments, and its result when it  *)
(* does not overwrite it in full.                                          *)
Uses(q) ==
  VarArgs(q) \union (IF erase_result(q.op) THEN {} ELSE {q.res} \intersect Vars)

(* use and def of a block, gathered by one loop in Boundary: a result goes *)
(* to def unless an earlier statement uses it.  The result is looked up    *)
(* before the arguments are added, so that a = a + 1 puts a in both.       *)
Use(block) == UNION {Uses(block[k]) : k \in DOMAIN block}

Def(block) ==
  {block[k].res : k \in {k \in DOMAIN block :
     /\ Erases(block[k])
     /\ \A j \in 1 .. k - 1 : block[k].res \notin Uses(block[j])}}

Meet(x, y) ==
  IF x = NoLive THEN y ELSE IF y = NoLive THEN x ELSE x \union y

(* Faulty variant: the kills are taken out last.                           *)
TransferBlockKillsLast(f, b, x) ==
  IF x = NoLive THEN NoLive
  ELSE (x \union Use(f.code[b]) \union escape_analysis(f.code))
         \ Def(f.code[b])

(* transfer over block b.  Every block uses every escaped variable.  (The  *)
(* code never applies it to a domain without values.)                      *)
TransferBlock(f, b, x) ==
  IF x = NoLive THEN NoLive
  ELSE (x \ Def(f.code[b])) \union Use(f.code[b])
         \union escape_analysis(f.code)

(* transfer over one statement.                                            *)
TransferStatement(q, x) ==
  LET live == IF x = NoLive THEN {} ELSE x IN
  IF q.op = "NOP" THEN live
  ELSE (IF erase_result(q.op) THEN live \ {q.res} ELSE live) \union Uses(q)

(* Boundary (at EXIT) and Init: nothing is live.                           *)
NothingLive(f) == {}
=============================================================================
