----------------------------- MODULE MCDataFlow -----------------------------
(* The solver on every function of N blocks over a chain of three values,  *)
(* with every combination of transfers from a few monotone ones.           *)
EXTENDS DataFlow, TLC

CONSTANT N

Chain == {0, 1}
ChainTop == 2
ChainMeet(x, y) == IF x <= y THEN x ELSE y

ChainTransfer(f, b, x) ==
  CASE f.code[b] = "keep" -> x
    [] f.code[b] = "low"  -> 0
    [] f.code[b] = "high" -> 1

Low(f) == 0
High(f) == 1

(* The dependencies of a block: none, one, two, or the same one twice (the *)
(* parallel edges of a conditional jump to the next block).                *)
DepLists == {<<>>} \union {<<a>> : a \in 1 .. N}
            \union {<<a, b>> : a, b \in 1 .. N}

AllFunctions ==
  [n : {N}, source : {1, N}, deps : [1 .. N -> DepLists],
   code : [1 .. N -> {"keep", "low", "high"}]]

(* The source depends on nothing and transfers nothing.                    *)
MCFunctions ==
  {f \in AllFunctions : f.deps[f.source] = <<>> /\ f.code[f.source] = "keep"}
=============================================================================
