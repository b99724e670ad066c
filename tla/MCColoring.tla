----------------------------- MODULE MCColoring -----------------------------
(* Every graph of N nodes, bound or not, to be coloured with two registers *)
(* while a third can be bound only (as the stack pointer is).              *)
EXTENDS Coloring, TLC

CONSTANTS N, r1, r2, sp, Binding

MCColors == <<r1, r2>>

MCNodes == 0 .. N - 1
Pairs == {p \in MCNodes \X MCNodes : p[1] < p[2]}

MCGraphs ==
  {[size |-> N,
    neighbors |-> [r \in MCNodes |-> {s \in MCNodes : <<r, s>> \in E \/ <<s, r>> \in E}],
    binding |-> b, cost |-> [r \in MCNodes |-> c[r]]] :
     E \in SUBSET Pairs, b \in [MCNodes -> Binding],
     c \in {[r \in MCNodes |-> 1], [r \in MCNodes |-> N - r]}}
=============================================================================
