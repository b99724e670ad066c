--------------------------- MODULE MCPureAnalysis ---------------------------
(* Every program of N functions over a safe and an unsafe standard one.    *)
EXTENDS PureAnalysis, TLC

CONSTANTS N, safe, unsafe

Plain(c) == [pointers |-> FALSE, writes |-> FALSE, calls |-> c]

(* At most one reason against a function beside its calls.                 *)
Kinds ==
  {Plain(c) : c \in SUBSET ((1 .. N) \union {safe})}
  \union {[Plain({}) EXCEPT !.pointers = TRUE], [Plain({}) EXCEPT !.writes = TRUE],
          Plain({unsafe})}

MCPrograms == [1 .. N -> Kinds]
=============================================================================
