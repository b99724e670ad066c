------------------------- MODULE MCInterprocedural -------------------------
(* Every call graph over three functions and a standard one: main calls    *)
(* any, the first may call itself and the standard one, the first and the  *)
(* second each other.                                                      *)
EXTENDS Interprocedural, TLC

CONSTANTS entryFn, firstFn, secondFn, standardFn

MCFunctions == {entryFn, firstFn, secondFn, standardFn}

NoCalls == [h \in MCFunctions |-> 0]
Empty == [h \in MCFunctions |-> NoCalls]

(* At most one CALL to each, twice to the first from main.                 *)
MCPrograms ==
  {[Empty EXCEPT ![entryFn] = [NoCalls EXCEPT ![firstFn] = ef, ![secondFn] = es],
                    ![firstFn] = [NoCalls EXCEPT ![firstFn] = ff, ![secondFn] = fs,
                                                 ![standardFn] = fd],
                    ![secondFn] = [NoCalls EXCEPT ![firstFn] = sf]] :
     ef \in 0 .. 2, es \in 0 .. 1, ff \in 0 .. 1, fs \in 0 .. 1,
     fd \in 0 .. 1, sf \in 0 .. 1}

(* main calls the first once and nothing else is called.                   *)
OneCall == {[Empty EXCEPT ![entryFn][firstFn] = 1]}

NoExitCalls == {NoCalls}
ExitCalls == {NoCalls, [NoCalls EXCEPT ![firstFn] = 1]}
=============================================================================
