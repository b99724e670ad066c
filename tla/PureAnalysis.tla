---------------------------- MODULE PureAnalysis ----------------------------
(***************************************************************************)
(* The pure analysis (mtac/pure_analysis.cpp): sweeps over the functions   *)
(* of the program until a sweep analyses no further one.  Of a function it *)
(* looks at its parameters, at its writes to global variables and at what  *)
(* it calls.                                                               *)
(***************************************************************************)
EXTENDS Integers, Sequences

CONSTANTS
  Standard,  \* assembly functions
  Safe,      \* those of them that mtac::safe accepts
  Programs   \* programs: sequences of functions, see FunctionsOf

(* Functions are called by their place in program.functions.               *)
FunctionsOf(N) ==
  [pointers : BOOLEAN,   \* has a parameter of pointer type
   writes : BOOLEAN,     \* overwrites a global variable in full
   calls : SUBSET ((1 .. N) \union Standard)]

ASSUME ProgramsAssumption ==
  /\ Safe \subseteq Standard
  /\ \A p \in Programs :
       p \in Seq(FunctionsOf(Len(p))) /\ Standard \intersect DOMAIN p = {}

VARIABLES
  code,      \* the program
  pure,      \* the flags of its functions
  analyzed,
  start,     \* the size of analyzed at the start of the sweep
  i,         \* the function that is looked at
  pc         \* sweep, end, done

vars == <<code, pure, analyzed, start, i, pc>>

All == DOMAIN code

Init ==
  /\ code \in Programs
  /\ pure \in [All -> BOOLEAN]   \* what an earlier round left
  /\ analyzed = {} /\ start = {}
  /\ i = 1 /\ pc = "sweep"

edit_global_variables(f) == code[f].writes

(* Faulty variant: the flag of a callee that this round has not analysed.  *)
call_unpure_function_early(f) ==
  \/ \E g \in code[f].calls \ Standard : ~pure[g]
  \/ \E g \in code[f].calls \intersect Standard : g \notin Safe

call_unpure_function(f) ==
  \/ \E g \in code[f].calls \ Standard : ~pure[g] /\ g \in analyzed
  \/ \E g \in code[f].calls \intersect Standard : g \notin Safe

call_not_analyzed_function(f) ==
  \E g \in code[f].calls \ Standard : g \notin analyzed

(* The loop's body for function i.                                         *)
Analyse ==
  /\ pc = "sweep" /\ i \in All
  /\ LET impure == \/ code[i].pointers
                   \/ edit_global_variables(i)
                   \/ call_unpure_function(i)
         decided == impure \/ ~call_not_analyzed_function(i)
     IN
     /\ pure' = IF decided THEN [pure EXCEPT ![i] = ~impure] ELSE pure
     /\ analyzed' = IF decided THEN analyzed \union {i} ELSE analyzed
  /\ i' = i + 1
  /\ UNCHANGED <<code, start, pc>>

(* Faulty variant: every sweep is followed by another.                     *)
EndSweepAlways ==
  /\ pc = "sweep" /\ i \notin All
  /\ start' = analyzed /\ i' = 1
  /\ UNCHANGED <<code, pure, analyzed, pc>>

(* Another sweep, or the functions that were not analysed are not pure.    *)
EndSweep ==
  /\ pc = "sweep" /\ i \notin All
  /\ IF analyzed = start
     THEN /\ pc' = "done"
          /\ pure' = [f \in All |-> pure[f] /\ f \in analyzed]
     ELSE UNCHANGED <<pc, pure>>
  /\ start' = analyzed /\ i' = 1
  /\ UNCHANGED <<code, analyzed>>

Next == Analyse \/ EndSweep

Spec == Init /\ [][Next]_vars /\ WF_vars(Next)

-----------------------------------------------------------------------------

(* A function has nothing against it but perhaps its calls.                *)
Blameless(f) == ~code[f].pointers /\ ~code[f].writes

(* Nothing is missed: exactly those functions are called pure that follow  *)
(* from pure ones, in whatever order the program lists them.  (Functions   *)
(* that call each other in a circle do not.)                               *)
Follow(S) == {f \in All : Blameless(f) /\ code[f].calls \subseteq S \union Safe}

PureExact ==
  pc = "done" =>
    {f \in All : pure[f]} =
      {f \in All : \A S \in SUBSET All : Follow(S) \subseteq S => f \in S}

(* The sweeps come to an end, on functions that call each other as well.   *)
Ends == <>(pc = "done")
=============================================================================
