------------------------- MODULE PureAnalysisProofs -------------------------
(***************************************************************************)
(* The verdicts of the pure analysis are the least ones that follow from   *)
(* the code, for every program, every order of its functions and whatever  *)
(* flags an earlier round left; and every sweep but the last decides       *)
(* something that was not decided before.                                  *)
(***************************************************************************)
EXTENDS PureAnalysis, TLAPS

(* The functions that are pure by the code: what PureExact asks for.       *)
Follows == {f \in All : \A S \in SUBSET All : Follow(S) \subseteq S => f \in S}

Types ==
  /\ code \in Programs
  /\ pure \in [All -> BOOLEAN]
  /\ analyzed \subseteq All /\ start \subseteq analyzed
  /\ i \in 1 .. Len(code) + 1
  /\ pc \in {"sweep", "done"}

(* A verdict is right as soon as it is given: a flag that is looked at     *)
(* (that of an analysed function) was set in this round.                   *)
Right == \A f \in analyzed : pure[f] <=> f \in Follows

(* While a sweep has decided nothing, every undecided function that it has *)
(* passed calls another undecided one.                                     *)
Waiting(f) ==
  f \in analyzed \/ \E g \in code[f].calls \ Standard : g \notin analyzed

Passed ==
  pc = "sweep" /\ analyzed = start => \A f \in All : f < i => Waiting(f)

(* In the end the others have been given their verdict as well.            *)
Given ==
  pc = "done" =>
    /\ \A f \in All : Waiting(f)
    /\ \A f \in All \ analyzed : ~pure[f]

IInv == Types /\ Right /\ Passed /\ Given

LEMMA CodeType ==
  ASSUME code \in Programs
  PROVE  /\ Len(code) \in Nat /\ All = 1 .. Len(code)
         /\ All \intersect Standard = {} /\ Safe \subseteq Standard
         /\ \A f \in All : /\ code[f].calls \subseteq All \union Standard
                           /\ code[f].pointers \in BOOLEAN
                           /\ code[f].writes \in BOOLEAN
<1>1. code \in Seq(FunctionsOf(Len(code)))
  BY ProgramsAssumption
<1>2. Len(code) \in Nat /\ All = 1 .. Len(code)
  BY <1>1 DEF All
<1>3. \A f \in All : code[f] \in FunctionsOf(Len(code))
  BY <1>1, <1>2
<1> QED
  BY <1>2, <1>3, ProgramsAssumption DEF FunctionsOf, All

(* Follows is the least fixed point of Follow.                             *)
LEMMA Least ==
  ASSUME NEW S \in SUBSET All, Follow(S) \subseteq S
  PROVE  Follows \subseteq S
  BY DEF Follows

LEMMA Closed == Follow(Follows) \subseteq Follows
<1> SUFFICES ASSUME NEW f \in Follow(Follows), NEW S \in SUBSET All,
                    Follow(S) \subseteq S
             PROVE  f \in S
  BY DEF Follows, Follow
<1>1. f \in Follow(S)
  BY Least DEF Follow
<1> QED
  BY <1>1

LEMMA Unfolds == Follows \subseteq Follow(Follows)
<1>1. Follow(Follows) \in SUBSET All /\ Follows \in SUBSET All
  BY DEF Follow, Follows
<1>2. Follow(Follow(Follows)) \subseteq Follow(Follows)
  BY Closed DEF Follow
<1> QED
  BY <1>1, <1>2, Least

(* The verdict on one function, given right verdicts on those it calls.    *)
LEMMA Verdict ==
  ASSUME Types, Right, NEW f \in All,
         ~(code[f].pointers \/ edit_global_variables(f) \/ call_unpure_function(f))
           => ~call_not_analyzed_function(f)
  PROVE  f \in Follows <=>
           ~(code[f].pointers \/ edit_global_variables(f) \/ call_unpure_function(f))
<1> USE CodeType DEF Types
<1>1. ASSUME f \in Follows
      PROVE  ~(code[f].pointers \/ edit_global_variables(f) \/ call_unpure_function(f))
  <2>1. Blameless(f) /\ code[f].calls \subseteq Follows \union Safe
    BY <1>1, Unfolds DEF Follow
  <2>2. \A g \in code[f].calls \ Standard : g \in Follows
    BY <2>1
  <2>3. \A g \in code[f].calls \intersect Standard : g \in Safe
    BY <2>1 DEF Follows
  <2> QED
    BY <2>1, <2>2, <2>3 DEF Blameless, edit_global_variables, call_unpure_function, Right
<1>2. ASSUME ~(code[f].pointers \/ edit_global_variables(f) \/ call_unpure_function(f))
      PROVE  f \in Follows
  <2>1. \A g \in code[f].calls \ Standard : g \in analyzed /\ g \in Follows
    BY <1>2 DEF call_unpure_function, call_not_analyzed_function, Right
  <2>2. \A g \in code[f].calls \intersect Standard : g \in Safe
    BY <1>2 DEF call_unpure_function
  <2>3. f \in Follow(Follows)
    BY <1>2, <2>1, <2>2 DEF Follow, Blameless, edit_global_variables
  <2> QED
    BY <2>3, Closed
<1> QED
  BY <1>1, <1>2

LEMMA InitIInv == Init => IInv
  BY CodeType DEF Init, IInv, Types, Right, Passed, Given

LEMMA AnalyseStep == IInv /\ Analyse => IInv'
<1> SUFFICES ASSUME IInv, Analyse PROVE IInv'
  OBVIOUS
<1> DEFINE impure == code[i].pointers \/ edit_global_variables(i) \/ call_unpure_function(i)
           decided == impure \/ ~call_not_analyzed_function(i)
<1>1. /\ pc = "sweep" /\ i \in All
      /\ pure' = IF decided THEN [pure EXCEPT ![i] = ~impure] ELSE pure
      /\ analyzed' = IF decided THEN analyzed \union {i} ELSE analyzed
      /\ i' = i + 1 /\ UNCHANGED <<code, start, pc>>
  BY DEF Analyse
<1>2. impure \in BOOLEAN
  BY <1>1, CodeType
  DEF IInv, Types, edit_global_variables, call_unpure_function
<1> HIDE DEF impure
<1>3. Types'
  <2>1. All' = All /\ Len(code') = Len(code)
    BY <1>1 DEF All
  <2>2. pure' \in [All -> BOOLEAN] /\ analyzed' \subseteq All /\ start' \subseteq analyzed'
    BY <1>1, <1>2 DEF IInv, Types
  <2>3. i' \in 1 .. Len(code) + 1
    BY <1>1, CodeType DEF IInv, Types
  <2> QED
    BY <1>1, <2>1, <2>2, <2>3 DEF IInv, Types
<1>4. Right'
  <2>1. Follows' = Follows
    BY <1>1 DEF Follows, Follow, Blameless, All
  <2>2. ASSUME decided PROVE ~impure <=> i \in Follows
    BY <1>1, <2>2, Verdict DEF IInv, impure
  <2>3. ASSUME NEW f \in analyzed' PROVE pure'[f] <=> f \in Follows
    BY <1>1, <1>2, <2>2, <2>3 DEF IInv, Right, Types
  <2> QED
    BY <2>1, <2>3 DEF Right
<1>5. Passed'
  <2> SUFFICES ASSUME analyzed' = start', NEW f \in All', f < i'
               PROVE  Waiting(f)'
    BY DEF Passed
  <2>1. analyzed = start /\ analyzed' = analyzed /\ f \in All
    BY <1>1 DEF IInv, Types, All
  <2>2. CASE f = i
    BY <1>1, <2>1, <2>2 DEF Waiting, call_not_analyzed_function
  <2>3. CASE f # i
    <3>1. f < i
      BY <1>1, <2>1, <2>3, CodeType DEF IInv, Types
    <3> QED
      BY <1>1, <2>1, <3>1 DEF IInv, Passed, Waiting
  <2> QED
    BY <2>2, <2>3
<1>6. Given'
  BY <1>1 DEF Given
<1> QED
  BY <1>3, <1>4, <1>5, <1>6 DEF IInv

LEMMA EndSweepStep == IInv /\ EndSweep => IInv'
<1> SUFFICES ASSUME IInv, EndSweep PROVE IInv'
  OBVIOUS
<1>1. /\ pc = "sweep" /\ i \notin All
      /\ start' = analyzed /\ i' = 1 /\ UNCHANGED <<code, analyzed>>
      /\ \/ /\ analyzed = start /\ pc' = "done"
            /\ pure' = [f \in All |-> pure[f] /\ f \in analyzed]
         \/ analyzed # start /\ UNCHANGED <<pc, pure>>
  BY DEF EndSweep
<1>2. All' = All /\ Follows' = Follows
  BY <1>1 DEF Follows, Follow, Blameless, All
<1>3. Types'
  <2>1. pure' \in [All -> BOOLEAN] /\ pc' \in {"sweep", "done"}
    BY <1>1 DEF IInv, Types
  <2>2. start' \subseteq analyzed' /\ analyzed' \subseteq All /\ i' \in 1 .. Len(code) + 1
    BY <1>1, CodeType DEF IInv, Types
  <2> QED
    BY <1>1, <1>2, <2>1, <2>2 DEF IInv, Types
<1>4. Right'
  BY <1>1, <1>2 DEF IInv, Types, Right
<1>5. Passed'
  BY <1>1, <1>2, CodeType DEF IInv, Types, Passed
<1>6. Given'
  <2> SUFFICES ASSUME pc' = "done" PROVE Given'
    BY DEF Given
  <2>1. \A f \in All : f < i
    BY <1>1, CodeType DEF IInv, Types
  <2>2. \A f \in All : Waiting(f)
    BY <1>1, <2>1 DEF IInv, Passed
  <2> QED
    BY <1>1, <1>2, <2>2 DEF Given, Waiting
<1> QED
  BY <1>3, <1>4, <1>5, <1>6 DEF IInv

LEMMA NextStep == IInv /\ [Next]_vars => IInv'
<1>1. IInv /\ UNCHANGED vars => IInv'
  BY DEF vars, IInv, Types, Right, Passed, Given, Waiting, Follows, Follow, Blameless, All
<1> QED
  BY <1>1, AnalyseStep, EndSweepStep DEF Next

(* The verdicts of pure_analysis are right from one sweep to the next.     *)
THEOREM Invariance == Spec => []IInv
  BY InitIInv, NextStep, PTL DEF Spec

(* Exactly the functions are called pure that follow from pure ones: of    *)
(* what was called pure each is right, and a set that nothing can be added *)
(* to holds all that follows.                                              *)
THEOREM Exact == Spec => []PureExact
<1>1. IInv => PureExact
  <2> SUFFICES ASSUME IInv, pc = "done"
               PROVE  {f \in All : pure[f]} = Follows
    BY DEF PureExact, Follows
  <2> DEFINE S == {f \in All : pure[f]}
  <2>1. S \subseteq analyzed /\ S \subseteq Follows
    BY DEF IInv, Types, Right, Given
  <2>2. ASSUME NEW f \in Follow(S) PROVE f \in S
    <3>1. f \in All /\ \A g \in code[f].calls \ Standard : g \in analyzed
      BY <2>1, <2>2, CodeType DEF IInv, Types, Follow
    <3>2. f \in analyzed
      BY <3>1 DEF IInv, Given, Waiting
    <3>3. f \in Follow(Follows)
      BY <2>1, <2>2 DEF Follow
    <3> QED
      BY <3>1, <3>2, <3>3, Closed DEF IInv, Types, Right
  <2> QED
    BY <2>1, <2>2, Least
<1> QED
  BY <1>1, Invariance, PTL

(* Every step of the loops goes on in the list of functions or starts      *)
(* another sweep with more of them decided (start is a set of functions of *)
(* the program, i a place in it or behind it): the sweeps come to an end.  *)
Progress ==
  pc' = "sweep" =>
    \/ start' = start /\ i < i'
    \/ start \subseteq start' /\ start # start'

THEOREM Advances == Spec => [][Progress]_vars
<1>1. IInv /\ [Next]_vars => [Progress]_vars
  <2> SUFFICES ASSUME IInv, Next PROVE Progress
    BY DEF Progress
  <2>1. CASE Analyse
    BY <2>1, CodeType DEF Analyse, Progress, IInv, Types
  <2>2. CASE EndSweep
    BY <2>2 DEF EndSweep, Progress, IInv, Types
  <2> QED
    BY <2>1, <2>2 DEF Next
<1> QED
  BY <1>1, Invariance, PTL DEF Spec
=============================================================================
