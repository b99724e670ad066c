----------------------- MODULE InterproceduralProofs -----------------------
(***************************************************************************)
(* The call graph keeps counting the CALLs of the code, and so no function *)
(* that is still called is ever removed - as long as unswitching copies no *)
(* CALL (NoExitCalls).                                                     *)
(***************************************************************************)
EXTENDS Interprocedural, FiniteSetTheorems, SequenceTheorems, TLAPS

NoExitCalls == \A exit \in ExitBlocks : \A g \in Functions : exit[g] = 0

(* The inductive invariant.  Main is never removed, which makes every      *)
(* reachable function one of the program or a standard one; and the passes *)
(* that remove functions run when no reachable set is kept.                *)
Types ==
  /\ program \subseteq Functions \ Standard /\ Main \in program
  /\ calls \in [Functions -> Small]
  /\ count \in [Functions -> Bags]
  /\ edges \subseteq Functions \X Functions
  /\ optimized \in BOOLEAN

StandardEmpty ==
  \A f \in Standard : \A g \in Functions : calls[f][g] = 0 /\ count[f][g] = 0

Snapshot ==
  /\ reachable \subseteq program \union Standard
  /\ pc \notin {"next function", "callers"} => reachable = {}

IInv == Types /\ StandardEmpty /\ Snapshot /\ CountsCalls /\ NoDanglingCall

LEMMA Remainder ==
  ASSUME NEW c \in 0 .. MaxCalls, NEW n \in Nat, n <= c
  PROVE  (c - n) % Width = c - n
  BY FunctionsAssumption, c - n \in 0 .. Width - 1 DEF Bags

(* compute_reachable gives Main, functions of the program and standard     *)
(* functions, and is closed under CALLs.                                   *)
LEMMA Reached ==
  ASSUME IInv
  PROVE  /\ ComputeReachable \subseteq program \union Standard
         /\ Main \in ComputeReachable
         /\ \A f \in ComputeReachable : Called(f) \subseteq ComputeReachable
<1> DEFINE next == [f \in Functions |-> {g \in Functions : count[f][g] > 0}]
           Closed(S) == Main \in S /\ \A f \in S : next[f] \subseteq S
<1>1. ComputeReachable =
        {f \in Functions : \A S \in SUBSET Functions : Closed(S) => f \in S}
  BY DEF ComputeReachable, FromMain
<1>2. \A f \in program \union Standard : next[f] = Called(f)
  <2> SUFFICES ASSUME NEW f \in program \union Standard
               PROVE  next[f] = Called(f)
    OBVIOUS
  <2>1. f \in Functions
    BY FunctionsAssumption DEF IInv, Types, StandardEmpty
  <2>2. \A g \in Functions : count[f][g] = calls[f][g]
    BY <2>1 DEF IInv, Types, StandardEmpty, CountsCalls
  <2>3. next[f] = {g \in Functions : count[f][g] > 0}
    BY <2>1
  <2> QED BY <2>2, <2>3 DEF Called
<1>3. ComputeReachable \subseteq program \union Standard
  <2>1. program \union Standard \in SUBSET Functions
    BY FunctionsAssumption DEF IInv, Types, StandardEmpty
  <2>2. \A f \in program \union Standard :
          Called(f) \subseteq program \union Standard
    BY FunctionsAssumption DEF IInv, Types, StandardEmpty, NoDanglingCall, Called
  <2>3. Closed(program \union Standard)
    BY <1>2, <2>2 DEF IInv, Types, StandardEmpty
  <2> QED BY <1>1, <2>1, <2>3
<1>4. Main \in ComputeReachable
  BY <1>1, FunctionsAssumption
<1>5. ASSUME NEW f \in ComputeReachable, NEW g \in Called(f)
      PROVE  g \in ComputeReachable
  <2>1. f \in Functions /\ g \in Functions /\ g \in next[f]
    BY <1>1, <1>2, <1>3, <1>5 DEF Called
  <2>2. ASSUME NEW S \in SUBSET Functions, Closed(S)
        PROVE  g \in S
    BY <1>1, <2>1, <2>2
  <2> QED BY <1>1, <2>1, <2>2
<1> QED BY <1>3, <1>4, <1>5

(* A step that leaves the code and the call graph alone.                   *)
LEMMA Frame ==
  ASSUME IInv, UNCHANGED <<program, calls, count, edges>>,
         optimized' \in BOOLEAN, Snapshot'
  PROVE  IInv'
  BY DEF IInv, Types, StandardEmpty, CountsCalls, NoDanglingCall, Called

LEMMA InitIInv == Init => IInv
<1> SUFFICES ASSUME Init PROVE IInv
  OBVIOUS
<1>1. calls \in [Functions -> Small] /\ count = calls
  BY ProgramsAssumption DEF Init
<1>2. \A f \in Standard : \A g \in Functions : calls[f][g] = 0
  BY ProgramsAssumption DEF Init
<1>3. count \in [Functions -> Bags]
  BY <1>1 DEF Small, Bags
<1>4. CountsCalls
  BY <1>1 DEF Init, CountsCalls
<1>5. NoDanglingCall
  BY DEF Init, NoDanglingCall, Called
<1> QED
  BY <1>1, <1>2, <1>3, <1>4, <1>5, FunctionsAssumption
  DEF Init, IInv, Types, StandardEmpty, Snapshot

(* Only functions go that the rest does not call.                          *)
LEMMA RemoveUnusedStep == IInv /\ RemoveUnused => IInv'
<1> SUFFICES ASSUME IInv, RemoveUnused PROVE IInv'
  OBVIOUS
<1>1. program' = program \intersect ComputeReachable
  BY DEF RemoveUnused
<1>2. NoDanglingCall'
  <2> SUFFICES ASSUME NEW f \in program', NEW g \in Called(f)'
               PROVE  g \in program' \union Standard
    BY DEF NoDanglingCall
  <2>1. g \in Called(f)
    BY DEF RemoveUnused, Called
  <2>2. g \in program \union Standard
    BY <1>1, <2>1 DEF IInv, Types, StandardEmpty, NoDanglingCall
  <2>3. g \in ComputeReachable
    BY <1>1, <2>1, Reached
  <2> QED BY <1>1, <2>2, <2>3
<1>3. CountsCalls'
  BY <1>1 DEF RemoveUnused, IInv, Types, StandardEmpty, CountsCalls
<1> QED
  BY <1>1, <1>2, <1>3, Reached
  DEF RemoveUnused, IInv, Types, StandardEmpty, Snapshot, inl

LEMMA RemoveEmptyStep == IInv /\ RemoveEmpty => IInv'
<1> SUFFICES ASSUME IInv, RemoveEmpty PROVE IInv'
  OBVIOUS
<1>1. PICK removed \in SUBSET (program \ {Main}) :
        LET OfRemoved(f) ==
              [g \in Functions |-> IF f \in program \ removed /\ g \in removed
                                     THEN calls[f][g] ELSE 0]
        IN
        /\ program' = program \ removed
        /\ calls' = [f \in Functions |->
                       [g \in Functions |-> calls[f][g] - OfRemoved(f)[g]]]
        /\ count' = [f \in Functions |-> Less(count[f], OfRemoved(f))]
        /\ optimized' = (optimized \/ removed # {})
  BY DEF RemoveEmpty, RemoveEmptyOf
<1> DEFINE of(f, g) == IF f \in program \ removed /\ g \in removed
                         THEN calls[f][g] ELSE 0
<1>2. ASSUME NEW f \in Functions, NEW g \in Functions
      PROVE  /\ calls[f][g] \in 0 .. MaxCalls /\ of(f, g) \in 0 .. calls[f][g]
             /\ calls'[f][g] = calls[f][g] - of(f, g)
             /\ count'[f][g] = (count[f][g] - of(f, g)) % Width
  <2>1. calls[f][g] \in 0 .. MaxCalls
    BY DEF IInv, Types, StandardEmpty, Small
  <2> QED BY <1>1, <2>1, FunctionsAssumption DEF Less
<1>3. calls' \in [Functions -> Small]
  <2>1. ASSUME NEW f \in Functions
        PROVE  calls'[f] \in Small
    <3>1. calls'[f] = [g \in Functions |-> calls[f][g] - of(f, g)]
      BY <1>1
    <3>2. \A g \in Functions : calls[f][g] - of(f, g) \in 0 .. MaxCalls
      BY <1>2, FunctionsAssumption
    <3> HIDE DEF of
    <3> QED BY <3>1, <3>2 DEF Small
  <2> QED BY <1>1, <2>1
<1>4. count' \in [Functions -> Bags]
  <2>1. ASSUME NEW f \in Functions, NEW g \in Functions
        PROVE  (count[f][g] - of(f, g)) % Width \in Nat
    BY <1>2, FunctionsAssumption DEF IInv, Types, StandardEmpty, Bags
  <2>2. ASSUME NEW f \in Functions
        PROVE  count'[f] \in Bags
    BY <1>1, <2>1 DEF Bags, Less
  <2> QED BY <1>1, <2>2
<1>5. \A f \in Standard : \A g \in Functions :
        calls'[f][g] = 0 /\ count'[f][g] = 0
  <2> SUFFICES ASSUME NEW f \in Standard, NEW g \in Functions
               PROVE  calls'[f][g] = 0 /\ count'[f][g] = 0
    OBVIOUS
  <2>1. f \in Functions /\ of(f, g) = 0 /\ calls[f][g] = 0 /\ count[f][g] = 0
    BY FunctionsAssumption DEF IInv, Types, StandardEmpty
  <2>2. (0 - 0) % Width = 0
    BY FunctionsAssumption
  <2> QED BY <1>2, <2>1, <2>2
<1>6. CountsCalls'
  <2> SUFFICES ASSUME NEW f \in program', NEW g \in Functions
               PROVE  /\ count'[f][g] = calls'[f][g]
                      /\ calls'[f][g] > 0 => <<f, g>> \in edges'
    BY DEF CountsCalls
  <2>1. f \in program /\ f \in Functions
    BY <1>1 DEF IInv, Types, StandardEmpty
  <2>2. count[f][g] = calls[f][g] /\ (calls[f][g] > 0 => <<f, g>> \in edges)
    BY <2>1 DEF IInv, Types, StandardEmpty, CountsCalls
  <2>3. (calls[f][g] - of(f, g)) % Width = calls[f][g] - of(f, g)
    <3>1. /\ calls[f][g] \in 0 .. MaxCalls
          /\ of(f, g) \in Nat /\ of(f, g) <= calls[f][g]
      BY <1>2, <2>1, FunctionsAssumption
    <3> HIDE DEF of
    <3> QED BY <3>1, Remainder
  <2>4. calls'[f][g] > 0 => calls[f][g] > 0
    BY <1>2, <2>1
  <2>5. edges' = edges
    BY DEF RemoveEmpty, RemoveEmptyOf
  <2> QED BY <1>2, <2>1, <2>2, <2>3, <2>4, <2>5
<1>7. NoDanglingCall'
  <2> SUFFICES ASSUME NEW f \in program', NEW g \in Called(f)'
               PROVE  g \in program' \union Standard
    BY DEF NoDanglingCall
  <2>1. f \in program \ removed /\ f \in Functions /\ g \in Functions
    BY <1>1 DEF IInv, Types, StandardEmpty, Called
  <2>2. calls'[f][g] > 0
    BY DEF Called
  <2>3. calls[f][g] > 0 /\ g \notin removed
    BY <1>2, <2>1, <2>2
  <2>4. g \in Called(f)
    BY <2>1, <2>3 DEF Called
  <2>5. g \in program \union Standard
    BY <2>1, <2>4 DEF IInv, Types, StandardEmpty, NoDanglingCall
  <2> QED BY <1>1, <2>3, <2>5
<1>8. program' \subseteq Functions \ Standard /\ Main \in program'
  BY <1>1 DEF IInv, Types, StandardEmpty
<1>9. edges' = edges /\ reachable' = {} /\ optimized' \in BOOLEAN
  BY <1>1 DEF RemoveEmpty, RemoveEmptyOf, inl, IInv, Types, Snapshot
<1> QED
  BY <1>3, <1>4, <1>5, <1>6, <1>7, <1>8, <1>9
  DEF IInv, Types, StandardEmpty, Snapshot

(* A pass that changes the CALLs of one function, without calling anything *)
(* new that is not of the program, and their counts alike.                 *)
LEMMA LocalChange ==
  ASSUME IInv, NEW f \in program,
         program' = program, edges \subseteq edges',
         edges' \subseteq Functions \X Functions,
         reachable' = reachable, pc' = pc, optimized' \in BOOLEAN,
         DOMAIN calls' = Functions, DOMAIN count' = Functions,
         calls' = [calls EXCEPT ![f] = calls'[f]],
         count' = [count EXCEPT ![f] = count'[f]],
         calls'[f] \in Small,
         \A g \in Functions : count'[f][g] = calls'[f][g],
         count'[f] \in Bags,
         \A g \in Functions :
           calls'[f][g] > 0 => /\ <<f, g>> \in edges'
                               /\ g \in program \union Standard
  PROVE  IInv'
<1>1. f \in Functions /\ f \notin Standard
  BY DEF IInv, Types, StandardEmpty
<1>2. \A h \in Functions \ {f} : calls'[h] = calls[h] /\ count'[h] = count[h]
  BY DEF IInv, Types, StandardEmpty
<1>3. calls' \in [Functions -> Small] /\ count' \in [Functions -> Bags]
  BY <1>1, <1>2 DEF IInv, Types, StandardEmpty
<1>4. \A s \in Standard : \A g \in Functions :
        calls'[s][g] = 0 /\ count'[s][g] = 0
  BY <1>1, <1>2, FunctionsAssumption DEF IInv, Types, StandardEmpty
<1>5. CountsCalls'
  <2> SUFFICES ASSUME NEW h \in program, NEW g \in Functions
               PROVE  /\ count'[h][g] = calls'[h][g]
                      /\ calls'[h][g] > 0 => <<h, g>> \in edges'
    BY DEF CountsCalls
  <2>1. CASE h = f
    BY <2>1
  <2>2. CASE h # f
    <3>1. calls'[h] = calls[h] /\ count'[h] = count[h]
      BY <1>2, <2>2 DEF IInv, Types, StandardEmpty
    <3> QED BY <3>1 DEF IInv, Types, StandardEmpty, CountsCalls
  <2> QED BY <2>1, <2>2
<1>6. NoDanglingCall'
  <2> SUFFICES ASSUME NEW h \in program, NEW g \in Called(h)'
               PROVE  g \in program \union Standard
    BY DEF NoDanglingCall
  <2>1. g \in Functions /\ calls'[h][g] > 0
    BY DEF Called
  <2>2. CASE h = f
    BY <2>1, <2>2
  <2>3. CASE h # f
    <3>1. calls'[h] = calls[h]
      BY <1>2, <2>3 DEF IInv, Types, StandardEmpty
    <3>2. g \in Called(h)
      BY <2>1, <3>1 DEF Called
    <3> QED BY <3>2 DEF IInv, Types, StandardEmpty, NoDanglingCall
  <2> QED BY <2>2, <2>3
<1> QED
  BY <1>3, <1>4, <1>5, <1>6 DEF IInv, Types, StandardEmpty, Snapshot

LEMMA CalledNow ==
  ASSUME IInv, NEW f \in program, NEW g \in Functions, calls[f][g] > 0
  PROVE  <<f, g>> \in edges /\ g \in program \union Standard
  BY DEF IInv, Types, StandardEmpty, CountsCalls, NoDanglingCall, Called

(* The function passes: RemoveDeadBlocks subtracts what is there from both *)
(* counts, CopyBody adds the same to both.                                 *)
LEMMA RemoveDeadBlocksStep ==
  ASSUME IInv, NEW f \in program, RemoveDeadBlocks(f)
  PROVE  IInv'
<1>1. PICK gone \in Small :
        /\ Within(gone, calls[f])
        /\ calls' = [calls EXCEPT ![f] =
                       [g \in Functions |-> calls[f][g] - gone[g]]]
        /\ count' = [count EXCEPT ![f] = Less(count[f], gone)]
  BY DEF RemoveDeadBlocks
<1>2. f \in Functions /\ f \notin Standard
  BY DEF IInv, Types, StandardEmpty
<1>3. ASSUME NEW g \in Functions
      PROVE  /\ calls[f][g] \in 0 .. MaxCalls /\ gone[g] \in 0 .. calls[f][g]
             /\ calls[f][g] - gone[g] \in 0 .. MaxCalls
             /\ count[f][g] = calls[f][g]
             /\ (count[f][g] - gone[g]) % Width = calls[f][g] - gone[g]
  <2>1. calls[f][g] \in 0 .. MaxCalls /\ gone[g] \in Nat
    BY <1>2, FunctionsAssumption DEF IInv, Types, StandardEmpty, Small
  <2>2. gone[g] <= calls[f][g]
    BY <1>1 DEF Within
  <2>3. count[f][g] = calls[f][g]
    BY DEF IInv, Types, StandardEmpty, CountsCalls
  <2> QED BY <2>1, <2>2, <2>3, Remainder, FunctionsAssumption
<1>4. calls'[f] = [g \in Functions |-> calls[f][g] - gone[g]]
      /\ calls'[f] \in Small
  BY <1>1, <1>2, <1>3 DEF IInv, Types, StandardEmpty, Small
<1>5. count'[f] = Less(count[f], gone) /\ count'[f] = calls'[f]
  BY <1>1, <1>2, <1>3, <1>4 DEF IInv, Types, StandardEmpty, Less
<1>6. \A h \in Functions \ {f} : calls'[h] = calls[h] /\ count'[h] = count[h]
  BY <1>1 DEF IInv, Types, StandardEmpty
<1>7. ASSUME NEW g \in Functions, calls'[f][g] > 0
      PROVE  <<f, g>> \in edges /\ g \in program \union Standard
  <2>1. calls[f][g] > 0
    BY <1>3, <1>4, <1>7
  <2> QED BY <2>1, CalledNow
<1>8. calls' = [calls EXCEPT ![f] = calls'[f]]
      /\ count' = [count EXCEPT ![f] = count'[f]]
  BY <1>1, <1>4, <1>5 DEF IInv, Types, StandardEmpty
<1>9. DOMAIN calls' = Functions /\ DOMAIN count' = Functions
  BY <1>1 DEF IInv, Types, StandardEmpty
<1>10. calls'[f] \in Small /\ count'[f] \in Bags
       /\ \A g \in Functions : count'[f][g] = calls'[f][g]
  BY <1>4, <1>5 DEF Small, Bags
<1>11. /\ program' = program /\ edges' = edges /\ reachable' = reachable
       /\ pc' = pc /\ optimized' \in BOOLEAN
  BY DEF RemoveDeadBlocks, inl
<1> QED
  BY <1>7, <1>8, <1>9, <1>10, <1>11, LocalChange DEF IInv, Types, StandardEmpty

LEMMA CopyBodyStep ==
  ASSUME IInv, NEW f \in program, CopyBody(f)
  PROVE  IInv'
<1>1. PICK body \in Small, factor \in Factors :
        LET more == Times(factor - 1, body) IN
        /\ Within(body, calls[f])
        /\ Within(Bag(calls[f], more), [g \in Functions |-> MaxCalls])
        /\ calls' = [calls EXCEPT ![f] = Bag(calls[f], more)]
        /\ count' = [count EXCEPT ![f] = Bag(count[f], more)]
  BY DEF CopyBody
<1> DEFINE more == Times(factor - 1, body)
<1>2. f \in Functions /\ f \notin Standard
  BY DEF IInv, Types, StandardEmpty
<1>3. ASSUME NEW g \in Functions
      PROVE  /\ more[g] \in Nat /\ (body[g] = 0 => more[g] = 0)
             /\ calls[f][g] \in Nat /\ body[g] <= calls[f][g]
             /\ count[f][g] = calls[f][g]
  <2>1. body[g] \in Nat /\ factor - 1 \in Nat /\ calls[f][g] \in Nat
    BY <1>2, FunctionsAssumption DEF IInv, Types, StandardEmpty, Small
  <2>2. more[g] = (factor - 1) * body[g]
    BY DEF Times
  <2>3. more[g] \in Nat /\ (body[g] = 0 => more[g] = 0)
    BY <2>1, <2>2
  <2>4. body[g] <= calls[f][g]
    BY <1>1 DEF Within
  <2>5. count[f][g] = calls[f][g]
    BY DEF IInv, Types, StandardEmpty, CountsCalls
  <2> QED BY <2>1, <2>3, <2>4, <2>5
<1> HIDE DEF more
<1>4. /\ calls'[f] = [g \in Functions |-> calls[f][g] + more[g]]
      /\ count'[f] = [g \in Functions |-> count[f][g] + more[g]]
  BY <1>1, <1>2 DEF IInv, Types, StandardEmpty, Bag, more
<1>5. \A g \in Functions : calls[f][g] + more[g] \in 0 .. MaxCalls
  <2>1. Within(Bag(calls[f], more), [g \in Functions |-> MaxCalls])
    BY <1>1 DEF more
  <2> QED BY <1>3, <2>1, FunctionsAssumption DEF Within, Bag
<1>6. calls'[f] \in Small /\ count'[f] \in Bags
      /\ \A g \in Functions : count'[f][g] = calls'[f][g]
  BY <1>3, <1>4, <1>5 DEF Small, Bags
<1>7. ASSUME NEW g \in Functions, calls'[f][g] > 0
      PROVE  <<f, g>> \in edges /\ g \in program \union Standard
  <2>1. body[g] = 0 => calls[f][g] > 0
    BY <1>3, <1>4, <1>7
  <2>2. body[g] \in Nat
    BY FunctionsAssumption DEF Small
  <2>3. calls[f][g] > 0
    BY <1>3, <2>1, <2>2
  <2> QED BY <2>3, CalledNow
<1>8. calls' = [calls EXCEPT ![f] = calls'[f]]
      /\ count' = [count EXCEPT ![f] = count'[f]]
  BY <1>1, <1>2 DEF IInv, Types, StandardEmpty
<1>9. DOMAIN calls' = Functions /\ DOMAIN count' = Functions
  BY <1>1 DEF IInv, Types, StandardEmpty
<1>10. /\ program' = program /\ edges' = edges /\ reachable' = reachable
       /\ pc' = pc /\ optimized' \in BOOLEAN
  BY DEF CopyBody, inl
<1> QED
  BY <1>6, <1>7, <1>8, <1>9, <1>10, LocalChange DEF IInv, Types, StandardEmpty

(* Copying an exit block without CALLs changes nothing here.               *)
LEMMA UnswitchStep ==
  ASSUME IInv, NoExitCalls, NEW f \in program, Unswitch(f)
  PROVE  IInv'
<1>1. PICK exit \in ExitBlocks :
        calls' = [calls EXCEPT ![f] = Bag(calls[f], exit)]
  BY DEF Unswitch
<1>2. calls[f] \in Small /\ f \in Functions
  BY DEF IInv, Types, StandardEmpty
<1>3. Bag(calls[f], exit) = calls[f]
  <2>1. \A g \in Functions : calls[f][g] + exit[g] = calls[f][g]
    BY <1>2, FunctionsAssumption DEF NoExitCalls, Small
  <2> QED BY <1>2, <2>1 DEF Bag, Small
<1>4. calls' = calls
  BY <1>1, <1>2, <1>3 DEF IInv, Types, StandardEmpty
<1> QED
  BY <1>4, Frame DEF Unswitch, inl, IInv, Types, Snapshot

(* Inlining f into d moves the CALLs of f, which are to the program, to d. *)
LEMMA CallSiteInliningStep ==
  ASSUME IInv, CallSiteInlining
  PROVE  IInv'
<1> DEFINE d == Head(callers)
           f == order[k]
<1>1. /\ MayInline(d, f)
      /\ Within(Bag(calls[d], calls[f]), [g \in Functions |-> MaxCalls])
      /\ calls' = [calls EXCEPT ![d] =
                    [g \in Functions |-> calls[d][g] - One(f)[g] + calls[f][g]]]
      /\ count' = [count EXCEPT ![d] = Bag(Less(count[d], One(f)), calls[f])]
      /\ edges' = edges \union ({d} \X Called(f))
      /\ UNCHANGED <<program, reachable, pc>> /\ optimized' \in BOOLEAN
  BY DEF CallSiteInlining, inl
<1> HIDE DEF d, f
<1>2. f \in program /\ f \in Functions
  BY <1>1 DEF MayInline, IInv, Types, StandardEmpty
<1>3. d \in Functions /\ calls[d][f] > 0
  BY <1>1, FunctionsAssumption DEF MayInline, IInv, Types, Snapshot
<1>4. d \notin Standard
  BY <1>2, <1>3 DEF IInv, Types, StandardEmpty
<1>6. d \in program
  BY <1>1, <1>4 DEF MayInline, IInv, Snapshot
<1>7. ASSUME NEW g \in Functions
      PROVE  /\ calls[d][g] \in 0 .. MaxCalls /\ calls[f][g] \in 0 .. MaxCalls
             /\ One(f)[g] \in 0 .. calls[d][g]
             /\ count[d][g] = calls[d][g]
             /\ (count[d][g] - One(f)[g]) % Width = calls[d][g] - One(f)[g]
             /\ calls[d][g] + calls[f][g] <= MaxCalls
  <2>1. calls[d][g] \in 0 .. MaxCalls /\ calls[f][g] \in 0 .. MaxCalls
    BY <1>2, <1>3 DEF IInv, Types, StandardEmpty, Small
  <2>2. One(f)[g] \in Nat /\ One(f)[g] <= calls[d][g]
    BY <1>3, <2>1, FunctionsAssumption DEF One
  <2>3. count[d][g] = calls[d][g]
    BY <1>6 DEF IInv, Types, StandardEmpty, CountsCalls
  <2>4. calls[d][g] + calls[f][g] <= MaxCalls
    BY <1>1 DEF Within, Bag
  <2> QED BY <2>1, <2>2, <2>3, <2>4, Remainder, FunctionsAssumption
<1>8. calls'[d] = [g \in Functions |-> calls[d][g] - One(f)[g] + calls[f][g]]
  BY <1>1, <1>3 DEF IInv, Types, StandardEmpty
<1>9. count'[d] = calls'[d]
  <2>1. count'[d] = [g \in Functions |->
                       ((count[d][g] - One(f)[g]) % Width) + calls[f][g]]
    BY <1>1, <1>3 DEF IInv, Types, StandardEmpty, Bag, Less
  <2> QED BY <1>7, <1>8, <2>1
<1>10. calls'[d] \in Small /\ count'[d] \in Bags
       /\ \A g \in Functions : count'[d][g] = calls'[d][g]
  <2>1. \A g \in Functions :
          calls[d][g] - One(f)[g] + calls[f][g] \in 0 .. MaxCalls
    BY <1>7, FunctionsAssumption
  <2> QED BY <1>8, <1>9, <2>1 DEF Small, Bags
<1>11. ASSUME NEW g \in Functions, calls'[d][g] > 0
       PROVE  <<d, g>> \in edges' /\ g \in program \union Standard
  <2>1. calls[d][g] > 0 \/ calls[f][g] > 0
    BY <1>7, <1>8, <1>11, FunctionsAssumption
  <2>2. CASE calls[d][g] > 0
    BY <1>1, <1>6, <2>2, CalledNow
  <2>3. CASE calls[f][g] > 0
    BY <1>1, <1>2, <2>3, CalledNow DEF Called
  <2> QED BY <2>1, <2>2, <2>3
<1>12. calls' = [calls EXCEPT ![d] = calls'[d]]
       /\ count' = [count EXCEPT ![d] = count'[d]]
  BY <1>1, <1>3 DEF IInv, Types, StandardEmpty
<1>13. DOMAIN calls' = Functions /\ DOMAIN count' = Functions
  BY <1>1 DEF IInv, Types, StandardEmpty
<1>14. edges \subseteq edges' /\ edges' \subseteq Functions \X Functions
  BY <1>1, <1>3 DEF IInv, Types, StandardEmpty, Called
<1> QED
  BY <1>1, <1>6, <1>10, <1>11, <1>12, <1>13, <1>14, LocalChange DEF IInv, Types, StandardEmpty

-----------------------------------------------------------------------------

LEMMA StepIInv ==
  ASSUME NoExitCalls, IInv, [Next]_vars
  PROVE  IInv'
<1>1. CASE RemoveUnused
  BY <1>1, RemoveUnusedStep
<1>2. CASE RemoveEmpty
  BY <1>2, RemoveEmptyStep
<1>3. CASE LocalPasses
  BY <1>3, RemoveDeadBlocksStep, CopyBodyStep, UnswitchStep DEF LocalPasses
<1>4. CASE StartInlining \/ VisitEdge \/ GiveOut
  BY <1>4, Frame DEF StartInlining, VisitEdge, GiveOut, IInv, Types, Snapshot
<1>e. CASE EndVisit
  <2>1. reachable' \subseteq program \union Standard
    BY <1>e, Reached DEF EndVisit
  <2> QED
    BY <1>e, <2>1, Frame DEF EndVisit, IInv, Types, Snapshot
<1>5. CASE NextFunction \/ NextCaller \/ EndInlining
  <2>1. UNCHANGED <<program, calls, count, edges, optimized>>
    BY <1>5 DEF NextFunction, NextCaller, EndInlining
  <2>2. /\ reachable' = reachable \/ reachable' = {}
        /\ pc' \in {"callers", "next function"} \/ reachable' = {}
    BY <1>5 DEF NextFunction, NextCaller, EndInlining
  <2>3. Snapshot'
    BY <2>1, <2>2 DEF IInv, Snapshot
  <2> QED BY <2>1, <2>3, Frame DEF IInv, Types
<1>6. CASE CallSiteInlining
  BY <1>6, CallSiteInliningStep
<1>7. CASE ParameterPropagation
  BY <1>7, Frame DEF ParameterPropagation, inl, IInv, Types, Snapshot
<1>8. CASE UNCHANGED vars
  BY <1>8, Frame DEF vars, IInv, Types, Snapshot
<1> QED
  BY <1>1, <1>2, <1>3, <1>4, <1>e, <1>5, <1>6, <1>7, <1>8 DEF Next, Inlining

(* A function is removed only when no CALL leads to it or it is empty.     *)
LEMMA StepKeeps ==
  ASSUME NoExitCalls, IInv, [Next]_vars
  PROVE  \A f \in program \ program' :
           f \in FromMain([h \in Functions |-> Called(h)]) => Called(f) = {}
<1>1. CASE RemoveUnused
  <2>1. ComputeReachable \in SUBSET Functions
    BY DEF ComputeReachable, FromMain
  <2>2. FromMain([h \in Functions |-> Called(h)]) \subseteq ComputeReachable
    BY <2>1, Reached DEF FromMain
  <2> QED BY <1>1, <2>2 DEF RemoveUnused
<1>2. CASE RemoveEmpty
  BY <1>2 DEF RemoveEmpty, RemoveEmptyOf
<1>3. CASE program' = program
  BY <1>3
<1> QED
  BY <1>1, <1>2, <1>3 DEF Next, LocalPasses, Inlining, RemoveDeadBlocks,
    CopyBody, Unswitch, StartInlining, VisitEdge, GiveOut, EndVisit,
    NextFunction, CallSiteInlining,
    NextCaller, EndInlining, ParameterPropagation, vars

(* The inductive invariant holds in every reachable state.                 *)
THEOREM Invariance == ASSUME NoExitCalls PROVE Spec => []IInv
<1>1. Init => IInv
  BY InitIInv
<1>2. IInv /\ [Next]_vars => IInv'
  BY StepIInv
<1> QED BY <1>1, <1>2, PTL DEF Spec

(* The edges of the call graph count the CALLs of the code.                *)
THEOREM CountsAgree == ASSUME NoExitCalls PROVE Spec => []CountsCalls
<1>1. IInv => CountsCalls
  BY DEF IInv, Types, StandardEmpty
<1> QED BY <1>1, Invariance, PTL

(* No function is removed while the code of a kept one calls it.           *)
THEOREM NoneDangling == ASSUME NoExitCalls PROVE Spec => []NoDanglingCall
<1>1. IInv => NoDanglingCall
  BY DEF IInv, Types, StandardEmpty
<1> QED BY <1>1, Invariance, PTL

(* Only what main cannot run, or what is empty, is removed.                *)
THEOREM KeepsRunnable == ASSUME NoExitCalls PROVE Spec => KeepsWhatRuns
<1>1. IInv /\ [Next]_vars =>
        [\A f \in program \ program' :
           f \in FromMain([h \in Functions |-> Called(h)]) =>
             Called(f) = {}]_vars
  BY StepKeeps
<1> QED BY <1>1, Invariance, PTL DEF Spec, KeepsWhatRuns
-----------------------------------------------------------------------------
(* Inlining: the order of the functions and the callers it looks at.       *)

Frames == [f : Functions, left : SUBSET Functions]

(* What a function on the stack calls was given out, or is the next one of *)
(* the stack, or is left to visit; main is at the bottom.                  *)
Visiting ==
  pc = "visit" =>
    /\ stack \in Seq(Frames)
    /\ \A h \in 1 .. Len(stack) :
         Callees(stack[h].f)
           \subseteq stack[h].left \union ToSet(order)
                       \union (IF h < Len(stack) THEN {stack[h + 1].f} ELSE {})
    /\ IF stack = <<>> THEN Main \in ToSet(order) ELSE stack[1].f = Main

(* Every function that was given out was given out after its callees.      *)
Sorted ==
  pc \in {"visit", "next function", "callers"} =>
    \A j \in 1 .. Len(order) :
      Callees(order[j]) \subseteq {order[h] : h \in 1 .. j - 1}

Ordered ==
  /\ order \in Seq(Functions) /\ k \in Nat \ {0}
  /\ pc \in {"next function", "callers"} => Main \in ToSet(order)

(* No assembly function is inlined or inlined into.                        *)
Looking ==
  pc = "callers" => /\ k \in 1 .. Len(order) /\ order[k] \in reachable \ Standard
                    /\ callers \in Seq(Functions \ Standard)

Traversal == Visiting /\ Sorted /\ Ordered /\ Looking

LEMMA CalleesType ==
  ASSUME IInv, NEW f
  PROVE  Callees(f) \subseteq Functions
  BY DEF IInv, Types, Callees

LEMMA StartTraversal == IInv /\ Traversal /\ StartInlining => Traversal'
<1> SUFFICES ASSUME IInv, Traversal, StartInlining PROVE Traversal'
  OBVIOUS
<1>1. /\ stack' = <<Enter(Main)>> /\ order' = <<>> /\ pc' = "visit"
      /\ edges' = edges /\ k' = k
  BY DEF StartInlining
<1>2. Enter(Main) \in Frames /\ Enter(Main).f = Main
      /\ Enter(Main).left = Callees(Main)
  BY CalleesType, FunctionsAssumption DEF Enter, Frames
<1>3. /\ <<Enter(Main)>> \in Seq(Frames) /\ Len(<<Enter(Main)>>) = 1
      /\ <<Enter(Main)>>[1] = Enter(Main) /\ <<Enter(Main)>> # <<>>
  BY <1>2
<1>4. \A f : Callees(f)' = Callees(f)
  BY <1>1 DEF Callees
<1>5. Visiting'
  BY <1>1, <1>2, <1>3, <1>4 DEF Visiting
<1>6. Sorted'
  BY <1>1 DEF Sorted
<1>7. Ordered' /\ Looking'
  <2>1. k \in Nat \ {0}
    BY DEF Traversal, Ordered
  <2>2. <<>> \in Seq(Functions)
    BY EmptySeq, Zenon
  <2> QED
    BY <1>1, <2>1, <2>2 DEF Ordered, Looking
<1> QED
  BY <1>5, <1>6, <1>7 DEF Traversal

LEMMA VisitEdgeTraversal == IInv /\ Traversal /\ VisitEdge => Traversal'
<1> SUFFICES ASSUME IInv, Traversal, VisitEdge PROVE Traversal'
  OBVIOUS
<1> DEFINE n == Len(stack)
<1>1. /\ stack \in Seq(Frames) /\ n \in Nat \ {0} /\ pc = "visit" /\ pc' = pc
      /\ edges' = edges /\ order' = order /\ k' = k /\ stack # <<>>
  BY DEF VisitEdge, Traversal, Visiting
<1>2. PICK g \in stack[n].left :
        stack' = Append([stack EXCEPT ![n].left = @ \ {g}], Enter(g))
  BY DEF VisitEdge, Last
<1>3. stack[n] \in Frames
  BY <1>1
<1>4. g \in Functions /\ Enter(g) \in Frames /\ Enter(g).f = g
      /\ Enter(g).left = Callees(g)
  BY <1>3, CalleesType DEF Enter, Frames
<1> DEFINE top == [stack[n] EXCEPT !.left = @ \ {g}]
           rest == [stack EXCEPT ![n] = top]
<1>5. top \in Frames /\ top.f = stack[n].f /\ top.left = stack[n].left \ {g}
  BY <1>3 DEF Frames
<1> HIDE DEF top
<1>6. rest \in Seq(Frames) /\ Len(rest) = n
      /\ \A h \in 1 .. n : rest[h] = IF h = n THEN top ELSE stack[h]
  BY <1>1, <1>5
<1>7. stack' = Append(rest, Enter(g))
  BY <1>2 DEF top
<1> HIDE DEF rest
<1>8. /\ stack' \in Seq(Frames) /\ Len(stack') = n + 1 /\ stack' # <<>>
      /\ \A h \in 1 .. n : stack'[h] = rest[h]
      /\ stack'[n + 1] = Enter(g)
  BY <1>1, <1>4, <1>6, <1>7
<1>9. \A f : Callees(f)' = Callees(f)
  BY <1>1 DEF Callees
<1>10. stack'[1].f = Main
  <2>1. stack[1].f = Main /\ 1 \in 1 .. n
    BY <1>1 DEF Traversal, Visiting
  <2> QED
    BY <1>5, <1>6, <1>8, <2>1
<1>11. ASSUME NEW h \in 1 .. n + 1
       PROVE  Callees(stack'[h].f)
                \subseteq stack'[h].left \union ToSet(order)
                  \union (IF h < n + 1 THEN {stack'[h + 1].f} ELSE {})
  <2>1. CASE h = n + 1
    BY <1>4, <1>8, <2>1
  <2>2. CASE h = n
    <3>1. Callees(stack[n].f) \subseteq stack[n].left \union ToSet(order)
      BY <1>1 DEF Traversal, Visiting
    <3>2. stack'[n] = top /\ stack'[n + 1].f = g
      BY <1>1, <1>4, <1>6, <1>8
    <3> QED
      BY <1>1, <1>5, <2>2, <3>1, <3>2
  <2>3. CASE h \in 1 .. n - 1
    <3>1. Callees(stack[h].f)
            \subseteq stack[h].left \union ToSet(order) \union {stack[h + 1].f}
      BY <1>1, <2>3 DEF Traversal, Visiting
    <3>2. stack'[h] = stack[h] /\ stack'[h + 1].f = stack[h + 1].f
      <4>1. h \in 1 .. n /\ h # n /\ h + 1 \in 1 .. n
        BY <1>1, <2>3
      <4> QED
        BY <1>5, <1>6, <1>8, <4>1
    <3> QED
      BY <1>1, <2>3, <3>1, <3>2
  <2> QED
    BY <1>1, <2>1, <2>2, <2>3
<1>12. Visiting'
  BY <1>1, <1>8, <1>9, <1>10, <1>11 DEF Visiting
<1>13. Sorted'
  <2>1. \A j \in 1 .. Len(order) :
          Callees(order[j]) \subseteq {order[h] : h \in 1 .. j - 1}
    BY <1>1 DEF Traversal, Sorted
  <2>2. \A j \in 1 .. Len(order') :
          Callees(order'[j]) \subseteq {order'[h] : h \in 1 .. j - 1}
    BY <1>1, <2>1
  <2> QED
    BY <1>9, <2>2 DEF Sorted
<1> QED
  BY <1>1, <1>12, <1>13 DEF Traversal, Ordered, Looking

LEMMA FrontProperties ==
  ASSUME NEW S, NEW s \in Seq(S), s # <<>>
  PROVE  /\ Front(s) \in Seq(S) /\ Len(Front(s)) = Len(s) - 1
         /\ \A h \in 1 .. Len(s) - 1 : Front(s)[h] = s[h]
<1> DEFINE n == Len(s) - 1
<1>1. n \in Nat /\ \A h \in 1 .. n : s[h] \in S
  OBVIOUS
<1> HIDE DEF n
<1>2. /\ SubSeq(s, 1, n) \in Seq(S)
      /\ Len(SubSeq(s, 1, n)) = IF 1 <= n THEN n - 1 + 1 ELSE 0
      /\ \A h \in 1 .. n - 1 + 1 : SubSeq(s, 1, n)[h] = s[1 + h - 1]
  BY <1>1, SubSeqProperties
<1>3. Front(s) = SubSeq(s, 1, n)
  BY DEF Front, n
<1>4. Len(Front(s)) = n /\ \A h \in 1 .. n : Front(s)[h] = s[h]
  BY <1>1, <1>2, <1>3
<1> QED
  BY <1>2, <1>3, <1>4 DEF n

LEMMA GiveOutTraversal == IInv /\ Traversal /\ GiveOut => Traversal'
<1> SUFFICES ASSUME IInv, Traversal, GiveOut PROVE Traversal'
  OBVIOUS
<1> DEFINE n == Len(stack)
           g == stack[n].f
           m == Len(order)
<1>1. /\ stack \in Seq(Frames) /\ n \in Nat \ {0} /\ pc = "visit" /\ pc' = pc
      /\ edges' = edges /\ k' = k /\ stack[n].left = {} /\ g \in Functions
      /\ stack # <<>> /\ order' = Append(order, g)
      /\ order \in Seq(Functions) /\ m \in Nat
  <2>1. stack \in Seq(Frames) /\ stack # <<>> /\ order \in Seq(Functions)
    BY DEF GiveOut, Traversal, Visiting, Ordered
  <2>2. n \in Nat \ {0} /\ stack[n] \in Frames
    BY <2>1
  <2> QED
    BY <2>1, <2>2 DEF GiveOut, Last, Frames
<1>2. /\ stack' \in Seq(Frames) /\ Len(stack') = n - 1
      /\ \A h \in 1 .. n - 1 : stack'[h] = stack[h]
      /\ (stack' = <<>>) <=> (n = 1)
  <2>1. stack' = Front(stack)
    BY DEF GiveOut
  <2>2. /\ Front(stack) \in Seq(Frames) /\ Len(Front(stack)) = n - 1
        /\ \A h \in 1 .. n - 1 : Front(stack)[h] = stack[h]
    BY <1>1, FrontProperties
  <2> DEFINE q == Front(stack)
  <2> HIDE DEF q, n
  <2>3. (q = <<>>) <=> (Len(q) = 0)
    <3>1. q \in Seq(Frames)
      BY <2>2 DEF q
    <3> QED
      BY <3>1, EmptySeq
  <2> QED
    BY <1>1, <2>1, <2>2, <2>3 DEF q
<1> HIDE DEF g
<1>3. /\ order' \in Seq(Functions) /\ Len(order') = m + 1
      /\ \A j \in 1 .. m : order'[j] = order[j]
      /\ order'[m + 1] = g
  BY <1>1
<1>4. /\ ToSet(order) = {order[h] : h \in 1 .. m}
      /\ ToSet(order') = ToSet(order) \union {g}
  <2>1. DOMAIN order = 1 .. m /\ DOMAIN order' = 1 .. m + 1
    BY <1>1, <1>3
  <2> QED
    BY <1>1, <1>3, <2>1 DEF ToSet
<1>5. \A f : Callees(f)' = Callees(f)
  BY <1>1 DEF Callees
<1>6. Callees(g) \subseteq ToSet(order)
  <2>1. n \in 1 .. n /\ ~(n < n)
    BY <1>1
  <2>2. Callees(stack[n].f)
          \subseteq stack[n].left \union ToSet(order)
                      \union (IF n < n THEN {stack[n + 1].f} ELSE {})
    BY <1>1, <2>1 DEF Traversal, Visiting
  <2> QED
    BY <1>1, <2>1, <2>2 DEF g
<1>7. Visiting'
  <2>1. IF stack' = <<>> THEN Main \in ToSet(order') ELSE stack'[1].f = Main
    <3>1. stack[1].f = Main
      BY <1>1 DEF Traversal, Visiting
    <3> QED
      BY <1>1, <1>2, <1>4, <3>1, SMTT(30) DEF g
  <2>2. ASSUME NEW h \in 1 .. n - 1
        PROVE  Callees(stack'[h].f)
                 \subseteq stack'[h].left \union ToSet(order')
                   \union (IF h < n - 1 THEN {stack'[h + 1].f} ELSE {})
    <3>1. Callees(stack[h].f)
            \subseteq stack[h].left \union ToSet(order) \union {stack[h + 1].f}
      BY <1>1 DEF Traversal, Visiting
    <3>2. CASE h = n - 1
      <4>1. stack[h + 1].f = g
        BY <1>1, <3>2 DEF g
      <4> QED
        BY <1>2, <1>4, <3>1, <4>1
    <3>3. CASE h # n - 1
      <4>1. h + 1 \in 1 .. n - 1 /\ h < n - 1
        BY <1>1, <3>3
      <4> QED
        BY <1>2, <1>4, <3>1, <4>1
    <3> QED
      BY <3>2, <3>3
  <2> QED
    BY <1>1, <1>2, <1>5, <2>1, <2>2 DEF Visiting
<1>8. Sorted'
  <2>1. ASSUME NEW j \in 1 .. m + 1
        PROVE  Callees(order'[j]) \subseteq {order'[h] : h \in 1 .. j - 1}
    <3>1. \A h \in 1 .. j - 1 : order'[h] = order[h]
      BY <1>1, <1>3
    <3>2. CASE j = m + 1
      <4>1. order'[j] = g /\ j - 1 = m
        BY <1>1, <1>3, <3>2
      <4>2. ASSUME NEW x \in Callees(g) PROVE \E h \in 1 .. m : x = order'[h]
        <5>1. x \in {order[h] : h \in 1 .. m}
          BY <1>4, <1>6
        <5> QED
          BY <1>3, <5>1
      <4>3. Callees(order'[j]) = Callees(g)
        BY <4>1
      <4>4. {order'[h] : h \in 1 .. j - 1} = {order'[h] : h \in 1 .. m}
        BY <4>1
      <4> HIDE DEF m
      <4>5. Callees(g) \subseteq {order'[h] : h \in 1 .. m}
        BY <4>2
      <4> QED
        BY <4>3, <4>4, <4>5, Zenon
    <3>3. CASE j \in 1 .. m
      <4>1. Callees(order[j]) \subseteq {order[h] : h \in 1 .. j - 1}
        BY <1>1, <3>3 DEF Traversal, Sorted
      <4>2. {order'[h] : h \in 1 .. j - 1} = {order[h] : h \in 1 .. j - 1}
        BY <3>1
      <4>3. Callees(order'[j]) = Callees(order[j])
        BY <1>3, <3>3
      <4> HIDE DEF m, n
      <4> QED
        BY <4>1, <4>2, <4>3
    <3>4. j = m + 1 \/ j \in 1 .. m
      BY <1>1
    <3> HIDE DEF m, n
    <3> QED
      BY <3>2, <3>3, <3>4, Zenon
  <2> QED
    BY <1>3, <1>5, <2>1 DEF Sorted
<1> QED
  BY <1>1, <1>3, <1>7, <1>8 DEF Traversal, Ordered, Looking

LEMMA SourcesType ==
  ASSUME IInv, NEW f \in Functions
  PROVE  SortedCallers(f) \subseteq Seq(Functions \ Standard)
<1>1. Sources(f) \subseteq Functions \ Standard
  BY DEF Sources, IInv, StandardEmpty
<1>2. IsFiniteSet(Sources(f))
  BY <1>1, FunctionsAssumption, FS_Subset
<1>3. Cardinality(Sources(f)) \in Nat
  BY <1>2, FS_CardinalityType
<1>4. ASSUME NEW s \in SortedCallers(f)
      PROVE  s \in Seq(Functions \ Standard)
  <2> DEFINE n == Cardinality(Sources(f))
  <2>1. s \in [1 .. n -> Sources(f)]
    BY DEF SortedCallers, SetToSeqs
  <2> HIDE DEF n
  <2>2. s \in Seq(Sources(f))
    BY <1>3, <2>1 DEF n
  <2> QED
    BY <1>1, <2>2
<1> QED
  BY <1>4

(* The steps that leave the graph and the order alone.                     *)
LEMMA OrderStays ==
  ASSUME Traversal, edges' = edges, order' = order, stack' = stack, k' \in Nat \ {0},
         pc \in {"next function", "callers"}, pc' # "visit", Looking'
  PROVE  Traversal'
<1>1. \A f : Callees(f)' = Callees(f)
  BY DEF Callees
<1>2. \A j \in 1 .. Len(order) :
        Callees(order[j]) \subseteq {order[h] : h \in 1 .. j - 1}
  BY DEF Traversal, Sorted
<1>3. \A j \in 1 .. Len(order') :
        Callees(order'[j]) \subseteq {order'[h] : h \in 1 .. j - 1}
  BY <1>2, ZenonT(60)
<1> QED
  BY <1>1, <1>3 DEF Traversal, Visiting, Sorted, Ordered

LEMMA NextFunctionTraversal == IInv /\ Traversal /\ NextFunction => Traversal'
<1> SUFFICES ASSUME IInv, Traversal, NextFunction PROVE Traversal'
  OBVIOUS
<1>1. pc = "next function" /\ edges' = edges /\ order' = order
      /\ stack' = stack /\ reachable' = reachable
  BY DEF NextFunction
<1>2. k \in Nat \ {0} /\ order \in Seq(Functions)
  BY DEF Traversal, Ordered
<1>3. Len(order) \in Nat
  BY <1>2, LenProperties
<1>4. k \in 1 .. Len(order)
  <2>1. k <= Len(order)
    BY DEF NextFunction
  <2> QED
    BY <1>2, <1>3, <2>1
<1>5. order[k] \in Functions
  BY <1>2, <1>4
<1>6. CASE order[k] \in reachable \ Standard
  <2>1. callers' \in SortedCallers(order[k]) /\ pc' = "callers" /\ k' = k
    BY <1>6 DEF NextFunction
  <2>2. callers' \in Seq(Functions \ Standard)
    BY <1>5, <2>1, SourcesType
  <2>3. Looking'
    BY <1>1, <1>4, <1>6, <2>1, <2>2 DEF Looking
  <2>4. k' \in Nat \ {0} /\ pc' # "visit"
    BY <1>2, <2>1
  <2> QED
    BY <1>1, <2>3, <2>4, OrderStays
<1>7. CASE order[k] \notin reachable \ Standard
  <2>1. pc' = pc /\ k' = k + 1
    BY <1>7 DEF NextFunction
  <2>2. Looking' /\ pc' # "visit"
    BY <1>1, <2>1 DEF Looking
  <2>3. k' \in Nat \ {0}
    BY <1>2, <2>1
  <2> QED
    BY <1>1, <2>2, <2>3, OrderStays
<1> QED
  BY <1>6, <1>7

LEMMA NextCallerTraversal == IInv /\ Traversal /\ NextCaller => Traversal'
<1> SUFFICES ASSUME IInv, Traversal, NextCaller PROVE Traversal'
  OBVIOUS
<1>1. pc = "callers" /\ edges' = edges /\ order' = order /\ stack' = stack
      /\ reachable' = reachable
  BY DEF NextCaller
<1>2. /\ k \in Nat \ {0} /\ k \in 1 .. Len(order)
      /\ order[k] \in reachable \ Standard
      /\ callers \in Seq(Functions \ Standard)
  BY <1>1 DEF Traversal, Ordered, Looking
<1>3. k \in Nat \ {0}
  BY DEF Traversal, Ordered
<1>4. CASE callers = <<>>
  <2>1. k' = k + 1 /\ pc' = "next function"
    BY <1>4 DEF NextCaller
  <2>2. Looking' /\ pc' # "visit"
    BY <2>1 DEF Looking
  <2>3. k' \in Nat \ {0}
    <3>1. k' = k + 1
      BY <2>1
    <3> QED
      BY <1>3, <3>1
  <2> QED
    BY <1>1, <2>2, <2>3, OrderStays
<1>5. CASE callers # <<>>
  <2>1. callers' = Tail(callers) /\ k' = k /\ pc' = pc
    BY <1>5 DEF NextCaller
  <2>2. Tail(callers) \in Seq(Functions \ Standard)
    BY <1>2, <1>5, HeadTailProperties
  <2>3. Looking'
    BY <1>1, <1>2, <2>1, <2>2 DEF Looking
  <2>4. k' \in Nat \ {0} /\ pc' # "visit"
    BY <1>1, <1>3, <2>1
  <2> QED
    BY <1>1, <2>3, <2>4, OrderStays
<1> QED
  BY <1>4, <1>5

(* The edges that inlining adds lead from the caller to what the callee    *)
(* calls, which was given out before the callee, itself given out before   *)
(* the caller.                                                             *)
LEMMA CallSiteInliningTraversal ==
  IInv /\ Traversal /\ CallSiteInlining => Traversal'
<1> SUFFICES ASSUME IInv, Traversal, CallSiteInlining PROVE Traversal'
  OBVIOUS
<1> DEFINE d == Head(callers)
           f == order[k]
           Before(j) == {order[h] : h \in 1 .. j - 1}
<1>1. /\ MayInline(d, f) /\ edges' = edges \union ({d} \X Called(f))
      /\ pc = "callers"
      /\ UNCHANGED <<program, pc, stack, order, k, reachable, callers>>
  BY DEF CallSiteInlining, inl
<1>2. /\ order \in Seq(Functions) /\ k \in 1 .. Len(order)
      /\ callers \in Seq(Functions \ Standard) /\ callers # <<>>
      /\ Len(order) \in Nat
  BY <1>1 DEF CallSiteInlining, Traversal, Ordered, Looking
<1>3. d \in Functions \ Standard
  BY <1>2, HeadTailProperties
<1> HIDE DEF d
<1>4. f \in program /\ d \in program /\ f # d /\ calls[d][f] > 0
      /\ calls[f][f] = 0 /\ f \in Functions
  BY <1>1, <1>3 DEF MayInline, IInv, Snapshot, Types
<1> HIDE DEF f
<1>5. f \in Callees(d)
  <2>1. <<d, f>> \in edges
    BY <1>4, CalledNow
  <2> QED
    BY <1>4, <2>1 DEF Callees
<1>6. Called(f) \subseteq Callees(f)
  <2> SUFFICES ASSUME NEW g \in Called(f) PROVE g \in Callees(f)
    OBVIOUS
  <2>1. g \in Functions /\ calls[f][g] > 0 /\ g # f
    BY <1>4 DEF Called
  <2>2. <<f, g>> \in edges
    BY <1>4, <2>1, CalledNow
  <2> QED
    BY <2>1, <2>2 DEF Callees
<1>7. \A c : Callees(c)' \subseteq Callees(c) \union (IF c = d THEN Called(f) ELSE {})
  BY <1>1 DEF Callees
<1>8. \A j \in 1 .. Len(order) : Callees(order[j]) \subseteq Before(j)
  BY <1>1 DEF Traversal, Sorted
<1>9. ASSUME NEW j \in 1 .. Len(order), order[j] = d
      PROVE  Called(f) \subseteq Before(j)
  <2>1. f \in Before(j)
    BY <1>5, <1>8, <1>9
  <2>2. PICK h \in 1 .. j - 1 : f = order[h]
    BY <2>1
  <2>0. h \in 1 .. Len(order)
    BY <1>2, <2>2
  <2>3. Callees(f) \subseteq Before(h)
    <3> HIDE DEF Before
    <3> QED
      BY <1>8, <2>0, <2>2
  <2>4. Before(h) \subseteq Before(j)
    <3>1. \A x \in 1 .. h - 1 : x \in 1 .. j - 1
      OBVIOUS
    <3> QED
      BY <3>1
  <2> HIDE DEF Before
  <2> QED
    BY <1>6, <2>3, <2>4
<1>10. ASSUME NEW j \in 1 .. Len(order)
       PROVE  Callees(order[j])' \subseteq Before(j)
  BY <1>1, <1>7, <1>8, <1>9
<1>11. Sorted'
  BY <1>1, <1>10 DEF Sorted
<1> QED
  BY <1>1, <1>11 DEF Traversal, Visiting, Ordered, Looking

(* When the stack is empty main was given out, and so were its callees     *)
(* before it.                                                              *)
LEMMA EndVisitTraversal == IInv /\ Traversal /\ EndVisit => Traversal'
<1> SUFFICES ASSUME IInv, Traversal, EndVisit PROVE Traversal'
  OBVIOUS
<1>1. /\ pc = "visit" /\ stack = <<>> /\ k' = 1 /\ pc' = "next function"
      /\ edges' = edges /\ order' = order
  BY DEF EndVisit
<1>2. Main \in ToSet(order)
  BY <1>1 DEF Traversal, Visiting
<1>3. \A f : Callees(f)' = Callees(f)
  BY <1>1 DEF Callees
<1>4. \A j \in 1 .. Len(order) :
        Callees(order[j]) \subseteq {order[h] : h \in 1 .. j - 1}
  BY <1>1 DEF Traversal, Sorted
<1>5. \A j \in 1 .. Len(order') :
        Callees(order'[j]) \subseteq {order'[h] : h \in 1 .. j - 1}
  BY <1>1, <1>4, ZenonT(60)
<1>6. Sorted'
  BY <1>3, <1>5 DEF Sorted
<1>7. Ordered'
  <2>1. order' \in Seq(Functions)
    BY <1>1 DEF Traversal, Ordered
  <2>2. k' \in Nat \ {0}
    <3>1. k' = 1
      BY <1>1
    <3> QED
      BY <3>1
  <2>3. Main \in ToSet(order')
    BY <1>1, <1>2
  <2> QED
    BY <2>1, <2>2, <2>3, Zenon DEF Ordered
<1> QED
  BY <1>1, <1>6, <1>7 DEF Traversal, Visiting, Looking

(* Outside of inlining the order is not used.                              *)
LEMMA OutsideTraversal ==
  ASSUME Ordered', pc' \notin {"visit", "next function", "callers"}
  PROVE  Traversal'
  BY DEF Traversal, Visiting, Sorted, Ordered, Looking

LEMMA InitTraversal == Init => Traversal
<1> SUFFICES ASSUME Init PROVE Traversal
  OBVIOUS
<1>1. order = <<>> /\ k = 1
  BY DEF Init
<1>2. pc \notin {"visit", "next function", "callers"}
  BY DEF Init
<1>3. order \in Seq(Functions)
  BY <1>1, EmptySeq, Zenon
<1>4. k \in Nat \ {0}
  BY <1>1
<1> QED
  BY <1>2, <1>3, <1>4, Zenon DEF Traversal, Visiting, Sorted, Ordered, Looking

LEMMA StepTraversal ==
  ASSUME IInv, Traversal, [Next]_vars
  PROVE  Traversal'
<1>1. CASE StartInlining
  BY <1>1, StartTraversal
<1>2. CASE VisitEdge
  BY <1>2, VisitEdgeTraversal
<1>3. CASE GiveOut
  BY <1>3, GiveOutTraversal
<1>4. CASE EndVisit
  BY <1>4, EndVisitTraversal
<1>5. CASE NextFunction
  BY <1>5, NextFunctionTraversal
<1>6. CASE CallSiteInlining
  BY <1>6, CallSiteInliningTraversal
<1>7. CASE NextCaller
  BY <1>7, NextCallerTraversal
<1>8. CASE EndInlining
  <2>1. order' = <<>> /\ k' = 1 /\ pc' = "unused again"
    BY <1>8 DEF EndInlining
  <2>2. order' \in Seq(Functions)
    BY <2>1, EmptySeq, Zenon
  <2>3. k' \in Nat \ {0}
    <3>1. k' = 1
      BY <2>1
    <3> QED
      BY <3>1
  <2>4. pc' \notin {"next function", "callers"}
    BY <2>1
  <2>5. Ordered'
    BY <2>2, <2>3, <2>4, Zenon DEF Ordered
  <2> QED
    BY <2>1, <2>5, OutsideTraversal
<1>9. CASE RemoveUnused \/ RemoveEmpty \/ LocalPasses \/ ParameterPropagation
  <2>1. /\ order' = order /\ k' = k
        /\ pc' \notin {"visit", "next function", "callers"}
    BY <1>9 DEF RemoveUnused, RemoveEmpty, RemoveEmptyOf, LocalPasses,
       RemoveDeadBlocks, CopyBody, Unswitch, ParameterPropagation, inl
  <2>2. Ordered'
    BY <2>1 DEF Traversal, Ordered
  <2> QED
    BY <2>1, <2>2, OutsideTraversal
<1>10. CASE UNCHANGED vars
  <2>1. /\ pc' = pc /\ stack' = stack /\ order' = order /\ k' = k
        /\ edges' = edges /\ reachable' = reachable /\ callers' = callers
    BY <1>10 DEF vars
  <2>2. \A f : Callees(f)' = Callees(f)
    BY <2>1 DEF Callees
  <2>3. Visiting'
    BY <2>1, <2>2, Zenon DEF Traversal, Visiting
  <2>4. Sorted'
    <3>1. ASSUME pc \in {"visit", "next function", "callers"},
                 NEW j \in 1 .. Len(order)
          PROVE  Callees(order[j]) \subseteq {order[h] : h \in 1 .. j - 1}
      BY <3>1 DEF Traversal, Sorted
    <3>2. ASSUME pc' \in {"visit", "next function", "callers"},
                 NEW j \in 1 .. Len(order')
          PROVE  Callees(order'[j]) \subseteq {order'[h] : h \in 1 .. j - 1}
      BY <2>1, <3>1, <3>2, ZenonT(30)
    <3> QED
      BY <2>2, <3>2 DEF Sorted
  <2>5. Ordered' /\ Looking'
    BY <2>1, Zenon DEF Traversal, Ordered, Looking
  <2> QED
    BY <2>3, <2>4, <2>5 DEF Traversal
<1> QED
  BY <1>1, <1>2, <1>3, <1>4, <1>5, <1>6, <1>7, <1>8, <1>9, <1>10
  DEF Next, Inlining

(* The order holds the callees of a function before it, also while         *)
(* inlining adds edges.                                                    *)
THEOREM TraversalInvariance ==
  ASSUME NoExitCalls PROVE Spec => [](IInv /\ Traversal)
<1>1. Init => IInv /\ Traversal
  BY InitIInv, InitTraversal
<1>2. IInv /\ Traversal /\ [Next]_vars => (IInv /\ Traversal)'
  BY StepIInv, StepTraversal
<1> QED BY <1>1, <1>2, PTL DEF Spec

(* Inlining comes to a function after all that it calls.                   *)
THEOREM OrderSound == ASSUME NoExitCalls PROVE Spec => []CalleesFirst
<1>1. Traversal => CalleesFirst
  <2> SUFFICES ASSUME Traversal PROVE CalleesFirst
    OBVIOUS
  <2>1. order \in Seq(Functions)
    BY DEF Traversal, Ordered
  <2>2. DOMAIN order = 1 .. Len(order)
    BY <2>1
  <2> QED
    BY <2>2 DEF Traversal, Sorted, Ordered, CalleesFirst
<1> QED BY <1>1, TraversalInvariance, PTL

(* Inlining asks for no function that was removed.                         *)
THEOREM LookupsFind == ASSUME NoExitCalls PROVE Spec => []LookupsSucceed
<1>1. IInv /\ Traversal => LookupsSucceed
  <2> SUFFICES ASSUME IInv, Traversal, pc = "callers" PROVE LookupsSucceed
    BY DEF LookupsSucceed
  <2>1. /\ order[k] \in reachable \ Standard
        /\ callers \in Seq(Functions \ Standard)
    BY DEF Traversal, Looking
  <2>2. reachable \subseteq program \union Standard
    BY DEF IInv, Snapshot
  <2>3. callers # <<>> => Head(callers) \in Functions \ Standard
    BY <2>1, HeadTailProperties
  <2> QED
    BY <2>1, <2>2, <2>3 DEF LookupsSucceed
<1> QED BY <1>1, TraversalInvariance, PTL
=============================================================================
