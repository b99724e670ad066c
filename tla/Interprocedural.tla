-------------------------- MODULE Interprocedural --------------------------
(***************************************************************************)
(* The whole-program side of the optimiser (mtac/Optimizer.cpp): the call  *)
(* graph, whose edges count the CALLs of one function to another, and the  *)
(* passes that remove functions, copy or delete CALLs, and inline.         *)
(*                                                                         *)
(* Of the code of a function only its CALLs are kept: calls[f][g] is the   *)
(* number of CALL statements to g in f.  What the local passes make of the *)
(* other statements is a choice: a function without CALLs may or may not   *)
(* be empty, a pass may or may not report a change, the size heuristics    *)
(* may or may not accept a call site.                                      *)
(***************************************************************************)
EXTENDS Integers, FiniteSets, Sequences, SequencesExt

CONSTANTS
  Functions,   \* all functions, and among them
  Standard,    \* the assembly ones, which have no code here
  Main,        \* the entry
  Inlinable,   \* those whose parameter types allow inlining
  Programs,    \* initial values of calls
  Factors,     \* copies made of a loop body by unrolling and peeling
  ExitBlocks,  \* the CALLs of the loop exits that unswitching copies
  MaxCalls,    \* bound of calls[f][g]: the size limits of the heuristics
  Width        \* an edge counts modulo Width (2^64)

Bags == [Functions -> Nat]
Small == [Functions -> 0 .. MaxCalls]

ASSUME FunctionsAssumption ==
  /\ IsFiniteSet(Functions)
  /\ Standard \subseteq Functions /\ Main \in Functions \ Standard
  /\ Factors \subseteq Nat \ {0} /\ ExitBlocks \subseteq Bags
  /\ MaxCalls \in Nat /\ Width \in Nat /\ MaxCalls < Width

ASSUME ProgramsAssumption ==
  /\ Programs \subseteq [Functions -> Small]
  /\ \A p \in Programs : \A s \in Standard : \A g \in Functions : p[s][g] = 0

VARIABLES
  program,    \* program.functions
  calls,      \* CALL statements
  count,      \* counts of the edges of the call graph
  edges,      \* the edges that were ever created
  pc,         \* the pass that runs next
  optimized,  \* the flag of the outer loop
  stack,      \* post_dfs_visit: the calls of it that have not returned,
              \* each with the edges it has left; the last one is the first
  order,      \* inlining: the topological order,
  k,          \* the position in it,
  reachable,  \* the reachable functions, as computed at the start,
  callers     \* and the callers of order[k] left to consider

inl == <<stack, order, k, reachable, callers>>
vars == <<program, calls, count, edges, pc, optimized, stack, order, k,
          reachable, callers>>

Bag(a, b) == [g \in Functions |-> a[g] + b[g]]
Times(n, a) == [g \in Functions |-> n * a[g]]
Less(c, a) == [g \in Functions |-> (c[g] - a[g]) % Width]
One(f) == [g \in Functions |-> IF g = f THEN 1 ELSE 0]
Within(a, b) == \A g \in Functions : a[g] <= b[g]
Called(f) == {g \in Functions : calls[f][g] > 0}

(* build_call_graph                                                        *)
Init ==
  /\ calls \in Programs
  /\ program = Functions \ Standard
  /\ count = calls
  /\ edges = {e \in Functions \X Functions : calls[e[1]][e[2]] > 0}
  /\ pc \in {"unused", "basic"}
  /\ optimized = FALSE
  /\ stack = <<>> /\ order = <<>> /\ k = 1 /\ reachable = {} /\ callers = <<>>

(* What the entry leads to: the least set that holds it and is closed      *)
(* under going from f to next[f].                                          *)
FromMain(next) ==
  LET Closed(S) == Main \in S /\ \A f \in S : next[f] \subseteq S
  IN  {f \in Functions : \A S \in SUBSET Functions : Closed(S) => f \in S}

(* Faulty variants: every edge is followed, whatever its count is; only    *)
(* the edges of the entry are followed.                                    *)
ComputeReachableAnyCount ==
  FromMain([f \in Functions |-> {e[2] : e \in {d \in edges : d[1] = f}}])

ComputeReachableDirect ==
  {Main} \union {g \in Functions : count[Main][g] > 0}

(* compute_reachable follows the edges whose count is not 0.               *)
ComputeReachable ==
  FromMain([f \in Functions |-> {g \in Functions : count[f][g] > 0}])

-----------------------------------------------------------------------------
(* Passes that remove functions.                                           *)

RemoveUnused ==
  /\ pc \in {"unused", "unused again", "basic"}
  /\ program' = program \intersect ComputeReachable
  /\ pc' = CASE pc = "unused" -> "local"
             [] pc = "unused again" -> "parameters"
             [] pc = "basic" -> "done"
  /\ UNCHANGED <<calls, count, edges, optimized, inl>>

(* Some of the candidates go, with the CALLs to them.  (Faulty variant:    *)
(* functions of which only the first block is empty.)                      *)
RemoveEmptyOf(candidates) ==
  /\ pc = "local"
  /\ \E removed \in SUBSET candidates :
       LET OfRemoved(f) ==
             [g \in Functions |-> IF f \in program \ removed /\ g \in removed
                                    THEN calls[f][g] ELSE 0]
       IN
       /\ program' = program \ removed
       /\ calls' = [f \in Functions |->
                      [g \in Functions |-> calls[f][g] - OfRemoved(f)[g]]]
       /\ count' = [f \in Functions |-> Less(count[f], OfRemoved(f))]
       /\ optimized' = (optimized \/ removed # {})
  /\ pc' = "inline"
  /\ UNCHANGED <<edges, inl>>

RemoveEmptyEntry == RemoveEmptyOf(program \ {Main})

(* Functions left without statements go.                                   *)
RemoveEmpty == RemoveEmptyOf({f \in program \ {Main} : Called(f) = {}})

-----------------------------------------------------------------------------
(* The function passes (IPA_SUB), as far as they touch CALLs.  They run on *)
(* one function after the other; each looks at its own function only.      *)

(* remove_dead_basic_blocks deletes blocks with the CALLs of gone.         *)
RemoveDeadBlocks(f) ==
  /\ pc = "local" /\ f \in program
  /\ \E gone \in Small :
       /\ Within(gone, calls[f])
       /\ calls' = [calls EXCEPT ![f] =
                      [g \in Functions |-> calls[f][g] - gone[g]]]
       /\ count' = [count EXCEPT ![f] = Less(count[f], gone)]
  /\ optimized' = TRUE
  /\ UNCHANGED <<program, edges, pc, inl>>

(* loop_unrolling and complete_loop_peeling copy a body with the CALLs of  *)
(* body, factor - 1 times.                                                 *)
CopyBody(f) ==
  /\ pc = "local" /\ f \in program
  /\ \E body \in Small, factor \in Factors :
       LET more == Times(factor - 1, body) IN
       /\ Within(body, calls[f])
       /\ Within(Bag(calls[f], more), [g \in Functions |-> MaxCalls])
       /\ calls' = [calls EXCEPT ![f] = Bag(calls[f], more)]
       /\ count' = [count EXCEPT ![f] = Bag(count[f], more)]
  /\ optimized' = TRUE
  /\ UNCHANGED <<program, edges, pc, inl>>

(* loop_unswitching copies the exit block of a loop.  It does not touch    *)
(* the call graph.                                                         *)
Unswitch(f) ==
  /\ pc = "local" /\ f \in program
  /\ \E exit \in ExitBlocks :
       /\ Within(exit, calls[f])
       /\ Within(Bag(calls[f], exit), [g \in Functions |-> MaxCalls])
       /\ calls' = [calls EXCEPT ![f] = Bag(calls[f], exit)]
  /\ optimized' = TRUE
  /\ UNCHANGED <<program, count, edges, pc, inl>>

-----------------------------------------------------------------------------
(* inline_functions                                                        *)

Callees(f) == {e[2] : e \in {d \in edges : d[1] = f}} \ {f}

(* A path of the call graph, apart from self-calls, comes back.            *)
Cyclic ==
  \E S \in SUBSET Functions \ {{}} :
    \A f \in S : Callees(f) \intersect S # {}

Enter(f) == [f |-> f, left |-> Callees(f)]

(* topological_order.  On a cyclic call graph it never returns.            *)
StartInlining ==
  /\ pc = "inline" /\ ~Cyclic
  /\ stack' = <<Enter(Main)>> /\ order' = <<>>
  /\ pc' = "visit"
  /\ UNCHANGED <<program, calls, count, edges, optimized, k, reachable,
                 callers>>

(* Faulty variant: a function is given out before its callees.             *)
VisitEdgeCallersFirst ==
  /\ pc = "visit" /\ stack # <<>>
  /\ \E g \in Last(stack).left :
       /\ stack' = Append([stack EXCEPT ![Len(stack)].left = @ \ {g}],
                          Enter(g))
       /\ order' = Append(order, g)
  /\ UNCHANGED <<program, calls, count, edges, pc, optimized, k, reachable,
                 callers>>

(* post_dfs_visit goes down the next edge, without a record of who was     *)
(* visited, ...                                                            *)
VisitEdge ==
  /\ pc = "visit" /\ stack # <<>>
  /\ \E g \in Last(stack).left :
       stack' = Append([stack EXCEPT ![Len(stack)].left = @ \ {g}], Enter(g))
  /\ UNCHANGED <<program, calls, count, edges, pc, optimized, order, k,
                 reachable, callers>>

(* ... and gives its function out when none is left.                       *)
GiveOut ==
  /\ pc = "visit" /\ stack # <<>> /\ Last(stack).left = {}
  /\ stack' = Front(stack)
  /\ order' = Append(order, Last(stack).f)
  /\ UNCHANGED <<program, calls, count, edges, pc, optimized, k, reachable,
                 callers>>

EndVisit ==
  /\ pc = "visit" /\ stack = <<>>
  /\ k' = 1
  /\ reachable' = ComputeReachable
  /\ pc' = "next function"
  /\ UNCHANGED <<program, calls, count, edges, optimized, stack, order,
                 callers>>

(* Its callers, sorted by where the order first has them; it need not have *)
(* those that cannot be reached.                                           *)
Sources(f) == {d \in Functions : count[d][f] > 0}

SortedCallers(f) ==
  LET Precede(c, d) == \A j \in DOMAIN order :
                         order[j] = d => \E h \in 1 .. j : order[h] = c
  IN  {s \in SetToSeqs(Sources(f)) :
         \A h, j \in DOMAIN s : h < j => Precede(s[h], s[j])}

NextFunction ==
  /\ pc = "next function" /\ k <= Len(order)
  /\ IF order[k] \in reachable \ Standard
     THEN callers' \in SortedCallers(order[k]) /\ pc' = "callers" /\ k' = k
     ELSE k' = k + 1 /\ UNCHANGED <<callers, pc>>
  /\ UNCHANGED <<program, calls, count, edges, optimized, stack, order,
                 reachable>>

(* Some of the conditions of will_inline, and the edges of the callee's    *)
(* CALLs, which the caller now has as well.                                *)
MayInline(d, f) ==
  /\ d \in reachable /\ f \in program
  /\ d # f /\ f \in Inlinable \ {Main} /\ calls[f][f] = 0
  /\ calls[d][f] > 0

(* Faulty variant: the CALLs that come with the callee are not counted.    *)
CallSiteInliningOneLess ==
  /\ pc = "callers" /\ callers # <<>>
  /\ LET d == Head(callers)
         f == order[k]
     IN
     /\ MayInline(d, f)
     /\ Within(Bag(calls[d], calls[f]), [g \in Functions |-> MaxCalls])
     /\ calls' = [calls EXCEPT ![d] =
                    [g \in Functions |-> calls[d][g] - One(f)[g] + calls[f][g]]]
     /\ count' = [count EXCEPT ![d] = Less(count[d], One(f))]
  /\ optimized' = TRUE
  /\ UNCHANGED <<program, edges, pc, inl>>

CallSiteInlining ==
  /\ pc = "callers" /\ callers # <<>>
  /\ LET d == Head(callers)
         f == order[k]
     IN
     /\ MayInline(d, f)
     /\ Within(Bag(calls[d], calls[f]), [g \in Functions |-> MaxCalls])
     /\ calls' = [calls EXCEPT ![d] =
                    [g \in Functions |-> calls[d][g] - One(f)[g] + calls[f][g]]]
     /\ count' = [count EXCEPT ![d] = Bag(Less(count[d], One(f)), calls[f])]
     /\ edges' = edges \union ({d} \X Called(f))
  /\ optimized' = TRUE
  /\ UNCHANGED <<program, pc, inl>>

(* No call site of this caller is left, or none is accepted.               *)
NextCaller ==
  /\ pc = "callers"
  /\ IF callers = <<>>
     THEN k' = k + 1 /\ pc' = "next function" /\ UNCHANGED callers
     ELSE callers' = Tail(callers) /\ UNCHANGED <<k, pc>>
  /\ UNCHANGED <<program, calls, count, edges, optimized, stack, order,
                 reachable>>

EndInlining ==
  /\ pc = "next function" /\ k > Len(order)
  /\ reachable' = {} /\ order' = <<>> /\ k' = 1
  /\ pc' = "unused again"
  /\ UNCHANGED <<program, calls, count, edges, optimized, stack, callers>>

-----------------------------------------------------------------------------

(* parameter_propagation and the end of the loop's body.                   *)
ParameterPropagation ==
  /\ pc = "parameters"
  /\ \E changed \in BOOLEAN :
       /\ optimized' = FALSE
       /\ pc' = IF optimized \/ changed THEN "unused" ELSE "done"
  /\ UNCHANGED <<program, calls, count, edges, inl>>

LocalPasses == \E f \in program :
                 RemoveDeadBlocks(f) \/ CopyBody(f) \/ Unswitch(f)
Inlining == StartInlining \/ VisitEdge \/ GiveOut \/ EndVisit
            \/ NextFunction \/ CallSiteInlining \/ NextCaller \/ EndInlining

Next == RemoveUnused \/ RemoveEmpty \/ LocalPasses \/ Inlining
        \/ ParameterPropagation

Spec == Init /\ [][Next]_vars

-----------------------------------------------------------------------------

(* An edge counts the CALLs of the code, whatever the passes did to them.  *)
(* A count that is too low lets a function be removed that is still        *)
(* called.  (The decrements also look up the edge without testing it.)     *)
CountsCalls ==
  \A f \in program : \A g \in Functions :
    /\ count[f][g] = calls[f][g]
    /\ calls[f][g] > 0 => <<f, g>> \in edges

(* The code of a function that is kept calls no function that was removed: *)
(* the assembler would find no such label, and mtac_function(), which      *)
(* several passes ask, has nothing to return.                              *)
NoDanglingCall ==
  \A f \in program : Called(f) \subseteq program \union Standard

(* When inlining comes to a function it has looked at everything that the  *)
(* function calls, so that what is inlined was itself inlined into before; *)
(* this stays so while inlining adds edges.                                *)
CalleesFirst ==
  pc \in {"next function", "callers"} =>
    /\ Main \in ToSet(order)
    /\ \A j \in DOMAIN order :
         Callees(order[j]) \subseteq {order[h] : h \in 1 .. j - 1}

(* mtac_function() finds the function and the caller that inlining asks    *)
(* for: the reachable set computed at its start has not gone stale.        *)
LookupsSucceed ==
  pc = "callers" =>
    /\ order[k] \in program
    /\ callers # <<>> /\ Head(callers) \in reachable =>
         Head(callers) \in program

(* What main may run stays: a function goes only when no chain of CALLs    *)
(* leads to it, or when nothing is left in it.                             *)
KeepsWhatRuns ==
  [][\A f \in program \ program' :
       f \in FromMain([h \in Functions |-> Called(h)]) => Called(f) = {}]_vars
=============================================================================
