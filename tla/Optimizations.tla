---------------------------- MODULE Optimizations ----------------------------
(***************************************************************************)
(* The optimizer on whole programs: the passes of all_optimizations on     *)
(* every function in turn and the interprocedural passes after them, in    *)
(* the order of Optimizer.cpp, as long as a round changes something.       *)
(*                                                                         *)
(* Branches on constants, dead blocks, merged blocks (ControlFlow), dead   *)
(* code (DeadCode) and pure_analysis (PureAnalysis) are left out here.     *)
(***************************************************************************)
EXTENDS Inlining, Execution

CONSTANTS Programs,    \* the programs that are optimized
          External,     \* the functions outside of them, with their number of parameters
          Inputs,      \* what the functions outside of the program answer
          MaxRounds    \* bound of the rounds that are looked at

ASSUME OptimizationsAssumption == MaxRounds \in Nat /\ MaxSteps \in Nat

VARIABLES program,    \* the functions by name
          names,      \* program.functions: the functions in their order
          pass,       \* the pass that is next, and for which function
          optimized,  \* pass_runner::optimized
          rounds,     \* the number of rounds so far
          inlining,   \* the option finline-functions
          unswitched, \* the functions in which loop_unswitching changed a loop
          meaning     \* what the program does before it is optimized

vars == <<program, names, pass, optimized, rounds, inlining, unswitched, meaning>>

(* The passes on a function and the ones on the program, in their order.   *)
Local == <<"ArithmeticIdentities", "ReduceInStrength", "ConstantFolding",
           "conditional_propagation", "ConstantPropagation",
           "OffsetConstantPropagation", "local_cse", "global_cse",
           "PointerPropagation", "MathPropagation", "remove_aliases",
           "loop_analysis", "loop_invariant_code_motion",
           "loop_induction_variables", "remove_empty_loops", "loop_unrolling",
           "loop_unswitching", "complete_loop_peeling", "clean_variables">>
Global == <<"remove_empty_functions", "inline_functions", "remove_unused_functions",
            "parameter_propagation">>

Does(P) == [input \in Inputs |-> Behaviour(P, input)]

Init ==
  /\ program \in Programs
  /\ names = SetToSeq(DOMAIN program)
  /\ pass = <<1, 1>>                \* <<function, pass>>; <<0, pass>> for the program
  /\ optimized = FALSE
  /\ rounds = 1
  /\ inlining \in BOOLEAN /\ (DOMAIN program = {"main"} => inlining)
  /\ unswitched = {}
  /\ meaning = Does(program)

-----------------------------------------------------------------------------
fn == names[pass[1]]
At_(name) == pass[1] > 0 /\ Local[pass[2]] = name

Continue ==
  pass' = IF pass[2] < Len(Local) THEN <<pass[1], pass[2] + 1>>
          ELSE IF pass[1] < Len(names) THEN <<pass[1] + 1, 1>>
          ELSE <<0, 1>>

(* A pass on the function whose turn it is; r is [f, optimized].           *)
OnFunction(name, r) ==
  /\ At_(name)
  /\ program' = [program EXCEPT ![fn] = r.f]
  /\ optimized' = (optimized \/ r.optimized)
  /\ unswitched' = IF name = "loop_unswitching" /\ r.optimized THEN unswitched \union {fn}
                   ELSE unswitched
  /\ Continue
  /\ UNCHANGED <<names, rounds, inlining, meaning>>

RunArithmeticIdentities == OnFunction("ArithmeticIdentities", ArithmeticIdentities(program[fn]))
RunReduceInStrength == OnFunction("ReduceInStrength", ReduceInStrength(program[fn]))
RunConstantFolding == OnFunction("ConstantFolding", ConstantFolding(program[fn]))
RunConditionalPropagation ==
  OnFunction("conditional_propagation", conditional_propagation(program[fn]))
RunConstantPropagation == OnFunction("ConstantPropagation", ConstantPropagation(program[fn]))
RunOffsetConstantPropagation ==
  OnFunction("OffsetConstantPropagation", OffsetConstantPropagation(program[fn]))
RunLocalCse == OnFunction("local_cse", local_cse(program[fn]))
RunGlobalCse == OnFunction("global_cse", global_cse(program[fn]))
RunPointerPropagation == OnFunction("PointerPropagation", PointerPropagation(program[fn]))
RunMathPropagation == OnFunction("MathPropagation", MathPropagation(program[fn]))
RunRemoveAliases == OnFunction("remove_aliases", remove_aliases(program[fn]))
RunLoopAnalysis == OnFunction("loop_analysis", loop_analysis(program[fn]))
RunLoopInvariantCodeMotion ==
  OnFunction("loop_invariant_code_motion", loop_invariant_code_motion(program[fn]))
RunLoopInductionVariables ==
  OnFunction("loop_induction_variables",
             loop_induction_variables_optimization(program[fn]))
RunRemoveEmptyLoops == OnFunction("remove_empty_loops", remove_empty_loops(program[fn]))
RunLoopUnrolling == OnFunction("loop_unrolling", loop_unrolling(program[fn]))
RunLoopUnswitching == OnFunction("loop_unswitching", loop_unswitching(program[fn]))
RunCompleteLoopPeeling ==
  OnFunction("complete_loop_peeling", complete_loop_peeling(program[fn]))
RunCleanVariables == OnFunction("clean_variables", clean_variables(program[fn]))

(* A pass on the program; the last one ends the round.                     *)
OnProgram(name, r) ==
  /\ pass[1] = 0 /\ pass[2] \in DOMAIN Global /\ Global[pass[2]] = name
  /\ program' = r.P
  /\ names' = SelectSeq(names, LAMBDA g : g \in DOMAIN r.P)
  /\ optimized' = (optimized \/ r.optimized)
  /\ pass' = <<0, pass[2] + 1>>
  /\ UNCHANGED <<rounds, inlining, unswitched, meaning>>

RunRemoveEmptyFunctions ==
  OnProgram("remove_empty_functions", remove_empty_functions(program))
RunInlineFunctions == OnProgram("inline_functions", IF inlining THEN inline_functions(program)
                                ELSE [P |-> program, optimized |-> FALSE])
RunRemoveUnusedFunctions ==
  OnProgram("remove_unused_functions", remove_unused_functions(program))
RunParameterPropagation ==
  OnProgram("parameter_propagation", parameter_propagation(program))

AnotherRound ==
  /\ pass = <<0, Len(Global) + 1>>
  /\ optimized /\ rounds < MaxRounds
  /\ pass' = <<1, 1>>
  /\ optimized' = FALSE
  /\ rounds' = rounds + 1
  /\ UNCHANGED <<program, names, inlining, unswitched, meaning>>

Next ==
  \/ RunArithmeticIdentities \/ RunReduceInStrength \/ RunConstantFolding
  \/ RunConditionalPropagation \/ RunConstantPropagation \/ RunOffsetConstantPropagation
  \/ RunLocalCse \/ RunGlobalCse \/ RunPointerPropagation \/ RunMathPropagation
  \/ RunRemoveAliases \/ RunLoopAnalysis \/ RunLoopInvariantCodeMotion
  \/ RunLoopInductionVariables \/ RunRemoveEmptyLoops \/ RunLoopUnrolling
  \/ RunLoopUnswitching \/ RunCompleteLoopPeeling \/ RunCleanVariables
  \/ RunRemoveEmptyFunctions \/ RunInlineFunctions \/ RunRemoveUnusedFunctions
  \/ RunParameterPropagation \/ AnotherRound

Spec == Init /\ [][Next]_vars

-----------------------------------------------------------------------------
(* Whatever the passes rewrite, the program still calls the same functions *)
(* outside of it, with the same arguments, and ends in the same way        *)
(* (Optimizer.cpp, and all the passes it runs).                            *)
SameBehaviour == Does(program) = meaning

(* The edges, which every data-flow problem and the loop passes follow,    *)
(* are those the code can take: to the blocks of the jumps and, unless a   *)
(* block ends in a GOTO, to the next one; both ends know of each edge      *)
(* (ControlFlowGraph.cpp, make_edge and remove_edge in all the passes);    *)
(* loop_unswitching leaves some edges at one end.                          *)
EdgesMatchCode ==
  \A g \in DOMAIN program \ unswitched :
    LET f == program[g]
        code(b) == f.code[b]
        jumps(b) == {code(b)[k].to : k \in {k \in DOMAIN code(b) : is_jump(code(b)[k])}}
        goes_on(b) == b # EXIT /\ (code(b) = <<>> \/ Last(code(b)).op # "GOTO")
        falls(b) == IF goes_on(b) THEN {next(f, b)} ELSE {}
    IN  \A b \in Blocks(f) :
          /\ ToSet(f.succ[b]) = jumps(b) \union falls(b)
          /\ \A c \in Blocks(f) : b \in ToSet(f.pred[c]) <=> c \in ToSet(f.succ[b])

(* Every CALL of a function of the program still has, in its block or at   *)
(* the end of the previous one, one PARAM for each parameter of the        *)
(* function, and no PARAM is left without its CALL (inlining.cpp,          *)
(* parameter_propagation.cpp, remove_empty_functions.cpp).                 *)
ParamsMatch ==
  \A g \in DOMAIN program :
    LET f == program[g]
        arity(name) == IF name \in DOMAIN program THEN Arity(program, name) ELSE External[name]
        calls == {p \in Places(f) : At(f, p).op = "CALL"}
    IN  /\ \A p \in calls :
             LET at == Passed(f, p, arity(At(f, p).fn))
             IN  /\ Len(at) = arity(At(f, p).fn)
                 /\ \A k \in DOMAIN at : At(f, at[k]).fn = At(f, p).fn
        /\ Cardinality({p \in Places(f) : Passes(At(f, p))})
             = Sum(calls, LAMBDA p : arity(At(f, p).fn))

(* loop_analysis finds the immediate dominator of every block that can be *)
(* reached (Lengauer and Tarjan's algorithm in dominators.cpp), and what   *)
(* it takes for a loop is one: a block of it, the one the loop is entered  *)
(* by, dominates all the others.                                           *)
LoopsAreNatural ==
  (pass[1] > 0 /\ Local[pass[2]] = "loop_invariant_code_motion") =>
    LET f == program[fn]
        succ == [i \in DOMAIN f.list |->
                   [j \in DOMAIN f.succ[f.list[i]] |-> position(f, f.succ[f.list[i]][j])]]
        at(b) == position(f, b)
    IN  /\ \A b \in Blocks(f) \ {ENTRY} :
             at(b) \in Reached(succ) =>
               /\ f.dominator[b] # 0
               /\ IsImmediateDominator(succ, at(f.dominator[b]), at(b))
        /\ \A l \in DOMAIN f.loops : \E entry \in ToSet(f.loops[l].blocks) :
             \A b \in ToSet(f.loops[l].blocks) : Dominates(succ, at(entry), at(b))

(* The rounds come to an end, long before MaxRounds: no pass undoes what   *)
(* another one does, or says that it has changed something when it has not *)
(* (do ... while(runner.optimized) in Optimizer.cpp).                      *)
Settles == pass = <<0, Len(Global) + 1>> /\ optimized => rounds < MaxRounds
=============================================================================
