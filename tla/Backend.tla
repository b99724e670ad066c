------------------------------ MODULE Backend ------------------------------
(***************************************************************************)
(* The native back end on a program that the optimizer has left: from      *)
(* quadruples to instructions on hard registers, function by function, and *)
(* then the peephole optimizer.  The rounds of the register allocator and  *)
(* of the peephole optimizer are steps of their own.                       *)
(***************************************************************************)
EXTENDS Frames, StatementCompiler, Peephole, Execution

CONSTANTS Programs,      \* programs of quadruples, without places
          Inputs,        \* what functions outside of the program answer
          MaxRounds,     \* bound of the rounds of a loop
          LowSteps       \* bound of the instructions an execution runs

LOCAL Low == INSTANCE Machine WITH MaxSteps <- LowSteps

VARIABLES program,      \* the functions, with their low-level code
          names,        \* program.functions: the functions in their order
          options,      \* fparameter-allocation, fomit-frame-pointer
          phase,        \* what is next
          at,           \* the function and the class that are allocated
          coalesced,    \* the last round of the allocation coalesced
          rounds,       \* the rounds so far of the allocation, of the peephole
          meaning       \* what the program of quadruples does

vars == <<program, names, options, phase, at, coalesced, rounds, meaning>>

Prepared(f, omit_fp) ==
  [f EXCEPT !.place = place_parameters(f, omit_fp), !.used = {}, !.variable_used = {}]
Everywhere(P, Op(_)) == [fn \in DOMAIN P |-> Op(P[fn])]

Init ==
  /\ options \in [allocation : BOOLEAN, omit_fp : BOOLEAN]
  /\ \E P \in Programs :
       /\ program = Everywhere(P, LAMBDA f : Prepared(f, options.omit_fp))
       /\ names = SequenceOf(DOMAIN P)
       /\ meaning = [input \in Inputs |-> Behaviour(P, input)]
  /\ phase = "parameters"
  /\ at = <<1, "pr">>
  /\ coalesced = FALSE
  /\ rounds = 0

(* Parameters in registers, aggregates on the stack.                       *)
AllocateParameters ==
  /\ phase = "parameters"
  /\ phase' = "aggregates"
  /\ program' = IF options.allocation THEN Everywhere(program, register_param_allocation)
                ELSE program
  /\ UNCHANGED <<names, options, at, coalesced, rounds, meaning>>

AllocateAggregates ==
  /\ phase = "aggregates"
  /\ phase' = "code"
  /\ program' = Everywhere(program, allocate_aggregates)
  /\ UNCHANGED <<names, options, at, coalesced, rounds, meaning>>

(* The low-level code, with the zeroes the frame starts with.              *)
Compile ==
  /\ phase = "code"
  /\ phase' = "registers"
  /\ program' = Everywhere(program, LAMBDA f :
                  alloc_stack_space(pre_alloc_cleanup(compile_function(program, f, options.allocation))))
  /\ UNCHANGED <<names, options, at, coalesced, rounds, meaning>>

(* One round of the allocation; then the floats, then the next function.   *)
AllocateRegisters ==
  /\ phase = "registers"
  /\ LET fn == names[at[1]]
     IN  \E r \in {register_allocation_round(program[fn], at[2], coalesced)} :
           /\ program' = [program EXCEPT ![fn] = r[1]]
           /\ coalesced' = (r[2] = "coalesced")
           /\ rounds' = IF r[2] = "done" THEN 0 ELSE rounds + 1
           /\ at' = IF r[2] # "done" THEN at
                    ELSE IF at[2] = "pr" THEN <<at[1], "pf">> ELSE <<at[1] + 1, "pr">>
           /\ phase' = IF r[2] = "done" /\ at = <<Len(names), "pf">> THEN "frames" ELSE phase
  /\ UNCHANGED <<names, options, meaning>>

Frame_ ==
  /\ phase = "frames"
  /\ phase' = IF options.omit_fp THEN "offsets" ELSE "peephole"
  /\ program' = [fn \in DOMAIN program |->
                   generate_prologue_epilogue(program, fn, options.allocation, options.omit_fp)]
  /\ UNCHANGED <<names, options, at, coalesced, rounds, meaning>>

OmitFramePointer ==
  /\ phase = "offsets"
  /\ phase' = "peephole"
  /\ program' = Everywhere(program, fix_stack_offsets)
  /\ UNCHANGED <<names, options, at, coalesced, rounds, meaning>>

(* A round of the peephole optimizer on every function it still changes.   *)
OptimizePeephole ==
  /\ phase = "peephole"
  /\ \E round \in {[fn \in DOMAIN program |-> optimize_round(program[fn])]} :
       /\ program' = [fn \in DOMAIN program |-> round[fn][1]]
       /\ phase' = IF \A fn \in DOMAIN program : ~round[fn][2] THEN "done" ELSE phase
  /\ rounds' = rounds + 1
  /\ UNCHANGED <<names, options, at, coalesced, meaning>>

Next == \/ AllocateParameters \/ AllocateAggregates \/ Compile \/ AllocateRegisters
        \/ Frame_ \/ OmitFramePointer \/ OptimizePeephole

Spec == Init /\ [][Next]_vars

-----------------------------------------------------------------------------
(* From the frames on, the instructions do what the quadruples did.        *)
SameResult ==
  phase \in {"peephole", "done"} =>
    \A input \in Inputs :
      meaning[input].end = "done" => Low!LowBehaviour(program, input) = meaning[input]

(* No assertion of the code fails: every variable that has to go back to   *)
(* memory has a place there, every register gets a color.                  *)
NeverFails == \A fn \in DOMAIN program : phase \in {"registers", "frames"} => ~program[fn].failed

(* The loops of the allocator and of the peephole optimizer end.           *)
RoundsEnd == rounds <= MaxRounds
=============================================================================
