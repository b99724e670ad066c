# Verification of the eddic compiler

eddic compiles EDDI, a small imperative language with structures, templates and
a heap, to x86 assembly (32 and 64 bits). These modules model the compiler from
the templates of its front end to the instructions it leaves after the peephole
optimizer, and the heap it links into every program. Paths below are relative to
the repository; `mtac/X.cpp` stands for `src/mtac/X.cpp`, headers are in `include/`.

Nothing in the compiler or in a compiled program is concurrent, and nothing is
persisted. What is hard is *ordering* (passes that run again and again on a
program that other passes have changed, sweeps that look at values before they
are final), *stale state* (counts, flags, liveness, edges, loops and offsets kept by
hand while the code they describe changes), *termination* of the loops "while
something changed", *re-entry* (passes started from inside passes), and long
*sequences of legal calls* (allocation and deletion).

## 1. The system

The pipeline (`src/Compiler.cpp`, `mtac/Optimizer.cpp:392`, `src/NativeBackEnd.cpp`):

    source -> parser -> 17 AST passes -> mtac::Compiler -> quadruples (MTAC)
      -> reference resolver -> basic blocks -> call graph
      -> optimizer: { remove_unused_functions; pure_analysis; per function, until
           nothing changes: constants, copies, CSE, dead code, branches, dead blocks,
           merging, loops ...; remove_empty_functions; inlining;
           remove_unused_functions; parameter_propagation } until nothing changes
      -> parameters in registers -> aggregates -> ltac::Compiler -> register allocation
      -> prologues -> stack offsets -> peephole -> assembler, linker (with functions/*.s)

| component | state it keeps | operations | shared with | correct when | models |
|---|---|---|---|---|---|
| runtime heap (`src/functions/*_{init,alloc,free}.s`) | ends of the chain, a word of availability and one of size per block, the kernel's break | init, alloc, free | the running program (`new`, `delete`) | live blocks are disjoint and mapped, the chain tiles the heap, alloc returns | `Allocator`, `Heap` |
| pass manager, templates (`ast/PassManager.cpp`, `ast/TemplateEngine.cpp`, passes) | the tree, the current pass, what was instantiated so far, its depth | the passes in order; instantiation from inside some of them | symbol tables | every function goes through every pass once, in order; what is used exists | `Templates` |
| symbol tables and types (`*Context.cpp`, `Type.cpp`, `mangling.cpp`) | structures, functions, scopes, positions | add and look up | everything | a name has one meaning; mangled names are unique | `Templates` (in part) |
| AST transformation (`ast/TransformerEngine.cpp`) | the tree | loops become `if` + `do while`, switches chains of `if`, compound assignments plain ones | mtac compiler | the meaning stays | `Lowering` |
| mtac compiler (`mtac/Compiler.cpp`) | the quadruples so far, fresh labels and temporaries | one visitor per statement and value | blocks | the quadruples do what the tree says | `Lowering` |
| blocks and edges (`mtac/BasicBlockExtractor.cpp`, `ControlFlowGraph.cpp`, `Function.cpp`) | blocks, predecessors and successors | extract, build, remove, merge | every local pass | edges cover what control can do; jumps lead to blocks that exist | `ControlFlow` |
| data-flow solver (`mtac/GlobalOptimizations.hpp`) | IN and OUT per block, the flag `changes` | sweep, meet, transfer | its problems | it stops at the best solution | `DataFlow` |
| live variables, dead code | live sets, escaped variables | three passes that make statements NOPs | solver | no store is removed that is read | `Liveness`, `DeadCode` |
| propagation, folding, CSE, aliases (`mtac/*Propagation*.cpp`, `*_cse.cpp`, ...) | domains of values and expressions | rewrite statements | solver, each other | the behaviour stays | `Values`, `Propagation`, `Subexpressions` |
| loops (`mtac/dominators.cpp`, `loop_*.cpp`, ...) | dominators, loops, induction variables, estimates | find, move, reduce, unroll, peel, unswitch, remove | blocks | loops are natural; the behaviour stays | `Loops`, `LoopPasses` |
| call graph and interprocedural passes | functions, CALLs, counts per edge, reachable set | remove unused and empty, copy, delete, inline, propagate parameters | each other, over rounds | counts agree with the code; arguments meet their call | `Interprocedural`, `Inlining` |
| pure analysis | a flag per function | sweeps | merging of blocks | pure functions are pure | `PureAnalysis` |
| ltac compiler (`ltac/StatementCompiler.cpp`, `ltac/Compiler.cpp`) | instructions, the register of each variable, what was written in this block | one visitor per quadruple, blocks' ends | register allocation | the instructions do what MTAC says | `StatementCompiler` |
| register allocation (`ltac/register_allocator.cpp`) | interference graph, stack, spilled registers, bindings | renumber, build, coalesce, simplify, select, spill, again | ltac compiler | values that live together do not share a register | `Coloring`, `RegisterAllocation` |
| frames (`ltac/prologue.cpp`, `ltac/stack_space.cpp`, `ltac/stack_offsets.cpp`, ...) | positions, saved registers, offsets | parameters to registers, prologue, epilogue, saves, offsets without a frame pointer | both above | caller and callee agree | `Frames` |
| peephole optimizer (`ltac/PeepholeOptimizer.cpp`) | instructions, known values of registers | rewrite, propagate, remove, conditional moves | - | the behaviour stays; it ends | `Peephole` |
| assembly output (`src/asm`) | - | one text per instruction | assembler | the text means the instruction | `Machine` (meaning only) |
| parser, driver, pools, output | - | a grammar; a straight line | - | - | - |

`PROJECT.json` lists 26 components with their status and the hazards at their
lines.

## 2. The modules

Three families of modules. In the first, a module is one algorithm and its
variables are the algorithm's own; in the second and third, the passes are
operators on functions (the code calls them one after the other and nothing can come
between two), and the state machine is the loop that calls them.

**Algorithms as state machines**

| module | stands for | state / actions in the code |
|---|---|---|
| `Allocator` | what `new` and `delete` promise | abstract: the set of held blocks |
| `Heap` | `functions/x86_64_{init,alloc,free}.s` (x86_32 alike) | `V_mem_start`, `V_mem_last`, the break, the headers, r12 (`cursor`), r14 (`need`); one action per iteration of the scan, system call or header write. `Fault` is the write past a break that the kernel refused to move: alloc does not look at what `brk` answers |
| `DataFlow` | the four `fast_*_data_flow` functions | `before`/`after` = IN/OUT (swapped for backward problems), `changes`, the block `B` and dependency `i` of the loops; `Visit` is one meet and transfer. The problem is a parameter: `Meet`, `Transfer`, `Boundary`, `InitValue` |
| `Liveness` | which quadruples write their result, which variables escape; the live-variable problem | operators; the parameters for `DataFlow` |
| `DeadCode` | `dead_code_elimination`, which instantiates `DataFlow` with `Liveness` | the solver's steps, then one action per pass, then old and new code side by side |
| `Interprocedural` | `ipa_passes` and what they do to the call graph | `program` (functions kept), `calls` (CALL quadruples), `count` (edges of the call graph, modulo `Width`), the position in the round, inlining's order and snapshot of reachable functions |
| `PureAnalysis` | `pure_analysis` | flags, the set `analyzed`, the function looked at |
| `Coloring` | steps simplify and select of `ltac/register_allocator.cpp` | `n`, `order` (the stack), `spilled`, `allocation` |
| `ControlFlow` | extraction, edges, constant branches, dead blocks, merging, round after round | the list of blocks, code of each, numbers of parallel edges, `usage`, the merge's iterator |
| `Lowering` | contexts, transformation and `mtac::Compiler` on trees; then execution | the compilation is a function of the tree (`Lower`), the state machine executes the quadruples |

**The middle and the back end on whole programs**

| module | stands for |
|---|---|
| `Quadruples` | `mtac::Function`, its blocks and quadruples, arguments, and what passes ask of them (escaped variables, positions, copies) |
| `Execution` | what a program of quadruples does: the calls it makes of functions outside of it, with their arguments, and how it ends. PARAMs are pushed and a CALL takes as many as its function has parameters, as the compiled code does, so that a PARAM lost by a pass is missed |
| `Values` | arithmetic identities, strength reduction, constant folding, pointer and math propagation, conditional propagation |
| `Propagation` | the problems of constants and copies (`ConstantPropagationProblem.cpp`) and of members (`OffsetConstantPropagationProblem.cpp`), solved in the order of `GlobalOptimizations.hpp` |
| `Subexpressions` | local and global CSE, `remove_aliases` |
| `Loops` | `dominators.cpp` (Lengauer-Tarjan) and `loop_analysis.cpp`: natural loops, basic and dependent induction variables, estimates |
| `LoopPasses` | invariant motion, induction variables, empty loops, unrolling, unswitching, complete peeling |
| `Inlining` | `inlining.cpp`, `parameter_propagation.cpp`, `remove_empty_functions.cpp` |
| `Optimizations` | `Optimizer.cpp`: one action per pass, on one function after the other, then the passes on the program, and `AnotherRound` while `optimized` |
| `Assembly` | `ltac::Instruction`, arguments, registers read and written |
| `StatementCompiler` | `ltac/StatementCompiler.cpp`, `ltac/Compiler.cpp`: from quadruples to instructions on pseudo registers; where a variable lives at each point of a block |
| `RegisterAllocation` | a round of the allocator around the algorithm of `Coloring`: webs, liveness, graph, coalescing, spilling with costs |
| `Frames` | parameters to registers, aggregates, prologue, epilogue, registers saved around calls, offsets |
| `Peephole` | `PeepholeOptimizer.cpp` |
| `Machine` | the instructions as the code generator writes them (`asm/IntelX86CodeGenerator.cpp`), executed. A value knows what it is (a number, an address in a frame, a return address), so that an offset that is off by a word is seen |
| `Backend` | `NativeBackEnd.cpp`: one action per phase, one per round of the allocator and of the peephole optimizer |

**The front end**

`Templates` models `PassManager.cpp`, `TemplateEngine.cpp`, the collection of
templates, structures, members and functions, inheritance, generation of
constructors and destructors, the annotation of variables' types, and the checks of
types and calls by `function_check`. A unit (function or structure) is its signature and
the list of what its body *mentions*: types, calls, member calls; copying a template is
replacing types in these lists. The visitors recurse into the manager, which recurses into
the passes; this stack is the variable `todo`, what is still to be executed, next
first. One action is one step of that stack: start a pass, enter a unit,
visit a mention, instantiate, go back. `class_templates` holds pointers into
`program.blocks`; the vector grows when instantiated structures are added, after which
(`moved`) reading one is undefined. The model lets such a read find the template,
or one that has no parameters left. The search through the hash table runs past the name to
the end of the table, in an order nobody fixes: a choice as well.

`MC*` modules are instances for TLC (`Heap` needs none), `*Proofs` the theorems, `Induction` what the proofs
need to know of the natural numbers. `DeadCode` composes
`Liveness` with `DataFlow`; `Heap` implements `Allocator`; `Optimizations` composes
`Values`, ..., `Inlining` with `Execution`; `Backend` composes everything from quadruples
to instructions and compares `Execution` with `Machine`. Next to an action or operator
stands, where a property depends on it, a *faulty variant*: the mutation with
which `PROJECT.json` shows that the property can fail.

How the abstractions were chosen:

* **Data.** Values are kept where a property depends on them (sizes and
  addresses in `Heap`, values and memory in `Execution` and `Machine`, answers of calls). In
  `DeadCode` the value of a cell is the time of its last write: two codes that
  agree on it compute the same. In `Interprocedural` only CALLs are left of the
  code, and what a heuristic decides is a choice.
* **Order is kept.** Sweeps visit blocks in the order of the function whatever
  the direction of the problem; merging walks the list with its iterator while
  it erases; inlining uses the order and the reachable set computed before it
  changes the graph, and the order comes from a depth-first visit that the model
  takes one edge at a time (`stack` is the recursion); rounds run until `optimized` stays false.
* **Sets ordered by address.** The code iterates over sets and hash tables of
  pointers. Blocks of a loop are taken in the order of the function; where the order
  can change the outcome in the front end, it is a choice.
* **Integers** are small and do not overflow in the programs looked at; folding is
  exact. Floats are kept apart from integers and are whole numbers.
* **Left out**: frequencies, positions in the source, warnings, logging, text.

## 3. The runs

"States" are distinct states. Every passing run finishes in less than three minutes
with two workers.

| run | asks | bounds | states |
|---|---|---|---|
| `heap` | is the promise of `Allocator` kept, does the chain stay whole, does alloc return? | header 2, lengths 0, 1, 3, break from 4 to 17, the kernel may refuse | 308 353 |
| `data_flow` | does the solver stop at the best solution? | 3 blocks, up to 2 dependencies each, all monotone transfers of a chain of 3 values | 50 374 |
| `dead_code` | is a store that is read ever removed? | 4 blocks (line, branch, loop), up to 2 + 1 statements of three families, 5 steps | 129 395 |
| `interprocedural` | do counts and code agree, does anything needed go? | 3 functions and a standard one, up to 2 CALLs per pair, one extra copy of a loop body | 2 335 724 |
| `pure_analysis` | is pure what is pure? | all programs of 3 functions over a safe and an unsafe one, all old flags | 228 926 |
| `coloring` | do simplify and select colour every graph? | all graphs of 4 nodes, 2 registers and one that is only bound, two costs | 141 380 |
| `control_flow` | do the blocks do what the list did? | all `if`, `if else`, `do while`, `&&` nested once, with CALL, RETURN, and calls of pure functions | 200 899 |
| `lowering` | do the quadruples do what the tree means? | 822 functions, 8 calls per execution | 64 299 |
| `optimizations` | does any pass, in any round, change what a program does? | 154 programs, with and without inlining, 3 inputs, 8 rounds, 150 statements per execution | 24 830 |
| `optimizations_motion` | what happens to a loop that may not run | one program | violation |
| `backend` | do the instructions do what the quadruples did? | 16 programs, with and without parameters in registers and frame pointer; 4 integer and 2 float registers, 2 inputs, 400 instructions | 714 |
| `templates` | does everything that is instantiated go through every pass, is the program complete? | 377 programs of function, class and member templates, depth 3 | 145 771 |

Why the bounds are enough. *Heap*: three blocks in the chain and a request of
zero make every case of the scan happen: a fit at the start, in the middle and
at the end, a block that is too small, an exact fit, a larger block reused, a
refusal followed by success. *DataFlow*: three blocks are the first to have a
loop that does not contain its source and one whose order is against the edges;
two dependencies, the first with partial meets, and the same one twice.
*DeadCode*: the interesting cases need a store, a second statement and one in
another block; the families isolate scalars with globals and calls, pointers,
and members. *Interprocedural*: one function above a pair that may call
each other is the smallest program in which inlining, removal and copying
interfere over several rounds; the order in which the rounds run is free, so
their number is not bounded. *Coloring*: with two registers, four nodes give
cliques that must spill, cycles that need not, and neighbours bound to a register
that is not allocatable. *ControlFlow*: depth two of nesting produces empty blocks
between jumps, chains of gotos and blocks whose predecessor comes later.
*Lowering*: every statement with every kind of condition, one statement nested in
each other, three arguments of every kind. *Optimizations*: every pass finds something
to change in some program, in company of the others: families of straight lines,
diamonds, counted loops and loops on a condition with statements from a set, and programs
written for one pass (nested loops, invariant conditions, members, pointers,
floats, calls, recursion). All programs settle in fewer than eight rounds. Counted loops
have few iterations and steps of 1, so that `loop_unrolling` (over 100 iterations) leaves them alone. *Backend*: with
four registers, five values at a time, two divisions in a row and two parameters force
spills, coalescing, bindings and registers saved on both sides of a call; one program for each kind of
statement. *Templates*: two function templates, two class templates and a
structure with a member template are enough for every kind to instantiate every
other from inside each pass, twice with the same types and in a circle.

What each property says, with the code behaviour it is about, is written above it
in its module. In short:

* *heap*. `BlocksDisjoint`: held blocks and headers share no byte. `ChainTiles`:
  following the sizes visits every block and arrives exactly at `V_mem_last`.
  `HeldIffUnavailable`: nothing held can be handed out, nothing freed is lost.
  `HeldIsMapped`: held bytes lie below the break (not once the kernel has refused:
  what must hold even then are the first and the third).
  `GrowsOnlyWhenNothingFits` relates one step of the scan to the whole chain.
  `KeepsPromise`: `Heap` implements `Allocator` with the map `owned`.
  `AllocReturns`: the scan ends.
* *data_flow*. `Fixpoint`, `BestSolution`, `Stops`: IN is never reset and the flag
  compares values in the middle of a block's update; the solver ends with the
  best solution all the same.
* *dead_code*. `DirectReadsSame`: along every path, what a kept statement names was
  written at the same time in the old and the new code. It is about names: a
  read through a pointer is covered by the escape analysis, whose variables are
  treated as live. `LiveCoversPaths` compares the analysis with the readers along
  paths.
* *interprocedural*. `CountsCalls`, `NoDanglingCall`, `KeepsWhatRuns`: nine passes keep
  the counts by hand and removal trusts them. `CalleesFirst`: in the order used by
  inlining a function comes after all that it calls, also while inlining gives it calls of
  others. `LookupsSucceed`: its snapshot of the reachable functions does not go stale.
* *pure_analysis*. `PureExact`: the verdicts are the least fixed point,
  whatever the order of the functions and the flags left by the round before; `Ends`.
* *coloring*. `AlwaysAColor`: the code's own assertion "The register must have been
  allocated a color" (`ltac/register_allocator.cpp:723`). `ProperColoring`,
  `AllColored`: what the result must be.
* *control_flow*. `SameFlow`, `EdgesCoverFlow`: the blocks take the
  program through the same quadruples as the list did, after every step of every
  pass. `Ends`: the rounds do.
* *lowering*. `SameCalls`: the calls made by the quadruples, their arguments and their
  order are those that the tree means; calls of destructors are among them, for objects
  in branches and in loops that test last or not at all. `Ends`: no loop is made that the
  tree does not have.
* *optimizations*. `SameBehaviour`: after every single pass the program makes the same calls
  with the same arguments, whatever it is answered. `EdgesMatchCode`: the edges, kept by
  hand at both ends by inlining, unrolling, peeling and the rest, are the jumps.
  `ParamsMatch`: PARAMs and CALLs belong together. `LoopsAreNatural`: right after `loop_analysis` the dominators are
  the dominators by definition (Lengauer-Tarjan against reachability without a node), and each
  loop is entered in one block; that later passes live with what is out of date by
  then is for `SameBehaviour`. `Settles`: the rounds end.
* *backend*. `SameResult`: the machine makes the same calls as the quadruples, once frames
  exist, and after every round of the peephole optimizer. It looks through
  everything before: who lives where in a block, webs, colours, spills, saved registers, offsets.
  `NeverFails`: the assertions of the code hold. `RoundsEnd`: spilling and rewriting do.
* *templates*. `EveryPassOnce`: whatever pass something is instantiated from, it goes through
  all of them once, in order. `Complete`: the table of functions is exactly what has a body, names do
  not clash, every type and call that a body mentions exists. The rejection of a program
  (an exception) is an outcome like acceptance; a rejection of a legal program is
  listed in section 5.

`optimizations_motion` is expected to find a violation; section 5 discusses it.

**Fairness.** The compiler and the compiled program are each one thread that keeps
executing until it stops: weak fairness of the whole next-state relation
(`DataFlow`, `PureAnalysis`, `ControlFlow`, `Lowering`) says no more. In `Heap`
only the instructions of alloc are fair (`WF(AllocStep)`): the program need
never call it. The others state termination as a bound on rounds (`Settles`,
`RoundsEnd`), which is safety, or have none, and assume no fairness.

**Deadlock** is checked in `templates`, where the stack of calls in progress must never
be stuck; its end is an action of its own. It is not checked elsewhere: every model of a
pass stops when the pass is done, an execution when the program ends, and the heap when
nothing more fits below `MaxBreak`. That they stop in the right place is what `Ends`, `Stops` and
`AllocReturns` say. Bounds: `MaxBreak`, `MaxCalls`, `MaxSteps`, `LowSteps`, `MaxRounds` and `Width` are
limits of the models (the code's `Width` is 2^64); `MaxDepth` is the option `template-depth`.

## 4. The proofs

Checked by TLAPS for every value of the constants that satisfies the ASSUMEs: any
set of functions, any code, any graph, any number of registers or bytes. TLC evaluates the
ASSUMEs on the constants of each run. Each proof has one invariant `IInv` and, per
action, a lemma that the action preserves it.

**Heap** (`HeapProofs`). Assumed: `Header` positive, `Sizes`, breaks natural.
The invariant `IInv` joins `TypeOK`, `ChainTiles` and `HeldIffUnavailable` with
what makes them inductive: no block is smaller than its header and none reaches
past the end (`Sized`); a held address follows a head whose block has the room
(`HasRoom`); and where a call is (`CallState`): the cursor is a head or the end,
and a block about to be written starts at the end of the chain. `ChainTiles` alone
is not inductive: between the move of `V_mem_last` and the write of the
header the chain ends at the cursor. The parts are the theorems
`TypeCorrect`, `Tiling` and `HeldExactly`; from the whole follow `Disjoint`, `Mapped`,
`GrowsLast` (a scan that has come to h has found nothing before h), and `Implements`
(every step is a step of `Allocator` or leaves `owned` alone). `NeverFaults`
shows that `Fault` needs a refusal of the kernel.

**DataFlow** (`DataFlowProofs`). Assumed: `Meet` is a semilattice with `Top` above
all, `Transfer` is monotone. `SolvesEquations` rests on: while the flag is clear,
the blocks passed in this sweep satisfy their equations (`Clean`); a block's value
can only change together with the flag. `Best` rests on `AllAbove`: every
solution is below the current values, at any time, since a visit is monotone and
starts above. Nothing is assumed of the order of blocks or of the graph.

**ControlFlow** (`ControlFlowProofs`). `EdgesSound`: `EdgesCoverFlow` through every round of
branches, dead blocks and merging. Assumed (`ProgramsAssumption`): a jump has its label, a label
is defined once. `LoopsAssumption`: no jump from before a loop leads into it, other than to its
start. The compiler makes only such lists: `while` and `for` become an `if` around a `do while`
(`ast/TransformerEngine.cpp:212`), so that a jump back is the end of a `do while`, and a jump ahead
skips a statement as a whole (the language has no `goto`, `break` or `continue`). Hypothesis:
`~TrivialJumps`, no condition is decided that jumps to the next block, since there
`remove_edge` takes away too much (section 5). `EdgesCoverFlow` alone is not inductive: it
says nothing of blocks that are not found live, which may lose edges while dead blocks go one by one.
The invariant says:

* `Cover`: it holds of live blocks while dead ones are removed, and of *all* blocks otherwise;
* `JumpsLast`, `OneBranch`, `Pending`: a jump is the last of its block, a condition is decided for
  one block, and once it is decided the branch goes before any block does;
* `EdgesStay`: blocks that were removed have no edges;
* `Loops`: a loop is entered from above at its start only. `remove_dead_basic_blocks` goes
  through the blocks once, in the order of the list, and finds a block live when a live
  predecessor came *before* it. A block whose only live predecessors came later would be removed
  although control reaches it, and with it the edges. `Loops` and the assumption on lists exclude it;
* `Used`: the merge keeps blocks that a jump leads to, for `usage` never misses one;
* `Types`, `Arranged`: blocks are in the list once, ENTRY first and EXIT last.

The search of live blocks is a recursive function, unfolded by `Induction`; that its set is
closed under the edges, and only shrinks when a dead block goes, are lemmas (`LeastLive`,
`LiveShrinks`). The proof of `Init` follows the extraction quadruple by quadruple (`Separates`):
every quadruple is in a block, blocks are cut in the order of the list (`BlockAt`), and each
label opens the block that jumps to it are given.

`FlowPreserved` (`SameFlow`) is a simulation with the list as the reference. Its invariant `FlowInv`
(theorem `FlowInvariance`) adds to `IInv`:

* `Standing`: a quadruple of a block is the one of the list with its number, or a NOP or GOTO
  that by what is known of the condition does the same; a jump leads to the block that starts where its label is;
* `Once`: no quadruple is in two places;
* `Chained`: from the start of a block through its quadruples, where no GOTO is, to the start of the next
  block in the list of blocks, the list of quadruples comes the same way and does nothing in between (`Passes`:
  every set of places that silent steps do not leave contains the second if it does the first).
  It is said of *neighbours in the list of blocks*, dead or not, which is what makes it inductive;
* `Few`: there are no more blocks than quadruples.

Deciding a condition changes what its quadruple does in the list and in the block alike. A block
is removed when it is not live, and then the one before ends with a GOTO (by `Cover`, since that one is
live: dead blocks go from the front), or when it has only NOPs, and then the gap around it is silent
(`RemoveFlow`). A GOTO to the next block may go, for its label is where that block starts; merging
joins two neighbours, the second of which `Used` shows is no target.

Then a place in a live block has its place in the list (`Place`), and a silent step of the
blocks is zero or more silent steps of the list (`Simulated`). `SameFlow` looks for the next visible quadruple
with a bound on the silent steps (4n + 2 for n quadruples): there are at most 2n + 2 silent places, so that a
walk that takes longer goes round for ever (`WalkTurns`), and then so does the list (`BlocksTurn`).

**DeadCode** (`DeadCodeProofs`). Assumed: variables, members and constants are told apart, EXIT is empty and
what all blocks but it leave, a NOP has no arguments, only pointers are given addresses.
It instantiates `DataFlowProofs` with the problem of live variables: `Meet`, `Transfer` and their
domain are shown to satisfy the assumptions made there, so that `SolvesEquations`
applies (`Solved`). `PathsCovered` (`LiveCoversPaths`) follows from the equations: a path from a block to a read is a
set of blocks that nothing overwrites, and going down it a variable that is read is
in every IN (an induction over the statements of a block, downwards). `StoresKept` (`DirectReadsSame`) needs
`Agreement`: cells that are still read from where the execution is were written last at the same
time by the old and the new code. It is inductive only with the reasons for which
each statement was removed (`MayGo`): its result is not live, or nothing *that is left*
reads it. The second and third passes count readers in code that the pass before has thinned out, and
the proof shows that a reason, once given, stays good when more statements go.

**Interprocedural** (`InterproceduralProofs`). Theorems carry the hypothesis
`NoExitCalls`, that unswitching copies no CALL (section 5 says what happens
otherwise). The invariant: counts equal CALLs, every CALL has its edge, a kept
function calls kept or standard functions, standard functions call none, and the
reachable snapshot taken by inlining stays within the program. With it,
`CountsAgree`, `NoneDangling` and `KeepsRunnable` hold for every set of functions,
every initial code and any number of rounds. `OrderSound` (`CalleesFirst`) needs the invariant
`Traversal` of the depth-first visit: what a function on the stack calls was given out, is
on the stack right above it, or is left to visit (`Visiting`); a function given out comes after its
callees (`Sorted`), and stays so when inlining copies calls: what a caller gets are the calls of its callee,
which come before the callee as that comes before the caller. `LookupsFind` (`LookupsSucceed`) adds that inlining looks at
functions of the program and of the order only.

**PureAnalysis** (`PureAnalysisProofs`). Assumed: a program is a list of functions that call each other or
standard ones, safe or not. `Exact` (`PureExact`): the verdicts are the least fixed point, for any order of
the list and any flags left by the round before. `Right` says why old flags do not matter: a
flag that is looked at is that of a function analysed in this round. `Passed`: in a sweep
that has decided nothing yet, each function passed still waits for another; so
when a sweep ends that way all that are left wait for each other, and the set of the pure
ones is closed. `Advances` is the measure behind `Ends`: each step goes on in the list or
starts a sweep with more functions decided.

**Coloring** (`ColoringProofs`). Assumed: registers distinct, graphs symmetric
without loops. The invariant `Low`: a node on the stack had, counting the colours of
bound neighbours once each and the unbound neighbours not below it, fewer than K.
Nothing below it in the stack is coloured when it is selected, so a
register is left (`Colorability`, by a count over finite sets). It is the classical
argument, but the code computes the degree from the stack, and the
proof shows that what it computes is that number. `TypeCorrect`, `Proper` and
`Complete` follow.

**Induction over data.** The induction theorems of the library take operators and cannot be used
with the provers at hand. `Induction` states what is needed for *sets*: a non-empty set of
numbers has a least element (`LeastElement`), a set closed under successor has all numbers (`UpwardInduction`), the
same downwards, and a function defined by its first value and a step exists (`Recursion`), so that
the CHOOSE behind a recursive function may be unfolded. `ControlFlow` and `DeadCode` compute with such functions.

**Out of reach of the prover** and left to TLC: liveness (`AllocReturns`, `Stops`, `Ends`; of `Ends` for the pure analysis
the measure is proved) and RECURSIVE operators, of which `Lowering`, `Optimizations`, `Backend` and
`Templates` are built; they have no theorem.

## 5. Findings

**`optimizations_motion`**: the comment at `mtac/loop_invariant_code_motion.cpp:61` asks that the
block of an invariant dominates the exits of the loop; `:87-91` does not ask it of
arithmetic, which has no side effects (comment at `:84`). But the variable is written where it was not: `while(...) { a = b + c; }
print(a)` prints another value when the loop does not run.

What follows was met while modelling. The models do what the code does; the programs they
are run on avoid these cases, where a property speaks of them, because one known
case would hide all others. (Kept in their MC modules are the programs `Across`, `MotionPrograms` and
`FirstTested`; the second has the run above.)

*Front end* (`Templates`)
* `ast/TemplateEngine.cpp:945` keeps pointers into `program.blocks`. When a class template is first
  needed after the vector grew (in `function_check`, say), it may be read from freed
  memory and taken for another: a legal program is rejected, or not.
* `:891`: the search for a class template does not stop at its name; that for template
  arguments inside a template argument (`check_type`, third branch) is unreachable.
* `ast/PassManager.cpp:230`: `template-depth` counts structures only; function templates that
  instantiate each other with growing types never end (the programs looked at avoid them).
* A member template called from the class that is being instantiated is not found (`:844`); an
  instance of a class template loses its parent; a member template of a class template keeps
  `T` unreplaced; the generated copy constructor of `A<int>` takes an `A`, so passing one by value is
  rejected; `f<int>()` and `f<float>()` without a `T` among the parameters have one mangled name; an
  instance of a member template has no structure, so calls on the implicit `this` fail.
* A member of a template type that nobody instantiated, or a member call through an unchecked
  pointer type, reads a null structure.

*Lowering*
* `ast/TransformerEngine.cpp:214` rewrites a loop that tests first to an `if` around a `do while`. Both
  have the context of the loop, and both destroy its objects: an object declared in the body is destroyed in
  every iteration and once more behind the loop. `IntegrationTests.cpp:278` expects one destruction per
  object; none of its objects is in a loop (`FirstTested` in `MCLowering`, under `SameCalls`).
* `mtac/Compiler.cpp:1514`: a function that returns a structure emits no RETURN, and
  statements behind it run. `:1700`: destructors follow the last RETURN and do not run
  then. Temporaries of structures passed by value are destroyed at the end of the function
  even where their construction was skipped.
* `ast/TransformerEngine.cpp:438`: a switch without cases reads `cases[0]`; the first
  case is tested twice; the value is evaluated once per test; the first case gets
  the context of the switch, so it destroys the objects of the enclosing block. The
  functions of `Lowering` have switches on variables and no objects around them.
* `mtac/Compiler.cpp:298`: the left operand is a variable and not a copy of it, so that
  `x + x++` uses the new value. No document orders the evaluation of operands; the
  functions of `Lowering` avoid it.

*Graphs and rounds*
* `mtac/DeadCodeElimination.cpp:64`: `g = g + 1` is removed for a global that called functions read.
* `mtac/LiveVariableAnalysisProblem.cpp:79`: the transfer over a statement leaves escaped variables out, so
  that a store to one is removed when a later store of the block overwrites it, though
  it is read through a pointer in between.
* `mtac/loop_unswitching.cpp:70` copies CALLs and does not tell the call graph: in a later round
  a function that is still called is removed.
* `mtac/ControlFlowGraph.cpp:22`: `remove_edge` removes *all* edges between two blocks. A
  conditional jump to the next block has two; deciding it removes both, and the
  target of the remaining GOTO is deleted as dead. Unswitching leaves edges at one end.
* `mtac/Function.hpp:178` calls functions pure that modify no global variable;
  `pure_analysis.cpp:47` does not see stores to parts of one.
* `mtac/call_graph.cpp:127` has no visited set, visits once per path (`call_graph.hpp:84` promises a
  depth-first search) and does not return on mutual recursion (the model stops there).
* `mtac/remove_empty_functions.cpp:61` erases the statements before the CALL; after
  `[PARAM; NOP; CALL]`, which parameter propagation leaves behind, it erases the NOP and leaves the PARAM.

*Propagation and expressions*
* `mtac/global_cp.cpp`: the result of a CALL stays the constant it was, and a CALL does not change globals.
  `global_offset_cp.cpp:122`: the meet keeps what only the first side knows.
* `mtac/global_cse.cpp:177` reports a change though the value is killed before it is used: on
  `b = b - c; c = a + b` in a loop the rounds do not end.
* `remove_aliases.cpp`: a parameter that is the target of a copy counts as written once.
* `conditional_propagation.cpp:104` does not look whether operands changed in between.
* Folding divides by a constant 0 in the compiler (`ConstantFolding.cpp:60`); `b / b` becomes 1; `%` by a power of two
  becomes AND, wrong for negatives; `FDIV` by -1 becomes an integer MINUS.
  `MathPropagation` and the float identities never act.

*Loops*
* Invariant motion takes no notice of stores to members, nor of globals that a CALL changes; it looks at immediate
  dominators only.
* Strength reduction: in `a = a + 1; c = a + b`, `c` is never written. The replacement of a variable is
  wrong for steps above 1; removal removes a counted global.
* Estimates are one too small when the step does not divide the distance.

*Back end*
* `ltac/PeepholeOptimizer.cpp:498`: constants and copies survive a CALL that changes their register
  (`Across` in `MCBackend`, under `SameResult`). `:736`: a conditional move uses a register that is free in
  this function, after the prologue and the callers' saves were written; it drops labels that other jumps
  may target; MOV 0 to XOR changes flags.
* `ltac/StatementCompiler.cpp:1345`: a RETURN ends its block without storing: a parameter on the stack
  that was loaded there is taken to be in a register in the next block.
* Two-operand instructions overwrite too early: `a = b + a`, `a = b - a`, `x = y / x` on floats, a
  comparison whose result is an operand. `x / 2^k` rounds down. `!` is bitwise.
* Two parameters that swap registers are moved one after the other. A PARAM with a constant is
  pushed even when its parameter is in a register. A dead result of a CALL interferes with nothing.
* An escaped parameter may be given a register; places are shifted by index though a `char` takes one byte.
* `ltac/stack_offsets.cpp:58` walks the list: code behind an early epilogue that is reached only by
  a jump gets offsets of the wrong depth.

## 6. What is not modelled

* *Parser, output, driver, pools, timing*: a grammar, formatting, or a straight line.
* *Runtime I/O and strings, EDDI standard library*: no state, or programs like others.
* *Variables, expressions and warnings in the front end*: `Templates` has types and calls. Scopes, positions and
  the remaining checks are lookups in maps, one per name.
* *Arrays, members, strings, floats in `Lowering`*, and `foreach` over arrays: they add quadruples of other kinds
  between the same control flow.
* *Floats* beyond moves, parameters and simple arithmetic in the back end; they are not folded in `Values`.
* *64 bits*: `Backend` has the conventions of x86; the other platform has more registers and other widths.
* *The text of instructions*: `Machine` has their meaning. Moves of one byte keep their size, as the peephole
  optimizer asks for it, but memory consists of words: what a byte leaves of the word
  around it is not seen. The parameters of type `char` do take one byte of the stack.
* *Unrolling*: `LoopPasses` has it, but no checked loop is long enough. Estimates are checked for steps of 1.
* *Offsets where the list of blocks is not the order of execution* (`stack_offsets.cpp:58`, section 5): checked programs have no
  code behind an early epilogue that only a jump reaches.
* *Branches, dead blocks and dead code inside `Optimizations`*: they are modules of their own, on
  their own bounds.

## 7. Plan

The order follows what breaks a compiled program worst.

1. *Done*: heap; solver and dead code; call graph and rounds; pure analysis;
   colouring; control flow; lowering of statements.
2. *Done*: propagation, expressions, loops, dominators, inlining and parameters on whole programs; the back
   end from quadruples to the peephole optimizer; the pass manager and templates.
3. *Done*: theorems on live variables and dead code, the pure analysis, the order of inlining, the edges of
   the control flow graph from extraction to merging, and that its blocks do what the list did.
4. Theorems: `EveryPassOnce` along the stack `todo`, with the
   recursive operators of `Templates` written as functions.
5. `Lowering` with arrays, members and strings, its output as the input of `ControlFlow`, and that of
   `ControlFlow` as the input of `Optimizations`; scopes and stack positions.
