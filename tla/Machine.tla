------------------------------- MODULE Machine -------------------------------
(***************************************************************************)
(* What low-level code does when it runs after register allocation: the    *)
(* x86 instructions that the code generator writes for the operators       *)
(* (asm/IntelX86CodeGenerator.cpp), on values that know what they are.     *)
(* The stack grows down; the caller's code, the result and the arguments   *)
(* of functions outside of the program follow the calling convention.      *)
(***************************************************************************)
EXTENDS Assembly

CONSTANT MaxSteps   \* bound of the instructions an execution runs

LOCAL X == INSTANCE Execution WITH MaxSteps <- MaxSteps

Undefined == <<"undefined">>
Stack(n) == <<"pointer", <<"stack">>, n>>
ReturnTo(pc) == <<"return", pc>>
Nowhere == [fn |-> "", block |-> 0, index |-> 0]   \* what main returns to

End(m, why) == [m EXCEPT !.end = why]
Move(v, n) == IF v[1] = "pointer" THEN <<"pointer", v[2], v[3] + n>> ELSE Undefined

(* The address an argument stands for.                                     *)
EffectiveAddress(m, arg) ==
  LET base == arg[2]
      start == IF base[1] = "label" THEN <<"pointer", <<"global", base[2]>>, 0>>
               ELSE IF base[1] = "none" THEN Undefined
               ELSE m.regs[base]
      scale == IF Len(arg) = 5 THEN arg[5] ELSE 1
      at == IF arg[3] = NoArg THEN int(0) ELSE m.regs[arg[3]]
      index == IF at[1] = "int" THEN int(at[2] * scale) ELSE at
  IN  IF start[1] = "int" /\ index[1] = "int" THEN int(start[2] + index[2] + arg[4])
      ELSE IF start[1] = "int" THEN Move(index, start[2] + arg[4])
      ELSE IF index[1] = "int" THEN Move(start, index[2] + arg[4]) ELSE Undefined

(* A word of memory; what was never written is zero in a global variable.  *)
LoadFrom(m, v) ==
  IF v[1] # "pointer" THEN Undefined
  ELSE IF <<v[2], v[3]>> \in DOMAIN m.memory THEN m.memory[<<v[2], v[3]>>]
  ELSE IF v[2][1] = "global" THEN Initially(v[2][2], v[3]) ELSE Undefined
StoreTo(m, v, w) ==
  IF v[1] # "pointer" THEN End(m, "stored nowhere")
  ELSE [m EXCEPT !.memory = (<<v[2], v[3]>> :> w) @@ @]

Read(m, arg) ==
  CASE arg[1] \in {"int", "float"} -> arg
    [] arg[1] = "label" -> <<"pointer", <<"global", arg[2]>>, 0>>
    [] isAddress(arg) ->
         IF arg[2][1] = "pool" THEN float(arg[2][2])
         ELSE LoadFrom(m, EffectiveAddress(m, arg))
    [] OTHER -> m.regs[arg]
Write(m, arg, v) ==
  IF isAddress(arg) THEN StoreTo(m, EffectiveAddress(m, arg), v)
  ELSE [m EXCEPT !.regs[arg] = v]

Push(m, v) ==
  LET n == [m EXCEPT !.regs[SP] = Move(@, -Word)] IN StoreTo(n, n.regs[SP], v)
Popped(m) == [m EXCEPT !.regs[SP] = Move(@, Word)]
Top(m) == LoadFrom(m, m.regs[SP])

(* The two-operand instructions, by the operator of quadruples they do.    *)
Does == [ADD |-> "ADD", SUB |-> "SUB", MUL2 |-> "MUL", AND |-> "AND",
         FADD |-> "FADD", FSUB |-> "FSUB", FMUL |-> "FMUL", FDIV |-> "FDIV"]
Result(op, u, v) ==
  IF op = "ADD" /\ v[1] = "pointer" /\ u[1] = "int" THEN Move(v, u[2])
  ELSE IF u[1] = "pointer" /\ v[1] = "int" /\ op \in {"ADD", "SUB"}
  THEN Move(u, IF op = "ADD" THEN v[2] ELSE -v[2])
  ELSE IF u[1] = "pointer" \/ v[1] = "pointer" THEN Undefined
  ELSE X!Computed(Does[op], u, v)
Shifted(op, u, n) ==
  IF u[1] # "int" THEN Undefined
  ELSE IF op = "SHIFT_LEFT" THEN int(u[2] * (2 ^ n))
  ELSE IF n = 31 THEN int(IF u[2] < 0 THEN -1 ELSE 0) ELSE int(u[2] \div (2 ^ n))

(* Arithmetic sets the flags as a comparison of its result with zero does. *)
Flagged(m, v) == [m EXCEPT !.flags = <<v, int(0)>>]
Written(m, i, v) == Flagged(Write(m, i.a1, v), v)
Condition(m, rel) ==
  LET u == m.flags[1]  v == m.flags[2]
      k == IF u[1] = "float" \/ v[1] = "float" THEN "float" ELSE "int"
  IN  IF u[1] = "pointer" /\ v = int(0) THEN X!Bool(rel = "NOT_EQUALS")
      ELSE X!Typed(k, u, v, LAMBDA a, b : X!Bool(holds(rel, a, b)))

Goto_(m, b) == [m EXCEPT !.pc = [@ EXCEPT !.block = b, !.index = 1]]
JumpTo(P, m, b) ==
  IF \E i \in ToSet(P[m.pc.fn].low[b]) : is_label(i) THEN Goto_(m, b) ELSE End(m, "no label")
Next_(m) == [m EXCEPT !.pc.index = @ + 1]

(* A function outside of the program reads its arguments from registers    *)
(* and, for those beyond, from the stack; it may overwrite the registers   *)
(* of its parameters.                                                      *)
Outside(m, i) ==
  LET s == Standard[i.fn]
      onstack(n) == SelectSeq(SubSeq(s, 1, n), LAMBDA x :
                      ~allocated_in_register(s, CHOOSE j \in DOMAIN s : s[j] = x))
      below(n) == FoldSeq(LAMBDA x, t : t + size_of(x.type), 0, onstack(n - 1))
      argument(n) ==
        IF allocated_in_register(s, n)
        THEN m.regs[Hard(ClassOf(s[n].type),
               param_registers(ClassOf(s[n].type))[parameter_position_by_type(s, n)])]
        ELSE LoadFrom(m, Move(m.regs[SP], below(n)))
      seen == [n \in 1 .. Len(s) |-> argument(Len(s) - n + 1)]
      trashed == parameter_registers(<< >>, i.fn, TRUE)
      n == [m EXCEPT !.out = Append(@, <<i.fn, seen>>),
                     !.regs = [r \in DOMAIN @ |-> IF r \in trashed THEN Undefined ELSE @[r]]]
  IN  IF i.kills = {} THEN n
      ELSE [n EXCEPT !.regs[Hard("pr", int_return_register1)] = int(m.input + Len(m.out))]

CallTo(P, m, i) ==
  IF i.fn \in DOMAIN P
  THEN [Push(m, ReturnTo(Next_(m).pc)) EXCEPT
          !.pc = [fn |-> i.fn, block |-> ENTRY, index |-> 1]]
  ELSE Next_(Outside(m, i))

Execute(P, m, i) ==
  LET n == Next_(m)
      u == Read(m, i.a1)
      v == Read(m, i.a2)
      eax == Hard("pr", a_register)
      edx == Hard("pr", d_register)
      a == m.regs[eax]
  IN  CASE i.op \in {"NOP", "LABEL", "PRE_PARAM"} -> n
        [] i.op \in {"MOV", "FMOV", "MOVDQU"} ->
             IF i.op = "MOVDQU"
             THEN FoldSet(LAMBDA k, t : StoreTo(t, Move(EffectiveAddress(m, i.a1), k * Word),
                                                int(0)), n, 0 .. 3)
             ELSE Write(n, i.a1, v)
        [] i.op = "LEA" -> Write(n, i.a1, EffectiveAddress(m, i.a2))
        [] i.op = "XORPS" -> Write(n, i.a1, float(0))
        [] i.op \in {"CMP_INT", "CMP_FLOAT"} -> [n EXCEPT !.flags = <<u, v>>]
        [] i.op = "OR" -> Flagged(n, u)
        [] i.op = "XOR" -> Written(n, i, int(0))
        [] i.op \in DOMAIN Does -> Written(n, i, Result(i.op, u, v))
        [] i.op = "MUL3" -> Written(n, i, X!Computed("MUL", v, Read(m, i.a3)))
        [] i.op \in {"SHIFT_LEFT", "SHIFT_RIGHT"} -> Written(n, i, Shifted(i.op, u, v[2]))
        [] i.op \in {"INC", "DEC"} ->
             Written(n, i, Result(IF i.op = "INC" THEN "ADD" ELSE "SUB", u, int(1)))
        [] i.op = "NEG" -> Written(n, i, X!Computed("MINUS", u, u))
        [] i.op = "NOT" -> Write(n, i.a1, IF u[1] = "int" THEN int(-u[2] - 1) ELSE Undefined)
        [] i.op = "I2F" -> Write(n, i.a1, X!Computed("I2F", v, v))
        [] i.op = "F2I" -> Write(n, i.a1, X!Computed("F2I", v, v))
        [] i.op \in DOMAIN CMov ->
             LET c == Condition(m, CMov[i.op])
             IN  IF c = int(1) THEN Write(n, i.a1, v)
                 ELSE IF c = int(0) THEN n ELSE Write(n, i.a1, Undefined)
        [] i.op = "DIV" ->
             IF ~(isInt(u) /\ isInt(a)) THEN End(m, "undefined")
             ELSE IF u = int(0) \/ m.regs[edx] # int(IF a[2] < 0 THEN -1 ELSE 0)
             THEN End(m, "divided by zero")
             ELSE [n EXCEPT !.regs[eax] = int(compute("DIV", a[2], u[2])),
                            !.regs[edx] = int(compute("MOD", a[2], u[2]))]
        [] i.op = "PUSH" -> Push(n, u)
        [] i.op = "POP" -> Popped(Write(n, i.a1, Top(m)))
        [] i.op = "ENTER" ->
             LET p == Push(n, m.regs[BP]) IN [p EXCEPT !.regs[BP] = p.regs[SP]]
        [] i.op = "LEAVE" ->
             LET p == [n EXCEPT !.regs[SP] = m.regs[BP]]
             IN  Popped([p EXCEPT !.regs[BP] = Top(p)])
        [] i.op = "CALL" -> CallTo(P, m, i)
        [] i.op \in {"RET", "PRE_RET"} ->
             LET to == Top(m)
             IN  IF to[1] # "return" THEN End(m, "returned nowhere")
                 ELSE IF to[2] = Nowhere THEN End(m, "done")
                 ELSE [Popped(m) EXCEPT !.pc = to[2]]
        [] i.op = "ALWAYS" -> JumpTo(P, m, i.to)
        [] i.op = "P" -> n
        [] i.op \in DOMAIN Conditions ->
             LET c == Condition(m, Conditions[i.op])
             IN  IF c = int(1) THEN JumpTo(P, m, i.to)
                 ELSE IF c = int(0) THEN n ELSE End(m, "undefined")

(* One instruction, or the fall through to the next block.                 *)
Step(P, m) ==
  LET f == P[m.pc.fn]
      code == f.low[m.pc.block]
  IN  IF m.pc.index <= Len(code) THEN Execute(P, m, code[m.pc.index])
      ELSE IF m.pc.block = EXIT THEN End(m, "ran past the end")
      ELSE Goto_(m, next(f, m.pc.block))

RECURSIVE Some(_, _, _)
Some(P, m, n) == IF m.end # "" \/ n = 0 THEN m ELSE Some(P, Step(P, m), n - 1)
RECURSIVE Steps(_, _, _)
Steps(P, m, n) ==
  IF m.end # "" THEN m
  ELSE IF n <= 0 THEN End(m, "runs on")
  ELSE Steps(P, Some(P, m, 20), n - 20)

(* The behaviour of the low-level program for an input.                    *)
LowBehaviour(P, input) ==
  LET all == {Hard("pr", r) : r \in ToSet(symbolic_registers)}
               \union {Hard("pf", r) : r \in ToSet(symbolic_float_registers)}
      start == [regs |-> [r \in all \union {SP, BP} |-> IF r = SP THEN Stack(0) ELSE Undefined],
                memory |-> << >>, flags |-> <<Undefined, Undefined>>,
                pc |-> [fn |-> "main", block |-> ENTRY, index |-> 1],
                out |-> <<>>, input |-> input, end |-> ""]
      m == Steps(P, Push(start, ReturnTo(Nowhere)), MaxSteps)
  IN  [out |-> m.out, end |-> m.end]
=============================================================================
