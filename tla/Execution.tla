------------------------------ MODULE Execution ------------------------------
(***************************************************************************)
(* What a program of quadruples does when it runs: the calls of functions  *)
(* outside of it (assembly functions, I/O), with their arguments, and how  *)
(* it ends.  The meaning of the operators is that of mtac/Operator.hpp;    *)
(* PARAMs are pushed and a CALL takes as many as its function has          *)
(* parameters, the last one pushed first.                                  *)
(*                                                                         *)
(* A program is a function from names to functions.  Memory is a function  *)
(* from cells <<frame, variable, offset>> to values.                       *)
(***************************************************************************)
EXTENDS Quadruples

CONSTANT MaxSteps   \* bound of the statements an execution runs

Undefined == <<"undefined">>
Bits == <<"bits">>       \* a float taken for an int, or the other way round
Pointer(cell) == <<"pointer", cell>>

Running(m) == Last(m.frames)
Cell(m, x, offset) == <<IF x.at = "global" THEN 0 ELSE Running(m).no, x, offset>>

(* Members and globals are zero at first, the length of an array is set.   *)
Load(m, c) ==
  IF c \in DOMAIN m.memory THEN m.memory[c]
  ELSE IF Aggregate(c[2]) \/ c[2].at = "global" THEN Initially(c[2], c[3])
  ELSE Undefined
Store(m, c, v) == [m EXCEPT !.memory = (c :> v) @@ @]
Put(m, x, v) == IF x = NoVariable THEN m ELSE Store(m, Cell(m, x, 0), v)

Value(m, a) == IF isVariable(a) THEN Load(m, Cell(m, a[2], 0)) ELSE a
IsPointer(x) == x.type = "pointer" \/ (x.type = "array" /\ x.at = "param")
AddressOf(m, a) ==
  IF isVariable(a) /\ ~IsPointer(a[2]) THEN Pointer(Cell(m, a[2], 0)) ELSE Value(m, a)
Member(m, x, offset) ==
  IF ~isInt(offset) THEN Undefined
  ELSE LET base == IF IsPointer(x) THEN Value(m, var(x)) ELSE Pointer(Cell(m, x, 0))
       IN  IF base[1] = "pointer"
           THEN Pointer([base[2] EXCEPT ![3] = @ + offset[2]]) ELSE Undefined

(* A result of two values, which have to be of the kind the operator wants. *)
Typed(kind, u, v, R(_, _)) ==
  IF Undefined \in {u, v} THEN Undefined
  ELSE IF u[1] = kind /\ v[1] = kind THEN R(u[2], v[2]) ELSE Bits

Bool(b) == int(IF b THEN 1 ELSE 0)

Related(rel, u, v) ==
  IF rel \in Relations THEN Typed("int", u, v, LAMBDA a, b : Bool(holds(rel, a, b)))
  ELSE Typed("float", u, v, LAMBDA a, b : Bool(holds(rel, a, b)))

(* What the operators that only compute give.                              *)
Computed(op, u, v) ==
  CASE op \in {"ASSIGN", "FASSIGN"} -> u
    [] op \in IntArithmetic ->
         Typed("int", u, v, LAMBDA a, b : int(compute(op, a, b)))
    [] op \in FloatArithmetic ->
         Typed("float", u, v, LAMBDA a, b : float(compute(op, a, b)))
    [] op = "AND" -> Typed("int", u, v, LAMBDA a, b : int(a % (b + 1)))
    [] op \in Relations \union FloatRelations -> Related(op, u, v)
    [] op = "NOT" -> Typed("int", u, u, LAMBDA a, b : Bool(a = 0))
    [] op = "MINUS" -> Typed("int", u, u, LAMBDA a, b : int(-a))
    [] op = "FMINUS" -> Typed("float", u, u, LAMBDA a, b : float(-a))
    [] op = "I2F" -> Typed("int", u, u, LAMBDA a, b : float(a))
    [] op = "F2I" -> Typed("float", u, u, LAMBDA a, b : int(a))

Divides(op, v) == op \in {"DIV", "MOD"} /\ v = int(0)

(* Where control goes: to a block, to the next statement.                  *)
Jump(m, b) == [m EXCEPT !.frames[Len(m.frames)].block = b,
                        !.frames[Len(m.frames)].index = 1]
Advance(m) == [m EXCEPT !.frames[Len(m.frames)].index = @ + 1]
End(m, why) == [m EXCEPT !.end = why]

Frame(no, fn, call) == [no |-> no, fn |-> fn, block |-> ENTRY, index |-> 1, call |-> call]

(* Leave the function on top with the values of its RETURN.                *)
Leave(m, u, v) ==
  LET call == Running(m).call
      below == [m EXCEPT !.frames = Front(@)]
  IN  IF Len(m.frames) = 1 THEN End(m, "done")
      ELSE Put(Put(below, call.res, u), call.sec, v)

(* A function of the program gets a frame; one outside of it sees its      *)
(* arguments (all that were pushed) and answers.                           *)
Enter(P, m, q) ==
  IF q.fn \in DOMAIN P
  THEN LET f == P[q.fn]
           n == Len(f.params)
           no == m.calls + 1
           args == [x \in {<<no, f.params[i], 0>> : i \in 1 .. n} |->
                      LET i == CHOOSE i \in 1 .. n : f.params[i] = x[2]
                      IN  m.params[Len(m.params) - i + 1]]
       IN  IF Len(m.params) < n THEN End(m, "no arguments")
           ELSE [m EXCEPT !.frames = Append(@, Frame(no, q.fn, q)),
                          !.calls = no,
                          !.params = SubSeq(@, 1, Len(@) - n),
                          !.memory = args @@ @]
  ELSE Put([m EXCEPT !.params = <<>>,
                     !.out = Append(@, <<q.fn, m.params>>)],
           q.res, int(m.input + Len(m.out)))

Statement(P, m, q) ==
  LET u == Value(m, q.a1)
      v == Value(m, q.a2)
      n == Advance(m)
      go == CASE q.op = "GOTO" -> int(1)
              [] q.rel = "UNARY" -> IF u[1] = "int" THEN Bool(u[2] # 0) ELSE Undefined
              [] OTHER -> Related(q.rel, u, v)
      pointed(x, offset) == Member(m, x, offset)
  IN  CASE q.op = "NOP" -> n
        [] q.op \in {"GOTO", "IF", "IF_FALSE"} ->
             IF ~isInt(go) THEN End(m, "undefined")
             ELSE IF (q.op = "IF_FALSE") # (go = int(1)) THEN Jump(m, q.to) ELSE n
        [] q.op = "RETURN" -> Leave(m, u, v)
        [] q.op = "PARAM" -> [n EXCEPT !.params = Append(@, u)]
        [] q.op = "PPARAM" -> [n EXCEPT !.params = Append(@, AddressOf(m, q.a1))]
        [] q.op = "CALL" -> Enter(P, n, q)
        [] q.op = "PASSIGN" -> Put(n, q.res, AddressOf(m, q.a1))
        [] q.op = "PDOT" -> Put(n, q.res, pointed(q.a1[2], v))
        [] q.op \in {"DOT", "FDOT"} ->
             LET c == pointed(q.a1[2], v)
             IN  IF c = Undefined THEN End(m, "undefined")
                 ELSE Put(n, q.res, Load(m, c[2]))
        [] q.op \in Stores ->
             LET c == pointed(q.res, u)
             IN  IF c = Undefined THEN End(m, "undefined")
                 ELSE Store(n, c[2], IF q.op = "DOT_PASSIGN" THEN AddressOf(m, q.a2) ELSE v)
        [] OTHER -> IF Divides(q.op, v) THEN End(m, "divided by zero")
                    ELSE Put(n, q.res, Computed(q.op, u, v))

(* One statement, or the fall through to the next block.                   *)
Step(P, m) ==
  LET t == Running(m)
      f == P[t.fn]
  IN  IF t.index <= Len(f.code[t.block]) THEN Statement(P, m, f.code[t.block][t.index])
      ELSE IF t.block = EXIT THEN Leave(m, Undefined, Undefined)
      ELSE Jump(m, next(f, t.block))

RECURSIVE Steps(_, _, _)
Steps(P, m, n) ==
  IF m.end # "" THEN m
  ELSE IF n = 0 THEN End(m, "runs on")
  ELSE Steps(P, Step(P, m), n - 1)

(* The behaviour of the program for an input.                              *)
Behaviour(P, input) ==
  LET start == [memory |-> << >>, frames |-> <<Frame(1, "main", Call("main", NoVariable))>>,
                calls |-> 1, params |-> <<>>, out |-> <<>>, input |-> input, end |-> ""]
      m == Steps(P, start, MaxSteps)
  IN  [out |-> m.out, end |-> m.end]
=============================================================================
