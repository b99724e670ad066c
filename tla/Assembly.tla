------------------------------ MODULE Assembly ------------------------------
(***************************************************************************)
(* The low-level code (LTAC): instructions, their arguments, and what the  *)
(* passes of the back end ask of them.  The platform is x86 with the       *)
(* registers given: fewer than the six it has, so that small functions run *)
(* out of them.                                                            *)
(***************************************************************************)
EXTENDS Quadruples

(* A value that TLC works out once, for the comparison, and not at every   *)
(* use; and folds that do so at every step.                                *)
Evaluated(v) == IF v = v THEN v ELSE v
Folded(Op(_, _), base, s) ==
  LET after[n \in 0 .. Len(s)] ==
        IF n = 0 THEN base
        ELSE LET before == after[n - 1] IN IF before = before THEN Op(before, s[n]) ELSE base
  IN  after[Len(s)]
SumOf(s, Number_(_)) == Folded(LAMBDA n, x : n + Number_(x), 0, s)

(* The elements of a set in some order, and in that of their keys.         *)
RECURSIVE SequenceOf(_)
SequenceOf(S) == IF S = {} THEN <<>>
                 ELSE LET x == CHOOSE x \in S : TRUE IN <<x>> \o SequenceOf(S \ {x})
Sorted(S, Key(_)) ==
  [i \in 1 .. Cardinality(S) |-> CHOOSE x \in S : Cardinality({y \in S : Key(y) < Key(x)}) = i - 1]
FoldedRight(Op(_, _), s, base) == Folded(LAMBDA t, x : Op(x, t), base, Reverse(s))

CONSTANTS symbolic_registers,         \* in the order in which they are tried
          symbolic_float_registers,
          int_param_register,         \* by position
          float_param_register

Word == 4
a_register == 0
d_register == 3
int_return_register1 == 0
int_return_register2 == 1
float_return_register == 0
registers(k) == IF k = "pr" THEN symbolic_registers ELSE symbolic_float_registers
param_registers(k) == IF k = "pr" THEN int_param_register ELSE float_param_register

Aligned(n) == n + ((Word - (n % Word)) % Word)

(* The bytes of a type, and how its values are passed: a pointer or a      *)
(* number of one word may be in a register.                                *)
size_of(type) ==
  CASE type \in {"int", "float", "pointer"} -> Word
    [] type = "char" -> 1
    [] type = "string" -> 2 * Word
    [] type \in {"struct", "array"} -> MemberWords * Word
is_single_int_register(type) == type \in {"int", "char", "pointer"}
is_single_float_register(type) == type = "float"

(* The class of pseudo registers for a type, "pr" or "pf", and the move of *)
(* that class.                                                             *)
Class(x) == IF x.type = "float" THEN "pf" ELSE "pr"
MoveOf(k) == IF k = "pf" THEN "FMOV" ELSE "MOV"

-----------------------------------------------------------------------------
(* Arguments: immediates, registers and addresses.  A pseudo register of   *)
(* class k is <<k, number, binding>>; a hard one <<k, number>>.            *)

Free == -1
Pseudo(k, n) == <<k, n, Free>>
bound(r) == r[3] # Free
Hard(k, n) == <<IF k \in {"pr", "hr"} THEN "hr" ELSE "hf", n>>
SP == <<"sp">>
BP == <<"bp">>
label(x) == <<"label", x>>
pool(n) == <<"pool", n>>           \* the label of a constant of the float pool
NoArg == <<"none">>

isPseudo(a) == a[1] \in {"pr", "pf"}
isHard(a) == a[1] \in {"hr", "hf"}
isIntRegister(a) == a[1] \in {"hr", "sp", "bp"}
isRegister(a) == isPseudo(a) \/ isHard(a) \/ a \in {SP, BP}

Indexed(base, index, displacement) == <<"at", base, index, displacement>>
Address(base, displacement) == Indexed(base, NoArg, displacement)
isAddress(a) == a[1] = "at"
stack_address(offset) == Address(BP, offset)

(* Instructions have up to three arguments; a jump has a block, a CALL a   *)
(* function and, like RET, the registers it uses and kills.  A MOV is of   *)
(* the default size or of one byte.                                        *)
Instruction(op, a1, a2, a3) ==
  [op |-> op, a1 |-> a1, a2 |-> a2, a3 |-> a3, to |-> 0, fn |-> "", size |-> "default",
   uses |-> {}, kills |-> {}]
I0(op) == Instruction(op, NoArg, NoArg, NoArg)
I1(op, a1) == Instruction(op, a1, NoArg, NoArg)
I2(op, a1, a2) == Instruction(op, a1, a2, NoArg)
Byte(a1, a2) == [I2("MOV", a1, a2) EXCEPT !.size = "byte"]
Jumping(op, to) == [I0(op) EXCEPT !.to = to]
nop(i) == [i EXCEPT !.op = "NOP", !.a1 = NoArg, !.a2 = NoArg, !.a3 = NoArg]

Arguments(i) == <<i.a1, i.a2, i.a3>>
OnArguments(i, R(_)) == [i EXCEPT !.a1 = R(@), !.a2 = R(@), !.a3 = R(@)]

(* Replace a register by what R gives, in addresses also.                  *)
Renamed(arg, R(_)) ==
  IF isAddress(arg) THEN Indexed(R(arg[2]), R(arg[3]), arg[4]) ELSE R(arg)

(* The registers an argument mentions.                                     *)
RegistersIn(arg) ==
  {r \in (IF isAddress(arg) THEN {arg[2], arg[3]} ELSE {arg}) : isRegister(r)}

Compares == {"CMP_INT", "CMP_FLOAT"}
CMov == [CMOVE |-> "EQUALS", CMOVNE |-> "NOT_EQUALS", CMOVG |-> "GREATER",
         CMOVGE |-> "GREATER_EQUALS", CMOVL |-> "LESS", CMOVLE |-> "LESS_EQUALS",
         CMOVA |-> "GREATER", CMOVAE |-> "GREATER_EQUALS", CMOVB |-> "LESS",
         CMOVBE |-> "LESS_EQUALS"]
Conditions == [E |-> "EQUALS", NE |-> "NOT_EQUALS", G |-> "GREATER",
               GE |-> "GREATER_EQUALS", L |-> "LESS", LE |-> "LESS_EQUALS",
               A |-> "GREATER", AE |-> "GREATER_EQUALS", B |-> "LESS",
               BE |-> "LESS_EQUALS", Z |-> "EQUALS", NZ |-> "NOT_EQUALS"]
is_branch(i) == i.op \in DOMAIN Conditions \union {"ALWAYS", "P"}
is_jumping(i) == is_branch(i) \/ i.op = "CALL"
is_label(i) == i.op = "LABEL"

erase_result_complete(op) == op \in {"MOV", "FMOV", "LEA", "MUL3"}
erase_result_low(op) ==
  op \in {"MOV", "FMOV", "MUL3", "XOR", "OR", "LEA", "SHIFT_LEFT", "SHIFT_RIGHT", "ADD",
          "SUB", "MUL2", "FADD", "FSUB", "FMUL", "FDIV", "INC", "DEC", "NEG", "NOT",
          "AND", "I2F", "F2I"} \union DOMAIN CMov

-----------------------------------------------------------------------------
(* A function of low-level code: low is the code of its blocks, position   *)
(* where each variable lives, stack the lowest stack position in use, last *)
(* the next number of a pseudo register of each class, used the hard       *)
(* registers and variable_used those that hold variables.                  *)

position_of(f, x) ==
  IF x.at = "global" THEN <<"global">>
  ELSE IF x \in DOMAIN f.place THEN f.place[x] ELSE <<"register">>
onStack(f, x) == position_of(f, x)[1] = "stack"
isParameter(f, x) == position_of(f, x)[1] = "parameter"
isParamRegister(f, x) == position_of(f, x)[1] = "param_register"

LowPlaces(f) == UNION {{<<b, i>> : i \in DOMAIN f.low[b]} : b \in Blocks(f)}
LowAt(f, p) == f.low[p[1]][p[2]]
OnCode(f, R(_)) ==
  [f EXCEPT !.low = Evaluated([b \in Blocks(f) |-> [i \in DOMAIN @[b] |-> R(@[b][i])]])]

Each(s, R(_)) == Folded(LAMBDA code, r : code \o R(r), <<>>, s)
(* The code of all blocks in a row, each instruction with its block.       *)
Flat(f) == Each(f.list, LAMBDA b : [i \in DOMAIN f.low[b] |-> [b |-> b, i |-> f.low[b][i]]])
Unflat(f, flat) ==
  LET add(low, e) == [low EXCEPT ![e.b] = Append(@, e.i)]
  IN  [f EXCEPT !.low = Folded(add, [b \in Blocks(f) |-> <<>>], flat)]

(* The position of a parameter among those of its class.                   *)
InRegister(k, type) ==
  IF k = "pr" THEN is_single_int_register(type) ELSE is_single_float_register(type)
ClassOf(type) == IF is_single_float_register(type) THEN "pf" ELSE "pr"
parameter_position_by_type(params, i) ==
  Cardinality({j \in 1 .. i : InRegister(ClassOf(params[i].type), params[j].type)})
allocated_in_register(params, i) ==
  /\ InRegister(ClassOf(params[i].type), params[i].type)
  /\ parameter_position_by_type(params, i) <= Len(param_registers(ClassOf(params[i].type)))

(* The parameters of a function: of the program, or of the table of those  *)
(* outside of it, whose parameters are always in registers.                *)
CONSTANT Standard
parameters(P, fn) == IF fn \in DOMAIN P THEN P[fn].params ELSE Standard[fn]
by_registers(P, fn, allocation) == allocation \/ fn \notin DOMAIN P

(* The hard registers that hold parameters.                                *)
parameter_registers(P, fn, allocation) ==
  LET s == parameters(P, fn)
  IN  {Hard(ClassOf(s[i].type),
            param_registers(ClassOf(s[i].type))[parameter_position_by_type(s, i)]) :
         i \in {i \in DOMAIN s : by_registers(P, fn, allocation) /\ allocated_in_register(s, i)}}
=============================================================================
