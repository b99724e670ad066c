-------------------------- MODULE StatementCompiler --------------------------
(***************************************************************************)
(* From quadruples to low-level code on pseudo registers.                  *)
(*                                                                         *)
(* The state of the compilation of a function is a record: code, what each *)
(* block has got so far; bb, the block; regs, the register that holds each *)
(* variable; local, the variables whose home is memory, and written, those *)
(* that were assigned, both since the block began; next, the number of the *)
(* next register of each class; uses, the registers the next CALL uses.    *)
(* error says that an assertion of the code has failed.                    *)
(***************************************************************************)
EXTENDS Assembly

emplace_back_low(c, i) == [c EXCEPT !.code[c.bb] = Append(@, i)]
Emit(c, op, a1, a2) == emplace_back_low(c, I2(op, a1, a2))
EmitByte(c, a1, a2) == emplace_back_low(c, Byte(a1, a2))

(* A new register, and the register that is new.                           *)
get_new_reg(c, k) == [c EXCEPT !.next[k] = @ + 1]
fresh(c, k) == Pseudo(k, c.next[k])
get_bound_reg(c, k) == get_new_reg(c, k)
fresh_bound(c, k, hard) == <<k, c.next[k], hard>>

setLocation(c, x, r) == [c EXCEPT !.regs = (x :> r) @@ @]
remove_from_reg(c, x) == [c EXCEPT !.regs = [y \in DOMAIN @ \ {x} |-> @[y]]]
inRegister(c, x) == x \in DOMAIN c.regs
set_written(c, x) == [c EXCEPT !.written = @ \union {x}]
is_escaped(c, x) == x \in c.escaped
is_local(c, x) ==
  \/ isParameter(c.f, x) \/ onStack(c.f, x)
  \/ is_escaped(c, x) /\ ~isParamRegister(c.f, x)
noticed(c, x) == IF is_local(c, x) THEN [c EXCEPT !.local = @ \union {x}] ELSE c

(* Where a variable lives in memory.                                       *)
inMemory(c, x) == position_of(c.f, x)[1] \in {"stack", "parameter", "global"}
Home(c, x, displacement) ==
  LET p == position_of(c.f, x)
  IN  IF p[1] = "global" THEN Address(label(x), displacement)
      ELSE stack_address(p[2] + displacement)

(* The value of an argument goes to a register.                            *)
source(c, a, k) ==
  IF isVariable(a) THEN IF inRegister(c, a[2]) THEN c.regs[a[2]] ELSE Home(c, a[2], 0)
  ELSE IF k = "pf" THEN Address(pool(a[2]), 0) ELSE a
isChar(a) == isVariable(a) /\ a[2].type = "char"
copy(c, a, r) ==
  IF isVariable(a) /\ ~inRegister(c, a[2]) /\ ~inMemory(c, a[2]) THEN [c EXCEPT !.error = TRUE]
  ELSE IF isChar(a) /\ ~inRegister(c, a[2]) /\ position_of(c.f, a[2])[1] # "global"
  THEN EmitByte(c, r, source(c, a, r[1]))
  ELSE Emit(c, MoveOf(r[1]), r, source(c, a, r[1]))
located(c, a, r) == IF isVariable(a) THEN setLocation(c, a[2], r) ELSE c
move(c, a, r) == located(copy(c, a, r), a, r)

(* The register of a variable, with its value or without.                  *)
held(c, x) == IF inRegister(c, x) THEN c.regs[x] ELSE fresh(c, Class(x))
taken(c, x) == IF inRegister(c, x) THEN c ELSE get_new_reg(c, Class(x))
get_pseudo_reg(c, x) == noticed(move(taken(c, x), var(x), held(c, x)), x)
get_pseudo_reg_no_move(c, x) == noticed(setLocation(taken(c, x), x, held(c, x)), x)

(* to_arg: what the state becomes, and the argument.                       *)
is_temporary(c, x) == x.at = "temporary" /\ ~onStack(c.f, x)
to_register(c, x) ==
  IF is_temporary(c, x) THEN get_pseudo_reg_no_move(c, x) ELSE get_pseudo_reg(c, x)
with(c, a) == IF isVariable(a) THEN to_register(c, a[2]) ELSE c
to_arg(c, a) == IF isVariable(a) THEN c.regs[a[2]] ELSE a
emit_arg(c, op, r, a) == Emit(c, op, r, to_arg(c, a))
Emit_(c, op, r, a) == emit_arg(with(c, a), op, r, a)

(* A variable in its register, for the arguments that have to be there.    *)
loaded(c, a) == IF isVariable(a) THEN get_pseudo_reg(c, a[2]) ELSE c

-----------------------------------------------------------------------------
(* The end of a block: the locals that were written go back to memory, and *)
(* no local is taken to be in a register any more.                         *)

end_bb_no_spill(c) ==
  IF c.ended THEN c ELSE [c EXCEPT !.written = {}, !.local = {}, !.ended = TRUE]
spill_local(c, x) ==
  LET store(d) == Emit(d, MoveOf(Class(x)), Home(d, x, 0), d.regs[x])
  IN  remove_from_reg(IF x \notin c.written THEN c
                      ELSE IF inMemory(c, x) THEN store(get_pseudo_reg(c, x))
                      ELSE [c EXCEPT !.error = TRUE], x)
end_bb(c) ==
  IF c.ended THEN c
  ELSE end_bb_no_spill(Folded(spill_local, c, SequenceOf(c.local)))

-----------------------------------------------------------------------------
(* address(c, x, offset): the state, and the address of the part of x.     *)

IsArray(x) == x.type = "array"
byPointer(x) == x.type = "pointer"
part(c, base, n, offset) ==
  <<c, IF isInt(offset) THEN Address(base, n + offset[2])
       ELSE Indexed(base, c.regs[offset[2]], n)>>
part_of(c, x, offset) == part(c, c.regs[x], 0, offset)
through(c, op, n, offset) ==
  part(Emit(get_new_reg(c, "pr"), op, fresh(c, "pr"), stack_address(n)), fresh(c, "pr"), 0, offset)
part_at(c, x, offset) ==              \* c has the offset that is not a constant
  LET p == position_of(c.f, x)
  IN  IF p[1] = "global" THEN part(c, label(x), 0, offset)
      ELSE IF p[1] = "parameter" /\ (IsArray(x) \/ ~isInt(offset))
      THEN through(c, IF IsArray(x) THEN "MOV" ELSE "LEA", p[2], offset)
      ELSE part(c, BP, p[2], offset)
address(c, x, offset) ==
  IF byPointer(x) \/ ~inMemory(c, x)
  THEN part_of(loaded(get_pseudo_reg(c, x), offset), x, offset)
  ELSE part_at(loaded(c, offset), x, offset)

(* What is done with an address: to it, or from it.                        *)
EmitTo(a, op, value) == Emit(a[1], op, a[2], value)
EmitFrom(a, op, r) == Emit(a[1], op, r, a[2])

(* The address in a register: the state, with the register the new one.    *)
get_address_in_pseudo_reg(c, x, offset) ==
  <<EmitFrom(address(get_new_reg(c, "pr"), x, int(offset)), "LEA", fresh(c, "pr")),
    fresh(c, "pr")>>
displaced(a, offset) == <<EmitTo(a, "ADD", offset), a[2]>>
get_address_in_pseudo_reg2(c, x, offset) ==
  displaced(get_address_in_pseudo_reg(c, x, 0), offset)

-----------------------------------------------------------------------------
(* Calls.                                                                  *)

function_stack_size(P, fn, allocation) ==
  LET s == parameters(P, fn)
      pushed == {i \in DOMAIN s : ~(by_registers(P, fn, allocation) /\ allocated_in_register(s, i))}
      bytes(i) == IF IsArray(s[i]) THEN Word ELSE size_of(s[i].type)
  IN  FoldSet(LAMBDA i, n : n + bytes(i), 0, pushed)

common_param(P, c, q, allocation) ==
  LET total == function_stack_size(P, q.fn, allocation)
      pre == emplace_back_low(c, I0("PRE_PARAM"))
      pad == IF Aligned(total) = total THEN pre
             ELSE Emit(pre, "SUB", SP, int(Aligned(total) - total))
  IN  IF c.first_param THEN [pad EXCEPT !.first_param = FALSE] ELSE c

(* The hard register of the parameter of a PARAM, if it has one.           *)
index_of(P, q) == CHOOSE i \in DOMAIN parameters(P, q.fn) : parameters(P, q.fn)[i] = q.res
register_allocated(P, q, allocation) ==
  by_registers(P, q.fn, allocation) /\ allocated_in_register(parameters(P, q.fn), index_of(P, q))
register_of(P, q) ==
  LET s == parameters(P, q.fn)
  IN  param_registers(ClassOf(q.res.type))[parameter_position_by_type(s, index_of(P, q))]

using(c, r) == [c EXCEPT !.uses = @ \union {r}]
pass_in_register(c, a, hard, k) ==
  LET r == fresh_bound(c, k, hard)
      n == get_bound_reg(c, k)
  IN  using(IF k = "pf" /\ ~isVariable(a) THEN Emit(n, "FMOV", r, Address(pool(a[2]), 0))
            ELSE Emit_(n, MoveOf(k), r, a), r)

push(c, a) == emplace_back_low(c, I1("PUSH", a))
push_through(c, op, a) == push(Emit(get_new_reg(c, "pr"), op, fresh(c, "pr"), a), fresh(c, "pr"))

(* A byte goes through the register d, which has a name for its lowest     *)
(* byte: from memory to the register r, and from r to memory.              *)
d_register_of(c) == fresh_bound(c, "pr", d_register)
write_8_bit(c, r, a) ==
  LET d == d_register_of(c)
  IN  using(Emit(EmitByte(get_bound_reg(c, "pr"), d, a), "MOV", r, d), d)
write_8_bit_to(c, r, a) ==
  LET d == d_register_of(c)
  IN  using(EmitByte(Emit(get_bound_reg(c, "pr"), "MOV", d, r), a, d), d)

(* A char has one byte of the stack: a parameter that is one, and a value  *)
(* that is one.                                                            *)
room(c) == Emit(c, "SUB", SP, int(1))
push_char(c, a) ==
  LET load(d) == write_8_bit_to(d, d.regs[a[2]], Address(SP, 0))
  IN  IF isVariable(a) THEN load(loaded(room(c), a)) ELSE EmitByte(room(c), Address(SP, 0), a)
push_char_variable(c, r) ==
  LET d == d_register_of(c)
  IN  using(EmitByte(room(Emit(get_bound_reg(c, "pr"), "MOV", d, r)), Address(SP, 0), d), d)

push_variable(c, x) ==
  LET p == position_of(c.f, x)
      push_value(d) == IF x.type = "float" THEN push_through(d, "MOV", d.regs[x])
                       ELSE IF x.type = "char" THEN push_char_variable(d, d.regs[x])
                       ELSE push(d, d.regs[x])
  IN  IF ~IsArray(x) THEN push_value(get_pseudo_reg(c, x))
      ELSE CASE p[1] = "global" -> push_through(c, "MOV", label(x))
             [] p[1] = "stack" -> push_through(c, "LEA", stack_address(p[2]))
             [] p[1] = "parameter" -> push(c, stack_address(p[2]))

compile_param(P, c, q, allocation) ==
      IF register_allocated(P, q, allocation)
      THEN pass_in_register(c, q.a1, register_of(P, q), ClassOf(q.res.type))
      ELSE IF q.res.type = "char" THEN push_char(c, q.a1)
      ELSE IF isVariable(q.a1) THEN push_variable(c, q.a1[2])
      ELSE IF isFloat(q.a1) \/ (q.res.type = "float" /\ q.a1 = int(0))
      THEN push(c, Address(pool(q.a1[2]), 0))
      ELSE push(c, q.a1)

compile_PARAM(P, c, q, allocation) ==
  compile_param(P, common_param(P, c, q, allocation), q, allocation)

compile_PPARAM(P, c, q, allocation) ==
  LET pre == common_param(P, c, q, allocation)
      pointer(d) == <<d, d.regs[q.a1[2]]>>
      pass(a, r) == using(Emit(get_bound_reg(a[1], "pr"), "MOV", r, a[2]), r)
      give(a) == IF register_allocated(P, q, allocation)
                 THEN pass(a, fresh_bound(a[1], "pr", register_of(P, q))) ELSE push(a[1], a[2])
  IN  IF ~isVariable(q.a1) THEN push(pre, q.a1)
      ELSE give(IF byPointer(q.a1[2]) THEN pointer(get_pseudo_reg(pre, q.a1[2]))
                ELSE get_address_in_pseudo_reg(pre, q.a1[2], 0))

(* The values of a CALL come in the return registers.                      *)
compile_CALL(P, c, q, allocation) ==
  LET pre == IF c.first_param THEN emplace_back_low(c, I0("PRE_PARAM")) ELSE c
      k1 == Class(q.res)
      r1 == fresh_bound(pre, k1,
              IF k1 = "pf" THEN float_return_register ELSE int_return_register1)
      c1 == IF q.res = NoVariable THEN pre ELSE get_bound_reg(pre, k1)
      r2 == fresh_bound(c1, "pr", int_return_register2)
      c2 == IF q.sec = NoVariable THEN c1 ELSE get_bound_reg(c1, "pr")
      kills == (IF q.res = NoVariable THEN {} ELSE {r1})
                 \union (IF q.sec = NoVariable THEN {} ELSE {r2})
      called == emplace_back_low([c2 EXCEPT !.first_param = TRUE, !.uses = {}],
                  [I0("CALL") EXCEPT !.fn = q.fn, !.uses = c.uses, !.kills = kills])
      popped == Emit(called, "ADD", SP, int(Aligned(function_stack_size(P, q.fn, allocation))))
      result(d, x, r) ==
        LET e == get_pseudo_reg_no_move(d, x)
        IN  IF x = NoVariable THEN d ELSE set_written(Emit(e, MoveOf(r[1]), e.regs[x], r), x)
  IN  result(result(popped, q.res, r1), q.sec, r2)

-----------------------------------------------------------------------------
(* Assignments.                                                            *)

(* A variable whose address is taken is written to memory at once, and     *)
(* read from there the next time.                                          *)
written_through(c, x, r) ==
  LET d == set_written(c, x)
  IN  IF ~is_escaped(c, x) THEN d
      ELSE IF position_of(c.f, x)[1] \in {"stack", "global"}
      THEN remove_from_reg(Emit(d, MoveOf(Class(x)), Home(c, x, 0), r), x)
      ELSE [d EXCEPT !.error = TRUE]

compile_ASSIGN(c, q) ==
  LET d == get_pseudo_reg_no_move(c, q.res)
  IN  written_through(copy(d, q.a1, d.regs[q.res]), q.res, d.regs[q.res])
compile_FASSIGN(c, q) == compile_ASSIGN(c, q)
compile_PASSIGN(c, q) ==
  LET d == get_pseudo_reg_no_move(c, q.res)
      put(a) == written_through(EmitFrom(a, "MOV", d.regs[q.res]), q.res, a[2])
  IN  IF isVariable(q.a1) /\ ~byPointer(q.a1[2])
      THEN put(get_address_in_pseudo_reg(d, q.a1[2], 0))
      ELSE compile_ASSIGN(c, q)

-----------------------------------------------------------------------------
(* Arithmetic.  onto: the result is the first operand and stays in its     *)
(* register; into: the result gets a register without its old value.       *)

in_place(c, op, x, a) == Emit_(c, op, c.regs[x], a)
onto(c, op, x, a) == in_place(get_pseudo_reg(c, x), op, x, a)
into(c, x) == get_pseudo_reg_no_move(c, x)

(* Two operands, neither of them the result: LEA adds.                     *)
sum_of(c, i, k) ==
  IF isVariable(i) /\ isVariable(k) THEN <<"LEA", Indexed(c.regs[i[2]], c.regs[k[2]], 0)>>
  ELSE IF isVariable(i) THEN <<"LEA", Address(c.regs[i[2]], k[2])>>
  ELSE IF isVariable(k) THEN <<"LEA", Address(c.regs[k[2]], i[2])>>
  ELSE <<"MOV", int(i[2] + k[2])>>
lea(c, q) ==
  LET put(d, s) == Emit(d, s[1], d.regs[q.res], s[2])
      put_sum(d) == put(d, sum_of(d, q.a1, q.a2))
  IN  put_sum(loaded(loaded(into(c, q.res), q.a1), q.a2))

compile_ADD(c, q) ==
  set_written(IF is(q.a1, q.res) THEN onto(c, "ADD", q.res, q.a2)
              ELSE IF is(q.a2, q.res) THEN onto(c, "ADD", q.res, q.a2)
              ELSE lea(c, q), q.res)

compile_SUB(c, q) ==
  LET difference(d) ==
        Emit_(Emit_(d, "MOV", d.regs[q.res], q.a1), "SUB", d.regs[q.res], q.a2)
  IN  set_written(IF is(q.a1, q.res) THEN onto(c, "SUB", q.res, q.a2)
                  ELSE difference(into(c, q.res)), q.res)

compile_MUL(c, q) ==
  LET d == into(c, q.res)
      r == d.regs[q.res]
      mul3(a, k) == LET e == with(d, a) IN emplace_back_low(e, Instruction("MUL3", r, to_arg(e, a), k))
  IN  set_written(IF is(q.a1, q.res) THEN onto(c, "MUL2", q.res, q.a2)
                  ELSE IF is(q.a2, q.res) THEN onto(c, "MUL2", q.res, q.a1)
                  ELSE IF isInt(q.a2) THEN mul3(q.a1, q.a2)
                  ELSE IF isInt(q.a1) THEN mul3(q.a2, q.a1)
                  ELSE Emit_(copy(d, q.a1, r), "MUL2", r, q.a2), q.res)

(* The dividend goes to a, its sign to d; the instruction says so.         *)
perform_div(c, q) ==
  LET a == fresh_bound(c, "pr", a_register)
      ca == get_bound_reg(c, "pr")
      d == fresh_bound(ca, "pr", d_register)
      ready == Emit(Emit(copy(get_bound_reg(ca, "pr"), q.a1, a), "MOV", d, a),
                    "SHIFT_RIGHT", d, int(31))
      n == IF isInt(q.a2) THEN move(get_new_reg(ready, "pr"), q.a2, fresh(ready, "pr"))
           ELSE with(ready, q.a2)
      by == IF isInt(q.a2) THEN fresh(ready, "pr") ELSE to_arg(n, q.a2)
  IN  set_written(emplace_back_low(n, [I1("DIV", by) EXCEPT !.uses = {a, d}]), q.res)

quotient(c, q, hard) ==
  LET d == into(perform_div(c, q), q.res)
  IN  Emit(get_bound_reg(d, "pr"), "MOV", d.regs[q.res], fresh_bound(d, "pr", hard))

PowersOfTwo == {2 ^ k : k \in 0 .. 30}
powerOfTwo(n) == CHOOSE k \in 0 .. 30 : 2 ^ k = n
compile_DIV(c, q) ==
  LET d == get_pseudo_reg(c, q.res)
  IN  IF is(q.a1, q.res) /\ isInt(q.a2) /\ q.a2[2] \in PowersOfTwo
      THEN set_written(Emit(d, "SHIFT_RIGHT", d.regs[q.res], int(powerOfTwo(q.a2[2]))), q.res)
      ELSE quotient(c, q, a_register)
compile_MOD(c, q) == quotient(c, q, d_register)

(* x = x op y, and for a sum or a product x = y op x, are done in place.   *)
compile_float(c, q) ==
  LET d == IF is(q.a1, q.res) \/ (q.op \in {"FADD", "FMUL"} /\ is(q.a2, q.res))
           THEN get_pseudo_reg(c, q.res)
           ELSE LET e == into(c, q.res) IN copy(e, q.a1, e.regs[q.res])
      other == IF q.op = "FADD" /\ is(q.a2, q.res) /\ ~is(q.a1, q.res) THEN q.a1 ELSE q.a2
      r == d.regs[q.res]
      const == fresh(d, "pf")
  IN  set_written(IF isFloat(other)
                  THEN Emit(copy(get_new_reg(d, "pf"), other, const), q.op, r, const)
                  ELSE Emit_(d, q.op, r, other), q.res)

compile_MINUS(c, q) ==
  LET x == q.a1[2]
      s == get_pseudo_reg(c, x)
      d == get_pseudo_reg(into(c, q.res), x)
      neg(e) == emplace_back_low(e, I1("NEG", e.regs[q.res]))
  IN  set_written(IF q.res = x THEN neg(s) ELSE neg(Emit(d, "MOV", d.regs[q.res], d.regs[x])), q.res)

compile_FMINUS(c, q) ==
  LET x == q.a1[2]
      v == get_pseudo_reg(c, x)
      one == fresh(v, "pf")
      m == copy(get_new_reg(v, "pf"), float(-1), one)
      d == into(m, q.res)
  IN  set_written(IF q.res = x THEN Emit(m, "FMUL", m.regs[x], one)
                  ELSE Emit(Emit(d, "FMOV", d.regs[q.res], d.regs[x]), "FMUL", d.regs[q.res], one),
                  q.res)

compile_conversion(c, q) ==
  LET d == into(get_pseudo_reg(c, q.a1[2]), q.res)
  IN  set_written(Emit(d, q.op, d.regs[q.res], d.regs[q.a1[2]]), q.res)

compile_NOT(c, q) ==
  LET d == into(c, q.res)
      v == copy(d, q.a1, d.regs[q.res])
  IN  emplace_back_low(v, I1("NOT", d.regs[q.res]))
compile_AND(c, q) ==
  LET d == into(c, q.res) IN Emit(copy(d, q.a1, d.regs[q.res]), "AND", d.regs[q.res], q.a2)

-----------------------------------------------------------------------------
(* Comparisons: as a value, 0 and then 1 by a conditional move; as a jump, *)
(* after the end of the block.                                             *)

CmovOf == [EQUALS |-> "CMOVE", NOT_EQUALS |-> "CMOVNE", GREATER |-> "CMOVG",
           GREATER_EQUALS |-> "CMOVGE", LESS |-> "CMOVL", LESS_EQUALS |-> "CMOVLE",
           FE |-> "CMOVE", FNE |-> "CMOVNE", FG |-> "CMOVA", FGE |-> "CMOVAE",
           FLE |-> "CMOVBE", FL |-> "CMOVB"]
JumpOf == [EQUALS |-> "E", NOT_EQUALS |-> "NE", GREATER |-> "G", GREATER_EQUALS |-> "GE",
           LESS |-> "L", LESS_EQUALS |-> "LE", FE |-> "E", FNE |-> "NE", FG |-> "A",
           FGE |-> "AE", FLE |-> "BE", FL |-> "B", UNARY |-> "NZ"]
OppositeOf == [EQUALS |-> "NE", NOT_EQUALS |-> "E", GREATER |-> "LE", GREATER_EQUALS |-> "L",
               LESS |-> "GE", LESS_EQUALS |-> "G", FE |-> "NE", FNE |-> "E", FG |-> "BE",
               FGE |-> "B", FLE |-> "A", FL |-> "AE", UNARY |-> "Z"]

set_if_cc(c, q) ==
  LET cmp == IF q.op \in FloatRelations THEN "CMP_FLOAT" ELSE "CMP_INT"
      d == into(c, q.res)
      zero == Emit(d, "MOV", d.regs[q.res], int(0))
      k == IF isInt(q.a1) THEN "pr" ELSE "pf"
      r == fresh(zero, k)
      constant(a) == copy(get_new_reg(zero, k), a, r)
      left == with(zero, q.a1)
      compared ==
        IF isInt(q.a1) \/ isFloat(q.a1) THEN Emit_(constant(q.a1), cmp, r, q.a2)
        ELSE IF isFloat(q.a2) THEN LET e == with(constant(q.a2), q.a1) IN Emit(e, cmp, to_arg(e, q.a1), r)
        ELSE Emit_(left, cmp, to_arg(left, q.a1), q.a2)
      one == fresh(compared, "pr")
  IN  set_written(Emit(Emit(get_new_reg(compared, "pr"), "MOV", one, int(1)),
                       CmovOf[q.op], d.regs[q.res], one), q.res)

compare_binary(c, a1, a2) ==
  LET r == fresh(c, "pr")
      d == loaded(Emit(get_new_reg(c, "pr"), "MOV", r, a1), a2)
      l == loaded(c, a1)
      e == with(l, a2)
  IN  IF isInt(a1) THEN Emit(end_bb(d), "CMP_INT", r, to_arg(d, a2))
      ELSE Emit(end_bb(e), "CMP_INT", l.regs[a1[2]], to_arg(e, a2))

compare_float_binary(c, a1, a2) ==
  LET l == loaded(c, a1)
      b == loaded(l, a2)
      rl == fresh(l, "pf")
      rc == fresh(c, "pf")
      right_ == loaded(get_new_reg(c, "pf"), a2)
  IN  IF isVariable(a1) /\ isVariable(a2)
      THEN Emit(end_bb(b), "CMP_FLOAT", b.regs[a1[2]], b.regs[a2[2]])
      ELSE IF isVariable(a1)
      THEN Emit(end_bb(copy(get_new_reg(l, "pf"), a2, rl)), "CMP_FLOAT", l.regs[a1[2]], rl)
      ELSE Emit(end_bb(copy(right_, a1, rc)), "CMP_FLOAT", rc, right_.regs[a2[2]])

compare_unary(c, a) ==
  LET r == fresh(c, "pr")
      d == Emit(get_new_reg(c, "pr"), "MOV", r, a)
      e == loaded(c, a)
  IN  IF isInt(a) THEN Emit(end_bb(d), "OR", r, r)
      ELSE Emit(end_bb(e), "OR", e.regs[a[2]], e.regs[a[2]])

compile_IF(c, q) ==
  LET compared == IF q.rel = "UNARY" THEN compare_unary(c, q.a1)
                  ELSE IF q.rel \in FloatRelations THEN compare_float_binary(c, q.a1, q.a2)
                  ELSE compare_binary(c, q.a1, q.a2)
      jump == Jumping(IF q.op = "IF" THEN JumpOf[q.rel] ELSE OppositeOf[q.rel], q.to)
      jumped == emplace_back_low(compared, jump)
  IN  IF q.rel \in FloatRelations THEN emplace_back_low(jumped, Jumping("P", q.to)) ELSE jumped

compile_GOTO(c, q) == emplace_back_low(end_bb(c), Jumping("ALWAYS", q.to))

compile_RETURN(c, q) ==
  LET f == fresh_bound(c, "pf", float_return_register)
      x == q.a1[2]
      v == get_pseudo_reg(c, x)
      fv == fresh_bound(v, "pf", float_return_register)
      r1 == fresh_bound(c, "pr", int_return_register1)
      one == Emit_(get_bound_reg(c, "pr"), "MOV", r1, q.a1)
      r2 == fresh_bound(one, "pr", int_return_register2)
      two == Emit_(get_bound_reg(one, "pr"), "MOV", r2, q.a2)
      leave(d, uses) == emplace_back_low(end_bb_no_spill(d), [I0("PRE_RET") EXCEPT !.uses = uses])
  IN  IF q.a1 = None THEN leave(c, {})
      ELSE IF isFloat(q.a1) THEN leave(move(get_bound_reg(c, "pf"), q.a1, f), {f})
      ELSE IF isVariable(q.a1) /\ Class(x) = "pf"
      THEN leave(Emit(get_bound_reg(v, "pf"), "FMOV", fv, v.regs[x]), {fv})
      ELSE IF q.a2 = None THEN leave(one, {r1}) ELSE leave(two, {r1, r2})

-----------------------------------------------------------------------------
(* Members and what pointers point to.                                     *)

(* What a pointer points to comes to an int register, a float also: the    *)
(* registers of floats are not told.                                       *)
through_pointer(c, q) == byPointer(q.a1[2]) /\ Class(q.res) = "pf"
put_dot(c, r, q) ==
  LET a == address(c, q.a1[2], q.a2)
  IN  IF q.res.type = "char" THEN write_8_bit(a[1], r, a[2]) ELSE EmitFrom(a, MoveOf(r[1]), r)
compile_DOT(c, q) ==
  LET d == into(c, q.res)
  IN  set_written(IF through_pointer(c, q)
                  THEN put_dot(noticed(get_new_reg(c, "pr"), q.res), fresh(c, "pr"), q)
                  ELSE put_dot(d, d.regs[q.res], q), q.res)
compile_FDOT(c, q) ==
  LET d == into(c, q.res)
  IN  set_written(IF isInt(q.a2) THEN EmitFrom(address(d, q.a1[2], q.a2), "FMOV", d.regs[q.res])
                  ELSE [d EXCEPT !.error = TRUE], q.res)

compile_PDOT(c, q) ==
  LET d == into(c, q.res)
      x == q.a1[2]
      r == d.regs[q.res]
      p == get_pseudo_reg(d, x)
      po == loaded(p, q.a2)
      o == loaded(d, q.a2)
      a == IF isInt(q.a2) THEN get_address_in_pseudo_reg(d, x, q.a2[2])
           ELSE get_address_in_pseudo_reg2(o, x, o.regs[q.a2[2]])
  IN  set_written(IF byPointer(x)
                  THEN Emit(po, "LEA", r, IF isInt(q.a2) THEN Address(p.regs[x], q.a2[2])
                                          ELSE Indexed(p.regs[x], po.regs[q.a2[2]], 0))
                  ELSE Emit(a[1], "MOV", r, a[2]), q.res)

compile_DOT_ASSIGN(c, q) ==
  LET a == address(c, q.res, q.a1)
      d == loaded(c, q.a2)
      b == address(d, q.res, q.a1)
  IN  IF isChar(q.a2) THEN write_8_bit_to(b[1], d.regs[q.a2[2]], b[2])
      ELSE Emit_(a[1], "MOV", a[2], q.a2)
compile_DOT_FASSIGN(c, q) ==
  LET r == fresh(c, "pf")
      a == address(copy(get_new_reg(c, "pf"), q.a2, r), q.res, q.a1)
  IN  Emit(a[1], "FMOV", a[2], r)
compile_DOT_PASSIGN(c, q) ==
  LET r == get_address_in_pseudo_reg(c, q.a2[2], 0)
      a == address(r[1], q.res, q.a1)
      n == address(c, q.res, q.a1)
  IN  IF isVariable(q.a2) THEN Emit(a[1], "MOV", a[2], r[2]) ELSE Emit(n[1], "MOV", n[2], q.a2)

-----------------------------------------------------------------------------
compile(P, c, q, allocation) ==
  CASE q.op = "ASSIGN" -> compile_ASSIGN(c, q)
    [] q.op = "PASSIGN" -> compile_PASSIGN(c, q)
    [] q.op = "FASSIGN" -> compile_FASSIGN(c, q)
    [] q.op = "ADD" -> compile_ADD(c, q)
    [] q.op = "SUB" -> compile_SUB(c, q)
    [] q.op = "MUL" -> compile_MUL(c, q)
    [] q.op = "DIV" -> compile_DIV(c, q)
    [] q.op = "MOD" -> compile_MOD(c, q)
    [] q.op \in FloatArithmetic -> compile_float(c, q)
    [] q.op \in Relations \union FloatRelations -> set_if_cc(c, q)
    [] q.op = "MINUS" -> compile_MINUS(c, q)
    [] q.op = "FMINUS" -> compile_FMINUS(c, q)
    [] q.op \in {"I2F", "F2I"} -> compile_conversion(c, q)
    [] q.op = "NOT" -> compile_NOT(c, q)
    [] q.op = "AND" -> compile_AND(c, q)
    [] q.op = "DOT" -> compile_DOT(c, q)
    [] q.op = "FDOT" -> compile_FDOT(c, q)
    [] q.op = "PDOT" -> compile_PDOT(c, q)
    [] q.op = "DOT_ASSIGN" -> compile_DOT_ASSIGN(c, q)
    [] q.op = "DOT_FASSIGN" -> compile_DOT_FASSIGN(c, q)
    [] q.op = "DOT_PASSIGN" -> compile_DOT_PASSIGN(c, q)
    [] q.op = "PARAM" -> compile_PARAM(P, c, q, allocation)
    [] q.op = "PPARAM" -> compile_PPARAM(P, c, q, allocation)
    [] q.op = "CALL" -> compile_CALL(P, c, q, allocation)
    [] q.op = "RETURN" -> compile_RETURN(c, q)
    [] q.op = "GOTO" -> compile_GOTO(c, q)
    [] q.op \in {"IF", "IF_FALSE"} -> compile_IF(c, q)
    [] q.op = "NOP" -> c

(* The parameters that came in registers are held by them.                 *)
collect_parameters(c) ==
  Folded(LAMBDA d, x :
             IF isParamRegister(d.f, x)
             THEN LET k == Class(x)
                      r == fresh_bound(d, k, param_registers(k)[position_of(d.f, x)[2]])
                  IN  setLocation(get_bound_reg(d, k), x, r)
             ELSE d,
           c, c.f.params)

computeBlockUsage(f) == {At(f, p).to : p \in {p \in Places(f) : is_jump(At(f, p))}}

(* All blocks of a function, statement by statement; an assertion that     *)
(* fails ends the compilation.                                             *)
enter_bb(c, b) ==
  LET e == [c EXCEPT !.bb = b, !.ended = FALSE]
  IN  IF b \in computeBlockUsage(c.f) THEN emplace_back_low(e, Jumping("LABEL", b)) ELSE e
compile_statement(P, c, b, i, allocation) ==
  LET q == c.f.code[b][i]
      start == IF i = 1 THEN enter_bb(c, b) ELSE c
  IN  IF i > Len(c.f.code[b]) THEN end_bb(start) ELSE compile(P, start, q, allocation)

RECURSIVE Compiled(_, _, _, _)
Compiled(P, c, places, allocation) ==
  IF c.error \/ places = <<>> THEN c
  ELSE Compiled(P, compile_statement(P, c, Head(places)[1], Head(places)[2], allocation),
                Tail(places), allocation)

compile_function(P, f, allocation) ==
  LET start == [f |-> f, escaped |-> escape_analysis(f), code |-> [b \in Blocks(f) |-> <<>>],
                bb |-> ENTRY, regs |-> << >>, local |-> {}, written |-> {},
                next |-> [pr |-> 0, pf |-> 0], uses |-> {}, first_param |-> TRUE,
                ended |-> FALSE, error |-> FALSE]
      places == Each(f.list, LAMBDA b : [i \in 1 .. Len(f.code[b]) + 1 |-> <<b, i>>])
      done == Compiled(P, collect_parameters(start), places, allocation)
  IN  [low |-> done.code, last |-> done.next, failed |-> done.error] @@ f

(* Moves of a register to itself go.                                       *)
pre_alloc_cleanup(f) ==
  LET useless(i) == i.op \in {"MOV", "FMOV"} /\ isPseudo(i.a1) /\ i.a1 = i.a2
  IN  [f EXCEPT !.low = [b \in Blocks(f) |-> SelectSeq(@[b], LAMBDA i : ~useless(i))]]
=============================================================================
