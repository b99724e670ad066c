------------------------------ MODULE Peephole ------------------------------
(***************************************************************************)
(* The peephole optimizer: rewriting of one instruction and of two in a    *)
(* row, propagation of constants and copies in blocks, elimination of dead *)
(* instructions and conditional moves.  A round does all five.  Every pass *)
(* gives the function and whether it says to have changed it.              *)
(***************************************************************************)
EXTENDS RegisterAllocation

is_reg(a) == isIntRegister(a)
isLabel(a) == a[1] = "label"
sameReg(a, b) == is_reg(a) /\ a = b
AddressOnly(a) == isAddress(a) /\ isRegister(a[2])
Scaled(r, scale) == <<"at", r, r, 0, scale>>

(* One instruction; nop gives what is not one any more.                    *)
Multiplications == [k \in {3, 5, 9} |-> k - 1]
optimize_statement(i) ==
  LET constant(n) == i.a2 = int(n)
      step(op) == [i EXCEPT !.op = op, !.a2 = NoArg]
      multiplied == i.op \in {"MUL2", "MUL3"} /\ is_reg(i.a1) /\ isInt(i.a2)
  IN  IF i.op \in {"ADD", "SUB"} /\ is_reg(i.a1) /\ constant(0) THEN nop(i)
      ELSE IF i.op = "MOV" /\ is_reg(i.a1) /\ constant(0) THEN [i EXCEPT !.op = "XOR", !.a2 = i.a1]
      ELSE IF i.op = "MOV" /\ sameReg(i.a1, i.a2) THEN nop(i)
      ELSE IF is_reg(i.a1) /\ <<i.op, i.a2>> \in {<<"ADD", int(1)>>, <<"SUB", int(-1)>>}
      THEN step("INC")
      ELSE IF is_reg(i.a1) /\ <<i.op, i.a2>> \in {<<"ADD", int(-1)>>, <<"SUB", int(1)>>}
      THEN step("DEC")
      ELSE IF multiplied /\ \E k \in 0 .. 30 : i.a2[2] = 2 ^ k
      THEN [i EXCEPT !.op = "SHIFT_LEFT", !.a2 = int(CHOOSE k \in 0 .. 30 : i.a2[2] = 2 ^ k)]
      ELSE IF multiplied /\ i.a2[2] \in DOMAIN Multiplications
      THEN [i EXCEPT !.op = "LEA", !.a2 = Scaled(i.a1, Multiplications[i.a2[2]])]
      ELSE IF i.op = "CMP_INT" /\ is_reg(i.a1) /\ constant(0) THEN [i EXCEPT !.op = "OR", !.a2 = i.a1]
      ELSE IF i.op = "LEA" /\ AddressOnly(i.a2) /\ i.a2[3] = NoArg /\ i.a2[4] = 0
      THEN [i EXCEPT !.op = "MOV", !.a2 = i.a2[2]]
      ELSE i

(* Two in a row.                                                           *)
multiple_statement_optimizations(i, j) ==
  LET ops == <<i.op, j.op>>
      same == sameReg(i.a1, j.a1)
      constants == isInt(i.a2) /\ isInt(j.a2)
      crossed == i.a1 = j.a2 /\ i.a2 = j.a1 /\ (is_reg(i.a1) \/ is_reg(i.a2))
      sum == [j EXCEPT !.op = "LEA", !.a2 = Address(i.a2, j.a2[2])]
  IN  IF i.op = "RET" THEN <<i, nop(j)>>
      ELSE IF ops = <<"LEAVE", "LEAVE">> THEN <<i, nop(j)>>
      ELSE IF ops \in {<<"ADD", "ADD">>, <<"SUB", "SUB">>} /\ same /\ constants
      THEN <<[i EXCEPT !.a2 = int(i.a2[2] + j.a2[2])], nop(j)>>
      ELSE IF ops = <<"MOV", "MOV">> /\ crossed THEN <<i, nop(j)>>
      ELSE IF ops = <<"MOV", "ADD">> /\ same /\ (is_reg(i.a2) \/ isLabel(i.a2)) /\ isInt(j.a2)
      THEN <<nop(i), sum>>
      ELSE IF ops = <<"POP", "PUSH">> /\ same
      THEN <<[i EXCEPT !.op = "MOV", !.a2 = Address(SP, 0)], nop(j)>>
      ELSE IF ops = <<"PUSH", "POP">> /\ same THEN <<nop(i), nop(j)>>
      ELSE <<i, j>>

(* A value on its way to a parameter, a result or the stack goes there     *)
(* directly; the first instruction may die later.                          *)
OnItsWay == {Hard("pr", r) : r \in ToSet(int_param_register) \union {int_return_register1, int_return_register2}}
multiple_statement_optimizations_second(i, j) ==
  LET apart == ~isAddress(i.a2) \/ i.a1 \notin RegistersIn(i.a2)
  IN  IF i.op # "MOV" \/ ~is_reg(i.a1) \/ ~apart THEN j
      ELSE IF j.op = "MOV" /\ i.size = "default" /\ j.a1 \in OnItsWay /\ j.a2 = i.a1
      THEN [j EXCEPT !.a2 = i.a2]
      ELSE IF j.op = "PUSH" /\ j.a1 = i.a1 /\ i.a2[1] # "hf" THEN [j EXCEPT !.a1 = i.a2]
      ELSE j

(* The pairs of a block; a first instruction that became nothing goes.     *)
RECURSIVE Pairs(_, _)
Pairs(code, n) ==
  LET one == [code EXCEPT ![n] = optimize_statement(@), ![n + 1] = optimize_statement(@)]
      two == multiple_statement_optimizations(one[n], one[n + 1])
      done == [code EXCEPT ![n] = two[1], ![n + 1] = two[2]]
  IN  IF n >= Len(code) THEN code
      ELSE IF two[1].op = "NOP" THEN Pairs(RemoveAt(done, n), n)
      ELSE Pairs(done, n + 1)
Seconds(code) ==
  Folded(LAMBDA s, i : IF s = <<>> THEN <<i>>
                         ELSE Append(s, multiple_statement_optimizations_second(Last(s), i)),
           <<>>, code)
basic_optimizations(f) ==
  LET block(code) == IF Len(code) = 1 THEN <<optimize_statement(code[1])>> ELSE Seconds(Pairs(code, 1))
      g == [f EXCEPT !.low = Evaluated([b \in Blocks(f) |-> block(f.low[b])])]
  IN  <<g, g.low # f.low>>

-----------------------------------------------------------------------------
(* Constants and copies, in a block.  know: what the registers hold after  *)
(* an instruction; a MOV reads what is known of its operand, one of a byte *)
(* only if it is a constant.                                               *)

Forget(s, r) == [t \in {t \in DOMAIN s : t # r /\ s[t] # r} |-> s[t]]
know_constants(s, i) ==
  LET kept == IF is_reg(i.a1) THEN Forget(s, i.a1) ELSE s
  IN  IF i.op = "XOR" /\ sameReg(i.a1, i.a2) THEN (i.a1 :> int(0)) @@ kept
      ELSE IF i.op = "MOV" /\ is_reg(i.a1) /\ isInt(i.a2) THEN (i.a1 :> i.a2) @@ kept
      ELSE kept
know_copies(s, i) ==
  LET kept == IF is_reg(i.a1) THEN Forget(s, i.a1) ELSE s
      live == IF i.op = "DIV" THEN Forget(Forget(kept, Hard("pr", a_register)), Hard("pr", d_register))
              ELSE kept
  IN  IF i.op = "MOV" /\ is_reg(i.a1) /\ is_reg(i.a2) THEN (i.a1 :> i.a2) @@ live ELSE live

propagation(f, know(_, _), sizes) ==
  LET statement(s, i) ==
        LET t == know(s.known, i)
            known == i.op = "MOV" /\ i.size \in sizes /\ i.a2 \in DOMAIN t
        IN  [known |-> t, changed |-> s.changed \/ known,
             code |-> Append(s.code, IF known THEN [i EXCEPT !.a2 = t[@]] ELSE i)]
      block(s, b) ==
        LET t == Folded(statement, [known |-> << >>, changed |-> s[2], code |-> <<>>], f.low[b])
        IN  <<[s[1] EXCEPT !.low[b] = t.code], t.changed>>
  IN  Folded(block, <<f, FALSE>>, f.list)
constant_propagation(f) == propagation(f, know_constants, {"default", "byte"})
copy_propagation(f) == propagation(f, know_copies, {"default"})

(* What writes a register that is dead afterwards goes.                    *)
dead_code_elimination(f) ==
  LET live == live_after("hard", f)
      dead(p) == LET i == LowAt(f, p)
                 IN  /\ erase_result_low(i.op) /\ i.op # "OR"
                     /\ is_reg(i.a1) /\ i.a1 # SP
                     /\ p \in DOMAIN live /\ i.a1 \notin live[p]
      kept(s, e) == IF dead(e[1]) THEN s ELSE Append(s, e[2])
      left(b) == Folded(kept, <<>>, [k \in DOMAIN f.low[b] |-> <<<<b, k>>, f.low[b][k]>>])
      g == [f EXCEPT !.low = Evaluated([b \in Blocks(f) |-> left(b)])]
  IN  <<g, \E p \in LowPlaces(f) : dead(p)>>

-----------------------------------------------------------------------------
(* Two ways to give a register its value, around a jump, become a move and *)
(* a conditional move through a register that the function does not use.   *)

collect_register_usage(f) ==
  {Hard("pr", a_register), Hard("pr", d_register), SP, BP}
    \union {Hard("pr", r) : r \in ToSet(int_param_register)}
    \union (IF f.ret = "void" THEN {} ELSE {Hard("pr", int_return_register1)})
    \union (IF f.ret = "string" THEN {Hard("pr", int_return_register2)} ELSE {})
    \union UNION {Mentions(LowAt(f, p)) : p \in LowPlaces(f)}
free_registers(f) ==
  SelectSeq(symbolic_registers, LAMBDA r : Hard("pr", r) \notin collect_register_usage(f))

get_cmov_op == [NE |-> "CMOVNE", E |-> "CMOVE", GE |-> "CMOVGE", G |-> "CMOVG", LE |-> "CMOVLE",
                L |-> "CMOVL", B |-> "CMOVB", BE |-> "CMOVBE", A |-> "CMOVA", AE |-> "CMOVAE"]
Diamond(flat, n) ==
  /\ n + 6 <= Len(flat)
  /\ flat[n].i.op = "CMP_INT"
  /\ is_jumping(flat[n + 1].i) /\ flat[n + 2].i.op = "MOV" /\ is_jumping(flat[n + 3].i)
  /\ is_label(flat[n + 4].i) /\ flat[n + 5].i.op = "MOV" /\ is_label(flat[n + 6].i)
  /\ sameReg(flat[n + 2].i.a1, flat[n + 5].i.a1)

RECURSIVE Diamonds(_, _, _)
Diamonds(flat, n, free) ==
  LET put(k, i) == [flat[n + k] EXCEPT !.i = i]
      r == flat[n + 2].i.a1
      moved == <<put(1, flat[n + 2].i), put(2, I2("MOV", free, flat[n + 5].i.a2)),
                 put(3, I2(get_cmov_op[flat[n + 1].i.op], r, free)),
                 put(4, I0("NOP")), put(5, I0("NOP")), put(6, I0("NOP"))>>
  IN  IF n > Len(flat) THEN flat
      ELSE IF Diamond(flat, n)
      THEN Diamonds(SubSeq(flat, 1, n) \o moved \o SubSeq(flat, n + 7, Len(flat)), n + 7, free)
      ELSE Diamonds(flat, n + 1, free)
conditional_move(f) ==
  LET g == Unflat(f, Diamonds(Flat(f), 1, Hard("pr", Head(free_registers(f)))))
  IN  IF free_registers(f) = <<>> THEN <<f, FALSE>> ELSE <<g, g.low # f.low>>

(* A round, until one changes nothing.                                     *)
optimize_round(f) ==
  LET passes(s, pass(_)) == LET t == Evaluated(pass(s[1])) IN <<t[1], s[2] \/ t[2]>>
      basic == basic_optimizations(f)
      constants == passes(basic, constant_propagation)
      copies == passes(constants, copy_propagation)
      dead == passes(copies, dead_code_elimination)
  IN  passes(dead, conditional_move)
=============================================================================
