------------------------------- MODULE Frames -------------------------------
(***************************************************************************)
(* The frame of a function: where its parameters and aggregates live, the  *)
(* zeroes they start with, the registers that are saved around it and      *)
(* around its calls, and the offsets once there is no frame pointer.       *)
(***************************************************************************)
EXTENDS Assembly

(* Parameters follow the return address, and the saved frame pointer.      *)
ParameterBytes(x) == IF x.type = "array" THEN Word ELSE size_of(x.type)
place_parameters(f, omit_fp) ==
  LET first == IF omit_fp THEN Word ELSE 2 * Word
      before(i) == FoldSet(LAMBDA j, n : n + ParameterBytes(f.params[j]), 0, 1 .. i - 1)
  IN  [x \in ToSet(f.params) |->
         LET i == CHOOSE i \in DOMAIN f.params : f.params[i] = x
         IN  <<"parameter", first + before(i)>>]

(* A parameter that moves to a register leaves its place to the next one,  *)
(* and so on.                                                              *)
register_param_allocation(f) ==
  LET s == f.params
      allocate(place, i) ==
        IF ~allocated_in_register(s, i) THEN place
        ELSE [x \in DOMAIN place |->
                LET j == CHOOSE j \in DOMAIN s : s[j] = x
                IN  IF j = i THEN <<"param_register", parameter_position_by_type(s, i)>>
                    ELSE IF j > i THEN place[s[j - 1]] ELSE place[x]]
  IN  [f EXCEPT !.place = Folded(allocate, @, [i \in DOMAIN s |-> i])]

(* Strings, structures, arrays and the variables whose address is taken    *)
(* live on the stack.                                                      *)
allocate_aggregates(f) ==
  LET escaped == escape_analysis(f)
      stored(x) == x.type \in {"string", "struct", "array"} \/ x \in escaped
      allocate(g, x) ==
        IF stored(x)
        THEN [g EXCEPT !.stack = @ - size_of(x.type),
                       !.place = (x :> <<"stack", g.stack - size_of(x.type) + Word>>) @@ @]
        ELSE g
  IN  Folded(allocate, [f EXCEPT !.stack = -Word], f.storage)
context_size(f) == IF f.stack = -Word THEN 0 ELSE -f.stack

-----------------------------------------------------------------------------
(* Arrays and structures start with zeroes.  Ranges are <<first, bytes>>;  *)
(* those that follow each other become one.                                *)

Ranges(f) ==
  {<<f.place[x][2] + (IF x.type = "array" THEN Word ELSE 0),
     size_of(x.type) - (IF x.type = "array" THEN Word ELSE 0)>> :
     x \in {x \in DOMAIN f.place : onStack(f, x) /\ x.type \in {"array", "struct"}}}
optimize_ranges(ranges) ==
  LET sorted == Sorted(ranges, LAMBDA r : r[1])
      add(s, r) == IF s # <<>> /\ r[1] = Last(s)[1] + Last(s)[2]
                   THEN Append(Front(s), <<Last(s)[1], Last(s)[2] + r[2]>>)
                   ELSE Append(s, r)
  IN  Folded(add, <<>>, sorted)

(* Eight words and more are cleared four at a time.                        *)
clear(f, range) ==
  LET words == range[2] \div Word
      r == Pseudo("pf", f.last["pf"])
      at(i) == stack_address(range[1] + i * Word)
      zero(i) == I2("MOV", at(i - 1), int(0))
      normal == words % 4
      wide == [i \in 1 .. (words - normal) \div 4 |-> I2("MOVDQU", at((i - 1) * 4 + normal), r)]
  IN  IF words < 8
      THEN [f EXCEPT !.low[ENTRY] = @ \o [i \in 1 .. words |-> zero(i)]]
      ELSE [f EXCEPT !.last["pf"] = @ + 1,
                     !.low[ENTRY] = @ \o <<I2("XORPS", r, r)>>
                                      \o [i \in 1 .. normal |-> zero(i)] \o wide]

alloc_stack_space(f) ==
  LET lengths == SequenceOf({x \in DOMAIN f.place : onStack(f, x) /\ x.type = "array"})
      set(x) == I2("MOV", stack_address(f.place[x][2]), Initially(x, 0))
      cleared == Folded(clear, f, optimize_ranges(Ranges(f)))
  IN  [cleared EXCEPT !.low[ENTRY] = @ \o [i \in DOMAIN lengths |-> set(lengths[i])]]

-----------------------------------------------------------------------------
(* Prologue and epilogue.                                                  *)

(* The registers in the order of their sets: the highest first.            *)
InOrder(regs, k) == Sorted({r \in regs : r[1] = k}, LAMBDA r : -r[2])
Reversed(s) == [i \in DOMAIN s |-> s[Len(s) - i + 1]]

callee_save(P, fn, r, allocation) ==
  LET ret == P[fn].ret
      returned == CASE ret \in {"int", "char", "pointer"} -> {Hard("pr", int_return_register1)}
                    [] ret = "string" -> {Hard("pr", int_return_register1),
                                          Hard("pr", int_return_register2)}
                    [] ret = "float" -> {Hard("pf", float_return_register)}
                    [] OTHER -> {}
  IN  r \notin returned \union parameter_registers(P, fn, allocation)

PushFloat(r) == <<I2("SUB", SP, int(Word)), I2("FMOV", Address(SP, 0), r)>>
PopFloat(r) == <<I2("FMOV", r, Address(SP, 0)), I2("ADD", SP, int(Word))>>
PushAll(regs) ==
  Each(InOrder(regs, "hr"), LAMBDA r : <<I1("PUSH", r)>>) \o Each(InOrder(regs, "hf"), PushFloat)
PopAll(regs) ==
  Each(Reversed(InOrder(regs, "hf")), PopFloat)
    \o Each(Reversed(InOrder(regs, "hr")), LAMBDA r : <<I1("POP", r)>>)

callee_saved(P, fn, allocation) ==
  IF fn = "main" THEN {} ELSE {r \in P[fn].used : callee_save(P, fn, r, allocation)}

enter(P, fn, allocation, omit_fp) ==
  (IF omit_fp THEN <<>> ELSE <<I0("ENTER")>>)
    \o <<I2("SUB", SP, int(Aligned(context_size(P[fn]))))>>
    \o PushAll(callee_saved(P, fn, allocation))
leave(P, fn, allocation, omit_fp) ==
  PopAll(callee_saved(P, fn, allocation))
    \o <<I2("ADD", SP, int(Aligned(context_size(P[fn]))))>>
    \o (IF omit_fp THEN <<>> ELSE <<I0("LEAVE")>>)

(* Registers that the call's own parameters use, and that hold variables   *)
(* or parameters of this function, are saved before the parameters of the  *)
(* call, which PRE_PARAM announces, and restored after they are popped.    *)
caller_saved(P, fn, target, allocation) ==
  LET inParams == parameter_registers(P, target, allocation)
      held == P[fn].variable_used \union parameter_registers(P, fn, allocation)
  IN  P[fn].used \intersect inParams \intersect held

Within(b, code) == [k \in DOMAIN code |-> [b |-> b, i |-> code[k]]]

caller_cleanup(P, fn, allocation, flat, n) ==
  LET calls == {k \in DOMAIN flat : flat[k].i.op = "CALL"}
      at == CHOOSE k \in calls : Cardinality({j \in calls : j < k}) = n - 1
      pre == CHOOSE k \in 1 .. at : /\ flat[k].i.op = "PRE_PARAM"
                                    /\ \A j \in k + 1 .. at : flat[j].i.op # "PRE_PARAM"
      popped == at + 1 <= Len(flat) /\ flat[at + 1].i.op = "ADD" /\ flat[at + 1].i.a1 = SP
      after == IF popped THEN at + 1 ELSE at
      saved == caller_saved(P, fn, flat[at].i.fn, allocation)
  IN  SubSeq(flat, 1, pre - 1) \o Within(flat[pre].b, PushAll(saved))
        \o <<[flat[pre] EXCEPT !.i = nop(@)]>> \o SubSeq(flat, pre + 1, after)
        \o Within(flat[at].b, PopAll(saved)) \o SubSeq(flat, after + 1, Len(flat))

generate_prologue_epilogue(P, fn, allocation, omit_fp) ==
  LET f == P[fn]
      out == leave(P, fn, allocation, omit_fp)
      returns(code) == Each(code, LAMBDA i : IF i.op = "PRE_RET"
                                             THEN out \o <<[i EXCEPT !.op = "RET"]>> ELSE <<i>>)
      wrapped(b) == (IF b = ENTRY THEN enter(P, fn, allocation, omit_fp) ELSE <<>>)
                      \o returns(f.low[b])
                      \o (IF b = EXIT THEN out \o <<I0("RET")>> ELSE <<>>)
      g == [f EXCEPT !.low = [b \in Blocks(f) |-> wrapped(b)]]
      calls == Cardinality({k \in DOMAIN Flat(g) : Flat(g)[k].i.op = "CALL"})
      cleanup(flat, n) == caller_cleanup(P, fn, allocation, flat, n)
  IN  Unflat(f, Folded(cleanup, Flat(g), [n \in 1 .. calls |-> n]))

-----------------------------------------------------------------------------
(* Without a frame pointer, addresses are relative to the stack pointer,   *)
(* which is followed through the code as it is laid out; the offset at a   *)
(* conditional jump is that of its label, once.                            *)

change_address(arg, offset) ==
  IF isAddress(arg) /\ arg[2] = BP THEN Indexed(SP, arg[3], arg[4] + offset) ELSE arg
moved_by(i) ==
  CASE i.a1 = SP /\ i.op = "ADD" -> -i.a2[2]
    [] i.a1 = SP /\ i.op = "SUB" -> i.a2[2]
    [] i.op = "PUSH" -> Word
    [] i.op = "POP" -> -Word
    [] OTHER -> 0

fix_stack_offsets(f) ==
  LET fix(s, e) ==
        LET i == e.i
            done == [s EXCEPT !.code = Append(@, [e EXCEPT !.i =
                       OnArguments(i, LAMBDA arg : change_address(arg, s.offset))])]
        IN  IF is_label(i)
            THEN IF i.to \in DOMAIN s.labels
                 THEN [done EXCEPT !.offset = s.labels[i.to],
                                   !.labels = [l \in DOMAIN @ \ {i.to} |-> @[l]]]
                 ELSE done
            ELSE IF is_jumping(i)
            THEN IF i.op \in {"CALL", "ALWAYS"} THEN done
                 ELSE [done EXCEPT !.labels = (i.to :> s.offset) @@ @]
            ELSE [done EXCEPT !.offset = s.offset + moved_by(i)]
  IN  Unflat(f, Folded(fix, [code |-> <<>>, offset |-> 0, labels |-> << >>], Flat(f)).code)
=============================================================================
