------------------------------ MODULE Lowering ------------------------------
(***************************************************************************)
(* From the tree of a function to its quadruples: the annotation with      *)
(* contexts (ast/ContextAnnotator.cpp), the rewriting of loops, switches   *)
(* and compound assignments (ast/TransformerEngine.cpp) and the            *)
(* compilation of what is left (mtac/Compiler.cpp).  The quadruples are    *)
(* then executed, and the calls they make compared with those that the     *)
(* tree calls for.                                                         *)
(*                                                                         *)
(* Values are integers; what a called function answers is not known.  Of   *)
(* the objects of a structure type only construction and destruction are   *)
(* kept: they are calls.  Temporaries and labels are numbers, given out    *)
(* from n on; a result [code, arg, n] carries the next one.                *)
(***************************************************************************)
EXTENDS Integers, Sequences, FiniteSets, SequencesExt

CONSTANTS
  Functions,   \* bodies of the functions to compile
  Ints,        \* the variables, and
  Answers(_),  \* what a function may answer when it is called
  MaxCalls     \* bound of the calls of an execution

VARIABLES
  function,  \* the tree
  code,      \* its quadruples
  at,        \* execution: the next quadruple
  store,     \* values of variables and temporaries
  params,    \* values of the PARAMs without a CALL so far
  trace      \* calls made: [to, args, answer]

vars == <<function, code, at, store, params, trace>>

-----------------------------------------------------------------------------
(* The tree.  A block is a record with the fields body and ctx, the        *)
(* objects of its context (empty before the annotation).                   *)

Const(c) == [k |-> "const", c |-> c]
Variable(x) == [k |-> "var", x |-> x]
Binary(op, l, r) == [k |-> op, l |-> l, r |-> r]
Call(f, args) == [k |-> "call", f |-> f, args |-> args]

Expression(v) == [k |-> "value", v |-> v]
Assign(x, v) == [k |-> "assign", x |-> x, v |-> v]
Block(ctx, body) == [ctx |-> ctx, body |-> body]
If(cond, ctx, body, elseIfs, else) ==
  [k |-> "if", cond |-> cond, ctx |-> ctx, body |-> body,
   elseIfs |-> elseIfs, else |-> else]
DoWhile(cond, ctx, body) ==
  [k |-> "do while", cond |-> cond, ctx |-> ctx, body |-> body]
Scope(body) == [k |-> "scope", body |-> body]

Relations == {"equals", "less", "less equals"}

-----------------------------------------------------------------------------
(* ContextAnnotator.                                                       *)

Declared(body) ==
  {body[i].x : i \in {j \in DOMAIN body : body[j].k = "struct"}}

RECURSIVE Annotated(_, _)

Inside(block) ==
  LET ctx == Declared(block.body)
  IN  [block EXCEPT !.ctx = ctx,
                    !.body = [i \in DOMAIN block.body |->
                                Annotated(block.body[i], ctx)]]

InsideAll(blocks) == [i \in DOMAIN blocks |-> Inside(blocks[i])]

(* A switch opens no context of its own, its cases do.                     *)
Annotated(s, current) ==
  CASE s.k \in {"while", "do while", "for", "foreach"} -> Inside(s)
    [] s.k = "if" -> [Inside(s) EXCEPT !.elseIfs = InsideAll(s.elseIfs),
                                       !.else = InsideAll(s.else)]
    [] s.k = "switch" -> [s EXCEPT !.ctx = current,
                                   !.cases = InsideAll(s.cases),
                                   !.default = InsideAll(s.default)]
    [] OTHER -> s

-----------------------------------------------------------------------------
(* TransformerEngine.                                                      *)

Plus(x, v) == Assign(x, Binary("add", Variable(x), v))

(* A loop that tests first is a loop that tests last under an If, both in  *)
(* the context of the loop.                                                *)
Tested(cond, ctx, body) == If(cond, ctx, <<DoWhile(cond, ctx, body)>>, <<>>, <<>>)

(* Faulty variant: the step is forgotten.                                  *)
foreach_no_step(s) ==
  <<If(Binary("less equals", Const(s.from), Const(s.to)), s.ctx,
       <<Assign(s.x, Const(s.from)),
         DoWhile(Binary("less equals", Variable(s.x), Const(s.to)), s.ctx, s.body)>>,
       <<>>, <<>>)>>

foreach(s) ==
  LET i == Variable(s.x)
      loop == DoWhile(Binary("less equals", i, Const(s.to)), s.ctx,
                      Append(s.body, Plus(s.x, Const(1))))
  IN  <<If(Binary("less equals", Const(s.from), Const(s.to)), s.ctx,
           <<Assign(s.x, Const(s.from)), loop>>, <<>>, <<>>)>>

(* start, cond and repeat are there or not: sequences of at most one.      *)
for(s) ==
  LET body == s.body \o s.repeat
  IN  s.start \o (IF s.cond = <<>> THEN <<DoWhile(Const(1), s.ctx, body)>>
                  ELSE <<Tested(s.cond[1], s.ctx, body)>>)

(* The first case is tested in an If, in the context of the switch, and    *)
(* then, with all the others, in an ElseIf.                                *)
switch(s) ==
  LET is(c) == Binary("equals", s.v, Const(c.value))
  IN  <<If(is(s.cases[1]), s.ctx, s.cases[1].body,
           [i \in DOMAIN s.cases |->
              [cond |-> is(s.cases[i]), ctx |-> s.cases[i].ctx,
               body |-> s.cases[i].body]],
           s.default)>>

(* InstructionTransformer: nothing for the other statements.               *)
InstructionTransformer(s) ==
  CASE s.k = "compound" -> <<Plus(s.x, s.v)>>
    [] s.k = "while" -> <<Tested(s.cond, s.ctx, s.body)>>
    [] s.k = "foreach" -> foreach(s)
    [] s.k = "for" -> for(s)
    [] s.k = "switch" -> switch(s)
    [] OTHER -> <<>>

RECURSIVE transform(_)

Bodies(blocks) ==
  [i \in DOMAIN blocks |-> [blocks[i] EXCEPT !.body = transform(@)]]

Visited(s) ==
  CASE s.k = "if" -> [s EXCEPT !.body = transform(@),
                               !.elseIfs = Bodies(s.elseIfs),
                               !.else = Bodies(s.else)]
    [] s.k \in {"do while", "scope"} -> [s EXCEPT !.body = transform(@)]
    [] OTHER -> s

transform(body) ==
  LET replaced(s) ==
        LET t == InstructionTransformer(s)
        IN  CASE Len(t) = 0 -> s [] Len(t) = 1 -> t[1] [] OTHER -> Scope(t)
  IN  [i \in DOMAIN body |-> Visited(replaced(body[i]))]

-----------------------------------------------------------------------------
(* mtac::Compiler: values.  An argument is a constant, a variable or a     *)
(* temporary.                                                              *)

Imm(c) == <<"imm", c>>
Var(x) == <<"var", x>>
Temp(n) == <<"temp", n>>

Quad(op, res, a, b) == <<[op |-> op, res |-> res, a |-> a, b |-> b]>>
None == Imm(0)
Label(n) == Quad("LABEL", n, None, None)
Goto(n) == Quad("GOTO", n, None, None)
IfFalse(a, n) == Quad("IF_FALSE_UNARY", n, a, None)
IfTrue(a, n) == Quad("IF_UNARY", n, a, None)
Copy(res, a) == Quad("ASSIGN", res, a, None)
Param(a, f) == Quad("PARAM", f, a, None)

Result(c, a, n) == [code |-> c, arg |-> a, n |-> n]

RECURSIVE move_to_argument(_, _)

RECURSIVE pass_arguments(_, _, _)

(* The last argument first; the code of an argument, with the PARAMs and   *)
(* the CALLs in it, comes before its PARAM.                                *)
pass_arguments(f, args, n) ==
  IF args = <<>> THEN Result(<<>>, None, n)
  ELSE LET last == move_to_argument(Last(args), n)
           others == pass_arguments(f, Front(args), last.n)
       IN  Result(last.code \o Param(last.arg, f) \o others.code, None, others.n)

FunctionCall(v, n) ==
  LET p == pass_arguments(v.f, v.args, n + 1)
  IN  Result(p.code \o Quad("CALL", Temp(n), v.f, Len(v.args)), Temp(n), p.n)

(* The left argument is used where it is: a variable is not copied.        *)
BinaryOperation(v, n) ==
  LET l == move_to_argument(v.l, n + 1)
      r == move_to_argument(v.r, l.n)
  IN  Result(l.code \o r.code \o Quad(v.k, Temp(n), l.arg, r.arg), Temp(n), r.n)

(* AND: the label n is for false, OR: for true; n + 1 is the end.          *)
ShortCircuit(v, n) ==
  LET l == move_to_argument(v.l, n + 3)
      r == move_to_argument(v.r, l.n)
      Leave(a) == IF v.k = "and" THEN IfFalse(a, n) ELSE IfTrue(a, n)
      early == IF v.k = "and" THEN 0 ELSE 1
      t == Temp(n + 2)
  IN  Result(l.code \o Leave(l.arg) \o r.code \o Leave(r.arg)
               \o Copy(t, Imm(1 - early)) \o Goto(n + 1)
               \o Label(n) \o Copy(t, Imm(early)) \o Label(n + 1),
             t, r.n)

(* The label n is for false, n + 1 is the end.                             *)
compile_ternary(v, n) ==
  LET cond == move_to_argument(v.cond, n + 3)
      l == move_to_argument(v.l, cond.n)
      r == move_to_argument(v.r, l.n)
      t == Temp(n + 2)
  IN  Result(cond.code \o IfFalse(cond.arg, n)
               \o l.code \o Copy(t, l.arg) \o Goto(n + 1)
               \o Label(n) \o r.code \o Copy(t, r.arg) \o Label(n + 1),
             t, r.n)

(* A = X, as a statement or, with the answer A, as a value.                *)
assign(x, v, n) ==
  LET r == move_to_argument(v, n)
  IN  Result(r.code \o Copy(Var(x), r.arg), Var(x), r.n)

Increment(x) == Quad("add", Var(x), Var(x), Imm(1))

move_to_argument(v, n) ==
  CASE v.k = "const" -> Result(<<>>, Imm(v.c), n)
    [] v.k = "var" -> Result(<<>>, Var(v.x), n)
    [] v.k = "call" -> FunctionCall(v, n)
    [] v.k \in Relations \union {"add"} -> BinaryOperation(v, n)
    [] v.k \in {"and", "or"} -> ShortCircuit(v, n)
    [] v.k = "ternary" -> compile_ternary(v, n)
    [] v.k = "assign" -> assign(v.x, v.v, n)
    [] v.k = "++x" -> Result(Increment(v.x), Var(v.x), n)
    [] v.k = "x++" -> Result(Copy(Temp(n), Var(v.x)) \o Increment(v.x), Temp(n), n + 1)

-----------------------------------------------------------------------------
(* mtac::Compiler: statements.                                             *)

construct(x) == Param(<<"object", x>>, "ctor") \o Quad("CALL", None, "ctor", 1)
destruct(x) == Param(<<"object", x>>, "dtor") \o Quad("CALL", None, "dtor", 1)

issue_destructors(ctx) ==
  FlattenSeq([i \in DOMAIN SetToSeq(ctx) |-> destruct(SetToSeq(ctx)[i])])

RECURSIVE compile(_, _), compile_else_ifs(_, _, _, _)

compile_each(body, n) ==
  FoldLeft(LAMBDA r, s : LET c == compile(s, r.n)
                         IN  Result(r.code \o c.code, None, c.n),
           Result(<<>>, None, n), body)

(* The instructions of a block, then the destructors of its context.       *)
compile_block(block, n) ==
  LET b == compile_each(block.body, n)
  IN  Result(b.code \o issue_destructors(block.ctx), None, b.n)

jump_if_false(v, label, n) ==
  LET a == move_to_argument(v, n)
  IN  Result(a.code \o IfFalse(a.arg, label), None, a.n)

compile_if(s, n) ==
  LET cond == jump_if_false(s.cond, n, n + 2)
      then == compile_block(s, cond.n)
  IN  IF s.else = <<>>
      THEN Result(cond.code \o then.code \o Label(n), None, then.n)
      ELSE LET else == compile_block(s.else[1], then.n)
           IN  Result(cond.code \o then.code \o Goto(n + 1) \o Label(n)
                        \o else.code \o Label(n + 1), None, else.n)

(* The rest of a chain: next is where the condition before it leads to     *)
(* when it is false, end the end of the chain.                             *)
compile_else_ifs(s, i, next, end_n) ==
  LET end == end_n[1]
      n == end_n[2]
  IN  IF i > Len(s.elseIfs)
      THEN IF s.else = <<>> THEN Result(<<>>, None, n)
           ELSE LET else == compile_block(s.else[1], n)
                IN  Result(Label(next) \o else.code, None, else.n)
      ELSE LET after == IF i = Len(s.elseIfs) /\ s.else = <<>> THEN end ELSE n
               cond == jump_if_false(s.elseIfs[i].cond, after, n + 1)
               then == compile_block(s.elseIfs[i], cond.n)
               rest == compile_else_ifs(s, i + 1, after, <<end, then.n>>)
           IN  Result(Label(next) \o cond.code \o then.code \o Goto(end)
                        \o rest.code, None, rest.n)

(* Faulty variant: the first branch runs into the tests of the others.     *)
compile_chain_falling(s, n) ==
  LET cond == jump_if_false(s.cond, n + 1, n + 2)
      then == compile_block(s, cond.n)
      rest == compile_else_ifs(s, 1, n + 1, <<n, then.n>>)
  IN  Result(cond.code \o then.code \o rest.code \o Label(n), None, rest.n)

compile_chain(s, n) ==
  LET cond == jump_if_false(s.cond, n + 1, n + 2)
      then == compile_block(s, cond.n)
      rest == compile_else_ifs(s, 1, n + 1, <<n, then.n>>)
  IN  Result(cond.code \o then.code \o Goto(n) \o rest.code \o Label(n),
             None, rest.n)

compile_do_while(s, n) ==
  LET body == compile_block(s, n + 1)
      cond == move_to_argument(s.cond, body.n)
  IN  Result(Label(n) \o body.code \o cond.code \o IfTrue(cond.arg, n),
             None, cond.n)

(* A function that returns a structure copies it to where the caller says  *)
(* and emits no RETURN.                                                    *)
compile_return(s, n) ==
  IF s.struct
  THEN Result(Quad("CALL", None, "copy", 0), None, n)
  ELSE LET a == move_to_argument(s.v, n)
       IN  Result(a.code \o Quad("RETURN", None, a.arg, None), None, a.n)

(* With a temporary between the two variables.                             *)
compile_swap(s, n) ==
  Result(Copy(Temp(n), Var(s.y)) \o Copy(Var(s.y), Var(s.x))
           \o Copy(Var(s.x), Temp(n)), None, n + 1)

compile(s, n) ==
  CASE s.k = "value" -> move_to_argument(s.v, n)
    [] s.k = "assign" -> assign(s.x, s.v, n)
    [] s.k = "swap" -> compile_swap(s, n)
    [] s.k = "struct" -> Result(construct(s.x), None, n)
    [] s.k = "return" -> compile_return(s, n)
    [] s.k = "scope" -> compile_each(s.body, n)
    [] s.k = "do while" -> compile_do_while(s, n)
    [] s.k = "if" -> IF s.elseIfs = <<>> THEN compile_if(s, n)
                     ELSE compile_chain(s, n)

(* All passes over a function.                                             *)
Lower(body) ==
  LET annotated == Inside(Block({}, body))
      main == [annotated EXCEPT !.body = transform(@)]
  IN  compile_block(main, 1).code

-----------------------------------------------------------------------------
(* Execution of the quadruples.                                            *)

Truth(b) == IF b THEN 1 ELSE 0

Apply(op, x, y) ==
  CASE op = "ASSIGN" -> x
    [] op = "add" -> x + y
    [] op = "equals" -> Truth(x = y)
    [] op = "less" -> Truth(x < y)
    [] op = "less equals" -> Truth(x <= y)

Computations == Relations \union {"ASSIGN", "add"}

Places(c) ==
  {Var(x) : x \in Ints}
    \union ({c[i].res : i \in {j \in DOMAIN c : c[j].op \in Computations \union {"CALL"}}}
               \ {None})

Init ==
  /\ function \in Functions
  /\ code = Lower(function)
  /\ at = 1
  /\ store = [p \in Places(code) |-> 0]
  /\ params = <<>> /\ trace = <<>>

Running == at <= Len(code)
q == code[at]
ValueOf(a) == IF a[1] \in {"imm", "object"} THEN a[2] ELSE store[a]

Compute ==
  /\ Running /\ q.op \in Computations
  /\ store' = [store EXCEPT ![q.res] = Apply(q.op, ValueOf(q.a), ValueOf(q.b))]
  /\ at' = at + 1
  /\ UNCHANGED <<function, code, params, trace>>

Place(label) ==
  CHOOSE i \in DOMAIN code : code[i].op = "LABEL" /\ code[i].res = label

Jump ==
  /\ Running /\ q.op \in {"LABEL", "GOTO", "IF_UNARY", "IF_FALSE_UNARY"}
  /\ at' = IF \/ q.op = "GOTO"
              \/ q.op = "IF_UNARY" /\ ValueOf(q.a) # 0
              \/ q.op = "IF_FALSE_UNARY" /\ ValueOf(q.a) = 0
           THEN Place(q.res) ELSE at + 1
  /\ UNCHANGED <<function, code, store, params, trace>>

Pass ==
  /\ Running /\ q.op = "PARAM"
  /\ params' = Append(params, ValueOf(q.a))
  /\ at' = at + 1
  /\ UNCHANGED <<function, code, store, trace>>

Event(f, args, answer) == [to |-> f, args |-> args, answer |-> answer]

(* The last q.b PARAMs, the first argument of the callee last.             *)
Passed == [i \in 1 .. q.b |-> params[Len(params) + 1 - i]]

CallFunction ==
  /\ Running /\ q.op = "CALL" /\ Len(trace) < MaxCalls
  /\ \E answer \in Answers(q.a) :
       /\ trace' = Append(trace, Event(q.a, Passed, answer))
       /\ store' = IF q.res = None THEN store ELSE [store EXCEPT ![q.res] = answer]
  /\ params' = SubSeq(params, 1, Len(params) - q.b)
  /\ at' = at + 1
  /\ UNCHANGED <<function, code>>

Return ==
  /\ Running /\ q.op = "RETURN" /\ Len(trace) < MaxCalls
  /\ trace' = Append(trace, Event("return", <<ValueOf(q.a)>>, 0))
  /\ at' = Len(code) + 1
  /\ UNCHANGED <<function, code, store, params>>

Next == Compute \/ Jump \/ Pass \/ CallFunction \/ Return

(* The machine goes on executing.                                          *)
Spec == Init /\ [][Next]_vars /\ WF_vars(Next)

-----------------------------------------------------------------------------
(* What the tree means: run with given answers, of which every call (and   *)
(* the return) takes one.  stop: "no", "return", or "cut" for want of one. *)

Ask(f, args, m) ==
  IF m.left = <<>> THEN [m EXCEPT !.stop = "cut"]
  ELSE [m EXCEPT !.trace = Append(@, Event(f, args, Head(m.left))),
                 !.left = Tail(@), !.val = Head(m.left)]

Going(m) == m.stop = "no"

RECURSIVE Evaluate(_, _), Arguments(_, _, _)

Arguments(args, vals, m) ==
  IF args = <<>> \/ ~Going(m) THEN [m EXCEPT !.val = vals]
  ELSE LET last == Evaluate(Last(args), m)
       IN  Arguments(Front(args), <<last.val>> \o vals, last)

Evaluate(v, m) ==
  CASE ~Going(m) -> m
    [] v.k = "const" -> [m EXCEPT !.val = v.c]
    [] v.k = "var" -> [m EXCEPT !.val = m.env[v.x]]
    [] v.k = "call" ->
         LET a == Arguments(v.args, <<>>, m)
         IN  IF Going(a) THEN Ask(v.f, a.val, a) ELSE a
    [] v.k \in Relations \union {"add"} ->
         LET l == Evaluate(v.l, m)
             r == Evaluate(v.r, l)
         IN  IF Going(r) THEN [r EXCEPT !.val = Apply(v.k, l.val, r.val)] ELSE r
    [] v.k \in {"and", "or"} ->
         LET l == Evaluate(v.l, m)
             r == Evaluate(v.r, l)
             decided == l.val = IF v.k = "and" THEN 0 ELSE 1
         IN  IF Going(l) /\ ~decided THEN r ELSE l
    [] v.k = "ternary" ->
         LET c == Evaluate(v.cond, m)
         IN  IF Going(c) THEN Evaluate(IF c.val # 0 THEN v.l ELSE v.r, c) ELSE c
    [] v.k = "assign" ->
         LET r == Evaluate(v.v, m)
         IN  IF Going(r) THEN [r EXCEPT !.env[v.x] = r.val] ELSE r
    [] v.k = "++x" -> [m EXCEPT !.env[v.x] = @ + 1, !.val = m.env[v.x] + 1]
    [] v.k = "x++" -> [m EXCEPT !.env[v.x] = @ + 1, !.val = m.env[v.x]]

RECURSIVE Execute(_, _), Repeat(_, _, _, _)

ExecuteAll(body, m) == FoldLeft(LAMBDA c, s : Execute(s, c), m, body)

(* The objects of a block are destroyed at its end.                        *)
ExecuteBlock(block, m) ==
  LET end == ExecuteAll(block.body, m)
      Destroyed(c, x) == IF Going(c) THEN Ask("dtor", <<x>>, c) ELSE c
  IN  FoldLeft(Destroyed, end, SetToSeq(Declared(block.body)))

Repeat(cond, block, step, m) ==
  LET c == IF cond = <<>> THEN [m EXCEPT !.val = 1] ELSE Evaluate(cond[1], m)
  IN  IF Going(c) /\ c.val # 0
      THEN Repeat(cond, block, step, ExecuteAll(step, ExecuteBlock(block, c)))
      ELSE c

RECURSIVE FirstOf(_, _, _)
FirstOf(branches, else, m) ==
  IF branches = <<>>
  THEN IF else = <<>> THEN m ELSE ExecuteBlock(else[1], m)
  ELSE LET c == Evaluate(Head(branches).cond, m)
       IN  IF ~Going(c) THEN c
           ELSE IF c.val # 0 THEN ExecuteBlock(Head(branches), c)
           ELSE FirstOf(Tail(branches), else, c)

Execute(s, m) ==
  CASE ~Going(m) -> m
    [] s.k = "value" -> Evaluate(s.v, m)
    [] s.k = "assign" -> Evaluate(s, m)
    [] s.k = "compound" -> Evaluate(Plus(s.x, s.v), m)
    [] s.k = "swap" -> [m EXCEPT !.env[s.x] = m.env[s.y], !.env[s.y] = m.env[s.x]]
    [] s.k = "struct" -> Ask("ctor", <<s.x>>, m)
    [] s.k = "return" ->
         LET r == IF s.struct THEN Ask("copy", <<>>, m)
                  ELSE LET v == Evaluate(s.v, m)
                       IN  IF Going(v) THEN Ask("return", <<v.val>>, v) ELSE v
         IN  IF Going(r) THEN [r EXCEPT !.stop = "return"] ELSE r
    [] s.k = "if" ->
         FirstOf(<<[cond |-> s.cond, body |-> s.body]>> \o s.elseIfs, s.else, m)
    [] s.k = "while" -> Repeat(<<s.cond>>, s, <<>>, m)
    [] s.k = "do while" -> Repeat(<<s.cond>>, s, <<>>, ExecuteBlock(s, m))
    [] s.k = "for" -> Repeat(s.cond, s, s.repeat, ExecuteAll(s.start, m))
    [] s.k = "foreach" ->
         IF s.from > s.to THEN m
         ELSE Repeat(<<Binary("less equals", Variable(s.x), Const(s.to))>>, s,
                     <<Plus(s.x, Const(1))>>, [m EXCEPT !.env[s.x] = s.from])
    [] s.k = "switch" ->
         LET v == Evaluate(s.v, m)
             is(c) == [cond |-> Binary("equals", Const(v.val), Const(c.value)),
                       body |-> c.body]
         IN  IF Going(v) THEN FirstOf([i \in DOMAIN s.cases |-> is(s.cases[i])], s.default, v)
             ELSE v

Meaning ==
  ExecuteBlock(Block({}, function),
    [env |-> [x \in Ints |-> 0], trace |-> <<>>, stop |-> "no", val |-> 0,
     left |-> [i \in DOMAIN trace |-> trace[i].answer]])

-----------------------------------------------------------------------------
(* Properties.                                                             *)

(* The code makes the calls that the tree means, with the same arguments,  *)
(* in the same order and no others; it ends when the tree does, and leaves *)
(* the same values in the variables: the conditions that the rewriting     *)
(* duplicates are evaluated once where they are written once, and no label *)
(* of a nested statement is confused with another.                         *)
SameCalls ==
  /\ trace = Meaning.trace
  /\ ~Running => /\ Meaning.stop # "cut"
                 /\ \A x \in Ints : store[Var(x)] = Meaning.env[x]

(* The code does not loop without a call: it ends or goes on calling.      *)
Ends == <>(~Running \/ Len(trace) = MaxCalls)
=============================================================================
