--------------------------- MODULE MCOptimizations ---------------------------
(* Small programs, each of which gives some of the passes something to do. *)
EXTENDS Optimizations, TLC

v(name) == Variable(name, 0, "int", "local")
a == v("a")
b == v("b")
c == v("c")
i == v("i")
j == v("j")
x == Variable("x", 0, "int", "param")
y == Variable("y", 0, "int", "param")
g == Variable("g", 0, "int", "global")
s == Variable("s", 0, "struct", "local")
arr == Variable("arr", 0, "array", "local")
p == Variable("p", 0, "pointer", "local")
u == Variable("u", 0, "float", "local")
t(n) == Variable("t", n, "int", "temporary")
arg == Variable("arg", 0, "int", "param")

Q(op, r, l, k) == Quadruple(op, r, l, k)
Set(r, n) == Q("ASSIGN", r, int(n), None)
Move(r, l) == Q("ASSIGN", r, var(l), None)
AddTo(r, l, n) == Q("ADD", r, var(l), int(n))
Show(l) == <<Param(var(l), arg, "print"), Call("print", NoVariable)>>
Read(r) == <<Call("read", r)>>
If(rel, l, k, to) == Branch("IF", rel, l, k, to)
IfFalse(rel, l, k, to) == Branch("IF_FALSE", rel, l, k, to)

Function(params, temporaries, storage, code) ==
  LET n == Len(code)
      list == <<ENTRY>> \o [k \in 1 .. n |-> k] \o <<EXIT>>
      codeOf == [k \in ToSet(list) |-> IF k > 0 THEN code[k] ELSE <<>>]
      base == [params |-> params, list |-> list, code |-> codeOf,
               succ |-> [k \in ToSet(list) |-> <<>>], pred |-> [k \in ToSet(list) |-> <<>>],
               index |-> n, temporary |-> temporaries, storage |-> storage,
               loops |-> <<>>, dominator |-> << >>]
      edges(f, k) ==
        LET blk == f.list[k]
            q == f.code[blk][Len(f.code[blk])]
            jump == IF f.code[blk] # <<>> /\ is_jump(q) THEN make_edge(f, blk, q.to) ELSE f
        IN  IF f.code[blk] # <<>> /\ q.op = "GOTO" THEN jump
            ELSE make_edge(jump, blk, next(f, blk))
  IN  FoldLeft(edges, base, [k \in 1 .. n + 1 |-> k])

Main(code) == "main" :> Function(<<>>, 10, <<a, b, c, i, j, s, arr, p, u>>, code)

(* Values on a straight line.                                              *)
Straight == Main(<<
  Read(a) \o <<Set(b, 3), Q("MUL", c, var(a), int(1)), Q("ADD", t(1), var(c), var(b)),
    Q("ADD", t(2), var(c), var(b)), Q("MUL", j, var(a), int(2))>>
    \o Show(t(1)) \o Show(t(2)) \o Show(j) >>)

(* A diamond: one constant is the same on both ways, the other is not.     *)
Diamond == Main(<<
  Read(a) \o <<Set(b, 1), Set(c, 1), IfFalse("EQUALS", var(a), int(0), 3)>>,
  <<Set(b, 2), Set(c, 1), Goto(4)>>,
  <<Q("ADD", j, var(a), int(0))>>,
  Show(b) \o Show(c) >>)

(* A loop that is peeled, with a sum.                                      *)
Counted(n) == Main(<<
  Read(a) \o <<Set(i, 0), Set(b, 0)>>,
  <<Q("ADD", b, var(b), var(a)), AddTo(i, i, 1), If("LESS", var(i), int(n), 2)>>,
  Show(b) \o Show(i) >>)

(* A dependent variable and something invariant in a loop.                 *)
Invariant == Main(<<
  Read(a) \o <<Set(i, 0), Set(c, 0)>>,
  <<Q("MUL", t(1), var(a), var(a)), Q("MUL", j, int(3), var(i)),
    Q("ADD", c, var(c), var(j)), Q("ADD", c, var(c), var(t(1))),
    AddTo(i, i, 1), If("LESS", var(i), var(a), 2)>>,
  Show(c) >>)

(* Calls: constants as arguments, a function with two returns.             *)
Callee == Function(<<x, y>>, 10, <<b>>, <<
  <<Q("ADD", b, var(x), var(y)), IfFalse("GREATER", var(b), int(1), 3)>>,
  <<Return(var(b))>>,
  <<Return(int(7))>> >>)
CallTwice == Main(<<
  Read(a) \o <<Param(int(2), y, "f"), Param(var(a), x, "f"), Call("f", b)>> \o Show(b)
  \o <<Param(int(2), y, "f"), Param(int(1), x, "f"), Call("f", c)>>,
  Show(c) >>) @@ "f" :> Callee

(* A nested loop, the inner one computed from both variables.              *)
Nested == Main(<<
  Read(a) \o <<Set(i, 0), Set(c, 0)>>,
  <<Set(j, 0)>>,
  <<Q("ADD", t(1), var(i), var(j)), Q("ADD", c, var(c), var(t(1))),
    AddTo(j, j, 1), If("LESS", var(j), int(2), 3)>>,
  <<AddTo(i, i, 1), If("LESS_EQUALS", var(i), var(a), 2)>>,
  Show(c) >>)

(* A condition that does not change in a loop.                             *)
Switched == Main(<<
  Read(a) \o <<Set(i, 0), Set(c, 0)>>,
  <<IfFalse("EQUALS", var(a), int(1), 4)>>,
  <<AddTo(c, c, 5), Goto(5)>>,
  <<AddTo(c, c, 2)>>,
  <<AddTo(i, i, 1), If("LESS", var(i), int(20), 2)>>,
  Show(c) >>)

(* An empty loop, and one that iterates too often to be peeled.            *)
Empty(n) == Main(<<
  Read(a) \o <<Set(i, 0)>>,
  <<AddTo(i, i, 1), If("LESS", var(i), int(n), 2)>>,
  Show(i) >>)

(* Comparisons that are kept in variables.                                 *)
Flag == Main(<<
  Read(a) \o <<Q("GREATER", t(1), var(a), int(0)), IfFalse("UNARY", var(t(1)), None, 3)>>,
  Show(a),
  <<Set(b, 1)>> \o Show(b) >>)
SharedFlag == Main(<<
  Read(a) \o <<Q("GREATER", c, var(a), int(0)), Set(a, 0), IfFalse("UNARY", var(c), None, 3)>>,
  Show(a),
  Show(c) >>)

(* Members, an array, and pointers to them.                                *)
Members == Main(<<
  Read(a) \o <<Q("DOT_ASSIGN", s, int(0), var(a)), Q("DOT_ASSIGN", s, int(1), int(4)),
              Q("DOT", b, var(s), int(1)), Q("DOT", c, var(s), int(0)), Q("DOT", j, var(arr), int(0))>>,
  Show(b) \o Show(c) \o Show(j) >>)
Pointed == Main(<<
  Read(a) \o <<Q("DOT_ASSIGN", s, int(1), int(4)), Q("PDOT", p, var(s), int(1)),
              Q("DOT_ASSIGN", p, int(0), var(a)), Q("DOT", b, var(s), int(1))>>,
  Show(b) >>)

(* Floats, and conversions.                                                *)
Floats == Main(<<
  Read(a) \o <<Q("I2F", u, var(a), None), Q("FMUL", u, var(u), float(1)),
              Q("FADD", u, var(u), float(2)), Q("F2I", b, var(u), None)>>,
  Show(b) >>)

(* The same expression on both ways and after them.                        *)
Common == Main(<<
  Read(a) \o Read(b) \o <<Q("MUL", t(1), var(a), var(b)), IfFalse("LESS", var(t(1)), int(1), 3)>>,
  <<Q("MUL", t(2), var(a), var(b)), AddTo(c, t(2), 1), Goto(4)>>,
  <<Q("MUL", t(3), var(a), var(b)), AddTo(c, t(3), 2)>>,
  <<Q("MUL", t(4), var(a), var(b)), Q("ADD", t(5), var(t(4)), var(c))>> \o Show(t(5)) >>)

(* A function that does nothing once its parameter is known.               *)
Nothing == Function(<<x>>, 10, <<b>>, << <<>> >>)
CallNothing == Main(<< Read(a) \o <<Param(var(a), x, "f"), Call("f", NoVariable)>> \o Show(a) >>)
  @@ "f" :> Nothing

(* A function that calls itself, always with the same second argument.     *)
Recursive == Function(<<x, y>>, 10, <<b>>, <<
  <<IfFalse("GREATER", var(x), int(0), 3)>>,
  <<Q("SUB", t(1), var(x), int(1)), Param(int(3), y, "f"), Param(var(t(1)), x, "f"),
    Call("f", b), Q("ADD", b, var(b), var(y)), Return(var(b))>>,
  <<Return(var(y))>> >>)
CallRecursive == Main(<< Read(a) \o <<Param(int(3), y, "f"), Param(var(a), x, "f"), Call("f", c)>>
                         \o Show(c) >>) @@ "f" :> Recursive

(* if((a = 0 or b = 1) and b < 2), compiled with jumps.                     *)
ShortCircuit == Main(<<
  Read(a) \o Read(b) \o <<If("EQUALS", var(a), int(0), 3)>>,
  <<IfFalse("EQUALS", var(b), int(1), 5)>>,
  <<IfFalse("LESS", var(b), int(2), 5)>>,
  Show(a) \o <<Goto(6)>>,
  Show(b),
  Show(a) >>)

(* Two calls of a function with a constant or a variable for each argument. *)
Arguments == {int(1), int(2), var(a)}
Callee2 == Function(<<x, y>>, 10, <<b>>, <<
  <<Q("SUB", b, var(x), var(y)), IfFalse("GREATER", var(x), int(1), 3)>>,
  <<Return(var(y))>>,
  <<Return(var(b))>> >>)
Pass(l, k) == <<Param(k, y, "f"), Param(l, x, "f")>>
Twice(l1, k1, l2, k2) == Main(<<
  Read(a) \o Pass(l1, k1) \o <<Call("f", b)>>,
  Pass(l2, k2) \o <<Call("f", c)>> \o Show(b) \o Show(c) >>) @@ "f" :> Callee2

(* Every program of these shapes with these statements.  In Loop, what     *)
(* follows the increment does not depend on it, and no block computes what *)
(* it changed before; in While, nothing is invariant after the condition.  *)
Simple == {Move(b, a), AddTo(a, a, 1), Q("ADD", c, var(a), var(b)), Set(b, 0),
           Q("MUL", c, var(b), int(2)), Q("SUB", b, var(b), var(c))}
Line(q1, q2, q3) == Main(<< Read(a) \o <<Set(b, 1), Set(c, 2), q1, q2, q3>> \o Show(b), Show(c) >>)
Fork(q1, q2, q3) == Main(<<
  Read(a) \o <<Set(b, 1), Set(c, 2), IfFalse("EQUALS", var(a), int(0), 3)>>,
  <<q1, Goto(4)>>, <<q2>>, <<q3>> \o Show(b) \o Show(c)>>)
Loop(q1, q2) == Main(<<
  Read(a) \o <<Set(b, 1), Set(c, 2), Set(i, 0)>>,
  <<q1, q2, AddTo(i, i, 1), If("LESS", var(i), int(3), 2)>>,
  Show(b) \o Show(c)>>)
While(q1, q2) == Main(<<
  Read(a) \o <<Set(b, 1), Set(c, 2), Set(i, 0)>>,
  <<q1, IfFalse("LESS", var(i), var(a), 4)>>,
  <<q2, AddTo(i, i, 1), Goto(2)>>,
  Show(b) \o Show(c)>>)

MCExternal == [print |-> 1, read |-> 0]

MCPrograms ==
  {Straight, Diamond, Counted(4), Invariant, CallTwice, Nested, Switched, Empty(30), Empty(5),
   Flag, SharedFlag, Members, Pointed, Floats, Common, CallNothing, CallRecursive,
   ShortCircuit}
    \union {Line(q1, q2, Q("ADD", c, var(a), var(b))) : q1, q2 \in Simple}
    \union {Fork(q1, q2, Q("SUB", b, var(b), var(c))) : q1, q2 \in Simple}
    \union {Loop(q[1], q[2]) : q \in (Simple \ {AddTo(a, a, 1)}) \X Simple
                                   \ {<<Q("SUB", b, var(b), var(c)), Q("ADD", c, var(a), var(b))>>}}
    \union {While(q1, q2) : q1 \in Simple, q2 \in {q \in Simple : q.res # c}}
    \union {Twice(l1, k1, l2, k2) : l1, k1, l2, k2 \in Arguments}

(* An assignment in the body of a loop that may not run at all.            *)
MotionPrograms == {While(Set(b, 0), Q("ADD", c, var(a), var(b)))}
=============================================================================
