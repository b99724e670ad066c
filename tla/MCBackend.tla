----------------------------- MODULE MCBackend -----------------------------
(* Small programs for the back end, on a platform with four registers and  *)
(* two float registers, of which one each passes a parameter.              *)
EXTENDS Backend

MCregisters == <<0, 1, 2, 3>>
MCfloats == <<0, 7>>
MCint_params == <<2>>
MCfloat_params == <<7>>

v(name, type, where) == Variable(name, 0, type, where)
l(name) == v(name, "int", "local")
a == l("a")
b == l("b")
c == l("c")
d == l("d")
e == l("e")
x == v("x", "int", "param")
y == v("y", "int", "param")
z == v("z", "int", "param")
ch == v("ch", "char", "param")
fx == v("fx", "float", "param")
fy == v("fy", "float", "param")
arrp == v("arrp", "array", "param")
ptr == v("ptr", "pointer", "param")
g == v("g", "int", "global")
ga == v("ga", "array", "global")
s == v("s", "struct", "local")
s2 == v("s2", "struct", "local")
s3 == v("s3", "struct", "local")
arr == v("arr", "array", "local")
p == v("p", "pointer", "local")
u == v("u", "float", "local")
w == v("w", "float", "local")
t(n) == Variable("t", n, "int", "temporary")
arg == v("arg", "int", "param")
arg2 == v("arg2", "int", "param")
farg == v("farg", "float", "param")

MCStandard == [print |-> <<arg>>, print2 |-> <<arg, arg2>>, printf |-> <<farg>>, read |-> <<>>]

Q(op, r, i, k) == Quadruple(op, r, i, k)
Set(r, n) == Q("ASSIGN", r, int(n), None)
Move_(r, i) == Q("ASSIGN", r, var(i), None)
Op(op, r, i, k) == Q(op, r, var(i), var(k))
Show(i) == <<Param(var(i), arg, "print"), Call("print", NoVariable)>>
ShowF(i) == <<Param(var(i), farg, "printf"), Call("printf", NoVariable)>>
Ask(r) == <<Call("read", r)>>
If(rel, i, k, to) == Branch("IF", rel, i, k, to)
IfFalse(rel, i, k, to) == Branch("IF_FALSE", rel, i, k, to)

(* A function whose blocks 1, 2, ... have the code; deep are in a loop.    *)
Function(params, storage, ret, deep, code) ==
  LET n == Len(code)
      list == <<ENTRY>> \o [k \in 1 .. n |-> k] \o <<EXIT>>
      codeOf == [k \in ToSet(list) |-> IF k > 0 THEN code[k] ELSE <<>>]
      base == [params |-> params, list |-> list, code |-> codeOf,
               succ |-> [k \in ToSet(list) |-> <<>>], pred |-> [k \in ToSet(list) |-> <<>>],
               storage |-> storage, ret |-> ret,
               depth |-> [k \in ToSet(list) |-> IF k \in deep THEN 1 ELSE 0],
               place |-> << >>, stack |-> -4, used |-> {}, variable_used |-> {}]
      edges(f, k) ==
        LET blk == f.list[k]
            q == f.code[blk][Len(f.code[blk])]
            jump == IF f.code[blk] # <<>> /\ is_jump(q) THEN make_edge(f, blk, q.to) ELSE f
        IN  IF f.code[blk] # <<>> /\ q.op = "GOTO" THEN jump
            ELSE IF f.code[blk] # <<>> /\ q.op = "RETURN" THEN make_edge(f, blk, EXIT)
            ELSE make_edge(jump, blk, next(f, blk))
  IN  FoldLeft(edges, base, [k \in 1 .. n + 1 |-> k])

Main(code) == "main" :> Function(<<>>, <<a, b, c, d, e, s, arr, p, u, w>>, "void", {}, code)

(* Five values at a time in four registers.                                *)
Pressure == Main(<<
  Ask(a) \o Ask(b) \o Ask(c) \o Ask(d) \o Ask(e)
    \o <<Op("ADD", t(1), a, b), Op("SUB", t(2), c, d), Op("MUL", t(3), t(1), e),
         Op("ADD", t(4), t(3), t(2))>> \o Show(t(4)) \o Show(a) \o Show(d) >>)

(* Division and remainder want two registers of their own.                 *)
Division == Main(<<
  Ask(a) \o Ask(b) \o <<Q("ADD", c, var(b), int(1)), Op("DIV", t(1), a, c), Op("MOD", t(2), a, c),
    Q("DIV", t(3), var(b), int(3))>> \o Show(t(1)) \o Show(t(2)) \o Show(t(3)) >>)

(* A loop; the counter and the sum live across the call.                   *)
Loop == "main" :> Function(<<>>, <<a, b, c, s, arr, p, u, w>>, "void", {2, 3}, <<
  <<Set(a, 0), Set(b, 0)>>,
  <<If("GREATER_EQUALS", var(a), int(3), 4)>>,
  Show(b) \o <<Op("ADD", b, b, a), Q("ADD", a, var(a), int(1)), Goto(2)>>,
  Show(b) >>)

(* A function with more parameters than there are registers for them.      *)
Called == "main" :> Function(<<>>, <<a, b, c, d>>, "void", {}, <<
            Ask(a) \o Ask(b) \o <<Param(var(b), y, "f"), Param(var(a), x, "f"), Call("f", c)>>
              \o Show(c) \o Show(a) \o Show(b) >>)
       @@ "f" :> Function(<<x, y>>, <<d>>, "int", {}, <<
            <<Op("MUL", d, x, y), Op("SUB", t(1), d, y)>> \o Show(x) \o <<Return(var(t(1)))>> >>)

(* Two ways, one of which returns early.                                   *)
f_early == "f" :> Function(<<x>>, <<a, b>>, "int", {}, <<
             <<Set(b, 7), IfFalse("GREATER", var(x), int(0), 3)>>,
             <<Q("ADD", b, var(b), int(1)), Return(var(x))>>,
             Show(b) \o <<Return(var(b))>> >>)
Early == f_early @@ "main" :> Function(<<>>, <<a, b, c>>, "void", {}, <<
           Ask(a) \o <<Param(var(a), x, "f"), Call("f", b)>> \o Show(b) >>)

(* The same, but the argument is used after the call: the peephole         *)
(* optimizer reads it from a register that the call has changed.  Not one  *)
(* of the programs below.                                                  *)
Across == f_early @@ "main" :> Function(<<>>, <<a, b, c>>, "void", {}, <<
           Ask(a) \o <<Param(var(a), x, "f"), Call("f", b)>> \o Show(b) \o Show(a) >>)

(* Values by a conditional jump, and comparisons that are values.          *)
Choice == Main(<<
  Ask(a) \o <<Set(b, 5), IfFalse("LESS", var(a), var(b), 3)>>,
  <<Move_(c, a), Goto(4)>>,
  <<Q("ASSIGN", c, var(b), None)>>,
  <<Op("EQUALS", d, c, b), Q("GREATER", e, var(a), int(1))>> \o Show(c) \o Show(d) \o Show(e) >>)

(* Aggregates, members and pointers.                                       *)
Members == Main(<<
  Ask(a) \o <<Q("DOT_ASSIGN", s, int(4), var(a)), Q("PASSIGN", p, var(s), None),
    Q("DOT_ASSIGN", p, int(8), int(6)), Q("DOT", b, var(s), int(8)), Q("DOT", c, var(p), int(4)),
    Q("DOT", d, var(arr), int(0)), Q("DOT_ASSIGN", arr, int(8), var(d)),
    Q("DOT", e, var(arr), int(8))>> \o Show(b) \o Show(c) \o Show(e) >>)

(* Floats, in two registers.                                               *)
Floats == Main(<<
  <<Q("FASSIGN", u, float(3), None), Q("FASSIGN", w, float(2), None)>> \o Ask(a)
    \o <<Q("I2F", Variable("t", 1, "float", "temporary"), var(a), None),
         Q("FADD", Variable("t", 2, "float", "temporary"), var(u), var(Variable("t", 1, "float", "temporary"))),
         Q("FMUL", u, var(u), var(w)), Q("FSUB", w, var(w), float(1)),
         If("FG", var(Variable("t", 2, "float", "temporary")), var(w), 3)>>,
  ShowF(u),
  ShowF(w) \o <<Q("F2I", b, var(w), None)>> \o Show(b) >>)

(* A char takes one byte of the stack, between words.                      *)
Chars == "main" :> Function(<<>>, <<a, b>>, "void", {}, <<
           Ask(a) \o <<Param(var(a), ch, "f"), Param(int(6), y, "f"),
             Param(int(9), x, "f"), Call("f", NoVariable)>> >>)
      @@ "f" :> Function(<<x, y, ch>>, <<>>, "void", {}, <<
           Show(ch) \o Show(y) \o Show(x) >>)

(* Bytes of a structure and of what a pointer points to.                   *)
cl == v("cl", "char", "local")
Bytes == Main(<<
  Ask(a) \o <<Q("DOT_ASSIGN", s, int(4), var(a)), Q("DOT", cl, var(s), int(4)),
    Q("DOT_ASSIGN", arr, int(8), var(cl)), Q("PASSIGN", p, var(arr), None),
    Q("DOT", cl, var(p), int(8)), Q("DOT_ASSIGN", p, int(4), var(cl)),
    Q("DOT", b, var(arr), int(4)), Op("ADD", c, a, b)>> \o Show(c) \o Show(a) >>)

(* A function works on a structure and an array of its caller.             *)
Pointers == "main" :> Function(<<>>, <<a, s, arr>>, "void", {}, <<
              <<Q("DOT_ASSIGN", s, int(0), int(4)), [Param(var(s), ptr, "f") EXCEPT !.op = "PPARAM"],
                [Param(var(arr), arrp, "f") EXCEPT !.op = "PPARAM"]>> ,
              <<Call("f", a)>> \o Show(a) \o <<Q("DOT", b, var(s), int(8)),
                Q("DOT", c, var(arr), int(4))>> \o Show(b) \o Show(c) >>)
         @@ "f" :> Function(<<arrp, ptr>>, <<d>>, "int", {}, <<
              <<Q("DOT", a, var(ptr), int(0)), Q("DOT_ASSIGN", ptr, int(8), var(a)),
                Q("DOT", d, var(arrp), int(0)), Q("MUL", t(1), var(d), int(2)),
                Q("DOT_ASSIGN", arrp, var(t(1)), var(a)), Q("DOT", b, var(arrp), var(t(1))),
                Op("ADD", t(2), b, d), Return(var(t(2)))>> >>)

(* Floats go to and come from functions.                                   *)
tf(n) == Variable("t", n, "float", "temporary")
FloatCalls == "main" :> Function(<<>>, <<u, w>>, "void", {}, <<
                <<Q("FASSIGN", u, float(3), None), Param(var(u), fy, "f"),
                  Param(float(2), fx, "f"), Call("f", w)>> \o ShowF(w) \o ShowF(u) >>)
           @@ "f" :> Function(<<fx, fy>>, <<u>>, "float", {}, <<
                <<IfFalse("FL", var(fx), var(fy), 3)>>,
                <<Q("FMINUS", u, var(fx), None), Op("FMUL", tf(1), u, fy), Return(var(tf(1)))>>,
                <<Return(float(1))>> >>)

(* A parameter in a register and one on the stack live across calls.       *)
Recursion == "main" :> Function(<<>>, <<a, b>>, "void", {}, <<
               Ask(a) \o <<Q("ADD", b, var(a), int(1)), Param(int(1), y, "f"),
                 Param(var(b), x, "f"), Call("f", c)>> \o Show(c) >>)
          @@ "f" :> Function(<<x, y>>, <<a>>, "int", {}, <<
               <<IfFalse("GREATER", var(x), int(0), 3)>>,
               <<Q("SUB", t(1), var(x), int(1)), Op("MUL", t(2), x, y), Param(var(t(2)), y, "f"),
                 Param(var(t(1)), x, "f"), Call("f", a), Op("ADD", a, a, x), Return(var(a))>>,
               <<Return(int(5))>> >>)

(* More than eight words of zeroes, and a global variable.                 *)
Zeroes == "main" :> Function(<<>>, <<s, s2, s3>>, "void", {}, <<
  Ask(a) \o <<Q("DOT_ASSIGN", s2, int(4), var(a)), Q("DOT", b, var(s), int(8)),
    Q("DOT", c, var(s3), int(0)), Q("DOT", d, var(s2), int(4)), Op("ADD", e, g, d),
    Q("DOT", t(1), var(ga), int(4))>>
    \o Show(b) \o Show(c) \o Show(d) \o Show(e) \o Show(t(1)) >>)

(* Jumps on every kind of comparison.                                      *)
Comparisons == Main(<<
  Ask(a) \o <<IfFalse("UNARY", var(a), None, 3)>>,
  <<Set(b, 4), Goto(4)>>,
  <<Set(b, 3), If("LESS_EQUALS", int(2), var(a), 5)>>,
  Show(b) \o <<Q("I2F", u, var(b), None), If("FLE", var(u), float(3), 6)>>,
  <<Set(c, 1), IfFalse("FNE", float(4), var(u), 7)>>,
  Show(a),
  <<Q("NOT_EQUALS", d, int(4), var(b)), Q("FGE", e, var(u), float(4))>> \o Show(d) \o Show(e) >>)

(* The forms of the operators that the code tells apart.                   *)
Operators == Main(<<
  Ask(a) \o <<Q("MINUS", b, var(a), None), Q("MINUS", b, var(b), None), Q("MUL", c, int(3), var(b)),
    Op("MUL", c, c, a), Q("SUB", d, int(5), var(c)), Op("SUB", d, d, a), Q("ADD", e, int(2), int(3)),
    Q("ADD", e, var(e), int(3)), Q("DIV", e, var(e), int(2)), Q("AND", t(1), var(e), int(1)),
    Q("MUL", t(2), var(e), int(5)), Q("MUL", t(2), var(t(2)), int(4)), Q("ADD", t(2), var(t(2)), int(1))>>
    \o Show(b) \o Show(c) \o Show(d) \o Show(t(1)) \o Show(t(2)) >>)

Alone == {Pressure, Division, Loop, Choice, Members, Floats, Bytes, Zeroes, Comparisons, Operators}
WithCalls == {Called, Early, Chars, Pointers, FloatCalls, Recursion}
MCPrograms == Alone \union WithCalls
=============================================================================
