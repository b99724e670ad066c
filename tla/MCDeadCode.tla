----------------------------- MODULE MCDeadCode -----------------------------
(* Dead code elimination on every small function made of these statements. *)
EXTENDS DeadCode, TLC

CONSTANTS a, b, p, g, s, o0, o1, First, Second

S(op, res, a1, a2) == Stmt(op, res, a1, a2)

MCVars == {a, b, p, g, s}
MCOffsets == {o0, o1}
MCPointerMembers == {<<s, o1>>}

SetA == S("ASSIGN", a, Imm, None)
UseB == S("PARAM", None, b, None)

(* Scalars, a global variable and calls; a variable and a pointer to it;   *)
(* the members of a structure.                                             *)
Scalars  == {SetA, S("ASSIGN", a, a, Imm), S("ASSIGN", b, a, None), UseB,
             S("ASSIGN", g, g, Imm), S("ASSIGN", g, a, None),
             S("CALL", b, None, None)}
Derefs   == {SetA, S("PASSIGN", p, a, None), S("DOT", b, p, o0),
             S("DOT_ASSIGN", p, o0, b), UseB, S("RETURN", None, a, None)}
Members_ == {S("DOT_ASSIGN", s, o0, a), S("DOT_ASSIGN", s, o1, Imm), SetA,
             S("DOT", b, s, o0), S("DOT", a, s, b), S("PPARAM", None, s, None)}

Upto(n, Q) == UNION {[1 .. k -> Q] : k \in 0 .. n}

(* Three shapes: a line, a branch over the second block, a loop on it.     *)
Shapes == {<< <<2>>, <<3>>, <<4>>, <<>> >>,
           << <<2>>, <<3, 4>>, <<4>>, <<>> >>,
           << <<2>>, <<3>>, <<2, 4>>, <<>> >>}

Function(shape, x, y) ==
  [n |-> 4, source |-> 4, deps |-> shape, code |-> << <<>>, x, y, <<>> >>]

Family(Q, m, n) == {Function(shape, x, y) :
                      shape \in Shapes, x \in Upto(m, Q), y \in Upto(n, Q)}

MCPrograms == UNION {Family(Q, First, Second) :
                       Q \in {Scalars, Derefs, Members_}}
=============================================================================
