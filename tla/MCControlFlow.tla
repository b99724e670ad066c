--------------------------- MODULE MCControlFlow ----------------------------
(* The lists of quadruples that the MTAC compiler makes of small functions *)
(* (mtac/Compiler.cpp): sequences, if, if - else and do - while, with a    *)
(* RETURN or a CALL here and there.                                        *)
EXTENDS ControlFlow, TLC

Q(op, label) == <<[op |-> op, target |-> label]>>

IfThen(l, S) == Q("if_false", l) \o S \o Q("label", l)
IfElse(l, S, T) ==
  Q("if_false", l) \o S \o Q("goto", l + 1) \o Q("label", l) \o T \o Q("label", l + 1)
DoWhile(l, S) == Q("label", l) \o S \o Q("if", l)
And(l, S, T) ==
  Q("if_false", l) \o Q("if_false", l) \o S \o Q("goto", l + 1) \o Q("label", l)
    \o T \o Q("label", l + 1)

op == Q("op", None)
call == Q("call", None)
pure == Q("pure", None)
return == Q("return", None)

Bodies == {<<>>, op, call, return}

Nested(l, B) ==
  {IfThen(l, S) : S \in B} \union {DoWhile(l, S) : S \in B}
    \union {IfElse(l, S, T) : S \in B, T \in B}

Lists ==
  {S \o T \o U : S \in {<<>>, op}, T \in Nested(1, Bodies), U \in {<<>>, op, call}}
  \union {And(1, S, T) : S \in Bodies, T \in Bodies}
  \union {IfThen(1, S) \o T : S \in Nested(3, Bodies), T \in {<<>>, Q("safe", None)}}
  \union {DoWhile(1, S) \o T : S \in Nested(3, {<<>>, op, return}), T \in {<<>>, op}}
  \union {S \o T : S \in Nested(1, {<<>>, op}), T \in Nested(3, {<<>>, op})}

(* Calls of functions found pure: cut from what is around them, merged     *)
(* again, next to calls that stay alone.                                   *)
Pure ==
  {S \o T \o U : S \in {<<>>, pure}, T \in Nested(1, {<<>>, pure, pure \o call}),
                 U \in {<<>>, pure, call \o pure}}
  \union {DoWhile(1, S) : S \in Nested(3, {pure, op \o pure \o pure})}

MCPrograms ==
  {[i \in DOMAIN p |-> [op |-> p[i].op, target |-> p[i].target, id |-> i]] : p \in Lists \union Pure}
=============================================================================
