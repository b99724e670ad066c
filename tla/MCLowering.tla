---------------------------- MODULE MCLowering -----------------------------
(* Every small function of a few families: statements whose conditions are *)
(* calls that answer anything, short-circuit operators and ternaries; the  *)
(* same nested in each other; nested calls and assignments in arguments;   *)
(* objects of a structure type in branches and in loops.                   *)
EXTENDS Lowering, TLC

x == "x"
y == "y"

Ask1 == Call("ask 1", <<>>)
Ask2 == Call("ask 2", <<>>)
MCAnswers(f) == IF f \in {"ask 1", "ask 2"} THEN {0, 1} ELSE IF f = "one" THEN {1} ELSE {0}

Do(f, args) == Expression(Call(f, args))
Step == Do("step", <<Variable(x)>>)
ReturnX == [k |-> "return", v |-> Variable(x), struct |-> FALSE]
ReturnStruct == [ReturnX EXCEPT !.struct = TRUE]
B(body) == Block({}, body)

While(c, body) == [k |-> "while", cond |-> c, ctx |-> {}, body |-> body]
For(start, c, repeat, body) ==
  [k |-> "for", start |-> start, cond |-> c, repeat |-> repeat, ctx |-> {}, body |-> body]
Foreach(from, to, body) ==
  [k |-> "foreach", x |-> y, from |-> from, to |-> to, ctx |-> {}, body |-> body]
Switch(v, cases, default) ==
  [k |-> "switch", v |-> v, ctx |-> {}, cases |-> cases, default |-> default]
Case(c, body) == [value |-> c, ctx |-> {}, body |-> body]
ElseIf(c, body) == [cond |-> c, ctx |-> {}, body |-> body]
IfElse(c, body, else) == If(c, {}, body, <<>>, else)
Compound(v) == [k |-> "compound", x |-> x, v |-> v]
Struct(s) == [k |-> "struct", x |-> s]
Swap == [k |-> "swap", x |-> x, y |-> y]
PostInc(v) == [k |-> "x++", x |-> v]
PreInc(v) == [k |-> "++x", x |-> v]
Ternary(c, l, r) == [k |-> "ternary", cond |-> c, l |-> l, r |-> r]

Less2 == Binary("less", PostInc(x), Const(2))
Conditions ==
  {Ask1, Binary("and", Ask1, Ask2), Binary("or", Ask1, Ask2),
   Binary("and", Binary("or", Ask1, Ask2), Less2), Ternary(Ask1, Ask2, Less2)}

Increment_ == Expression(PostInc(x))
Small == {<<>>, <<Step>>, <<Increment_, Step>>, <<ReturnX>>}

Loops(C, Bodies_) ==
  {While(c, b) : c \in C, b \in Bodies_}
    \union {DoWhile(c, {}, b) : c \in C, b \in Bodies_}
    \union {For(s, <<c>>, r, b) : s \in {<<>>, <<Assign(x, Const(1))>>}, c \in C,
              r \in {<<>>, <<Compound(Const(2))>>}, b \in Bodies_}
    \union {For(<<>>, <<>>, <<>>, b \o <<IfElse(Ask1, <<ReturnX>>, <<>>)>>) : b \in Bodies_}
    \union {Foreach(from, to, b) : from \in 0 .. 1, to \in 0 .. 2, b \in Bodies_}

Branches(C, Bodies_) ==
  {IfElse(c, b, e) : c \in C, b \in Bodies_, e \in {<<>>, <<B(<<Step, Swap>>)>>}}
    \union {If(c, {}, b, is \o <<ElseIf(Ask1, b)>>, e) : c \in C, b \in Bodies_,
              is \in {<<>>, <<ElseIf(Ask2, <<>>)>>}, e \in {<<>>, <<B(<<Step>>)>>}}
    \union {Switch(Variable(x), <<Case(0, b), Case(d, <<Step>>)>>, e) :
              b \in Bodies_, d \in {0, 1}, e \in {<<>>, <<B(<<Increment_, Step>>)>>}}

Statements == Loops(Conditions, Small) \union Branches(Conditions, Small)
Nested == Loops({Ask1}, {<<s>> : s \in Branches({Ask2}, {<<Step>>, <<ReturnX>>})})
            \union Branches({Ask1}, {<<s, Step>> : s \in Loops({Ask2}, {<<Step>>})})

(* f(g(1), x++, h(2, g(3))) and the like.                                  *)
Values ==
  {Const(1), PostInc(x), Call("one", <<Const(1)>>), Call("h", <<Const(2), Call("one", <<Const(3)>>)>>),
   Ternary(Ask1, Call("one", <<Const(4)>>), PreInc(x)), Binary("or", Ask1, Less2),
   [k |-> "assign", x |-> y, v |-> Call("one", <<Variable(x)>>)]}
Calls == {Do("f", <<v, w, u>>) : v, w \in Values, u \in {Const(5), Call("one", <<Const(6)>>)}}

(* Objects are numbers.                                                    *)
Objects ==
  {<<Struct(1), IfElse(Ask1, <<Struct(2), Step>>, e), Step>> :
     e \in {<<>>, <<B(<<Struct(3)>>)>>}}
  \union {<<If(Ask1, {}, <<Struct(1)>>, <<ElseIf(Ask2, <<Struct(2), Step>>)>>,
               <<B(<<Struct(3), IfElse(Ask1, <<Struct(4)>>, <<>>)>>)>>), Step>>}

(* Loops that test last, or not at all, keep their own context; in the     *)
(* others it is an if that declares the objects.                           *)
IfObjects(e) == IfElse(Ask2, <<Struct(1), Step>>, e)
ObjectBodies ==
  {<<Struct(1), Step>>, <<Struct(1), IfElse(Ask2, <<Struct(2), Step>>, <<>>)>>}
LastTested == {DoWhile(Ask1, {}, b) : b \in ObjectBodies}
NeverTested ==
  {For(<<>>, <<>>, r, b \o <<IfElse(Ask1, <<ReturnX>>, <<>>)>>) :
     r \in {<<>>, <<Compound(Const(2))>>}, b \in ObjectBodies}
ObjectLoops ==
  LastTested \union NeverTested
    \union Loops({Ask1, Less2}, {<<IfObjects(e)>> : e \in {<<>>, <<B(<<Struct(2)>>)>>}})
    \union {IfElse(Ask2, <<Struct(3), s>>, <<>>) : s \in LastTested}

(* A loop that tests first becomes an if around a do while, which share    *)
(* its context and both destroy its objects: once too often, against       *)
(* SameCalls.  Not among the functions below.                              *)
FirstTested == {While(Ask1, <<Struct(1), Step>>),
                For(<<>>, <<Ask1>>, <<>>, <<Struct(1), Step>>),
                Foreach(0, 1, <<Struct(1), Step>>)}

MCFunctions ==
  {<<s, Step>> : s \in Statements \union Nested \union Calls \union ObjectLoops}
    \union {<<Step, ReturnStruct>>} \union Objects
=============================================================================
