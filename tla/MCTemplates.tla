---------------------------- MODULE MCTemplates ----------------------------
(* Programs of function templates f and g, class templates A and B (and C  *)
(* of two parameters), a structure S with a member function template, and  *)
(* main.                                                                   *)
EXTENDS Templates

int == <<"int">>
float == <<"float">>
void == <<"void">>
T == <<"T">>
S == <<"S">>
D == <<"D">>
A(t) == <<"A", t>>
B(t) == <<"B", t>>
ptr(t) == <<"*", t>>

declare(t) == [is |-> "type", type |-> t]
call(name, targs, args) == [is |-> "call", name |-> name, targs |-> targs, args |-> args]
on(t, name, targs, args) ==
  [is |-> "member", object |-> t, name |-> name, targs |-> targs, args |-> args]

Unit(kind, name, tparams, params, body) ==
  [kind |-> kind, name |-> name, tparams |-> tparams, targs |-> <<>>,
   returns |-> void, params |-> params, body |-> body, members |-> <<>>,
   blocks |-> <<>>, parent |-> None, struct_type |-> None, inside |-> None,
   this |-> FALSE, member |-> FALSE, generated |-> FALSE, seen |-> <<>>]

function(name, params, body) == Unit("function", name, <<>>, params, body)
template(name, params, body) == Unit("function", name, <<"T">>, params, body)
method(name, params, body) == [function(name, params, body) EXCEPT !.member = TRUE]
method_template(name, params, body) ==
  [Unit("function", name, <<"U">>, params, body) EXCEPT !.member = TRUE]
constructor(params, body) ==
  [Unit("constructor", "", <<>>, params, body) EXCEPT !.member = TRUE]

struct(name, tparams, members, blocks_) ==
  << [Unit("struct", name, tparams, <<>>, <<>>) EXCEPT !.members = members], blocks_ >>
derived(s, parent) == << [s[1] EXCEPT !.parent = parent], s[2] >>

(* structures, each with its functions, and functions to units             *)
RECURSIVE Loaded(_, _, _)
Loaded(ss, fs, p) ==
  IF ss # <<>>
  THEN LET n == Len(p.units)
           own == Head(ss)[2]
       IN Loaded(Tail(ss), fs,
            [units |-> p.units \o << [Head(ss)[1] EXCEPT !.blocks =
                        [i \in DOMAIN own |-> n + 1 + i]] >> \o own,
             blocks |-> Append(p.blocks, n + 1)])
  ELSE [units |-> p.units \o fs,
        blocks |-> p.blocks \o [i \in DOMAIN fs |-> Len(p.units) + i]]
Load(ss, fs) == Loaded(ss, fs, [units |-> <<>>, blocks |-> <<>>])

(* What a template may mention: one of another, of its own instance, of a  *)
(* class, of a class that calls it back.                                   *)
InTemplate == {<<>>, <<call("g", <<T>>, <<T>>)>>, <<declare(A(T))>>,
               <<call("f", <<T>>, <<T>>)>>, <<declare(A(T)), on(A(T), "m", <<>>, <<T>>)>>}
InMethod == {<<>>, <<declare(B(T))>>, <<call("f", <<T>>, <<T>>)>>, <<declare(A(T))>>}
InMain == {<<call("f", <<int>>, <<int>>)>>,
           <<declare(A(int)), call("f", <<int>>, <<int>>), call("f", <<float>>, <<float>>)>>,
           <<declare(S), on(S, "mt", <<int>>, <<int>>), declare(ptr(B(float)))>>}

ClassA(body) == struct("A", <<"T">>, <<T>>, <<method("m", <<T>>, body)>>)
ClassB(body) == struct("B", <<"T">>, <<T>>, <<constructor(<<T>>, body)>>)
StructS(body) == struct("S", <<>>, <<int>>, <<method("n", <<>>, <<>>),
                                              method_template("mt", << <<"U">> >>, body)>>)

Main(body) == function("main", <<>>, body)

Families ==
  {Load(<<ClassA(a), ClassB(<<declare(A(T))>>), StructS(s)>>,
        <<template("f", <<T>>, f), template("g", <<T>>, g), Main(m)>>) :
     a \in InMethod, s \in {<<>>, <<call("f", << <<"U">> >>, << <<"U">> >>)>>},
     f \in InTemplate, g \in {<<>>, <<declare(ptr(A(T)))>>, <<call("f", <<T>>, <<T>>)>>},
     m \in InMain}

(* Single programs: instances without end, with the wrong number of types, *)
(* of nothing, twice the same name, inheritance, structures by value.      *)
ClassC == struct("C", <<"T", "V">>, <<T>>, <<>>)
Singles ==
  {Load(<<ClassA(<<declare(A(A(T)))>>)>>, <<Main(<<declare(A(int))>>)>>),
   Load(<<ClassA(<<>>), ClassC>>, <<Main(<<declare(<<"A", int, float>>)>>)>>),
   Load(<<ClassA(<<>>), ClassC>>,
        <<Main(<<declare(<<"A", int, float>>), declare(<<"C", int, float>>)>>)>>),
   Load(<<>>, <<Main(<<declare(A(int))>>)>>),
   Load(<<>>, <<Main(<<call("f", <<int>>, <<>>)>>)>>),
   Load(<<>>, <<template("f", <<>>, <<>>),
                Main(<<call("f", <<int>>, <<>>), call("f", <<float>>, <<>>)>>)>>),
   Load(<<struct("S", <<>>, <<A(int)>>, <<>>), ClassA(<<>>)>>, <<Main(<<declare(S)>>)>>),
   Load(<<struct("S", <<>>, <<S>>, <<>>)>>, <<Main(<<>>)>>),
   Load(<<struct("S", <<>>, <<D>>, <<>>)>>, <<Main(<<>>)>>),
   Load(<<derived(struct("S", <<>>, <<>>, <<method("n", <<>>, <<call("o", <<>>, <<>>)>>)>>),
                  D),
          struct("D", <<>>, <<>>, <<method("o", <<>>, <<>>)>>)>>,
        <<Main(<<declare(S), on(S, "o", <<>>, <<>>)>>)>>),
   Load(<<derived(struct("S", <<>>, <<>>, <<>>), D), derived(struct("D", <<>>, <<>>, <<>>), S)>>,
        <<Main(<<>>)>>),
   Load(<<derived(struct("S", <<>>, <<>>, <<>>), D)>>, <<Main(<<>>)>>),
   Load(<<struct("S", <<>>, <<>>, <<>>), struct("S", <<>>, <<>>, <<>>)>>, <<Main(<<>>)>>),
   Load(<<struct("S", <<>>, <<int>>, <<>>), ClassA(<<>>)>>,
        <<function("h", <<S>>, <<>>), Main(<<declare(S), call("h", <<>>, <<S>>)>>)>>),
   Load(<<ClassA(<<>>)>>,
        <<function("h", <<A(int)>>, <<>>),
          Main(<<declare(A(int)), call("h", <<>>, <<A(int)>>)>>)>>),
   Load(<<struct("A", <<"T">>, <<T>>, <<method_template("mt", << <<"U">> >>, <<>>)>>)>>,
        <<template("f", <<T>>, <<declare(A(T)), on(A(T), "mt", <<int>>, <<int>>)>>),
          Main(<<declare(A(int)), on(A(int), "mt", <<float>>, <<float>>),
                 call("f", <<float>>, <<float>>)>>)>>),
   Load(<<ClassA(<<>>), ClassB(<<>>)>>,
        <<template("f", <<T>>, <<declare(ptr(B(T))), on(ptr(B(T)), "m", <<>>, <<>>)>>),
          Main(<<declare(A(int)), call("f", <<int>>, <<int>>)>>)>>)}

MCPrograms == Families \cup Singles
MCBuiltin == {int, float, void}
MCStandard == {mangle("function", None, "print", <<int>>)}
============================================================================
