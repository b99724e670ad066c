---------------------------- MODULE Propagation ----------------------------
(***************************************************************************)
(* ConstantPropagationProblem and OffsetConstantPropagationProblem: the    *)
(* constants and copies that reach a statement, of variables and of the    *)
(* members of structures and arrays.  The solver is that of DataFlow, here *)
(* with the values of the problems.                                        *)
(*                                                                         *)
(* A domain is top or a function; a variable it does not hold is undefined *)
(* for constants and unknown for members.                                  *)
(***************************************************************************)
EXTENDS Values

NAC == <<"nac">>

Top == [top |-> TRUE, values |-> << >>]
Domain(values) == [top |-> FALSE, values |-> values]

(* meet: the two problems differ in what a value of one side alone says.   *)
Both(v, w) == DOMAIN v \intersect DOMAIN w
MeetConstants(v, w) ==
  [x \in {y \in Both(v, w) : v[y] # w[y]} |-> NAC] @@ v @@ w

(* The intersection keeps what only the first side knows.                  *)
intersection_meet(v, w) ==
  [x \in {y \in DOMAIN v : y \in DOMAIN w => v[y] = w[y]} |-> v[x]]

meet(problem, in, out) ==
  IF in.top /\ out.top THEN Domain(<< >>)
  ELSE IF in.top THEN out
  ELSE IF out.top THEN in
  ELSE Domain(IF problem = "constants" THEN MeetConstants(in.values, out.values)
              ELSE intersection_meet(in.values, out.values))

(* operator==: for constants, what is constant and not which constant.     *)
Equal(problem, d, e) ==
  IF d.top \/ e.top \/ problem # "constants" THEN d = e
  ELSE /\ DOMAIN d.values = DOMAIN e.values
       /\ \A x \in DOMAIN d.values : (d.values[x] = NAC) = (e.values[x] = NAC)

-----------------------------------------------------------------------------
(* transfer of ConstantPropagationProblem.                                 *)

Constant(v, a) ==
  IF ~isVariable(a) THEN a ELSE IF Known(v, a) THEN v[a[2]] ELSE NAC

(* Looking a variable up enters it, as not a constant.                     *)
LookedUp(v, q, of(_)) ==
  LET first == isVariable(q.a1)
      S == {a[2] : a \in {a \in {q.a1, q.a2} :
              isVariable(a) /\ (a = q.a1 \/ ~first \/ of(Constant(v, q.a1)))}}
  IN  v @@ [x \in S |-> NAC]

Arithmetic(v, q, of(_), Lift(_)) ==
  LET a == Constant(v, q.a1)
      b == Constant(v, q.a2)
      literal == ~isVariable(q.a1) /\ ~isVariable(q.a2)
  IN  Bind(LookedUp(v, q, of), q.res,
           IF of(a) /\ of(b) /\ ~literal THEN Lift(compute(q.op, a[2], b[2])) ELSE NAC)

(* The variable the statement gives a new value to, and all copies of it.  *)
Overwritten(q) ==
  IF q.op = "PPARAM" THEN IF isVariable(q.a1) THEN {q.a1[2]} ELSE {}
  ELSE IF erase_result(q.op) THEN {q.res} ELSE {}

CancelCopies(v, S) ==
  [x \in {y \in DOMAIN v : isVariable(v[y]) /\ v[y][2] \in S} |-> NAC] @@ v

(* Faulty variant: the copies of what is overwritten stay.                 *)
ConstantTransfer_stale(v, q) ==
  CASE q.op \in {"ASSIGN", "FASSIGN"} ->
         IF is(q.a1, q.res) THEN v ELSE Bind(v, q.res, q.a1)
    [] q.op \in IntArithmetic -> Arithmetic(v, q, isInt, int)
    [] q.op \in FloatArithmetic -> Arithmetic(v, q, isFloat, float)
    [] q.op # "NOP" /\ Overwritten(q) # {} ->
         Bind(v, CHOOSE x \in Overwritten(q) : TRUE, NAC)
    [] OTHER -> v

ConstantTransfer(v, q) ==
  LET own == CASE q.op \in {"ASSIGN", "FASSIGN"} ->
                    IF is(q.a1, q.res) THEN v ELSE Bind(v, q.res, q.a1)
               [] q.op \in IntArithmetic -> Arithmetic(v, q, isInt, int)
               [] q.op \in FloatArithmetic -> Arithmetic(v, q, isFloat, float)
               [] q.op # "NOP" /\ Overwritten(q) # {} ->
                    Bind(v, CHOOSE x \in Overwritten(q) : TRUE, NAC)
               [] OTHER -> v
  IN  CancelCopies(own, Overwritten(q))

-----------------------------------------------------------------------------
(* transfer of OffsetConstantPropagationProblem.  Its values are those of  *)
(* <<variable, offset>>; the offsets whose address was taken so far, in    *)
(* the order the solver looks at the statements, are a state of the        *)
(* problem that it never forgets.                                          *)

Drop(v, S) == [o \in DOMAIN v \ S |-> v[o]]
OfVariable(v, x) == {o \in DOMAIN v : o[1] = x}

OffsetStored(v, q) ==
  CASE q.op \in Stores /\ isInt(q.a1) /\ q.res.type # "pointer" ->
         Bind(v, <<q.res, q.a1[2]>>, q.a2)
    [] q.op \in Stores /\ isVariable(q.a1) -> Drop(v, OfVariable(v, q.res))
    [] q.op = "PPARAM" /\ isVariable(q.a1) -> Drop(v, OfVariable(v, q.a1[2]))
    [] OTHER -> v

Escaped(escaped, q) ==
  IF q.op = "PDOT" /\ isInt(q.a2) THEN escaped \union {<<q.a1[2], q.a2[2]>>} ELSE escaped

OffsetTransfer(v, q, escaped) ==
  LET w == Drop(OffsetStored(v, q), escaped)
  IN  IF ~erase_result(q.op) THEN w
      ELSE Drop(w, {o \in DOMAIN w : is(w[o], q.res)})

(* Boundary: the aggregates of the function are as they were laid out.     *)
OffsetBoundary(f) ==
  LET S == {o \in ToSet(f.storage) \X (0 .. MemberWords - 1) : Aggregate(o[1])}
  IN  [o \in S |-> Initially(o[1], o[2])]

-----------------------------------------------------------------------------
(* fast_forward_data_flow: a block is gone through once for every          *)
(* predecessor; IN starts as top, and so does OUT but for ENTRY.           *)

transfer(problem, s, q) ==
  IF problem = "constants" THEN [s EXCEPT !.v = ConstantTransfer(@, q)]
  ELSE LET escaped == Escaped(s.escaped, q)
       IN  [v |-> OffsetTransfer(s.v, q, escaped), escaped |-> escaped]

Through(problem, f, s, edge) ==
  LET b == edge[2]
      in == meet(problem, s.in[b], s.out[edge[1]])
      t == FoldLeft(LAMBDA a, q : transfer(problem, a, q),
                    [v |-> in.values, escaped |-> s.escaped], f.code[b])
  IN  [s EXCEPT !.in[b] = in, !.out[b] = Domain(t.v), !.escaped = t.escaped,
                !.changes = @ \/ ~Equal(problem, s.out[b], Domain(t.v))]

Edges(f) ==
  FlattenSeq([i \in DOMAIN f.list |->
                IF f.list[i] = ENTRY THEN <<>>
                ELSE [j \in DOMAIN f.pred[f.list[i]] |-> <<f.pred[f.list[i]][j], f.list[i]>>]])

RECURSIVE Solved(_, _, _)
Solved(problem, f, s) ==
  LET t == FoldLeft(LAMBDA a, edge : Through(problem, f, a, edge),
                    [s EXCEPT !.changes = FALSE], Edges(f))
  IN  IF t.changes THEN Solved(problem, f, t) ELSE t

data_flow(problem, f, boundary) ==
  Solved(problem, f,
         [in |-> [b \in Blocks(f) |-> Top],
          out |-> [b \in Blocks(f) |-> IF b = ENTRY THEN Domain(boundary) ELSE Top],
          escaped |-> {}, changes |-> FALSE])

-----------------------------------------------------------------------------
(* optimize: every block is rewritten from what reaches it, each statement *)
(* transferred as it is afterwards.                                        *)

(* Faulty variant: what is known not to be a constant counts as a change.  *)
ReplaceConstants_busy(pointer_escaped, v, q) ==
  LET arg(a) == IF Known(v, a) /\ a[2] \notin pointer_escaped /\ v[a[2]] # NAC
                THEN v[a[2]] ELSE a
      a1 == IF q.op \in {"PPARAM", "DOT", "PDOT", "PASSIGN"} THEN q.a1 ELSE arg(q.a1)
      a2 == IF q.op \in {"PPARAM", "PARAM", "DOT_PASSIGN"} THEN q.a2 ELSE arg(q.a2)
  IN  [q |-> [q EXCEPT !.a1 = a1, !.a2 = a2], optimized |-> Known(v, q.a1) \/ Known(v, q.a2)]

(* Arguments are replaced where a value is wanted and not a place; a store *)
(* and a CALL follow the copy of the variable they name.                   *)
ReplaceConstants(pointer_escaped, v, q) ==
  LET arg(a) == IF Known(v, a) /\ a[2] \notin pointer_escaped /\ v[a[2]] # NAC
                THEN v[a[2]] ELSE a
      follow == ~erase_result(q.op) /\ q.op \notin {"DOT_ASSIGN", "PARAM", "PPARAM"}
                  /\ q.res \in DOMAIN v /\ isVariable(v[q.res])
      a1 == IF q.op \in {"PPARAM", "DOT", "PDOT", "PASSIGN"} THEN q.a1 ELSE arg(q.a1)
      a2 == IF q.op \in {"PPARAM", "PARAM", "DOT_PASSIGN"} THEN q.a2 ELSE arg(q.a2)
  IN  [q |-> [q EXCEPT !.a1 = a1, !.a2 = a2, !.res = IF follow THEN v[q.res][2] ELSE @],
       optimized |-> a1 # q.a1 \/ a2 # q.a2]

(* A member that is known becomes an assignment.                           *)
ReplaceOffset(pointer_escaped, v, q) ==
  LET o == <<q.a1[2], q.a2[2]>>
      points == q.res.type = "pointer" /\ isVariable(v[o]) /\ v[o][2].type # "pointer"
  IN  IF /\ q.op \in {"DOT", "FDOT"}
         /\ isInt(q.a2) /\ isVariable(q.a1)
         /\ o \in DOMAIN v /\ q.a1[2] \notin pointer_escaped
      THEN Assign(q, IF q.op = "FDOT" THEN "FASSIGN"
                     ELSE IF points THEN "PASSIGN" ELSE "ASSIGN", v[o])
      ELSE Same(q)

optimize(problem, f, boundary) ==
  LET pointer_escaped == escape_analysis(f)
      results == data_flow(problem, f, boundary)
      visit(q, s) ==
        LET r == IF problem = "constants" THEN ReplaceConstants(pointer_escaped, s.v, q)
                 ELSE ReplaceOffset(pointer_escaped, s.v, q)
        IN  [q |-> r.q, optimized |-> r.optimized, s |-> transfer(problem, s, r.q)]
      done == [b \in Blocks(f) |->
                 IF results.in[b].top THEN [code |-> f.code[b], optimized |-> FALSE]
                 ELSE Visited(f.code[b], [v |-> results.in[b].values,
                                          escaped |-> results.escaped], visit)]
  IN  Result([f EXCEPT !.code = [b \in DOMAIN f.code |->
                                   IF b \in Blocks(f) THEN done[b].code ELSE f.code[b]]],
             \E b \in Blocks(f) : done[b].optimized)

ConstantPropagation(f) == optimize("constants", f, << >>)
OffsetConstantPropagation(f) == optimize("offsets", f, OffsetBoundary(f))
=============================================================================
