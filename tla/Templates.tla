----------------------------- MODULE Templates -----------------------------
(***************************************************************************)
(* The pass manager of the front end and the template engine               *)
(* (ast/PassManager.cpp, ast/TemplateEngine.cpp), with what the passes do  *)
(* to the tables of structures and functions.                              *)
(*                                                                         *)
(* The units of a program are its functions, structures and the functions  *)
(* of the structures; a body is the list of what it mentions: the types of *)
(* its variables, its calls and its calls of member functions.  A unit     *)
(* keeps the list of the passes it has been through.                       *)
(*                                                                         *)
(* An instantiation happens inside the pass that meets the mention, and    *)
(* runs passes itself: the stack of the calls in progress is `todo`, the   *)
(* list of what is still to be executed, next first.                       *)
(*                                                                         *)
(* A type is <<name>>, <<"*", type>> or, of a template, <<name, type,..>>. *)
(***************************************************************************)
EXTENDS Integers, FiniteSets, Sequences, SequencesExt, Functions, TLC

CONSTANTS
  Programs,   \* [units, blocks]: what the parser makes of source files
  Builtin,    \* the types int, char, ...
  Standard,   \* the standard functions
  MaxDepth    \* the option template-depth

VARIABLES
  units,                              \* every function and structure there is
  blocks,                             \* program.blocks, as indices of units
  todo,                               \* the calls in progress
  applied_passes,
  class_instantiated, functions_instantiated,
  template_depth,
  class_templates, function_templates,
  class_template_instantiations, function_template_instantiations,
  structs, functions,                 \* GlobalContext: m_structs, m_functions
  current_struct,                     \* of the member function collection
  moved,                              \* program.blocks has grown since the
                                      \* class templates were collected
  valid,                              \* no exception in the current pass
  outcome

engine == <<class_templates, function_templates,
            class_template_instantiations, function_template_instantiations>>
manager == <<applied_passes, class_instantiated, functions_instantiated,
             template_depth>>
tables == <<structs, functions, current_struct>>
vars == <<units, blocks, todo, manager, engine, tables, moved, valid, outcome>>

None == <<>>

Passes == <<"clean", "context annotation", "structures collection",
  "structures inheritance", "templates collection",
  "structures member collection", "function generation", "structure check",
  "default values", "member function collection", "function collection",
  "variables annotation", "function check", "string collection",
  "Type checking", "Transform", "Warnings">>

is_simple(pass) ==
  pass \in {"clean", "string collection", "Type checking", "Transform", "Warnings"}

-----------------------------------------------------------------------------
(* Types and names *)

is_pointer(t) == t # None /\ t[1] = "*"
is_template_type(t) == ~is_pointer(t) /\ Len(t) > 1
is_structure(t) == ~is_pointer(t) /\ t \notin Builtin
Target(t) == IF is_pointer(t) THEN t[2] ELSE t

RECURSIVE Pointed(_)
Pointed(t) == IF is_pointer(t) THEN Pointed(t[2]) ELSE t

(* Adaptor::replace: the parameters of a template become its arguments.    *)
RECURSIVE replace(_, _)
replace(t, replacements) ==
  IF Len(t) = 1
  THEN IF t[1] \in DOMAIN replacements THEN replacements[t[1]] ELSE t
  ELSE [i \in DOMAIN t |-> IF i > 1 THEN replace(t[i], replacements)
                           ELSE IF t[1] \in DOMAIN replacements
                           THEN replacements[t[1]][1] ELSE t[1]]

replaceAll(ts, replacements) ==
  [i \in DOMAIN ts |-> replace(ts[i], replacements)]

AdaptMention(m, replacements) ==
  CASE m.is = "type" -> [m EXCEPT !.type = replace(@, replacements)]
    [] m.is = "call" -> [m EXCEPT !.targs = replaceAll(@, replacements),
                                  !.args = replaceAll(@, replacements)]
    [] m.is = "member" -> [m EXCEPT !.object = replace(@, replacements),
                                    !.targs = replaceAll(@, replacements),
                                    !.args = replaceAll(@, replacements)]

is_template(u) == u.tparams # <<>>

(* Nothing is replaced in a template, of a member function for instance.   *)
Adaptor(u, replacements) ==
  IF is_template(u) THEN u
  ELSE [u EXCEPT !.returns = replace(@, replacements),
                 !.params = replaceAll(@, replacements),
                 !.members = replaceAll(@, replacements),
                 !.body = [i \in DOMAIN @ |-> AdaptMention(@[i], replacements)]]

Replacements(u, types) ==
  [p \in {u.tparams[i] : i \in DOMAIN types} |->
     types[CHOOSE i \in DOMAIN types :
             u.tparams[i] = p /\ \A j \in i + 1 .. Len(types) : u.tparams[j] # p]]

(* The name of a function carries the types of its parameters, without     *)
(* the object: <<kind, structure, name, types>>.                           *)
mangle(kind, struct_type, name, types) == <<kind, struct_type, name, types>>

mangled_name(u) ==
  IF u.kind = "destructor" THEN mangle(u.kind, u.struct_type, "", <<>>)
  ELSE mangle(u.kind, u.struct_type, u.name,
              IF u.this THEN Tail(u.params) ELSE u.params)

struct_exists(t) == Target(t) \in DOMAIN structs
exists(mangled) == mangled \in functions

(* struct_type and the structures it inherits from, nearest first.         *)
RECURSIVE Ancestry(_)
Ancestry(t) ==
  IF t \notin DOMAIN structs THEN <<t>>
  ELSE IF structs[t].parent_type = None THEN <<t>>
  ELSE <<t>> \o Ancestry(structs[t].parent_type)

-----------------------------------------------------------------------------
(* Control *)

Item == Head(todo)
Doing(what) == todo # <<>> /\ outcome = "running" /\ Head(todo)[1] = what
Then(items) == todo' = items \o Tail(todo)

(* A SemanticalException is caught where a pass takes the next block of    *)
(* the program; one thrown over the whole program is not.                  *)
Throw ==
  LET handlers == {i \in 2 .. Len(todo) : todo[i][1] \in {"block", "end"}}
      inBlock == Item[1] # "program" \/ Item[3]
  IN /\ IF inBlock
        THEN /\ todo' = SubSeq(todo, CHOOSE i \in handlers :
                                       \A j \in handlers : i <= j, Len(todo))
             /\ UNCHANGED outcome
        ELSE outcome' = "rejected" /\ todo' = <<>>
     /\ valid' = FALSE

Went(u, pass) == [units EXCEPT ![u].seen = Append(@, pass)]

(* run_passes *)
Run ==
  /\ Doing("run")
  /\ LET k == Item[2]
         rest == IF k = Len(Passes) THEN <<>> ELSE << <<"run", k + 1>> >>
     IN IF is_simple(Passes[k])
        THEN /\ units' = [u \in DOMAIN units |->
                            IF k > 1 /\ is_template(units[u]) THEN units[u]
                            ELSE [units[u] EXCEPT !.seen = Append(@, Passes[k])]]
             /\ todo' = rest
             /\ outcome' = IF rest = <<>> THEN "accepted" ELSE outcome
             /\ UNCHANGED applied_passes
        ELSE /\ applied_passes' = Append(applied_passes, Passes[k])
             /\ Then(<< <<"program", Passes[k], FALSE>> >>
                     \o [i \in DOMAIN blocks |-> <<"block", Passes[k], blocks[i]>>]
                     \o << <<"end">> >> \o rest)
             /\ UNCHANGED <<units, outcome>>
  /\ UNCHANGED <<blocks, class_instantiated, functions_instantiated,
                 template_depth, engine, tables, moved, valid>>

(* The end of a pass: what was instantiated in it joins the program, the   *)
(* member functions the structure that they are instantiated for.          *)
Seconds(pairs) == [i \in DOMAIN pairs |-> pairs[i][2]]
InstantiatedIn_free(context) ==
  IF context # None THEN <<>>
  ELSE Seconds(SelectSeq(functions_instantiated, LAMBDA f : f[1] = context))

InstantiatedIn(context) ==
  Seconds(SelectSeq(functions_instantiated, LAMBDA f : f[1] = context))

(* The structure of the program with this type, a sequence of at most one. *)
Holder(bs, context) ==
  LET found == SelectSeq(bs, LAMBDA u : /\ units[u].kind = "struct"
                                        /\ ~is_template(units[u])
                                        /\ units[u].struct_type = context)
  IN IF found = <<>> THEN <<>> ELSE <<found[1]>>

EndPass ==
  /\ Doing("end")
  /\ IF valid
     THEN /\ blocks' = blocks \o class_instantiated \o InstantiatedIn(None)
          /\ units' = [u \in DOMAIN units |->
               IF Holder(blocks', units[u].struct_type) = <<u>>
               THEN [units[u] EXCEPT !.blocks = @ \o InstantiatedIn(units[u].struct_type)]
               ELSE units[u]]
          /\ moved' = (moved \/ blocks' # blocks)
          /\ class_instantiated' = <<>> /\ functions_instantiated' = <<>>
          /\ Then(<<>>)
          /\ UNCHANGED outcome
     ELSE /\ outcome' = "rejected" /\ todo' = <<>>
          /\ UNCHANGED <<blocks, units, moved, class_instantiated,
                         functions_instantiated>>
  /\ UNCHANGED <<applied_passes, template_depth, engine, tables, valid>>

(* apply_program.  A structure whose parent has no place in the tree of    *)
(* structures, or does not exist, ends the compilation.                    *)
Structures == {u \in Range(blocks) : units[u].kind = "struct" /\ ~is_template(units[u])}

RECURSIVE Resolved(_)
Resolved(known) ==
  LET more == {units[u].struct_type : u \in {v \in Structures :
                 \/ structs[units[v].struct_type].parent_type # None
                 \/ units[v].parent = None \/ units[v].parent \in known}}
  IN IF more \subseteq known THEN known ELSE Resolved(known \cup more)

ApplyProgram ==
  /\ Doing("program")
  /\ CASE Item[2] = "structures inheritance" ->
           LET orphans == {u \in Structures : units[u].parent # None
                                               /\ ~struct_exists(units[u].parent)}
               types == {units[u].struct_type : u \in Structures}
           IN /\ IF orphans # {} \/ Resolved({}) # types
                 THEN Throw /\ UNCHANGED structs
                 ELSE /\ structs' = [t \in DOMAIN structs |->
                           IF \E u \in Structures : units[u].struct_type = t
                           THEN [structs[t] EXCEPT !.parent_type =
                                   IF @ # None THEN @
                                   ELSE units[Holder(blocks, t)[1]].parent]
                           ELSE structs[t]]
                      /\ Then(<<>>)
                      /\ UNCHANGED <<valid, outcome>>
              /\ UNCHANGED engine
       [] Item[2] = "templates collection" /\ ~Item[3] ->
           /\ class_templates' = {u \in Range(blocks) :
                                    units[u].kind = "struct" /\ is_template(units[u])}
           /\ function_templates' = function_templates \cup
                {<<None, units[u].name>> : u \in {v \in Range(blocks) :
                     units[v].kind = "function" /\ is_template(units[v])}}
           /\ Then(<<>>)
           /\ UNCHANGED <<class_template_instantiations,
                          function_template_instantiations, structs, valid, outcome>>
       [] OTHER -> Then(<<>>) /\ UNCHANGED <<engine, structs, valid, outcome>>
  /\ UNCHANGED <<units, blocks, manager, functions, current_struct, moved>>

ApplyBlock ==
  /\ Doing("block")
  /\ LET u == Item[3] IN
     Then(IF is_template(units[u]) THEN <<>>
          ELSE IF units[u].kind = "struct" THEN << <<"struct", Item[2], u>> >>
          ELSE << <<"function", Item[2], u>> >>)
  /\ UNCHANGED <<units, blocks, manager, engine, tables, moved, valid, outcome>>

-----------------------------------------------------------------------------
(* apply_struct of each pass, then its functions *)

Functions(u) == SelectSeq(units[u].blocks, LAMBDA f : ~is_template(units[f]))

MembersOf(u, pass, us) ==
  LET fs == SelectSeq(us[u].blocks, LAMBDA f : ~is_template(us[f]))
  IN [i \in DOMAIN fs |-> <<"function", pass, fs[i]>>]

Members_before(u, pass, us) == MembersOf(u, pass, units)
Members(u, pass, us) == MembersOf(u, pass, us)

(* The functions that every structure has: where the program has none, a   *)
(* constructor without parameters, a destructor and, unless an array is a  *)
(* member, a constructor from a pointer to another.                        *)
Generated(u) ==
  LET s == units[u]
      own == {units[f] : f \in Range(s.blocks)}
      constructors == {f \in own : f.kind = "constructor"}
      unit(kind, params) ==
        [s EXCEPT !.kind = kind, !.name = "", !.params = params, !.body = <<>>,
                  !.members = <<>>, !.blocks = <<>>, !.parent = None,
                  !.targs = <<>>, !.generated = TRUE, !.seen = <<>>]
      copies(f) == f.params = << <<"*", s.struct_type>> >>
  IN (IF constructors = {} THEN <<unit("constructor", <<>>)>> ELSE <<>>)
     \o (IF \E f \in own : f.kind = "destructor" THEN <<>>
         ELSE <<unit("destructor", <<>>)>>)
     \o (IF \E f \in constructors : copies(f) THEN <<>>
         ELSE <<unit("constructor", << <<"*", <<s.struct_type[1]>>>> >>)>>)

(* The structures that one holds by value, at any depth.                   *)
Held(types) == UNION {{m \in Range(structs[t].members) : is_structure(m)} :
                        t \in types \cap DOMAIN structs}
RECURSIVE AllHeld(_)
AllHeld(types) == IF Held(types) \subseteq types THEN types
                  ELSE AllHeld(types \cup Held(types))

(* The one structure in another that nobody instantiated has no entry: the *)
(* search for a structure that contains itself follows a null pointer.     *)
Crashes(u, pass) ==
  /\ pass = "function check"
  /\ ~(AllHeld(Held({units[u].struct_type})) \subseteq DOMAIN structs)

WrongStruct(u, pass, type) ==
  CASE pass = "structures collection" -> type \in DOMAIN structs
    [] pass = "structure check" ->
         \E m \in Range(units[u].members) :
           is_structure(m) /\ ~is_template_type(m) /\ ~struct_exists(m)
    [] pass = "function check" ->
         \E t \in {type} \cup AllHeld(Held({type})) : t \in AllHeld(Held({t}))
    [] OTHER -> FALSE

UnitsAfter(u, pass, type) ==
  LET seen == Went(u, pass)
  IN CASE pass = "structures collection" ->
            [v \in DOMAIN units |->
               IF v = u THEN [seen[u] EXCEPT !.struct_type = type]
               ELSE IF v \in Range(Functions(u))
               THEN [units[v] EXCEPT !.inside = type] ELSE units[v]]
       [] pass = "function generation" ->
            [seen EXCEPT ![u].blocks =
               @ \o [i \in DOMAIN Generated(u) |-> Len(units) + i]] \o Generated(u)
       [] OTHER -> seen

StructsAfter(u, pass, type) ==
  CASE pass = "structures collection" ->
         (type :> [parent_type |-> None, members |-> <<>>]) @@ structs
    [] pass = "structures member collection" ->
         [structs EXCEPT ![type].members = units[u].members]
    [] OTHER -> structs

MemberTemplates(u, pass, type) ==
  IF pass # "templates collection" THEN {}
  ELSE {<<type, units[f].name>> : f \in
          {g \in Range(units[u].blocks) : is_template(units[g])}}

ApplyStruct ==
  /\ Doing("struct")
  /\ LET pass == Item[2]
         u == Item[3]
         type == <<units[u].name>> \o units[u].targs
     IN \/ /\ Crashes(u, pass)
           /\ outcome' = "crashed" /\ todo' = <<>>
           /\ UNCHANGED <<units, function_templates, structs, current_struct, valid>>
        \/ /\ WrongStruct(u, pass, type)
           /\ Throw
           /\ UNCHANGED <<units, function_templates, structs, current_struct>>
        \/ /\ ~Crashes(u, pass) /\ ~WrongStruct(u, pass, type)
           /\ units' = UnitsAfter(u, pass, type)
           /\ structs' = StructsAfter(u, pass, type)
           /\ function_templates' = function_templates \cup MemberTemplates(u, pass, type)
           /\ current_struct' = IF pass = "member function collection" THEN u
                                ELSE current_struct
           /\ Then(Members(u, pass, units'))
           /\ UNCHANGED <<valid, outcome>>
  /\ UNCHANGED <<blocks, manager, class_templates, class_template_instantiations,
                 function_template_instantiations, functions, moved>>

-----------------------------------------------------------------------------
(* apply_function, apply_struct_function, ... of each pass *)

(* annotate: the object becomes the first parameter.                       *)
Annotated(f) ==
  [f EXCEPT !.struct_type = units[current_struct].struct_type,
            !.params = << <<"*", <<units[current_struct].name>>
                                   \o units[current_struct].targs>> >> \o @,
            !.this = TRUE]

(* What the two passes that look for types do, in their order.             *)
Types(u) == [i \in DOMAIN units[u].params |-> <<"type", units[u].params[i]>>]
Declared(u) == SelectSeq(units[u].body, LAMBDA m : m.is = "type")

Annotation(u) ==
  << <<"type", units[u].returns>> >> \o Types(u)
    \o [i \in DOMAIN Declared(u) |-> <<"type", Declared(u)[i].type>>]

(* A parameter that the compiler made is taken for one already checked.    *)
FunctionCheck(u) ==
  FlattenSeq([i \in DOMAIN units[u].params |->
                << <<"type", units[u].params[i]>> >>
                  \o IF units[u].generated THEN <<>>
                     ELSE << <<"exists", Pointed(units[u].params[i])>> >>])
    \o FlattenSeq([i \in DOMAIN units[u].body |->
         LET m == units[u].body[i]
         IN CASE m.is = "type" -> << <<"type", m.type>>, <<"exists", m.type>> >>
              [] m.is = "call" /\ m.targs # <<>> ->
                   << <<"template", None, m>>, <<"resolve", u, m>> >>
              [] m.is = "member" /\ m.targs # <<>> ->
                   << <<"template", Target(m.object), m>>, <<"resolve", u, m>> >>
              [] OTHER -> << <<"resolve", u, m>> >>])

ApplyFunction ==
  /\ Doing("function")
  /\ LET pass == Item[2]
         u == Item[3]
         name == mangled_name(units[u])
     IN \/ /\ pass = "function collection"
           /\ exists(name)
           /\ Throw
           /\ UNCHANGED <<units, functions>>
        \/ /\ ~(pass = "function collection" /\ exists(name))
           /\ units' = [units EXCEPT ![u] =
                [(IF pass = "member function collection" /\ units[u].member
                  THEN Annotated(@) ELSE @) EXCEPT !.seen = Append(@, pass)]]
           /\ functions' = functions \cup
                (IF pass = "function collection" THEN {name} ELSE {})
           /\ Then(CASE pass = "variables annotation" -> Annotation(u)
                     [] pass = "function check" -> FunctionCheck(u)
                     [] OTHER -> <<>>)
           /\ UNCHANGED <<valid, outcome>>
  /\ UNCHANGED <<blocks, manager, engine, structs, current_struct, moved>>

(* A variable or parameter of a structure type needs the structure.        *)
Exists ==
  /\ Doing("exists")
  /\ IF is_structure(Item[2]) /\ ~struct_exists(Item[2]) THEN Throw
     ELSE Then(<<>>) /\ UNCHANGED <<valid, outcome>>
  /\ UNCHANGED <<units, blocks, manager, engine, tables, moved>>

(* A function is looked for by name, then in the structure of the caller   *)
(* and those it inherits from; a member function in the object's.          *)
Named(u, m) ==
  LET own == Range(Ancestry(IF m.is = "member" THEN Target(m.object)
                            ELSE units[u].inside))
  IN {mangle("function", t, m.name, m.args) : t \in own}
     \cup (IF m.is = "call" THEN {mangle("function", None, m.name, m.args)} ELSE {})

(* A structure is passed by value by its constructor from a pointer.       *)
Copied(m) ==
  m.is = "call" =>
    \A t \in {a \in Range(m.args) : is_structure(a)} :
      exists(mangle("constructor", t, "", << <<"*", t>> >>))

Found(u, m) == \E name \in Named(u, m) : exists(name)

(* The parent of a structure that has no entry is read through a null      *)
(* pointer: pointers to it are declared unchecked.                         *)
Resolve ==
  /\ Doing("resolve")
  /\ LET u == Item[2]
         m == Item[3]
     IN CASE Copied(m) /\ Found(u, m) -> Then(<<>>) /\ UNCHANGED <<valid, outcome>>
          [] ~Found(u, m) /\ m.is = "member" /\ is_structure(Target(m.object))
               /\ ~struct_exists(m.object) ->
               outcome' = "crashed" /\ todo' = <<>> /\ UNCHANGED valid
          [] OTHER -> Throw
  /\ UNCHANGED <<units, blocks, manager, engine, tables, moved>>

-----------------------------------------------------------------------------
(* The template engine *)

(* A copy of template u for the given types.  Its parent is not copied.    *)
Instance(u, types) ==
  Adaptor([units[u] EXCEPT !.tparams = <<>>, !.parent = None], Replacements(units[u], types))

StructInstance(u, types) ==
  LET own == units[u].blocks
      copy(f) == Adaptor(units[f], Replacements(units[u], types))
  IN << [Instance(u, types) EXCEPT !.targs = types,
           !.blocks = [i \in DOMAIN own |-> Len(units) + 1 + i]] >>
     \o [i \in DOMAIN own |-> copy(own[i])]

(* Passes over something instantiated: all that have been started.         *)
PassesOver(item(_)) ==
  FlattenSeq([i \in DOMAIN applied_passes |->
    << <<"program", applied_passes[i], TRUE>>, item(applied_passes[i]) >>])

InstantiateStruct(u, name, types) ==
  LET new == Len(units) + 1
      item(pass) == <<"struct", pass, new>>
  IN /\ class_template_instantiations' = class_template_instantiations \cup {<<name, types>>}
     /\ template_depth' = template_depth + 1
     /\ IF template_depth' > MaxDepth
        THEN Throw /\ UNCHANGED units
        ELSE /\ units' = units \o StructInstance(u, types)
             /\ Then(PassesOver(item) \o << <<"struct made", new>> >>)
             /\ UNCHANGED <<valid, outcome>>

(* check_type.  The class templates lie in a hash table: those of a name   *)
(* are together, but the search runs on to the end of the table, past the  *)
(* name.  It follows pointers into program.blocks: once that has grown,    *)
(* what they point to may have been emptied.                               *)
Parameters(u) == Len(units[u].tparams)

CheckType ==
  /\ Doing("type")
  /\ LET t == Pointed(Item[2])
         types == Tail(t)
         named == {u \in class_templates : units[u].name = t[1]}
         matching(us) == {u \in us : Parameters(u) = Len(types)}
         unchanged == /\ Then(<<>>)
                      /\ UNCHANGED <<units, class_template_instantiations,
                                     template_depth, valid, outcome>>
     IN IF ~is_template_type(t) THEN unchanged
        ELSE IF named = {}
        THEN Throw /\ UNCHANGED <<units, class_template_instantiations, template_depth>>
        ELSE \/ /\ moved \/ matching(named) = {}
                /\ unchanged
             \/ \E u \in IF matching(named) # {} THEN matching(named)
                         ELSE matching(class_templates) :
                  IF <<t[1], types>> \in class_template_instantiations THEN unchanged
                  ELSE InstantiateStruct(u, t[1], types)
  /\ UNCHANGED <<blocks, applied_passes, class_instantiated,
                 functions_instantiated, class_templates, function_templates,
                 function_template_instantiations, tables, moved>>

StructMade ==
  /\ Doing("struct made")
  /\ template_depth' = template_depth - 1
  /\ class_instantiated' = Append(class_instantiated, Item[2])
  /\ Then(<<>>)
  /\ UNCHANGED <<units, blocks, applied_passes, functions_instantiated, engine,
                 tables, moved, valid, outcome>>

(* check_function: the first template of the name with as many parameters, *)
(* among the functions of the program or in the structure of the object.   *)
Candidates(context, m) ==
  SelectSeq(IF context = None THEN blocks
            ELSE IF Holder(blocks, context) = <<>> THEN <<>>
            ELSE units[Holder(blocks, context)[1]].blocks,
            LAMBDA f : /\ units[f].kind = "function" /\ is_template(units[f])
                       /\ units[f].name = m.name
                       /\ Parameters(f) = Len(m.targs))

InstantiateFunction(f, context, m) ==
  LET new == Len(units) + 1
      item(pass) == IF context = None THEN <<"function", pass, new>>
                    ELSE <<"in struct", pass, new, context>>
  IN /\ function_template_instantiations' =
          function_template_instantiations \cup {<<context, m.name, m.targs>>}
     /\ units' = Append(units, Instance(f, m.targs))
     /\ Then(PassesOver(item) \o << <<"function made", context, new>> >>)

CheckFunction ==
  /\ Doing("template")
  /\ LET context == Item[2]
         m == Item[3]
     IN IF <<context, m.name>> \notin function_templates \/ Candidates(context, m) = <<>>
        THEN Throw /\ UNCHANGED <<units, function_template_instantiations>>
        ELSE /\ IF <<context, m.name, m.targs>> \in function_template_instantiations
                THEN Then(<<>>) /\ UNCHANGED <<units, function_template_instantiations>>
                ELSE InstantiateFunction(Candidates(context, m)[1], context, m)
             /\ UNCHANGED <<valid, outcome>>
  /\ UNCHANGED <<blocks, manager, class_templates, function_templates,
                 class_template_instantiations, tables, moved>>

(* A member function takes its passes where its structure is found.        *)
InStruct ==
  /\ Doing("in struct")
  /\ LET found == Holder(blocks, Item[4])
     IN /\ Then(IF found = <<>> THEN <<>> ELSE << <<"function", Item[2], Item[3]>> >>)
        /\ current_struct' = IF Item[2] = "member function collection" /\ found # <<>>
                             THEN found[1] ELSE current_struct
  /\ UNCHANGED <<units, blocks, manager, engine, structs, functions, moved,
                 valid, outcome>>

FunctionMade ==
  /\ Doing("function made")
  /\ functions_instantiated' = Append(functions_instantiated, <<Item[2], Item[3]>>)
  /\ Then(<<>>)
  /\ UNCHANGED <<units, blocks, applied_passes, class_instantiated,
                 template_depth, engine, tables, moved, valid, outcome>>

-----------------------------------------------------------------------------
Init ==
  /\ \E p \in Programs : units = p.units /\ blocks = p.blocks
  /\ todo = << <<"run", 1>> >>
  /\ applied_passes = <<>>
  /\ class_instantiated = <<>> /\ functions_instantiated = <<>>
  /\ template_depth = 0
  /\ class_templates = {} /\ function_templates = {}
  /\ class_template_instantiations = {} /\ function_template_instantiations = {}
  /\ structs = <<>> /\ functions = Standard
  /\ current_struct = 0
  /\ moved = FALSE /\ valid = TRUE
  /\ outcome = "running"

Stop == outcome # "running" /\ UNCHANGED vars

Next ==
  \/ Run \/ EndPass \/ ApplyProgram \/ ApplyBlock \/ ApplyStruct \/ ApplyFunction
  \/ Exists \/ Resolve \/ CheckType \/ StructMade \/ CheckFunction \/ InStruct
  \/ FunctionMade \/ Stop

Spec == Init /\ [][Next]_vars

-----------------------------------------------------------------------------
Compiled(kinds) ==
  {u \in Range(blocks) \cup UNION {Range(units[s].blocks) : s \in Structures} :
     units[u].kind \in kinds /\ ~is_template(units[u])}
Bodies == Compiled({"function", "constructor", "destructor"})

(* In an accepted program every function, constructor and destructor went  *)
(* through every pass once and in order, whenever and from inside whatever *)
(* pass it was instantiated; a generated one from its generation on.       *)
EveryPassOnce ==
  outcome = "accepted" =>
    \A u \in Bodies :
      units[u].seen = IF units[u].generated THEN SubSeq(Passes, 7, Len(Passes))
                      ELSE Passes

(* An accepted program is complete: the table has each function once, with *)
(* its code in the program; what a body declares or calls is in it.        *)
Complete ==
  outcome = "accepted" =>
    /\ functions = Standard \cup {mangled_name(units[u]) : u \in Bodies}
    /\ \A u, v \in Bodies : mangled_name(units[u]) = mangled_name(units[v]) => u = v
    /\ DOMAIN structs = {units[s].struct_type : s \in Structures}
    /\ \A u \in Bodies : \A m \in Range(units[u].body) :
         IF m.is = "type" THEN is_structure(m.type) => m.type \in DOMAIN structs
         ELSE Found(u, m)
=============================================================================
