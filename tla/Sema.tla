-------------------------------- MODULE Sema --------------------------------
(***************************************************************************)
(* src/sema/sema.cpp: the type checker.  A client defines symbols in the   *)
(* global scope of a type_checker and has it check programs, one after the *)
(* other, with the same messages.  infer passes the messages along and     *)
(* asks, after an operand, whether there are any: not whether this operand *)
(* made one.  A message is the kind of error it reports.                   *)
(*                                                                         *)
(* infer holds every division against an e-graph of its term.              *)
(***************************************************************************)
EXTENDS Eval, Terms, TLC

CONSTANTS Declared,   \* what a client may define a name as: type and mutability
          Globals,    \* the names it defines
          Programs,   \* the programs it has checked: sequences of forms
          Repeated    \* the programs it has checked by a checker used before

VARIABLES symbols, messages, program, out, pc, checks
vars == <<symbols, messages, program, out, pc, checks>>

-----------------------------------------------------------------------------
(* The types.  "var" stands for a parameter's type and an empty list's     *)
(* elements, "error" for no type.                                          *)
Prim(k) == [tag |-> k]
UnitT == Prim("unit")
I64 == Prim("i64")
BoolT == Prim("bool")
ErrorT == Prim("error")
VarT(x) == [tag |-> "var", name |-> x]
RefT(t, m) == [tag |-> "ref", inner |-> t, is_mut |-> m]
ListT(t) == [tag |-> "list", element |-> t]
TupleT(ts) == [tag |-> "tuple", elements |-> ts]
RecordT(fs) == [tag |-> "record", fields |-> fs]     \* pairs of a name and a type
FuncT(ps, t) == [tag |-> "func", params |-> ps, ret |-> t]

Integral == {"i32", "i64"}
Numeric == Integral \cup {"f32", "f64"}
Promoted == {<<"i32", "i64">>, <<"i32", "f32">>, <<"i32", "f64">>, <<"i64", "f32">>, <<"i64", "f64">>,
             <<"f32", "f64">>}

(* Variant: a promotion over two steps is forgotten.                       *)
RECURSIVE is_subtypeOneMissing(_, _)
is_subtypeOneMissing(a, b) ==
  CASE {a.tag, b.tag} \cap {"error", "var"} # {} -> TRUE
    [] a.tag = "list" /\ b.tag = "list" -> is_subtypeOneMissing(a.element, b.element)
    [] OTHER -> a = b \/ <<a.tag, b.tag>> \in Promoted \ {<<"i64", "f64">>}

(* Variant: all lists are alike.                                           *)
is_subtypeAnyList(a, b) ==
  \/ {a.tag, b.tag} \cap {"error", "var"} # {}
  \/ a.tag = "list" /\ b.tag = "list"
  \/ a = b
  \/ <<a.tag, b.tag>> \in Promoted

RECURSIVE is_subtype(_, _)
is_subtype(a, b) ==
  CASE {a.tag, b.tag} \cap {"error", "var"} # {} -> TRUE
    [] {a.tag, b.tag} \cap {"error", "var"} = {} /\ a.tag # b.tag -> <<a.tag, b.tag>> \in Promoted
    [] OTHER ->
         CASE a.tag = "ref" -> (b.is_mut => a.is_mut) /\ is_subtype(a.inner, b.inner)
           [] a.tag = "list" -> is_subtype(a.element, b.element)
           [] a.tag = "tuple" ->
                /\ Len(a.elements) = Len(b.elements)
                /\ \A i \in DOMAIN a.elements : is_subtype(a.elements[i], b.elements[i])
           [] a.tag = "record" ->
                /\ Len(a.fields) = Len(b.fields)
                /\ \A i \in DOMAIN a.fields :
                     a.fields[i][1] = b.fields[i][1] /\ is_subtype(a.fields[i][2], b.fields[i][2])
           [] a.tag = "func" ->
                /\ Len(a.params) = Len(b.params)
                /\ \A i \in DOMAIN a.params : is_subtype(b.params[i], a.params[i])
                /\ is_subtype(a.ret, b.ret)
           [] OTHER -> a.tag # "generic"

(* Two numeric types are always subtypes one way: what common_type does    *)
(* after asking is never reached.                                          *)
common_type(a, b) ==
  CASE a = ErrorT -> b
    [] b = ErrorT /\ a # ErrorT -> a
    [] OTHER -> IF is_subtype(a, b) THEN b ELSE IF is_subtype(b, a) THEN a ELSE ErrorT

type_of_unary(op, t) ==
  CASE op = "!" /\ t.tag = "bool" -> t
    [] op = "-" /\ t.tag \in Numeric -> t
    [] op = "~" /\ t.tag \in Integral -> t
    [] op = "*" /\ t.tag = "ref" -> t.inner
    [] op = "&" /\ t.tag # "error" -> RefT(t, FALSE)
    [] OTHER -> ErrorT

Orderings == {"<", ">", "<=", ">="}
Assigning == {"=", "+=", "-=", "*=", "/=", "%=", "&=", "|=", "^=", "<<=", ">>="}

(* infer answers assignments before it comes here.                         *)
type_of_binary(op, l, r) ==
  LET t == common_type(l, r) IN
  CASE ErrorT \in {l, r} -> ErrorT
    [] op \in {"+", "-", "*", "/", "%", "**"} /\ t.tag \in (IF op = "%" THEN Integral ELSE Numeric) -> t
    [] op \in {"==", "!="} \cup Orderings /\ (is_subtype(l, r) \/ is_subtype(r, l)) -> BoolT
    [] op \in {"&&", "||"} /\ {l.tag, r.tag} = {"bool"} -> BoolT
    [] op \in {"&", "|", "^", "<<", ">>"} /\ {l.tag, r.tag} \subseteq Integral -> l
    [] op = "++" /\ {l.tag, r.tag} = {"str"} -> l
    [] OTHER -> ErrorT

-----------------------------------------------------------------------------
(* matches_saturated_error: a division by the literal 0 at the root.  One  *)
(* deeper was reported when its own operands were looked at.               *)
ByZero(e, op) == LET t == to_term(e) IN t.op = op /\ Len(t.children) = 2 /\ t.children[2] = Lit("int", 0)

-----------------------------------------------------------------------------
Typed(t, ms) == [ty |-> t, messages |-> ms]
Report(ms, message) == Typed(ErrorT, Append(ms, message))
has_errors(ms) == ms # << >>
(* A type with its message when it is none.                                *)
Settled(t, ms, message) == IF t = ErrorT THEN Report(ms, message) ELSE Typed(t, ms)

Symbol(t, mutable) == [ty |-> t, is_mutable |-> mutable]
(* Inner scopes hide the outer ones' names.                                *)
Within(scope, names, types) ==
  [n \in Range(names) |-> Symbol(types[CHOOSE i \in DOMAIN names : names[i] = n], FALSE)] @@ scope

Twice(names) == ~ IsInjective(names)

RECURSIVE infer(_, _, _), InferAll(_, _, _)

(* Expressions one after the other, up to the first after which there are  *)
(* errors: their types, and whether all of them were looked at.            *)
InferAll(es, scope, ms) ==
  FoldLeft(LAMBDA st, e :
             IF st.stopped THEN st
             ELSE LET r == infer(e, scope, st.messages)
                  IN  [types |-> Append(st.types, r.ty), messages |-> r.messages, stopped |-> has_errors(r.messages)],
           [types |-> << >>, messages |-> ms, stopped |-> FALSE], es)

infer_assignment(e, scope, value) ==
  LET target == IF IsIdent(e.lhs) /\ e.lhs.name \in DOMAIN scope THEN scope[e.lhs.name] ELSE Symbol(ErrorT, FALSE)
  IN  CASE ~ IsIdent(e.lhs) -> Report(value.messages, "left side")
        [] IsIdent(e.lhs) /\ ~ target.is_mutable -> Report(value.messages, "immutable")
        [] IsIdent(e.lhs) /\ target.is_mutable ->
             IF is_subtype(value.ty, target.ty) THEN Typed(target.ty, value.messages)
             ELSE Report(value.messages, "assigned type")

infer_binary(e, scope, ms) ==
  LET l == infer(e.lhs, scope, ms)
      r == infer(e.rhs, scope, l.messages)
  IN  CASE has_errors(r.messages) -> Typed(ErrorT, r.messages)
        [] ~ has_errors(r.messages) /\ ByZero(e, "/") -> Report(r.messages, "division by zero")
        [] ~ has_errors(r.messages) /\ ByZero(e, "%") -> Report(r.messages, "remainder by zero")
        [] OTHER -> IF e.op \in Assigning THEN infer_assignment(e, scope, r)
                    ELSE Settled(type_of_binary(e.op, l.ty, r.ty), r.messages, "binary operator")

(* Variant: what the branches reported is not asked for.                   *)
infer_ifUnasked(e, scope, ms) ==
  LET c == infer(e.cond, scope, ms)
      t == infer(e.then, scope, c.messages)
      f == infer(e.else, scope, t.messages)
  IN  CASE has_errors(c.messages) -> Typed(ErrorT, c.messages)
        [] ~ has_errors(c.messages) /\ c.ty \notin {BoolT, ErrorT} -> Report(c.messages, "condition")
        [] OTHER -> Settled(common_type(t.ty, f.ty), f.messages, "branches")

infer_if(e, scope, ms) ==
  LET c == infer(e.cond, scope, ms)
      t == infer(e.then, scope, c.messages)
      f == infer(e.else, scope, t.messages)
  IN  CASE has_errors(c.messages) -> Typed(ErrorT, c.messages)
        [] ~ has_errors(c.messages) /\ c.ty \notin {BoolT, ErrorT} -> Report(c.messages, "condition")
        [] OTHER -> IF has_errors(f.messages) THEN Typed(ErrorT, f.messages)
                    ELSE Settled(common_type(t.ty, f.ty), f.messages, "branches")

(* Every element has to be assignable to the first.                        *)
infer_list(es, scope, ms) ==
  LET all == InferAll(es, scope, ms)
      misfit == {i \in 2 .. Len(all.types) : ~ is_subtype(all.types[i], all.types[1])}
      first == CHOOSE i \in misfit : \A j \in misfit : i <= j
  IN  CASE es = << >> -> Typed(ListT(VarT("a")), ms)
        [] misfit # {} -> Report(InferAll(SubSeq(es, 1, first), scope, ms).messages, "element")
        [] OTHER -> IF all.stopped THEN Typed(ErrorT, all.messages) ELSE Typed(ListT(all.types[1]), all.messages)

infer_record(e, scope, ms) ==
  LET names == [i \in DOMAIN e.fields |-> e.fields[i][1]]
      new == {i \in DOMAIN names : \A j \in 1 .. i - 1 : names[j] # names[i]}
      until == CHOOSE n \in 0 .. Len(names) : 1 .. n \subseteq new /\ (n < Len(names) => n + 1 \notin new)
      all == InferAll(SubSeq(Parts(e), 1, until), scope, ms)
  IN  CASE all.stopped -> Typed(ErrorT, all.messages)
        [] ~ all.stopped /\ until < Len(names) -> Report(all.messages, "duplicate field")
        [] OTHER -> Typed(RecordT([i \in DOMAIN names |-> <<names[i], all.types[i]>>]), all.messages)

infer_lambda(e, scope, ms) ==
  LET types == [i \in DOMAIN e.params |-> VarT(e.params[i])]
      r == infer(e.body, Within(scope, e.params, types), ms)
  IN  CASE Twice(e.params) -> Report(ms, "duplicate parameter")
        [] ~ Twice(e.params) /\ has_errors(r.messages) -> Typed(ErrorT, r.messages)
        [] OTHER -> Typed(FuncT(types, r.ty), r.messages)

(* An argument is held against its parameter before the next is looked at. *)
infer_call(e, scope, ms) ==
  LET f == infer(e.callee, scope, ms)
      args == FoldLeftDomain(LAMBDA st, i :
                IF st.ty = ErrorT THEN st
                ELSE LET a == infer(e.args[i], scope, st.messages)
                     IN  CASE has_errors(a.messages) -> Typed(ErrorT, a.messages)
                           [] OTHER -> IF is_subtype(a.ty, f.ty.params[i]) THEN Typed(st.ty, a.messages)
                                       ELSE Report(a.messages, "argument"),
                Typed(UnitT, f.messages), e.args)
  IN  CASE has_errors(f.messages) -> Typed(ErrorT, f.messages)
        [] ~ has_errors(f.messages) /\ f.ty.tag # "func" -> Report(f.messages, "not callable")
        [] OTHER -> IF Len(f.ty.params) # Len(e.args) THEN Report(f.messages, "arguments")
                    ELSE IF args.ty = ErrorT THEN args ELSE Typed(f.ty.ret, args.messages)

infer(e, scope, ms) ==
  CASE e \in {Null, Nil} -> Typed(UnitT, ms)
    [] e.node = "bool" -> Typed(BoolT, ms)
    [] e.node = "int" -> Typed(I64, ms)
    [] e.node = "ident" ->
         IF e.name \in DOMAIN scope THEN Typed(scope[e.name].ty, ms) ELSE Report(ms, "undefined")
    [] e.node = "unary" ->
         LET r == infer(e.rhs, scope, ms)
         IN  IF has_errors(r.messages) THEN Typed(ErrorT, r.messages)
             ELSE Settled(type_of_unary(e.op, r.ty), r.messages, "unary operator")
    [] e.node = "binary" -> infer_binary(e, scope, ms)
    [] e.node = "if" -> infer_if(e, scope, ms)
    [] e.node = "let" ->
         LET v == infer(e.value, scope, ms)
         IN  IF has_errors(v.messages) THEN Typed(ErrorT, v.messages)
             ELSE infer(e.body, Within(scope, <<e.name>>, <<v.ty>>), v.messages)
    [] e.node = "block" ->
         LET all == InferAll(Present(Parts(e)), scope, ms)
         IN  IF all.stopped THEN Typed(ErrorT, all.messages)
             ELSE Typed(IF all.types = << >> THEN UnitT ELSE Last(all.types), all.messages)
    [] e.node = "list" -> infer_list(e.elements, scope, ms)
    [] e.node = "tuple" ->
         LET all == InferAll(e.elements, scope, ms)
         IN  Typed(IF all.stopped THEN ErrorT ELSE TupleT(all.types), all.messages)
    [] e.node = "record" -> infer_record(e, scope, ms)
    [] e.node = "lambda" -> infer_lambda(e, scope, ms)
    [] e.node = "call" -> infer_call(e, scope, ms)

-----------------------------------------------------------------------------
Init ==
  /\ symbols = << >> /\ messages = << >> /\ program = << >> /\ out = << >>
  /\ pc = "idle" /\ checks = 0

(* Variant: a name defined again gets the new type.                        *)
DefineOver(x, d) ==
  /\ pc = "idle"
  /\ symbols' = (x :> d) @@ symbols
  /\ UNCHANGED <<messages, program, out, pc, checks>>

(* scope::define on the global scope: a name already there stays.          *)
Define(x, d) ==
  /\ pc = "idle"
  /\ symbols' = symbols @@ (x :> d)
  /\ UNCHANGED <<messages, program, out, pc, checks>>

(* Variant: the forms of the program before are kept.                      *)
CheckKeepsForms(p) ==
  /\ pc = "idle" /\ checks < 2 /\ (checks = 1 => {program, p} \subseteq Repeated)
  /\ program' = p /\ pc' = "checking" /\ checks' = checks + 1
  /\ UNCHANGED <<symbols, messages, out>>

(* type_checker::check, and one round of its loop: it ends after the first *)
(* form after which there are errors, this check's or an earlier one's.    *)
Check(p) ==
  /\ pc = "idle" /\ checks < 2 /\ (checks = 1 => {program, p} \subseteq Repeated)
  /\ program' = p /\ out' = << >> /\ pc' = "checking" /\ checks' = checks + 1
  /\ UNCHANGED <<symbols, messages>>

CheckForm ==
  /\ pc = "checking" /\ Len(out) < Len(program)
  /\ LET r == infer(program[Len(out) + 1], symbols, messages) IN
     /\ out' = Append(out, r.ty) /\ messages' = r.messages
     /\ pc' = IF has_errors(r.messages) THEN "idle" ELSE pc
  /\ UNCHANGED <<symbols, program, checks>>

EndOfProgram ==
  /\ pc = "checking" /\ Len(out) = Len(program)
  /\ pc' = "idle"
  /\ UNCHANGED <<symbols, messages, program, out, checks>>

Next ==
  \/ \E x \in Globals, d \in Declared : Define(x, d)
  \/ \E p \in Programs : Check(p)
  \/ CheckForm \/ EndOfProgram
Spec == Init /\ [][Next]_vars

-----------------------------------------------------------------------------
Form == program[Len(out)]       \* the form checked last
(* It was accepted a moment ago.                                           *)
JustAccepted == pc = "checking" /\ out # << >> /\ ~ has_errors(messages)

RECURSIVE IsType(_)
IsType(t) ==
  CASE t.tag = "ref" -> t.is_mut \in BOOLEAN /\ IsType(t.inner)
    [] t.tag = "list" -> IsType(t.element)
    [] t.tag = "tuple" -> \A i \in DOMAIN t.elements : IsType(t.elements[i])
    [] t.tag = "record" -> \A i \in DOMAIN t.fields : IsType(t.fields[i][2])
    [] t.tag = "func" -> IsType(t.ret) /\ \A i \in DOMAIN t.params : IsType(t.params[i])
    [] OTHER -> t.tag \in Numeric \cup {"unit", "bool", "char", "str", "var", "error"}

TypeOK ==
  /\ DOMAIN symbols \subseteq Globals /\ Range(symbols) \subseteq Declared
  /\ pc \in {"idle", "checking"} /\ checks \in 0 .. 2
  /\ Len(out) <= Len(program) /\ \A i \in DOMAIN out : IsType(out[i])

(* A checker that has reported nothing: a form is given the error type     *)
(* when something about it is reported, and only then, whatever its parts  *)
(* answered; every form before the first such one has its type, and none   *)
(* after it is looked at.  A checker that has reported something looks at  *)
(* one form of a program and accepts none after it.                        *)
Reported ==
  /\ checks = 1 => \A i \in DOMAIN out : out[i] = ErrorT <=> i = Len(out) /\ has_errors(messages)
  /\ pc = "idle" /\ program # << >> =>
       IF has_errors(messages) THEN (checks = 1 => Last(out) = ErrorT) ELSE Len(out) = Len(program)
  /\ pc = "checking" /\ has_errors(messages) => out = << >>

(* Of the types a program can be given without functions and references.   *)
RECURSIVE Concrete(_)
Concrete(t) ==
  CASE t.tag = "list" -> Concrete(t.element)
    [] t.tag = "tuple" -> \A i \in DOMAIN t.elements : Concrete(t.elements[i])
    [] t.tag = "record" -> \A i \in DOMAIN t.fields : Concrete(t.fields[i][2])
    [] OTHER -> t.tag \in Numeric \cup {"unit", "bool"}

RECURSIVE HasType(_, _)
HasType(v, t) ==
  CASE t.tag \in Numeric -> Has(v, "int")
    [] t.tag = "bool" -> Has(v, "bool")
    [] t.tag = "unit" -> v = Unit
    [] t.tag = "list" -> Has(v, "list") /\ \A i \in DOMAIN v.list : HasType(v.list[i], t.element)
    [] t.tag = "tuple" ->
         Has(v, "list") /\ DOMAIN v.list = DOMAIN t.elements
           /\ \A i \in DOMAIN v.list : HasType(v.list[i], t.elements[i])
    [] t.tag = "record" ->
         Has(v, "map") /\ \A i \in DOMAIN t.fields : HasType(v.map[t.fields[i][1]], t.fields[i][2])
    [] OTHER -> FALSE

(* A few values of a type.                                                 *)
RECURSIVE Samples(_)
Samples(t) ==
  CASE t.tag \in Numeric -> {Int1(-1), Int1(0), Int1(2)}
    [] t.tag = "bool" -> {Bool1(TRUE), Bool1(FALSE)}
    [] t.tag = "list" -> {[list |-> << >>]} \cup {[list |-> <<v, v>>] : v \in Samples(t.element)}
    [] t.tag = "tuple" ->
         {[list |-> [i \in DOMAIN t.elements |-> CHOOSE v \in Samples(t.elements[i]) : TRUE]]}
    [] OTHER -> {Unit}

(* What the evaluator computes and Eval models: no functions, assignments, *)
(* references, shifts or powers, no list of nothing, and orderings with a  *)
(* number written or computed on one side, for the checker also compares   *)
(* the truth values and lists that the evaluator refuses.                  *)
RECURSIVE Evaluable(_)
Evaluable(e) ==
  /\ e.node \notin {"lambda", "call"} /\ e # List(<< >>)
  /\ e.node = "unary" => e.op \in {"-", "!"}
  /\ e.node = "binary" =>
       \/ e.op \in {"+", "-", "*", "/", "%", "==", "!=", "&&", "||"}
       \/ e.op \in Orderings /\ \E n \in {e.lhs, e.rhs} :
            n.node = "int" \/ (n.node = "binary" /\ n.op \in {"+", "-", "*", "/", "%"})
  /\ \A i \in DOMAIN Parts(e) : Evaluable(Parts(e)[i])

(* What the checker accepts, the evaluator computes, to a value of the     *)
(* type: whenever every symbol has a value of the type it was defined      *)
(* with, an accepted form evaluates without an error and its value belongs *)
(* to the form's type.                                                     *)
Sound ==
  LET scopes == {s \in [DOMAIN symbols -> UNION {Samples(symbols[x].ty) : x \in DOMAIN symbols}] :
                   \A x \in DOMAIN symbols : s[x] \in Samples(symbols[x].ty)}
  IN  JustAccepted /\ Evaluable(Form)
        /\ (\A x \in DOMAIN symbols : Concrete(symbols[x].ty)) =>
        \A s \in scopes : LET v == eval(Form, s) IN v # Error /\ HasType(v, Last(out))

(* A client that defines more names changes nothing about a form that was  *)
(* accepted: it stays accepted, with its type.                             *)
AcceptedStays ==
  [][symbols' # symbols /\ out # << >> /\ ~ has_errors(messages) =>
       infer(Form, symbols', << >>) = Typed(Last(out), << >>)]_vars

(* Assignments compose: where y = x is accepted, y takes every value that  *)
(* x takes.                                                                *)
Takes(x, e) == ~ has_errors(infer(Binary("=", Ident(x), e), symbols, << >>).messages)
AssignmentsCompose ==
  JustAccepted =>
    \A x, y \in DOMAIN symbols : Takes(x, Form) /\ Takes(y, Ident(x)) => Takes(y, Form)

(* A term turned back into an expression is the expression it was made of, *)
(* but where there is a block, a record or a function.  Written down, it   *)
(* is read as the same term, and not when any word of it is left out.      *)
RECURSIVE OnlyKnown(_)
OnlyKnown(e) ==
  e.node \notin {"block", "record", "lambda"} /\ \A i \in DOMAIN Parts(e) : OnlyKnown(Parts(e)[i])
TermsComeBack ==
  LET term == to_term(Form)
      words == Written(term)
  IN  JustAccepted =>
        /\ OnlyKnown(Form) => from_term(term) = Form
        /\ parse_term(words) = term
        /\ \A i \in DOMAIN words : words[i] # Space => parse_term(RemoveAt(words, i)) # term
=============================================================================
