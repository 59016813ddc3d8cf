-------------------------------- MODULE Eval --------------------------------
(***************************************************************************)
(* What src/core/runtime.cpp computes for an expression without calls,     *)
(* functions and assignments: the reference rewriting is measured against. *)
(* Integers are unbounded here; the instances keep them far from 2^63.     *)
(***************************************************************************)
EXTENDS Ast

Int1(n) == [int |-> n]
Bool1(v) == [bool |-> v]
Unit == [unit |-> TRUE]
Error == [error |-> TRUE]

Has(v, alternative) == alternative \in DOMAIN v

Magnitude(n) == IF n < 0 THEN -n ELSE n
(* Integer division and remainder truncate towards zero.                   *)
Quotient(n, d) ==
  LET q == Magnitude(n) \div Magnitude(d) IN IF (n < 0) = (d < 0) THEN q ELSE -q
Remainder(n, d) == n - d * Quotient(n, d)

as_bool(v) ==
  CASE Has(v, "bool") -> v.bool
    [] Has(v, "int") -> v.int # 0
    [] Has(v, "list") -> v.list # << >>
    [] OTHER -> TRUE

(* Arithmetic on two integers.  Shifts, powers and the bitwise operators   *)
(* are parsed, typed and produced by rules, and not computed.              *)
Arithmetic(op, m, n) ==
  CASE op = "+" -> Int1(m + n)
    [] op = "-" -> Int1(m - n)
    [] op = "*" -> Int1(m * n)
    [] op = "/" -> Int1(IF n = 0 THEN 0 ELSE Quotient(m, n))
    [] op = "%" -> Int1(IF n = 0 THEN 0 ELSE Remainder(m, n))
    [] op = "<" -> Bool1(m < n)
    [] op = "<=" -> Bool1(m <= n)
    [] op = ">" -> Bool1(m > n)
    [] op = ">=" -> Bool1(m >= n)
    [] OTHER -> Error

(* Equality compares printed forms, which differ whenever these values do. *)
apply_binary(op, l, r) ==
  CASE op = "&&" -> Bool1(as_bool(l) /\ as_bool(r))
    [] op = "||" -> Bool1(as_bool(l) \/ as_bool(r))
    [] op = "==" -> Bool1(l = r)
    [] op = "!=" -> Bool1(l # r)
    [] OTHER -> IF Has(l, "int") /\ Has(r, "int") THEN Arithmetic(op, l.int, r.int) ELSE Error

apply_unary(op, v) ==
  CASE op = "-" /\ Has(v, "int") -> Int1(-v.int)
    [] op = "!" -> Bool1(~ as_bool(v))
    [] OTHER -> Error

(* eval in the bindings of a scope; an error ends the evaluation.          *)
RECURSIVE eval(_, _)
eval(e, scope) ==
  LET values == [i \in DOMAIN Parts(e) |-> eval(Parts(e)[i], scope)]
      failed == Error \in {values[i] : i \in DOMAIN values}
  IN
  CASE e.node = "int" -> Int1(e.ival)
    [] e.node = "bool" -> Bool1(e.bval)
    [] e.node = "ident" -> IF e.name \in DOMAIN scope THEN scope[e.name] ELSE Error
    [] e.node = "unary" -> IF failed THEN Error ELSE apply_unary(e.op, values[1])
    [] e.node = "binary" -> IF failed THEN Error ELSE apply_binary(e.op, values[1], values[2])
    [] e.node = "if" ->
         IF values[1] = Error THEN Error
         ELSE IF as_bool(values[1]) THEN values[2] ELSE values[3]
    [] e.node = "let" ->
         IF values[1] = Error THEN Error
         ELSE eval(e.body, [n \in DOMAIN scope \cup {e.name} |->
                              IF n = e.name THEN values[1] ELSE scope[n]])
    [] e.node = "block" ->
         IF failed THEN Error
         ELSE IF e.value # Null \/ Len(values) = 1 THEN values[Len(values)]
         ELSE values[Len(values) - 1]
    [] e.node \in {"list", "tuple"} -> IF failed THEN Error ELSE [list |-> values]
    [] e.node = "record" ->
         IF failed THEN Error
         ELSE [map |-> [f \in {e.fields[i][1] : i \in DOMAIN values} |->
                          values[CHOOSE i \in DOMAIN values :
                                   e.fields[i][1] = f /\ \A j \in i + 1 .. Len(values) : e.fields[j][1] # f]]]
    [] OTHER -> Unit
=============================================================================
