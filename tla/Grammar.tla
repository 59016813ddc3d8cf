------------------------------- MODULE Grammar -------------------------------
(***************************************************************************)
(* src/frontend/On1x.g, the grammar parse_program holds a source against   *)
(* before its own parser reads it.  A source is a sequence of words.  The  *)
(* keywords match the pattern of an identifier too, and the generated      *)
(* parser follows both readings; && is two & to it as well, for it reads   *)
(* characters.                                                             *)
(***************************************************************************)
EXTENDS Naturals, Sequences

CONSTANTS Names, Numbers   \* the identifiers that are no keywords; the numerals

Keywords == {"let", "in", "if", "then", "else", "fn", "true", "false",
             "type", "module", "import", "where", "do", "with"}
Words == Names \cup Keywords

(* For each symbol what it may be replaced by.  Repetition is written by   *)
(* symbols of our own, the one left recursion (t [ t ]) by "indexed".      *)
Productions ==
  [program |-> {<< >>, <<"top_level", "program">>},
   top_level |-> {<<"definition", "semi">>, <<"expression", "semi">>},
   semi |-> {<< >>, <<";">>},
   definition |->
     {<<"fn", "identifier", "type_params", "(", "parameters", ")", "return_type", "body">>,
      <<"type", "identifier", "type_params", "=", "type_expression">>},
   body |-> {<<"=", "expression">>, <<"block_expression">>},
   expression |-> {<<"let_expression">>, <<"if_expression">>, <<"fn_expression">>,
                   <<"block_expression">>, <<"binary_expression">>},
   let_expression |-> {<<"let", "pattern", "=", "expression", "in", "expression">>,
                       <<"let", "pattern", "=", "expression">>},
   if_expression |->
     {<<"if", "expression", "block_expression", "else", "if_expression">>,
      <<"if", "expression", "block_expression", "else", "block_expression">>,
      <<"if", "expression", "block_expression">>},
   fn_expression |-> {<<"fn", "name", "(", "parameters", ")", "return_type", "body">>},
   name |-> {<< >>, <<"identifier">>},
   block_expression |-> {<<"{", "statements", "}">>, <<"{", "statements", "expression", "}">>},
   statements |-> {<< >>, <<"statement", "statements">>},
   statement |-> {<<"definition">>, <<"expression", ";">>},
   binary_expression |-> {<<"unary_expression", "operands">>},
   operands |-> {<< >>, <<"binary_operator", "unary_expression", "operands">>},
   unary_expression |-> {<<"unary_operator", "unary_expression">>, <<"&&", "unary_expression">>,
                         <<"primary_expression">>},
   primary_expression |->
     {<<"literal">>, <<"identifier">>, <<"(", "expression", ")">>, <<"[", "]">>,
      <<"[", "expressions", "]">>, <<"(", "expression", ",", "expressions", ")">>, <<"{", "fields", "}">>},
   expressions |-> {<<"expression">>, <<"expression", ",", "expressions">>},
   fields |-> {<<"field_init">>, <<"field_init", ",", "fields">>},
   field_init |-> {<<"identifier", ":", "expression">>, <<"identifier">>},
   parameters |-> {<< >>, <<"parameter_list">>},
   parameter_list |-> {<<"parameter">>, <<"parameter", ",", "parameter_list">>},
   parameter |-> {<<"identifier">>, <<"identifier", ":", "type_expression">>},
   type_params |-> {<< >>, <<"<", "identifiers", ">">>},
   identifiers |-> {<<"identifier">>, <<"identifier", ",", "identifiers">>},
   return_type |-> {<< >>, <<"->", "type_expression">>},
   type_expression |-> {<<"type_primary", "indexed">>, <<"&", "type_expression">>,
                        <<"&", "mut", "type_expression">>},
   type_primary |-> {<<"identifier">>, <<"(", "type_expression", ")">>, <<"[", "type_expression", "]">>,
                     <<"(", "type_expression", ",", "types", ")">>},
   indexed |-> {<< >>, <<"[", "type_expression", "]", "indexed">>},
   types |-> {<<"type_expression">>, <<"type_expression", ",", "types">>},
   pattern |-> {<<"identifier">>, <<"(", "pattern", ",", "patterns", ")">>, <<"[", "]">>,
                <<"[", "patterns", "]">>},
   patterns |-> {<<"pattern">>, <<"pattern", ",", "patterns">>},
   literal |-> {<<"number">>, <<"true">>, <<"false">>, <<"(", ")">>},
   binary_operator |-> {<<o>> : o \in {"==", "!=", "<=", ">=", "<", ">", "&&", "||", "+", "-", "*",
                                      "/", "%", "|", "^", "<<", ">>", "|>", "="}},
   unary_operator |-> {<<"-">>, <<"!">>, <<"&">>}]

(* Whether a word is one of a terminal symbol's.                           *)
Matches(symbol, word) ==
  \/ symbol = "identifier" /\ word \in Words
  \/ symbol = "number" /\ word \in Numbers
  \/ symbol = word

(* Where a phrase of those symbols that begins at position i of a source   *)
(* may end: the positions after it.                                        *)
Ends(source) ==
  LET ends[symbols \in Seq(STRING), i \in 1..(Len(source) + 1)] ==
        IF symbols = << >> THEN {i}
        ELSE LET first == IF Head(symbols) \in DOMAIN Productions
                          THEN UNION {ends[p, i] : p \in Productions[Head(symbols)]}
                          ELSE IF i <= Len(source) /\ Matches(Head(symbols), source[i]) THEN {i + 1} ELSE {}
             IN  UNION {ends[Tail(symbols), j] : j \in first}
  IN  ends

Derives(source) == Len(source) + 1 \in Ends(source)[<<"program">>, 1]
=============================================================================
