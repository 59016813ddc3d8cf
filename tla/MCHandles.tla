------------------------------ MODULE MCHandles -----------------------------
(***************************************************************************)
(* Two places for each of three kinds of owner (pool and arena own alike), *)
(* and signatures that show every outcome of a foreign call.               *)
(***************************************************************************)
EXTENDS Handles

Places == {"arena1", "arena2", "ffi1", "ffi2", "plugin1", "plugin2"}
PlaceKind(o) ==
  CASE o \in {"arena1", "arena2"} -> "arena"
    [] o \in {"ffi1", "ffi2"} -> "ffi"
    [] OTHER -> "plugin"

Declared ==
  {[result |-> "c_int", arguments |-> <<"c_int", "c_string">>],
   [result |-> "c_struct", arguments |-> << >>],
   [result |-> "void", arguments |-> <<"c_struct">>]}
Passed == {<< >>, <<"int64", "string">>, <<"int64", "int64">>, <<"string">>}
=============================================================================
