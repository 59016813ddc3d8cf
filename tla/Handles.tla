------------------------------ MODULE Handles -------------------------------
(***************************************************************************)
(* The objects of On1x that own something of a foreign library: arena and  *)
(* pool (src/memory/memory.cpp, klib), the libraries opened for foreign    *)
(* calls (src/ffi/ffi.cpp, dynload) and for plugins (src/plugin/plugin.cpp,*)
(* dynalo), the functions looked up in them, and a foreign call.           *)
(*                                                                         *)
(* Handles are numbered in the order they are opened; 0 is the null or     *)
(* invalid handle.  A client constructs, moves, assigns, resets and        *)
(* destroys the objects in any order the C++ types admit.                  *)
(***************************************************************************)
EXTENDS Naturals, FiniteSets, Sequences

CONSTANTS
  Objects,      \* places an owning object can be constructed in
  KindOf(_),    \* "arena", "pool", "ffi" or "plugin"
  MaxHandles,   \* bound: handles opened in all
  Signatures,   \* [result, arguments] of the functions looked up
  Arguments     \* argument lists: sequences of value alternatives

Kinds == {"arena", "pool", "ffi", "plugin"}

ASSUME HandlesAssumption ==
  /\ MaxHandles \in Nat
  /\ \A o \in Objects : KindOf(o) \in Kinds
  /\ \A sig \in Signatures : sig.arguments \in Seq(STRING)
  /\ Arguments \subseteq Seq(STRING)

VARIABLES
  alive,     \* the objects constructed and not yet destroyed
  held,      \* handle_ of every object
  exports,   \* of a plugin library: the handle exports_ was looked up in
  opened,    \* handles opened so far
  open,      \* handles the foreign library has open
  misused,   \* a handle was closed that was not open
  function,  \* the ffi::function of the client: address_, signature_
  call,      \* the ffi call under way
  callVMs,   \* dyncall machines allocated
  entered    \* what foreign code was last entered: handle, values passed

owners == <<alive, held, exports, opened, open, misused>>
calls == <<function, call, callVMs, entered>>
vars == <<owners, calls>>

Handle == 0..MaxHandles
NoFunction == [address |-> 0, signature |-> [result |-> "void", arguments |-> << >>]]
NoCall == [under |-> FALSE, arguments |-> << >>, pushed |-> << >>]

Init ==
  /\ alive = {} /\ opened = 0 /\ open = {} /\ misused = FALSE
  /\ held = [o \in Objects |-> 0] /\ exports = [o \in Objects |-> 0]
  /\ function = NoFunction /\ call = NoCall
  /\ callVMs = 0 /\ entered = [handle |-> 0, values |-> << >>]

(* if (handle_) close(handle_), followed by the opening of new handles.    *)
CloseThenOpen(h, new) ==
  /\ open' = (open \ {h}) \cup new
  /\ misused' = (misused \/ (h # 0 /\ h \notin open))

-----------------------------------------------------------------------------
(* The constructors.  Opening a shared object can fail: dlLoadLibrary then *)
(* gives a library that is not loaded.  dynalo::open throws, so there is   *)
(* no object: that construction leaves no trace.                           *)
Construct(o) ==
  /\ o \notin alive /\ opened < MaxHandles
  /\ alive' = alive \cup {o}
  /\ opened' = opened + 1
  /\ held' = [held EXCEPT ![o] = opened + 1]
  /\ exports' = [exports EXCEPT ![o] = IF KindOf(o) = "plugin" THEN opened + 1 ELSE 0]
  /\ CloseThenOpen(0, {opened + 1})
  /\ UNCHANGED calls

ConstructUnloaded(o) ==
  /\ o \notin alive /\ KindOf(o) = "ffi"
  /\ alive' = alive \cup {o}
  /\ held' = [held EXCEPT ![o] = 0]
  /\ UNCHANGED <<exports, opened, open, misused, calls>>

(* The destructors.                                                        *)
Destroy(o) ==
  /\ o \in alive
  /\ alive' = alive \ {o}
  /\ CloseThenOpen(held[o], {})
  /\ held' = [held EXCEPT ![o] = 0]
  /\ exports' = [exports EXCEPT ![o] = 0]
  /\ UNCHANGED <<opened, calls>>

(* The move constructors.                                                  *)
MoveConstruct(o, p) ==
  /\ o \notin alive /\ p \in alive /\ KindOf(o) = KindOf(p)
  /\ alive' = alive \cup {o}
  /\ held' = [held EXCEPT ![o] = held[p], ![p] = 0]
  /\ exports' = [exports EXCEPT ![o] = exports[p], ![p] = 0]
  /\ UNCHANGED <<opened, open, misused, calls>>

(* Variant: no test for self-assignment.                                   *)
MoveAssignUnguarded(o, p) ==
  /\ o \in alive /\ p \in alive /\ KindOf(o) = KindOf(p)
  /\ CloseThenOpen(held[o], {})
  /\ held' = IF o = p THEN held ELSE [held EXCEPT ![o] = held[p], ![p] = 0]
  /\ exports' = IF o = p THEN exports ELSE [exports EXCEPT ![o] = exports[p], ![p] = 0]
  /\ UNCHANGED <<alive, opened, calls>>

(* Variant: the moved-from plugin library keeps its exports.               *)
MoveAssignKeepExports(o, p) ==
  /\ o \in alive /\ p \in alive /\ KindOf(o) = KindOf(p)
  /\ IF o = p THEN UNCHANGED owners
     ELSE /\ CloseThenOpen(held[o], {})
          /\ held' = [held EXCEPT ![o] = held[p], ![p] = 0]
          /\ exports' = [exports EXCEPT ![o] = exports[p]]
          /\ UNCHANGED <<alive, opened>>
  /\ UNCHANGED calls

(* The move assignments.                                                   *)
MoveAssign(o, p) ==
  /\ o \in alive /\ p \in alive /\ KindOf(o) = KindOf(p)
  /\ IF o = p THEN UNCHANGED owners
     ELSE /\ CloseThenOpen(held[o], {})
          /\ held' = [held EXCEPT ![o] = held[p], ![p] = 0]
          /\ exports' = [exports EXCEPT ![o] = exports[p], ![p] = 0]
          /\ UNCHANGED <<alive, opened>>
  /\ UNCHANGED calls

(* arena::reset and pool::reset, also on a moved-from object.              *)
Reset(o) ==
  /\ o \in alive /\ KindOf(o) \in {"arena", "pool"} /\ opened < MaxHandles
  /\ CloseThenOpen(held[o], {opened + 1})
  /\ opened' = opened + 1
  /\ held' = [held EXCEPT ![o] = opened + 1]
  /\ UNCHANGED <<alive, exports, calls>>

(* plugin::library::initialize and shutdown with a machine: the code of    *)
(* the plugin runs if it is loaded and exports the function, init_with_api *)
(* before init; otherwise initialize reports an error.                     *)
RunPlugin(o) ==
  /\ o \in alive /\ KindOf(o) = "plugin" /\ ~ call.under
  /\ held[o] # 0 /\ exports[o] # 0
  /\ entered' = [handle |-> exports[o], values |-> << >>]
  /\ UNCHANGED <<owners, function, call, callVMs>>

-----------------------------------------------------------------------------
(* ffi::get_function: a null address when the library is not loaded or has *)
(* no such symbol.                                                         *)
GetFunction(o, sig) ==
  /\ o \in alive /\ KindOf(o) = "ffi" /\ ~ call.under
  /\ \E a \in {0, held[o]} : function' = [address |-> a, signature |-> sig]
  /\ UNCHANGED <<owners, call, callVMs, entered>>

(* The alternative std::get asks for; void and struct have none.           *)
Accepts(type) ==
  CASE type = "c_int" -> {"int64"}
    [] type \in {"c_float", "c_double"} -> {"double"}
    [] type = "c_ptr" -> {"pointer"}
    [] type = "c_string" -> {"string"}
    [] OTHER -> {}

(* ffi::call of a valid function; dcNewCallVM can fail, and then it throws *)
(* with nothing done.                                                      *)
Call(args) ==
  /\ ~ call.under /\ function.address # 0
  /\ call' = [under |-> TRUE, arguments |-> args, pushed |-> << >>]
  /\ callVMs' = callVMs + 1
  /\ UNCHANGED <<owners, function, entered>>

(* Variant: an exception leaves without dcFree.                            *)
UnwindKeepVM == call' = NoCall /\ callVMs' = callVMs

(* Variant: dcFree after the try block as well as in its handler.          *)
UnwindFreeTwice == call' = NoCall /\ callVMs' = callVMs - 2

(* function::call ends, by return or by rethrowing: dcFree either way.     *)
Unwind ==
  /\ call' = NoCall /\ callVMs' = callVMs - 1

CountMatches == Len(function.signature.arguments) = Len(call.arguments)
NextIndex == Len(call.pushed) + 1
AllPushed == CountMatches /\ Len(call.pushed) = Len(call.arguments)
ArgumentFits == call.arguments[NextIndex] \in Accepts(function.signature.arguments[NextIndex])

(* push_argument of the next argument.                                     *)
PushArgument ==
  /\ call.under /\ CountMatches /\ ~ AllPushed /\ ArgumentFits
  /\ call' = [call EXCEPT !.pushed = Append(@, call.arguments[NextIndex])]
  /\ UNCHANGED <<owners, function, callVMs, entered>>

(* A wrong number of arguments, an argument of another alternative, an     *)
(* unsupported argument type, or a struct result: invoke throws.           *)
Throw ==
  /\ call.under
  /\ \/ ~ CountMatches
     \/ CountMatches /\ ~ AllPushed /\ ~ ArgumentFits
     \/ AllPushed /\ function.signature.result = "c_struct"
  /\ Unwind
  /\ UNCHANGED <<owners, function, entered>>

(* Variant: the count is not compared.                                     *)
InvokeEarly ==
  /\ call.under /\ function.signature.result # "c_struct"
  /\ entered' = [handle |-> function.address, values |-> call.pushed]
  /\ Unwind
  /\ UNCHANGED <<owners, function>>

(* dcCall...: the function is entered, whether or not its library is still *)
(* open.                                                                   *)
Invoke ==
  /\ call.under /\ AllPushed /\ function.signature.result # "c_struct"
  /\ entered' = [handle |-> function.address, values |-> call.pushed]
  /\ Unwind
  /\ UNCHANGED <<owners, function>>

Owning ==
  \E o \in Objects :
    \/ Construct(o) \/ ConstructUnloaded(o) \/ Destroy(o) \/ Reset(o)
    \/ \E p \in Objects : MoveConstruct(o, p) \/ MoveAssign(o, p)

Calling ==
  \/ \E o \in Objects : RunPlugin(o) \/ \E sig \in Signatures : GetFunction(o, sig)
  \/ \E args \in Arguments : Call(args)
  \/ PushArgument \/ Throw \/ Invoke

Next == (~ call.under /\ Owning) \/ Calling

Spec == Init /\ [][Next]_vars
-----------------------------------------------------------------------------
TypeOK ==
  /\ alive \subseteq Objects
  /\ held \in [Objects -> Handle] /\ exports \in [Objects -> Handle]
  /\ opened \in Handle /\ open \subseteq 1..opened
  /\ misused \in BOOLEAN
  /\ callVMs \in Nat

(* Every open handle is owned by exactly one live object, an object holds  *)
(* no closed handle, and no handle is closed twice: moves, assignments and *)
(* resets in any order neither leak nor double-free.                       *)
OwnedOnce ==
  /\ ~ misused
  /\ \A h \in open : \E o \in alive : held[o] = h
  /\ \A o \in Objects : held[o] # 0 => o \in alive /\ held[o] \in open
  /\ \A o, p \in Objects : held[o] = held[p] /\ held[o] # 0 => o = p

(* A plugin's functions are kept with the handle they were looked up in,   *)
(* so initialize and shutdown never run code of an unloaded plugin or of   *)
(* one that was moved elsewhere.                                           *)
ExportsFollowHandle ==
  \A o \in Objects : KindOf(o) = "plugin" => exports[o] = held[o]

(* The machine of a call is released on every path out of it, and there is *)
(* never more than one.                                                    *)
CallVMReleased == callVMs = IF call.under THEN 1 ELSE 0

(* Foreign code is entered only with all the arguments the signature       *)
(* names, each of the alternative its type takes: an exception in the      *)
(* middle of pushing never lets the call go ahead.                         *)
EnteredAsDeclared ==
  [][Invoke => /\ Len(entered'.values) = Len(function.signature.arguments)
               /\ \A k \in 1..Len(entered'.values) :
                    entered'.values[k] \in Accepts(function.signature.arguments[k])]_vars
=============================================================================
