------------------------------ MODULE Session ------------------------------
(***************************************************************************)
(* What the C API of On1x promises its host, without saying how: a virtual *)
(* machine is a set of definitions, an evaluation runs in the background   *)
(* of those definitions, and it takes effect all at once or not at all.    *)
(* Vm.tla is the machine that implements it; Vm!Spec => Session!Spec is    *)
(* model-checked (MCVm) and its safety half is proved (VmProofs).          *)
(***************************************************************************)
CONSTANTS
  VMs,           \* the handles on1x_vm_create may return
  NoVM,          \* "no evaluation is running"
  Names,         \* the identifiers programs use
  Builtins,      \* the identifiers the prelude defines
  Unbound,       \* what an identifier with no definition denotes
  AllocMayFail   \* whether an allocation may return null

VARIABLES
  live,     \* the machines that exist
  defs,     \* defs[v][n]: what a program submitted to v now sees as n
  running,  \* the machine whose evaluation has not returned yet
  status    \* status[v]: what the last call on v returned

vars == <<live, defs, running, status>>

Statuses == {"none", "OK", "PARSE_ERROR", "RUNTIME_ERROR", "IO_ERROR"}

Others(v) == \A w \in VMs \ {v} : defs'[w] = defs[w]

(* A machine that has only the prelude: no name a program introduced is   *)
(* left over from an earlier life of the handle.                          *)
Fresh(v) == \A n \in Names \ Builtins : defs'[v][n] = Unbound

Init ==
  /\ live = {}
  /\ defs = [v \in VMs |-> [n \in Names |-> Unbound]]
  /\ running = NoVM
  /\ status = [v \in VMs |-> "none"]

Create(v) ==
  /\ running = NoVM /\ v \notin live
  /\ live' = live \cup {v}
  /\ Fresh(v) /\ Others(v)
  /\ status' = [status EXCEPT ![v] = "none"]
  /\ UNCHANGED running

Destroy(v) ==
  /\ running = NoVM /\ v \in live
  /\ live' = live \ {v}
  /\ \A n \in Names : defs'[v][n] = Unbound
  /\ Others(v)
  /\ UNCHANGED <<running, status>>

Reset(v) ==
  /\ running = NoVM /\ v \in live
  /\ Fresh(v) /\ Others(v)
  /\ UNCHANGED <<live, running, status>>

(* A call that is turned away before any form of the program runs.        *)
Refuse(v) ==
  /\ running = NoVM /\ v \in live
  /\ \E s \in {"PARSE_ERROR", "RUNTIME_ERROR", "IO_ERROR"} :
       status' = [status EXCEPT ![v] = s]
  /\ UNCHANGED <<live, defs, running>>

Start(v) ==
  /\ running = NoVM /\ v \in live
  /\ running' = v
  /\ UNCHANGED <<live, defs, status>>

(* Success: every definition of the program appears at once, and a name   *)
(* that was defined still is.  The status can be an error only when the   *)
(* copy of the output could not be allocated.                             *)
Commit(v) ==
  /\ running = v /\ running' = NoVM
  /\ \A n \in Names : defs[v][n] # Unbound => defs'[v][n] # Unbound
  /\ Others(v)
  /\ \E s \in {"OK"} \cup (IF AllocMayFail THEN {"RUNTIME_ERROR"} ELSE {}) :
       status' = [status EXCEPT ![v] = s]
  /\ UNCHANGED live

(* Failure: nothing the program did to the definitions is visible.        *)
Abandon(v) ==
  /\ running = v /\ running' = NoVM
  /\ status' = [status EXCEPT ![v] = "RUNTIME_ERROR"]
  /\ UNCHANGED <<live, defs>>

Next ==
  \E v \in VMs :
    \/ Create(v) \/ Destroy(v) \/ Reset(v) \/ Refuse(v)
    \/ Start(v) \/ Commit(v) \/ Abandon(v)

Spec == Init /\ [][Next]_vars
=============================================================================
