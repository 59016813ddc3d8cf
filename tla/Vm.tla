--------------------------------- MODULE Vm ---------------------------------
(***************************************************************************)
(* The On1x virtual machine as its C API exposes it: src/core/c_api.cpp    *)
(* (create, destroy, reset, eval_string, eval_file) over the scopes and    *)
(* the expression evaluator of src/core/runtime.cpp and the prelude of     *)
(* src/core/builtins.cpp.                                                  *)
(*                                                                         *)
(* A machine owns a chain of environments.  An evaluation pushes one more  *)
(* environment (the layer), evaluates the forms of the program in it, and  *)
(* makes the layer the machine's scope only when every form succeeded.     *)
(* Blocks, lets and calls of closures push further environments; a closure *)
(* captures the environment it is made in BY REFERENCE, so an assignment   *)
(* to an environment is seen by every closure that captured it.            *)
(*                                                                         *)
(* The program text is abstracted: between Begin and the return, every     *)
(* next evaluation step the evaluator has is possible.  acc is the value   *)
(* the last evaluated expression left ("last" in evaluate_source).         *)
(***************************************************************************)
EXTENDS Naturals, Sequences

CONSTANTS
  VMs, NoVM,     \* the handles, and "no call in progress"
  Names,         \* identifiers
  PrintName,         \* the identifier "print" (println behaves the same)
  Data,          \* results of literals and operators
  Unit,          \* the value ()
  ErrorText,     \* the string value an error inside a closure becomes
  AllocMayFail,  \* may kmp_alloc, kba_alloc, kh_put and malloc fail?
  MaxEnvs,       \* bound: environments ever created
  MaxFrames,     \* bound: nesting of environments within one call
  MaxPrints      \* bound: prints captured by one call

ASSUME VmAssumption ==
  /\ NoVM \notin VMs
  /\ PrintName \in Names
  /\ AllocMayFail \in BOOLEAN
  /\ MaxEnvs \in Nat /\ MaxFrames \in Nat /\ MaxPrints \in Nat

VARIABLES
  envs,      \* the environments created so far; environment e is envs[e]
  scope,     \* scope[v]: on1x_vm::scope, 0 when v does not exist
  sink,      \* sink[v]: on1x_vm::sink, "null" or "captured"
  active,    \* the machine whose evaluate_source is on the stack, or NoVM
  frames,    \* the environments that call is in, innermost last
  acc,       \* the value of the last expression evaluated
  captured,  \* the prints written to the ostringstream of the call
  previous,  \* sink_guard::previous
  status     \* status[v]: the status the last call on v returned

machine == <<scope, sink>>
control == <<active, frames, acc, captured, previous>>
vars == <<envs, scope, sink, active, frames, acc, captured, previous, status>>

-----------------------------------------------------------------------------
(* Values.  A binding may hold a null pointer: make_value returns null     *)
(* when the pool is exhausted and bind stores it without a test.           *)
Unbound == [kind |-> "unbound"]
Null == [kind |-> "null"]
Datum(d) == [kind |-> "datum", of |-> d]
Fn(e) == [kind |-> "fn", env |-> e]            \* a closure over environment e
PrintTo(v) == [kind |-> "print", vm |-> v]     \* the native that writes to v->sink
PrintNowhere == [kind |-> "printNowhere"]      \* make_prelude(nullptr)'s native

Made(value) == {value} \cup (IF AllocMayFail THEN {Null} ELSE {})

(* An environment is its bindings and chain, the environments lookup       *)
(* visits from it: itself and its ancestors.  A parent is always older     *)
(* than its child, so the nearest environment is the one created last.     *)
NewEnv(parents, bindings) ==
  [chain |-> parents \cup {Len(envs) + 1}, bind |-> bindings]

Empty == [n \in Names |-> Unbound]
Child(e) == NewEnv(envs[e].chain, Empty)
ChildBinding(e, n, value) == NewEnv(envs[e].chain, [Empty EXCEPT ![n] = value])

Binders(e, n) == {a \in envs[e].chain : envs[a].bind[n] # Unbound}

lookup(e, n) ==
  IF Binders(e, n) = {} THEN Unbound
  ELSE LET nearest == CHOOSE a \in Binders(e, n) :
                        \A b \in Binders(e, n) : b <= a
       IN  envs[nearest].bind[n]

(* bind writes to the environment it is given, never to an ancestor.       *)
bind(e, n, value) == envs' = [envs EXCEPT ![e].bind[n] = value]

-----------------------------------------------------------------------------
Init ==
  /\ envs = << >>
  /\ scope = [v \in VMs |-> 0]
  /\ sink = [v \in VMs |-> "null"]
  /\ active = NoVM
  /\ frames = << >>
  /\ acc = Datum(Unit)
  /\ captured = 0
  /\ previous = "null"
  /\ status = [v \in VMs |-> "none"]

Live(v) == scope[v] # 0
Idle == active = NoVM
Room == Len(envs) < MaxEnvs

(* make_prelude: a root environment.  Only print matters here; the result  *)
(* of bind is ignored, so when memory is short print may be left unbound,  *)
(* null, or (in Create) the prelude's own native.                          *)
Prelude(natives) ==
  \E p \in natives \cup (IF AllocMayFail THEN {Unbound, Null, PrintNowhere} ELSE {}) :
    envs' = Append(envs, NewEnv({}, [Empty EXCEPT ![PrintName] = p]))

(* Variant: one prelude kept in a static and shared by every machine.      *)
CreateOverSharedPrelude(v) ==
  /\ Idle /\ ~Live(v) /\ Room
  /\ IF envs = << >> THEN Prelude({PrintTo(v)}) ELSE UNCHANGED envs
  /\ scope' = [scope EXCEPT ![v] = 1]
  /\ sink' = [sink EXCEPT ![v] = "null"]
  /\ status' = [status EXCEPT ![v] = "none"]
  /\ UNCHANGED control

(* on1x_vm_create: reset_vm, then print and println are bound again to     *)
(* natives that write to this machine's sink.                              *)
Create(v) ==
  /\ Idle /\ ~Live(v) /\ Room
  /\ Prelude({PrintTo(v)})
  /\ scope' = [scope EXCEPT ![v] = Len(envs) + 1]
  /\ sink' = [sink EXCEPT ![v] = "null"]
  /\ status' = [status EXCEPT ![v] = "none"]
  /\ UNCHANGED control

Destroy(v) ==
  /\ Idle /\ Live(v)
  /\ scope' = [scope EXCEPT ![v] = 0]
  /\ UNCHANGED <<envs, sink, status, control>>

(* Variant: reset binds the prelude's names again over the old scope.      *)
ResetOverOldScope(v) ==
  /\ Idle /\ Live(v) /\ Room
  /\ envs' = Append(envs, ChildBinding(scope[v], PrintName, PrintNowhere))
  /\ scope' = [scope EXCEPT ![v] = Len(envs) + 1]
  /\ sink' = [sink EXCEPT ![v] = "null"]
  /\ UNCHANGED <<status, control>>

(* on1x_vm_reset: a fresh prelude built with a null sink, nothing more.    *)
Reset(v) ==
  /\ Idle /\ Live(v) /\ Room
  /\ Prelude({PrintNowhere})
  /\ scope' = [scope EXCEPT ![v] = Len(envs) + 1]
  /\ sink' = [sink EXCEPT ![v] = "null"]
  /\ UNCHANGED <<status, control>>

(* eval_string and eval_file return before evaluating anything: a null     *)
(* source or path, a file that cannot be opened, a program that does not   *)
(* parse.                                                                  *)
Refuse(v) ==
  /\ Idle /\ Live(v)
  /\ \E s \in {"RUNTIME_ERROR", "IO_ERROR", "PARSE_ERROR"} :
       status' = [status EXCEPT ![v] = s]
  /\ UNCHANGED <<envs, machine, control>>

(* The program parsed: the guard saves the sink, the machine's output is   *)
(* redirected, and a new layer is put over the machine's scope.            *)
Begin(v) ==
  /\ Idle /\ Live(v) /\ Room
  /\ envs' = Append(envs, Child(scope[v]))
  /\ active' = v
  /\ frames' = <<[env |-> Len(envs) + 1, kind |-> "layer"]>>
  /\ acc' = Datum(Unit)
  /\ captured' = 0
  /\ previous' = sink[v]
  /\ sink' = [sink EXCEPT ![v] = "captured"]
  /\ UNCHANGED <<scope, status>>

-----------------------------------------------------------------------------
(* The evaluator.                                                          *)
Top == frames[Len(frames)].env
Evaluating == ~Idle

Push(kind) == frames' = Append(frames, [env |-> Len(envs) + 1, kind |-> kind])

(* Variants: a return without sink_guard, and one whose guard restores a   *)
(* pointer into the stream that has just been destroyed.                   *)
ReturnWithoutGuard(s) ==
  /\ active' = NoVM /\ frames' = << >> /\ acc' = Datum(Unit)
  /\ captured' = 0 /\ previous' = "null"
  /\ status' = [status EXCEPT ![active] = s]
  /\ UNCHANGED sink

ReturnWithStaleSink(s) ==
  /\ active' = NoVM /\ frames' = << >> /\ acc' = Datum(Unit)
  /\ captured' = 0 /\ previous' = "null"
  /\ status' = [status EXCEPT ![active] = s]
  /\ sink' = [sink EXCEPT ![active] = "destroyed stream"]

(* evaluate_source returns s: sink_guard's destructor restores the sink.   *)
Return(s) ==
  /\ active' = NoVM
  /\ frames' = << >>
  /\ acc' = Datum(Unit)
  /\ captured' = 0
  /\ previous' = "null"
  /\ sink' = [sink EXCEPT ![active] = previous]
  /\ status' = [status EXCEPT ![active] = s]

(* Variant: the layer is moved into the machine before the error is looked *)
(* at.                                                                     *)
AbortAfterCommit ==
  Return("RUNTIME_ERROR") /\ scope' = [scope EXCEPT ![active] = frames[1].env]

Abort == Return("RUNTIME_ERROR") /\ UNCHANGED scope

Barriers == {i \in DOMAIN frames : frames[i].kind = "call"}

(* err has been set: every eval returns at once.  A closure's native       *)
(* catches the error and returns its text as a value; with no closure on   *)
(* the stack the loop over the forms breaks and the call fails.            *)
Raise ==
  \/ /\ Barriers = {}
     /\ Abort
  \/ \E i \in Barriers :
       /\ \A j \in Barriers : j <= i
       /\ frames' = SubSeq(frames, 1, i - 1)
       /\ acc' = Datum(ErrorText)
       /\ UNCHANGED <<machine, active, captured, previous, status>>

Literal ==
  /\ Evaluating
  /\ \E d \in Data : \E value \in Made(Datum(d)) : acc' = value
  /\ UNCHANGED <<envs, machine, active, frames, captured, previous, status>>

(* A lambda captures the environment it is evaluated in.                   *)
Lambda ==
  /\ Evaluating
  /\ \E value \in Made(Fn(Top)) : acc' = value
  /\ UNCHANGED <<envs, machine, active, frames, captured, previous, status>>

(* An identifier.  A binding that holds null is "unknown name" too, and it *)
(* hides the bindings of the same name further out.                        *)
Read(n) ==
  /\ Evaluating
  /\ LET value == lookup(Top, n) IN
       IF value \in {Unbound, Null}
       THEN Raise
       ELSE /\ acc' = value
            /\ UNCHANGED <<machine, active, frames, captured, previous, status>>
  /\ UNCHANGED envs

(* Variant: assignment to the variable of an outer environment, if there   *)
(* is one (what most languages with closures do).                          *)
AssignToOuter(n) ==
  /\ Evaluating
  /\ \E e \in Binders(Top, n) \cup {Top} :
       /\ \A b \in Binders(Top, n) : b <= e
       /\ bind(e, n, acc)
  /\ UNCHANGED <<machine, control, status>>

(* n = <expression>: binds in the current environment.                     *)
Assign(n) ==
  /\ Evaluating
  /\ \/ /\ bind(Top, n, acc)
        /\ UNCHANGED <<machine, control, status>>
     \/ /\ AllocMayFail
        /\ Raise
        /\ UNCHANGED envs

EnterBlock ==
  /\ Evaluating /\ Room /\ Len(frames) < MaxFrames
  /\ envs' = Append(envs, Child(Top))
  /\ Push("inner")
  /\ UNCHANGED <<machine, active, acc, captured, previous, status>>

EnterLet(n) ==
  /\ Evaluating
  /\ \/ /\ Room /\ Len(frames) < MaxFrames
        /\ envs' = Append(envs, ChildBinding(Top, n, acc))
        /\ Push("inner")
        /\ UNCHANGED <<machine, active, acc, captured, previous, status>>
     \/ /\ AllocMayFail
        /\ Raise
        /\ UNCHANGED envs

(* A block, a let or the body of a closure has been evaluated.             *)
Leave ==
  /\ Evaluating /\ Len(frames) > 1
  /\ frames' = SubSeq(frames, 1, Len(frames) - 1)
  /\ UNCHANGED <<envs, machine, active, acc, captured, previous, status>>

(* acc |> f, with f a closure of one parameter p: the body runs in a child *)
(* of the environment the closure captured, not of the caller's.           *)
Call(f, p) ==
  /\ Evaluating
  /\ LET callee == lookup(Top, f) IN
       /\ callee.kind = "fn"
       /\ \/ /\ Room /\ Len(frames) < MaxFrames
             /\ envs' = Append(envs, ChildBinding(callee.env, p, acc))
             /\ Push("call")
             /\ UNCHANGED <<machine, active, acc, captured, previous, status>>
          \/ /\ AllocMayFail
             /\ acc' = Datum(ErrorText)
             /\ UNCHANGED <<envs, machine, active, frames, captured, previous, status>>

CallNonFunction(f) ==
  /\ Evaluating
  /\ lookup(Top, f).kind = "datum"
  /\ Raise
  /\ UNCHANGED envs

(* acc |> print, whatever print now denotes a native that prints.          *)
CallPrint(f) ==
  /\ Evaluating
  /\ LET callee == lookup(Top, f) IN
       /\ callee.kind \in {"print", "printNowhere"}
       /\ captured' = IF callee.kind = "print" /\ sink[callee.vm] = "captured"
                      THEN captured + 1 ELSE captured
       /\ captured' <= MaxPrints
  /\ acc' = Datum(Unit)
  /\ UNCHANGED <<envs, machine, active, frames, previous, status>>

(* panic, a failed assert, bad_alloc: an exception unwinds through every   *)
(* closure to the catch block of evaluate_source.                          *)
Panic ==
  /\ Evaluating
  /\ Abort
  /\ UNCHANGED envs

(* The last form succeeded: the layer becomes the machine's scope, and the *)
(* output is copied for the caller.                                        *)
Finish ==
  /\ Evaluating /\ Len(frames) = 1
  /\ scope' = [scope EXCEPT ![active] = frames[1].env]
  /\ \/ Return("OK")
     \/ AllocMayFail /\ Return("RUNTIME_ERROR")
  /\ UNCHANGED envs

Step ==
  \/ Literal \/ Lambda \/ EnterBlock \/ Leave \/ Panic \/ Finish
  \/ \E n \in Names :
       \/ Read(n) \/ Assign(n) \/ EnterLet(n)
       \/ CallNonFunction(n) \/ CallPrint(n)
       \/ \E p \in Names : Call(n, p)

Host ==
  \E v \in VMs : Create(v) \/ Destroy(v) \/ Reset(v) \/ Refuse(v) \/ Begin(v)

Next == Host \/ Step

Spec == Init /\ [][Next]_vars
-----------------------------------------------------------------------------
(* Type correctness of the machine's state.                                *)
Values ==
  [kind : {"null", "printNowhere"}]
  \cup [kind : {"datum"}, of : Data \cup {Unit, ErrorText}]
  \cup [kind : {"fn"}, env : Nat]
  \cup [kind : {"print"}, vm : VMs]

Environments == [chain : SUBSET Nat, bind : [Names -> Values \cup {Unbound}]]

TypeOK ==
  /\ envs \in Seq(Environments)
  /\ scope \in [VMs -> Nat]
  /\ sink \in [VMs -> {"null", "captured"}]
  /\ active \in VMs \cup {NoVM}
  /\ frames \in Seq([env : Nat, kind : {"layer", "inner", "call"}])
  /\ acc \in Values
  /\ captured \in Nat
  /\ previous \in {"null", "captured"}
  /\ status \in [VMs -> {"none", "OK", "PARSE_ERROR", "RUNTIME_ERROR", "IO_ERROR"}]

(* Chains are closed under "parent of", a parent is older than its child,  *)
(* and every reference to an environment is to one that was created.       *)
Chains ==
  \A e \in DOMAIN envs :
    /\ e \in envs[e].chain /\ envs[e].chain \subseteq 1..e
    /\ \A a \in envs[e].chain : envs[a].chain \subseteq envs[e].chain

Pointers ==
  /\ \A e \in DOMAIN envs : \A n \in Names :
       envs[e].bind[n].kind = "fn" => envs[e].bind[n].env \in DOMAIN envs
  /\ acc.kind = "fn" => acc.env \in DOMAIN envs
  /\ \A i \in DOMAIN frames : frames[i].env \in DOMAIN envs
  /\ \A v \in VMs : Live(v) => scope[v] \in DOMAIN envs

(* The stack of a call in progress: the layer at the bottom, over the      *)
(* scope of the machine the call is on.                                    *)
CallShape ==
  /\ Idle <=> frames = << >>
  /\ previous = "null"
  /\ ~Idle => /\ Live(active)
              /\ frames[1].kind = "layer"
              /\ envs[frames[1].env].chain = envs[scope[active]].chain \cup {frames[1].env}
              /\ \A i \in DOMAIN frames \ {1} : frames[i].kind # "layer"

(* The output of a machine is redirected exactly while a call on it is in  *)
(* progress: however the call ends (success, error, error inside nested    *)
(* closures, exception), the guard leaves no pointer to the destroyed      *)
(* stream behind.                                                          *)
SinkFollowsCall ==
  \A v \in VMs : sink[v] = "captured" <=> active = v

(* Environments that existed when the call in progress began (all of them  *)
(* when there is none).                                                    *)
Old(e) == e \in DOMAIN envs /\ (Idle \/ e < frames[1].env)

(* Nothing made by an evaluation that has not committed is reachable from  *)
(* what existed before it: old environments hold only closures over old    *)
(* environments, and every frame of the call is new.                       *)
NoEscape ==
  /\ \A e \in DOMAIN envs : Old(e) =>
       \A n \in Names : envs[e].bind[n].kind = "fn" => Old(envs[e].bind[n].env)
  /\ \A i \in DOMAIN frames : ~Old(frames[i].env)
  /\ \A v \in VMs : Live(v) => Old(scope[v])

(* Machines share nothing: two environments reachable from one another,    *)
(* through a parent or through a closure held in a binding, hang off the   *)
(* same prelude, and different machines have different preludes.           *)
Root(e) == CHOOSE a \in envs[e].chain : \A b \in envs[e].chain : a <= b

Isolation ==
  /\ \A v, w \in VMs : Live(v) /\ Live(w) /\ v # w => Root(scope[v]) # Root(scope[w])
  /\ \A e \in DOMAIN envs : \A n \in Names :
       LET value == envs[e].bind[n] IN
         value.kind = "fn" => Root(value.env) = Root(e)
  /\ \A i \in DOMAIN frames : Root(frames[i].env) = Root(scope[active])

(* The invariant the proofs of VmProofs.tla are by induction on.           *)
IInv == TypeOK /\ Chains /\ Pointers /\ CallShape /\ SinkFollowsCall /\ NoEscape

(* Isolation is not inductive alone: a value read from an ancestor must be *)
(* of the reader's own prelude, and so must the value in flight.           *)
Families ==
  /\ \A e \in DOMAIN envs : \A a \in envs[e].chain : Root(a) = Root(e)
  /\ acc.kind = "fn" => ~Idle /\ Root(acc.env) = Root(scope[active])

(* What a name means in an environment an earlier evaluation left behind   *)
(* never changes: a committed closure gives the same answers for ever,     *)
(* whatever later programs assign, whether they succeed or fail.           *)
EarlierMeaningIsStable ==
  [][\A e \in DOMAIN envs : Old(e) =>
       \A n \in Names : lookup(e, n)' = lookup(e, n)]_vars

-----------------------------------------------------------------------------
(* The abstract machine of Session.tla: what a program submitted to v      *)
(* would see now.                                                          *)
Visible(v) == [n \in Names |-> IF Live(v) THEN lookup(scope[v], n) ELSE Unbound]

Promise == INSTANCE Session WITH
  Builtins <- {PrintName},
  live <- {v \in VMs : Live(v)},
  defs <- [v \in VMs |-> Visible(v)],
  running <- active

(* Every step of the machine is a step of Session or leaves its state      *)
(* alone: evaluations are atomic, and only a call that returns OK (or that *)
(* could not copy its output) changes what later programs see.             *)
ImplementsSession == Promise!Spec
=============================================================================
