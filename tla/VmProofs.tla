------------------------------ MODULE VmProofs ------------------------------
(***************************************************************************)
(* Proofs about Vm.tla, for every set of machines and names and with or    *)
(* without allocation failures.                                            *)
(***************************************************************************)
EXTENDS Vm, TLAPS, SequenceTheorems, NaturalsInduction, WellFoundedInduction

(* Values are records whose kinds tell them apart. *)
LEMMA ValueFacts ==
  /\ Unbound.kind = "unbound" /\ Null.kind = "null"
  /\ PrintNowhere.kind = "printNowhere"
  /\ Null \in Values /\ PrintNowhere \in Values
  /\ \A d : Datum(d).kind = "datum"
  /\ \A d \in Data \cup {Unit, ErrorText} : Datum(d) \in Values
  /\ \A e : Fn(e).kind = "fn" /\ Fn(e).env = e
  /\ \A e \in Nat : Fn(e) \in Values
  /\ \A v : PrintTo(v).kind = "print" /\ PrintTo(v).vm = v
  /\ \A v \in VMs : PrintTo(v) \in Values
BY DEF Unbound, Null, PrintNowhere, Datum, Fn, PrintTo, Values

(* A new environment is well typed when its chain and bindings are. *)
LEMMA NewEnvType ==
  ASSUME envs \in Seq(Environments),
         NEW c \in SUBSET Nat, NEW b \in [Names -> Values \cup {Unbound}]
  PROVE  /\ NewEnv(c, b) \in Environments
         /\ NewEnv(c, b).chain = c \cup {Len(envs) + 1}
         /\ NewEnv(c, b).bind = b
<1>1. Len(envs) \in Nat
  OBVIOUS
<1>2. \A k \in Nat : c \cup {k + 1} \in SUBSET Nat
  OBVIOUS
<1> DEFINE k == c \cup {Len(envs) + 1}
<1> HIDE DEF k
<1>3. [chain |-> k, bind |-> b] \in Environments
  BY <1>1, <1>2 DEF Environments, k
<1>4. QED
  BY <1>3 DEF NewEnv, k

LEMMA EmptyType == Empty \in [Names -> Values \cup {Unbound}]
BY DEF Empty

LEMMA EnvType ==
  ASSUME envs \in Seq(Environments), NEW e \in DOMAIN envs
  PROVE  /\ envs[e] \in Environments
         /\ envs[e].chain \in SUBSET Nat
         /\ envs[e].bind \in [Names -> Values \cup {Unbound}]
         /\ \A n \in Names : envs[e].bind[n] \in Values \cup {Unbound}
<1>1. envs[e] \in Environments
  OBVIOUS
<1>2. QED
  BY <1>1 DEF Environments

(* Appending an environment leaves the others where they are. *)
LEMMA AppendEnv ==
  ASSUME envs \in Seq(Environments), NEW r \in Environments,
         envs' = Append(envs, r)
  PROVE  /\ envs' \in Seq(Environments)
         /\ Len(envs) \in Nat
         /\ Len(envs') = Len(envs) + 1
         /\ DOMAIN envs = 1..Len(envs)
         /\ DOMAIN envs' = 1..(Len(envs) + 1)
         /\ envs'[Len(envs) + 1] = r
         /\ \A e \in DOMAIN envs : envs'[e] = envs[e]
OBVIOUS

(* bind changes one binding of one environment. *)
LEMMA BindEnv ==
  ASSUME envs \in Seq(Environments), NEW e \in DOMAIN envs, NEW n \in Names,
         NEW val \in Values \cup {Unbound}, bind(e, n, val)
  PROVE  /\ envs' \in Seq(Environments)
         /\ Len(envs') = Len(envs)
         /\ DOMAIN envs' = DOMAIN envs
         /\ \A a \in DOMAIN envs : envs'[a].chain = envs[a].chain
         /\ \A a \in DOMAIN envs \ {e} : envs'[a] = envs[a]
         /\ \A m \in Names : envs'[e].bind[m] = IF m = n THEN val ELSE envs[e].bind[m]
<1> DEFINE r == [envs[e] EXCEPT !.bind[n] = val]
<1>1. envs[e] \in Environments
  OBVIOUS
<1>2. /\ r \in Environments
      /\ r.chain = envs[e].chain
      /\ \A m \in Names : r.bind[m] = IF m = n THEN val ELSE envs[e].bind[m]
  BY <1>1 DEF Environments
<1>3. envs' = [envs EXCEPT ![e] = r]
  BY DEF bind
<1> HIDE DEF r
<1>4. QED
  BY <1>2, <1>3, ExceptSeq

-----------------------------------------------------------------------------
(* The stack of the call in progress.                                      *)
Frames == [env : Nat, kind : {"layer", "inner", "call"}]

LEMMA PushFrame ==
  ASSUME frames \in Seq(Frames), NEW f \in Frames, frames' = Append(frames, f)
  PROVE  /\ frames' \in Seq(Frames)
         /\ Len(frames) \in Nat
         /\ DOMAIN frames = 1..Len(frames)
         /\ DOMAIN frames' = 1..(Len(frames) + 1)
         /\ frames'[Len(frames) + 1] = f
         /\ \A i \in 1..Len(frames) : frames'[i] = frames[i]
OBVIOUS

LEMMA PopFrames ==
  ASSUME frames \in Seq(Frames), NEW k \in 1..Len(frames),
         frames' = SubSeq(frames, 1, k)
  PROVE  /\ frames' \in Seq(Frames)
         /\ k \in Nat
         /\ frames' # << >>
         /\ DOMAIN frames = 1..Len(frames)
         /\ DOMAIN frames' = 1..k
         /\ \A i \in 1..k : frames'[i] = frames[i]
OBVIOUS

(* What holds of the stack while a call is being evaluated. *)
LEMMA StackFacts ==
  ASSUME IInv, Evaluating
  PROVE  /\ active \in VMs
         /\ frames \in Seq(Frames)
         /\ Len(frames) \in Nat /\ Len(frames) >= 1
         /\ DOMAIN frames = 1..Len(frames)
         /\ DOMAIN envs = 1..Len(envs) /\ Len(envs) \in Nat
         /\ frames[1].env \in DOMAIN envs
         /\ \A i \in DOMAIN frames : frames[i].env \in DOMAIN envs /\ frames[i].env >= frames[1].env
         /\ Top \in DOMAIN envs /\ Top >= frames[1].env
         /\ scope[active] \in DOMAIN envs
         /\ \A v \in VMs : scope[v] < frames[1].env
<1>1. active \in VMs
  BY DEF IInv, TypeOK, Evaluating, Idle
<1>2. /\ frames \in Seq(Frames) /\ frames # << >>
      /\ envs \in Seq(Environments)
  BY DEF IInv, TypeOK, Evaluating, CallShape, Frames
<1>3. /\ Len(frames) \in Nat /\ Len(frames) >= 1
      /\ DOMAIN frames = 1..Len(frames)
      /\ DOMAIN envs = 1..Len(envs) /\ Len(envs) \in Nat
  BY <1>2
<1>4. \A i \in DOMAIN frames : frames[i].env \in DOMAIN envs
  BY DEF IInv, Pointers
<1>5. /\ frames[1].env \in DOMAIN envs
      /\ \A i \in DOMAIN frames : frames[i].env >= frames[1].env
  BY <1>3, <1>4 DEF IInv, NoEscape, Old, Evaluating
<1>6. Top \in DOMAIN envs /\ Top >= frames[1].env
  BY <1>3, <1>4, <1>5 DEF Top
<1>7. scope[active] \in DOMAIN envs
  BY <1>1 DEF IInv, CallShape, Pointers, Evaluating
<1>8. \A v \in VMs : scope[v] < frames[1].env
  <2> TAKE v \in VMs
  <2>1. CASE Live(v)
    BY <2>1, <1>3, <1>5 DEF IInv, NoEscape, Old, Evaluating, Idle
  <2>2. CASE ~Live(v)
    BY <2>2, <1>3, <1>5 DEF Live
  <2>3. QED
    BY <2>1, <2>2
<1>9. QED
  BY <1>1, <1>2, <1>3, <1>4, <1>5, <1>6, <1>7, <1>8

(* A set of environments that has a member has a youngest one. *)
LEMMA Youngest ==
  ASSUME NEW k \in Nat, NEW S \in SUBSET (1..k), S # {}
  PROVE  \E m \in S : \A x \in S : x <= m
<1> DEFINE T == {k - x : x \in S}
<1>0. \A x \in S : x \in 1..k /\ k - x \in Nat
  OBVIOUS
<1>1. T \subseteq Nat /\ T # {}
  BY <1>0
<1>2. \E t \in T : \A u \in T : ~ (<<u, t>> \in OpToRel(<, Nat))
  <2> HIDE DEF T
  <2>1. QED
    BY <1>1, WFMin, NatLessThanWellFounded
<1>3. PICK t \in T : \A u \in T : ~ (u < t)
  BY <1>1, <1>2 DEF OpToRel
<1>4. PICK m \in S : t = k - m
  OBVIOUS
<1>5. \A x \in S : k - x \in T
  OBVIOUS
<1>6. \A x \in S : x <= m
  BY <1>3, <1>4, <1>5
<1>7. QED
  BY <1>6

(* What lookup returns is a value stored in a binding of the chain. *)
LEMMA LookupValue ==
  ASSUME TypeOK, Chains, Pointers, NEW e \in DOMAIN envs, NEW n \in Names
  PROVE  /\ lookup(e, n) \in Values \cup {Unbound}
         /\ lookup(e, n).kind = "fn" => lookup(e, n).env \in DOMAIN envs
         /\ Binders(e, n) # {} => lookup(e, n) # Unbound
         /\ Binders(e, n) = {} => lookup(e, n) = Unbound
<1>1. /\ envs \in Seq(Environments)
      /\ DOMAIN envs = 1..Len(envs) /\ Len(envs) \in Nat
  BY DEF TypeOK
<1>2. CASE Binders(e, n) = {}
  BY <1>2, ValueFacts DEF lookup
<1>3. CASE Binders(e, n) # {}
  <2> DEFINE IsNearest(a) == \A b \in Binders(e, n) : b <= a
             nearest == CHOOSE a \in Binders(e, n) : IsNearest(a)
  <2>1. Binders(e, n) \in SUBSET (1..Len(envs))
    BY <1>1 DEF Chains, Binders
  <2>2. \E a \in Binders(e, n) : IsNearest(a)
    <3>1. \E a \in Binders(e, n) : \A b \in Binders(e, n) : b <= a
      <4> HIDE DEF nearest, IsNearest
      <4>1. QED
        BY <1>1, <1>3, <2>1, Youngest
    <3>2. QED
      BY <3>1
  <2>3. nearest \in Binders(e, n)
    BY <2>2
  <2>4. lookup(e, n) = envs[nearest].bind[n]
    BY <1>3 DEF lookup
  <2> HIDE DEF nearest
  <2>5. nearest \in DOMAIN envs /\ envs[nearest].bind[n] # Unbound
    BY <1>1, <2>1, <2>3 DEF Binders
  <2>6. envs[nearest].bind[n] \in Values \cup {Unbound}
    BY <1>1, <2>5, EnvType
  <2>7. envs[nearest].bind[n].kind = "fn" => envs[nearest].bind[n].env \in DOMAIN envs
    BY <2>5 DEF Pointers
  <2>8. QED
    BY <1>3, <2>4, <2>5, <2>6, <2>7
<1>4. QED
  BY <1>2, <1>3

-----------------------------------------------------------------------------
(* How the three ways a step changes the environments (not at all, one     *)
(* more, one binding) preserve the invariant.                              *)
LEMMA GrowChains ==
  ASSUME TypeOK, Chains, NEW r \in Environments, envs' = Append(envs, r),
         \/ r.chain = {Len(envs) + 1}
         \/ \E p \in DOMAIN envs : r.chain = envs[p].chain \cup {Len(envs) + 1}
  PROVE  Chains'
<1>1. envs \in Seq(Environments)
  BY DEF TypeOK
<1>2. /\ Len(envs) \in Nat
      /\ DOMAIN envs = 1..Len(envs)
      /\ DOMAIN envs' = 1..(Len(envs) + 1)
      /\ envs'[Len(envs) + 1] = r
      /\ \A e \in DOMAIN envs : envs'[e] = envs[e]
  BY <1>1, AppendEnv
<1> DEFINE new == Len(envs) + 1
<1>3. ASSUME NEW e \in DOMAIN envs
      PROVE  /\ e \in envs'[e].chain /\ envs'[e].chain \subseteq 1..e
             /\ \A a \in envs'[e].chain : envs'[a].chain \subseteq envs'[e].chain
  BY <1>2, <1>3 DEF Chains
<1>4. /\ new \in r.chain /\ r.chain \subseteq 1..new
      /\ \A a \in r.chain : envs'[a].chain \subseteq r.chain
  <2>1. CASE r.chain = {new}
    BY <1>2, <2>1
  <2>2. CASE \E p \in DOMAIN envs : r.chain = envs[p].chain \cup {new}
    <3>1. PICK p \in DOMAIN envs : r.chain = envs[p].chain \cup {new}
      BY <2>2
    <3>2. p \in envs[p].chain /\ envs[p].chain \subseteq 1..p
      BY DEF Chains
    <3>3. /\ new \in r.chain /\ r.chain \subseteq 1..new
      BY <1>2, <3>1, <3>2
    <3>4. \A a \in envs[p].chain : a \in DOMAIN envs /\ envs'[a].chain \subseteq envs[p].chain
      BY <1>2, <3>2 DEF Chains
    <3>5. QED
      BY <1>2, <3>1, <3>3, <3>4
  <2>3. QED
    BY <2>1, <2>2
<1>5. QED
  BY <1>2, <1>3, <1>4 DEF Chains

(* A step that touches neither the environments nor the machines, and that *)
(* leaves at least the layer on the stack. *)
LEMMA KeepStep ==
  ASSUME IInv, Evaluating,
         UNCHANGED <<envs, machine, active, previous, status>>,
         captured' \in Nat, acc' \in Values,
         acc'.kind = "fn" => acc'.env \in DOMAIN envs,
         frames' = frames \/ \E k \in 1..Len(frames) : frames' = SubSeq(frames, 1, k)
  PROVE  IInv'
<1>0. UNCHANGED <<envs, scope, sink, active, previous, status>>
  BY DEF machine
<1>1. /\ frames' \in Seq(Frames) /\ frames' # << >>
      /\ DOMAIN frames' \subseteq DOMAIN frames /\ 1 \in DOMAIN frames'
      /\ \A i \in DOMAIN frames' : frames'[i] = frames[i]
  <2>1. CASE frames' = frames
    BY <2>1, StackFacts
  <2>2. CASE \E k \in 1..Len(frames) : frames' = SubSeq(frames, 1, k)
    <3>1. PICK k \in 1..Len(frames) : frames' = SubSeq(frames, 1, k)
      BY <2>2
    <3>2. /\ frames' \in Seq(Frames) /\ frames' # << >>
          /\ DOMAIN frames = 1..Len(frames) /\ DOMAIN frames' = 1..k /\ k \in Nat
          /\ \A i \in 1..k : frames'[i] = frames[i]
      BY <3>1, PopFrames, StackFacts
    <3>3. QED
      BY <3>2, StackFacts
  <2>3. QED
    BY <2>1, <2>2
<1>2. TypeOK'
  BY <1>0, <1>1 DEF IInv, TypeOK, Frames, Values, Environments
<1>3. Chains'
  BY <1>0 DEF IInv, Chains
<1>4. Pointers'
  BY <1>0, <1>1 DEF IInv, Pointers, Live
<1>5. CallShape'
  BY <1>0, <1>1 DEF IInv, CallShape, Live, Idle, Evaluating
<1>6. SinkFollowsCall'
  BY <1>0 DEF IInv, SinkFollowsCall
<1>7. NoEscape'
  <2>1. \A e : Old(e)' <=> Old(e)
    BY <1>0, <1>1 DEF Old, Idle
  <2>2. QED
    BY <1>0, <1>1, <2>1 DEF IInv, NoEscape, Live
<1>8. QED
  BY <1>2, <1>3, <1>4, <1>5, <1>6, <1>7 DEF IInv

(* evaluate_source returns: the stack is gone, the sink is restored. *)
LEMMA ReturnStep ==
  ASSUME IInv, Evaluating, UNCHANGED envs,
         NEW s \in {"OK", "RUNTIME_ERROR"}, Return(s),
         \/ UNCHANGED scope
         \/ scope' = [scope EXCEPT ![active] = frames[1].env]
  PROVE  IInv'
<1>1. /\ active \in VMs /\ Live(active)
      /\ frames[1].env \in DOMAIN envs /\ frames[1].env \in Nat \ {0}
  BY StackFacts DEF IInv, CallShape, Evaluating
<1>2. /\ active' = NoVM /\ frames' = << >> /\ acc' = Datum(Unit)
      /\ captured' = 0 /\ previous' = "null" /\ envs' = envs
      /\ sink' = [sink EXCEPT ![active] = "null"]
      /\ status' = [status EXCEPT ![active] = s]
  BY DEF Return, IInv, CallShape
<1>3. /\ scope' \in [VMs -> Nat]
      /\ \A v \in VMs : scope'[v] # 0 => scope'[v] \in DOMAIN envs
  BY <1>1 DEF IInv, TypeOK, Pointers, Live
<1>4. TypeOK'
  <2>1. acc' \in Values
    BY <1>2, ValueFacts
  <2>2. status' \in [VMs -> {"none", "OK", "PARSE_ERROR", "RUNTIME_ERROR", "IO_ERROR"}]
    BY <1>2 DEF IInv, TypeOK
  <2>3. sink' \in [VMs -> {"null", "captured"}]
    BY <1>2 DEF IInv, TypeOK
  <2>4. QED
    BY <1>2, <1>3, <2>1, <2>2, <2>3 DEF IInv, TypeOK
<1>5. Chains'
  BY <1>2 DEF IInv, Chains
<1>6. Pointers'
  BY <1>2, <1>3, ValueFacts DEF IInv, Pointers, Live
<1>7. CallShape'
  BY <1>2 DEF CallShape, Idle
<1>8. SinkFollowsCall'
  BY <1>1, <1>2, VmAssumption DEF IInv, SinkFollowsCall, TypeOK
<1>9. NoEscape'
  <2>1. \A e : Old(e)' <=> e \in DOMAIN envs
    BY <1>2 DEF Old, Idle
  <2>2. QED
    BY <1>2, <1>3, <2>1 DEF IInv, NoEscape, Pointers, Live
<1>10. QED
  BY <1>4, <1>5, <1>6, <1>7, <1>8, <1>9 DEF IInv

LEMMA AbortStep ==
  ASSUME IInv, Evaluating, Abort, UNCHANGED envs
  PROVE  IInv'
BY ReturnStep DEF Abort

LEMMA RaiseStep ==
  ASSUME IInv, Evaluating, Raise, UNCHANGED envs
  PROVE  IInv'
<1>1. CASE Abort
  BY <1>1, AbortStep
<1>2. CASE ~Abort
  <2>1. PICK i \in Barriers :
          /\ frames' = SubSeq(frames, 1, i - 1)
          /\ acc' = Datum(ErrorText)
          /\ UNCHANGED <<machine, active, captured, previous, status>>
    BY <1>2 DEF Raise
  <2>2. i \in 1..Len(frames) /\ i # 1 /\ i - 1 \in 1..Len(frames)
    BY StackFacts DEF Barriers, IInv, CallShape, Evaluating
  <2>3. acc' \in Values /\ acc'.kind # "fn" /\ captured' \in Nat
    BY <2>1, ValueFacts DEF IInv, TypeOK
  <2>4. QED
    BY <2>1, <2>2, <2>3, KeepStep
<1>3. QED
  BY <1>1, <1>2

(* A block, a let or a call enters a new environment, a child of p. *)
LEMMA PushStep ==
  ASSUME IInv, Evaluating, NEW p \in DOMAIN envs,
         NEW b \in [Names -> Values \cup {Unbound}],
         \A n \in Names : b[n].kind = "fn" => b[n].env \in DOMAIN envs,
         envs' = Append(envs, NewEnv(envs[p].chain, b)),
         NEW kind \in {"inner", "call"}, Push(kind),
         UNCHANGED <<machine, active, acc, captured, previous, status>>
  PROVE  IInv'
<1> DEFINE new == Len(envs) + 1
           r == NewEnv(envs[p].chain, b)
<1>1. envs \in Seq(Environments) /\ frames \in Seq(Frames)
  BY DEF IInv, TypeOK, Frames
<1>2. /\ r \in Environments
      /\ r.chain = envs[p].chain \cup {new}
      /\ r.bind = b
  BY <1>1, EnvType, NewEnvType
<1> HIDE DEF r
<1>3. /\ envs' \in Seq(Environments)
      /\ Len(envs) \in Nat
      /\ DOMAIN envs = 1..Len(envs)
      /\ DOMAIN envs' = 1..new
      /\ envs'[new] = r
      /\ \A e \in DOMAIN envs : envs'[e] = envs[e]
  BY <1>1, <1>2, AppendEnv DEF r
<1> DEFINE f == [env |-> new, kind |-> kind]
<1>4. f \in Frames /\ f.env = new /\ f.kind = kind
  BY <1>3 DEF Frames
<1> HIDE DEF f
<1>5. /\ frames' \in Seq(Frames)
      /\ Len(frames) \in Nat /\ Len(frames) >= 1
      /\ DOMAIN frames = 1..Len(frames)
      /\ DOMAIN frames' = 1..(Len(frames) + 1)
      /\ frames'[Len(frames) + 1] = f
      /\ \A i \in 1..Len(frames) : frames'[i] = frames[i]
  <2>1. frames' = Append(frames, f)
    BY DEF Push, f
  <2>2. QED
    BY <1>1, <1>4, <2>1, PushFrame, StackFacts
<1>6. UNCHANGED <<scope, sink, active, acc, captured, previous, status>>
  BY DEF machine
<1>7. TypeOK'
  BY <1>3, <1>5, <1>6 DEF IInv, TypeOK, Frames
<1>8. Chains'
  BY <1>2, GrowChains DEF IInv, r
<1>9. Pointers'
  <2>1. \A e \in DOMAIN envs' : \A n \in Names :
          envs'[e].bind[n].kind = "fn" => envs'[e].bind[n].env \in DOMAIN envs'
    BY <1>2, <1>3 DEF IInv, Pointers
  <2>2. \A i \in DOMAIN frames' : frames'[i].env \in DOMAIN envs'
    BY <1>3, <1>4, <1>5 DEF IInv, Pointers
  <2>3. QED
    BY <1>3, <1>6, <2>1, <2>2 DEF IInv, Pointers, Live
<1>10. CallShape'
  <2>1. /\ 1 \in DOMAIN frames /\ 1 \in DOMAIN frames'
        /\ frames' # << >> /\ frames'[1] = frames[1]
    BY <1>5
  <2>2. /\ frames[1].env \in DOMAIN envs
        /\ scope[active] \in DOMAIN envs
    BY StackFacts
  <2>3. \A i \in DOMAIN frames' \ {1} : frames'[i].kind # "layer"
    BY <1>4, <1>5 DEF IInv, CallShape, Evaluating
  <2>4. QED
    BY <1>3, <1>6, <2>1, <2>2, <2>3 DEF IInv, CallShape, Live, Idle, Evaluating
<1>11. SinkFollowsCall'
  BY <1>6 DEF IInv, SinkFollowsCall
<1>12. NoEscape'
  <2>1. /\ frames'[1] = frames[1] /\ frames[1].env \in DOMAIN envs
        /\ new > frames[1].env
    BY <1>3, <1>5, StackFacts
  <2>2. \A e : Old(e)' <=> Old(e)
    BY <1>3, <1>6, <2>1 DEF Old, Idle, Evaluating
  <2>3. ~Old(new)
    BY <2>1 DEF Old
  <2>4. \A i \in DOMAIN frames' : ~Old(frames'[i].env)
    BY <1>4, <1>5, <2>3 DEF IInv, NoEscape
  <2>5. \A e : Old(e) => e \in DOMAIN envs /\ envs'[e] = envs[e]
    BY <1>3 DEF Old
  <2>6. QED
    BY <1>6, <2>2, <2>4, <2>5 DEF IInv, NoEscape, Live
<1>13. QED
  BY <1>7, <1>8, <1>9, <1>10, <1>11, <1>12 DEF IInv

(* An assignment writes the value of its right-hand side to the innermost  *)
(* environment, which no older environment can reach. *)
LEMMA BindStep ==
  ASSUME IInv, Evaluating, NEW n \in Names, bind(Top, n, acc),
         UNCHANGED <<machine, control, status>>
  PROVE  IInv'
<1>1. /\ envs \in Seq(Environments) /\ acc \in Values
      /\ acc.kind = "fn" => acc.env \in DOMAIN envs
  BY DEF IInv, TypeOK, Pointers
<1>2. /\ Top \in DOMAIN envs /\ ~Old(Top)
      /\ frames[1].env \in DOMAIN envs
      /\ scope[active] \in DOMAIN envs
  BY StackFacts DEF IInv, NoEscape, Top
<1>3. /\ envs' \in Seq(Environments)
      /\ DOMAIN envs' = DOMAIN envs
      /\ \A a \in DOMAIN envs : envs'[a].chain = envs[a].chain
      /\ \A a \in DOMAIN envs \ {Top} : envs'[a] = envs[a]
      /\ \A m \in Names : envs'[Top].bind[m] = IF m = n THEN acc ELSE envs[Top].bind[m]
  BY <1>1, <1>2, BindEnv
<1>4. UNCHANGED <<scope, sink, active, frames, acc, captured, previous, status>>
  BY DEF machine, control
<1>5. TypeOK'
  BY <1>3, <1>4 DEF IInv, TypeOK
<1>6. Chains'
  <2>1. \A e \in DOMAIN envs : envs[e].chain \subseteq DOMAIN envs
    BY <1>1 DEF IInv, Chains
  <2>2. QED
    BY <1>3, <2>1 DEF IInv, Chains
<1>7. Pointers'
  <2>1. \A e \in DOMAIN envs : \A m \in Names :
          envs'[e].bind[m].kind = "fn" => envs'[e].bind[m].env \in DOMAIN envs
    BY <1>1, <1>3 DEF IInv, Pointers
  <2>2. QED
    BY <1>3, <1>4, <2>1 DEF IInv, Pointers, Live
<1>8. CallShape'
  BY <1>2, <1>3, <1>4 DEF IInv, CallShape, Live, Idle, Evaluating
<1>9. SinkFollowsCall'
  BY <1>4 DEF IInv, SinkFollowsCall
<1>10. NoEscape'
  <2>1. \A e : Old(e)' <=> Old(e)
    BY <1>3, <1>4 DEF Old, Idle
  <2>2. \A e : Old(e) => e \in DOMAIN envs /\ envs'[e] = envs[e]
    BY <1>2, <1>3 DEF Old
  <2>3. QED
    BY <1>3, <1>4, <2>1, <2>2 DEF IInv, NoEscape, Live
<1>11. QED
  BY <1>5, <1>6, <1>7, <1>8, <1>9, <1>10 DEF IInv

(* create and reset: the machine's scope is a new root environment. *)
LEMMA PreludeStep ==
  ASSUME IInv, Idle, NEW v \in VMs,
         NEW natives, natives \subseteq Values,
         \A p \in natives : p.kind # "fn",
         Prelude(natives),
         scope' = [scope EXCEPT ![v] = Len(envs) + 1],
         sink' = [sink EXCEPT ![v] = "null"],
         status' \in [VMs -> {"none", "OK", "PARSE_ERROR", "RUNTIME_ERROR", "IO_ERROR"}],
         UNCHANGED control
  PROVE  IInv'
<1>1. PICK p \in Values \cup {Unbound} :
        p.kind # "fn" /\ envs' = Append(envs, NewEnv({}, [Empty EXCEPT ![PrintName] = p]))
  BY ValueFacts DEF Prelude
<1> DEFINE new == Len(envs) + 1
           b == [Empty EXCEPT ![PrintName] = p]
           r == NewEnv({}, b)
<1>2. /\ b \in [Names -> Values \cup {Unbound}]
      /\ \A n \in Names : b[n].kind # "fn"
  BY <1>1, VmAssumption, ValueFacts DEF Empty
<1> HIDE DEF b
<1>3. envs \in Seq(Environments)
  BY DEF IInv, TypeOK
<1>4. /\ r \in Environments
      /\ r.chain = {new}
      /\ r.bind = b
  BY <1>2, <1>3, NewEnvType
<1> HIDE DEF r
<1>5. envs' = Append(envs, r)
  BY <1>1 DEF r, b
<1>6. /\ envs' \in Seq(Environments)
      /\ Len(envs) \in Nat
      /\ DOMAIN envs = 1..Len(envs)
      /\ DOMAIN envs' = 1..new
      /\ envs'[new] = r
      /\ \A e \in DOMAIN envs : envs'[e] = envs[e]
  BY <1>3, <1>4, <1>5, AppendEnv
<1>7. UNCHANGED <<active, frames, acc, captured, previous>>
  BY DEF control
<1>8. frames = << >>
  BY DEF IInv, CallShape
<1>9. TypeOK'
  <2>1. /\ scope' \in [VMs -> Nat]
        /\ sink' \in [VMs -> {"null", "captured"}]
    BY <1>6 DEF IInv, TypeOK
  <2>2. QED
    BY <1>6, <1>7, <2>1 DEF IInv, TypeOK
<1>10. Chains'
  BY <1>4, <1>5, GrowChains DEF IInv
<1>11. Pointers'
  <2>1. \A e \in DOMAIN envs' : \A n \in Names :
          envs'[e].bind[n].kind = "fn" => envs'[e].bind[n].env \in DOMAIN envs'
    BY <1>2, <1>4, <1>6 DEF IInv, Pointers
  <2>2. \A w \in VMs : scope'[w] # 0 => scope'[w] \in DOMAIN envs'
    BY <1>6 DEF IInv, Pointers, TypeOK, Live
  <2>3. QED
    BY <1>6, <1>7, <1>8, <2>1, <2>2 DEF IInv, Pointers, Live
<1>12. CallShape'
  BY <1>7 DEF IInv, CallShape, Idle
<1>13. SinkFollowsCall'
  BY <1>7, VmAssumption DEF IInv, SinkFollowsCall, TypeOK, Idle
<1>14. NoEscape'
  <2>1. \A e : Old(e)' <=> e \in DOMAIN envs'
    BY <1>7 DEF Old, Idle
  <2>2. QED
    BY <1>7, <1>8, <1>11, <2>1 DEF NoEscape, Pointers, Live
<1>15. QED
  BY <1>9, <1>10, <1>11, <1>12, <1>13, <1>14 DEF IInv

LEMMA DestroyStep ==
  ASSUME IInv, NEW v \in VMs, Destroy(v)
  PROVE  IInv'
<1>1. /\ Idle /\ scope' = [scope EXCEPT ![v] = 0]
      /\ UNCHANGED <<envs, sink, status, active, frames, acc, captured, previous>>
  BY DEF Destroy, control
<1>2. /\ scope' \in [VMs -> Nat]
      /\ \A w \in VMs : scope'[w] # 0 => scope'[w] = scope[w]
  BY <1>1 DEF IInv, TypeOK
<1>3. TypeOK' /\ Chains' /\ CallShape' /\ SinkFollowsCall'
  BY <1>1, <1>2 DEF IInv, TypeOK, Chains, CallShape, SinkFollowsCall, Idle
<1>4. Pointers' /\ NoEscape'
  BY <1>1, <1>2 DEF IInv, Pointers, NoEscape, Old, Idle, Live
<1>5. QED
  BY <1>3, <1>4 DEF IInv

(* A step that changes nothing but a status. *)
LEMMA StatusStep ==
  ASSUME IInv, UNCHANGED <<envs, machine, control>>,
         status' \in [VMs -> {"none", "OK", "PARSE_ERROR", "RUNTIME_ERROR", "IO_ERROR"}]
  PROVE  IInv'
<1>1. UNCHANGED <<envs, scope, sink, active, frames, acc, captured, previous>>
  BY DEF machine, control
<1>2. TypeOK' /\ Chains' /\ Pointers'
  BY <1>1 DEF IInv, TypeOK, Chains, Pointers, Live
<1>3. CallShape' /\ SinkFollowsCall' /\ NoEscape'
  BY <1>1 DEF IInv, CallShape, SinkFollowsCall, NoEscape, Old, Idle, Live
<1>4. QED
  BY <1>2, <1>3 DEF IInv

(* The layer is a new child of the machine's scope. *)
LEMMA BeginStep ==
  ASSUME IInv, NEW v \in VMs, Begin(v)
  PROVE  IInv'
<1> DEFINE new == Len(envs) + 1
           r == Child(scope[v])
           f == [env |-> new, kind |-> "layer"]
<1>1. /\ Idle /\ scope[v] \in DOMAIN envs
      /\ envs' = Append(envs, r)
      /\ active' = v /\ frames' = <<f>> /\ acc' = Datum(Unit) /\ captured' = 0
      /\ previous' = sink[v] /\ sink' = [sink EXCEPT ![v] = "captured"]
      /\ scope' = scope /\ status' = status
  BY DEF Begin, IInv, Pointers
<1>2. envs \in Seq(Environments)
  BY DEF IInv, TypeOK
<1>3. /\ r \in Environments
      /\ r.chain = envs[scope[v]].chain \cup {new}
      /\ \A n \in Names : r.bind[n] = Unbound
  <2>1. /\ NewEnv(envs[scope[v]].chain, Empty) \in Environments
        /\ NewEnv(envs[scope[v]].chain, Empty).chain = envs[scope[v]].chain \cup {new}
        /\ NewEnv(envs[scope[v]].chain, Empty).bind = Empty
    BY <1>1, <1>2, EnvType, NewEnvType, EmptyType
  <2>2. QED
    BY <2>1 DEF Child, Empty
<1> HIDE DEF r
<1>4. /\ envs' \in Seq(Environments)
      /\ Len(envs) \in Nat
      /\ DOMAIN envs = 1..Len(envs)
      /\ DOMAIN envs' = 1..new
      /\ envs'[new] = r
      /\ \A e \in DOMAIN envs : envs'[e] = envs[e]
  BY <1>1, <1>2, <1>3, AppendEnv
<1>5. f \in Frames /\ f.env = new /\ f.kind = "layer"
  BY <1>4 DEF Frames
<1> HIDE DEF f
<1>6. /\ frames' \in Seq(Frames) /\ frames' # << >>
      /\ DOMAIN frames' = {1} /\ frames'[1] = f
  BY <1>1, <1>5
<1>7. sink[v] = "null" /\ active' # NoVM
  BY <1>1, VmAssumption DEF IInv, SinkFollowsCall, TypeOK, Idle
<1>8. TypeOK'
  <2>1. acc' \in Values
    BY <1>1, ValueFacts
  <2>2. sink' \in [VMs -> {"null", "captured"}]
    BY <1>1 DEF IInv, TypeOK
  <2>3. QED
    BY <1>1, <1>4, <1>6, <1>7, <2>1, <2>2 DEF IInv, TypeOK, Frames
<1>9. Chains'
  BY <1>1, <1>3, GrowChains DEF IInv
<1>10. Pointers'
  <2>1. \A e \in DOMAIN envs' : \A n \in Names :
          envs'[e].bind[n].kind = "fn" => envs'[e].bind[n].env \in DOMAIN envs'
    BY <1>3, <1>4, ValueFacts DEF IInv, Pointers
  <2>2. QED
    BY <1>1, <1>4, <1>5, <1>6, <2>1, ValueFacts DEF IInv, Pointers, Live
<1>11. CallShape'
  BY <1>1, <1>3, <1>4, <1>5, <1>6, <1>7 DEF IInv, CallShape, Begin, Live, Idle
<1>12. SinkFollowsCall'
  BY <1>1, <1>7, VmAssumption DEF IInv, SinkFollowsCall, TypeOK, Idle
<1>13. NoEscape'
  <2>1. \A e : Old(e)' <=> e \in DOMAIN envs
    BY <1>1, <1>4, <1>5, <1>6, <1>7 DEF Old, Idle
  <2>2. QED
    BY <1>1, <1>4, <1>5, <1>6, <2>1 DEF IInv, NoEscape, Pointers, Live
<1>14. QED
  BY <1>8, <1>9, <1>10, <1>11, <1>12, <1>13 DEF IInv

-----------------------------------------------------------------------------
(* The invariant holds initially and every step of the machine preserves it. *)
LEMMA InitInvariant == Init => IInv
<1> SUFFICES ASSUME Init PROVE IInv
  OBVIOUS
<1> USE DEF Init
<1>1. TypeOK
  <2>1. envs \in Seq(Environments) /\ frames \in Seq(Frames)
    BY EmptySeq
  <2>2. QED
    BY <2>1, ValueFacts DEF TypeOK, Frames
<1>2. Chains /\ Pointers
  BY ValueFacts DEF Chains, Pointers, Live
<1>3. CallShape /\ SinkFollowsCall /\ NoEscape
  BY VmAssumption DEF CallShape, SinkFollowsCall, NoEscape, Live, Idle
<1>4. QED
  BY <1>1, <1>2, <1>3 DEF IInv

LEMMA HostInvariant ==
  ASSUME IInv, NEW v \in VMs,
         Create(v) \/ Destroy(v) \/ Reset(v) \/ Refuse(v) \/ Begin(v)
  PROVE  IInv'
<1>1. status \in [VMs -> {"none", "OK", "PARSE_ERROR", "RUNTIME_ERROR", "IO_ERROR"}]
  BY DEF IInv, TypeOK
<1>2. CASE Create(v)
  <2>1. {PrintTo(v)} \subseteq Values /\ \A p \in {PrintTo(v)} : p.kind # "fn"
    BY ValueFacts
  <2>2. QED
    BY <1>1, <1>2, <2>1, PreludeStep DEF Create
<1>3. CASE Destroy(v)
  BY <1>3, DestroyStep
<1>4. CASE Reset(v)
  <2>1. {PrintNowhere} \subseteq Values /\ \A p \in {PrintNowhere} : p.kind # "fn"
    BY ValueFacts
  <2>2. QED
    BY <1>1, <1>4, <2>1, PreludeStep DEF Reset
<1>5. CASE Refuse(v)
  BY <1>1, <1>5, StatusStep DEF Refuse
<1>6. CASE Begin(v)
  BY <1>6, BeginStep
<1>7. QED
  BY <1>2, <1>3, <1>4, <1>5, <1>6

LEMMA StepInvariant ==
  ASSUME IInv, Step
  PROVE  IInv'
<1> Evaluating
  BY DEF Step, Literal, Lambda, Read, Assign, EnterBlock, EnterLet, Leave, Call,
         CallNonFunction, CallPrint, Panic, Finish
<1>0. /\ Top \in DOMAIN envs /\ Top \in Nat
      /\ acc \in Values /\ (acc.kind = "fn" => acc.env \in DOMAIN envs)
      /\ captured \in Nat
      /\ Len(frames) \in Nat /\ Len(frames) >= 1
      /\ Empty \in [Names -> Values \cup {Unbound}] /\ \A n \in Names : Empty[n].kind # "fn"
  BY StackFacts, EmptyType, ValueFacts DEF IInv, TypeOK, Pointers, Empty
<1>1. CASE Literal
  <2>1. /\ acc' \in Values /\ acc'.kind # "fn"
    BY <1>1, ValueFacts DEF Literal, Made
  <2>2. QED
    BY <1>0, <1>1, <2>1, KeepStep DEF Literal
<1>2. CASE Lambda
  <2>1. acc' \in Values /\ (acc'.kind = "fn" => acc'.env \in DOMAIN envs)
    BY <1>0, <1>2, ValueFacts DEF Lambda, Made
  <2>2. QED
    BY <1>0, <1>2, <2>1, KeepStep DEF Lambda
<1>3. CASE EnterBlock
  BY <1>0, <1>3, PushStep DEF EnterBlock, Child
<1>4. CASE Leave
  <2>1. Len(frames) - 1 \in 1..Len(frames)
    BY <1>0, <1>4 DEF Leave
  <2>2. QED
    BY <1>0, <1>4, <2>1, KeepStep DEF Leave
<1>5. CASE Panic
  BY <1>5, AbortStep DEF Panic
<1>6. CASE Finish
  BY <1>6, ReturnStep DEF Finish
<1>7. ASSUME NEW n \in Names, Read(n)
      PROVE  IInv'
  <2>1. CASE lookup(Top, n) \in {Unbound, Null}
    BY <1>7, <2>1, RaiseStep DEF Read
  <2>2. CASE lookup(Top, n) \notin {Unbound, Null}
    <3>1. acc' \in Values /\ (acc'.kind = "fn" => acc'.env \in DOMAIN envs)
      BY <1>0, <1>7, <2>2, LookupValue DEF Read, IInv
    <3>2. QED
      BY <1>0, <1>7, <2>2, <3>1, KeepStep DEF Read
  <2>3. QED
    BY <2>1, <2>2
<1>8. ASSUME NEW n \in Names, Assign(n)
      PROVE  IInv'
  BY <1>8, BindStep, RaiseStep DEF Assign
<1>9. ASSUME NEW n \in Names, EnterLet(n)
      PROVE  IInv'
  <2> DEFINE b == [Empty EXCEPT ![n] = acc]
  <2>1. /\ b \in [Names -> Values \cup {Unbound}]
        /\ \A m \in Names : b[m].kind = "fn" => b[m].env \in DOMAIN envs
    BY <1>0
  <2> HIDE DEF b
  <2>2. CASE /\ envs' = Append(envs, NewEnv(envs[Top].chain, b))
             /\ Push("inner")
             /\ UNCHANGED <<machine, active, acc, captured, previous, status>>
    BY <1>0, <2>1, <2>2, PushStep
  <2>3. CASE Raise /\ UNCHANGED envs
    BY <2>3, RaiseStep
  <2>4. QED
    BY <1>9, <2>2, <2>3 DEF EnterLet, ChildBinding, b
<1>10. ASSUME NEW n \in Names, CallNonFunction(n)
       PROVE  IInv'
  BY <1>10, RaiseStep DEF CallNonFunction
<1>11. ASSUME NEW n \in Names, CallPrint(n)
       PROVE  IInv'
  BY <1>0, <1>11, ValueFacts, KeepStep DEF CallPrint
<1>12. ASSUME NEW f \in Names, NEW p \in Names, Call(f, p)
       PROVE  IInv'
  <2> DEFINE e == lookup(Top, f).env
             b == [Empty EXCEPT ![p] = acc]
  <2>1. lookup(Top, f).kind = "fn" /\ e \in DOMAIN envs
    BY <1>0, <1>12, LookupValue DEF Call, IInv
  <2>2. /\ b \in [Names -> Values \cup {Unbound}]
        /\ \A m \in Names : b[m].kind = "fn" => b[m].env \in DOMAIN envs
    BY <1>0
  <2> HIDE DEF b, e
  <2>3. CASE /\ envs' = Append(envs, NewEnv(envs[e].chain, b))
             /\ Push("call")
             /\ UNCHANGED <<machine, active, acc, captured, previous, status>>
    BY <2>1, <2>2, <2>3, PushStep
  <2>4. CASE /\ acc' = Datum(ErrorText)
             /\ UNCHANGED <<envs, machine, active, frames, captured, previous, status>>
    <3>1. acc' \in Values /\ acc'.kind # "fn"
      BY <2>4, ValueFacts
    <3>2. QED
      BY <1>0, <2>4, <3>1, KeepStep
  <2>5. QED
    BY <1>12, <2>3, <2>4 DEF Call, ChildBinding, b, e
<1>13. QED
  BY <1>1, <1>2, <1>3, <1>4, <1>5, <1>6, <1>7, <1>8, <1>9, <1>10, <1>11, <1>12 DEF Step

LEMMA StutterInvariant == IInv /\ UNCHANGED vars => IInv'
BY StatusStep DEF vars, machine, control, IInv, TypeOK

LEMMA NextInvariant == IInv /\ [Next]_vars => IInv'
BY HostInvariant, StepInvariant, StutterInvariant DEF Next, Host

(* The invariant of the machine. *)
THEOREM Invariance == Spec => []IInv
BY InitInvariant, NextInvariant, PTL DEF Spec

(* The state of the machine is well typed (evaluate_source, the evaluator  *)
(* and the five host operations). *)
THEOREM TypeCorrectness == Spec => []TypeOK
<1>1. IInv => TypeOK
  BY DEF IInv
<1>2. QED
  BY <1>1, Invariance, PTL

(* sink_guard (c_api.cpp:40-44): output is redirected exactly while a call *)
(* is in progress, however it ends. *)
THEOREM SinkDiscipline == Spec => []SinkFollowsCall
<1>1. IInv => SinkFollowsCall
  BY DEF IInv
<1>2. QED
  BY <1>1, Invariance, PTL

(* The layer of evaluate_source (c_api.cpp:48, 66): nothing made by an     *)
(* evaluation is reachable from older environments before it commits. *)
THEOREM Confinement == Spec => []NoEscape
<1>1. IInv => NoEscape
  BY DEF IInv
<1>2. QED
  BY <1>1, Invariance, PTL

-----------------------------------------------------------------------------
(* Steps and the environments of the past.                                 *)
LEMMA EnvChange ==
  ASSUME IInv, [Next]_vars
  PROVE  \/ envs' = envs
         \/ \E r \in Environments : envs' = Append(envs, r)
         \/ Evaluating /\ \E n \in Names : bind(Top, n, acc)
<1>1. envs \in Seq(Environments) /\ acc \in Values
  BY DEF IInv, TypeOK
<1>2. \A e \in DOMAIN envs : Child(e) \in Environments
  BY <1>1, EnvType, NewEnvType, EmptyType DEF Child
<1>3. \A e \in DOMAIN envs : \A n \in Names : ChildBinding(e, n, acc) \in Environments
  <2>1. \A n \in Names : [Empty EXCEPT ![n] = acc] \in [Names -> Values \cup {Unbound}]
    BY <1>1, EmptyType
  <2>2. QED
    BY <1>1, <2>1, EnvType, NewEnvType DEF ChildBinding
<1>4. Evaluating => Top \in DOMAIN envs
  BY StackFacts
<1>5. ASSUME NEW natives, natives \subseteq Values, Prelude(natives)
      PROVE  \E r \in Environments : envs' = Append(envs, r)
  <2>1. PICK p \in Values \cup {Unbound} :
          envs' = Append(envs, NewEnv({}, [Empty EXCEPT ![PrintName] = p]))
    BY <1>5, ValueFacts DEF Prelude
  <2>2. [Empty EXCEPT ![PrintName] = p] \in [Names -> Values \cup {Unbound}]
    BY EmptyType
  <2>3. QED
    BY <1>1, <2>1, <2>2, NewEnvType
<1>6. ASSUME NEW v \in VMs, Create(v) \/ Destroy(v) \/ Reset(v) \/ Refuse(v) \/ Begin(v)
      PROVE  envs' = envs \/ \E r \in Environments : envs' = Append(envs, r)
  <2>1. CASE Create(v)
    <3>1. {PrintTo(v)} \subseteq Values
      BY ValueFacts
    <3>2. QED
      BY <1>5, <2>1, <3>1 DEF Create
  <2>2. CASE Reset(v)
    <3>1. {PrintNowhere} \subseteq Values
      BY ValueFacts
    <3>2. QED
      BY <1>5, <2>2, <3>1 DEF Reset
  <2>3. CASE Begin(v)
    BY <1>2, <2>3 DEF Begin, IInv, Pointers
  <2>4. QED
    BY <1>6, <2>1, <2>2, <2>3 DEF Destroy, Refuse
<1>7. CASE Step
  <2>1. ASSUME NEW f \in Names, NEW p \in Names, Call(f, p)
        PROVE  envs' = envs \/ \E r \in Environments : envs' = Append(envs, r)
    <3>1. lookup(Top, f).env \in DOMAIN envs
      BY <1>4, <2>1, LookupValue DEF Call, IInv
    <3>2. QED
      BY <1>3, <2>1, <3>1 DEF Call
  <2>2. QED
    BY <1>2, <1>3, <1>4, <1>7, <2>1
    DEF Step, Literal, Lambda, Read, Assign, EnterBlock, EnterLet, Leave,
        CallNonFunction, CallPrint, Panic, Finish
<1>8. QED
  BY <1>6, <1>7 DEF Next, Host, vars

(* No step touches an environment that was there when the call in progress *)
(* began. *)
LEMMA OldFrozen ==
  ASSUME IInv, [Next]_vars, NEW e, Old(e)
  PROVE  e \in DOMAIN envs /\ e \in DOMAIN envs' /\ envs'[e] = envs[e]
<1>1. e \in DOMAIN envs /\ envs \in Seq(Environments)
  BY DEF Old, IInv, TypeOK
<1>2. CASE envs' = envs
  BY <1>1, <1>2
<1>3. CASE \E r \in Environments : envs' = Append(envs, r)
  BY <1>1, <1>3, AppendEnv
<1>4. CASE Evaluating /\ \E n \in Names : bind(Top, n, acc)
  <2>1. Top # e
    BY <1>4, StackFacts DEF IInv, NoEscape, Top
  <2>2. QED
    BY <1>1, <1>4, <2>1 DEF bind
<1>5. QED
  BY <1>2, <1>3, <1>4, EnvChange

LEMMA OldLookup ==
  ASSUME IInv, [Next]_vars, NEW e, Old(e), NEW n \in Names
  PROVE  lookup(e, n)' = lookup(e, n)
<1>1. /\ e \in DOMAIN envs /\ DOMAIN envs = 1..Len(envs) /\ Len(envs) \in Nat
  BY DEF Old, IInv, TypeOK
<1>2. \A a \in envs[e].chain : Old(a)
  <2>1. envs[e].chain \subseteq 1..e
    BY <1>1 DEF IInv, Chains
  <2>2. Evaluating => frames[1].env \in 1..Len(envs)
    BY <1>1, StackFacts
  <2>3. QED
    BY <1>1, <2>1, <2>2 DEF Old, Evaluating
<1>3. envs'[e] = envs[e] /\ \A a \in envs[e].chain : envs'[a] = envs[a]
  BY <1>2, OldFrozen
<1>4. Binders(e, n)' = Binders(e, n)
  BY <1>3 DEF Binders
<1>5. Binders(e, n) \subseteq envs[e].chain
  BY DEF Binders
<1>6. CASE Binders(e, n) = {}
  BY <1>4, <1>6 DEF lookup
<1>7. CASE Binders(e, n) # {}
  <2> DEFINE nearest == CHOOSE a \in Binders(e, n) : \A b \in Binders(e, n) : b <= a
  <2>1. lookup(e, n)' = envs'[nearest].bind[n] /\ lookup(e, n) = envs[nearest].bind[n]
    BY <1>4, <1>7 DEF lookup
  <2>2. nearest \in envs[e].chain
    <3>1. \E a \in Binders(e, n) : \A b \in Binders(e, n) : b <= a
      <4>1. Binders(e, n) \in SUBSET (1..Len(envs))
        BY <1>1, <1>5 DEF IInv, Chains
      <4>2. QED
        BY <1>1, <1>7, <4>1, Youngest
    <3>2. QED
      BY <1>5, <3>1
  <2> HIDE DEF nearest
  <2>3. QED
    BY <1>3, <2>1, <2>2
<1>8. QED
  BY <1>6, <1>7

(* The committed past is immutable: what a name means in an environment an *)
(* earlier evaluation left behind, and so what an earlier closure answers, *)
(* never changes. *)
THEOREM EarlierMeaning == Spec => EarlierMeaningIsStable
<1>1. IInv /\ [Next]_vars =>
        \A e \in DOMAIN envs : Old(e) => \A n \in Names : lookup(e, n)' = lookup(e, n)
  BY OldLookup
<1>2. QED
  BY <1>1, Invariance, PTL DEF Spec, EarlierMeaningIsStable

-----------------------------------------------------------------------------
(* The machine implements Session.  LookupIn is lookup with the            *)
(* environments as a parameter, so that looking a name up in the scope of  *)
(* a machine before and after a step can be compared.                      *)
LookupIn(E, e, n) ==
  LET B == {a \in E[e].chain : E[a].bind[n] # Unbound} IN
    IF B = {} THEN Unbound
    ELSE LET nearest == CHOOSE a \in B : \A b \in B : b <= a IN E[nearest].bind[n]

LEMMA ScopeLookup ==
  ASSUME NEW w \in VMs, NEW n \in Names
  PROVE  /\ lookup(scope[w], n) = LookupIn(envs, scope[w], n)
         /\ lookup(scope[w], n)' = LookupIn(envs', scope'[w], n)
         /\ \A e : lookup(e, n) = LookupIn(envs, e, n)
         /\ \A e : lookup(e, n)' = LookupIn(envs', e, n)
<1>1. lookup(scope[w], n) = LookupIn(envs, scope[w], n)
  BY DEF lookup, Binders, LookupIn
<1>2. lookup(scope[w], n)' = LookupIn(envs', scope'[w], n)
  BY DEF lookup, Binders, LookupIn
<1>3. \A e : lookup(e, n) = LookupIn(envs, e, n)
  BY DEF lookup, Binders, LookupIn
<1>4. \A e : lookup(e, n)' = LookupIn(envs', e, n)
  BY DEF lookup, Binders, LookupIn
<1>5. QED
  BY <1>1, <1>2, <1>3, <1>4

LEMMA VisibleStable ==
  ASSUME IInv, [Next]_vars, NEW w \in VMs, scope'[w] = scope[w]
  PROVE  Visible(w)' = Visible(w)
<1>1. CASE Live(w)
  <2>1. Old(scope[w])
    BY <1>1 DEF IInv, NoEscape
  <2>2. \A n \in Names : lookup(scope[w], n)' = lookup(scope[w], n)
    <3>1. TAKE n \in Names
    <3>2. \A e : Old(e) => LookupIn(envs', e, n) = LookupIn(envs, e, n)
      BY OldLookup, ScopeLookup
    <3>3. QED
      BY <2>1, <3>2, ScopeLookup
  <2>3. QED
    BY <1>1, <2>2 DEF Visible, Live
<1>2. CASE ~Live(w)
  BY <1>2 DEF Visible, Live
<1>3. QED
  BY <1>1, <1>2

LEMMA OthersVisible ==
  ASSUME IInv, [Next]_vars, NEW v \in VMs,
         \A w \in VMs \ {v} : scope'[w] = scope[w]
  PROVE  Promise!Others(v)
BY VisibleStable DEF Promise!Others

(* A machine over a new prelude knows no name but print. *)
LEMMA FreshMachine ==
  ASSUME IInv, NEW natives, Prelude(natives), NEW v \in VMs,
         scope' = [scope EXCEPT ![v] = Len(envs) + 1]
  PROVE  Promise!Fresh(v)
<1>1. PICK p : envs' = Append(envs, NewEnv({}, [Empty EXCEPT ![PrintName] = p]))
  BY DEF Prelude
<1> DEFINE new == Len(envs) + 1
           b == [Empty EXCEPT ![PrintName] = p]
<1>2. \A n \in Names \ {PrintName} : b[n] = Unbound
  BY DEF Empty
<1> HIDE DEF b
<1>3. envs \in Seq(Environments) /\ scope \in [VMs -> Nat]
  BY DEF IInv, TypeOK
<1>4. envs'[new].chain = {new} /\ envs'[new].bind = b /\ new \in Nat \ {0}
  BY <1>1, <1>3 DEF NewEnv, b
<1>5. scope'[v] = new
  BY <1>3
<1>6. \A n \in Names \ {PrintName} : LookupIn(envs', new, n) = Unbound
  BY <1>2, <1>4 DEF LookupIn
<1>7. \A n \in Names \ {PrintName} : Visible(v)'[n] = Unbound
  BY <1>5, <1>6, ScopeLookup DEF Visible
<1>8. QED
  BY <1>7 DEF Promise!Fresh

LEMMA CreateRefines ==
  ASSUME IInv, NEW v \in VMs, Create(v)
  PROVE  Promise!Create(v)
<1>1. [Next]_vars
  BY DEF Next, Host
<1>2. /\ scope' = [scope EXCEPT ![v] = Len(envs) + 1]
      /\ scope \in [VMs -> Nat] /\ Len(envs) + 1 # 0
  BY DEF Create, IInv, TypeOK
<1>3. Promise!Fresh(v) /\ Promise!Others(v)
  BY <1>1, <1>2, FreshMachine, OthersVisible DEF Create
<1>4. {w \in VMs : Live(w)}' = {w \in VMs : Live(w)} \cup {v}
  BY <1>2 DEF Live
<1>5. QED
  BY <1>3, <1>4 DEF Promise!Create, Create, Idle, control

LEMMA ResetRefines ==
  ASSUME IInv, NEW v \in VMs, Reset(v)
  PROVE  Promise!Reset(v)
<1>1. [Next]_vars
  BY DEF Next, Host
<1>2. /\ scope' = [scope EXCEPT ![v] = Len(envs) + 1]
      /\ scope \in [VMs -> Nat] /\ Len(envs) + 1 # 0 /\ scope[v] # 0
  BY DEF Reset, IInv, TypeOK, Live
<1>3. Promise!Fresh(v) /\ Promise!Others(v)
  BY <1>1, <1>2, FreshMachine, OthersVisible DEF Reset
<1>4. {w \in VMs : Live(w)}' = {w \in VMs : Live(w)}
  BY <1>2 DEF Live
<1>5. QED
  BY <1>3, <1>4 DEF Promise!Reset, Reset, Idle, Live, control

LEMMA DestroyRefines ==
  ASSUME IInv, NEW v \in VMs, Destroy(v)
  PROVE  Promise!Destroy(v)
<1>1. [Next]_vars
  BY DEF Next, Host
<1>2. scope' = [scope EXCEPT ![v] = 0] /\ scope \in [VMs -> Nat]
  BY DEF Destroy, IInv, TypeOK
<1>3. Promise!Others(v)
  BY <1>1, <1>2, OthersVisible
<1>4. {w \in VMs : Live(w)}' = {w \in VMs : Live(w)} \ {v}
  BY <1>2 DEF Live
<1>5. \A n \in Names : Visible(v)'[n] = Unbound
  BY <1>2 DEF Visible, Live
<1>6. QED
  BY <1>3, <1>4, <1>5 DEF Promise!Destroy, Destroy, Idle, Live, control

(* When no machine changes scope, no definition becomes visible or is lost. *)
LEMMA SameDefs ==
  ASSUME IInv, [Next]_vars, UNCHANGED scope
  PROVE  /\ [w \in VMs |-> Visible(w)]' = [w \in VMs |-> Visible(w)]
         /\ {w \in VMs : Live(w)}' = {w \in VMs : Live(w)}
<1>1. \A w \in VMs : Visible(w)' = Visible(w)
  BY VisibleStable
<1>2. QED
  BY <1>1 DEF Live

LEMMA AbandonRefines ==
  ASSUME IInv, [Next]_vars, Evaluating, Abort
  PROVE  Promise!Abandon(active)
<1>1. /\ [w \in VMs |-> Visible(w)]' = [w \in VMs |-> Visible(w)]
      /\ {w \in VMs : Live(w)}' = {w \in VMs : Live(w)}
  BY SameDefs DEF Abort
<1>2. QED
  BY <1>1 DEF Promise!Abandon, Abort, Return

LEMMA CommitRefines ==
  ASSUME IInv, Finish
  PROVE  Promise!Commit(active)
<1>0. [Next]_vars
  BY DEF Next, Step
<1>1. /\ Evaluating /\ active \in VMs /\ Live(active)
      /\ scope[active] \in DOMAIN envs /\ frames[1].env \in DOMAIN envs
      /\ frames[1].env # 0
      /\ envs[frames[1].env].chain = envs[scope[active]].chain \cup {frames[1].env}
  BY StackFacts DEF Finish, IInv, CallShape, Evaluating
<1>2. /\ scope' = [scope EXCEPT ![active] = frames[1].env] /\ envs' = envs
      /\ scope \in [VMs -> Nat]
  BY DEF Finish, IInv, TypeOK
<1>3. Promise!Others(active)
  BY <1>0, <1>1, <1>2, OthersVisible
<1>4. {w \in VMs : Live(w)}' = {w \in VMs : Live(w)}
  BY <1>1, <1>2 DEF Live
<1>5. ASSUME NEW n \in Names, Visible(active)[n] # Unbound
      PROVE  LookupIn(envs', scope'[active], n) # Unbound
  <2>1. lookup(scope[active], n) # Unbound
    BY <1>1, <1>5 DEF Visible
  <2>2. Binders(scope[active], n) # {}
    BY <1>1, <2>1, LookupValue DEF IInv
  <2>3. Binders(scope[active], n) \subseteq Binders(frames[1].env, n)
    BY <1>1 DEF Binders
  <2>4. lookup(frames[1].env, n) # Unbound
    BY <1>1, <2>2, <2>3, LookupValue DEF IInv
  <2>5. LookupIn(envs, frames[1].env, n) # Unbound
    BY <1>1, <2>4, ScopeLookup
  <2>6. QED
    BY <1>1, <1>2, <2>5
<1>6. \A n \in Names : Visible(active)[n] # Unbound => LookupIn(envs', scope'[active], n) # Unbound
  BY <1>5
<1>7. scope'[active] # 0
  BY <1>1, <1>2
<1>8. ASSUME NEW v \in VMs, v = active
      PROVE  \A n \in Names : Visible(v)[n] # Unbound => Visible(v)'[n] # Unbound
  BY <1>6, <1>7, <1>8, ScopeLookup DEF Visible, Live
<1>9. \A v \in VMs : v = active =>
        \A n \in Names : [w \in VMs |-> Visible(w)][v][n] # Unbound
                         => [w \in VMs |-> Visible(w)]'[v][n] # Unbound
  BY <1>8
<1>10. QED
  BY <1>1, <1>3, <1>4, <1>9 DEF Promise!Commit, Finish, Return

(* A step that moves neither a scope, nor the call in progress, nor a      *)
(* status is invisible to Session. *)
LEMMA Invisible ==
  ASSUME IInv, [Next]_vars, UNCHANGED <<machine, active, status>>
  PROVE  UNCHANGED Promise!vars
BY SameDefs DEF Promise!vars, machine

LEMMA RaiseRefines ==
  ASSUME IInv, [Next]_vars, Evaluating, Raise
  PROVE  Promise!Abandon(active) \/ UNCHANGED Promise!vars
BY AbandonRefines, Invisible DEF Raise

LEMMA StepRefines ==
  ASSUME IInv, Step
  PROVE  Promise!Next \/ UNCHANGED Promise!vars
<1>0. [Next]_vars
  BY DEF Next
<1>1. /\ Evaluating
      /\ \/ Finish
         \/ Abort
         \/ Raise
         \/ UNCHANGED <<machine, active, status>>
  BY DEF Step, Literal, Lambda, Read, Assign, EnterBlock, EnterLet, Leave, Call,
         CallNonFunction, CallPrint, Panic, Finish, machine, control
<1>2. active \in VMs
  BY <1>1, StackFacts
<1>3. \/ Promise!Commit(active)
      \/ Promise!Abandon(active)
      \/ UNCHANGED Promise!vars
  BY <1>0, <1>1, CommitRefines, AbandonRefines, RaiseRefines, Invisible
<1>4. QED
  BY <1>2, <1>3 DEF Promise!Next

LEMMA HostRefines ==
  ASSUME IInv, Host
  PROVE  Promise!Next
<1>1. [Next]_vars
  BY DEF Next
<1>2. PICK v \in VMs : Create(v) \/ Destroy(v) \/ Reset(v) \/ Refuse(v) \/ Begin(v)
  BY DEF Host
<1>3. CASE Refuse(v)
  <2>1. UNCHANGED scope
    BY <1>3 DEF Refuse, machine
  <2>2. QED
    BY <1>1, <1>3, <2>1, SameDefs DEF Refuse, Promise!Refuse, Promise!Next, Idle, Live, control
<1>4. CASE Begin(v)
  <2>1. UNCHANGED scope
    BY <1>4 DEF Begin
  <2>2. QED
    BY <1>1, <1>4, <2>1, SameDefs DEF Begin, Promise!Start, Promise!Next, Idle, Live
<1>5. QED
  BY <1>2, <1>3, <1>4, CreateRefines, DestroyRefines, ResetRefines DEF Promise!Next

LEMMA InitRefines == Init => Promise!Init
<1> SUFFICES ASSUME Init PROVE Promise!Init
  OBVIOUS
<1>1. \A v \in VMs : ~Live(v)
  BY DEF Init, Live
<1>2. {v \in VMs : Live(v)} = {}
  BY <1>1
<1>3. [v \in VMs |-> Visible(v)] = [v \in VMs |-> [n \in Names |-> Unbound]]
  BY <1>1 DEF Visible
<1>4. QED
  BY <1>2, <1>3 DEF Init, Promise!Init

(* Evaluations are atomic: the machine implements Session, whose state is  *)
(* what programs can see.  A failed or abandoned evaluation (c_api.cpp:    *)
(* 53-64) leaves every definition as it was; a successful one makes all    *)
(* its definitions visible in one step (c_api.cpp:66). *)
THEOREM Atomicity == Spec => ImplementsSession
<1>1. IInv /\ [Next]_vars => [Promise!Next]_(Promise!vars)
  <2> SUFFICES ASSUME IInv, [Next]_vars PROVE [Promise!Next]_(Promise!vars)
    OBVIOUS
  <2>1. CASE Host
    BY <2>1, HostRefines
  <2>2. CASE Step
    BY <2>2, StepRefines
  <2>3. CASE UNCHANGED vars
    <3>1. UNCHANGED <<machine, active, status>>
      BY <2>3 DEF vars, machine
    <3>2. QED
      BY <3>1, Invisible
  <2>4. QED
    BY <2>1, <2>2, <2>3 DEF Next
<1>2. QED
  BY <1>1, InitRefines, Invariance, PTL DEF Spec, ImplementsSession, Promise!Spec

-----------------------------------------------------------------------------
(* Machines share nothing, for every set of machines and names.  The       *)
(* invariant is Isolation together with Families; the invariant above says *)
(* which environments and values there are.                                *)

(* Root and the invariant, with the state as parameters, so that the       *)
(* prelude an environment hangs off can be compared across a step.         *)
RootIn(E, e) == CHOOSE a \in E[e].chain : \A b \in E[e].chain : a <= b

Kindred(E, s, live, f, call, value) ==
  /\ \A e \in DOMAIN E : \A a \in E[e].chain : RootIn(E, a) = RootIn(E, e)
  /\ \A v, w \in VMs : v \in live /\ w \in live /\ v # w => RootIn(E, s[v]) # RootIn(E, s[w])
  /\ \A e \in DOMAIN E : \A n \in Names :
       E[e].bind[n].kind = "fn" => RootIn(E, E[e].bind[n].env) = RootIn(E, e)
  /\ \A i \in DOMAIN f : RootIn(E, f[i].env) = RootIn(E, s[call])
  /\ value.kind = "fn" => call # NoVM /\ RootIn(E, value.env) = RootIn(E, s[call])

LiveIn(s) == {v \in VMs : s[v] # 0}

LEMMA KindredForm ==
  /\ Isolation /\ Families <=> Kindred(envs, scope, LiveIn(scope), frames, active, acc)
  /\ (Isolation /\ Families)'
       <=> Kindred(envs', scope', LiveIn(scope'), frames', active', acc')
<1>1. \A e : Root(e) = RootIn(envs, e)
  BY DEF Root, RootIn
<1>2. \A e : Root(e)' = RootIn(envs', e)
  BY DEF Root, RootIn
<1>3. Isolation /\ Families <=> Kindred(envs, scope, LiveIn(scope), frames, active, acc)
  BY <1>1 DEF Isolation, Families, Kindred, LiveIn, Live, Idle
<1>4. (Isolation /\ Families)'
        <=> Kindred(envs', scope', LiveIn(scope'), frames', active', acc')
  BY <1>2 DEF Isolation, Families, Kindred, LiveIn, Live, Idle, Root, RootIn
<1>5. QED
  BY <1>3, <1>4

(* A chain has an oldest environment, and only one. *)
LEMMA OldestFirst ==
  ASSUME NEW S \in SUBSET Nat, S # {}
  PROVE  \E a \in S : \A b \in S : a <= b
<1>1. \E a \in S : \A b \in S : ~ (<<b, a>> \in OpToRel(<, Nat))
  BY WFMin, NatLessThanWellFounded
<1>2. PICK a \in S : \A b \in S : ~ (b < a)
  BY <1>1 DEF OpToRel
<1>3. \A b \in S : a <= b
  BY <1>2
<1>4. QED
  BY <1>3

LEMMA RootOfChain ==
  ASSUME NEW E, NEW e, E[e].chain \in SUBSET Nat, E[e].chain # {}
  PROVE  /\ RootIn(E, e) \in E[e].chain
         /\ \A b \in E[e].chain : RootIn(E, e) <= b
         /\ \A a \in E[e].chain : (\A b \in E[e].chain : a <= b) => a = RootIn(E, e)
<1>1. \E a \in E[e].chain : \A b \in E[e].chain : a <= b
  BY OldestFirst
<1>2. /\ RootIn(E, e) \in E[e].chain
      /\ \A b \in E[e].chain : RootIn(E, e) <= b
  BY <1>1 DEF RootIn
<1>3. \A a \in E[e].chain : (\A b \in E[e].chain : a <= b) => a = RootIn(E, e)
  BY <1>2
<1>4. QED
  BY <1>2, <1>3

(* The prelude of an environment depends on its chain only. *)
LEMMA SameChainSameRoot ==
  ASSUME NEW E, NEW F, NEW e, E[e].chain = F[e].chain
  PROVE  RootIn(E, e) = RootIn(F, e)
BY DEF RootIn

-----------------------------------------------------------------------------
(* The invariant of the isolation proof, and the shape of its state.       *)
Isolated == IInv /\ Isolation /\ Families

LEMMA StateFacts ==
  ASSUME IInv
  PROVE  /\ envs \in Seq(Environments)
         /\ Len(envs) \in Nat /\ DOMAIN envs = 1..Len(envs)
         /\ \A e \in DOMAIN envs :
              /\ envs[e].chain \in SUBSET Nat /\ e \in envs[e].chain
              /\ envs[e].chain \subseteq DOMAIN envs
         /\ \A e \in DOMAIN envs : \A n \in Names :
              envs[e].bind[n].kind = "fn" => envs[e].bind[n].env \in DOMAIN envs
         /\ \A v \in VMs : scope[v] # 0 => scope[v] \in DOMAIN envs
         /\ \A i \in DOMAIN frames : frames[i].env \in DOMAIN envs
         /\ acc.kind = "fn" => acc.env \in DOMAIN envs
<1>1. /\ envs \in Seq(Environments)
      /\ Len(envs) \in Nat /\ DOMAIN envs = 1..Len(envs)
  BY DEF IInv, TypeOK
<1>2. \A e \in DOMAIN envs :
        /\ envs[e].chain \in SUBSET Nat /\ e \in envs[e].chain
        /\ envs[e].chain \subseteq DOMAIN envs
  BY <1>1 DEF IInv, Chains
<1>3. QED
  BY <1>1, <1>2 DEF IInv, Pointers, Live

(* An environment appended to the others leaves their preludes alone.  It  *)
(* is of the family of its parent, or is a prelude.                        *)
LEMMA GrowRoots ==
  ASSUME IInv, NEW r \in Environments, envs' = Append(envs, r),
         \/ r.chain = {Len(envs) + 1}
         \/ \E p \in DOMAIN envs : r.chain = envs[p].chain \cup {Len(envs) + 1}
  PROVE  /\ \A e \in DOMAIN envs : RootIn(envs', e) = RootIn(envs, e)
         /\ \A e \in DOMAIN envs : RootIn(envs', e) # Len(envs) + 1
         /\ r.chain = {Len(envs) + 1} => RootIn(envs', Len(envs) + 1) = Len(envs) + 1
         /\ \A p \in DOMAIN envs : r.chain = envs[p].chain \cup {Len(envs) + 1}
              => RootIn(envs', Len(envs) + 1) = RootIn(envs, p)
<1> DEFINE new == Len(envs) + 1
<1>1. /\ DOMAIN envs' = 1..new /\ envs'[new] = r /\ Len(envs) \in Nat
      /\ \A e \in DOMAIN envs : envs'[e] = envs[e]
  BY StateFacts, AppendEnv
<1>2. \A e \in DOMAIN envs : RootIn(envs', e) = RootIn(envs, e)
  BY <1>1, SameChainSameRoot
<1>3. \A e \in DOMAIN envs :
        /\ RootIn(envs, e) \in envs[e].chain
        /\ \A b \in envs[e].chain : RootIn(envs, e) <= b
        /\ RootIn(envs, e) \in DOMAIN envs
  BY StateFacts, RootOfChain
<1>4. \A e \in DOMAIN envs : RootIn(envs', e) # new
  BY <1>1, <1>2, <1>3, StateFacts
<1>5. ASSUME r.chain = {new} PROVE RootIn(envs', new) = new
  <2>1. envs'[new].chain \in SUBSET Nat /\ envs'[new].chain # {}
    BY <1>1, <1>5
  <2>2. QED
    BY <1>1, <1>5, <2>1, RootOfChain
<1>6. ASSUME NEW p \in DOMAIN envs, r.chain = envs[p].chain \cup {new}
      PROVE  RootIn(envs', new) = RootIn(envs, p)
  <2>1. envs'[new].chain = envs[p].chain \cup {new} /\ envs'[new].chain \in SUBSET Nat
    BY <1>1, <1>6, StateFacts
  <2>2. \A b \in envs'[new].chain : RootIn(envs, p) <= b
    BY <1>1, <1>3, <2>1, StateFacts
  <2>3. QED
    BY <1>3, <2>1, <2>2, RootOfChain
<1>7. QED
  BY <1>2, <1>4, <1>5, <1>6

(* What a name means in an environment is of that environment's family. *)
LEMMA LookupFamily ==
  ASSUME Isolated, NEW e \in DOMAIN envs, NEW n \in Names, lookup(e, n).kind = "fn"
  PROVE  /\ lookup(e, n).env \in DOMAIN envs
         /\ RootIn(envs, lookup(e, n).env) = RootIn(envs, e)
<1>1. lookup(e, n).env \in DOMAIN envs
  BY LookupValue DEF Isolated, IInv
<1>2. Binders(e, n) # {}
  BY ValueFacts DEF lookup
<1> DEFINE nearest == CHOOSE a \in Binders(e, n) : \A b \in Binders(e, n) : b <= a
<1>3. lookup(e, n) = envs[nearest].bind[n]
  BY <1>2 DEF lookup
<1>4. nearest \in Binders(e, n)
  <2>1. Binders(e, n) \in SUBSET (1..Len(envs))
    BY StateFacts DEF Isolated, Binders
  <2>2. \E a \in Binders(e, n) : \A b \in Binders(e, n) : b <= a
    BY <1>2, <2>1, Youngest, StateFacts DEF Isolated
  <2>3. QED
    BY <2>2
<1> HIDE DEF nearest
<1>5. nearest \in envs[e].chain /\ nearest \in DOMAIN envs
  BY <1>4, StateFacts DEF Binders, Isolated
<1>6. Kindred(envs, scope, LiveIn(scope), frames, active, acc)
  BY KindredForm DEF Isolated
<1>7. RootIn(envs, lookup(e, n).env) = RootIn(envs, nearest)
  BY <1>3, <1>5, <1>6 DEF Kindred
<1>8. RootIn(envs, nearest) = RootIn(envs, e)
  BY <1>5, <1>6 DEF Kindred
<1>9. QED
  BY <1>1, <1>7, <1>8

-----------------------------------------------------------------------------
(* How the steps of the machine preserve the invariant.                    *)

(* The environments and the scopes stay; what is in flight is of the       *)
(* family of the call in progress, if there is one.                        *)
LEMMA KeepFamilies ==
  ASSUME Isolated, UNCHANGED <<envs, scope, active>>,
         DOMAIN frames' \subseteq DOMAIN frames,
         \A i \in DOMAIN frames' : frames'[i] = frames[i],
         acc'.kind = "fn" => Evaluating /\ RootIn(envs, acc'.env) = RootIn(envs, scope[active])
  PROVE  (Isolation /\ Families)'
<1>1. Kindred(envs, scope, LiveIn(scope), frames, active, acc)
  BY KindredForm DEF Isolated
<1>2. Kindred(envs', scope', LiveIn(scope'), frames', active', acc')
  BY <1>1 DEF Kindred, LiveIn, Evaluating, Idle
<1>3. QED
  BY <1>2, KindredForm

(* A call returns, and its machine keeps its scope or takes the layer,     *)
(* which is of the same family.                                            *)
LEMMA ReturnFamilies ==
  ASSUME Isolated, Evaluating, UNCHANGED envs, NEW s, Return(s),
         \/ UNCHANGED scope
         \/ scope' = [scope EXCEPT ![active] = frames[1].env]
  PROVE  (Isolation /\ Families)'
<1>1. Kindred(envs, scope, LiveIn(scope), frames, active, acc)
  BY KindredForm DEF Isolated
<1>2. /\ active \in VMs /\ active \in LiveIn(scope) /\ 1 \in DOMAIN frames
      /\ scope \in [VMs -> Nat]
  BY StackFacts DEF Isolated, IInv, CallShape, Evaluating, Live, LiveIn, TypeOK
<1>3. RootIn(envs, frames[1].env) = RootIn(envs, scope[active])
  BY <1>1, <1>2 DEF Kindred
<1>4. /\ LiveIn(scope') \subseteq LiveIn(scope)
      /\ \A v \in VMs : RootIn(envs, scope'[v]) = RootIn(envs, scope[v])
  BY <1>2, <1>3 DEF LiveIn
<1>5. frames' = << >> /\ acc' = Datum(Unit) /\ acc'.kind # "fn" /\ envs' = envs
  BY ValueFacts DEF Return
<1>6. Kindred(envs', scope', LiveIn(scope'), frames', active', acc')
  BY <1>1, <1>4, <1>5 DEF Kindred
<1>7. QED
  BY <1>6, KindredForm

LEMMA RaiseFamilies ==
  ASSUME Isolated, Evaluating, Raise, UNCHANGED envs
  PROVE  (Isolation /\ Families)'
<1>1. CASE Abort
  BY <1>1, ReturnFamilies DEF Abort
<1>2. CASE ~Abort
  <2>1. PICK i \in Barriers :
          /\ frames' = SubSeq(frames, 1, i - 1)
          /\ acc' = Datum(ErrorText)
          /\ UNCHANGED <<machine, active, captured, previous, status>>
    BY <1>2 DEF Raise
  <2>2. i \in 1..Len(frames) /\ i # 1 /\ i - 1 \in 1..Len(frames)
    BY StackFacts DEF Barriers, Isolated, IInv, CallShape, Evaluating
  <2>3. /\ DOMAIN frames' \subseteq DOMAIN frames
        /\ \A j \in DOMAIN frames' : frames'[j] = frames[j]
    BY <2>1, <2>2, PopFrames, StackFacts DEF Isolated
  <2>4. acc'.kind # "fn"
    BY <2>1, ValueFacts
  <2>5. QED
    BY <2>1, <2>3, <2>4, KeepFamilies DEF machine
<1>3. QED
  BY <1>1, <1>2

(* A block, a let or a call enters a child of an environment of the        *)
(* family; what it binds is of the family too.                             *)
LEMMA PushFamilies ==
  ASSUME Isolated, Evaluating, NEW p \in DOMAIN envs,
         RootIn(envs, p) = RootIn(envs, scope[active]),
         NEW b \in [Names -> Values \cup {Unbound}],
         \A n \in Names : b[n].kind = "fn" =>
           /\ b[n].env \in DOMAIN envs
           /\ RootIn(envs, b[n].env) = RootIn(envs, scope[active]),
         envs' = Append(envs, NewEnv(envs[p].chain, b)),
         NEW kind \in {"inner", "call"}, Push(kind),
         UNCHANGED <<scope, active, acc>>
  PROVE  (Isolation /\ Families)'
<1> DEFINE new == Len(envs) + 1
           r == NewEnv(envs[p].chain, b)
<1>1. /\ r \in Environments
      /\ r.chain = envs[p].chain \cup {new}
      /\ r.bind = b
  BY StateFacts, NewEnvType DEF Isolated
<1> HIDE DEF r
<1>2. /\ DOMAIN envs = 1..Len(envs) /\ Len(envs) \in Nat
      /\ DOMAIN envs' = 1..new /\ envs'[new] = r
      /\ \A e \in DOMAIN envs : envs'[e] = envs[e]
  BY <1>1, StateFacts, AppendEnv DEF Isolated, r
<1>3. /\ \A e \in DOMAIN envs : RootIn(envs', e) = RootIn(envs, e)
      /\ RootIn(envs', new) = RootIn(envs, p)
  BY <1>1, GrowRoots DEF Isolated, r
<1>4. Kindred(envs, scope, LiveIn(scope), frames, active, acc)
  BY KindredForm DEF Isolated
<1>5. /\ active \in VMs /\ scope[active] \in DOMAIN envs
      /\ \A v \in LiveIn(scope) : scope[v] \in DOMAIN envs
  BY StackFacts, StateFacts DEF Isolated, LiveIn
<1>6. \A e \in DOMAIN envs' : \A a \in envs'[e].chain : RootIn(envs', a) = RootIn(envs', e)
  <2>1. ASSUME NEW e \in DOMAIN envs
        PROVE  \A a \in envs'[e].chain : RootIn(envs', a) = RootIn(envs', e)
    BY <1>2, <1>3, <1>4, StateFacts DEF Kindred, Isolated
  <2>2. \A a \in envs'[new].chain : RootIn(envs', a) = RootIn(envs', new)
    BY <1>1, <1>2, <1>3, <1>4, StateFacts DEF Kindred, Isolated
  <2>3. QED
    BY <1>2, <2>1, <2>2
<1>7. \A v, w \in VMs : v \in LiveIn(scope) /\ w \in LiveIn(scope) /\ v # w
        => RootIn(envs', scope[v]) # RootIn(envs', scope[w])
  BY <1>3, <1>4, <1>5 DEF Kindred
<1>8. \A e \in DOMAIN envs' : \A n \in Names :
        envs'[e].bind[n].kind = "fn"
          => RootIn(envs', envs'[e].bind[n].env) = RootIn(envs', e)
  <2>1. ASSUME NEW e \in DOMAIN envs, NEW n \in Names, envs[e].bind[n].kind = "fn"
        PROVE  RootIn(envs', envs[e].bind[n].env) = RootIn(envs', e)
    BY <1>3, <1>4, <2>1, StateFacts DEF Kindred, Isolated
  <2>2. ASSUME NEW n \in Names, b[n].kind = "fn"
        PROVE  RootIn(envs', b[n].env) = RootIn(envs', new)
    BY <1>3, <2>2
  <2>3. QED
    BY <1>1, <1>2, <2>1, <2>2
<1>9. \A i \in DOMAIN frames' : RootIn(envs', frames'[i].env) = RootIn(envs', scope[active])
  <2> DEFINE f == [env |-> new, kind |-> kind]
  <2>1. f \in Frames /\ f.env = new
    BY <1>2 DEF Frames
  <2> HIDE DEF f
  <2>2. frames' = Append(frames, f) /\ frames \in Seq(Frames)
    BY DEF Push, f, Isolated, IInv, TypeOK, Frames
  <2>3. /\ DOMAIN frames' = 1..(Len(frames) + 1) /\ Len(frames) \in Nat
        /\ DOMAIN frames = 1..Len(frames)
        /\ frames'[Len(frames) + 1] = f
        /\ \A i \in 1..Len(frames) : frames'[i] = frames[i]
    BY <2>1, <2>2, PushFrame
  <2>4. \A i \in DOMAIN frames : RootIn(envs', frames[i].env) = RootIn(envs', scope[active])
    BY <1>3, <1>4, <1>5, StateFacts DEF Kindred, Isolated
  <2>5. RootIn(envs', f.env) = RootIn(envs', scope[active])
    BY <1>3, <1>5, <2>1
  <2>6. QED
    BY <2>3, <2>4, <2>5
<1>10. acc'.kind = "fn" => active # NoVM /\ RootIn(envs', acc'.env) = RootIn(envs', scope[active])
  BY <1>3, <1>4, <1>5, StateFacts DEF Kindred, Isolated
<1>11. Kindred(envs', scope', LiveIn(scope'), frames', active', acc')
  <2>1. scope' = scope /\ active' = active /\ acc' = acc
    OBVIOUS
  <2>2. QED
    BY <1>6, <1>7, <1>8, <1>9, <1>10, <2>1 DEF Kindred
<1>12. QED
  BY <1>11, KindredForm
(* An assignment binds the value in flight in the innermost environment,   *)
(* both of the family of the call.                                         *)
LEMMA BindFamilies ==
  ASSUME Isolated, Evaluating, NEW n \in Names, bind(Top, n, acc),
         UNCHANGED <<scope, active, frames, acc>>
  PROVE  (Isolation /\ Families)'
<1>1. /\ Top \in DOMAIN envs /\ acc \in Values
      /\ envs \in Seq(Environments)
      /\ \A v \in LiveIn(scope) : scope[v] \in DOMAIN envs
      /\ active \in VMs /\ scope[active] \in DOMAIN envs
  BY StackFacts, StateFacts DEF Isolated, IInv, TypeOK, LiveIn
<1>2. /\ DOMAIN envs' = DOMAIN envs
      /\ \A a \in DOMAIN envs : envs'[a].chain = envs[a].chain
      /\ \A a \in DOMAIN envs \ {Top} : envs'[a] = envs[a]
      /\ \A m \in Names : envs'[Top].bind[m] = IF m = n THEN acc ELSE envs[Top].bind[m]
  BY <1>1, BindEnv
<1>3. \A e \in DOMAIN envs : RootIn(envs', e) = RootIn(envs, e)
  BY <1>2, SameChainSameRoot
<1>4. Kindred(envs, scope, LiveIn(scope), frames, active, acc)
  BY KindredForm DEF Isolated
<1>5. RootIn(envs, Top) = RootIn(envs, scope[active])
  BY <1>4, StackFacts DEF Kindred, Top, Isolated
<1>6. \A e \in DOMAIN envs' : \A m \in Names :
        envs'[e].bind[m].kind = "fn"
          => RootIn(envs', envs'[e].bind[m].env) = RootIn(envs', e)
  <2>1. ASSUME NEW e \in DOMAIN envs, NEW m \in Names, envs[e].bind[m].kind = "fn"
        PROVE  RootIn(envs', envs[e].bind[m].env) = RootIn(envs', e)
    BY <1>3, <1>4, <2>1, StateFacts DEF Kindred, Isolated
  <2>2. acc.kind = "fn" => RootIn(envs', acc.env) = RootIn(envs', Top)
    BY <1>1, <1>3, <1>4, <1>5, StateFacts DEF Kindred, Isolated
  <2>3. QED
    BY <1>1, <1>2, <2>1, <2>2
<1>7. \A e \in DOMAIN envs' : \A a \in envs'[e].chain : RootIn(envs', a) = RootIn(envs', e)
  BY <1>2, <1>3, <1>4, StateFacts DEF Kindred, Isolated
<1>8. \A v, w \in VMs : v \in LiveIn(scope) /\ w \in LiveIn(scope) /\ v # w
        => RootIn(envs', scope[v]) # RootIn(envs', scope[w])
  BY <1>1, <1>3, <1>4 DEF Kindred
<1>9. /\ \A i \in DOMAIN frames : RootIn(envs', frames[i].env) = RootIn(envs', scope[active])
      /\ acc.kind = "fn" => active # NoVM /\ RootIn(envs', acc.env) = RootIn(envs', scope[active])
  BY <1>1, <1>3, <1>4, StateFacts DEF Kindred, Isolated
<1>10. Kindred(envs', scope', LiveIn(scope'), frames', active', acc')
  <2>1. scope' = scope /\ frames' = frames /\ active' = active /\ acc' = acc
    OBVIOUS
  <2>2. QED
    BY <1>6, <1>7, <1>8, <1>9, <2>1 DEF Kindred
<1>11. QED
  BY <1>10, KindredForm

(* create and reset: the machine hangs off a prelude no other machine has. *)
LEMMA PreludeFamilies ==
  ASSUME Isolated, Idle, NEW v \in VMs,
         NEW natives, natives \subseteq Values,
         \A p \in natives : p.kind # "fn",
         Prelude(natives),
         scope' = [scope EXCEPT ![v] = Len(envs) + 1],
         UNCHANGED <<active, frames, acc>>
  PROVE  (Isolation /\ Families)'
<1>1. PICK p \in Values \cup {Unbound} :
        p.kind # "fn" /\ envs' = Append(envs, NewEnv({}, [Empty EXCEPT ![PrintName] = p]))
  BY ValueFacts DEF Prelude
<1> DEFINE new == Len(envs) + 1
           b == [Empty EXCEPT ![PrintName] = p]
           r == NewEnv({}, b)
<1>2. /\ b \in [Names -> Values \cup {Unbound}]
      /\ \A n \in Names : b[n].kind # "fn"
  BY <1>1, VmAssumption, ValueFacts DEF Empty
<1> HIDE DEF b
<1>3. r \in Environments /\ r.chain = {new} /\ r.bind = b
  BY <1>2, StateFacts, NewEnvType DEF Isolated
<1>4. envs' = Append(envs, r)
  BY <1>1 DEF b
<1> HIDE DEF r
<1>5. /\ DOMAIN envs = 1..Len(envs) /\ Len(envs) \in Nat
      /\ DOMAIN envs' = 1..new /\ envs'[new] = r
      /\ \A e \in DOMAIN envs : envs'[e] = envs[e]
  BY <1>3, <1>4, StateFacts, AppendEnv DEF Isolated
<1>6. /\ \A e \in DOMAIN envs : RootIn(envs', e) = RootIn(envs, e) /\ RootIn(envs', e) # new
      /\ RootIn(envs', new) = new
  BY <1>3, <1>4, GrowRoots DEF Isolated
<1>7. Kindred(envs, scope, LiveIn(scope), frames, active, acc)
  BY KindredForm DEF Isolated
<1>8. frames = << >> /\ acc.kind # "fn"
  BY <1>7 DEF Isolated, IInv, CallShape, Kindred, Idle
<1>9. \A e \in DOMAIN envs' : \A a \in envs'[e].chain : RootIn(envs', a) = RootIn(envs', e)
  BY <1>3, <1>5, <1>6, <1>7, StateFacts DEF Kindred, Isolated
<1>10. \A u, w \in VMs : u \in LiveIn(scope') /\ w \in LiveIn(scope') /\ u # w
         => RootIn(envs', scope'[u]) # RootIn(envs', scope'[w])
  <2>1. /\ scope \in [VMs -> Nat]
        /\ \A w \in VMs \ {v} : scope'[w] = scope[w]
        /\ scope'[v] = new
    BY DEF Isolated, IInv, TypeOK
  <2>2. \A w \in VMs \ {v} : w \in LiveIn(scope') =>
          /\ w \in LiveIn(scope) /\ scope[w] \in DOMAIN envs
          /\ RootIn(envs', scope'[w]) = RootIn(envs, scope[w])
          /\ RootIn(envs', scope'[w]) # new
    BY <1>6, <2>1, StateFacts DEF LiveIn, Isolated
  <2>3. RootIn(envs', scope'[v]) = new
    BY <1>6, <2>1
  <2>4. QED
    BY <1>7, <2>2, <2>3 DEF Kindred
<1>11. \A e \in DOMAIN envs' : \A n \in Names :
         envs'[e].bind[n].kind = "fn"
           => RootIn(envs', envs'[e].bind[n].env) = RootIn(envs', e)
  <2>1. ASSUME NEW e \in DOMAIN envs, NEW n \in Names, envs[e].bind[n].kind = "fn"
        PROVE  RootIn(envs', envs[e].bind[n].env) = RootIn(envs', e)
    BY <1>6, <1>7, <2>1, StateFacts DEF Kindred, Isolated
  <2>2. QED
    BY <1>2, <1>3, <1>5, <2>1
<1>12. Kindred(envs', scope', LiveIn(scope'), frames', active', acc')
  <2>1. DOMAIN frames' = {} /\ acc'.kind # "fn"
    BY <1>8
  <2>2. QED
    BY <1>9, <1>10, <1>11, <2>1 DEF Kindred
<1>13. QED
  BY <1>12, KindredForm

(* destroy: one machine fewer. *)
LEMMA DestroyFamilies ==
  ASSUME Isolated, NEW v \in VMs, Destroy(v)
  PROVE  (Isolation /\ Families)'
<1>1. /\ Idle /\ scope' = [scope EXCEPT ![v] = 0]
      /\ UNCHANGED <<envs, active, frames, acc>>
  BY DEF Destroy, control
<1>2. Kindred(envs, scope, LiveIn(scope), frames, active, acc)
  BY KindredForm DEF Isolated
<1>3. scope \in [VMs -> Nat]
  BY DEF Isolated, IInv, TypeOK
<1>4. \A w \in VMs : w \in LiveIn(scope') => w \in LiveIn(scope) /\ scope'[w] = scope[w]
  BY <1>1, <1>3 DEF LiveIn
<1>5. frames = << >> /\ acc.kind # "fn"
  BY <1>1, <1>2 DEF Isolated, IInv, CallShape, Kindred, Idle
<1>6. Kindred(envs', scope', LiveIn(scope'), frames', active', acc')
  <2>1. DOMAIN frames' = {} /\ acc'.kind # "fn" /\ envs' = envs
    BY <1>1, <1>5
  <2>2. \A u, w \in VMs : u \in LiveIn(scope') /\ w \in LiveIn(scope') /\ u # w
          => RootIn(envs, scope'[u]) # RootIn(envs, scope'[w])
    BY <1>2, <1>4 DEF Kindred
  <2>3. QED
    BY <1>2, <2>1, <2>2 DEF Kindred
<1>7. QED
  BY <1>6, KindredForm

(* The layer of a call is of the family of the machine's scope. *)
LEMMA BeginFamilies ==
  ASSUME Isolated, NEW v \in VMs, Begin(v)
  PROVE  (Isolation /\ Families)'
<1> DEFINE new == Len(envs) + 1
           r == NewEnv(envs[scope[v]].chain, Empty)
           f == [env |-> new, kind |-> "layer"]
<1>1. /\ scope[v] \in DOMAIN envs /\ scope' = scope /\ v \in LiveIn(scope)
      /\ envs' = Append(envs, r)
      /\ active' = v /\ frames' = <<f>> /\ acc' = Datum(Unit)
  BY DEF Begin, Isolated, IInv, Pointers, Child, LiveIn, Live
<1>2. r \in Environments /\ r.chain = envs[scope[v]].chain \cup {new} /\ r.bind = Empty
  BY <1>1, StateFacts, NewEnvType, EmptyType DEF Isolated
<1> HIDE DEF r
<1>3. /\ DOMAIN envs = 1..Len(envs) /\ Len(envs) \in Nat
      /\ DOMAIN envs' = 1..new /\ envs'[new] = r
      /\ \A e \in DOMAIN envs : envs'[e] = envs[e]
  BY <1>1, <1>2, StateFacts, AppendEnv DEF Isolated
<1>4. /\ \A e \in DOMAIN envs : RootIn(envs', e) = RootIn(envs, e)
      /\ RootIn(envs', new) = RootIn(envs, scope[v])
  BY <1>1, <1>2, GrowRoots DEF Isolated
<1>5. Kindred(envs, scope, LiveIn(scope), frames, active, acc)
  BY KindredForm DEF Isolated
<1>6. \A e \in DOMAIN envs' : \A a \in envs'[e].chain : RootIn(envs', a) = RootIn(envs', e)
  <2>1. ASSUME NEW e \in DOMAIN envs
        PROVE  \A a \in envs'[e].chain : RootIn(envs', a) = RootIn(envs', e)
    BY <1>3, <1>4, <1>5, StateFacts DEF Kindred, Isolated
  <2>2. \A a \in envs'[new].chain : RootIn(envs', a) = RootIn(envs', new)
    BY <1>1, <1>2, <1>3, <1>4, <1>5, StateFacts DEF Kindred, Isolated
  <2>3. QED
    BY <1>3, <2>1, <2>2
<1>7. \A u, w \in VMs : u \in LiveIn(scope) /\ w \in LiveIn(scope) /\ u # w
        => RootIn(envs', scope[u]) # RootIn(envs', scope[w])
  BY <1>4, <1>5, StateFacts DEF Kindred, LiveIn, Isolated
<1>8. \A e \in DOMAIN envs' : \A n \in Names :
        envs'[e].bind[n].kind = "fn"
          => RootIn(envs', envs'[e].bind[n].env) = RootIn(envs', e)
  <2>1. ASSUME NEW e \in DOMAIN envs, NEW n \in Names, envs[e].bind[n].kind = "fn"
        PROVE  RootIn(envs', envs[e].bind[n].env) = RootIn(envs', e)
    BY <1>4, <1>5, <2>1, StateFacts DEF Kindred, Isolated
  <2>2. \A n \in Names : Empty[n].kind # "fn"
    BY ValueFacts DEF Empty
  <2>3. QED
    BY <1>2, <1>3, <2>1, <2>2
<1>9. f.env = new
  OBVIOUS
<1> HIDE DEF f
<1>10. \A i \in DOMAIN frames' : RootIn(envs', frames'[i].env) = RootIn(envs', scope'[active'])
  BY <1>1, <1>4, <1>9
<1>11. acc'.kind # "fn"
  BY <1>1, ValueFacts
<1>12. Kindred(envs', scope', LiveIn(scope'), frames', active', acc')
  BY <1>1, <1>6, <1>7, <1>8, <1>10, <1>11 DEF Kindred
<1>13. QED
  BY <1>12, KindredForm

-----------------------------------------------------------------------------
LEMMA InitFamilies == Init => Isolation /\ Families
<1> SUFFICES ASSUME Init PROVE Kindred(envs, scope, LiveIn(scope), frames, active, acc)
  BY KindredForm
<1>1. LiveIn(scope) = {} /\ DOMAIN envs = {} /\ DOMAIN frames = {} /\ acc.kind # "fn"
  BY ValueFacts DEF Init, LiveIn
<1>2. QED
  BY <1>1 DEF Kindred

LEMMA HostFamilies ==
  ASSUME Isolated, NEW v \in VMs,
         Create(v) \/ Destroy(v) \/ Reset(v) \/ Refuse(v) \/ Begin(v)
  PROVE  (Isolation /\ Families)'
<1>1. CASE Create(v)
  <2>1. {PrintTo(v)} \subseteq Values /\ \A p \in {PrintTo(v)} : p.kind # "fn"
    BY ValueFacts
  <2>2. QED
    BY <1>1, <2>1, PreludeFamilies DEF Create, control
<1>2. CASE Reset(v)
  <2>1. {PrintNowhere} \subseteq Values /\ \A p \in {PrintNowhere} : p.kind # "fn"
    BY ValueFacts
  <2>2. QED
    BY <1>2, <2>1, PreludeFamilies DEF Reset, control
<1>3. CASE Refuse(v)
  <2>1. UNCHANGED <<envs, scope, active, frames, acc>> /\ acc.kind # "fn"
    BY <1>3 DEF Refuse, machine, control, Isolated, Families
  <2>2. QED
    BY <2>1, KeepFamilies
<1>4. QED
  BY <1>1, <1>2, <1>3, DestroyFamilies, BeginFamilies

LEMMA StepFamilies ==
  ASSUME Isolated, Step
  PROVE  (Isolation /\ Families)'
<1> Evaluating
  BY DEF Step, Literal, Lambda, Read, Assign, EnterBlock, EnterLet, Leave, Call,
         CallNonFunction, CallPrint, Panic, Finish
<1>0. /\ Top \in DOMAIN envs /\ acc \in Values
      /\ acc.kind = "fn" => acc.env \in DOMAIN envs
                             /\ RootIn(envs, acc.env) = RootIn(envs, scope[active])
      /\ RootIn(envs, Top) = RootIn(envs, scope[active])
      /\ Len(frames) \in Nat /\ DOMAIN frames = 1..Len(frames)
      /\ Empty \in [Names -> Values \cup {Unbound}] /\ \A n \in Names : Empty[n].kind # "fn"
  <2>1. Kindred(envs, scope, LiveIn(scope), frames, active, acc)
    BY KindredForm DEF Isolated
  <2>2. Top \in DOMAIN envs /\ Len(frames) \in DOMAIN frames /\ Len(frames) \in Nat
        /\ DOMAIN frames = 1..Len(frames)
    BY StackFacts DEF Isolated
  <2>3. QED
    BY <2>1, <2>2, StateFacts, EmptyType, ValueFacts
    DEF Kindred, Isolated, IInv, TypeOK, Top, Empty
<1>1. CASE Literal
  <2>1. acc'.kind # "fn" /\ UNCHANGED <<envs, scope, active, frames>>
    BY <1>1, ValueFacts DEF Literal, Made, machine
  <2>2. QED
    BY <2>1, KeepFamilies
<1>2. CASE Lambda
  <2>1. /\ acc'.kind = "fn" => acc'.env = Top
        /\ UNCHANGED <<envs, scope, active, frames>>
    BY <1>2, ValueFacts DEF Lambda, Made, machine
  <2>2. QED
    BY <1>0, <2>1, KeepFamilies
<1>3. CASE EnterBlock
  BY <1>0, <1>3, PushFamilies DEF EnterBlock, Child, machine
<1>4. CASE Leave
  <2>1. Len(frames) - 1 \in 1..Len(frames) /\ frames \in Seq(Frames)
    BY <1>0, <1>4 DEF Leave, Isolated, IInv, TypeOK, Frames
  <2>2. /\ DOMAIN frames' \subseteq DOMAIN frames
        /\ \A i \in DOMAIN frames' : frames'[i] = frames[i]
    BY <1>4, <2>1, PopFrames DEF Leave
  <2>3. QED
    BY <1>0, <1>4, <2>2, KeepFamilies DEF Leave, machine
<1>5. CASE Panic
  BY <1>5, ReturnFamilies DEF Panic, Abort
<1>6. CASE Finish
  BY <1>6, ReturnFamilies DEF Finish
<1>7. ASSUME NEW n \in Names, Read(n)
      PROVE  (Isolation /\ Families)'
  <2>1. CASE lookup(Top, n) \in {Unbound, Null}
    BY <1>7, <2>1, RaiseFamilies DEF Read
  <2>2. CASE lookup(Top, n) \notin {Unbound, Null}
    <3>1. acc' = lookup(Top, n) /\ UNCHANGED <<envs, scope, active, frames>>
      BY <1>7, <2>2 DEF Read, machine
    <3>2. QED
      BY <1>0, <3>1, LookupFamily, KeepFamilies
  <2>3. QED
    BY <2>1, <2>2
<1>8. ASSUME NEW n \in Names, Assign(n)
      PROVE  (Isolation /\ Families)'
  BY <1>8, BindFamilies, RaiseFamilies DEF Assign, machine, control
<1>9. ASSUME NEW n \in Names, EnterLet(n)
      PROVE  (Isolation /\ Families)'
  <2> DEFINE b == [Empty EXCEPT ![n] = acc]
  <2>1. /\ b \in [Names -> Values \cup {Unbound}]
        /\ \A m \in Names : b[m].kind = "fn" =>
             b[m].env \in DOMAIN envs /\ RootIn(envs, b[m].env) = RootIn(envs, scope[active])
    BY <1>0
  <2> HIDE DEF b
  <2>2. CASE /\ envs' = Append(envs, NewEnv(envs[Top].chain, b))
             /\ Push("inner")
             /\ UNCHANGED <<scope, active, acc>>
    BY <1>0, <2>1, <2>2, PushFamilies
  <2>3. CASE Raise /\ UNCHANGED envs
    BY <2>3, RaiseFamilies
  <2>4. QED
    BY <1>9, <2>2, <2>3 DEF EnterLet, ChildBinding, b, machine
<1>10. ASSUME NEW n \in Names, CallNonFunction(n)
       PROVE  (Isolation /\ Families)'
  BY <1>10, RaiseFamilies DEF CallNonFunction
<1>11. ASSUME NEW n \in Names, CallPrint(n)
       PROVE  (Isolation /\ Families)'
  <2>1. acc'.kind # "fn" /\ UNCHANGED <<envs, scope, active, frames>>
    BY <1>11, ValueFacts DEF CallPrint, machine
  <2>2. QED
    BY <2>1, KeepFamilies
<1>12. ASSUME NEW f \in Names, NEW p \in Names, Call(f, p)
       PROVE  (Isolation /\ Families)'
  <2> DEFINE e == lookup(Top, f).env
             b == [Empty EXCEPT ![p] = acc]
  <2>1. e \in DOMAIN envs /\ RootIn(envs, e) = RootIn(envs, scope[active])
    BY <1>0, <1>12, LookupFamily DEF Call
  <2>2. /\ b \in [Names -> Values \cup {Unbound}]
        /\ \A m \in Names : b[m].kind = "fn" =>
             b[m].env \in DOMAIN envs /\ RootIn(envs, b[m].env) = RootIn(envs, scope[active])
    BY <1>0
  <2> HIDE DEF b, e
  <2>3. CASE /\ envs' = Append(envs, NewEnv(envs[e].chain, b))
             /\ Push("call")
             /\ UNCHANGED <<scope, active, acc>>
    BY <2>1, <2>2, <2>3, PushFamilies
  <2>4. CASE acc' = Datum(ErrorText) /\ UNCHANGED <<envs, scope, active, frames>>
    <3>1. acc'.kind # "fn"
      BY <2>4, ValueFacts
    <3>2. QED
      BY <2>4, <3>1, KeepFamilies
  <2>5. QED
    BY <1>12, <2>3, <2>4 DEF Call, ChildBinding, b, e, machine
<1>13. QED
  BY <1>1, <1>2, <1>3, <1>4, <1>5, <1>6, <1>7, <1>8, <1>9, <1>10, <1>11, <1>12 DEF Step

(* Machines share nothing: every create and reset builds a prelude of its  *)
(* own (c_api.cpp:72-89), and an evaluation only ever reaches its chain.   *)
(* No sequence of create, reset, evaluations, failures and destroy lets a  *)
(* closure of one machine into the environments of another.                *)
THEOREM MachinesShareNothing == Spec => []Isolation
<1>1. Init => Isolated
  BY InitInvariant, InitFamilies DEF Isolated
<1>2. Isolated /\ [Next]_vars => Isolated'
  <2> SUFFICES ASSUME Isolated, [Next]_vars PROVE Isolated'
    OBVIOUS
  <2>1. IInv'
    BY NextInvariant DEF Isolated
  <2>2. CASE Host
    BY <2>1, <2>2, HostFamilies DEF Host, Isolated
  <2>3. CASE Step
    BY <2>1, <2>3, StepFamilies DEF Isolated
  <2>4. CASE UNCHANGED vars
    <3>1. UNCHANGED <<envs, scope, active, frames, acc>>
      BY <2>4 DEF vars
    <3>2. (Isolation /\ Families)'
      <4>1. acc.kind = "fn" => ~Idle /\ RootIn(envs, acc.env) = RootIn(envs, scope[active])
        BY KindredForm DEF Isolated, Kindred, Idle
      <4>2. QED
        BY <3>1, <4>1, KeepFamilies DEF Evaluating
    <3>3. QED
      BY <2>1, <3>2 DEF Isolated
  <2>5. QED
    BY <2>2, <2>3, <2>4 DEF Next
<1>3. Isolated => Isolation
  BY DEF Isolated
<1>4. QED
  BY <1>1, <1>2, <1>3, PTL DEF Spec
=============================================================================
