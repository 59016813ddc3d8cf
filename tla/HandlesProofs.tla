---------------------------- MODULE HandlesProofs ---------------------------
(***************************************************************************)
(* Proofs about Handles.tla: for any number of objects of any kinds, no    *)
(* sequence of constructions, moves, assignments, resets and destructions  *)
(* leaks a handle or closes one twice, and foreign calls release their     *)
(* machine and are entered as declared.                                    *)
(***************************************************************************)
EXTENDS Handles, TLAPS, SequenceTheorems

Inv == TypeOK /\ OwnedOnce /\ ExportsFollowHandle

LEMMA ZeroIsHandle == 0 \in Handle
BY HandlesAssumption DEF Handle

LEMMA InitInv == Init => Inv
<1> SUFFICES ASSUME Init PROVE Inv
  OBVIOUS
<1> USE DEF Init
<1>1. held \in [Objects -> Handle] /\ exports \in [Objects -> Handle]
  BY ZeroIsHandle
<1>2. opened \in Handle /\ misused \in BOOLEAN /\ callVMs \in Nat
  BY ZeroIsHandle
<1>3. open \subseteq 1..opened
  OBVIOUS
<1>4. OwnedOnce
  BY DEF OwnedOnce
<1>5. ExportsFollowHandle
  BY DEF ExportsFollowHandle
<1>6. QED
  BY <1>1, <1>2, <1>3, <1>4, <1>5 DEF Inv, TypeOK

LEMMA ConstructInv ==
  ASSUME Inv, NEW o \in Objects, Construct(o)
  PROVE  Inv'
<1> DEFINE h == opened + 1
<1>1. /\ alive' = alive \cup {o} /\ opened' = h /\ misused' = misused
      /\ o \notin alive /\ open' = open \cup {h} /\ h \in Handle /\ h \in 1..h
      /\ held' = [held EXCEPT ![o] = h]
      /\ exports' = [exports EXCEPT ![o] = IF KindOf(o) = "plugin" THEN h ELSE 0]
      /\ callVMs' = callVMs
  <2>1. open \ {0} = open
    BY DEF Inv, TypeOK
  <2>2. QED
    BY <2>1, HandlesAssumption DEF Inv, TypeOK, Construct, CloseThenOpen, calls, Handle
<1>2. h \notin open /\ opened \in Nat /\ open \subseteq 1..opened
  BY HandlesAssumption DEF Inv, TypeOK, Handle
<1> HIDE DEF h
<1>3. TypeOK'
  <2>1. open' \subseteq 1..h
    BY <1>1, <1>2 DEF h
  <2>2. held' \in [Objects -> Handle]
    BY <1>1 DEF Inv, TypeOK
  <2>3. exports' \in [Objects -> Handle]
    BY <1>1, ZeroIsHandle DEF Inv, TypeOK
  <2>4. alive' \subseteq Objects /\ opened' \in Handle /\ misused' \in BOOLEAN /\ callVMs' \in Nat
    BY <1>1 DEF Inv, TypeOK
  <2>5. QED
    BY <1>1, <2>1, <2>2, <2>3, <2>4 DEF TypeOK
<1>4. \A p \in Objects : held'[p] = IF p = o THEN h ELSE held[p]
  BY <1>1 DEF Inv, TypeOK
<1>5. held[o] = 0 /\ \A p \in Objects : held[p] # h
  <2>1. 0 \notin open /\ h # 0
    BY <1>1, <1>2
  <2>2. QED
    BY <1>1, <1>2, <2>1 DEF Inv, OwnedOnce
<1>6. OwnedOnce'
  BY <1>1, <1>2, <1>4, <1>5 DEF Inv, OwnedOnce
<1>7. ExportsFollowHandle'
  BY <1>1, <1>4 DEF Inv, TypeOK, ExportsFollowHandle
<1>8. QED
  BY <1>3, <1>6, <1>7 DEF Inv

LEMMA ConstructUnloadedInv ==
  ASSUME Inv, NEW o \in Objects, ConstructUnloaded(o)
  PROVE  Inv'
<1>1. held[o] = 0 /\ held' = held
  BY DEF Inv, TypeOK, OwnedOnce, ConstructUnloaded
<1>2. alive' = alive \cup {o} /\ UNCHANGED <<exports, opened, open, misused, callVMs>>
  BY DEF ConstructUnloaded, calls
<1>3. QED
  BY <1>1, <1>2 DEF Inv, TypeOK, OwnedOnce, ExportsFollowHandle

LEMMA DestroyInv ==
  ASSUME Inv, NEW o \in Objects, Destroy(o)
  PROVE  Inv'
<1>1. /\ alive' = alive \ {o} /\ opened' = opened /\ open' = open \ {held[o]}
      /\ held' = [held EXCEPT ![o] = 0] /\ exports' = [exports EXCEPT ![o] = 0]
      /\ misused' = (misused \/ (held[o] # 0 /\ held[o] \notin open))
      /\ callVMs' = callVMs
  BY DEF Destroy, CloseThenOpen, calls
<1>2. misused' = FALSE
  BY <1>1 DEF Inv, OwnedOnce, TypeOK
<1>3. \A p \in Objects : held'[p] = IF p = o THEN 0 ELSE held[p]
  BY <1>1 DEF Inv, TypeOK
<1>4. TypeOK'
  <2>1. held' \in [Objects -> Handle] /\ exports' \in [Objects -> Handle]
    BY <1>1, ZeroIsHandle DEF Inv, TypeOK
  <2>2. alive' \subseteq Objects /\ open' \subseteq 1..opened'
    BY <1>1 DEF Inv, TypeOK
  <2>3. opened' \in Handle /\ misused' \in BOOLEAN /\ callVMs' \in Nat
    BY <1>1, <1>2 DEF Inv, TypeOK
  <2>4. QED
    BY <2>1, <2>2, <2>3 DEF TypeOK
<1>5. OwnedOnce'
  <2>1. \A p \in Objects : p # o /\ held[p] # 0 => held[p] # held[o]
    BY DEF Inv, OwnedOnce
  <2>2. QED
    BY <1>1, <1>2, <1>3, <2>1 DEF Inv, OwnedOnce, TypeOK
<1>6. ExportsFollowHandle'
  BY <1>1 DEF Inv, TypeOK, ExportsFollowHandle
<1>7. QED
  BY <1>4, <1>5, <1>6 DEF Inv

LEMMA MoveConstructInv ==
  ASSUME Inv, NEW o \in Objects, NEW p \in Objects, MoveConstruct(o, p)
  PROVE  Inv'
<1>1. /\ alive' = alive \cup {o} /\ p \in alive /\ o # p /\ KindOf(o) = KindOf(p)
      /\ held' = [held EXCEPT ![o] = held[p], ![p] = 0]
      /\ exports' = [exports EXCEPT ![o] = exports[p], ![p] = 0]
      /\ UNCHANGED <<opened, open, misused, callVMs>>
  BY DEF MoveConstruct, calls
<1>2. \A q \in Objects : held'[q] = IF q = p THEN 0 ELSE IF q = o THEN held[p] ELSE held[q]
  BY <1>1 DEF Inv, TypeOK
<1>3. TypeOK'
  <2>1. held' \in [Objects -> Handle] /\ exports' \in [Objects -> Handle]
    BY <1>1, ZeroIsHandle DEF Inv, TypeOK
  <2>2. alive' \subseteq Objects
    BY <1>1 DEF Inv, TypeOK
  <2>3. QED
    BY <1>1, <2>1, <2>2 DEF Inv, TypeOK
<1>4. held[o] = 0
  BY <1>1, o \notin alive DEF Inv, OwnedOnce, MoveConstruct
<1>5. OwnedOnce'
  <2>1. 0 \notin open
    BY DEF Inv, TypeOK
  <2>2. alive \subseteq Objects
    BY DEF Inv, TypeOK
  <2>3. \A h \in open' : \E q \in alive' : held'[q] = h
    <3> SUFFICES ASSUME NEW h \in open PROVE \E q \in alive' : held'[q] = h
      BY <1>1
    <3>1. PICK q \in alive : held[q] = h
      BY DEF Inv, OwnedOnce
    <3>2. CASE q = p
      BY <1>1, <1>2, <3>1, <3>2
    <3>3. CASE q # p
      BY <1>1, <1>2, <1>4, <2>1, <2>2, <3>1, <3>3
    <3>4. QED
      BY <3>2, <3>3
  <2>4. \A q \in Objects : held'[q] # 0 => q \in alive' /\ held'[q] \in open'
    <3>1. \A q \in Objects : held[q] # 0 => q \in alive /\ held[q] \in open
      BY DEF Inv, OwnedOnce
    <3>2. o \in alive' /\ alive \subseteq alive' /\ open' = open
      BY <1>1
    <3>3. \A q \in Objects : held'[q] = 0 \/ (q # o /\ held'[q] = held[q])
                               \/ (q = o /\ held'[q] = held[p])
      BY <1>2
    <3>4. QED
      BY <3>1, <3>2, <3>3
  <2>5. \A q, r \in Objects : held'[q] = held'[r] /\ held'[q] # 0 => q = r
    BY <1>2 DEF Inv, OwnedOnce
  <2>6. QED
    BY <1>1, <2>3, <2>4, <2>5 DEF Inv, OwnedOnce
<1>6. ExportsFollowHandle'
  BY <1>1 DEF Inv, TypeOK, ExportsFollowHandle
<1>7. QED
  BY <1>3, <1>5, <1>6 DEF Inv

LEMMA MoveAssignInv ==
  ASSUME Inv, NEW o \in Objects, NEW p \in Objects, MoveAssign(o, p)
  PROVE  Inv'
<1>1. CASE o = p
  BY <1>1 DEF MoveAssign, owners, calls, Inv, TypeOK, OwnedOnce, ExportsFollowHandle
<1>2. CASE o # p
  <2>1. /\ alive' = alive /\ o \in alive /\ p \in alive /\ KindOf(o) = KindOf(p)
        /\ open' = open \ {held[o]}
        /\ held' = [held EXCEPT ![o] = held[p], ![p] = 0]
        /\ exports' = [exports EXCEPT ![o] = exports[p], ![p] = 0]
        /\ misused' = (misused \/ (held[o] # 0 /\ held[o] \notin open))
        /\ UNCHANGED <<opened, callVMs>>
    BY <1>2 DEF MoveAssign, CloseThenOpen, calls
  <2>2. misused' = FALSE
    BY <2>1 DEF Inv, OwnedOnce, TypeOK
  <2>3. \A q \in Objects : held'[q] = IF q = p THEN 0 ELSE IF q = o THEN held[p] ELSE held[q]
    BY <2>1 DEF Inv, TypeOK
  <2>4. TypeOK'
    <3>1. held' \in [Objects -> Handle] /\ exports' \in [Objects -> Handle]
      BY <2>1, ZeroIsHandle DEF Inv, TypeOK
    <3>2. alive' \subseteq Objects /\ open' \subseteq 1..opened'
      BY <2>1 DEF Inv, TypeOK
    <3>3. opened' \in Handle /\ misused' \in BOOLEAN /\ callVMs' \in Nat
      BY <2>1, <2>2 DEF Inv, TypeOK
    <3>4. QED
      BY <3>1, <3>2, <3>3 DEF TypeOK
  <2>5. OwnedOnce'
    <3>1. 0 \notin open
      BY DEF Inv, TypeOK
    <3>2. \A q \in Objects : q # o /\ held[q] # 0 => held[q] # held[o]
      BY DEF Inv, OwnedOnce
    <3>3. alive \subseteq Objects
      BY DEF Inv, TypeOK
    <3>4. \A h \in open' : \E q \in alive' : held'[q] = h
      <4> SUFFICES ASSUME NEW h \in open, h # held[o]
                   PROVE  \E q \in alive' : held'[q] = h
        BY <2>1
      <4>1. PICK q \in alive : held[q] = h
        BY DEF Inv, OwnedOnce
      <4>2. CASE q = p
        BY <1>2, <2>1, <2>3, <4>1, <4>2
      <4>3. CASE q # p
        BY <2>1, <2>3, <3>3, <4>1, <4>3
      <4>4. QED
        BY <4>2, <4>3
    <3>5. \A q \in Objects : held'[q] # 0 => q \in alive' /\ held'[q] \in open'
      <4>1. \A q \in Objects : held[q] # 0 => q \in alive /\ held[q] \in open
        BY DEF Inv, OwnedOnce
      <4>2. o \in alive /\ alive' = alive /\ open' = open \ {held[o]} /\ p # o
        BY <1>2, <2>1
      <4>3. \A q \in Objects : held'[q] = 0 \/ (q # o /\ held'[q] = held[q])
                                 \/ (q = o /\ held'[q] = held[p])
        BY <2>3
      <4>4. QED
        BY <3>2, <4>1, <4>2, <4>3
    <3>6. \A q, r \in Objects : held'[q] = held'[r] /\ held'[q] # 0 => q = r
      BY <2>3 DEF Inv, OwnedOnce
    <3>7. QED
      BY <2>2, <3>4, <3>5, <3>6 DEF OwnedOnce
  <2>6. ExportsFollowHandle'
    BY <1>2, <2>1 DEF Inv, TypeOK, ExportsFollowHandle
  <2>7. QED
    BY <2>4, <2>5, <2>6 DEF Inv
<1>3. QED
  BY <1>1, <1>2

LEMMA ResetInv ==
  ASSUME Inv, NEW o \in Objects, Reset(o)
  PROVE  Inv'
<1> DEFINE h == opened + 1
<1>1. /\ alive' = alive /\ opened' = h /\ o \in alive /\ KindOf(o) # "plugin"
      /\ open' = (open \ {held[o]}) \cup {h} /\ h \in Handle /\ h \in 1..h
      /\ misused' = (misused \/ (held[o] # 0 /\ held[o] \notin open))
      /\ held' = [held EXCEPT ![o] = h]
      /\ exports' = exports /\ callVMs' = callVMs
  BY HandlesAssumption DEF Inv, TypeOK, Reset, CloseThenOpen, calls, Handle
<1>2. h \notin open /\ opened \in Nat /\ open \subseteq 1..opened /\ 1..opened \subseteq 1..h
  BY HandlesAssumption DEF Inv, TypeOK, Handle
<1> HIDE DEF h
<1>3. misused' = FALSE
  BY <1>1 DEF Inv, OwnedOnce, TypeOK
<1>4. TypeOK'
  <2>1. open' \subseteq 1..h
    BY <1>1, <1>2
  <2>2. QED
    BY <1>1, <1>3, <2>1 DEF Inv, TypeOK, Handle
<1>5. \A p \in Objects : held'[p] = IF p = o THEN h ELSE held[p]
  BY <1>1 DEF Inv, TypeOK
<1>6. OwnedOnce'
  <2>1. \A q \in Objects : q # o /\ held[q] # 0 => held[q] # held[o]
    BY DEF Inv, OwnedOnce
  <2>2. 0 \notin open /\ h # 0 /\ \A q \in Objects : held[q] # h
    BY <1>1, <1>2 DEF Inv, OwnedOnce
  <2>3. QED
    BY <1>1, <1>2, <1>3, <1>5, <2>1, <2>2 DEF Inv, OwnedOnce
<1>7. ExportsFollowHandle'
  BY <1>1, <1>5 DEF Inv, TypeOK, ExportsFollowHandle
<1>8. QED
  BY <1>4, <1>6, <1>7 DEF Inv

(* Foreign code reads the owners and changes none of them. *)
LEMMA KeepInv ==
  ASSUME Inv, UNCHANGED owners, callVMs' \in Nat
  PROVE  Inv'
BY DEF Inv, TypeOK, OwnedOnce, ExportsFollowHandle, owners

-----------------------------------------------------------------------------
(* The machine of a call, and the arguments it has been given so far.      *)
CallTyped == call \in [under : BOOLEAN, arguments : Seq(STRING), pushed : Seq(STRING)]

PushedFit ==
  /\ ~ call.under => call.pushed = << >>
  /\ Len(call.pushed) <= Len(call.arguments)
  /\ \A k \in 1..Len(call.pushed) :
       call.pushed[k] \in Accepts(function.signature.arguments[k])

CallInv == CallTyped /\ PushedFit /\ CallVMReleased

LEMMA OwningInv ==
  ASSUME Inv, CallInv, Owning
  PROVE  Inv' /\ CallInv'
<1>1. Inv'
  BY ConstructInv, ConstructUnloadedInv, DestroyInv, MoveConstructInv, MoveAssignInv, ResetInv
  DEF Owning
<1>2. UNCHANGED calls
  BY DEF Owning, Construct, ConstructUnloaded, Destroy, MoveConstruct, MoveAssign, Reset
<1>3. QED
  BY <1>1, <1>2 DEF CallInv, CallTyped, PushedFit, CallVMReleased, calls

LEMMA NoCallInv ==
  ASSUME call' = NoCall
  PROVE  CallTyped' /\ PushedFit' /\ ~ call'.under
<1>1. << >> \in Seq(STRING) /\ Len(<< >>) = 0
  OBVIOUS
<1>2. QED
  BY <1>1 DEF NoCall, CallTyped, PushedFit

(* Pushing keeps what is pushed a prefix of the right alternatives.        *)
LEMMA PushArgumentInv ==
  ASSUME CallInv, PushArgument
  PROVE  CallInv' /\ callVMs' = callVMs
<1> DEFINE x == call.arguments[NextIndex]
           s == call.pushed
<1>1. /\ call.under /\ Len(s) # Len(call.arguments)
      /\ x \in Accepts(function.signature.arguments[NextIndex])
      /\ call' = [call EXCEPT !.pushed = Append(s, x)]
      /\ function' = function /\ callVMs' = callVMs
  BY DEF PushArgument, AllPushed, ArgumentFits
<1>2. s \in Seq(STRING) /\ call.arguments \in Seq(STRING)
  BY DEF CallInv, CallTyped
<1>3. Len(s) \in Nat /\ Len(call.arguments) \in Nat
  BY <1>2, LenProperties
<1>4. NextIndex = Len(s) + 1 /\ NextIndex \in 1..Len(call.arguments)
  BY <1>1, <1>3 DEF NextIndex, CallInv, PushedFit
<1>5. x \in STRING
  BY <1>2, <1>4, ElementOfSeq
<1>6. /\ Append(s, x) \in Seq(STRING) /\ Len(Append(s, x)) = Len(s) + 1
      /\ \A k \in 1..Len(s) : Append(s, x)[k] = s[k]
      /\ Append(s, x)[Len(s) + 1] = x
  BY <1>2, <1>5, AppendProperties
<1>7. call'.under = call.under /\ call'.arguments = call.arguments /\ call'.pushed = Append(s, x)
  BY <1>1 DEF CallInv, CallTyped
<1>8. CallTyped'
  BY <1>1, <1>6 DEF CallInv, CallTyped
<1>9. PushedFit'
  <2>1. Len(call'.pushed) <= Len(call'.arguments)
    BY <1>3, <1>4, <1>6, <1>7
  <2>2. ASSUME NEW k \in 1..Len(call'.pushed)
        PROVE  call'.pushed[k] \in Accepts(function.signature.arguments[k])
    <3>1. CASE k = Len(s) + 1
      BY <1>1, <1>4, <1>6, <1>7, <3>1
    <3>2. CASE k # Len(s) + 1
      <4>1. k \in 1..Len(s)
        BY <1>3, <1>6, <1>7, <3>2
      <4>2. QED
        BY <1>6, <1>7, <4>1 DEF CallInv, PushedFit
    <3>3. QED
      BY <3>1, <3>2
  <2>3. QED
    BY <1>1, <1>7, <2>1, <2>2 DEF PushedFit
<1>10. QED
  BY <1>1, <1>7, <1>8, <1>9 DEF CallInv, CallVMReleased

LEMMA CallingInv ==
  ASSUME Inv, CallInv, Calling
  PROVE  Inv' /\ CallInv'
<1>1. UNCHANGED owners
  BY DEF Calling, RunPlugin, GetFunction, Call, PushArgument, Throw, Invoke
<1>2. CallInv' /\ callVMs' \in Nat
  <2>1. ASSUME NEW o \in Objects, RunPlugin(o) PROVE CallInv' /\ callVMs' \in Nat
    BY <2>1 DEF RunPlugin, CallInv, CallTyped, PushedFit, CallVMReleased
  <2>2. ASSUME NEW o \in Objects, NEW sig \in Signatures, GetFunction(o, sig)
        PROVE  CallInv' /\ callVMs' \in Nat
    <3>1. call' = call /\ call.pushed = << >> /\ callVMs' = callVMs
      BY <2>2 DEF GetFunction, CallInv, PushedFit
    <3>2. QED
      BY <3>1 DEF CallInv, CallTyped, PushedFit, CallVMReleased
  <2>3. ASSUME NEW args \in Arguments, Call(args) PROVE CallInv' /\ callVMs' \in Nat
    <3>1. args \in Seq(STRING) /\ << >> \in Seq(STRING) /\ Len(<< >>) = 0 /\ Len(args) \in Nat
      BY HandlesAssumption
    <3>2. QED
      BY <2>3, <3>1 DEF Call, CallInv, CallTyped, PushedFit, CallVMReleased
  <2>4. CASE PushArgument
    BY <2>4, PushArgumentInv DEF Inv, TypeOK
  <2>5. CASE Throw
    BY <2>5, NoCallInv DEF Throw, Unwind, CallInv, CallVMReleased
  <2>6. CASE Invoke
    BY <2>6, NoCallInv DEF Invoke, Unwind, CallInv, CallVMReleased
  <2>7. QED
    BY <2>1, <2>2, <2>3, <2>4, <2>5, <2>6 DEF Calling
<1>3. QED
  BY <1>1, <1>2, KeepInv

LEMMA Invariance == Spec => [](Inv /\ CallInv)
<1>1. Init => Inv /\ CallInv
  <2> SUFFICES ASSUME Init PROVE Inv /\ CallInv
    OBVIOUS
  <2>1. call = NoCall /\ callVMs = 0 /\ << >> \in Seq(STRING) /\ Len(<< >>) = 0
    BY DEF Init
  <2>2. QED
    BY InitInv, <2>1 DEF NoCall, CallInv, CallTyped, PushedFit, CallVMReleased
<1>2. Inv /\ CallInv /\ [Next]_vars => Inv' /\ CallInv'
  <2> SUFFICES ASSUME Inv, CallInv, [Next]_vars PROVE Inv' /\ CallInv'
    OBVIOUS
  <2>1. CASE Next
    BY <2>1, OwningInv, CallingInv DEF Next
  <2>2. CASE UNCHANGED vars
    BY <2>2 DEF vars, owners, calls, Inv, TypeOK, OwnedOnce, ExportsFollowHandle,
                CallInv, CallTyped, PushedFit, CallVMReleased
  <2>3. QED
    BY <2>1, <2>2
<1>3. QED
  BY <1>1, <1>2, PTL DEF Spec

(* No sequence of constructions, moves, assignments, resets and            *)
(* destructions of any number of owners leaks a native handle, closes one  *)
(* twice or leaves an object with a closed one.                            *)
THEOREM NoLeakNoDoubleClose == Spec => []OwnedOnce
<1>1. Inv => OwnedOnce
  BY DEF Inv
<1>2. QED
  BY Invariance, <1>1, PTL

(* A plugin library runs only code of the handle it holds.                 *)
THEOREM ExportsOfTheHandle == Spec => []ExportsFollowHandle
<1>1. Inv => ExportsFollowHandle
  BY DEF Inv
<1>2. QED
  BY Invariance, <1>1, PTL

(* Objects only hold handles that were opened, whatever is moved or reset. *)
THEOREM TypeCorrectness == Spec => []TypeOK
<1>1. Inv => TypeOK
  BY DEF Inv
<1>2. QED
  BY Invariance, <1>1, PTL

(* A foreign call releases its dyncall machine, whichever way it ends.     *)
THEOREM CallMachineReleased == Spec => []CallVMReleased
<1>1. CallInv => CallVMReleased
  BY DEF CallInv
<1>2. QED
  BY Invariance, <1>1, PTL

(* Foreign code is entered with as many arguments as the signature names,  *)
(* each of the alternative its type takes.                                 *)
THEOREM EnteredWithArguments == Spec => EnteredAsDeclared
<1>1. CallInv /\ Invoke =>
        /\ Len(entered'.values) = Len(function.signature.arguments)
        /\ \A k \in 1..Len(entered'.values) :
             entered'.values[k] \in Accepts(function.signature.arguments[k])
  <2> SUFFICES ASSUME CallInv, Invoke
               PROVE  /\ Len(call.pushed) = Len(function.signature.arguments)
                      /\ \A k \in 1..Len(call.pushed) :
                           call.pushed[k] \in Accepts(function.signature.arguments[k])
    BY DEF Invoke
  <2>1. Len(call.pushed) = Len(function.signature.arguments)
    BY DEF Invoke, AllPushed, CountMatches
  <2>2. QED
    BY <2>1 DEF CallInv, PushedFit
<1>2. QED
  BY Invariance, <1>1, PTL DEF EnteredAsDeclared
=============================================================================
