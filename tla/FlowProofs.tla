----------------------------- MODULE FlowProofs -----------------------------
(***************************************************************************)
(* Proofs about Flow.tla: what each call of the library promises is what   *)
(* the next takes for granted.  For every set of programs and of graphs,   *)
(* every way of flattening expressions and of finding the variables they   *)
(* use and bind.                                                           *)
(*                                                                         *)
(* First the analyses: what a transfer and a meet of reaching definitions  *)
(* do to one definition, and why a definition that can reach a block is in *)
(* the result.  The facts about the builder, the solver and the dominator  *)
(* tree come from the proofs about those modules, as instances of them; an *)
(* instance has its own copy of every definition, so there are lemmas that *)
(* say that the copies agree.                                              *)
(***************************************************************************)
EXTENDS Flow, SequenceLemmas

-----------------------------------------------------------------------------
(* The loop of solve: nothing is used of the meet and the transfer of an   *)
(* analysis but, for the types, that they stay in its lattice.             *)
SolverInv == Shape /\ PendingCovers /\ AfterIsTransfer /\ WaitsOnce

LEMMA GraphFacts ==
  ASSUME NEW g, IsGraph(g)
  PROVE  /\ g.size \in Nat
         /\ g.boundary \in Blocks(g)
         /\ \A b \in Blocks(g) : g.feeders[b] \in Seq(Blocks(g)) /\ g.readers[b] \in Seq(Blocks(g))
         /\ \A b, c \in Blocks(g) : b \in Range(g.feeders[c]) <=> c \in Range(g.readers[b])
BY DEF IsGraph

(* What is joined into a block depends only on the facts of its feeders. *)
LEMMA JoinedSame ==
  ASSUME NEW g, NEW b \in Blocks(g), NEW f1, NEW f2,
         \A a \in Range(g.feeders[b]) : f1[a] = f2[a]
  PROVE  Joined(g, f1, b) = Joined(g, f2, b)
<1>1. [k \in DOMAIN g.feeders[b] |-> f1[g.feeders[b][k]]]
      = [k \in DOMAIN g.feeders[b] |-> f2[g.feeders[b][k]]]
  BY DEF Range
<1>2. QED
  BY <1>1 DEF Joined

(* The head and the tail of a sequence hold what the sequence holds. *)
LEMMA HeadTailRange ==
  ASSUME NEW S, NEW s \in Seq(S), s # << >>
  PROVE  /\ Head(s) \in S /\ Tail(s) \in Seq(S)
         /\ Range(s) = {Head(s)} \cup Range(Tail(s))
<1>1. /\ Head(s) \in S /\ Tail(s) \in Seq(S)
      /\ Len(s) \in Nat \ {0} /\ DOMAIN s = 1..Len(s) /\ Head(s) = s[1]
      /\ DOMAIN Tail(s) = 1..(Len(s) - 1)
      /\ \A k \in 1..(Len(s) - 1) : Tail(s)[k] = s[k + 1]
  OBVIOUS
<1>2. ASSUME NEW k \in DOMAIN s
      PROVE  s[k] \in {Head(s)} \cup Range(Tail(s))
  <2>1. CASE k = 1
    BY <1>1, <2>1
  <2>2. CASE k # 1
    <3>1. k - 1 \in DOMAIN Tail(s) /\ Tail(s)[k - 1] = s[k]
      BY <1>1, <2>2
    <3>2. QED
      BY <3>1 DEF Range
  <2>3. QED
    BY <2>1, <2>2
<1>3. ASSUME NEW k \in DOMAIN Tail(s)
      PROVE  Tail(s)[k] \in Range(s)
  BY <1>1, k + 1 \in DOMAIN s DEF Range
<1>4. Head(s) \in Range(s)
  BY <1>1 DEF Range
<1>5. QED
  BY <1>1, <1>2, <1>3, <1>4 DEF Range

LEMMA AppendRange ==
  ASSUME NEW S, NEW s \in Seq(S), NEW x \in S
  PROVE  /\ Append(s, x) \in Seq(S)
         /\ Range(Append(s, x)) = Range(s) \cup {x}
<1>1. /\ Append(s, x) \in Seq(S)
      /\ DOMAIN s = 1..Len(s) /\ Len(s) \in Nat
      /\ DOMAIN Append(s, x) = 1..(Len(s) + 1)
      /\ Append(s, x)[Len(s) + 1] = x
      /\ \A k \in 1..Len(s) : Append(s, x)[k] = s[k]
  OBVIOUS
<1>2. QED
  BY <1>1 DEF Range

LEMMA FirstInv ==
  ASSUME IsGraph(graph), before = FirstBefore(graph), after = FirstAfter(graph),
         worklist = FirstWorklist(graph), waking = << >>
  PROVE  SolverInv
<1>1. IsGraph(graph) /\ graph.size \in Nat
  BY GraphFacts
<1>2. /\ worklist \in Seq(Blocks(graph)) /\ DOMAIN worklist = 1..graph.size
      /\ \A k \in 1..graph.size : worklist[k] = k - 1
  <2>1. worklist = [k \in 1..graph.size |-> k - 1]
    BY DEF FirstWorklist
  <2>2. ASSUME NEW k \in 1..graph.size
        PROVE  k - 1 \in Blocks(graph)
    BY <1>1 DEF Blocks
  <2>3. worklist \in [1..graph.size -> Blocks(graph)]
    BY <2>1, <2>2
  <2>4. worklist \in Seq(Blocks(graph))
    BY <1>1, <2>3, SeqDef
  <2>5. QED
    BY <2>1, <2>3, <2>4
<1>3. Shape
  BY <1>1, <1>2 DEF FirstBefore, FirstAfter, Shape
<1>4. PendingCovers
  <2>1. ASSUME NEW b \in Blocks(graph)
        PROVE  b \in Range(worklist)
    <3>0. b \in Int /\ 0 <= b /\ b <= graph.size - 1
      BY <1>1, <2>1 DEF Blocks
    <3>1. b + 1 \in 1..graph.size /\ worklist[b + 1] = b
      BY <1>1, <1>2, <3>0
    <3>2. QED
      BY <1>2, <3>1 DEF Range
  <2>2. QED
    BY <2>1 DEF PendingCovers
<1>5. AfterIsTransfer
  BY <1>1 DEF FirstAfter, AfterIsTransfer
<1>6. WaitsOnce
  BY <1>1, <1>2 DEF WaitsOnce
<1>7. QED
  BY <1>3, <1>4, <1>5, <1>6 DEF SolverInv

LEMMA VisitInv ==
  ASSUME SolverInv, Visit
  PROVE  SolverInv'
<1> DEFINE id == Head(worklist)
           new == Joined(graph, after, id)
<1>1. /\ IsGraph(graph) /\ graph' = graph
      /\ worklist \in Seq(Blocks(graph)) /\ worklist # << >> /\ waking = << >>
      /\ worklist' = Tail(worklist)
      /\ DOMAIN before = Blocks(graph) /\ DOMAIN after = Blocks(graph)
  BY DEF SolverInv, Shape, Visit
<1>2. /\ id \in Blocks(graph) /\ worklist' \in Seq(Blocks(graph))
      /\ Range(worklist) = {id} \cup Range(worklist')
  BY <1>1, HeadTailRange
<1>3. Range(waking) = {}
  BY <1>1 DEF Range
<1>4. WaitsOnce'
  <2>1. /\ Len(worklist) \in Nat \ {0} /\ DOMAIN worklist = 1..Len(worklist)
        /\ DOMAIN worklist' = 1..(Len(worklist) - 1)
        /\ \A k \in 1..(Len(worklist) - 1) : worklist'[k] = worklist[k + 1]
    BY <1>1
  <2>2. QED
    BY <2>1 DEF SolverInv, WaitsOnce
<1>5. CASE new = before[id]
  <2>1. before' = before /\ after' = after /\ waking' = waking
    BY <1>5 DEF Visit
  <2>2. Shape' /\ AfterIsTransfer'
    BY <1>1, <1>2, <2>1 DEF SolverInv, Shape, AfterIsTransfer
  <2>3. PendingCovers'
    BY <1>1, <1>2, <1>3, <1>5, <2>1 DEF SolverInv, PendingCovers
  <2>4. QED
    BY <1>4, <2>2, <2>3 DEF SolverInv
<1>6. CASE new # before[id]
  <2>1. /\ before' = [before EXCEPT ![id] = new]
        /\ after' = [after EXCEPT ![id] = TransferFor(graph, id, new)]
        /\ waking' = graph.readers[id]
    BY <1>6 DEF Visit
  <2> HIDE DEF new
  <2>2. waking' \in Seq(Blocks(graph))
    BY <1>1, <1>2, <2>1, GraphFacts
  <2>3. Shape'
    BY <1>1, <1>2, <2>1, <2>2 DEF SolverInv, Shape
  <2>4. AfterIsTransfer'
    BY <1>1, <1>2, <2>1 DEF SolverInv, AfterIsTransfer
  <2>5. ASSUME NEW b \in Blocks(graph), b \notin Range(worklist') \cup Range(waking')
        PROVE  before'[b] = Joined(graph, after', b)
    <3>1. id \notin Range(graph.feeders[b])
      BY <1>1, <1>2, <2>1, <2>5, GraphFacts
    <3>2. \A a \in Range(graph.feeders[b]) : a \in Blocks(graph)
      BY <1>1, GraphFacts, ElementOfSeq DEF Range
    <3>3. \A a \in Range(graph.feeders[b]) : after'[a] = after[a]
      BY <1>1, <2>1, <3>1, <3>2
    <3>4. Joined(graph, after', b) = Joined(graph, after, b)
      BY <1>1, <3>3, JoinedSame
    <3>5. CASE b = id
      BY <1>1, <1>2, <2>1, <3>4, <3>5 DEF new
    <3>6. CASE b # id
      BY <1>1, <1>2, <1>3, <2>1, <2>5, <3>4, <3>6 DEF SolverInv, PendingCovers
    <3>7. QED
      BY <3>5, <3>6
  <2>6. PendingCovers'
    BY <1>1, <2>5 DEF PendingCovers
  <2>7. QED
    BY <1>4, <2>3, <2>4, <2>6 DEF SolverInv
<1>7. QED
  BY <1>5, <1>6

LEMMA WakeInv ==
  ASSUME SolverInv, Wake
  PROVE  SolverInv'
<1> DEFINE r == Head(waking)
<1>1. /\ IsGraph(graph) /\ graph' = graph /\ before' = before /\ after' = after
      /\ worklist \in Seq(Blocks(graph)) /\ waking \in Seq(Blocks(graph)) /\ waking # << >>
      /\ waking' = Tail(waking)
  BY DEF SolverInv, Shape, Wake
<1>2. /\ r \in Blocks(graph) /\ waking' \in Seq(Blocks(graph))
      /\ Range(waking) = {r} \cup Range(waking')
  BY <1>1, HeadTailRange
<1>3. /\ worklist' \in Seq(Blocks(graph))
      /\ Range(worklist') = Range(worklist) \cup {r}
      /\ WaitsOnce'
  <2>1. CASE r \in Range(worklist)
    <3>1. worklist' = worklist
      BY <2>1 DEF Wake
    <3>2. QED
      BY <1>1, <2>1, <3>1 DEF SolverInv, WaitsOnce
  <2>2. CASE r \notin Range(worklist)
    <3>1. worklist' = Append(worklist, r)
      BY <2>2 DEF Wake
    <3>2. worklist' \in Seq(Blocks(graph)) /\ Range(worklist') = Range(worklist) \cup {r}
      BY <1>1, <1>2, <3>1, AppendRange
    <3>3. /\ DOMAIN worklist = 1..Len(worklist) /\ Len(worklist) \in Nat
          /\ DOMAIN worklist' = 1..(Len(worklist) + 1)
          /\ worklist'[Len(worklist) + 1] = r
          /\ \A k \in 1..Len(worklist) : worklist'[k] = worklist[k] /\ worklist[k] # r
      BY <1>1, <1>2, <2>2, <3>1 DEF Range
    <3>4. WaitsOnce'
      BY <3>3 DEF SolverInv, WaitsOnce
    <3>5. QED
      BY <3>2, <3>4
  <2>3. QED
    BY <2>1, <2>2
<1>4. Shape' /\ AfterIsTransfer'
  BY <1>1, <1>2, <1>3 DEF SolverInv, Shape, AfterIsTransfer
<1>5. PendingCovers'
  BY <1>1, <1>2, <1>3 DEF SolverInv, PendingCovers
<1>6. QED
  BY <1>3, <1>4, <1>5 DEF SolverInv

LEMMA StutterInv ==
  ASSUME SolverInv, UNCHANGED vars
  PROVE  SolverInv'
BY DEF SolverInv, vars, Shape, PendingCovers, AfterIsTransfer, WaitsOnce

(* What the invariant says of the state solve returns from. *)
LEMMA ReturnedSolved ==
  ASSUME SolverInv
  PROVE  Solved
<1> SUFFICES ASSUME Done, NEW b \in Blocks(graph)
             PROVE  before[b] = Joined(graph, after, b)
  BY DEF Solved, SolverInv
<1>1. Range(worklist) = {} /\ Range(waking) = {}
  BY DEF Done, Range
<1>2. QED
  BY <1>1 DEF SolverInv, PendingCovers

-----------------------------------------------------------------------------
(* A lattice whose top, bottom, meet and transfer are of it.               *)
LatticeFits(g) ==
  /\ TopFor(g) \in FactsFor(g) /\ BotFor(g) \in FactsFor(g)
  /\ \A x, y \in FactsFor(g) : MeetFor(g, x, y) \in FactsFor(g)
  /\ \A b \in Blocks(g), x \in FactsFor(g) : TransferFor(g, b, x) \in FactsFor(g)

LEMMA MeetAllType ==
  ASSUME NEW g, LatticeFits(g), NEW fs \in Seq(FactsFor(g))
  PROVE  MeetAll(g, fs) \in FactsFor(g)
<1> DEFINE A == FactsFor(g)
           n == Len(fs)
           F == [m \in 1..n |-> [v \in A |-> MeetFor(g, v, fs[m])]]
           pick == [s \in SUBSET (1..n) |-> Max(s)]
           Fits(f) == f = [s \in SUBSET DOMAIN fs |->
                             IF s = {} THEN BotFor(g) ELSE MeetFor(g, f[s \ {Max(s)}], fs[Max(s)])]
           it == CHOOSE f : Fits(f)
<1>1. n \in Nat /\ DOMAIN fs = 1..n /\ \A m \in 1..n : fs[m] \in A
  OBVIOUS
<1>2. BotFor(g) \in A /\ \A x, y \in A : MeetFor(g, x, y) \in A
  BY DEF LatticeFits
<1>3. MeetAll(g, fs) = it[DOMAIN fs]
  BY DEF MeetAll, FoldLeft, MapThenFoldSet
<1>4. F \in [1..n -> [A -> A]] /\ \A m \in 1..n, v \in A : F[m][v] = MeetFor(g, v, fs[m])
  BY <1>1, <1>2
<1>5. \A s \in SUBSET (1..n) : pick[s] = Max(s) /\ (s # {} => pick[s] \in s)
  BY <1>1, GreatestIn
<1> HIDE DEF A, n, F, pick
<1>6. PICK f \in [SUBSET (1..n) -> A] : Takes(f, n, BotFor(g), F, pick)
  BY <1>1, <1>2, <1>4, <1>5, ChoiceFold
<1>7. \A s \in SUBSET (1..n) :
        f[s] = IF s = {} THEN BotFor(g) ELSE MeetFor(g, f[s \ {Max(s)}], fs[Max(s)])
  <2> TAKE s \in SUBSET (1..n)
  <2>1. s # {} => Max(s) \in 1..n /\ f[s \ {Max(s)}] \in A
    BY <1>5, <1>6
  <2>2. QED
    BY <1>4, <1>5, <1>6, <2>1 DEF Takes
<1>8. Fits(it)
  <2>1. Fits(f)
    BY <1>1, <1>6, <1>7
  <2> HIDE DEF Fits
  <2>2. QED
    BY <2>1
<1>9. \A s \in SUBSET (1..n) :
        it[s] = IF s = {} THEN BotFor(g) ELSE MeetFor(g, it[s \ {Max(s)}], fs[Max(s)])
  <2> HIDE DEF it
  <2>1. QED
    BY <1>1, <1>8
<1> HIDE DEF it, Fits
<1>10. it[1..n] \in A
  <2>1. it[{}] \in A
    BY <1>2, <1>9
  <2>2. ASSUME NEW s \in SUBSET (1..n), s # {}
        PROVE  pick[s] \in s /\ (it[s \ {pick[s]}] \in A => it[s] \in A)
    <3>1. pick[s] = Max(s) /\ pick[s] \in s /\ fs[Max(s)] \in A
      BY <1>1, <1>5, <2>2
    <3>2. it[s] = MeetFor(g, it[s \ {Max(s)}], fs[Max(s)])
      BY <1>9, <2>2
    <3>3. QED
      BY <1>2, <3>1, <3>2
  <2>3. QED
    BY <1>1, <2>1, <2>2, FoldStays
<1>11. QED
  BY <1>1, <1>3, <1>10 DEF A

LEMMA FirstTypes ==
  ASSUME IsGraph(graph), LatticeFits(graph), before = FirstBefore(graph), after = FirstAfter(graph),
         worklist = FirstWorklist(graph), waking = << >>
  PROVE  TypeOK
<1>1. Shape
  BY FirstInv DEF SolverInv
<1>2. Range(worklist) \cup Range(waking) \subseteq Blocks(graph)
  BY <1>1, ElementOfSeq DEF Shape, Range
<1>3. QED
  BY <1>2 DEF TypeOK, FirstBefore, FirstAfter, LatticeFits

(* The facts stay in the lattice. *)
LEMMA VisitTypes ==
  ASSUME Shape, LatticeFits(graph), TypeOK, Visit
  PROVE  TypeOK'
<1> DEFINE id == Head(worklist)
           new == Joined(graph, after, id)
<1>1. /\ IsGraph(graph) /\ graph' = graph /\ worklist \in Seq(Blocks(graph)) /\ worklist # << >>
      /\ worklist' = Tail(worklist) /\ waking = << >>
      /\ before \in [Blocks(graph) -> FactsFor(graph)] /\ after \in [Blocks(graph) -> FactsFor(graph)]
      /\ Range(waking) \subseteq Blocks(graph)
  BY DEF Shape, TypeOK, Visit
<1>2. id \in Blocks(graph) /\ Range(worklist') \subseteq Blocks(graph)
  <2>1. id \in Blocks(graph) /\ Tail(worklist) \in Seq(Blocks(graph))
    BY <1>1, HeadTailRange
  <2>2. QED
    BY <1>1, <2>1, ElementOfSeq DEF Range
<1>3. graph.feeders[id] \in Seq(Blocks(graph)) /\ Range(graph.readers[id]) \subseteq Blocks(graph)
  BY <1>1, <1>2, GraphFacts, ElementOfSeq DEF Range
<1>4. new \in FactsFor(graph)
  <2> DEFINE fs == [k \in DOMAIN graph.feeders[id] |-> after[graph.feeders[id][k]]]
             n == Len(graph.feeders[id])
  <2>1. fs \in Seq(FactsFor(graph))
    <3>1. n \in Nat /\ fs \in [1..n -> FactsFor(graph)]
      <4> HIDE DEF id
      <4>1. n \in Nat /\ DOMAIN graph.feeders[id] = 1..n
            /\ \A k \in 1..n : graph.feeders[id][k] \in Blocks(graph)
        BY <1>3
      <4>2. QED
        BY <1>1, <4>1
    <3> HIDE DEF fs, n
    <3>2. QED
      BY <3>1, FunctionIsSeq
  <2> HIDE DEF fs
  <2>2. MeetAll(graph, fs) \in FactsFor(graph) /\ BotFor(graph) \in FactsFor(graph)
    BY <2>1, MeetAllType DEF LatticeFits
  <2>3. QED
    BY <2>2 DEF Joined, fs
<1>5. CASE new = before[id]
  BY <1>1, <1>2, <1>5 DEF Visit, TypeOK
<1>6. CASE new # before[id]
  <2>1. /\ before' = [before EXCEPT ![id] = new]
        /\ after' = [after EXCEPT ![id] = TransferFor(graph, id, new)]
        /\ waking' = graph.readers[id]
    BY <1>6 DEF Visit
  <2> HIDE DEF new, id
  <2>2. TransferFor(graph, id, new) \in FactsFor(graph)
    BY <1>2, <1>4 DEF LatticeFits
  <2>3. QED
    BY <1>1, <1>2, <1>3, <1>4, <2>1, <2>2 DEF TypeOK
<1>7. QED
  BY <1>5, <1>6

LEMMA WakeTypes ==
  ASSUME SolverInv, TypeOK, Wake
  PROVE  TypeOK'
<1>1. Shape'
  BY WakeInv DEF SolverInv
<1>2. Range(worklist') \cup Range(waking') \subseteq Blocks(graph')
  BY <1>1, ElementOfSeq DEF Shape, Range
<1>3. QED
  BY <1>2 DEF Wake, TypeOK

LEMMA StutterTypes ==
  ASSUME TypeOK, UNCHANGED vars
  PROVE  TypeOK'
BY DEF TypeOK, vars

-----------------------------------------------------------------------------
(* The analyses.                                                           *)

(* A transfer goes through the instructions of its block one by one.       *)
Steps(run, g, b, x) ==
  LET n == Len(g.code[b])
  IN  /\ run \in [0..n -> SUBSET AllDefs(g)]
      /\ run[0] = x
      /\ \A m \in 1..n : run[m] = ReachStep(g, b, m, run[m - 1])
      /\ ReachTransfer(g, b, x) = run[n]

LEMMA DefsAtType ==
  ASSUME NEW g, NEW b \in DOMAIN g.code, NEW j \in Instructions(g, b)
  PROVE  DefsAt(g, b, j) \subseteq AllDefs(g)
BY DEF AllDefs

LEMMA ReachSteps ==
  ASSUME NEW g, NEW b \in DOMAIN g.code, g.code[b] \in Seq(Range(g.code[b])),
         NEW x \in SUBSET AllDefs(g)
  PROVE  \E run : Steps(run, g, b, x)
<1> DEFINE code == g.code[b]
           n == Len(code)
           A == SUBSET AllDefs(g)
           F == [m \in 1..n |-> [y \in A |-> ReachStep(g, b, m, y)]]
           order == [q \in DOMAIN code |-> q]
           Fits(f) == f = [s \in SUBSET DOMAIN order |->
                             IF s = {} THEN x
                             ELSE ReachStep(g, b, order[Max(s)], f[s \ {Max(s)}])]
           it == CHOOSE f : Fits(f)
<1>1. n \in Nat /\ DOMAIN code = 1..n
  OBVIOUS
<1>2. \A m \in 1..n, y \in A : ReachStep(g, b, m, y) \in A
  BY <1>1, DefsAtType DEF ReachStep, Instructions
<1>3. ReachTransfer(g, b, x) = it[DOMAIN order]
  BY DEF ReachTransfer, FoldLeftDomain, FoldLeft, MapThenFoldSet
<1>4. DOMAIN order = 1..n /\ \A m \in 1..n : order[m] = m
  BY <1>1
<1>5. \E f : Fits(f)
  <2>1. F \in [1..n -> [A -> A]]
    BY <1>2
  <2>2. PICK f : Folding(f, n, A, x, F)
    <3> HIDE DEF F, A, n
    <3>1. x \in A
      BY DEF A
    <3>2. QED
      BY <1>1, <2>1, <3>1, FoldExists
  <2>3. /\ f \in [SUBSET (1..n) -> A]
        /\ \A s \in SUBSET (1..n) : f[s] = IF s = {} THEN x ELSE F[Max(s)][f[s \ {Max(s)}]]
    BY <2>2 DEF Folding
  <2>4. \A s \in SUBSET (1..n) : s # {} => Max(s) \in 1..n
    BY <1>1, GreatestIn
  <2>5. \A s \in SUBSET (1..n) :
          f[s] = IF s = {} THEN x ELSE ReachStep(g, b, order[Max(s)], f[s \ {Max(s)}])
    <3> TAKE s \in SUBSET (1..n)
    <3>1. CASE s = {}
      BY <2>3, <3>1
    <3>2. CASE s # {}
      <4> DEFINE m == Max(s)
      <4>1. m \in 1..n /\ order[m] = m /\ f[s \ {m}] \in A
        BY <1>4, <2>3, <2>4, <3>2
      <4>2. f[s] = F[m][f[s \ {m}]]
        BY <2>3, <3>2
      <4> HIDE DEF m
      <4>3. F[m][f[s \ {m}]] = ReachStep(g, b, m, f[s \ {m}])
        BY <4>1
      <4>4. QED
        BY <3>2, <4>1, <4>2, <4>3 DEF m
    <3>3. QED
      BY <3>1, <3>2
  <2>6. Fits(f)
    <3> HIDE DEF order
    <3>1. QED
      BY <1>4, <2>3, <2>5
  <2>7. QED
    BY <2>6
<1>6. Fits(it)
  <2> HIDE DEF Fits
  <2>1. QED
    BY <1>5
<1>7. \A s \in SUBSET (1..n) :
        it[s] = IF s = {} THEN x ELSE ReachStep(g, b, order[Max(s)], it[s \ {Max(s)}])
  <2> HIDE DEF order, it
  <2>1. QED
    BY <1>4, <1>6
<1> HIDE DEF it, order, Fits
<1> DEFINE run == [m \in 0..n |-> it[1..m]]
<1>8. it[1..0] = x
  <2>1. 1..0 = {} /\ {} \in SUBSET (1..n)
    OBVIOUS
  <2>2. QED
    BY <1>7, <2>1
<1>9. \A m \in 1..n : it[1..m] = ReachStep(g, b, m, it[1..(m - 1)])
  <2> TAKE m \in 1..n
  <2>1. (1..m) \in SUBSET (1..n) /\ (1..m) # {} /\ Max(1..m) = m /\ (1..m) \ {Max(1..m)} = 1..(m - 1)
    <3> HIDE DEF n
    <3>1. QED
      BY <1>1, FirstPositions
  <2>2. QED
    BY <1>4, <1>7, <2>1
<1> HIDE DEF A, n
<1>10. \A m \in 0..n : it[1..m] \in A
  <2> DEFINE P == {m \in 0..n : it[1..m] \in A}
  <2>1. 0 \in P
    BY <1>1, <1>8 DEF A
  <2>2. ASSUME NEW m \in 0..(n - 1), m \in P PROVE m + 1 \in P
    <3>1. m + 1 \in 1..n /\ m + 1 \in 0..n /\ (m + 1) - 1 = m
      BY <1>1
    <3>2. QED
      BY <1>2, <1>9, <2>2, <3>1
  <2>3. 0..n \subseteq P
    <3> HIDE DEF P
    <3>1. QED
      BY <1>1, <2>1, <2>2, Counting
  <2>4. QED
    BY <2>3
<1>11. run \in [0..n -> A]
  BY <1>10
<1>12. run[0] = x /\ run[n] = it[DOMAIN order] /\ \A m \in 1..n : run[m] = ReachStep(g, b, m, run[m - 1])
  BY <1>1, <1>4, <1>8, <1>9
<1> HIDE DEF run
<1>13. Steps(run, g, b, x)
  BY <1>3, <1>11, <1>12 DEF Steps, A, n
<1>14. QED
  BY <1>13

(* A definition that reaches the start of a block reaches its end if the   *)
(* block does not define its variable; one made in a block does if no      *)
(* later instruction defines its variable.                                 *)
LEMMA ReachPasses ==
  ASSUME NEW g, NEW b \in DOMAIN g.code, g.code[b] \in Seq(Range(g.code[b])),
         NEW x \in SUBSET AllDefs(g)
  PROVE  /\ ReachTransfer(g, b, x) \in SUBSET AllDefs(g)
         /\ \A d \in x : ~ DefinesIn(g, b, d.variable) => d \in ReachTransfer(g, b, x)
         /\ \A q \in Instructions(g, b) : \A d \in DefsAt(g, b, q) :
              (\A j \in Instructions(g, b) : j > q => d.variable \notin Range(Defs(g.code[b][j])))
              => d \in ReachTransfer(g, b, x)
<1> DEFINE n == Len(g.code[b])
<1>1. n \in Nat /\ Instructions(g, b) = 1..n
  BY DEF Instructions
<1>2. PICK run : Steps(run, g, b, x)
  BY ReachSteps
<1>3. /\ run \in [0..n -> SUBSET AllDefs(g)] /\ run[0] = x /\ ReachTransfer(g, b, x) = run[n]
      /\ \A m \in 1..n : run[m] = ReachStep(g, b, m, run[m - 1])
  BY <1>2 DEF Steps
<1>4. \A m \in 1..n : \A d \in run[m - 1] :
        d.variable \notin Range(Defs(g.code[b][m])) => d \in run[m]
  <2> TAKE m \in 1..n
  <2> TAKE d \in run[m - 1]
  <2>1. ~ Mentions(DefsAt(g, b, m), d.variable) => d \in run[m]
    BY <1>3 DEF ReachStep
  <2>2. Mentions(DefsAt(g, b, m), d.variable) => d.variable \in Range(Defs(g.code[b][m]))
    BY DEF Mentions, DefsAt, Definition
  <2>3. QED
    BY <2>1, <2>2
<1> HIDE DEF n
<1>5. ASSUME NEW d, NEW q \in 0..n, d \in run[q],
             \A j \in 1..n : j > q => d.variable \notin Range(Defs(g.code[b][j]))
      PROVE  d \in run[n]
  <2> DEFINE P == {m \in 0..n : m >= q => d \in run[m]}
  <2>1. 0 \in P
    BY <1>1, <1>5
  <2>2. ASSUME NEW m \in 0..(n - 1), m \in P PROVE m + 1 \in P
    <3>1. m + 1 \in 1..n /\ m + 1 \in 0..n /\ (m + 1) - 1 = m
      BY <1>1
    <3>2. CASE m >= q
      <4>1. d \in run[(m + 1) - 1] /\ m + 1 > q
        BY <1>1, <2>2, <3>1, <3>2
      <4>2. d \in run[m + 1]
        BY <1>4, <1>5, <3>1, <4>1
      <4>3. QED
        BY <3>1, <4>2
    <3>3. CASE ~ (m >= q)
      <4>1. m + 1 >= q => m + 1 = q
        BY <1>1, <3>3
      <4>2. QED
        BY <1>5, <3>1, <4>1
    <3>4. QED
      BY <3>2, <3>3
  <2>3. 0..n \subseteq P
    <3> HIDE DEF P
    <3>1. QED
      BY <1>1, <2>1, <2>2, Counting
  <2>4. n \in 0..n /\ n >= q
    BY <1>1
  <2>5. QED
    BY <2>3, <2>4
<1>6. ReachTransfer(g, b, x) \in SUBSET AllDefs(g)
  BY <1>1, <1>3
<1>7. \A d \in x : ~ DefinesIn(g, b, d.variable) => d \in ReachTransfer(g, b, x)
  <2> TAKE d \in x
  <2> HAVE ~ DefinesIn(g, b, d.variable)
  <2>1. 0 \in 0..n /\ \A j \in 1..n : d.variable \notin Range(Defs(g.code[b][j]))
    BY <1>1 DEF DefinesIn
  <2>2. QED
    BY <1>3, <1>5, <2>1
<1>8. ASSUME NEW q \in Instructions(g, b), NEW d \in DefsAt(g, b, q),
             \A j \in Instructions(g, b) : j > q => d.variable \notin Range(Defs(g.code[b][j]))
      PROVE  d \in ReachTransfer(g, b, x)
  <2>1. q \in 1..n /\ q \in 0..n
    BY <1>1
  <2>2. d \in run[q]
    BY <1>3, <2>1 DEF ReachStep
  <2>3. QED
    BY <1>1, <1>3, <1>5, <1>8, <2>1, <2>2
<1>9. QED
  BY <1>6, <1>7, <1>8

(* What is joined into a block is everything its feeders give.             *)
LEMMA ReachJoined ==
  ASSUME NEW g, g.analysis = "reaching", NEW b \in Blocks(g), g.feeders[b] \in Seq(Blocks(g)),
         NEW facts
  PROVE  Joined(g, facts, b) = IF b = g.boundary THEN {}
                               ELSE UNION {facts[c] : c \in Range(g.feeders[b])}
<1> DEFINE fs == [q \in DOMAIN g.feeders[b] |-> facts[g.feeders[b][q]]]
           n == Len(g.feeders[b])
           Fits(f) == f = [s \in SUBSET DOMAIN fs |->
                             IF s = {} THEN BotFor(g)
                             ELSE MeetFor(g, f[s \ {Max(s)}], fs[Max(s)])]
           it == CHOOSE f : Fits(f)
           sum == [s \in SUBSET DOMAIN fs |-> UNION {fs[k] : k \in s}]
<1>1. n \in Nat /\ DOMAIN fs = 1..n /\ DOMAIN g.feeders[b] = 1..n
  OBVIOUS
<1>2. MeetAll(g, fs) = it[DOMAIN fs]
  BY DEF MeetAll, FoldLeft, MapThenFoldSet
<1>3. BotFor(g) = {} /\ \A u, v : MeetFor(g, u, v) = u \cup v
  <2>1. g.analysis # "constants" /\ g.analysis \in {"liveness", "reaching"}
    OBVIOUS
  <2>2. QED
    BY <2>1 DEF BotFor, MeetFor
<1>4. Fits(sum)
  <2>1. ASSUME NEW s \in SUBSET DOMAIN fs
        PROVE  sum[s] = IF s = {} THEN BotFor(g) ELSE MeetFor(g, sum[s \ {Max(s)}], fs[Max(s)])
    <3>1. CASE s = {}
      BY <1>3, <3>1
    <3>2. CASE s # {}
      <4> DEFINE m == Max(s)
      <4>1. m \in s
        <5>1. s \in SUBSET (1..n)
          BY <1>1
        <5> HIDE DEF n
        <5>2. QED
          BY <1>1, <3>2, <5>1, GreatestIn
      <4> HIDE DEF m
      <4>2. s \ {m} \in SUBSET DOMAIN fs /\ s = (s \ {m}) \cup {m}
        BY <4>1
      <4>3. UNION {fs[k] : k \in s} = (UNION {fs[k] : k \in s \ {m}}) \cup fs[m]
        <5> HIDE DEF fs
        <5>1. QED
          BY <4>1
      <4>4. sum[s] = sum[s \ {m}] \cup fs[m]
        <5>1. sum[s] = UNION {fs[k] : k \in s} /\ sum[s \ {m}] = UNION {fs[k] : k \in s \ {m}}
          BY <4>2
        <5> HIDE DEF sum, fs
        <5>2. QED
          BY <4>3, <5>1
      <4> HIDE DEF sum, fs
      <4>5. QED
        BY <1>3, <3>2, <4>4 DEF m
    <3>3. QED
      BY <3>1, <3>2
  <2> HIDE DEF fs
  <2>2. DOMAIN sum = SUBSET DOMAIN fs /\ sum = [s \in SUBSET DOMAIN fs |-> sum[s]]
    OBVIOUS
  <2> HIDE DEF sum
  <2>3. QED
    BY <2>1, <2>2
<1>5. Fits(it)
  <2> HIDE DEF Fits, sum
  <2>1. QED
    BY <1>4
<1> HIDE DEF sum, fs
<1>6. \A s \in SUBSET (1..n) : it[s] = IF s = {} THEN {} ELSE it[s \ {Max(s)}] \cup fs[Max(s)]
  <2>1. \A s \in SUBSET DOMAIN fs :
          it[s] = IF s = {} THEN BotFor(g) ELSE MeetFor(g, it[s \ {Max(s)}], fs[Max(s)])
    <3> HIDE DEF it
    <3>1. QED
      BY <1>5
  <2> HIDE DEF it, Fits, n
  <2>2. TAKE s \in SUBSET (1..n)
  <2>3. s \in SUBSET DOMAIN fs
    BY <1>1
  <2>4. it[s] = IF s = {} THEN BotFor(g) ELSE MeetFor(g, it[s \ {Max(s)}], fs[Max(s)])
    BY <2>1, <2>3
  <2>5. QED
    BY <1>3, <2>4
<1> HIDE DEF it, Fits, n
<1>7. it[1..n] = UNION {fs[k] : k \in 1..n}
  <2> DEFINE P == {m \in 0..n : it[1..m] = UNION {fs[k] : k \in 1..m}}
  <2>1. 0 \in P
    <3>1. 1..0 = {} /\ {} \in SUBSET (1..n) /\ 0 \in 0..n
      BY <1>1
    <3>2. it[1..0] = {}
      BY <1>6, <3>1
    <3>3. UNION {fs[k] : k \in 1..0} = {}
      BY <3>1
    <3>4. QED
      BY <3>1, <3>2, <3>3
  <2>2. ASSUME NEW m \in 0..(n - 1), m \in P PROVE m + 1 \in P
    <3> DEFINE l == m + 1
    <3>1. l \in 1..n /\ l \in 0..n /\ l - 1 = m /\ 1..l = (1..m) \cup {l}
      BY <1>1
    <3>2. /\ (1..l) \in SUBSET (1..n) /\ (1..l) # {} /\ Max(1..l) = l
          /\ (1..l) \ {Max(1..l)} = 1..(l - 1)
      <4> HIDE DEF l
      <4>1. QED
        BY <1>1, <3>1, FirstPositions
    <3>3. it[1..m] = UNION {fs[k] : k \in 1..m}
      BY <2>2
    <3> HIDE DEF l
    <3>4. it[1..l] = it[1..m] \cup fs[l]
      BY <1>6, <3>1, <3>2
    <3>5. UNION {fs[k] : k \in 1..l} = (UNION {fs[k] : k \in 1..m}) \cup fs[l]
      BY <3>1
    <3>6. l \in P
      BY <3>1, <3>3, <3>4, <3>5
    <3>7. QED
      BY <3>6 DEF l
  <2>3. 0..n \subseteq P
    <3> HIDE DEF P
    <3>1. QED
      BY <1>1, <2>1, <2>2, Counting
  <2>4. n \in 0..n
    BY <1>1
  <2>5. QED
    BY <2>3, <2>4
<1>8. UNION {fs[k] : k \in 1..n} = UNION {facts[c] : c \in Range(g.feeders[b])}
  BY <1>1 DEF fs, Range
<1>9. QED
  <2>1. Joined(g, facts, b) = IF b = g.boundary THEN BotFor(g) ELSE MeetAll(g, fs)
    BY DEF Joined, fs
  <2>2. QED
    BY <1>1, <1>2, <1>3, <1>7, <1>8, <2>1

-----------------------------------------------------------------------------
(* The transfers of the other analyses: each goes through the instructions *)
(* of its block, and none of them leaves the facts of its lattice.         *)

(* Backwards, with the variables read and not those defined. *)
LEMMA LiveType ==
  ASSUME NEW g, NEW b \in DOMAIN g.code, g.code[b] \in Seq(Range(g.code[b])),
         NEW x \in SUBSET Variables(g)
  PROVE  LiveTransfer(g, b, x) \in SUBSET Variables(g)
<1> DEFINE code == g.code[b]
           n == Len(code)
           A == SUBSET Variables(g)
           step(m, v) == (v \ Range(Defs(code[m]))) \cup Range(Uses(code[m]))
           F == [m \in 1..n |-> [v \in A |-> step(m, v)]]
           pick == [s \in SUBSET (1..n) |-> Min(s)]
           Fits(f) == f = [s \in SUBSET DOMAIN code |->
                             IF s = {} THEN x ELSE step(Min(s), f[s \ {Min(s)}])]
           it == CHOOSE f : Fits(f)
<1>1. n \in Nat /\ DOMAIN code = 1..n /\ x \in A
  OBVIOUS
<1>2. \A m \in 1..n, v \in A : step(m, v) \in A
  BY <1>1 DEF Variables, Instructions
<1>3. LiveTransfer(g, b, x) = it[DOMAIN code]
  BY DEF LiveTransfer, FoldRight, MapThenFoldSet
<1> HIDE DEF n, code, A, step
<1>4. F \in [1..n -> [A -> A]] /\ \A m \in 1..n, v \in A : F[m][v] = step(m, v)
  BY <1>2
<1>5. \A s \in SUBSET (1..n) : pick[s] = Min(s) /\ (s # {} => pick[s] \in s)
  BY <1>1, LeastIn
<1> HIDE DEF F, pick
<1>6. PICK f \in [SUBSET (1..n) -> A] : Takes(f, n, x, F, pick)
  BY <1>1, <1>4, <1>5, ChoiceFold
<1>7. \A s \in SUBSET (1..n) : f[s] = IF s = {} THEN x ELSE step(Min(s), f[s \ {Min(s)}])
  <2> TAKE s \in SUBSET (1..n)
  <2> DEFINE m == Min(s)
             t == s \ {m}
  <2>1. f[s] = IF s = {} THEN x ELSE F[m][f[t]]
    BY <1>5, <1>6 DEF Takes
  <2>2. s # {} => m \in 1..n /\ f[t] \in A
    BY <1>5, <1>6
  <2> HIDE DEF m, t
  <2>3. s # {} => F[m][f[t]] = step(m, f[t])
    BY <1>4, <2>2
  <2>4. f[s] = IF s = {} THEN x ELSE step(m, f[t])
    BY <2>1, <2>3
  <2>5. QED
    BY <2>4 DEF m, t
<1>8. Fits(it)
  <2>1. Fits(f)
    BY <1>1, <1>6, <1>7
  <2> HIDE DEF Fits
  <2>2. QED
    BY <2>1
<1>9. \A s \in SUBSET (1..n) : it[s] = IF s = {} THEN x ELSE step(Min(s), it[s \ {Min(s)}])
  <2> HIDE DEF it
  <2>1. QED
    BY <1>1, <1>8
<1> HIDE DEF it, Fits
<1>10. ASSUME NEW s \in SUBSET (1..n), s # {}
       PROVE  pick[s] \in s /\ (it[s \ {pick[s]}] \in A => it[s] \in A)
  <2>1. pick[s] = Min(s) /\ pick[s] \in s /\ pick[s] \in 1..n
    BY <1>5, <1>10
  <2>2. it[s] = step(Min(s), it[s \ {Min(s)}])
    BY <1>9, <1>10
  <2>3. QED
    BY <1>2, <2>1, <2>2
<1>11. it[1..n] \in A
  <2>1. it[{}] \in A
    BY <1>1, <1>9
  <2>2. QED
    BY <1>1, <1>10, <2>1, FoldStays
<1>12. QED
  BY <1>1, <1>3, <1>11 DEF A

(* Forwards, with the operations computed and not those on what is defined. *)
LEMMA AvailType ==
  ASSUME NEW g, NEW b \in DOMAIN g.code, g.code[b] \in Seq(Range(g.code[b])),
         NEW x \in SUBSET AllKeys(g)
  PROVE  AvailTransfer(g, b, x) \in SUBSET AllKeys(g)
<1> DEFINE code == g.code[b]
           n == Len(code)
           A == SUBSET AllKeys(g)
           step(m, v) == {k \in v : {k.lhs_name, k.rhs_name} \cap Range(Defs(code[m])) = {}} \cup Keys(code[m])
           F == [m \in 1..n |-> [v \in A |-> step(m, v)]]
           pick == [s \in SUBSET (1..n) |-> Max(s)]
           Fits(f) == f = [s \in SUBSET DOMAIN code |->
                             IF s = {} THEN x ELSE step(Max(s), f[s \ {Max(s)}])]
           it == CHOOSE f : Fits(f)
<1>1. n \in Nat /\ DOMAIN code = 1..n /\ x \in A
  OBVIOUS
<1>2. \A m \in 1..n, v \in A : step(m, v) \in A
  BY <1>1 DEF AllKeys, Instructions
<1>3. AvailTransfer(g, b, x) = it[DOMAIN code]
  BY DEF AvailTransfer, FoldLeft, MapThenFoldSet
<1> HIDE DEF n, code, A, step
<1>4. F \in [1..n -> [A -> A]] /\ \A m \in 1..n, v \in A : F[m][v] = step(m, v)
  BY <1>2
<1>5. \A s \in SUBSET (1..n) : pick[s] = Max(s) /\ (s # {} => pick[s] \in s)
  BY <1>1, GreatestIn
<1> HIDE DEF F, pick
<1>6. PICK f \in [SUBSET (1..n) -> A] : Takes(f, n, x, F, pick)
  BY <1>1, <1>4, <1>5, ChoiceFold
<1>7. \A s \in SUBSET (1..n) : f[s] = IF s = {} THEN x ELSE step(Max(s), f[s \ {Max(s)}])
  <2> TAKE s \in SUBSET (1..n)
  <2> DEFINE m == Max(s)
             t == s \ {m}
  <2>1. f[s] = IF s = {} THEN x ELSE F[m][f[t]]
    BY <1>5, <1>6 DEF Takes
  <2>2. s # {} => m \in 1..n /\ f[t] \in A
    BY <1>5, <1>6
  <2> HIDE DEF m, t
  <2>3. s # {} => F[m][f[t]] = step(m, f[t])
    BY <1>4, <2>2
  <2>4. f[s] = IF s = {} THEN x ELSE step(m, f[t])
    BY <2>1, <2>3
  <2>5. QED
    BY <2>4 DEF m, t
<1>8. Fits(it)
  <2>1. Fits(f)
    BY <1>1, <1>6, <1>7
  <2> HIDE DEF Fits
  <2>2. QED
    BY <2>1
<1>9. \A s \in SUBSET (1..n) : it[s] = IF s = {} THEN x ELSE step(Max(s), it[s \ {Max(s)}])
  <2> HIDE DEF it
  <2>1. QED
    BY <1>1, <1>8
<1> HIDE DEF it, Fits
<1>10. ASSUME NEW s \in SUBSET (1..n), s # {}
       PROVE  pick[s] \in s /\ (it[s \ {pick[s]}] \in A => it[s] \in A)
  <2>1. pick[s] = Max(s) /\ pick[s] \in s /\ pick[s] \in 1..n
    BY <1>5, <1>10
  <2>2. it[s] = step(Max(s), it[s \ {Max(s)}])
    BY <1>9, <1>10
  <2>3. QED
    BY <1>2, <2>1, <2>2
<1>11. it[1..n] \in A
  <2>1. it[{}] \in A
    BY <1>1, <1>9
  <2>2. QED
    BY <1>1, <1>10, <2>1, FoldStays
<1>12. QED
  BY <1>1, <1>3, <1>11 DEF A

(* A fact of constant propagation maps some of the variables to values.    *)
Values == {TopValue, BottomValue} \cup {Constant(n) : n \in Literals}
Maps(g) == UNION {[S -> Values] : S \in SUBSET Variables(g)}

LEMMA IsMap ==
  ASSUME NEW g, NEW x
  PROVE  x \in Maps(g) <=> x \in [DOMAIN x -> Values] /\ DOMAIN x \subseteq Variables(g)
<1>1. ASSUME x \in Maps(g) PROVE x \in [DOMAIN x -> Values] /\ DOMAIN x \subseteq Variables(g)
  <2>1. PICK S \in SUBSET Variables(g) : x \in [S -> Values]
    BY <1>1 DEF Maps
  <2>2. QED
    BY <2>1
<1>2. QED
  BY <1>1 DEF Maps

LEMMA PutMap ==
  ASSUME NEW g, NEW x \in Maps(g), NEW y \in Variables(g), NEW v \in Values
  PROVE  Put(x, y, v) \in Maps(g)
<1>1. x \in [DOMAIN x -> Values] /\ DOMAIN x \subseteq Variables(g)
  BY IsMap
<1> DEFINE S == DOMAIN x \cup {y}
<1>2. Put(x, y, v) \in [S -> Values] /\ S \in SUBSET Variables(g)
  BY <1>1 DEF Put
<1>3. QED
  BY <1>2 DEF Maps

LEMMA ConstStepMap ==
  ASSUME NEW g, NEW b \in DOMAIN g.code, NEW j \in Instructions(g, b), WalksFit(g.code[b][j]),
         NEW x \in Maps(g)
  PROVE  ConstStep(x, g.code[b][j]) \in Maps(g)
<1> DEFINE e == g.code[b][j]
<1>1. Range(Uses(e)) \subseteq Variables(g) /\ Range(Defs(e)) \subseteq Variables(g)
  BY DEF Variables
<1>2. BottomValue \in Values /\ \A n \in Literals : Constant(n) \in Values
  BY DEF Values
<1>3. WalksFit(e)
  OBVIOUS
<1>4. \A y \in DOMAIN x : x[y] \in Values
  BY IsMap
<1> HIDE DEF e
<1>5. CASE e.node = "let"
  <2> DEFINE v == CASE e.value.node = "int" -> Constant(e.value.ival)
                    [] /\ IsIdent(e.value) /\ e.value.name \in DOMAIN x
                       /\ x[e.value.name].tag = "constant" -> x[e.value.name]
                    [] OTHER -> BottomValue
  <2>1. v \in Values
    BY <1>2, <1>3, <1>4, <1>5 DEF WalksFit, IsIdent
  <2>2. e.name \in Variables(g)
    BY <1>1, <1>3, <1>5 DEF WalksFit
  <2>3. ConstStep(x, e) = Put(x, e.name, v)
    BY <1>5 DEF ConstStep, Assigns
  <2> HIDE DEF v
  <2>4. QED
    BY <2>1, <2>2, <2>3, PutMap DEF e
<1>6. CASE e.node # "let" /\ Assigns(e)
  <2> DEFINE v == IF e.rhs.node = "int" THEN Constant(e.rhs.ival) ELSE BottomValue
  <2>1. v \in Values
    BY <1>2, <1>3, <1>6 DEF WalksFit
  <2>2. e.lhs.name \in Variables(g)
    BY <1>1, <1>3, <1>6 DEF WalksFit
  <2>3. ConstStep(x, e) = Put(x, e.lhs.name, v)
    BY <1>6 DEF ConstStep
  <2> HIDE DEF v
  <2>4. QED
    BY <2>1, <2>2, <2>3, PutMap DEF e
<1>7. CASE e.node # "let" /\ ~ Assigns(e)
  BY <1>7 DEF ConstStep, e
<1>8. QED
  BY <1>5, <1>6, <1>7

(* Forwards, with the value each statement gives. *)
LEMMA ConstType ==
  ASSUME NEW g, NEW b \in DOMAIN g.code, g.code[b] \in Seq(Range(g.code[b])),
         \A e \in Range(g.code[b]) : WalksFit(e),
         NEW x \in Maps(g)
  PROVE  ConstTransfer(g, b, x) \in Maps(g)
<1> DEFINE code == g.code[b]
           n == Len(code)
           A == Maps(g)
           step(m, v) == ConstStep(v, code[m])
           F == [m \in 1..n |-> [v \in A |-> step(m, v)]]
           pick == [s \in SUBSET (1..n) |-> Max(s)]
           Fits(f) == f = [s \in SUBSET DOMAIN code |->
                             IF s = {} THEN x ELSE step(Max(s), f[s \ {Max(s)}])]
           it == CHOOSE f : Fits(f)
<1>1. n \in Nat /\ DOMAIN code = 1..n /\ x \in A
  OBVIOUS
<1>2. \A m \in 1..n, v \in A : step(m, v) \in A
  BY <1>1, ConstStepMap DEF Range, Instructions
<1>3. ConstTransfer(g, b, x) = it[DOMAIN code]
  BY DEF ConstTransfer, FoldLeft, MapThenFoldSet
<1> HIDE DEF n, code, A, step
<1>4. F \in [1..n -> [A -> A]] /\ \A m \in 1..n, v \in A : F[m][v] = step(m, v)
  BY <1>2
<1>5. \A s \in SUBSET (1..n) : pick[s] = Max(s) /\ (s # {} => pick[s] \in s)
  BY <1>1, GreatestIn
<1> HIDE DEF F, pick
<1>6. PICK f \in [SUBSET (1..n) -> A] : Takes(f, n, x, F, pick)
  BY <1>1, <1>4, <1>5, ChoiceFold
<1>7. \A s \in SUBSET (1..n) : f[s] = IF s = {} THEN x ELSE step(Max(s), f[s \ {Max(s)}])
  <2> TAKE s \in SUBSET (1..n)
  <2> DEFINE m == Max(s)
             t == s \ {m}
  <2>1. f[s] = IF s = {} THEN x ELSE F[m][f[t]]
    BY <1>5, <1>6 DEF Takes
  <2>2. s # {} => m \in 1..n /\ f[t] \in A
    BY <1>5, <1>6
  <2> HIDE DEF m, t
  <2>3. s # {} => F[m][f[t]] = step(m, f[t])
    BY <1>4, <2>2
  <2>4. f[s] = IF s = {} THEN x ELSE step(m, f[t])
    BY <2>1, <2>3
  <2>5. QED
    BY <2>4 DEF m, t
<1>8. Fits(it)
  <2>1. Fits(f)
    BY <1>1, <1>6, <1>7
  <2> HIDE DEF Fits
  <2>2. QED
    BY <2>1
<1>9. \A s \in SUBSET (1..n) : it[s] = IF s = {} THEN x ELSE step(Max(s), it[s \ {Max(s)}])
  <2> HIDE DEF it
  <2>1. QED
    BY <1>1, <1>8
<1> HIDE DEF it, Fits
<1>10. ASSUME NEW s \in SUBSET (1..n), s # {}
       PROVE  pick[s] \in s /\ (it[s \ {pick[s]}] \in A => it[s] \in A)
  <2>1. pick[s] = Max(s) /\ pick[s] \in s /\ pick[s] \in 1..n
    BY <1>5, <1>10
  <2>2. it[s] = step(Max(s), it[s \ {Max(s)}])
    BY <1>9, <1>10
  <2>3. QED
    BY <1>2, <2>1, <2>2
<1>11. it[1..n] \in A
  <2>1. it[{}] \in A
    BY <1>1, <1>9
  <2>2. QED
    BY <1>1, <1>10, <2>1, FoldStays
<1>12. QED
  BY <1>1, <1>3, <1>11 DEF A

LEMMA MeetMapsMap ==
  ASSUME NEW g, NEW x \in Maps(g), NEW y \in Maps(g)
  PROVE  MeetMaps(x, y) \in Maps(g)
<1>1. /\ x \in [DOMAIN x -> Values] /\ DOMAIN x \subseteq Variables(g)
      /\ y \in [DOMAIN y -> Values] /\ DOMAIN y \subseteq Variables(g)
  BY IsMap
<1>2. \A v, w \in Values : MeetValue(v, w) \in Values
  BY DEF MeetValue, Values
<1> DEFINE S == DOMAIN x \cup DOMAIN y
<1>3. MeetMaps(x, y) \in [S -> Values] /\ S \in SUBSET Variables(g)
  BY <1>1, <1>2 DEF MeetMaps
<1>4. QED
  BY <1>3 DEF Maps

LEMMA FirstMaps ==
  ASSUME NEW g
  PROVE  NoValues \in Maps(g) /\ AllTop(g) \in Maps(g)
<1>1. NoValues = [x \in {} |-> TopValue]
  BY DEF NoValues
<1>2. NoValues \in [{} -> Values] /\ {} \in SUBSET Variables(g)
  BY <1>1
<1>3. AllTop(g) \in [Variables(g) -> Values]
  BY DEF AllTop, Values
<1>4. QED
  BY <1>2, <1>3 DEF Maps

(* The four lattices are closed under what the solver does with them.      *)
LEMMA LatticeOf ==
  ASSUME NEW g, IsFor(g), IsAnalysed(g)
  PROVE  /\ TopFor(g) \in FactsFor(g) /\ BotFor(g) \in FactsFor(g)
         /\ \A x, y \in FactsFor(g) : MeetFor(g, x, y) \in FactsFor(g)
         /\ \A b \in Blocks(g), x \in FactsFor(g) : TransferFor(g, b, x) \in FactsFor(g)
<1> DEFINE a == g.analysis
<1>1. /\ DOMAIN g.code = Blocks(g) /\ \A b \in Blocks(g) : g.code[b] \in Seq(Range(g.code[b]))
      /\ \A b \in Blocks(g) : \A e \in Range(g.code[b]) : WalksFit(e)
  BY DEF IsFor, IsAnalysed
<1>2. CASE a = "liveness"
  <2>1. /\ FactsFor(g) = SUBSET Variables(g) /\ TopFor(g) = {} /\ BotFor(g) = {}
        /\ \A x, y : MeetFor(g, x, y) = x \cup y
        /\ \A b, x : TransferFor(g, b, x) = LiveTransfer(g, b, x)
    BY <1>2 DEF FactsFor, TopFor, BotFor, MeetFor, TransferFor
  <2>2. QED
    BY <1>1, <2>1, LiveType
<1>3. CASE a = "reaching"
  <2>1. /\ FactsFor(g) = SUBSET AllDefs(g) /\ TopFor(g) = AllDefs(g) /\ BotFor(g) = {}
        /\ \A x, y : MeetFor(g, x, y) = x \cup y
        /\ \A b, x : TransferFor(g, b, x) = ReachTransfer(g, b, x)
    BY <1>3 DEF FactsFor, TopFor, BotFor, MeetFor, TransferFor
  <2>2. QED
    BY <1>1, <2>1, ReachPasses
<1>4. CASE a = "available"
  <2>1. /\ FactsFor(g) = SUBSET AllKeys(g) /\ TopFor(g) = AllKeys(g) /\ BotFor(g) = {}
        /\ \A x, y : MeetFor(g, x, y) = x \cap y
        /\ \A b, x : TransferFor(g, b, x) = AvailTransfer(g, b, x)
    BY <1>4 DEF FactsFor, TopFor, BotFor, MeetFor, TransferFor
  <2>2. QED
    BY <1>1, <2>1, AvailType
<1>5. CASE a = "constants"
  <2>1. /\ FactsFor(g) = Maps(g) /\ TopFor(g) = AllTop(g) /\ BotFor(g) = NoValues
        /\ \A x, y : MeetFor(g, x, y) = MeetMaps(x, y)
        /\ \A b, x : TransferFor(g, b, x) = ConstTransfer(g, b, x)
    BY <1>5 DEF FactsFor, TopFor, BotFor, MeetFor, TransferFor, Maps, Values
  <2>2. QED
    BY <1>1, <2>1, ConstType, MeetMapsMap, FirstMaps
<1>6. QED
  BY <1>2, <1>3, <1>4, <1>5 DEF IsAnalysed, AnalysisNames

-----------------------------------------------------------------------------
(* The invariant of a solve for reaching definitions.  The entry is never  *)
(* given anything, so its after side stays what it started as.             *)
Reaching ==
  graph.analysis = "reaching" =>
    /\ IsFor(graph)
    /\ before[graph.entry] = {} /\ after[graph.entry] = AllDefs(graph)
    /\ \A b \in Blocks(graph) : before[b] \subseteq AllDefs(graph) /\ after[b] \subseteq AllDefs(graph)

LEMMA ForReaching ==
  ASSUME NEW g, g.analysis = "reaching", IsFor(g)
  PROVE  /\ g.boundary = g.entry /\ g.feeders = g.pred /\ g.readers = g.succ
         /\ DOMAIN g.code = Blocks(g)
         /\ \A b \in Blocks(g) : g.code[b] \in Seq(Range(g.code[b]))
         /\ BotFor(g) = {} /\ TopFor(g) = AllDefs(g)
         /\ \A b, x : TransferFor(g, b, x) = ReachTransfer(g, b, x)
<1>1. g.analysis # "liveness" /\ g.analysis # "constants"
  OBVIOUS
<1>2. g.boundary = g.entry /\ g.feeders = g.pred /\ g.readers = g.succ
  <2>1. g = For(g.analysis, g)
    BY DEF IsFor
  <2>2. For(g.analysis, g).boundary = g.entry /\ For(g.analysis, g).feeders = g.pred
        /\ For(g.analysis, g).readers = g.succ
    BY <1>1 DEF For
  <2>3. QED
    BY <2>1, <2>2
<1>3. BotFor(g) = {} /\ TopFor(g) = AllDefs(g) /\ \A b, x : TransferFor(g, b, x) = ReachTransfer(g, b, x)
  BY <1>1 DEF BotFor, TopFor, TransferFor
<1>4. QED
  BY <1>2, <1>3 DEF IsFor

LEMMA FirstReaching ==
  ASSUME IsGraph(graph), IsFor(graph),
         before = FirstBefore(graph), after = FirstAfter(graph)
  PROVE  Reaching
<1> SUFFICES ASSUME graph.analysis = "reaching" PROVE Reaching
  BY DEF Reaching
<1>1. graph.boundary = graph.entry /\ BotFor(graph) = {} /\ TopFor(graph) = AllDefs(graph)
  BY ForReaching
<1>2. graph.entry \in Blocks(graph)
  BY <1>1 DEF IsGraph
<1>3. QED
  BY <1>1, <1>2 DEF FirstBefore, FirstAfter, Reaching

LEMMA VisitReaching ==
  ASSUME Shape, Reaching, Visit
  PROVE  Reaching'
<1> SUFFICES ASSUME graph.analysis = "reaching" PROVE Reaching'
  BY DEF Visit, Reaching
<1> DEFINE id == Head(worklist)
           new == Joined(graph, after, id)
           Ds == AllDefs(graph)
<1>1. /\ IsGraph(graph) /\ IsFor(graph) /\ graph' = graph /\ id \in Blocks(graph)
      /\ DOMAIN before = Blocks(graph) /\ DOMAIN after = Blocks(graph)
      /\ before[graph.entry] = {} /\ after[graph.entry] = Ds
      /\ \A b \in Blocks(graph) : before[b] \subseteq Ds /\ after[b] \subseteq Ds
  BY DEF Shape, Reaching, Visit
<1>2. /\ graph.boundary = graph.entry /\ DOMAIN graph.code = Blocks(graph)
      /\ \A b \in Blocks(graph) : graph.code[b] \in Seq(Range(graph.code[b]))
      /\ \A b, x : TransferFor(graph, b, x) = ReachTransfer(graph, b, x)
  BY <1>1, ForReaching
<1>3. graph.feeders[id] \in Seq(Blocks(graph)) /\ graph.entry \in Blocks(graph)
  BY <1>1, <1>2 DEF IsGraph
<1>4. new = IF id = graph.entry THEN {} ELSE UNION {after[c] : c \in Range(graph.feeders[id])}
  BY <1>1, <1>2, <1>3, ReachJoined
<1> HIDE DEF new
<1>5. new \in SUBSET Ds
  <2>1. \A c \in Range(graph.feeders[id]) : c \in Blocks(graph)
    BY <1>3 DEF Range
  <2>2. QED
    BY <1>1, <1>4, <2>1
<1> HIDE DEF id, Ds
<1>6. CASE new = before[id]
  <2>1. before' = before /\ after' = after
    BY <1>6 DEF Visit, id, new
  <2>2. QED
    BY <1>1, <2>1 DEF Reaching, Ds
<1>7. CASE new # before[id]
  <2>1. /\ before' = [before EXCEPT ![id] = new]
        /\ after' = [after EXCEPT ![id] = ReachTransfer(graph, id, new)]
    BY <1>2, <1>7 DEF Visit, id, new
  <2>2. id # graph.entry
    BY <1>1, <1>4, <1>7
  <2>3. ReachTransfer(graph, id, new) \subseteq Ds
    BY <1>1, <1>2, <1>5, ReachPasses DEF Ds
  <2>4. \A b \in Blocks(graph) : before'[b] \subseteq Ds /\ after'[b] \subseteq Ds
    BY <1>1, <1>5, <2>1, <2>3
  <2>5. before'[graph.entry] = {} /\ after'[graph.entry] = Ds
    BY <1>1, <2>1, <2>2
  <2>6. QED
    BY <1>1, <2>4, <2>5 DEF Reaching, Ds
<1>8. QED
  BY <1>6, <1>7

-----------------------------------------------------------------------------
(* What solve returns has every definition at every block it can reach.    *)
LEMMA ReachedBefore ==
  ASSUME Shape, Reaching, Solved, Done, graph.analysis = "reaching",
         NEW d \in AllDefs(graph), NEW b \in ReachedBy(graph, d) \ {graph.entry}
  PROVE  d \in before[b]
<1> DEFINE x == d.variable
           Bs == Blocks(graph)
           S == {c \in Bs : c = graph.entry \/ d \in before[c]}
<1>1. /\ IsGraph(graph) /\ IsFor(graph)
      /\ before[graph.entry] = {} /\ after[graph.entry] = AllDefs(graph)
      /\ \A c \in Bs : before[c] \subseteq AllDefs(graph) /\ after[c] \subseteq AllDefs(graph)
  BY DEF Shape, Reaching
<1>2. /\ graph.boundary = graph.entry /\ graph.feeders = graph.pred /\ graph.readers = graph.succ
      /\ DOMAIN graph.code = Bs /\ TopFor(graph) = AllDefs(graph)
      /\ \A c \in Bs : graph.code[c] \in Seq(Range(graph.code[c]))
      /\ \A c, y : TransferFor(graph, c, y) = ReachTransfer(graph, c, y)
  BY <1>1, ForReaching
<1>3. /\ graph.entry \in Bs
      /\ \A c \in Bs : graph.pred[c] \in Seq(Bs) /\ graph.succ[c] \in Seq(Bs)
      /\ \A c, e \in Bs : c \in Range(graph.pred[e]) <=> e \in Range(graph.succ[c])
  BY <1>1, <1>2 DEF IsGraph
<1>4. \A c \in Bs : Range(graph.succ[c]) \subseteq Bs
  BY <1>3 DEF Range
<1>5. \A c \in Bs : \/ after[c] = AllDefs(graph)
                  \/ after[c] = ReachTransfer(graph, c, before[c])
  BY <1>2 DEF Solved, AfterIsTransfer
(* What leaves a block comes in at what it leads to. *)
<1>6. ASSUME NEW c \in Bs, d \in after[c], NEW e \in Range(graph.succ[c])
      PROVE  e \in S
  <2>1. e \in Bs /\ c \in Range(graph.pred[e])
    BY <1>3, <1>4
  <2>2. before[e] = Joined(graph, after, e)
    BY <2>1 DEF Solved
  <2>3. e # graph.entry => before[e] = UNION {after[k] : k \in Range(graph.pred[e])}
    BY <1>2, <1>3, <2>1, <2>2, ReachJoined
  <2>4. QED
    BY <1>6, <2>1, <2>3
<1>7. ASSUME NEW c \in S, ~ DefinesIn(graph, c, x)
      PROVE  d \in after[c]
  <2>1. CASE c = graph.entry
    BY <1>1, <2>1
  <2>2. CASE d \in before[c]
    <3>1. c \in Bs /\ before[c] \in SUBSET AllDefs(graph)
      BY <1>1
    <3>2. d \in ReachTransfer(graph, c, before[c])
      BY <1>2, <1>7, <2>2, <3>1, ReachPasses
    <3>3. QED
      BY <1>5, <3>1, <3>2
  <2>3. QED
    BY <2>1, <2>2
<1>8. ClosedUndefined(graph, x, S)
  <2> HIDE DEF x, S
  <2>1. \A c \in S : c \in Bs
    BY DEF S
  <2>2. QED
    BY <1>6, <1>7, <2>1 DEF ClosedUndefined
<1>0. PICK blk \in Bs : \E q \in Instructions(graph, blk) : d \in DefsAt(graph, blk, q)
  BY <1>2 DEF AllDefs
<1>9. PICK j \in Instructions(graph, blk) : d \in DefsAt(graph, blk, j)
  BY <1>0
<1>10. d.block_id = blk /\ d.instr_index = j
  BY <1>9 DEF DefsAt, Definition
<1>11. /\ \A q \in Instructions(graph, blk) : q > j => x \notin Range(Defs(graph.code[blk][q]))
       /\ b \in Undefined(graph, x, Range(graph.succ[blk]))
  BY <1>10 DEF ReachedBy
<1>12. d \in after[blk]
  <2>1. before[blk] \in SUBSET AllDefs(graph)
    BY <1>1
  <2>2. d \in ReachTransfer(graph, blk, before[blk])
    BY <1>2, <1>9, <1>11, <2>1, ReachPasses
  <2>3. QED
    BY <1>5, <2>2
<1>13. Range(graph.succ[blk]) \subseteq S
  <2> HIDE DEF S
  <2>1. QED
    BY <1>6, <1>12
<1>14. b \in S
  <2>1. S \in SUBSET Bs
    OBVIOUS
  <2> HIDE DEF S, x
  <2>2. QED
    BY <1>8, <1>11, <1>13, <2>1 DEF Undefined
<1>15. QED
  BY <1>14

-----------------------------------------------------------------------------
(* The chains: a use is given one of the definitions that reach it.        *)
LEMMA LatestIn ==
  ASSUME NEW g, g.size \in Nat, DOMAIN g.code = Blocks(g),
         \A b \in Blocks(g) : g.code[b] \in Seq(Range(g.code[b])),
         NEW s \in SUBSET AllDefs(g), s # {}
  PROVE  Latest(s) \in s
<1> DEFINE places == {d.block_id + 1 : d \in s}
           k == Max(places)
           n == Len(g.code[k - 1])
           last == {d \in s : d.block_id + 1 = k}
           rows == {d.instr_index : d \in last}
<1>1. \A d \in s : d.block_id \in Blocks(g) /\ d.instr_index \in DOMAIN g.code[d.block_id]
  <2> TAKE d \in s
  <2>1. PICK b \in Blocks(g) : \E j \in Instructions(g, b) : d \in DefsAt(g, b, j)
    BY DEF AllDefs
  <2>2. PICK j \in Instructions(g, b) : d \in DefsAt(g, b, j)
    BY <2>1
  <2>3. QED
    BY <2>2 DEF DefsAt, Definition, Instructions
<1>2. places \in SUBSET (1..g.size) /\ places # {}
  <2>1. \A d \in s : d.block_id + 1 \in 1..g.size
    BY <1>1 DEF Blocks
  <2>2. QED
    BY <2>1
<1>3. k \in places /\ \A y \in places : k >= y
  <2> DEFINE m == g.size
  <2> HIDE DEF places
  <2>1. m \in Nat /\ places \in SUBSET (1..m)
    BY <1>2
  <2> HIDE DEF m
  <2>2. QED
    BY <1>2, <2>1, GreatestIn
<1> HIDE DEF k
<1>4. last # {} /\ \A d \in s : d.block_id + 1 <= k
  <2>1. \A d \in s : d.block_id + 1 \in places
    OBVIOUS
  <2>2. PICK d \in s : d.block_id + 1 = k
    BY <1>3
  <2>3. d \in last
    BY <2>2
  <2>4. k \in Int /\ \A c \in s : c.block_id + 1 \in Int
    BY <1>2, <1>3
  <2> HIDE DEF places, last
  <2>5. QED
    BY <1>3, <2>1, <2>3, <2>4
<1>5. k \in 1..g.size /\ k - 1 \in Blocks(g)
  <2> HIDE DEF places, last, rows, n
  <2>1. k \in 1..g.size
    BY <1>2, <1>3
  <2>2. QED
    BY <2>1 DEF Blocks
<1>6. n \in Nat /\ DOMAIN g.code[k - 1] = 1..n
  <2>1. g.code[k - 1] \in Seq(Range(g.code[k - 1]))
    BY <1>5
  <2>2. QED
    BY <2>1
<1>7. \A d \in last : d \in s /\ d.block_id = k - 1 /\ d.instr_index \in 1..n
  <2> TAKE d \in last
  <2>1. d \in s /\ d.block_id + 1 = k
    OBVIOUS
  <2>2. d.block_id = k - 1
    BY <1>1, <1>5, <2>1 DEF Blocks
  <2>3. QED
    BY <1>1, <1>6, <2>1, <2>2
<1> HIDE DEF n
<1>8. rows \in SUBSET (1..n) /\ rows # {}
  BY <1>4, <1>7
<1>9. Max(rows) \in rows /\ \A y \in rows : Max(rows) >= y
  <2> HIDE DEF rows
  <2>1. QED
    BY <1>6, <1>8, GreatestIn
<1>10. PICK d \in last : d.instr_index = Max(rows)
  BY <1>9
<1>11. \A other \in s :
         \/ d.block_id > other.block_id
         \/ d.block_id = other.block_id /\ d.instr_index >= other.instr_index
  <2> TAKE other \in s
  <2>1. d.block_id = k - 1 /\ other.block_id + 1 <= k /\ other.block_id \in Nat /\ k \in Nat
    BY <1>1, <1>4, <1>5, <1>7 DEF Blocks
  <2>2. CASE other.block_id + 1 = k
    <3>1. other \in last
      BY <2>2
    <3>2. other.instr_index \in rows
      BY <3>1
    <3>3. QED
      BY <1>7, <1>9, <1>10, <3>1, <3>2
  <2>3. CASE other.block_id + 1 # k
    <3>1. d.block_id > other.block_id
      BY <2>1, <2>3
    <3>2. QED
      BY <3>1
  <2>4. QED
    BY <2>2, <2>3
<1>12. d \in s
  BY <1>7
<1>13. QED
  BY <1>11, <1>12 DEF Latest

LEMMA ReturnedReaches ==
  ASSUME Shape, Reaching, Solved
  PROVE  ReachesAll
<1> SUFFICES ASSUME Done, graph.analysis = "reaching",
                    NEW d \in AllDefs(graph), NEW b \in ReachedBy(graph, d) \ {graph.entry}
             PROVE  /\ d \in before[b]
                    /\ \A j \in Instructions(graph, b) : d.variable \in Range(Uses(graph.code[b][j])) =>
                         /\ Mentions(defs_for_use(graph, before, b, j), d.variable)
                         /\ (\A other \in AllDefs(graph) \ {d} : other.variable # d.variable) =>
                              <<b, j>> \in uses_of_def(graph, before, d)
  BY DEF ReachesAll
<1> DEFINE x == d.variable
           reach == reaching_at(before, b, x)
<1>1. d \in before[b]
  BY ReachedBefore
<1>2. b \in Blocks(graph)
  BY DEF ReachedBy, Undefined
<1>3. /\ graph.size \in Nat /\ DOMAIN graph.code = Blocks(graph)
      /\ \A c \in Blocks(graph) : graph.code[c] \in Seq(Range(graph.code[c]))
      /\ before[b] \subseteq AllDefs(graph)
  BY <1>2, ForReaching DEF Shape, IsGraph, Reaching
<1>4. d \in reach /\ reach \in SUBSET AllDefs(graph) /\ \A e \in reach : e.variable = x
  BY <1>1, <1>3 DEF reaching_at
<1> HIDE DEF reach
<1>5. Latest(reach) \in reach
  BY <1>3, <1>4, LatestIn
<1>6. ASSUME NEW j \in Instructions(graph, b), x \in Range(Uses(graph.code[b][j]))
      PROVE  /\ Mentions(defs_for_use(graph, before, b, j), x)
             /\ (\A other \in AllDefs(graph) \ {d} : other.variable # x) =>
                   <<b, j>> \in uses_of_def(graph, before, d)
  <2>1. Latest(reach) \in defs_for_use(graph, before, b, j)
    BY <1>4, <1>6 DEF defs_for_use, reach
  <2>2. Mentions(defs_for_use(graph, before, b, j), x)
    BY <1>4, <1>5, <2>1 DEF Mentions
  <2>3. ASSUME \A other \in AllDefs(graph) \ {d} : other.variable # x
        PROVE  <<b, j>> \in uses_of_def(graph, before, d)
    <3>1. Latest(reach) = d
      BY <1>4, <1>5, <2>3
    <3>2. d \in defs_for_use(graph, before, b, j)
      BY <2>1, <3>1
    <3>3. QED
      BY <1>2, <1>3, <3>2 DEF uses_of_def
  <2>4. QED
    BY <2>2, <2>3
<1>7. QED
  BY <1>1, <1>6

-----------------------------------------------------------------------------
BP == INSTANCE CfgBuildProofs WITH graph <- blocks, pc <- building
DP == INSTANCE DominatorsProofs WITH pc <- computing

-----------------------------------------------------------------------------
(* The builder's definitions, in both instances. *)
LEMMA SameRange == ASSUME NEW s PROVE B!Range(s) = BP!Range(s)
BY DEF B!Range, BP!Range

LEMMA SameIf == ASSUME NEW e PROVE B!IsIf(e) = BP!IsIf(e)
BY DEF B!IsIf, BP!IsIf

LEMMA SameBlock == ASSUME NEW n PROVE B!NewBlock(n) = BP!NewBlock(n)
BY DEF B!NewBlock, BP!NewBlock

LEMMA SameEdge == ASSUME NEW bs, NEW f, NEW t PROVE B!AddEdge(bs, f, t) = BP!AddEdge(bs, f, t)
BY DEF B!AddEdge, BP!AddEdge

LEMMA SameGrown == ASSUME NEW c, NEW n PROVE B!Grown(c, n) = BP!Grown(c, n)
BY DEF B!Grown, BP!Grown, B!Min, BP!Min

LEMMA SameCond == ASSUME NEW b PROVE B!IsConditionalBlock(b) <=> BP!IsConditionalBlock(b)
BY SameIf DEF B!IsConditionalBlock, BP!IsConditionalBlock

LEMMA SameAscending == ASSUME NEW s PROVE B!Ascending(s) = BP!Ascending(s)
BY DEF B!Ascending, BP!Ascending, B!Cardinality, BP!Cardinality

LEMMA SameRefined == ASSUME NEW a, NEW b, NEW c PROVE B!Refined(a, b, c) <=> BP!Refined(a, b, c)
BY SameGrown DEF B!Refined, BP!Refined

LEMMA SameDiamond == ASSUME NEW b, NEW c PROVE B!Diamond(b, c) = BP!Diamond(b, c)
BY SameBlock DEF B!Diamond, BP!Diamond

LEMMA SameIds == ASSUME NEW b, NEW c PROVE B!IdsRead(b, c) = BP!IdsRead(b, c)
BY SameGrown DEF B!IdsRead, BP!IdsRead, B!Stale, BP!Stale

LEMMA SameFlatten == ASSUME NEW s PROVE B!FlattenSeq(s) = BP!FlattenSeq(s)
BY DEF B!FlattenSeq, BP!FlattenSeq

LEMMA SameInit == B!Init <=> BP!Init
BY SameBlock, SameFlatten DEF B!Init, BP!Init

LEMMA SameSplit == B!Split <=> BP!Split
BY SameBlock, SameEdge, SameIf DEF B!Split, BP!Split

LEMMA SameCopy == B!CopyBlock <=> BP!CopyBlock
BY SameBlock, SameRefined, SameCond DEF B!CopyBlock, BP!CopyBlock

LEMMA SameExpand == B!ExpandConditional <=> BP!ExpandConditional
BY SameDiamond, SameRefined, SameEdge, SameCond, SameIds DEF B!ExpandConditional, BP!ExpandConditional

LEMMA SameSorted == ASSUME NEW s PROVE B!SortedUnique(s) = BP!SortedUnique(s)
BY SameAscending, SameRange DEF B!SortedUnique, BP!SortedUnique

LEMMA SameFinish == B!Finish <=> BP!Finish
BY SameSorted, SameAscending, SameRange DEF B!Finish, BP!Finish

LEMMA SameResult == B!Result = BP!Result
BY DEF B!Result, BP!Result

LEMMA SameMirror == B!EdgesMirror <=> BP!EdgesMirror
BY SameResult, SameRange DEF B!EdgesMirror, BP!EdgesMirror, B!IsInjective, BP!IsInjective

LEMMA SameFlagged == B!EndsFlagged <=> BP!EndsFlagged
BY SameResult DEF B!EndsFlagged, BP!EndsFlagged

LEMMA SameExpanded == ASSUME NEW b PROVE B!Expanded(b) = BP!Expanded(b)
BY SameCond DEF B!Expanded, BP!Expanded

LEMMA SameCodeOf == ASSUME NEW b PROVE B!CodeOf(b) = BP!CodeOf(b)
BY SameFlatten DEF B!CodeOf, BP!CodeOf

LEMMA SameCode == B!CodeKept <=> BP!CodeKept
BY SameCodeOf, SameExpanded, SameFlatten DEF B!CodeKept, BP!CodeKept

LEMMA SameFit == B!ProgramsFit <=> BP!ProgramsFit
BY SameIf DEF B!ProgramsFit, BP!ProgramsFit

LEMMA SameTypes == B!TypeOK <=> BP!TypeOK
BY DEF B!TypeOK, BP!TypeOK

-----------------------------------------------------------------------------
(* The dominator tree's definitions, in both instances. *)
LEMMA SameRangeD == ASSUME NEW s PROVE D!Range(s) = DP!Range(s)
BY DEF D!Range, DP!Range

LEMMA SameFlow == ASSUME NEW g PROVE D!IsFlowGraph(g) <=> DP!IsFlowGraph(g)
BY SameRangeD DEF D!IsFlowGraph, DP!IsFlowGraph

LEMMA SameIdle == D!Idle <=> DP!Idle
BY DEF D!Idle, DP!Idle

LEMMA SameZero == ASSUME NEW g PROVE D!Zero(g) = DP!Zero(g)
BY DEF D!Zero, DP!Zero, D!Blocks, DP!Blocks

LEMMA SameCompute == D!Compute <=> DP!Compute
BY SameZero DEF D!Compute, DP!Compute

LEMMA SameInnermost ==
  /\ D!Caller = DP!Caller /\ D!EdgeAt = DP!EdgeAt /\ (D!HasEdge <=> DP!HasEdge)
  /\ D!Front(path) = DP!Front(path)
BY DEF D!Caller, DP!Caller, D!EdgeAt, DP!EdgeAt, D!HasEdge, DP!HasEdge, D!Front, DP!Front,
       D!Last, DP!Last

LEMMA SameDescend == D!Descend <=> DP!Descend
BY SameInnermost DEF D!Descend, DP!Descend

LEMMA SameAscend == D!Ascend <=> DP!Ascend
BY SameInnermost DEF D!Ascend, DP!Ascend, D!tables, DP!tables

LEMMA SameStartSemi == D!StartSemi <=> DP!StartSemi
BY DEF D!StartSemi, DP!StartSemi, D!tables, DP!tables, D!numbering, DP!numbering

LEMMA SameCompressed ==
  ASSUME NEW f, NEW s, NEW v
  PROVE  D!compressed(f, s, v) = DP!compressed(f, s, v) /\ D!found(f, v) = DP!found(f, v)
<1>1. D!compress(f, s, v) = DP!compress(f, s, v)
  BY DEF D!compress, DP!compress, D!Blocks, DP!Blocks
<1>2. QED
  BY <1>1 DEF D!compressed, DP!compressed, D!found, DP!found

LEMMA SameNearer == ASSUME NEW w, NEW v, NEW st PROVE D!Nearer(w, v, st) = DP!Nearer(w, v, st)
BY SameCompressed DEF D!Nearer, DP!Nearer

LEMMA SameSemiOf == ASSUME NEW w PROVE D!SemiOf(w) = DP!SemiOf(w)
BY SameNearer DEF D!SemiOf, DP!SemiOf, D!Forest, DP!Forest

LEMMA SameAssign ==
  ASSUME NEW s, NEW p, NEW v, NEW t PROVE D!Assign(s, p, v, t) = DP!Assign(s, p, v, t)
BY SameCompressed DEF D!Assign, DP!Assign

LEMMA SameSettle == ASSUME NEW st, NEW ws, NEW p PROVE D!Settle(st, ws, p) = DP!Settle(st, ws, p)
BY SameAssign DEF D!Settle, DP!Settle

LEMMA SameProcess == D!Process <=> DP!Process
BY SameSemiOf, SameSettle DEF D!Process, DP!Process, D!numbering, DP!numbering

LEMMA SameStartIdom == D!StartIdom <=> DP!StartIdom
BY DEF D!StartIdom, DP!StartIdom, D!tables, DP!tables, D!numbering, DP!numbering

LEMMA SameAdjust == D!Adjust <=> DP!Adjust
BY DEF D!Adjust, DP!Adjust, D!numbering, DP!numbering

LEMMA SameFinishTree == D!FinishTree <=> DP!FinishTree
BY DEF D!FinishTree, DP!FinishTree, D!numbering, DP!numbering

LEMMA SameChains == D!ChainsEnd <=> DP!ChainsEnd
BY SameRangeD DEF D!ChainsEnd, DP!ChainsEnd, D!Reachable, DP!Reachable, D!Avoiding, DP!Avoiding,
                  D!ClosedAvoiding, DP!ClosedAvoiding, D!Blocks, DP!Blocks

LEMMA SameReached ==
  /\ D!Reachable = DP!Reachable
  /\ \A x, S : D!Avoiding(x, S) = DP!Avoiding(x, S)
BY SameRangeD DEF D!Reachable, DP!Reachable, D!Avoiding, DP!Avoiding,
                  D!ClosedAvoiding, DP!ClosedAvoiding, D!Blocks, DP!Blocks

LEMMA SameVisitAfter == ASSUME NEW g PROVE D!VisitAfter(g) = DP!VisitAfter(g)
BY DEF D!VisitAfter, DP!VisitAfter, D!Blocks, DP!Blocks, D!AfterEdges, DP!AfterEdges,
       D!Further, DP!Further, D!Listed, DP!Listed

LEMMA SameOrder == D!TopologicalOrder <=> DP!TopologicalOrder
<1>1. D!Acyclic <=> DP!Acyclic
  BY SameReached, SameRangeD DEF D!Acyclic, DP!Acyclic
<1>2. D!reverse_postorder(graph) = DP!reverse_postorder(graph)
  BY SameVisitAfter DEF D!reverse_postorder, DP!reverse_postorder, D!postorder, DP!postorder,
                        D!Reverse, DP!Reverse
<1>3. \A s : D!IsInjective(s) <=> DP!IsInjective(s)
  BY DEF D!IsInjective, DP!IsInjective
<1> DEFINE InOrder(order) ==
      LET place(b) == CHOOSE k \in DOMAIN order : order[k] = b
      IN  computing = "done" =>
            /\ DP!Range(order) = DP!Reachable /\ DP!IsInjective(order)
            /\ DP!Acyclic => \A b \in DP!Reachable : \A c \in DP!Range(graph.succ[b]) : place(b) < place(c)
<1>4. D!TopologicalOrder <=> InOrder(D!reverse_postorder(graph))
  BY <1>1, <1>3, SameReached, SameRangeD DEF D!TopologicalOrder
<1>5. DP!TopologicalOrder <=> InOrder(DP!reverse_postorder(graph))
  BY DEF DP!TopologicalOrder
<1> HIDE DEF InOrder
<1>6. QED
  BY <1>2, <1>4, <1>5

LEMMA SameTreeTypes == D!TypeOK <=> DP!TypeOK
BY SameRangeD DEF D!TypeOK, DP!TypeOK, D!Blocks, DP!Blocks

-----------------------------------------------------------------------------
(* The state solve begins in on a well-formed graph.                       *)
Begun ==
  /\ IsGraph(graph) /\ IsFor(graph) /\ IsAnalysed(graph)
  /\ before = FirstBefore(graph) /\ after = FirstAfter(graph)
  /\ worklist = FirstWorklist(graph) /\ waking = << >>

LEMMA LatticeFitsOf ==
  ASSUME NEW g, IsFor(g), IsAnalysed(g)
  PROVE  LatticeFits(g)
BY LatticeOf DEF LatticeFits

(* The facts of the analysis under way are of its lattice.                 *)
Typed == TypeOK /\ IsFor(graph) /\ IsAnalysed(graph)

LEMMA BegunInv == Begun => SolverInv /\ Reaching /\ Typed
<1> SUFFICES ASSUME Begun PROVE SolverInv /\ Reaching /\ Typed
  OBVIOUS
<1>1. SolverInv /\ Reaching
  BY FirstInv, FirstReaching DEF Begun
<1>2. TypeOK
  BY FirstTypes, LatticeFitsOf DEF Begun
<1>3. QED
  BY <1>1, <1>2 DEF Begun, Typed

LEMMA BegunNext == Begun' => SolverInv' /\ Reaching' /\ Typed'
BY BegunInv, PTL

-----------------------------------------------------------------------------
(* What build_cfg returns is a graph the analyses and compute_dominators   *)
(* can be called with. *)
LEMMA ReturnedFits ==
  ASSUME BP!Inv, building = "done"
  PROVE  /\ \A a : IsGraph(For(a, Returned)) /\ IsFor(For(a, Returned))
         /\ \A a \in AnalysisNames : IsAnalysed(For(a, Returned))
         /\ D!IsFlowGraph(Returned)
<1> DEFINE bs == B!Result
           n == Len(bs)
           ids == 0..(n - 1)
           R == Returned
<1>1. /\ bs \in Seq(BP!BasicBlock) /\ n \in Nat \ {0}
      /\ entry_id \in ids /\ exit_id \in ids
      /\ \A k \in 1..n : /\ BP!Range(bs[k].successors) \subseteq ids
                         /\ BP!Range(bs[k].predecessors) \subseteq ids
  BY BP!ResultFits, SameResult
<1>2. \A k \in 1..n : /\ bs[k].code \in Seq(Exprs)
                      /\ bs[k].successors \in Seq(Nat) /\ bs[k].predecessors \in Seq(Nat)
  BY <1>1, BP!BlockFields
<1>3. \A j, k \in 1..n :
        k - 1 \in BP!Range(bs[j].successors) <=> j - 1 \in BP!Range(bs[k].predecessors)
  <2>1. BP!EdgesMirror
    BY DEF BP!Inv, BP!Linked
  <2>2. DOMAIN bs = 1..n
    BY <1>1
  <2>3. QED
    BY <2>1, <2>2, SameResult DEF BP!EdgesMirror
<1>4. /\ R.size = n /\ R.entry = entry_id /\ R.exit = exit_id
      /\ R.code = [b \in ids |-> bs[b + 1].code]
      /\ R.succ = [b \in ids |-> bs[b + 1].successors]
      /\ R.pred = [b \in ids |-> bs[b + 1].predecessors]
  BY DEF Returned
<1> HIDE DEF bs, R
<1>5. \A b \in ids : b + 1 \in 1..n
  BY <1>1
<1>6. \A s : BP!Range(s) = Range(s) /\ D!Range(s) = Range(s)
  BY DEF BP!Range, D!Range, Range
<1>7. /\ R.succ \in [ids -> Seq(ids)] /\ R.pred \in [ids -> Seq(ids)]
      /\ \A b \in ids : R.code[b] \in Seq(Exprs)
  <2> HIDE DEF n, ids
  <2>1. ASSUME NEW s \in Seq(Nat), Range(s) \subseteq ids PROVE s \in Seq(ids)
    <3>1. Len(s) \in Nat /\ s = [k \in 1..Len(s) |-> s[k]] /\ DOMAIN s = 1..Len(s)
      OBVIOUS
    <3>2. \A k \in 1..Len(s) : s[k] \in ids
      BY <2>1, <3>1 DEF Range
    <3>3. s \in [1..Len(s) -> ids]
      BY <3>1, <3>2
    <3>4. QED
      BY <3>1, <3>3, SeqDef
  <2>2. ASSUME NEW b \in ids
        PROVE  R.succ[b] \in Seq(ids) /\ R.pred[b] \in Seq(ids) /\ R.code[b] \in Seq(Exprs)
    <3>1. b + 1 \in 1..n
      BY <1>5
    <3>2. /\ R.succ[b] = bs[b + 1].successors /\ R.pred[b] = bs[b + 1].predecessors
          /\ R.code[b] = bs[b + 1].code
      BY <1>4
    <3>3. QED
      BY <1>1, <1>2, <1>6, <2>1, <3>1, <3>2
  <2>3. QED
    BY <1>4, <2>2
<1>8. \A b, c \in ids : c \in Range(R.succ[b]) <=> b \in Range(R.pred[c])
  <2>1. TAKE b, c \in ids
  <2>2. (b + 1) - 1 = b /\ (c + 1) - 1 = c
    BY <1>1
  <2> HIDE DEF n
  <2>3. QED
    BY <1>3, <1>4, <1>5, <1>6, <2>2
<1> HIDE DEF n, ids
<1>9. D!IsFlowGraph(R)
  BY <1>1, <1>4, <1>6, <1>7, <1>8 DEF D!IsFlowGraph, ids
<1>10. ASSUME NEW a
       PROVE  /\ IsGraph(For(a, R)) /\ IsFor(For(a, R))
              /\ a \in AnalysisNames => IsAnalysed(For(a, R))
  <2> DEFINE g == For(a, R)
  <2>1. /\ g.size = n /\ g.code = R.code /\ g.analysis = a
        /\ g.boundary \in {R.entry, R.exit}
        /\ \/ g.feeders = R.succ /\ g.readers = R.pred
           \/ g.feeders = R.pred /\ g.readers = R.succ
        /\ g = For(g.analysis, g)
    BY <1>4 DEF For
  <2> HIDE DEF g
  <2>2. Blocks(g) = ids
    BY <2>1 DEF Blocks, ids
  <2>3. IsGraph(g)
    BY <1>1, <1>4, <1>7, <1>8, <2>1, <2>2 DEF IsGraph
  <2>4. \A b \in ids : R.code[b] \in Seq(Range(R.code[b]))
    <3>1. \A s \in Seq(Exprs) : s \in Seq(Range(s))
      <4>1. TAKE s \in Seq(Exprs)
      <4>2. Len(s) \in Nat /\ s \in [1..Len(s) -> Range(s)]
        BY DEF Range
      <4>3. QED
        BY <4>2, SeqDef
    <3>2. QED
      BY <1>7, <3>1
  <2>5. IsFor(g)
    BY <1>4, <2>1, <2>2, <2>4 DEF IsFor
  <2>6. \A b \in ids : \A e \in Range(R.code[b]) : WalksFit(e)
    <3>1. \A e \in Exprs : WalksFit(e)
      BY ProgramAssumption
    <3>2. \A b \in ids : Range(R.code[b]) \subseteq Exprs
      BY <1>7, ElementOfSeq DEF Range
    <3>3. QED
      BY <3>1, <3>2
  <2>7. a \in AnalysisNames => IsAnalysed(g)
    BY <2>1, <2>2, <2>6 DEF IsAnalysed
  <2>8. QED
    BY <2>3, <2>5, <2>7 DEF g
<1>11. QED
  BY <1>9, <1>10 DEF R
-----------------------------------------------------------------------------
(* The invariant: the builder's, once a program is being built; the        *)
(* solver's and that of reaching definitions, once a graph is analysed;    *)
(* before that the solver is idle; and the dominator tree's, on that graph. *)
Solving == SolverInv /\ Reaching /\ Typed

NotBuilding == building = "none" /\ flat = << >> /\ blocks = << >>
Ranking ==
  \/ graph = NoGraph /\ DP!Idle
  \/ DP!Inv

FlowInv ==
  /\ Ranking
  /\ NotBuilding \/ BP!Inv
  /\ \/ graph = NoGraph /\ building # "none" /\ worklist = << >> /\ waking = << >>
     \/ Solving

LEMMA RankingFirst == ASSUME DP!Idle, DP!IsFlowGraph(graph) PROVE DP!Inv
BY DEF DP!Inv, DP!Idle

LEMMA FlowInitInv == FlowInit => FlowInv
<1> SUFFICES ASSUME FlowInit PROVE FlowInv
  OBVIOUS
<1>0. DP!Idle
  BY SameIdle DEF FlowInit
<1>1. CASE B!Init /\ graph = NoGraph /\ worklist = << >> /\ waking = << >>
  <2>1. BP!Inv
    BY <1>1, SameInit, SameFit, ProgramAssumption, BP!InitInv
  <2>2. building # "none"
    BY <1>1 DEF B!Init
  <2>3. QED
    BY <1>0, <1>1, <2>1, <2>2 DEF FlowInv, Ranking
<1>2. CASE Init /\ NotBuilding
  <2>1. Begun
    BY <1>2, GraphAssumption DEF Init, GraphsFit, Begun
  <2>2. DP!Inv
    BY <1>0, <1>2, TreeAssumption, SameFlow, RankingFirst DEF Init, D!GraphsFit
  <2>3. QED
    BY <1>2, <2>1, <2>2, BegunInv DEF FlowInv, Solving, Ranking
<1>3. QED
  BY <1>1, <1>2 DEF FlowInit, NotBuilding

(* The solver's part of the state is as it was.                            *)

LEMMA SolvingKept ==
  ASSUME Solving, UNCHANGED solver
  PROVE  Solving'
<1>1. SolverInv'
  BY StutterInv DEF Solving, solver, vars
<1>2. Reaching'
  BY DEF Solving, solver, Reaching
<1>3. Typed'
  BY DEF Solving, solver, Typed, TypeOK
<1>4. QED
  BY <1>1, <1>2, <1>3 DEF Solving

LEMMA BuiltKept ==
  ASSUME BP!Inv, UNCHANGED build
  PROVE  BP!Inv'
BY BP!StutterInv DEF build, BP!vars

LEMMA RankingKept ==
  ASSUME Ranking, UNCHANGED <<graph, tree>>
  PROVE  Ranking'
<1>1. UNCHANGED DP!vars
  BY DEF tree, DP!vars, DP!numbering, DP!tables
<1>2. DP!Inv => DP!Inv'
  BY <1>1, DP!UnchangedInv
<1>3. DP!Idle => DP!Idle'
  BY DEF tree, DP!Idle
<1>4. QED
  BY <1>2, <1>3 DEF Ranking, NoGraph

LEMMA BuildInv ==
  ASSUME FlowInv, Build
  PROVE  FlowInv'
<1>1. UNCHANGED <<solver, tree>> /\ (B!Split \/ B!CopyBlock \/ B!ExpandConditional \/ B!Finish)
  BY DEF Build
<1>2. building # "none" /\ building' # "none"
  BY <1>1 DEF B!Split, B!CopyBlock, B!ExpandConditional, B!Finish, B!Refined
<1>3. BP!Inv /\ BP!ProgramsFit
  BY <1>2, ProgramAssumption, SameFit DEF FlowInv, NotBuilding
<1>4. BP!Inv'
  BY <1>1, <1>3, SameSplit, SameCopy, SameExpand, SameFinish,
     BP!SplitInv, BP!CopyBlockInv, BP!ExpandConditionalInv, BP!FinishInv
<1>5. Solving => Solving'
  BY <1>1, SolvingKept
<1>6. Ranking'
  BY <1>1, RankingKept DEF FlowInv, solver
<1>7. QED
  BY <1>1, <1>2, <1>4, <1>5, <1>6 DEF FlowInv, solver

LEMMA AnalyseInv ==
  ASSUME FlowInv, NEW a \in Wanted, Analyse(a)
  PROVE  FlowInv'
<1>1. building = "done" /\ UNCHANGED <<build, tree>> /\ graph = NoGraph /\ graph' = For(a, Returned)
  BY DEF Analyse
<1>2. BP!Inv
  BY <1>1 DEF FlowInv, NotBuilding
<1>3. BP!Inv'
  BY <1>1, <1>2, BuiltKept
<1>4. Begun'
  <2>1. IsGraph(graph') /\ IsFor(graph') /\ IsAnalysed(graph')
    BY <1>1, <1>2, ReturnedFits, ProgramAssumption
  <2>2. QED
    BY <2>1 DEF Analyse, Begun
<1>5. Ranking'
  <2>1. ~ DP!Inv
    BY <1>1 DEF NoGraph, DP!Inv, DP!IsFlowGraph
  <2>2. DP!Idle
    BY <2>1 DEF FlowInv, Ranking
  <2>3. DP!Idle'
    BY <1>1, <2>2 DEF DP!Idle, tree
  <2>4. DP!IsFlowGraph(Returned)
    BY <1>1, <1>2, ReturnedFits, SameFlow
  <2>5. PICK R : R = Returned
    OBVIOUS
  <2>6. PICK g : g = For(a, R)
    OBVIOUS
  <2>7. g.size = R.size /\ g.entry = R.entry /\ g.succ = R.succ /\ g.pred = R.pred
    BY <2>6 DEF For
  <2>8. DP!IsFlowGraph(g)
    BY <2>4, <2>5, <2>7 DEF DP!IsFlowGraph
  <2>9. graph' = g
    BY <1>1, <2>5, <2>6
  <2>10. DP!IsFlowGraph(graph)'
    BY <2>8, <2>9 DEF DP!IsFlowGraph
  <2>11. DP!Inv'
    BY <2>3, <2>10, RankingFirst, PTL
  <2>12. QED
    BY <2>11 DEF Ranking
<1>6. QED
  BY <1>3, <1>4, <1>5, BegunNext DEF FlowInv, Solving

LEMMA SolveInv ==
  ASSUME FlowInv, Solve
  PROVE  FlowInv'
<1>1. UNCHANGED <<build, tree>> /\ (Visit \/ Wake)
  BY DEF Solve
<1>2. Solving
  BY <1>1 DEF FlowInv, Visit, Wake
<1>3. SolverInv'
  BY <1>1, <1>2, VisitInv, WakeInv DEF Solving
<1>4. Reaching'
  <2>1. CASE Visit
    BY <1>2, <2>1, VisitReaching DEF Solving, SolverInv
  <2>2. CASE Wake
    BY <1>2, <2>2 DEF Solving, Reaching, Wake
  <2>3. QED
    BY <1>1, <2>1, <2>2
<1>5. NotBuilding' \/ BP!Inv'
  BY <1>1, BuiltKept DEF FlowInv, NotBuilding, build
<1>6. Typed'
  <2>1. LatticeFits(graph) /\ TypeOK /\ graph' = graph
    BY <1>1, <1>2, LatticeFitsOf DEF Solving, Typed, Visit, Wake
  <2>2. TypeOK'
    BY <1>1, <1>2, <2>1, VisitTypes, WakeTypes DEF Solving, SolverInv
  <2>3. QED
    BY <1>2, <2>1, <2>2 DEF Solving, Typed
<1>7. Ranking'
  BY <1>1, RankingKept DEF FlowInv, Visit, Wake
<1>8. QED
  BY <1>3, <1>4, <1>5, <1>6, <1>7 DEF FlowInv, Solving

(* compute_dominators reads the graph and leaves it alone.                 *)

LEMMA KeptInv ==
  ASSUME FlowInv, UNCHANGED <<build, solver>>, Ranking'
  PROVE  FlowInv'
<1>1. building' = building /\ (NotBuilding' \/ BP!Inv')
  BY BuiltKept DEF FlowInv, NotBuilding, build
<1>2. Solving => Solving'
  BY SolvingKept
<1>3. QED
  BY <1>1, <1>2 DEF FlowInv, solver

LEMMA RankInv ==
  ASSUME FlowInv, Rank \/ Dominate
  PROVE  FlowInv'
<1>1. CASE Rank
  <2>1. DP!Inv /\ DP!Compute
    BY <1>1, SameCompute DEF Rank, FlowInv, Ranking
  <2>2. DP!Inv'
    BY <2>1, DP!ComputeInv
  <2>3. QED
    BY <1>1, <2>2, KeptInv DEF Rank, Ranking
<1>2. CASE Dominate
  <2>1. computing # "none"
    BY <1>2 DEF Dominate, D!Descend, D!Ascend, D!StartSemi, D!Process, D!StartIdom, D!Adjust, D!FinishTree
  <2>2. DP!Inv
    BY <2>1 DEF FlowInv, Ranking, DP!Idle
  <2>3. \/ DP!Descend \/ DP!Ascend \/ DP!StartSemi \/ DP!Process \/ DP!StartIdom
        \/ DP!Adjust \/ DP!FinishTree
    BY <1>2, SameDescend, SameAscend, SameStartSemi, SameProcess, SameStartIdom, SameAdjust, SameFinishTree
      DEF Dominate
  <2>4. DP!Inv'
    BY <2>2, <2>3, DP!DescendInv, DP!AscendInv, DP!StartSemiInv, DP!ProcessInv, DP!StartIdomInv,
       DP!AdjustInv, DP!FinishTreeInv
  <2>5. QED
    BY <1>2, <2>4, KeptInv DEF Dominate, Ranking
<1>3. QED
  BY <1>1, <1>2

LEMMA FlowNextInv == FlowInv /\ [FlowNext]_allvars => FlowInv'
<1> SUFFICES ASSUME FlowInv, [FlowNext]_allvars PROVE FlowInv'
  OBVIOUS
<1>1. CASE Build
  BY <1>1, BuildInv
<1>2. CASE \E a \in Wanted : Analyse(a)
  BY <1>2, AnalyseInv
<1>3. CASE Solve
  BY <1>3, SolveInv
<1>4. CASE Rank \/ Dominate
  BY <1>4, RankInv
<1>5. CASE UNCHANGED allvars
  BY <1>5, KeptInv, RankingKept DEF allvars, solver, FlowInv
<1>6. QED
  BY <1>1, <1>2, <1>3, <1>4, <1>5 DEF FlowNext

(* The invariant holds whatever is called, in whatever order.              *)
THEOREM FlowInvariant == FlowSpec => []FlowInv
<1>1. QED
  BY FlowInitInv, FlowNextInv, PTL DEF FlowSpec

-----------------------------------------------------------------------------

(* What the invariant says of the solver before and after it is called. *)
LEMMA NothingYet ==
  ASSUME graph = NoGraph, worklist = << >>, waking = << >>
  PROVE  PendingCovers /\ WaitsOnce /\ Solved /\ ReachesAll
<1>1. Blocks(graph) = {} /\ graph.analysis # "reaching"
  BY DEF NoGraph, Blocks
<1>2. QED
  BY <1>1 DEF PendingCovers, WaitsOnce, Solved, AfterIsTransfer, ReachesAll

LEMMA SolvingGives ==
  ASSUME Solving
  PROVE  PendingCovers /\ WaitsOnce /\ Solved /\ ReachesAll
<1>1. Shape /\ PendingCovers /\ WaitsOnce
  BY DEF Solving, SolverInv
<1>2. Solved
  BY ReturnedSolved DEF Solving
<1>3. ReachesAll
  BY <1>1, <1>2, ReturnedReaches DEF Solving
<1>4. QED
  BY <1>1, <1>2, <1>3

LEMMA FlowInvSolver == FlowInv => PendingCovers /\ WaitsOnce /\ Solved /\ ReachesAll
BY NothingYet, SolvingGives DEF FlowInv

(* Whatever build_cfg returned and whatever the analysis, the worklist of  *)
(* solve (dataflow.cpp:270-310) never loses a block whose equation does    *)
(* not hold. *)
THEOREM FlowWorklistComplete == FlowSpec => []PendingCovers
BY FlowInvariant, FlowInvSolver, PTL

(* The std::find tests (dataflow.cpp:290, 305) keep the deque no longer    *)
(* than the graph. *)
THEOREM FlowNoDuplicateWork == FlowSpec => []WaitsOnce
BY FlowInvariant, FlowInvSolver, PTL

(* What solve returns (dataflow.cpp:312-316) satisfies the join equations  *)
(* of every block of the graph build_cfg made. *)
THEOREM FlowSolves == FlowSpec => []Solved
BY FlowInvariant, FlowInvSolver, PTL

(* compute_reaching_defs and the chains made of it (dataflow.cpp:399-460, *)
(* 721-740) overlook no definition that can reach a block other than the   *)
(* entry. *)
THEOREM NoDefinitionOverlooked == FlowSpec => []ReachesAll
BY FlowInvariant, FlowInvSolver, PTL

(* The graph build_cfg returns (dataflow.cpp:135-244) has its edges at     *)
(* both ends, one entry and one exit, and is what the analyses and         *)
(* compute_dominators take for granted, whatever is read through the       *)
(* references its second pass leaves stale. *)
THEOREM PromisesKept == FlowSpec => []BuiltFits
<1>1. FlowInv => BuiltFits
  <2> SUFFICES ASSUME FlowInv, building = "done" PROVE BuiltFits
    BY DEF BuiltFits
  <2>1. BP!Inv
    BY DEF FlowInv, NotBuilding
  <2>2. B!EdgesMirror /\ B!EndsFlagged
    BY <2>1, BP!InvEnds, SameMirror, SameFlagged DEF BP!Inv, BP!Linked
  <2>3. QED
    BY <2>1, <2>2, ReturnedFits DEF BuiltFits
<1>2. QED
  BY <1>1, FlowInvariant, PTL

(* No instruction is lost or repeated by either pass of build_cfg. *)
THEOREM NothingLost == FlowSpec => []CodeKept
<1>1. ASSUME NotBuilding PROVE BP!CodeKept
  <2>1. BP!CodeOf(<< >>) = << >>
    BY BP!CodeOfNone
  <2>2. QED
    BY <1>1, <2>1 DEF NotBuilding, BP!CodeKept
<1>2. FlowInv => CodeKept
  BY <1>1, BP!InvCode, SameCode DEF FlowInv, CodeKept
<1>3. QED
  BY <1>2, FlowInvariant, PTL

(* In every call of the library what it works on is of its type: the       *)
(* blocks of the two passes are numbered by their place, the facts are of  *)
(* the lattice of the analysis (dataflow.hpp:74-232), the worklist and the *)
(* tables of compute_dominators hold blocks and numbers of the graph.      *)
THEOREM FlowTypes == FlowSpec => []FlowTypeOK
<1>1. FlowInv => FlowTypeOK
  <2> SUFFICES ASSUME FlowInv PROVE FlowTypeOK
    OBVIOUS
  <2>1. building = "none" \/ B!TypeOK
    BY BP!InvTypes, SameTypes DEF FlowInv, NotBuilding
  <2>2. graph = NoGraph \/ TypeOK
    BY DEF FlowInv, Solving, Typed
  <2>3. computing = "none" \/ D!TypeOK
    BY DP!InvTypes, SameTreeTypes DEF FlowInv, Ranking, DP!Idle
  <2>4. QED
    BY <2>1, <2>2, <2>3 DEF FlowTypeOK
<1>2. QED
  BY <1>1, FlowInvariant, PTL

-----------------------------------------------------------------------------
(* Following the dominators compute_dominators (dataflow.cpp:798-860)      *)
(* gives for the graph of any program, or one filled by hand, ends.        *)
THEOREM ChainsAlwaysEnd == FlowSpec => []D!ChainsEnd
<1>1. FlowInv => D!ChainsEnd
  <2>1. DP!Idle => DP!ChainsEnd
    BY DEF DP!Idle, DP!ChainsEnd
  <2>2. DP!Inv => DP!ChainsEnd
    BY DP!InvChains
  <2>3. QED
    BY <2>1, <2>2, SameChains DEF FlowInv, Ranking
<1>2. QED
  BY <1>1, FlowInvariant, PTL

(* reverse_postorder (dataflow.cpp:29-57) goes through the blocks of the   *)
(* graph of any program, or of one filled by hand, in the order it         *)
(* promises: every reachable block once, and without cycles each before    *)
(* all it leads to.                                                        *)
THEOREM OrderedThroughout == FlowSpec => []TopologicalOrder
<1>1. FlowInv => TopologicalOrder
  <2>1. DP!Idle => DP!TopologicalOrder
    BY DEF DP!Idle, DP!TopologicalOrder
  <2>2. DP!Inv => DP!TopologicalOrder
    BY DP!InvOrder DEF DP!Inv
  <2>3. QED
    BY <2>1, <2>2, SameOrder DEF FlowInv, Ranking, TopologicalOrder
<1>2. QED
  BY <1>1, FlowInvariant, PTL
=============================================================================
