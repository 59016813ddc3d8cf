--------------------------- MODULE CfgBuildProofs ---------------------------
(***************************************************************************)
(* Proofs about CfgBuild.tla, for every set of programs and every way of   *)
(* flattening them, and whatever ids are read through stale references:    *)
(* the graph returned has every edge at both its ends and once, one entry  *)
(* and one exit, and the program's code in order.                          *)
(***************************************************************************)
EXTENDS CfgBuild, SequenceLemmas, FiniteSetTheorems

-----------------------------------------------------------------------------
(* What a list of blocks is, and what an edge changes of it: its lists of  *)
(* edges and nothing else.                                                 *)
BasicBlock ==
  [id : Nat, code : Seq(Exprs), successors : Seq(Nat), predecessors : Seq(Nat),
   is_entry : BOOLEAN, is_exit : BOOLEAN]

Numbered(bs) == \A k \in DOMAIN bs : bs[k].id = k - 1
EdgesWithin(bs) == \A k \in DOMAIN bs : Range(bs[k].successors) \subseteq 0..(Len(bs) - 1)

Alike(b, c) ==
  b.id = c.id /\ b.code = c.code /\ b.is_entry = c.is_entry /\ b.is_exit = c.is_exit

LEMMA BlockFields ==
  ASSUME NEW bs \in Seq(BasicBlock)
  PROVE  /\ Len(bs) \in Nat /\ DOMAIN bs = 1..Len(bs)
         /\ \A k \in 1..Len(bs) :
              /\ bs[k] \in BasicBlock /\ bs[k].code \in Seq(Exprs)
              /\ bs[k].successors \in Seq(Nat) /\ bs[k].predecessors \in Seq(Nat)
              /\ bs[k].is_entry \in BOOLEAN /\ bs[k].is_exit \in BOOLEAN
<1>1. Len(bs) \in Nat /\ DOMAIN bs = 1..Len(bs) /\ \A k \in 1..Len(bs) : bs[k] \in BasicBlock
  OBVIOUS
<1>2. \A b \in BasicBlock :
        /\ b.code \in Seq(Exprs) /\ b.successors \in Seq(Nat) /\ b.predecessors \in Seq(Nat)
        /\ b.is_entry \in BOOLEAN /\ b.is_exit \in BOOLEAN
  BY DEF BasicBlock
<1>3. QED
  BY <1>1, <1>2

LEMMA NewBlockType ==
  ASSUME NEW id \in Nat
  PROVE  NewBlock(id) \in BasicBlock
BY DEF NewBlock, BasicBlock

LEMMA AddEdgeKeeps ==
  ASSUME NEW bs \in Seq(BasicBlock), EdgesWithin(bs),
         NEW from \in 0..(Len(bs) - 1), NEW to \in 0..(Len(bs) - 1)
  PROVE  /\ AddEdge(bs, from, to) \in Seq(BasicBlock)
         /\ Len(AddEdge(bs, from, to)) = Len(bs)
         /\ \A k \in DOMAIN bs : Alike(AddEdge(bs, from, to)[k], bs[k])
         /\ EdgesWithin(AddEdge(bs, from, to))
<1> DEFINE n == Len(bs)
           next == AddEdge(bs, from, to)
<1>1. n \in Nat /\ DOMAIN bs = 1..n /\ \A k \in 1..n : bs[k] \in BasicBlock
  OBVIOUS
<1>2. DOMAIN next = 1..n
  BY <1>1 DEF AddEdge
<1>3. ASSUME NEW k \in 1..n
      PROVE  /\ next[k] \in BasicBlock /\ Alike(next[k], bs[k])
             /\ next[k].successors = IF k = from + 1 THEN Append(bs[k].successors, to)
                                     ELSE bs[k].successors
  <2>1. next[k] = [bs[k] EXCEPT
           !.successors = IF k = from + 1 THEN Append(@, to) ELSE @,
           !.predecessors = IF k = to + 1 THEN Append(@, from) ELSE @]
    BY <1>1 DEF AddEdge
  <2>2. bs[k] \in BasicBlock /\ from \in Nat /\ to \in Nat
    BY <1>1
  <2>3. /\ Append(bs[k].successors, to) \in Seq(Nat)
        /\ Append(bs[k].predecessors, from) \in Seq(Nat)
    BY <2>2, AppendProperties DEF BasicBlock
  <2>4. QED
    BY <2>1, <2>2, <2>3 DEF BasicBlock, Alike
<1>4. next \in Seq(BasicBlock) /\ Len(next) = n
  <2> HIDE DEF next
  <2>1. next = [k \in 1..n |-> next[k]]
    BY <1>2 DEF next, AddEdge
  <2>2. next \in [1..n -> BasicBlock]
    BY <1>3, <2>1
  <2>3. QED
    BY <1>1, <2>2
<1>5. ASSUME NEW k \in 1..n PROVE Range(next[k].successors) \subseteq 0..(n - 1)
  <2>1. bs[k].successors \in Seq(Nat) /\ Range(bs[k].successors) \subseteq 0..(n - 1)
    BY <1>1 DEF EdgesWithin, BasicBlock
  <2>2. Range(Append(bs[k].successors, to)) \subseteq Range(bs[k].successors) \cup {to}
    BY <2>1 DEF Range
  <2>3. QED
    BY <1>3, <2>1, <2>2
<1>6. QED
  <2> HIDE DEF next
  <2>1. EdgesWithin(next)
    BY <1>2, <1>4, <1>5 DEF EdgesWithin
  <2>2. QED
    BY <1>1, <1>3, <1>4, <2>1 DEF next

-----------------------------------------------------------------------------
(* The code of a list of blocks.                                           *)
Codes(bs) == [k \in DOMAIN bs |-> bs[k].code]

LEMMA CodesType ==
  ASSUME NEW bs \in Seq(BasicBlock)
  PROVE  /\ Codes(bs) \in Seq(Seq(Exprs)) /\ CodeOf(bs) \in Seq(Exprs)
         /\ CodeOf(bs) = FlattenSeq(Codes(bs))
<1>1. Len(bs) \in Nat /\ DOMAIN bs = 1..Len(bs) /\ \A k \in 1..Len(bs) : bs[k].code \in Seq(Exprs)
  BY BlockFields
<1>2. Codes(bs) \in [1..Len(bs) -> Seq(Exprs)]
  BY <1>1 DEF Codes
<1>3. Codes(bs) \in Seq(Seq(Exprs))
  BY <1>1, <1>2
<1>4. CodeOf(bs) = FlattenSeq(Codes(bs))
  BY DEF CodeOf, Codes
<1>5. QED
  BY <1>3, <1>4, FlattenType

LEMMA CodeOfAlike ==
  ASSUME NEW bs \in Seq(BasicBlock), NEW cs \in Seq(BasicBlock), Len(bs) = Len(cs),
         \A k \in DOMAIN bs : cs[k].code = bs[k].code
  PROVE  CodeOf(cs) = CodeOf(bs)
<1>1. Codes(bs) = Codes(cs)
  BY DEF Codes
<1>2. QED
  BY <1>1, CodesType

LEMMA CodeOfAppend ==
  ASSUME NEW bs \in Seq(BasicBlock), NEW b \in BasicBlock
  PROVE  CodeOf(Append(bs, b)) = CodeOf(bs) \o b.code
<1>1. Append(bs, b) \in Seq(BasicBlock) /\ b.code \in Seq(Exprs)
  BY DEF BasicBlock
<1>2. Codes(Append(bs, b)) = Append(Codes(bs), b.code)
  <2>1. /\ Len(bs) \in Nat /\ DOMAIN bs = 1..Len(bs) /\ DOMAIN Append(bs, b) = 1..(Len(bs) + 1)
        /\ \A k \in 1..Len(bs) : Append(bs, b)[k] = bs[k]
        /\ Append(bs, b)[Len(bs) + 1] = b
    OBVIOUS
  <2>2. Codes(bs) \in Seq(Seq(Exprs)) /\ Len(Codes(bs)) = Len(bs)
    <3>1. Codes(bs) \in [1..Len(bs) -> Seq(Exprs)]
      BY <2>1, BlockFields DEF Codes
    <3>2. QED
      BY <2>1, <3>1
  <2>3. /\ Append(Codes(bs), b.code) \in Seq(Seq(Exprs))
        /\ Len(Append(Codes(bs), b.code)) = Len(bs) + 1
        /\ \A k \in 1..Len(bs) : Append(Codes(bs), b.code)[k] = Codes(bs)[k]
        /\ Append(Codes(bs), b.code)[Len(bs) + 1] = b.code
    BY <1>1, <2>2, AppendProperties
  <2>4. Codes(Append(bs, b)) \in Seq(Seq(Exprs)) /\ Len(Codes(Append(bs, b))) = Len(bs) + 1
    <3>1. Codes(Append(bs, b)) \in [1..(Len(bs) + 1) -> Seq(Exprs)]
      <4>1. \A k \in 1..(Len(bs) + 1) : Append(bs, b)[k].code \in Seq(Exprs)
        <5> TAKE k \in 1..(Len(bs) + 1)
        <5>1. CASE k = Len(bs) + 1
          BY <1>1, <2>1, <5>1
        <5>2. CASE k \in 1..Len(bs)
          BY <2>1, <5>2, BlockFields
        <5>3. QED
          BY <2>1, <5>1, <5>2
      <4>2. QED
        BY <2>1, <4>1 DEF Codes
    <3>2. QED
      BY <2>1, <3>1
  <2>5. \A k \in 1..(Len(bs) + 1) :
          Codes(Append(bs, b))[k] = Append(Codes(bs), b.code)[k]
    <3> TAKE k \in 1..(Len(bs) + 1)
    <3>1. Codes(Append(bs, b))[k] = Append(bs, b)[k].code
      BY <2>1 DEF Codes
    <3>2. CASE k = Len(bs) + 1
      BY <2>1, <2>3, <3>1, <3>2
    <3>3. CASE k \in 1..Len(bs)
      <4>1. Codes(bs)[k] = bs[k].code
        BY <2>1, <3>3 DEF Codes
      <4>2. Append(Codes(bs), b.code)[k] = Codes(bs)[k]
        BY <2>3, <3>3
      <4>3. Append(bs, b)[k] = bs[k]
        BY <2>1, <3>3
      <4>4. QED
        BY <3>1, <4>1, <4>2, <4>3
    <3>4. k = Len(bs) + 1 \/ k \in 1..Len(bs)
      BY <2>1
    <3>5. QED
      BY <3>2, <3>3, <3>4
  <2>6. QED
    BY <2>3, <2>4, <2>5, SeqEqual
<1>3. QED
  BY <1>1, <1>2, CodesType, FlattenAppend

LEMMA CodeOfLonger ==
  ASSUME NEW bs \in Seq(BasicBlock), bs # << >>, NEW c \in BasicBlock, NEW x \in Exprs,
         c.code = Append(bs[Len(bs)].code, x)
  PROVE  CodeOf([bs EXCEPT ![Len(bs)] = c]) = Append(CodeOf(bs), x)
<1> DEFINE n == Len(bs)
           front == SubSeq(bs, 1, n - 1)
           longer == [bs EXCEPT ![n] = c]
<1>1. n \in Nat \ {0} /\ DOMAIN bs = 1..n /\ \A k \in 1..n : bs[k] \in BasicBlock
  BY BlockFields, EmptySeq
<1>2. /\ front \in Seq(BasicBlock) /\ Len(front) = n - 1
      /\ \A k \in 1..(n - 1) : front[k] = bs[k]
  <2>1. n - 1 \in Int /\ \A k \in 1..(n - 1) : bs[k] \in BasicBlock
    BY <1>1
  <2>2. /\ front \in Seq(BasicBlock)
        /\ Len(front) = IF 1 <= n - 1 THEN (n - 1) - 1 + 1 ELSE 0
        /\ \A k \in 1..((n - 1) - 1 + 1) : front[k] = bs[1 + k - 1]
    BY <2>1, SubSeqProperties
  <2> HIDE DEF front
  <2>3. (n - 1) - 1 + 1 = n - 1 /\ \A k \in 1..(n - 1) : 1 + k - 1 = k
    BY <1>1
  <2>4. Len(front) = n - 1
    <3> HIDE DEF n
    <3>1. QED
      BY <1>1, <2>2
  <2>5. \A k \in 1..(n - 1) : front[k] = bs[k]
    BY <2>2, <2>3
  <2>6. QED
    BY <2>2, <2>4, <2>5
<1> HIDE DEF front
<1>3. \A b \in BasicBlock : /\ Append(front, b) \in Seq(BasicBlock) /\ Len(Append(front, b)) = n
                            /\ \A k \in 1..(n - 1) : Append(front, b)[k] = bs[k]
                            /\ Append(front, b)[n] = b
  <2> TAKE b \in BasicBlock
  <2>1. /\ Append(front, b) \in Seq(BasicBlock) /\ Len(Append(front, b)) = Len(front) + 1
        /\ \A k \in 1..Len(front) : Append(front, b)[k] = front[k]
        /\ Append(front, b)[Len(front) + 1] = b
    BY <1>2, AppendProperties
  <2>2. QED
    BY <1>1, <1>2, <2>1
<1>4. bs = Append(front, bs[n])
  <2>1. bs[n] \in BasicBlock
    BY <1>1
  <2>2. \A k \in 1..n : Append(front, bs[n])[k] = bs[k]
    <3>1. n \in Nat
      BY <1>1
    <3> HIDE DEF n
    <3>2. QED
      BY <1>3, <2>1, <3>1, UpTo
  <2>3. QED
    BY <1>3, <2>1, <2>2, SeqEqual
<1>5. longer = Append(front, c)
  <2>1. longer \in Seq(BasicBlock) /\ Len(longer) = n
        /\ \A k \in 1..n : longer[k] = IF k = n THEN c ELSE bs[k]
    BY <1>1, ExceptSeq
  <2>2. \A k \in 1..n : longer[k] = Append(front, c)[k]
    <3>1. n \in Nat
      BY <1>1
    <3> HIDE DEF n, longer
    <3>2. QED
      BY <1>3, <2>1, <3>1, UpTo
  <2> HIDE DEF longer
  <2>3. QED
    BY <1>3, <2>1, <2>2, SeqEqual
<1>6. CodeOf(longer) = CodeOf(front) \o Append(bs[n].code, x)
  BY <1>2, <1>5, CodeOfAppend
<1>7. CodeOf(bs) = CodeOf(front) \o bs[n].code
  <2>1. bs[n] \in BasicBlock
    BY <1>1
  <2>2. CodeOf(Append(front, bs[n])) = CodeOf(front) \o bs[n].code
    BY <1>2, <2>1, CodeOfAppend
  <2>3. QED
    BY <1>4, <2>2
<1>8. CodeOf(front) \in Seq(Exprs) /\ bs[n].code \in Seq(Exprs) /\ <<x>> \in Seq(Exprs)
  BY <1>1, <1>2, CodesType, BlockFields
<1>9. /\ Append(bs[n].code, x) = bs[n].code \o <<x>>
      /\ CodeOf(front) \o (bs[n].code \o <<x>>) = (CodeOf(front) \o bs[n].code) \o <<x>>
      /\ CodeOf(front) \o bs[n].code \in Seq(Exprs)
  <2>1. Append(bs[n].code, x) = bs[n].code \o <<x>>
    BY <1>8, AppendIsConcat
  <2>2. (CodeOf(front) \o bs[n].code) \o <<x>> = CodeOf(front) \o (bs[n].code \o <<x>>)
    <3> DEFINE u == CodeOf(front)
               v == bs[n].code
               w == <<x>>
    <3>1. u \in Seq(Exprs) /\ v \in Seq(Exprs) /\ w \in Seq(Exprs)
      BY <1>8
    <3> HIDE DEF u, v, w
    <3>2. (u \o v) \o w = u \o (v \o w)
      BY <3>1, ConcatAssociative, SMTT(30)
    <3>3. QED
      BY <3>2 DEF u, v, w
  <2>3. CodeOf(front) \o bs[n].code \in Seq(Exprs)
    BY <1>8, ConcatProperties
  <2>4. QED
    BY <2>1, <2>2, <2>3
<1>10. QED
  <2>1. Append(CodeOf(bs), x) = CodeOf(bs) \o <<x>>
    BY <1>7, <1>9, AppendIsConcat
  <2>2. QED
    BY <1>6, <1>7, <1>9, <2>1

-----------------------------------------------------------------------------
(* What the first m blocks of the first pass give in the second.           *)
ExpandedCode(bs, m) == FlattenSeq([k \in 1..m |-> Expanded(bs[k])])

LEMMA ExpandedType ==
  ASSUME ProgramsFit, NEW b \in BasicBlock
  PROVE  Expanded(b) \in Seq(Exprs)
<1>1. b.code \in Seq(Exprs)
  BY DEF BasicBlock
<1>2. CASE IsConditionalBlock(b)
  <2> DEFINE e == b.code[1]
  <2>1. e \in Exprs /\ IsIf(e)
    BY <1>1, <1>2 DEF IsConditionalBlock
  <2>2. e.cond \in Exprs /\ e.then \in Exprs /\ e.else \in Exprs
    BY <2>1 DEF ProgramsFit
  <2>3. <<e.cond>> \in Seq(Exprs) /\ Flatten(e.then) \in Seq(Exprs) /\ Flatten(e.else) \in Seq(Exprs)
    BY <2>2 DEF ProgramsFit
  <2> HIDE DEF e
  <2>4. (<<e.cond>> \o Flatten(e.then)) \o Flatten(e.else) \in Seq(Exprs)
    BY <2>3, ConcatProperties
  <2>5. QED
    BY <1>2, <2>4 DEF Expanded, e
<1>3. CASE ~ IsConditionalBlock(b)
  BY <1>1, <1>3 DEF Expanded
<1>4. QED
  BY <1>2, <1>3

LEMMA ExpandedNext ==
  ASSUME ProgramsFit, NEW bs \in Seq(BasicBlock), NEW m \in 1..Len(bs)
  PROVE  ExpandedCode(bs, m) = ExpandedCode(bs, m - 1) \o Expanded(bs[m])
<1> DEFINE given == [k \in 1..(m - 1) |-> Expanded(bs[k])]
           longer == [k \in 1..m |-> Expanded(bs[k])]
<1>1. m \in Nat \ {0} /\ \A k \in 1..m : bs[k] \in BasicBlock /\ Expanded(bs[k]) \in Seq(Exprs)
  BY BlockFields, ExpandedType
<1>2. given \in Seq(Seq(Exprs)) /\ Len(given) = m - 1 /\ longer \in Seq(Seq(Exprs)) /\ Len(longer) = m
  <2>1. given \in [1..(m - 1) -> Seq(Exprs)] /\ longer \in [1..m -> Seq(Exprs)]
    BY <1>1
  <2>2. m - 1 \in Nat /\ m \in Nat
    BY <1>1
  <2> HIDE DEF given, longer
  <2>3. QED
    BY <2>1, <2>2, FunctionIsSeq
<1>3. longer = Append(given, Expanded(bs[m]))
  <2>1. Expanded(bs[m]) \in Seq(Exprs)
    BY <1>1
  <2>2. /\ Append(given, Expanded(bs[m])) \in Seq(Seq(Exprs))
        /\ Len(Append(given, Expanded(bs[m]))) = m
        /\ \A k \in 1..(m - 1) : Append(given, Expanded(bs[m]))[k] = given[k]
        /\ Append(given, Expanded(bs[m]))[m] = Expanded(bs[m])
    <3> HIDE DEF given
    <3>1. /\ Append(given, Expanded(bs[m])) \in Seq(Seq(Exprs))
          /\ Len(Append(given, Expanded(bs[m]))) = Len(given) + 1
          /\ \A k \in 1..Len(given) : Append(given, Expanded(bs[m]))[k] = given[k]
          /\ Append(given, Expanded(bs[m]))[Len(given) + 1] = Expanded(bs[m])
      BY <1>2, <2>1, AppendProperties
    <3>2. (m - 1) + 1 = m
      BY <1>1
    <3>3. QED
      BY <1>2, <3>1, <3>2
  <2>3. \A k \in 1..m : longer[k] = Append(given, Expanded(bs[m]))[k]
    <3>1. \A k \in 1..m : longer[k] = Expanded(bs[k])
      OBVIOUS
    <3>2. \A k \in 1..(m - 1) : given[k] = Expanded(bs[k])
      OBVIOUS
    <3>3. \A k \in 1..m : k = m \/ k \in 1..(m - 1)
      BY <1>1
    <3> HIDE DEF given, longer
    <3>4. QED
      BY <2>2, <3>1, <3>2, <3>3
  <2> HIDE DEF given, longer
  <2>4. QED
    BY <1>2, <2>2, <2>3, SeqEqual
<1>4. FlattenSeq(Append(given, Expanded(bs[m]))) = FlattenSeq(given) \o Expanded(bs[m])
  <2> HIDE DEF given
  <2>1. QED
    BY <1>1, <1>2, FlattenAppend
<1>5. QED
  BY <1>3, <1>4 DEF ExpandedCode

(* A vector that has grown to n elements has room for them.                *)
LEMMA GrownFits ==
  ASSUME NEW c \in Nat, NEW n \in Nat
  PROVE  Grown(c, n) \in Nat /\ Grown(c, n) >= n
<1>1. CASE n <= c
  BY <1>1 DEF Grown
<1>2. CASE ~ (n <= c)
  <2> DEFINE first == IF c = 0 THEN 1 ELSE c
             Fits(f) == f = [k \in 0..n |-> IF k = 0 THEN first ELSE 2 * f[k - 1]]
             doubled == CHOOSE f : Fits(f)
             enough == {k \in 0..n : doubled[k] >= n}
  <2>1. Grown(c, n) = doubled[Min(enough)]
    BY <1>2 DEF Grown
  <2>2. \E f : Fits(f)
    <3> DEFINE F == [k \in 1..n |-> [v \in Nat |-> 2 * v]]
    <3>1. first \in Nat /\ F \in [1..n -> [Nat -> Nat]]
      OBVIOUS
    <3>2. PICK g : Follows(g, n, Nat, first, F)
      <4> HIDE DEF first, F
      <4>1. QED
        BY <3>1, Recursion
    <3>3. g \in [0..n -> Nat] /\ g[0] = first /\ \A k \in 1..n : g[k] = F[k][g[k - 1]]
      BY <3>2 DEF Follows
    <3>4. \A k \in 1..n : g[k - 1] \in Nat
      BY <3>3
    <3>5. \A k \in 1..n : g[k] = 2 * g[k - 1]
      BY <3>3, <3>4
    <3>6. \A k \in 0..n : g[k] = IF k = 0 THEN first ELSE 2 * g[k - 1]
      <4> HIDE DEF first, F
      <4>1. \A k \in 0..n : k = 0 \/ k \in 1..n
        OBVIOUS
      <4>2. QED
        BY <3>3, <3>5, <4>1
    <3>7. g = [k \in 0..n |-> IF k = 0 THEN first ELSE 2 * g[k - 1]]
      <4> HIDE DEF first, F
      <4>1. QED
        BY <3>3, <3>6
    <3>8. QED
      BY <3>7
  <2>3. doubled = [k \in 0..n |-> IF k = 0 THEN first ELSE 2 * doubled[k - 1]]
    <3>1. Fits(doubled)
      <4> HIDE DEF Fits
      <4>1. QED
        BY <2>2
    <3>2. QED
      BY <3>1
  <2> HIDE DEF doubled
  <2>4. \A k \in 0..n : doubled[k] = IF k = 0 THEN first ELSE 2 * doubled[k - 1]
    BY <2>3
  <2>5. \A k \in 0..n : doubled[k] \in Nat /\ doubled[k] >= k + 1
    <3> DEFINE P == {k \in 0..n : doubled[k] \in Nat /\ doubled[k] >= k + 1}
    <3>1. 0 \in P
      BY <2>4
    <3>2. ASSUME NEW k \in 0..(n - 1), k \in P PROVE k + 1 \in P
      <4>1. k + 1 \in 0..n /\ k + 1 # 0 /\ (k + 1) - 1 = k
        OBVIOUS
      <4>2. doubled[k + 1] = 2 * doubled[k]
        BY <2>4, <4>1
      <4>3. QED
        BY <3>2, <4>1, <4>2
    <3>3. 0..n \subseteq P
      <4> HIDE DEF P
      <4>1. QED
        BY <3>1, <3>2, Counting
    <3>4. QED
      BY <3>3
  <2>6. n \in enough /\ enough \subseteq Nat
    BY <2>5
  <2>7. Min(enough) \in enough
    <3>1. \E t \in enough : \A u \in enough : ~ (<<u, t>> \in OpToRel(<, Nat))
      <4> HIDE DEF enough
      <4>1. QED
        BY <2>6, WFMin, NatLessThanWellFounded
    <3>2. \E t \in enough : \A u \in enough : t <= u
      <4> HIDE DEF enough
      <4>1. PICK t \in enough : \A u \in enough : ~ (u < t)
        BY <2>6, <3>1 DEF OpToRel
      <4>2. \A u \in enough : t <= u
        BY <2>6, <4>1
      <4>3. QED
        BY <4>2
    <3> HIDE DEF enough
    <3>3. QED
      BY <3>2 DEF Min
  <2>8. QED
    BY <2>1, <2>5, <2>7
<1>3. QED
  BY <1>1, <1>2

-----------------------------------------------------------------------------
(* The inductive invariant.  Its parts say what each pass has made of the  *)
(* program so far.                                                         *)
Typed ==
  /\ flat \in Seq(Exprs)
  /\ graph \in Seq(BasicBlock) /\ refined \in Seq(BasicBlock) /\ graph # << >>
  /\ pc \in {"split", "refine", "finish", "done", "undefined"}
  /\ at \in 1..(Len(flat) + 1)
  /\ Numbered(graph) /\ Numbered(refined) /\ EdgesWithin(graph) /\ EdgesWithin(refined)
  /\ capacity \in Nat /\ capacity >= Len(refined)
  /\ entry_id = 0 /\ exit_id \in Nat

EntryFirst(bs) == \A k \in DOMAIN bs : bs[k].is_entry <=> k = 1

NothingToDo ==
  flat = << >> =>
    /\ pc = "done" /\ exit_id = 0 /\ refined = << >>
    /\ graph = << [NewBlock(0) EXCEPT !.is_entry = TRUE, !.is_exit = TRUE] >>

(* The instructions before at are in the blocks.                           *)
Cutting ==
  pc = "split" =>
    /\ at <= Len(flat) /\ Len(graph) <= at /\ refined = << >> /\ exit_id = 0
    /\ \A k \in DOMAIN graph : ~ graph[k].is_exit
    /\ CodeOf(graph) = SubSeq(flat, 1, at - 1)

Cut ==
  pc # "split" =>
    /\ CodeOf(graph) = flat
    /\ \A k \in DOMAIN graph : graph[k].is_exit <=> k = Len(graph)
    /\ flat # << >> => Len(graph) <= Len(flat)

(* The blocks before at have been copied or expanded.                      *)
Refining ==
  pc = "refine" =>
    /\ at <= Len(graph) /\ (at = 1 <=> refined = << >>)
    /\ \A k \in DOMAIN refined : ~ refined[k].is_exit
    /\ CodeOf(refined) = ExpandedCode(graph, at - 1)

RefinedAll ==
  pc \in {"finish", "done"} /\ flat # << >> =>
    /\ exit_id + 1 \in DOMAIN refined
    /\ \A k \in DOMAIN refined : refined[k].is_exit <=> k = exit_id + 1
    /\ CodeOf(refined) = ExpandedCode(graph, Len(graph))

(* The edges of the graph returned are at both ends, and lead to blocks.   *)
Linked ==
  /\ EdgesMirror
  /\ pc = "done" => \A k \in DOMAIN refined :
                      Range(refined[k].predecessors) \subseteq 0..(Len(refined) - 1)

Inv ==
  /\ Typed /\ EntryFirst(graph) /\ EntryFirst(refined)
  /\ NothingToDo /\ Cutting /\ Cut /\ Refining /\ RefinedAll /\ Linked

LEMMA CodeOfNone == CodeOf(<< >>) = << >>
<1>1. [k \in DOMAIN << >> |-> << >>[k].code] = << >>
  OBVIOUS
<1>2. QED
  BY <1>1, FlattenEmpty DEF CodeOf

LEMMA InitInv ==
  ASSUME ProgramsFit, Init
  PROVE  Inv
<1> DEFINE b == [NewBlock(0) EXCEPT !.is_entry = TRUE, !.is_exit = (flat = << >>)]
<1>1. /\ at = 1 /\ refined = << >> /\ capacity = 0 /\ entry_id = 0 /\ exit_id = 0
      /\ graph = <<b>> /\ pc = IF flat = << >> THEN "done" ELSE "split"
  BY DEF Init
<1>2. flat \in Seq(Exprs)
  <2>1. PICK p \in Programs : flat = FlattenSeq([k \in DOMAIN p |-> Flatten(p[k])])
    BY DEF Init
  <2>2. p \in Seq(Exprs)
    BY DEF ProgramsFit
  <2>3. Len(p) \in Nat /\ DOMAIN p = 1..Len(p) /\ \A k \in 1..Len(p) : p[k] \in Exprs
    BY <2>2
  <2>4. [k \in DOMAIN p |-> Flatten(p[k])] \in [1..Len(p) -> Seq(Exprs)]
    BY <2>3 DEF ProgramsFit
  <2>5. [k \in DOMAIN p |-> Flatten(p[k])] \in Seq(Seq(Exprs))
    BY <2>3, <2>4, FunctionIsSeq
  <2>6. QED
    BY <2>1, <2>5, FlattenType
<1>3. /\ b \in BasicBlock /\ b.id = 0 /\ b.is_entry = TRUE /\ (b.is_exit <=> flat = << >>)
      /\ b.code = << >> /\ b.successors = << >> /\ b.predecessors = << >>
  <2>1. /\ NewBlock(0) \in BasicBlock /\ NewBlock(0).id = 0 /\ NewBlock(0).code = << >>
        /\ NewBlock(0).successors = << >> /\ NewBlock(0).predecessors = << >>
    <3>1. NewBlock(0) \in BasicBlock
      BY NewBlockType
    <3>2. QED
      BY <3>1 DEF NewBlock
  <2>2. (flat = << >>) \in BOOLEAN
    OBVIOUS
  <2>3. QED
    BY <2>1, <2>2 DEF BasicBlock
<1> HIDE DEF b
<1>4. /\ graph \in Seq(BasicBlock) /\ Len(graph) = 1 /\ graph # << >>
      /\ \A k \in DOMAIN graph : k = 1 /\ graph[k] = b
  BY <1>1, <1>3
<1>5. Len(flat) \in Nat /\ (flat # << >> => Len(flat) > 0)
  BY <1>2, EmptySeq, LenProperties
<1>6. Typed
  <2>1. EdgesWithin(graph) /\ EdgesWithin(refined)
    BY <1>1, <1>3, <1>4 DEF EdgesWithin, Range
  <2>2. Numbered(graph) /\ Numbered(refined)
    BY <1>1, <1>3, <1>4 DEF Numbered
  <2>3. refined \in Seq(BasicBlock) /\ Len(refined) = 0
    BY <1>1
  <2>4. at \in 1..(Len(flat) + 1)
    BY <1>1, <1>5
  <2>5. QED
    BY <1>1, <1>2, <1>4, <2>1, <2>2, <2>3, <2>4 DEF Typed
<1>7. CodeOf(graph) = << >>
  <2>1. << >> \in Seq(BasicBlock) /\ Append(<< >>, b) = <<b>>
    OBVIOUS
  <2>2. CodeOf(Append(<< >>, b)) = CodeOf(<< >>) \o b.code
    BY <1>3, <2>1, CodeOfAppend
  <2>3. << >> \in Seq(Exprs)
    OBVIOUS
  <2>4. << >> \o << >> = << >>
    BY <2>3, ConcatEmptySeq
  <2>5. QED
    BY <1>1, <1>3, <2>1, <2>2, <2>4, CodeOfNone
<1>8. EntryFirst(graph) /\ EntryFirst(refined)
  BY <1>1, <1>3, <1>4 DEF EntryFirst
<1>9. NothingToDo
  BY <1>1 DEF NothingToDo, b
<1>10. Cutting
  <2>1. SubSeq(flat, 1, 0) = << >>
    BY SubSeqEmpty
  <2>2. pc = "split" => flat # << >> /\ at - 1 = 0 /\ at <= Len(flat) /\ Len(graph) <= at
    BY <1>1, <1>4, <1>5
  <2>3. pc = "split" => CodeOf(graph) = SubSeq(flat, 1, at - 1)
    BY <1>7, <2>1, <2>2
  <2>4. pc = "split" => \A k \in DOMAIN graph : ~ graph[k].is_exit
    BY <1>3, <1>4, <2>2
  <2>5. QED
    BY <1>1, <2>2, <2>3, <2>4 DEF Cutting
<1>11. Cut
  BY <1>1, <1>3, <1>4, <1>7 DEF Cut
<1>12. Refining /\ RefinedAll
  BY <1>1 DEF Refining, RefinedAll
<1>13. EdgesMirror
  <2> SUFFICES ASSUME pc = "done" PROVE EdgesMirror
    BY DEF EdgesMirror
  <2>1. Result = graph
    BY <1>1 DEF Result
  <2>2. /\ Range(b.successors) = {} /\ Range(b.predecessors) = {}
        /\ IsInjective(b.successors) /\ IsInjective(b.predecessors)
    BY <1>3 DEF Range, IsInjective
  <2>3. QED
    BY <1>4, <2>1, <2>2 DEF EdgesMirror
<1>14. Linked
  BY <1>1, <1>13 DEF Linked
<1>15. QED
  BY <1>6, <1>8, <1>9, <1>10, <1>11, <1>12, <1>14 DEF Inv

(* An instruction of the first pass.                                       *)
LEMMA SplitInv ==
  ASSUME ProgramsFit, Inv, Split
  PROVE  Inv'
<1> DEFINE n == Len(graph)
           x == flat[at]
           c == [graph[n] EXCEPT !.code = Append(@, x), !.is_exit = (at = Len(flat))]
           taken == [graph EXCEPT ![n] = c]
           cuts == IsIf(x) /\ at < Len(flat)
           longer == Append(taken, NewBlock(n))
<1>1. /\ flat \in Seq(Exprs) /\ graph \in Seq(BasicBlock) /\ Numbered(graph) /\ EdgesWithin(graph)
      /\ at \in 1..Len(flat) /\ Len(flat) \in Nat /\ n \in Nat \ {0} /\ n <= at
      /\ DOMAIN graph = 1..n /\ flat # << >> /\ refined = << >> /\ pc = "split" /\ exit_id = 0
      /\ CodeOf(graph) = SubSeq(flat, 1, at - 1)
      /\ \A k \in 1..n : ~ graph[k].is_exit /\ (graph[k].is_entry <=> k = 1)
  <2>1. n \in Nat \ {0} /\ DOMAIN graph = 1..n /\ Len(flat) \in Nat
    BY BlockFields, EmptySeq, LenProperties DEF Inv, Typed
  <2>2. flat # << >>
    BY DEF Inv, NothingToDo, Split
  <2>3. QED
    BY <2>1, <2>2 DEF Inv, Typed, Cutting, EntryFirst, Split
<1>2. x \in Exprs /\ n \in 1..n /\ graph[n] \in BasicBlock
  BY <1>1
<1>3. /\ c \in BasicBlock /\ c.code = Append(graph[n].code, x)
      /\ (c.is_exit <=> at = Len(flat)) /\ (c.is_entry <=> graph[n].is_entry) /\ c.id = graph[n].id
      /\ c.successors = graph[n].successors
  <2>1. Append(graph[n].code, x) \in Seq(Exprs)
    BY <1>2, AppendProperties DEF BasicBlock
  <2>2. QED
    BY <1>2, <2>1 DEF BasicBlock
<1>4. /\ graph' = IF cuts THEN AddEdge(longer, n - 1, n) ELSE taken
      /\ IF at < Len(flat) THEN pc' = pc /\ at' = at + 1 ELSE pc' = "refine" /\ at' = 1
      /\ UNCHANGED <<flat, refined, capacity, entry_id, exit_id>>
  <2>1. taken = [graph EXCEPT ![n].code = Append(@, x), ![n].is_exit = (at = Len(flat))]
    BY <1>1, <1>2
  <2>2. QED
    BY <2>1 DEF Split
<1> HIDE DEF c, x
<1>5. /\ taken \in Seq(BasicBlock) /\ Len(taken) = n /\ DOMAIN taken = 1..n
      /\ \A k \in 1..n : taken[k] = IF k = n THEN c ELSE graph[k]
  BY <1>1, <1>2, <1>3, ExceptSeq
<1> HIDE DEF taken
<1>6. \A k \in 1..n : /\ taken[k].successors = graph[k].successors
                      /\ taken[k].id = k - 1 /\ (taken[k].is_entry <=> k = 1)
                      /\ (taken[k].is_exit <=> k = n /\ at = Len(flat))
  <2> TAKE k \in 1..n
  <2>1. graph[k].id = k - 1
    BY <1>1 DEF Numbered
  <2>2. CASE k = n
    BY <1>1, <1>3, <1>5, <2>1, <2>2
  <2>3. CASE k # n
    BY <1>1, <1>5, <2>1, <2>3
  <2>4. QED
    BY <2>2, <2>3
<1>7. EdgesWithin(taken) /\ Numbered(taken)
  <2>1. \A k \in 1..n : Range(graph[k].successors) \subseteq 0..(n - 1)
    BY <1>1 DEF EdgesWithin
  <2> HIDE DEF n
  <2>2. EdgesWithin(taken)
    BY <1>5, <1>6, <2>1 DEF EdgesWithin
  <2>3. Numbered(taken)
    BY <1>5, <1>6 DEF Numbered
  <2>4. QED
    BY <2>2, <2>3
<1>8. /\ NewBlock(n) \in BasicBlock /\ NewBlock(n).code = << >> /\ NewBlock(n).successors = << >>
      /\ NewBlock(n).id = n /\ NewBlock(n).is_entry = FALSE /\ NewBlock(n).is_exit = FALSE
  <2>1. NewBlock(n) \in BasicBlock
    BY <1>1, NewBlockType
  <2>2. QED
    BY <2>1 DEF NewBlock
<1>9. /\ longer \in Seq(BasicBlock) /\ Len(longer) = n + 1 /\ DOMAIN longer = 1..(n + 1)
      /\ \A k \in 1..n : longer[k] = taken[k]
      /\ longer[n + 1] = NewBlock(n)
  <2>1. /\ longer \in Seq(BasicBlock) /\ Len(longer) = Len(taken) + 1
        /\ \A k \in 1..Len(taken) : longer[k] = taken[k]
        /\ longer[Len(taken) + 1] = NewBlock(n)
    <3> DEFINE b == NewBlock(n)
    <3>1. b \in BasicBlock
      BY <1>8
    <3> HIDE DEF b, n
    <3>2. /\ Append(taken, b) \in Seq(BasicBlock) /\ Len(Append(taken, b)) = Len(taken) + 1
          /\ \A k \in 1..Len(taken) : Append(taken, b)[k] = taken[k]
          /\ Append(taken, b)[Len(taken) + 1] = b
      BY <1>5, <3>1, AppendProperties
    <3>3. QED
      BY <3>2 DEF b
  <2>2. DOMAIN longer = 1..Len(longer)
    <3> HIDE DEF longer
    <3>1. QED
      BY <2>1, LenProperties
  <2> HIDE DEF longer
  <2>3. QED
    BY <1>5, <2>1, <2>2
<1> HIDE DEF longer
<1>10. EdgesWithin(longer)
  <2>1. Range(longer[n + 1].successors) = {}
    BY <1>8, <1>9 DEF Range
  <2>2. \A k \in 1..n : Range(longer[k].successors) \subseteq 0..(n - 1)
    BY <1>5, <1>7, <1>9 DEF EdgesWithin
  <2>3. 0..(n - 1) \subseteq 0..((n + 1) - 1) /\ \A k \in 1..(n + 1) : k = n + 1 \/ k \in 1..n
    BY <1>1
  <2>4. QED
    BY <1>9, <2>1, <2>2, <2>3 DEF EdgesWithin
<1>11. cuts => /\ graph' \in Seq(BasicBlock) /\ Len(graph') = n + 1 /\ DOMAIN graph' = 1..(n + 1)
               /\ \A k \in 1..(n + 1) : Alike(graph'[k], longer[k])
               /\ EdgesWithin(graph')
  <2>1. n - 1 \in 0..(Len(longer) - 1) /\ n \in 0..(Len(longer) - 1)
    BY <1>1, <1>9
  <2>2. /\ AddEdge(longer, n - 1, n) \in Seq(BasicBlock) /\ Len(AddEdge(longer, n - 1, n)) = n + 1
        /\ \A k \in 1..(n + 1) : Alike(AddEdge(longer, n - 1, n)[k], longer[k])
        /\ EdgesWithin(AddEdge(longer, n - 1, n))
    BY <1>9, <1>10, <2>1, AddEdgeKeeps
  <2>3. QED
    BY <1>4, <2>2
<1>12. CodeOf(graph') = Append(CodeOf(graph), x)
  <2>1. CodeOf(taken) = Append(CodeOf(graph), x)
    BY <1>1, <1>2, <1>3, CodeOfLonger, EmptySeq DEF taken
  <2>2. CASE ~ cuts
    BY <1>4, <2>1, <2>2
  <2>3. CASE cuts
    <3>1. CodeOf(graph') = CodeOf(longer)
      BY <1>9, <1>11, <2>3, CodeOfAlike DEF Alike
    <3>2. CodeOf(longer) = CodeOf(taken) \o << >>
      BY <1>5, <1>8, CodeOfAppend DEF longer
    <3>3. CodeOf(taken) \in Seq(Exprs)
      BY <1>5, CodesType
    <3>4. QED
      BY <2>1, <3>1, <3>2, <3>3, ConcatEmptySeq
  <2>4. QED
    BY <2>2, <2>3
<1>13. CodeOf(graph') = SubSeq(flat, 1, at)
  <2>1. 1 \in 1..Len(flat) /\ at \in 1..Len(flat)
    BY <1>1
  <2>2. SubSeq(flat, 1, at) = SubSeq(flat, 1, at - 1) \o <<flat[at]>>
    BY <1>1, <2>1, SubSeqRecursiveSecond
  <2>3. SubSeq(flat, 1, at - 1) \in Seq(Exprs)
    BY <1>1, CodesType
  <2>4. Append(SubSeq(flat, 1, at - 1), flat[at]) = SubSeq(flat, 1, at - 1) \o <<flat[at]>>
    BY <1>2, <2>3, AppendIsConcat DEF x
  <2>5. QED
    BY <1>1, <1>12, <2>2, <2>4 DEF x
<1>14. /\ graph' \in Seq(BasicBlock) /\ graph' # << >> /\ Numbered(graph') /\ EdgesWithin(graph')
       /\ EntryFirst(graph') /\ Len(graph') <= at + 1 /\ (at = Len(flat) => Len(graph') <= at)
       /\ \A k \in DOMAIN graph' : graph'[k].is_exit <=> (at = Len(flat) /\ k = Len(graph'))
  <2>1. CASE ~ cuts
    <3>1. graph' = taken
      BY <1>4, <2>1
    <3>2. graph' # << >>
      BY <1>1, <1>5, <3>1
    <3>3. EntryFirst(graph')
      BY <1>5, <1>6, <3>1 DEF EntryFirst
    <3>4. Numbered(graph') /\ EdgesWithin(graph')
      BY <1>7, <3>1
    <3>5. Len(graph') = n /\ DOMAIN graph' = 1..n /\ graph' \in Seq(BasicBlock)
      BY <1>5, <3>1
    <3>6. \A k \in 1..n : graph'[k].is_exit <=> (at = Len(flat) /\ k = n)
      BY <1>6, <3>1
    <3> HIDE DEF n
    <3>7. QED
      BY <1>1, <3>2, <3>3, <3>4, <3>5, <3>6
  <2>2. CASE cuts
    <3>0. at < Len(flat)
      BY <2>2
    <3>1. \A k \in 1..(n + 1) : k = n + 1 \/ k \in 1..n
      BY <1>1
    <3>2. \A k \in 1..(n + 1) : longer[k].id = k - 1 /\ ~ longer[k].is_exit /\ (longer[k].is_entry <=> k = 1)
      <4> TAKE k \in 1..(n + 1)
      <4>1. CASE k = n + 1
        BY <1>1, <1>8, <1>9, <4>1
      <4>2. CASE k \in 1..n
        BY <1>6, <1>9, <3>0, <4>2
      <4>3. QED
        BY <3>1, <4>1, <4>2
    <3>3. \A k \in 1..(n + 1) : graph'[k].id = k - 1 /\ ~ graph'[k].is_exit /\ (graph'[k].is_entry <=> k = 1)
      BY <1>11, <2>2, <3>2 DEF Alike
    <3>4. Numbered(graph') /\ EntryFirst(graph')
      BY <1>11, <2>2, <3>3 DEF Numbered, EntryFirst
    <3>5. QED
      BY <1>1, <1>11, <2>2, <3>0, <3>3, <3>4
  <2>3. QED
    BY <2>1, <2>2
<1> HIDE DEF n, cuts
<1>15. Typed'
  <2>1. at' \in 1..(Len(flat') + 1) /\ pc' \in {"split", "refine"}
    BY <1>1, <1>4
  <2>2. QED
    BY <1>4, <1>14, <2>1 DEF Inv, Typed
<1>16. EntryFirst(refined') /\ NothingToDo' /\ Refining' /\ RefinedAll' /\ Linked'
  <2>1. flat' # << >> /\ refined' = << >> /\ pc' \in {"split", "refine"}
    BY <1>1, <1>4
  <2>2. pc' = "refine" => at' = 1
    BY <1>1, <1>4
  <2>3. pc' = "refine" => at' <= Len(graph')
    BY <1>14, <2>2, EmptySeq
  <2>4. ExpandedCode(graph', 0) = << >>
    <3>1. [k \in 1..0 |-> Expanded(graph'[k])] = << >>
      OBVIOUS
    <3>2. QED
      BY <3>1, FlattenEmpty DEF ExpandedCode
  <2>5. Refining'
    <3>1. pc' = "refine" => at' - 1 = 0
      BY <2>2
    <3>2. pc' = "refine" => CodeOf(refined') = ExpandedCode(graph', at' - 1)
      BY <2>1, <2>4, <3>1, CodeOfNone
    <3>3. QED
      BY <2>1, <2>2, <2>3, <3>2 DEF Refining
  <2>6. QED
    BY <2>1, <2>5 DEF EntryFirst, NothingToDo, RefinedAll, Linked, EdgesMirror
<1>17. Cutting'
  <2>1. pc' = "split" => at' = at + 1 /\ at < Len(flat)
    BY <1>4
  <2>2. pc' = "split" => at' <= Len(flat') /\ Len(graph') <= at' /\ (at' - 1 = at)
    BY <1>1, <1>4, <1>14, <2>1
  <2>3. QED
    BY <1>1, <1>4, <1>13, <1>14, <2>1, <2>2 DEF Cutting
<1>18. Cut'
  <2>1. pc' # "split" => at = Len(flat)
    BY <1>1, <1>4
  <2>2. pc' # "split" => CodeOf(graph') = flat
    BY <1>1, <1>13, <2>1, SubSeqFull
  <2>3. QED
    BY <1>1, <1>4, <1>14, <2>1, <2>2 DEF Cut
<1>19. QED
  BY <1>14, <1>15, <1>16, <1>17, <1>18 DEF Inv

(* bs is refined with blocks added that hold what the block at at gives:   *)
(* the first is an entry and the one numbered last an exit if that is.     *)
Grows(bs, last) ==
  /\ bs \in Seq(BasicBlock) /\ Len(bs) > Len(refined) /\ Numbered(bs) /\ EdgesWithin(bs)
  /\ last \in Len(refined)..(Len(bs) - 1)
  /\ \A k \in 1..Len(refined) : /\ bs[k].is_entry <=> refined[k].is_entry
                                /\ bs[k].is_exit <=> refined[k].is_exit
  /\ \A k \in (Len(refined) + 1)..Len(bs) :
       /\ bs[k].is_entry <=> k = Len(refined) + 1 /\ graph[at].is_entry
       /\ bs[k].is_exit <=> k = last + 1 /\ graph[at].is_exit
  /\ CodeOf(bs) = CodeOf(refined) \o Expanded(graph[at])

LEMMA RefinedInv ==
  ASSUME ProgramsFit, Inv, pc = "refine", NEW bs, NEW last, Grows(bs, last),
         Refined(bs, Len(refined), last)
  PROVE  Inv'
<1> DEFINE n == Len(refined)
<1>1. /\ n \in Nat /\ DOMAIN refined = 1..n /\ Len(bs) \in Nat /\ DOMAIN bs = 1..Len(bs)
      /\ Len(graph) \in Nat /\ DOMAIN graph = 1..Len(graph) /\ graph \in Seq(BasicBlock)
      /\ Len(flat) \in Nat /\ last \in Nat /\ n <= last /\ last < Len(bs) /\ n < Len(bs)
      /\ bs \in Seq(BasicBlock) /\ Numbered(bs) /\ EdgesWithin(bs)
  BY BlockFields DEF Inv, Typed, Grows
<1>2. /\ at \in 1..Len(graph) /\ (at = 1 <=> n = 0) /\ flat # << >>
      /\ Len(graph) <= Len(flat) /\ CodeOf(graph) = flat
      /\ CodeOf(refined) = ExpandedCode(graph, at - 1)
      /\ graph[at].is_entry <=> at = 1
      /\ graph[at].is_exit <=> at = Len(graph)
      /\ \A k \in 1..n : ~ refined[k].is_exit /\ (refined[k].is_entry <=> k = 1)
      /\ \A k \in DOMAIN graph : graph[k].is_exit <=> k = Len(graph)
  <2>1. flat # << >>
    BY DEF Inv, NothingToDo
  <2>2. at \in 1..Len(graph)
    BY <1>1 DEF Inv, Typed, Refining
  <2>3. refined = << >> <=> n = 0
    <3>1. refined \in Seq(BasicBlock)
      BY DEF Inv, Typed
    <3>2. QED
      BY <3>1, EmptySeq
  <2>4. QED
    BY <1>1, <2>1, <2>2, <2>3 DEF Inv, Typed, EntryFirst, Cut, Refining
<1>3. /\ refined' = bs /\ capacity' = Grown(capacity, Len(bs))
      /\ entry_id' = 0 /\ exit_id' = IF at = Len(graph) THEN last ELSE exit_id
      /\ IF at < Len(graph) THEN pc' = "refine" /\ at' = at + 1 ELSE pc' = "finish" /\ at' = 1
      /\ flat' = flat /\ graph' = graph
  BY <1>1, <1>2 DEF Refined, Inv, Typed
<1>0. /\ at \in Nat /\ 1 <= at /\ at <= Len(graph) /\ Len(graph) <= Len(flat)
      /\ (at < Len(graph) \/ at = Len(graph))
  <2>1. at \in 1..Len(graph) /\ Len(graph) <= Len(flat)
    BY <1>2
  <2>2. Len(graph) \in Nat
    BY <1>1
  <2>3. QED
    BY <2>1, <2>2
<1> HIDE DEF n
<1>4. CodeOf(bs) = ExpandedCode(graph, at)
  BY <1>1, <1>2, ExpandedNext, ZenonT(60) DEF Grows
<1>5. Typed'
  <2>1. capacity' \in Nat /\ capacity' >= Len(bs)
    BY <1>1, <1>3, GrownFits DEF Inv, Typed
  <2>2. at' \in 1..(Len(flat) + 1)
    <3>1. at' = at + 1 \/ at' = 1
      BY <1>3
    <3>2. Len(flat') = Len(flat) /\ Len(flat) \in Nat
      BY <1>1, <1>3
    <3>3. QED
      BY <1>0, <3>1, <3>2
  <2>4. exit_id' \in Nat
    BY <1>1, <1>3 DEF Inv, Typed
  <2>3. QED
    BY <1>1, <1>3, <2>1, <2>2, <2>4 DEF Inv, Typed
<1>6. EntryFirst(graph')
  BY <1>3 DEF Inv
<1>7. \A k \in 1..Len(bs) : k \in 1..n \/ k \in (n + 1)..Len(bs)
  BY <1>1
<1>8. EntryFirst(refined')
  <2>1. \A k \in 1..Len(bs) : bs[k].is_entry <=> k = 1
    <3> TAKE k \in 1..Len(bs)
    <3>1. CASE k \in 1..n
      BY <1>2, <3>1 DEF n, Grows
    <3>2. CASE k \in (n + 1)..Len(bs)
      <4>1. k = n + 1 /\ at = 1 <=> k = 1
        <5>1. k \in Nat /\ k >= n + 1
          BY <1>1, <3>2
        <5>2. at = 1 <=> n = 0
          BY <1>2
        <5>3. QED
          BY <1>1, <5>1, <5>2
      <4>2. QED
        BY <1>2, <3>2, <4>1 DEF n, Grows
    <3>3. QED
      BY <1>7, <3>1, <3>2
  <2>2. QED
    BY <1>1, <1>3, <2>1 DEF EntryFirst
<1>9. \A k \in 1..Len(bs) : bs[k].is_exit <=> k = last + 1 /\ at = Len(graph)
  <2> TAKE k \in 1..Len(bs)
  <2>1. CASE k \in 1..n
    <3>1. k # last + 1
      BY <1>1, <2>1
    <3>3. ~ bs[k].is_exit
      BY <1>2, <2>1 DEF n, Grows
    <3>2. QED
      BY <3>1, <3>3
  <2>2. CASE k \in (n + 1)..Len(bs)
    BY <1>2, <2>2 DEF n, Grows
  <2>3. QED
    BY <1>7, <2>1, <2>2
<1>10. NothingToDo' /\ Cutting' /\ Linked'
  BY <1>2, <1>3 DEF NothingToDo, Cutting, Linked, EdgesMirror
<1>11. Cut'
  BY <1>2, <1>3 DEF Cut
<1>12. Refining'
  <2> SUFFICES ASSUME pc' = "refine" PROVE Refining'
    BY DEF Refining
  <2>1. at < Len(graph) /\ at' = at + 1 /\ at' - 1 = at /\ at' # 1
    <3>1. at < Len(graph) /\ at' = at + 1
      BY <1>3
    <3>2. QED
      BY <1>0, <3>1
  <2>2. bs # << >>
    BY <1>1, EmptySeq
  <2>3. at' <= Len(graph) /\ (at' = 1 <=> bs = << >>)
    BY <1>0, <2>1, <2>2
  <2>4. \A k \in DOMAIN bs : ~ bs[k].is_exit
    BY <1>1, <1>9, <2>1
  <2>5. QED
    BY <1>3, <1>4, <2>1, <2>3, <2>4 DEF Refining
<1>13. RefinedAll'
  <2> SUFFICES ASSUME pc' = "finish" PROVE RefinedAll'
    BY <1>3 DEF RefinedAll
  <2>1. at = Len(graph) /\ exit_id' = last
    <3>1. ~ (at < Len(graph))
      BY <1>3
    <3>2. QED
      BY <1>0, <1>3, <3>1
  <2>2. last + 1 \in 1..Len(bs)
    BY <1>1
  <2>3. QED
    BY <1>1, <1>3, <1>4, <1>9, <2>1, <2>2 DEF RefinedAll
<1>14. QED
  BY <1>5, <1>6, <1>8, <1>10, <1>11, <1>12, <1>13 DEF Inv

LEMMA CopyBlockInv ==
  ASSUME ProgramsFit, Inv, CopyBlock
  PROVE  Inv'
<1> DEFINE n == Len(refined)
           bb == graph[at]
           b == [NewBlock(n) EXCEPT !.is_entry = bb.is_entry, !.is_exit = bb.is_exit, !.code = bb.code]
           bs == Append(refined, b)
<1>1. /\ n \in Nat /\ DOMAIN refined = 1..n /\ refined \in Seq(BasicBlock)
      /\ pc = "refine" /\ bb \in BasicBlock /\ Numbered(refined) /\ EdgesWithin(refined)
  BY BlockFields DEF Inv, Typed, Refining, CopyBlock
<1>2. /\ b \in BasicBlock /\ b.id = n /\ b.code = bb.code /\ b.successors = << >>
      /\ (b.is_entry <=> bb.is_entry) /\ (b.is_exit <=> bb.is_exit)
  <2>1. NewBlock(n) \in BasicBlock /\ NewBlock(n).id = n /\ NewBlock(n).successors = << >>
    <3>1. NewBlock(n) \in BasicBlock
      BY <1>1, NewBlockType
    <3>2. QED
      BY <3>1 DEF NewBlock
  <2> HIDE DEF n, bb
  <2>2. QED
    BY <1>1, <2>1 DEF BasicBlock
<1>3. Refined(bs, n, n) /\ ~ IsConditionalBlock(bb)
  BY DEF CopyBlock
<1> HIDE DEF b
<1>4. /\ bs \in Seq(BasicBlock) /\ Len(bs) = n + 1 /\ DOMAIN bs = 1..(n + 1)
      /\ \A k \in 1..n : bs[k] = refined[k]
      /\ bs[n + 1] = b
  BY <1>1, <1>2, AppendProperties
<1>5. CodeOf(bs) = CodeOf(refined) \o Expanded(bb)
  BY <1>1, <1>2, <1>3, CodeOfAppend DEF Expanded
<1> HIDE DEF bs
<1>6. \A k \in 1..(n + 1) : k = n + 1 \/ k \in 1..n
  BY <1>1
<1>7. Numbered(bs)
  <2>1. \A k \in 1..n : refined[k].id = k - 1
    BY <1>1 DEF Numbered
  <2>2. n = (n + 1) - 1
    BY <1>1
  <2>3. QED
    BY <1>2, <1>4, <1>6, <2>1, <2>2 DEF Numbered
<1>8. EdgesWithin(bs)
  <2>1. \A k \in 1..n : Range(bs[k].successors) \subseteq 0..(n - 1)
    BY <1>1, <1>4 DEF EdgesWithin
  <2>2. Range(bs[n + 1].successors) = {}
    BY <1>2, <1>4 DEF Range
  <2>3. 0..(n - 1) \subseteq 0..((n + 1) - 1)
    BY <1>1
  <2>4. QED
    BY <1>4, <1>6, <2>1, <2>2, <2>3 DEF EdgesWithin
<1>9. Len(bs) > Len(refined) /\ n \in Len(refined)..(Len(bs) - 1)
  BY <1>1, <1>4
<1>10. \A k \in 1..Len(refined) : /\ bs[k].is_entry <=> refined[k].is_entry
                                  /\ bs[k].is_exit <=> refined[k].is_exit
  BY <1>4
<1>11. \A k \in (Len(refined) + 1)..Len(bs) :
           /\ bs[k].is_entry <=> k = Len(refined) + 1 /\ graph[at].is_entry
           /\ bs[k].is_exit <=> k = n + 1 /\ graph[at].is_exit
  <2> TAKE k \in (Len(refined) + 1)..Len(bs)
  <2>1. k = n + 1
    BY <1>1, <1>4
  <2>2. QED
    BY <1>2, <1>4, <2>1
<1>12. Grows(bs, n)
  BY <1>4, <1>5, <1>7, <1>8, <1>9, <1>10, <1>11 DEF Grows
<1>13. QED
  BY <1>1, <1>3, <1>12, RefinedInv

DiamondEdges(bs, c, t, e, m) == AddEdge(AddEdge(AddEdge(AddEdge(bs, c, t), c, e), t, m), e, m)

(* Edges between blocks change nothing but the blocks' edges.              *)
LEMMA FourEdges ==
  ASSUME NEW bs \in Seq(BasicBlock), EdgesWithin(bs),
         NEW c \in 0..(Len(bs) - 1), NEW t \in 0..(Len(bs) - 1),
         NEW e \in 0..(Len(bs) - 1), NEW m \in 0..(Len(bs) - 1),
         NEW es, es = DiamondEdges(bs, c, t, e, m)
  PROVE  /\ es \in Seq(BasicBlock) /\ Len(es) = Len(bs) /\ EdgesWithin(es)
         /\ \A k \in DOMAIN bs : Alike(es[k], bs[k])
<1> DEFINE b1 == AddEdge(bs, c, t)
           b2 == AddEdge(b1, c, e)
           b3 == AddEdge(b2, t, m)
           b4 == AddEdge(b3, e, m)
<1>0. DOMAIN bs = 1..Len(bs)
  OBVIOUS
<1>1. /\ b1 \in Seq(BasicBlock) /\ Len(b1) = Len(bs) /\ EdgesWithin(b1)
      /\ \A k \in 1..Len(bs) : Alike(b1[k], bs[k])
  BY <1>0, AddEdgeKeeps
<1> HIDE DEF b1
<1>2. /\ b2 \in Seq(BasicBlock) /\ Len(b2) = Len(bs) /\ EdgesWithin(b2)
      /\ \A k \in 1..Len(bs) : Alike(b2[k], b1[k])
  <2>1. DOMAIN b1 = 1..Len(bs)
    BY <1>1
  <2>2. QED
    BY <1>1, <2>1, AddEdgeKeeps
<1> HIDE DEF b2
<1>3. /\ b3 \in Seq(BasicBlock) /\ Len(b3) = Len(bs) /\ EdgesWithin(b3)
      /\ \A k \in 1..Len(bs) : Alike(b3[k], b2[k])
  <2>1. DOMAIN b2 = 1..Len(bs)
    BY <1>2
  <2>2. QED
    BY <1>2, <2>1, AddEdgeKeeps
<1> HIDE DEF b3
<1>4. /\ b4 \in Seq(BasicBlock) /\ Len(b4) = Len(bs) /\ EdgesWithin(b4)
      /\ \A k \in 1..Len(bs) : Alike(b4[k], b3[k])
  <2>1. DOMAIN b3 = 1..Len(bs)
    BY <1>3
  <2>2. QED
    BY <1>3, <2>1, AddEdgeKeeps
<1> HIDE DEF b4
<1>5. \A k \in DOMAIN bs : Alike(b4[k], bs[k])
  BY <1>0, <1>1, <1>2, <1>3, <1>4 DEF Alike
<1>6. QED
  BY <1>4, <1>5 DEF b1, b2, b3, b4, DiamondEdges

LEMMA OneMore ==
  ASSUME NEW bs \in Seq(BasicBlock), NEW b \in BasicBlock,
         NEW n \in Nat, NEW m \in Nat, Len(bs) = n, m = n + 1
  PROVE  /\ Append(bs, b) \in Seq(BasicBlock) /\ Len(Append(bs, b)) = m
         /\ \A k \in 1..n : Append(bs, b)[k] = bs[k]
         /\ Append(bs, b)[m] = b /\ CodeOf(Append(bs, b)) = CodeOf(bs) \o b.code
BY CodeOfAppend, AppendProperties

FourMore(bs, b1, b2, b3, b4) == bs \o <<b1, b2, b3, b4>>
CodeOfAll(bs, b1, b2, b3, b4) ==
  (((CodeOf(bs) \o b1.code) \o b2.code) \o b3.code) \o b4.code

(* The code of blocks with four more.                                      *)
LEMMA CodeOfFourMore ==
  ASSUME NEW bs \in Seq(BasicBlock), NEW b1 \in BasicBlock, NEW b2 \in BasicBlock,
         NEW b3 \in BasicBlock, NEW b4 \in BasicBlock,
         NEW four, four = FourMore(bs, b1, b2, b3, b4)
  PROVE  /\ four \in Seq(BasicBlock)
         /\ CodeOf(four) = CodeOfAll(bs, b1, b2, b3, b4)
<1> DEFINE c1 == Append(bs, b1)
           c2 == Append(c1, b2)
           c3 == Append(c2, b3)
           c4 == Append(c3, b4)
           n == Len(bs)
<1>1. /\ c1 \in Seq(BasicBlock) /\ Len(c1) = n + 1 /\ n \in Nat
      /\ \A k \in 1..n : c1[k] = bs[k]
      /\ c1[n + 1] = b1 /\ CodeOf(c1) = CodeOf(bs) \o b1.code
  BY CodeOfAppend, AppendProperties, LenProperties
<1> HIDE DEF c1, n
<1>2. /\ c2 \in Seq(BasicBlock) /\ Len(c2) = n + 2
      /\ \A k \in 1..(n + 1) : c2[k] = c1[k]
      /\ c2[n + 2] = b2 /\ CodeOf(c2) = CodeOf(c1) \o b2.code
  <2>1. n + 2 = (n + 1) + 1 /\ n + 1 \in Nat /\ n + 2 \in Nat
    BY <1>1
  <2>2. QED
    BY <1>1, <2>1, OneMore, ZenonT(60)
<1> HIDE DEF c2
<1>3. /\ c3 \in Seq(BasicBlock) /\ Len(c3) = n + 3
      /\ \A k \in 1..(n + 2) : c3[k] = c2[k]
      /\ c3[n + 3] = b3 /\ CodeOf(c3) = CodeOf(c2) \o b3.code
  <2>1. n + 3 = (n + 2) + 1 /\ n + 2 \in Nat /\ n + 3 \in Nat
    BY <1>1
  <2>2. QED
    BY <1>2, <2>1, OneMore, ZenonT(60)
<1> HIDE DEF c3
<1>4. /\ c4 \in Seq(BasicBlock) /\ Len(c4) = n + 4
      /\ \A k \in 1..(n + 3) : c4[k] = c3[k]
      /\ c4[n + 4] = b4 /\ CodeOf(c4) = CodeOf(c3) \o b4.code
  <2>1. n + 4 = (n + 3) + 1 /\ n + 3 \in Nat /\ n + 4 \in Nat
    BY <1>1
  <2>2. QED
    BY <1>3, <2>1, OneMore, ZenonT(60)
<1> HIDE DEF c4
<1>5. /\ four \in Seq(BasicBlock)
      /\ Len(four) = n + 4
      /\ \A k \in 1..n : four[k] = bs[k]
      /\ four[n + 1] = b1 /\ four[n + 2] = b2
      /\ four[n + 3] = b3 /\ four[n + 4] = b4
  BY <1>1 DEF n, FourMore
<1>6. \A k \in 1..(n + 4) : k \in 1..n \/ k = n + 1 \/ k = n + 2 \/ k = n + 3 \/ k = n + 4
  BY <1>1
<1>7. \A k \in 1..n : k \in 1..(n + 1) /\ k \in 1..(n + 2) /\ k \in 1..(n + 3)
  BY <1>1
<1>8. /\ n + 1 \in 1..(n + 1) /\ n + 1 \in 1..(n + 2) /\ n + 1 \in 1..(n + 3)
      /\ n + 2 \in 1..(n + 2) /\ n + 2 \in 1..(n + 3) /\ n + 3 \in 1..(n + 3)
  BY <1>1
<1>9. \A k \in 1..(n + 4) : four[k] = c4[k]
  <2> TAKE k \in 1..(n + 4)
  <2> HIDE DEF n
  <2>1. CASE k \in 1..n
    BY <1>1, <1>2, <1>3, <1>4, <1>5, <1>7, <2>1
  <2>2. CASE k = n + 1
    BY <1>1, <1>2, <1>3, <1>4, <1>5, <1>8, <2>2
  <2>3. CASE k = n + 2
    BY <1>2, <1>3, <1>4, <1>5, <1>8, <2>3
  <2>4. CASE k = n + 3
    BY <1>3, <1>4, <1>5, <1>8, <2>4
  <2>5. CASE k = n + 4
    BY <1>4, <1>5, <2>5
  <2>6. QED
    BY <1>6, <2>1, <2>2, <2>3, <2>4, <2>5
<1>10. four = c4
  BY <1>4, <1>5, <1>9, SeqEqual
<1>11. QED
  BY <1>1, <1>2, <1>3, <1>4, <1>10 DEF CodeOfAll

LEMMA ExpandConditionalInv ==
  ASSUME ProgramsFit, Inv, ExpandConditional
  PROVE  Inv'
<1> DEFINE n == Len(refined)
           bb == graph[at]
           x == bb.code[1]
           b1 == [NewBlock(n) EXCEPT !.is_entry = bb.is_entry, !.code = <<x.cond>>]
           b2 == [NewBlock(n + 1) EXCEPT !.code = Flatten(x.then)]
           b3 == [NewBlock(n + 2) EXCEPT !.code = Flatten(x.else)]
           b4 == [NewBlock(n + 3) EXCEPT !.is_exit = bb.is_exit]
           four == refined \o <<b1, b2, b3, b4>>
<1>1. /\ n \in Nat /\ DOMAIN refined = 1..n /\ refined \in Seq(BasicBlock)
      /\ pc = "refine" /\ bb \in BasicBlock /\ Numbered(refined) /\ EdgesWithin(refined)
      /\ flat # << >>
  BY BlockFields DEF Inv, Typed, Refining, NothingToDo, ExpandConditional
<1>2. /\ IsConditionalBlock(bb) /\ Expanded(bb) = (<<x.cond>> \o Flatten(x.then)) \o Flatten(x.else)
      /\ <<x.cond>> \in Seq(Exprs) /\ Flatten(x.then) \in Seq(Exprs) /\ Flatten(x.else) \in Seq(Exprs)
  <2>1. IsConditionalBlock(bb)
    BY DEF ExpandConditional
  <2>2. bb.code \in Seq(Exprs)
    BY <1>1 DEF BasicBlock
  <2>3. x \in Exprs /\ IsIf(x)
    BY <2>1, <2>2 DEF IsConditionalBlock
  <2>4. x.cond \in Exprs /\ x.then \in Exprs /\ x.else \in Exprs
    BY <2>3 DEF ProgramsFit
  <2>5. <<x.cond>> \in Seq(Exprs) /\ Flatten(x.then) \in Seq(Exprs) /\ Flatten(x.else) \in Seq(Exprs)
    BY <2>4 DEF ProgramsFit
  <2>6. QED
    BY <2>1, <2>5 DEF Expanded
<1> DEFINE New(b, id, code, entry, exit) ==
             /\ b \in BasicBlock /\ b.id = id /\ b.code = code /\ b.successors = << >>
             /\ (b.is_entry <=> entry) /\ (b.is_exit <=> exit)
<1>3. /\ New(b1, n, <<x.cond>>, bb.is_entry, FALSE)
      /\ New(b2, n + 1, Flatten(x.then), FALSE, FALSE)
      /\ New(b3, n + 2, Flatten(x.else), FALSE, FALSE)
      /\ New(b4, n + 3, << >>, FALSE, bb.is_exit)
  <2>1. \A id \in Nat : /\ NewBlock(id) \in BasicBlock /\ NewBlock(id).id = id
                        /\ NewBlock(id).successors = << >> /\ NewBlock(id).code = << >>
                        /\ NewBlock(id).is_entry = FALSE /\ NewBlock(id).is_exit = FALSE
    <3> TAKE id \in Nat
    <3>1. NewBlock(id) \in BasicBlock
      BY NewBlockType
    <3>2. QED
      BY <3>1 DEF NewBlock
  <2>2. n \in Nat /\ n + 1 \in Nat /\ n + 2 \in Nat /\ n + 3 \in Nat
    BY <1>1
  <2>3. bb.is_entry \in BOOLEAN /\ bb.is_exit \in BOOLEAN
    BY <1>1 DEF BasicBlock
  <2> HIDE DEF n, bb, x
  <2>4. New(b1, n, <<x.cond>>, bb.is_entry, FALSE)
    <3> DEFINE u == <<x.cond>>
               nb == NewBlock(n)
    <3>1. u \in Seq(Exprs) /\ nb \in BasicBlock /\ nb.id = n /\ nb.successors = << >> /\ nb.is_exit = FALSE
      BY <1>2, <2>1, <2>2
    <3>2. b1 = [nb EXCEPT !.is_entry = bb.is_entry, !.code = u]
      OBVIOUS
    <3> HIDE DEF u, nb, b1
    <3>3. New(b1, n, u, bb.is_entry, FALSE)
      BY <2>3, <3>1, <3>2 DEF BasicBlock
    <3>4. QED
      BY <3>3 DEF u
  <2>5. New(b2, n + 1, Flatten(x.then), FALSE, FALSE)
    BY <1>2, <2>1, <2>2, <2>3 DEF BasicBlock
  <2>6. New(b3, n + 2, Flatten(x.else), FALSE, FALSE)
    BY <1>2, <2>1, <2>2, <2>3 DEF BasicBlock
  <2>7. New(b4, n + 3, << >>, FALSE, bb.is_exit)
    BY <1>2, <2>1, <2>2, <2>3 DEF BasicBlock
  <2>8. QED
    BY <2>4, <2>5, <2>6, <2>7
<1>4. PICK c \in IdsRead(n, n + 4), t \in IdsRead(n + 1, n + 4), e \in IdsRead(n + 2, n + 4) :
        IF n + 4 \in {c, t, e}
        THEN pc' = "undefined" /\ UNCHANGED <<flat, at, graph, refined, capacity, entry_id, exit_id>>
        ELSE Refined(AddEdge(AddEdge(AddEdge(AddEdge(four, c, t), c, e), t, n + 3), e, n + 3),
                     n, n + 3)
  <2>1. refined \o Diamond(graph[at], Len(refined)) = four
    BY DEF Diamond
  <2>2. QED
    BY <2>1 DEF ExpandConditional
<1> HIDE DEF b1, b2, b3, b4
<1>5. /\ four \in Seq(BasicBlock)
      /\ CodeOf(four) = (((CodeOf(refined) \o <<x.cond>>) \o Flatten(x.then)) \o Flatten(x.else)) \o << >>
  <2> HIDE DEF x, bb
  <2>1. /\ four \in Seq(BasicBlock)
        /\ CodeOf(four) = (((CodeOf(refined) \o b1.code) \o b2.code) \o b3.code) \o b4.code
    <3>1. b1 \in BasicBlock /\ b2 \in BasicBlock /\ b3 \in BasicBlock /\ b4 \in BasicBlock
      BY <1>3
    <3>2. four = FourMore(refined, b1, b2, b3, b4)
      BY DEF FourMore
    <3> HIDE DEF four, n, New
    <3>3. refined \in Seq(BasicBlock)
      BY <1>1
    <3>4. four \in Seq(BasicBlock) /\ CodeOf(four) = CodeOfAll(refined, b1, b2, b3, b4)
      BY <3>1, <3>2, <3>3, CodeOfFourMore
    <3>5. QED
      BY <3>4 DEF CodeOfAll
  <2>2. QED
    BY <1>3, <2>1
<1>6. CASE n + 4 \in {c, t, e}
  <2>1. pc' = "undefined" /\ UNCHANGED <<flat, at, graph, refined, capacity, entry_id, exit_id>>
    BY <1>4, <1>6
  <2>2. Cut'
    BY <1>1, <2>1 DEF Inv, Cut
  <2>3. Typed' /\ EntryFirst(graph') /\ EntryFirst(refined')
    BY <2>1 DEF Inv, Typed
  <2>4. NothingToDo' /\ Cutting' /\ Refining' /\ RefinedAll' /\ Linked'
    BY <1>1, <2>1 DEF NothingToDo, Cutting, Refining, RefinedAll, Linked, EdgesMirror
  <2>5. QED
    BY <2>2, <2>3, <2>4 DEF Inv
<1>7. CASE n + 4 \notin {c, t, e}
  <2> DEFINE es == AddEdge(AddEdge(AddEdge(AddEdge(four, c, t), c, e), t, n + 3), e, n + 3)
  <2>1. Refined(es, n, n + 3)
    BY <1>4, <1>7
  <2>2. /\ Len(four) = n + 4 /\ DOMAIN four = 1..(n + 4)
        /\ \A k \in 1..n : four[k] = refined[k]
        /\ four[n + 1] = b1 /\ four[n + 2] = b2 /\ four[n + 3] = b3 /\ four[n + 4] = b4
    BY <1>1
  <2> HIDE DEF four, bb, x
  <2>3. \A k \in 1..(n + 4) : k \in 1..n \/ k = n + 1 \/ k = n + 2 \/ k = n + 3 \/ k = n + 4
    BY <1>1
  <2>4. /\ c \in 0..(n + 3) /\ t \in 0..(n + 3) /\ e \in 0..(n + 3)
        /\ n + 3 \in 0..(n + 3) /\ Len(four) - 1 = n + 3
    <3>1. c \in 0..(n + 4) /\ t \in 0..(n + 4) /\ e \in 0..(n + 4)
      <4>1. \A b, m : b \in 0..m => \A id \in IdsRead(b, m) : id \in 0..m
        BY DEF IdsRead
      <4>2. n \in 0..(n + 4) /\ n + 1 \in 0..(n + 4) /\ n + 2 \in 0..(n + 4)
        BY <1>1
      <4> HIDE DEF n
      <4>3. QED
        BY <4>1, <4>2
    <3>2. QED
      BY <1>1, <1>7, <2>2, <3>1
  <2>5. /\ EdgesWithin(four)
        /\ \A k \in 1..(n + 4) : four[k].id = k - 1
        /\ \A k \in (n + 1)..(n + 4) : /\ four[k].is_entry <=> k = n + 1 /\ bb.is_entry
                                       /\ four[k].is_exit <=> k = n + 4 /\ bb.is_exit
    <3>1. /\ \A k \in 1..n : Range(four[k].successors) \subseteq 0..(n - 1) /\ four[k].id = k - 1
          /\ 0..(n - 1) \subseteq 0..(n + 3)
      BY <1>1, <2>2 DEF EdgesWithin, Numbered
    <3>2. /\ Range(b1.successors) = {} /\ Range(b2.successors) = {}
          /\ Range(b3.successors) = {} /\ Range(b4.successors) = {}
      BY <1>3 DEF Range
    <3>3. \A k \in 1..(n + 4) : Range(four[k].successors) \subseteq 0..(n + 3)
      <4> TAKE k \in 1..(n + 4)
      <4>1. CASE k \in 1..n
        BY <3>1, <4>1
      <4>2. CASE k = n + 1 \/ k = n + 2 \/ k = n + 3 \/ k = n + 4
        BY <2>2, <3>2, <4>2
      <4>3. QED
        BY <2>3, <4>1, <4>2
    <3>4. \A k \in 1..(n + 4) : four[k].id = k - 1
      <4> TAKE k \in 1..(n + 4)
      <4>1. CASE k \in 1..n
        BY <3>1, <4>1
      <4>2. CASE k = n + 1 \/ k = n + 2 \/ k = n + 3 \/ k = n + 4
        BY <1>1, <1>3, <2>2, <4>2
      <4>3. QED
        BY <2>3, <4>1, <4>2
    <3>5. \A k \in (n + 1)..(n + 4) : /\ four[k].is_entry <=> k = n + 1 /\ bb.is_entry
                                      /\ four[k].is_exit <=> k = n + 4 /\ bb.is_exit
      <4> TAKE k \in (n + 1)..(n + 4)
      <4>1. k = n + 1 \/ k = n + 2 \/ k = n + 3 \/ k = n + 4
        BY <1>1
      <4>2. QED
        BY <1>1, <1>3, <2>2, <4>1
    <3>6. EdgesWithin(four)
      BY <2>2, <2>4, <3>3 DEF EdgesWithin
    <3>7. QED
      BY <3>4, <3>5, <3>6
  <2>6. /\ es \in Seq(BasicBlock) /\ Len(es) = n + 4 /\ EdgesWithin(es)
        /\ \A k \in 1..(n + 4) : Alike(es[k], four[k])
    <3> DEFINE m == n + 3
    <3>1. c \in 0..(Len(four) - 1) /\ t \in 0..(Len(four) - 1) /\ e \in 0..(Len(four) - 1)
          /\ m \in 0..(Len(four) - 1)
      BY <2>4
    <3>2. es = DiamondEdges(four, c, t, e, m)
      BY DEF DiamondEdges
    <3> HIDE DEF es, m, n
    <3>3. /\ es \in Seq(BasicBlock) /\ Len(es) = Len(four) /\ EdgesWithin(es)
          /\ \A k \in DOMAIN four : Alike(es[k], four[k])
      <4>1. four \in Seq(BasicBlock) /\ EdgesWithin(four)
        BY <1>5, <2>5
      <4>2. QED
        BY <3>1, <3>2, <4>1, FourEdges
    <3>4. QED
      BY <2>2, <3>3
  <2> HIDE DEF es, n
  <2>7. Numbered(es)
    BY <2>5, <2>6 DEF Numbered, Alike
  <2>8. \A k \in 1..Len(refined) : /\ es[k].is_entry <=> refined[k].is_entry
                                   /\ es[k].is_exit <=> refined[k].is_exit
    <3> TAKE k \in 1..Len(refined)
    <3>1. k \in 1..n /\ k \in 1..(n + 4)
      BY <1>1 DEF n
    <3>2. QED
      BY <2>2, <2>6, <3>1 DEF Alike
  <2>9. \A k \in (Len(refined) + 1)..Len(es) :
           /\ es[k].is_entry <=> k = Len(refined) + 1 /\ graph[at].is_entry
           /\ es[k].is_exit <=> k = (n + 3) + 1 /\ graph[at].is_exit
    <3> TAKE k \in (Len(refined) + 1)..Len(es)
    <3>1. k \in (n + 1)..(n + 4) /\ k \in 1..(n + 4) /\ (n + 3) + 1 = n + 4
      BY <1>1, <2>6 DEF n
    <3>2. /\ four[k].is_entry <=> k = n + 1 /\ bb.is_entry
          /\ four[k].is_exit <=> k = n + 4 /\ bb.is_exit
      <4>1. k \in (n + 1)..(n + 4)
        BY <3>1
      <4>2. QED
        BY <2>5, <4>1
    <3>3. es[k].is_entry = four[k].is_entry /\ es[k].is_exit = four[k].is_exit
      BY <2>6, <3>1 DEF Alike
    <3>4. QED
      BY <3>1, <3>2, <3>3 DEF n, bb
  <2>10. CodeOf(es) = CodeOf(refined) \o Expanded(bb)
    <3>1. CodeOf(es) = CodeOf(four)
      BY <1>5, <2>2, <2>6, CodeOfAlike DEF Alike
    <3> DEFINE r == CodeOf(refined)
               u == <<x.cond>>
               v == Flatten(x.then)
               w == Flatten(x.else)
    <3>2. r \in Seq(Exprs) /\ u \in Seq(Exprs) /\ v \in Seq(Exprs) /\ w \in Seq(Exprs)
      BY <1>1, <1>2, CodesType
    <3>3. CodeOf(four) = (((r \o u) \o v) \o w) \o << >> /\ Expanded(bb) = (u \o v) \o w
      BY <1>2, <1>5
    <3> HIDE DEF r, u, v, w
    <3>4. ((r \o u) \o v) \o w \in Seq(Exprs) /\ r \o u \in Seq(Exprs) /\ u \o v \in Seq(Exprs)
      BY <3>2, ConcatProperties
    <3>5. (((r \o u) \o v) \o w) \o << >> = ((r \o u) \o v) \o w
      BY <3>4, ConcatEmptySeq
    <3>6. ((r \o u) \o v) \o w = r \o ((u \o v) \o w)
      <4>1. Regroups(r, u, v, w)
        BY <3>2, ConcatFour
      <4>2. QED
        BY <4>1 DEF Regroups
    <3>7. QED
      BY <3>1, <3>3, <3>5, <3>6 DEF r
  <2>11. Len(es) > Len(refined) /\ n + 3 \in Len(refined)..(Len(es) - 1)
    BY <1>1, <2>6 DEF n
  <2>12. Grows(es, n + 3)
    BY <2>6, <2>7, <2>8, <2>9, <2>10, <2>11 DEF Grows, bb
  <2>13. Refined(es, Len(refined), n + 3)
    BY <2>1 DEF n
  <2>14. QED
    BY <1>1, <2>12, <2>13, RefinedInv
<1>8. QED
  BY <1>6, <1>7

LEMMA WiderSeq ==
  ASSUME NEW T, NEW S \in SUBSET T, NEW s \in Seq(S)
  PROVE  s \in Seq(T)
OBVIOUS

(* The last pass: edges are listed at both ends, and nothing else changes. *)
LEMMA FinishInv ==
  ASSUME ProgramsFit, Inv, Finish
  PROVE  Inv'
<1> DEFINE n == Len(refined)
           into(k) == {j \in 0..(n - 1) : k - 1 \in Range(refined[j + 1].successors)}
<1>1. /\ n \in Nat /\ DOMAIN refined = 1..n /\ refined \in Seq(BasicBlock)
      /\ pc = "finish" /\ pc' = "done" /\ flat # << >> /\ EdgesWithin(refined)
      /\ UNCHANGED <<flat, at, graph, capacity, entry_id, exit_id>>
      /\ \A k \in 1..n : refined[k] \in BasicBlock
  BY BlockFields DEF Inv, Typed, NothingToDo, Finish
<1>2. DOMAIN refined' = 1..n
  BY <1>1 DEF Finish
<1>3. \A k \in 1..n : /\ IsFiniteSet(Range(refined[k].successors))
                     /\ Range(refined[k].successors) \in SUBSET Nat
                     /\ IsFiniteSet(into(k)) /\ into(k) \in SUBSET Nat
  <2> TAKE k \in 1..n
  <2>1. refined[k].successors \in Seq(Nat)
    BY <1>1 DEF BasicBlock
  <2>2. Range(refined[k].successors) \in SUBSET Nat /\ Range(refined[k].successors) \subseteq 0..(n - 1)
    BY <1>1, <2>1 DEF Range, EdgesWithin
  <2>3. IsFiniteSet(0..(n - 1)) /\ 0..(n - 1) \subseteq Nat
    <3> DEFINE m == n - 1
    <3>1. m \in Int /\ 0..m \subseteq Nat
      BY <1>1
    <3> HIDE DEF m
    <3>2. IsFiniteSet(0..m)
      BY <3>1, FS_Interval
    <3>3. QED
      BY <3>1, <3>2 DEF m
  <2>4. into(k) \subseteq 0..(n - 1)
    OBVIOUS
  <2> HIDE DEF into
  <2>5. QED
    BY <2>2, <2>3, <2>4, FS_Subset
<1>4. \A k \in 1..n : /\ Alike(refined'[k], refined[k]) /\ refined'[k] \in BasicBlock
                     /\ Range(refined'[k].successors) = Range(refined[k].successors)
                     /\ Range(refined'[k].predecessors) = into(k)
                     /\ IsInjective(refined'[k].successors) /\ IsInjective(refined'[k].predecessors)
  <2> TAKE k \in 1..n
  <2> DEFINE ss == Ascending(Range(refined[k].successors))
             ps == Ascending(into(k))
  <2>1. refined'[k] = [refined[k] EXCEPT !.successors = ss, !.predecessors = ps]
    BY <1>1 DEF Finish, SortedUnique
  <2>2. /\ ss \in Seq(Range(refined[k].successors)) /\ IsInjective(ss)
        /\ Range(ss) = Range(refined[k].successors)
    BY <1>3, AscendingLists
  <2> HIDE DEF into
  <2>3. ps \in Seq(into(k)) /\ IsInjective(ps) /\ Range(ps) = into(k)
    BY <1>3, AscendingLists
  <2> HIDE DEF ss, ps
  <2>4. ss \in Seq(Nat) /\ ps \in Seq(Nat)
    BY <1>3, <2>2, <2>3, WiderSeq
  <2>5. refined[k] \in BasicBlock
    BY <1>1
  <2>6. Alike(refined'[k], refined[k]) /\ refined'[k] \in BasicBlock
    BY <2>1, <2>4, <2>5 DEF Alike, BasicBlock
  <2>7. refined'[k].successors = ss /\ refined'[k].predecessors = ps
    BY <2>1, <2>5 DEF BasicBlock
  <2>8. QED
    BY <2>2, <2>3, <2>6, <2>7
<1>5. refined' \in Seq(BasicBlock) /\ Len(refined') = n
  <2>1. refined' = [k \in 1..n |-> refined'[k]]
    BY <1>1 DEF Finish
  <2>2. refined' \in [1..n -> BasicBlock]
    BY <1>4, <2>1
  <2> HIDE DEF n
  <2>3. QED
    BY <1>1, <2>2, FunctionIsSeq
<1> HIDE DEF n
<1>6. Typed'
  <2>1. Numbered(refined')
    BY <1>1, <1>2, <1>4 DEF Numbered, Alike, Inv, Typed
  <2>2. EdgesWithin(refined')
    BY <1>1, <1>2, <1>4, <1>5 DEF EdgesWithin, n
  <2>3. capacity' >= Len(refined') /\ at' \in 1..(Len(flat') + 1)
    BY <1>1, <1>5 DEF Inv, Typed, n
  <2>4. QED
    BY <1>1, <1>5, <2>1, <2>2, <2>3 DEF Inv, Typed
<1>7. EntryFirst(graph') /\ EntryFirst(refined')
  BY <1>1, <1>2, <1>4 DEF Inv, EntryFirst, Alike
<1>8. NothingToDo' /\ Cutting' /\ Refining'
  BY <1>1 DEF NothingToDo, Cutting, Refining
<1>9. Cut'
  BY <1>1 DEF Inv, Cut
<1>10. RefinedAll'
  <2>1. CodeOf(refined') = CodeOf(refined)
    BY <1>1, <1>4, <1>5, CodeOfAlike DEF Alike, n
  <2>2. /\ exit_id + 1 \in 1..n /\ (\A k \in 1..n : refined[k].is_exit <=> k = exit_id + 1)
        /\ CodeOf(refined) = ExpandedCode(graph, Len(graph))
    BY <1>1 DEF Inv, RefinedAll
  <2>3. \A k \in 1..n : refined'[k].is_exit <=> k = exit_id + 1
    BY <1>4, <2>2 DEF Alike
  <2>4. QED
    BY <1>1, <1>2, <2>1, <2>2, <2>3 DEF RefinedAll
<1>11. EdgesMirror'
  <2>1. Result' = refined'
    BY <1>1 DEF Result
  <2>2. \A j, k \in 1..n : j - 1 \in into(k) <=> k - 1 \in Range(refined[j].successors)
    <3> TAKE j \in 1..n, k \in 1..n
    <3>1. j - 1 \in 0..(n - 1) /\ (j - 1) + 1 = j
      BY <1>1
    <3>2. j - 1 \in into(k) <=> k - 1 \in Range(refined[(j - 1) + 1].successors)
      BY <3>1 DEF n
    <3>3. QED
      BY <3>1, <3>2
  <2> HIDE DEF into
  <2>3. \A j, k \in DOMAIN refined' :
           /\ k - 1 \in Range(refined'[j].successors) <=> j - 1 \in Range(refined'[k].predecessors)
           /\ IsInjective(refined'[j].successors) /\ IsInjective(refined'[j].predecessors)
    BY <1>2, <1>4, <2>2
  <2>4. QED
    BY <2>1, <2>3 DEF EdgesMirror
<1>12. Linked'
  <2>1. \A k \in 1..n : into(k) \subseteq 0..(n - 1)
    OBVIOUS
  <2> HIDE DEF into
  <2>2. \A k \in DOMAIN refined' : Range(refined'[k].predecessors) \subseteq 0..(Len(refined') - 1)
    BY <1>2, <1>4, <1>5, <2>1
  <2>3. QED
    BY <1>11, <2>2 DEF Linked
<1>13. QED
  BY <1>6, <1>7, <1>8, <1>9, <1>10, <1>12 DEF Inv

LEMMA StutterInv ==
  ASSUME Inv, UNCHANGED vars
  PROVE  Inv'
<1>1. Typed' /\ EntryFirst(graph') /\ EntryFirst(refined') /\ NothingToDo' /\ Cutting'
  BY DEF Inv, Typed, EntryFirst, NothingToDo, Cutting, vars
<1>2. Cut' /\ Refining' /\ RefinedAll'
  BY DEF Inv, Cut, Refining, RefinedAll, vars
<1>3. Linked'
  BY DEF Inv, Linked, EdgesMirror, Result, vars
<1>4. QED
  BY <1>1, <1>2, <1>3 DEF Inv

THEOREM Invariant ==
  ASSUME ProgramsFit
  PROVE  Spec => []Inv
<1>1. Init => Inv
  BY InitInv
<1>2. Inv /\ [Next]_vars => Inv'
  <2> SUFFICES ASSUME Inv, [Next]_vars PROVE Inv'
    OBVIOUS
  <2>1. CASE Split
    BY <2>1, SplitInv
  <2>2. CASE CopyBlock
    BY <2>2, CopyBlockInv
  <2>3. CASE ExpandConditional
    BY <2>3, ExpandConditionalInv
  <2>4. CASE Finish
    BY <2>4, FinishInv
  <2>5. CASE Return \/ UNCHANGED vars
    BY <2>5, StutterInv DEF Return
  <2>6. QED
    BY <2>1, <2>2, <2>3, <2>4, <2>5 DEF Next
<1>3. QED
  BY <1>1, <1>2, PTL DEF Spec

-----------------------------------------------------------------------------
LEMMA InvTypes == ASSUME Inv PROVE TypeOK
BY DEF Inv, Typed, Numbered, TypeOK

(* TypeOK: in both passes a block's id is its position in the vector, and  *)
(* the capacity followed is enough for the blocks there are.               *)
THEOREM TypeCorrectness ==
  ASSUME ProgramsFit
  PROVE  Spec => []TypeOK
<1>1. Inv => TypeOK
  BY InvTypes
<1>2. QED
  BY <1>1, Invariant, PTL

(* EdgesMirror: build_cfg returns a graph with every edge recorded at both *)
(* its ends, and once, even if it read the ids of other blocks through its *)
(* stale references.                                                       *)
THEOREM EdgesAtBothEnds ==
  ASSUME ProgramsFit
  PROVE  Spec => []EdgesMirror
<1>1. Inv => EdgesMirror
  BY DEF Inv, Linked
<1>2. QED
  BY <1>1, Invariant, PTL

LEMMA InvEnds ==
  ASSUME Inv
  PROVE  EndsFlagged
<1> SUFFICES ASSUME pc = "done" PROVE EndsFlagged
  BY DEF EndsFlagged
<1>1. EntryFirst(refined) /\ entry_id = 0 /\ refined \in Seq(BasicBlock)
  BY DEF Inv, Typed
<1>2. CASE flat = << >>
  <2>1. /\ graph = << [NewBlock(0) EXCEPT !.is_entry = TRUE, !.is_exit = TRUE] >>
        /\ exit_id = 0 /\ Result = graph
    BY <1>2 DEF Inv, NothingToDo, Result
  <2> DEFINE b == [NewBlock(0) EXCEPT !.is_entry = TRUE, !.is_exit = TRUE]
  <2>2. b.is_entry /\ b.is_exit
    BY DEF NewBlock
  <2>3. graph = <<b>>
    BY <2>1
  <2> HIDE DEF b
  <2>4. DOMAIN graph = {1} /\ graph[1].is_entry /\ graph[1].is_exit
    BY <2>2, <2>3
  <2>5. /\ {k \in DOMAIN graph : graph[k].is_entry} = {1}
        /\ {k \in DOMAIN graph : graph[k].is_exit} = {1}
    BY <2>4
  <2>6. QED
    BY <1>1, <2>1, <2>5 DEF EndsFlagged
<1>3. CASE flat # << >>
  <2>1. /\ exit_id + 1 \in DOMAIN refined /\ Result = refined
        /\ \A k \in DOMAIN refined : refined[k].is_exit <=> k = exit_id + 1
    BY <1>3 DEF Inv, RefinedAll, Result
  <2>2. \A k \in DOMAIN refined : refined[k].is_entry <=> k = 1
    BY <1>1 DEF EntryFirst
  <2>3. 1 \in DOMAIN refined
    BY <1>1, <2>1, BlockFields
  <2>4. {k \in DOMAIN refined : refined[k].is_entry} = {1}
    BY <2>2, <2>3
  <2>5. {k \in DOMAIN refined : refined[k].is_exit} = {exit_id + 1}
    BY <2>1
  <2>6. QED
    BY <1>1, <2>1, <2>4, <2>5 DEF EndsFlagged
<1>4. QED
  BY <1>2, <1>3

(* The graph returned is one whose edges lead to blocks.                   *)
LEMMA ResultFits ==
  ASSUME Inv, pc = "done"
  PROVE  /\ Result \in Seq(BasicBlock) /\ Len(Result) \in Nat \ {0}
         /\ entry_id \in 0..(Len(Result) - 1) /\ exit_id \in 0..(Len(Result) - 1)
         /\ \A k \in 1..Len(Result) :
              /\ Range(Result[k].successors) \subseteq 0..(Len(Result) - 1)
              /\ Range(Result[k].predecessors) \subseteq 0..(Len(Result) - 1)
<1>1. /\ refined \in Seq(BasicBlock) /\ graph \in Seq(BasicBlock) /\ entry_id = 0 /\ exit_id \in Nat
      /\ EdgesWithin(refined)
  BY DEF Inv, Typed
<1>2. CASE flat = << >>
  <2> DEFINE b == [NewBlock(0) EXCEPT !.is_entry = TRUE, !.is_exit = TRUE]
  <2>1. graph = <<b>> /\ exit_id = 0 /\ Result = graph
    BY <1>2 DEF Inv, NothingToDo, Result
  <2>2. b.successors = << >> /\ b.predecessors = << >>
    BY DEF NewBlock
  <2> HIDE DEF b
  <2>3. Len(graph) = 1 /\ \A k \in 1..Len(graph) : graph[k] = b
    BY <2>1
  <2>4. Range(b.successors) = {} /\ Range(b.predecessors) = {}
    BY <2>2 DEF Range
  <2>5. QED
    BY <1>1, <2>1, <2>3, <2>4
<1>3. CASE flat # << >>
  <2>1. Result = refined /\ exit_id + 1 \in DOMAIN refined
    BY <1>3 DEF Inv, RefinedAll, Result
  <2>2. Len(refined) \in Nat /\ DOMAIN refined = 1..Len(refined)
    BY <1>1, BlockFields
  <2>3. Len(refined) > 0 /\ 0 \in 0..(Len(refined) - 1) /\ exit_id \in 0..(Len(refined) - 1)
    BY <1>1, <2>1, <2>2
  <2>4. \A k \in 1..Len(refined) :
          /\ Range(refined[k].successors) \subseteq 0..(Len(refined) - 1)
          /\ Range(refined[k].predecessors) \subseteq 0..(Len(refined) - 1)
    BY <1>1, <2>2 DEF EdgesWithin, Inv, Linked
  <2>5. QED
    BY <1>1, <2>1, <2>2, <2>3, <2>4
<1>4. QED
  BY <1>2, <1>3

(* EndsFlagged: it returns the entry and the exit that are flagged, and    *)
(* flags no other block.                                                   *)
THEOREM OneEntryOneExit ==
  ASSUME ProgramsFit
  PROVE  Spec => []EndsFlagged
<1>1. Inv => EndsFlagged
  BY InvEnds
<1>2. QED
  BY <1>1, Invariant, PTL

LEMMA InvCode ==
  ASSUME Inv
  PROVE  CodeKept
<1>1. pc # "split" => CodeOf(graph) = flat
  BY DEF Inv, Cut
<1>2. pc \in {"finish", "done"} /\ flat # << >> => CodeOf(refined) = ExpandedCode(graph, Len(graph))
  BY DEF Inv, RefinedAll
<1>3. ExpandedCode(graph, Len(graph)) = FlattenSeq([k \in DOMAIN graph |-> Expanded(graph[k])])
  <2>1. DOMAIN graph = 1..Len(graph)
    BY DEF Inv, Typed
  <2>2. QED
    BY <2>1 DEF ExpandedCode
<1>4. QED
  BY <1>1, <1>2, <1>3 DEF CodeKept

(* CodeKept: neither pass loses, repeats or reorders an instruction.       *)
THEOREM NothingLostOrRepeated ==
  ASSUME ProgramsFit
  PROVE  Spec => []CodeKept
<1>1. Inv => CodeKept
  BY InvCode
<1>2. QED
  BY <1>1, Invariant, PTL
=============================================================================
