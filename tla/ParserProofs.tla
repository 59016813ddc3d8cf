---------------------------- MODULE ParserProofs ----------------------------
(***************************************************************************)
(* What the recursive descent of Parser answers for every source: where    *)
(* its cursor is, that it has moved on, and that no part of a tree is      *)
(* missing; from these the properties of parser::parse.                    *)
(***************************************************************************)
EXTENDS Parser, SequenceLemmas

(* Trees none of whose parts is missing: they lie in a set that holds the  *)
(* parts of its members, and not Null.                                     *)
Sound(S) == Null \notin S /\ \A x \in S : Range(Parts(x)) \subseteq S
IsTree(t) == \E S : Sound(S) /\ t \in S
AreTrees(ts) == \E S : Sound(S) /\ ts \in Seq(S)
AreFields(fs) == \E S : Sound(S) /\ fs \in Seq(STRING \X S)

LEMMA SoundUnion ==
  ASSUME NEW S, NEW T, Sound(S), Sound(T)
  PROVE  Sound(S \cup T)
BY DEF Sound

(* A node over parts that lie in such a set.                               *)
LEMMA Grown ==
  ASSUME NEW S, Sound(S), NEW t, t # Null, Range(Parts(t)) \subseteq S
  PROVE  IsTree(t)
<1> DEFINE T == S \cup {t}
<1>1. Sound(T)
  BY DEF Sound
<1>2. QED
  BY <1>1 DEF IsTree

LEMMA TreesTogether ==
  ASSUME NEW a, NEW b, IsTree(a), IsTree(b)
  PROVE  \E S : Sound(S) /\ a \in S /\ b \in S
<1>1. PICK S : Sound(S) /\ a \in S
  BY DEF IsTree
<1>2. PICK T : Sound(T) /\ b \in T
  BY DEF IsTree
<1>3. Sound(S \cup T)
  BY <1>1, <1>2, SoundUnion
<1>4. QED
  BY <1>1, <1>2, <1>3

LEMMA TreeAndTrees ==
  ASSUME NEW a, NEW ts, IsTree(a), AreTrees(ts)
  PROVE  \E S : Sound(S) /\ a \in S /\ ts \in Seq(S)
<1>1. PICK S : Sound(S) /\ a \in S
  BY DEF IsTree
<1>2. PICK T : Sound(T) /\ ts \in Seq(T)
  BY DEF AreTrees
<1>3. Sound(S \cup T)
  BY <1>1, <1>2, SoundUnion
<1>4. ts \in Seq(S \cup T)
  BY <1>2
<1>5. QED
  BY <1>1, <1>3, <1>4

(* The leaves and the nodes of one, two and three parts.                   *)
LEMMA Leaf ==
  ASSUME NEW x
  PROVE  IsTree(Literal(x)) /\ IsTree(Bool(x)) /\ IsTree(Ident(x)) /\ IsTree(Nil)
<1>1. Sound({})
  BY DEF Sound
<1>2. Range(<< >>) = {}
  BY DEF Range
<1>3. IsTree(Literal(x))
  <2>1. Literal(x) # Null /\ Parts(Literal(x)) = << >>
    BY DEF Literal, Null, Parts
  <2>2. QED
    BY <1>1, <1>2, <2>1, Grown
<1>4. IsTree(Bool(x))
  <2>1. Bool(x) # Null /\ Parts(Bool(x)) = << >>
    BY DEF Bool, Null, Parts
  <2>2. QED
    BY <1>1, <1>2, <2>1, Grown
<1>5. IsTree(Ident(x))
  <2>1. Ident(x) # Null /\ Parts(Ident(x)) = << >>
    BY DEF Ident, Null, Parts
  <2>2. QED
    BY <1>1, <1>2, <2>1, Grown
<1>6. IsTree(Nil)
  <2>1. Nil # Null /\ Parts(Nil) = << >>
    BY DEF Nil, Null, Parts
  <2>2. QED
    BY <1>1, <1>2, <2>1, Grown
<1>7. QED
  BY <1>3, <1>4, <1>5, <1>6

LEMMA OneChild ==
  ASSUME NEW a, IsTree(a), NEW o
  PROVE  IsTree(Unary(o, a)) /\ IsTree(Lambda(o, a))
<1>1. PICK S : Sound(S) /\ a \in S
  BY DEF IsTree
<1>2. Range(<<a>>) \subseteq S
  BY <1>1 DEF Range
<1>3. Unary(o, a) # Null /\ Parts(Unary(o, a)) = <<a>>
  BY DEF Unary, Null, Parts
<1>4. Lambda(o, a) # Null /\ Parts(Lambda(o, a)) = <<a>>
  BY DEF Lambda, Null, Parts
<1>5. QED
  BY <1>1, <1>2, <1>3, <1>4, Grown

LEMMA TwoChildren ==
  ASSUME NEW a, NEW b, IsTree(a), IsTree(b), NEW o
  PROVE  IsTree(Binary(o, a, b)) /\ IsTree(Let(o, a, b))
<1>1. PICK S : Sound(S) /\ a \in S /\ b \in S
  BY TreesTogether
<1>2. Range(<<a, b>>) \subseteq S
  BY <1>1 DEF Range
<1>3. Binary(o, a, b) # Null /\ Parts(Binary(o, a, b)) = <<a, b>>
  BY DEF Binary, Null, Parts
<1>4. Let(o, a, b) # Null /\ Parts(Let(o, a, b)) = <<a, b>>
  BY DEF Let, Null, Parts
<1>5. QED
  BY <1>1, <1>2, <1>3, <1>4, Grown

LEMMA ThreeChildren ==
  ASSUME NEW a, NEW b, NEW c, IsTree(a), IsTree(b), IsTree(c)
  PROVE  IsTree(If(a, b, c))
<1>1. PICK S : Sound(S) /\ a \in S /\ b \in S
  BY TreesTogether
<1>2. PICK T : Sound(T) /\ c \in T
  BY DEF IsTree
<1>3. Sound(S \cup T)
  BY <1>1, <1>2, SoundUnion
<1>4. Range(<<a, b, c>>) \subseteq S \cup T
  BY <1>1, <1>2 DEF Range
<1>5. If(a, b, c) # Null /\ Parts(If(a, b, c)) = <<a, b, c>>
  BY DEF If, Null, Parts
<1>6. QED
  BY <1>3, <1>4, <1>5, Grown

(* Lists of trees.                                                         *)
LEMMA ListBasics ==
  /\ AreTrees(<< >>)
  /\ \A a : IsTree(a) => AreTrees(<<a>>)
  /\ \A ts : AreTrees(ts) => Len(ts) \in Nat /\ \A i \in 1..Len(ts) : IsTree(ts[i])
<1>1. AreTrees(<< >>)
  <2>1. Sound({}) /\ << >> \in Seq({})
    BY DEF Sound
  <2>2. QED
    BY <2>1 DEF AreTrees
<1>2. ASSUME NEW a, IsTree(a) PROVE AreTrees(<<a>>)
  <2>1. PICK S : Sound(S) /\ a \in S
    BY <1>2 DEF IsTree
  <2>2. <<a>> \in Seq(S)
    BY <2>1
  <2>3. QED
    BY <2>1, <2>2 DEF AreTrees
<1>3. ASSUME NEW ts, AreTrees(ts) PROVE Len(ts) \in Nat /\ \A i \in 1..Len(ts) : IsTree(ts[i])
  <2>1. PICK S : Sound(S) /\ ts \in Seq(S)
    BY <1>3 DEF AreTrees
  <2>2. Len(ts) \in Nat /\ \A i \in 1..Len(ts) : ts[i] \in S
    BY <2>1
  <2>3. QED
    BY <2>1, <2>2 DEF IsTree
<1>4. QED
  BY <1>1, <1>2, <1>3

LEMMA ListJoined ==
  ASSUME NEW a, NEW ts, IsTree(a), AreTrees(ts)
  PROVE  AreTrees(<<a>> \o ts) /\ AreTrees(Append(ts, a))
<1>1. PICK S : Sound(S) /\ a \in S /\ ts \in Seq(S)
  BY TreeAndTrees
<1>2. <<a>> \o ts \in Seq(S) /\ Append(ts, a) \in Seq(S)
  <2>1. <<a>> \in Seq(S)
    BY <1>1
  <2>2. QED
    BY <1>1, <2>1, ConcatProperties
<1>3. QED
  BY <1>1, <1>2 DEF AreTrees

LEMMA ListNodes ==
  ASSUME NEW ts, AreTrees(ts)
  PROVE  IsTree(List(ts)) /\ IsTree(Tuple(ts)) /\ \A a : IsTree(a) => IsTree(Call(a, ts))
<1>1. PICK S : Sound(S) /\ ts \in Seq(S)
  BY DEF AreTrees
<1>2. Range(ts) \subseteq S
  BY <1>1 DEF Range
<1>3. List(ts) # Null /\ Parts(List(ts)) = ts
  BY DEF List, Null, Parts
<1>4. Tuple(ts) # Null /\ Parts(Tuple(ts)) = ts
  BY DEF Tuple, Null, Parts
<1>5. ASSUME NEW a, IsTree(a) PROVE IsTree(Call(a, ts))
  <2>1. PICK T : Sound(T) /\ a \in T /\ ts \in Seq(T)
    BY <1>5, TreeAndTrees
  <2>2. <<a>> \in Seq(T)
    BY <2>1
  <2>3. <<a>> \o ts \in Seq(T)
    BY <2>1, <2>2, ConcatProperties
  <2>4. Range(<<a>> \o ts) \subseteq T
    BY <2>3 DEF Range
  <2>5. Call(a, ts) # Null /\ Parts(Call(a, ts)) = <<a>> \o ts
    BY DEF Call, Null, Parts
  <2>6. QED
    BY <2>1, <2>4, <2>5, Grown
<1>6. QED
  BY <1>1, <1>2, <1>3, <1>4, <1>5, Grown

LEMMA BodyNode ==
  ASSUME NEW ts, AreTrees(ts)
  PROVE  IsTree(Body(ts)) /\ IsTree(Whole(ts))
<1>1. PICK S : Sound(S) /\ ts \in Seq(S)
  BY DEF AreTrees
<1>2. CASE ts = << >>
  BY <1>2, Leaf DEF Body, Whole
<1>3. CASE ts # << >>
  <2>1. Len(ts) \in Nat /\ Len(ts) >= 1
    BY <1>1, <1>3, EmptySeq
  <2>2. Last(ts) \in S
    BY <1>1, <2>1 DEF Last
  <2>3. Front(ts) \in Seq(S)
    BY <1>1, <2>1 DEF Front
  <2>4. Append(Front(ts), Last(ts)) \in Seq(S)
    BY <2>2, <2>3
  <2>5. Range(Append(Front(ts), Last(ts))) \subseteq S
    BY <2>4 DEF Range
  <2>6. Body(ts) # Null /\ Parts(Body(ts)) = Append(Front(ts), Last(ts))
    BY <1>3 DEF Body, Block, Null, Parts
  <2>7. IsTree(Body(ts))
    BY <1>1, <2>5, <2>6, Grown
  <2>8. IsTree(ts[1])
    BY <2>1, ListBasics
  <2>9. Whole(ts) = ts[1] \/ Whole(ts) = Tuple(ts)
    BY <1>3 DEF Whole
  <2>10. QED
    BY <2>7, <2>8, <2>9, ListNodes
<1>4. QED
  BY <1>2, <1>3

(* The fields of a record.                                                 *)
LEMMA OneField ==
  ASSUME NEW S, NEW x \in STRING, NEW a \in S
  PROVE  <<<<x, a>>>> \in Seq(STRING \X S)
<1> DEFINE P == STRING \X S
           f == <<x, a>>
<1>1. f \in P
  OBVIOUS
<1>2. <<f>> \in Seq(P)
  <2> HIDE DEF P, f
  <2>1. QED
    BY <1>1
<1>3. QED
  BY <1>2

LEMMA FieldLists ==
  ASSUME NEW x \in STRING, NEW a, IsTree(a)
  PROVE  AreFields(<<<<x, a>>>>) /\ \A fs : AreFields(fs) => AreFields(<<<<x, a>>>> \o fs)
<1>1. PICK S : Sound(S) /\ a \in S
  BY DEF IsTree
<1>2. <<<<x, a>>>> \in Seq(STRING \X S)
  BY <1>1, OneField
<1>3. ASSUME NEW fs, AreFields(fs) PROVE AreFields(<<<<x, a>>>> \o fs)
  <2>1. PICK T : Sound(T) /\ fs \in Seq(STRING \X T)
    BY <1>3 DEF AreFields
  <2>2. Sound(S \cup T)
    BY <1>1, <2>1, SoundUnion
  <2>3. a \in S \cup T /\ STRING \X T \subseteq STRING \X (S \cup T)
    BY <1>1
  <2>4. <<<<x, a>>>> \in Seq(STRING \X (S \cup T))
    BY <2>3, OneField
  <2>5. fs \in Seq(STRING \X (S \cup T))
    BY <2>1, <2>3
  <2>6. <<<<x, a>>>> \o fs \in Seq(STRING \X (S \cup T))
    BY <2>4, <2>5, ConcatProperties
  <2>7. QED
    BY <2>2, <2>6 DEF AreFields
<1>4. QED
  BY <1>1, <1>2, <1>3 DEF AreFields

LEMMA RecordNode ==
  /\ AreFields(<< >>)
  /\ \A fs : AreFields(fs) => IsTree(Record(fs))
<1>1. AreFields(<< >>)
  <2>1. Sound({}) /\ << >> \in Seq(STRING \X {})
    BY DEF Sound
  <2>2. QED
    BY <2>1 DEF AreFields
<1>2. ASSUME NEW fs, AreFields(fs) PROVE IsTree(Record(fs))
  <2>1. PICK S : Sound(S) /\ fs \in Seq(STRING \X S)
    BY <1>2 DEF AreFields
  <2>2. \A i \in DOMAIN fs : fs[i][2] \in S
    BY <2>1
  <2>3. Record(fs) # Null /\ Parts(Record(fs)) = [i \in DOMAIN fs |-> fs[i][2]]
    BY DEF Record, Null, Parts
  <2>4. Range([i \in DOMAIN fs |-> fs[i][2]]) \subseteq S
    BY <2>2 DEF Range
  <2>5. QED
    BY <2>1, <2>3, <2>4, Grown
<1>3. QED
  BY <1>1, <1>2

-----------------------------------------------------------------------------
(* What every parsing function answers, called at position i when error    *)
(* holds e: a cursor that is not before i nor past the end of the source,  *)
(* and no success where there was an error.                                *)
Answers(r, i, e) ==
  /\ r.err \in {"none", "error", "thrown"}
  /\ r.at \in i..(Len(source) + 1)
  /\ r.err = "none" => e = "none"

Readable == Len(source) \in Nat /\ \A i \in 1..Len(source) : source[i] \in STRING

(* What error may hold when a function is called.                          *)
Held == {"none", "error"}

LEMMA Tokens ==
  ASSUME Readable, NEW i \in Positions, Tok(i) # "eof"
  PROVE  /\ i \in 1..Len(source) /\ i + 1 \in Positions /\ i + 1 \in i..(Len(source) + 1)
         /\ Tok(i) \in STRING
BY DEF Positions, Tok, Readable

LEMMA Here ==
  ASSUME Readable, NEW i \in Positions
  PROVE  i \in i..(Len(source) + 1) /\ i \in Nat
BY DEF Positions, Readable

LEMMA NotEof == "eof" \notin Words /\ "eof" \notin Numbers /\ "eof" \notin Huge
BY SourceAssumption DEF SourceAssumption

LEMMA Cursor ==
  ASSUME Readable, NEW i \in Positions, NEW e, NEW r, Answers(r, i, e)
  PROVE  r.at \in Positions /\ r.at \in Nat /\ i \in Nat /\ r.at >= i
BY DEF Answers, Positions, Readable

LEMMA Sooner ==
  ASSUME Readable, NEW i \in Positions, NEW j \in Positions, i <= j,
         NEW e, NEW r, Answers(r, j, e)
  PROVE  Answers(r, i, e) /\ r.at >= j
BY DEF Answers, Positions, Readable

LEMMA GotAnswers ==
  ASSUME NEW i, NEW e \in Held, NEW j \in i..(Len(source) + 1), NEW t
  PROVE  /\ Answers(Got(j, t, e), i, e) /\ Got(j, t, e).at = j /\ Got(j, t, e).tree = t
         /\ Got(j, t, e).err = e
BY DEF Answers, Got, Held

LEMMA GotFine ==
  ASSUME NEW i, NEW j \in i..(Len(source) + 1), NEW t
  PROVE  /\ Answers(Got(j, t, "none"), i, "none") /\ Got(j, t, "none").at = j
         /\ Got(j, t, "none").tree = t /\ Got(j, t, "none").err = "none"
BY DEF Answers, Got

LEMMA FailedAnswers ==
  ASSUME NEW i, NEW e, NEW j \in i..(Len(source) + 1)
  PROVE  /\ Answers(Failed(j), i, e) /\ Failed(j).err = "error"
         /\ Answers(Thrown(j), i, e) /\ Thrown(j).err = "thrown"
BY DEF Answers, Failed, Thrown

LEMMA ThenAnswers ==
  ASSUME Readable, NEW i \in Positions, NEW e, NEW r, Answers(r, i, e),
         NEW x, r.err = "none" => Answers(x, r.at, "none")
  PROVE  /\ Answers(Then(r, x), i, e)
         /\ Then(r, x).err = "none" => r.err = "none" /\ Then(r, x) = x /\ Answers(x, r.at, "none")
<1>1. CASE r.err = "none"
  <2>1. Then(r, x) = x
    BY <1>1 DEF Then
  <2>2. Answers(x, i, e)
    BY <1>1 DEF Answers, Positions, Readable
  <2>3. QED
    BY <1>1, <2>1, <2>2
<1>2. CASE r.err # "none"
  BY <1>2 DEF Then
<1>3. QED
  BY <1>1, <1>2

LEMMA MadeAnswers ==
  ASSUME Readable, NEW i \in Positions, NEW e, NEW r, Answers(r, i, e), NEW t
  PROVE  /\ Answers(Made(r, t), i, e)
         /\ Made(r, t).at = r.at /\ Made(r, t).err = r.err
         /\ r.err = "none" => Made(r, t).tree = t
<1>1. CASE r.err = "none"
  <2>1. Made(r, t) = Got(r.at, t, "none")
    BY <1>1 DEF Made, Then
  <2>2. QED
    BY <1>1, <2>1 DEF Answers, Got
<1>2. CASE r.err # "none"
  BY <1>2 DEF Made, Then
<1>3. QED
  BY <1>1, <1>2

LEMMA HeldIs == "none" \in Held /\ "error" \in Held
BY DEF Held

LEMMA consumeAnswers ==
  ASSUME Readable, NEW i \in Positions, NEW e \in Held, NEW token, token # "eof"
  PROVE  /\ Answers(consume(i, token, e), i, e)
         /\ consume(i, token, e).err = "none" => consume(i, token, e).at = i + 1
<1>1. CASE Tok(i) = token
  <2>1. PICK j \in i..(Len(source) + 1) : j = i + 1
    BY <1>1, Tokens
  <2>2. consume(i, token, e) = Got(j, Null, e)
    BY <1>1, <2>1 DEF consume
  <2>3. QED
    BY <2>1, <2>2, GotAnswers
<1>2. CASE Tok(i) # token
  <2>1. consume(i, token, e) = Failed(i)
    BY <1>2 DEF consume
  <2>2. QED
    BY <2>1, Here, FailedAnswers
<1>3. QED
  BY <1>1, <1>2

LEMMA consume_identAnswers ==
  ASSUME Readable, NEW i \in Positions, NEW e \in Held
  PROVE  /\ Answers(consume_ident(i, e), i, e)
         /\ consume_ident(i, e).err = "none" =>
              consume_ident(i, e).at = i + 1 /\ consume_ident(i, e).tree \in STRING
<1>1. CASE Tok(i) \in Words
  <2>1. Tok(i) # "eof"
    BY <1>1, NotEof
  <2>2. PICK j \in i..(Len(source) + 1) : j = i + 1
    BY <2>1, Tokens
  <2>3. PICK t \in STRING : t = Tok(i)
    BY <2>1, Tokens
  <2>4. consume_ident(i, e) = Got(j, t, e)
    BY <1>1, <2>2, <2>3 DEF consume_ident
  <2>5. QED
    BY <2>2, <2>3, <2>4, GotAnswers
<1>2. CASE Tok(i) \notin Words
  <2>1. consume_ident(i, e) = Failed(i)
    BY <1>2 DEF consume_ident
  <2>2. QED
    BY <2>1, Here, FailedAnswers
<1>3. QED
  BY <1>1, <1>2

LEMMA ConsumedAnswers ==
  ASSUME Readable, NEW i \in Positions, NEW e, NEW r, Answers(r, i, e),
         NEW token, token # "eof"
  PROVE  /\ Answers(Consumed(r, token), i, e)
         /\ Consumed(r, token).err = "none" =>
              r.err = "none" /\ Consumed(r, token).at = r.at + 1 /\ Consumed(r, token).tree = r.tree
<1>1. PICK c : c = consume(r.at, token, "none")
  OBVIOUS
<1>2. PICK m : m = Made(c, r.tree)
  OBVIOUS
<1>3. Consumed(r, token) = Then(r, m)
  BY <1>1, <1>2 DEF Consumed
<1>4. r.at \in Positions
  BY Cursor
<1>5. Answers(c, r.at, "none") /\ (c.err = "none" => c.at = r.at + 1)
  BY <1>1, <1>4, HeldIs, consumeAnswers
<1>6. Answers(m, r.at, "none") /\ m.at = c.at /\ m.err = c.err /\ (c.err = "none" => m.tree = r.tree)
  BY <1>2, <1>4, <1>5, MadeAnswers
<1>7. /\ Answers(Then(r, m), i, e)
      /\ Then(r, m).err = "none" => r.err = "none" /\ Then(r, m) = m
  BY <1>6, ThenAnswers
<1>8. QED
  BY <1>3, <1>5, <1>6, <1>7

(* The skips.                                                              *)
LEMMA FirstOfIs ==
  ASSUME Readable, NEW i \in Positions, NEW stops
  PROVE  FirstOf(stops, i) \in i..(Len(source) + 1)
<1> DEFINE s == {j \in i..(Len(source) + 1) : j \in stops \/ Tok(j) = "eof"}
<1>1. Len(source) + 1 \in s
  BY DEF Tok, Positions, Readable
<1>2. s \in SUBSET (1..(Len(source) + 1)) /\ Len(source) + 1 \in Nat
  BY DEF Positions, Readable
<1>3. Min(s) \in s
  <2> HIDE DEF s
  <2>1. QED
    BY <1>1, <1>2, LeastIn
<1>4. QED
  BY <1>3 DEF FirstOf

LEMMA parse_typeAnswers ==
  ASSUME Readable, NEW i \in Positions
  PROVE  Answers(parse_type(i), i, "none")
<1>1. PICK open : open = Nested(i, Opening, Closing)
  OBVIOUS
<1>2. PICK j : j = FirstOf({k \in Positions : k >= i /\ open[k] = 0 /\ Tok(k) \in AfterType \cup {">"}}, i)
  OBVIOUS
<1>3. j \in i..(Len(source) + 1)
  BY <1>2, FirstOfIs
<1>4. \/ parse_type(i) = Failed(j)
      \/ Tok(j) = ">" /\ parse_type(i) = Got(j + 1, Null, "none")
      \/ parse_type(i) = Got(j, Null, "none")
  BY <1>1, <1>2 DEF parse_type
<1>5. ASSUME Tok(j) = ">", parse_type(i) = Got(j + 1, Null, "none")
      PROVE  Answers(parse_type(i), i, "none")
  <2>1. j \in Positions
    BY <1>3 DEF Positions, Readable
  <2>2. j + 1 \in i..(Len(source) + 1)
    BY <1>3, <1>5, <2>1, Tokens DEF Positions, Readable
  <2>3. PICK k \in i..(Len(source) + 1) : k = j + 1
    BY <2>2
  <2>4. QED
    BY <1>5, <2>3, GotFine
<1>6. QED
  BY <1>3, <1>4, <1>5, GotFine, FailedAnswers

LEMMA TypeAfterAnswers ==
  ASSUME Readable, NEW i \in Positions, NEW e, NEW r, Answers(r, i, e),
         NEW mark, mark # "eof"
  PROVE  /\ Answers(TypeAfter(r, mark), i, e)
         /\ TypeAfter(r, mark).err = "none" =>
              r.err = "none" /\ TypeAfter(r, mark).at >= r.at /\ TypeAfter(r, mark).tree = r.tree
<1>1. PICK x : x = IF Tok(r.at) = mark THEN Made(parse_type(r.at + 1), r.tree) ELSE r
  OBVIOUS
<1>2. TypeAfter(r, mark) = Then(r, x)
  BY <1>1 DEF TypeAfter
<1>3. CASE r.err # "none"
  BY <1>2, <1>3 DEF Then
<1>4. CASE r.err = "none"
  <2>1. r.at \in Positions /\ r.at \in Nat
    BY Cursor
  <2>2. Answers(x, r.at, "none") /\ (x.err = "none" => x.tree = r.tree)
    <3>1. CASE Tok(r.at) = mark
      <4>1. r.at + 1 \in Positions /\ r.at <= r.at + 1
        BY <2>1, <3>1, Tokens
      <4>2. PICK s : s = parse_type(r.at + 1)
        OBVIOUS
      <4>3. Answers(s, r.at + 1, "none")
        BY <4>1, <4>2, parse_typeAnswers
      <4>4. Answers(s, r.at, "none")
        BY <2>1, <4>1, <4>3, Sooner
      <4>5. x = Made(s, r.tree)
        BY <1>1, <3>1, <4>2
      <4>6. QED
        BY <2>1, <4>4, <4>5, MadeAnswers
    <3>2. CASE Tok(r.at) # mark
      <4>1. x = r
        BY <1>1, <3>2
      <4>2. QED
        BY <1>4, <4>1 DEF Answers
    <3>3. QED
      BY <3>1, <3>2
  <2>3. x.at >= r.at
    BY <2>1, <2>2, Cursor
  <2>4. Answers(Then(r, x), i, e) /\ (Then(r, x).err = "none" => Then(r, x) = x)
    BY <2>2, ThenAnswers
  <2>5. QED
    BY <1>2, <1>4, <2>2, <2>3, <2>4
<1>5. QED
  BY <1>3, <1>4

LEMMA skip_balancedAnswers ==
  ASSUME Readable, NEW i \in Positions, i + 1 \in Positions, NEW closing
  PROVE  Answers(skip_balanced(i, closing), i, "none")
<1>1. PICK open : open = Nested(i, Opening, {closing})
  OBVIOUS
<1>2. PICK j : j = FirstOf({k \in Positions : k > i /\ open[k] = 0}, i + 1)
  OBVIOUS
<1>3. j \in i..(Len(source) + 1)
  <2>1. j \in (i + 1)..(Len(source) + 1)
    BY <1>2, FirstOfIs
  <2>2. QED
    BY <2>1 DEF Positions, Readable
<1>4. skip_balanced(i, closing) = Got(j, Null, "none") \/ skip_balanced(i, closing) = Failed(j)
  BY <1>1, <1>2 DEF skip_balanced
<1>5. QED
  BY <1>3, <1>4, GotFine, FailedAnswers

-----------------------------------------------------------------------------
(* What the functions answer, by what they read: each but the statements   *)
(* of a block moves the cursor on.                                         *)
Past(r, i) == r.at > i
IsExpression(r, i, e) == Answers(r, i, e) /\ (r.err = "none" => Past(r, i) /\ IsTree(r.tree))
IsList(r, i, e) == Answers(r, i, e) /\ (r.err = "none" => Past(r, i) /\ AreTrees(r.tree))
IsFields(r, i, e) == Answers(r, i, e) /\ (r.err = "none" => Past(r, i) /\ AreFields(r.tree))
IsBlock(r, i, e) == Answers(r, i, e) /\ (r.err = "none" => AreTrees(r.tree))
Moves(r, i, e) == Answers(r, i, e) /\ (r.err = "none" => Past(r, i))

Right(kind, i, e, r) ==
  CASE kind \in {"items", "sequence"} -> IsList(r, i, e)
    [] kind = "fields" -> IsFields(r, i, e)
    [] kind = "statements" -> IsBlock(r, i, e)
    [] kind = "parameters" -> Moves(r, i, e)
    [] OTHER -> IsExpression(r, i, e)

(* p answers rightly for the positions after i.                            *)
Ready(p, i) ==
  \A kind \in Kinds, j \in Positions, e \in Held : j > i => Right(kind, j, e, p[<<kind, j, e>>])

LEMMA Later ==
  ASSUME NEW p, NEW i, Ready(p, i), NEW j \in Positions, j > i, NEW e \in Held
  PROVE  /\ IsExpression(p[<<"assignment", j, e>>], j, e)
         /\ IsExpression(p[<<"unary", j, e>>], j, e)
         /\ IsExpression(p[<<"block_or_expr", j, e>>], j, e)
         /\ IsList(p[<<"items", j, e>>], j, e)
         /\ IsList(p[<<"sequence", j, e>>], j, e)
         /\ IsFields(p[<<"fields", j, e>>], j, e)
         /\ IsBlock(p[<<"statements", j, e>>], j, e)
         /\ Moves(p[<<"parameters", j, e>>], j, e)
<1>1. \A kind \in Kinds : Right(kind, j, e, p[<<kind, j, e>>])
  BY DEF Ready
<1>2. IsExpression(p[<<"assignment", j, e>>], j, e)
  BY <1>1 DEF Right, Kinds
<1>3. IsExpression(p[<<"unary", j, e>>], j, e)
  BY <1>1 DEF Right, Kinds
<1>4. IsExpression(p[<<"block_or_expr", j, e>>], j, e)
  BY <1>1 DEF Right, Kinds
<1>5. IsList(p[<<"items", j, e>>], j, e) /\ IsList(p[<<"sequence", j, e>>], j, e)
  BY <1>1 DEF Right, Kinds
<1>6. IsFields(p[<<"fields", j, e>>], j, e)
  BY <1>1 DEF Right, Kinds
<1>7. IsBlock(p[<<"statements", j, e>>], j, e)
  BY <1>1 DEF Right, Kinds
<1>8. Moves(p[<<"parameters", j, e>>], j, e)
  BY <1>1 DEF Right, Kinds
<1>9. QED
  BY <1>2, <1>3, <1>4, <1>5, <1>6, <1>7, <1>8

LEMMA ReadyLater ==
  ASSUME Readable, NEW p, NEW i \in Positions, Ready(p, i), NEW j \in Positions, j >= i
  PROVE  Ready(p, j)
BY DEF Ready, Positions, Readable

(* After a token that is not the end, and after what has been read.        *)
After(r) == r.at..(Len(source) + 1)

LEMMA NextPosition ==
  ASSUME Readable, NEW i \in Positions, Tok(i) # "eof"
  PROVE  \E j \in Positions : j = i + 1 /\ j > i /\ j >= i /\ j \in i..(Len(source) + 1)
BY Tokens DEF Positions, Readable

LEMMA NextToken ==
  ASSUME Readable, NEW i \in Positions, NEW e, NEW r, Answers(r, i, e), Tok(r.at) # "eof"
  PROVE  \E j \in Positions : j = r.at + 1 /\ j > i /\ j \in After(r)
<1>1. r.at \in Positions /\ r.at \in Nat /\ i \in Nat /\ r.at >= i
  BY Cursor
<1>2. r.at + 1 \in Positions /\ r.at + 1 \in r.at..(Len(source) + 1)
  BY <1>1, Tokens
<1>3. r.at + 1 > i
  BY <1>1
<1>4. QED
  BY <1>2, <1>3 DEF After

LEMMA ThisToken ==
  ASSUME Readable, NEW i \in Positions, NEW e, NEW r, Answers(r, i, e)
  PROVE  \E j \in Positions : j = r.at /\ j \in After(r) /\ (Past(r, i) => j > i)
<1>1. r.at \in Positions
  BY Cursor
<1>2. r.at \in r.at..(Len(source) + 1)
  BY <1>1, Here
<1>3. QED
  BY <1>1, <1>2 DEF After, Past

LEMMA Continued ==
  ASSUME Readable, NEW i \in Positions, NEW e, NEW r, Answers(r, i, e), r.err = "none",
         NEW j \in After(r), NEW x, Answers(x, j, "none")
  PROVE  /\ Answers(x, i, e) /\ Answers(x, r.at, "none")
         /\ j > i => Past(x, i)
         /\ Past(r, i) => Past(x, i)
<1>1. r.at \in Positions /\ r.at \in Nat /\ i \in Nat /\ r.at >= i
  BY Cursor
<1>2. j \in Positions /\ j \in Nat /\ j >= r.at
  BY <1>1 DEF After, Positions, Readable
<1>3. Answers(x, r.at, "none") /\ x.at >= j
  BY <1>1, <1>2, Sooner
<1>4. i <= j
  BY <1>1, <1>2
<1>5. Answers(x, i, "none")
  BY <1>2, <1>4, Sooner
<1>6. e = "none"
  BY DEF Answers
<1>7. x.at \in Nat
  BY <1>1, <1>3, Cursor
<1>8. (j > i => x.at > i) /\ (r.at > i => x.at > i)
  BY <1>1, <1>2, <1>3, <1>7
<1>9. QED
  BY <1>3, <1>5, <1>6, <1>8 DEF Past

LEMMA Deeper ==
  ASSUME Readable, NEW i \in Positions, NEW j \in Positions, j >= i, NEW e, NEW r, Answers(r, j, e)
  PROVE  Answers(r, i, e) /\ (j > i => Past(r, i)) /\ (Past(r, j) => Past(r, i))
<1>1. i <= j /\ i \in Nat /\ j \in Nat
  BY DEF Positions
<1>2. Answers(r, i, e) /\ r.at >= j /\ r.at \in Nat
  BY <1>1, Sooner, Cursor
<1>3. QED
  BY <1>1, <1>2 DEF Past

(* What is made of an answer.                                              *)
LEMMA MadePast ==
  ASSUME Readable, NEW i \in Positions, NEW e, NEW r, Answers(r, i, e), NEW t
  PROVE  Past(Made(r, t), i) <=> Past(r, i)
BY MadeAnswers DEF Past

LEMMA MadeExpression ==
  ASSUME Readable, NEW i \in Positions, NEW e, NEW r, Answers(r, i, e), NEW t,
         r.err = "none" => Past(r, i) /\ IsTree(t)
  PROVE  IsExpression(Made(r, t), i, e)
BY MadeAnswers, MadePast DEF IsExpression

LEMMA JoinedTrees ==
  ASSUME Readable, NEW i \in Positions, NEW e, NEW r, Answers(r, i, e), NEW a,
         r.err = "none" => IsTree(a) /\ AreTrees(r.tree)
  PROVE  /\ IsBlock(Joined(<<a>>, r), i, e)
         /\ (r.err = "none" => Past(r, i)) => IsList(Joined(<<a>>, r), i, e)
<1>1. PICK t : t = <<a>> \o r.tree
  OBVIOUS
<1>2. Joined(<<a>>, r) = Made(r, t)
  BY <1>1 DEF Joined
<1>3. r.err = "none" => AreTrees(t)
  BY <1>1, ListJoined
<1>4. QED
  BY <1>2, <1>3, MadeAnswers, MadePast DEF IsBlock, IsList

LEMMA OneListed ==
  ASSUME Readable, NEW i \in Positions, NEW e, NEW r, IsExpression(r, i, e)
  PROVE  IsList(Made(r, <<r.tree>>), i, e)
<1>1. PICK t : t = <<r.tree>>
  OBVIOUS
<1>2. r.err = "none" => AreTrees(t)
  BY <1>1, ListBasics DEF IsExpression
<1>3. QED
  BY <1>1, <1>2, MadeAnswers, MadePast DEF IsList, IsExpression

LEMMA ConsumedPast ==
  ASSUME Readable, NEW i \in Positions, NEW e, NEW r, Answers(r, i, e),
         NEW token, token # "eof"
  PROVE  /\ Answers(Consumed(r, token), i, e)
         /\ Consumed(r, token).err = "none" =>
              r.err = "none" /\ Consumed(r, token).tree = r.tree /\ Past(Consumed(r, token), i)
<1>1. PICK c : c = Consumed(r, token)
  OBVIOUS
<1>2. Answers(c, i, e) /\ (c.err = "none" => r.err = "none" /\ c.at = r.at + 1 /\ c.tree = r.tree)
  BY <1>1, ConsumedAnswers
<1>3. r.at \in Nat /\ i \in Nat /\ r.at >= i
  BY Cursor
<1>4. c.err = "none" => c.at > i
  BY <1>2, <1>3
<1>5. QED
  BY <1>1, <1>2, <1>4 DEF Past

LEMMA ItemsRight ==
  ASSUME Readable, NEW p, NEW i \in Positions, NEW e \in Held, Ready(p, i),
         IsExpression(p[<<"assignment", i, e>>], i, e)
  PROVE  IsList(Items(p, i, e), i, e)
<1>1. PICK item : item = p[<<"assignment", i, e>>]
  OBVIOUS
<1>2. IsExpression(item, i, e) /\ Answers(item, i, e)
  BY <1>1 DEF IsExpression
<1>3. CASE item.err = "none" /\ Tok(item.at) = ","
  <2>1. PICK j \in Positions : j = item.at + 1 /\ j > i /\ j \in After(item)
    BY <1>2, <1>3, NextToken
  <2>2. PICK rest : rest = p[<<"items", j, "none">>]
    OBVIOUS
  <2>3. IsList(rest, j, "none") /\ Answers(rest, j, "none")
    BY <2>1, <2>2, HeldIs, Later DEF IsList
  <2>4. Answers(rest, i, e) /\ Past(rest, i)
    <3>1. item.err = "none"
      BY <1>3
    <3>2. QED
      BY <1>2, <2>1, <2>3, <3>1, Continued
  <2>5. Items(p, i, e) = Joined(<<item.tree>>, rest)
    BY <1>1, <1>3, <2>1, <2>2 DEF Items
  <2>6. IsTree(item.tree) /\ (rest.err = "none" => AreTrees(rest.tree))
    BY <1>2, <1>3, <2>3 DEF IsExpression, IsList
  <2>7. QED
    BY <2>4, <2>5, <2>6, JoinedTrees
<1>4. CASE ~ (item.err = "none" /\ Tok(item.at) = ",")
  <2>1. Items(p, i, e) = Made(item, <<item.tree>>)
    BY <1>1, <1>4 DEF Items
  <2>2. QED
    BY <1>2, <2>1, OneListed
<1>5. QED
  BY <1>3, <1>4

LEMMA EnclosedRight ==
  ASSUME Readable, NEW p, NEW i \in Positions, NEW e \in Held, NEW close, close # "eof",
         IsList(p[<<"items", i, e>>], i, e)
  PROVE  IsList(Enclosed(p, i, close, e), i, e)
<1>1. PICK items : items = p[<<"items", i, e>>]
  OBVIOUS
<1>2. Answers(items, i, e) /\ (items.err = "none" => AreTrees(items.tree))
  BY <1>1 DEF IsList
<1>3. CASE Tok(i) = close
  <2>1. PICK j \in i..(Len(source) + 1) : j = i + 1 /\ j > i
    BY <1>3, NextPosition
  <2>2. PICK g : g = Got(j, << >>, e)
    OBVIOUS
  <2>3. Answers(g, i, e) /\ g.at = j /\ g.tree = << >>
    BY <2>2, GotAnswers
  <2>4. Enclosed(p, i, close, e) = g
    BY <1>3, <2>1, <2>2 DEF Enclosed
  <2>5. QED
    BY <2>1, <2>3, <2>4, ListBasics DEF IsList, Past
<1>4. CASE Tok(i) # close
  <2>1. Enclosed(p, i, close, e) = Consumed(items, close)
    BY <1>1, <1>4 DEF Enclosed
  <2>2. QED
    BY <1>2, <2>1, ConsumedPast DEF IsList
<1>5. QED
  BY <1>3, <1>4

(* An answer to a call further on, after an answer or at a token.          *)
LEMMA ThenPast ==
  ASSUME Readable, NEW i \in Positions, NEW e, NEW r, Answers(r, i, e),
         NEW x, r.err = "none" => Answers(x, i, e)
  PROVE  /\ Answers(Then(r, x), i, e)
         /\ Then(r, x).err = "none" => r.err = "none" /\ Then(r, x) = x
BY DEF Then

LEMMA ParametersRight ==
  ASSUME Readable, NEW p, NEW i \in Positions, NEW e \in Held, Ready(p, i)
  PROVE  Moves(Parameters(p, i, e), i, e)
<1>1. PICK name : name = consume_ident(i, e)
  OBVIOUS
<1>2. Answers(name, i, e) /\ (name.err = "none" => name.at = i + 1)
  BY <1>1, consume_identAnswers
<1>3. name.err = "none" => Past(name, i)
  BY <1>2 DEF Past, Positions
<1>4. PICK m : m = Made(name, <<name.tree>>)
  OBVIOUS
<1>5. Answers(m, i, e) /\ (m.err = "none" => Past(m, i))
  BY <1>2, <1>3, <1>4, MadeAnswers, MadePast
<1>6. PICK typed : typed = TypeAfter(m, ":")
  OBVIOUS
<1>7. Answers(typed, i, e) /\ (typed.err = "none" => m.err = "none" /\ typed.at >= m.at)
  BY <1>5, <1>6, TypeAfterAnswers
<1>8. typed.err = "none" => Past(typed, i)
  <2>1. m.at \in Nat /\ typed.at \in Nat /\ i \in Nat
    BY <1>5, <1>7, Cursor
  <2>2. QED
    BY <1>5, <1>7, <2>1 DEF Past
<1>9. PICK x : x = IF Tok(typed.at) = "," THEN Joined(typed.tree, p[<<"parameters", typed.at + 1, "none">>])
                   ELSE typed
  OBVIOUS
<1>10. Parameters(p, i, e) = Then(typed, x)
  BY <1>1, <1>4, <1>6, <1>9 DEF Parameters
<1>11. ASSUME typed.err = "none" PROVE Answers(x, i, e) /\ (x.err = "none" => Past(x, i))
  <2>1. CASE Tok(typed.at) = ","
    <3>1. PICK j \in Positions : j = typed.at + 1 /\ j > i /\ j \in After(typed)
      BY <1>7, <2>1, NextToken
    <3>2. PICK rest : rest = p[<<"parameters", j, "none">>]
      OBVIOUS
    <3>3. Answers(rest, j, "none")
      BY <3>1, <3>2, HeldIs, Later DEF Moves
    <3>4. Answers(rest, i, e) /\ Past(rest, i)
      BY <1>7, <1>11, <3>1, <3>3, Continued
    <3>5. PICK t : t = typed.tree \o rest.tree
      OBVIOUS
    <3>6. x = Made(rest, t)
      BY <1>9, <2>1, <3>1, <3>2, <3>5 DEF Joined
    <3>7. QED
      BY <3>4, <3>6, MadeAnswers, MadePast
  <2>2. CASE Tok(typed.at) # ","
    <3>1. x = typed
      BY <1>9, <2>2
    <3>2. QED
      BY <1>7, <1>8, <1>11, <3>1
  <2>3. QED
    BY <2>1, <2>2
<1>12. QED
  BY <1>7, <1>10, <1>11, ThenPast DEF Moves

LEMMA SignatureRight ==
  ASSUME Readable, NEW p, NEW i \in Positions, NEW e \in Held, Ready(p, i)
  PROVE  Moves(Signature(p, i, e), i, e)
<1>1. PICK open : open = consume(i, "(", e)
  OBVIOUS
<1>2. Answers(open, i, e) /\ (open.err = "none" => open.at = i + 1)
  BY <1>1, consumeAnswers
<1>3. open.err = "none" => Past(open, i)
  BY <1>2 DEF Past, Positions
<1>4. PICK params : params = IF Tok(open.at) = ")" THEN Got(open.at, << >>, "none")
                             ELSE p[<<"parameters", open.at, "none">>]
  OBVIOUS
<1>5. PICK c : c = Consumed(params, ")")
  OBVIOUS
<1>6. PICK x : x = TypeAfter(c, "->")
  OBVIOUS
<1>7. Signature(p, i, e) = Then(open, x)
  BY <1>1, <1>4, <1>5, <1>6 DEF Signature
<1>8. ASSUME open.err = "none" PROVE Answers(x, i, e) /\ Past(x, i)
  <2>1. PICK j \in Positions : j = open.at /\ j \in After(open) /\ j > i
    BY <1>2, <1>3, <1>8, ThisToken
  <2>2. Answers(params, j, "none")
    <3>1. CASE Tok(j) = ")"
      <4>1. params = Got(j, << >>, "none")
        BY <1>4, <2>1, <3>1
      <4>2. j \in j..(Len(source) + 1)
        BY <2>1, Here
      <4>3. PICK t : t = << >>
        OBVIOUS
      <4>4. QED
        BY <4>1, <4>2, <4>3, GotFine
    <3>2. CASE Tok(j) # ")"
      <4>1. params = p[<<"parameters", j, "none">>]
        BY <1>4, <2>1, <3>2
      <4>2. QED
        BY <2>1, <4>1, HeldIs, Later DEF Moves
    <3>3. QED
      BY <3>1, <3>2
  <2>3. Answers(c, j, "none")
    BY <1>5, <2>1, <2>2, ConsumedPast
  <2>4. Answers(x, j, "none")
    BY <1>6, <2>1, <2>3, TypeAfterAnswers
  <2>5. QED
    BY <1>2, <1>8, <2>1, <2>4, Continued
<1>9. QED
  BY <1>2, <1>7, <1>8, ThenPast DEF Moves

LEMMA FieldsRight ==
  ASSUME Readable, NEW p, NEW i \in Positions, NEW e \in Held, Ready(p, i)
  PROVE  IsFields(Fields(p, i, e), i, e)
<1>1. PICK name : name = consume_ident(i, e)
  OBVIOUS
<1>2. /\ Answers(name, i, e)
      /\ name.err = "none" => name.at = i + 1 /\ name.tree \in STRING
  BY <1>1, consume_identAnswers
<1>3. name.err = "none" => Past(name, i)
  BY <1>2 DEF Past, Positions
<1>4. PICK value : value = IF Tok(name.at) = ":" THEN p[<<"assignment", name.at + 1, "none">>]
                           ELSE Got(name.at, Ident(name.tree), "none")
  OBVIOUS
<1>5. PICK field : field = <<name.tree, value.tree>>
  OBVIOUS
<1>6. PICK x : x = IF value.err = "none" /\ Tok(value.at) = ","
                   THEN Joined(<<field>>, p[<<"fields", value.at + 1, "none">>])
                   ELSE Made(value, <<field>>)
  OBVIOUS
<1>7. Fields(p, i, e) = Then(name, x)
  BY <1>1, <1>4, <1>5, <1>6 DEF Fields
<1>8. ASSUME name.err = "none" PROVE IsFields(x, i, e)
  <2>1. Answers(value, i, e) /\ Past(value, i) /\ (value.err = "none" => IsTree(value.tree))
    <3>1. CASE Tok(name.at) = ":"
      <4>1. PICK j \in Positions : j = name.at + 1 /\ j > i /\ j \in After(name)
        BY <1>2, <3>1, NextToken
      <4>2. value = p[<<"assignment", j, "none">>]
        BY <1>4, <3>1, <4>1
      <4>3. IsExpression(value, j, "none")
        BY <4>1, <4>2, HeldIs, Later
      <4>4. Answers(value, j, "none") /\ (value.err = "none" => IsTree(value.tree))
        BY <4>3 DEF IsExpression
      <4>5. Answers(value, i, e) /\ Past(value, i)
        BY <1>2, <1>8, <4>1, <4>4, Continued
      <4>6. QED
        BY <4>4, <4>5
    <3>2. CASE Tok(name.at) # ":"
      <4>1. PICK j \in Positions : j = name.at /\ j \in After(name) /\ j > i
        BY <1>2, <1>3, <1>8, ThisToken
      <4>2. PICK t : t = Ident(name.tree)
        OBVIOUS
      <4>3. value = Got(j, t, "none")
        BY <1>4, <3>2, <4>1, <4>2
      <4>4. j \in j..(Len(source) + 1)
        BY <4>1, Here
      <4>5. Answers(value, j, "none") /\ value.tree = t
        BY <4>3, <4>4, GotFine
      <4>6. Answers(value, i, e) /\ Past(value, i)
        BY <1>2, <1>8, <4>1, <4>5, Continued
      <4>7. QED
        BY <4>2, <4>5, <4>6, Leaf
    <3>3. QED
      BY <3>1, <3>2
  <2>2. PICK one : one = <<field>>
    OBVIOUS
  <2>3. value.err = "none" => AreFields(one) /\ \A fs : AreFields(fs) => AreFields(one \o fs)
    BY <1>2, <1>5, <1>8, <2>1, <2>2, FieldLists
  <2>4. CASE value.err = "none" /\ Tok(value.at) = ","
    <3>1. value.err = "none"
      BY <2>4
    <3>2. PICK j \in Positions : j = value.at + 1 /\ j > i /\ j \in After(value)
      BY <2>1, <2>4, NextToken
    <3>3. PICK rest : rest = p[<<"fields", j, "none">>]
      OBVIOUS
    <3>4. Answers(rest, j, "none") /\ (rest.err = "none" => AreFields(rest.tree))
      BY <3>2, <3>3, HeldIs, Later DEF IsFields
    <3>5. Answers(rest, i, e) /\ Past(rest, i)
      BY <2>1, <3>1, <3>2, <3>4, Continued
    <3>6. PICK t : t = one \o rest.tree
      OBVIOUS
    <3>7. x = Made(rest, t)
      BY <1>6, <2>2, <2>4, <3>2, <3>3, <3>6 DEF Joined
    <3>8. rest.err = "none" => AreFields(t)
      BY <2>3, <3>1, <3>4, <3>6
    <3>9. QED
      BY <3>5, <3>7, <3>8, MadeAnswers, MadePast DEF IsFields
  <2>5. CASE ~ (value.err = "none" /\ Tok(value.at) = ",")
    <3>1. x = Made(value, one)
      BY <1>6, <2>2, <2>5
    <3>2. QED
      BY <2>1, <2>3, <3>1, MadeAnswers, MadePast DEF IsFields
  <2>6. QED
    BY <2>4, <2>5
<1>9. QED
  BY <1>2, <1>7, <1>8, ThenPast DEF IsFields

LEMMA StatementsRight ==
  ASSUME Readable, NEW p, NEW i \in Positions, NEW e \in Held, Ready(p, i),
         IsExpression(p[<<"assignment", i, e>>], i, e)
  PROVE  IsBlock(Statements(p, i, e), i, e)
<1>1. PICK one : one = p[<<"assignment", i, e>>]
  OBVIOUS
<1>2. IsExpression(one, i, e) /\ Answers(one, i, e)
  BY <1>1 DEF IsExpression
<1>3. PICK next : next = IF Tok(one.at) = ";" THEN one.at + 1 ELSE one.at
  OBVIOUS
<1>4. PICK rest : rest = p[<<"statements", next, "none">>]
  OBVIOUS
<1>5. PICK joined : joined = Joined(<<one.tree>>, rest)
  OBVIOUS
<1>6. CASE Tok(i) \in {"}", "eof"}
  <2>1. i \in i..(Len(source) + 1)
    BY Here
  <2>2. PICK t : t = << >>
    OBVIOUS
  <2>3. Statements(p, i, e) = Got(i, t, e)
    BY <1>6, <2>2 DEF Statements
  <2>4. QED
    BY <2>1, <2>2, <2>3, GotAnswers, ListBasics DEF IsBlock
<1>7. CASE Tok(i) = ";"
  <2>1. PICK j \in Positions : j = i + 1 /\ j > i /\ j >= i
    BY <1>7, NextPosition
  <2>2. PICK r : r = p[<<"statements", j, e>>]
    OBVIOUS
  <2>3. Answers(r, j, e) /\ (r.err = "none" => AreTrees(r.tree))
    BY <2>1, <2>2, Later DEF IsBlock
  <2>4. Answers(r, i, e)
    BY <2>1, <2>3, Deeper
  <2>5. Statements(p, i, e) = r
    BY <1>7, <2>1, <2>2 DEF Statements
  <2>6. QED
    BY <2>3, <2>4, <2>5 DEF IsBlock
<1>8. CASE Tok(i) \notin {"}", "eof", ";"}
  <2>1. Statements(p, i, e) = Then(one, joined)
    BY <1>1, <1>3, <1>4, <1>5, <1>8 DEF Statements
  <2>2. ASSUME one.err = "none" PROVE IsBlock(joined, i, e)
    <3>1. \E j \in Positions : j = next /\ j > i /\ j \in After(one)
      <4>1. CASE Tok(one.at) = ";"
        BY <1>2, <1>3, <4>1, NextToken
      <4>2. CASE Tok(one.at) # ";"
        <5>1. Past(one, i)
          BY <1>2, <2>2 DEF IsExpression
        <5>2. QED
          BY <1>2, <1>3, <4>2, <5>1, ThisToken
      <4>3. QED
        BY <4>1, <4>2
    <3>2. PICK j \in Positions : j = next /\ j > i /\ j \in After(one)
      BY <3>1
    <3>3. Answers(rest, j, "none") /\ (rest.err = "none" => AreTrees(rest.tree))
      BY <1>4, <3>2, HeldIs, Later DEF IsBlock
    <3>4. Answers(rest, i, e)
      BY <1>2, <2>2, <3>2, <3>3, Continued
    <3>5. IsTree(one.tree)
      BY <1>2, <2>2 DEF IsExpression
    <3>6. QED
      BY <1>5, <3>3, <3>4, <3>5, JoinedTrees
  <2>3. QED
    BY <1>2, <2>1, <2>2, ThenPast DEF IsBlock
<1>9. QED
  BY <1>6, <1>7, <1>8

LEMMA SequenceRight ==
  ASSUME Readable, NEW p, NEW i \in Positions, NEW e \in Held, Ready(p, i),
         IsExpression(p[<<"assignment", i, e>>], i, e)
  PROVE  IsList(Sequence(p, i, e), i, e)
<1>1. PICK one : one = p[<<"assignment", i, e>>]
  OBVIOUS
<1>2. IsExpression(one, i, e) /\ Answers(one, i, e)
  BY <1>1 DEF IsExpression
<1>3. PICK x : x = CASE Tok(one.at) # ";" -> Got(one.at, <<one.tree>>, "none")
                     [] Tok(one.at) = ";" /\ Tok(one.at + 1) \in {"eof", "}", ")", "]"} ->
                          Got(one.at + 1, <<one.tree>>, "none")
                     [] OTHER -> Joined(<<one.tree>>, p[<<"sequence", one.at + 1, "none">>])
  OBVIOUS
<1>4. Sequence(p, i, e) = Then(one, x)
  BY <1>1, <1>3 DEF Sequence
<1>5. ASSUME one.err = "none" PROVE IsList(x, i, e)
  <2>1. Past(one, i) /\ IsTree(one.tree)
    BY <1>2, <1>5 DEF IsExpression
  <2>2. PICK t : t = <<one.tree>>
    OBVIOUS
  <2>3. AreTrees(t)
    BY <2>1, <2>2, ListBasics
  <2>4. ASSUME NEW j \in Positions, j > i, j \in After(one), x = Got(j, t, "none")
        PROVE  IsList(x, i, e)
    <3>1. j \in j..(Len(source) + 1)
      BY Here
    <3>2. Answers(x, j, "none") /\ x.tree = t
      BY <2>4, <3>1, GotFine
    <3>3. Answers(x, i, e) /\ Past(x, i)
      BY <1>2, <1>5, <2>4, <3>2, Continued
    <3>4. QED
      BY <2>3, <3>2, <3>3 DEF IsList
  <2>5. CASE Tok(one.at) # ";"
    <3>1. PICK j \in Positions : j = one.at /\ j > i /\ j \in After(one)
      BY <1>2, <2>1, ThisToken
    <3>2. x = Got(j, t, "none")
      BY <1>3, <2>2, <2>5, <3>1
    <3>3. QED
      BY <2>4, <3>1, <3>2
  <2>6. CASE Tok(one.at) = ";"
    <3>1. PICK j \in Positions : j = one.at + 1 /\ j > i /\ j \in After(one)
      BY <1>2, <2>6, NextToken
    <3>2. CASE Tok(j) \in {"eof", "}", ")", "]"}
      <4>1. x = Got(j, t, "none")
        BY <1>3, <2>2, <2>6, <3>1, <3>2
      <4>2. QED
        BY <2>4, <3>1, <4>1
    <3>3. CASE Tok(j) \notin {"eof", "}", ")", "]"}
      <4>1. PICK rest : rest = p[<<"sequence", j, "none">>]
        OBVIOUS
      <4>2. Answers(rest, j, "none") /\ (rest.err = "none" => AreTrees(rest.tree))
        BY <3>1, <4>1, HeldIs, Later DEF IsList
      <4>3. Answers(rest, i, e) /\ Past(rest, i)
        BY <1>2, <1>5, <3>1, <4>2, Continued
      <4>4. x = Joined(<<one.tree>>, rest)
        BY <1>3, <2>6, <3>1, <3>3, <4>1
      <4>5. QED
        BY <2>1, <4>2, <4>3, <4>4, JoinedTrees
    <3>4. QED
      BY <3>2, <3>3
  <2>7. QED
    BY <2>5, <2>6
<1>6. QED
  BY <1>2, <1>4, <1>5, ThenPast DEF IsList

LEMMA parse_sequenceRight ==
  ASSUME Readable, NEW p, NEW i \in Positions, NEW e \in Held,
         IsList(p[<<"sequence", i, e>>], i, e)
  PROVE  IsExpression(parse_sequence(p, i, e), i, e)
<1>1. PICK es : es = p[<<"sequence", i, e>>]
  OBVIOUS
<1>2. PICK t : t = IF Len(es.tree) = 1 THEN es.tree[1] ELSE Body(es.tree)
  OBVIOUS
<1>3. parse_sequence(p, i, e) = Made(es, t)
  BY <1>1, <1>2 DEF parse_sequence
<1>4. Answers(es, i, e) /\ (es.err = "none" => Past(es, i) /\ AreTrees(es.tree))
  BY <1>1 DEF IsList
<1>5. es.err = "none" => IsTree(t)
  <2>1. CASE Len(es.tree) = 1
    <3>1. 1 \in 1..1
      OBVIOUS
    <3>2. QED
      BY <1>2, <1>4, <2>1, <3>1, ListBasics
  <2>2. CASE Len(es.tree) # 1
    BY <1>2, <1>4, <2>2, BodyNode
  <2>3. QED
    BY <2>1, <2>2
<1>6. QED
  BY <1>3, <1>4, <1>5, MadeExpression

LEMMA parse_block_or_exprRight ==
  ASSUME Readable, NEW p, NEW i \in Positions, NEW e \in Held, Ready(p, i),
         IsList(p[<<"sequence", i, e>>], i, e)
  PROVE  IsExpression(parse_block_or_expr(p, i, e), i, e)
<1>1. CASE Tok(i) = "="
  <2>1. PICK j \in Positions : j = i + 1 /\ j > i /\ j >= i
    BY <1>1, NextPosition
  <2>2. PICK r : r = p[<<"assignment", j, e>>]
    OBVIOUS
  <2>3. Answers(r, j, e) /\ (r.err = "none" => IsTree(r.tree))
    BY <2>1, <2>2, Later DEF IsExpression
  <2>4. Answers(r, i, e) /\ Past(r, i)
    BY <2>1, <2>3, Deeper
  <2>5. parse_block_or_expr(p, i, e) = r
    BY <1>1, <2>1, <2>2 DEF parse_block_or_expr
  <2>6. QED
    BY <2>3, <2>4, <2>5 DEF IsExpression
<1>2. CASE Tok(i) = "{"
  <2>1. PICK j \in Positions : j = i + 1 /\ j > i /\ j >= i
    BY <1>2, NextPosition
  <2>2. PICK r : r = p[<<"statements", j, e>>]
    OBVIOUS
  <2>3. Answers(r, j, e) /\ (r.err = "none" => AreTrees(r.tree))
    BY <2>1, <2>2, Later DEF IsBlock
  <2>4. Answers(r, i, e)
    BY <2>1, <2>3, Deeper
  <2>5. PICK close : close = "}"
    OBVIOUS
  <2>6. PICK block : block = Consumed(r, close)
    OBVIOUS
  <2>7. /\ Answers(block, i, e)
        /\ block.err = "none" => r.err = "none" /\ block.tree = r.tree /\ Past(block, i)
    <3>1. close # "eof"
      BY <2>5
    <3>2. QED
      BY <2>4, <2>6, <3>1, ConsumedPast
  <2>8. parse_block_or_expr(p, i, e) = Made(block, Body(block.tree))
    BY <1>2, <2>1, <2>2, <2>5, <2>6 DEF parse_block_or_expr
  <2>9. block.err = "none" => IsTree(Body(block.tree))
    BY <2>3, <2>7, BodyNode
  <2>10. QED
    BY <2>7, <2>8, <2>9, MadeExpression
<1>3. CASE Tok(i) # "=" /\ Tok(i) # "{"
  <2>1. parse_block_or_expr(p, i, e) = parse_sequence(p, i, e)
    BY <1>3 DEF parse_block_or_expr
  <2>2. QED
    BY <2>1, parse_sequenceRight
<1>4. QED
  BY <1>1, <1>2, <1>3

(* An expression read where another answer ends, and after a token there.  *)
LEMMA ExpressionAfter ==
  ASSUME Readable, NEW p, NEW i \in Positions, Ready(p, i), NEW e, NEW r, Answers(r, i, e),
         r.err = "none", Past(r, i)
  PROVE  /\ IsExpression(p[<<"assignment", r.at, "none">>], i, e)
         /\ IsExpression(p[<<"block_or_expr", r.at, "none">>], i, e)
<1>1. PICK j \in Positions : j = r.at /\ j > i /\ j \in After(r)
  BY ThisToken
<1>2. PICK x : x = p[<<"assignment", j, "none">>]
  OBVIOUS
<1>3. PICK y : y = p[<<"block_or_expr", j, "none">>]
  OBVIOUS
<1>4. IsExpression(x, j, "none") /\ IsExpression(y, j, "none")
  BY <1>1, <1>2, <1>3, HeldIs, Later
<1>5. Answers(x, j, "none") /\ Answers(y, j, "none")
  BY <1>4 DEF IsExpression
<1>6. Answers(x, i, e) /\ Past(x, i) /\ Answers(y, i, e) /\ Past(y, i)
  BY <1>1, <1>5, Continued
<1>7. IsExpression(x, i, e) /\ IsExpression(y, i, e)
  BY <1>4, <1>6 DEF IsExpression
<1>8. QED
  BY <1>1, <1>2, <1>3, <1>7

LEMMA ExpressionAfterToken ==
  ASSUME Readable, NEW p, NEW i \in Positions, Ready(p, i), NEW e, NEW r, Answers(r, i, e),
         r.err = "none", Tok(r.at) # "eof"
  PROVE  /\ IsExpression(p[<<"assignment", r.at + 1, "none">>], i, e)
         /\ IsExpression(p[<<"block_or_expr", r.at + 1, "none">>], i, e)
<1>1. PICK j \in Positions : j = r.at + 1 /\ j > i /\ j \in After(r)
  BY NextToken
<1>2. PICK x : x = p[<<"assignment", j, "none">>]
  OBVIOUS
<1>3. PICK y : y = p[<<"block_or_expr", j, "none">>]
  OBVIOUS
<1>4. IsExpression(x, j, "none") /\ IsExpression(y, j, "none")
  BY <1>1, <1>2, <1>3, HeldIs, Later
<1>5. Answers(x, j, "none") /\ Answers(y, j, "none")
  BY <1>4 DEF IsExpression
<1>6. Answers(x, i, e) /\ Past(x, i) /\ Answers(y, i, e) /\ Past(y, i)
  BY <1>1, <1>5, Continued
<1>7. IsExpression(x, i, e) /\ IsExpression(y, i, e)
  BY <1>4, <1>6 DEF IsExpression
<1>8. QED
  BY <1>1, <1>2, <1>3, <1>7

LEMMA LetInRight ==
  ASSUME Readable, NEW p, NEW i \in Positions, NEW e \in Held, Ready(p, i)
  PROVE  IsExpression(LetIn(p, i, e), i, e)
<1>1. PICK name : name = consume_ident(i, e)
  OBVIOUS
<1>2. Answers(name, i, e) /\ (name.err = "none" => name.at = i + 1)
  BY <1>1, consume_identAnswers
<1>3. name.err = "none" => Past(name, i)
  BY <1>2 DEF Past, Positions
<1>4. PICK equals : equals = consume(name.at, "=", "none")
  OBVIOUS
<1>5. name.err = "none" => Answers(equals, i, e) /\ Past(equals, i)
  <2>1. ASSUME name.err = "none" PROVE Answers(equals, i, e) /\ Past(equals, i)
    <3>1. PICK j \in Positions : j = name.at /\ j > i /\ j \in After(name)
      BY <1>2, <1>3, <2>1, ThisToken
    <3>2. Answers(equals, j, "none")
      BY <1>4, <3>1, HeldIs, consumeAnswers
    <3>3. QED
      BY <1>2, <2>1, <3>1, <3>2, Continued
  <2>2. QED
    BY <2>1
<1>6. PICK v : v = p[<<"assignment", equals.at, "none">>]
  OBVIOUS
<1>7. PICK value : value = Consumed(v, "in")
  OBVIOUS
<1>8. PICK body : body = p[<<"assignment", value.at, "none">>]
  OBVIOUS
<1>9. PICK t : t = Let(name.tree, value.tree, body.tree)
  OBVIOUS
<1>10. PICK x : x = Then(value, Made(body, t))
  OBVIOUS
<1>11. LetIn(p, i, e) = Then(name, Then(equals, x))
  BY <1>1, <1>4, <1>6, <1>7, <1>8, <1>9, <1>10 DEF LetIn
<1>12. ASSUME name.err = "none", equals.err = "none" PROVE IsExpression(x, i, e)
  <2>1. IsExpression(v, i, e)
    BY <1>5, <1>6, <1>12, ExpressionAfter
  <2>2. Answers(v, i, e) /\ (v.err = "none" => IsTree(v.tree))
    BY <2>1 DEF IsExpression
  <2>3. /\ Answers(value, i, e)
        /\ value.err = "none" => v.err = "none" /\ value.tree = v.tree /\ Past(value, i)
    <3>1. PICK word : word = "in"
      OBVIOUS
    <3>2. word # "eof" /\ value = Consumed(v, word)
      BY <1>7, <3>1
    <3>3. QED
      BY <2>2, <3>2, ConsumedPast
  <2>4. ASSUME value.err = "none" PROVE IsExpression(Made(body, t), i, e)
    <3>1. IsExpression(body, i, e)
      BY <1>8, <2>3, <2>4, ExpressionAfter
    <3>2. Answers(body, i, e) /\ (body.err = "none" => Past(body, i) /\ IsTree(body.tree))
      BY <3>1 DEF IsExpression
    <3>3. body.err = "none" => IsTree(t)
      BY <1>9, <2>2, <2>3, <2>4, <3>2, TwoChildren
    <3>4. QED
      BY <3>2, <3>3, MadeExpression
  <2>5. QED
    BY <1>10, <2>3, <2>4, ThenPast DEF IsExpression
<1>13. ASSUME name.err = "none" PROVE IsExpression(Then(equals, x), i, e)
  BY <1>5, <1>12, <1>13, ThenPast DEF IsExpression
<1>14. QED
  BY <1>2, <1>11, <1>13, ThenPast DEF IsExpression

LEMMA FunctionRight ==
  ASSUME Readable, NEW p, NEW i \in Positions, NEW e \in Held, Ready(p, i)
  PROVE  IsExpression(Function(p, i, e), i, e)
<1>1. PICK sig : sig = Signature(p, i, e)
  OBVIOUS
<1>2. Answers(sig, i, e) /\ (sig.err = "none" => Past(sig, i))
  BY <1>1, SignatureRight DEF Moves
<1>3. PICK body : body = p[<<"block_or_expr", sig.at, "none">>]
  OBVIOUS
<1>4. PICK t : t = Lambda(sig.tree, body.tree)
  OBVIOUS
<1>5. Function(p, i, e) = Then(sig, Made(body, t))
  BY <1>1, <1>3, <1>4 DEF Function
<1>6. ASSUME sig.err = "none" PROVE IsExpression(Made(body, t), i, e)
  <2>1. IsExpression(body, i, e)
    BY <1>2, <1>3, <1>6, ExpressionAfter
  <2>2. Answers(body, i, e) /\ (body.err = "none" => Past(body, i) /\ IsTree(body.tree))
    BY <2>1 DEF IsExpression
  <2>3. body.err = "none" => IsTree(t)
    BY <1>4, <2>2, OneChild
  <2>4. QED
    BY <2>2, <2>3, MadeExpression
<1>7. QED
  BY <1>2, <1>5, <1>6, ThenPast DEF IsExpression

LEMMA ConditionalRight ==
  ASSUME Readable, NEW p, NEW i \in Positions, NEW e \in Held, Ready(p, i),
         IsExpression(p[<<"assignment", i, e>>], i, e)
  PROVE  IsExpression(Conditional(p, i, e), i, e)
<1>1. PICK cond : cond = p[<<"assignment", i, e>>]
  OBVIOUS
<1>2. Answers(cond, i, e) /\ (cond.err = "none" => Past(cond, i) /\ IsTree(cond.tree))
  BY <1>1 DEF IsExpression
<1>3. PICK first : first = p[<<"assignment", cond.at + 1, "none">>]
  OBVIOUS
<1>4. PICK then : then = Consumed(first, "else")
  OBVIOUS
<1>5. PICK else : else = p[<<"assignment", then.at, "none">>]
  OBVIOUS
<1>6. PICK branch : branch = p[<<"block_or_expr", cond.at, "none">>]
  OBVIOUS
<1>7. PICK other : other = IF Tok(branch.at) = "else" THEN p[<<"block_or_expr", branch.at + 1, "none">>]
                           ELSE Got(branch.at, Nil, "none")
  OBVIOUS
<1>8. PICK t : t = If(cond.tree, then.tree, else.tree)
  OBVIOUS
<1>9. PICK b : b = If(cond.tree, branch.tree, other.tree)
  OBVIOUS
<1>10. PICK x : x = IF Tok(cond.at) = "then" THEN Then(then, Made(else, t)) ELSE Then(branch, Made(other, b))
  OBVIOUS
<1>11. Conditional(p, i, e) = Then(cond, x)
  BY <1>1, <1>3, <1>4, <1>5, <1>6, <1>7, <1>8, <1>9, <1>10 DEF Conditional
<1>12. ASSUME cond.err = "none", Tok(cond.at) = "then" PROVE IsExpression(x, i, e)
  <2>1. IsExpression(first, i, e)
    BY <1>2, <1>3, <1>12, ExpressionAfterToken
  <2>2. Answers(first, i, e) /\ (first.err = "none" => IsTree(first.tree))
    BY <2>1 DEF IsExpression
  <2>3. /\ Answers(then, i, e)
        /\ then.err = "none" => first.err = "none" /\ then.tree = first.tree /\ Past(then, i)
    <3>1. PICK word : word = "else"
      OBVIOUS
    <3>2. word # "eof" /\ then = Consumed(first, word)
      BY <1>4, <3>1
    <3>3. QED
      BY <2>2, <3>2, ConsumedPast
  <2>4. ASSUME then.err = "none" PROVE IsExpression(Made(else, t), i, e)
    <3>1. IsExpression(else, i, e)
      BY <1>5, <2>3, <2>4, ExpressionAfter
    <3>2. Answers(else, i, e) /\ (else.err = "none" => Past(else, i) /\ IsTree(else.tree))
      BY <3>1 DEF IsExpression
    <3>3. else.err = "none" => IsTree(t)
      BY <1>2, <1>8, <1>12, <2>2, <2>3, <2>4, <3>2, ThreeChildren
    <3>4. QED
      BY <3>2, <3>3, MadeExpression
  <2>5. x = Then(then, Made(else, t))
    BY <1>10, <1>12
  <2>6. QED
    BY <2>3, <2>4, <2>5, ThenPast DEF IsExpression
<1>13. ASSUME cond.err = "none", Tok(cond.at) # "then" PROVE IsExpression(x, i, e)
  <2>1. IsExpression(branch, i, e)
    BY <1>2, <1>6, <1>13, ExpressionAfter
  <2>2. Answers(branch, i, e) /\ (branch.err = "none" => Past(branch, i) /\ IsTree(branch.tree))
    BY <2>1 DEF IsExpression
  <2>3. ASSUME branch.err = "none" PROVE IsExpression(Made(other, b), i, e)
    <3>1. IsExpression(other, i, e)
      <4>1. CASE Tok(branch.at) = "else"
        <5>1. other = p[<<"block_or_expr", branch.at + 1, "none">>]
          BY <1>7, <4>1
        <5>2. QED
          BY <2>2, <2>3, <4>1, <5>1, ExpressionAfterToken
      <4>2. CASE Tok(branch.at) # "else"
        <5>1. PICK j \in Positions : j = branch.at /\ j > i /\ j \in After(branch)
          BY <2>2, <2>3, ThisToken
        <5>2. j \in j..(Len(source) + 1)
          BY <5>1, Here
        <5>3. other = Got(j, Nil, "none")
          BY <1>7, <4>2, <5>1
        <5>4. Answers(other, j, "none") /\ other.tree = Nil
          BY <5>2, <5>3, GotFine
        <5>5. Answers(other, i, e) /\ Past(other, i)
          BY <2>2, <2>3, <5>1, <5>4, Continued
        <5>6. QED
          BY <5>4, <5>5, Leaf DEF IsExpression
      <4>3. QED
        BY <4>1, <4>2
    <3>2. Answers(other, i, e) /\ (other.err = "none" => Past(other, i) /\ IsTree(other.tree))
      BY <3>1 DEF IsExpression
    <3>3. other.err = "none" => IsTree(b)
      BY <1>2, <1>9, <1>13, <2>2, <2>3, <3>2, ThreeChildren
    <3>4. QED
      BY <3>2, <3>3, MadeExpression
  <2>4. x = Then(branch, Made(other, b))
    BY <1>10, <1>13
  <2>5. QED
    BY <2>2, <2>3, <2>4, ThenPast DEF IsExpression
<1>14. cond.err = "none" => IsExpression(x, i, e)
  BY <1>12, <1>13
<1>15. QED
  BY <1>2, <1>11, <1>14, ThenPast DEF IsExpression

(* An answer at the next token is one here.                                *)
LEMMA OneOn ==
  ASSUME Readable, NEW i \in Positions, NEW j \in Positions, j = i + 1, NEW e, NEW r
  PROVE  /\ IsExpression(r, j, e) => IsExpression(r, i, e)
         /\ IsList(r, j, e) => IsList(r, i, e)
         /\ IsFields(r, j, e) => IsFields(r, i, e)
<1>1. j >= i /\ j > i
  BY DEF Positions
<1>2. Answers(r, j, e) => Answers(r, i, e) /\ Past(r, i)
  BY <1>1, Deeper
<1>3. QED
  BY <1>2 DEF IsExpression, IsList, IsFields

LEMMA parse_primaryRight ==
  ASSUME Readable, NEW p, NEW i \in Positions, NEW e \in Held, Ready(p, i)
  PROVE  IsExpression(parse_primary(p, i, e), i, e)
<1>1. PICK r : r = parse_primary(p, i, e)
  OBVIOUS
<1>2. CASE Tok(i) = "eof"
  <2>1. Tok(i) \notin Huge /\ Tok(i) \notin Numbers /\ Tok(i) \notin Words
    BY <1>2, NotEof
  <2>2. r = Failed(i)
    BY <1>1, <1>2, <2>1 DEF parse_primary
  <2>3. i \in i..(Len(source) + 1)
    BY Here
  <2>4. Answers(r, i, e) /\ r.err = "error"
    BY <2>2, <2>3, FailedAnswers
  <2>5. QED
    BY <1>1, <2>4 DEF IsExpression
<1>3. CASE Tok(i) # "eof"
  <2>1. PICK j \in Positions : j = i + 1 /\ j > i /\ j >= i /\ j \in i..(Len(source) + 1)
    BY <1>3, NextPosition
  <2>2. Ready(p, j)
    BY <2>1, ReadyLater
  <2>3. PICK letIn : letIn = LetIn(p, i + 1, e)
    OBVIOUS
  <2>4. PICK conditional : conditional = Conditional(p, i + 1, e)
    OBVIOUS
  <2>5. PICK function : function = Function(p, i + 1, e)
    OBVIOUS
  <2>6. PICK paren : paren = Enclosed(p, i + 1, ")", e)
    OBVIOUS
  <2>7. PICK bracket : bracket = Enclosed(p, i + 1, "]", e)
    OBVIOUS
  <2>8. PICK brace : brace = IF Tok(i + 1) = "}" THEN Got(i + 2, << >>, e)
                             ELSE Consumed(p[<<"fields", i + 1, e>>], "}")
    OBVIOUS
  <2>9. PICK number : number = Literal(Value[Tok(i)])
    OBVIOUS
  <2>10. PICK bool : bool = Bool(Tok(i) = "true")
    OBVIOUS
  <2>11. PICK name : name = Ident(Tok(i))
    OBVIOUS
  <2>12. PICK whole : whole = Whole(paren.tree)
    OBVIOUS
  <2>13. PICK list : list = List(bracket.tree)
    OBVIOUS
  <2>14. PICK record : record = Record(brace.tree)
    OBVIOUS
  <2>15. r \in {Thrown(i + 1), Got(i + 1, number, e), Got(i + 1, bool, e), letIn, conditional, function,
                Made(paren, whole), Made(bracket, list), Made(brace, record), Got(i + 1, name, e), Failed(i)}
    BY <1>1, <2>3, <2>4, <2>5, <2>6, <2>7, <2>8, <2>9, <2>10, <2>11, <2>12, <2>13, <2>14 DEF parse_primary
  <2>16. ASSUME NEW t, IsTree(t), r = Got(j, t, e) PROVE IsExpression(r, i, e)
    <3>1. PICK k \in i..(Len(source) + 1) : k = j /\ k > i
      BY <2>1
    <3>2. r = Got(k, t, e)
      BY <2>16, <3>1
    <3>3. Answers(r, i, e) /\ r.at = k /\ r.tree = t
      BY <3>2, GotAnswers
    <3>4. QED
      BY <2>16, <3>1, <3>3 DEF IsExpression, Past
  <2>17. r \in {Got(i + 1, number, e), Got(i + 1, bool, e), Got(i + 1, name, e)} => IsExpression(r, i, e)
    BY <2>1, <2>9, <2>10, <2>11, <2>16, Leaf
  <2>18. r = Thrown(i + 1) => IsExpression(r, i, e)
    <3>1. r = Thrown(j) => Answers(r, i, e) /\ r.err = "thrown"
      BY <2>1, FailedAnswers
    <3>2. QED
      BY <2>1, <3>1 DEF IsExpression
  <2>19. r = Failed(i) => IsExpression(r, i, e)
    <3>1. i \in i..(Len(source) + 1)
      BY Here
    <3>2. r = Failed(i) => Answers(r, i, e) /\ r.err = "error"
      BY <3>1, FailedAnswers
    <3>3. QED
      BY <3>2 DEF IsExpression
  <2>20. IsExpression(letIn, j, e) /\ IsExpression(function, j, e)
    BY <2>1, <2>2, <2>3, <2>5, LetInRight, FunctionRight
  <2>21. IsExpression(conditional, j, e)
    <3>1. IsExpression(p[<<"assignment", j, e>>], j, e)
      BY <2>1, Later
    <3>2. QED
      BY <2>1, <2>2, <2>4, <3>1, ConditionalRight
  <2>22. r \in {letIn, conditional, function} => IsExpression(r, i, e)
    BY <2>1, <2>20, <2>21, OneOn
  <2>23. IsList(paren, j, e) /\ IsList(bracket, j, e)
    <3>1. IsList(p[<<"items", j, e>>], j, e)
      BY <2>1, Later
    <3>2. ")" # "eof" /\ "]" # "eof"
      OBVIOUS
    <3>3. IsList(Enclosed(p, j, ")", e), j, e) /\ IsList(Enclosed(p, j, "]", e), j, e)
      BY <3>1, <3>2, EnclosedRight
    <3>4. QED
      BY <2>1, <2>6, <2>7, <3>3
  <2>24. IsList(paren, i, e) /\ IsList(bracket, i, e)
    BY <2>1, <2>23, OneOn
  <2>25. r = Made(paren, whole) => IsExpression(r, i, e)
    <3>1. Answers(paren, i, e) /\ (paren.err = "none" => Past(paren, i) /\ IsTree(whole))
      BY <2>12, <2>24, BodyNode DEF IsList
    <3>2. QED
      BY <3>1, MadeExpression
  <2>26. r = Made(bracket, list) => IsExpression(r, i, e)
    <3>1. Answers(bracket, i, e) /\ (bracket.err = "none" => Past(bracket, i) /\ IsTree(list))
      BY <2>13, <2>24, ListNodes DEF IsList
    <3>2. QED
      BY <3>1, MadeExpression
  <2>27. IsFields(brace, j, e)
    <3>1. CASE Tok(j) = "}"
      <4>1. PICK k \in j..(Len(source) + 1) : k = j + 1 /\ k > j
        BY <3>1, NextPosition
      <4>2. PICK t : t = << >>
        OBVIOUS
      <4>3. i + 2 = k
        BY <2>1, <4>1 DEF Positions
      <4>4. brace = Got(k, t, e)
        BY <2>1, <2>8, <3>1, <4>2, <4>3
      <4>5. Answers(brace, j, e) /\ brace.at = k /\ brace.tree = t
        BY <4>4, GotAnswers
      <4>6. QED
        BY <4>1, <4>2, <4>5, RecordNode DEF IsFields, Past
    <3>2. CASE Tok(j) # "}"
      <4>1. PICK fs : fs = p[<<"fields", j, e>>]
        OBVIOUS
      <4>2. IsFields(fs, j, e)
        BY <2>1, <4>1, Later
      <4>3. Answers(fs, j, e)
        BY <4>2 DEF IsFields
      <4>4. PICK close : close = "}"
        OBVIOUS
      <4>5. close # "eof"
        BY <4>4
      <4>6. PICK c : c = Consumed(fs, close)
        OBVIOUS
      <4>7. Answers(c, j, e) /\ (c.err = "none" => fs.err = "none" /\ c.tree = fs.tree /\ Past(c, j))
        BY <4>3, <4>5, <4>6, ConsumedPast
      <4>8. brace = c
        BY <2>1, <2>8, <3>2, <4>1, <4>4, <4>6
      <4>9. QED
        BY <4>2, <4>7, <4>8 DEF IsFields
    <3>3. QED
      BY <3>1, <3>2
  <2>28. r = Made(brace, record) => IsExpression(r, i, e)
    <3>1. IsFields(brace, i, e)
      BY <2>1, <2>27, OneOn
    <3>2. Answers(brace, i, e) /\ (brace.err = "none" => Past(brace, i) /\ IsTree(record))
      BY <2>14, <3>1, RecordNode DEF IsFields
    <3>3. QED
      BY <3>2, MadeExpression
  <2>29. QED
    BY <1>1, <2>15, <2>17, <2>18, <2>19, <2>22, <2>25, <2>26, <2>28
<1>4. QED
  BY <1>2, <1>3

(* The functions with a loop, and those that answer one expression.        *)
Loops == {"pipeline", "logical_or", "logical_and", "equality", "comparison", "term", "factor", "call"}
Others == Kinds \ {"items", "sequence", "fields", "statements", "parameters"}

LEMMA Operands ==
  ASSUME NEW kind \in Loops
  PROVE  Tighter[kind] \in Others /\ "eof" \notin Ladder[kind]
<1>1. Tighter[kind] \in Others
  BY DEF Loops, Others, Kinds, Tighter
<1>2. "eof" \notin Ladder[kind]
  BY DEF Loops, Ladder, LadderOf, Sums, Comparisons
<1>3. QED
  BY <1>1, <1>2

LEMMA RightExpression ==
  ASSUME NEW kind \in Others, NEW i, NEW e, NEW r
  PROVE  Right(kind, i, e, r) <=> IsExpression(r, i, e)
BY DEF Right, Others

LEMMA OnwardRight ==
  ASSUME Readable, NEW p, NEW i \in Positions, NEW e \in Held, Ready(p, i), NEW kind \in Loops,
         NEW l, IsExpression(l, i, e), l.err \in Held, Tok(l.at) # "eof"
  PROVE  IsExpression(Onward(p, kind, l), i, e)
<1>1. Answers(l, i, e) /\ (l.err = "none" => e = "none" /\ IsTree(l.tree))
  BY DEF IsExpression, Answers
<1>2. PICK j \in Positions : j = l.at + 1 /\ j > i /\ j \in After(l)
  BY <1>1, NextToken
<1>3. j >= i
  BY <1>2 DEF Positions
<1>4. PICK h \in Held : h = l.err
  OBVIOUS
<1>5. ASSUME NEW r, Answers(r, j, h) PROVE Answers(r, i, e) /\ Past(r, i) /\ (r.err = "none" => h = "none")
  <2>1. Answers(r, i, h) /\ Past(r, i)
    BY <1>2, <1>3, <1>5, Deeper
  <2>2. QED
    BY <1>1, <1>4, <1>5, <2>1 DEF Answers
<1>6. PICK operand : operand = p[<<Tighter[kind], j, h>>]
  OBVIOUS
<1>7. PICK args : args = Enclosed(p, j, ")", h)
  OBVIOUS
<1>8. PICK b : b = Binary(Tok(l.at), l.tree, operand.tree)
  OBVIOUS
<1>9. PICK c : c = Call(l.tree, args.tree)
  OBVIOUS
<1>10. Onward(p, kind, l) \in {Made(operand, b), Made(args, c)}
  BY <1>2, <1>4, <1>6, <1>7, <1>8, <1>9 DEF Onward
<1>11. IsExpression(Made(operand, b), i, e)
  <2>1. Right(Tighter[kind], j, h, operand)
    BY <1>2, <1>6, Operands DEF Ready, Others
  <2>2. IsExpression(operand, j, h)
    BY <2>1, Operands, RightExpression
  <2>3. Answers(operand, j, h) /\ (operand.err = "none" => IsTree(operand.tree))
    BY <2>2 DEF IsExpression
  <2>4. Answers(operand, i, e) /\ Past(operand, i) /\ (operand.err = "none" => h = "none")
    BY <1>5, <2>3
  <2>5. operand.err = "none" => IsTree(b)
    BY <1>1, <1>4, <1>8, <2>3, <2>4, TwoChildren
  <2>6. QED
    BY <2>4, <2>5, MadeExpression
<1>12. IsExpression(Made(args, c), i, e)
  <2>1. IsList(p[<<"items", j, h>>], j, h)
    BY <1>2, Later
  <2>2. IsList(args, j, h)
    <3>1. PICK close : close = ")"
      OBVIOUS
    <3>2. close # "eof"
      BY <3>1
    <3>3. args = Enclosed(p, j, close, h)
      BY <1>7, <3>1
    <3>4. QED
      BY <2>1, <3>2, <3>3, EnclosedRight
  <2>3. Answers(args, j, h) /\ (args.err = "none" => AreTrees(args.tree))
    BY <2>2 DEF IsList
  <2>4. Answers(args, i, e) /\ Past(args, i) /\ (args.err = "none" => h = "none")
    BY <1>5, <2>3
  <2>5. args.err = "none" => IsTree(c)
    BY <1>1, <1>4, <1>9, <2>3, <2>4, ListNodes
  <2>6. QED
    BY <2>4, <2>5, MadeExpression
<1>13. QED
  BY <1>10, <1>11, <1>12

(* The rounds of such a loop, one by one: there are such rounds, whatever  *)
(* the first n of them make.                                               *)
RoundsOf(p, kind, first, round, n) ==
  round = [k \in 0..n |-> IF k = 0 THEN first
                          ELSE LET l == round[k - 1] IN IF GoesOn(kind, k, l) THEN Onward(p, kind, l) ELSE l]

LEMMA Rounds ==
  ASSUME NEW p, NEW kind, NEW first, NEW n \in Nat
  PROVE  \E round : RoundsOf(p, kind, first, round, n)
<1> DEFINE Step(k, l) == IF GoesOn(kind, k, l) THEN Onward(p, kind, l) ELSE l
           Is(g, m) == g = [k \in 0..m |-> IF k = 0 THEN first ELSE Step(k, g[k - 1])]
           P == {m \in 0..n : \E g : Is(g, m)}
<1>1. 0 \in P
  <2> HIDE DEF Step
  <2> DEFINE g == [k \in 0..0 |-> first]
  <2>1. g = [k \in 0..0 |-> IF k = 0 THEN first ELSE Step(k, g[k - 1])]
    OBVIOUS
  <2>2. Is(g, 0)
    BY <2>1
  <2> HIDE DEF g, Is
  <2>3. QED
    BY <2>2
<1>2. ASSUME NEW m \in 0..(n - 1), m \in P PROVE m + 1 \in P
  <2> HIDE DEF Step
  <2>1. PICK g : Is(g, m)
    BY <1>2
  <2> DEFINE h == [k \in 0..(m + 1) |-> IF k = m + 1 THEN Step(m + 1, g[m]) ELSE g[k]]
  <2>2. \A k \in 0..(m + 1) : h[k] = IF k = 0 THEN first ELSE Step(k, h[k - 1])
    <3> TAKE k \in 0..(m + 1)
    <3>1. CASE k = m + 1
      <4>1. k # 0 /\ k - 1 = m /\ m \in 0..(m + 1) /\ m # m + 1
        BY <3>1
      <4>2. h[m] = g[m] /\ h[k] = Step(m + 1, g[m])
        BY <3>1, <4>1
      <4> HIDE DEF h
      <4>3. QED
        BY <3>1, <4>1, <4>2
    <3>2. CASE k # m + 1
      <4>1. k \in 0..m /\ (k # 0 => k - 1 \in 0..m /\ k - 1 \in 0..(m + 1) /\ k - 1 # m + 1)
        BY <3>2
      <4>2. h[k] = g[k] /\ (k # 0 => h[k - 1] = g[k - 1])
        BY <3>2, <4>1
      <4>3. g[k] = IF k = 0 THEN first ELSE Step(k, g[k - 1])
        BY <2>1, <4>1
      <4> HIDE DEF h, Is
      <4>4. QED
        BY <4>2, <4>3
    <3>3. QED
      BY <3>1, <3>2
  <2>3. Is(h, m + 1)
    <3>1. h = [k \in 0..(m + 1) |-> h[k]]
      OBVIOUS
    <3> HIDE DEF h
    <3>2. QED
      BY <2>2, <3>1
  <2>4. m + 1 \in 0..n
    OBVIOUS
  <2> HIDE DEF h, Is
  <2>5. QED
    BY <2>3, <2>4
<1>3. n \in P
  <2>1. 0..n \subseteq P
    <3> HIDE DEF P
    <3>1. QED
      BY <1>1, <1>2, Counting
  <2>2. QED
    BY <2>1
<1>4. PICK g : Is(g, n)
  BY <1>3
<1>5. RoundsOf(p, kind, first, g, n)
  BY <1>4 DEF RoundsOf
<1>6. QED
  BY <1>5

LEMMA LevelRight ==
  ASSUME Readable, NEW p, NEW i \in Positions, NEW e \in Held, Ready(p, i), NEW kind \in Loops,
         IsExpression(p[<<Tighter[kind], i, e>>], i, e)
  PROVE  IsExpression(Level(p, kind, i, e), i, e)
<1> DEFINE n == (Len(source) + 1 - i) \div 2
<1>1. n \in Nat
  BY DEF Positions, Readable
<1> DEFINE first == p[<<Tighter[kind], i, e>>]
<1>2. IsExpression(first, i, e)
  OBVIOUS
<1> DEFINE round == CHOOSE f : RoundsOf(p, kind, first, f, n)
<1>3. RoundsOf(p, kind, first, round, n)
  <2> HIDE DEF first, n
  <2>1. \E f : RoundsOf(p, kind, first, f, n)
    BY <1>1, Rounds
  <2>2. QED
    BY <2>1
<1>4. Level(p, kind, i, e) = IF GoesOn(kind, 1, first) THEN round[n] ELSE first
  BY DEF Level, RoundsOf
<1> HIDE DEF round, n, first
<1> DEFINE P == {k \in 0..n : IsExpression(round[k], i, e)}
<1>5. 0 \in P
  <2>1. 0 \in 0..n
    BY <1>1
  <2>2. round[0] = first
    BY <1>3, <2>1 DEF RoundsOf
  <2>3. QED
    BY <1>2, <2>1, <2>2
<1>6. ASSUME NEW m \in 0..(n - 1), m \in P PROVE m + 1 \in P
  <2>1. m + 1 \in 0..n /\ m + 1 # 0 /\ (m + 1) - 1 = m
    BY <1>1
  <2>2. PICK l : l = round[m]
    OBVIOUS
  <2>3. PICK k \in 0..n : k = m + 1 /\ k # 0 /\ k - 1 = m
    BY <2>1
  <2>4. round[k] = IF GoesOn(kind, k, l) THEN Onward(p, kind, l) ELSE l
    BY <1>3, <2>2, <2>3 DEF RoundsOf
  <2>5. IsExpression(l, i, e)
    BY <1>6, <2>2
  <2>6. GoesOn(kind, k, l) => l.err \in Held /\ Tok(l.at) # "eof"
    BY Operands DEF GoesOn, Held
  <2>7. GoesOn(kind, k, l) => IsExpression(Onward(p, kind, l), i, e)
    BY <2>5, <2>6, OnwardRight
  <2>8. IsExpression(round[k], i, e)
    BY <2>4, <2>5, <2>7
  <2>9. QED
    BY <2>3, <2>8
<1>7. IsExpression(round[n], i, e)
  <2>1. 0..n \subseteq P
    <3> HIDE DEF P
    <3>1. QED
      BY <1>1, <1>5, <1>6, Counting
  <2>2. QED
    BY <1>1, <2>1
<1>8. QED
  BY <1>2, <1>4, <1>7

LEMMA parse_unaryRight ==
  ASSUME Readable, NEW p, NEW i \in Positions, NEW e \in Held, Ready(p, i),
         IsExpression(p[<<"call", i, e>>], i, e)
  PROVE  IsExpression(parse_unary(p, i, e), i, e)
<1>1. CASE Tok(i) \in {"-", "!", "&"}
  <2>1. PICK j \in Positions : j = i + 1 /\ j > i /\ j >= i
    BY <1>1, NextPosition
  <2>2. PICK rhs : rhs = p[<<"unary", j, e>>]
    OBVIOUS
  <2>3. IsExpression(rhs, j, e)
    BY <2>1, <2>2, Later
  <2>4. IsExpression(rhs, i, e)
    BY <2>1, <2>3, OneOn
  <2>5. Answers(rhs, i, e) /\ (rhs.err = "none" => Past(rhs, i) /\ IsTree(rhs.tree))
    BY <2>4 DEF IsExpression
  <2>6. PICK t : t = Unary(Tok(i), rhs.tree)
    OBVIOUS
  <2>7. parse_unary(p, i, e) = Made(rhs, t)
    BY <1>1, <2>1, <2>2, <2>6 DEF parse_unary
  <2>8. rhs.err = "none" => IsTree(t)
    BY <2>5, <2>6, OneChild
  <2>9. QED
    BY <2>5, <2>7, <2>8, MadeExpression
<1>2. CASE Tok(i) \notin {"-", "!", "&"}
  <2>1. parse_unary(p, i, e) = p[<<"call", i, e>>]
    BY <1>2 DEF parse_unary
  <2>2. QED
    BY <2>1
<1>3. QED
  BY <1>1, <1>2

LEMMA parse_assignmentRight ==
  ASSUME Readable, NEW p, NEW i \in Positions, NEW e \in Held, Ready(p, i),
         IsExpression(p[<<"pipeline", i, e>>], i, e)
  PROVE  IsExpression(parse_assignment(p, i, e), i, e)
<1>1. PICK lhs : lhs = p[<<"pipeline", i, e>>]
  OBVIOUS
<1>2. Answers(lhs, i, e) /\ (lhs.err = "none" => IsTree(lhs.tree))
  BY <1>1 DEF IsExpression
<1>3. CASE lhs.err = "none" /\ Tok(lhs.at) = "="
  <2>1. PICK rhs : rhs = p[<<"assignment", lhs.at + 1, "none">>]
    OBVIOUS
  <2>2. IsExpression(rhs, i, e)
    <3>1. lhs.err = "none" /\ Tok(lhs.at) # "eof"
      BY <1>3
    <3>2. QED
      BY <1>2, <2>1, <3>1, ExpressionAfterToken
  <2>3. Answers(rhs, i, e) /\ (rhs.err = "none" => Past(rhs, i) /\ IsTree(rhs.tree))
    BY <2>2 DEF IsExpression
  <2>4. PICK t : t = Binary("=", lhs.tree, rhs.tree)
    OBVIOUS
  <2>5. parse_assignment(p, i, e) = Made(rhs, t)
    BY <1>1, <1>3, <2>1, <2>4 DEF parse_assignment
  <2>6. rhs.err = "none" => IsTree(t)
    BY <1>2, <1>3, <2>3, <2>4, TwoChildren
  <2>7. QED
    BY <2>3, <2>5, <2>6, MadeExpression
<1>4. CASE ~ (lhs.err = "none" /\ Tok(lhs.at) = "=")
  <2>1. parse_assignment(p, i, e) = lhs
    BY <1>1, <1>4 DEF parse_assignment
  <2>2. QED
    BY <1>1, <2>1
<1>5. QED
  BY <1>3, <1>4

-----------------------------------------------------------------------------
(* The weight of a call: the tokens from its position on, and among calls  *)
(* at one position the rank of the function.  Every call a function makes  *)
(* is lighter than its own, so p need only be right about lighter calls.   *)
Rank == [primary |-> 0, parameters |-> 0, fields |-> 0, call |-> 1, unary |-> 2, factor |-> 3, term |-> 4,
         comparison |-> 5, equality |-> 6, logical_and |-> 7, logical_or |-> 8, pipeline |-> 9,
         assignment |-> 10, items |-> 11, statements |-> 11, sequence |-> 11, block_or_expr |-> 12]
Weight(kind, i) == (Len(source) + 1 - i) * 13 + Rank[kind]
RightBelow(p, n) ==
  \A kind \in Kinds, i \in Positions, e \in Held :
    Weight(kind, i) < n => Right(kind, i, e, p[<<kind, i, e>>])

LEMMA Ranks == \A kind \in Kinds : Rank[kind] \in 0..12
BY DEF Kinds, Rank

LEMMA Weights ==
  ASSUME Readable, NEW kind \in Kinds, NEW i \in Positions
  PROVE  /\ Weight(kind, i) \in Nat
         /\ \A k \in Kinds, j \in Positions : j > i => Weight(k, j) < Weight(kind, i)
         /\ \A k \in Kinds : Rank[k] < Rank[kind] => Weight(k, i) < Weight(kind, i)
<1>1. PICK n \in Nat : n = Len(source) + 1
  BY DEF Readable
<1>2. i \in 1..n
  BY <1>1 DEF Positions
<1>3. PICK a \in 0..12 : a = Rank[kind]
  BY Ranks
<1>4. Weight(kind, i) = (n - i) * 13 + a
  BY <1>1, <1>2, <1>3 DEF Weight, Readable
<1>5. Weight(kind, i) \in Nat
  BY <1>2, <1>4
<1>6. ASSUME NEW k \in Kinds, NEW j \in Positions, j > i PROVE Weight(k, j) < Weight(kind, i)
  <2>1. PICK b \in 0..12 : b = Rank[k]
    BY Ranks
  <2>2. j \in 1..n
    BY <1>1 DEF Positions
  <2>3. Weight(k, j) = (n - j) * 13 + b
    BY <1>1, <2>1, <2>2 DEF Weight, Readable
  <2>4. (n - j) * 13 + b < (n - i) * 13 + a
    BY <1>2, <1>6, <2>2
  <2>5. QED
    BY <1>4, <2>3, <2>4
<1>7. ASSUME NEW k \in Kinds, Rank[k] < Rank[kind] PROVE Weight(k, i) < Weight(kind, i)
  <2>1. PICK b \in 0..12 : b = Rank[k]
    BY Ranks
  <2>2. Weight(k, i) = (n - i) * 13 + b
    BY <1>1, <1>2, <2>1 DEF Weight, Readable
  <2>3. (n - i) * 13 + b < (n - i) * 13 + a
    BY <1>2, <1>3, <1>7, <2>1
  <2>4. QED
    BY <1>4, <2>2, <2>3
<1>8. QED
  BY <1>5, <1>6, <1>7

LEMMA CalledRight ==
  ASSUME Readable, NEW p, NEW kind \in Kinds, NEW i \in Positions, NEW e \in Held,
         RightBelow(p, Weight(kind, i))
  PROVE  Right(kind, i, e, Called(p, kind, i, e))
<1>1. Ready(p, i)
  BY Weights DEF Ready, RightBelow
<1>2. \A k \in Kinds : Rank[k] < Rank[kind] => Right(k, i, e, p[<<k, i, e>>])
  BY Weights DEF RightBelow
<1>3. \A k \in Others : Rank[k] < Rank[kind] => IsExpression(p[<<k, i, e>>], i, e)
  BY <1>2, RightExpression DEF Others
<1>4. CASE kind = "assignment"
  <2>1. "pipeline" \in Others /\ Rank["pipeline"] < Rank[kind]
    BY <1>4 DEF Others, Kinds, Rank
  <2>2. IsExpression(parse_assignment(p, i, e), i, e)
    BY <1>1, <1>3, <2>1, parse_assignmentRight
  <2>3. QED
    BY <1>4, <2>2 DEF Called, Right
<1>5. CASE kind = "unary"
  <2>1. "call" \in Others /\ Rank["call"] < Rank[kind]
    BY <1>5 DEF Others, Kinds, Rank
  <2>2. IsExpression(parse_unary(p, i, e), i, e)
    BY <1>1, <1>3, <2>1, parse_unaryRight
  <2>3. QED
    BY <1>5, <2>2 DEF Called, Right
<1>6. CASE kind = "primary"
  BY <1>1, <1>6, parse_primaryRight DEF Called, Right
<1>7. CASE kind \in {"items", "statements", "sequence"}
  <2>1. "assignment" \in Others /\ Rank["assignment"] < Rank[kind]
    BY <1>7 DEF Others, Kinds, Rank
  <2>2. IsExpression(p[<<"assignment", i, e>>], i, e)
    BY <1>3, <2>1
  <2>3. IsList(Items(p, i, e), i, e) /\ IsBlock(Statements(p, i, e), i, e) /\ IsList(Sequence(p, i, e), i, e)
    BY <1>1, <2>2, ItemsRight, StatementsRight, SequenceRight
  <2>4. QED
    BY <1>7, <2>3 DEF Called, Right
<1>8. CASE kind = "fields"
  BY <1>1, <1>8, FieldsRight DEF Called, Right
<1>9. CASE kind = "parameters"
  BY <1>1, <1>9, ParametersRight DEF Called, Right
<1>10. CASE kind = "block_or_expr"
  <2>1. "sequence" \in Kinds /\ Rank["sequence"] < Rank[kind]
    BY <1>10 DEF Kinds, Rank
  <2>2. IsList(p[<<"sequence", i, e>>], i, e)
    BY <1>2, <2>1 DEF Right
  <2>3. IsExpression(parse_block_or_expr(p, i, e), i, e)
    BY <1>1, <2>2, parse_block_or_exprRight
  <2>4. QED
    BY <1>10, <2>3 DEF Called, Right
<1>11. CASE kind \in Loops
  <2>1. Tighter[kind] \in Others /\ Rank[Tighter[kind]] < Rank[kind]
    BY <1>11 DEF Loops, Others, Kinds, Rank, Tighter
  <2>2. IsExpression(p[<<Tighter[kind], i, e>>], i, e)
    BY <1>3, <2>1
  <2>3. IsExpression(Level(p, kind, i, e), i, e)
    BY <1>1, <1>11, <2>2, LevelRight
  <2>4. Called(p, kind, i, e) = Level(p, kind, i, e)
    BY <1>11 DEF Loops, Called
  <2>5. kind \in Others
    BY <1>11 DEF Loops, Others, Kinds
  <2>6. QED
    BY <2>3, <2>4, <2>5, RightExpression
<1>12. QED
  BY <1>4, <1>5, <1>6, <1>7, <1>8, <1>9, <1>10, <1>11 DEF Kinds, Loops

(* The answers when up to n calls wait, for each n up to m.                *)
AnswersUpTo(parse, m) ==
  parse = [n \in 0..m |->
             [c \in Calls |-> IF n = 0 THEN [at |-> c[2], tree |-> Null, err |-> "deep"]
                              ELSE Called(parse[n - 1], c[1], c[2], c[3])]]

LEMMA SomeAnswers ==
  ASSUME NEW d \in Nat
  PROVE  \E parse : AnswersUpTo(parse, d)
<1> DEFINE Step(n, q) == [c \in Calls |-> IF n = 0 THEN [at |-> c[2], tree |-> Null, err |-> "deep"]
                                          ELSE Called(q, c[1], c[2], c[3])]
           Is(g, m) == g = [n \in 0..m |-> Step(n, g[n - 1])]
           P == {m \in 0..d : \E g : Is(g, m)}
<1>1. 0 \in P
  <2> HIDE DEF Step
  <2> DEFINE g == [n \in 0..0 |-> Step(0, Null)]
  <2>1. \A q : Step(0, q) = Step(0, Null)
    BY DEF Step
  <2>2. g = [n \in 0..0 |-> Step(n, g[n - 1])]
    <3>1. g[0] = Step(0, Null)
      OBVIOUS
    <3> HIDE DEF g
    <3>2. \A n \in 0..0 : n = 0 /\ g[n] = Step(n, g[n - 1])
      <4> TAKE n \in 0..0
      <4>1. n = 0
        OBVIOUS
      <4>2. Step(0, g[0 - 1]) = Step(0, Null)
        BY <2>1
      <4>3. QED
        BY <3>1, <4>1, <4>2
    <3>3. g = [n \in 0..0 |-> g[n]]
      BY DEF g
    <3>4. QED
      BY <3>2, <3>3
  <2>3. Is(g, 0)
    BY <2>2
  <2> HIDE DEF g, Is
  <2>4. QED
    BY <2>3
<1>2. ASSUME NEW m \in 0..(d - 1), m \in P PROVE m + 1 \in P
  <2> HIDE DEF Step
  <2>1. PICK g : Is(g, m)
    BY <1>2
  <2> DEFINE h == [n \in 0..(m + 1) |-> IF n = m + 1 THEN Step(m + 1, g[m]) ELSE g[n]]
  <2>2. \A n \in 0..(m + 1) : h[n] = Step(n, h[n - 1])
    <3> TAKE n \in 0..(m + 1)
    <3>1. CASE n = m + 1
      <4>1. n - 1 = m /\ m \in 0..(m + 1) /\ m # m + 1
        BY <3>1
      <4>2. h[m] = g[m] /\ h[n] = Step(m + 1, g[m])
        BY <3>1, <4>1
      <4> HIDE DEF h
      <4>3. QED
        BY <3>1, <4>1, <4>2
    <3>2. CASE n # m + 1 /\ n # 0
      <4>1. n \in 0..m /\ n - 1 \in 0..m /\ n - 1 \in 0..(m + 1) /\ n - 1 # m + 1
        BY <3>2
      <4>2. h[n] = g[n] /\ h[n - 1] = g[n - 1]
        BY <3>2, <4>1
      <4>3. g[n] = Step(n, g[n - 1])
        BY <2>1, <4>1
      <4> HIDE DEF h, Is
      <4>4. QED
        BY <4>2, <4>3
    <3>3. CASE n = 0
      <4>1. 0 \in 0..m /\ 0 # m + 1
        OBVIOUS
      <4>2. h[0] = g[0] /\ g[0] = Step(0, g[0 - 1])
        BY <2>1, <4>1
      <4>3. \A q, r : Step(0, q) = Step(0, r)
        BY DEF Step
      <4> HIDE DEF h, Is
      <4>4. QED
        BY <3>3, <4>2, <4>3
    <3>4. QED
      BY <3>1, <3>2, <3>3
  <2>3. Is(h, m + 1)
    <3>1. h = [n \in 0..(m + 1) |-> h[n]]
      OBVIOUS
    <3> HIDE DEF h
    <3>2. QED
      BY <2>2, <3>1
  <2>4. m + 1 \in 0..d
    OBVIOUS
  <2> HIDE DEF h, Is
  <2>5. QED
    BY <2>3, <2>4
<1>3. d \in P
  <2>1. 0..d \subseteq P
    <3> HIDE DEF P
    <3>1. QED
      BY <1>1, <1>2, Counting
  <2> HIDE DEF P
  <2>2. QED
    BY <2>1
<1>4. PICK g : Is(g, d)
  BY <1>3
<1>5. AnswersUpTo(g, d)
  BY <1>4 DEF AnswersUpTo
<1>6. QED
  BY <1>5

LEMMA ManyKinds == Cardinality(Kinds) \in Nat /\ Cardinality(Kinds) >= 13
<1> DEFINE kinds == <<"assignment", "pipeline", "logical_or", "logical_and", "equality", "comparison", "term",
                      "factor", "unary", "call", "primary", "items", "fields", "statements", "sequence",
                      "block_or_expr", "parameters">>
           f == [n \in 1..17 |-> kinds[n]]
           rank == [kind \in Kinds |-> Rank[kind]]
<1>1. f \in Surjection(1..17, Kinds)
  <2>1. \A n \in 1..17 : kinds[n] \in Kinds
    BY DEF Kinds
  <2>2. \A kind \in Kinds : \E n \in 1..17 : kinds[n] = kind
    <3>1. /\ kinds[1] = "assignment" /\ kinds[2] = "pipeline" /\ kinds[3] = "logical_or"
          /\ kinds[4] = "logical_and" /\ kinds[5] = "equality" /\ kinds[6] = "comparison"
          /\ kinds[7] = "term" /\ kinds[8] = "factor" /\ kinds[9] = "unary" /\ kinds[10] = "call"
          /\ kinds[11] = "primary" /\ kinds[12] = "items" /\ kinds[13] = "fields"
          /\ kinds[14] = "statements" /\ kinds[15] = "sequence" /\ kinds[16] = "block_or_expr"
          /\ kinds[17] = "parameters"
      OBVIOUS
    <3> HIDE DEF kinds
    <3>2. QED
      BY <3>1 DEF Kinds
  <2> HIDE DEF kinds
  <2>3. QED
    BY <2>1, <2>2 DEF Surjection
<1>2. IsFiniteSet(1..17)
  <2>1. PICK n \in Nat : n = 17
    OBVIOUS
  <2>2. IsFiniteSet(1..n)
    BY FS_Interval
  <2>3. QED
    BY <2>1, <2>2
<1>3. IsFiniteSet(Kinds)
  <2> HIDE DEF f
  <2>1. QED
    BY <1>1, <1>2, FS_Surjection
<1>4. rank \in Surjection(Kinds, 0..12)
  <2>1. \A n \in 0..12 : \E kind \in Kinds : Rank[kind] = n
    BY DEF Kinds, Rank
  <2>2. QED
    BY <2>1, Ranks DEF Surjection
<1>5. Cardinality(0..12) = 13
  <2>1. PICK n \in Nat : n = 12
    OBVIOUS
  <2>2. Cardinality(0..n) = n + 1
    BY FS_Interval
  <2>3. QED
    BY <2>1, <2>2
<1>6. Cardinality(0..12) <= Cardinality(Kinds)
  <2> HIDE DEF rank
  <2>1. QED
    BY <1>3, <1>4, FS_Surjection
<1>7. Cardinality(Kinds) \in Nat
  BY <1>3, FS_CardinalityType
<1>8. QED
  BY <1>5, <1>6, <1>7

(* No call is deeper than the depth the answers are computed to.           *)
LEMMA DeepEnough ==
  ASSUME Readable, NEW kind \in Kinds, NEW i \in Positions
  PROVE  Depth \in Nat /\ Weight(kind, i) < Depth
<1>1. PICK n \in Nat : n = Len(source) + 1
  BY DEF Readable
<1>2. i \in 1..n
  BY <1>1 DEF Positions
<1>3. PICK a \in 0..12 : a = Rank[kind]
  BY Ranks
<1>4. PICK c \in Nat : c = Cardinality(Kinds) /\ c >= 13
  BY ManyKinds
<1>5. Depth = c * n
  BY <1>1, <1>4 DEF Depth
<1>6. Weight(kind, i) = (n - i) * 13 + a
  BY <1>1, <1>2, <1>3 DEF Weight, Readable
<1>7. PICK b \in Nat : c = 13 + b
  <2>1. c - 13 \in Nat /\ c = 13 + (c - 13)
    BY <1>4
  <2>2. QED
    BY <2>1
<1>8. PICK x \in Nat : x = b * n
  OBVIOUS
<1>9. c * n = 13 * n + x
  BY <1>7, <1>8
<1>10. PICK w \in Nat : w = (n - i) * 13 + a
  BY <1>2
<1>11. w < 13 * n + x /\ 13 * n + x \in Nat
  BY <1>2, <1>10
<1>12. Depth = 13 * n + x
  BY <1>5, <1>9
<1>13. Weight(kind, i) = w
  BY <1>6, <1>10
<1>14. QED
  BY <1>11, <1>12, <1>13

(* Every answer of the recursive descent is right.                         *)
LEMMA ParsedRight ==
  ASSUME Readable, NEW kind \in Kinds, NEW i \in Positions, NEW e \in Held
  PROVE  Right(kind, i, e, Parsed[<<kind, i, e>>])
<1>1. Depth \in Nat
  BY DeepEnough
<1> DEFINE parse == CHOOSE g : AnswersUpTo(g, Depth)
<1>2. AnswersUpTo(parse, Depth)
  <2>1. \E g : AnswersUpTo(g, Depth)
    BY <1>1, SomeAnswers
  <2>2. QED
    BY <2>1
<1>3. Parsed = parse[Depth]
  BY DEF Parsed, AnswersUpTo
<1> HIDE DEF parse
<1> DEFINE P == {n \in 0..Depth : RightBelow(parse[n], n)}
<1>4. 0 \in P
  <2>1. RightBelow(parse[0], 0)
    BY Weights DEF RightBelow
  <2>2. QED
    BY <1>1, <2>1
<1>5. ASSUME NEW n \in 0..(Depth - 1), n \in P PROVE n + 1 \in P
  <2>1. PICK m \in 0..Depth : m = n + 1 /\ m # 0 /\ m - 1 = n
    BY <1>1
  <2>2. ASSUME NEW k \in Kinds, NEW j \in Positions, NEW h \in Held, Weight(k, j) < m
        PROVE  Right(k, j, h, parse[m][<<k, j, h>>])
    <3>1. PICK q : q = parse[n]
      OBVIOUS
    <3>2. RightBelow(q, Weight(k, j))
      <4>1. Weight(k, j) <= n
        BY <2>1, <2>2, Weights
      <4>2. \A l \in Kinds, g \in Positions : Weight(l, g) < Weight(k, j) => Weight(l, g) < n
        BY <4>1, Weights
      <4>3. RightBelow(q, n)
        BY <1>5, <3>1
      <4>4. QED
        BY <4>2, <4>3 DEF RightBelow
    <3>3. parse[m][<<k, j, h>>] = Called(q, k, j, h)
      <4>1. <<k, j, h>> \in Calls
        BY DEF Calls, Held
      <4>2. parse[m] = [c \in Calls |-> Called(q, c[1], c[2], c[3])]
        BY <1>2, <2>1, <3>1 DEF AnswersUpTo
      <4>3. QED
        BY <4>1, <4>2
    <3>4. QED
      BY <3>2, <3>3, CalledRight
  <2>3. RightBelow(parse[m], m)
    BY <2>2 DEF RightBelow
  <2>4. QED
    BY <2>1, <2>3
<1>6. RightBelow(parse[Depth], Depth)
  <2>1. 0..Depth \subseteq P
    <3> HIDE DEF P
    <3>1. QED
      BY <1>1, <1>4, <1>5, Counting
  <2>2. Depth \in P
    <3> HIDE DEF P
    <3>1. QED
      BY <1>1, <2>1
  <2>3. QED
    BY <2>2
<1>7. QED
  BY <1>3, <1>6, DeepEnough DEF RightBelow

-----------------------------------------------------------------------------
(* The forms of a program.                                                 *)
LEMMA ParsedReady ==
  ASSUME Readable, NEW i \in Positions
  PROVE  Ready(Parsed, i) /\ IsList(Parsed[<<"sequence", i, "none">>], i, "none")
<1>1. Ready(Parsed, i)
  BY ParsedRight DEF Ready
<1>2. PICK h \in Held : h = "none"
  BY HeldIs
<1>3. PICK kind \in Kinds : kind = "sequence"
  BY DEF Kinds
<1>4. Right(kind, i, h, Parsed[<<kind, i, h>>])
  BY ParsedRight
<1>5. IsList(Parsed[<<kind, i, h>>], i, h)
  BY <1>3, <1>4 DEF Right
<1>6. QED
  BY <1>1, <1>2, <1>3, <1>5

LEMMA DefinitionRight ==
  ASSUME Readable, NEW i \in Positions
  PROVE  IsExpression(Definition(i), i, "none")
<1>1. PICK name : name = consume_ident(i, "none")
  OBVIOUS
<1>2. Answers(name, i, "none") /\ (name.err = "none" => name.at = i + 1)
  BY <1>1, HeldIs, consume_identAnswers
<1>3. name.err = "none" => Past(name, i)
  BY <1>2 DEF Past, Positions
<1>4. PICK generics : generics = CASE Tok(i + 1) = "[" -> skip_balanced(i + 1, "]")
                                   [] Tok(i + 1) = "<" -> skip_balanced(i + 1, ">")
                                   [] OTHER -> Got(i + 1, Null, "none")
  OBVIOUS
<1>5. PICK function : function = Function(Parsed, generics.at, "none")
  OBVIOUS
<1>6. PICK t : t = Binary("=", Ident(name.tree), function.tree)
  OBVIOUS
<1>7. PICK x : x = Then(generics, Made(function, t))
  OBVIOUS
<1>8. Definition(i) = Then(name, x)
  BY <1>1, <1>4, <1>5, <1>6, <1>7 DEF Definition
<1>9. ASSUME name.err = "none" PROVE IsExpression(x, i, "none")
  <2>1. PICK j \in Positions : j = i + 1 /\ j > i /\ j \in After(name)
    <3>1. PICK k \in Positions : k = name.at /\ k \in After(name) /\ k > i
      BY <1>2, <1>3, <1>9, ThisToken
    <3>2. QED
      BY <1>2, <1>9, <3>1
  <2>2. Answers(generics, j, "none")
    <3>1. CASE Tok(j) \in {"[", "<"}
      <4>1. j + 1 \in Positions
        BY <3>1, Tokens
      <4>2. generics = skip_balanced(j, "]") \/ generics = skip_balanced(j, ">")
        BY <1>4, <2>1, <3>1
      <4>3. QED
        BY <4>1, <4>2, skip_balancedAnswers
    <3>2. CASE Tok(j) \notin {"[", "<"}
      <4>1. generics = Got(j, Null, "none")
        BY <1>4, <2>1, <3>2
      <4>2. j \in j..(Len(source) + 1)
        BY Here
      <4>3. QED
        BY <4>1, <4>2, GotFine
    <3>3. QED
      BY <3>1, <3>2
  <2>3. Answers(generics, i, "none") /\ Past(generics, i)
    BY <1>2, <1>9, <2>1, <2>2, Continued
  <2>4. ASSUME generics.err = "none" PROVE IsExpression(Made(function, t), i, "none")
    <3>1. PICK k \in Positions : k = generics.at /\ k \in After(generics) /\ k > i
      BY <2>3, <2>4, ThisToken
    <3>2. Ready(Parsed, k)
      BY ParsedReady
    <3>3. IsExpression(function, k, "none")
      BY <1>5, <3>1, <3>2, HeldIs, FunctionRight
    <3>4. Answers(function, k, "none") /\ (function.err = "none" => IsTree(function.tree))
      BY <3>3 DEF IsExpression
    <3>5. Answers(function, i, "none") /\ Past(function, i)
      BY <2>3, <2>4, <3>1, <3>4, Continued
    <3>6. function.err = "none" => IsTree(t)
      BY <1>6, <3>4, Leaf, TwoChildren
    <3>7. QED
      BY <3>5, <3>6, MadeExpression
  <2>5. QED
    BY <1>7, <2>3, <2>4, ThenPast DEF IsExpression
<1>10. QED
  BY <1>2, <1>8, <1>9, ThenPast DEF IsExpression

LEMMA SemicolonRight ==
  ASSUME Readable, NEW i \in Positions, NEW r, IsExpression(r, i, "none")
  PROVE  IsExpression(Semicolon(r), i, "none")
<1>1. Answers(r, i, "none") /\ (r.err = "none" => IsTree(r.tree))
  BY DEF IsExpression
<1>2. PICK x : x = IF Tok(r.at) = ";" THEN Got(r.at + 1, r.tree, "none") ELSE r
  OBVIOUS
<1>3. Semicolon(r) = Then(r, x)
  BY <1>2 DEF Semicolon
<1>4. ASSUME r.err = "none" PROVE IsExpression(x, i, "none")
  <2>1. CASE Tok(r.at) = ";"
    <3>1. PICK j \in Positions : j = r.at + 1 /\ j > i /\ j \in After(r)
      BY <1>1, <2>1, NextToken
    <3>2. PICK t : t = r.tree
      OBVIOUS
    <3>3. x = Got(j, t, "none")
      BY <1>2, <2>1, <3>1, <3>2
    <3>4. j \in j..(Len(source) + 1)
      BY Here
    <3>5. Answers(x, j, "none") /\ x.tree = t
      BY <3>3, <3>4, GotFine
    <3>6. Answers(x, i, "none") /\ Past(x, i)
      BY <1>1, <1>4, <3>1, <3>5, Continued
    <3>7. QED
      BY <1>1, <1>4, <3>2, <3>5, <3>6 DEF IsExpression
  <2>2. CASE Tok(r.at) # ";"
    BY <1>2, <2>2
  <2>3. QED
    BY <2>1, <2>2
<1>5. QED
  BY <1>1, <1>3, <1>4, ThenPast DEF IsExpression

LEMMA parse_toplevelRight ==
  ASSUME Readable, NEW i \in Positions, Tok(i) # "eof"
  PROVE  IsExpression(parse_toplevel(i), i, "none")
<1>1. PICK j \in Positions : j = i + 1 /\ j > i /\ j >= i
  BY NextPosition
<1>2. CASE Tok(i) \in {"module", "import", "type"}
  <2>1. PICK k \in j..(Len(source) + 1) : k = skip_until_toplevel(i + 1)
    BY <1>1, FirstOfIs DEF skip_until_toplevel
  <2>2. k > i /\ k \in i..(Len(source) + 1)
    BY <1>1, <2>1 DEF Positions, Readable
  <2>3. PICK t : t = Nil
    OBVIOUS
  <2>4. parse_toplevel(i) = Got(k, t, "none")
    BY <1>2, <2>1, <2>3 DEF parse_toplevel
  <2>5. /\ Answers(parse_toplevel(i), i, "none")
        /\ parse_toplevel(i).at = k /\ parse_toplevel(i).tree = t
    BY <2>2, <2>4, GotFine
  <2>6. QED
    BY <2>2, <2>3, <2>5, Leaf DEF IsExpression, Past
<1>3. CASE Tok(i) = "fn"
  <2>1. PICK r : r = Definition(j)
    OBVIOUS
  <2>2. IsExpression(r, i, "none")
    BY <1>1, <2>1, DefinitionRight, OneOn
  <2>3. parse_toplevel(i) = Semicolon(r)
    BY <1>1, <1>3, <2>1 DEF parse_toplevel
  <2>4. QED
    BY <2>2, <2>3, SemicolonRight
<1>4. CASE Tok(i) \notin {"module", "import", "type", "fn"}
  <2>1. PICK r : r = parse_sequence(Parsed, i, "none")
    OBVIOUS
  <2>2. IsExpression(r, i, "none")
    BY <2>1, ParsedReady, HeldIs, parse_sequenceRight
  <2>3. parse_toplevel(i) = Semicolon(r)
    BY <1>4, <2>1 DEF parse_toplevel
  <2>4. QED
    BY <2>2, <2>3, SemicolonRight
<1>5. QED
  BY <1>2, <1>3, <1>4

(* A tree none of whose parts is missing, level by level.                  *)
LEMMA TreeIsNullFree ==
  ASSUME Readable, NEW t, IsTree(t)
  PROVE  NullFree(t)
<1>1. PICK S : Sound(S) /\ t \in S
  BY DEF IsTree
<1> DEFINE n == Len(source) + 1
           A == SUBSET S
           Under(v) == UNION {Range(Parts(x)) : x \in v}
           F == [k \in 1..n |-> [v \in A |-> Under(v)]]
           Is(f) == f = [k \in 0..n |-> IF k = 0 THEN {t} ELSE Under(f[k - 1])]
           level == CHOOSE f : Is(f)
<1>2. n \in Nat
  BY DEF Readable
<1>3. \A v \in A : Under(v) \in A
  BY <1>1 DEF Sound
<1>4. Is(level)
  <2>1. F \in [1..n -> [A -> A]]
    BY <1>3
  <2>2. {t} \in A
    BY <1>1
  <2>3. PICK g : Follows(g, n, A, {t}, F)
    <3> HIDE DEF A, F, n
    <3>1. QED
      BY <1>2, <2>1, <2>2, Recursion
  <2>4. g \in [0..n -> A] /\ g[0] = {t} /\ \A k \in 1..n : g[k] = F[k][g[k - 1]]
    BY <2>3 DEF Follows
  <2>5. \A k \in 0..n : g[k] = IF k = 0 THEN {t} ELSE Under(g[k - 1])
    <3> HIDE DEF Under
    <3> TAKE k \in 0..n
    <3>1. CASE k = 0
      BY <2>4, <3>1
    <3>2. CASE k # 0
      <4>1. k \in 1..n /\ k - 1 \in 0..n
        BY <1>2, <3>2
      <4>2. g[k - 1] \in A
        BY <2>4, <4>1
      <4>3. F[k][g[k - 1]] = Under(g[k - 1])
        BY <4>1, <4>2
      <4>4. QED
        BY <2>4, <3>2, <4>1, <4>3
    <3>3. QED
      BY <3>1, <3>2
  <2>6. Is(g)
    <3> HIDE DEF Under, A
    <3>1. QED
      BY <2>4, <2>5
  <2>7. \E f : Is(f)
    <3> HIDE DEF Is
    <3>1. QED
      BY <2>6
  <2>8. QED
    <3> HIDE DEF Is
    <3>1. QED
      BY <2>7
<1>5. NullFree(t) <=> \A k \in DOMAIN level : Null \notin level[k]
  BY DEF NullFree
<1> HIDE DEF level
<1> DEFINE P == {k \in 0..n : level[k] \in A}
<1>6. 0 \in P
  <2>1. level[0] = {t}
    BY <1>2, <1>4
  <2>2. QED
    BY <1>1, <1>2, <2>1
<1>7. ASSUME NEW m \in 0..(n - 1), m \in P PROVE m + 1 \in P
  <2> HIDE DEF Under, n
  <2>1. m + 1 \in 0..n /\ m + 1 # 0 /\ (m + 1) - 1 = m
    BY <1>2
  <2>2. level[m + 1] = Under(level[m])
    BY <1>4, <2>1
  <2>3. Under(level[m]) \in A
    BY <1>3, <1>7
  <2>4. QED
    BY <2>1, <2>2, <2>3
<1>8. 0..n \subseteq P
  <2> HIDE DEF P, n
  <2>1. QED
    BY <1>2, <1>6, <1>7, Counting
<1>9. DOMAIN level = 0..n
  BY <1>4
<1>10. \A k \in DOMAIN level : Null \notin level[k]
  BY <1>1, <1>8, <1>9 DEF Sound
<1>11. QED
  BY <1>5, <1>10

-----------------------------------------------------------------------------
(* What holds while parser::parse runs: the cursor is in the source, and   *)
(* the forms so far are trees none of whose parts is missing.              *)
IInv == source \in Seq(STRING) /\ TypeOK /\ AreTrees(forms)

LEMMA SourceReadable ==
  ASSUME source \in Seq(STRING)
  PROVE  Readable
BY DEF Readable

LEMMA InitIInv == Init => IInv
<1> SUFFICES ASSUME Init PROVE IInv
  OBVIOUS
<1>1. source \in Seq(STRING)
  BY SourceAssumption DEF Init, SourceAssumption
<1>2. Len(source) \in Nat
  BY <1>1
<1>3. at = 1 /\ forms = << >> /\ pc = "validate"
  BY DEF Init
<1>4. Len(forms) = 0
  BY <1>3
<1>5. TypeOK
  BY <1>2, <1>3, <1>4 DEF TypeOK, Positions
<1>6. QED
  BY <1>1, <1>3, <1>5, ListBasics DEF IInv

LEMMA ParseFormStep ==
  ASSUME IInv, ParseForm
  PROVE  /\ at' \in Positions /\ AreTrees(forms') /\ Len(forms') < at'
         /\ pc' \in {"parse", "error", "thrown"}
         /\ pc' # "parse" => forms' = << >>
         /\ pc' = "parse" => at' > at
         /\ source' = source
<1>1. Readable /\ at \in Positions /\ Len(forms) < at /\ AreTrees(forms)
  BY SourceReadable DEF IInv, TypeOK
<1>2. PICK r : /\ r = parse_toplevel(at)
               /\ at' = IF r.err = "none" /\ r.tree = Null THEN Synchronized(r.at) ELSE r.at
               /\ forms' = IF r.err # "none" THEN << >>
                           ELSE IF r.tree = Null THEN forms ELSE Append(forms, r.tree)
               /\ pc' = IF r.err = "none" THEN "parse" ELSE r.err
  BY DEF ParseForm
<1>3. IsExpression(r, at, "none")
  <2>1. Tok(at) # "eof"
    BY DEF ParseForm
  <2>2. QED
    BY <1>1, <1>2, <2>1, parse_toplevelRight
<1>4. /\ Answers(r, at, "none")
      /\ r.err = "none" => Past(r, at) /\ IsTree(r.tree)
  BY <1>3 DEF IsExpression
<1>5. r.err \in {"none", "error", "thrown"}
  BY <1>4 DEF Answers
<1>6. r.at \in Positions /\ r.at \in Nat /\ at \in Nat /\ r.at >= at
  BY <1>1, <1>4, Cursor
<1>7. \A t : IsTree(t) => t # Null
  BY DEF IsTree, Sound
<1>8. at' = r.at
  BY <1>2, <1>4, <1>7
<1>9. Len(forms) \in Nat
  BY <1>1, ListBasics
<1>10. source' = source
  BY DEF ParseForm
<1>11. CASE r.err = "none"
  <2>1. forms' = Append(forms, r.tree) /\ pc' = "parse"
    BY <1>2, <1>4, <1>7, <1>11
  <2>2. AreTrees(forms')
    BY <1>1, <1>4, <1>11, <2>1, ListJoined
  <2>3. Len(forms') = Len(forms) + 1
    <3>1. PICK S : forms \in Seq(S) /\ r.tree \in S
      BY <1>1, <1>4, <1>11, TreeAndTrees
    <3>2. QED
      BY <2>1, <3>1
  <2>4. at' > at
    BY <1>4, <1>8, <1>11 DEF Past
  <2>5. Len(forms') < at'
    BY <1>1, <1>6, <1>8, <1>9, <2>3, <2>4
  <2>6. QED
    BY <1>6, <1>8, <1>10, <2>1, <2>2, <2>4, <2>5
<1>12. CASE r.err # "none"
  <2>1. forms' = << >> /\ pc' \in {"error", "thrown"}
    BY <1>2, <1>5, <1>12
  <2>2. Len(forms') = 0 /\ AreTrees(forms')
    BY <2>1, ListBasics
  <2>3. at' > 0
    BY <1>6, <1>8 DEF Positions
  <2>4. QED
    BY <1>6, <1>8, <1>10, <2>1, <2>2, <2>3
<1>13. QED
  BY <1>11, <1>12

LEMMA NextIInv == IInv /\ [Next]_vars => IInv'
<1> SUFFICES ASSUME IInv, [Next]_vars PROVE IInv'
  OBVIOUS
<1>1. source' = source
  BY DEF Next, Validate, ParseForm, EndOfSource, Return, vars
<1>2. CASE Validate
  <2>1. pc = "validate" /\ pc' \in {"parse", "refused"} /\ UNCHANGED <<source, origin, at, forms>>
    BY <1>2 DEF Validate
  <2>2. forms = << >>
    BY <2>1 DEF IInv, TypeOK
  <2>3. QED
    BY <2>1, <2>2 DEF IInv, TypeOK, Positions
<1>3. CASE ParseForm
  <2>1. /\ at' \in Positions /\ AreTrees(forms') /\ Len(forms') < at'
        /\ pc' \in {"parse", "error", "thrown"}
        /\ pc' # "parse" => forms' = << >>
    BY <1>3, ParseFormStep
  <2>2. QED
    BY <1>1, <2>1 DEF IInv, TypeOK, Positions
<1>4. CASE EndOfSource
  <2>1. pc' = "parsed" /\ UNCHANGED <<source, origin, at, forms>>
    BY <1>4 DEF EndOfSource
  <2>2. QED
    BY <2>1 DEF IInv, TypeOK, Positions
<1>5. CASE UNCHANGED vars
  BY <1>5 DEF IInv, TypeOK, Positions, vars
<1>6. QED
  BY <1>2, <1>3, <1>4, <1>5 DEF Next, Return

LEMMA AlwaysIInv == Spec => []IInv
BY InitIInv, NextIInv, PTL DEF Spec

(* Whatever the source, parser::parse never moves its cursor past the end  *)
(* of the tokens, has fewer forms than tokens read, and an error leaves it *)
(* no form; the depth the answers are computed to is deep enough.          *)
THEOREM CursorStays == Spec => []TypeOK
<1>1. IInv => TypeOK
  BY DEF IInv
<1>2. QED
  BY <1>1, AlwaysIInv, PTL

(* Whatever the source, no expression that parser::parse returns is null   *)
(* or has a part that is: every error is seen before a tree is made of     *)
(* what failed.                                                            *)
THEOREM NoErrorPassedOver == Spec => []NoNull
<1>1. IInv => NoNull
  <2> SUFFICES ASSUME IInv, NEW i \in DOMAIN forms PROVE NullFree(forms[i])
    BY DEF NoNull
  <2>1. AreTrees(forms) /\ Readable
    BY SourceReadable DEF IInv
  <2>2. PICK S : Sound(S) /\ forms \in Seq(S)
    BY <2>1 DEF AreTrees
  <2>3. forms[i] \in S
    BY <2>2
  <2>4. IsTree(forms[i])
    BY <2>2, <2>3 DEF IsTree
  <2>5. QED
    BY <2>1, <2>4, TreeIsNullFree
<1>2. QED
  BY <1>1, AlwaysIInv, PTL

(* Whatever the source, a round of parser::parse that goes on has read a   *)
(* token, so the rounds come to an end.                                    *)
THEOREM EveryRoundReads == Spec => Progress
<1>1. IInv /\ [Next]_vars => [pc = "parse" /\ pc' = "parse" => at' > at]_vars
  <2> SUFFICES ASSUME IInv, Next, pc = "parse", pc' = "parse" PROVE at' > at \/ UNCHANGED vars
    BY DEF vars
  <2>1. CASE ParseForm
    BY <2>1, ParseFormStep
  <2>2. QED
    BY <2>1 DEF Next, Validate, EndOfSource, Return, Ended
<1>2. QED
  BY <1>1, AlwaysIInv, PTL DEF Spec, Progress
=============================================================================
