--------------------------- MODULE IsaReaderProofs --------------------------
(***************************************************************************)
(* The reader of instruction set descriptions keeps its types, reads every *)
(* description once and in the order of the names, and in a file that is   *)
(* laid out as it expects takes for blocks what its braces enclose.        *)
(***************************************************************************)
EXTENDS IsaReader, SequenceLemmas

Block == [kind : Words \cup {NoWord}, name : Words \cup {NoWord}, body : Seq(Seq(Words))]
Sequential(s) == \E S : s \in Seq(S)

(* What every state has: an open block belongs to a file that is being     *)
(* read.                                                                   *)
Types ==
  /\ dir \in Directories /\ unread \subseteq DOMAIN dir
  /\ pc \in {"list", "scan", "body", "loaded", "thrown"}
  /\ pc \in {"scan", "body"} =>
       file \in DOMAIN dir /\ file \notin unread /\ dir[file].isa /\ at \in 1 .. Len(Lines) + 1
  /\ open \in Block /\ depth \in Int
  /\ pc \notin {"body", "thrown"} => open = NoBlock /\ depth = 0
  /\ pc = "body" => at > 1 /\ open.kind # NoWord /\ open.name # NoWord

(* One document for every description that has been read.                  *)
Descriptions == {f \in DOMAIN dir : dir[f].isa}
Read ==
  IF pc = "loaded" THEN Descriptions
  ELSE IF pc = "list" THEN Descriptions \ unread
  ELSE IF pc = "thrown" THEN {}
  ELSE Descriptions \ (unread \cup {file})
OneEach ==
  /\ Sequential(documents)
  /\ {documents[k].name : k \in DOMAIN documents} = Read
  /\ \A j, k \in DOMAIN documents : documents[j].name = documents[k].name => j = k

InOrder ==
  pc = "loaded" => \A j, k \in DOMAIN documents : j < k => documents[j].name < documents[k].name

-----------------------------------------------------------------------------
LEMMA SequentialAppend ==
  ASSUME NEW s, Sequential(s), NEW e
  PROVE  /\ Sequential(Append(s, e))
         /\ Len(s) \in Nat /\ DOMAIN s = 1 .. Len(s)
         /\ DOMAIN Append(s, e) = 1 .. Len(s) + 1
         /\ Append(s, e)[Len(s) + 1] = e
         /\ \A k \in 1 .. Len(s) : Append(s, e)[k] = s[k]
<1>1. PICK S : s \in Seq(S)
  BY DEF Sequential
<1> DEFINE T == S \cup {e}
<1>2. s \in Seq(T) /\ e \in T
  BY <1>1
<1> HIDE DEF T
<1>3. /\ Append(s, e) \in Seq(T) /\ Len(Append(s, e)) = Len(s) + 1
      /\ Append(s, e)[Len(s) + 1] = e
      /\ \A k \in 1 .. Len(s) : Append(s, e)[k] = s[k]
  BY <1>2, AppendProperties
<1>4. Len(s) \in Nat /\ DOMAIN s = 1 .. Len(s)
  BY <1>2, LenProperties
<1>5. DOMAIN Append(s, e) = 1 .. Len(s) + 1
  BY <1>3, LenProperties
<1>6. Sequential(Append(s, e))
  BY <1>3 DEF Sequential
<1>7. QED
  BY <1>3, <1>4, <1>5, <1>6

LEMMA SequentialEmpty == Sequential(<< >>) /\ DOMAIN << >> = {}
<1>1. << >> \in Seq({})
  OBVIOUS
<1>2. QED
  BY <1>1 DEF Sequential

LEMMA Listed ==
  ASSUME NEW n \in Nat, NEW f, f = [k \in 1 .. n |-> f[k]]
  PROVE  Sequential(f) /\ Len(f) = n /\ DOMAIN f = 1 .. n
<1> DEFINE T == {f[k] : k \in 1 .. n}
<1>1. f \in [1 .. n -> T]
  OBVIOUS
<1> HIDE DEF T
<1>2. f \in Seq(T) /\ Len(f) = n
  BY <1>1, FunctionIsSeq
<1>3. QED
  BY <1>1, <1>2 DEF Sequential

(* A set of numbers that is not empty has its least.                       *)
LEMMA Least ==
  ASSUME NEW S \in SUBSET Nat, S # {}
  PROVE  \E t \in S : \A u \in S : t <= u
<1>1. PICK t \in S : \A u \in S : ~ (<<u, t>> \in OpToRel(<, Nat))
  BY WFMin, NatLessThanWellFounded
<1>2. \A u \in S : ~ (u < t)
  BY <1>1 DEF OpToRel
<1>3. QED
  BY <1>2

(* A word is found at its first place. *)
LEMMA Found ==
  ASSUME NEW line \in Seq(Words), NEW word, Contains(line, word)
  PROVE  /\ Find(word, line) \in 1 .. Len(line)
         /\ line[Find(word, line)] = word
         /\ \A j \in 1 .. Find(word, line) - 1 : line[j] # word
<1> DEFINE S == {k \in 1 .. Len(line) : line[k] = word}
<1>1. Len(line) \in Nat /\ DOMAIN line = 1 .. Len(line)
  BY LenProperties
<1>2. S \in SUBSET Nat /\ S # {}
  BY <1>1 DEF Contains
<1>3. PICK t \in S : \A u \in S : t <= u
  <2> HIDE DEF S
  <2>1. QED
    BY <1>2, Least
<1>4. t \in DOMAIN line /\ line[t] = word /\ \A j \in 1 .. t - 1 : line[j] # word
  BY <1>1, <1>3
<1>5. Find(word, line) = CHOOSE k \in DOMAIN line : line[k] = word /\ \A j \in 1 .. k - 1 : line[j] # word
  BY DEF Find
<1> HIDE DEF S
<1>6. QED
  BY <1>1, <1>4, <1>5

(* A line without its comment is its beginning.                            *)
LEMMA Stripped ==
  ASSUME NEW line \in Seq(Words)
  PROVE  strip_comment(line) \in Seq(Words)
<1>1. CASE Contains(line, "//")
  <2>1. Find("//", line) \in 1 .. Len(line)
    BY <1>1, Found
  <2>2. Len(line) \in Nat
    BY LenProperties
  <2>3. Before(line, Find("//", line)) \in Seq(Words)
    <3> DEFINE k == Find("//", line)
    <3>1. k - 1 \in Int /\ 1 \in Int /\ \A i \in 1 .. k - 1 : line[i] \in Words
      BY <2>1, <2>2
    <3> HIDE DEF k
    <3>2. SubSeq(line, 1, k - 1) \in Seq(Words)
      BY <3>1, SubSeqProperties
    <3>3. QED
      BY <3>2 DEF Before, k
  <2>4. QED
    BY <1>1, <2>3 DEF strip_comment
<1>2. CASE ~ Contains(line, "//")
  BY <1>2 DEF strip_comment
<1>3. QED
  BY <1>1, <1>2

-----------------------------------------------------------------------------
(* The lines of a directory's files are sequences of words.                *)
LEMMA LinesAre ==
  ASSUME NEW d \in Directories, NEW f \in DOMAIN d
  PROVE  /\ f \in Nat /\ d[f].isa \in BOOLEAN /\ Len(d[f].lines) \in Nat
         /\ \A n \in 1 .. Len(d[f].lines) :
              d[f].lines[n] \in Seq(Words) /\ strip_comment(d[f].lines[n]) \in Seq(Words)
<1>1. f \in Nat /\ d[f].isa \in BOOLEAN /\ d[f].lines \in Seq(Seq(Words))
  BY DirectoriesFit
<1>2. Len(d[f].lines) \in Nat /\ \A n \in 1 .. Len(d[f].lines) : d[f].lines[n] \in Seq(Words)
  BY <1>1
<1>3. QED
  BY <1>1, <1>2, Stripped

(* What a header and what follows it are.                                  *)
LEMMA HeaderIs ==
  ASSUME NEW line \in Seq(Words), Contains(line, OpenBrace)
  PROVE  /\ Before(line, Find(OpenBrace, line)) \in Seq(Words)
         /\ Len(Before(line, Find(OpenBrace, line))) = Find(OpenBrace, line) - 1
         /\ \A k \in 1 .. Find(OpenBrace, line) - 1 : Before(line, Find(OpenBrace, line))[k] = line[k]
         /\ After(line, Find(OpenBrace, line)) \in Seq(Words)
         /\ Find(OpenBrace, line) = Len(line) => After(line, Find(OpenBrace, line)) = << >>
<1> DEFINE k == Find(OpenBrace, line)
           n == Len(line)
<1>1. k \in 1 .. n /\ n \in Nat /\ \A i \in 1 .. n : line[i] \in Words
  BY Found, LenProperties, ElementOfSeq
<1> HIDE DEF k, n
<1>2. /\ SubSeq(line, 1, k - 1) \in Seq(Words) /\ Len(SubSeq(line, 1, k - 1)) = k - 1
      /\ \A i \in 1 .. k - 1 : SubSeq(line, 1, k - 1)[i] = line[i]
  <2> DEFINE m == k - 1
  <2>1. m \in Nat /\ \A i \in 1 .. m : line[i] \in Words
    BY <1>1
  <2> HIDE DEF m
  <2>2. /\ SubSeq(line, 1, m) \in Seq(Words)
        /\ Len(SubSeq(line, 1, m)) = IF 1 <= m THEN m - 1 + 1 ELSE 0
        /\ \A i \in 1 .. m - 1 + 1 : SubSeq(line, 1, m)[i] = line[1 + i - 1]
    BY <2>1, SubSeqProperties
  <2>3. m - 1 + 1 = m /\ \A i \in 1 .. m : 1 + i - 1 = i
    BY <2>1
  <2>4. (IF 1 <= m THEN m - 1 + 1 ELSE 0) = m
    BY <2>1
  <2>5. QED
    BY <2>2, <2>3, <2>4 DEF m
<1>3. SubSeq(line, k + 1, n) \in Seq(Words)
  <2> DEFINE m == k + 1
  <2>1. m \in Int /\ n \in Int /\ \A i \in m .. n : line[i] \in Words
    BY <1>1
  <2> HIDE DEF m
  <2>2. SubSeq(line, m, n) \in Seq(Words)
    BY <2>1, SubSeqProperties
  <2>3. QED
    BY <2>2 DEF m
<1>4. k = n => SubSeq(line, k + 1, n) = << >>
  <2> SUFFICES ASSUME k = n PROVE SubSeq(line, k + 1, n) = << >>
    OBVIOUS
  <2> DEFINE m == k + 1
  <2>1. m \in Int /\ n \in Int /\ n < m
    BY <1>1
  <2> HIDE DEF m
  <2>2. SubSeq(line, m, n) = << >>
    BY <2>1, SubSeqEmpty
  <2>3. QED
    BY <2>2 DEF m
<1>5. QED
  BY <1>2, <1>3, <1>4 DEF k, n, Before, After

(* How many times a word occurs on a line.                                 *)
LEMMA Counted ==
  ASSUME NEW line \in Seq(Words), NEW word
  PROVE  /\ Count(word, line) \in Nat
         /\ ~ Contains(line, word) => Count(word, line) = 0
<1>1. Len(line) \in Nat /\ DOMAIN line = 1 .. Len(line)
  BY LenProperties
<1> DEFINE S == {k \in DOMAIN line : line[k] = word}
<1>2. IsFiniteSet(1 .. Len(line))
  BY <1>1, FS_Interval
<1>3. S \in SUBSET (1 .. Len(line))
  BY <1>1
<1>4. IsFiniteSet(S)
  <2> HIDE DEF S
  <2>1. QED
    BY <1>2, <1>3, FS_Subset
<1>5. Cardinality(S) \in Nat
  <2> HIDE DEF S
  <2>1. QED
    BY <1>4, FS_CardinalityType
<1>6. ~ Contains(line, word) => S = {}
  BY <1>1 DEF Contains
<1>7. Cardinality({}) = 0
  BY FS_EmptySet
<1>8. QED
  BY <1>5, <1>6, <1>7 DEF Count

LEMMA BracesAre ==
  ASSUME NEW line \in Seq(Words)
  PROVE  Braces(line) \in Int /\ (~ Contains(line, OpenBrace) => Braces(line) <= 0)
BY Counted DEF Braces

-----------------------------------------------------------------------------
(* The lines of the file being read.                                       *)
LEMMA Reading ==
  ASSUME Types, pc \in {"scan", "body"}
  PROVE  /\ Len(Lines) \in Nat /\ at \in 1 .. Len(Lines) + 1
         /\ \A n \in 1 .. Len(Lines) : strip_comment(Lines[n]) \in Seq(Words)
         /\ at <= Len(Lines) => at \in 1 .. Len(Lines) /\ Line \in Seq(Words)
<1>1. dir \in Directories /\ file \in DOMAIN dir /\ at \in 1 .. Len(Lines) + 1
  BY DEF Types
<1>2. Len(Lines) \in Nat /\ \A n \in 1 .. Len(Lines) : strip_comment(Lines[n]) \in Seq(Words)
  BY <1>1, LinesAre DEF Lines
<1>3. at <= Len(Lines) => at \in 1 .. Len(Lines)
  BY <1>1, <1>2
<1>4. QED
  BY <1>1, <1>2, <1>3 DEF Line

LEMMA TypesInit == Init => Types
<1> SUFFICES ASSUME Init PROVE Types
  OBVIOUS
<1>1. NoBlock \in Block
  <2>1. << >> \in Seq(Seq(Words))
    OBVIOUS
  <2>2. QED
    BY <2>1 DEF NoBlock, Block
<1>2. QED
  BY <1>1 DEF Init, Types

LEMMA TypesNext == Types /\ [Next]_vars => Types'
<1> SUFFICES ASSUME Types, [Next]_vars PROVE Types'
  OBVIOUS
<1>0. NoBlock \in Block
  <2>1. << >> \in Seq(Seq(Words))
    OBVIOUS
  <2>2. QED
    BY <2>1 DEF NoBlock, Block
<1>1. ASSUME NEW f \in unread, NextEntry(f) PROVE Types'
  <2>1. f \in DOMAIN dir /\ dir[f].isa \in BOOLEAN /\ Len(dir[f].lines) \in Nat
    BY LinesAre DEF Types
  <2>2. CASE dir[f].isa
    <3>1. Lines' = dir[f].lines /\ 1 \in 1 .. Len(dir[f].lines) + 1
      BY <1>1, <2>1, <2>2 DEF NextEntry, Lines
    <3>2. QED
      BY <1>1, <2>1, <2>2, <3>1 DEF NextEntry, Types
  <2>3. CASE ~ dir[f].isa
    BY <1>1, <2>1, <2>3 DEF NextEntry, Types
  <2>4. QED
    BY <2>2, <2>3
<1>2. CASE SkipLine
  <2>1. Lines' = Lines
    BY <1>2 DEF SkipLine, Lines
  <2>2. Len(Lines) \in Nat /\ at \in 1 .. Len(Lines)
    BY <1>2, Reading DEF SkipLine
  <2>3. at + 1 \in 1 .. Len(Lines) + 1
    BY <2>2
  <2>4. QED
    BY <1>2, <2>1, <2>3 DEF SkipLine, Types
<1>3. CASE OpenBlock
  <2>1. Lines' = Lines
    BY <1>3 DEF OpenBlock, Lines
  <2>2. Len(Lines) \in Nat /\ at \in 1 .. Len(Lines) /\ Line \in Seq(Words)
    BY <1>3, Reading DEF OpenBlock
  <2>3. at + 1 \in 1 .. Len(Lines) + 1 /\ at + 1 > 1
    BY <2>2
  <2>4. /\ Header \in Seq(Words) /\ Header[1] \in Words /\ Header[2] \in Words
        /\ After(Line, Find(OpenBrace, Line)) \in Seq(Words)
    <3>1. Header \in Seq(Words) /\ After(Line, Find(OpenBrace, Line)) \in Seq(Words)
      BY <1>3, <2>2, HeaderIs DEF OpenBlock, Header
    <3>2. Len(Header) >= 2
      BY <1>3 DEF OpenBlock
    <3>3. 1 \in 1 .. Len(Header) /\ 2 \in 1 .. Len(Header)
      BY <3>1, <3>2
    <3>4. QED
      BY <3>1, <3>3
  <2>5. NoWord \notin Words
    BY DEF Words
  <2>6. open' \in Block /\ open'.kind # NoWord /\ open'.name # NoWord
    <3> DEFINE tail == After(Line, Find(OpenBrace, Line))
               body == IF tail = << >> THEN << >> ELSE <<tail>>
    <3>1. body \in Seq(Seq(Words))
      BY <2>4
    <3>2. open' = [kind |-> Header[1], name |-> Header[2], body |-> body]
      BY <1>3 DEF OpenBlock
    <3> HIDE DEF body
    <3>3. QED
      BY <2>4, <2>5, <3>1, <3>2 DEF Block
  <2>7. QED
    BY <1>3, <2>1, <2>3, <2>6 DEF OpenBlock, Types
<1>4. CASE RefuseHeader
  BY <1>4 DEF RefuseHeader, Throw, Types
<1>5. CASE BodyLine
  <2>1. Lines' = Lines
    BY <1>5 DEF BodyLine, Lines
  <2>2. Len(Lines) \in Nat /\ at \in 1 .. Len(Lines) /\ Line \in Seq(Words)
    BY <1>5, Reading DEF BodyLine
  <2>3. at + 1 \in 1 .. Len(Lines) + 1 /\ at + 1 > 1
    BY <2>2
  <2>4. depth + Braces(Line) \in Int
    BY <2>2, BracesAre DEF Types
  <2>5. open' \in Block /\ open'.kind = open.kind /\ open'.name = open.name
    <3>1. open \in Block
      BY DEF Types
    <3>2. Append(open.body, Line) \in Seq(Seq(Words))
      <4>1. open.body \in Seq(Seq(Words))
        BY <3>1 DEF Block
      <4>2. QED
        BY <2>2, <4>1, AppendProperties
    <3>3. [open EXCEPT !.body = Append(@, Line)] \in Block
      BY <3>1, <3>2 DEF Block
    <3>4. QED
      BY <1>5, <3>1, <3>2, <3>3 DEF BodyLine, Block
  <2>6. QED
    BY <1>5, <2>1, <2>3, <2>4, <2>5 DEF BodyLine, Types
<1>6. CASE CloseBlock
  <2>1. Lines' = Lines
    BY <1>6 DEF CloseBlock, Lines
  <2>2. QED
    BY <1>0, <1>6, <2>1 DEF CloseBlock, Types
<1>7. CASE EndFile
  BY <1>7 DEF EndFile, Types
<1>8. CASE RefuseRegister
  BY <1>8 DEF RefuseRegister, Throw, Types
<1>9. CASE SortDocuments
  BY <1>9 DEF SortDocuments, Types
<1>10. CASE UNCHANGED vars
  <2>1. Lines' = Lines
    BY <1>10 DEF vars, Lines
  <2>2. QED
    BY <1>10, <2>1 DEF vars, Types
<1>11. QED
  BY <1>1, <1>2, <1>3, <1>4, <1>5, <1>6, <1>7, <1>8, <1>9, <1>10 DEF Next, Return

-----------------------------------------------------------------------------
LEMMA OneEachInit == Init => OneEach /\ InOrder
<1> SUFFICES ASSUME Init PROVE OneEach /\ InOrder
  OBVIOUS
<1>1. documents = << >> /\ pc = "list" /\ unread = DOMAIN dir
  BY DEF Init
<1>2. Sequential(documents) /\ DOMAIN documents = {}
  BY <1>1, SequentialEmpty
<1>3. QED
  BY <1>1, <1>2 DEF OneEach, Read, Descriptions, InOrder

(* Sorting the documents by name keeps one each.                           *)
LEMMA Sorted ==
  ASSUME NEW docs, Sequential(docs),
         {docs[k].name : k \in DOMAIN docs} \in SUBSET Nat,
         IsFiniteSet({docs[k].name : k \in DOMAIN docs})
  PROVE  /\ Sequential(ByName(docs))
         /\ {ByName(docs)[k].name : k \in DOMAIN ByName(docs)} = {docs[k].name : k \in DOMAIN docs}
         /\ \A j, k \in DOMAIN ByName(docs) : j < k => ByName(docs)[j].name < ByName(docs)[k].name
         /\ \A j, k \in DOMAIN ByName(docs) : ByName(docs)[j].name = ByName(docs)[k].name => j = k
<1> DEFINE S == {docs[k].name : k \in DOMAIN docs}
           names == Ascending(S)
           n == Len(names)
           sorted == ByName(docs)
<1>1. /\ names \in Seq(S) /\ Range(names) = S /\ IsInjective(names)
      /\ \A j, k \in DOMAIN names : j < k => names[j] < names[k]
  BY AscendingLists
<1>2. n \in Nat /\ DOMAIN names = 1 .. n
  <2> HIDE DEF names, S
  <2>1. QED
    BY <1>1, LenProperties
<1>3. sorted = [k \in 1 .. n |-> CHOOSE d \in ToSet(docs) : d.name = names[k]]
  BY <1>2 DEF ByName
<1>4. \A k \in 1 .. n : names[k] \in S
  <2> HIDE DEF names, S
  <2>1. QED
    BY <1>1, <1>2
<1>5. \A k \in 1 .. n : sorted[k].name = names[k]
  <2> TAKE k \in 1 .. n
  <2>1. \E d \in ToSet(docs) : d.name = names[k]
    BY <1>4 DEF ToSet
  <2>2. sorted[k] = CHOOSE d \in ToSet(docs) : d.name = names[k]
    BY <1>3
  <2> HIDE DEF sorted, names
  <2>3. QED
    BY <2>1, <2>2
<1>6. Sequential(sorted) /\ DOMAIN sorted = 1 .. n
  <2> HIDE DEF n
  <2>1. sorted = [k \in 1 .. n |-> sorted[k]]
    <3>1. DOMAIN sorted = 1 .. n
      BY <1>3
    <3>2. QED
      BY <1>3
  <2> HIDE DEF sorted
  <2>2. QED
    BY <1>2, <2>1, Listed
<1>7. {sorted[k].name : k \in DOMAIN sorted} = S
  <2> HIDE DEF sorted, names, S, n
  <2>1. {names[k] : k \in 1 .. n} = S
    BY <1>1, <1>2 DEF Range
  <2>2. {sorted[k].name : k \in 1 .. n} = {names[k] : k \in 1 .. n}
    BY <1>5
  <2>3. QED
    BY <1>6, <2>1, <2>2
<1> HIDE DEF sorted, names, n, S
<1>8. \A j, k \in DOMAIN sorted : j < k => sorted[j].name < sorted[k].name
  BY <1>1, <1>2, <1>5, <1>6
<1>9. \A j, k \in DOMAIN sorted : sorted[j].name = sorted[k].name => j = k
  BY <1>1, <1>2, <1>5, <1>6 DEF IsInjective
<1>10. QED
  BY <1>6, <1>7, <1>8, <1>9 DEF sorted, S

LEMMA OneEachNext == Types /\ OneEach /\ InOrder /\ [Next]_vars => OneEach' /\ InOrder'
<1> SUFFICES ASSUME Types, OneEach, InOrder, [Next]_vars PROVE OneEach' /\ InOrder'
  OBVIOUS
<1>0. ASSUME UNCHANGED documents, Read' = Read, pc' # "loaded" PROVE OneEach' /\ InOrder'
  BY <1>0 DEF OneEach, InOrder
<1>1. ASSUME NEW f \in unread, NextEntry(f) PROVE OneEach' /\ InOrder'
  <2>1. f \in DOMAIN dir /\ dir[f].isa \in BOOLEAN
    BY LinesAre DEF Types
  <2>2. Read' = Read
    <3>1. CASE dir[f].isa
      BY <1>1, <2>1, <3>1 DEF NextEntry, Read, Descriptions
    <3>2. CASE ~ dir[f].isa
      BY <1>1, <2>1, <3>2 DEF NextEntry, Read, Descriptions
    <3>3. QED
      BY <3>1, <3>2
  <2>3. UNCHANGED documents /\ pc' # "loaded"
    BY <1>1, <2>1 DEF NextEntry
  <2>4. QED
    BY <1>0, <2>2, <2>3
<1>2. CASE SkipLine \/ OpenBlock \/ BodyLine \/ CloseBlock
  <2>1. /\ UNCHANGED <<documents, dir, unread, file>>
        /\ pc \in {"scan", "body"} /\ pc' \in {"scan", "body"}
    BY <1>2 DEF SkipLine, OpenBlock, BodyLine, CloseBlock
  <2>2. Read' = Read
    BY <2>1 DEF Read, Descriptions
  <2>3. QED
    BY <1>0, <2>1, <2>2
<1>3. CASE RefuseHeader \/ RefuseRegister
  <2>1. documents' = << >> /\ pc' = "thrown"
    BY <1>3 DEF RefuseHeader, RefuseRegister, Throw
  <2>2. Sequential(documents') /\ DOMAIN documents' = {}
    BY <2>1, SequentialEmpty
  <2>3. QED
    BY <2>1, <2>2 DEF OneEach, Read, InOrder
<1>4. CASE EndFile
  <2> DEFINE new == [name |-> file, doc |-> Document(blocks, Lines)]
             n == Len(documents)
  <2>1. documents' = Append(documents, new) /\ pc = "scan" /\ pc' = "list" /\ UNCHANGED <<dir, unread, file>>
    BY <1>4 DEF EndFile
  <2>2. new.name = file
    OBVIOUS
  <2> HIDE DEF new
  <2>3. /\ Sequential(documents') /\ n \in Nat /\ DOMAIN documents = 1 .. n
        /\ DOMAIN documents' = 1 .. n + 1 /\ documents'[n + 1] = new
        /\ \A k \in 1 .. n : documents'[k] = documents[k]
    BY <2>1, SequentialAppend DEF OneEach
  <2>4. file \in Descriptions /\ file \notin unread
    BY <2>1 DEF Types, Descriptions
  <2>5. Read' = Read \cup {file} /\ file \notin Read
    BY <2>1, <2>4 DEF Read, Descriptions
  <2> HIDE DEF n
  <2>6. \A k \in 1 .. n : documents[k].name \in Read
    BY <2>3 DEF OneEach
  <2>7. \A k \in 1 .. n + 1 : k = n + 1 \/ k \in 1 .. n
    BY <2>3
  <2>8. \A k \in 1 .. n + 1 : documents'[k].name = IF k = n + 1 THEN file ELSE documents[k].name
    BY <2>2, <2>3, <2>7
  <2>9. {documents'[k].name : k \in 1 .. n + 1} = {documents[k].name : k \in 1 .. n} \cup {file}
    <3>1. n + 1 \in 1 .. n + 1 /\ n + 1 \notin 1 .. n /\ \A k \in 1 .. n : k \in 1 .. n + 1
      BY <2>3
    <3>2. QED
      BY <2>7, <2>8, <3>1
  <2>10. {documents[k].name : k \in 1 .. n} = Read
    BY <2>3 DEF OneEach
  <2>11. ASSUME NEW j \in 1 .. n + 1, NEW k \in 1 .. n + 1, documents'[j].name = documents'[k].name
         PROVE  j = k
    <3>1. CASE j = n + 1 /\ k = n + 1
      BY <3>1
    <3>2. CASE j \in 1 .. n /\ k \in 1 .. n
      <4>1. documents[j].name = documents[k].name
        BY <2>3, <2>11, <3>2
      <4>2. QED
        BY <2>3, <3>2, <4>1 DEF OneEach
    <3>3. CASE (j = n + 1 /\ k \in 1 .. n) \/ (k = n + 1 /\ j \in 1 .. n)
      BY <2>2, <2>3, <2>5, <2>6, <2>11, <3>3
    <3>4. QED
      BY <2>7, <3>1, <3>2, <3>3
  <2>12. QED
    BY <2>1, <2>3, <2>5, <2>9, <2>10, <2>11 DEF OneEach, InOrder
<1>5. CASE SortDocuments
  <2>1. documents' = ByName(documents) /\ pc = "list" /\ pc' = "loaded" /\ unread = {} /\ UNCHANGED dir
    BY <1>5 DEF SortDocuments
  <2>2. Read = Descriptions /\ Read' = Descriptions
    BY <2>1 DEF Read, Descriptions
  <2>3. {documents[k].name : k \in DOMAIN documents} = Descriptions
    BY <2>2 DEF OneEach
  <2>4. Descriptions \in SUBSET Nat /\ IsFiniteSet(Descriptions)
    <3>1. DOMAIN dir \in SUBSET Nat /\ IsFiniteSet(DOMAIN dir)
      BY DirectoriesFit DEF Types
    <3>2. Descriptions \in SUBSET (DOMAIN dir)
      BY DEF Descriptions
    <3>3. QED
      BY <3>1, <3>2, FS_Subset
  <2>5. Sequential(documents)
    BY DEF OneEach
  <2>6. /\ Sequential(documents')
        /\ {documents'[k].name : k \in DOMAIN documents'} = {documents[k].name : k \in DOMAIN documents}
        /\ \A j, k \in DOMAIN documents' : j < k => documents'[j].name < documents'[k].name
        /\ \A j, k \in DOMAIN documents' : documents'[j].name = documents'[k].name => j = k
    <3> DEFINE docs == documents
    <3>1. /\ {docs[k].name : k \in DOMAIN docs} \in SUBSET Nat
          /\ IsFiniteSet({docs[k].name : k \in DOMAIN docs})
      BY <2>3, <2>4
    <3>2. Sequential(docs)
      BY <2>5
    <3> HIDE DEF docs
    <3>3. /\ Sequential(ByName(docs))
          /\ {ByName(docs)[k].name : k \in DOMAIN ByName(docs)} = {docs[k].name : k \in DOMAIN docs}
          /\ \A j, k \in DOMAIN ByName(docs) : j < k => ByName(docs)[j].name < ByName(docs)[k].name
          /\ \A j, k \in DOMAIN ByName(docs) : ByName(docs)[j].name = ByName(docs)[k].name => j = k
      BY <3>1, <3>2, Sorted
    <3>4. documents' = ByName(docs)
      BY <2>1 DEF docs
    <3>5. QED
      BY <3>3, <3>4 DEF docs
  <2>7. QED
    BY <2>2, <2>3, <2>6 DEF OneEach, InOrder
<1>6. CASE UNCHANGED vars
  <2>1. UNCHANGED <<documents, dir, unread, file, pc>>
    BY <1>6 DEF vars
  <2>2. Read' = Read
    BY <2>1 DEF Read, Descriptions
  <2>3. QED
    BY <2>1, <2>2 DEF OneEach, InOrder
<1>7. QED
  BY <1>1, <1>2, <1>3, <1>4, <1>5, <1>6 DEF Next, Return

-----------------------------------------------------------------------------
Kept == Types /\ OneEach /\ InOrder

LEMMA KeptAlways == Spec => []Kept
<1>1. Init => Kept
  BY TypesInit, OneEachInit DEF Kept
<1>2. Kept /\ [Next]_vars => Kept'
  BY TypesNext, OneEachNext DEF Kept
<1>3. QED
  BY <1>1, <1>2, PTL DEF Spec

(* No document is of a file that the directory does not have.              *)
LEMMA NamesAreFiles ==
  ASSUME Kept
  PROVE  /\ Len(documents) \in Nat /\ DOMAIN documents = 1 .. Len(documents)
         /\ \A k \in DOMAIN documents : documents[k].name \in DOMAIN dir
         /\ DOMAIN dir \in SUBSET Nat /\ IsFiniteSet(DOMAIN dir)
<1>1. DOMAIN dir \in SUBSET Nat /\ IsFiniteSet(DOMAIN dir)
  BY DirectoriesFit DEF Kept, Types
<1>2. Len(documents) \in Nat /\ DOMAIN documents = 1 .. Len(documents)
  BY SequentialAppend DEF Kept, OneEach
<1>3. Read \in SUBSET (DOMAIN dir)
  BY DEF Read, Descriptions
<1>4. \A k \in DOMAIN documents : documents[k].name \in DOMAIN dir
  BY <1>3 DEF Kept, OneEach
<1>5. QED
  BY <1>1, <1>2, <1>4

LEMMA NoMoreThanFiles ==
  ASSUME Kept
  PROVE  Len(documents) <= Cardinality(DOMAIN dir)
<1> DEFINE n == Len(documents)
           F == DOMAIN dir
           name == [k \in 1 .. n |-> documents[k].name]
<1>1. n \in Nat /\ IsFiniteSet(F) /\ name \in [1 .. n -> F]
  BY NamesAreFiles
<1>2. \A j, k \in 1 .. n : name[j] = name[k] => j = k
  BY NamesAreFiles DEF Kept, OneEach
<1> HIDE DEF n, F, name
<1>3. name \in Injection(1 .. n, F)
  BY <1>1, <1>2 DEF Injection, IsInjective
<1>4. Cardinality(1 .. n) <= Cardinality(F)
  BY <1>1, <1>3, FS_Injection
<1>5. Cardinality(1 .. n) = n
  BY <1>1, FS_Interval
<1>6. QED
  BY <1>4, <1>5 DEF n, F

(* The reader keeps its types, and has at most one document for each file  *)
(* of the directory.                                                       *)
THEOREM TypeCorrectness == Spec => []TypeOK
<1>1. Kept => TypeOK
  <2> SUFFICES ASSUME Kept PROVE TypeOK
    OBVIOUS
  <2>1. Len(documents) <= Cardinality(DOMAIN dir)
    BY NoMoreThanFiles
  <2>2. QED
    BY <2>1 DEF Kept, Types, TypeOK
<1>2. QED
  BY <1>1, KeptAlways, PTL

(* Whatever order the directory is listed in, the bundle that load_isa_    *)
(* directory returns has one document for each description, by name, and   *)
(* bundle::find_architecture gives the first with the name it is asked for.*)
THEOREM OneBundle == Spec => []BundleInOrder
<1>1. Kept => BundleInOrder
  <2> SUFFICES ASSUME Kept, pc = "loaded" PROVE
         /\ {documents[k].name : k \in DOMAIN documents} = Descriptions
         /\ \A j, k \in DOMAIN documents : j < k => documents[j].name < documents[k].name
         /\ \A k \in DOMAIN documents :
              LET arch == documents[k].doc.architecture.name IN
              arch # NoWord => /\ find_architecture(documents, arch) <= documents[k].name
                               /\ \E d \in ToSet(documents) : /\ d.name = find_architecture(documents, arch)
                                                              /\ d.doc.architecture.name = arch
    BY DEF BundleInOrder, Descriptions
  <2>1. {documents[k].name : k \in DOMAIN documents} = Descriptions
    BY DEF Kept, OneEach, Read
  <2>2. \A j, k \in DOMAIN documents : j < k => documents[j].name < documents[k].name
    BY DEF Kept, InOrder
  <2>3. ASSUME NEW k \in DOMAIN documents
        PROVE  LET arch == documents[k].doc.architecture.name IN
               /\ find_architecture(documents, arch) <= documents[k].name
               /\ \E d \in ToSet(documents) : /\ d.name = find_architecture(documents, arch)
                                              /\ d.doc.architecture.name = arch
    <3> DEFINE arch == documents[k].doc.architecture.name
               found == {j \in DOMAIN documents : documents[j].doc.architecture.name = arch}
               first == CHOOSE j \in found : \A i \in found : j <= i
    <3>1. found \in SUBSET Nat /\ k \in found /\ found # {}
      BY NamesAreFiles
    <3>2. \E j \in found : \A i \in found : j <= i
      <4> HIDE DEF found
      <4>1. QED
        BY <3>1, Least
    <3>3. first \in found /\ \A i \in found : first <= i
      <4> HIDE DEF found
      <4>1. QED
        BY <3>2
    <3>4. find_architecture(documents, arch) = documents[first].name
      BY <3>1 DEF find_architecture
    <3>5. first \in DOMAIN documents /\ documents[first].doc.architecture.name = arch
      <4> HIDE DEF first
      <4>1. QED
        BY <3>3
    <3> HIDE DEF first
    <3>6. documents[first].name <= documents[k].name
      <4>1. first <= k
        BY <3>1, <3>3
      <4>2. documents[first].name \in Nat /\ documents[k].name \in Nat /\ first \in Nat /\ k \in Nat
        BY <3>5, NamesAreFiles
      <4>3. CASE first = k
        BY <4>2, <4>3
      <4>4. CASE first < k
        BY <2>2, <3>5, <4>2, <4>4
      <4>5. QED
        BY <4>1, <4>2, <4>3, <4>4
    <3>7. documents[first] \in ToSet(documents)
      BY <3>5 DEF ToSet
    <3>8. QED
      BY <3>4, <3>5, <3>6, <3>7
  <2>4. QED
    BY <2>1, <2>2, <2>3
<1>2. QED
  BY <1>1, KeptAlways, PTL

-----------------------------------------------------------------------------
LEMMA Levels ==
  ASSUME NEW lines \in Seq(Seq(Words))
  PROVE  /\ Len(lines) \in Nat /\ LevelOf(lines) \in [0 .. Len(lines) -> Int]
         /\ LevelOf(lines)[0] = 0
         /\ \A n \in 1 .. Len(lines) :
              LevelOf(lines)[n] = LevelOf(lines)[n - 1] + Braces(strip_comment(lines[n]))
<1> DEFINE N == Len(lines)
           B == [n \in 1 .. N |-> Braces(strip_comment(lines[n]))]
           Fits(f) == f = [n \in 0 .. N |-> IF n = 0 THEN 0 ELSE f[n - 1] + Braces(strip_comment(lines[n]))]
           F == [n \in 1 .. N |-> [v \in Int |-> v + B[n]]]
           level == CHOOSE f : Fits(f)
<1>1. N \in Nat /\ \A n \in 1 .. N : strip_comment(lines[n]) \in Seq(Words)
  <2>1. N \in Nat /\ \A n \in 1 .. N : lines[n] \in Seq(Words)
    OBVIOUS
  <2>2. QED
    BY <2>1, Stripped
<1>2. B \in [1 .. N -> Int]
  BY <1>1, BracesAre
<1>3. F \in [1 .. N -> [Int -> Int]]
  <2> HIDE DEF B
  <2>1. QED
    BY <1>2
<1>4. PICK g : Follows(g, N, Int, 0, F)
  <2> DEFINE A == Int
  <2>1. 0 \in A /\ F \in [1 .. N -> [A -> A]] /\ N \in Nat
    BY <1>1, <1>3
  <2> HIDE DEF F, N, A
  <2>2. \E g : Follows(g, N, A, 0, F)
    BY <2>1, Recursion
  <2>3. QED
    BY <2>2 DEF A
<1>5. /\ g \in [0 .. N -> Int] /\ g[0] = 0
      /\ \A n \in 1 .. N : n - 1 \in 0 .. N /\ g[n] = g[n - 1] + B[n]
  <2>1. g \in [0 .. N -> Int] /\ g[0] = 0 /\ \A n \in 1 .. N : g[n] = F[n][g[n - 1]]
    BY <1>4 DEF Follows
  <2>2. \A n \in 1 .. N : n - 1 \in 0 .. N
    BY <1>1
  <2> HIDE DEF B
  <2>3. \A n \in 1 .. N : g[n - 1] \in Int
    BY <2>1, <2>2
  <2>4. \A n \in 1 .. N : F[n][g[n - 1]] = g[n - 1] + B[n]
    BY <2>3
  <2> HIDE DEF F
  <2>5. QED
    BY <2>1, <2>2, <2>4
<1>6. Fits(g)
  <2>1. \A n \in 0 .. N : g[n] = IF n = 0 THEN 0 ELSE g[n - 1] + Braces(strip_comment(lines[n]))
    <3>1. \A n \in 0 .. N : n = 0 \/ n \in 1 .. N
      BY <1>1
    <3>2. QED
      BY <1>5, <3>1
  <2>2. QED
    BY <1>5, <2>1
<1>7. Fits(level)
  <2> HIDE DEF Fits
  <2>1. QED
    BY <1>6
<1>8. LevelOf(lines) = level
  BY DEF LevelOf
<1> HIDE DEF level
<1>9. level[0] = 0 /\ \A n \in 1 .. N : level[n] = level[n - 1] + Braces(strip_comment(lines[n]))
  <2>1. \A n \in 0 .. N : level[n] = IF n = 0 THEN 0 ELSE level[n - 1] + Braces(strip_comment(lines[n]))
    BY <1>7
  <2>2. 0 \in 0 .. N /\ \A n \in 1 .. N : n \in 0 .. N /\ n # 0
    BY <1>1
  <2>3. QED
    BY <2>1, <2>2
<1>10. DOMAIN level = 0 .. N /\ level = [n \in DOMAIN level |-> level[n]]
  BY <1>7
<1>11. level = g
  <2> DEFINE P == {n \in 0 .. N : level[n] = g[n]}
  <2>1. 0 \in P
    BY <1>1, <1>5, <1>9
  <2>2. ASSUME NEW n \in 0 .. N - 1, n \in P PROVE n + 1 \in P
    <3>1. n + 1 \in 1 .. N /\ (n + 1) - 1 = n /\ n + 1 \in 0 .. N
      BY <1>1
    <3>2. level[n + 1] = level[n] + Braces(strip_comment(lines[n + 1]))
      BY <1>9, <3>1
    <3>3. g[n + 1] = g[n] + Braces(strip_comment(lines[n + 1]))
      BY <1>5, <3>1
    <3>4. QED
      BY <2>2, <3>1, <3>2, <3>3
  <2>3. 0 .. N \subseteq P
    <3> HIDE DEF P, N
    <3>1. QED
      BY <1>1, <2>1, <2>2, Counting
  <2>4. \A n \in 0 .. N : level[n] = g[n]
    BY <2>3
  <2>5. QED
    BY <1>5, <1>10, <2>4
<1>12. QED
  BY <1>1, <1>5, <1>8, <1>9, <1>11

(* A line on which no block starts adds none to the outline.               *)
LEMMA OutlineSame ==
  ASSUME NEW lines, NEW m \in Nat \ {0}, m \notin Starts(lines, m)
  PROVE  Outline(lines, m) = Outline(lines, m - 1)
<1>1. Starts(lines, m) = Starts(lines, m - 1)
  <2>1. \A n \in 1 .. m : n = m \/ n \in 1 .. m - 1
    OBVIOUS
  <2>2. \A n \in 1 .. m - 1 : n \in 1 .. m
    OBVIOUS
  <2>3. QED
    BY <2>1, <2>2 DEF Starts
<1>2. QED
  BY <1>1 DEF Outline

LEMMA OutlineNone ==
  ASSUME NEW lines
  PROVE  Outline(lines, 0) = << >>
<1>1. Starts(lines, 0) = {}
  <2>1. 1 .. 0 = {}
    OBVIOUS
  <2>2. QED
    BY <2>1 DEF Starts
<1>2. DOMAIN Ascending({}) = {}
  <2>1. Cardinality({}) = 0
    BY FS_EmptySet
  <2>2. 1 .. 0 = {}
    OBVIOUS
  <2>3. QED
    BY <2>1, <2>2 DEF Ascending
<1>3. Outline(lines, 0) = [k \in {} |-> BlockFrom(lines, Ascending({})[k])]
  BY <1>1, <1>2 DEF Outline
<1>4. QED
  BY <1>3

(* A block that no other follows is the last of the outline.               *)
LEMMA OutlineMore ==
  ASSUME NEW lines \in Seq(Seq(Words)), NEW m \in 1 .. Len(lines), NEW s \in Starts(lines, m),
         \A k \in s .. m - 1 : LevelOf(lines)[k] > 0
  PROVE  /\ Outline(lines, m) = Append(Outline(lines, s - 1), BlockFrom(lines, s))
         /\ s \in 1 .. m
<1> DEFINE level == LevelOf(lines)
           S == Starts(lines, s - 1)
           first == Ascending(S)
           c == Len(first)
           T == {BlockFrom(lines, n) : n \in S \cup {s}}
           old == Outline(lines, s - 1)
           new == Outline(lines, m)
<1>1. Len(lines) \in Nat /\ level \in [0 .. Len(lines) -> Int]
  BY Levels
<1>2. s \in 1 .. m /\ level[s - 1] = 0 /\ level[s] > 0 /\ s \in Nat /\ m \in Nat
  BY <1>1 DEF Starts
<1>3. Starts(lines, m) = S \cup {s}
  <2>1. \A n \in 1 .. m : n \in 1 .. s - 1 \/ n = s \/ n - 1 \in s .. m - 1
    BY <1>2
  <2>2. \A n \in 1 .. m : n - 1 \in s .. m - 1 => level[n - 1] # 0
    BY <1>1
  <2>3. \A n \in 1 .. s - 1 : n \in 1 .. m
    BY <1>2
  <2> HIDE DEF level
  <2>4. Starts(lines, m) = {n \in 1 .. m : level[n - 1] = 0 /\ level[n] > 0}
    BY DEF Starts, level
  <2>5. S = {n \in 1 .. s - 1 : level[n - 1] = 0 /\ level[n] > 0}
    BY DEF Starts, level
  <2> HIDE DEF S
  <2>6. QED
    BY <1>2, <2>1, <2>2, <2>3, <2>4, <2>5
<1>4. S \in SUBSET Nat /\ IsFiniteSet(S) /\ \A x \in S : x < s
  <2>1. IsFiniteSet(1 .. s - 1)
    BY <1>2, FS_Interval
  <2>2. S \in SUBSET (1 .. s - 1)
    BY DEF Starts
  <2> HIDE DEF S
  <2>3. IsFiniteSet(S)
    BY <2>1, <2>2, FS_Subset
  <2>4. QED
    BY <1>2, <2>2, <2>3
<1> HIDE DEF level
<1>5. Ascending(Starts(lines, m)) = Append(first, s)
  <2> HIDE DEF S
  <2>1. Ascending(S \cup {s}) = Append(first, s)
    BY <1>2, <1>4, AscendingAppend
  <2>2. QED
    BY <1>3, <2>1
<1>6. first \in Seq(S) /\ c \in Nat /\ DOMAIN first = 1 .. c /\ \A k \in 1 .. c : first[k] \in S
  <2> HIDE DEF S
  <2>1. first \in Seq(S)
    BY <1>4, AscendingLists
  <2> HIDE DEF first
  <2>2. QED
    BY <2>1
<1> HIDE DEF S, first, c
<1>7. Append(first, s) \in Seq(S \cup {s}) /\ Len(Append(first, s)) = c + 1
      /\ Append(first, s)[c + 1] = s /\ \A k \in 1 .. c : Append(first, s)[k] = first[k]
  <2>1. first \in Seq(S \cup {s})
    BY <1>6
  <2>2. QED
    BY <2>1, AppendProperties DEF c
<1>8. DOMAIN Append(first, s) = 1 .. c + 1
  BY <1>7, LenProperties
<1>9. new = [k \in 1 .. c + 1 |-> BlockFrom(lines, Append(first, s)[k])]
  BY <1>5, <1>8 DEF Outline
<1>10. old = [k \in 1 .. c |-> BlockFrom(lines, first[k])]
  BY <1>6 DEF Outline, S, first
<1>11. old \in Seq(T) /\ Len(old) = c
  <2>1. old \in [1 .. c -> T]
    BY <1>6, <1>10
  <2> HIDE DEF T, old
  <2>2. QED
    BY <1>6, <2>1, FunctionIsSeq
<1>12. BlockFrom(lines, s) \in T
  OBVIOUS
<1>13. new \in Seq(T) /\ Len(new) = c + 1
  <2> DEFINE d == c + 1
  <2>1. d \in Nat
    BY <1>6
  <2>2. \A k \in 1 .. d : Append(first, s)[k] \in S \cup {s}
    <3> DEFINE app == Append(first, s)
               U == S \cup {s}
    <3>1. app \in Seq(U) /\ Len(app) = d
      BY <1>7
    <3> HIDE DEF app, U
    <3>2. \A k \in 1 .. d : app[k] \in U
      BY <3>1, ElementOfSeq
    <3>3. QED
      BY <3>2 DEF app, U
  <2>3. new = [k \in 1 .. d |-> BlockFrom(lines, Append(first, s)[k])]
    BY <1>9
  <2> HIDE DEF d
  <2>4. new \in [1 .. d -> T]
    BY <2>2, <2>3
  <2> HIDE DEF T, new
  <2>5. new \in Seq(T) /\ Len(new) = d
    BY <2>1, <2>4, FunctionIsSeq
  <2>6. QED
    BY <2>5 DEF d
<1>14. \A k \in 1 .. c : new[k] = old[k]
  <2>1. \A k \in 1 .. c : k \in 1 .. c + 1
    BY <1>6
  <2>2. QED
    BY <1>7, <1>9, <1>10, <2>1
<1>15. new[c + 1] = BlockFrom(lines, s)
  <2>1. c + 1 \in 1 .. c + 1
    BY <1>6
  <2>2. QED
    BY <1>7, <1>9, <2>1
<1>16. new = Append(old, BlockFrom(lines, s))
  <2> DEFINE b == BlockFrom(lines, s)
             app == Append(old, b)
  <2> HIDE DEF T, new, old, b
  <2>1. b \in T
    BY <1>12 DEF b
  <2>2. /\ app \in Seq(T) /\ Len(app) = c + 1 /\ app[c + 1] = b
        /\ \A k \in 1 .. c : app[k] = old[k]
    BY <1>11, <2>1, AppendProperties
  <2> HIDE DEF app
  <2>3. \A k \in 1 .. c + 1 : k = c + 1 \/ k \in 1 .. c
    BY <1>6
  <2>4. \A k \in 1 .. c + 1 : new[k] = app[k]
    BY <1>14, <1>15, <2>2, <2>3 DEF b
  <2>5. new = app
    BY <1>13, <2>2, <2>4, SeqEqual
  <2>6. QED
    BY <2>5 DEF app, b
<1>17. QED
  BY <1>2, <1>16

(* What is written on one more line is added to what is written.           *)
LEMMA WrittenMore ==
  ASSUME NEW lines \in Seq(Seq(Words)), NEW s \in Nat, NEW m \in Nat, s <= m, m + 1 <= Len(lines)
  PROVE  /\ Written(lines, s, m) \in Seq(Seq(Words))
         /\ Written(lines, s, m + 1) =
              IF strip_comment(lines[m + 1]) = << >> THEN Written(lines, s, m)
              ELSE Append(Written(lines, s, m), strip_comment(lines[m + 1]))
<1> DEFINE Said(k) == IF strip_comment(lines[s + k]) = << >> THEN << >> ELSE <<strip_comment(lines[s + k])>>
           d == m - s
           e == d + 1
           W == Seq(Words)
           f == [k \in 1 .. d |-> Said(k)]
           g == [k \in 1 .. e |-> Said(k)]
           line == strip_comment(lines[m + 1])
<1>1. d \in Nat /\ e \in Nat /\ e \in 1 .. e /\ (m + 1) - s = e /\ s + e = m + 1
  OBVIOUS
<1>2. \A k \in 1 .. e : strip_comment(lines[s + k]) \in W
  <2>1. \A k \in 1 .. e : s + k \in 1 .. Len(lines)
    BY LenProperties
  <2>2. \A k \in 1 .. e : lines[s + k] \in W
    BY <2>1
  <2>3. QED
    BY <2>2, Stripped
<1> HIDE DEF W
<1>3. ASSUME NEW k \in 1 .. e PROVE Said(k) \in Seq(W)
  <2> DEFINE x == strip_comment(lines[s + k])
  <2>1. x \in W
    BY <1>2
  <2> HIDE DEF x, e
  <2>2. (IF x = << >> THEN << >> ELSE <<x>>) \in Seq(W)
    BY <2>1
  <2>3. QED
    BY <2>2 DEF x
<1>4. f \in [1 .. d -> Seq(W)] /\ g \in [1 .. e -> Seq(W)]
  <2>1. \A k \in 1 .. d : k \in 1 .. e
    BY <1>1
  <2> HIDE DEF Said, e, d
  <2>2. QED
    BY <1>3, <2>1
<1>5. Written(lines, s, m) = FlattenSeq(f)
  BY DEF Written
<1>6. Written(lines, s, m + 1) = FlattenSeq(g)
  BY <1>1 DEF Written
<1>7. f \in Seq(Seq(W)) /\ Len(f) = d
  <2> HIDE DEF d, f
  <2>1. QED
    BY <1>1, <1>4, FunctionIsSeq
<1>8. g \in Seq(Seq(W)) /\ Len(g) = e
  <2> HIDE DEF e, g
  <2>1. QED
    BY <1>1, <1>4, FunctionIsSeq
<1>9. Said(e) = IF line = << >> THEN << >> ELSE <<line>>
  BY <1>1
<1>10. g = Append(f, Said(e))
  <2> DEFINE v == Said(e)
             app == Append(f, v)
  <2>1. v \in Seq(W)
    <3> HIDE DEF Said, e
    <3>1. QED
      BY <1>1, <1>3
  <2>2. g[e] = v /\ \A k \in 1 .. d : g[k] = f[k]
    BY <1>1
  <2>3. e = d + 1
    OBVIOUS
  <2> HIDE DEF f, g, v, d, e, Said
  <2>4. app \in Seq(Seq(W)) /\ Len(app) = e /\ app[e] = v /\ \A k \in 1 .. d : app[k] = f[k]
    BY <1>7, <2>1, <2>3, AppendProperties
  <2>5. \A k \in 1 .. e : k = e \/ k \in 1 .. d
    BY <1>1, <2>3
  <2> HIDE DEF app
  <2>6. \A k \in 1 .. e : g[k] = app[k]
    BY <2>2, <2>4, <2>5
  <2>7. g = app
    BY <1>8, <2>4, <2>6, SeqEqual
  <2>8. QED
    BY <2>7 DEF app, v
<1>11. FlattenSeq(g) = FlattenSeq(f) \o Said(e)
  <2>1. Said(e) \in Seq(W)
    <3> HIDE DEF Said, e
    <3>1. QED
      BY <1>1, <1>3
  <2> DEFINE v == Said(e)
  <2> HIDE DEF f, g, v
  <2>2. v \in Seq(W) /\ g = Append(f, v)
    BY <1>10, <2>1 DEF v
  <2>3. FlattenSeq(g) = FlattenSeq(f) \o v
    BY <1>7, <2>2, FlattenAppend
  <2>4. QED
    BY <2>3 DEF v
<1>12. FlattenSeq(f) \in Seq(W)
  BY <1>7, FlattenType
<1>13. line \in W
  <2>1. strip_comment(lines[s + e]) \in W
    <3> HIDE DEF e
    <3>1. QED
      BY <1>1, <1>2
  <2>2. s + e = m + 1
    BY <1>1
  <2>3. QED
    BY <2>1, <2>2
<1> DEFINE old == FlattenSeq(f)
<1> HIDE DEF f, g, Said, line, old
<1>14. old \o << >> = old /\ old \o <<line>> = Append(old, line)
  <2>1. old \in Seq(W)
    BY <1>12 DEF old
  <2>2. QED
    BY <1>13, <2>1, ConcatEmptySeq, AppendIsConcat
<1>15. FlattenSeq(g) = IF line = << >> THEN old ELSE Append(old, line)
  BY <1>9, <1>11, <1>14 DEF old
<1>16. QED
  BY <1>5, <1>6, <1>12, <1>15 DEF line, old, W

LEMMA WrittenNone ==
  ASSUME NEW lines, NEW s \in Nat
  PROVE  Written(lines, s, s) = << >>
<1> DEFINE Said(k) == IF strip_comment(lines[s + k]) = << >> THEN << >> ELSE <<strip_comment(lines[s + k])>>
<1>1. Written(lines, s, s) = FlattenSeq([k \in 1 .. s - s |-> Said(k)])
  BY DEF Written
<1>2. 1 .. s - s = {}
  OBVIOUS
<1> HIDE DEF Said
<1>3. [k \in 1 .. s - s |-> Said(k)] = << >>
  BY <1>2
<1>4. QED
  BY <1>1, <1>3, FlattenEmpty

(* A block ends at the first line that is back at level 0.                 *)
LEMMA EndIs ==
  ASSUME NEW lines \in Seq(Seq(Words)), NEW s \in Nat, NEW m \in s + 1 .. Len(lines),
         LevelOf(lines)[m] = 0, \A k \in s .. m - 1 : LevelOf(lines)[k] > 0
  PROVE  Ends(lines, s) = m
<1> DEFINE level == LevelOf(lines)
<1>1. Ends(lines, s) =
        CHOOSE n \in s + 1 .. Len(lines) : level[n] = 0 /\ \A k \in s .. n - 1 : level[k] > 0
  BY DEF Ends
<1>2. Len(lines) \in Nat /\ level \in [0 .. Len(lines) -> Int]
  BY Levels
<1> HIDE DEF level
<1>3. level[m] = 0 /\ \A k \in s .. m - 1 : level[k] > 0
  BY DEF level
<1>4. ASSUME NEW n \in s + 1 .. Len(lines), level[n] = 0, \A k \in s .. n - 1 : level[k] > 0
      PROVE  n = m
  <2>1. n < m => n \in s .. m - 1
    BY <1>2
  <2>2. m < n => m \in s .. n - 1
    BY <1>2
  <2>3. ~ (n < m) /\ ~ (m < n)
    <3>1. ~ (0 > 0)
      OBVIOUS
    <3>2. QED
      BY <1>3, <1>4, <2>1, <2>2, <3>1
  <2>4. QED
    BY <1>2, <2>3
<1>5. QED
  BY <1>1, <1>3, <1>4

-----------------------------------------------------------------------------
(* In a well laid out file the reader has the blocks of the lines it has   *)
(* passed, and of the block it is in what is written since its first line; *)
(* the line that closes a block is not part of it.                         *)
Nested ==
  pc \in {"scan", "body"} /\ WellLaidOut(Lines) =>
    LET level == LevelOf(Lines) IN
    /\ pc = "scan" => level[at - 1] = 0 /\ blocks = Outline(Lines, at - 1)
    /\ pc = "body" =>
         /\ depth = level[at - 1]
         /\ \E s \in Starts(Lines, at - 1) :
              /\ blocks = Outline(Lines, s - 1)
              /\ open = [kind |-> strip_comment(Lines[s])[1], name |-> strip_comment(Lines[s])[2],
                         body |-> Written(Lines, s, IF depth = 0 THEN at - 2 ELSE at - 1)]
              /\ \A k \in s .. at - 2 : level[k] > 0

(* What a well laid out file says of its levels.                           *)
LEMMA LaidOut ==
  ASSUME Types, pc \in {"scan", "body"}, WellLaidOut(Lines)
  PROVE  /\ Lines \in Seq(Seq(Words)) /\ Len(Lines) \in Nat /\ at \in 1 .. Len(Lines) + 1
         /\ LevelOf(Lines) \in [0 .. Len(Lines) -> Nat]
         /\ LevelOf(Lines)[0] = 0 /\ LevelOf(Lines)[Len(Lines)] = 0
         /\ at <= Len(Lines) =>
              /\ at \in 1 .. Len(Lines) /\ Line \in Seq(Words) /\ Line = strip_comment(Lines[at])
              /\ LevelOf(Lines)[at] = LevelOf(Lines)[at - 1] + Braces(Line)
              /\ LevelOf(Lines)[at - 1] = 0 /\ Contains(Line, OpenBrace) =>
                   Find(OpenBrace, Line) = Len(Line) /\ Len(Line) > 2 /\ LevelOf(Lines)[at] = 1
<1> DEFINE level == LevelOf(Lines)
<1>1. Lines \in Seq(Seq(Words))
  BY DirectoriesFit DEF Types, Lines
<1>2. /\ Len(Lines) \in Nat /\ at \in 1 .. Len(Lines) + 1
      /\ at <= Len(Lines) => at \in 1 .. Len(Lines) /\ Line \in Seq(Words)
  BY Reading
<1>3. /\ level \in [0 .. Len(Lines) -> Int] /\ level[0] = 0
      /\ \A n \in 1 .. Len(Lines) : level[n] = level[n - 1] + Braces(strip_comment(Lines[n]))
  BY <1>1, Levels
<1>4. DOMAIN Lines = 1 .. Len(Lines)
  BY <1>1, LenProperties
<1> HIDE DEF level
<1>5. /\ \A n \in DOMAIN level : level[n] >= 0
      /\ level[Len(Lines)] = 0
      /\ \A n \in 1 .. Len(Lines) :
           level[n - 1] = 0 /\ Contains(strip_comment(Lines[n]), OpenBrace) =>
             /\ Find(OpenBrace, strip_comment(Lines[n])) = Len(strip_comment(Lines[n]))
             /\ Len(strip_comment(Lines[n])) > 2 /\ level[n] = 1
  BY <1>4 DEF WellLaidOut, level
<1>6. level \in [0 .. Len(Lines) -> Nat]
  <2>1. \A n \in 0 .. Len(Lines) : level[n] \in Nat
    BY <1>3, <1>5
  <2>2. QED
    BY <1>3, <2>1
<1>7. Line = strip_comment(Lines[at])
  BY DEF Line
<1>8. QED
  BY <1>1, <1>2, <1>3, <1>5, <1>6, <1>7 DEF level

LEMMA NestedInit == Init => Nested
BY DEF Init, Nested

LEMMA NestedNext == Types /\ Nested /\ [Next]_vars => Nested'
<1> SUFFICES ASSUME Types, Nested, [Next]_vars PROVE Nested'
  OBVIOUS
<1> DEFINE level == LevelOf(Lines)
           N == Len(Lines)
<1>1. ASSUME NEW f \in unread, NextEntry(f) PROVE Nested'
  <2>1. CASE dir[f].isa
    <3>1. pc' = "scan" /\ at' = 1 /\ blocks' = << >>
      BY <1>1, <2>1 DEF NextEntry
    <3>2. Lines' = dir[f].lines /\ dir[f].lines \in Seq(Seq(Words))
      <4>1. f \in DOMAIN dir /\ dir \in Directories
        BY DEF Types
      <4>2. QED
        BY <1>1, <2>1, <4>1, DirectoriesFit DEF NextEntry, Lines
    <3>3. LevelOf(dir[f].lines)[0] = 0
      BY <3>2, Levels
    <3>4. Outline(dir[f].lines, 0) = << >>
      BY OutlineNone
    <3>5. at' - 1 = 0
      BY <3>1
    <3>6. LevelOf(Lines')[at' - 1] = 0 /\ blocks' = Outline(Lines', at' - 1)
      BY <3>1, <3>2, <3>3, <3>4, <3>5
    <3>7. QED
      BY <3>1, <3>6 DEF Nested
  <2>2. CASE ~ dir[f].isa
    BY <1>1, <2>2 DEF NextEntry, Nested
  <2>3. QED
    BY <2>1, <2>2
<1>2. CASE SkipLine
  <2>1. /\ pc = "scan" /\ pc' = "scan" /\ at <= N /\ ~ Contains(Line, OpenBrace)
        /\ at' = at + 1 /\ UNCHANGED blocks /\ Lines' = Lines
    BY <1>2 DEF SkipLine, Lines
  <2> SUFFICES ASSUME WellLaidOut(Lines)
               PROVE  level[at' - 1] = 0 /\ blocks = Outline(Lines, at' - 1)
    BY <2>1 DEF Nested
  <2>2. /\ N \in Nat /\ at \in 1 .. N /\ Line \in Seq(Words) /\ level \in [0 .. N -> Nat]
        /\ level[at] = level[at - 1] + Braces(Line)
    BY <2>1, LaidOut
  <2>3. level[at - 1] = 0 /\ blocks = Outline(Lines, at - 1)
    BY <2>1 DEF Nested
  <2>4. Braces(Line) \in Int /\ Braces(Line) <= 0
    BY <2>1, <2>2, BracesAre
  <2>5. at' - 1 = at /\ at \in Nat \ {0}
    BY <2>1, <2>2
  <2> HIDE DEF level
  <2>6. level[at] = 0
    <3>1. at \in 0 .. N
      BY <2>2
    <3>2. level[at] \in Nat
      BY <2>2, <3>1
    <3>3. QED
      BY <2>2, <2>3, <2>4, <3>2
  <2>7. at \notin Starts(Lines, at)
    BY <2>6 DEF Starts, level
  <2>8. QED
    BY <2>3, <2>5, <2>6, <2>7, OutlineSame
<1>3. CASE OpenBlock
  <2> DEFINE tail == After(Line, Find(OpenBrace, Line))
  <2>1. /\ pc = "scan" /\ pc' = "body" /\ at <= N /\ Contains(Line, OpenBrace)
        /\ at' = at + 1 /\ depth' = 1 /\ UNCHANGED blocks /\ Lines' = Lines
        /\ open' = [kind |-> Header[1], name |-> Header[2],
                    body |-> IF tail = << >> THEN << >> ELSE <<tail>>]
    BY <1>3 DEF OpenBlock, Lines
  <2> SUFFICES ASSUME WellLaidOut(Lines)
               PROVE  /\ depth' = level[at' - 1]
                      /\ \E s \in Starts(Lines, at' - 1) :
                           /\ blocks = Outline(Lines, s - 1)
                           /\ open' = [kind |-> strip_comment(Lines[s])[1], name |-> strip_comment(Lines[s])[2],
                                       body |-> Written(Lines, s, IF depth' = 0 THEN at' - 2 ELSE at' - 1)]
                           /\ \A k \in s .. at' - 2 : level[k] > 0
    BY <2>1 DEF Nested
  <2>2. level[at - 1] = 0 /\ blocks = Outline(Lines, at - 1)
    BY <2>1 DEF Nested
  <2>3. /\ N \in Nat /\ at \in 1 .. N /\ Line \in Seq(Words) /\ Line = strip_comment(Lines[at])
        /\ Find(OpenBrace, Line) = Len(Line) /\ Len(Line) > 2 /\ level[at] = 1
    BY <2>1, <2>2, LaidOut
  <2>4. at' - 1 = at /\ at' - 2 = at - 1 /\ at \in Nat /\ at .. at - 1 = {} /\ at \in 1 .. at
    BY <2>1, <2>3
  <2>5. Header[1] = Line[1] /\ Header[2] = Line[2] /\ tail = << >>
    <3>1. /\ \A k \in 1 .. Find(OpenBrace, Line) - 1 : Header[k] = Line[k]
          /\ tail = << >>
      BY <2>1, <2>3, HeaderIs DEF Header
    <3>2. Len(Line) \in Nat
      BY <2>3, LenProperties
    <3>3. 1 \in 1 .. Find(OpenBrace, Line) - 1 /\ 2 \in 1 .. Find(OpenBrace, Line) - 1
      BY <2>3, <3>2
    <3>4. QED
      BY <3>1, <3>3
  <2>6. open' = [kind |-> strip_comment(Lines[at])[1], name |-> strip_comment(Lines[at])[2],
                 body |-> Written(Lines, at, at)]
    <3>1. Written(Lines, at, at) = << >>
      BY <2>4, WrittenNone
    <3>2. QED
      BY <2>1, <2>3, <2>5, <3>1
  <2>7. (IF depth' = 0 THEN at' - 2 ELSE at' - 1) = at
    BY <2>1, <2>4
  <2>8. at \in Starts(Lines, at)
    BY <2>2, <2>3, <2>4 DEF Starts
  <2>9. depth' = level[at]
    BY <2>1, <2>3
  <2> HIDE DEF level
  <2>10. QED
    BY <2>2, <2>4, <2>6, <2>7, <2>8, <2>9
<1>4. CASE BodyLine
  <2>1. /\ pc = "body" /\ pc' = "body" /\ at <= N /\ depth > 0
        /\ at' = at + 1 /\ depth' = depth + Braces(Line) /\ UNCHANGED blocks /\ Lines' = Lines
        /\ open' = IF depth' > 0 /\ Line # << >> THEN [open EXCEPT !.body = Append(@, Line)] ELSE open
    BY <1>4 DEF BodyLine, Lines
  <2> SUFFICES ASSUME WellLaidOut(Lines)
               PROVE  /\ depth' = level[at' - 1]
                      /\ \E s \in Starts(Lines, at' - 1) :
                           /\ blocks = Outline(Lines, s - 1)
                           /\ open' = [kind |-> strip_comment(Lines[s])[1], name |-> strip_comment(Lines[s])[2],
                                       body |-> Written(Lines, s, IF depth' = 0 THEN at' - 2 ELSE at' - 1)]
                           /\ \A k \in s .. at' - 2 : level[k] > 0
    BY <2>1 DEF Nested
  <2>2. depth = level[at - 1]
    BY <2>1 DEF Nested
  <2>3. PICK s \in Starts(Lines, at - 1) :
          /\ blocks = Outline(Lines, s - 1)
          /\ open = [kind |-> strip_comment(Lines[s])[1], name |-> strip_comment(Lines[s])[2],
                     body |-> Written(Lines, s, IF depth = 0 THEN at - 2 ELSE at - 1)]
          /\ \A k \in s .. at - 2 : level[k] > 0
    BY <2>1 DEF Nested
  <2>4. /\ N \in Nat /\ at \in 1 .. N /\ Line \in Seq(Words) /\ Line = strip_comment(Lines[at])
        /\ Lines \in Seq(Seq(Words))
        /\ level \in [0 .. N -> Nat] /\ level[at] = level[at - 1] + Braces(Line)
    BY <2>1, LaidOut
  <2>5. at' - 1 = at /\ at' - 2 = at - 1 /\ at - 1 \in Nat /\ (at - 1) + 1 = at /\ (at - 1) - 1 = at - 2
    <3>1. at \in Int /\ at >= 1
      BY <2>4
    <3>2. at' = at + 1
      BY <2>1
    <3>3. QED
      BY <3>1, <3>2
  <2>6. s \in 1 .. at - 1 /\ s \in Starts(Lines, at)
    <3>1. \A k \in 1 .. at - 1 : k \in 1 .. at
      BY <2>4
    <3>2. QED
      BY <2>3, <3>1 DEF Starts
  <2> HIDE DEF level
  <2>7. depth' = level[at]
    BY <2>1, <2>2, <2>4
  <2>8. \A k \in s .. at - 1 : level[k] > 0
    <3>1. \A k \in s .. at - 1 : k = at - 1 \/ k \in s .. at - 2
      BY <2>4, <2>6
    <3>2. level[at - 1] > 0
      BY <2>1, <2>2
    <3>3. QED
      BY <2>3, <3>1, <3>2
  <2> DEFINE w == Written(Lines, s, at - 1)
             kind == strip_comment(Lines[s])[1]
             name == strip_comment(Lines[s])[2]
  <2>9. open = [kind |-> kind, name |-> name, body |-> w]
    <3>1. depth # 0
      BY <2>1
    <3>2. QED
      BY <2>3, <3>1
  <2>10. Written(Lines, s, at) = IF Line = << >> THEN w ELSE Append(w, Line)
    <3> DEFINE m == at - 1
    <3>1. s \in Nat /\ m \in Nat /\ s <= m /\ m + 1 <= Len(Lines) /\ m + 1 = at
      BY <2>4, <2>6
    <3> HIDE DEF m
    <3>2. Written(Lines, s, m + 1) =
            IF strip_comment(Lines[m + 1]) = << >> THEN Written(Lines, s, m)
            ELSE Append(Written(Lines, s, m), strip_comment(Lines[m + 1]))
      BY <2>4, <3>1, WrittenMore
    <3>3. QED
      BY <2>4, <3>1, <3>2 DEF m
  <2> HIDE DEF w, kind, name
  <2>11. open' = [kind |-> kind, name |-> name,
                  body |-> Written(Lines, s, IF depth' = 0 THEN at - 1 ELSE at)]
    <3>1. level[at] \in Nat
      <4>1. at \in 0 .. N
        BY <2>4
      <4>2. QED
        BY <2>4, <4>1
    <3>2. CASE depth' = 0
      BY <2>1, <2>9, <3>2 DEF w
    <3>3. CASE depth' # 0
      <4>1. depth' > 0
        BY <2>7, <3>1, <3>3
      <4>2. open' = [kind |-> kind, name |-> name, body |-> IF Line = << >> THEN w ELSE Append(w, Line)]
        BY <2>1, <2>9, <4>1
      <4>3. QED
        BY <2>10, <3>3, <4>2
    <3>4. QED
      BY <3>2, <3>3
  <2>12. (IF depth' = 0 THEN at' - 2 ELSE at' - 1) = IF depth' = 0 THEN at - 1 ELSE at
    BY <2>5
  <2>13. QED
    BY <2>3, <2>5, <2>6, <2>7, <2>8, <2>11, <2>12 DEF kind, name
<1>5. CASE CloseBlock
  <2>1. /\ pc = "body" /\ pc' = "scan" /\ (at > N \/ depth <= 0)
        /\ UNCHANGED at /\ blocks' = Append(blocks, open) /\ Lines' = Lines
    BY <1>5 DEF CloseBlock, Lines
  <2> SUFFICES ASSUME WellLaidOut(Lines)
               PROVE  level[at - 1] = 0 /\ blocks' = Outline(Lines, at - 1)
    BY <2>1 DEF Nested
  <2>2. depth = level[at - 1]
    BY <2>1 DEF Nested
  <2>3. PICK s \in Starts(Lines, at - 1) :
          /\ blocks = Outline(Lines, s - 1)
          /\ open = [kind |-> strip_comment(Lines[s])[1], name |-> strip_comment(Lines[s])[2],
                     body |-> Written(Lines, s, IF depth = 0 THEN at - 2 ELSE at - 1)]
          /\ \A k \in s .. at - 2 : level[k] > 0
    BY <2>1 DEF Nested
  <2>4. /\ N \in Nat /\ at \in 1 .. N + 1 /\ Lines \in Seq(Seq(Words))
        /\ level \in [0 .. N -> Nat] /\ level[N] = 0
    BY <2>1, LaidOut
  <2>5. s \in 1 .. at - 1 /\ level[s] > 0
    BY <2>3 DEF Starts
  <2> DEFINE m == at - 1
  <2>6. m \in 1 .. N /\ m \in 0 .. N /\ m - 1 = at - 2 /\ s \in Nat
    BY <2>4, <2>5
  <2> HIDE DEF level
  <2>7. level[m] = 0 /\ depth = 0
    <3>1. level[m] \in Nat
      BY <2>4, <2>6
    <3>2. CASE at > N
      <4>1. m = N
        BY <2>4, <3>2
      <4>2. QED
        BY <2>2, <2>4, <4>1
    <3>3. CASE depth <= 0
      BY <2>2, <3>1, <3>3
    <3>4. QED
      BY <2>1, <3>2, <3>3
  <2>8. m \in s + 1 .. N
    <3>1. s # m
      <4>1. ~ (0 > 0)
        OBVIOUS
      <4>2. QED
        BY <2>5, <2>7, <4>1
    <3>2. QED
      BY <2>4, <2>5, <2>6, <3>1
  <2>9. \A k \in s .. m - 1 : level[k] > 0
    BY <2>3, <2>6
  <2>10. Ends(Lines, s) = m
    <3> HIDE DEF m
    <3>1. QED
      BY <2>4, <2>6, <2>7, <2>8, <2>9, EndIs DEF level
  <2>11. open = BlockFrom(Lines, s)
    BY <2>3, <2>6, <2>7, <2>10 DEF BlockFrom
  <2>12. Outline(Lines, m) = Append(Outline(Lines, s - 1), BlockFrom(Lines, s))
    <3>1. s \in Starts(Lines, m)
      OBVIOUS
    <3> HIDE DEF m
    <3>2. QED
      BY <2>4, <2>6, <2>9, <3>1, OutlineMore DEF level
  <2>13. QED
    BY <2>1, <2>3, <2>7, <2>11, <2>12
<1>6. CASE RefuseHeader \/ EndFile \/ RefuseRegister \/ SortDocuments
  <2>1. pc' \notin {"scan", "body"}
    BY <1>6 DEF RefuseHeader, EndFile, RefuseRegister, SortDocuments, Throw
  <2>2. QED
    BY <2>1 DEF Nested
<1>7. CASE UNCHANGED vars
  <2>1. UNCHANGED <<pc, at, blocks, open, depth>> /\ Lines' = Lines
    BY <1>7 DEF vars, Lines
  <2>2. QED
    BY <2>1 DEF Nested
<1>8. QED
  BY <1>1, <1>2, <1>3, <1>4, <1>5, <1>6, <1>7 DEF Next, Return

(* When parse_blocks reaches the end of a file that is laid out as it      *)
(* expects, the blocks it has are those that the braces of the file        *)
(* enclose, with what is written in each, however long the file.           *)
THEOREM BlocksAsWritten == Spec => []BlocksNest
<1>1. Init => Types /\ Nested
  BY TypesInit, NestedInit
<1>2. (Types /\ Nested) /\ [Next]_vars => (Types /\ Nested)'
  BY TypesNext, NestedNext
<1>3. Types /\ Nested => BlocksNest
  <2> SUFFICES ASSUME Types, Nested, pc = "scan", at > Len(Lines), WellLaidOut(Lines)
               PROVE  blocks = Outline(Lines, Len(Lines))
    BY DEF BlocksNest
  <2>1. Len(Lines) \in Nat /\ at \in 1 .. Len(Lines) + 1
    BY Reading
  <2>2. at - 1 = Len(Lines)
    BY <2>1
  <2>3. blocks = Outline(Lines, at - 1)
    BY DEF Nested
  <2>4. QED
    BY <2>2, <2>3
<1>4. QED
  BY <1>1, <1>2, <1>3, PTL DEF Spec
=============================================================================
