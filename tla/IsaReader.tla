------------------------------ MODULE IsaReader ------------------------------
(***************************************************************************)
(* src/codegen/codegen.cpp: instruction set descriptions.  A directory is  *)
(* read file by file, a file line by line.  A line is the sequence of its  *)
(* words; braces, separators and the comment mark are words of their own.  *)
(* A parenthesised width, "(w)" here, is one word as well.                 *)
(***************************************************************************)
EXTENDS Integers, Sequences, FiniteSets, SequencesExt, Orders

NoWord == ""
OpenBrace == "{"
CloseBrace == "}"
Words == STRING \ {NoWord}

CONSTANT Directories   \* each a function from file names, which are numbers in
                       \* the order std::sort gives them, to [isa, lines]
ASSUME DirectoriesFit ==
  \A d \in Directories :
    /\ DOMAIN d \in SUBSET Nat /\ IsFiniteSet(DOMAIN d)
    /\ \A f \in DOMAIN d : d[f].isa \in BOOLEAN /\ d[f].lines \in Seq(Seq(Words))

VARIABLES dir, unread, \* the directory, and what its iterator has yet to give
          file, at,    \* the file being read and its next line
          blocks,      \* parse_blocks: the blocks closed so far
          open, depth, \* the block being read and the braces open in it
          documents,   \* bundle::documents, each with the name of its file
          pc
vars == <<dir, unread, file, at, blocks, open, depth, documents, pc>>

NoBlock == [kind |-> NoWord, name |-> NoWord, body |-> << >>]
NoArch == [name |-> NoWord, properties |-> << >>]

Count(word, line) == Cardinality({k \in DOMAIN line : line[k] = word})
(* The position of a word, 0 when it does not occur.                       *)
Find(word, line) ==
  IF Contains(line, word) THEN CHOOSE k \in DOMAIN line : line[k] = word /\ \A j \in 1 .. k - 1 : line[j] # word
  ELSE 0
Before(line, k) == SubSeq(line, 1, k - 1)
After(line, k) == SubSeq(line, k + 1, Len(line))

strip_comment(line) ==
  IF line # << >> /\ line[1] = "#" THEN << >>
  ELSE IF Contains(line, "//") THEN Before(line, Find("//", line)) ELSE line
Braces(line) == Count(OpenBrace, line) - Count(CloseBrace, line)

Lines == dir[file].lines
Line == strip_comment(Lines[at])

(* split_entries of a collapsed body: "," and ";" separate entries, the    *)
(* ends of lines do not, and empty entries are dropped.                    *)
split_entries(body) ==
  LET Step(acc, word) ==
        IF word \in {",", ";"} THEN [parts |-> Append(acc.parts, acc.current), current |-> << >>]
        ELSE [acc EXCEPT !.current = Append(@, word)]
      last == FoldLeft(Step, [parts |-> << >>, current |-> << >>], FlattenSeq(body))
  IN  SelectSeq(Append(last.parts, last.current), LAMBDA part : part # << >>)

Unended(line) == IF line # << >> /\ Last(line) = ";" THEN Front(line) ELSE line
split_once(words) ==
  LET k == Find("=", words) IN
  IF k = 0 THEN <<words, << >> >> ELSE <<Before(words, k), After(words, k)>>
(* Pairs without two sides are skipped.                                    *)
Aliases(pairs) == SelectSeq(pairs, LAMBDA p : p[1] # << >> /\ p[2] # << >>)

(* One statement a line, "key = value"; a later one replaces an earlier.   *)
Properties(body) ==
  LET pairs == [k \in DOMAIN body |-> split_once(Unended(body[k]))]
      Later(key) == CHOOSE k \in DOMAIN pairs :
                      /\ pairs[k][1] = key
                      /\ \A j \in k + 1 .. Len(pairs) : pairs[j][1] # key
  IN  [key \in {pairs[k][1] : k \in DOMAIN pairs} |-> pairs[Later(key)][2]]

(* The fields of an encoding, one a line.                                  *)
Fields(body) == [k \in DOMAIN body |-> Unended(body[k])]

OfKind(bs, kind) == SelectSeq(bs, LAMBDA b : b.kind = kind)
Named(bs, Content(_)) == [k \in DOMAIN bs |-> [name |-> bs[k].name, content |-> Content(bs[k].body)]]

(* A register needs a width in parentheses.                                *)
ReadableRegisters(bs) ==
  \A b \in ToSet(OfKind(bs, "regclass")) :
    \A entry \in ToSet(split_entries(b.body)) : Contains(entry, "(w)")

(* What parse_isa_file makes of blocks and lines: the last arch block      *)
(* counts; the lines that begin with "alias" are read again, wherever they *)
(* stand.                                                                  *)
Document(bs, lines) ==
  LET archs == OfKind(bs, "arch")
      inBlocks == FlattenSeq([k \in DOMAIN OfKind(bs, "alias") |->
                     LET entries == split_entries(OfKind(bs, "alias")[k].body) IN
                     [j \in DOMAIN entries |-> split_once(entries[j])]])
      bare == SelectSeq([k \in DOMAIN lines |-> strip_comment(lines[k])],
                        LAMBDA l : Len(l) > 1 /\ l[1] = "alias")
      onLines == [k \in DOMAIN bare |-> split_once(Unended(Tail(bare[k])))]
  IN  [architecture |-> IF archs = << >> THEN NoArch
                        ELSE [name |-> Last(archs).name, properties |-> Properties(Last(archs).body)],
       regclasses |-> Named(OfKind(bs, "regclass"), split_entries),
       aliases    |-> Aliases(inBlocks) \o Aliases(onLines),
       flags      |-> Named(OfKind(bs, "flags"), split_entries),
       encodings  |-> Named(OfKind(bs, "encoding"), Fields),
       operations |-> Named(OfKind(bs, "op"), Properties)]

-----------------------------------------------------------------------------
Init ==
  /\ dir \in Directories
  /\ unread = DOMAIN dir
  /\ file = 0 /\ at = 1 /\ blocks = << >>
  /\ open = NoBlock /\ depth = 0
  /\ documents = << >>
  /\ pc = "list"

(* Variant: a file is read from where the last one ended.                   *)
NextEntryKeepsPlace(f) ==
  /\ pc = "list" /\ f \in unread
  /\ unread' = unread \ {f}
  /\ IF dir[f].isa THEN pc' = "scan" /\ file' = f /\ blocks' = << >> ELSE UNCHANGED <<pc, file, blocks>>
  /\ UNCHANGED <<dir, at, open, depth, documents>>

(* The directory iterator gives its entries in any order; what is not a    *)
(* regular file named .isa is passed over.                                 *)
NextEntry(f) ==
  /\ pc = "list" /\ f \in unread
  /\ unread' = unread \ {f}
  /\ IF dir[f].isa THEN pc' = "scan" /\ file' = f /\ at' = 1 /\ blocks' = << >>
     ELSE UNCHANGED <<pc, file, at, blocks>>
  /\ UNCHANGED <<dir, open, depth, documents>>

SkipLine ==
  /\ pc = "scan" /\ at <= Len(Lines)
  /\ ~ Contains(Line, OpenBrace)
  /\ at' = at + 1
  /\ UNCHANGED <<dir, unread, file, blocks, open, depth, documents, pc>>

(* The words before the first brace are the kind, the name and others that *)
(* are ignored; the words after it begin the body, braces included, and    *)
(* are not counted.                                                        *)
Header == Before(Line, Find(OpenBrace, Line))
OpenBlock ==
  /\ pc = "scan" /\ at <= Len(Lines)
  /\ Contains(Line, OpenBrace) /\ Len(Header) >= 2
  /\ LET tail == After(Line, Find(OpenBrace, Line)) IN
     open' = [kind |-> Header[1], name |-> Header[2],
              body |-> IF tail = << >> THEN << >> ELSE <<tail>>]
  /\ depth' = 1 /\ at' = at + 1 /\ pc' = "body"
  /\ UNCHANGED <<dir, unread, file, blocks, documents>>

(* An exception leaves load_isa_directory with what it had read.           *)
Throw ==
  /\ pc' = "thrown" /\ documents' = << >>
  /\ UNCHANGED <<dir, unread, file, at, blocks, open, depth>>

RefuseHeader ==
  /\ pc = "scan" /\ at <= Len(Lines)
  /\ Contains(Line, OpenBrace) /\ Len(Header) < 2
  /\ Throw

(* Variant: the first closing brace ends the block.                        *)
BodyLineFirstBrace ==
  /\ pc = "body" /\ at <= Len(Lines) /\ depth > 0
  /\ depth' = IF Contains(Line, CloseBrace) THEN 0 ELSE depth + Braces(Line)
  /\ open' = IF depth' > 0 /\ Line # << >> THEN [open EXCEPT !.body = Append(@, Line)] ELSE open
  /\ at' = at + 1
  /\ UNCHANGED <<dir, unread, file, blocks, documents, pc>>

(* A brace ends the block wherever it stands on its line, and the line is  *)
(* then left out of the body.                                              *)
BodyLine ==
  /\ pc = "body" /\ at <= Len(Lines) /\ depth > 0
  /\ depth' = depth + Braces(Line)
  /\ open' = IF depth' > 0 /\ Line # << >> THEN [open EXCEPT !.body = Append(@, Line)] ELSE open
  /\ at' = at + 1
  /\ UNCHANGED <<dir, unread, file, blocks, documents, pc>>

CloseBlock ==
  /\ pc = "body" /\ (at > Len(Lines) \/ depth <= 0)
  /\ blocks' = Append(blocks, open)
  /\ open' = NoBlock /\ depth' = 0 /\ pc' = "scan"
  /\ UNCHANGED <<dir, unread, file, at, documents>>

EndFile ==
  /\ pc = "scan" /\ at > Len(Lines)
  /\ ReadableRegisters(blocks)
  /\ documents' = Append(documents, [name |-> file, doc |-> Document(blocks, Lines)])
  /\ pc' = "list"
  /\ UNCHANGED <<dir, unread, file, at, blocks, open, depth>>

RefuseRegister ==
  /\ pc = "scan" /\ at > Len(Lines)
  /\ ~ ReadableRegisters(blocks)
  /\ Throw

(* std::sort, for documents of which no two have one name.                 *)
ByName(docs) ==
  LET names == Ascending({docs[k].name : k \in DOMAIN docs}) IN
  [k \in DOMAIN names |-> CHOOSE d \in ToSet(docs) : d.name = names[k]]

(* Variant: the documents stay in the order the directory gave them.       *)
SortNothing ==
  /\ pc = "list" /\ unread = {}
  /\ pc' = "loaded"
  /\ UNCHANGED <<dir, unread, file, at, blocks, open, depth, documents>>

SortDocuments ==
  /\ pc = "list" /\ unread = {}
  /\ documents' = ByName(documents)
  /\ pc' = "loaded"
  /\ UNCHANGED <<dir, unread, file, at, blocks, open, depth>>

Return ==
  /\ pc \in {"loaded", "thrown"}
  /\ UNCHANGED vars

Next ==
  \/ \E f \in unread : NextEntry(f)
  \/ SkipLine \/ OpenBlock \/ RefuseHeader \/ BodyLine \/ CloseBlock
  \/ EndFile \/ RefuseRegister \/ SortDocuments \/ Return

Spec == Init /\ [][Next]_vars

(* bundle::find_architecture: the first document of that architecture.     *)
find_architecture(docs, arch) ==
  LET found == {k \in DOMAIN docs : docs[k].doc.architecture.name = arch} IN
  IF found = {} THEN 0 ELSE docs[CHOOSE k \in found : \A j \in found : k <= j].name
-----------------------------------------------------------------------------
(* How deep in braces a file is after each of its lines.                   *)
LevelOf(lines) ==
  LET level[n \in 0 .. Len(lines)] ==
        IF n = 0 THEN 0 ELSE level[n - 1] + Braces(strip_comment(lines[n]))
  IN  level

(* The layout the reader is written for: braces balance, a block's opening *)
(* brace ends its first line and is the only one there, and its closing    *)
(* brace has a line of its own.                                            *)
WellLaidOut(lines) ==
  LET level == LevelOf(lines) IN
  /\ \A n \in DOMAIN level : level[n] >= 0
  /\ level[Len(lines)] = 0
  /\ \A n \in DOMAIN lines :
       LET line == strip_comment(lines[n]) IN
       /\ level[n - 1] = 0 /\ Contains(line, OpenBrace) =>
            Find(OpenBrace, line) = Len(line) /\ Len(line) > 2 /\ level[n] = 1
       /\ level[n - 1] > 0 /\ level[n] = 0 => line = <<CloseBrace>>

(* The blocks of such a file by its levels alone: one from each line that  *)
(* leaves level 0 to the first that is back, with what is written between. *)
Starts(lines, m) ==
  LET level == LevelOf(lines) IN {n \in 1 .. m : level[n - 1] = 0 /\ level[n] > 0}
Ends(lines, n) ==
  LET level == LevelOf(lines) IN
  CHOOSE m \in n + 1 .. Len(lines) : level[m] = 0 /\ \A k \in n .. m - 1 : level[k] > 0
Written(lines, n, m) ==
  FlattenSeq([k \in 1 .. m - n |->
    LET line == strip_comment(lines[n + k]) IN IF line = << >> THEN << >> ELSE <<line>>])
BlockFrom(lines, n) ==
  [kind |-> strip_comment(lines[n])[1], name |-> strip_comment(lines[n])[2],
   body |-> Written(lines, n, Ends(lines, n) - 1)]
Outline(lines, m) ==
  LET first == Ascending(Starts(lines, m)) IN [k \in DOMAIN first |-> BlockFrom(lines, first[k])]

TypeOK ==
  /\ unread \subseteq DOMAIN dir
  /\ pc \in {"list", "scan", "body", "loaded", "thrown"}
  /\ pc \in {"scan", "body"} => file \in DOMAIN dir /\ at \in 1 .. Len(Lines) + 1
  /\ pc # "body" => (pc # "thrown" => open = NoBlock /\ depth = 0)
  /\ pc = "body" => at > 1 /\ open.kind # NoWord /\ open.name # NoWord
  /\ Len(documents) <= Cardinality(DOMAIN dir)

(* In a well laid out file the blocks read are the blocks written: nested  *)
(* braces belong to the block around them, comments to none, no line is in *)
(* two blocks, and what follows a block is not part of it.                 *)
BlocksNest ==
  pc = "scan" /\ at > Len(Lines) /\ WellLaidOut(Lines) => blocks = Outline(Lines, Len(Lines))

(* The bundle does not depend on the order the directory is listed in: the *)
(* documents are those of the .isa files by name, and the architecture     *)
(* found under a name is that of the first such file.                      *)
BundleInOrder ==
  pc = "loaded" =>
    /\ {documents[k].name : k \in DOMAIN documents} = {f \in DOMAIN dir : dir[f].isa}
    /\ \A j, k \in DOMAIN documents : j < k => documents[j].name < documents[k].name
    /\ \A k \in DOMAIN documents :
         LET arch == documents[k].doc.architecture.name IN
         arch # NoWord => /\ find_architecture(documents, arch) <= documents[k].name
                      /\ \E d \in ToSet(documents) : /\ d.name = find_architecture(documents, arch)
                                                     /\ d.doc.architecture.name = arch
=============================================================================
