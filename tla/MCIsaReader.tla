----------------------------- MODULE MCIsaReader ----------------------------
(***************************************************************************)
(* One file of up to six lines, well laid out or not, or a directory of    *)
(* three whose listing order is free.                                      *)
(***************************************************************************)
EXTENDS IsaReader

Opening == {<<"op", "add", "{">>, <<"flags", "F", "{">>, <<"regclass", "G", "{">>, <<"alias", "A", "{">>}
Between == {<<"k", "=", "{", "v", "}", ";">>, <<"r", "(w)", ",", "s">>, <<"alias", "x", "=", "y", ";">>}
Closing == {<<"}">>, <<"z", "}">>}
Odd == {<< >>, <<"op", "{">>, <<"flags", "F", "{", "c", "}">>, <<"//", "{">>, <<"n", "{">>}

AnyLine == Opening \cup Between \cup Closing \cup Odd
OneFile(lines) == [f \in {1} |-> [isa |-> TRUE, lines |-> lines]]

Arch(name) == <<<<"arch", name, "{">>, <<"word", "=", "1", ";">>, <<"word", "=", "2", ";">>, <<"}">>>>
Encoding == <<<<"encoding", "E", "{">>, <<"modrm", ":", "8", ";">>, <<"}">>>>
Malformed == <<<<"regclass", "G", "{">>, <<"r", ",", "s">>, <<"}">>>>
Contents == {Arch("a"), Arch("b"), Encoding, Malformed, Arch("a") \o Arch("b")}

OneOrThree ==
  {OneFile(lines) : lines \in UNION {[1 .. n -> AnyLine] : n \in 0 .. 3}}
  \cup {OneFile(<<first, second, third, last>>) :
          first \in Opening, second \in AnyLine, third \in AnyLine, last \in AnyLine}
  \cup {OneFile(<<first, second, third, <<"}">>, last, <<"}">>>>) :
          first \in Opening, second \in AnyLine, third \in AnyLine, last \in Opening}
  \cup {[f \in 1 .. 3 |-> [isa |-> f # 2 \/ isa, lines |-> contents[f]]] :
          contents \in [1 .. 3 -> Contents], isa \in BOOLEAN}
=============================================================================
