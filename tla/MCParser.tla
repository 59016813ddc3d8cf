------------------------------ MODULE MCParser ------------------------------
(* Sources for Parser: printed trees, every short sequence of words, and   *)
(* programs with one word wrong.                                           *)
EXTENDS Printing

MCValue == [t \in {"1", "2"} |-> IF t = "1" THEN 1 ELSE 2]

X == Ident("x")
Y == Ident("y")
One == Literal(1)
Do(e) == Block(<< >>, e)
Operators == UNION {Ladder[kind] : kind \in DOMAIN Ladder \ {"call"}} \cup {"="}

(* Trees of one construct over leaves, and of one construct over those.    *)
Small ==
  {Binary(o, X, One) : o \in Operators} \cup {Unary(o, X) : o \in {"-", "!", "&"}}
    \cup {If(X, Do(One), e) : e \in {Nil, Do(Y), Block(<<X>>, Y)}} \cup {If(X, Nil, Nil)}
    \cup {Let("x", One, Y), Lambda(<< >>, One), Lambda(<<"x", "y">>, X), Lambda(<<"x">>, Do(X)), X, Nil, Bool(TRUE),
         List(<< >>), List(<<X, One>>), Tuple(<<X, One>>), Tuple(<<X, Y, One>>),
         Record(<< >>), Record(<<<<"x", One>>>>), Record(<<<<"x", X>>, <<"y", One>>>>),
         Call(X, << >>), Call(X, <<One, Y>>)}
Over(e) ==
  UNION {{Binary(o, e, Y), Binary(o, Y, e)} : o \in Operators}
    \cup {Unary("-", e), If(e, Do(One), Do(Y)), If(X, Do(e), Nil), If(X, Nil, Block(<<e>>, Y)), If(X, Do(One), Block(<<Y>>, e)),
         Let("x", e, Y), Let("x", Y, e), Lambda(<<"x">>, e), Lambda(<<"x">>, Block(<<e>>, Y)), Lambda(<< >>, Do(e)),
         List(<<e>>), List(<<Y, e>>), Tuple(<<e, Y>>), Tuple(<<Y, e>>), Record(<<<<"x", e>>>>), Record(<<<<"y", X>>, <<"x", e>>>>),
         Call(X, <<e>>), Call(e, <<Y>>), Block(<<e>>, Y), Block(<<Y>>, e), Block(<<Y, e>>, X)}
    \cup (IF IsIf(e) THEN {If(Y, Do(One), e)} ELSE {})
Loose == {"=", "|>", "||", "&&", "==", "<", "+", "*"}
Both ==
  {Binary(o, l, r) : o \in Loose, l \in {Binary(p, X, One) : p \in Loose} \cup {Unary("!", X), Let("x", One, Y)},
                     r \in {Binary(p, Y, X) : p \in Loose} \cup {Unary("!", X), Let("x", One, Y)}}
Trees == Small \cup UNION {Over(e) : e \in Small} \cup Both

Alphabet == {"x", "1", "huge", "let", "in", "if", "then", "else", "fn", "type", "module", "=", "(", ")", "[", "]",
             "{", "}", ",", ";", ":", "->", "<", ">", "+", "-"}
Short == UNION {[1 .. n -> Alphabet] : n \in 0 .. 3}

Programs ==
  {<<"fn", "x", "(", "y", ":", "[", "x", "]", ")", "{", "y", ";", "1", "}", ";", "x">>,
   <<"fn", "x", "<", "y", ">", "(", ")", "->", "x", "=", "1", "type", "y", "=", "&", "x", ";", "1">>,
   <<"let", "x", "=", "1", "in", "if", "x", "{", "}", "else", "{", "y", "}">>,
   <<"module", "x", "fn", "y", "(", "x", ",", "y", ")", "=", "{", "x", ":", "1", ",", "y", "}">>,
   <<"x", "(", "1", ",", "y", ")", ";", "[", "(", "x", ")", ",", "-", "1", "]">>}
Misprints(s) ==
  UNION {{SubSeq(s, 1, i - 1) \o SubSeq(s, i + 1, Len(s))}
           \cup {SubSeq(s, 1, i - 1) \o <<w>> \o SubSeq(s, i, Len(s)) : w \in Alphabet}
           \cup {SubSeq(s, 1, i - 1) \o <<w>> \o SubSeq(s, i + 1, Len(s)) : w \in Alphabet} : i \in DOMAIN s}

MCSources ==
  {<<Program(e), e>> : e \in Trees}
    \cup {<<s, Null>> : s \in Short \cup Programs \cup UNION {Misprints(s) : s \in Programs}}
=============================================================================
