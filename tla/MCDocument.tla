------------------------------ MODULE MCDocument ------------------------------
(***************************************************************************)
(* Documents for TLC: a schema with a version, a cardinality and a list;    *)
(* all short texts over a small alphabet, the texts that differ from a      *)
(* valid document in a token, in one or two values or by a member more, and *)
(* lexemes by themselves.                                                   *)
(***************************************************************************)
EXTENDS DocumentProperties

T(kind) == [kind |-> kind, units |-> <<>>, odd |-> "",
            number |-> [negative |-> FALSE, digits |-> <<1>>, fraction |-> <<>>, exponent |-> 0]]
S(units) == [T("string") EXCEPT !.units = units]
N(digits, fraction, exponent) ==
    [T("number") EXCEPT !.number = [negative |-> FALSE, digits |-> digits, fraction |-> fraction,
                                    exponent |-> exponent]]
Negative(token) == [token EXCEPT !.number.negative = TRUE]
Odd(kind, how) == [T(kind) EXCEPT !.odd = how]

LBrace == T("object-start")
RBrace == T("object-end")
LBracket == T("array-start")
RBracket == T("array-end")
Colon == T("colon")
Comma == T("comma")
A == S(<<"a">>)
B == S(<<"b">>)
C == S(<<"c">>)
X == S(<<"x">>)
One == N(<<1>>, <<>>, 0)
Half == N(<<0>>, <<5>>, 0)
Huge == N(<<6, 4>>, <<>>, 1)
\* Rounded to 1, to 0 and to infinity.
Rounded == {N(<<1>>, <<0, 1>>, 0), N(<<1>>, <<>>, -3), N(<<1>>, <<>>, 9)}

Long == S(<<"four", "four">>)

Record(fields) == [type |-> "record", fields |-> fields]
MCSchema ==
    [document |-> Record(<<"a">> :> "version" @@ <<"b">> :> "cardinality" @@ <<"c">> :> "list"),
     version |-> [type |-> "literal", kind |-> "number", expected |-> <<>>, min |-> 1],
     cardinality |-> [type |-> "cardinality", variants |-> (<<"a">> :> "many" @@ <<"b">> :> "single")],
     many |-> Record(<<"a">> :> "manyTag" @@ <<"b">> :> "min" @@ <<"c">> :> "max"),
     single |-> Record(<<"a">> :> "singleTag"),
     manyTag |-> [type |-> "literal", kind |-> "string", expected |-> <<"a">>, min |-> 0],
     singleTag |-> [type |-> "literal", kind |-> "string", expected |-> <<"b">>, min |-> 0],
     min |-> [type |-> "integer", min |-> 0, max |-> 2],
     max |-> [type |-> "integer", min |-> 1, max |-> 2],
     list |-> [type |-> "array", min |-> 0, max |-> 1, item |-> "name", limited |-> TRUE],
     name |-> [type |-> "identity", portable |-> TRUE, min |-> 3, max |-> 3]]
MCFieldOrder == <<<<"a">>, <<"b">>, <<"c">>>>
MCVersionField == <<"a">>
MCTagField == <<"a">>
MCMinField == <<"b">>
MCMaxField == <<"c">>
MCManyTag == <<"a">>
MCSafeDigits == <<6, 3>>

\* {"a": 1, "b": {"a": "a", "b": 1, "c": 1}, "c": ["a/a"]}
Template ==
    <<LBrace, A, Colon, One, Comma,
      B, Colon, LBrace, A, Colon, A, Comma, B, Colon, One, Comma, C, Colon, One, RBrace, Comma,
      C, Colon, LBracket, S(<<"a", "/", "a">>), RBracket, RBrace>>

Alphabet == {LBrace, RBrace, LBracket, RBracket, Colon, Comma, A, X, Half, T("invalid")}
Single(t) == [k \in DOMAIN t |-> {t[k]}]
Splice(t, k, n, s) == SubSeq(t, 1, k - 1) \o s \o SubSeq(t, k + n, Len(t))
\* Fragments that keep a text a document: numbers, fields and items.
Fragments == {<<{Half}>>, <<{Huge}>>, <<{Negative(N(<<0>>, <<>>, 0))}>>, <<{N(<<2>>, <<>>, 0)}>>,
              <<{LBracket}, {Half}, {Comma}, {Huge}, {RBracket}>>, <<{LBracket}, {Huge}, {RBracket}>>,
              <<{T("literal")}>>, <<Rounded>>,
              <<{S(<<"a", "/", "a", "a">>)}>>, <<{S(<<"high">>)}>>, <<{Long}>>,
              <<{S(<<"a", "/", "a">>)}, {Comma}, {S(<<"a", "/", "a">>)}>>,
              <<{LBrace}, {X}, {Colon}, {Half}, {Comma}, {X}, {Colon}, {Huge}, {RBrace}>>}
Numeric == {<<{Half}>>, <<{Huge}>>, <<{LBracket}, {Half}, {Comma}, {Huge}, {RBracket}>>}
Places == {p \in DOMAIN Template : Kind(View(Template), p) \in {"string", "number"}}
MembersMore ==
    {<<{Comma}, {X}, {Colon}, {LBracket}, {Half}, {Comma}, {LBrace}, {A}, {Colon}, {One}, {Comma},
       {A}, {Colon}, {Half}, {RBrace}, {RBracket}>>,
     <<{Comma}, {A, X}, {Colon}, {LBrace}, {A, X}, {Colon}, {Half}, {Comma}, {A, X}, {Colon}, {Huge}, {RBrace}>>,
     <<{Comma}, {B}, {Colon}, {LBrace}, {A}, {Colon}, {One}, {Comma}, {C, X}, {Colon}, {One}, {Comma}, {X},
       {Colon}, {One}, {RBrace}>>,
     <<{Comma}, {C}, {Colon}, {LBracket}, {LBrace}, {X}, {Colon}, {One}, {Comma}, {A, X}, {Colon}, {One}, {RBrace},
       {Comma}, {X}, {Comma}, {LBrace}, {X}, {Colon}, {Half}, {Comma}, {X}, {Colon}, {One}, {RBrace}, {RBracket}>>}
Closers == {p \in DOMAIN Template : Kind(View(Template), p) = "object-end"}

Numbers == {N(digits, fraction, exponent) :
               digits \in {<<0>>, <<1>>, <<9>>, <<6, 3>>, <<6, 4>>, <<1, 0, 0>>},
               fraction \in {<<>>, <<0>>, <<5>>, <<0, 1>>}, exponent \in {-3, -1, 0, 1, 2, 9}}
Units == {"a", "0", "-", "/", "high", "low", "two"}
Strings == {S(units) : units \in UNION {[1..n -> Units] : n \in 0..3} \cup [1..4 -> {"a", "-", "/", "four"}]}

MCScripts ==
    {[k \in 1..6 |-> Alphabet]}
    \cup {[Single(Template) EXCEPT ![p] = Alphabet] : p \in DOMAIN Template}
    \cup {Splice(Single(Template), p, 1, f) : p \in Places, f \in Fragments}
    \cup {Splice(Splice(Single(Template), q, 1, g), p, 1, f) :
             <<p, q>> \in {<<i, j>> \in Places \X Places : i < j}, f \in Numeric, g \in Numeric}
    \cup {Splice(Single(Template), p, 0, m) : p \in Closers, m \in MembersMore}
    \cup {<<Numbers \cup {Negative(n) : n \in Numbers}>>, <<Strings>>}

Flat(script) == [k \in DOMAIN script |-> CHOOSE token \in script[k] : TRUE]
Oddities == {T("invalid"), T("reference"), T("accessor"), Half, Long} \cup Rounded
Deep == <<LBracket, LBracket, LBracket, RBracket, RBracket, RBracket>>
Wide == <<LBracket, One, Comma, One, Comma, One, Comma, One, Comma, One, RBracket>>
MCObjectData ==
    {Template}
    \cup {Splice(Template, p, 1, <<o>>) : p \in {q \in Places : ~IsKeyAt(View(Template), q)}, o \in Oddities}
    \cup {Splice(Template, p, 1, s) : p \in {4, 11, 15, 19, 25}, s \in {Deep, Wide}}
    \cup {[Template EXCEPT ![p] = Odd(Kind(View(Template), p), how)] :
             p \in {q \in DOMAIN Template : Begins(Template[q])}, how \in {"prototype", "members"}}
    \cup {[Template EXCEPT ![1] = Odd("object-start", "members"), ![8] = Odd("object-start", "members"),
                           ![p] = T("invalid"), ![q] = T("invalid")] : p, q \in {4, 11, 15, 19, 25}}
    \cup {Splice([Template EXCEPT ![1] = Odd("object-start", "members"), ![p] = T("invalid")], 2, 0,
                 <<X, Colon, T("invalid"), Comma>>) : p \in {4, 11, 15, 19, 25}}
    \cup {Splice(Template, Len(Template), 0,
                 <<Comma, X, Colon, T("invalid"), Comma, S(<<"x", "x">>), Colon, o>>) : o \in Oddities}
=============================================================================
