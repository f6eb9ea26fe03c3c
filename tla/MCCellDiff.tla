----------------------------- MODULE MCCellDiff -----------------------------
(***************************************************************************)
(* CellDiff over families of small cells, each the inputs one part of the  *)
(* comparison turns on.                                                    *)
(***************************************************************************)
EXTENDS CellDiff

Strings(alphabet, n) == UNION {[1 .. k -> alphabet] : k \in 0 .. n}

Space == 32
LetterE == 101
LetterX == 120
LetterY == 121
UpperT == 84
LowerT == 116
One == 49
Five == 53

Plain(text) == [text |-> text, quoted |-> FALSE]

Default == [trim |-> TRUE, charIgnorePad |-> TRUE, numeric |-> TRUE, booleans |-> TRUE]

Col(type, size, scale) == [type |-> type, size |-> size, scale |-> scale, required |-> FALSE]

\* One column, and a question about its segments, or none.
Pairs(sources, targets, cols, opts, modes, maxBytes) ==
  [source : {<<a>> : a \in sources}, target : {<<b>> : b \in targets},
   cols : {<<col>> : col \in cols}, keys : {{}}, opts : opts,
   mode : modes, maxBytes : {maxBytes}]

AnyText == Col("VARCHAR", Undeclared, Undeclared)

\* Everything a digit, a point, a sign and an exponent can be put together to,
\* against values it may equal.
Numbers ==
  Pairs({Plain(a) : a \in
           {<<>>, <<Five>>, <<Zero>>, <<Zero, Point, Five>>, <<Minus, Five>>,
            <<Five, Zero>>, <<Plus, Five, Point, Zero>>}},
        {Plain(b) : b \in Strings({Zero, Five, Point, Minus, LetterE}, 4)},
        {Col("DECIMAL", 3, 1)}, {Default}, {"NONE"}, 0)

\* Texts the declared types read differently, under every type and option.
Worded ==
  {Plain(t) : t \in
     {<<>>, <<Space>>, <<LetterX>>, <<LetterX, Space>>, <<Space, LetterX>>, <<UpperT>>,
      <<LowerT>>, <<One, Space>>, <<Zero>>, <<Five, Point, Zero>>, <<Five, Point>>,
      <<LetterX, Point, Five, Zero>>}}
Typed ==
  Pairs(Worded, Worded, {Col(type, Undeclared, Undeclared) : type \in Types}, Options,
        {"NONE"}, 0)

\* Values with quotes, written quoted or, where that can be, bare.
Written(text) ==
  {[text |-> text, quoted |-> q] :
     q \in IF text = <<>> \/ text[1] = Quote THEN {TRUE} ELSE BOOLEAN}
Quotes == UNION {Written(t) : t \in Strings({LetterX, Quote}, 5)}
Escaped == Pairs(Quotes, Quotes, {AnyText}, {Default}, {"NONE"}, 0)

\* Rows of two cells, with any key.
Mixed ==
  {Plain(<<>>), Plain(<<LetterX>>), Plain(<<Space, LetterX>>), Plain(<<Five>>),
   Plain(<<Five, Point>>), [text |-> <<LetterX, Quote>>, quoted |-> TRUE],
   Plain(<<LetterX, Quote>>)}
TwoCells ==
  [source : Mixed \X Mixed, target : Mixed \X Mixed,
   cols : {<<Col("DECIMAL", 1, Undeclared), Col("VARCHAR", 1, Undeclared)>>},
   keys : SUBSET {1, 2}, opts : {Default}, mode : {"NONE"}, maxBytes : {0}]

\* Cells to find fault with, under columns to find it by.
Doubtful ==
  {<<>>, <<Space>>, <<LetterX>>, <<195, 169>>, <<LetterX, 195, 169>>, <<Five>>,
   <<Zero, Five>>, <<Five, Point, Five>>, <<Minus, Five, Point, Five>>, <<Five, Five>>,
   <<Zero, Point, Five>>, <<Five, LetterE, Five>>, <<Space, Five, Space>>,
   <<Five, Zero, Zero>>, <<LetterX, Quote>>,
   <<LetterX, Quote, Quote>>}
Declared ==
  [type : {"VARCHAR", "CHAR", "DECIMAL", "INTEGER"}, size : {Undeclared, 1, 2},
   scale : {Undeclared, 1, 2}, required : BOOLEAN]
Checked ==
  Pairs({Plain(<<Five>>)}, [text : Doubtful, quoted : BOOLEAN], Declared,
        {[Default EXCEPT !.trim = trim] : trim \in BOOLEAN}, {"NONE"}, 0)

\* Values to highlight, of words and of characters of one byte or two.
Spans(texts, maxBytes) ==
  Pairs({Plain(t) : t \in texts}, {Plain(t) : t \in texts}, {AnyText}, {Default},
        Modes, maxBytes)
Words == Strings({LetterX, LetterY, Space}, 4)
Letters == {<<LetterX>>, <<Space>>, <<195, 168>>, <<195, 169>>}
Mixtures == {<<>>} \cup {p \o q \o r : p, q, r \in Letters \cup {<<>>}}

AllCases ==
  <<Numbers, Typed, Escaped, TwoCells, Checked, Spans(Words, 0), Spans(Mixtures, 0),
    Spans(Strings({LetterX, Space}, 3), 2)>>

\* Only the rows the digests are computed of, and only those checked.
EscapedCases == <<Escaped>>
CheckedCases == <<Checked>>

Truths == {<<UpperT>>, <<One>>}
Falsehoods == {<<70>>, <<Zero>>}

=============================================================================
