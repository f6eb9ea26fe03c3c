------------------------------ MODULE MCParser ------------------------------
(***************************************************************************)
(* Parser on two kinds of input: files of every shape with one header row, *)
(* of up to five bytes pushed in pieces or up to six lent whole; and       *)
(* longer ones of few shapes, whose header has to be found.  A byte of the *)
(* mark is offered only at its place in the mark: anywhere else the code   *)
(* treats it as any other byte, which "x" stands for.                      *)
(***************************************************************************)
EXTENDS ParserReads

Pieces(alphabet, n) == UNION {[1 .. k -> alphabet] : k \in 1 .. n}

Marks == {<<"bom1">>, <<"bom1", "bom2">>, <<"bom2">>, <<"bom3">>, Bom}

Chunked ==
  [chunks |-> Pieces({"x", "delim", "quote", "cr", "lf", "space"}, 1)
                \cup Pieces({"quote", "cr", "lf"}, 2) \cup Marks \cup {<<>>},
   maxData |-> 6, maxRows |-> 2, maxColumns |-> 2, maxBytes |-> 5, headerRows |-> 1]

Headed ==
  [chunks |-> Pieces({"x", "delim", "cr"}, 2),
   maxData |-> 8, maxRows |-> 0, maxColumns |-> 0, maxBytes |-> 8, headerRows |-> HeaderAuto]

MCCases == <<Chunked, Headed>>
HeadedCases == <<Headed>>

\* Two columns of one name.
MCNames == <<<<"x">>, <<"x">>>>

=============================================================================
