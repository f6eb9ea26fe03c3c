------------------------------ MODULE Findings ------------------------------
(***************************************************************************)
(* The validation findings of core/src/validate.c: what a cell is measured *)
(* against, from the declared column, and what it is found to be.          *)
(***************************************************************************)
EXTENDS Values

\* A declared column: size and scale are -1 when the type cell names none.
Undeclared == -1

\* ibha_validate_plan: the checks a column's cells are worth.
Checks(col) ==
  {c \in {"required", "length", "numeric"} :
     \/ c = "required" /\ col.required
     \/ c = "length" /\ col.type \in {"VARCHAR", "CHAR"} /\ col.size > 0
     \/ c = "numeric" /\ col.type \in Numeric}

\* Mutant: the two bytes of a "" pair are two characters.
CharCountRaw(f) == Cardinality({i \in DOMAIN f.raw : f.raw[i] \notin 128 .. 191})

\* char_count: lead bytes of the logical value, not bytes of the range.
CharCount(f) ==
  LET from[i \in 1 .. Len(f.raw) + 1] ==
        IF i > Len(f.raw) THEN 0
        ELSE (IF f.raw[i] \in 128 .. 191 THEN 0 ELSE 1) + from[Onward(f, i)]
  IN  from[1]

\* digit_counts: the digits of a canonical form before and after its point.
DigitCounts(canon) ==
  LET digits == {i \in DOMAIN canon : IsDigit(canon[i])}
      fracs == {i \in digits : \E j \in 1 .. i : canon[j] = Point}
  IN  [ints |-> Cardinality(digits \ fracs), fracs |-> Cardinality(fracs)]

\* SQL's rule: of p digits s are fractional; an INTEGER has no fraction at all.
BadPrecision(digits, col) ==
  IF col.type = "INTEGER"
  THEN digits.fracs > 0 \/ (col.size > 0 /\ digits.ints > col.size)
  ELSE /\ col.size > 0
       /\ LET s == IF col.scale > 0 THEN col.scale ELSE 0
          IN  digits.fracs > s \/ (s <= col.size /\ digits.ints > col.size - s)

\* The findings of trimmed bytes that are not empty, from their canonical form.
Found(v, checks, canon, col) ==
  {x \in {"TOO_LONG", "NOT_NUMERIC", "PRECISION"} :
     \/ x = "TOO_LONG" /\ "length" \in checks /\ CharCount(v) > col.size
     \/ x = "NOT_NUMERIC" /\ "numeric" \in checks /\ canon = Declined
     \/ /\ x = "PRECISION" /\ "numeric" \in checks /\ canon # Declined
        /\ BadPrecision(DigitCounts(canon), col)}

CheckTrimmed(v, checks, col) ==
  IF v.raw # <<>>
  THEN Found(v, checks, IF v.esc THEN Declined ELSE CanonicalDecimal(v.raw), col)
  ELSE IF "required" \in checks THEN {"REQUIRED_EMPTY"} ELSE {}

\* check_cell: the findings of one cell of a row that carries it.
CheckCell(f, col, o) ==
  CheckTrimmed([raw |-> Trimmed(f.raw, o.trim, o.trim), esc |-> f.esc], Checks(col), col)

=============================================================================
