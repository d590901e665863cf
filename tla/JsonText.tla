-------------------------------- MODULE JsonText -------------------------------
(***************************************************************************)
(* JSON text as a sequence of ASCII codes: the order of the keys of a        *)
(* document and the spelling of numbers.                                     *)
(*                                                                         *)
(* A finite double other than zero is [neg, digits, n]: its shortest         *)
(* round-tripping decimal digits, without leading or trailing zeros, and n   *)
(* such that its magnitude is 0.digits * 10^n.  Zero has no digits; whether  *)
(* it is negative is kept.                                                  *)
(***************************************************************************)
EXTENDS Integers, Sequences, SequencesExt, FiniteSets

\* Every key of a document that can be met here, in code point order.
KeyOrder == <<"edges", "entryNodeIds", "exitNodeIds", "graphs", "id", "interrupts", "joins",
              "kind", "name", "nodes", "source", "sources", "structure", "subgraphId",
              "target", "type", "x">>

\* The sequence s, which TLC evaluates once where it is written so.
Once(s) == s \o << >>

\* Items separated by commas.
Commas(items) ==
  FlattenSeq(Once([i \in DOMAIN items |-> IF i = 1 THEN items[i] ELSE <<44>> \o items[i]]))

JsonText(s) == <<34>> \o s \o <<34>>

ArrayText(items) == <<91>> \o Commas(items) \o <<93>>

\* The ranks of the keys of an object, in their order.
Ranks(keys) ==
  LET present == {i \in DOMAIN KeyOrder : KeyOrder[i] \in keys}
  IN  [n \in 1 .. Cardinality(present) |->
         CHOOSE i \in present : Cardinality({j \in present : j < i}) = n - 1]

\* An object with the texts of its values; a key is written as its rank.
ObjectText(fields) ==
  LET ranks == Ranks(DOMAIN fields)
  IN  <<123>> \o Commas([n \in DOMAIN ranks |->
                           <<34, ranks[n], 34, 58>> \o fields[KeyOrder[ranks[n]]]]) \o <<125>>

\* The items in their order, given how many precede each of them.
Ordered(items, places) ==
  Once([i \in DOMAIN items |-> items[CHOOSE k \in DOMAIN items : places[k] = i - 1]])

\* The digits of the largest double, which lies below 1e309.
LargestDigits == <<1, 7, 9, 7, 6, 9, 3, 1, 3, 4, 8, 6, 2, 3, 1, 5, 7>>

Zeros(m)      == [i \in 1 .. m |-> 0]
Ascii(digits) == [i \in DOMAIN digits |-> 48 + digits[i]]
Minus == 45
Plus  == 43
Dot   == 46
ExpE  == 101

\* The digits of an exponent, of which a double needs three at most, and back.
Decimal(m) ==
  IF m < 10 THEN <<m>>
  ELSE IF m < 100 THEN <<m \div 10, m % 10>>
  ELSE <<m \div 100, (m \div 10) % 10, m % 10>>

Natural(digits) ==
  LET k == Len(digits)
      place(i, weight) == IF i < 1 THEN 0 ELSE weight * digits[i]
  IN  place(k, 1) + place(k - 1, 10) + place(k - 2, 100)

Magnitude(m) == IF m < 0 THEN -m ELSE m

\* Decimal(repr(x)).as_tuple(): repr writes the digits in full from 1e-4 up to
\* 1e16, whole numbers with ".0", and with an exponent elsewhere.
ReprTuple(x) ==
  LET k == Len(x.digits) IN
  IF x.n \in k .. 16 THEN [digits |-> x.digits \o Zeros(x.n - k + 1), exponent |-> -1]
                     ELSE [digits |-> x.digits, exponent |-> x.n - k]

\* Mutant: the zeros are dropped and the exponent is left as it was.
StrippedOfZeros(t) ==
  LET last == CHOOSE i \in DOMAIN t.digits :
                /\ t.digits[i] # 0
                /\ \A j \in DOMAIN t.digits : j > i => t.digits[j] = 0
  IN  [digits |-> SubSeq(t.digits, 1, last), exponent |-> t.exponent]

\* digits.rstrip("0"), and the exponent that goes with it.
Stripped(t) ==
  LET last == CHOOSE i \in DOMAIN t.digits :
                /\ t.digits[i] # 0
                /\ \A j \in DOMAIN t.digits : j > i => t.digits[j] = 0
  IN  [digits |-> SubSeq(t.digits, 1, last), exponent |-> t.exponent + Len(t.digits) - last]

\* ECMA-262's layout of digits with the decimal point after n of them.
Body(digits, n) ==
  LET k == Len(digits) IN
  IF n \in k .. 21 THEN Ascii(digits \o Zeros(n - k))
  ELSE IF n \in 1 .. 21 THEN Ascii(SubSeq(digits, 1, n)) \o <<Dot>> \o Ascii(SubSeq(digits, n + 1, k))
  ELSE IF n \in -5 .. 0 THEN <<48, Dot>> \o Ascii(Zeros(-n) \o digits)
  ELSE Ascii(<<digits[1]>>) \o (IF k > 1 THEN <<Dot>> \o Ascii(Tail(digits)) ELSE << >>)
         \o <<ExpE, IF n > 0 THEN Plus ELSE Minus>> \o Ascii(Decimal(Magnitude(n - 1)))

FormatNumber(x) ==
  IF x.digits = << >> THEN <<48>>
  ELSE LET t == Stripped(ReprTuple(x))
       IN  (IF x.neg THEN <<Minus>> ELSE << >>)
             \o Body(t.digits, t.exponent + Len(t.digits))

\* repr(x), as json.dumps writes it in a sort key.
Repr(x) ==
  LET k    == Len(x.digits)
      sign == IF x.neg THEN <<Minus>> ELSE << >>
      pad(s) == IF Len(s) < 2 THEN <<0>> \o s ELSE s
  IN  sign \o
      (IF k = 0 THEN <<48, Dot, 48>>
       ELSE IF x.n \in k .. 16 THEN Ascii(x.digits \o Zeros(x.n - k)) \o <<Dot, 48>>
       ELSE IF x.n \in 1 .. 16 THEN Body(x.digits, x.n)
       ELSE IF x.n \in -3 .. 0 THEN <<48, Dot>> \o Ascii(Zeros(-x.n) \o x.digits)
       ELSE Ascii(<<x.digits[1]>>) \o (IF k > 1 THEN <<Dot>> \o Ascii(Tail(x.digits)) ELSE << >>)
              \o <<ExpE, IF x.n > 0 THEN Plus ELSE Minus>>
              \o Ascii(pad(Decimal(Magnitude(x.n - 1)))))

-------------------------------------------------------------------------------
\* What a JSON parser makes of a number's text.
Codes(text, lo, hi) == [i \in 1 .. (hi - lo + 1) |-> text[lo + i - 1] - 48]

ReadNumber(text) ==
  LET neg  == text[1] = Minus
      t    == IF neg THEN Tail(text) ELSE text
      e    == IF Contains(t, ExpE) THEN CHOOSE i \in DOMAIN t : t[i] = ExpE ELSE Len(t) + 1
      d    == IF Contains(t, Dot) THEN CHOOSE i \in DOMAIN t : t[i] = Dot ELSE e
      all  == Codes(t, 1, d - 1) \o (IF d < e THEN Codes(t, d + 1, e - 1) ELSE << >>)
      exp  == IF e > Len(t) THEN 0
              ELSE LET m == Natural(Codes(t, e + 2, Len(t)))
                   IN  IF t[e + 1] = Minus THEN -m ELSE m
      some == {i \in DOMAIN all : all[i] # 0}
      lo   == CHOOSE i \in some : \A j \in some : i <= j
      hi   == CHOOSE i \in some : \A j \in some : i >= j
  IN  IF some = {} THEN [neg |-> neg, digits |-> << >>, n |-> 0]
      ELSE [neg |-> neg, digits |-> SubSeq(all, lo, hi), n |-> d - lo + exp]

===============================================================================
