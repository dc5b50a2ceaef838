------------------------------- MODULE Answers -----------------------------
(***************************************************************************)
(* The canonical form of crates/bench-driver/src/answer.rs and what it is  *)
(* hashed to by crates/bench-workload/src/digest.rs.  A text is a sequence *)
(* of characters.  A count of microseconds is a pair of whole seconds and  *)
(* the microseconds past them, and a finite float is mantissa * 10^power,  *)
(* mantissas and powers being as small as TLC's integers need them.        *)
(***************************************************************************)
EXTENDS Integers, SequencesExt

\* The characters of the canonical form and of the texts in it, in byte order.
Alphabet ==
  <<"\t", "\n", "\r", " ", "-", ".", "0", "1", "2", "3", "4", "5", "6", "7", "8", "9", ":",
    "I", "N", "\\", "a", "e", "f", "i", "l", "n", "r", "s", "t", "u", "y">>
Letters == Range(Alphabet)
Code(c) == CHOOSE i \in 1..Len(Alphabet) : Alphabet[i] = c

Larger(a, b) == IF a < b THEN b ELSE a

\* A number as write! puts it down, figure by figure, and with zeros before it
\* where a width was asked for.
Figure(k) == Alphabet[7 + k]
Digits[n \in Nat] ==
  IF n < 10 THEN <<Figure(n)>> ELSE Append(Digits[n \div 10], Figure(n % 10))
Figures(n) == Len(Digits[n])
Padded(n, w) == [i \in 1..Larger(0, w - Figures(n)) |-> "0"] \o Digits[n]
Signed(n) == IF n < 0 THEN <<"-">> \o Digits[-n] ELSE Digits[n]

Tens[k \in Nat] == IF k = 0 THEN 1 ELSE 10 * Tens[k - 1]

\* trim_end_matches('0')
Trimmed(s) == SubSeq(s, 1, Larger(0, CHOOSE k \in 0..Len(s) :
                /\ k = 0 \/ s[k] # "0"
                /\ \A j \in (k + 1)..Len(s) : s[j] = "0"))
Pointed(whole, fraction) ==
  whole \o (IF Trimmed(fraction) = <<>> THEN <<>> ELSE <<".">> \o Trimmed(fraction))

\* civil: the calendar date of a day number, the year starting in March.
civil(days) ==
  LET shifted == days + 719468
      era == shifted \div 146097
      day_of_era == shifted % 146097
      year_of_era ==
        (day_of_era - day_of_era \div 1460 + day_of_era \div 36524 - day_of_era \div 146096) \div 365
      day_of_year == day_of_era - (365 * year_of_era + year_of_era \div 4 - year_of_era \div 100)
      shifted_month == (5 * day_of_year + 2) \div 153
      day == day_of_year - (153 * shifted_month + 2) \div 5 + 1
      month == IF shifted_month < 10 THEN shifted_month + 3 ELSE shifted_month - 9
  IN <<year_of_era + era * 400 + (IF month <= 2 THEN 1 ELSE 0), month, day>>

\* The sign is one of the four places a year has at least.
Year(y) == IF y < 0 THEN <<"-">> \o Padded(-y, 3) ELSE Padded(y, 4)
date(days) ==
  LET on == civil(days) IN
  Year(on[1]) \o <<"-">> \o Padded(on[2], 2) \o <<"-">> \o Padded(on[3], 2)

\* clock: of the time of day alone, its fraction only where there is one.
clock(time) ==
  LET seconds == time.seconds % 86400 IN
  Pointed(Padded(seconds \div 3600, 2) \o <<":">> \o Padded((seconds \div 60) % 60, 2)
            \o <<":">> \o Padded(seconds % 60, 2),
          Padded(time.micros, 6))

FloatDigits == 6

\* Rounding half away from zero, to so many figures fewer.
Rounded(n, fewer) == (n + Tens[fewer] \div 2) \div Tens[fewer]
Decimal(m, x) == [mantissa |-> m, power |-> x]

\* round_to_significant
round_to_significant(m, x) ==
  LET fewer == Larger(0, Figures(m) - FloatDigits) IN Decimal(Rounded(m, fewer), x + fewer)

\* The decimal exponent: log10().floor().
Magnitude(m, x) == Figures(m) - 1 + x

\* exponent: six digits of mantissa, without the zeros at their end.
exponent(m, x) ==
  LET kept == round_to_significant(m, x)
      digits == Digits[kept.mantissa]
  IN Pointed(SubSeq(digits, 1, 1), Tail(digits)) \o <<"e">> \o
     Signed(Magnitude(kept.mantissa, kept.power))

\* The places after the point: `magnitude.log10().floor() as usize` is 0 for
\* every magnitude below 1, where the exponent is negative.
Places(magnitude) == Larger(0, FloatDigits - (Larger(0, magnitude) + 1))

\* What "{rounded:.places$}" and the two trims after it leave.
Plain(kept, places) ==
  LET short == Larger(0, -kept.power - places)
      m == Rounded(kept.mantissa, short)
      x == kept.power + short
  IN IF x >= 0 THEN Digits[m] \o [i \in 1..x |-> "0"]
     ELSE Pointed(Digits[m \div Tens[-x]], Padded(m % Tens[-x], -x))

\* float: NaN, the infinities and zero by name, the rest plainly from 1e-4 up
\* to 1e15 and with an exponent beyond.
float(f) ==
  CASE f.is = "NaN" -> <<"N", "a", "N">>
    [] f.is = "Infinity" ->
         (IF f.negative THEN <<"-">> ELSE <<>>) \o <<"I", "n", "f", "i", "n", "i", "t", "y">>
    [] f.is = "finite" /\ f.mantissa = 0 -> <<"0">>
    [] f.is = "finite" /\ f.mantissa # 0 ->
         LET magnitude == Magnitude(f.mantissa, f.power) IN
         (IF f.negative THEN <<"-">> ELSE <<>>) \o
         (IF magnitude \in -4..14
            THEN Plain(round_to_significant(f.mantissa, f.power), Places(magnitude))
            ELSE exponent(f.mantissa, f.power))

\* Value: what a cell of an answer is.
Null == [kind |-> "Null"]
Bool(b) == [kind |-> "Bool", bool |-> b]
Integer(n) == [kind |-> "Int", int |-> n]
Float(f) == [kind |-> "Float", float |-> f]
Text(t) == [kind |-> "Text", text |-> t]
Date(d) == [kind |-> "Date", days |-> d]
Time(t) == [kind |-> "Time", time |-> t]
Timestamp(t) == [kind |-> "Timestamp", time |-> t]

Finite(m, x) == [is |-> "finite", negative |-> m < 0, mantissa |-> IF m < 0 THEN -m ELSE m, power |-> x]

\* render: the characters of a text that mean something to the form.
Escaped(c) ==
  CASE c = "\\" -> <<"\\", "\\">>
    [] c = "\t" -> <<"\\", "t">>
    [] c = "\n" -> <<"\\", "n">>
    [] c = "\r" -> <<"\\", "r">>
    [] OTHER -> <<c>>

\* The day a timestamp is on, before and after 1970.
DayOf(time) == time.seconds \div 86400

\* Value::render
render(v) ==
  CASE v.kind = "Null" -> <<"\\", "N">>
    [] v.kind = "Bool" -> IF v.bool THEN <<"t", "r", "u", "e">> ELSE <<"f", "a", "l", "s", "e">>
    [] v.kind = "Int" -> Signed(v.int)
    [] v.kind = "Float" -> float(v.float)
    [] v.kind = "Text" -> FlattenSeq([i \in 1..Len(v.text) |-> Escaped(v.text[i])])
    [] v.kind = "Date" -> date(v.days)
    [] v.kind = "Time" -> clock(v.time)
    [] v.kind = "Timestamp" -> date(DayOf(v.time)) \o <<" ">> \o clock(v.time)

\* Rows::push: the first row decides how wide the later ones must be.
Ragged(rows) == \E i \in 1..Len(rows) : Len(rows[i]) # Len(rows[1])
Line(row) ==
  FlattenSeq([i \in 1..Len(row) |-> (IF i > 1 THEN <<"\t">> ELSE <<>>) \o render(row[i])])

\* The order of strings: by byte, the shorter first where one starts the other.
Before(a, b) ==
  \/ IsStrictPrefix(a, b)
  \/ \E k \in 1..Len(a) :
       /\ k <= Len(b) /\ SubSeq(a, 1, k - 1) = SubSeq(b, 1, k - 1)
       /\ Code(a[k]) < Code(b[k])

\* The elements of a sequence in every order.
Rearrangements(s) ==
  LET n == Len(s) IN {[i \in 1..n |-> s[o[i]]] : o \in Bijection(1..n, 1..n)}

\* sort_unstable: no line stands behind one that it comes before.
Sorted(lines) ==
  CHOOSE s \in Rearrangements(lines) : \A i, j \in 1..Len(s) : i < j => ~Before(s[j], s[i])

\* Rows::finish: the rows are sorted unless the query asked for an order.
finish(rows, ordered) ==
  LET rendered == [i \in 1..Len(rows) |-> Line(rows[i])]
      lines == IF ordered THEN rendered ELSE Sorted(rendered)
      body == FlattenSeq([i \in 1..Len(lines) |-> (IF i > 1 THEN <<"\n">> ELSE <<>>) \o lines[i]])
  IN [rows |-> Len(rows), columns |-> IF rows = <<>> THEN 0 ELSE Len(rows[1]),
      body |-> IF body = <<>> THEN body ELSE Append(body, "\n")]

\* Digest::of: the hash of the three parts, which stands for them.
DigestOf(answer) == <<answer.rows, answer.columns, answer.body>>
=============================================================================
