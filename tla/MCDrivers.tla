------------------------------ MODULE MCDrivers ----------------------------
(***************************************************************************)
(* Two runners at a time out of five, over one table of three columns in   *)
(* two files, loads of it that differ in one respect each, and a query     *)
(* that is plain and one that is not.                                      *)
(***************************************************************************)
EXTENDS Drivers

\* A year of days by the calendar, and the corners of it, against civil.
Follows(d) ==
  LET leap == d[1] % 4 = 0 /\ (d[1] % 100 # 0 \/ d[1] % 400 = 0)
      last == <<31, IF leap THEN 29 ELSE 28, 31, 30, 31, 30, 31, 31, 30, 31, 30, 31>>[d[2]]
  IN CASE d[3] < last -> <<d[1], d[2], d[3] + 1>>
       [] d[3] = last /\ d[2] < 12 -> <<d[1], d[2] + 1, 1>>
       [] OTHER -> <<d[1] + 1, 1, 1>>
ASSUME CivilIsTheCalendar ==
  /\ civil(0) = <<1970, 1, 1>>
  /\ \A n \in -140000..50000 : civil(n + 1) = Follows(civil(n))

\* Every pair of texts of two characters apart keeps its digest apart.
Texts == UNION {[1..n -> {"\\", "\t", "\n", "N", "t"}] : n \in 0..3}
ASSUME TextsStayApart ==
  \A a, b \in Texts : render(Text(a)) = render(Text(b)) => a = b
ASSUME NullIsNoText == \A a \in Texts : render(Text(a)) # render(Null)

\* Floats with the same six digits are written alike, unless the rounding took
\* one of them over a limit of the plain notation.
Mantissas == {1, 10, 15, 1500, 99999, 100000, 999999, 1234564, 1499999, 9999994, 9999995, 15000004, 123456449}
SixDigitsDecide ==
  \A m, n \in Mantissas, x, y \in -9..9 :
    SixDigits(m, x) = SixDigits(n, y) /\ (Magnitude(m, x) \in -4..14) = (Magnitude(n, y) \in -4..14)
      => float(Finite(m, x)) = float(Finite(n, y)) /\ float(Finite(-m, x)) = float(Finite(-n, y))
ASSUME SixDigitsDecide

\* 999999.99e9 is 1e15 to six digits and 99.999999e-6 is 1e-4, which are
\* compared with the limits before they are rounded.
LimitsDivide ==
  /\ SixDigits(99999999, 7) = SixDigits(1, 15) /\ float(Finite(99999999, 7)) # float(Finite(1, 15))
  /\ SixDigits(99999999, -12) = SixDigits(1, -4) /\ float(Finite(99999999, -12)) # float(Finite(1, -4))
ASSUME LimitsDivide

\* What the proof that one answer has one digest takes for granted.
ASSUME SixDigitsAreWrittenAlike

\* A thousand times as many milliseconds as seconds have their microseconds in an i64.
MCFurthest(unit) == IF unit = "second" THEN 1000 ELSE 1000000

\* A count is converted up to the last that fits and refused from the next.
EdgesAreRefused ==
  /\ \A unit \in {"second", "millisecond"} : \A n \in {MCFurthest(unit), -MCFurthest(unit)} :
       /\ Micros(unit, n) # Refused
       /\ Micros(unit, IF n > 0 THEN n + 1 ELSE n - 1) = Refused
  /\ \A millis \in {-86400000, 0, 86399999} : Days(millis) = Date(millis \div 86400000)
ASSUME EdgesAreRefused

MCDriverOf(r) ==
  CASE r \in {"first", "second"} -> "duckdb" [] r = "third" -> "datafusion"
    [] r = "fourth" -> "arrow-parquet" [] r = "fifth" -> "null"
FiveRunners == {"first", "second", "third", "fourth", "fifth"}
Pairs == {{"first", "third"}, {"third", "fourth"}, {"fifth"}}
MCKeeps(r) == r \in {"first", "second"}
IsNull(r) == r = "fifth"
MCReads(q) == {"hits"}
OneDirectory(r) == "scratch"

MCQuestion(q) ==
  IF q = "plain"
    THEN [table |-> "hits", columns |-> <<"title", "date">>, plain |-> TRUE, ordered |-> FALSE]
    ELSE [table |-> "hits", columns |-> <<>>, plain |-> FALSE, ordered |-> TRUE]

Whole(n) == [type |-> "integer", int |-> n]
At(unit, n) == [type |-> "timestamp", unit |-> unit, count |-> n, zoned |-> FALSE]
String(t) == [type |-> "text", text |-> t]
Dated(name, c) == IF name = "date" THEN [type |-> "date32", days |-> c.int] ELSE c

Columns3 == <<"date", "time", "title">>
File(rows) == [schema |-> Columns3, rows |-> rows]
One == File(<<<<Whole(7), At("millisecond", 1500), String(<<"\\", "N">>)>>>>)
Other == File(<<<<Whole(7), At("millisecond", -500), String(<<"t">>)>>>>)
NoTitle == File(<<<<Whole(7), At("millisecond", -500), [type |-> "null"]>>>>)
Fine == [schema |-> <<"date", "time">>, rows |-> <<<<Whole(7), At("nanosecond", 1500000001)>>>>]
Coarse == [schema |-> <<"date", "time">>, rows |-> <<<<Whole(7), At("millisecond", 1500)>>>>]
Narrower == [schema |-> <<"date", "title">>, rows |-> <<<<Whole(7), String(<<"t">>)>>>>]

Priced(c) == File(<<<<Whole(7), At("millisecond", 1500), c>>>>)
Decimal15 == Priced([type |-> "decimal", payload |-> 15, digits |-> 1])
Double15 == Priced([type |-> "double", float |-> Finite(15000004, -7)])

LoadOf(files) == [table |-> "hits", format |-> "parquet", projected |-> FALSE, files |-> files]
SomeLoads == {
  LoadOf(<<One, Other>>),
  LoadOf(<<One, Narrower>>),
  LoadOf(<<Fine>>),
  LoadOf(<<Decimal15, NoTitle>>),
  LoadOf(<<Double15, NoTitle>>),
  [LoadOf(<<One, Other>>) EXCEPT !.projected = TRUE],
  [LoadOf(<<Coarse>>) EXCEPT !.format = "wide"]}

\* Two sums that differ in their third digit, both below one.
Sum(m, x) == [type |-> "double", float |-> Finite(m, x)]
SmallSums == {
  LoadOf(<<[schema |-> <<"title">>, rows |-> <<<<Sum(1234, -7)>>>>]>>),
  LoadOf(<<[schema |-> <<"title">>, rows |-> <<<<Sum(1239, -7)>>>>]>>)}
\* What the proof that one digest has one answer takes for granted, which is
\* not to be had of sums that differ behind the places they are written to.
ASSUME AnswersAreTold == CellsAreWrittenApart \/ Loads = SmallSums
SumQuestion(q) == [table |-> "hits", columns |-> <<"title">>, plain |-> FALSE, ordered |-> FALSE]

\* No rows, of one column and of three.
EmptyLoads == {
  LoadOf(<<[schema |-> <<"title">>, rows |-> <<>>]>>), LoadOf(<<[schema |-> Columns3, rows |-> <<>>]>>)}
AllQuestion(q) == [table |-> "hits", columns |-> <<>>, plain |-> TRUE, ordered |-> FALSE]
=============================================================================
