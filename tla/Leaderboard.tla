----------------------------- MODULE Leaderboard ---------------------------
(***************************************************************************)
(* The calibration of crates/bench-workload/src/leaderboard.rs: the ratio  *)
(* of every driver to its published numbers, the factor the drivers share, *)
(* and who is out of the band around it.  A duration is its logarithm, a   *)
(* whole number, so a geometric mean is a mean and a ratio a difference.   *)
(* A duration of zero, which Standing::new skips, has none and is not      *)
(* modelled.  What may be missing is a set of one or none.                 *)
(***************************************************************************)
EXTENDS Integers, Sequences, FiniteSets, SequencesExt

CONSTANTS
  Query,      \* queries of the workload
  Published,  \* Published[driver][q]: the published runs of q, for the drivers with a file
  BandUp,     \* the logarithm of 1 + BAND
  BandDown    \* minus the logarithm of 1 - BAND

ASSUME PublishedAssumption ==
  \A driver \in DOMAIN Published : \A q \in DOMAIN Published[driver] :
    /\ Published[driver][q] \in Seq(SUBSET Int)
    /\ \A i \in DOMAIN Published[driver][q] : \A x, y \in Published[driver][q][i] : x = y
ASSUME QueryAssumption == IsFiniteSet(Query)
ASSUME BandAssumption == BandUp \in Nat /\ BandDown \in Nat

Columns == {"cold", "hot"}

\* reference: the published result of a driver, by the name it calls itself.
Referenced(driver) == driver \in DOMAIN Published

Least(durations) == IF durations = {} THEN {} ELSE {Min(durations)}

\* cold: the first run; hot: the least of the runs after it that ended.
ColdOf(runs) == IF runs = <<>> THEN {} ELSE runs[1]
HotOf(runs) == Least(UNION {runs[i] : i \in 2..Len(runs)})
ColumnOf(column, runs) == IF column = "cold" THEN ColdOf(runs) ELSE HotOf(runs)

Theirs(driver, column, q) ==
  IF q \in DOMAIN Published[driver] THEN ColumnOf(column, Published[driver][q]) ELSE {}

\* Measured::cold and Measured::hot, of the durations of a query's runs.
Ours(report, column, q) ==
  ColumnOf(column, [i \in 1..Len(report.took[q]) |-> {report.took[q][i]}])

\* What both have a number for; the rest is skipped.
Paired(report, column) ==
  {q \in Query : Ours(report, column, q) # {} /\ Theirs(report.driver, column, q) # {}}

\* The ratio of a query, once both have a number.
Only(s) == CHOOSE x \in s : TRUE
Difference(report, column, q) ==
  Only(Ours(report, column, q)) - Only(Theirs(report.driver, column, q))

\* A slip in Standing: the query without a number is in the mean all the same.
Standing_Skipped(report, column) ==
  LET pairs == Paired(report, column) IN
  [sum |-> SumFunction([q \in pairs |-> Difference(report, column, q)]), count |-> Cardinality(Query)]

\* Standing::new: the sum and the number of the differences its mean is of.
Standing(report, column) ==
  LET pairs == Paired(report, column) IN
  [sum |-> SumFunction([q \in pairs |-> Difference(report, column, q)]), count |-> Cardinality(pairs)]

\* Calibration::new: of the reports with something to be compared with.
Standings(reports, column) ==
  [i \in {i \in 1..Len(reports) :
            Referenced(reports[i].driver) /\ Paired(reports[i], column) # {}} |->
     Standing(reports[i], column)]
Many(standings) == Cardinality(DOMAIN standings)

Product(counts) == FoldFunction(LAMBDA x, y : x * y, 1, counts)

\* Everything over one denominator: Whole times the number of standings.
Whole(standings) == Product([i \in DOMAIN standings |-> standings[i].count])
RatioOf(standings, i) == standings[i].sum * (Whole(standings) \div standings[i].count)
Machine(standings) == SumFunction([i \in DOMAIN standings |-> RatioOf(standings, i)])

\* Calibration::drift
Drift(standings, i) == Many(standings) * RatioOf(standings, i) - Machine(standings)

\* A slip in Inside: only the slow side of the band is looked at.
Inside_OneSided(standings, i) ==
  Drift(standings, i) <= BandUp * Many(standings) * Whole(standings)

\* Calibration::inside: a quarter more or a quarter less than the shared factor.
Inside(standings, i) ==
  LET unit == Many(standings) * Whole(standings) IN
  -(BandDown * unit) <= Drift(standings, i) /\ Drift(standings, i) <= BandUp * unit

\* Calibration::clean
Clean(standings) == \A i \in DOMAIN standings : Inside(standings, i)
=============================================================================
