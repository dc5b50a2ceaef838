--------------------------- MODULE ClickbenchCheck -------------------------
(***************************************************************************)
(* `iris-bench clickbench check` and `clickbench calibrate` of             *)
(* crates/bench-cli/src/clickbench.rs, over compare of                     *)
(* crates/bench-workload/src/agree.rs and the Calibration of its           *)
(* leaderboard.rs.  The records are files that the runs of other processes *)
(* write over while this one reads them, one after another.                *)
(***************************************************************************)
EXTENDS MachineGates, Leaderboard

CONSTANTS
  Slower,          \* the logarithms of what a machine may be slower by than another
  Takings,         \* what a run may be started on and come to
  Path,            \* paths of records
  Torn,            \* a path with no record, or with one half written
  MaxNamed,        \* bound: records named on one command line
  MaxWrites        \* bound: records written over

\* The system, the machine and what it was doing as the gates were asked,
\* whether with --anyway, what the system was given, the digests of the runs of
\* every query, none of them when it was not answered, how long these took, and
\* whether the record is of a version that says what it was taken under.
ASSUME TakingsAssumption ==
  \A taking \in Takings :
    /\ DOMAIN taking = {"driver", "machine", "doing", "anyway", "given", "runs", "took", "says"}
    /\ \A q \in Query : taking.runs[q] \in Seq(Nat) /\ taking.took[q] \in Seq(Int)
    /\ \A q \in Query : Len(taking.took[q]) = Len(taking.runs[q])
ASSUME SlowerAssumption == Slower \subseteq Int

\* undetermined: the queries that do not pick out a single result.
Ties == {"q17", "q21", "q24", "q31", "q32", "q38", "q39", "q40", "q41"}
Setups == {"q23"}
Determined(q) == q \notin Ties \cup Setups

\* dialect: the published set of queries that a driver is given, if any is.
Dialect(driver) ==
  CASE driver \in {"clickhouse", "duckdb", "datafusion"} -> driver
    [] driver = "arrow-parquet" -> "datafusion"
    [] OTHER -> "none"

Asked(taking) == Require(CaptureOf(taking.machine, taking.doing), "durations")

\* run's Record.  No command reads its machine and its doing back.
Record(taking) ==
  [driver |-> taking.driver, machine |-> taking.machine, doing |-> taking.doing,
   environment |-> Hash(CaptureOf(taking.machine, taking.doing)),
   conditions |-> [known |-> taking.says, refused |-> Asked(taking) # "ok", given |-> taking.given],
   runs |-> taking.runs, took |-> taking.took]
Records ==
  {Record(taking) : taking \in {one \in Takings :
                                  /\ Asked(one) = "ok" \/ one.anyway
                                  /\ Dialect(one.driver) # "none"}}

VARIABLES
  file,     \* file[f]: what is at f
  writes,   \* how often some file was written
  command,  \* the command being run, its column, and whether with --anyway
  named,    \* the paths it was given
  taken,    \* the records read so far
  verdict   \* what the command came to

checkVars == <<file, writes, command, named, taken, verdict>>

Commands == {"check", "calibrate"}
Verdicts == {"none", "unreadable", "agreed", "disagreed", "refused", "incomparable", "inside", "outside"}
Asks == [what : Commands, anyway : BOOLEAN, column : Columns]
Graded == verdict \in {"inside", "outside"}

\* Only whole records are taken, no more of them than the command line names.
CheckTypeOK ==
  /\ file \in [Path -> Records \cup {Torn}]
  /\ writes \in 0..MaxWrites
  /\ command \in Asks
  /\ named \in SeqOf(Path, MaxNamed)
  /\ taken \in SeqOf(Records, MaxNamed)
  /\ Len(taken) <= Len(named)
  /\ verdict \in Verdicts

CheckInit ==
  /\ file \in [Path -> Records \cup {Torn}]
  /\ writes = 0
  /\ command \in Asks
  /\ named \in SeqOf(Path, MaxNamed) \ {<<>>}
  /\ taken = <<>>
  /\ verdict = "none"

\* A run of another process truncates a record or finishes one.
WriteRecord ==
  /\ writes < MaxWrites
  /\ writes' = writes + 1
  /\ \E f \in Path, content \in Records \cup {Torn} : file' = [file EXCEPT ![f] = content]
  /\ UNCHANGED <<command, named, taken, verdict>>

\* read: the records in the order they were named; one that does not parse
\* ends the command.
ReadNext ==
  /\ verdict = "none" /\ Len(taken) < Len(named)
  /\ LET content == file[named[Len(taken) + 1]] IN
       IF content = Torn
         THEN verdict' = "unreadable" /\ UNCHANGED taken
         ELSE taken' = Append(taken, content) /\ UNCHANGED verdict
  /\ UNCHANGED <<file, writes, command, named>>

Answered(record, q) == record.runs[q] # <<>>

\* Measured::digest and Measured::steady
DigestOf(record, q) == record.runs[q][1]
Steady(record, q) == \A i \in 1..Len(record.runs[q]) : record.runs[q][i] = record.runs[q][1]

\* compare: the records with a reading of a query.  The systems agree when the
\* other readings are the one, and there is something to agree about when
\* there is more than one.
Readings(records, q) == {i \in 1..Len(records) : Answered(records[i], q)}
Compared(records, q) == \E i, j \in Readings(records, q) : i # j
Same(records, q) ==
  \E first \in Readings(records, q) : \A i \in Readings(records, q) :
    first <= i /\ DigestOf(records[i], q) = DigestOf(records[first], q)
Agreed(records) == {q \in Query : Compared(records, q) /\ Same(records, q)}
Disagreed(records) == {q \in Query : Compared(records, q) /\ ~Same(records, q)}
Unstable(records) ==
  {q \in Query : \E i \in 1..Len(records) : ~Steady(records[i], q)}

\* A slip in Check: systems that disagree with themselves are not failed.
Check_FirstRunsOnly ==
  /\ verdict = "none" /\ command.what = "check" /\ Len(taken) = Len(named)
  /\ verdict' = IF \E q \in Disagreed(taken) : Determined(q) THEN "disagreed" ELSE "agreed"
  /\ UNCHANGED <<file, writes, command, named, taken>>

\* A slip in Check: queries without a single answer fail the check too.
Check_NoTies ==
  /\ verdict = "none" /\ command.what = "check" /\ Len(taken) = Len(named)
  /\ verdict' = IF Disagreed(taken) \cup Unstable(taken) # {} THEN "disagreed" ELSE "agreed"
  /\ UNCHANGED <<file, writes, command, named, taken>>

\* check: the disagreements of queries that have one answer are the failure.
Check ==
  /\ verdict = "none" /\ command.what = "check" /\ Len(taken) = Len(named)
  /\ verdict' = IF \E q \in Disagreed(taken) \cup Unstable(taken) : Determined(q)
                  THEN "disagreed" ELSE "agreed"
  /\ UNCHANGED <<file, writes, command, named, taken>>

\* conditions: whether the records are one run of one fit machine.
Unfit(record) == ~record.conditions.known \/ record.conditions.refused
Given(records) ==
  {i \in 1..Len(records) :
     /\ records[i].conditions.known
     /\ ~records[i].conditions.refused \/ command.anyway}
\* A slip in Refuses: a record that does not say what it was taken under passes.
Refuses_OnlyTheRefused(records) ==
  \/ \E i \in 1..(Len(records) - 1) : records[i].environment # records[i + 1].environment
  \/ ~command.anyway /\ \E i \in 1..Len(records) : records[i].conditions.refused
  \/ \E i, j \in Given(records) : records[i].conditions.given # records[j].conditions.given

Refuses(records) ==
  \/ \E i \in 1..(Len(records) - 1) : records[i].environment # records[i + 1].environment
  \/ ~command.anyway /\ \E i \in 1..Len(records) : Unfit(records[i])
  \/ \E i, j \in Given(records) : records[i].conditions.given # records[j].conditions.given

\* What the numbers come to, once the records go together.
Grade(records, column) ==
  LET standings == Standings(records, column) IN
  IF DOMAIN standings = {} THEN "incomparable" ELSE IF Clean(standings) THEN "inside" ELSE "outside"

\* calibrate: the factor the drivers share, and who is out of its band.
Calibrate ==
  /\ verdict = "none" /\ command.what = "calibrate" /\ Len(taken) = Len(named)
  /\ verdict' = IF Refuses(taken) THEN "refused" ELSE Grade(taken, command.column)
  /\ UNCHANGED <<file, writes, command, named, taken>>

CheckNext == WriteRecord \/ ReadNext \/ Check \/ Calibrate
CheckSpec == CheckInit /\ [][CheckNext]_checkVars

-----------------------------------------------------------------------------

\* Some processor that is online is not for this process.
IsRestricted(m) == \E cpu \in 0..(m.online - 1) : cpu \notin m.allowed

\* Every digest some run of some record gave for a query.
DigestsOf(q) ==
  UNION {{taken[i].runs[q][k] : k \in 1..Len(taken[i].runs[q])} : i \in 1..Len(taken)}

\* agree: "Timings are worth nothing until this passes": when check passes,
\* all runs of all records gave a query with one answer one digest, though
\* compare only ever puts first runs next to each other.
PassedMeansOneAnswer ==
  verdict = "agreed" =>
    \A q \in Query : Determined(q) => \A d, e \in DigestsOf(q) : d = e

\* And it fails only over two answers to a query that has one, whatever a
\* run that is going on makes of the files in the meantime.
FailedMeansTwoAnswers ==
  verdict = "disagreed" =>
    \E q \in Query : Determined(q) /\ \E d, e \in DigestsOf(q) : d # e

\* calibrate: "this refuses to grade a run that did not pass", and grades
\* records of one machine given to every system alike.
GradedIsOneFitMachine ==
  Graded =>
    \A i, j \in 1..Len(taken) :
      /\ Facts(taken[i].machine) = Facts(taken[j].machine)
      /\ ~command.anyway =>
           /\ taken[i].conditions.known /\ ~taken[i].conditions.refused
           /\ taken[i].conditions.given = taken[j].conditions.given

\* The clock is held steady on every processor this process may use.
ClockIsHeld(m) == \A n \in m.allowed : "performance" \in m.governor[n]
GovernedAlike(m) == \A n \in m.allowed : m.governor[n] = m.governor[0]

\* ceiling: "Being unable to see a setting is not evidence that the setting is
\* right", and Capture::permits: nothing is graded, unless somebody asked for
\* it, that was not taken on the workstation with the clock of its first
\* processor held steady, and so of all when they are governed alike, its run
\* restricted to some of its processors, where it has several, and nothing
\* else at work.
GradedWasSteady ==
  Graded /\ ~command.anyway =>
    \A i \in 1..Len(taken) :
      LET m == taken[i].machine IN
      /\ m.cpu = "i9-13900K" /\ m.under # "wsl"
      /\ "performance" \in m.governor[0] /\ (GovernedAlike(m) => ClockIsHeld(m)) /\ ~m.boosting
      /\ taken[i].doing.busy = 0
      /\ m.online # 1 => IsRestricted(m)

\* leaderboard: "What this does catch is one driver out of line with the
\* others": drivers that pass are no further from each other than the two
\* sides of the band, and where one fails some two are further apart than the
\* nearer side, however many records, queries and drivers were skipped.
ApartMeansOutside ==
  Graded =>
    LET standings == Standings(taken, command.column)
        apart(i, j) == RatioOf(standings, i) - RatioOf(standings, j)
    IN /\ verdict = "inside" =>
            \A i, j \in DOMAIN standings : apart(i, j) <= (BandUp + BandDown) * Whole(standings)
       /\ verdict = "outside" =>
            \E i, j \in DOMAIN standings : apart(i, j) > Min({BandUp, BandDown}) * Whole(standings)

\* "A mistake that slows every driver here by the same amount is arithmetically
\* indistinguishable from a slower machine, and this check passes on it".
SlowedBy(record, more) ==
  [record EXCEPT !.took = [q \in Query |-> [i \in 1..Len(record.took[q]) |-> record.took[q][i] + more]]]
SlowMachineIsTheSame ==
  Graded =>
    \A more \in Slower :
      verdict = Grade([i \in 1..Len(taken) |-> SlowedBy(taken[i], more)], command.column)

-----------------------------------------------------------------------------
(* What the source says of itself and TLC refutes.                          *)

\* Comparison::agreed: "Queries two or more systems answered identically",
\* and check: "every query that more than one system answered got the same
\* answer".
AgreedMeansTwoSystems ==
  verdict = "agreed" =>
    \A q \in Agreed(taken) :
      \E i, j \in 1..Len(taken) :
        /\ taken[i].driver # taken[j].driver
        /\ Answered(taken[i], q) /\ Answered(taken[j], q)

\* workstation_gates: "What is being checked is that somebody restricted the
\* run at all", by comparing the processors listed with those that are online.
DurationsAreRestricted ==
  \A i \in 1..Len(taken) :
    taken[i].conditions.known /\ ~taken[i].conditions.refused => IsRestricted(taken[i].machine)

\* workstation_gates: "the performance governor, so that the clock does not drop
\* between samples", of the machine whose first processor is asked.
DurationsHoldTheClock ==
  \A i \in 1..Len(taken) :
    taken[i].conditions.known /\ ~taken[i].conditions.refused => ClockIsHeld(taken[i].machine)

=============================================================================
