-------------------------- MODULE MCClickbenchCheck ------------------------
(***************************************************************************)
(* Two systems, a query with one answer and one without, three runs of each*)
(* and machines and records that differ in one respect or another.         *)
(***************************************************************************)
EXTENDS ClickbenchCheck

TwoQueries == {"q0", "q17"}

\* Hundredths of a logarithm: 1.25 is 22 and 0.75 is -29 of them.
TwoPublished == [
  duckdb |-> [q0 |-> <<{500}, {100}, {90}>>, q17 |-> <<{300}, {80}, {}>>],
  datafusion |-> [q0 |-> <<{520}, {120}, {130}>>, q17 |-> <<{}, {60}, {70}>>]]
TwiceAsSlow == {69}

Workstation ==
  [os |-> "linux", arch |-> "x86_64", cpu |-> "i9-13900K", online |-> 4, allowed |-> {0, 1},
   memory |-> 8, under |-> "none", governor |-> [n \in 0..3 |-> {"performance"}],
   switch |-> "intel_pstate", boosting |-> FALSE]
Opaque == [Workstation EXCEPT !.switch = "none", !.boosting = TRUE]
Loose == [Workstation EXCEPT !.allowed = 0..3]
Guest == [Workstation EXCEPT !.cpu = "EPYC", !.under = "guest", !.governor = [n \in 0..3 |-> {}],
                             !.switch = "none"]
\* The first processor is governed as it should be, the one a run may use is not.
Uneven == [Workstation EXCEPT !.allowed = {1}, !.governor[1] = {"powersave"}]
\* Two of the four processors are offline and nobody restricted anything.
HalfOffline == [Workstation EXCEPT !.online = 2, !.allowed = 0..3]

Quiet == [available |-> 4, load |-> {10}, busy |-> 0]
Compiling == [Quiet EXCEPT !.load = {390}, !.busy = 3]

Steadily(d) == <<d, d, d>>
Wobbling == <<1, 1, 2>>
Slowly(runs, more) == IF runs = <<>> THEN <<>> ELSE <<500 + more, 120 + more, 110 + more>>
Taking(driver, one, two) ==
  [driver |-> driver, machine |-> Workstation, doing |-> Quiet, anyway |-> FALSE,
   given |-> "8 threads", says |-> TRUE,
   runs |-> [q \in TwoQueries |-> IF q = "q0" THEN one ELSE two],
   took |-> [q \in TwoQueries |-> IF q = "q0" THEN Slowly(one, 0) ELSE Slowly(two, -40)]]

SomeTakings == {
  Taking("duckdb", Steadily(1), Steadily(1)),
  [Taking("duckdb", Wobbling, Steadily(1)) EXCEPT !.given = "4 threads"],
  Taking("datafusion", Steadily(1), Steadily(2)),
  [Taking("datafusion", Steadily(1), <<>>) EXCEPT !.took["q0"] = <<600, 190, 195>>],
  [Taking("datafusion", Steadily(1), <<>>) EXCEPT !.took["q0"] = <<350, 20, 30>>],
  Taking("null", Steadily(0), Steadily(0)),
  [Taking("datafusion", Steadily(2), Wobbling) EXCEPT !.doing = Compiling, !.anyway = TRUE],
  [Taking("datafusion", Steadily(1), <<>>) EXCEPT !.machine = Guest, !.anyway = TRUE],
  [Taking("datafusion", Steadily(1), <<>>) EXCEPT !.machine = Opaque],
  [Taking("duckdb", Steadily(1), <<>>) EXCEPT !.machine = Loose],
  [Taking("duckdb", Steadily(1), <<>>) EXCEPT !.machine = Uneven],
  [Taking("arrow-parquet", <<>>, Steadily(1)) EXCEPT !.says = FALSE]}
OfflineTakings == {
  [Taking("duckdb", Steadily(1), Steadily(d)) EXCEPT !.machine = machine] :
    d \in 1..2, machine \in {HalfOffline, Uneven}}
=============================================================================
