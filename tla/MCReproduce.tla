---------------------------- MODULE MCReproduce ----------------------------
(* The registered claim over a file of two ranges.                         *)
EXTENDS Reproduce

AnyOf(points) == [ratio : points, lo : points, hi : points]
AtFivePoints == AnyOf(-2..2)
\* Intervals that are no wider than a unit, and a point no further off.
Narrow == {r \in AnyOf(-1..2) : r.hi - r.lo \in 0..1 /\ r.ratio \in (r.lo - 1)..(r.hi + 1)}
FourTruths == -1..2
TwoTruths == {0, 1}
TwoPoints == -1..0
NoFavour == {0}
TwoFavours == {0, 1}
Committed == [given |-> TRUE, day |-> 2]
TwoDays == 1..2

\* A hosted runner, which may produce a ratio.
Hosted ==
  [os |-> "linux", arch |-> "aarch64", cpu |-> "Neoverse-N1", online |-> 4, allowed |-> 0..3,
   memory |-> 16, under |-> "guest", governor |-> [n \in 0..3 |-> {}],
   switch |-> "none", boosting |-> TRUE]

\* A guest, which may produce nothing.
Guest == [Hosted EXCEPT !.arch = "x86_64", !.cpu = "EPYC"]

IdleMachine == [available |-> 12, load |-> {10}, busy |-> 0]
BusyMachine == [IdleMachine EXCEPT !.busy = 1]
TwoDoings == {IdleMachine, BusyMachine}
=============================================================================
