---------------------------- MODULE MCTimingLoop ---------------------------
(* Rules around multiples of three, the limits that cross each other too.  *)
EXTENDS TimingLoop

SomeRules ==
  [kind : {"after"}, samples : 0..7] \cup [kind : {"width"}, min : 0..7, max : 0..7]

\* The default rule made small: its limit is not a multiple of check_every.
DefaultRule == {[kind |-> "width", min |-> 2, max |-> 5]}
=============================================================================
