---------------------------- MODULE MCCorpusStore ----------------------------
(***************************************************************************)
(* Instances of CorpusStore for TLC: two contents with a digest each.  One *)
(* digest is enough for processes to meet at a name; the second is the     *)
(* name the wrong bytes would have had.                                    *)
(***************************************************************************)
EXTENDS CorpusStore, TLC

CONSTANTS p1, p2, c1, c2, d1, d2

MCDigestOf(c) == IF c = c1 THEN d1 ELSE d2

\* Any stream may deliver anything.
AnyOffered(d) == Content

\* Every stream delivers what its digest promises.
HonestOffered(d) == {c \in Content : MCDigestOf(c) = d}

\* Processes are interchangeable in every step and every property checked.
Symmetry == Permutations(Process)

MCFaults == FaultKinds \ {"source"}
=============================================================================
