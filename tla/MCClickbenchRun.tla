-------------------------- MODULE MCClickbenchRun --------------------------
(***************************************************************************)
(* Instances of ClickbenchRun: one table, two queries, the first with two  *)
(* answers a system may give.                                              *)
(***************************************************************************)
EXTENDS ClickbenchRun, TLC

CONSTANTS r1, r2, t1, q1, q2, dir, f1, a, b

MCReads(q) == Table
OneDirectory(r) == dir
Both(r) == TRUE
Neither(r) == FALSE
Second(r) == r = r2
First(r) == r = r1
PoolOfTheFirst(r) == IF r = r1 THEN {q1} ELSE {}

MCWorkload == <<q1, q2>>
Reversed(r) == <<2, 1>>
MCAnswers(q) == IF q = q1 THEN {a, b} ELSE {a}
OneAnswer(q) == {a}
SamePath(r) == f1
=============================================================================
