-------------------------- MODULE MCCorpusGenerate --------------------------
(***************************************************************************)
(* Instances of CorpusGenerate.  c1 and c2 are what d1 and d2 promise.     *)
(* The file that is in both corpora is d1; c3 is what an unpinned          *)
(* generator writes for it: as long, and something else.                   *)
(***************************************************************************)
EXTENDS CorpusGenerate, TLC

CONSTANTS p1, p2, p3, s1, s2, c1, c2, c3, d1, d2, d3

MCDigestOf(c) == CASE c = c1 -> d1 [] c = c2 -> d2 [] OTHER -> d3
MCSizeOf(c) == IF c = c2 THEN 1 ELSE 2

MCFooter(c) == {[rows |-> MCSizeOf(c), columns |-> 3]}

HonestOffered(d) == {c \in Content : MCDigestOf(c) = d}
MixedOffered(d) == IF d = d1 THEN {c \in Content : MCSizeOf(c) = 2} ELSE HonestOffered(d)

Shared == [path |-> [at |-> 1, kind |-> "inside", parquet |-> TRUE], blake3 |-> d1, bytes |-> 2, url |-> {}]
Large == [Shared EXCEPT !.path = [at |-> 2, kind |-> "inside", parquet |-> FALSE], !.blake3 = d2, !.bytes = 1]

Dbgen == [program |-> "dbgen", version |-> "2.17.3", version_arguments |-> <<"-h">>,
          platforms |-> {[os |-> "linux", lower |-> TRUE], [os |-> "macos", lower |-> TRUE]}]

\* One corpus of both files, of which only the shared one has a footer, and one
\* of the file they share; p3's manifest asserts rows that are not in it.
ScaledManifest(p) == [
  toml |-> TRUE, name |-> "tpch", description |-> "said", source |-> "text", licence |-> "said",
  category |-> "generate", licence_note |-> {}, part_of |-> {}, generator |-> {Dbgen},
  files |-> IF p = p1 THEN <<Shared, Large>> ELSE <<Shared>>,
  assertions |-> [rows |-> IF p = p3 THEN {3} ELSE {2}, columns |-> {3}]]
MCNameOf(p) == "tpch"

NoOmits(p) == {}
SomeOmits(p) == IF p = p1 THEN {2} ELSE {}

\* p3 is on a platform the manifest does not name and never gets to its own.
OwnScratch(p) == IF p = p1 THEN s1 ELSE s2
SharedScratch(p) == IF p = p3 THEN s2 ELSE s1

Everywhere(p) == "linux"
NotThird(p) == IF p = p3 THEN "windows" ELSE "linux"

CommonFaults == FaultKinds \ {"source"}
=============================================================================
