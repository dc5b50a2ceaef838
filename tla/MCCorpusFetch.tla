---------------------------- MODULE MCCorpusFetch ----------------------------
(***************************************************************************)
(* Instances of CorpusFetch.  c1 is two bytes and what d1 promises, c2 is  *)
(* one byte and what d2 promises, c3 is a page a server sends instead: as  *)
(* long as c1, and nothing any manifest pins.                              *)
(***************************************************************************)
EXTENDS CorpusFetch, TLC

CONSTANTS p1, p2, p3, c1, c2, c3, d1, d2, d3

MCDigestOf(c) == CASE c = c1 -> d1 [] c = c2 -> d2 [] OTHER -> d3
MCSizeOf(c) == IF c = c2 THEN 1 ELSE 2

\* Both files are Parquet of three columns; an answer page is not Parquet.
MCFooter(c) ==
  CASE c = c1 -> {[rows |-> 2, columns |-> 3]}
    [] c = c2 -> {[rows |-> 1, columns |-> 3]}
    [] OTHER -> {}

\* The second file has a column less, so the two are not one table.
RaggedFooter(c) == IF c = c2 THEN {[rows |-> 1, columns |-> 2]} ELSE MCFooter(c)

AnyOffered(d) == Content
HonestOffered(d) == {c \in Content : MCDigestOf(c) = d}

\* The server of d1 may send anything, the server of d2 is right.
MixedOffered(d) == IF d = d1 THEN Content ELSE HonestOffered(d)

At(n) == [at |-> n, kind |-> "inside", parquet |-> TRUE]
First == [path |-> At(1), blake3 |-> d1, bytes |-> 2, url |-> {"own"}]
Second == [path |-> At(2), blake3 |-> d2, bytes |-> 1, url |-> {"own"}]
Third == [First EXCEPT !.path = At(3)]
Text(e) == [e EXCEPT !.path.parquet = FALSE]

Whole == [
  toml |-> TRUE, name |-> "whole", description |-> "said", source |-> "url", licence |-> "said",
  category |-> "fetch", licence_note |-> {}, part_of |-> {}, generator |-> {},
  files |-> <<First, Second>>, assertions |-> [rows |-> {3}, columns |-> {3}]]
Mirror == [Whole EXCEPT !.category = "mirror", !.licence_note = {"said"}]

MCNameOf(p) == "whole"

\* Two commands that want the same two files in opposite orders.
CrossedManifest(p) == IF p = p1 THEN Whole ELSE [Whole EXCEPT !.files = <<Second, First>>]

\* A mirror of a file only p1 fetches, at two paths, and one of text that p2
\* takes for a table; p2 cannot work out a URL for the first, and finds it ragged
\* when it is there; p3's manifest does not validate.
MixedManifest(p) ==
  CASE p = p1 -> [Mirror EXCEPT !.files = <<First, Third, Text(Second)>>, !.assertions.rows = {4}]
    [] p = p2 -> [Whole EXCEPT !.source = "text", !.files = <<Second, [First EXCEPT !.url = {}]>>]
    [] p = p3 -> [Mirror EXCEPT !.files = <<Second, [First EXCEPT !.url = {}]>>]

OneTable == [Whole EXCEPT !.files = <<First>>, !.assertions.rows = {2}]
OneFile(p) == OneTable

\* The right digest beside the wrong number of bytes.
MistypedFile(p) == [OneTable EXCEPT !.files = <<[First EXCEPT !.bytes = 1]>>]

-----------------------------------------------------------------------------

\* Manifests of up to three files at any of three paths, well described and not.
SomeEntries == {First, Second, Third, [First EXCEPT !.blake3 = d2, !.url = {}],
                [Second EXCEPT !.bytes = 0],
                [First EXCEPT !.path = [at |-> 4, kind |-> "climbing", parquet |-> TRUE]]}
Selections == UNION {[1..n -> SomeEntries] : n \in 0..3}
Manifests ==
  {[m EXCEPT !.files = f] : m \in {Whole, Mirror, [Whole EXCEPT !.name = "part"]}, f \in Selections}
Valid == {m \in Manifests : validate(m)}

\* Manifest::identity: "does not move when entries are reordered in the file and
\* does move when any byte of the corpus does", nor with where a file is served.
ASSUME \A m, n \in Valid : identity(m) = identity(n) <=> m.name = n.name /\ Pins(m) = Pins(n)

\* Manifest::is_part_of: "provably a subset".
ASSUME \A m, n \in Valid : is_part_of(m, n) <=> IsSelection(m, n)

CommonFaults == FaultKinds \ {"source"}
=============================================================================
