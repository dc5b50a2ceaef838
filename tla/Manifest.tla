------------------------------ MODULE Manifest ------------------------------
(***************************************************************************)
(* What a corpus is, written down and checkable: Manifest of               *)
(* crates/bench-corpus/src/manifest.rs.  A manifest is a record with the   *)
(* fields of the TOML file; an optional field is a set of at most one      *)
(* value.  A text is "" when it is blank.  A path is [at, kind, parquet]:  *)
(* its place in the byte order of paths, whether it is blank, absolute,    *)
(* climbing (it has a parent segment) or inside, and whether its extension *)
(* is parquet.  assertions is [rows, columns], each a set of at most one.  *)
(* toml says that the file is there and is the TOML this format is.        *)
(***************************************************************************)
EXTENDS Naturals, Sequences, FiniteSets

Category == {"generate", "fetch", "mirror"}
PathKinds == {"blank", "absolute", "climbing", "inside"}

\* An entry over a set of digests and a set of sizes.
EntryOf(Digests, Sizes) ==
  [path : [at : Nat, kind : PathKinds, parquet : BOOLEAN], blake3 : Digests, bytes : Sizes,
   url : SUBSET STRING]

Entries(m) == {m.files[i] : i \in DOMAIN m.files}
Given(option) == \E text \in option : text # ""

Described(m) == "" \notin {m.name, m.description, m.source, m.licence}

\* A mirrored corpus says what permits it.
Permitted(m) == m.category = "mirror" => Given(m.licence_note)

\* A slip in Served: one address stands for all.
Served_Some(m) == m.category = "mirror" => \E e \in Entries(m) : Given(e.url)

\* A mirrored corpus says of every file where it is served from.
Served(m) == m.category = "mirror" => \A e \in Entries(m) : Given(e.url)

NotCircular(m) == \A whole \in m.part_of : whole \notin {"", m.name}

\* A corpus comes from a generator or from an address.
OneOrigin(m) == m.category = "generate" <=> m.generator # {}

\* Generator::validate.  A platform is [os, lower]: which one, and whether it
\* is spelled in lower case with no blanks around it.
GeneratorStands(g) ==
  /\ "" \notin {g.program, g.version}
  /\ g.version_arguments # <<>>
  /\ g.platforms # {}
  /\ \A platform \in g.platforms : platform.os # "" /\ platform.lower

\* Entry::validate.
EntryStands(e) == e.path.kind = "inside" /\ e.bytes # 0

NoneTwice(m) ==
  \A i, j \in DOMAIN m.files : m.files[i].path = m.files[j].path => i = j

validate(m) ==
  /\ Described(m)
  /\ Permitted(m)
  /\ Served(m)
  /\ NotCircular(m)
  /\ OneOrigin(m)
  /\ \A g \in m.generator : GeneratorStands(g)
  /\ m.files # <<>>
  /\ \A e \in Entries(m) : EntryStands(e)
  /\ NoneTwice(m)

\* Manifest::read, of the file in a directory of that name.
read(m, directory) == m.toml /\ validate(m) /\ m.name = directory

-----------------------------------------------------------------------------

\* The entries sorted by path, whatever their order in the file.
SortedByPath(m) ==
  CHOOSE s \in [DOMAIN m.files -> Entries(m)] :
    /\ {s[i] : i \in DOMAIN s} = Entries(m)
    /\ \A i, j \in DOMAIN s : i < j => s[i].path.at <= s[j].path.at

\* What Manifest::identity hashes, the hash taken to tell all texts apart
\* and a text to end where its separator says: the url is not in it.
identity(m) ==
  LET sorted == SortedByPath(m) IN
  <<m.name, [i \in DOMAIN sorted |-> <<sorted[i].path, sorted[i].blake3, sorted[i].bytes>>]>>

\* The same file: the same path, digest and size, wherever it comes from.
SameFile(e, f) == e.path = f.path /\ e.blake3 = f.blake3 /\ e.bytes = f.bytes

is_part_of(part, whole) ==
  /\ Len(part.files) < Len(whole.files)
  /\ \A e \in Entries(part) : \E f \in Entries(whole) : SameFile(e, f)

-----------------------------------------------------------------------------
(* What a manifest is for, said without the order in which it is checked.   *)

PinOf(e) == <<e.path, e.blake3, e.bytes>>
Pins(m) == {PinOf(e) : e \in Entries(m)}

\* A manifest pins: at least one file, one size and digest for each path,
\* every path a name inside the corpus, no size of nothing, and one origin
\* for every file.
PinsItsFiles(m) ==
  /\ Entries(m) # {}
  /\ \A i, j \in DOMAIN m.files : m.files[i].path = m.files[j].path => i = j
  /\ \A e \in Entries(m) : e.path.kind = "inside" /\ e.bytes > 0
  /\ m.category = "mirror" => \A e \in Entries(m) : Given(e.url)

\* A part is a selection: its pins are some and not all of the whole's.
IsSelection(part, whole) == Pins(part) \subseteq Pins(whole) /\ Pins(part) # Pins(whole)

=============================================================================
