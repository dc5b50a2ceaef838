----------------------------- MODULE CorpusEntry -----------------------------
(***************************************************************************)
(* What a fetched and a generated corpus have done to them alike.  An      *)
(* entry's bytes go through insert_stream with a counting reader around    *)
(* them, and what came back is judged, the size first and the store's      *)
(* answer second (fetch.rs, generate.rs).  Then the corpus is measured     *)
(* from its Parquet footers and compared with what the manifest asserts    *)
(* (shape.rs), file by file, with other commands at work in between.       *)
(*                                                                         *)
(* The entries are those of the manifest the process read when it started. *)
(***************************************************************************)
EXTENDS CorpusStore, Manifest

CONSTANTS
  NameOf(_),    \* NameOf(p): the corpus process p is asked for, and a directory's name
  ManifestOf(_),\* ManifestOf(p): the manifest in that directory
  SizeOf(_),    \* the length of a content in bytes
  Footer(_),    \* its Parquet footer: no or one [rows, columns]
  MaxTrouble    \* bound: how many times the environment may inflict a fault

Files(p) == ManifestOf(p).files

ASSUME FilesAssumption ==
  \A p \in Process : Files(p) \in Seq(EntryOf(Digest, Nat))
ASSUME SizeAssumption == \A c \in Content : SizeOf(c) \in Nat
ASSUME FooterAssumption ==
  \A c \in Content : /\ Footer(c) \subseteq [rows : Nat, columns : Nat]
                     /\ \A f, g \in Footer(c) : f = g
ASSUME TroubleAssumption == MaxTrouble \in Nat

VARIABLES
  trouble,   \* how many faults there have been
  measured   \* measured[p]: of_corpus's rows so far, and the columns once a file has set them

\* Counting::seen when insert_stream comes back.  A deduplicated stream is
\* not read at all, nor is one whose temporary file could not be created.
SeenBy(p) ==
  CASE outcome[p] \in {"deduplicated", "creating"} -> {0}
    [] outcome[p] = "writing" -> 0..SizeOf(bytes[p])
    [] OTHER -> {SizeOf(bytes[p])}

\* A slip in Judge: the size decides and the store is not listened to.
Judge_SizeOnly(p, entry, seen) ==
  IF seen # entry.bytes THEN "size" ELSE "ok"

\* The tail of one(): the size is judged before the store's answer is.
Judge(p, entry, seen) ==
  CASE seen # entry.bytes -> "size"
    [] seen = entry.bytes /\ outcome[p] = "mismatch" -> "digest"
    [] seen = entry.bytes /\ outcome[p] \in {"stored", "deduplicated"} -> "ok"
    [] OTHER -> "store"

\* Faults are spent from a budget, so that they are not for ever.
NoTrouble == UNCHANGED trouble
Trouble == trouble < MaxTrouble /\ trouble' = trouble + 1

\* One step of the store inside a call.
StoreStep(p) ==
  \/ Proceed(p) /\ NoTrouble
  \/ Refused(p) /\ Trouble

\* A name whose server, or generator, delivers what the name promises.
HonestName(d) == \A c \in Offered(d) : DigestOf(c) = d

Held(p, i) == Verify(Files(p)[i].blake3) = "ok"

\* What of_corpus's locals hold before the first file, and where there are none.
Unmeasured == [rows |-> 0, columns |-> {}]
Unmeasure(p) == measured' = [measured EXCEPT ![p] = Unmeasured]

\* is_parquet: decided by the path, not by the bytes.
Readable(p) == \E e \in Entries(ManifestOf(p)) : e.path.parquet

\* of_corpus at one entry: what is not Parquet by its path is not looked at,
\* what is has to be there, to have a footer, and as many columns as the first.
JudgeFooter(p, entry) ==
  CASE ~entry.path.parquet -> "ok"
    [] entry.path.parquet /\ ~Contains(entry.blake3) -> "missing"
    [] OTHER ->
         IF \E f \in Footer(object[entry.blake3]) : measured[p].columns \subseteq {f.columns}
           THEN "ok" ELSE "shape"

\* of_corpus: rows are summed over the files that are read.
AfterFooter(p, entry) ==
  IF ~entry.path.parquet THEN measured[p]
  ELSE LET f == CHOOSE f \in Footer(object[entry.blake3]) : TRUE IN
       [rows |-> measured[p].rows + f.rows, columns |-> {f.columns}]

\* check: an assertion needs a footer to be checked against, and to be true.
AsAsserted(p) ==
  LET asserted == ManifestOf(p).assertions IN
  /\ asserted.rows \cup asserted.columns # {} => Readable(p)
  /\ asserted.rows \subseteq {measured[p].rows}
  /\ asserted.columns \subseteq measured[p].columns

=============================================================================
