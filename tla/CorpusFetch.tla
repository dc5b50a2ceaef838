----------------------------- MODULE CorpusFetch -----------------------------
(***************************************************************************)
(* `iris-bench corpus <name>` for a fetched or mirrored corpus, run by     *)
(* several processes over one store: fetch::corpus of                      *)
(* crates/bench-corpus/src/fetch.rs, then shape::check, as the command in  *)
(* crates/bench-cli/src/corpus.rs orders them, and the person who runs a   *)
(* command that failed again.                                              *)
(***************************************************************************)
EXTENDS CorpusEntry

\* The command turns to a generator for a generated corpus, and to fetch::corpus
\* for every other kind.
ASSUME FetchedAssumption ==
  \A p \in Process :
    read(ManifestOf(p), NameOf(p)) => ManifestOf(p).category # "generate"

VARIABLES
  stage,     \* stage[p]: where the command is
  next,      \* next[p]: the entry it is at
  fallenBack,\* fallenBack[p]: Client::fallen_back
  reason     \* reason[p]: why the command failed, when it has

fetchVars == <<storeVars, trouble, measured, stage, next, fallenBack, reason>>

Stages == {"start", "entry", "request", "storing", "shape", "ready", "failed"}
Reasons ==
  {"none", "manifest", "nourl", "request", "status", "size", "digest", "store", "missing", "shape"}

\* A command is at an entry of its manifest, or past the last, with a reason
\* of fetch.rs when it failed, over a well typed store.
FetchTypeOK ==
  /\ StoreTypeOK
  /\ trouble \in 0..MaxTrouble
  /\ measured \in [Process -> [rows : Nat, columns : SUBSET Nat]]
  /\ stage \in [Process -> Stages]
  /\ \A p \in Process : next[p] \in 1..(Len(Files(p)) + 1)
  /\ fallenBack \in [Process -> BOOLEAN]
  /\ reason \in [Process -> Reasons]

FetchInit ==
  /\ StoreInit
  /\ trouble = 0
  /\ measured = [p \in Process |-> Unmeasured]
  /\ stage = [p \in Process |-> "start"]
  /\ next = [p \in Process |-> 1]
  /\ fallenBack = [p \in Process |-> FALSE]
  /\ reason = [p \in Process |-> "none"]

Entry(p) == Files(p)[next[p]]
Last(p) == next[p] > Len(Files(p))

To(p, s) == stage' = [stage EXCEPT ![p] = s]
Advance(p) == next' = [next EXCEPT ![p] = @ + 1]

Fail(p, why) ==
  /\ To(p, "failed")
  /\ reason' = [reason EXCEPT ![p] = why]

\* The manifest is read and validated, and fetch::corpus starts with a new
\* Client, which has not fallen back.
Start(p) ==
  /\ stage[p] = "start"
  /\ IF read(ManifestOf(p), NameOf(p))
       THEN To(p, "entry") /\ UNCHANGED reason
       ELSE Fail(p, "manifest")
  /\ next' = [next EXCEPT ![p] = 1]
  /\ fallenBack' = [fallenBack EXCEPT ![p] = FALSE]
  /\ UNCHANGED <<storeVars, trouble, measured>>

\* The address of an entry is its own, or its path resolved against a source
\* that is a URL, or there is none.
url_for(m, e) ==
  IF Given(e.url) THEN "own" ELSE IF m.source = "url" THEN "source" ELSE "none"

\* one: an entry the store has is not requested.
HaveEntry(p) ==
  /\ stage[p] = "entry" /\ ~Last(p)
  /\ Contains(Entry(p).blake3)
  /\ Advance(p)
  /\ UNCHANGED <<storeVars, trouble, measured, stage, fallenBack, reason>>

\* A slip in WantEntry: an entry is requested whether or not the store has it.
WantEntry_Unasked(p) ==
  /\ stage[p] = "entry" /\ ~Last(p)
  /\ IF url_for(ManifestOf(p), Entry(p)) # "none"
       THEN To(p, "request") /\ UNCHANGED reason
       ELSE Fail(p, "nourl")
  /\ UNCHANGED <<storeVars, trouble, measured, next, fallenBack>>

\* one: otherwise its URL is worked out.
WantEntry(p) ==
  /\ stage[p] = "entry" /\ ~Last(p)
  /\ ~Contains(Entry(p).blake3)
  /\ IF url_for(ManifestOf(p), Entry(p)) # "none"
       THEN To(p, "request") /\ UNCHANGED reason
       ELSE Fail(p, "nourl")
  /\ UNCHANGED <<storeVars, trouble, measured, next, fallenBack>>

\* The far end answers and the body is handed to insert_stream.
Body(p) ==
  /\ \E c \in Content : InsertStream(p, c, Entry(p).blake3)
  /\ To(p, "storing")
  /\ UNCHANGED <<next, reason>>

\* Client::get: an answer over whichever family resolves first, or over IPv4
\* when that is what this client has come to use.
GetAnswered(p) ==
  /\ stage[p] = "request"
  /\ Body(p)
  /\ UNCHANGED <<trouble, measured, fallenBack>>

\* Client::get: the first family does not connect and IPv4 answers.
GetFallsBack(p) ==
  /\ stage[p] = "request" /\ ~fallenBack[p]
  /\ Body(p)
  /\ fallenBack' = [fallenBack EXCEPT ![p] = TRUE]
  /\ UNCHANGED <<trouble, measured>>

\* Client::get: a status from the family in use, or no connection.  A status
\* that IPv4 gives during the first fallback is reported as the failed
\* request that led to it, and the fallback is not remembered.
GetFails(p) ==
  /\ stage[p] = "request"
  /\ Trouble
  /\ Fail(p, "status") \/ Fail(p, "request")
  /\ UNCHANGED <<storeVars, measured, next, fallenBack>>

\* one: insert_stream at work.
Storing(p) ==
  /\ stage[p] = "storing"
  /\ StoreStep(p)
  /\ UNCHANGED <<measured, stage, next, fallenBack, reason>>

\* one: insert_stream is back, and what came back is judged.
Stored(p) ==
  /\ stage[p] = "storing"
  /\ Return(p)
  /\ \E seen \in SeenBy(p) :
       LET verdict == Judge(p, Entry(p), seen) IN
       IF verdict = "ok"
         THEN Advance(p) /\ To(p, "entry") /\ UNCHANGED reason
         ELSE Fail(p, verdict) /\ UNCHANGED next
  /\ UNCHANGED <<trouble, measured, fallenBack>>

\* fetch::corpus returns Ok, and the command turns to shape::check.
Fetched(p) ==
  /\ stage[p] = "entry" /\ Last(p)
  /\ To(p, "shape")
  /\ next' = [next EXCEPT ![p] = 1]
  /\ Unmeasure(p)
  /\ UNCHANGED <<storeVars, trouble, fallenBack, reason>>

\* of_corpus: the corpus is measured file by file.
CheckShape(p) ==
  /\ stage[p] = "shape" /\ ~Last(p)
  /\ LET verdict == JudgeFooter(p, Entry(p)) IN
     IF verdict = "ok"
       THEN /\ Advance(p)
            /\ measured' = [measured EXCEPT ![p] = AfterFooter(p, Entry(p))]
            /\ UNCHANGED <<stage, reason>>
       ELSE Fail(p, verdict) /\ Unmeasure(p) /\ UNCHANGED next
  /\ UNCHANGED <<storeVars, trouble, fallenBack>>

\* of_file: a file that is there cannot be opened.
OpenFails(p) ==
  /\ stage[p] = "shape" /\ ~Last(p)
  /\ Entry(p).path.parquet
  /\ Trouble
  /\ Fail(p, "shape")
  /\ UNCHANGED <<storeVars, measured, next, fallenBack>>

\* check: what was measured is what the manifest asserts, or the command fails.
Ready(p) ==
  /\ stage[p] = "shape" /\ Last(p)
  /\ IF AsAsserted(p)
       THEN To(p, "ready") /\ UNCHANGED reason
       ELSE Fail(p, "shape")
  /\ Unmeasure(p)
  /\ UNCHANGED <<storeVars, trouble, next, fallenBack>>

\* Somebody runs the command that failed again.
Rerun(p) ==
  /\ stage[p] = "failed"
  /\ To(p, "start")
  /\ next' = [next EXCEPT ![p] = 1]
  /\ reason' = [reason EXCEPT ![p] = "none"]
  /\ Unmeasure(p)
  /\ UNCHANGED <<storeVars, trouble, fallenBack>>

\* The process dies wherever it is, and is started again by hand.
Die(p) ==
  /\ stage[p] \in {"entry", "request", "storing", "shape"}
  /\ "crash" \in Faults
  /\ Trouble
  /\ IF pc[p] = "idle" THEN UNCHANGED storeVars ELSE Crash(p)
  /\ To(p, "start")
  /\ next' = [next EXCEPT ![p] = 1]
  /\ Unmeasure(p)
  /\ UNCHANGED <<fallenBack, reason>>

\* What the program does when nothing goes wrong around it.
Run(p) ==
  \/ Start(p)
  \/ HaveEntry(p) \/ WantEntry(p)
  \/ GetAnswered(p) \/ GetFallsBack(p)
  \/ Storing(p) \/ Stored(p)
  \/ Fetched(p) \/ CheckShape(p) \/ Ready(p)

FetchNext == \E p \in Process : Run(p) \/ GetFails(p) \/ OpenFails(p) \/ Rerun(p) \/ Die(p)

FetchSpec == FetchInit /\ [][FetchNext]_fetchVars

\* A command that can go on goes on: there is no lock and no wait in the
\* code, and a stream that is being read ends.  Failed commands are run again.
FetchFair ==
  \A p \in Process :
    WF_fetchVars(Run(p)) /\ WF_fetchVars(Rerun(p))
FetchFairSpec == FetchSpec /\ FetchFair

-----------------------------------------------------------------------------

\* The entries a command counts on: all of them once fetch::corpus is back.
Passed(p) ==
  CASE stage[p] \in {"shape", "ready"} -> 1..Len(Files(p))
    [] stage[p] \in {"entry", "request", "storing"} -> 1..(next[p] - 1)
    [] OTHER -> {}

\* Every entry a command has passed, whether it downloaded the bytes or found
\* them, stays in the store under its own digest, while other commands fetch
\* and fail and whatever the servers of other names send.
PassedHonestEntriesHeld ==
  \A p \in Process : \A i \in Passed(p) :
    HonestName(Files(p)[i].blake3) => Held(p, i)

\* Another command may put an object at the name d.
AlsoFetched(p, d) ==
  \E q \in Process \ {p} :
    /\ read(ManifestOf(q), NameOf(q))
    /\ \E e \in Entries(ManifestOf(q)) :
         e.blake3 = d /\ url_for(ManifestOf(q), e) # "none"

\* fetch.rs: "it has already refused and removed whatever arrived either
\* way": a fetch refused for its size or its digest leaves no object at the
\* name the entry pinned, when no other command is fetching it too.
RefusedLeavesNothing ==
  \A p \in Process :
    /\ stage[p] = "failed" /\ reason[p] \in {"size", "digest"}
    /\ ~AlsoFetched(p, Entry(p).blake3)
    => ~Contains(Entry(p).blake3)

\* corpus.rs: "a corpus that describes itself badly never reaches the network
\* or a generator": whatever a command asks for, stores or calls ready is of a
\* corpus that pins every one of its files, and a mirrored file is asked for at
\* its own address and never at the place the mirror exists because of.
ReachedIsPinned ==
  \A p \in Process :
    /\ stage[p] \notin {"start", "failed"} => PinsItsFiles(ManifestOf(p))
    /\ stage[p] \in {"request", "storing"} /\ ManifestOf(p).category = "mirror"
         => url_for(ManifestOf(p), Entry(p)) = "own"

\* Files of a corpus are fetched one by one and kept, so a command that is
\* run again after crashes and failures gets to the end of the corpus.
EventuallyReady == \A p \in Process : <>(stage[p] = "ready")

-----------------------------------------------------------------------------
(* What the source says of itself and TLC refutes.                          *)

\* fetch.rs: "a fetch gets the bytes a manifest named, or it fails".
FetchedIsWhatWasNamed ==
  \A p \in Process : \A i \in Passed(p) : Held(p, i)

\* With nothing going wrong, right manifests and honest servers, no command
\* fails: filling a store from two processes at once is "harmless".
NobodyFails == \A p \in Process : stage[p] # "failed"

=============================================================================
