----------------------------- MODULE CorpusStore -----------------------------
(***************************************************************************)
(* The content addressed store of crates/bench-corpus/src/store.rs, used   *)
(* by several iris-bench processes at once (one store shared by several    *)
(* checkouts is the supported arrangement) and by processes that die.      *)
(*                                                                         *)
(* An object is a file under objects/, named by a digest.  A write goes    *)
(* through a temporary file named by the digest and the process id, and is *)
(* renamed into place.  Each process has at most one call in flight; its   *)
(* steps are the points another process can see between.                   *)
(***************************************************************************)
EXTENDS FiniteSets

CONSTANTS
  Process,      \* process ids: each iris-bench process has its own
  Content,      \* complete byte strings; a truncated file is another content
  Digest,       \* the names objects are stored under
  DigestOf(_),  \* the BLAKE3 digest of a content
  Offered(_),   \* the contents a stream can deliver when the digest is wanted
  Absent,       \* no file at this path
  Partial,      \* a file that is open and not yet filled
  Faults        \* which of the failures below the environment may inflict

(***************************************************************************)
(* "crash": a process dies between two steps of a call.  "create",         *)
(* "write", "rename", "remove": the filesystem refuses that step (for      *)
(* "write" the reader may also be the one that fails).  "cleanup": removing *)
(* the temporary file after a failed write fails, which the code ignores.  *)
(* "source": a file is rewritten between two reads of it by one call.      *)
(***************************************************************************)
FaultKinds == {"crash", "create", "write", "rename", "remove", "cleanup", "source"}

ASSUME DigestAssumption ==
  /\ Content # {}
  /\ \A c \in Content : DigestOf(c) \in Digest
ASSUME OfferedAssumption == \A d \in Digest : Offered(d) \subseteq Content
ASSUME MarkerAssumption ==
  /\ Absent \notin Content
  /\ Partial \notin Content
  /\ Absent # Partial
ASSUME FaultsAssumption == Faults \subseteq FaultKinds

VARIABLES
  object,   \* object[d]: the file at path(d)
  temp,     \* temp[d][p]: the file .<d>.<p> beside it
  pc,       \* pc[p]: the next step of the call process p is in
  op,       \* op[p]: which insert it is
  want,     \* want[p]: the digest the call writes under
  bytes,    \* bytes[p]: what the call's reader delivers
  outcome   \* outcome[p]: how the call ended, once pc[p] = "returned"

storeVars == <<object, temp, pc, op, want, bytes, outcome>>

Steps == {"idle", "contains", "create", "fill", "rename", "settle", "returned"}
Ops == {"bytes", "file", "stream"}

\* Inserted { deduplicated: false }, Inserted { deduplicated: true },
\* StoreError::DigestMismatch, and StoreError::Io by what it was doing.
Outcomes ==
  {"stored", "deduplicated", "mismatch", "creating", "writing", "renaming", "removing"}

\* Every path holds a whole content, a file being filled, or nothing, and
\* every process is at a step of an insert with the locals that step has.
StoreTypeOK ==
  /\ object \in [Digest -> Content \cup {Absent, Partial}]
  /\ temp \in [Digest -> [Process -> Content \cup {Absent, Partial}]]
  /\ pc \in [Process -> Steps]
  /\ op \in [Process -> Ops]
  /\ want \in [Process -> Digest]
  /\ bytes \in [Process -> Content]
  /\ outcome \in [Process -> Outcomes]

\* What the locals of a call hold when no call is in flight.
NoDigest == CHOOSE d \in Digest : TRUE
NoBytes == CHOOSE c \in Content : TRUE

StoreInit ==
  /\ object = [d \in Digest |-> Absent]
  /\ temp = [d \in Digest |-> [p \in Process |-> Absent]]
  /\ pc = [p \in Process |-> "idle"]
  /\ op = [p \in Process |-> "bytes"]
  /\ want = [p \in Process |-> NoDigest]
  /\ bytes = [p \in Process |-> NoBytes]
  /\ outcome = [p \in Process |-> "stored"]

-----------------------------------------------------------------------------

\* contains: whether a file is at the path, whatever is in it.
Contains(d) == object[d] # Absent

\* verify: re-reads an object and compares it with its own name.
Verify(d) ==
  IF ~Contains(d) THEN "missing"
  ELSE IF DigestOf(object[d]) = d THEN "ok" ELSE "mismatch"

\* A second read of a file sees the same bytes unless it was rewritten.
Reread(c) == IF "source" \in Faults THEN Content ELSE {c}

Goto(p, step) == pc' = [pc EXCEPT ![p] = step]

\* The call is over, or the process is: its locals are gone.
Forget(p) ==
  /\ pc' = [pc EXCEPT ![p] = "idle"]
  /\ op' = [op EXCEPT ![p] = "bytes"]
  /\ want' = [want EXCEPT ![p] = NoDigest]
  /\ bytes' = [bytes EXCEPT ![p] = NoBytes]
  /\ outcome' = [outcome EXCEPT ![p] = "stored"]

Finish(p, how) ==
  /\ pc' = [pc EXCEPT ![p] = "returned"]
  /\ outcome' = [outcome EXCEPT ![p] = how]

Enter(p, o, d, c) ==
  /\ pc[p] = "idle"
  /\ op' = [op EXCEPT ![p] = o]
  /\ want' = [want EXCEPT ![p] = d]
  /\ bytes' = [bytes EXCEPT ![p] = c]
  /\ UNCHANGED <<object, temp>>

\* A slip in InsertBytes: the bytes are named before they are hashed.
InsertBytes_Unhashed(p, c) ==
  /\ Enter(p, "bytes", c, c)
  /\ Goto(p, "contains")
  /\ UNCHANGED outcome

\* insert_bytes: named by what it is.
InsertBytes(p, c) ==
  /\ Enter(p, "bytes", DigestOf(c), c)
  /\ Goto(p, "contains")
  /\ UNCHANGED outcome

\* insert_file: named by what a first read of the file hashed to.
InsertFile(p, c) ==
  /\ Enter(p, "file", DigestOf(c), c)
  /\ Goto(p, "contains")
  /\ UNCHANGED outcome

\* insert_verified: refused before anything is written when the file is not
\* what was promised; otherwise insert_file, which reads and hashes it again.
InsertVerified(p, c, wanted) ==
  IF DigestOf(c) # wanted
    THEN Enter(p, "file", wanted, c) /\ Finish(p, "mismatch")
    ELSE \E again \in Reread(c) : InsertFile(p, again)

\* insert_stream: named by what was promised, before a byte has arrived.
InsertStream(p, c, wanted) ==
  /\ c \in Offered(wanted)
  /\ Enter(p, "stream", wanted, c)
  /\ Goto(p, "contains")
  /\ UNCHANGED outcome

\* The question every insert asks first: a name that is taken is not written.
AskContains(p) ==
  /\ pc[p] = "contains"
  /\ IF Contains(want[p])
       THEN Finish(p, "deduplicated")
       ELSE Goto(p, "create") /\ UNCHANGED outcome
  /\ UNCHANGED <<object, temp, op, want, bytes>>

\* A slip in CreateTemporary: the file is created under its final name.
CreateTemporary_InPlace(p) ==
  /\ pc[p] = "create"
  /\ object' = [object EXCEPT ![want[p]] = Partial]
  /\ Goto(p, "fill")
  /\ UNCHANGED <<temp, op, want, bytes, outcome>>

\* write: the directory and the temporary file, truncated if it was there.
CreateTemporary(p) ==
  /\ pc[p] = "create"
  /\ temp' = [temp EXCEPT ![want[p]][p] = Partial]
  /\ Goto(p, "fill")
  /\ UNCHANGED <<object, op, want, bytes, outcome>>

CreateFails(p) ==
  /\ "create" \in Faults
  /\ pc[p] = "create"
  /\ Finish(p, "creating")
  /\ UNCHANGED <<object, temp, op, want, bytes>>

\* write: the copy loop, to the end of the reader, and sync_all.
FillTemporary(p) ==
  /\ pc[p] = "fill"
  /\ \E c \in (IF op[p] = "file" THEN Reread(bytes[p]) ELSE {bytes[p]}) :
       /\ bytes' = [bytes EXCEPT ![p] = c]
       /\ temp' = [temp EXCEPT ![want[p]][p] = c]
  /\ Goto(p, "rename")
  /\ UNCHANGED <<object, op, want, outcome>>

\* A slip in FillFails: the clean-up removes the path and not the temporary file.
FillFails_RemovesObject(p) ==
  /\ "write" \in Faults
  /\ pc[p] = "fill"
  /\ object' = [object EXCEPT ![want[p]] = Absent]
  /\ Finish(p, "writing")
  /\ UNCHANGED <<temp, op, want, bytes>>

\* A slip in FillFails: a failed copy is returned with `?` and nothing is cleaned up.
FillFails_LeavesTemporary(p) ==
  /\ "write" \in Faults
  /\ pc[p] = "fill"
  /\ Finish(p, "writing")
  /\ UNCHANGED <<object, temp, op, want, bytes>>

\* write: a read, a write or the sync failed, and the temporary file goes.
FillFails(p) ==
  /\ "write" \in Faults
  /\ pc[p] = "fill"
  /\ \/ temp' = [temp EXCEPT ![want[p]][p] = Absent]
     \/ "cleanup" \in Faults /\ UNCHANGED temp
  /\ Finish(p, "writing")
  /\ UNCHANGED <<object, op, want, bytes>>

\* A slip in RenameIntoPlace: a temporary name without the process id in it.
RenameIntoPlace_NoProcessId(p) ==
  /\ pc[p] = "rename"
  /\ \E q \in Process :
       /\ temp[want[p]][q] # Absent
       /\ object' = [object EXCEPT ![want[p]] = temp[want[p]][q]]
       /\ temp' = [temp EXCEPT ![want[p]][q] = Absent]
  /\ IF op[p] = "stream"
       THEN Goto(p, "settle") /\ UNCHANGED outcome
       ELSE Finish(p, "stored")
  /\ UNCHANGED <<op, want, bytes>>

\* write: the rename into place.  Only a stream still has something to check.
RenameIntoPlace(p) ==
  /\ pc[p] = "rename"
  /\ object' = [object EXCEPT ![want[p]] = temp[want[p]][p]]
  /\ temp' = [temp EXCEPT ![want[p]][p] = Absent]
  /\ IF op[p] = "stream"
       THEN Goto(p, "settle") /\ UNCHANGED outcome
       ELSE Finish(p, "stored")
  /\ UNCHANGED <<op, want, bytes>>

\* write: a refused rename is returned at once; the temporary file stays.
RenameFails(p) ==
  /\ "rename" \in Faults
  /\ pc[p] = "rename"
  /\ Finish(p, "renaming")
  /\ UNCHANGED <<object, temp, op, want, bytes>>

\* A slip in SettleMatch: the digest that came back is not compared.
SettleMatch_Unchecked(p) ==
  /\ pc[p] = "settle"
  /\ Finish(p, "stored")
  /\ UNCHANGED <<object, temp, op, want, bytes>>

\* insert_stream: the digest of what arrived is the digest that was wanted.
SettleMatch(p) ==
  /\ pc[p] = "settle"
  /\ DigestOf(bytes[p]) = want[p]
  /\ Finish(p, "stored")
  /\ UNCHANGED <<object, temp, op, want, bytes>>

\* A slip in SettleMismatch: the mismatch is reported and nothing is removed.
SettleMismatch_LeavesObject(p) ==
  /\ pc[p] = "settle"
  /\ DigestOf(bytes[p]) # want[p]
  /\ Finish(p, "mismatch")
  /\ UNCHANGED <<object, temp, op, want, bytes>>

\* insert_stream: it is not, and whatever is at the wanted name is removed.
\* Somebody else may have removed it already, which is an error here.
SettleMismatch(p) ==
  /\ pc[p] = "settle"
  /\ DigestOf(bytes[p]) # want[p]
  /\ object' = [object EXCEPT ![want[p]] = Absent]
  /\ Finish(p, IF Contains(want[p]) THEN "mismatch" ELSE "removing")
  /\ UNCHANGED <<temp, op, want, bytes>>

SettleRemoveFails(p) ==
  /\ "remove" \in Faults
  /\ pc[p] = "settle"
  /\ DigestOf(bytes[p]) # want[p]
  /\ Finish(p, "removing")
  /\ UNCHANGED <<object, temp, op, want, bytes>>

\* The caller takes the result.
Return(p) ==
  /\ pc[p] = "returned"
  /\ Forget(p)
  /\ UNCHANGED <<object, temp>>

\* The process dies; what it left on disk stays, and its id is used again.
Crash(p) ==
  /\ "crash" \in Faults
  /\ pc[p] # "idle"
  /\ Forget(p)
  /\ UNCHANGED <<object, temp>>

-----------------------------------------------------------------------------

Begin(p) ==
  \/ \E c \in Content : InsertBytes(p, c) \/ InsertFile(p, c)
  \/ \E c \in Content, d \in Digest : InsertVerified(p, c, d)
  \/ \E d \in Digest : \E c \in Offered(d) : InsertStream(p, c, d)

\* The steps of a call that is in flight, up to its result.
Proceed(p) ==
  \/ AskContains(p)
  \/ CreateTemporary(p)
  \/ FillTemporary(p)
  \/ RenameIntoPlace(p)
  \/ SettleMatch(p)
  \/ SettleMismatch(p)

\* The steps the environment refuses.
Refused(p) ==
  \/ CreateFails(p)
  \/ FillFails(p)
  \/ RenameFails(p)
  \/ SettleRemoveFails(p)

Work(p) == Proceed(p) \/ Refused(p)

StoreNext == \E p \in Process : Begin(p) \/ Work(p) \/ Return(p) \/ Crash(p)

StoreSpec == StoreInit /\ [][StoreNext]_storeVars

-----------------------------------------------------------------------------

\* A stream call whose bytes are not what was wanted and which has them, or
\* is about to have them, at the wanted name.
Mismatching(p, d) == want[p] = d /\ DigestOf(bytes[p]) # d
Settling(p, d) == pc[p] = "settle" /\ Mismatching(p, d)

\* "A process that dies halfway through leaves a temporary file rather than
\* a truncated object": whatever dies and whatever the filesystem refuses,
\* no object is ever a file that was still being filled.
NeverTruncated == \A d \in Digest : object[d] # Partial

\* Two processes writing the same object never mix their bytes: what a
\* rename puts at a name is exactly what the renaming process itself read,
\* which is what the process id in the temporary name is for.
PublishesOwnBytes ==
  [][\A p \in Process :
       pc[p] = "rename" /\ pc'[p] \in {"settle", "returned"} /\ object' # object
         => object'[want[p]] = bytes[p]]_storeVars

\* What the store guarantees of a content under a wrong name while nothing
\* dies in between: it is there only as long as the stream that brought it,
\* or another mismatching stream for the same name, has not yet removed it.
MismatchIsPending ==
  Faults \cap {"crash", "remove", "source"} = {} =>
    \A d \in Digest :
      Verify(d) = "mismatch" => \E p \in Process : Settling(p, d)

\* Whatever fails: a name only ever comes to hold something that is not its
\* own content, or loses its content, at the hands of a stream for that very
\* name whose bytes are wrong.  No other call disturbs an object.
DisturbedOnlyByMismatch ==
  [][\A d \in Digest :
       "source" \notin Faults /\ object'[d] # object[d] /\ Verify(d)' # "ok"
         => \E p \in Process :
              /\ op[p] = "stream"
              /\ Mismatching(p, d)
              /\ pc[p] \in {"rename", "settle"}]_storeVars

\* No call reports bytes as stored under a name they do not hash to, though
\* a stream is renamed into place before its digest is known.
StoredWasChecked ==
  "source" \notin Faults =>
    \A p \in Process :
      pc[p] = "returned" /\ outcome[p] = "stored" => ~Mismatching(p, want[p])

\* A temporary file belongs to a call that is filling or renaming it: ended
\* calls, refused ones included, leave none behind unless the process died
\* or the filesystem refused the rename or the clean-up.
NoStrayTemporaries ==
  Faults \cap {"crash", "rename", "cleanup"} = {} =>
    \A d \in Digest, p \in Process :
      temp[d][p] # Absent => pc[p] \in {"fill", "rename"} /\ want[p] = d

-----------------------------------------------------------------------------

\* Every stream delivers what its digest promises and files hold still.
Honest ==
  /\ "source" \notin Faults
  /\ \A d \in Digest : \A c \in Offered(d) : DigestOf(c) = d

\* The refinement mapping: an object is held when it hashes to its name.
held == {d \in Digest : Verify(d) = "ok"}
answer ==
  [p \in Process |->
     IF pc[p] = "returned" THEN <<want[p], outcome[p]>> ELSE <<>>]

Promise == INSTANCE ContentStore WITH
  Successes <- {"stored", "deduplicated"},
  Answers <- Outcomes,
  Silent <- <<>>

\* With honest streams (Honest) the store is ContentStore: names are only ever added,
\* and a call that reports success, "deduplicated" included, names an object
\* that is there and hashes to its name, through crashes and refused writes.
KeepsPromise == Promise!ContentSpec

-----------------------------------------------------------------------------
(* What the source says of itself and TLC refutes.                          *)

\* insert_stream: "a mismatch never reaches a path that asserts its own
\* content"; "an object in this store hashes to its own name".
ObjectsHashToName == \A d \in Digest : Verify(d) # "mismatch"

\* The same, asked only when no process is in the middle of anything: the
\* object at a name "that asserts its own content" that "this store exists
\* to make impossible" is there with nobody left to remove it.
QuietStoreHashesToName ==
  (\A p \in Process : pc[p] = "idle") => ObjectsHashToName

\* write: two processes writing the same object "is harmless": a content
\* that is under its own name stays there.
GoodObjectsStay ==
  [][\A d \in Digest : Verify(d) = "ok" => Verify(d)' = "ok"]_storeVars

=============================================================================
