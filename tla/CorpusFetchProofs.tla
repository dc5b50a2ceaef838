-------------------------- MODULE CorpusFetchProofs --------------------------
(***************************************************************************)
(* What a manifest that validates is good for, for every manifest, that a  *)
(* command gets past "start" with no other, that a fetch uses the store in *)
(* no way the store does not allow, and that what a command has passed     *)
(* stays, for any number of commands.                                      *)
(***************************************************************************)
EXTENDS CorpusFetch, CorpusStoreProofs, FiniteSetTheorems

\* A manifest as the parser makes it: its entries are a sequence of entries.
IsParsed(m) == \E Digests : m.files \in Seq(EntryOf(Digests, Nat))

LEMMA EntriesAreTyped ==
  ASSUME NEW m, NEW D, m.files \in Seq(EntryOf(D, Nat))
  PROVE  /\ DOMAIN m.files = 1..Len(m.files)
         /\ Len(m.files) \in Nat
         /\ \A i \in DOMAIN m.files : m.files[i] \in EntryOf(D, Nat)
OBVIOUS

\* Manifest::validate: whatever manifest passes it pins its files.
LEMMA ValidPinsItsFiles ==
  ASSUME NEW m, IsParsed(m), validate(m)
  PROVE  PinsItsFiles(m)
<1>1. PICK D : m.files \in Seq(EntryOf(D, Nat))
  BY DEF IsParsed
<1>2. Entries(m) # {}
  <2>1. m.files # <<>>
    BY DEF validate
  <2>2. 1 \in DOMAIN m.files
    BY <1>1, <2>1
  <2> QED
    BY <2>2 DEF Entries
<1>3. \A i, j \in DOMAIN m.files : m.files[i].path = m.files[j].path => i = j
  BY DEF validate, NoneTwice
<1>4. ASSUME NEW e \in Entries(m)
      PROVE  e.path.kind = "inside" /\ e.bytes > 0
  <2>1. e \in EntryOf(D, Nat)
    BY <1>1, <1>4, EntriesAreTyped DEF Entries
  <2>2. e.bytes \in Nat
    BY <2>1 DEF EntryOf
  <2>3. EntryStands(e)
    BY <1>4 DEF validate
  <2> QED
    BY <2>2, <2>3 DEF EntryStands
<1>5. m.category = "mirror" => \A e \in Entries(m) : Given(e.url)
  BY DEF validate, Served
<1> QED
  BY <1>2, <1>3, <1>4, <1>5 DEF PinsItsFiles

\* A manifest whose paths are all different has as many pins as files.
LEMMA PinsAreCounted ==
  ASSUME NEW m, IsParsed(m), NoneTwice(m)
  PROVE  Cardinality(Pins(m)) = Len(m.files)
<1>1. PICK D : m.files \in Seq(EntryOf(D, Nat))
  BY DEF IsParsed
<1> DEFINE pin == [i \in 1..Len(m.files) |-> PinOf(m.files[i])]
<1>2. Len(m.files) \in Nat /\ DOMAIN m.files = 1..Len(m.files)
  BY <1>1, EntriesAreTyped
<1>3. pin \in [1..Len(m.files) -> Pins(m)]
  BY <1>2 DEF Pins, Entries
<1>4. ASSUME NEW i \in 1..Len(m.files), NEW j \in 1..Len(m.files), pin[i] = pin[j]
      PROVE  i = j
  <2>1. PinOf(m.files[i]) = PinOf(m.files[j])
    BY <1>4
  <2>2. m.files[i].path = m.files[j].path
    BY <2>1 DEF PinOf
  <2> QED
    BY <1>2, <2>2 DEF NoneTwice
<1>5. \A x \in Pins(m) : \E i \in 1..Len(m.files) : pin[i] = x
  BY <1>2 DEF Pins, Entries
<1>6. pin \in Bijection(1..Len(m.files), Pins(m))
  BY <1>3, <1>4, <1>5 DEF Bijection, Injection, Surjection, IsInjective
<1>7. ExistsBijection(1..Len(m.files), Pins(m))
  BY <1>6 DEF ExistsBijection
<1> QED
  BY <1>2, <1>7, FS_CountingElements

\* Manifest::is_part_of: "a subset is only worth naming if it is provably a
\* subset": of manifests that validate, a part is a selection of the whole.
THEOREM PartIsSelection ==
  ASSUME NEW part, NEW whole, IsParsed(part), IsParsed(whole),
         validate(part), validate(whole), is_part_of(part, whole)
  PROVE  IsSelection(part, whole)
<1>1. Pins(part) \subseteq Pins(whole)
  <2>1. ASSUME NEW e \in Entries(part)
        PROVE  \E f \in Entries(whole) : PinOf(e) = PinOf(f)
    BY <2>1 DEF is_part_of, SameFile, PinOf
  <2> QED
    BY <2>1 DEF Pins
<1>2. /\ Cardinality(Pins(part)) = Len(part.files)
      /\ Cardinality(Pins(whole)) = Len(whole.files)
  BY PinsAreCounted DEF validate
<1>3. Len(part.files) < Len(whole.files)
  BY DEF is_part_of
<1>4. Len(whole.files) \in Nat /\ Len(part.files) \in Nat
  BY EntriesAreTyped DEF IsParsed
<1>5. Pins(part) # Pins(whole)
  BY <1>2, <1>3, <1>4
<1> QED
  BY <1>1, <1>5 DEF IsSelection

\* A part of a part is a part of the whole: a chain of part_of claims is sound.
THEOREM PartsOfParts ==
  ASSUME NEW a, NEW b, NEW c, IsParsed(a), IsParsed(b), IsParsed(c),
         is_part_of(a, b), is_part_of(b, c)
  PROVE  is_part_of(a, c)
<1>1. Len(a.files) \in Nat /\ Len(b.files) \in Nat /\ Len(c.files) \in Nat
  BY EntriesAreTyped DEF IsParsed
<1>2. Len(a.files) < Len(c.files)
  BY <1>1 DEF is_part_of
<1>3. ASSUME NEW e \in Entries(a)
      PROVE  \E g \in Entries(c) : SameFile(e, g)
  <2>1. PICK f \in Entries(b) : SameFile(e, f)
    BY <1>3 DEF is_part_of
  <2>2. PICK g \in Entries(c) : SameFile(f, g)
    BY <2>1 DEF is_part_of
  <2> QED
    BY <2>1, <2>2 DEF SameFile
<1> QED
  BY <1>2, <1>3 DEF is_part_of

-----------------------------------------------------------------------------

\* Where a command has come with its manifest: past "start" it was accepted,
\* and an entry that is asked for is one of its entries.
Standing(p) ==
  /\ stage[p] \notin {"start", "failed"} => read(ManifestOf(p), NameOf(p))
  /\ stage[p] \in {"request", "storing"} => next[p] \in 1..Len(Files(p))
  /\ next[p] \in 1..(Len(Files(p)) + 1)

FetchInv ==
  /\ stage \in [Process -> Stages]
  /\ next \in [Process -> Nat \ {0}]
  /\ \A p \in Process : Standing(p)

LEMMA FilesAreTyped ==
  ASSUME NEW p \in Process
  PROVE  /\ IsParsed(ManifestOf(p))
         /\ Len(Files(p)) \in Nat /\ DOMAIN Files(p) = 1..Len(Files(p))
<1>1. ManifestOf(p).files \in Seq(EntryOf(Digest, Nat))
  BY FilesAssumption DEF Files
<1>2. IsParsed(ManifestOf(p))
  BY <1>1 DEF IsParsed
<1> QED
  BY <1>1, <1>2, EntriesAreTyped DEF Files

LEMMA StandingStarts == FetchInit => FetchInv
  BY FilesAreTyped DEF FetchInit, FetchInv, Standing, Stages

LEMMA StandingKept == FetchInv /\ [FetchNext]_fetchVars => FetchInv'
<1> SUFFICES ASSUME FetchInv, [FetchNext]_fetchVars
             PROVE  FetchInv'
  OBVIOUS
<1>1. CASE UNCHANGED fetchVars
  BY <1>1 DEF FetchInv, Standing, fetchVars
<1>2. ASSUME NEW p \in Process, Run(p) \/ GetFails(p) \/ OpenFails(p) \/ Rerun(p) \/ Die(p)
      PROVE  FetchInv'
  <2> USE DEF FetchInv, Standing, Stages, To, Fail, Advance, Last
  <2>0. Len(Files(p)) \in Nat /\ stage \in [Process -> Stages] /\ next \in [Process -> Nat \ {0}]
    BY FilesAreTyped DEF FetchInv
  <2>1. CASE Start(p)
    BY <2>0, <2>1 DEF Start
  <2>2. CASE HaveEntry(p)
    BY <2>0, <2>2 DEF HaveEntry
  <2>3. CASE WantEntry(p)
    BY <2>0, <2>3 DEF WantEntry
  <2>4. CASE GetAnswered(p) \/ GetFallsBack(p)
    BY <2>0, <2>4 DEF GetAnswered, GetFallsBack, Body
  <2>5. CASE Storing(p)
    BY <2>0, <2>5 DEF Storing
  <2>6. CASE Stored(p)
    <3>1. next[p] \in 1..Len(Files(p)) /\ stage[p] = "storing" /\ read(ManifestOf(p), NameOf(p))
      BY <2>6 DEF Stored
    <3>2. \/ next' = [next EXCEPT ![p] = @ + 1] /\ stage' = [stage EXCEPT ![p] = "entry"]
          \/ next' = next /\ stage' = [stage EXCEPT ![p] = "failed"]
      BY <2>6 DEF Stored
    <3>3. next[p] + 1 \in 1..(Len(Files(p)) + 1) /\ next[p] + 1 \in Nat \ {0}
      BY <2>0, <3>1
    <3>4. CASE next' = next
      BY <2>0, <3>1, <3>2, <3>4
    <3>5. CASE next' = [next EXCEPT ![p] = @ + 1]
      <4>1. next' \in [Process -> Nat \ {0}] /\ stage' \in [Process -> Stages]
        BY <2>0, <3>2, <3>3, <3>5
      <4>2. ASSUME NEW q \in Process
            PROVE  Standing(q)'
        <5>1. CASE q = p
          BY <2>0, <3>1, <3>2, <3>3, <3>5, <5>1
        <5>2. CASE q # p
          BY <2>0, <3>2, <3>5, <5>2
        <5> QED
          BY <5>1, <5>2
      <4> QED
        BY <4>1, <4>2
    <3> QED
      BY <3>2, <3>4, <3>5
  <2>7. CASE Fetched(p)
    BY <2>0, <2>7 DEF Fetched
  <2>8. CASE CheckShape(p)
    <3>1. stage[p] = "shape" /\ read(ManifestOf(p), NameOf(p)) /\ next[p] \in 1..Len(Files(p))
      BY <2>0, <2>8 DEF CheckShape
    <3>2. \/ next' = [next EXCEPT ![p] = @ + 1] /\ stage' = stage
          \/ next' = next /\ stage' = [stage EXCEPT ![p] = "failed"]
      BY <2>8 DEF CheckShape
    <3>3. next[p] + 1 \in 1..(Len(Files(p)) + 1) /\ next[p] + 1 \in Nat \ {0}
      BY <2>0, <3>1
    <3>4. CASE next' = next
      BY <2>0, <3>1, <3>2, <3>4
    <3>5. CASE next' = [next EXCEPT ![p] = @ + 1]
      <4>1. next' \in [Process -> Nat \ {0}] /\ stage' \in [Process -> Stages]
        BY <2>0, <3>2, <3>3, <3>5
      <4>2. ASSUME NEW q \in Process
            PROVE  Standing(q)'
        <5>1. CASE q = p
          BY <2>0, <3>1, <3>2, <3>3, <3>5, <5>1
        <5>2. CASE q # p
          BY <2>0, <3>2, <3>5, <5>2
        <5> QED
          BY <5>1, <5>2
      <4> QED
        BY <4>1, <4>2
    <3> QED
      BY <3>2, <3>4, <3>5
  <2>9. CASE Ready(p)
    BY <2>0, <2>9 DEF Ready
  <2>10. CASE GetFails(p)
    BY <2>0, <2>10 DEF GetFails
  <2>11. CASE Rerun(p)
    BY <2>0, <2>11 DEF Rerun
  <2>12. CASE Die(p)
    BY <2>0, <2>12 DEF Die
  <2>13. CASE OpenFails(p)
    BY <2>0, <2>13 DEF OpenFails
  <2> QED
    BY <1>2, <2>1, <2>2, <2>3, <2>4, <2>5, <2>6, <2>7, <2>8, <2>9, <2>10, <2>11, <2>12, <2>13 DEF Run
<1> QED
  BY <1>1, <1>2 DEF FetchNext

LEMMA StandingIsEnough == FetchInv => ReachedIsPinned
<1> SUFFICES ASSUME FetchInv, NEW p \in Process
             PROVE  /\ stage[p] \notin {"start", "failed"} => PinsItsFiles(ManifestOf(p))
                    /\ stage[p] \in {"request", "storing"} /\ ManifestOf(p).category = "mirror"
                         => url_for(ManifestOf(p), Entry(p)) = "own"
  BY DEF ReachedIsPinned
<1>1. stage[p] \notin {"start", "failed"} => PinsItsFiles(ManifestOf(p))
  BY FilesAreTyped, ValidPinsItsFiles DEF FetchInv, Standing, read
<1>2. ASSUME stage[p] \in {"request", "storing"}, ManifestOf(p).category = "mirror"
      PROVE  url_for(ManifestOf(p), Entry(p)) = "own"
  <2>1. PinsItsFiles(ManifestOf(p))
    BY <1>1, <1>2
  <2>2. Entry(p) \in Entries(ManifestOf(p))
    BY <1>2, FilesAreTyped DEF FetchInv, Standing, Entry, Files, Entries
  <2> QED
    BY <1>2, <2>1, <2>2 DEF PinsItsFiles, url_for
<1> QED
  BY <1>1, <1>2

\* Whatever the manifests, the servers and the faults, a command gets past its
\* start only with a corpus that pins its files, and asks for a mirrored file at
\* the file's own address.
THEOREM ReachedIsPinnedHolds == FetchSpec => []ReachedIsPinned
<1>1. FetchSpec => []FetchInv
  BY StandingStarts, StandingKept, PTL DEF FetchSpec
<1> QED
  BY <1>1, StandingIsEnough, PTL

-----------------------------------------------------------------------------
(* The store under the commands.                                            *)

\* What is asked for is a file of the manifest, under one of the digests.
LEMMA EntryIsNamed ==
  ASSUME FetchInv, NEW p \in Process, stage[p] \in {"request", "storing"}
  PROVE  Entry(p).blake3 \in Digest /\ next[p] \in 1..Len(Files(p))
<1>1. next[p] \in 1..Len(Files(p))
  BY DEF FetchInv, Standing
<1>2. Files(p)[next[p]] \in EntryOf(Digest, Nat)
  BY <1>1, FilesAssumption
<1> QED
  BY <1>1, <1>2 DEF Entry, EntryOf

LEMMA FetchStepsTheStore == FetchInv /\ [FetchNext]_fetchVars => [StoreNext]_storeVars
<1> SUFFICES ASSUME FetchInv, [FetchNext]_fetchVars
             PROVE  [StoreNext]_storeVars
  OBVIOUS
<1>1. CASE UNCHANGED fetchVars
  BY <1>1 DEF fetchVars
<1>2. ASSUME NEW p \in Process, Run(p) \/ GetFails(p) \/ OpenFails(p) \/ Rerun(p) \/ Die(p)
      PROVE  [StoreNext]_storeVars
  <2>1. CASE Start(p) \/ HaveEntry(p) \/ WantEntry(p) \/ Fetched(p) \/ CheckShape(p) \/ Ready(p)
             \/ GetFails(p) \/ OpenFails(p) \/ Rerun(p)
    BY <2>1 DEF Start, HaveEntry, WantEntry, Fetched, CheckShape, Ready, GetFails, OpenFails, Rerun
  <2>2. CASE GetAnswered(p) \/ GetFallsBack(p)
    <3>1. stage[p] = "request" /\ Body(p)
      BY <2>2 DEF GetAnswered, GetFallsBack
    <3>2. PICK c \in Content : InsertStream(p, c, Entry(p).blake3)
      BY <3>1 DEF Body
    <3>3. Entry(p).blake3 \in Digest /\ c \in Offered(Entry(p).blake3)
      BY <3>1, <3>2, EntryIsNamed DEF InsertStream
    <3>4. Begin(p)
      BY <3>2, <3>3 DEF Begin
    <3> QED
      BY <3>4 DEF StoreNext
  <2>3. CASE Storing(p)
    <3>1. Work(p)
      BY <2>3 DEF Storing, StoreStep, Work
    <3> QED
      BY <3>1 DEF StoreNext
  <2>4. CASE Stored(p)
    BY <2>4 DEF Stored, StoreNext
  <2>5. CASE Die(p)
    BY <2>5 DEF Die, StoreNext
  <2> QED
    BY <1>2, <2>1, <2>2, <2>3, <2>4, <2>5 DEF Run
<1> QED
  BY <1>1, <1>2 DEF FetchNext

LEMMA FetchKeepsStanding == FetchSpec => []FetchInv
BY StandingStarts, StandingKept, PTL DEF FetchSpec

\* fetch::corpus over store.rs: whatever the commands do, what they do to the
\* store is a behaviour of the store, so all that is proved of it holds here.
THEOREM FetchUsesTheStore == FetchSpec => StoreSpec
<1>1. FetchInit => StoreInit
  BY DEF FetchInit
<1> QED
  BY <1>1, FetchKeepsStanding, FetchStepsTheStore, PTL DEF FetchSpec, StoreSpec

\* store.rs, insert_stream: while commands fetch, wrong bytes under a name are
\* about to be removed, unless a process may die or a removal be refused.
THEOREM FetchMismatchIsPending == FetchSpec => []MismatchIsPending
BY FetchUsesTheStore, MismatchIsPendingHolds, PTL

\* store.rs, write: nor do they leave temporary files, unless a process may die
\* or the filesystem may refuse a rename or a clean-up.
THEOREM FetchLeavesNoTemporaries == FetchSpec => []NoStrayTemporaries
BY FetchUsesTheStore, NoStrayTemporariesHolds, PTL

-----------------------------------------------------------------------------
(* What a command has passed.                                               *)

\* A command's call: there is one while it is storing, a stream for the entry
\* it is at, and behind its rename an honest name has an object.
AtTheEntry(p) ==
  /\ pc[p] # "idle" <=> stage[p] = "storing"
  /\ pc[p] # "idle" => /\ op[p] = "stream" /\ bytes[p] \in Offered(want[p])
                       /\ want[p] = Entry(p).blake3
  /\ HonestName(want[p]) /\ (\/ pc[p] = "settle"
                             \/ pc[p] = "returned" /\ outcome[p] \in {"stored", "deduplicated"})
       => Contains(want[p])

\* What is at an honest name is what the name says.
HonestObjects == \A d \in Digest : HonestName(d) /\ Contains(d) => Verify(d) = "ok"

HeldInv ==
  /\ StoreInv
  /\ FetchInv
  /\ \A p \in Process : AtTheEntry(p)
  /\ HonestObjects
  /\ PassedHonestEntriesHeld

LEMMA HeldStarts == FetchInit => HeldInv
<1> SUFFICES ASSUME FetchInit
             PROVE  HeldInv
  OBVIOUS
<1>1. StoreInv /\ FetchInv
  BY InitEstablishesInv, StandingStarts DEF FetchInit
<1>2. \A p \in Process : AtTheEntry(p)
  BY DEF FetchInit, StoreInit, AtTheEntry
<1>3. HonestObjects
  BY DEF FetchInit, StoreInit, HonestObjects, Contains
<1>4. PassedHonestEntriesHeld
  BY DEF FetchInit, PassedHonestEntriesHeld, Passed
<1> QED
  BY <1>1, <1>2, <1>3, <1>4 DEF HeldInv

\* An object at an honest name is put there by streams alone, and by none of
\* them removed.
LEMMA HonestStay ==
  ASSUME HeldInv, [FetchNext]_fetchVars, NEW d \in Digest, HonestName(d)
  PROVE  (Contains(d) => object'[d] # Absent) /\ (object'[d] # Absent => DigestOf(object'[d]) = d)
<1>1. [StoreNext]_storeVars
  BY FetchStepsTheStore DEF HeldInv
<1>2. StoreInv /\ StreamsOnly
  BY DEF HeldInv, AtTheEntry, StreamsOnly
<1>3. (Contains(d) => Verify(d) = "ok") /\ \A c \in Offered(d) : DigestOf(c) = d
  BY DEF HeldInv, HonestObjects, HonestName
<1> QED
  BY <1>1, <1>2, <1>3, HonestNameStays

\* A step that leaves a process's call, stage and entry alone.
LEMMA AtTheEntryApart ==
  ASSUME HeldInv, [FetchNext]_fetchVars, NEW q \in Process,
         pc'[q] = pc[q], op'[q] = op[q], want'[q] = want[q], bytes'[q] = bytes[q],
         outcome'[q] = outcome[q], next'[q] = next[q], stage'[q] = stage[q]
  PROVE  AtTheEntry(q)'
<1>1. AtTheEntry(q) /\ want[q] \in Digest
  BY DEF HeldInv, StoreInv, StoreTypeOK
<1>2. HonestName(want[q]) => (Contains(want[q]) => object'[want[q]] # Absent)
  BY <1>1, HonestStay
<1> QED
  BY <1>1, <1>2 DEF AtTheEntry, Entry, Contains, HonestName

LEMMA AtTheEntryKept ==
  ASSUME HeldInv, [FetchNext]_fetchVars
  PROVE  \A q \in Process : AtTheEntry(q)'
<1>1. CASE UNCHANGED fetchVars
  BY <1>1, AtTheEntryApart DEF fetchVars, storeVars
<1>2. ASSUME NEW p \in Process, Run(p) \/ GetFails(p) \/ OpenFails(p) \/ Rerun(p) \/ Die(p)
      PROVE  \A q \in Process : AtTheEntry(q)'
  <2>0. StoreTypeOK /\ AtTheEntry(p) /\ stage \in [Process -> Stages] /\ next \in [Process -> Nat \ {0}]
    BY DEF HeldInv, StoreInv, FetchInv
  <2> SUFFICES ASSUME NEW q \in Process
               PROVE  AtTheEntry(q)'
    OBVIOUS
  <2>1. CASE Start(p) \/ HaveEntry(p) \/ WantEntry(p) \/ Fetched(p) \/ CheckShape(p) \/ Ready(p)
             \/ GetFails(p) \/ OpenFails(p) \/ Rerun(p)
    <3>1. UNCHANGED storeVars /\ stage[p] # "storing" /\ stage'[p] # "storing"
      BY <2>0, <2>1 DEF Start, HaveEntry, WantEntry, Fetched, CheckShape, Ready, GetFails, OpenFails, Rerun, To, Fail
    <3>2. CASE q = p
      BY <2>0, <3>1, <3>2 DEF AtTheEntry, storeVars
    <3>3. CASE q # p
      <4>1. next'[q] = next[q] /\ stage'[q] = stage[q]
        BY <2>0, <2>1, <3>3 DEF Start, HaveEntry, WantEntry, Fetched, CheckShape, Ready, GetFails, OpenFails, Rerun,
                                To, Fail, Advance
      <4> QED
        BY <3>1, <4>1, AtTheEntryApart DEF storeVars
    <3> QED
      BY <3>2, <3>3
  <2>2. CASE GetAnswered(p) \/ GetFallsBack(p)
    <3>1. Body(p)
      BY <2>2 DEF GetAnswered, GetFallsBack
    <3>2. PICK c \in Content : InsertStream(p, c, Entry(p).blake3)
      BY <3>1 DEF Body
    <3>3. CASE q = p
      <4>1. /\ pc'[p] = "contains" /\ op'[p] = "stream" /\ bytes'[p] = c /\ want'[p] = Entry(p).blake3
            /\ c \in Offered(Entry(p).blake3) /\ stage'[p] = "storing" /\ next' = next
        BY <2>0, <3>1, <3>2 DEF InsertStream, Enter, Goto, StoreTypeOK, Body, To
      <4> QED
        BY <3>3, <4>1 DEF AtTheEntry, Entry
    <3>4. CASE q # p
      BY <2>0, <3>1, <3>2, <3>4, AtTheEntryApart DEF InsertStream, Enter, Goto, StoreTypeOK, Body, To
    <3> QED
      BY <3>3, <3>4
  <2>3. CASE Storing(p)
    <3>1. StoreStep(p) /\ pc[p] # "idle" /\ UNCHANGED <<stage, next>>
      BY <2>0, <2>3 DEF Storing, AtTheEntry
    <3>2. /\ pc'[p] # "idle" /\ op' = op /\ want' = want /\ bytes' = bytes
          /\ \A r \in Process : r # p => pc'[r] = pc[r] /\ outcome'[r] = outcome[r]
          /\ pc'[p] = "settle" \/ (pc'[p] = "returned" /\ outcome'[p] \in {"stored", "deduplicated"})
               => Contains(want[p]) \/ object'[want[p]] # Absent \/ pc[p] = "settle"
      BY <2>0, <3>1, StreamGoesOn DEF HeldInv, AtTheEntry, StoreStep, Work
    <3>3. CASE q = p
      <4>1. HonestName(want[p]) => (Contains(want[p]) => object'[want[p]] # Absent)
        BY <2>0, HonestStay DEF StoreTypeOK
      <4>2. /\ stage'[p] = stage[p] /\ next'[p] = next[p] /\ op'[p] = op[p] /\ want'[p] = want[p]
            /\ bytes'[p] = bytes[p]
        BY <3>1, <3>2
      <4>3. HonestName(want[p]) /\ (\/ pc'[p] = "settle"
                                    \/ pc'[p] = "returned" /\ outcome'[p] \in {"stored", "deduplicated"})
              => object'[want[p]] # Absent
        BY <2>0, <3>2, <4>1 DEF AtTheEntry
      <4>4. /\ pc'[p] # "idle" <=> stage'[p] = "storing"
            /\ pc'[p] # "idle" => /\ op'[p] = "stream" /\ bytes'[p] \in Offered(want'[p])
                                  /\ want'[p] = Files(p)[next'[p]].blake3
        BY <2>0, <3>1, <3>2, <4>2 DEF AtTheEntry, Entry
      <4> QED
        BY <3>3, <4>2, <4>3, <4>4 DEF AtTheEntry, Entry, Contains, HonestName
    <3>4. CASE q # p
      BY <3>1, <3>2, <3>4, AtTheEntryApart
    <3> QED
      BY <3>3, <3>4
  <2>4. CASE Stored(p) \/ Die(p)
    <3>1. pc'[p] = "idle" /\ stage'[p] # "storing"
      BY <2>0, <2>4 DEF Stored, Die, Return, Crash, Forget, StoreTypeOK, To, Fail, storeVars
    <3>2. CASE q = p
      BY <3>1, <3>2 DEF AtTheEntry
    <3>3. CASE q # p
      <4>1. pc'[q] = pc[q] /\ op'[q] = op[q] /\ want'[q] = want[q] /\ bytes'[q] = bytes[q]
            /\ outcome'[q] = outcome[q]
        BY <2>0, <2>4, <3>3 DEF Stored, Die, Return, Crash, Forget, StoreTypeOK, storeVars
      <4>2. next'[q] = next[q] /\ stage'[q] = stage[q]
        BY <2>0, <2>4, <3>3 DEF Stored, Die, To, Fail, Advance
      <4> QED
        BY <4>1, <4>2, AtTheEntryApart
    <3> QED
      BY <3>2, <3>3
  <2> QED
    BY <1>2, <2>1, <2>2, <2>3, <2>4 DEF Run
<1> QED
  BY <1>1, <1>2 DEF FetchNext

\* An entry a command has passed was passed before, or is there.
LEMMA PassedWasThere ==
  ASSUME HeldInv, [FetchNext]_fetchVars, NEW q \in Process, NEW i \in Passed(q)',
         HonestName(Files(q)[i].blake3)
  PROVE  Contains(Files(q)[i].blake3) /\ Files(q)[i].blake3 \in Digest
<1>0. /\ StoreTypeOK /\ stage \in [Process -> Stages] /\ next \in [Process -> Nat \ {0}]
      /\ AtTheEntry(q) /\ Standing(q) /\ Len(Files(q)) \in Nat
  BY FilesAreTyped DEF HeldInv, StoreInv, FetchInv
<1>1. ASSUME i \in Passed(q)
      PROVE  Contains(Files(q)[i].blake3)
  BY <1>1 DEF HeldInv, PassedHonestEntriesHeld, Held, Verify
<1>2. ASSUME i \in 1..Len(Files(q))
      PROVE  Files(q)[i].blake3 \in Digest
  <2>1. Files(q)[i] \in EntryOf(Digest, Nat)
    BY <1>2, FilesAssumption
  <2> QED
    BY <2>1 DEF EntryOf
<1>3. i \in 1..Len(Files(q))
  <2>1. Standing(q)' /\ next' \in [Process -> Nat \ {0}]
    BY StandingKept DEF HeldInv, FetchInv
  <2> QED
    BY <1>0, <2>1 DEF Passed, Standing
<1>4. CASE stage'[q] = stage[q] /\ next'[q] = next[q]
  BY <1>1, <1>2, <1>3, <1>4 DEF Passed
<1>5. ASSUME Run(q) \/ GetFails(q) \/ OpenFails(q) \/ Rerun(q) \/ Die(q)
      PROVE  Contains(Files(q)[i].blake3)
  <2>1. CASE Start(q) \/ Rerun(q) \/ Die(q) \/ GetFails(q) \/ OpenFails(q)
    <3>1. Passed(q)' = {}
      BY <1>0, <2>1 DEF Start, Rerun, Die, GetFails, OpenFails, To, Fail, Passed
    <3> QED
      BY <3>1
  <2>2. CASE HaveEntry(q)
    <3>1. i \in Passed(q) \/ i = next[q]
      BY <1>0, <1>3, <2>2 DEF HaveEntry, Advance, Passed
    <3> QED
      BY <1>1, <2>2, <3>1 DEF HaveEntry, Entry
  <2>3. CASE WantEntry(q) \/ GetAnswered(q) \/ GetFallsBack(q) \/ Storing(q)
    <3>1. i \in Passed(q)
      BY <1>0, <2>3 DEF WantEntry, GetAnswered, GetFallsBack, Body, Storing, To, Fail, Passed
    <3> QED
      BY <1>1, <3>1
  <2>4. CASE Stored(q)
    <3>1. PICK seen \in SeenBy(q) :
            LET verdict == Judge(q, Entry(q), seen) IN
            IF verdict = "ok"
              THEN Advance(q) /\ To(q, "entry") /\ UNCHANGED reason
              ELSE Fail(q, verdict) /\ UNCHANGED next
      BY <2>4 DEF Stored
    <3>2. CASE Judge(q, Entry(q), seen) = "ok"
      <4>1. pc[q] = "returned" /\ outcome[q] \in {"stored", "deduplicated"} /\ stage[q] = "storing"
        BY <2>4, <3>2 DEF Stored, Return, Judge
      <4>2. i \in Passed(q) \/ i = next[q]
        BY <1>0, <1>3, <3>1, <3>2, <4>1 DEF Advance, To, Passed
      <4>3. want[q] = Files(q)[next[q]].blake3
        BY <1>0, <4>1 DEF AtTheEntry, Entry
      <4> QED
        BY <1>0, <1>1, <4>1, <4>2, <4>3 DEF AtTheEntry
    <3>3. CASE Judge(q, Entry(q), seen) # "ok"
      <4>1. Passed(q)' = {}
        BY <1>0, <3>1, <3>3 DEF Fail, To, Passed
      <4> QED
        BY <4>1
    <3> QED
      BY <3>2, <3>3
  <2>5. CASE Fetched(q) \/ CheckShape(q) \/ Ready(q)
    <3>1. i \in Passed(q)
      BY <1>0, <1>3, <2>5 DEF Fetched, CheckShape, Ready, Last, Advance, To, Fail, Passed
    <3> QED
      BY <1>1, <3>1
  <2> QED
    BY <1>5, <2>1, <2>2, <2>3, <2>4, <2>5 DEF Run
<1>6. \/ stage'[q] = stage[q] /\ next'[q] = next[q]
      \/ Run(q) \/ GetFails(q) \/ OpenFails(q) \/ Rerun(q) \/ Die(q)
  <2>1. CASE UNCHANGED fetchVars
    BY <2>1 DEF fetchVars
  <2>2. ASSUME NEW p \in Process, p # q, Run(p) \/ GetFails(p) \/ OpenFails(p) \/ Rerun(p) \/ Die(p)
        PROVE  stage'[q] = stage[q] /\ next'[q] = next[q]
    BY <1>0, <2>2 DEF Run, Start, HaveEntry, WantEntry, GetAnswered, GetFallsBack, Body, Storing, Stored,
         Fetched, CheckShape, Ready, GetFails, OpenFails, Rerun, Die, To, Fail, Advance
  <2> QED
    BY <2>1, <2>2 DEF FetchNext
<1> QED
  BY <1>1, <1>2, <1>3, <1>4, <1>5, <1>6

LEMMA HeldKept == HeldInv /\ [FetchNext]_fetchVars => HeldInv'
<1> SUFFICES ASSUME HeldInv, [FetchNext]_fetchVars
             PROVE  HeldInv'
  OBVIOUS
<1>1. StoreInv' /\ FetchInv'
  BY FetchStepsTheStore, StepKeepsInv, StandingKept DEF HeldInv
<1>2. HonestObjects'
  BY HonestStay DEF HonestObjects, HonestName, Contains, Verify
<1>3. PassedHonestEntriesHeld'
  <2> SUFFICES ASSUME NEW q \in Process, NEW i \in Passed(q)', HonestName(Files(q)[i].blake3)
               PROVE  Held(q, i)'
    BY DEF PassedHonestEntriesHeld, HonestName, Files
  <2>1. Contains(Files(q)[i].blake3) /\ Files(q)[i].blake3 \in Digest
    BY PassedWasThere
  <2>2. /\ object'[Files(q)[i].blake3] # Absent
        /\ DigestOf(object'[Files(q)[i].blake3]) = Files(q)[i].blake3
    BY <2>1, HonestStay
  <2> QED
    BY <2>2 DEF Held, Verify, Contains
<1> QED
  BY <1>1, <1>2, <1>3, AtTheEntryKept DEF HeldInv

\* fetch.rs, one: whatever other commands fetch, however they fail or die and
\* whatever servers send under other names, every file a command has passed is
\* in the store under its own digest, for any number of commands and files.
THEOREM PassedHonestEntriesHeldHolds == FetchSpec => []PassedHonestEntriesHeld
<1>1. HeldInv => PassedHonestEntriesHeld
  BY DEF HeldInv
<1> QED
  BY <1>1, HeldStarts, HeldKept, PTL DEF FetchSpec

-----------------------------------------------------------------------------
(* What a refused fetch leaves.                                             *)

\* A manifest pins beside every digest the size of what the digest names.
SizesArePinned ==
  \A p \in Process : \A e \in Entries(ManifestOf(p)) : \A c \in Content :
    DigestOf(c) = e.blake3 => SizeOf(c) = e.bytes

\* A fetch that was refused for its size or its digest.
Refusal(p) == stage[p] = "failed" /\ reason[p] \in {"size", "digest"}

\* The rename is behind a command, and its bytes have not been found wrong.
Arrived(p) == \/ pc[p] = "settle"
              \/ pc[p] = "returned" /\ outcome[p] = "stored"

\* What a command asks for has an address, what it refused was an entry, and
\* what it says it stored it has checked.
Accounted(p) ==
  /\ stage[p] \in {"request", "storing"} => url_for(ManifestOf(p), Entry(p)) # "none"
  /\ Refusal(p) => next[p] \in 1..Len(Files(p))
  /\ pc[p] = "returned" /\ outcome[p] = "stored" => DigestOf(bytes[p]) = want[p]

\* A file that only this command fetches is not in the store from before the
\* request to the rename, nor once it was refused, so it is never found there.
OnlyFetcher(p) ==
  ~AlsoFetched(p, Entry(p).blake3) =>
    /\ stage[p] = "request" \/ Refusal(p) => ~Contains(Entry(p).blake3)
    /\ stage[p] = "storing" => /\ Arrived(p) \/ ~Contains(Entry(p).blake3)
                               /\ pc[p] = "returned" => outcome[p] # "deduplicated"

RefusedInv ==
  /\ HeldInv
  /\ reason \in [Process -> Reasons]
  /\ \A p \in Process : Accounted(p) /\ OnlyFetcher(p)

LEMMA RefusedStarts == FetchInit => RefusedInv
<1> SUFFICES ASSUME FetchInit
             PROVE  RefusedInv
  OBVIOUS
<1>1. \A p \in Process : Accounted(p) /\ OnlyFetcher(p)
  BY DEF FetchInit, StoreInit, Accounted, OnlyFetcher, Refusal
<1>2. reason \in [Process -> Reasons]
  BY DEF FetchInit, Reasons
<1> QED
  BY <1>1, <1>2, HeldStarts DEF RefusedInv

\* What a footer is judged, while the corpus is measured.
LEMMA FooterVerdicts ==
  ASSUME NEW p \in Process, NEW e
  PROVE  JudgeFooter(p, e) \in {"ok", "missing", "shape"}
BY DEF JudgeFooter

LEMMA ReasonsAreTyped ==
  ASSUME reason \in [Process -> Reasons], [FetchNext]_fetchVars
  PROVE  reason' \in [Process -> Reasons]
<1>1. CASE UNCHANGED fetchVars
  BY <1>1 DEF fetchVars
<1>2. ASSUME NEW p \in Process, Run(p) \/ GetFails(p) \/ OpenFails(p) \/ Rerun(p) \/ Die(p)
      PROVE  reason' \in [Process -> Reasons]
  <2>1. CASE Stored(p)
    <3>1. \A seen : Judge(p, Entry(p), seen) = "ok" \/ Judge(p, Entry(p), seen) \in Reasons
      BY DEF Judge, Reasons
    <3> QED
      BY <2>1, <3>1 DEF Stored, Fail
  <2>2. CASE ~Stored(p)
    BY <1>2, <2>2, FooterVerdicts
       DEF Run, Start, HaveEntry, WantEntry, GetAnswered, GetFallsBack, Body, Storing,
         Fetched, CheckShape, Ready, GetFails, OpenFails, Rerun, Die, Fail, Reasons
  <2> QED
    BY <2>1, <2>2
<1> QED
  BY <1>1, <1>2 DEF FetchNext

\* What a command is storing is an entry of a manifest it has read, with an
\* address: whoever wants the same name and is not that command shares it.
LEMMA StoringIsFetching ==
  ASSUME RefusedInv, NEW p \in Process, NEW q \in Process, q # p, stage[q] = "storing"
  PROVE  AlsoFetched(p, Entry(q).blake3)
<1>1. read(ManifestOf(q), NameOf(q)) /\ next[q] \in 1..Len(Files(q))
  BY DEF RefusedInv, HeldInv, FetchInv, Standing
<1>2. Entry(q) \in Entries(ManifestOf(q))
  BY <1>1, FilesAreTyped DEF Entry, Files, Entries
<1>3. url_for(ManifestOf(q), Entry(q)) # "none"
  BY DEF RefusedInv, Accounted
<1> QED
  BY <1>1, <1>2, <1>3 DEF AlsoFetched

\* A name only p fetches comes to hold an object by p's own rename.
LEMMA BroughtByItself ==
  ASSUME RefusedInv, [FetchNext]_fetchVars, NEW p \in Process, NEW d \in Digest,
         ~AlsoFetched(p, d), ~Contains(d), ~RenameIntoPlace(p)
  PROVE  object'[d] = Absent
<1>1. CASE object' = object
  BY <1>1 DEF Contains
<1>2. CASE object' # object
  <2>1. StoreTypeOK /\ [StoreNext]_storeVars
    BY FetchStepsTheStore DEF RefusedInv, HeldInv, StoreInv
  <2>2. PICK q \in Process : RenameIntoPlace(q) \/ SettleMismatch(q)
    BY <1>2, <2>1, WhoTouchesObjects
  <2>3. CASE SettleMismatch(q)
    BY <2>1, <2>3 DEF SettleMismatch, StoreTypeOK, Contains
  <2>4. CASE RenameIntoPlace(q)
    <3>1. q # p /\ pc[q] = "rename"
      BY <2>4 DEF RenameIntoPlace
    <3>2. stage[q] = "storing" /\ want[q] = Entry(q).blake3
      BY <3>1 DEF RefusedInv, HeldInv, AtTheEntry
    <3>3. want[q] # d
      BY <3>1, <3>2, StoringIsFetching
    <3> QED
      BY <2>1, <2>4, <3>3 DEF RenameIntoPlace, StoreTypeOK, Contains
  <2> QED
    BY <2>2, <2>3, <2>4
<1> QED
  BY <1>1, <1>2

\* What a command asked for, or refused, is a name of the store.
LEMMA RefusedIsNamed ==
  ASSUME RefusedInv, NEW p \in Process, stage[p] \in {"request", "storing"} \/ Refusal(p)
  PROVE  /\ next[p] \in 1..Len(Files(p))
         /\ Entry(p).blake3 \in Digest
         /\ Entry(p) \in Entries(ManifestOf(p)) /\ Entry(p).bytes \in Nat
<1>1. next[p] \in 1..Len(Files(p))
  BY DEF RefusedInv, Accounted, HeldInv, FetchInv, Standing
<1>2. Files(p)[next[p]] \in EntryOf(Digest, Nat)
  BY <1>1, FilesAssumption
<1>3. Entry(p) \in Entries(ManifestOf(p))
  BY <1>1, FilesAreTyped DEF Entry, Files, Entries
<1> QED
  BY <1>1, <1>2, <1>3 DEF Entry, EntryOf

\* A step that leaves a command and its call alone.
LEMMA RefusedApart ==
  ASSUME RefusedInv, [FetchNext]_fetchVars, NEW q \in Process,
         pc'[q] = pc[q], want'[q] = want[q], bytes'[q] = bytes[q], outcome'[q] = outcome[q],
         next'[q] = next[q], stage'[q] = stage[q], reason'[q] = reason[q]
  PROVE  Accounted(q)' /\ OnlyFetcher(q)'
<1>1. Accounted(q) /\ OnlyFetcher(q) /\ StoreTypeOK
  BY DEF RefusedInv, HeldInv, StoreInv
<1>2. Accounted(q)'
  BY <1>1 DEF Accounted, Entry, Refusal
<1>3. (Refusal(q)' <=> Refusal(q)) /\ (Arrived(q)' <=> Arrived(q)) /\ Entry(q)' = Entry(q)
  BY DEF Refusal, Arrived, Entry
<1>4. ~RenameIntoPlace(q)
  <2>1. SUFFICES ASSUME RenameIntoPlace(q) PROVE FALSE
    OBVIOUS
  <2> QED
    BY <1>1, <2>1 DEF RenameIntoPlace, Goto, Finish, StoreTypeOK
<1>5. ASSUME ~AlsoFetched(q, Entry(q).blake3), ~Contains(Entry(q).blake3),
             stage[q] \in {"request", "storing"} \/ Refusal(q)
      PROVE  object'[Entry(q).blake3] = Absent
  BY <1>4, <1>5, RefusedIsNamed, BroughtByItself
<1>6. OnlyFetcher(q)'
  BY <1>1, <1>3, <1>5 DEF OnlyFetcher, Contains, AlsoFetched
<1> QED
  BY <1>2, <1>6

\* insert_stream at work for a file only this command fetches: the name is
\* free up to the rename, and free again when the bytes are found wrong.
LEMMA RefusedStoring ==
  ASSUME RefusedInv, "remove" \notin Faults, NEW p \in Process, Storing(p)
  PROVE  Accounted(p)' /\ OnlyFetcher(p)'
<1>1. /\ StoreTypeOK /\ Accounted(p) /\ OnlyFetcher(p) /\ AtTheEntry(p)
      /\ stage[p] = "storing" /\ StoreStep(p) /\ UNCHANGED <<stage, next, reason>>
  BY DEF Storing, RefusedInv, HeldInv, StoreInv
<1>2. /\ pc[p] # "idle" /\ op[p] = "stream" /\ want[p] = Entry(p).blake3 /\ want[p] \in Digest
      /\ Entry(p)' = Entry(p) /\ ~Refusal(p)'
  BY <1>1 DEF AtTheEntry, StoreTypeOK, Entry, Refusal
<1>3. /\ pc'[p] = "returned" /\ outcome'[p] = "stored" => DigestOf(bytes'[p]) = want'[p]
      /\ \/ pc[p] = "contains" /\ Contains(want[p])
         \/ Arrived(p)'
         \/ object' = object /\ ~Arrived(p) /\ (pc'[p] = "returned" => outcome'[p] # "deduplicated")
         \/ object'[want[p]] = Absent /\ (pc'[p] = "returned" => outcome'[p] # "deduplicated")
  <2> USE <1>1, <1>2 DEF StoreTypeOK, Goto, Finish, Arrived
  <2>1. CASE AskContains(p)
    BY <2>1 DEF AskContains
  <2>2. CASE CreateTemporary(p)
    BY <2>2 DEF CreateTemporary
  <2>3. CASE FillTemporary(p)
    BY <2>3 DEF FillTemporary
  <2>4. CASE RenameIntoPlace(p)
    BY <2>4 DEF RenameIntoPlace
  <2>5. CASE SettleMatch(p)
    BY <2>5 DEF SettleMatch
  <2>6. CASE SettleMismatch(p)
    BY <2>6 DEF SettleMismatch
  <2>7. CASE CreateFails(p)
    BY <2>7 DEF CreateFails
  <2>8. CASE FillFails(p)
    BY <2>8 DEF FillFails
  <2>9. CASE RenameFails(p)
    BY <2>9 DEF RenameFails
  <2>10. CASE SettleRemoveFails(p)
    BY <2>10 DEF SettleRemoveFails
  <2> QED
    BY <2>1, <2>2, <2>3, <2>4, <2>5, <2>6, <2>7, <2>8, <2>9, <2>10 DEF StoreStep, Proceed, Refused
<1>4. Accounted(p)'
  BY <1>1, <1>2, <1>3 DEF Accounted
<1>5. ASSUME ~AlsoFetched(p, Entry(p).blake3)
      PROVE  /\ Arrived(p)' \/ object'[want[p]] = Absent
             /\ pc'[p] = "returned" => outcome'[p] # "deduplicated"
  <2>1. Arrived(p) \/ ~Contains(want[p])
    BY <1>1, <1>2, <1>5 DEF OnlyFetcher
  <2>2. ~(pc[p] = "contains" /\ Contains(want[p]))
    BY <2>1 DEF Arrived
  <2>3. Arrived(p)' /\ pc'[p] = "returned" => outcome'[p] # "deduplicated"
    BY DEF Arrived
  <2> QED
    BY <1>3, <2>1, <2>2, <2>3 DEF Contains
<1>6. OnlyFetcher(p)'
  BY <1>1, <1>2, <1>5 DEF OnlyFetcher, Contains, AlsoFetched
<1> QED
  BY <1>4, <1>6

\* one: insert_stream is back.  A file that was stored is of the size its
\* digest says, so a refused one is not there.
LEMMA RefusedStored ==
  ASSUME RefusedInv, SizesArePinned, NEW p \in Process, Stored(p)
  PROVE  Accounted(p)' /\ OnlyFetcher(p)'
<1>1. /\ StoreTypeOK /\ Accounted(p) /\ OnlyFetcher(p) /\ AtTheEntry(p)
      /\ stage \in [Process -> Stages] /\ next \in [Process -> Nat \ {0}]
      /\ stage[p] = "storing" /\ Return(p) /\ pc[p] = "returned"
  BY DEF Stored, Return, RefusedInv, HeldInv, StoreInv, FetchInv
<1>2. pc'[p] = "idle" /\ object' = object
  BY <1>1 DEF Return, Forget, StoreTypeOK
<1>3. PICK seen \in SeenBy(p) :
        LET verdict == Judge(p, Entry(p), seen) IN
        IF verdict = "ok"
          THEN Advance(p) /\ To(p, "entry") /\ UNCHANGED reason
          ELSE Fail(p, verdict) /\ UNCHANGED next
  BY DEF Stored
<1>4. CASE Judge(p, Entry(p), seen) = "ok"
  <2>1. stage'[p] = "entry"
    BY <1>1, <1>3, <1>4 DEF To
  <2> QED
    BY <1>2, <2>1 DEF Accounted, OnlyFetcher, Refusal
<1>5. CASE Judge(p, Entry(p), seen) # "ok"
  <2>1. stage'[p] = "failed" /\ next' = next /\ Entry(p)' = Entry(p)
    BY <1>1, <1>3, <1>5 DEF Fail, To, Entry
  <2>2. next[p] \in 1..Len(Files(p)) /\ Entry(p) \in Entries(ManifestOf(p))
    BY <1>1, RefusedIsNamed
  <2>3. outcome[p] # "stored"
    <3>1. SUFFICES ASSUME outcome[p] = "stored" PROVE FALSE
      OBVIOUS
    <3>2. seen = SizeOf(bytes[p])
      BY <3>1 DEF SeenBy
    <3>3. DigestOf(bytes[p]) = Entry(p).blake3 /\ bytes[p] \in Content
      BY <1>1, <3>1 DEF Accounted, AtTheEntry, StoreTypeOK
    <3>4. SizeOf(bytes[p]) = Entry(p).bytes
      BY <2>2, <3>3 DEF SizesArePinned
    <3> QED
      BY <1>5, <3>1, <3>2, <3>4 DEF Judge
  <2>4. ~AlsoFetched(p, Entry(p).blake3) => ~Contains(Entry(p).blake3)
    BY <1>1, <2>3 DEF OnlyFetcher, Arrived
  <2> QED
    BY <1>2, <2>1, <2>2, <2>4 DEF Accounted, OnlyFetcher, Contains, AlsoFetched
<1> QED
  BY <1>4, <1>5

LEMMA RefusedKept ==
  ASSUME SizesArePinned, "remove" \notin Faults
  PROVE  RefusedInv /\ [FetchNext]_fetchVars => RefusedInv'
<1> SUFFICES ASSUME RefusedInv, [FetchNext]_fetchVars
             PROVE  RefusedInv'
  OBVIOUS
<1>1. HeldInv' /\ reason' \in [Process -> Reasons]
  BY HeldKept, ReasonsAreTyped DEF RefusedInv
<1>2. CASE UNCHANGED fetchVars
  <2>1. \A q \in Process : Accounted(q)' /\ OnlyFetcher(q)'
    BY <1>2, RefusedApart DEF fetchVars, storeVars
  <2> QED
    BY <1>1, <2>1 DEF RefusedInv
<1>3. ASSUME NEW p \in Process, Run(p) \/ GetFails(p) \/ OpenFails(p) \/ Rerun(p) \/ Die(p)
      PROVE  RefusedInv'
  <2>0. /\ StoreTypeOK /\ stage \in [Process -> Stages] /\ next \in [Process -> Nat \ {0}]
        /\ Accounted(p) /\ OnlyFetcher(p) /\ AtTheEntry(p) /\ reason \in [Process -> Reasons]
    BY DEF RefusedInv, HeldInv, StoreInv, FetchInv
  <2>1. ASSUME NEW q \in Process, q # p
        PROVE  Accounted(q)' /\ OnlyFetcher(q)'
    <3>1. /\ pc'[q] = pc[q] /\ want'[q] = want[q] /\ bytes'[q] = bytes[q]
          /\ outcome'[q] = outcome[q]
      <4> USE <2>0, <2>1 DEF StoreTypeOK, storeVars
      <4>1. CASE Start(p) \/ HaveEntry(p) \/ WantEntry(p) \/ Fetched(p) \/ CheckShape(p) \/ Ready(p)
                 \/ GetFails(p) \/ OpenFails(p) \/ Rerun(p)
        BY <4>1 DEF Start, HaveEntry, WantEntry, Fetched, CheckShape, Ready, GetFails, OpenFails, Rerun
      <4>2. CASE GetAnswered(p) \/ GetFallsBack(p)
        BY <4>2 DEF GetAnswered, GetFallsBack, Body, InsertStream, Enter, Goto
      <4>3. CASE Storing(p)
        BY <4>3 DEF Storing, StoreStep, Proceed, Refused, AskContains, CreateTemporary, FillTemporary,
             RenameIntoPlace, SettleMatch, SettleMismatch, CreateFails, FillFails, RenameFails,
             SettleRemoveFails, Goto, Finish
      <4>4. CASE Stored(p) \/ Die(p)
        BY <4>4 DEF Stored, Die, Return, Crash, Forget
      <4> QED
        BY <1>3, <4>1, <4>2, <4>3, <4>4 DEF Run
    <3>2. next'[q] = next[q] /\ stage'[q] = stage[q] /\ reason'[q] = reason[q]
      BY <1>3, <2>0, <2>1 DEF Run, Start, HaveEntry, WantEntry, GetAnswered, GetFallsBack, Body, Storing,
           Stored, Fetched, CheckShape, Ready, GetFails, OpenFails, Rerun, Die, To, Fail, Advance
    <3> QED
      BY <3>1, <3>2, RefusedApart
  <2>2. Accounted(p)' /\ OnlyFetcher(p)'
    <3>1. CASE Start(p) \/ HaveEntry(p) \/ Fetched(p) \/ CheckShape(p) \/ Ready(p) \/ GetFails(p)
               \/ OpenFails(p) \/ Rerun(p)
      <4>1. stage'[p] \notin {"request", "storing"} /\ ~Refusal(p)' /\ pc' = pc /\ pc[p] = "idle"
        BY <2>0, <3>1, FooterVerdicts
           DEF Start, HaveEntry, Fetched, CheckShape, Ready, GetFails, OpenFails, Rerun, To, Fail,
             Refusal, AtTheEntry, storeVars
      <4> QED
        BY <4>1 DEF Accounted, OnlyFetcher
    <3>2. CASE Die(p)
      <4>1. stage'[p] = "start" /\ pc'[p] = "idle"
        BY <2>0, <3>2 DEF Die, To, Crash, Forget, StoreTypeOK, storeVars
      <4> QED
        BY <4>1 DEF Accounted, OnlyFetcher, Refusal
    <3>3. CASE WantEntry(p)
      <4>1. pc'[p] = "idle" /\ object' = object /\ next' = next /\ ~Contains(Entry(p).blake3)
        BY <2>0, <3>3 DEF WantEntry, storeVars, AtTheEntry
      <4>2. \/ stage'[p] = "request" /\ url_for(ManifestOf(p), Entry(p)) # "none"
            \/ stage'[p] = "failed" /\ ~Refusal(p)'
        BY <2>0, <3>3 DEF WantEntry, To, Fail, Refusal
      <4> QED
        BY <4>1, <4>2 DEF Accounted, OnlyFetcher, Refusal, Entry, Contains, AlsoFetched
    <3>4. CASE GetAnswered(p) \/ GetFallsBack(p)
      <4>1. stage[p] = "request" /\ Body(p)
        BY <3>4 DEF GetAnswered, GetFallsBack
      <4>2. /\ pc'[p] = "contains" /\ object' = object /\ next' = next /\ stage'[p] = "storing"
        BY <2>0, <4>1 DEF Body, InsertStream, Enter, Goto, StoreTypeOK, To
      <4> QED
        BY <2>0, <4>1, <4>2 DEF Accounted, OnlyFetcher, Refusal, Entry, Contains, AlsoFetched
    <3>5. CASE Storing(p)
      BY <3>5, RefusedStoring
    <3>6. CASE Stored(p)
      BY <3>6, RefusedStored
    <3> QED
      BY <1>3, <3>1, <3>2, <3>3, <3>4, <3>5, <3>6 DEF Run
  <2>3. \A q \in Process : Accounted(q)' /\ OnlyFetcher(q)'
    BY <2>1, <2>2
  <2> QED
    BY <1>1, <2>3 DEF RefusedInv
<1> QED
  BY <1>2, <1>3 DEF FetchNext

\* fetch.rs, one: "it has already refused and removed whatever arrived": for any
\* servers, any failures but a refused removal, any crashes and any other
\* commands, a refused fetch leaves nothing at the name it wanted, as long as the
\* manifests pin the size of what their digests name and nobody else fetches it.
THEOREM RefusedLeavesNothingHolds ==
  ASSUME SizesArePinned, "remove" \notin Faults
  PROVE  FetchSpec => []RefusedLeavesNothing
<1>1. RefusedInv => RefusedLeavesNothing
  BY DEF RefusedInv, RefusedLeavesNothing, OnlyFetcher, Refusal
<1> QED
  BY <1>1, RefusedStarts, RefusedKept, PTL DEF FetchSpec

=============================================================================
