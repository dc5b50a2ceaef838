------------------------- MODULE CorpusGenerateProofs -------------------------
(***************************************************************************)
(* That generating uses the store in no way the store does not allow, that *)
(* a command which ends well is right about its files, and that a command  *)
(* takes no file a generator did not write for it, for any number of       *)
(* commands, files and scratch directories.                                *)
(***************************************************************************)
EXTENDS CorpusGenerate, CorpusStoreProofs

\* A command is at an entry of its manifest, or past the last, and while it is
\* in a call of the store at an entry.
Standing(p) ==
  /\ next[p] \in 1..(Len(Files(p)) + 1)
  /\ stage[p] = "storing" => next[p] \in 1..Len(Files(p))

GenerateInv ==
  /\ stage \in [Process -> Stages]
  /\ next \in [Process -> Nat \ {0}]
  /\ \A p \in Process : Standing(p)

LEMMA LengthIsNatural ==
  ASSUME NEW p \in Process
  PROVE  Len(Files(p)) \in Nat
BY FilesAssumption

LEMMA StandingStarts == GenerateInit => GenerateInv
BY LengthIsNatural DEF GenerateInit, GenerateInv, Standing, Stages

\* The steps of one command, its failures, its death and its reruns among them,
\* and those of the generators it has left behind.
Step(p) == Run(p) \/ Fails(p) \/ Rerun(p) \/ OutlivingWrites(p)

\* A step of one command is none of another's.
LEMMA StepIsItsOwn ==
  ASSUME GenerateInv, NEW p \in Process, Step(p)
  PROVE  \A q \in Process \ {p} : stage'[q] = stage[q] /\ next'[q] = next[q]
<1> USE DEF GenerateInv, To, Fail, Advance, From1, Generated
<1>1. CASE Start(p) \/ AskStored(p) \/ CheckVersion(p) \/ Prepare(p) \/ GeneratorWrites(p)
           \/ GeneratorExits(p)
  BY <1>1, VersionsAssumption
     DEF Start, AskStored, CheckVersion, Prepare, GeneratorWrites, GeneratorExits
<1>2. CASE TakeFile(p) \/ Storing(p) \/ Stored(p) \/ AllTaken(p) \/ CheckShape(p) \/ Done(p)
  BY <1>2 DEF TakeFile, Storing, Stored, AllTaken, CheckShape, Done
<1>3. CASE \/ PrepareFails(p) \/ GeneratorFails(p) \/ OpenRefused(p) \/ OpenFails(p) \/ Rerun(p)
           \/ Die(p) \/ OutlivingWrites(p)
  BY <1>3 DEF PrepareFails, GeneratorFails, OpenRefused, OpenFails, Rerun, Die, OutlivingWrites
<1> QED
  BY <1>1, <1>2, <1>3 DEF Step, Run, Fails

\* Where a step takes the command whose step it is.
LEMMA StepStands ==
  ASSUME GenerateInv, NEW p \in Process, Step(p)
  PROVE  Standing(p)' /\ stage' \in [Process -> Stages] /\ next' \in [Process -> Nat \ {0}]
<1> USE DEF To, Fail, Advance, From1, Generated, Stages, Last
<1>0. /\ Len(Files(p)) \in Nat /\ stage \in [Process -> Stages] /\ next \in [Process -> Nat \ {0}]
      /\ next[p] \in 1..(Len(Files(p)) + 1)
      /\ stage[p] = "storing" => next[p] \in 1..Len(Files(p))
  BY LengthIsNatural DEF GenerateInv, Standing
<1>a. ~Last(p) => next[p] \in 1..Len(Files(p))
  BY <1>0
<1>b. next[p] \in 1..Len(Files(p)) => next[p] + 1 \in 1..(Len(Files(p)) + 1) /\ next[p] + 1 \in Nat \ {0}
  BY <1>0
<1>c. 1 \in 1..(Len(Files(p)) + 1) /\ 1 \in Nat \ {0}
  BY <1>0
<1>1. CASE Start(p) \/ Prepare(p) \/ GeneratorExits(p) \/ AllTaken(p) \/ Rerun(p) \/ Die(p)
  <2>1. next' = [next EXCEPT ![p] = 1] /\ stage' \in [Process -> Stages] /\ stage'[p] # "storing"
    BY <1>0, <1>1 DEF Start, Prepare, GeneratorExits, AllTaken, Rerun, Die
  <2> QED
    BY <1>0, <1>c, <2>1 DEF Standing, Files
<1>2. CASE \/ CheckVersion(p) \/ TakeFile(p) \/ Storing(p) \/ Done(p) \/ PrepareFails(p)
           \/ GeneratorFails(p) \/ OpenRefused(p) \/ OpenFails(p) \/ OutlivingWrites(p)
  <2>1. /\ next' = next /\ stage' \in [Process -> Stages]
        /\ stage'[p] = "storing" => stage[p] = "storing" \/ ~Last(p)
    BY <1>0, <1>2, VersionsAssumption
       DEF CheckVersion, TakeFile, Storing, Done, PrepareFails, GeneratorFails, OpenRefused, OpenFails,
           OutlivingWrites
  <2> QED
    BY <1>0, <1>a, <2>1 DEF Standing, Files
<1>3. CASE AskStored(p) \/ GeneratorWrites(p) \/ Stored(p) \/ CheckShape(p)
  <2>1. /\ \/ next' = next
           \/ next' = [next EXCEPT ![p] = 1]
           \/ next' = [next EXCEPT ![p] = @ + 1] /\ next[p] \in 1..Len(Files(p))
        /\ stage' \in [Process -> Stages] /\ stage'[p] # "storing"
    <3>1. CASE AskStored(p)
      BY <1>0, <1>a, <3>1 DEF AskStored
    <3>2. CASE GeneratorWrites(p)
      BY <1>0, <1>a, <3>2 DEF GeneratorWrites
    <3>3. CASE Stored(p)
      BY <1>0, <3>3 DEF Stored
    <3>4. CASE CheckShape(p)
      BY <1>0, <1>a, <3>4 DEF CheckShape
    <3> QED
      BY <1>3, <3>1, <3>2, <3>3, <3>4
  <2> QED
    BY <1>0, <1>b, <1>c, <2>1 DEF Standing, Files
<1> QED
  BY <1>1, <1>2, <1>3 DEF Step, Run, Fails

LEMMA StandingKept == GenerateInv /\ [GenerateNext]_generateVars => GenerateInv'
<1> SUFFICES ASSUME GenerateInv, [GenerateNext]_generateVars
             PROVE  GenerateInv'
  OBVIOUS
<1>1. CASE UNCHANGED generateVars
  BY <1>1 DEF GenerateInv, Standing, generateVars, Files
<1>2. ASSUME NEW p \in Process, Step(p)
      PROVE  GenerateInv'
  <2>1. ASSUME NEW q \in Process
        PROVE  Standing(q)'
    BY <1>2, <2>1, StepStands, StepIsItsOwn DEF GenerateInv, Standing, Files
  <2> QED
    BY <1>2, <2>1, StepStands DEF GenerateInv
<1> QED
  BY <1>1, <1>2 DEF GenerateNext, Step

-----------------------------------------------------------------------------
(* The store under the commands.                                            *)

\* What a command is at is a file of its manifest, under one of the digests.
LEMMA EntryIsNamed ==
  ASSUME NEW p \in Process, NEW i \in 1..Len(Files(p))
  PROVE  Files(p)[i].blake3 \in Digest
<1>1. Files(p)[i] \in EntryOf(Digest, Nat)
  BY FilesAssumption
<1> QED
  BY <1>1 DEF EntryOf

\* A file is taken in by a stream for the entry the command is at.
LEMMA TakingIsAStream ==
  ASSUME GenerateInv, NEW p \in Process, TakeFile(p), stage'[p] = "storing"
  PROVE  \E c \in Content : InsertStream(p, c, Entry(p).blake3) /\ Entry(p).blake3 \in Digest
<1>1. Len(Files(p)) \in Nat /\ Standing(p) /\ ~Last(p) /\ stage \in [Process -> Stages]
  BY LengthIsNatural DEF GenerateInv, TakeFile
<1>2. next[p] \in 1..Len(Files(p))
  BY <1>1 DEF Standing, Last
<1>3. Entry(p).blake3 \in Digest
  BY <1>2, EntryIsNamed DEF Entry
<1>4. InsertStream(p, Here(p)[Entry(p).path], Entry(p).blake3)
  BY <1>1 DEF TakeFile, Fail, To, Stages
<1>5. Here(p)[Entry(p).path] \in Content
  BY <1>3, <1>4, OfferedAssumption DEF InsertStream
<1> QED
  BY <1>3, <1>4, <1>5

\* What a step of a command does to the store.
LEMMA StepUsesTheStore ==
  ASSUME GenerateInv, NEW p \in Process, Step(p)
  PROVE  \/ UNCHANGED storeVars /\ stage[p] # "storing" /\ stage'[p] # "storing"
         \/ UNCHANGED <<storeVars, stage, next>>
         \/ TakeFile(p) /\ stage'[p] = "storing"
         \/ Storing(p) \/ Stored(p)
         \/ Die(p) /\ (UNCHANGED storeVars \/ Crash(p))
<1> USE DEF To, Fail, Stages, Generated
<1>0. stage \in [Process -> Stages]
  BY DEF GenerateInv
<1>1. CASE \/ Start(p) \/ AskStored(p) \/ CheckVersion(p) \/ Prepare(p) \/ GeneratorWrites(p)
           \/ GeneratorExits(p) \/ AllTaken(p) \/ CheckShape(p) \/ Done(p) \/ PrepareFails(p)
           \/ GeneratorFails(p) \/ OpenRefused(p) \/ OpenFails(p) \/ Rerun(p)
  BY <1>0, <1>1, VersionsAssumption
     DEF Start, AskStored, CheckVersion, Prepare, GeneratorWrites, GeneratorExits, AllTaken, CheckShape,
         Done, PrepareFails, GeneratorFails, OpenRefused, OpenFails, Rerun
<1>2. CASE TakeFile(p)
  BY <1>0, <1>2 DEF TakeFile
<1>3. CASE Storing(p) \/ Stored(p)
  BY <1>3
<1>4. CASE Die(p)
  BY <1>4 DEF Die
<1>5. CASE OutlivingWrites(p)
  BY <1>5 DEF OutlivingWrites
<1> QED
  BY <1>1, <1>2, <1>3, <1>4, <1>5 DEF Step, Run, Fails

LEMMA GenerateStepsTheStore ==
  GenerateInv /\ [GenerateNext]_generateVars => [StoreNext]_storeVars
<1> SUFFICES ASSUME GenerateInv, [GenerateNext]_generateVars
             PROVE  [StoreNext]_storeVars
  OBVIOUS
<1>1. CASE UNCHANGED generateVars
  BY <1>1 DEF generateVars
<1>2. ASSUME NEW p \in Process, Step(p)
      PROVE  [StoreNext]_storeVars
  <2>1. CASE TakeFile(p) /\ stage'[p] = "storing"
    <3>1. PICK c \in Content : InsertStream(p, c, Entry(p).blake3) /\ Entry(p).blake3 \in Digest
      BY <2>1, TakingIsAStream
    <3>2. Begin(p)
      BY <3>1 DEF Begin, InsertStream
    <3> QED
      BY <3>2 DEF StoreNext
  <2>2. CASE Storing(p) \/ Stored(p)
    BY <2>2 DEF Storing, StoreStep, Work, Stored, StoreNext
  <2>3. CASE UNCHANGED storeVars \/ Crash(p)
    BY <2>3 DEF StoreNext
  <2> QED
    BY <1>2, <2>1, <2>2, <2>3, StepUsesTheStore
<1> QED
  BY <1>1, <1>2 DEF GenerateNext, Step

LEMMA GenerateKeepsStanding == GenerateSpec => []GenerateInv
BY StandingStarts, StandingKept, PTL DEF GenerateSpec

\* generate.rs over store.rs: whatever the commands do, what they do to the
\* store is a behaviour of the store, so all that is proved of it holds here.
THEOREM GenerateUsesTheStore == GenerateSpec => StoreSpec
<1>1. GenerateInit => StoreInit
  BY DEF GenerateInit
<1> QED
  BY <1>1, GenerateKeepsStanding, GenerateStepsTheStore, PTL DEF GenerateSpec, StoreSpec

-----------------------------------------------------------------------------
(* What a command that is done has.                                         *)

\* The entries a command has found in the store, or put there, since it
\* started or came back to the first of them.
Passed(p) ==
  CASE stage[p] \in {"ask", "taking", "storing"} -> 1..(next[p] - 1)
    [] stage[p] \in {"shape", "done"} -> 1..Len(Files(p))
    [] OTHER -> {}

PassedAreHeld ==
  \A p \in Process : \A i \in Passed(p) : HonestName(Files(p)[i].blake3) => Held(p, i)

\* A command's call: there is one while it is storing, a stream for the entry
\* it is at, and behind its rename an honest name has an object.
AtTheEntry(p) ==
  /\ pc[p] # "idle" <=> stage[p] = "storing"
  /\ pc[p] # "idle" => /\ op[p] = "stream" /\ bytes[p] \in Offered(want[p])
                       /\ want[p] = Entry(p).blake3
  /\ HonestName(want[p]) /\ (\/ pc[p] = "settle"
                             \/ pc[p] = "returned" /\ outcome[p] \in {"stored", "deduplicated"})
       => Contains(want[p])

\* What is at an honest name is what the name says.
HonestObjects == \A d \in Digest : HonestName(d) /\ Contains(d) => Verify(d) = "ok"

DoneInv ==
  /\ StoreInv
  /\ GenerateInv
  /\ \A p \in Process : AtTheEntry(p)
  /\ HonestObjects
  /\ PassedAreHeld

LEMMA DoneStarts == GenerateInit => DoneInv
<1> SUFFICES ASSUME GenerateInit
             PROVE  DoneInv
  OBVIOUS
<1>1. StoreInv /\ GenerateInv
  BY InitEstablishesInv, StandingStarts DEF GenerateInit
<1>2. \A p \in Process : AtTheEntry(p)
  BY DEF GenerateInit, StoreInit, AtTheEntry
<1>3. HonestObjects
  BY DEF GenerateInit, StoreInit, HonestObjects, Contains
<1>4. PassedAreHeld
  BY DEF GenerateInit, PassedAreHeld, Passed
<1> QED
  BY <1>1, <1>2, <1>3, <1>4 DEF DoneInv

\* An object at an honest name stays, whatever the commands do.
LEMMA HonestStay ==
  ASSUME DoneInv, [GenerateNext]_generateVars, NEW d \in Digest, HonestName(d)
  PROVE  (Contains(d) => object'[d] # Absent) /\ (object'[d] # Absent => DigestOf(object'[d]) = d)
<1>1. [StoreNext]_storeVars
  BY GenerateStepsTheStore DEF DoneInv
<1>2. StoreInv /\ StreamsOnly
  BY DEF DoneInv, AtTheEntry, StreamsOnly
<1>3. (Contains(d) => Verify(d) = "ok") /\ \A c \in Offered(d) : DigestOf(c) = d
  BY DEF DoneInv, HonestObjects, HonestName
<1> QED
  BY <1>1, <1>2, <1>3, HonestNameStays

\* A step that leaves a process's call, stage and entry alone.
LEMMA AtTheEntryApart ==
  ASSUME DoneInv, [GenerateNext]_generateVars, NEW q \in Process,
         pc'[q] = pc[q], op'[q] = op[q], want'[q] = want[q], bytes'[q] = bytes[q],
         outcome'[q] = outcome[q], next'[q] = next[q], stage'[q] = stage[q]
  PROVE  AtTheEntry(q)'
<1>1. AtTheEntry(q) /\ want[q] \in Digest
  BY DEF DoneInv, StoreInv, StoreTypeOK
<1>2. HonestName(want[q]) => (Contains(want[q]) => object'[want[q]] # Absent)
  BY <1>1, HonestStay
<1> QED
  BY <1>1, <1>2 DEF AtTheEntry, Entry, Contains, HonestName

LEMMA AtTheEntryKept ==
  ASSUME DoneInv, [GenerateNext]_generateVars
  PROVE  \A q \in Process : AtTheEntry(q)'
<1>1. CASE UNCHANGED generateVars
  BY <1>1, AtTheEntryApart DEF generateVars, storeVars
<1>2. ASSUME NEW p \in Process, Step(p), NEW q \in Process
      PROVE  AtTheEntry(q)'
  <2>0. /\ StoreTypeOK /\ AtTheEntry(p) /\ GenerateInv
        /\ q # p => stage'[q] = stage[q] /\ next'[q] = next[q]
    BY <1>2, StepIsItsOwn DEF DoneInv, StoreInv
  <2>1. CASE UNCHANGED storeVars /\ stage[p] # "storing" /\ stage'[p] # "storing"
    <3>1. CASE q = p
      BY <2>0, <2>1, <3>1 DEF AtTheEntry, storeVars
    <3>2. CASE q # p
      BY <2>0, <2>1, <3>2, AtTheEntryApart DEF storeVars
    <3> QED
      BY <3>1, <3>2
  <2>5. CASE UNCHANGED <<storeVars, stage, next>>
    BY <2>5, AtTheEntryApart DEF storeVars
  <2>2. CASE TakeFile(p) /\ stage'[p] = "storing"
    <3>1. PICK c \in Content : InsertStream(p, c, Entry(p).blake3) /\ Entry(p).blake3 \in Digest
      BY <2>0, <2>2, TakingIsAStream
    <3>2. CASE q = p
      <4>1. /\ pc'[p] = "contains" /\ op'[p] = "stream" /\ bytes'[p] = c /\ want'[p] = Entry(p).blake3
            /\ c \in Offered(Entry(p).blake3) /\ next' = next
        BY <2>0, <2>2, <3>1 DEF InsertStream, Enter, Goto, StoreTypeOK, TakeFile
      <4> QED
        BY <2>2, <3>2, <4>1 DEF AtTheEntry, Entry
    <3>3. CASE q # p
      BY <2>0, <3>1, <3>3, AtTheEntryApart DEF InsertStream, Enter, Goto, StoreTypeOK
    <3> QED
      BY <3>2, <3>3
  <2>3. CASE Storing(p)
    <3>1. stage[p] = "storing" /\ Work(p) /\ UNCHANGED <<stage, next>>
      BY <2>3 DEF Storing, StoreStep, Work
    <3>2. /\ pc[p] # "idle" /\ pc'[p] # "idle" /\ op' = op /\ want' = want /\ bytes' = bytes
          /\ \A r \in Process : r # p => pc'[r] = pc[r] /\ outcome'[r] = outcome[r]
          /\ pc'[p] = "settle" \/ (pc'[p] = "returned" /\ outcome'[p] \in {"stored", "deduplicated"})
               => Contains(want[p]) \/ object'[want[p]] # Absent \/ pc[p] = "settle"
      BY <2>0, <3>1, StreamGoesOn DEF DoneInv, AtTheEntry
    <3>3. CASE q = p
      <4>1. HonestName(want[p]) => (Contains(want[p]) => object'[want[p]] # Absent)
        BY <2>0, HonestStay DEF StoreTypeOK
      <4>2. HonestName(want[p]) /\ (\/ pc'[p] = "settle"
                                    \/ pc'[p] = "returned" /\ outcome'[p] \in {"stored", "deduplicated"})
              => object'[want[p]] # Absent
        BY <2>0, <3>2, <4>1 DEF AtTheEntry
      <4>3. /\ pc'[p] # "idle" <=> stage'[p] = "storing"
            /\ pc'[p] # "idle" => /\ op'[p] = "stream" /\ bytes'[p] \in Offered(want'[p])
                                  /\ want'[p] = Files(p)[next'[p]].blake3
        BY <2>0, <3>1, <3>2 DEF AtTheEntry, Entry
      <4> QED
        BY <3>2, <3>3, <4>2, <4>3 DEF AtTheEntry, Entry, Contains, HonestName
    <3>4. CASE q # p
      BY <3>1, <3>2, <3>4, AtTheEntryApart
    <3> QED
      BY <3>3, <3>4
  <2>4. CASE Stored(p) \/ (Die(p) /\ (UNCHANGED storeVars \/ Crash(p)))
    <3>1. pc'[p] = "idle" /\ stage'[p] # "storing"
      BY <2>0, <2>4 DEF Stored, Die, Return, Crash, Forget, StoreTypeOK, To, Fail, storeVars, GenerateInv
    <3>2. CASE q = p
      BY <3>1, <3>2 DEF AtTheEntry
    <3>3. CASE q # p
      <4>1. pc'[q] = pc[q] /\ op'[q] = op[q] /\ want'[q] = want[q] /\ bytes'[q] = bytes[q]
            /\ outcome'[q] = outcome[q]
        BY <2>0, <2>4, <3>3 DEF Stored, Die, Return, Crash, Forget, StoreTypeOK, storeVars
      <4> QED
        BY <2>0, <3>3, <4>1, AtTheEntryApart
    <3> QED
      BY <3>2, <3>3
  <2> QED
    BY <1>2, <2>0, <2>1, <2>2, <2>3, <2>4, <2>5, StepUsesTheStore
<1> QED
  BY <1>1, <1>2 DEF GenerateNext, Step

\* An entry a command has passed was passed before, or is there.
LEMMA PassedWasThere ==
  ASSUME DoneInv, [GenerateNext]_generateVars, NEW q \in Process, NEW i \in Passed(q)',
         HonestName(Files(q)[i].blake3)
  PROVE  Contains(Files(q)[i].blake3) /\ Files(q)[i].blake3 \in Digest
<1>0. /\ StoreTypeOK /\ GenerateInv /\ stage \in [Process -> Stages] /\ next \in [Process -> Nat \ {0}]
      /\ AtTheEntry(q) /\ Standing(q) /\ Len(Files(q)) \in Nat
  BY LengthIsNatural DEF DoneInv, StoreInv, GenerateInv
<1>1. ASSUME i \in Passed(q)
      PROVE  Contains(Files(q)[i].blake3)
  BY <1>1 DEF DoneInv, PassedAreHeld, Held, Verify
<1>2. i \in 1..Len(Files(q))
  <2>1. Standing(q)' /\ next' \in [Process -> Nat \ {0}]
    BY StandingKept DEF DoneInv, GenerateInv
  <2> QED
    BY <1>0, <2>1 DEF Passed, Standing, Files
<1>3. CASE stage'[q] = stage[q] /\ next'[q] = next[q]
  BY <1>1, <1>2, <1>3, EntryIsNamed DEF Passed
<1>4. ASSUME Step(q)
      PROVE  Contains(Files(q)[i].blake3)
  <2> USE DEF To, Fail, Advance, From1, Last, Stages, Generated
  <2>1. CASE Start(q) \/ Rerun(q) \/ Die(q) \/ GeneratorExits(q)
    <3>1. next'[q] = 1 /\ stage'[q] \notin {"shape", "done"}
      BY <1>0, <2>1 DEF Start, Rerun, Die, GeneratorExits
    <3>2. Passed(q)' = {}
      BY <3>1 DEF Passed
    <3> QED
      BY <3>2
  <2>2. CASE \/ CheckVersion(q) \/ Prepare(q) \/ GeneratorWrites(q) \/ PrepareFails(q)
             \/ GeneratorFails(q) \/ OpenRefused(q) \/ OpenFails(q)
    <3>1. stage'[q] \in {"prepare", "failed", "running"}
      BY <1>0, <2>2, VersionsAssumption
         DEF CheckVersion, Prepare, GeneratorWrites, PrepareFails, GeneratorFails, OpenRefused, OpenFails
    <3>2. Passed(q)' = {}
      BY <3>1 DEF Passed
    <3> QED
      BY <3>2
  <2>3. CASE AskStored(q)
    <3>1. i \in Passed(q) \/ (i = next[q] /\ Contains(Entry(q).blake3))
      <4>1. CASE Last(q)
        BY <1>0, <1>2, <2>3, <4>1 DEF AskStored, Passed
      <4>2. CASE ~Last(q) /\ Contains(Entry(q).blake3)
        <5>1. next'[q] = next[q] + 1 /\ stage'[q] = "ask" /\ stage[q] = "ask"
          BY <1>0, <2>3, <4>2 DEF AskStored
        <5> QED
          BY <1>0, <4>2, <5>1 DEF Passed
      <4>3. CASE ~Last(q) /\ ~Contains(Entry(q).blake3)
        <5>1. stage'[q] \in {"version", "failed"}
          BY <1>0, <2>3, <4>3 DEF AskStored
        <5> QED
          BY <5>1 DEF Passed
      <4> QED
        BY <4>1, <4>2, <4>3
    <3> QED
      BY <1>1, <3>1 DEF Entry
  <2>4. CASE \/ TakeFile(q) \/ Storing(q) \/ AllTaken(q) \/ CheckShape(q) \/ Done(q)
             \/ OutlivingWrites(q)
    <3>1. i \in Passed(q)
      BY <1>0, <1>2, <2>4
         DEF TakeFile, Storing, AllTaken, CheckShape, Done, OutlivingWrites, Passed
    <3> QED
      BY <1>1, <3>1
  <2>5. CASE Stored(q)
    <3>1. PICK seen \in SeenBy(q) :
            LET verdict == Judge(q, Entry(q), seen) IN
            IF verdict = "ok"
              THEN Advance(q) /\ To(q, "taking") /\ UNCHANGED reason
              ELSE Fail(q, verdict) /\ UNCHANGED next
      BY <2>5 DEF Stored
    <3>2. CASE Judge(q, Entry(q), seen) = "ok"
      <4>1. pc[q] = "returned" /\ outcome[q] \in {"stored", "deduplicated"} /\ stage[q] = "storing"
        BY <2>5, <3>2 DEF Stored, Return, Judge
      <4>2. i \in Passed(q) \/ i = next[q]
        BY <1>0, <1>2, <3>1, <3>2, <4>1 DEF Passed
      <4>3. want[q] = Files(q)[next[q]].blake3
        BY <1>0, <4>1 DEF AtTheEntry, Entry
      <4> QED
        BY <1>0, <1>1, <4>1, <4>2, <4>3 DEF AtTheEntry
    <3>3. CASE Judge(q, Entry(q), seen) # "ok"
      <4>1. Passed(q)' = {}
        BY <1>0, <3>1, <3>3 DEF Passed
      <4> QED
        BY <4>1
    <3> QED
      BY <3>2, <3>3
  <2> QED
    BY <1>4, <2>1, <2>2, <2>3, <2>4, <2>5 DEF Step, Run, Fails
<1>5. (stage'[q] = stage[q] /\ next'[q] = next[q]) \/ Step(q)
  <2>1. CASE UNCHANGED generateVars
    BY <2>1 DEF generateVars
  <2>2. ASSUME NEW p \in Process, p # q, Step(p)
        PROVE  stage'[q] = stage[q] /\ next'[q] = next[q]
    BY <1>0, <2>2, StepIsItsOwn
  <2> QED
    BY <2>1, <2>2 DEF GenerateNext, Step
<1> QED
  BY <1>2, <1>3, <1>4, <1>5, EntryIsNamed

LEMMA DoneKept == DoneInv /\ [GenerateNext]_generateVars => DoneInv'
<1> SUFFICES ASSUME DoneInv, [GenerateNext]_generateVars
             PROVE  DoneInv'
  OBVIOUS
<1>1. StoreInv' /\ GenerateInv'
  BY GenerateStepsTheStore, StepKeepsInv, StandingKept DEF DoneInv
<1>2. HonestObjects'
  BY HonestStay DEF HonestObjects, HonestName, Contains, Verify
<1>3. PassedAreHeld'
  <2> SUFFICES ASSUME NEW q \in Process, NEW i \in Passed(q)', HonestName(Files(q)[i].blake3)
               PROVE  Held(q, i)'
    BY DEF PassedAreHeld, HonestName, Files
  <2>1. Contains(Files(q)[i].blake3) /\ Files(q)[i].blake3 \in Digest
    BY PassedWasThere
  <2>2. /\ object'[Files(q)[i].blake3] # Absent
        /\ DigestOf(object'[Files(q)[i].blake3]) = Files(q)[i].blake3
    BY <2>1, HonestStay
  <2> QED
    BY <2>2 DEF Held, Verify, Contains
<1> QED
  BY <1>1, <1>2, <1>3, AtTheEntryKept DEF DoneInv

\* generate.rs, corpus: a command that says it produced a corpus, or had it,
\* is right about every file whose name generators keep, whatever others do
\* to the store or to its scratch directory, and however they fail or die.
THEOREM DoneMeansHeldHolds == GenerateSpec => []DoneMeansHeld
<1>1. DoneInv => DoneMeansHeld
  BY DEF DoneInv, PassedAreHeld, Passed, DoneMeansHeld
<1> QED
  BY <1>1, DoneStarts, DoneKept, PTL DEF GenerateSpec

-----------------------------------------------------------------------------
(* Whose files a command takes.                                             *)

\* The stages between a command's preparation and its last file.
Working == {"running", "taking", "storing"}

AllEntries == UNION {Entries(ManifestOf(p)) : p \in Process}

\* Types of the directories and of what is recorded of their files.
ScratchTyped ==
  /\ scratch \in [Scratch -> [Paths -> Content \cup {Absent}]]
  /\ outliving \in [Process -> SUBSET AllEntries]
  /\ wrote \in [Process -> SUBSET Paths]
  /\ strayed \in [Process -> SUBSET Paths]

\* There is nothing old in the directory of p.
NothingOld(p) == \A path \in Paths : Here(p)[path] # Absent => path \in wrote[p] \cup strayed[p]

\* A command past the platform is on one, and in the directory of one that is
\* alone there is nothing old from its preparation on.
ScratchInv ==
  /\ GenerateInv
  /\ ScratchTyped
  /\ \A p \in Process : stage[p] \in {"version", "prepare"} \cup Working => Supported(p)
  /\ \A p \in Process : Alone(p) /\ stage[p] \in Working => NothingOld(p)

LEMMA ScratchStarts == GenerateInit => ScratchInv
BY StandingStarts, ScratchAssumption DEF GenerateInit, ScratchInv, ScratchTyped, Empty, Here, Working

LEMMA EntriesOfFiles ==
  ASSUME NEW p \in Process
  PROVE  /\ \A i \in 1..Len(Files(p)) : Files(p)[i] \in Entries(ManifestOf(p))
         /\ \A e \in Entries(ManifestOf(p)) : e.path \in Paths /\ e.blake3 \in Digest /\ e \in AllEntries
<1>1. Files(p) \in Seq(EntryOf(Digest, Nat))
  BY FilesAssumption
<1>2. DOMAIN Files(p) = 1..Len(Files(p)) /\ \A i \in DOMAIN Files(p) : Files(p)[i] \in EntryOf(Digest, Nat)
  BY <1>1
<1>3. Entries(ManifestOf(p)) = {Files(p)[i] : i \in DOMAIN Files(p)}
  BY DEF Entries, Files
<1>4. \A i \in 1..Len(Files(p)) : Files(p)[i] \in Entries(ManifestOf(p))
  BY <1>2, <1>3
<1>5. ASSUME NEW e \in Entries(ManifestOf(p))
      PROVE  e.path \in Paths /\ e.blake3 \in Digest /\ e \in AllEntries
  <2>1. e \in EntryOf(Digest, Nat)
    BY <1>2, <1>3
  <2>2. e.blake3 \in Digest
    BY <2>1 DEF EntryOf
  <2> QED
    BY <2>2 DEF Paths, AllEntries
<1> QED
  BY <1>4, <1>5

LEMMA OutlivingAreNamed ==
  ASSUME NEW e \in AllEntries
  PROVE  e.path \in Paths /\ e.blake3 \in Digest
BY EntriesOfFiles DEF AllEntries

\* The steps that leave the directories and the record of them alone.
LEMMA WhoLeavesScratch ==
  ASSUME NEW p \in Process,
         \/ Start(p) \/ AskStored(p) \/ CheckVersion(p) \/ GeneratorExits(p) \/ TakeFile(p)
         \/ Storing(p) \/ Stored(p) \/ AllTaken(p) \/ CheckShape(p) \/ Done(p)
         \/ GeneratorFails(p) \/ OpenRefused(p) \/ OpenFails(p)
  PROVE  UNCHANGED scratchVars
<1>1. CASE \/ Start(p) \/ AskStored(p) \/ CheckVersion(p) \/ GeneratorExits(p) \/ TakeFile(p)
           \/ Storing(p) \/ Stored(p)
  BY <1>1 DEF Start, AskStored, CheckVersion, GeneratorExits, TakeFile, Storing, Stored, scratchVars
<1>2. CASE \/ AllTaken(p) \/ CheckShape(p) \/ Done(p) \/ GeneratorFails(p) \/ OpenRefused(p)
           \/ OpenFails(p)
  BY <1>2 DEF AllTaken, CheckShape, Done, GeneratorFails, OpenRefused, OpenFails, scratchVars
<1> QED
  BY <1>1, <1>2

\* What a step does to the scratch directories.
LEMMA WhoTouchesScratch ==
  ASSUME NEW p \in Process, Step(p)
  PROVE  \/ UNCHANGED scratchVars
         \/ Prepare(p) \/ PrepareFails(p)
         \/ GeneratorWrites(p) \/ OutlivingWrites(p)
         \/ Rerun(p) \/ Die(p)
BY WhoLeavesScratch DEF Step, Run, Fails

\* Only a preparation brings a command to its work, and only one on a platform
\* of its manifest gets so far.
LEMMA WhoWorks ==
  ASSUME ScratchInv, NEW p \in Process, Step(p)
  PROVE  \A q \in Process :
           /\ stage'[q] \in {"version", "prepare"} \cup Working => Supported(q)
           /\ stage'[q] \in Working => stage[q] \in Working \/ (q = p /\ Prepare(p))
<1>0. GenerateInv /\ stage \in [Process -> Stages]
      /\ \A q \in Process : stage[q] \in {"version", "prepare"} \cup Working => Supported(q)
  BY DEF ScratchInv, GenerateInv
<1>1. /\ stage'[p] \in {"version", "prepare"} \cup Working => Supported(p)
      /\ stage'[p] \in Working => stage[p] \in Working \/ Prepare(p)
  <2> USE <1>0 DEF To, Fail, Generated, Working
  <2>1. CASE \/ Start(p) \/ AskStored(p) \/ CheckVersion(p) \/ Prepare(p) \/ GeneratorWrites(p)
             \/ GeneratorExits(p) \/ TakeFile(p)
    BY <2>1, VersionsAssumption
       DEF Start, AskStored, CheckVersion, Prepare, GeneratorWrites, GeneratorExits, TakeFile
  <2>2. CASE Storing(p) \/ Stored(p) \/ AllTaken(p) \/ CheckShape(p) \/ Done(p)
    BY <2>2 DEF Storing, Stored, AllTaken, CheckShape, Done
  <2>3. CASE \/ PrepareFails(p) \/ GeneratorFails(p) \/ OpenRefused(p) \/ OpenFails(p) \/ Rerun(p)
             \/ Die(p) \/ OutlivingWrites(p)
    BY <2>3 DEF PrepareFails, GeneratorFails, OpenRefused, OpenFails, Rerun, Die, OutlivingWrites
  <2> QED
    BY <2>1, <2>2, <2>3 DEF Step, Run, Fails
<1> QED
  BY <1>0, <1>1, StepIsItsOwn

\* What a preparation, failed or not, leaves of the directory.
Cleared(p) ==
  /\ scratch' = [scratch EXCEPT ![ScratchOf(p)] = scratch'[ScratchOf(p)]]
  /\ scratch'[ScratchOf(p)] \in [Paths -> Content \cup {Absent}]
  /\ wrote' = [wrote EXCEPT ![p] = {}]
  /\ strayed' = [strayed EXCEPT ![p] = {}]
  /\ outliving' = outliving

LEMMA PreparationsClear ==
  ASSUME ScratchTyped, NEW p \in Process, Prepare(p) \/ PrepareFails(p)
  PROVE  Cleared(p) /\ stage[p] = "prepare" /\ (Prepare(p) => scratch'[ScratchOf(p)] = Empty)
<1>0. ScratchOf(p) \in Scratch /\ scratch[ScratchOf(p)] \in [Paths -> Content \cup {Absent}]
      /\ scratch \in [Scratch -> [Paths -> Content \cup {Absent}]]
  BY ScratchAssumption DEF ScratchTyped
<1>1. CASE Prepare(p)
  BY <1>0, <1>1 DEF Prepare, Emptying, Cleared, Empty
<1>2. CASE PrepareFails(p)
  <2>1. PICK gone \in SUBSET Paths :
          scratch' = [scratch EXCEPT ![ScratchOf(p)] =
                        [path \in Paths |-> IF path \in gone THEN Absent ELSE @[path]]]
    BY <1>2 DEF PrepareFails
  <2>2. scratch'[ScratchOf(p)]
          = [path \in Paths |-> IF path \in gone THEN Absent ELSE scratch[ScratchOf(p)][path]]
    BY <1>0, <2>1
  <2>3. scratch'[ScratchOf(p)] \in [Paths -> Content \cup {Absent}]
    BY <1>0, <2>2
  <2>4. scratch' = [scratch EXCEPT ![ScratchOf(p)] = scratch'[ScratchOf(p)]]
    BY <1>0, <2>1, <2>2
  <2>5. stage[p] = "prepare" /\ Emptying(p) /\ outliving' = outliving
    BY <1>2 DEF PrepareFails
  <2>6. Prepare(p) => scratch'[ScratchOf(p)] = Empty
    BY <1>0 DEF Prepare, Empty
  <2> QED
    BY <2>3, <2>4, <2>5, <2>6 DEF Cleared, Emptying
<1> QED
  BY <1>1, <1>2

\* What a generator at work writes, and records.
LEMMA GeneratorsWrite ==
  ASSUME ScratchInv, NEW p \in Process, GeneratorWrites(p)
  PROVE  /\ stage[p] = "running" /\ outliving' = outliving
         /\ \/ UNCHANGED scratchVars
            \/ \E path \in Paths : \E c \in Content :
                 /\ scratch' = [scratch EXCEPT ![ScratchOf(p)][path] = c]
                 /\ wrote' = [wrote EXCEPT ![p] = @ \cup {path}]
                 /\ strayed' = [strayed EXCEPT ![p] = @ \ {path}]
<1>1. next[p] \in 1..Len(Files(p))
  BY LengthIsNatural DEF GeneratorWrites, ScratchInv, GenerateInv, Standing, Last
<1>2. Entry(p).path \in Paths /\ Entry(p).blake3 \in Digest
  BY <1>1, EntriesOfFiles DEF Entry
<1> QED
  BY <1>2, OfferedAssumption DEF GeneratorWrites, scratchVars

\* What an outliving generator writes, and what is recorded of it.
Strays(p, path, c) ==
  /\ scratch' = [scratch EXCEPT ![ScratchOf(p)][path] = c]
  /\ wrote' = wrote
  /\ strayed' = [q \in Process |->
       IF ScratchOf(q) = ScratchOf(p) /\ stage[q] \in {"running", "taking", "storing"}
         THEN strayed[q] \cup {path}
         ELSE strayed[q]]

LEMMA OutlivingWrite ==
  ASSUME ScratchTyped, NEW p \in Process, OutlivingWrites(p)
  PROVE  /\ \E path \in Paths : \E c \in Content : Strays(p, path, c)
         /\ outliving' \in [Process -> SUBSET AllEntries]
         /\ UNCHANGED <<stage, next, reason, openError>>
<1>1. PICK e \in outliving[p] : \E c \in Offered(e.blake3) :
        Strays(p, e.path, c) /\ outliving' = [outliving EXCEPT ![p] = @ \ {e}]
        /\ UNCHANGED <<stage, next, reason, openError>>
  BY DEF OutlivingWrites, Strays
<1>2. e \in AllEntries
  BY DEF ScratchTyped
<1>3. e.path \in Paths /\ e.blake3 \in Digest
  BY <1>2, OutlivingAreNamed
<1> QED
  BY <1>1, <1>3, OfferedAssumption DEF ScratchTyped

\* A table of tables with one cell changed is one still.
LEMMA CellChanged ==
  ASSUME NEW Rows, NEW Columns, NEW Cells, NEW table \in [Rows -> [Columns -> Cells]],
         NEW r \in Rows, NEW k \in Columns, NEW x \in Cells
  PROVE  [table EXCEPT ![r][k] = x] \in [Rows -> [Columns -> Cells]]
<1>1. [table[r] EXCEPT ![k] = x] \in [Columns -> Cells]
  OBVIOUS
<1>2. [table EXCEPT ![r] = [table[r] EXCEPT ![k] = x]] \in [Rows -> [Columns -> Cells]]
  BY <1>1
<1> QED
  BY <1>2

LEMMA ScratchTypedKept ==
  ASSUME ScratchInv, NEW p \in Process, Step(p)
  PROVE  ScratchTyped'
<1>0. ScratchTyped /\ ScratchOf(p) \in Scratch
  BY ScratchAssumption DEF ScratchInv
<1>1. CASE UNCHANGED scratchVars
  BY <1>0, <1>1 DEF scratchVars, ScratchTyped, Paths, AllEntries
<1>2. CASE Prepare(p) \/ PrepareFails(p)
  BY <1>0, <1>2, PreparationsClear DEF Cleared, ScratchTyped, Paths, AllEntries
<1>3. CASE GeneratorWrites(p)
  <2>1. PICK path \in Paths, c \in Content :
          \/ UNCHANGED scratchVars
          \/ /\ scratch' = [scratch EXCEPT ![ScratchOf(p)][path] = c]
             /\ wrote' = [wrote EXCEPT ![p] = @ \cup {path}]
             /\ strayed' = [strayed EXCEPT ![p] = @ \ {path}]
    <3>1. Content # {} /\ Paths # {}
      <4>1. next[p] \in 1..Len(Files(p))
        BY <1>3, LengthIsNatural DEF GeneratorWrites, ScratchInv, GenerateInv, Standing, Last
      <4> QED
        BY <4>1, EntriesOfFiles, DigestAssumption
    <3> QED
      BY <1>3, <3>1, GeneratorsWrite
  <2>2. outliving' = outliving
    BY <1>3, GeneratorsWrite
  <2>3. CASE ~UNCHANGED scratchVars
    <3>1. scratch' \in [Scratch -> [Paths -> Content \cup {Absent}]]
      <4>1. scratch' = [scratch EXCEPT ![ScratchOf(p)][path] = c] /\ c \in Content \cup {Absent}
        BY <2>1, <2>3
      <4>2. scratch \in [Scratch -> [Paths -> Content \cup {Absent}]]
        BY <1>0 DEF ScratchTyped
      <4> QED
        BY <1>0, <4>1, <4>2, CellChanged
    <3>2. wrote' \in [Process -> SUBSET Paths] /\ strayed' \in [Process -> SUBSET Paths]
      BY <1>0, <2>1, <2>3 DEF ScratchTyped
    <3> QED
      BY <1>0, <2>2, <3>1, <3>2 DEF ScratchTyped, Paths, AllEntries
  <2> QED
    BY <1>1, <2>3
<1>4. CASE OutlivingWrites(p)
  <2>1. PICK path \in Paths, c \in Content : Strays(p, path, c)
    BY <1>0, <1>4, OutlivingWrite
  <2>2. outliving' \in [Process -> SUBSET AllEntries]
    BY <1>0, <1>4, OutlivingWrite
  <2>3. strayed' \in [Process -> SUBSET Paths]
    BY <1>0, <2>1 DEF Strays, ScratchTyped
  <2>4. scratch' \in [Scratch -> [Paths -> Content \cup {Absent}]]
    <3>1. scratch' = [scratch EXCEPT ![ScratchOf(p)][path] = c] /\ c \in Content \cup {Absent}
      BY <2>1 DEF Strays
    <3>2. scratch \in [Scratch -> [Paths -> Content \cup {Absent}]]
      BY <1>0 DEF ScratchTyped
    <3> QED
      BY <1>0, <3>1, <3>2, CellChanged
  <2> QED
    BY <1>0, <2>1, <2>2, <2>3, <2>4 DEF Strays, ScratchTyped, Paths, AllEntries
<1>5. CASE Rerun(p)
  BY <1>0, <1>5 DEF Rerun, Emptying, ScratchTyped, Paths, AllEntries
<1>6. CASE Die(p)
  <2>1. Unwritten(p) \subseteq AllEntries
    <3>1. GenerateInv /\ Len(Files(p)) \in Nat /\ next[p] \in Nat \ {0}
      BY LengthIsNatural DEF ScratchInv, GenerateInv
    <3>2. \A i \in next[p]..Len(Files(p)) : i \in 1..Len(Files(p))
      BY <3>1
    <3> QED
      BY <3>2, EntriesOfFiles DEF Unwritten
  <2>2. outliving' \in [Process -> SUBSET AllEntries]
    BY <1>0, <1>6, <2>1 DEF Die, ScratchTyped
  <2> QED
    BY <1>0, <1>6, <2>2 DEF Die, Emptying, ScratchTyped, Paths, AllEntries
<1> QED
  BY <1>1, <1>2, <1>3, <1>4, <1>5, <1>6, WhoTouchesScratch

LEMMA NothingOldKept ==
  ASSUME ScratchInv, NEW p \in Process, Step(p), NEW q \in Process, Alone(q), stage'[q] \in Working
  PROVE  NothingOld(q)'
<1>0. /\ ScratchTyped /\ ScratchTyped' /\ GenerateInv
      /\ ScratchOf(p) \in Scratch /\ ScratchOf(q) \in Scratch
      /\ stage[p] \in {"version", "prepare"} \cup Working => Supported(p)
  BY ScratchAssumption, ScratchTypedKept DEF ScratchInv
<1>1. ASSUME q # p, stage[p] \in {"version", "prepare"} \cup Working
      PROVE  ScratchOf(q) # ScratchOf(p)
  BY <1>0, <1>1 DEF Alone
<1>2. ASSUME ~(q = p /\ Prepare(p))
      PROVE  stage[q] \in Working /\ NothingOld(q)
  BY <1>2, WhoWorks DEF ScratchInv
<1>3. CASE UNCHANGED scratchVars
  <2>1. ~(q = p /\ Prepare(p)) \/ scratch'[ScratchOf(p)] = Empty
    BY <1>0, PreparationsClear
  <2> QED
    BY <1>2, <1>3, <2>1 DEF NothingOld, Here, scratchVars, Paths, Empty
<1>4. CASE Prepare(p) \/ PrepareFails(p)
  <2>1. Cleared(p) /\ stage[p] = "prepare" /\ (Prepare(p) => scratch'[ScratchOf(p)] = Empty)
    BY <1>0, <1>4, PreparationsClear
  <2>2. CASE q # p
    <3>1. scratch'[ScratchOf(q)] = Here(q) /\ wrote'[q] = wrote[q] /\ strayed'[q] = strayed[q]
      BY <1>0, <1>1, <2>1, <2>2 DEF Cleared, ScratchTyped, Here
    <3> QED
      BY <1>2, <2>2, <3>1 DEF NothingOld, Here, Paths
  <2>3. CASE q = p /\ Prepare(p)
    BY <2>1, <2>3 DEF NothingOld, Here, Empty, Paths
  <2>4. CASE q = p /\ ~Prepare(p)
    <3>1. stage[p] \in Working
      BY <1>2, <2>4
    <3> QED
      BY <2>1, <3>1 DEF Working
  <2> QED
    BY <2>2, <2>3, <2>4
<1>5. CASE GeneratorWrites(p)
  <2>1. stage[p] = "running"
    BY <1>5, GeneratorsWrite
  <2>2. NothingOld(q)
    BY <1>2, <2>1, PreparationsClear, <1>0
  <2>3. CASE ~UNCHANGED scratchVars
    <3>1. PICK path \in Paths, c \in Content :
            /\ scratch' = [scratch EXCEPT ![ScratchOf(p)][path] = c]
            /\ wrote' = [wrote EXCEPT ![p] = @ \cup {path}]
            /\ strayed' = [strayed EXCEPT ![p] = @ \ {path}]
      BY <1>5, <2>3, GeneratorsWrite
    <3>2. CASE q # p
      <4>1. scratch'[ScratchOf(q)] = Here(q) /\ wrote'[q] = wrote[q] /\ strayed'[q] = strayed[q]
        BY <1>0, <1>1, <2>1, <3>1, <3>2 DEF ScratchTyped, Here, Working
      <4> QED
        BY <2>2, <4>1 DEF NothingOld, Here, Paths
    <3>3. CASE q = p
      <4> SUFFICES ASSUME NEW other \in Paths, scratch'[ScratchOf(p)][other] # Absent
                   PROVE  other \in wrote'[p] \cup strayed'[p]
        BY <3>3 DEF NothingOld, Here, Paths
      <4>1. CASE other = path
        BY <1>0, <3>1, <4>1 DEF ScratchTyped
      <4>2. CASE other # path
        <5>1. scratch'[ScratchOf(p)][other] = Here(p)[other]
          BY <1>0, <3>1, <4>2 DEF ScratchTyped, Here
        <5>2. other \in wrote[p] \cup strayed[p]
          BY <2>2, <3>3, <5>1 DEF NothingOld
        <5> QED
          BY <1>0, <3>1, <4>2, <5>2 DEF ScratchTyped
      <4> QED
        BY <4>1, <4>2
    <3> QED
      BY <3>2, <3>3
  <2> QED
    BY <1>3, <2>3
<1>6. CASE OutlivingWrites(p)
  <2>1. PICK path \in Paths, c \in Content : Strays(p, path, c)
    BY <1>0, <1>6, OutlivingWrite
  <2>2. stage' = stage
    BY <1>0, <1>6, OutlivingWrite
  <2>3. stage[q] \in Working /\ NothingOld(q)
    BY <2>2 DEF ScratchInv
  <2> SUFFICES ASSUME NEW other \in Paths, scratch'[ScratchOf(q)][other] # Absent
               PROVE  other \in wrote'[q] \cup strayed'[q]
    BY DEF NothingOld, Here, Paths
  <2>4. wrote'[q] = wrote[q] /\ strayed[q] \subseteq strayed'[q]
    BY <1>0, <2>1 DEF Strays, ScratchTyped
  <2>5. CASE ScratchOf(q) = ScratchOf(p) /\ other = path
    <3>1. path \in strayed'[q]
      BY <2>1, <2>3, <2>5 DEF Strays, Working
    <3> QED
      BY <2>5, <3>1
  <2>6. CASE ~(ScratchOf(q) = ScratchOf(p) /\ other = path)
    <3>1. scratch'[ScratchOf(q)][other] = Here(q)[other]
      BY <1>0, <2>1, <2>6 DEF Strays, ScratchTyped, Here
    <3> QED
      BY <2>3, <2>4, <3>1 DEF NothingOld
  <2> QED
    BY <2>5, <2>6
<1>7. CASE Rerun(p) \/ Die(p)
  <2>1. stage'[p] = "start" /\ scratch' = scratch
        /\ wrote' = [wrote EXCEPT ![p] = {}] /\ strayed' = [strayed EXCEPT ![p] = {}]
    BY <1>0, <1>7 DEF Rerun, Die, To, Emptying, GenerateInv
  <2>2. q # p
    BY <2>1 DEF Working
  <2>3. NothingOld(q)
    BY <1>2, <2>2
  <2> QED
    BY <1>0, <2>1, <2>2, <2>3 DEF NothingOld, Here, Paths, ScratchTyped
<1> QED
  BY <1>3, <1>4, <1>5, <1>6, <1>7, WhoTouchesScratch

LEMMA ScratchKept == ScratchInv /\ [GenerateNext]_generateVars => ScratchInv'
<1> SUFFICES ASSUME ScratchInv, [GenerateNext]_generateVars
             PROVE  ScratchInv'
  OBVIOUS
<1>1. GenerateInv'
  BY StandingKept DEF ScratchInv
<1>2. CASE UNCHANGED generateVars
  BY <1>1, <1>2 DEF ScratchInv, ScratchTyped, generateVars, Supported, Alone, Here, NothingOld, Paths,
                    AllEntries
<1>3. ASSUME NEW p \in Process, Step(p)
      PROVE  ScratchInv'
  <2>1. ScratchTyped'
    BY <1>3, ScratchTypedKept
  <2>2. \A q \in Process : stage'[q] \in {"version", "prepare"} \cup Working => Supported(q)
    BY <1>3, WhoWorks
  <2>3. \A q \in Process : Alone(q) /\ stage'[q] \in Working => NothingOld(q)'
    BY <1>3, NothingOldKept
  <2> QED
    BY <1>1, <2>1, <2>2, <2>3 DEF ScratchInv, Supported, Alone
<1> QED
  BY <1>2, <1>3 DEF GenerateNext, Step

\* generate.rs, prepare: whatever a run before left, or one that died, a command
\* with a scratch directory of its own takes in only files that a generator has
\* written since it emptied the directory: its own, or one that outlived the
\* process it was started by.
THEOREM TakesNothingOldHolds == GenerateSpec => []TakesNothingOld
<1>1. ScratchInv => TakesNothingOld
  <2> SUFFICES ASSUME ScratchInv, NEW p \in Process, Alone(p)
               PROVE  Taking(p) \subseteq wrote[p] \cup strayed[p]
    BY DEF TakesNothingOld
  <2>1. CASE stage[p] \in {"taking", "storing"}
    <3>1. NothingOld(p)
      BY <2>1 DEF ScratchInv, Working
    <3> QED
      BY <3>1, EntriesOfFiles DEF Taking, NothingOld
  <2>2. CASE stage[p] \notin {"taking", "storing"}
    BY <2>2 DEF Taking
  <2> QED
    BY <2>1, <2>2
<1> QED
  BY <1>1, ScratchStarts, ScratchKept, PTL DEF GenerateSpec

-----------------------------------------------------------------------------
(* What a command means by a file its generator did not write.              *)

\* No two commands that get past their platforms share a scratch directory.
ScratchApart == \A p \in Process : Supported(p) => Alone(p)

\* What p's generator wrote is in p's directory, whoever has written there since.
StillThere(p) == \A path \in wrote[p] : Here(p)[path] # Absent

\* What a generator wrote for a command is in its directory until the command
\* empties it, and a file that was not there to be opened was not written.
WrittenInv ==
  /\ ScratchInv
  /\ reason \in [Process -> Reasons]
  /\ openError \in [Process -> {"none", "missing", "refused"}]
  /\ \A p \in Process : Supported(p) => StillThere(p)
  /\ AbsentMeansUnwritten

LEMMA WrittenStarts == GenerateInit => WrittenInv
BY ScratchStarts DEF GenerateInit, WrittenInv, StillThere, Reasons, AbsentMeansUnwritten

LEMMA FooterVerdicts ==
  ASSUME NEW p \in Process, NEW e
  PROVE  JudgeFooter(p, e) \in {"ok", "missing", "shape"}
BY DEF JudgeFooter

\* Why a step has a command fail, if it does: over the file it was to open, or
\* over something else.
LEMMA WhatFails ==
  ASSUME WrittenInv, NEW p \in Process, Step(p)
  PROVE  \/ UNCHANGED <<reason, openError>> /\ (stage'[p] = "failed" => UNCHANGED <<stage, next, wrote>>)
         \/ \E why \in Reasons \ {"absent"} :
              reason' = [reason EXCEPT ![p] = why] /\ openError' = openError
         \/ Rerun(p) \/ TakeFile(p) \/ OpenRefused(p)
<1> USE DEF Fail, Reasons, To, Generated, Stages
<1>0. stage \in [Process -> Stages] /\ reason \in [Process -> Reasons]
  BY DEF WrittenInv, ScratchInv, GenerateInv
<1>1. CASE Start(p) \/ AskStored(p) \/ CheckVersion(p)
  BY <1>0, <1>1, VersionsAssumption DEF Start, AskStored, CheckVersion
<1>2. CASE Prepare(p) \/ GeneratorWrites(p) \/ GeneratorExits(p) \/ Storing(p) \/ AllTaken(p)
  BY <1>0, <1>2 DEF Prepare, GeneratorWrites, GeneratorExits, Storing, AllTaken, scratchVars
<1>3. CASE Stored(p)
  <2>1. \A seen : \/ Judge(p, Entry(p), seen) = "ok"
                  \/ Judge(p, Entry(p), seen) \in Reasons \ {"absent"}
    BY DEF Judge
  <2> QED
    BY <1>0, <1>3, <2>1 DEF Stored
<1>4. CASE CheckShape(p)
  BY <1>0, <1>4, FooterVerdicts DEF CheckShape
<1>5. CASE Done(p) \/ PrepareFails(p) \/ GeneratorFails(p) \/ OpenFails(p)
  BY <1>0, <1>5 DEF Done, PrepareFails, GeneratorFails, OpenFails
<1>6. CASE Die(p) \/ OutlivingWrites(p)
  BY <1>0, <1>6 DEF Die, OutlivingWrites
<1> QED
  BY <1>1, <1>2, <1>3, <1>4, <1>5, <1>6 DEF Step, Run, Fails

LEMMA ReasonsAreTyped ==
  ASSUME WrittenInv, NEW p \in Process, Step(p)
  PROVE  /\ reason' \in [Process -> Reasons]
         /\ openError' \in [Process -> {"none", "missing", "refused"}]
         /\ \A q \in Process \ {p} : reason'[q] = reason[q] /\ openError'[q] = openError[q]
<1>1. reason \in [Process -> Reasons] /\ openError \in [Process -> {"none", "missing", "refused"}]
  BY DEF WrittenInv
<1>2. CASE Rerun(p) \/ TakeFile(p) \/ OpenRefused(p)
  BY <1>1, <1>2 DEF Rerun, TakeFile, OpenRefused, Fail, Reasons
<1> QED
  BY <1>1, <1>2, WhatFails

\* Only the command itself, or its generator, changes the record of what it wrote.
LEMMA WrittenIsItsOwn ==
  ASSUME WrittenInv, NEW p \in Process, Step(p)
  PROVE  \A q \in Process \ {p} : wrote'[q] = wrote[q]
<1>0. ScratchInv /\ ScratchTyped /\ wrote \in [Process -> SUBSET Paths]
  BY DEF WrittenInv, ScratchInv, ScratchTyped
<1>1. CASE UNCHANGED scratchVars
  BY <1>1 DEF scratchVars
<1>2. CASE Prepare(p) \/ PrepareFails(p)
  BY <1>0, <1>2, PreparationsClear DEF Cleared
<1>3. CASE GeneratorWrites(p)
  BY <1>0, <1>3, GeneratorsWrite DEF scratchVars
<1>4. CASE OutlivingWrites(p)
  BY <1>4 DEF OutlivingWrites
<1>5. CASE Rerun(p) \/ Die(p)
  BY <1>0, <1>5 DEF Rerun, Die, Emptying
<1> QED
  BY <1>1, <1>2, <1>3, <1>4, <1>5, WhoTouchesScratch

\* The files of the others are where they were: nobody empties a directory but
\* the one command past its platform that has it, and a generator that outlived
\* its process writes over files and removes none.
LEMMA WrittenStays ==
  ASSUME ScratchApart, WrittenInv, NEW p \in Process, Step(p), NEW q \in Process, Supported(q)
  PROVE  StillThere(q)'
<1> SUFFICES ASSUME NEW path \in wrote'[q]
             PROVE  scratch'[ScratchOf(q)][path] # Absent
  BY DEF StillThere, Here
<1>0. /\ ScratchInv /\ ScratchTyped /\ ScratchOf(p) \in Scratch /\ ScratchOf(q) \in Scratch
      /\ stage[p] \in {"prepare", "running"} => Supported(p)
      /\ scratch \in [Scratch -> [Paths -> Content \cup {Absent}]]
      /\ wrote \in [Process -> SUBSET Paths]
      /\ \A other \in wrote[q] : Here(q)[other] # Absent
  BY ScratchAssumption DEF WrittenInv, ScratchInv, ScratchTyped, Working, StillThere
<1>1. ASSUME q # p, stage[p] \in {"prepare", "running"}
      PROVE  ScratchOf(q) # ScratchOf(p)
  BY <1>0, <1>1 DEF ScratchApart, Alone
<1>2. CASE UNCHANGED scratchVars
  BY <1>0, <1>2 DEF scratchVars, Here
<1>3. CASE Prepare(p) \/ PrepareFails(p)
  <2>1. Cleared(p) /\ stage[p] = "prepare"
    BY <1>0, <1>3, PreparationsClear
  <2>2. q # p /\ path \in wrote[q]
    BY <1>0, <2>1 DEF Cleared
  <2>3. scratch'[ScratchOf(q)] = Here(q)
    BY <1>0, <1>1, <2>1, <2>2 DEF Cleared, Here
  <2> QED
    BY <1>0, <2>2, <2>3
<1>4. CASE GeneratorWrites(p) /\ ~UNCHANGED scratchVars
  <2>1. PICK one \in Paths, c \in Content :
          /\ scratch' = [scratch EXCEPT ![ScratchOf(p)][one] = c]
          /\ wrote' = [wrote EXCEPT ![p] = @ \cup {one}]
    BY <1>0, <1>4, GeneratorsWrite
  <2>2. c # Absent /\ stage[p] = "running"
    BY <1>0, <1>4, GeneratorsWrite, MarkerAssumption
  <2>3. CASE q # p
    <3>1. scratch'[ScratchOf(q)] = Here(q) /\ path \in wrote[q]
      BY <1>0, <1>1, <2>1, <2>2, <2>3 DEF Here
    <3> QED
      BY <1>0, <3>1
  <2>4. CASE q = p /\ path = one
    BY <1>0, <2>1, <2>2, <2>4
  <2>5. CASE q = p /\ path # one
    <3>1. path \in wrote[q] /\ scratch'[ScratchOf(q)][path] = Here(q)[path]
      BY <1>0, <2>1, <2>5 DEF Here
    <3> QED
      BY <1>0, <3>1
  <2> QED
    BY <2>3, <2>4, <2>5
<1>5. CASE OutlivingWrites(p)
  <2>1. PICK one \in Paths, c \in Content : Strays(p, one, c)
    BY <1>0, <1>5, OutlivingWrite
  <2>2. c # Absent /\ path \in wrote[q] /\ path \in Paths
    BY <1>0, <2>1, MarkerAssumption DEF Strays
  <2>3. scratch'[ScratchOf(q)][path] \in {c, Here(q)[path]}
    BY <1>0, <2>1, <2>2 DEF Strays, Here
  <2> QED
    BY <1>0, <2>2, <2>3
<1>6. CASE Rerun(p) \/ Die(p)
  <2>1. scratch' = scratch /\ wrote' = [wrote EXCEPT ![p] = {}]
    BY <1>6 DEF Rerun, Die, Emptying
  <2>2. path \in wrote[q]
    BY <1>0, <2>1
  <2> QED
    BY <1>0, <2>1, <2>2 DEF Here
<1> QED
  BY <1>2, <1>3, <1>4, <1>5, <1>6, WhoTouchesScratch

\* A command finds a file missing where there is none.
LEMMA AbsentIsUnwritten ==
  ASSUME WrittenInv, NEW p \in Process, Step(p),
         stage'[p] = "failed", reason'[p] = "absent", openError'[p] = "missing"
  PROVE  Entry(p).path' \notin wrote'[p]
<1>0. /\ ScratchInv /\ ScratchTyped /\ stage \in [Process -> Stages] /\ next \in [Process -> Nat \ {0}]
      /\ reason \in [Process -> Reasons] /\ openError \in [Process -> {"none", "missing", "refused"}]
      /\ stage[p] = "taking" => StillThere(p)
  BY DEF WrittenInv, ScratchInv, GenerateInv, Working
<1>1. CASE TakeFile(p)
  <2>1. stage[p] = "taking" /\ next' = next /\ wrote' = wrote /\ Here(p)[Entry(p).path] = Absent
    BY <1>0, <1>1 DEF TakeFile, To, scratchVars
  <2> QED
    BY <1>0, <2>1 DEF StillThere, Entry, Files
<1>2. CASE OpenRefused(p) \/ Rerun(p)
  BY <1>0, <1>2 DEF OpenRefused, Rerun, To, Fail
<1>3. CASE UNCHANGED <<reason, openError, stage, next, wrote>>
  BY <1>3 DEF WrittenInv, AbsentMeansUnwritten, Entry, Files
<1>4. ASSUME NEW why \in Reasons \ {"absent"}, reason' = [reason EXCEPT ![p] = why]
      PROVE  FALSE
  BY <1>0, <1>4
<1> QED
  BY <1>0, <1>1, <1>2, <1>3, <1>4, WhatFails

LEMMA WrittenKept ==
  ASSUME ScratchApart
  PROVE  WrittenInv /\ [GenerateNext]_generateVars => WrittenInv'
<1> SUFFICES ASSUME WrittenInv, [GenerateNext]_generateVars
             PROVE  WrittenInv'
  OBVIOUS
<1>1. ScratchInv'
  BY ScratchKept DEF WrittenInv
<1>2. CASE UNCHANGED generateVars
  BY <1>1, <1>2 DEF WrittenInv, generateVars, Supported, StillThere, Here, Entry, Files,
                    AbsentMeansUnwritten
<1>3. ASSUME NEW p \in Process, Step(p)
      PROVE  WrittenInv'
  <2>0. GenerateInv
    BY DEF WrittenInv, ScratchInv
  <2>1. AbsentMeansUnwritten'
    <3> SUFFICES ASSUME NEW q \in Process, stage'[q] = "failed", reason'[q] = "absent",
                        openError'[q] = "missing"
                 PROVE  Entry(q).path' \notin wrote'[q]
      BY DEF AbsentMeansUnwritten
    <3>1. CASE q = p
      BY <1>3, <3>1, AbsentIsUnwritten
    <3>2. CASE q # p
      BY <1>3, <2>0, <3>2, ReasonsAreTyped, WrittenIsItsOwn, StepIsItsOwn
         DEF WrittenInv, AbsentMeansUnwritten, Entry, Files
    <3> QED
      BY <3>1, <3>2
  <2>2. /\ reason' \in [Process -> Reasons]
        /\ openError' \in [Process -> {"none", "missing", "refused"}]
    BY <1>3, ReasonsAreTyped
  <2>3. \A q \in Process : Supported(q) => StillThere(q)'
    BY <1>3, WrittenStays
  <2> QED
    BY <1>1, <2>1, <2>2, <2>3 DEF WrittenInv, Supported
<1> QED
  BY <1>2, <1>3 DEF GenerateNext, Step

\* generate.rs, GenerateError::Absent: a command that fails because "the program
\* succeeded and did not write a file", and found no file there to open, is right
\* about its program, after any failures, deaths and reruns and whatever outlived
\* them, as long as no two commands that may run here have one scratch directory.
THEOREM AbsentMeansUnwrittenHolds ==
  ASSUME ScratchApart
  PROVE  GenerateSpec => []AbsentMeansUnwritten
<1>1. WrittenInv => AbsentMeansUnwritten
  BY DEF WrittenInv
<1> QED
  BY <1>1, WrittenStarts, WrittenKept, PTL DEF GenerateSpec

=============================================================================
