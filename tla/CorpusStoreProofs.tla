-------------------------- MODULE CorpusStoreProofs --------------------------
(***************************************************************************)
(* What holds of CorpusStore for every set of processes, contents and      *)
(* digests, every choice of what streams deliver and every choice of       *)
(* faults.                                                                 *)
(***************************************************************************)
EXTENDS CorpusStore, TLAPS

(***************************************************************************)
(* The strengthening the safety properties need: a call about to rename    *)
(* owns a complete temporary file holding what it read; bytes and file     *)
(* calls work under the digest of what they read; only a stream settles.   *)
(***************************************************************************)
OwnsTemporary ==
  \A p \in Process : pc[p] = "rename" => temp[want[p]][p] = bytes[p]

NamedByContent ==
  "source" \notin Faults =>
    \A p \in Process :
      op[p] # "stream" /\ pc[p] \notin {"idle", "returned"}
        => DigestOf(bytes[p]) = want[p]

StreamSettles == \A p \in Process : pc[p] = "settle" => op[p] = "stream"

StoreInv ==
  /\ StoreTypeOK
  /\ NeverTruncated
  /\ OwnsTemporary
  /\ NamedByContent
  /\ StreamSettles
  /\ StoredWasChecked

\* An idle call carries a real digest and a real content as its placeholders.
LEMMA DefaultsTyped == NoDigest \in Digest /\ NoBytes \in Content
  BY DigestAssumption DEF NoDigest, NoBytes

\* An empty store directory satisfies the inductive invariant.
LEMMA InitEstablishesInv == StoreInit => StoreInv
  BY DefaultsTyped, MarkerAssumption
  DEF StoreInit, StoreInv, StoreTypeOK, NeverTruncated, OwnsTemporary, NamedByContent,
      StreamSettles, StoredWasChecked, Steps, Ops, Outcomes

\* A call begins: nothing on disk moves, and the new call is still to ask.
LEMMA BeginKeepsInv ==
  ASSUME StoreInv, NEW p \in Process, Begin(p)
  PROVE  StoreInv'
<1> USE DEF StoreInv, StoreTypeOK, Steps, Ops, Outcomes, Enter, Goto, Finish,
            NeverTruncated, OwnsTemporary, NamedByContent, StreamSettles,
            StoredWasChecked, Mismatching
<1>1. ASSUME NEW c \in Content, InsertBytes(p, c)
      PROVE  StoreInv'
  BY <1>1, DigestAssumption DEF InsertBytes
<1>2. ASSUME NEW c \in Content, InsertFile(p, c)
      PROVE  StoreInv'
  BY <1>2, DigestAssumption DEF InsertFile
<1>3. ASSUME NEW c \in Content, NEW d \in Digest, InsertVerified(p, c, d)
      PROVE  StoreInv'
  <2>1. CASE DigestOf(c) # d
    <3>1. Enter(p, "file", d, c) /\ Finish(p, "mismatch")
      BY <1>3, <2>1 DEF InsertVerified
    <3>2. QED
      BY <3>1
  <2>2. CASE DigestOf(c) = d
    <3>1. PICK again \in Content : InsertFile(p, again)
      BY <1>3, <2>2 DEF InsertVerified, Reread
    <3>2. QED
      BY <3>1, <1>2
  <2>3. QED
    BY <2>1, <2>2
<1>4. ASSUME NEW d \in Digest, NEW c \in Offered(d), InsertStream(p, c, d)
      PROVE  StoreInv'
  <2>1. c \in Content
    BY OfferedAssumption
  <2>2. QED
    BY <1>4, <2>1 DEF InsertStream
<1>5. QED
  BY <1>1, <1>2, <1>3, <1>4 DEF Begin

\* A call in flight takes its next step.
LEMMA WorkKeepsInv ==
  ASSUME StoreInv, NEW p \in Process, Work(p)
  PROVE  StoreInv'
<1> USE DEF StoreInv, StoreTypeOK, Steps, Ops, Outcomes, Goto, Finish,
            NeverTruncated, OwnsTemporary, NamedByContent, StreamSettles,
            StoredWasChecked, Mismatching
<1>1. CASE AskContains(p)
  BY <1>1 DEF AskContains
<1>2. CASE CreateTemporary(p)
  BY <1>2 DEF CreateTemporary
<1>3. CASE CreateFails(p)
  BY <1>3 DEF CreateFails
<1>4. CASE FillTemporary(p)
  <2>1. PICK c \in Content :
          /\ bytes' = [bytes EXCEPT ![p] = c]
          /\ temp' = [temp EXCEPT ![want[p]][p] = c]
          /\ "source" \notin Faults => c = bytes[p]
    BY <1>4 DEF FillTemporary, Reread
  <2>2. QED
    BY <1>4, <2>1 DEF FillTemporary
<1>5. CASE FillFails(p)
  <2>1. CASE temp' = [temp EXCEPT ![want[p]][p] = Absent]
    BY <1>5, <2>1 DEF FillFails
  <2>2. CASE UNCHANGED temp
    BY <1>5, <2>2 DEF FillFails
  <2>3. QED
    BY <1>5, <2>1, <2>2 DEF FillFails
<1>6. CASE RenameIntoPlace(p)
  BY <1>6, MarkerAssumption DEF RenameIntoPlace
<1>7. CASE RenameFails(p)
  BY <1>7 DEF RenameFails
<1>8. CASE SettleMatch(p)
  BY <1>8 DEF SettleMatch
<1>9. CASE SettleMismatch(p)
  BY <1>9, MarkerAssumption DEF SettleMismatch
<1>10. CASE SettleRemoveFails(p)
  BY <1>10 DEF SettleRemoveFails
<1>11. QED
  BY <1>1, <1>2, <1>3, <1>4, <1>5, <1>6, <1>7, <1>8, <1>9, <1>10 DEF Work, Proceed, Refused

\* Whatever one process does to the store, the inductive invariant is kept.
LEMMA StepKeepsInv == StoreInv /\ [StoreNext]_storeVars => StoreInv'
<1> SUFFICES ASSUME StoreInv, [StoreNext]_storeVars
             PROVE  StoreInv'
  OBVIOUS
<1>1. CASE UNCHANGED storeVars
  BY <1>1 DEF storeVars, StoreInv, StoreTypeOK, NeverTruncated, OwnsTemporary,
              NamedByContent, StreamSettles, StoredWasChecked, Mismatching
<1>2. ASSUME NEW p \in Process, Return(p) \/ Crash(p)
      PROVE  StoreInv'
  <2>1. Forget(p) /\ UNCHANGED <<object, temp>>
    BY <1>2 DEF Return, Crash
  <2>2. StoreTypeOK'
    BY <2>1, DefaultsTyped DEF Forget, StoreInv, StoreTypeOK, Steps, Ops, Outcomes
  <2>3. NeverTruncated' /\ OwnsTemporary' /\ NamedByContent' /\ StreamSettles'
    BY <2>1 DEF Forget, StoreInv, StoreTypeOK, NeverTruncated, OwnsTemporary,
                NamedByContent, StreamSettles
  <2>4. StoredWasChecked'
    BY <2>1 DEF Forget, StoreInv, StoreTypeOK, StoredWasChecked, Mismatching
  <2>5. QED
    BY <2>2, <2>3, <2>4 DEF StoreInv
<1>3. QED
  BY <1>1, <1>2, BeginKeepsInv, WorkKeepsInv DEF StoreNext

\* The store is never outside its inductive invariant: the strengthening every
\* other theorem of this module leans on.
THEOREM StoreInvariant == StoreSpec => []StoreInv
  BY InitEstablishesInv, StepKeepsInv, PTL DEF StoreSpec

\* Every variable of the store keeps its type: a name or a temporary file
\* holds a whole content, a file being filled, or nothing, at every step.
THEOREM StoreTypeCorrect == StoreSpec => []StoreTypeOK
  BY StoreInvariant, PTL DEF StoreInv

\* No crash and no refusal of the filesystem ever leaves a file that was
\* still being filled at a name that asserts its content (write()).
THEOREM NeverTruncatedHolds == StoreSpec => []NeverTruncated
  BY StoreInvariant, PTL DEF StoreInv

\* insert_stream answers "stored" only for bytes that hash to the name.
THEOREM StoredWasCheckedHolds == StoreSpec => []StoredWasChecked
  BY StoreInvariant, PTL DEF StoreInv

-----------------------------------------------------------------------------

\* Only a rename and the removal of a mismatch touch an object.
LEMMA WhoTouchesObjects ==
  ASSUME [StoreNext]_storeVars, object' # object
  PROVE  \E p \in Process : RenameIntoPlace(p) \/ SettleMismatch(p)
  BY DEF StoreNext, storeVars, Begin, Work, Proceed, Refused, Return, Crash, Enter, InsertBytes, InsertFile,
         InsertVerified, InsertStream, AskContains, CreateTemporary, CreateFails,
         FillTemporary, FillFails, RenameFails, SettleMatch, SettleRemoveFails

\* What a rename puts at a name is what the renaming process itself read:
\* the process id in the temporary name keeps writers of one object apart.
THEOREM PublishesOwnBytesHolds == StoreSpec => PublishesOwnBytes
<1>1. ASSUME StoreInv, [StoreNext]_storeVars, NEW p \in Process,
             pc[p] = "rename", pc'[p] \in {"settle", "returned"}, object' # object
      PROVE  object'[want[p]] = bytes[p]
  <2>1. PICK q \in Process : RenameIntoPlace(q) \/ SettleMismatch(q)
    BY <1>1, WhoTouchesObjects
  <2>2. q = p
    BY <1>1, <2>1 DEF RenameIntoPlace, SettleMismatch, Goto, Finish, StoreInv, StoreTypeOK
  <2>3. RenameIntoPlace(p)
    BY <1>1, <2>1, <2>2 DEF SettleMismatch
  <2>4. QED
    BY <1>1, <2>3 DEF RenameIntoPlace, StoreInv, StoreTypeOK, OwnsTemporary
<1>2. StoreInv /\ [StoreNext]_storeVars
        => [\A p \in Process :
              pc[p] = "rename" /\ pc'[p] \in {"settle", "returned"} /\ object' # object
                => object'[want[p]] = bytes[p]]_storeVars
  BY <1>1
<1>3. QED
  BY <1>2, StoreInvariant, PTL DEF StoreSpec, PublishesOwnBytes

\* An object loses its own content, or a name takes on a content that is not
\* its own, only in a step of a stream for that name with the wrong bytes.
THEOREM DisturbedOnlyByMismatchHolds == StoreSpec => DisturbedOnlyByMismatch
<1> DEFINE Blamed(d) == \E p \in Process :
                          /\ op[p] = "stream"
                          /\ Mismatching(p, d)
                          /\ pc[p] \in {"rename", "settle"}
<1>1. ASSUME StoreInv, [StoreNext]_storeVars, NEW d \in Digest,
             "source" \notin Faults, object'[d] # object[d], Verify(d)' # "ok"
      PROVE  Blamed(d)
  <2>1. PICK p \in Process : RenameIntoPlace(p) \/ SettleMismatch(p)
    BY <1>1, WhoTouchesObjects
  <2>2. want[p] = d
    BY <1>1, <2>1 DEF RenameIntoPlace, SettleMismatch, StoreInv, StoreTypeOK
  <2>3. CASE RenameIntoPlace(p)
    <3>1. object'[d] = bytes[p] /\ bytes[p] # Absent
      BY <2>2, <2>3, <1>1, MarkerAssumption
      DEF RenameIntoPlace, StoreInv, StoreTypeOK, OwnsTemporary
    <3>2. DigestOf(bytes[p]) # d
      BY <1>1, <3>1 DEF Verify, Contains
    <3>3. op[p] = "stream"
      BY <1>1, <2>2, <2>3, <3>2 DEF RenameIntoPlace, StoreInv, NamedByContent
    <3>4. QED
      BY <2>2, <2>3, <3>2, <3>3 DEF RenameIntoPlace, Mismatching
  <2>4. CASE SettleMismatch(p)
    BY <1>1, <2>2, <2>4 DEF SettleMismatch, Mismatching, StoreInv, StreamSettles
  <2>5. QED
    BY <2>1, <2>3, <2>4
<1>2. StoreInv /\ [StoreNext]_storeVars
        => [\A d \in Digest :
              "source" \notin Faults /\ object'[d] # object[d] /\ Verify(d)' # "ok"
                => Blamed(d)]_storeVars
  BY <1>1
<1>3. QED
  BY <1>2, StoreInvariant, PTL DEF StoreSpec, DisturbedOnlyByMismatch

\* With no crash, no failed removal and no file rewritten under a copy, a
\* wrong content is under a name only while a stream is there to remove it.
THEOREM MismatchIsPendingHolds == StoreSpec => []MismatchIsPending
<1>1. StoreInit => MismatchIsPending
  BY DEF StoreInit, MismatchIsPending, Verify, Contains
<1>2. StoreInv /\ MismatchIsPending /\ [StoreNext]_storeVars => MismatchIsPending'
  <2> SUFFICES ASSUME StoreInv, MismatchIsPending, [StoreNext]_storeVars,
                      Faults \cap {"crash", "remove", "source"} = {},
                      NEW d \in Digest, Verify(d)' = "mismatch"
               PROVE  \E p \in Process : Settling(p, d)'
    BY DEF MismatchIsPending
  <2>1. CASE object'[d] = object[d]
    <3>1. PICK q \in Process : Settling(q, d)
      BY <2>1 DEF MismatchIsPending, Verify, Contains
    <3>2. CASE UNCHANGED <<pc, want, bytes>>
      BY <3>1, <3>2 DEF Settling, Mismatching
    <3>3. ASSUME NEW p \in Process, Begin(p) \/ Work(p) \/ Return(p) \/ Crash(p)
          PROVE  Settling(q, d)'
      <4>1. CASE p = q
        <5>1. SettleMismatch(q)
          BY <3>1, <3>3, <4>1
          DEF Settling, Mismatching, Begin, InsertBytes, InsertFile, InsertVerified,
              InsertStream, Enter, Work, Proceed, Refused, AskContains, CreateTemporary, CreateFails,
              FillTemporary, FillFails, RenameIntoPlace, RenameFails, SettleMatch,
              SettleRemoveFails, Return, Crash
        <5>2. object'[d] = Absent
          BY <3>1, <5>1 DEF SettleMismatch, Settling, Mismatching, StoreInv, StoreTypeOK
        <5>3. QED
          BY <5>2 DEF Verify, Contains
      <4>2. CASE p # q
        <5>1. pc'[q] = pc[q] /\ want'[q] = want[q] /\ bytes'[q] = bytes[q]
          BY <3>3, <4>2
          DEF Begin, InsertBytes, InsertFile, InsertVerified, InsertStream, Enter, Work, Proceed, Refused,
              AskContains, CreateTemporary, CreateFails, FillTemporary, FillFails,
              RenameIntoPlace, RenameFails, SettleMatch, SettleMismatch, SettleRemoveFails,
              Return, Crash, Forget, Goto, Finish, StoreInv, StoreTypeOK
        <5>2. QED
          BY <3>1, <5>1 DEF Settling, Mismatching
      <4>3. QED
        BY <4>1, <4>2
    <3>4. QED
      BY <3>1, <3>2, <3>3 DEF StoreNext, storeVars
  <2>2. CASE object'[d] # object[d]
    <3>1. PICK p \in Process : RenameIntoPlace(p) \/ SettleMismatch(p)
      BY <2>2, WhoTouchesObjects
    <3>2. RenameIntoPlace(p) /\ want[p] = d
      BY <2>2, <3>1
      DEF RenameIntoPlace, SettleMismatch, Verify, Contains, StoreInv, StoreTypeOK
    <3>3. object'[d] = bytes[p] /\ DigestOf(bytes[p]) # d
      BY <3>2 DEF RenameIntoPlace, Verify, Contains, StoreInv, StoreTypeOK, OwnsTemporary
    <3>4. op[p] = "stream"
      BY <3>2, <3>3 DEF RenameIntoPlace, StoreInv, NamedByContent
    <3>5. QED
      BY <3>2, <3>3, <3>4
      DEF RenameIntoPlace, Goto, Settling, Mismatching, StoreInv, StoreTypeOK
  <2>3. QED
    BY <2>1, <2>2
<1>3. QED
  BY <1>1, <1>2, StoreInvariant, PTL DEF StoreSpec

\* Calls that end leave no temporary file, as long as processes live and the
\* filesystem grants the rename and the clean-up after a failed write.
THEOREM NoStrayTemporariesHolds == StoreSpec => []NoStrayTemporaries
<1>1. StoreInit => NoStrayTemporaries
  BY DEF StoreInit, NoStrayTemporaries
<1>2. StoreInv /\ NoStrayTemporaries /\ [StoreNext]_storeVars => NoStrayTemporaries'
  <2> SUFFICES ASSUME StoreInv, NoStrayTemporaries, [StoreNext]_storeVars,
                      Faults \cap {"crash", "rename", "cleanup"} = {},
                      NEW d \in Digest, NEW q \in Process, temp'[d][q] # Absent
               PROVE  pc'[q] \in {"fill", "rename"} /\ want'[q] = d
    BY DEF NoStrayTemporaries
  <2>1. temp[d][q] # Absent => pc[q] \in {"fill", "rename"} /\ want[q] = d
    BY DEF NoStrayTemporaries
  <2>2. CASE UNCHANGED storeVars
    BY <2>1, <2>2 DEF storeVars
  <2>3. ASSUME NEW p \in Process, Begin(p) \/ Return(p) \/ Crash(p)
        PROVE  pc'[q] \in {"fill", "rename"} /\ want'[q] = d
    <3>1. UNCHANGED temp /\ pc[p] \notin {"fill", "rename"}
      BY <2>3 DEF Begin, InsertBytes, InsertFile, InsertVerified, InsertStream, Enter,
                  Return, Crash
    <3>2. q # p
      BY <2>1, <3>1
    <3>3. pc'[q] = pc[q] /\ want'[q] = want[q]
      BY <2>3, <3>2 DEF Begin, InsertBytes, InsertFile, InsertVerified, InsertStream,
                        Enter, Return, Crash, Forget, Goto, Finish, StoreInv, StoreTypeOK
    <3>4. QED
      BY <2>1, <3>1, <3>3
  <2>4. ASSUME NEW p \in Process, Work(p)
        PROVE  pc'[q] \in {"fill", "rename"} /\ want'[q] = d
    <3>1. CASE AskContains(p) \/ CreateFails(p) \/ SettleMatch(p) \/ SettleMismatch(p)
                 \/ SettleRemoveFails(p)
      BY <2>1, <3>1 DEF AskContains, CreateFails, SettleMatch, SettleMismatch,
                        SettleRemoveFails, Goto, Finish, StoreInv, StoreTypeOK
    <3>2. CASE CreateTemporary(p)
      BY <2>1, <3>2 DEF CreateTemporary, Goto, StoreInv, StoreTypeOK
    <3>3. CASE FillTemporary(p)
      BY <2>1, <3>3 DEF FillTemporary, Goto, StoreInv, StoreTypeOK
    <3>4. CASE FillFails(p)
      BY <2>1, <3>4 DEF FillFails, Finish, StoreInv, StoreTypeOK
    <3>5. CASE RenameIntoPlace(p)
      <4>1. temp' = [temp EXCEPT ![want[p]][p] = Absent] /\ UNCHANGED want
        BY <3>5 DEF RenameIntoPlace
      <4>2. \A r \in Process : r # p => pc'[r] = pc[r]
        BY <3>5 DEF RenameIntoPlace, Goto, Finish, StoreInv, StoreTypeOK
      <4>3. QED
        BY <2>1, <4>1, <4>2, <3>5 DEF RenameIntoPlace, StoreInv, StoreTypeOK
    <3>6. CASE RenameFails(p)
      BY <3>6 DEF RenameFails
    <3>7. QED
      BY <2>4, <3>1, <3>2, <3>3, <3>4, <3>5, <3>6 DEF Work, Proceed, Refused
  <2>5. QED
    BY <2>2, <2>3, <2>4 DEF StoreNext
<1>3. QED
  BY <1>1, <1>2, StoreInvariant, PTL DEF StoreSpec

-----------------------------------------------------------------------------
(* With honest streams CorpusStore implements ContentStore.                *)

HonestInv ==
  /\ StoreInv
  /\ \A p \in Process :
       pc[p] \notin {"idle", "returned"} => DigestOf(bytes[p]) = want[p]
  /\ \A d \in Digest : object[d] # Absent => DigestOf(object[d]) = d
  /\ \A p \in Process : pc[p] = "settle" => object[want[p]] # Absent

\* An empty store holds nothing that could fail to hash to its name.
LEMMA HonestInit == StoreInit => HonestInv
  BY InitEstablishesInv DEF HonestInv, StoreInit

\* No stream has a mismatch to remove, so objects are only ever added.
LEMMA HonestAddsOnly ==
  ASSUME HonestInv, [StoreNext]_storeVars
  PROVE  \/ UNCHANGED object
         \/ \E p \in Process :
              /\ RenameIntoPlace(p)
              /\ object' = [object EXCEPT ![want[p]] = bytes[p]]
              /\ bytes[p] \in Content
              /\ DigestOf(bytes[p]) = want[p]
<1> SUFFICES ASSUME object' # object
             PROVE  \E p \in Process :
                      /\ RenameIntoPlace(p)
                      /\ object' = [object EXCEPT ![want[p]] = bytes[p]]
                      /\ bytes[p] \in Content
                      /\ DigestOf(bytes[p]) = want[p]
  OBVIOUS
<1>1. PICK p \in Process : RenameIntoPlace(p) \/ SettleMismatch(p)
  BY WhoTouchesObjects
<1>2. RenameIntoPlace(p)
  BY <1>1 DEF SettleMismatch, HonestInv
<1>3. QED
  BY <1>2 DEF RenameIntoPlace, HonestInv, StoreInv, StoreTypeOK, OwnsTemporary

\* With honest streams only right contents reach a name, and what a stream is
\* about to settle is still there.
LEMMA HonestStep == Honest /\ HonestInv /\ [StoreNext]_storeVars => HonestInv'
<1> SUFFICES ASSUME Honest, HonestInv, [StoreNext]_storeVars
             PROVE  HonestInv'
  OBVIOUS
<1>1. StoreInv'
  BY StepKeepsInv DEF HonestInv
<1>2. \A d \in Digest : object'[d] # Absent => DigestOf(object'[d]) = d
  BY HonestAddsOnly DEF HonestInv, StoreInv, StoreTypeOK
<1>3. \A d \in Digest : object[d] # Absent => object'[d] # Absent
  BY HonestAddsOnly, MarkerAssumption DEF HonestInv, StoreInv, StoreTypeOK
<1>4. ASSUME NEW q \in Process, pc'[q] \notin {"idle", "returned"}
      PROVE  DigestOf(bytes'[q]) = want'[q]
  <2>1. CASE UNCHANGED storeVars
    BY <1>4, <2>1 DEF storeVars, HonestInv
  <2>2. ASSUME NEW p \in Process, Begin(p)
        PROVE  DigestOf(bytes'[q]) = want'[q]
    <3>1. p # q => pc'[q] = pc[q] /\ bytes'[q] = bytes[q] /\ want'[q] = want[q]
      BY <2>2 DEF Begin, InsertBytes, InsertFile, InsertVerified, InsertStream, Enter,
                  Goto, Finish, HonestInv, StoreInv, StoreTypeOK
    <3>2. CASE p # q
      BY <1>4, <3>1, <3>2 DEF HonestInv
    <3>3. CASE p = q
      <4>1. ASSUME NEW c \in Content, InsertBytes(q, c) \/ InsertFile(q, c)
            PROVE  DigestOf(bytes'[q]) = want'[q]
        BY <4>1, DigestAssumption
        DEF InsertBytes, InsertFile, Enter, HonestInv, StoreInv, StoreTypeOK
      <4>2. ASSUME NEW c \in Content, NEW d \in Digest, InsertVerified(q, c, d)
            PROVE  DigestOf(bytes'[q]) = want'[q]
        BY <1>4, <4>1, <4>2
        DEF InsertVerified, Reread, Honest, Finish, HonestInv, StoreInv, StoreTypeOK
      <4>3. ASSUME NEW d \in Digest, NEW c \in Offered(d), InsertStream(q, c, d)
            PROVE  DigestOf(bytes'[q]) = want'[q]
        BY <4>3 DEF InsertStream, Enter, Honest, HonestInv, StoreInv, StoreTypeOK
      <4>4. QED
        BY <2>2, <3>3, <4>1, <4>2, <4>3 DEF Begin
    <3>4. QED
      BY <3>2, <3>3
  <2>3. ASSUME NEW p \in Process, FillTemporary(p)
        PROVE  DigestOf(bytes'[q]) = want'[q]
    <3>1. UNCHANGED <<bytes, want>>
      BY <2>3 DEF FillTemporary, Reread, Honest, HonestInv, StoreInv, StoreTypeOK
    <3>2. pc[q] \notin {"idle", "returned"}
      BY <1>4, <2>3 DEF FillTemporary, Goto, HonestInv, StoreInv, StoreTypeOK
    <3>3. QED
      BY <3>1, <3>2 DEF HonestInv
  <2>4. ASSUME NEW p \in Process, Work(p), ~FillTemporary(p)
        PROVE  DigestOf(bytes'[q]) = want'[q]
    <3>1. UNCHANGED <<bytes, want>> /\ pc[p] \notin {"idle", "returned"}
      BY <2>4 DEF Work, Proceed, Refused, AskContains, CreateTemporary, CreateFails, FillFails,
                  RenameIntoPlace, RenameFails, SettleMatch, SettleMismatch,
                  SettleRemoveFails
    <3>2. q # p => pc'[q] = pc[q]
      BY <2>4 DEF Work, Proceed, Refused, AskContains, CreateTemporary, CreateFails, FillFails,
                  RenameIntoPlace, RenameFails, SettleMatch, SettleMismatch,
                  SettleRemoveFails, Goto, Finish, HonestInv, StoreInv, StoreTypeOK
    <3>3. QED
      BY <1>4, <3>1, <3>2 DEF HonestInv
  <2>5. ASSUME NEW p \in Process, Return(p) \/ Crash(p)
        PROVE  DigestOf(bytes'[q]) = want'[q]
    BY <1>4, <2>5 DEF Return, Crash, Forget, HonestInv, StoreInv, StoreTypeOK
  <2>6. QED
    BY <2>1, <2>2, <2>3, <2>4, <2>5 DEF StoreNext
<1>5. ASSUME NEW q \in Process, pc'[q] = "settle"
      PROVE  object'[want'[q]] # Absent
  <2>1. CASE pc[q] = "settle" /\ want'[q] = want[q]
    BY <1>3, <2>1 DEF HonestInv, StoreInv, StoreTypeOK
  <2>2. CASE RenameIntoPlace(q)
    BY <2>2, MarkerAssumption
    DEF RenameIntoPlace, HonestInv, StoreInv, StoreTypeOK, OwnsTemporary
  <2>3. (pc[q] = "settle" /\ want'[q] = want[q]) \/ RenameIntoPlace(q)
    <3>1. CASE UNCHANGED storeVars
      BY <1>5, <3>1 DEF storeVars
    <3>2. ASSUME NEW p \in Process, Begin(p) \/ Return(p) \/ Crash(p)
          PROVE  pc[q] = "settle" /\ want'[q] = want[q]
      BY <1>5, <3>2 DEF Begin, InsertBytes, InsertFile, InsertVerified, InsertStream,
                        Enter, Goto, Finish, Return, Crash, Forget, HonestInv, StoreInv,
                        StoreTypeOK
    <3>3. ASSUME NEW p \in Process, Work(p), ~RenameIntoPlace(p)
          PROVE  pc[q] = "settle" /\ want'[q] = want[q]
      BY <1>5, <3>3 DEF Work, Proceed, Refused, AskContains, CreateTemporary, CreateFails, FillTemporary,
                        FillFails, RenameFails, SettleMatch, SettleMismatch,
                        SettleRemoveFails, Goto, Finish, HonestInv, StoreInv, StoreTypeOK
    <3>4. ASSUME NEW p \in Process, RenameIntoPlace(p), p # q
          PROVE  pc[q] = "settle" /\ want'[q] = want[q]
      BY <1>5, <3>4 DEF RenameIntoPlace, Goto, Finish, HonestInv, StoreInv, StoreTypeOK
    <3>5. QED
      BY <3>1, <3>2, <3>3, <3>4 DEF StoreNext
  <2>4. QED
    BY <2>1, <2>2, <2>3
<1>6. QED
  BY <1>1, <1>2, <1>4, <1>5 DEF HonestInv

\* The object side of the mapping: names are added, one at a time.
LEMMA HeldGrows ==
  ASSUME HonestInv, [StoreNext]_storeVars
  PROVE  \/ held' = held
         \/ \E p \in Process : RenameIntoPlace(p) /\ held' = held \cup {want[p]}
<1>1. CASE UNCHANGED object
  BY <1>1 DEF held, Verify, Contains
<1>2. ASSUME NEW p \in Process, RenameIntoPlace(p), bytes[p] \in Content,
             object' = [object EXCEPT ![want[p]] = bytes[p]],
             DigestOf(bytes[p]) = want[p]
      PROVE  held' = held \cup {want[p]}
  BY <1>2, MarkerAssumption DEF held, Verify, Contains, HonestInv, StoreInv, StoreTypeOK
<1>3. QED
  BY <1>1, <1>2, HonestAddsOnly

\* The answer side: a finishing step answers its own call and no other.
LEMMA FinishAnswers ==
  ASSUME StoreInv, NEW p \in Process, NEW how \in Outcomes, Finish(p, how),
         pc[p] # "returned", \A q \in Process : q # p => want'[q] = want[q]
  PROVE  /\ answer[p] = <<>>
         /\ answer' = [answer EXCEPT ![p] = <<want'[p], how>>]
  BY DEF answer, Finish, StoreInv, StoreTypeOK

\* A call that only moves on to its next filesystem step answers nothing.
LEMMA GotoAnswersNothing ==
  ASSUME StoreInv, NEW p \in Process, NEW step \in Steps, Goto(p, step),
         pc[p] # "returned", step # "returned", UNCHANGED outcome,
         \A q \in Process : q # p => want'[q] = want[q]
  PROVE  UNCHANGED answer
  BY DEF answer, Goto, StoreInv, StoreTypeOK

\* A caller that takes its answer, or dies, leaves no answer behind.
LEMMA ForgetTakesAnswer ==
  ASSUME StoreInv, NEW p \in Process, Forget(p)
  PROVE  answer' = [answer EXCEPT ![p] = <<>>]
  BY DEF answer, Forget, StoreInv, StoreTypeOK

\* The empty store is the abstract store that holds no name.
LEMMA RefinesInit == StoreInit => Promise!ContentInit
  BY DEF StoreInit, Promise!ContentInit, held, answer, Verify, Contains

\* Every step of the honest store is a step of the abstract store or a stutter.
LEMMA RefinesStep ==
  ASSUME Honest, HonestInv, [StoreNext]_storeVars
  PROVE  [Promise!ContentNext]_(Promise!contentVars)
<1> USE DEF Promise!ContentNext, Promise!contentVars
<1>1. ASSUME NEW p \in Process, NEW how \in Outcomes, NEW d \in Digest,
             held' = held, Finish(p, how), pc[p] # "returned", want'[p] = d,
             \A q \in Process : q # p => want'[q] = want[q],
             how \in {"stored", "deduplicated"} => d \in held
      PROVE  Promise!Answer(p, d, how)
  BY <1>1, FinishAnswers DEF Promise!Answer, HonestInv
<1>2. CASE UNCHANGED storeVars
  BY <1>2 DEF storeVars, held, answer, Verify, Contains
<1>3. ASSUME NEW p \in Process, Begin(p)
      PROVE  [Promise!ContentNext]_(Promise!contentVars)
  <2>1. held' = held /\ pc[p] = "idle"
    BY <1>3 DEF Begin, InsertBytes, InsertFile, InsertVerified, InsertStream, Enter,
                held, Verify, Contains
  <2>2. ASSUME NEW o \in Ops, NEW d \in Digest, NEW c \in Content,
               Enter(p, o, d, c), Goto(p, "contains"), UNCHANGED outcome
        PROVE  UNCHANGED answer
    <3>1. \A q \in Process : q # p => want'[q] = want[q]
      BY <2>2 DEF Enter, HonestInv, StoreInv, StoreTypeOK
    <3>2. QED
      BY <2>1, <2>2, <3>1, GotoAnswersNothing DEF Steps, HonestInv
  <2>3. ASSUME NEW c \in Content, InsertBytes(p, c) \/ InsertFile(p, c)
        PROVE  UNCHANGED answer
    BY <2>2, <2>3, DigestAssumption DEF InsertBytes, InsertFile, Ops
  <2>4. ASSUME NEW c \in Content, NEW d \in Digest, InsertVerified(p, c, d)
        PROVE  UNCHANGED answer \/ Promise!Answer(p, d, "mismatch")
    <3>1. CASE DigestOf(c) = d
      BY <2>3, <2>4, <3>1 DEF InsertVerified, Reread, Honest
    <3>2. CASE DigestOf(c) # d
      <4>1. Enter(p, "file", d, c) /\ Finish(p, "mismatch")
        BY <2>4, <3>2 DEF InsertVerified
      <4>2. want'[p] = d /\ \A q \in Process : q # p => want'[q] = want[q]
        BY <4>1 DEF Enter, HonestInv, StoreInv, StoreTypeOK
      <4>3. QED
        BY <1>1, <2>1, <4>1, <4>2 DEF Outcomes
    <3>3. QED
      BY <3>1, <3>2
  <2>5. ASSUME NEW d \in Digest, NEW c \in Offered(d), InsertStream(p, c, d)
        PROVE  UNCHANGED answer
    BY <2>2, <2>5, OfferedAssumption DEF InsertStream, Ops
  <2>6. CASE UNCHANGED answer
    BY <2>1, <2>6
  <2>7. CASE \E d \in Digest : Promise!Answer(p, d, "mismatch")
    BY <2>7 DEF Outcomes
  <2>8. QED
    BY <1>3, <2>3, <2>4, <2>5, <2>6, <2>7 DEF Begin
<1>4. ASSUME NEW p \in Process, Work(p)
      PROVE  [Promise!ContentNext]_(Promise!contentVars)
  <2>1. pc[p] \notin {"idle", "returned"} /\ UNCHANGED want /\ want[p] \in Digest
    BY <1>4 DEF Work, Proceed, Refused, AskContains, CreateTemporary, CreateFails, FillTemporary, FillFails,
                RenameIntoPlace, RenameFails, SettleMatch, SettleMismatch,
                SettleRemoveFails, HonestInv, StoreInv, StoreTypeOK
  <2>2. CASE RenameIntoPlace(p)
    <3>1. held' = held \cup {want[p]}
      <4>1. \A q \in Process : RenameIntoPlace(q) => q = p
        BY <2>2 DEF RenameIntoPlace, Goto, Finish, HonestInv, StoreInv, StoreTypeOK
      <4>2. object'[want[p]] = bytes[p] /\ DigestOf(bytes[p]) = want[p]
        BY <2>2 DEF RenameIntoPlace, HonestInv, StoreInv, StoreTypeOK, OwnsTemporary
      <4>3. want[p] \in held'
        BY <2>1, <4>2, MarkerAssumption
        DEF held, Verify, Contains, HonestInv, StoreInv, StoreTypeOK
      <4>4. QED
        BY <4>1, <4>3, HeldGrows
    <3>2. CASE op[p] = "stream"
      <4>1. UNCHANGED answer
        BY <2>1, <2>2, <3>2, GotoAnswersNothing DEF RenameIntoPlace, Steps, HonestInv
      <4>2. Promise!Hold(want[p])
        BY <3>1, <4>1 DEF Promise!Hold
      <4>3. QED
        BY <2>1, <4>2
    <3>3. CASE op[p] # "stream"
      <4>1. Finish(p, "stored")
        BY <2>2, <3>3 DEF RenameIntoPlace
      <4>2. Promise!Answer(p, want[p], "stored")
        BY <2>1, <3>1, <4>1, FinishAnswers DEF Promise!Answer, Outcomes, HonestInv
      <4>3. QED
        BY <2>1, <4>2 DEF Outcomes
    <3>4. QED
      BY <3>2, <3>3
  <2>3. CASE CreateTemporary(p) \/ FillTemporary(p)
    <3>1. UNCHANGED answer
      BY <2>1, <2>3, GotoAnswersNothing DEF CreateTemporary, FillTemporary, Steps, HonestInv
    <3>2. UNCHANGED held
      BY <2>3 DEF CreateTemporary, FillTemporary, held, Verify, Contains
    <3>3. QED
      BY <3>1, <3>2
  <2>4. CASE AskContains(p)
    <3>1. UNCHANGED held
      BY <2>4 DEF AskContains, held, Verify, Contains
    <3>2. CASE Contains(want[p])
      <4>1. want[p] \in held
        BY <2>1, <3>2 DEF held, Verify, Contains, HonestInv
      <4>2. QED
        BY <1>1, <2>1, <2>4, <3>1, <3>2, <4>1 DEF AskContains, Outcomes
    <3>3. CASE ~Contains(want[p])
      BY <2>1, <2>4, <3>1, <3>3, GotoAnswersNothing DEF AskContains, Steps, HonestInv
    <3>4. QED
      BY <3>2, <3>3
  <2>5. CASE CreateFails(p) \/ FillFails(p) \/ RenameFails(p)
    <3>1. UNCHANGED held
      BY <2>5 DEF CreateFails, FillFails, RenameFails, held, Verify, Contains
    <3>2. \E how \in {"creating", "writing", "renaming"} : Finish(p, how)
      BY <2>5 DEF CreateFails, FillFails, RenameFails
    <3>3. QED
      BY <1>1, <2>1, <3>1, <3>2 DEF Outcomes
  <2>6. CASE SettleMatch(p)
    <3>1. want[p] \in held /\ UNCHANGED held
      BY <2>1, <2>6 DEF SettleMatch, held, Verify, Contains, HonestInv
    <3>2. QED
      BY <1>1, <2>1, <2>6, <3>1 DEF SettleMatch, Outcomes
  <2>7. CASE SettleMismatch(p) \/ SettleRemoveFails(p)
    BY <2>1, <2>7 DEF SettleMismatch, SettleRemoveFails, HonestInv
  <2>8. QED
    BY <1>4, <2>2, <2>3, <2>4, <2>5, <2>6, <2>7 DEF Work, Proceed, Refused
<1>5. ASSUME NEW p \in Process, Return(p) \/ Crash(p)
      PROVE  [Promise!ContentNext]_(Promise!contentVars)
  <2>1. UNCHANGED held /\ Forget(p)
    BY <1>5 DEF Return, Crash, held, Verify, Contains
  <2>2. Promise!Taken(p)
    BY <2>1, ForgetTakesAnswer DEF Promise!Taken, HonestInv
  <2>3. QED
    BY <2>2
<1>6. QED
  BY <1>2, <1>3, <1>4, <1>5 DEF StoreNext

\* With streams that deliver what their digest promises the store keeps the
\* promise of ContentStore, whatever dies and whatever the filesystem refuses:
\* names are only added, and every reported success is of bytes that are there.
THEOREM HonestStoreKeepsPromise == Honest => (StoreSpec => KeepsPromise)
<1> SUFFICES ASSUME Honest
             PROVE  StoreSpec => KeepsPromise
  OBVIOUS
<1>1. HonestInv /\ [StoreNext]_storeVars => HonestInv'
  BY HonestStep
<1>2. HonestInv /\ [StoreNext]_storeVars => [Promise!ContentNext]_(Promise!contentVars)
  BY RefinesStep
<1>3. QED
  BY <1>1, <1>2, HonestInit, RefinesInit, PTL DEF StoreSpec, KeepsPromise, Promise!ContentSpec

-----------------------------------------------------------------------------
(* A store that streams alone are used on, as the commands use it.          *)

StreamsOnly ==
  \A p \in Process : pc[p] # "idle" => op[p] = "stream" /\ bytes[p] \in Offered(want[p])

\* An object at a name whose stream delivers what the name promises is put
\* there by streams alone, and by none of them removed.
LEMMA HonestNameStays ==
  ASSUME StoreInv, StreamsOnly, [StoreNext]_storeVars, NEW d \in Digest,
         \A c \in Offered(d) : DigestOf(c) = d, Contains(d) => Verify(d) = "ok"
  PROVE  (Contains(d) => object'[d] # Absent) /\ (object'[d] # Absent => DigestOf(object'[d]) = d)
<1>1. CASE object' = object
  BY <1>1 DEF Contains, Verify
<1>2. CASE object' # object
  <2>1. PICK q \in Process : RenameIntoPlace(q) \/ SettleMismatch(q)
    BY <1>2, WhoTouchesObjects
  <2>2. StoreTypeOK /\ OwnsTemporary
    BY DEF StoreInv
  <2>3. want[q] = d => DigestOf(bytes[q]) = d
    BY <2>1 DEF StreamsOnly, RenameIntoPlace, SettleMismatch
  <2>4. CASE RenameIntoPlace(q)
    <3>1. object' = [object EXCEPT ![want[q]] = bytes[q]] /\ bytes[q] \in Content
      BY <2>2, <2>4 DEF RenameIntoPlace, OwnsTemporary, StoreTypeOK
    <3> QED
      BY <2>2, <2>3, <3>1, MarkerAssumption DEF Contains, Verify, StoreTypeOK
  <2>5. CASE SettleMismatch(q)
    <3>1. want[q] # d
      BY <2>3, <2>5 DEF SettleMismatch
    <3> QED
      BY <2>2, <2>5, <3>1 DEF SettleMismatch, Contains, Verify, StoreTypeOK
  <2> QED
    BY <2>1, <2>4, <2>5
<1> QED
  BY <1>1, <1>2

\* A stream in flight stays the stream it was begun as, alone in its step, and
\* comes to "settle" or to a success with an object at its name.
LEMMA StreamGoesOn ==
  ASSUME StoreInv, NEW p \in Process, op[p] = "stream", Work(p)
  PROVE  /\ pc[p] # "idle" /\ pc'[p] # "idle" /\ op' = op /\ want' = want /\ bytes' = bytes
         /\ \A q \in Process : q # p => pc'[q] = pc[q] /\ outcome'[q] = outcome[q]
         /\ pc'[p] = "settle" \/ (pc'[p] = "returned" /\ outcome'[p] \in {"stored", "deduplicated"})
              => Contains(want[p]) \/ object'[want[p]] # Absent \/ pc[p] = "settle"
<1>1. StoreTypeOK /\ OwnsTemporary
  BY DEF StoreInv
<1> USE DEF StoreTypeOK, Goto, Finish
<1>2. CASE AskContains(p)
  BY <1>1, <1>2 DEF AskContains
<1>3. CASE CreateTemporary(p)
  BY <1>1, <1>3 DEF CreateTemporary
<1>4. CASE FillTemporary(p)
  BY <1>1, <1>4 DEF FillTemporary
<1>5. CASE RenameIntoPlace(p)
  BY <1>1, <1>5, MarkerAssumption DEF RenameIntoPlace, OwnsTemporary, Contains
<1>6. CASE SettleMatch(p)
  BY <1>1, <1>6 DEF SettleMatch
<1>7. CASE SettleMismatch(p)
  BY <1>1, <1>7 DEF SettleMismatch
<1>8. CASE CreateFails(p) \/ FillFails(p) \/ RenameFails(p) \/ SettleRemoveFails(p)
  BY <1>1, <1>8 DEF CreateFails, FillFails, RenameFails, SettleRemoveFails
<1> QED
  BY <1>2, <1>3, <1>4, <1>5, <1>6, <1>7, <1>8 DEF Work, Proceed, Refused

=============================================================================
