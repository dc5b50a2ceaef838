--------------------------- MODULE CorpusGenerate ---------------------------
(***************************************************************************)
(* `iris-bench corpus <name> --generator <path>`: generate::corpus of      *)
(* crates/bench-corpus/src/generate.rs and then shape::check, run by       *)
(* several processes over one store and, when they are started in one      *)
(* directory, one scratch directory.  The generator is another program and *)
(* is modelled by what it writes and how it exits.  It is started with     *)
(* Command::status, which does not end it with the process that waits for  *)
(* it, so a generator may outlive its command and go on writing.           *)
(***************************************************************************)
EXTENDS CorpusEntry

CONSTANTS
  Scratch,       \* scratch directories
  ScratchOf(_),  \* ScratchOf(p): the one process p was given
  Omits(_),      \* Omits(p): the files p's generator may exit without writing
  OsOf(_),       \* OsOf(p): the operating system p runs on, std::env::consts::OS
  Versions       \* what a program asked for its version may say: "same", "other", "none"

ASSUME ScratchAssumption == \A p \in Process : ScratchOf(p) \in Scratch
\* The command turns to generate::corpus for a generated corpus only.
ASSUME GeneratedAssumption ==
  \A p \in Process :
    read(ManifestOf(p), NameOf(p)) => ManifestOf(p).category = "generate"
\* Offered(d) is whatever may be found where the file d is expected: what a
\* generator writes at that path, whichever corpus it writes it for, and the
\* half of it that is there while one is still at it.
ASSUME SamePlaceAssumption ==
  \A p, q \in Process : ScratchOf(p) = ScratchOf(q) =>
    \A e \in Entries(ManifestOf(p)), f \in Entries(ManifestOf(q)) :
      e.path = f.path => Offered(f.blake3) \subseteq Offered(e.blake3)
ASSUME VersionsAssumption == Versions \subseteq {"same", "other", "none"}

\* The paths the manifests name.
Paths == UNION {{e.path : e \in Entries(ManifestOf(p))} : p \in Process}

VARIABLES
  stage,      \* stage[p]: where the command is
  next,       \* next[p]: the entry it, or its generator, is at
  scratch,    \* scratch[s][path]: the file in the directory s at a path
  outliving,  \* outliving[p]: the entries a generator of a dead run of p may yet write
  wrote,      \* wrote[p]: the paths p's generator has written since p emptied the directory
  strayed,    \* strayed[p]: those an outliving generator has written there meanwhile, and last
  openError,  \* openError[p]: the error of File::open that the command does not report
  reason      \* reason[p]: why the command failed, when it has

generateVars ==
  <<storeVars, trouble, measured, stage, next, scratch, outliving, wrote, strayed, openError, reason>>

\* The directories, and who wrote what there.
scratchVars == <<scratch, outliving, wrote, strayed>>

Stages ==
  {"start", "ask", "version", "prepare", "running", "taking", "storing", "shape", "done", "failed"}
Reasons ==
  {"none", "manifest", "platform", "version", "missing", "scratch", "exit", "absent", "size", "digest",
   "store", "shape"}

\* A command is at an entry of its manifest, or past the last, and a scratch
\* directory holds whole files, over a well typed store.
GenerateTypeOK ==
  /\ StoreTypeOK
  /\ trouble \in 0..MaxTrouble
  /\ measured \in [Process -> [rows : Nat, columns : SUBSET Nat]]
  /\ stage \in [Process -> Stages]
  /\ \A p \in Process : next[p] \in 1..(Len(Files(p)) + 1)
  /\ scratch \in [Scratch -> [Paths -> Content \cup {Absent}]]
  /\ \A p \in Process : outliving[p] \subseteq Entries(ManifestOf(p))
  /\ wrote \in [Process -> SUBSET Paths]
  /\ strayed \in [Process -> SUBSET Paths]
  /\ openError \in [Process -> {"none", "missing", "refused"}]
  /\ reason \in [Process -> Reasons]

Empty == [path \in Paths |-> Absent]

GenerateInit ==
  /\ StoreInit
  /\ trouble = 0
  /\ measured = [p \in Process |-> Unmeasured]
  /\ stage = [p \in Process |-> "start"]
  /\ next = [p \in Process |-> 1]
  /\ scratch = [s \in Scratch |-> Empty]
  /\ outliving = [p \in Process |-> {}]
  /\ wrote = [p \in Process |-> {}]
  /\ strayed = [p \in Process |-> {}]
  /\ openError = [p \in Process |-> "none"]
  /\ reason = [p \in Process |-> "none"]

Entry(p) == Files(p)[next[p]]
Last(p) == next[p] > Len(Files(p))
Here(p) == scratch[ScratchOf(p)]

To(p, s) == stage' = [stage EXCEPT ![p] = s]
Advance(p) == next' = [next EXCEPT ![p] = @ + 1]
From1(p) == next' = [next EXCEPT ![p] = 1]

\* What was written in p's directory before no longer counts.
Emptying(p) ==
  /\ wrote' = [wrote EXCEPT ![p] = {}]
  /\ strayed' = [strayed EXCEPT ![p] = {}]

Fail(p, why) ==
  /\ To(p, "failed")
  /\ reason' = [reason EXCEPT ![p] = why]

\* The manifest is read and validated, and generate::corpus starts.
Start(p) ==
  /\ stage[p] = "start"
  /\ IF read(ManifestOf(p), NameOf(p))
       THEN To(p, "ask") /\ UNCHANGED reason
       ELSE Fail(p, "manifest")
  /\ From1(p)
  /\ UNCHANGED <<storeVars, trouble, measured, scratchVars, openError>>

\* This platform is one the manifest names.
Supported(p) ==
  \E g \in ManifestOf(p).generator : \E platform \in g.platforms : platform.os = OsOf(p)

\* generate::corpus returns Ok, and the command turns to shape::check.
Generated(p) ==
  /\ To(p, "shape")
  /\ From1(p)
  /\ Unmeasure(p)

\* A slip in AskStored: one stored file is taken for a stored corpus.
AskStored_Any(p) ==
  /\ stage[p] = "ask"
  /\ IF Last(p) \/ Contains(Entry(p).blake3) THEN Generated(p) /\ UNCHANGED reason
     ELSE /\ UNCHANGED <<next, measured>>
          /\ IF Supported(p)
               THEN To(p, "version") /\ UNCHANGED reason
               ELSE Fail(p, "platform")
  /\ UNCHANGED <<storeVars, trouble, scratchVars, openError>>

\* corpus: is every file in the store?  Asked of each in turn.
AskStored(p) ==
  /\ stage[p] = "ask"
  /\ IF Last(p) THEN Generated(p) /\ UNCHANGED reason
     ELSE IF Contains(Entry(p).blake3) THEN Advance(p) /\ UNCHANGED <<stage, measured, reason>>
     ELSE /\ UNCHANGED <<next, measured>>
          /\ IF Supported(p)
               THEN To(p, "version") /\ UNCHANGED reason
               ELSE Fail(p, "platform")
  /\ UNCHANGED <<storeVars, trouble, scratchVars, openError>>

\* check_version: the program is started and asked what it is.
CheckVersion(p) ==
  /\ stage[p] = "version"
  /\ \E said \in Versions :
       CASE said = "same" -> To(p, "prepare") /\ UNCHANGED <<reason, trouble>>
         [] said = "other" -> Fail(p, "version") /\ Trouble
         [] said = "none" -> Fail(p, "missing") /\ Trouble
  /\ UNCHANGED <<storeVars, measured, next, scratchVars, openError>>

\* A slip in Prepare: what a previous run left is kept.
Prepare_KeepsScratch(p) ==
  /\ stage[p] = "prepare"
  /\ Emptying(p)
  /\ To(p, "running")
  /\ From1(p)
  /\ UNCHANGED <<storeVars, trouble, measured, scratch, outliving, openError, reason>>

\* prepare: the scratch directory is emptied, whoever's files are in it.
Prepare(p) ==
  /\ stage[p] = "prepare"
  /\ scratch' = [scratch EXCEPT ![ScratchOf(p)] = Empty]
  /\ Emptying(p)
  /\ To(p, "running")
  /\ From1(p)
  /\ UNCHANGED <<storeVars, trouble, measured, outliving, openError, reason>>

\* prepare: clearing the directory fails with some of the files gone.
PrepareFails(p) ==
  /\ stage[p] = "prepare"
  /\ Trouble
  /\ \E gone \in SUBSET Paths :
       scratch' = [scratch EXCEPT ![ScratchOf(p)] =
                     [path \in Paths |-> IF path \in gone THEN Absent ELSE @[path]]]
  /\ Emptying(p)
  /\ Fail(p, "scratch")
  /\ UNCHANGED <<storeVars, measured, next, outliving, openError>>

\* run: the generator writes one file after another, or does not write one.
GeneratorWrites(p) ==
  /\ stage[p] = "running" /\ ~Last(p)
  /\ \/ \E c \in Offered(Entry(p).blake3) :
          /\ scratch' = [scratch EXCEPT ![ScratchOf(p)][Entry(p).path] = c]
          /\ wrote' = [wrote EXCEPT ![p] = @ \cup {Entry(p).path}]
          /\ strayed' = [strayed EXCEPT ![p] = @ \ {Entry(p).path}]
     \/ next[p] \in Omits(p) /\ UNCHANGED <<scratch, wrote, strayed>>
  /\ Advance(p)
  /\ UNCHANGED <<storeVars, trouble, measured, stage, outliving, openError, reason>>

\* A generator whose process died writes one of the files it had still to write.
OutlivingWrites(p) ==
  \E e \in outliving[p] : \E c \in Offered(e.blake3) :
    /\ scratch' = [scratch EXCEPT ![ScratchOf(p)][e.path] = c]
    /\ outliving' = [outliving EXCEPT ![p] = @ \ {e}]
    /\ strayed' = [q \in Process |->
         IF ScratchOf(q) = ScratchOf(p) /\ stage[q] \in {"running", "taking", "storing"}
           THEN strayed[q] \cup {e.path}
           ELSE strayed[q]]
    /\ UNCHANGED <<storeVars, trouble, measured, stage, next, wrote, openError, reason>>

\* A slip in GeneratorExits: the scratch directory is emptied before it is read.
GeneratorExits_Cleared(p) ==
  /\ stage[p] = "running" /\ Last(p)
  /\ To(p, "taking")
  /\ From1(p)
  /\ scratch' = [scratch EXCEPT ![ScratchOf(p)] = Empty]
  /\ UNCHANGED <<storeVars, trouble, measured, outliving, wrote, strayed, openError, reason>>

\* run: the generator exits, and every file is to be taken in.
GeneratorExits(p) ==
  /\ stage[p] = "running" /\ Last(p)
  /\ To(p, "taking")
  /\ From1(p)
  /\ UNCHANGED <<storeVars, trouble, measured, scratchVars, openError, reason>>

\* run: the generator does not exit well, or could not be started at all.
GeneratorFails(p) ==
  /\ stage[p] = "running"
  /\ Trouble
  /\ \/ Fail(p, "exit")
     \/ next[p] = 1 /\ Fail(p, "missing")
  /\ UNCHANGED <<storeVars, measured, next, scratchVars, openError>>

\* one: the written file is opened and handed to insert_stream, which is not
\* asked beforehand whether the store has it.
TakeFile(p) ==
  /\ stage[p] = "taking" /\ ~Last(p)
  /\ LET written == Here(p)[Entry(p).path] IN
     IF written = Absent
       THEN /\ Fail(p, "absent")
            /\ openError' = [openError EXCEPT ![p] = "missing"]
            /\ UNCHANGED storeVars
       ELSE /\ InsertStream(p, written, Entry(p).blake3)
            /\ To(p, "storing")
            /\ UNCHANGED <<reason, openError>>
  /\ UNCHANGED <<trouble, measured, next, scratchVars>>

\* one: the written file is there and is not opened, for its permissions or for
\* want of a file descriptor.  Whatever open said, the command says "absent".
OpenRefused(p) ==
  /\ stage[p] = "taking" /\ ~Last(p)
  /\ Here(p)[Entry(p).path] # Absent
  /\ Trouble
  /\ Fail(p, "absent")
  /\ openError' = [openError EXCEPT ![p] = "refused"]
  /\ UNCHANGED <<storeVars, measured, next, scratchVars>>

Storing(p) ==
  /\ stage[p] = "storing"
  /\ StoreStep(p)
  /\ UNCHANGED <<measured, stage, next, scratchVars, openError, reason>>

\* one: insert_stream is back, and what came back is judged.
Stored(p) ==
  /\ stage[p] = "storing"
  /\ Return(p)
  /\ \E seen \in SeenBy(p) :
       LET verdict == Judge(p, Entry(p), seen) IN
       IF verdict = "ok"
         THEN Advance(p) /\ To(p, "taking") /\ UNCHANGED reason
         ELSE Fail(p, verdict) /\ UNCHANGED next
  /\ UNCHANGED <<trouble, measured, scratchVars, openError>>

\* Every file has been taken in.
AllTaken(p) ==
  /\ stage[p] = "taking" /\ Last(p)
  /\ Generated(p)
  /\ UNCHANGED <<storeVars, trouble, scratchVars, openError, reason>>

\* of_corpus: the corpus is measured file by file.
CheckShape(p) ==
  /\ stage[p] = "shape" /\ ~Last(p)
  /\ LET verdict == JudgeFooter(p, Entry(p)) IN
     IF verdict = "ok"
       THEN /\ Advance(p)
            /\ measured' = [measured EXCEPT ![p] = AfterFooter(p, Entry(p))]
            /\ UNCHANGED <<stage, reason>>
       ELSE /\ Fail(p, IF verdict = "missing" THEN "store" ELSE verdict)
            /\ UNCHANGED <<next, measured>>
  /\ UNCHANGED <<storeVars, trouble, scratchVars, openError>>

\* of_file: a file that is there cannot be opened.
OpenFails(p) ==
  /\ stage[p] = "shape" /\ ~Last(p)
  /\ Entry(p).path.parquet
  /\ Trouble
  /\ Fail(p, "shape")
  /\ UNCHANGED <<storeVars, measured, next, scratchVars, openError>>

\* check: what was measured is what the manifest asserts, and the command ends.
Done(p) ==
  /\ stage[p] = "shape" /\ Last(p)
  /\ IF AsAsserted(p)
       THEN To(p, "done") /\ UNCHANGED reason
       ELSE Fail(p, "shape")
  /\ Unmeasure(p)
  /\ UNCHANGED <<storeVars, trouble, next, scratchVars, openError>>

\* Somebody runs the command that failed again.
Rerun(p) ==
  /\ stage[p] = "failed"
  /\ To(p, "start")
  /\ From1(p)
  /\ reason' = [reason EXCEPT ![p] = "none"]
  /\ openError' = [openError EXCEPT ![p] = "none"]
  /\ Unmeasure(p)
  /\ Emptying(p)
  /\ UNCHANGED <<storeVars, trouble, scratch, outliving>>

\* The entries a generator at work has not written.
Unwritten(p) ==
  IF stage[p] = "running" THEN {Files(p)[i] : i \in next[p]..Len(Files(p))} ELSE {}

\* The process dies wherever it is.  Its generator dies with it, as after
\* Ctrl-C, or is not told.
Die(p) ==
  /\ stage[p] \notin {"start", "done", "failed"}
  /\ "crash" \in Faults
  /\ Trouble
  /\ IF pc[p] = "idle" THEN UNCHANGED storeVars ELSE Crash(p)
  /\ To(p, "start")
  /\ From1(p)
  /\ \E left \in {{}, Unwritten(p)} : outliving' = [outliving EXCEPT ![p] = @ \cup left]
  /\ Unmeasure(p)
  /\ Emptying(p)
  /\ UNCHANGED <<scratch, openError, reason>>

Run(p) ==
  \/ Start(p) \/ AskStored(p)
  \/ CheckVersion(p) \/ Prepare(p)
  \/ GeneratorWrites(p) \/ GeneratorExits(p)
  \/ TakeFile(p) \/ Storing(p) \/ Stored(p) \/ AllTaken(p)
  \/ CheckShape(p) \/ Done(p)

\* What goes wrong around a command.
Fails(p) ==
  \/ PrepareFails(p) \/ GeneratorFails(p) \/ OpenRefused(p) \/ OpenFails(p) \/ Die(p)

GenerateNext == \E p \in Process : Run(p) \/ Fails(p) \/ Rerun(p) \/ OutlivingWrites(p)

GenerateSpec == GenerateInit /\ [][GenerateNext]_generateVars

\* As for a fetch: nothing in the code waits, the generator ends, and failed
\* commands are run again.
GenerateFairSpec ==
  GenerateSpec /\ \A p \in Process : WF_generateVars(Run(p)) /\ WF_generateVars(Rerun(p))

-----------------------------------------------------------------------------

\* A command that says it produced, or had, the corpus is right about every
\* file whose pinned bytes are the ones generators write, with other commands
\* at work in the same store, through deaths and failures.
DoneMeansHeld ==
  \A p \in Process : stage[p] = "done" =>
    \A i \in 1..Len(Files(p)) : HonestName(Files(p)[i].blake3) => Held(p, i)

\* The files a command takes, or is about to take, into the store.
Taking(p) ==
  IF stage[p] \in {"taking", "storing"}
    THEN {e.path : e \in {f \in Entries(ManifestOf(p)) : Here(p)[f.path] # Absent}}
    ELSE {}

\* No other command that gets past its platform is given p's directory.
Alone(p) == \A q \in Process \ {p} : ScratchOf(q) = ScratchOf(p) => ~Supported(q)

\* prepare: a file of a previous run "has every chance of matching its digest":
\* in a scratch directory of its own, every file a command takes was written
\* since the command emptied it, by its generator or by one that outlived the
\* process that started it.
TakesNothingOld ==
  \A p \in Process : Alone(p) => Taking(p) \subseteq wrote[p] \cup strayed[p]

\* GenerateError::Absent: "The program succeeded and did not write a file
\* the manifest names": so it is whenever the file was not there to be opened.
AbsentMeansUnwritten ==
  \A p \in Process :
    stage[p] = "failed" /\ reason[p] = "absent" /\ openError[p] = "missing"
      => Entry(p).path \notin wrote[p]

-----------------------------------------------------------------------------
(* What the source says of itself and TLC refutes.                          *)

\* "Two corpora that share a file store it once": with a generator that
\* writes what is pinned and a failed command that is run again, the corpus
\* is in the store in the end.
EventuallyDone == \A p \in Process : <>(stage[p] = "done")

\* prepare: a file of a previous run is "the one way this could report a corpus
\* it did not produce", and it empties the directory.
TakesOnlyItsOwn == \A p \in Process : Alone(p) => Taking(p) \subseteq wrote[p] \ strayed[p]

\* GenerateError::Absent, of whatever kept the file from being opened.
AbsentIsAboutTheProgram ==
  \A p \in Process :
    stage[p] = "failed" /\ reason[p] = "absent" => Entry(p).path \notin wrote[p]

=============================================================================
