--------------------------- MODULE ClickbenchRun ---------------------------
(***************************************************************************)
(* `iris-bench clickbench run`: gates, one session, the schedule, the      *)
(* three-run protocol and the record, from run of                          *)
(* crates/bench-cli/src/clickbench.rs, measure of                          *)
(* crates/bench-workload/src/protocol.rs and run of                        *)
(* crates/bench-run/src/schedule.rs.  Runners are processes on one machine *)
(* and share its page cache, scratch directories and record files.  How    *)
(* long a run took is abstracted to where it read from.                    *)
(***************************************************************************)
EXTENDS DriverSession, Sequences

CONSTANTS
  Workload,       \* the queries in file order
  Shuffle(_),     \* Shuffle(r): the order rand draws from r's seed and pass
  InOrder(_),     \* InOrder(r): --in-order
  Cold(_),        \* Cold(r): --cold
  Anyway(_),      \* Anyway(r): --anyway
  OutOf(_),       \* OutOf(r): the path of --out
  Path,           \* paths records are written to
  Absent,         \* no file at a path
  Partial,        \* a file whose writing has begun and not ended
  Answers(_),     \* Answers(q): what answers to q hash to
  Pools(_),       \* Pools(r): whose bytes r's system may have in a buffer pool of its own
  OneAtATime,     \* whether whoever starts the commands waits for one to end
  MaxTrouble      \* bound: failures outside the driver, deaths, reclaims and later commands

ASSUME OutOfAssumption == \A r \in Runner : OutOf(r) \in Path
\* rand swaps the positions it was given, so that each of them is drawn once.
ASSUME ShuffleAssumption ==
  \A r \in Runner :
    /\ Shuffle(r) \in [1..Len(Workload) -> 1..Len(Workload)]
    /\ \A i \in 1..Len(Workload) : \E k \in 1..Len(Workload) : Shuffle(r)[k] = i
ASSUME WorkloadAssumption ==
  /\ Workload \in Seq(Query)
  /\ \A q \in Query : \E i \in 1..Len(Workload) : Workload[i] = q
\* hits, which every query of ClickBench is over.
ASSUME TableAssumption == \E t \in Table : Table = {t}
ASSUME ColdAssumption == \A r \in Runner : Cold(r) \in BOOLEAN /\ Anyway(r) \in BOOLEAN /\ Pools(r) \subseteq Query

VARIABLES
  stage,     \* stage[r]: where the command is
  refused,   \* refused[r]: Conditions::refused
  report,    \* report[r]: the queries measured so far
  cold,      \* cold[r]: what evict said before the query being run
  runs,      \* runs[r]: the runs of that query so far
  once,      \* once[r]: the queries of which some run was answered
  held,      \* the queries whose bytes the machine's page cache holds
  lost,      \* those whose bytes it took back since they were last read
  file,      \* file[f]: what is at the path f
  trouble    \* failures, deaths, reclaims and restarts so far

commandVars == <<stage, refused, report, cold, runs, once>>
cacheVars == <<held, lost>>
runVars == <<sessionVars, commandVars, cacheVars, file, trouble>>

RUNS == 3
Stages == {"start", "setup", "loading", "evict", "query", "writing", "stopping", "done", "failed"}

Sources == {"disk", "lost", "cache", "pool"}
Run == UNION {[digest : Answers(q), from : Sources] : q \in Query}
Outcomes == {"answered", "unsupported", "failed"}
Measured(row) ==
  /\ row.id \in Query
  /\ row.cache \in {"dropped", "kept"}
  /\ row.outcome \in Outcomes
  /\ row.runs \in Seq(Run)

\* A report is made of rows of the workload with fewer than RUNS runs of the
\* query being measured still outside it, over a well typed session.
RunTypeOK ==
  /\ SessionTypeOK
  /\ stage \in [Runner -> Stages]
  /\ refused \in [Runner -> BOOLEAN]
  /\ \A r \in Runner :
       /\ \A i \in 1..Len(report[r]) : Measured(report[r][i])
       /\ cold[r] \in {"dropped", "kept"}
       /\ runs[r] \in Seq(Run) /\ Len(runs[r]) < RUNS
  /\ once \in [Runner -> SUBSET Query]
  /\ held \in SUBSET Query /\ lost \in SUBSET (Query \ held)
  /\ DOMAIN file = Path
  /\ trouble \in 0..MaxTrouble

RunInit ==
  /\ SessionInit
  /\ stage = [r \in Runner |-> "start"]
  /\ refused = [r \in Runner |-> FALSE]
  /\ report = [r \in Runner |-> <<>>]
  /\ cold = [r \in Runner |-> "kept"]
  /\ runs = [r \in Runner |-> <<>>]
  /\ once = [r \in Runner |-> {}]
  /\ held = {} /\ lost = {}
  /\ file = [f \in Path |-> Absent]
  /\ trouble = 0

To(r, s) == stage' = [stage EXCEPT ![r] = s]
Trouble == trouble < MaxTrouble /\ trouble' = trouble + 1
Untouched == UNCHANGED <<cacheVars, file, trouble>>
Idle(r) == stage[r] \in {"start", "done", "failed"}

\* Schedule::new, or Schedule::identity, and Schedule::apply.
Schedule(r) == IF InOrder(r) THEN [i \in 1..Len(Workload) |-> i] ELSE Shuffle(r)
Apply(r) == [i \in 1..Len(Workload) |-> Workload[Schedule(r)[i]]]
Current(r) == Apply(r)[Len(report[r]) + 1]

\* The process is over: nothing of it is left but what it wrote.
Exit(r, s) ==
  /\ Ends(r)
  /\ To(r, s)
  /\ refused' = [refused EXCEPT ![r] = FALSE]
  /\ report' = [report EXCEPT ![r] = <<>>]
  /\ cold' = [cold EXCEPT ![r] = "kept"]
  /\ runs' = [runs EXCEPT ![r] = <<>>]
  /\ once' = [once EXCEPT ![r] = {}]

\* A command at work is a busy process to the gates of any other.
AtWork(r) == stage[r] \in {"loading", "evict", "query", "writing"}

\* Capture::require(Permit::Durations), asked once, before anything is run.
Gates(r) ==
  /\ stage[r] = "start"
  /\ OneAtATime => \A o \in Runner \ {r} : Idle(o)
  /\ \E fit \in {FALSE} \cup {\A o \in Runner \ {r} : ~AtWork(o)} :
       IF fit \/ Anyway(r)
         THEN /\ To(r, "setup")
              /\ refused' = [refused EXCEPT ![r] = ~fit]
              /\ UNCHANGED <<sessionVars, report, cold, runs, once>>
         ELSE Exit(r, "failed")
  /\ Untouched

\* The corpus, the query set or the scratch directory is not there.
SetupFails(r) ==
  /\ stage[r] = "setup"
  /\ Trouble
  /\ Exit(r, "failed")
  /\ UNCHANGED <<cacheVars, file>>

RunPrepare(r) ==
  /\ stage[r] = "setup"
  /\ Prepare(r)
  /\ To(r, IF said'[r] = "ok" THEN "loading" ELSE "stopping")
  /\ UNCHANGED <<refused, report, cold, runs, once>> /\ Untouched

\* The one table; a load reads the corpus through the page cache.
RunLoad(r) ==
  /\ stage[r] = "loading"
  /\ \E t \in Table : LoadTable(r, t)
  /\ To(r, IF said'[r] = "ok" THEN "evict" ELSE "stopping")
  /\ held' = Query /\ lost' = {}
  /\ UNCHANGED <<refused, report, cold, runs, once, file, trouble>>

\* The `?` behind prepare and load: the error is printed and the process ends.
Stop(r) ==
  /\ stage[r] = "stopping"
  /\ Exit(r, "failed")
  /\ Untouched

\* What the kernel does when it is told to, and what it may do on its own to
\* any bytes it holds whenever memory is short.
Drop == held' = {} /\ lost' = {}
Reclaim ==
  /\ Trouble
  /\ \E q \in held : held' = held \ {q} /\ lost' = lost \cup {q}
  /\ UNCHANGED <<sessionVars, commandVars, file>>

\* A slip in Evict: what was asked of the page cache is recorded and not what was done.
Evict_AsAsked(r) ==
  /\ stage[r] = "evict" /\ Len(report[r]) < Len(Workload)
  /\ \E dropped \in {FALSE, Cold(r)} : IF dropped THEN Drop ELSE UNCHANGED cacheVars
  /\ cold' = [cold EXCEPT ![r] = IF Cold(r) THEN "dropped" ELSE "kept"]
  /\ To(r, "query")
  /\ UNCHANGED <<sessionVars, refused, report, runs, once, file, trouble>>

\* measure: the page cache is asked to be dropped before a query's runs, and
\* says whether it was.  DropCaches needs root; Warm never drops.
Evict(r) ==
  /\ stage[r] = "evict" /\ Len(report[r]) < Len(Workload)
  /\ \E dropped \in {FALSE, Cold(r)} :
       /\ IF dropped THEN Drop ELSE UNCHANGED cacheVars
       /\ cold' = [cold EXCEPT ![r] = IF dropped THEN "dropped" ELSE "kept"]
  /\ To(r, "query")
  /\ UNCHANGED <<sessionVars, refused, report, runs, once, file, trouble>>

\* measure: a query's row is pushed and the next query is due.
Push(r, outcome, kept) ==
  /\ report' = [report EXCEPT ![r] = Append(@,
       [id |-> Current(r), cache |-> cold[r], outcome |-> outcome, runs |-> kept])]
  /\ runs' = [runs EXCEPT ![r] = <<>>]
  /\ To(r, "evict")

\* Where a run finds its bytes: in the page cache if it holds them, off the
\* disk if not, and a system with a buffer pool may have them in that.
FoundIn(r) ==
  {IF Current(r) \in held THEN "cache" ELSE IF Current(r) \in lost THEN "lost" ELSE "disk"}
  \cup {from \in {"pool"} : Current(r) \in Pools(r)}

\* measure: one of the runs of a query is answered.
RunAnswers(r) ==
  /\ said'[r] = "ok"
  /\ once' = [once EXCEPT ![r] = @ \cup {Current(r)}]
  /\ \E d \in Answers(Current(r)), from \in FoundIn(r) :
       LET taken == Append(runs[r], [digest |-> d, from |-> from]) IN
       IF Len(taken) = RUNS
         THEN Push(r, "answered", taken)
         ELSE runs' = [runs EXCEPT ![r] = taken] /\ UNCHANGED <<report, stage>>

\* A slip in RunGoesWrong: the first error ends the workload.
RunGoesWrong_Stops(r) ==
  /\ said'[r] # "ok"
  /\ To(r, "stopping")
  /\ UNCHANGED <<report, runs, once>>

\* measure: the first run to go wrong decides the outcome, and the runs
\* before it are dropped.
RunGoesWrong(r) ==
  /\ said'[r] # "ok"
  /\ Push(r, IF said'[r] = "Unsupported" THEN "unsupported" ELSE "failed", <<>>)
  /\ UNCHANGED once

RunQuery(r) ==
  /\ stage[r] = "query"
  /\ AskQuery(r, Current(r))
  /\ RunAnswers(r) \/ RunGoesWrong(r)
  /\ held' = held \cup {Current(r)} /\ lost' = lost \ {Current(r)}
  /\ UNCHANGED <<refused, cold, file, trouble>>

\* fs::write of the record: the file is truncated, then filled.
StartRecord(r) ==
  /\ stage[r] = "evict" /\ Len(report[r]) = Len(Workload)
  /\ file' = [file EXCEPT ![OutOf(r)] = Partial]
  /\ To(r, "writing")
  /\ UNCHANGED <<sessionVars, refused, report, cold, runs, once, cacheVars, trouble>>

\* A query as it is written down; where its runs found their bytes nobody knows.
Written(row) ==
  [id |-> row.id, cache |-> row.cache, outcome |-> row.outcome,
   digests |-> [k \in DOMAIN row.runs |-> row.runs[k].digest]]
Queries(r) == [i \in DOMAIN report[r] |-> Written(report[r][i])]

\* A slip in Record: the record says the order of the file and not the one that was run.
Record_OrderAsked(r) ==
  [refused |-> refused[r], order |-> [i \in 1..Len(Workload) |-> i], queries |-> Queries(r)]

Record(r) == [refused |-> refused[r], order |-> Schedule(r), queries |-> Queries(r)]

FinishRecord(r) ==
  /\ stage[r] = "writing"
  /\ file' = [file EXCEPT ![OutOf(r)] = Record(r)]
  /\ Exit(r, "done")
  /\ UNCHANGED <<cacheVars, trouble>>

RecordFails(r) ==
  /\ stage[r] = "writing"
  /\ Trouble
  /\ Exit(r, "failed")
  /\ UNCHANGED <<cacheVars, file>>

\* The process is killed wherever it is.
Die(r) ==
  /\ ~Idle(r)
  /\ Trouble
  /\ Exit(r, "failed")
  /\ UNCHANGED <<cacheVars, file>>

\* Somebody gives the command again.
Again(r) ==
  /\ stage[r] \in {"done", "failed"}
  /\ Trouble
  /\ To(r, "start")
  /\ UNCHANGED <<sessionVars, refused, report, cold, runs, once, cacheVars, file>>

Command(r) ==
  \/ Gates(r) \/ RunPrepare(r) \/ RunLoad(r) \/ Stop(r)
  \/ Evict(r) \/ RunQuery(r)
  \/ StartRecord(r) \/ FinishRecord(r)

RunNext ==
  \/ \E r \in Runner : Command(r) \/ SetupFails(r) \/ RecordFails(r) \/ Die(r) \/ Again(r)
  \/ Reclaim

RunSpec == RunInit /\ [][RunNext]_runVars

\* A command runs on unless it is stopped: nothing in it waits for anyone.
RunFairSpec == RunSpec /\ \A r \in Runner : WF_runVars(Command(r))

-----------------------------------------------------------------------------

Answered(row) == row.outcome = "answered"
Complete(record) ==
  /\ Len(record.queries) = Len(Workload)
  /\ \A q \in Query : \E i \in 1..Len(Workload) : record.queries[i].id = q
  /\ \A i \in 1..Len(Workload) : record.queries[i].id = Workload[record.order[i]]

\* Schedule::apply: "a missing query is exactly the kind of thing a geomean
\* hides": a record that can be read back has every query once, each where
\* its schedule says, whatever was killed, failed or written over meanwhile.
RecordsAreComplete ==
  \A f \in Path : file[f] \notin {Absent, Partial} => Complete(file[f])

\* Cold::Dropped and Measured::hot: when the cache was dropped the first run
\* found nothing in it: it came off the disk, unless its system has a pool of
\* its own, which no call makes cold.  A run behind the hot column came off the
\* disk only for what the machine itself took back in between.  OneAtATime is
\* what makes it so.
ColumnsMeanWhatTheySay ==
  \A r \in Runner : \A i \in 1..Len(report[r]) :
    LET row == report[r][i] IN
    Answered(row) =>
      /\ row.cache = "dropped" =>
           row.runs[1].from = "disk" \/ (row.id \in Pools(r) /\ row.runs[1].from = "pool")
      /\ \A k \in 2..RUNS : row.runs[k].from # "disk"

\* A row is an answer of a system this command started and loaded, even over
\* a directory with the database of an earlier command in it.
AnsweredFromThisLoad ==
  \A r \in Runner : \A i \in 1..Len(report[r]) :
    Answered(report[r][i]) => Reads(report[r][i].id) \subseteq mine[r]

\* measure: "a workload that stopped there would throw away the forty two
\* answers around it": once the table is in, and nothing kills the command
\* any more, every query gets its row, whatever the system makes of each.
EveryQueryGetsARow ==
  \A r \in Runner :
    stage[r] = "evict" /\ trouble = MaxTrouble ~> Len(report[r]) = Len(Workload)

-----------------------------------------------------------------------------
(* What the source says of itself and TLC refutes.                          *)

\* Outcome::Answered: "There are RUNS of these unless a later run failed
\* after an earlier one succeeded, which is itself worth seeing": a query of
\* which a run was answered is in the report as answered.
AnsweredOnceIsAnswered ==
  \A r \in Runner : \A i \in 1..Len(report[r]) :
    report[r][i].id \in once[r] => Answered(report[r][i])

\* protocol.rs: "the first run reads from disk" once the cache is dropped, and
\* its own next section says for which systems it does not.
ColdReadsTheDisk ==
  \A r \in Runner : \A i \in 1..Len(report[r]) :
    LET row == report[r][i] IN
    Answered(row) /\ row.cache = "dropped" => row.runs[1].from = "disk"

\* Measured::hot, the better of the second and third run: neither of them
\* had to read the disk again.
HotReadsMemory ==
  \A r \in Runner : \A i \in 1..Len(report[r]) :
    Answered(report[r][i]) => \A k \in 2..RUNS : report[r][i].runs[k].from \in {"cache", "pool"}

=============================================================================
