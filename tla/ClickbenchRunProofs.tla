------------------------- MODULE ClickbenchRunProofs -------------------------
(***************************************************************************)
(* What `clickbench run` leaves in a record, for any workload, schedule,   *)
(* set of runners, paths and directories, and whatever is killed or fails. *)
(***************************************************************************)
EXTENDS ClickbenchRun, TLAPS

-----------------------------------------------------------------------------
(* The part of a session that a row depends on.                             *)

\* A session says so when it is loaded, and then it has got a table in.
Session ==
  /\ prepared \in [Runner -> BOOLEAN]
  /\ loaded \in [Runner -> BOOLEAN]
  /\ mine \in [Runner -> SUBSET Table]
  /\ said \in [Runner -> {"none", "ok"} \cup Errors]
  /\ \A r \in Runner : loaded[r] => mine[r] # {}

\* What a step of one session leaves of another.
SessionStays(s) == loaded'[s] = loaded[s] /\ mine'[s] = mine[s]

LEMMA RefuseTells ==
  ASSUME Session, NEW r \in Runner, NEW error \in Errors,
         Refuse(r, error)
  PROVE  Session' /\ said'[r] = error /\ \A s \in Runner : SessionStays(s)
BY DEF Session, Refuse, Says, SessionStays

LEMMA FailsTells ==
  ASSUME Session, NEW r \in Runner, NEW error \in Errors,
         Fails(r, error)
  PROVE  Session' /\ said'[r] = error /\ \A s \in Runner : SessionStays(s)
BY DEF Session, Fails, Says, SessionStays

LEMMA PrepareTells ==
  ASSUME Session, NEW r \in Runner, Prepare(r)
  PROVE  Session' /\ \A s \in Runner : SessionStays(s)
<1>1. CASE prepared[r]
  BY <1>1, RefuseTells DEF Prepare, Errors
<1>2. CASE ~prepared[r]
  <2>1. CASE Fails(r, "System")
    BY <2>1, FailsTells DEF Errors
  <2>2. CASE /\ prepared' = [prepared EXCEPT ![r] = TRUE]
             /\ Says(r, "ok")
             /\ UNCHANGED <<loaded, mine>>
    <3>1. prepared' \in [Runner -> BOOLEAN]
      BY <2>2, Zenon DEF Session
    <3> QED
      BY <2>2, <3>1 DEF Session, Says, SessionStays
  <2> QED
    BY <1>2, <2>1, <2>2 DEF Prepare
<1> QED
  BY <1>1, <1>2

LEMMA LoadTableTells ==
  ASSUME Session, NEW r \in Runner, NEW t \in Table, LoadTable(r, t)
  PROVE  /\ Session'
         /\ mine[r] \subseteq mine'[r]
         /\ \A s \in Runner \ {r} : SessionStays(s)
<1>1. CASE ~prepared[r]
  BY <1>1, RefuseTells DEF LoadTable, Errors, SessionStays
<1>2. CASE prepared[r]
  <2>1. ASSUME NEW error \in {"Unsupported", "System"}, Fails(r, error)
        PROVE  Session' /\ \A s \in Runner : SessionStays(s)
    BY <2>1, FailsTells DEF Errors
  <2>2. CASE /\ loaded' = [loaded EXCEPT ![r] = TRUE]
             /\ mine' = [mine EXCEPT ![r] = @ \cup {t}]
             /\ Says(r, "ok")
             /\ UNCHANGED prepared
    <3>1. loaded' \in [Runner -> BOOLEAN]
      BY <2>2, Zenon DEF Session
    <3>2. /\ mine' \in [Runner -> SUBSET Table] /\ said' \in [Runner -> {"none", "ok"} \cup Errors]
          /\ mine'[r] = mine[r] \cup {t}
      BY <2>2 DEF Session, Says
    <3>3. \A s \in Runner \ {r} : SessionStays(s)
      BY <2>2 DEF Session, SessionStays
    <3> QED
      BY <2>2, <3>1, <3>2, <3>3 DEF Session, SessionStays
  <2> QED
    BY <1>2, <2>1, <2>2 DEF LoadTable, SessionStays
<1> QED
  BY <1>1, <1>2

\* What was answered was answered by a session that has loaded.
LEMMA AskQueryTells ==
  ASSUME Session, NEW r \in Runner, NEW q, AskQuery(r, q)
  PROVE  /\ Session' /\ \A s \in Runner : SessionStays(s)
         /\ said'[r] = "ok" => loaded[r]
<1>1. CASE ~loaded[r]
  BY <1>1, RefuseTells DEF AskQuery, Errors
<1>2. CASE loaded[r]
  <2>1. ASSUME NEW error \in {"Unsupported", "System"}, Fails(r, error)
        PROVE  Session' /\ \A s \in Runner : SessionStays(s)
    BY <2>1, FailsTells DEF Errors
  <2>2. CASE Says(r, "ok") /\ UNCHANGED <<prepared, loaded, mine>>
    BY <1>2, <2>2 DEF Session, Says, SessionStays
  <2> QED
    BY <1>2, <2>1, <2>2 DEF AskQuery
<1> QED
  BY <1>1, <1>2

LEMMA EndsTells ==
  ASSUME Session, NEW r \in Runner, Ends(r)
  PROVE  Session' /\ \A s \in Runner \ {r} : SessionStays(s)
<1>1. prepared' \in [Runner -> BOOLEAN] /\ loaded' \in [Runner -> BOOLEAN]
  BY Zenon DEF Session, Ends
<1>2. /\ mine' \in [Runner -> SUBSET Table] /\ said' \in [Runner -> {"none", "ok"} \cup Errors]
  BY DEF Session, Ends
<1>3. ~loaded'[r]
  BY DEF Session, Ends
<1>4. \A s \in Runner \ {r} : SessionStays(s)
  BY DEF Session, Ends, SessionStays
<1> QED
  BY <1>1, <1>2, <1>3, <1>4 DEF Session, SessionStays

-----------------------------------------------------------------------------
(* The variables of a command, and what its steps do to them.               *)

Reading == [digest : UNION {Answers(q) : q \in Query}, from : Sources]
Row == [id : Query, cache : {"dropped", "kept"}, outcome : Outcomes, runs : Seq(Reading)]

CommandShape ==
  /\ Session
  /\ stage \in [Runner -> Stages]
  /\ report \in [Runner -> Seq(Row)]
  /\ cold \in [Runner -> {"dropped", "kept"}]
  /\ runs \in [Runner -> Seq(Reading)]

\* A command that is measuring has a query before it, one that writes its
\* record has none, and the rows are in the order of its schedule.
Underway(r) ==
  /\ Len(report[r]) <= Len(Workload)
  /\ stage[r] = "query" => Len(report[r]) < Len(Workload)
  /\ stage[r] = "writing" => Len(report[r]) = Len(Workload)
  /\ \A i \in 1..Len(report[r]) : report[r][i].id = Apply(r)[i]

\* What was read since the last drop, whether or not it was taken back.
Known == held \cup lost

RunInv ==
  /\ CommandShape
  /\ Known \in SUBSET Query
  /\ DOMAIN file = Path
  /\ \A r \in Runner : Underway(r)
  /\ RecordsAreComplete

\* A step of one command leaves those of every other to it.
Stands(s) ==
  /\ stage'[s] = stage[s] /\ report'[s] = report[s] /\ cold'[s] = cold[s] /\ runs'[s] = runs[s]
  /\ SessionStays(s)
OthersStand(r) == \A s \in Runner \ {r} : Stands(s)

\* Schedule: the queries of the workload are visited, each of them.
LEMMA ScheduleVisitsAll ==
  ASSUME NEW r \in Runner
  PROVE  /\ Len(Workload) \in Nat
         /\ Schedule(r) \in [1..Len(Workload) -> 1..Len(Workload)]
         /\ \A i \in 1..Len(Workload) : Apply(r)[i] = Workload[Schedule(r)[i]] /\ Apply(r)[i] \in Query
         /\ \A q \in Query : \E i \in 1..Len(Workload) : Apply(r)[i] = q
<1>1. Workload \in Seq(Query) /\ Len(Workload) \in Nat
  BY WorkloadAssumption
<1>2. /\ Schedule(r) \in [1..Len(Workload) -> 1..Len(Workload)]
      /\ \A i \in 1..Len(Workload) : \E k \in 1..Len(Workload) : Schedule(r)[k] = i
  BY ShuffleAssumption DEF Schedule
<1>3. \A i \in 1..Len(Workload) : Apply(r)[i] = Workload[Schedule(r)[i]] /\ Apply(r)[i] \in Query
  BY <1>1, <1>2 DEF Apply
<1>4. ASSUME NEW q \in Query
      PROVE  \E i \in 1..Len(Workload) : Apply(r)[i] = q
  <2>1. PICK k \in 1..Len(Workload) : Workload[k] = q
    BY WorkloadAssumption
  <2>2. PICK i \in 1..Len(Workload) : Schedule(r)[i] = k
    BY <1>2
  <2> QED
    BY <1>3, <2>1, <2>2
<1> QED
  BY <1>1, <1>2, <1>3, <1>4

\* The process is over, whatever it was at.
LEMMA ExitEffect ==
  ASSUME CommandShape, NEW r \in Runner, NEW s \in Stages, Exit(r, s)
  PROVE  /\ CommandShape' /\ OthersStand(r)
         /\ stage'[r] = s /\ report'[r] = <<>> /\ runs'[r] = <<>>
<1>1. Session' /\ \A o \in Runner \ {r} : SessionStays(o)
  BY EndsTells DEF CommandShape, Exit
<1>2. /\ stage' = [stage EXCEPT ![r] = s]
      /\ report' = [report EXCEPT ![r] = <<>>]
      /\ cold' = [cold EXCEPT ![r] = "kept"]
      /\ runs' = [runs EXCEPT ![r] = <<>>]
  BY DEF Exit, To
<1>3. <<>> \in Seq(Row) /\ <<>> \in Seq(Reading)
  OBVIOUS
<1> QED
  BY <1>1, <1>2, <1>3 DEF CommandShape, OthersStand, Stands

\* Only the stage of a command changes, and what its session knows.
LEMMA StageEffect ==
  ASSUME CommandShape, NEW r \in Runner, NEW s \in Stages, To(r, s), UNCHANGED <<report, cold, runs>>,
         Session', \A o \in Runner \ {r} : SessionStays(o)
  PROVE  CommandShape' /\ OthersStand(r) /\ stage'[r] = s
BY DEF CommandShape, OthersStand, Stands, To

\* The session is not spoken to.
LEMMA SessionStill ==
  ASSUME Session, UNCHANGED sessionVars
  PROVE  Session' /\ \A s \in Runner : SessionStays(s)
BY DEF Session, SessionStays, sessionVars

LEMMA EvictEffect ==
  ASSUME CommandShape, NEW r \in Runner, Evict(r), Known \in SUBSET Query
  PROVE  /\ CommandShape' /\ OthersStand(r) /\ Known' \in SUBSET Query
         /\ stage[r] = "evict" /\ stage'[r] = "query" /\ Len(report[r]) < Len(Workload)
         /\ UNCHANGED <<report, runs>>
         /\ cold'[r] = "dropped" => Known' = {}
<1>1. PICK dropped \in {FALSE, Cold(r)} :
        /\ Known' = IF dropped THEN {} ELSE Known
        /\ cold' = [cold EXCEPT ![r] = IF dropped THEN "dropped" ELSE "kept"]
  BY DEF Evict, Drop, cacheVars, Known
<1>2. Session' /\ \A s \in Runner : SessionStays(s)
  BY SessionStill DEF CommandShape, Evict
<1>3. /\ cold' \in [Runner -> {"dropped", "kept"}]
      /\ cold'[r] = "dropped" => Known' = {}
      /\ \A s \in Runner \ {r} : cold'[s] = cold[s]
  BY <1>1 DEF CommandShape
<1>4. /\ stage' = [stage EXCEPT ![r] = "query"] /\ "query" \in Stages
      /\ stage[r] = "evict" /\ Len(report[r]) < Len(Workload)
      /\ UNCHANGED <<report, runs>>
  BY DEF Evict, To, Stages
<1> QED
  BY <1>1, <1>2, <1>3, <1>4 DEF CommandShape, OthersStand, Stands

\* What a run of a query comes to: its reading is taken, and with the last of
\* them, or an error, the query has its row.
Taken(r, d, from) == Append(runs[r], [digest |-> d, from |-> from])
Pushed(r, outcome, kept) ==
  /\ report'[r] = Append(report[r],
       [id |-> Current(r), cache |-> cold[r], outcome |-> outcome, runs |-> kept])
  /\ runs'[r] = <<>> /\ stage'[r] = "evict"
GoesOn(r, d, from) ==
  /\ Len(Taken(r, d, from)) # RUNS
  /\ runs'[r] = Taken(r, d, from) /\ report'[r] = report[r] /\ stage'[r] = "query"

LEMMA PushEffect ==
  ASSUME CommandShape, NEW r \in Runner, Current(r) \in Query, NEW outcome \in Outcomes,
         NEW kept \in Seq(Reading), Push(r, outcome, kept), UNCHANGED cold,
         Session', \A s \in Runner : SessionStays(s)
  PROVE  CommandShape' /\ OthersStand(r) /\ Pushed(r, outcome, kept)
<1> DEFINE row == [id |-> Current(r), cache |-> cold[r], outcome |-> outcome, runs |-> kept]
<1>1. row \in Row
  BY DEF CommandShape, Row
<1>2. report[r] \in Seq(Row) /\ Append(report[r], row) \in Seq(Row) /\ <<>> \in Seq(Reading)
  BY <1>1 DEF CommandShape
<1>3. /\ report' = [report EXCEPT ![r] = Append(@, row)]
      /\ runs' = [runs EXCEPT ![r] = <<>>]
      /\ stage' = [stage EXCEPT ![r] = "evict"] /\ "evict" \in Stages
  BY DEF Push, To, Stages
<1> HIDE DEF row
<1>4. CommandShape' /\ OthersStand(r)
  BY <1>2, <1>3 DEF CommandShape, OthersStand, Stands
<1>5. report'[r] = Append(report[r], row) /\ runs'[r] = <<>> /\ stage'[r] = "evict"
  BY <1>3 DEF CommandShape
<1> QED
  BY <1>4, <1>5 DEF Pushed, row

LEMMA QueryEffect ==
  ASSUME CommandShape, NEW r \in Runner, Underway(r), RunQuery(r), Known \in SUBSET Query
  PROVE  /\ CommandShape' /\ OthersStand(r) /\ SessionStays(r)
         /\ stage[r] = "query" /\ Current(r) \in Query /\ Known' = Known \cup {Current(r)}
         /\ \/ \E d \in Answers(Current(r)), from \in FoundIn(r) :
                 /\ loaded[r]
                 /\ \/ Len(Taken(r, d, from)) = RUNS /\ Pushed(r, "answered", Taken(r, d, from))
                    \/ GoesOn(r, d, from) /\ cold' = cold
            \/ \E outcome \in Outcomes \ {"answered"} : Pushed(r, outcome, <<>>)
<1>1. /\ stage[r] = "query" /\ AskQuery(r, Current(r)) /\ Known' = Known \cup {Current(r)}
      /\ cold' = cold
  BY DEF RunQuery, Known
<1>2. Current(r) \in Query
  <2>1. report[r] \in Seq(Row) /\ Len(report[r]) + 1 \in 1..Len(Workload)
    BY <1>1, ScheduleVisitsAll DEF Underway, CommandShape
  <2> QED
    BY <2>1, ScheduleVisitsAll DEF Current
<1>3. /\ Session' /\ \A s \in Runner : SessionStays(s)
      /\ said'[r] = "ok" => loaded[r]
  BY <1>1, AskQueryTells DEF CommandShape
<1>4. CASE RunAnswers(r)
  <2>1. PICK d \in Answers(Current(r)), from \in FoundIn(r) :
          IF Len(Taken(r, d, from)) = RUNS
            THEN Push(r, "answered", Taken(r, d, from))
            ELSE runs' = [runs EXCEPT ![r] = Taken(r, d, from)] /\ UNCHANGED <<report, stage>>
    BY <1>4 DEF RunAnswers, Taken
  <2>2. loaded[r]
    BY <1>3, <1>4 DEF RunAnswers
  <2>3. Taken(r, d, from) \in Seq(Reading)
    <3>1. [digest |-> d, from |-> from] \in Reading
      BY <1>2, <2>1 DEF Reading, FoundIn, Sources
    <3> QED
      BY <3>1 DEF Taken, CommandShape
  <2>4. CASE Len(Taken(r, d, from)) = RUNS
    <3>1. Push(r, "answered", Taken(r, d, from)) /\ "answered" \in Outcomes
      BY <2>1, <2>4 DEF Outcomes
    <3>2. CommandShape' /\ OthersStand(r) /\ Pushed(r, "answered", Taken(r, d, from))
      BY <1>1, <1>2, <1>3, <2>3, <3>1, PushEffect
    <3> QED
      BY <1>1, <1>2, <1>3, <2>1, <2>2, <2>4, <3>2
  <2>5. CASE Len(Taken(r, d, from)) # RUNS
    <3>1. runs' = [runs EXCEPT ![r] = Taken(r, d, from)] /\ UNCHANGED <<report, stage>>
      BY <2>1, <2>5
    <3>2. GoesOn(r, d, from)
      BY <1>1, <2>5, <3>1 DEF GoesOn, CommandShape
    <3>3. CommandShape' /\ OthersStand(r)
      BY <1>1, <1>3, <2>3, <3>1 DEF CommandShape, OthersStand, Stands
    <3> QED
      BY <1>1, <1>2, <1>3, <2>1, <2>2, <3>2, <3>3
  <2> QED
    BY <2>4, <2>5
<1>5. CASE RunGoesWrong(r)
  <2>1. PICK outcome \in Outcomes \ {"answered"} : Push(r, outcome, <<>>)
    BY <1>5 DEF RunGoesWrong, Outcomes
  <2>2. <<>> \in Seq(Reading)
    OBVIOUS
  <2>3. CommandShape' /\ OthersStand(r) /\ Pushed(r, outcome, <<>>)
    BY <1>1, <1>2, <1>3, <2>1, <2>2, PushEffect
  <2> QED
    BY <1>1, <1>2, <1>3, <2>1, <2>3
<1> QED
  BY <1>4, <1>5 DEF RunQuery

-----------------------------------------------------------------------------
(* The four things a step may do to its command.                            *)

Quits(r) ==
  /\ stage'[r] \in {"done", "failed"} /\ report'[r] = <<>> /\ runs'[r] = <<>>
  /\ Known' = Known
  /\ \/ file' = file
     \/ stage[r] = "writing" /\ file' = [file EXCEPT ![OutOf(r)] = Record(r)]

Ways == {<<"start", "setup">>, <<"setup", "loading">>, <<"setup", "stopping">>,
         <<"loading", "evict">>, <<"loading", "stopping">>, <<"evict", "writing">>,
         <<"done", "start">>, <<"failed", "start">>}
Moves(r) ==
  /\ <<stage[r], stage'[r]>> \in Ways
  /\ OneAtATime /\ stage[r] = "start" => \A o \in Runner \ {r} : Idle(o)
  /\ stage[r] = "evict" => Len(report[r]) = Len(Workload)
  /\ report'[r] = report[r] /\ runs'[r] = runs[r] /\ mine[r] \subseteq mine'[r]
  /\ stage[r] # "loading" => Known' = Known
  /\ file' = file \/ file' = [file EXCEPT ![OutOf(r)] = Partial]

Evicts(r) ==
  /\ stage[r] = "evict" /\ stage'[r] = "query" /\ Len(report[r]) < Len(Workload)
  /\ report'[r] = report[r] /\ runs'[r] = runs[r] /\ SessionStays(r)
  /\ cold'[r] = "dropped" => Known' = {}
  /\ file' = file

Asks(r) ==
  /\ stage[r] = "query" /\ Current(r) \in Query /\ Known' = Known \cup {Current(r)} /\ SessionStays(r)
  /\ \/ \E d \in Answers(Current(r)), from \in FoundIn(r) :
          /\ loaded[r]
          /\ \/ Len(Taken(r, d, from)) = RUNS /\ Pushed(r, "answered", Taken(r, d, from))
             \/ GoesOn(r, d, from) /\ cold' = cold
     \/ \E outcome \in Outcomes \ {"answered"} : Pushed(r, outcome, <<>>)
  /\ file' = file

Shapes == CommandShape /\ Known \in SUBSET Query /\ \A r \in Runner : Underway(r)
Effect(r) ==
  /\ CommandShape' /\ OthersStand(r) /\ Known' \in SUBSET Query
  /\ Quits(r) \/ Moves(r) \/ Evicts(r) \/ Asks(r)

LEMMA QuitEffect ==
  ASSUME Shapes, NEW r \in Runner, NEW s \in {"done", "failed"}, Exit(r, s), UNCHANGED Known,
         \/ UNCHANGED file
         \/ stage[r] = "writing" /\ file' = [file EXCEPT ![OutOf(r)] = Record(r)]
  PROVE  Effect(r)
<1>1. s \in Stages
  BY DEF Stages
<1>2. CommandShape' /\ OthersStand(r) /\ stage'[r] = s /\ report'[r] = <<>> /\ runs'[r] = <<>>
  BY <1>1, ExitEffect DEF Shapes
<1> QED
  BY <1>2 DEF Effect, Quits, Shapes

LEMMA MoveEffect ==
  ASSUME Shapes, NEW r \in Runner, NEW s, <<stage[r], s>> \in Ways, To(r, s),
         UNCHANGED <<report, cold, runs>>,
         Session', mine[r] \subseteq mine'[r], \A o \in Runner \ {r} : SessionStays(o),
         OneAtATime /\ stage[r] = "start" => \A o \in Runner \ {r} : Idle(o),
         stage[r] = "evict" => Len(report[r]) = Len(Workload),
         stage[r] # "loading" => Known' = Known,
         Known' \in SUBSET Query,
         file' = file \/ file' = [file EXCEPT ![OutOf(r)] = Partial]
  PROVE  Effect(r)
<1>1. s \in Stages
  BY DEF Ways, Stages
<1>2. CommandShape' /\ OthersStand(r) /\ stage'[r] = s
  BY <1>1, StageEffect DEF Shapes
<1> QED
  BY <1>2 DEF Effect, Moves

LEMMA CommandEffect ==
  ASSUME Shapes, NEW r \in Runner, Command(r)
  PROVE  Effect(r)
<1> USE DEF Shapes
<1>0. Session
  BY DEF CommandShape
<1>1. CASE Gates(r)
  <2>1. Known' = Known /\ file' = file /\ stage[r] = "start"
    BY <1>1 DEF Gates, Untouched, cacheVars, Known
  <2>2. OneAtATime => \A o \in Runner \ {r} : Idle(o)
    BY <1>1 DEF Gates
  <2>3. CASE To(r, "setup") /\ UNCHANGED <<sessionVars, report, cold, runs>>
    <3>1. Session' /\ \A s \in Runner : SessionStays(s)
      BY <1>0, <2>3, SessionStill
    <3>2. <<stage[r], "setup">> \in Ways
      BY <2>1 DEF Ways
    <3>3. mine[r] \subseteq mine'[r]
      BY <3>1 DEF SessionStays
    <3> QED
      BY <2>1, <2>2, <2>3, <3>1, <3>2, <3>3, MoveEffect
  <2>4. CASE Exit(r, "failed")
    BY <2>1, <2>4, QuitEffect
  <2> QED
    BY <1>1, <2>3, <2>4 DEF Gates
<1>2. CASE RunPrepare(r)
  <2> DEFINE s == IF said'[r] = "ok" THEN "loading" ELSE "stopping"
  <2>1. /\ Prepare(r) /\ stage[r] = "setup" /\ To(r, s)
        /\ UNCHANGED <<report, cold, runs, Known, file>>
    BY <1>2 DEF RunPrepare, Untouched, cacheVars, Known
  <2>2. <<stage[r], s>> \in Ways
    BY <2>1 DEF Ways
  <2>3. Session' /\ \A o \in Runner : SessionStays(o)
    BY <1>0, <2>1, PrepareTells
  <2>4. mine[r] \subseteq mine'[r]
    BY <2>3 DEF SessionStays
  <2> HIDE DEF s
  <2> QED
    BY <2>1, <2>2, <2>3, <2>4, MoveEffect
<1>3. CASE RunLoad(r)
  <2> DEFINE s == IF said'[r] = "ok" THEN "evict" ELSE "stopping"
  <2>1. /\ \E t \in Table : LoadTable(r, t)
        /\ stage[r] = "loading" /\ To(r, s) /\ Known' = Query
        /\ UNCHANGED <<report, cold, runs, file>>
    BY <1>3 DEF RunLoad, Known
  <2>2. <<stage[r], s>> \in Ways
    BY <2>1 DEF Ways
  <2>3. Session' /\ mine[r] \subseteq mine'[r] /\ \A o \in Runner \ {r} : SessionStays(o)
    BY <1>0, <2>1, LoadTableTells
  <2> HIDE DEF s
  <2> QED
    BY <2>1, <2>2, <2>3, MoveEffect
<1>4. CASE Stop(r)
  BY <1>4, QuitEffect DEF Stop, Untouched, cacheVars, Known
<1>5. CASE Evict(r)
  <2>1. /\ CommandShape' /\ OthersStand(r) /\ Known' \in SUBSET Query
        /\ stage[r] = "evict" /\ stage'[r] = "query" /\ Len(report[r]) < Len(Workload)
        /\ UNCHANGED <<report, runs>>
        /\ cold'[r] = "dropped" => Known' = {}
    BY <1>5, EvictEffect
  <2>2. SessionStays(r) /\ file' = file
    BY <1>0, <1>5, SessionStill DEF Evict
  <2> QED
    BY <2>1, <2>2 DEF Effect, Evicts
<1>6. CASE RunQuery(r)
  <2>1. file' = file
    BY <1>6 DEF RunQuery
  <2> QED
    BY <1>6, <2>1, QueryEffect DEF Effect, Asks
<1>7. CASE StartRecord(r)
  <2>1. /\ stage[r] = "evict" /\ Len(report[r]) = Len(Workload) /\ To(r, "writing")
        /\ UNCHANGED <<sessionVars, report, cold, runs, Known>>
        /\ file' = [file EXCEPT ![OutOf(r)] = Partial]
    BY <1>7 DEF StartRecord, cacheVars, Known
  <2>2. <<stage[r], "writing">> \in Ways
    BY <2>1 DEF Ways
  <2>3. Session' /\ \A o \in Runner : SessionStays(o)
    BY <1>0, <2>1, SessionStill
  <2>4. mine[r] \subseteq mine'[r]
    BY <2>3 DEF SessionStays
  <2> QED
    BY <2>1, <2>2, <2>3, <2>4, MoveEffect
<1>8. CASE FinishRecord(r)
  BY <1>8, QuitEffect DEF FinishRecord, cacheVars, Known
<1> QED
  BY <1>1, <1>2, <1>3, <1>4, <1>5, <1>6, <1>7, <1>8 DEF Command

\* A reclaim is nothing that a command or its record notices.
Rests == UNCHANGED <<sessionVars, stage, report, cold, runs, file, Known>>

LEMMA StepEffect ==
  ASSUME Shapes, [RunNext]_runVars
  PROVE  Rests \/ \E r \in Runner : Effect(r)
<1>1. CASE UNCHANGED runVars
  BY <1>1 DEF runVars, commandVars, cacheVars, Known, Rests
<1>2. CASE Reclaim
  BY <1>2 DEF Reclaim, commandVars, Known, Rests
<1>3. ASSUME NEW r \in Runner, Command(r) \/ SetupFails(r) \/ RecordFails(r) \/ Die(r) \/ Again(r)
      PROVE  Effect(r)
  <2>1. CASE Command(r)
    BY <2>1, CommandEffect
  <2>2. CASE SetupFails(r) \/ RecordFails(r) \/ Die(r)
    BY <2>2, QuitEffect DEF SetupFails, RecordFails, Die, cacheVars, Known
  <2>3. CASE Again(r)
    <3>1. /\ stage[r] \in {"done", "failed"} /\ To(r, "start")
          /\ UNCHANGED <<sessionVars, report, cold, runs, Known, file>>
      BY <2>3 DEF Again, cacheVars, Known
    <3>2. <<stage[r], "start">> \in Ways
      BY <3>1 DEF Ways
    <3>3. Session' /\ \A o \in Runner : SessionStays(o)
      BY <3>1, SessionStill DEF Shapes, CommandShape
    <3>4. mine[r] \subseteq mine'[r] /\ Known' \in SUBSET Query
      BY <3>1, <3>3 DEF SessionStays, Shapes
    <3> QED
      BY <3>1, <3>2, <3>3, <3>4, MoveEffect
  <2> QED
    BY <1>3, <2>1, <2>2, <2>3
<1> QED
  BY <1>1, <1>2, <1>3 DEF RunNext

-----------------------------------------------------------------------------
(* Records.                                                                 *)

\* What a command that is through its workload writes.
LEMMA WrittenIsComplete ==
  ASSUME CommandShape, NEW r \in Runner, Underway(r), stage[r] = "writing"
  PROVE  Complete(Record(r))
<1>1. Len(report[r]) = Len(Workload) /\ \A i \in 1..Len(Workload) : report[r][i].id = Apply(r)[i]
  BY DEF Underway
<1>2. /\ Len(Record(r).queries) = Len(Workload) /\ Record(r).order = Schedule(r)
      /\ \A i \in 1..Len(Workload) : Record(r).queries[i].id = report[r][i].id
  <2>1. report[r] \in Seq(Row)
    BY DEF CommandShape
  <2>2. Queries(r) = [i \in 1..Len(Workload) |-> Written(report[r][i])]
    BY <1>1, <2>1 DEF Queries
  <2>3. Len(Queries(r)) = Len(Workload)
    BY <2>2, ScheduleVisitsAll
  <2> QED
    BY <2>2, <2>3 DEF Record, Written
<1>3. ASSUME NEW q \in Query
      PROVE  \E i \in 1..Len(Workload) : report[r][i].id = q
  BY <1>1, ScheduleVisitsAll
<1>4. \A i \in 1..Len(Workload) : report[r][i].id = Workload[Schedule(r)[i]]
  BY <1>1, ScheduleVisitsAll
<1> QED
  BY <1>1, <1>2, <1>3, <1>4 DEF Complete

LEMMA RunStarts == RunInit => RunInv
<1> SUFFICES ASSUME RunInit PROVE RunInv
  OBVIOUS
<1>1. Session
  BY DEF RunInit, SessionInit, Session
<1>2. <<>> \in Seq(Row) /\ <<>> \in Seq(Reading) /\ "start" \in Stages
  BY DEF Stages
<1>3. CommandShape
  BY <1>1, <1>2 DEF RunInit, CommandShape
<1>4. Len(Workload) \in Nat
  BY WorkloadAssumption
<1>5. \A r \in Runner : Underway(r)
  BY <1>4 DEF RunInit, Underway
<1> QED
  BY <1>3, <1>5 DEF RunInit, RunInv, RecordsAreComplete, Known

\* A command that goes on has the rows of its schedule so far.
LEMMA UnderwayKept ==
  ASSUME RunInv, NEW r \in Runner, Effect(r)
  PROVE  \A s \in Runner : Underway(s)'
<1>1. ASSUME NEW s \in Runner, s # r PROVE Underway(s)'
  BY <1>1 DEF Effect, OthersStand, Stands, RunInv, Underway, Apply, Schedule
<1> SUFFICES Underway(r)'
  BY <1>1
<1>2. Underway(r) /\ report[r] \in Seq(Row) /\ Len(Workload) \in Nat
  BY ScheduleVisitsAll DEF RunInv, CommandShape
<1>3. Apply(r)' = Apply(r)
  BY DEF Apply, Schedule
<1>4. CASE Quits(r)
  BY <1>2, <1>4 DEF Quits, Underway
<1>5. CASE Moves(r)
  <2>1. report'[r] = report[r] /\ stage'[r] # "query"
    BY <1>5 DEF Moves, Ways
  <2>2. stage'[r] = "writing" => Len(report[r]) = Len(Workload)
    BY <1>5 DEF Moves, Ways
  <2> QED
    BY <1>2, <1>3, <2>1, <2>2 DEF Underway
<1>6. CASE Evicts(r)
  BY <1>2, <1>3, <1>6 DEF Evicts, Underway
<1>7. CASE Asks(r)
  <2>1. Len(report[r]) < Len(Workload)
    BY <1>2, <1>7 DEF Asks, Underway
  <2>2. ASSUME NEW outcome, NEW kept, Pushed(r, outcome, kept)
        PROVE  Underway(r)'
    <3> DEFINE row == [id |-> Current(r), cache |-> cold[r], outcome |-> outcome, runs |-> kept]
    <3>1. row.id = Apply(r)[Len(report[r]) + 1]
      BY DEF Current
    <3>2. report'[r] = Append(report[r], row) /\ stage'[r] = "evict"
      BY <2>2 DEF Pushed
    <3> HIDE DEF row
    <3>3. /\ Len(report'[r]) = Len(report[r]) + 1
          /\ \A i \in 1..Len(report[r]) : report'[r][i] = report[r][i]
          /\ report'[r][Len(report[r]) + 1] = row
      BY <1>2, <3>2
    <3>4. \A i \in 1..Len(report'[r]) : report'[r][i].id = Apply(r)[i]
      BY <1>2, <3>1, <3>3 DEF Underway
    <3> QED
      BY <1>2, <1>3, <2>1, <3>2, <3>3, <3>4 DEF Underway
  <2>3. ASSUME NEW d, NEW from, GoesOn(r, d, from)
        PROVE  Underway(r)'
    BY <1>2, <1>3, <2>1, <2>3 DEF GoesOn, Underway
  <2> QED
    BY <1>7, <2>2, <2>3 DEF Asks
<1> QED
  BY <1>4, <1>5, <1>6, <1>7 DEF Effect

LEMMA RecordsKept ==
  ASSUME RunInv, NEW r \in Runner, Effect(r)
  PROVE  DOMAIN file' = Path /\ RecordsAreComplete'
<1>1. DOMAIN file = Path /\ RecordsAreComplete /\ OutOf(r) \in Path
  BY OutOfAssumption DEF RunInv
<1>2. CASE file' = file
  BY <1>1, <1>2 DEF RecordsAreComplete, Complete
<1>3. CASE file' = [file EXCEPT ![OutOf(r)] = Partial]
  BY <1>1, <1>3 DEF RecordsAreComplete, Complete
<1>4. CASE stage[r] = "writing" /\ file' = [file EXCEPT ![OutOf(r)] = Record(r)]
  <2>1. Complete(Record(r))
    BY <1>4, WrittenIsComplete DEF RunInv
  <2> QED
    BY <1>1, <1>4, <2>1 DEF RecordsAreComplete, Complete
<1> QED
  BY <1>2, <1>3, <1>4 DEF Effect, Quits, Moves, Evicts, Asks

LEMMA RunKept == RunInv /\ [RunNext]_runVars => RunInv'
<1> SUFFICES ASSUME RunInv, [RunNext]_runVars PROVE RunInv'
  OBVIOUS
<1>1. ASSUME NEW r \in Runner, Effect(r) PROVE RunInv'
  <2>1. CommandShape' /\ Known' \in SUBSET Query
    BY <1>1 DEF Effect
  <2>2. \A s \in Runner : Underway(s)'
    BY <1>1, UnderwayKept
  <2>3. DOMAIN file' = Path /\ RecordsAreComplete'
    BY <1>1, RecordsKept
  <2> QED
    BY <2>1, <2>2, <2>3 DEF RunInv
<1>2. CASE Rests
  <2>1. CommandShape'
    BY <1>2, SessionStill DEF Rests, RunInv, CommandShape
  <2>2. \A r \in Runner : Underway(r)'
    BY <1>2 DEF Rests, RunInv, Underway, Apply, Schedule
  <2>3. RecordsAreComplete'
    BY <1>2 DEF Rests, RunInv, RecordsAreComplete, Complete
  <2>4. DOMAIN file' = Path /\ Known' \in SUBSET Query
    BY <1>2 DEF Rests, RunInv
  <2> QED
    BY <2>1, <2>2, <2>3, <2>4 DEF RunInv
<1> QED
  BY <1>1, <1>2, StepEffect DEF RunInv, Shapes

\* Schedule::apply: "a missing query is exactly the kind of thing a geomean
\* hides": whatever is killed, fails or is written over, a record that can be
\* read back has every query of the workload, where its schedule says.
THEOREM RecordsAreCompleteHolds == RunSpec => []RecordsAreComplete
<1>1. RunInv => RecordsAreComplete
  BY DEF RunInv
<1> QED
  BY <1>1, RunStarts, RunKept, PTL DEF RunSpec

-----------------------------------------------------------------------------
(* Columns, of commands that are given one after another.                   *)

\* No two commands are at it together.
Turns == \A r, o \in Runner : r # o => Idle(r) \/ Idle(o)

\* What a first run after a drop may say of where it found its bytes.
Fresh(r, q, reading) == reading.from = "disk" \/ (q \in Pools(r) /\ reading.from = "pool")
Meant(r, row) ==
  Answered(row) =>
    /\ row.cache = "dropped" => Fresh(r, row.id, row.runs[1])
    /\ \A k \in 2..RUNS : row.runs[k].from # "disk"

\* Between the runs of a query nobody else reads or drops anything: its bytes
\* are known once it has run, and are not before when the cache was dropped.
Between(r) ==
  /\ Len(runs[r]) < RUNS
  /\ \A k \in 2..Len(runs[r]) : runs[r][k].from # "disk"
  /\ runs[r] # <<>> => Current(r) \in Known
  /\ cold[r] = "dropped" =>
       IF runs[r] = <<>> THEN Current(r) \notin Known ELSE Fresh(r, Current(r), runs[r][1])

Columns(r) ==
  /\ Idle(r) => report[r] = <<>>
  /\ stage[r] # "query" => runs[r] = <<>>
  /\ stage[r] = "query" => Between(r)
  /\ \A i \in 1..Len(report[r]) : Meant(r, report[r][i])

ColumnsInv == RunInv /\ Turns /\ \A r \in Runner : Columns(r)

\* A step ends a turn, or is in it, or begins one when there is none.
LEMMA TurnsKept ==
  ASSUME OneAtATime, ColumnsInv, NEW r \in Runner, Effect(r)
  PROVE  Turns'
<1>1. ASSUME NEW s \in Runner, NEW o \in Runner, s # r, o # r, s # o
      PROVE  (Idle(s) \/ Idle(o))'
  BY <1>1 DEF ColumnsInv, Turns, Effect, OthersStand, Stands, Idle
<1>2. ASSUME NEW s \in Runner, s # r
      PROVE  (Idle(s) \/ Idle(r))'
  <2>1. Idle(s)' <=> Idle(s)
    BY <1>2 DEF Effect, OthersStand, Stands, Idle
  <2>2. Idle(s) \/ Idle(r)
    BY <1>2 DEF ColumnsInv, Turns
  <2>3. CASE Quits(r)
    BY <2>3 DEF Quits, Idle
  <2>4. CASE Moves(r)
    BY <1>2, <2>1, <2>2, <2>4 DEF Moves, Ways, Idle
  <2>5. CASE Evicts(r) \/ Asks(r)
    BY <2>1, <2>2, <2>5 DEF Evicts, Asks, Idle
  <2> QED
    BY <2>3, <2>4, <2>5 DEF Effect
<1> QED
  BY <1>1, <1>2 DEF Turns

\* What a command does to the page cache, the ones that wait do not notice.
LEMMA ColumnsElsewhere ==
  ASSUME ColumnsInv, NEW r \in Runner, Effect(r), NEW s \in Runner, s # r
  PROVE  Columns(s)'
<1>1. /\ stage'[s] = stage[s] /\ report'[s] = report[s] /\ cold'[s] = cold[s] /\ runs'[s] = runs[s]
      /\ Columns(s) /\ (Idle(s) \/ Idle(r))
  BY DEF Effect, OthersStand, Stands, ColumnsInv, Turns
<1>2. Known' = Known \/ ~Idle(r)
  BY DEF Effect, Quits, Moves, Evicts, Asks, Idle
<1>3. Current(s)' = Current(s)
  BY <1>1 DEF Current, Apply, Schedule
<1>4. CASE stage[s] = "query"
  <2>1. Known' = Known
    BY <1>1, <1>2, <1>4 DEF Idle
  <2> QED
    BY <1>1, <1>3, <2>1 DEF Columns, Between, Meant, Answered, Idle
<1>5. CASE stage[s] # "query"
  BY <1>1, <1>5 DEF Columns, Meant, Answered, Idle
<1> QED
  BY <1>4, <1>5

\* The reading of a run says whether its bytes had to come off the disk.
LEMMA ReadingTaken ==
  ASSUME CommandShape, NEW r \in Runner, Between(r), NEW d, NEW from \in FoundIn(r)
  PROVE  /\ Len(Taken(r, d, from)) = Len(runs[r]) + 1 /\ Taken(r, d, from) # <<>>
         /\ cold[r] = "dropped" => Fresh(r, Current(r), Taken(r, d, from)[1])
         /\ \A k \in 2..Len(Taken(r, d, from)) : Taken(r, d, from)[k].from # "disk"
<1> DEFINE reading == [digest |-> d, from |-> from]
<1>1. runs[r] \in Seq(Reading)
  BY DEF CommandShape
<1>2. /\ Current(r) \in Known => reading.from # "disk"
      /\ Current(r) \notin Known => Fresh(r, Current(r), reading)
  BY DEF FoundIn, Known, Fresh
<1> HIDE DEF reading
<1>3. /\ Len(Taken(r, d, from)) = Len(runs[r]) + 1
      /\ \A k \in 1..Len(runs[r]) : Taken(r, d, from)[k] = runs[r][k]
      /\ Taken(r, d, from)[Len(runs[r]) + 1] = reading
      /\ Len(runs[r]) \in Nat
      /\ runs[r] = <<>> <=> Len(runs[r]) = 0
  BY <1>1 DEF Taken, reading
<1>4. CASE runs[r] = <<>>
  BY <1>2, <1>3, <1>4 DEF Between
<1>5. CASE runs[r] # <<>>
  <2>1. 1 \in 1..Len(runs[r]) /\ reading.from # "disk"
    BY <1>2, <1>3, <1>5 DEF Between
  <2>2. ASSUME NEW k \in 2..Len(Taken(r, d, from)) PROVE Taken(r, d, from)[k].from # "disk"
    <3>1. CASE k \in 2..Len(runs[r])
      BY <1>3, <3>1 DEF Between
    <3>2. CASE k = Len(runs[r]) + 1
      BY <1>3, <2>1, <3>2
    <3> QED
      BY <1>3, <3>1, <3>2
  <2> QED
    BY <1>3, <1>5, <2>1, <2>2 DEF Between
<1> QED
  BY <1>4, <1>5

LEMMA ColumnsHere ==
  ASSUME ColumnsInv, NEW r \in Runner, Effect(r)
  PROVE  Columns(r)'
<1>1. Columns(r) /\ CommandShape /\ report[r] \in Seq(Row) /\ runs[r] \in Seq(Reading)
  BY DEF ColumnsInv, RunInv, CommandShape
<1>2. CASE Quits(r)
  BY <1>2 DEF Quits, Columns
<1>3. CASE Moves(r)
  <2>1. stage[r] # "query" /\ stage'[r] # "query" /\ (Idle(r)' => Idle(r))
    BY <1>3 DEF Moves, Ways, Idle
  <2> QED
    BY <1>1, <1>3, <2>1 DEF Moves, Columns, Meant, Answered
<1>4. CASE Evicts(r)
  <2>1. runs'[r] = <<>> /\ report'[r] = report[r] /\ stage'[r] = "query"
    BY <1>1, <1>4 DEF Evicts, Columns
  <2>2. Between(r)'
    BY <1>4, <2>1 DEF Evicts, Between, RUNS
  <2> QED
    BY <1>1, <2>1, <2>2 DEF Columns, Meant, Answered, Idle
<1>5. CASE Asks(r)
  <2>1. stage[r] = "query" /\ Between(r) /\ Known' = Known \cup {Current(r)}
    BY <1>1, <1>5 DEF Asks, Columns
  <2>2. ASSUME NEW outcome, NEW kept, Pushed(r, outcome, kept),
               outcome = "answered" =>
                 /\ cold[r] = "dropped" => Fresh(r, Current(r), kept[1])
                 /\ \A k \in 2..RUNS : kept[k].from # "disk"
        PROVE  Columns(r)'
    <3> DEFINE row == [id |-> Current(r), cache |-> cold[r], outcome |-> outcome, runs |-> kept]
    <3>1. Meant(r, row)
      BY <2>2 DEF Meant, Answered
    <3>2. report'[r] = Append(report[r], row) /\ runs'[r] = <<>> /\ stage'[r] = "evict"
      BY <2>2 DEF Pushed
    <3> HIDE DEF row
    <3>3. \A i \in 1..Len(report'[r]) : report'[r][i] = row \/ (i \in 1..Len(report[r]) /\ report'[r][i] = report[r][i])
      BY <1>1, <3>2
    <3>4. \A i \in 1..Len(report'[r]) : Meant(r, report'[r][i])
      BY <1>1, <3>1, <3>3 DEF Columns
    <3> QED
      BY <3>2, <3>4 DEF Columns, Meant, Answered, Idle
  <2>3. ASSUME NEW d \in Answers(Current(r)), NEW from \in FoundIn(r), Len(Taken(r, d, from)) = RUNS, Pushed(r, "answered", Taken(r, d, from))
        PROVE  Columns(r)'
    <3>1. /\ cold[r] = "dropped" => Fresh(r, Current(r), Taken(r, d, from)[1])
          /\ \A k \in 2..RUNS : Taken(r, d, from)[k].from # "disk"
      BY <1>1, <2>1, <2>3, ReadingTaken
    <3> QED
      BY <2>2, <2>3, <3>1
  <2>4. ASSUME NEW d \in Answers(Current(r)), NEW from \in FoundIn(r), GoesOn(r, d, from), cold' = cold
        PROVE  Columns(r)'
    <3>1. /\ runs'[r] = Taken(r, d, from) /\ report'[r] = report[r] /\ stage'[r] = "query"
          /\ Len(Taken(r, d, from)) # RUNS
      BY <2>4 DEF GoesOn
    <3>2. /\ Len(Taken(r, d, from)) = Len(runs[r]) + 1 /\ Taken(r, d, from) # <<>>
          /\ cold[r] = "dropped" => Fresh(r, Current(r), Taken(r, d, from)[1])
          /\ \A k \in 2..Len(Taken(r, d, from)) : Taken(r, d, from)[k].from # "disk"
      BY <1>1, <2>1, ReadingTaken
    <3>3. Current(r)' = Current(r)
      BY <3>1 DEF Current, Apply, Schedule
    <3>4. Len(runs'[r]) < RUNS
      BY <1>1, <2>1, <3>1, <3>2 DEF Between, RUNS
    <3>5. Between(r)'
      BY <2>1, <2>4, <3>1, <3>2, <3>3, <3>4 DEF Between
    <3> QED
      BY <1>1, <3>1, <3>5 DEF Columns, Meant, Answered, Idle
  <2>5. ASSUME NEW outcome \in Outcomes \ {"answered"}, Pushed(r, outcome, <<>>)
        PROVE  Columns(r)'
    BY <2>2, <2>5
  <2> QED
    BY <1>5, <2>3, <2>4, <2>5 DEF Asks
<1> QED
  BY <1>2, <1>3, <1>4, <1>5 DEF Effect

\* Cold::Dropped and Measured::hot: of commands that are given one after
\* another, the first run of a query found nothing in the page cache where that
\* was dropped, and no run behind the hot column read the disk but for bytes
\* that the machine had taken back.
THEOREM ColumnsMeanWhatTheySayHolds ==
  ASSUME OneAtATime
  PROVE  RunSpec => []ColumnsMeanWhatTheySay
<1>1. RunInit => ColumnsInv
  <2> SUFFICES ASSUME RunInit PROVE ColumnsInv
    OBVIOUS
  <2>1. RunInv
    BY RunStarts
  <2>2. Turns /\ \A r \in Runner : Columns(r)
    BY DEF RunInit, Turns, Columns, Idle
  <2> QED
    BY <2>1, <2>2 DEF ColumnsInv
<1>2. ColumnsInv /\ [RunNext]_runVars => ColumnsInv'
  <2> SUFFICES ASSUME ColumnsInv, [RunNext]_runVars PROVE ColumnsInv'
    OBVIOUS
  <2>1. RunInv'
    BY RunKept DEF ColumnsInv
  <2>2. ASSUME NEW r \in Runner, Effect(r) PROVE ColumnsInv'
    <3>1. Turns' /\ Columns(r)' /\ \A s \in Runner \ {r} : Columns(s)'
      BY <2>2, TurnsKept, ColumnsHere, ColumnsElsewhere
    <3> QED
      BY <2>1, <3>1 DEF ColumnsInv
  <2>3. CASE Rests
    <3>1. Turns' /\ \A r \in Runner : Columns(r)'
      BY <2>3 DEF Rests, ColumnsInv, Turns, Columns, Between, Meant, Answered, Idle, Current, Apply, Schedule
    <3> QED
      BY <2>1, <3>1 DEF ColumnsInv
  <2> QED
    BY <2>2, <2>3, StepEffect DEF ColumnsInv, RunInv, Shapes
<1>3. ColumnsInv => ColumnsMeanWhatTheySay
  BY DEF ColumnsInv, Columns, Meant, Fresh, ColumnsMeanWhatTheySay
<1> QED
  BY <1>1, <1>2, <1>3, PTL DEF RunSpec

-----------------------------------------------------------------------------
(* Where answers come from.                                                 *)

LoadInv == RunInv /\ AnsweredFromThisLoad

\* A session that has loaded has the one table there is.
LEMMA LoadedHasAll ==
  ASSUME Session, NEW r \in Runner, loaded[r], NEW q \in Query
  PROVE  Reads(q) \subseteq mine[r]
BY TableAssumption, ReadsAssumption DEF Session

LEMMA LoadKept ==
  ASSUME LoadInv, NEW r \in Runner, Effect(r)
  PROVE  AnsweredFromThisLoad'
<1>1. report[r] \in Seq(Row) /\ Session /\ Session'
  BY DEF LoadInv, RunInv, CommandShape, Effect
<1>2. ASSUME NEW s \in Runner, s # r, NEW i \in 1..Len(report'[s]), Answered(report'[s][i])
      PROVE  Reads(report'[s][i].id) \subseteq mine'[s]
  BY <1>2 DEF Effect, OthersStand, Stands, SessionStays, LoadInv, AnsweredFromThisLoad
<1>3. ASSUME NEW i \in 1..Len(report'[r]), Answered(report'[r][i])
      PROVE  Reads(report'[r][i].id) \subseteq mine'[r]
  <2>1. CASE Quits(r)
    BY <1>3, <2>1 DEF Quits
  <2>2. CASE Moves(r) \/ Evicts(r)
    BY <1>3, <2>2 DEF Moves, Evicts, SessionStays, LoadInv, AnsweredFromThisLoad
  <2>3. CASE Asks(r)
    <3>1. mine'[r] = mine[r] /\ Current(r) \in Query
      BY <2>3 DEF Asks, SessionStays
    <3>2. ASSUME NEW outcome, NEW kept, Pushed(r, outcome, kept), outcome = "answered" => loaded[r]
          PROVE  Reads(report'[r][i].id) \subseteq mine'[r]
      <4> DEFINE row == [id |-> Current(r), cache |-> cold[r], outcome |-> outcome, runs |-> kept]
      <4>1. row.id = Current(r) /\ (Answered(row) => loaded[r])
        BY <3>2 DEF Answered
      <4>2. report'[r] = Append(report[r], row)
        BY <3>2 DEF Pushed
      <4> HIDE DEF row
      <4>3. report'[r][i] = row \/ (i \in 1..Len(report[r]) /\ report'[r][i] = report[r][i])
        BY <1>1, <1>3, <4>2
      <4>4. CASE report'[r][i] = row
        BY <1>1, <1>3, <3>1, <4>1, <4>4, LoadedHasAll
      <4>5. CASE i \in 1..Len(report[r]) /\ report'[r][i] = report[r][i]
        BY <1>3, <3>1, <4>5 DEF LoadInv, AnsweredFromThisLoad
      <4> QED
        BY <4>3, <4>4, <4>5
    <3>3. ASSUME NEW d, NEW from, GoesOn(r, d, from)
          PROVE  Reads(report'[r][i].id) \subseteq mine'[r]
      BY <1>3, <3>1, <3>3 DEF GoesOn, LoadInv, AnsweredFromThisLoad
    <3> QED
      BY <2>3, <3>2, <3>3 DEF Asks
  <2> QED
    BY <2>1, <2>2, <2>3 DEF Effect
<1> QED
  BY <1>2, <1>3 DEF AnsweredFromThisLoad

\* A row is an answer of a system this command started and loaded, even over
\* a directory with the database of an earlier command, or of another that
\* has failed or was killed in it.
THEOREM AnsweredFromThisLoadHolds == RunSpec => []AnsweredFromThisLoad
<1>1. RunInit => LoadInv
  <2> SUFFICES ASSUME RunInit PROVE LoadInv
    OBVIOUS
  <2> QED
    BY RunStarts DEF RunInit, LoadInv, AnsweredFromThisLoad
<1>2. LoadInv /\ [RunNext]_runVars => LoadInv'
  <2> SUFFICES ASSUME LoadInv, [RunNext]_runVars PROVE LoadInv'
    OBVIOUS
  <2>1. RunInv'
    BY RunKept DEF LoadInv
  <2>2. ASSUME NEW r \in Runner, Effect(r) PROVE LoadInv'
    BY <2>1, <2>2, LoadKept DEF LoadInv
  <2>3. CASE Rests
    BY <2>1, <2>3 DEF Rests, sessionVars, LoadInv, AnsweredFromThisLoad, Answered
  <2> QED
    BY <2>2, <2>3, StepEffect DEF LoadInv, RunInv, Shapes
<1>3. LoadInv => AnsweredFromThisLoad
  BY DEF LoadInv
<1> QED
  BY <1>1, <1>2, <1>3, PTL DEF RunSpec
=============================================================================
