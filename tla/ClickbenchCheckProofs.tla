------------------------ MODULE ClickbenchCheckProofs ------------------------
(***************************************************************************)
(* What check and calibrate say of the records they were given, and what   *)
(* the gates of a machine say of a record, for any machines, records,      *)
(* queries, paths and writers, and however many records are named.         *)
(***************************************************************************)
EXTENDS ClickbenchCheck, WellFoundedInduction, FiniteSetTheorems, TLAPS

-----------------------------------------------------------------------------
(* Along a sequence.                                                        *)

\* A set of numbers that has members has a least one.
LEMMA LeastMember ==
  ASSUME NEW T, T \subseteq Nat, T # {}
  PROVE  \E x \in T : \A y \in T : x <= y
<1> DEFINE R == OpToRel(<, Nat)
<1>1. IsWellFoundedOn(R, Nat)
  BY NatLessThanWellFounded, Zenon
<1>2. \A y, x \in Nat : <<y, x>> \in R <=> y < x
  BY Zenon DEF OpToRel
<1> HIDE DEF R
<1>3. PICK x \in T : \A y \in T : ~(<<y, x>> \in R)
  BY <1>1, WFMin, Zenon
<1>4. \A y \in T : ~(y < x)
  BY <1>2, <1>3, Zenon
<1> QED
  BY <1>4

\* Induction from m on, over the set of the numbers it is to show something of.
LEMMA UpTo ==
  ASSUME NEW m \in Nat, NEW n \in Nat, NEW T, m \in T,
         \A i \in m..(n - 1) : i \in T => i + 1 \in T
  PROVE  m..n \subseteq T
<1> SUFFICES ASSUME ~(m..n \subseteq T) PROVE FALSE
  OBVIOUS
<1> DEFINE Left == {i \in m..n : i \notin T}
<1>1. Left \subseteq Nat /\ Left # {}
  OBVIOUS
<1>2. PICK least \in Left : \A i \in Left : least <= i
  BY <1>1, LeastMember
<1>3. least # m /\ least - 1 \in m..(n - 1) /\ least - 1 \notin Left
  BY <1>1, <1>2
<1> QED
  BY <1>2, <1>3

\* What neighbours have in common, all have.
LEMMA NeighboursAlike ==
  ASSUME NEW n \in Nat, NEW f, \A i \in 1..(n - 1) : f[i] = f[i + 1]
  PROVE  \A i, j \in 1..n : f[i] = f[j]
<1> DEFINE Alike == {i \in 1..n : f[i] = f[1]}
<1>1. CASE n # 0
  <2>1. 1 \in Alike /\ \A i \in 1..(n - 1) : i \in Alike => i + 1 \in Alike
    BY <1>1
  <2> HIDE DEF Alike
  <2>2. 1..n \subseteq Alike
    BY <2>1, UpTo
  <2> QED
    BY <2>2 DEF Alike
<1> QED
  BY <1>1

-----------------------------------------------------------------------------
(* Machines: what Capture::require says of one it lets through.             *)

\* A machine none of whose listed processors is offline.
AllOnline(m) == m.allowed \subseteq 0..(m.online - 1)

\* Capture::require(Durations): the ceiling is only reached past the gates, and
\* only a workstation whose three settings were read has it.
LEMMA DurationsPass ==
  ASSUME NEW m, NEW doing, Require(CaptureOf(m, doing), "durations") = "ok"
  PROVE  /\ \A gate \in GateSet(Facts(m), Observe(m, doing)) : gate.passed
         /\ Ceiling(Facts(m)) \notin {"nothing", "ratios"}
<1> DEFINE capture == CaptureOf(m, doing)
<1>1. ~GateFailed(capture)
  BY DEF Require
<1>2. ~Weaker(capture.ceiling, "durations")
  BY <1>1 DEF Require
<1>3. capture.gates = GateSet(Facts(m), Observe(m, doing)) /\ capture.ceiling = Ceiling(Facts(m))
  BY DEF CaptureOf
<1> QED
  BY <1>1, <1>2, <1>3 DEF GateFailed, Weaker

\* Capture::ceiling permits durations only where the settings of a workstation were read.
LEMMA DurationsReadTheWorkstation ==
  ASSUME NEW facts, Ceiling(facts) \notin {"nothing", "ratios"}
  PROVE  /\ Classify(facts) = "B" /\ facts.hypervisor # "wsl"
         /\ facts.governor # {} /\ facts.turbo # {} /\ facts.affinity # {}
BY DEF Ceiling

\* workstation_gates: every reading there is of a setting is asked.
LEMMA GatesOfSettings ==
  ASSUME NEW facts, \A gate \in WorkstationGates(facts) : gate.passed
  PROVE  /\ \A governor \in facts.governor : SteadyScheme(facts, governor)
         /\ \A turbo \in facts.turbo : turbo = "off"
         /\ \A allowed \in facts.affinity : Pinned(facts, allowed)
<1>1. ASSUME NEW governor \in facts.governor PROVE SteadyScheme(facts, governor)
  <2> DEFINE gate == GateOf(IF facts.os = "windows" THEN "power-scheme" ELSE "frequency-governor",
                            SteadyScheme(facts, governor))
  <2>1. gate \in WorkstationGates(facts)
    BY DEF WorkstationGates
  <2> QED
    BY <2>1 DEF GateOf
<1>2. ASSUME NEW turbo \in facts.turbo PROVE turbo = "off"
  <2> DEFINE gate == GateOf("turbo", turbo = "off")
  <2>1. gate \in WorkstationGates(facts)
    BY DEF WorkstationGates
  <2> QED
    BY <2>1 DEF GateOf
<1>3. ASSUME NEW allowed \in facts.affinity PROVE Pinned(facts, allowed)
  <2> DEFINE gate == GateOf("core-pinning", Pinned(facts, allowed))
  <2>1. gate \in WorkstationGates(facts)
    BY DEF WorkstationGates
  <2> QED
    BY <2>1 DEF GateOf
<1> QED
  BY <1>1, <1>2, <1>3

\* What is good for durations is the workstation, on Linux and not under WSL,
\* with boost off, its first processor held at one clock, and so are all that
\* the run may use when they are governed alike, with the run restricted where
\* there is a choice and nothing else at work: no reading, class or gate in
\* between lets anything else through.
THEOREM DurationsMeanSteady ==
  ASSUME NEW m, NEW doing, AllOnline(m),
         Require(CaptureOf(m, doing), "durations") = "ok"
  PROVE  /\ m.cpu = "i9-13900K" /\ m.os = "linux" /\ m.under # "wsl"
         /\ "performance" \in m.governor[0] /\ (GovernedAlike(m) => ClockIsHeld(m)) /\ ~m.boosting
         /\ m.online # 1 => IsRestricted(m)
         /\ doing.busy = 0
<1> DEFINE facts == Facts(m)
           seen == Observe(m, doing)
<1>1. \A gate \in GateSet(facts, seen) : gate.passed
  BY DurationsPass
<1>2. /\ Classify(facts) = "B" /\ facts.hypervisor # "wsl"
      /\ facts.governor # {} /\ facts.turbo # {} /\ facts.affinity # {}
  BY DurationsPass, DurationsReadTheWorkstation
<1>3. /\ facts.os = m.os /\ facts.cpu = m.cpu /\ facts.cpus = m.online
      /\ facts.hypervisor = Hypervisor(m) /\ facts.governor = Governor(m)
      /\ facts.turbo = Turbo(m) /\ facts.affinity = Affinity(m)
  BY DEF Facts
<1> HIDE DEF facts, seen
<1>4. m.os = "linux" /\ facts.affinity = {m.allowed} /\ facts.governor = m.governor[0]
  BY <1>2, <1>3 DEF Affinity, Governor
<1>5. m.cpu = "i9-13900K" /\ m.under # "wsl"
  BY <1>2, <1>3, <1>4 DEF Classify, Hypervisor
<1>6. \A gate \in WorkstationGates(facts) : gate.passed
  BY <1>1, <1>2 DEF GateSet
<1>7. "performance" \in m.governor[0] /\ (GovernedAlike(m) => ClockIsHeld(m))
  <2>1. PICK governor \in facts.governor : TRUE
    BY <1>2
  <2>2. SteadyScheme(facts, governor)
    BY <1>6, GatesOfSettings
  <2> QED
    BY <1>3, <1>4, <2>1, <2>2 DEF SteadyScheme, GovernedAlike, ClockIsHeld
<1>8. ~m.boosting
  <2>1. PICK turbo \in facts.turbo : TRUE
    BY <1>2
  <2>2. turbo = "off"
    BY <1>6, GatesOfSettings
  <2> QED
    BY <1>3, <1>4, <2>1, <2>2 DEF Turbo, NoTurboFile, BoostFile
<1>9. m.allowed # {} /\ (m.online = 1 \/ m.allowed # 0..(m.online - 1))
  BY <1>3, <1>4, <1>6, GatesOfSettings DEF Pinned
<1>10. doing.busy = 0
  <2>1. BusyProcesses(seen).passed
    BY <1>1 DEF GateSet
  <2>2. seen.busy = doing.busy
    BY DEF seen, Observe
  <2> QED
    BY <2>1, <2>2 DEF BusyProcesses, GateOf
<1>11. m.online # 1 => IsRestricted(m)
  BY <1>9 DEF AllOnline, IsRestricted
<1> QED
  BY <1>4, <1>5, <1>7, <1>8, <1>10, <1>11

-----------------------------------------------------------------------------
(* Records: what was read, and what came of it.                             *)

\* What is read is a record some run wrote, and what is graded was fit.
GradedInv ==
  /\ file \in [Path -> Records \cup {Torn}]
  /\ named \in Seq(Path)
  /\ taken \in Seq(Records)
  /\ Graded /\ ~command.anyway => \A i \in 1..Len(taken) : ~Unfit(taken[i])

\* At first nothing is read and nothing graded.
LEMMA GradedInit == CheckInit => GradedInv
<1> SUFFICES ASSUME CheckInit PROVE GradedInv
  OBVIOUS
<1>1. named \in Seq(Path)
  BY DEF CheckInit, SeqOf
<1>2. taken \in Seq(Records)
  BY DEF CheckInit
<1> QED
  BY <1>1, <1>2 DEF CheckInit, GradedInv, Graded

\* Every step keeps it: what is appended was read, what is graded was not refused.
LEMMA GradedStep == GradedInv /\ [CheckNext]_checkVars => GradedInv'
<1> SUFFICES ASSUME GradedInv, [CheckNext]_checkVars PROVE GradedInv'
  OBVIOUS
<1> USE DEF GradedInv
<1>1. CASE WriteRecord
  BY <1>1 DEF WriteRecord, Graded
<1>2. CASE ReadNext
  <2> DEFINE content == file[named[Len(taken) + 1]]
  <2>1. verdict = "none" /\ Len(taken) < Len(named)
    BY <1>2 DEF ReadNext
  <2>2. named[Len(taken) + 1] \in Path
    BY <2>1
  <2>3. content \in Records \cup {Torn}
    BY <2>2
  <2>4. taken' \in Seq(Records)
    <3>1. CASE content = Torn
      BY <1>2, <3>1 DEF ReadNext
    <3>2. CASE content # Torn
      BY <1>2, <2>3, <3>2 DEF ReadNext
    <3> QED
      BY <3>1, <3>2
  <2>5. ~Graded'
    BY <1>2, <2>1 DEF ReadNext, Graded
  <2> QED
    BY <1>2, <2>4, <2>5 DEF ReadNext
<1>3. CASE Check
  BY <1>3 DEF Check, Graded
<1>4. CASE Calibrate
  <2>1. ASSUME Graded', ~command'.anyway
        PROVE  \A i \in 1..Len(taken') : ~Unfit(taken'[i])
    BY <1>4, <2>1 DEF Calibrate, Refuses, Graded
  <2> QED
    BY <1>4, <2>1 DEF Calibrate
<1>5. CASE UNCHANGED checkVars
  BY <1>5 DEF checkVars, Graded
<1> QED
  BY <1>1, <1>2, <1>3, <1>4, <1>5 DEF CheckNext

\* A record that says it was not refused was let through by its gates.
LEMMA FitRecordsAreSteady ==
  ASSUME \A taking \in Takings : AllOnline(taking.machine),
         NEW record \in Records, ~Unfit(record)
  PROVE  LET m == record.machine IN
         /\ m.cpu = "i9-13900K" /\ m.under # "wsl"
         /\ "performance" \in m.governor[0] /\ (GovernedAlike(m) => ClockIsHeld(m)) /\ ~m.boosting
         /\ record.doing.busy = 0
         /\ m.online # 1 => IsRestricted(m)
<1>1. PICK taking \in Takings : record = Record(taking)
  BY DEF Records
<1>2. record.machine = taking.machine /\ record.doing = taking.doing
  BY <1>1 DEF Record
<1>3. record.conditions.refused = (Asked(taking) # "ok")
  BY <1>1 DEF Record
<1>4. Require(CaptureOf(taking.machine, taking.doing), "durations") = "ok"
  BY <1>3 DEF Unfit, Asked
<1> QED
  BY <1>2, <1>4, DurationsMeanSteady

\* Nothing is graded, unless somebody asked for it, that was not taken on the
\* workstation with the clock of its first processor held steady, and so of all
\* it may use when they are governed alike, its run restricted to some of its
\* processors where there are several and nothing else at work, as long as no
\* processor a run may use is offline.
THEOREM GradedWasSteadyHolds ==
  ASSUME \A taking \in Takings : AllOnline(taking.machine)
  PROVE  CheckSpec => []GradedWasSteady
<1>1. GradedInv => GradedWasSteady
  <2> SUFFICES ASSUME GradedInv, Graded, ~command.anyway,
                      NEW i \in 1..Len(taken)
               PROVE  LET m == taken[i].machine IN
                      /\ m.cpu = "i9-13900K" /\ m.under # "wsl"
                      /\ "performance" \in m.governor[0] /\ (GovernedAlike(m) => ClockIsHeld(m)) /\ ~m.boosting
                      /\ taken[i].doing.busy = 0
                      /\ m.online # 1 => IsRestricted(m)
    BY DEF GradedWasSteady
  <2>1. taken[i] \in Records /\ ~Unfit(taken[i])
    BY DEF GradedInv
  <2> QED
    BY <2>1, FitRecordsAreSteady
<1> QED
  BY <1>1, GradedInit, GradedStep, PTL DEF CheckSpec

-----------------------------------------------------------------------------
(* check: one answer to a query, or two.                                    *)

\* What a run said of a query is among the digests of it.
LEMMA DigestIsOne ==
  ASSUME taken \in Seq(Records), NEW q \in Query, NEW i \in 1..Len(taken), NEW k \in 1..Len(taken[i].runs[q])
  PROVE  taken[i].runs[q][k] \in DigestsOf(q) /\ 1 \in 1..Len(taken[i].runs[q])
<1>1. taken[i].runs[q] \in Seq(Nat)
  BY TakingsAssumption DEF Records, Record
<1>2. 1 \in 1..Len(taken[i].runs[q])
  BY <1>1
<1>3. taken[i].runs[q][k] \in {taken[i].runs[q][j] : j \in 1..Len(taken[i].runs[q])}
  OBVIOUS
<1> QED
  BY <1>2, <1>3 DEF DigestsOf

\* And the other way round, of a record that has a reading of the query.
LEMMA DigestIsSomeones ==
  ASSUME taken \in Seq(Records), NEW q \in Query, NEW d \in DigestsOf(q)
  PROVE  \E i \in Readings(taken, q) : \E k \in 1..Len(taken[i].runs[q]) : d = taken[i].runs[q][k]
<1>1. PICK i \in 1..Len(taken) : \E k \in 1..Len(taken[i].runs[q]) : d = taken[i].runs[q][k]
  BY DEF DigestsOf
<1>2. taken[i].runs[q] \in Seq(Nat)
  BY TakingsAssumption DEF Records, Record
<1>3. taken[i].runs[q] # <<>>
  BY <1>1, <1>2
<1> QED
  BY <1>1, <1>3 DEF Readings, Answered

\* A query nothing is said against has one answer: the runs of a record are
\* its first, and the first runs of the records are the first record's.
LEMMA UndisputedIsOne ==
  ASSUME taken \in Seq(Records), NEW q \in Query, q \notin Disagreed(taken) \cup Unstable(taken),
         NEW d \in DigestsOf(q), NEW e \in DigestsOf(q)
  PROVE  d = e
<1>1. PICK i \in Readings(taken, q) : \E k \in 1..Len(taken[i].runs[q]) : d = taken[i].runs[q][k]
  BY DigestIsSomeones
<1>2. PICK j \in Readings(taken, q) : \E k \in 1..Len(taken[j].runs[q]) : e = taken[j].runs[q][k]
  BY DigestIsSomeones
<1>3. \A one \in Readings(taken, q) : one \in 1..Len(taken) /\ Steady(taken[one], q)
  BY DEF Readings, Unstable
<1>4. d = DigestOf(taken[i], q) /\ e = DigestOf(taken[j], q)
  BY <1>1, <1>2, <1>3 DEF Steady, DigestOf
<1>5. CASE i # j
  <2>1. Compared(taken, q)
    BY <1>5 DEF Compared
  <2>2. Same(taken, q)
    BY <2>1 DEF Disagreed
  <2> QED
    BY <1>4, <2>2 DEF Same
<1> QED
  BY <1>4, <1>5

\* A query something is said against has two: of a run and the first of its
\* record, or of a record and the first that answered.
LEMMA DisputedIsTwo ==
  ASSUME taken \in Seq(Records), NEW q \in Disagreed(taken) \cup Unstable(taken)
  PROVE  \E d, e \in DigestsOf(q) : d # e
<1>1. CASE q \in Unstable(taken)
  <2>1. PICK i \in 1..Len(taken) : ~Steady(taken[i], q)
    BY <1>1 DEF Unstable
  <2>2. PICK k \in 1..Len(taken[i].runs[q]) : taken[i].runs[q][k] # taken[i].runs[q][1]
    BY <2>1 DEF Steady
  <2> QED
    BY <1>1, <2>2, DigestIsOne DEF Unstable
<1>2. CASE q \in Disagreed(taken)
  <2>1. q \in Query /\ ~Same(taken, q) /\ Readings(taken, q) # {}
    BY <1>2 DEF Disagreed, Compared
  <2>2. Readings(taken, q) \subseteq Nat
    BY DEF Readings
  <2>3. PICK first \in Readings(taken, q) : \A i \in Readings(taken, q) : first <= i
    BY <2>1, <2>2, LeastMember
  <2>4. PICK i \in Readings(taken, q) : DigestOf(taken[i], q) # DigestOf(taken[first], q)
    BY <2>1, <2>3 DEF Same
  <2>5. ASSUME NEW one \in Readings(taken, q)
        PROVE  DigestOf(taken[one], q) \in DigestsOf(q)
    <3>1. one \in 1..Len(taken) /\ taken[one].runs[q] # <<>>
      BY DEF Readings, Answered
    <3>2. taken[one].runs[q] \in Seq(Nat)
      BY <2>1, <3>1, TakingsAssumption DEF Records, Record
    <3>3. 1 \in 1..Len(taken[one].runs[q])
      BY <3>1, <3>2
    <3> QED
      BY <2>1, <3>1, <3>3, DigestIsOne DEF DigestOf
  <2> QED
    BY <2>4, <2>5
<1> QED
  BY <1>1, <1>2

\* The two answers of the check, beside what they are answers about.
AnswersInv == GradedInv /\ PassedMeansOneAnswer /\ FailedMeansTwoAnswers

\* Only the comparison answers, and it does once.
LEMMA AnswersKept == AnswersInv /\ [CheckNext]_checkVars => AnswersInv'
<1> SUFFICES ASSUME AnswersInv, [CheckNext]_checkVars PROVE AnswersInv'
  OBVIOUS
<1>1. GradedInv' /\ taken \in Seq(Records)
  BY GradedStep DEF AnswersInv, GradedInv
<1>2. CASE Check
  <2>1. taken' = taken /\ \A q : DigestsOf(q)' = DigestsOf(q)
    BY <1>2 DEF Check, DigestsOf
  <2>2. CASE verdict' = "agreed"
    <3>1. \A q \in Disagreed(taken) \cup Unstable(taken) : ~Determined(q)
      BY <1>2, <2>2 DEF Check
    <3>2. PassedMeansOneAnswer'
      BY <1>1, <2>1, <3>1, UndisputedIsOne DEF PassedMeansOneAnswer
    <3> QED
      BY <1>1, <2>2, <3>2 DEF AnswersInv, FailedMeansTwoAnswers
  <2>3. CASE verdict' = "disagreed"
    <3>1. PICK q \in Disagreed(taken) \cup Unstable(taken) : Determined(q)
      BY <1>2, <2>3 DEF Check
    <3>2. q \in Query /\ \E d, e \in DigestsOf(q) : d # e
      BY <1>1, DisputedIsTwo DEF Disagreed, Unstable
    <3>3. FailedMeansTwoAnswers'
      BY <2>1, <3>1, <3>2 DEF FailedMeansTwoAnswers
    <3> QED
      BY <1>1, <2>3, <3>3 DEF AnswersInv, PassedMeansOneAnswer
  <2> QED
    BY <1>2, <2>2, <2>3 DEF Check
<1>3. ASSUME verdict' \notin {"agreed", "disagreed"}
      PROVE  AnswersInv'
  BY <1>1, <1>3 DEF AnswersInv, PassedMeansOneAnswer, FailedMeansTwoAnswers
<1>4. ASSUME UNCHANGED <<taken, verdict>>
      PROVE  AnswersInv'
  <2>1. \A q : DigestsOf(q)' = DigestsOf(q)
    BY <1>4 DEF DigestsOf
  <2> QED
    BY <1>1, <1>4, <2>1 DEF AnswersInv, PassedMeansOneAnswer, FailedMeansTwoAnswers
<1>5. CASE WriteRecord
  BY <1>4, <1>5 DEF WriteRecord
<1>6. CASE ReadNext
  BY <1>3, <1>6 DEF ReadNext
<1>7. CASE Calibrate
  <2>1. Grade(taken, command.column) \in {"incomparable", "inside", "outside"}
    BY DEF Grade
  <2>2. verdict' = "refused" \/ verdict' = Grade(taken, command.column)
    BY <1>7 DEF Calibrate
  <2> QED
    BY <1>3, <2>1, <2>2
<1>8. CASE UNCHANGED checkVars
  BY <1>4, <1>8 DEF checkVars
<1> QED
  BY <1>2, <1>5, <1>6, <1>7, <1>8 DEF CheckNext

\* Both answers hold of what was read, whoever writes over the files.
LEMMA AnswersHold == CheckSpec => []AnswersInv
<1>1. CheckInit => AnswersInv
  <2> SUFFICES ASSUME CheckInit PROVE AnswersInv
    OBVIOUS
  <2> QED
    BY GradedInit DEF CheckInit, AnswersInv, PassedMeansOneAnswer, FailedMeansTwoAnswers
<1> QED
  BY <1>1, AnswersKept, PTL DEF CheckSpec

\* agree: "Timings are worth nothing until this passes": a check that passes
\* has seen one answer to every query that has one, in all runs of all
\* records, however many were named and whoever wrote over them meanwhile.
THEOREM PassedMeansOneAnswerHolds == CheckSpec => []PassedMeansOneAnswer
<1>1. AnswersInv => PassedMeansOneAnswer
  BY DEF AnswersInv
<1> QED
  BY <1>1, AnswersHold, PTL

\* And one that fails has seen two answers to such a query.
THEOREM FailedMeansTwoAnswersHolds == CheckSpec => []FailedMeansTwoAnswers
<1>1. AnswersInv => FailedMeansTwoAnswers
  BY DEF AnswersInv
<1> QED
  BY <1>1, AnswersHold, PTL

-----------------------------------------------------------------------------
(* calibrate: one fit machine.                                              *)

\* Records calibrate does not refuse are of one environment.
LEMMA UnrefusedAreAlike ==
  ASSUME NEW records \in Seq(Records), ~Refuses(records),
         NEW i \in 1..Len(records), NEW j \in 1..Len(records)
  PROVE  Facts(records[i].machine) = Facts(records[j].machine)
<1> DEFINE environments == [k \in 1..Len(records) |-> records[k].environment]
<1>1. Len(records) \in Nat
  OBVIOUS
<1>2. \A k \in 1..(Len(records) - 1) : records[k].environment = records[k + 1].environment
  BY DEF Refuses
<1>3. \A k \in 1..(Len(records) - 1) : environments[k] = environments[k + 1]
  BY <1>1, <1>2
<1>4. environments[i] = records[i].environment /\ environments[j] = records[j].environment
  OBVIOUS
<1> HIDE DEF environments
<1>5. environments[i] = environments[j]
  BY <1>1, <1>3, NeighboursAlike
<1>6. ASSUME NEW k \in 1..Len(records)
      PROVE  records[k].environment[2] = Facts(records[k].machine)
  BY DEF Records, Record, Hash, CaptureOf
<1> QED
  BY <1>4, <1>5, <1>6

\* What is graded is of one machine, beside what the command knows.
OneMachineInv == GradedInv /\ GradedIsOneFitMachine

\* Only calibrate grades, behind its comparison of neighbours.
LEMMA OneMachineKept == OneMachineInv /\ [CheckNext]_checkVars => OneMachineInv'
<1> SUFFICES ASSUME OneMachineInv, [CheckNext]_checkVars PROVE OneMachineInv'
  OBVIOUS
<1>1. GradedInv' /\ taken \in Seq(Records)
  BY GradedStep DEF OneMachineInv, GradedInv
<1>2. CASE Calibrate
  <2>1. taken' = taken /\ command' = command /\ (Graded' => ~Refuses(taken))
    BY <1>2 DEF Calibrate, Graded
  <2>2. ASSUME Graded', NEW i \in 1..Len(taken), NEW j \in 1..Len(taken)
        PROVE  Facts(taken[i].machine) = Facts(taken[j].machine)
    BY <1>1, <2>1, <2>2, UnrefusedAreAlike
  <2>3. ASSUME Graded', ~command.anyway, NEW i \in 1..Len(taken), NEW j \in 1..Len(taken)
        PROVE  /\ taken[i].conditions.known /\ ~taken[i].conditions.refused
               /\ taken[i].conditions.given = taken[j].conditions.given
    <3>1. ~Unfit(taken[i]) /\ ~Unfit(taken[j])
      BY <2>1, <2>3 DEF Refuses
    <3>2. i \in Given(taken) /\ j \in Given(taken)
      BY <3>1 DEF Given, Unfit
    <3> QED
      BY <2>1, <2>3, <3>1, <3>2 DEF Refuses, Unfit
  <2> QED
    BY <1>1, <2>1, <2>2, <2>3 DEF OneMachineInv, GradedIsOneFitMachine
<1>3. ASSUME ~Graded'
      PROVE  OneMachineInv'
  BY <1>1, <1>3 DEF OneMachineInv, GradedIsOneFitMachine
<1>4. ASSUME UNCHANGED <<taken, verdict, command>>
      PROVE  OneMachineInv'
  BY <1>1, <1>4 DEF OneMachineInv, GradedIsOneFitMachine, Graded
<1>5. CASE WriteRecord
  BY <1>4, <1>5 DEF WriteRecord
<1>6. CASE ReadNext
  BY <1>3, <1>6 DEF ReadNext, Graded
<1>7. CASE Check
  BY <1>3, <1>7 DEF Check, Graded
<1>8. CASE UNCHANGED checkVars
  BY <1>4, <1>8 DEF checkVars
<1> QED
  BY <1>2, <1>5, <1>6, <1>7, <1>8 DEF CheckNext

\* calibrate, "this refuses to grade a run that did not pass": whatever is
\* graded is of one machine, neighbour by neighbour in the order the records
\* were named, and without --anyway of gates that passed and systems given alike.
THEOREM GradedIsOneFitMachineHolds == CheckSpec => []GradedIsOneFitMachine
<1>1. CheckInit => OneMachineInv
  <2> SUFFICES ASSUME CheckInit PROVE OneMachineInv
    OBVIOUS
  <2> QED
    BY GradedInit DEF CheckInit, OneMachineInv, GradedIsOneFitMachine, Graded
<1>2. OneMachineInv => GradedIsOneFitMachine
  BY DEF OneMachineInv
<1> QED
  BY <1>1, <1>2, OneMachineKept, PTL DEF CheckSpec

-----------------------------------------------------------------------------
(* Folds over finite sets: the functions Folds.tla defines them by exist,   *)
(* and what holds of them follows one member at a time.                     *)

\* What a fold takes out of a set.
One(s) == CHOOSE x \in s : TRUE

\* A set is one larger than what is left of it.
LEMMA OneLess ==
  ASSUME NEW S, IsFiniteSet(S), NEW s \in SUBSET S, s # {}
  PROVE  /\ One(s) \in s /\ s \ {One(s)} \in SUBSET S
         /\ Cardinality(s) \in Nat \ {0} /\ Cardinality(s \ {One(s)}) = Cardinality(s) - 1
<1>1. One(s) \in s
  BY DEF One
<1>2. IsFiniteSet(s)
  BY FS_Subset
<1>3. Cardinality(s) \in Nat /\ Cardinality(s) # 0
  BY <1>2, FS_CardinalityType, FS_EmptySet
<1>4. Cardinality(s \ {One(s)}) = Cardinality(s) - 1
  BY <1>1, <1>2, FS_RemoveElement
<1> QED
  BY <1>1, <1>3, <1>4

\* What holds of no members, and of a set when it does of one less, holds.
LEMMA OneByOne ==
  ASSUME NEW S, IsFiniteSet(S), NEW T, {} \in T,
         \A s \in SUBSET S : s # {} /\ s \ {One(s)} \in T => s \in T
  PROVE  \A s \in SUBSET S : s \in T
<1> SUFFICES ASSUME NEW t \in SUBSET S, t \notin T PROVE FALSE
  OBVIOUS
<1> DEFINE Sizes == {n \in Nat : \E s \in SUBSET S : s \notin T /\ Cardinality(s) = n}
<1>1. \A s \in SUBSET S : Cardinality(s) \in Nat
  BY FS_Subset, FS_CardinalityType
<1>2. Sizes \subseteq Nat /\ Cardinality(t) \in Sizes
  BY <1>1
<1>3. PICK least \in Sizes : \A n \in Sizes : least <= n
  BY <1>2, LeastMember
<1>4. PICK s \in SUBSET S : s \notin T /\ Cardinality(s) = least
  BY <1>3
<1>5. s # {} /\ s \ {One(s)} \notin T
  BY <1>4
<1>6. s \ {One(s)} \in SUBSET S /\ Cardinality(s \ {One(s)}) = least - 1 /\ least \in Nat
  BY <1>4, <1>5, OneLess
<1>7. least - 1 \in Sizes
  BY <1>1, <1>5, <1>6
<1> QED
  BY <1>3, <1>6, <1>7

\* h goes through the subsets of S as a fold does.
Steps(h, step, base, S) ==
  \A s \in S : h[s] = IF s = {} THEN base ELSE step[One(s)][h[s \ {One(s)}]]

\* The subsets of at most n members.
Smaller(S, n) == {s \in SUBSET S : Cardinality(s) <= n}

\* As far as n members there is a function that goes as a fold does.
LEMMA FoldsSoFar ==
  ASSUME NEW S, IsFiniteSet(S), NEW V, NEW base \in V, NEW step \in [S -> [V -> V]], NEW n \in Nat
  PROVE  \E h \in [Smaller(S, n) -> V] : Steps(h, step, base, Smaller(S, n))
<1> DEFINE T == {k \in Nat : \E h \in [Smaller(S, k) -> V] : Steps(h, step, base, Smaller(S, k))}
<1>0. \A s \in SUBSET S : Cardinality(s) \in Nat /\ (Cardinality(s) = 0 => s = {})
  BY FS_Subset, FS_CardinalityType, FS_EmptySet
<1>1. 0 \in T
  <2>1. \A s \in Smaller(S, 0) : s = {}
    BY <1>0 DEF Smaller
  <2>2. [s \in Smaller(S, 0) |-> base] \in [Smaller(S, 0) -> V]
    OBVIOUS
  <2>3. Steps([s \in Smaller(S, 0) |-> base], step, base, Smaller(S, 0))
    BY <2>1 DEF Steps
  <2> QED
    BY <2>2, <2>3
<1>2. ASSUME NEW k \in T
      PROVE  k + 1 \in T
  <2>1. PICK g \in [Smaller(S, k) -> V] : Steps(g, step, base, Smaller(S, k))
    OBVIOUS
  <2> DEFINE h == [s \in Smaller(S, k + 1) |-> IF s = {} THEN base ELSE step[One(s)][g[s \ {One(s)}]]]
  <2>2. \A s \in Smaller(S, k + 1) : s # {} =>
          One(s) \in S /\ s \ {One(s)} \in Smaller(S, k) /\ s \ {One(s)} \in Smaller(S, k + 1)
    BY <1>0, OneLess DEF Smaller
  <2>3. \A s \in Smaller(S, k + 1) : h[s] \in V
    BY <2>2
  <2>4. \A s \in Smaller(S, k) : s \in Smaller(S, k + 1)
    BY <1>0 DEF Smaller
  <2>5. \A s \in Smaller(S, k) : g[s] = h[s]
    BY <2>1, <2>4 DEF Steps
  <2>6. Steps(h, step, base, Smaller(S, k + 1))
    BY <2>2, <2>5 DEF Steps
  <2>7. h \in [Smaller(S, k + 1) -> V]
    BY <2>3
  <2> HIDE DEF h
  <2>8. \E some \in [Smaller(S, k + 1) -> V] : Steps(some, step, base, Smaller(S, k + 1))
    BY <2>6, <2>7
  <2> QED
    BY <2>8
<1>3. \A k \in 0..(n - 1) : k \in T => k + 1 \in T
  BY <1>2
<1> HIDE DEF T
<1>4. 0..n \subseteq T
  BY <1>1, <1>3, UpTo
<1> QED
  BY <1>4 DEF T

\* Over a finite set there is the function a fold is defined to be.
LEMMA FoldIs ==
  ASSUME NEW S, IsFiniteSet(S), NEW V, NEW base \in V, NEW step \in [S -> [V -> V]]
  PROVE  \E h \in [SUBSET S -> V] : Steps(h, step, base, SUBSET S)
<1>1. Cardinality(S) \in Nat /\ Smaller(S, Cardinality(S)) = SUBSET S
  BY FS_CardinalityType, FS_Subset DEF Smaller
<1>2. \E h \in [Smaller(S, Cardinality(S)) -> V] : Steps(h, step, base, Smaller(S, Cardinality(S)))
  BY <1>1, FoldsSoFar, Zenon
<1> QED
  BY <1>1, <1>2

\* h has the sum of f over every subset of S.
Sums(h, f, S) ==
  /\ h \in [SUBSET S -> Int] /\ h[{}] = 0
  /\ \A s \in SUBSET S : s # {} => h[s] = f[One(s)] + h[s \ {One(s)}]

\* The sum of a function of integers is one of those.
LEMMA SumIs ==
  ASSUME NEW f, NEW S, DOMAIN f = S, IsFiniteSet(S), \A x \in S : f[x] \in Int
  PROVE  \E h : Sums(h, f, S) /\ SumFunction(f) = h[S]
<1> DEFINE Is(h) == h = [s \in SUBSET S |-> IF s = {} THEN 0 ELSE f[One(s)] + h[s \ {One(s)}]]
<1>1. PICK step \in [S -> [Int -> Int]] : \A x \in S : \A v \in Int : step[x][v] = f[x] + v
  <2> DEFINE step == [x \in S |-> [v \in Int |-> f[x] + v]]
  <2>1. step \in [S -> [Int -> Int]] /\ \A x \in S : \A v \in Int : step[x][v] = f[x] + v
    OBVIOUS
  <2> HIDE DEF step
  <2> QED
    BY <2>1
<1>2. 0 \in Int
  OBVIOUS
<1>3. PICK h \in [SUBSET S -> Int] : Steps(h, step, 0, SUBSET S)
  BY <1>1, <1>2, FoldIs
<1>4. ASSUME NEW s \in SUBSET S, s # {}
      PROVE  step[One(s)][h[s \ {One(s)}]] = f[One(s)] + h[s \ {One(s)}]
  <2>1. One(s) \in S /\ s \ {One(s)} \in SUBSET S
    BY <1>4, OneLess
  <2>2. h[s \ {One(s)}] \in Int
    BY <2>1
  <2> QED
    BY <1>1, <2>1, <2>2
<1>5. Is(h)
  BY <1>3, <1>4 DEF Steps
<1> DEFINE it == CHOOSE g : Is(g)
<1>6. Is(it)
  <2> HIDE DEF Is
  <2> QED
    BY <1>5
<1>7. SumFunction(f) = it[S]
  BY DEF SumFunction, SumFunctionOnSet, FoldFunctionOnSet, MapThenFoldSet, One
<1> HIDE DEF it
<1>8. /\ DOMAIN it = SUBSET S /\ it[{}] = 0
      /\ \A s \in SUBSET S : s # {} => it[s] = f[One(s)] + it[s \ {One(s)}]
  BY <1>6
<1>9. \A s \in SUBSET S : it[s] \in Int
  <2> DEFINE T == {s \in SUBSET S : it[s] \in Int}
  <2>1. {} \in T
    BY <1>8
  <2>2. ASSUME NEW s \in SUBSET S, s # {}, s \ {One(s)} \in T
        PROVE  s \in T
    <3>1. One(s) \in S
      BY <2>2, OneLess
    <3> QED
      BY <1>8, <2>2, <3>1
  <2> HIDE DEF T
  <2>3. \A s \in SUBSET S : s \in T
    BY <2>1, <2>2, OneByOne
  <2> QED
    BY <2>3 DEF T
<1> QED
  <2>1. it \in [SUBSET S -> Int]
    BY <1>6, <1>9
  <2> QED
    BY <1>7, <1>8, <2>1 DEF Sums

\* h has the product of f over every subset of S.
Products(h, f, S) ==
  /\ h \in [SUBSET S -> Nat \ {0}]
  /\ \A s \in SUBSET S : s # {} => h[s] = f[One(s)] * h[s \ {One(s)}]

\* The product of a function of positive numbers is one of those.
LEMMA ProductIs ==
  ASSUME NEW f, NEW S, DOMAIN f = S, IsFiniteSet(S), \A x \in S : f[x] \in Nat \ {0}
  PROVE  \E h : Products(h, f, S) /\ Product(f) = h[S]
<1> DEFINE Is(h) == h = [s \in SUBSET S |-> IF s = {} THEN 1 ELSE f[One(s)] * h[s \ {One(s)}]]
<1>0. \A m, n \in Nat \ {0} : m * n \in Nat \ {0}
  OBVIOUS
<1>1. PICK step \in [S -> [Nat \ {0} -> Nat \ {0}]] :
        \A x \in S : \A v \in Nat \ {0} : step[x][v] = f[x] * v
  <2> DEFINE step == [x \in S |-> [v \in Nat \ {0} |-> f[x] * v]]
  <2>1. step \in [S -> [Nat \ {0} -> Nat \ {0}]] /\ \A x \in S : \A v \in Nat \ {0} : step[x][v] = f[x] * v
    BY <1>0
  <2> HIDE DEF step
  <2> QED
    BY <2>1
<1>2. 1 \in Nat \ {0}
  OBVIOUS
<1>3. PICK h \in [SUBSET S -> Nat \ {0}] : Steps(h, step, 1, SUBSET S)
  BY <1>1, <1>2, FoldIs
<1>4. ASSUME NEW s \in SUBSET S, s # {}
      PROVE  step[One(s)][h[s \ {One(s)}]] = f[One(s)] * h[s \ {One(s)}]
  <2>1. One(s) \in S /\ s \ {One(s)} \in SUBSET S
    BY <1>4, OneLess
  <2>2. h[s \ {One(s)}] \in Nat \ {0}
    BY <2>1
  <2> QED
    BY <1>1, <2>1, <2>2
<1>5. Is(h)
  BY <1>3, <1>4 DEF Steps
<1> DEFINE it == CHOOSE g : Is(g)
<1>6. Is(it)
  <2> HIDE DEF Is
  <2> QED
    BY <1>5
<1>7. Product(f) = it[S]
  BY DEF Product, FoldFunction, FoldFunctionOnSet, MapThenFoldSet, One
<1> HIDE DEF it
<1>8. /\ DOMAIN it = SUBSET S /\ it[{}] = 1
      /\ \A s \in SUBSET S : s # {} => it[s] = f[One(s)] * it[s \ {One(s)}]
  BY <1>6
<1>9. \A s \in SUBSET S : it[s] \in Nat \ {0}
  <2> DEFINE T == {s \in SUBSET S : it[s] \in Nat \ {0}}
  <2>1. {} \in T
    BY <1>8
  <2>2. ASSUME NEW s \in SUBSET S, s # {}, s \ {One(s)} \in T
        PROVE  s \in T
    <3>1. One(s) \in S
      BY <2>2, OneLess
    <3> QED
      BY <1>0, <1>8, <2>2, <3>1
  <2> HIDE DEF T
  <2>3. \A s \in SUBSET S : s \in T
    BY <2>1, <2>2, OneByOne
  <2> QED
    BY <2>3 DEF T
<1> QED
  <2>1. it \in [SUBSET S -> Nat \ {0}]
    BY <1>6, <1>9
  <2> QED
    BY <1>7, <1>8, <2>1 DEF Products

\* Multiples of sums, differences and of one less.
LEMMA Distributes ==
  ASSUME NEW n \in Int, NEW a \in Int, NEW b \in Int
  PROVE  /\ n * a \in Int /\ n * (a + b) = n * a + n * b /\ n * (a - b) = n * a - n * b
         /\ (n - 1) * a = n * a - a
OBVIOUS

\* A sum of integers is an integer.
LEMMA SumIsWhole ==
  ASSUME NEW f, NEW S, DOMAIN f = S, IsFiniteSet(S), \A x \in S : f[x] \in Int
  PROVE  SumFunction(f) \in Int
<1>1. PICK h : Sums(h, f, S) /\ SumFunction(f) = h[S]
  BY SumIs
<1> QED
  BY <1>1 DEF Sums

\* A sum in which every term is more by the same.
LEMMA SumMoves ==
  ASSUME NEW f, NEW g, NEW S, DOMAIN f = S, DOMAIN g = S, IsFiniteSet(S), NEW more \in Int,
         \A x \in S : f[x] \in Int /\ g[x] = f[x] + more
  PROVE  SumFunction(g) = SumFunction(f) + Cardinality(S) * more
<1>1. PICK h : Sums(h, f, S) /\ SumFunction(f) = h[S]
  BY SumIs
<1>2. PICK k : Sums(k, g, S) /\ SumFunction(g) = k[S]
  BY SumIs
<1> DEFINE T == {s \in SUBSET S : k[s] = h[s] + Cardinality(s) * more}
<1>3. {} \in T
  BY <1>1, <1>2, FS_EmptySet DEF Sums
<1>4. ASSUME NEW s \in SUBSET S, s # {}, s \ {One(s)} \in T
      PROVE  s \in T
  <2> DEFINE n == Cardinality(s)
             rest == s \ {One(s)}
  <2>0. /\ One(s) \in s /\ s \ {One(s)} \in SUBSET S
        /\ Cardinality(s) \in Nat \ {0} /\ Cardinality(s \ {One(s)}) = Cardinality(s) - 1
    BY <1>4, OneLess
  <2>1. One(s) \in S /\ n \in Int /\ rest \in SUBSET S /\ Cardinality(rest) = n - 1
    BY <2>0
  <2>2. k[rest] = h[rest] + (n - 1) * more
    BY <1>4, <2>1
  <2>3. (n - 1) * more = n * more - more /\ n * more \in Int
    BY <2>1, Distributes
  <2>4. k[s] = g[One(s)] + k[rest] /\ h[s] = f[One(s)] + h[rest]
    BY <1>1, <1>2, <1>4 DEF Sums
  <2>5. f[One(s)] \in Int /\ g[One(s)] = f[One(s)] + more /\ h[rest] \in Int
    BY <1>1, <2>1 DEF Sums
  <2> HIDE DEF n, rest
  <2>6. k[s] = h[s] + n * more
    BY <2>2, <2>3, <2>4, <2>5
  <2> QED
    BY <2>6 DEF n
<1> HIDE DEF T
<1>5. S \in T
  <2>1. \A s \in SUBSET S : s \in T
    BY <1>3, <1>4, OneByOne
  <2> QED
    BY <2>1
<1> QED
  BY <1>1, <1>2, <1>5 DEF T

\* A sum lies between as many of the least and as many of the greatest term.
LEMMA SumBetween ==
  ASSUME NEW f, NEW S, DOMAIN f = S, IsFiniteSet(S), NEW low \in Int, NEW high \in Int,
         \A x \in S : f[x] \in low..high
  PROVE  SumFunction(f) \in (Cardinality(S) * low)..(Cardinality(S) * high)
<1>1. PICK h : Sums(h, f, S) /\ SumFunction(f) = h[S]
  BY SumIs
<1> DEFINE T == {s \in SUBSET S : h[s] \in (Cardinality(s) * low)..(Cardinality(s) * high)}
<1>2. {} \in T
  BY <1>1, FS_EmptySet DEF Sums
<1>3. ASSUME NEW s \in SUBSET S, s # {}, s \ {One(s)} \in T
      PROVE  s \in T
  <2> DEFINE n == Cardinality(s)
             rest == s \ {One(s)}
  <2>0. /\ One(s) \in s /\ s \ {One(s)} \in SUBSET S
        /\ Cardinality(s) \in Nat \ {0} /\ Cardinality(s \ {One(s)}) = Cardinality(s) - 1
    BY <1>3, OneLess
  <2>1. One(s) \in S /\ n \in Int /\ rest \in SUBSET S /\ Cardinality(rest) = n - 1
    BY <2>0
  <2>2. h[rest] \in ((n - 1) * low)..((n - 1) * high)
    BY <1>3, <2>1
  <2>3. /\ (n - 1) * low = n * low - low /\ n * low \in Int
        /\ (n - 1) * high = n * high - high /\ n * high \in Int
    BY <2>1, Distributes
  <2>4. h[s] = f[One(s)] + h[rest] /\ f[One(s)] \in low..high /\ h[rest] \in Int
    BY <1>1, <1>3, <2>1 DEF Sums
  <2> HIDE DEF n, rest
  <2>5. h[s] \in (n * low)..(n * high)
    BY <2>2, <2>3, <2>4
  <2> QED
    BY <2>5 DEF n
<1> HIDE DEF T
<1>4. S \in T
  <2>1. \A s \in SUBSET S : s \in T
    BY <1>2, <1>3, OneByOne
  <2> QED
    BY <2>1
<1> QED
  BY <1>1, <1>4 DEF T

\* A product of positive numbers is positive, and each of them divides it.
LEMMA ProductDivides ==
  ASSUME NEW f, NEW S, DOMAIN f = S, IsFiniteSet(S), \A x \in S : f[x] \in Nat \ {0}
  PROVE  Product(f) \in Nat \ {0} /\ \A x \in S : \E k \in Nat : Product(f) = f[x] * k
<1>1. PICK h : Products(h, f, S) /\ Product(f) = h[S]
  BY ProductIs
<1> DEFINE T == {s \in SUBSET S : \A x \in s : \E k \in Nat : h[s] = f[x] * k}
<1>2. {} \in T
  OBVIOUS
<1>3. ASSUME NEW s \in SUBSET S, s # {}, s \ {One(s)} \in T
      PROVE  s \in T
  <2> DEFINE rest == s \ {One(s)}
  <2>1. One(s) \in S /\ rest \in SUBSET S /\ h[s] = f[One(s)] * h[rest]
    BY <1>1, <1>3, OneLess DEF Products
  <2>2. ASSUME NEW x \in s
        PROVE  \E k \in Nat : h[s] = f[x] * k
    <3>1. CASE x = One(s)
      <4>1. h[rest] \in Nat
        BY <1>1, <2>1 DEF Products
      <4> QED
        BY <2>1, <3>1, <4>1
    <3>2. CASE x # One(s)
      <4>1. PICK k \in Nat : h[rest] = f[x] * k
        BY <1>3, <3>2
      <4>2. f[One(s)] \in Nat /\ f[x] \in Nat
        BY <2>1
      <4>3. f[One(s)] * k \in Nat /\ f[One(s)] * (f[x] * k) = f[x] * (f[One(s)] * k)
        <5>1. \A a, b, c \in Nat : a * c \in Nat /\ a * (b * c) = b * (a * c)
          OBVIOUS
        <5> QED
          BY <4>2, <5>1
      <4>4. h[s] = f[x] * (f[One(s)] * k)
        BY <2>1, <4>1, <4>3
      <4> QED
        BY <4>3, <4>4
    <3> QED
      BY <3>1, <3>2
  <2> QED
    BY <2>2
<1> HIDE DEF T
<1>4. S \in T
  <2>1. \A s \in SUBSET S : s \in T
    BY <1>2, <1>3, OneByOne
  <2> QED
    BY <2>1
<1>5. \A x \in S : \E k \in Nat : h[S] = f[x] * k
  BY <1>4 DEF T
<1> QED
  BY <1>1, <1>5 DEF Products

-----------------------------------------------------------------------------
(* The columns.                                                             *)

\* A finite set of integers has a least one, which is what Min takes.
LEMMA MinIs ==
  ASSUME NEW S, IsFiniteSet(S), S \subseteq Int, S # {}
  PROVE  Min(S) \in S /\ \A y \in S : Min(S) <= y
<1> DEFINE T == {s \in SUBSET S : s # {} => \E x \in s : \A y \in s : x <= y}
<1>1. {} \in T
  OBVIOUS
<1>2. ASSUME NEW s \in SUBSET S, s # {}, s \ {One(s)} \in T
      PROVE  s \in T
  <2>1. One(s) \in s
    BY <1>2, OneLess
  <2>2. CASE s \ {One(s)} = {}
    <3>1. \A y \in s : One(s) <= y
      BY <2>1, <2>2
    <3> QED
      BY <2>1, <3>1
  <2>3. CASE s \ {One(s)} # {}
    <3>1. PICK x \in s \ {One(s)} : \A y \in s \ {One(s)} : x <= y
      BY <1>2, <2>3
    <3>2. x \in Int /\ One(s) \in Int /\ x \in s
      BY <2>1
    <3>3. CASE x <= One(s)
      <4>1. \A y \in s : x <= y
        BY <3>1, <3>3
      <4> QED
        BY <3>2, <4>1
    <3>4. CASE One(s) <= x
      <4>1. \A y \in s : One(s) <= y
        BY <3>1, <3>2, <3>4
      <4> QED
        BY <2>1, <4>1
    <3> QED
      BY <3>2, <3>3, <3>4
  <2> QED
    BY <2>2, <2>3
<1> HIDE DEF T
<1>3. \A s \in SUBSET S : s \in T
  BY <1>1, <1>2, OneByOne
<1>4. \E x \in S : \A y \in S : x <= y
  BY <1>3 DEF T
<1> QED
  BY <1>4 DEF Min

\* A place for a number: it is there or not.
Place == {{}} \cup {{n} : n \in Int}

\* What is a place at every index is a sequence of places.
LEMMA PlacesAreRuns ==
  ASSUME NEW n \in Nat, NEW f, f = [i \in 1..n |-> f[i]], \A i \in 1..n : f[i] \in Place
  PROVE  f \in Seq(Place) /\ Len(f) = n
<1>1. f \in [1..n -> Place]
  OBVIOUS
<1> QED
  BY <1>1

\* A number that is there fills its place.
LEMMA NumberIsPlace == \A n \in Int : {n} \in Place
BY DEF Place

\* The only member of a set of one.
LEMMA OnlyIs == \A n : Only({n}) = n
BY DEF Only

\* What runs come to: the first, or the least of the others.
LEMMA ColumnIsPlace ==
  ASSUME NEW column \in Columns, NEW runs \in Seq(Place)
  PROVE  ColumnOf(column, runs) \in Place
<1>1. CASE column = "cold"
  BY <1>1 DEF ColumnOf, ColdOf, Place
<1>2. CASE column = "hot"
  <2> DEFINE rest == {runs[i] : i \in 2..Len(runs)}
  <2>1. IsFiniteSet(UNION rest) /\ UNION rest \subseteq Int
    <3>1. \A t \in rest : t \in Place
      OBVIOUS
    <3>2. \A t \in Place : IsFiniteSet(t) /\ t \subseteq Int
      BY FS_EmptySet, FS_Singleton DEF Place
    <3>3. IsFiniteSet(rest)
      <4>1. IsFiniteSet(2..Len(runs))
        BY FS_Interval
      <4> DEFINE image == [i \in 2..Len(runs) |-> runs[i]]
      <4>2. image \in Surjection(2..Len(runs), rest)
        BY DEF Surjection
      <4> HIDE DEF image, rest
      <4> QED
        BY <4>1, <4>2, FS_Surjection
    <3> HIDE DEF rest
    <3> QED
      BY <3>1, <3>2, <3>3, FS_UNION
  <2>2. HotOf(runs) = IF UNION rest = {} THEN {} ELSE {Min(UNION rest)}
    BY DEF HotOf, Least
  <2> HIDE DEF rest
  <2>3. HotOf(runs) \in Place
    BY <2>1, <2>2, MinIs DEF Place
  <2> QED
    BY <1>2, <2>3 DEF ColumnOf
<1> QED
  BY <1>1, <1>2 DEF Columns

\* Measured::cold and hot have a number or none, of any runs.
LEMMA OursIsPlace ==
  ASSUME NEW report, NEW column \in Columns, NEW q, report.took[q] \in Seq(Int)
  PROVE  Ours(report, column, q) \in Place
<1> DEFINE runs == [i \in 1..Len(report.took[q]) |-> {report.took[q][i]}]
<1>1. \A i \in 1..Len(report.took[q]) : {report.took[q][i]} \in Place
  BY DEF Place
<1>2. runs \in Seq(Place)
  BY <1>1
<1> HIDE DEF runs
<1>3. ColumnOf(column, runs) \in Place
  BY <1>2, ColumnIsPlace
<1> QED
  BY <1>3 DEF Ours, runs

\* So have the published ones.
LEMMA TheirsIsPlace ==
  ASSUME NEW column \in Columns, NEW driver \in DOMAIN Published, NEW q
  PROVE  Theirs(driver, column, q) \in Place
<1>1. CASE q \in DOMAIN Published[driver]
  <2> DEFINE runs == Published[driver][q]
  <2>1. runs \in Seq(SUBSET Int) /\ \A i \in DOMAIN runs : \A x, y \in runs[i] : x = y
    BY <1>1, PublishedAssumption
  <2> HIDE DEF runs
  <2>2. ASSUME NEW i \in 1..Len(runs)
        PROVE  runs[i] \in Place
    <3>1. runs[i] \subseteq Int /\ \A x, y \in runs[i] : x = y
      BY <2>1
    <3>2. CASE runs[i] = {}
      BY <3>2 DEF Place
    <3>3. CASE runs[i] # {}
      <4>1. PICK x \in runs[i] : TRUE
        BY <3>3
      <4>2. runs[i] = {x} /\ x \in Int
        BY <3>1, <4>1
      <4> QED
        BY <4>2 DEF Place
    <3> QED
      BY <3>2, <3>3
  <2>3. runs \in Seq(Place)
    BY <2>1, <2>2
  <2>4. ColumnOf(column, runs) \in Place
    BY <2>3, ColumnIsPlace
  <2> QED
    BY <1>1, <2>4 DEF Theirs, runs
<1>2. CASE q \notin DOMAIN Published[driver]
  BY <1>2 DEF Theirs, Place
<1> QED
  BY <1>1, <1>2

\* A report that says in whole logarithms what its runs took.
Timed(report) == \A q \in Query : report.took[q] \in Seq(Int)

\* Standing::new: a report with something to compare comes to a mean.
LEMMA StandingIs ==
  ASSUME NEW column \in Columns, NEW report, Timed(report), Referenced(report.driver)
  PROVE  /\ IsFiniteSet(Paired(report, column))
         /\ \A q \in Paired(report, column) : Difference(report, column, q) \in Int
         /\ Standing(report, column).sum \in Int
         /\ Standing(report, column).count = Cardinality(Paired(report, column))
<1> DEFINE pairs == Paired(report, column)
           differences == [q \in pairs |-> Difference(report, column, q)]
<1>1. IsFiniteSet(pairs)
  BY QueryAssumption, FS_Subset DEF Paired
<1>2. ASSUME NEW q \in pairs
      PROVE  Difference(report, column, q) \in Int
  <2>1. q \in Query /\ Ours(report, column, q) # {} /\ Theirs(report.driver, column, q) # {}
    BY <1>2 DEF Paired
  <2>2. Ours(report, column, q) \in Place /\ Theirs(report.driver, column, q) \in Place
    BY <2>1, OursIsPlace, TheirsIsPlace DEF Timed, Referenced
  <2>3. \A place \in Place : place # {} => Only(place) \in Int
    BY OnlyIs DEF Place
  <2>4. Only(Ours(report, column, q)) \in Int /\ Only(Theirs(report.driver, column, q)) \in Int
    BY <2>1, <2>2, <2>3
  <2> QED
    BY <2>4 DEF Difference
<1>3. SumFunction(differences) \in Int
  <2>1. DOMAIN differences = pairs /\ \A q \in pairs : differences[q] \in Int
    BY <1>2
  <2> HIDE DEF differences, pairs
  <2> QED
    BY <1>1, <2>1, SumIsWhole
<1>4. Standing(report, column) = [sum |-> SumFunction(differences), count |-> Cardinality(pairs)]
  BY DEF Standing
<1> HIDE DEF differences
<1> QED
  BY <1>1, <1>2, <1>3, <1>4

\* Standings of which the numbers below can be worked out.
Sound(standings) ==
  /\ IsFiniteSet(DOMAIN standings)
  /\ \A i \in DOMAIN standings : standings[i].sum \in Int /\ standings[i].count \in Nat \ {0}

\* Calibration::new keeps only standings with a mean to speak of.
LEMMA StandingsAreSound ==
  ASSUME NEW column \in Columns, NEW reports, Len(reports) \in Nat,
         \A i \in 1..Len(reports) : Timed(reports[i])
  PROVE  Sound(Standings(reports, column))
<1> DEFINE standings == Standings(reports, column)
<1>1. IsFiniteSet(DOMAIN standings)
  <2>1. DOMAIN standings \in SUBSET (1..Len(reports)) /\ IsFiniteSet(1..Len(reports))
    BY FS_Interval DEF Standings
  <2> HIDE DEF standings
  <2> QED
    BY <2>1, FS_Subset
<1>2. ASSUME NEW i \in DOMAIN standings
      PROVE  standings[i].sum \in Int /\ standings[i].count \in Nat \ {0}
  <2>1. /\ i \in 1..Len(reports) /\ standings[i] = Standing(reports[i], column)
        /\ Referenced(reports[i].driver) /\ Paired(reports[i], column) # {}
    BY <1>2 DEF Standings
  <2> HIDE DEF standings
  <2>2. /\ IsFiniteSet(Paired(reports[i], column))
        /\ Standing(reports[i], column).sum \in Int
        /\ Standing(reports[i], column).count = Cardinality(Paired(reports[i], column))
    BY <2>1, StandingIs
  <2> QED
    BY <2>1, <2>2, FS_CardinalityType, FS_EmptySet
<1> QED
  BY <1>1, <1>2 DEF Sound

\* A multiple divides by what it is a multiple of.
LEMMA Quotient ==
  ASSUME NEW c \in Nat \ {0}, NEW k \in Nat
  PROVE  (c * k) \div c = k
OBVIOUS

\* What the ratios are over is a multiple of every count.
LEMMA RatiosAreWhole ==
  ASSUME NEW standings, Sound(standings)
  PROVE  /\ Whole(standings) \in Nat \ {0}
         /\ \A i \in DOMAIN standings : \E k \in Nat :
              /\ Whole(standings) = standings[i].count * k
              /\ RatioOf(standings, i) = standings[i].sum * k
              /\ RatioOf(standings, i) \in Int
<1> DEFINE S == DOMAIN standings
           counts == [i \in S |-> standings[i].count]
<1>1. Whole(standings) = Product(counts)
  BY DEF Whole
<1>2. DOMAIN counts = S /\ \A i \in S : counts[i] \in Nat \ {0} /\ counts[i] = standings[i].count
  BY DEF Sound
<1>3. IsFiniteSet(S)
  BY DEF Sound
<1> HIDE DEF counts
<1>4. Product(counts) \in Nat \ {0} /\ \A i \in S : \E k \in Nat : Product(counts) = counts[i] * k
  BY <1>2, <1>3, ProductDivides
<1>5. ASSUME NEW i \in S
      PROVE  \E k \in Nat :
               /\ Whole(standings) = standings[i].count * k
               /\ RatioOf(standings, i) = standings[i].sum * k
               /\ RatioOf(standings, i) \in Int
  <2>1. PICK k \in Nat : Whole(standings) = standings[i].count * k
    BY <1>1, <1>2, <1>4
  <2>2. Whole(standings) \div standings[i].count = k
    BY <1>2, <2>1, Quotient
  <2>3. RatioOf(standings, i) = standings[i].sum * k
    BY <2>2 DEF RatioOf
  <2>4. standings[i].sum * k \in Int
    BY Distributes DEF Sound
  <2> QED
    BY <2>1, <2>3, <2>4
<1> QED
  BY <1>1, <1>4, <1>5

-----------------------------------------------------------------------------
(* The band.                                                                *)

LEMMA Cancels ==
  ASSUME NEW n \in Nat \ {0}, NEW a \in Int, NEW b \in Int, n * a <= n * b
  PROVE  a <= b
OBVIOUS

LEMMA Scales ==
  ASSUME NEW n \in Nat, NEW a \in Int, NEW b \in Int, a <= b
  PROVE  n * a <= n * b
OBVIOUS

LEMMA Reorders ==
  ASSUME NEW a \in Int, NEW b \in Int, NEW c \in Int
  PROVE  a * b \in Int /\ a * (b * c) = b * (a * c) /\ (a * b) * c = a * (b * c) /\ a * b = b * a
OBVIOUS

\* The shared factor, as far as it has to be known.
LEMMA MachineIs ==
  ASSUME NEW standings, Sound(standings)
  PROVE  /\ Machine(standings) \in Int
         /\ \A low, high \in Int :
              (\A i \in DOMAIN standings : RatioOf(standings, i) \in low..high)
                => Machine(standings) \in (Many(standings) * low)..(Many(standings) * high)
<1> DEFINE S == DOMAIN standings
           ratios == [i \in S |-> RatioOf(standings, i)]
<1>1. Machine(standings) = SumFunction(ratios) /\ Many(standings) = Cardinality(S)
  BY DEF Machine, Many
<1>2. DOMAIN ratios = S /\ \A i \in S : ratios[i] \in Int /\ ratios[i] = RatioOf(standings, i)
  BY RatiosAreWhole
<1>3. IsFiniteSet(S)
  BY DEF Sound
<1> HIDE DEF ratios
<1>4. SumFunction(ratios) \in Int
  BY <1>2, <1>3, SumIsWhole
<1>5. ASSUME NEW low \in Int, NEW high \in Int, \A i \in S : RatioOf(standings, i) \in low..high
      PROVE  SumFunction(ratios) \in (Cardinality(S) * low)..(Cardinality(S) * high)
  <2>1. \A i \in S : ratios[i] \in low..high
    BY <1>2, <1>5
  <2> QED
    BY <1>2, <1>3, <2>1, SumBetween
<1> QED
  BY <1>1, <1>4, <1>5

\* Where there is a standing there are so many.
LEMMA ManyIsPositive ==
  ASSUME NEW standings, Sound(standings), NEW i \in DOMAIN standings
  PROVE  Many(standings) \in Nat \ {0}
BY FS_CardinalityType, FS_EmptySet DEF Sound, Many

\* Drivers inside the band are within both of its sides of each other.
LEMMA InsideIsClose ==
  ASSUME NEW standings, Sound(standings), Clean(standings),
         NEW i \in DOMAIN standings, NEW j \in DOMAIN standings
  PROVE  RatioOf(standings, i) - RatioOf(standings, j) <= (BandUp + BandDown) * Whole(standings)
<1> DEFINE n == Many(standings)
           w == Whole(standings)
           a == RatioOf(standings, i)
           b == RatioOf(standings, j)
           m == Machine(standings)
<1>1. n \in Nat \ {0} /\ w \in Nat /\ a \in Int /\ b \in Int /\ m \in Int
  BY ManyIsPositive, RatiosAreWhole, MachineIs
<1>2. n * a - m <= BandUp * (n * w) /\ -(BandDown * (n * w)) <= n * b - m
  BY DEF Clean, Inside, Drift
<1> HIDE DEF n, w, a, b, m
<1>3. BandUp \in Nat /\ BandDown \in Nat
  BY BandAssumption
<1>4. /\ BandUp * (n * w) = n * (BandUp * w) /\ BandDown * (n * w) = n * (BandDown * w)
      /\ BandUp * w \in Int /\ BandDown * w \in Int
  BY <1>1, <1>3, Reorders
<1>5. /\ n * (a - b) = n * a - n * b /\ n * a \in Int /\ n * b \in Int
      /\ n * (BandUp * w + BandDown * w) = n * (BandUp * w) + n * (BandDown * w)
      /\ n * (BandUp * w) \in Int /\ n * (BandDown * w) \in Int
  BY <1>1, <1>4, Distributes
<1>6. n * (a - b) <= n * (BandUp * w + BandDown * w)
  BY <1>1, <1>2, <1>4, <1>5
<1>7. a - b <= BandUp * w + BandDown * w
  BY <1>1, <1>4, <1>6, Cancels
<1>8. (BandUp + BandDown) * w = BandUp * w + BandDown * w
  BY <1>1, <1>3
<1>9. a - b <= (BandUp + BandDown) * w
  BY <1>7, <1>8
<1> QED
  BY <1>9 DEF a, b, w

\* Where one is outside, two are further apart than the nearer side.
LEMMA OutsideIsApart ==
  ASSUME NEW standings, Sound(standings), ~Clean(standings)
  PROVE  \E i, j \in DOMAIN standings :
           RatioOf(standings, i) - RatioOf(standings, j) > Min({BandUp, BandDown}) * Whole(standings)
<1> DEFINE n == Many(standings)
           w == Whole(standings)
           m == Machine(standings)
           side == Min({BandUp, BandDown})
<1> SUFFICES ASSUME \A i, j \in DOMAIN standings : ~(RatioOf(standings, i) - RatioOf(standings, j) > side * w)
             PROVE  FALSE
  OBVIOUS
<1>1. PICK i \in DOMAIN standings : ~Inside(standings, i)
  BY DEF Clean
<1> DEFINE a == RatioOf(standings, i)
<1>2. n \in Nat \ {0} /\ w \in Nat /\ a \in Int /\ m \in Int
  BY <1>1, ManyIsPositive, RatiosAreWhole, MachineIs
<1>3. side \in Nat /\ side <= BandUp /\ side <= BandDown
  <2>1. IsFiniteSet({BandUp, BandDown})
    <3>1. {BandUp, BandDown} = {BandUp} \cup {BandDown}
      OBVIOUS
    <3>2. IsFiniteSet({BandUp} \cup {BandDown})
      BY FS_Singleton, FS_AddElement
    <3> QED
      BY <3>1, <3>2
  <2> QED
    BY <2>1, BandAssumption, MinIs
<1>4. side * w \in Int
  BY <1>2, <1>3, Reorders
<1>5. \A j \in DOMAIN standings : RatioOf(standings, j) \in (a - side * w)..(a + side * w)
  <2> SUFFICES ASSUME NEW j \in DOMAIN standings
               PROVE  RatioOf(standings, j) \in (a - side * w)..(a + side * w)
    OBVIOUS
  <2> DEFINE b == RatioOf(standings, j)
  <2>1. b \in Int
    BY RatiosAreWhole
  <2>2. ~(a - b > side * w) /\ ~(b - a > side * w)
    BY <1>1
  <2> HIDE DEF a, b, side, w
  <2>3. b \in (a - side * w)..(a + side * w)
    BY <1>2, <1>4, <2>1, <2>2
  <2> QED
    BY <2>3 DEF b
<1>6. m \in (n * (a - side * w))..(n * (a + side * w))
  <2>1. a - side * w \in Int /\ a + side * w \in Int
    BY <1>2, <1>4
  <2> QED
    BY <1>5, <2>1, MachineIs
<1>7. ~(-(BandDown * (n * w)) <= n * a - m /\ n * a - m <= BandUp * (n * w))
  BY <1>1 DEF Inside, Drift
<1> HIDE DEF n, w, m, side, a
<1>8. BandUp \in Nat /\ BandDown \in Nat
  BY BandAssumption
<1>9. /\ n * (a - side * w) = n * a - n * (side * w) /\ n * (a + side * w) = n * a + n * (side * w)
      /\ n * a \in Int /\ n * (side * w) \in Int /\ n * w \in Nat
  BY <1>2, <1>4, Distributes
<1>10. n * (side * w) = (n * w) * side /\ BandUp * (n * w) = (n * w) * BandUp /\ BandDown * (n * w) = (n * w) * BandDown
  BY <1>2, <1>3, <1>8, <1>9, Reorders
<1>11. (n * w) * side <= (n * w) * BandUp /\ (n * w) * side <= (n * w) * BandDown
  BY <1>3, <1>8, <1>9, Scales
<1>12. (n * w) * BandUp \in Int /\ (n * w) * BandDown \in Int
  BY <1>8, <1>9, Reorders
<1> QED
  BY <1>2, <1>6, <1>7, <1>9, <1>10, <1>11, <1>12

-----------------------------------------------------------------------------
(* A machine that is slower for every driver.                               *)

\* A number that became more by some, if it was there.
Moved(place, other, more) ==
  \/ place = {} /\ other = {}
  \/ \E n \in Int : place = {n} /\ other = {n + more}

\* With every run later by as much, first and least are later by as much.
LEMMA SlowedColumn ==
  ASSUME NEW column \in Columns, NEW more \in Int, NEW n \in Nat, NEW took \in [1..n -> Int],
         NEW runs \in Seq(Place), NEW late \in Seq(Place), Len(runs) = n, Len(late) = n,
         \A i \in 1..n : runs[i] = {took[i]} /\ late[i] = {took[i] + more}
  PROVE  Moved(ColumnOf(column, runs), ColumnOf(column, late), more)
<1>1. /\ \A i \in 1..n : took[i] \in Int
      /\ (runs = <<>> <=> n = 0) /\ (late = <<>> <=> n = 0)
  OBVIOUS
<1>2. CASE column = "cold"
  BY <1>1, <1>2 DEF ColumnOf, ColdOf, Moved
<1>3. CASE column = "hot"
  <2> DEFINE rest == UNION {runs[i] : i \in 2..Len(runs)}
             others == UNION {late[i] : i \in 2..Len(late)}
  <2>1. rest = {took[i] : i \in 2..n} /\ others = {took[i] + more : i \in 2..n}
    <3>1. \A i \in 2..n : runs[i] = {took[i]} /\ late[i] = {took[i] + more}
      OBVIOUS
    <3> QED
      BY <3>1
  <2>2. HotOf(runs) = IF rest = {} THEN {} ELSE {Min(rest)}
    BY DEF HotOf, Least
  <2>3. HotOf(late) = IF others = {} THEN {} ELSE {Min(others)}
    BY DEF HotOf, Least
  <2> HIDE DEF rest, others
  <2>4. CASE 2..n = {}
    BY <1>3, <2>1, <2>2, <2>3, <2>4 DEF ColumnOf, Moved
  <2>5. CASE 2..n # {}
    <3>1. rest # {} /\ rest \subseteq Int /\ others # {} /\ others \subseteq Int
      BY <1>1, <2>1, <2>5
    <3>2. IsFiniteSet(2..n)
      BY <1>1, FS_Interval
    <3>3. IsFiniteSet(rest)
      <4> DEFINE image == [i \in 2..n |-> took[i]]
      <4>1. image \in Surjection(2..n, rest)
        BY <2>1 DEF Surjection
      <4> HIDE DEF image
      <4> QED
        BY <3>2, <4>1, FS_Surjection
    <3>4. IsFiniteSet(others)
      <4> DEFINE image == [i \in 2..n |-> took[i] + more]
      <4>1. image \in Surjection(2..n, others)
        BY <2>1 DEF Surjection
      <4> HIDE DEF image
      <4> QED
        BY <3>2, <4>1, FS_Surjection
    <3>5. Min(rest) \in rest /\ \A y \in rest : Min(rest) <= y
      BY <3>1, <3>3, MinIs
    <3>6. Min(others) \in others /\ \A y \in others : Min(others) <= y
      BY <3>1, <3>4, MinIs
    <3>7. PICK i \in 2..n : Min(rest) = took[i]
      BY <2>1, <3>5
    <3>8. PICK j \in 2..n : Min(others) = took[j] + more
      BY <2>1, <3>6
    <3>9. took[i] <= took[j] /\ took[j] + more <= took[i] + more
      BY <2>1, <3>5, <3>6, <3>7, <3>8
    <3>10. took[i] \in Int /\ took[j] \in Int
      BY <1>1
    <3>11. Min(others) = Min(rest) + more /\ Min(rest) \in Int
      BY <3>7, <3>8, <3>9, <3>10
    <3> QED
      BY <1>3, <2>2, <2>3, <3>1, <3>11 DEF ColumnOf, Moved
  <2> QED
    BY <2>4, <2>5
<1> QED
  BY <1>2, <1>3 DEF Columns

\* SlowedBy moves every run of every query and nothing else.
LEMMA SlowedIs ==
  ASSUME NEW record, NEW more \in Int, NEW q \in Query, Timed(record),
         "took" \in DOMAIN record, "driver" \in DOMAIN record
  PROVE  /\ SlowedBy(record, more).driver = record.driver
         /\ SlowedBy(record, more).took[q] \in Seq(Int)
         /\ Len(SlowedBy(record, more).took[q]) = Len(record.took[q])
         /\ \A i \in 1..Len(record.took[q]) : SlowedBy(record, more).took[q][i] = record.took[q][i] + more
<1> DEFINE slow == [x \in Query |-> [i \in 1..Len(record.took[x]) |-> record.took[x][i] + more]]
<1>1. SlowedBy(record, more).driver = record.driver /\ SlowedBy(record, more).took = slow
  BY DEF SlowedBy
<1>2. slow[q] = [i \in 1..Len(record.took[q]) |-> record.took[q][i] + more]
  OBVIOUS
<1>3. Len(record.took[q]) \in Nat /\ \A i \in 1..Len(record.took[q]) : record.took[q][i] + more \in Int
  BY DEF Timed
<1> HIDE DEF slow
<1> QED
  BY <1>1, <1>2, <1>3

\* A query on a slower machine has its numbers, moved, or still has none.
LEMMA SlowedOurs ==
  ASSUME NEW column \in Columns, NEW report, NEW other, NEW more \in Int, NEW q,
         report.took[q] \in Seq(Int), other.took[q] \in Seq(Int),
         Len(other.took[q]) = Len(report.took[q]),
         \A i \in 1..Len(report.took[q]) : other.took[q][i] = report.took[q][i] + more
  PROVE  Moved(Ours(report, column, q), Ours(other, column, q), more)
<1> DEFINE runs == [i \in 1..Len(report.took[q]) |-> {report.took[q][i]}]
           late == [i \in 1..Len(other.took[q]) |-> {other.took[q][i]}]
<1>1. Ours(report, column, q) = ColumnOf(column, runs) /\ Ours(other, column, q) = ColumnOf(column, late)
  BY DEF Ours
<1> DEFINE n == Len(report.took[q])
           took == report.took[q]
<1>2. n \in Nat /\ took \in [1..n -> Int]
  OBVIOUS
<1>3. \A i \in 1..n : {took[i]} \in Place /\ {took[i] + more} \in Place
  <2>1. \A i \in 1..n : took[i] \in Int /\ took[i] + more \in Int
    BY <1>2
  <2> HIDE DEF n, took
  <2> QED
    BY <2>1, NumberIsPlace
<1>4. runs = [i \in 1..n |-> {took[i]}] /\ late = [i \in 1..n |-> {took[i] + more}]
  OBVIOUS
<1> HIDE DEF runs, late, n, took
<1>5. runs \in Seq(Place) /\ Len(runs) = n /\ late \in Seq(Place) /\ Len(late) = n
  <2>1. /\ runs = [i \in 1..n |-> runs[i]] /\ \A i \in 1..n : runs[i] \in Place
        /\ late = [i \in 1..n |-> late[i]] /\ \A i \in 1..n : late[i] \in Place
    BY <1>3, <1>4
  <2> QED
    BY <1>2, <2>1, PlacesAreRuns
<1>6. \A i \in 1..n : runs[i] = {took[i]} /\ late[i] = {took[i] + more}
  BY <1>4
<1>7. Moved(ColumnOf(column, runs), ColumnOf(column, late), more)
  BY <1>2, <1>5, <1>6, SlowedColumn
<1> QED
  BY <1>1, <1>7

\* The same report of a slower machine.
Slowed(report, other, more) ==
  /\ Timed(report) /\ Timed(other) /\ other.driver = report.driver
  /\ \A q \in Query : \A column \in Columns : Moved(Ours(report, column, q), Ours(other, column, q), more)

\* The same queries are paired, and a mean of differences moves as they do.
LEMMA SlowedStanding ==
  ASSUME NEW column \in Columns, NEW report, NEW other, NEW more \in Int,
         Slowed(report, other, more), Referenced(report.driver)
  PROVE  /\ Paired(other, column) = Paired(report, column)
         /\ Standing(other, column).count = Standing(report, column).count
         /\ Standing(other, column).sum = Standing(report, column).sum + Standing(report, column).count * more
<1> DEFINE pairs == Paired(report, column)
           f == [q \in pairs |-> Difference(report, column, q)]
           g == [q \in pairs |-> Difference(other, column, q)]
<1>1. Paired(other, column) = pairs
  <2>1. \A q \in Query : Ours(other, column, q) # {} <=> Ours(report, column, q) # {}
    BY DEF Slowed, Moved
  <2> QED
    BY <2>1 DEF Paired, Slowed
<1>2. /\ IsFiniteSet(pairs) /\ \A q \in pairs : Difference(report, column, q) \in Int
      /\ Standing(report, column).count = Cardinality(pairs)
  BY StandingIs DEF Slowed
<1>3. ASSUME NEW q \in pairs
      PROVE  Difference(other, column, q) = Difference(report, column, q) + more
  <2>1. q \in Query /\ Ours(report, column, q) # {} /\ Theirs(report.driver, column, q) # {}
    BY <1>3 DEF Paired
  <2>2. PICK n \in Int : Ours(report, column, q) = {n} /\ Ours(other, column, q) = {n + more}
    BY <2>1 DEF Slowed, Moved
  <2>3. Theirs(report.driver, column, q) \in Place
    BY TheirsIsPlace DEF Referenced
  <2>4. PICK t \in Int : Theirs(report.driver, column, q) = {t}
    BY <2>1, <2>3 DEF Place
  <2>5. Only({n}) = n /\ Only({n + more}) = n + more /\ Only({t}) = t
    BY OnlyIs
  <2>6. Difference(report, column, q) = n - t
    BY <2>2, <2>4, <2>5 DEF Difference
  <2>7. Difference(other, column, q) = (n + more) - t
    BY <2>2, <2>4, <2>5 DEF Difference, Slowed
  <2> QED
    BY <2>6, <2>7
<1>4. SumFunction(g) = SumFunction(f) + Cardinality(pairs) * more
  <2>1. DOMAIN f = pairs /\ DOMAIN g = pairs /\ \A q \in pairs : f[q] \in Int /\ g[q] = f[q] + more
    BY <1>2, <1>3
  <2> HIDE DEF f, g, pairs
  <2> QED
    BY <1>2, <2>1, SumMoves
<1>5. Standing(report, column) = [sum |-> SumFunction(f), count |-> Cardinality(pairs)]
  BY DEF Standing
<1>6. Standing(other, column) = [sum |-> SumFunction(g), count |-> Cardinality(pairs)]
  BY <1>1 DEF Standing
<1> HIDE DEF f, g
<1> QED
  BY <1>1, <1>4, <1>5, <1>6

\* What is the same for everybody is the shared factor's, and nobody's drift.
LEMMA SameDrift ==
  ASSUME NEW standings, NEW others, NEW more \in Int, Sound(standings), Sound(others),
         DOMAIN others = DOMAIN standings,
         \A i \in DOMAIN standings :
           /\ others[i].count = standings[i].count
           /\ others[i].sum = standings[i].sum + standings[i].count * more
  PROVE  Clean(others) <=> Clean(standings)
<1> DEFINE S == DOMAIN standings
           w == Whole(standings)
           n == Many(standings)
<1>1. Whole(others) = w /\ Many(others) = n
  <2>1. [i \in DOMAIN others |-> others[i].count] = [i \in DOMAIN standings |-> standings[i].count]
    OBVIOUS
  <2> QED
    BY <2>1 DEF Whole, Many
<1>2. w \in Nat \ {0} /\ IsFiniteSet(S) /\ n = Cardinality(S)
  BY RatiosAreWhole DEF Sound, Many
<1>3. n \in Nat
  BY <1>2, FS_CardinalityType
<1>4. w * more \in Int
  BY <1>2, Reorders
<1>5. ASSUME NEW i \in S
      PROVE  RatioOf(standings, i) \in Int /\ RatioOf(others, i) = RatioOf(standings, i) + w * more
  <2> DEFINE c == standings[i].count
             s == standings[i].sum
  <2>1. PICK k \in Nat : w = c * k /\ RatioOf(standings, i) = s * k /\ RatioOf(standings, i) \in Int
    BY RatiosAreWhole
  <2>2. c \in Nat \ {0} /\ s \in Int
    BY DEF Sound
  <2>3. RatioOf(others, i) = (s + c * more) * (w \div c)
    BY <1>1 DEF RatioOf
  <2> HIDE DEF c, s
  <2>4. w \div c = k
    BY <2>1, <2>2, Quotient
  <2>5. c * more \in Int /\ (s + c * more) * k = s * k + (c * k) * more
    <3>1. c * more \in Int /\ k * (c * more) = c * (k * more) /\ (c * k) * more = c * (k * more)
      BY <2>2, Reorders
    <3>2. (s + c * more) * k = k * (s + c * more) /\ k * s = s * k
      BY <2>2, <3>1, Reorders
    <3>3. k * (s + c * more) = k * s + k * (c * more)
      BY <2>2, <3>1, Distributes
    <3> QED
      BY <3>1, <3>2, <3>3
  <2> QED
    BY <2>1, <2>3, <2>4, <2>5
<1>6. Machine(others) = Machine(standings) + n * (w * more) /\ Machine(standings) \in Int
  <2> DEFINE f == [i \in S |-> RatioOf(standings, i)]
             g == [i \in S |-> RatioOf(others, i)]
  <2>1. Machine(standings) = SumFunction(f) /\ Machine(others) = SumFunction(g)
    BY DEF Machine
  <2>2. DOMAIN f = S /\ DOMAIN g = S /\ \A i \in S : f[i] \in Int /\ g[i] = f[i] + w * more
    BY <1>5
  <2> HIDE DEF f, g, S, w, n
  <2>3. SumFunction(g) = SumFunction(f) + Cardinality(S) * (w * more)
    BY <1>2, <1>4, <2>2, SumMoves
  <2>4. SumFunction(f) \in Int
    BY <1>2, <2>2, SumIsWhole
  <2> QED
    BY <1>2, <2>1, <2>3, <2>4
<1>7. ASSUME NEW i \in S
      PROVE  Inside(others, i) <=> Inside(standings, i)
  <2> DEFINE a == RatioOf(standings, i)
             m == Machine(standings)
  <2>1. Drift(standings, i) = n * a - m
    BY DEF Drift
  <2>2. Drift(others, i) = n * (a + w * more) - (m + n * (w * more))
    BY <1>1, <1>5, <1>6 DEF Drift
  <2>3. a \in Int /\ m \in Int
    BY <1>5, <1>6
  <2> HIDE DEF a, m, n, w
  <2>4. n * (a + w * more) = n * a + n * (w * more) /\ n * a \in Int /\ n * (w * more) \in Int
    BY <1>3, <1>4, <2>3, Distributes
  <2>5. Drift(others, i) = Drift(standings, i)
    BY <2>1, <2>2, <2>3, <2>4
  <2> QED
    BY <1>1, <2>5 DEF Inside, n, w
<1> QED
  BY <1>7 DEF Clean

\* What a record says.
LEMMA TakenIsTimed ==
  ASSUME NEW record \in Records
  PROVE  Timed(record) /\ "took" \in DOMAIN record /\ "driver" \in DOMAIN record
<1>1. PICK taking \in Takings : record = Record(taking)
  BY DEF Records
<1>2. record.took = taking.took /\ "took" \in DOMAIN record /\ "driver" \in DOMAIN record
  BY <1>1 DEF Record
<1> QED
  BY <1>2, TakingsAssumption DEF Timed

\* A record as a slower machine would have left it is one.
LEMMA SlowedRecord ==
  ASSUME NEW record \in Records, NEW more \in Int
  PROVE  Slowed(record, SlowedBy(record, more), more)
<1> DEFINE other == SlowedBy(record, more)
<1>1. Timed(record) /\ "took" \in DOMAIN record /\ "driver" \in DOMAIN record
  BY TakenIsTimed
<1>2. ASSUME NEW q \in Query
      PROVE  /\ other.driver = record.driver
             /\ other.took[q] \in Seq(Int)
             /\ Len(other.took[q]) = Len(record.took[q])
             /\ \A i \in 1..Len(record.took[q]) : other.took[q][i] = record.took[q][i] + more
  BY <1>1, SlowedIs
<1>3. other.driver = record.driver
  BY <1>1 DEF SlowedBy
<1> HIDE DEF other
<1>4. ASSUME NEW q \in Query, NEW column \in Columns
      PROVE  Moved(Ours(record, column, q), Ours(other, column, q), more)
  <2>1. record.took[q] \in Seq(Int)
    BY <1>1 DEF Timed
  <2> QED
    BY <1>2, <2>1, SlowedOurs
<1>5. Timed(other)
  BY <1>2 DEF Timed
<1>6. Slowed(record, other, more)
  BY <1>1, <1>3, <1>4, <1>5 DEF Slowed
<1> QED
  BY <1>6 DEF other

\* Every ratio and the shared factor move alike, and no drift does.
LEMMA SameGrade ==
  ASSUME NEW column \in Columns, NEW more \in Int, NEW records \in Seq(Records)
  PROVE  Grade([i \in 1..Len(records) |-> SlowedBy(records[i], more)], column) = Grade(records, column)
<1> DEFINE others == [i \in 1..Len(records) |-> SlowedBy(records[i], more)]
           standings == Standings(records, column)
           late == Standings(others, column)
<1>1. /\ Len(records) \in Nat /\ Len(others) = Len(records)
      /\ \A i \in 1..Len(records) : records[i] \in Records /\ others[i] = SlowedBy(records[i], more)
  OBVIOUS
<1> HIDE DEF others
<1>2. ASSUME NEW i \in 1..Len(records)
      PROVE  Slowed(records[i], others[i], more) /\ Timed(records[i]) /\ Timed(others[i])
  <2>1. Slowed(records[i], others[i], more)
    BY <1>1, SlowedRecord
  <2> QED
    BY <2>1 DEF Slowed
<1>3. Sound(standings) /\ Sound(late)
  BY <1>1, <1>2, StandingsAreSound
<1>4. DOMAIN late = DOMAIN standings
  <2>1. ASSUME NEW i \in 1..Len(records)
        PROVE  Referenced(others[i].driver) /\ Paired(others[i], column) # {}
                 <=> Referenced(records[i].driver) /\ Paired(records[i], column) # {}
    BY <1>2, SlowedStanding DEF Slowed
  <2> QED
    BY <1>1, <2>1 DEF Standings
<1>5. ASSUME NEW i \in DOMAIN standings
      PROVE  /\ late[i].count = standings[i].count
             /\ late[i].sum = standings[i].sum + standings[i].count * more
  <2>1. /\ i \in 1..Len(records) /\ Referenced(records[i].driver)
        /\ standings[i] = Standing(records[i], column)
    BY DEF Standings
  <2>2. late[i] = Standing(others[i], column)
    BY <1>4 DEF Standings
  <2> HIDE DEF standings, late
  <2> QED
    BY <1>2, <2>1, <2>2, SlowedStanding
<1> HIDE DEF standings, late
<1>6. Clean(late) <=> Clean(standings)
  BY <1>3, <1>4, <1>5, SameDrift
<1>7. Grade(others, column) = Grade(records, column)
  BY <1>4, <1>6 DEF Grade, standings, late
<1> QED
  BY <1>7 DEF others

\* What a command that graded came to is what the records it has come to.
CalibratedInv ==
  /\ GradedInv
  /\ command \in Asks
  /\ Graded => verdict = Grade(taken, command.column)

\* A verdict is the grade of what was read, under every reading and writing.
LEMMA CalibratedHold == CheckSpec => []CalibratedInv
<1>1. CheckInit => CalibratedInv
  BY GradedInit DEF CheckInit, CalibratedInv, Graded
<1>2. CalibratedInv /\ [CheckNext]_checkVars => CalibratedInv'
  <2> SUFFICES ASSUME CalibratedInv, [CheckNext]_checkVars PROVE CalibratedInv'
    OBVIOUS
  <2>1. GradedInv'
    BY GradedStep DEF CalibratedInv
  <2>2. command' = command
    BY DEF CheckNext, WriteRecord, ReadNext, Check, Calibrate, checkVars
  <2>3. Graded' => verdict' = Grade(taken', command'.column)
    <3>1. CASE WriteRecord
      BY <3>1 DEF WriteRecord, CalibratedInv, Graded
    <3>2. CASE ReadNext
      BY <3>2 DEF ReadNext, Graded
    <3>3. CASE Check
      BY <3>3 DEF Check, Graded
    <3>4. CASE Calibrate
      BY <3>4 DEF Calibrate, Graded
    <3>5. CASE UNCHANGED checkVars
      BY <3>5 DEF checkVars, CalibratedInv, Graded
    <3> QED
      BY <3>1, <3>2, <3>3, <3>4, <3>5 DEF CheckNext
  <2> QED
    BY <2>1, <2>2, <2>3 DEF CalibratedInv
<1> QED
  BY <1>1, <1>2, PTL DEF CheckSpec

\* What is graded is of runs with times.
LEMMA TakenAreTimed ==
  ASSUME CalibratedInv
  PROVE  Sound(Standings(taken, command.column))
<1>1. command.column \in Columns /\ Len(taken) \in Nat /\ \A i \in 1..Len(taken) : taken[i] \in Records
  BY DEF CalibratedInv, GradedInv, Asks
<1> QED
  BY <1>1, TakenIsTimed, StandingsAreSound

\* leaderboard, "What this does catch is one driver out of line with the
\* others": for any number of drivers, records, queries and skipped numbers,
\* drivers that pass are within both sides of the band of each other, and where
\* one fails some two are further apart than the nearer side.
THEOREM ApartMeansOutsideHolds == CheckSpec => []ApartMeansOutside
<1>1. CalibratedInv => ApartMeansOutside
  <2> SUFFICES ASSUME CalibratedInv, Graded PROVE ApartMeansOutside
    BY DEF ApartMeansOutside
  <2> DEFINE standings == Standings(taken, command.column)
  <2>1. Sound(standings)
    BY TakenAreTimed
  <2>2. verdict = IF DOMAIN standings = {} THEN "incomparable" ELSE IF Clean(standings) THEN "inside" ELSE "outside"
    BY DEF CalibratedInv, Grade
  <2> HIDE DEF standings
  <2>3. verdict = "inside" => \A i, j \in DOMAIN standings :
          RatioOf(standings, i) - RatioOf(standings, j) <= (BandUp + BandDown) * Whole(standings)
    BY <2>1, <2>2, InsideIsClose
  <2>4. verdict = "outside" => \E i, j \in DOMAIN standings :
          RatioOf(standings, i) - RatioOf(standings, j) > Min({BandUp, BandDown}) * Whole(standings)
    BY <2>1, <2>2, OutsideIsApart
  <2> QED
    BY <2>3, <2>4 DEF ApartMeansOutside, standings
<1> QED
  BY <1>1, CalibratedHold, PTL

\* leaderboard, "A mistake that slows every driver here by the same amount is
\* arithmetically indistinguishable from a slower machine": whatever factor all
\* the durations of all the records have in common, the verdict is the same.
THEOREM SlowMachineIsTheSameHolds == CheckSpec => []SlowMachineIsTheSame
<1>1. CalibratedInv => SlowMachineIsTheSame
  <2> SUFFICES ASSUME CalibratedInv, Graded, NEW more \in Slower
               PROVE  verdict = Grade([i \in 1..Len(taken) |-> SlowedBy(taken[i], more)], command.column)
    BY DEF SlowMachineIsTheSame
  <2>1. command.column \in Columns /\ taken \in Seq(Records) /\ more \in Int
    BY SlowerAssumption DEF CalibratedInv, GradedInv, Asks
  <2>2. verdict = Grade(taken, command.column)
    BY DEF CalibratedInv
  <2> QED
    BY <2>1, <2>2, SameGrade
<1> QED
  BY <1>1, CalibratedHold, PTL

=============================================================================
