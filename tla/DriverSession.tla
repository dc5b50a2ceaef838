--------------------------- MODULE DriverSession ---------------------------
(***************************************************************************)
(* The three phases of crates/bench-driver/src/phase.rs and the systems    *)
(* behind them: a Session borrows a Driver, calls prepare, load and run on *)
(* it and holds the clock.  A runner is a process with one session; several*)
(* may be given one scratch directory, at once or one after another.  A    *)
(* call into the driver is one step: the session owns the driver while it  *)
(* lasts, and the system under test is another project's.                  *)
(***************************************************************************)
EXTENDS Naturals, FiniteSets

CONSTANTS
  Runner,           \* processes, each with a session of its own
  Table,            \* tables of the workload
  Query,            \* queries of the workload
  Reads(_),         \* Reads(q): the tables the query q reads
  Directory,        \* scratch directories
  DirectoryOf(_),   \* DirectoryOf(r): the one in r's Setup
  Keeps(_),         \* Keeps(r): r's system keeps its database in that directory
  DoesNothing(_),   \* DoesNothing(r): r's system is the null driver, which answers anything
  Nanos,            \* what one call into a driver may take
  MaxCalls          \* bound: calls a session makes into each phase

ASSUME DirectoryAssumption == \A r \in Runner : DirectoryOf(r) \in Directory
ASSUME ReadsAssumption == \A q \in Query : Reads(q) \subseteq Table
ASSUME KeepsAssumption == \A r \in Runner : Keeps(r) \in BOOLEAN /\ DoesNothing(r) \in BOOLEAN
ASSUME NanosAssumption == Nanos \subseteq Nat \ {0}

VARIABLES
  prepared,  \* prepared[r]: Session::prepared
  loaded,    \* loaded[r]: Session::loaded
  phases,    \* phases[r]: Session::phases, the nanoseconds charged to each
  counts,    \* counts[r]: the tables and queries of Session::phases
  spent,     \* spent[r]: the nanoseconds that went by inside the driver
  calls,     \* calls[r]: how often each phase of the driver was entered
  system,    \* system[r]: whether it is up, and the tables it can answer from
  mine,      \* mine[r]: the tables this session got in
  disk,      \* disk[d]: the tables of the database left in the directory d
  said       \* said[r]: what the last call of the session came to

sessionVars == <<prepared, loaded, phases, counts, spent, calls, system, mine, disk, said>>

Phase == {"prepare", "load", "run"}
Errors == {"OutOfOrder", "Repeated", "Unsupported", "System"}
None == [ph \in Phase |-> 0]
Closed == [up |-> FALSE, tables |-> {}]

\* The session charges and counts whole numbers, and a system holds tables of
\* the workload.
SessionTypeOK ==
  /\ prepared \in [Runner -> BOOLEAN]
  /\ loaded \in [Runner -> BOOLEAN]
  /\ phases \in [Runner -> [Phase -> Nat]]
  /\ counts \in [Runner -> [tables : Nat, queries : Nat]]
  /\ spent \in [Runner -> [Phase -> Nat]]
  /\ calls \in [Runner -> [Phase -> Nat]]
  /\ system \in [Runner -> [up : BOOLEAN, tables : SUBSET Table]]
  /\ mine \in [Runner -> SUBSET Table]
  /\ disk \in [Directory -> SUBSET Table]
  /\ said \in [Runner -> {"none", "ok"} \cup Errors]

\* Session::new over a driver nobody has started.
SessionInit ==
  /\ prepared = [r \in Runner |-> FALSE]
  /\ loaded = [r \in Runner |-> FALSE]
  /\ phases = [r \in Runner |-> None]
  /\ counts = [r \in Runner |-> [tables |-> 0, queries |-> 0]]
  /\ spent = [r \in Runner |-> None]
  /\ calls = [r \in Runner |-> None]
  /\ system = [r \in Runner |-> Closed]
  /\ mine = [r \in Runner |-> {}]
  /\ disk = [d \in Directory |-> {}]
  /\ said = [r \in Runner |-> "none"]

Says(r, what) == said' = [said EXCEPT ![r] = what]
Left(r) == disk[DirectoryOf(r)]
Refuse(r, error) ==
  /\ Says(r, error)
  /\ UNCHANGED <<prepared, loaded, phases, counts, spent, calls, system, mine, disk>>

\* bench_core::time around a call into the driver: the time goes by whatever
\* the call comes to.
Called(r, ph, n) ==
  /\ spent' = [spent EXCEPT ![r][ph] = @ + n]
  /\ calls' = [calls EXCEPT ![r][ph] = @ + 1]

\* A slip in Charge: the end of the clock is taken from its start.
Charge_Backwards(r, ph, n) ==
  phases' = [phases EXCEPT ![r][ph] = @ - n]

\* A slip in Charge: the last call replaces the ones before it.
Charge_Overwrites(r, ph, n) ==
  phases' = [phases EXCEPT ![r][ph] = n]

\* The clock's reading is added only behind `result?`.
Charge(r, ph, n) == phases' = [phases EXCEPT ![r][ph] = @ + n]

\* A call that returns an error leaves the session as it was.
Fails(r, error) ==
  /\ Says(r, error)
  /\ UNCHANGED <<prepared, loaded, phases, counts, system, mine, disk>>

\* Driver::prepare: the system starts, on whatever database it finds.
SystemStarts(r) ==
  system' = [system EXCEPT ![r] = [up |-> TRUE, tables |-> IF Keeps(r) THEN Left(r) ELSE {}]]

\* Driver::load: CREATE OR REPLACE TABLE, or a registration in memory.
SystemTakes(r, t) ==
  /\ system' = [system EXCEPT ![r].tables = @ \cup {t}]
  /\ disk' = IF Keeps(r) THEN [disk EXCEPT ![DirectoryOf(r)] = @ \cup {t}] ELSE disk

\* Driver::run: a system that is up answers from the tables it has, or from
\* nothing at all.
CanAnswer(r, q) == system[r].up /\ (DoesNothing(r) \/ Reads(q) \subseteq system[r].tables)

Prepare(r) ==
  IF prepared[r] THEN Refuse(r, "Repeated")
  ELSE \E n \in Nanos :
         /\ Called(r, "prepare", n)
         /\ \/ /\ prepared' = [prepared EXCEPT ![r] = TRUE]
               /\ Charge(r, "prepare", n)
               /\ SystemStarts(r)
               /\ Says(r, "ok")
               /\ UNCHANGED <<loaded, counts, mine, disk>>
            \/ Fails(r, "System")

\* A slip in LoadTable: loaded is set before the driver has answered.
LoadTable_SetFirst(r, t) ==
  IF ~prepared[r] THEN Refuse(r, "OutOfOrder")
  ELSE \E n \in Nanos :
         /\ Called(r, "load", n)
         /\ loaded' = [loaded EXCEPT ![r] = TRUE]
         /\ \/ /\ Charge(r, "load", n)
               /\ counts' = [counts EXCEPT ![r].tables = @ + 1]
               /\ SystemTakes(r, t)
               /\ mine' = [mine EXCEPT ![r] = @ \cup {t}]
               /\ Says(r, "ok")
               /\ UNCHANGED prepared
            \/ /\ Says(r, "System")
               /\ UNCHANGED <<prepared, phases, counts, system, mine, disk>>

\* A slip in LoadTable: CREATE TABLE IF NOT EXISTS, over what an earlier command left.
LoadTable_IfNotExists(r, t) ==
  IF ~prepared[r] THEN Refuse(r, "OutOfOrder")
  ELSE \E n \in Nanos :
         /\ Called(r, "load", n)
         /\ \/ /\ loaded' = [loaded EXCEPT ![r] = TRUE]
               /\ Charge(r, "load", n)
               /\ counts' = [counts EXCEPT ![r].tables = @ + 1]
               /\ SystemTakes(r, t)
               /\ mine' = [mine EXCEPT ![r] = @ \cup ({t} \ system[r].tables)]
               /\ Says(r, "ok")
               /\ UNCHANGED prepared
            \/ \E error \in {"Unsupported", "System"} : Fails(r, error)

LoadTable(r, t) ==
  IF ~prepared[r] THEN Refuse(r, "OutOfOrder")
  ELSE \E n \in Nanos :
         /\ Called(r, "load", n)
         /\ \/ /\ loaded' = [loaded EXCEPT ![r] = TRUE]
               /\ Charge(r, "load", n)
               /\ counts' = [counts EXCEPT ![r].tables = @ + 1]
               /\ SystemTakes(r, t)
               /\ mine' = [mine EXCEPT ![r] = @ \cup {t}]
               /\ Says(r, "ok")
               /\ UNCHANGED prepared
            \/ \E error \in {"Unsupported", "System"} : Fails(r, error)

AskQuery(r, q) ==
  IF ~loaded[r] THEN Refuse(r, "OutOfOrder")
  ELSE \E n \in Nanos :
         /\ Called(r, "run", n)
         /\ \/ /\ CanAnswer(r, q)
               /\ Charge(r, "run", n)
               /\ counts' = [counts EXCEPT ![r].queries = @ + 1]
               /\ Says(r, "ok")
               /\ UNCHANGED <<prepared, loaded, system, mine, disk>>
            \/ \E error \in {"Unsupported", "System"} : Fails(r, error)

\* The process ends, or is killed: the session and the driver are gone, and
\* nothing removes what is in the directory.  Another may take its place.
Ends(r) ==
  /\ prepared' = [prepared EXCEPT ![r] = FALSE]
  /\ loaded' = [loaded EXCEPT ![r] = FALSE]
  /\ phases' = [phases EXCEPT ![r] = None]
  /\ counts' = [counts EXCEPT ![r] = [tables |-> 0, queries |-> 0]]
  /\ spent' = [spent EXCEPT ![r] = None]
  /\ calls' = [calls EXCEPT ![r] = None]
  /\ system' = [system EXCEPT ![r] = Closed]
  /\ mine' = [mine EXCEPT ![r] = {}]
  /\ said' = [said EXCEPT ![r] = "none"]
  /\ UNCHANGED disk

\* A caller that may call anything, in any order.
SessionNext ==
  \E r \in Runner :
    \/ calls[r]["prepare"] < MaxCalls /\ Prepare(r)
    \/ calls[r]["load"] < MaxCalls /\ \E t \in Table : LoadTable(r, t)
    \/ calls[r]["run"] < MaxCalls /\ \E q \in Query : AskQuery(r, q)
    \/ Ends(r)

SessionSpec == SessionInit /\ [][SessionNext]_sessionVars

-----------------------------------------------------------------------------

\* "What the ordering rule is for": whatever order a caller tries, the driver
\* is up whenever load may be called and this session has got a table in
\* whenever run may be, failed phases and earlier databases notwithstanding.
PhasesInStep ==
  \A r \in Runner :
    /\ prepared[r] <=> system[r].up
    /\ loaded[r] <=> mine[r] # {}
    /\ mine[r] \subseteq system[r].tables
    /\ counts[r].queries > 0 => loaded[r] /\ prepared[r]

\* Phases: a phase is never charged more than went by in it, and nothing that
\* was counted went uncharged: so many tables and queries cost at least that.
ChargedWithinSpent ==
  \A r \in Runner :
    /\ \A ph \in Phase : phases[r][ph] <= spent[r][ph]
    /\ counts[r].tables <= phases[r]["load"]
    /\ counts[r].queries <= phases[r]["run"]
    /\ Cardinality(mine[r]) <= counts[r].tables
    /\ prepared[r] <=> phases[r]["prepare"] > 0

-----------------------------------------------------------------------------
(* What the source says of itself and TLC refutes.                          *)

\* Setup::directory: "Empty when preparation starts, and removed after."
DirectoryStartsEmpty ==
  [][\A r \in Runner :
       ~prepared[r] /\ prepared'[r] => disk[DirectoryOf(r)] = {}]_sessionVars

=============================================================================
