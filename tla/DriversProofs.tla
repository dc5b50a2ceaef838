---------------------------- MODULE DriversProofs --------------------------
(***************************************************************************)
(* The ordering rule and the charges of crates/bench-driver/src/phase.rs,  *)
(* for any number of sessions, tables, queries and directories, whatever   *)
(* is called in whatever order, and that the four drivers of drivers/ are  *)
(* used by their sessions in no other way.  After that, that what a driver *)
(* was told decides its digest, and that its digest decides what it was    *)
(* told, for which the canonical form is read back, character by character.*)
(***************************************************************************)
EXTENDS Drivers, FiniteSetTheorems, SequenceTheorems, WellFoundedInduction, TLAPS

\* A set that gains a member has one more at the most.
LEMMA OneMore ==
  ASSUME NEW S, IsFiniteSet(S), NEW x
  PROVE  /\ IsFiniteSet(S \cup {x})
         /\ Cardinality(S) \in Nat
         /\ Cardinality(S \cup {x}) \in Nat
         /\ Cardinality(S \cup {x}) <= Cardinality(S) + 1
BY FS_AddElement, FS_CardinalityType

-----------------------------------------------------------------------------
(* What a session knows, one session at a time.                             *)

\* The flags, the system and the tables of one session; that a session which
\* has loaded was prepared is what its preparation needs to know.
InStep(r) ==
  /\ prepared[r] <=> system[r].up
  /\ loaded[r] <=> mine[r] # {}
  /\ loaded[r] => prepared[r]
  /\ mine[r] \subseteq system[r].tables
  /\ counts[r].queries > 0 => loaded[r]

\* The charges of one session.
Charged(r) ==
  /\ \A ph \in Phase : phases[r][ph] <= spent[r][ph]
  /\ counts[r].tables <= phases[r]["load"]
  /\ counts[r].queries <= phases[r]["run"]
  /\ IsFiniteSet(mine[r]) /\ Cardinality(mine[r]) <= counts[r].tables
  /\ prepared[r] <=> phases[r]["prepare"] > 0

SessionInv == SessionTypeOK /\ \A r \in Runner : InStep(r) /\ Charged(r)

LEMMA InvIsEnough == SessionInv => SessionTypeOK /\ PhasesInStep /\ ChargedWithinSpent
BY DEF SessionInv, InStep, Charged, PhasesInStep, ChargedWithinSpent

LEMMA SessionStarts == SessionInit => SessionInv
<1> SUFFICES ASSUME SessionInit
             PROVE  SessionInv
  OBVIOUS
<1>1. SessionTypeOK
  BY DEF SessionInit, SessionTypeOK, None, Closed, Phase
<1>2. ASSUME NEW r \in Runner
      PROVE  InStep(r) /\ Charged(r)
  <2>1. InStep(r)
    BY DEF SessionInit, InStep, Closed
  <2>2. IsFiniteSet({}) /\ Cardinality({}) = 0
    BY FS_EmptySet
  <2>3. Charged(r)
    BY <2>2 DEF SessionInit, Charged, None, Phase
  <2> QED
    BY <2>1, <2>3
<1> QED
  BY <1>1, <1>2 DEF SessionInv

\* What a step of one session leaves of another.
Apart(s) ==
  /\ prepared'[s] = prepared[s] /\ loaded'[s] = loaded[s]
  /\ phases'[s] = phases[s] /\ counts'[s] = counts[s] /\ spent'[s] = spent[s]
  /\ system'[s] = system[s] /\ mine'[s] = mine[s]

LEMMA ApartKeeps ==
  ASSUME NEW s \in Runner, InStep(s), Charged(s), Apart(s)
  PROVE  InStep(s)' /\ Charged(s)'
BY DEF InStep, Charged, Apart

\* A call that was refused before the driver was asked.
LEMMA RefuseKeeps ==
  ASSUME SessionInv, NEW r \in Runner, NEW error \in Errors, Refuse(r, error)
  PROVE  SessionInv'
<1>1. SessionTypeOK'
  BY DEF SessionInv, SessionTypeOK, Refuse, Says
<1>2. ASSUME NEW s \in Runner PROVE InStep(s)' /\ Charged(s)'
  BY ApartKeeps DEF SessionInv, Refuse, Apart
<1> QED
  BY <1>1, <1>2 DEF SessionInv

\* A call that failed after n nanoseconds, which are spent and not charged.
LEMMA FailsKeeps ==
  ASSUME SessionInv, NEW r \in Runner, NEW error \in Errors, NEW ph \in Phase, NEW n \in Nanos,
         Called(r, ph, n), Fails(r, error)
  PROVE  SessionInv'
<1>1. n \in Nat
  BY NanosAssumption
<1>2. SessionTypeOK'
  BY <1>1 DEF SessionInv, SessionTypeOK, Called, Fails, Says
<1>3. ASSUME NEW s \in Runner
      PROVE  InStep(s)' /\ Charged(s)'
  <2>1. InStep(s)'
    BY DEF SessionInv, InStep, Fails
  <2>2. \A other \in Phase : spent[s][other] <= spent'[s][other]
    BY <1>1 DEF SessionInv, SessionTypeOK, Called
  <2>3. \A other \in Phase : phases[s][other] \in Nat /\ spent[s][other] \in Nat /\ spent'[s][other] \in Nat
    BY <1>2 DEF SessionInv, SessionTypeOK
  <2>4. Charged(s)'
    BY <2>2, <2>3 DEF SessionInv, Charged, Fails
  <2> QED
    BY <2>1, <2>4
<1> QED
  BY <1>2, <1>3 DEF SessionInv

\* Nanoseconds and counts are whole numbers after a step, too.
LEMMA AddedTo ==
  ASSUME NEW f \in [Runner -> [Phase -> Nat]], NEW r \in Runner, NEW ph \in Phase, NEW n \in Nat
  PROVE  [f EXCEPT ![r][ph] = @ + n] \in [Runner -> [Phase -> Nat]]
<1>1. [f[r] EXCEPT ![ph] = @ + n] \in [Phase -> Nat]
  OBVIOUS
<1> QED
  BY <1>1

LEMMA ChargesAreTyped ==
  ASSUME SessionTypeOK, NEW r \in Runner, NEW ph \in Phase, NEW n \in Nat,
         Called(r, ph, n), Charge(r, ph, n)
  PROVE  /\ phases' \in [Runner -> [Phase -> Nat]] /\ spent' \in [Runner -> [Phase -> Nat]]
         /\ calls' \in [Runner -> [Phase -> Nat]]
<1>1. /\ phases \in [Runner -> [Phase -> Nat]] /\ spent \in [Runner -> [Phase -> Nat]]
      /\ calls \in [Runner -> [Phase -> Nat]]
  BY DEF SessionTypeOK
<1>2. /\ phases' = [phases EXCEPT ![r][ph] = @ + n] /\ spent' = [spent EXCEPT ![r][ph] = @ + n]
      /\ calls' = [calls EXCEPT ![r][ph] = @ + 1]
  BY DEF Called, Charge
<1>3. 1 \in Nat
  OBVIOUS
<1> QED
  BY <1>1, <1>2, <1>3, AddedTo

LEMMA CountsAreTyped ==
  ASSUME SessionTypeOK, NEW r \in Runner
  PROVE  /\ [counts EXCEPT ![r].tables = @ + 1] \in [Runner -> [tables : Nat, queries : Nat]]
         /\ [counts EXCEPT ![r].queries = @ + 1] \in [Runner -> [tables : Nat, queries : Nat]]
<1>1. counts[r] \in [tables : Nat, queries : Nat] /\ counts \in [Runner -> [tables : Nat, queries : Nat]]
  BY DEF SessionTypeOK
<1>2. /\ [counts[r] EXCEPT !.tables = @ + 1] \in [tables : Nat, queries : Nat]
      /\ [counts[r] EXCEPT !.queries = @ + 1] \in [tables : Nat, queries : Nat]
  BY <1>1
<1> QED
  BY <1>1, <1>2

LEMMA PrepareKeeps ==
  ASSUME SessionInv, NEW r \in Runner, Prepare(r)
  PROVE  SessionInv'
<1>1. CASE prepared[r]
  BY <1>1, RefuseKeeps DEF Prepare, Errors
<1>2. ASSUME NEW n \in Nanos, Called(r, "prepare", n), Fails(r, "System")
      PROVE  SessionInv'
  BY <1>2, FailsKeeps DEF Errors, Phase
<1>3. ASSUME ~prepared[r], NEW n \in Nanos, Called(r, "prepare", n),
             prepared' = [prepared EXCEPT ![r] = TRUE], Charge(r, "prepare", n), SystemStarts(r),
             Says(r, "ok"), UNCHANGED <<loaded, counts, mine, disk>>
      PROVE  SessionInv'
  <2>1. n \in Nat /\ n > 0
    BY NanosAssumption
  <2>2. SessionTypeOK'
    <3>1. Left(r) \in SUBSET Table
      BY DirectoryAssumption DEF SessionInv, SessionTypeOK, Left
    <3>2. prepared' \in [Runner -> BOOLEAN] /\ loaded' \in [Runner -> BOOLEAN]
      BY <1>3 DEF SessionInv, SessionTypeOK
    <3>3. phases' \in [Runner -> [Phase -> Nat]] /\ spent' \in [Runner -> [Phase -> Nat]]
          /\ calls' \in [Runner -> [Phase -> Nat]]
      BY <1>3, <2>1, ChargesAreTyped DEF SessionInv, Phase
    <3>4. system' \in [Runner -> [up : BOOLEAN, tables : SUBSET Table]]
      BY <1>3, <3>1 DEF SessionInv, SessionTypeOK, SystemStarts
    <3> QED
      BY <1>3, <3>2, <3>3, <3>4 DEF SessionInv, SessionTypeOK, Says
  <2>3. ASSUME NEW s \in Runner, s # r
        PROVE  InStep(s)' /\ Charged(s)'
    BY <1>3, <2>3, ApartKeeps DEF SessionInv, SessionTypeOK, Apart, Called, Charge, SystemStarts
  <2>4. InStep(r)'
    BY <1>3 DEF SessionInv, SessionTypeOK, InStep, SystemStarts
  <2>5. /\ spent'[r] = [spent[r] EXCEPT !["prepare"] = @ + n]
        /\ phases'[r] = [phases[r] EXCEPT !["prepare"] = @ + n]
        /\ phases[r] \in [Phase -> Nat] /\ spent[r] \in [Phase -> Nat]
    BY <1>3 DEF SessionInv, SessionTypeOK, Called, Charge
  <2>6. Charged(r)'
    BY <1>3, <2>1, <2>5 DEF SessionInv, SessionTypeOK, Charged, Phase
  <2> QED
    BY <2>2, <2>3, <2>4, <2>6 DEF SessionInv
<1> QED
  BY <1>1, <1>2, <1>3 DEF Prepare

LEMMA LoadTableKeeps ==
  ASSUME SessionInv, NEW r \in Runner, NEW t \in Table, LoadTable(r, t)
  PROVE  SessionInv'
<1>1. CASE ~prepared[r]
  BY <1>1, RefuseKeeps DEF LoadTable, Errors
<1>2. ASSUME NEW n \in Nanos, Called(r, "load", n),
             \E error \in {"Unsupported", "System"} : Fails(r, error)
      PROVE  SessionInv'
  BY <1>2, FailsKeeps DEF Errors, Phase
<1>3. ASSUME prepared[r], NEW n \in Nanos, Called(r, "load", n),
             loaded' = [loaded EXCEPT ![r] = TRUE], Charge(r, "load", n),
             counts' = [counts EXCEPT ![r].tables = @ + 1], SystemTakes(r, t),
             mine' = [mine EXCEPT ![r] = @ \cup {t}], Says(r, "ok"), UNCHANGED prepared
      PROVE  SessionInv'
  <2>1. n \in Nat /\ n > 0
    BY NanosAssumption
  <2>2. SessionTypeOK'
    <3>1. loaded' \in [Runner -> BOOLEAN] /\ mine' \in [Runner -> SUBSET Table]
      BY <1>3 DEF SessionInv, SessionTypeOK
    <3>2. phases' \in [Runner -> [Phase -> Nat]] /\ spent' \in [Runner -> [Phase -> Nat]]
          /\ calls' \in [Runner -> [Phase -> Nat]]
      BY <1>3, <2>1, ChargesAreTyped DEF SessionInv, Phase
    <3>3. counts' \in [Runner -> [tables : Nat, queries : Nat]]
      BY <1>3, CountsAreTyped DEF SessionInv
    <3>4. system' \in [Runner -> [up : BOOLEAN, tables : SUBSET Table]]
      BY <1>3 DEF SessionInv, SessionTypeOK, SystemTakes
    <3>5. disk' \in [Directory -> SUBSET Table]
      BY <1>3, DirectoryAssumption DEF SessionInv, SessionTypeOK, SystemTakes
    <3> QED
      BY <1>3, <3>1, <3>2, <3>3, <3>4, <3>5 DEF SessionInv, SessionTypeOK, Says
  <2>3. ASSUME NEW s \in Runner, s # r
        PROVE  InStep(s)' /\ Charged(s)'
    BY <1>3, <2>3, ApartKeeps DEF SessionInv, SessionTypeOK, Apart, Called, Charge, SystemTakes
  <2>4. /\ spent'[r] = [spent[r] EXCEPT !["load"] = @ + n]
        /\ phases'[r] = [phases[r] EXCEPT !["load"] = @ + n]
        /\ counts'[r] = [counts[r] EXCEPT !.tables = @ + 1]
        /\ mine'[r] = mine[r] \cup {t} /\ loaded'[r] = TRUE
        /\ system'[r] = [system[r] EXCEPT !.tables = @ \cup {t}]
        /\ phases[r] \in [Phase -> Nat] /\ spent[r] \in [Phase -> Nat]
        /\ counts[r] \in [tables : Nat, queries : Nat]
        /\ system[r] \in [up : BOOLEAN, tables : SUBSET Table]
    BY <1>3 DEF SessionInv, SessionTypeOK, Called, Charge, SystemTakes
  <2>5. InStep(r)'
    BY <1>3, <2>4 DEF SessionInv, InStep
  <2>6. /\ IsFiniteSet(mine'[r]) /\ Cardinality(mine'[r]) \in Nat /\ Cardinality(mine[r]) \in Nat
        /\ Cardinality(mine'[r]) <= Cardinality(mine[r]) + 1
    <3>1. IsFiniteSet(mine[r])
      BY DEF SessionInv, Charged
    <3>2. /\ IsFiniteSet(mine[r] \cup {t})
          /\ Cardinality(mine[r] \cup {t}) \in Nat /\ Cardinality(mine[r]) \in Nat
          /\ Cardinality(mine[r] \cup {t}) <= Cardinality(mine[r]) + 1
      BY <3>1, OneMore
    <3> QED
      BY <2>4, <3>2
  <2>7. Charged(r)'
    BY <1>3, <2>1, <2>4, <2>6 DEF SessionInv, Charged, Phase
  <2> QED
    BY <2>2, <2>3, <2>5, <2>7 DEF SessionInv
<1> QED
  BY <1>1, <1>2, <1>3 DEF LoadTable

LEMMA AskQueryKeeps ==
  ASSUME SessionInv, NEW r \in Runner, NEW q \in Query, AskQuery(r, q)
  PROVE  SessionInv'
<1>1. CASE ~loaded[r]
  BY <1>1, RefuseKeeps DEF AskQuery, Errors
<1>2. ASSUME NEW n \in Nanos, Called(r, "run", n),
             \E error \in {"Unsupported", "System"} : Fails(r, error)
      PROVE  SessionInv'
  BY <1>2, FailsKeeps DEF Errors, Phase
<1>3. ASSUME loaded[r], NEW n \in Nanos, Called(r, "run", n), Charge(r, "run", n),
             counts' = [counts EXCEPT ![r].queries = @ + 1], Says(r, "ok"),
             UNCHANGED <<prepared, loaded, system, mine, disk>>
      PROVE  SessionInv'
  <2>1. n \in Nat /\ n > 0
    BY NanosAssumption
  <2>2. SessionTypeOK'
    <3>1. phases' \in [Runner -> [Phase -> Nat]] /\ spent' \in [Runner -> [Phase -> Nat]]
          /\ calls' \in [Runner -> [Phase -> Nat]]
      BY <1>3, <2>1, ChargesAreTyped DEF SessionInv, Phase
    <3>2. counts' \in [Runner -> [tables : Nat, queries : Nat]]
      BY <1>3, CountsAreTyped DEF SessionInv
    <3> QED
      BY <1>3, <3>1, <3>2 DEF SessionInv, SessionTypeOK, Says
  <2>3. ASSUME NEW s \in Runner, s # r
        PROVE  InStep(s)' /\ Charged(s)'
    BY <1>3, <2>3, ApartKeeps DEF SessionInv, SessionTypeOK, Apart, Called, Charge
  <2>4. /\ spent'[r] = [spent[r] EXCEPT !["run"] = @ + n]
        /\ phases'[r] = [phases[r] EXCEPT !["run"] = @ + n]
        /\ counts'[r] = [counts[r] EXCEPT !.queries = @ + 1]
        /\ phases[r] \in [Phase -> Nat] /\ spent[r] \in [Phase -> Nat]
        /\ counts[r] \in [tables : Nat, queries : Nat]
    BY <1>3 DEF SessionInv, SessionTypeOK, Called, Charge
  <2>5. InStep(r)'
    BY <1>3, <2>4 DEF SessionInv, InStep
  <2>6. Charged(r)'
    BY <1>3, <2>1, <2>4 DEF SessionInv, Charged, Phase
  <2> QED
    BY <2>2, <2>3, <2>5, <2>6 DEF SessionInv
<1> QED
  BY <1>1, <1>2, <1>3 DEF AskQuery

LEMMA EndsKeeps ==
  ASSUME SessionInv, NEW r \in Runner, Ends(r)
  PROVE  SessionInv'
<1>1. SessionTypeOK'
  BY DEF SessionInv, SessionTypeOK, Ends, None, Closed, Phase
<1>2. ASSUME NEW s \in Runner, s # r
      PROVE  InStep(s)' /\ Charged(s)'
  BY <1>2, ApartKeeps DEF SessionInv, SessionTypeOK, Apart, Ends
<1>3. /\ prepared'[r] = FALSE /\ loaded'[r] = FALSE /\ mine'[r] = {} /\ system'[r] = Closed
      /\ phases'[r] = None /\ spent'[r] = None /\ counts'[r] = [tables |-> 0, queries |-> 0]
  BY DEF SessionInv, SessionTypeOK, Ends
<1>4. InStep(r)'
  BY <1>3 DEF InStep, Closed
<1>5. IsFiniteSet({}) /\ Cardinality({}) = 0
  BY FS_EmptySet
<1>6. Charged(r)'
  BY <1>3, <1>5 DEF Charged, None, Phase
<1> QED
  BY <1>1, <1>2, <1>4, <1>6 DEF SessionInv

LEMMA SessionKept == SessionInv /\ [SessionNext]_sessionVars => SessionInv'
<1> SUFFICES ASSUME SessionInv, [SessionNext]_sessionVars
             PROVE  SessionInv'
  OBVIOUS
<1>1. ASSUME NEW r \in Runner, Prepare(r) \/ Ends(r)
      PROVE  SessionInv'
  BY <1>1, PrepareKeeps, EndsKeeps
<1>2. ASSUME NEW r \in Runner, NEW t \in Table, LoadTable(r, t)
      PROVE  SessionInv'
  BY <1>2, LoadTableKeeps
<1>3. ASSUME NEW r \in Runner, NEW q \in Query, AskQuery(r, q)
      PROVE  SessionInv'
  BY <1>3, AskQueryKeeps
<1>4. CASE UNCHANGED sessionVars
  BY <1>4 DEF SessionInv, SessionTypeOK, InStep, Charged, sessionVars
<1> QED
  BY <1>1, <1>2, <1>3, <1>4 DEF SessionNext

-----------------------------------------------------------------------------
(* The drivers under their sessions: every call into one is a call of its   *)
(* session.                                                                 *)

DriversInv ==
  /\ SessionInv
  /\ working \subseteq Runner

LEMMA DriversStart == DriversInit => DriversInv
BY SessionStarts, DriversAssumption DEF DriversInit, DriversInv

LEMMA DriversKept == DriversInv /\ [DriversNext]_allVars => DriversInv'
<1> SUFFICES ASSUME DriversInv, [DriversNext]_allVars
             PROVE  DriversInv'
  OBVIOUS
<1>1. ASSUME NEW r \in working, PrepareDriver(r)
      PROVE  DriversInv'
  BY <1>1, PrepareKeeps DEF DriversInv, PrepareDriver
<1>2. ASSUME NEW r \in working, NEW l \in Loads, LoadDriver(r, l)
      PROVE  DriversInv'
  <2>1. r \in Runner /\ l.table \in Table
    BY DriversAssumption DEF DriversInv
  <2>2. LoadTable(r, l.table) /\ working' = working
    BY <1>2 DEF LoadDriver
  <2> QED
    BY <2>1, <2>2, LoadTableKeeps DEF DriversInv
<1>3. ASSUME NEW r \in working, NEW q \in Query, AskDriver(r, q)
      PROVE  DriversInv'
  <2>1. AskQuery(r, q) /\ working' = working /\ r \in Runner
    BY <1>3 DEF AskDriver, DriversInv
  <2> QED
    BY <2>1, AskQueryKeeps DEF DriversInv
<1>4. ASSUME NEW r \in working, DriverEnds(r)
      PROVE  DriversInv'
  BY <1>4, EndsKeeps DEF DriversInv, DriverEnds
<1>5. CASE UNCHANGED allVars
  <2>1. UNCHANGED sessionVars /\ working' = working
    BY <1>5 DEF allVars, driverVars
  <2> QED
    BY <2>1, SessionKept DEF DriversInv
<1> QED
  BY <1>1, <1>2, <1>3, <1>4, <1>5 DEF DriversNext

LEMMA DriversSessions == DriversSpec => []SessionInv
<1>1. DriversInv => SessionInv
  BY DEF DriversInv
<1> QED
  BY <1>1, DriversStart, DriversKept, PTL DEF DriversSpec

-----------------------------------------------------------------------------
(* What the drivers keep.                                                   *)

Known(names) == {t \in Table : names[Own(t)] # Nothing}
NamesOK(names) == names \in [Names -> Loads \cup {Nothing}]
AtWork(r) == DriverOf(r) = "duckdb" /\ Started(r)

\* The driver of one session: its system answers to what is in its catalog, to
\* nothing before it was prepared, and with DuckDB the catalog is the database
\* in the directory, which is what the next load and the next command see.
Kept(r) ==
  /\ fields[r] \in {{}, Fields(DriverOf(r))}
  /\ system[r].up <=> Started(r)
  /\ system[r].tables = Known(catalog[r])
  /\ ~system[r].up => Known(catalog[r]) = {}
  /\ AtWork(r) => catalog[r] = database[DirectoryOf(r)]

\* One DuckDB has a database open at a time.
Alone == \A r, s \in Runner : AtWork(r) /\ AtWork(s) /\ DirectoryOf(r) = DirectoryOf(s) => r = s

KeptInv ==
  /\ DriversInv
  /\ fields \in [Runner -> SUBSET {"connection", "version", "runtime", "context", "prepared", "directory"}]
  /\ catalog \in [Runner -> [Names -> Loads \cup {Nothing}]]
  /\ database \in [Directory -> [Names -> Loads \cup {Nothing}]]
  /\ \A r \in Runner : Kept(r)
  /\ Alone
  /\ \A d \in Directory : disk[d] = Known(database[d])

LEMMA OwnIsNotRaw ==
  ASSUME NEW t \in Table, NEW u \in Table
  PROVE  /\ Own(t) \in Names /\ Raw(t) \in Names
         /\ Own(t) # Raw(u)
         /\ Own(t) = Own(u) => t = u
BY DEF Own, Raw, Names

\* A driver that has no field set is not started, one that has all of them is.
LEMMA StartedIsAllFields ==
  ASSUME NEW r \in Runner, NEW f
  PROVE  /\ f = {} => ~(Fields(DriverOf(r)) \ {"version"} \subseteq f)
         /\ f = Fields(DriverOf(r)) => Fields(DriverOf(r)) \ {"version"} \subseteq f
<1>1. \E x : x \in Fields(DriverOf(r)) \ {"version"}
  <2>1. DriverOf(r) \in DriverNames
    BY DriversAssumption
  <2>2. CASE DriverOf(r) = "duckdb"
    <3>1. "connection" \in Fields(DriverOf(r)) \ {"version"}
      BY <2>2 DEF Fields
    <3> QED
      BY <3>1
  <2>3. CASE DriverOf(r) = "datafusion"
    <3>1. "runtime" \in Fields(DriverOf(r)) \ {"version"}
      BY <2>3 DEF Fields
    <3> QED
      BY <3>1
  <2>4. CASE DriverOf(r) = "arrow-parquet"
    <3>1. "prepared" \in Fields(DriverOf(r)) \ {"version"}
      BY <2>4 DEF Fields
    <3> QED
      BY <3>1
  <2>5. CASE DriverOf(r) = "null"
    <3>1. "directory" \in Fields(DriverOf(r)) \ {"version"}
      BY <2>5 DEF Fields
    <3> QED
      BY <3>1
  <2> QED
    BY <2>1, <2>2, <2>3, <2>4, <2>5 DEF DriverNames
<1> QED
  BY <1>1

\* A name that is given to a load is known, and the name of files under a view
\* is nobody's.
LEMMA KnownGrows ==
  ASSUME NEW names, NamesOK(names), NEW l \in Loads
  PROVE  /\ NamesOK([names EXCEPT ![Own(l.table)] = l])
         /\ NamesOK([names EXCEPT ![Raw(l.table)] = l])
         /\ NamesOK([names EXCEPT ![Raw(l.table)] = l, ![Own(l.table)] = l])
         /\ Known([names EXCEPT ![Own(l.table)] = l]) = Known(names) \cup {l.table}
         /\ Known([names EXCEPT ![Raw(l.table)] = l]) = Known(names)
         /\ Known([names EXCEPT ![Raw(l.table)] = l, ![Own(l.table)] = l]) = Known(names) \cup {l.table}
<1>1. l.table \in Table /\ l # Nothing
  BY DriversAssumption
<1>2. \A t \in Table : /\ Own(t) \in Names /\ Raw(t) \in Names
                       /\ Own(t) # Raw(l.table) /\ Own(l.table) # Raw(t)
                       /\ Own(t) = Own(l.table) => t = l.table
  BY <1>1, OwnIsNotRaw
<1>3. /\ NamesOK([names EXCEPT ![Own(l.table)] = l])
      /\ NamesOK([names EXCEPT ![Raw(l.table)] = l])
      /\ NamesOK([names EXCEPT ![Raw(l.table)] = l, ![Own(l.table)] = l])
  BY DEF NamesOK
<1>4. Known([names EXCEPT ![Own(l.table)] = l]) = Known(names) \cup {l.table}
  BY <1>1, <1>2 DEF NamesOK, Known
<1>5. Known([names EXCEPT ![Raw(l.table)] = l]) = Known(names)
  BY <1>1, <1>2 DEF NamesOK, Known
<1>6. Known([names EXCEPT ![Raw(l.table)] = l, ![Own(l.table)] = l]) = Known(names) \cup {l.table}
  BY <1>1, <1>2 DEF NamesOK, Known
<1> QED
  BY <1>3, <1>4, <1>5, <1>6

\* What goes by a table's name once a load was given one.
LEMMA NamedGrows ==
  ASSUME NEW names, NamesOK(names), NEW l \in Loads, NEW t \in Table
  PROVE  /\ [names EXCEPT ![Own(l.table)] = l][Own(t)] = IF t = l.table THEN l ELSE names[Own(t)]
         /\ [names EXCEPT ![Raw(l.table)] = l][Own(t)] = names[Own(t)]
         /\ [names EXCEPT ![Raw(l.table)] = l, ![Own(l.table)] = l][Own(t)] =
              IF t = l.table THEN l ELSE names[Own(t)]
<1>1. l.table \in Table
  BY DriversAssumption
<1>2. /\ Own(t) \in Names /\ Own(l.table) \in Names /\ Raw(l.table) \in Names
      /\ Own(t) # Raw(l.table) /\ Own(l.table) # Raw(l.table)
      /\ Own(t) = Own(l.table) => t = l.table
  BY <1>1, OwnIsNotRaw
<1> QED
  BY <1>2 DEF NamesOK

\* What Session::prepare and Session::load make of what the driver answered.
LEMMA PrepareTells ==
  ASSUME SessionTypeOK, NEW r \in Runner, Prepare(r), ~prepared[r]
  PROVE  /\ disk' = disk
         /\ \/ said'[r] = "ok" /\ SystemStarts(r)
            \/ said'[r] = "System" /\ system' = system
BY DEF SessionTypeOK, Prepare, Fails, Says

LEMMA LoadTells ==
  ASSUME SessionTypeOK, NEW r \in Runner, NEW t \in Table, LoadTable(r, t), prepared[r]
  PROVE  \/ said'[r] = "ok" /\ SystemTakes(r, t)
         \/ said'[r] # "ok" /\ system' = system /\ disk' = disk
BY DEF SessionTypeOK, LoadTable, Fails, Says

LEMMA KeptStarts == DriversInit => KeptInv
<1> SUFFICES ASSUME DriversInit
             PROVE  KeptInv
  OBVIOUS
<1>1. /\ fields \in [Runner -> SUBSET {"connection", "version", "runtime", "context", "prepared", "directory"}]
      /\ catalog \in [Runner -> [Names -> Loads \cup {Nothing}]]
      /\ database \in [Directory -> [Names -> Loads \cup {Nothing}]]
  BY DEF DriversInit
<1>2. \A t \in Table : Own(t) \in Names
  BY OwnIsNotRaw
<1>3. \A r \in Runner : ~Started(r)
  BY StartedIsAllFields DEF DriversInit, Started
<1>4. \A r \in Runner : Known(catalog[r]) = {}
  BY <1>2 DEF DriversInit, Known
<1>5. \A d \in Directory : Known(database[d]) = {}
  BY <1>2 DEF DriversInit, Known
<1>6. \A r \in Runner : Kept(r)
  BY <1>3, <1>4 DEF DriversInit, SessionInit, Closed, Kept, AtWork
<1>7. Alone /\ \A d \in Directory : disk[d] = Known(database[d])
  BY <1>3, <1>5 DEF Alone, AtWork, DriversInit, SessionInit
<1> QED
  BY <1>1, <1>6, <1>7, DriversStart DEF KeptInv

\* A preparation that worked sets every field of its driver and starts on what
\* was in the directory; one that did not leaves the driver alone.
LEMMA PrepareEffect ==
  ASSUME KeptInv, NEW r \in Runner, PrepareDriver(r), ~prepared[r]
  PROVE  /\ fields' = [fields EXCEPT ![r] = IF said'[r] = "ok" THEN Fields(DriverOf(r)) ELSE @]
         /\ DriverOf(r) = "duckdb" /\ Locked(r) => said'[r] # "ok"
         /\ catalog' = [catalog EXCEPT ![r] =
              IF said'[r] = "ok" /\ DriverOf(r) = "duckdb" THEN database[DirectoryOf(r)] ELSE @]
         /\ database' = database
<1>1. DriverOf(r) \in DriverNames
  BY DriversAssumption
<1>2. catalog = [catalog EXCEPT ![r] = @] /\ database' = database
  BY DEF KeptInv, PrepareDriver
<1>3. CASE DriverOf(r) = "duckdb"
  <2>1. PrepareDuckDb(r)
    BY <1>3 DEF PrepareDriver
  <2> QED
    BY <1>2, <1>3, <2>1 DEF PrepareDuckDb
<1>4. CASE DriverOf(r) = "datafusion"
  <2>1. PrepareDataFusion(r)
    BY <1>4 DEF PrepareDriver
  <2> QED
    BY <1>2, <1>4, <2>1 DEF PrepareDataFusion
<1>5. CASE DriverOf(r) = "arrow-parquet"
  <2>1. PrepareArrowParquet(r)
    BY <1>5 DEF PrepareDriver
  <2> QED
    BY <1>2, <1>5, <2>1 DEF PrepareArrowParquet, Fields
<1>6. CASE DriverOf(r) = "null"
  <2>1. PrepareNull(r)
    BY <1>6 DEF PrepareDriver
  <2> QED
    BY <1>2, <1>6, <2>1 DEF PrepareNull, Fields
<1> QED
  BY <1>1, <1>3, <1>4, <1>5, <1>6 DEF DriverNames

\* A load that worked is known by its table's name and one that did not is not;
\* of the directories only DuckDB's is written, with what its catalog has.
LEMMA LoadEffect ==
  ASSUME KeptInv, NEW r \in Runner, NEW l \in Loads, LoadDriver(r, l), prepared[r]
  PROVE  /\ NamesOK(catalog'[r])
         /\ catalog' = [catalog EXCEPT ![r] = catalog'[r]]
         /\ Known(catalog'[r]) = IF said'[r] = "ok" THEN Known(catalog[r]) \cup {l.table} ELSE Known(catalog[r])
         /\ fields' = fields
         /\ database' = IF DriverOf(r) = "duckdb"
                          THEN [database EXCEPT ![DirectoryOf(r)] = catalog'[r]] ELSE database
         /\ \A t \in Table :
              catalog'[r][Own(t)] = IF said'[r] = "ok" /\ t = l.table THEN l ELSE catalog[r][Own(t)]
<1>1. DriverOf(r) \in DriverNames /\ fields' = fields
  BY DriversAssumption DEF LoadDriver
<1>2. NamesOK(catalog[r]) /\ catalog \in [Runner -> [Names -> Loads \cup {Nothing}]]
  BY DEF KeptInv, NamesOK
<1> DEFINE own == [catalog[r] EXCEPT ![Own(l.table)] = l]
           raw == [catalog[r] EXCEPT ![Raw(l.table)] = l]
           both == [catalog[r] EXCEPT ![Raw(l.table)] = l, ![Own(l.table)] = l]
<1>3. /\ NamesOK(own) /\ NamesOK(raw) /\ NamesOK(both)
      /\ Known(own) = Known(catalog[r]) \cup {l.table}
      /\ Known(raw) = Known(catalog[r])
      /\ Known(both) = Known(catalog[r]) \cup {l.table}
  BY <1>2, KnownGrows
<1>6. ASSUME NEW t \in Table
      PROVE  /\ own[Own(t)] = IF t = l.table THEN l ELSE catalog[r][Own(t)]
             /\ raw[Own(t)] = catalog[r][Own(t)]
             /\ both[Own(t)] = IF t = l.table THEN l ELSE catalog[r][Own(t)]
  BY <1>2, NamedGrows
<1>4. \/ said'[r] = "ok" /\ catalog' = [catalog EXCEPT ![r] = own]
      \/ said'[r] = "ok" /\ catalog' = [catalog EXCEPT ![r] = both]
      \/ said'[r] # "ok" /\ catalog' = [catalog EXCEPT ![r] = raw]
      \/ said'[r] # "ok" /\ catalog' = catalog
  <2>1. CASE DriverOf(r) = "duckdb"
    <3>1. LoadDuckDb(r, l)
      BY <2>1 DEF LoadDriver
    <3> QED
      BY <3>1 DEF LoadDuckDb, Keep
  <2>2. CASE DriverOf(r) = "datafusion"
    <3>1. LoadDataFusion(r, l)
      BY <2>2 DEF LoadDriver
    <3> QED
      BY <3>1, <1>2 DEF LoadDataFusion, Keep
  <2>3. CASE DriverOf(r) = "arrow-parquet"
    <3>1. LoadArrowParquet(r, l)
      BY <2>3 DEF LoadDriver
    <3> QED
      BY <3>1 DEF LoadArrowParquet, Keep
  <2>4. CASE DriverOf(r) = "null"
    <3>1. LoadNull(r, l)
      BY <2>4 DEF LoadDriver
    <3> QED
      BY <3>1 DEF LoadNull, Keep
  <2> QED
    BY <1>1, <2>1, <2>2, <2>3, <2>4 DEF DriverNames
<1>5. database' = IF DriverOf(r) = "duckdb"
                    THEN [database EXCEPT ![DirectoryOf(r)] = catalog'[r]] ELSE database
  <2>1. CASE DriverOf(r) = "duckdb"
    BY <2>1 DEF LoadDriver, LoadDuckDb
  <2>2. CASE DriverOf(r) = "datafusion"
    BY <2>2 DEF LoadDriver, LoadDataFusion
  <2>3. CASE DriverOf(r) = "arrow-parquet"
    BY <2>3 DEF LoadDriver, LoadArrowParquet
  <2>4. CASE DriverOf(r) = "null"
    BY <2>4 DEF LoadDriver, LoadNull
  <2> QED
    BY <1>1, <2>1, <2>2, <2>3, <2>4 DEF DriverNames
<1> HIDE DEF own, raw, both
<1>7. \A t \in Table :
        catalog'[r][Own(t)] = IF said'[r] = "ok" /\ t = l.table THEN l ELSE catalog[r][Own(t)]
  BY <1>2, <1>4, <1>6
<1> QED
  BY <1>1, <1>2, <1>3, <1>4, <1>5, <1>7

\* What a session keeps in step when nothing of its driver and its directory
\* changes.
LEMMA KeptApart ==
  ASSUME NEW s \in Runner, Kept(s), fields'[s] = fields[s], catalog'[s] = catalog[s],
         system'[s] = system[s],
         AtWork(s) => database'[DirectoryOf(s)] = database[DirectoryOf(s)]
  PROVE  Kept(s)' /\ (AtWork(s)' <=> AtWork(s))
<1>1. Started(s)' <=> Started(s)
  BY DEF Started
<1>2. AtWork(s)' <=> AtWork(s)
  BY <1>1 DEF AtWork
<1> QED
  BY <1>1, <1>2 DEF Kept

LEMMA KeptPrepare ==
  ASSUME KeptInv, NEW r \in Runner, PrepareDriver(r), DriversInv'
  PROVE  KeptInv'
<1>1. Prepare(r) /\ SessionTypeOK /\ InStep(r) /\ Kept(r)
  BY DEF PrepareDriver, KeptInv, DriversInv, SessionInv
<1>2. CASE prepared[r]
  <2>1. UNCHANGED <<fields, catalog, database, system, disk>>
    BY <1>1, <1>2 DEF Prepare, Refuse, PrepareDriver
  <2>2. \A s \in Runner : Kept(s)' /\ (AtWork(s)' <=> AtWork(s))
    BY <2>1, KeptApart DEF KeptInv
  <2>3. Alone'
    BY <2>2 DEF KeptInv, Alone
  <2> QED
    BY <2>1, <2>2, <2>3 DEF KeptInv, Known
<1>3. CASE ~prepared[r]
  <2>1. /\ fields' = [fields EXCEPT ![r] = IF said'[r] = "ok" THEN Fields(DriverOf(r)) ELSE @]
        /\ DriverOf(r) = "duckdb" /\ Locked(r) => said'[r] # "ok"
        /\ catalog' = [catalog EXCEPT ![r] =
             IF said'[r] = "ok" /\ DriverOf(r) = "duckdb" THEN database[DirectoryOf(r)] ELSE @]
        /\ database' = database
    BY <1>3, PrepareEffect
  <2>2. /\ disk' = disk
        /\ \/ said'[r] = "ok" /\ SystemStarts(r)
           \/ said'[r] = "System" /\ system' = system
    BY <1>1, <1>3, PrepareTells
  <2>3. ~system[r].up /\ ~Started(r) /\ Known(catalog[r]) = {} /\ fields[r] = {}
    <3>1. ~system[r].up /\ ~Started(r) /\ Known(catalog[r]) = {} /\ fields[r] \in {{}, Fields(DriverOf(r))}
      BY <1>1, <1>3 DEF InStep, Kept
    <3> QED
      BY <3>1, StartedIsAllFields DEF Started
  <2>4. /\ fields' \in [Runner -> SUBSET {"connection", "version", "runtime", "context", "prepared", "directory"}]
        /\ catalog' \in [Runner -> [Names -> Loads \cup {Nothing}]]
    <3>1. Fields(DriverOf(r)) \in
            SUBSET {"connection", "version", "runtime", "context", "prepared", "directory"}
      BY DriversAssumption DEF Fields, DriverNames
    <3> QED
      BY <2>1, <3>1, DirectoryAssumption DEF KeptInv
  <2>5. ASSUME NEW s \in Runner, s # r
        PROVE  Kept(s)' /\ (AtWork(s)' <=> AtWork(s))
    <3>1. fields'[s] = fields[s] /\ catalog'[s] = catalog[s]
      BY <2>1, <2>5 DEF KeptInv
    <3>2. system'[s] = system[s]
      BY <1>1, <2>2, <2>5 DEF SystemStarts, SessionTypeOK
    <3> QED
      BY <2>1, <3>1, <3>2, KeptApart DEF KeptInv
  <2>6. CASE said'[r] = "ok"
    <3>1. fields'[r] = Fields(DriverOf(r)) /\ Started(r)'
      <4>1. fields'[r] = Fields(DriverOf(r))
        BY <2>1, <2>6 DEF KeptInv
      <4> QED
        BY <4>1, StartedIsAllFields DEF Started
    <3>2. system'[r] = [up |-> TRUE, tables |-> IF Keeps(r) THEN disk[DirectoryOf(r)] ELSE {}]
      BY <1>1, <2>2, <2>6 DEF SystemStarts, Left, SessionTypeOK
    <3>3. Kept(r)'
      <4>1. CASE DriverOf(r) = "duckdb"
        <5>1. catalog'[r] = database[DirectoryOf(r)] /\ Keeps(r)
          BY <2>1, <2>6, <4>1, DriversAssumption DEF KeptInv
        <5>2. system'[r].tables = Known(catalog'[r])
          BY <3>2, <5>1, DirectoryAssumption DEF KeptInv
        <5> QED
          BY <2>1, <3>1, <3>2, <5>1, <5>2 DEF Kept, Known
      <4>2. CASE DriverOf(r) # "duckdb"
        <5>1. catalog'[r] = catalog[r] /\ ~Keeps(r)
          BY <2>1, <4>2, DriversAssumption DEF KeptInv
        <5> QED
          BY <2>3, <3>1, <3>2, <4>2, <5>1 DEF Kept, Known, AtWork
      <4> QED
        BY <4>1, <4>2
    <3>4. Alone'
      <4>1. ASSUME NEW s \in Runner, s # r, AtWork(s)', AtWork(r)'
            PROVE  DirectoryOf(s) # DirectoryOf(r)
        <5>1. AtWork(s) /\ DriverOf(r) = "duckdb"
          BY <2>5, <4>1 DEF AtWork
        <5>2. ~Locked(r)
          BY <2>1, <2>6, <5>1
        <5> QED
          BY <4>1, <5>1, <5>2 DEF Locked, AtWork
      <4> QED
        BY <2>5, <4>1 DEF KeptInv, Alone
    <3> QED
      BY <2>1, <2>2, <2>4, <2>5, <3>3, <3>4 DEF KeptInv, Known
  <2>7. CASE said'[r] # "ok"
    <3>1. fields'[r] = fields[r] /\ catalog'[r] = catalog[r] /\ system'[r] = system[r]
      BY <2>1, <2>2, <2>7 DEF KeptInv
    <3>2. Kept(r)' /\ (AtWork(r)' <=> AtWork(r))
      BY <1>1, <2>1, <3>1, KeptApart
    <3>3. Alone'
      BY <2>5, <3>2 DEF KeptInv, Alone
    <3> QED
      BY <2>1, <2>2, <2>4, <2>5, <3>2, <3>3 DEF KeptInv, Known
  <2> QED
    BY <2>6, <2>7
<1> QED
  BY <1>2, <1>3

\* Nothing of a driver, its system or a directory changes.
LEMMA KeptStill ==
  ASSUME KeptInv, DriversInv', UNCHANGED <<fields, catalog, database, system, disk>>
  PROVE  KeptInv'
<1>1. \A s \in Runner : Kept(s)' /\ (AtWork(s)' <=> AtWork(s))
  BY KeptApart DEF KeptInv
<1>2. Alone'
  BY <1>1 DEF KeptInv, Alone
<1> QED
  BY <1>1, <1>2 DEF KeptInv, Known

LEMMA KeptLoad ==
  ASSUME KeptInv, NEW r \in Runner, NEW l \in Loads, LoadDriver(r, l), DriversInv'
  PROVE  KeptInv'
<1>1. LoadTable(r, l.table) /\ SessionTypeOK /\ InStep(r) /\ Kept(r) /\ l.table \in Table
  BY DriversAssumption DEF LoadDriver, KeptInv, DriversInv, SessionInv
<1>2. CASE ~prepared[r]
  <2>1. UNCHANGED <<fields, catalog, database, system, disk>>
    BY <1>1, <1>2 DEF LoadTable, Refuse, LoadDriver
  <2> QED
    BY <2>1, KeptStill
<1>3. CASE prepared[r]
  <2>1. /\ NamesOK(catalog'[r])
        /\ catalog' = [catalog EXCEPT ![r] = catalog'[r]]
        /\ Known(catalog'[r]) = IF said'[r] = "ok" THEN Known(catalog[r]) \cup {l.table} ELSE Known(catalog[r])
        /\ fields' = fields
        /\ database' = IF DriverOf(r) = "duckdb"
                         THEN [database EXCEPT ![DirectoryOf(r)] = catalog'[r]] ELSE database
    BY <1>3, LoadEffect
  <2>2. \/ said'[r] = "ok" /\ SystemTakes(r, l.table)
        \/ said'[r] # "ok" /\ system' = system /\ disk' = disk
    BY <1>1, <1>3, LoadTells
  <2>3. DirectoryOf(r) \in Directory /\ (Keeps(r) <=> DriverOf(r) = "duckdb")
    BY DirectoryAssumption, DriversAssumption
  <2>4. system[r].up /\ Started(r)
    BY <1>1, <1>3 DEF InStep, Kept
  <2>5. /\ catalog' \in [Runner -> [Names -> Loads \cup {Nothing}]]
        /\ database' \in [Directory -> [Names -> Loads \cup {Nothing}]]
    BY <2>1, <2>3 DEF KeptInv, NamesOK
  <2>6. ASSUME NEW s \in Runner, s # r
        PROVE  Kept(s)' /\ (AtWork(s)' <=> AtWork(s))
    <3>1. fields'[s] = fields[s] /\ catalog'[s] = catalog[s]
      BY <2>1, <2>6 DEF KeptInv
    <3>2. system'[s] = system[s]
      BY <1>1, <2>2, <2>6 DEF SystemTakes, SessionTypeOK
    <3>3. ASSUME AtWork(s) PROVE database'[DirectoryOf(s)] = database[DirectoryOf(s)]
      <4>1. CASE DriverOf(r) = "duckdb"
        <5>1. DirectoryOf(s) # DirectoryOf(r)
          BY <2>4, <2>6, <3>3, <4>1 DEF KeptInv, Alone, AtWork
        <5> QED
          BY <2>1, <4>1, <5>1, DirectoryAssumption DEF KeptInv
      <4>2. CASE DriverOf(r) # "duckdb"
        BY <2>1, <4>2
      <4> QED
        BY <4>1, <4>2
    <3> QED
      BY <3>1, <3>2, <3>3, KeptApart DEF KeptInv
  <2>7. system'[r].up /\ system'[r].tables = Known(catalog'[r])
    <3>1. system[r] \in [up : BOOLEAN, tables : SUBSET Table] /\ system[r].tables = Known(catalog[r])
      BY <1>1 DEF Kept, SessionTypeOK
    <3>2. CASE said'[r] = "ok"
      <4>1. system'[r] = [system[r] EXCEPT !.tables = @ \cup {l.table}]
        BY <1>1, <2>2, <3>2 DEF SystemTakes, SessionTypeOK
      <4> QED
        BY <2>1, <2>4, <3>1, <3>2, <4>1
    <3>3. CASE said'[r] # "ok"
      BY <2>1, <2>2, <2>4, <3>1, <3>3
    <3> QED
      BY <3>2, <3>3
  <2>8. Started(r)' /\ fields'[r] = fields[r]
    BY <2>1, <2>4 DEF Started
  <2>9. Kept(r)' /\ (AtWork(r)' <=> AtWork(r))
    <3>1. DriverOf(r) = "duckdb" => catalog'[r] = database'[DirectoryOf(r)]
      BY <2>1, <2>3 DEF KeptInv
    <3> QED
      BY <1>1, <2>4, <2>7, <2>8, <3>1 DEF Kept, AtWork, Known
  <2>10. Alone'
    BY <2>6, <2>9 DEF KeptInv, Alone
  <2>11. ASSUME NEW d \in Directory
         PROVE  disk'[d] = Known(database'[d])
    <3>1. disk[d] = Known(database[d]) /\ disk \in [Directory -> SUBSET Table]
      BY <1>1 DEF KeptInv, SessionTypeOK
    <3>2. CASE DriverOf(r) = "duckdb" /\ d = DirectoryOf(r)
      <4>1. database'[d] = catalog'[r]
        BY <2>1, <3>2 DEF KeptInv
      <4>2. Known(catalog[r]) = disk[d]
        BY <1>1, <2>4, <3>1, <3>2 DEF Kept, AtWork
      <4>3. disk'[d] = IF said'[r] = "ok" THEN disk[d] \cup {l.table} ELSE disk[d]
        BY <2>2, <2>3, <3>1, <3>2 DEF SystemTakes
      <4> QED
        BY <2>1, <4>1, <4>2, <4>3
    <3>3. CASE ~(DriverOf(r) = "duckdb" /\ d = DirectoryOf(r))
      <4>1. database'[d] = database[d]
        BY <2>1, <3>3 DEF KeptInv
      <4>2. disk'[d] = disk[d]
        BY <2>2, <2>3, <3>1, <3>3 DEF SystemTakes
      <4> QED
        BY <3>1, <4>1, <4>2
    <3> QED
      BY <3>2, <3>3
  <2>12. /\ fields' \in [Runner -> SUBSET {"connection", "version", "runtime", "context", "prepared", "directory"}]
         /\ \A s \in Runner : Kept(s)'
    BY <2>1, <2>6, <2>9 DEF KeptInv
  <2> QED
    BY <2>5, <2>10, <2>11, <2>12 DEF KeptInv, Known
<1> QED
  BY <1>2, <1>3

LEMMA KeptAsk ==
  ASSUME KeptInv, NEW r \in Runner, NEW q \in Query, AskDriver(r, q), DriversInv'
  PROVE  KeptInv'
<1>1. UNCHANGED <<system, disk>>
  BY DEF AskDriver, AskQuery, Refuse, Fails
<1>2. UNCHANGED <<fields, catalog, database>>
  BY DEF AskDriver
<1> QED
  BY <1>1, <1>2, KeptStill

LEMMA KeptEnds ==
  ASSUME KeptInv, NEW r \in Runner, DriverEnds(r), DriversInv'
  PROVE  KeptInv'
<1>1. /\ fields' = [fields EXCEPT ![r] = {}]
      /\ catalog' = [catalog EXCEPT ![r] = [name \in Names |-> Nothing]]
      /\ system' = [system EXCEPT ![r] = Closed]
      /\ database' = database /\ disk' = disk
  BY DEF DriverEnds, Ends
<1>2. /\ fields' \in [Runner -> SUBSET {"connection", "version", "runtime", "context", "prepared", "directory"}]
      /\ catalog' \in [Runner -> [Names -> Loads \cup {Nothing}]]
  BY <1>1 DEF KeptInv
<1>3. system \in [Runner -> [up : BOOLEAN, tables : SUBSET Table]]
  BY DEF KeptInv, DriversInv, SessionInv, SessionTypeOK
<1>4. ASSUME NEW s \in Runner, s # r
      PROVE  Kept(s)' /\ (AtWork(s)' <=> AtWork(s))
  <2>1. fields'[s] = fields[s] /\ catalog'[s] = catalog[s] /\ system'[s] = system[s]
    BY <1>1, <1>3, <1>4 DEF KeptInv
  <2> QED
    BY <1>1, <2>1, KeptApart DEF KeptInv
<1>5. fields'[r] = {} /\ catalog'[r] = [name \in Names |-> Nothing] /\ system'[r] = Closed
  BY <1>1, <1>3 DEF KeptInv
<1>6. ~Started(r)' /\ ~AtWork(r)'
  BY <1>5, StartedIsAllFields DEF Started, AtWork
<1>7. Known(catalog'[r]) = {}
  BY <1>5, OwnIsNotRaw DEF Known
<1>8. Kept(r)'
  BY <1>5, <1>6, <1>7 DEF Kept, Known, Closed
<1>9. Alone'
  BY <1>4, <1>6 DEF KeptInv, Alone
<1>10. \A s \in Runner : Kept(s)'
  BY <1>4, <1>8
<1> QED
  BY <1>1, <1>2, <1>9, <1>10 DEF KeptInv, Known

LEMMA KeptKept == KeptInv /\ [DriversNext]_allVars => KeptInv'
<1> SUFFICES ASSUME KeptInv, [DriversNext]_allVars
             PROVE  KeptInv'
  OBVIOUS
<1>1. DriversInv' /\ working \subseteq Runner
  BY DriversKept DEF KeptInv, DriversInv
<1>2. ASSUME NEW r \in working, PrepareDriver(r) PROVE KeptInv'
  BY <1>1, <1>2, KeptPrepare
<1>3. ASSUME NEW r \in working, NEW l \in Loads, LoadDriver(r, l) PROVE KeptInv'
  BY <1>1, <1>3, KeptLoad
<1>4. ASSUME NEW r \in working, NEW q \in Query, AskDriver(r, q) PROVE KeptInv'
  BY <1>1, <1>4, KeptAsk
<1>5. ASSUME NEW r \in working, DriverEnds(r) PROVE KeptInv'
  BY <1>1, <1>5, KeptEnds
<1>6. CASE UNCHANGED allVars
  <2>1. UNCHANGED <<fields, catalog, database, system, disk>>
    BY <1>6 DEF allVars, driverVars, sessionVars
  <2> QED
    BY <1>1, <2>1, KeptStill
<1> QED
  BY <1>2, <1>3, <1>4, <1>5, <1>6 DEF DriversNext

-----------------------------------------------------------------------------

\* phase.rs, Session: whatever a caller tries in whatever order, and whatever
\* fails, the driver is up whenever load may be called and has a table of this
\* session's whenever run may be.
THEOREM PhasesInStepHolds == DriversSpec => []PhasesInStep
BY DriversSessions, InvIsEnough, PTL

\* phase.rs, Phases: no phase is charged more than went by in it, and every
\* table and query that was counted was charged for.
THEOREM ChargedWithinSpentHolds == DriversSpec => []ChargedWithinSpent
BY DriversSessions, InvIsEnough, PTL

\* The four drivers: after any sequence of preparations, loads, queries and
\* ends, failed ones among them, in any directories, a driver has all of its
\* fields or none, is up exactly when its guards let a call through, and
\* answers to the names its session got in; DuckDB's directory holds just what
\* the next command will find.
THEOREM DriversKeepStepHolds == DriversSpec => []DriversKeepStep
<1>1. KeptInv => DriversKeepStep
  BY DEF KeptInv, Kept, DriversKeepStep, Known
<1> QED
  BY <1>1, KeptStarts, KeptKept, PTL DEF DriversSpec

-----------------------------------------------------------------------------
(* What is answered from.                                                   *)

\* What a session was told it got in is what its system has by that name, and
\* nothing was got in before a preparation; an answer is to a query.
LatestInv ==
  /\ KeptInv
  /\ working \in Together
  /\ latest \in [Runner -> [Table -> Loads \cup {Nothing}]]
  /\ \A r \in Runner : \A t \in Table :
       latest[r][t] # Nothing => prepared[r] /\ catalog[r][Own(t)] = latest[r][t]
  /\ answer = [r \in Runner |-> answer[r]]
  /\ \A r \in Runner : answer[r] = NoAnswer \/ answer[r].q \in Query

LEMMA LatestStarts == DriversInit => LatestInv
<1> SUFFICES ASSUME DriversInit
             PROVE  LatestInv
  OBVIOUS
<1>1. /\ latest \in [Runner -> [Table -> Loads \cup {Nothing}]]
      /\ \A r \in Runner : \A t \in Table : latest[r][t] = Nothing
  BY DEF DriversInit
<1>2. answer = [r \in Runner |-> answer[r]] /\ \A r \in Runner : answer[r] = NoAnswer
  BY DEF DriversInit
<1>3. KeptInv /\ working \in Together
  BY KeptStarts DEF DriversInit
<1> QED
  BY <1>1, <1>2, <1>3 DEF LatestInv

\* DuckDb::run, DataFusion::run and ArrowParquet::run: whatever comes back
\* was read out of what the system has by the table's name.
LEMMA AskEffect ==
  ASSUME NEW r \in Runner, NEW q \in Query, AskDriver(r, q)
  PROVE  \/ answer' = answer
         \/ \E l, digest :
              /\ answer' = [answer EXCEPT ![r] = [q |-> q, of |-> l, digest |-> digest]]
              /\ ~DoesNothing(r) => l = catalog[r][Own(Question(q).table)]
<1> DEFINE Got(l) == \E digest : answer' = [answer EXCEPT ![r] = [q |-> q, of |-> l, digest |-> digest]]
<1>1. DriverOf(r) \in DriverNames /\ (DoesNothing(r) <=> DriverOf(r) = "null")
  BY DriversAssumption
<1>2. ASSUME NEW l, NEW rows, Answering(r, q, l, rows)
      PROVE  answer' = answer \/ Got(l)
  <2>1. CASE UNCHANGED answer
    BY <2>1
  <2>2. CASE answer' = [answer EXCEPT ![r] =
               [q |-> q, of |-> l, digest |-> DigestOf(finish(rows, Question(q).ordered))]]
    BY <2>2
  <2> QED
    BY <1>2, <2>1, <2>2 DEF Answering
<1> HIDE DEF Got
<1>3. CASE ~loaded[r]
  BY <1>3 DEF AskDriver
<1>4. CASE loaded[r]
  <2> DEFINE had == catalog[r][Own(Question(q).table)]
  <2>1. answer' = answer \/ Got(had) \/ (DoesNothing(r) /\ Got(Nothing))
    <3>1. CASE DriverOf(r) = "duckdb"
      <4>1. RunDuckDb(r, q)
        BY <1>4, <3>1 DEF AskDriver
      <4>2. answer' = answer \/ \E rows : Answering(r, q, had, rows)
        BY <4>1 DEF RunDuckDb
      <4> QED
        BY <1>2, <4>2
    <3>2. CASE DriverOf(r) = "datafusion"
      <4>1. RunDataFusion(r, q)
        BY <1>4, <3>2 DEF AskDriver
      <4>2. answer' = answer \/ \E rows : Answering(r, q, had, rows)
        BY <4>1 DEF RunDataFusion
      <4> QED
        BY <1>2, <4>2
    <3>3. CASE DriverOf(r) = "arrow-parquet"
      <4>1. RunArrowParquet(r, q)
        BY <1>4, <3>3 DEF AskDriver
      <4>2. answer' = answer \/ \E rows : Answering(r, q, had, rows)
        BY <4>1 DEF RunArrowParquet
      <4> QED
        BY <1>2, <4>2
    <3>4. CASE DriverOf(r) = "null"
      <4>1. Answering(r, q, Nothing, <<>>)
        BY <1>4, <3>4 DEF AskDriver, RunNull
      <4> QED
        BY <1>1, <1>2, <3>4, <4>1
    <3> QED
      BY <1>1, <3>1, <3>2, <3>3, <3>4 DEF DriverNames
  <2> QED
    BY <2>1 DEF Got
<1> QED
  BY <1>3, <1>4

\* Session::prepare and Session::load of a session leave it prepared when it was,
\* and a session that was not gets nothing in.
LEMMA StaysPrepared ==
  ASSUME SessionTypeOK, NEW r \in Runner
  PROVE  /\ Prepare(r) /\ prepared[r] => prepared'[r]
         /\ \A t \in Table : LoadTable(r, t) => prepared' = prepared /\ (said'[r] = "ok" => prepared[r])
         /\ \A s \in Runner : s # r /\ Prepare(r) => prepared'[s] = prepared[s]
<1>1. ASSUME Prepare(r), prepared[r]
      PROVE  prepared'[r]
  BY <1>1 DEF Prepare, Refuse
<1>2. ASSUME NEW t \in Table, LoadTable(r, t)
      PROVE  prepared' = prepared /\ (said'[r] = "ok" => prepared[r])
  BY <1>2 DEF LoadTable, Refuse, Fails, Says, SessionTypeOK
<1>3. ASSUME NEW s \in Runner, s # r, Prepare(r)
      PROVE  prepared'[s] = prepared[s]
  BY <1>3 DEF Prepare, Refuse, Fails, SessionTypeOK
<1> QED
  BY <1>1, <1>2, <1>3

LEMMA LatestPrepare ==
  ASSUME LatestInv, NEW r \in Runner, PrepareDriver(r), KeptInv'
  PROVE  LatestInv'
<1>1. UNCHANGED <<working, latest, answer>> /\ Prepare(r) /\ SessionTypeOK
  BY DEF PrepareDriver, LatestInv, KeptInv, DriversInv, SessionInv
<1>2. ASSUME NEW s \in Runner, NEW t \in Table, latest[s][t] # Nothing
      PROVE  prepared'[s] /\ catalog'[s][Own(t)] = latest[s][t]
  <2>1. prepared[s] /\ catalog[s][Own(t)] = latest[s][t]
    BY <1>2 DEF LatestInv
  <2>2. prepared'[s]
    BY <1>1, <2>1, StaysPrepared
  <2>3. catalog'[s] = catalog[s]
    <3>1. CASE prepared[r]
      BY <3>1 DEF PrepareDriver
    <3>2. CASE ~prepared[r]
      <4>1. s # r
        BY <2>1, <3>2
      <4> QED
        BY <3>2, <4>1, PrepareEffect DEF LatestInv, KeptInv
    <3> QED
      BY <3>1, <3>2
  <2> QED
    BY <2>1, <2>2, <2>3
<1> QED
  BY <1>1, <1>2 DEF LatestInv

LEMMA LatestLoad ==
  ASSUME LatestInv, NEW r \in Runner, NEW l \in Loads, LoadDriver(r, l), KeptInv'
  PROVE  LatestInv'
<1>1. /\ UNCHANGED <<working, answer>> /\ LoadTable(r, l.table) /\ SessionTypeOK
      /\ l.table \in Table
      /\ latest' = IF said'[r] = "ok" THEN [latest EXCEPT ![r][l.table] = l] ELSE latest
  BY DriversAssumption DEF LoadDriver, LatestInv, KeptInv, DriversInv, SessionInv
<1>2. prepared' = prepared /\ (said'[r] = "ok" => prepared[r])
  BY <1>1, StaysPrepared
<1>3. latest' \in [Runner -> [Table -> Loads \cup {Nothing}]]
  BY <1>1 DEF LatestInv
<1>4. ASSUME NEW s \in Runner, NEW t \in Table, latest'[s][t] # Nothing
      PROVE  prepared'[s] /\ catalog'[s][Own(t)] = latest'[s][t]
  <2>1. CASE ~prepared[r]
    <3>1. latest' = latest /\ catalog' = catalog
      BY <1>1, <1>2, <2>1 DEF LoadDriver
    <3> QED
      BY <1>2, <1>4, <3>1 DEF LatestInv
  <2>2. CASE prepared[r] /\ s # r
    <3>1. latest'[s] = latest[s] /\ catalog'[s] = catalog[s]
      BY <1>1, <2>2, LoadEffect DEF LatestInv, KeptInv
    <3> QED
      BY <1>2, <1>4, <3>1 DEF LatestInv
  <2>3. CASE prepared[r] /\ s = r
    <3>1. catalog'[r][Own(t)] = IF said'[r] = "ok" /\ t = l.table THEN l ELSE catalog[r][Own(t)]
      <4>1. KeptInv /\ prepared[r]
        BY <2>3 DEF LatestInv
      <4>2. \A u \in Table :
              catalog'[r][Own(u)] = IF said'[r] = "ok" /\ u = l.table THEN l ELSE catalog[r][Own(u)]
        BY <4>1, LoadEffect, ZenonT(30)
      <4> QED
        BY <4>2
    <3>2. latest'[r][t] = IF said'[r] = "ok" /\ t = l.table THEN l ELSE latest[r][t]
      BY <1>1 DEF LatestInv
    <3> QED
      BY <1>2, <1>4, <2>3, <3>1, <3>2 DEF LatestInv
  <2> QED
    BY <2>1, <2>2, <2>3
<1> QED
  BY <1>1, <1>3, <1>4 DEF LatestInv

LEMMA LatestAsk ==
  ASSUME LatestInv, NEW r \in Runner, NEW q \in Query, AskDriver(r, q), KeptInv'
  PROVE  LatestInv'
<1>1. UNCHANGED <<working, catalog, latest>> /\ prepared' = prepared
  BY DEF AskDriver, AskQuery, Refuse, Fails
<1>2. answer' = [s \in Runner |-> answer'[s]] /\ \A s \in Runner : answer'[s] = NoAnswer \/ answer'[s].q \in Query
  <2>1. CASE answer' = answer
    BY <2>1 DEF LatestInv
  <2>2. ASSUME NEW l, NEW digest, answer' = [answer EXCEPT ![r] = [q |-> q, of |-> l, digest |-> digest]]
        PROVE  /\ answer' = [s \in Runner |-> answer'[s]]
               /\ \A s \in Runner : answer'[s] = NoAnswer \/ answer'[s].q \in Query
    BY <2>2 DEF LatestInv
  <2> QED
    BY <2>1, <2>2, AskEffect
<1> QED
  BY <1>1, <1>2 DEF LatestInv

LEMMA LatestEnds ==
  ASSUME LatestInv, NEW r \in Runner, DriverEnds(r), KeptInv'
  PROVE  LatestInv'
<1>1. /\ catalog' = [catalog EXCEPT ![r] = [name \in Names |-> Nothing]]
      /\ latest' = [latest EXCEPT ![r] = [t \in Table |-> Nothing]]
      /\ answer' = [answer EXCEPT ![r] = NoAnswer]
      /\ prepared' = [prepared EXCEPT ![r] = FALSE] /\ working' = working
  BY DEF DriverEnds, Ends
<1>2. latest' \in [Runner -> [Table -> Loads \cup {Nothing}]]
  BY <1>1 DEF LatestInv
<1>3. ASSUME NEW s \in Runner, NEW t \in Table, latest'[s][t] # Nothing
      PROVE  prepared'[s] /\ catalog'[s][Own(t)] = latest'[s][t]
  <2>1. s # r
    BY <1>1, <1>3 DEF LatestInv
  <2>2. latest'[s] = latest[s] /\ catalog'[s] = catalog[s]
    BY <1>1, <2>1 DEF LatestInv, KeptInv
  <2>3. prepared'[s] = prepared[s]
    BY <1>1, <2>1 DEF LatestInv, KeptInv, DriversInv, SessionInv, SessionTypeOK
  <2> QED
    BY <1>3, <2>2, <2>3 DEF LatestInv
<1>4. answer' = [s \in Runner |-> answer'[s]] /\ \A s \in Runner : answer'[s] = NoAnswer \/ answer'[s].q \in Query
  BY <1>1 DEF LatestInv
<1> QED
  BY <1>1, <1>2, <1>3, <1>4 DEF LatestInv

LEMMA LatestKept == LatestInv /\ [DriversNext]_allVars => LatestInv'
<1> SUFFICES ASSUME LatestInv, [DriversNext]_allVars
             PROVE  LatestInv'
  OBVIOUS
<1>1. KeptInv' /\ working \subseteq Runner
  BY KeptKept DEF LatestInv, KeptInv, DriversInv
<1>2. CASE UNCHANGED allVars
  <2>1. UNCHANGED <<working, latest, answer, catalog, prepared>>
    BY <1>2 DEF allVars, driverVars, sessionVars
  <2> QED
    BY <1>1, <2>1 DEF LatestInv
<1> QED
  BY <1>1, <1>2, LatestPrepare, LatestLoad, LatestAsk, LatestEnds DEF DriversNext

\* An answer is of what its session was last told it got in.
LEMMA AnswerIsOfTheLatest ==
  ASSUME LatestInv, [DriversNext]_allVars, NEW s \in Runner,
         answer'[s] # answer[s], answer'[s] # NoAnswer, ~DoesNothing(s),
         latest[s][Question(answer'[s].q).table] # Nothing
  PROVE  answer'[s].of = latest[s][Question(answer'[s].q).table]
<1>1. answer' # answer /\ working \subseteq Runner
  BY DEF LatestInv, KeptInv, DriversInv
<1>2. ASSUME NEW r \in working, DriverEnds(r)
      PROVE  FALSE
  BY <1>1, <1>2 DEF DriverEnds, LatestInv
<1>3. PICK r \in working, q \in Query : AskDriver(r, q)
  BY <1>1, <1>2 DEF DriversNext, PrepareDriver, LoadDriver, allVars, driverVars
<1>4. PICK l, digest :
        /\ answer' = [answer EXCEPT ![r] = [q |-> q, of |-> l, digest |-> digest]]
        /\ ~DoesNothing(r) => l = catalog[r][Own(Question(q).table)]
  BY <1>1, <1>3, AskEffect
<1>5. s = r /\ answer'[r] = [q |-> q, of |-> l, digest |-> digest]
  BY <1>1, <1>4 DEF LatestInv
<1>6. answer'[s].q = q /\ answer'[s].of = l
  BY <1>5
<1>7. Question(q).table \in Table
  BY DriversAssumption, ReadsAssumption
<1> QED
  BY <1>4, <1>5, <1>6, <1>7 DEF LatestInv

\* The four drivers keep what they say they keep: every field is one of the
\* driver's own, every name is of a load that was asked for, every answer of a
\* query.
THEOREM DriversTypeOKHolds == DriversSpec => []DriversTypeOK
<1>1. LatestInv => DriversTypeOK
  BY DEF LatestInv, KeptInv, Kept, DriversInv, SessionInv, DriversTypeOK
<1> QED
  BY <1>1, LatestStarts, LatestKept, PTL DEF DriversSpec

\* Driver::load and Driver::run: whatever failed, was registered twice, stood
\* under a view or was found in the directory, an answer is out of the last
\* load its session was told had worked.
THEOREM AnswersTheLastLoadHolds == DriversSpec => AnswersTheLastLoad
<1>1. LatestInv /\ [DriversNext]_allVars =>
        [\A r \in Runner :
           answer'[r] # answer[r] /\ answer'[r] # NoAnswer /\ ~DoesNothing(r) =>
             LET t == Question(answer'[r].q).table IN
             latest[r][t] # Nothing => answer'[r].of = latest[r][t]]_allVars
  BY AnswerIsOfTheLatest
<1> QED
  BY <1>1, LatestStarts, LatestKept, PTL DEF DriversSpec, AnswersTheLastLoad

-----------------------------------------------------------------------------
(* Sequences of sequences.                                                  *)

\* Numbers have a least one among them.
LEMMA LeastMember ==
  ASSUME NEW T, T \subseteq Nat, T # {}
  PROVE  \E x \in T : \A y \in T : x <= y
<1> DEFINE R == OpToRel(<, Nat)
<1>1. IsWellFoundedOn(R, Nat)
  BY NatLessThanWellFounded, Zenon
<1>2. \A y, x \in Nat : <<y, x>> \in R <=> y < x
  BY Zenon DEF OpToRel
<1> HIDE DEF R
<1>3. PICK x \in T : \A y \in T : ~(<<y, x>> \in R)
  BY <1>1, WFMin, Zenon
<1>4. \A y \in T : ~(y < x)
  BY <1>2, <1>3, Zenon
<1> QED
  BY <1>4

\* One after another: what holds of none and goes on holds of all.
LEMMA UpTo ==
  ASSUME NEW n \in Nat, NEW T, 0 \in T, \A i \in 0..(n - 1) : i \in T => i + 1 \in T
  PROVE  0..n \subseteq T
<1> SUFFICES ASSUME ~(0..n \subseteq T) PROVE FALSE
  OBVIOUS
<1> DEFINE Missing == {i \in 0..n : i \notin T}
<1>1. Missing \subseteq Nat /\ Missing # {}
  OBVIOUS
<1>2. PICK least \in Missing : \A i \in Missing : least <= i
  BY <1>1, LeastMember
<1>3. least # 0 /\ least - 1 \in 0..(n - 1) /\ least - 1 \notin Missing
  BY <1>1, <1>2
<1> QED
  BY <1>2, <1>3

\* h goes through a sequence of sequences as FlattenSeq does.
Strings(h, seqs, n) ==
  \A i \in 1..n : h[i] = IF i = 1 THEN seqs[i] ELSE h[i - 1] \o seqs[i]

LEMMA StringsSoFar ==
  ASSUME NEW S, NEW seqs \in Seq(Seq(S)), NEW n \in 0..Len(seqs)
  PROVE  \E h \in [1..n -> Seq(S)] : Strings(h, seqs, n)
<1> DEFINE T == {k \in 0..Len(seqs) : \E h \in [1..k -> Seq(S)] : Strings(h, seqs, k)}
<1>1. 0 \in T
  <2> DEFINE h == [i \in 1..0 |-> seqs[i]]
  <2>1. h \in [1..0 -> Seq(S)] /\ Strings(h, seqs, 0)
    BY DEF Strings
  <2> HIDE DEF h
  <2>2. \E some \in [1..0 -> Seq(S)] : Strings(some, seqs, 0)
    BY <2>1, Zenon
  <2>3. 0 \in 0..Len(seqs)
    OBVIOUS
  <2> QED
    BY <2>2, <2>3
<1>2. ASSUME NEW k \in 0..(n - 1), k \in T
      PROVE  k + 1 \in T
  <2>1. PICK g \in [1..k -> Seq(S)] : Strings(g, seqs, k)
    BY <1>2
  <2> DEFINE last == IF k = 0 THEN seqs[1] ELSE g[k] \o seqs[k + 1]
             h == [i \in 1..(k + 1) |-> IF i = k + 1 THEN last ELSE g[i]]
  <2>2. last \in Seq(S)
    OBVIOUS
  <2>3. h \in [1..(k + 1) -> Seq(S)]
    BY <2>2
  <2>4. Strings(h, seqs, k + 1)
    <3> SUFFICES ASSUME NEW i \in 1..(k + 1)
                 PROVE  h[i] = IF i = 1 THEN seqs[i] ELSE h[i - 1] \o seqs[i]
      BY DEF Strings
    <3>0. k \in Nat
      OBVIOUS
    <3>1. CASE i = k + 1
      <4>1. h[i] = last
        BY <3>1
      <4>2. k # 0 => h[i - 1] = g[k]
        BY <3>0, <3>1
      <4> QED
        BY <3>0, <3>1, <4>1, <4>2
    <3>2. CASE i # k + 1
      <4>1. i \in 1..k /\ h[i] = g[i] /\ (i # 1 => h[i - 1] = g[i - 1])
        BY <3>0, <3>2
      <4> QED
        BY <2>1, <4>1 DEF Strings
    <3> QED
      BY <3>1, <3>2
  <2> HIDE DEF h
  <2>5. k + 1 \in 0..Len(seqs)
    OBVIOUS
  <2> QED
    BY <2>3, <2>4, <2>5
<1> HIDE DEF T
<1>3. n \in Nat /\ n \in 0..n
  OBVIOUS
<1>4. 0..n \subseteq T
  BY <1>1, <1>2, <1>3, UpTo
<1> QED
  BY <1>3, <1>4 DEF T

\* Sequences strung together are a sequence of the same.
LEMMA FlattenIsTyped ==
  ASSUME NEW S, NEW seqs \in Seq(Seq(S))
  PROVE  FlattenSeq(seqs) \in Seq(S)
<1>1. CASE Len(seqs) = 0
  BY <1>1 DEF FlattenSeq
<1>2. CASE Len(seqs) # 0
  <2> DEFINE Is(h) == h = [i \in 1..Len(seqs) |-> IF i = 1 THEN seqs[i] ELSE h[i - 1] \o seqs[i]]
             it == CHOOSE h : Is(h)
  <2>1. PICK h \in [1..Len(seqs) -> Seq(S)] : Strings(h, seqs, Len(seqs))
    BY StringsSoFar
  <2>2. Is(h)
    BY <2>1 DEF Strings
  <2>3. Is(it)
    <3> HIDE DEF Is
    <3> QED
      BY <2>2
  <2>4. FlattenSeq(seqs) = it[Len(seqs)]
    BY <1>2 DEF FlattenSeq
  <2> HIDE DEF it
  <2>5. \A i \in 1..Len(seqs) : it[i] = IF i = 1 THEN seqs[i] ELSE it[i - 1] \o seqs[i]
    BY <2>3
  <2> DEFINE T == {k \in 0..Len(seqs) : k = 0 \/ it[k] \in Seq(S)}
  <2>6. ASSUME NEW k \in 0..(Len(seqs) - 1), k \in T
        PROVE  k + 1 \in T
    <3>1. seqs[k + 1] \in Seq(S) /\ k + 1 \in 1..Len(seqs) /\ k \in Nat /\ (k + 1) - 1 = k
      OBVIOUS
    <3>2. it[k + 1] = IF k + 1 = 1 THEN seqs[k + 1] ELSE it[k] \o seqs[k + 1]
      BY <2>5, <3>1
    <3>3. it[k + 1] \in Seq(S)
      <4>1. CASE k = 0
        BY <3>1, <3>2, <4>1
      <4>2. CASE k # 0
        <5>1. it[k] \in Seq(S)
          BY <2>6, <4>2
        <5>2. k + 1 # 1
          BY <3>1, <4>2
        <5>3. it[k + 1] = it[k] \o seqs[k + 1]
          BY <3>2, <5>2
        <5> QED
          BY <3>1, <5>1, <5>3
      <4> QED
        BY <4>1, <4>2
    <3>4. k + 1 \in 0..Len(seqs)
      BY <3>1
    <3> QED
      BY <3>3, <3>4
  <2>7. 0 \in T
    OBVIOUS
  <2> HIDE DEF T
  <2>8. Len(seqs) \in Nat /\ Len(seqs) \in 0..Len(seqs)
    OBVIOUS
  <2>9. 0..Len(seqs) \subseteq T
    BY <2>6, <2>7, <2>8, UpTo
  <2> QED
    BY <1>2, <2>4, <2>8, <2>9 DEF T
<1> QED
  BY <1>1, <1>2

-----------------------------------------------------------------------------
(* The table a query asks for.                                              *)

\* A sequence by its members.
LEMMA MemberOf ==
  ASSUME NEW S, NEW s \in Seq(S), NEW i \in 1..Len(s)
  PROVE  s[i] \in S
OBVIOUS

LEMMA IsSequence ==
  ASSUME NEW S, NEW n \in Nat, NEW s, s = [i \in 1..n |-> s[i]], \A i \in 1..n : s[i] \in S
  PROVE  s \in Seq(S) /\ Len(s) = n
OBVIOUS

\* n rows of w cells.
Tabular(rows, n, w) ==
  /\ n \in Nat /\ w \in Nat
  /\ rows = [i \in 1..n |-> rows[i]]
  /\ \A i \in 1..n : rows[i] = [k \in 1..w |-> rows[i][k]]

\* What Len says of it.
LEMMA TabularHasLengths ==
  ASSUME NEW rows, NEW n, NEW w, Tabular(rows, n, w)
  PROVE  Len(rows) = n /\ \A i \in 1..n : Len(rows[i]) = w
<1>1. \A f : f = [k \in 1..w |-> f[k]] => Len(f) = w
  BY DEF Tabular
<1>2. Len(rows) = n
  BY DEF Tabular
<1> QED
  BY <1>1, <1>2 DEF Tabular

\* The rows of a load, under its select list if it has one.
RowsOf(l) ==
  {row \in Seq(Cells) : /\ Len(row) = Len(Schema(l))
                        /\ l.projected => \A k \in 1..Len(row) : Select(Schema(l)[k], row[k]) \in Cells}

\* Files of one schema are a table together.
LEMMA StoredIsTyped ==
  ASSUME NEW l \in Loads, Uniform(l)
  PROVE  StoredRows(l) \in Seq(RowsOf(l)) /\ Schema(l) \in Seq(STRING)
<1>1. /\ l.files \in Seq(Files) /\ l.files # <<>>
      /\ \A f \in Range(l.files) : \A row \in Range(f.rows) :
            /\ Len(row) = Len(f.schema)
            /\ l.projected => \A k \in 1..Len(row) : Select(f.schema[k], row[k]) \in Cells
  BY FilesAssumption
<1>2. Len(l.files) \in Nat /\ 1 \in 1..Len(l.files)
  BY <1>1
<1>3. ASSUME NEW i \in 1..Len(l.files)
      PROVE  l.files[i].rows \in Seq(RowsOf(l))
  <2> DEFINE f == l.files[i]
  <2>1. f \in Files
    BY <1>1
  <2>2. f \in Range(l.files) /\ f.schema = Schema(l)
    BY <1>1 DEF Range, Uniform, Schema
  <2>3. f.rows \in Seq(Seq(Cells)) /\ Len(f.rows) \in Nat /\ f.rows = [j \in 1..Len(f.rows) |-> f.rows[j]]
    BY <2>1 DEF Files
  <2>4. ASSUME NEW j \in 1..Len(f.rows)
        PROVE  f.rows[j] \in RowsOf(l)
    <3>1. f.rows[j] \in Range(f.rows) /\ f.rows[j] \in Seq(Cells)
      BY <2>3 DEF Range
    <3> QED
      BY <1>1, <2>2, <3>1 DEF RowsOf
  <2>5. f.rows \in Seq(RowsOf(l))
    <3> DEFINE rows == f.rows
    <3> HIDE DEF f
    <3>1. Len(rows) \in Nat /\ rows = [j \in 1..Len(rows) |-> rows[j]] /\ \A j \in 1..Len(rows) : rows[j] \in RowsOf(l)
      BY <2>3, <2>4
    <3> HIDE DEF rows
    <3>2. rows \in Seq(RowsOf(l))
      BY <3>1, IsSequence
    <3> QED
      BY <3>2 DEF rows
  <2> QED
    BY <2>5
<1>4. [i \in 1..Len(l.files) |-> l.files[i].rows] \in Seq(Seq(RowsOf(l)))
  <2> DEFINE seqs == [i \in 1..Len(l.files) |-> l.files[i].rows]
  <2>1. seqs = [i \in 1..Len(l.files) |-> seqs[i]] /\ \A i \in 1..Len(l.files) : seqs[i] \in Seq(RowsOf(l))
    BY <1>3
  <2> HIDE DEF seqs
  <2>2. seqs \in Seq(Seq(RowsOf(l)))
    BY <1>2, <2>1, IsSequence
  <2> QED
    BY <2>2 DEF seqs
<1>5. l.files[1] \in Files
  BY <1>1, <1>2
<1>6. Schema(l) \in Seq(STRING)
  BY <1>5 DEF Files, Schema
<1> QED
  BY <1>4, <1>6, FlattenIsTyped DEF StoredRows

\* What a query asks for is a table of cells.
LEMMA ResultIsTabular ==
  ASSUME NEW l \in Loads, NEW q \in Query, Uniform(l), Has(l, q)
  PROVE  /\ Tabular(Result(l, q), Len(StoredRows(l)), Len(Columns(l, q)))
         /\ \A i \in 1..Len(StoredRows(l)) : \A k \in 1..Len(Columns(l, q)) : Result(l, q)[i][k] \in Cells
         /\ StoredRows(l) \in Seq(RowsOf(l)) /\ Columns(l, q) \in Seq(STRING)
<1>1. StoredRows(l) \in Seq(RowsOf(l)) /\ Schema(l) \in Seq(STRING)
  BY StoredIsTyped
<1>2. Columns(l, q) \in Seq(STRING)
  BY <1>1, FilesAssumption DEF Columns
<1>3. ASSUME NEW name \in Range(Columns(l, q))
      PROVE  Position(Schema(l), name) \in 1..Len(Schema(l)) /\ Schema(l)[Position(Schema(l), name)] = name
  <2>1. name \in Range(Schema(l))
    BY <1>3 DEF Has
  <2>2. \E i \in 1..Len(Schema(l)) : Schema(l)[i] = name
    BY <1>1, <2>1 DEF Range
  <2> QED
    BY <2>2 DEF Position
<1>4. ASSUME NEW i \in 1..Len(StoredRows(l)), NEW k \in 1..Len(Columns(l, q))
      PROVE  Result(l, q)[i][k] \in Cells
  <2> DEFINE name == Columns(l, q)[k]
             row == StoredRows(l)[i]
             c == row[Position(Schema(l), name)]
  <2>1. name \in Range(Columns(l, q))
    BY <1>2 DEF Range
  <2>2. row \in RowsOf(l)
    BY <1>1
  <2>3. c \in Cells /\ (l.projected => Select(name, c) \in Cells)
    BY <1>3, <2>1, <2>2 DEF RowsOf
  <2>4. Result(l, q)[i][k] = IF l.projected THEN Select(name, c) ELSE c
    BY DEF Result
  <2> QED
    BY <2>3, <2>4
<1>5. Tabular(Result(l, q), Len(StoredRows(l)), Len(Columns(l, q)))
  BY <1>1, <1>2 DEF Tabular, Result
<1> QED
  BY <1>1, <1>2, <1>4, <1>5

-----------------------------------------------------------------------------
(* Sequences in another order.                                              *)

\* One rearrangement after another is one.
LEMMA Composed ==
  ASSUME NEW S, NEW a \in Bijection(S, S), NEW b \in Bijection(S, S)
  PROVE  [i \in S |-> a[b[i]]] \in Bijection(S, S)
<1> DEFINE c == [i \in S |-> a[b[i]]]
<1>1. a \in [S -> S] /\ b \in [S -> S]
  BY DEF Bijection, Injection
<1>2. c \in [S -> S]
  BY <1>1
<1>3. \A i, j \in S : c[i] = c[j] => i = j
  BY <1>1 DEF Bijection, Injection, IsInjective
<1>4. \A j \in S : \E i \in S : c[i] = j
  BY <1>1 DEF Bijection, Surjection
<1> HIDE DEF c
<1>5. c \in Bijection(S, S)
  BY <1>2, <1>3, <1>4 DEF Bijection, Injection, Surjection, IsInjective
<1> QED
  BY <1>5 DEF c

\* A rearrangement can be undone by another.
LEMMA Undone ==
  ASSUME NEW S, NEW a \in Bijection(S, S)
  PROVE  \E b \in Bijection(S, S) : \A i \in S : a[b[i]] = i /\ b[a[i]] = i
<1> DEFINE b == [i \in S |-> CHOOSE j \in S : a[j] = i]
<1>1. a \in [S -> S] /\ \A i \in S : \E j \in S : a[j] = i
  BY DEF Bijection, Injection, Surjection
<1>2. \A i, j \in S : a[i] = a[j] => i = j
  BY <1>1 DEF Bijection, Injection, IsInjective
<1>3. \A i \in S : b[i] \in S /\ a[b[i]] = i
  BY <1>1
<1>4. \A i \in S : b[a[i]] = i
  BY <1>1, <1>2, <1>3
<1>5. b \in [S -> S]
  BY <1>3
<1> HIDE DEF b
<1>6. b \in Bijection(S, S)
  BY <1>1, <1>3, <1>4, <1>5 DEF Bijection, Injection, Surjection, IsInjective
<1> QED
  BY <1>3, <1>4, <1>6

\* The order a sequence is in makes no difference to its rearrangements.
LEMMA SameRearrangements ==
  ASSUME NEW s, NEW t \in Rearrangements(s), Len(s) \in Nat
  PROVE  Len(t) = Len(s) /\ Rearrangements(t) = Rearrangements(s)
<1> DEFINE n == Len(s)
<1>1. PICK a \in Bijection(1..n, 1..n) : t = [i \in 1..n |-> s[a[i]]]
  BY DEF Rearrangements
<1>2. Len(t) = n
  BY <1>1
<1>3. PICK b \in Bijection(1..n, 1..n) : \A i \in 1..n : a[b[i]] = i /\ b[a[i]] = i
  BY Undone
<1>4. \A o \in Bijection(1..n, 1..n) : \A i \in 1..n : o[i] \in 1..n
  BY DEF Bijection, Injection
<1>5. ASSUME NEW o \in Bijection(1..n, 1..n)
      PROVE  /\ [i \in 1..n |-> t[o[i]]] \in Rearrangements(s)
             /\ [i \in 1..n |-> s[o[i]]] \in Rearrangements(t)
  <2>1. [i \in 1..n |-> a[o[i]]] \in Bijection(1..n, 1..n)
    BY Composed
  <2>2. [i \in 1..n |-> b[o[i]]] \in Bijection(1..n, 1..n)
    BY Composed
  <2>3. [i \in 1..n |-> t[o[i]]] = [i \in 1..n |-> s[[j \in 1..n |-> a[o[j]]][i]]]
    BY <1>1, <1>4
  <2>4. [i \in 1..n |-> s[o[i]]] = [i \in 1..n |-> t[[j \in 1..n |-> b[o[j]]][i]]]
    BY <1>1, <1>3, <1>4
  <2>5. [i \in 1..n |-> t[o[i]]] \in Rearrangements(s)
    BY <2>1, <2>3 DEF Rearrangements
  <2>6. [i \in 1..n |-> s[o[i]]] \in Rearrangements(t)
    BY <1>2, <2>2, <2>4 DEF Rearrangements
  <2> QED
    BY <2>5, <2>6
<1>6. ASSUME NEW x \in Rearrangements(t)
      PROVE  x \in Rearrangements(s)
  <2>1. PICK o \in Bijection(1..n, 1..n) : x = [i \in 1..n |-> t[o[i]]]
    BY <1>2 DEF Rearrangements
  <2> QED
    BY <1>5, <2>1
<1>7. ASSUME NEW x \in Rearrangements(s)
      PROVE  x \in Rearrangements(t)
  <2>1. PICK o \in Bijection(1..n, 1..n) : x = [i \in 1..n |-> s[o[i]]]
    BY DEF Rearrangements
  <2> QED
    BY <1>5, <2>1
<1> QED
  BY <1>2, <1>6, <1>7

\* A sequence in its own order is one of its rearrangements.
LEMMA Unmoved ==
  ASSUME NEW s, Len(s) \in Nat, s = [i \in 1..Len(s) |-> s[i]]
  PROVE  s \in Rearrangements(s)
<1> DEFINE o == [i \in 1..Len(s) |-> i]
<1>1. o \in Bijection(1..Len(s), 1..Len(s))
  BY DEF Bijection, Injection, Surjection, IsInjective
<1>2. s = [i \in 1..Len(s) |-> s[o[i]]]
  OBVIOUS
<1> HIDE DEF o
<1> QED
  BY <1>1, <1>2 DEF Rearrangements

\* sort_unstable: lines are sorted to the same in whatever order they come.
LEMMA SortForgetsOrder ==
  ASSUME NEW s, NEW t \in Rearrangements(s), Len(s) \in Nat
  PROVE  Sorted(t) = Sorted(s)
BY SameRearrangements DEF Sorted

-----------------------------------------------------------------------------
(* What becomes of a cell.                                                  *)

\* What a driver may make of a cell, whatever type its system has it in.
Spoken(v, c) ==
  /\ v # Refused
  /\ \/ v = ArrowValue(c)
     \/ \E style \in {"stored", "wide"} :
          v = DataFusionValue(Recast("datafusion", style, c)) \/ v = DuckDbValue(Recast("duckdb", style, c))

\* A moment as the form has it.
Moment(kind, instant) == [kind |-> kind, time |-> [seconds |-> instant[1], micros |-> instant[2] \div 1000]]

\* Milliseconds are so many nanoseconds.
LEMMA Finer ==
  ASSUME NEW n \in Int
  PROVE  /\ (n * 1000000) \div 1000000000 = n \div 1000
         /\ (n * 1000000) % 1000000000 = (n % 1000) * 1000000
<1>1. PICK q \in Int, r \in Nat : r < 1000 /\ n = 1000 * q + r /\ n \div 1000 = q /\ n % 1000 = r
  BY SMT
<1>2. ASSUME NEW m \in Int, NEW s \in Nat, s < 1000000000, m = 1000000000 * q + s
      PROVE  m \div 1000000000 = q /\ m % 1000000000 = s
  BY <1>2, SMT
<1>3. /\ n * 1000000 \in Int /\ r * 1000000 \in Nat /\ r * 1000000 < 1000000000
      /\ n * 1000000 = 1000000000 * q + r * 1000000
  BY <1>1, SMT
<1> QED
  BY <1>1, <1>2, <1>3, SMT

\* Days and so many milliseconds.
LEMMA WholeDays ==
  ASSUME NEW n \in Int
  PROVE  (n * 86400000) \div 86400000 = n
BY SMT

\* microseconds: what a time of any unit comes to, when it loses nothing.
LEMMA MicrosKeepInstant ==
  ASSUME NEW unit \in Units, NEW count \in Int, Micros(unit, count) # Refused
  PROVE  Micros(unit, count) =
           [seconds |-> Instant(unit, count)[1], micros |-> Instant(unit, count)[2] \div 1000]
<1>1. CASE unit = "second"
  BY <1>1, SMT DEF Micros, Instant
<1>2. CASE unit = "millisecond"
  BY <1>2, SMT DEF Micros, Instant
<1>3. CASE unit = "microsecond"
  BY <1>3, SMT DEF Micros, Instant
<1>4. CASE unit = "nanosecond"
  BY <1>4, SMT DEF Micros, Instant
<1> QED
  BY <1>1, <1>2, <1>3, <1>4 DEF Units

\* The types a cell is one of, and what it has by its type.
LEMMA CellTypes ==
  ASSUME NEW c \in Cells
  PROVE  /\ c.type \in {"null", "nested", "boolean", "integer", "hugeint", "double", "decimal", "text",
                        "date32", "date64", "time", "timestamp"}
         /\ c.type = "date32" => c.days \in Int
         /\ c.type \in {"integer", "hugeint"} => c.int \in Int
         /\ c.type \in {"time", "timestamp"} =>
              /\ c.unit \in Units /\ c.count \in Int
              /\ c = [type |-> c.type, unit |-> c.unit, count |-> c.count, zoned |-> c.zoned]
         /\ c.type = "decimal" => c = [type |-> "decimal", payload |-> c.payload, digits |-> c.digits]
BY DEF Cells

\* What becomes of a cell in its system, by its type.
LEMMA RecastIs ==
  ASSUME NEW c \in Cells, NEW driver \in {"duckdb", "datafusion"}, NEW style \in {"stored", "wide"},
         NEW d, d = Recast(driver, style, c)
  PROVE  \/ d = c
         \/ driver = "duckdb" /\ c.type = "integer" /\ d = [type |-> "hugeint", int |-> c.int]
         \/ driver = "datafusion" /\ c.type = "date32" /\ d = [type |-> "date64", millis |-> c.days * 86400000]
         \/ /\ c.type = "timestamp" /\ c.unit = "millisecond"
            /\ d.type = "timestamp" /\ d.unit = "nanosecond" /\ d.count = c.count * 1000000
         \/ c.type = "decimal" /\ d.type = "decimal"
<1>1. CASE style = "wide" /\ c.type = "timestamp" /\ c.unit = "millisecond"
  BY <1>1, SMT DEF Recast
<1>2. CASE style = "wide" /\ c.type = "decimal" /\ c.digits = 1
  BY <1>2, SMT DEF Recast
<1>3. CASE ~(/\ style = "wide"
             /\ (c.type = "timestamp" /\ c.unit = "millisecond") \/ (c.type = "decimal" /\ c.digits = 1))
  <2>1. CASE style = "wide" /\ driver = "duckdb" /\ c.type = "integer"
    BY <2>1, SMT DEF Recast
  <2>2. CASE style = "wide" /\ driver = "datafusion" /\ c.type = "date32"
    BY <2>2, SMT DEF Recast
  <2>3. CASE ~(/\ style = "wide"
               /\ \/ driver = "duckdb" /\ c.type = "integer"
                  \/ driver = "datafusion" /\ c.type = "date32")
    BY <1>3, <2>3, SMT DEF Recast
  <2> QED
    BY <2>1, <2>2, <2>3
<1> QED
  BY <1>1, <1>2, <1>3

\* The day that a count of milliseconds falls on.
DayFor(millis) == millis \div 86400000

\* What every driver makes of a cell that is neither a number nor a time.
Standard(c) ==
  CASE c.type = "null" -> Null
    [] c.type = "boolean" -> Bool(c.bool)
    [] c.type \in {"integer", "hugeint"} -> Integer(c.int)
    [] c.type = "double" -> Float(c.float)
    [] c.type = "text" -> Text(c.text)
    [] c.type = "date32" -> Date(c.days)
    [] c.type = "date64" -> Date(DayFor(c.millis))

\* The kinds a time is told as.
KindOf(type) == IF type = "time" THEN "Time" ELSE "Timestamp"

\* A time in microseconds.
LEMMA TimeIs ==
  ASSUME NEW c, c.unit \in Units, c.count \in Int, NEW kind, InMicros(kind, c) # Refused
  PROVE  InMicros(kind, c) = Moment(kind, Instant(c.unit, c.count))
<1>1. Micros(c.unit, c.count) # Refused
  BY DEF InMicros
<1> QED
  BY <1>1, MicrosKeepInstant DEF InMicros, Moment

\* value of the three drivers: a cell as it is stored.
LEMMA PlainIs ==
  ASSUME NEW c \in Cells, NEW v \in {ArrowValue(c), DataFusionValue(c), DuckDbValue(c)}, v # Refused
  PROVE  /\ IsNumber(c) => v = Float(IF c.type = "double" THEN c.float ELSE AsDouble(c).float)
         /\ c.type \in {"time", "timestamp"} => v = Moment(KindOf(c.type), Instant(c.unit, c.count))
         /\ ~IsNumber(c) /\ c.type \notin {"time", "timestamp"} => v = Standard(c)
<1>1. \/ v = SharedValue(c)
      \/ c.type = "date64" /\ v = Days(c.millis)
      \/ c.type = "hugeint" /\ v = Narrow(c.int)
  BY DEF ArrowValue, DataFusionValue, DuckDbValue
<1>2. CASE c.type = "date64" /\ v = Days(c.millis)
  BY <1>2, SMT DEF IsNumber, Standard, Days, DayFor
<1>3. CASE c.type = "hugeint" /\ v = Narrow(c.int)
  BY <1>3 DEF IsNumber, Standard, Narrow
<1>4. CASE v = SharedValue(c)
  <2>1. CASE c.type \in {"time", "timestamp"}
    <3>1. v = InMicros(KindOf(c.type), c)
      BY <1>4, <2>1 DEF SharedValue, KindOf
    <3> QED
      BY <2>1, <3>1, TimeIs, CellTypes DEF IsNumber
  <2>2. CASE c.type \in {"double", "decimal"}
    BY <1>4, <2>2 DEF SharedValue, IsNumber, Standard, AsDouble, Float
  <2>3. CASE c.type \in {"null", "boolean", "text", "date32"}
    BY <1>4, <2>3 DEF SharedValue, IsNumber, Standard
  <2>4. CASE c.type = "integer"
    BY <1>4, <2>4 DEF SharedValue, IsNumber, Standard, Narrow
  <2>5. CASE c.type \in {"nested", "hugeint", "date64"}
    BY <1>4, <2>5 DEF SharedValue
  <2> QED
    BY <2>1, <2>2, <2>3, <2>4, <2>5, CellTypes
<1> QED
  BY <1>1, <1>2, <1>3, <1>4

\* value of the three drivers: what is made of a cell goes by what it says and
\* not by what a system has it as.
LEMMA SpokenIs ==
  ASSUME NEW c \in Cells, NEW v, Spoken(v, c)
  PROVE  /\ IsNumber(c) => \E x \in Forms(c) : v = Float(x)
         /\ c.type \in {"time", "timestamp"} => v = Moment(KindOf(c.type), Instant(c.unit, c.count))
         /\ ~IsNumber(c) /\ c.type \notin {"time", "timestamp"} => v = Standard(c)
<1> DEFINE Driven(d) == \E driver \in {"duckdb", "datafusion"}, style \in {"stored", "wide"} :
                          d = Recast(driver, style, c) /\ v = IF driver = "duckdb" THEN DuckDbValue(d) ELSE DataFusionValue(d)
<1>0. v # Refused
  BY DEF Spoken
<1>1. v = ArrowValue(c) \/ \E d : Driven(d)
  BY DEF Spoken
<1>2. CASE v \in {ArrowValue(c), DataFusionValue(c), DuckDbValue(c)}
  <2>1. IsNumber(c) => \E x \in Forms(c) : v = Float(x)
    <3>1. CASE c.type = "double"
      BY <1>0, <1>2, <3>1, PlainIs DEF Forms
    <3>2. CASE c.type # "double" /\ IsNumber(c)
      <4>1. Recast("duckdb", "stored", c) = c
        BY SMT DEF Recast
      <4>2. AsDouble(c).float \in Forms(c)
        BY <3>2, <4>1 DEF Forms
      <4> QED
        BY <1>0, <1>2, <3>2, <4>2, PlainIs
    <3> QED
      BY <3>1, <3>2
  <2> QED
    BY <1>0, <1>2, <2>1, PlainIs
<1>3. ASSUME NEW driver \in {"duckdb", "datafusion"}, NEW style \in {"stored", "wide"},
             NEW d, d = Recast(driver, style, c),
             v = IF driver = "duckdb" THEN DuckDbValue(d) ELSE DataFusionValue(d),
             v \notin {ArrowValue(c), DataFusionValue(c), DuckDbValue(c)}
      PROVE  /\ IsNumber(c) => \E x \in Forms(c) : v = Float(x)
             /\ c.type \in {"time", "timestamp"} => v = Moment(KindOf(c.type), Instant(c.unit, c.count))
             /\ ~IsNumber(c) /\ c.type \notin {"time", "timestamp"} => v = Standard(c)
  <2>0. d # c
    BY <1>3
  <2>1. CASE driver = "duckdb" /\ c.type = "integer" /\ d = [type |-> "hugeint", int |-> c.int]
    <3>1. v = Integer(c.int)
      BY <1>0, <1>3, <2>1 DEF DuckDbValue, Narrow
    <3> QED
      BY <2>1, <3>1 DEF IsNumber, Standard
  <2>2. CASE driver = "datafusion" /\ c.type = "date32" /\ d = [type |-> "date64", millis |-> c.days * 86400000]
    <3>1. v = Days(d.millis)
      BY <1>3, <2>2, SMT DEF DataFusionValue
    <3>2. c.days \in Int /\ d.millis = c.days * 86400000
      BY <2>2, CellTypes, SMT
    <3>3. v = Date(c.days)
      BY <1>0, <3>1, <3>2, WholeDays, SMT DEF Days
    <3>4. c.type = "date32"
      BY <2>2
    <3> QED
      BY <3>3, <3>4 DEF IsNumber, Standard
  <2>3. CASE /\ c.type = "timestamp" /\ c.unit = "millisecond"
             /\ d.type = "timestamp" /\ d.unit = "nanosecond" /\ d.count = c.count * 1000000
    <3>1. c.count \in Int /\ d.unit \in Units /\ d.count \in Int
      BY <2>3, CellTypes, SMT DEF Units
    <3>2. c.type = "timestamp" /\ c.unit = "millisecond" /\ d.type = "timestamp" /\ d.unit = "nanosecond"
      BY <2>3
    <3>3. v = InMicros("Timestamp", d)
      <4>1. v = SharedValue(d)
        BY <1>3, <3>2 DEF DuckDbValue, DataFusionValue
      <4> QED
        BY <1>0, <3>2, <4>1 DEF SharedValue
    <3>4. v = Moment("Timestamp", Instant(d.unit, d.count))
      BY <1>0, <3>1, <3>3, TimeIs
    <3>5. Instant(d.unit, d.count) = Instant(c.unit, c.count)
      BY <2>3, <3>1, Finer, SMT DEF Instant
    <3> QED
      BY <3>2, <3>4, <3>5 DEF IsNumber, KindOf
  <2>4. CASE c.type = "decimal" /\ d.type = "decimal"
    <3>1. v = AsDouble(d)
      BY <1>3, <2>4 DEF DuckDbValue, DataFusionValue, SharedValue
    <3>2. v = Float(AsDouble(d).float)
      BY <3>1 DEF AsDouble, Float
    <3>3. AsDouble(d).float \in Forms(c)
      BY <1>3, <2>4 DEF Forms
    <3> QED
      BY <2>4, <3>2, <3>3 DEF IsNumber
  <2>5. \/ driver = "duckdb" /\ c.type = "integer" /\ d = [type |-> "hugeint", int |-> c.int]
        \/ driver = "datafusion" /\ c.type = "date32" /\ d = [type |-> "date64", millis |-> c.days * 86400000]
        \/ /\ c.type = "timestamp" /\ c.unit = "millisecond"
           /\ d.type = "timestamp" /\ d.unit = "nanosecond" /\ d.count = c.count * 1000000
        \/ c.type = "decimal" /\ d.type = "decimal"
    BY <1>3, <2>0, RecastIs, SMT
  <2> QED
    BY <2>1, <2>2, <2>3, <2>4, <2>5, SMT
<1>4. CASE \E d : Driven(d)
  BY <1>2, <1>3, <1>4
<1> QED
  BY <1>1, <1>2, <1>4

\* What two cells that say the same have in common.
LEMMA MeaningDecides ==
  ASSUME NEW c \in Cells, NEW d \in Cells, Meaning(c) = Meaning(d)
  PROVE  /\ IsNumber(c) <=> IsNumber(d)
         /\ c.type \in {"time", "timestamp"} =>
              c.type = d.type /\ Instant(c.unit, c.count) = Instant(d.unit, d.count)
         /\ d.type \in {"time", "timestamp"} => c.type \in {"time", "timestamp"}
         /\ ~IsNumber(c) /\ c.type \notin {"time", "timestamp"} => c = d
<1> DEFINE OneOfThree(e) ==
             \/ /\ e.type \in {"time", "timestamp"} /\ ~IsNumber(e)
                /\ Meaning(e) = [type |-> e.type, instant |-> Instant(e.unit, e.count)]
             \/ /\ IsNumber(e) /\ e.type \notin {"time", "timestamp"}
                /\ \E n : Meaning(e) = [type |-> "number", digits |-> n]
             \/ ~IsNumber(e) /\ e.type \notin {"time", "timestamp"} /\ Meaning(e) = e
<1>1. ASSUME NEW e \in Cells
      PROVE  OneOfThree(e)
  <2>1. CASE e.type \in {"time", "timestamp"}
    BY <2>1 DEF Meaning, IsNumber
  <2>2. CASE e.type = "decimal"
    BY <2>2 DEF Meaning, IsNumber
  <2>3. CASE e.type = "double" /\ e.float.is = "finite"
    BY <2>3 DEF Meaning, IsNumber
  <2>4. CASE ~IsNumber(e) /\ e.type \notin {"time", "timestamp"}
    BY <2>4 DEF Meaning, IsNumber
  <2> QED
    BY <2>1, <2>2, <2>3, <2>4 DEF IsNumber
<1>2. OneOfThree(c) /\ OneOfThree(d)
  BY <1>1
<1>3. c.type # "number" /\ d.type # "number"
  BY CellTypes
<1> QED
  BY <1>2, <1>3

\* Whatever two drivers make of cells that say the same is written alike.
LEMMA CellGoesByMeaning ==
  ASSUME NEW c \in Cells, NEW d \in Cells, Meaning(c) = Meaning(d),
         NEW v, Spoken(v, c), NEW w, Spoken(w, d),
         IsNumber(c) /\ IsNumber(d) => \A x \in Forms(c), y \in Forms(d) : float(x) = float(y)
  PROVE  render(v) = render(w)
<1>1. CASE IsNumber(c)
  <2>1. IsNumber(d)
    BY <1>1, MeaningDecides
  <2>2. PICK x \in Forms(c) : v = Float(x)
    BY <1>1, SpokenIs
  <2>3. PICK y \in Forms(d) : w = Float(y)
    BY <2>1, SpokenIs
  <2>4. \A z : render(Float(z)) = float(z)
    BY DEF render, Float
  <2> QED
    BY <1>1, <2>1, <2>2, <2>3, <2>4
<1>2. CASE c.type \in {"time", "timestamp"}
  <2>1. d.type = c.type /\ Instant(c.unit, c.count) = Instant(d.unit, d.count)
    BY <1>2, MeaningDecides
  <2>2. v = w
    BY <1>2, <2>1, SpokenIs
  <2> QED
    BY <2>2
<1>3. CASE ~IsNumber(c) /\ c.type \notin {"time", "timestamp"}
  <2>1. c = d
    BY <1>3, MeaningDecides
  <2>2. v = w
    BY <1>3, <2>1, SpokenIs
  <2> QED
    BY <2>2
<1> QED
  BY <1>1, <1>2, <1>3

-----------------------------------------------------------------------------
(* What becomes of a row.                                                   *)

\* Cells and the values some driver made of them, row by row.
SpokenRow(row, cells) ==
  Len(row) = Len(cells) /\ \A k \in 1..Len(row) : Spoken(row[k], cells[k])

\* What a sequence of cells says.
SaidBy(cells) == [k \in 1..Len(cells) |-> Meaning(cells[k])]

\* Rows::push: a line goes by what its cells say.
LEMMA LineGoesByMeaning ==
  ASSUME NEW cells \in Seq(Cells), NEW others \in Seq(Cells), SaidBy(cells) = SaidBy(others),
         \A c \in Range(cells), d \in Range(others) :
           IsNumber(c) /\ IsNumber(d) /\ Meaning(c) = Meaning(d) =>
             \A x \in Forms(c), y \in Forms(d) : float(x) = float(y),
         NEW row, SpokenRow(row, cells), NEW another, SpokenRow(another, others)
  PROVE  Len(row) = Len(another) /\ Line(row) = Line(another)
<1> DEFINE n == Len(cells)
<1>1. n \in Nat /\ Len(others) \in Nat
  OBVIOUS
<1>2. Len(others) = n /\ \A k \in 1..n : Meaning(cells[k]) = Meaning(others[k])
  <2>1. DOMAIN SaidBy(cells) = 1..n /\ DOMAIN SaidBy(others) = 1..Len(others)
    BY DEF SaidBy
  <2>2. Len(others) = n
    BY <1>1, <2>1
  <2>3. \A k \in 1..n : SaidBy(cells)[k] = Meaning(cells[k]) /\ SaidBy(others)[k] = Meaning(others[k])
    BY <2>2 DEF SaidBy
  <2> QED
    BY <2>2, <2>3
<1>3. Len(row) = n /\ Len(another) = n
  BY <1>2 DEF SpokenRow
<1>4. ASSUME NEW k \in 1..n
      PROVE  render(row[k]) = render(another[k])
  <2>1. cells[k] \in Cells /\ others[k] \in Cells
    BY <1>2, MemberOf
  <2>2. cells[k] \in Range(cells) /\ others[k] \in Range(others)
    BY <1>1, <1>2 DEF Range
  <2>3. Spoken(row[k], cells[k]) /\ Spoken(another[k], others[k])
    BY <1>3 DEF SpokenRow
  <2> QED
    BY <1>2, <2>1, <2>2, <2>3, CellGoesByMeaning
<1> QED
  BY <1>3, <1>4 DEF Line

\* What a load says in answer to a query, row by row.
SaidIn(l, q) == [i \in 1..Len(Result(l, q)) |-> SaidBy(Result(l, q)[i])]

\* The rows a query asks for are rows of cells, all as wide as the query.
LEMMA ResultIsRows ==
  ASSUME NEW q \in Query, NEW l \in Asked(q)
  PROVE  /\ Len(Result(l, q)) \in Nat /\ Len(Columns(l, q)) \in Nat
         /\ Result(l, q) = [i \in 1..Len(Result(l, q)) |-> Result(l, q)[i]]
         /\ \A i \in 1..Len(Result(l, q)) :
              /\ Result(l, q)[i] \in Seq(Cells) /\ Len(Result(l, q)[i]) = Len(Columns(l, q))
              /\ Range(Result(l, q)[i]) \subseteq CellsOf(l, q)
<1> DEFINE n == Len(StoredRows(l))
           w == Len(Columns(l, q))
           result == Result(l, q)
<1>1. Tabular(result, n, w) /\ \A i \in 1..n : \A k \in 1..w : result[i][k] \in Cells
  BY ResultIsTabular DEF Asked
<1>2. Len(result) = n /\ n \in Nat /\ w \in Nat /\ result = [i \in 1..n |-> result[i]]
  BY <1>1, TabularHasLengths DEF Tabular
<1>3. ASSUME NEW i \in 1..n
      PROVE  /\ result[i] \in Seq(Cells) /\ Len(result[i]) = w
             /\ Range(result[i]) \subseteq CellsOf(l, q)
  <2> DEFINE row == result[i]
  <2>1. row = [k \in 1..w |-> row[k]] /\ \A k \in 1..w : row[k] \in Cells
    BY <1>1 DEF Tabular
  <2>2. row \in Range(result)
    BY <1>2 DEF Range
  <2>3. Range(row) \subseteq CellsOf(l, q)
    BY <2>2 DEF CellsOf
  <2> HIDE DEF row, w
  <2>4. row \in Seq(Cells) /\ Len(row) = w
    BY <1>2, <2>1, IsSequence
  <2> QED
    BY <2>3, <2>4 DEF row
<1> QED
  BY <1>2, <1>3

\* Two rows that say the same are written alike, whichever drivers read them.
LEMMA RowsGoByMeaning ==
  ASSUME SixDigitsAreWrittenAlike, NEW q \in Query, NEW l \in Asked(q), NEW m \in Asked(q),
         NEW i \in 1..Len(Result(l, q)), NEW j \in 1..Len(Result(m, q)), SaidIn(l, q)[i] = SaidIn(m, q)[j],
         NEW row, SpokenRow(row, Result(l, q)[i]), NEW another, SpokenRow(another, Result(m, q)[j])
  PROVE  Len(row) = Len(another) /\ Line(row) = Line(another)
<1> DEFINE cells == Result(l, q)[i]
           others == Result(m, q)[j]
<1>1. cells \in Seq(Cells) /\ others \in Seq(Cells)
  BY ResultIsRows
<1>2. SaidBy(cells) = SaidBy(others)
  BY DEF SaidIn
<1>3. Range(cells) \subseteq CellsOf(l, q) /\ Range(others) \subseteq CellsOf(m, q)
  BY ResultIsRows
<1>4. \A c \in Range(cells), d \in Range(others) :
        IsNumber(c) /\ IsNumber(d) /\ Meaning(c) = Meaning(d) =>
          \A x \in Forms(c), y \in Forms(d) : float(x) = float(y)
  BY <1>3 DEF SixDigitsAreWrittenAlike
<1>5. SpokenRow(row, cells) /\ SpokenRow(another, others)
  OBVIOUS
<1> HIDE DEF cells, others
<1> QED
  BY <1>1, <1>2, <1>4, <1>5, LineGoesByMeaning

-----------------------------------------------------------------------------
(* What becomes of an answer.                                               *)

\* The rows a system may hand over: as they are, or in any order.
Handed(l, q) == IF Question(q).ordered THEN {Result(l, q)} ELSE Rearrangements(Result(l, q))

\* Rows that were read from the ones given, cell by cell.
ReadFrom(rows, given) ==
  /\ rows = [i \in 1..Len(given) |-> rows[i]]
  /\ \A i \in 1..Len(given) : SpokenRow(rows[i], given[i])

\* What is handed over is the rows asked for, each once.
LEMMA HandedIsMoved ==
  ASSUME NEW q \in Query, NEW l \in Asked(q), NEW given \in Handed(l, q)
  PROVE  /\ Len(given) = Len(Result(l, q))
         /\ \E o \in Bijection(1..Len(Result(l, q)), 1..Len(Result(l, q))) :
              /\ \A i \in 1..Len(Result(l, q)) : given[i] = Result(l, q)[o[i]]
              /\ Question(q).ordered => \A i \in 1..Len(Result(l, q)) : o[i] = i
<1> DEFINE n == Len(Result(l, q))
<1>1. n \in Nat
  BY ResultIsRows
<1>2. CASE Question(q).ordered
  <2> DEFINE o == [i \in 1..n |-> i]
  <2>1. o \in Bijection(1..n, 1..n) /\ \A i \in 1..n : o[i] = i
    BY DEF Bijection, Injection, Surjection, IsInjective
  <2>2. given = Result(l, q)
    BY <1>2 DEF Handed
  <2> HIDE DEF o
  <2> QED
    BY <2>1, <2>2
<1>3. CASE ~Question(q).ordered
  <2>1. PICK o \in Bijection(1..n, 1..n) : given = [i \in 1..n |-> Result(l, q)[o[i]]]
    BY <1>3 DEF Handed, Rearrangements
  <2>2. Len(given) = n
    BY <1>1, <2>1
  <2> QED
    BY <1>3, <2>1, <2>2
<1> QED
  BY <1>2, <1>3

\* n things, one after another.
Listed(s, n) == s = [i \in 1..n |-> s[i]]

\* Rows::finish and Digest::of: the digest goes by the lines, in their order
\* if one was asked for and in whatever order if none was.
LEMMA DigestGoesByLines ==
  ASSUME NEW n \in Nat, NEW w, NEW q,
         NEW rows, Listed(rows, n), \A i \in 1..n : Len(rows[i]) = w,
         NEW others, Listed(others, n), \A i \in 1..n : Len(others[i]) = w,
         NEW o \in Bijection(1..n, 1..n), \A i \in 1..n : Line(rows[i]) = Line(others[o[i]]),
         Question(q).ordered => \A i \in 1..n : o[i] = i
  PROVE  DigestOf(finish(rows, Question(q).ordered)) = DigestOf(finish(others, Question(q).ordered))
<1> DEFINE rendered(of) == [i \in 1..Len(of) |-> Line(of[i])]
           lines(of) == IF Question(q).ordered THEN rendered(of) ELSE Sorted(rendered(of))
<1>1. Len(rows) = n /\ Len(others) = n
  BY DEF Listed
<1>2. \A i \in 1..n : o[i] \in 1..n
  BY DEF Bijection, Injection
<1>3. lines(rows) = lines(others)
  <2>1. CASE Question(q).ordered
    BY <1>1, <2>1
  <2>2. CASE ~Question(q).ordered
    <3>1. rendered(rows) = [i \in 1..n |-> rendered(others)[o[i]]]
      BY <1>1, <1>2
    <3>2. Len(rendered(others)) = n
      BY <1>1
    <3> HIDE DEF rendered
    <3>3. rendered(rows) \in Rearrangements(rendered(others))
      BY <3>1, <3>2 DEF Rearrangements
    <3>4. Sorted(rendered(rows)) = Sorted(rendered(others))
      BY <3>2, <3>3, SortForgetsOrder
    <3> QED
      BY <2>2, <3>4
  <2> QED
    BY <2>1, <2>2
<1>4. (rows = <<>> <=> others = <<>>) /\ (rows # <<>> => Len(rows[1]) = w /\ Len(others[1]) = w)
  <2>1. rows = <<>> <=> n = 0
    BY DEF Listed
  <2>2. others = <<>> <=> n = 0
    BY DEF Listed
  <2>3. n # 0 => 1 \in 1..n
    OBVIOUS
  <2> QED
    BY <2>1, <2>2, <2>3
<1> DEFINE body(put) == FlattenSeq([i \in 1..Len(put) |-> (IF i > 1 THEN <<"\n">> ELSE <<>>) \o put[i]])
           done(of, put) == [rows |-> Len(of), columns |-> IF of = <<>> THEN 0 ELSE Len(of[1]),
                             body |-> IF body(put) = <<>> THEN body(put) ELSE Append(body(put), "\n")]
<1>5. \A of : finish(of, Question(q).ordered) = done(of, lines(of))
  BY Zenon DEF finish
<1>6. done(rows, lines(rows)) = done(others, lines(others))
  <2> HIDE DEF lines, body
  <2> QED
    BY <1>1, <1>3, <1>4
<1>7. finish(rows, Question(q).ordered) = finish(others, Question(q).ordered)
  <2> HIDE DEF lines, done
  <2> QED
    BY <1>5, <1>6
<1> QED
  BY <1>7

\* Two answers that say the same have one digest.
LEMMA SameToldSameDigest ==
  ASSUME SixDigitsAreWrittenAlike, NEW q \in Query, NEW l \in Asked(q), NEW m \in Asked(q),
         NEW given \in Handed(l, q), NEW rows, ReadFrom(rows, given),
         NEW gotten \in Handed(m, q), NEW others, ReadFrom(others, gotten),
         NEW one, one.q = q, one.of = l, NEW other, other.q = q, other.of = m, SameTold(one, other)
  PROVE  DigestOf(finish(rows, Question(q).ordered)) = DigestOf(finish(others, Question(q).ordered))
<1> DEFINE n == Len(Result(l, q))
           w == Len(Columns(l, q))
<1>1. /\ n \in Nat /\ Len(Result(m, q)) \in Nat
      /\ \A i \in 1..n : Len(Result(l, q)[i]) = w
      /\ \A i \in 1..Len(Result(m, q)) : Len(Result(m, q)[i]) = Len(Columns(m, q))
  BY ResultIsRows
<1>2. Told(one) = SaidIn(l, q) /\ Told(other) = SaidIn(m, q)
  BY DEF Told, SaidIn, SaidBy
<1>3. Len(SaidIn(l, q)) = n /\ Len(SaidIn(m, q)) = Len(Result(m, q))
  BY <1>1 DEF SaidIn
<1>4. /\ Len(Result(m, q)) = n
      /\ \E p \in Bijection(1..n, 1..n) :
           /\ \A i \in 1..n : SaidIn(l, q)[i] = SaidIn(m, q)[p[i]]
           /\ Question(q).ordered => \A i \in 1..n : p[i] = i
  <2>1. CASE Question(q).ordered
    <3> DEFINE p == [i \in 1..n |-> i]
    <3>1. p \in Bijection(1..n, 1..n) /\ \A i \in 1..n : p[i] = i
      BY DEF Bijection, Injection, Surjection, IsInjective
    <3>2. SaidIn(l, q) = SaidIn(m, q)
      BY <1>2, <2>1 DEF SameTold
    <3>3. Len(Result(m, q)) = n
      BY <1>3, <3>2
    <3> HIDE DEF p, n
    <3> QED
      BY <3>1, <3>2, <3>3
  <2>2. CASE ~Question(q).ordered
    <3>1. SaidIn(l, q) \in Rearrangements(SaidIn(m, q))
      BY <1>2, <2>2 DEF SameTold
    <3>2. PICK p \in Bijection(1..Len(Result(m, q)), 1..Len(Result(m, q))) :
            SaidIn(l, q) = [i \in 1..Len(Result(m, q)) |-> SaidIn(m, q)[p[i]]]
      BY <1>3, <3>1 DEF Rearrangements
    <3>3. Len(Result(m, q)) = n
      BY <1>1, <1>3, <3>2
    <3> QED
      BY <2>2, <3>2, <3>3
  <2> QED
    BY <2>1, <2>2
<1>5. PICK p \in Bijection(1..n, 1..n) :
        /\ \A i \in 1..n : SaidIn(l, q)[i] = SaidIn(m, q)[p[i]]
        /\ Question(q).ordered => \A i \in 1..n : p[i] = i
  BY <1>4
<1>6. PICK a \in Bijection(1..n, 1..n) :
        /\ \A i \in 1..n : given[i] = Result(l, q)[a[i]]
        /\ Question(q).ordered => \A i \in 1..n : a[i] = i
  BY HandedIsMoved
<1>7. PICK b \in Bijection(1..n, 1..n) :
        /\ \A i \in 1..n : gotten[i] = Result(m, q)[b[i]]
        /\ Question(q).ordered => \A i \in 1..n : b[i] = i
  BY <1>4, HandedIsMoved
<1>8. PICK c \in Bijection(1..n, 1..n) : \A i \in 1..n : b[c[i]] = i /\ c[b[i]] = i
  BY Undone
<1>9. Len(given) = n /\ Len(gotten) = n
  BY <1>4, HandedIsMoved
<1> HIDE DEF n, w
<1>10. \A f \in Bijection(1..n, 1..n) : \A i \in 1..n : f[i] \in 1..n
  BY DEF Bijection, Injection
<1> DEFINE pa == [i \in 1..n |-> p[a[i]]]
           o == [i \in 1..n |-> c[pa[i]]]
<1>11. pa \in Bijection(1..n, 1..n)
  BY Composed
<1>12. o \in Bijection(1..n, 1..n)
  <2> HIDE DEF pa
  <2> QED
    BY <1>11, Composed
<1>13. Question(q).ordered => \A i \in 1..n : o[i] = i
  BY <1>5, <1>6, <1>7, <1>8, <1>10
<1>14. ASSUME NEW i \in 1..n
       PROVE  Len(rows[i]) = w /\ Len(rows[i]) = Len(others[o[i]]) /\ Line(rows[i]) = Line(others[o[i]])
  <2>1. a[i] \in 1..n /\ p[a[i]] \in 1..n /\ o[i] = c[p[a[i]]] /\ o[i] \in 1..n /\ b[o[i]] = p[a[i]]
    BY <1>8, <1>10
  <2>2. SpokenRow(rows[i], Result(l, q)[a[i]]) /\ SpokenRow(others[o[i]], Result(m, q)[p[a[i]]])
    BY <1>6, <1>7, <1>9, <2>1 DEF ReadFrom
  <2>3. SaidIn(l, q)[a[i]] = SaidIn(m, q)[p[a[i]]]
    BY <1>5, <2>1
  <2>4. a[i] \in 1..Len(Result(l, q)) /\ p[a[i]] \in 1..Len(Result(m, q))
    BY <1>4, <2>1 DEF n
  <2>5. Len(rows[i]) = w
    BY <1>1, <2>1, <2>2 DEF SpokenRow
  <2> HIDE DEF o
  <2> QED
    BY <2>2, <2>3, <2>4, <2>5, RowsGoByMeaning
<1>15. ASSUME NEW j \in 1..n
       PROVE  Len(others[j]) = w
  <2>1. \A k \in 1..n : Len(others[k]) = Len(Columns(m, q))
    <3> TAKE k \in 1..n
    <3>1. SpokenRow(others[k], Result(m, q)[b[k]]) /\ b[k] \in 1..n
      BY <1>7, <1>9, <1>10 DEF ReadFrom
    <3> QED
      BY <1>1, <1>4, <3>1 DEF SpokenRow, n
  <2>2. o[j] \in 1..n
    BY <1>10, <1>12
  <2> HIDE DEF o
  <2> QED
    BY <1>14, <2>1, <2>2
<1>16. Listed(rows, n) /\ Listed(others, n)
  BY <1>9 DEF ReadFrom, Listed
<1>17. n \in Nat
  BY <1>1 DEF n
<1> HIDE DEF o
<1>18. DigestOf(finish(rows, Question(q).ordered)) = DigestOf(finish(others, Question(q).ordered))
  <2> HIDE DEF o
  <2>1. \A i \in 1..n : Len(rows[i]) = w /\ Line(rows[i]) = Line(others[o[i]])
    BY <1>14
  <2>2. \A i \in 1..n : Len(others[i]) = w
    BY <1>15
  <2> QED
    BY <1>12, <1>13, <1>16, <1>17, <2>1, <2>2, DigestGoesByLines
<1> QED
  BY <1>18

-----------------------------------------------------------------------------
(* From a driver's system to the digest.                                    *)

\* The columns wanted of a row, in the order they are wanted in.
InOrder(out, row, wanted, width) == Len(out) = width /\ \A k \in 1..width : out[k] = row[wanted[k]]

\* project: whatever order the columns are stored in, every one is where it
\* was asked for.
LEMMA ProjectedIsInOrder ==
  ASSUME NEW row, NEW size \in Nat, NEW wanted, NEW width \in Nat,
         Listed(wanted, width), \A k \in 1..width : wanted[k] \in 1..size
  PROVE  InOrder(Projected(row, wanted), row, wanted, width)
<1> DEFINE all == Range(wanted)
           upto(x) == {y \in all : y <= x}
<1>1. Len(wanted) = width
  BY DEF Listed
<1>2. all \subseteq 1..size /\ \A k \in 1..width : wanted[k] \in all
  BY DEF Range, Listed
<1>3. IsFiniteSet(all) /\ Cardinality(all) \in Nat
  <2>1. IsFiniteSet(1..size)
    <3>1. 1 \in Int /\ size \in Int
      OBVIOUS
    <3> QED
      BY <3>1, FS_Interval
  <2> QED
    BY <1>2, <2>1, FS_Subset, FS_CardinalityType
<1>4. ASSUME NEW x \in all
      PROVE  PlaceIn(wanted, x) \in 1..Cardinality(all)
  <2>1. x \in upto(x) /\ upto(x) \in SUBSET all
    BY <1>2
  <2> HIDE DEF upto, all
  <2>2. IsFiniteSet(upto(x)) /\ Cardinality(upto(x)) <= Cardinality(all)
    BY <1>3, <2>1, FS_Subset
  <2>3. Cardinality(upto(x)) \in Nat
    BY <2>2, FS_CardinalityType
  <2>5. Cardinality(upto(x)) # 0
    <3>1. upto(x) # {}
      BY <2>1
    <3> QED
      BY <2>2, <3>1, FS_EmptySet
  <2>4. Cardinality(upto(x)) \in 1..Cardinality(all)
    BY <1>3, <2>2, <2>3, <2>5
  <2> QED
    BY <2>4 DEF PlaceIn, upto, all
<1>5. ASSUME NEW x \in all, NEW y \in all, x < y
      PROVE  PlaceIn(wanted, x) # PlaceIn(wanted, y)
  <2>1. upto(x) \in SUBSET upto(y) /\ y \in upto(y) /\ y \notin upto(x) /\ upto(y) \in SUBSET all
    BY <1>2, <1>5
  <2> HIDE DEF upto, all
  <2>2. IsFiniteSet(upto(y))
    BY <1>3, <2>1, FS_Subset
  <2>3. Cardinality(upto(x)) # Cardinality(upto(y))
    BY <2>1, <2>2, FS_Subset
  <2> QED
    BY <2>3 DEF PlaceIn, upto, all
<1>6. ASSUME NEW x \in all, NEW y \in all, PlaceIn(wanted, x) = PlaceIn(wanted, y)
      PROVE  x = y
  <2>1. x \in Int /\ y \in Int /\ ~(x < y) /\ ~(y < x)
    BY <1>2, <1>5, <1>6
  <2> QED
    BY <2>1
<1>7. ASSUME NEW k \in 1..width
      PROVE  Projected(row, wanted)[k] = row[wanted[k]]
  <2> DEFINE x == wanted[k]
  <2>1. x \in all
    BY <1>2
  <2>2. (CHOOSE y \in all : PlaceIn(wanted, y) = PlaceIn(wanted, x)) = x
    BY <1>6, <2>1
  <2>3. Batch(row, wanted)[PlaceIn(wanted, x)] = row[x]
    BY <1>4, <2>1, <2>2 DEF Batch
  <2> QED
    BY <1>1, <2>3 DEF Projected
<1>8. Len(Projected(row, wanted)) = width
  BY <1>1 DEF Projected
<1> QED
  BY <1>7, <1>8 DEF InOrder

\* No cell without a canonical form.
NoneRefused(rows) == \A i \in 1..Len(rows) : \A k \in 1..Len(rows[i]) : rows[i][k] # Refused

\* DuckDb::run and DataFusion::run: what is made of what the system hands over.
LEMMA SystemsAreRead ==
  ASSUME NEW q \in Query, NEW l \in Asked(q), NEW driver \in {"duckdb", "datafusion"},
         NEW rows \in HandedOver(driver, l, q), NoneRefused(Canonical(driver, rows))
  PROVE  \E given \in Handed(l, q) : ReadFrom(Canonical(driver, rows), given)
<1> DEFINE n == Len(Result(l, q))
           w == Len(Columns(l, q))
           values == Canonical(driver, rows)
<1>1. PICK style \in {"stored", "wide"}, given \in Handed(l, q) :
        rows = [i \in 1..Len(given) |-> [k \in 1..w |-> Recast(driver, style, given[i][k])]]
  <2>1. HandedOver(driver, l, q) =
          {[i \in 1..Len(given) |-> [k \in 1..w |-> Recast(driver, style, given[i][k])]] :
             style \in {"stored", "wide"}, given \in Handed(l, q)}
    BY SMTT(120) DEF HandedOver, Handed
  <2>2. rows \in HandedOver(driver, l, q)
    OBVIOUS
  <2> HIDE DEF w
  <2> QED
    BY <2>1, <2>2, SMTT(120)
<1>2. n \in Nat /\ w \in Nat /\ \A i \in 1..n : Len(Result(l, q)[i]) = w
  BY ResultIsRows
<1>3. Len(given) = n /\ \A i \in 1..n : Len(given[i]) = w
  <2>1. PICK o \in Bijection(1..n, 1..n) : \A i \in 1..n : given[i] = Result(l, q)[o[i]]
    BY HandedIsMoved
  <2>2. \A i \in 1..n : o[i] \in 1..n
    BY DEF Bijection, Injection
  <2>3. Len(given) = n
    BY HandedIsMoved
  <2> QED
    BY <1>2, <2>1, <2>2, <2>3
<1> HIDE DEF n, w
<1>4. Len(rows) = n /\ \A i \in 1..n : Len(rows[i]) = w /\ \A k \in 1..w : rows[i][k] = Recast(driver, style, given[i][k])
  BY <1>1, <1>2, <1>3
<1>5. /\ values = [i \in 1..n |-> values[i]] /\ Len(values) = n
      /\ \A i \in 1..n : /\ Len(values[i]) = w
                         /\ \A k \in 1..w : values[i][k] = IF driver = "duckdb" THEN DuckDbValue(rows[i][k])
                                                           ELSE DataFusionValue(rows[i][k])
  <2>1. CASE driver = "duckdb"
    <3>1. values = [i \in 1..n |-> [k \in 1..Len(rows[i]) |-> DuckDbValue(rows[i][k])]]
      BY <1>4, <2>1 DEF Canonical
    <3> HIDE DEF values
    <3> QED
      BY <1>2, <1>4, <2>1, <3>1
  <2>2. CASE driver = "datafusion"
    <3>1. values = [i \in 1..n |-> [k \in 1..Len(rows[i]) |-> DataFusionValue(rows[i][k])]]
      BY <1>4, <2>2 DEF Canonical
    <3> HIDE DEF values
    <3> QED
      BY <1>2, <1>4, <2>2, <3>1
  <2> QED
    BY <2>1, <2>2
<1>6. NoneRefused(values)
  OBVIOUS
<1> HIDE DEF values
<1>7. ASSUME NEW i \in 1..n, NEW k \in 1..w
      PROVE  Spoken(values[i][k], given[i][k])
  <2>1. values[i][k] # Refused
    BY <1>5, <1>6 DEF NoneRefused
  <2>2. values[i][k] = IF driver = "duckdb" THEN DuckDbValue(Recast(driver, style, given[i][k]))
                       ELSE DataFusionValue(Recast(driver, style, given[i][k]))
    BY <1>4, <1>5
  <2> QED
    BY <2>1, <2>2 DEF Spoken
<1>8. ReadFrom(values, given)
  BY <1>3, <1>5, <1>7 DEF ReadFrom, SpokenRow
<1> QED
  BY <1>8 DEF values

\* ArrowParquet::run: what is made of the columns wanted of the files.
LEMMA FilesAreRead ==
  ASSUME NEW q \in Query, NEW l \in Asked(q), ~l.projected, 
         NEW wanted, Listed(wanted, Len(Columns(l, q))),
         \A k \in 1..Len(Columns(l, q)) : wanted[k] = Position(Schema(l), Columns(l, q)[k]),
         NEW rows, Listed(rows, Len(StoredRows(l))),
         \A i \in 1..Len(StoredRows(l)) : rows[i] = Projected(StoredRows(l)[i], wanted),
         NoneRefused(Canonical("arrow-parquet", rows))
  PROVE  \E given \in Handed(l, q) : ReadFrom(Canonical("arrow-parquet", rows), given)
<1> DEFINE n == Len(StoredRows(l))
           w == Len(Columns(l, q))
           result == Result(l, q)
           values == Canonical("arrow-parquet", rows)
<1>1. /\ Tabular(result, n, w) /\ StoredRows(l) \in Seq(RowsOf(l)) /\ Columns(l, q) \in Seq(STRING)
  BY ResultIsTabular DEF Asked
<1>2. Len(result) = n /\ n \in Nat /\ w \in Nat /\ \A i \in 1..n : Len(result[i]) = w
  BY <1>1, TabularHasLengths DEF Tabular
<1>3. result \in Handed(l, q)
  <2>1. result = [i \in 1..n |-> result[i]]
    BY <1>1 DEF Tabular
  <2> HIDE DEF n, result
  <2>2. result \in Rearrangements(result)
    BY <1>2, <2>1, Unmoved
  <2> QED
    BY <2>2 DEF Handed, result
<1>4. Schema(l) \in Seq(STRING)
  BY StoredIsTyped DEF Asked
<1>5. ASSUME NEW k \in 1..w
      PROVE  Position(Schema(l), Columns(l, q)[k]) \in 1..Len(Schema(l))
  <2> DEFINE name == Columns(l, q)[k]
  <2>1. name \in Range(Columns(l, q))
    BY <1>1 DEF Range
  <2>2. name \in Range(Schema(l))
    BY <2>1 DEF Asked, Has
  <2>3. \E i \in 1..Len(Schema(l)) : Schema(l)[i] = name
    BY <1>4, <2>2 DEF Range
  <2> QED
    BY <2>3 DEF Position
<1>6. ASSUME NEW i \in 1..n
      PROVE  Len(rows[i]) = w /\ \A k \in 1..w : rows[i][k] = result[i][k]
  <2>1. Len(Schema(l)) \in Nat /\ Listed(wanted, w) /\ \A k \in 1..w : wanted[k] \in 1..Len(Schema(l))
    BY <1>4, <1>5
  <2>2. rows[i] = Projected(StoredRows(l)[i], wanted)
    OBVIOUS
  <2>3. /\ Len(Projected(StoredRows(l)[i], wanted)) = w
        /\ \A k \in 1..w : Projected(StoredRows(l)[i], wanted)[k] = StoredRows(l)[i][wanted[k]]
    <3> DEFINE row == StoredRows(l)[i]
               size == Len(Schema(l))
    <3>1. w \in Nat /\ size \in Nat /\ Listed(wanted, w) /\ \A k \in 1..w : wanted[k] \in 1..size
      BY <1>2, <2>1
    <3> HIDE DEF w, row, size
    <3>2. InOrder(Projected(row, wanted), row, wanted, w)
      BY <3>1, ProjectedIsInOrder
    <3> QED
      BY <3>2 DEF row, InOrder
  <2>4. \A k \in 1..w : result[i][k] = StoredRows(l)[i][Position(Schema(l), Columns(l, q)[k])]
    BY DEF Result
  <2>5. \A k \in 1..w : wanted[k] = Position(Schema(l), Columns(l, q)[k])
    OBVIOUS
  <2> HIDE DEF n, w, result
  <2> QED
    BY <2>2, <2>3, <2>4, <2>5
<1>7. Len(rows) = n
  BY <1>2 DEF Listed
<1>8. values = [i \in 1..n |-> [k \in 1..Len(rows[i]) |-> ArrowValue(rows[i][k])]]
  BY <1>7 DEF Canonical
<1>9. NoneRefused(values)
  OBVIOUS
<1> HIDE DEF n, w, values, result
<1>10. /\ values = [i \in 1..n |-> values[i]] /\ Len(values) = n
       /\ \A i \in 1..n : Len(values[i]) = w /\ \A k \in 1..w : values[i][k] = ArrowValue(result[i][k])
  BY <1>2, <1>6, <1>8
<1>11. ASSUME NEW i \in 1..n, NEW k \in 1..w
       PROVE  Spoken(values[i][k], result[i][k])
  BY <1>9, <1>10 DEF NoneRefused, Spoken
<1>12. ReadFrom(values, result)
  BY <1>2, <1>10, <1>11 DEF ReadFrom, SpokenRow
<1> QED
  BY <1>3, <1>12 DEF values

\* An answer that was read, cell by cell, from the rows of a load that its
\* query can be asked of.
WasRead(a) ==
  /\ a.of \in Asked(a.q)
  /\ \E given \in Handed(a.of, a.q) : \E rows :
       ReadFrom(rows, given) /\ a.digest = DigestOf(finish(rows, Question(a.q).ordered))

\* arrow-parquet takes only files of one schema and no select list, and every
\* answer was read.
ReadInv ==
  /\ LatestInv
  /\ \A r \in Runner : \A t \in Table :
       DriverOf(r) = "arrow-parquet" /\ catalog[r][Own(t)] # Nothing =>
         Uniform(catalog[r][Own(t)]) /\ ~catalog[r][Own(t)].projected
  /\ \A r \in Runner : answer[r] # NoAnswer /\ ~DoesNothing(r) => WasRead(answer[r])

\* Before anything is asked nothing was answered.
LEMMA ReadStarts == DriversInit => ReadInv
<1> SUFFICES ASSUME DriversInit
             PROVE  ReadInv
  OBVIOUS
<1>1. LatestInv
  BY LatestStarts
<1>2. \A r \in Runner : answer[r] = NoAnswer
  BY DEF DriversInit
<1>3. \A r \in Runner : \A t \in Table : catalog[r][Own(t)] = Nothing
  BY DEF DriversInit, Own, Names
<1> QED
  BY <1>1, <1>2, <1>3 DEF ReadInv

\* The run of a driver: the answer is as it was, or a new one that was read.
LEMMA AskReads ==
  ASSUME ReadInv, NEW r \in Runner, NEW q \in Query, AskDriver(r, q), ~DoesNothing(r)
  PROVE  \/ answer' = answer
         \/ \E a : answer' = [answer EXCEPT ![r] = a] /\ a.q = q /\ WasRead(a)
<1> DEFINE l == catalog[r][Own(Question(q).table)]
           Got == \E a : answer' = [answer EXCEPT ![r] = a] /\ a.q = q /\ WasRead(a)
<1>1. DriverOf(r) \in {"duckdb", "datafusion", "arrow-parquet"} /\ Question(q).table \in Table
  BY DriversAssumption, ReadsAssumption DEF DriverNames
<1>2. l \in Loads \cup {Nothing}
  BY <1>1, OwnIsNotRaw DEF ReadInv, LatestInv, KeptInv
<1>3. ASSUME NEW rows, Answering(r, q, l, rows), l \in Asked(q),
             NoneRefused(rows) => \E given \in Handed(l, q) : ReadFrom(rows, given)
      PROVE  answer' = answer \/ Got
  <2>1. CASE ~NoneRefused(rows)
    BY <1>3, <2>1 DEF Answering, NoneRefused
  <2>2. CASE NoneRefused(rows) /\ answer' # answer
    <3> DEFINE a == [q |-> q, of |-> l, digest |-> DigestOf(finish(rows, Question(q).ordered))]
    <3>1. answer' = [answer EXCEPT ![r] = a]
      BY <1>3, <2>2 DEF Answering
    <3>2. a.q = q /\ a.of = l /\ a.digest = DigestOf(finish(rows, Question(q).ordered))
      OBVIOUS
    <3> HIDE DEF a, l
    <3>3. WasRead(a)
      BY <1>3, <2>2, <3>2 DEF WasRead
    <3> QED
      BY <3>1, <3>2, <3>3
  <2> QED
    BY <2>1, <2>2
<1>4. CASE ~loaded[r]
  BY <1>4 DEF AskDriver
<1>5. CASE loaded[r] /\ DriverOf(r) \in {"duckdb", "datafusion"}
  <2> DEFINE driver == DriverOf(r)
  <2>1. \/ answer' = answer
        \/ /\ l # Nothing /\ Uniform(l) /\ Has(l, q)
           /\ \E rows \in HandedOver(driver, l, q) : Answering(r, q, l, Canonical(driver, rows))
    <3>1. CASE driver = "duckdb"
      BY <1>5, <3>1 DEF AskDriver, RunDuckDb
    <3>2. CASE driver = "datafusion"
      BY <1>5, <3>2 DEF AskDriver, RunDataFusion
    <3> QED
      BY <1>5, <3>1, <3>2
  <2>2. ASSUME l # Nothing, Uniform(l), Has(l, q), NEW rows \in HandedOver(driver, l, q),
               Answering(r, q, l, Canonical(driver, rows))
        PROVE  answer' = answer \/ Got
    <3>1. l \in Asked(q)
      BY <1>2, <2>2 DEF Asked
    <3>2. driver \in {"duckdb", "datafusion"}
      BY <1>5
    <3> HIDE DEF l, driver, Got
    <3>3. NoneRefused(Canonical(driver, rows)) =>
            \E given \in Handed(l, q) : ReadFrom(Canonical(driver, rows), given)
      BY <3>1, <3>2, SystemsAreRead
    <3> QED
      BY <1>3, <2>2, <3>1, <3>3
  <2> HIDE DEF l, driver
  <2> QED
    BY <2>1, <2>2
<1>6. CASE loaded[r] /\ DriverOf(r) = "arrow-parquet"
  <2> DEFINE wanted == [k \in 1..Len(Columns(l, q)) |-> Position(Schema(l), Columns(l, q)[k])]
             rows == [i \in 1..Len(StoredRows(l)) |-> Projected(StoredRows(l)[i], wanted)]
  <2>1. \/ answer' = answer
        \/ l # Nothing /\ Has(l, q) /\ Answering(r, q, l, Canonical("arrow-parquet", rows))
    <3>1. RunArrowParquet(r, q)
      BY <1>6 DEF AskDriver
    <3> QED
      BY <3>1 DEF RunArrowParquet
  <2>2. ASSUME l # Nothing, Has(l, q), Answering(r, q, l, Canonical("arrow-parquet", rows))
        PROVE  answer' = answer \/ Got
    <3>1. l \in Asked(q) /\ ~l.projected
      BY <1>1, <1>2, <1>6, <2>2 DEF ReadInv, Asked
    <3>2. Listed(wanted, Len(Columns(l, q))) /\ Listed(rows, Len(StoredRows(l)))
      BY DEF Listed
    <3>3. /\ \A k \in 1..Len(Columns(l, q)) : wanted[k] = Position(Schema(l), Columns(l, q)[k])
          /\ \A i \in 1..Len(StoredRows(l)) : rows[i] = Projected(StoredRows(l)[i], wanted)
      OBVIOUS
    <3> HIDE DEF l, wanted, rows, Got
    <3>4. NoneRefused(Canonical("arrow-parquet", rows)) =>
            \E given \in Handed(l, q) : ReadFrom(Canonical("arrow-parquet", rows), given)
      BY <3>1, <3>2, <3>3, FilesAreRead
    <3> QED
      BY <1>3, <2>2, <3>1, <3>4
  <2> HIDE DEF l, rows
  <2> QED
    BY <2>1, <2>2
<1> QED
  BY <1>1, <1>4, <1>5, <1>6

\* ArrowParquet::load: a table is replaced by files of one schema, or not at all.
LEMMA ArrowTakesUniform ==
  ASSUME NEW r \in Runner, NEW l \in Loads, LoadDriver(r, l), prepared[r],
         DriverOf(r) = "arrow-parquet", said'[r] = "ok"
  PROVE  Uniform(l) /\ ~l.projected
<1>1. LoadArrowParquet(r, l)
  BY DEF LoadDriver
<1> QED
  BY <1>1 DEF LoadArrowParquet

\* What arrow-parquet keeps of its tables after a step.
LEMMA ArrowKept ==
  ASSUME ReadInv, [DriversNext]_allVars, NEW r \in Runner, NEW t \in Table,
         DriverOf(r) = "arrow-parquet", catalog'[r][Own(t)] # Nothing
  PROVE  Uniform(catalog'[r][Own(t)]) /\ ~catalog'[r][Own(t)].projected
<1> DEFINE Right(l) == l # Nothing => Uniform(l) /\ ~l.projected
<1>1. Right(catalog[r][Own(t)]) /\ Own(t) \in Names /\ working \subseteq Runner
  BY OwnIsNotRaw DEF ReadInv, LatestInv, KeptInv, DriversInv
<1> HIDE DEF Right
<1>2. CASE catalog'[r][Own(t)] = catalog[r][Own(t)]
  BY <1>1, <1>2 DEF Right
<1>3. ASSUME NEW s \in working, PrepareDriver(s)
      PROVE  catalog'[r][Own(t)] = catalog[r][Own(t)]
  <2>1. CASE prepared[s]
    BY <1>3, <2>1 DEF PrepareDriver
  <2>2. CASE ~prepared[s]
    <3>1. catalog' = [catalog EXCEPT ![s] =
            IF said'[s] = "ok" /\ DriverOf(s) = "duckdb" THEN database[DirectoryOf(s)] ELSE @]
      BY <1>1, <1>3, <2>2, PrepareEffect DEF ReadInv, LatestInv
    <3> QED
      BY <3>1 DEF ReadInv, LatestInv, KeptInv
  <2> QED
    BY <2>1, <2>2
<1>4. ASSUME NEW s \in working, NEW l \in Loads, LoadDriver(s, l)
      PROVE  Right(catalog'[r][Own(t)])
  <2>1. CASE ~prepared[s]
    BY <1>1, <1>4, <2>1 DEF LoadDriver
  <2>2. CASE prepared[s] /\ s # r
    <3>1. catalog' = [catalog EXCEPT ![s] = catalog'[s]]
      BY <1>1, <1>4, <2>2, LoadEffect DEF ReadInv, LatestInv
    <3> QED
      BY <1>1, <2>2, <3>1 DEF ReadInv, LatestInv, KeptInv
  <2>3. CASE prepared[s] /\ s = r
    <3>1. KeptInv /\ prepared[r] /\ LoadDriver(r, l)
      BY <1>4, <2>3 DEF ReadInv, LatestInv
    <3>2. \A u \in Table :
            catalog'[r][Own(u)] = IF said'[r] = "ok" /\ u = l.table THEN l ELSE catalog[r][Own(u)]
      BY <3>1, LoadEffect, ZenonT(30)
    <3>3. said'[r] = "ok" => Right(l)
      BY <3>1, ArrowTakesUniform DEF Right
    <3> QED
      BY <1>1, <3>2, <3>3
  <2> QED
    BY <2>1, <2>2, <2>3
<1>5. ASSUME NEW s \in working, DriverEnds(s)
      PROVE  Right(catalog'[r][Own(t)])
  <2>1. catalog' = [catalog EXCEPT ![s] = [name \in Names |-> Nothing]]
    BY <1>5 DEF DriverEnds
  <2>2. catalog'[r][Own(t)] = catalog[r][Own(t)] \/ catalog'[r][Own(t)] = Nothing
    BY <1>1, <2>1 DEF ReadInv, LatestInv, KeptInv
  <2> QED
    BY <1>1, <2>2 DEF Right
<1>6. CASE UNCHANGED catalog
  BY <1>2, <1>6
<1>7. Right(catalog'[r][Own(t)])
  <2>1. ASSUME NEW s \in working, NEW q \in Query, AskDriver(s, q)
        PROVE  catalog' = catalog
    BY <2>1 DEF AskDriver
  <2>2. UNCHANGED allVars => catalog' = catalog
    BY DEF allVars, driverVars
  <2> QED
    BY <1>1, <1>3, <1>4, <1>5, <2>1, <2>2 DEF DriversNext
<1> QED
  BY <1>7 DEF Right

\* Every answer was read after a step, too.
LEMMA AnswersKept ==
  ASSUME ReadInv, [DriversNext]_allVars, NEW s \in Runner, answer'[s] # NoAnswer, ~DoesNothing(s)
  PROVE  WasRead(answer'[s])
<1>1. answer[s] # NoAnswer => WasRead(answer[s])
  BY DEF ReadInv
<1>2. working \subseteq Runner /\ answer = [r \in Runner |-> answer[r]]
  BY DEF ReadInv, LatestInv, KeptInv, DriversInv
<1>3. CASE answer'[s] = answer[s]
  BY <1>1, <1>3
<1>4. ASSUME NEW r \in working, DriverEnds(r)
      PROVE  WasRead(answer'[s])
  <2>1. answer' = [answer EXCEPT ![r] = NoAnswer]
    BY <1>4 DEF DriverEnds
  <2>2. r # s
    BY <1>2, <2>1
  <2>3. answer'[s] = answer[s]
    BY <1>2, <2>1, <2>2
  <2> QED
    BY <1>3, <2>3
<1>5. ASSUME NEW r \in working, NEW q \in Query, AskDriver(r, q)
      PROVE  WasRead(answer'[s])
  <2>1. CASE r # s
    <3>1. answer' = answer \/ \E a : answer' = [answer EXCEPT ![r] = a]
      BY <1>2, <1>5, AskEffect
    <3>2. answer'[s] = answer[s]
      BY <1>2, <2>1, <3>1
    <3> QED
      BY <1>3, <3>2
  <2>2. CASE r = s
    <3>1. answer' = answer \/ \E a : answer' = [answer EXCEPT ![s] = a] /\ a.q = q /\ WasRead(a)
      BY <1>5, <2>2, AskReads
    <3>2. ASSUME NEW a, answer' = [answer EXCEPT ![s] = a], WasRead(a)
          PROVE  WasRead(answer'[s])
      <4>1. answer'[s] = a
        BY <1>2, <3>2
      <4> QED
        BY <3>2, <4>1
    <3> QED
      BY <1>3, <3>1, <3>2
  <2> QED
    BY <2>1, <2>2
<1>6. CASE answer' = answer
  BY <1>3, <1>6
<1> QED
  BY <1>4, <1>5, <1>6 DEF DriversNext, PrepareDriver, LoadDriver, allVars, driverVars

\* Whatever is prepared, loaded, asked or ended.
LEMMA ReadKept == ReadInv /\ [DriversNext]_allVars => ReadInv'
<1> SUFFICES ASSUME ReadInv, [DriversNext]_allVars
             PROVE  ReadInv'
  OBVIOUS
<1>1. LatestInv'
  BY LatestKept DEF ReadInv
<1>2. \A r \in Runner : answer'[r] # NoAnswer /\ ~DoesNothing(r) => WasRead(answer'[r])
  BY AnswersKept
<1>3. \A r \in Runner : \A t \in Table :
        DriverOf(r) = "arrow-parquet" /\ catalog'[r][Own(t)] # Nothing =>
          Uniform(catalog'[r][Own(t)]) /\ ~catalog'[r][Own(t)].projected
  BY ArrowKept
<1> QED
  BY <1>1, <1>2, <1>3 DEF ReadInv, WasRead

\* The answers at hand that say the same have one digest.
LEMMA ReadIsEnough == SixDigitsAreWrittenAlike /\ ReadInv => SameAnswerSameDigest
<1> SUFFICES ASSUME SixDigitsAreWrittenAlike, ReadInv, NEW r \in working, NEW s \in working,
                    Comparable(r, s), SameTold(answer[r], answer[s])
             PROVE  answer[r].digest = answer[s].digest
  BY DEF SameAnswerSameDigest
<1> DEFINE one == answer[r]
           other == answer[s]
           q == one.q
<1>1. r \in Runner /\ s \in Runner
  BY DEF ReadInv, LatestInv, KeptInv, DriversInv
<1>2. one # NoAnswer /\ other # NoAnswer /\ other.q = q /\ ~DoesNothing(r) /\ ~DoesNothing(s)
  BY DEF Comparable
<1>3. q \in Query /\ WasRead(one) /\ WasRead(other)
  BY <1>1, <1>2 DEF ReadInv, LatestInv
<1> HIDE DEF one, other
<1>4. one.of \in Asked(q) /\ other.of \in Asked(q)
  BY <1>2, <1>3 DEF WasRead
<1>5. PICK given \in Handed(one.of, q) : \E rows :
        ReadFrom(rows, given) /\ one.digest = DigestOf(finish(rows, Question(q).ordered))
  BY <1>3 DEF WasRead
<1>6. PICK rows : ReadFrom(rows, given) /\ one.digest = DigestOf(finish(rows, Question(q).ordered))
  BY <1>5
<1>7. PICK gotten \in Handed(other.of, q) : \E others :
        ReadFrom(others, gotten) /\ other.digest = DigestOf(finish(others, Question(q).ordered))
  BY <1>2, <1>3 DEF WasRead
<1>8. PICK others : ReadFrom(others, gotten) /\ other.digest = DigestOf(finish(others, Question(q).ordered))
  BY <1>7
<1>9. SameTold(one, other)
  BY DEF one, other
<1>10. one.q = q
  OBVIOUS
<1> HIDE DEF q
<1>11. DigestOf(finish(rows, Question(q).ordered)) = DigestOf(finish(others, Question(q).ordered))
  BY <1>2, <1>3, <1>4, <1>6, <1>8, <1>9, <1>10, SameToldSameDigest
<1> QED
  BY <1>6, <1>8, <1>11 DEF one, other

\* answer.rs, "None of those is a wrong answer and all of them are a different
\* digest": whatever was loaded into which systems, whatever failed on the way
\* and in whatever types, units, column order and row order each system holds
\* and hands over what it was asked, two drivers that were told the same have
\* the same digest, as long as numbers of the same six digits are written alike.
THEOREM SameAnswerSameDigestHolds ==
  ASSUME SixDigitsAreWrittenAlike
  PROVE  DriversSpec => []SameAnswerSameDigest
<1>1. ReadInv => SameAnswerSameDigest
  BY ReadIsEnough
<1> QED
  BY <1>1, ReadStarts, ReadKept, PTL DEF DriversSpec

-----------------------------------------------------------------------------
(* The canonical form of Answers, read back: what two answers of one digest *)
(* have in common.  First, functions defined by what they are for smaller   *)
(* numbers, such as the figures of a number.                                *)

\* h goes back from a number to smaller ones, down to where it stops.
GoesBack(h, k, base, before, step, stop) ==
  \A n \in 0..k : h[n] = IF n \in stop THEN base[n] ELSE step[n][h[before[n]]]

WayBack(S, base, before, step, stop) ==
  /\ base \in [Nat -> S] /\ before \in [Nat -> Nat] /\ step \in [Nat -> [S -> S]]
  /\ \A n \in Nat : n \notin stop => before[n] < n

LEMMA BackSoFar ==
  ASSUME NEW S, NEW base, NEW before, NEW step, NEW stop, WayBack(S, base, before, step, stop), NEW k \in Nat
  PROVE  \E h \in [0..k -> S] : GoesBack(h, k, base, before, step, stop)
<1> USE DEF WayBack
<1> DEFINE T == {j \in Nat : \E h \in [0..j -> S] : GoesBack(h, j, base, before, step, stop)}
<1>1. 0 \in T
  <2> DEFINE h == [i \in 0..0 |-> base[0]]
  <2>1. h \in [0..0 -> S]
    OBVIOUS
  <2>2. GoesBack(h, 0, base, before, step, stop)
    <3>1. \A n \in 0..0 : n = 0
      OBVIOUS
    <3>2. 0 \in stop
      OBVIOUS
    <3> QED
      BY <3>1, <3>2 DEF GoesBack
  <2> HIDE DEF h
  <2> QED
    BY <2>1, <2>2
<1>2. ASSUME NEW j \in 0..(k - 1), j \in T
      PROVE  j + 1 \in T
  <2>0. j \in Nat
    OBVIOUS
  <2>1. PICK g \in [0..j -> S] : GoesBack(g, j, base, before, step, stop)
    BY <1>2
  <2> DEFINE last == IF j + 1 \in stop THEN base[j + 1] ELSE step[j + 1][g[before[j + 1]]]
             h == [i \in 0..(j + 1) |-> IF i = j + 1 THEN last ELSE g[i]]
  <2>2. \A i \in 0..(j + 1) : i \notin stop => before[i] \in 0..j
    BY <2>0
  <2>3. last \in S
    <3>1. CASE j + 1 \in stop
      BY <2>0, <3>1
    <3>2. CASE j + 1 \notin stop
      <4>1. before[j + 1] \in 0..j
        BY <2>0, <2>2, <3>2
      <4>2. g[before[j + 1]] \in S /\ j + 1 \in Nat
        BY <2>0, <4>1
      <4> QED
        BY <3>2, <4>2
    <3> QED
      BY <3>1, <3>2
  <2>4. h \in [0..(j + 1) -> S]
    BY <2>0, <2>3
  <2>5. GoesBack(h, j + 1, base, before, step, stop)
    <3> SUFFICES ASSUME NEW n \in 0..(j + 1)
                 PROVE  h[n] = IF n \in stop THEN base[n] ELSE step[n][h[before[n]]]
      BY DEF GoesBack
    <3>1. n \notin stop => h[before[n]] = g[before[n]]
      BY <2>0, <2>2
    <3>2. CASE n = j + 1
      BY <2>0, <3>1, <3>2
    <3>3. CASE n # j + 1
      <4>1. n \in 0..j /\ h[n] = g[n]
        BY <2>0, <3>3
      <4> HIDE DEF h
      <4> QED
        BY <2>1, <3>1, <4>1 DEF GoesBack
    <3> QED
      BY <3>2, <3>3
  <2> HIDE DEF h
  <2> QED
    BY <2>0, <2>4, <2>5
<1> HIDE DEF T
<1>3. 0..k \subseteq T
  BY <1>1, <1>2, UpTo
<1> QED
  BY <1>3 DEF T

\* What is defined from smaller numbers is defined.
LEMMA Backwards ==
  ASSUME NEW S, NEW base, NEW before, NEW step, NEW stop, WayBack(S, base, before, step, stop)
  PROVE  \E f \in [Nat -> S] : \A n \in Nat : f[n] = IF n \in stop THEN base[n] ELSE step[n][f[before[n]]]
<1> USE DEF WayBack
<1> DEFINE Good(h, k) == h \in [0..k -> S] /\ GoesBack(h, k, base, before, step, stop)
           to(k) == CHOOSE h : Good(h, k)
           f == [n \in Nat |-> to(n)[n]]
<1>1. ASSUME NEW k \in Nat
      PROVE  Good(to(k), k)
  <2>1. \E h : Good(h, k)
    BY BackSoFar
  <2> HIDE DEF Good
  <2> QED
    BY <2>1
<1>2. ASSUME NEW k \in Nat, NEW g, NEW h, Good(g, k), NEW j \in 0..k, Good(h, j)
      PROVE  g[j] = h[j]
  <2> DEFINE Differ == {i \in 0..j : g[i] # h[i]}
  <2>1. CASE Differ = {}
    BY <2>1
  <2>2. CASE Differ # {}
    <3>0. Differ \subseteq Nat
      OBVIOUS
    <3>1. PICK i \in Differ : \A m \in Differ : i <= m
      <4> HIDE DEF Differ
      <4> QED
        BY <2>2, <3>0, LeastMember
    <3>2. i \in 0..j /\ i \in 0..k /\ i \in Nat
      OBVIOUS
    <3>3. i \notin stop => before[i] \in Nat /\ before[i] < i
      BY <3>2
    <3>4. i \notin stop => g[before[i]] = h[before[i]]
      BY <3>1, <3>2, <3>3
    <3>5. /\ g[i] = IF i \in stop THEN base[i] ELSE step[i][g[before[i]]]
          /\ h[i] = IF i \in stop THEN base[i] ELSE step[i][h[before[i]]]
      BY <1>2, <3>2 DEF GoesBack
    <3> QED
      BY <3>1, <3>4, <3>5
  <2> QED
    BY <2>1, <2>2
<1> HIDE DEF to
<1>3. f \in [Nat -> S]
  BY <1>1
<1>4. ASSUME NEW n \in Nat
      PROVE  f[n] = IF n \in stop THEN base[n] ELSE step[n][f[before[n]]]
  <2>1. f[n] = IF n \in stop THEN base[n] ELSE step[n][to(n)[before[n]]]
    BY <1>1 DEF GoesBack
  <2>2. ASSUME n \notin stop
        PROVE  to(n)[before[n]] = f[before[n]]
    <3>1. before[n] \in 0..n
      BY <2>2
    <3>2. Good(to(n), n) /\ Good(to(before[n]), before[n])
      BY <1>1
    <3>3. to(n)[before[n]] = to(before[n])[before[n]]
      <4> HIDE DEF Good, WayBack
      <4> QED
        BY <1>2, <3>1, <3>2
    <3> QED
      BY <3>3
  <2> QED
    BY <2>1, <2>2
<1> HIDE DEF f
<1> QED
  BY <1>3, <1>4

-----------------------------------------------------------------------------
(* Figures.                                                                 *)

FigureChars == {"0", "1", "2", "3", "4", "5", "6", "7", "8", "9"}

LEMMA FigureIs ==
  /\ Figure(0) = "0" /\ Figure(1) = "1" /\ Figure(2) = "2" /\ Figure(3) = "3" /\ Figure(4) = "4"
  /\ Figure(5) = "5" /\ Figure(6) = "6" /\ Figure(7) = "7" /\ Figure(8) = "8" /\ Figure(9) = "9"
BY DEF Figure, Alphabet

LEMMA FigureIsOne ==
  /\ \A k \in 0..9 : Figure(k) \in FigureChars
  /\ \A j, k \in 0..9 : Figure(j) = Figure(k) => j = k
  /\ \A k \in 0..9 : Figure(k) = "0" => k = 0
<1>1. \A k \in 0..9 : k = 0 \/ k = 1 \/ k = 2 \/ k = 3 \/ k = 4 \/ k = 5 \/ k = 6 \/ k = 7 \/ k = 8 \/ k = 9
  OBVIOUS
<1> QED
  BY <1>1, FigureIs DEF FigureChars

\* Powers of ten.
LEMMA TensIs ==
  /\ Tens \in [Nat -> Nat]
  /\ \A k \in Nat : Tens[k] = IF k = 0 THEN 1 ELSE 10 * Tens[k - 1]
<1> DEFINE base == [n \in Nat |-> 1]
           before == [n \in Nat |-> IF n = 0 THEN 0 ELSE n - 1]
           step == [n \in Nat |-> [m \in Nat |-> 10 * m]]
           stop == {0}
           Is(f) == f = [k \in Nat |-> IF k = 0 THEN 1 ELSE 10 * f[k - 1]]
<1>1. base \in [Nat -> Nat] /\ before \in [Nat -> Nat] /\ step \in [Nat -> [Nat -> Nat]]
  OBVIOUS
<1>2. \A n \in Nat : n \notin stop => before[n] < n
  OBVIOUS
<1>3. \E f \in [Nat -> Nat] : \A n \in Nat : f[n] = IF n \in stop THEN base[n] ELSE step[n][f[before[n]]]
  <2> HIDE DEF base, before, step, stop
  <2>1. WayBack(Nat, base, before, step, stop)
    BY <1>1, <1>2 DEF WayBack
  <2> QED
    BY <2>1, Backwards
<1>4. PICK f \in [Nat -> Nat] : \A n \in Nat : f[n] = IF n \in stop THEN base[n] ELSE step[n][f[before[n]]]
  BY <1>3
<1>5. ASSUME NEW n \in Nat
      PROVE  f[n] = IF n = 0 THEN 1 ELSE 10 * f[n - 1]
  <2>1. CASE n = 0
    BY <1>4, <2>1
  <2>2. CASE n # 0
    <3>1. before[n] = n - 1 /\ n - 1 \in Nat /\ n \notin stop
      BY <2>2
    <3>2. f[n] = step[n][f[n - 1]]
      BY <1>4, <3>1
    <3>3. f[n - 1] \in Nat
      BY <3>1
    <3> QED
      BY <2>2, <3>2, <3>3
  <2> QED
    BY <2>1, <2>2
<1>6. Is(f)
  BY <1>5
<1>7. Is(Tens)
  <2>1. Tens = CHOOSE g : Is(g)
    BY DEF Tens
  <2> HIDE DEF Is
  <2> QED
    BY <1>6, <2>1
<1>8. \A k \in Nat : Tens[k] = IF k = 0 THEN 1 ELSE 10 * Tens[k - 1]
  BY <1>7
<1> DEFINE T == {k \in Nat : Tens[k] \in Nat}
<1>9. ASSUME NEW k \in Nat
      PROVE  Tens[k] \in Nat
  <2>1. 0 \in T
    BY <1>8
  <2>2. \A i \in 0..(k - 1) : i \in T => i + 1 \in T
    <3> SUFFICES ASSUME NEW i \in 0..(k - 1), i \in T PROVE i + 1 \in T
      OBVIOUS
    <3>1. i \in Nat /\ i + 1 \in Nat /\ i + 1 # 0 /\ (i + 1) - 1 = i
      OBVIOUS
    <3>2. Tens[i + 1] = 10 * Tens[i]
      BY <1>8, <3>1
    <3> QED
      BY <3>1, <3>2
  <2> HIDE DEF T
  <2>3. 0..k \subseteq T
    BY <2>1, <2>2, UpTo
  <2> QED
    BY <2>3 DEF T
<1>10. Tens = [k \in Nat |-> Tens[k]]
  BY <1>7
<1> QED
  BY <1>8, <1>9, <1>10

\* What it takes to print a number.
LEMMA DigitsIs ==
  /\ Digits \in [Nat -> Seq(FigureChars)]
  /\ \A n \in Nat : Digits[n] = IF n < 10 THEN <<Figure(n)>> ELSE Append(Digits[n \div 10], Figure(n % 10))
<1> DEFINE base == [n \in Nat |-> IF n < 10 THEN <<Figure(n)>> ELSE <<>>]
           before == [n \in Nat |-> n \div 10]
           step == [n \in Nat |-> [t \in Seq(FigureChars) |-> Append(t, Figure(n % 10))]]
           stop == 0..9
           Is(f) == f = [n \in Nat |-> IF n < 10 THEN <<Figure(n)>> ELSE Append(f[n \div 10], Figure(n % 10))]
<1>0. \A n \in Nat : n \div 10 \in Nat /\ n % 10 \in 0..9 /\ (n >= 10 => n \div 10 < n)
  OBVIOUS
<1>1. base \in [Nat -> Seq(FigureChars)] /\ before \in [Nat -> Nat]
      /\ step \in [Nat -> [Seq(FigureChars) -> Seq(FigureChars)]]
  <2>1. \A n \in Nat : base[n] \in Seq(FigureChars)
    <3> TAKE n \in Nat
    <3>1. CASE n < 10
      <4>1. Figure(n) \in FigureChars
        BY <3>1, FigureIsOne
      <4> QED
        BY <3>1, <4>1
    <3> QED
      BY <3>1
  <2>2. \A n \in Nat : \A t \in Seq(FigureChars) : Append(t, Figure(n % 10)) \in Seq(FigureChars)
    <3> SUFFICES ASSUME NEW n \in Nat, NEW t \in Seq(FigureChars)
                 PROVE  Append(t, Figure(n % 10)) \in Seq(FigureChars)
      OBVIOUS
    <3>1. Figure(n % 10) \in FigureChars
      BY <1>0, FigureIsOne
    <3> QED
      BY <3>1
  <2> QED
    BY <1>0, <2>1, <2>2
<1>2. \A n \in Nat : n \notin stop => before[n] < n
  BY <1>0
<1>3. \E f \in [Nat -> Seq(FigureChars)] :
        \A n \in Nat : f[n] = IF n \in stop THEN base[n] ELSE step[n][f[before[n]]]
  <2> HIDE DEF base, before, step, stop
  <2>1. WayBack(Seq(FigureChars), base, before, step, stop)
    BY <1>1, <1>2 DEF WayBack
  <2> QED
    BY <2>1, Backwards
<1>4. PICK f \in [Nat -> Seq(FigureChars)] :
        \A n \in Nat : f[n] = IF n \in stop THEN base[n] ELSE step[n][f[before[n]]]
  BY <1>3
<1>5. ASSUME NEW n \in Nat
      PROVE  f[n] = IF n < 10 THEN <<Figure(n)>> ELSE Append(f[n \div 10], Figure(n % 10))
  <2>1. CASE n < 10
    <3>1. n \in stop /\ base[n] = <<Figure(n)>>
      BY <2>1
    <3> QED
      BY <1>4, <2>1, <3>1
  <2>2. CASE n >= 10
    <3>1. before[n] = n \div 10 /\ n \div 10 \in Nat /\ n \notin stop
      BY <1>0, <2>2
    <3>2. f[n] = step[n][f[n \div 10]]
      BY <1>4, <3>1
    <3>3. f[n \div 10] \in Seq(FigureChars)
      BY <3>1
    <3> QED
      BY <2>2, <3>2, <3>3
  <2> QED
    BY <2>1, <2>2
<1>6. Is(f)
  BY <1>5
<1>7. Is(Digits)
  <2>1. Digits = CHOOSE g : Is(g)
    BY DEF Digits
  <2> HIDE DEF Is
  <2> QED
    BY <1>6, <2>1
<1>8. \A n \in Nat : Digits[n] = IF n < 10 THEN <<Figure(n)>> ELSE Append(Digits[n \div 10], Figure(n % 10))
  BY <1>7
<1>9. ASSUME NEW n \in Nat
      PROVE  Digits[n] \in Seq(FigureChars)
  <2> DEFINE Untyped == {k \in Nat : Digits[k] \notin Seq(FigureChars)}
  <2>1. CASE Untyped = {}
    BY <2>1
  <2>2. CASE Untyped # {}
    <3>1. PICK k \in Untyped : \A m \in Untyped : k <= m
      BY <2>2, LeastMember
    <3>0. k \in Nat
      OBVIOUS
    <3>2. ASSUME k < 10 PROVE Digits[k] \in Seq(FigureChars)
      <4>0. k \in 0..9
        BY <3>0, <3>2
      <4>1. Figure(k) \in FigureChars
        BY <4>0, FigureIsOne
      <4>2. Digits[k] = <<Figure(k)>>
        BY <1>8, <3>2
      <4> HIDE DEF FigureChars
      <4> QED
        BY <4>1, <4>2
    <3>3. ASSUME k >= 10 PROVE Digits[k] \in Seq(FigureChars)
      <4>1. Digits[k \div 10] \in Seq(FigureChars)
        BY <1>0, <3>1, <3>3
      <4>2. Figure(k % 10) \in FigureChars
        BY <1>0, FigureIsOne
      <4>3. ~(k < 10) /\ k \in Nat
        BY <3>3
      <4>4. Digits[k] = Append(Digits[k \div 10], Figure(k % 10))
        BY <1>8, <4>3, Zenon
      <4> QED
        BY <4>1, <4>2, <4>4
    <3> QED
      BY <3>1, <3>2, <3>3
  <2> QED
    BY <2>1, <2>2
<1>10. Digits = [n \in Nat |-> Digits[n]]
  BY <1>7
<1> QED
  BY <1>8, <1>9, <1>10

\* What a number is printed with.
LEMMA DigitsOf ==
  ASSUME NEW n \in Nat
  PROVE  Digits[n] \in Seq(FigureChars) /\ Len(Digits[n]) \in Nat /\ Figures(n) = Len(Digits[n])
<1>1. Digits[n] \in Seq(FigureChars)
  BY DigitsIs
<1> HIDE DEF FigureChars
<1> QED
  BY <1>1 DEF Figures

\* A number of one figure.
LEMMA DigitsShort ==
  ASSUME NEW n \in Nat, n < 10
  PROVE  n \in 0..9 /\ Len(Digits[n]) = 1 /\ Digits[n][1] = Figure(n)
<1>1. Digits[n] = IF n < 10 THEN <<Figure(n)>> ELSE Append(Digits[n \div 10], Figure(n % 10))
  BY DigitsIs
<1>2. Digits[n] = <<Figure(n)>>
  BY <1>1
<1> QED
  BY <1>2

\* A number of more has the figures of its tenth and one more.
LEMMA DigitsLong ==
  ASSUME NEW n \in Nat, n >= 10, NEW k, k = n \div 10, NEW last, last = n % 10
  PROVE  /\ k \in Nat /\ k >= 1 /\ k < n /\ last \in 0..9
         /\ Digits[k] \in Seq(FigureChars) /\ Len(Digits[k]) \in Nat
         /\ Len(Digits[n]) = Len(Digits[k]) + 1
         /\ \A i \in 1..Len(Digits[k]) : Digits[n][i] = Digits[k][i]
         /\ Digits[n][Len(Digits[n])] = Figure(last)
<1>1. k \in Nat /\ k >= 1 /\ k < n /\ last \in 0..9
  OBVIOUS
<1>2. Digits[n] = IF n < 10 THEN <<Figure(n)>> ELSE Append(Digits[n \div 10], Figure(n % 10))
  BY DigitsIs
<1>3. Digits[n] = Append(Digits[k], Figure(last))
  <2>1. ~(n < 10)
    OBVIOUS
  <2> QED
    BY <1>2, <2>1, Zenon
<1>4. Digits[k] \in Seq(FigureChars) /\ Len(Digits[k]) \in Nat
  BY <1>1, DigitsOf
<1> DEFINE f == Figure(last)
<1> HIDE DEF f, FigureChars
<1>5. Len(Append(Digits[k], f)) = Len(Digits[k]) + 1
      /\ (\A i \in 1..Len(Digits[k]) : Append(Digits[k], f)[i] = Digits[k][i])
      /\ Append(Digits[k], f)[Len(Digits[k]) + 1] = f
  BY <1>4
<1> QED
  BY <1>1, <1>3, <1>4, <1>5 DEF f

\* A number has figures.
LEMMA SomeFigures ==
  ASSUME NEW n \in Nat
  PROVE  /\ Figures(n) \in Nat /\ Figures(n) >= 1
         /\ Digits[n] \in Seq(FigureChars) /\ Len(Digits[n]) = Figures(n)
         /\ Figures(n) > 1 <=> n >= 10
<1>1. Digits[n] \in Seq(FigureChars) /\ Len(Digits[n]) \in Nat /\ Figures(n) = Len(Digits[n])
  BY DigitsOf
<1>2. CASE n < 10
  <2>1. Len(Digits[n]) = 1
    BY <1>2, DigitsShort
  <2> QED
    BY <1>1, <1>2, <2>1
<1>3. CASE n >= 10
  <2> DEFINE k == n \div 10
  <2>1. k \in Nat /\ Len(Digits[k]) \in Nat /\ Len(Digits[n]) = Len(Digits[k]) + 1
    BY <1>3, DigitsLong
  <2> HIDE DEF k
  <2>2. Len(Digits[k]) # 0
    <3>1. CASE k < 10
      BY <2>1, <3>1, DigitsShort
    <3>2. CASE k >= 10
      <4> DEFINE j == k \div 10
      <4>1. Len(Digits[j]) \in Nat /\ Len(Digits[k]) = Len(Digits[j]) + 1
        BY <2>1, <3>2, DigitsLong
      <4> HIDE DEF j
      <4> QED
        BY <4>1
    <3> QED
      BY <2>1, <3>1, <3>2
  <2> QED
    BY <1>1, <1>3, <2>1, <2>2
<1> QED
  BY <1>2, <1>3

\* Different numbers are printed differently.
LEMMA DigitsApart ==
  ASSUME NEW n \in Nat, NEW m \in Nat, Digits[n] = Digits[m]
  PROVE  n = m
<1> DEFINE Twice == {k \in Nat : \E j \in Nat : j # k /\ Digits[j] = Digits[k]}
<1>1. CASE Twice = {}
  BY <1>1
<1>2. CASE Twice # {}
  <2>1. PICK k \in Twice : \A i \in Twice : k <= i
    BY <1>2, LeastMember
  <2>2. PICK j \in Nat : j # k /\ Digits[j] = Digits[k]
    BY <2>1
  <2>3. k \in Nat
    OBVIOUS
  <2> HIDE DEF Twice
  <2>0. j >= 10 <=> k >= 10
    <3>1. Figures(j) = Figures(k)
      BY <2>2 DEF Figures
    <3> QED
      BY <2>2, <2>3, <3>1, SomeFigures
  <2>4. CASE k < 10
    <3>1. j < 10
      BY <2>0, <2>2, <2>3, <2>4
    <3>2. Figure(j) = Digits[j][1] /\ j \in 0..9
      BY <2>2, <3>1, DigitsShort
    <3>3. Figure(k) = Digits[k][1] /\ k \in 0..9
      BY <2>3, <2>4, DigitsShort
    <3> QED
      BY <2>2, <3>2, <3>3, FigureIsOne
  <2>5. CASE k >= 10
    <3> DEFINE a == j \div 10
               x == j % 10
               b == k \div 10
               y == k % 10
    <3>1. /\ a \in Nat /\ x \in 0..9
          /\ Digits[a] \in Seq(FigureChars) /\ Len(Digits[a]) \in Nat
          /\ Len(Digits[j]) = Len(Digits[a]) + 1
          /\ \A i \in 1..Len(Digits[a]) : Digits[j][i] = Digits[a][i]
          /\ Digits[j][Len(Digits[j])] = Figure(x)
      BY <2>0, <2>2, <2>5, DigitsLong
    <3>2. /\ b \in Nat /\ y \in 0..9 /\ b < k
          /\ Digits[b] \in Seq(FigureChars) /\ Len(Digits[b]) \in Nat
          /\ Len(Digits[k]) = Len(Digits[b]) + 1
          /\ \A i \in 1..Len(Digits[b]) : Digits[k][i] = Digits[b][i]
          /\ Digits[k][Len(Digits[k])] = Figure(y)
      BY <2>3, <2>5, DigitsLong
    <3>6. j = 10 * a + x /\ k = 10 * b + y
      BY <2>2, <2>3
    <3> HIDE DEF a, b, x, y
    <3>3. Len(Digits[a]) = Len(Digits[b]) /\ \A i \in 1..Len(Digits[a]) : Digits[a][i] = Digits[b][i]
      BY <2>2, <3>1, <3>2
    <3>4. Digits[a] = Digits[b]
      BY <3>1, <3>2, <3>3, SeqEqual
    <3>5. a = b
      BY <2>1, <3>1, <3>2, <3>4 DEF Twice
    <3>7. x = y
      BY <2>2, <3>1, <3>2, FigureIsOne
    <3> QED
      BY <2>2, <3>5, <3>6, <3>7
  <2> QED
    BY <2>3, <2>4, <2>5
<1> QED
  BY <1>1, <1>2

\* Only zero begins with one.
LEMMA NoLeadingZero ==
  ASSUME NEW n \in Nat, n >= 1
  PROVE  Digits[n][1] # "0"
<1> DEFINE Led == {k \in Nat : k >= 1 /\ Digits[k][1] = "0"}
<1>1. CASE Led = {}
  BY <1>1
<1>2. CASE Led # {}
  <2>1. PICK k \in Led : \A i \in Led : k <= i
    BY <1>2, LeastMember
  <2>2. k \in Nat /\ k >= 1 /\ Digits[k][1] = "0"
    OBVIOUS
  <2>3. CASE k < 10
    <3>1. Figure(k) = "0" /\ k \in 0..9
      BY <2>2, <2>3, DigitsShort
    <3> QED
      BY <2>2, <3>1, FigureIsOne
  <2>4. CASE k >= 10
    <3> DEFINE j == k \div 10
    <3>1. /\ j \in Nat /\ j >= 1 /\ j < k
          /\ \A i \in 1..Len(Digits[j]) : Digits[k][i] = Digits[j][i]
      BY <2>2, <2>4, DigitsLong
    <3> HIDE DEF j
    <3>2. 1 \in 1..Len(Digits[j])
      BY <3>1, SomeFigures
    <3> QED
      BY <2>1, <2>2, <3>1, <3>2
  <2> QED
    BY <2>2, <2>3, <2>4
<1> QED
  BY <1>1, <1>2

\* What a number below so many is printed with.
LEMMA FewFigures ==
  ASSUME NEW n \in Nat
  PROVE  /\ n < 10 => Figures(n) <= 1
         /\ n < 100 => Figures(n) <= 2
         /\ n < 1000000 => Figures(n) <= 6
<1> DEFINE Few(top, k) == \A m \in Nat : m < top => Len(Digits[m]) <= k
<1>1. Few(10, 1)
  <2> SUFFICES ASSUME NEW m \in Nat, m < 10 PROVE Len(Digits[m]) <= 1
    OBVIOUS
  <2>1. Len(Digits[m]) = 1
    BY DigitsShort
  <2> QED
    BY <2>1
<1>2. ASSUME NEW top \in Nat, NEW k \in Nat, k >= 1, Few(top, k), NEW m \in Nat, m < 10 * top
      PROVE  Len(Digits[m]) <= k + 1
  <2>1. CASE m < 10
    BY <1>2, <2>1, DigitsShort
  <2>2. CASE m >= 10
    <3> DEFINE j == m \div 10
    <3>1. j < top
      BY <1>2
    <3>2. Len(Digits[m]) = Len(Digits[j]) + 1 /\ j \in Nat /\ Len(Digits[j]) \in Nat
      BY <2>2, DigitsLong
    <3> HIDE DEF j
    <3> QED
      BY <1>2, <3>1, <3>2
  <2> QED
    BY <2>1, <2>2
<1> HIDE DEF Few
<1>3. \A top, k \in Nat : k >= 1 /\ Few(top, k) => Few(10 * top, k + 1)
  BY <1>2 DEF Few
<1>4. Few(100, 2)
  <2>1. Few(10 * 10, 1 + 1)
    BY <1>1, <1>3
  <2> QED
    BY <2>1
<1>5. Few(1000, 3)
  <2>1. Few(10 * 100, 2 + 1)
    BY <1>3, <1>4
  <2> QED
    BY <2>1
<1>6. Few(10000, 4)
  <2>1. Few(10 * 1000, 3 + 1)
    BY <1>3, <1>5
  <2> QED
    BY <2>1
<1>7. Few(100000, 5)
  <2>1. Few(10 * 10000, 4 + 1)
    BY <1>3, <1>6
  <2> QED
    BY <2>1
<1>8. Few(1000000, 6)
  <2>1. Few(10 * 100000, 5 + 1)
    BY <1>3, <1>7, SMT
  <2> QED
    BY <2>1, SMT
<1>9. Figures(n) = Len(Digits[n]) /\ Figures(n) \in Nat /\ Figures(n) >= 1
  BY DigitsOf, SomeFigures
<1>10. n < 10 => Figures(n) <= 1
  BY <1>1, <1>9 DEF Few
<1>11. n < 100 => Figures(n) <= 2
  BY <1>4, <1>9 DEF Few
<1>12. n < 1000000 => Figures(n) <= 6
  BY <1>8, <1>9, SMT DEF Few
<1> QED
  BY <1>10, <1>11, <1>12, SMT

\* So many zeros, and the figures behind them.
Filled(s, zeros, n) ==
  /\ zeros \in Nat /\ Len(s) = zeros + Figures(n)
  /\ \A i \in 1..zeros : s[i] = "0"
  /\ \A i \in 1..Figures(n) : s[zeros + i] = Digits[n][i]

\* Zeros before a number.
LEMMA PaddedIs ==
  ASSUME NEW n \in Nat, NEW w \in Nat, NEW zeros, zeros = Larger(0, w - Figures(n))
  PROVE  /\ zeros \in Nat /\ zeros + Figures(n) = Larger(w, Figures(n))
         /\ Padded(n, w) \in Seq(FigureChars)
         /\ Len(Padded(n, w)) = zeros + Figures(n)
         /\ Filled(Padded(n, w), zeros, n)
<1>1. Figures(n) \in Nat /\ Digits[n] \in Seq(FigureChars) /\ Len(Digits[n]) = Figures(n)
  BY DigitsOf
<1>2. zeros \in Nat /\ zeros + Figures(n) = Larger(w, Figures(n))
  BY <1>1 DEF Larger
<1> DEFINE z == [i \in 1..zeros |-> "0"]
<1>3. z \in Seq(FigureChars) /\ Len(z) = zeros /\ \A i \in 1..zeros : z[i] = "0"
  <2>1. "0" \in FigureChars
    BY DEF FigureChars
  <2> HIDE DEF FigureChars
  <2>2. Len(z) = zeros /\ \A i \in 1..zeros : z[i] = "0"
    BY <1>2
  <2>3. z = [i \in 1..zeros |-> z[i]] /\ \A i \in 1..zeros : z[i] \in FigureChars
    BY <2>1
  <2> HIDE DEF z
  <2>4. z \in Seq(FigureChars)
    BY <1>2, <2>3, IsSequence
  <2> QED
    BY <2>2, <2>4
<1>4. Padded(n, w) = z \o Digits[n]
  BY DEF Padded
<1> HIDE DEF z, FigureChars
<1>5. /\ z \o Digits[n] \in Seq(FigureChars) /\ Len(z \o Digits[n]) = Len(z) + Len(Digits[n])
      /\ \A i \in 1..(Len(z) + Len(Digits[n])) :
           (z \o Digits[n])[i] = IF i <= Len(z) THEN z[i] ELSE Digits[n][i - Len(z)]
  BY <1>1, <1>3, ConcatProperties
<1>6. \A i \in 1..zeros : Padded(n, w)[i] = "0"
  <2> TAKE i \in 1..zeros
  <2>1. i \in 1..(Len(z) + Len(Digits[n])) /\ i <= Len(z)
    BY <1>1, <1>2, <1>3
  <2>2. (z \o Digits[n])[i] = z[i]
    BY <1>5, <2>1
  <2> QED
    BY <1>3, <1>4, <2>2
<1>7. \A i \in 1..Figures(n) : Padded(n, w)[zeros + i] = Digits[n][i]
  BY <1>1, <1>2, <1>3, <1>4, <1>5
<1>8. Len(Padded(n, w)) = zeros + Figures(n) /\ Padded(n, w) \in Seq(FigureChars)
  BY <1>1, <1>3, <1>4, <1>5
<1>9. Filled(Padded(n, w), zeros, n)
  BY <1>2, <1>6, <1>7, <1>8 DEF Filled
<1> QED
  BY <1>2, <1>8, <1>9

\* Different numbers are printed differently whatever the width.
LEMMA PaddedApart ==
  ASSUME NEW n \in Nat, NEW m \in Nat, NEW w \in Nat, Padded(n, w) = Padded(m, w)
  PROVE  n = m
<1> DEFINE zeros(k) == Larger(0, w - Figures(k))
<1>1. ASSUME NEW k \in Nat
      PROVE  /\ zeros(k) \in Nat /\ Len(Padded(k, w)) = zeros(k) + Figures(k)
             /\ \A i \in 1..zeros(k) : Padded(k, w)[i] = "0"
             /\ \A i \in 1..Figures(k) : Padded(k, w)[zeros(k) + i] = Digits[k][i]
  <2> DEFINE z == zeros(k)
  <2>1. z = Larger(0, w - Figures(k))
    OBVIOUS
  <2> HIDE DEF z, zeros
  <2>2. Filled(Padded(k, w), z, k)
    BY <2>1, PaddedIs
  <2> QED
    BY <2>2, Zenon DEF z, Filled
<1>2. ASSUME NEW k \in Nat
      PROVE  Figures(k) \in Nat /\ Figures(k) >= 1 /\ Digits[k] \in Seq(FigureChars) /\ Len(Digits[k]) = Figures(k)
  BY SomeFigures
<1> HIDE DEF zeros
<1>3. ASSUME NEW k \in Nat, NEW j \in Nat, Padded(k, w) = Padded(j, w), Figures(k) < Figures(j)
      PROVE  FALSE
  <2>0. /\ zeros(j) \in Nat /\ zeros(k) \in Nat /\ Figures(j) \in Nat /\ Figures(k) \in Nat
        /\ zeros(j) + Figures(j) = zeros(k) + Figures(k)
    <3>1. Len(Padded(j, w)) = zeros(j) + Figures(j) /\ Len(Padded(k, w)) = zeros(k) + Figures(k)
      BY <1>1
    <3> QED
      BY <1>1, <1>2, <1>3, <3>1
  <2>1. zeros(j) + 1 \in 1..zeros(k)
    BY <1>3, <2>0
  <2>2. Digits[j][1] = "0"
    <3>1. Padded(k, w)[zeros(j) + 1] = "0"
      BY <1>1, <2>1
    <3>2. 1 \in 1..Figures(j)
      BY <1>2
    <3>3. Padded(j, w)[zeros(j) + 1] = Digits[j][1]
      BY <1>1, <3>2
    <3> QED
      BY <1>3, <3>1, <3>3
  <2>3. Figures(j) > 1
    BY <1>2, <1>3
  <2>4. j >= 1
    BY <2>3, SomeFigures
  <2> QED
    BY <2>2, <2>4, NoLeadingZero
<1>4. Figures(n) = Figures(m)
  <2>1. ~(Figures(n) < Figures(m)) /\ ~(Figures(m) < Figures(n))
    BY <1>3
  <2> QED
    BY <1>2, <2>1
<1>5. zeros(n) = zeros(m)
  BY <1>4 DEF zeros
<1>6. ASSUME NEW i \in 1..Figures(n)
      PROVE  Digits[n][i] = Digits[m][i]
  <2>1. Padded(n, w)[zeros(n) + i] = Digits[n][i]
    BY <1>1
  <2>2. Padded(m, w)[zeros(m) + i] = Digits[m][i]
    BY <1>1, <1>4
  <2> QED
    BY <1>5, <2>1, <2>2
<1>7. Digits[n] = Digits[m]
  BY <1>2, <1>4, <1>6, SeqEqual
<1> QED
  BY <1>7, DigitsApart

-----------------------------------------------------------------------------
(* Taking strings apart again.                                              *)

\* A string put together of two parts.
LEMMA TwoParts ==
  ASSUME NEW S, NEW x \in Seq(S), NEW a \in Seq(S)
  PROVE  /\ x \o a \in Seq(S) /\ Len(x) \in Nat /\ Len(a) \in Nat /\ Len(x \o a) = Len(x) + Len(a)
         /\ \A i \in 1..Len(x) : (x \o a)[i] = x[i]
         /\ \A i \in 1..Len(a) : (x \o a)[Len(x) + i] = a[i]
<1>1. Len(x) \in Nat /\ Len(a) \in Nat
  OBVIOUS
<1>2. /\ x \o a \in Seq(S) /\ Len(x \o a) = Len(x) + Len(a)
      /\ \A i \in 1..(Len(x) + Len(a)) : (x \o a)[i] = IF i <= Len(x) THEN x[i] ELSE a[i - Len(x)]
  BY ConcatProperties
<1>3. ASSUME NEW i \in 1..Len(x)
      PROVE  (x \o a)[i] = x[i]
  BY <1>1, <1>2
<1>4. ASSUME NEW i \in 1..Len(a)
      PROVE  (x \o a)[Len(x) + i] = a[i]
  <2>1. Len(x) + i \in 1..(Len(x) + Len(a)) /\ ~(Len(x) + i <= Len(x)) /\ (Len(x) + i) - Len(x) = i
    BY <1>1
  <2> QED
    BY <1>2, <2>1
<1> QED
  BY <1>1, <1>2, <1>3, <1>4

\* One string of two parts, whichever way it was put together.
TwoWays(S, x, a, y, b) ==
  /\ x \in Seq(S) /\ a \in Seq(S) /\ y \in Seq(S) /\ b \in Seq(S)
  /\ x \o a = y \o b

\* Where the first parts are as long as each other both parts are the same.
LEMMA CutByLength ==
  ASSUME NEW S, NEW x, NEW a, NEW y, NEW b, TwoWays(S, x, a, y, b), Len(x) = Len(y) \/ Len(a) = Len(b)
  PROVE  x = y /\ a = b
<1>0. x \in Seq(S) /\ a \in Seq(S) /\ y \in Seq(S) /\ b \in Seq(S) /\ x \o a = y \o b
  BY DEF TwoWays
<1>1. /\ Len(x) \in Nat /\ Len(a) \in Nat /\ Len(x \o a) = Len(x) + Len(a)
      /\ \A i \in 1..Len(x) : (x \o a)[i] = x[i]
      /\ \A i \in 1..Len(a) : (x \o a)[Len(x) + i] = a[i]
  BY <1>0, TwoParts
<1>2. /\ Len(y) \in Nat /\ Len(b) \in Nat /\ Len(y \o b) = Len(y) + Len(b)
      /\ \A i \in 1..Len(y) : (y \o b)[i] = y[i]
      /\ \A i \in 1..Len(b) : (y \o b)[Len(y) + i] = b[i]
  BY <1>0, TwoParts
<1>3. Len(x) = Len(y) /\ Len(a) = Len(b)
  BY <1>0, <1>1, <1>2
<1>4. \A i \in 1..Len(x) : x[i] = y[i]
  BY <1>0, <1>1, <1>2, <1>3
<1>5. \A i \in 1..Len(a) : a[i] = b[i]
  BY <1>0, <1>1, <1>2, <1>3
<1> QED
  BY <1>0, <1>3, <1>4, <1>5, SeqEqual

\* Three parts of which the middle one is a mark.
LEMMA Marked ==
  ASSUME NEW S, NEW m \in S, NEW x \in Seq(S), NEW a \in Seq(S)
  PROVE  /\ x \o <<m>> \in Seq(S) /\ Len(x \o <<m>>) = Len(x) + 1
         /\ x \o <<m>> \o a \in Seq(S) /\ x \o <<m>> \o a = x \o (<<m>> \o a)
         /\ Len(x) \in Nat /\ Len(a) \in Nat /\ Len(x \o <<m>> \o a) = Len(x) + 1 + Len(a)
         /\ \A i \in 1..Len(x) : (x \o <<m>> \o a)[i] = x[i]
         /\ (x \o <<m>> \o a)[Len(x) + 1] = m
         /\ \A i \in 1..Len(a) : (x \o <<m>> \o a)[Len(x) + 1 + i] = a[i]
<1>1. <<m>> \in Seq(S) /\ Len(<<m>>) = 1 /\ <<m>>[1] = m
  OBVIOUS
<1>2. /\ x \o <<m>> \in Seq(S) /\ Len(x) \in Nat /\ Len(x \o <<m>>) = Len(x) + 1
      /\ \A i \in 1..Len(x) : (x \o <<m>>)[i] = x[i]
      /\ \A i \in 1..1 : (x \o <<m>>)[Len(x) + i] = m
  <2>1. /\ x \o <<m>> \in Seq(S) /\ Len(x) \in Nat /\ Len(x \o <<m>>) = Len(x) + Len(<<m>>)
        /\ \A i \in 1..Len(x) : (x \o <<m>>)[i] = x[i]
        /\ \A i \in 1..Len(<<m>>) : (x \o <<m>>)[Len(x) + i] = <<m>>[i]
    BY <1>1, TwoParts
  <2> QED
    BY <1>1, <2>1
<1>3. (x \o <<m>>)[Len(x) + 1] = m
  BY <1>2
<1> DEFINE xm == x \o <<m>>
<1>4. xm \in Seq(S) /\ Len(xm) = Len(x) + 1 /\ xm[Len(x) + 1] = m /\ \A i \in 1..Len(x) : xm[i] = x[i]
  BY <1>2, <1>3
<1>5. xm \o a = x \o (<<m>> \o a)
  BY <1>1, ConcatAssociative
<1> HIDE DEF xm
<1>9. xm \in Seq(S)
  BY <1>4
<1>6. /\ xm \o a \in Seq(S) /\ Len(a) \in Nat /\ Len(xm \o a) = Len(xm) + Len(a)
      /\ \A i \in 1..Len(xm) : (xm \o a)[i] = xm[i]
      /\ \A i \in 1..Len(a) : (xm \o a)[Len(xm) + i] = a[i]
  BY <1>9, TwoParts
<1>7. (\A i \in 1..Len(x) : (xm \o a)[i] = x[i]) /\ (xm \o a)[Len(x) + 1] = m
  BY <1>2, <1>4, <1>6
<1>8. \A i \in 1..Len(a) : (xm \o a)[Len(x) + 1 + i] = a[i]
  BY <1>4, <1>6
<1> QED
  BY <1>2, <1>4, <1>5, <1>6, <1>7, <1>8 DEF xm

\* What has no mark in it.
Free(s, m) == \A i \in 1..Len(s) : s[i] # m

\* Where neither first part has the mark in it, or neither last part has, both
\* were put together of the same.
Marks(S, m, x, a, y, b) ==
  /\ m \in S /\ x \in Seq(S) /\ a \in Seq(S) /\ y \in Seq(S) /\ b \in Seq(S)
  /\ x \o <<m>> \o a = y \o <<m>> \o b
  /\ (Free(x, m) /\ Free(y, m)) \/ (Free(a, m) /\ Free(b, m))

LEMMA CutAtMark ==
  ASSUME NEW S, NEW m, NEW x, NEW a, NEW y, NEW b, Marks(S, m, x, a, y, b)
  PROVE  x = y /\ a = b
<1>0. /\ m \in S /\ x \in Seq(S) /\ a \in Seq(S) /\ y \in Seq(S) /\ b \in Seq(S)
      /\ x \o <<m>> \o a = y \o <<m>> \o b
      /\ (Free(x, m) /\ Free(y, m)) \/ (Free(a, m) /\ Free(b, m))
  BY DEF Marks
<1> DEFINE Parts(w, u, v) ==
             /\ Len(u) \in Nat /\ Len(v) \in Nat /\ Len(w) = Len(u) + 1 + Len(v)
             /\ \A i \in 1..Len(u) : w[i] = u[i]
             /\ w[Len(u) + 1] = m
             /\ \A i \in 1..Len(v) : w[Len(u) + 1 + i] = v[i]
<1>1. Parts(x \o <<m>> \o a, x, a) /\ Parts(y \o <<m>> \o b, y, b)
  BY <1>0, Marked
<1>2. ASSUME NEW w, NEW u, NEW v, NEW p, NEW q, Parts(w, u, v), Parts(w, p, q), Len(u) < Len(p),
             Free(p, m) \/ Free(v, m)
      PROVE  FALSE
  <2>1. CASE Free(p, m)
    <3>1. Len(u) + 1 \in 1..Len(p)
      BY <1>2
    <3>2. w[Len(u) + 1] = p[Len(u) + 1]
      BY <1>2, <3>1
    <3> QED
      BY <1>2, <2>1, <3>1, <3>2 DEF Free
  <2>2. CASE Free(v, m)
    <3> DEFINE i == Len(p) - Len(u)
    <3>1. i \in 1..Len(v) /\ Len(u) + 1 + i = Len(p) + 1
      BY <1>2
    <3> HIDE DEF i
    <3>2. w[Len(p) + 1] = v[i]
      BY <1>2, <3>1
    <3> QED
      BY <1>2, <2>2, <3>1, <3>2 DEF Free
  <2> QED
    BY <1>2, <2>1, <2>2
<1> HIDE DEF Parts
<1>3. ~(Len(x) < Len(y)) /\ ~(Len(y) < Len(x))
  BY <1>0, <1>1, <1>2
<1>4. Len(x) = Len(y)
  BY <1>1, <1>3 DEF Parts
<1> DEFINE xm == x \o <<m>>
           ym == y \o <<m>>
<1>5. xm \in Seq(S) /\ ym \in Seq(S)
  BY <1>0, Marked
<1>6. Len(xm) = Len(ym)
  BY <1>0, <1>4, Marked
<1>7. xm \o a = ym \o b
  BY <1>0
<1> HIDE DEF xm, ym
<1>8. TwoWays(S, xm, a, ym, b)
  BY <1>0, <1>5, <1>7 DEF TwoWays
<1>9. xm = ym /\ a = b
  BY <1>6, <1>8, CutByLength
<1>10. TwoWays(S, x, <<m>>, y, <<m>>)
  BY <1>0, <1>9 DEF TwoWays, xm, ym
<1>11. x = y
  BY <1>4, <1>10, CutByLength
<1> QED
  BY <1>9, <1>11

-----------------------------------------------------------------------------
(* Strings joined to one.                                                   *)

\* FlattenSeq, one string after another.
LEMMA FlattenIs ==
  ASSUME NEW S, NEW seqs \in Seq(Seq(S)), Len(seqs) # 0
  PROVE  \E h \in [1..Len(seqs) -> Seq(S)] : Strings(h, seqs, Len(seqs)) /\ FlattenSeq(seqs) = h[Len(seqs)]
<1> DEFINE Is(h) == h = [i \in 1..Len(seqs) |-> IF i = 1 THEN seqs[i] ELSE h[i - 1] \o seqs[i]]
           it == CHOOSE h : Is(h)
<1>1. PICK h \in [1..Len(seqs) -> Seq(S)] : Strings(h, seqs, Len(seqs))
  BY StringsSoFar
<1>2. Is(h)
  BY <1>1 DEF Strings
<1>3. Is(it)
  <2> HIDE DEF Is
  <2> QED
    BY <1>2
<1>4. FlattenSeq(seqs) = it[Len(seqs)]
  BY DEF FlattenSeq
<1> HIDE DEF it
<1>5. Strings(it, seqs, Len(seqs)) /\ it = [i \in 1..Len(seqs) |-> it[i]]
  BY <1>3 DEF Strings
<1> DEFINE T == {k \in 0..Len(seqs) : k = 0 \/ it[k] = h[k]}
<1>6. ASSUME NEW k \in 0..(Len(seqs) - 1), k \in T
      PROVE  k + 1 \in T
  <2>1. k + 1 \in 1..Len(seqs) /\ k \in Nat /\ (k + 1) - 1 = k
    OBVIOUS
  <2>2. /\ it[k + 1] = IF k + 1 = 1 THEN seqs[k + 1] ELSE it[k] \o seqs[k + 1]
        /\ h[k + 1] = IF k + 1 = 1 THEN seqs[k + 1] ELSE h[k] \o seqs[k + 1]
    BY <1>1, <1>5, <2>1 DEF Strings
  <2>3. it[k + 1] = h[k + 1]
    BY <1>6, <2>1, <2>2
  <2> QED
    BY <2>1, <2>3
<1>7. 0 \in T
  OBVIOUS
<1> HIDE DEF T
<1>8. Len(seqs) \in Nat
  OBVIOUS
<1>10. 0..Len(seqs) \subseteq T
  BY <1>6, <1>7, <1>8, UpTo
<1>11. Len(seqs) \in T
  BY <1>8, <1>10
<1>9. it[Len(seqs)] = h[Len(seqs)]
  BY <1>11 DEF T
<1> QED
  BY <1>1, <1>4, <1>9

\* n strings, joined with a mark before every one but the first.
JoinedBy(m, s, n) == FlattenSeq([i \in 1..n |-> (IF i > 1 THEN <<m>> ELSE <<>>) \o s[i]])

Joinable(S, m, s, n) == m \in S /\ n \in Nat /\ \A i \in 1..n : s[i] \in Seq(S) /\ Free(s[i], m)

\* h goes through the strings that are joined.
Joining(S, m, s, n, h) ==
  /\ h \in [1..n -> Seq(S)] /\ JoinedBy(m, s, n) = h[n] /\ h[1] = s[1]
  /\ \A i \in 2..n : h[i] = h[i - 1] \o <<m>> \o s[i]

\* Line and the body of an answer, one string after another.
LEMMA JoinedIs ==
  ASSUME NEW S, NEW m, NEW s, NEW n, Joinable(S, m, s, n), n # 0
  PROVE  \E h : Joining(S, m, s, n, h)
<1>0. m \in S /\ n \in Nat /\ n >= 1 /\ \A i \in 1..n : s[i] \in Seq(S)
  BY DEF Joinable
<1> DEFINE seqs == [i \in 1..n |-> (IF i > 1 THEN <<m>> ELSE <<>>) \o s[i]]
<1>1. \A i \in 1..n : seqs[i] \in Seq(S)
  BY <1>0
<1>2. seqs = [i \in 1..n |-> seqs[i]]
  OBVIOUS
<1>3. seqs[1] = s[1] /\ \A i \in 2..n : seqs[i] = <<m>> \o s[i]
  <2>0. s[1] \in Seq(S)
    BY <1>0
  <2>1. <<>> \o s[1] = s[1]
    BY <2>0, ConcatEmptySeq
  <2>2. seqs[1] = <<>> \o s[1]
    <3>1. 1 \in 1..n /\ ~(1 > 1)
      BY <1>0
    <3> QED
      BY <3>1
  <2>3. ASSUME NEW i \in 2..n
        PROVE  seqs[i] = <<m>> \o s[i]
    <3>1. i \in 1..n /\ i > 1
      BY <1>0
    <3> QED
      BY <3>1
  <2> QED
    BY <2>1, <2>2, <2>3
<1>4. JoinedBy(m, s, n) = FlattenSeq(seqs)
  BY DEF JoinedBy
<1> HIDE DEF seqs
<1>5. seqs \in Seq(Seq(S)) /\ Len(seqs) = n
  BY <1>0, <1>1, <1>2, IsSequence
<1>6. PICK h \in [1..n -> Seq(S)] : Strings(h, seqs, n) /\ FlattenSeq(seqs) = h[n]
  <2>1. seqs \in Seq(Seq(S))
    BY <1>5
  <2>2. Len(seqs) # 0
    BY <1>0, <1>5
  <2>3. \E h \in [1..Len(seqs) -> Seq(S)] : Strings(h, seqs, Len(seqs)) /\ FlattenSeq(seqs) = h[Len(seqs)]
    BY <2>1, <2>2, FlattenIs
  <2>4. Len(seqs) = n
    BY <1>5
  <2> QED
    BY <2>3, <2>4
<1>7. h[1] = s[1]
  <2>1. 1 \in 1..n
    BY <1>0
  <2>2. h[1] = seqs[1]
    BY <1>6, <2>1 DEF Strings
  <2> QED
    BY <1>3, <2>2
<1>8. ASSUME NEW i \in 2..n
      PROVE  h[i] = h[i - 1] \o <<m>> \o s[i]
  <2>1. i \in 1..n /\ i - 1 \in 1..n /\ i # 1
    BY <1>0
  <2>2. h[i] = h[i - 1] \o (<<m>> \o s[i])
    BY <1>3, <1>6, <2>1 DEF Strings
  <2>3. h[i - 1] \in Seq(S) /\ s[i] \in Seq(S)
    BY <1>0, <2>1
  <2>4. h[i - 1] \o <<m>> \o s[i] = h[i - 1] \o (<<m>> \o s[i])
    <3> DEFINE x == h[i - 1]
               a == s[i]
    <3>1. x \in Seq(S) /\ a \in Seq(S)
      BY <2>3
    <3> HIDE DEF x, a
    <3>3. m \in S
      BY <1>0
    <3>2. x \o <<m>> \o a = x \o (<<m>> \o a)
      BY <3>1, <3>3, Marked
    <3> QED
      BY <3>2 DEF x, a
  <2> QED
    BY <2>2, <2>4
<1>9. Joining(S, m, s, n, h)
  BY <1>4, <1>6, <1>7, <1>8 DEF Joining
<1> QED
  BY <1>9

\* Strings without the mark in them can be told from what they were joined to.
LEMMA JoinedApart ==
  ASSUME NEW S, NEW m, NEW s, NEW t, NEW n, Joinable(S, m, s, n), Joinable(S, m, t, n),
         JoinedBy(m, s, n) = JoinedBy(m, t, n)
  PROVE  \A i \in 1..n : s[i] = t[i]
<1>0. n \in Nat
  BY DEF Joinable
<1>1. CASE n = 0
  BY <1>1
<1>2. CASE n # 0
  <2>11. PICK h : Joining(S, m, s, n, h)
    BY <1>2, JoinedIs
  <2>12. PICK g : Joining(S, m, t, n, g)
    BY <1>2, JoinedIs
  <2>1. /\ h \in [1..n -> Seq(S)] /\ JoinedBy(m, s, n) = h[n] /\ h[1] = s[1]
        /\ \A i \in 2..n : h[i] = h[i - 1] \o <<m>> \o s[i]
    BY <2>11 DEF Joining
  <2>2. /\ g \in [1..n -> Seq(S)] /\ JoinedBy(m, t, n) = g[n] /\ g[1] = t[1]
        /\ \A i \in 2..n : g[i] = g[i - 1] \o <<m>> \o t[i]
    BY <2>12 DEF Joining
  <2>3. ASSUME NEW i \in 2..n, h[i] = g[i]
        PROVE  h[i - 1] = g[i - 1] /\ s[i] = t[i]
    <3>1. i \in 1..n /\ i - 1 \in 1..n
      BY <1>0
    <3>2. /\ h[i - 1] \in Seq(S) /\ g[i - 1] \in Seq(S) /\ s[i] \in Seq(S) /\ t[i] \in Seq(S)
          /\ Free(s[i], m) /\ Free(t[i], m) /\ h[i - 1] \o <<m>> \o s[i] = g[i - 1] \o <<m>> \o t[i]
      BY <2>1, <2>2, <2>3, <3>1 DEF Joinable
    <3> DEFINE x == h[i - 1]
               y == g[i - 1]
               a == s[i]
               b == t[i]
    <3>3. x \in Seq(S) /\ y \in Seq(S) /\ a \in Seq(S) /\ b \in Seq(S)
      BY <3>2
    <3>4. x \o <<m>> \o a = y \o <<m>> \o b
      BY <3>2
    <3>5. Free(a, m) /\ Free(b, m) /\ m \in S
      BY <3>2 DEF Joinable
    <3> HIDE DEF x, y, a, b
    <3>7. Marks(S, m, x, a, y, b)
      BY <3>3, <3>4, <3>5 DEF Marks
    <3>6. x = y /\ a = b
      BY <3>7, CutAtMark
    <3> QED
      BY <3>6 DEF x, y, a, b
  <2> DEFINE T == {k \in 0..(n - 1) : h[n - k] = g[n - k]}
  <2>4. 0 \in T
    <3>1. 0 \in 0..(n - 1) /\ n - 0 = n
      BY <1>0, <1>2
    <3>2. h[n] = g[n]
      BY <2>1, <2>2
    <3> QED
      BY <3>1, <3>2
  <2>5. ASSUME NEW k \in 0..((n - 1) - 1), k \in T
        PROVE  k + 1 \in T
    <3>1. n - k \in 2..n /\ (n - k) - 1 = n - (k + 1) /\ k + 1 \in 0..(n - 1)
      BY <1>0
    <3>2. h[n - k] = g[n - k]
      BY <2>5
    <3>3. h[(n - k) - 1] = g[(n - k) - 1]
      BY <2>3, <3>1, <3>2
    <3> QED
      BY <3>1, <3>3
  <2> HIDE DEF T
  <2>6. 0..(n - 1) \subseteq T
    <3>1. n - 1 \in Nat
      BY <1>0, <1>2
    <3> QED
      BY <2>4, <2>5, <3>1, UpTo
  <2>7. ASSUME NEW i \in 1..n
        PROVE  h[i] = g[i]
    <3>1. n - i \in 0..(n - 1) /\ n - (n - i) = i
      BY <1>0
    <3>2. n - i \in T
      BY <2>6, <3>1
    <3> QED
      BY <3>1, <3>2 DEF T
  <2>8. ASSUME NEW i \in 1..n
        PROVE  s[i] = t[i]
    <3>1. CASE i = 1
      BY <2>1, <2>2, <2>7, <3>1
    <3>2. CASE i # 1
      <4>1. i \in 2..n
        BY <1>0, <3>2
      <4> QED
        BY <2>3, <2>7, <4>1
    <3> QED
      BY <3>1, <3>2
  <2> QED
    BY <2>8
<1> QED
  BY <1>1, <1>2

-----------------------------------------------------------------------------
(* Texts.                                                                   *)

\* The characters of the form.
LEMMA LettersAre ==
  /\ {"\t", "\n", "\r", " ", "-", ".", ":", "I", "N", "\\"} \subseteq Letters
  /\ {"a", "e", "f", "i", "l", "n", "r", "s", "t", "u", "y"} \subseteq Letters
  /\ FigureChars \subseteq Letters
<1>1. \A k \in 1..31 : Alphabet[k] \in Letters
  <2>1. DOMAIN Alphabet = 1..31
    BY DEF Alphabet
  <2> QED
    BY <2>1 DEF Letters, Range
<1>2. /\ Alphabet[1] = "\t" /\ Alphabet[2] = "\n" /\ Alphabet[3] = "\r" /\ Alphabet[4] = " "
      /\ Alphabet[5] = "-" /\ Alphabet[6] = "." /\ Alphabet[7] = "0" /\ Alphabet[8] = "1"
      /\ Alphabet[9] = "2" /\ Alphabet[10] = "3" /\ Alphabet[11] = "4" /\ Alphabet[12] = "5"
      /\ Alphabet[13] = "6" /\ Alphabet[14] = "7" /\ Alphabet[15] = "8" /\ Alphabet[16] = "9"
  BY DEF Alphabet
<1>3. /\ Alphabet[17] = ":" /\ Alphabet[18] = "I" /\ Alphabet[19] = "N" /\ Alphabet[20] = "\\"
      /\ Alphabet[21] = "a" /\ Alphabet[22] = "e" /\ Alphabet[23] = "f" /\ Alphabet[24] = "i"
      /\ Alphabet[25] = "l" /\ Alphabet[26] = "n" /\ Alphabet[27] = "r" /\ Alphabet[28] = "s"
      /\ Alphabet[29] = "t" /\ Alphabet[30] = "u" /\ Alphabet[31] = "y"
  BY DEF Alphabet
<1>4. /\ "\t" \in Letters /\ "\n" \in Letters /\ "\r" \in Letters /\ " " \in Letters
      /\ "-" \in Letters /\ "." \in Letters
  <2>1. 1 \in 1..31 /\ 2 \in 1..31 /\ 3 \in 1..31 /\ 4 \in 1..31 /\ 5 \in 1..31 /\ 6 \in 1..31
    OBVIOUS
  <2> QED
    BY <1>1, <1>2, <2>1, Zenon
<1>9. /\ "0" \in Letters /\ "1" \in Letters /\ "2" \in Letters /\ "3" \in Letters /\ "4" \in Letters
      /\ "5" \in Letters /\ "6" \in Letters /\ "7" \in Letters /\ "8" \in Letters /\ "9" \in Letters
  <2>1. /\ 7 \in 1..31 /\ 8 \in 1..31 /\ 9 \in 1..31 /\ 10 \in 1..31 /\ 11 \in 1..31 /\ 12 \in 1..31
        /\ 13 \in 1..31 /\ 14 \in 1..31 /\ 15 \in 1..31 /\ 16 \in 1..31
    OBVIOUS
  <2> QED
    BY <1>1, <1>2, <2>1, Zenon
<1>5. /\ ":" \in Letters /\ "I" \in Letters /\ "N" \in Letters /\ "\\" \in Letters
      /\ "a" \in Letters /\ "e" \in Letters /\ "f" \in Letters /\ "i" \in Letters /\ "l" \in Letters
      /\ "n" \in Letters /\ "r" \in Letters /\ "s" \in Letters /\ "t" \in Letters /\ "u" \in Letters
      /\ "y" \in Letters
  BY <1>1, <1>3
<1>6. /\ {"\t", "\n", "\r", " ", "-", ".", ":", "I", "N", "\\"} \subseteq Letters
      /\ {"a", "e", "f", "i", "l", "n", "r", "s", "t", "u", "y"} \subseteq Letters
  BY <1>4, <1>5
<1>7. FigureChars \subseteq Letters
  BY <1>9 DEF FigureChars
<1> QED
  BY <1>6, <1>7

\* What a rendered cell consists of.
Clean == Letters \ {"\t", "\n"}

\* A character of a text as the form has it.
LEMMA EscapedIs ==
  ASSUME NEW c \in Letters
  PROVE  /\ Escaped(c) \in Seq(Clean)
         /\ Len(Escaped(c)) \in {1, 2}
         /\ Len(Escaped(c)) = 2 <=> Escaped(c)[1] = "\\"
         /\ Escaped(c)[1] = "\\" => Escaped(c)[2] # "N"
<1>1. {"\\", "t", "n", "r"} \subseteq Clean
  BY LettersAre DEF Clean
<1>2. CASE c \in {"\\", "\t", "\n", "\r"}
  BY <1>1, <1>2 DEF Escaped
<1>3. CASE c \notin {"\\", "\t", "\n", "\r"}
  <2>1. Escaped(c) = <<c>>
    BY <1>3 DEF Escaped
  <2>2. c \in Clean
    BY <1>3 DEF Clean
  <2> QED
    BY <1>3, <2>1, <2>2
<1> QED
  BY <1>2, <1>3

\* No character begins as another does.
LEMMA EscapedApart ==
  ASSUME NEW c \in Letters, NEW d \in Letters, Escaped(c)[1] = Escaped(d)[1],
         Escaped(c)[1] = "\\" => Escaped(c)[2] = Escaped(d)[2]
  PROVE  c = d
<1>1. ASSUME NEW x \in Letters
      PROVE  \/ x = "\\" /\ Escaped(x)[1] = "\\" /\ Escaped(x)[2] = "\\"
             \/ x = "\t" /\ Escaped(x)[1] = "\\" /\ Escaped(x)[2] = "t"
             \/ x = "\n" /\ Escaped(x)[1] = "\\" /\ Escaped(x)[2] = "n"
             \/ x = "\r" /\ Escaped(x)[1] = "\\" /\ Escaped(x)[2] = "r"
             \/ Escaped(x)[1] # "\\" /\ Escaped(x)[1] = x
  BY DEF Escaped
<1> QED
  BY <1>1

\* p is what w begins with.
Starts(p, w) == Len(p) <= Len(w) /\ \A i \in 1..Len(p) : w[i] = p[i]

\* h goes through the strings that are strung together, and each of them is
\* what all of them begin with.
Strung(S, seqs, n, h) ==
  /\ h \in [0..n -> Seq(S)] /\ h[0] = <<>> /\ FlattenSeq(seqs) = h[n]
  /\ \A i \in 1..n : h[i] = h[i - 1] \o seqs[i]
  /\ \A i \in 0..n : Starts(h[i], h[n])

LEMMA StartsAll ==
  ASSUME NEW S, NEW n \in Nat, NEW seqs, \A i \in 1..n : seqs[i] \in Seq(S), NEW h \in [0..n -> Seq(S)],
         \A i \in 1..n : h[i] = h[i - 1] \o seqs[i]
  PROVE  \A i \in 0..n : Starts(h[i], h[n])
<1> DEFINE T == {k \in 0..n : Starts(h[n - k], h[n])}
<1>1. 0 \in T
  <2>1. n - 0 = n /\ 0 \in 0..n /\ h[n] \in Seq(S)
    OBVIOUS
  <2>2. Starts(h[n], h[n])
    <3>1. Len(h[n]) \in Nat
      BY <2>1
    <3> QED
      BY <3>1 DEF Starts
  <2> QED
    BY <2>1, <2>2
<1>2. ASSUME NEW k \in 0..(n - 1), k \in T
      PROVE  k + 1 \in T
  <2> DEFINE x == h[n - (k + 1)]
             a == seqs[n - k]
             y == h[n - k]
             w == h[n]
  <2>1. n - k \in 1..n /\ n - k \in 0..n /\ n - (k + 1) \in 0..n /\ k + 1 \in 0..n /\ (n - k) - 1 = n - (k + 1)
    OBVIOUS
  <2>2. x \in Seq(S) /\ a \in Seq(S)
    BY <2>1
  <2>3. y = x \o a /\ Starts(y, w)
    BY <1>2, <2>1
  <2>4. w \in Seq(S)
    OBVIOUS
  <2> HIDE DEF x, a, y, w
  <2>5. Len(x) \in Nat /\ Len(a) \in Nat /\ Len(x \o a) = Len(x) + Len(a) /\ \A i \in 1..Len(x) : (x \o a)[i] = x[i]
    BY <2>2, TwoParts
  <2>6. Len(w) \in Nat
    BY <2>4
  <2>7. Starts(x, w)
    BY <2>3, <2>5, <2>6 DEF Starts
  <2> QED
    BY <2>1, <2>7 DEF x, w
<1> HIDE DEF T
<1>3. 0..n \subseteq T
  BY <1>1, <1>2, UpTo
<1>4. ASSUME NEW i \in 0..n
      PROVE  Starts(h[i], h[n])
  <2>1. n - i \in 0..n /\ n - (n - i) = i
    OBVIOUS
  <2>2. n - i \in T
    BY <1>3, <2>1
  <2> QED
    BY <2>1, <2>2 DEF T
<1> QED
  BY <1>4

LEMMA StrungIs ==
  ASSUME NEW S, NEW seqs \in Seq(Seq(S)), NEW n, n = Len(seqs)
  PROVE  \E h : Strung(S, seqs, n, h)
<1>0. n \in Nat
  OBVIOUS
<1>1. CASE n = 0
  <2> DEFINE h == [i \in 0..0 |-> <<>>]
  <2>1. h \in [0..0 -> Seq(S)]
    <3>1. <<>> \in Seq(S)
      BY EmptySeq
    <3> QED
      BY <3>1
  <2>7. Len(seqs) = 0
    BY <1>1
  <2>2. FlattenSeq(seqs) = <<>>
    BY <2>7 DEF FlattenSeq
  <2>3. h[0] = <<>>
    OBVIOUS
  <2>4. Len(<<>>) = 0
    BY EmptySeq
  <2>5. Starts(<<>>, <<>>)
    BY <2>4 DEF Starts
  <2>6. Strung(S, seqs, n, h)
    BY <1>1, <2>1, <2>2, <2>3, <2>5 DEF Strung
  <2> QED
    BY <2>6
<1>2. CASE n # 0
  <2>1. PICK f \in [1..n -> Seq(S)] : Strings(f, seqs, n) /\ FlattenSeq(seqs) = f[n]
    BY <1>2, FlattenIs
  <2> DEFINE h == [i \in 0..n |-> IF i = 0 THEN <<>> ELSE f[i]]
  <2>2. h \in [0..n -> Seq(S)]
    <3>1. <<>> \in Seq(S)
      BY EmptySeq
    <3> QED
      BY <1>0, <3>1
  <2>3. h[0] = <<>> /\ h[n] = f[n] /\ \A i \in 1..n : h[i] = f[i]
    BY <1>0, <1>2
  <2> HIDE DEF h
  <2>4. \A i \in 1..n : seqs[i] \in Seq(S)
    OBVIOUS
  <2>5. ASSUME NEW i \in 1..n
        PROVE  h[i] = h[i - 1] \o seqs[i]
    <3>1. CASE i = 1
      <4>1. h[1] = seqs[1]
        BY <1>0, <2>1, <2>3, <3>1 DEF Strings
      <4>2. seqs[1] \in Seq(S)
        BY <2>4, <3>1
      <4>3. <<>> \o seqs[1] = seqs[1]
        BY <4>2, ConcatEmptySeq
      <4>4. h[1] = h[0] \o seqs[1] /\ 1 - 1 = 0
        BY <2>3, <4>1, <4>3
      <4> QED
        BY <3>1, <4>4
    <3>2. CASE i # 1
      <4>1. i - 1 \in 1..n
        BY <1>0, <3>2
      <4>2. f[i] = f[i - 1] \o seqs[i]
        BY <2>1, <3>2 DEF Strings
      <4> QED
        BY <2>3, <4>1, <4>2
    <3> QED
      BY <3>1, <3>2
  <2>6. \A i \in 0..n : Starts(h[i], h[n])
    BY <1>0, <2>2, <2>4, <2>5, StartsAll
  <2>7. Strung(S, seqs, n, h)
    BY <2>1, <2>2, <2>3, <2>5, <2>6 DEF Strung
  <2> QED
    BY <2>7
<1> QED
  BY <1>1, <1>2

\* What a text is rendered as, character by character.
Spelled(t) == FlattenSeq([i \in 1..Len(t) |-> Escaped(t[i])])

LEMMA SpelledIs ==
  ASSUME NEW t \in Seq(Letters), NEW n, n = Len(t)
  PROVE  /\ n \in Nat
         /\ \E h : /\ h \in [0..n -> Seq(Clean)] /\ h[0] = <<>> /\ Spelled(t) = h[n]
                   /\ \A i \in 1..n : h[i] = h[i - 1] \o Escaped(t[i])
                   /\ \A i \in 0..n : Starts(h[i], h[n])
<1>0. n \in Nat
  OBVIOUS
<1> DEFINE seqs == [i \in 1..n |-> Escaped(t[i])]
<1>1. \A i \in 1..n : Escaped(t[i]) \in Seq(Clean)
  <2> TAKE i \in 1..n
  <2>1. t[i] \in Letters
    OBVIOUS
  <2> QED
    BY <2>1, EscapedIs
<1>2. seqs = [i \in 1..n |-> seqs[i]] /\ \A i \in 1..n : seqs[i] = Escaped(t[i]) /\ seqs[i] \in Seq(Clean)
  BY <1>1
<1>3. Spelled(t) = FlattenSeq(seqs)
  BY DEF Spelled
<1> HIDE DEF seqs
<1>4. seqs \in Seq(Seq(Clean)) /\ Len(seqs) = n
  BY <1>0, <1>2, IsSequence
<1>5. seqs \in Seq(Seq(Clean))
  BY <1>4
<1>6. n = Len(seqs)
  BY <1>4
<1>7. PICK h : Strung(Clean, seqs, n, h)
  BY <1>5, <1>6, StrungIs
<1>8. /\ h \in [0..n -> Seq(Clean)] /\ h[0] = <<>> /\ FlattenSeq(seqs) = h[n]
      /\ \A i \in 1..n : h[i] = h[i - 1] \o seqs[i]
      /\ \A i \in 0..n : Starts(h[i], h[n])
  BY <1>7 DEF Strung
<1>9. \A i \in 1..n : h[i] = h[i - 1] \o Escaped(t[i])
  BY <1>2, <1>8
<1> QED
  BY <1>0, <1>3, <1>8, <1>9

\* No text has the form of another.
LEMMA SpelledApart ==
  ASSUME NEW t \in Seq(Letters), NEW u \in Seq(Letters), Spelled(t) = Spelled(u)
  PROVE  t = u
<1> DEFINE n == Len(t)
           m == Len(u)
           l == IF n < m THEN n ELSE m
<1>0. n \in Nat /\ m \in Nat /\ l \in Nat /\ l <= n /\ l <= m /\ (l = n \/ l = m)
  OBVIOUS
<1>1. PICK h : /\ h \in [0..n -> Seq(Clean)] /\ h[0] = <<>> /\ Spelled(t) = h[n]
               /\ \A i \in 1..n : h[i] = h[i - 1] \o Escaped(t[i])
               /\ \A i \in 0..n : Starts(h[i], h[n])
  BY SpelledIs
<1>2. PICK g : /\ g \in [0..m -> Seq(Clean)] /\ g[0] = <<>> /\ Spelled(u) = g[m]
               /\ \A i \in 1..m : g[i] = g[i - 1] \o Escaped(u[i])
               /\ \A i \in 0..m : Starts(g[i], g[m])
  BY SpelledIs
<1>3. \A i \in 1..n : t[i] \in Letters
  OBVIOUS
<1>4. \A i \in 1..m : u[i] \in Letters
  OBVIOUS
<1>5. t = [i \in 1..n |-> t[i]] /\ u = [i \in 1..m |-> u[i]]
  OBVIOUS
<1> HIDE DEF n, m, l
<1> DEFINE w == h[n]
<1>6. w \in Seq(Clean) /\ w = g[m] /\ Len(w) \in Nat
  <2>4. n \in 0..n
    BY <1>0
  <2>5. h[n] \in Seq(Clean)
    BY <1>1, <2>4
  <2>6. h[n] = g[m]
    BY <1>1, <1>2
  <2>1. w \in Seq(Clean) /\ w = g[m]
    BY <2>5, <2>6
  <2> HIDE DEF w
  <2>2. w \in Seq(Clean)
    BY <2>1
  <2>3. Len(w) \in Nat
    BY <2>2
  <2> QED
    BY <2>1, <2>3
<1>7. ASSUME NEW i \in 1..n, NEW j \in 0..n, j = i - 1
      PROVE  /\ Len(h[j]) \in Nat /\ Len(h[i]) = Len(h[j]) + Len(Escaped(t[i])) /\ Len(h[i]) <= Len(w)
             /\ \A k \in 1..Len(Escaped(t[i])) : w[Len(h[j]) + k] = Escaped(t[i])[k]
  <2> DEFINE x == h[j]
             a == Escaped(t[i])
             y == h[i]
  <2>1. i \in 0..n /\ i \in 1..n
    BY <1>0
  <2>2. x \in Seq(Clean) /\ y = x \o a /\ Starts(y, w)
    BY <1>1, <1>7, <2>1
  <2>3. a \in Seq(Clean)
    BY <1>3, EscapedIs
  <2> HIDE DEF x, a, y, w
  <2>4. x \in Seq(Clean)
    BY <2>2
  <2>5. /\ Len(x) \in Nat /\ Len(a) \in Nat /\ Len(x \o a) = Len(x) + Len(a)
        /\ \A k \in 1..Len(a) : (x \o a)[Len(x) + k] = a[k]
    BY <2>3, <2>4, TwoParts
  <2>6. Len(y) = Len(x) + Len(a) /\ Len(y) <= Len(w)
    BY <2>2, <2>5 DEF Starts
  <2>7. ASSUME NEW k \in 1..Len(a)
        PROVE  w[Len(x) + k] = a[k]
    <3>1. Len(x) + k \in 1..Len(y)
      BY <2>5, <2>6
    <3>2. w[Len(x) + k] = y[Len(x) + k]
      BY <2>2, <3>1 DEF Starts
    <3> QED
      BY <2>2, <2>5, <3>2
  <2> QED
    BY <2>5, <2>6, <2>7 DEF x, a, y
<1>8. ASSUME NEW i \in 1..m, NEW j \in 0..m, j = i - 1
      PROVE  /\ Len(g[j]) \in Nat /\ Len(g[i]) = Len(g[j]) + Len(Escaped(u[i])) /\ Len(g[i]) <= Len(w)
             /\ \A k \in 1..Len(Escaped(u[i])) : w[Len(g[j]) + k] = Escaped(u[i])[k]
  <2> DEFINE x == g[j]
             a == Escaped(u[i])
             y == g[i]
  <2>1. i \in 0..m /\ i \in 1..m
    BY <1>0
  <2>2. x \in Seq(Clean) /\ y = x \o a /\ Starts(y, w)
    BY <1>2, <1>6, <1>8, <2>1
  <2>3. a \in Seq(Clean)
    BY <1>4, EscapedIs
  <2> HIDE DEF x, a, y, w
  <2>4. x \in Seq(Clean)
    BY <2>2
  <2>5. /\ Len(x) \in Nat /\ Len(a) \in Nat /\ Len(x \o a) = Len(x) + Len(a)
        /\ \A k \in 1..Len(a) : (x \o a)[Len(x) + k] = a[k]
    BY <2>3, <2>4, TwoParts
  <2>6. Len(y) = Len(x) + Len(a) /\ Len(y) <= Len(w)
    BY <2>2, <2>5 DEF Starts
  <2>7. ASSUME NEW k \in 1..Len(a)
        PROVE  w[Len(x) + k] = a[k]
    <3>1. Len(x) + k \in 1..Len(y)
      BY <2>5, <2>6
    <3>2. w[Len(x) + k] = y[Len(x) + k]
      BY <2>2, <3>1 DEF Starts
    <3> QED
      BY <2>2, <2>5, <3>2
  <2> QED
    BY <2>5, <2>6, <2>7 DEF x, a, y
<1> HIDE DEF w
<1> DEFINE T == {k \in 0..l : h[k] = g[k] /\ \A i \in 1..k : t[i] = u[i]}
<1>9. 0 \in T
  BY <1>0, <1>1, <1>2
<1>10. ASSUME NEW k \in 0..(l - 1), k \in T
       PROVE  k + 1 \in T
  <2> DEFINE a == Escaped(t[k + 1])
             b == Escaped(u[k + 1])
             p == Len(h[k])
  <2>1. /\ k + 1 \in 1..n /\ k + 1 \in 1..m /\ k \in 0..n /\ k \in 0..m /\ (k + 1) - 1 = k
        /\ k + 1 \in 0..l
    BY <1>0
  <2>2. h[k] = g[k] /\ \A i \in 1..k : t[i] = u[i]
    BY <1>10
  <2>3. t[k + 1] \in Letters /\ u[k + 1] \in Letters
    BY <1>3, <1>4, <2>1
  <2>4. Len(a) \in {1, 2} /\ (Len(a) = 2 <=> a[1] = "\\")
    BY <2>3, EscapedIs
  <2>5. Len(b) \in {1, 2} /\ (Len(b) = 2 <=> b[1] = "\\")
    BY <2>3, EscapedIs
  <2>6. \A i \in 1..Len(a) : w[p + i] = a[i]
    BY <1>7, <2>1
  <2>7. \A i \in 1..Len(b) : w[p + i] = b[i]
    BY <1>8, <2>1, <2>2
  <2>11. t[k + 1] = u[k + 1]
    <3> HIDE DEF a, b, p
    <3>4. Len(a) \in {1, 2} /\ Len(b) \in {1, 2}
      BY <2>4, <2>5, Zenon
    <3>5. \A x : x \in {1, 2} => 1 \in 1..x /\ (x = 2 => 2 \in 1..x)
      OBVIOUS
    <3>1. 1 \in 1..Len(a) /\ 1 \in 1..Len(b) /\ (Len(a) = 2 => 2 \in 1..Len(a)) /\ (Len(b) = 2 => 2 \in 1..Len(b))
      BY <3>4, <3>5, Zenon
    <3>2. a[1] = b[1]
      BY <2>6, <2>7, <3>1
    <3>3. a[1] = "\\" => a[2] = b[2]
      BY <2>4, <2>5, <2>6, <2>7, <3>1, <3>2
    <3> QED
      BY <2>3, <3>2, <3>3, EscapedApart DEF a, b
  <2>8. h[k + 1] = h[k] \o a /\ g[k + 1] = g[k] \o b
    BY <1>1, <1>2, <2>1
  <2>9. h[k + 1] = g[k + 1]
    BY <2>2, <2>8, <2>11
  <2>10. \A i \in 1..(k + 1) : t[i] = u[i]
    <3> TAKE i \in 1..(k + 1)
    <3>1. i \in 1..k \/ i = k + 1
      BY <1>0
    <3> QED
      BY <2>2, <2>11, <3>1
  <2> QED
    BY <2>1, <2>9, <2>10
<1> HIDE DEF T
<1>11. 0..l \subseteq T
  BY <1>0, <1>9, <1>10, UpTo
<1>12. h[l] = g[l] /\ \A i \in 1..l : t[i] = u[i]
  <2>1. l \in 0..l
    BY <1>0
  <2> QED
    BY <1>11, <2>1 DEF T
<1>13. ~(l < n)
  <2> SUFFICES ASSUME l < n PROVE FALSE
    OBVIOUS
  <2>1. l = m /\ l + 1 \in 1..n /\ l \in 0..n /\ l = (l + 1) - 1
    BY <1>0
  <2>2. h[l] = w
    BY <1>6, <1>12, <2>1
  <2>3. Len(h[l + 1]) = Len(h[l]) + Len(Escaped(t[l + 1])) /\ Len(h[l + 1]) <= Len(w)
    BY <1>7, <2>1
  <2> DEFINE long == Len(Escaped(t[l + 1]))
             so_far == Len(w)
             more == Len(h[l + 1])
  <2>4. long \in {1, 2}
    BY <1>3, <2>1, EscapedIs
  <2>5. so_far \in Nat /\ more = so_far + long /\ more <= so_far
    BY <1>6, <2>2, <2>3
  <2> HIDE DEF long, so_far, more
  <2> QED
    BY <2>4, <2>5
<1>14. ~(l < m)
  <2> SUFFICES ASSUME l < m PROVE FALSE
    OBVIOUS
  <2>1. l = n /\ l + 1 \in 1..m /\ l \in 0..m /\ l = (l + 1) - 1
    BY <1>0
  <2>2. g[l] = w
    BY <1>6, <1>12, <2>1 DEF w
  <2>3. Len(g[l + 1]) = Len(g[l]) + Len(Escaped(u[l + 1])) /\ Len(g[l + 1]) <= Len(w)
    BY <1>8, <2>1
  <2> DEFINE long == Len(Escaped(u[l + 1]))
             so_far == Len(w)
             more == Len(g[l + 1])
  <2>4. long \in {1, 2}
    BY <1>4, <2>1, EscapedIs
  <2>5. so_far \in Nat /\ more = so_far + long /\ more <= so_far
    BY <1>6, <2>2, <2>3
  <2> HIDE DEF long, so_far, more
  <2> QED
    BY <2>4, <2>5
<1>15. n = m /\ l = n
  BY <1>0, <1>13, <1>14
<1> QED
  BY <1>5, <1>12, <1>15

\* A text keeps a line whole, and is not what stands for no value.
LEMMA SpelledIsClean ==
  ASSUME NEW t \in Seq(Letters)
  PROVE  Spelled(t) \in Seq(Clean) /\ Spelled(t) # <<"\\", "N">>
<1> DEFINE n == Len(t)
<1>0. n \in Nat
  OBVIOUS
<1>1. PICK h : /\ h \in [0..n -> Seq(Clean)] /\ h[0] = <<>> /\ Spelled(t) = h[n]
               /\ \A i \in 1..n : h[i] = h[i - 1] \o Escaped(t[i])
               /\ \A i \in 0..n : Starts(h[i], h[n])
  BY SpelledIs
<1>2. n # 0 => t[1] \in Letters
  OBVIOUS
<1> HIDE DEF n
<1>3. Spelled(t) \in Seq(Clean)
  BY <1>0, <1>1
<1>4. ASSUME Spelled(t) = <<"\\", "N">>
      PROVE  FALSE
  <2>1. n # 0
    <3>1. Len(<<>>) = 0 /\ Len(<<"\\", "N">>) = 2
      OBVIOUS
    <3>2. <<>> # <<"\\", "N">>
      BY <3>1
    <3> QED
      BY <1>1, <1>4, <3>2
  <2>2. 1 \in 1..n /\ 1 \in 0..n /\ 1 - 1 = 0
    BY <1>0, <2>1
  <2> DEFINE a == Escaped(t[1])
  <2>3. a \in Seq(Clean)
    BY <1>2, <2>1, EscapedIs
  <2>4. Len(a) \in {1, 2} /\ (Len(a) = 2 <=> a[1] = "\\") /\ (a[1] = "\\" => a[2] # "N")
    BY <1>2, <2>1, EscapedIs
  <2>5. h[1] = h[0] \o a
    BY <1>1, <2>2
  <2>6. <<>> \o a = a
    <3> HIDE DEF a
    <3> QED
      BY <2>3, ConcatEmptySeq
  <2>7. Starts(a, <<"\\", "N">>)
    BY <1>1, <1>4, <2>2, <2>5, <2>6
  <2> HIDE DEF a
  <2>8. \A i \in 1..Len(a) : <<"\\", "N">>[i] = a[i]
    BY <2>7 DEF Starts
  <2>9. a[1] = "\\"
    <3>1. 1 \in 1..Len(a)
      BY <2>4
    <3> QED
      BY <2>8, <3>1
  <2>10. a[2] = "N"
    <3>2. Len(a) = 2
      BY <2>4, <2>9, Zenon
    <3>1. 2 \in 1..Len(a)
      BY <3>2
    <3> QED
      BY <2>8, <3>1
  <2> QED
    BY <2>4, <2>9, <2>10
<1> QED
  BY <1>3, <1>4

-----------------------------------------------------------------------------
(* Sorting.                                                                 *)

\* Whatever an order is of, so many can be put in it.
IsOrder(R, n) ==
  /\ \A i \in 1..n : <<i, i>> \notin R
  /\ \A i, j, k \in 1..n : <<i, j>> \in R /\ <<j, k>> \in R => <<i, k>> \in R
  /\ \A i, j \in 1..n : i = j \/ <<i, j>> \in R \/ <<j, i>> \in R

LEMMA PutInOrder ==
  ASSUME NEW n \in Nat, NEW R, IsOrder(R, n)
  PROVE  \E o \in Bijection(1..n, 1..n) : \A i, j \in 1..n : i < j => <<o[j], o[i]>> \notin R
<1> DEFINE below(i) == {j \in 1..n : <<j, i>> \in R}
           rank == [i \in 1..n |-> Cardinality(below(i)) + 1]
<1>0. /\ \A i \in 1..n : <<i, i>> \notin R
      /\ \A i, j, k \in 1..n : <<i, j>> \in R /\ <<j, k>> \in R => <<i, k>> \in R
      /\ \A i, j \in 1..n : i = j \/ <<i, j>> \in R \/ <<j, i>> \in R
  BY DEF IsOrder
<1>1. IsFiniteSet(1..n) /\ Cardinality(1..n) = n
  BY FS_Interval
<1>2. ASSUME NEW i \in 1..n
      PROVE  /\ IsFiniteSet(below(i)) /\ Cardinality(below(i)) \in Nat /\ Cardinality(below(i)) < n
  <2>1. below(i) \in SUBSET (1..n) /\ below(i) # 1..n
    BY <1>0
  <2> HIDE DEF below
  <2>2. IsFiniteSet(below(i)) /\ Cardinality(below(i)) <= n /\ Cardinality(below(i)) # n
    BY <1>1, <2>1, FS_Subset
  <2>3. Cardinality(below(i)) \in Nat
    BY <2>2, FS_CardinalityType
  <2> QED
    BY <2>2, <2>3
<1>3. ASSUME NEW i \in 1..n, NEW j \in 1..n, <<i, j>> \in R
      PROVE  rank[i] < rank[j]
  <2>1. below(i) \in SUBSET below(j)
    BY <1>0, <1>3
  <2>2. below(i) # below(j)
    BY <1>0, <1>3
  <2>3. Cardinality(below(i)) \in Nat /\ Cardinality(below(j)) \in Nat /\ IsFiniteSet(below(j))
    BY <1>2
  <2>4. Cardinality(below(i)) <= Cardinality(below(j)) /\ Cardinality(below(j)) # Cardinality(below(i))
    <3> HIDE DEF below
    <3> QED
      BY <2>1, <2>2, <2>3, FS_Subset
  <2> HIDE DEF below
  <2>5. rank[i] = Cardinality(below(i)) + 1 /\ rank[j] = Cardinality(below(j)) + 1
    OBVIOUS
  <2> QED
    BY <2>3, <2>4, <2>5
<1>4. \A i \in 1..n : rank[i] \in 1..n
  <2> TAKE i \in 1..n
  <2>1. Cardinality(below(i)) \in Nat /\ Cardinality(below(i)) < n
    BY <1>2
  <2> HIDE DEF below
  <2>2. rank[i] = Cardinality(below(i)) + 1
    OBVIOUS
  <2> QED
    BY <2>1, <2>2
<1>5. rank \in [1..n -> 1..n]
  <2>1. rank = [i \in 1..n |-> rank[i]]
    OBVIOUS
  <2> HIDE DEF rank
  <2> QED
    BY <1>4, <2>1
<1> HIDE DEF rank
<1>6. \A i, j \in 1..n : rank[i] = rank[j] => i = j
  <2> SUFFICES ASSUME NEW i \in 1..n, NEW j \in 1..n, rank[i] = rank[j], i # j
               PROVE  FALSE
    OBVIOUS
  <2>1. rank[i] < rank[j] \/ rank[j] < rank[i]
    BY <1>0, <1>3
  <2>2. rank[i] \in 1..n /\ rank[j] \in 1..n
    BY <1>4
  <2> QED
    BY <2>1, <2>2
<1>7. rank \in Bijection(1..n, 1..n)
  <2>1. rank \in Injection(1..n, 1..n)
    BY <1>5, <1>6 DEF Injection, IsInjective
  <2>2. rank \in Surjection(1..n, 1..n)
    BY <1>1, <2>1, FS_Injection
  <2> QED
    BY <2>1, <2>2 DEF Bijection
<1>8. PICK o \in Bijection(1..n, 1..n) : \A i \in 1..n : rank[o[i]] = i /\ o[rank[i]] = i
  BY <1>7, Undone
<1>9. \A i \in 1..n : o[i] \in 1..n
  BY <1>8 DEF Bijection, Injection
<1>10. ASSUME NEW i \in 1..n, NEW j \in 1..n, i < j
       PROVE  <<o[j], o[i]>> \notin R
  <2> SUFFICES ASSUME <<o[j], o[i]>> \in R PROVE FALSE
    OBVIOUS
  <2>1. rank[o[j]] < rank[o[i]]
    BY <1>3, <1>9
  <2>2. j < i
    BY <1>8, <2>1
  <2> QED
    BY <1>10, <2>2
<1> QED
  BY <1>10

\* The place of a character among the characters.
LEMMA CodeIs ==
  ASSUME NEW c \in Letters
  PROVE  Code(c) \in 1..31
<1>1. DOMAIN Alphabet = 1..31 /\ Len(Alphabet) = 31
  BY DEF Alphabet
<1>2. \E i \in 1..31 : Alphabet[i] = c
  BY <1>1 DEF Letters, Range
<1> QED
  BY <1>1, <1>2 DEF Code

\* The character of a string at a place, and nothing past its end.
CodeAt(a, k) == IF k \in 1..Len(a) THEN Code(a[k]) ELSE 0
Ahead(a, b, k) == CodeAt(a, k) < CodeAt(b, k) /\ \A j \in 1..(k - 1) : CodeAt(a, j) = CodeAt(b, j)

LEMMA CodeAtIs ==
  ASSUME NEW a \in Seq(Letters), NEW k \in Nat
  PROVE  CodeAt(a, k) \in Nat
<1>1. k \in 1..Len(a) => a[k] \in Letters
  OBVIOUS
<1>2. CASE k \in 1..Len(a)
  <2>1. Code(a[k]) \in 1..31
    BY <1>1, <1>2, CodeIs
  <2>2. CodeAt(a, k) = Code(a[k])
    BY <1>2 DEF CodeAt
  <2>3. 1..31 \subseteq Nat
    OBVIOUS
  <2> QED
    BY <2>1, <2>2, <2>3, Zenon
<1>3. CASE k \notin 1..Len(a)
  BY <1>3 DEF CodeAt
<1> QED
  BY <1>2, <1>3

LEMMA BeforeIsAhead ==
  ASSUME NEW a \in Seq(Letters), NEW b \in Seq(Letters), Before(a, b)
  PROVE  \E k \in Nat : k >= 1 /\ Ahead(a, b, k)
<1>0. Len(a) \in Nat /\ Len(b) \in Nat
  OBVIOUS
<1>7. (\A i \in 1..Len(a) : a[i] \in Letters) /\ (\A i \in 1..Len(b) : b[i] \in Letters)
  OBVIOUS
<1>1. ASSUME NEW l \in Nat, l <= Len(a), l <= Len(b), SubSeq(a, 1, l) = SubSeq(b, 1, l)
      PROVE  \A j \in 1..l : a[j] = b[j] /\ CodeAt(a, j) = CodeAt(b, j)
  <2> TAKE j \in 1..l
  <2>1. SubSeq(a, 1, l)[j] = a[j] /\ SubSeq(b, 1, l)[j] = b[j]
    <3>1. 1 \in Int /\ l \in Int /\ j \in 1..(l - 1 + 1) /\ 1 + j - 1 = j
      BY <1>1
    <3>2. (\A i \in 1..l : a[i] \in Letters) /\ (\A i \in 1..l : b[i] \in Letters)
      BY <1>0, <1>1, <1>7
    <3>3. SubSeq(a, 1, l)[j] = a[1 + j - 1]
      BY <3>1, <3>2, SubSeqProperties
    <3>4. SubSeq(b, 1, l)[j] = b[1 + j - 1]
      BY <3>1, <3>2, SubSeqProperties
    <3> QED
      BY <3>1, <3>3, <3>4
  <2>2. a[j] = b[j]
    BY <1>1, <2>1
  <2>3. j \in 1..Len(a) /\ j \in 1..Len(b)
    BY <1>0, <1>1
  <2> QED
    BY <2>2, <2>3 DEF CodeAt
<1>2. CASE IsStrictPrefix(a, b)
  <2>1. Len(a) <= Len(b) /\ SubSeq(a, 1, Len(a)) = SubSeq(b, 1, Len(a)) /\ a # b
    BY <1>2 DEF IsStrictPrefix, IsPrefix
  <2>2. \A j \in 1..Len(a) : a[j] = b[j] /\ CodeAt(a, j) = CodeAt(b, j)
    BY <1>0, <1>1, <2>1
  <2>3. Len(a) < Len(b)
    <3> SUFFICES ASSUME Len(a) = Len(b) PROVE FALSE
      BY <1>0, <2>1
    <3>1. \A j \in 1..Len(a) : a[j] = b[j]
      BY <2>2
    <3>2. a = b
      BY <3>1, SeqEqual
    <3> QED
      BY <2>1, <3>2
  <2> DEFINE k == Len(a) + 1
  <2>4. k \in Nat /\ k >= 1 /\ k - 1 = Len(a) /\ k \in 1..Len(b) /\ k \notin 1..Len(a)
    BY <1>0, <2>3
  <2>5. b[k] \in Letters
    BY <1>7, <2>4
  <2>6. Code(b[k]) \in 1..31
    BY <2>5, CodeIs
  <2>7. CodeAt(a, k) = 0 /\ CodeAt(b, k) = Code(b[k])
    BY <2>4 DEF CodeAt
  <2>11. \A x : x \in 1..31 => 0 < x
    OBVIOUS
  <2>9. CodeAt(a, k) < CodeAt(b, k)
    BY <2>6, <2>7, <2>11, Zenon
  <2>10. \A j \in 1..(k - 1) : CodeAt(a, j) = CodeAt(b, j)
    BY <2>2, <2>4
  <2>8. Ahead(a, b, k)
    BY <2>9, <2>10 DEF Ahead
  <2> HIDE DEF k
  <2> QED
    BY <2>4, <2>8
<1>3. CASE \E k \in 1..Len(a) :
             /\ k <= Len(b) /\ SubSeq(a, 1, k - 1) = SubSeq(b, 1, k - 1)
             /\ Code(a[k]) < Code(b[k])
  <2>1. PICK k \in 1..Len(a) : /\ k <= Len(b) /\ SubSeq(a, 1, k - 1) = SubSeq(b, 1, k - 1)
                               /\ Code(a[k]) < Code(b[k])
    BY <1>3
  <2>2. k - 1 \in Nat /\ k - 1 <= Len(a) /\ k - 1 <= Len(b) /\ k \in 1..Len(b) /\ k \in Nat /\ k >= 1
    BY <1>0, <2>1
  <2>3. \A j \in 1..(k - 1) : CodeAt(a, j) = CodeAt(b, j)
    BY <1>1, <2>1, <2>2
  <2>4. CodeAt(a, k) = Code(a[k]) /\ CodeAt(b, k) = Code(b[k])
    BY <2>2 DEF CodeAt
  <2>5. Ahead(a, b, k)
    BY <2>1, <2>3, <2>4 DEF Ahead
  <2> QED
    BY <2>2, <2>5
<1> QED
  BY <1>2, <1>3 DEF Before

\* sort_unstable: the lines in an order in which none stands behind one that
\* it comes before, which there always is.
THEOREM SortedIs ==
  ASSUME NEW n \in Nat, NEW lines \in [1..n -> Seq(Letters)]
  PROVE  Sorted(lines) \in Rearrangements(lines)
<1> DEFINE R == {p \in (1..n) \X (1..n) :
                   \/ \E k \in Nat : k >= 1 /\ Ahead(lines[p[1]], lines[p[2]], k)
                   \/ p[1] < p[2] /\ \A k \in Nat : CodeAt(lines[p[1]], k) = CodeAt(lines[p[2]], k)}
<1>0. Len(lines) = n
  OBVIOUS
<1>1. \A i \in 1..n : lines[i] \in Seq(Letters)
  OBVIOUS
<1>2. \A i \in 1..n : \A k \in Nat : CodeAt(lines[i], k) \in Nat
  BY <1>1, CodeAtIs
<1>3. \A i, j \in 1..n : <<i, j>> \in R <=>
         \/ \E k \in Nat : k >= 1 /\ Ahead(lines[i], lines[j], k)
         \/ i < j /\ \A k \in Nat : CodeAt(lines[i], k) = CodeAt(lines[j], k)
  OBVIOUS
<1> HIDE DEF R
<1>4. \A i \in 1..n : <<i, i>> \notin R
  BY <1>2, <1>3 DEF Ahead
<1>5. ASSUME NEW i \in 1..n, NEW j \in 1..n, i # j
      PROVE  <<i, j>> \in R \/ <<j, i>> \in R
  <2> DEFINE D == {k \in Nat : CodeAt(lines[i], k) # CodeAt(lines[j], k)}
  <2>1. CASE D = {}
    <3>1. \A k \in Nat : CodeAt(lines[i], k) = CodeAt(lines[j], k)
      BY <2>1
    <3>2. i < j \/ j < i
      BY <1>5
    <3> QED
      BY <1>3, <3>1, <3>2
  <2>2. CASE D # {}
    <3>1. PICK k \in D : \A x \in D : k <= x
      BY <2>2, LeastMember
    <3>2. k \in Nat /\ CodeAt(lines[i], k) # CodeAt(lines[j], k)
      OBVIOUS
    <3>3. \A x \in 1..(k - 1) : CodeAt(lines[i], x) = CodeAt(lines[j], x)
      <4> SUFFICES ASSUME NEW x \in 1..(k - 1), CodeAt(lines[i], x) # CodeAt(lines[j], x)
                   PROVE  FALSE
        OBVIOUS
      <4>1. x \in D /\ ~(k <= x)
        BY <3>2
      <4> QED
        BY <3>1, <4>1
    <3>4. k >= 1
      <4>1. \A a : CodeAt(a, 0) = 0
        BY DEF CodeAt
      <4> QED
        BY <3>2, <4>1
    <3>5. CodeAt(lines[i], k) < CodeAt(lines[j], k) \/ CodeAt(lines[j], k) < CodeAt(lines[i], k)
      BY <1>2, <3>2
    <3>6. Ahead(lines[i], lines[j], k) \/ Ahead(lines[j], lines[i], k)
      BY <3>3, <3>5 DEF Ahead
    <3> QED
      BY <1>3, <3>2, <3>4, <3>6
  <2> QED
    BY <2>1, <2>2
<1>6. ASSUME NEW i \in 1..n, NEW j \in 1..n, NEW m \in 1..n, <<i, j>> \in R, <<j, m>> \in R
      PROVE  <<i, m>> \in R
  <2> DEFINE a(k) == CodeAt(lines[i], k)
             b(k) == CodeAt(lines[j], k)
             c(k) == CodeAt(lines[m], k)
  <2>1. \A k \in Nat : a(k) \in Nat /\ b(k) \in Nat /\ c(k) \in Nat
    BY <1>2
  <2>2. \/ \E k \in Nat : k >= 1 /\ a(k) < b(k) /\ \A x \in 1..(k - 1) : a(x) = b(x)
        \/ i < j /\ \A k \in Nat : a(k) = b(k)
    BY <1>3, <1>6 DEF Ahead
  <2>3. \/ \E k \in Nat : k >= 1 /\ b(k) < c(k) /\ \A x \in 1..(k - 1) : b(x) = c(x)
        \/ j < m /\ \A k \in Nat : b(k) = c(k)
    BY <1>3, <1>6 DEF Ahead
  <2>4. (\E k \in Nat : k >= 1 /\ a(k) < c(k) /\ \A x \in 1..(k - 1) : a(x) = c(x)) => <<i, m>> \in R
    BY <1>3 DEF Ahead
  <2>5. i < m /\ (\A k \in Nat : a(k) = c(k)) => <<i, m>> \in R
    BY <1>3
  <2> HIDE DEF a, b, c
  <2>6. CASE \E k \in Nat : k >= 1 /\ a(k) < b(k) /\ \A x \in 1..(k - 1) : a(x) = b(x)
    <3>1. PICK k \in Nat : k >= 1 /\ a(k) < b(k) /\ \A x \in 1..(k - 1) : a(x) = b(x)
      BY <2>6
    <3>2. CASE \E l \in Nat : l >= 1 /\ b(l) < c(l) /\ \A x \in 1..(l - 1) : b(x) = c(x)
      <4>1. PICK l \in Nat : l >= 1 /\ b(l) < c(l) /\ \A x \in 1..(l - 1) : b(x) = c(x)
        BY <3>2
      <4> DEFINE least == IF k < l THEN k ELSE l
      <4>2. least \in Nat /\ least >= 1 /\ (least = k \/ least = l) /\ least <= k /\ least <= l
        BY <3>1, <4>1
      <4>3. \A x \in 1..(least - 1) : x \in 1..(k - 1) /\ x \in 1..(l - 1)
        BY <4>2
      <4>4. \A x \in 1..(least - 1) : a(x) = c(x)
        BY <3>1, <4>1, <4>3
      <4>5. a(least) < c(least)
        <5>1. CASE k < l
          <6>1. k \in 1..(l - 1) /\ least = k
            BY <3>1, <5>1
          <6> QED
            BY <3>1, <4>1, <6>1
        <5>2. CASE l < k
          <6>1. l \in 1..(k - 1) /\ least = l
            BY <4>1, <5>2
          <6> QED
            BY <3>1, <4>1, <6>1
        <5>3. CASE k = l
          <6>1. a(k) < b(k) /\ b(k) < c(k) /\ least = k
            BY <3>1, <4>1, <5>3
          <6>2. a(k) \in Nat /\ b(k) \in Nat /\ c(k) \in Nat
            BY <2>1
          <6> QED
            BY <6>1, <6>2
        <5> QED
          BY <5>1, <5>2, <5>3
      <4> HIDE DEF least
      <4> QED
        BY <2>4, <4>2, <4>4, <4>5
    <3>3. CASE \A l \in Nat : b(l) = c(l)
      <4>1. \A x \in 1..(k - 1) : a(x) = c(x)
        BY <3>1, <3>3
      <4> QED
        BY <2>4, <3>1, <3>3, <4>1
    <3> QED
      BY <2>3, <3>2, <3>3
  <2>7. CASE i < j /\ \A k \in Nat : a(k) = b(k)
    <3>1. CASE \E l \in Nat : l >= 1 /\ b(l) < c(l) /\ \A x \in 1..(l - 1) : b(x) = c(x)
      <4>1. PICK l \in Nat : l >= 1 /\ b(l) < c(l) /\ \A x \in 1..(l - 1) : b(x) = c(x)
        BY <3>1
      <4>2. \A x \in 1..(l - 1) : a(x) = c(x)
        BY <2>7, <4>1
      <4> QED
        BY <2>4, <2>7, <4>1, <4>2
    <3>2. CASE j < m /\ \A l \in Nat : b(l) = c(l)
      BY <2>5, <2>7, <3>2
    <3> QED
      BY <2>3, <3>1, <3>2
  <2> QED
    BY <2>2, <2>6, <2>7
<1>7. IsOrder(R, n)
  BY <1>4, <1>5, <1>6 DEF IsOrder
<1>8. PICK o \in Bijection(1..n, 1..n) : \A i, j \in 1..n : i < j => <<o[j], o[i]>> \notin R
  BY <1>7, PutInOrder
<1> DEFINE s == [i \in 1..n |-> lines[o[i]]]
<1>9. s \in Rearrangements(lines)
  BY <1>0 DEF Rearrangements
<1>10. \A i, j \in 1..Len(s) : i < j => ~Before(s[j], s[i])
  <2>1. Len(s) = n
    OBVIOUS
  <2> SUFFICES ASSUME NEW i \in 1..n, NEW j \in 1..n, i < j, Before(s[j], s[i])
               PROVE  FALSE
    BY <2>1
  <2>2. o[i] \in 1..n /\ o[j] \in 1..n
    BY <1>8 DEF Bijection, Injection
  <2> DEFINE a == lines[o[j]]
             b == lines[o[i]]
  <2>3. a \in Seq(Letters) /\ b \in Seq(Letters) /\ Before(a, b)
    BY <1>1, <2>2
  <2> HIDE DEF a, b
  <2>4. \E k \in Nat : k >= 1 /\ Ahead(a, b, k)
    BY <2>3, BeforeIsAhead
  <2>5. <<o[j], o[i]>> \in R
    BY <1>3, <2>2, <2>4 DEF a, b
  <2> QED
    BY <1>8, <2>5
<1> HIDE DEF s
<1> QED
  BY <1>9, <1>10 DEF Sorted

-----------------------------------------------------------------------------
(* Numbers, dates and times of day.                                         *)

\* What a rendered value other than a text and no value consists of.
Bare == Clean \ {"\\"}

LEMMA BareIs ==
  /\ FigureChars \subseteq Bare /\ Bare \subseteq Clean /\ Clean \subseteq Letters
  /\ {"-", ".", ":", " ", "I", "N", "a", "e", "f", "i", "l", "n", "r", "s", "t", "u", "y"} \subseteq Bare
<1>1. /\ {"\t", "\n", "\r", " ", "-", ".", ":", "I", "N", "\\"} \subseteq Letters
      /\ {"a", "e", "f", "i", "l", "n", "r", "s", "t", "u", "y"} \subseteq Letters
      /\ FigureChars \subseteq Letters
  BY LettersAre
<1>2. Bare \subseteq Clean /\ Clean \subseteq Letters
  BY DEF Bare, Clean
<1>3. \A c \in Letters : c \notin {"\t", "\n", "\\"} => c \in Bare
  BY DEF Bare, Clean
<1>4. \A c \in FigureChars : c \notin {"\t", "\n", "\\"}
  BY DEF FigureChars
<1>5. FigureChars \subseteq Bare
  BY <1>1, <1>3, <1>4
<1>6. {" ", "-", ".", ":", "I", "N"} \subseteq Bare
  BY <1>1, <1>3
<1>7. {"a", "e", "f", "i", "l", "n", "r", "s", "t", "u", "y"} \subseteq Bare
  BY <1>1, <1>3
<1> QED
  BY <1>2, <1>5, <1>6, <1>7

\* A string of some characters is one of more.
LEMMA Wider ==
  ASSUME NEW S, NEW T, S \subseteq T, NEW s \in Seq(S)
  PROVE  s \in Seq(T)
OBVIOUS

\* A whole number, with its sign.
LEMMA SignedIs ==
  ASSUME NEW n \in Int
  PROVE  Signed(n) \in Seq(Bare)
<1>1. CASE n < 0
  <2>1. Digits[-n] \in Seq(Bare)
    <3>1. -n \in Nat
      BY <1>1
    <3>2. Digits[-n] \in Seq(FigureChars)
      BY <3>1, SomeFigures
    <3> QED
      BY <3>2, BareIs, Wider
  <2>2. <<"-">> \in Seq(Bare)
    <3>1. "-" \in Bare
      BY BareIs
    <3> QED
      BY <3>1
  <2>3. <<"-">> \o Digits[-n] \in Seq(Bare)
    BY <2>1, <2>2
  <2> QED
    BY <1>1, <2>3 DEF Signed
<1>2. CASE ~(n < 0)
  <2>1. Digits[n] \in Seq(FigureChars)
    BY <1>2, SomeFigures
  <2>2. Digits[n] \in Seq(Bare)
    BY <2>1, BareIs, Wider
  <2> QED
    BY <1>2, <2>2 DEF Signed
<1> QED
  BY <1>1, <1>2

LEMMA FirstFigure ==
  ASSUME NEW n \in Nat
  PROVE  Digits[n][1] # "-"
<1>1. Digits[n] \in Seq(FigureChars) /\ Len(Digits[n]) >= 1
  BY SomeFigures
<1>2. Digits[n][1] \in FigureChars
  BY <1>1
<1> QED
  BY <1>2 DEF FigureChars

LEMMA SignedApart ==
  ASSUME NEW n \in Int, NEW m \in Int, Signed(n) = Signed(m)
  PROVE  n = m
<1>1. ASSUME NEW k \in Int, k < 0
      PROVE  -k \in Nat /\ Signed(k) = <<"-">> \o Digits[-k] /\ Signed(k)[1] = "-"
  <2>1. -k \in Nat /\ Signed(k) = <<"-">> \o Digits[-k]
    BY <1>1 DEF Signed
  <2>2. Digits[-k] \in Seq(FigureChars \cup {"-"})
    BY <2>1, SomeFigures
  <2> DEFINE x == <<"-">>
             a == Digits[-k]
  <2>3. x \in Seq(FigureChars \cup {"-"}) /\ Len(x) = 1 /\ x[1] = "-"
    OBVIOUS
  <2>4. a \in Seq(FigureChars \cup {"-"})
    BY <2>2
  <2>7. 1 \in 1..Len(x)
    BY <2>3
  <2> HIDE DEF x, a
  <2>8. x \in Seq(FigureChars \cup {"-"})
    BY <2>3
  <2>5. \A i \in 1..Len(x) : (x \o a)[i] = x[i]
    BY <2>4, <2>8, TwoParts
  <2>6. (x \o a)[1] = "-"
    BY <2>3, <2>5, <2>7
  <2> QED
    BY <2>1, <2>6 DEF x, a
<1>2. ASSUME NEW k \in Int, ~(k < 0)
      PROVE  k \in Nat /\ Signed(k) = Digits[k] /\ Signed(k)[1] # "-"
  BY <1>2, FirstFigure DEF Signed
<1>3. CASE n < 0 /\ m < 0
  <2>1. -n \in Nat /\ -m \in Nat /\ <<"-">> \o Digits[-n] = <<"-">> \o Digits[-m]
    BY <1>1, <1>3
  <2>6. Digits[-n] \in Seq(FigureChars)
    BY <2>1, SomeFigures
  <2>7. Digits[-m] \in Seq(FigureChars)
    BY <2>1, SomeFigures
  <2>2. Digits[-n] \in Seq(FigureChars \cup {"-"}) /\ Digits[-m] \in Seq(FigureChars \cup {"-"})
    BY <2>6, <2>7, Wider
  <2>3. <<"-">> \in Seq(FigureChars \cup {"-"})
    OBVIOUS
  <2>4. TwoWays(FigureChars \cup {"-"}, <<"-">>, Digits[-n], <<"-">>, Digits[-m])
    BY <2>1, <2>2, <2>3 DEF TwoWays
  <2>5. Digits[-n] = Digits[-m]
    BY <2>4, CutByLength
  <2>8. -n = -m
    BY <2>1, <2>5, DigitsApart
  <2> QED
    BY <2>8
<1>4. CASE ~(n < 0) /\ ~(m < 0)
  <2>1. n \in Nat /\ m \in Nat /\ Digits[n] = Digits[m]
    BY <1>2, <1>4
  <2> QED
    BY <2>1, DigitsApart
<1>5. CASE n < 0 /\ ~(m < 0)
  <2>1. Signed(n)[1] = "-"
    BY <1>1, <1>5
  <2>2. Signed(m)[1] # "-"
    BY <1>2, <1>5
  <2> QED
    BY <2>1, <2>2
<1>6. CASE ~(n < 0) /\ m < 0
  <2>1. Signed(m)[1] = "-"
    BY <1>1, <1>6
  <2>2. Signed(n)[1] # "-"
    BY <1>2, <1>6
  <2> QED
    BY <2>1, <2>2
<1> QED
  BY <1>3, <1>4, <1>5, <1>6

\* Two figures, as months, days, hours, minutes and seconds are written.
LEMMA TwoFigures ==
  ASSUME NEW n \in Nat, n < 100
  PROVE  Padded(n, 2) \in Seq(FigureChars) /\ Len(Padded(n, 2)) = 2
<1> DEFINE zeros == Larger(0, 2 - Figures(n))
<1>1. zeros + Figures(n) = Larger(2, Figures(n)) /\ Padded(n, 2) \in Seq(FigureChars)
      /\ Len(Padded(n, 2)) = zeros + Figures(n)
  BY PaddedIs
<1>2. Figures(n) <= 2 /\ Figures(n) \in Nat
  BY FewFigures, SomeFigures
<1>3. Larger(2, Figures(n)) = 2
  BY <1>2 DEF Larger
<1> QED
  BY <1>1, <1>3

LEMMA SixWide ==
  ASSUME NEW n \in Nat, Larger(6, Figures(n)) = 6
  PROVE  Padded(n, 6) \in Seq(FigureChars) /\ Len(Padded(n, 6)) = 6
<1> DEFINE zeros == Larger(0, 6 - Figures(n))
<1>1. zeros + Figures(n) = Larger(6, Figures(n)) /\ Padded(n, 6) \in Seq(FigureChars)
      /\ Len(Padded(n, 6)) = zeros + Figures(n)
  BY PaddedIs
<1> QED
  BY <1>1

LEMMA SixFigures ==
  ASSUME NEW n \in Nat, n < 1000000
  PROVE  Padded(n, 6) \in Seq(FigureChars) /\ Len(Padded(n, 6)) = 6
<1>1. Figures(n) <= 6 /\ Figures(n) \in Nat
  BY FewFigures, SomeFigures, SMT
<1>2. Larger(6, Figures(n)) = 6
  BY <1>1, SMT DEF Larger
<1> QED
  BY <1>2, SixWide, SMT

\* The centuries, the four years, the years and the days that a day of an era
\* is counted in.
Counted(doe, b, q, t, u) ==
  /\ b \in 0..3 /\ q \in 0..24 /\ t \in 0..3 /\ u \in 0..365 /\ (t < 3 => u <= 364)
  /\ 1461 * q + 365 * t + u < 36524 /\ doe = 36524 * b + 1461 * q + 365 * t + u

LEMMA DayIsCounted ==
  ASSUME NEW doe \in Int, 0 <= doe, doe < 146096
  PROVE  \E b, q, t, u : Counted(doe, b, q, t, u)
<1> DEFINE b == doe \div 36524
           r == doe % 36524
<1>1. b \in Int /\ r \in Int /\ 0 <= r /\ r < 36524 /\ doe = 36524 * b + r
  BY SMT
<1> HIDE DEF b, r
<1>2. b \in 0..3
  BY <1>1, SMT
<1> DEFINE q == r \div 1461
           s == r % 1461
<1>3. q \in Int /\ s \in Int /\ 0 <= s /\ s < 1461 /\ r = 1461 * q + s
  BY <1>1, SMT
<1> HIDE DEF q, s
<1>4. q \in 0..24
  BY <1>1, <1>3, SMT
<1> DEFINE x == s \div 365
           y == s % 365
<1>5. x \in Int /\ y \in Int /\ 0 <= y /\ y < 365 /\ s = 365 * x + y
  BY <1>3, SMT
<1> HIDE DEF x, y
<1>6. x \in 0..4 /\ (x = 4 => y = 0)
  BY <1>3, <1>5, SMT
<1> DEFINE t == IF x = 4 THEN 3 ELSE x
           u == IF x = 4 THEN 365 ELSE y
<1>7. t \in 0..3 /\ u \in 0..365 /\ (t < 3 => u <= 364) /\ s = 365 * t + u
  BY <1>5, <1>6, SMT
<1> HIDE DEF t, u
<1>8. doe = 36524 * b + 1461 * q + 365 * t + u
  BY <1>1, <1>2, <1>3, <1>4, <1>7, SMT
<1>10. 1461 * q + 365 * t + u < 36524
  BY <1>1, <1>3, <1>4, <1>7, SMT
<1>9. Counted(doe, b, q, t, u)
  BY <1>2, <1>4, <1>7, <1>8, <1>10, SMT DEF Counted
<1> QED
  BY <1>9, SMT

LEMMA YearOfEra ==
  ASSUME NEW doe \in Int, NEW b, NEW q, NEW t, NEW u, Counted(doe, b, q, t, u), NEW year,
         year = (doe - (doe \div 1460) + (doe \div 36524) - (doe \div 146096)) \div 365
  PROVE  year = 100 * b + 4 * q + t /\ year \div 4 = 25 * b + q /\ year \div 100 = b
<1>1. b \in 0..3 /\ q \in 0..24 /\ t \in 0..3 /\ u \in 0..365 /\ (t < 3 => u <= 364)
  BY SMT DEF Counted
<1>2. 1461 * q + 365 * t + u < 36524 /\ doe = 36524 * b + 1461 * q + 365 * t + u
  BY SMT DEF Counted
<1> DEFINE e == 24 * b + q + 365 * t + u
           over == IF e >= 1460 THEN 1 ELSE 0
<1>3. e \in Int /\ 0 <= e /\ e < 2920 /\ (e >= 1460 => u >= 1) /\ (u = 365 => e >= 1460)
  BY <1>1, SMT
<1>4. doe = 1460 * (25 * b + q) + e
  BY <1>1, <1>2, SMT
<1> HIDE DEF e
<1>5. over \in 0..1 /\ u - over \in 0..364 /\ 0 <= e - 1460 * over /\ e - 1460 * over < 1460
  BY <1>1, <1>3, SMT
<1> HIDE DEF over
<1>6. doe \div 1460 = 25 * b + q + over
  <2> DEFINE z == 25 * b + q + over
             r == e - 1460 * over
  <2>1. z \in Int /\ r \in Int /\ doe = 1460 * z + r /\ 0 <= r /\ r < 1460
    BY <1>1, <1>3, <1>4, <1>5, SMT
  <2> HIDE DEF z, r
  <2>2. doe \div 1460 = z
    BY <2>1, SMT
  <2> QED
    BY <2>2, SMT DEF z
<1>7. doe \div 36524 = b
  <2> DEFINE r == 1461 * q + 365 * t + u
  <2>1. b \in Int /\ r \in Int /\ doe = 36524 * b + r /\ 0 <= r /\ r < 36524
    BY <1>1, <1>2, SMT
  <2> HIDE DEF r
  <2> QED
    BY <2>1, SMT
<1>8. doe \div 146096 = 0
  <2>1. 0 <= doe /\ doe < 146096
    BY <1>1, <1>2, SMT
  <2> QED
    BY <2>1, SMT
<1> DEFINE years == 100 * b + 4 * q + t
           rest == u - over
<1>9. years \in Int /\ rest \in 0..364 /\ doe - (doe \div 1460) + (doe \div 36524) - (doe \div 146096) = 365 * years + rest
  <2>1. doe - (25 * b + q + over) + b - 0 = 365 * years + rest
    BY <1>1, <1>2, <1>5, SMT
  <2>2. years \in Int /\ rest \in 0..364
    BY <1>1, <1>5, SMT
  <2> QED
    BY <1>6, <1>7, <1>8, <2>1, <2>2, SMT
<1>10. year = (365 * years + rest) \div 365
  BY <1>9, SMT
<1> HIDE DEF rest
<1>11. year = years
  <2> HIDE DEF years
  <2>1. (365 * years + rest) \div 365 = years
    BY <1>9, SMT
  <2> QED
    BY <1>10, <2>1, SMT
<1>12. year = 100 * b + 4 * q + t
  BY <1>11, SMT
<1>13. year \div 4 = 25 * b + q
  BY <1>1, <1>12, SMT
<1>14. year \div 100 = b
  BY <1>1, <1>12, SMT
<1> QED
  BY <1>12, <1>13, <1>14, SMT

\* The months and the days of a month that there are.
LEMMA MonthOfYear ==
  ASSUME NEW day \in 0..365, NEW month, month = (5 * day + 2) \div 153
  PROVE  month \in 0..11 /\ day - (153 * month + 2) \div 5 + 1 \in 1..31
BY SMT

\* The era of four hundred years, the year in it, the day of that and the
\* month of it that a day is counted in, from the first of March.
Dated(days, era, year, day, month) ==
  /\ era \in Int /\ year \in 0..399 /\ day \in 0..365 /\ month \in 0..11
  /\ day - (153 * month + 2) \div 5 + 1 \in 1..31
  /\ days + 719468 = 146097 * era + 365 * year + (year \div 4) - (year \div 100) + day

CivilOf(era, year, day, month) ==
  <<year + era * 400 + (IF (IF month < 10 THEN month + 3 ELSE month - 9) <= 2 THEN 1 ELSE 0),
    IF month < 10 THEN month + 3 ELSE month - 9,
    day - (153 * month + 2) \div 5 + 1>>

\* civil, in terms of these.
LEMMA CivilIs ==
  ASSUME NEW days \in Int
  PROVE  \E era, year, day, month :
           Dated(days, era, year, day, month) /\ civil(days) = CivilOf(era, year, day, month)
<1> DEFINE shifted == days + 719468
           era == shifted \div 146097
           doe == shifted % 146097
           year == (doe - (doe \div 1460) + (doe \div 36524) - (doe \div 146096)) \div 365
           day == doe - (365 * year + (year \div 4) - (year \div 100))
           month == (5 * day + 2) \div 153
<1>1. shifted \in Int /\ era \in Int /\ doe \in Int /\ 0 <= doe /\ doe < 146097 /\ shifted = 146097 * era + doe
  BY SMT
<1>2. civil(days) = CivilOf(era, year, day, month)
  BY SMT DEF civil, CivilOf
<1> HIDE DEF shifted, era, doe
<1>3. year \in 0..399 /\ day \in 0..365
  <2>1. CASE doe = 146096
    <3>1. doe \div 1460 = 100 /\ doe \div 36524 = 4 /\ doe \div 146096 = 1
      BY <2>1, SMT
    <3>2. doe - (doe \div 1460) + (doe \div 36524) - (doe \div 146096) = 145999
      BY <2>1, <3>1, SMT
    <3>3. year = 145999 \div 365
      BY <3>2, SMT
    <3> HIDE DEF year
    <3>4. year = 399
      BY <3>3, SMT
    <3>5. year \div 4 = 99 /\ year \div 100 = 3
      BY <3>4, SMT
    <3>6. day = 365
      BY <2>1, <3>4, <3>5, SMT
    <3> QED
      BY <3>4, <3>6, SMT
  <2>2. CASE doe # 146096
    <3>1. doe < 146096
      BY <1>1, <2>2, SMT
    <3>2. PICK b, q, t, u : Counted(doe, b, q, t, u)
      BY <1>1, <3>1, DayIsCounted, SMT
    <3>3. year = (doe - (doe \div 1460) + (doe \div 36524) - (doe \div 146096)) \div 365
      BY SMT
    <3> HIDE DEF year
    <3>4. year = 100 * b + 4 * q + t /\ year \div 4 = 25 * b + q /\ year \div 100 = b
      BY <1>1, <3>2, <3>3, YearOfEra, SMT
    <3>5. b \in 0..3 /\ q \in 0..24 /\ t \in 0..3 /\ u \in 0..365
      BY <3>2, SMT DEF Counted
    <3>6. doe = 36524 * b + 1461 * q + 365 * t + u
      BY <3>2, SMT DEF Counted
    <3>7. day = u
      BY <3>4, <3>5, <3>6, SMT
    <3>8. year \in 0..399
      BY <3>4, <3>5, SMT
    <3> QED
      BY <3>5, <3>7, <3>8, SMT
  <2> HIDE DEF year, day
  <2> QED
    BY <2>1, <2>2
<1>4. doe = 365 * year + (year \div 4) - (year \div 100) + day
  <2> HIDE DEF year
  <2> QED
    BY <1>1, <1>3, SMT
<1> HIDE DEF year, day
<1>5. month = (5 * day + 2) \div 153
  BY SMT
<1> HIDE DEF month
<1>6. month \in 0..11 /\ day - (153 * month + 2) \div 5 + 1 \in 1..31
  BY <1>3, <1>5, MonthOfYear, SMT
<1>7. days + 719468 = 146097 * era + 365 * year + (year \div 4) - (year \div 100) + day
  BY <1>1, <1>3, <1>4, SMT DEF shifted
<1>8. Dated(days, era, year, day, month)
  BY <1>1, <1>3, <1>6, <1>7, SMT DEF Dated
<1> QED
  BY <1>2, <1>8, SMT

\* civil, which answer.rs:144 takes from Hinnant's civil_from_days: no two days
\* have the same date, however far before or after the epoch.
THEOREM CivilApart ==
  ASSUME NEW a \in Int, NEW b \in Int, civil(a) = civil(b)
  PROVE  a = b
<1>1. PICK era, year, day, month :
        Dated(a, era, year, day, month) /\ civil(a) = CivilOf(era, year, day, month)
  BY CivilIs, SMT
<1>2. PICK era2, year2, day2, month2 :
        Dated(b, era2, year2, day2, month2) /\ civil(b) = CivilOf(era2, year2, day2, month2)
  BY CivilIs, SMT
<1>3. era \in Int /\ year \in 0..399 /\ day \in 0..365 /\ month \in 0..11
  BY <1>1, SMT DEF Dated
<1>4. era2 \in Int /\ year2 \in 0..399 /\ day2 \in 0..365 /\ month2 \in 0..11
  BY <1>2, SMT DEF Dated
<1>5. CivilOf(era, year, day, month) = CivilOf(era2, year2, day2, month2)
  BY <1>1, <1>2, Zenon
<1>6. (IF month < 10 THEN month + 3 ELSE month - 9) = (IF month2 < 10 THEN month2 + 3 ELSE month2 - 9)
  BY <1>5, SMT DEF CivilOf
<1>7. month = month2
  BY <1>3, <1>4, <1>6, SMT
<1>8. day - (153 * month + 2) \div 5 + 1 = day2 - (153 * month2 + 2) \div 5 + 1
  BY <1>5, SMT DEF CivilOf
<1>9. day = day2
  <2> DEFINE z == (153 * month + 2) \div 5
  <2>1. z \in Int /\ day - z + 1 = day2 - z + 1
    BY <1>3, <1>7, <1>8, SMT
  <2> HIDE DEF z
  <2> QED
    BY <1>3, <1>4, <2>1, SMT
<1>10. year + era * 400 = year2 + era2 * 400
  <2> DEFINE z == IF (IF month < 10 THEN month + 3 ELSE month - 9) <= 2 THEN 1 ELSE 0
  <2>1. year + era * 400 + z = year2 + era2 * 400 + z
    BY <1>5, <1>7, SMT DEF CivilOf
  <2>2. z \in Int
    BY SMT
  <2> HIDE DEF z
  <2> QED
    BY <1>3, <1>4, <2>1, <2>2, SMT
<1>11. era = era2 /\ year = year2
  BY <1>3, <1>4, <1>10, SMT
<1>12. a + 719468 = b + 719468
  BY <1>1, <1>2, <1>9, <1>11, SMT DEF Dated
<1> QED
  BY <1>12, SMT

\* The month and the day of a date are written with two figures.
LEMMA CivilIsTyped ==
  ASSUME NEW a \in Int
  PROVE  civil(a)[1] \in Int /\ civil(a)[2] \in 1..12 /\ civil(a)[3] \in 1..31
         /\ civil(a) = <<civil(a)[1], civil(a)[2], civil(a)[3]>>
<1>1. PICK era, year, day, month :
        Dated(a, era, year, day, month) /\ civil(a) = CivilOf(era, year, day, month)
  BY CivilIs, SMT
<1>2. era \in Int /\ year \in 0..399 /\ month \in 0..11 /\ day - (153 * month + 2) \div 5 + 1 \in 1..31
  BY <1>1, SMT DEF Dated
<1> DEFINE z == day - (153 * month + 2) \div 5 + 1
           m == IF month < 10 THEN month + 3 ELSE month - 9
           y == year + era * 400 + (IF m <= 2 THEN 1 ELSE 0)
<1>3. civil(a) = <<y, m, z>>
  BY <1>1, SMT DEF CivilOf
<1>4. m \in 1..12
  BY <1>2, SMT
<1>5. y \in Int
  BY <1>2, SMT
<1> HIDE DEF y, m, z
<1>6. z \in 1..31
  BY <1>2, SMT DEF z
<1> QED
  BY <1>3, <1>4, <1>5, <1>6, SMT

\* A string that begins with a character.
LEMMA Led ==
  ASSUME NEW S, NEW c \in S, NEW s \in Seq(S)
  PROVE  <<c>> \o s \in Seq(S) /\ (<<c>> \o s)[1] = c /\ <<c>> \in Seq(S)
<1> DEFINE x == <<c>>
<1>1. x \in Seq(S)
  OBVIOUS
<1>2. Len(x) = 1 /\ x[1] = c
  OBVIOUS
<1> HIDE DEF x
<1>3. x \o s \in Seq(S) /\ \A i \in 1..Len(x) : (x \o s)[i] = x[i]
  BY <1>1, TwoParts
<1>4. (x \o s)[1] = c
  <2>1. 1 \in 1..Len(x)
    BY <1>2
  <2> QED
    BY <1>2, <1>3, <2>1
<1> QED
  BY <1>1, <1>3, <1>4 DEF x

\* What a date consists of.
DateChars == FigureChars \cup {"-"}

LEMMA YearIs ==
  ASSUME NEW y \in Int
  PROVE  /\ Year(y) \in Seq(DateChars)
         /\ y < 0 => -y \in Nat /\ Year(y) = <<"-">> \o Padded(-y, 3) /\ Padded(-y, 3) \in Seq(DateChars) /\ Year(y)[1] = "-"
         /\ y >= 0 => Year(y) = Padded(y, 4) /\ Year(y)[1] # "-"
<1>0. FigureChars \subseteq DateChars /\ "-" \in DateChars
  BY DEF DateChars
<1>1. CASE y < 0
  <2>1. -y \in Nat /\ Year(y) = <<"-">> \o Padded(-y, 3)
    BY <1>1 DEF Year
  <2>2. Padded(-y, 3) \in Seq(FigureChars)
    BY <2>1, PaddedIs
  <2>3. Padded(-y, 3) \in Seq(DateChars)
    BY <1>0, <2>2, Wider
  <2> DEFINE p == Padded(-y, 3)
  <2>4. p \in Seq(DateChars)
    BY <2>3
  <2> HIDE DEF p
  <2>5. <<"-">> \o p \in Seq(DateChars) /\ (<<"-">> \o p)[1] = "-"
    BY <1>0, <2>4, Led
  <2> QED
    BY <1>1, <2>1, <2>3, <2>5 DEF p
<1>2. CASE y >= 0
  <2>1. y \in Nat /\ Year(y) = Padded(y, 4)
    BY <1>2 DEF Year
  <2> DEFINE zeros == Larger(0, 4 - Figures(y))
             p == Padded(y, 4)
  <2>2. p \in Seq(FigureChars)
    BY <2>1, PaddedIs
  <2>3. Len(p) = zeros + Figures(y) /\ zeros \in Nat
    BY <2>1, PaddedIs
  <2>4. Figures(y) \in Nat /\ Figures(y) >= 1
    BY <2>1, SomeFigures
  <2> HIDE DEF p, zeros
  <2>5. p \in Seq(DateChars)
    BY <1>0, <2>2, Wider
  <2>6. 1 \in 1..Len(p)
    BY <2>3, <2>4
  <2>7. p[1] \in FigureChars
    BY <2>2, <2>6
  <2>8. p[1] # "-"
    BY <2>7 DEF FigureChars
  <2> QED
    BY <1>2, <2>1, <2>5, <2>8 DEF p
<1> QED
  BY <1>1, <1>2

LEMMA YearApart ==
  ASSUME NEW y \in Int, NEW z \in Int, Year(y) = Year(z)
  PROVE  y = z
<1>1. CASE y < 0 /\ z < 0
  <2> DEFINE p == Padded(-y, 3)
             q == Padded(-z, 3)
             S == DateChars
  <2>1. -y \in Nat /\ Year(y) = <<"-">> \o p /\ p \in Seq(S)
    BY <1>1, YearIs
  <2>2. -z \in Nat /\ Year(z) = <<"-">> \o q /\ q \in Seq(S)
    BY <1>1, YearIs
  <2>3. <<"-">> \in Seq(S)
    BY DEF DateChars
  <2>4. TwoWays(S, <<"-">>, p, <<"-">>, q)
    BY <2>1, <2>2, <2>3 DEF TwoWays
  <2> HIDE DEF S, p, q
  <2>5. p = q
    BY <2>4, CutByLength
  <2>6. -y = -z
    BY <2>1, <2>2, <2>5, PaddedApart DEF p, q
  <2> QED
    BY <2>6
<1>2. CASE y >= 0 /\ z >= 0
  <2>1. Padded(y, 4) = Padded(z, 4) /\ y \in Nat /\ z \in Nat
    BY <1>2, YearIs
  <2> QED
    BY <2>1, PaddedApart
<1>3. CASE y < 0 /\ z >= 0
  <2>1. Year(y)[1] = "-"
    BY <1>3, YearIs
  <2>2. Year(z)[1] # "-"
    BY <1>3, YearIs
  <2> QED
    BY <2>1, <2>2
<1>4. CASE y >= 0 /\ z < 0
  <2>1. Year(z)[1] = "-"
    BY <1>4, YearIs
  <2>2. Year(y)[1] # "-"
    BY <1>4, YearIs
  <2> QED
    BY <2>1, <2>2
<1> QED
  BY <1>1, <1>2, <1>3, <1>4

\* Three parts with a mark between them, the last two of two characters: the
\* date of a year, the time of an hour.
InThree(m, x, a, b) == x \o <<m>> \o a \o <<m>> \o b

LEMMA InThreeIs ==
  ASSUME NEW S, NEW m \in S, NEW x \in Seq(S), NEW a \in Seq(S), NEW b \in Seq(S)
  PROVE  InThree(m, x, a, b) \in Seq(S) /\ Len(InThree(m, x, a, b)) = Len(x) + 1 + Len(a) + 1 + Len(b)
<1> DEFINE y == x \o <<m>> \o a
           z == y \o <<m>> \o b
<1>1. y \in Seq(S)
  BY Marked
<1>2. Len(y) = Len(x) + 1 + Len(a)
  BY Marked
<1> HIDE DEF y
<1>3. z \in Seq(S)
  BY <1>1, Marked
<1>4. Len(z) = Len(y) + 1 + Len(b)
  BY <1>1, Marked
<1> HIDE DEF z
<1>5. Len(z) = Len(x) + 1 + Len(a) + 1 + Len(b)
  BY <1>2, <1>4
<1> QED
  BY <1>3, <1>5 DEF InThree, z, y

LEMMA InThreeApart ==
  ASSUME NEW S, NEW m \in S,
         NEW x \in Seq(S), NEW a \in Seq(S), NEW b \in Seq(S), Len(a) = 2, Len(b) = 2,
         NEW y \in Seq(S), NEW c \in Seq(S), NEW d \in Seq(S), Len(c) = 2, Len(d) = 2,
         InThree(m, x, a, b) = InThree(m, y, c, d)
  PROVE  x = y /\ a = c /\ b = d
<1> DEFINE xm == x \o <<m>>
           xma == xm \o a
           xmam == xma \o <<m>>
           ym == y \o <<m>>
           ymc == ym \o c
           ymcm == ymc \o <<m>>
<1>1. <<m>> \in Seq(S)
  OBVIOUS
<1>2. xm \in Seq(S) /\ ym \in Seq(S)
  BY <1>1
<1> HIDE DEF xm, ym
<1>3. xma \in Seq(S) /\ ymc \in Seq(S)
  BY <1>2
<1> HIDE DEF xma, ymc
<1>4. xmam \in Seq(S) /\ ymcm \in Seq(S)
  BY <1>1, <1>3
<1> HIDE DEF xmam, ymcm
<1>5. xmam \o b = ymcm \o d
  BY DEF InThree, xmam, xma, xm, ymcm, ymc, ym
<1>6. TwoWays(S, xmam, b, ymcm, d)
  BY <1>4, <1>5 DEF TwoWays
<1>7. xmam = ymcm /\ b = d
  BY <1>6, CutByLength
<1>8. TwoWays(S, xma, <<m>>, ymc, <<m>>)
  BY <1>1, <1>3, <1>7 DEF TwoWays, xmam, ymcm
<1>9. xma = ymc
  BY <1>8, CutByLength
<1>10. TwoWays(S, xm, a, ym, c)
  BY <1>2, <1>9 DEF TwoWays, xma, ymc
<1>11. xm = ym /\ a = c
  BY <1>10, CutByLength
<1>12. TwoWays(S, x, <<m>>, y, <<m>>)
  BY <1>1, <1>11 DEF TwoWays, xm, ym
<1>13. x = y
  BY <1>12, CutByLength
<1> QED
  BY <1>7, <1>11, <1>13

LEMMA DateIs ==
  ASSUME NEW days \in Int
  PROVE  /\ date(days) \in Seq(DateChars)
         /\ \E y \in Int, m \in 1..12, d \in 1..31 :
              /\ civil(days) = <<y, m, d>>
              /\ date(days) = InThree("-", Year(y), Padded(m, 2), Padded(d, 2))
              /\ Year(y) \in Seq(DateChars)
              /\ Padded(m, 2) \in Seq(DateChars) /\ Len(Padded(m, 2)) = 2
              /\ Padded(d, 2) \in Seq(DateChars) /\ Len(Padded(d, 2)) = 2
<1> DEFINE y == civil(days)[1]
           m == civil(days)[2]
           d == civil(days)[3]
<1>1. y \in Int /\ m \in 1..12 /\ d \in 1..31 /\ civil(days) = <<y, m, d>>
  BY CivilIsTyped
<1>2. date(days) = InThree("-", Year(y), Padded(m, 2), Padded(d, 2))
  BY DEF date, InThree
<1> HIDE DEF y, m, d
<1>3. m \in Nat /\ m < 100 /\ d \in Nat /\ d < 100
  BY <1>1
<1> DEFINE S == DateChars
<1>4. FigureChars \subseteq S /\ "-" \in S
  BY DEF DateChars
<1> DEFINE a == Padded(m, 2)
           b == Padded(d, 2)
           x == Year(y)
<1>5. a \in Seq(FigureChars) /\ Len(a) = 2
  BY <1>3, TwoFigures
<1>6. b \in Seq(FigureChars) /\ Len(b) = 2
  BY <1>3, TwoFigures
<1>7. x \in Seq(S)
  BY <1>1, YearIs
<1> HIDE DEF a, b, x, S
<1>8. a \in Seq(S)
  BY <1>4, <1>5, Wider
<1>9. b \in Seq(S)
  BY <1>4, <1>6, Wider
<1>10. InThree("-", x, a, b) \in Seq(S)
  BY <1>4, <1>7, <1>8, <1>9, InThreeIs
<1>11. date(days) \in Seq(S)
  BY <1>2, <1>10 DEF a, b, x
<1>12. /\ Year(y) \in Seq(S) /\ Padded(m, 2) \in Seq(S) /\ Len(Padded(m, 2)) = 2
       /\ Padded(d, 2) \in Seq(S) /\ Len(Padded(d, 2)) = 2
  BY <1>5, <1>6, <1>7, <1>8, <1>9 DEF a, b, x
<1> QED
  BY <1>1, <1>2, <1>11, <1>12 DEF S

\* date: no two days are written alike.
LEMMA DateApart ==
  ASSUME NEW days \in Int, NEW others \in Int, date(days) = date(others)
  PROVE  days = others
<1>1. PICK y \in Int, m \in 1..12, d \in 1..31 :
              /\ civil(days) = <<y, m, d>>
              /\ date(days) = InThree("-", Year(y), Padded(m, 2), Padded(d, 2))
              /\ Year(y) \in Seq(DateChars)
              /\ Padded(m, 2) \in Seq(DateChars) /\ Len(Padded(m, 2)) = 2
              /\ Padded(d, 2) \in Seq(DateChars) /\ Len(Padded(d, 2)) = 2
  BY DateIs
<1>2. PICK y2 \in Int, m2 \in 1..12, d2 \in 1..31 :
              /\ civil(others) = <<y2, m2, d2>>
              /\ date(others) = InThree("-", Year(y2), Padded(m2, 2), Padded(d2, 2))
              /\ Year(y2) \in Seq(DateChars)
              /\ Padded(m2, 2) \in Seq(DateChars) /\ Len(Padded(m2, 2)) = 2
              /\ Padded(d2, 2) \in Seq(DateChars) /\ Len(Padded(d2, 2)) = 2
  BY DateIs
<1> DEFINE x == Year(y)
           a == Padded(m, 2)
           b == Padded(d, 2)
           x2 == Year(y2)
           a2 == Padded(m2, 2)
           b2 == Padded(d2, 2)
           S == DateChars
<1>3. InThree("-", x, a, b) = InThree("-", x2, a2, b2)
  BY <1>1, <1>2
<1>4. "-" \in S
  BY DEF DateChars
<1>5. x \in Seq(S) /\ a \in Seq(S) /\ b \in Seq(S) /\ x2 \in Seq(S) /\ a2 \in Seq(S) /\ b2 \in Seq(S)
  BY <1>1, <1>2
<1>6. Len(a) = 2 /\ Len(b) = 2 /\ Len(a2) = 2 /\ Len(b2) = 2
  BY <1>1, <1>2
<1> HIDE DEF x, a, b, x2, a2, b2, S
<1>7. x = x2 /\ a = a2 /\ b = b2
  BY <1>3, <1>4, <1>5, <1>6, InThreeApart
<1>8. y = y2
  BY <1>7, YearApart DEF x, x2
<1>9. m = m2
  <2>1. m \in Nat /\ m2 \in Nat
    OBVIOUS
  <2> QED
    BY <1>7, <2>1, PaddedApart DEF a, a2
<1>10. d = d2
  <2>1. d \in Nat /\ d2 \in Nat
    OBVIOUS
  <2> QED
    BY <1>7, <2>1, PaddedApart DEF b, b2
<1>11. civil(days) = civil(others)
  BY <1>1, <1>2, <1>8, <1>9, <1>10
<1> QED
  BY <1>11, CivilApart

\* trim_end_matches: what is left of figures without the zeros at their end.
LEMMA TrimmedIs ==
  ASSUME NEW S, NEW s \in Seq(S)
  PROVE  /\ Trimmed(s) \in Seq(S) /\ Len(Trimmed(s)) \in 0..Len(s)
         /\ \A i \in 1..Len(Trimmed(s)) : Trimmed(s)[i] = s[i]
         /\ \A i \in 1..Len(s) : i > Len(Trimmed(s)) => s[i] = "0"
<1> DEFINE n == Len(s)
           EndsAt(k) == (k = 0 \/ s[k] # "0") /\ \A j \in (k + 1)..n : s[j] = "0"
           last == CHOOSE k \in 0..n : EndsAt(k)
<1>0. n \in Nat /\ \A i \in 1..n : s[i] \in S
  OBVIOUS
<1> DEFINE Gone == {d \in 0..n : d = n \/ s[n - d] # "0"}
<1>1. Gone \subseteq Nat /\ Gone # {}
  BY <1>0
<1>2. PICK d \in Gone : \A x \in Gone : d <= x
  BY <1>1, LeastMember
<1>3. EndsAt(n - d) /\ n - d \in 0..n
  <2>1. d \in 0..n /\ (d = n \/ s[n - d] # "0")
    OBVIOUS
  <2>2. n - d \in 0..n /\ (n - d = 0 \/ s[n - d] # "0")
    BY <1>0, <2>1
  <2>3. ASSUME NEW j \in (n - d + 1)..n, s[j] # "0"
        PROVE  FALSE
    <3>1. n - j \in 0..n /\ n - (n - j) = j /\ n - j < d
      BY <1>0, <2>1
    <3>2. n - j \in Gone
      BY <2>3, <3>1
    <3> QED
      BY <1>2, <2>1, <3>1, <3>2
  <2> QED
    BY <2>2, <2>3
<1>4. last \in 0..n /\ EndsAt(last)
  <2> HIDE DEF EndsAt
  <2>1. \E k \in 0..n : EndsAt(k)
    BY <1>3
  <2> QED
    BY <2>1
<1>5. Trimmed(s) = SubSeq(s, 1, Larger(0, last))
  BY DEF Trimmed
<1> HIDE DEF last, Gone, n
<1>6. Larger(0, last) = last /\ last \in Int /\ last \in Nat
  BY <1>0, <1>4 DEF Larger
<1>7. \A i \in 1..last : s[i] \in S
  BY <1>0, <1>4
<1> DEFINE t == SubSeq(s, 1, last)
<1>8. t \in Seq(S) /\ Len(t) = (IF 1 <= last THEN last - 1 + 1 ELSE 0)
      /\ \A i \in 1..(last - 1 + 1) : t[i] = s[1 + i - 1]
  BY <1>6, <1>7, SubSeqProperties
<1> HIDE DEF t
<1>9. Len(t) = last
  BY <1>6, <1>8
<1>10. \A i \in 1..last : t[i] = s[i]
  <2> TAKE i \in 1..last
  <2>1. i \in 1..(last - 1 + 1) /\ 1 + i - 1 = i
    BY <1>6
  <2> QED
    BY <1>8, <2>1
<1>11. \A i \in 1..n : i > last => s[i] = "0"
  BY <1>0, <1>4, <1>6
<1>12. Trimmed(s) = t
  BY <1>5, <1>6 DEF t
<1> QED
  BY <1>4, <1>8, <1>9, <1>10, <1>11, <1>12 DEF n

\* The fraction as it is put behind a whole.
Behind(fraction) == IF Trimmed(fraction) = <<>> THEN <<>> ELSE <<".">> \o Trimmed(fraction)

LEMMA PointedIs ==
  ASSUME NEW S, "." \in S, NEW w \in Seq(S), NEW f \in Seq(S)
  PROVE  /\ Pointed(w, f) = w \o Behind(f) /\ Behind(f) \in Seq(S) /\ Pointed(w, f) \in Seq(S)
<1>1. Trimmed(f) \in Seq(S)
  BY TrimmedIs
<1>2. Behind(f) \in Seq(S)
  <2> DEFINE t == Trimmed(f)
  <2>1. t \in Seq(S)
    BY <1>1
  <2> HIDE DEF t
  <2>2. <<".">> \o t \in Seq(S)
    BY <2>1, Led
  <2>3. <<>> \in Seq(S)
    BY EmptySeq
  <2> QED
    BY <2>2, <2>3 DEF Behind, t
<1>3. Pointed(w, f) = w \o Behind(f)
  BY DEF Pointed, Behind
<1> DEFINE b == Behind(f)
<1>4. b \in Seq(S)
  BY <1>2
<1> HIDE DEF b
<1>5. w \o b \in Seq(S)
  BY <1>4
<1> QED
  BY <1>2, <1>3, <1>5 DEF b

LEMMA PointedApart ==
  ASSUME NEW S, "." \in S, NEW w \in Seq(S), NEW f \in Seq(S), NEW x \in Seq(S), NEW g \in Seq(S),
         Len(w) = Len(x), Len(f) = Len(g), Pointed(w, f) = Pointed(x, g)
  PROVE  w = x /\ f = g
<1> DEFINE b == Behind(f)
           c == Behind(g)
<1>1. b \in Seq(S) /\ Pointed(w, f) = w \o b
  BY PointedIs
<1>2. c \in Seq(S) /\ Pointed(x, g) = x \o c
  BY PointedIs
<1> HIDE DEF b, c
<1>3. TwoWays(S, w, b, x, c)
  BY <1>1, <1>2 DEF TwoWays
<1>4. w = x /\ b = c
  BY <1>3, CutByLength
<1> DEFINE t == Trimmed(f)
           u == Trimmed(g)
<1>5. t \in Seq(S) /\ Len(t) \in 0..Len(f)
      /\ (\A i \in 1..Len(t) : t[i] = f[i]) /\ \A i \in 1..Len(f) : i > Len(t) => f[i] = "0"
  BY TrimmedIs
<1>6. u \in Seq(S) /\ Len(u) \in 0..Len(g)
      /\ (\A i \in 1..Len(u) : u[i] = g[i]) /\ \A i \in 1..Len(g) : i > Len(u) => g[i] = "0"
  BY TrimmedIs
<1>7. /\ b = IF t = <<>> THEN <<>> ELSE <<".">> \o t
      /\ c = IF u = <<>> THEN <<>> ELSE <<".">> \o u
  BY DEF b, c, Behind
<1> HIDE DEF t, u
<1>8. t = u
  <2>1. t \in Seq(S) /\ u \in Seq(S)
    BY <1>5, <1>6
  <2>2. <<".">> \o t # <<>> /\ <<".">> \o u # <<>>
    <3>1. (<<".">> \o t) \in Seq(S) /\ Len(<<".">> \o t) = 1 + Len(t) /\ Len(t) \in Nat
      BY <2>1
    <3>2. (<<".">> \o u) \in Seq(S) /\ Len(<<".">> \o u) = 1 + Len(u) /\ Len(u) \in Nat
      BY <2>1
    <3>3. Len(<<>>) = 0
      OBVIOUS
    <3>4. Len(<<".">> \o t) # 0 /\ Len(<<".">> \o u) # 0
      BY <3>1, <3>2
    <3> QED
      BY <3>3, <3>4, Zenon
  <2>3. CASE t = <<>> \/ u = <<>>
    BY <1>4, <1>7, <2>2, <2>3
  <2>4. CASE t # <<>> /\ u # <<>>
    <3>1. <<".">> \o t = <<".">> \o u
      BY <1>4, <1>7, <2>4
    <3>2. <<".">> \in Seq(S)
      OBVIOUS
    <3>3. TwoWays(S, <<".">>, t, <<".">>, u)
      BY <2>1, <3>1, <3>2 DEF TwoWays
    <3> QED
      BY <3>3, CutByLength
  <2> QED
    BY <2>3, <2>4
<1>9. \A i \in 1..Len(f) : f[i] = g[i]
  <2> TAKE i \in 1..Len(f)
  <2>1. CASE i > Len(t)
    <3>1. i \in 1..Len(g) /\ i > Len(u)
      BY <1>8, <2>1
    <3> QED
      BY <1>5, <1>6, <2>1, <3>1
  <2>2. CASE ~(i > Len(t))
    <3>1. i \in 1..Len(t)
      BY <1>5, <2>2
    <3> QED
      BY <1>5, <1>6, <1>8, <3>1
  <2> QED
    BY <2>1, <2>2
<1>10. f = g
  BY <1>9, SeqEqual
<1> QED
  BY <1>4, <1>10

\* A time, whose fraction is counted in microseconds.
Fractions == {x \in Nat : x < 1000000}
Times == [seconds : Int, micros : Fractions]
SecondOfDay(time) == time.seconds % 86400

\* The hour, the minute and the second of a time of day.
OnClock(time, h, m, s) ==
  /\ h \in 0..23 /\ m \in 0..59 /\ s \in 0..59 /\ SecondOfDay(time) = 3600 * h + 60 * m + s
  /\ clock(time) = Pointed(InThree(":", Padded(h, 2), Padded(m, 2), Padded(s, 2)), Padded(time.micros, 6))

LEMMA ClockIs ==
  ASSUME NEW time \in Times
  PROVE  \E h, m, s : OnClock(time, h, m, s)
<1> DEFINE second == SecondOfDay(time)
           h == second \div 3600
           m == (second \div 60) % 60
           s == second % 60
<1>1. second \in Int /\ 0 <= second /\ second < 86400
  <2>1. time.seconds \in Int
    BY DEF Times
  <2> QED
    BY <2>1, SMT DEF SecondOfDay
<1>2. clock(time) = Pointed(InThree(":", Padded(h, 2), Padded(m, 2), Padded(s, 2)), Padded(time.micros, 6))
  BY SMT DEF clock, InThree, SecondOfDay
<1> HIDE DEF second
<1>3. h \in 0..23 /\ m \in 0..59 /\ s \in 0..59 /\ second = 3600 * h + 60 * m + s
  <2>1. h \in Int /\ 0 <= h /\ h < 24
    BY <1>1, SMT
  <2> DEFINE z == second \div 60
  <2>2. z \in Int /\ s \in 0..59 /\ second = 60 * z + s
    BY <1>1, SMT
  <2>4. h = z \div 60
    BY <1>1, SMT
  <2> HIDE DEF z, s
  <2>3. m \in 0..59 /\ z = 60 * (z \div 60) + m
    BY <2>2, SMT DEF z
  <2> HIDE DEF m, h
  <2> QED
    BY <2>1, <2>2, <2>3, <2>4, SMT
<1> HIDE DEF h, m, s
<1>4. OnClock(time, h, m, s)
  BY <1>2, <1>3, SMT DEF OnClock, second
<1> QED
  BY <1>4

\* The whole seconds and the fraction of what is on a clock.
LEMMA OnClockIs ==
  ASSUME NEW time \in Times, NEW h, NEW m, NEW s, OnClock(time, h, m, s)
  PROVE  /\ h \in Nat /\ h < 100 /\ m \in Nat /\ m < 100 /\ s \in Nat /\ s < 100
         /\ SecondOfDay(time) = 3600 * h + 60 * m + s
         /\ clock(time) = Pointed(InThree(":", Padded(h, 2), Padded(m, 2), Padded(s, 2)), Padded(time.micros, 6))
BY SMT DEF OnClock

LEMMA FractionIs ==
  ASSUME NEW time \in Times
  PROVE  time.micros \in Nat /\ Padded(time.micros, 6) \in Seq(FigureChars) /\ Len(Padded(time.micros, 6)) = 6
<1>1. time.micros \in Fractions
  BY DEF Times
<1>2. time.micros \in Nat /\ time.micros < 1000000
  BY <1>1, SMT DEF Fractions
<1> QED
  BY <1>2, SixFigures, SMT

\* The parts of what is on a clock, as they are written.
LEMMA ClockParts ==
  ASSUME NEW time \in Times
  PROVE  \E h, m, s, w, f :
           /\ OnClock(time, h, m, s) /\ f = Padded(time.micros, 6)
           /\ w = InThree(":", Padded(h, 2), Padded(m, 2), Padded(s, 2))
           /\ clock(time) = Pointed(w, f) /\ w \in Seq(Bare) /\ f \in Seq(Bare) /\ Len(w) = 8 /\ Len(f) = 6
           /\ Padded(h, 2) \in Seq(Bare) /\ Padded(m, 2) \in Seq(Bare) /\ Padded(s, 2) \in Seq(Bare)
           /\ Len(Padded(h, 2)) = 2 /\ Len(Padded(m, 2)) = 2 /\ Len(Padded(s, 2)) = 2
<1>1. PICK h, m, s : OnClock(time, h, m, s)
  BY ClockIs
<1>2. h \in Nat /\ h < 100 /\ m \in Nat /\ m < 100 /\ s \in Nat /\ s < 100
  BY <1>1, OnClockIs
<1> DEFINE x == Padded(h, 2)
           a == Padded(m, 2)
           b == Padded(s, 2)
           f == Padded(time.micros, 6)
           w == InThree(":", x, a, b)
<1>3. x \in Seq(FigureChars) /\ Len(x) = 2
  BY <1>2, TwoFigures
<1>4. a \in Seq(FigureChars) /\ Len(a) = 2
  BY <1>2, TwoFigures
<1>5. b \in Seq(FigureChars) /\ Len(b) = 2
  BY <1>2, TwoFigures
<1>6. f \in Seq(FigureChars) /\ Len(f) = 6
  BY FractionIs
<1>7. clock(time) = Pointed(w, f)
  BY <1>1, OnClockIs
<1>8. FigureChars \subseteq Bare /\ ":" \in Bare
  BY BareIs
<1> HIDE DEF x, a, b, f
<1>9. x \in Seq(Bare) /\ a \in Seq(Bare) /\ b \in Seq(Bare) /\ f \in Seq(Bare)
  BY <1>3, <1>4, <1>5, <1>6, <1>8, Wider
<1>10. w \in Seq(Bare) /\ Len(w) = Len(x) + 1 + Len(a) + 1 + Len(b)
  BY <1>8, <1>9, InThreeIs
<1>11. Len(w) = 8
  <2> HIDE DEF w
  <2> QED
    BY <1>3, <1>4, <1>5, <1>10
<1> QED
  BY <1>1, <1>3, <1>4, <1>5, <1>6, <1>7, <1>9, <1>10, <1>11 DEF x, a, b, f

LEMMA ClockIsBare ==
  ASSUME NEW time \in Times
  PROVE  clock(time) \in Seq(Bare)
<1>1. PICK w, f : clock(time) = Pointed(w, f) /\ w \in Seq(Bare) /\ f \in Seq(Bare)
  BY ClockParts
<1>2. "." \in Bare
  BY BareIs
<1> QED
  BY <1>1, <1>2, PointedIs

\* clock: no two times of a day are written alike.
LEMMA ClockApart ==
  ASSUME NEW time \in Times, NEW other \in Times, clock(time) = clock(other)
  PROVE  SecondOfDay(time) = SecondOfDay(other) /\ time.micros = other.micros
<1>1. PICK h, m, s, w, f :
           /\ OnClock(time, h, m, s) /\ f = Padded(time.micros, 6)
           /\ w = InThree(":", Padded(h, 2), Padded(m, 2), Padded(s, 2))
           /\ clock(time) = Pointed(w, f) /\ w \in Seq(Bare) /\ f \in Seq(Bare) /\ Len(w) = 8 /\ Len(f) = 6
           /\ Padded(h, 2) \in Seq(Bare) /\ Padded(m, 2) \in Seq(Bare) /\ Padded(s, 2) \in Seq(Bare)
           /\ Len(Padded(h, 2)) = 2 /\ Len(Padded(m, 2)) = 2 /\ Len(Padded(s, 2)) = 2
  BY ClockParts
<1>2. PICK i, n, t, x, g :
           /\ OnClock(other, i, n, t) /\ g = Padded(other.micros, 6)
           /\ x = InThree(":", Padded(i, 2), Padded(n, 2), Padded(t, 2))
           /\ clock(other) = Pointed(x, g) /\ x \in Seq(Bare) /\ g \in Seq(Bare) /\ Len(x) = 8 /\ Len(g) = 6
           /\ Padded(i, 2) \in Seq(Bare) /\ Padded(n, 2) \in Seq(Bare) /\ Padded(t, 2) \in Seq(Bare)
           /\ Len(Padded(i, 2)) = 2 /\ Len(Padded(n, 2)) = 2 /\ Len(Padded(t, 2)) = 2
  BY ClockParts
<1>3. "." \in Bare /\ ":" \in Bare
  BY BareIs
<1>4. w = x /\ f = g
  <2>1. Pointed(w, f) = Pointed(x, g)
    BY <1>1, <1>2
  <2>2. w \in Seq(Bare) /\ f \in Seq(Bare) /\ x \in Seq(Bare) /\ g \in Seq(Bare)
    BY <1>1, <1>2
  <2>3. Len(w) = Len(x) /\ Len(f) = Len(g)
    BY <1>1, <1>2
  <2> QED
    BY <1>3, <2>1, <2>2, <2>3, PointedApart
<1>5. time.micros \in Nat /\ other.micros \in Nat
  BY FractionIs
<1>6. time.micros = other.micros
  <2> DEFINE j == time.micros
             k == other.micros
  <2>1. j \in Nat /\ k \in Nat /\ Padded(j, 6) = Padded(k, 6)
    BY <1>1, <1>2, <1>4, <1>5
  <2> HIDE DEF j, k
  <2>2. j = k
    BY <2>1, PaddedApart
  <2> QED
    BY <2>2 DEF j, k
<1>7. h \in Nat /\ m \in Nat /\ s \in Nat /\ SecondOfDay(time) = 3600 * h + 60 * m + s
  BY <1>1, OnClockIs
<1>8. i \in Nat /\ n \in Nat /\ t \in Nat /\ SecondOfDay(other) = 3600 * i + 60 * n + t
  BY <1>2, OnClockIs
<1> DEFINE x1 == Padded(h, 2)
           a1 == Padded(m, 2)
           b1 == Padded(s, 2)
           x2 == Padded(i, 2)
           a2 == Padded(n, 2)
           b2 == Padded(t, 2)
<1>9. InThree(":", x1, a1, b1) = InThree(":", x2, a2, b2)
  BY <1>1, <1>2, <1>4
<1>10. x1 \in Seq(Bare) /\ a1 \in Seq(Bare) /\ b1 \in Seq(Bare) /\ x2 \in Seq(Bare) /\ a2 \in Seq(Bare) /\ b2 \in Seq(Bare)
  BY <1>1, <1>2
<1>11. Len(a1) = 2 /\ Len(b1) = 2 /\ Len(a2) = 2 /\ Len(b2) = 2
  BY <1>1, <1>2
<1> HIDE DEF x1, a1, b1, x2, a2, b2
<1>12. x1 = x2 /\ a1 = a2 /\ b1 = b2
  BY <1>3, <1>9, <1>10, <1>11, InThreeApart
<1>13. h = i
  BY <1>7, <1>8, <1>12, PaddedApart DEF x1, x2
<1>14. m = n
  BY <1>7, <1>8, <1>12, PaddedApart DEF a1, a2
<1>15. s = t
  BY <1>7, <1>8, <1>12, PaddedApart DEF b1, b2
<1> QED
  BY <1>6, <1>7, <1>8, <1>13, <1>14, <1>15

-----------------------------------------------------------------------------
(* Floats.                                                                  *)

LEMMA TensArePositive == \A k \in Nat : Tens[k] \in Nat /\ Tens[k] > 0
<1> DEFINE T(n) == {k \in 0..n : Tens[k] > 0}
<1>1. Tens \in [Nat -> Nat] /\ \A k \in Nat : Tens[k] = IF k = 0 THEN 1 ELSE 10 * Tens[k - 1]
  BY TensIs
<1>2. ASSUME NEW n \in Nat
      PROVE  Tens[n] \in Nat /\ Tens[n] > 0
  <2>1. 0 \in T(n)
    BY <1>1
  <2>2. ASSUME NEW i \in 0..(n - 1), i \in T(n)
        PROVE  i + 1 \in T(n)
    <3>1. i + 1 \in 0..n /\ i + 1 \in Nat /\ i + 1 # 0 /\ (i + 1) - 1 = i /\ i \in Nat
      OBVIOUS
    <3>2. Tens[i + 1] = 10 * Tens[i] /\ Tens[i] \in Nat /\ Tens[i] > 0
      BY <1>1, <2>2, <3>1
    <3> QED
      BY <3>1, <3>2
  <2> HIDE DEF T
  <2>3. 0..n \subseteq T(n)
    BY <2>1, <2>2, UpTo
  <2>4. n \in T(n)
    BY <2>3
  <2> QED
    BY <1>1, <2>4 DEF T
<1> QED
  BY <1>2

LEMMA RoundedIs ==
  ASSUME NEW n \in Nat, NEW fewer \in Nat
  PROVE  Rounded(n, fewer) \in Nat
<1> DEFINE t == Tens[fewer]
<1>1. t \in Nat /\ t > 0
  BY TensArePositive
<1>2. Rounded(n, fewer) = (n + t \div 2) \div t
  BY DEF Rounded
<1> HIDE DEF t
<1>3. n + t \div 2 \in Nat
  BY <1>1
<1> QED
  BY <1>1, <1>2, <1>3

LEMMA SignificantIs ==
  ASSUME NEW m \in Nat, NEW x \in Int
  PROVE  round_to_significant(m, x).mantissa \in Nat /\ round_to_significant(m, x).power \in Int
<1> DEFINE fewer == Larger(0, Figures(m) - FloatDigits)
<1>1. fewer \in Nat
  BY SomeFigures DEF Larger, FloatDigits
<1>2. round_to_significant(m, x) = [mantissa |-> Rounded(m, fewer), power |-> x + fewer]
  BY DEF round_to_significant, Decimal
<1> HIDE DEF fewer
<1>3. Rounded(m, fewer) \in Nat
  BY <1>1, RoundedIs
<1> QED
  BY <1>1, <1>2, <1>3

LEMMA DigitsAreBare ==
  ASSUME NEW n \in Nat
  PROVE  Digits[n] \in Seq(Bare) /\ Len(Digits[n]) >= 1
<1>1. Digits[n] \in Seq(FigureChars) /\ Len(Digits[n]) >= 1
  BY SomeFigures
<1> QED
  BY <1>1, BareIs, Wider

LEMMA PaddedIsBare ==
  ASSUME NEW n \in Nat, NEW w \in Nat
  PROVE  Padded(n, w) \in Seq(Bare)
<1>1. Padded(n, w) \in Seq(FigureChars)
  BY PaddedIs
<1> QED
  BY <1>1, BareIs, Wider

LEMMA PlainIsBare ==
  ASSUME NEW kept, kept.mantissa \in Nat, kept.power \in Int, NEW places \in Nat
  PROVE  Plain(kept, places) \in Seq(Bare)
<1> DEFINE short == Larger(0, -kept.power - places)
           m == Rounded(kept.mantissa, short)
           x == kept.power + short
<1>1. short \in Nat /\ x \in Int
  BY DEF Larger
<1>2. Plain(kept, places) = IF x >= 0 THEN Digits[m] \o [i \in 1..x |-> "0"]
                            ELSE Pointed(Digits[m \div Tens[-x]], Padded(m % Tens[-x], -x))
  BY DEF Plain
<1> HIDE DEF short, x
<1>3. m \in Nat
  BY <1>1, RoundedIs
<1> HIDE DEF m
<1>4. "0" \in Bare /\ "." \in Bare
  BY BareIs DEF FigureChars
<1>5. CASE x >= 0
  <2> DEFINE d == Digits[m]
             z == [i \in 1..x |-> "0"]
  <2>1. d \in Seq(Bare)
    BY <1>3, DigitsAreBare
  <2>2. z \in Seq(Bare)
    BY <1>1, <1>4, <1>5
  <2> HIDE DEF d, z
  <2>3. d \o z \in Seq(Bare)
    BY <2>1, <2>2
  <2> QED
    BY <1>2, <1>5, <2>3 DEF d, z
<1>6. CASE ~(x >= 0)
  <2> DEFINE t == Tens[-x]
             w == Digits[m \div t]
             f == Padded(m % t, -x)
  <2>1. -x \in Nat
    BY <1>1, <1>6
  <2>2. t \in Nat /\ t > 0
    BY <2>1, TensArePositive
  <2> HIDE DEF t
  <2>3. m \div t \in Nat /\ m % t \in Nat
    BY <1>3, <2>2
  <2>4. w \in Seq(Bare)
    BY <2>3, DigitsAreBare
  <2>5. f \in Seq(Bare)
    BY <2>1, <2>3, PaddedIsBare
  <2> HIDE DEF w, f
  <2>6. Pointed(w, f) \in Seq(Bare)
    BY <1>4, <2>4, <2>5, PointedIs
  <2> QED
    BY <1>2, <1>6, <2>6 DEF w, f, t
<1> QED
  BY <1>5, <1>6

LEMMA ExponentIsBare ==
  ASSUME NEW m \in Nat, NEW x \in Int
  PROVE  exponent(m, x) \in Seq(Bare)
<1> DEFINE kept == round_to_significant(m, x)
           digits == Digits[kept.mantissa]
           head == SubSeq(digits, 1, 1)
           rest == Tail(digits)
           power == Signed(Magnitude(kept.mantissa, kept.power))
<1>1. kept.mantissa \in Nat /\ kept.power \in Int
  BY SignificantIs
<1>2. exponent(m, x) = Pointed(head, rest) \o <<"e">> \o power
  BY DEF exponent
<1> HIDE DEF kept
<1>3. digits \in Seq(Bare) /\ Len(digits) >= 1
  BY <1>1, DigitsAreBare
<1>4. Magnitude(kept.mantissa, kept.power) \in Int
  BY <1>1, SomeFigures DEF Magnitude
<1>5. power \in Seq(Bare)
  BY <1>4, SignedIs
<1> HIDE DEF digits, power
<1>6. rest \in Seq(Bare)
  BY <1>3
<1>7. head \in Seq(Bare)
  <2>1. \A i \in 1..1 : digits[i] \in Bare
    BY <1>3
  <2> QED
    BY <2>1, SubSeqProperties
<1> HIDE DEF head, rest
<1>8. "." \in Bare /\ "e" \in Bare
  BY BareIs
<1> DEFINE p == Pointed(head, rest)
<1>9. p \in Seq(Bare)
  BY <1>6, <1>7, <1>8, PointedIs
<1> HIDE DEF p
<1>10. p \o <<"e">> \o power \in Seq(Bare)
  BY <1>5, <1>8, <1>9, Marked
<1> QED
  BY <1>2, <1>10 DEF p

\* What a float is: not a number, an infinity or a finite one.
IsFloat(f) ==
  \/ f.is = "NaN"
  \/ f.is = "Infinity" /\ f.negative \in BOOLEAN
  \/ f.is = "finite" /\ f.negative \in BOOLEAN /\ f.mantissa \in Nat /\ f.power \in Int

LEMMA FloatIsBare ==
  ASSUME NEW f, IsFloat(f)
  PROVE  float(f) \in Seq(Bare)
<1>0. "-" \in Bare /\ "0" \in Bare /\ {"N", "a", "I", "n", "f", "i", "t", "y"} \subseteq Bare
  BY BareIs DEF FigureChars
<1> DEFINE sign == IF f.negative THEN <<"-">> ELSE <<>>
<1>1. sign \in Seq(Bare)
  <2>1. <<"-">> \in Seq(Bare)
    BY <1>0
  <2>2. <<>> \in Seq(Bare)
    BY EmptySeq
  <2> QED
    BY <2>1, <2>2
<1>2. CASE f.is = "NaN"
  BY <1>0, <1>2 DEF float
<1>3. CASE f.is = "Infinity"
  <2> DEFINE name == <<"I", "n", "f", "i", "n", "i", "t", "y">>
  <2>1. name \in Seq(Bare)
    BY <1>0
  <2>2. float(f) = sign \o name
    BY <1>3 DEF float
  <2> HIDE DEF sign, name
  <2> QED
    BY <1>1, <2>1, <2>2
<1>4. CASE f.is = "finite" /\ f.mantissa = 0
  BY <1>0, <1>4 DEF float
<1>5. CASE f.is = "finite" /\ f.mantissa # 0
  <2> DEFINE magnitude == Magnitude(f.mantissa, f.power)
             kept == round_to_significant(f.mantissa, f.power)
             number == IF magnitude \in -4..14 THEN Plain(kept, Places(magnitude)) ELSE exponent(f.mantissa, f.power)
  <2>1. f.mantissa \in Nat /\ f.power \in Int
    BY <1>5 DEF IsFloat
  <2>2. float(f) = sign \o number
    BY <1>5 DEF float
  <2>3. magnitude \in Int
    BY <2>1, SomeFigures DEF Magnitude
  <2> HIDE DEF magnitude
  <2>4. Places(magnitude) \in Nat
    BY <2>3 DEF Places, Larger, FloatDigits
  <2>5. kept.mantissa \in Nat /\ kept.power \in Int
    BY <2>1, SignificantIs
  <2> HIDE DEF kept
  <2>6. Plain(kept, Places(magnitude)) \in Seq(Bare)
    BY <2>4, <2>5, PlainIsBare
  <2>7. exponent(f.mantissa, f.power) \in Seq(Bare)
    BY <2>1, ExponentIsBare
  <2>8. number \in Seq(Bare)
    BY <2>6, <2>7
  <2> HIDE DEF number, sign
  <2> QED
    BY <1>1, <2>2, <2>8
<1> QED
  BY <1>2, <1>3, <1>4, <1>5 DEF IsFloat

-----------------------------------------------------------------------------
(* Values.                                                                  *)

\* A timestamp, as a date and a time of its day.
LEMMA TimestampIs ==
  ASSUME NEW time \in Times
  PROVE  DayOf(time) \in Int /\ time.seconds = 86400 * DayOf(time) + SecondOfDay(time)
<1>1. time.seconds \in Int
  BY DEF Times
<1> QED
  BY <1>1, SMT DEF DayOf, SecondOfDay

TimestampForm(time) == date(DayOf(time)) \o <<" ">> \o clock(time)

\* What consists of other characters has no mark in it.
LEMMA NoMarkIn ==
  ASSUME NEW S, NEW m, m \notin S, NEW s \in Seq(S)
  PROVE  Free(s, m)
<1>1. \A i \in 1..Len(s) : s[i] \in S
  OBVIOUS
<1> QED
  BY <1>1 DEF Free

LEMMA TimestampIsBare ==
  ASSUME NEW time \in Times
  PROVE  TimestampForm(time) \in Seq(Bare)
<1> DEFINE day == DayOf(time)
           d == date(day)
           c == clock(time)
<1>1. day \in Int
  BY TimestampIs
<1> HIDE DEF day
<1>2. d \in Seq(DateChars)
  BY <1>1, DateIs
<1>3. DateChars \subseteq Bare
  BY BareIs DEF DateChars
<1>4. d \in Seq(Bare)
  BY <1>2, <1>3, Wider
<1>5. c \in Seq(Bare)
  BY ClockIsBare
<1>6. " " \in Bare
  BY BareIs
<1> HIDE DEF d, c
<1>7. d \o <<" ">> \o c \in Seq(Bare)
  BY <1>4, <1>5, <1>6, Marked
<1> QED
  BY <1>7 DEF TimestampForm, d, c, day

\* No two moments are written alike.
LEMMA TimestampApart ==
  ASSUME NEW time \in Times, NEW other \in Times, TimestampForm(time) = TimestampForm(other)
  PROVE  time.seconds = other.seconds /\ time.micros = other.micros
<1> DEFINE day == DayOf(time)
           day2 == DayOf(other)
           d == date(day)
           d2 == date(day2)
           c == clock(time)
           c2 == clock(other)
<1>1. day \in Int /\ day2 \in Int
  BY TimestampIs
<1>11. d \o <<" ">> \o c = d2 \o <<" ">> \o c2
  BY DEF TimestampForm
<1> HIDE DEF day, day2
<1>2. d \in Seq(DateChars) /\ d2 \in Seq(DateChars)
  BY <1>1, DateIs
<1>3. DateChars \subseteq Bare /\ " " \notin DateChars
  BY BareIs DEF DateChars, FigureChars
<1>4. d \in Seq(Bare) /\ d2 \in Seq(Bare)
  BY <1>2, <1>3, Wider
<1>5. c \in Seq(Bare) /\ c2 \in Seq(Bare)
  BY ClockIsBare
<1>6. " " \in Bare
  BY BareIs
<1> HIDE DEF d, d2, c, c2
<1>7. Free(d, " ") /\ Free(d2, " ")
  BY <1>2, <1>3, NoMarkIn
<1>8. Marks(Bare, " ", d, c, d2, c2)
  BY <1>4, <1>5, <1>6, <1>7, <1>11 DEF Marks
<1>9. d = d2 /\ c = c2
  BY <1>8, CutAtMark
<1>10. day = day2
  BY <1>1, <1>9, DateApart DEF d, d2
<1>12. SecondOfDay(time) = SecondOfDay(other) /\ time.micros = other.micros
  BY <1>9, ClockApart DEF c, c2
<1> QED
  BY <1>10, <1>12, TimestampIs, SMT DEF day, day2

-----------------------------------------------------------------------------
(* How a cell is written.                                                   *)

\* Value::render, by the kind of the value.
LEMMA RenderIs ==
  /\ render(Null) = <<"\\", "N">>
  /\ \A n : render(Integer(n)) = Signed(n)
  /\ \A f : render(Float(f)) = float(f)
  /\ \A t : render(Text(t)) = Spelled(t)
  /\ \A d : render(Date(d)) = date(d)
  /\ \A t : render([kind |-> "Time", time |-> t]) = clock(t)
  /\ \A t : render([kind |-> "Timestamp", time |-> t]) = TimestampForm(t)
<1>1. render(Null) = <<"\\", "N">>
  BY SMT DEF render, Null
<1>2. \A n : render(Integer(n)) = Signed(n)
  BY SMT DEF render, Integer
<1>3. \A f : render(Float(f)) = float(f)
  BY SMT DEF render, Float
<1>4. \A t : render(Text(t)) = Spelled(t)
  BY SMT DEF render, Text, Spelled
<1>5. \A d : render(Date(d)) = date(d)
  BY SMT DEF render, Date
<1>6. \A t : render([kind |-> "Time", time |-> t]) = clock(t)
  BY SMT DEF render
<1>7. \A t : render([kind |-> "Timestamp", time |-> t]) = TimestampForm(t)
  BY Zenon DEF render, TimestampForm
<1> QED
  BY <1>1, <1>2, <1>3, <1>4, <1>5, <1>6, <1>7

\* true and false.
LEMMA BoolIs ==
  ASSUME NEW b \in BOOLEAN
  PROVE  /\ render(Bool(b)) \in Seq(Bare)
         /\ render(Bool(b))[1] = IF b THEN "t" ELSE "f"
<1>1. render(Bool(b)) = IF b THEN <<"t", "r", "u", "e">> ELSE <<"f", "a", "l", "s", "e">>
  BY SMT DEF render, Bool
<1>2. {"t", "r", "u", "e", "f", "a", "l", "s"} \subseteq Bare
  BY BareIs
<1> HIDE DEF Bare
<1>3. <<"t", "r", "u", "e">> \in Seq(Bare) /\ <<"f", "a", "l", "s", "e">> \in Seq(Bare)
  BY <1>2
<1> QED
  BY <1>1, <1>3

\* A moment is whole seconds and the nanoseconds past them.
LEMMA InstantIs ==
  ASSUME NEW unit \in Units, NEW count \in Int, NEW i, i = Instant(unit, count)
  PROVE  /\ i[1] \in Int /\ i[2] \in Nat /\ i = <<i[1], i[2]>>
         /\ (i[2] \div 1000) \in Fractions
         /\ unit # "nanosecond" => i[2] % 1000 = 0
         /\ unit = "nanosecond" /\ count % 1000 = 0 => i[2] % 1000 = 0
<1>1. CASE unit = "second"
  BY <1>1, SMT DEF Instant, Fractions
<1>2. CASE unit = "millisecond"
  BY <1>2, SMT DEF Instant, Fractions
<1>3. CASE unit = "microsecond"
  BY <1>3, SMT DEF Instant, Fractions
<1>4. CASE unit = "nanosecond"
  BY <1>4, SMT DEF Instant, Fractions
<1> QED
  BY <1>1, <1>2, <1>3, <1>4, SMT DEF Units

\* scale and microseconds: what is finer than a microsecond is refused.
LEMMA SpokenIsWhole ==
  ASSUME NEW c \in Cells, NEW v, Spoken(v, c), c.type \in {"time", "timestamp"}
  PROVE  Instant(c.unit, c.count)[2] % 1000 = 0
<1>1. c.unit \in Units /\ c.count \in Int
  BY CellTypes
<1>2. CASE c.unit # "nanosecond"
  BY <1>1, <1>2, InstantIs, SMT
<1>3. CASE c.unit = "nanosecond"
  <2>1. ASSUME NEW driver \in {"duckdb", "datafusion"}, NEW style \in {"stored", "wide"}
        PROVE  Recast(driver, style, c) = c
    BY <1>3, RecastIs, SMT
  <2>2. v \in {ArrowValue(c), DataFusionValue(c), DuckDbValue(c)} /\ v # Refused
    BY <2>1, Zenon DEF Spoken
  <2>3. v = InMicros("Time", c) \/ v = InMicros("Timestamp", c)
    BY <2>2, SMT DEF ArrowValue, DataFusionValue, DuckDbValue, SharedValue
  <2>4. c.count % 1000 = 0
    BY <1>3, <2>2, <2>3, SMT DEF InMicros, Micros
  <2> QED
    BY <1>1, <1>3, <2>4, InstantIs, SMT
<1> QED
  BY <1>2, <1>3

\* No driver has a value for a nested cell.
LEMMA NotNested ==
  ASSUME NEW c \in Cells, NEW v, Spoken(v, c)
  PROVE  c.type # "nested"
<1> SUFFICES ASSUME c.type = "nested"
             PROVE  FALSE
  OBVIOUS
<1>1. ASSUME NEW driver \in {"duckdb", "datafusion"}, NEW style \in {"stored", "wide"}
      PROVE  Recast(driver, style, c) = c
  BY RecastIs, SMT
<1>2. v \in {ArrowValue(c), DataFusionValue(c), DuckDbValue(c)} /\ v # Refused
  BY <1>1, Zenon DEF Spoken
<1> QED
  BY <1>2, SMT DEF ArrowValue, DataFusionValue, DuckDbValue, SharedValue

\* What is in a cell, by its type.
LEMMA CellHolds ==
  ASSUME NEW c \in Cells
  PROVE  /\ c.type = "null" => c = [type |-> "null"]
         /\ c.type = "boolean" => c.bool \in BOOLEAN /\ c = [type |-> "boolean", bool |-> c.bool]
         /\ c.type \in {"integer", "hugeint"} => c.int \in Int /\ c = [type |-> c.type, int |-> c.int]
         /\ c.type = "text" => c.text \in Seq(Letters) /\ c = [type |-> "text", text |-> c.text]
         /\ c.type = "date32" => c.days \in Int /\ c = [type |-> "date32", days |-> c.days]
         /\ c.type = "date64" => c.millis \in Int /\ c = [type |-> "date64", millis |-> c.millis]
         /\ c.type = "double" => c.float \in Floats
         /\ c.type = "decimal" => c.payload \in Int /\ c.digits \in Nat
BY DEF Cells

\* The floats a number may be read as.
LEMMA FormsAreFloats ==
  ASSUME NEW c \in Cells, IsNumber(c), NEW x \in Forms(c)
  PROVE  IsFloat(x)
<1>1. ASSUME NEW e, e.payload \in Int, e.digits \in Nat
      PROVE  IsFloat(AsDouble(e).float)
  <2> DEFINE m == e.payload
             x1 == -e.digits
             f == Finite(m, x1)
  <2>1. m \in Int /\ x1 \in Int
    BY <1>1
  <2>2. AsDouble(e).float = f
    BY DEF AsDouble, Float
  <2> HIDE DEF m, x1
  <2>3. f.is = "finite" /\ f.negative = (m < 0) /\ f.mantissa = (IF m < 0 THEN -m ELSE m) /\ f.power = x1
    BY DEF Finite
  <2> HIDE DEF f
  <2>4. f.negative \in BOOLEAN /\ f.mantissa \in Nat
    BY <2>1, <2>3
  <2> QED
    BY <2>1, <2>2, <2>3, <2>4 DEF IsFloat
<1>2. CASE c.type = "double"
  <2>1. x = c.float /\ c.float \in Floats
    BY <1>2, CellHolds DEF Forms
  <2> QED
    BY <2>1 DEF Floats, IsFloat
<1>3. CASE c.type = "decimal"
  <2>1. PICK driver \in {"duckdb", "datafusion"}, style \in {"stored", "wide"} :
          x = AsDouble(Recast(driver, style, c)).float
    BY <1>3 DEF Forms
  <2>2. c.payload \in Int /\ c.digits \in Nat
    BY <1>3, CellHolds
  <2>3. Recast(driver, style, c) = c \/ Recast(driver, style, c) = [type |-> "decimal", payload |-> c.payload * 100, digits |-> 3]
    BY <1>3, SMT DEF Recast
  <2>4. Recast(driver, style, c).payload \in Int /\ Recast(driver, style, c).digits \in Nat
    BY <2>2, <2>3, SMT
  <2> QED
    BY <1>1, <2>1, <2>4
<1> QED
  BY <1>2, <1>3 DEF IsNumber

\* The nanoseconds past its seconds that a time in microseconds has.
NanosOf(time) == 1000 * time.micros

\* What is read of a cell that has a time in it.
LEMMA MomentOf ==
  ASSUME NEW c \in Cells, NEW v, Spoken(v, c), c.type \in {"time", "timestamp"}
  PROVE  \E t \in Times :
           /\ v = [kind |-> KindOf(c.type), time |-> t]
           /\ t.seconds = Instant(c.unit, c.count)[1]
           /\ Instant(c.unit, c.count) = <<t.seconds, NanosOf(t)>>
<1> DEFINE i == Instant(c.unit, c.count)
           t == [seconds |-> i[1], micros |-> i[2] \div 1000]
<1>1. c.unit \in Units /\ c.count \in Int
  BY CellTypes
<1>2. i[1] \in Int /\ i[2] \in Nat /\ i = <<i[1], i[2]>> /\ (i[2] \div 1000) \in Fractions
  BY <1>1, InstantIs
<1>3. i[2] % 1000 = 0
  BY SpokenIsWhole
<1>4. v = [kind |-> KindOf(c.type), time |-> t]
  BY SpokenIs DEF Moment
<1> HIDE DEF i
<1>5. t \in Times /\ t.seconds = i[1]
  BY <1>2 DEF Times
<1>6. NanosOf(t) = i[2]
  BY <1>2, <1>3, SMT DEF NanosOf
<1>7. i = <<t.seconds, NanosOf(t)>>
  BY <1>2, <1>5, <1>6
<1> HIDE DEF t
<1> QED
  BY <1>4, <1>5, <1>7 DEF i

\* Value::render: no line and no column ends inside a cell, and only a null is
\* written like a null.
THEOREM RenderedIsClean ==
  ASSUME NEW c \in Cells, NEW v, Spoken(v, c)
  PROVE  render(v) \in Seq(Clean) /\ (c.type # "null" => render(v) # <<"\\", "N">>)
<1>1. ASSUME render(v) \in Seq(Bare)
      PROVE  render(v) \in Seq(Clean) /\ render(v) # <<"\\", "N">>
  <2>1. render(v) \in Seq(Clean)
    BY <1>1, BareIs, Wider
  <2>2. "\\" \notin Bare
    BY DEF Bare
  <2> DEFINE s == render(v)
  <2>3. ASSUME s = <<"\\", "N">>
        PROVE  FALSE
    <3>1. Len(s) = 2 /\ s[1] = "\\"
      BY <2>3
    <3>2. s \in Seq(Bare)
      BY <1>1
    <3> HIDE DEF s
    <3> QED
      BY <2>2, <3>1, <3>2
  <2> QED
    BY <2>1, <2>3
<1>2. CASE IsNumber(c)
  <2>1. PICK x \in Forms(c) : v = Float(x)
    BY <1>2, SpokenIs
  <2>2. render(v) \in Seq(Bare)
    BY <1>2, <2>1, FormsAreFloats, FloatIsBare, RenderIs
  <2> QED
    BY <1>1, <2>2
<1>3. CASE c.type \in {"time", "timestamp"}
  <2>1. PICK t \in Times : v = [kind |-> KindOf(c.type), time |-> t]
    BY <1>3, MomentOf
  <2>2. render(v) = clock(t) \/ render(v) = TimestampForm(t)
    BY <2>1, RenderIs DEF KindOf
  <2>3. render(v) \in Seq(Bare)
    BY <2>2, ClockIsBare, TimestampIsBare
  <2> QED
    BY <1>1, <2>3
<1>4. CASE ~IsNumber(c) /\ c.type \notin {"time", "timestamp"}
  <2>1. v = Standard(c)
    BY <1>4, SpokenIs
  <2>2. CASE c.type = "null"
    <3>1. render(v) = <<"\\", "N">>
      BY <2>1, <2>2, RenderIs DEF Standard
    <3>2. "\\" \in Clean /\ "N" \in Clean
      BY BareIs, LettersAre DEF Clean
    <3> HIDE DEF Clean
    <3>3. <<"\\", "N">> \in Seq(Clean)
      BY <3>2
    <3> QED
      BY <2>2, <3>1, <3>3
  <2>3. CASE c.type = "boolean"
    <3>1. v = Bool(c.bool) /\ c.bool \in BOOLEAN
      BY <2>1, <2>3, CellHolds DEF Standard
    <3> QED
      BY <1>1, <3>1, BoolIs
  <2>4. CASE c.type \in {"integer", "hugeint"}
    <3>1. v = Integer(c.int) /\ c.int \in Int
      BY <2>1, <2>4, CellHolds DEF Standard
    <3>2. render(v) \in Seq(Bare)
      BY <3>1, SignedIs, RenderIs
    <3> QED
      BY <1>1, <3>2
  <2>5. CASE c.type = "double"
    <3>1. v = Float(c.float) /\ c.float \in Floats
      BY <2>1, <2>5, CellHolds DEF Standard
    <3>2. IsFloat(c.float)
      BY <3>1 DEF Floats, IsFloat
    <3>3. render(v) \in Seq(Bare)
      BY <3>1, <3>2, FloatIsBare, RenderIs
    <3> QED
      BY <1>1, <3>3
  <2>6. CASE c.type = "text"
    <3>1. v = Text(c.text) /\ c.text \in Seq(Letters)
      BY <2>1, <2>6, CellHolds DEF Standard
    <3> QED
      BY <3>1, SpelledIsClean, RenderIs
  <2>7. CASE c.type \in {"date32", "date64"}
    <3>1. PICK n \in Int : v = Date(n)
      <4>1. CASE c.type = "date32"
        BY <2>1, <4>1, CellHolds DEF Standard
      <4>2. CASE c.type = "date64"
        <5>1. v = Date(c.millis \div 86400000) /\ c.millis \in Int
          BY <2>1, <4>2, CellHolds, SMT DEF Standard, DayFor
        <5>2. (c.millis \div 86400000) \in Int
          BY <5>1, SMT
        <5> QED
          BY <5>1, <5>2, SMT
      <4> QED
        BY <2>7, <4>1, <4>2
    <3>2. render(v) \in Seq(DateChars)
      BY <3>1, DateIs, RenderIs
    <3>3. DateChars \subseteq Bare
      BY BareIs DEF DateChars
    <3>4. render(v) \in Seq(Bare)
      BY <3>2, <3>3, Wider
    <3> QED
      BY <1>1, <3>4
  <2>8. CASE c.type \in {"nested", "decimal"}
    BY <1>4, <2>8, NotNested DEF IsNumber
  <2> QED
    BY <1>4, <2>2, <2>3, <2>4, <2>5, <2>6, <2>7, <2>8, CellTypes
<1> QED
  BY <1>2, <1>3, <1>4

\* Value::render, of what any of the three value functions makes of a cell: two
\* cells of one type that are written alike say the same.
THEOREM KindApart ==
  ASSUME NEW c \in Cells, NEW d \in Cells, c.type = d.type, Faithful(c), Faithful(d),
         NEW v, Spoken(v, c), NEW w, Spoken(w, d), render(v) = render(w)
  PROVE  Meaning(c) = Meaning(d)
<1>1. CASE c.type \in {"time", "timestamp"}
  <2>1. PICK t \in Times : /\ v = [kind |-> KindOf(c.type), time |-> t]
                           /\ t.seconds = Instant(c.unit, c.count)[1]
                           /\ Instant(c.unit, c.count) = <<t.seconds, NanosOf(t)>>
    BY <1>1, MomentOf
  <2>2. PICK u \in Times : /\ w = [kind |-> KindOf(d.type), time |-> u]
                           /\ u.seconds = Instant(d.unit, d.count)[1]
                           /\ Instant(d.unit, d.count) = <<u.seconds, NanosOf(u)>>
    BY <1>1, MomentOf
  <2>3. t.seconds = u.seconds /\ t.micros = u.micros
    <3>1. CASE c.type = "timestamp"
      <4>1. v = [kind |-> "Timestamp", time |-> t] /\ w = [kind |-> "Timestamp", time |-> u]
        BY <2>1, <2>2, <3>1 DEF KindOf
      <4>2. TimestampForm(t) = TimestampForm(u)
        BY <4>1, RenderIs
      <4> QED
        BY <4>2, TimestampApart
    <3>2. CASE c.type = "time"
      <4>1. v = [kind |-> "Time", time |-> t] /\ w = [kind |-> "Time", time |-> u]
        BY <2>1, <2>2, <3>2 DEF KindOf
      <4>2. clock(t) = clock(u)
        BY <4>1, RenderIs
      <4>3. SecondOfDay(t) = SecondOfDay(u) /\ t.micros = u.micros
        BY <4>2, ClockApart
      <4>4. OnItsDay(c) /\ OnItsDay(d)
        BY <3>2 DEF Faithful
      <4>5. t.seconds \in Int /\ u.seconds \in Int
        BY DEF Times
      <4>6. 0 <= t.seconds /\ t.seconds < 86400 /\ 0 <= u.seconds /\ u.seconds < 86400
        BY <2>1, <2>2, <4>4, SMT DEF OnItsDay
      <4>7. SecondOfDay(t) = t.seconds /\ SecondOfDay(u) = u.seconds
        BY <4>5, <4>6, SMT DEF SecondOfDay
      <4> QED
        BY <4>3, <4>7
    <3> QED
      BY <1>1, <3>1, <3>2
  <2>4. Instant(c.unit, c.count) = Instant(d.unit, d.count)
    <3>1. NanosOf(t) = NanosOf(u)
      BY <2>3 DEF NanosOf
    <3>2. Instant(c.unit, c.count) = <<t.seconds, NanosOf(t)>> /\ Instant(d.unit, d.count) = <<u.seconds, NanosOf(u)>>
      BY <2>1, <2>2
    <3> QED
      BY <2>3, <3>1, <3>2
  <2>5. \A e : e.type \in {"time", "timestamp"} => Meaning(e) = [type |-> e.type, instant |-> Instant(e.unit, e.count)]
    BY Zenon DEF Meaning
  <2> QED
    BY <1>1, <2>4, <2>5
<1>2. CASE c.type \in {"null", "boolean", "integer", "hugeint", "text", "date32", "date64"}
  <2>1. ~IsNumber(c) /\ ~IsNumber(d)
    BY <1>2 DEF IsNumber
  <2>2. v = Standard(c) /\ w = Standard(d)
    BY <1>2, <2>1, SpokenIs
  <2>3. c = d
    <3>1. CASE c.type = "null"
      BY <3>1, CellHolds
    <3>2. CASE c.type = "boolean"
      <4>1. v = Bool(c.bool) /\ w = Bool(d.bool) /\ c.bool \in BOOLEAN /\ d.bool \in BOOLEAN
        BY <2>2, <3>2, CellHolds DEF Standard
      <4>2. c.bool = d.bool
        <5>1. (IF c.bool THEN "t" ELSE "f") = (IF d.bool THEN "t" ELSE "f")
          BY <4>1, BoolIs
        <5> QED
          BY <4>1, <5>1
      <4> QED
        BY <3>2, <4>2, CellHolds
    <3>3. CASE c.type \in {"integer", "hugeint"}
      <4>1. v = Integer(c.int) /\ w = Integer(d.int) /\ c.int \in Int /\ d.int \in Int
        BY <2>2, <3>3, CellHolds DEF Standard
      <4>2. Signed(c.int) = Signed(d.int)
        BY <4>1, RenderIs
      <4>3. c.int = d.int
        BY <4>1, <4>2, SignedApart
      <4> QED
        BY <3>3, <4>3, CellHolds
    <3>4. CASE c.type = "text"
      <4>1. v = Text(c.text) /\ w = Text(d.text) /\ c.text \in Seq(Letters) /\ d.text \in Seq(Letters)
        BY <2>2, <3>4, CellHolds DEF Standard
      <4>2. Spelled(c.text) = Spelled(d.text)
        BY <4>1, RenderIs
      <4>3. c.text = d.text
        BY <4>1, <4>2, SpelledApart
      <4> QED
        BY <3>4, <4>3, CellHolds
    <3>5. CASE c.type = "date32"
      <4>1. v = Date(c.days) /\ w = Date(d.days) /\ c.days \in Int /\ d.days \in Int
        BY <2>2, <3>5, CellHolds DEF Standard
      <4>2. date(c.days) = date(d.days)
        BY <4>1, RenderIs
      <4>3. c.days = d.days
        BY <4>1, <4>2, DateApart
      <4> QED
        BY <3>5, <4>3, CellHolds
    <3>6. CASE c.type = "date64"
      <4>1. c.millis \in Int /\ d.millis \in Int /\ c.millis % 86400000 = 0 /\ d.millis % 86400000 = 0
        <5>1. c.millis \in Int /\ d.millis \in Int
          BY <3>6, CellHolds
        <5>2. c.millis % 86400000 = 0 /\ d.millis % 86400000 = 0
          BY <3>6, SMT DEF Faithful
        <5> QED
          BY <5>1, <5>2, SMT
      <4> DEFINE n == c.millis \div 86400000
                 m == d.millis \div 86400000
      <4>2. n \in Int /\ m \in Int /\ c.millis = 86400000 * n /\ d.millis = 86400000 * m
        BY <4>1, SMT
      <4>3. v = Date(n) /\ w = Date(m)
        BY <2>2, <3>6, SMT DEF Standard, DayFor
      <4>4. n = m
        <5>1. n \in Int /\ m \in Int
          BY <4>2, SMT
        <5> HIDE DEF n, m
        <5>2. date(n) = date(m)
          BY <4>3, RenderIs, Zenon
        <5> QED
          BY <5>1, <5>2, DateApart, Zenon
      <4>5. c.millis = d.millis
        BY <4>2, <4>4, SMT
      <4>6. c = [type |-> "date64", millis |-> c.millis] /\ d = [type |-> "date64", millis |-> d.millis]
        BY <3>6, CellHolds
      <4> QED
        BY <4>5, <4>6
    <3> QED
      BY <1>2, <3>1, <3>2, <3>3, <3>4, <3>5, <3>6
  <2> QED
    BY <2>3
<1> QED
  BY <1>1, <1>2 DEF Faithful

\* A null says what a null says, and nothing else does.
LEMMA NullApart ==
  ASSUME NEW c \in Cells, NEW d \in Cells, c.type = "null",
         NEW v, Spoken(v, c), NEW w, Spoken(w, d), render(v) = render(w)
  PROVE  Meaning(c) = Meaning(d)
<1>1. ~IsNumber(c) /\ c.type \notin {"time", "timestamp"}
  BY DEF IsNumber
<1>2. v = Null
  BY <1>1, SpokenIs DEF Standard
<1>3. render(w) = <<"\\", "N">>
  BY <1>2, RenderIs
<1>4. d.type = "null"
  BY <1>3, RenderedIsClean
<1>5. c = d
  BY <1>4, CellHolds
<1> QED
  BY <1>5

\* What drivers read a cell as.
LEMMA SpokenIsRead ==
  ASSUME NEW c, NEW v, Spoken(v, c)
  PROVE  v \in ReadAs(c)
BY DEF Spoken, ReadAs

\* Value::render: cells of one column that are written alike say the same.
LEMMA CellsApart ==
  ASSUME NEW c \in Cells, NEW d \in Cells, WrittenApart(c, d),
         NEW v, Spoken(v, c), NEW w, Spoken(w, d), render(v) = render(w)
  PROVE  Meaning(c) = Meaning(d)
<1>1. v \in ReadAs(c) /\ w \in ReadAs(d)
  BY SpokenIsRead
<1>2. CASE Meaning(c) # Meaning(d)
  <2>1. SameKind(c, d)
    BY <1>1, <1>2 DEF WrittenApart
  <2>2. CASE c.type = d.type /\ Faithful(c) /\ Faithful(d)
    BY <2>2, KindApart
  <2>3. CASE c.type = "null"
    BY <2>3, NullApart
  <2>4. CASE d.type = "null"
    <3>1. Meaning(d) = Meaning(c)
      BY <2>4, NullApart
    <3> QED
      BY <3>1
  <2> QED
    BY <2>1, <2>2, <2>3, <2>4 DEF SameKind
<1> QED
  BY <1>2

-----------------------------------------------------------------------------
(* From the digest back to what was told.                                   *)

\* The cells of a row, as they are written.
Cast(row) == [k \in 1..Len(row) |-> render(row[k])]

LEMMA LineIsJoined ==
  ASSUME NEW row
  PROVE  Line(row) = JoinedBy("\t", Cast(row), Len(row))
BY DEF Line, JoinedBy, Cast

\* The characters of a line.
InLine == Letters \ {"\n"}

LEMMA CastIs ==
  ASSUME NEW cells \in Seq(Cells), NEW row, SpokenRow(row, cells), NEW w, w = Len(row)
  PROVE  Joinable(InLine, "\t", Cast(row), w)
<1>1. w \in Nat /\ w = Len(cells)
  BY DEF SpokenRow
<1>2. "\t" \in InLine
  BY LettersAre DEF InLine
<1>3. ASSUME NEW k \in 1..w
      PROVE  Cast(row)[k] \in Seq(InLine) /\ Free(Cast(row)[k], "\t")
  <2>1. Spoken(row[k], cells[k]) /\ cells[k] \in Cells
    BY <1>1, MemberOf DEF SpokenRow
  <2>2. Cast(row)[k] = render(row[k])
    BY DEF Cast
  <2>3. Cast(row)[k] \in Seq(Clean)
    BY <2>1, <2>2, RenderedIsClean
  <2>4. Clean \subseteq InLine /\ "\t" \notin Clean
    BY DEF Clean, InLine
  <2> QED
    BY <2>3, <2>4, Wider, NoMarkIn
<1> QED
  BY <1>1, <1>2, <1>3 DEF Joinable

\* Strings that are joined become a string.
LEMMA JoinedIsTyped ==
  ASSUME NEW S, NEW m \in S, NEW n \in Nat, NEW s, \A i \in 1..n : s[i] \in Seq(S)
  PROVE  JoinedBy(m, s, n) \in Seq(S)
<1> DEFINE seqs == [i \in 1..n |-> (IF i > 1 THEN <<m>> ELSE <<>>) \o s[i]]
<1>1. \A i \in 1..n : seqs[i] \in Seq(S)
  OBVIOUS
<1>2. seqs = [i \in 1..n |-> seqs[i]]
  OBVIOUS
<1>3. JoinedBy(m, s, n) = FlattenSeq(seqs)
  BY DEF JoinedBy
<1> HIDE DEF seqs
<1>4. seqs \in Seq(Seq(S))
  BY <1>1, <1>2, IsSequence
<1>5. FlattenSeq(seqs) \in Seq(S)
  BY <1>4, FlattenIsTyped
<1> QED
  BY <1>3, <1>5

\* Rows::push: a line has no end of a line in it.
LEMMA LineIsTyped ==
  ASSUME NEW cells \in Seq(Cells), NEW row, SpokenRow(row, cells)
  PROVE  Line(row) \in Seq(InLine)
<1> DEFINE w == Len(row)
           s == Cast(row)
<1>1. Joinable(InLine, "\t", s, w)
  BY CastIs
<1>2. Line(row) = JoinedBy("\t", s, w)
  BY LineIsJoined
<1> HIDE DEF w, s
<1>3. "\t" \in InLine /\ w \in Nat /\ \A i \in 1..w : s[i] \in Seq(InLine)
  BY <1>1 DEF Joinable
<1>4. JoinedBy("\t", s, w) \in Seq(InLine)
  BY <1>3, JoinedIsTyped
<1> QED
  BY <1>2, <1>4

\* Lines that are alike say the same.
LEMMA LinesApart ==
  ASSUME NEW cells \in Seq(Cells), NEW others \in Seq(Cells), Len(others) = Len(cells),
         \A k \in 1..Len(cells) : WrittenApart(cells[k], others[k]),
         NEW row, SpokenRow(row, cells), NEW another, SpokenRow(another, others), Line(row) = Line(another)
  PROVE  SaidBy(cells) = SaidBy(others)
<1> DEFINE w == Len(cells)
           s == Cast(row)
           t == Cast(another)
<1>1. w \in Nat /\ Len(row) = w /\ Len(another) = w
  BY DEF SpokenRow
<1>2. w = Len(row) /\ w = Len(another)
  BY <1>1
<1>3. Line(row) = JoinedBy("\t", s, w) /\ Line(another) = JoinedBy("\t", t, w)
  BY <1>1, LineIsJoined
<1> HIDE DEF s, t, w
<1>4. Joinable(InLine, "\t", s, w)
  BY <1>2, CastIs DEF s
<1>5. Joinable(InLine, "\t", t, w)
  BY <1>2, CastIs DEF t
<1>6. JoinedBy("\t", s, w) = JoinedBy("\t", t, w)
  BY <1>3
<1>7. \A k \in 1..w : s[k] = t[k]
  BY <1>4, <1>5, <1>6, JoinedApart
<1>8. ASSUME NEW k \in 1..w
      PROVE  Meaning(cells[k]) = Meaning(others[k])
  <2>1. Spoken(row[k], cells[k]) /\ Spoken(another[k], others[k])
    BY <1>1 DEF SpokenRow
  <2>2. cells[k] \in Cells /\ others[k] \in Cells
    BY MemberOf DEF w
  <2>3. render(row[k]) = render(another[k])
    BY <1>1, <1>7 DEF s, t, Cast
  <2>4. WrittenApart(cells[k], others[k])
    BY DEF w
  <2> QED
    BY <2>1, <2>2, <2>3, <2>4, CellsApart
<1> QED
  BY <1>8 DEF SaidBy, w

\* Lines without the end of a line in them.
Plainly(lines, n) == n \in Nat /\ lines = [i \in 1..n |-> lines[i]] /\ \A i \in 1..n : lines[i] \in Seq(InLine)

\* Rows::finish puts the lines down in some order, in theirs if one was asked for.
PutDown(lines, ordered) == IF ordered THEN lines ELSE Sorted(lines)

LEMMA PutDownIs ==
  ASSUME NEW n, NEW lines, Plainly(lines, n), NEW ordered
  PROVE  \E a \in Bijection(1..n, 1..n) :
           /\ PutDown(lines, ordered) = [i \in 1..n |-> lines[a[i]]]
           /\ ordered => \A i \in 1..n : a[i] = i
<1>1. n \in Nat /\ lines = [i \in 1..n |-> lines[i]] /\ \A i \in 1..n : lines[i] \in Seq(InLine)
  BY DEF Plainly
<1>2. CASE ordered
  <2> DEFINE a == [i \in 1..n |-> i]
  <2>1. a \in Bijection(1..n, 1..n) /\ \A i \in 1..n : a[i] = i
    BY DEF Bijection, Injection, Surjection, IsInjective
  <2>2. PutDown(lines, ordered) = lines
    BY <1>2 DEF PutDown
  <2> HIDE DEF a
  <2>3. PutDown(lines, ordered) = [i \in 1..n |-> lines[a[i]]]
    BY <1>1, <2>1, <2>2
  <2> QED
    BY <2>1, <2>3
<1>3. CASE ~ordered
  <2>1. \A i \in 1..n : lines[i] \in Seq(Letters)
    <3>1. InLine \subseteq Letters
      BY DEF InLine
    <3> QED
      BY <1>1, <3>1, Wider
  <2>2. lines \in [1..n -> Seq(Letters)]
    BY <1>1, <2>1
  <2>3. Sorted(lines) \in Rearrangements(lines)
    BY <1>1, <2>2, SortedIs
  <2>4. Len(lines) = n
    BY <1>1
  <2>5. PICK a \in Bijection(1..n, 1..n) : Sorted(lines) = [i \in 1..n |-> lines[a[i]]]
    BY <2>3, <2>4 DEF Rearrangements
  <2> QED
    BY <1>3, <2>5 DEF PutDown
<1> QED
  BY <1>2, <1>3

\* The lines as they are put down are lines, too.
LEMMA PutDownIsJoinable ==
  ASSUME NEW n, NEW lines, Plainly(lines, n), NEW ordered
  PROVE  /\ Joinable(Letters, "\n", PutDown(lines, ordered), n)
         /\ Len(PutDown(lines, ordered)) = n
<1> DEFINE s == PutDown(lines, ordered)
<1>1. n \in Nat /\ \A i \in 1..n : lines[i] \in Seq(InLine)
  BY DEF Plainly
<1>2. PICK a \in Bijection(1..n, 1..n) : s = [i \in 1..n |-> lines[a[i]]]
  BY PutDownIs
<1>3. \A i \in 1..n : a[i] \in 1..n
  BY DEF Bijection, Injection
<1> HIDE DEF s
<1>4. InLine \subseteq Letters /\ "\n" \notin InLine /\ "\n" \in Letters
  BY LettersAre DEF InLine
<1>5. ASSUME NEW i \in 1..n
      PROVE  s[i] \in Seq(Letters) /\ Free(s[i], "\n")
  <2>1. s[i] \in Seq(InLine)
    BY <1>1, <1>2, <1>3
  <2> QED
    BY <1>4, <2>1, Wider, NoMarkIn
<1>6. Len(s) = n
  BY <1>1, <1>2
<1> QED
  BY <1>1, <1>4, <1>5, <1>6 DEF Joinable, s

\* The body of an answer: its lines, and the end of one behind the last.
Ended(body) == IF body = <<>> THEN body ELSE Append(body, "\n")

LEMMA EndedApart ==
  ASSUME NEW b \in Seq(Letters), NEW c \in Seq(Letters), Ended(b) = Ended(c)
  PROVE  b = c
<1>1. \A x \in Seq(Letters) : Append(x, "\n") # <<>>
  OBVIOUS
<1>2. CASE b = <<>> \/ c = <<>>
  BY <1>1, <1>2 DEF Ended
<1>3. CASE b # <<>> /\ c # <<>>
  <2>1. Append(b, "\n") = Append(c, "\n")
    BY <1>3 DEF Ended
  <2>2. /\ Len(Append(b, "\n")) = Len(b) + 1 /\ \A i \in 1..Len(b) : Append(b, "\n")[i] = b[i]
        /\ Len(Append(c, "\n")) = Len(c) + 1 /\ \A i \in 1..Len(c) : Append(c, "\n")[i] = c[i]
    OBVIOUS
  <2>3. Len(b) \in Nat /\ Len(c) \in Nat
    OBVIOUS
  <2>4. Len(b) = Len(c) /\ \A i \in 1..Len(b) : b[i] = c[i]
    BY <2>1, <2>2, <2>3
  <2> QED
    BY <2>4, SeqEqual
<1> QED
  BY <1>2, <1>3

\* The lines of rows.
LinesOf(rows) == [i \in 1..Len(rows) |-> Line(rows[i])]

\* Rows::finish, of so many rows.
LEMMA FinishIs ==
  ASSUME NEW n, NEW rows, Len(rows) = n, Plainly(LinesOf(rows), n), NEW ordered
  PROVE  /\ finish(rows, ordered).rows = n
         /\ finish(rows, ordered).columns = IF rows = <<>> THEN 0 ELSE Len(rows[1])
         /\ finish(rows, ordered).body = Ended(JoinedBy("\n", PutDown(LinesOf(rows), ordered), n))
<1> DEFINE put == PutDown(LinesOf(rows), ordered)
           body == FlattenSeq([i \in 1..Len(put) |-> (IF i > 1 THEN <<"\n">> ELSE <<>>) \o put[i]])
<1>1. finish(rows, ordered) =
        [rows |-> Len(rows), columns |-> IF rows = <<>> THEN 0 ELSE Len(rows[1]), body |-> Ended(body)]
  BY Zenon DEF finish, Ended, PutDown, LinesOf
<1>2. Len(put) = n
  BY PutDownIsJoinable
<1>3. body = JoinedBy("\n", put, n)
  BY <1>2 DEF JoinedBy
<1> HIDE DEF body, put
<1>4. finish(rows, ordered).body = Ended(JoinedBy("\n", put, n))
  BY <1>1, <1>3
<1> QED
  BY <1>1, <1>4 DEF put

\* Bodies that are alike have the same lines.
LEMMA BodiesApart ==
  ASSUME NEW n, NEW lines, Plainly(lines, n), NEW others, Plainly(others, n), NEW ordered,
         Ended(JoinedBy("\n", PutDown(lines, ordered), n)) = Ended(JoinedBy("\n", PutDown(others, ordered), n))
  PROVE  \E o \in Bijection(1..n, 1..n) :
           /\ \A i \in 1..n : lines[i] = others[o[i]]
           /\ ordered => \A i \in 1..n : o[i] = i
<1> DEFINE s == PutDown(lines, ordered)
           t == PutDown(others, ordered)
<1>1. Joinable(Letters, "\n", s, n) /\ Joinable(Letters, "\n", t, n)
  BY PutDownIsJoinable
<1>2. PICK a \in Bijection(1..n, 1..n) :
        s = [i \in 1..n |-> lines[a[i]]] /\ (ordered => \A i \in 1..n : a[i] = i)
  BY PutDownIs
<1>3. PICK b \in Bijection(1..n, 1..n) :
        t = [i \in 1..n |-> others[b[i]]] /\ (ordered => \A i \in 1..n : b[i] = i)
  BY PutDownIs
<1> HIDE DEF s, t
<1>4. JoinedBy("\n", s, n) \in Seq(Letters) /\ JoinedBy("\n", t, n) \in Seq(Letters)
  <2>1. "\n" \in Letters /\ n \in Nat /\ (\A i \in 1..n : s[i] \in Seq(Letters)) /\ \A i \in 1..n : t[i] \in Seq(Letters)
    BY <1>1 DEF Joinable
  <2> QED
    BY <2>1, JoinedIsTyped
<1>5. Ended(JoinedBy("\n", s, n)) = Ended(JoinedBy("\n", t, n))
  BY DEF s, t
<1>6. JoinedBy("\n", s, n) = JoinedBy("\n", t, n)
  BY <1>4, <1>5, EndedApart
<1>7. \A i \in 1..n : s[i] = t[i]
  BY <1>1, <1>6, JoinedApart
<1>8. PICK c \in Bijection(1..n, 1..n) : \A i \in 1..n : a[c[i]] = i /\ c[a[i]] = i
  BY Undone
<1>9. \A f \in Bijection(1..n, 1..n) : \A i \in 1..n : f[i] \in 1..n
  BY DEF Bijection, Injection
<1> DEFINE o == [i \in 1..n |-> b[c[i]]]
<1>10. o \in Bijection(1..n, 1..n)
  BY Composed
<1>11. ASSUME NEW i \in 1..n
       PROVE  lines[i] = others[o[i]]
  <2>1. c[i] \in 1..n /\ a[c[i]] = i
    BY <1>8, <1>9
  <2>2. s[c[i]] = lines[i] /\ t[c[i]] = others[b[c[i]]]
    BY <1>2, <1>3, <2>1
  <2> QED
    BY <1>7, <2>1, <2>2
<1>12. ordered => \A i \in 1..n : o[i] = i
  BY <1>2, <1>3, <1>8, <1>9
<1> HIDE DEF o
<1> QED
  BY <1>10, <1>11, <1>12

\* Digest::of: answers with one digest have as many rows, as wide, and the same
\* lines, in one order if one was asked for.
LEMMA DigestsApart ==
  ASSUME NEW n, NEW rows, Len(rows) = n, Plainly(LinesOf(rows), n),
         NEW m, NEW others, Len(others) = m, Plainly(LinesOf(others), m), NEW ordered,
         DigestOf(finish(rows, ordered)) = DigestOf(finish(others, ordered))
  PROVE  /\ n = m
         /\ (IF rows = <<>> THEN 0 ELSE Len(rows[1])) = (IF others = <<>> THEN 0 ELSE Len(others[1]))
         /\ \E o \in Bijection(1..n, 1..n) :
              /\ \A i \in 1..n : LinesOf(rows)[i] = LinesOf(others)[o[i]]
              /\ ordered => \A i \in 1..n : o[i] = i
<1> DEFINE f == finish(rows, ordered)
           g == finish(others, ordered)
<1>1. f.rows = g.rows /\ f.columns = g.columns /\ f.body = g.body
  BY DEF DigestOf
<1>2. /\ f.rows = n /\ f.columns = (IF rows = <<>> THEN 0 ELSE Len(rows[1]))
      /\ f.body = Ended(JoinedBy("\n", PutDown(LinesOf(rows), ordered), n))
  BY FinishIs
<1>3. /\ g.rows = m /\ g.columns = (IF others = <<>> THEN 0 ELSE Len(others[1]))
      /\ g.body = Ended(JoinedBy("\n", PutDown(LinesOf(others), ordered), m))
  BY FinishIs
<1>4. n = m
  BY <1>1, <1>2, <1>3
<1>5. Ended(JoinedBy("\n", PutDown(LinesOf(rows), ordered), n))
        = Ended(JoinedBy("\n", PutDown(LinesOf(others), ordered), n))
  BY <1>1, <1>2, <1>3, <1>4
<1>6. Plainly(LinesOf(rows), n) /\ Plainly(LinesOf(others), n)
  BY <1>4
<1>7. \E o \in Bijection(1..n, 1..n) :
        /\ \A i \in 1..n : LinesOf(rows)[i] = LinesOf(others)[o[i]]
        /\ ordered => \A i \in 1..n : o[i] = i
  BY <1>5, <1>6, BodiesApart
<1> QED
  BY <1>1, <1>2, <1>3, <1>4, <1>7

\* Rows that were read are so many lines of so many cells.
AreLines(rows, n, w) ==
  /\ Len(rows) = n /\ n \in Nat /\ Plainly(LinesOf(rows), n)
  /\ \A i \in 1..n : Len(rows[i]) = w
  /\ rows = <<>> <=> n = 0

LEMMA ReadIsPlain ==
  ASSUME NEW q \in Query, NEW l \in Asked(q), NEW given \in Handed(l, q), NEW rows, ReadFrom(rows, given),
         NEW n, n = Len(Result(l, q))
  PROVE  AreLines(rows, n, Len(Columns(l, q)))
<1>1. /\ n \in Nat
      /\ \A i \in 1..n : Result(l, q)[i] \in Seq(Cells) /\ Len(Result(l, q)[i]) = Len(Columns(l, q))
  BY ResultIsRows
<1>2. Len(given) = n
  BY HandedIsMoved
<1>3. PICK a \in Bijection(1..n, 1..n) : \A i \in 1..n : given[i] = Result(l, q)[a[i]]
  BY HandedIsMoved
<1>4. \A i \in 1..n : a[i] \in 1..n
  BY DEF Bijection, Injection
<1>5. rows = [i \in 1..n |-> rows[i]] /\ \A i \in 1..n : SpokenRow(rows[i], given[i])
  BY <1>2 DEF ReadFrom
<1>6. Len(rows) = n /\ (rows = <<>> <=> n = 0)
  BY <1>1, <1>5
<1>7. ASSUME NEW i \in 1..n
      PROVE  Len(rows[i]) = Len(Columns(l, q)) /\ Line(rows[i]) \in Seq(InLine)
  <2>1. given[i] \in Seq(Cells) /\ Len(given[i]) = Len(Columns(l, q))
    BY <1>1, <1>3, <1>4
  <2>2. SpokenRow(rows[i], given[i])
    BY <1>5
  <2>3. Len(rows[i]) = Len(Columns(l, q))
    BY <2>1, <2>2 DEF SpokenRow
  <2>4. Line(rows[i]) \in Seq(InLine)
    <3>1. given[i] \in Seq(Cells)
      BY <2>1
    <3> QED
      BY <2>2, <3>1, LineIsTyped
  <2> QED
    BY <2>3, <2>4
<1>8. LinesOf(rows) = [i \in 1..n |-> Line(rows[i])]
  BY <1>6 DEF LinesOf
<1>9. Plainly(LinesOf(rows), n)
  BY <1>1, <1>7, <1>8 DEF Plainly
<1> QED
  BY <1>1, <1>6, <1>7, <1>9 DEF AreLines

\* The cells of a query's answers are written apart, row by row.
LEMMA RowsAreWrittenApart ==
  ASSUME CellsAreWrittenApart, NEW q \in Query, NEW l \in Asked(q), NEW m \in Asked(q),
         Len(Columns(m, q)) = Len(Columns(l, q)),
         NEW i \in 1..Len(Result(l, q)), NEW j \in 1..Len(Result(m, q))
  PROVE  \A k \in 1..Len(Columns(l, q)) : WrittenApart(Result(l, q)[i][k], Result(m, q)[j][k])
BY Zenon DEF CellsAreWrittenApart

\* Two answers of one digest say the same.
LEMMA SameDigestSameTold ==
  ASSUME CellsAreWrittenApart, NEW q \in Query, NEW l \in Asked(q), NEW m \in Asked(q),
         NEW given \in Handed(l, q), NEW rows, ReadFrom(rows, given),
         NEW gotten \in Handed(m, q), NEW others, ReadFrom(others, gotten),
         NEW one, one.q = q, one.of = l, NEW other, other.q = q, other.of = m,
         DigestOf(finish(rows, Question(q).ordered)) = DigestOf(finish(others, Question(q).ordered))
  PROVE  SameTold(one, other)
<1> DEFINE n == Len(Result(l, q))
           n2 == Len(Result(m, q))
           w == Len(Columns(l, q))
<1>1. AreLines(rows, n, w)
  BY ReadIsPlain
<1>2. AreLines(others, n2, Len(Columns(m, q)))
  BY ReadIsPlain
<1>3. /\ n = n2
      /\ (IF rows = <<>> THEN 0 ELSE Len(rows[1])) = (IF others = <<>> THEN 0 ELSE Len(others[1]))
      /\ \E o \in Bijection(1..n, 1..n) :
           /\ \A i \in 1..n : LinesOf(rows)[i] = LinesOf(others)[o[i]]
           /\ Question(q).ordered => \A i \in 1..n : o[i] = i
  <2>1. Len(rows) = n /\ Plainly(LinesOf(rows), n) /\ Len(others) = n2 /\ Plainly(LinesOf(others), n2)
    BY <1>1, <1>2 DEF AreLines
  <2> HIDE DEF n, n2
  <2> QED
    BY <2>1, DigestsApart
<1>4. n # 0 => Len(Columns(m, q)) = w
  <2>1. ASSUME n # 0
        PROVE  1 \in 1..n /\ 1 \in 1..n2 /\ rows # <<>> /\ others # <<>>
    BY <1>1, <1>2, <1>3, <2>1 DEF AreLines
  <2>2. ASSUME n # 0
        PROVE  Len(rows[1]) = Len(others[1]) /\ Len(rows[1]) = w /\ Len(others[1]) = Len(Columns(m, q))
    <3>1. Len(rows[1]) = w
      BY <1>1, <2>1, <2>2 DEF AreLines
    <3>2. Len(others[1]) = Len(Columns(m, q))
      BY <1>2, <2>1, <2>2 DEF AreLines
    <3>3. Len(rows[1]) = Len(others[1])
      BY <1>3, <2>1, <2>2
    <3> QED
      BY <3>1, <3>2, <3>3
  <2> QED
    BY <2>2
<1>5. PICK o \in Bijection(1..n, 1..n) :
           /\ \A i \in 1..n : LinesOf(rows)[i] = LinesOf(others)[o[i]]
           /\ Question(q).ordered => \A i \in 1..n : o[i] = i
  BY <1>3
<1>6. PICK a \in Bijection(1..n, 1..n) :
        /\ \A i \in 1..n : given[i] = Result(l, q)[a[i]]
        /\ Question(q).ordered => \A i \in 1..n : a[i] = i
  BY HandedIsMoved
<1>7. PICK b \in Bijection(1..n, 1..n) :
        /\ \A i \in 1..n : gotten[i] = Result(m, q)[b[i]]
        /\ Question(q).ordered => \A i \in 1..n : b[i] = i
  BY <1>3, HandedIsMoved
<1>8. PICK c \in Bijection(1..n, 1..n) : \A i \in 1..n : a[c[i]] = i /\ c[a[i]] = i
  BY Undone
<1>9. Len(given) = n /\ Len(gotten) = n
  BY <1>3, HandedIsMoved
<1>10. \A f \in Bijection(1..n, 1..n) : \A i \in 1..n : f[i] \in 1..n
  BY DEF Bijection, Injection
<1>11. ASSUME NEW i \in 1..n
       PROVE  SaidIn(l, q)[i] = SaidIn(m, q)[b[o[c[i]]]]
  <2> DEFINE x == c[i]
             y == o[c[i]]
             j == b[o[c[i]]]
  <2>1. x \in 1..n /\ y \in 1..n /\ j \in 1..n /\ a[x] = i /\ y = o[x] /\ j = b[y]
    BY <1>8, <1>10
  <2> HIDE DEF x, y, j
  <2>2. SpokenRow(rows[x], given[x]) /\ SpokenRow(others[y], gotten[y])
    BY <1>9, <2>1 DEF ReadFrom
  <2>3. given[x] = Result(l, q)[i] /\ gotten[y] = Result(m, q)[j]
    BY <1>6, <1>7, <2>1
  <2>4. LinesOf(rows)[x] = LinesOf(others)[y]
    BY <1>5, <2>1
  <2>5. Line(rows[x]) = Line(others[y])
    BY <1>1, <1>2, <1>3, <2>1, <2>4 DEF LinesOf, AreLines
  <2> DEFINE cells == Result(l, q)[i]
             more == Result(m, q)[j]
  <2>6. j \in 1..n2
    BY <1>3, <2>1
  <2>7. Len(Columns(m, q)) = w
    BY <1>1, <1>4, <2>1 DEF AreLines
  <2>8. cells \in Seq(Cells) /\ more \in Seq(Cells) /\ Len(cells) = w /\ Len(more) = w
    BY <2>6, <2>7, ResultIsRows
  <2>9. \A k \in 1..w : WrittenApart(cells[k], more[k])
    BY <2>6, <2>7, RowsAreWrittenApart
  <2>10. SpokenRow(rows[x], cells) /\ SpokenRow(others[y], more)
    BY <2>2, <2>3
  <2>11. SaidIn(l, q)[i] = SaidBy(cells) /\ SaidIn(m, q)[j] = SaidBy(more)
    BY <2>6 DEF SaidIn
  <2> HIDE DEF cells, more, w
  <2>12. cells \in Seq(Cells) /\ more \in Seq(Cells) /\ Len(more) = Len(cells)
         /\ \A k \in 1..Len(cells) : WrittenApart(cells[k], more[k])
    BY <2>8, <2>9
  <2>13. SaidBy(cells) = SaidBy(more)
    BY <2>5, <2>10, <2>12, LinesApart
  <2> QED
    BY <2>11, <2>13 DEF j
<1> DEFINE oc == [i \in 1..n |-> o[c[i]]]
           p == [i \in 1..n |-> b[oc[i]]]
<1>12. oc \in Bijection(1..n, 1..n)
  BY Composed
<1>13. p \in Bijection(1..n, 1..n)
  <2> HIDE DEF oc
  <2> QED
    BY <1>12, Composed
<1>14. \A i \in 1..n : p[i] = b[o[c[i]]] /\ p[i] \in 1..n
  BY <1>10
<1>15. Question(q).ordered => \A i \in 1..n : p[i] = i
  BY <1>5, <1>6, <1>7, <1>8, <1>10, <1>14
<1> HIDE DEF oc, p
<1>16. Told(one) = SaidIn(l, q) /\ Told(other) = SaidIn(m, q)
  BY DEF Told, SaidIn, SaidBy
<1>17. /\ SaidIn(l, q) = [i \in 1..n |-> SaidIn(l, q)[i]]
       /\ SaidIn(m, q) = [i \in 1..n |-> SaidIn(m, q)[i]] /\ Len(SaidIn(m, q)) = n
  <2>1. SaidIn(l, q) = [i \in 1..n |-> SaidIn(l, q)[i]]
    BY DEF SaidIn
  <2>2. SaidIn(m, q) = [i \in 1..n2 |-> SaidIn(m, q)[i]]
    BY DEF SaidIn
  <2> HIDE DEF n, n2
  <2>3. SaidIn(m, q) = [i \in 1..n |-> SaidIn(m, q)[i]]
    BY <1>3, <2>2
  <2>4. Len(SaidIn(m, q)) = n
    BY <1>1, <2>3 DEF AreLines
  <2> QED
    BY <2>1, <2>3, <2>4
<1> HIDE DEF n, n2
<1>18. SaidIn(l, q) = [i \in 1..n |-> SaidIn(m, q)[p[i]]]
  BY <1>11, <1>14, <1>17
<1>19. CASE Question(q).ordered
  <2>1. SaidIn(l, q) = SaidIn(m, q)
    BY <1>15, <1>17, <1>18, <1>19
  <2> QED
    BY <1>16, <1>19, <2>1 DEF SameTold
<1>20. CASE ~Question(q).ordered
  <2>1. SaidIn(l, q) \in Rearrangements(SaidIn(m, q))
    BY <1>13, <1>17, <1>18 DEF Rearrangements
  <2> QED
    BY <1>16, <1>20, <2>1 DEF SameTold
<1> QED
  BY <1>19, <1>20

\* The answers at hand that have one digest say the same.
LEMMA ReadIsEnoughToTell == CellsAreWrittenApart /\ ReadInv => SameDigestSameAnswer
<1> SUFFICES ASSUME CellsAreWrittenApart, ReadInv, NEW r \in working, NEW s \in working,
                    Comparable(r, s), answer[r].digest = answer[s].digest
             PROVE  SameTold(answer[r], answer[s])
  BY DEF SameDigestSameAnswer
<1> DEFINE one == answer[r]
           other == answer[s]
           q == one.q
<1>1. r \in Runner /\ s \in Runner
  BY DEF ReadInv, LatestInv, KeptInv, DriversInv
<1>2. one # NoAnswer /\ other # NoAnswer /\ other.q = q /\ ~DoesNothing(r) /\ ~DoesNothing(s)
  BY DEF Comparable
<1>3. q \in Query /\ WasRead(one) /\ WasRead(other)
  BY <1>1, <1>2 DEF ReadInv, LatestInv
<1>4. one.digest = other.digest
  OBVIOUS
<1> HIDE DEF one, other
<1>5. one.of \in Asked(q) /\ other.of \in Asked(q)
  BY <1>2, <1>3 DEF WasRead
<1>6. PICK given \in Handed(one.of, q) : \E rows :
        ReadFrom(rows, given) /\ one.digest = DigestOf(finish(rows, Question(q).ordered))
  BY <1>3 DEF WasRead
<1>7. PICK rows : ReadFrom(rows, given) /\ one.digest = DigestOf(finish(rows, Question(q).ordered))
  BY <1>6
<1>8. PICK gotten \in Handed(other.of, q) : \E others :
        ReadFrom(others, gotten) /\ other.digest = DigestOf(finish(others, Question(q).ordered))
  BY <1>2, <1>3 DEF WasRead
<1>9. PICK others : ReadFrom(others, gotten) /\ other.digest = DigestOf(finish(others, Question(q).ordered))
  BY <1>8
<1>10. one.q = q
  OBVIOUS
<1> HIDE DEF q
<1>11. DigestOf(finish(rows, Question(q).ordered)) = DigestOf(finish(others, Question(q).ordered))
  BY <1>4, <1>7, <1>9
<1>12. SameTold(one, other)
  BY <1>2, <1>3, <1>5, <1>7, <1>9, <1>10, <1>11, SameDigestSameTold
<1> QED
  BY <1>12 DEF one, other

\* digest.rs, "Every query here produces a digest of its canonicalised result":
\* whatever was loaded into which systems, whatever failed on the way and in
\* whatever types and order each system handed its rows over, two drivers that
\* have one digest were told the same rows as often, and in one order where one
\* was asked for, as long as the cells that differ in kind, the numbers to six
\* digits and the times that are cut off are written apart.
THEOREM SameDigestSameAnswerHolds ==
  ASSUME CellsAreWrittenApart
  PROVE  DriversSpec => []SameDigestSameAnswer
<1>1. ReadInv => SameDigestSameAnswer
  BY ReadIsEnoughToTell
<1> QED
  BY <1>1, ReadStarts, ReadKept, PTL DEF DriversSpec

=============================================================================
