------------------------------- MODULE Drivers -----------------------------
(***************************************************************************)
(* The four drivers of drivers/ under their sessions: what each keeps of a *)
(* preparation and of a load, how it reads an answer out of its system, and*)
(* the digest of that.  A cell is what a file or a system hands over, with *)
(* the type it has there; the canonical value is what the driver makes of  *)
(* it.  What a system computes is right; in which of its types and, unless *)
(* an order was asked for, in which order it hands the rows over, is its   *)
(* own affair.                                                             *)
(***************************************************************************)
EXTENDS DriverSession, Answers

CONSTANTS
  DriverOf(_),   \* DriverOf(r): the driver r's session borrows
  Together,      \* bound: the sets of runners that are at work at once
  MaxRuns,       \* bound: queries a session asks
  Loads,         \* what may be asked of load
  Question(_),   \* Question(q): what the query q asks
  Select(_, _),  \* Select(name, cell): what a select list makes of a column's cell
  Widest,        \* stands for i64::MAX, as a system's wider integers see it
  Furthest(_),   \* stands for the counts of a coarser unit whose microseconds fit an i64
  LastDay        \* stands for i32::MAX, as a count of days sees it

Nothing == [table |-> "nothing"]
DriverNames == {"duckdb", "datafusion", "arrow-parquet", "null"}

\* A load is of a table, in a format, with a select list or not, from files of
\* named columns, and a query is of one table, a plain list of columns or not.
ASSUME DriversAssumption ==
  /\ \A r \in Runner : DriverOf(r) \in DriverNames
  /\ \A r \in Runner : Keeps(r) = (DriverOf(r) = "duckdb") /\ DoesNothing(r) = (DriverOf(r) = "null")
  /\ Together \subseteq SUBSET Runner
  /\ Nothing \notin Loads
  /\ \A l \in Loads : l.table \in Table /\ l.format \in {"parquet", "byte", "wide"} /\ l.projected \in BOOLEAN
  /\ \A q \in Query : Reads(q) = {Question(q).table} /\ ~(Question(q).plain /\ Question(q).ordered)

\* What a file or a system has in a cell, with the type it has there.
Units == {"second", "millisecond", "microsecond", "nanosecond"}
Floats ==
  [is : {"NaN"}] \cup [is : {"Infinity"}, negative : BOOLEAN]
    \cup [is : {"finite"}, negative : BOOLEAN, mantissa : Nat, power : Int]
Cells ==
  [type : {"null", "nested"}] \cup [type : {"boolean"}, bool : BOOLEAN]
    \cup [type : {"integer", "hugeint"}, int : Int] \cup [type : {"double"}, float : Floats]
    \cup [type : {"decimal"}, payload : Int, digits : Nat] \cup [type : {"text"}, text : Seq(Letters)]
    \cup [type : {"date32"}, days : Int] \cup [type : {"date64"}, millis : Int]
    \cup [type : {"time", "timestamp"}, unit : Units, count : Int, zoned : BOOLEAN]

Files == [schema : Seq(STRING), rows : Seq(Seq(Cells))]

\* A file is a table of cells, and so it is under a select list.
ASSUME FilesAssumption ==
  /\ \A l \in Loads :
       /\ l.files \in Seq(Files) \ {<<>>}
       /\ \A f \in Range(l.files) : \A row \in Range(f.rows) :
            /\ Len(row) = Len(f.schema)
            /\ l.projected => \A k \in 1..Len(row) : Select(f.schema[k], row[k]) \in Cells
  /\ \A q \in Query : Question(q).columns \in Seq(STRING)

VARIABLES
  working,   \* the runners that are at work, which never changes
  fields,    \* fields[r]: which fields of the driver are set
  catalog,   \* catalog[r]: what r's system has under a name
  database,  \* database[d]: what the database left in d has under a name
  latest,    \* latest[r]: the last load of a table the session got in
  answer     \* answer[r]: the last answer of the session

driverVars == <<working, fields, catalog, database, latest, answer>>
allVars == <<sessionVars, driverVars>>

Own(t) == [table |-> t, raw |-> FALSE]
Raw(t) == [table |-> t, raw |-> TRUE]
Names == [table : Table, raw : BOOLEAN]
NoAnswer == [q |-> "none"]

DriversInit ==
  /\ SessionInit
  /\ working \in Together
  /\ fields = [r \in Runner |-> {}]
  /\ catalog = [r \in Runner |-> [name \in Names |-> Nothing]]
  /\ database = [d \in Directory |-> [name \in Names |-> Nothing]]
  /\ latest = [r \in Runner |-> [t \in Table |-> Nothing]]
  /\ answer = [r \in Runner |-> NoAnswer]

\* What a preparation that came to its end leaves, and which of it the guard
\* of load and run asks for: connection, started, the flag.
Fields(driver) ==
  CASE driver = "duckdb" -> {"connection", "version"}
    [] driver = "datafusion" -> {"runtime", "context", "version"}
    [] driver = "arrow-parquet" -> {"prepared"}
    [] driver = "null" -> {"directory"}
Started(r) == Fields(DriverOf(r)) \ {"version"} \subseteq fields[r]

\* The database file is one process's at a time.
Locked(r) ==
  \E other \in Runner \ {r} :
    DriverOf(other) = "duckdb" /\ Started(other) /\ DirectoryOf(other) = DirectoryOf(r)

\* A slip in PrepareDuckDb: the connection is kept before it is configured.
PrepareDuckDb_ConnectionFirst(r) ==
  /\ Locked(r) => said'[r] = "System"
  /\ fields' = [fields EXCEPT ![r] = IF said'[r] = "ok" THEN Fields("duckdb") ELSE {"connection"}]
  /\ catalog' = [catalog EXCEPT ![r] = IF said'[r] = "ok" THEN database[DirectoryOf(r)] ELSE @]

\* DuckDb::prepare: the database is opened, configured and asked its version;
\* only behind the last `?` are the fields set, and a failure drops it.
PrepareDuckDb(r) ==
  /\ Locked(r) => said'[r] = "System"
  /\ fields' = [fields EXCEPT ![r] = IF said'[r] = "ok" THEN Fields("duckdb") ELSE @]
  /\ catalog' = [catalog EXCEPT ![r] = IF said'[r] = "ok" THEN database[DirectoryOf(r)] ELSE @]

\* DataFusion::prepare: a runtime, an environment and a context that has said
\* its version, and the three fields together after it.
PrepareDataFusion(r) ==
  /\ fields' = [fields EXCEPT ![r] = IF said'[r] = "ok" THEN Fields("datafusion") ELSE @]
  /\ UNCHANGED catalog

\* ArrowParquet::prepare
PrepareArrowParquet(r) ==
  /\ fields' = [fields EXCEPT ![r] = IF said'[r] = "ok" THEN {"prepared"} ELSE @]
  /\ UNCHANGED catalog

\* Null::prepare, which nothing can go wrong in.
PrepareNull(r) ==
  /\ said'[r] = "ok"
  /\ fields' = [fields EXCEPT ![r] = {"directory"}]
  /\ UNCHANGED catalog

PrepareDriver(r) ==
  /\ Prepare(r)
  /\ IF prepared[r] THEN UNCHANGED <<fields, catalog>>
     ELSE CASE DriverOf(r) = "duckdb" -> PrepareDuckDb(r)
            [] DriverOf(r) = "datafusion" -> PrepareDataFusion(r)
            [] DriverOf(r) = "arrow-parquet" -> PrepareArrowParquet(r)
            [] DriverOf(r) = "null" -> PrepareNull(r)
  /\ UNCHANGED <<working, database, latest, answer>>

\* The files of a load have the columns of the first.
Uniform(l) == \A i \in 1..Len(l.files) : l.files[i].schema = l.files[1].schema
Keep(r, name, l) == catalog' = [catalog EXCEPT ![r][name] = l]

\* A slip in LoadDuckDb: a table an earlier load made stays as it is.
LoadDuckDb_IfNotExists(r, l) ==
  /\ said'[r] \in {"ok", "System"}
  /\ IF said'[r] = "ok" /\ catalog[r][Own(l.table)] = Nothing THEN Keep(r, Own(l.table), l) ELSE UNCHANGED catalog
  /\ database' = [database EXCEPT ![DirectoryOf(r)] = catalog'[r]]

\* DuckDb::load: CREATE OR REPLACE TABLE, of whatever it can read.
LoadDuckDb(r, l) ==
  /\ said'[r] \in {"ok", "System"}
  /\ IF said'[r] = "ok" THEN Keep(r, Own(l.table), l) ELSE UNCHANGED catalog
  /\ database' = [database EXCEPT ![DirectoryOf(r)] = catalog'[r]]

\* DataFusion::load: the files are registered, which no name allows twice, and
\* where there is a select list they go by another name under a view.
LoadDataFusion(r, l) ==
  /\ IF l.format = "wide" THEN said'[r] = "Unsupported" /\ UNCHANGED catalog
     ELSE LET raw == IF l.projected THEN Raw(l.table) ELSE Own(l.table) IN
          \/ said'[r] = "System" /\ UNCHANGED catalog
          \/ /\ catalog[r][raw] = Nothing
             /\ \/ ~l.projected /\ said'[r] = "ok" /\ Keep(r, raw, l)
                \/ l.projected /\ said'[r] = "System" /\ Keep(r, raw, l)
                \/ /\ l.projected /\ catalog[r][Own(l.table)] = Nothing /\ said'[r] = "ok"
                   /\ catalog' = [catalog EXCEPT ![r][raw] = l, ![r][Own(l.table)] = l]
  /\ UNCHANGED database

\* ArrowParquet::load: Parquet and no select list, every footer read and like
\* the first before the files replace what the table had.
LoadArrowParquet(r, l) ==
  /\ IF l.format # "parquet" \/ l.projected
       THEN said'[r] = "Unsupported" /\ UNCHANGED catalog
       ELSE \/ said'[r] = "System" /\ UNCHANGED catalog
            \/ ~Uniform(l) /\ said'[r] = "Unsupported" /\ UNCHANGED catalog
            \/ Uniform(l) /\ said'[r] = "ok" /\ Keep(r, Own(l.table), l)
  /\ UNCHANGED database

\* Null::load
LoadNull(r, l) == said'[r] = "ok" /\ Keep(r, Own(l.table), l) /\ UNCHANGED database

LoadDriver(r, l) ==
  /\ LoadTable(r, l.table)
  /\ IF ~prepared[r] THEN UNCHANGED <<catalog, database>>
     ELSE CASE DriverOf(r) = "duckdb" -> LoadDuckDb(r, l)
            [] DriverOf(r) = "datafusion" -> LoadDataFusion(r, l)
            [] DriverOf(r) = "arrow-parquet" -> LoadArrowParquet(r, l)
            [] DriverOf(r) = "null" -> LoadNull(r, l)
  /\ latest' = IF said'[r] = "ok" THEN [latest EXCEPT ![r][l.table] = l] ELSE latest
  /\ UNCHANGED <<working, fields, answer>>

-----------------------------------------------------------------------------
(* Reading an answer out of a system.                                       *)

Refused == [kind |-> "Refused"]

\* A wider integer as an i64, or a complaint.
Narrow(n) == IF n \in (-Widest - 1)..Widest THEN Integer(n) ELSE Refused

\* A slip in Micros: what is finer than a microsecond is dropped.
Micros_Truncated(unit, count) ==
  CASE unit \in {"second", "millisecond"} /\ count \notin -Furthest(unit)..Furthest(unit) -> Refused
    [] unit = "second" /\ count \in -Furthest(unit)..Furthest(unit) -> [seconds |-> count, micros |-> 0]
    [] unit = "millisecond" /\ count \in -Furthest(unit)..Furthest(unit) ->
         [seconds |-> count \div 1000, micros |-> (count % 1000) * 1000]
    [] unit = "microsecond" -> [seconds |-> count \div 1000000, micros |-> count % 1000000]
    [] unit = "nanosecond" -> [seconds |-> count \div 1000000000, micros |-> (count \div 1000) % 1000000]

\* scale and microseconds: a count of some unit in microseconds, when it fits
\* and when that loses nothing.
Micros(unit, count) ==
  CASE unit \in {"second", "millisecond"} /\ count \notin -Furthest(unit)..Furthest(unit) -> Refused
    [] unit = "second" /\ count \in -Furthest(unit)..Furthest(unit) -> [seconds |-> count, micros |-> 0]
    [] unit = "millisecond" /\ count \in -Furthest(unit)..Furthest(unit) ->
         [seconds |-> count \div 1000, micros |-> (count % 1000) * 1000]
    [] unit = "microsecond" -> [seconds |-> count \div 1000000, micros |-> count % 1000000]
    [] unit = "nanosecond" ->
         IF count % 1000 # 0 THEN Refused
         ELSE [seconds |-> count \div 1000000000, micros |-> (count \div 1000) % 1000000]
InMicros(kind, c) ==
  LET time == Micros(c.unit, c.count) IN
  IF time = Refused THEN Refused ELSE [kind |-> kind, time |-> time]

\* days: a whole number of days out of a count of milliseconds, or a complaint.
Days(millis) ==
  LET day == millis \div 86400000 IN
  IF day \in (-LastDay - 1)..LastDay THEN Date(day) ELSE Refused

\* decimal: as a double, whose six digits the form keeps.
AsDouble(c) == Float(Finite(c.payload, -c.digits))

\* What is the same in the three: value, for the types they share.
SharedValue(c) ==
  CASE c.type = "null" -> Null
    [] c.type = "boolean" -> Bool(c.bool)
    [] c.type = "integer" -> Narrow(c.int)
    [] c.type = "double" -> Float(c.float)
    [] c.type = "decimal" -> AsDouble(c)
    [] c.type = "text" -> Text(c.text)
    [] c.type = "date32" -> Date(c.days)
    [] c.type = "time" -> InMicros("Time", c)
    [] c.type = "timestamp" /\ ~c.zoned -> InMicros("Timestamp", c)
    [] OTHER -> Refused

\* driver-arrow-parquet, value: Arrow's dates in milliseconds besides.
ArrowValue(c) == IF c.type = "date64" THEN Days(c.millis) ELSE SharedValue(c)

\* driver-datafusion, value: over what DataFusion hands over, which is Arrow.
DataFusionValue(c) == IF c.type = "date64" THEN Days(c.millis) ELSE SharedValue(c)

\* driver-duckdb, value: DuckDB's wider integers besides.
DuckDbValue(c) == IF c.type = "hugeint" THEN Narrow(c.int) ELSE SharedValue(c)

-----------------------------------------------------------------------------

Position(s, x) == CHOOSE i \in 1..Len(s) : s[i] = x
Schema(l) == l.files[1].schema
Columns(l, q) == IF Question(q).columns = <<>> THEN Schema(l) ELSE Question(q).columns
Has(l, q) == Range(Columns(l, q)) \subseteq Range(Schema(l))
StoredRows(l) == FlattenSeq([i \in 1..Len(l.files) |-> l.files[i].rows])

\* What a query asks of the files of a load: their rows, under the select list,
\* in the columns asked for.
Result(l, q) ==
  LET cell(row, name) ==
        LET c == row[Position(Schema(l), name)] IN IF l.projected THEN Select(name, c) ELSE c
  IN [i \in 1..Len(StoredRows(l)) |->
       [k \in 1..Len(Columns(l, q)) |-> cell(StoredRows(l)[i], Columns(l, q)[k])]]

\* A system may hold a column in another type than the files do.
Recast(driver, style, c) ==
  CASE style = "wide" /\ driver = "duckdb" /\ c.type = "integer" -> [type |-> "hugeint", int |-> c.int]
    [] style = "wide" /\ driver = "datafusion" /\ c.type = "date32" ->
         [type |-> "date64", millis |-> c.days * 86400000]
    [] style = "wide" /\ c.type = "timestamp" /\ c.unit = "millisecond" ->
         [type |-> "timestamp", unit |-> "nanosecond", count |-> c.count * 1000000, zoned |-> c.zoned]
    [] style = "wide" /\ c.type = "decimal" /\ c.digits = 1 ->
         [type |-> "decimal", payload |-> c.payload * 100, digits |-> 3]
    [] OTHER -> c

\* The rows a system hands over, in its types and, unless the query asked for
\* an order, in any order.
HandedOver(driver, l, q) ==
  LET result == Result(l, q) IN
  {[i \in 1..Len(rows) |-> [k \in 1..Len(Columns(l, q)) |-> Recast(driver, style, rows[i][k])]] :
     style \in {"stored", "wide"},
     rows \in IF Question(q).ordered THEN {result} ELSE Rearrangements(result)}

\* What is left of run once the rows are values: one that has no canonical
\* form ends the call, and so do rows of different widths.
Answering(r, q, l, rows) ==
  IF \E i \in 1..Len(rows) : \E k \in 1..Len(rows[i]) : rows[i][k] = Refused
    THEN said'[r] = "Unsupported" /\ UNCHANGED answer
  ELSE IF Ragged(rows) THEN said'[r] = "System" /\ UNCHANGED answer
  ELSE /\ said'[r] = "ok"
       /\ answer' = [answer EXCEPT ![r] =
            [q |-> q, of |-> l, digest |-> DigestOf(finish(rows, Question(q).ordered))]]

Canonical(driver, rows) ==
  LET value(c) == CASE driver = "duckdb" -> DuckDbValue(c)
                    [] driver = "datafusion" -> DataFusionValue(c)
                    [] driver = "arrow-parquet" -> ArrowValue(c)
  IN [i \in 1..Len(rows) |-> [k \in 1..Len(rows[i]) |-> value(rows[i][k])]]

\* DuckDb::run
RunDuckDb(r, q) ==
  LET l == catalog[r][Own(Question(q).table)] IN
  \/ said'[r] = "System" /\ UNCHANGED answer
  \/ /\ l # Nothing /\ Uniform(l) /\ Has(l, q)
     /\ \E rows \in HandedOver("duckdb", l, q) : Answering(r, q, l, Canonical("duckdb", rows))

\* DataFusion::run
RunDataFusion(r, q) ==
  LET l == catalog[r][Own(Question(q).table)] IN
  \/ said'[r] = "System" /\ UNCHANGED answer
  \/ /\ l # Nothing /\ Uniform(l) /\ Has(l, q)
     /\ \E rows \in HandedOver("datafusion", l, q) : Answering(r, q, l, Canonical("datafusion", rows))

\* The place of a position among the wanted ones, and the columns a reader
\* hands over: those, in the order of the file and each once.
PlaceIn(wanted, x) == Cardinality({y \in Range(wanted) : y <= x})
Batch(row, wanted) ==
  [k \in 1..Cardinality(Range(wanted)) |-> row[CHOOSE x \in Range(wanted) : PlaceIn(wanted, x) = k]]

\* A slip in Projected: the columns stay in the order the file stores them in.
Projected_FileOrder(row, wanted) == Batch(row, wanted)

\* project: the columns are put back in the order that was asked for.
Projected(row, wanted) ==
  [k \in 1..Len(wanted) |-> Batch(row, wanted)[PlaceIn(wanted, wanted[k])]]

\* ArrowParquet::run: a plain list of columns of a table it was given, the
\* files one after another.
RunArrowParquet(r, q) ==
  LET l == catalog[r][Own(Question(q).table)] IN
  IF ~Question(q).plain \/ l = Nothing THEN said'[r] = "Unsupported" /\ UNCHANGED answer
  ELSE \/ said'[r] = "System" /\ UNCHANGED answer
       \/ ~Has(l, q) /\ said'[r] = "Unsupported" /\ UNCHANGED answer
       \/ /\ Has(l, q)
          /\ LET wanted == [k \in 1..Len(Columns(l, q)) |-> Position(Schema(l), Columns(l, q)[k])]
                 rows == [i \in 1..Len(StoredRows(l)) |-> Projected(StoredRows(l)[i], wanted)]
             IN Answering(r, q, l, Canonical("arrow-parquet", rows))

\* Null::run: no rows, whatever was asked.
RunNull(r, q) == Answering(r, q, Nothing, <<>>)

AskDriver(r, q) ==
  /\ AskQuery(r, q)
  /\ IF ~loaded[r] THEN UNCHANGED answer
     ELSE CASE DriverOf(r) = "duckdb" -> RunDuckDb(r, q)
            [] DriverOf(r) = "datafusion" -> RunDataFusion(r, q)
            [] DriverOf(r) = "arrow-parquet" -> RunArrowParquet(r, q)
            [] DriverOf(r) = "null" -> RunNull(r, q)
  /\ UNCHANGED <<working, fields, catalog, database, latest>>

\* The process ends and its driver with it; a database stays in its directory.
DriverEnds(r) ==
  /\ Ends(r)
  /\ fields' = [fields EXCEPT ![r] = {}]
  /\ catalog' = [catalog EXCEPT ![r] = [name \in Names |-> Nothing]]
  /\ latest' = [latest EXCEPT ![r] = [t \in Table |-> Nothing]]
  /\ answer' = [answer EXCEPT ![r] = NoAnswer]
  /\ UNCHANGED <<working, database>>

DriversNext ==
  \E r \in working :
    \/ calls[r]["prepare"] < MaxCalls /\ PrepareDriver(r)
    \/ calls[r]["load"] < MaxCalls /\ \E l \in Loads : LoadDriver(r, l)
    \/ calls[r]["run"] < MaxRuns /\ \E q \in Query : AskDriver(r, q)
    \/ DriverEnds(r)

DriversSpec == DriversInit /\ [][DriversNext]_allVars

-----------------------------------------------------------------------------

\* A driver's fields are its own, its catalog and its answer are of loads that
\* were asked for.
DriversTypeOK ==
  /\ SessionTypeOK
  /\ working \in Together
  /\ \A r \in Runner : fields[r] \subseteq Fields(DriverOf(r))
  /\ catalog \in [Runner -> [Names -> Loads \cup {Nothing}]]
  /\ database \in [Directory -> [Names -> Loads \cup {Nothing}]]
  /\ latest \in [Runner -> [Table -> Loads \cup {Nothing}]]
  /\ \A r \in Runner : answer[r] = NoAnswer \/ answer[r].q \in Query

\* phase.rs lets a caller prepare again after a failed preparation, and load
\* again after a failed load: whatever failed before, a driver's fields, its
\* version with them, are all set or none is, and its system answers to the
\* names its session got in and to no others, up to what an earlier command
\* left in the directory.
DriversKeepStep ==
  /\ \A r \in Runner :
       /\ fields[r] \in {{}, Fields(DriverOf(r))}
       /\ system[r].up <=> Started(r)
       /\ system[r].tables = {t \in Table : catalog[r][Own(t)] # Nothing}
  /\ \A d \in Directory : disk[d] = {t \in Table : database[d][Own(t)] # Nothing}

\* Load, "Gets one table in, by whatever means this system gets tables in": an
\* answer is of the last load the session was told had worked, whichever
\* driver it was and whatever failed or was replaced since.
AnswersTheLastLoad ==
  [][\A r \in Runner :
       answer'[r] # answer[r] /\ answer'[r] # NoAnswer /\ ~DoesNothing(r) =>
         LET t == Question(answer'[r].q).table IN
         latest[r][t] # Nothing => answer'[r].of = latest[r][t]]_allVars

\* What a cell says, whatever type it is held in: a float to six digits.
SixDigits(m, x) ==
  LET kept == round_to_significant(IF m < 0 THEN -m ELSE m, x)
      zeros == CHOOSE z \in 0..8 : kept.mantissa % Tens[z] = 0 /\ kept.mantissa % Tens[z + 1] # 0
  IN IF m = 0 THEN <<0, 0>>
     ELSE <<(IF m < 0 THEN -1 ELSE 1) * (kept.mantissa \div Tens[zeros]), kept.power + zeros>>
Instant(unit, count) ==
  LET per == CASE unit = "second" -> 1 [] unit = "millisecond" -> 1000
               [] unit = "microsecond" -> 1000000 [] unit = "nanosecond" -> 1000000000
  IN <<count \div per, (count % per) * (1000000000 \div per)>>
Meaning(c) ==
  CASE c.type \in {"time", "timestamp"} -> [type |-> c.type, instant |-> Instant(c.unit, c.count)]
    [] c.type = "decimal" -> [type |-> "number", digits |-> SixDigits(c.payload, -c.digits)]
    [] c.type = "double" /\ c.float.is = "finite" ->
         [type |-> "number",
          digits |-> SixDigits(IF c.float.negative THEN -c.float.mantissa ELSE c.float.mantissa,
                               c.float.power)]
    [] OTHER -> c

\* The numbers that are written to six digits, and the floats they may be read
\* as, which are written alike unless a limit of the plain notation is between
\* them: the assumption under which a digest goes by what an answer says.
IsNumber(c) == c.type = "decimal" \/ (c.type = "double" /\ c.float.is = "finite")
Forms(c) ==
  IF c.type = "double" THEN {c.float}
  ELSE {AsDouble(Recast(driver, style, c)).float :
          driver \in {"duckdb", "datafusion"}, style \in {"stored", "wide"}}
Asked(q) == {l \in Loads : Uniform(l) /\ Has(l, q)}
CellsOf(l, q) == UNION {Range(row) : row \in Range(Result(l, q))}
SixDigitsAreWrittenAlike ==
  \A q \in Query : \A c, d \in UNION {CellsOf(l, q) : l \in Asked(q)} :
    IsNumber(c) /\ IsNumber(d) /\ Meaning(c) = Meaning(d) =>
      \A x \in Forms(c), y \in Forms(d) : float(x) = float(y)

\* The cells whose text is of what they say and of nothing else, among those of
\* one type: no number written to six digits, which the plain notation has
\* fewer of below one, no milliseconds past a day, which are cut off, and no
\* time of day outside the day.
OnItsDay(c) == LET seconds == Instant(c.unit, c.count)[1] IN 0 <= seconds /\ seconds < 86400
Faithful(c) ==
  \/ c.type \in {"null", "boolean", "integer", "hugeint", "text", "date32", "timestamp"}
  \/ c.type = "date64" /\ c.millis % 86400000 = 0
  \/ c.type = "time" /\ OnItsDay(c)
SameKind(c, d) == "null" \in {c.type, d.type} \/ (c.type = d.type /\ Faithful(c) /\ Faithful(d))

\* What the drivers may make of a cell, and the assumption under which what an
\* answer says goes by its digest: the other cells of one column, too, are
\* written differently when they say different things.
ReadAs(c) ==
  ({ArrowValue(c)} \cup UNION {{DuckDbValue(Recast("duckdb", style, c)),
                               DataFusionValue(Recast("datafusion", style, c))} : style \in {"stored", "wide"}})
    \ {Refused}
WrittenApart(c, d) ==
  SameKind(c, d) \/ Meaning(c) = Meaning(d) \/ \A v \in ReadAs(c), w \in ReadAs(d) : render(v) # render(w)
CellsAreWrittenApart ==
  \A q \in Query : \A l, m \in Asked(q) :
    LET given == Result(l, q) gotten == Result(m, q) width == Len(Columns(l, q)) IN
    Len(Columns(m, q)) = width =>
      \A i \in 1..Len(given), j \in 1..Len(gotten) :
        \A k \in 1..width : WrittenApart(given[i][k], gotten[j][k])

Told(given) ==
  LET result == Result(given.of, given.q) IN
  [i \in 1..Len(result) |-> [k \in 1..Len(result[i]) |-> Meaning(result[i][k])]]
SameTold(one, other) ==
  IF Question(one.q).ordered THEN Told(one) = Told(other)
  ELSE Told(one) \in Rearrangements(Told(other))

Comparable(r, s) ==
  /\ answer[r] # NoAnswer /\ answer[s] # NoAnswer /\ answer[r].q = answer[s].q
  /\ ~DoesNothing(r) /\ ~DoesNothing(s)

\* "None of those is a wrong answer and all of them are a different digest":
\* two drivers that were told the same have the same digest, in whatever
\* types, units, column order and row order their systems hold it.
SameAnswerSameDigest ==
  \A r, s \in working :
    Comparable(r, s) /\ SameTold(answer[r], answer[s]) => answer[r].digest = answer[s].digest

\* "Every query here produces a digest of its canonicalised result", to tell a
\* system that answered another question: one digest means that the same rows
\* came back as often, to six digits where they are floats.
SameDigestSameAnswer ==
  \A r, s \in working :
    Comparable(r, s) /\ answer[r].digest = answer[s].digest => SameTold(answer[r], answer[s])

-----------------------------------------------------------------------------
(* What the source says of itself and TLC refutes.                          *)

\* digest.rs: "two systems which produced the same characters out of a
\* differently shaped result are not recorded as agreeing.  A result with no
\* rows has an empty body and is exactly the case where the shape is the only
\* thing left to compare".
ShapesAreTold ==
  \A r, s \in working :
    Comparable(r, s) /\ answer[r].digest = answer[s].digest =>
      Len(Columns(answer[r].of, answer[r].q)) = Len(Columns(answer[s].of, answer[s].q))

=============================================================================
