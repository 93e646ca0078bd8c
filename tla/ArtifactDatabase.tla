--------------------------- MODULE ArtifactDatabase ---------------------------
(***************************************************************************)
(* The V1 artifact repository (persistence/): market-data batches, final   *)
(* test evaluations and backtests, each spread over the rows of several    *)
(* SQLite tables, and the schema they live in.                             *)
(*                                                                         *)
(* A save is one deferred transaction that inserts table by table and is   *)
(* committed or rolled back; a load is a sequence of SELECTs that share no *)
(* transaction, followed by the validators of the artifact.  The columns   *)
(* are abstracted to the artifact they belong to: a table holds, for a run *)
(* id, rows of some artifact or none.  SQLite is external: one writer at a *)
(* time, a second one waits until its busy timeout, readers see committed  *)
(* rows, and a connection that dies leaves nothing behind.                 *)
(***************************************************************************)
EXTENDS Integers, Sequences, FiniteSets, SequencesExt

CONSTANTS
    Calls,       \* concurrent calls of the repository, processes or threads
    RunIds,
    Artifacts,   \* [kind, versioned, version, created : <<second, micro>>, without]
    Requests,    \* [run, artifact] that may be saved
    Schemas,     \* the schemas the database file may start with
    AtStart,     \* requests whose artifacts it already holds, if it has tables
    Versions,    \* scikit-learn versions
    MaxFaults,   \* SQLite errors and deaths
    None

VARIABLES
    db,        \* committed rows: table and run id to artifact
    schema,    \* "none", "v1", "v2" or "newer"
    writer,    \* the call whose transaction holds the write lock
    pending,   \* the rows it has inserted
    call,      \* what each call is doing
    said,      \* the last answer to each call
    runtime,
    faults

vars == <<db, schema, writer, pending, call, said, runtime, faults>>

Kinds == {"market_data", "model", "backtest"}

---------------------------------------------------------------------------
(* Tables *)

MarketTables == <<"market_data_batches", "market_data_rows">>
ModelTables ==
    <<"model_runs", "model_validation_metric_snapshots", "model_candidate_parameters",
      "model_predictions", "model_final_metrics">>
BacktestTables ==
    <<"backtest_runs", "backtest_source_market_metadata", "backtest_source_market_rows",
      "backtest_strategy_signals", "backtest_execution_prices", "backtest_proposed_orders",
      "backtest_risk_decisions", "backtest_fills", "backtest_portfolio_rows",
      "backtest_metrics">>

\* The order in which a kind is inserted and read back.
TablesOf(kind) ==
    CASE kind = "market_data" -> MarketTables
      [] kind = "model" -> ModelTables
      [] kind = "backtest" -> BacktestTables

Base(kind) == Head(TablesOf(kind))
Tables == UNION {ToSet(TablesOf(kind)) : kind \in Kinds}

\* The foreign keys: every table refers to its kind's first one, decisions to
\* orders and fills to decisions.
Parents(kind, table) ==
    CASE table = "backtest_risk_decisions" -> {Base(kind), "backtest_proposed_orders"}
      [] table = "backtest_fills" -> {Base(kind), "backtest_risk_decisions"}
      [] table = Base(kind) -> {}
      [] OTHER -> {Base(kind)}

\* The rows an artifact has in a table: a run without trades has no orders.
Rows(artifact, table) == IF table \in artifact.without THEN None ELSE artifact

\* A run without orders has no decisions, and one without decisions no fills.
NoOrphans(artifact) ==
    /\ "backtest_proposed_orders" \in artifact.without
          => "backtest_risk_decisions" \in artifact.without
    /\ "backtest_risk_decisions" \in artifact.without => "backtest_fills" \in artifact.without

ASSUME ArtifactAssumption ==
    /\ None \notin Artifacts /\ None \notin RunIds /\ None \notin Calls
    /\ \A a \in Artifacts :
          /\ a.kind \in Kinds /\ Base(a.kind) \notin a.without
          /\ "backtest_metrics" \notin a.without /\ NoOrphans(a)
    /\ \A q \in Requests : q.run \in RunIds /\ q.artifact \in Artifacts
    /\ AtStart \subseteq Requests
    /\ Schemas \subseteq {"none", "v1", "v2", "newer"}
    /\ 1 \in Versions /\ MaxFaults \in Nat

\* _reconstruct_* and the validators behind it: the runtime check is the one
\* of their conditions that may change between two calls.
Rebuilds(artifact, version) == ~artifact.versioned \/ artifact.version = version

---------------------------------------------------------------------------
(* Answers *)

Idle == [op |-> "idle"]
Answer(what, kind, run, of) == [what |-> what, kind |-> kind, run |-> run, of |-> of]
Refused(what) == Answer(what, None, None, None)

\* The connection is closed without giving the lock back.
Release_KeepsLock(c) == pending' = {} /\ UNCHANGED writer

\* connection.rollback(), or the close that implies it
Release(c) ==
    IF writer = c THEN writer' = None /\ pending' = {} ELSE UNCHANGED <<writer, pending>>

\* A new question withdraws the answer to the last one.
Begin(c, op) ==
    /\ call' = [call EXCEPT ![c] = op]
    /\ said' = [said EXCEPT ![c] = Refused("nothing")]

End(c, answer) ==
    /\ call' = [call EXCEPT ![c] = Idle]
    /\ said' = [said EXCEPT ![c] = answer]

\* _connect: the file must exist with the current schema and its index
Connects == schema = "v2"

Init ==
    /\ schema \in Schemas
    /\ db = [t \in Tables |-> [run \in RunIds |->
                LET held == {q \in AtStart : q.run = run /\ t \in ToSet(TablesOf(q.artifact.kind))}
                IN IF schema # "none" /\ held # {}
                   THEN Rows((CHOOSE q \in held : TRUE).artifact, t)
                   ELSE None]]
    /\ writer = None
    /\ pending = {}
    /\ call = [c \in Calls |-> Idle]
    /\ said = [c \in Calls |-> Refused("nothing")]
    /\ runtime = 1
    /\ faults = 0

---------------------------------------------------------------------------
(* Saving *)

\* save_market_data_batch, save_final_test_evaluation, save_backtest_result up
\* to BEGIN: the artifact is validated again, then the database is opened.
StartSave(c) ==
    /\ call[c] = Idle
    /\ \E q \in Requests :
          IF Rebuilds(q.artifact, runtime) /\ Connects
          THEN Begin(c, [op |-> "save", kind |-> q.artifact.kind, run |-> q.run,
                         artifact |-> q.artifact, next |-> 1])
          ELSE End(c, Refused(IF Rebuilds(q.artifact, runtime) THEN "schema" ELSE "invalid"))
    /\ UNCHANGED <<db, schema, writer, pending, runtime, faults>>

Saving(c) == call[c].op = "save"
Table(c) == TablesOf(call[c].kind)[call[c].next]
Unfinished(c) == call[c].next <= Len(TablesOf(call[c].kind))
Advanced(c) == [call EXCEPT ![c].next = @ + 1]

Present(table, run) ==
    db[table][run] # None \/ \E row \in pending : row.table = table /\ row.run = run

\* Whether the statements for this table violate a key.
TakesKey(c) == Rows(call[c].artifact, Table(c)) # None /\ Present(Table(c), call[c].run)
LacksParent(c) ==
    /\ Rows(call[c].artifact, Table(c)) # None
    /\ \E parent \in Parents(call[c].kind, Table(c)) : ~Present(parent, call[c].run)

NewRow(c) == [table |-> Table(c), run |-> call[c].run, artifact |-> call[c].artifact]

\* Every INSERT commits by itself: no BEGIN was executed.
Insert_Autocommits(c) ==
    /\ Saving(c) /\ Unfinished(c) /\ writer \in {None, c}
    /\ ~TakesKey(c) /\ ~LacksParent(c)
    /\ call' = Advanced(c)
    /\ db' = [db EXCEPT ![Table(c)][call[c].run] = Rows(call[c].artifact, Table(c))]
    /\ UNCHANGED <<schema, writer, pending, said, runtime, faults>>

\* The statements for one table; the first of them takes the write lock.
Insert(c) ==
    /\ Saving(c) /\ Unfinished(c) /\ writer \in {None, c}
    /\ ~TakesKey(c) /\ ~LacksParent(c)
    /\ call' = Advanced(c)
    /\ IF Rows(call[c].artifact, Table(c)) # None
       THEN writer' = c /\ pending' = pending \cup {NewRow(c)}
       ELSE UNCHANGED <<writer, pending>>
    /\ UNCHANGED <<db, schema, said, runtime, faults>>

\* sqlite3.IntegrityError: rolled back, then told apart by its message
InsertFails(c) ==
    /\ Saving(c) /\ Unfinished(c) /\ writer \in {None, c}
    /\ TakesKey(c) \/ LacksParent(c)
    /\ End(c, Answer(IF TakesKey(c) THEN "conflict" ELSE "broken",
                     call[c].kind, call[c].run, call[c].artifact))
    /\ Release(c)
    /\ UNCHANGED <<db, schema, runtime, faults>>

Commit(c) ==
    /\ Saving(c) /\ ~Unfinished(c)
    /\ db' = [t \in Tables |-> [run \in RunIds |->
                IF \E row \in pending : row.table = t /\ row.run = run
                THEN (CHOOSE row \in pending : row.table = t /\ row.run = run).artifact
                ELSE db[t][run]]]
    /\ End(c, Answer("saved", call[c].kind, call[c].run, call[c].artifact))
    /\ writer' = None /\ pending' = {}
    /\ UNCHANGED <<schema, runtime, faults>>

\* The busy timeout of a second writer, an ordinary sqlite3.Error.
Busy(c) ==
    /\ Saving(c) /\ writer \notin {None, c}
    /\ End(c, Refused("failed"))
    /\ UNCHANGED <<db, schema, writer, pending, runtime, faults>>

---------------------------------------------------------------------------
(* Loading *)

Reading(kind, run) == [op |-> "load", kind |-> kind, run |-> run, artifact |-> None,
                       next |-> 1, torn |-> FALSE]

StartLoad(c) ==
    /\ call[c] = Idle
    /\ \E kind \in Kinds, run \in RunIds :
          IF Connects
          THEN Begin(c, Reading(kind, run))
          ELSE End(c, Refused("schema"))
    /\ UNCHANGED <<db, schema, writer, pending, runtime, faults>>

\* created_at is compared as text, and isoformat leaves out a zero fraction:
\* "...:07Z" sorts after "...:07.5Z".
TextAfter(a, b) ==
    \/ a[1] > b[1]
    \/ a[1] = b[1] /\ (IF a[2] = 0 THEN b[2] # 0 ELSE b[2] # 0 /\ a[2] > b[2])

\* ORDER BY created_at DESC; ties, broken by the run id, are left open.
LatestRuns ==
    LET rows == {run \in RunIds : db["market_data_batches"][run] # None}
        Created(run) == db["market_data_batches"][run].created
    IN {run \in rows : \A other \in rows : ~TextAfter(Created(other), Created(run))}

\* load_latest_market_data_batch: the first SELECT picks the run id
StartLatest(c) ==
    /\ call[c] = Idle
    /\ IF ~Connects \/ LatestRuns = {}
       THEN End(c, Refused(IF Connects THEN "empty" ELSE "schema"))
       ELSE \E run \in LatestRuns : Begin(c, Reading("market_data", run))
    /\ UNCHANGED <<db, schema, writer, pending, runtime, faults>>

Loading(c) == call[c].op = "load"

ReadBase(c) ==
    LET found == db[Base(call[c].kind)][call[c].run] IN
    /\ Loading(c) /\ call[c].next = 1
    /\ IF found = None
       THEN End(c, Answer("missing", call[c].kind, call[c].run, None))
       ELSE call' = [call EXCEPT ![c].artifact = found, ![c].next = 2] /\ UNCHANGED said
    /\ UNCHANGED <<db, schema, writer, pending, runtime, faults>>

ReadTable(c) ==
    /\ Loading(c) /\ call[c].next > 1 /\ Unfinished(c)
    /\ call' = [call EXCEPT ![c].next = @ + 1,
                            ![c].torn = @ \/ db[Table(c)][call[c].run]
                                               # Rows(call[c].artifact, Table(c))]
    /\ UNCHANGED <<db, schema, writer, pending, said, runtime, faults>>

\* The artifact is rebuilt from the rows; its validators reject any that do not
\* belong together, and another scikit-learn than it was made with.
Rebuild(c) ==
    /\ Loading(c) /\ ~Unfinished(c)
    /\ End(c, Answer(IF call[c].torn THEN "broken"
                     ELSE IF Rebuilds(call[c].artifact, runtime) THEN "loaded"
                     ELSE "unreadable", call[c].kind, call[c].run, call[c].artifact))
    /\ UNCHANGED <<db, schema, writer, pending, runtime, faults>>

\* list_model_runs and list_backtests: one statement, the second one a join
Listed(kind) ==
    {run \in RunIds :
        /\ db[Base(kind)][run] # None
        /\ kind = "backtest" => db["backtest_metrics"][run] # None}

ListRuns(c) ==
    /\ call[c] = Idle
    /\ \E kind \in {"model", "backtest"} :
          End(c, IF Connects THEN Answer("listed", kind, None, Listed(kind)) ELSE Refused("schema"))
    /\ UNCHANGED <<db, schema, writer, pending, runtime, faults>>

---------------------------------------------------------------------------
(* The schema, and what goes wrong *)

\* initialize_database: one transaction, from nothing or from version 1; a
\* database of a later version, or one locked for too long, is left alone
InitializeDatabase(c) ==
    /\ call[c] = Idle
    /\ IF schema = "newer" \/ writer # None
       THEN End(c, Refused("schema")) /\ UNCHANGED schema
       ELSE schema' = "v2" /\ UNCHANGED <<call, said>>
    /\ UNCHANGED <<db, writer, pending, runtime, faults>>

Fail(c) ==
    /\ call[c] # Idle /\ faults < MaxFaults
    /\ faults' = faults + 1
    /\ \E what \in {"failed", "died"} : End(c, Refused(what))
    /\ Release(c)
    /\ UNCHANGED <<db, schema, runtime>>

Upgrade ==
    /\ runtime + 1 \in Versions
    /\ runtime' = runtime + 1
    /\ UNCHANGED <<db, schema, writer, pending, call, said, faults>>

Step(c) ==
    \/ Insert(c) \/ InsertFails(c) \/ Commit(c) \/ Busy(c)
    \/ ReadBase(c) \/ ReadTable(c) \/ Rebuild(c)

Next ==
    \/ \E c \in Calls :
          \/ Step(c)
          \/ StartSave(c) \/ StartLoad(c) \/ StartLatest(c) \/ ListRuns(c)
          \/ InitializeDatabase(c) \/ Fail(c)
    \/ Upgrade

Spec == Init /\ [][Next]_vars

---------------------------------------------------------------------------
(* Properties *)

Operations ==
    {Idle}
      \cup [op : {"save"}, kind : Kinds, run : RunIds, artifact : Artifacts, next : 1..11]
      \cup [op : {"load"}, kind : Kinds, run : RunIds, artifact : Artifacts \cup {None},
            next : 1..11, torn : BOOLEAN]

TypeOK ==
    /\ db \in [Tables -> [RunIds -> Artifacts \cup {None}]]
    /\ schema \in {"none", "v1", "v2", "newer"}
    /\ writer \in Calls \cup {None}
    /\ pending \subseteq [table : Tables, run : RunIds, artifact : Artifacts]
    /\ call \in [Calls -> Operations]
    /\ runtime \in Versions /\ faults \in 0..MaxFaults

\* NoStrandedLock: the write lock, and rows not yet committed, belong to a save
\* that is still running: a refused, failed or dead one blocks nobody.
NoStrandedLock ==
    IF writer = None THEN pending = {}
    ELSE /\ call[writer].op = "save"
         /\ \A row \in pending :
               row.artifact = call[writer].artifact /\ row.run = call[writer].run

\* What is committed under a kind and a run id: an artifact with all the rows it
\* has, nothing, or rows that do not belong together.
Stored(kind, run) ==
    LET found == db[Base(kind)][run]
        Whole == \A i \in DOMAIN TablesOf(kind) :
                    LET t == TablesOf(kind)[i]
                    IN db[t][run] = IF found = None THEN None ELSE Rows(found, t)
    IN IF Whole THEN found ELSE [kind |-> "torn"]

\* KeepsPromise: the repository implements ArtifactPromise: whoever overlaps,
\* fails or dies between two inserts or two reads, artifacts are whole or absent,
\* published once and never changed, no load finds rows that do not belong
\* together, and every answer is true when it is given (save_*, load_*, list_*).
Kept == INSTANCE ArtifactPromise WITH
            stored <- [kind \in Kinds |-> [run \in RunIds |-> Stored(kind, run)]]
KeepsPromise == Kept!Promise
============================================================================
