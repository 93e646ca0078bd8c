--------------------------- MODULE SupervisedData ---------------------------
(***************************************************************************)
(* Trailing features, forward labels, their alignment and the              *)
(* chronological split: features/engineering.py, features/models.py,       *)
(* datasets/labels.py, datasets/models.py and datasets/splits.py.          *)
(*                                                                         *)
(* A market-data batch is its checksum and its rows in session order; a    *)
(* row keeps the opening price, the only value the label rule compares.    *)
(* A feature value is abstracted to the sessions it was computed from      *)
(* ("window"), a forward return to its sign and to the sessions whose      *)
(* opening prices were read ("reads").  Schema versions, column names and  *)
(* dtypes have one legal value each and creation times order nothing here: *)
(* they are left out.                                                      *)
(*                                                                         *)
(* Every constructor is a set: the artifact it returns, or empty when the  *)
(* code raises.                                                            *)
(***************************************************************************)
EXTENDS Integers, Sequences, FiniteSets, SequencesExt

CONSTANTS
    TRAILING_WARMUP_ROWS,   \* rows before the first defined feature (20)
    EXIT_OFFSET_SESSIONS,   \* sessions from signal to exit (6)
    CostUnit                \* the denominator of a cost rate (10000 bps)

ASSUME DataAssumption ==
    /\ TRAILING_WARMUP_ROWS \in Nat
    /\ EXIT_OFFSET_SESSIONS \in Nat /\ EXIT_OFFSET_SESSIONS > 1
    /\ CostUnit \in Nat \ {0}

ENTRY_OFFSET_SESSIONS == 1
PARTITION_NAMES == {"train", "validation", "test"}

Sessions(frame) == [i \in DOMAIN frame |-> frame[i].session]
Entries(frame) == [i \in DOMAIN frame |-> frame[i].entry]
Exits(frame) == [i \in DOMAIN frame |-> frame[i].exit]
Targets(frame) == {frame[i].target : i \in DOMAIN frame}
StrictlyIncreasing(s) == \A i \in 1..(Len(s) - 1) : s[i] < s[i + 1]

\* A boolean mask: the rows of a frame that are among these, in their order.
Where(frame, rows) ==
    LET kept[i \in 0..Len(frame)] ==
            IF i = 0 THEN <<>>
            ELSE IF frame[i] \in rows THEN Append(kept[i - 1], frame[i]) ELSE kept[i - 1]
    IN kept[Len(frame)]

\* The rows of these sessions, and those from one session to another.
RowsAt(frame, sessions) ==
    Where(frame, {row \in ToSet(frame) : row.session \in ToSet(sessions)})
Between(frame, first, last) ==
    Where(frame, {row \in ToSet(frame) : first <= row.session /\ row.session <= last})

---------------------------------------------------------------------------
(* Features *)

\* A window centred on its session: one row of it is still to come.
FeatureRow_Centred(rows, i) ==
    LET next == IF i < Len(rows) THEN i + 1 ELSE i IN
    [session |-> rows[i].session,
     window |-> {rows[j].session : j \in (next - TRAILING_WARMUP_ROWS)..next}]

FeatureRow(rows, i) ==
    [session |-> rows[i].session,
     window |-> {rows[j].session : j \in (i - TRAILING_WARMUP_ROWS)..i}]

FeatureSetHolds(fs) ==
    /\ fs.data # <<>>
    /\ StrictlyIncreasing(Sessions(fs.data))
    /\ fs.first = Head(fs.data).session
    /\ fs.last = Last(fs.data).session

build_trailing_feature_set(batch) ==
    IF Len(batch.rows) <= TRAILING_WARMUP_ROWS \/ ~StrictlyIncreasing(Sessions(batch.rows))
    THEN {}
    ELSE LET data == [i \in 1..(Len(batch.rows) - TRAILING_WARMUP_ROWS) |->
                         FeatureRow(batch.rows, i + TRAILING_WARMUP_ROWS)]
         IN {fs \in {[data |-> data, source |-> batch.checksum,
                      first |-> Head(data).session, last |-> Last(data).session]} :
                FeatureSetHolds(fs)}

---------------------------------------------------------------------------
(* Labels *)

\* TradingCostAssumptions: both bps are non-negative; the rate is their sum.
SideCost(costs) == costs.commission + costs.slippage
TradingCostHolds(costs) == costs.commission >= 0 /\ costs.slippage >= 0

\* The sign of effective_exit_price / effective_entry_price - 1.
NetForwardReturn(entryOpen, exitOpen, costs) ==
    exitOpen * (CostUnit - SideCost(costs)) - entryOpen * (CostUnit + SideCost(costs))

LabelRow(rows, i, costs) ==
    LET entry == rows[i + ENTRY_OFFSET_SESSIONS]
        exit == rows[i + EXIT_OFFSET_SESSIONS]
        net == NetForwardReturn(entry.open, exit.open, costs)
    IN [session |-> rows[i].session, entry |-> entry.session, exit |-> exit.session,
        net |-> net, target |-> IF net > 0 THEN 1 ELSE 0,
        reads |-> {entry.session, exit.session}]

\* validate_label_timeline
TimelineHolds(labels) ==
    LET s == Sessions(labels) n == Entries(labels) x == Exits(labels) IN
    /\ StrictlyIncreasing(s) /\ StrictlyIncreasing(n) /\ StrictlyIncreasing(x)
    /\ \A i \in DOMAIN labels : s[i] < n[i] /\ n[i] < x[i]
    /\ \A i \in 1..(Len(s) - ENTRY_OFFSET_SESSIONS) : n[i] = s[i + ENTRY_OFFSET_SESSIONS]
    /\ \A i \in 1..(Len(s) - EXIT_OFFSET_SESSIONS) : x[i] = s[i + EXIT_OFFSET_SESSIONS]

\* validate_target_consistency
TargetConsistent(labels) ==
    \A i \in DOMAIN labels : labels[i].target = IF labels[i].net > 0 THEN 1 ELSE 0

LabelSetHolds(ls) ==
    /\ TradingCostHolds(ls.costs)
    /\ ls.data # <<>>
    /\ TimelineHolds(ls.data)
    /\ ls.first = Head(ls.data).session /\ ls.last = Last(ls.data).session
    /\ TargetConsistent(ls.data)

build_forward_label_set(batch, costs) ==
    IF Len(batch.rows) <= EXIT_OFFSET_SESSIONS
    THEN {}
    ELSE LET data == [i \in 1..(Len(batch.rows) - EXIT_OFFSET_SESSIONS) |->
                         LabelRow(batch.rows, i, costs)]
         IN {ls \in {[data |-> data, source |-> batch.checksum, costs |-> costs,
                      first |-> Head(data).session, last |-> Last(data).session]} :
                LabelSetHolds(ls)}

---------------------------------------------------------------------------
(* The supervised dataset *)

MetadataHolds(d) == d.row_count > 0 /\ d.first <= d.last

SupervisedDatasetHolds(d) ==
    /\ Len(d.features) = Len(d.labels)
    /\ Len(d.features) = d.row_count /\ d.features # <<>>
    /\ StrictlyIncreasing(Sessions(d.features))
    /\ TimelineHolds(d.labels)
    /\ Sessions(d.features) = Sessions(d.labels)
    /\ d.first = Head(d.features).session /\ d.last = Last(d.features).session
    /\ TargetConsistent(d.labels)

build_supervised_dataset(fs, ls) ==
    LET features == RowsAt(fs.data, Sessions(ls.data))
        labels == RowsAt(ls.data, Sessions(fs.data))
    IN IF \/ fs.source # ls.source
          \/ features = <<>>
          \/ Sessions(features) # Sessions(Between(fs.data, ls.first, ls.last))
          \/ Sessions(features) # Sessions(Between(ls.data, fs.first, fs.last))
       THEN {}
       ELSE {d \in {[features |-> features, labels |-> labels, source |-> fs.source,
                     row_count |-> Len(features), first |-> Head(features).session,
                     last |-> Last(features).session]} :
                MetadataHolds(d) /\ SupervisedDatasetHolds(d)}

---------------------------------------------------------------------------
(* The chronological split *)

SplitSpecHolds(spec) ==
    /\ spec.train[1] <= spec.train[2] /\ spec.train[2] < spec.validation[1]
    /\ spec.validation[1] <= spec.validation[2] /\ spec.validation[2] < spec.test[1]
    /\ spec.test[1] <= spec.test[2]

partition_bounds(spec, name) ==
    CASE name = "train" -> spec.train
      [] name = "validation" -> spec.validation
      [] name = "test" -> spec.test

PartitionMetadataHolds(p) ==
    /\ p.name \in PARTITION_NAMES
    /\ p.row_count > 0 /\ p.excluded >= 0
    /\ p.first <= p.last /\ p.first_exit <= p.last_exit

PartitionHolds(p) ==
    LET s == Sessions(p.features) bounds == partition_bounds(p.spec, p.name) IN
    /\ Len(p.features) = Len(p.labels) /\ Len(p.features) = p.row_count
    /\ StrictlyIncreasing(s) /\ TimelineHolds(p.labels) /\ s = Sessions(p.labels)
    /\ TargetConsistent(p.labels)
    /\ p.first = Head(s) /\ p.last = Last(s)
    /\ p.first_exit = Head(p.labels).exit /\ p.last_exit = Last(p.labels).exit
    /\ \A i \in DOMAIN s : bounds[1] <= s[i] /\ s[i] <= bounds[2]
                           /\ p.labels[i].exit <= bounds[2]

\* included_mask: rows of the window whose exit stays inside it.
Included(row, bounds) ==
    bounds[1] <= row.session /\ row.session <= bounds[2] /\ row.exit <= bounds[2]

build_partition(d, spec, name) ==
    LET bounds == partition_bounds(spec, name)
        labels == Where(d.labels, {row \in ToSet(d.labels) : Included(row, bounds)})
        features == RowsAt(d.features, Sessions(labels))
    IN IF labels = <<>> \/ ~TimelineHolds(labels) \/ Sessions(features) # Sessions(labels)
       THEN {}
       ELSE {p \in {[name |-> name, features |-> features, labels |-> labels,
                     row_count |-> Len(labels), first |-> Head(labels).session,
                     last |-> Last(labels).session, first_exit |-> Head(labels).exit,
                     last_exit |-> Last(labels).exit, spec |-> spec, source |-> d.source,
                     excluded |-> Len(Between(d.labels, bounds[1], bounds[2])) - Len(labels)]} :
                PartitionMetadataHolds(p) /\ PartitionHolds(p)}

ChronologicalPartitionsHold(split) ==
    /\ \A name \in PARTITION_NAMES :
          split[name].name = name /\ split[name].spec = split.spec
    /\ \A a, b \in PARTITION_NAMES : a # b =>
          ToSet(Sessions(split[a].labels)) \cap ToSet(Sessions(split[b].labels)) = {}

split_supervised_dataset(d, spec) ==
    {s \in {[train |-> t, validation |-> v, test |-> e, spec |-> spec] :
               t \in build_partition(d, spec, "train"),
               v \in build_partition(d, spec, "validation"),
               e \in build_partition(d, spec, "test")} :
        SplitSpecHolds(spec) /\ ChronologicalPartitionsHold(s)}
============================================================================
