------------------------------- MODULE History --------------------------------
(***************************************************************************)
(* The history service (src/core/history): samples are buffered in memory  *)
(* and written to SQLite by a timer, in one transaction; a series is       *)
(* created when it is first sampled; the series of a device is keyed on its*)
(* UUID and takes over, once, the rows of the label-keyed series of older  *)
(* versions. A statement of the database may fail at any time.             *)
(***************************************************************************)
EXTENDS Integers, FiniteSets, Sequences, FiniteSetsExt

CONSTANTS MaxSamples,  \* bound on the samples taken
          MaxFaults,   \* bound on failing statements and crashes
          MaxTime,     \* bound on the clock
          MinInterval, \* MIN_SAMPLE_INTERVAL_SECONDS
          Retention    \* HistoryRetentionDays, 0 keeps everything

ASSUME HistoryAssumption ==
  {MaxSamples, MaxFaults, MaxTime, MinInterval, Retention} \subseteq Nat /\ MaxSamples # 0

VARIABLES recording, \* m_Running, with the database open
          table,     \* the series table: the keys that have a row
          rows,      \* the samples table, by row id
          ids,       \* m_SeriesIds: keys whose id is cached
          merged,    \* m_DeviceMergeChecked
          buffered,  \* m_Buffer
          lastTs,    \* m_LastSampleTs
          now, taken, faults,
          gone       \* samples a crash or the retention took (history)

histVars == <<recording, table, rows, ids, merged, buffered, lastTs, now, taken, faults, gone>>

\* temp/pool stands for the numeric series; the device's UUID key and the key
\* of the older scheme for the same label
Numeric == "temp/pool"
Device == "device/uuid"
Legacy == "device/pool-light/state"
Keys == {Numeric, Device, Legacy}

Fault == faults < MaxFaults /\ faults' = faults + 1
Works == UNCHANGED faults

-----------------------------------------------------------------------------
(* Recording                                                               *)

\* EnsureSeries: INSERT OR IGNORE, then the id is cached
EnsureSeries(key) == table' = table \cup {key} /\ ids' = ids \cup {key}

\* a mutant of the next: stamped with the end of the interval
BufferedAhead(key) ==
  /\ taken' = taken + 1
  /\ buffered' = Append(buffered, [n |-> taken + 1, key |-> key, ts |-> now + MinInterval])
  /\ lastTs' = [lastTs EXCEPT ![key] = now]
\* an insert into the buffer with the id just looked up
Buffered(key) ==
  /\ taken' = taken + 1
  /\ buffered' = Append(buffered, [n |-> taken + 1, key |-> key, ts |-> now])
  /\ lastTs' = [lastTs EXCEPT ![key] = now]

\* RecordNumeric: throttled, unless it is the heartbeat's
RecordNumeric(heartbeat) ==
  /\ recording /\ taken < MaxSamples
  /\ heartbeat \/ lastTs[Numeric] = -1 \/ now - lastTs[Numeric] >= MinInterval
  /\ \/ Works /\ EnsureSeries(Numeric) /\ Buffered(Numeric)
     \/ Numeric \notin ids /\ Fault /\ UNCHANGED <<table, ids, taken, buffered, lastTs>>
  /\ UNCHANGED <<recording, rows, merged, now, gone>>

\* the rows are re-pointed and the series row dropped, or neither
Repointed(rs) == [i \in DOMAIN rs |-> IF rs[i].key = Legacy THEN [rs[i] EXCEPT !.key = Device] ELSE rs[i]]
\* a mutant of the next: the row is dropped outside the transaction
MergeLegacyDeviceSeriesTorn(ok) ==
  /\ table' = (table \cup {Device}) \ {Legacy}
  /\ rows' = IF ok THEN Repointed(rows) ELSE rows
MergeLegacyDeviceSeries(ok) ==
  /\ table' = (table \cup {Device}) \ (IF ok THEN {Legacy} ELSE {})
  /\ rows' = IF ok THEN Repointed(rows) ELSE rows

\* RecordDeviceState: the label is noted as checked before the merge is tried,
\* and a merge that fails takes the sample with it
RecordDeviceState ==
  /\ recording /\ taken < MaxSamples
  /\ \/ /\ Legacy \in merged \/ Legacy \notin table
        /\ Works /\ EnsureSeries(Device) /\ Buffered(Device) /\ UNCHANGED rows
     \/ /\ Legacy \notin merged /\ Legacy \in table
        /\ ids' = ids \cup {Device}
        /\ \/ Works /\ MergeLegacyDeviceSeries(TRUE) /\ Buffered(Device)
           \/ Fault /\ MergeLegacyDeviceSeries(FALSE) /\ UNCHANGED <<taken, buffered, lastTs>>
  /\ merged' = merged \cup {Legacy}
  /\ UNCHANGED <<recording, now, gone>>

\* EnsureSeries fails before the merge is thought of
RecordDeviceFails ==
  /\ recording /\ Device \notin ids /\ Fault
  /\ UNCHANGED <<recording, table, rows, ids, merged, buffered, lastTs, now, taken, gone>>

\* OnConfigEvent: a temperature, the chemistry or a button; other events are
\* none of its business
OnConfigEvent == RecordNumeric(FALSE) \/ RecordDeviceState \/ RecordDeviceFails
Heartbeat == RecordNumeric(TRUE)

-----------------------------------------------------------------------------
(* The database                                                            *)

\* an insert takes the row id after the largest one
LastRow(rs) == IF DOMAIN rs = {} THEN 0 ELSE Max(DOMAIN rs)
Inserted(rs, q) ==
  [i \in DOMAIN rs \cup {LastRow(rs) + j : j \in DOMAIN q} |->
     IF i \in DOMAIN rs THEN rs[i] ELSE q[i - LastRow(rs)]]

\* Flush: one transaction; a failure anywhere rolls it back and keeps the
\* buffer
FlushTo(ok) ==
  IF ok THEN rows' = Inserted(rows, buffered) /\ buffered' = <<>> ELSE UNCHANGED <<rows, buffered>>
\* a mutant of the next: without the transaction, the inserts before the
\* failing one stay while the buffer is kept
FlushUntransacted ==
  /\ recording /\ buffered # <<>>
  /\ \/ Works /\ FlushTo(TRUE)
     \/ Fault /\ rows' = Inserted(rows, <<Head(buffered)>>) /\ UNCHANGED buffered
  /\ UNCHANGED <<recording, table, ids, merged, lastTs, now, taken, gone>>
\* a mutant of the next: a failure drops the buffer
FlushForgetful ==
  /\ recording /\ buffered # <<>>
  /\ \/ Works /\ FlushTo(TRUE)
     \/ Fault /\ buffered' = <<>> /\ UNCHANGED rows
  /\ UNCHANGED <<recording, table, ids, merged, lastTs, now, taken, gone>>
\* a mutant of the next: the timer's handler returns on an error code it has
\* left set
FlushOnce ==
  /\ recording /\ buffered # <<>> /\ faults = 0
  /\ (Works /\ FlushTo(TRUE)) \/ (Fault /\ FlushTo(FALSE))
  /\ UNCHANGED <<recording, table, ids, merged, lastTs, now, taken, gone>>
Flush ==
  /\ recording /\ buffered # <<>>
  /\ (Works /\ FlushTo(TRUE)) \/ (Fault /\ FlushTo(FALSE))
  /\ UNCHANGED <<recording, table, ids, merged, lastTs, now, taken, gone>>

\* PurgeOld: strictly older than the cutoff
Kept(r) == r.ts >= now - Retention
PurgeOld ==
  /\ recording /\ Retention # 0
  /\ Works
  /\ rows' = [i \in {j \in DOMAIN rows : Kept(rows[j])} |-> rows[i]]
  /\ gone' = gone \cup {rows[i].n : i \in {j \in DOMAIN rows : ~Kept(rows[j])}}
  /\ UNCHANGED <<recording, table, ids, merged, buffered, lastTs, now, taken>>

\* ListSeries joins the samples: a series without samples is not listed
ListSeries == {k \in table : \E i \in DOMAIN rows : rows[i].key = k}

\* QuerySeries: the samples of a range in buckets of equal width
Width(from, to, points) == IF (to - from) \div points < 1 THEN 1 ELSE (to - from) \div points
\* a mutant of the next: the end of the range is left out
QuerySeriesHalfOpen(key, from, to, points) ==
  LET w == Width(from, to, points) IN
  {(rows[i].ts \div w) * w : i \in {j \in DOMAIN rows : rows[j].key = key /\ key \in table /\ rows[j].ts \in from..(to - 1)}}
QuerySeries(key, from, to, points) ==
  LET w == Width(from, to, points) IN
  {(rows[i].ts \div w) * w : i \in {j \in DOMAIN rows : rows[j].key = key /\ key \in table /\ rows[j].ts \in from..to}}

-----------------------------------------------------------------------------
(* The service                                                             *)

\* a last flush, whose failure is logged, and the database is closed.
\* The members live on, so that a later Start finds the buffer again.
StopHistory ==
  /\ recording
  /\ \/ Works /\ FlushTo(TRUE)
     \/ buffered # <<>> /\ Fault /\ FlushTo(FALSE)
  /\ recording' = FALSE
  /\ UNCHANGED <<table, ids, merged, lastTs, now, taken, gone>>

StartHistory ==
  /\ ~recording /\ recording' = TRUE
  /\ UNCHANGED <<table, rows, ids, merged, buffered, lastTs, now, taken, faults, gone>>

\* the process is killed and a new one opens the database
HistoryCrash ==
  /\ Fault
  /\ recording' = TRUE
  /\ ids' = {} /\ merged' = {} /\ buffered' = <<>> /\ lastTs' = [k \in Keys |-> -1]
  /\ gone' = gone \cup {buffered[i].n : i \in DOMAIN buffered}
  /\ UNCHANGED <<table, rows, now, taken>>

HistoryClock ==
  /\ now < MaxTime /\ now' = now + 1
  /\ UNCHANGED <<recording, table, rows, ids, merged, buffered, lastTs, taken, faults, gone>>

\* a database written by an older version may hold the legacy series
HistoryInit ==
  /\ recording = TRUE /\ ids = {} /\ merged = {} /\ buffered = <<>> /\ gone = {}
  /\ now = 0 /\ faults = 0 /\ lastTs = [k \in Keys |-> -1]
  /\ \/ table = {} /\ rows = <<>> /\ taken = 0
     \/ table = {Legacy} /\ rows = <<[n |-> 1, key |-> Legacy, ts |-> 0]>> /\ taken = 1

HistoryNext == OnConfigEvent \/ Heartbeat \/ Flush \/ PurgeOld \/ StopHistory \/ StartHistory \/ HistoryCrash \/ HistoryClock

\* the flush timer re-arms itself whatever the flush does; main starts the
\* service it has stopped only when it runs again
HistoryFairness == WF_histVars(Flush) /\ WF_histVars(StartHistory)

HistorySpec == HistoryInit /\ [][HistoryNext]_histVars /\ HistoryFairness

-----------------------------------------------------------------------------
(* Properties                                                              *)

InBuffer == {buffered[i].n : i \in DOMAIN buffered}
InRows == {rows[i].n : i \in DOMAIN rows}

\* The values of the service's variables.
HistoryTypeOK ==
  /\ recording \in BOOLEAN /\ table \subseteq Keys /\ ids \subseteq Keys /\ merged \subseteq {Legacy}
  /\ \A i \in DOMAIN rows : rows[i] \in [n : 1..MaxSamples, key : Keys, ts : 0..MaxTime]
  /\ \A i \in DOMAIN buffered : buffered[i] \in [n : 1..MaxSamples, key : Keys, ts : 0..MaxTime]
  /\ lastTs \in [Keys -> -1..MaxTime] /\ now \in 0..MaxTime
  /\ taken \in 0..MaxSamples /\ faults \in 0..MaxFaults /\ gone \subseteq 1..MaxSamples

\* No sample is stored twice: a flush that fails after some inserts is rolled
\* back before the buffer is tried again.
StoredOnce ==
  /\ \A i, j \in DOMAIN rows : rows[i].n = rows[j].n => i = j
  /\ InRows \cap InBuffer = {}

\* A sample that was taken is in the buffer or in the table until it is older
\* than the retention; only a crash loses what was buffered.
NothingLost == 1..taken = InRows \cup InBuffer \cup gone

\* Every sample, stored or buffered, belongs to a series that has its row, and
\* a cached id is the id of such a row: the merge of a legacy series takes the
\* row away only together with the samples.
NoStrays ==
  /\ \A i \in DOMAIN rows : rows[i].key \in table
  /\ \A i \in DOMAIN buffered : buffered[i].key \in table
  /\ ids \subseteq table

\* What is stored is found again: every row of the range is in exactly one
\* bucket of the query of one listed series, and a query returns at most twice
\* the number of points asked for.
QueriesComplete ==
  \A points \in 1..2 :
    /\ \A i \in DOMAIN rows :
         \E k \in ListSeries : \E b \in QuerySeries(k, 0, now, points) :
            b <= rows[i].ts /\ rows[i].ts < b + Width(0, now, points)
    /\ \A k \in Keys : Cardinality(QuerySeries(k, 0, now, points)) <= 2 * points

\* The buffer reaches the database in the end, however often a flush fails.
BufferDrains == []<>(buffered = <<>>)

\* Every sample taken is kept once, in a series that can be listed, and is
\* found by the queries.
HistorySafe == HistoryTypeOK /\ StoredOnce /\ NothingLost /\ NoStrays /\ QueriesComplete
=============================================================================
