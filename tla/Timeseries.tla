----------------------------- MODULE Timeseries -----------------------------
(***************************************************************************)
(* The raw time series and the two procedures that pg_cron calls at the    *)
(* end of every bucket to turn them into the processed ones:               *)
(* process_raw_tsdb_faction_presences and                                  *)
(* process_raw_tsdb_power_conflict_progress.                               *)
(*                                                                         *)
(* A series is known by its [system, who]: who is a faction in the one     *)
(* table, a power in the other.  A value stands for one column of a row.   *)
(***************************************************************************)
EXTENDS Integers, FiniteSets, TLC

CONSTANTS
    Null,
    Systems, Factions, Powers,
    Bucket,             \* every, in ticks
    Week,               \* date_trunc('week'), in ticks
    MaxDelay,           \* bounds the age of a message on arrival
    MaxReports,         \* bounds the rows of the raw tables
    MaxMissed,          \* bounds the calls that fail
    Horizon             \* bounds the clock

Values == {1, 2}

ASSUME TimeseriesAssumption ==
    /\ Null \notin Values
    /\ Factions \cap Powers = {}
    /\ Bucket \in Nat \ {0}
    /\ Week \in Nat \ {0}
    /\ Week % Bucket = 0
    /\ {MaxDelay, MaxReports, MaxMissed, Horizon} \subseteq Nat

VARIABLES
    now,
    presences,          \* the keys of core.faction_presences
    unoccupied,         \* the systems whose power_state is Unoccupied
    raw,                \* raw_timescaledb.faction_presences, power_conflict_progress
    processed,          \* timescaledb.faction_presences, power_conflict_progress
    due,                \* the jobs that pg_cron has started
    missed              \* the buckets whose call failed (history)

tsVars == <<now, presences, unoccupied, raw, processed, due, missed>>

Jobs == {"presences", "powers"}

Series(job) == [system : Systems, who : IF job = "presences" THEN Factions ELSE Powers]

\* Where the bucket of t starts.
Start(t) == t - (t % Bucket)

TSInit ==
    /\ now = 0
    /\ presences = {}
    /\ unoccupied = {}
    /\ raw = {}
    /\ processed = [job \in Jobs |-> [k \in {} |-> Null]]
    /\ due = {}
    /\ missed = {}

-----------------------------------------------------------------------------
\* A row of a raw table.  "timely" says that its bucket was not over when it
\* came (history), "copies" tells equal rows apart, as their id.
Row(job, series, value, time, copies) ==
    [job |-> job, series |-> series, value |-> value, time |-> time,
     timely |-> Start(time) = Start(now), copies |-> copies]

\* A journal message of some time ago stores a report.
Report ==
    /\ Cardinality(raw) < MaxReports
    /\ \E job \in Jobs, value \in Values \cup {Null}, age \in 0..MaxDelay :
          \E series \in Series(job) :
             LET row(n) == Row(job, series, value, now - age, n)
                 copies == {r \in raw : r = row(r.copies)}
             IN
             /\ age <= now
             /\ job = "powers" => value # Null
             /\ raw' = raw \cup {row(Cardinality(copies))}
    /\ UNCHANGED <<now, presences, unoccupied, processed, due, missed>>

\* The presence itself, from a journal message or from a dump: another commit.
LearnPresence ==
    /\ \E p \in Series("presences") : presences' = presences \cup {p}
    /\ UNCHANGED <<now, unoccupied, raw, processed, due, missed>>

ChangePowerState ==
    /\ \E s \in Systems :
          unoccupied' = IF s \in unoccupied THEN unoccupied \ {s} ELSE unoccupied \cup {s}
    /\ UNCHANGED <<now, presences, raw, processed, due, missed>>

\* cron.schedule('*/15 * * * *').  A call that is not over by then counts as
\* one that failed (ProcessFails).
Tick ==
    /\ now < Horizon
    /\ (now + 1) % Bucket = 0 => due = {}
    /\ now' = now + 1
    /\ due' = IF now' % Bucket = 0 THEN Jobs ELSE due
    /\ UNCHANGED <<presences, unoccupied, raw, processed, missed>>

-----------------------------------------------------------------------------
\* generate_series from the start of the week up to now.
BucketStarts(t) == {b \in (t - (t % Week))..t : b % Bucket = 0}

\* Mutant: the bucket that is not over yet.
BucketOfNow(t) == {b \in BucketStarts(t) : \A c \in BucketStarts(t) : c <= b}

\* order by bucket_start desc offset 1 limit 1: none in the first bucket of the
\* week.
BucketToProcess(t) ==
    {b \in BucketStarts(t) : \E c \in BucketStarts(t) : {d \in BucketStarts(t) : d > b} = {c}}

Reports(job) == {r \in raw : r.job = job}

InBucket(r, b) == b <= r.time /\ r.time < b + Bucket

Count(reports, v) == Cardinality({r \in reports : r.value = v})

\* mode() within group: NULLs do not count, the first of the most frequent.
Mode(reports) ==
    LET values == {r.value : r \in reports} \ {Null} IN
    IF values = {} THEN Null
    ELSE CHOOSE v \in values : \A w \in values :
            \/ Count(reports, v) > Count(reports, w)
            \/ Count(reports, v) = Count(reports, w) /\ v <= w

Measured(job, b) == {r.series : r \in {r \in Reports(job) : InBucket(r, b)}}

MeasuredRow(job, b, s) ==
    [value |-> Mode({r \in Reports(job) : InBucket(r, b) /\ r.series = s}),
     updated_at |-> b, is_backfilled |-> FALSE]

\* Mutant: the conflicts are looked up power by power.
MissingOfSeries(job, b) ==
    IF job = "presences" THEN presences \ Measured(job, b)
    ELSE {k.series : k \in DOMAIN processed["powers"]} \ Measured(job, b)

\* What the last bucket has nothing of: the presences that the core table
\* knows; the conflicts that the processed series knows, in systems that are
\* still unoccupied and of which no conflict was reported.
Missing(job, b) ==
    IF job = "presences" THEN presences \ Measured(job, b)
    ELSE {s \in {k.series : k \in DOMAIN processed["powers"]} :
            /\ s.system \in unoccupied
            /\ s.system \notin {m.system : m \in Measured(job, b)}}

\* Mutant: the latest report of the system, whosever it is.
LatestOfSystem(job, s) ==
    LET of == {r \in Reports(job) : r.series.system = s.system} IN
    {r \in of : \A q \in of : q.time <= r.time}

\* Mutant: only what the bucket before has.
LatestOfBucketBefore(job, s) ==
    {r \in Reports(job) : r.series = s /\ InBucket(r, Start(now) - 2 * Bucket)}

\* order by timestamp desc limit 1, over the whole raw table
Latest(job, s) ==
    {r \in Reports(job) : r.series = s /\ \A q \in Reports(job) : q.series = s => q.time <= r.time}

\* One report, of the latest, per series that has any.
Backfills(job, b) ==
    LET series == {s \in Missing(job, b) : Latest(job, s) # {}} IN
    {f \in [series -> Reports(job)] : \A s \in series : f[s] \in Latest(job, s)}

BackfilledRow(r) == [value |-> r.value, updated_at |-> r.time, is_backfilled |-> TRUE]

Key(s, b) == [series |-> s, time |-> b]

\* insert ... on conflict do update
Process(job) ==
    /\ job \in due
    /\ \E b \in BucketToProcess(now) : \E fill \in Backfills(job, b) :
          LET measured == {Key(s, b) : s \in Measured(job, b)}
              filled == {Key(s, b) : s \in DOMAIN fill}
          IN
          processed' = [processed EXCEPT ![job] =
            [k \in DOMAIN @ \cup measured \cup filled |->
                IF k \in measured THEN MeasuredRow(job, b, k.series)
                ELSE IF k \in filled THEN BackfilledRow(fill[k.series])
                ELSE @[k]]]
    /\ due' = due \ {job}
    /\ UNCHANGED <<now, presences, unoccupied, raw, missed>>

\* No bucket: there is nothing to insert, or the backfilled rows have no
\* timestamp and its NOT NULL refuses them.
ProcessNothing(job) ==
    /\ job \in due
    /\ BucketToProcess(now) = {}
    /\ due' = due \ {job}
    /\ UNCHANGED <<now, presences, unoccupied, raw, processed, missed>>

\* The call is one statement: the database does all of it or nothing.
ProcessFails(job) ==
    /\ job \in due
    /\ Cardinality(missed) < MaxMissed
    /\ due' = due \ {job}
    /\ missed' = missed \cup {<<job, Start(now) - Bucket>>}
    /\ UNCHANGED <<now, presences, unoccupied, raw, processed>>

TSNext ==
    \/ Report \/ LearnPresence \/ ChangePowerState \/ Tick
    \/ \E job \in Jobs : Process(job) \/ ProcessNothing(job) \/ ProcessFails(job)

TSSpec == TSInit /\ [][TSNext]_tsVars

-----------------------------------------------------------------------------
TSTypeOK ==
    /\ now \in 0..Horizon
    /\ presences \subseteq Series("presences")
    /\ unoccupied \subseteq Systems
    /\ \A r \in raw :
          /\ r.job \in Jobs
          /\ r.series \in Series(r.job)
          /\ r.value \in Values \cup {Null}
          /\ r.time \in 0..now
          /\ r.timely \in BOOLEAN
    /\ DOMAIN processed = Jobs
    /\ \A job \in Jobs : \A k \in DOMAIN processed[job] :
          /\ k = Key(k.series, k.time)
          /\ k.series \in Series(job)
          /\ k.time \in Nat /\ k.time % Bucket = 0 /\ k.time < Start(now)
          /\ processed[job][k].value \in Values \cup {Null}
          /\ processed[job][k].updated_at \in 0..now
          /\ processed[job][k].is_backfilled \in BOOLEAN
    /\ due \subseteq Jobs
    /\ \A m \in missed : m[1] \in Jobs /\ m[2] \in Int /\ m[2] < now

\* Every processed row was reported: the value of a measured one by a report of
\* its series in its bucket, a backfilled one by a report of its series at the
\* time the row says (updated_at).  Neither the joins nor a late report may
\* put one series' value into another.
RowsComeFromReports ==
    \A job \in Jobs : \A k \in DOMAIN processed[job] :
        \E r \in Reports(job) :
            /\ r.series = k.series
            /\ r.value = processed[job][k].value
            /\ IF processed[job][k].is_backfilled
               THEN r.time = processed[job][k].updated_at
               ELSE InBucket(r, k.time)

\* The call for bucket b is over, and has not failed.
Covered(job, b) ==
    /\ now >= b + 2 * Bucket \/ (now >= b + Bucket /\ job \notin due)
    /\ <<job, b>> \notin missed
    /\ (b + Bucket) % Week # 0

\* A report that arrives before its bucket ends is measured when the bucket's
\* call has run: pg_cron's schedule and the procedure's "offset 1" agree on
\* which bucket is over.  The week's last bucket is excepted: no call is for it.
TimelyReportsCounted ==
    \A job \in Jobs : \A r \in Reports(job) :
        LET b == Start(r.time) IN
        r.timely /\ Covered(job, b) =>
            /\ Key(r.series, b) \in DOMAIN processed[job]
            /\ ~processed[job][Key(r.series, b)].is_backfilled

\* Once the presences' series was filled for a pair that nobody reported, it has
\* a row of that pair in every later bucket that a call was made for.
BackfillLeavesNoGap ==
    \A k \in DOMAIN processed["presences"] :
        processed["presences"][k].is_backfilled =>
            \A b \in {c \in (k.time + 1)..now : c % Bucket = 0} :
                Covered("presences", b) =>
                    Key(k.series, b) \in DOMAIN processed["presences"]

\* A system's conflict is measured in a bucket or filled in it, never some of
\* its powers by a report of now and some by one of long ago.
ConflictNeverMixed ==
    \A k, l \in DOMAIN processed["powers"] :
        k.time = l.time /\ k.series.system = l.series.system =>
            processed["powers"][k].is_backfilled = processed["powers"][l].is_backfilled

=============================================================================
