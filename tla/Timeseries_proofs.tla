-------------------------- MODULE Timeseries_proofs -------------------------
(***************************************************************************)
(* What the processed series hold, for any systems, factions and powers,   *)
(* any lengths of the bucket and of the week, any number of reports, late  *)
(* ones and failed calls among them.                                       *)
(*                                                                         *)
(* First the calendar: which bucket a call is for.  Then the invariant: a  *)
(* bucket is written at most once, by the call at its end.                 *)
(***************************************************************************)
EXTENDS Timeseries, FiniteSetTheorems, WellFoundedInduction, TLAPS

LEMMA Division ==
    ASSUME NEW n \in Int, n > 0, NEW x \in Int
    PROVE  /\ x % n \in 0..(n - 1)
           /\ x \div n \in Int
           /\ x = n * (x \div n) + (x % n)
<1>1. x % n \in 0..(n - 1)
  BY SMT
<1>2. x \div n \in Int
  BY SMT
<1>3. x = n * (x \div n) + (x % n)
  BY SMT
<1> QED BY <1>1, <1>2, <1>3

LEMMA Multiple ==
    ASSUME NEW n \in Int, n > 0, NEW q \in Int
    PROVE  (n * q) % n = 0
<1>1. n * q \in Int
  BY SMT
<1>2. ASSUME NEW x \in Int, x = n * q PROVE x % n = 0
  BY <1>2, SMT
<1> QED BY <1>1, <1>2

\* Two multiples of n are equal or at least n apart, and so are their neighbours.
LEMMA Multiples ==
    ASSUME NEW n \in Int, n > 0, NEW x \in Int, NEW y \in Int,
           x % n = 0, y % n = 0
    PROVE  /\ (x + n) % n = 0
           /\ (x - n) % n = 0
           /\ x < y => x + n <= y
<1> DEFINE p == x \div n
           q == y \div n
<1>1. p \in Int /\ q \in Int /\ x = n * p /\ y = n * q
  <2>1. p \in Int /\ x = n * p + 0
    BY Division
  <2>2. q \in Int /\ y = n * q + 0
    BY Division
  <2> QED BY <2>1, <2>2, SMT
<1> HIDE DEF p, q
<1>2. (x + n) % n = 0
  <2>1. x + n = n * (p + 1) /\ p + 1 \in Int
    BY <1>1, SMT
  <2> QED BY <2>1, Multiple
<1>3. (x - n) % n = 0
  <2>1. x - n = n * (p - 1) /\ p - 1 \in Int
    BY <1>1, SMT
  <2> QED BY <2>1, Multiple
<1>4. ASSUME x < y PROVE x + n <= y
  <2>1. p < q
    BY <1>1, <1>4, SMT
  <2>2. n * (p + 1) <= n * q
    BY <1>1, <2>1, SMT
  <2> QED BY <1>1, <2>2, SMT
<1> QED BY <1>2, <1>3, <1>4

\* The multiple of n at or before t.
LEMMA Floor ==
    ASSUME NEW n \in Int, n > 0, NEW t \in Nat
    PROVE  /\ t - (t % n) \in Nat
           /\ t - (t % n) <= t /\ t < t - (t % n) + n
           /\ (t - (t % n)) % n = 0
           /\ \A b \in Int : b % n = 0 /\ b <= t => b <= t - (t % n)
           /\ \A b \in Int : b % n = 0 /\ b <= t /\ t < b + n => b = t - (t % n)
<1> DEFINE r == t % n
           q == t \div n
<1>1. r \in 0..(n - 1) /\ q \in Int /\ t = n * q + r
  BY Division
<1> HIDE DEF r, q
<1>2. t - r <= t /\ t < t - r + n /\ t - r = n * q
  BY <1>1, SMT
<1>3. (t - r) % n = 0
  BY <1>1, <1>2, Multiple
<1>4. t - r \in Nat
  <2>1. q >= 0
    BY <1>1, SMT
  <2>2. n * q >= 0
    BY <1>1, <2>1, SMT
  <2> QED BY <1>1, <1>2, <2>2, SMT
<1>5. ASSUME NEW b \in Int, b % n = 0, b <= t PROVE b <= t - r
  <2>1. t - r < b => t - r + n <= b
    BY <1>3, <1>4, <1>5, Multiples
  <2> QED BY <1>1, <1>2, <1>4, <1>5, <2>1, SMT
<1>6. ASSUME NEW b \in Int, b % n = 0, b <= t, t < b + n PROVE b = t - r
  <2>1. b < t - r => b + n <= t - r
    BY <1>3, <1>4, <1>6, Multiples
  <2> QED BY <1>1, <1>2, <1>4, <1>5, <1>6, <2>1, SMT
<1> QED BY <1>2, <1>3, <1>4, <1>5, <1>6 DEF r

LEMMA StartIs ==
    ASSUME NEW t \in Nat
    PROVE  /\ Start(t) \in Nat
           /\ Start(t) <= t /\ t < Start(t) + Bucket
           /\ Start(t) % Bucket = 0
           /\ \A b \in Int : b % Bucket = 0 /\ b <= t => b <= Start(t)
           /\ \A b \in Int : b % Bucket = 0 /\ b <= t /\ t < b + Bucket => b = Start(t)
<1>1. Bucket \in Int /\ Bucket > 0
  BY TimeseriesAssumption, SMT
<1> QED BY <1>1, Floor DEF Start

\* The bucket changes when the clock reaches a multiple, and by one.
LEMMA ClockTick ==
    ASSUME NEW t \in Nat
    PROVE  /\ (t + 1) % Bucket = 0 => Start(t + 1) = Start(t) + Bucket /\ Start(t + 1) = t + 1
           /\ (t + 1) % Bucket # 0 => Start(t + 1) = Start(t)
<1>1. Bucket \in Int /\ Bucket > 0 /\ t + 1 \in Nat
  BY TimeseriesAssumption, SMT
<1> DEFINE b == Start(t)
           c == Start(t + 1)
<1>2. b \in Nat /\ b <= t /\ t < b + Bucket /\ b % Bucket = 0
  BY StartIs
<1>3. c \in Nat /\ c <= t + 1 /\ t + 1 < c + Bucket /\ c % Bucket = 0
  BY <1>1, StartIs
<1> HIDE DEF b, c
<1>4. b < c => b + Bucket <= c
  <2>1. b \in Int /\ c \in Int /\ Bucket \in Int /\ Bucket > 0
    BY <1>1, <1>2, <1>3, SMT
  <2> QED BY <1>2, <1>3, <2>1, Multiples
<1>5. c < b => c + Bucket <= b
  <2>1. b \in Int /\ c \in Int /\ Bucket \in Int /\ Bucket > 0
    BY <1>1, <1>2, <1>3, SMT
  <2> QED BY <1>2, <1>3, <2>1, Multiples
<1>7. ASSUME (t + 1) % Bucket = 0 PROVE c = b + Bucket /\ c = t + 1
  <2>1. t + 1 <= c
    BY <1>1, <1>7, StartIs, SMT DEF c
  <2> QED BY <1>1, <1>2, <1>3, <1>4, <2>1, SMT
<1>8. ASSUME (t + 1) % Bucket # 0 PROVE c = b
  <2>1. c # t + 1
    BY <1>3, <1>8
  <2> QED BY <1>1, <1>2, <1>3, <1>4, <1>5, <2>1, SMT
<1> QED BY <1>7, <1>8 DEF b, c

LEMMA WeekStart ==
    ASSUME NEW t \in Nat
    PROVE  /\ t - (t % Week) \in Nat
           /\ t - (t % Week) <= Start(t)
           /\ (t - (t % Week)) % Week = 0
           /\ (t - (t % Week)) % Bucket = 0
<1> DEFINE w == t - (t % Week)
           k == Week \div Bucket
           q == w \div Week
<1>1. Week \in Int /\ Week > 0 /\ Bucket \in Int /\ Bucket > 0 /\ Week % Bucket = 0
  BY TimeseriesAssumption, SMT
<1>2. w \in Nat /\ w <= t /\ w % Week = 0
  BY <1>1, Floor
<1>3. k \in Int /\ Week = Bucket * k + 0
  BY <1>1, Division
<1>4. q \in Int /\ w = Week * q + 0
  BY <1>1, <1>2, Division
<1>5. k * q \in Int /\ w = Bucket * (k * q)
  <2> HIDE DEF w, k, q
  <2>1. Week = Bucket * k /\ w = Week * q
    BY <1>1, <1>2, <1>3, <1>4, SMT
  <2> QED BY <1>1, <1>3, <1>4, <2>1, SMT
<1>6. w % Bucket = 0
  <2>1. \A p \in Int : (Bucket * p) % Bucket = 0
    BY <1>1, Multiple
  <2> HIDE DEF w, k, q
  <2>2. (Bucket * (k * q)) % Bucket = 0
    BY <1>5, <2>1
  <2> QED BY <1>5, <2>2
<1> QED BY <1>2, <1>6, StartIs

\* A call is for the bucket that is just over.
LEMMA CallIsForLastBucket ==
    ASSUME NEW t \in Nat, NEW b \in BucketToProcess(t)
    PROVE  b = Start(t) - Bucket /\ b \in Nat /\ b % Bucket = 0
<1> DEFINE w == t - (t % Week)
<1>1. Bucket \in Int /\ Bucket > 0
  BY TimeseriesAssumption, SMT
<1>2. w \in Nat /\ w <= Start(t)
  BY WeekStart
<1>3. Start(t) \in Nat /\ Start(t) <= t /\ Start(t) % Bucket = 0
  BY StartIs
<1>4. PICK c \in BucketStarts(t) : {d \in BucketStarts(t) : d > b} = {c}
  BY DEF BucketToProcess
<1>5. b \in BucketStarts(t) /\ c > b
  BY <1>4 DEF BucketToProcess
<1>6. b \in w..t /\ c \in w..t /\ b % Bucket = 0 /\ c % Bucket = 0
  BY <1>5, <1>2 DEF BucketStarts
<1> HIDE DEF w
<1>7. b \in Nat /\ c \in Nat /\ b <= t
  BY <1>2, <1>6, SMT
<1>8. b + Bucket <= c /\ (b + Bucket) % Bucket = 0
  BY <1>1, <1>5, <1>6, <1>7, Multiples
<1>9. Start(t) \in BucketStarts(t)
  BY <1>2, <1>3, SMT DEF BucketStarts, w
<1>10. b + Bucket \in BucketStarts(t)
  <2>1. b + Bucket \in w..t
    BY <1>1, <1>2, <1>6, <1>7, <1>8, SMT
  <2> QED BY <1>8, <2>1 DEF BucketStarts, w
<1>11. b + Bucket = c
  BY <1>1, <1>4, <1>7, <1>10, SMT
<1>12. c <= Start(t)
  BY <1>6, <1>7, StartIs, SMT
<1>13. Start(t) = c
  BY <1>3, <1>4, <1>5, <1>7, <1>9, <1>12, SMT
<1> QED BY <1>1, <1>6, <1>7, <1>11, <1>13, SMT

\* Only the week's first bucket is without one.
LEMMA CallForEveryBucketButOne ==
    ASSUME NEW t \in Nat, Start(t) % Week # 0
    PROVE  Start(t) - Bucket \in BucketToProcess(t)
<1> DEFINE w == t - (t % Week)
           s == Start(t)
           b == s - Bucket
<1>1. Bucket \in Int /\ Bucket > 0
  BY TimeseriesAssumption, SMT
<1>2. w \in Nat /\ w <= s /\ w % Week = 0 /\ w % Bucket = 0
  BY WeekStart
<1>3. s \in Nat /\ s <= t /\ s % Bucket = 0
  BY StartIs
<1>4. s # w
  BY <1>2
<1> HIDE DEF w, s
<1>5. w + Bucket <= s
  <2>1. w < s
    BY <1>2, <1>3, <1>4, SMT
  <2>2. w \in Int /\ s \in Int
    BY <1>2, <1>3, SMT
  <2> QED BY <1>1, <1>2, <1>3, <2>1, <2>2, Multiples
<1>6. b % Bucket = 0
  <2>1. s \in Int
    BY <1>3, SMT
  <2> QED BY <1>1, <1>3, <2>1, Multiples
<1>7. b \in BucketStarts(t) /\ s \in BucketStarts(t)
  <2>1. b \in w..t /\ s \in w..t
    BY <1>1, <1>2, <1>3, <1>5, SMT
  <2> QED BY <2>1, <1>3, <1>6 DEF BucketStarts, w
<1>8. ASSUME NEW d \in BucketStarts(t), d > b PROVE d = s
  <2>1. d \in w..t /\ d % Bucket = 0
    BY DEF BucketStarts, w
  <2>2. d \in Int /\ d <= t
    BY <1>2, <2>1, SMT
  <2>3. d <= s
    BY <2>1, <2>2, StartIs DEF s
  <2>4. b \in Int
    BY <1>1, <1>3, SMT
  <2>5. b + Bucket <= d
    BY <1>1, <1>6, <1>8, <2>1, <2>2, <2>4, Multiples
  <2> QED BY <1>1, <1>3, <2>2, <2>3, <2>5, SMT
<1>9. s > b
  <2> QED BY <1>1, <1>3, SMT
<1>10. {d \in BucketStarts(t) : d > b} = {s}
  BY <1>7, <1>8, <1>9
<1> QED BY <1>7, <1>10 DEF BucketToProcess, s

-----------------------------------------------------------------------------
FiniteReports == IsFiniteSet(raw)

\* The bucket that is just over has no row while its call is due.
WrittenOnce ==
    \A job \in Jobs : \A k \in DOMAIN processed[job] :
        \/ k.time < Start(now) - Bucket
        \/ k.time = Start(now) - Bucket /\ job \notin due

FilledAreKnown ==
    \A k \in DOMAIN processed["presences"] :
        processed["presences"][k].is_backfilled => k.series \in presences

TSInv ==
    /\ TSTypeOK /\ FiniteReports /\ WrittenOnce /\ FilledAreKnown
    /\ RowsComeFromReports /\ TimelyReportsCounted
    /\ BackfillLeavesNoGap /\ ConflictNeverMixed

-----------------------------------------------------------------------------
\* What a report adds.
Reported(row) ==
    /\ raw' = raw \cup {row}
    /\ row.job \in Jobs
    /\ row.series \in Series(row.job)
    /\ row.value \in Values \cup {Null}
    /\ row.time \in 0..now
    /\ row.timely \in BOOLEAN
    /\ row.timely => Start(row.time) = Start(now)

LEMMA ReportAdds ==
    ASSUME TSTypeOK, Report
    PROVE  \E row : Reported(row)
<1>1. PICK job \in Jobs, value \in Values \cup {Null}, age \in 0..MaxDelay :
         \E series \in Series(job) : \E n :
            age <= now /\ raw' = raw \cup {Row(job, series, value, now - age, n)}
  BY DEF Report
<1>2. PICK series \in Series(job) : \E n :
         age <= now /\ raw' = raw \cup {Row(job, series, value, now - age, n)}
  BY <1>1
<1>3. PICK n : raw' = raw \cup {Row(job, series, value, now - age, n)}
  BY <1>2
<1>4. now - age \in 0..now
  BY <1>2, TimeseriesAssumption, SMT DEF TSTypeOK
<1> DEFINE row == Row(job, series, value, now - age, n)
<1>5. /\ row.job = job /\ row.series = series /\ row.value = value
      /\ row.time = now - age /\ row.timely = (Start(now - age) = Start(now))
  BY DEF Row
<1>6. Reported(row)
  BY <1>2, <1>3, <1>4, <1>5 DEF Reported
<1> QED BY <1>6

\* What a call for bucket b writes.
Written(job, b, fill) ==
    /\ DOMAIN processed' = Jobs
    /\ \A j \in Jobs \ {job} : processed'[j] = processed[j]
    /\ DOMAIN processed'[job] =
          DOMAIN processed[job] \cup {Key(s, b) : s \in Measured(job, b)}
                                \cup {Key(s, b) : s \in DOMAIN fill}
    /\ \A k \in DOMAIN processed[job] : k.time < b /\ processed'[job][k] = processed[job][k]
    /\ \A s \in Measured(job, b) : processed'[job][Key(s, b)] = MeasuredRow(job, b, s)
    /\ \A s \in DOMAIN fill :
          s \notin Measured(job, b) /\ processed'[job][Key(s, b)] = BackfilledRow(fill[s])

LEMMA KeyIs ==
    \A s, b : Key(s, b).series = s /\ Key(s, b).time = b
BY DEF Key

LEMMA FillIs ==
    ASSUME NEW job, NEW b, NEW fill \in Backfills(job, b)
    PROVE  /\ DOMAIN fill = {s \in Missing(job, b) : Latest(job, s) # {}}
           /\ \A s \in DOMAIN fill : fill[s] \in Latest(job, s)
           /\ \A s \in DOMAIN fill : s \notin Measured(job, b)
<1>1. DOMAIN fill = {s \in Missing(job, b) : Latest(job, s) # {}}
  BY DEF Backfills
<1>2. \A s \in DOMAIN fill : fill[s] \in Latest(job, s)
  BY <1>1 DEF Backfills
<1>3. \A s \in Missing(job, b) : s \notin Measured(job, b)
  BY DEF Missing
<1> QED BY <1>1, <1>2, <1>3

LEMMA ProcessWrites ==
    ASSUME TSTypeOK, WrittenOnce, NEW job \in Jobs, Process(job)
    PROVE  LET b == Start(now) - Bucket IN
           /\ b \in Nat /\ b % Bucket = 0
           /\ \E fill \in Backfills(job, b) : Written(job, b, fill)
<1> DEFINE b == Start(now) - Bucket
           Measures(d) == {Key(s, d) : s \in Measured(job, d)}
           Fills(d, fill) == {Key(s, d) : s \in DOMAIN fill}
           Table(d, fill) ==
              [k \in DOMAIN processed[job] \cup Measures(d) \cup Fills(d, fill) |->
                  IF k \in Measures(d) THEN MeasuredRow(job, d, k.series)
                  ELSE IF k \in Fills(d, fill) THEN BackfilledRow(fill[k.series])
                  ELSE processed[job][k]]
           measured == Measures(b)
           filled(fill) == Fills(b, fill)
<1>1. now \in Nat /\ DOMAIN processed = Jobs
  BY TimeseriesAssumption, SMT DEF TSTypeOK
<1>2. PICK c \in BucketToProcess(now) : \E fill \in Backfills(job, c) :
         processed' = [processed EXCEPT ![job] = Table(c, fill)]
  BY DEF Process
<1>3. c = b /\ b \in Nat /\ b % Bucket = 0
  BY <1>1, CallIsForLastBucket
<1>4. PICK fill \in Backfills(job, b) : processed' = [processed EXCEPT ![job] = Table(b, fill)]
  <2> HIDE DEF b, Table
  <2> QED BY <1>2, <1>3
<1>5. DOMAIN processed' = Jobs /\ \A j \in Jobs \ {job} : processed'[j] = processed[j]
  BY <1>1, <1>4
<1>6. processed'[job] = Table(b, fill)
  BY <1>1, <1>4
<1>7. DOMAIN processed'[job] = DOMAIN processed[job] \cup measured \cup filled(fill)
  BY <1>6
<1>8. \A s \in Measured(job, b) : processed'[job][Key(s, b)] = MeasuredRow(job, b, s)
  BY <1>6, KeyIs
<1>9. ASSUME NEW s \in DOMAIN fill
      PROVE  s \notin Measured(job, b) /\ processed'[job][Key(s, b)] = BackfilledRow(fill[s])
  <2>1. s \notin Measured(job, b)
    BY FillIs
  <2>2. Key(s, b) \notin measured /\ Key(s, b) \in filled(fill)
    BY <2>1, KeyIs
  <2> QED BY <1>6, <2>1, <2>2, KeyIs
<1>10. ASSUME NEW k \in DOMAIN processed[job]
       PROVE  k.time < b /\ processed'[job][k] = processed[job][k]
  <2>1. job \in due
    BY DEF Process
  <2>2. k.time < b
    BY <2>1 DEF WrittenOnce
  <2>3. b \in Nat /\ k.time # b
    BY <1>3, <2>2, SMT
  <2>4. k \notin measured /\ k \notin filled(fill)
    BY <2>3, KeyIs
  <2> QED BY <1>6, <2>2, <2>4
<1>11. Written(job, b, fill)
  BY <1>5, <1>7, <1>8, <1>9, <1>10 DEF Written
<1> QED BY <1>3, <1>11

LEMMA CountIsNat ==
    ASSUME NEW S, IsFiniteSet(S), NEW v
    PROVE  Count(S, v) \in Nat
<1>1. IsFiniteSet({r \in S : r.value = v})
  BY FS_Subset
<1> QED BY <1>1, FS_CardinalityType DEF Count

\* The value of a measured row is one of those reported.
LEMMA ModeIsReported ==
    ASSUME NEW S, IsFiniteSet(S), S # {}, \A r \in S : r.value \in Values \cup {Null}
    PROVE  \E r \in S : Mode(S) = r.value
<1> DEFINE values == {r.value : r \in S} \ {Null}
           Best(v) == \A w \in values :
              \/ Count(S, v) > Count(S, w)
              \/ Count(S, v) = Count(S, w) /\ v <= w
<1>1. CASE values = {}
  <2>1. Mode(S) = Null
    BY <1>1 DEF Mode
  <2> QED BY <1>1, <2>1
<1>2. CASE values # {}
  <2>1. values \subseteq {1, 2}
    BY DEF Values
  <2>2. Count(S, 1) \in Nat /\ Count(S, 2) \in Nat
    BY CountIsNat
  <2>3. \E v \in values : Best(v)
    <3> HIDE DEF values
    <3>1. CASE Count(S, 1) > Count(S, 2) \/ Count(S, 1) = Count(S, 2)
      <4>1. 1 \in values => Best(1)
        BY <2>1, <2>2, <3>1, SMT
      <4>2. 1 \notin values => Best(2) /\ 2 \in values
        <5>1. 1 \notin values => values = {2}
          BY <1>2, <2>1
        <5>2. Count(S, 2) = Count(S, 2) /\ 2 <= 2
          BY SMT
        <5> QED BY <5>1, <5>2, Zenon
      <4> QED BY <4>1, <4>2
    <3>2. CASE Count(S, 2) > Count(S, 1)
      <4>1. 2 \in values => Best(2)
        BY <2>1, <2>2, <3>2, SMT
      <4>2. 2 \notin values => Best(1) /\ 1 \in values
        <5>1. 2 \notin values => values = {1}
          BY <1>2, <2>1
        <5>2. Count(S, 1) = Count(S, 1) /\ 1 <= 1
          BY SMT
        <5> QED BY <5>1, <5>2, Zenon
      <4> QED BY <4>1, <4>2
    <3> QED BY <2>2, <3>1, <3>2, SMT
  <2>4. Mode(S) = CHOOSE v \in values : Best(v)
    BY <1>2 DEF Mode
  <2>5. Mode(S) \in values
    <3> HIDE DEF values, Best
    <3> QED BY <2>3, <2>4
  <2> QED BY <2>5
<1> QED BY <1>1, <1>2

\* A series that was reported has a latest report.
LEMMA LatestExists ==
    ASSUME TSTypeOK, NEW job \in Jobs, NEW q \in Reports(job)
    PROVE  Latest(job, q.series) # {}
<1> DEFINE of == {r \in Reports(job) : r.series = q.series}
           ages == {now - r.time : r \in of}
<1>1. now \in Nat /\ \A r \in of : r.time \in 0..now
  BY TimeseriesAssumption, SMT DEF TSTypeOK, Reports
<1>2. ages \subseteq Nat /\ ages # {}
  <2>1. \A r \in of : now - r.time \in Nat
    BY <1>1, SMT
  <2>2. q \in of
    OBVIOUS
  <2> QED BY <2>1, <2>2
<1>3. PICK a \in ages : \A d \in ages : <<d, a>> \notin OpToRel(<, Nat)
  <2> HIDE DEF ages
  <2> QED BY <1>2, NatLessThanWellFounded, WFMin, Zenon
<1>4. \A d \in ages : ~ (d < a)
  <2> HIDE DEF ages
  <2> QED BY <1>2, <1>3, Zenon DEF OpToRel
<1>5. PICK r \in of : a = now - r.time
  OBVIOUS
<1>6. \A o \in of : o.time <= r.time
  <2> TAKE o \in of
  <2>1. ~ (now - o.time < now - r.time)
    BY <1>4, <1>5
  <2> QED BY <1>1, <2>1, SMT
<1>7. r \in Latest(job, q.series)
  BY <1>6 DEF Latest
<1> QED BY <1>7

-----------------------------------------------------------------------------
\* The clock lets no call off: a bucket is covered before its time is up.
LEMMA TickCovers ==
    ASSUME TSTypeOK, Tick, NEW job \in Jobs, NEW b \in Nat, b % Bucket = 0,
           Covered(job, b)'
    PROVE  Covered(job, b)
<1>1. now \in Nat /\ Bucket \in Nat /\ Bucket > 0 /\ now' = now + 1 /\ missed' = missed
  BY TimeseriesAssumption, SMT DEF TSTypeOK, Tick
<1>2. /\ <<job, b>> \notin missed
      /\ (b + Bucket) % Week # 0
      /\ now + 1 >= b + 2 * Bucket \/ (now + 1 >= b + Bucket /\ job \notin due')
  BY <1>1 DEF Covered
<1>3. /\ (b + Bucket) % Bucket = 0 /\ (b + Bucket + Bucket) % Bucket = 0
      /\ b + Bucket \in Int /\ b + 2 * Bucket \in Int /\ b + Bucket + Bucket = b + 2 * Bucket
  <2>1. b \in Int /\ Bucket \in Int /\ b + Bucket \in Int /\ b + 2 * Bucket \in Int
        /\ b + Bucket + Bucket = b + 2 * Bucket
    BY <1>1, SMT
  <2>2. (b + Bucket) % Bucket = 0
    BY <1>1, <2>1, Multiples
  <2>3. (b + Bucket + Bucket) % Bucket = 0
    BY <1>1, <2>1, <2>2, Multiples
  <2> QED BY <2>1, <2>2, <2>3
<1>4. CASE (now + 1) % Bucket = 0
  <2>1. due = {} /\ due' = Jobs
    BY <1>1, <1>4 DEF Tick
  <2>2. now + 1 >= b + 2 * Bucket
    BY <1>2, <2>1
  <2>3. now >= b + Bucket
    BY <1>1, <2>2, SMT
  <2> QED BY <1>2, <2>1, <2>3 DEF Covered
<1>5. CASE (now + 1) % Bucket # 0
  <2>1. due' = due
    BY <1>1, <1>5 DEF Tick
  <2>2. now + 1 # b + 2 * Bucket /\ now + 1 # b + Bucket
    BY <1>3, <1>5
  <2>3. now >= b + 2 * Bucket \/ (now >= b + Bucket /\ job \notin due)
    BY <1>1, <1>2, <1>3, <2>1, <2>2, SMT
  <2> QED BY <1>2, <2>3 DEF Covered
<1> QED BY <1>4, <1>5

\* A call that ends covers the bucket that is just over, and no other.
LEMMA EndCovers ==
    ASSUME TSTypeOK, NEW job \in Jobs, NEW j \in Jobs, NEW b \in Nat, b % Bucket = 0,
           now' = now, due' = due \ {job}, missed \subseteq missed',
           Covered(j, b)', ~Covered(j, b)
    PROVE  /\ j = job /\ b = Start(now) - Bucket
           /\ Start(now) % Week # 0
           /\ <<j, b>> \notin missed'
<1>1. now \in Nat /\ Bucket \in Nat /\ Bucket > 0
  BY TimeseriesAssumption, SMT DEF TSTypeOK
<1>2. /\ <<j, b>> \notin missed'
      /\ (b + Bucket) % Week # 0
      /\ now >= b + 2 * Bucket \/ (now >= b + Bucket /\ j \notin due')
  BY DEF Covered
<1>3. ~(now >= b + 2 * Bucket) /\ ~(now >= b + Bucket /\ j \notin due)
  BY <1>2 DEF Covered
<1>4. now >= b + Bucket /\ j \in due /\ j \notin due'
  BY <1>2, <1>3
<1>5. j = job
  BY <1>4
<1>6. b + Bucket \in Int /\ (b + Bucket) % Bucket = 0
  <2>1. b \in Int /\ Bucket \in Int
    BY <1>1, SMT
  <2> QED BY <1>1, <2>1, Multiples, SMT
<1>7. b + Bucket <= now /\ now < b + Bucket + Bucket
  BY <1>1, <1>3, <1>4, SMT
<1>8. b + Bucket = Start(now)
  BY <1>1, <1>6, <1>7, StartIs
<1>9. b = Start(now) - Bucket
  BY <1>1, <1>8, SMT
<1> QED BY <1>2, <1>5, <1>8, <1>9

-----------------------------------------------------------------------------
LEMMA ClockIs ==
    ASSUME TSTypeOK
    PROVE  now \in Nat /\ Bucket \in Nat /\ Bucket > 0
BY TimeseriesAssumption, SMT DEF TSTypeOK

LEMMA InvInit == TSInit => TSInv
<1> SUFFICES ASSUME TSInit PROVE TSInv
  OBVIOUS
<1>1. now = 0 /\ presences = {} /\ unoccupied = {} /\ raw = {} /\ due = {} /\ missed = {}
  BY DEF TSInit
<1>2. DOMAIN processed = Jobs /\ \A job \in Jobs : DOMAIN processed[job] = {}
  BY DEF TSInit
<1>3. TSTypeOK
  <2>1. now \in 0..Horizon
    BY <1>1, TimeseriesAssumption, SMT
  <2> QED BY <1>1, <1>2, <2>1 DEF TSTypeOK
<1>4. FiniteReports
  BY <1>1, FS_EmptySet DEF FiniteReports
<1>5. "presences" \in Jobs /\ "powers" \in Jobs
  BY DEF Jobs
<1>6. WrittenOnce /\ FilledAreKnown /\ RowsComeFromReports /\ BackfillLeavesNoGap /\ ConflictNeverMixed
  BY <1>2, <1>5 DEF WrittenOnce, FilledAreKnown, RowsComeFromReports, BackfillLeavesNoGap, ConflictNeverMixed
<1>7. TimelyReportsCounted
  BY <1>1 DEF TimelyReportsCounted, Reports
<1> QED BY <1>3, <1>4, <1>6, <1>7 DEF TSInv

LEMMA ReportKeeps ==
    ASSUME TSInv, Report
    PROVE  TSInv'
<1>1. TSTypeOK /\ FiniteReports /\ now \in Nat /\ Bucket \in Nat /\ Bucket > 0
  BY ClockIs DEF TSInv
<1>2. PICK row : Reported(row)
  BY <1>1, ReportAdds
<1>3. UNCHANGED <<now, presences, unoccupied, processed, due, missed>>
  BY DEF Report
<1>4. raw \subseteq raw' /\ \A r \in raw' : r \in raw \/ r = row
  BY <1>2 DEF Reported
<1>5. \A job \in Jobs : Reports(job) \subseteq Reports(job)'
  BY <1>4 DEF Reports
<1>6. TSTypeOK'
  <2>1. \A r \in raw' :
          /\ r.job \in Jobs
          /\ r.series \in Series(r.job)
          /\ r.value \in Values \cup {Null}
          /\ r.time \in 0..now
          /\ r.timely \in BOOLEAN
    BY <1>1, <1>2, <1>4 DEF Reported, TSTypeOK
  <2> QED BY <1>1, <1>3, <2>1 DEF TSTypeOK
<1>7. FiniteReports'
  BY <1>1, <1>2, FS_AddElement DEF FiniteReports, Reported
<1>8. WrittenOnce' /\ FilledAreKnown' /\ ConflictNeverMixed'
  BY <1>3 DEF TSInv, WrittenOnce, FilledAreKnown, ConflictNeverMixed
<1>9. RowsComeFromReports'
  <2> SUFFICES ASSUME NEW job \in Jobs, NEW k \in DOMAIN processed[job]
               PROVE  \E r \in Reports(job)' :
                        /\ r.series = k.series
                        /\ r.value = processed[job][k].value
                        /\ IF processed[job][k].is_backfilled
                           THEN r.time = processed[job][k].updated_at
                           ELSE InBucket(r, k.time)
    BY <1>3 DEF RowsComeFromReports
  <2> QED BY <1>5 DEF TSInv, RowsComeFromReports
<1>10. BackfillLeavesNoGap'
  BY <1>3 DEF TSInv, BackfillLeavesNoGap, Covered
<1>11. TimelyReportsCounted'
  <2> SUFFICES ASSUME NEW job \in Jobs, NEW r \in Reports(job)', r.timely,
                      Covered(job, Start(r.time))
               PROVE  /\ Key(r.series, Start(r.time)) \in DOMAIN processed[job]
                      /\ ~processed[job][Key(r.series, Start(r.time))].is_backfilled
    BY <1>3 DEF TimelyReportsCounted, Covered
  <2>1. CASE r \in raw
    BY <2>1 DEF TSInv, TimelyReportsCounted, Reports
  <2>2. CASE r = row
    <3>1. Start(r.time) = Start(now)
      BY <1>2, <2>2 DEF Reported
    <3>2. now >= Start(now) + Bucket
      <4>1. Start(now) \in Nat
        BY <1>1, StartIs
      <4>2. now >= Start(now) + 2 * Bucket \/ now >= Start(now) + Bucket
        BY <3>1 DEF Covered
      <4> QED BY <1>1, <4>1, <4>2, SMT
    <3>3. now < Start(now) + Bucket /\ Start(now) \in Nat
      BY <1>1, StartIs
    <3> QED BY <1>1, <3>2, <3>3, SMT
  <2> QED BY <1>4, <2>1, <2>2 DEF Reports
<1> QED BY <1>6, <1>7, <1>8, <1>9, <1>10, <1>11 DEF TSInv

\* Other messages and dumps, and steps of other parts.
LEMMA LearningKeeps ==
    ASSUME TSInv,
           presences \subseteq presences', presences' \subseteq Series("presences"),
           unoccupied' \subseteq Systems,
           UNCHANGED <<now, raw, processed, due, missed>>
    PROVE  TSInv'
<1>1. TSTypeOK'
  BY DEF TSInv, TSTypeOK
<1>2. FiniteReports' /\ WrittenOnce' /\ FilledAreKnown' /\ ConflictNeverMixed'
  BY DEF TSInv, FiniteReports, WrittenOnce, FilledAreKnown, ConflictNeverMixed
<1>3. RowsComeFromReports' /\ TimelyReportsCounted' /\ BackfillLeavesNoGap'
  BY DEF TSInv, RowsComeFromReports, TimelyReportsCounted, BackfillLeavesNoGap, Reports, Covered
<1> QED BY <1>1, <1>2, <1>3 DEF TSInv

LEMMA TickKeeps ==
    ASSUME TSInv, Tick
    PROVE  TSInv'
<1>1. TSTypeOK /\ now \in Nat /\ Bucket \in Nat /\ Bucket > 0
  BY ClockIs DEF TSInv
<1>2. now < Horizon /\ now' = now + 1 /\ UNCHANGED <<presences, unoccupied, raw, processed, missed>>
  BY DEF Tick
<1>3. Start(now) \in Nat /\ Start(now') \in Nat /\ Start(now) <= Start(now')
  <2>1. now + 1 \in Nat
    BY <1>1, SMT
  <2>2. Start(now) \in Nat /\ Start(now + 1) \in Nat
    BY <1>1, <2>1, StartIs
  <2>3. Start(now + 1) = Start(now) \/ Start(now + 1) = Start(now) + Bucket
    BY <1>1, ClockTick
  <2> QED BY <1>1, <1>2, <2>2, <2>3, SMT
<1>4. TSTypeOK'
  <2>1. now' \in 0..Horizon /\ 0..now \subseteq 0..now'
    BY <1>1, <1>2, TimeseriesAssumption, SMT
  <2>2. \A r \in raw' :
          /\ r.job \in Jobs
          /\ r.series \in Series(r.job)
          /\ r.value \in Values \cup {Null}
          /\ r.time \in 0..now'
          /\ r.timely \in BOOLEAN
    BY <1>1, <1>2, <2>1 DEF TSTypeOK
  <2>3. \A job \in Jobs : \A k \in DOMAIN processed[job] : k.time < Start(now')
    <3> SUFFICES ASSUME NEW job \in Jobs, NEW k \in DOMAIN processed[job]
                 PROVE  k.time < Start(now')
      OBVIOUS
    <3>1. k.time < Start(now) /\ k.time \in Nat
      BY <1>1 DEF TSTypeOK
    <3> QED BY <1>3, <3>1, SMT
  <2>4. \A job \in Jobs : \A k \in DOMAIN processed[job] : processed[job][k].updated_at \in 0..now'
    BY <1>1, <2>1 DEF TSTypeOK
  <2>5. due' \subseteq Jobs
    BY <1>1 DEF Tick, TSTypeOK
  <2>6. \A m \in missed' : m[1] \in Jobs /\ m[2] \in Int /\ m[2] < now'
    BY <1>1, <1>2, SMT DEF TSTypeOK
  <2> QED BY <1>1, <1>2, <2>1, <2>2, <2>3, <2>4, <2>5, <2>6 DEF TSTypeOK
<1>5. FiniteReports' /\ FilledAreKnown' /\ ConflictNeverMixed' /\ RowsComeFromReports'
  BY <1>2 DEF TSInv, FiniteReports, FilledAreKnown, ConflictNeverMixed, RowsComeFromReports, Reports
<1>6. WrittenOnce'
  <2> SUFFICES ASSUME NEW job \in Jobs, NEW k \in DOMAIN processed[job]
               PROVE  \/ k.time < Start(now') - Bucket
                      \/ k.time = Start(now') - Bucket /\ job \notin due'
    BY <1>2 DEF WrittenOnce
  <2>1. k.time < Start(now) - Bucket \/ (k.time = Start(now) - Bucket /\ job \notin due)
    BY DEF TSInv, WrittenOnce
  <2>2. k.time \in Nat
    BY <1>1 DEF TSTypeOK
  <2>3. CASE (now + 1) % Bucket = 0
    <3>1. Start(now') = Start(now) + Bucket
      BY <1>1, <1>2, <2>3, ClockTick
    <3> QED BY <1>1, <1>3, <2>1, <2>2, <3>1, SMT
  <2>4. CASE (now + 1) % Bucket # 0
    <3>1. Start(now') = Start(now) /\ due' = due
      BY <1>1, <1>2, <2>4, ClockTick DEF Tick
    <3> QED BY <2>1, <3>1
  <2> QED BY <2>3, <2>4
<1>7. TimelyReportsCounted'
  <2> SUFFICES ASSUME NEW job \in Jobs, NEW r \in Reports(job), r.timely,
                      Covered(job, Start(r.time))'
               PROVE  /\ Key(r.series, Start(r.time)) \in DOMAIN processed[job]
                      /\ ~processed[job][Key(r.series, Start(r.time))].is_backfilled
    BY <1>2 DEF TimelyReportsCounted, Reports, Covered
  <2>1. r.time \in Nat
    BY <1>1, SMT DEF TSTypeOK, Reports
  <2>2. Start(r.time) \in Nat /\ Start(r.time) % Bucket = 0
    BY <2>1, StartIs
  <2>3. Covered(job, Start(r.time))
    BY <1>1, <2>2, TickCovers
  <2> QED BY <2>3 DEF TSInv, TimelyReportsCounted
<1>8. BackfillLeavesNoGap'
  <2> SUFFICES ASSUME NEW k \in DOMAIN processed["presences"], processed["presences"][k].is_backfilled,
                      NEW b \in (k.time + 1)..now', b % Bucket = 0, Covered("presences", b)'
               PROVE  Key(k.series, b) \in DOMAIN processed["presences"]
    BY <1>2 DEF BackfillLeavesNoGap, Covered
  <2>1. "presences" \in Jobs
    BY DEF Jobs
  <2>2. k.time \in Nat
    BY <1>1, <2>1 DEF TSTypeOK
  <2>3. b \in Nat
    BY <1>1, <1>2, <2>2, SMT
  <2>4. Covered("presences", b)
    BY <1>1, <2>1, <2>3, TickCovers
  <2>5. b \in (k.time + 1)..now
    <3>1. now >= b + 2 * Bucket \/ now >= b + Bucket
      BY <2>4 DEF Covered
    <3> QED BY <1>1, <1>2, <2>2, <2>3, <3>1, SMT
  <2> QED BY <2>4, <2>5 DEF TSInv, BackfillLeavesNoGap
<1> QED BY <1>4, <1>5, <1>6, <1>7, <1>8 DEF TSInv

\* A call that writes nothing.
LEMMA EndKeeps ==
    ASSUME TSInv, NEW job \in Jobs, ProcessNothing(job) \/ ProcessFails(job)
    PROVE  TSInv'
<1>1. TSTypeOK /\ now \in Nat /\ Bucket \in Nat /\ Bucket > 0
  BY ClockIs DEF TSInv
<1>2. UNCHANGED <<now, presences, unoccupied, raw, processed>> /\ due' = due \ {job}
  BY DEF ProcessNothing, ProcessFails
<1>3. missed' = missed \/ missed' = missed \cup {<<job, Start(now) - Bucket>>}
  BY DEF ProcessNothing, ProcessFails
<1>4. ASSUME NEW j \in Jobs, NEW b \in Nat, b % Bucket = 0, Covered(j, b)'
      PROVE  Covered(j, b)
  <2> SUFFICES ASSUME ~Covered(j, b) PROVE FALSE
    OBVIOUS
  <2>1. missed \subseteq missed'
    BY <1>3
  <2>2. /\ j = job /\ b = Start(now) - Bucket
        /\ Start(now) % Week # 0 /\ <<j, b>> \notin missed'
    BY <1>1, <1>2, <1>4, <2>1, EndCovers
  <2>3. CASE ProcessNothing(job)
    <3>1. Start(now) - Bucket \in BucketToProcess(now)
      BY <1>1, <2>2, CallForEveryBucketButOne
    <3> QED BY <2>3, <3>1 DEF ProcessNothing
  <2>4. CASE ProcessFails(job)
    <3>1. <<job, Start(now) - Bucket>> \in missed'
      BY <2>4 DEF ProcessFails
    <3> QED BY <2>2, <3>1
  <2> QED BY <2>3, <2>4
<1>5. TSTypeOK'
  <2>1. Start(now) - Bucket \in Int /\ Start(now) - Bucket < now
    <3>1. Start(now) \in Nat /\ Start(now) <= now
      BY <1>1, StartIs
    <3> QED BY <1>1, <3>1, SMT
  <2>2. \A m \in missed' : m[1] \in Jobs /\ m[2] \in Int /\ m[2] < now
    BY <1>1, <1>3, <2>1 DEF TSTypeOK
  <2>3. due' \subseteq Jobs
    BY <1>1, <1>2 DEF TSTypeOK
  <2> QED BY <1>1, <1>2, <2>2, <2>3 DEF TSTypeOK
<1>6. FiniteReports' /\ FilledAreKnown' /\ ConflictNeverMixed' /\ RowsComeFromReports'
  BY <1>2 DEF TSInv, FiniteReports, FilledAreKnown, ConflictNeverMixed, RowsComeFromReports, Reports
<1>7. WrittenOnce'
  BY <1>2 DEF TSInv, WrittenOnce
<1>8. TimelyReportsCounted'
  <2> SUFFICES ASSUME NEW j \in Jobs, NEW r \in Reports(j), r.timely,
                      Covered(j, Start(r.time))'
               PROVE  /\ Key(r.series, Start(r.time)) \in DOMAIN processed[j]
                      /\ ~processed[j][Key(r.series, Start(r.time))].is_backfilled
    BY <1>2 DEF TimelyReportsCounted, Reports, Covered
  <2>1. r.time \in Nat
    BY <1>1, SMT DEF TSTypeOK, Reports
  <2>2. Start(r.time) \in Nat /\ Start(r.time) % Bucket = 0
    BY <2>1, StartIs
  <2>3. Covered(j, Start(r.time))
    BY <1>4, <2>2
  <2> QED BY <2>3 DEF TSInv, TimelyReportsCounted
<1>9. BackfillLeavesNoGap'
  <2> SUFFICES ASSUME NEW k \in DOMAIN processed["presences"], processed["presences"][k].is_backfilled,
                      NEW b \in (k.time + 1)..now, b % Bucket = 0, Covered("presences", b)'
               PROVE  Key(k.series, b) \in DOMAIN processed["presences"]
    BY <1>2 DEF BackfillLeavesNoGap, Covered
  <2>1. "presences" \in Jobs
    BY DEF Jobs
  <2>2. k.time \in Nat
    BY <1>1, <2>1 DEF TSTypeOK
  <2>3. b \in Nat
    BY <1>1, <2>2, SMT
  <2>4. Covered("presences", b)
    BY <1>4, <2>1, <2>3
  <2> QED BY <2>4 DEF TSInv, BackfillLeavesNoGap
<1> QED BY <1>5, <1>6, <1>7, <1>8, <1>9 DEF TSInv

\* What a row is that a call wrote.
LEMMA RowIs ==
    ASSUME TSTypeOK, FiniteReports, NEW job \in Jobs, NEW b \in Nat,
           NEW fill \in Backfills(job, b), Written(job, b, fill),
           NEW k \in DOMAIN processed'[job], k \notin DOMAIN processed[job]
    PROVE  /\ k = Key(k.series, b) /\ k.time = b /\ k.series \in Series(job)
           /\ processed'[job][k].value \in Values \cup {Null}
           /\ processed'[job][k].updated_at \in 0..now \cup {b}
           /\ processed'[job][k].is_backfilled =
                 (k.series \notin Measured(job, b))
           /\ k.series \in Measured(job, b) \/ k.series \in DOMAIN fill
           /\ \E r \in Reports(job) :
                 /\ r.series = k.series
                 /\ r.value = processed'[job][k].value
                 /\ IF processed'[job][k].is_backfilled
                    THEN r.time = processed'[job][k].updated_at
                    ELSE InBucket(r, k.time)
<1>1. \A r \in Reports(job) : /\ r.series \in Series(job) /\ r.value \in Values \cup {Null}
                              /\ r.time \in 0..now
  BY DEF TSTypeOK, Reports
<1>2. PICK s : k = Key(s, b) /\ (s \in Measured(job, b) \/ s \in DOMAIN fill)
  BY DEF Written
<1>3. k.series = s /\ k.time = b
  BY <1>2, KeyIs
<1>4. CASE s \in Measured(job, b)
  <2> DEFINE S == {r \in Reports(job) : InBucket(r, b) /\ r.series = s}
  <2>1. processed'[job][k] = MeasuredRow(job, b, s)
    BY <1>2, <1>4 DEF Written
  <2>2. IsFiniteSet(S)
    <3>1. S \subseteq raw
      BY DEF Reports
    <3> QED BY <3>1, FS_Subset DEF FiniteReports
  <2>3. S # {} /\ \A r \in S : r.value \in Values \cup {Null}
    BY <1>1, <1>4 DEF Measured
  <2>4. PICK r \in S : Mode(S) = r.value
    BY <2>2, <2>3, ModeIsReported
  <2>5. /\ processed'[job][k].value = r.value
        /\ processed'[job][k].updated_at = b
        /\ processed'[job][k].is_backfilled = FALSE
    BY <2>1, <2>4 DEF MeasuredRow
  <2>6. /\ r \in Reports(job) /\ r.series = k.series /\ InBucket(r, k.time)
        /\ r.value \in Values \cup {Null} /\ k.series \in Series(job)
    BY <1>1, <1>3, <2>4
  <2>7. processed'[job][k].is_backfilled = (k.series \notin Measured(job, b))
    BY <1>3, <1>4, <2>5
  <2> HIDE DEF S
  <2> QED BY <1>2, <1>3, <1>4, <2>5, <2>6, <2>7
<1>5. CASE s \in DOMAIN fill
  <2>1. s \notin Measured(job, b) /\ processed'[job][k] = BackfilledRow(fill[s])
    BY <1>2, <1>5 DEF Written
  <2>2. fill[s] \in Reports(job) /\ fill[s].series = s
    <3>1. fill[s] \in Latest(job, s)
      BY <1>5, FillIs
    <3> QED BY <3>1 DEF Latest
  <2>3. /\ processed'[job][k].value = fill[s].value
        /\ processed'[job][k].updated_at = fill[s].time
        /\ processed'[job][k].is_backfilled = TRUE
    BY <2>1 DEF BackfilledRow
  <2>4. /\ fill[s].value \in Values \cup {Null} /\ fill[s].time \in 0..now
        /\ k.series \in Series(job)
    BY <1>1, <1>3, <2>2
  <2>5. processed'[job][k].is_backfilled = (k.series \notin Measured(job, b))
    BY <1>3, <2>1, <2>3
  <2>6. \E r \in Reports(job) :
           /\ r.series = k.series
           /\ r.value = processed'[job][k].value
           /\ IF processed'[job][k].is_backfilled
              THEN r.time = processed'[job][k].updated_at
              ELSE InBucket(r, k.time)
    BY <1>3, <2>2, <2>3
  <2> QED BY <1>2, <1>3, <1>5, <2>3, <2>4, <2>5, <2>6
<1> QED BY <1>2, <1>4, <1>5

LEMMA ProcessKeeps ==
    ASSUME TSInv, NEW job \in Jobs, Process(job)
    PROVE  TSInv'
<1> DEFINE b == Start(now) - Bucket
<1>1. TSTypeOK /\ FiniteReports /\ now \in Nat /\ Bucket \in Nat /\ Bucket > 0
  BY ClockIs DEF TSInv
<1>2. UNCHANGED <<now, presences, unoccupied, raw, missed>> /\ due' = due \ {job}
  BY DEF Process
<1>3. b \in Nat /\ b % Bucket = 0 /\ \E fill \in Backfills(job, b) : Written(job, b, fill)
  BY <1>1, ProcessWrites DEF TSInv
<1>4. PICK fill \in Backfills(job, b) : Written(job, b, fill)
  BY <1>3
<1>5. Start(now) \in Nat /\ Start(now) <= now /\ b < Start(now) /\ b <= now
  <2>1. Start(now) \in Nat /\ Start(now) <= now
    BY <1>1, StartIs
  <2> QED BY <1>1, <2>1, SMT
<1>6. \A j \in Jobs \ {job} : processed'[j] = processed[j]
  BY <1>4 DEF Written
<1>7. /\ DOMAIN processed[job] \subseteq DOMAIN processed'[job]
      /\ \A k \in DOMAIN processed[job] : k.time < b /\ processed'[job][k] = processed[job][k]
  BY <1>4 DEF Written
<1> HIDE DEF b
<1>8. ASSUME NEW k \in DOMAIN processed'[job], k \notin DOMAIN processed[job]
      PROVE  /\ k = Key(k.series, b) /\ k.time = b /\ k.series \in Series(job)
             /\ processed'[job][k].value \in Values \cup {Null}
             /\ processed'[job][k].updated_at \in 0..now
             /\ processed'[job][k].is_backfilled = (k.series \notin Measured(job, b))
             /\ k.series \in Measured(job, b) \/ k.series \in DOMAIN fill
             /\ \E r \in Reports(job) :
                   /\ r.series = k.series
                   /\ r.value = processed'[job][k].value
                   /\ IF processed'[job][k].is_backfilled
                      THEN r.time = processed'[job][k].updated_at
                      ELSE InBucket(r, k.time)
  <2>1. b \in 0..now
    BY <1>1, <1>3, <1>5, SMT
  <2>2. processed'[job][k].updated_at \in 0..now \cup {b}
    BY <1>1, <1>3, <1>4, <1>8, RowIs
  <2>3. processed'[job][k].updated_at \in 0..now
    BY <2>1, <2>2
  <2> QED BY <1>1, <1>3, <1>4, <1>8, <2>3, RowIs
<1>9. TSTypeOK'
  <2>1. DOMAIN processed' = Jobs /\ due' \subseteq Jobs
    BY <1>1, <1>2, <1>4 DEF Written, TSTypeOK
  <2>2. ASSUME NEW j \in Jobs, NEW k \in DOMAIN processed'[j]
        PROVE  /\ k = Key(k.series, k.time) /\ k.series \in Series(j)
               /\ k.time \in Nat /\ k.time % Bucket = 0 /\ k.time < Start(now)
               /\ processed'[j][k].value \in Values \cup {Null}
               /\ processed'[j][k].updated_at \in 0..now
               /\ processed'[j][k].is_backfilled \in BOOLEAN
    <3>1. CASE j = job /\ k \notin DOMAIN processed[job]
      BY <1>3, <1>5, <1>8, <2>2, <3>1
    <3>2. CASE j # job \/ k \in DOMAIN processed[job]
      <4>1. k \in DOMAIN processed[j] /\ processed'[j][k] = processed[j][k]
        BY <1>6, <1>7, <2>2, <3>2
      <4> QED BY <1>1, <4>1 DEF TSTypeOK
    <3> QED BY <3>1, <3>2
  <2> QED BY <1>1, <1>2, <2>1, <2>2 DEF TSTypeOK
<1>10. FiniteReports'
  BY <1>1, <1>2 DEF FiniteReports
<1>11. WrittenOnce'
  <2> SUFFICES ASSUME NEW j \in Jobs, NEW k \in DOMAIN processed'[j]
               PROVE  k.time < Start(now) - Bucket \/ (k.time = Start(now) - Bucket /\ j \notin due')
    BY <1>2 DEF WrittenOnce
  <2>1. CASE j = job /\ k \notin DOMAIN processed[job]
    BY <1>2, <1>8, <2>1 DEF b
  <2>2. CASE j # job \/ k \in DOMAIN processed[job]
    <3>1. k \in DOMAIN processed[j]
      BY <1>6, <2>2
    <3> QED BY <1>2, <3>1 DEF TSInv, WrittenOnce
  <2> QED BY <2>1, <2>2
<1>12. FilledAreKnown'
  <2> SUFFICES ASSUME NEW k \in DOMAIN processed'["presences"], processed'["presences"][k].is_backfilled
               PROVE  k.series \in presences
    BY <1>2 DEF FilledAreKnown
  <2>1. CASE job = "presences" /\ k \notin DOMAIN processed[job]
    <3>1. k.series \in DOMAIN fill
      BY <1>8, <2>1
    <3>2. k.series \in Missing("presences", b)
      BY <2>1, <3>1, FillIs
    <3> QED BY <3>2 DEF Missing
  <2>2. CASE job # "presences" \/ k \in DOMAIN processed[job]
    <3>1. k \in DOMAIN processed["presences"] /\ processed'["presences"][k] = processed["presences"][k]
      <4>1. "presences" \in Jobs
        BY DEF Jobs
      <4> QED BY <1>6, <1>7, <2>2, <4>1
    <3> QED BY <3>1 DEF TSInv, FilledAreKnown
  <2> QED BY <2>1, <2>2
<1>13. RowsComeFromReports'
  <2> SUFFICES ASSUME NEW j \in Jobs, NEW k \in DOMAIN processed'[j]
               PROVE  \E r \in Reports(j) :
                        /\ r.series = k.series
                        /\ r.value = processed'[j][k].value
                        /\ IF processed'[j][k].is_backfilled
                           THEN r.time = processed'[j][k].updated_at
                           ELSE InBucket(r, k.time)
    BY <1>2 DEF RowsComeFromReports, Reports
  <2>1. CASE j = job /\ k \notin DOMAIN processed[job]
    BY <1>8, <2>1
  <2>2. CASE j # job \/ k \in DOMAIN processed[job]
    <3>1. k \in DOMAIN processed[j] /\ processed'[j][k] = processed[j][k]
      BY <1>6, <1>7, <2>2
    <3> QED BY <3>1 DEF TSInv, RowsComeFromReports
  <2> QED BY <2>1, <2>2
<1>14. TimelyReportsCounted'
  <2> SUFFICES ASSUME NEW j \in Jobs, NEW r \in Reports(j), r.timely,
                      Covered(j, Start(r.time))'
               PROVE  /\ Key(r.series, Start(r.time)) \in DOMAIN processed'[j]
                      /\ ~processed'[j][Key(r.series, Start(r.time))].is_backfilled
    BY <1>2 DEF TimelyReportsCounted, Reports, Covered
  <2>1. r.time \in Nat
    BY <1>1, SMT DEF TSTypeOK, Reports
  <2>2. /\ Start(r.time) \in Nat /\ Start(r.time) % Bucket = 0
        /\ Start(r.time) <= r.time /\ r.time < Start(r.time) + Bucket
    BY <2>1, StartIs
  <2>3. CASE Covered(j, Start(r.time))
    <3>1. /\ Key(r.series, Start(r.time)) \in DOMAIN processed[j]
          /\ ~processed[j][Key(r.series, Start(r.time))].is_backfilled
      BY <2>3 DEF TSInv, TimelyReportsCounted
    <3> QED BY <1>6, <1>7, <3>1
  <2>4. CASE ~Covered(j, Start(r.time))
    <3>1. j = job /\ Start(r.time) = b
      BY <1>1, <1>2, <2>2, <2>4, EndCovers DEF b
    <3>2. InBucket(r, b)
      BY <2>2, <3>1 DEF InBucket
    <3>3. r.series \in Measured(job, b)
      BY <3>1, <3>2 DEF Measured
    <3>4. /\ Key(r.series, b) \in DOMAIN processed'[job]
          /\ processed'[job][Key(r.series, b)] = MeasuredRow(job, b, r.series)
      BY <1>4, <3>3 DEF Written
    <3> QED BY <3>1, <3>4 DEF MeasuredRow
  <2> QED BY <2>3, <2>4
<1>15. BackfillLeavesNoGap'
  <2> SUFFICES ASSUME NEW k \in DOMAIN processed'["presences"], processed'["presences"][k].is_backfilled,
                      NEW c \in (k.time + 1)..now, c % Bucket = 0, Covered("presences", c)'
               PROVE  Key(k.series, c) \in DOMAIN processed'["presences"]
    BY <1>2 DEF BackfillLeavesNoGap, Covered
  <2>1. "presences" \in Jobs
    BY DEF Jobs
  <2>2. k.time \in Nat /\ k.time % Bucket = 0
    BY <1>9, <2>1 DEF TSTypeOK
  <2>3. c \in Nat /\ k.time < c
    BY <1>1, <2>2, SMT
  <2>4. CASE job = "presences" /\ k \notin DOMAIN processed[job]
    <3>1. k.time = b
      BY <1>8, <2>4
    <3>2. b + Bucket <= c
      <4>1. b \in Int /\ c \in Int /\ Bucket \in Int
        BY <1>1, <1>3, <2>3, SMT
      <4> QED BY <1>1, <1>3, <2>3, <3>1, <4>1, Multiples
    <3>3. now >= c + Bucket
      <4>1. now >= c + 2 * Bucket \/ now >= c + Bucket
        BY <1>2 DEF Covered
      <4> QED BY <1>1, <2>3, <4>1, SMT
    <3>4. now < Start(now) + Bucket
      BY <1>1, StartIs
    <3> QED BY <1>1, <1>3, <1>5, <2>3, <3>2, <3>3, <3>4, SMT DEF b
  <2>5. CASE job # "presences" \/ k \in DOMAIN processed[job]
    <3>1. k \in DOMAIN processed["presences"] /\ processed["presences"][k].is_backfilled
      BY <1>6, <1>7, <2>1, <2>5
    <3>2. CASE Covered("presences", c)
      <4>1. Key(k.series, c) \in DOMAIN processed["presences"]
        BY <3>1, <3>2 DEF TSInv, BackfillLeavesNoGap
      <4> QED BY <1>6, <1>7, <2>1, <4>1
    <3>3. CASE ~Covered("presences", c)
      <4>1. job = "presences" /\ c = b
        BY <1>1, <1>2, <2>1, <2>3, <3>3, EndCovers DEF b
      <4>2. k.series \in presences
        BY <3>1 DEF TSInv, FilledAreKnown
      <4>3. PICK q \in Reports("presences") : q.series = k.series
        BY <2>1, <3>1 DEF TSInv, RowsComeFromReports
      <4>4. Latest("presences", k.series) # {}
        BY <1>1, <2>1, <4>3, LatestExists
      <4>5. k.series \in Measured("presences", b) \/ k.series \in Missing("presences", b)
        BY <4>2 DEF Missing
      <4>6. k.series \in Measured("presences", b) \/ k.series \in DOMAIN fill
        BY <4>1, <4>4, <4>5, FillIs
      <4> QED BY <1>4, <4>1, <4>6 DEF Written
    <3> QED BY <3>2, <3>3
  <2> QED BY <2>4, <2>5
<1>16. ConflictNeverMixed'
  <2> SUFFICES ASSUME NEW k \in DOMAIN processed'["powers"], NEW l \in DOMAIN processed'["powers"],
                      k.time = l.time, k.series.system = l.series.system
               PROVE  processed'["powers"][k].is_backfilled = processed'["powers"][l].is_backfilled
    BY DEF ConflictNeverMixed
  <2>1. "powers" \in Jobs
    BY DEF Jobs
  <2>2. CASE job # "powers"
    BY <1>6, <2>1, <2>2 DEF TSInv, ConflictNeverMixed
  <2>3. CASE job = "powers" /\ k \in DOMAIN processed[job] /\ l \in DOMAIN processed[job]
    BY <1>7, <2>3 DEF TSInv, ConflictNeverMixed
  <2>4. ASSUME NEW x \in DOMAIN processed'[job], NEW y \in DOMAIN processed[job], x.time = y.time
        PROVE  x \in DOMAIN processed[job]
    <3>1. y.time < b /\ y.time # b
      <4>1. y.time < b /\ y.time \in Nat
        BY <1>1, <1>7 DEF TSTypeOK
      <4> QED BY <1>3, <4>1, SMT
    <3> QED BY <1>8, <2>4, <3>1
  <2>5. CASE job = "powers" /\ k \notin DOMAIN processed[job] /\ l \notin DOMAIN processed[job]
    <3>1. ASSUME NEW x, NEW y, x.system = y.system,
                 x \in DOMAIN fill, y \in Measured(job, b)
          PROVE  FALSE
      <4>1. x \in Missing("powers", b)
        BY <2>5, <3>1, FillIs
      <4> QED BY <2>5, <3>1, <4>1 DEF Missing
    <3>2. /\ k.series \in Measured(job, b) \/ k.series \in DOMAIN fill
          /\ l.series \in Measured(job, b) \/ l.series \in DOMAIN fill
          /\ processed'[job][k].is_backfilled = (k.series \notin Measured(job, b))
          /\ processed'[job][l].is_backfilled = (l.series \notin Measured(job, b))
      BY <1>8, <2>5
    <3>3. k.series \in Measured(job, b) <=> l.series \in Measured(job, b)
      BY <3>1, <3>2
    <3> QED BY <2>5, <3>2, <3>3
  <2> QED BY <2>2, <2>3, <2>4, <2>5
<1> QED BY <1>9, <1>10, <1>11, <1>12, <1>13, <1>14, <1>15, <1>16 DEF TSInv

-----------------------------------------------------------------------------
LEMMA InvStep == TSInv /\ [TSNext]_tsVars => TSInv'
<1> SUFFICES ASSUME TSInv, [TSNext]_tsVars PROVE TSInv'
  OBVIOUS
<1>1. CASE Report
  BY <1>1, ReportKeeps
<1>2. CASE LearnPresence
  <2>1. /\ presences \subseteq presences' /\ presences' \subseteq Series("presences")
        /\ unoccupied' \subseteq Systems
        /\ UNCHANGED <<now, raw, processed, due, missed>>
    BY <1>2 DEF LearnPresence, TSInv, TSTypeOK
  <2> QED BY <2>1, LearningKeeps
<1>3. CASE ChangePowerState
  <2>1. /\ presences \subseteq presences' /\ presences' \subseteq Series("presences")
        /\ unoccupied' \subseteq Systems
        /\ UNCHANGED <<now, raw, processed, due, missed>>
    BY <1>3 DEF ChangePowerState, TSInv, TSTypeOK
  <2> QED BY <2>1, LearningKeeps
<1>4. CASE Tick
  BY <1>4, TickKeeps
<1>5. ASSUME NEW job \in Jobs, Process(job) PROVE TSInv'
  BY <1>5, ProcessKeeps
<1>6. ASSUME NEW job \in Jobs, ProcessNothing(job) \/ ProcessFails(job) PROVE TSInv'
  BY <1>6, EndKeeps
<1>7. CASE UNCHANGED tsVars
  <2>1. /\ presences \subseteq presences' /\ presences' \subseteq Series("presences")
        /\ unoccupied' \subseteq Systems
        /\ UNCHANGED <<now, raw, processed, due, missed>>
    BY <1>7 DEF tsVars, TSInv, TSTypeOK
  <2> QED BY <2>1, LearningKeeps
<1> QED BY <1>1, <1>2, <1>3, <1>4, <1>5, <1>6, <1>7 DEF TSNext

\* In every behaviour the series are as the invariant says.
LEMMA TSInvHolds == TSSpec => []TSInv
BY InvInit, InvStep, PTL DEF TSSpec

\* The variables keep their types: the calls of pg_cron never write a row of a
\* bucket that is not over.
THEOREM TSTypeCorrect == TSSpec => []TSTypeOK
<1>1. TSInv => TSTypeOK
  BY DEF TSInv
<1> QED BY <1>1, TSInvHolds, PTL

\* Every row that the two procedures write holds the value of a report of its
\* own series: in its bucket, or at the time that the backfilled row names.
THEOREM RowsComeFromReportsCorrect == TSSpec => []RowsComeFromReports
<1>1. TSInv => RowsComeFromReports
  BY DEF TSInv
<1> QED BY <1>1, TSInvHolds, PTL

\* A report that arrives before its bucket ends is measured by the call for that
\* bucket, unless the call fails or the bucket is the week's last.
THEOREM TimelyReportsCountedCorrect == TSSpec => []TimelyReportsCounted
<1>1. TSInv => TimelyReportsCounted
  BY DEF TSInv
<1> QED BY <1>1, TSInvHolds, PTL

\* A presence that was once filled has a row in every later bucket that a call
\* was made for.
THEOREM BackfillLeavesNoGapCorrect == TSSpec => []BackfillLeavesNoGap
<1>1. TSInv => BackfillLeavesNoGap
  BY DEF TSInv
<1> QED BY <1>1, TSInvHolds, PTL

\* In a bucket a system's powers are all measured or all filled.
THEOREM ConflictNeverMixedCorrect == TSSpec => []ConflictNeverMixed
<1>1. TSInv => ConflictNeverMixed
  BY DEF TSInv
<1> QED BY <1>1, TSInvHolds, PTL

=============================================================================
