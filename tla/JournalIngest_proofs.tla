------------------------ MODULE JournalIngest_proofs ------------------------
(***************************************************************************)
(* Proofs about the journal processor, for every set of messages, systems, *)
(* factions, bodies, rings and stations, and any number of failures.       *)
(***************************************************************************)
EXTENDS JournalIngest, SequenceTheorems, FiniteSetTheorems, TLAPS

-----------------------------------------------------------------------------
(* What upsert_all returns to its callers, for every table and batch. *)

(***************************************************************************)
(* A table of keys only grows, and by keys of the batch.                   *)
(***************************************************************************)
LEMMA UpsertKeysGrows ==
    ASSUME NEW keys, NEW rows, NEW ok
    PROVE  /\ keys \subseteq UpsertKeys(keys, rows, ok)
           /\ UpsertKeys(keys, rows, ok) \subseteq keys \cup KeysOf(rows)
BY DEF UpsertKeys

(***************************************************************************)
(* The same for a table with other columns.                                *)
(***************************************************************************)
LEMMA UpsertAllGrows ==
    ASSUME NEW table, NEW rows, NEW Cols, NEW ok
    PROVE  /\ DOMAIN table \subseteq DOMAIN UpsertAll(table, rows, Cols, ok)
           /\ DOMAIN UpsertAll(table, rows, Cols, ok)
                \subseteq DOMAIN table \cup KeysOf(rows)
BY DEF UpsertAll, Merge

(***************************************************************************)
(* Rows keep their columns, and a value that is not NULL is never NULL     *)
(* again: the effect of COALESCE.                                          *)
(***************************************************************************)
LEMMA UpsertAllKeepsValues ==
    ASSUME NEW table, NEW rows, NEW Cols, NEW ok,
           \A k \in DOMAIN table : DOMAIN table[k] = Cols
    PROVE  /\ \A k \in DOMAIN UpsertAll(table, rows, Cols, ok) :
                 DOMAIN UpsertAll(table, rows, Cols, ok)[k] = Cols
           /\ \A k \in DOMAIN table : \A c \in Cols :
                 table[k][c] # Null => UpsertAll(table, rows, Cols, ok)[k][c] # Null
<1>1. CASE Accepted(rows, ok)
  <2>1. UpsertAll(table, rows, Cols, ok) = Merge(table, rows, Cols)
    BY <1>1 DEF UpsertAll
  <2>2. \A k \in DOMAIN Merge(table, rows, Cols) : DOMAIN Merge(table, rows, Cols)[k] = Cols
    BY DEF Merge
  <2>3. ASSUME NEW k \in DOMAIN table, NEW c \in Cols, table[k][c] # Null
        PROVE  Merge(table, rows, Cols)[k][c] # Null
    BY <2>3 DEF Merge, Coalesce, Current
  <2>4. QED
    BY <2>1, <2>2, <2>3
<1>2. CASE ~Accepted(rows, ok)
  BY <1>2 DEF UpsertAll
<1>3. QED
  BY <1>1, <1>2

(***************************************************************************)
(* A value of the new table is one of the batch, one of the old table, or  *)
(* NULL: upsert_all invents none.                                          *)
(***************************************************************************)
LEMMA UpsertAllValues ==
    ASSUME NEW table, NEW rows, NEW Cols, NEW ok,
           NEW k \in DOMAIN UpsertAll(table, rows, Cols, ok), NEW c \in Cols,
           NEW V, Null \in V,
           k \in DOMAIN table => table[k][c] \in V,
           \A i \in DOMAIN rows : c \in DOMAIN rows[i].cols => rows[i].cols[c] \in V
    PROVE  UpsertAll(table, rows, Cols, ok)[k][c] \in V
<1>1. CASE Accepted(rows, ok) /\ k \in KeysOf(rows)
  <2>1. UpsertAll(table, rows, Cols, ok)[k][c]
          = Coalesce(Excluded(rows, RowIndex(rows, k), c), Current(table, k, c))
    BY <1>1 DEF UpsertAll, Merge
  <2>2. RowIndex(rows, k) \in DOMAIN rows
    BY <1>1 DEF KeysOf, RowIndex
  <2>3. DOMAIN rows[1].cols \subseteq DOMAIN rows[RowIndex(rows, k)].cols
    BY <1>1, <2>2 DEF Accepted, Ragged
  <2>4. Excluded(rows, RowIndex(rows, k), c) \in V
    BY <2>2, <2>3 DEF Excluded
  <2>5. Current(table, k, c) \in V
    BY DEF Current
  <2>6. QED
    BY <2>1, <2>4, <2>5 DEF Coalesce
<1>2. CASE ~(Accepted(rows, ok) /\ k \in KeysOf(rows))
  BY <1>2 DEF UpsertAll, Merge
<1>3. QED
  BY <1>1, <1>2

(***************************************************************************)
(* An accepted batch is stored: every row of it, and every value that is   *)
(* not NULL of a column that its first row names.                          *)
(***************************************************************************)
LEMMA UpsertAllWrites ==
    ASSUME NEW table, NEW rows, NEW Cols, NEW ok \in BOOLEAN, Accepted(rows, ok),
           NEW i \in DOMAIN rows
    PROVE  /\ rows[i].key \in DOMAIN UpsertAll(table, rows, Cols, ok)
           /\ \A c \in Cols : c \in DOMAIN rows[1].cols /\ rows[i].cols[c] # Null =>
                 UpsertAll(table, rows, Cols, ok)[rows[i].key][c] = rows[i].cols[c]
<1>1. UpsertAll(table, rows, Cols, ok) = Merge(table, rows, Cols)
  BY DEF UpsertAll
<1>2. rows[i].key \in KeysOf(rows)
  BY DEF KeysOf
<1>3. RowIndex(rows, rows[i].key) = i
  <2>1. RowIndex(rows, rows[i].key) \in DOMAIN rows
        /\ rows[RowIndex(rows, rows[i].key)].key = rows[i].key
    BY DEF RowIndex
  <2>2. QED
    BY <2>1 DEF Accepted, DuplicateKey
<1> DEFINE k == rows[i].key
<1>4. /\ k \in DOMAIN Merge(table, rows, Cols)
      /\ Merge(table, rows, Cols)[k]
           = [c \in Cols |-> Coalesce(Excluded(rows, RowIndex(rows, k), c),
                                     Current(table, k, c))]
  BY <1>2, Zenon DEF Merge
<1>5. \A c \in Cols : Merge(table, rows, Cols)[k][c]
         = Coalesce(Excluded(rows, i, c), Current(table, k, c))
  BY <1>3, <1>4
<1>6. QED
  BY <1>1, <1>4, <1>5 DEF Coalesce, Excluded

-----------------------------------------------------------------------------
Tables == {"factions", "systems", "presences", "bodies", "rings", "hotspots",
           "stations", "rawSystems", "rawPresences", "rawPowers"}

IsStationKey(k) == k = [name |-> k.name, owner |-> k.owner]

Shape ==
    /\ DOMAIN db = Tables
    /\ \A s \in DOMAIN db.systems : DOMAIN db.systems[s] = SystemCols
    /\ \A p \in DOMAIN db.presences : DOMAIN db.presences[p] = PresenceCols
    /\ \A k \in DOMAIN db.stations : DOMAIN db.stations[k] = StationCols /\ IsStationKey(k)

-----------------------------------------------------------------------------
(***************************************************************************)
(* The order of the calls: the plan of an event names its calls in the     *)
(* order of their ranks, and an owner is resolved for a station to store.  *)
(***************************************************************************)
Rank ==
    [step \in Steps |->
        CASE step = "factions" -> 1 [] step = "mapping" -> 2 [] step = "system" -> 3
          [] step = "rawSystem" -> 4 [] step = "bodies" -> 5 [] step = "rings" -> 6
          [] step = "hotspots" -> 7 [] step = "presences" -> 8
          [] step = "rawPresences" -> 9 [] step = "powers" -> 10
          [] step = "owner" -> 11 [] step = "station" -> 12]

Ordered(t) ==
    /\ t \in Seq(Steps)
    /\ \A i, j \in 1..Len(t) : i < j => Rank[t[i]] < Rank[t[j]]
    /\ \A i \in 1..Len(t) : t[i] = "owner" => i < Len(t)

Pending(t, step) == \E i \in 1..Len(t) : t[i] = step

Progress ==
    /\ Ordered(todo)
    /\ todo # <<>> => msg.system \in DOMAIN db.systems \/ Pending(todo, "system")
    /\ Pending(todo, "station") => Pending(todo, "owner") \/ OwnerStored(owner)

LEMMA Ranks ==
    /\ Rank["factions"] = 1 /\ Rank["mapping"] = 2 /\ Rank["system"] = 3
    /\ Rank["rawSystem"] = 4 /\ Rank["bodies"] = 5 /\ Rank["rings"] = 6
    /\ Rank["hotspots"] = 7 /\ Rank["presences"] = 8 /\ Rank["rawPresences"] = 9
    /\ Rank["powers"] = 10 /\ Rank["owner"] = 11 /\ Rank["station"] = 12
    /\ \A s \in Steps : Rank[s] \in 1..12
BY DEF Rank, Steps

LEMMA PlanSteps ==
    ASSUME NEW e
    PROVE  /\ Plan(e) \in Seq(Steps)
           /\ \A i, j \in 1..Len(Plan(e)) : i < j => Rank[Plan(e)[i]] < Rank[Plan(e)[j]]
           /\ \A i \in 1..Len(Plan(e)) : Plan(e)[i] = "owner" => i < Len(Plan(e))
<1> DEFINE t == Plan(e)
<1>1. CASE e = "FSDJump"
  <2>1. t = <<"factions", "mapping", "system", "rawSystem", "presences",
              "rawPresences", "powers">>
    BY <1>1 DEF Plan
  <2>2. t \in Seq(Steps) /\ Len(t) = 7
    BY <2>1 DEF Steps
  <2>3. \A i \in 1..7 : Rank[t[i]] = (IF i <= 4 THEN i ELSE i + 3) /\ t[i] # "owner"
    BY <2>1, Ranks
  <2> HIDE DEF t
  <2>4. QED
    BY <2>2, <2>3 DEF t
<1>2. CASE e = "Location"
  <2>1. t = <<"factions", "mapping", "system", "rawSystem", "bodies", "rings",
              "presences", "rawPresences", "owner", "station">>
    BY <1>2 DEF Plan
  <2>2. t \in Seq(Steps) /\ Len(t) = 10
    BY <2>1 DEF Steps
  <2>3. \A i \in 1..10 :
           /\ Rank[t[i]] = (IF i <= 6 THEN i ELSE IF i <= 8 THEN i + 1 ELSE i + 2)
           /\ t[i] = "owner" => i < 10
    BY <2>1, Ranks
  <2> HIDE DEF t
  <2>4. QED
    BY <2>2, <2>3 DEF t
<1>3. CASE e = "Scan"
  <2>1. t = <<"mapping", "system", "rawSystem", "bodies", "rings">>
    BY <1>3 DEF Plan
  <2>2. t \in Seq(Steps) /\ Len(t) = 5
    BY <2>1 DEF Steps
  <2>3. \A i \in 1..5 : Rank[t[i]] = i + 1 /\ t[i] # "owner"
    BY <2>1, Ranks
  <2> HIDE DEF t
  <2>4. QED
    BY <2>2, <2>3 DEF t
<1>4. CASE e = "SAASignalsFound"
  <2>1. t = <<"mapping", "system", "rawSystem", "bodies", "rings", "hotspots">>
    BY <1>4 DEF Plan
  <2>2. t \in Seq(Steps) /\ Len(t) = 6
    BY <2>1 DEF Steps
  <2>3. \A i \in 1..6 : Rank[t[i]] = i + 1 /\ t[i] # "owner"
    BY <2>1, Ranks
  <2> HIDE DEF t
  <2>4. QED
    BY <2>2, <2>3 DEF t
<1>5. CASE e = "Docked"
  <2>1. t = <<"mapping", "system", "rawSystem", "owner", "station">>
    BY <1>5 DEF Plan
  <2>2. t \in Seq(Steps) /\ Len(t) = 5
    BY <2>1 DEF Steps
  <2>3. \A i \in 1..5 : Rank[t[i]] = (IF i <= 3 THEN i + 1 ELSE i + 7)
                        /\ (t[i] = "owner" => i < 5)
    BY <2>1, Ranks
  <2> HIDE DEF t
  <2>4. QED
    BY <2>2, <2>3 DEF t
<1>6. CASE e \notin {"FSDJump", "Location", "Scan", "SAASignalsFound", "Docked"}
  <2>1. t = <<"mapping", "system", "rawSystem">>
    BY <1>6 DEF Plan
  <2>2. t \in Seq(Steps) /\ Len(t) = 3
    BY <2>1 DEF Steps
  <2>3. \A i \in 1..3 : Rank[t[i]] = i + 1 /\ t[i] # "owner"
    BY <2>1, Ranks
  <2> HIDE DEF t
  <2>4. QED
    BY <2>2, <2>3 DEF t
<1>7. QED
  BY <1>1, <1>2, <1>3, <1>4, <1>5, <1>6

\* Which event waits for which call.
LEMMA PlanIsOrdered ==
    ASSUME NEW e
    PROVE  /\ Ordered(Plan(e)) /\ Pending(Plan(e), "system") /\ Pending(Plan(e), "mapping")
           /\ Pending(Plan(e), "station") => Pending(Plan(e), "owner")
           /\ e \in {"FSDJump", "Location"} => Pending(Plan(e), "presences")
           /\ e \in {"Scan", "SAASignalsFound"} =>
                 Pending(Plan(e), "bodies") /\ Pending(Plan(e), "rings")
           /\ e = "SAASignalsFound" => Pending(Plan(e), "hotspots")
           /\ e \in {"Docked", "Location"} =>
                 Pending(Plan(e), "owner") /\ Pending(Plan(e), "station")
<1>1. Ordered(Plan(e))
  BY PlanSteps DEF Ordered
<1>2. CASE e = "FSDJump"
  BY <1>1, <1>2 DEF Plan, Pending
<1>3. CASE e = "Location"
  <2> DEFINE t == Plan(e)
  <2>1. /\ Len(t) = 10 /\ t[2] = "mapping" /\ t[3] = "system" /\ t[7] = "presences"
        /\ t[9] = "owner" /\ t[10] = "station"
    BY <1>3 DEF Plan
  <2> HIDE DEF t
  <2>2. /\ Pending(t, "mapping") /\ Pending(t, "system") /\ Pending(t, "presences")
        /\ Pending(t, "owner") /\ Pending(t, "station")
    BY <2>1 DEF Pending
  <2>3. QED
    BY <1>1, <1>3, <2>2 DEF t
<1>4. CASE e = "Scan"
  BY <1>1, <1>4 DEF Plan, Pending
<1>5. CASE e = "SAASignalsFound"
  BY <1>1, <1>5 DEF Plan, Pending
<1>6. CASE e = "Docked"
  BY <1>1, <1>6 DEF Plan, Pending
<1>7. CASE e \notin {"FSDJump", "Location", "Scan", "SAASignalsFound", "Docked"}
  <2>1. Plan(e) = <<"mapping", "system", "rawSystem">>
    BY <1>7 DEF Plan
  <2>2. QED
    BY <1>1, <1>7, <2>1 DEF Pending
<1>8. QED
  BY <1>2, <1>3, <1>4, <1>5, <1>6, <1>7

LEMMA NothingIsOrdered ==
    Ordered(<<>>) /\ \A step : ~Pending(<<>>, step)
BY DEF Ordered, Pending

LEMMA TailIsOrdered ==
    ASSUME NEW t, Ordered(t), t # <<>>
    PROVE  /\ Ordered(Tail(t))
           /\ \A step : Pending(Tail(t), step) => Pending(t, step)
           /\ \A step : Pending(t, step) /\ Head(t) # step => Pending(Tail(t), step)
           /\ ~Pending(Tail(t), Head(t))
<1> DEFINE u == Tail(t)
<1>1. /\ t \in Seq(Steps) /\ Len(t) \in Nat /\ Len(t) > 0
      /\ u \in Seq(Steps) /\ Len(u) = Len(t) - 1
      /\ Head(t) = t[1]
      /\ \A i \in 1..Len(u) : u[i] = t[i + 1]
  BY DEF Ordered
<1> HIDE DEF u
<1>2. \A i \in 1..Len(u) : i + 1 \in 1..Len(t) /\ i \in 1..Len(t)
  BY <1>1
<1>3. Ordered(u)
  <2>1. ASSUME NEW i \in 1..Len(u), NEW j \in 1..Len(u), i < j
        PROVE  Rank[u[i]] < Rank[u[j]]
    <3>1. i + 1 \in 1..Len(t) /\ j + 1 \in 1..Len(t) /\ i + 1 < j + 1
      BY <1>2, <2>1
    <3>2. QED
      BY <1>1, <3>1 DEF Ordered
  <2>2. ASSUME NEW i \in 1..Len(u), u[i] = "owner" PROVE i < Len(u)
    <3>1. i + 1 < Len(t)
      BY <1>1, <1>2, <2>2 DEF Ordered
    <3>2. QED
      BY <1>1, <3>1
  <2>3. QED
    BY <1>1, <2>1, <2>2 DEF Ordered
<1>4. \A step : Pending(u, step) => Pending(t, step)
  BY <1>1, <1>2 DEF Pending
<1>5. ASSUME NEW step, Pending(t, step), Head(t) # step PROVE Pending(u, step)
  <2>1. PICK i \in 1..Len(t) : t[i] = step
    BY <1>5 DEF Pending
  <2>2. i - 1 \in 1..Len(u) /\ u[i - 1] = step
    BY <1>1, <1>5, <2>1
  <2>3. QED
    BY <2>2 DEF Pending
<1>6. ~Pending(u, Head(t))
  <2> SUFFICES ASSUME NEW i \in 1..Len(u), u[i] = Head(t) PROVE FALSE
    BY DEF Pending
  <2>1. t[i + 1] = t[1] /\ i + 1 \in 1..Len(t) /\ 1 \in 1..Len(t) /\ 1 < i + 1
    BY <1>1, <1>2
  <2>2. Rank[t[1]] < Rank[t[1]] /\ t[1] \in Steps
    BY <1>1, <2>1 DEF Ordered
  <2>3. Rank[t[1]] \in 1..12
    BY <2>2, Ranks
  <2>4. QED
    BY <2>2, <2>3
<1>7. QED
  BY <1>3, <1>4, <1>5, <1>6 DEF u

LEMMA LastTail ==
    ASSUME NEW t \in Seq(Steps), Len(t) = 1 PROVE Tail(t) = <<>>
<1>1. Tail(t) \in Seq(Steps) /\ Len(Tail(t)) = 0
  OBVIOUS
<1>2. QED
  BY <1>1, EmptySeq

\* The call at hand has the lowest rank.
LEMMA HeadIsFirst ==
    ASSUME NEW t, Ordered(t), t # <<>>
    PROVE  /\ Head(t) \in Steps
           /\ Pending(t, Head(t))
           /\ \A step : Pending(t, step) => step \in Steps /\ Rank[Head(t)] <= Rank[step]
<1>1. /\ t \in Seq(Steps) /\ Len(t) \in Nat /\ Len(t) > 0 /\ Head(t) = t[1]
      /\ 1 \in 1..Len(t) /\ t[1] \in Steps
  BY DEF Ordered
<1>2. ASSUME NEW step, Pending(t, step)
      PROVE  step \in Steps /\ Rank[Head(t)] <= Rank[step]
  <2>1. PICK i \in 1..Len(t) : t[i] = step
    BY <1>2 DEF Pending
  <2>2. step \in Steps
    BY <1>1, <2>1
  <2>3. i = 1 \/ Rank[t[1]] < Rank[t[i]]
    BY <1>1, <2>1 DEF Ordered
  <2>4. Rank[t[1]] \in 1..12 /\ Rank[step] \in 1..12
    BY <1>1, <2>2, Ranks
  <2>5. QED
    BY <1>1, <2>1, <2>2, <2>3, <2>4
<1>3. QED
  BY <1>1, <1>2 DEF Pending

LEMMA HeadIsOrdered ==
    ASSUME NEW t, Ordered(t), t # <<>>
    PROVE  /\ Pending(t, "system") => Head(t) \in {"factions", "mapping", "system"}
           /\ Pending(t, "mapping") => Head(t) \in {"factions", "mapping"}
           /\ Pending(t, Head(t))
           /\ Head(t) = "rings" => ~Pending(t, "bodies")
           /\ Head(t) = "hotspots" => ~Pending(t, "rings")
           /\ Head(t) = "station" => ~Pending(t, "owner") /\ Tail(t) = <<>>
           /\ Head(t) = "owner" => Tail(Tail(t)) = <<>>
<1>1. /\ t \in Seq(Steps) /\ Len(t) \in Nat /\ Len(t) > 0 /\ Head(t) = t[1]
      /\ 1 \in 1..Len(t) /\ Head(t) \in Steps /\ \A i \in 1..Len(t) : t[i] \in Steps
  BY DEF Ordered
<1>2. \A step : Pending(t, step) => Rank[Head(t)] <= Rank[step]
  BY HeadIsFirst
<1>3. /\ Pending(t, "system") => Head(t) \in {"factions", "mapping", "system"}
      /\ Pending(t, "mapping") => Head(t) \in {"factions", "mapping"}
  <2>1. \A s \in Steps : (Rank[s] <= 3 => s \in {"factions", "mapping", "system"})
                         /\ (Rank[s] <= 2 => s \in {"factions", "mapping"})
    BY Ranks DEF Steps
  <2>2. QED
    BY <1>1, <1>2, <2>1, Ranks
<1>4. /\ Head(t) = "rings" => ~Pending(t, "bodies")
      /\ Head(t) = "hotspots" => ~Pending(t, "rings")
      /\ Head(t) = "station" => ~Pending(t, "owner")
  BY <1>2, Ranks
<1>5. ASSUME Head(t) = "station" PROVE Tail(t) = <<>>
  <2>1. ASSUME Len(t) > 1 PROVE FALSE
    <3>1. 2 \in 1..Len(t) /\ Rank[t[1]] < Rank[t[2]]
      BY <1>1, <2>1 DEF Ordered
    <3>2. Rank[t[1]] = 12 /\ Rank[t[2]] \in 1..12
      BY <1>1, <1>5, <3>1, Ranks
    <3>3. QED
      BY <3>1, <3>2
  <2>2. QED
    BY <1>1, <2>1, LastTail
<1>6. ASSUME Head(t) = "owner" PROVE Tail(Tail(t)) = <<>>
  <2>1. Len(t) > 1
    BY <1>1, <1>6 DEF Ordered
  <2>2. ASSUME Len(t) > 2 PROVE FALSE
    <3>1. 2 \in 1..Len(t) /\ 3 \in 1..Len(t)
      BY <1>1, <2>2
    <3>2. Rank[t[1]] < Rank[t[2]] /\ Rank[t[2]] < Rank[t[3]]
      BY <1>1, <3>1 DEF Ordered
    <3>3. Rank[t[1]] = 11
      BY <1>1, <1>6, Ranks
    <3>4. Rank[t[2]] \in 1..12 /\ Rank[t[3]] \in 1..12
      BY <1>1, <3>1, Ranks
    <3>5. QED
      BY <3>2, <3>3, <3>4
  <2>3. Len(t) = 2
    <3>1. Len(t) \in Nat
      BY <1>1
    <3>2. ~(Len(t) > 2)
      BY <2>2
    <3>3. QED
      BY <2>1, <3>1, <3>2
  <2>4. Tail(t) \in Seq(Steps) /\ Len(Tail(t)) = 1
    BY <1>1, <2>3
  <2>5. QED
    BY <2>4, LastTail
<1>7. QED
  BY <1>3, <1>4, <1>5, <1>6, HeadIsFirst

-----------------------------------------------------------------------------
(***************************************************************************)
(* What one commit may do to the tables: rows and values are kept, a new   *)
(* row refers to rows that are there, and a controlling faction is a       *)
(* faction.                                                                *)
(***************************************************************************)
Keeps(old, new, Cols) ==
    /\ DOMAIN old \subseteq DOMAIN new
    /\ \A k \in DOMAIN old : \A c \in Cols : old[k][c] # Null => new[k][c] # Null

Grows ==
    /\ db.factions \subseteq db'.factions
    /\ db.bodies \subseteq db'.bodies
    /\ db.rings \subseteq db'.rings
    /\ db.hotspots \subseteq db'.hotspots
    /\ Keeps(db.systems, db'.systems, SystemCols)
    /\ Keeps(db.presences, db'.presences, PresenceCols)
    /\ Keeps(db.stations, db'.stations, StationCols)

Grounded ==
    /\ \A p \in DOMAIN db'.presences \ DOMAIN db.presences :
          p.system \in DOMAIN db.systems /\ p.faction \in db.factions
    /\ \A b \in db'.bodies \ db.bodies : b.system \in DOMAIN db.systems
    /\ \A r \in db'.rings \ db.rings : r.body \in db.bodies
    /\ \A h \in db'.hotspots \ db.hotspots : h.ring \in db.rings
    /\ \A k \in DOMAIN db'.stations \ DOMAIN db.stations : OwnerStored(k.owner)

TablesControlled ==
    /\ \A s \in DOMAIN db.systems :
          db.systems[s]["controlling_faction"] \in OrNull(db.factions)
    /\ \A k \in DOMAIN db.stations :
          db.stations[k]["controlling_faction"] \in OrNull(db.factions)

\* A step that writes no controlling faction but known ones.
Controls == TablesControlled => TablesControlled'

\* get_faction raised unless every faction of the message was there.
Mapped ==
    /\ known \subseteq db.factions
    /\ todo # <<>> => Pending(todo, "mapping") \/ known = Names(msg)

\* The view, however stale, names stations and owners that are stored.
ViewStored ==
    \A r \in view :
        /\ [name |-> r.name, owner |-> r.owner] \in DOMAIN db.stations
        /\ OwnerStored(r.owner)
        /\ r.system = SystemIn(r.owner)

(***************************************************************************)
(* The inductive core: all the other invariants of the processor are about *)
(* one step more, and these steps are kept by any other process that only  *)
(* adds to the tables.                                                     *)
(***************************************************************************)
Core == Shape /\ Progress /\ Mapped /\ ViewStored

\* A step that commits nothing.
LEMMA NoCommit ==
    ASSUME Core, db' = db PROVE Shape' /\ Grows /\ Grounded /\ Controls
BY DEF Core, Shape, Grows, Keeps, Grounded, TablesControlled, Controls

LEMMA KeepsItself == ASSUME NEW table, NEW Cols PROVE Keeps(table, table, Cols)
BY DEF Keeps

LEMMA KeyRowsKeys ==
    ASSUME NEW keys PROVE KeysOf(KeyRows(keys)) = {keys[i] : i \in DOMAIN keys}
BY DEF KeysOf, KeyRows, Row

LEMMA SetFactions ==
    ASSUME Core, NEW v, db' = [db EXCEPT !.factions = v], db.factions \subseteq v
    PROVE  Shape' /\ Grows /\ Grounded /\ Controls
<1>1. DOMAIN db' = Tables /\ db'.factions = v /\ db'.systems = db.systems
      /\ db'.presences = db.presences /\ db'.bodies = db.bodies /\ db'.rings = db.rings
      /\ db'.hotspots = db.hotspots /\ db'.stations = db.stations
  BY DEF Core, Shape, Tables
<1>2. Shape'
  BY <1>1 DEF Core, Shape
<1>3. Grows /\ Grounded
  BY <1>1, KeepsItself DEF Grows, Grounded
<1>4. Controls
  BY <1>1 DEF TablesControlled, Controls, OrNull
<1>5. QED
  BY <1>2, <1>3, <1>4

LEMMA SetBodies ==
    ASSUME Core, NEW v, db' = [db EXCEPT !.bodies = v], db.bodies \subseteq v,
           \A b \in v \ db.bodies : b.system \in DOMAIN db.systems
    PROVE  Shape' /\ Grows /\ Grounded /\ Controls
<1>1. DOMAIN db' = Tables /\ db'.bodies = v /\ db'.systems = db.systems
      /\ db'.presences = db.presences /\ db'.factions = db.factions /\ db'.rings = db.rings
      /\ db'.hotspots = db.hotspots /\ db'.stations = db.stations
  BY DEF Core, Shape, Tables
<1>2. Shape' /\ Controls
  BY <1>1 DEF Core, Shape, TablesControlled, Controls
<1>3. Grows /\ Grounded
  BY <1>1, KeepsItself DEF Grows, Grounded
<1>4. QED
  BY <1>2, <1>3

LEMMA SetRings ==
    ASSUME Core, NEW v, db' = [db EXCEPT !.rings = v], db.rings \subseteq v,
           \A r \in v \ db.rings : r.body \in db.bodies
    PROVE  Shape' /\ Grows /\ Grounded /\ Controls
<1>1. DOMAIN db' = Tables /\ db'.rings = v /\ db'.systems = db.systems
      /\ db'.presences = db.presences /\ db'.factions = db.factions /\ db'.bodies = db.bodies
      /\ db'.hotspots = db.hotspots /\ db'.stations = db.stations
  BY DEF Core, Shape, Tables
<1>2. Shape' /\ Controls
  BY <1>1 DEF Core, Shape, TablesControlled, Controls
<1>3. Grows /\ Grounded
  BY <1>1, KeepsItself DEF Grows, Grounded
<1>4. QED
  BY <1>2, <1>3

LEMMA SetHotspots ==
    ASSUME Core, NEW v, db' = [db EXCEPT !.hotspots = v], db.hotspots \subseteq v,
           \A h \in v \ db.hotspots : h.ring \in db.rings
    PROVE  Shape' /\ Grows /\ Grounded /\ Controls
<1>1. DOMAIN db' = Tables /\ db'.hotspots = v /\ db'.systems = db.systems
      /\ db'.presences = db.presences /\ db'.factions = db.factions /\ db'.bodies = db.bodies
      /\ db'.rings = db.rings /\ db'.stations = db.stations
  BY DEF Core, Shape, Tables
<1>2. Shape' /\ Controls
  BY <1>1 DEF Core, Shape, TablesControlled, Controls
<1>3. Grows /\ Grounded
  BY <1>1, KeepsItself DEF Grows, Grounded
<1>4. QED
  BY <1>2, <1>3

LEMMA SetRaw ==
    ASSUME Core, NEW t \in {"rawSystems", "rawPresences", "rawPowers"}, NEW v,
           db' = [db EXCEPT ![t] = v]
    PROVE  Shape' /\ Grows /\ Grounded /\ Controls
<1>1. DOMAIN db' = Tables /\ db'.hotspots = db.hotspots /\ db'.systems = db.systems
      /\ db'.presences = db.presences /\ db'.factions = db.factions /\ db'.bodies = db.bodies
      /\ db'.rings = db.rings /\ db'.stations = db.stations
  BY DEF Core, Shape, Tables
<1>2. Shape' /\ Controls
  BY <1>1 DEF Core, Shape, TablesControlled, Controls
<1>3. Grows /\ Grounded
  BY <1>1, KeepsItself DEF Grows, Grounded
<1>4. QED
  BY <1>2, <1>3

LEMMA UpsertKeeps ==
    ASSUME NEW table, NEW rows, NEW Cols, NEW ok,
           \A k \in DOMAIN table : DOMAIN table[k] = Cols
    PROVE  /\ Keeps(table, UpsertAll(table, rows, Cols, ok), Cols)
           /\ \A k \in DOMAIN UpsertAll(table, rows, Cols, ok) :
                 DOMAIN UpsertAll(table, rows, Cols, ok)[k] = Cols
BY UpsertAllGrows, UpsertAllKeepsValues DEF Keeps

LEMMA SetSystems ==
    ASSUME Core, NEW rows, NEW ok,
           db' = [db EXCEPT !.systems = UpsertAll(@, rows, SystemCols, ok)],
           \A i \in DOMAIN rows : "controlling_faction" \in DOMAIN rows[i].cols =>
              rows[i].cols["controlling_faction"] \in OrNull(db.factions)
    PROVE  Shape' /\ Grows /\ Grounded /\ Controls
<1> DEFINE v == UpsertAll(db.systems, rows, SystemCols, ok)
<1>1. DOMAIN db' = Tables /\ db'.systems = v /\ db'.factions = db.factions
      /\ db'.presences = db.presences /\ db'.bodies = db.bodies /\ db'.rings = db.rings
      /\ db'.hotspots = db.hotspots /\ db'.stations = db.stations
  BY DEF Core, Shape, Tables
<1>2. Keeps(db.systems, v, SystemCols) /\ \A k \in DOMAIN v : DOMAIN v[k] = SystemCols
  BY UpsertKeeps DEF Core, Shape
<1>3. ASSUME TablesControlled, NEW k \in DOMAIN v
      PROVE  v[k]["controlling_faction"] \in OrNull(db.factions)
  <2>1. k \in DOMAIN db.systems =>
           db.systems[k]["controlling_faction"] \in OrNull(db.factions)
    BY <1>3 DEF TablesControlled
  <2>2. "controlling_faction" \in SystemCols /\ Null \in OrNull(db.factions)
    BY DEF SystemCols, OrNull
  <2>3. QED
    BY <2>1, <2>2, UpsertAllValues
<1> HIDE DEF v
<1>4. Shape'
  BY <1>1, <1>2 DEF Core, Shape
<1>5. Grows /\ Grounded
  BY <1>1, <1>2, KeepsItself DEF Grows, Grounded
<1>6. Controls
  BY <1>1, <1>3 DEF TablesControlled, Controls
<1>7. QED
  BY <1>4, <1>5, <1>6

LEMMA SetPresences ==
    ASSUME Core, NEW rows, NEW ok,
           db' = [db EXCEPT !.presences = UpsertAll(@, rows, PresenceCols, ok)],
           \A p \in KeysOf(rows) : p.system \in DOMAIN db.systems /\ p.faction \in db.factions
    PROVE  Shape' /\ Grows /\ Grounded /\ Controls
<1> DEFINE v == UpsertAll(db.presences, rows, PresenceCols, ok)
<1>1. DOMAIN db' = Tables /\ db'.presences = v /\ db'.factions = db.factions
      /\ db'.systems = db.systems /\ db'.bodies = db.bodies /\ db'.rings = db.rings
      /\ db'.hotspots = db.hotspots /\ db'.stations = db.stations
  BY DEF Core, Shape, Tables
<1>2. Keeps(db.presences, v, PresenceCols) /\ \A k \in DOMAIN v : DOMAIN v[k] = PresenceCols
  BY UpsertKeeps DEF Core, Shape
<1>3. DOMAIN v \subseteq DOMAIN db.presences \cup KeysOf(rows)
  BY UpsertAllGrows
<1> HIDE DEF v
<1>4. Shape' /\ Controls
  BY <1>1, <1>2 DEF Core, Shape, TablesControlled, Controls
<1>5. Grows
  BY <1>1, <1>2, KeepsItself DEF Grows
<1>6. Grounded
  BY <1>1, <1>3 DEF Grounded
<1>7. QED
  BY <1>4, <1>5, <1>6

LEMMA SetStations ==
    ASSUME Core, NEW rows, NEW ok,
           db' = [db EXCEPT !.stations = UpsertAll(@, rows, StationCols, ok)],
           \A k \in KeysOf(rows) : OwnerStored(k.owner) /\ IsStationKey(k),
           \A i \in DOMAIN rows : "controlling_faction" \in DOMAIN rows[i].cols =>
              rows[i].cols["controlling_faction"] \in OrNull(db.factions)
    PROVE  Shape' /\ Grows /\ Grounded /\ Controls
<1> DEFINE v == UpsertAll(db.stations, rows, StationCols, ok)
<1>1. DOMAIN db' = Tables /\ db'.stations = v /\ db'.factions = db.factions
      /\ db'.systems = db.systems /\ db'.bodies = db.bodies /\ db'.rings = db.rings
      /\ db'.hotspots = db.hotspots /\ db'.presences = db.presences
  BY DEF Core, Shape, Tables
<1>2. Keeps(db.stations, v, StationCols) /\ \A k \in DOMAIN v : DOMAIN v[k] = StationCols
  BY UpsertKeeps DEF Core, Shape
<1>3. ASSUME TablesControlled, NEW k \in DOMAIN v
      PROVE  v[k]["controlling_faction"] \in OrNull(db.factions)
  <2>1. k \in DOMAIN db.stations =>
           db.stations[k]["controlling_faction"] \in OrNull(db.factions)
    BY <1>3 DEF TablesControlled
  <2>2. "controlling_faction" \in StationCols /\ Null \in OrNull(db.factions)
    BY DEF StationCols, OrNull
  <2>3. QED
    BY <2>1, <2>2, UpsertAllValues
<1>4. DOMAIN v \subseteq DOMAIN db.stations \cup KeysOf(rows)
  BY UpsertAllGrows
<1> HIDE DEF v
<1>5. Shape'
  BY <1>1, <1>2, <1>4 DEF Core, Shape
<1>6. Grows
  BY <1>1, <1>2, KeepsItself DEF Grows
<1>7. Grounded
  BY <1>1, <1>4 DEF Grounded
<1>8. Controls
  BY <1>1, <1>3 DEF TablesControlled, Controls
<1>9. QED
  BY <1>5, <1>6, <1>7, <1>8

-----------------------------------------------------------------------------
\* Past the system's own commit, its row is there.
LEMMA SystemIsStored ==
    ASSUME Core, NEW step, At(step), step \notin {"factions", "mapping", "system"}
    PROVE  msg.system \in DOMAIN db.systems
BY HeadIsOrdered, Zenon DEF Core, Progress, At

LEMMA MappingIsDone ==
    ASSUME Core, NEW step, At(step), step \notin {"factions", "mapping"}
    PROVE  Names(msg) \subseteq db.factions
BY HeadIsOrdered, Zenon DEF Core, Mapped, Progress, At

LEMMA BodyIsGrounded ==
    ASSUME Core, At("bodies"), NEW ok,
           db' = [db EXCEPT !.bodies = UpsertKeys(@, BodyRows(msg), ok)]
    PROVE  Shape' /\ Grows /\ Grounded /\ Controls
<1> DEFINE v == UpsertKeys(db.bodies, BodyRows(msg), ok)
<1>1. \A b \in KeysOf(BodyRows(msg)) : b.system = msg.system
  <2>1. CASE StoredName(msg) = Null
    BY <2>1 DEF BodyRows, KeysOf
  <2>2. CASE StoredName(msg) # Null
    <3> DEFINE keys == <<[system |-> msg.system, name |-> StoredName(msg),
                          number |-> msg.bodyNumber]>>
    <3>1. BodyRows(msg) = KeyRows(keys)
      BY <2>2 DEF BodyRows
    <3>2. \A i \in DOMAIN keys : keys[i].system = msg.system
      OBVIOUS
    <3> HIDE DEF keys
    <3>3. QED
      BY <3>1, <3>2, KeyRowsKeys
  <2>3. QED
    BY <2>1, <2>2
<1>2. msg.system \in DOMAIN db.systems
  BY SystemIsStored
<1>3. db.bodies \subseteq v /\ v \subseteq db.bodies \cup KeysOf(BodyRows(msg))
  BY UpsertKeysGrows
<1>4. db' = [db EXCEPT !.bodies = v]
  OBVIOUS
<1> HIDE DEF v
<1>5. \A b \in v \ db.bodies : b.system \in DOMAIN db.systems
  BY <1>1, <1>2, <1>3
<1>6. QED
  BY <1>3, <1>4, <1>5, SetBodies

LEMMA RingsAreGrounded ==
    ASSUME Core, NEW ok, NEW body \in db.bodies,
           db' = [db EXCEPT !.rings = UpsertKeys(@, RingRows(msg, body), ok)]
    PROVE  Shape' /\ Grows /\ Grounded /\ Controls
<1> DEFINE v == UpsertKeys(db.rings, RingRows(msg, body), ok)
           names == IF msg.bodyName \in Rings THEN <<msg.bodyName>> ELSE msg.rings
           keys == [i \in DOMAIN names |-> [body |-> body, name |-> names[i]]]
<1>1. \A r \in KeysOf(RingRows(msg, body)) : r.body = body
  <2>1. RingRows(msg, body) = KeyRows(keys)
    BY DEF RingRows
  <2>2. \A i \in DOMAIN keys : keys[i].body = body
    OBVIOUS
  <2> HIDE DEF keys
  <2>3. QED
    BY <2>1, <2>2, KeyRowsKeys
<1>2. db.rings \subseteq v /\ v \subseteq db.rings \cup KeysOf(RingRows(msg, body))
  BY UpsertKeysGrows
<1>3. db' = [db EXCEPT !.rings = v]
  OBVIOUS
<1> HIDE DEF v
<1>4. \A r \in v \ db.rings : r.body \in db.bodies
  BY <1>1, <1>2
<1>5. QED
  BY <1>2, <1>3, <1>4, SetRings

LEMMA HotspotsAreGrounded ==
    ASSUME Core, NEW ok, NEW ring \in db.rings,
           db' = [db EXCEPT !.hotspots = UpsertKeys(@, HotspotRows(msg, ring), ok)]
    PROVE  Shape' /\ Grows /\ Grounded /\ Controls
<1> DEFINE v == UpsertKeys(db.hotspots, HotspotRows(msg, ring), ok)
           keys == [i \in DOMAIN msg.signals |->
                      [ring |-> ring, commodity |-> msg.signals[i]]]
<1>1. \A h \in KeysOf(HotspotRows(msg, ring)) : h.ring = ring
  <2>1. HotspotRows(msg, ring) = KeyRows(keys)
    BY DEF HotspotRows
  <2>2. \A i \in DOMAIN keys : keys[i].ring = ring
    OBVIOUS
  <2> HIDE DEF keys
  <2>3. QED
    BY <2>1, <2>2, KeyRowsKeys
<1>2. db.hotspots \subseteq v /\ v \subseteq db.hotspots \cup KeysOf(HotspotRows(msg, ring))
  BY UpsertKeysGrows
<1>3. db' = [db EXCEPT !.hotspots = v]
  OBVIOUS
<1> HIDE DEF v
<1>4. \A h \in v \ db.hotspots : h.ring \in db.rings
  BY <1>1, <1>2
<1>5. QED
  BY <1>2, <1>3, <1>4, SetHotspots

LEMMA PresencesAreGrounded ==
    ASSUME Core, At("presences"), NEW ok,
           db' = [db EXCEPT !.presences =
                    UpsertAll(@, PresenceRows(msg), PresenceCols, ok)]
    PROVE  Shape' /\ Grows /\ Grounded /\ Controls
<1>1. msg.system \in DOMAIN db.systems /\ Names(msg) \subseteq db.factions
  BY SystemIsStored, MappingIsDone
<1>2. \A p \in KeysOf(PresenceRows(msg)) :
         p.system = msg.system /\ p.faction \in Names(msg)
  BY DEF KeysOf, PresenceRows, Row, Names
<1>3. QED
  BY <1>1, <1>2, SetPresences

LEMMA SystemIsGrounded ==
    ASSUME Core, NEW ok,
           db' = [db EXCEPT !.systems = UpsertAll(@, SystemRows(msg), SystemCols, ok)]
    PROVE  Shape' /\ Grows /\ Grounded /\ Controls
<1>1. ControllingFaction(msg) \in OrNull(db.factions)
  BY DEF Core, Mapped, ControllingFaction, OrNull
<1>2. \A i \in DOMAIN SystemRows(msg) :
         SystemRows(msg)[i].cols["controlling_faction"] = ControllingFaction(msg)
  BY DEF SystemRows, Row, SystemCols
<1>3. QED
  BY <1>1, <1>2, SetSystems

LEMMA StationIsGrounded ==
    ASSUME Core, At("station"), NEW ok,
           db' = [db EXCEPT !.stations =
                    UpsertAll(@, StationRows(msg), StationCols, ok)]
    PROVE  Shape' /\ Grows /\ Grounded /\ Controls
<1>1. OwnerStored(owner)
  BY HeadIsOrdered, Zenon DEF Core, Progress, At
<1>2. \A k \in KeysOf(StationRows(msg)) : k.owner = owner /\ IsStationKey(k)
  BY DEF KeysOf, StationRows, Row, IsStationKey
<1>3. \A i \in DOMAIN StationRows(msg) :
         StationRows(msg)[i].cols["controlling_faction"] \in OrNull(db.factions)
  BY DEF StationRows, Row, StationCols
<1>4. QED
  BY <1>1, <1>2, <1>3, SetStations

(***************************************************************************)
(* Every step of process_model, or around it, keeps what is stored and     *)
(* adds only rows whose references are stored.                             *)
(***************************************************************************)
LEMMA StepsAreGrounded ==
    ASSUME Core, [Next]_vars PROVE Shape' /\ Grows /\ Grounded /\ Controls
<1>1. CASE Take
  BY <1>1, NoCommit DEF Take
<1>2. CASE StoreFactions
  <2>1. PICK ok : db' = [db EXCEPT !.factions = UpsertKeys(@, FactionRows(msg), ok)]
    BY <1>2 DEF StoreFactions
  <2>2. QED
    BY <2>1, UpsertKeysGrows, SetFactions
<1>3. CASE MapFactions
  BY <1>3, NoCommit DEF MapFactions
<1>4. CASE MapFactionsRaises
  BY <1>4, NoCommit DEF MapFactionsRaises
<1>5. CASE StoreSystem
  BY <1>5, SystemIsGrounded DEF StoreSystem
<1>6. CASE StoreSystemRaises
  BY <1>6, NoCommit DEF StoreSystemRaises
<1>7. CASE StoreRawSystem
  <2>1. PICK ok \in BOOLEAN :
           db' = IF ok THEN [db EXCEPT !.rawSystems = @ \cup RawSystem(msg)] ELSE db
    BY <1>7 DEF StoreRawSystem
  <2>2. QED
    BY <2>1, NoCommit, SetRaw
<1>8. CASE StoreBody
  BY <1>8, BodyIsGrounded DEF StoreBody, Write
<1>9. CASE StoreRings
  BY <1>9, RingsAreGrounded DEF StoreRings, BodiesNamed
<1>10. CASE SkipRings
  BY <1>10, NoCommit DEF SkipRings
<1>11. CASE StoreHotspots
  BY <1>11, HotspotsAreGrounded DEF StoreHotspots, RingsNamed
<1>12. CASE SkipHotspots
  BY <1>12, NoCommit DEF SkipHotspots
<1>13. CASE StorePresences
  BY <1>13, PresencesAreGrounded DEF StorePresences, Write
<1>14. CASE StoreRawPresences
  <2>1. PICK ok \in BOOLEAN :
           db' = IF ok THEN [db EXCEPT !.rawPresences = @ \cup RawPresences(msg)] ELSE db
    BY <1>14 DEF StoreRawPresences
  <2>2. QED
    BY <2>1, NoCommit, SetRaw
<1>15. CASE StorePowers
  <2>1. PICK ok \in BOOLEAN :
           db' = IF ok THEN [db EXCEPT !.rawPowers = @ \cup RawPowers(msg)] ELSE db
    BY <1>15 DEF StorePowers
  <2>2. QED
    BY <2>1, NoCommit, SetRaw
<1>16. CASE ResolveOwner
  BY <1>16, NoCommit DEF ResolveOwner
<1>17. CASE SkipStation
  BY <1>17, NoCommit DEF SkipStation
<1>18. CASE StoreStation
  BY <1>18, StationIsGrounded DEF StoreStation, Write
<1>19. CASE Interrupt
  BY <1>19, NoCommit DEF Interrupt
<1>20. CASE RefreshView
  BY <1>20, NoCommit DEF RefreshView
<1>21. CASE UNCHANGED vars
  BY <1>21, NoCommit DEF vars
<1>22. QED
  BY <1>1, <1>2, <1>3, <1>4, <1>5, <1>6, <1>7, <1>8, <1>9, <1>10, <1>11, <1>12, <1>13,
     <1>14, <1>15, <1>16, <1>17, <1>18, <1>19, <1>20, <1>21 DEF Next, ProcessModel

-----------------------------------------------------------------------------
\* What is stored stays referable.
LEMMA OwnersStay ==
    ASSUME Grows, NEW o, OwnerStored(o) PROVE OwnerStored(o)'
BY DEF Grows, Keeps, OwnerStored

LEMMA OwnersAreStored ==
    ASSUME Core, At("owner"), NEW o \in Owners(msg) PROVE OwnerStored(o)
<1>1. msg.system \in DOMAIN db.systems
  BY SystemIsStored
<1>2. \A r \in ViewRows(msg) : OwnerStored(r.owner)
  BY DEF Core, ViewStored, ViewRows
<1>3. ASSUME NEW x \in OwnersByKind(msg) PROVE OwnerStored(x)
  <2>1. CASE Kind[msg.station] = "orbital"
    BY <1>1, <1>3, <2>1 DEF OwnersByKind, SystemOwner, OwnerStored
  <2>2. CASE Kind[msg.station] = "planetary"
    BY <1>3, <2>2 DEF OwnersByKind, BodyOwner, BodiesNamed, OwnerStored
  <2>3. CASE Kind[msg.station] \notin {"orbital", "planetary"}
    BY <1>3, <2>3 DEF OwnersByKind
  <2>4. QED
    BY <2>1, <2>2, <2>3
<1>4. QED
  BY <1>2, <1>3 DEF Owners

\* upsert_all cannot refuse the one row of the system for itself.
LEMMA SystemIsWritten ==
    msg.system \in DOMAIN UpsertAll(db.systems, SystemRows(msg), SystemCols, TRUE)
<1>1. /\ SystemRows(msg) # <<>> /\ DOMAIN SystemRows(msg) = {1}
      /\ SystemRows(msg)[1].key = msg.system
  BY DEF SystemRows, Row
<1>2. Accepted(SystemRows(msg), TRUE) /\ msg.system \in KeysOf(SystemRows(msg))
  BY <1>1 DEF Accepted, DuplicateKey, Ragged, KeysOf
<1>3. QED
  BY <1>2 DEF UpsertAll, Merge

\* process_model goes on to its next call.
LEMMA Advance ==
    ASSUME Core, Grows, todo # <<>>, todo' = Tail(todo), msg' = msg,
           Head(todo) = "system" => msg.system \in DOMAIN db'.systems,
           IF Head(todo) = "owner" THEN OwnerStored(owner)' ELSE owner' = owner,
           IF Head(todo) = "mapping" THEN known' = Names(msg) /\ known' \subseteq db.factions
                                     ELSE known' = known
    PROVE  Progress' /\ Mapped'
<1>1. Ordered(todo)
  BY DEF Core, Progress
<1>2. Ordered(todo')
  BY <1>1, TailIsOrdered
<1>3. todo' # <<>> => msg'.system \in DOMAIN db'.systems \/ Pending(todo', "system")
  <2>1. msg.system \in DOMAIN db.systems => msg.system \in DOMAIN db'.systems
    BY DEF Grows, Keeps
  <2>2. Pending(todo, "system") /\ Head(todo) # "system" => Pending(todo', "system")
    BY <1>1, TailIsOrdered
  <2>3. QED
    BY <2>1, <2>2 DEF Core, Progress
<1>4. Pending(todo', "station") => Pending(todo', "owner") \/ OwnerStored(owner)'
  <2>1. Pending(todo', "station") => Pending(todo, "station")
    BY <1>1, TailIsOrdered
  <2>2. Pending(todo, "owner") /\ Head(todo) # "owner" => Pending(todo', "owner")
    BY <1>1, TailIsOrdered
  <2>3. OwnerStored(owner) /\ owner' = owner => OwnerStored(owner)'
    BY OwnersStay DEF OwnerStored
  <2>4. QED
    BY <2>1, <2>2, <2>3 DEF Core, Progress
<1>5. Mapped'
  <2>1. Pending(todo, "mapping") /\ Head(todo) # "mapping" => Pending(todo', "mapping")
    BY <1>1, TailIsOrdered
  <2>2. QED
    BY <2>1 DEF Core, Mapped, Grows, Names
<1>6. QED
  BY <1>2, <1>3, <1>4, <1>5 DEF Progress

\* It is over, or it was given up.
LEMMA NothingLeft ==
    ASSUME Core, Grows, todo' = <<>>, known' \in {known, {}} PROVE Progress' /\ Mapped'
<1>1. Progress'
  BY NothingIsOrdered DEF Progress
<1>2. Mapped'
  BY DEF Core, Mapped, Grows
<1>3. QED
  BY <1>1, <1>2

LEMMA StepsAreInOrder ==
    ASSUME Core, [Next]_vars, Grows PROVE Progress' /\ Mapped'
<1> USE DEF At, Write, WriteRaw
<1>1. CASE Take
  <2>1. Ordered(todo') /\ Pending(todo', "system") /\ Pending(todo', "mapping")
        /\ (Pending(todo', "station") => Pending(todo', "owner"))
    BY <1>1, PlanIsOrdered DEF Take
  <2>2. QED
    BY <1>1, <2>1 DEF Take, Progress, Mapped
<1>2. CASE StoreFactions
  BY <1>2, Advance DEF StoreFactions
<1>3. CASE MapFactions
  BY <1>3, Advance DEF MapFactions
<1>4. CASE MapFactionsRaises
  BY <1>4, NothingLeft DEF MapFactionsRaises, Abort
<1>5. CASE StoreSystem
  <2>1. msg.system \in DOMAIN db'.systems
    BY <1>5, SystemIsWritten DEF StoreSystem, Core, Shape, Tables
  <2>2. QED
    BY <1>5, <2>1, Advance DEF StoreSystem
<1>6. CASE StoreSystemRaises
  BY <1>6, NothingLeft DEF StoreSystemRaises, Abort
<1>7. CASE StoreRawSystem
  BY <1>7, Advance DEF StoreRawSystem
<1>8. CASE StoreBody
  BY <1>8, Advance DEF StoreBody
<1>9. CASE StoreRings
  BY <1>9, Advance DEF StoreRings
<1>10. CASE SkipRings
  BY <1>10, Advance DEF SkipRings
<1>11. CASE StoreHotspots
  BY <1>11, Advance DEF StoreHotspots
<1>12. CASE SkipHotspots
  BY <1>12, Advance DEF SkipHotspots
<1>13. CASE StorePresences
  BY <1>13, Advance DEF StorePresences
<1>14. CASE StoreRawPresences
  BY <1>14, Advance DEF StoreRawPresences
<1>15. CASE StorePowers
  BY <1>15, Advance DEF StorePowers
<1>16. CASE ResolveOwner
  <2>1. OwnerStored(owner)'
    BY <1>16, OwnersAreStored DEF ResolveOwner, OwnerStored
  <2>2. QED
    BY <1>16, <2>1, Advance DEF ResolveOwner
<1>17. CASE SkipStation
  <2>1. Tail(Tail(todo)) = <<>>
    BY <1>17, HeadIsOrdered DEF SkipStation, Core, Progress
  <2>2. QED
    BY <1>17, <2>1, NothingLeft DEF SkipStation
<1>18. CASE StoreStation
  BY <1>18, Advance DEF StoreStation
<1>19. CASE Interrupt
  BY <1>19, NothingLeft DEF Interrupt, Abort
<1>20. CASE RefreshView
  BY <1>20 DEF RefreshView, Core, Progress, Mapped, OwnerStored
<1>21. CASE UNCHANGED vars
  BY <1>21 DEF vars, Core, Progress, Mapped, OwnerStored
<1>22. QED
  BY <1>1, <1>2, <1>3, <1>4, <1>5, <1>6, <1>7, <1>8, <1>9, <1>10, <1>11, <1>12, <1>13,
     <1>14, <1>15, <1>16, <1>17, <1>18, <1>19, <1>20, <1>21 DEF Next, ProcessModel

\* The view is what it was, or it is computed anew.
LEMMA ViewStep ==
    ASSUME [Next]_vars PROVE view' = view \/ (view' = ResolvedStations /\ db' = db)
BY DEF Next, ProcessModel, vars, Take, StoreFactions, MapFactions, MapFactionsRaises,
   StoreSystem, StoreSystemRaises, StoreRawSystem, StoreBody, StoreRings, SkipRings,
   StoreHotspots, SkipHotspots, StorePresences, StoreRawPresences, StorePowers,
   ResolveOwner, SkipStation, StoreStation, Interrupt, RefreshView

LEMMA ViewStaysStored ==
    ASSUME Core, Grows, view' = view PROVE ViewStored'
BY OwnersStay DEF Core, ViewStored, Grows, Keeps

LEMMA ResolvedIsStored ==
    ASSUME Shape, NEW r \in ResolvedStations
    PROVE  /\ [name |-> r.name, owner |-> r.owner] \in DOMAIN db.stations
           /\ OwnerStored(r.owner)
           /\ r.system = SystemIn(r.owner)
           /\ r.faction
                = db.stations[[name |-> r.name, owner |-> r.owner]]["controlling_faction"]
<1>1. PICK k \in DOMAIN db.stations :
         /\ OwnerStored(k.owner)
         /\ r = [name |-> k.name, owner |-> k.owner, system |-> SystemIn(k.owner),
                 faction |-> db.stations[k]["controlling_faction"]]
  BY DEF ResolvedStations
<1>2. k = [name |-> k.name, owner |-> k.owner]
  BY DEF Shape, IsStationKey
<1>3. QED
  BY <1>1, <1>2

-----------------------------------------------------------------------------
LEMMA InitCore == Init => Core
<1> SUFFICES ASSUME Init PROVE Core
  OBVIOUS
<1>1. Shape
  BY DEF Init, Shape, Tables, Empty
<1>2. Progress /\ Mapped
  BY NothingIsOrdered DEF Init, Progress, Mapped
<1>3. ViewStored
  BY DEF Init, ViewStored
<1>4. QED
  BY <1>1, <1>2, <1>3 DEF Core

LEMMA NextCore == Core /\ [Next]_vars => Core'
<1> SUFFICES ASSUME Core, [Next]_vars PROVE Core'
  OBVIOUS
<1>1. Shape' /\ Grows
  BY StepsAreGrounded
<1>2. Progress' /\ Mapped'
  BY <1>1, StepsAreInOrder
<1>3. ViewStored'
  <2>1. CASE view' = view
    BY <1>1, <2>1, ViewStaysStored
  <2>2. CASE view' = ResolvedStations /\ db' = db
    BY <2>2, ResolvedIsStored DEF ViewStored, Core, OwnerStored
  <2>3. QED
    BY <2>1, <2>2, ViewStep
<1>4. QED
  BY <1>1, <1>2, <1>3 DEF Core

LEMMA CoreAlways == Spec => []Core
BY InitCore, NextCore, PTL DEF Spec

ViewControlled == \A r \in view : r.faction \in OrNull(db.factions)

(***************************************************************************)
(* The controlling factions of systems and of stations are known factions  *)
(* and the view, however stale, names stations, owners and factions that   *)
(* are still there: journal_v1_0.py with the view that pg_cron refreshes.  *)
(***************************************************************************)
THEOREM ControllersAreKnownCorrect == Spec => []ControllersAreKnown
<1>1. Init => TablesControlled /\ ViewControlled
  BY DEF Init, TablesControlled, ViewControlled, Empty
<1>2. ASSUME Core, [Next]_vars, TablesControlled, ViewControlled
      PROVE  TablesControlled' /\ ViewControlled'
  <2>1. Grows /\ TablesControlled'
    BY <1>2, StepsAreGrounded DEF Controls
  <2>2. CASE view' = view
    BY <1>2, <2>1, <2>2 DEF ViewControlled, Grows, OrNull
  <2>3. CASE view' = ResolvedStations /\ db' = db
    BY <1>2, <2>3, ResolvedIsStored DEF ViewControlled, Core, TablesControlled
  <2>4. QED
    BY <1>2, <2>1, <2>2, <2>3, ViewStep
<1>3. Core /\ TablesControlled /\ ViewControlled => ControllersAreKnown
  BY DEF Core, ViewStored, TablesControlled, ViewControlled, ControllersAreKnown
<1>4. QED
  BY <1>1, <1>2, <1>3, CoreAlways, PTL DEF Spec

-----------------------------------------------------------------------------
\* The values of a table that only grows stay known.
LEMMA ColumnsGrow ==
    ASSUME NEW kind, NEW old, NEW new, NEW Cols, Keeps(old, new, Cols),
           \A k \in DOMAIN old : DOMAIN old[k] = Cols,
           \A k \in DOMAIN new : DOMAIN new[k] = Cols
    PROVE  Columns(kind, old) \subseteq Columns(kind, new)
<1> SUFFICES ASSUME NEW f \in Columns(kind, old) PROVE f \in Columns(kind, new)
  OBVIOUS
<1>1. PICK k \in DOMAIN old :
         f \in {Fact(kind, [row |-> k, column |-> c]) :
                   c \in {c \in DOMAIN old[k] : old[k][c] # Null}}
  BY Zenon DEF Columns
<1>2. PICK c \in DOMAIN old[k] :
         old[k][c] # Null /\ f = Fact(kind, [row |-> k, column |-> c])
  BY <1>1
<1>3. k \in DOMAIN new /\ c \in DOMAIN new[k] /\ new[k][c] # Null
  BY <1>2 DEF Keeps
<1> DEFINE Of(j) == {Fact(kind, [row |-> j, column |-> d]) :
                       d \in {d \in DOMAIN new[j] : new[j][d] # Null}}
<1>4. f \in Of(k)
  BY <1>2, <1>3
<1>5. Columns(kind, new) = UNION {Of(j) : j \in DOMAIN new}
  BY Zenon DEF Columns
<1> HIDE DEF Of
<1>6. QED
  BY <1>3, <1>4, <1>5

LEMMA FactsGrow ==
    ASSUME Core, Shape', Grows PROVE Facts \subseteq Facts'
<1>1. /\ Columns("systemColumn", db.systems) \subseteq Columns("systemColumn", db'.systems)
      /\ Columns("presenceColumn", db.presences)
           \subseteq Columns("presenceColumn", db'.presences)
      /\ Columns("stationColumn", db.stations)
           \subseteq Columns("stationColumn", db'.stations)
  BY ColumnsGrow DEF Core, Shape, Grows
<1>2. QED
  BY <1>1 DEF Facts, Grows, Keeps

LEMMA NewFactsAreGrounded ==
    ASSUME Core, Grounded, NEW f \in Facts', f \notin Facts
    PROVE  FactNeeds(f) \subseteq Facts
<1>1. CASE \E p \in DOMAIN db'.presences : f = Fact("presence", p)
  <2>1. PICK p \in DOMAIN db'.presences : f = Fact("presence", p)
    BY <1>1
  <2>2. p \notin DOMAIN db.presences
    BY <2>1 DEF Facts
  <2>3. p.system \in DOMAIN db.systems /\ p.faction \in db.factions
    BY <2>1, <2>2 DEF Grounded
  <2>4. FactNeeds(f) = {Fact("system", p.system), Fact("faction", p.faction)}
    BY <2>1 DEF FactNeeds, Fact
  <2>5. QED
    BY <2>3, <2>4 DEF Facts
<1>2. CASE \E b \in db'.bodies : f = Fact("body", b)
  <2>1. PICK b \in db'.bodies : f = Fact("body", b)
    BY <1>2
  <2>2. b.system \in DOMAIN db.systems
    BY <2>1 DEF Facts, Grounded
  <2>3. FactNeeds(f) = {Fact("system", b.system)}
    BY <2>1 DEF FactNeeds, Fact
  <2>4. QED
    BY <2>2, <2>3 DEF Facts
<1>3. CASE \E r \in db'.rings : f = Fact("ring", r)
  <2>1. PICK r \in db'.rings : f = Fact("ring", r)
    BY <1>3
  <2>2. r.body \in db.bodies
    BY <2>1 DEF Facts, Grounded
  <2>3. FactNeeds(f) = {Fact("body", r.body)}
    BY <2>1 DEF FactNeeds, Fact
  <2>4. QED
    BY <2>2, <2>3 DEF Facts
<1>4. CASE \E h \in db'.hotspots : f = Fact("hotspot", h)
  <2>1. PICK h \in db'.hotspots : f = Fact("hotspot", h)
    BY <1>4
  <2>2. h.ring \in db.rings
    BY <2>1 DEF Facts, Grounded
  <2>3. FactNeeds(f) = {Fact("ring", h.ring)}
    BY <2>1 DEF FactNeeds, Fact
  <2>4. QED
    BY <2>2, <2>3 DEF Facts
<1>5. CASE \E k \in DOMAIN db'.stations : f = Fact("station", k)
  <2>1. PICK k \in DOMAIN db'.stations : f = Fact("station", k)
    BY <1>5
  <2>2. OwnerStored(k.owner)
    BY <2>1 DEF Facts, Grounded
  <2>3. FactNeeds(f) = {Fact(k.owner.type, k.owner.id)}
    BY <2>1 DEF FactNeeds, Fact
  <2>4. QED
    BY <2>2, <2>3 DEF Facts, OwnerStored
<1>6. CASE f.kind \notin {"presence", "body", "ring", "hotspot", "station"}
  BY <1>6 DEF FactNeeds
<1>7. QED
  BY <1>1, <1>2, <1>3, <1>4, <1>5, <1>6 DEF Facts, Columns, Fact

(***************************************************************************)
(* process_model implements the knowledge base: for every message of every *)
(* kind, in every order, with any interruption and any refused statement,  *)
(* nothing stored is lost and no row is written before what it refers to.  *)
(***************************************************************************)
THEOREM LearnsInOrderCorrect == Spec => LearnsInOrder
<1>1. Init => KB!KBInit
  BY DEF Init, KB!KBInit, Facts, Columns, Empty
<1>2. Core /\ [Next]_vars => [KB!Learn]_Facts
  BY StepsAreGrounded, FactsGrow, NewFactsAreGrounded DEF KB!Learn
<1>3. QED
  BY <1>1, <1>2, CoreAlways, PTL DEF Spec, LearnsInOrder, KB!KBSpec

(***************************************************************************)
(* Hence no stored row ever refers to one that is missing: not even a      *)
(* station's owner, which the database does not check.                     *)
(***************************************************************************)
THEOREM NoDanglingReference == Spec => []KB!Closed
<1>1. KB!KBInit => KB!Closed
  BY DEF KB!KBInit, KB!Closed
<1>2. KB!Closed /\ [KB!Learn]_Facts => KB!Closed'
  BY DEF KB!Closed, KB!Learn
<1>3. QED
  BY <1>1, <1>2, LearnsInOrderCorrect, PTL DEF LearnsInOrder, KB!KBSpec

-----------------------------------------------------------------------------
(***************************************************************************)
(* What a step is, seen from the message in hand: the next call of its     *)
(* plan, the end of it, or a step of somebody else.                        *)
(***************************************************************************)
Continues ==
    /\ todo # <<>>
    /\ todo' = Tail(todo)
    /\ msg' = msg
    /\ clean' => clean
    /\ IF Head(todo) = "factions" THEN StoreFactions ELSE db'.factions = db.factions
    /\ IF Head(todo) = "system" THEN StoreSystem ELSE db'.systems = db.systems
    /\ IF Head(todo) = "bodies" THEN StoreBody ELSE db'.bodies = db.bodies
    /\ IF Head(todo) = "rings" THEN StoreRings \/ SkipRings ELSE db'.rings = db.rings
    /\ IF Head(todo) = "hotspots" THEN StoreHotspots \/ SkipHotspots
                                  ELSE db'.hotspots = db.hotspots
    /\ IF Head(todo) = "presences" THEN StorePresences ELSE db'.presences = db.presences
    /\ IF Head(todo) = "owner" THEN ResolveOwner ELSE owner' = owner
    /\ IF Head(todo) = "station" THEN StoreStation ELSE db'.stations = db.stations

Stops ==
    /\ todo # <<>>
    /\ todo' = <<>>
    /\ msg' = msg
    /\ db' = db
    /\ clean' => clean /\ SkipStation /\ Head(todo) = "owner"

Elsewhere == UNCHANGED <<msg, todo, owner, db, clean>>

LEMMA WhatAStepIs ==
    ASSUME Core, [Next]_vars PROVE Take \/ Continues \/ Stops \/ Elsewhere
<1>1. Ordered(todo) /\ DOMAIN db = Tables
  BY DEF Core, Progress, Shape
<1> USE DEF At
<1>2. CASE StoreFactions \/ StoreSystem \/ StoreBody \/ StorePresences \/ StoreStation
  BY <1>1, <1>2 DEF StoreFactions, StoreSystem, StoreBody, StorePresences, StoreStation,
     Write, StillClean, Continues, Tables
<1>3. CASE StoreRings \/ SkipRings
  BY <1>1, <1>3 DEF StoreRings, SkipRings, Write, StillClean, Continues, Tables
<1>4. CASE StoreHotspots \/ SkipHotspots
  BY <1>1, <1>4 DEF StoreHotspots, SkipHotspots, StillClean, Continues, Tables
<1>5. CASE StoreRawSystem \/ StoreRawPresences \/ StorePowers
  BY <1>1, <1>5 DEF StoreRawSystem, StoreRawPresences, StorePowers, WriteRaw,
     Continues, Tables
<1>6. CASE MapFactions \/ ResolveOwner
  BY <1>1, <1>6 DEF MapFactions, ResolveOwner, Continues, Tables
<1>7. CASE SkipStation
  <2>1. Tail(Tail(todo)) = <<>>
    BY <1>1, <1>7, HeadIsOrdered DEF SkipStation
  <2>2. todo # <<>> /\ todo' = <<>> /\ msg' = msg /\ db' = db /\ clean' = clean
        /\ Head(todo) = "owner"
    BY <1>7, <2>1 DEF SkipStation
  <2>3. QED
    BY <1>7, <2>2 DEF Stops
<1>8. CASE MapFactionsRaises \/ StoreSystemRaises \/ Interrupt
  BY <1>8 DEF MapFactionsRaises, StoreSystemRaises, Interrupt, Abort, Stops
<1>9. CASE RefreshView \/ UNCHANGED vars
  BY <1>9 DEF RefreshView, vars, Elsewhere
<1>10. QED
  BY <1>2, <1>3, <1>4, <1>5, <1>6, <1>7, <1>8, <1>9 DEF Next, ProcessModel

-----------------------------------------------------------------------------
(***************************************************************************)
(* Types.  A message is in hand while calls of it are left, and a station  *)
(* to store has a name and an owner.                                       *)
(***************************************************************************)
TablesTyped ==
    /\ db.factions \subseteq Factions
    /\ DOMAIN db.systems \subseteq Systems
    /\ DOMAIN db.presences \subseteq Presence
    /\ db.bodies \subseteq Body
    /\ db.rings \subseteq Ring
    /\ db.hotspots \subseteq [ring : Ring, commodity : Commodities]
    /\ DOMAIN db.stations \subseteq StationKey

InHand == todo # <<>> => msg \in Messages

Resolved ==
    Pending(todo, "station") =>
        \/ Pending(todo, "owner")
        \/ /\ msg.station \in Stations
           /\ owner \in Owner
           /\ Kind[msg.station] = "orbital" => SystemIn(owner) = msg.system

Typed == JournalTypeOK /\ InHand /\ Resolved

LEMMA MessageFields ==
    ASSUME NEW m \in Messages
    PROVE  /\ m.event \in Events /\ m.system \in Systems /\ m.time \in Nat
           /\ m.systemFaction \in OrNull(Factions)
           /\ m.factions \in Seq([name : Factions, state : OrNull(Values)])
           /\ m.body \in OrNull(Planets) /\ m.bodyName \in OrNull(Planets \cup Rings)
           /\ m.bodyNumber \in Nat /\ m.rings \in Seq(Rings) /\ m.signals \in Seq(Values)
           /\ m.station \in OrNull(Stations) /\ m.stationFaction \in OrNull(Factions)
BY JournalAssumption DEF Message

LEMMA SeqElements ==
    ASSUME NEW S, NEW q \in Seq(S) PROVE \A i \in DOMAIN q : q[i] \in S
OBVIOUS

LEMMA NamesAreFactions ==
    ASSUME NEW m \in Messages PROVE Names(m) \subseteq Factions
<1>1. m.factions \in Seq([name : Factions, state : OrNull(Values)])
  BY MessageFields
<1>2. \A i \in DOMAIN m.factions :
         m.factions[i] \in [name : Factions, state : OrNull(Values)]
  BY <1>1, SeqElements, Zenon
<1>3. \A i \in DOMAIN m.factions : m.factions[i].name \in Factions
  BY <1>2
<1>4. QED
  BY <1>3 DEF Names

\* The keys of the rows that the calls write.
LEMMA FactionKeys ==
    ASSUME NEW m PROVE KeysOf(FactionRows(m)) = Names(m)
BY DEF KeysOf, FactionRows, KeyRows, Row, Names

LEMMA SystemKeys ==
    ASSUME NEW m PROVE KeysOf(SystemRows(m)) = {m.system}
<1>1. DOMAIN SystemRows(m) = {1} /\ SystemRows(m)[1].key = m.system
  BY DEF SystemRows, Row
<1>2. QED
  BY <1>1 DEF KeysOf

LEMMA PresenceKeys ==
    ASSUME NEW m
    PROVE  KeysOf(PresenceRows(m)) = {[system |-> m.system, faction |-> f] : f \in Names(m)}
BY DEF KeysOf, PresenceRows, Row, Names

LEMMA BodyKeys ==
    ASSUME NEW m
    PROVE  KeysOf(BodyRows(m)) =
             IF StoredName(m) = Null THEN {}
             ELSE {[system |-> m.system, name |-> StoredName(m), number |-> m.bodyNumber]}
<1> DEFINE key == [system |-> m.system, name |-> StoredName(m), number |-> m.bodyNumber]
<1>1. KeysOf(KeyRows(<<key>>)) = {<<key>>[i] : i \in DOMAIN <<key>>}
  BY KeyRowsKeys
<1>2. DOMAIN <<key>> = {1} /\ <<key>>[1] = key
  OBVIOUS
<1> HIDE DEF key
<1>3. KeysOf(KeyRows(<<key>>)) = {key}
  BY <1>1, <1>2
<1>4. KeysOf(<<>>) = {}
  BY DEF KeysOf
<1>5. QED
  BY <1>3, <1>4 DEF BodyRows, key

LEMMA RingKeys ==
    ASSUME NEW m, NEW body
    PROVE  KeysOf(RingRows(m, body)) = {[body |-> body, name |-> n] : n \in ScannedRings(m)}
<1> DEFINE names == IF m.bodyName \in Rings THEN <<m.bodyName>> ELSE m.rings
           keys == [i \in DOMAIN names |-> [body |-> body, name |-> names[i]]]
<1>1. {names[i] : i \in DOMAIN names} = ScannedRings(m)
  BY DEF ScannedRings
<1>2. KeysOf(RingRows(m, body)) = {keys[i] : i \in DOMAIN keys}
  BY KeyRowsKeys DEF RingRows
<1>3. {keys[i] : i \in DOMAIN keys} = {[body |-> body, name |-> names[i]] : i \in DOMAIN names}
  OBVIOUS
<1> HIDE DEF names, keys
<1>4. QED
  BY <1>1, <1>2, <1>3

LEMMA HotspotKeys ==
    ASSUME NEW m, NEW ring
    PROVE  KeysOf(HotspotRows(m, ring))
             = {[ring |-> ring, commodity |-> m.signals[i]] : i \in DOMAIN m.signals}
BY DEF KeysOf, HotspotRows, KeyRows, Row

LEMMA StationKeys ==
    ASSUME NEW m
    PROVE  KeysOf(StationRows(m)) =
             IF m.stationFaction \in OrNull(db.factions)
             THEN {[name |-> m.station, owner |-> owner]} ELSE {}
<1>1. CASE m.stationFaction \in OrNull(db.factions)
  <2>1. /\ DOMAIN StationRows(m) = {1}
        /\ StationRows(m)[1].key = [name |-> m.station, owner |-> owner]
    BY <1>1 DEF StationRows, Row
  <2>2. QED
    BY <1>1, <2>1 DEF KeysOf
<1>2. CASE m.stationFaction \notin OrNull(db.factions)
  BY <1>2 DEF StationRows, KeysOf
<1>3. QED
  BY <1>1, <1>2

LEMMA StoredNameIsPlanet ==
    ASSUME NEW m \in Messages
    PROVE  StoredName(m) = Null \/ StoredName(m) \in Planets
<1>1. m.body \in OrNull(Planets) /\ m.bodyName \in OrNull(Planets \cup Rings)
  BY MessageFields
<1>2. \A r \in Rings : Parent[r] \in Planets
  BY JournalAssumption
<1>3. QED
  BY <1>1, <1>2 DEF StoredName, OrNull

LEMMA ScannedRingsAreRings ==
    ASSUME NEW m \in Messages PROVE ScannedRings(m) \subseteq Rings
<1>1. m.rings \in Seq(Rings)
  BY MessageFields
<1>2. \A i \in DOMAIN m.rings : m.rings[i] \in Rings
  BY <1>1, SeqElements, Zenon
<1>3. QED
  BY <1>2 DEF ScannedRings

LEMMA TablesStayTyped ==
    ASSUME Core, Typed, Continues PROVE TablesTyped'
<1>1. msg \in Messages /\ DOMAIN db = Tables /\ TablesTyped
  BY DEF Typed, InHand, Continues, Core, Shape, JournalTypeOK, TablesTyped
<1>2. msg.system \in Systems /\ Names(msg) \subseteq Factions
  BY <1>1, MessageFields, NamesAreFactions
<1>3. db'.factions \subseteq Factions
  <2>1. CASE StoreFactions
    <3>1. PICK ok : db'.factions = UpsertKeys(db.factions, FactionRows(msg), ok)
      BY <1>1, <2>1 DEF StoreFactions, Tables
    <3>2. QED
      BY <1>1, <1>2, <3>1, UpsertKeysGrows, FactionKeys DEF TablesTyped
  <2>2. QED
    BY <1>1, <2>1 DEF Continues, TablesTyped
<1>4. DOMAIN db'.systems \subseteq Systems
  <2>1. CASE StoreSystem
    <3>1. db'.systems = UpsertAll(db.systems, SystemRows(msg), SystemCols, TRUE)
      BY <1>1, <2>1 DEF StoreSystem, Tables
    <3>2. QED
      BY <1>1, <1>2, <3>1, UpsertAllGrows, SystemKeys DEF TablesTyped
  <2>2. QED
    BY <1>1, <2>1 DEF Continues, TablesTyped
<1>5. DOMAIN db'.presences \subseteq Presence
  <2>1. CASE StorePresences
    <3>1. PICK ok :
             db'.presences = UpsertAll(db.presences, PresenceRows(msg), PresenceCols, ok)
      BY <1>1, <2>1 DEF StorePresences, Tables
    <3>2. KeysOf(PresenceRows(msg)) \subseteq Presence
      BY <1>2, PresenceKeys DEF Presence
    <3>3. QED
      BY <1>1, <3>1, <3>2, UpsertAllGrows DEF TablesTyped
  <2>2. QED
    BY <1>1, <2>1 DEF Continues, TablesTyped
<1>6. db'.bodies \subseteq Body
  <2>1. CASE StoreBody
    <3>1. PICK ok : db'.bodies = UpsertKeys(db.bodies, BodyRows(msg), ok)
      BY <1>1, <2>1 DEF StoreBody, Tables
    <3>2. KeysOf(BodyRows(msg)) \subseteq Body
      BY <1>1, <1>2, BodyKeys, StoredNameIsPlanet, MessageFields DEF Body
    <3>3. QED
      BY <1>1, <3>1, <3>2, UpsertKeysGrows DEF TablesTyped
  <2>2. QED
    BY <1>1, <2>1 DEF Continues, TablesTyped
<1>7. db'.rings \subseteq Ring
  <2>1. CASE StoreRings
    <3>0. PICK ok \in BOOLEAN, body \in BodiesNamed(RingParent(msg)) :
             db' = [db EXCEPT !.rings = UpsertKeys(@, RingRows(msg, body), ok)]
      BY <2>1 DEF StoreRings
    <3>1. db'.rings = UpsertKeys(db.rings, RingRows(msg, body), ok) /\ body \in db.bodies
      BY <1>1, <3>0 DEF BodiesNamed, Tables
    <3>2. KeysOf(RingRows(msg, body)) \subseteq Ring
      BY <1>1, <3>1, RingKeys, ScannedRingsAreRings DEF Ring, TablesTyped
    <3>3. QED
      BY <1>1, <3>1, <3>2, UpsertKeysGrows DEF TablesTyped
  <2>2. QED
    BY <1>1, <2>1 DEF Continues, TablesTyped, SkipRings
<1>8. db'.hotspots \subseteq [ring : Ring, commodity : Commodities]
  <2>1. CASE StoreHotspots
    <3> DEFINE Ok(dbOk) ==
                 dbOk /\ \A i \in DOMAIN msg.signals : msg.signals[i] \in Commodities
    <3>0. PICK dbOk \in BOOLEAN, ring \in RingsNamed(msg.bodyName) :
             db' = [db EXCEPT !.hotspots = UpsertKeys(@, HotspotRows(msg, ring), Ok(dbOk))]
      BY <2>1 DEF StoreHotspots
    <3>1. /\ db'.hotspots = UpsertKeys(db.hotspots, HotspotRows(msg, ring), Ok(dbOk))
          /\ ring \in db.rings
      BY <1>1, <3>0 DEF RingsNamed, Tables
    <3>2. CASE \A i \in DOMAIN msg.signals : msg.signals[i] \in Commodities
      <4>1. KeysOf(HotspotRows(msg, ring)) \subseteq [ring : Ring, commodity : Commodities]
        BY <1>1, <3>1, <3>2, HotspotKeys DEF TablesTyped
      <4>2. QED
        BY <1>1, <3>1, <4>1, UpsertKeysGrows DEF TablesTyped
    <3>3. CASE ~ \A i \in DOMAIN msg.signals : msg.signals[i] \in Commodities
      BY <1>1, <3>1, <3>3 DEF UpsertKeys, Accepted, TablesTyped
    <3>4. QED
      BY <3>2, <3>3
  <2>2. QED
    BY <1>1, <2>1 DEF Continues, TablesTyped, SkipHotspots
<1>9. DOMAIN db'.stations \subseteq StationKey
  <2>1. CASE Head(todo) = "station"
    <3>1. PICK ok :
             db'.stations = UpsertAll(db.stations, StationRows(msg), StationCols, ok)
      BY <1>1, <2>1 DEF Continues, StoreStation, Tables
    <3>2. msg.station \in Stations /\ owner \in Owner
      BY <2>1, HeadIsOrdered DEF Continues, Typed, Resolved, Core, Progress
    <3>3. KeysOf(StationRows(msg)) \subseteq StationKey
      BY <3>2, StationKeys DEF StationKey
    <3>4. QED
      BY <1>1, <3>1, <3>3, UpsertAllGrows DEF TablesTyped
  <2>2. QED
    BY <1>1, <2>1 DEF Continues, TablesTyped
<1>10. QED
  BY <1>3, <1>4, <1>5, <1>6, <1>7, <1>8, <1>9 DEF TablesTyped

\* The owner that ResolveOwner finds, of a station of the message.
LEMMA OwnersFit ==
    ASSUME Core, Typed, msg \in Messages, NEW o \in Owners(msg)
    PROVE  /\ msg.station \in Stations
           /\ o \in Owner
           /\ Kind[msg.station] = "orbital" => SystemIn(o) = msg.system
<1>1. msg.station \in Stations /\ msg.system \in Systems
  BY MessageFields DEF Owners, OrNull
<1>2. CASE o \in {r.owner : r \in ViewRows(msg)}
  <2>1. PICK r \in view : r.name = msg.station /\ r.system = msg.system /\ o = r.owner
    BY <1>2 DEF ViewRows
  <2>2. [name |-> r.name, owner |-> r.owner] \in StationKey /\ r.system = SystemIn(r.owner)
    BY DEF Core, ViewStored, Typed, JournalTypeOK
  <2>3. QED
    BY <1>1, <2>1, <2>2 DEF StationKey
<1>3. CASE o \in OwnersByKind(msg)
  <2>1. CASE Kind[msg.station] = "orbital"
    BY <1>1, <1>3, <2>1 DEF OwnersByKind, SystemOwner, Owner, SystemIn
  <2>2. CASE Kind[msg.station] = "planetary"
    BY <1>1, <1>3, <2>2 DEF OwnersByKind, BodyOwner, Owner, BodiesNamed, Typed,
       JournalTypeOK
  <2>3. CASE Kind[msg.station] \notin {"orbital", "planetary"}
    BY <1>3, <2>3 DEF OwnersByKind
  <2>4. QED
    BY <2>1, <2>2, <2>3
<1>4. QED
  BY <1>2, <1>3 DEF Owners

LEMMA TypedStep ==
    ASSUME Core, Typed, [Next]_vars PROVE Typed'
<1>1. Ordered(todo) /\ Ordered(todo')
  BY NextCore DEF Core, Progress
<1>2. /\ msg' \in OrNull(Messages)
      /\ todo' \in Seq(Steps)
      /\ known' \subseteq Factions
      /\ clean' \in BOOLEAN /\ announced' \in BOOLEAN
      /\ dbErrors' \in 0..MaxDbErrors
  <2>1. msg' \in OrNull(Messages)
    BY WhatAStepIs DEF Take, Continues, Stops, Elsewhere, Typed, JournalTypeOK, OrNull
  <2>2. known' \subseteq Factions
    <3>1. CASE MapFactions
      BY <3>1, NamesAreFactions DEF MapFactions, At, Typed, InHand
    <3>2. CASE ~MapFactions
      <4>1. known' = known \/ known' = {}
        BY <3>2 DEF Next, ProcessModel, vars, Take, StoreFactions, MapFactionsRaises,
           StoreSystem, StoreSystemRaises, StoreRawSystem, StoreBody, StoreRings, SkipRings,
           StoreHotspots, SkipHotspots, StorePresences, StoreRawPresences, StorePowers,
           ResolveOwner, SkipStation, StoreStation, Interrupt, RefreshView, Abort
      <4>2. QED
        BY <4>1 DEF Typed, JournalTypeOK
    <3>3. QED
      BY <3>1, <3>2
  <2>3. clean' \in BOOLEAN /\ announced' \in BOOLEAN
    BY DEF Typed, JournalTypeOK, Next, ProcessModel, vars, Take, StoreFactions, MapFactions,
       MapFactionsRaises, StoreSystem, StoreSystemRaises, StoreRawSystem, StoreBody,
       StoreRings, SkipRings, StoreHotspots, SkipHotspots, StorePresences,
       StoreRawPresences, StorePowers, ResolveOwner, SkipStation, StoreStation, Interrupt,
       RefreshView, Abort, Write, WriteRaw, StillClean
  <2>4. dbErrors' \in 0..MaxDbErrors
    <3>1. \/ dbErrors' = dbErrors
          \/ dbErrors < MaxDbErrors /\ dbErrors' = dbErrors + 1
      BY DEF Next, ProcessModel, vars, Take, StoreFactions, MapFactions,
         MapFactionsRaises, StoreSystem, StoreSystemRaises, StoreRawSystem, StoreBody,
         StoreRings, SkipRings, StoreHotspots, SkipHotspots, StorePresences,
         StoreRawPresences, StorePowers, ResolveOwner, SkipStation, StoreStation,
         Interrupt, RefreshView, Write, WriteRaw, Statement
    <3>2. dbErrors \in 0..MaxDbErrors /\ MaxDbErrors \in Nat
      BY JournalAssumption DEF Typed, JournalTypeOK
    <3>3. QED
      BY <3>1, <3>2
  <2>5. QED
    BY <1>1, <2>1, <2>2, <2>3, <2>4 DEF Ordered
<1>3. TablesTyped'
  <2>1. TablesTyped
    BY DEF Typed, JournalTypeOK, TablesTyped
  <2>2. CASE Take \/ Stops \/ Elsewhere
    BY <2>1, <2>2 DEF Take, Stops, Elsewhere, TablesTyped
  <2>3. QED
    BY <2>2, WhatAStepIs, TablesStayTyped
<1>4. InHand'
  BY WhatAStepIs DEF Take, Continues, Stops, Elsewhere, Typed, InHand
<1>5. owner' \in OrNull(Owner)
  <2>1. CASE ResolveOwner
    BY <2>1, OwnersFit DEF ResolveOwner, At, Typed, InHand, OrNull
  <2>2. CASE ~ResolveOwner
    <3>1. owner' = owner \/ owner' = Null
      BY <2>2 DEF Next, ProcessModel, vars, Take, StoreFactions, MapFactions,
         MapFactionsRaises, StoreSystem, StoreSystemRaises, StoreRawSystem, StoreBody,
         StoreRings, SkipRings, StoreHotspots, SkipHotspots, StorePresences,
         StoreRawPresences, StorePowers, SkipStation, StoreStation, Interrupt,
         RefreshView, Abort
    <3>2. QED
      BY <3>1 DEF Typed, JournalTypeOK, OrNull
  <2>3. QED
    BY <2>1, <2>2
<1>6. Resolved'
  <2>1. CASE Take
    BY <2>1, PlanIsOrdered DEF Take, Resolved
  <2>2. CASE Stops
    BY <2>2, NothingIsOrdered DEF Stops, Resolved
  <2>3. CASE Elsewhere
    BY <2>3 DEF Elsewhere, Resolved, Typed
  <2>4. CASE Continues /\ Head(todo) # "owner"
    <3>1. /\ Pending(todo', "station") => Pending(todo, "station")
          /\ Pending(todo, "owner") => Pending(todo', "owner")
      BY <1>1, <2>4, TailIsOrdered DEF Continues
    <3>2. msg' = msg /\ owner' = owner
      BY <2>4 DEF Continues
    <3>3. QED
      BY <3>1, <3>2 DEF Resolved, Typed
  <2>5. CASE Continues /\ Head(todo) = "owner"
    <3>1. msg \in Messages /\ owner' \in Owners(msg) /\ msg' = msg
      BY <2>5 DEF Continues, ResolveOwner, Typed, InHand
    <3>2. QED
      BY <3>1, OwnersFit DEF Resolved
  <2>6. QED
    BY <2>1, <2>2, <2>3, <2>4, <2>5, WhatAStepIs
<1>7. QED
  BY <1>2, <1>3, <1>4, <1>5, <1>6 DEF Typed, JournalTypeOK, TablesTyped

LEMMA InitTyped == Init => Typed
<1> SUFFICES ASSUME Init PROVE Typed
  OBVIOUS
<1>1. 0 \in 0..MaxDbErrors
  BY JournalAssumption
<1>2. <<>> \in Seq(Steps)
  OBVIOUS
<1>3. JournalTypeOK
  BY <1>1, <1>2 DEF Init, JournalTypeOK, OrNull, Empty
<1>4. QED
  BY <1>3, NothingIsOrdered DEF Init, Typed, InHand, Resolved

LEMMA TypedAlways == Spec => []Typed
BY CoreAlways, InitTyped, TypedStep, PTL DEF Spec

(***************************************************************************)
(* Types: every row of every table of db.py names systems, factions,       *)
(* bodies, rings and stations of the game, and a hotspot a commodity.      *)
(***************************************************************************)
THEOREM JournalTypeCorrect == Spec => []JournalTypeOK
BY TypedAlways, PTL DEF Typed

-----------------------------------------------------------------------------
(***************************************************************************)
(* What a message leaves behind.  A call that is no longer pending, of a   *)
(* message none of whose batches was refused, was made and has its effect, *)
(* and no later call of the message undoes it.                             *)
(***************************************************************************)
BodyApplied(m) ==
    m.body = Null /\ m.bodyName # Null => \E b \in db.bodies : b.name = RingParent(m)

Applied ==
    msg # Null /\ clean =>
        /\ Pending(todo, "system") \/ SystemApplied(msg)
        /\ msg.event \in {"FSDJump", "Location"} =>
              Pending(todo, "presences") \/ PresencesApplied(msg)
        /\ msg.event \in {"Scan", "SAASignalsFound"} =>
              /\ Pending(todo, "bodies") \/ BodyApplied(msg)
              /\ Pending(todo, "rings") \/ RingsApplied(msg)
        /\ msg.event = "SAASignalsFound" =>
              Pending(todo, "hotspots") \/ HotspotsApplied(msg)
        /\ msg.event \in {"Docked", "Location"} =>
              Pending(todo, "station") \/ (todo = <<>> /\ StationApplied(msg))

\* A batch of one row has no row to conflict with.
LEMMA OneRow ==
    ASSUME NEW rows, DOMAIN rows = {1}, rows # <<>> PROVE Accepted(rows, TRUE)
BY DEF Accepted, DuplicateKey, Ragged

LEMMA SystemIsApplied ==
    ASSUME Core, Typed, At("system"), StoreSystem PROVE SystemApplied(msg)'
<1> DEFINE rows == SystemRows(msg)
<1>1. msg \in Messages /\ msg' = msg /\ DOMAIN db = Tables
  BY DEF At, Typed, InHand, Core, Shape, StoreSystem
<1>2. db'.systems = UpsertAll(db.systems, rows, SystemCols, TRUE)
  BY <1>1 DEF StoreSystem, Tables
<1>3. /\ DOMAIN rows = {1} /\ rows # <<>> /\ rows[1].key = msg.system
      /\ DOMAIN rows[1].cols = SystemCols
      /\ rows[1].cols["date"] = msg.time
      /\ rows[1].cols["power_state"] = msg.powerState
      /\ rows[1].cols["controlling_faction"] = ControllingFaction(msg)
  BY DEF SystemRows, Row, SystemCols
<1>4. known = Names(msg)
  BY HeadIsOrdered DEF At, Core, Progress, Mapped
<1>5. msg.time # Null /\ (msg.systemFaction \in Names(msg) => msg.systemFaction # Null)
  <2>1. Null \notin Nat /\ Null \notin Factions
    BY JournalAssumption
  <2>2. msg.time \in Nat /\ Names(msg) \subseteq Factions
    BY <1>1, MessageFields, NamesAreFactions
  <2>3. QED
    BY <2>1, <2>2
<1> HIDE DEF rows
<1>6. /\ msg.system \in DOMAIN db'.systems
      /\ \A c \in SystemCols : rows[1].cols[c] # Null =>
            db'.systems[msg.system][c] = rows[1].cols[c]
  <2> DEFINE v(ok) == UpsertAll(db.systems, rows, SystemCols, ok)
  <2>1. PICK ok \in BOOLEAN : Accepted(rows, ok) /\ v(TRUE) = v(ok)
    <3>1. Accepted(rows, TRUE)
      BY <1>3, OneRow
    <3>2. QED
      BY <3>1, Zenon
  <2>2. 1 \in DOMAIN rows
    BY <1>3
  <2>3. /\ rows[1].key \in DOMAIN v(ok)
        /\ \A c \in SystemCols : c \in DOMAIN rows[1].cols /\ rows[1].cols[c] # Null =>
              v(ok)[rows[1].key][c] = rows[1].cols[c]
    BY <2>1, <2>2, UpsertAllWrites
  <2>4. QED
    BY <1>2, <1>3, <2>1, <2>3
<1>7. QED
  BY <1>1, <1>3, <1>4, <1>5, <1>6 DEF SystemApplied, ControllingFaction, SystemCols, Names

LEMMA PresencesAreApplied ==
    ASSUME Core, Typed, At("presences"), StorePresences, clean'
    PROVE  PresencesApplied(msg)'
<1> DEFINE rows == PresenceRows(msg)
<1>1. msg \in Messages /\ msg' = msg /\ DOMAIN db = Tables
  BY DEF At, Typed, InHand, Core, Shape, StorePresences
<1>2. PICK ok \in BOOLEAN :
         /\ db' = [db EXCEPT !.presences = UpsertAll(@, rows, PresenceCols, ok)]
         /\ rows = <<>> \/ Accepted(rows, ok)
  BY DEF StorePresences, Write, StillClean
<1>3. db'.presences = UpsertAll(db.presences, rows, PresenceCols, ok)
  BY <1>1, <1>2 DEF Tables
<1>4. msg.factions \in Seq([name : Factions, state : OrNull(Values)]) /\ msg.time # Null
  BY <1>1, MessageFields, JournalAssumption
<1>5. SUFFICES ASSUME NEW i \in DOMAIN msg.factions
               PROVE  LET key == [system |-> msg.system, faction |-> msg.factions[i].name] IN
                      /\ key \in DOMAIN db'.presences
                      /\ db'.presences[key]["updated_at"] = msg.time
                      /\ Null \notin {msg.factions[1].state, msg.factions[i].state} =>
                            db'.presences[key]["state"] = msg.factions[i].state
  BY <1>1 DEF PresencesApplied
<1> DEFINE key == [system |-> msg.system, faction |-> msg.factions[i].name]
<1>6. 1 \in DOMAIN msg.factions
  BY <1>4
<1>7. /\ DOMAIN rows = DOMAIN msg.factions
      /\ rows[i].key = key /\ rows[i].cols["updated_at"] = msg.time
      /\ "updated_at" \in DOMAIN rows[1].cols
      /\ msg.factions[1].state # Null => "state" \in DOMAIN rows[1].cols
      /\ msg.factions[i].state # Null => rows[i].cols["state"] = msg.factions[i].state
  BY <1>6 DEF PresenceRows, Row, PresenceCols
<1>8. rows # <<>>
  BY <1>6, <1>7
<1> HIDE DEF rows, key
<1>9. /\ key \in DOMAIN db'.presences
      /\ \A c \in PresenceCols : c \in DOMAIN rows[1].cols /\ rows[i].cols[c] # Null =>
            db'.presences[key][c] = rows[i].cols[c]
  BY <1>2, <1>3, <1>7, <1>8, UpsertAllWrites
<1>10. QED
  BY <1>4, <1>7, <1>9 DEF PresenceCols, key

LEMMA BodyIsApplied ==
    ASSUME Core, Typed, At("bodies"), StoreBody, clean' PROVE BodyApplied(msg)'
<1>1. msg \in Messages /\ msg' = msg /\ DOMAIN db = Tables
  BY DEF At, Typed, InHand, Core, Shape, StoreBody
<1>2. PICK ok \in BOOLEAN :
         /\ db' = [db EXCEPT !.bodies = UpsertKeys(@, BodyRows(msg), ok)]
         /\ BodyRows(msg) = <<>> \/ Accepted(BodyRows(msg), ok)
  BY DEF StoreBody, Write, StillClean
<1>3. SUFFICES ASSUME msg.body = Null, msg.bodyName # Null
               PROVE  \E b \in db'.bodies : b.name = RingParent(msg)
  BY <1>1 DEF BodyApplied, RingParent
<1>4. StoredName(msg) = RingParent(msg)
  BY <1>3 DEF StoredName, RingParent
<1>5. StoredName(msg) # Null
  BY <1>1, <1>3, JournalAssumption, MessageFields DEF StoredName, OrNull
<1> DEFINE b == [system |-> msg.system, name |-> StoredName(msg), number |-> msg.bodyNumber]
<1>6. b \in KeysOf(BodyRows(msg))
  BY <1>5, BodyKeys
<1>7. BodyRows(msg) # <<>>
  BY <1>6 DEF KeysOf
<1>8. b \in db'.bodies
  BY <1>1, <1>2, <1>6, <1>7 DEF UpsertKeys, Tables
<1>9. QED
  BY <1>4, <1>8

LEMMA RingsAreApplied ==
    ASSUME Core, Typed, At("rings"), StoreRings \/ SkipRings, clean', BodyApplied(msg)
    PROVE  RingsApplied(msg)'
<1>1. msg \in Messages /\ msg' = msg /\ DOMAIN db = Tables
  BY DEF At, Typed, InHand, Core, Shape, StoreRings, SkipRings
<1>2. SUFFICES ASSUME msg.body = Null, msg.bodyName # Null, NEW name \in ScannedRings(msg)
               PROVE  \E r \in db'.rings : r.name = name /\ r.body.name = RingParent(msg)
  BY <1>1 DEF RingsApplied, RingParent, ScannedRings
<1>3. BodiesNamed(RingParent(msg)) # {}
  BY <1>2 DEF BodyApplied, BodiesNamed
<1>4. PICK ok \in BOOLEAN, body \in BodiesNamed(RingParent(msg)) :
         /\ db' = [db EXCEPT !.rings = UpsertKeys(@, RingRows(msg, body), ok)]
         /\ RingRows(msg, body) = <<>> \/ Accepted(RingRows(msg, body), ok)
  BY <1>3 DEF StoreRings, SkipRings, Write, StillClean
<1> DEFINE r == [body |-> body, name |-> name]
<1>5. r \in KeysOf(RingRows(msg, body))
  BY <1>2, RingKeys
<1>6. RingRows(msg, body) # <<>>
  BY <1>5 DEF KeysOf
<1>7. r \in db'.rings
  BY <1>1, <1>4, <1>5, <1>6 DEF UpsertKeys, Tables
<1>8. QED
  BY <1>4, <1>7 DEF BodiesNamed

LEMMA HotspotsAreApplied ==
    ASSUME Core, Typed, At("hotspots"), StoreHotspots \/ SkipHotspots, clean',
           RingsApplied(msg)
    PROVE  HotspotsApplied(msg)'
<1>1. msg \in Messages /\ msg' = msg /\ DOMAIN db = Tables
  BY DEF At, Typed, InHand, Core, Shape, StoreHotspots, SkipHotspots
<1>2. SUFFICES ASSUME msg.body = Null, msg.bodyName \in Rings,
                      NEW i \in DOMAIN msg.signals
               PROVE  \E h \in db'.hotspots :
                         h.ring.name = msg.bodyName /\ h.commodity = msg.signals[i]
  BY <1>1 DEF HotspotsApplied
<1>3. RingsNamed(msg.bodyName) # {}
  <2>1. msg.bodyName \in ScannedRings(msg) /\ msg.bodyName # Null
    BY <1>2, JournalAssumption DEF ScannedRings
  <2>2. QED
    BY <1>2, <2>1 DEF RingsApplied, RingsNamed
<1> DEFINE Ok(dbOk) == dbOk /\ \A j \in DOMAIN msg.signals : msg.signals[j] \in Commodities
<1>4. PICK dbOk \in BOOLEAN, ring \in RingsNamed(msg.bodyName) :
         /\ db' = [db EXCEPT !.hotspots = UpsertKeys(@, HotspotRows(msg, ring), Ok(dbOk))]
         /\ HotspotRows(msg, ring) = <<>> \/ Accepted(HotspotRows(msg, ring), Ok(dbOk))
  BY <1>3 DEF StoreHotspots, SkipHotspots, StillClean
<1> DEFINE h == [ring |-> ring, commodity |-> msg.signals[i]]
<1> HIDE DEF Ok
<1>5. h \in KeysOf(HotspotRows(msg, ring))
  BY <1>2, HotspotKeys
<1>6. HotspotRows(msg, ring) # <<>>
  BY <1>5 DEF KeysOf
<1>7. h \in db'.hotspots
  BY <1>1, <1>4, <1>5, <1>6 DEF UpsertKeys, Tables
<1>8. QED
  BY <1>4, <1>7 DEF RingsNamed

LEMMA StationIsApplied ==
    ASSUME Core, Typed, At("station"), StoreStation, clean' PROVE StationApplied(msg)'
<1> DEFINE rows == StationRows(msg)
           key == [name |-> msg.station, owner |-> owner]
<1>1. msg \in Messages /\ msg' = msg /\ DOMAIN db = Tables
  BY DEF At, Typed, InHand, Core, Shape, StoreStation
<1>2. PICK ok \in BOOLEAN :
         /\ db' = [db EXCEPT !.stations = UpsertAll(@, rows, StationCols, ok)]
         /\ rows = <<>> \/ Accepted(rows, ok)
  BY DEF StoreStation, Write, StillClean
<1>3. db'.stations = UpsertAll(db.stations, rows, StationCols, ok)
      /\ db'.factions = db.factions
  BY <1>1, <1>2 DEF Tables
<1>4. Kind[msg.station] = "orbital" => SystemIn(owner) = msg.system
  BY HeadIsOrdered DEF At, Core, Progress, Typed, Resolved
<1>5. SUFFICES ASSUME msg.stationFaction \in OrNull(db.factions)
               PROVE  /\ key \in DOMAIN db'.stations
                      /\ db'.stations[key]["eddn_updated_at"] = msg.time
  BY <1>1, <1>3, <1>4 DEF StationApplied
<1>6. /\ DOMAIN rows = {1} /\ rows # <<>> /\ rows[1].key = key
      /\ DOMAIN rows[1].cols = StationCols /\ rows[1].cols["eddn_updated_at"] = msg.time
  BY <1>5 DEF StationRows, Row, StationCols
<1>7. msg.time # Null
  BY <1>1, MessageFields, JournalAssumption
<1> HIDE DEF rows, key
<1>8. QED
  BY <1>2, <1>3, <1>6, <1>7, UpsertAllWrites DEF StationCols

\* An orbital station is never left out for want of an owner.
LEMMA OrbitalStationsAreNotSkipped ==
    ASSUME SkipStation PROVE StationApplied(msg)
<1> SUFFICES ASSUME msg.station # Null, Kind[msg.station] = "orbital" PROVE FALSE
  BY DEF StationApplied
<1>1. Owners(msg) = {}
  BY DEF SkipStation
<1>2. CASE Cardinality(ViewRows(msg)) = 1
  <2>1. ViewRows(msg) = {}
    BY <1>1, <1>2 DEF Owners
  <2>2. QED
    BY <1>2, <2>1, FS_EmptySet
<1>3. CASE Cardinality(ViewRows(msg)) # 1
  BY <1>1, <1>3 DEF Owners, OwnersByKind
<1>4. QED
  BY <1>2, <1>3

LEMMA AppliedGoesOn ==
    ASSUME Core, Typed, Applied, Continues, Grows, clean', msg # Null PROVE Applied'
<1>1. /\ Ordered(todo) /\ todo # <<>> /\ todo' = Tail(todo) /\ msg' = msg /\ clean
      /\ At(Head(todo))
  BY DEF Core, Progress, Continues, At
<1>2. \A step : Pending(todo, step) /\ Head(todo) # step => Pending(todo', step)
  BY <1>1, TailIsOrdered
<1>3. Pending(todo, "system")' \/ SystemApplied(msg)'
  <2>1. CASE Head(todo) = "system"
    BY <1>1, <2>1, SystemIsApplied DEF Continues
  <2>2. CASE Head(todo) # "system"
    <3>1. SystemApplied(msg) => SystemApplied(msg)'
      BY <1>1, <2>2 DEF Continues, SystemApplied, Names
    <3>2. QED
      BY <1>1, <1>2, <2>2, <3>1 DEF Applied
  <2>3. QED
    BY <2>1, <2>2
<1>4. ASSUME msg.event \in {"FSDJump", "Location"}
      PROVE  Pending(todo, "presences")' \/ PresencesApplied(msg)'
  <2>1. CASE Head(todo) = "presences"
    BY <1>1, <2>1, PresencesAreApplied DEF Continues
  <2>2. CASE Head(todo) # "presences"
    <3>1. PresencesApplied(msg) => PresencesApplied(msg)'
      BY <1>1, <2>2 DEF Continues, PresencesApplied
    <3>2. QED
      BY <1>1, <1>2, <1>4, <2>2, <3>1 DEF Applied
  <2>3. QED
    BY <2>1, <2>2
<1>5. ASSUME msg.event \in {"Scan", "SAASignalsFound"}
      PROVE  /\ Pending(todo, "bodies")' \/ BodyApplied(msg)'
             /\ Pending(todo, "rings")' \/ RingsApplied(msg)'
  <2>1. BodyApplied(msg) => BodyApplied(msg)'
    <3>1. msg' = msg /\ RingParent(msg') = RingParent(msg) /\ db.bodies \subseteq db'.bodies
      BY <1>1 DEF Grows
    <3>2. QED
      BY <3>1 DEF BodyApplied, RingParent
  <2>2. RingsApplied(msg) => RingsApplied(msg)'
    <3>1. /\ msg' = msg /\ RingParent(msg') = RingParent(msg)
          /\ ScannedRings(msg') = ScannedRings(msg) /\ db.rings \subseteq db'.rings
      BY <1>1 DEF Grows
    <3>2. QED
      BY <3>1 DEF RingsApplied, RingParent, ScannedRings
  <2>3. Pending(todo, "bodies")' \/ BodyApplied(msg)'
    <3>1. CASE Head(todo) = "bodies"
      BY <1>1, <3>1, BodyIsApplied DEF Continues
    <3>2. CASE Head(todo) # "bodies"
      BY <1>1, <1>2, <1>5, <2>1, <3>2 DEF Applied
    <3>3. QED
      BY <3>1, <3>2
  <2>4. Pending(todo, "rings")' \/ RingsApplied(msg)'
    <3>1. CASE Head(todo) = "rings"
      <4>1. BodyApplied(msg)
        BY <1>1, <1>5, <3>1, HeadIsOrdered DEF Applied
      <4>2. QED
        BY <1>1, <3>1, <4>1, RingsAreApplied DEF Continues
    <3>2. CASE Head(todo) # "rings"
      BY <1>1, <1>2, <1>5, <2>2, <3>2 DEF Applied
    <3>3. QED
      BY <3>1, <3>2
  <2>5. QED
    BY <2>3, <2>4
<1>6. ASSUME msg.event = "SAASignalsFound"
      PROVE  Pending(todo, "hotspots")' \/ HotspotsApplied(msg)'
  <2>1. CASE Head(todo) = "hotspots"
    <3>1. RingsApplied(msg)
      BY <1>1, <1>6, <2>1, HeadIsOrdered DEF Applied
    <3>2. QED
      BY <1>1, <2>1, <3>1, HotspotsAreApplied DEF Continues
  <2>2. CASE Head(todo) # "hotspots"
    <3>1. HotspotsApplied(msg) => HotspotsApplied(msg)'
      BY <1>1 DEF HotspotsApplied, Grows
    <3>2. QED
      BY <1>1, <1>2, <1>6, <2>2, <3>1 DEF Applied
  <2>3. QED
    BY <2>1, <2>2
<1>7. ASSUME msg.event \in {"Docked", "Location"}
      PROVE  Pending(todo, "station")' \/ (todo' = <<>> /\ StationApplied(msg)')
  <2>1. CASE Head(todo) = "station"
    <3>1. Tail(todo) = <<>>
      BY <1>1, <2>1, HeadIsOrdered
    <3>2. QED
      BY <1>1, <2>1, <3>1, StationIsApplied DEF Continues
  <2>2. CASE Head(todo) # "station"
    BY <1>1, <1>2, <1>7, <2>2 DEF Applied
  <2>3. QED
    BY <2>1, <2>2
<1>8. QED
  BY <1>1, <1>3, <1>4, <1>5, <1>6, <1>7 DEF Applied

\* SkipStation ends the plan of a Docked or Location message.
LEMMA AppliedStops ==
    ASSUME Core, Applied, Stops, clean', msg # Null PROVE Applied'
<1>1. /\ Ordered(todo) /\ todo # <<>> /\ todo' = <<>> /\ msg' = msg /\ db' = db /\ clean
      /\ SkipStation /\ Head(todo) = "owner"
  BY DEF Core, Progress, Stops
<1>2. \A step \in {"system", "presences", "bodies", "rings", "hotspots"} :
         ~Pending(todo, step)
  <2>1. \A step \in {"system", "presences", "bodies", "rings", "hotspots"} :
           Rank[step] < Rank["owner"] /\ Rank[step] \in 1..12 /\ Rank["owner"] \in 1..12
    BY Ranks
  <2>2. \A step : Pending(todo, step) => Rank["owner"] <= Rank[step]
    BY <1>1, HeadIsFirst
  <2>3. QED
    BY <2>1, <2>2
<1>3. StationApplied(msg)
  BY <1>1, OrbitalStationsAreNotSkipped
<1>4. UNCHANGED <<msg, db>>
  BY <1>1
<1>5. SystemApplied(msg)' = SystemApplied(msg)
  BY <1>4 DEF SystemApplied, Names
<1>6. PresencesApplied(msg)' = PresencesApplied(msg)
  BY <1>4 DEF PresencesApplied
<1>7. BodyApplied(msg)' = BodyApplied(msg) /\ RingsApplied(msg)' = RingsApplied(msg)
      /\ HotspotsApplied(msg)' = HotspotsApplied(msg)
  BY <1>4 DEF BodyApplied, RingParent, RingsApplied, ScannedRings, HotspotsApplied
<1>8. StationApplied(msg)' = StationApplied(msg)
  BY <1>4 DEF StationApplied
<1>9. QED
  BY <1>1, <1>2, <1>3, <1>5, <1>6, <1>7, <1>8 DEF Applied

LEMMA AppliedRests ==
    ASSUME Applied, Elsewhere PROVE Applied'
BY DEF Applied, Elsewhere, SystemApplied, Names, PresencesApplied, BodyApplied, RingParent,
   RingsApplied, ScannedRings, HotspotsApplied, StationApplied

LEMMA AppliedTaken ==
    ASSUME Take PROVE Applied'
BY PlanIsOrdered DEF Take, Applied

LEMMA AppliedStep ==
    ASSUME Core, Typed, Applied, [Next]_vars PROVE Applied'
<1>1. Grows
  BY StepsAreGrounded
<1>2. CASE Take
  BY <1>2, AppliedTaken
<1>3. CASE Continues
  <2>1. msg' = msg
    BY <1>3 DEF Continues
  <2>2. CASE clean' /\ msg # Null
    BY <1>1, <1>3, <2>2, AppliedGoesOn
  <2>3. CASE ~(clean' /\ msg # Null)
    BY <2>1, <2>3 DEF Applied
  <2>4. QED
    BY <2>2, <2>3
<1>4. CASE Stops
  <2>1. msg' = msg
    BY <1>4 DEF Stops
  <2>2. CASE clean' /\ msg # Null
    BY <1>4, <2>2, AppliedStops
  <2>3. CASE ~(clean' /\ msg # Null)
    BY <2>1, <2>3 DEF Applied
  <2>4. QED
    BY <2>2, <2>3
<1>5. CASE Elsewhere
  BY <1>5, AppliedRests
<1>6. QED
  BY <1>2, <1>3, <1>4, <1>5, WhatAStepIs

(***************************************************************************)
(* process_model keeps its word: a message processed to its end with no    *)
(* batch refused is in the database with its system, the presences of its  *)
(* factions, its rings and hotspots, and its orbital station.              *)
(***************************************************************************)
THEOREM CleanMessageAppliedCorrect == Spec => []CleanMessageApplied
<1>1. Init => Applied
  BY DEF Init, Applied
<1>2. Applied => CleanMessageApplied
  BY NothingIsOrdered DEF Applied, CleanMessageApplied
<1>3. QED
  BY <1>1, <1>2, AppliedStep, CoreAlways, TypedAlways, PTL DEF Spec

-----------------------------------------------------------------------------
(***************************************************************************)
(* Where stations stand.  A body is one that a message told of, an orbital *)
(* station belongs to a system, and a planetary one to a body of the name  *)
(* that some message of the station gives.                                 *)
(***************************************************************************)
PlacedAt(name, o) ==
    \/ Kind[name] = "orbital" /\ \E s \in Systems : o = SystemOwner(s)
    \/ /\ Kind[name] = "planetary"
       /\ \E m \in Messages, b \in Body :
             m.station = name /\ m.body = b.name /\ o = BodyOwner(b)

BodiesPlaced ==
    \A b \in db.bodies : \E m \in Messages : b.name = StoredName(m) /\ b.system = m.system

StationsPlaced ==
    \A k \in DOMAIN db.stations : OwnerStored(k.owner) /\ PlacedAt(k.name, k.owner)

OwnerPlaced ==
    Pending(todo, "station") => Pending(todo, "owner") \/ PlacedAt(msg.station, owner)

Placed == BodiesPlaced /\ StationsPlaced /\ OwnerPlaced

LEMMA OwnersArePlaced ==
    ASSUME Core, Typed, StationsPlaced, msg \in Messages, NEW o \in Owners(msg)
    PROVE  PlacedAt(msg.station, o)
<1>1. CASE o \in {r.owner : r \in ViewRows(msg)}
  <2>1. PICK r \in view : r.name = msg.station /\ o = r.owner
    BY <1>1 DEF ViewRows
  <2>2. [name |-> r.name, owner |-> r.owner] \in DOMAIN db.stations
    BY DEF Core, ViewStored
  <2>3. QED
    BY <2>1, <2>2 DEF StationsPlaced
<1>2. CASE o \in OwnersByKind(msg)
  <2>1. CASE Kind[msg.station] = "orbital"
    BY <1>2, <2>1, MessageFields DEF OwnersByKind, PlacedAt
  <2>2. CASE Kind[msg.station] = "planetary"
    <3>1. PICK b \in db.bodies : b.name = msg.body /\ o = BodyOwner(b)
      BY <1>2, <2>2 DEF OwnersByKind, BodiesNamed
    <3>2. b \in Body
      BY DEF Typed, JournalTypeOK
    <3>3. QED
      BY <2>2, <3>1, <3>2 DEF PlacedAt
  <2>3. CASE Kind[msg.station] \notin {"orbital", "planetary"}
    BY <1>2, <2>3 DEF OwnersByKind
  <2>4. QED
    BY <2>1, <2>2, <2>3
<1>3. QED
  BY <1>1, <1>2 DEF Owners

LEMMA PlacedStep ==
    ASSUME Core, Typed, Placed, [Next]_vars PROVE Placed'
<1>1. Grows /\ Ordered(todo) /\ DOMAIN db = Tables
  BY StepsAreGrounded DEF Core, Progress, Shape
<1>2. BodiesPlaced'
  <2>1. CASE db'.bodies = db.bodies
    BY <2>1 DEF Placed, BodiesPlaced
  <2>2. CASE Continues /\ StoreBody
    <3>1. msg \in Messages
      BY <2>2 DEF Continues, Typed, InHand
    <3>2. PICK ok : db'.bodies = UpsertKeys(db.bodies, BodyRows(msg), ok)
      BY <1>1, <2>2 DEF StoreBody, Tables
    <3>3. \A b \in db'.bodies \ db.bodies : b.name = StoredName(msg) /\ b.system = msg.system
      BY <3>2, UpsertKeysGrows, BodyKeys
    <3>4. QED
      BY <3>1, <3>3 DEF Placed, BodiesPlaced
  <2>3. QED
    BY <2>1, <2>2, WhatAStepIs DEF Take, Continues, Stops, Elsewhere
<1>3. StationsPlaced'
  <2>1. \A o : OwnerStored(o) => OwnerStored(o)'
    BY <1>1, OwnersStay
  <2>2. CASE db'.stations = db.stations
    BY <2>1, <2>2 DEF Placed, StationsPlaced
  <2>3. CASE Continues /\ Head(todo) = "station"
    <3>1. PICK ok :
             db'.stations = UpsertAll(db.stations, StationRows(msg), StationCols, ok)
      BY <1>1, <2>3 DEF Continues, StoreStation, Tables
    <3>2. OwnerStored(owner) /\ PlacedAt(msg.station, owner)
      BY <2>3, HeadIsOrdered DEF Continues, Placed, OwnerPlaced, Core, Progress
    <3>3. \A k \in DOMAIN db'.stations \ DOMAIN db.stations :
             k = [name |-> msg.station, owner |-> owner]
      BY <3>1, UpsertAllGrows, StationKeys
    <3>4. QED
      BY <2>1, <3>2, <3>3 DEF Placed, StationsPlaced
  <2>4. QED
    BY <2>2, <2>3, WhatAStepIs DEF Take, Continues, Stops, Elsewhere
<1>4. OwnerPlaced'
  <2>1. CASE Take
    BY <2>1, PlanIsOrdered DEF Take, OwnerPlaced
  <2>2. CASE Stops
    BY <2>2, NothingIsOrdered DEF Stops, OwnerPlaced
  <2>3. CASE Elsewhere
    BY <2>3 DEF Elsewhere, OwnerPlaced, Placed
  <2>4. CASE Continues /\ Head(todo) # "owner"
    <3>1. /\ Pending(todo', "station") => Pending(todo, "station")
          /\ Pending(todo, "owner") => Pending(todo', "owner")
      BY <1>1, <2>4, TailIsOrdered DEF Continues
    <3>2. msg' = msg /\ owner' = owner
      BY <2>4 DEF Continues
    <3>3. QED
      BY <3>1, <3>2 DEF OwnerPlaced, Placed
  <2>5. CASE Continues /\ Head(todo) = "owner"
    <3>1. msg \in Messages /\ owner' \in Owners(msg) /\ msg' = msg
      BY <2>5 DEF Continues, ResolveOwner, Typed, InHand
    <3>2. QED
      BY <3>1, OwnersArePlaced DEF OwnerPlaced, Placed
  <2>6. QED
    BY <2>1, <2>2, <2>3, <2>4, <2>5, WhatAStepIs
<1>5. QED
  BY <1>2, <1>3, <1>4 DEF Placed

LEMMA OnePlanetPerStation ==
    ASSUME NamesAreConsistent, Core, Typed, Placed, OneBodyPerName,
           NEW k \in DOMAIN db.stations, NEW l \in DOMAIN db.stations,
           k.name = l.name, SystemIn(k.owner) = SystemIn(l.owner)
    PROVE  k.owner = l.owner
<1>1. PlacedAt(k.name, k.owner) /\ PlacedAt(l.name, l.owner)
      /\ OwnerStored(k.owner) /\ OwnerStored(l.owner)
  BY DEF Placed, StationsPlaced
<1>2. CASE Kind[k.name] = "orbital"
  <2>1. PICK s \in Systems, t \in Systems :
           k.owner = SystemOwner(s) /\ l.owner = SystemOwner(t)
    BY <1>1, <1>2 DEF PlacedAt
  <2>2. s = t
    BY <2>1 DEF SystemIn, SystemOwner
  <2>3. QED
    BY <2>1, <2>2
<1>3. CASE Kind[k.name] = "planetary"
  <2>1. PICK m \in Messages, b \in Body :
           m.station = k.name /\ m.body = b.name /\ k.owner = BodyOwner(b)
    BY <1>1, <1>3 DEF PlacedAt
  <2>2. PICK n \in Messages, c \in Body :
           n.station = k.name /\ n.body = c.name /\ l.owner = BodyOwner(c)
    BY <1>1, <1>3 DEF PlacedAt
  <2>3. b \in db.bodies /\ c \in db.bodies /\ b.system = c.system
    BY <1>1, <2>1, <2>2 DEF OwnerStored, BodyOwner, SystemIn
  <2>4. PICK m1 \in Messages, n1 \in Messages :
           /\ b.name = StoredName(m1) /\ b.system = m1.system
           /\ c.name = StoredName(n1) /\ c.system = n1.system
    BY <2>3 DEF Placed, BodiesPlaced
  <2>5. m.body # Null /\ n.body # Null /\ k.name \in Stations
    BY <2>1, <2>2, JournalAssumption DEF Body, Typed, JournalTypeOK, StationKey
  <2>6. m1.system = m.system /\ n1.system = n.system
    BY <2>1, <2>2, <2>4, <2>5 DEF NamesAreConsistent
  <2>7. n.system = m.system /\ m.station # Null
    BY <2>1, <2>3, <2>4, <2>5, <2>6, JournalAssumption
  <2>8. n.body = m.body
    BY <1>3, <2>1, <2>2, <2>5, <2>7 DEF NamesAreConsistent
  <2>9. b = c
    BY <2>1, <2>2, <2>3, <2>8 DEF OneBodyPerName
  <2>10. QED
    BY <2>1, <2>2, <2>9
<1>4. QED
  BY <1>1, <1>2, <1>3 DEF PlacedAt

(***************************************************************************)
(* As long as no two stored bodies have one name, a station is stored once *)
(* in a system: whichever of its events come, in whatever order, with      *)
(* whatever age of the view, provided the names of the game are what they  *)
(* promise to be.                                                          *)
(***************************************************************************)
THEOREM OneOwnerUnlessTwinsCorrect ==
    ASSUME NamesAreConsistent PROVE Spec => []OneOwnerUnlessTwins
<1>1. Init => Placed
  BY NothingIsOrdered DEF Init, Placed, BodiesPlaced, StationsPlaced, OwnerPlaced, Empty
<1>2. Core /\ Typed /\ Placed => OneOwnerUnlessTwins
  <2> SUFFICES ASSUME Core, Typed, Placed, OneBodyPerName,
                      NEW k \in DOMAIN db.stations, NEW l \in DOMAIN db.stations,
                      k.name = l.name, SystemIn(k.owner) = SystemIn(l.owner)
               PROVE  k = l
    BY DEF OneOwnerUnlessTwins, OneStationPerName
  <2>1. k.owner = l.owner
    BY OnePlanetPerStation
  <2>2. IsStationKey(k) /\ IsStationKey(l)
    BY DEF Core, Shape
  <2>3. QED
    BY <2>1, <2>2 DEF IsStationKey
<1>3. Core /\ Typed /\ Placed /\ [Next]_vars => Placed'
  BY PlacedStep
<1>4. QED
  BY <1>1, <1>2, <1>3, CoreAlways, TypedAlways, PTL DEF Spec

=============================================================================
