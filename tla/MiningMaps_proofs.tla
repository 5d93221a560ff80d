------------------------- MODULE MiningMaps_proofs --------------------------
(***************************************************************************)
(* What users of the mining maps are told, for any systems, rings, names,  *)
(* lists of commodities, crashes and refusals.                             *)
(*                                                                         *)
(* A command commits twice.  The invariant says what holds in between: the *)
(* map of a command under way has commodities, or is about to get some of  *)
(* a list that has been parsed.                                            *)
(***************************************************************************)
EXTENDS MiningMaps, FiniteSetTheorems, TLAPS

\* Ids are given out one after the other.
Numbered(S) == \E n \in 0..MaxMaps : S = 1..n

TableFine ==
    /\ Numbered(DOMAIN maps)
    /\ \A i \in DOMAIN maps : maps[i] \in Map
    /\ \A i, j \in DOMAIN maps : maps[i].name = maps[j].name => i = j

GoodsFine ==
    /\ DOMAIN goods \subseteq GoodsKey
    /\ \A k \in DOMAIN goods : k.map \in DOMAIN maps

JobFine ==
    /\ job \in OrNull(Job)
    /\ job # Null =>
          /\ job.id \in DOMAIN maps
          /\ GoodsOf(job.id) # {} \/ (job.list # Null /\ Parses(job.list))

ToldFine ==
    /\ DOMAIN told \subseteq DOMAIN maps
    /\ \A i \in DOMAIN told : ~Working(i) => told[i] = View(goods, i) /\ GoodsOf(i) # {}

BareFine ==
    /\ broken \subseteq DOMAIN maps
    /\ BareOnlyAfterRefusal
    /\ faults \in 0..MaxFaults

MapsInv == TableFine /\ GoodsFine /\ JobFine /\ ToldFine /\ BareFine

-----------------------------------------------------------------------------
\* What both commands do first: one row for one map, and a job to finish.
Commits(i, row, list) ==
    /\ job = Null
    /\ i \in Ids /\ row \in Map /\ ~Taken(row.name, i)
    /\ Numbered(DOMAIN maps \cup {i})
    /\ list \in OrNull(Lists)
    /\ GoodsOf(i) # {} \/ (list # Null /\ Parses(list))
    /\ maps' = WithMap(i, row)
    /\ job' = [id |-> i, list |-> list]
    /\ UNCHANGED <<goods, told, broken, faults>>

LEMMA CommitKeepsInv ==
    ASSUME MapsInv, NEW i, NEW row, NEW list, Commits(i, row, list)
    PROVE  MapsInv'
<1>1. /\ DOMAIN maps' = DOMAIN maps \cup {i}
      /\ maps'[i] = row
      /\ \A j \in DOMAIN maps : j # i => maps'[j] = maps[j]
      /\ UNCHANGED <<goods, told, broken, faults>>
  BY DEF Commits, WithMap
<1>2. job' \in Job /\ job' # Null /\ job'.id = i /\ job'.list = list
  <2>1. job' \in Job
    BY SMT DEF Commits, Job
  <2> QED
    BY <2>1, MapsAssumption DEF Commits
<1>3. \A j : GoodsOf(j)' = GoodsOf(j)
  BY <1>1 DEF GoodsOf
<1>4. TableFine'
  <2>1. \A j \in DOMAIN maps' : maps'[j] \in Map
    BY <1>1 DEF MapsInv, TableFine, Commits
  <2>2. \A j \in DOMAIN maps : j # i => maps[j].name # row.name
    BY DEF Commits, Taken
  <2>3. \A j, k \in DOMAIN maps' : maps'[j].name = maps'[k].name => j = k
    BY <1>1, <2>2 DEF MapsInv, TableFine
  <2> QED
    BY <1>1, <2>1, <2>3 DEF Commits, TableFine
<1>5. GoodsFine'
  BY <1>1 DEF MapsInv, GoodsFine
<1>6. JobFine'
  <2>1. Parses(list)' <=> Parses(list)
    BY DEF Parses
  <2> QED
    BY <1>1, <1>2, <1>3, <2>1 DEF Commits, JobFine, OrNull, Parses
<1>7. ToldFine'
  <2> SUFFICES ASSUME NEW j \in DOMAIN told, ~Working(j)'
               PROVE  told[j] = View(goods, j)' /\ GoodsOf(j)' # {}
    BY <1>1 DEF MapsInv, ToldFine
  <2>1. j # i /\ ~Working(j)
    BY <1>2 DEF Working, Commits
  <2>2. maps'[j] = maps[j] /\ goods' = goods
    BY <1>1, <2>1 DEF MapsInv, ToldFine
  <2>3. View(goods, j)' = View(goods, j)
    BY <2>2 DEF View
  <2> QED
    BY <1>3, <2>1, <2>3 DEF MapsInv, ToldFine
<1>8. BareFine'
  <2> SUFFICES ASSUME NEW j \in DOMAIN maps', GoodsOf(j) = {}
               PROVE  Working(j)' \/ j \in broken
    BY <1>1, <1>3 DEF MapsInv, BareFine, BareOnlyAfterRefusal
  <2>1. CASE j = i
    BY <1>2, <2>1 DEF Working
  <2>2. CASE j # i
    BY <1>1, <2>2 DEF MapsInv, BareFine, BareOnlyAfterRefusal, Working, Commits
  <2> QED
    BY <2>1, <2>2
<1> QED
  BY <1>4, <1>5, <1>6, <1>7, <1>8 DEF MapsInv

-----------------------------------------------------------------------------
(***************************************************************************)
(* submit_mining_map: the row of the same map, or the next id.             *)
(***************************************************************************)
LEMMA RowForIs ==
    ASSUME MapsInv, NEW system, NEW ring, NEW name,
           RowFor(system, ring, name) \in Ids
    PROVE  LET i == RowFor(system, ring, name)
           IN  /\ i \in DOMAIN maps =>
                     maps[i].system = system /\ maps[i].ring = ring /\ maps[i].name = name
               /\ Numbered(DOMAIN maps \cup {i})
<1> DEFINE same == {i \in DOMAIN maps : /\ maps[i].system = system
                                        /\ maps[i].ring = ring
                                        /\ maps[i].name = name}
<1>1. CASE same # {}
  <2>1. RowFor(system, ring, name) \in same
    BY <1>1 DEF RowFor
  <2>2. DOMAIN maps \cup {RowFor(system, ring, name)} = DOMAIN maps
    BY <2>1
  <2> QED
    BY <2>1, <2>2 DEF MapsInv, TableFine
<1>2. CASE same = {}
  <2>1. PICK n \in 0..MaxMaps : DOMAIN maps = 1..n
    BY DEF MapsInv, TableFine, Numbered
  <2>2. n \in Nat /\ MaxMaps \in Nat
    BY <2>1, MapsAssumption, SMT
  <2>3. Cardinality(DOMAIN maps) = n
    BY <2>1, <2>2, FS_Interval, SMT
  <2>4. RowFor(system, ring, name) = n + 1
    BY <1>2, <2>3 DEF RowFor
  <2>5. n + 1 \in 0..MaxMaps /\ 1..(n + 1) = (1..n) \cup {n + 1} /\ n + 1 \notin 1..n
    BY <2>2, <2>4, SMT DEF Ids
  <2> QED
    BY <2>1, <2>4, <2>5 DEF Numbered
<1> QED
  BY <1>1, <1>2

SubmitRow(i, system, ring, name, rocks) ==
    [system |-> system, ring |-> ring, name |-> name,
     rocks |-> Coalesce(rocks, IF i \in DOMAIN maps THEN maps[i].rocks ELSE Null)]

LEMMA SubmitCommits ==
    ASSUME MapsInv, NEW system \in Systems, NEW ring \in Rings, NEW name \in Names,
           NEW list \in Lists, NEW rocks \in OrNull(Counts),
           Submit(system, ring, name, list, rocks)
    PROVE  LET i == RowFor(system, ring, name)
           IN  /\ Commits(i, SubmitRow(i, system, ring, name, rocks), list)
               /\ i \in DOMAIN maps => maps[i].system = system /\ maps[i].ring = ring
<1> DEFINE i == RowFor(system, ring, name)
           row == SubmitRow(i, system, ring, name, rocks)
<1>1. /\ job = Null /\ Parses(list) /\ i \in Ids /\ ~Taken(name, i)
      /\ maps' = WithMap(i, row)
      /\ job' = [id |-> i, list |-> list]
      /\ UNCHANGED <<goods, told, broken, faults>>
  BY DEF Submit, Submittable, SubmitRow
<1>2. /\ i \in DOMAIN maps => maps[i].system = system /\ maps[i].ring = ring
      /\ Numbered(DOMAIN maps \cup {i})
  BY <1>1, RowForIs
<1> HIDE DEF i
<1>3. row \in Map /\ row.name = name
  <2>1. i \in DOMAIN maps => maps[i].rocks \in OrNull(Counts)
    BY SMT DEF MapsInv, TableFine, Map
  <2>2. Coalesce(rocks, IF i \in DOMAIN maps THEN maps[i].rocks ELSE Null) \in OrNull(Counts)
    BY <2>1 DEF Coalesce, OrNull
  <2> QED
    BY <2>2, SMT DEF Map, SubmitRow
<1>4. list \in OrNull(Lists) /\ list # Null
  BY MapsAssumption DEF OrNull
<1>5. Commits(i, row, list)
  BY <1>1, <1>2, <1>3, <1>4 DEF Commits
<1> QED
  BY <1>2, <1>5 DEF i

-----------------------------------------------------------------------------
(***************************************************************************)
(* edit_mining_map: a ring of the system that the map will be in.          *)
(***************************************************************************)
LEMMA NewRingIs ==
    ASSUME NEW old \in Map, NEW system \in OrNull(Systems), NEW ringName \in OrNull(RingNames),
           NewRing(system, ringName, old) # Null, RingSupplied(system, ringName, old)
    PROVE  /\ NewRing(system, ringName, old) \in Rings
           /\ Inside(old) =>
                SystemOf[NewRing(system, ringName, old)] = Coalesce(system, old.system)
<1> DEFINE target == IF system = Null THEN old.system ELSE system
           rings == get_ring_by_system_and_name(target, ringName)
<1>1. CASE ringName = Null
  <2>1. NewRing(system, ringName, old) = old.ring /\ system = Null
    BY <1>1 DEF NewRing, RingSupplied
  <2>2. old.ring \in Rings
    BY SMT DEF Map
  <2> QED
    BY <2>1, <2>2 DEF Inside, Coalesce
<1>2. CASE ringName # Null
  <2>1. Cardinality(rings) = 1 /\ NewRing(system, ringName, old) = CHOOSE r \in rings : TRUE
    BY <1>2 DEF NewRing
  <2>2. rings # {}
    BY <2>1, FS_EmptySet, SMT
  <2>3. NewRing(system, ringName, old) \in rings
    BY <2>1, <2>2
  <2> QED
    BY <2>3 DEF get_ring_by_system_and_name, Coalesce
<1> QED
  BY <1>1, <1>2

LEMMA EditCommits ==
    ASSUME MapsInv, NEW i \in DOMAIN maps, NEW system \in OrNull(Systems),
           NEW ringName \in OrNull(RingNames), NEW newName \in OrNull(Names),
           NEW list \in OrNull(Lists), NEW rocks \in OrNull(Counts),
           Edit(i, system, ringName, newName, list, rocks)
    PROVE  LET row == Payload(maps[i], system, NewRing(system, ringName, maps[i]), newName, rocks)
           IN  Commits(i, row, list) /\ (Inside(maps[i]) => Inside(row))
<1> DEFINE ring == NewRing(system, ringName, maps[i])
           row == Payload(maps[i], system, ring, newName, rocks)
<1>1. /\ job = Null /\ GoodsOf(i) # {}
      /\ RingSupplied(system, ringName, maps[i]) /\ ring # Null
      /\ ~Taken(Coalesce(newName, maps[i].name), i)
      /\ maps' = WithMap(i, row)
      /\ job' = [id |-> i, list |-> list]
      /\ UNCHANGED <<goods, told, broken, faults>>
  BY DEF Edit, Found
<1>2. maps[i] \in Map
  BY DEF MapsInv, TableFine
<1>3. /\ ring \in Rings
      /\ Inside(maps[i]) => SystemOf[ring] = Coalesce(system, maps[i].system)
  BY <1>1, <1>2, NewRingIs
<1> HIDE DEF ring
<1>4. /\ maps[i].system \in Systems /\ maps[i].name \in Names
      /\ maps[i].rocks \in OrNull(Counts)
  BY <1>2, SMT DEF Map
<1>5. /\ Coalesce(system, maps[i].system) \in Systems
      /\ Coalesce(newName, maps[i].name) \in Names
      /\ Coalesce(rocks, maps[i].rocks) \in OrNull(Counts)
  BY <1>4 DEF Coalesce, OrNull
<1>6. /\ row \in Map /\ row.name = Coalesce(newName, maps[i].name)
      /\ row.system = Coalesce(system, maps[i].system) /\ row.ring = ring
  BY <1>3, <1>5, SMT DEF Map, Payload
<1>7. i \in Ids /\ Numbered(DOMAIN maps \cup {i})
  <2>1. DOMAIN maps \cup {i} = DOMAIN maps
    OBVIOUS
  <2>2. PICK n \in 0..MaxMaps : DOMAIN maps = 1..n
    BY DEF MapsInv, TableFine, Numbered
  <2>3. i \in Ids
    BY <2>2, MapsAssumption, SMT DEF Ids
  <2> QED
    BY <2>1, <2>3 DEF MapsInv, TableFine
<1>8. Commits(i, row, list)
  BY <1>1, <1>6, <1>7 DEF Commits
<1>9. Inside(maps[i]) => Inside(row)
  BY <1>3, <1>6 DEF Inside
<1> QED
  BY <1>8, <1>9 DEF ring

-----------------------------------------------------------------------------
(***************************************************************************)
(* The second commit: commodities of that map, and of no other.            *)
(***************************************************************************)
LEMMA CompleteGoods ==
    ASSUME MapsInv, Complete
    PROVE  /\ DOMAIN goods' \subseteq GoodsKey
           /\ DOMAIN goods \subseteq DOMAIN goods'
           /\ \A k \in DOMAIN goods' : k.map # job.id => k \in DOMAIN goods /\ goods'[k] = goods[k]
           /\ \E k \in DOMAIN goods' : k.map = job.id
<1>1. job \in Job /\ job.id \in DOMAIN maps /\ job.id \in Ids /\ job.list \in OrNull(Lists)
  BY SMT DEF Complete, MapsInv, JobFine, OrNull, Job
<1>2. CASE job.list = Null
  <2>1. goods' = goods /\ GoodsOf(job.id) # {}
    BY <1>2 DEF Complete, MapsInv, JobFine
  <2> QED
    BY <2>1 DEF GoodsOf, MapsInv, GoodsFine
<1>3. CASE job.list # Null
  <2> DEFINE rows == to_dicts_from_discord(job.id, job.list)
  <2>1. /\ \A n \in DOMAIN job.list : job.list[n].sym \in Commodities
        /\ ~DuplicateKey(rows) /\ 1 \in DOMAIN job.list
    BY <1>1, <1>3, MapsAssumption DEF Complete, Refused, OrNull
  <2>2. DOMAIN rows = DOMAIN job.list /\ \A n \in DOMAIN rows : DOMAIN rows[n].cols = {"tons"}
    BY DEF to_dicts_from_discord
  <2>3. ~Ragged(rows)
    BY <2>1, <2>2 DEF Ragged
  <2>4. rows # <<>>
    BY <2>1, <2>2, SMT
  <2>5. goods' = Merge(goods, rows, {"tons"})
    BY <1>3, <2>1, <2>3, <2>4 DEF Complete, UpsertAll, Accepted
  <2>6. \A n \in DOMAIN rows : rows[n].key \in GoodsKey /\ rows[n].key.map = job.id
    BY <1>1, <2>1, <2>2, SMT DEF GoodsKey, to_dicts_from_discord
  <2> HIDE DEF rows
  <2>7. /\ \A k \in KeysOf(rows) : k \in GoodsKey /\ k.map = job.id
        /\ rows[1].key \in KeysOf(rows)
    BY <2>1, <2>2, <2>6 DEF KeysOf
  <2>8. /\ DOMAIN goods' = DOMAIN goods \cup KeysOf(rows)
        /\ \A k \in DOMAIN goods' : k \notin KeysOf(rows) => goods'[k] = goods[k]
    BY <2>5 DEF Merge
  <2> QED
    BY <2>7, <2>8 DEF MapsInv, GoodsFine
<1> QED
  BY <1>2, <1>3

LEMMA CompleteKeepsInv ==
    ASSUME MapsInv, Complete
    PROVE  MapsInv'
<1>1. /\ UNCHANGED <<maps, faults>> /\ job' = Null
      /\ broken' = broken \ {job.id}
      /\ DOMAIN told' = DOMAIN told \cup {job.id}
      /\ told'[job.id] = [map |-> maps[job.id],
                          goods |-> [k \in {k \in DOMAIN goods' : k.map = job.id} |-> goods'[k]]]
      /\ \A j \in DOMAIN told : j # job.id => told'[j] = told[j]
  BY DEF Complete, View
<1>2. job # Null /\ job.id \in DOMAIN maps
  BY DEF Complete, MapsInv, JobFine
<1>3. /\ DOMAIN goods' \subseteq GoodsKey
      /\ DOMAIN goods \subseteq DOMAIN goods'
      /\ \A k \in DOMAIN goods' : k.map # job.id => k \in DOMAIN goods /\ goods'[k] = goods[k]
      /\ \E k \in DOMAIN goods' : k.map = job.id
  BY CompleteGoods
<1>4. TableFine' /\ JobFine'
  BY <1>1 DEF MapsInv, TableFine, JobFine, OrNull
<1>5. GoodsFine'
  BY <1>1, <1>2, <1>3 DEF MapsInv, GoodsFine
<1>6. ASSUME NEW j, j # job.id
      PROVE  GoodsOf(j)' = GoodsOf(j) /\ View(goods, j)' = View(goods, j)
  <2>1. {k \in DOMAIN goods' : k.map = j} = {k \in DOMAIN goods : k.map = j}
    BY <1>3, <1>6
  <2>2. \A k \in {k \in DOMAIN goods : k.map = j} : goods'[k] = goods[k]
    BY <1>3, <1>6
  <2>3. [k \in {k \in DOMAIN goods' : k.map = j} |-> goods'[k]]
          = [k \in {k \in DOMAIN goods : k.map = j} |-> goods[k]]
    BY <2>1, <2>2
  <2> QED
    BY <1>1, <2>1, <2>3 DEF GoodsOf, View
<1>7. GoodsOf(job.id)' # {} \/ job' # job
  BY <1>1, <1>2
<1>8. {k \in DOMAIN goods' : k.map = job.id} # {}
  BY <1>3
<1>9. ToldFine'
  <2> SUFFICES ASSUME NEW j \in DOMAIN told'
               PROVE  /\ j \in DOMAIN maps
                      /\ told'[j] = [map |-> maps[j],
                                     goods |-> [k \in {k \in DOMAIN goods' : k.map = j} |-> goods'[k]]]
                      /\ {k \in DOMAIN goods' : k.map = j} # {}
    BY <1>1 DEF ToldFine, View, GoodsOf
  <2>1. CASE j = job.id
    BY <1>1, <1>2, <1>8, <2>1
  <2>2. CASE j # job.id
    <3>1. ~Working(j) /\ j \in DOMAIN told /\ told'[j] = told[j]
      BY <1>1, <2>2 DEF Working
    <3>2. told[j] = View(goods, j) /\ GoodsOf(j) # {} /\ j \in DOMAIN maps
      BY <3>1 DEF MapsInv, ToldFine
    <3> QED
      BY <1>1, <1>6, <2>2, <3>1, <3>2 DEF View, GoodsOf
  <2> QED
    BY <2>1, <2>2
<1>10. BareFine'
  <2> SUFFICES ASSUME NEW j \in DOMAIN maps, {k \in DOMAIN goods' : k.map = j} = {}
               PROVE  j \in broken'
    BY <1>1 DEF MapsInv, BareFine, BareOnlyAfterRefusal, GoodsOf
  <2>1. j # job.id
    BY <1>8
  <2>2. GoodsOf(j) = {} /\ ~Working(j)
    BY <1>6, <2>1 DEF GoodsOf, Working
  <2> QED
    BY <1>1, <2>1, <2>2 DEF MapsInv, BareFine, BareOnlyAfterRefusal
<1> QED
  BY <1>4, <1>5, <1>9, <1>10 DEF MapsInv

-----------------------------------------------------------------------------
(***************************************************************************)
(* A command that ends without commodities: what it was told is forgotten, *)
(* and a map that is left bare is among the broken ones.                   *)
(***************************************************************************)
LEMMA GiveUpKeepsInv ==
    ASSUME MapsInv, job # Null, job' = Null, UNCHANGED <<maps, goods>>, Untell(job.id),
           \/ broken' = broken \cup {job.id}
           \/ broken' = broken /\ GoodsOf(job.id) # {},
           faults' \in 0..MaxFaults
    PROVE  MapsInv'
<1>1. job.id \in DOMAIN maps
  BY DEF MapsInv, JobFine
<1>2. /\ DOMAIN told' = DOMAIN told \ {job.id}
      /\ \A j \in DOMAIN told' : told'[j] = told[j]
  BY DEF Untell
<1>3. TableFine' /\ GoodsFine' /\ JobFine'
  BY DEF MapsInv, TableFine, GoodsFine, JobFine, OrNull
<1>4. ToldFine'
  BY <1>2 DEF MapsInv, ToldFine, Working, View, GoodsOf
<1>5. BareFine'
  BY <1>1 DEF MapsInv, BareFine, BareOnlyAfterRefusal, Working, GoodsOf
<1> QED
  BY <1>3, <1>4, <1>5 DEF MapsInv

LEMMA EndsKeepInv ==
    ASSUME MapsInv, RefuseCommodities \/ RaiseUnknownCommodity \/ Crash
    PROVE  MapsInv'
<1>1. faults \in 0..MaxFaults /\ MaxFaults \in Nat
  BY MapsAssumption DEF MapsInv, BareFine
<1>2. Fault \/ UNCHANGED faults => faults' \in 0..MaxFaults
  BY <1>1, SMT DEF Fault
<1>3. CASE RefuseCommodities
  BY <1>2, <1>3, GiveUpKeepsInv DEF RefuseCommodities
<1>4. CASE RaiseUnknownCommodity
  <2>1. GoodsOf(job.id) # {}
    BY <1>4 DEF RaiseUnknownCommodity, MapsInv, JobFine
  <2> QED
    BY <1>2, <1>4, <2>1, GiveUpKeepsInv DEF RaiseUnknownCommodity
<1>5. CASE Crash
  BY <1>2, <1>5, GiveUpKeepsInv DEF Crash
<1> QED
  BY <1>3, <1>4, <1>5

-----------------------------------------------------------------------------
LEMMA AnyCommitIs ==
    ASSUME MapsInv, AnySubmit \/ AnyEdit
    PROVE  \E i, row, list :
              /\ Commits(i, row, list)
              /\ i \in DOMAIN maps /\ Inside(maps[i]) => Inside(row)
<1>1. CASE AnySubmit
  <2>1. PICK system \in Systems, name \in Names, list \in Lists, rocks \in OrNull(Counts),
             ring \in Rings : Submit(system, ring, name, list, rocks)
    BY <1>1 DEF AnySubmit, get_ring
  <2> DEFINE i == RowFor(system, ring, name)
             row == SubmitRow(i, system, ring, name, rocks)
  <2>2. /\ Commits(i, row, list)
        /\ i \in DOMAIN maps => maps[i].system = system /\ maps[i].ring = ring
    BY <2>1, SubmitCommits
  <2>3. row.system = system /\ row.ring = ring
    BY DEF SubmitRow
  <2> HIDE DEF i, row
  <2> QED
    BY <2>2, <2>3 DEF Inside
<1>2. CASE AnyEdit
  BY <1>2, EditCommits, Zenon DEF AnyEdit
<1> QED
  BY <1>1, <1>2

THEOREM MapsInvStart == MapsInit => MapsInv
<1> SUFFICES ASSUME MapsInit PROVE MapsInv
  OBVIOUS
<1>1. DOMAIN maps = {} /\ DOMAIN goods = {} /\ DOMAIN told = {} /\ job = Null /\ broken = {}
  BY DEF MapsInit
<1>2. Numbered({}) /\ faults \in 0..MaxFaults
  <2>1. 0 \in 0..MaxMaps /\ 1..0 = {} /\ 0 \in 0..MaxFaults
    BY MapsAssumption, SMT
  <2> QED
    BY <2>1 DEF Numbered, MapsInit
<1> QED
  BY <1>1, <1>2, Zenon DEF MapsInv, TableFine, GoodsFine, JobFine, ToldFine, BareFine, BareOnlyAfterRefusal, OrNull

THEOREM MapsInvStep == MapsInv /\ [MapsNext]_vars => MapsInv'
<1> SUFFICES ASSUME MapsInv, [MapsNext]_vars PROVE MapsInv'
  OBVIOUS
<1>1. CASE AnySubmit \/ AnyEdit
  BY <1>1, AnyCommitIs, CommitKeepsInv
<1>2. CASE UNCHANGED vars
  BY <1>2 DEF vars, MapsInv, TableFine, GoodsFine, JobFine, ToldFine, BareFine,
              BareOnlyAfterRefusal, Working, View, GoodsOf, Parses
<1> QED
  BY <1>1, <1>2, CompleteKeepsInv, EndsKeepInv DEF MapsNext

THEOREM MapsInvAlways == MapsSpec => []MapsInv
  BY MapsInvStart, MapsInvStep, PTL DEF MapsSpec

\* Types, unique names, and commodities that belong to maps.
THEOREM MapsTypeCorrect == MapsSpec => []MapsTypeOK
<1>1. MapsInv => DOMAIN maps \subseteq Ids
  <2> SUFFICES ASSUME MapsInv PROVE DOMAIN maps \subseteq Ids
    OBVIOUS
  <2>1. PICK n \in 0..MaxMaps : DOMAIN maps = 1..n
    BY DEF MapsInv, TableFine, Numbered
  <2> QED
    BY <2>1, MapsAssumption, SMT DEF Ids
<1>2. MapsInv => MapsTypeOK
  BY <1>1 DEF MapsInv, TableFine, GoodsFine, JobFine, ToldFine, BareFine, MapsTypeOK
<1> QED
  BY <1>2, MapsInvAlways, PTL

\* What the bot has told its users about a map is what is stored, until a
\* command for that very map, and the map is found by that name.
THEOREM AnswersAreTrueCorrect == MapsSpec => []AnswersAreTrue
<1>1. ASSUME MapsInv, NEW i \in DOMAIN told, ~Working(i)
      PROVE  /\ told[i] = View(goods, i)
             /\ \A j \in DOMAIN maps : Found(j, told[i].map.name) <=> j = i
  <2>1. told[i] = View(goods, i) /\ GoodsOf(i) # {} /\ i \in DOMAIN maps
    BY <1>1 DEF MapsInv, ToldFine
  <2>2. told[i].map = maps[i]
    BY <2>1 DEF View
  <2> QED
    BY <1>1, <2>1, <2>2 DEF Found, MapsInv, TableFine
<1>2. MapsInv => AnswersAreTrue
  BY <1>1 DEF AnswersAreTrue
<1> QED
  BY <1>2, MapsInvAlways, PTL

\* A map without commodities is left only by a crash or a refused batch.
THEOREM BareOnlyAfterRefusalCorrect == MapsSpec => []BareOnlyAfterRefusal
<1>1. MapsInv => BareOnlyAfterRefusal
  BY DEF MapsInv, BareFine
<1> QED
  BY <1>1, MapsInvAlways, PTL

\* No command takes a map out of the system that its ring is in.
THEOREM MapsStayInsideCorrect == MapsSpec => MapsStayInside
<1> DEFINE stays == \A i \in DOMAIN maps : Inside(maps[i]) => Inside(maps'[i])
<1>1. MapsInv /\ [MapsNext]_vars => stays
  <2> SUFFICES ASSUME MapsInv, [MapsNext]_vars, NEW j \in DOMAIN maps, Inside(maps[j])
               PROVE  Inside(maps'[j])
    OBVIOUS
  <2>1. CASE AnySubmit \/ AnyEdit
    <3>1. PICK i, row, list :
             /\ Commits(i, row, list)
             /\ i \in DOMAIN maps /\ Inside(maps[i]) => Inside(row)
      BY <2>1, AnyCommitIs
    <3>2. maps'[j] = IF j = i THEN row ELSE maps[j]
      BY <3>1 DEF Commits, WithMap
    <3> QED
      BY <3>1, <3>2
  <2>2. CASE maps' = maps
    BY <2>2
  <2> QED
    BY <2>1, <2>2 DEF MapsNext, Complete, RefuseCommodities, RaiseUnknownCommodity, Crash, vars
<1> QED
  BY <1>1, MapsInvAlways, PTL DEF MapsStayInside, MapsSpec

=============================================================================
