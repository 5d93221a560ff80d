------------------------- MODULE SpanshImport_proofs -------------------------
(***************************************************************************)
(* Proofs about the import beside the listener, for every dump, every size *)
(* of a batch, every start and any number of failures.                     *)
(***************************************************************************)
EXTENDS SpanshImport, FeedIngest_proofs

worldVars == <<vars, feedVars, importVars>>

-----------------------------------------------------------------------------
(* Last and newest among finitely many. *)

LEMMA NatMax ==
    ASSUME NEW T, T \subseteq Nat, T # {}, NEW n \in Nat, \A x \in T : x <= n
    PROVE  \E x \in T : \A y \in T : y <= x
<1> DEFINE U == {u \in Nat : \A x \in T : x <= u}
<1>1. U # {} /\ U \subseteq Nat
  OBVIOUS
<1>2. PICK u \in U : \A v \in U : u <= v
  BY <1>1, NatMin, Zenon
<1>3. u \in T
  <2> SUFFICES ASSUME u \notin T PROVE FALSE
    OBVIOUS
  <2>1. PICK t \in T : TRUE
    OBVIOUS
  <2>2. u # 0
    BY <1>2, <2>1
  <2>3. u - 1 \in Nat /\ \A x \in T : x <= u - 1
    BY <1>2, <2>2
  <2>4. u <= u - 1
    BY <1>2, <2>3
  <2>5. QED
    BY <1>2, <2>4
<1>4. QED
  BY <1>2, <1>3

\* Of some tuples, one with the highest number at place c.
LEMMA Highest ==
    ASSUME NEW T, T # {}, NEW c, NEW n \in Nat, \A p \in T : p[c] \in 0..n
    PROVE  \E p \in T : \A q \in T : p[c] \in Nat /\ q[c] \in Nat /\ q[c] <= p[c]
<1> DEFINE U == {p[c] : p \in T}
<1>1. U \subseteq Nat /\ U # {} /\ \A x \in U : x <= n
  OBVIOUS
<1>2. PICK x \in U : \A y \in U : y <= x
  BY <1>1, NatMax, Zenon
<1>3. PICK p \in T : x = p[c]
  BY <1>2
<1>4. QED
  BY <1>2, <1>3

LEMMA Earlier ==
    ASSUME NEW p, NEW q, NEW n \in DOMAIN p, p[n] < q[n],
           \A l \in 1..(n - 1) : p[l] = q[l]
    PROVE  Before(p, q)
BY DEF Before

(***************************************************************************)
(* Of triples, and of quadruples, that are bounded one after the other     *)
(* there is a last one in lexicographic order.                             *)
(***************************************************************************)
LEMMA LastTriple ==
    ASSUME NEW T, T # {}, NEW n \in Nat,
           \A p \in T : p = <<p[1], p[2], p[3]>> /\ p[1] \in 0..n,
           \A i : \E k \in Nat : \A p \in T : p[1] = i => p[2] \in 0..k,
           \A i, j : \E k \in Nat : \A p \in T : p[1] = i /\ p[2] = j => p[3] \in 0..k
    PROVE  \E p \in T : \A q \in T : q = p \/ Before(q, p)
<1>1. PICK a \in T : \A q \in T : a[1] \in Nat /\ q[1] \in Nat /\ q[1] <= a[1]
  BY Highest
<1> DEFINE U == {p \in T : p[1] = a[1]}
<1>2. PICK k2 \in Nat : \A p \in T : p[1] = a[1] => p[2] \in 0..k2
  OBVIOUS
<1>3. PICK b \in U : \A q \in U : b[2] \in Nat /\ q[2] \in Nat /\ q[2] <= b[2]
  <2>1. U # {} /\ \A p \in U : p[2] \in 0..k2
    BY <1>2
  <2> HIDE DEF U
  <2>2. QED
    BY <2>1, Highest
<1> DEFINE W == {p \in U : p[2] = b[2]}
<1>4. PICK k3 \in Nat : \A p \in T : p[1] = a[1] /\ p[2] = b[2] => p[3] \in 0..k3
  OBVIOUS
<1>5. PICK c \in W : \A q \in W : c[3] \in Nat /\ q[3] \in Nat /\ q[3] <= c[3]
  <2>1. W # {} /\ \A p \in W : p[3] \in 0..k3
    BY <1>4
  <2> HIDE DEF W
  <2>2. QED
    BY <2>1, Highest
<1>6. ASSUME NEW q \in T PROVE q = c \/ Before(q, c)
  <2>1. c \in T /\ c[1] = a[1] /\ c[2] = b[2] /\ DOMAIN q = 1..3
    <3>1. q = <<q[1], q[2], q[3]>>
      OBVIOUS
    <3>2. QED
      BY <3>1
  <2>2. CASE q[1] # a[1]
    <3>1. q[1] < c[1]
      BY <1>1, <2>1, <2>2
    <3>2. QED
      BY <2>1, <3>1, Earlier
  <2>3. CASE q[1] = a[1] /\ q[2] # b[2]
    <3>1. q[2] < c[2] /\ \A l \in 1..(2 - 1) : q[l] = c[l]
      BY <1>3, <2>1, <2>3
    <3>2. QED
      BY <2>1, <3>1, Earlier
  <2>4. CASE q[1] = a[1] /\ q[2] = b[2] /\ q[3] # c[3]
    <3>1. q[3] < c[3] /\ \A l \in 1..(3 - 1) : q[l] = c[l]
      BY <1>5, <2>1, <2>4
    <3>2. QED
      BY <2>1, <3>1, Earlier
  <2>5. CASE q[1] = a[1] /\ q[2] = b[2] /\ q[3] = c[3]
    BY <2>1, <2>5
  <2>6. QED
    BY <2>2, <2>3, <2>4, <2>5
<1>7. QED
  BY <1>5, <1>6

LEMMA LastQuadruple ==
    ASSUME NEW T, T # {}, NEW n \in Nat,
           \A p \in T : p = <<p[1], p[2], p[3], p[4]>> /\ p[1] \in 0..n,
           \A i : \E k \in Nat : \A p \in T : p[1] = i => p[2] \in 0..k,
           \A i, j : \E k \in Nat : \A p \in T : p[1] = i /\ p[2] = j => p[3] \in 0..k,
           \A i, j, l : \E k \in Nat : \A p \in T :
              p[1] = i /\ p[2] = j /\ p[3] = l => p[4] \in 0..k
    PROVE  \E p \in T : \A q \in T : q = p \/ Before(q, p)
<1> DEFINE cut(p) == <<p[1], p[2], p[3]>>
           U == {cut(p) : p \in T}
<1>1. \E a \in U : \A b \in U : b = a \/ Before(b, a)
  <2>1. U # {}
    OBVIOUS
  <2>2. \A a \in U : a = <<a[1], a[2], a[3]>> /\ a[1] \in 0..n
    OBVIOUS
  <2>3. ASSUME NEW i PROVE \E k \in Nat : \A a \in U : a[1] = i => a[2] \in 0..k
    <3>1. PICK k \in Nat : \A p \in T : p[1] = i => p[2] \in 0..k
      OBVIOUS
    <3>2. \A a \in U : a[1] = i => a[2] \in 0..k
      BY <3>1
    <3>3. QED
      BY <3>2
  <2>4. ASSUME NEW i, NEW j
        PROVE  \E k \in Nat : \A a \in U : a[1] = i /\ a[2] = j => a[3] \in 0..k
    <3>1. PICK k \in Nat : \A p \in T : p[1] = i /\ p[2] = j => p[3] \in 0..k
      OBVIOUS
    <3>2. \A a \in U : a[1] = i /\ a[2] = j => a[3] \in 0..k
      BY <3>1
    <3>3. QED
      BY <3>2
  <2> HIDE DEF U
  <2>5. QED
    BY <2>1, <2>2, <2>3, <2>4, LastTriple
<1>2. PICK a \in U : \A b \in U : b = a \/ Before(b, a)
  BY <1>1
<1> DEFINE W == {p \in T : cut(p) = a}
<1>3. PICK k \in Nat : \A p \in T : p[1] = a[1] /\ p[2] = a[2] /\ p[3] = a[3] => p[4] \in 0..k
  OBVIOUS
<1>4. PICK c \in W : \A q \in W : c[4] \in Nat /\ q[4] \in Nat /\ q[4] <= c[4]
  <2>1. W # {} /\ \A p \in W : p[4] \in 0..k
    BY <1>3
  <2> HIDE DEF W
  <2>2. QED
    BY <2>1, Highest
<1>5. ASSUME NEW q \in T PROVE q = c \/ Before(q, c)
  <2>1. c \in T /\ cut(c) = a /\ DOMAIN q = 1..4
    <3>1. q = <<q[1], q[2], q[3], q[4]>>
      OBVIOUS
    <3>2. QED
      BY <3>1
  <2>2. CASE cut(q) # a
    <3>1. Before(cut(q), a)
      BY <1>2, <2>2
    <3>2. PICK m \in 1..3 : cut(q)[m] < a[m] /\ \A l \in 1..(m - 1) : cut(q)[l] = a[l]
      BY <3>1 DEF Before
    <3>3. \A l \in 1..3 : cut(q)[l] = q[l] /\ a[l] = c[l]
      BY <2>1
    <3> HIDE DEF cut
    <3>4. m \in DOMAIN q /\ q[m] < c[m] /\ \A l \in 1..(m - 1) : q[l] = c[l]
      BY <2>1, <3>2, <3>3
    <3>5. QED
      BY <3>4, Earlier
  <2>3. CASE cut(q) = a /\ q[4] # c[4]
    <3>1. q[4] < c[4] /\ \A l \in 1..(4 - 1) : q[l] = c[l]
      BY <1>4, <2>1, <2>3
    <3>2. QED
      BY <2>1, <3>1, Earlier
  <2>4. CASE cut(q) = a /\ q[4] = c[4]
    BY <2>1, <2>4
  <2>5. QED
    BY <2>2, <2>3, <2>4
<1>6. QED
  BY <1>4, <1>5

-----------------------------------------------------------------------------
(* The items of the dump and their places. *)

Items == {i \in 1..Len(Dump) : Dump[i] # Null}

LEMMA ItemFields ==
    ASSUME NEW i \in Items
    PROVE  /\ Dump[i].system \in Systems /\ Dump[i].date \in Nat
           /\ Dump[i].controlling \in OrNull(Factions)
           /\ Dump[i].factions \in Seq([name : Factions, state : OrNull(Values)])
           /\ Dump[i].bodies \in Seq(DumpBody) /\ Dump[i].stations \in Seq(DumpStation)
<1>1. Dump \in Seq(OrNull(DumpSystem)) /\ i \in DOMAIN Dump /\ Dump[i] # Null
  BY SpanshAssumption DEF Items
<1>2. Dump[i] \in DumpSystem
  BY <1>1 DEF OrNull
<1>3. QED
  BY <1>2 DEF DumpSystem

LEMMA SeqIndex ==
    ASSUME NEW S, NEW q \in Seq(S)
    PROVE  Len(q) \in Nat /\ DOMAIN q = 1..Len(q) /\ \A i \in DOMAIN q : q[i] \in S
OBVIOUS

LEMMA FactionPlaceIs ==
    ASSUME NEW items, NEW p
    PROVE  p \in FactionPlaces(items) <=>
              p = <<p[1], p[2]>> /\ p[1] \in items /\ p[2] \in DOMAIN Dump[p[1]].factions
BY DEF FactionPlaces

LEMMA BodyPlaceIs ==
    ASSUME NEW items, NEW p
    PROVE  p \in BodyPlaces(items) <=>
              p = <<p[1], p[2]>> /\ p[1] \in items /\ p[2] \in DOMAIN Dump[p[1]].bodies
BY DEF BodyPlaces

LEMMA RingPlaceIs ==
    ASSUME NEW items, NEW p
    PROVE  p \in RingPlaces(items) <=>
              /\ p = <<p[1], p[2], p[3]>> /\ <<p[1], p[2]>> \in BodyPlaces(items)
              /\ p[3] \in DOMAIN BodyAt(p).rings
<1> DEFINE b == <<p[1], p[2]>>
<1>1. p \in RingPlaces(items) <=>
         \E q \in BodyPlaces(items) : \E r \in DOMAIN BodyAt(q).rings : p = <<q[1], q[2], r>>
  BY DEF RingPlaces
<1>2. ASSUME NEW q \in BodyPlaces(items), NEW r \in DOMAIN BodyAt(q).rings,
             p = <<q[1], q[2], r>>
      PROVE  p = <<p[1], p[2], p[3]>> /\ b \in BodyPlaces(items)
             /\ p[3] \in DOMAIN BodyAt(p).rings
  <2>1. p[1] = q[1] /\ p[2] = q[2] /\ p[3] = r
    BY <1>2
  <2>2. q = b
    BY <2>1, BodyPlaceIs
  <2>3. BodyAt(p) = BodyAt(q)
    BY <2>1 DEF BodyAt
  <2>4. QED
    BY <1>2, <2>1, <2>2, <2>3
<1>3. b[1] = p[1] /\ b[2] = p[2] /\ BodyAt(b) = BodyAt(p)
  BY DEF BodyAt
<1> HIDE DEF b
<1>4. QED
  BY <1>1, <1>2, <1>3 DEF b

LEMMA StationPlaceIs ==
    ASSUME NEW items, NEW p
    PROVE  p \in StationPlaces(items) <=>
              /\ p = <<p[1], p[2], p[3]>>
              /\ <<p[1], p[2]>> \in BodyPlaces(items) \/ (p[1] \in items /\ p[2] = 0)
              /\ p[3] \in DOMAIN StationsAt(p)
              /\ ~Decommissioned(p)
<1> DEFINE b == <<p[1], p[2]>>
           hosts == BodyPlaces(items) \cup {<<i, 0>> : i \in items}
<1>1. p \in StationPlaces(items) <=>
         /\ \E q \in hosts : \E k \in DOMAIN StationsAt(q) : p = <<q[1], q[2], k>>
         /\ ~Decommissioned(p)
  BY DEF StationPlaces, StationEntries
<1>2. \A q \in hosts : q = <<q[1], q[2]>>
  BY BodyPlaceIs
<1>3. b \in hosts <=> b \in BodyPlaces(items) \/ (p[1] \in items /\ p[2] = 0)
  OBVIOUS
<1>4. b[1] = p[1] /\ b[2] = p[2] /\ StationsAt(b) = StationsAt(p)
  BY DEF StationsAt, BodyAt
<1> HIDE DEF b, hosts
<1>5. ASSUME NEW q \in hosts, NEW k \in DOMAIN StationsAt(q), p = <<q[1], q[2], k>>
      PROVE  p = <<p[1], p[2], p[3]>> /\ b \in hosts /\ p[3] \in DOMAIN StationsAt(p)
  <2>1. p[1] = q[1] /\ p[2] = q[2] /\ p[3] = k
    BY <1>5
  <2>2. q = b
    BY <1>2, <2>1 DEF b
  <2>3. QED
    BY <1>4, <1>5, <2>1, <2>2
<1>6. QED
  BY <1>1, <1>3, <1>4, <1>5 DEF b

LEMMA ListingPlaceIs ==
    ASSUME NEW items, NEW p
    PROVE  p \in ListingPlaces(items) <=>
              /\ p = <<p[1], p[2], p[3], p[4]>>
              /\ <<p[1], p[2], p[3]>> \in MarketPlaces(items)
              /\ p[4] \in DOMAIN StationAt(p).market.symbols
<1> DEFINE s == <<p[1], p[2], p[3]>>
<1>1. p \in ListingPlaces(items) <=>
         \E q \in MarketPlaces(items) : \E c \in DOMAIN StationAt(q).market.symbols :
            p = <<q[1], q[2], q[3], c>>
  BY DEF ListingPlaces
<1>2. \A q \in MarketPlaces(items) : q = <<q[1], q[2], q[3]>>
  BY StationPlaceIs DEF MarketPlaces
<1>3. s[1] = p[1] /\ s[2] = p[2] /\ s[3] = p[3] /\ StationAt(s) = StationAt(p)
  BY DEF StationAt, StationsAt, BodyAt
<1> HIDE DEF s
<1>4. ASSUME NEW q \in MarketPlaces(items),
             NEW c \in DOMAIN StationAt(q).market.symbols, p = <<q[1], q[2], q[3], c>>
      PROVE  p = <<p[1], p[2], p[3], p[4]>> /\ s \in MarketPlaces(items)
             /\ p[4] \in DOMAIN StationAt(p).market.symbols
  <2>1. p[1] = q[1] /\ p[2] = q[2] /\ p[3] = q[3] /\ p[4] = c
    BY <1>4
  <2>2. q = s
    BY <1>2, <2>1 DEF s
  <2>3. QED
    BY <1>3, <1>4, <2>1, <2>2
<1>5. QED
  BY <1>1, <1>3, <1>4 DEF s

LEMMA FactionAtPlace ==
    ASSUME NEW items \in SUBSET Items, NEW p \in FactionPlaces(items)
    PROVE  p[1] \in Items /\ FactionAt(p).name \in Factions /\ SystemOf(p) \in Systems
<1>1. p[1] \in items /\ p[2] \in DOMAIN Dump[p[1]].factions
  BY FactionPlaceIs
<1>2. Dump[p[1]].factions \in Seq([name : Factions, state : OrNull(Values)])
      /\ Dump[p[1]].system \in Systems
  BY <1>1, ItemFields
<1>3. Dump[p[1]].factions[p[2]] \in [name : Factions, state : OrNull(Values)]
  BY <1>1, <1>2, SeqIndex
<1>4. QED
  BY <1>1, <1>2, <1>3 DEF FactionAt, SystemOf

LEMMA BodyAtPlace ==
    ASSUME NEW items \in SUBSET Items, NEW p \in BodyPlaces(items)
    PROVE  /\ p[1] \in items /\ p[2] \in 1..Len(Dump[p[1]].bodies)
           /\ Len(Dump[p[1]].bodies) \in Nat
           /\ SystemOf(p) \in Systems
           /\ BodyAt(p) \in DumpBody
           /\ BodyKey(p) \in Body
<1>1. p[1] \in items /\ p[2] \in DOMAIN Dump[p[1]].bodies
  BY BodyPlaceIs
<1>2. Dump[p[1]].bodies \in Seq(DumpBody) /\ Dump[p[1]].system \in Systems
  BY <1>1, ItemFields
<1>3. BodyAt(p) \in DumpBody /\ SystemOf(p) \in Systems
      /\ Len(Dump[p[1]].bodies) \in Nat /\ p[2] \in 1..Len(Dump[p[1]].bodies)
  BY <1>1, <1>2, SeqIndex DEF BodyAt, SystemOf
<1>4. BodyAt(p).name \in Planets /\ BodyAt(p).number \in Nat
  BY <1>3 DEF DumpBody
<1>5. QED
  BY <1>1, <1>3, <1>4 DEF BodyKey, Body

LEMMA RingAtPlace ==
    ASSUME NEW items \in SUBSET Items, NEW p \in RingPlaces(items)
    PROVE  /\ p[1] \in items
           /\ <<p[1], p[2]>> \in BodyPlaces(items)
           /\ BodyKey(p) = BodyKey(<<p[1], p[2]>>) /\ BodyKey(p) \in Body
           /\ RingAt(p) \in DumpRing
           /\ RingKey(p) \in Ring
<1> DEFINE b == <<p[1], p[2]>>
<1>1. b \in BodyPlaces(items) /\ p[3] \in DOMAIN BodyAt(p).rings
  BY RingPlaceIs
<1>2. BodyAt(p) = BodyAt(b) /\ SystemOf(p) = SystemOf(b) /\ b[1] = p[1]
  BY DEF BodyAt, SystemOf
<1> HIDE DEF b
<1>3. BodyKey(p) = BodyKey(b) /\ BodyAt(b) \in DumpBody /\ BodyKey(b) \in Body /\ b[1] \in items
  BY <1>1, <1>2, BodyAtPlace DEF BodyKey
<1>4. BodyAt(p).rings \in Seq(DumpRing)
  BY <1>2, <1>3 DEF DumpBody
<1>5. RingAt(p) \in DumpRing
  BY <1>1, <1>4, SeqIndex DEF RingAt
<1>6. QED
  BY <1>1, <1>2, <1>3, <1>5 DEF RingKey, Ring, DumpRing, b

LEMMA StationAtPlace ==
    ASSUME NEW items \in SUBSET Items, NEW p \in StationPlaces(items)
    PROVE  /\ p = <<p[1], p[2], p[3]>>
           /\ p[1] \in items
           /\ p[2] = 0 \/ (p[2] # 0 /\ <<p[1], p[2]>> \in BodyPlaces(items))
           /\ p[2] \in 0..Len(Dump[p[1]].bodies) /\ Len(Dump[p[1]].bodies) \in Nat
           /\ p[3] \in 1..Len(StationsAt(p)) /\ Len(StationsAt(p)) \in Nat
           /\ StationAt(p) \in DumpStation
           /\ StationKeyAt(p) \in StationKey
           /\ OwnerAt(p) = IF p[2] = 0 THEN SystemOwner(SystemOf(p))
                           ELSE BodyOwner(BodyKey(<<p[1], p[2]>>))
<1> DEFINE b == <<p[1], p[2]>>
<1>1. /\ p = <<p[1], p[2], p[3]>> /\ p[3] \in DOMAIN StationsAt(p)
      /\ b \in BodyPlaces(items) \/ (p[1] \in items /\ p[2] = 0)
  BY StationPlaceIs
<1>2. BodyAt(p) = BodyAt(b) /\ SystemOf(p) = SystemOf(b) /\ BodyKey(p) = BodyKey(b)
      /\ b[1] = p[1] /\ b[2] = p[2]
  BY DEF BodyAt, SystemOf, BodyKey
<1> HIDE DEF b
<1>3. CASE p[2] = 0
  <2>1. p[1] \in items
    BY <1>1, <1>2, BodyAtPlace
  <2>2. /\ Dump[p[1]].stations \in Seq(DumpStation) /\ Dump[p[1]].system \in Systems
        /\ Dump[p[1]].bodies \in Seq(DumpBody)
    BY <2>1, ItemFields
  <2>3. StationsAt(p) = Dump[p[1]].stations /\ OwnerAt(p) = SystemOwner(SystemOf(p))
    BY <1>3 DEF StationsAt, OwnerAt
  <2>4. StationAt(p) \in DumpStation /\ Len(StationsAt(p)) \in Nat
        /\ p[3] \in 1..Len(StationsAt(p))
    BY <1>1, <2>2, <2>3, SeqIndex DEF StationAt
  <2>5. OwnerAt(p) \in Owner
    BY <2>2, <2>3 DEF Owner, SystemOwner, SystemOf
  <2>6. StationKeyAt(p) \in StationKey
    BY <2>4, <2>5 DEF StationKeyAt, StationKey, DumpStation
  <2>7. p[2] \in 0..Len(Dump[p[1]].bodies) /\ Len(Dump[p[1]].bodies) \in Nat
    BY <1>3, <2>2
  <2>8. QED
    BY <1>1, <1>3, <2>1, <2>3, <2>4, <2>6, <2>7
<1>4. CASE p[2] # 0
  <2>1. /\ b \in BodyPlaces(items) /\ p[1] \in items /\ BodyAt(b) \in DumpBody
        /\ BodyKey(b) \in Body /\ Len(Dump[p[1]].bodies) \in Nat
        /\ p[2] \in 1..Len(Dump[p[1]].bodies)
    BY <1>1, <1>2, <1>4, BodyAtPlace
  <2>2. StationsAt(p) = BodyAt(b).stations /\ OwnerAt(p) = BodyOwner(BodyKey(b))
    BY <1>2, <1>4 DEF StationsAt, OwnerAt
  <2>3. BodyAt(b).stations \in Seq(DumpStation)
    BY <2>1 DEF DumpBody
  <2>4. StationAt(p) \in DumpStation /\ Len(StationsAt(p)) \in Nat
        /\ p[3] \in 1..Len(StationsAt(p))
    BY <1>1, <2>2, <2>3, SeqIndex DEF StationAt
  <2>5. OwnerAt(p) \in Owner
    BY <2>1, <2>2 DEF Owner, BodyOwner
  <2>6. StationKeyAt(p) \in StationKey
    BY <2>4, <2>5 DEF StationKeyAt, StationKey, DumpStation
  <2>7. p[2] \in 0..Len(Dump[p[1]].bodies)
    BY <2>1
  <2>8. QED
    BY <1>1, <1>4, <2>1, <2>2, <2>4, <2>6, <2>7 DEF b
<1>5. QED
  BY <1>3, <1>4

LEMMA ListingAtPlace ==
    ASSUME NEW items \in SUBSET Items, NEW p \in ListingPlaces(items)
    PROVE  /\ p = <<p[1], p[2], p[3], p[4]>>
           /\ <<p[1], p[2], p[3]>> \in MarketPlaces(items)
           /\ <<p[1], p[2], p[3]>> \in StationPlaces(items)
           /\ StationAt(p) = StationAt(<<p[1], p[2], p[3]>>)
           /\ StationKeyAt(p) = StationKeyAt(<<p[1], p[2], p[3]>>)
           /\ p[4] \in 1..Len(StationAt(p).market.symbols)
           /\ Len(StationAt(p).market.symbols) \in Nat
<1> DEFINE s == <<p[1], p[2], p[3]>>
<1>1. /\ p = <<p[1], p[2], p[3], p[4]>> /\ s \in MarketPlaces(items)
      /\ p[4] \in DOMAIN StationAt(p).market.symbols
  BY ListingPlaceIs
<1>2. s \in StationPlaces(items) /\ Fresh(StationAt(s))
  BY <1>1 DEF MarketPlaces
<1>3. StationAt(p) = StationAt(s) /\ StationKeyAt(p) = StationKeyAt(s)
  BY DEF StationAt, StationKeyAt, StationsAt, BodyAt, OwnerAt, SystemOf, BodyKey
<1> HIDE DEF s
<1>4. StationAt(s) \in DumpStation
  BY <1>2, StationAtPlace
<1>5. StationAt(s).market \in Market
  BY <1>2, <1>4 DEF DumpStation, Fresh, OrNull
<1>6. StationAt(p).market.symbols \in Seq(Values)
  BY <1>3, <1>5 DEF Market
<1>7. QED
  BY <1>1, <1>2, <1>3, <1>6, SeqIndex DEF s

-----------------------------------------------------------------------------
(* What a statement of the import does to the tables. *)

LEMMA UpsertDictKeeps ==
    ASSUME NEW table, NEW dict, NEW Cols, NEW ok,
           \A k \in DOMAIN table : DOMAIN table[k] = Cols,
           NEW new, new = UpsertDict(table, dict, Cols, ok)
    PROVE  /\ Keeps(table, new, Cols)
           /\ \A k \in DOMAIN new : DOMAIN new[k] = Cols
           /\ DOMAIN new \subseteq DOMAIN table \cup DOMAIN dict
           /\ ok => DOMAIN dict \subseteq DOMAIN new
<1>1. CASE DOMAIN dict # {} /\ ok
  <2>1. new = MergeDict(table, dict, Cols)
    BY <1>1 DEF UpsertDict
  <2>2. DOMAIN new = DOMAIN table \cup DOMAIN dict
    BY <2>1 DEF MergeDict
  <2>3. \A k \in DOMAIN new : DOMAIN new[k] = Cols
    BY <2>1 DEF MergeDict
  <2>4. ASSUME NEW k \in DOMAIN table, NEW c \in Cols, table[k][c] # Null
        PROVE  new[k][c] # Null
    BY <2>1, <2>4 DEF MergeDict, Coalesce, Current
  <2>5. QED
    BY <1>1, <2>2, <2>3, <2>4 DEF Keeps
<1>2. CASE ~ (DOMAIN dict # {} /\ ok)
  <2>1. new = table /\ (ok => DOMAIN dict = {})
    BY <1>2 DEF UpsertDict
  <2>2. QED
    BY <2>1, KeepsItself
<1>3. QED
  BY <1>1, <1>2

LEMMA MergeDictWrites ==
    ASSUME NEW table, NEW dict, NEW Cols, NEW k \in DOMAIN dict, NEW c \in Cols,
           c \in DOMAIN dict[k], dict[k][c] # Null
    PROVE  MergeDict(table, dict, Cols)[k][c] = dict[k][c]
BY DEF MergeDict, Coalesce

LEMMA ReplaceSystems ==
    ASSUME Core, NEW v, db' = [db EXCEPT !.systems = v], Keeps(db.systems, v, SystemCols),
           \A k \in DOMAIN v : DOMAIN v[k] = SystemCols
    PROVE  Shape' /\ Grows /\ Grounded
<1>1. DOMAIN db' = Tables /\ db'.factions = db.factions /\ db'.systems = v
      /\ db'.presences = db.presences /\ db'.bodies = db.bodies /\ db'.rings = db.rings
      /\ db'.hotspots = db.hotspots /\ db'.stations = db.stations
  BY DEF Core, Shape, Tables
<1>2. QED
  BY <1>1, KeepsItself DEF Core, Shape, Grows, Grounded

LEMMA ReplacePresences ==
    ASSUME Core, NEW v, db' = [db EXCEPT !.presences = v],
           Keeps(db.presences, v, PresenceCols),
           \A k \in DOMAIN v : DOMAIN v[k] = PresenceCols,
           \A p \in DOMAIN v \ DOMAIN db.presences :
              p.system \in DOMAIN db.systems /\ p.faction \in db.factions
    PROVE  Shape' /\ Grows /\ Grounded
<1>1. DOMAIN db' = Tables /\ db'.factions = db.factions /\ db'.systems = db.systems
      /\ db'.presences = v /\ db'.bodies = db.bodies /\ db'.rings = db.rings
      /\ db'.hotspots = db.hotspots /\ db'.stations = db.stations
  BY DEF Core, Shape, Tables
<1>2. QED
  BY <1>1, KeepsItself DEF Core, Shape, Grows, Grounded

LEMMA ReplaceStations ==
    ASSUME Core, NEW v, db' = [db EXCEPT !.stations = v],
           Keeps(db.stations, v, StationCols),
           \A k \in DOMAIN v : DOMAIN v[k] = StationCols,
           \A k \in DOMAIN v \ DOMAIN db.stations : IsStationKey(k) /\ OwnerStored(k.owner)
    PROVE  Shape' /\ Grows /\ Grounded
<1>1. DOMAIN db' = Tables /\ db'.factions = db.factions /\ db'.systems = db.systems
      /\ db'.presences = db.presences /\ db'.bodies = db.bodies /\ db'.rings = db.rings
      /\ db'.hotspots = db.hotspots /\ db'.stations = v
  BY DEF Core, Shape, Tables
<1>2. QED
  BY <1>1, KeepsItself DEF Core, Shape, Grows, Grounded

LEMMA AddKeysAdds ==
    ASSUME NEW keys, NEW new, NEW ok \in BOOLEAN
    PROVE  AddKeys(keys, new, ok) = keys \cup (IF ok THEN new ELSE {})
BY DEF AddKeys

-----------------------------------------------------------------------------
(* Ids and facts. *)

FactsAreRows ==
    /\ \A k : Fact("faction", k) \in WorldFacts <=> k \in db.factions
    /\ \A k : Fact("system", k) \in WorldFacts <=> k \in DOMAIN db.systems
    /\ \A k : Fact("presence", k) \in WorldFacts <=> k \in DOMAIN db.presences
    /\ \A k : Fact("body", k) \in WorldFacts <=> k \in db.bodies
    /\ \A k : Fact("ring", k) \in WorldFacts <=> k \in db.rings
    /\ \A k : Fact("hotspot", k) \in WorldFacts <=> k \in db.hotspots
    /\ \A k : Fact("station", k) \in WorldFacts <=> k \in DOMAIN db.stations
    /\ \A k : Fact("listing", k) \in WorldFacts <=> k \in DOMAIN listings
    /\ \A k : Fact("bodySignal", k) \in WorldFacts <=> k \in bodySignals

LEMMA StoredFacts == FactsAreRows
<1>1. \A kind, k, other, table : kind # other => Fact(kind, k) \notin Columns(other, table)
  <2>1. ASSUME NEW other, NEW table, NEW f \in Columns(other, table) PROVE f.kind = other
    BY DEF Columns, Fact
  <2>2. \A kind, k : Fact(kind, k).kind = kind
    BY DEF Fact
  <2>3. QED
    BY <2>1, <2>2, Zenon
<1>2. \A kind, other, k, l : Fact(kind, k) = Fact(other, l) <=> kind = other /\ k = l
  BY DEF Fact
<1>3. \A f : f \in WorldFacts <=>
         \/ \E k \in db.factions : f = Fact("faction", k)
         \/ \E k \in DOMAIN db.systems : f = Fact("system", k)
         \/ \E k \in DOMAIN db.presences : f = Fact("presence", k)
         \/ \E k \in db.bodies : f = Fact("body", k)
         \/ \E k \in db.rings : f = Fact("ring", k)
         \/ \E k \in db.hotspots : f = Fact("hotspot", k)
         \/ \E k \in DOMAIN db.stations : f = Fact("station", k)
         \/ f \in Columns("systemColumn", db.systems)
         \/ f \in Columns("presenceColumn", db.presences)
         \/ f \in Columns("stationColumn", db.stations)
         \/ \E k \in DOMAIN listings : f = Fact("listing", k)
         \/ f \in Columns("listingColumn", listings)
         \/ \E k \in states : f = Fact("state", k)
         \/ \E k \in signals : f = Fact("signal", k)
         \/ \E k \in bodySignals : f = Fact("bodySignal", k)
  BY DEF WorldFacts, AllFacts, Facts
<1>4. \A k : Fact("faction", k) \in WorldFacts <=> k \in db.factions
  BY <1>1, <1>2, <1>3
<1>5. \A k : Fact("system", k) \in WorldFacts <=> k \in DOMAIN db.systems
  BY <1>1, <1>2, <1>3
<1>6. \A k : Fact("body", k) \in WorldFacts <=> k \in db.bodies
  BY <1>1, <1>2, <1>3
<1>7. \A k : Fact("ring", k) \in WorldFacts <=> k \in db.rings
  BY <1>1, <1>2, <1>3
<1>8. \A k : Fact("station", k) \in WorldFacts <=> k \in DOMAIN db.stations
  BY <1>1, <1>2, <1>3
<1>9. \A k : Fact("presence", k) \in WorldFacts <=> k \in DOMAIN db.presences
  BY <1>1, <1>2, <1>3
<1>10. \A k : Fact("hotspot", k) \in WorldFacts <=> k \in db.hotspots
  BY <1>1, <1>2, <1>3
<1>11. \A k : Fact("listing", k) \in WorldFacts <=> k \in DOMAIN listings
  BY <1>1, <1>2, <1>3
<1>12. \A k : Fact("bodySignal", k) \in WorldFacts <=> k \in bodySignals
  BY <1>1, <1>2, <1>3
<1>13. QED
  BY <1>4, <1>5, <1>6, <1>7, <1>8, <1>9, <1>10, <1>11, <1>12 DEF FactsAreRows

LEMMA StoredFactsNext == FactsAreRows'
BY StoredFacts, PTL

LEMMA KnownKeys ==
    ASSUME cached \subseteq WorldFacts, NEW keys
    PROVE  /\ Known("faction", keys) \subseteq cached => keys \subseteq db.factions
           /\ Known("system", keys) \subseteq cached => keys \subseteq DOMAIN db.systems
           /\ Known("body", keys) \subseteq cached => keys \subseteq db.bodies
           /\ Known("ring", keys) \subseteq cached => keys \subseteq db.rings
           /\ Known("station", keys) \subseteq cached => keys \subseteq DOMAIN db.stations
BY StoredFacts DEF Known, FactsAreRows

LEMMA LayersAre ==
    /\ Len(Layers) = 10
    /\ Layers[1] = "factions" /\ Layers[2] = "systems" /\ Layers[3] = "presences"
    /\ Layers[4] = "bodies" /\ Layers[5] = "stations" /\ Layers[6] = "signals"
    /\ Layers[7] = "rings" /\ Layers[8] = "market" /\ Layers[9] = "outfitting"
    /\ Layers[10] = "hotspots"
BY DEF Layers

LEMMA NextLayers ==
    ASSUME NEW l \in 1..10
    PROVE  NextLayer(l) = IF l = 10 THEN 0 ELSE l + 1
BY LayersAre DEF NextLayer

(***************************************************************************)
(* What a statement needs and what it adds.                                *)
(***************************************************************************)
ImportInv ==
    /\ FeedInv
    /\ Typed
    /\ FeedHand
    /\ ImportTypeOK
    /\ pending \subseteq Items

ListingsAdded ==
    /\ ListingShape'
    /\ Keeps(listings, listings', ListingCols)
    /\ \A k \in DOMAIN listings' \ DOMAIN listings :
          k.station \in DOMAIN db.stations /\ k.commodity \in Commodities

SignalsAdded ==
    /\ bodySignals \subseteq bodySignals'
    /\ \A s \in bodySignals' \ bodySignals : s.body \in db.bodies

ListenerRests ==
    UNCHANGED <<msg, todo, known, owner, view, clean, announced, feed, at, controller,
                station, states, signals, whole>>

ImportAdds ==
    /\ Shape' /\ Grows /\ Grounded /\ TablesTyped'
    /\ ListingsAdded /\ SignalsAdded
    /\ ListenerRests
    /\ dbErrors' \in 0..MaxDbErrors

LEMMA NoListings ==
    ASSUME ImportInv, listings' = listings PROVE ListingsAdded
BY KeepsItself DEF ImportInv, FeedInv, ListingShape, ListingsAdded

\* A statement of layer l that returns ids if it is stored.
Inserts(l, ids, stored) ==
    /\ import = "running" /\ layer \in 1..10 /\ Layers[layer] = l
    /\ Lookups(l) \subseteq cached
    /\ cached' = cached \cup (IF stored THEN ids ELSE {})
    /\ flawless' = (flawless /\ stored)
    /\ layer' = IF layer = 10 THEN 0 ELSE layer + 1
    /\ UNCHANGED <<import, imports, first, idx, pending, batch>>
    /\ ListenerRests
    /\ dbErrors' \in 0..MaxDbErrors

LEMMA InsertDoes ==
    ASSUME ImportInv, NEW l, NEW rows, NEW dbOk \in BOOLEAN, NEW valid \in BOOLEAN, NEW ids,
           Insert(l, rows, dbOk, valid, ids)
    PROVE  Inserts(l, ids, dbOk /\ valid)
<1>1. layer \in 1..10 /\ Layers[layer] = l /\ import = "running"
  <2>1. layer # 0 /\ Layers[layer] = l /\ import = "running"
    BY DEF Insert, InLayer
  <2>2. layer \in 0..10
    BY LayersAre DEF ImportInv, ImportTypeOK
  <2>3. QED
    BY <2>1, <2>2
<1>2. layer' = IF layer = 10 THEN 0 ELSE layer + 1
  BY <1>1, NextLayers DEF Insert
<1>3. dbErrors' \in 0..MaxDbErrors
  <2>1. dbErrors \in 0..MaxDbErrors /\ MaxDbErrors \in Nat
    BY JournalAssumption DEF ImportInv, Typed, JournalTypeOK
  <2>2. dbErrors' = dbErrors \/ (dbErrors < MaxDbErrors /\ dbErrors' = dbErrors + 1)
    BY DEF Insert
  <2>3. QED
    BY <2>1, <2>2
<1>4. cached' = cached \cup (IF dbOk /\ valid THEN ids ELSE {})
  BY DEF Insert, Returned
<1>5. flawless' = (flawless /\ (dbOk /\ valid))
  BY DEF Insert
<1>6. QED
  BY <1>1, <1>2, <1>3, <1>4, <1>5 DEF Insert, ListenerRests, Inserts


LEMMA InsertValidDoes ==
    ASSUME ImportInv, NEW l, NEW rows, NEW ok \in BOOLEAN, NEW ids,
           InsertValid(l, rows, ok, ids)
    PROVE  Inserts(l, ids, ok)
<1>1. Insert(l, rows, ok, TRUE, ids) /\ TRUE \in BOOLEAN
  BY DEF InsertValid
<1>2. Inserts(l, ids, ok /\ TRUE)
  BY <1>1, InsertDoes
<1>3. (ok /\ TRUE) = ok
  OBVIOUS
<1>4. QED
  BY <1>2, <1>3

\* An id that comes back is the id of a row that is stored by then.
CacheGrows ==
    cached' \subseteq cached \cup Known("faction", db'.factions)
                        \cup Known("system", DOMAIN db'.systems)
                        \cup Known("body", db'.bodies)
                        \cup Known("station", DOMAIN db'.stations)
                        \cup Known("ring", db'.rings)

LEMMA BatchIsItems == ASSUME ImportInv PROVE batch \in SUBSET Items
BY DEF ImportInv, ImportTypeOK, Items

LEMMA FactionNames ==
    ASSUME ImportInv
    PROVE  Controllers \cup {FactionAt(p).name : p \in FactionPlaces(batch)} \subseteq Factions
<1>1. batch \in SUBSET Items
  BY BatchIsItems
<1>2. Controllers \subseteq Factions
  BY <1>1, ItemFields DEF Controllers, OrNull
<1>3. \A p \in FactionPlaces(batch) : FactionAt(p).name \in Factions
  BY <1>1, FactionAtPlace
<1>4. QED
  BY <1>2, <1>3

LEMMA FactionsAdded ==
    ASSUME ImportInv, ImportFactions PROVE ImportAdds /\ CacheGrows
<1> DEFINE names == Controllers \cup {FactionAt(p).name : p \in FactionPlaces(batch)}
<1>1. PICK ok \in BOOLEAN :
         /\ InsertValid("factions", names, ok, Known("faction", names))
         /\ db' = [db EXCEPT !.factions = AddKeys(db.factions, names, ok)]
         /\ UNCHANGED <<listings, bodySignals>>
  BY DEF ImportFactions
<1>2. names \subseteq Factions
  BY FactionNames
<1> HIDE DEF names
<1>3. Inserts("factions", Known("faction", names), ok)
  BY <1>1, InsertValidDoes
<1> DEFINE v == AddKeys(db.factions, names, ok)
<1>4. v = db.factions \cup (IF ok THEN names ELSE {})
  BY AddKeysAdds
<1> HIDE DEF v
<1>5. db' = [db EXCEPT !.factions = v]
  BY <1>1 DEF v
<1>6. Shape' /\ Grows /\ Grounded
  BY <1>4, <1>5, SetFactions DEF ImportInv, FeedInv
<1>7. TablesTyped /\ DOMAIN db = Tables
  BY TablesAreTyped DEF ImportInv, FeedInv, Core, Shape
<1>8. db'.factions = v /\ TablesTyped'
  <2>1. /\ db'.factions = v /\ db'.systems = db.systems /\ db'.presences = db.presences
        /\ db'.bodies = db.bodies /\ db'.rings = db.rings /\ db'.hotspots = db.hotspots
        /\ db'.stations = db.stations
    BY <1>5, <1>7 DEF Tables
  <2>2. QED
    BY <1>2, <1>4, <1>7, <2>1 DEF TablesTyped
<1>9. ImportAdds
  BY <1>1, <1>3, <1>6, <1>8, NoListings DEF ImportAdds, SignalsAdded, Inserts
<1>10. CacheGrows
  BY <1>3, <1>4, <1>8 DEF CacheGrows, Inserts, Known
<1>11. QED
  BY <1>9, <1>10

LEMMA SystemsAdded ==
    ASSUME ImportInv, ImportSystems PROVE ImportAdds /\ CacheGrows
<1> DEFINE rows == Dict(NewestItems, SystemOf, DumpSystemCols)
<1>1. PICK ok \in BOOLEAN :
         /\ InsertValid("systems", DOMAIN rows, ok, Known("system", DOMAIN rows))
         /\ db' = [db EXCEPT !.systems = UpsertDict(db.systems, rows, SystemCols, ok)]
         /\ UNCHANGED <<listings, bodySignals>>
  BY DEF ImportSystems
<1>2. DOMAIN rows \subseteq Systems
  <2>1. DOMAIN rows = {SystemOf(p) : p \in NewestItems}
    BY DEF Dict
  <2>2. \A p \in NewestItems : p[1] \in batch
    BY DEF NewestItems
  <2>3. QED
    BY <2>1, <2>2, BatchIsItems, ItemFields DEF SystemOf
<1> HIDE DEF rows
<1>3. Inserts("systems", Known("system", DOMAIN rows), ok)
  BY <1>1, InsertValidDoes
<1> DEFINE v == UpsertDict(db.systems, rows, SystemCols, ok)
<1>4. TablesTyped /\ DOMAIN db = Tables
      /\ \A k \in DOMAIN db.systems : DOMAIN db.systems[k] = SystemCols
  BY TablesAreTyped DEF ImportInv, FeedInv, Core, Shape
<1>5. /\ Keeps(db.systems, v, SystemCols)
      /\ \A k \in DOMAIN v : DOMAIN v[k] = SystemCols
      /\ DOMAIN v \subseteq DOMAIN db.systems \cup DOMAIN rows
      /\ ok => DOMAIN rows \subseteq DOMAIN v
  BY <1>4, UpsertDictKeeps
<1> HIDE DEF v
<1>6. db' = [db EXCEPT !.systems = v]
  BY <1>1 DEF v
<1>7. Shape' /\ Grows /\ Grounded
  BY <1>5, <1>6, ReplaceSystems DEF ImportInv, FeedInv
<1>8. db'.systems = v /\ TablesTyped'
  <2>1. /\ db'.factions = db.factions /\ db'.systems = v /\ db'.presences = db.presences
        /\ db'.bodies = db.bodies /\ db'.rings = db.rings /\ db'.hotspots = db.hotspots
        /\ db'.stations = db.stations
    BY <1>4, <1>6 DEF Tables
  <2>2. QED
    BY <1>2, <1>4, <1>5, <2>1 DEF TablesTyped
<1>9. ImportAdds
  BY <1>1, <1>3, <1>7, <1>8, NoListings DEF ImportAdds, SignalsAdded, Inserts
<1>10. CacheGrows
  BY <1>3, <1>5, <1>8 DEF CacheGrows, Inserts, Known
<1>11. QED
  BY <1>9, <1>10

\* What the layers below the second have looked up: the rows of the batch.
LEMMA SystemsLookedUp ==
    ASSUME ImportInv, Known("system", {SystemOf(<<i>>) : i \in batch}) \subseteq cached,
           NEW i \in batch
    PROVE  Dump[i].system \in DOMAIN db.systems
<1>1. {SystemOf(<<j>>) : j \in batch} \subseteq DOMAIN db.systems
  BY KnownKeys DEF ImportInv, ImportTypeOK
<1>2. SystemOf(<<i>>) = Dump[i].system
  BY DEF SystemOf
<1>3. QED
  BY <1>1, <1>2

LEMMA PresencesAdded ==
    ASSUME ImportInv, ImportPresences PROVE ImportAdds /\ CacheGrows
<1> DEFINE rows == Dict(Kept(FactionPlaces(batch), NameAt), PresenceKey, DumpPresenceCols)
           names == {FactionAt(p).name : p \in FactionPlaces(batch)}
<1>1. PICK ok \in BOOLEAN :
         /\ InsertValid("presences", DOMAIN rows, ok, {})
         /\ db' = [db EXCEPT !.presences = UpsertDict(db.presences, rows, PresenceCols, ok)]
         /\ UNCHANGED <<listings, bodySignals>>
  BY DEF ImportPresences
<1>2. Inserts("presences", {}, ok)
  BY <1>1, InsertValidDoes
<1>3. /\ Known("system", {SystemOf(<<i>>) : i \in batch}) \subseteq cached
      /\ names \subseteq db.factions
  <2>1. Lookups("presences") \subseteq cached
    BY <1>2 DEF Inserts
  <2>2. Lookups("presences") = Known("system", {SystemOf(<<i>>) : i \in batch})
                                  \cup Known("faction", names)
    BY DEF Lookups
  <2> HIDE DEF names
  <2>3. QED
    BY <2>1, <2>2, KnownKeys DEF ImportInv, ImportTypeOK
<1>4. ASSUME NEW k \in DOMAIN rows
      PROVE  k \in Presence /\ k.system \in DOMAIN db.systems /\ k.faction \in db.factions
  <2>1. PICK p \in FactionPlaces(batch) : k = PresenceKey(p)
    BY DEF Dict, Kept
  <2>2. SystemOf(p) \in Systems /\ FactionAt(p).name \in Factions /\ p[1] \in batch
    BY <2>1, BatchIsItems, FactionAtPlace, FactionPlaceIs
  <2>3. SystemOf(p) \in DOMAIN db.systems /\ FactionAt(p).name \in db.factions
    BY <1>3, <2>2, SystemsLookedUp DEF SystemOf
  <2>4. QED
    BY <2>1, <2>2, <2>3 DEF PresenceKey, Presence
<1> HIDE DEF rows, names
<1> DEFINE v == UpsertDict(db.presences, rows, PresenceCols, ok)
<1>5. TablesTyped /\ DOMAIN db = Tables
      /\ \A k \in DOMAIN db.presences : DOMAIN db.presences[k] = PresenceCols
  BY TablesAreTyped DEF ImportInv, FeedInv, Core, Shape
<1>6. /\ Keeps(db.presences, v, PresenceCols)
      /\ \A k \in DOMAIN v : DOMAIN v[k] = PresenceCols
      /\ DOMAIN v \subseteq DOMAIN db.presences \cup DOMAIN rows
      /\ ok => DOMAIN rows \subseteq DOMAIN v
  BY <1>5, UpsertDictKeeps
<1> HIDE DEF v
<1>7. db' = [db EXCEPT !.presences = v]
  BY <1>1 DEF v
<1>8. Shape' /\ Grows /\ Grounded
  BY <1>4, <1>6, <1>7, ReplacePresences DEF ImportInv, FeedInv
<1>9. TablesTyped'
  <2>1. /\ db'.factions = db.factions /\ db'.systems = db.systems /\ db'.presences = v
        /\ db'.bodies = db.bodies /\ db'.rings = db.rings /\ db'.hotspots = db.hotspots
        /\ db'.stations = db.stations
    BY <1>5, <1>7 DEF Tables
  <2>2. QED
    BY <1>4, <1>5, <1>6, <2>1 DEF TablesTyped
<1>10. QED
  BY <1>1, <1>2, <1>8, <1>9, NoListings DEF ImportAdds, SignalsAdded, Inserts, CacheGrows

\* The ids that the layers of a batch bring back.
FactionIds(items) ==
    Known("faction", ({Dump[i].controlling : i \in items} \ {Null})
                        \cup {FactionAt(p).name : p \in FactionPlaces(items)})
SystemIds(items) == Known("system", {SystemOf(<<i>>) : i \in items})
BodyIds(items) == Known("body", {BodyKey(p) : p \in BodyPlaces(items)})
StationIds(items) == Known("station", {StationKeyAt(p) : p \in StationPlaces(items)})
RingIds(items) == Known("ring", {RingKey(p) : p \in RingPlaces(items)})

LEMMA BodiesLookedUp ==
    ASSUME ImportInv, BodyIds(batch) \subseteq cached, NEW p \in BodyPlaces(batch)
    PROVE  BodyKey(p) \in db.bodies
<1> DEFINE keys == {BodyKey(q) : q \in BodyPlaces(batch)}
<1>1. BodyKey(p) \in keys /\ Known("body", keys) \subseteq cached
  BY DEF BodyIds
<1> HIDE DEF keys
<1>2. keys \subseteq db.bodies
  BY <1>1, KnownKeys DEF ImportInv, ImportTypeOK
<1>3. QED
  BY <1>1, <1>2

LEMMA OwnersLookedUp ==
    ASSUME ImportInv, SystemIds(batch) \subseteq cached, BodyIds(batch) \subseteq cached,
           NEW p \in StationPlaces(batch)
    PROVE  OwnerStored(OwnerAt(p))
<1>1. /\ p[1] \in batch
      /\ p[2] = 0 \/ (p[2] # 0 /\ <<p[1], p[2]>> \in BodyPlaces(batch))
      /\ OwnerAt(p) = IF p[2] = 0 THEN SystemOwner(SystemOf(p))
                      ELSE BodyOwner(BodyKey(<<p[1], p[2]>>))
  BY BatchIsItems, StationAtPlace
<1>2. CASE p[2] = 0
  <2>1. SystemOf(p) \in DOMAIN db.systems
    BY <1>1, SystemsLookedUp DEF SystemOf, SystemIds
  <2>2. QED
    BY <1>1, <1>2, <2>1 DEF OwnerStored, SystemOwner
<1>3. CASE p[2] # 0
  <2>1. BodyKey(<<p[1], p[2]>>) \in db.bodies
    BY <1>1, <1>3, BodiesLookedUp
  <2>2. QED
    BY <1>1, <1>3, <2>1 DEF OwnerStored, BodyOwner
<1>4. QED
  BY <1>2, <1>3

LEMMA BodiesAdded ==
    ASSUME ImportInv, ImportBodies PROVE ImportAdds /\ CacheGrows
<1> DEFINE keys == {BodyKey(p) : p \in BodyPlaces(batch)}
<1>1. PICK ok \in BOOLEAN :
         /\ InsertValid("bodies", keys, ok, Known("body", keys))
         /\ db' = [db EXCEPT !.bodies = AddKeys(db.bodies, keys, ok)]
         /\ UNCHANGED <<listings, bodySignals>>
  BY DEF ImportBodies
<1>2. Inserts("bodies", Known("body", keys), ok)
  BY <1>1, InsertValidDoes
<1>3. SystemIds(batch) \subseteq cached
  BY <1>2 DEF Inserts, Lookups, SystemIds
<1>4. ASSUME NEW b \in keys PROVE b \in Body /\ b.system \in DOMAIN db.systems
  <2>1. PICK p \in BodyPlaces(batch) : b = BodyKey(p)
    OBVIOUS
  <2>2. p[1] \in batch /\ BodyKey(p) \in Body
    BY BatchIsItems, BodyAtPlace
  <2>3. Dump[p[1]].system \in DOMAIN db.systems
    BY <1>3, <2>2, SystemsLookedUp DEF SystemIds
  <2>4. QED
    BY <2>1, <2>2, <2>3 DEF BodyKey, SystemOf
<1> HIDE DEF keys
<1> DEFINE v == AddKeys(db.bodies, keys, ok)
<1>5. v = db.bodies \cup (IF ok THEN keys ELSE {})
  BY AddKeysAdds
<1> HIDE DEF v
<1>6. db' = [db EXCEPT !.bodies = v]
  BY <1>1 DEF v
<1>7. Shape' /\ Grows /\ Grounded
  BY <1>4, <1>5, <1>6, SetBodies DEF ImportInv, FeedInv
<1>8. TablesTyped /\ DOMAIN db = Tables
  BY TablesAreTyped DEF ImportInv, FeedInv, Core, Shape
<1>9. db'.bodies = v /\ TablesTyped'
  <2>1. /\ db'.factions = db.factions /\ db'.systems = db.systems
        /\ db'.presences = db.presences /\ db'.bodies = v /\ db'.rings = db.rings
        /\ db'.hotspots = db.hotspots /\ db'.stations = db.stations
    BY <1>6, <1>8 DEF Tables
  <2>2. QED
    BY <1>4, <1>5, <1>8, <2>1 DEF TablesTyped
<1>10. ImportAdds
  BY <1>1, <1>2, <1>7, <1>9, NoListings DEF ImportAdds, SignalsAdded, Inserts
<1>11. CacheGrows
  BY <1>2, <1>5, <1>9 DEF CacheGrows, Inserts, Known
<1>12. QED
  BY <1>10, <1>11

LEMMA StationsAdded ==
    ASSUME ImportInv, ImportStations PROVE ImportAdds /\ CacheGrows
<1> DEFINE rows == Dict(Kept(StationPlaces(batch), StationKeyAt), StationKeyAt,
                        DumpStationCols)
<1>1. PICK ok \in BOOLEAN :
         /\ InsertValid("stations", DOMAIN rows, ok, Known("station", DOMAIN rows))
         /\ db' = [db EXCEPT !.stations = UpsertDict(db.stations, rows, StationCols, ok)]
         /\ UNCHANGED <<listings, bodySignals>>
  BY DEF ImportStations
<1>2. ASSUME NEW k \in DOMAIN rows
      PROVE  \E p \in StationPlaces(batch) : k = StationKeyAt(p)
  BY DEF Dict, Kept
<1> HIDE DEF rows
<1>3. Inserts("stations", Known("station", DOMAIN rows), ok)
  BY <1>1, InsertValidDoes
<1>4. SystemIds(batch) \subseteq cached /\ BodyIds(batch) \subseteq cached
  BY <1>3 DEF Inserts, Lookups, SystemIds, BodyIds
<1>5. ASSUME NEW k \in DOMAIN rows
      PROVE  k \in StationKey /\ IsStationKey(k) /\ OwnerStored(k.owner)
  <2>1. PICK p \in StationPlaces(batch) : k = StationKeyAt(p)
    BY <1>2
  <2>2. StationKeyAt(p) \in StationKey /\ OwnerStored(OwnerAt(p))
    BY <1>4, BatchIsItems, StationAtPlace, OwnersLookedUp
  <2>3. StationKeyAt(p).owner = OwnerAt(p) /\ IsStationKey(StationKeyAt(p))
    BY DEF StationKeyAt, IsStationKey
  <2>4. QED
    BY <2>1, <2>2, <2>3
<1> DEFINE v == UpsertDict(db.stations, rows, StationCols, ok)
<1>6. TablesTyped /\ DOMAIN db = Tables
      /\ \A k \in DOMAIN db.stations : DOMAIN db.stations[k] = StationCols
  BY TablesAreTyped DEF ImportInv, FeedInv, Core, Shape
<1>7. /\ Keeps(db.stations, v, StationCols)
      /\ \A k \in DOMAIN v : DOMAIN v[k] = StationCols
      /\ DOMAIN v \subseteq DOMAIN db.stations \cup DOMAIN rows
      /\ ok => DOMAIN rows \subseteq DOMAIN v
  BY <1>6, UpsertDictKeeps
<1> HIDE DEF v
<1>8. db' = [db EXCEPT !.stations = v]
  BY <1>1 DEF v
<1>9. Shape' /\ Grows /\ Grounded
  <2>1. \A k \in DOMAIN v \ DOMAIN db.stations : IsStationKey(k) /\ OwnerStored(k.owner)
    BY <1>5, <1>7
  <2>2. QED
    BY <1>7, <1>8, <2>1, ReplaceStations DEF ImportInv, FeedInv
<1>10. db'.stations = v /\ TablesTyped'
  <2>1. /\ db'.factions = db.factions /\ db'.systems = db.systems
        /\ db'.presences = db.presences /\ db'.bodies = db.bodies /\ db'.rings = db.rings
        /\ db'.hotspots = db.hotspots /\ db'.stations = v
    BY <1>6, <1>8 DEF Tables
  <2>2. QED
    BY <1>5, <1>6, <1>7, <2>1 DEF TablesTyped
<1>11. ImportAdds
  BY <1>1, <1>3, <1>9, <1>10, NoListings DEF ImportAdds, SignalsAdded, Inserts
<1>12. CacheGrows
  BY <1>3, <1>7, <1>10 DEF CacheGrows, Inserts, Known
<1>13. QED
  BY <1>11, <1>12

LEMMA BodySignalsAdded ==
    ASSUME ImportInv, ImportSignals PROVE ImportAdds /\ CacheGrows
<1>1. PICK ok \in BOOLEAN :
         /\ InsertValid("signals", DumpSignals(batch), ok, {})
         /\ bodySignals' = AddKeys(bodySignals, DumpSignals(batch), ok)
         /\ UNCHANGED <<db, listings>>
  BY DEF ImportSignals
<1>2. Inserts("signals", {}, ok)
  BY <1>1, InsertValidDoes
<1>3. BodyIds(batch) \subseteq cached
  BY <1>2 DEF Inserts, Lookups, BodyIds
<1>4. ASSUME NEW s \in DumpSignals(batch) PROVE s.body \in db.bodies
  <2>1. PICK p \in BodyPlaces(batch) : s.body = BodyKey(p)
    BY DEF DumpSignals, Kept
  <2>2. QED
    BY <1>3, <2>1, BodiesLookedUp
<1>5. SignalsAdded
  BY <1>1, <1>4, AddKeysAdds DEF SignalsAdded
<1>6. Shape' /\ Grows /\ Grounded
  BY <1>1, NoCommit DEF ImportInv, FeedInv
<1>7. TablesTyped'
  BY <1>1, TablesAreTyped DEF ImportInv, TablesTyped
<1>8. QED
  BY <1>1, <1>2, <1>5, <1>6, <1>7, NoListings DEF ImportAdds, Inserts, CacheGrows

LEMMA RingsAdded ==
    ASSUME ImportInv, ImportRings PROVE ImportAdds /\ CacheGrows
<1> DEFINE keys == {RingKey(p) : p \in RingPlaces(batch)}
<1>1. PICK ok \in BOOLEAN :
         /\ InsertValid("rings", keys, ok, Known("ring", keys))
         /\ db' = [db EXCEPT !.rings = AddKeys(db.rings, keys, ok)]
         /\ UNCHANGED <<listings, bodySignals>>
  BY DEF ImportRings
<1>2. Inserts("rings", Known("ring", keys), ok)
  BY <1>1, InsertValidDoes
<1>3. BodyIds(batch) \subseteq cached
  BY <1>2 DEF Inserts, Lookups, BodyIds
<1>4. ASSUME NEW r \in keys PROVE r \in Ring /\ r.body \in db.bodies
  <2>1. PICK p \in RingPlaces(batch) : r = RingKey(p)
    OBVIOUS
  <2>2. /\ <<p[1], p[2]>> \in BodyPlaces(batch) /\ RingKey(p) \in Ring
        /\ BodyKey(p) = BodyKey(<<p[1], p[2]>>)
    BY BatchIsItems, RingAtPlace
  <2>3. BodyKey(<<p[1], p[2]>>) \in db.bodies
    BY <1>3, <2>2, BodiesLookedUp
  <2>4. QED
    BY <2>1, <2>2, <2>3 DEF RingKey
<1> HIDE DEF keys
<1> DEFINE v == AddKeys(db.rings, keys, ok)
<1>5. v = db.rings \cup (IF ok THEN keys ELSE {})
  BY AddKeysAdds
<1> HIDE DEF v
<1>6. db' = [db EXCEPT !.rings = v]
  BY <1>1 DEF v
<1>7. Shape' /\ Grows /\ Grounded
  BY <1>4, <1>5, <1>6, SetRings DEF ImportInv, FeedInv
<1>8. TablesTyped /\ DOMAIN db = Tables
  BY TablesAreTyped DEF ImportInv, FeedInv, Core, Shape
<1>9. db'.rings = v /\ TablesTyped'
  <2>1. /\ db'.factions = db.factions /\ db'.systems = db.systems
        /\ db'.presences = db.presences /\ db'.bodies = db.bodies /\ db'.rings = v
        /\ db'.hotspots = db.hotspots /\ db'.stations = db.stations
    BY <1>6, <1>8 DEF Tables
  <2>2. QED
    BY <1>4, <1>5, <1>8, <2>1 DEF TablesTyped
<1>10. ImportAdds
  BY <1>1, <1>2, <1>7, <1>9, NoListings DEF ImportAdds, SignalsAdded, Inserts
<1>11. CacheGrows
  BY <1>2, <1>5, <1>9 DEF CacheGrows, Inserts, Known
<1>12. QED
  BY <1>10, <1>11

LEMMA MarketAdded ==
    ASSUME ImportInv, ImportMarket PROVE ImportAdds /\ CacheGrows
<1> DEFINE rows == Dict(Kept(ListingPlaces(batch), ListingKeyAt), ListingKeyAt,
                        DumpListingCols)
           valid == \A k \in DOMAIN rows : k.commodity \in Commodities
           stations == {StationKeyAt(p) : p \in MarketPlaces(batch)}
<1>1. PICK ok \in BOOLEAN :
         /\ Insert("market", DOMAIN rows, ok, valid, {})
         /\ listings' = UpsertDict(listings, rows, ListingCols, ok /\ valid)
         /\ UNCHANGED <<db, bodySignals>>
  BY DEF ImportMarket
<1>2. ASSUME NEW k \in DOMAIN rows
      PROVE  \E p \in ListingPlaces(batch) : k = ListingKeyAt(p)
  BY DEF Dict, Kept
<1>3. valid \in BOOLEAN /\ (valid => \A k \in DOMAIN rows : k.commodity \in Commodities)
  OBVIOUS
<1> HIDE DEF rows, valid
<1>4. Inserts("market", {}, ok /\ valid)
  BY <1>1, <1>3, InsertDoes
<1>5. stations \subseteq DOMAIN db.stations
  <2>1. Known("station", stations) \subseteq cached
    BY <1>4 DEF Inserts, Lookups
  <2> HIDE DEF stations
  <2>2. QED
    BY <2>1, KnownKeys DEF ImportInv, ImportTypeOK
<1>6. ASSUME NEW k \in DOMAIN rows PROVE k.station \in DOMAIN db.stations
  <2>1. PICK p \in ListingPlaces(batch) : k = ListingKeyAt(p)
    BY <1>2
  <2>2. <<p[1], p[2], p[3]>> \in MarketPlaces(batch)
        /\ StationKeyAt(p) = StationKeyAt(<<p[1], p[2], p[3]>>)
    BY BatchIsItems, ListingAtPlace
  <2>3. k.station = StationKeyAt(p)
    BY <2>1 DEF ListingKeyAt
  <2>4. QED
    BY <1>5, <2>2, <2>3
<1>7. \A k \in DOMAIN listings : DOMAIN listings[k] = ListingCols
  BY DEF ImportInv, FeedInv, ListingShape
<1>8. /\ Keeps(listings, listings', ListingCols)
      /\ \A k \in DOMAIN listings' : DOMAIN listings'[k] = ListingCols
      /\ DOMAIN listings' \subseteq DOMAIN listings \cup DOMAIN rows
  BY <1>1, <1>7, UpsertDictKeeps
<1>9. (ok /\ valid) \/ listings' = listings
  BY <1>1 DEF UpsertDict
<1>10. ListingsAdded
  BY <1>3, <1>6, <1>8, <1>9 DEF ListingsAdded, ListingShape
<1>11. Shape' /\ Grows /\ Grounded
  BY <1>1, NoCommit DEF ImportInv, FeedInv
<1>12. TablesTyped'
  BY <1>1, TablesAreTyped DEF ImportInv, TablesTyped
<1>13. QED
  BY <1>1, <1>4, <1>10, <1>11, <1>12 DEF ImportAdds, Inserts, CacheGrows, SignalsAdded

LEMMA OutfittingAdded ==
    ASSUME ImportInv, PassOutfitting PROVE ImportAdds /\ CacheGrows
<1>1. InsertValid("outfitting", {}, TRUE, {}) /\ UNCHANGED <<db, listings, bodySignals>>
  BY DEF PassOutfitting
<1>2. Inserts("outfitting", {}, TRUE)
  BY <1>1, InsertValidDoes
<1>3. Shape' /\ Grows /\ Grounded
  BY <1>1, NoCommit DEF ImportInv, FeedInv
<1>4. TablesTyped'
  BY <1>1, TablesAreTyped DEF ImportInv, TablesTyped
<1>5. QED
  BY <1>1, <1>2, <1>3, <1>4, NoListings DEF ImportAdds, Inserts, CacheGrows, SignalsAdded

LEMMA HotspotsAdded ==
    ASSUME ImportInv, ImportHotspots PROVE ImportAdds /\ CacheGrows
<1> DEFINE new == DumpHotspots(batch)
           valid == \A h \in new : h.commodity \in Commodities
           places == {p \in RingPlaces(batch) : RingAt(p).signals # Null}
           rings == {RingKey(p) : p \in places}
<1>1. PICK ok \in BOOLEAN :
         /\ Insert("hotspots", new, ok, valid, {})
         /\ db' = [db EXCEPT !.hotspots = AddKeys(db.hotspots, new, ok /\ valid)]
         /\ UNCHANGED <<listings, bodySignals>>
  BY DEF ImportHotspots
<1>2. valid \in BOOLEAN /\ (valid => \A h \in new : h.commodity \in Commodities)
  OBVIOUS
<1>3. ASSUME NEW h \in new
      PROVE  /\ h = [ring |-> h.ring, commodity |-> h.commodity]
             /\ \E p \in places : h.ring = RingKey(p)
  BY DEF DumpHotspots, Kept
<1> HIDE DEF new, valid
<1>4. Inserts("hotspots", {}, ok /\ valid)
  BY <1>1, <1>2, InsertDoes
<1>5. rings \subseteq db.rings
  <2>1. Known("ring", rings) \subseteq cached
    BY <1>4 DEF Inserts, Lookups
  <2> HIDE DEF rings
  <2>2. QED
    BY <2>1, KnownKeys DEF ImportInv, ImportTypeOK
<1>6. ASSUME NEW h \in new PROVE h.ring \in db.rings /\ h.ring \in Ring
  <2>1. PICK p \in places : h.ring = RingKey(p)
    BY <1>3
  <2>2. QED
    BY <1>5, <2>1, BatchIsItems, RingAtPlace
<1> DEFINE v == AddKeys(db.hotspots, new, ok /\ valid)
<1>7. v = db.hotspots \cup (IF ok /\ valid THEN new ELSE {})
  BY DEF AddKeys
<1> HIDE DEF v, rings, places
<1>8. db' = [db EXCEPT !.hotspots = v]
  BY <1>1 DEF v
<1>9. Shape' /\ Grows /\ Grounded
  BY <1>6, <1>7, <1>8, SetHotspots DEF ImportInv, FeedInv
<1>10. TablesTyped /\ DOMAIN db = Tables
  BY TablesAreTyped DEF ImportInv, FeedInv, Core, Shape
<1>11. TablesTyped'
  <2>1. /\ db'.factions = db.factions /\ db'.systems = db.systems
        /\ db'.presences = db.presences /\ db'.bodies = db.bodies /\ db'.rings = db.rings
        /\ db'.hotspots = v /\ db'.stations = db.stations
    BY <1>8, <1>10 DEF Tables
  <2>2. v \subseteq [ring : Ring, commodity : Commodities]
    <3>1. \A h \in new : valid => h \in [ring : Ring, commodity : Commodities]
      BY <1>2, <1>3, <1>6
    <3>2. QED
      BY <1>7, <1>10, <3>1 DEF TablesTyped
  <2>3. QED
    BY <1>10, <2>1, <2>2 DEF TablesTyped
<1>12. QED
  BY <1>1, <1>4, <1>9, <1>11, NoListings DEF ImportAdds, Inserts, CacheGrows, SignalsAdded

-----------------------------------------------------------------------------
(***************************************************************************)
(* The listener's invariants bear another process that only adds, and the  *)
(* import's bear the listener.                                             *)
(***************************************************************************)
LEMMA OthersAdd ==
    ASSUME Core, Shape', Grows, UNCHANGED <<msg, todo, known, owner, view>>
    PROVE  Core'
<1>1. \A o : OwnerStored(o) => OwnerStored(o)'
  BY DEF Grows, Keeps, OwnerStored
<1>2. Progress'
  <2>1. DOMAIN db.systems \subseteq DOMAIN db'.systems
    BY DEF Grows, Keeps
  <2>2. OwnerStored(owner) => OwnerStored(owner)'
    BY DEF Grows, Keeps, OwnerStored
  <2>3. QED
    BY <2>1, <2>2 DEF Core, Progress
<1>3. Mapped'
  BY DEF Core, Mapped, Grows
<1>4. ViewStored'
  <2>1. ASSUME NEW r \in view'
        PROVE  /\ [name |-> r.name, owner |-> r.owner] \in DOMAIN db'.stations
               /\ OwnerStored(r.owner)'
               /\ r.system = SystemIn(r.owner)
    <3>1. /\ [name |-> r.name, owner |-> r.owner] \in DOMAIN db.stations
          /\ OwnerStored(r.owner) /\ r.system = SystemIn(r.owner)
      BY <2>1 DEF Core, ViewStored
    <3>2. QED
      BY <3>1 DEF Grows, Keeps, OwnerStored
  <2>2. QED
    BY <2>1 DEF ViewStored
<1>5. QED
  BY <1>2, <1>3, <1>4 DEF Core

LEMMA AddsKeepFeed ==
    ASSUME ImportInv, ImportAdds PROVE FeedInv' /\ Typed' /\ FeedHand' /\ FeedTypeOK'
<1>1. Core'
  BY OthersAdd DEF ImportInv, FeedInv, ImportAdds, ListenerRests
<1>2. StationInHand'
  <2>1. DOMAIN db.stations \subseteq DOMAIN db'.stations
    BY DEF ImportAdds, Grows, Keeps
  <2>2. at' = at /\ station' = station
    BY DEF ImportAdds, ListenerRests
  <2>3. QED
    BY <2>1, <2>2 DEF ImportInv, FeedInv, StationInHand, StoredKey
<1>3. FeedInv'
  BY <1>1, <1>2 DEF FeedInv, ImportAdds, ListingsAdded
<1>4. Typed'
  BY DEF ImportInv, Typed, JournalTypeOK, InHand, Resolved, ImportAdds, ListenerRests,
     TablesTyped
<1>5. FeedHand'
  BY DEF ImportInv, FeedHand, ImportAdds, ListenerRests, SystemIn
<1>6. FeedTypeOK'
  <2>1. ASSUME NEW k \in DOMAIN listings'
        PROVE  k.station \in StationKey /\ k.commodity \in Commodities
    <3>1. CASE k \in DOMAIN listings
      BY <3>1 DEF ImportInv, ImportTypeOK, FeedTypeOK
    <3>2. CASE k \notin DOMAIN listings
      BY <3>2, TablesAreTyped DEF ImportInv, ImportAdds, ListingsAdded, TablesTyped
    <3>3. QED
      BY <3>1, <3>2
  <2>2. QED
    BY <2>1 DEF ImportInv, ImportTypeOK, FeedTypeOK, ImportAdds, ListenerRests
<1>7. QED
  BY <1>3, <1>4, <1>5, <1>6

LEMMA NewListings ==
    ASSUME ImportInv, ImportAdds, NEW f \in AllFacts', f \notin AllFacts, f \notin Facts'
    PROVE  AllNeeds(f) \subseteq AllFacts
<1>1. states' = states /\ signals' = signals
  BY DEF ImportAdds, ListenerRests
<1>2. /\ \A k \in DOMAIN listings : DOMAIN listings[k] = ListingCols
      /\ \A k \in DOMAIN listings' : DOMAIN listings'[k] = ListingCols
  BY DEF ImportInv, FeedInv, ImportAdds, ListingsAdded, ListingShape
<1>3. CASE \E k \in DOMAIN listings' : f = Fact("listing", k)
  <2>1. PICK k \in DOMAIN listings' : f = Fact("listing", k)
    BY <1>3
  <2>2. k \notin DOMAIN listings
    BY <2>1 DEF AllFacts
  <2>3. k.station \in DOMAIN db.stations
    BY <2>2 DEF ImportAdds, ListingsAdded
  <2>4. AllNeeds(f) = {Fact("station", k.station)}
    BY <2>1 DEF AllNeeds, Fact
  <2>5. QED
    BY <2>3, <2>4 DEF AllFacts, Facts
<1>4. CASE f \in Columns("listingColumn", listings')
  <2>1. f.kind = "listingColumn"
    BY <1>4 DEF Columns, Fact
  <2>2. AllNeeds(f) = {}
    BY <2>1 DEF AllNeeds, FactNeeds
  <2>3. QED
    BY <2>2
<1>5. QED
  BY <1>1, <1>3, <1>4 DEF AllFacts

LEMMA AddsLearn ==
    ASSUME ImportInv, ImportAdds
    PROVE  /\ AllFacts \subseteq AllFacts'
           /\ \A f \in AllFacts' \ AllFacts : AllNeeds(f) \subseteq AllFacts
<1>1. Facts \subseteq Facts' /\ \A f \in Facts' \ Facts : FactNeeds(f) \subseteq Facts
  BY FactsGrow, NewFactsAreGrounded DEF ImportInv, FeedInv, ImportAdds
<1>2. Columns("listingColumn", listings) \subseteq Columns("listingColumn", listings')
  BY ColumnsGrow DEF ImportInv, FeedInv, ListingShape, ImportAdds, ListingsAdded
<1>3. AllFacts \subseteq AllFacts'
  BY <1>1, <1>2 DEF AllFacts, ImportAdds, ListingsAdded, ListenerRests, Keeps
<1>4. ASSUME NEW f \in AllFacts', f \notin AllFacts PROVE AllNeeds(f) \subseteq AllFacts
  <2>1. CASE f \in Facts'
    <3>1. f \notin Facts
      BY <1>4 DEF AllFacts
    <3>2. f.kind \notin {"listing", "state", "signal"}
      BY <2>1 DEF Facts, Columns, Fact
    <3>3. AllNeeds(f) = FactNeeds(f)
      BY <3>2 DEF AllNeeds
    <3>4. QED
      BY <1>1, <2>1, <3>1, <3>3 DEF AllFacts
  <2>2. CASE f \notin Facts'
    BY <1>4, <2>2, NewListings
  <2>3. QED
    BY <2>1, <2>2
<1>5. QED
  BY <1>3, <1>4

LEMMA WorldLearns ==
    ASSUME AllFacts \subseteq AllFacts',
           \A f \in AllFacts' \ AllFacts : AllNeeds(f) \subseteq AllFacts,
           SignalsAdded
    PROVE  World!Learn
<1>1. WorldFacts \subseteq WorldFacts'
  BY DEF WorldFacts, SignalsAdded
<1>2. ASSUME NEW f \in WorldFacts', f \notin WorldFacts PROVE WorldNeeds(f) \subseteq WorldFacts
  <2>1. CASE f \in AllFacts'
    <3>1. f.kind # "bodySignal"
      BY <2>1 DEF AllFacts, Facts, Columns, Fact
    <3>2. f \notin AllFacts
      BY <1>2 DEF WorldFacts
    <3>3. WorldNeeds(f) = AllNeeds(f)
      BY <3>1 DEF WorldNeeds
    <3>4. QED
      BY <2>1, <3>2, <3>3 DEF WorldFacts
  <2>2. CASE f \notin AllFacts'
    <3>1. PICK s \in bodySignals' : f = Fact("bodySignal", s)
      BY <1>2, <2>2 DEF WorldFacts
    <3>2. s \notin bodySignals
      BY <1>2, <3>1 DEF WorldFacts
    <3>3. s.body \in db.bodies
      BY <3>1, <3>2 DEF SignalsAdded
    <3>4. WorldNeeds(f) = {Fact("body", s.body)}
      BY <3>1 DEF WorldNeeds, Fact
    <3>5. QED
      BY <3>3, <3>4 DEF WorldFacts, AllFacts, Facts
  <2>3. QED
    BY <2>1, <2>2
<1>3. QED
  BY <1>1, <1>2 DEF World!Learn

LEMMA CacheStaysStored ==
    ASSUME cached \subseteq WorldFacts, WorldFacts \subseteq WorldFacts', CacheGrows
    PROVE  cached' \subseteq WorldFacts'
BY StoredFactsNext DEF CacheGrows, FactsAreRows, Known

\* A layer has done its statement.
InsertStep ==
    \/ ImportFactions \/ ImportSystems \/ ImportPresences \/ ImportBodies
    \/ ImportStations \/ ImportSignals \/ ImportRings \/ ImportMarket
    \/ PassOutfitting \/ ImportHotspots

LEMMA InsertStepAdds ==
    ASSUME ImportInv, InsertStep PROVE ImportAdds /\ CacheGrows
BY FactionsAdded, SystemsAdded, PresencesAdded, BodiesAdded, StationsAdded,
   BodySignalsAdded, RingsAdded, MarketAdded, OutfittingAdded, HotspotsAdded DEF InsertStep

LEMMA InsertStepMoves ==
    ASSUME ImportInv, InsertStep
    PROVE  /\ import = "running" /\ layer \in 1..10
           /\ layer' = IF layer = 10 THEN 0 ELSE layer + 1
           /\ flawless' \in BOOLEAN
           /\ UNCHANGED <<import, imports, first, idx, pending, batch>>
<1>1. PICK l, rows, ids : \E dbOk, valid \in BOOLEAN : Insert(l, rows, dbOk, valid, ids)
  <2>1. \A l, rows, ids : \A ok \in BOOLEAN :
           InsertValid(l, rows, ok, ids) => \E dbOk, valid \in BOOLEAN :
                                               Insert(l, rows, dbOk, valid, ids)
    BY DEF InsertValid
  <2>2. CASE ImportFactions
    BY <2>1, <2>2 DEF ImportFactions
  <2>3. CASE ImportSystems
    BY <2>1, <2>3 DEF ImportSystems
  <2>4. CASE ImportPresences
    BY <2>1, <2>4 DEF ImportPresences
  <2>5. CASE ImportBodies
    BY <2>1, <2>5 DEF ImportBodies
  <2>6. CASE ImportStations
    BY <2>1, <2>6 DEF ImportStations
  <2>7. CASE ImportSignals
    BY <2>1, <2>7 DEF ImportSignals
  <2>8. CASE ImportRings
    BY <2>1, <2>8 DEF ImportRings
  <2>9. CASE ImportMarket
    BY <2>9 DEF ImportMarket
  <2>10. CASE PassOutfitting
    BY <2>1, <2>10 DEF PassOutfitting
  <2>11. CASE ImportHotspots
    BY <2>11 DEF ImportHotspots
  <2>12. QED
    BY <2>2, <2>3, <2>4, <2>5, <2>6, <2>7, <2>8, <2>9, <2>10, <2>11 DEF InsertStep
<1>2. PICK dbOk \in BOOLEAN, valid \in BOOLEAN : Insert(l, rows, dbOk, valid, ids)
  BY <1>1
<1>3. Inserts(l, ids, dbOk /\ valid)
  BY <1>2, InsertDoes
<1>4. QED
  BY <1>3 DEF Inserts, ImportInv, ImportTypeOK

\* The other steps of the import touch no table.
LEMMA TablesRest ==
    ASSUME ImportInv, UNCHANGED <<vars, feedVars, bodySignals>>
    PROVE  /\ FeedInv' /\ Typed' /\ FeedHand' /\ FeedTypeOK'
           /\ WorldFacts' = WorldFacts
<1>1. UNCHANGED allVars
  BY DEF allVars
<1>2. FeedInv'
  BY <1>1, FeedNextInv DEF ImportInv
<1>3. Typed' /\ FeedTyped'
  BY <1>1, JournalStaysTyped, FeedTypedStep, TablesAreTyped
     DEF ImportInv, FeedInv, FeedTyped, ImportTypeOK
<1>4. WorldFacts' = WorldFacts
  BY DEF WorldFacts, AllFacts, Facts, vars, feedVars
<1>5. QED
  BY <1>2, <1>3, <1>4 DEF FeedTyped

LEMMA ItemsOfDump ==
    /\ Len(Dump) \in Nat /\ Items \subseteq 1..Len(Dump)
    /\ \A i \in Items : Dump[i] # Null
BY SpanshAssumption DEF Items

\* The import reads, starts, ends: no table and no id changes but by a start.
QuietStep ==
    \/ StartImport \/ SkipItem \/ ReadItem \/ FlushRest \/ FinishImport
    \/ LookupRaises \/ ImportKilled

LEMMA QuietKeepsInv == ASSUME ImportInv, QuietStep PROVE ImportInv'
<1> USE DEF ImportInv, ImportTypeOK
<1>1. UNCHANGED <<vars, feedVars, bodySignals>>
  BY DEF QuietStep, StartImport, SkipItem, ReadItem, FlushRest, FinishImport,
     LookupRaises, ImportKilled
<1>2. FeedInv' /\ Typed' /\ FeedHand' /\ FeedTypeOK' /\ WorldFacts' = WorldFacts
  BY <1>1, TablesRest
<1>3. \A s \in bodySignals' : s.body \in Body
  BY <1>1
<1>4. Len(Dump) \in Nat /\ Len(Layers) = 10 /\ MaxImports \in Nat
  BY LayersAre, ItemsOfDump, SpanshAssumption
<1>5. CASE StartImport
  BY <1>2, <1>3, <1>4, <1>5 DEF StartImport
<1>6. CASE SkipItem
  BY <1>2, <1>3, <1>4, <1>6 DEF SkipItem
<1>7. CASE ReadItem
  <2>1. idx + 1 \in Items /\ idx' = idx + 1 /\ idx' \in 0..Len(Dump)
    BY <1>4, <1>7 DEF ReadItem, Items
  <2>2. /\ UNCHANGED <<import, imports, first, cached, flawless>>
        /\ layer' \in 0..10
        /\ pending' \subseteq pending \cup {idx + 1}
        /\ batch' = batch \/ batch' = pending \cup {idx + 1}
    BY <1>4, <1>7 DEF ReadItem, Flush
  <2>3. pending' \subseteq Items /\ batch' \subseteq Items
    BY <2>1, <2>2 DEF Items
  <2>4. pending' \subseteq 1..Len(Dump)
    BY <2>3, ItemsOfDump
  <2>5. QED
    BY <1>2, <1>3, <1>4, <2>1, <2>2, <2>3, <2>4 DEF Items
<1>8. CASE FlushRest
  BY <1>2, <1>3, <1>4, <1>8 DEF FlushRest, Items
<1>9. CASE FinishImport
  BY <1>2, <1>3, <1>4, <1>9 DEF FinishImport
<1>10. CASE LookupRaises \/ ImportKilled
  <2>1. /\ import' \in {"raised", "killed"} /\ layer' = 0
        /\ UNCHANGED <<imports, first, idx, pending, batch, cached, flawless>>
    BY <1>10 DEF LookupRaises, ImportKilled
  <2>2. QED
    BY <1>2, <1>3, <1>4, <2>1
<1>11. QED
  BY <1>5, <1>6, <1>7, <1>8, <1>9, <1>10 DEF QuietStep

LEMMA InsertKeepsInv ==
    ASSUME ImportInv, InsertStep PROVE ImportInv' /\ World!Learn
<1>1. ImportAdds /\ CacheGrows
  BY InsertStepAdds
<1>2. World!Learn
  BY <1>1, AddsLearn, WorldLearns DEF ImportAdds
<1>3. FeedInv' /\ Typed' /\ FeedHand' /\ FeedTypeOK'
  BY <1>1, AddsKeepFeed
<1>4. cached' \subseteq WorldFacts'
  BY <1>1, <1>2, CacheStaysStored DEF ImportInv, ImportTypeOK, World!Learn
<1>5. \A s \in bodySignals' : s.body \in Body
  BY <1>1, TablesAreTyped DEF ImportInv, ImportTypeOK, ImportAdds, SignalsAdded, TablesTyped
<1>6. /\ layer \in 1..10 /\ layer' = (IF layer = 10 THEN 0 ELSE layer + 1)
      /\ flawless' \in BOOLEAN
      /\ UNCHANGED <<import, imports, first, idx, pending, batch>>
  BY InsertStepMoves
<1>7. layer' \in 0..Len(Layers)
  BY <1>6, LayersAre
<1>8. QED
  BY <1>2, <1>3, <1>4, <1>5, <1>6, <1>7 DEF ImportInv, ImportTypeOK

LEMMA FeedKeepsInv ==
    ASSUME ImportInv, [FeedNext]_allVars, UNCHANGED importVars
    PROVE  ImportInv' /\ [World!Learn]_WorldFacts
<1>1. FeedInv' /\ Typed' /\ FeedTyped'
  BY FeedNextInv, JournalStaysTyped, FeedTypedStep, TablesAreTyped
     DEF ImportInv, FeedInv, FeedTyped, ImportTypeOK
<1>2. [AllKB!Learn]_AllFacts
  BY FeedStepLearns DEF ImportInv
<1>3. /\ AllFacts \subseteq AllFacts'
      /\ \A f \in AllFacts' \ AllFacts : AllNeeds(f) \subseteq AllFacts
  BY <1>2 DEF AllKB!Learn
<1>4. World!Learn
  BY <1>3, WorldLearns DEF SignalsAdded, importVars
<1>5. cached' \subseteq WorldFacts'
  BY <1>4 DEF ImportInv, ImportTypeOK, World!Learn, importVars
<1>6. QED
  BY <1>1, <1>4, <1>5 DEF ImportInv, ImportTypeOK, FeedTyped, importVars

LEMMA ImportInitInv == ImportInit => ImportInv
<1> SUFFICES ASSUME ImportInit PROVE ImportInv
  OBVIOUS
<1>1. FeedInv /\ Typed /\ FeedTyped
  BY FeedInitInv, InitTyped, FeedInitTyped DEF ImportInit, FeedInit
<1>2. Len(Dump) \in Nat /\ Len(Layers) = 10 /\ MaxImports \in Nat
  BY LayersAre, ItemsOfDump, SpanshAssumption
<1>3. QED
  BY <1>1, <1>2 DEF ImportInit, ImportInv, ImportTypeOK, FeedTyped

LEMMA ImportStepInv ==
    ASSUME ImportInv, [ImportNext]_worldVars PROVE ImportInv' /\ [World!Learn]_WorldFacts
<1>1. CASE (FeedNext /\ UNCHANGED importVars) \/ UNCHANGED worldVars
  <2>1. [FeedNext]_allVars /\ UNCHANGED importVars
    BY <1>1 DEF worldVars, allVars
  <2>2. QED
    BY <2>1, FeedKeepsInv
<1>2. CASE InsertStep
  BY <1>2, InsertKeepsInv
<1>3. CASE QuietStep
  <2>1. UNCHANGED <<vars, feedVars, bodySignals>>
    BY <1>3 DEF QuietStep, StartImport, SkipItem, ReadItem, FlushRest, FinishImport,
       LookupRaises, ImportKilled
  <2>2. QED
    BY <1>3, <2>1, QuietKeepsInv, TablesRest
<1>4. QED
  BY <1>1, <1>2, <1>3 DEF ImportNext, InsertSystems, InsertStep, QuietStep

LEMMA ImportInvAlways == ImportSpec => []ImportInv
<1>1. ImportInv /\ [ImportNext]_worldVars => ImportInv'
  BY ImportStepInv
<1>2. QED
  BY <1>1, ImportInitInv, PTL DEF ImportSpec, worldVars

(***************************************************************************)
(* Types of the import, spansh/pipeline.py: and what it knows by id is     *)
(* stored, whichever statement failed and whatever the listener does.      *)
(***************************************************************************)
THEOREM ImportTypeCorrect == ImportSpec => []ImportTypeOK
<1>1. ImportInv => ImportTypeOK
  BY DEF ImportInv
<1>2. QED
  BY <1>1, ImportInvAlways, PTL

(***************************************************************************)
(* Listener and import implement the knowledge base: for every dump and    *)
(* every size of its batches, wherever the import is refused, raises, is   *)
(* killed or is started again, and whatever the listener stores meanwhile. *)
(***************************************************************************)
THEOREM ImportLearnsInOrderCorrect == ImportSpec => ImportLearnsInOrder
<1>1. ImportInit => World!KBInit
  BY DEF ImportInit, FeedInit, Init, World!KBInit, WorldFacts, AllFacts, Facts, Columns, Empty
<1>2. ImportInv /\ [ImportNext]_worldVars => [World!Learn]_WorldFacts
  BY ImportStepInv
<1>3. QED
  BY <1>1, <1>2, ImportInvAlways, PTL
     DEF ImportSpec, ImportLearnsInOrder, World!KBSpec, worldVars

-----------------------------------------------------------------------------
(* No key is lost between the places of a batch and the rows of a dict. *)

LEMMA KeptStation ==
    ASSUME NEW items \in SUBSET Items, NEW p \in StationPlaces(items)
    PROVE  \E q \in Kept(StationPlaces(items), StationKeyAt) :
              StationKeyAt(q) = StationKeyAt(p)
<1> DEFINE T == {q \in StationPlaces(items) : StationKeyAt(q) = StationKeyAt(p)}
<1>1. \A q \in T : /\ q \in StationPlaces(items)
                   /\ q = <<q[1], q[2], q[3]>> /\ q[1] \in items
                   /\ q[2] \in 0..Len(Dump[q[1]].bodies) /\ Len(Dump[q[1]].bodies) \in Nat
                   /\ q[3] \in 1..Len(StationsAt(q)) /\ Len(StationsAt(q)) \in Nat
  BY StationAtPlace
<1>2. \A q \in T : q = <<q[1], q[2], q[3]>> /\ q[1] \in 0..Len(Dump)
  BY <1>1, ItemsOfDump
<1>3. T # {}
  OBVIOUS
<1>4. \A q \in T : \A r \in StationPlaces(items) : StationKeyAt(r) = StationKeyAt(q) => r \in T
  OBVIOUS
<1> HIDE DEF T
<1>5. ASSUME NEW i PROVE \E k \in Nat : \A q \in T : q[1] = i => q[2] \in 0..k
  <2>1. CASE \E q \in T : q[1] = i
    <3>1. Len(Dump[i].bodies) \in Nat
          /\ \A q \in T : q[1] = i => q[2] \in 0..Len(Dump[i].bodies)
      BY <1>1, <2>1
    <3>2. QED
      BY <3>1
  <2>2. CASE ~ \E q \in T : q[1] = i
    <3>1. \A q \in T : q[1] = i => q[2] \in 0..0
      BY <2>2
    <3>2. QED
      BY <3>1
  <2>3. QED
    BY <2>1, <2>2
<1>6. ASSUME NEW i, NEW j
      PROVE  \E k \in Nat : \A q \in T : q[1] = i /\ q[2] = j => q[3] \in 0..k
  <2> DEFINE s == StationsAt(<<i, j>>)
  <2>1. \A q \in T : q[1] = i /\ q[2] = j => StationsAt(q) = s
    BY DEF StationsAt, BodyAt
  <2> HIDE DEF s
  <2>2. CASE \E q \in T : q[1] = i /\ q[2] = j
    <3>1. Len(s) \in Nat /\ \A q \in T : q[1] = i /\ q[2] = j => q[3] \in 0..Len(s)
      BY <1>1, <2>1, <2>2
    <3>2. QED
      BY <3>1
  <2>3. CASE ~ \E q \in T : q[1] = i /\ q[2] = j
    <3>1. \A q \in T : q[1] = i /\ q[2] = j => q[3] \in 0..0
      BY <2>3
    <3>2. QED
      BY <3>1
  <2>4. QED
    BY <2>2, <2>3
<1>7. PICK q \in T : \A r \in T : r = q \/ Before(r, q)
  <2>1. Len(Dump) \in Nat
    BY ItemsOfDump
  <2>2. QED
    BY <1>2, <1>3, <1>5, <1>6, <2>1, LastTriple
<1>8. q \in Kept(StationPlaces(items), StationKeyAt)
  BY <1>1, <1>4, <1>7 DEF Kept
<1>9. StationKeyAt(q) = StationKeyAt(p)
  BY DEF T
<1>10. QED
  BY <1>8, <1>9

LEMMA KeptListing ==
    ASSUME NEW items \in SUBSET Items, NEW p \in ListingPlaces(items)
    PROVE  \E q \in Kept(ListingPlaces(items), ListingKeyAt) :
              ListingKeyAt(q) = ListingKeyAt(p)
<1> DEFINE T == {q \in ListingPlaces(items) : ListingKeyAt(q) = ListingKeyAt(p)}
<1>1. ASSUME NEW q \in T
      PROVE  /\ q \in ListingPlaces(items)
             /\ q = <<q[1], q[2], q[3], q[4]>> /\ q[1] \in items
             /\ q[2] \in 0..Len(Dump[q[1]].bodies) /\ Len(Dump[q[1]].bodies) \in Nat
             /\ q[3] \in 1..Len(StationsAt(q)) /\ Len(StationsAt(q)) \in Nat
             /\ q[4] \in 1..Len(StationAt(q).market.symbols)
             /\ Len(StationAt(q).market.symbols) \in Nat
  <2> DEFINE s == <<q[1], q[2], q[3]>>
  <2>1. /\ q = <<q[1], q[2], q[3], q[4]>> /\ s \in StationPlaces(items)
        /\ q[4] \in 1..Len(StationAt(q).market.symbols)
        /\ Len(StationAt(q).market.symbols) \in Nat
    BY ListingAtPlace
  <2>2. /\ s[1] \in items
        /\ s[2] \in 0..Len(Dump[s[1]].bodies) /\ Len(Dump[s[1]].bodies) \in Nat
        /\ s[3] \in 1..Len(StationsAt(s)) /\ Len(StationsAt(s)) \in Nat
    BY <2>1, StationAtPlace
  <2>3. s[1] = q[1] /\ s[2] = q[2] /\ s[3] = q[3] /\ StationsAt(s) = StationsAt(q)
    BY DEF StationsAt, BodyAt
  <2> HIDE DEF s
  <2>4. QED
    BY <2>1, <2>2, <2>3
<1>2. \A q \in T : q = <<q[1], q[2], q[3], q[4]>> /\ q[1] \in 0..Len(Dump)
  BY <1>1, ItemsOfDump
<1>3. T # {}
  OBVIOUS
<1>4. \A q \in T : \A r \in ListingPlaces(items) : ListingKeyAt(r) = ListingKeyAt(q) => r \in T
  OBVIOUS
<1> HIDE DEF T
<1>5. ASSUME NEW i PROVE \E k \in Nat : \A q \in T : q[1] = i => q[2] \in 0..k
  <2>1. CASE \E q \in T : q[1] = i
    <3>1. Len(Dump[i].bodies) \in Nat
          /\ \A q \in T : q[1] = i => q[2] \in 0..Len(Dump[i].bodies)
      BY <1>1, <2>1
    <3>2. QED
      BY <3>1
  <2>2. CASE ~ \E q \in T : q[1] = i
    <3>1. \A q \in T : q[1] = i => q[2] \in 0..0
      BY <2>2
    <3>2. QED
      BY <3>1
  <2>3. QED
    BY <2>1, <2>2
<1>6. ASSUME NEW i, NEW j
      PROVE  \E k \in Nat : \A q \in T : q[1] = i /\ q[2] = j => q[3] \in 0..k
  <2> DEFINE s == StationsAt(<<i, j>>)
  <2>1. \A q \in T : q[1] = i /\ q[2] = j => StationsAt(q) = s
    BY DEF StationsAt, BodyAt
  <2> HIDE DEF s
  <2>2. CASE \E q \in T : q[1] = i /\ q[2] = j
    <3>1. Len(s) \in Nat /\ \A q \in T : q[1] = i /\ q[2] = j => q[3] \in 0..Len(s)
      BY <1>1, <2>1, <2>2
    <3>2. QED
      BY <3>1
  <2>3. CASE ~ \E q \in T : q[1] = i /\ q[2] = j
    <3>1. \A q \in T : q[1] = i /\ q[2] = j => q[3] \in 0..0
      BY <2>3
    <3>2. QED
      BY <3>1
  <2>4. QED
    BY <2>2, <2>3
<1>7. ASSUME NEW i, NEW j, NEW l
      PROVE  \E k \in Nat : \A q \in T :
                q[1] = i /\ q[2] = j /\ q[3] = l => q[4] \in 0..k
  <2> DEFINE s == StationAt(<<i, j, l>>).market.symbols
  <2>1. \A q \in T : q[1] = i /\ q[2] = j /\ q[3] = l => StationAt(q).market.symbols = s
    BY DEF StationAt, StationsAt, BodyAt
  <2> HIDE DEF s
  <2>2. CASE \E q \in T : q[1] = i /\ q[2] = j /\ q[3] = l
    <3>1. Len(s) \in Nat
          /\ \A q \in T : q[1] = i /\ q[2] = j /\ q[3] = l => q[4] \in 0..Len(s)
      BY <1>1, <2>1, <2>2
    <3>2. QED
      BY <3>1
  <2>3. CASE ~ \E q \in T : q[1] = i /\ q[2] = j /\ q[3] = l
    <3>1. \A q \in T : q[1] = i /\ q[2] = j /\ q[3] = l => q[4] \in 0..0
      BY <2>3
    <3>2. QED
      BY <3>1
  <2>4. QED
    BY <2>2, <2>3
<1>8. PICK q \in T : \A r \in T : r = q \/ Before(r, q)
  <2>1. Len(Dump) \in Nat
    BY ItemsOfDump
  <2>2. QED
    BY <1>2, <1>3, <1>5, <1>6, <1>7, <2>1, LastQuadruple
<1>9. q \in Kept(ListingPlaces(items), ListingKeyAt)
  BY <1>1, <1>4, <1>8 DEF Kept
<1>10. ListingKeyAt(q) = ListingKeyAt(p)
  BY DEF T
<1>11. QED
  BY <1>9, <1>10

\* The dates of finitely many items are bounded.
LEMMA DatesBounded ==
    ASSUME NEW T \in SUBSET Items
    PROVE  \E b \in Nat : \A j \in T : Dump[j].date <= b
<1> DEFINE upTo(k) == \E b \in Nat : \A j \in T : j <= k => Dump[j].date <= b
           B == {k \in 0..Len(Dump) : upTo(k)}
<1>1. Len(Dump) \in Nat /\ \A j \in T : j \in 1..Len(Dump) /\ Dump[j].date \in Nat
  BY ItemsOfDump, ItemFields
<1>2. upTo(0)
  BY <1>1
<1>3. B \subseteq Nat /\ B # {} /\ \A k \in B : k <= Len(Dump)
  BY <1>1, <1>2
<1>4. PICK k \in B : \A l \in B : l <= k
  <2> HIDE DEF B
  <2>1. QED
    BY <1>1, <1>3, NatMax
<1>5. k = Len(Dump)
  <2> SUFFICES ASSUME k < Len(Dump) PROVE FALSE
    BY <1>1, <1>3
  <2>1. PICK b \in Nat : \A j \in T : j <= k => Dump[j].date <= b
    OBVIOUS
  <2>2. CASE k + 1 \in T
    <3> DEFINE d == b + Dump[k + 1].date
    <3>1. d \in Nat /\ \A j \in T : j <= k + 1 => Dump[j].date <= d
      BY <1>1, <1>3, <2>1, <2>2
    <3> HIDE DEF d
    <3>2. k + 1 \in B
      BY <1>1, <3>1
    <3>3. QED
      BY <1>1, <1>4, <3>2
  <2>3. CASE k + 1 \notin T
    <3>1. \A j \in T : j <= k + 1 => Dump[j].date <= b
      BY <1>1, <2>1, <2>3
    <3>2. k + 1 \in B
      BY <1>1, <3>1
    <3>3. QED
      BY <1>1, <1>4, <3>2
  <2>4. QED
    BY <2>2, <2>3
<1>6. QED
  BY <1>1, <1>5

LEMMA NewestOf ==
    ASSUME ImportInv, NEW i \in batch
    PROVE  \E n \in batch : /\ Dump[n].system = Dump[i].system
                            /\ <<n>> \in NewestItems
                            /\ Dump[i].date \in Nat /\ Dump[n].date \in Nat
                            /\ Dump[i].date <= Dump[n].date
<1> DEFINE T == {j \in batch : Dump[j].system = Dump[i].system}
           D == {Dump[j].date : j \in T}
<1>1. batch \in SUBSET Items
  BY BatchIsItems
<1>2. T \in SUBSET Items /\ D \subseteq Nat /\ D # {} /\ T \subseteq Nat
  <2>1. T \in SUBSET Items /\ T \subseteq Nat /\ D # {}
    BY <1>1, ItemsOfDump
  <2>2. \A j \in T : Dump[j].date \in Nat
    BY <1>1, ItemFields
  <2>3. QED
    BY <2>1, <2>2
<1>3. PICK b \in Nat : \A j \in T : Dump[j].date <= b
  <2> HIDE DEF T
  <2>1. QED
    BY <1>2, DatesBounded
<1>4. PICK d \in D : \A e \in D : e <= d
  <2>1. \A e \in D : e <= b
    BY <1>3
  <2> HIDE DEF D
  <2>2. QED
    BY <1>2, <2>1, NatMax
<1> DEFINE N == {j \in T : Dump[j].date = d}
<1>5. PICK n \in N : \A j \in N : n <= j
  <2>1. N \subseteq Nat /\ N # {}
    BY <1>2
  <2> HIDE DEF N
  <2>2. QED
    BY <2>1, NatMin, Zenon
<1>6. ASSUME NEW j \in batch, Dump[j].system = Dump[n].system
      PROVE  Dump[j].date < Dump[n].date \/ (Dump[j].date = Dump[n].date /\ n <= j)
  <2>1. j \in T /\ Dump[j].date \in D
    BY <1>6
  <2>2. Dump[j].date <= d /\ d \in Nat /\ Dump[j].date \in Nat /\ Dump[n].date = d
    BY <1>2, <1>4, <2>1
  <2>3. Dump[j].date = d => n <= j
    BY <1>5, <2>1
  <2>4. QED
    BY <2>2, <2>3
<1>7. <<n>> \in NewestItems
  BY <1>6 DEF NewestItems
<1>8. Dump[i].date \in D
  OBVIOUS
<1>9. QED
  BY <1>2, <1>4, <1>7, <1>8

-----------------------------------------------------------------------------
(***************************************************************************)
(* What a layer leaves behind while no batch was refused.                  *)
(***************************************************************************)
LEMMA InsertGives ==
    ASSUME NEW l, NEW ids, NEW stored \in BOOLEAN, Inserts(l, ids, stored), flawless'
    PROVE  /\ flawless /\ stored /\ layer \in 1..10 /\ Layers[layer] = l
           /\ cached \subseteq cached' /\ ids \subseteq cached'
BY DEF Inserts

LEMMA LayerNumbers ==
    ASSUME NEW n \in 1..10
    PROVE  /\ Layers[n] = "factions" => n = 1
           /\ Layers[n] = "systems" => n = 2
           /\ Layers[n] = "presences" => n = 3
           /\ Layers[n] = "bodies" => n = 4
           /\ Layers[n] = "stations" => n = 5
           /\ Layers[n] = "signals" => n = 6
           /\ Layers[n] = "rings" => n = 7
           /\ Layers[n] = "market" => n = 8
           /\ Layers[n] = "outfitting" => n = 9
           /\ Layers[n] = "hotspots" => n = 10
BY LayersAre

Moved(n) == layer = n /\ flawless /\ cached \subseteq cached'

LEMMA FactionsDone ==
    ASSUME ImportInv, ImportFactions, flawless'
    PROVE  Moved(1) /\ FactionIds(batch) \subseteq cached'
<1> DEFINE names == Controllers \cup {FactionAt(p).name : p \in FactionPlaces(batch)}
<1>1. PICK ok \in BOOLEAN : InsertValid("factions", names, ok, Known("faction", names))
  BY DEF ImportFactions
<1>2. FactionIds(batch) = Known("faction", names)
  BY DEF FactionIds, Controllers
<1> HIDE DEF names
<1>3. Inserts("factions", Known("faction", names), ok)
  BY <1>1, InsertValidDoes
<1>4. QED
  BY <1>2, <1>3, InsertGives, LayerNumbers DEF Moved

LEMMA SystemsDone ==
    ASSUME ImportInv, ImportSystems, flawless'
    PROVE  Moved(2) /\ SystemIds(batch) \subseteq cached'
<1> DEFINE rows == Dict(NewestItems, SystemOf, DumpSystemCols)
<1>1. PICK ok \in BOOLEAN :
         InsertValid("systems", DOMAIN rows, ok, Known("system", DOMAIN rows))
  BY DEF ImportSystems
<1>2. ASSUME NEW i \in batch PROVE SystemOf(<<i>>) \in DOMAIN rows
  <2>1. PICK n \in batch : Dump[n].system = Dump[i].system /\ <<n>> \in NewestItems
    BY NewestOf
  <2>2. SystemOf(<<i>>) = SystemOf(<<n>>)
    BY <2>1 DEF SystemOf
  <2>3. QED
    BY <2>1, <2>2 DEF Dict
<1> HIDE DEF rows
<1>3. SystemIds(batch) \subseteq Known("system", DOMAIN rows)
  BY <1>2 DEF SystemIds, Known
<1>4. Inserts("systems", Known("system", DOMAIN rows), ok)
  BY <1>1, InsertValidDoes
<1>5. QED
  BY <1>3, <1>4, InsertGives, LayerNumbers DEF Moved

LEMMA PresencesDone ==
    ASSUME ImportInv, ImportPresences, flawless'
    PROVE  /\ Moved(3)
           /\ \A p \in Kept(FactionPlaces(batch), NameAt) :
                 PresenceKey(p) \in DOMAIN db'.presences
<1> DEFINE rows == Dict(Kept(FactionPlaces(batch), NameAt), PresenceKey, DumpPresenceCols)
<1>1. PICK ok \in BOOLEAN :
         /\ InsertValid("presences", DOMAIN rows, ok, {})
         /\ db' = [db EXCEPT !.presences = UpsertDict(db.presences, rows, PresenceCols, ok)]
  BY DEF ImportPresences
<1>2. \A p \in Kept(FactionPlaces(batch), NameAt) : PresenceKey(p) \in DOMAIN rows
  BY DEF Dict
<1> HIDE DEF rows
<1>3. Inserts("presences", {}, ok)
  BY <1>1, InsertValidDoes
<1>4. Moved(3) /\ ok
  BY <1>3, InsertGives, LayerNumbers DEF Moved
<1>5. DOMAIN rows \subseteq DOMAIN db'.presences
  <2>1. db'.presences = UpsertDict(db.presences, rows, PresenceCols, ok)
    BY <1>1 DEF ImportInv, FeedInv, Core, Shape, Tables
  <2>2. QED
    BY <1>4, <2>1 DEF UpsertDict, MergeDict
<1>6. QED
  BY <1>2, <1>4, <1>5

LEMMA BodiesDone ==
    ASSUME ImportInv, ImportBodies, flawless'
    PROVE  Moved(4) /\ BodyIds(batch) \subseteq cached'
<1> DEFINE keys == {BodyKey(p) : p \in BodyPlaces(batch)}
<1>1. PICK ok \in BOOLEAN : InsertValid("bodies", keys, ok, Known("body", keys))
  BY DEF ImportBodies
<1>2. BodyIds(batch) = Known("body", keys)
  BY DEF BodyIds
<1> HIDE DEF keys
<1>3. Inserts("bodies", Known("body", keys), ok)
  BY <1>1, InsertValidDoes
<1>4. QED
  BY <1>2, <1>3, InsertGives, LayerNumbers DEF Moved

LEMMA StationsDone ==
    ASSUME ImportInv, ImportStations, flawless'
    PROVE  Moved(5) /\ StationIds(batch) \subseteq cached'
<1> DEFINE rows == Dict(Kept(StationPlaces(batch), StationKeyAt), StationKeyAt,
                        DumpStationCols)
<1>1. PICK ok \in BOOLEAN :
         InsertValid("stations", DOMAIN rows, ok, Known("station", DOMAIN rows))
  BY DEF ImportStations
<1>2. ASSUME NEW p \in StationPlaces(batch) PROVE StationKeyAt(p) \in DOMAIN rows
  <2>1. PICK q \in Kept(StationPlaces(batch), StationKeyAt) :
           StationKeyAt(q) = StationKeyAt(p)
    BY BatchIsItems, KeptStation
  <2>2. QED
    BY <2>1 DEF Dict
<1> HIDE DEF rows
<1>3. StationIds(batch) \subseteq Known("station", DOMAIN rows)
  BY <1>2 DEF StationIds, Known
<1>4. Inserts("stations", Known("station", DOMAIN rows), ok)
  BY <1>1, InsertValidDoes
<1>5. QED
  BY <1>3, <1>4, InsertGives, LayerNumbers DEF Moved

LEMMA SignalsDone ==
    ASSUME ImportInv, ImportSignals, flawless'
    PROVE  Moved(6) /\ DumpSignals(batch) \subseteq bodySignals'
<1>1. PICK ok \in BOOLEAN :
         /\ InsertValid("signals", DumpSignals(batch), ok, {})
         /\ bodySignals' = AddKeys(bodySignals, DumpSignals(batch), ok)
  BY DEF ImportSignals
<1>2. Inserts("signals", {}, ok)
  BY <1>1, InsertValidDoes
<1>3. Moved(6) /\ ok
  BY <1>2, InsertGives, LayerNumbers DEF Moved
<1>4. QED
  BY <1>1, <1>3 DEF AddKeys

LEMMA RingsDone ==
    ASSUME ImportInv, ImportRings, flawless'
    PROVE  Moved(7) /\ RingIds(batch) \subseteq cached'
<1> DEFINE keys == {RingKey(p) : p \in RingPlaces(batch)}
<1>1. PICK ok \in BOOLEAN : InsertValid("rings", keys, ok, Known("ring", keys))
  BY DEF ImportRings
<1>2. RingIds(batch) = Known("ring", keys)
  BY DEF RingIds
<1> HIDE DEF keys
<1>3. Inserts("rings", Known("ring", keys), ok)
  BY <1>1, InsertValidDoes
<1>4. QED
  BY <1>2, <1>3, InsertGives, LayerNumbers DEF Moved

LEMMA MarketDone ==
    ASSUME ImportInv, ImportMarket, flawless'
    PROVE  /\ Moved(8)
           /\ \A p \in ListingPlaces(batch) : ListingKeyAt(p) \in DOMAIN listings'
<1> DEFINE rows == Dict(Kept(ListingPlaces(batch), ListingKeyAt), ListingKeyAt,
                        DumpListingCols)
           valid == \A k \in DOMAIN rows : k.commodity \in Commodities
<1>1. PICK ok \in BOOLEAN :
         /\ Insert("market", DOMAIN rows, ok, valid, {})
         /\ listings' = UpsertDict(listings, rows, ListingCols, ok /\ valid)
  BY DEF ImportMarket
<1>2. ASSUME NEW p \in ListingPlaces(batch) PROVE ListingKeyAt(p) \in DOMAIN rows
  <2>1. PICK q \in Kept(ListingPlaces(batch), ListingKeyAt) :
           ListingKeyAt(q) = ListingKeyAt(p)
    BY BatchIsItems, KeptListing
  <2>2. QED
    BY <2>1 DEF Dict
<1>3. valid \in BOOLEAN
  OBVIOUS
<1> HIDE DEF rows, valid
<1>4. Inserts("market", {}, ok /\ valid)
  BY <1>1, <1>3, InsertDoes
<1>5. Moved(8) /\ ok /\ valid
  BY <1>3, <1>4, InsertGives, LayerNumbers DEF Moved
<1>6. DOMAIN rows \subseteq DOMAIN listings'
  BY <1>1, <1>5 DEF UpsertDict, MergeDict
<1>7. QED
  BY <1>2, <1>5, <1>6

LEMMA OutfittingDone ==
    ASSUME ImportInv, PassOutfitting, flawless' PROVE Moved(9)
<1>1. Inserts("outfitting", {}, TRUE)
  BY InsertValidDoes DEF PassOutfitting
<1>2. layer \in 1..10 /\ Layers[layer] = "outfitting" /\ flawless /\ cached \subseteq cached'
  BY <1>1 DEF Inserts
<1>3. QED
  BY <1>2, LayerNumbers DEF Moved

LEMMA HotspotsDone ==
    ASSUME ImportInv, ImportHotspots, flawless'
    PROVE  Moved(10) /\ DumpHotspots(batch) \subseteq db'.hotspots
<1> DEFINE valid == \A h \in DumpHotspots(batch) : h.commodity \in Commodities
<1>1. PICK ok \in BOOLEAN :
         /\ Insert("hotspots", DumpHotspots(batch), ok, valid, {})
         /\ db' = [db EXCEPT !.hotspots =
                      AddKeys(db.hotspots, DumpHotspots(batch), ok /\ valid)]
  BY DEF ImportHotspots
<1>2. valid \in BOOLEAN
  OBVIOUS
<1> HIDE DEF valid
<1>3. Inserts("hotspots", {}, ok /\ valid)
  BY <1>1, <1>2, InsertDoes
<1>4. Moved(10) /\ ok /\ valid
  BY <1>2, <1>3, InsertGives, LayerNumbers DEF Moved
<1>5. db'.hotspots = AddKeys(db.hotspots, DumpHotspots(batch), ok /\ valid)
  BY <1>1 DEF ImportInv, FeedInv, Core, Shape, Tables
<1>6. QED
  BY <1>4, <1>5 DEF AddKeys

LEMMA LayerDone ==
    ASSUME ImportInv, InsertStep, flawless'
    PROVE  /\ Moved(layer)
           /\ layer = 1 => FactionIds(batch) \subseteq cached'
           /\ layer = 2 => SystemIds(batch) \subseteq cached'
           /\ layer = 3 => \A p \in Kept(FactionPlaces(batch), NameAt) :
                              PresenceKey(p) \in DOMAIN db'.presences
           /\ layer = 4 => BodyIds(batch) \subseteq cached'
           /\ layer = 5 => StationIds(batch) \subseteq cached'
           /\ layer = 6 => DumpSignals(batch) \subseteq bodySignals'
           /\ layer = 7 => RingIds(batch) \subseteq cached'
           /\ layer = 8 => \A p \in ListingPlaces(batch) : ListingKeyAt(p) \in DOMAIN listings'
           /\ layer = 10 => DumpHotspots(batch) \subseteq db'.hotspots
BY FactionsDone, SystemsDone, PresencesDone, BodiesDone, StationsDone, SignalsDone,
   RingsDone, MarketDone, OutfittingDone, HotspotsDone DEF InsertStep, Moved

-----------------------------------------------------------------------------
(***************************************************************************)
(* While no batch was refused, what a layer looks up was brought back by a *)
(* layer above it.                                                         *)
(***************************************************************************)
BatchKnown ==
    flawless =>
        /\ layer > 1 => FactionIds(batch) \subseteq cached
        /\ layer > 2 => SystemIds(batch) \subseteq cached
        /\ layer > 4 => BodyIds(batch) \subseteq cached
        /\ layer > 5 => StationIds(batch) \subseteq cached
        /\ layer > 7 => RingIds(batch) \subseteq cached

LEMMA LookupsAnswered ==
    ASSUME ImportInv, BatchKnown, flawless, layer \in 1..10
    PROVE  Lookups(Layers[layer]) \subseteq cached
<1>1. /\ layer > 1 => FactionIds(batch) \subseteq cached
      /\ layer > 2 => SystemIds(batch) \subseteq cached
      /\ layer > 4 => BodyIds(batch) \subseteq cached
      /\ layer > 5 => StationIds(batch) \subseteq cached
      /\ layer > 7 => RingIds(batch) \subseteq cached
  BY DEF BatchKnown
<1> DEFINE S == Known("system", {SystemOf(<<i>>) : i \in batch})
           B == Known("body", {BodyKey(p) : p \in BodyPlaces(batch)})
<1>2. (layer > 2 => S \subseteq cached) /\ (layer > 4 => B \subseteq cached)
  BY <1>1 DEF SystemIds, BodyIds
<1>3. CASE layer = 2
  <2>1. Lookups("systems") = Known("faction", Controllers)
    BY DEF Lookups
  <2>2. Known("faction", Controllers) \subseteq FactionIds(batch)
    BY DEF Known, FactionIds, Controllers
  <2>3. QED
    BY <1>1, <1>3, <2>1, <2>2, LayersAre
<1>4. CASE layer = 3
  <2> DEFINE F == Known("faction", {FactionAt(p).name : p \in FactionPlaces(batch)})
  <2>1. Lookups("presences") = S \cup F
    BY DEF Lookups
  <2>2. F \subseteq FactionIds(batch)
    BY DEF Known, FactionIds
  <2> HIDE DEF S, F
  <2>3. QED
    BY <1>1, <1>2, <1>4, <2>1, <2>2, LayersAre
<1>5. CASE layer = 4
  <2>1. Lookups("bodies") = S
    BY DEF Lookups
  <2> HIDE DEF S
  <2>2. QED
    BY <1>2, <1>5, <2>1, LayersAre
<1>6. CASE layer \in {5, 6, 7}
  <2>1. \A l \in {"stations", "signals", "rings"} : Lookups(l) = S \cup B
    BY DEF Lookups
  <2>2. Layers[layer] \in {"stations", "signals", "rings"}
    BY <1>6, LayersAre
  <2> HIDE DEF S, B
  <2>3. QED
    BY <1>2, <1>6, <2>1, <2>2
<1>7. CASE layer = 8
  <2> DEFINE M == Known("station", {StationKeyAt(p) : p \in MarketPlaces(batch)})
  <2>1. Lookups("market") = S \cup B \cup M
    BY DEF Lookups
  <2>2. M \subseteq StationIds(batch)
    BY DEF Known, StationIds, MarketPlaces
  <2> HIDE DEF S, B, M
  <2>3. QED
    BY <1>1, <1>2, <1>7, <2>1, <2>2, LayersAre
<1>8. CASE layer = 9
  <2> DEFINE M == Known("station", {StationKeyAt(p) : p \in
                     {p \in StationPlaces(batch) : StationAt(p).outfitting}})
  <2>1. Lookups("outfitting") = S \cup B \cup M
    BY DEF Lookups
  <2>2. M \subseteq StationIds(batch)
    BY DEF Known, StationIds
  <2> HIDE DEF S, B, M
  <2>3. QED
    BY <1>1, <1>2, <1>8, <2>1, <2>2, LayersAre
<1>9. CASE layer = 10
  <2> DEFINE R == Known("ring", {RingKey(p) : p \in
                     {p \in RingPlaces(batch) : RingAt(p).signals # Null}})
  <2>1. Lookups("hotspots") = S \cup B \cup R
    BY DEF Lookups
  <2>2. R \subseteq RingIds(batch)
    BY DEF Known, RingIds
  <2> HIDE DEF S, B, R
  <2>3. QED
    BY <1>1, <1>2, <1>9, <2>1, <2>2, LayersAre
<1>10. CASE layer = 1
  <2>1. Lookups("factions") = {}
    BY DEF Lookups
  <2>2. QED
    BY <1>10, <2>1, LayersAre
<1>11. QED
  BY <1>3, <1>4, <1>5, <1>6, <1>7, <1>8, <1>9, <1>10

LEMMA BatchKnownStep ==
    ASSUME ImportInv, BatchKnown, [ImportNext]_worldVars PROVE BatchKnown'
<1>1. layer \in 0..10
  BY LayersAre DEF ImportInv, ImportTypeOK
<1>2. CASE (FeedNext /\ UNCHANGED importVars) \/ UNCHANGED worldVars
  <2>1. UNCHANGED <<batch, layer, cached, flawless>>
    BY <1>2 DEF worldVars, importVars
  <2>2. QED
    BY <2>1 DEF BatchKnown
<1>3. CASE QuietStep
  <2>1. layer' \in {0, 1} \/ UNCHANGED <<batch, layer, cached, flawless>>
    BY <1>3 DEF QuietStep, StartImport, SkipItem, ReadItem, FlushRest, FinishImport,
       LookupRaises, ImportKilled
  <2>2. CASE layer' \in {0, 1}
    BY <2>2 DEF BatchKnown
  <2>3. CASE UNCHANGED <<batch, layer, cached, flawless>>
    BY <2>3 DEF BatchKnown
  <2>4. QED
    BY <2>1, <2>2, <2>3
<1>4. CASE InsertStep
  <2> SUFFICES ASSUME flawless'
               PROVE  /\ layer' > 1 => FactionIds(batch') \subseteq cached'
                      /\ layer' > 2 => SystemIds(batch') \subseteq cached'
                      /\ layer' > 4 => BodyIds(batch') \subseteq cached'
                      /\ layer' > 5 => StationIds(batch') \subseteq cached'
                      /\ layer' > 7 => RingIds(batch') \subseteq cached'
    BY DEF BatchKnown
  <2>1. batch' = batch /\ layer \in 1..10 /\ layer' = (IF layer = 10 THEN 0 ELSE layer + 1)
    BY <1>4, InsertStepMoves
  <2>2. /\ flawless /\ cached \subseteq cached'
        /\ layer = 1 => FactionIds(batch) \subseteq cached'
        /\ layer = 2 => SystemIds(batch) \subseteq cached'
        /\ layer = 4 => BodyIds(batch) \subseteq cached'
        /\ layer = 5 => StationIds(batch) \subseteq cached'
        /\ layer = 7 => RingIds(batch) \subseteq cached'
    BY <1>4, LayerDone DEF Moved
  <2>3. QED
    BY <2>1, <2>2 DEF BatchKnown
<1>5. QED
  BY <1>2, <1>3, <1>4 DEF ImportNext, InsertSystems, InsertStep, QuietStep

LEMMA RefusedBeforeRaised ==
    ASSUME ImportInv, BatchKnown, RaisesOnlyAfterRefusal, [ImportNext]_worldVars
    PROVE  RaisesOnlyAfterRefusal'
<1> USE DEF RaisesOnlyAfterRefusal
<1>1. CASE (FeedNext /\ UNCHANGED importVars) \/ UNCHANGED worldVars
  BY <1>1 DEF worldVars, importVars
<1>2. CASE InsertStep
  <2>1. import' = "running"
    BY <1>2, InsertStepMoves
  <2>2. QED
    BY <2>1
<1>3. CASE LookupRaises
  <2>1. layer \in 1..10 /\ ~ (Lookups(Layers[layer]) \subseteq cached) /\ flawless' = flawless
    BY <1>3, LayersAre DEF LookupRaises, ImportInv, ImportTypeOK
  <2>2. ~ flawless
    BY <2>1, LookupsAnswered
  <2>3. QED
    BY <2>1, <2>2
<1>4. CASE QuietStep /\ ~ LookupRaises
  BY <1>4 DEF QuietStep, StartImport, SkipItem, ReadItem, FlushRest, FinishImport,
     ImportKilled, Reading
<1>5. QED
  BY <1>1, <1>2, <1>3, <1>4 DEF ImportNext, InsertSystems, InsertStep, QuietStep

(***************************************************************************)
(* The layers of insert_systems are in an order in which every id is there *)
(* when it is looked up: get_spansh_entity_id_by_key raises for no dump,   *)
(* no size of a batch and no start, unless a statement was refused.        *)
(***************************************************************************)
THEOREM RaisesOnlyAfterRefusalCorrect == ImportSpec => []RaisesOnlyAfterRefusal
<1>1. ImportInit => BatchKnown /\ RaisesOnlyAfterRefusal
  BY DEF ImportInit, BatchKnown, RaisesOnlyAfterRefusal
<1>2. ImportInv /\ BatchKnown /\ [ImportNext]_worldVars => BatchKnown'
  BY BatchKnownStep
<1>3. ImportInv /\ BatchKnown /\ RaisesOnlyAfterRefusal /\ [ImportNext]_worldVars
         => RaisesOnlyAfterRefusal'
  BY RefusedBeforeRaised
<1>4. QED
  BY <1>1, <1>2, <1>3, ImportInvAlways, PTL DEF ImportSpec, worldVars

-----------------------------------------------------------------------------
LEMMA NewestStored ==
    ASSUME ImportInv, ImportSystems, flawless', NEW i \in batch
    PROVE  db'.systems[Dump[i].system]["date"] >= Dump[i].date
<1> DEFINE rows == Dict(NewestItems, SystemOf, DumpSystemCols)
           s == Dump[i].system
           p == CHOOSE p \in NewestItems : SystemOf(p) = s
<1>1. PICK ok \in BOOLEAN :
         /\ InsertValid("systems", DOMAIN rows, ok, Known("system", DOMAIN rows))
         /\ db' = [db EXCEPT !.systems = UpsertDict(db.systems, rows, SystemCols, ok)]
  BY DEF ImportSystems
<1>2. PICK n \in batch : Dump[n].system = s /\ <<n>> \in NewestItems
  BY NewestOf
<1>3. p \in NewestItems /\ SystemOf(p) = s
  BY <1>2 DEF SystemOf
<1> HIDE DEF p
<1>4. PICK m \in batch :
         /\ p = <<m>>
         /\ \A j \in batch : Dump[j].system = Dump[m].system =>
               Dump[j].date < Dump[m].date \/ (Dump[j].date = Dump[m].date /\ m <= j)
  BY <1>3 DEF NewestItems
<1>5. Dump[m].system = s /\ p[1] = m
  BY <1>3, <1>4 DEF SystemOf
<1>6. batch \in SUBSET Items
  BY BatchIsItems
<1>7. Dump[i].date \in Nat /\ Dump[m].date \in Nat /\ Dump[m].date >= Dump[i].date
  <2>1. Dump[i].date \in Nat /\ Dump[m].date \in Nat
    BY <1>6, ItemFields
  <2>2. Dump[i].date < Dump[m].date \/ Dump[i].date = Dump[m].date
    BY <1>4, <1>5
  <2>3. QED
    BY <2>1, <2>2
<1>8. s \in DOMAIN rows /\ rows[s] = DumpSystemCols(p)
  <2>1. DOMAIN rows = {SystemOf(q) : q \in NewestItems}
    BY DEF Dict
  <2>2. s \in {SystemOf(q) : q \in NewestItems}
    BY <1>3
  <2>3. QED
    BY <2>1, <2>2 DEF Dict, p
<1> HIDE DEF rows
<1>9. "date" \in DOMAIN rows[s] /\ rows[s]["date"] = Dump[m].date /\ Dump[m].date # Null
      /\ "date" \in SystemCols
  BY <1>5, <1>7, <1>8, JournalAssumption DEF DumpSystemCols, SystemCols
<1>10. ok
  <2>1. Inserts("systems", Known("system", DOMAIN rows), ok)
    BY <1>1, InsertValidDoes
  <2>2. QED
    BY <2>1, InsertGives
<1>11. db'.systems = MergeDict(db.systems, rows, SystemCols)
  BY <1>1, <1>8, <1>10 DEF ImportInv, FeedInv, Core, Shape, Tables, UpsertDict
<1>12. MergeDict(db.systems, rows, SystemCols)[s]["date"] = rows[s]["date"]
  BY <1>8, <1>9, MergeDictWrites
<1>13. QED
  BY <1>7, <1>9, <1>11, <1>12

LEMMA NewestStep ==
    ASSUME ImportInv, [ImportNext]_worldVars, InLayer("systems"), layer' = layer + 1, flawless',
           NEW i \in batch
    PROVE  db'.systems[Dump[i].system]["date"] >= Dump[i].date
<1>1. layer = 2 /\ layer' = 3 /\ import = "running"
  <2>1. layer \in 1..10
    BY LayersAre DEF InLayer, ImportInv, ImportTypeOK
  <2>2. QED
    BY <2>1, LayerNumbers DEF InLayer
<1>2. InsertStep
  BY <1>1 DEF ImportNext, InsertSystems, InsertStep, worldVars, importVars, StartImport,
     SkipItem, ReadItem, FlushRest, FinishImport, LookupRaises, ImportKilled, Reading
<1>3. ImportSystems
  BY <1>1, <1>2, FactionsDone, PresencesDone, BodiesDone, StationsDone, SignalsDone,
     RingsDone, MarketDone, OutfittingDone, HotspotsDone DEF InsertStep, Moved
<1>4. QED
  BY <1>3, NewestStored

(***************************************************************************)
(* The newest item of a system wins its row, in every dump: the dict of    *)
(* insert_layer2 and the upsert together.                                  *)
(***************************************************************************)
THEOREM NewestItemWinsCorrect == ImportSpec => NewestItemWins
<1>1. ImportInv /\ [ImportNext]_worldVars =>
         [InLayer("systems") /\ layer' = layer + 1 /\ flawless' =>
            \A i \in batch : db'.systems[Dump[i].system]["date"] >= Dump[i].date]_worldVars
  BY NewestStep
<1>2. QED
  BY <1>1, ImportInvAlways, PTL DEF ImportSpec, NewestItemWins, worldVars

-----------------------------------------------------------------------------
(***************************************************************************)
(* Part of the items: the places of the part are the places of the whole   *)
(* that are in it, and what a dict of the whole keeps there the dict of    *)
(* the part keeps too.                                                     *)
(***************************************************************************)
LEMMA BodyPlacesOfPart ==
    ASSUME NEW items, NEW part \in SUBSET items
    PROVE  \A p : p \in BodyPlaces(part) <=> p \in BodyPlaces(items) /\ p[1] \in part
BY BodyPlaceIs

LEMMA FactionPlacesOfPart ==
    ASSUME NEW items, NEW part \in SUBSET items
    PROVE  \A p : p \in FactionPlaces(part) <=> p \in FactionPlaces(items) /\ p[1] \in part
BY FactionPlaceIs

LEMMA RingPlacesOfPart ==
    ASSUME NEW items, NEW part \in SUBSET items
    PROVE  \A p : p \in RingPlaces(part) <=> p \in RingPlaces(items) /\ p[1] \in part
<1> TAKE p
<1> DEFINE b == <<p[1], p[2]>>
<1>1. b[1] = p[1] /\ (b \in BodyPlaces(part) <=> b \in BodyPlaces(items) /\ b[1] \in part)
  BY BodyPlacesOfPart
<1>2. \A its : p \in RingPlaces(its) <=>
                  p = <<p[1], p[2], p[3]>> /\ b \in BodyPlaces(its)
                  /\ p[3] \in DOMAIN BodyAt(p).rings
  BY RingPlaceIs
<1> HIDE DEF b
<1>3. QED
  BY <1>1, <1>2

LEMMA StationPlacesOfPart ==
    ASSUME NEW items, NEW part \in SUBSET items
    PROVE  \A p : p \in StationPlaces(part) <=> p \in StationPlaces(items) /\ p[1] \in part
<1> TAKE p
<1> DEFINE b == <<p[1], p[2]>>
<1>1. b[1] = p[1] /\ (b \in BodyPlaces(part) <=> b \in BodyPlaces(items) /\ b[1] \in part)
  BY BodyPlacesOfPart
<1>2. \A its : p \in StationPlaces(its) <=>
                  p = <<p[1], p[2], p[3]>>
                  /\ (b \in BodyPlaces(its) \/ (p[1] \in its /\ p[2] = 0))
                  /\ p[3] \in DOMAIN StationsAt(p)
                  /\ ~Decommissioned(p)
  BY StationPlaceIs
<1> HIDE DEF b
<1>3. QED
  BY <1>1, <1>2

LEMMA ListingPlacesOfPart ==
    ASSUME NEW items, NEW part \in SUBSET items
    PROVE  \A p : p \in ListingPlaces(part) <=> p \in ListingPlaces(items) /\ p[1] \in part
<1> TAKE p
<1> DEFINE s == <<p[1], p[2], p[3]>>
<1>1. s[1] = p[1] /\ (s \in StationPlaces(part) <=> s \in StationPlaces(items) /\ s[1] \in part)
  BY StationPlacesOfPart
<1>2. \A its : p \in ListingPlaces(its) <=>
                  p = <<p[1], p[2], p[3], p[4]>> /\ s \in MarketPlaces(its)
                  /\ p[4] \in DOMAIN StationAt(p).market.symbols
  BY ListingPlaceIs
<1>3. \A its : s \in MarketPlaces(its) <=> s \in StationPlaces(its) /\ Fresh(StationAt(s))
  BY DEF MarketPlaces
<1> HIDE DEF s
<1>4. QED
  BY <1>1, <1>2, <1>3

SignalPlaces(items) == {p \in BodyPlaces(items) : BodyAt(p).signals # Null}
HotspotPlaces(items) == {p \in RingPlaces(items) : RingAt(p).signals # Null}

LEMMA KeptOfPart ==
    ASSUME NEW items, NEW part \in SUBSET items, NEW p, p[1] \in part
    PROVE  /\ p \in Kept(FactionPlaces(items), NameAt) =>
                 p \in Kept(FactionPlaces(part), NameAt)
           /\ p \in Kept(SignalPlaces(items), BodyKey) =>
                 p \in Kept(SignalPlaces(part), BodyKey)
           /\ p \in Kept(HotspotPlaces(items), RingKey) =>
                 p \in Kept(HotspotPlaces(part), RingKey)
<1>1. p \in Kept(FactionPlaces(items), NameAt) => p \in Kept(FactionPlaces(part), NameAt)
  BY FactionPlacesOfPart DEF Kept
<1>2. p \in Kept(SignalPlaces(items), BodyKey) => p \in Kept(SignalPlaces(part), BodyKey)
  <2>1. \A q : q \in SignalPlaces(part) <=> q \in SignalPlaces(items) /\ q[1] \in part
    BY BodyPlacesOfPart DEF SignalPlaces
  <2>2. QED
    BY <2>1 DEF Kept
<1>3. p \in Kept(HotspotPlaces(items), RingKey) => p \in Kept(HotspotPlaces(part), RingKey)
  <2>1. \A q : q \in HotspotPlaces(part) <=> q \in HotspotPlaces(items) /\ q[1] \in part
    BY RingPlacesOfPart DEF HotspotPlaces
  <2>2. QED
    BY <2>1 DEF Kept
<1>4. QED
  BY <1>1, <1>2, <1>3

-----------------------------------------------------------------------------
(***************************************************************************)
(* An item is done with a layer once its batch has passed it, and stored   *)
(* there for good, while no batch was refused.                             *)
(***************************************************************************)
Done(n) ==
    {i \in Imported : i <= idx /\ i \notin pending /\ ~ (i \in batch /\ layer \in 1..n)}

Stored(n, i) ==
    /\ n = 2 => Dump[i].system \in DOMAIN db.systems
    /\ n = 3 => \A p \in Kept(FactionPlaces(Imported), NameAt) :
                   p[1] = i => PresenceKey(p) \in DOMAIN db.presences
    /\ n = 4 => \A p \in BodyPlaces(Imported) : p[1] = i => BodyKey(p) \in db.bodies
    /\ n = 5 => \A p \in StationPlaces(Imported) :
                   p[1] = i => StationKeyAt(p) \in DOMAIN db.stations
    /\ n = 6 => \A p \in Kept(SignalPlaces(Imported), BodyKey) :
                   p[1] = i => \A m \in DOMAIN BodyAt(p).signals :
                      [body |-> BodyKey(p), signal |-> BodyAt(p).signals[m]] \in bodySignals
    /\ n = 7 => \A p \in RingPlaces(Imported) : p[1] = i => RingKey(p) \in db.rings
    /\ n = 8 => \A p \in ListingPlaces(Imported) :
                   p[1] = i => ListingKeyAt(p) \in DOMAIN listings
    /\ n = 10 => \A p \in Kept(HotspotPlaces(Imported), RingKey) :
                   p[1] = i => \A m \in DOMAIN RingAt(p).signals :
                      [ring |-> RingKey(p), commodity |-> RingAt(p).signals[m]] \in db.hotspots

Imports == import \in {"running", "done"}

DoneStored == flawless /\ Imports => \A n \in 1..10 : \A i \in Done(n) : Stored(n, i)

\* Where the import is in the dump.
Seen ==
    /\ layer # 0 => import = "running"
    /\ Imports =>
          /\ pending \subseteq Imported
          /\ layer # 0 => batch \subseteq Imported
    /\ import = "done" => idx = Len(Dump) /\ pending = {} /\ layer = 0

LEMMA RowsGrow ==
    ASSUME WorldFacts \subseteq WorldFacts'
    PROVE  /\ DOMAIN db.systems \subseteq DOMAIN db'.systems
           /\ DOMAIN db.presences \subseteq DOMAIN db'.presences
           /\ db.bodies \subseteq db'.bodies
           /\ DOMAIN db.stations \subseteq DOMAIN db'.stations
           /\ bodySignals \subseteq bodySignals'
           /\ db.rings \subseteq db'.rings
           /\ DOMAIN listings \subseteq DOMAIN listings'
           /\ db.hotspots \subseteq db'.hotspots
BY StoredFacts, StoredFactsNext DEF FactsAreRows

LEMMA StoredStays ==
    ASSUME WorldFacts \subseteq WorldFacts', first' = first, NEW n, NEW i, Stored(n, i)
    PROVE  Stored(n, i)'
<1>1. Imported' = Imported
  BY DEF Imported
<1>2. QED
  BY <1>1, RowsGrow DEF Stored

LEMMA LayerStores ==
    ASSUME ImportInv, Seen, InsertStep, flawless', NEW i \in batch, NEW n, n = layer
    PROVE  Stored(n, i)'
<1>1. /\ Moved(layer)
      /\ layer = 2 => SystemIds(batch) \subseteq cached'
      /\ layer = 3 => \A p \in Kept(FactionPlaces(batch), NameAt) :
                         PresenceKey(p) \in DOMAIN db'.presences
      /\ layer = 4 => BodyIds(batch) \subseteq cached'
      /\ layer = 5 => StationIds(batch) \subseteq cached'
      /\ layer = 6 => DumpSignals(batch) \subseteq bodySignals'
      /\ layer = 7 => RingIds(batch) \subseteq cached'
      /\ layer = 8 => \A p \in ListingPlaces(batch) : ListingKeyAt(p) \in DOMAIN listings'
      /\ layer = 10 => DumpHotspots(batch) \subseteq db'.hotspots
  BY LayerDone
<1>2. cached' \subseteq WorldFacts'
  BY InsertKeepsInv DEF ImportInv, ImportTypeOK
<1>3. Imported' = Imported /\ batch \in SUBSET Imported
  BY InsertStepMoves DEF Imported, Seen, Imports
<1>4. layer = 2 => Dump[i].system \in DOMAIN db'.systems
  <2>1. Fact("system", SystemOf(<<i>>)) \in SystemIds(batch) /\ SystemOf(<<i>>) = Dump[i].system
    BY DEF SystemIds, Known, SystemOf
  <2>2. QED
    BY <1>1, <1>2, <2>1, StoredFactsNext DEF FactsAreRows
<1>5. layer = 3 => \A p \in Kept(FactionPlaces(Imported), NameAt) :
                      p[1] = i => PresenceKey(p) \in DOMAIN db'.presences
  BY <1>1, <1>3, KeptOfPart
<1>6. layer = 4 => \A p \in BodyPlaces(Imported) : p[1] = i => BodyKey(p) \in db'.bodies
  <2>1. ASSUME NEW p \in BodyPlaces(Imported), p[1] = i
        PROVE  Fact("body", BodyKey(p)) \in BodyIds(batch)
    BY <1>3, <2>1, BodyPlacesOfPart DEF BodyIds, Known
  <2>2. QED
    BY <1>1, <1>2, <2>1, StoredFactsNext DEF FactsAreRows
<1>7. layer = 5 => \A p \in StationPlaces(Imported) :
                      p[1] = i => StationKeyAt(p) \in DOMAIN db'.stations
  <2>1. ASSUME NEW p \in StationPlaces(Imported), p[1] = i
        PROVE  Fact("station", StationKeyAt(p)) \in StationIds(batch)
    BY <1>3, <2>1, StationPlacesOfPart DEF StationIds, Known
  <2>2. QED
    BY <1>1, <1>2, <2>1, StoredFactsNext DEF FactsAreRows
<1>8. ASSUME layer = 6, NEW p \in Kept(SignalPlaces(Imported), BodyKey), p[1] = i,
             NEW m \in DOMAIN BodyAt(p).signals
      PROVE  [body |-> BodyKey(p), signal |-> BodyAt(p).signals[m]] \in bodySignals'
  <2>1. p \in Kept(SignalPlaces(batch), BodyKey)
    BY <1>3, <1>8, KeptOfPart
  <2>2. [body |-> BodyKey(p), signal |-> BodyAt(p).signals[m]] \in DumpSignals(batch)
    <3> DEFINE K == Kept(SignalPlaces(batch), BodyKey)
    <3>1. DumpSignals(batch) =
             UNION {{[body |-> BodyKey(q), signal |-> BodyAt(q).signals[o]] :
                       o \in DOMAIN BodyAt(q).signals} : q \in K}
      BY DEF DumpSignals, SignalPlaces
    <3>2. p \in K
      BY <2>1
    <3> HIDE DEF K
    <3>3. QED
      BY <1>8, <3>1, <3>2
  <2>3. QED
    BY <1>1, <1>8, <2>2
<1>9. layer = 7 => \A p \in RingPlaces(Imported) : p[1] = i => RingKey(p) \in db'.rings
  <2>1. ASSUME NEW p \in RingPlaces(Imported), p[1] = i
        PROVE  Fact("ring", RingKey(p)) \in RingIds(batch)
    BY <1>3, <2>1, RingPlacesOfPart DEF RingIds, Known
  <2>2. QED
    BY <1>1, <1>2, <2>1, StoredFactsNext DEF FactsAreRows
<1>10. layer = 8 => \A p \in ListingPlaces(Imported) :
                       p[1] = i => ListingKeyAt(p) \in DOMAIN listings'
  BY <1>1, <1>3, ListingPlacesOfPart
<1>11. ASSUME layer = 10, NEW p \in Kept(HotspotPlaces(Imported), RingKey), p[1] = i,
              NEW m \in DOMAIN RingAt(p).signals
       PROVE  [ring |-> RingKey(p), commodity |-> RingAt(p).signals[m]] \in db'.hotspots
  <2>1. p \in Kept(HotspotPlaces(batch), RingKey)
    BY <1>3, <1>11, KeptOfPart
  <2>2. [ring |-> RingKey(p), commodity |-> RingAt(p).signals[m]] \in DumpHotspots(batch)
    <3> DEFINE K == Kept(HotspotPlaces(batch), RingKey)
    <3>1. DumpHotspots(batch) =
             UNION {{[ring |-> RingKey(q), commodity |-> RingAt(q).signals[o]] :
                       o \in DOMAIN RingAt(q).signals} : q \in K}
      BY DEF DumpHotspots, HotspotPlaces
    <3>2. p \in K
      BY <2>1
    <3> HIDE DEF K
    <3>3. QED
      BY <1>11, <3>1, <3>2
  <2>3. QED
    BY <1>1, <1>11, <2>2
<1>12. QED
  BY <1>3, <1>4, <1>5, <1>6, <1>7, <1>8, <1>9, <1>10, <1>11 DEF Stored

LEMMA WorldGrows ==
    ASSUME ImportInv, [ImportNext]_worldVars PROVE WorldFacts \subseteq WorldFacts'
BY ImportStepInv DEF World!Learn

LEMMA ReadIsImported ==
    ASSUME ImportInv, ReadItem PROVE idx + 1 \in Imported /\ idx \in Nat
BY ItemsOfDump DEF ReadItem, Imported, ImportInv, ImportTypeOK

LEMMA SeenStep ==
    ASSUME ImportInv, Seen, [ImportNext]_worldVars PROVE Seen'
<1> USE DEF Seen, Imports
<1>1. CASE (FeedNext /\ UNCHANGED importVars) \/ UNCHANGED worldVars
  BY <1>1 DEF worldVars, importVars, Imported
<1>2. CASE InsertStep
  <2>1. /\ import = "running" /\ layer \in 1..10
        /\ UNCHANGED <<import, first, idx, pending, batch>>
    BY <1>2, InsertStepMoves
  <2>2. Imported' = Imported
    BY <2>1 DEF Imported
  <2>3. QED
    BY <2>1, <2>2
<1>3. CASE StartImport
  BY <1>3 DEF StartImport
<1>4. CASE SkipItem
  <2>1. Imported' = Imported
    BY <1>4 DEF SkipItem, Imported
  <2>2. QED
    BY <1>4, <2>1 DEF SkipItem, Reading
<1>5. CASE ReadItem
  <2>1. Imported' = Imported /\ idx + 1 \in Imported
    BY <1>5, ReadIsImported DEF ReadItem, Imported
  <2>2. /\ import = "running" /\ import' = "running" /\ layer = 0
        /\ pending' \subseteq pending \cup {idx + 1}
        /\ layer' # 0 => batch' = pending \cup {idx + 1}
    BY <1>5 DEF ReadItem, Reading, Flush
  <2>3. QED
    BY <2>1, <2>2
<1>6. CASE FlushRest
  <2>1. Imported' = Imported
    BY <1>6 DEF FlushRest, Imported
  <2>2. QED
    BY <1>6, <2>1 DEF FlushRest, Reading
<1>7. CASE FinishImport
  <2>1. Imported' = Imported
    BY <1>7 DEF FinishImport, Imported
  <2>2. QED
    BY <1>7, <2>1 DEF FinishImport, Reading
<1>8. CASE LookupRaises \/ ImportKilled
  BY <1>8 DEF LookupRaises, ImportKilled
<1>9. QED
  BY <1>1, <1>2, <1>3, <1>4, <1>5, <1>6, <1>7, <1>8
     DEF ImportNext, InsertSystems, InsertStep

\* Whatever is done after a step was done before it, or in this very layer.
LEMMA DoneStep ==
    ASSUME ImportInv, Seen, [ImportNext]_worldVars, Imports', NEW n \in 1..10,
           NEW i \in Done(n)', ~ StartImport
    PROVE  /\ first' = first /\ Imports /\ (flawless' => flawless)
           /\ i \in Done(n) \/ (InsertStep /\ n = layer /\ i \in batch)
<1> USE DEF Seen, Imports
<1>1. CASE (FeedNext /\ UNCHANGED importVars) \/ UNCHANGED worldVars
  BY <1>1 DEF worldVars, importVars, Imported, Done
<1>2. CASE InsertStep
  <2>1. /\ import = "running" /\ layer \in 1..10
        /\ layer' = (IF layer = 10 THEN 0 ELSE layer + 1)
        /\ UNCHANGED <<import, first, idx, pending, batch>>
    BY <1>2, InsertStepMoves
  <2>2. flawless' => flawless
    BY <1>2, LayerDone DEF Moved
  <2>3. Imported' = Imported
    BY <2>1 DEF Imported
  <2>4. i \in Imported /\ i <= idx /\ i \notin pending /\ ~ (i \in batch /\ layer' \in 1..n)
    BY <2>1, <2>3 DEF Done
  <2>5. layer \in 1..n /\ layer # n => layer' \in 1..n
    BY <2>1
  <2>6. i \in Done(n) \/ (n = layer /\ i \in batch)
    BY <2>4, <2>5 DEF Done
  <2>7. QED
    BY <1>2, <2>1, <2>2, <2>6
<1>3. CASE SkipItem
  <2>1. /\ UNCHANGED <<import, first, pending, batch, layer, flawless>>
        /\ import = "running" /\ idx' = idx + 1 /\ idx \in Nat
        /\ idx + 1 < first \/ Dump[idx + 1] = Null
    BY <1>3 DEF SkipItem, Reading, ImportInv, ImportTypeOK
  <2>2. Imported' = Imported /\ idx + 1 \notin Imported
    BY <2>1, SpanshAssumption DEF Imported, ImportInv, ImportTypeOK
  <2>3. i \in Imported /\ i <= idx + 1 /\ i \notin pending /\ ~ (i \in batch /\ layer \in 1..n)
    BY <2>1, <2>2 DEF Done
  <2>4. i \in Nat /\ i # idx + 1
    BY <2>2, <2>3 DEF Imported
  <2>5. QED
    BY <2>1, <2>3, <2>4 DEF Done
<1>4. CASE ReadItem
  <2>1. /\ UNCHANGED <<import, first, flawless>> /\ layer = 0
        /\ import = "running" /\ idx' = idx + 1 /\ idx \in Nat
    BY <1>4 DEF ReadItem, Reading, ImportInv, ImportTypeOK
  <2>2. \/ pending' = pending \cup {idx + 1}
        \/ layer' = 1 /\ batch' = pending \cup {idx + 1}
    BY <1>4 DEF ReadItem, Flush
  <2>3. Imported' = Imported
    BY <2>1 DEF Imported
  <2>4. i \in Imported /\ i <= idx + 1 /\ i \notin pending' /\ ~ (i \in batch' /\ layer' \in 1..n)
    BY <2>1, <2>3 DEF Done
  <2>5. i \notin pending /\ i # idx + 1 /\ i \in Nat
    BY <2>2, <2>4 DEF Imported
  <2>6. QED
    BY <2>1, <2>4, <2>5 DEF Done
<1>5. CASE FlushRest
  <2>1. /\ UNCHANGED <<import, first, idx, flawless>> /\ layer = 0
        /\ import = "running" /\ layer' = 1 /\ batch' = pending
    BY <1>5 DEF FlushRest, Reading
  <2>2. i \in Imported /\ i <= idx /\ i \notin pending
    BY <2>1 DEF Done, Imported
  <2>3. QED
    BY <2>1, <2>2 DEF Done
<1>6. CASE FinishImport
  <2>1. UNCHANGED <<first, idx, pending, batch, layer, flawless>> /\ import = "running"
    BY <1>6 DEF FinishImport, Reading
  <2>2. QED
    BY <2>1 DEF Done, Imported
<1>7. CASE LookupRaises \/ ImportKilled
  BY <1>7 DEF LookupRaises, ImportKilled
<1>8. QED
  BY <1>1, <1>2, <1>3, <1>4, <1>5, <1>6, <1>7 DEF ImportNext, InsertSystems, InsertStep

LEMMA DoneStoredStep ==
    ASSUME ImportInv, Seen, DoneStored, [ImportNext]_worldVars PROVE DoneStored'
<1> SUFFICES ASSUME flawless', Imports', NEW n \in 1..10, NEW i \in Done(n)'
             PROVE  Stored(n, i)'
  BY DEF DoneStored
<1>1. WorldFacts \subseteq WorldFacts'
  BY WorldGrows
<1>2. CASE StartImport
  <2>1. idx' = 0 /\ Imported' \subseteq 1..Len(Dump)
    BY <1>2 DEF StartImport, Imported
  <2>2. i \in 1..Len(Dump) /\ i <= 0
    BY <2>1 DEF Done
  <2>3. QED
    BY <2>2, ItemsOfDump
<1>3. CASE ~ StartImport
  <2>1. /\ first' = first /\ Imports /\ (flawless' => flawless)
        /\ i \in Done(n) \/ (InsertStep /\ n = layer /\ i \in batch)
    BY <1>3, DoneStep
  <2>2. CASE i \in Done(n)
    <3>1. Stored(n, i)
      BY <2>1, <2>2 DEF DoneStored
    <3>2. QED
      BY <1>1, <2>1, <3>1, StoredStays
  <2>3. CASE InsertStep /\ n = layer /\ i \in batch
    BY <2>3, LayerStores
  <2>4. QED
    BY <2>1, <2>2, <2>3
<1>4. QED
  BY <1>2, <1>3

LEMMA AllDoneIsOneBatch ==
    ASSUME ImportInv, Seen, DoneStored, import = "done", flawless
    PROVE  AsOneBatch(Imported)
<1>1. idx = Len(Dump) /\ pending = {} /\ layer = 0
  BY DEF Seen
<1>2. \A n \in 1..10 : Done(n) = Imported
  BY <1>1, ItemsOfDump DEF Done, Imported
<1>3. \A n \in 1..10 : \A i \in Imported : Stored(n, i)
  BY <1>2 DEF DoneStored, Imports
<1>4. \A i \in Imported : Dump[i].system \in DOMAIN db.systems
  BY <1>3 DEF Stored
<1>5. \A p \in Kept(FactionPlaces(Imported), NameAt) : PresenceKey(p) \in DOMAIN db.presences
  <2>1. \A p \in Kept(FactionPlaces(Imported), NameAt) : p[1] \in Imported
    BY FactionPlaceIs DEF Kept
  <2>2. QED
    BY <1>3, <2>1 DEF Stored
<1>6. \A p \in BodyPlaces(Imported) : p[1] \in Imported /\ BodyKey(p) \in db.bodies
  <2>1. \A p \in BodyPlaces(Imported) : p[1] \in Imported
    BY BodyPlaceIs
  <2>2. QED
    BY <1>3, <2>1 DEF Stored
<1>7. \A p \in StationPlaces(Imported) :
         p[1] \in Imported /\ StationKeyAt(p) \in DOMAIN db.stations
  <2>1. \A p \in StationPlaces(Imported) : p[1] \in Imported
    BY StationPlacesOfPart
  <2>2. QED
    BY <1>3, <2>1 DEF Stored
<1>8. DumpSignals(Imported) \subseteq bodySignals
  <2>1. DumpSignals(Imported) =
           UNION {{[body |-> BodyKey(p), signal |-> BodyAt(p).signals[m]] :
                     m \in DOMAIN BodyAt(p).signals} :
                   p \in Kept(SignalPlaces(Imported), BodyKey)}
    BY DEF DumpSignals, SignalPlaces
  <2>2. \A p \in Kept(SignalPlaces(Imported), BodyKey) : p[1] \in Imported
    BY BodyPlaceIs DEF Kept, SignalPlaces
  <2> DEFINE K == Kept(SignalPlaces(Imported), BodyKey)
  <2>3. ASSUME NEW p \in K, NEW m \in DOMAIN BodyAt(p).signals
        PROVE  [body |-> BodyKey(p), signal |-> BodyAt(p).signals[m]] \in bodySignals
    <3>1. Stored(6, p[1])
      BY <1>3, <2>2
    <3>2. QED
      BY <3>1 DEF Stored
  <2>4. DumpSignals(Imported) = UNION {{[body |-> BodyKey(p), signal |-> BodyAt(p).signals[m]] :
                     m \in DOMAIN BodyAt(p).signals} : p \in K}
    BY <2>1
  <2> HIDE DEF K
  <2>5. QED
    BY <2>3, <2>4
<1>9. \A p \in RingPlaces(Imported) : p[1] \in Imported /\ RingKey(p) \in db.rings
  <2>1. \A p \in RingPlaces(Imported) : p[1] \in Imported
    BY RingPlacesOfPart
  <2>2. QED
    BY <1>3, <2>1 DEF Stored
<1>10. \A p \in ListingPlaces(Imported) : ListingKeyAt(p) \in DOMAIN listings
  <2>1. \A p \in ListingPlaces(Imported) : p[1] \in Imported
    BY ListingPlacesOfPart
  <2>2. QED
    BY <1>3, <2>1 DEF Stored
<1>11. DumpHotspots(Imported) \subseteq db.hotspots
  <2>1. DumpHotspots(Imported) =
           UNION {{[ring |-> RingKey(p), commodity |-> RingAt(p).signals[m]] :
                     m \in DOMAIN RingAt(p).signals} :
                   p \in Kept(HotspotPlaces(Imported), RingKey)}
    BY DEF DumpHotspots, HotspotPlaces
  <2>2. \A p \in Kept(HotspotPlaces(Imported), RingKey) : p[1] \in Imported
    BY <1>9 DEF Kept, HotspotPlaces
  <2> DEFINE K == Kept(HotspotPlaces(Imported), RingKey)
  <2>3. ASSUME NEW p \in K, NEW m \in DOMAIN RingAt(p).signals
        PROVE  [ring |-> RingKey(p), commodity |-> RingAt(p).signals[m]] \in db.hotspots
    <3>1. Stored(10, p[1])
      BY <1>3, <2>2
    <3>2. QED
      BY <3>1 DEF Stored
  <2>4. DumpHotspots(Imported) = UNION {{[ring |-> RingKey(p), commodity |-> RingAt(p).signals[m]] :
                     m \in DOMAIN RingAt(p).signals} : p \in K}
    BY <2>1
  <2> HIDE DEF K
  <2>5. QED
    BY <2>3, <2>4
<1>12. QED
  BY <1>4, <1>5, <1>6, <1>7, <1>8, <1>9, <1>10, <1>11 DEF AsOneBatch

(***************************************************************************)
(* Batching shows nowhere, whatever the dump, PROCESS_EVERY and the start, *)
(* and whatever the listener stores meanwhile: an import none of whose     *)
(* batches was refused has stored what one batch of all its items would    *)
(* have.                                                                   *)
(***************************************************************************)
THEOREM CleanImportAppliedCorrect == ImportSpec => []CleanImportApplied
<1>1. ImportInit => Seen /\ DoneStored
  BY DEF ImportInit, Seen, Imports, DoneStored
<1>2. ImportInv /\ Seen /\ [ImportNext]_worldVars => Seen'
  BY SeenStep
<1>3. ImportInv /\ Seen /\ DoneStored /\ [ImportNext]_worldVars => DoneStored'
  BY DoneStoredStep
<1>4. ImportInv /\ Seen /\ DoneStored => CleanImportApplied
  BY AllDoneIsOneBatch DEF CleanImportApplied
<1>5. QED
  BY <1>1, <1>2, <1>3, <1>4, ImportInvAlways, PTL DEF ImportSpec, worldVars

-----------------------------------------------------------------------------
LEMMA FeedLearnsBeside ==
    ASSUME ImportInv, [ImportNext]_worldVars PROVE [AllKB!Learn]_AllFacts
<1>1. CASE (FeedNext /\ UNCHANGED importVars) \/ UNCHANGED worldVars
  <2>1. [FeedNext]_allVars
    BY <1>1 DEF worldVars, allVars
  <2>2. QED
    BY <2>1, FeedStepLearns DEF ImportInv
<1>2. CASE InsertStep
  BY <1>2, InsertStepAdds, AddsLearn DEF AllKB!Learn
<1>3. CASE QuietStep
  <2>1. UNCHANGED <<vars, feedVars>>
    BY <1>3 DEF QuietStep, StartImport, SkipItem, ReadItem, FlushRest, FinishImport,
       LookupRaises, ImportKilled
  <2>2. [FeedNext]_allVars
    BY <2>1 DEF allVars
  <2>3. QED
    BY <2>2, FeedStepLearns DEF ImportInv
<1>4. QED
  BY <1>1, <1>2, <1>3 DEF ImportNext, InsertSystems, InsertStep, QuietStep

LEMMA WholeFeedBeside ==
    ASSUME ImportInv, [ImportNext]_worldVars, FeedCommits, whole' PROVE FeedStored(feed)'
<1>1. CASE (FeedNext /\ UNCHANGED importVars) \/ UNCHANGED worldVars
  <2>1. [FeedNext]_allVars
    BY <1>1 DEF worldVars, allVars
  <2>2. QED
    BY <2>1, WholeFeedStep DEF ImportInv
<1>2. CASE InsertStep
  <2>1. at' = at
    BY <1>2, InsertStepAdds DEF ImportAdds, ListenerRests
  <2>2. QED
    BY <2>1 DEF FeedCommits
<1>3. CASE QuietStep
  <2>1. at' = at
    BY <1>3 DEF QuietStep, StartImport, SkipItem, ReadItem, FlushRest, FinishImport,
       LookupRaises, ImportKilled, feedVars
  <2>2. QED
    BY <2>1 DEF FeedCommits
<1>4. QED
  BY <1>1, <1>2, <1>3 DEF ImportNext, InsertSystems, InsertStep, QuietStep

(***************************************************************************)
(* What the three processors promise they keep beside an import: it adds   *)
(* rows under their hands, and may overwrite a column, but takes none away *)
(* and commits between two of their statements, never within one.          *)
(***************************************************************************)
THEOREM FeedBesideImportCorrect == ImportSpec => FeedLearnsInOrder /\ WholeFeedApplied
<1>1. ImportInit => AllKB!KBInit
  BY DEF ImportInit, FeedInit, Init, AllKB!KBInit, AllFacts, Facts, Columns, Empty
<1>2. ImportInv /\ [ImportNext]_worldVars => [AllKB!Learn]_AllFacts
  BY FeedLearnsBeside
<1>3. ImportInv /\ [ImportNext]_worldVars =>
         [FeedCommits /\ whole' => FeedStored(feed)']_<<vars, feedVars>>
  BY WholeFeedBeside
<1>4. QED
  BY <1>1, <1>2, <1>3, ImportInvAlways, PTL
     DEF ImportSpec, FeedLearnsInOrder, AllKB!KBSpec, WholeFeedApplied, worldVars

=============================================================================
