------------------------- MODULE FeedIngest_proofs -------------------------
(***************************************************************************)
(* Proofs about the three processors together, for every set of messages   *)
(* and any number of failures.                                             *)
(***************************************************************************)
EXTENDS FeedIngest, JournalIngest_proofs, WellFoundedInduction

allVars == <<vars, feedVars>>

ListingShape == \A k \in DOMAIN listings : DOMAIN listings[k] = ListingCols

\* The station in hand is stored, whatever became of the view since.
StationInHand ==
    at \in {"listings", "states"} => StoredKey(station) \in DOMAIN db.stations

FeedInv == Core /\ ListingShape /\ StationInHand

-----------------------------------------------------------------------------
\* What a commodity or a signal message leaves alone.
LEMMA JournalRests ==
    ASSUME Core, UNCHANGED <<msg, todo, known, owner, db, view>>
    PROVE  Core' /\ Facts' = Facts
<1>1. Core'
  BY DEF Core, Shape, Progress, Mapped, ViewStored, OwnerStored
<1>2. Facts' = Facts
  BY DEF Facts
<1>3. QED
  BY <1>1, <1>2

LEMMA JournalGoesOn ==
    ASSUME Core, [Next]_vars
    PROVE  /\ Core' /\ Grows /\ Facts \subseteq Facts'
           /\ \A f \in Facts' \ Facts : FactNeeds(f) \subseteq Facts
<1>1. Core' /\ Grows /\ Grounded
  BY NextCore, StepsAreGrounded
<1>2. QED
  BY <1>1, FactsGrow, NewFactsAreGrounded DEF Core

LEMMA FeedNeeds ==
    ASSUME NEW f \in Facts PROVE AllNeeds(f) = FactNeeds(f)
<1>1. f.kind \notin {"listing", "state", "signal"}
  BY DEF Facts, Columns, Fact
<1>2. QED
  BY <1>1 DEF AllNeeds

\* One key per commodity, all of them of the station in hand.
LEMMA ListingKeys ==
    \A k \in KeysOf(ListingRows(feed)) : k.station = StoredKey(station)
BY DEF KeysOf, ListingRows, Row

LEMMA FeedInitInv == FeedInit => FeedInv
BY InitCore DEF FeedInit, FeedInv, ListingShape, StationInHand, Empty

LEMMA FeedNextInv == FeedInv /\ [FeedNext]_allVars => FeedInv'
<1> SUFFICES ASSUME FeedInv, [FeedNext]_allVars PROVE FeedInv'
  OBVIOUS
<1> USE DEF FeedInv, ListingShape, StationInHand, feedVars, vars
<1>1. CASE Journal
  <2>1. [Next]_vars
    BY <1>1 DEF Journal, Next
  <2>2. Core' /\ Grows
    BY <2>1, JournalGoesOn
  <2>3. DOMAIN db.stations \subseteq DOMAIN db'.stations
    BY <2>2 DEF Grows, Keeps
  <2>4. UNCHANGED feedVars
    BY <1>1 DEF Journal
  <2>5. QED
    BY <2>2, <2>3, <2>4 DEF StoredKey
<1>2. CASE TakeFeed \/ LookupSystem
  BY <1>2, JournalRests DEF TakeFeed, LookupSystem
<1>3. CASE ForgetUnknownSystem \/ ForgetUnknownStation \/ FeedInterrupt
  BY <1>3, JournalRests DEF ForgetUnknownSystem, ForgetUnknownStation, FeedInterrupt, GiveUp
<1>4. CASE LookupStation
  <2>1. Core' /\ db' = db /\ listings' = listings
    BY <1>4, JournalRests DEF LookupStation
  <2>2. StoredKey(station') \in DOMAIN db.stations
    BY <1>4 DEF LookupStation, ViewRows, Core, ViewStored, StoredKey
  <2>3. QED
    BY <2>1, <2>2 DEF StoredKey
<1>5. CASE StoreListings
  <2>1. Core' /\ db' = db /\ station' = station /\ at = "listings"
    BY <1>5, JournalRests DEF StoreListings
  <2>2. PICK ok : listings' = UpsertAll(listings, ListingRows(feed), ListingCols, ok)
    BY <1>5 DEF StoreListings
  <2>3. ListingShape'
    BY <2>2, UpsertAllKeepsValues
  <2>4. QED
    BY <2>1, <2>3 DEF StoredKey
<1>6. CASE StoreStates \/ SkipStates \/ StoreSignals
  BY <1>6, JournalRests DEF StoreStates, SkipStates, StoreSignals
<1>7. CASE UNCHANGED allVars
  BY <1>7, JournalRests DEF allVars, StoredKey
<1>8. QED
  BY <1>1, <1>2, <1>3, <1>4, <1>5, <1>6, <1>7 DEF FeedNext

LEMMA FeedInvAlways == FeedSpec => []FeedInv
BY FeedInitInv, FeedNextInv, PTL DEF FeedSpec, allVars

-----------------------------------------------------------------------------
\* Nothing else changes: the step stutters.
LEMMA NothingLearned ==
    ASSUME Facts' = Facts, UNCHANGED <<listings, states, signals>>
    PROVE  UNCHANGED AllFacts
BY DEF AllFacts

LEMMA JournalLearns ==
    ASSUME FeedInv, [Next]_vars, UNCHANGED feedVars PROVE AllKB!Learn
<1>1. /\ Facts \subseteq Facts'
      /\ \A f \in Facts' \ Facts : FactNeeds(f) \subseteq Facts
  BY JournalGoesOn DEF FeedInv
<1>2. AllFacts \subseteq AllFacts' /\ AllFacts' \ AllFacts \subseteq Facts' \ Facts
  BY <1>1 DEF AllFacts, feedVars
<1>3. ASSUME NEW f \in Facts' \ Facts PROVE AllNeeds(f) \subseteq AllFacts
  <2>1. f.kind \notin {"listing", "state", "signal"}
    BY <1>3 DEF Facts, Columns, Fact
  <2>2. AllNeeds(f) = FactNeeds(f)
    BY <2>1 DEF AllNeeds
  <2>3. QED
    BY <1>1, <1>3, <2>2 DEF AllFacts
<1>4. QED
  BY <1>2, <1>3 DEF AllKB!Learn

LEMMA ListingsLearn ==
    ASSUME FeedInv, StoreListings PROVE AllKB!Learn
<1>1. Facts' = Facts /\ states' = states /\ signals' = signals
  BY JournalRests DEF StoreListings, FeedInv
<1>2. PICK ok : listings' = UpsertAll(listings, ListingRows(feed), ListingCols, ok)
  BY DEF StoreListings
<1>3. Keeps(listings, listings', ListingCols)
      /\ \A k \in DOMAIN listings' : DOMAIN listings'[k] = ListingCols
  BY <1>2, UpsertKeeps DEF FeedInv, ListingShape
<1>4. Columns("listingColumn", listings) \subseteq Columns("listingColumn", listings')
  BY <1>3, ColumnsGrow DEF FeedInv, ListingShape
<1>5. AllFacts \subseteq AllFacts'
  BY <1>1, <1>3, <1>4 DEF AllFacts, Keeps
<1>6. ASSUME NEW f \in AllFacts', f \notin AllFacts PROVE AllNeeds(f) \subseteq AllFacts
  <2>1. CASE \E k \in DOMAIN listings' : f = Fact("listing", k)
    <3>1. PICK k \in DOMAIN listings' : f = Fact("listing", k)
      BY <2>1
    <3>2. k \notin DOMAIN listings
      BY <1>6, <3>1 DEF AllFacts
    <3>3. k.station = StoredKey(station)
      BY <1>2, <3>2, UpsertAllGrows, ListingKeys
    <3>4. StoredKey(station) \in DOMAIN db.stations
      BY DEF StoreListings, FeedInv, StationInHand
    <3>5. AllNeeds(f) = {Fact("station", k.station)}
      BY <3>1 DEF AllNeeds, Fact
    <3>6. QED
      BY <3>3, <3>4, <3>5 DEF AllFacts, Facts
  <2>2. CASE f \in Columns("listingColumn", listings')
    <3>1. f.kind = "listingColumn"
      BY <2>2 DEF Columns, Fact
    <3>2. AllNeeds(f) = {}
      BY <3>1 DEF AllNeeds, FactNeeds
    <3>3. QED
      BY <3>2
  <2>3. QED
    BY <1>1, <1>6, <2>1, <2>2 DEF AllFacts
<1>7. QED
  BY <1>5, <1>6 DEF AllKB!Learn

LEMMA StatesLearn ==
    ASSUME FeedInv, StoreStates PROVE AllKB!Learn
<1>1. Facts' = Facts /\ listings' = listings /\ signals' = signals
  BY JournalRests DEF StoreStates, FeedInv
<1>2. PICK sp \in SystemPresence(feed), tp \in StationPresence(feed) :
         states' \in {states, states \cup StateRows(feed, sp, tp)}
  BY DEF StoreStates
<1>3. sp \in DOMAIN db.presences /\ tp \in DOMAIN db.presences
  BY <1>2 DEF SystemPresence, StationPresence, PresenceOf
<1>4. StoredKey(station) \in DOMAIN db.stations
  BY DEF StoreStates, FeedInv, StationInHand
<1>5. \A r \in StateRows(feed, sp, tp) :
         r.station = StoredKey(station) /\ r.sy_cf_id = sp /\ r.st_cf_id = tp
  BY DEF StateRows
<1>6. AllFacts \subseteq AllFacts'
  BY <1>1, <1>2 DEF AllFacts
<1>7. ASSUME NEW f \in AllFacts', f \notin AllFacts PROVE AllNeeds(f) \subseteq AllFacts
  <2>1. PICK r \in StateRows(feed, sp, tp) : f = Fact("state", r)
    BY <1>1, <1>2, <1>7 DEF AllFacts
  <2>2. AllNeeds(f) = {Fact("station", r.station), Fact("presence", r.sy_cf_id),
                       Fact("presence", r.st_cf_id)}
    BY <2>1 DEF AllNeeds, Fact
  <2>3. QED
    BY <1>3, <1>4, <1>5, <2>1, <2>2 DEF AllFacts, Facts
<1>8. QED
  BY <1>6, <1>7 DEF AllKB!Learn

LEMMA SignalsLearn ==
    ASSUME FeedInv, StoreSignals PROVE AllKB!Learn
<1>1. Facts' = Facts /\ listings' = listings /\ states' = states
  BY JournalRests DEF StoreSignals, FeedInv
<1>2. signals' \in {signals, signals \cup SignalRows(feed)}
      /\ feed.system \in DOMAIN db.systems
  BY DEF StoreSignals
<1>3. \A r \in SignalRows(feed) : r.system = feed.system
  BY DEF SignalRows
<1>4. AllFacts \subseteq AllFacts'
  BY <1>1, <1>2 DEF AllFacts
<1>5. ASSUME NEW f \in AllFacts', f \notin AllFacts PROVE AllNeeds(f) \subseteq AllFacts
  <2>1. PICK r \in SignalRows(feed) : f = Fact("signal", r)
    BY <1>1, <1>2, <1>5 DEF AllFacts
  <2>2. AllNeeds(f) = {Fact("system", r.system)}
    BY <2>1 DEF AllNeeds, Fact
  <2>3. QED
    BY <1>2, <1>3, <2>1, <2>2 DEF AllFacts, Facts
<1>6. QED
  BY <1>4, <1>5 DEF AllKB!Learn

LEMMA FeedStepLearns ==
    ASSUME FeedInv, [FeedNext]_allVars PROVE [AllKB!Learn]_AllFacts
<1> USE DEF FeedInv, feedVars, vars
<1>1. CASE Journal
  <2>1. [Next]_vars /\ UNCHANGED feedVars
    BY <1>1 DEF Journal, Next
  <2>2. QED
    BY <2>1, JournalLearns
<1>2. CASE TakeFeed \/ LookupSystem
  BY <1>2, JournalRests, NothingLearned DEF TakeFeed, LookupSystem
<1>3. CASE ForgetUnknownSystem \/ ForgetUnknownStation \/ FeedInterrupt
  BY <1>3, JournalRests, NothingLearned
     DEF ForgetUnknownSystem, ForgetUnknownStation, FeedInterrupt, GiveUp
<1>4. CASE LookupStation
  BY <1>4, JournalRests, NothingLearned DEF LookupStation
<1>5. CASE StoreListings
  BY <1>5, ListingsLearn
<1>6. CASE StoreStates
  BY <1>6, StatesLearn
<1>7. CASE SkipStates
  BY <1>7, JournalRests, NothingLearned DEF SkipStates
<1>8. CASE StoreSignals
  BY <1>8, SignalsLearn
<1>9. CASE UNCHANGED allVars
  BY <1>9, JournalRests, NothingLearned DEF allVars
<1>10. QED
  BY <1>1, <1>2, <1>3, <1>4, <1>5, <1>6, <1>7, <1>8, <1>9 DEF FeedNext

(***************************************************************************)
(* The three processors of eddn/processors implement the knowledge base:   *)
(* in whatever order journal, commodity and signal messages come, however  *)
(* old the view and wherever a message is given up.                        *)
(***************************************************************************)
THEOREM FeedLearnsInOrderCorrect == FeedSpec => FeedLearnsInOrder
<1>1. FeedInit => AllKB!KBInit
  BY DEF FeedInit, Init, AllKB!KBInit, AllFacts, Facts, Columns, Empty
<1>2. FeedInv /\ [FeedNext]_allVars => [AllKB!Learn]_AllFacts
  BY FeedStepLearns
<1>3. QED
  BY <1>1, <1>2, FeedInvAlways, PTL
     DEF FeedSpec, FeedLearnsInOrder, AllKB!KBSpec, allVars

-----------------------------------------------------------------------------
(***************************************************************************)
(* Types, and what is known of the message in hand and of its station.     *)
(***************************************************************************)
FeedHand ==
    /\ at # "idle" => feed \in FeedMessages
    /\ at \in {"station", "listings", "states"} => feed.schema = "commodity"
    /\ at \in {"listings", "states"} =>
          /\ station.name = feed.station
          /\ SystemIn(station.owner) = feed.system

FeedTyped == FeedTypeOK /\ FeedHand

LEMMA FeedMessageFields ==
    ASSUME NEW m \in FeedMessages
    PROVE  /\ m.schema \in {"commodity", "signals"} /\ m.system \in Systems
           /\ m.time \in Nat /\ m.time # Null /\ m.items \in Seq(OrNull(Values))
BY FeedAssumption, JournalAssumption DEF FeedMessage

LEMMA HandStep ==
    ASSUME Core, FeedHand, [FeedNext]_allVars PROVE FeedHand'
<1> USE DEF FeedHand, feedVars, allVars
<1>1. CASE LookupStation
  <2>1. station' \in view /\ station'.name = feed.station /\ station'.system = feed.system
    BY <1>1 DEF LookupStation, ViewRows
  <2>2. SystemIn(station'.owner) = feed.system
    BY <2>1 DEF Core, ViewStored
  <2>3. QED
    BY <1>1, <2>1, <2>2 DEF LookupStation, SystemIn
<1>2. CASE Journal \/ UNCHANGED allVars
  BY <1>2 DEF Journal, SystemIn
<1>3. CASE TakeFeed \/ LookupSystem
  BY <1>3 DEF TakeFeed, LookupSystem
<1>4. CASE ForgetUnknownSystem \/ ForgetUnknownStation \/ FeedInterrupt
  BY <1>4 DEF ForgetUnknownSystem, ForgetUnknownStation, FeedInterrupt, GiveUp
<1>5. CASE StoreListings \/ StoreStates \/ SkipStates \/ StoreSignals
  BY <1>5 DEF StoreListings, StoreStates, SkipStates, StoreSignals, SystemIn
<1>6. QED
  BY <1>1, <1>2, <1>3, <1>4, <1>5 DEF FeedNext

LEMMA ListingsStayTyped ==
    ASSUME FeedInv, TablesTyped, FeedTyped, StoreListings PROVE FeedTypeOK'
<1> DEFINE rows == ListingRows(feed)
<1>1. PICK dbOk \in BOOLEAN :
         /\ listings' = UpsertAll(listings, rows, ListingCols,
                dbOk /\ \A i \in DOMAIN rows : rows[i].key.commodity \in Commodities)
         /\ whole' \in BOOLEAN
  BY DEF StoreListings, FeedTyped, FeedTypeOK
<1> DEFINE ok == dbOk /\ \A i \in DOMAIN rows : rows[i].key.commodity \in Commodities
<1>2. StoredKey(station) \in StationKey
  BY DEF FeedInv, StationInHand, StoreListings, TablesTyped
<1>3. ASSUME NEW k \in DOMAIN listings'
      PROVE  k.station \in StationKey /\ k.commodity \in Commodities
  <2>1. CASE k \in DOMAIN listings
    BY <2>1 DEF FeedTyped, FeedTypeOK
  <2>2. CASE k \notin DOMAIN listings
    <3> HIDE DEF rows
    <3>1. Accepted(rows, ok) /\ k \in KeysOf(rows)
      BY <1>1, <1>3, <2>2 DEF UpsertAll, Merge
    <3>2. ok
      BY <3>1 DEF Accepted
    <3>3. k.commodity \in Commodities
      BY <3>1, <3>2 DEF KeysOf
    <3>4. k.station = StoredKey(station)
      BY <3>1, ListingKeys DEF rows
    <3>5. QED
      BY <1>2, <3>3, <3>4
  <2>3. QED
    BY <2>1, <2>2
<1>4. QED
  BY <1>1, <1>3 DEF FeedTyped, FeedTypeOK, StoreListings

LEMMA StatesStayTyped ==
    ASSUME FeedInv, TablesTyped, FeedTyped, StoreStates PROVE FeedTypeOK'
<1>1. PICK sp \in SystemPresence(feed), tp \in StationPresence(feed) :
         /\ states' \in {states, states \cup StateRows(feed, sp, tp)}
         /\ whole' \in BOOLEAN
  BY DEF StoreStates, FeedTyped, FeedTypeOK
<1>2. sp \in Presence
  BY DEF SystemPresence, PresenceOf, TablesTyped
<1>3. StoredKey(station) \in StationKey
  BY DEF FeedInv, StationInHand, StoreStates, TablesTyped
<1>4. \A r \in StateRows(feed, sp, tp) : r.station \in StationKey /\ r.sy_cf_id \in Presence
  BY <1>2, <1>3 DEF StateRows
<1>5. QED
  BY <1>1, <1>4 DEF FeedTyped, FeedTypeOK, StoreStates

LEMMA SignalsStayTyped ==
    ASSUME FeedTyped, StoreSignals PROVE FeedTypeOK'
<1>1. signals' \in {signals, signals \cup SignalRows(feed)} /\ whole' \in BOOLEAN
  BY DEF StoreSignals, FeedTyped, FeedTypeOK
<1>2. feed.system \in Systems
  BY FeedMessageFields DEF StoreSignals, FeedTyped, FeedHand
<1>3. \A r \in SignalRows(feed) : r.system \in Systems
  BY <1>2 DEF SignalRows
<1>4. QED
  BY <1>1, <1>3 DEF FeedTyped, FeedTypeOK, StoreSignals

LEMMA FeedTypedStep ==
    ASSUME FeedInv, TablesTyped, FeedTyped, [FeedNext]_allVars PROVE FeedTyped'
<1> USE DEF FeedTyped
<1>1. FeedHand'
  BY HandStep DEF FeedInv
<1>2. CASE Journal \/ UNCHANGED allVars
  BY <1>1, <1>2 DEF Journal, allVars, feedVars, FeedTypeOK
<1>3. CASE TakeFeed \/ LookupSystem
  BY <1>1, <1>3 DEF TakeFeed, LookupSystem, FeedTypeOK, OrNull
<1>4. CASE ForgetUnknownSystem \/ ForgetUnknownStation \/ FeedInterrupt
  BY <1>1, <1>4
     DEF ForgetUnknownSystem, ForgetUnknownStation, FeedInterrupt, GiveUp, FeedTypeOK
<1>5. CASE LookupStation \/ SkipStates
  BY <1>1, <1>5 DEF LookupStation, SkipStates, FeedTypeOK
<1>6. QED
  BY <1>1, <1>2, <1>3, <1>4, <1>5, ListingsStayTyped, StatesStayTyped, SignalsStayTyped
     DEF FeedNext

\* A commodity or a signal message leaves the journal's types alone.
LEMMA JournalStaysTyped ==
    ASSUME Core, Typed, [FeedNext]_allVars PROVE Typed'
<1> USE DEF feedVars, vars, allVars
<1>1. CASE Journal
  BY <1>1, TypedStep DEF Journal, Next
<1>2. CASE ~ Journal
  <2>1. UNCHANGED <<msg, todo, known, owner, db, view, clean, announced>>
    BY <1>2 DEF FeedNext, TakeFeed, ForgetUnknownSystem, LookupSystem, LookupStation,
       ForgetUnknownStation, StoreListings, StoreStates, SkipStates, StoreSignals,
       FeedInterrupt, GiveUp
  <2>2. \/ dbErrors' = dbErrors
        \/ dbErrors < MaxDbErrors /\ dbErrors' = dbErrors + 1
    BY <1>2 DEF FeedNext, TakeFeed, ForgetUnknownSystem, LookupSystem, LookupStation,
       ForgetUnknownStation, StoreListings, StoreStates, SkipStates, StoreSignals,
       FeedInterrupt, GiveUp, Statement
  <2>3. dbErrors \in 0..MaxDbErrors /\ MaxDbErrors \in Nat
    BY JournalAssumption DEF Typed, JournalTypeOK
  <2>4. dbErrors' \in 0..MaxDbErrors
    BY <2>2, <2>3
  <2>5. QED
    BY <2>1, <2>4 DEF Typed, JournalTypeOK, InHand, Resolved
<1>3. QED
  BY <1>1, <1>2

LEMMA TablesAreTyped == ASSUME Typed PROVE TablesTyped
BY DEF Typed, JournalTypeOK, TablesTyped

LEMMA FeedInitTyped == FeedInit => FeedTyped
BY DEF FeedInit, FeedTyped, FeedTypeOK, FeedHand, OrNull, Empty

-----------------------------------------------------------------------------
(* What a message of the feed leaves behind. *)

\* The least element: what induction over the numbers rests on here.
LEMMA NatMin ==
    ASSUME NEW T, T \subseteq Nat, T # {} PROVE \E x \in T : \A y \in T : x <= y
<1> DEFINE R == OpToRel(<, Nat)
<1>1. IsWellFoundedOn(R, Nat)
  BY NatLessThanWellFounded, Zenon
<1>2. \A x, y \in Nat : x < y => <<x, y>> \in R
  BY DEF OpToRel
<1> HIDE DEF R
<1>3. \E x \in T : \A y \in T : ~ (<<y, x>> \in R)
  BY <1>1, WFMin, Zenon
<1>4. PICK x \in T : \A y \in T : ~ (<<y, x>> \in R)
  BY <1>3, Zenon
<1>5. \A y \in T : ~ (y < x)
  BY <1>2, <1>4, Zenon
<1>6. \A y \in T : x <= y
  BY <1>5
<1>7. QED
  BY <1>6, Zenon

(***************************************************************************)
(* Every commodity the code has a symbol for is among the symbols.         *)
(***************************************************************************)
LEMMA SymbolsKept ==
    ASSUME NEW m, NEW S, m.items \in Seq(S)
    PROVE  /\ Symbols(m) \in Seq(S)
           /\ \A i \in DOMAIN m.items : m.items[i] # Null =>
                 \E j \in DOMAIN Symbols(m) : Symbols(m)[j] = m.items[i]
<1> DEFINE next(g, i) == IF m.items[i] = Null THEN g[i - 1] ELSE Append(g[i - 1], m.items[i])
           IsUpTo(g, n) == g = [i \in 0..n |-> IF i = 0 THEN <<>> ELSE next(g, i)]
<1>1. ASSUME NEW n \in Nat PROVE \E g : IsUpTo(g, n)
  <2> DEFINE T == {l \in Nat : ~ \E g : IsUpTo(g, l)}
  <2> SUFFICES ASSUME T # {} PROVE FALSE
    OBVIOUS
  <2>1. PICK l \in T : \A y \in T : l <= y
    <3>1. T \subseteq Nat
      OBVIOUS
    <3>2. QED
      BY <3>1, NatMin, Zenon
  <2>2. l # 0
    <3>1. IsUpTo([i \in 0..0 |-> <<>>], 0)
      OBVIOUS
    <3>2. QED
      BY <3>1, <2>1
  <2>3. l - 1 \in Nat /\ l - 1 \notin T
    BY <2>1, <2>2
  <2>4. PICK g : IsUpTo(g, l - 1)
    BY <2>3
  <2> DEFINE h == [i \in 0..l |-> IF i < l THEN g[i] ELSE next(g, l)]
  <2>5. \A i \in 0..l : h[i] = IF i = 0 THEN <<>> ELSE next(h, i)
    <3> TAKE i \in 0..l
    <3>1. CASE i = 0
      <4>1. 0 \in 0..(l - 1) /\ 0 < l
        BY <2>1, <2>3
      <4>2. g[0] = <<>>
        BY <2>4, <4>1
      <4>3. QED
        BY <3>1, <4>1, <4>2
    <3>2. CASE 0 < i /\ i < l
      <4>1. i \in 0..(l - 1) /\ i - 1 \in 0..l /\ i - 1 < l /\ i # 0
        BY <2>1, <3>2
      <4>2. g[i] = next(g, i)
        BY <2>4, <4>1
      <4>3. h[i - 1] = g[i - 1] /\ h[i] = g[i]
        BY <3>2, <4>1
      <4>4. QED
        BY <4>1, <4>2, <4>3
    <3>3. CASE i = l
      <4>1. l - 1 \in 0..l /\ l - 1 < l /\ ~ (l < l)
        BY <2>1, <2>3
      <4>2. h[l - 1] = g[l - 1] /\ h[l] = next(g, l)
        BY <4>1
      <4>3. QED
        BY <2>2, <3>3, <4>2
    <3>4. QED
      BY <2>1, <3>1, <3>2, <3>3
  <2>6. IsUpTo(h, l)
    <3>1. h = [i \in 0..l |-> h[i]]
      OBVIOUS
    <3> HIDE DEF h
    <3>2. QED
      BY <2>5, <3>1
  <2>7. QED
    BY <2>1, <2>6
<1> DEFINE N == Len(m.items)
           f == CHOOSE g : IsUpTo(g, N)
<1>2. N \in Nat /\ Symbols(m) = f[N]
  BY DEF Symbols
<1>3. IsUpTo(f, N)
  BY <1>1, <1>2
<1> HIDE DEF f
<1>4. f[0] = <<>> /\ \A i \in 1..N : f[i] = next(f, i)
  <2>1. \A i \in 0..N : f[i] = IF i = 0 THEN <<>> ELSE next(f, i)
    BY <1>3
  <2>2. QED
    BY <1>2, <2>1
<1> DEFINE Holds(n) ==
      /\ f[n] \in Seq(S)
      /\ \A i \in 1..n : m.items[i] # Null =>
            \E j \in 1..Len(f[n]) : f[n][j] = m.items[i]
<1>5. \A n \in 0..N : Holds(n)
  <2> DEFINE T == {l \in 0..N : ~ Holds(l)}
  <2> SUFFICES ASSUME T # {} PROVE FALSE
    OBVIOUS
  <2>1. PICK l \in T : \A y \in T : l <= y
    <3>1. T \subseteq Nat
      BY <1>2
    <3>2. QED
      BY <3>1, NatMin, Zenon
  <2>2. Holds(0)
    BY <1>4
  <2>3. l \in 1..N /\ l - 1 \in 0..N /\ ~ (l <= l - 1)
    BY <1>2, <2>1, <2>2
  <2>4. Holds(l - 1)
    BY <2>1, <2>3
  <2>5. m.items[l] \in S
    BY <1>2, <2>3
  <2>6. f[l] = next(f, l)
    BY <1>4, <2>3
  <2>7. Holds(l)
    <3>1. CASE m.items[l] = Null
      <4>1. f[l] = f[l - 1]
        BY <2>6, <3>1
      <4>2. \A i \in 1..l : m.items[i] # Null => i \in 1..(l - 1)
        BY <2>3, <3>1
      <4>3. QED
        BY <2>4, <4>1, <4>2
    <3>2. CASE m.items[l] # Null
      <4> DEFINE q == f[l - 1]
                 r == f[l]
      <4>1. q \in Seq(S) /\ r = Append(q, m.items[l])
        BY <2>4, <2>6, <3>2
      <4> HIDE DEF q, r
      <4>2. /\ r \in Seq(S) /\ Len(q) \in Nat /\ Len(r) = Len(q) + 1
            /\ r[Len(q) + 1] = m.items[l]
            /\ \A j \in 1..Len(q) : r[j] = q[j]
        BY <2>5, <4>1
      <4>3. ASSUME NEW i \in 1..l, m.items[i] # Null
            PROVE  \E j \in 1..Len(r) : r[j] = m.items[i]
        <5>1. CASE i = l
          <6>1. Len(q) + 1 \in 1..Len(r)
            BY <4>2
          <6>2. QED
            BY <4>2, <5>1, <6>1
        <5>2. CASE i # l
          <6>1. i \in 1..(l - 1)
            BY <2>3, <5>2
          <6>2. PICK j \in 1..Len(q) : q[j] = m.items[i]
            BY <2>4, <4>3, <6>1 DEF q
          <6>3. j \in 1..Len(r)
            BY <4>2
          <6>4. QED
            BY <4>2, <6>2, <6>3
        <5>3. QED
          BY <5>1, <5>2
      <4>4. QED
        BY <4>2, <4>3 DEF r
    <3>3. QED
      BY <3>1, <3>2
  <2>8. QED
    BY <2>1, <2>7
<1>6. Holds(N)
  BY <1>2, <1>5
<1>7. QED
  BY <1>2, <1>6

LEMMA ListingRowsShape ==
    ASSUME NEW m, NEW S, m.items \in Seq(S)
    PROVE  /\ DOMAIN ListingRows(m) = DOMAIN Symbols(m)
           /\ \A i \in DOMAIN ListingRows(m) :
                 /\ ListingRows(m)[i].key
                       = [station |-> StoredKey(station), commodity |-> Symbols(m)[i]]
                 /\ ListingRows(m)[i].cols = [c \in ListingCols |-> m.time]
           /\ Symbols(m) # <<>> => ListingRows(m) # <<>> /\ 1 \in DOMAIN ListingRows(m)
<1>1. /\ DOMAIN ListingRows(m) = DOMAIN Symbols(m)
      /\ \A i \in DOMAIN ListingRows(m) :
            /\ ListingRows(m)[i].key
                  = [station |-> StoredKey(station), commodity |-> Symbols(m)[i]]
            /\ ListingRows(m)[i].cols = [c \in ListingCols |-> m.time]
  BY DEF ListingRows, Row
<1>2. Symbols(m) \in Seq(S)
  BY SymbolsKept
<1>3. Symbols(m) # <<>> => 1 \in DOMAIN Symbols(m)
  BY <1>2
<1>4. QED
  BY <1>1, <1>3

LEMMA ListingsAreStored ==
    ASSUME FeedInv, FeedHand, StoreListings, whole' PROVE FeedStored(feed)'
<1> DEFINE rows == ListingRows(feed)
<1>1. PICK dbOk \in BOOLEAN, ok \in BOOLEAN :
         /\ listings' = UpsertAll(listings, rows, ListingCols, ok)
         /\ rows = <<>> \/ Accepted(rows, ok)
  BY DEF StoreListings
<1>2. feed \in FeedMessages /\ feed' = feed /\ feed.schema = "commodity"
      /\ station.name = feed.station /\ SystemIn(station.owner) = feed.system
  BY DEF FeedHand, StoreListings
<1>3. feed.items \in Seq(OrNull(Values)) /\ feed.time # Null
  BY <1>2, FeedMessageFields
<1>4. ASSUME NEW i \in DOMAIN feed.items, feed.items[i] # Null
      PROVE  \E k \in DOMAIN listings' :
                /\ k.commodity = feed.items[i]
                /\ k.station.name = feed.station
                /\ SystemIn(k.station.owner) = feed.system
                /\ listings'[k]["updated_at"] = feed.time
  <2>1. PICK j \in DOMAIN Symbols(feed) : Symbols(feed)[j] = feed.items[i]
    BY <1>3, <1>4, SymbolsKept
  <2>2. /\ j \in DOMAIN rows
        /\ rows[j].key = [station |-> StoredKey(station), commodity |-> feed.items[i]]
        /\ rows # <<>> /\ 1 \in DOMAIN rows
        /\ rows[1].cols = [c \in ListingCols |-> feed.time]
        /\ rows[j].cols = [c \in ListingCols |-> feed.time]
    <3>1. Symbols(feed) # <<>>
      BY <2>1
    <3>2. /\ DOMAIN rows = DOMAIN Symbols(feed)
          /\ \A l \in DOMAIN rows :
                /\ rows[l].key
                      = [station |-> StoredKey(station), commodity |-> Symbols(feed)[l]]
                /\ rows[l].cols = [c \in ListingCols |-> feed.time]
          /\ rows # <<>> /\ 1 \in DOMAIN rows
      BY <1>3, <3>1, ListingRowsShape
    <3> HIDE DEF rows
    <3>3. QED
      BY <2>1, <3>2
  <2> HIDE DEF rows
  <2>3. /\ rows[j].key \in DOMAIN listings'
        /\ \A c \in ListingCols : c \in DOMAIN rows[1].cols /\ rows[j].cols[c] # Null =>
              listings'[rows[j].key][c] = rows[j].cols[c]
    BY <1>1, <2>2, UpsertAllWrites
  <2>4. listings'[rows[j].key]["updated_at"] = feed.time
    BY <1>3, <2>2, <2>3 DEF ListingCols
  <2>5. rows[j].key.commodity = feed.items[i] /\ rows[j].key.station = StoredKey(station)
    BY <2>2
  <2>6. StoredKey(station).name = station.name /\ StoredKey(station).owner = station.owner
    BY DEF StoredKey
  <2>7. QED
    BY <1>2, <2>3, <2>4, <2>5, <2>6
<1>5. QED
  BY <1>2, <1>4 DEF FeedStored, SystemIn

LEMMA SignalsAreStored ==
    ASSUME FeedHand, StoreSignals, whole' PROVE FeedStored(feed)'
<1>1. feed \in FeedMessages /\ feed' = feed /\ feed.schema = "signals"
  BY DEF FeedHand, StoreSignals
<1>2. signals' = signals \cup SignalRows(feed)
  BY DEF StoreSignals
<1>3. ASSUME NEW i \in DOMAIN feed.items, feed.items[i] # Null
      PROVE  [system |-> feed.system, signal |-> feed.items[i], time |-> feed.time]
               \in SignalRows(feed)
  BY <1>1, <1>3, FeedMessageFields, SymbolsKept DEF SignalRows
<1>4. QED
  BY <1>1, <1>2, <1>3 DEF FeedStored

LEMMA WholeFeedStep ==
    ASSUME FeedInv, FeedHand, [FeedNext]_allVars, FeedCommits, whole'
    PROVE  FeedStored(feed)'
<1>1. StoreListings \/ StoreSignals
  BY DEF FeedCommits, FeedNext, Journal, TakeFeed, ForgetUnknownSystem, LookupSystem, LookupStation,
     ForgetUnknownStation, StoreStates, SkipStates, FeedInterrupt, GiveUp, allVars, feedVars
<1>2. QED
  BY <1>1, ListingsAreStored, SignalsAreStored

(***************************************************************************)
(* Types of the three processors together: listings, states and signals    *)
(* name stations, presences, systems and commodities of the game.          *)
(***************************************************************************)
THEOREM FeedTypeCorrect == FeedSpec => [](JournalTypeOK /\ FeedTypeOK)
<1>1. FeedInit => Typed /\ FeedTyped
  BY InitTyped, FeedInitTyped DEF FeedInit
<1>2. FeedInv /\ Typed /\ FeedTyped /\ [FeedNext]_allVars => Typed' /\ FeedTyped'
  BY JournalStaysTyped, FeedTypedStep, TablesAreTyped DEF FeedInv
<1>3. Typed /\ FeedTyped => JournalTypeOK /\ FeedTypeOK
  BY DEF Typed, FeedTyped
<1>4. QED
  BY <1>1, <1>2, <1>3, FeedInvAlways, PTL DEF FeedSpec, allVars

(***************************************************************************)
(* The commodities of a message, and its signals, are stored: commodity_   *)
(* v3_0.py and fsssignaldiscovered_v1_0.py.                                *)
(***************************************************************************)
THEOREM WholeFeedAppliedCorrect == FeedSpec => WholeFeedApplied
<1>1. FeedInit => FeedHand
  BY DEF FeedInit, FeedHand
<1>2. FeedInv /\ FeedHand /\ [FeedNext]_allVars => FeedHand'
  BY HandStep DEF FeedInv
<1>3. FeedInv /\ FeedHand /\ [FeedNext]_allVars =>
         [FeedCommits /\ whole' => FeedStored(feed)']_<<vars, feedVars>>
  BY WholeFeedStep
<1>4. QED
  BY <1>1, <1>2, <1>3, FeedInvAlways, PTL DEF FeedSpec, WholeFeedApplied, allVars

=============================================================================
