---------------------------- MODULE SpanshImport ----------------------------
(***************************************************************************)
(* ingestion/spansh/pipeline.py: the import of a galaxy dump, batch by     *)
(* batch and layer by layer, by a process of its own that may run beside   *)
(* the listener, on the same tables.                                       *)
(*                                                                         *)
(* id_cache is the set of the rows whose ids the import knows, for a row   *)
(* stands for its id.                                                      *)
(***************************************************************************)
EXTENDS FeedIngest

CONSTANTS
    Dump,               \* galaxy_populated.json: a sequence of systems, Null
                        \* being one that SystemSpansh refuses
    ProcessEvery,
    OldestMarket,       \* now - max_market_data_age_days
    ColonisationShip,   \* "System Colonisation Ship", the name of many stations
    StartAt,            \* the start_at_system_idx an operator may give
    MaxImports          \* bounds how often the import is started

Market == [time : OrNull(Nat), symbols : Seq(Values)]

\* updated: of two ships of a system both have the update_time or neither; max
\* would raise a TypeError where one is without it.
DumpStation == [
    name : Stations, faction : OrNull(Factions), updated : Nat,
    market : OrNull(Market), outfitting : BOOLEAN ]

\* Signals that are there may be none.
DumpRing == [name : Rings, signals : OrNull(Seq(Values))]

DumpBody == [
    name : Planets, number : Nat, signals : OrNull(Seq(Values)),
    stations : Seq(DumpStation), rings : Seq(DumpRing) ]

DumpSystem == [
    system : Systems, date : Nat, controlling : OrNull(Factions),
    powerState : OrNull(Values), controllingPower : OrNull(Values),
    factions : Seq([name : Factions, state : OrNull(Values)]),
    bodies : Seq(DumpBody), stations : Seq(DumpStation) ]

ASSUME SpanshAssumption ==
    /\ Dump \in Seq(OrNull(DumpSystem))
    /\ ProcessEvery \in Nat \ {0}
    /\ OldestMarket \in Nat
    /\ StartAt \subseteq Nat
    /\ MaxImports \in Nat

VARIABLES
    import,             \* "never", "running", "done", "raised", "killed"
    imports,            \* how often it was started
    first,              \* start_at_system_idx
    idx,                \* the items read
    pending,            \* the items of the batch being collected
    batch,              \* the items of the batch being inserted
    layer,              \* the table insert_systems is at, 0 when it is not called
    cached,             \* id_cache
    flawless,           \* no batch of this import was refused (history)
    bodySignals         \* core.signals

importVars ==
    <<import, imports, first, idx, pending, batch, layer, cached, flawless, bodySignals>>

ImportInit ==
    /\ FeedInit
    /\ import = "never"
    /\ imports = 0
    /\ first = 0
    /\ idx = 0
    /\ pending = {}
    /\ batch = {}
    /\ layer = 0
    /\ cached = {}
    /\ flawless = TRUE
    /\ bodySignals = {}

-----------------------------------------------------------------------------
\* A new process: its id_cache is empty, whatever the one before knew.
StartImport ==
    /\ import # "running"
    /\ imports < MaxImports
    /\ import' = "running"
    /\ imports' = imports + 1
    /\ first' \in StartAt
    /\ idx' = 0
    /\ pending' = {}
    /\ batch' = {}
    /\ layer' = 0
    /\ cached' = {}
    /\ flawless' = TRUE
    /\ UNCHANGED <<vars, feedVars, bodySignals>>

Reading == import = "running" /\ layer = 0

\* Before start_at_system_idx, or refused by the model.  The latter is never a
\* reason to flush, even where the batch would end with it.
SkipItem ==
    /\ Reading
    /\ idx < Len(Dump)
    /\ idx + 1 < first \/ Dump[idx + 1] = Null
    /\ idx' = idx + 1
    /\ UNCHANGED <<vars, feedVars, import, imports, first, pending, batch, layer, cached,
                   flawless, bodySignals>>

EndsBatch(i) == i % ProcessEvery = 0

\* Mutant: the item that completes a batch is in neither.
FlushBefore(items, i) == items

Flush(items, i) == items \cup {i}

ReadItem ==
    /\ Reading
    /\ idx < Len(Dump)
    /\ idx + 1 >= first
    /\ Dump[idx + 1] # Null
    /\ idx' = idx + 1
    /\ IF EndsBatch(idx + 1)
       THEN /\ batch' = Flush(pending, idx + 1)
            /\ pending' = {}
            /\ layer' = 1
       ELSE /\ pending' = pending \cup {idx + 1}
            /\ UNCHANGED <<batch, layer>>
    /\ UNCHANGED <<vars, feedVars, import, imports, first, cached, flawless, bodySignals>>

FlushRest ==
    /\ Reading
    /\ idx = Len(Dump)
    /\ pending # {}
    /\ batch' = pending
    /\ pending' = {}
    /\ layer' = 1
    /\ UNCHANGED <<vars, feedVars, import, imports, first, idx, cached, flawless, bodySignals>>

FinishImport ==
    /\ Reading
    /\ idx = Len(Dump)
    /\ pending = {}
    /\ import' = "done"
    /\ UNCHANGED <<vars, feedVars, imports, first, idx, pending, batch, layer, cached,
                   flawless, bodySignals>>

-----------------------------------------------------------------------------
(***************************************************************************)
(* The places of the items of a batch: <<item>>, <<item, faction>>,        *)
(* <<item, body>>, <<item, body, ring>>, <<item, body, station>> (body 0   *)
(* for the stations of the system itself) and                              *)
(* <<item, body, station, symbol>>, visited in lexicographic order.        *)
(***************************************************************************)
FactionPlaces(items) == UNION {{<<i, j>> : j \in DOMAIN Dump[i].factions} : i \in items}
BodyPlaces(items) == UNION {{<<i, b>> : b \in DOMAIN Dump[i].bodies} : i \in items}

BodyAt(p) == Dump[p[1]].bodies[p[2]]
RingAt(p) == BodyAt(p).rings[p[3]]
StationsAt(p) == IF p[2] = 0 THEN Dump[p[1]].stations ELSE BodyAt(p).stations
StationAt(p) == StationsAt(p)[p[3]]

RingPlaces(items) ==
    UNION {{<<p[1], p[2], r>> : r \in DOMAIN BodyAt(p).rings} : p \in BodyPlaces(items)}

StationEntries(items) ==
    UNION {{<<p[1], p[2], k>> : k \in DOMAIN StationsAt(p)} :
              p \in BodyPlaces(items) \cup {<<i, 0>> : i \in items}}

\* The colonisation ships of a system are one station, the newest of them.
Decommissioned(p) ==
    /\ p[2] = 0
    /\ StationAt(p).name = ColonisationShip
    /\ \E k \in DOMAIN StationsAt(p) :
          LET ship == StationsAt(p)[k] IN
          /\ ship.name = ColonisationShip
          /\ \/ ship.updated > StationAt(p).updated
             \/ ship.updated = StationAt(p).updated /\ k < p[3]

StationPlaces(items) == {p \in StationEntries(items) : ~Decommissioned(p)}

\* A market of unknown age counts as new.
Fresh(station_) ==
    /\ station_.market # Null
    /\ station_.market.time = Null \/ station_.market.time >= OldestMarket

MarketPlaces(items) == {p \in StationPlaces(items) : Fresh(StationAt(p))}

ListingPlaces(items) ==
    UNION {{<<p[1], p[2], p[3], c>> : c \in DOMAIN StationAt(p).market.symbols} :
              p \in MarketPlaces(items)}

SystemOf(p) == Dump[p[1]].system

BodyKey(p) == [system |-> SystemOf(p), name |-> BodyAt(p).name, number |-> BodyAt(p).number]

RingKey(p) == [body |-> BodyKey(p), name |-> RingAt(p).name]

OwnerAt(p) == IF p[2] = 0 THEN SystemOwner(SystemOf(p)) ELSE BodyOwner(BodyKey(p))

StationKeyAt(p) == [name |-> StationAt(p).name, owner |-> OwnerAt(p)]

ListingKeyAt(p) ==
    [station |-> StationKeyAt(p), commodity |-> StationAt(p).market.symbols[p[4]]]

Before(p, q) ==
    \E n \in DOMAIN p : p[n] < q[n] /\ \A l \in 1..(n - 1) : p[l] = q[l]

\* What a dict filled place by place keeps: the last place of every key.
Kept(places, Key(_)) ==
    {p \in places : \A q \in places : Key(q) = Key(p) => q = p \/ Before(q, p)}

\* The rows of the places a dict kept.
Dict(places, Key(_), Cols(_)) ==
    [k \in {Key(p) : p \in places} |-> Cols(CHOOSE p \in places : Key(p) = k)]

Controllers == {Dump[i].controlling : i \in batch} \ {Null}

FactionAt(p) == Dump[p[1]].factions[p[2]]

Known(kind, keys) == {Fact(kind, k) : k \in keys}

\* The ids that the layer looks up before its statement.
Lookups(l) ==
    LET systems == Known("system", {SystemOf(<<i>>) : i \in batch})
        bodies == Known("body", {BodyKey(p) : p \in BodyPlaces(batch)})
    IN
    CASE l = "systems" -> Known("faction", Controllers)
      [] l = "presences" ->
            systems \cup Known("faction", {FactionAt(p).name : p \in FactionPlaces(batch)})
      [] l = "bodies" -> systems
      [] l \in {"stations", "signals", "rings"} -> systems \cup bodies
      [] l = "market" ->
            systems \cup bodies \cup
            Known("station", {StationKeyAt(p) : p \in MarketPlaces(batch)})
      [] l = "outfitting" ->
            systems \cup bodies \cup
            Known("station", {StationKeyAt(p) : p \in
                                {p \in StationPlaces(batch) : StationAt(p).outfitting}})
      [] l = "hotspots" ->
            systems \cup bodies \cup
            Known("ring", {RingKey(p) : p \in
                             {p \in RingPlaces(batch) : RingAt(p).signals # Null}})
      [] OTHER -> {}

\* Mutant: the systems before the factions that control them.
SystemsFirst ==
    <<"systems", "factions", "presences", "bodies", "stations", "signals", "rings",
      "market", "outfitting", "hotspots">>

\* insert_layer1 to insert_layer5
Layers ==
    <<"factions", "systems", "presences", "bodies", "stations", "signals", "rings",
      "market", "outfitting", "hotspots">>

InLayer(l) == import = "running" /\ layer # 0 /\ Layers[layer] = l

NextLayer(l) == (l + 1) % (Len(Layers) + 1)

\* Mutant: what was sent is cached, not what came back.
Sent(rows, stored) == rows

Returned(rows, stored) == IF stored THEN rows ELSE {}

\* upsert_all with the rows "rows", whose foreign keys hold or not.  A refused
\* statement leaves the cache as it was and is never spoken of again.
Insert(l, rows, dbOk, valid, ids) ==
    /\ InLayer(l)
    /\ Lookups(l) \subseteq cached
    /\ rows = {} => dbOk
    /\ ~dbOk => dbErrors < MaxDbErrors
    /\ dbErrors' = IF dbOk THEN dbErrors ELSE dbErrors + 1
    /\ cached' = cached \cup Returned(ids, dbOk /\ valid)
    /\ flawless' = (flawless /\ dbOk /\ valid)
    /\ layer' = NextLayer(layer)
    /\ UNCHANGED <<msg, todo, known, owner, view, clean, announced>>
    /\ UNCHANGED <<feed, at, controller, station, states, signals, whole>>
    /\ UNCHANGED <<import, imports, first, idx, pending, batch>>

\* A row that names no foreign key of the dump
InsertValid(l, rows, ok, ids) == Insert(l, rows, ok, TRUE, ids)

AddKeys(keys, new, ok) == IF ok THEN keys \cup new ELSE keys

ImportFactions ==
    LET names == Controllers \cup {FactionAt(p).name : p \in FactionPlaces(batch)} IN
    \E ok \in BOOLEAN :
        /\ InsertValid("factions", names, ok, Known("faction", names))
        /\ db' = [db EXCEPT !.factions = AddKeys(@, names, ok)]
        /\ UNCHANGED <<listings, bodySignals>>

\* Mutant: the last item of a system, not the newest.
LastItems == Kept({<<i>> : i \in batch}, SystemOf)

\* Of the items of one system the newest, the first of them if there are two.
NewestItems ==
    {<<i>> : i \in {i \in batch : \A j \in batch : Dump[j].system = Dump[i].system =>
                        \/ Dump[j].date < Dump[i].date
                        \/ Dump[j].date = Dump[i].date /\ i <= j}}

DumpSystemCols(p) ==
    LET item == Dump[p[1]] IN
    [c \in SystemCols |->
        CASE c = "controlling_faction" -> item.controlling
          [] c = "power_state" -> item.powerState
          [] c = "controlling_power" -> item.controllingPower
          [] c = "date" -> item.date]

ImportSystems ==
    LET rows == Dict(NewestItems, SystemOf, DumpSystemCols) IN
    \E ok \in BOOLEAN :
        /\ InsertValid("systems", DOMAIN rows, ok, Known("system", DOMAIN rows))
        /\ db' = [db EXCEPT !.systems = UpsertDict(@, rows, SystemCols, ok)]
        /\ UNCHANGED <<listings, bodySignals>>

\* The dict of the presences is keyed by the name of the faction alone.
NameAt(p) == FactionAt(p).name

PresenceKey(p) == [system |-> SystemOf(p), faction |-> FactionAt(p).name]

DumpPresenceCols(p) == [c \in {"state"} |-> FactionAt(p).state]

ImportPresences ==
    LET rows == Dict(Kept(FactionPlaces(batch), NameAt), PresenceKey, DumpPresenceCols) IN
    \E ok \in BOOLEAN :
        /\ InsertValid("presences", DOMAIN rows, ok, {})
        /\ db' = [db EXCEPT !.presences = UpsertDict(@, rows, PresenceCols, ok)]
        /\ UNCHANGED <<listings, bodySignals>>

ImportBodies ==
    LET keys == {BodyKey(p) : p \in BodyPlaces(batch)} IN
    \E ok \in BOOLEAN :
        /\ InsertValid("bodies", keys, ok, Known("body", keys))
        /\ db' = [db EXCEPT !.bodies = AddKeys(@, keys, ok)]
        /\ UNCHANGED <<listings, bodySignals>>

\* controlling_faction is a text: nothing looks the faction up.
DumpStationCols(p) == [c \in {"controlling_faction"} |-> StationAt(p).faction]

ImportStations ==
    LET rows == Dict(Kept(StationPlaces(batch), StationKeyAt), StationKeyAt, DumpStationCols) IN
    \E ok \in BOOLEAN :
        /\ InsertValid("stations", DOMAIN rows, ok, Known("station", DOMAIN rows))
        /\ db' = [db EXCEPT !.stations = UpsertDict(@, rows, StationCols, ok)]
        /\ UNCHANGED <<listings, bodySignals>>

\* The signals of a body are those of its last mention that has the field, be
\* they none.
DumpSignals(items) ==
    UNION {{[body |-> BodyKey(p), signal |-> BodyAt(p).signals[n]] :
              n \in DOMAIN BodyAt(p).signals} :
            p \in Kept({p \in BodyPlaces(items) : BodyAt(p).signals # Null}, BodyKey)}

ImportSignals ==
    \E ok \in BOOLEAN :
        /\ InsertValid("signals", DumpSignals(batch), ok, {})
        /\ bodySignals' = AddKeys(bodySignals, DumpSignals(batch), ok)
        /\ UNCHANGED <<db, listings>>

ImportRings ==
    LET keys == {RingKey(p) : p \in RingPlaces(batch)} IN
    \E ok \in BOOLEAN :
        /\ InsertValid("rings", keys, ok, Known("ring", keys))
        /\ db' = [db EXCEPT !.rings = AddKeys(@, keys, ok)]
        /\ UNCHANGED <<listings, bodySignals>>

DumpListingCols(p) == [c \in ListingCols |-> StationAt(p).market.time]

\* One symbol that is no commodity refuses the listings of the whole batch.
ImportMarket ==
    LET rows == Dict(Kept(ListingPlaces(batch), ListingKeyAt), ListingKeyAt, DumpListingCols)
        valid == \A k \in DOMAIN rows : k.commodity \in Commodities
    IN
    \E ok \in BOOLEAN :
        /\ Insert("market", DOMAIN rows, ok, valid, {})
        /\ listings' = UpsertDict(listings, rows, ListingCols, ok /\ valid)
        /\ UNCHANGED <<db, bodySignals>>

\* Outfitting and shipyard: the stations are looked up, nothing is stored.
PassOutfitting ==
    /\ InsertValid("outfitting", {}, TRUE, {})
    /\ UNCHANGED <<db, listings, bodySignals>>

DumpHotspots(items) ==
    UNION {{[ring |-> RingKey(p), commodity |-> RingAt(p).signals[n]] :
              n \in DOMAIN RingAt(p).signals} :
            p \in Kept({p \in RingPlaces(items) : RingAt(p).signals # Null}, RingKey)}

ImportHotspots ==
    LET valid == \A h \in DumpHotspots(batch) : h.commodity \in Commodities IN
    \E ok \in BOOLEAN :
        /\ Insert("hotspots", DumpHotspots(batch), ok, valid, {})
        /\ db' = [db EXCEPT !.hotspots = AddKeys(@, DumpHotspots(batch), ok /\ valid)]
        /\ UNCHANGED <<listings, bodySignals>>

\* get_spansh_entity_id_by_key raises KeyError: that is the end of the import.
LookupRaises ==
    /\ import = "running"
    /\ layer # 0
    /\ ~ (Lookups(Layers[layer]) \subseteq cached)
    /\ import' = "raised"
    /\ layer' = 0
    /\ UNCHANGED <<vars, feedVars, imports, first, idx, pending, batch, cached, flawless,
                   bodySignals>>

ImportKilled ==
    /\ import = "running"
    /\ import' = "killed"
    /\ layer' = 0
    /\ UNCHANGED <<vars, feedVars, imports, first, idx, pending, batch, cached, flawless,
                   bodySignals>>

InsertSystems ==
    \/ ImportFactions \/ ImportSystems \/ ImportPresences \/ ImportBodies
    \/ ImportStations \/ ImportSignals \/ ImportRings \/ ImportMarket
    \/ PassOutfitting \/ ImportHotspots \/ LookupRaises

ImportNext ==
    \/ FeedNext /\ UNCHANGED importVars
    \/ StartImport \/ SkipItem \/ ReadItem \/ FlushRest \/ FinishImport
    \/ InsertSystems \/ ImportKilled

ImportSpec == ImportInit /\ [][ImportNext]_<<vars, feedVars, importVars>>

-----------------------------------------------------------------------------
WorldFacts == AllFacts \cup {Fact("bodySignal", s) : s \in bodySignals}

(***************************************************************************)
(* Types; and an id in id_cache is the id of a committed row, so that      *)
(* after a refused layer the layers that need its ids find none.           *)
(***************************************************************************)
ImportTypeOK ==
    /\ FeedTypeOK
    /\ import \in {"never", "running", "done", "raised", "killed"}
    /\ imports \in 0..MaxImports
    /\ first \in StartAt \cup {0}
    /\ idx \in 0..Len(Dump)
    /\ pending \subseteq 1..Len(Dump)
    /\ batch \subseteq {i \in 1..Len(Dump) : Dump[i] # Null}
    /\ layer \in 0..Len(Layers)
    /\ flawless \in BOOLEAN
    /\ \A s \in bodySignals : s.body \in Body
    /\ cached \subseteq WorldFacts

WorldNeeds(f) ==
    IF f.kind = "bodySignal" THEN {Fact("body", f.of.body)} ELSE AllNeeds(f)

World == INSTANCE KnowledgeBase WITH facts <- WorldFacts, Needs <- WorldNeeds

(***************************************************************************)
(* Listener and import together keep the promise of the knowledge base:    *)
(* whichever layers were refused, wherever the import raised or was killed *)
(* and wherever in the dump it was started again, no row is written whose  *)
(* parents are missing, and nothing that one process stored is lost to the *)
(* other.                                                                  *)
(***************************************************************************)
ImportLearnsInOrder == World!KBSpec

(***************************************************************************)
(* The lookups of a batch are answered by its own layers, wherever the     *)
(* import was started: only a refused batch makes it raise.                *)
(***************************************************************************)
RaisesOnlyAfterRefusal == import = "raised" => ~flawless

(***************************************************************************)
(* Batching shows nowhere: an import that ends, with no batch refused, has *)
(* stored what one batch of all the items from its start on would have,    *)
(* wherever in the dump its own batches ended: every system, with its      *)
(* bodies, rings and new listings; its stations, of the colonisation ships *)
(* of one item the newest; the signals and hotspots of the last mention of *)
(* a body and of a ring that has the field; and each faction's presence in *)
(* the last system that lists it.                                          *)
(***************************************************************************)
Imported == {i \in 1..Len(Dump) : i >= first /\ Dump[i] # Null}

AsOneBatch(items) ==
    /\ \A i \in items : Dump[i].system \in DOMAIN db.systems
    /\ \A p \in Kept(FactionPlaces(items), NameAt) : PresenceKey(p) \in DOMAIN db.presences
    /\ \A p \in BodyPlaces(items) : BodyKey(p) \in db.bodies
    /\ \A p \in StationPlaces(items) : StationKeyAt(p) \in DOMAIN db.stations
    /\ DumpSignals(items) \subseteq bodySignals
    /\ \A p \in RingPlaces(items) : RingKey(p) \in db.rings
    /\ \A p \in ListingPlaces(items) : ListingKeyAt(p) \in DOMAIN listings
    /\ DumpHotspots(items) \subseteq db.hotspots

CleanImportApplied == import = "done" /\ flawless => AsOneBatch(Imported)

(***************************************************************************)
(* The schema keeps one presence per (system_id, faction_id), and layer 3  *)
(* is where FactionPresencesDB is filled: every system of the dump has the *)
(* presences of its factions.  It does not: the dict of the presences is   *)
(* keyed by the faction alone.                                             *)
(***************************************************************************)
EveryPresenceImported ==
    import = "done" /\ flawless =>
        \A i \in Imported : \A n \in DOMAIN Dump[i].factions :
            [system |-> Dump[i].system, faction |-> Dump[i].factions[n].name]
                \in DOMAIN db.presences

(***************************************************************************)
(* Of two items of one system in a batch the newer one is stored,          *)
(* whichever comes first in the dump.                                      *)
(***************************************************************************)
NewestItemWins ==
    [][InLayer("systems") /\ layer' = layer + 1 /\ flawless' =>
          \A i \in batch : db'.systems[Dump[i].system]["date"] >= Dump[i].date]_
      <<vars, feedVars, importVars>>

=============================================================================
