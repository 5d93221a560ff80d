--------------------------- MODULE JournalIngest ---------------------------
(***************************************************************************)
(* process_model of ingestion/eddn/processors/journal_v1_0.py: what one    *)
(* journal message does to the database, one commit at a time, with the    *)
(* materialized view of the stations refreshed by pg_cron in between.      *)
(*                                                                         *)
(* A row is known by the values of its unique columns, which stand for its *)
(* id: a body by [system, name, number] (number is the game's BodyID), a   *)
(* ring by [body, name], a station by [name, owner].  A message has every  *)
(* field; a field its event does not carry is Null or <<>>.                *)
(***************************************************************************)
EXTENDS Upsert, FiniteSets

CONSTANTS
    Systems, Factions, Planets, Rings, Stations, Values,
    Parent,             \* [Rings -> Planets]: a ring's name contains its planet's
    Kind,               \* [Stations -> StationKinds]
    Commodities,        \* core.commodities
    Messages,           \* the messages the feed may bring
    MaxDbErrors         \* bounds the statements the database fails

Events == {"FSDJump", "Location", "Scan", "SAASignalsFound", "Docked", "CarrierJump"}

\* starport_station_types, planetary_station_types, anything else
StationKinds == {"orbital", "planetary", "unknown"}

OrNull(S) == S \cup {Null}

Message == [
    event : Events, system : Systems, time : Nat,
    systemFaction : OrNull(Factions),
    factions : Seq([name : Factions, state : OrNull(Values)]),
    powerState : OrNull(Values), controllingPower : OrNull(Values),
    powers : Seq(Values),               \* PowerplayConflictProgress
    body : OrNull(Planets),             \* Body, with its BodyType
    bodyName : OrNull(Planets \cup Rings),
    bodyNumber : Nat,
    rings : Seq(Rings),
    signals : Seq(Values),
    station : OrNull(Stations),
    stationFaction : OrNull(Factions) ] \* Null for the blocklisted names too

ASSUME JournalAssumption ==
    /\ Null \notin Systems \cup Factions \cup Planets \cup Rings \cup Stations \cup Values
    /\ Null \notin Nat
    /\ Planets \cap Rings = {}
    /\ Parent \in [Rings -> Planets]
    /\ Kind \in [Stations -> StationKinds]
    /\ Messages \subseteq Message
    /\ MaxDbErrors \in Nat

VARIABLES
    msg,                \* the message in hand, or the last one
    todo,               \* what is left of process_model for it
    known,              \* the names in faction_id_mapping
    owner,              \* what to_dict_from_eddn resolved the station's owner to
    db,                 \* the committed tables
    view,               \* derived.resolved_stations_view as of its last refresh
    clean,              \* no batch of msg was refused, and nothing raised (history)
    announced,          \* "[Faction Presence DB + Timeseries Updated]" is in the log
    dbErrors            \* statements failed by the database so far

vars == <<msg, todo, known, owner, db, view, clean, announced, dbErrors>>

Body == [system : Systems, name : Planets, number : Nat]
Ring == [body : Body, name : Rings]
SystemOwner(s) == [type |-> "system", id |-> s]
BodyOwner(b) == [type |-> "body", id |-> b]
Owner == [type : {"system"}, id : Systems] \cup [type : {"body"}, id : Body]
StationKey == [name : Stations, owner : Owner]
Presence == [system : Systems, faction : Factions]

SystemCols == {"controlling_faction", "power_state", "controlling_power", "date"}
PresenceCols == {"state", "updated_at"}
StationCols == {"controlling_faction", "eddn_updated_at"}

Empty == [k \in {} |-> Null]

SystemIn(o) == IF o.type = "system" THEN o.id ELSE o.id.system

Names(m) == {m.factions[i].name : i \in DOMAIN m.factions}

Init ==
    /\ msg = Null
    /\ todo = <<>>
    /\ known = {}
    /\ owner = Null
    /\ db = [factions |-> {}, systems |-> Empty, presences |-> Empty,
             bodies |-> {}, rings |-> {}, hotspots |-> {}, stations |-> Empty,
             rawSystems |-> {}, rawPresences |-> {}, rawPowers |-> {}]
    /\ view = {}
    /\ clean = TRUE
    /\ announced = FALSE
    /\ dbErrors = 0

-----------------------------------------------------------------------------
\* Mutant: the body is stored before its system.
PlanBodyFirst(event) ==
    IF event \in {"Scan", "SAASignalsFound"}
    THEN <<"mapping", "bodies", "system", "rawSystem", "rings">>
    ELSE <<"mapping", "system", "rawSystem">>

\* The calls process_model makes for an event, in order.
Plan(event) ==
    CASE event = "FSDJump" ->
            <<"factions", "mapping", "system", "rawSystem", "presences",
              "rawPresences", "powers">>
      [] event = "Location" ->
            <<"factions", "mapping", "system", "rawSystem", "bodies", "rings",
              "presences", "rawPresences", "owner", "station">>
      [] event = "Scan" -> <<"mapping", "system", "rawSystem", "bodies", "rings">>
      [] event = "SAASignalsFound" ->
            <<"mapping", "system", "rawSystem", "bodies", "rings", "hotspots">>
      [] event = "Docked" -> <<"mapping", "system", "rawSystem", "owner", "station">>
      [] OTHER -> <<"mapping", "system", "rawSystem">>

At(step) == todo # <<>> /\ Head(todo) = step

Take ==
    /\ todo = <<>>
    /\ msg' \in Messages
    /\ todo' = Plan(msg'.event)
    /\ known' = {}
    /\ owner' = Null
    /\ clean' = TRUE
    /\ announced' = FALSE
    /\ UNCHANGED <<db, view, dbErrors>>

\* An exception leaves process_model, or the process dies: its locals are gone.
Abort ==
    /\ todo' = <<>>
    /\ known' = {}
    /\ owner' = Null
    /\ clean' = FALSE

\* upsert_all with "rows": the database fails the statement, or not.
Statement(rows, ok) ==
    /\ rows = <<>> => ok
    /\ ~ok => dbErrors < MaxDbErrors
    /\ dbErrors' = IF ok THEN dbErrors ELSE dbErrors + 1

StillClean(rows, ok) ==
    clean' = (clean /\ (rows = <<>> \/ Accepted(rows, ok)))

\* A step whose refused batch is logged and forgotten.
Write(step, rows, ok) ==
    /\ At(step)
    /\ Statement(rows, ok)
    /\ StillClean(rows, ok)
    /\ todo' = Tail(todo)

Row(key, cols) == [key |-> key, cols |-> cols]
KeyRows(keys) == [i \in DOMAIN keys |-> Row(keys[i], Empty)]

FactionRows(m) == KeyRows([i \in DOMAIN m.factions |-> m.factions[i].name])

StoreFactions ==
    \E ok \in BOOLEAN :
        /\ Write("factions", FactionRows(msg), ok)
        /\ db' = [db EXCEPT !.factions = UpsertKeys(@, FactionRows(msg), ok)]
        /\ UNCHANGED <<msg, known, owner, view, announced>>

\* model_to_faction_name_to_id_mapping
MapFactions ==
    /\ At("mapping")
    /\ Names(msg) \subseteq db.factions
    /\ known' = Names(msg)
    /\ todo' = Tail(todo)
    /\ UNCHANGED <<msg, owner, db, view, clean, announced, dbErrors>>

\* get_faction raises for a name that is not there.
MapFactionsRaises ==
    /\ At("mapping")
    /\ ~ (Names(msg) \subseteq db.factions)
    /\ Abort
    /\ UNCHANGED <<msg, db, view, announced, dbErrors>>

\* Mutant: the name is used without a look at the mapping.
ControllingFactionByName(m) == m.systemFaction

ControllingFaction(m) == IF m.systemFaction \in known THEN m.systemFaction ELSE Null

\* The Nones added back for an Unoccupied system are Nones like any other.
SystemRows(m) ==
    << Row(m.system,
           [c \in SystemCols |->
              CASE c = "controlling_faction" -> ControllingFaction(m)
                [] c = "power_state" -> m.powerState
                [] c = "controlling_power" ->
                     IF m.powerState = "Unoccupied" THEN Null ELSE m.controllingPower
                [] c = "date" -> m.time]) >>

StoreSystem ==
    /\ Write("system", SystemRows(msg), TRUE)
    /\ db' = [db EXCEPT !.systems = UpsertAll(@, SystemRows(msg), SystemCols, TRUE)]
    /\ UNCHANGED <<msg, known, owner, view, announced>>

\* "Upserted a system but got no object back!"
StoreSystemRaises ==
    /\ At("system")
    /\ Statement(SystemRows(msg), FALSE)
    /\ Abort
    /\ UNCHANGED <<msg, db, view, announced>>

\* id is generated, so that rows of a time series never conflict: an insert of
\* "rows" is refused only by the database.
WriteRaw(step, rows, ok) ==
    /\ At(step)
    /\ rows = {} => ok
    /\ ~ok => dbErrors < MaxDbErrors
    /\ dbErrors' = IF ok THEN dbErrors ELSE dbErrors + 1
    /\ clean' = (clean /\ ok)
    /\ todo' = Tail(todo)

RawSystem(m) ==
    {[system |-> m.system, faction |-> ControllingFaction(m), time |-> m.time]}

StoreRawSystem ==
    \E ok \in BOOLEAN :
        /\ WriteRaw("rawSystem", RawSystem(msg), ok)
        /\ db' = IF ok THEN [db EXCEPT !.rawSystems = @ \cup RawSystem(msg)] ELSE db
        /\ UNCHANGED <<msg, known, owner, view, announced>>

-----------------------------------------------------------------------------
\* Mutant: the name of a ring is not turned into its parent's.
StoredNameOfRing(m) == IF m.body # Null THEN m.body ELSE m.bodyName

\* A ring is stored as a body of its parent's name, with its own number.
StoredName(m) ==
    IF m.body # Null THEN m.body
    ELSE IF m.bodyName \in Rings THEN Parent[m.bodyName] ELSE m.bodyName

BodyRows(m) ==
    IF StoredName(m) = Null THEN <<>>
    ELSE KeyRows(<<[system |-> m.system, name |-> StoredName(m), number |-> m.bodyNumber]>>)

StoreBody ==
    \E ok \in BOOLEAN :
        /\ Write("bodies", BodyRows(msg), ok)
        /\ db' = [db EXCEPT !.bodies = UpsertKeys(@, BodyRows(msg), ok)]
        /\ UNCHANGED <<msg, known, owner, view, announced>>

\* get_body and get_ring: by name only, whichever row comes first.
BodiesNamed(name) == {b \in db.bodies : b.name = name}
RingsNamed(name) == {r \in db.rings : r.name = name}

\* Mutant: off by one over the rings.
RingRowsButFirst(m, body) ==
    LET names == IF m.bodyName \in Rings THEN <<m.bodyName>>
                 ELSE SubSeq(m.rings, 2, Len(m.rings)) IN
    KeyRows([i \in DOMAIN names |-> [body |-> body, name |-> names[i]]])

RingRows(m, body) ==
    LET names == IF m.bodyName \in Rings THEN <<m.bodyName>> ELSE m.rings IN
    KeyRows([i \in DOMAIN names |-> [body |-> body, name |-> names[i]]])

RingParent(m) == IF m.bodyName \in Rings THEN Parent[m.bodyName] ELSE m.bodyName

StoreRings ==
    /\ At("rings")
    /\ \E ok \in BOOLEAN, body \in BodiesNamed(RingParent(msg)) :
          /\ Write("rings", RingRows(msg, body), ok)
          /\ db' = [db EXCEPT !.rings = UpsertKeys(@, RingRows(msg, body), ok)]
    /\ UNCHANGED <<msg, known, owner, view, announced>>

\* The message has no BodyName (a Location), or the body is not known.
SkipRings ==
    /\ At("rings")
    /\ BodiesNamed(RingParent(msg)) = {}
    /\ todo' = Tail(todo)
    /\ UNCHANGED <<msg, known, owner, db, view, clean, announced, dbErrors>>

HotspotRows(m, ring) ==
    KeyRows([i \in DOMAIN m.signals |-> [ring |-> ring, commodity |-> m.signals[i]]])

\* A signal that is no commodity (a biological one) fails its foreign key, and
\* the whole batch with it.
StoreHotspots ==
    /\ At("hotspots")
    /\ \E dbOk \in BOOLEAN, ring \in RingsNamed(msg.bodyName) :
          LET rows == HotspotRows(msg, ring)
              ok == dbOk /\ \A i \in DOMAIN msg.signals : msg.signals[i] \in Commodities
          IN
          /\ Statement(rows, dbOk)
          /\ StillClean(rows, ok)
          /\ db' = [db EXCEPT !.hotspots = UpsertKeys(@, rows, ok)]
    /\ todo' = Tail(todo)
    /\ UNCHANGED <<msg, known, owner, view, announced>>

SkipHotspots ==
    /\ At("hotspots")
    /\ RingsNamed(msg.bodyName) = {}
    /\ todo' = Tail(todo)
    /\ UNCHANGED <<msg, known, owner, db, view, clean, announced, dbErrors>>

-----------------------------------------------------------------------------
\* A faction outside the mapping would be left out: there is none, get_faction
\* raised for it.  A state the code does not know is None, and its key is left
\* out of the dict.
PresenceRows(m) ==
    [i \in DOMAIN m.factions |->
        LET f == m.factions[i] IN
        Row([system |-> m.system, faction |-> f.name],
            [c \in IF f.state = Null THEN {"updated_at"} ELSE PresenceCols |->
                IF c = "state" THEN f.state ELSE m.time])]

StorePresences ==
    \E ok \in BOOLEAN :
        /\ Write("presences", PresenceRows(msg), ok)
        /\ db' = [db EXCEPT !.presences =
                    UpsertAll(@, PresenceRows(msg), PresenceCols, ok)]
        /\ UNCHANGED <<msg, known, owner, view, announced>>

RawPresences(m) ==
    {[system |-> m.system, faction |-> m.factions[i].name,
      state |-> m.factions[i].state, time |-> m.time] : i \in DOMAIN m.factions}

\* The message is logged as stored, whatever became of the two batches.
StoreRawPresences ==
    \E ok \in BOOLEAN :
        /\ WriteRaw("rawPresences", RawPresences(msg), ok)
        /\ announced' = (msg.factions # <<>>)
        /\ db' = IF ok THEN [db EXCEPT !.rawPresences = @ \cup RawPresences(msg)] ELSE db
        /\ UNCHANGED <<msg, known, owner, view>>

RawPowers(m) ==
    {[system |-> m.system, power |-> m.powers[i], time |-> m.time] : i \in DOMAIN m.powers}

StorePowers ==
    \E ok \in BOOLEAN :
        /\ WriteRaw("powers", RawPowers(msg), ok)
        /\ db' = IF ok THEN [db EXCEPT !.rawPowers = @ \cup RawPowers(msg)] ELSE db
        /\ UNCHANGED <<msg, known, owner, view, announced>>

-----------------------------------------------------------------------------
\* get_station: the row of the view, if there is exactly one.
ViewRows(m) == {r \in view : r.name = m.station /\ r.system = m.system}

\* Mutant: a planetary station without a Body is given to the system.
OwnersByKindOrSystem(m) ==
    CASE Kind[m.station] = "orbital" -> {SystemOwner(m.system)}
      [] Kind[m.station] = "planetary" ->
            IF m.body = Null THEN {SystemOwner(m.system)}
            ELSE {BodyOwner(b) : b \in BodiesNamed(m.body)}
      [] OTHER -> {}

\* to_owner_id_and_type_from_eddn, for a station the view does not settle
OwnersByKind(m) ==
    CASE Kind[m.station] = "orbital" -> {SystemOwner(m.system)}
      [] Kind[m.station] = "planetary" -> {BodyOwner(b) : b \in BodiesNamed(m.body)}
      [] OTHER -> {}

\* Mutant: only a station of the view is stored.
OwnersInView(m) == {r.owner : r \in ViewRows(m)}

Owners(m) ==
    IF m.station = Null THEN {}
    ELSE IF Cardinality(ViewRows(m)) = 1 THEN {r.owner : r \in ViewRows(m)}
    ELSE OwnersByKind(m)

ResolveOwner ==
    /\ At("owner")
    /\ owner' \in Owners(msg)
    /\ todo' = Tail(todo)
    /\ UNCHANGED <<msg, known, db, view, clean, announced, dbErrors>>

\* to_dict_from_eddn returns None: no station in the message, or no owner for it.
SkipStation ==
    /\ At("owner")
    /\ Owners(msg) = {}
    /\ todo' = Tail(Tail(todo))
    /\ UNCHANGED <<msg, known, owner, db, view, clean, announced, dbErrors>>

\* Mutant: the station's faction is not looked up.
StationRowsUnchecked(m) ==
    << Row([name |-> m.station, owner |-> owner],
           [c \in StationCols |-> IF c = "controlling_faction"
                                  THEN m.stationFaction ELSE m.time]) >>

\* None as well when the station's faction is not known.
StationRows(m) ==
    IF m.stationFaction \notin OrNull(db.factions) THEN <<>>
    ELSE << Row([name |-> m.station, owner |-> owner],
                [c \in StationCols |-> IF c = "controlling_faction"
                                       THEN m.stationFaction ELSE m.time]) >>

\* A refused row raises (stations[0]); it is the last call either way.
StoreStation ==
    \E ok \in BOOLEAN :
        /\ Write("station", StationRows(msg), ok)
        /\ db' = [db EXCEPT !.stations =
                    UpsertAll(@, StationRows(msg), StationCols, ok)]
        /\ UNCHANGED <<msg, known, owner, view, announced>>

\* The process dies, or a read of the database raises, between two commits.
Interrupt ==
    /\ todo # <<>>
    /\ Abort
    /\ UNCHANGED <<msg, db, view, announced, dbErrors>>

\* Mutant: the view without the stations of bodies.
OwnerIsStoredSystem(o) == o.type = "system" /\ o.id \in DOMAIN db.systems

\* The query of the view: stations joined with the system of their owner.
OwnerStored(o) ==
    \/ o.type = "system" /\ o.id \in DOMAIN db.systems
    \/ o.type = "body" /\ o.id \in db.bodies

ResolvedStations ==
    {[name |-> k.name, owner |-> k.owner, system |-> SystemIn(k.owner),
      faction |-> db.stations[k]["controlling_faction"]] :
        k \in {k \in DOMAIN db.stations : OwnerStored(k.owner)}}

\* pg_cron: REFRESH MATERIALIZED VIEW CONCURRENTLY, at any time
RefreshView ==
    /\ view' = ResolvedStations
    /\ UNCHANGED <<msg, todo, known, owner, db, clean, announced, dbErrors>>

ProcessModel ==
    \/ StoreFactions \/ MapFactions \/ MapFactionsRaises
    \/ StoreSystem \/ StoreSystemRaises \/ StoreRawSystem
    \/ StoreBody \/ StoreRings \/ SkipRings \/ StoreHotspots \/ SkipHotspots
    \/ StorePresences \/ StoreRawPresences \/ StorePowers
    \/ ResolveOwner \/ SkipStation \/ StoreStation

Next == Take \/ ProcessModel \/ Interrupt \/ RefreshView

Spec == Init /\ [][Next]_vars
FairSpec == Spec /\ WF_vars(RefreshView)

-----------------------------------------------------------------------------
Steps == {"factions", "mapping", "system", "rawSystem", "bodies", "rings", "hotspots",
          "presences", "rawPresences", "powers", "owner", "station"}

JournalTypeOK ==
    /\ msg \in OrNull(Messages)
    /\ todo \in Seq(Steps)
    /\ known \subseteq Factions
    /\ owner \in OrNull(Owner)
    /\ db.factions \subseteq Factions
    /\ DOMAIN db.systems \subseteq Systems
    /\ DOMAIN db.presences \subseteq Presence
    /\ db.bodies \subseteq Body
    /\ db.rings \subseteq Ring
    /\ db.hotspots \subseteq [ring : Ring, commodity : Commodities]
    /\ DOMAIN db.stations \subseteq StationKey
    /\ clean \in BOOLEAN
    /\ announced \in BOOLEAN
    /\ dbErrors \in 0..MaxDbErrors

-----------------------------------------------------------------------------
(***************************************************************************)
(* The database as a set of facts: a row is one, and so is a column of it  *)
(* that is not NULL.                                                       *)
(***************************************************************************)
Fact(kind, of) == [kind |-> kind, of |-> of]

Columns(kind, table) ==
    UNION {{Fact(kind, [row |-> k, column |-> c]) :
              c \in {c \in DOMAIN table[k] : table[k][c] # Null}} : k \in DOMAIN table}

Facts ==
    {Fact("faction", f) : f \in db.factions}
      \cup {Fact("system", s) : s \in DOMAIN db.systems}
      \cup {Fact("presence", p) : p \in DOMAIN db.presences}
      \cup {Fact("body", b) : b \in db.bodies}
      \cup {Fact("ring", r) : r \in db.rings}
      \cup {Fact("hotspot", h) : h \in db.hotspots}
      \cup {Fact("station", k) : k \in DOMAIN db.stations}
      \cup Columns("systemColumn", db.systems)
      \cup Columns("presenceColumn", db.presences)
      \cup Columns("stationColumn", db.stations)

\* The foreign keys; a station's owner is one without being declared.
FactNeeds(f) ==
    CASE f.kind = "presence" -> {Fact("system", f.of.system), Fact("faction", f.of.faction)}
      [] f.kind = "body" -> {Fact("system", f.of.system)}
      [] f.kind = "ring" -> {Fact("body", f.of.body)}
      [] f.kind = "hotspot" -> {Fact("ring", f.of.ring)}
      [] f.kind = "station" -> {Fact(f.of.owner.type, f.of.owner.id)}
      [] OTHER -> {}

KB == INSTANCE KnowledgeBase WITH facts <- Facts, Needs <- FactNeeds

(***************************************************************************)
(* process_model keeps the promise of the knowledge base: whatever message *)
(* comes first and wherever processing stops, no row and no known value is *)
(* lost, and no row is written whose system, faction, body, ring or owner  *)
(* is missing.                                                             *)
(***************************************************************************)
LearnsInOrder == KB!KBSpec

(***************************************************************************)
(* A controlling faction, of a system or of a station (where it is a name  *)
(* without a foreign key), is a known faction, and the view, however       *)
(* stale, names only stations and owners that are still there.             *)
(***************************************************************************)
ControllersAreKnown ==
    /\ \A s \in DOMAIN db.systems :
          db.systems[s]["controlling_faction"] \in OrNull(db.factions)
    /\ \A k \in DOMAIN db.stations :
          db.stations[k]["controlling_faction"] \in OrNull(db.factions)
    /\ \A r \in view :
          /\ [name |-> r.name, owner |-> r.owner] \in DOMAIN db.stations
          /\ OwnerStored(r.owner)
          /\ r.faction \in OrNull(db.factions)

(***************************************************************************)
(* A message that was processed to its end with no batch refused is in the *)
(* database: its system, its controlling faction if the message names it   *)
(* among its factions, a presence per faction, with its state unless the   *)
(* first faction of the message has an unknown one (the statement then has *)
(* no state column), the rings of a scan with the planet they belong to,   *)
(* the hotspots of a probed ring, and an orbital station in its system.    *)
(***************************************************************************)
SystemApplied(m) ==
    LET row == db.systems[m.system] IN
    /\ m.system \in DOMAIN db.systems
    /\ row["date"] = m.time
    /\ m.powerState # Null => row["power_state"] = m.powerState
    /\ m.systemFaction \in Names(m) => row["controlling_faction"] = m.systemFaction

PresencesApplied(m) ==
    \A i \in DOMAIN m.factions :
        LET key == [system |-> m.system, faction |-> m.factions[i].name] IN
        /\ key \in DOMAIN db.presences
        /\ db.presences[key]["updated_at"] = m.time
        /\ Null \notin {m.factions[1].state, m.factions[i].state} =>
              db.presences[key]["state"] = m.factions[i].state

\* A scan of a ring tells of that ring, one of a planet of the planet's rings.
ScannedRings(m) ==
    IF m.bodyName \in Rings THEN {m.bodyName} ELSE {m.rings[i] : i \in DOMAIN m.rings}

RingsApplied(m) ==
    m.body = Null /\ m.bodyName # Null =>
        \A name \in ScannedRings(m) :
            \E r \in db.rings : r.name = name /\ r.body.name = RingParent(m)

HotspotsApplied(m) ==
    m.body = Null /\ m.bodyName \in Rings =>
        \A i \in DOMAIN m.signals :
            \E h \in db.hotspots : h.ring.name = m.bodyName /\ h.commodity = m.signals[i]

StationApplied(m) ==
    m.station # Null /\ Kind[m.station] = "orbital" /\ m.stationFaction \in OrNull(db.factions) =>
        \E k \in DOMAIN db.stations :
            /\ k.name = m.station
            /\ SystemIn(k.owner) = m.system
            /\ db.stations[k]["eddn_updated_at"] = m.time

CleanMessageApplied ==
    todo = <<>> /\ msg # Null /\ clean =>
        /\ SystemApplied(msg)
        /\ msg.event \in {"FSDJump", "Location"} => PresencesApplied(msg)
        /\ msg.event \in {"Scan", "SAASignalsFound"} => RingsApplied(msg)
        /\ msg.event = "SAASignalsFound" => HotspotsApplied(msg)
        /\ msg.event \in {"Docked", "Location"} => StationApplied(msg)

(***************************************************************************)
(* What the names of the game promise: a planet's name is found in one     *)
(* system, and a planetary station of a system stands on one planet.       *)
(***************************************************************************)
NamesAreConsistent ==
    \A m, n \in Messages :
        /\ m.body # Null /\ StoredName(n) = m.body => n.system = m.system
        /\ /\ m.station # Null /\ Kind[m.station] = "planetary"
           /\ n.station = m.station /\ n.system = m.system
           /\ Null \notin {m.body, n.body}
           => n.body = m.body

(***************************************************************************)
(* A station is stored once, whichever events told of it and however stale *)
(* the view was, unless one of two bodies of the same name owns it.        *)
(***************************************************************************)
OneStationPerName ==
    \A k, l \in DOMAIN db.stations :
        k.name = l.name /\ SystemIn(k.owner) = SystemIn(l.owner) => k = l

OneBodyPerName == \A b, c \in db.bodies : b.name = c.name => b = c

OneOwnerUnlessTwins == OneBodyPerName => OneStationPerName

(***************************************************************************)
(* Every stored station becomes resolvable by name, for the commodity      *)
(* messages and for the stations' own next messages.                       *)
(***************************************************************************)
Unlisted ==
    {k \in DOMAIN db.stations : ~ \E r \in view : r.name = k.name /\ r.owner = k.owner}

StationsBecomeVisible == []<>(Unlisted = {})

(***************************************************************************)
(* Claims of the repository that the code does not keep.                   *)
(*                                                                         *)
(* db.py, of the Nones added back: "fields ... need to be cleared out if   *)
(* the system reverts back to Unoccupied".                                 *)
(***************************************************************************)
UnoccupiedHasNoPower ==
    \A s \in DOMAIN db.systems :
        db.systems[s]["power_state"] = "Unoccupied" =>
            db.systems[s]["controlling_power"] = Null

(***************************************************************************)
(* journal_v1_0.py: the log line says that the presences of the system     *)
(* were updated in the database.                                           *)
(***************************************************************************)
AnnouncedPresencesStored ==
    announced =>
        \A f \in Names(msg) :
            [system |-> msg.system, faction |-> f] \in DOMAIN db.presences

=============================================================================
