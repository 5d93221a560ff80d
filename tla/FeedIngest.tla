----------------------------- MODULE FeedIngest -----------------------------
(***************************************************************************)
(* The processors of the other two schemas, commodity_v3_0.py and          *)
(* fsssignaldiscovered_v1_0.py, next to the journal's: one thread runs     *)
(* process_model of one message after another, on one session, and         *)
(* pg_cron refreshes the view at any time.                                 *)
(***************************************************************************)
EXTENDS JournalIngest

CONSTANT FeedMessages       \* the commodity and signal messages of the feed

FeedMessage == [
    schema : {"commodity", "signals"}, system : Systems,
    station : OrNull(Stations), time : Nat,
    items : Seq(OrNull(Values)) ]   \* symbols; Null where the code has none

ASSUME FeedAssumption == FeedMessages \subseteq FeedMessage

VARIABLES
    feed,               \* the commodity or signal message in hand, or the last one
    at,                 \* where its process_model is
    controller,         \* controlling_faction_id of the row get_system returned
    station,            \* the row of the view get_station returned
    listings,           \* core.market_commodities
    states,             \* raw_timescaledb.market_commodity_faction_state
    signals,            \* raw_timescaledb.signals
    whole               \* no batch of feed was refused (history)

feedVars == <<feed, at, controller, station, listings, states, signals, whole>>

ListingCols == {"updated_at"}

FeedInit ==
    /\ Init
    /\ feed = Null
    /\ at = "idle"
    /\ controller = Null
    /\ station = Null
    /\ listings = Empty
    /\ states = {}
    /\ signals = {}
    /\ whole = FALSE

\* Mutant: the system is taken for the owner.
StoredKeyInSystem(row) == [name |-> row.name, owner |-> row.system]

StoredKey(row) == [name |-> row.name, owner |-> row.owner]

-----------------------------------------------------------------------------
TakeFeed ==
    /\ todo = <<>>
    /\ at = "idle"
    /\ feed' \in FeedMessages
    /\ at' = "lookup"
    /\ whole' = TRUE
    /\ controller' = Null
    /\ station' = Null
    /\ UNCHANGED <<vars, listings, states, signals>>

GiveUp ==
    /\ at' = "idle"
    /\ whole' = FALSE
    /\ UNCHANGED <<vars, feed, controller, station, listings, states, signals>>

\* get_system raises ValueError: the message is logged and forgotten.
ForgetUnknownSystem ==
    /\ at = "lookup"
    /\ feed.system \notin DOMAIN db.systems
    /\ GiveUp

\* get_system: who controls the system is read here, and used after the listings
\* are stored.
LookupSystem ==
    /\ at = "lookup"
    /\ feed.schema = "commodity"
    /\ feed.system \in DOMAIN db.systems
    /\ controller' = db.systems[feed.system]["controlling_faction"]
    /\ at' = "station"
    /\ UNCHANGED <<vars, feed, station, listings, states, signals, whole>>

\* get_station: the view knows the name in the system exactly once.
LookupStation ==
    /\ at = "station"
    /\ Cardinality(ViewRows(feed)) = 1
    /\ station' \in ViewRows(feed)
    /\ at' = "listings"
    /\ UNCHANGED <<vars, feed, controller, listings, states, signals, whole>>

ForgetUnknownStation ==
    /\ at = "station"
    /\ Cardinality(ViewRows(feed)) # 1
    /\ GiveUp

\* Mutant: one commodity without a symbol spoils the message.
SymbolsAllOrNone(m) ==
    IF \E i \in DOMAIN m.items : m.items[i] = Null THEN <<>> ELSE m.items

\* A commodity without a symbol is left out.
Symbols(m) ==
    LET upTo[i \in 0..Len(m.items)] ==
            IF i = 0 THEN <<>>
            ELSE IF m.items[i] = Null THEN upTo[i - 1]
            ELSE Append(upTo[i - 1], m.items[i])
    IN upTo[Len(m.items)]

\* Mutant: every station is taken for a starport.
ListingRowsOfStarport(m) ==
    [i \in DOMAIN Symbols(m) |->
        Row([station |-> [name |-> m.station, owner |-> SystemOwner(m.system)],
             commodity |-> Symbols(m)[i]],
            [c \in ListingCols |-> m.time])]

ListingRows(m) ==
    [i \in DOMAIN Symbols(m) |->
        Row([station |-> StoredKey(station), commodity |-> Symbols(m)[i]],
            [c \in ListingCols |-> m.time])]

\* A refused batch is logged, and the state of the factions is stored all the
\* same.  The keys of a listing are foreign.
StoreListings ==
    \E dbOk \in BOOLEAN :
        LET rows == ListingRows(feed)
            ok == dbOk /\ \A i \in DOMAIN rows : rows[i].key.commodity \in Commodities
        IN
        /\ at = "listings"
        /\ Statement(rows, dbOk)
        /\ listings' = UpsertAll(listings, rows, ListingCols, ok)
        /\ whole' = (whole /\ (rows = <<>> \/ Accepted(rows, ok)))
        /\ at' = "states"
        /\ UNCHANGED <<msg, todo, known, owner, db, view, clean, announced>>
        /\ UNCHANGED <<feed, controller, station, states, signals>>

\* The presence of the faction that controls the system, or the station, as far
\* as it is known: {} or one.
PresenceOf(f, s) ==
    {p \in DOMAIN db.presences : p = [system |-> s, faction |-> f]}

SystemPresence(m) == PresenceOf(controller, m.system)

\* station.controlling_faction is the view's, as old as its last refresh.
StationPresence(m) == PresenceOf(station.faction, m.system)

StateRows(m, sp, tp) ==
    {[system |-> m.system, station |-> StoredKey(station), commodity |-> Symbols(m)[i],
      sy_cf_id |-> sp, sy_cf_state |-> db.presences[sp]["state"],
      st_cf_id |-> tp, st_cf_state |-> db.presences[tp]["state"], time |-> m.time] :
        i \in DOMAIN Symbols(m)}

\* A state that is NULL is refused, the columns being NOT NULL.
StoreStates ==
    /\ at = "states"
    /\ \E dbOk \in BOOLEAN, sp \in SystemPresence(feed), tp \in StationPresence(feed) :
          LET rows == StateRows(feed, sp, tp)
              ok == dbOk /\ \A r \in rows : Null \notin {r.sy_cf_state, r.st_cf_state}
          IN
          /\ rows = {} => dbOk
          /\ ~dbOk => dbErrors < MaxDbErrors
          /\ dbErrors' = IF dbOk THEN dbErrors ELSE dbErrors + 1
          /\ states' = IF ok THEN states \cup rows ELSE states
          /\ whole' = (whole /\ ok)
    /\ at' = "idle"
    /\ UNCHANGED <<msg, todo, known, owner, db, view, clean, announced>>
    /\ UNCHANGED <<feed, controller, station, listings, signals>>

\* No controlling faction, or no presence of it in the system.
SkipStates ==
    /\ at = "states"
    /\ SystemPresence(feed) = {} \/ StationPresence(feed) = {}
    /\ at' = "idle"
    /\ UNCHANGED <<vars, feed, controller, station, listings, states, signals, whole>>

SignalRows(m) ==
    {[system |-> m.system, signal |-> Symbols(m)[i], time |-> m.time] :
        i \in DOMAIN Symbols(m)}

StoreSignals ==
    \E ok \in BOOLEAN :
        /\ at = "lookup"
        /\ feed.schema = "signals"
        /\ feed.system \in DOMAIN db.systems
        /\ SignalRows(feed) = {} => ok
        /\ ~ok => dbErrors < MaxDbErrors
        /\ dbErrors' = IF ok THEN dbErrors ELSE dbErrors + 1
        /\ signals' = IF ok THEN signals \cup SignalRows(feed) ELSE signals
        /\ whole' = (whole /\ ok)
        /\ at' = "idle"
        /\ UNCHANGED <<msg, todo, known, owner, db, view, clean, announced>>
        /\ UNCHANGED <<feed, controller, station, listings, states>>

FeedInterrupt ==
    /\ at # "idle"
    /\ GiveUp

Journal ==
    /\ \/ at = "idle" /\ (Take \/ ProcessModel \/ Interrupt)
       \/ RefreshView
    /\ UNCHANGED feedVars

FeedNext ==
    \/ Journal
    \/ TakeFeed \/ ForgetUnknownSystem \/ LookupSystem \/ LookupStation
    \/ ForgetUnknownStation
    \/ StoreListings \/ StoreStates \/ SkipStates \/ StoreSignals \/ FeedInterrupt

FeedSpec == FeedInit /\ [][FeedNext]_<<vars, feedVars>>

-----------------------------------------------------------------------------
FeedTypeOK ==
    /\ feed \in OrNull(FeedMessages)
    /\ at \in {"idle", "lookup", "station", "listings", "states"}
    /\ \A k \in DOMAIN listings : k.station \in StationKey /\ k.commodity \in Commodities
    /\ \A r \in states : r.station \in StationKey /\ r.sy_cf_id \in Presence
    /\ \A r \in signals : r.system \in Systems
    /\ whole \in BOOLEAN

AllFacts ==
    Facts
      \cup {Fact("listing", k) : k \in DOMAIN listings}
      \cup Columns("listingColumn", listings)
      \cup {Fact("state", r) : r \in states}
      \cup {Fact("signal", r) : r \in signals}

\* The time series have no foreign keys.
AllNeeds(f) ==
    CASE f.kind = "listing" -> {Fact("station", f.of.station)}
      [] f.kind = "state" -> {Fact("station", f.of.station),
                              Fact("presence", f.of.sy_cf_id),
                              Fact("presence", f.of.st_cf_id)}
      [] f.kind = "signal" -> {Fact("system", f.of.system)}
      [] OTHER -> FactNeeds(f)

AllKB == INSTANCE KnowledgeBase WITH facts <- AllFacts, Needs <- AllNeeds

(***************************************************************************)
(* All three processors together keep the promise of the knowledge base:   *)
(* what the commodity and the signal messages store refers to stations,    *)
(* presences and systems that are stored, although the station comes from  *)
(* a view of some time ago and the time series check nothing.              *)
(***************************************************************************)
FeedLearnsInOrder == AllKB!KBSpec

(***************************************************************************)
(* A commodity message none of whose commodities is refused is, the moment *)
(* they are committed, in the listings of the one station of its name,     *)
(* however old the view it was found in: all but the commodities the code  *)
(* has no symbol for.  A signal message is in the time series.             *)
(***************************************************************************)
FeedStored(m) ==
    \A i \in DOMAIN m.items :
        m.items[i] # Null =>
            IF m.schema = "signals"
            THEN [system |-> m.system, signal |-> m.items[i], time |-> m.time] \in signals
            ELSE \E k \in DOMAIN listings :
                    /\ k.commodity = m.items[i]
                    /\ k.station.name = m.station
                    /\ SystemIn(k.station.owner) = m.system
                    /\ listings[k]["updated_at"] = m.time

FeedCommits ==
    \/ at = "listings" /\ at' = "states"
    \/ at = "lookup" /\ at' = "idle"

WholeFeedApplied ==
    [][FeedCommits /\ whole' => FeedStored(feed)']_<<vars, feedVars>>

=============================================================================
