----------------------------- MODULE MiningMaps -----------------------------
(***************************************************************************)
(* interfaces/discord/commands/mining_maps: the commands of the Discord    *)
(* bot that submit, edit and list mining maps.                             *)
(*                                                                         *)
(* A handler does all of its database work before its first await, and     *)
(* the bot has one event loop: commands do not interleave.  But submit and *)
(* edit commit twice, first the map and then its commodities, and the      *)
(* process may die, or the second batch be refused, in between.  A command *)
(* that refuses its options before the first commit changes nothing.       *)
(***************************************************************************)
EXTENDS Upsert, Integers, FiniteSets

CONSTANTS
    Names,              \* names of maps
    Systems,            \* core.systems
    Rings, RingNames,   \* core.rings, and what users call a ring
    SystemOf, NameOf,   \* the system and the name of each ring
    Symbols,            \* what the metadata knows: commodities, and much else
    Commodities,        \* core.commodities
    Lists,              \* the commodity lists that users type
    Counts,             \* rock counts, for all columns of a map that have no key
    MaxMaps,            \* bounds the maps stored
    MaxFaults           \* bounds the crashes and the failures of PostgreSQL

OrNull(S) == S \cup {Null}

Ids == 1..MaxMaps

Job == [id : Ids, list : OrNull(Lists)]

ASSUME MapsAssumption ==
    /\ SystemOf \in [Rings -> Systems]
    /\ NameOf \in [Rings -> RingNames]
    /\ Commodities \subseteq Symbols
    /\ {MaxMaps, MaxFaults} \subseteq Nat
    /\ Null \notin Names \cup Systems \cup Rings \cup RingNames \cup Commodities
    /\ \A list \in Lists : 1 \in DOMAIN list      \* str.split returns an item
    /\ Null \notin Lists \cup Job

VARIABLES
    maps,               \* core.mining_maps, by id
    goods,              \* core.mining_map_commodities, by map and commodity
    job,                \* the command that has committed its map, or Null
    told,               \* what users were last told about a map (history)
    broken,             \* maps whose commodities were refused or lost (history)
    faults

vars == <<maps, goods, job, told, broken, faults>>

Map == [system : Systems, ring : Rings, name : Names, rocks : OrNull(Counts)]

GoodsKey == [map : Ids, sym : Commodities]

MapsInit ==
    /\ maps = [i \in {} |-> Null]
    /\ goods = [k \in {} |-> Null]
    /\ job = Null
    /\ told = [i \in {} |-> Null]
    /\ broken = {}
    /\ faults = 0

-----------------------------------------------------------------------------
GoodsOf(i) == {k \in DOMAIN goods : k.map = i}

\* What an embed shows of a map: the map and its commodities.
View(table, i) ==
    [map |-> maps[i], goods |-> [k \in {k \in DOMAIN table : k.map = i} |-> table[k]]]

\* get_mining_map: an inner join, which hides a map without commodities.
Found(i, name) == i \in DOMAIN maps /\ maps[i].name = name /\ GoodsOf(i) # {}

\* parse_commodities_str raises ValueError for what get_symbol_by_eddn_name does
\* not know; it knows every symbol of the metadata, commodity or not.
Parses(list) == \A n \in DOMAIN list : list[n].sym \in Symbols

\* Mutant: the commodities go to the first map.
FirstMapsRows(i, list) ==
    [n \in DOMAIN list |-> [key |-> [map |-> 1, sym |-> list[n].sym],
                            cols |-> [tons |-> list[n].tons]]]

to_dicts_from_discord(i, list) ==
    [n \in DOMAIN list |-> [key |-> [map |-> i, sym |-> list[n].sym],
                            cols |-> [tons |-> list[n].tons]]]

\* A symbol that is no commodity, by the foreign key, or one that is named twice.
Refused(i, list) ==
    \/ \E n \in DOMAIN list : list[n].sym \notin Commodities
    \/ DuplicateKey(to_dicts_from_discord(i, list))

\* Mutant: names are unique only together with the ring.
NeverTaken(name, i) == FALSE

\* The unique constraint on the name alone, which upsert_all knows nothing of.
Taken(name, i) == \E j \in DOMAIN maps : j # i /\ maps[j].name = name

\* The row with the unique columns of the upsert, or a new id.
RowFor(system, ring, name) ==
    LET same == {i \in DOMAIN maps : /\ maps[i].system = system
                                     /\ maps[i].ring = ring
                                     /\ maps[i].name = name}
    IN  IF same # {} THEN CHOOSE i \in same : TRUE ELSE Cardinality(DOMAIN maps) + 1

WithMap(i, row) == [j \in DOMAIN maps \cup {i} |-> IF j = i THEN row ELSE maps[j]]

Fault == faults < MaxFaults /\ faults' = faults + 1

Untell(i) == told' = [j \in DOMAIN told \ {i} |-> told[j]]

-----------------------------------------------------------------------------
\* get_ring knows the name only: any ring of that name, in any system.
get_ring(name) == {r \in Rings : NameOf[r] = name}

\* Mutant: the list is looked at only when it is stored.
AnyList(list) == TRUE

\* submit_mining_map parses the list once before it stores the map.
Submittable(list) == Parses(list)

\* The first commit: the map, whose columns a NULL does not overwrite.  Refused
\* are an unknown system or ring, an unknown symbol and a name that is taken.
Submit(system, ring, name, list, rocks) ==
    LET i == RowFor(system, ring, name)
        old == IF i \in DOMAIN maps THEN maps[i].rocks ELSE Null
    IN  /\ job = Null
        /\ Submittable(list)
        /\ i \in Ids
        /\ ~Taken(name, i)
        /\ maps' = WithMap(i, [system |-> system, ring |-> ring, name |-> name,
                               rocks |-> Coalesce(rocks, old)])
        /\ job' = [id |-> i, list |-> list]
        /\ UNCHANGED <<goods, told, broken, faults>>

-----------------------------------------------------------------------------
get_ring_by_system_and_name(system, name) ==
    {r \in Rings : SystemOf[r] = system /\ NameOf[r] = name}

\* Mutant: a new system with the old ring.
SystemAlone(system, ringName, old) == TRUE

\* "If changing system, you must also supply a ring_name"
RingSupplied(system, ringName, old) == system # Null => ringName # Null

\* Null where the ring is refused: it does not exist, or there are several.
NewRing(system, ringName, old) ==
    LET target == IF system = Null THEN old.system ELSE system
        rings == get_ring_by_system_and_name(target, ringName)
    IN  CASE ringName = Null -> old.ring
          [] ringName # Null /\ Cardinality(rings) = 1 -> CHOOSE r \in rings : TRUE
          [] OTHER -> Null

\* What update_mining_map writes: an option that is not given keeps its value.
Payload(old, system, ring, newName, rocks) ==
    [system |-> Coalesce(system, old.system), ring |-> ring,
     name |-> Coalesce(newName, old.name), rocks |-> Coalesce(rocks, old.rocks)]

\* The first commit of an edit.  Refused are a map that is not found, an unknown
\* system, no ring or several of the name, and a name that is taken, for which
\* update_mining_map raises.  The list is parsed only after the commit.
Edit(i, system, ringName, newName, list, rocks) ==
    LET old == maps[i]
        ring == NewRing(system, ringName, old)
    IN  /\ job = Null
        /\ Found(i, old.name)
        /\ RingSupplied(system, ringName, old)
        /\ ring # Null
        /\ ~Taken(Coalesce(newName, old.name), i)
        /\ maps' = WithMap(i, Payload(old, system, ring, newName, rocks))
        /\ job' = [id |-> i, list |-> list]
        /\ UNCHANGED <<goods, told, broken, faults>>

-----------------------------------------------------------------------------
\* The second commit, and the embed read back after it.
Complete ==
    /\ job # Null
    /\ goods' = IF job.list = Null THEN goods
                ELSE UpsertAll(goods, to_dicts_from_discord(job.id, job.list), {"tons"}, TRUE)
    /\ job.list # Null => Parses(job.list) /\ ~Refused(job.id, job.list)
    /\ told' = [j \in DOMAIN told \cup {job.id} |-> IF j = job.id THEN View(goods', j) ELSE told[j]]
    /\ broken' = broken \ {job.id}
    /\ job' = Null
    /\ UNCHANGED <<maps, faults>>

\* "Failed to upsert map commodities": the batch is refused, or the database
\* fails.
RefuseCommodities ==
    /\ job # Null /\ job.list # Null
    /\ Parses(job.list)
    /\ IF Refused(job.id, job.list) THEN UNCHANGED faults ELSE Fault
    /\ broken' = broken \cup {job.id}
    /\ Untell(job.id)
    /\ job' = Null
    /\ UNCHANGED <<maps, goods>>

\* The ValueError of a list that nothing has parsed before.
RaiseUnknownCommodity ==
    /\ job # Null /\ job.list # Null
    /\ ~Parses(job.list)
    /\ Untell(job.id)
    /\ job' = Null
    /\ UNCHANGED <<maps, goods, broken, faults>>

Crash ==
    /\ job # Null
    /\ Fault
    /\ broken' = broken \cup {job.id}
    /\ Untell(job.id)
    /\ job' = Null
    /\ UNCHANGED <<maps, goods>>

-----------------------------------------------------------------------------
AnySubmit ==
    \E system \in Systems, name \in Names, list \in Lists, rocks \in OrNull(Counts) :
        \E ringName \in RingNames : \E ring \in get_ring(ringName) :
            Submit(system, ring, name, list, rocks)

AnyEdit ==
    \E i \in DOMAIN maps, system \in OrNull(Systems), ringName \in OrNull(RingNames),
       newName \in OrNull(Names), list \in OrNull(Lists), rocks \in OrNull(Counts) :
        Edit(i, system, ringName, newName, list, rocks)

MapsNext ==
    \/ AnySubmit \/ AnyEdit
    \/ Complete \/ RefuseCommodities \/ RaiseUnknownCommodity \/ Crash

MapsSpec == MapsInit /\ [][MapsNext]_vars

-----------------------------------------------------------------------------
(***************************************************************************)
(* Types, and what the constraints of the tables promise: names are        *)
(* unique, and commodities belong to maps.                                 *)
(***************************************************************************)
MapsTypeOK ==
    /\ DOMAIN maps \subseteq Ids /\ \A i \in DOMAIN maps : maps[i] \in Map
    /\ \A i, j \in DOMAIN maps : maps[i].name = maps[j].name => i = j
    /\ DOMAIN goods \subseteq GoodsKey /\ \A k \in DOMAIN goods : k.map \in DOMAIN maps
    /\ job \in OrNull(Job) /\ (job # Null => job.id \in DOMAIN maps)
    /\ DOMAIN told \subseteq DOMAIN maps
    /\ broken \subseteq DOMAIN maps
    /\ faults \in 0..MaxFaults

Working(i) == job # Null /\ job.id = i

(***************************************************************************)
(* What the bot has told its users about a map is what is stored, until a  *)
(* command for that very map: no submission or edit of another one, and    *)
(* none that is refused, touches it.  And edit finds the map by that name. *)
(***************************************************************************)
AnswersAreTrue ==
    \A i \in DOMAIN told : ~Working(i) =>
        /\ told[i] = View(goods, i)
        /\ \A j \in DOMAIN maps : Found(j, told[i].map.name) <=> j = i

(***************************************************************************)
(* A map without commodities keeps its name from others while no command   *)
(* finds it.  Only a crash or a refused batch leaves one: never a word     *)
(* that the metadata does not know (submit_mining_map.py:101-104).         *)
(***************************************************************************)
BareOnlyAfterRefusal ==
    \A i \in DOMAIN maps : GoodsOf(i) = {} => Working(i) \/ i \in broken

Inside(map) == SystemOf[map.ring] = map.system

(***************************************************************************)
(* No command moves a map out of the system that its ring is in, nor the   *)
(* ring out of the system (edit_mining_map.py:104-124).                    *)
(***************************************************************************)
MapsStayInside ==
    [][\A i \in DOMAIN maps : Inside(maps[i]) => Inside(maps'[i])]_vars

=============================================================================
