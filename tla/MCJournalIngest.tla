-------------------------- MODULE MCJournalIngest --------------------------
(***************************************************************************)
(* Two systems with a body each, one of them ringed and with a station on  *)
(* it, and one name of a starport that both systems have.                  *)
(***************************************************************************)
EXTENDS JournalIngest, TLC

CONSTANTS s1, s2, f1, f2, p1, p2, r1, base, port

MCParent == r1 :> p1
MCKind == base :> "planetary" @@ port :> "orbital"
MCValues == {"Boom", "War", "Unoccupied", "Exploited", "Antal", "Platinum", "Biological"}
MCCommodities == {"Platinum"}

Bare(event, system, time) == [
    event |-> event, system |-> system, time |-> time, systemFaction |-> Null,
    factions |-> <<>>, powerState |-> Null, controllingPower |-> Null, powers |-> <<>>,
    body |-> Null, bodyName |-> Null, bodyNumber |-> 0, rings |-> <<>>,
    signals |-> <<>>, station |-> Null, stationFaction |-> Null]

Report(f, state) == [name |-> f, state |-> state]

\* A power holds the system ...
Held == [Bare("FSDJump", s1, 1) EXCEPT
    !.systemFaction = f1, !.factions = <<Report(f1, "Boom")>>,
    !.powerState = "Exploited", !.controllingPower = "Antal", !.powers = <<"Antal">>]

\* ... and leaves it; the first of the two factions is in an unknown state.
Left == [Bare("FSDJump", s1, 2) EXCEPT
    !.systemFaction = f2, !.factions = <<Report(f1, Null), Report(f2, "War")>>,
    !.powerState = "Unoccupied"]

\* Here it is the last one, and the batch is refused.
Landed == [Bare("Location", s1, 3) EXCEPT
    !.systemFaction = f1, !.factions = <<Report(f2, "War"), Report(f1, Null)>>,
    !.body = p1, !.bodyNumber = 1, !.station = base, !.stationFaction = f2]

InSpace == [Bare("Location", s2, 3) EXCEPT
    !.systemFaction = f2, !.factions = <<Report(f2, "Boom")>>,
    !.body = p2, !.station = port, !.stationFaction = f2]

ScanPlanet == [Bare("Scan", s1, 4) EXCEPT
    !.bodyName = p1, !.bodyNumber = 1, !.rings = <<r1>>]

ScanRing == [Bare("Scan", s1, 4) EXCEPT !.bodyName = r1, !.bodyNumber = 2]

Probed(signal) == [Bare("SAASignalsFound", s1, 5) EXCEPT
    !.bodyName = r1, !.bodyNumber = 2, !.signals = <<signal>>]

DockedAtBase == [Bare("Docked", s1, 6) EXCEPT
    !.body = p1, !.station = base, !.stationFaction = f1]

\* The faction of an engineer's base is one of the blocklisted names.
DockedAtEngineer == [DockedAtBase EXCEPT !.stationFaction = Null]

\* Some Docked messages have no Body.
DockedAtBaseBare == [DockedAtBase EXCEPT !.body = Null]

DockedAtPort == [Bare("Docked", s1, 6) EXCEPT !.station = port, !.stationFaction = f2]

\* A CarrierJump may name the controlling faction and no other.
CarrierArrived == [Bare("CarrierJump", s1, 7) EXCEPT !.systemFaction = f2]

\* Stations, their owners and factions, and the view.
StationMessages ==
    {Landed, InSpace, DockedAtBaseBare, DockedAtPort, ScanRing}

\* Bodies, rings, hotspots and what hangs on them.
BodyMessages ==
    {ScanPlanet, Probed("Platinum"), DockedAtEngineer, CarrierArrived}

\* A system that changes hands.
PowerMessages ==
    {[DockedAtEngineer EXCEPT !.time = 7], Left, [CarrierArrived EXCEPT !.time = 8]}

AllMessages == StationMessages \cup BodyMessages \cup PowerMessages

\* A behaviour is about one of the three, and the database fails no statement of
\* the first.
OneTopic ==
    \/ {msg, msg'} \subseteq StationMessages \cup {Null} /\ dbErrors' = 0
    \/ {msg, msg'} \subseteq BodyMessages \cup {Null}
    \/ {msg, msg'} \subseteq PowerMessages \cup {Null}

\* For the claims about powers and presences.
FactionMessages == {Held, Left, Landed, CarrierArrived}

\* For the claim about stations: twin bodies.
TwinMessages ==
    {ScanPlanet, ScanRing, Probed("Platinum"), Probed("Biological"), DockedAtEngineer, CarrierArrived}

ASSUME MCNames == NamesAreConsistent

=============================================================================
