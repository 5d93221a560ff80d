---------------------------- MODULE MCFeedIngest ----------------------------
(***************************************************************************)
(* A starport and a planetary station, their commodity messages, and the   *)
(* signals of their systems.                                               *)
(***************************************************************************)
EXTENDS FeedIngest, MCJournalIngest

\* Two factions, and the port is the second one's.
Arrived == [Bare("Location", s2, 1) EXCEPT
    !.systemFaction = f2, !.factions = <<Report(f1, "Boom"), Report(f2, "War")>>,
    !.station = port, !.stationFaction = f2]

\* A presence in a state the code does not know.
Unclear == [Bare("Location", s1, 3) EXCEPT
    !.systemFaction = f1, !.factions = <<Report(f1, Null)>>,
    !.body = p1, !.bodyNumber = 1, !.station = base, !.stationFaction = f1]

MixedMessages == {Arrived, Unclear}

Sold(system, station_, items, time) ==
    [schema |-> "commodity", system |-> system, station |-> station_,
     items |-> items, time |-> time]

Heard(system, items, time) ==
    [schema |-> "signals", system |-> system, station |-> Null,
     items |-> items, time |-> time]

\* The same commodity twice; one the code does not know; one that is no commodity.
MixedFeed == {
    Sold(s2, port, <<"Platinum", "Platinum">>, 5),
    Sold(s1, base, <<Null, "Platinum">>, 6),
    Sold(s1, base, <<"Boom">>, 7),
    Heard(s1, <<"War", Null>>, 8) }

=============================================================================
