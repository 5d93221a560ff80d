--------------------------- MODULE MCSpanshImport ---------------------------
(***************************************************************************)
(* A dump of two systems, each twice and more in it, beside a journal and  *)
(* a commodity message about the same planetary station.                   *)
(***************************************************************************)
EXTENDS SpanshImport, MCFeedIngest

DumpItem(system, date) == [
    system |-> system, date |-> date, controlling |-> Null,
    powerState |-> Null, controllingPower |-> Null,
    factions |-> <<>>, bodies |-> <<>>, stations |-> <<>>]

Dumped(name, updated, faction, market, outfitting) ==
    [name |-> name, updated |-> updated, faction |-> faction, market |-> market,
     outfitting |-> outfitting]

Sells(time, symbols) == [time |-> time, symbols |-> symbols]

Planet(name, number, found, stations, rings) ==
    [name |-> name, number |-> number, signals |-> found, stations |-> stations,
     rings |-> rings]

\* The market sells something that is no commodity.
Spoiled == [DumpItem(s2, 1) EXCEPT
    !.factions = <<Report(f1, "Boom")>>,
    !.stations = <<Dumped(port, 1, f2, Sells(Null, <<"Biological">>), FALSE)>>]

\* The faction of the item before, and what hangs on a planet.
Ringed == [DumpItem(s1, 2) EXCEPT
    !.controlling = f1, !.factions = <<Report(f1, "Boom"), Report(f2, "War")>>,
    !.bodies = <<Planet(p1, 1, <<"Biological">>,
                        <<Dumped(base, 2, f1, Sells(5, <<"Platinum">>), TRUE)>>,
                        <<[name |-> r1, signals |-> <<"Platinum">>]>>)>>]

\* The same system as it was before: no station, signals that are none, and a
\* ring without the field.
Older == [DumpItem(s1, 1) EXCEPT
    !.controlling = f2, !.factions = <<Report(f2, "War")>>,
    !.bodies = <<Planet(p1, 1, <<>>, <<>>, <<[name |-> r1, signals |-> Null]>>)>>]

\* Two colonisation ships, the newer of them with an old market.
Neighbour == [DumpItem(s2, 3) EXCEPT
    !.controlling = f2, !.factions = <<Report(f1, Null)>>,
    !.bodies = <<Planet(p2, 1, <<"Platinum">>, <<>>, <<>>)>>,
    !.stations = <<Dumped(port, 2, f1, Sells(5, <<"Platinum">>), FALSE),
                   Dumped(port, 3, Null, Sells(0, <<"Platinum">>), TRUE)>>]

Rest == [DumpItem(s2, 4) EXCEPT !.factions = <<Report(f2, "War")>>]

\* The faction of Ringed has its last mention in Neighbour.
MCDump == <<Spoiled, Null, Ringed, Older, Neighbour, Rest>>

MCStartAt == {0, 3}

Nothing == {}

BesideMessages == {DockedAtBase}
BesideFeed == {Sold(s1, base, <<"Platinum">>, 6)}

ImportMessages == MixedMessages \cup BesideMessages
ImportFeed == MixedFeed \cup BesideFeed

Only(messages, feedMessages) ==
    {msg, msg'} \subseteq messages \cup {Null} /\ {feed, feed'} \subseteq feedMessages \cup {Null}

\* A behaviour is about the processors alone, an import beside one message of
\* each kind, or imports that start anywhere, twice, and alone.
OneStress ==
    \/ imports' = 0 /\ Only(MixedMessages, MixedFeed)
    \/ imports' <= 1 /\ first' = 0 /\ Only(BesideMessages, BesideFeed)
    \/ Only({}, {})

=============================================================================
