---------------------------- MODULE MCMiningMaps ----------------------------
(***************************************************************************)
(* Two systems, one with a ring and one with two rings of the same name.   *)
(***************************************************************************)
EXTENDS MiningMaps, TLC

CONSTANTS sol, maia, A, B, B2, Platinum, Osmium, Boom, Typo

AnyNames == Permutations(Names)

MCSystemOf == [r \in Rings |-> IF r = A THEN sol ELSE maia]
MCNameOf == [r \in Rings |-> IF r = A THEN "A Ring" ELSE "B Ring"]

Item(sym, tons) == [sym |-> sym, tons |-> tons]

MCLists == {<<Item(Platinum, Null)>>, <<Item(Platinum, 1), Item(Osmium, Null)>>,
            <<Item(Osmium, Null), Item(Osmium, Null)>>, <<Item(Boom, Null)>>,
            <<Item(Platinum, Null), Item(Typo, Null)>>}

=============================================================================
