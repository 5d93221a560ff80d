----------------------------- MODULE MCTimeseries ---------------------------
(***************************************************************************)
(* The time series with buckets of one tick and weeks of as many buckets   *)
(* as the configuration says: the clock passes one end of a week.          *)
(***************************************************************************)
EXTENDS Timeseries

\* Nothing tells one power from another.
SeriesSymmetry == Permutations(Powers)

\* The two tables never meet: what happens, happens to the one or to the other.
OneTable ==
    LET used == {r.job : r \in raw} \cup {m[1] : m \in missed} IN
    \/ used \subseteq {"presences"} /\ unoccupied = {}
    \/ used \subseteq {"powers"} /\ presences = {}

=============================================================================
