--------------------------- MODULE EdgeDerivation ---------------------------
(***************************************************************************)
(* The derivation of bitemporal edges from the addition and removal        *)
(* deltas of one edge shape (src/core/src/graph.rs, edges_from_deltas,     *)
(* group_distinct_delta_intervals and Edge::from_deltas).                  *)
(*                                                                         *)
(* A delta is a record [s, t, k]: the edge shape s (src, trg, edge_type),  *)
(* its timestamp t and its kind k \in {"Add", "Rem"}.  A derived edge is   *)
(* a record [s, from, to] where to = None for an open edge.                *)
(***************************************************************************)
EXTENDS Integers, FiniteSets, FiniteSetsExt

CONSTANT None   \* Option::None for an edge's to_timestamp (a model value)

Add == "Add"
Rem == "Rem"

\* The removal groups: every removal timestamp r collects the additions a
\* with a <= r that no earlier removal collected (graph.rs:416-430).  A
\* group with at least one addition becomes the edge [min(adds), r]
\* (Edge::from_deltas); a removal group without additions yields nothing.
\* Deltas are deduplicated first, as the store works on BTreeSet<Delta>,
\* so two removals never share a timestamp.
GroupOf(adds, rems, r) ==
    {a \in adds : a <= r /\ \A r2 \in rems : r2 < r => a > r2}

\* The additions after every removal form the one open group.
OpenGroup(adds, rems) == {a \in adds : \A r \in rems : a > r}

\* edges_from_deltas restricted to one shape s of the delta set D.
EdgesOf(s, D) ==
    LET adds == {d.t : d \in {x \in D : x.s = s /\ x.k = Add}}
        rems == {d.t : d \in {x \in D : x.s = s /\ x.k = Rem}}
    IN  {[s |-> s, from |-> Min(GroupOf(adds, rems, r)), to |-> r] :
            r \in {r \in rems : GroupOf(adds, rems, r) # {}}}
        \cup
        IF OpenGroup(adds, rems) = {} THEN {}
        ELSE {[s |-> s, from |-> Min(OpenGroup(adds, rems)), to |-> None]}

\* Whether a derived edge is live at timestamp t: from <= t <= to, or open.
LiveAt(e, t) == e.from <= t /\ (e.to = None \/ t <= e.to)
=============================================================================
