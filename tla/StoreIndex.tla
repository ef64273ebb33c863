---------------------------- MODULE StoreIndex ----------------------------
(***************************************************************************)
(* The edge index of the component store (src/component/src/store.rs):    *)
(* open_edges, the interval grid edge_grid with its levels, the material   *)
(* node index edges_by_node, and get_edges_at_timestamp over them.         *)
(*                                                                         *)
(* An edge is a record [src, trg, from, to] over instance nodes whose      *)
(* class is Class[n]; the edge type is left out, as no index reads it.     *)
(* The grid is a set of [lvl, bin, e] (edge_grid[lvl][bin] holds e), the   *)
(* node index a set of [key, e] (edges_by_node[key] holds e).             *)
(***************************************************************************)
EXTENDS Integers, Sequences, FiniteSets, FiniteSetsExt, EdgeDerivation

CONSTANTS
    Edges,      \* the edges update_edges may add or delete
    Class,      \* [node -> {"Object", "Event", "Material", "Property"}]
    Levels,     \* Store.levels: the bin widths, ascending
    Times       \* the timestamps lookups are made at

VARIABLES
    open,       \* open_edges
    grid,       \* edge_grid
    byNode,     \* edges_by_node
    watermark,  \* Store.watermark
    held        \* the edges update_edges was told to hold: the edges
                \* derived from the stored deltas (Component's edgeIdx)

vars == <<open, grid, byNode, watermark, held>>

Material == "Material"

\* index_edge_by_node (store.rs:474-476): no endpoint is an Object.
IndexByNode(e) == Class[e.src] # "Object" /\ Class[e.trg] # "Object"

\* Mutant of KeysOf: every endpoint is a key.
KeysOfAllEndpoints(e) == {e.src, e.trg}

\* Mutant of KeysOf: the source end is not read.
KeysOfTargetOnly(e) == {n \in {e.trg} : Class[n] = Material}

\* index_edge_by_keys (store.rs:478-487): the Material endpoints.
KeysOf(e) == {n \in {e.src, e.trg} : Class[n] = Material}

\* find_edge_index_and_level (store.rs:133-141): the first level l with
\* 2 * l >= duration (the last level is too wide to miss).
LevelOf(e) ==
    Min({i \in 1..Len(Levels) : 2 * Levels[i] >= e.to - e.from})

\* The bins add_edge and delete_edge use: those of from and of to
\* (store.rs:216-222, 123-129).
BinsOf(e) == {e.from \div Levels[LevelOf(e)], e.to \div Levels[LevelOf(e)]}

GridEntries(e) == {[lvl |-> LevelOf(e), bin |-> b, e |-> e] : b \in BinsOf(e)}

\* Every edge some index holds.
IndexedEdges == open \cup {g.e : g \in grid} \cup {x.e : x \in byNode}

\* Store::update_watermark (store.rs:330-339): the removal delta that
\* closes an edge is stored, and raises the watermark, before update_edges
\* derives the edge (component.rs:184-201).
RaiseWatermark(w, e) == IF e.to = None THEN w ELSE Max({w, e.to})

\* Store::add_edge (store.rs:209-235).
AddEdge(e) ==
    /\ e \notin held
    /\ held' = held \cup {e}
    /\ IF IndexByNode(e)
       THEN /\ byNode' = byNode \cup {[key |-> k, e |-> e] : k \in KeysOf(e)}
            /\ UNCHANGED <<open, grid>>
       ELSE IF e.to = None
       THEN /\ open' = open \cup {e}
            /\ UNCHANGED <<grid, byNode>>
       ELSE /\ grid' = grid \cup GridEntries(e)
            /\ UNCHANGED <<open, byNode>>
    /\ watermark' = RaiseWatermark(watermark, e)

\* Mutant of DeleteFromGrid: only the from bin is cleared.
DeleteFromGridFromBinOnly(G, e) ==
    G \ {[lvl |-> LevelOf(e), bin |-> e.from \div Levels[LevelOf(e)], e |-> e]}

\* delete_edge_from_bin for the from bin and, when it differs, the to bin
\* (store.rs:122-129, 143-147).
DeleteFromGrid(G, e) == G \ GridEntries(e)

\* Store::delete_edge (store.rs:112-131) with delete_node_indexed_edge
\* (store.rs:149-156).
DeleteEdge(e) ==
    /\ e \in held
    /\ held' = held \ {e}
    /\ byNode' = IF IndexByNode(e) THEN byNode \ {x \in byNode : x.e = e} ELSE byNode
    /\ IF e.to = None
       THEN open' = open \ {e} /\ UNCHANGED grid
       ELSE grid' = DeleteFromGrid(grid, e) /\ UNCHANGED open
    /\ UNCHANGED watermark

Init ==
    /\ open = {} /\ grid = {} /\ byNode = {}
    /\ watermark = 0
    /\ held = {}

Next == \E e \in Edges : AddEdge(e) \/ DeleteEdge(e)

Spec == Init /\ [][Next]_vars

(* ------------------------------ lookups ------------------------------- *)

\* get_open_edges_at_timestamp (store.rs:288-294).
OpenAt(t) == {e \in open : e.from <= t}

\* Mutant of ClosedAt: the edges of the bins are returned unfiltered.
ClosedAtUnfiltered(t) ==
    {g.e : g \in {g \in grid : g.bin = t \div Levels[g.lvl]}}

\* get_closed_edges_at_timestamp (store.rs:266-286): the edges in the bin
\* of t of every level, filtered by from <= t <= to.
ClosedAt(t) ==
    {e \in {g.e : g \in {g \in grid : g.bin = t \div Levels[g.lvl]}} :
        e.from <= t /\ t <= e.to}

MaterialsOf(E) == UNION {KeysOf(e) : e \in E}

RECURSIVE TraverseFrom(_, _, _, _)
\* The loop of get_node_indexed_edges_at_timestamp (store.rs:158-207):
\* the edges of the current nodes live at t are returned, and the
\* unvisited Material endpoints found become the next nodes.  The branch
\* for a Material target tests and adds the source (store.rs:193-198).
TraverseFrom(cur, visited, acc, t) ==
    IF cur = {} THEN acc
    ELSE LET vis  == visited \cup cur
             live == {x.e : x \in {x \in byNode : x.key \in cur /\ LiveAt(x.e, t)}}
             next == {e.src : e \in {e \in live : Class[e.src] = Material /\ e.src \notin vis}}
                     \cup {e.src : e \in {e \in live : Class[e.trg] = Material /\ e.src \notin vis}}
         IN  TraverseFrom(next, vis, acc \cup live, t)

\* Store::get_edges_at_timestamp (store.rs:237-264).
EdgesAt(t) ==
    LET base == OpenAt(t) \cup (IF t <= watermark THEN ClosedAt(t) ELSE {})
    IN  base \cup TraverseFrom(MaterialsOf(base), {}, {}, t)

------------------------------------------------------------------------------
\* The edges held and live at t: what a lookup must return.
LiveHeldAt(t) == {e \in held : LiveAt(e, t)}

TypeOK ==
    /\ open \subseteq Edges
    /\ \A g \in grid : g.lvl \in 1..Len(Levels) /\ g.e \in Edges
    /\ \A x \in byNode : Class[x.key] = Material /\ x.e \in Edges
    /\ watermark \in Nat

(* The indexes hold exactly the edges update_edges was told to hold:     *)
(* delete_edge recomputes the level and both bins add_edge used, and      *)
(* clears the node index, so no deleted edge lingers where a later lookup *)
(* reads, and add_edge puts every edge somewhere a lookup reads.          *)
IndexMatchesHeld == IndexedEdges = held

(* get_edges_at_timestamp returns only edges held and live at t: the bins *)
(* of the grid are coarse, so the filter of get_closed_edges_at_timestamp *)
(* and the timestamp test of the node traversal must drop the others, and *)
(* a deleted edge must be gone from every bin and key.                    *)
LookupSound == \A t \in Times : EdgesAt(t) \subseteq LiveHeldAt(t)

(* spec.md section 4.2: at t <= watermark, every closed edge containing t *)
(* is returned.  add_edge stores a closed edge in the bins of its from   *)
(* and its to only (store.rs:216-222), at the first level with           *)
(* 2 * l >= duration (store.rs:136).                                     *)
GridLookupComplete ==
    \A t \in Times :
        t <= watermark =>
            {e \in LiveHeldAt(t) : ~IndexByNode(e) /\ e.to # None} \subseteq EdgesAt(t)

\* The node-indexed edges live at t.
NodeLive(t) == {e \in LiveHeldAt(t) : IndexByNode(e)}

RECURSIVE ReachMaterials(_, _)
\* The Material nodes reachable from R over node-indexed edges live at t.
ReachMaterials(R, t) ==
    LET R2 == R \cup MaterialsOf({e \in NodeLive(t) : KeysOf(e) \cap R # {}})
    IN  IF R2 = R THEN R ELSE ReachMaterials(R2, t)

(* spec.md section 4.2: the lookup also returns the material and property *)
(* edges reachable from any material node of the open and closed edges   *)
(* live at t (the traversal of get_node_indexed_edges_at_timestamp).     *)
TraversalComplete ==
    \A t \in Times :
        LET seeds == MaterialsOf({e \in LiveHeldAt(t) : ~IndexByNode(e)})
        IN  {e \in NodeLive(t) : KeysOf(e) \cap ReachMaterials(seeds, t) # {}}
                \subseteq EdgesAt(t)
=============================================================================
