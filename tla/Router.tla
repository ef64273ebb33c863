------------------------------- MODULE Router -------------------------------
(***************************************************************************)
(* The edge-forward maps of the router (src/component/src/router.rs):     *)
(* compute_edge_forward_maps, the transitive and triangle closures that   *)
(* Router::new applies to them, and the lookup route_deltas_update makes  *)
(* in the map of its own query.                                           *)
(*                                                                         *)
(* A node is a record [qn, cls, typ, inst, val]: query node name, class,  *)
(* node type, instance node name and value bytes, each optional one      *)
(* None when absent.  An edge is [src, trg, et]; the timestamps of the    *)
(* edges the router handles are always None (Delta::to_edge).             *)
(* A query universe is given by Out[q], the output edges of q, and        *)
(* Pat[q], the edges of q's pattern graph.  A forward map is a function   *)
(* from query names to sets of [key, to] pairs: edge_forward_map[key]     *)
(* holds the topic "to".                                                  *)
(***************************************************************************)
EXTENDS FiniteSets

CONSTANTS
    Queries,    \* the query names of all_queries_by_name
    None

\* The part of find_output_edges that compares one end of an output edge o
\* with one end i of a pattern edge (router.rs:223-230).
NodeMatches(i, o) ==
    /\ o.cls = i.cls
    /\ i.typ = None \/ i.typ = o.typ
    /\ i.inst = None \/ i.inst = o.inst

Admits(i, o) ==
    NodeMatches(i.src, o.src) /\ NodeMatches(i.trg, o.trg) /\ i.et = o.et

\* Router::find_output_edges (router.rs:219-238): q's output edges that
\* match some edge of p's pattern graph.
FindOutputEdges(Out, Pat, q, p) == {o \in Out[q] : \E i \in Pat[p] : Admits(i, o)}

\* Node::forget_query_node_name and Edge::forget_query_node_name
\* (graph.rs:274-276, 310-313).
ForgetQueryNodeName(e) ==
    [e EXCEPT !.src.qn = None, !.trg.qn = None]

\* Mutant of ForgetNode: only a material's particulars are forgotten.
ForgetNodeMaterialOnly(n) ==
    IF n.cls = "Material"
    THEN [n EXCEPT !.qn = None, !.inst = None, !.val = None]
    ELSE [n EXCEPT !.val = None]

\* Node::forget_particular_material, _property and _value
\* (graph.rs:256-272).
ForgetNode(n) ==
    IF n.cls \in {"Material", "Property"}
    THEN [n EXCEPT !.qn = None, !.inst = None, !.val = None]
    ELSE [n EXCEPT !.val = None]

\* Edge::forget_particulars (graph.rs:301-308).
ForgetParticulars(e) == [e EXCEPT !.src = ForgetNode(e.src), !.trg = ForgetNode(e.trg)]

\* Router::compute_edge_forward_map for every query
\* (router.rs:181-217): the key of an output edge is the edge without its
\* query node names, and it holds every query whose pattern admits it.
ComputeEdgeForwardMaps(Out, Pat) ==
    [q \in Queries |->
        {[key |-> ForgetQueryNodeName(o), to |-> p] :
            <<p, o>> \in {<<p, o>> \in Queries \X Out[q] : o \in FindOutputEdges(Out, Pat, q, p)}}]

\* Router::compute_reachable_map (router.rs:167-179).
ComputeReachableMap(fm) == [q \in Queries |-> {x.to : x \in fm[q]}]

\* One pass of the while loop of compute_edge_forward_transitive_closure
\* (router.rs:100-127): for q with newly reached rs, every p reached by
\* some r in rs and not yet by q is added under each of q's output edges
\* that feeds p, keeping their query node names (router.rs:111-116).
\* The reachable sets are read as they were at the start of the pass.
TransitiveAdds(Out, Pat, all, new, q) ==
    {[key |-> e, to |-> p] :
        <<p, e>> \in {<<p, e>> \in (UNION {all[r] : r \in new[q]} \ all[q]) \X Out[q] :
                         e \in FindOutputEdges(Out, Pat, q, p)}}

RECURSIVE TransitiveLoop(_, _, _, _, _)
\* The while loop itself (router.rs:99-135): new_reachable becomes the
\* queries and topics added in the pass, and all_reachable grows by them.
TransitiveLoop(Out, Pat, fm, all, new) ==
    IF \A q \in Queries : new[q] = {}
    THEN fm
    ELSE LET adds == [q \in Queries |-> TransitiveAdds(Out, Pat, all, new, q)]
             iter == [q \in Queries |-> {x.to : x \in adds[q]}]
         IN  TransitiveLoop(Out, Pat,
                            [q \in Queries |-> fm[q] \cup adds[q]],
                            [q \in Queries |-> all[q] \cup iter[q]],
                            iter)

\* Router::compute_edge_forward_transitive_closure (router.rs:95-137).
TransitiveClosure(Out, Pat, fm) ==
    TransitiveLoop(Out, Pat, fm, ComputeReachableMap(fm), ComputeReachableMap(fm))

\* Mutant of TriangleClosure: r1's output edges are added for r2 whether
\* or not they feed r2.
TriangleClosureUnfiltered(Out, Pat, fm) ==
    LET all == ComputeReachableMap(fm)
    IN  [r1 \in Queries |->
            fm[r1] \cup
            {[key |-> e, to |-> r2] :
                <<r2, e>> \in {<<r2, e>> \in Queries \X Out[r1] :
                                  /\ \E q \in Queries : {r1, r2} \subseteq all[q]
                                  /\ r1 # r2}}]

\* Router::compute_edge_forward_triangle_closure (router.rs:140-164): for
\* two distinct r1, r2 reached by one query, r1's output edges that feed
\* r2 are added to r1's map with r2.
TriangleClosure(Out, Pat, fm) ==
    LET all == ComputeReachableMap(fm)
    IN  [r1 \in Queries |->
            fm[r1] \cup
            {[key |-> e, to |-> r2] :
                <<r2, e>> \in {<<r2, e>> \in Queries \X Out[r1] :
                                  /\ \E q \in Queries : {r1, r2} \subseteq all[q]
                                  /\ r1 # r2
                                  /\ e \in FindOutputEdges(Out, Pat, r1, r2)}}]

\* Router::compute_edge_forward_closure (router.rs:90-93).
ComputeEdgeForwardClosure(Out, Pat, fm) ==
    TriangleClosure(Out, Pat, TransitiveClosure(Out, Pat, fm))

\* The forward map Router::new keeps for each query (router.rs:52-55).
ForwardMaps(Out, Pat) ==
    ComputeEdgeForwardClosure(Out, Pat, ComputeEdgeForwardMaps(Out, Pat))

\* The topics route_deltas_update sends a delta on edge d to
\* (router.rs:320-332): the lookup of d with its particulars forgotten.
RouteTargets(fm, q, d) == {x.to : x \in {x \in fm[q] : x.key = ForgetParticulars(d)}}
=============================================================================
