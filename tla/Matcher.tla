------------------------------ MODULE Matcher ------------------------------
(***************************************************************************)
(* The query matcher of src/core/src/query.rs: find_all_matches,          *)
(* extend_matches and find_all_grouped_matches, which process_event runs  *)
(* on the graph of the edges live at an event's timestamp                 *)
(* (src/component/src/component.rs:219-238).                              *)
(*                                                                         *)
(* A node is a record [qn, cls, typ, inst]: query node name, class, node  *)
(* type and instance node name, None when absent (value bytes and edge    *)
(* timestamps are left out: the matcher compares them only as part of a   *)
(* node's or an edge's identity).  An edge is [src, trg, et].  A query is *)
(* [edges, optional, group]: the Vec of its graph's edges, in the order   *)
(* the matcher visits them, its optional edges and its group nodes.  A    *)
(* data graph is the Vec of its edges.  A match (QueryMatch.homomorphism) *)
(* is a function from query edges to data edges or None.  Vecs of matches *)
(* are sequences, since the redundancy removal depends on their order.   *)
(***************************************************************************)
EXTENDS Integers, Sequences, SequencesExt, FiniteSets, Functions, TLC

CONSTANT None

(* ------------------------------ the code ------------------------------ *)

\* The edge_filter of extend_matches (query.rs:278-288): the local test of
\* a data edge t against a query edge e.
EdgeFilter(e, t) ==
    /\ t.et = e.et
    /\ e.src.cls = t.src.cls /\ e.trg.cls = t.trg.cls
    /\ e.src.typ = None \/ e.src.typ = t.src.typ
    /\ e.trg.typ = None \/ e.trg.typ = t.trg.typ
    /\ e.src.inst = None \/ e.src.inst = t.src.inst
    /\ e.trg.inst = None \/ e.trg.inst = t.trg.inst

\* An edge whose ends both carry an instance node name is already matched
\* and is skipped (query.rs:217-222).
Unmatched(e) == e.src.inst = None \/ e.trg.inst = None

\* Graph::incoming and Graph::outgoing of the query graph
\* (graph.rs:358-386).
Incoming(q, n) == {d \in ToSet(q.edges) : d.trg = n}
Outgoing(q, n) == {d \in ToSet(q.edges) : d.src = n}

\* Whether query edge d is bound to a data edge in match m.
BoundIn(m, d) == d \in DOMAIN m /\ m[d] # None

\* Mutant of Consistent: the outgoing edges of e.src are not checked.
ConsistentNoOutgoingSrc(q, e, m, c) ==
    /\ e.src.inst = None =>
          \A d \in Incoming(q, e.src) \ {e} : BoundIn(m, d) => m[d].trg = c.src
    /\ e.trg.inst = None =>
          /\ \A d \in Incoming(q, e.trg) \ {e} : BoundIn(m, d) => m[d].trg = c.trg
          /\ \A d \in Outgoing(q, e.trg) \ {e} : BoundIn(m, d) => m[d].src = c.trg

\* The 'cloop checks of extend_matches (query.rs:293-345): every query
\* neighbour of an end of e without instance name that m already binds
\* must put candidate c's end where its own image has that node.
Consistent(q, e, m, c) ==
    /\ e.src.inst = None =>
          /\ \A d \in Incoming(q, e.src) \ {e} : BoundIn(m, d) => m[d].trg = c.src
          /\ \A d \in Outgoing(q, e.src) \ {e} : BoundIn(m, d) => m[d].src = c.src
    /\ e.trg.inst = None =>
          /\ \A d \in Incoming(q, e.trg) \ {e} : BoundIn(m, d) => m[d].trg = c.trg
          /\ \A d \in Outgoing(q, e.trg) \ {e} : BoundIn(m, d) => m[d].src = c.trg

\* Inserting e |-> x into a clone of m's homomorphism.
Bind(m, e, x) == (e :> x) @@ m

\* Query::extend_matches (query.rs:277-362): for every match in order, one
\* extension per consistent candidate in graph order, then, for an
\* optional edge, the extension leaving e unmatched.
ExtendMatches(q, e, ms, g) ==
    LET cands == SelectSeq(g, LAMBDA t : EdgeFilter(e, t))
        Extend(acc, m) ==
            LET ok == SelectSeq(cands, LAMBDA c : Consistent(q, e, m, c))
            IN  acc \o [i \in 1..Len(ok) |-> Bind(m, e, ok[i])]
                    \o (IF e \in q.optional THEN <<Bind(m, e, None)>> ELSE <<>>)
    IN  FoldLeft(Extend, <<>>, ms)

\* The test m_included_in_k of find_all_matches (query.rs:230-236): k binds
\* every edge that m binds, to the same data edge.
Included(m, k) == \A d \in DOMAIN m : m[d] # None => k[d] = m[d]

\* The indices the pairwise pass of find_all_matches (query.rs:223-254)
\* excludes: i is skipped when excluded before its turn, j when excluded
\* before it is compared with i.
Excluded(ms) ==
    LET Pair(ex, i, j) ==
            CASE Included(ms[j], ms[i]) /\ ~Included(ms[i], ms[j]) -> ex \cup {j}
              [] Included(ms[i], ms[j])                            -> ex \cup {i}
              [] OTHER                                             -> ex
        Inner(ex, i) ==
            FoldLeft(LAMBDA x, j : IF j \in x THEN x ELSE Pair(x, i, j), ex,
                     [k \in 1..(Len(ms) - i) |-> i + k])
    IN  FoldLeft(LAMBDA x, i : IF i \in x THEN x ELSE Inner(x, i), {},
                 [k \in 1..Len(ms) |-> k])

\* Query::find_all_matches (query.rs:212-275): extend from the empty match
\* over the unmatched edges, drop the excluded matches, and drop a lone
\* survivor that binds nothing.
FindAllMatches(q, g) ==
    LET ms   == FoldLeft(LAMBDA acc, e : ExtendMatches(q, e, acc, g), <<<<>>>>,
                         SelectSeq(q.edges, Unmatched))
        ex   == Excluded(ms)
        keep == SelectSeq([i \in 1..Len(ms) |-> i], LAMBDA i : i \notin ex)
        kept == [k \in 1..Len(keep) |-> ms[keep[k]]]
    IN  IF Len(kept) = 1 /\ \A d \in DOMAIN kept[1] : kept[1][d] = None
        THEN <<>> ELSE kept

\* Mutant of GroupKey: only the source ends of the bound edges are read.
GroupKeySrcOnly(q, m) ==
    {<<d.src, m[d].src>> : d \in {d \in DOMAIN m : m[d] # None /\ d.src \in q.group}}

\* The grouping key of find_all_grouped_matches (query.rs:180-192): the
\* pairs (group node, its image) over the edges m binds.
GroupKey(q, m) ==
    {<<d.src, m[d].src>> : d \in {d \in DOMAIN m : m[d] # None /\ d.src \in q.group}}
    \cup {<<d.trg, m[d].trg>> : d \in {d \in DOMAIN m : m[d] # None /\ d.trg \in q.group}}

\* Query::find_all_grouped_matches (query.rs:172-210): one group per match
\* without group nodes, else the matches with one key, in match order (the
\* BTreeMap's order of the groups is left out).
FindAllGroupedMatches(q, g) ==
    LET ms == FindAllMatches(q, g) IN
    IF q.group = {} THEN {<<ms[i]>> : i \in DOMAIN ms}
    ELSE {SelectSeq(ms, LAMBDA m : GroupKey(q, m) = k) : k \in {GroupKey(q, m) : m \in ToSet(ms)}}

(* ------------------------- create_matched_query ----------------------- *)

\* The query edges the matches of a grouped match have keys for.
Keys(gm) == UNION {DOMAIN gm[i] : i \in DOMAIN gm}

\* GroupedQueryMatch::get_image_homomorphism (query.rs:387-403): the data
\* edges the matches bind query edge d to.
ImageHomomorphism(gm, d) == {gm[i][d] : i \in {i \in DOMAIN gm : BoundIn(gm[i], d)}}

\* GroupedQueryMatch::get_node_image_homomorphism (query.rs:405-428): the
\* data nodes the bound edges put query node n on.
NodeImageHomomorphism(gm, n) ==
    UNION {{gm[i][d].src : d \in {d \in DOMAIN gm[i] : BoundIn(gm[i], d) /\ d.src = n}}
           \cup {gm[i][d].trg : d \in {d \in DOMAIN gm[i] : BoundIn(gm[i], d) /\ d.trg = n}} :
              i \in DOMAIN gm}

\* The edges create_matched_query puts in for query edge d (query.rs:92-141):
\* d's images, else d with each bound end replaced by its images, each
\* given d's query node names back (query.rs:142-146).
EdgesToAdd(gm, d) ==
    LET si   == NodeImageHomomorphism(gm, d.src)
        ti   == NodeImageHomomorphism(gm, d.trg)
        ends == IF ImageHomomorphism(gm, d) # {}
                THEN {<<x.src, x.trg>> : x \in ImageHomomorphism(gm, d)}
                ELSE (IF si = {} THEN {d.src} ELSE si) \X (IF ti = {} THEN {d.trg} ELSE ti)
    IN  {[src |-> [x[1] EXCEPT !.qn = d.src.qn], trg |-> [x[2] EXCEPT !.qn = d.trg.qn],
          et |-> d.et] : x \in ends}

\* The images of every query edge of X that the grouped match has a key for
\* (the edges, optional_edges and output_edges branches of
\* add_edges_to_structure, query.rs:56-69).
Added(gm, X) == UNION {EdgesToAdd(gm, d) : d \in Keys(gm) \cap X}

\* The ends, among those images, of the query edges with an end in N (the
\* input_nodes and group branches, query.rs:70-89).
AddedEnds(gm, N) ==
    UNION {{x.src : x \in EdgesToAdd(gm, d)} : d \in {d \in Keys(gm) : d.src \in N}}
    \cup UNION {{x.trg : x \in EdgesToAdd(gm, d)} : d \in {d \in Keys(gm) : d.trg \in N}}

\* Query::create_matched_query (query.rs:40-170): the query specialised to
\* a grouped match, its pattern edges a set.  An output edge gets its
\* images when it is a pattern edge, and is kept as it is when neither end
\* has an image (query.rs:150-158).
CreateMatchedQuery(q, gm) ==
    [edges    |-> Added(gm, Keys(gm)),
     optional |-> Added(gm, q.optional),
     output   |-> Added(gm, q.output)
                  \cup {o \in q.output : /\ NodeImageHomomorphism(gm, o.src) = {}
                                         /\ NodeImageHomomorphism(gm, o.trg) = {}},
     input    |-> AddedEnds(gm, q.input),
     group    |-> AddedEnds(gm, q.group)]
=============================================================================
