---------------------------- MODULE MCAlgorithms ----------------------------
(***************************************************************************)
(* Bounded checks of the pure algorithms against reference definitions:   *)
(* the interval canonicalisation of MCIntervals, the query matcher of     *)
(* Matcher over every small query and data graph built from the nodes     *)
(* below, the applications on the factory scenarios, and the router's    *)
(* forward maps over the query universes of MCRouter.  Each initial state *)
(* is one input; the invariants compare the algorithm's result with the  *)
(* reference on it.                                                       *)
(***************************************************************************)
EXTENDS MCIntervals

VARIABLES
    query,       \* the query the matcher runs
    graph,       \* the Vec of data edges it runs on
    gmatch,      \* the grouped match create_matched_query specialises by
    cevent,      \* the crane event the pickdrop application is called with
    rout,        \* MCRouter's out: the output edges of each query
    rpat         \* MCRouter's pat: the pattern edges of each query

CONSTANTS qa, qb, qc

M == INSTANCE Matcher
A == INSTANCE Applications

algVars == <<D, raw, query, graph, gmatch, cevent, rout, rpat>>

RouterQueries == {qa, qb, qc}

RT == INSTANCE MCRouter WITH Queries <- RouterQueries, out <- rout, pat <- rpat

\* The router's checks read no query name, so the names are symmetric.
RouterSymmetry == Permutations(RouterQueries)

\* The value of rout and rpat in the inputs of the other algorithms.
NoRouting == [q \in RouterQueries |-> {}]

Nd(qn, cls, typ, inst) == [qn |-> qn, cls |-> cls, typ |-> typ, inst |-> inst]
Ed(s, t) == [src |-> s, trg |-> t, et |-> "At"]

\* Data nodes: two objects of one type and a material of another; their
\* instance names are unique, as the store's are.
n1 == Nd(None, "Object", "T", "n1")
n2 == Nd(None, "Object", "T", "n2")
n3 == Nd(None, "Material", "U", "n3")

\* Query nodes: u and v match any object, w any material, i is bound to
\* n1 and j to n2.
u == Nd("u", "Object", None, None)
v == Nd("v", "Object", None, None)
w == Nd("w", "Material", None, None)
i == Nd("i", "Object", "T", "n1")
j == Nd("j", "Object", None, "n2")

DataEdges  == <<Ed(n1, n2), Ed(n2, n1), Ed(n1, n3), Ed(n2, n3)>>
QueryEdges == <<Ed(u, v), Ed(u, w), Ed(v, w), Ed(i, v), Ed(i, j)>>

\* The subsequence of s whose elements lie in X.
Sub(s, X) == SelectSeq(s, LAMBDA x : x \in X)

\* Every query of one to three edges of QueryEdges, visited in either
\* order, with any optional edges and no group, group {v} or group {u, w}.
Queries ==
    UNION {{[edges |-> ord, optional |-> O, group |-> G] :
               ord \in {Sub(QueryEdges, E), Reverse(Sub(QueryEdges, E))},
               O \in SUBSET E,
               G \in {{}, {v}, {u, w}}} :
             E \in {E \in SUBSET ToSet(QueryEdges) : Cardinality(E) \in 1..3}}

(* The factory scenarios (testdata/src/factory_scenario_builder.rs): the  *)
(* matched queries of one crane c1 reaching platform p1, stamp assembly   *)
(* sa1 and conveyor cv1, of sa1 and its stamp, of cv1 with its plastic    *)
(* ramp rp and metal ramp rm, and of p1 and its detector; p2 is a place   *)
(* no query names.                                                        *)

PdEd(s, t, et) == [src |-> s, trg |-> t, et |-> et]
crane1    == Nd(None, "Object", "Crane", "c1")
pickdrop1 == Nd(None, "Event", "PickDrop", "c1.PickDrop")
p1        == Nd(None, "Object", "Platform", "p1")
p2        == Nd(None, "Object", "Platform", "p2")
sa1       == Nd(None, "Object", "StampAssembly", "sa1")
stamp1    == Nd(None, "Event", "Stamp", "s1")
cv1       == Nd(None, "Object", "Conveyor", "cv1")
ce1       == Nd(None, "Object", "ConveyorEvent", "cv1.Event")
rp        == Nd(None, "Object", "Ramp", "rp")
rm        == Nd(None, "Object", "Ramp", "rm")
det1      == Nd(None, "Event", "Detector", "det1")
Surrounding == <<p1, sa1, cv1>>
AtPosition(o) == Nd(None, "Object", "ObjectAtPosition", o.inst \o ".ObjectAtPosition")

\* The elements of a finite set in some order (the matched query's edges
\* are a BTreeSet; MatchesExact checks that the visiting order does not
\* change the matches).
RECURSIVE AsSeq(_)
AsSeq(X) == IF X = {} THEN <<>>
            ELSE LET x == CHOOSE x \in X : TRUE IN <<x>> \o AsSeq(X \ {x})

\* Query::create_matched_query, its edges given some order.
Specialise(q, gm) ==
    LET mq == M!CreateMatchedQuery(q, gm) IN [mq EXCEPT !.edges = AsSeq(@)]

\* pickdrop_query (factory_scenario_builder.rs:59-104).
oQ   == Nd("o", "Object", "Object", None)
oapQ == Nd("oap", "Object", "ObjectAtPosition", None)
cQ   == Nd("c", "Object", "Crane", None)
pdQ  == Nd("p", "Event", "Pickdrop", None)
boQ  == Nd("bo", "Material", "Barrel", None)
bcQ  == Nd("bc", "Material", "Barrel", None)
PickdropQuery ==
    [edges    |-> <<PdEd(oapQ, oQ, "HasObject"), PdEd(cQ, oapQ, "HasObjectAtPosition"),
                    PdEd(cQ, pdQ, "HasEvent"), PdEd(bcQ, cQ, "At"), PdEd(boQ, oQ, "At")>>,
     optional |-> {PdEd(boQ, oQ, "At"), PdEd(bcQ, cQ, "At")},
     output   |-> {PdEd(bcQ, cQ, "At"), PdEd(boQ, oQ, "At")},
     input    |-> {pdQ},
     group    |-> {cQ}]

\* matched_pickdrop_query (factory_scenario_builder.rs:106-178): one match
\* per surrounding object binding the crane's event edge, its
\* object-at-position edge and that position's object edge.
PickdropMatch ==
    [k \in 1..Len(Surrounding) |->
        (PdEd(cQ, pdQ, "HasEvent") :> PdEd(crane1, pickdrop1, "HasEvent"))
        @@ (PdEd(cQ, oapQ, "HasObjectAtPosition") :>
                PdEd(crane1, AtPosition(Surrounding[k]), "HasObjectAtPosition"))
        @@ (PdEd(oapQ, oQ, "HasObject") :>
                PdEd(AtPosition(Surrounding[k]), Surrounding[k], "HasObject"))
        @@ (PdEd(bcQ, cQ, "At") :> None) @@ (PdEd(boQ, oQ, "At") :> None)]

\* stamp_query and matched_stamp_query (factory_scenario_builder.rs:180-241).
saQ  == Nd("sa", "Object", "StampAssembly", None)
sQ   == Nd("s", "Event", "Stamp", None)
bQ   == Nd("b", "Material", "Barrel", None)
bsdQ == Nd("bsd", "Property", "StampData", None)
StampQuery ==
    [edges    |-> <<PdEd(saQ, sQ, "HasEvent"), PdEd(bQ, saQ, "At")>>,
     optional |-> {},
     output   |-> {PdEd(bQ, bsdQ, "HasProperty")},
     input    |-> {sQ},
     group    |-> {}]
StampMatch ==
    <<(PdEd(saQ, sQ, "HasEvent") :> PdEd(sa1, stamp1, "HasEvent"))
      @@ (PdEd(bQ, saQ, "At") :> None)>>

\* conveyor_query and matched_conveyor_query
\* (factory_scenario_builder.rs:242-347).
cvQ == Nd("c", "Object", "Conveyor", None)
eQ  == Nd("e", "Event", "ConveyorEvent", None)
rpQ == Nd("p", "Object", "Ramp", None)
rmQ == Nd("m", "Object", "Ramp", None)
tQ  == Nd("t", "Property", "BarrelMaterialType", None)
ConveyorQuery ==
    [edges    |-> <<PdEd(cvQ, eQ, "HasEvent"), PdEd(cvQ, rpQ, "HasPlasticRamp"),
                    PdEd(bQ, cvQ, "At"), PdEd(bQ, tQ, "HasMaterialType"),
                    PdEd(cvQ, rmQ, "HasMetalRamp")>>,
     optional |-> {},
     output   |-> {PdEd(bQ, cvQ, "At"), PdEd(bQ, rpQ, "At"), PdEd(bQ, rmQ, "At")},
     input    |-> {eQ},
     group    |-> {}]
ConveyorMatch ==
    <<(PdEd(cvQ, rpQ, "HasPlasticRamp") :> PdEd(cv1, rp, "HasPlasticRamp"))
      @@ (PdEd(cvQ, rmQ, "HasMetalRamp") :> PdEd(cv1, rm, "HasMetalRamp"))
      @@ (PdEd(cvQ, eQ, "HasEvent") :> PdEd(cv1, ce1, "HasEvent"))
      @@ (PdEd(bQ, cvQ, "At") :> None) @@ (PdEd(bQ, tQ, "HasMaterialType") :> None)>>

\* detector_query and matched_detector_query
\* (factory_scenario_builder.rs:349-408).
plQ  == Nd("p", "Object", "Platform", None)
dQ   == Nd("d", "Event", "Detector", None)
bmtQ == Nd("bmt", "Property", "BarrelMaterialType", None)
DetectorQuery ==
    [edges    |-> <<PdEd(plQ, dQ, "HasEvent"), PdEd(bQ, plQ, "At")>>,
     optional |-> {},
     output   |-> {PdEd(bQ, bmtQ, "HasMaterialType")},
     input    |-> {dQ},
     group    |-> {}]
DetectorMatch ==
    <<(PdEd(plQ, dQ, "HasEvent") :> PdEd(p1, det1, "HasEvent"))
      @@ (PdEd(bQ, plQ, "At") :> None)>>

\* The simulator's state (complex_factory_scenario.rs:118-280): which
\* barrel each place holds, at most one and each barrel in one place; the
\* from_timestamp of each barrel's At edge; and each barrel's material
\* type, None while the detector has not yet typed a new barrel.
Places  == <<crane1, p1, sa1, cv1, rp, rm, p2>>
Barrels == {Nd(None, "Material", "Barrel", "b1"), Nd(None, "Material", "Barrel", "b2")}
PdTs == 3
Holdings == {h \in [1..7 -> Barrels \cup {None}] :
                \A x, y \in 1..7 : x # y /\ h[x] # None => h[x] # h[y]}

\* The edges live at the event: the structure edges the scenario starts
\* with, the barrels' At edges and their material type edges.
FactoryGraph(h, from, ty) ==
    LET Fixed(s, t, et) == [src |-> s, trg |-> t, et |-> et, from |-> 0] IN
    << Fixed(crane1, pickdrop1, "HasEvent"), Fixed(sa1, stamp1, "HasEvent"),
       Fixed(cv1, ce1, "HasEvent"), Fixed(cv1, rp, "HasPlasticRamp"),
       Fixed(cv1, rm, "HasMetalRamp"), Fixed(p1, det1, "HasEvent") >>
    \o [k \in 1..Len(Surrounding) |->
           Fixed(crane1, AtPosition(Surrounding[k]), "HasObjectAtPosition")]
    \o [k \in 1..Len(Surrounding) |->
           Fixed(AtPosition(Surrounding[k]), Surrounding[k], "HasObject")]
    \o SelectSeq([k \in 1..7 |-> [src |-> h[k], trg |-> Places[k], et |-> "At",
                                  from |-> IF h[k] = None THEN 0 ELSE from[h[k]]]],
                 LAMBDA e : e.src # None)
    \o SelectSeq([k \in 1..7 |->
                     IF h[k] = None \/ ty[h[k]] = None THEN None
                     ELSE [src |-> h[k], trg |-> A!CreateMaterialTypeNode(h[k].inst, ty[h[k]]),
                           et |-> "HasMaterialType", from |-> 1]],
                 LAMBDA e : e # None)

\* The events the simulator sends (complex_factory_scenario.rs:134-274): a
\* pick up from a surrounding place holding a barrel while the crane holds
\* none, a drop onto an empty surrounding place while the crane holds one,
\* a stamp while the stamp assembly holds a barrel, and a conveyor event
\* while the conveyor holds a barrel and the ramp for its type is empty.
FactoryEvents(h, ty) ==
    {[kind |-> IF h[1] = None THEN "PickUp" ELSE "Drop", inst |-> Places[k].inst, at |-> k] :
        k \in {k \in 2..4 : (h[1] = None) = (h[k] # None)}}
    \cup (IF h[3] = None THEN {}
          ELSE {[kind |-> "Stamp", inst |-> stamp1.inst, stampData |-> "d1"]})
    \cup (IF h[4] = None \/ h[IF ty[h[4]] = "Metal" THEN 6 ELSE 5] # None THEN {}
          ELSE {[kind |-> "Conveyor", inst |-> ce1.inst, at |-> IF ty[h[4]] = "Metal" THEN 6 ELSE 5]})

\* The matched query of the component an event goes to.
QueryFor(ev) ==
    CASE ev.kind \in {"PickUp", "Drop"} -> Specialise(PickdropQuery, PickdropMatch)
      [] ev.kind = "Stamp"              -> Specialise(StampQuery, StampMatch)
      [] ev.kind = "Conveyor"           -> Specialise(ConveyorQuery, ConveyorMatch)
      [] ev.kind = "Detect"             -> Specialise(DetectorQuery, DetectorMatch)

Types == {"Metal", "Plastic"}

\* Every event on every state; and the detector event on a barrel just put
\* on p1, not yet typed, its At edge starting at the event.
InitFactory ==
    /\ D = {} /\ raw = <<>> /\ gmatch = <<>>
    /\ \E h \in Holdings, from \in [Barrels -> 1..2], ty \in [Barrels -> Types] :
          \/ /\ cevent \in FactoryEvents(h, ty)
             /\ graph = FactoryGraph(h, from, ty)
          \/ /\ h[2] # None
             /\ cevent \in {[kind |-> "Detect", inst |-> det1.inst, type |-> t] : t \in Types}
             /\ graph = FactoryGraph(h, [from EXCEPT ![h[2]] = PdTs], [ty EXCEPT ![h[2]] = None])
    /\ query = QueryFor(cevent)

InitOthers ==
    \/ InitCanonical /\ query = [edges |-> <<Ed(u, v)>>, optional |-> {}, group |-> {}]
                     /\ graph = <<>> /\ gmatch = <<>> /\ cevent = None
    \/ D = {} /\ raw = <<>> /\ gmatch = <<>> /\ cevent = None
       /\ query \in Queries
       /\ graph \in {Sub(DataEdges, E) : E \in SUBSET ToSet(DataEdges)}
    \/ InitFactory

InitAlgorithms ==
    \/ InitOthers /\ rout = NoRouting /\ rpat = NoRouting
    \/ /\ D = {} /\ raw = <<>>
       /\ query = [edges |-> <<Ed(u, v)>>, optional |-> {}, group |-> {}]
       /\ graph = <<>> /\ gmatch = <<>> /\ cevent = None
       /\ RT!Init

SpecAlgorithms == InitAlgorithms /\ [][UNCHANGED algVars]_algVars

------------------------------------------------------------------------------
(* The reference: a partial homomorphism binds every unmatched query edge *)
(* to a data edge passing the local filter, or leaves an optional one     *)
(* unbound, and gives every query node without instance name one image   *)
(* across the edges it binds (spec.md 4.8).                               *)

\* The image of query node n under the binding of d.
Img(h, d, n) == IF d.src = n THEN h[d].src ELSE h[d].trg

Bound(h) == {d \in DOMAIN h : h[d] # None}

Homomorphisms(q, g) ==
    LET keys == ToSet(SelectSeq(q.edges, M!Unmatched))
        Cands(d) == {t \in ToSet(g) : M!EdgeFilter(d, t)}
                    \cup (IF d \in q.optional THEN {None} ELSE {})
    IN
    {h \in [keys -> UNION {Cands(d) : d \in keys}] :
        /\ \A d \in keys : h[d] \in Cands(d)
        /\ \A d1, d2 \in Bound(h) :
              \A n \in {d1.src, d1.trg} \cap {d2.src, d2.trg} :
                  n.inst = None => Img(h, d1, n) = Img(h, d2, n)}

\* The maximal ones, without the lone match that binds nothing.
RefMatches(q, g) ==
    LET H   == Homomorphisms(q, g)
        Top == {h \in H : ~\E k \in H : /\ Bound(h) \subseteq Bound(k)
                                        /\ Bound(h) # Bound(k)
                                        /\ \A d \in Bound(h) : k[d] = h[d]}
    IN  IF \E h \in Top : Top = {h} /\ Bound(h) = {} THEN {} ELSE Top

\* The images of query node n in h.
Images(h, n) == {Img(h, d, n) : d \in {d \in Bound(h) : n \in {d.src, d.trg}}}

\* The reference grouping: matches with the same images of the group nodes.
RefGroups(q, g) ==
    LET R == RefMatches(q, g) IN
    IF q.group = {} THEN {{h} : h \in R}
    ELSE {{k \in R : \A n \in q.group : Images(k, n) = Images(h, n)} : h \in R}

(* find_all_matches returns each maximal partial homomorphism of the      *)
(* query into the data graph exactly once: the edge-by-edge extension     *)
(* with its neighbour checks (query.rs:277-362) finds every consistent    *)
(* binding and no inconsistent one, and the order-dependent pairwise      *)
(* exclusion pass (query.rs:223-254) drops exactly the dominated and      *)
(* duplicate matches, whatever order the query edges are visited in.      *)
MatchesExact ==
    LET ms == M!FindAllMatches(query, graph) IN
    ToSet(ms) = RefMatches(query, graph) /\ IsInjective(ms)

(* find_all_grouped_matches puts two matches in one group exactly when    *)
(* they bind every group node to the same data node (query.rs:172-210):   *)
(* each group becomes one application request, so a split group calls    *)
(* the application twice and a merged one hides a match from it.          *)
GroupsExact ==
    {ToSet(s) : s \in M!FindAllGroupedMatches(query, graph)} = RefGroups(query, graph)

------------------------------------------------------------------------------
(* create_matched_query on the conveyor query of the factory scenarios,  *)
(* with the grouped match matched_conveyor_query builds by hand           *)
(* (factory_scenario_builder.rs:284-347): it binds the conveyor's event   *)
(* and ramp edges and leaves the barrel edges unbound.  The conveyor      *)
(* application moves the barrel from c to ramp p or m, so b At c, b At p  *)
(* and b At m are the query's output edges.                               *)

InitMatched ==
    /\ D = {} /\ raw = <<>>
    /\ query = ConveyorQuery
    /\ graph = <<>>
    /\ gmatch = ConveyorMatch
    /\ cevent = None /\ rout = NoRouting /\ rpat = NoRouting

SpecMatched == InitMatched /\ [][UNCHANGED algVars]_algVars

(* The matched query keeps every output edge of the query: it has an      *)
(* output edge of the same type between the same query nodes.  The       *)
(* router keys its forward map by these edges (router.rs:181-238) and     *)
(* spec.md section 2 calls them the shapes the component may emit, so a  *)
(* dropped one sends the application's deltas of that shape to central   *)
(* only.                                                                  *)
OutputEdgesKept ==
    LET mq == M!CreateMatchedQuery(query, gmatch) IN
    \A o \in query.output :
        \E x \in mq.output : x.et = o.et /\ x.src.qn = o.src.qn /\ x.trg.qn = o.trg.qn

------------------------------------------------------------------------------
(* The applications against the simulator that sends their events.     *)

\* create_pickup_message (factory_scenario_common_updates.rs:268-306): the
\* deltas the simulator infers for a pick up of barrel b from place o.
CreatePickupMessage(b, o, ts) ==
    << A!Delta(b, o, "At", ts, "Removal"), A!Delta(b, crane1, "At", ts + 1, "Addition") >>

\* create_drop_message (factory_scenario_common_updates.rs:308-339): those
\* of a drop of barrel b from the crane onto place o.
CreateDropMessage(b, o, ts) ==
    << A!Delta(b, crane1, "At", ts, "Removal"), A!Delta(b, o, "At", ts + 1, "Addition") >>

\* create_stamp_message (factory_scenario_common_updates.rs:233-266): the
\* delta the simulator infers for a stamp of barrel b, its event sent at
\* cur + 1 (create_stamp_event, lines 153-175, encodes the one-field
\* StampEvent, which bincode encodes as its field).
CreateStampMessage(b, ev, cur) ==
    << A!Delta(b, A!CreateStampNode(b.inst, cur + 1, A!Encode(ev.stampData)),
               "HasStampData", cur + 1, "Addition") >>

\* produce_conveyor_message (complex_factory_scenario.rs:357-390): those
\* of barrel b leaving conveyor c for ramp r.
ProduceConveyorMessage(b, c, r, ts) ==
    << A!Delta(b, c, "At", ts, "Removal"), A!Delta(b, r, "At", ts + 1, "Addition") >>

\* create_detector_message (complex_factory_scenario.rs:420-453): the
\* material type edge of new barrel b.
CreateDetectorMessage(b, type, ts) ==
    << A!Delta(b, A!CreateMaterialTypeNode(b.inst, type), "HasMaterialType", ts + 1, "Addition") >>

\* The barrel the simulator's state puts at place k.
HeldAt(k) == CHOOSE b \in Barrels :
                 \E e \in ToSet(graph) : e.et = "At" /\ e.trg = Places[k] /\ e.src = b

\* ApplicationComponentService::send (scenario-server/src/lib.rs:63-80):
\* the application the matched query names, on one grouped match.
Application(gm) ==
    CASE cevent.kind = "Stamp"    -> A!ProcessStampEvent(PdTs, cevent, gm)
      [] cevent.kind = "Conveyor" -> A!ProcessConveyorEvent(PdTs, cevent, gm, query.edges)
      [] cevent.kind = "Detect"   -> A!ProcessDetectorEvent(PdTs, cevent, gm)
      [] OTHER                    -> A!ProcessCraneEvent(PdTs, cevent, gm, query.edges)

\* What the simulator infers for the event.
Inferred ==
    CASE cevent.kind = "PickUp"   -> CreatePickupMessage(HeldAt(cevent.at), Places[cevent.at], PdTs)
      [] cevent.kind = "Drop"     -> CreateDropMessage(HeldAt(1), Places[cevent.at], PdTs)
      [] cevent.kind = "Stamp"    -> CreateStampMessage(HeldAt(3), cevent, PdTs - 1)
      [] cevent.kind = "Conveyor" -> ProduceConveyorMessage(HeldAt(4), cv1, Places[cevent.at], PdTs)
      [] cevent.kind = "Detect"   -> CreateDetectorMessage(HeldAt(2), cevent.type, PdTs)

(* On every event the simulator sends, the matched query of the crane,    *)
(* stamp assembly, conveyor or platform it goes to puts its matches into  *)
(* one grouped match, so the application is called once, and the         *)
(* application given that group (crane.rs:96-279, stamp.rs:64-126,        *)
(* conveyor.rs:79-134, detector.rs:72-91) emits exactly the deltas the   *)
(* simulator infers for the event (complex_factory_scenario.rs:134-274),  *)
(* which the integration tests compare central's store with: out of the   *)
(* tuples of the group it picks the barrel at the place picked from, on   *)
(* the crane, at the stamp assembly, on the conveyor or on the platform,  *)
(* while other barrels stand at other places, and the ramp its material   *)
(* type edge names.                                                       *)
ApplicationDeltasAsInferred ==
    cevent # None =>
        LET G == M!FindAllGroupedMatches(query, graph) IN
        /\ Cardinality(G) = 1
        /\ \A gm \in G : Application(gm) = Inferred

\* The index rules of add_edge, on edges whose endpoints are given by their
\* node class alone: the rules read nothing else of a node.
SI == INSTANCE StoreIndex WITH Edges <- {}, Levels <- <<1>>, Times <- {},
          Class <- [c \in {"Object", "Event", "Material", "Property"} |-> c],
          open <- {}, grid <- {}, byNode <- {}, watermark <- 0, held <- {}

\* A delta's edge has a place in some index of the store.
Indexed(d) ==
    LET e == [src |-> d.src.cls, trg |-> d.trg.cls]
    IN  ~SI!IndexByNode(e) \/ SI!KeysOf(e) # {}

(* Every edge an application emits for a factory event has a place in the *)
(* component store: add_edge (store.rs:209-235) puts an edge with an       *)
(* Object end into open_edges or edge_grid and one without under the keys  *)
(* of its Material ends, so an edge with neither, such as Property to      *)
(* Property, would be held by no index and never found again.             *)
OutputsIndexed ==
    cevent # None =>
        \A gm \in M!FindAllGroupedMatches(query, graph) :
            LET ds == Application(gm) IN
            ds # None => \A k \in DOMAIN ds : Indexed(ds[k])

(* MCRouter's RoutesToSubscribers on every query universe: a delta that   *)
(* query q emits reaches exactly the queries whose pattern admits it,     *)
(* though route_deltas_update looks it up with its particulars forgotten  *)
(* in maps keyed by output edges and extended by the closures.            *)
RoutesToSubscribers == rout # NoRouting => RT!RoutesToSubscribers

(* MCRouter's ClosureIdempotent on every query universe: applying the     *)
(* transitive and the triangle closure of Router::new once more changes  *)
(* nothing (spec.md section 8).                                           *)
ClosureIdempotent == rout # NoRouting => RT!ClosureIdempotent
=============================================================================
