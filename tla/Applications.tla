---------------------------- MODULE Applications ----------------------------
(***************************************************************************)
(* The scenario applications of src/scenario-server: the pickdrop         *)
(* application of crane.rs, which given one grouped match of a matched    *)
(* pickdrop query, the query's edges and a crane event moves a barrel     *)
(* onto or off the crane; the stamp application of stamp.rs, which gives  *)
(* the barrel at a stamp assembly its stamp data; the conveyor            *)
(* application of conveyor.rs, which moves the barrel on a conveyor to    *)
(* the ramp for its material; and the detector application of            *)
(* detector.rs, which gives the barrel at a platform its material type.   *)
(*                                                                         *)
(* Nodes and edges are those of Matcher; a data edge also carries its     *)
(* from_timestamp as the field from.  The request's matches are the       *)
(* grouped match (to_query_matches, src/grpc/src/                          *)
(* application_component_mapping.rs:24-52); the request's query graph is  *)
(* the Vec of the matched query's edges.  A delta is [src, trg, et, ts,   *)
(* dt].  The event is the record its payload decodes to.                 *)
(***************************************************************************)
EXTENDS Integers, Sequences, SequencesExt, FiniteSets

CONSTANT None

\* to_query_match (application_component_mapping.rs:34-42): the tuples
\* (query edge, data edge) of the edges match m binds.
Tuples(m) == {[src |-> d, trg |-> m[d]] : d \in {d \in DOMAIN m : m[d] # None}}

\* as_instance_node (scenario-server/src/common.rs:21-31).
AsInstanceNode(n) == [n EXCEPT !.qn = None]

Delta(s, t, et, ts, dt) == [src |-> s, trg |-> t, et |-> et, ts |-> ts, dt |-> dt]

\* The scan over the matches' tuples of process_pick_up_event,
\* process_drop_event and process_stamp_event (crane.rs:117-146, 210-240,
\* stamp.rs:71-91): among the tuples that
\* are in acc, the first with the greatest from_timestamp, a later tuple
\* replacing the one found only when it is strictly later.  The order of
\* the tuples inside one match (the homomorphism's key order) decides only
\* between tuples of one match with equal from_timestamp.
LatestTuple(gm, acc) ==
    LET Best(c) == CHOOSE t \in c : \A s \in c : s.trg.from <= t.trg.from
        Step(found, m) ==
            LET c == Tuples(m) \cap acc IN
            IF c = {} THEN found
            ELSE IF found = None THEN Best(c)
            ELSE IF found.trg.from < Best(c).trg.from THEN Best(c) ELSE found
    IN  FoldLeft(Step, None, gm)

\* The tuples of all matches of a grouped match.
AllTuples(gm) == UNION {Tuples(gm[i]) : i \in DOMAIN gm}

\* The scan of the query edges for the first one in stop (crane.rs:103-108,
\* 184-198): the edges it stops at, the first being either the edge it
\* looks for or one whose field it unwraps is missing.
Scan(qg, stop) == SelectSeq(qg, LAMBDA e : e \in stop)

\* The scan reaches an edge whose field is missing: the unwrap panics.
Panics(s, missing) == s # <<>> /\ s[1] \in missing

\* CraneApplication::process_pick_up_event (crane.rs:96-175): the crane is
\* the source of the first query edge from a Crane; the barrel tuple is
\* the latest whose data edge ends at the event's instance node; the
\* barrel leaves that node at ts and is At the crane from ts + 1.
ProcessPickUpEvent(ts, ev, gm, qg) ==
    LET missing == {e \in ToSet(qg) : e.src.typ = None}
        s == Scan(qg, missing \cup {e \in ToSet(qg) : e.src.typ = "Crane"})
        bt == LatestTuple(gm, {t \in AllTuples(gm) : t.trg.trg.inst = ev.inst})
    IN  IF Panics(s, missing) THEN None
        ELSE IF s = <<>> \/ bt = None THEN <<>>
        ELSE << Delta(bt.trg.src, bt.trg.trg, bt.trg.et, ts, "Removal"),
                Delta(bt.trg.src, AsInstanceNode(s[1].src), bt.trg.et, ts + 1, "Addition") >>

\* Mutant of ProcessDropEvent: the barrel tuple is the latest of all
\* tuples, whatever node its data edge ends at.
ProcessDropEventAnyTarget(ts, ev, gm, qg) ==
    LET missing == {e \in ToSet(qg) : e.trg.inst = None}
        s == Scan(qg, missing \cup {e \in ToSet(qg) : e.trg.inst = ev.inst})
        bt == LatestTuple(gm, AllTuples(gm))
    IN  IF Panics(s, missing) THEN None
        ELSE IF s = <<>> \/ bt = None THEN <<>>
        ELSE << Delta(bt.trg.src, bt.trg.trg, bt.trg.et, ts, "Removal"),
                Delta(bt.trg.src, AsInstanceNode(s[1].trg), bt.trg.et, ts + 1, "Addition") >>

\* CraneApplication::process_drop_event (crane.rs:177-279): the object is
\* the target of the first query edge into the event's instance node; the
\* barrel tuple is the latest whose data edge ends at a Crane; the barrel
\* leaves the crane at ts and is At the object from ts + 1.
ProcessDropEvent(ts, ev, gm, qg) ==
    LET missing == {e \in ToSet(qg) : e.trg.inst = None}
        s == Scan(qg, missing \cup {e \in ToSet(qg) : e.trg.inst = ev.inst})
        bt == LatestTuple(gm, {t \in AllTuples(gm) : t.trg.trg.typ = "Crane"})
    IN  IF Panics(s, missing) THEN None
        ELSE IF s = <<>> \/ bt = None THEN <<>>
        ELSE << Delta(bt.trg.src, bt.trg.trg, bt.trg.et, ts, "Removal"),
                Delta(bt.trg.src, AsInstanceNode(s[1].trg), bt.trg.et, ts + 1, "Addition") >>

\* CraneApplication::process_crane_event (crane.rs:74-94): the deltas, or
\* None when the handler panics.
ProcessCraneEvent(ts, ev, gm, qg) ==
    IF ev.kind = "PickUp" THEN ProcessPickUpEvent(ts, ev, gm, qg)
    ELSE ProcessDropEvent(ts, ev, gm, qg)

\* bincode::encode_to_vec: an encoding keeps what it encodes apart; a
\* struct of one field encodes as that field.
Encode(x) == <<"bincode", x>>

\* create_stamp_node (stamp.rs:129-141): a property node named after the
\* barrel and the timestamp, holding the payload.
CreateStampNode(id, ts, payload) ==
    [qn |-> None, cls |-> "Property", typ |-> "StampData",
     inst |-> <<id, "_Stamp_", ts>>, val |-> payload]

\* StampApplication::process_stamp_event (stamp.rs:64-126): the latest
\* barrel At tuple of the matches gets a HasStampData edge at ts to a new
\* stamp node holding the encoded stamp data.  Every tuple of a request
\* has a data edge with a source (to_match_tuple, application_component_
\* mapping.rs:44-52), so the checks of a missing one never return.
ProcessStampEvent(ts, ev, gm) ==
    LET bt == LatestTuple(gm, {t \in AllTuples(gm) : t.src.et = "At"}) IN
    IF bt = None \/ bt.trg.src.typ # "Barrel" THEN <<>>
    ELSE << Delta(bt.trg.src,
                  CreateStampNode(bt.trg.src.inst, ts, Encode(ev.stampData)),
                  "HasStampData", ts, "Addition") >>

\* The decoding of what Encode encoded (bincode::decode_from_slice).
Decode(b) == b[2]

\* The last query edge whose target is query node qn, None when there is
\* none: the ramp loop of process_conveyor_event assigns on every hit.
LastEdge(qg, qn) ==
    LET s == SelectSeq(qg, LAMBDA e : e.trg.qn = qn) IN IF s = <<>> THEN None ELSE s[Len(s)]

\* The last tuple of match m (in its key order) whose query edge has type
\* et: the tuple loop of process_conveyor_event assigns on every hit.
TupleOfType(m, et) ==
    LET c == {t \in Tuples(m) : t.src.et = et} IN IF c = {} THEN None ELSE CHOOSE t \in c : TRUE

\* ConveyorApplication::process_conveyor_event (conveyor.rs:79-134): the
\* request must hold one match of two tuples, a barrel At tuple and a
\* HasMaterialType tuple, and the query must have a metal ramp m and a
\* plastic ramp p, or an assertion panics (None); the barrel leaves the
\* conveyor at ts and is At the ramp of its decoded material from ts + 1.
ProcessConveyorEvent(ts, ev, gm, qg) ==
    LET m       == gm[1]
        atT     == TupleOfType(m, "At")
        typeT   == TupleOfType(m, "HasMaterialType")
        metal   == LastEdge(qg, "m")
        plastic == LastEdge(qg, "p")
    IN  IF \/ Len(gm) # 1 \/ Cardinality(Tuples(m)) # 2
           \/ atT = None \/ typeT = None \/ metal = None \/ plastic = None
        THEN None
        ELSE LET ramp == IF Decode(typeT.trg.trg.val) = "Metal" THEN metal.trg ELSE plastic.trg
             IN  << Delta(atT.trg.src, atT.trg.trg, "At", ts, "Removal"),
                    Delta(atT.trg.src, AsInstanceNode(ramp), "At", ts + 1, "Addition") >>

\* create_material_type_node (detector.rs:94-102): a property node named
\* after the barrel, holding the encoded material type.
CreateMaterialTypeNode(id, type) ==
    [qn |-> None, cls |-> "Property", typ |-> "BarrelMaterialType",
     inst |-> <<id, "_barrel_type">>, val |-> Encode(type)]

\* DetectorApplication::process_detector_event (detector.rs:72-91): the
\* request must hold one match of one tuple, or an assertion panics
\* (None); the barrel of that tuple gets a HasMaterialType edge at ts + 1
\* to a node holding the event's material type.
ProcessDetectorEvent(ts, ev, gm) ==
    IF Len(gm) # 1 \/ Cardinality(Tuples(gm[1])) # 1 THEN None
    ELSE LET t == CHOOSE t \in Tuples(gm[1]) : TRUE IN
         << Delta(t.trg.src, CreateMaterialTypeNode(t.trg.src.inst, ev.type),
                  "HasMaterialType", ts + 1, "Addition") >>
=============================================================================
