------------------------------ MODULE MCRouter ------------------------------
(***************************************************************************)
(* Query universes of three queries in the shape of the factory scenarios *)
(* (src/testdata/src/factory_scenario_builder.rs): matched queries whose  *)
(* output edges move a barrel to a bound crane or conveyor, or give it a  *)
(* material type property, and whose patterns ask for a barrel at a given *)
(* conveyor, at any crane, at any object, or with a material type.        *)
(* Every choice of output edges and of one pattern edge per query is an   *)
(* initial state.                                                         *)
(***************************************************************************)
EXTENDS Router, TLC

VARIABLES
    out,    \* Out: the output edges of each query
    pat     \* Pat: the pattern edges of each query

vars == <<out, pat>>

CONSTANTS qa, qb, qc

MCQueries == {qa, qb, qc}

\* The properties name no query, so the query names are symmetric.
QuerySymmetry == Permutations(MCQueries)

Nd(qn, cls, typ, inst) == [qn |-> qn, cls |-> cls, typ |-> typ, inst |-> inst, val |-> None]

Ed(s, t, et) == [src |-> s, trg |-> t, et |-> et]

\* Output edges of matched queries: the query node names are kept, the
\* objects are bound to instances, the barrel is not (create_matched_query).
OutputShapes ==
    { Ed(Nd("b", "Material", "Barrel", None), Nd("c", "Object", "Crane", "crane0"), "At"),
      Ed(Nd("b", "Material", "Barrel", None), Nd("v", "Object", "Conveyor", "conv0"), "At"),
      Ed(Nd("b", "Material", "Barrel", None), Nd("t", "Property", "MaterialType", None), "HasMaterialType") }

PatternShapes ==
    { Ed(Nd("b", "Material", "Barrel", None), Nd("c", "Object", "Crane", None), "At"),
      Ed(Nd("b", "Material", "Barrel", None), Nd("v", "Object", "Conveyor", "conv0"), "At"),
      Ed(Nd("b", "Material", "Barrel", None), Nd("o", "Object", None, None), "At"),
      Ed(Nd("b", "Material", "Barrel", None), Nd("t", "Property", "MaterialType", None), "HasMaterialType") }

\* A delta an application emits for output edge o: no query node names,
\* a concrete barrel, and a material type property with its value
\* (as the detector application builds it, detector.rs:94-103).
Emitted(o) ==
    LET inst(n) == CASE n.cls = "Material" -> "barrel1"
                     [] n.cls = "Property" -> "barrel1_type"
                     [] OTHER              -> n.inst
        node(n) == [n EXCEPT !.qn = None, !.inst = inst(n),
                             !.val = IF n.cls = "Property" THEN 1 ELSE None]
    IN  [o EXCEPT !.src = node(o.src), !.trg = node(o.trg)]

Init ==
    /\ out \in [MCQueries -> {{o} : o \in OutputShapes}]
    /\ pat \in [MCQueries -> {{i} : i \in PatternShapes}]

Spec == Init /\ [][UNCHANGED vars]_vars

------------------------------------------------------------------------------
FM == ForwardMaps(out, pat)

(* spec.md section 4.10: a delta emitted by query q reaches exactly the   *)
(* queries whose pattern admits it.  The map is keyed by output edges     *)
(* with their query node names forgotten (compute_edge_forward_map) and  *)
(* looked up with the delta's particulars forgotten (route_deltas_update),*)
(* and the closures add keys of their own: these must agree.              *)
RoutesToSubscribers ==
    LET fm == FM
    IN  \A q \in MCQueries : \A o \in out[q] :
        RouteTargets(fm, q, Emitted(o)) =
            {p \in MCQueries : \E i \in pat[p] : Admits(i, Emitted(o))}

(* spec.md section 8: compute-closure is idempotent, applying the         *)
(* transitive and the triangle closure twice gives the maps once.         *)
ClosureIdempotent ==
    LET fm == FM
    IN  ComputeEdgeForwardClosure(out, pat, fm) = fm
=============================================================================
