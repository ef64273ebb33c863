---------------------------- MODULE MCComponent ----------------------------
(***************************************************************************)
(* One component whose query matches edges of shapes a and b.  A peer     *)
(* sends the package x1 = {Addition of a at 0} and may retract it; two     *)
(* events come at timestamps 1 and 2.  The application answers a match of *)
(* an a-edge for an event at t with {Removal of a at t, Addition of b at   *)
(* t + 1} and a match of a b-edge with nothing.  Shape a is routed to this *)
(* component and to the peer, b to the peer only, and every output also  *)
(* goes to central.  So an event's output closes the edge other events     *)
(* matched, and their outputs must be retracted again in cascade.          *)
(***************************************************************************)
EXTENDS Component

CONSTANTS E1, E2, X1   \* event and package ids (model values, like uuids)

MCEvents    == {E1, E2}
MCEvTs      == [e \in MCEvents |-> IF e = E1 THEN 1 ELSE 2]
MCExtIds    == {X1}
MCExtDs     == [x \in MCExtIds |-> {[s |-> "a", t |-> 0, k |-> Add]}]
MCExtTs     == [x \in MCExtIds |-> 0]
MCRetTs     == [x \in MCExtIds |-> 0]
MCShapes    == {"a", "b"}
MCRoute     == [s \in MCShapes |-> IF s = "a" THEN {"self", "peer"} ELSE {"peer"}]

MCApp(e, m) ==
    IF m.s = "a"
    THEN {[s |-> "a", t |-> EvTs[e], k |-> Rem], [s |-> "b", t |-> EvTs[e] + 1, k |-> Add]}
    ELSE {}
=============================================================================
