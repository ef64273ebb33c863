---------------------------- MODULE MCStoreIndex ----------------------------
(***************************************************************************)
(* A barrel m1 (Material) at a station o (Object), a barrel m2 contained   *)
(* in m1 and a property p of m2, as in the factory scenarios.  The levels  *)
(* are those of Store::new; the widest, u64::MAX / 2, is replaced by a     *)
(* value that puts every timestamp here in bin 0 as it does.              *)
(***************************************************************************)
EXTENDS StoreIndex

MCClass == [n \in {"o", "m1", "m2", "p"} |->
              CASE n = "o"  -> "Object"
                [] n = "p"  -> "Property"
                [] OTHER    -> "Material"]

MCLevels == <<10, 100, 1000, 1000000000>>

MCTimes == {2, 5, 9, 15, 25}

Shapes == {<<"m1", "o">>, <<"m1", "m2">>, <<"m2", "p">>}

\* Open edges, and closed edges of duration 4 (one bin) and 20 (three bins
\* of level 10).
Spans == {<<5, None>>, <<5, 9>>, <<5, 25>>}

MCEdges == {[src |-> s[1], trg |-> s[2], from |-> i[1], to |-> i[2]] : s \in Shapes, i \in Spans}

MCOpenEdges == {e \in MCEdges : e.to = None}
=============================================================================
