------------------------------ MODULE MCInbox ------------------------------
(***************************************************************************)
(* The inbox with three events, two of them at one timestamp, one deltas   *)
(* package, one retraction and a Stop, sent in every order and interleaved *)
(* with the reactor's pops.                                                *)
(***************************************************************************)
EXTENDS Inbox

MCUpdates ==
    { [k |-> "ev", ts |-> 1, id |-> "e1"],
      [k |-> "ev", ts |-> 1, id |-> "e2"],
      [k |-> "ev", ts |-> 1, id |-> "e3"],
      [k |-> "dl", ts |-> 0, id |-> "d1"],
      [k |-> "rt", ts |-> 2, id |-> "r1"],
      StopUpdate }
=============================================================================
