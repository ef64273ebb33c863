----------------------------- MODULE MCProducer -----------------------------
(***************************************************************************)
(* Three messages and a queue bound of 1: the second message's response  *)
(* can report a queue of 2 while the producer is about to push the third. *)
(* No send fails.                                                         *)
(***************************************************************************)
EXTENDS Producer
=============================================================================
