------------------------------ MODULE Central ------------------------------
(***************************************************************************)
(* The central store (src/central/src/central.rs, server.rs) and the      *)
(* channel a component's router sends it packages and retractions over   *)
(* (src/component/src/router.rs:265-314, src/grpc/src/                    *)
(* process_update_client.rs:37-46).                                       *)
(*                                                                         *)
(* The component sends each deltas package of Packages verbatim, and may  *)
(* later retract it.  Every send is a spawned task: it completes, putting *)
(* the update into central's Queue, in any order, or, with Faulty, fails. *)
(* Central's reactor pops the Queue (the Inbox operators) and applies     *)
(* Central::process_update.  The rows of the deltas table are abstracted *)
(* to the ids of the packages they belong to: a package's deltas are      *)
(* inserted together and deleted together by deltas_id.                   *)
(***************************************************************************)
EXTENDS Integers, Sequences, FiniteSets

CONSTANTS
    Packages,   \* the deltas ids the component sends to central
    TS,         \* [Packages -> Nat]: origin_timestamp, also the retraction's
    Faulty      \* whether a send can fail

VARIABLES
    sentLog,    \* the updates in the order the router spawned their sends
    inflight,   \* spawned sends not yet completed
    queue,      \* central's Queue
    arrived,    \* the updates that entered the Queue
    rows,       \* the deltas table: ids of the packages with rows
    retracted   \* the retracted_updates table

vars == <<sentLog, inflight, queue, arrived, rows, retracted>>

Q == INSTANCE Inbox WITH Updates <- {}, unsent <- {},
                         inserted <- <<>>, popped <- <<>>, stopped <- FALSE

Dl(p) == [k |-> "dl", ts |-> TS[p], id |-> p]
\* route_retractions sends one deltas id per retraction, under a fresh
\* retraction_id (router.rs:247-252).
Rt(p) == [k |-> "rt", ts |-> TS[p], id |-> p, rid |-> "retraction-" \o p]

Sent(k) == {sentLog[i].id : i \in {i \in 1..Len(sentLog) : sentLog[i].k = k}}

Init ==
    /\ sentLog = <<>>
    /\ inflight = {}
    /\ queue = Q!EmptyQueue
    /\ arrived = {}
    /\ rows = {}
    /\ retracted = {}

\* route_deltas_update with use_central (router.rs:299-314): the package is
\* sent verbatim, in a task of its own (send_update, router.rs:265-277).
SendDeltas(p) ==
    /\ p \notin Sent("dl")
    /\ sentLog' = Append(sentLog, Dl(p))
    /\ inflight' = inflight \cup {Dl(p)}
    /\ UNCHANGED <<queue, arrived, rows, retracted>>

\* route_retractions (router.rs:240-263) for the central binding that
\* route_deltas_update recorded: only a package sent can be retracted.
SendRetraction(p) ==
    /\ p \in Sent("dl") /\ p \notin Sent("rt")
    /\ sentLog' = Append(sentLog, Rt(p))
    /\ inflight' = inflight \cup {Rt(p)}
    /\ UNCHANGED <<queue, arrived, rows, retracted>>

\* The send task completes: ProcessUpdateService::send inserts the update
\* into central's Queue (process_update_server.rs:48-66).
Deliver(m) ==
    /\ m \in inflight
    /\ inflight' = inflight \ {m}
    /\ queue' = Q!InsertUpdate(queue, m)
    /\ arrived' = arrived \cup {m}
    /\ UNCHANGED <<sentLog, rows, retracted>>

\* The send task fails: owning_send returns the error of client.send
\* (router.rs:279-281), and nothing sends the update again.
Fail(m) ==
    /\ Faulty
    /\ m \in inflight
    /\ inflight' = inflight \ {m}
    /\ UNCHANGED <<sentLog, queue, arrived, rows, retracted>>

\* Mutant of ProcessDeltas: the retracted table is not consulted.
ProcessDeltasUnchecked(u) == rows \cup {u.id}

\* The deltas branch of Central::process_update (central.rs:40-47):
\* is_update_retracted, then insert_deltas.
ProcessDeltas(u) == IF u.id \in retracted THEN rows ELSE rows \cup {u.id}

\* Mutant of RetractDeltas: the id is remembered but its rows are kept.
RetractDeltasKeepRows(u) == [rows |-> rows, retracted |-> retracted \cup {u.id}]

\* Mutant of RetractDeltas: the retraction's own id is taken for the
\* deltas id.
RetractDeltasByRetractionId(u) ==
    [rows |-> rows \ {u.rid}, retracted |-> retracted \cup {u.rid}]

\* Central::retract_deltas (central.rs:129-142): delete the package's rows
\* and insert its id into retracted_updates.
RetractDeltas(u) == [rows |-> rows \ {u.id}, retracted |-> retracted \cup {u.id}]

\* Central::process_update (central.rs:38-54): deltas or retractions.
ProcessUpdate(u) ==
    IF u.k = "dl" THEN [rows |-> ProcessDeltas(u), retracted |-> retracted]
    ELSE RetractDeltas(u)

\* One turn of CentralServer::run (server.rs:26-46) that finds an update.
CentralStep ==
    /\ Q!QueueSize(queue) > 0
    /\ LET r == Q!PopEarliestUpdate(queue) IN
         /\ queue' = r.q
         /\ rows' = ProcessUpdate(r.u).rows
         /\ retracted' = ProcessUpdate(r.u).retracted
    /\ UNCHANGED <<sentLog, inflight, arrived>>

Sender == \E p \in Packages : SendDeltas(p) \/ SendRetraction(p)

Next ==
    \/ Sender
    \/ \E m \in inflight : Deliver(m) \/ Fail(m)
    \/ CentralStep

\* The runtime runs every spawned send to completion, and central's
\* reactor never waits while its queue holds an update.  The component
\* may stop sending at any point.
Spec ==
    /\ Init /\ [][Next]_vars
    /\ \A m \in {Dl(p) : p \in Packages} \cup {Rt(p) : p \in Packages} :
          WF_vars(Deliver(m) \/ Fail(m))
    /\ WF_vars(CentralStep)

------------------------------------------------------------------------------
TypeOK ==
    /\ inflight \subseteq {Dl(p) : p \in Packages} \cup {Rt(p) : p \in Packages}
    /\ rows \subseteq Packages
    /\ retracted \subseteq Packages

(* No row of a retracted package is ever in the deltas table: the sends   *)
(* of a package and of its retraction are separate tasks, so the          *)
(* retraction can reach central first, and retracted_updates must then    *)
(* keep the late package out (central.rs:42).                             *)
RetractedNeverStored == rows \cap retracted = {}

\* The packages that reached central and whose retraction did not.
LiveArrived ==
    {m.id : m \in {m \in arrived : m.k = "dl"}} \ {m.id : m \in {m \in arrived : m.k = "rt"}}

(* Whatever sends fail, central eventually holds exactly the packages     *)
(* that reached it and were not retracted by an update that reached it:  *)
(* a retraction deletes the rows of a package that came first and blocks *)
(* one that comes later, and no update stays in the queue.               *)
CentralConvergesToArrived == <>[](rows = LiveArrived)

=============================================================================
