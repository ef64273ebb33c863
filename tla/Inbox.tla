------------------------------- MODULE Inbox -------------------------------
(***************************************************************************)
(* The priority inbox of a component (src/grpc/src/process_update_server.rs*)
(* Queue) and the reactor that drains it (src/component/src/server.rs).    *)
(*                                                                         *)
(* An update is a record with a kind k \in {"ev", "dl", "rt", "stop"} and  *)
(* the timestamp ts the queue orders it by: Event.timestamp,               *)
(* Deltas.origin_timestamp or Retractions.timestamp.  The three lists are  *)
(* kept as sequences because pop_earliest_update removes with swap_remove, *)
(* which moves the last element into the hole.                            *)
(***************************************************************************)
EXTENDS Integers, Sequences, SequencesExt, FiniteSets

CONSTANT Updates    \* the updates peers and producers send, each once

VARIABLES
    queue,      \* the Queue: [rt, dl, ev : Seq(update), stop : BOOLEAN]
    unsent,     \* updates not yet sent to the component
    inserted,   \* the updates in the order the service inserted them
    popped,     \* the updates in the order the reactor popped them
    stopped     \* the reactor left its loop

vars == <<queue, unsent, inserted, popped, stopped>>

\* Update::Stop; it carries no data.
StopUpdate == [k |-> "stop", ts |-> 0, id |-> "stop"]

EmptyQueue == [rt |-> <<>>, dl |-> <<>>, ev |-> <<>>, stop |-> FALSE]

\* Mutant of InsertUpdate: Stop is queued as an event.
InsertUpdateStopAsEvent(q, u) ==
    IF u.k = "stop" THEN [q EXCEPT !.ev = Append(@, u)]
    ELSE [q EXCEPT ![u.k] = Append(@, u)]

\* Queue::insert_update (process_update_server.rs:87-100).
InsertUpdate(q, u) ==
    IF u.k = "stop" THEN [q EXCEPT !.stop = TRUE]
    ELSE [q EXCEPT ![u.k] = Append(@, u)]

\* Queue::get_queue_size (process_update_server.rs:102-104).
QueueSize(q) == Len(q.rt) + Len(q.dl) + Len(q.ev)

\* Mutant of SwapRemove: the last element is dropped instead.
SwapRemoveTruncate(s, i) == SubSeq(s, 1, Len(s) - 1)

\* Vec::swap_remove: the last element replaces the removed one.
SwapRemove(s, i) ==
    IF i = Len(s) THEN SubSeq(s, 1, Len(s) - 1)
    ELSE [SubSeq(s, 1, Len(s) - 1) EXCEPT ![i] = s[Len(s)]]

\* Iterator::min_by_key returns the first of several minimal elements.
MinIndex(s) ==
    CHOOSE i \in 1..Len(s) :
        /\ \A j \in 1..Len(s) : s[i].ts <= s[j].ts
        /\ \A j \in 1..(i - 1) : s[j].ts > s[i].ts

\* Mutant of PopFrom: the earliest element is returned but not removed.
PopFromKeep(q, l) == [u |-> q[l][MinIndex(q[l])], q |-> q]

\* Removing the earliest element of one list.
PopFrom(q, l) ==
    [u |-> q[l][MinIndex(q[l])],
     q |-> [q EXCEPT ![l] = SwapRemove(@, MinIndex(q[l]))]]

\* Queue::pop_earliest_update (process_update_server.rs:106-126): Stop is
\* sticky and comes first, then the earliest retraction, deltas, event.
\* Defined only when the queue holds something.
PopEarliestUpdate(q) ==
    CASE q.stop         -> [u |-> StopUpdate, q |-> q]
      [] q.rt # <<>>    -> PopFrom(q, "rt")
      [] q.dl # <<>>    -> PopFrom(q, "dl")
      [] OTHER          -> PopFrom(q, "ev")

\* Bound on the pop history: each update is popped at most once.
MaxPops == Cardinality(Updates)

Init ==
    /\ queue = EmptyQueue
    /\ unsent = Updates
    /\ inserted = <<>>
    /\ popped = <<>>
    /\ stopped = FALSE

\* ProcessUpdateService::send (process_update_server.rs:48-66): insert
\* under the queue mutex, then signal the reactor.
Send(u) ==
    /\ unsent' = unsent \ {u}
    /\ queue' = InsertUpdate(queue, u)
    /\ inserted' = Append(inserted, u)
    /\ UNCHANGED <<popped, stopped>>

\* One turn of the reactor loop (server.rs:63-105) that finds an update:
\* pop it, and leave the loop on Stop.  When the queue is empty the reactor
\* awaits the unbounded signal channel, which holds one message per insert,
\* so a wake-up is never lost: this is the action being disabled.
Pop ==
    /\ ~stopped
    /\ Len(popped) < MaxPops
    /\ queue.stop \/ QueueSize(queue) > 0
    /\ LET r == PopEarliestUpdate(queue) IN
         /\ queue' = r.q
         /\ popped' = Append(popped, r.u)
         /\ stopped' = (r.u.k = "stop")
    /\ UNCHANGED <<unsent, inserted>>

Next == (\E u \in unsent : Send(u)) \/ Pop

\* The reactor is the only scheduled process whose progress the code
\* guarantees; peers may never send.
Spec == Init /\ [][Next]_vars /\ WF_vars(Pop)

------------------------------------------------------------------------------
Work == {u \in Updates : u.k # "stop"}

TypeOK ==
    /\ queue.rt \in Seq(Work) /\ queue.dl \in Seq(Work) /\ queue.ev \in Seq(Work)
    /\ queue.stop \in BOOLEAN
    /\ unsent \subseteq Updates
    /\ stopped \in BOOLEAN

Occurrences(s, u) == Cardinality({i \in 1..Len(s) : s[i] = u})

(* Every update that is not Stop is, at any time, in exactly one place:    *)
(* not yet sent, once in the queue, or once popped.  swap_remove moves the *)
(* last element of a list into the slot it empties; a wrong index would   *)
(* lose one update and duplicate another.                                 *)
Conservation ==
    \A u \in Work :
        (IF u \in unsent THEN 1 ELSE 0)
          + Occurrences(queue.rt, u) + Occurrences(queue.dl, u)
          + Occurrences(queue.ev, u) + Occurrences(popped, u) = 1

\* u was inserted into the queue before v.
InsertedBefore(u, v) ==
    \E i, j \in 1..Len(inserted) : i < j /\ inserted[i] = u /\ inserted[j] = v

Queued(u) == \E l \in {"rt", "dl", "ev"} : Occurrences(queue[l], u) > 0

(* An update in the queue is eventually popped, unless the reactor stops:  *)
(* pop_earliest_update always removes what it returns, so no update is    *)
(* returned forever while another starves.                                *)
QueuedEventuallyPopped ==
    \A u \in Work : Queued(u) ~> (Occurrences(popped, u) > 0 \/ stopped)

(* The design document (spec.md section 4.1): among updates of one kind   *)
(* with equal timestamps, the one inserted first is popped first.         *)
TiesInInsertionOrder ==
    [][\A u, v \in Work :
          /\ Len(popped') = Len(popped) + 1
          /\ popped'[Len(popped')] = u
          /\ Queued(v) /\ v # u /\ v.k = u.k /\ v.ts = u.ts
          => InsertedBefore(u, v)]_vars

(* The design document (spec.md section 7, shutdown): a Stop update       *)
(* drains queued work before the reactor exits.                            *)
StopDrainsQueue == stopped => QueueSize(queue) = 0
=============================================================================
