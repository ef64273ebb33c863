------------------------------ MODULE Producer ------------------------------
(***************************************************************************)
(* The test data producer's backpressure loop,                            *)
(* TestdataProducer::send_messages_in_vec_until_max_queue                  *)
(* (src/testdata/src/producer.rs:42-68), with the task                    *)
(* await_deliveries_max_queue (src/grpc/src/process_update_client.rs:     *)
(* 48-63) and the Queue of the component it sends to                      *)
(* (process_update_server.rs:47-65).                                      *)
(*                                                                         *)
(* The producer sends the messages 0..N-1 in order, each by a task of its *)
(* own whose JoinHandle it pushes into an unbounded channel.  The watcher *)
(* awaits the handles in order and reads the queue size each response    *)
(* reports; on the first above MaxQueue it signals stop on a oneshot and  *)
(* returns, dropping the receiver.  The producer tries the oneshot before *)
(* each message.  Both run on the worker threads of the multi-threaded    *)
(* runtime that #[tokio::main] starts, so their steps interleave freely. *)
(* Messages are their indices; what they carry is left out.              *)
(***************************************************************************)
EXTENDS Integers, Sequences

CONSTANTS
    N,          \* the number of messages in the vector
    MaxQueue,   \* max_queue_size
    Faulty      \* whether a send can fail

VARIABLES
    pc,         \* the producer: "check", "send", "join", "done" or "panicked"
    seq,        \* seq: the index of the next message
    inflight,   \* the send tasks not yet completed
    resp,       \* the queue_size of each message's response, 0 before it
    failed,     \* the messages whose send returned an error
    handles,    \* the channel: handles pushed and not yet awaited
    senderLive, \* the producer's sender is not yet dropped
    stopSig,    \* the oneshot holds the stop signal
    watcher,    \* await_deliveries_max_queue: "running", "stopped",
                \* "panicked" or "done"
    qsize       \* the component's Queue::get_queue_size

vars == <<pc, seq, inflight, resp, failed, handles, senderLive, stopSig, watcher, qsize>>

Msgs == 0..(N - 1)

\* The channels are created and the watcher spawned (producer.rs:43-49).
Init ==
    /\ pc = "check" /\ seq = 0
    /\ inflight = {} /\ resp = [m \in Msgs |-> 0] /\ failed = {}
    /\ handles = <<>> /\ senderLive = TRUE /\ stopSig = FALSE
    /\ watcher = "running" /\ qsize = 0

\* One turn of the for loop up to the send (producer.rs:50-61): a stop
\* signal, or the end of the vector, breaks the loop and drops the sender
\* (producer.rs:66); otherwise send_update spawns the message's task.
Check ==
    /\ pc = "check"
    /\ IF stopSig \/ seq = N
       THEN pc' = "join" /\ senderLive' = FALSE /\ UNCHANGED inflight
       ELSE pc' = "send" /\ inflight' = inflight \cup {seq} /\ UNCHANGED senderLive
    /\ UNCHANGED <<seq, resp, failed, handles, stopSig, watcher, qsize>>

\* The handle is pushed and the loop moves on (producer.rs:62-64); the
\* push fails, and its expect panics, once the watcher has returned.
Send ==
    /\ pc = "send"
    /\ IF watcher = "running"
       THEN /\ handles' = Append(handles, seq) /\ seq' = seq + 1
            /\ pc' = "check"
       ELSE pc' = "panicked" /\ UNCHANGED <<handles, seq>>
    /\ UNCHANGED <<inflight, resp, failed, senderLive, stopSig, watcher, qsize>>

\* The send task completes: ProcessUpdateService::send inserts the update
\* and answers with the queue size after the insert (process_update_
\* server.rs:47-65).
Deliver(m) ==
    /\ m \in inflight
    /\ inflight' = inflight \ {m}
    /\ qsize' = qsize + 1
    /\ resp' = [resp EXCEPT ![m] = qsize + 1]
    /\ UNCHANGED <<pc, seq, failed, handles, senderLive, stopSig, watcher>>

\* The send task returns an error (producer.rs:159-161).
Fail(m) ==
    /\ Faulty /\ m \in inflight
    /\ inflight' = inflight \ {m} /\ failed' = failed \cup {m}
    /\ UNCHANGED <<pc, seq, resp, handles, senderLive, stopSig, watcher, qsize>>

\* The component's reactor pops an update (server.rs:63-75).
Pop ==
    /\ qsize > 0 /\ qsize' = qsize - 1
    /\ UNCHANGED <<pc, seq, inflight, resp, failed, handles, senderLive, stopSig, watcher>>

\* await_deliveries_max_queue awaits the first handle once its task has
\* completed: an error panics it, a queue size above max_queue_size sends
\* the stop signal and returns (process_update_client.rs:50-58).  Either
\* way the receiver is dropped.
Await ==
    /\ watcher = "running" /\ handles # <<>> /\ Head(handles) \notin inflight
    /\ IF Head(handles) \in failed
       THEN watcher' = "panicked" /\ UNCHANGED stopSig
       ELSE IF resp[Head(handles)] > MaxQueue
       THEN watcher' = "stopped" /\ stopSig' = TRUE
       ELSE UNCHANGED <<watcher, stopSig>>
    /\ handles' = Tail(handles)
    /\ UNCHANGED <<pc, seq, inflight, resp, failed, senderLive, qsize>>

\* recv returns None once the channel is empty and the sender dropped
\* (process_update_client.rs:59-61).
Closed ==
    /\ watcher = "running" /\ handles = <<>> /\ ~senderLive
    /\ watcher' = "done"
    /\ UNCHANGED <<pc, seq, inflight, resp, failed, handles, senderLive, stopSig, qsize>>

\* The producer joins the watcher, whose panic its expect passes on
\* (producer.rs:67).
Join ==
    /\ pc = "join" /\ watcher # "running"
    /\ pc' = IF watcher = "panicked" THEN "panicked" ELSE "done"
    /\ UNCHANGED <<seq, inflight, resp, failed, handles, senderLive, stopSig, watcher, qsize>>

Next ==
    \/ Check \/ Send \/ Join
    \/ \E m \in inflight : Deliver(m) \/ Fail(m)
    \/ Pop \/ Await \/ Closed

Spec == Init /\ [][Next]_vars

------------------------------------------------------------------------------
TypeOK ==
    /\ pc \in {"check", "send", "join", "done", "panicked"}
    /\ seq \in 0..N /\ inflight \subseteq Msgs /\ failed \subseteq Msgs
    /\ resp \in [Msgs -> 0..N] /\ qsize \in 0..N
    /\ watcher \in {"running", "stopped", "panicked", "done"}

(* The producer panics only when a send failed.  When the queue is full,  *)
(* the loop is to stop, logging "Stopping due to queue size backpressure" *)
(* (producer.rs:51-54), and join the watcher.                             *)
PanicsOnlyOnFailedSend == pc = "panicked" => failed # {}

=============================================================================
