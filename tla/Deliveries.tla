----------------------------- MODULE Deliveries -----------------------------
(***************************************************************************)
(* The process around a component (src/component/src/lib.rs:37-111,      *)
(* src/component/src/bin/mbei-component.rs:49-97), composed with the     *)
(* channel to central of module Central.                                  *)
(*                                                                         *)
(* start_component_servers spawns the task await_deliveries               *)
(* (src/grpc/src/process_update_client.rs:37-46) and the component's      *)
(* reactor (server.rs:63-106), handing each a sender of one unbounded     *)
(* channel of JoinHandles.  Each update the reactor processes spawns one  *)
(* send task per routed update, and the reactor then pushes their handles *)
(* into the channel.  await_deliveries awaits the handles in order and    *)
(* panics on the first send that failed, dropping the receiver; a later   *)
(* push then panics the reactor.  When the reactor has left its loop,     *)
(* main drops its own sender and awaits await_deliveries; when main       *)
(* returns or panics, the runtime cancels the send tasks still running.   *)
(* One component per process is modelled: the senders of the other        *)
(* components of one host are clones of the same kind.                   *)
(***************************************************************************)
EXTENDS Central

VARIABLES
    reactor,    \* ComponentServer::run: "running", "stopped" or "panicked"
    batch,      \* handles process_update_until_consistency returned, not pushed
    handles,    \* the channel: handles pushed and not yet awaited
    senders,    \* the live senders of the channel: "main" and "reactor"
    failed,     \* the updates whose send task returned an error
    watcher,    \* await_deliveries: "running", "panicked" or "done"
    main        \* start_component_servers: "servers", "awaiting", "ok", "err"

dvars == <<reactor, batch, handles, senders, failed, watcher, main>>
allVars == <<vars, dvars>>

\* main has returned ("ok") or panicked ("err"): the process is gone.
Exited == main \in {"ok", "err"}

DInit ==
    /\ Init
    /\ reactor = "running" /\ batch = <<>> /\ handles = <<>>
    /\ senders = {"main", "reactor"} /\ failed = {}
    /\ watcher = "running" /\ main = "servers"

\* While the reactor processes an update, route_deltas_update and
\* route_retractions spawn a send task per routed update and return its
\* JoinHandle (router.rs:265-277).
SpawnDeltas(p) ==
    /\ reactor = "running" /\ SendDeltas(p)
    /\ batch' = Append(batch, Dl(p))
    /\ UNCHANGED <<reactor, handles, senders, failed, watcher, main>>

SpawnRetraction(p) ==
    /\ reactor = "running" /\ SendRetraction(p)
    /\ batch' = Append(batch, Rt(p))
    /\ UNCHANGED <<reactor, handles, senders, failed, watcher, main>>

\* The reactor pushes the handles of the update it processed
\* (server.rs:93-95).  Once await_deliveries has dropped the receiver the
\* send fails and its expect panics the reactor task, dropping its sender.
PushHandles ==
    /\ reactor = "running" /\ batch # <<>>
    /\ IF watcher = "running"
       THEN /\ handles' = handles \o batch
            /\ UNCHANGED <<reactor, senders>>
       ELSE /\ reactor' = "panicked"
            /\ senders' = senders \ {"reactor"}
            /\ UNCHANGED handles
    /\ batch' = <<>>
    /\ UNCHANGED <<failed, watcher, main>> /\ UNCHANGED vars

\* The application call of process_event fails: call_function's expect
\* panics the reactor mid-update (caller.rs:77).  The handles it had
\* collected are dropped, but their send tasks run on, detached.
AppFail ==
    /\ Faulty /\ reactor = "running"
    /\ reactor' = "panicked" /\ batch' = <<>>
    /\ senders' = senders \ {"reactor"}
    /\ UNCHANGED <<handles, failed, watcher, main>> /\ UNCHANGED vars

\* The reactor pops Stop between updates and leaves its loop
\* (server.rs:79-86).
StopReactor ==
    /\ reactor = "running" /\ batch = <<>>
    /\ reactor' = "stopped" /\ senders' = senders \ {"reactor"}
    /\ UNCHANGED <<batch, handles, failed, watcher, main>> /\ UNCHANGED vars

\* A send task completes, until the runtime is dropped.
DDeliver(m) == ~Exited /\ Deliver(m) /\ UNCHANGED dvars

DFail(m) ==
    /\ ~Exited /\ Fail(m)
    /\ failed' = failed \cup {m}
    /\ UNCHANGED <<reactor, batch, handles, senders, watcher, main>>

\* Mutant of AwaitHandle: the result of the send is discarded.
AwaitHandleIgnoringError ==
    /\ watcher = "running" /\ handles # <<>> /\ Head(handles) \notin inflight
    /\ handles' = Tail(handles)
    /\ UNCHANGED <<reactor, batch, senders, failed, watcher, main>> /\ UNCHANGED vars

\* await_deliveries awaits the first handle in the channel once its task
\* has completed, and panics on a failed send, dropping the receiver and
\* the handles in it (process_update_client.rs:38-41).
AwaitHandle ==
    /\ watcher = "running" /\ handles # <<>> /\ Head(handles) \notin inflight
    /\ IF Head(handles) \in failed
       THEN watcher' = "panicked" /\ handles' = <<>>
       ELSE handles' = Tail(handles) /\ UNCHANGED watcher
    /\ UNCHANGED <<reactor, batch, senders, failed, main>> /\ UNCHANGED vars

\* recv returns None once the channel is empty and every sender is
\* dropped, and await_deliveries returns (process_update_client.rs:42-44).
ChannelClosed ==
    /\ watcher = "running" /\ handles = <<>> /\ senders = {}
    /\ watcher' = "done"
    /\ UNCHANGED <<reactor, batch, handles, senders, failed, main>> /\ UNCHANGED vars

\* Exiting the process cancels every send task still in flight.
ExitProcess(outcome) ==
    /\ main' = outcome
    /\ inflight' = {}
    /\ UNCHANGED <<sentLog, queue, arrived, rows, retracted>>

\* Mutant of ServersJoined: main awaits the deliveries with its own sender
\* still alive (the block of lib.rs:55-77 left out).
ServersJoinedKeepSender ==
    /\ main = "servers" /\ reactor # "running"
    /\ IF reactor = "panicked" THEN ExitProcess("err")
       ELSE main' = "awaiting" /\ UNCHANGED vars
    /\ UNCHANGED <<reactor, batch, handles, senders, failed, watcher>>

\* start_component_servers joins the server task, whose panic its expect
\* passes on, then drops its sender (lib.rs:74-78).
ServersJoined ==
    /\ main = "servers" /\ reactor # "running"
    /\ IF reactor = "panicked" THEN ExitProcess("err") /\ UNCHANGED senders
       ELSE main' = "awaiting" /\ senders' = senders \ {"main"} /\ UNCHANGED vars
    /\ UNCHANGED <<reactor, batch, handles, failed, watcher>>

\* start_component_servers joins await_deliveries, whose panic its expect
\* passes on (lib.rs:83), and main returns (mbei-component.rs:97).
DeliveriesJoined ==
    /\ main = "awaiting" /\ watcher # "running"
    /\ ExitProcess(IF watcher = "panicked" THEN "err" ELSE "ok")
    /\ UNCHANGED <<reactor, batch, handles, senders, failed, watcher>>

Reactor ==
    \/ \E p \in Packages : SpawnDeltas(p) \/ SpawnRetraction(p)
    \/ PushHandles \/ AppFail \/ StopReactor

DNext ==
    \/ Reactor
    \/ \E m \in inflight : DDeliver(m) \/ DFail(m)
    \/ AwaitHandle \/ ChannelClosed
    \/ ServersJoined \/ DeliveriesJoined
    \/ CentralStep /\ UNCHANGED dvars

\* Every spawned task, await_deliveries and main run to completion while
\* the runtime lives; the reactor pushes its handles as soon as the update
\* is processed.  Updates, Stop and application failures come from the
\* environment and get no fairness.
DSpec ==
    /\ DInit /\ [][DNext]_allVars
    /\ \A m \in {Dl(p) : p \in Packages} \cup {Rt(p) : p \in Packages} :
          WF_allVars(DDeliver(m) \/ DFail(m))
    /\ WF_allVars(PushHandles)
    /\ WF_allVars(AwaitHandle) /\ WF_allVars(ChannelClosed)
    /\ WF_allVars(ServersJoined) /\ WF_allVars(DeliveriesJoined)
    /\ WF_allVars(CentralStep /\ UNCHANGED dvars)

------------------------------------------------------------------------------
(* The process exits successfully only if every update its router sent   *)
(* reached central.  Nothing re-sends a failed send                      *)
(* (process_update_client.rs:41), so the failure must surface: through   *)
(* await_deliveries when its handle was pushed, through the reactor's    *)
(* panic when the handles were dropped (caller.rs:77, server.rs:94), and *)
(* the expects of lib.rs:75 and 83 must pass either on.                  *)
ExitOkOnlyIfDelivered ==
    main = "ok" => \A i \in DOMAIN sentLog : sentLog[i] \in arrived

(* Once the reactor has left its loop, by Stop or by a panic, the process *)
(* eventually exits: main drops its own sender before it awaits           *)
(* await_deliveries, so the channel closes once every handle has been    *)
(* awaited (lib.rs:55-83).                                                *)
ShutdownCompletes == (reactor # "running") ~> Exited

=============================================================================
