# TLA+ models of mbei

This directory holds TLA+ models of the mbei component runtime and the TLC
configurations that check them. mbei is a network of query components that
process a bitemporal graph and re-establish consistency after updates arrive
out of order. `PROJECT.json` lists every part of the system, every run, every
mutant, the source lines each definition models, the findings and the hazards.

## The system

- **Producers and peers** send updates to a component over gRPC. An update is
  one of:
  - an `Event`;
  - a `Deltas` package (edge additions and removals);
  - a `Retractions` of package ids;
  - `Stop`.
- **Inbox** (`src/grpc/src/process_update_server.rs`). `ProcessUpdateService::send`
  inserts the update into a `Queue` under a mutex, then signals the reactor.
  `pop_earliest_update` returns:
  1. Stop, if it was ever inserted;
  2. otherwise the earliest retraction;
  3. otherwise the earliest deltas package;
  4. otherwise the earliest event.

  It picks the first minimum and removes it with `swap_remove`.
- **Reactor** (`src/component/src/server.rs`). It pops one update at a time and
  runs `process_update_until_consistency` on it. On Stop it leaves its loop.
- **Consistency loop** (`src/component/src/component.rs`). It works from a stack
  `updates_to_process` and a list of reprocess intervals:
  - An event is stored and matched by `process_event`. New matches call the
    application.
  - A match's output goes through the **router** (`router.rs`). The router sends
    the package verbatim to central and a fresh-id package to every topic that
    subscribes to one of its edge shapes.
  - A package routed to the component itself becomes an internal update.
  - Lost matches are retracted the same way.
  - Deltas and retractions change the **store** (`store.rs`). They re-derive the
    edges of the touched shapes (`graph.rs`) and return the intervals whose
    events must be processed again (`intervals.rs`).
  - Once the stack is empty, the sweep processes events in those intervals. It
    halts at the first event that produces internal updates.
  - After each iteration the stack is re-sorted so that retractions come first.
- **Store index** (`store.rs`). Edges go to one of three indexes:
  - `open_edges`, for open edges with an Object endpoint;
  - `edge_grid`, for closed edges with an Object endpoint. It has four levels
    of bin widths, and an edge is put in the bins of its from and its to at the
    first level `l` with `2*l >= duration`;
  - `edges_by_node`, for edges with no Object endpoint, under their Material
    endpoints.

  `get_edges_at_timestamp` reads open edges, the grid (up to the watermark),
  and then traverses the node index from the Material endpoints it found.
- **Router setup** (`router.rs`, `Router::new`). The forward map is computed
  once from all queries: `find_output_edges`, then a transitive and a triangle
  closure. Deltas are routed by looking up their edge with particulars
  forgotten.
- **Process** (`src/component/src/lib.rs`, `bin/mbei-component.rs`).
  `start_component_servers` spawns `await_deliveries` and the component
  servers, which share one unbounded channel of send handles. Each reactor
  pushes the handles of the sends of each update. `await_deliveries` awaits them
  in order and panics on the first failed one, which drops the receiver; a
  later push then panics the reactor. When the servers end, main drops its
  sender, awaits `await_deliveries`, and returns; the runtime then cancels any
  send still running.
- **Producer** (`src/testdata/src/producer.rs`). `send_messages_in_vec_until_max_queue`
  sends messages with the same handle channel, watched by
  `await_deliveries_max_queue`. That task signals stop on a oneshot, and
  returns, on the first response whose queue size exceeds `max_queue_size`.
- **Central** (`src/central`) runs the same Queue as a component. It keeps every
  deltas package whose id was never retracted, whichever arrives first. Each
  send to it is a spawned task that may complete in any order or fail.

## Modules

| module | models | state and actions |
|---|---|---|
| `EdgeDerivation` | `edges_from_deltas`, `group_distinct_delta_intervals`, `Edge::from_deltas` | operators only: the edges `[s, from, to]` of one shape's delta set |
| `Intervals` | `intervals.rs` | operators `Subtract`, `Overlaps`, `CutBy`, `Uncovered`, `FindIntervalsToReprocess`, `FindNonRedundantIntervals` (RECURSIVE `MergeFrom`) |
| `MCIntervals` | bounded checks of `Intervals` | `SpecReprocess`: the delta set `D` of one shape under `AddPackage` / `RetractPackage`. `SpecCanonical`: every vector `raw` of up to 3 intervals |
| `Inbox` | `Queue`, `ProcessUpdateService::send`, the reactor loop | variables `queue`, `unsent`, `inserted`, `popped`, `stopped`; actions `Send(u)`, `Pop` |
| `MCInbox` | an instance of `Inbox` | 3 events at one timestamp, one deltas package, one retraction, Stop |
| `Component` | one component: inbox, reactor, loop, sweep, store, router, caller | see below |
| `MCComponent` | an instance of `Component` | 2 events, 1 external package and its retraction, 2 edge shapes, a cascading application |
| `StoreIndex` | the edge indexes of `store.rs` | variables `open`, `grid` (a set of `[lvl, bin, e]`), `byNode` (a set of `[key, e]`), `watermark`, and the ghost `held` (the edges `update_edges` was told to hold); actions `AddEdge(e)`, `DeleteEdge(e)`; lookup operators `OpenAt`, `ClosedAt`, RECURSIVE `TraverseFrom`, `EdgesAt` |
| `MCStoreIndex` | an instance of `StoreIndex` | a barrel at a station, a barrel in a barrel, a property; open, one-bin and three-bin edges |
| `Router` | `Router::new` and the lookup of `route_deltas_update` | operators only: `FindOutputEdges`, `ForgetParticulars`, `ComputeEdgeForwardMaps`, RECURSIVE `TransitiveLoop`, `TriangleClosure`, `RouteTargets` |
| `MCRouter` | query universes for `Router`, instantiated by `MCAlgorithms` | three matched queries (symmetric model values); every choice of one output edge and one pattern edge each is an initial state |
| `Central` | `central.rs`, the central server loop, and the channel to central | variables `sentLog`, `inflight`, `queue` (the `Inbox` operators), `arrived`, `rows`, `retracted`; actions `SendDeltas`, `SendRetraction`, `Deliver`, `Fail`, `CentralStep` |
| `Deliveries` | the component process: `start_component_servers`, the reactor's push of handles (`server.rs:93-95`), `await_deliveries`, the application call's panic (`caller.rs:77`) | EXTENDS `Central`; variables `reactor`, `batch` (handles not yet pushed), `handles` (the channel), `senders`, `failed`, `watcher`, `main`; actions `SpawnDeltas`, `SpawnRetraction`, `PushHandles`, `AppFail`, `StopReactor`, `AwaitHandle`, `ChannelClosed`, `ServersJoined`, `DeliveriesJoined`, with `Central`'s actions |
| `MCCentral` | an instance of `Deliveries` | two packages at different timestamps, each possibly retracted |
| `Producer` | the producer's backpressure loop and `await_deliveries_max_queue` | variables `pc`, `seq`, `inflight`, `resp`, `failed`, `handles`, `senderLive`, `stopSig`, `watcher`, `qsize`; actions `Check`, `Send`, `Deliver`, `Fail`, `Pop`, `Await`, `Closed`, `Join` |
| `MCProducer` | an instance of `Producer` | three messages, `max_queue_size` 1, no failing send |
| `Matcher` | `query.rs`: `find_all_matches`, `extend_matches`, `find_all_grouped_matches`, `create_matched_query` | operators only: `EdgeFilter`, `Consistent`, `ExtendMatches`, `Excluded` (the pairwise redundancy pass), `FindAllMatches`, `GroupKey`, `FindAllGroupedMatches`, `CreateMatchedQuery` |
| `Applications` | the scenario server's pickdrop, stamp, conveyor and detector applications | operators only: `ProcessCraneEvent` (`ProcessPickUpEvent`, `ProcessDropEvent`), `ProcessStampEvent`, `ProcessConveyorEvent`, `ProcessDetectorEvent` from a grouped match, the matched query's edges and the event to the deltas; a panic (failed assert or unwrap) is `None` |
| `MCAlgorithms` | bounded checks of the pure algorithms | every initial state is one input: a vector `raw` for `find_non_redundant_intervals`; a query and data graph for the matcher, checked against a reference definition of maximal partial homomorphisms; a factory state and event (from `complex_factory_scenario.rs`) with its matched query and graph, for the applications |

`Component` has these variables:
- `inbox`: the Queue. `Component` instantiates `Inbox` for its operators.
- `phase`: idle, loop, sweep or stopped.
- `pending`: updates_to_process, a sequence whose last element is the top.
- `intervals`: reprocess_intervals.
- `localRet`: retracted_ids.
- `work`: the events the sweep has still to visit.
- The store:
  - `held`: the deltas with their package id;
  - `retracted`;
  - `events`;
  - `edgeIdx`: open_edges and edge_grid, as one set;
  - `watermark`;
  - `evMatches`: event_match_hash_and_output_hash;
  - `bindings`: matches_hashes_deltas_ids.
- `sent`: what reached central and the peer.
- `ver`: the source of fresh uuids.

Each action is one whole branch of the code:
- `PopStop`, `PopRetractedDeltas` and `PopUpdate` are the reactor's turn together
  with the entry check of the loop.
- `LoopEvent`, `LoopDeltas` and `LoopRetraction` are one iteration of the while
  loop. Each includes its store updates, the end-of-iteration sweep decision and
  the sort (`EndIteration`).
- `SweepHalt`, `SweepNext`, `SweepEnd` and `SweepEmpty` are the steps of
  `reprocess_events_in_intervals_until_internal_update`.
- `ProcessEvent` is the whole of `process_event`: match diff, application call,
  routing, binding and retraction.

Several things are abstracted:
- A match is an edge visible at the event's timestamp with its `to_timestamp`
  cleared. The matcher in `query.rs` is modelled on its own, in `Matcher`.
- The application is the constant operator `App(event, match)`.
- Match hashes are not modelled. So the order of an event's internal updates is
  any order (`InternalOrders`).

## Runs

| run | expect | what it shows |
|---|---|---|
| `algorithms` | pass | The pure algorithms against reference definitions. `CanonicalExact`: `find_non_redundant_intervals` output is sorted and disjoint and covers exactly its input. `MatchesExact`, `GroupsExact`: the matcher returns exactly the maximal partial homomorphisms, grouped by the group nodes' images. `ApplicationDeltasAsInferred`: for every event the factory simulator sends from every state, the matched query yields one grouped match, and the application emits exactly the deltas the simulator infers. `OutputsIndexed`: every edge of those deltas has a place in some index of the store (`add_edge`). `RoutesToSubscribers`, `ClosureIdempotent` (on the universes of `MCRouter`): a delta emitted by a query reaches exactly the queries whose pattern admits it, and a second closure changes nothing (spec.md §8) (16794 states) |
| `intervals_reprocess` | violation | deltas `{Add 0}` become `{Add 0, Rem 0, Add 1}`: the edge stays live at 1 with a new from_timestamp, and no reprocess interval contains 1 (intervals.rs:66, 107) |
| `matched_outputs` | violation | `create_matched_query` drops the output edge `barrel At ramp` of the conveyor query once the conveyor-ramp edge is bound (query.rs:150) |
| `inbox` | pass | no update lost or duplicated by concurrent send and pop, and every queued update is popped unless Stop comes |
| `inbox_ties` | violation | `swap_remove` breaks the insertion order of equal timestamps promised by spec.md §4.1 |
| `inbox_stop` | violation | Stop preempts queued work, while spec.md §7 says Stop drains it |
| `component` | pass | `ConsistentAtRest`: between calls, central holds exactly one package per true match with an output. Also `RetractedNotHeld`, `IndexAgreesWithDeltas` and `LoopTerminates` (721 states) |
| `store_index` | pass | `IndexMatchesHeld`: after any sequence of `add_edge` and `delete_edge`, the indexes hold exactly the edges `update_edges` was told to hold. `LookupSound`: a lookup returns only held edges live at t (584 states) |
| `store_grid` | violation | the edge `[5,25]` gets level 10 and is stored in bins 0 and 2; a lookup at 15 reads bin 1 and misses it (store.rs:136) |
| `store_traversal` | violation | the traversal's Material-target branch reads `e.src` (store.rs:193-198), so `m2` is never visited from `m1` and the edge `m2 -> p` is missed |
| `central` | pass | `RetractedNeverStored` and `CentralConvergesToArrived`: with sends that complete in any order or fail, central never holds a retracted package and settles on exactly what arrived unretracted. `ExitOkOnlyIfDelivered`: the component process exits successfully only if every update it sent reached central, whether a send failed with its handle awaited or dropped by a panicking reactor. `ShutdownCompletes`: once the reactor stops or panics, the process exits (68607 states) |
| `producer_backpressure` | violation | with no failing send, `await_deliveries_max_queue` stops and drops its receiver between the producer's `try_recv` and its push of the next handle, and the push panics the producer (producer.rs:62) |

Every property of a passing run has a mutant in `PROJECT.json`: a plausible bug
of the mapped code that TLC catches under that run's configuration.

## Bounds

**MCAlgorithms.**
- **Intervals.** Every vector of up to 3 intervals over 0..3 is an input.
- **Matcher.** Every query of up to 3 edges is an input:
  - over 5 pattern edges, with typed, untyped and instance-named ends;
  - in either visit order;
  - with any optional edges and 3 groupings.

  The data graphs are every graph over 4 edges. That is enough for a node to
  have two images, for an optional edge to be left unbound next to a bound
  one, and for one match to include another.
- **Applications.** The factory has 7 places: crane, pickdrop positions,
  stamp, conveyor and two ramps. Every assignment of 2 barrels to them is a
  state, with `from` in 1..2 and 2 material types. Every event
  `create_one_new_message` can send in that state is an input, at timestamp 3,
  and so is a Detect of a fresh barrel. Two barrels are enough for a pickup or
  drop position to hold one barrel while another is elsewhere. The grouped
  match then holds tuples of both, so the filter on the event's place
  (`crane.rs:119-127`) decides which barrel moves. The simulator keeps one
  barrel per place (`complex_factory_scenario.rs:44`), so the scan never has
  two tuples at the picked place. Its latest-`from` comparison
  (`crane.rs:131-141`) is therefore not exercised.

**MCIntervals.** Timestamps are 0..3 with one edge shape. Every delta set over
them is an initial state. So every group structure of up to four additions and
removals occurs, including point edges and open edges.

**MCInbox.**
- The three events share one timestamp, so ties occur.
- There is one update of each other kind.
- Every send order interleaves with every pop.
- `MaxPops` caps the pop history at the number of updates. The correct code
  never reaches the cap.

**MCComponent.** The application's output on an `a` match closes the `a` edge
at the event's timestamp and opens a `b` edge. So:
- the first event's output changes what the second event sees, and the reverse;
- outputs are routed both internally and to the peer;
- the external package and its retraction arrive in either order;
- the retraction cascades into retractions of outputs.

`MaxVer = 6` bounds how many `process_event` calls create outputs. The correct
cascade needs fewer.

**MCStoreIndex.**
- The levels are those of `Store::new`. The last, `u64::MAX/2`, is replaced by
  10^9, which like it puts every timestamp here in bin 0.
- The spans are chosen to hit each branch of `add_edge`: an open edge; `[5,9]`,
  one bin of level 10; `[5,25]`, duration 20, level 10, three bins.
- The three edge shapes give one grid edge (`m1 -> o`) and two node-indexed
  edges chained through `m2`. So the traversal needs two hops.
- Lookups are made at 2, 5, 9, 15 and 25: before, at and inside each span and
  in each bin.

**MCRouter.** Three queries are the fewest for which the transitive closure
has a middle query and the triangle closure has two peers. The output edges
bind their objects and leave the barrel unbound, as `create_matched_query`
does. The patterns cover a typed object, a bound object, an untyped object
and a property. The query names are symmetric, since no property names one.

**MCCentral.** Two packages suffice for two sends to complete out of order, for
a retraction to overtake its package, and for one package to be retracted
while the other is not. Four sends give room for a send to fail before,
after, or while its handle is pushed or awaited. They also leave room for an
application failure to drop handles of sends that have not completed yet.

**MCProducer.** With `max_queue_size` 1, two messages are enough for the race.
If the second send completes before the first, the first response reports a
queue of 2. The watcher then stops while the producer holds the second
handle, between its check and its push. A third message leaves room for the
stop to come from either response.

## Fairness

In `Inbox` and `Component`, weak fairness is assumed only for the reactor
(`WF_vars(Pop)` and `WF_vars(Reactor)`). The reactor is one task. It never waits while its queue
is non-empty or a call is in progress, and the signal channel is unbounded, so
a wake-up is never lost. Peers and producers get no fairness: they may never
send.

In `Central`, each spawned send is weakly fair: it eventually completes or
fails (`WF_vars(Deliver(m) \/ Fail(m))`), because tokio runs every spawned
task to completion. Central's reactor is weakly fair for the same reason as a
component's. The sender gets no fairness. `MCCentral.cfg` does not check
deadlock: once everything is sent and processed, central waits on its channel
for a Stop, which is not modelled here.

In `Deliveries`, the same fairness holds for the send tasks while the process
lives. It also holds for `await_deliveries` and for main, which are tasks the
runtime polls to completion. The reactor's push of handles is weakly fair:
nothing is awaited between `process_update_until_consistency` returning and the
push. Stop and application failures come from the environment and get no
fairness.

`Producer` is only checked for a safety violation, so it states no fairness.

## Findings

`PROJECT.json` lists them in full. In short:
- `intervals.rs:66`: `subtract` uses `<`, so an edge that shrinks to a point
  edge is not reprocessed at its old end.
- `intervals.rs:107`: a from_timestamp change of a live edge is not reprocessed.
- `query.rs:150`: `create_matched_query` drops an output edge that is not a
  pattern edge once one of its ends is bound.
- `process_update_server.rs:111`: `swap_remove` breaks insertion order among
  ties.
- `process_update_server.rs:107`: Stop preempts queued work.
- `store.rs:136`: an edge of up to `2*l` can span three bins but is stored in
  two.
- `store.rs:193`: the traversal tests `e.src` where `e.trg` is meant.
- `producer.rs:62`: the backpressure stop can race the producer's next push
  of a handle, and the producer panics instead of stopping.

## Not modelled, and the plan for later sittings

- **The matcher inside `Component`.** `Matcher` is checked on its own. Inside
  `Component` a match is still a visible edge, because the matcher's input
  space would make `MCComponent` too large.
- **The applications inside `Component`.** `Component` calls the constant
  operator `App`. Payload encoding is abstracted to a tagged value (`Encode`,
  `Decode`).
- **The stamp query's output edge.** It is `HasProperty`, while the stamp
  application emits `HasStampData`. No run compares a query's output edges
  with what its application emits.
- **An abstract specification of the consistency loop** (the store as a function
  of the set of live packages). `Component` would be shown to implement it by
  `INSTANCE ... WITH`.
- **An end-to-end violation run of the from_timestamp finding in
  `MCComponent`.**
- **Two barrels at one place.** The complex factory simulator never produces
  it, so the crane's latest-`from` choice (`crane.rs:131-141`) is listed as a
  hazard without a property. The three-crane integration scenario would reach
  it. That needs a model of its simulator, which would replace `FactoryEvents`.
- **Edges with neither an Object nor a Material endpoint.** `add_edge` stores
  them nowhere. `OutputsIndexed` shows that no application of the factory
  scenarios emits one. `MCStoreIndex` therefore has none.
- **Retrying lost sends.** Nothing re-sends a failed update, so central can
  only be required to hold what arrived. `ExitOkOnlyIfDelivered` checks that
  the loss is at least reported by the process's exit.
- **Several components in one process.** They share one deliveries channel.
  `Deliveries` models one: the others hold senders of the same kind.
- **The producer's other loops.** The reversed variant only changes the
  message order. `produce_until_interrupted_or_n_reached` uses
  `await_deliveries` as a component does.
- **I/O and data conversion.** The gRPC conversions, the SQLite row mapping,
  client creation with backoff, and the command-line and YAML parsing of the binaries are data transformations or I/O, or outside the
  runtime.
