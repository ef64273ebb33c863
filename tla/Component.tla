----------------------------- MODULE Component -----------------------------
(***************************************************************************)
(* One component: its inbox and reactor (src/component/src/server.rs),    *)
(* the consistency loop process_update_until_consistency with event        *)
(* processing, deltas ingestion, retraction and the reprocess sweep        *)
(* (src/component/src/component.rs), the bitemporal store                  *)
(* (src/component/src/store.rs) and the router (src/component/src/router.rs*)
(* route_deltas_update, route_retractions).                                *)
(*                                                                         *)
(* Abstraction.  An edge shape (src, trg, edge type) is a model value of  *)
(* Shapes.  The query matches every edge visible at the event's timestamp; *)
(* a match is the edge with its to_timestamp cleared, [s, from], which is  *)
(* what the match hash covers.  The application is the operator App(e, m) *)
(* giving the deltas it returns (an empty set is Caller's None).  A uuid  *)
(* created for an output package is the record [e, m, q, v]: event, match, *)
(* destination topic and a version drawn from the counter ver, which is   *)
(* unique per call of process_event that creates outputs.  The peer       *)
(* components, the producers and the central store are the environment:   *)
(* what reaches them is recorded in sent.                                 *)
(***************************************************************************)
EXTENDS Integers, Sequences, SequencesExt, FiniteSets, Intervals

CONSTANTS
    Events,       \* event ids
    EvTs,         \* [Events -> Nat]: Event.timestamp
    ExtIds,       \* ids of deltas packages that peers send this component
    ExtDs,        \* [ExtIds -> SUBSET Delta]: their deltas
    ExtTs,        \* [ExtIds -> Nat]: their origin_timestamp
    ExtOrigin,    \* the origin_id of those packages (an event of a peer)
    RetTs,        \* [ExtIds -> Nat]: timestamp of the retraction of each
    WithStop,     \* whether a Stop update is sent
    Shapes,       \* edge shapes
    Self, Peer,   \* this component's topic and one peer topic
    Central,      \* the topic "central"
    Route,        \* [Shapes -> SUBSET {Self, Peer}]: edge_forward_map
    UseCentral,   \* Router.use_central
    MaxVer        \* bound on the number of process_event calls with output

CONSTANT App(_, _)  \* Caller::call_function: (event, match) -> deltas

VARIABLES
    inbox,        \* the Queue of process_update_server.rs
    unsent,       \* updates of the environment not yet sent
    phase,        \* "idle" | "loop" | "sweep" | "stopped"
    pending,      \* updates_to_process (component.rs:79)
    intervals,    \* reprocess_intervals (component.rs:83)
    localRet,     \* retracted_ids, local to one call (component.rs:81)
    work,         \* the sweep's remaining [e, i]: event e in intervals[i],
                  \* intervals being canonical while the sweep runs
    held,         \* deltas_and_deltas_id_by_edge / deltas_by_deltas_id:
                  \* a set of [id, d]
    retracted,    \* retracted_deltas_ids
    events,       \* events_by_event_id / event_ids_by_timestamp
    edgeIdx,      \* open_edges and edge_grid: the indexed edges
    watermark,    \* Store.watermark
    evMatches,    \* event_match_hash_and_output_hash: [Events -> matches]
    bindings,     \* matches_hashes_deltas_ids: a set of [e, m, q, id]
    sent,         \* the updates sent to Central and Peer
    ver           \* source of fresh uuids

loopVars  == <<phase, pending, intervals, localRet, work>>
storeVars == <<held, retracted, events, edgeIdx, watermark, evMatches, bindings>>
vars == <<inbox, unsent, loopVars, storeVars, sent, ver>>

Q == INSTANCE Inbox WITH Updates <- {}, queue <- inbox, unsent <- {},
                         inserted <- <<>>, popped <- <<>>, stopped <- FALSE

(* ------------------------------- updates ------------------------------ *)

\* What the environment sends: events, deltas packages, retractions of
\* those packages (the sender spawns each send, so a retraction may arrive
\* before its deltas), and Stop.
EnvUpdates ==
    {[k |-> "ev", ts |-> EvTs[e], id |-> e] : e \in Events}
    \cup {[k |-> "dl", ts |-> ExtTs[x], id |-> x] : x \in ExtIds}
    \cup {[k |-> "rt", ts |-> RetTs[x], id |-> x] : x \in ExtIds}
    \cup (IF WithStop THEN {Q!StopUpdate} ELSE {})

\* An update of the loop: a kind, an id (event id, deltas id, or the one
\* retracted deltas id), the origin event of a deltas package, its deltas.
LoopUpdate(k, id, origin, ds) == [k |-> k, id |-> id, origin |-> origin, ds |-> ds]

FromInbox(u) ==
    CASE u.k = "ev" -> LoopUpdate("ev", u.id, None, {})
      [] u.k = "dl" -> LoopUpdate("dl", u.id, ExtOrigin, ExtDs[u.id])
      [] OTHER      -> LoopUpdate("rt", u.id, None, {})

IsRetraction(u) == u.k = "rt"

\* updates_to_process.sort_by_key (component.rs:159): a stable sort that
\* moves the Retractions to the front; pop() then takes from the back.
SortRetractionsFirst(s) ==
    SelectSeq(s, IsRetraction) \o SelectSeq(s, LAMBDA u : ~IsRetraction(u))

(* -------------------------------- store ------------------------------- *)

DeltasOf(H) == {h.d : h \in H}

\* edges_from_deltas of every touched shape, before (H) and after (H2).
EdgesFor(T, H) == UNION {EdgesOf(s, DeltasOf(H)) : s \in T}

\* Mutant of UpdateEdges: the edges that disappear are never deleted.
UpdateEdgesAddOnly(idx, T, H, H2) == idx \cup (EdgesFor(T, H2) \ EdgesFor(T, H))

\* Store::update_edges (store.rs:94-110): add the new edges that are not
\* old, delete the old that are not new.
UpdateEdges(idx, T, H, H2) ==
    (idx \ (EdgesFor(T, H) \ EdgesFor(T, H2))) \cup (EdgesFor(T, H2) \ EdgesFor(T, H))

\* Store::add_deltas_and_get_updated_deltas_by_edge (store.rs:321-378):
\* the deltas of package id go into both indexes.
AddDeltas(H, id, ds) == H \cup {[id |-> id, d |-> d] : d \in ds}

\* Store::update_watermark (store.rs:330-339): the largest removal seen.
UpdateWatermark(w, ds) == Max({w} \cup {d.t : d \in {x \in ds : x.k = Rem}})

\* Store::pop_deltas_by_deltas_ids and remove_deltas_by_edges_and_get_updated
\* (store.rs:380-442): every delta of package id leaves both indexes.
RetractDeltas(H, id) == {h \in H : h.id # id}

\* Store::add_retractions (store.rs:296-300).
AddRetractions(R, id) == R \cup {id}

\* update_edges_and_find_intervals_to_reprocess (component.rs:372-403).
IntervalsFor(T, H, H2) ==
    FoldSet(LAMBDA s, acc :
              acc \o FindIntervalsToReprocess(EdgesOf(s, DeltasOf(H2)),
                                              EdgesOf(s, DeltasOf(H))),
            <<>>, T)

\* Store::get_edges_at_timestamp (store.rs:237-264): open edges from t on,
\* closed edges containing t only when t <= watermark.
EdgesAt(t) ==
    {x \in edgeIdx : x.to = None /\ x.from <= t}
    \cup (IF t <= watermark
          THEN {x \in edgeIdx : x.to # None /\ x.from <= t /\ t <= x.to}
          ELSE {})

(* ---------------------------- process_event --------------------------- *)

\* The matches at t: each edge with its to_timestamp cleared (component.rs:
\* 228-235).
MatchesAt(t) == {[s |-> x.s, from |-> x.from] : x \in EdgesAt(t)}

Lost(e)      == evMatches[e] \ MatchesAt(EvTs[e])
\* Mutant of Producing: a match already recorded for e counts as new again.
ProducingAgain(e) == {m \in MatchesAt(EvTs[e]) : App(e, m) # {}}

\* New matches with an output; one without an output is not recorded.
Producing(e) == {m \in MatchesAt(EvTs[e]) \ evMatches[e] : App(e, m) # {}}

PartFor(ds, q) == {d \in ds : q \in Route[d.s]}
Uuid(e, m, q)  == [e |-> e, m |-> m, q |-> q, v |-> ver]

\* create_and_send_deltas_update with route_deltas_update (router.rs:
\* 287-363): the package goes verbatim to central, and one package with a
\* fresh id to every topic that subscribes to one of its edge shapes.
NewBindings(e) ==
    {[e |-> e, m |-> m, q |-> Central, id |-> Uuid(e, m, Central)] :
        m \in (IF UseCentral THEN Producing(e) ELSE {})}
    \cup UNION {{[e |-> e, m |-> m, q |-> q, id |-> Uuid(e, m, q)] :
                   q \in {p \in {Self, Peer} : PartFor(App(e, m), p) # {}}} :
                 m \in Producing(e)}

\* pop_deltas_ids_for_event_id_and_match_hash for every lost match.
LostBindings(e) == {b \in bindings : b.e = e /\ b.m \in Lost(e)}

PackageOf(b) == IF b.q = Central THEN App(b.e, b.m) ELSE PartFor(App(b.e, b.m), b.q)

\* Sends to central and the peer: the new packages, and one Retractions
\* per lost binding with the event's timestamp (route_retractions,
\* router.rs:240-263).
Outgoing(e) ==
    {[to |-> b.q, k |-> "dl", id |-> b.id, origin |-> e, ds |-> PackageOf(b)] :
        b \in {c \in NewBindings(e) : c.q # Self}}
    \cup {[to |-> b.q, k |-> "rt", id |-> b.id, origin |-> e, ds |-> {}] :
            b \in {c \in LostBindings(e) : c.q # Self}}

InternalDeltas(e) ==
    {LoopUpdate("dl", b.id, e, PackageOf(b)) : b \in {c \in NewBindings(e) : c.q = Self}}
InternalRetractions(e) ==
    {LoopUpdate("rt", b.id, None, {}) : b \in {c \in LostBindings(e) : c.q = Self}}

\* The internal updates in the order process_event returns them: deltas
\* in match-hash order, then retractions in binding order; the hashes are
\* not modelled, so every order is possible.
InternalOrders(e) ==
    {a \o r : a \in SetToSeqs(InternalDeltas(e)), r \in SetToSeqs(InternalRetractions(e))}

\* Component::process_event (component.rs:204-341): the store and the
\* outbox after processing event e.  A new binding replaces one stored
\* under the same event and match (add_new_match_updates_binding).
ProcessEvent(e) ==
    /\ ver < MaxVer
    /\ evMatches' = [evMatches EXCEPT ![e] = (@ \ Lost(e)) \cup Producing(e)]
    /\ bindings' = {b \in bindings \ LostBindings(e) : b.e # e \/ b.m \notin Producing(e)}
                   \cup NewBindings(e)
    /\ sent' = sent \cup Outgoing(e)
    /\ ver' = IF Producing(e) = {} THEN ver ELSE ver + 1

(* --------------------------- the consistency loop --------------------- *)

\* The events of the store in each canonical interval, ascending by
\* timestamp (get_event_ids_in_interval), as the sweep visits them.
SweepWork(c, evs) ==
    LET InI(i) == SortSeq(SetToSeq({e \in evs : InInterval(EvTs[e], c[i])}),
                          LAMBDA a, b : EvTs[a] < EvTs[b])
    IN  FoldLeft(LAMBDA acc, i :
                    acc \o [j \in 1..Len(InI(i)) |-> [e |-> InI(i)[j], i |-> i]],
                 <<>>, [j \in 1..Len(c) |-> j])

\* The end of one iteration of the while loop (component.rs:91-160), given
\* the updates still to process and the reprocess intervals: when no update
\* is left the sweep starts on the canonical intervals (it is carried out
\* by the Sweep actions), otherwise the updates are sorted; the loop ends
\* when both are empty.
EndIteration(rest, ints, evs) ==
    IF rest = <<>> /\ ints # <<>>
    THEN /\ pending' = <<>>
         /\ intervals' = FindNonRedundantIntervals(ints)
         /\ work' = SweepWork(intervals', evs)
         /\ phase' = "sweep"
    ELSE /\ pending' = SortRetractionsFirst(rest)
         /\ intervals' = ints
         /\ phase' = IF rest = <<>> THEN "idle" ELSE "loop"
         /\ UNCHANGED work

\* Mutant of IsUpdateRetracted: the entry check is left out.
IsUpdateRetractedNever(u) == FALSE

\* Store::is_update_rectracted at the entry of the loop (component.rs:70-76).
IsUpdateRetracted(u) == u.k = "dl" /\ u.id \in retracted

Popped == Q!PopEarliestUpdate(inbox)

\* ProcessUpdateService::send (process_update_server.rs:48-66).
Send(u) ==
    /\ unsent' = unsent \ {u}
    /\ inbox' = Q!InsertUpdate(inbox, u)
    /\ UNCHANGED <<loopVars, storeVars, sent, ver>>

\* The reactor pops Stop and leaves its loop (server.rs:76-86).
PopStop ==
    /\ phase = "idle" /\ inbox.stop
    /\ inbox' = Popped.q
    /\ phase' = "stopped"
    /\ UNCHANGED <<unsent, pending, intervals, localRet, work, storeVars, sent, ver>>

\* A deltas package whose id the store has retracted: the call returns at
\* once (component.rs:70-76).
PopRetractedDeltas ==
    /\ phase = "idle" /\ Q!QueueSize(inbox) > 0 /\ ~inbox.stop
    /\ IsUpdateRetracted(Popped.u)
    /\ inbox' = Popped.q
    /\ UNCHANGED <<unsent, loopVars, storeVars, sent, ver>>

\* Any other update starts process_update_until_consistency with a fresh
\* updates_to_process = [update] and an empty retracted_ids.
PopUpdate ==
    /\ phase = "idle" /\ Q!QueueSize(inbox) > 0 /\ ~inbox.stop
    /\ ~IsUpdateRetracted(Popped.u)
    /\ inbox' = Popped.q
    /\ phase' = "loop"
    /\ pending' = <<FromInbox(Popped.u)>>
    /\ intervals' = <<>>
    /\ localRet' = {}
    /\ UNCHANGED <<unsent, work, storeVars, sent, ver>>

Current == Last(pending)

\* The Event arm (component.rs:94-111): process_new_event stores the event
\* and processes it, unless its id was retracted in this call.
LoopEvent ==
    /\ phase = "loop" /\ Current.k = "ev"
    /\ IF Current.id \in localRet
       THEN /\ EndIteration(Front(pending), intervals, events)
            /\ UNCHANGED <<events, evMatches, bindings, sent, ver>>
       ELSE /\ events' = events \cup {Current.id}
            /\ ProcessEvent(Current.id)
            /\ \E p \in InternalOrders(Current.id) :
                  EndIteration(Front(pending) \o p, intervals, events')
    /\ UNCHANGED <<inbox, unsent, localRet, held, retracted, edgeIdx, watermark>>

\* The Deltas arm (component.rs:112-128) with process_new_deltas
\* (component.rs:184-201): add the deltas, advance the watermark, update
\* the edges of the touched shapes and collect their reprocess intervals.
LoopDeltas ==
    /\ phase = "loop" /\ Current.k = "dl"
    /\ IF Current.id \in localRet \/ Current.origin \in localRet
       THEN /\ EndIteration(Front(pending), intervals, events)
            /\ UNCHANGED <<held, edgeIdx, watermark>>
       ELSE LET T == {d.s : d \in Current.ds} IN
            /\ held' = AddDeltas(held, Current.id, Current.ds)
            /\ watermark' = UpdateWatermark(watermark, Current.ds)
            /\ edgeIdx' = UpdateEdges(edgeIdx, T, held, held')
            /\ EndIteration(Front(pending),
                            intervals \o IntervalsFor(T, held, held'), events)
    /\ UNCHANGED <<inbox, unsent, localRet, retracted, events, evMatches,
                   bindings, sent, ver>>

\* Mutant of LoopRetraction: the ids go into retracted_ids only, not into
\* the store's retracted set.
LoopRetractionLocalOnly ==
    /\ phase = "loop" /\ Current.k = "rt"
    /\ LET T == {h.d.s : h \in held \ held'} IN
       /\ localRet' = localRet \cup {Current.id}
       /\ held' = RetractDeltas(held, Current.id)
       /\ edgeIdx' = UpdateEdges(edgeIdx, T, held, held')
       /\ EndIteration(Front(pending),
                       intervals \o IntervalsFor(T, held, held'), events)
    /\ UNCHANGED <<inbox, unsent, retracted, events, watermark, evMatches,
                   bindings, sent, ver>>

\* The Retractions arm (component.rs:129-141) with process_retractions and
\* retract_deltas (component.rs:166-182, 345-370).
LoopRetraction ==
    /\ phase = "loop" /\ Current.k = "rt"
    /\ LET T == {h.d.s : h \in held \ held'} IN
       /\ localRet' = localRet \cup {Current.id}
       /\ retracted' = AddRetractions(retracted, Current.id)
       /\ held' = RetractDeltas(held, Current.id)
       /\ edgeIdx' = UpdateEdges(edgeIdx, T, held, held')
       /\ EndIteration(Front(pending),
                       intervals \o IntervalsFor(T, held, held'), events)
    /\ UNCHANGED <<inbox, unsent, events, watermark, evMatches, bindings, sent, ver>>

(* -- reprocess_events_in_intervals_until_internal_update (component.rs:405-461) -- *)

SweepEvent == Head(work).e
HasInternal(e) == InternalDeltas(e) \cup InternalRetractions(e) # {}

\* The interval from the halting event's timestamp to the end of its
\* interval, then the intervals not yet visited.
Remaining(w) ==
    (IF intervals[w.i].to # None /\ intervals[w.i].to < EvTs[w.e] + 1
     THEN <<>> ELSE <<[from |-> EvTs[w.e], to |-> intervals[w.i].to]>>)
    \o SubSeq(intervals, w.i + 1, Len(intervals))

\* The reprocessed event emits internal updates: the sweep halts.
SweepHalt ==
    /\ phase = "sweep" /\ work # <<>> /\ HasInternal(SweepEvent)
    /\ ProcessEvent(SweepEvent)
    /\ \E p \in InternalOrders(SweepEvent) : pending' = SortRetractionsFirst(p)
    /\ intervals' = Remaining(Head(work))
    /\ phase' = "loop" /\ work' = <<>>
    /\ UNCHANGED <<inbox, unsent, localRet, held, retracted, events, edgeIdx, watermark>>

\* The reprocessed event emits nothing internal: on to the next event.
SweepNext ==
    /\ phase = "sweep" /\ Len(work) > 1 /\ ~HasInternal(SweepEvent)
    /\ ProcessEvent(SweepEvent)
    /\ work' = Tail(work)
    /\ UNCHANGED <<inbox, unsent, phase, pending, intervals, localRet,
                   held, retracted, events, edgeIdx, watermark>>

\* The last event of the sweep emits nothing internal: the intervals are
\* consumed and, with no update left, the call returns.
SweepEnd ==
    /\ phase = "sweep" /\ Len(work) = 1 /\ ~HasInternal(SweepEvent)
    /\ ProcessEvent(SweepEvent)
    /\ phase' = "idle" /\ intervals' = <<>> /\ work' = <<>>
    /\ UNCHANGED <<inbox, unsent, pending, localRet, held, retracted, events,
                   edgeIdx, watermark>>

\* No stored event lies in the intervals: the sweep returns no remaining
\* intervals and, with no update left, the call returns.
SweepEmpty ==
    /\ phase = "sweep" /\ work = <<>>
    /\ phase' = "idle" /\ intervals' = <<>>
    /\ UNCHANGED <<inbox, unsent, pending, localRet, work, storeVars, sent, ver>>

Init ==
    /\ inbox = Q!EmptyQueue
    /\ unsent = EnvUpdates
    /\ phase = "idle"
    /\ pending = <<>> /\ intervals = <<>> /\ localRet = {}
    /\ work = <<>>
    /\ held = {} /\ retracted = {} /\ events = {} /\ edgeIdx = {}
    /\ watermark = 0
    /\ evMatches = [e \in Events |-> {}]
    /\ bindings = {} /\ sent = {} /\ ver = 0

Reactor ==
    \/ PopStop \/ PopRetractedDeltas \/ PopUpdate
    \/ LoopEvent \/ LoopDeltas \/ LoopRetraction
    \/ SweepHalt \/ SweepNext \/ SweepEnd \/ SweepEmpty

Next == (\E u \in unsent : Send(u)) \/ Reactor

\* The reactor is one task that never waits while it holds work; peers and
\* producers are not obliged to send.
Spec == Init /\ [][Next]_vars /\ WF_vars(Reactor)

------------------------------------------------------------------------------
Busy == phase \in {"loop", "sweep"}

TypeOK ==
    /\ phase \in {"idle", "loop", "sweep", "stopped"}
    /\ localRet \subseteq retracted
    /\ \A h \in held : h.d.s \in Shapes /\ h.d.k \in {Add, Rem}
    /\ \A x \in edgeIdx : x.s \in Shapes
    /\ events \subseteq Events
    /\ \A e \in Events : \A m \in evMatches[e] : m.s \in Shapes
    /\ \A b \in bindings : b.e \in Events /\ b.q \in {Self, Peer, Central}
    /\ ver \in 0..MaxVer

\* The matches of event e in the graph the held deltas describe.
TrueMatches(e) ==
    {[s |-> x.s, from |-> x.from] :
        x \in {y \in EdgesFor(Shapes, held) : LiveAt(y, EvTs[e])}}

\* The packages central holds: sent to it and not retracted.
LiveAtCentral ==
    {c \in sent : c.to = Central /\ c.k = "dl"
                  /\ ~\E r \in sent : r.to = Central /\ r.k = "rt" /\ r.id = c.id}

(* When the reactor is between calls of process_update_until_consistency, *)
(* central holds, for every stored event and every match of that event in *)
(* the graph of the held deltas that has an output, exactly one package,   *)
(* and no package for any other match: the loop's reprocessing, matching   *)
(* and retraction cascade (component.rs:67-164) has reached the fixed     *)
(* point it promises, whatever order deltas, retractions and events came  *)
(* in.                                                                     *)
ConsistentAtRest ==
    ~Busy =>
      \A e \in events :
        LET atCentral == {c \in LiveAtCentral : c.origin = e}
        IN  \A m \in TrueMatches(e) \cup {c.id.m : c \in atCentral} :
              Cardinality({c \in atCentral : c.id.m = m})
                = IF m \in TrueMatches(e) /\ App(e, m) # {} THEN 1 ELSE 0

(* No deltas of a retracted package are held: a retraction may overtake   *)
(* the deltas it retracts (each send is its own task, router.rs:265-276), *)
(* and the retracted set (store.rs:296-300) must then keep the late       *)
(* package out (component.rs:70-76).                                       *)
RetractedNotHeld == \A h \in held : h.id \notin retracted

(* The edge index always holds exactly the edges the held deltas derive:  *)
(* update_edges applies a diff of the touched shapes only                  *)
(* (component.rs:372-403, store.rs:94-110), so a wrong diff would leave a  *)
(* stale edge that every later lookup returns.                             *)
IndexAgreesWithDeltas == edgeIdx = EdgesFor(Shapes, held)

(* Every call of process_update_until_consistency returns: the cascade of *)
(* internal updates and reprocess sweeps reaches a fixed point (the code  *)
(* only guards it with a panic after 1000 iterations, component.rs:87-90). *)
LoopTerminates == Busy ~> (phase = "idle")
=============================================================================
