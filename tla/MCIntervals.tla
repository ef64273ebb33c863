---------------------------- MODULE MCIntervals ----------------------------
(***************************************************************************)
(* Bounded checks of the interval algebra against reference definitions.  *)
(*                                                                         *)
(* SpecReprocess walks the delta history of one edge shape through every   *)
(* addition or retraction of a package of deltas, as the store sees them   *)
(* (component.rs:184-201 and 345-370), and compares the intervals          *)
(* find_intervals_to_reprocess returns with the timestamps at which what   *)
(* an event sees really changed.                                           *)
(*                                                                         *)
(* SpecCanonical enumerates short vectors of reprocess intervals and       *)
(* compares find_non_redundant_intervals with the union it must cover.     *)
(***************************************************************************)
EXTENDS Integers, Sequences, FiniteSets, Intervals

CONSTANTS
    MaxT,        \* the largest timestamp of a delta or interval end
    S            \* the one edge shape (a model value)

ASSUME MaxT \in Nat

VARIABLES
    D,           \* the deltas of shape S held by the store
    raw          \* a vector of reprocess intervals before canonicalisation

vars == <<D, raw>>

Times == 0..MaxT

\* Every delta of shape S within the bound.
Deltas == [s : {S}, t : Times, k : {Add, Rem}]

\* Every reprocess interval within the bound.
Interval == [from : Times, to : Times \cup {None}]
ProperInterval == {I \in Interval : I.to = None \/ I.from <= I.to}

(* ----------------------------- SpecReprocess -------------------------- *)

InitReprocess == D \in SUBSET Deltas /\ raw = <<>>

\* A package of deltas is added (process_new_deltas) or a package is
\* retracted (retract_deltas); either way the store goes from D to D'.
AddPackage ==
    /\ \E P \in SUBSET (Deltas \ D) : P # {} /\ D' = D \cup P
    /\ UNCHANGED raw

RetractPackage ==
    /\ \E P \in SUBSET D : P # {} /\ D' = D \ P
    /\ UNCHANGED raw

NextReprocess == AddPackage \/ RetractPackage

SpecReprocess == InitReprocess /\ [][NextReprocess]_vars

\* The reprocess intervals of the step from D to D'.
StepIntervals ==
    FindIntervalsToReprocess(EdgesOf(S, D'), EdgesOf(S, D))

Covered(t) == \E i \in 1..Len(StepIntervals) : InInterval(t, StepIntervals[i])

\* The from timestamps of the edges live at t: what the matcher binds, as
\* process_event clears only to_timestamp (component.rs:230-232).
LiveFroms(E, t) == {e.from : e \in {x \in E : LiveAt(x, t)}}

\* Timestamps beyond MaxT + 1 behave as MaxT + 1.
Horizon == 0..(MaxT + 1)

(* The intervals to reprocess after a delta package is added or retracted *)
(* contain every timestamp at which what an event sees of the edge        *)
(* changed (find_intervals_to_reprocess, intervals.rs:93-153): the edge    *)
(* became live or stopped being live there, or it stays live with another  *)
(* from_timestamp.  The matcher sees the edge with that from_timestamp     *)
(* (component.rs:230-235), it is part of the match hash, and the crane     *)
(* application picks a barrel by it (scenario-server/src/crane.rs:130-141),*)
(* so an event at such a timestamp must be processed again.                *)
ReprocessCoversViewChange ==
    [][\A t \in Horizon :
          LiveFroms(EdgesOf(S, D'), t) # LiveFroms(EdgesOf(S, D), t) => Covered(t)]_D

(* ----------------------------- SpecCanonical -------------------------- *)

MaxRaw == 3   \* the longest interval vector enumerated

InitCanonical ==
    /\ D = {}
    /\ raw \in UNION {[1..n -> ProperInterval] : n \in 1..MaxRaw}

SpecCanonical == InitCanonical /\ [][UNCHANGED vars]_vars

(* find_non_redundant_intervals returns intervals sorted by from, each    *)
(* ending strictly before the next begins (only the last may be open),    *)
(* and covering exactly the timestamps the input intervals cover: the     *)
(* sweep of reprocess_events_in_intervals_until_internal_update relies on *)
(* both (component.rs:410-454).                                           *)
CanonicalExact ==
    LET c == FindNonRedundantIntervals(raw) IN
    /\ \A t \in Horizon :
          (\E i \in 1..Len(raw) : InInterval(t, raw[i]))
             <=> (\E j \in 1..Len(c) : InInterval(t, c[j]))
    /\ \A j \in 1..(Len(c) - 1) : c[j].to # None /\ c[j].to < c[j + 1].from
=============================================================================
