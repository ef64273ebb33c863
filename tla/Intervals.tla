----------------------------- MODULE Intervals -----------------------------
(***************************************************************************)
(* The reprocess-interval algebra of src/component/src/intervals.rs.       *)
(*                                                                         *)
(* A ReprocessInterval is a record [from, to] with to = None when it is    *)
(* open-ended.  Edges are the records of EdgeDerivation; only their from   *)
(* and to fields are read here.  Intervals are kept as sequences where the *)
(* code keeps a Vec, because the order decides which piece a later edge   *)
(* cuts.                                                                   *)
(***************************************************************************)
EXTENDS Integers, Sequences, SequencesExt, TLC, EdgeDerivation

\* ReprocessInterval::subtract (intervals.rs:27-78): the pieces of I that
\* lie outside the edge interval [oF, oT].
Subtract(I, oF, oT) ==
    IF I.from < oF
    THEN <<[from |-> I.from, to |-> oF - 1]>> \o
            (CASE oT = None           -> <<>>
               [] I.to = None         -> <<[from |-> oT + 1, to |-> None]>>
               [] oT < I.to           -> <<[from |-> oT + 1, to |-> I.to]>>
               [] OTHER               -> <<>>)
    ELSE CASE oT = None               -> <<>>
           [] I.to = None             -> <<[from |-> oT + 1, to |-> None]>>
           [] I.to <= oT              -> <<>>
           [] I.from < oT             -> <<[from |-> oT + 1, to |-> I.to]>>
           [] OTHER                   -> <<>>

\* ReprocessInterval::overlaps (intervals.rs:80-88).
Overlaps(I, oF, oT) ==
    \/ I.from <= oF /\ (I.to = None \/ I.to > oF)
    \/ oF <= I.from /\ (oT = None \/ oT > I.from)

\* One pass of the inner loop (intervals.rs:107-120): every piece that
\* overlaps the edge x is replaced by its subtraction, the others are kept.
CutBy(pieces, x) ==
    FoldLeft(LAMBDA acc, p :
                acc \o (IF Overlaps(p, x.from, x.to)
                        THEN Subtract(p, x.from, x.to) ELSE <<p>>),
             <<>>, pieces)

\* The edge vector in the order edges_from_deltas builds it: the closed
\* groups by ascending removal, then the open group, i.e. ascending from.
EdgeSeq(E) == SortSeq(SetToSeq(E), LAMBDA a, b : a.from < b.from)

\* The pieces of every edge of A not covered by an edge of B
\* (intervals.rs:101-124 for "added", 126-148 for "lost").
Uncovered(A, B) ==
    FoldLeft(LAMBDA acc, a :
                acc \o FoldLeft(CutBy, <<[from |-> a.from, to |-> a.to]>>,
                                EdgeSeq(B)),
             <<>>, EdgeSeq(A))

RECURSIVE MergeFrom(_, _)
\* The merge loop of find_non_redundant_intervals (intervals.rs:164-189):
\* cur absorbs every following interval that starts at or before its end,
\* an open cur ends the scan.
MergeFrom(cur, rest) ==
    IF rest = <<>> \/ cur.to = None THEN <<cur>>
    ELSE LET nxt == Head(rest) IN
         IF nxt.from <= cur.to
         THEN MergeFrom([cur EXCEPT !.to =
                            IF nxt.to = None \/ cur.to < nxt.to
                            THEN nxt.to ELSE cur.to], Tail(rest))
         ELSE <<cur>> \o MergeFrom(nxt, Tail(rest))

\* Mutant of FindNonRedundantIntervals: the sort before merging is left out.
FindNonRedundantIntervalsUnsorted(s) ==
    IF s = <<>> THEN <<>> ELSE MergeFrom(Head(s), Tail(s))

\* find_non_redundant_intervals (intervals.rs:155-191): sort by from, merge.
FindNonRedundantIntervals(s) ==
    IF s = <<>> THEN <<>>
    ELSE LET sorted == SortSeq(s, LAMBDA a, b : a.from < b.from)
         IN  MergeFrom(Head(sorted), Tail(sorted))

\* Mutant of FindIntervalsToReprocess: only the added pieces, not the lost.
FindIntervalsToReprocessAddedOnly(updated, existing) ==
    FindNonRedundantIntervals(Uncovered(updated, existing))

\* find_intervals_to_reprocess (intervals.rs:93-153) for the updated and
\* existing edges of one shape.
FindIntervalsToReprocess(updated, existing) ==
    FindNonRedundantIntervals(Uncovered(updated, existing)
                              \o Uncovered(existing, updated))

\* Whether timestamp t lies in interval I (Store::get_event_ids_in_interval
\* ranges over from..=to, or from.. when open).
InInterval(t, I) == I.from <= t /\ (I.to = None \/ t <= I.to)
=============================================================================
