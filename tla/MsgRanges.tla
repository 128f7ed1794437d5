----------------------------- MODULE MsgRanges -----------------------------
(***************************************************************************)
(* Ranges of message numbers: types.Range and RangeSorter of               *)
(* store/types/types.go, and what the topic and the database adapter do    *)
(* with lists of them.  A range is [Low, Hi), or the single Low if Hi is 0. *)
(***************************************************************************)
EXTENDS Integers, Sequences, SequencesExt

\* The numbers a range, and a list of ranges, stand for in the database: both
\* forms of RangesToSql, and the rows of the deletion log.
Covers(r) == IF r.Hi = 0 THEN {r.Low} ELSE r.Low..(r.Hi - 1)
Covered(rs) == UNION {Covers(rs[i]) : i \in DOMAIN rs}

\* RangeSorter.Less: by Low ascending, then by Hi descending.
RangeLess(a, b) == a.Low < b.Low \/ (a.Low = b.Low /\ a.Hi >= b.Hi)

\* One turn of the loop of Normalize: range i against the one at prev, which it
\* may extend.  A range that is kept stays where it was.
OverlapsAny(p, r) == p.Hi + 1 >= r.Low
Overlaps(p, r) == p.Hi > 0 /\ p.Hi + 1 >= r.Low
Merge(st, i) ==
    LET p == st.rs[st.prev]
        r == st.rs[i]
    IN  IF p.Low = r.Low THEN st
        ELSE IF ~Overlaps(p, r) THEN [st EXCEPT !.prev = @ + 1]
        ELSE IF p.Hi < r.Hi THEN [st EXCEPT !.rs[st.prev].Hi = r.Hi]
        ELSE st

\* RangeSorter.Normalize of a sorted list.
Normalize(rs) ==
    LET end == FoldLeftDomain(Merge, [prev |-> 1, rs |-> rs], rs)
    IN  IF Len(rs) > 1 THEN SubSeq(end.rs, 1, end.prev) ELSE rs

\* sort.Sort and Normalize, as topic and store always use them together.  Both
\* leave a list of one as it is.
SortNormalize(rs) == IF Len(rs) > 1 THEN Normalize(SortSeq(rs, RangeLess)) ELSE rs

\* SliceToRanges of ascending numbers.
AddId(out, id) ==
    LET prev == out[Len(out)] IN
    IF out = <<>> THEN <<[Low |-> id, Hi |-> 0]>>
    ELSE IF (prev.Hi = 0 /\ id # prev.Low + 1) \/ id > prev.Hi
         THEN Append(out, [Low |-> id, Hi |-> 0])
         ELSE [out EXCEPT ![Len(out)].Hi = id + 1]
SliceToRanges(in) == FoldLeft(AddId, <<>>, in)

\* calculateUnreadInRanges: one range, and the sum over the list.
RangeEnd(r) == IF r.Hi = 0 THEN r.Low + 1 ELSE r.Hi
UnreadInRange(readID, lastID, r) ==
    LET from == Max({readID + 1, r.Low})
        to   == Min({lastID + 1, RangeEnd(r)})
    IN  IF RangeEnd(r) > readID /\ from < to THEN to - from ELSE 0
calculateUnreadInRanges(readID, lastID, rs) ==
    IF readID >= lastID THEN 0
    ELSE FoldLeft(LAMBDA sum, r : sum + UnreadInRange(readID, lastID, r), 0, rs)
=============================================================================
