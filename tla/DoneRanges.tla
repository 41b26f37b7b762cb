----------------------------- MODULE DoneRanges -----------------------------
(***************************************************************************)
(* The arithmetic of byte ranges: the array done_ranges of a download's    *)
(* state (download_state.c) and the choice of the ranges to request next   *)
(* (download_segment.c).  A range is [start, end] with both ends included; *)
(* total = 0 means that the size of the file is not known.                 *)
(*                                                                         *)
(* The loops of the C code are written as what they find: the first index  *)
(* at which their condition fails.                                         *)
(***************************************************************************)
EXTENDS Integers, Sequences, FiniteSets

Bytes(rs) == UNION {rs[i].start .. rs[i].end : i \in DOMAIN rs}

(* Sorted, apart by at least one byte that is not done, none empty. *)
Canonical(rs) ==
    /\ \A i \in DOMAIN rs : rs[i].start <= rs[i].end
    /\ \A i, j \in DOMAIN rs : i < j => rs[i].end + 1 < rs[j].start

Largest(S) == CHOOSE x \in S : \A y \in S : y <= x

Smallest(S) == CHOOSE x \in S : \A y \in S : x <= y

-----------------------------------------------------------------------------
(* download_state.c *)

(* The loop of download_state_is_range_done: a range that ends before start *)
(* is skipped, one that begins after it answers no, one that also covers    *)
(* end answers yes.                                                         *)
IsRangeDone(rs, start, end) ==
    /\ start <= end
    /\ \E i \in DOMAIN rs :
         /\ rs[i].start <= start
         /\ rs[i].end >= end
         /\ \A j \in 1..(i-1) : rs[j].end < start \/ rs[j].start <= start

(* The index a loop over rs stops at: the first of S, or one past the end. *)
StopAt(rs, S) == Smallest(S \cup {Len(rs) + 1})

(* lo: the first range that reaches start or ends just before it. *)
Lo(rs, start) == StopAt(rs, {i \in DOMAIN rs : rs[i].end + 1 >= start})

(* The values merge_end and merge_start are the extremes of when the ranges *)
(* lo .. i-1 have been merged.                                              *)
Ends(rs, lo, i, end) == {end} \cup {rs[k].end : k \in lo..(i-1)}

Starts(rs, lo, i, start) == {start} \cup {rs[k].start : k \in lo..(i-1)}

(* hi: the first range from lo on that begins beyond merge_end + 1. *)
Hi(rs, lo, end) ==
    StopAt(rs, {i \in DOMAIN rs :
                  i >= lo /\ \A x \in Ends(rs, lo, i, end) : rs[i].start > x + 1})

(* What the memmove leaves: r in the place of the ranges lo .. hi-1. *)
ReplaceRun(rs, lo, hi, r) ==
    [i \in 1..(Len(rs) - (hi - lo) + 1) |->
        IF i < lo THEN rs[i] ELSE IF i = lo THEN r ELSE rs[i + hi - lo - 1]]

(* insert_sorted_range, which looks for the place again, by start alone. *)
InsertSorted(rs, r) ==
    LET at == StopAt(rs, {i \in DOMAIN rs : rs[i].start >= r.start})
    IN  ReplaceRun(rs, at, at, r)

(* A mutant: only ranges that overlap are merged, touching ones are not. *)
MergeRangeApart(rs, start, end) ==
    LET lo == StopAt(rs, {i \in DOMAIN rs : rs[i].end >= start})
        hi == Hi(rs, lo, end)
        merged == [start |-> Smallest(Starts(rs, lo, hi, start)),
                   end   |-> Largest(Ends(rs, lo, hi, end))]
    IN  IF hi > lo THEN ReplaceRun(rs, lo, hi, merged)
                   ELSE InsertSorted(rs, merged)

(* A mutant: merge_end forgets the ranges it swallowed. *)
MergeRangeShrinks(rs, start, end) ==
    LET lo == Lo(rs, start)
        hi == Hi(rs, lo, end)
        merged == [start |-> Smallest(Starts(rs, lo, hi, start)), end |-> end]
    IN  IF hi > lo THEN ReplaceRun(rs, lo, hi, merged)
                   ELSE InsertSorted(rs, merged)

(* A mutant: the ranges that overlap the new one stay where they are. *)
MergeRangeInserts(rs, start, end) ==
    InsertSorted(rs, [start |-> start, end |-> end])

(* download_state_mark_range_done after its early returns. *)
MergeRange(rs, start, end) ==
    LET lo == Lo(rs, start)
        hi == Hi(rs, lo, end)
        merged == [start |-> Smallest(Starts(rs, lo, hi, start)),
                   end   |-> Largest(Ends(rs, lo, hi, end))]
    IN  IF hi > lo THEN ReplaceRun(rs, lo, hi, merged)
                   ELSE InsertSorted(rs, merged)

LastByte(total, end) == IF total > 0 /\ end >= total THEN total - 1 ELSE end

(* download_state_mark_range_done: the array after the call. *)
MarkRangeDone(rs, total, start, end) ==
    LET last == LastByte(total, end)
    IN  IF \/ start > end
           \/ total > 0 /\ start >= total
           \/ IsRangeDone(rs, start, last)
        THEN rs
        ELSE MergeRange(rs, start, last)

(* coalesce_done_ranges: the range being built absorbs the next one when   *)
(* that touches it, otherwise the next one becomes the range being built.  *)
Coalesce(rs) ==
    LET absorbed[n \in 0..Len(rs)] ==
          IF n = 0 THEN <<>>
          ELSE LET out  == absorbed[n - 1]
                   last == out[Len(out)]
               IN  IF n > 1 /\ rs[n].start <= last.end + 1
                   THEN [out EXCEPT ![Len(out)].end = Largest({@, rs[n].end})]
                   ELSE Append(out, rs[n])
    IN  absorbed[Len(rs)]

(* The loop of clip_done_ranges: the ranges of rs that begin inside the     *)
(* file and are not empty move up to the front.                            *)
KeepInside(rs, total) ==
    LET kept[n \in 0..Len(rs)] ==
          IF n = 0 THEN <<>>
          ELSE IF /\ total = 0 \/ rs[n].start < total
                  /\ rs[n].start <= rs[n].end
          THEN Append(kept[n - 1], rs[n])
          ELSE kept[n - 1]
    IN  kept[Len(rs)]

(* A mutant: the end of the last range is left beyond the file. *)
ClipRangesLoose(rs, total) == Coalesce(KeepInside(rs, total))

(* The range as far as it lies inside the file. *)
CutRange(r, total) == [start |-> r.start, end |-> LastByte(total, r.end)]

(* clip_done_ranges *)
ClipRanges(rs, total) ==
    LET cut == [i \in 1..Len(rs) |-> CutRange(rs[i], total)]
    IN  Coalesce(KeepInside(cut, total))

(* load_done_ranges and the clip that ends download_state_load: every saved *)
(* range is marked again in a fresh array.                                  *)
LoadDoneRanges(saved, total) ==
    LET loaded[n \in 0..Len(saved)] ==
          IF n = 0 THEN <<>>
          ELSE MarkRangeDone(loaded[n - 1], total, saved[n].start, saved[n].end)
    IN  ClipRanges(loaded[Len(saved)], total)

(* download_state_bytes_done: with no range the counter of the state file. *)
RangeBytes(rs) ==
    LET sum[n \in 0..Len(rs)] ==
          IF n = 0 THEN 0 ELSE sum[n - 1] + rs[n].end - rs[n].start + 1
    IN  sum[Len(rs)]

BytesDone(rs, bytes_downloaded) ==
    IF rs = <<>> THEN bytes_downloaded ELSE RangeBytes(rs)

AllChunksDone(rs, total) == total > 0 /\ IsRangeDone(rs, 0, total - 1)

SegmentCount(total, chunk) == (total + chunk - 1) \div chunk

-----------------------------------------------------------------------------
(* download_segment.c *)

(* A mutant: the last segment is not cut at the end of the file. *)
SegmentRangeLoose(total, chunk, index) ==
    [start |-> index * chunk, end |-> (index + 1) * chunk - 1]

(* segment_index_range *)
SegmentRange(total, chunk, index) ==
    [start |-> index * chunk, end |-> LastByte(total, (index + 1) * chunk - 1)]

IsSegmentDone(rs, total, chunk, index) ==
    LET r == SegmentRange(total, chunk, index) IN IsRangeDone(rs, r.start, r.end)

Overlap(a, b) ==
    /\ a.start <= a.end
    /\ b.start <= b.end
    /\ a.start <= b.end
    /\ b.start <= a.end

(* range_in_flight_predicate *)
Free(r, inFlight) == \A f \in inFlight : ~Overlap(r, f)

(* The segments try_select_segment accepts. *)
Candidates(rs, total, chunk, inFlight) ==
    {i \in 0..(SegmentCount(total, chunk) - 1) :
        /\ ~IsSegmentDone(rs, total, chunk, i)
        /\ Free(SegmentRange(total, chunk, i), inFlight)}

(* The members of a set of indices in ascending order, at most max of them. *)
Ascending(S, max) ==
    LET rank(x) == Cardinality({y \in S : y <= x})
        few == IF Cardinality(S) < max THEN Cardinality(S) ELSE max
    IN  [k \in 1..few |-> CHOOSE x \in S : rank(x) = k]

SelectLeftHeavy(candidates, max) == Ascending(candidates, max)

(* A mutant: the second pass forgets what the first one selected. *)
SelectBalancedTwice(candidates, count, concurrency, max) ==
    LET buckets == IF concurrency < count THEN concurrency ELSE count
        size == (count + buckets - 1) \div buckets
        inBucket(b) == {i \in candidates : b * size <= i /\ i < (b + 1) * size}
        leaders == {Smallest(inBucket(b)) :
                      b \in {c \in 0..(buckets - 1) : inBucket(c) # {}}}
        first == Ascending(leaders, max)
    IN  first \o Ascending(candidates, max - Len(first))

(* segment_select_balanced: the segments are cut into as many buckets as   *)
(* there are connections; each gives its first candidate, and a second     *)
(* pass from the front fills what is left.                                 *)
SelectBalanced(candidates, count, concurrency, max) ==
    LET buckets == IF concurrency < count THEN concurrency ELSE count
        size == (count + buckets - 1) \div buckets
        inBucket(b) == {i \in candidates : b * size <= i /\ i < (b + 1) * size}
        leaders == {Smallest(inBucket(b)) :
                      b \in {c \in 0..(buckets - 1) : inBucket(c) # {}}}
        first == Ascending(leaders, max)
    IN  first \o Ascending(candidates \ {first[k] : k \in DOMAIN first},
                           max - Len(first))

(* segment_select_chunks: the segments chosen, in the order of the slots. *)
SelectChunks(strategy, rs, total, chunk, inFlight, concurrency, max) ==
    LET candidates == Candidates(rs, total, chunk, inFlight)
    IN  IF total = 0 \/ max = 0 THEN <<>>
        ELSE IF strategy = "left-heavy" THEN SelectLeftHeavy(candidates, max)
        ELSE SelectBalanced(candidates, SegmentCount(total, chunk), concurrency, max)

(* A mutant: the bytes other connections have reserved are not looked at. *)
NextReserveEndGreedy(rs, total, chunk, inFlight, end) ==
    IF total = 0 \/ end >= total - 1 THEN end ELSE LastByte(total, end + chunk)

(* segment_next_reserve_end: how far a connection that has reserved up to  *)
(* end may reserve next; end itself when it may not.                       *)
NextReserveEnd(rs, total, chunk, inFlight, end) ==
    LET next == [start |-> end + 1, end |-> LastByte(total, end + chunk)]
    IN  IF \/ total = 0
           \/ end >= total - 1
           \/ IsRangeDone(rs, next.start, next.end)
           \/ ~Free(next, inFlight)
        THEN end
        ELSE next.end

=============================================================================
