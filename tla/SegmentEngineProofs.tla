-------------------------- MODULE SegmentEngineProofs --------------------------
(***************************************************************************)
(* The record of what has been downloaded and the transfer in segments     *)
(* that is built on it.  First the life of a record, DownloadState: its    *)
(* array is exact, it loads back as it was, and what is reserved and       *)
(* selected from it is sound.  Then a download by several connections,     *)
(* SegmentEngine.  What both rest on is the arithmetic of                  *)
(* DoneRangesProofs.                                                       *)
(***************************************************************************)
EXTENDS SegmentEngine, DownloadState, DoneRangesProofs

-----------------------------------------------------------------------------
(* The life of a download. *)

LEMMA TypedState ==
    ASSUME StateTypeOK
    PROVE  /\ total_size \in Nat
           /\ done_ranges \in Seq(Ranges)
           /\ marked \subseteq Nat
           /\ 0..MaxByte \subseteq Nat
<1>1. 0..MaxByte \subseteq Nat /\ 0..(MaxByte + 1) \subseteq Nat
  BY MaxByteAssumption
<1>2. ByteRange \subseteq Ranges
  BY <1>1 DEF ByteRange, Ranges
<1>3. done_ranges \in Seq(ByteRange) => done_ranges \in Seq(Ranges)
  BY <1>2
<1> QED BY <1>1, <1>3 DEF StateTypeOK

(* Whatever order the bytes came in, a range is said to be done exactly when *)
(* every byte of it was marked (download_state_is_range_done).               *)
LEMMA DoneIsExact == StateTypeOK /\ ExactRanges => DoneMeansEveryByte
<1> SUFFICES ASSUME StateTypeOK, ExactRanges, NEW start \in 0..MaxByte, NEW end \in 0..MaxByte
             PROVE  IsRangeDone(done_ranges, start, end)
                      <=> start <= end /\ start..end \subseteq marked
  BY DEF DoneMeansEveryByte
<1>1. done_ranges \in Seq(Ranges) /\ start \in Nat /\ end \in Nat
  BY TypedState
<1> QED BY <1>1, RangeDoneIsExact DEF ExactRanges

(* A mark keeps the array exact (download_state_mark_range_done). *)
LEMMA MarkKeepsExactRanges ==
    ASSUME StateTypeOK, ExactRanges,
           NEW start \in 0..MaxByte, NEW end \in 0..MaxByte, Mark(start, end)
    PROVE  ExactRanges' /\ done_ranges' \in Seq(Ranges)
<1>1. /\ done_ranges \in Seq(Ranges) /\ total_size \in Nat
      /\ start \in Nat /\ end \in Nat /\ start <= end
  BY TypedState DEF Mark
<1>2. Canonical(done_ranges) /\ Bytes(done_ranges) = marked
  BY DEF ExactRanges
<1> DEFINE out == MarkRangeDone(done_ranges, total_size, start, end)
<1>3. /\ out \in Seq(Ranges)
      /\ Canonical(out)
      /\ \A b : b \in Bytes(out) <=>
                 \/ b \in Bytes(done_ranges)
                 \/ b \in start..end /\ (total_size = 0 \/ b < total_size)
  BY <1>1, <1>2, MarkIsExact
<1> HIDE DEF out
<1>4. /\ done_ranges' = out
      /\ marked' = marked \cup {b \in start..end : total_size = 0 \/ b < total_size}
  BY DEF Mark, out
<1> QED BY <1>2, <1>3, <1>4 DEF ExactRanges

(* A connection that reserves on stays inside the file, takes at most a     *)
(* chunk, keeps off the ranges of the others and does not take bytes that   *)
(* are all done (segment_next_reserve_end).                                 *)
LEMMA ReservationIsSound == StateTypeOK /\ ExactRanges => ReservationSound
<1> SUFFICES ASSUME StateTypeOK, ExactRanges, total_size > 0,
                    NEW chunk \in ChunkSizes, NEW inFlight \in InFlightSets,
                    NEW end \in 0..(total_size - 1), NEW next,
                    next = NextReserveEnd(done_ranges, total_size, chunk, inFlight, end)
             PROVE  /\ next \in end..(end + chunk)
                    /\ next < total_size
                    /\ \A r \in inFlight : ((end + 1)..next) \cap (r.start..r.end) = {}
                    /\ next > end => ~(((end + 1)..next) \subseteq marked)
  BY DEF ReservationSound
<1>1. /\ done_ranges \in Seq(Ranges) /\ total_size \in Nat
      /\ chunk \in Nat \ {0} /\ end \in Nat /\ end < total_size
  BY TypedState, ChunkSizesAssumption
<1>2. Canonical(done_ranges) /\ Bytes(done_ranges) = marked
  BY DEF ExactRanges
<1>3. \A r \in inFlight : r.start \in Int /\ r.end \in Int
  BY <1>1 DEF InFlightSets
<1>4. /\ next \in end..(end + chunk)
      /\ next < total_size
      /\ \A r \in inFlight : ((end + 1)..next) \cap (r.start..r.end) = {}
      /\ next > end => ~(((end + 1)..next) \subseteq Bytes(done_ranges))
  BY <1>1, <1>2, <1>3, ReserveEndIsSound, ZenonT(30)
<1> QED BY <1>2, <1>4

(* What a scheduling round promises, for every strategy. *)
LEMMA SelectionIsSound == StateTypeOK /\ ExactRanges => SelectionSound
<1> SUFFICES ASSUME StateTypeOK, ExactRanges, total_size > 0,
                    NEW chunk \in ChunkSizes, NEW inFlight \in InFlightSets,
                    NEW strategy \in {"balanced", "left-heavy"},
                    NEW concurrency \in 1..3, NEW max \in 0..concurrency
             PROVE  LET picked == SelectChunks(strategy, done_ranges, total_size, chunk,
                                               inFlight, concurrency, max)
                        missing(i) == SegmentRange(total_size, chunk, i).start
                                        .. SegmentRange(total_size, chunk, i).end
                        eligible == {i \in 0..((total_size - 1) \div chunk) :
                          /\ ~(missing(i) \subseteq marked)
                          /\ \A r \in inFlight : missing(i) \cap (r.start..r.end) = {}}
                        chosen == {picked[k] : k \in DOMAIN picked}
                    IN  /\ Cardinality(chosen) = Len(picked)
                        /\ chosen \subseteq eligible
                        /\ Len(picked) = Smallest({max, Cardinality(eligible)})
  BY DEF SelectionSound
<1> DEFINE picked == SelectChunks(strategy, done_ranges, total_size, chunk,
                                  inFlight, concurrency, max)
           missing(i) == SegmentRange(total_size, chunk, i).start
                           .. SegmentRange(total_size, chunk, i).end
           eligible == {i \in 0..((total_size - 1) \div chunk) :
                          /\ ~(missing(i) \subseteq marked)
                          /\ \A r \in inFlight : missing(i) \cap (r.start..r.end) = {}}
           chosen == {picked[k] : k \in DOMAIN picked}
           S == Eligible(done_ranges, total_size, chunk, inFlight)
           n == Few(S, max)
<1>1. /\ done_ranges \in Seq(Ranges) /\ total_size \in Nat /\ chunk \in Nat \ {0}
      /\ Canonical(done_ranges) /\ Bytes(done_ranges) = marked /\ max \in Nat
  BY TypedState, ChunkSizesAssumption DEF ExactRanges
<1>2. S = eligible
  BY <1>1 DEF Eligible, Missing
<1>3. S \in SUBSET Nat /\ IsFiniteSet(S) /\ Picks(picked, S, max)
  <2>1. \A r \in inFlight : r.start \in Int /\ r.end \in Int
    BY <1>1 DEF InFlightSets
  <2> HIDE DEF S, picked
  <2> QED BY <1>1, <2>1, SelectionPicks DEF S, picked
<1> HIDE DEF S, picked, eligible
<1>5. /\ n \in Nat /\ picked \in [1..n -> S] /\ DOMAIN picked = 1..n /\ Len(picked) = n
      /\ \A i, j \in 1..n : i # j => picked[i] # picked[j]
  <2>1. /\ n \in Nat /\ picked \in [1..n -> S]
        /\ \A i, j \in 1..n : i # j => picked[i] # picked[j]
    BY <1>3 DEF Picks
  <2> HIDE DEF n
  <2> QED BY <2>1, FunctionIsSequence
<1>6. Cardinality(chosen) = Len(picked)
  <2>1. \A x : x \in chosen <=> \E k \in 1..n : x = picked[k]
    BY <1>5
  <2> HIDE DEF n, chosen
  <2>2. picked \in [1..n -> chosen] /\ \A x \in chosen : \E k \in 1..n : x = picked[k]
    BY <1>5, <2>1
  <2>3. picked \in Surjection(1..n, chosen) /\ picked \in Injection(1..n, chosen)
    BY <1>5, <2>2 DEF Surjection, Injection, IsInjective
  <2>4. Cardinality(chosen) = n
    BY <1>5, <2>3, DistinctCount
  <2> QED BY <1>5, <2>4
<1>7. chosen \subseteq eligible
  BY <1>2, <1>5
<1>8. Len(picked) = Smallest({max, Cardinality(eligible)})
  <2>1. Cardinality(S) \in Nat
    BY <1>3, FS_CardinalityType
  <2>2. /\ {max, Cardinality(S)} \in SUBSET Int
        /\ n \in {max, Cardinality(S)}
        /\ \A y \in {max, Cardinality(S)} : n <= y
    BY <1>1, <2>1 DEF Few
  <2>3. Smallest({max, Cardinality(S)}) = n
    <3> HIDE DEF n
    <3> QED BY <2>2, SmallestIs, Zenon
  <2> QED BY <1>2, <1>5, <2>3
<1> QED BY <1>6, <1>7, <1>8 DEF picked, eligible

-----------------------------------------------------------------------------
(* The invariant.  Nothing is marked outside the file: without that a saved *)
(* array would be cut when it is loaded.                                    *)
InsideFile == total_size > 0 => \A b \in marked : b < total_size

StateIInv == StateTypeOK /\ ExactRanges /\ InsideFile

LEMMA InitIInv == StateInit => StateIInv
<1> SUFFICES ASSUME StateInit PROVE StateIInv
  OBVIOUS
<1>1. Bytes(<<>>) = {} /\ Canonical(<<>>)
  BY DEF Bytes, Canonical
<1> QED BY <1>1, MaxByteAssumption DEF StateInit, StateIInv, StateTypeOK, ExactRanges, InsideFile

LEMMA MarkIInv ==
    ASSUME StateIInv, NEW start \in 0..MaxByte, NEW end \in 0..MaxByte, Mark(start, end)
    PROVE  StateIInv'
<1>1. ExactRanges' /\ done_ranges' \in Seq(Ranges)
  BY MarkKeepsExactRanges DEF StateIInv
<1>2. /\ marked' = marked \cup {b \in start..end : total_size = 0 \/ b < total_size}
      /\ total_size' = total_size
      /\ bytes_downloaded' = BytesDone(done_ranges', bytes_downloaded)
  BY DEF Mark
<1>3. marked' \subseteq 0..MaxByte
  <2>1. start..end \subseteq 0..MaxByte
    BY MaxByteAssumption
  <2> QED BY <1>2, <2>1 DEF StateIInv, StateTypeOK
<1>4. Canonical(done_ranges') /\ Bytes(done_ranges') \subseteq 0..MaxByte
  BY <1>1, <1>3 DEF ExactRanges
<1>5. done_ranges' \in Seq(ByteRange)
  BY <1>1, <1>4, RangesTyped DEF ByteRange
<1>6. bytes_downloaded' \in 0..(MaxByte + 1)
  <2>1. RangeBytes(done_ranges') \in 0..(MaxByte + 1)
    BY <1>1, <1>4, MaxByteAssumption, RangeBytesBounded
  <2> QED BY <1>2, <2>1 DEF BytesDone, StateIInv, StateTypeOK
<1>7. InsideFile'
  BY <1>2 DEF StateIInv, InsideFile
<1> QED BY <1>1, <1>2, <1>3, <1>5, <1>6, <1>7 DEF StateIInv, StateTypeOK

LEMMA InitChunksIInv ==
    ASSUME StateIInv, NEW total \in 1..(MaxByte + 1), InitChunks(total)
    PROVE  StateIInv'
<1>1. /\ total \in Nat /\ total > 0 /\ total_size' = total
      /\ done_ranges' = ClipRanges(done_ranges, total)
      /\ marked' = {b \in marked : b < total}
      /\ bytes_downloaded' = bytes_downloaded
  BY MaxByteAssumption DEF InitChunks
<1>2. done_ranges \in Seq(Ranges) /\ Canonical(done_ranges) /\ Bytes(done_ranges) = marked
  BY TypedState DEF StateIInv, ExactRanges
<1>3. /\ done_ranges' \in Seq(Ranges)
      /\ Canonical(done_ranges')
      /\ Bytes(done_ranges') = marked'
  BY <1>1, <1>2, ClipIsExact
<1>4. marked' \subseteq 0..MaxByte
  BY <1>1 DEF StateIInv, StateTypeOK
<1>5. done_ranges' \in Seq(ByteRange)
  BY <1>3, <1>4, RangesTyped DEF ByteRange
<1> QED BY <1>1, <1>3, <1>4, <1>5, MaxByteAssumption
        DEF StateIInv, StateTypeOK, ExactRanges, InsideFile

(* The array is exact at every moment of a download, whatever is marked and *)
(* however often the size is announced.                                     *)
THEOREM Invariant == StateSpec => []StateIInv
<1>1. ASSUME StateIInv, [StateNext]_stateVars PROVE StateIInv'
  <2>1. ASSUME NEW start \in 0..MaxByte, NEW end \in 0..MaxByte, Mark(start, end)
        PROVE  StateIInv'
    BY <1>1, <2>1, MarkIInv
  <2>2. ASSUME NEW total \in 1..(MaxByte + 1), InitChunks(total) PROVE StateIInv'
    BY <1>1, <2>2, InitChunksIInv
  <2>3. CASE UNCHANGED stateVars
    BY <1>1, <2>3 DEF stateVars, StateIInv, StateTypeOK, ExactRanges, InsideFile
  <2> QED BY <1>1, <2>1, <2>2, <2>3 DEF StateNext
<1> QED BY InitIInv, <1>1, PTL DEF StateSpec

(* The variables keep their types: offsets stay inside the file, and the    *)
(* counter never exceeds its bytes.                                         *)
THEOREM TypeCorrect == StateSpec => []StateTypeOK
<1>1. StateIInv => StateTypeOK
  BY DEF StateIInv
<1> QED BY <1>1, Invariant, PTL

(* The array is sorted, its ranges do not touch, and they are the bytes     *)
(* marked (download_state_mark_range_done, clip_done_ranges).               *)
THEOREM ArrayIsExact == StateSpec => []ExactRanges
<1>1. StateIInv => ExactRanges
  BY DEF StateIInv
<1> QED BY <1>1, Invariant, PTL

(* download_state_is_range_done answers for the bytes marked. *)
THEOREM TestIsExact == StateSpec => []DoneMeansEveryByte
<1>1. StateIInv => DoneMeansEveryByte
  BY DoneIsExact DEF StateIInv
<1> QED BY <1>1, Invariant, PTL

(* A restart finds the array that was saved (load_done_ranges). *)
THEOREM RestartKeepsRanges == StateSpec => []LoadRestores
<1>1. StateIInv => LoadRestores
  <2> SUFFICES ASSUME StateIInv PROVE LoadDoneRanges(done_ranges, total_size) = done_ranges
    BY DEF LoadRestores
  <2>1. /\ done_ranges \in Seq(Ranges) /\ total_size \in Nat
        /\ Canonical(done_ranges)
        /\ total_size > 0 => \A b \in Bytes(done_ranges) : b < total_size
    BY TypedState DEF StateIInv, ExactRanges, InsideFile
  <2> QED BY <2>1, LoadIsExact
<1> QED BY <1>1, Invariant, PTL

(* A connection reserves on inside the file, off the bytes of the others,   *)
(* and only where something is missing (segment_next_reserve_end).          *)
THEOREM ReservationsAreSound == StateSpec => []ReservationSound
<1>1. StateIInv => ReservationSound
  BY ReservationIsSound DEF StateIInv
<1> QED BY <1>1, Invariant, PTL

(* Every scheduling round hands out different segments with a byte missing, *)
(* off the bytes of the other connections, and as many as are wanted and    *)
(* there (segment_select_left_heavy, segment_select_balanced).              *)
THEOREM SchedulingIsSound == StateSpec => []SelectionSound
<1>1. StateIInv => SelectionSound
  BY SelectionIsSound DEF StateIInv
<1> QED BY <1>1, Invariant, PTL

-----------------------------------------------------------------------------
(***************************************************************************)
(* One segmented download, for files and chunks of every size and any      *)
(* number of connections: no byte has two owners, what state.json claims   *)
(* is in the file, what completes is whole, and saved progress stays.      *)
(*                                                                         *)
(* The handlers of the event loop are functions from a job to a job, so    *)
(* the invariant is a predicate of a job, and each function has a lemma    *)
(* that says what it keeps of it.                                          *)
(***************************************************************************)

(* The invariant. *)

File == 0..(Total - 1)
Slot == [phase : {"free", "sent", "streaming", "draining"},
         start : File, end : File, received : 0..Total, persisted : 0..Total,
         remaining : 0..Total, wire : 0..Total, keep : BOOLEAN]
Stream == [phase : {"idle", "sent", "body"}, received : 0..Total, wire : 0..Total]
LooseJob ==
   [run : {"none", "running", "ended", "failed"}, step : {"chunk", "stream"},
    slots : [Slots -> Slot], stream : Stream, deferred : BOOLEAN, errors : Nat,
    done : Seq(Ranges), temp : SUBSET File, os : SUBSET File, synced : SUBSET File,
    broken : BOOLEAN, saved : Seq(Ranges), unsupported : BOOLEAN,
    status : {"queued", "downloading", "stopped", "paused", "completed", "failed"}]

Extent(s) == [start |-> s.start, end |-> s.end]
Received(s) == s.start .. (s.start + s.received - 1)

SlotSound(s) ==
    /\ s.start + s.received <= s.end + 1
    /\ s.phase = "sent" => s.wire = 0
    /\ s.phase \in {"streaming", "draining"} /\ s.keep => s.wire <= s.remaining

Apart(x) ==
    \A i, j \in Slots : i # j /\ InUse(x, i) /\ InUse(x, j) =>
        ~Overlap(Extent(x.slots[i]), Extent(x.slots[j]))

SlotsSound(x) == Apart(x) /\ \A i \in Slots : SlotSound(x.slots[i])

RangesSound(x) ==
    /\ Canonical(x.done) /\ Bytes(x.done) \subseteq File
    /\ Canonical(x.saved) /\ Bytes(x.saved) \subseteq File
    /\ x.os \subseteq x.temp

Written(x) ==
    /\ ~x.broken
    /\ Bytes(x.done) \subseteq x.os
    /\ Bytes(x.saved) \subseteq x.os
    /\ \A i \in Slots : InUse(x, i) => Received(x.slots[i]) \subseteq x.temp

Modes(x) ==
    /\ x.step = "chunk" => x.stream.phase = "idle"
    /\ x.step = "stream" => \A i \in Slots : ~InUse(x, i)
    /\ x.stream.received + x.stream.wire <= Total

Sound(x, bad, fell) ==
    /\ x \in LooseJob
    /\ SlotsSound(x)
    /\ RangesSound(x)
    /\ Modes(x)
    /\ ~bad => Written(x)
    /\ ~fell /\ x.run # "none" =>
          /\ Bytes(x.saved) \subseteq Bytes(x.done)
          /\ x.step = "stream" => Bytes(x.done) = File

Errors(x, n) == x.errors <= MaxRetries + n /\ (x.run = "running" => x.errors < MaxRetries + n)

Settled(x, bad, fell) ==
    /\ x.run = "none" => x.stream.phase = "idle" /\ \A i \in Slots : ~InUse(x, i)
    /\ x.run = "running" =>
          /\ x.status # "completed"
          /\ x.deferred \/ x.stream.phase # "idle" \/ \E i \in Slots : InUse(x, i)
    /\ x.status = "completed" /\ ~fell /\ ~bad => x.os = File /\ x.synced = File


IInv ==
    /\ Sound(d, diskFailed, fellBack)
    /\ Settled(d, diskFailed, fellBack)
    /\ Errors(d, runs)
    /\ faults \in 0..MaxFaults
    /\ runs \in 0..MaxRuns
    /\ {diskFailed, fellBack} \subseteq BOOLEAN

-----------------------------------------------------------------------------
(* Progress and its publication. *)

LEMMA Sizes ==
    /\ Total \in Nat /\ Total > 0 /\ Chunk \in Nat \ {0} /\ Concurrency \in Nat
    /\ DrainMax \in Nat /\ MaxRetries \in Nat /\ MaxRetries > 0
    /\ Slots = 1..Concurrency /\ Slots \subseteq Nat
BY SizesAssumption DEF Slots

(* Bytes that end inside the file are bytes of the file. *)
LEMMA SpanInside ==
    ASSUME NEW a \in Nat, NEW n \in Int, a + n <= Total
    PROVE  a..(a + n - 1) \in SUBSET File
BY Sizes DEF File

LEMMA SlotFields ==
    ASSUME NEW x \in LooseJob, NEW i \in Slots
    PROVE  /\ x.slots[i] \in Slot
           /\ x.slots[i].start \in Nat /\ x.slots[i].start < Total
           /\ x.slots[i].end \in Nat /\ x.slots[i].end < Total
           /\ x.slots[i].received \in Nat /\ x.slots[i].persisted \in Nat
           /\ x.slots[i].remaining \in Nat /\ x.slots[i].wire \in Nat
<1>1. x.slots[i] \in Slot
  BY DEF LooseJob
<1>2. PICK s \in Slot : s = x.slots[i]
  BY <1>1
<1>3. /\ s.start \in File /\ s.end \in File /\ s.received \in Nat /\ s.persisted \in Nat
      /\ s.remaining \in 0..Total /\ s.wire \in Nat
  BY Sizes DEF Slot
<1>4. /\ s.start \in Nat /\ s.start < Total /\ s.end \in Nat /\ s.end < Total
      /\ s.remaining \in Nat
  BY <1>3, Sizes DEF File
<1> QED BY <1>1, <1>2, <1>3, <1>4

(* The range that persist_buffered_progress marks for a slot. *)
LEMMA PendingRange ==
    ASSUME NEW x \in LooseJob, NEW i \in Slots, SlotSound(x.slots[i]), Pending(x.slots[i])
    PROVE  LET s == x.slots[i]
               start == s.start + s.persisted
               end == s.start + s.received - 1
           IN  /\ start \in Nat /\ end \in Nat /\ start <= end
               /\ start..end \subseteq File
               /\ start..end \subseteq Received(s)
               /\ InUse(x, i)
<1> DEFINE s == x.slots[i]
<1>1. /\ s.start \in Nat /\ s.end \in Nat /\ s.received \in Nat /\ s.persisted \in Nat
      /\ s.end < Total /\ Total \in Nat
  BY SlotFields, Sizes
<1>2. s.received > s.persisted /\ s.phase = "streaming" /\ s.start + s.received <= s.end + 1
  BY DEF Pending, SlotSound
<1> HIDE DEF s
<1> QED BY <1>1, <1>2 DEF File, Received, InUse, s

(* The arrays that lie between the bytes done and those received as well. *)
Between(x) ==
    {rs \in Seq(Ranges) :
        /\ Canonical(rs)
        /\ Bytes(rs) \subseteq File
        /\ Bytes(x.done) \subseteq Bytes(rs)
        /\ \A b \in Bytes(rs) :
              b \in Bytes(x.done) \/ \E i \in Slots : InUse(x, i) /\ b \in Received(x.slots[i])}

MarkPending(rs, s) ==
    IF ~Pending(s) THEN rs
    ELSE MarkRangeDone(rs, Total, s.start + s.persisted, s.start + s.received - 1)

LEMMA MarkStaysBetween ==
    ASSUME NEW x \in LooseJob, NEW i \in Slots, SlotSound(x.slots[i]), NEW rs \in Between(x)
    PROVE  MarkPending(rs, x.slots[i]) \in Between(x)
<1>1. CASE ~Pending(x.slots[i])
  BY <1>1 DEF MarkPending
<1>2. CASE Pending(x.slots[i])
  <2> DEFINE s == x.slots[i]
             start == s.start + s.persisted
             end == s.start + s.received - 1
             out == MarkRangeDone(rs, Total, start, end)
  <2>1. /\ start \in Nat /\ end \in Nat /\ start <= end
        /\ start..end \subseteq File
        /\ start..end \subseteq Received(s)
        /\ InUse(x, i)
    BY <1>2, PendingRange
  <2>2. MarkPending(rs, s) = out
    BY <1>2 DEF MarkPending
  <2>3. rs \in Seq(Ranges) /\ Canonical(rs)
    BY DEF Between
  <2> HIDE DEF start, end, s
  <2>4. /\ out \in Seq(Ranges) /\ Canonical(out)
        /\ \A b : b \in Bytes(out) <=>
              b \in Bytes(rs) \/ (b \in start..end /\ (Total = 0 \/ b < Total))
    BY <2>1, <2>3, Sizes, MarkIsExact
  <2> HIDE DEF out
  <2>5. Bytes(out) \subseteq File /\ Bytes(x.done) \subseteq Bytes(out)
    BY <2>1, <2>4 DEF Between
  <2>6. ASSUME NEW b \in Bytes(out)
        PROVE  b \in Bytes(x.done) \/ \E k \in Slots : InUse(x, k) /\ b \in Received(x.slots[k])
    BY <2>1, <2>4 DEF Between, s
  <2>7. out \in Between(x)
    BY <2>4, <2>5, <2>6 DEF Between
  <2> QED BY <2>2, <2>7 DEF s
<1> QED BY <1>1, <1>2

PersistedSlots(x) ==
    [i \in Slots |-> IF ~Pending(x.slots[i]) THEN x.slots[i]
                     ELSE [x.slots[i] EXCEPT !.persisted = x.slots[i].received]]

(* The loop of persist_buffered_progress. *)
LEMMA PersistMarks ==
    ASSUME NEW x \in LooseJob, \A i \in Slots : SlotSound(x.slots[i]),
           Canonical(x.done), Bytes(x.done) \subseteq File
    PROVE  \E rs \in Between(x) :
              Persist(x) = IF \A i \in Slots : ~Pending(x.slots[i]) THEN x
                           ELSE DrainAndSave([x EXCEPT !.done = rs, !.slots = PersistedSlots(x)])
<1> DEFINE Step(f) == [n \in 0..Concurrency |->
                         IF n = 0 THEN x.done
                         ELSE LET s == x.slots[n]
                              IN  IF ~Pending(s) THEN f[n - 1]
                                  ELSE MarkRangeDone(f[n - 1], Total, s.start + s.persisted,
                                                     s.start + s.received - 1)]
           after == CHOOSE f : f = Step(f)
<1>1. Persist(x) = IF \A i \in Slots : ~Pending(x.slots[i]) THEN x
                   ELSE DrainAndSave([x EXCEPT !.done = after[Concurrency],
                                               !.slots = PersistedSlots(x)])
  BY DEF Persist, PersistedSlots
<1>2. \A f : Step(f) = [n \in 0..Concurrency |->
                          IF n = 0 THEN x.done ELSE MarkPending(f[n - 1], x.slots[n])]
  BY DEF MarkPending
<1>3. x.done \in Between(x)
  BY DEF Between, LooseJob
<1>4. Concurrency \in Nat /\ Slots = 1..Concurrency /\ Concurrency \in 0..Concurrency
  BY Sizes
<1>5. \E f : f = Step(f)
  <2> DEFINE F == [n \in 1..Concurrency |->
                     [rs \in Between(x) |-> MarkPending(rs, x.slots[n])]]
  <2>1. F \in [1..Concurrency -> [Between(x) -> Between(x)]]
    BY <1>4, MarkStaysBetween
  <2> HIDE DEF F
  <2>2. PICK g : IsLoop(g, Concurrency, Between(x), x.done, F)
    BY <1>3, <1>4, <2>1, LoopExists
  <2>3. ASSUME NEW n \in 0..Concurrency
        PROVE  g[n] = IF n = 0 THEN x.done ELSE MarkPending(g[n - 1], x.slots[n])
    <3>1. n # 0 => n \in 1..Concurrency /\ n - 1 \in 0..Concurrency
      BY <1>4
    <3> QED BY <2>2, <3>1 DEF F, IsLoop
  <2>4. g = Step(g)
    <3> HIDE DEF Step
    <3> QED BY <1>2, <2>2, <2>3 DEF IsLoop
  <2> QED BY <2>4
<1>6. after = Step(after)
  <2> HIDE DEF Step
  <2> QED BY <1>5, Zenon
<1> HIDE DEF after
<1>7. \A n \in 0..Concurrency :
         after[n] = IF n = 0 THEN x.done ELSE MarkPending(after[n - 1], x.slots[n])
  <2> HIDE DEF Step
  <2> QED BY <1>2, <1>6
<1>8. \A n \in 0..Concurrency : after[n] \in Between(x)
  <2> DEFINE Fails == {n \in 0..Concurrency : after[n] \notin Between(x)}
  <2>1. ASSUME NEW n \in Fails PROVE n # 0 /\ n - 1 \in Fails
    <3>1. n # 0
      BY <1>3, <1>7
    <3>2. n \in Slots /\ n - 1 \in 0..Concurrency
      BY <1>4, <3>1
    <3>3. after[n] = MarkPending(after[n - 1], x.slots[n])
      BY <1>7, <3>1
    <3> QED BY <3>1, <3>2, <3>3, MarkStaysBetween
  <2>2. Fails \in SUBSET (0..Concurrency)
    OBVIOUS
  <2>3. Fails = {}
    <3> HIDE DEF Fails
    <3> QED BY <1>4, <2>1, <2>2, NoFirstFailure
  <2> QED BY <2>3
<1> QED BY <1>1, <1>4, <1>8

(* What the functions that publish progress leave as it is, and what they   *)
(* may only add to.                                                         *)
Keeps(x, y) ==
    /\ y.run = x.run /\ y.step = x.step /\ y.stream = x.stream
    /\ y.deferred = x.deferred /\ y.errors = x.errors /\ y.unsupported = x.unsupported
    /\ y.temp = x.temp /\ y.synced = x.synced /\ y.broken = x.broken
    /\ \A i \in Slots :
          y.slots[i] = [x.slots[i] EXCEPT !.persisted = y.slots[i].persisted]
    /\ Bytes(x.done) \subseteq Bytes(y.done)
    /\ y.saved \in {x.saved, y.done}
    /\ y.os \in {x.os, x.temp}

LEMMA KeepsSlots ==
    ASSUME NEW x \in LooseJob, NEW y \in LooseJob, Keeps(x, y), NEW i \in Slots
    PROVE  /\ y.slots[i].phase = x.slots[i].phase /\ y.slots[i].start = x.slots[i].start
           /\ y.slots[i].end = x.slots[i].end /\ y.slots[i].received = x.slots[i].received
           /\ y.slots[i].remaining = x.slots[i].remaining /\ y.slots[i].wire = x.slots[i].wire
           /\ y.slots[i].keep = x.slots[i].keep
           /\ InUse(y, i) <=> InUse(x, i)
<1>1. x.slots[i] \in Slot /\ y.slots[i] \in Slot
  BY SlotFields
<1>2. y.slots[i] = [x.slots[i] EXCEPT !.persisted = y.slots[i].persisted]
  BY DEF Keeps
<1> QED BY <1>1, <1>2 DEF Slot, InUse

LEMMA KeepsSound ==
    ASSUME NEW x, NEW bad, NEW fell, Sound(x, bad, fell),
           NEW y \in LooseJob, Keeps(x, y),
           Canonical(y.done), Bytes(y.done) \subseteq File,
           ~bad => Bytes(y.done) \subseteq y.os
    PROVE  Sound(y, bad, fell)
<1>1. x \in LooseJob
  BY DEF Sound
<1>2. \A i \in Slots :
         /\ y.slots[i].phase = x.slots[i].phase /\ y.slots[i].start = x.slots[i].start
         /\ y.slots[i].end = x.slots[i].end /\ y.slots[i].received = x.slots[i].received
         /\ y.slots[i].remaining = x.slots[i].remaining /\ y.slots[i].wire = x.slots[i].wire
         /\ y.slots[i].keep = x.slots[i].keep
         /\ InUse(y, i) <=> InUse(x, i)
  BY <1>1, KeepsSlots
<1>3. SlotsSound(y)
  BY <1>2 DEF Sound, SlotsSound, SlotSound, Apart, Extent
<1>4. RangesSound(y)
  BY DEF Keeps, Sound, RangesSound
<1>5. ASSUME ~bad PROVE Written(y)
  <2>1. \A i \in Slots : InUse(y, i) => Received(y.slots[i]) \subseteq y.temp
    BY <1>2, <1>5 DEF Keeps, Sound, Written, Received
  <2>2. Bytes(y.saved) \subseteq y.os
    BY <1>5 DEF Keeps, Sound, Written, RangesSound
  <2> QED BY <1>5, <2>1, <2>2 DEF Keeps, Sound, Written
<1>6. Modes(y)
  BY <1>2 DEF Keeps, Sound, Modes
<1>7. ASSUME ~fell, y.run # "none"
      PROVE  /\ Bytes(y.saved) \subseteq Bytes(y.done)
             /\ y.step = "stream" => Bytes(y.done) = File
  BY <1>7 DEF Keeps, Sound
<1> QED BY <1>3, <1>4, <1>5, <1>6, <1>7 DEF Sound

(* What was saved stays saved, until ranges are given up. *)
Stays(x, y, fell) == ~fell => Bytes(x.saved) \subseteq Bytes(y.saved)

(* A job at work, and a job that its event loop can go on with. *)
Active(x, n, bad, fell) ==
    /\ Sound(x, bad, fell)
    /\ x.run = "running" /\ x.status # "completed"
    /\ x.errors < MaxRetries + n

Good(x, n, bad, fell) ==
    Sound(x, bad, fell) /\ Settled(x, bad, fell) /\ Errors(x, n)

LEMMA ActiveIsGood ==
    ASSUME NEW x, NEW n \in Nat, NEW bad, NEW fell, Active(x, n, bad, fell),
           x.deferred \/ x.stream.phase # "idle" \/ \E i \in Slots : InUse(x, i)
    PROVE  Good(x, n, bad, fell)
<1>1. x \in LooseJob /\ x.errors \in Nat
  BY DEF Active, Sound, LooseJob
<1> QED BY <1>1, Sizes DEF Active, Good, Settled, Errors

LEMMA FailedIsGood ==
    ASSUME NEW x, NEW n \in Nat, NEW bad, NEW fell, Sound(x, bad, fell),
           x.run \in {"failed", "ended"}, x.status # "completed", x.errors <= MaxRetries + n
    PROVE  Good(x, n, bad, fell)
BY DEF Good, Settled, Errors

(* Publishing progress (persist_buffered_progress, dm_item_upsert). *)
LEMMA PersistKeeps ==
    ASSUME NEW x, NEW bad, NEW fell, Sound(x, bad, fell), x.run # "none"
    PROVE  /\ Keeps(x, Persist(x))
           /\ Sound(Persist(x), bad, fell)
           /\ Persist(x).status = x.status
           /\ Stays(x, Persist(x), fell)
<1>1. /\ x \in LooseJob /\ \A i \in Slots : SlotSound(x.slots[i])
      /\ Canonical(x.done) /\ Bytes(x.done) \subseteq File
  BY DEF Sound, SlotsSound, RangesSound
<1>2. PICK rs \in Between(x) :
        Persist(x) = IF \A i \in Slots : ~Pending(x.slots[i]) THEN x
                     ELSE DrainAndSave([x EXCEPT !.done = rs, !.slots = PersistedSlots(x)])
  BY <1>1, PersistMarks
<1>3. CASE \A i \in Slots : ~Pending(x.slots[i])
  <2>1. Persist(x) = x
    BY <1>2, <1>3
  <2>2. \A i \in Slots : x.slots[i] = [x.slots[i] EXCEPT !.persisted = x.slots[i].persisted]
    BY <1>1, SlotFields DEF Slot
  <2>3. Keeps(x, x)
    BY <2>2 DEF Keeps
  <2> QED BY <2>1, <2>3 DEF Stays
<1>4. CASE ~\A i \in Slots : ~Pending(x.slots[i])
  <2> DEFINE m == [x EXCEPT !.done = rs, !.slots = PersistedSlots(x)]
             y == Persist(x)
  <2>1. y = IF m.broken THEN m ELSE [m EXCEPT !.os = m.temp, !.saved = m.done]
    BY <1>2, <1>4 DEF DrainAndSave
  <2>2. PersistedSlots(x) \in [Slots -> Slot]
    BY <1>1, SlotFields DEF PersistedSlots, Slot
  <2>3. \A i \in Slots : PersistedSlots(x)[i]
             = [x.slots[i] EXCEPT !.persisted = PersistedSlots(x)[i].persisted]
    BY <1>1, SlotFields DEF PersistedSlots, Slot
  <2>4. rs \in Seq(Ranges) /\ Canonical(rs) /\ Bytes(rs) \subseteq File
        /\ Bytes(x.done) \subseteq Bytes(rs)
    BY DEF Between
  <2>5. m \in LooseJob
    BY <1>1, <2>2, <2>4 DEF LooseJob
  <2>6. /\ m.done = rs /\ m.slots = PersistedSlots(x) /\ m.broken = x.broken
        /\ m.temp = x.temp /\ m.os = x.os /\ m.saved = x.saved /\ m.status = x.status
        /\ m.run = x.run /\ m.step = x.step /\ m.stream = x.stream
        /\ m.deferred = x.deferred /\ m.errors = x.errors /\ m.unsupported = x.unsupported
        /\ m.synced = x.synced
    BY <1>1 DEF LooseJob
  <2> HIDE DEF m, y
  <2>7. /\ y \in LooseJob
        /\ y.done = rs /\ y.slots = PersistedSlots(x) /\ y.broken = x.broken
        /\ y.temp = x.temp /\ y.status = x.status
        /\ y.run = x.run /\ y.step = x.step /\ y.stream = x.stream
        /\ y.deferred = x.deferred /\ y.errors = x.errors /\ y.unsupported = x.unsupported
        /\ y.synced = x.synced
        /\ y.os = IF x.broken THEN x.os ELSE x.temp
        /\ y.saved = IF x.broken THEN x.saved ELSE rs
    BY <2>1, <2>5, <2>6 DEF LooseJob
  <2>8. Keeps(x, y)
    BY <2>3, <2>4, <2>7 DEF Keeps
  <2>9. ASSUME ~bad PROVE Bytes(y.done) \subseteq y.os
    <3>1. Written(x) /\ x.os \subseteq x.temp
      BY <2>9 DEF Sound, RangesSound
    <3>2. Bytes(rs) \subseteq x.temp
      BY <3>1 DEF Between, Written
    <3> QED BY <2>7, <3>1, <3>2 DEF Written
  <2>10. Sound(y, bad, fell)
    BY <2>4, <2>7, <2>8, <2>9, KeepsSound
  <2>11. Stays(x, y, fell)
    BY <2>4, <2>7 DEF Stays, Sound
  <2> QED BY <2>7, <2>8, <2>10, <2>11 DEF y
<1> QED BY <1>3, <1>4

LEMMA UpsertKeeps ==
    ASSUME NEW x, NEW bad, NEW fell, Sound(x, bad, fell), x.run # "none",
           NEW status \in {"queued", "downloading", "stopped", "paused", "completed", "failed"}
    PROVE  /\ Keeps(x, Upsert(x, status))
           /\ Sound(Upsert(x, status), bad, fell)
           /\ Upsert(x, status).status = status
           /\ Stays(x, Upsert(x, status), fell)
<1> DEFINE p == Persist(x)
           y == Upsert(x, status)
<1>1. Keeps(x, p) /\ Sound(p, bad, fell) /\ Stays(x, p, fell)
  BY PersistKeeps
<1>2. y = [p EXCEPT !.saved = p.done, !.status = status]
  BY DEF Upsert
<1>3. p \in LooseJob
  BY <1>1 DEF Sound
<1> HIDE DEF p, y
<1>4. /\ y \in LooseJob
      /\ y.done = p.done /\ y.slots = p.slots /\ y.broken = p.broken
      /\ y.temp = p.temp /\ y.status = status /\ y.os = p.os /\ y.saved = p.done
      /\ y.run = p.run /\ y.step = p.step /\ y.stream = p.stream
      /\ y.deferred = p.deferred /\ y.errors = p.errors /\ y.unsupported = p.unsupported
      /\ y.synced = p.synced
  BY <1>2, <1>3 DEF LooseJob
<1>5. Keeps(x, y)
  BY <1>1, <1>4 DEF Keeps
<1>6. /\ Canonical(y.done) /\ Bytes(y.done) \subseteq File
      /\ ~bad => Bytes(y.done) \subseteq y.os
  BY <1>1, <1>4 DEF Sound, RangesSound, Written
<1>7. Sound(y, bad, fell)
  BY <1>4, <1>5, <1>6, KeepsSound
<1>8. Stays(x, y, fell)
  BY <1>1, <1>4 DEF Stays, Sound, Keeps
<1> QED BY <1>4, <1>5, <1>7, <1>8 DEF y

LEMMA ThrottledKeeps ==
    ASSUME NEW x, NEW bad, NEW fell, Sound(x, bad, fell), x.run # "none", NEW now
    PROVE  /\ Keeps(x, Throttled(x, now))
           /\ Sound(Throttled(x, now), bad, fell)
           /\ Throttled(x, now).status \in {x.status, "downloading"}
           /\ Stays(x, Throttled(x, now), fell)
<1>1. CASE now
  BY <1>1, UpsertKeeps DEF Throttled
<1>2. CASE ~now
  <2>1. Throttled(x, now) = x
    BY <1>2 DEF Throttled
  <2>2. x \in LooseJob
    BY DEF Sound
  <2>3. \A i \in Slots : x.slots[i] = [x.slots[i] EXCEPT !.persisted = x.slots[i].persisted]
    BY <2>2, SlotFields DEF Slot
  <2>4. Keeps(x, x)
    BY <2>3 DEF Keeps
  <2> QED BY <2>1, <2>4 DEF Stays
<1> QED BY <1>1, <1>2

-----------------------------------------------------------------------------
(* Ends: the file is closed, the download finishes, an attempt fails. *)

(* Two jobs that differ only in what Sound does not look at. *)
LEMMA SetErrorSound ==
    ASSUME NEW x, NEW bad, NEW fell, Sound(x, bad, fell), x.run # "none"
    PROVE  /\ Sound(SetError(x), bad, fell)
           /\ SetError(x).run = "failed" /\ SetError(x).status = x.status
           /\ SetError(x).errors = x.errors
           /\ Stays(x, SetError(x), fell)
<1> DEFINE y == SetError(x)
<1>1. x \in LooseJob
  BY DEF Sound
<1>2. /\ y \in LooseJob
      /\ y.done = x.done /\ y.slots = x.slots /\ y.broken = x.broken
      /\ y.temp = x.temp /\ y.status = x.status /\ y.os = x.os /\ y.saved = x.saved
      /\ y.run = "failed" /\ y.step = x.step /\ y.stream = x.stream
      /\ y.deferred = x.deferred /\ y.errors = x.errors
  BY <1>1 DEF SetError, LooseJob
<1> HIDE DEF y
<1>3. SlotsSound(y) /\ RangesSound(y) /\ Modes(y)
  BY <1>2 DEF Sound, SlotsSound, Apart, InUse, RangesSound, Modes
<1>4. ~bad => Written(y)
  BY <1>2 DEF Sound, Written, InUse
<1>5. Sound(y, bad, fell)
  BY <1>2, <1>3, <1>4 DEF Sound
<1> QED BY <1>2, <1>5 DEF y, Stays

Closed(x, y) ==
    /\ y.run = x.run /\ y.step = x.step /\ y.slots = x.slots /\ y.stream = x.stream
    /\ y.deferred = x.deferred /\ y.errors = x.errors /\ y.done = x.done
    /\ y.saved = x.saved /\ y.status = x.status /\ ~y.broken

(* close_file: as long as the disk works, all that was written is on it. *)
LEMMA CloseFileSound ==
    ASSUME NEW x, NEW bad, NEW fell, Sound(x, bad, fell)
    PROVE  /\ Sound(CloseFile(x), bad, fell)
           /\ Closed(x, CloseFile(x))
           /\ ~bad => /\ CloseFile(x).os = x.temp /\ CloseFile(x).temp = x.temp
                      /\ CloseFile(x).synced = x.temp
<1> DEFINE y == CloseFile(x)
<1>1. x \in LooseJob
  BY DEF Sound
<1>2. y = IF x.broken THEN [x EXCEPT !.temp = x.os, !.broken = FALSE]
          ELSE [x EXCEPT !.os = x.temp, !.synced = x.temp]
  BY DEF CloseFile
<1>3. /\ y \in LooseJob
      /\ y.done = x.done /\ y.slots = x.slots /\ y.broken = FALSE
      /\ y.status = x.status /\ y.saved = x.saved /\ y.unsupported = x.unsupported
      /\ y.run = x.run /\ y.step = x.step /\ y.stream = x.stream
      /\ y.deferred = x.deferred /\ y.errors = x.errors
      /\ y.temp = IF x.broken THEN x.os ELSE x.temp
      /\ y.os = IF x.broken THEN x.os ELSE x.temp
      /\ y.synced = IF x.broken THEN x.synced ELSE x.temp
  <2> HIDE DEF y
  <2> QED BY <1>1, <1>2 DEF LooseJob
<1> HIDE DEF y
<1>4. SlotsSound(y) /\ RangesSound(y) /\ Modes(y)
  BY <1>3 DEF Sound, SlotsSound, Apart, InUse, RangesSound, Modes
<1>5. ASSUME ~bad PROVE ~x.broken /\ Written(y)
  BY <1>3, <1>5 DEF Sound, Written, InUse, RangesSound
<1>6. Sound(y, bad, fell)
  BY <1>3, <1>4, <1>5 DEF Sound
<1>7. Closed(x, y)
  BY <1>3 DEF Closed
<1> QED BY <1>3, <1>5, <1>6, <1>7 DEF y

(* all_chunks_done answers whether every byte of the file is in the array. *)
LEMMA WholeIsExact ==
    ASSUME NEW rs \in Seq(Ranges), Canonical(rs), Bytes(rs) \subseteq File
    PROVE  AllChunksDone(rs, Total) <=> Bytes(rs) = File
<1>1. Total \in Nat /\ Total > 0 /\ Total - 1 \in Nat /\ 0 \in Nat /\ 0 <= Total - 1
  BY Sizes
<1>2. IsRangeDone(rs, 0, Total - 1) <=> File \subseteq Bytes(rs)
  BY <1>1, RangeDoneIsExact DEF File
<1>3. AllChunksDone(rs, Total) <=> IsRangeDone(rs, 0, Total - 1)
  BY <1>1 DEF AllChunksDone
<1>4. Bytes(rs) = File <=> File \subseteq Bytes(rs)
  OBVIOUS
<1> QED BY <1>2, <1>3, <1>4

LEMMA AllDoneIsExact ==
    ASSUME NEW x, NEW bad, NEW fell, Sound(x, bad, fell)
    PROVE  AllChunksDone(x.done, Total) <=> Bytes(x.done) = File
<1>1. x.done \in Seq(Ranges) /\ Canonical(x.done) /\ Bytes(x.done) \subseteq File
  BY DEF Sound, RangesSound, LooseJob
<1> QED BY <1>1, WholeIsExact

(* finalize_download: as long as the disk works and ranges have not been    *)
(* given up, it is called for a whole file only.                            *)
LEMMA FinalizeGood ==
    ASSUME NEW x, NEW n \in Nat, NEW bad, NEW fell, Active(x, n, bad, fell),
           x.step = "chunk" => AllChunksDone(x.done, Total)
    PROVE  Good(Finalize(x), n, bad, fell) /\ Stays(x, Finalize(x), fell)
<1> DEFINE y == Persist(x)
           z == CloseFile(y)
           u == Upsert(z, "completed")
<1>1. Sound(x, bad, fell) /\ x.run = "running" /\ x.status # "completed"
  BY DEF Active
<1>2. /\ Keeps(x, y) /\ Sound(y, bad, fell) /\ y.status = x.status
      /\ Stays(x, y, fell)
  BY <1>1, PersistKeeps
<1>3. y.run = "running" /\ y.errors = x.errors /\ y.step = x.step
  BY <1>1, <1>2 DEF Keeps
<1> HIDE DEF y
<1>4. /\ Sound(z, bad, fell)
      /\ z.saved = y.saved /\ z.status = y.status /\ z.run = y.run
      /\ z.errors = y.errors
      /\ ~bad => z.os = y.temp /\ z.temp = y.temp /\ z.synced = y.temp
  BY <1>2, CloseFileSound DEF Closed
<1> HIDE DEF z
<1>5. \/ Finalize(x) = SetError(z)
      \/ Finalize(x) = [u EXCEPT !.run = "ended"]
  BY DEF Finalize, y, z
<1>6. x.errors \in Nat
  BY <1>1 DEF Sound, LooseJob
<1>7. CASE Finalize(x) = SetError(z)
  <2>1. /\ Sound(SetError(z), bad, fell)
        /\ SetError(z).run = "failed" /\ SetError(z).status = z.status
        /\ SetError(z).errors = z.errors
        /\ Stays(z, SetError(z), fell)
    BY <1>3, <1>4, SetErrorSound
  <2>2. SetError(z).errors <= MaxRetries + n
    BY <1>3, <1>4, <1>6, <2>1, Sizes DEF Active
  <2>3. Good(SetError(z), n, bad, fell)
    BY <1>1, <1>2, <1>4, <2>1, <2>2, FailedIsGood
  <2> QED BY <1>2, <1>4, <1>7, <2>1, <2>3 DEF Stays
<1>8. CASE Finalize(x) = [u EXCEPT !.run = "ended"]
  <2> DEFINE e == [u EXCEPT !.run = "ended"]
  <2>1. Keeps(z, u) /\ Sound(u, bad, fell) /\ u.status = "completed" /\ Stays(z, u, fell)
    BY <1>3, <1>4, UpsertKeeps
  <2>2. u \in LooseJob
    BY <2>1 DEF Sound
  <2> HIDE DEF u
  <2>3. /\ e \in LooseJob
        /\ e.done = u.done /\ e.slots = u.slots /\ e.broken = u.broken
        /\ e.temp = u.temp /\ e.status = u.status /\ e.os = u.os /\ e.saved = u.saved
        /\ e.run = "ended" /\ e.step = u.step /\ e.stream = u.stream
        /\ e.deferred = u.deferred /\ e.errors = u.errors /\ e.synced = u.synced
    BY <2>2 DEF LooseJob
  <2> HIDE DEF e
  <2>4. SlotsSound(e) /\ RangesSound(e) /\ Modes(e) /\ (~bad => Written(e))
    BY <2>1, <2>3 DEF Sound, SlotsSound, Apart, InUse, RangesSound, Modes, Written
  <2>5. u.run # "none"
    BY <1>3, <1>4, <2>1 DEF Keeps
  <2>6. Sound(e, bad, fell)
    BY <2>1, <2>3, <2>4, <2>5 DEF Sound
  <2>7. ASSUME ~fell, ~bad PROVE e.os = File /\ e.synced = File
    <3>1. Bytes(x.done) = File
      <4>1. x.step \in {"chunk", "stream"}
        BY <1>1 DEF Sound, LooseJob
      <4>2. CASE x.step = "chunk"
        BY <1>1, <4>2, AllDoneIsExact
      <4>3. CASE x.step = "stream"
        BY <1>1, <2>7, <4>3 DEF Sound
      <4> QED BY <4>1, <4>2, <4>3
    <3>2. Bytes(x.done) \subseteq y.temp /\ y.temp \subseteq File
      BY <1>1, <1>2, <2>7 DEF Sound, Written, RangesSound, Keeps, LooseJob
    <3>3. y.temp = File
      BY <3>1, <3>2
    <3> QED BY <1>4, <2>1, <2>3, <2>7, <3>3 DEF Keeps
  <2>8. e.errors <= MaxRetries + n
    BY <1>3, <1>4, <1>6, <2>1, <2>3, Sizes DEF Active, Keeps
  <2>9. Good(e, n, bad, fell)
    BY <2>3, <2>6, <2>7, <2>8 DEF Good, Settled, Errors
  <2> QED BY <1>2, <1>4, <1>8, <2>1, <2>3, <2>9 DEF e, Stays
<1> QED BY <1>5, <1>7, <1>8

(* record_recoverable_error: the job is failed, or it schedules again. *)
LEMMA NoteFailureGood ==
    ASSUME NEW x, NEW n \in Nat, NEW bad, NEW fell, Active(x, n, bad, fell)
    PROVE  Good(NoteFailure(x), n, bad, fell) /\ Stays(x, NoteFailure(x), fell)
<1> DEFINE y == [x EXCEPT !.errors = @ + 1]
           u == Upsert(y, "downloading")
<1>1. Sound(x, bad, fell) /\ x.run = "running" /\ x.status # "completed"
      /\ x.errors < MaxRetries + n /\ x \in LooseJob /\ x.errors \in Nat
  BY DEF Active, Sound, LooseJob
<1>2. /\ y \in LooseJob
      /\ y.done = x.done /\ y.slots = x.slots /\ y.broken = x.broken
      /\ y.temp = x.temp /\ y.status = x.status /\ y.os = x.os /\ y.saved = x.saved
      /\ y.run = "running" /\ y.step = x.step /\ y.stream = x.stream
      /\ y.deferred = x.deferred /\ y.errors = x.errors + 1 /\ y.synced = x.synced
  <2>1. PICK e \in Nat : e = x.errors + 1
    BY <1>1
  <2>2. y = [x EXCEPT !.errors = e]
    BY <2>1
  <2> HIDE DEF y
  <2> QED BY <1>1, <2>1, <2>2 DEF LooseJob
<1>3. NoteFailure(x) = IF y.errors >= MaxRetries THEN Upsert(SetError(y), "failed")
                       ELSE [u EXCEPT !.deferred = TRUE]
  BY DEF NoteFailure
<1> HIDE DEF y
<1>4. SlotsSound(y) /\ RangesSound(y) /\ Modes(y) /\ (~bad => Written(y))
  BY <1>1, <1>2 DEF Sound, SlotsSound, Apart, InUse, RangesSound, Modes, Written
<1>5. Sound(y, bad, fell)
  BY <1>1, <1>2, <1>4 DEF Sound
<1>6. CASE y.errors >= MaxRetries
  <2> DEFINE f == SetError(y)
             v == Upsert(f, "failed")
  <2>1. /\ Sound(f, bad, fell) /\ f.run = "failed" /\ f.errors = y.errors
        /\ Stays(y, f, fell)
    BY <1>2, <1>5, SetErrorSound
  <2> HIDE DEF f
  <2>2. Keeps(f, v) /\ Sound(v, bad, fell) /\ v.status = "failed" /\ Stays(f, v, fell)
    BY <2>1, UpsertKeeps
  <2>3. v.run = "failed" /\ v.errors = x.errors + 1
    BY <1>2, <2>1, <2>2 DEF Keeps
  <2>4. v.errors <= MaxRetries + n
    BY <1>1, <2>3, Sizes
  <2>5. Good(v, n, bad, fell)
    BY <2>2, <2>3, <2>4, FailedIsGood
  <2> QED BY <1>2, <1>3, <1>6, <2>1, <2>2, <2>5 DEF Stays, f
<1>7. CASE ~(y.errors >= MaxRetries)
  <2> DEFINE v == [u EXCEPT !.deferred = TRUE]
  <2>1. Keeps(y, u) /\ Sound(u, bad, fell) /\ u.status = "downloading" /\ Stays(y, u, fell)
    BY <1>2, <1>5, UpsertKeeps
  <2>2. u \in LooseJob
    BY <2>1 DEF Sound
  <2> HIDE DEF u
  <2>3. /\ v \in LooseJob
        /\ v.done = u.done /\ v.slots = u.slots /\ v.broken = u.broken
        /\ v.temp = u.temp /\ v.status = u.status /\ v.os = u.os /\ v.saved = u.saved
        /\ v.run = u.run /\ v.step = u.step /\ v.stream = u.stream
        /\ v.deferred = TRUE /\ v.errors = u.errors
    BY <2>2 DEF LooseJob
  <2> HIDE DEF v
  <2>4. SlotsSound(v) /\ RangesSound(v) /\ Modes(v) /\ (~bad => Written(v))
    BY <2>1, <2>3 DEF Sound, SlotsSound, Apart, InUse, RangesSound, Modes, Written
  <2>5. Sound(v, bad, fell)
    BY <2>1, <2>3, <2>4 DEF Sound
  <2>6. v.errors = x.errors + 1 /\ v.run = "running" /\ v.status = "downloading"
    BY <1>2, <2>1, <2>3 DEF Keeps
  <2>7. v.errors < MaxRetries + n
    BY <1>1, <1>2, <1>7, <2>6, Sizes
  <2>8. Active(v, n, bad, fell)
    BY <2>5, <2>6, <2>7 DEF Active
  <2>9. Good(v, n, bad, fell)
    BY <2>3, <2>8, ActiveIsGood
  <2> QED BY <1>2, <1>3, <1>7, <2>1, <2>3, <2>9 DEF Stays, v
<1> QED BY <1>6, <1>7

-----------------------------------------------------------------------------
(* One slot changes. *)

(* What a handler of one connection leaves as it is. *)
SameButSlots(x, y) ==
    /\ y.run = x.run /\ y.step = x.step /\ y.stream = x.stream
    /\ y.deferred = x.deferred /\ y.errors = x.errors /\ y.status = x.status
    /\ y.done = x.done /\ y.saved = x.saved /\ y.broken = x.broken
    /\ y.os = x.os /\ y.synced = x.synced

WithSlot(x, i, s, bytes) == [x EXCEPT !.slots[i] = s, !.temp = bytes]

LEMMA WithSlotFields ==
    ASSUME NEW x \in LooseJob, NEW i \in Slots, NEW s \in Slot, NEW bytes \in SUBSET File
    PROVE  /\ WithSlot(x, i, s, bytes) \in LooseJob
           /\ SameButSlots(x, WithSlot(x, i, s, bytes))
           /\ WithSlot(x, i, s, bytes).slots[i] = s
           /\ \A j \in Slots \ {i} : WithSlot(x, i, s, bytes).slots[j] = x.slots[j]
           /\ WithSlot(x, i, s, bytes).temp = bytes
           /\ bytes = x.temp => WithSlot(x, i, s, bytes) = [x EXCEPT !.slots[i] = s]
<1> DEFINE slots == [x.slots EXCEPT ![i] = s]
           y == WithSlot(x, i, s, bytes)
<1>1. y = [x EXCEPT !.slots = slots, !.temp = bytes]
  BY DEF WithSlot
<1>2. x.slots \in [Slots -> Slot]
  BY DEF LooseJob
<1>3. slots \in [Slots -> Slot] /\ slots[i] = s /\ \A j \in Slots \ {i} : slots[j] = x.slots[j]
  BY <1>2
<1>4. [x EXCEPT !.slots[i] = s] = [x EXCEPT !.slots = slots]
  OBVIOUS
<1> HIDE DEF slots, y
<1>5. y \in LooseJob /\ y.slots = slots /\ y.temp = bytes /\ SameButSlots(x, y)
  BY <1>1, <1>3 DEF LooseJob, SameButSlots
<1>6. bytes = x.temp => y = [x EXCEPT !.slots = slots]
  BY <1>1 DEF LooseJob
<1> QED BY <1>3, <1>4, <1>5, <1>6 DEF y

(* A connection may hold what no other one holds. *)
LEMMA WithSlotSound ==
    ASSUME NEW x, NEW bad, NEW fell, Sound(x, bad, fell), NEW i \in Slots,
           NEW s \in Slot, SlotSound(s), NEW bytes \in SUBSET File, x.temp \subseteq bytes,
           s.phase # "free" =>
              /\ x.step = "chunk"
              /\ ~bad => Received(s) \subseteq bytes
              /\ \A j \in Slots \ {i} : InUse(x, j) => ~Overlap(Extent(s), Extent(x.slots[j]))
    PROVE  Sound(WithSlot(x, i, s, bytes), bad, fell)
<1> DEFINE y == WithSlot(x, i, s, bytes)
<1>1. /\ y \in LooseJob /\ SameButSlots(x, y) /\ y.slots[i] = s /\ y.temp = bytes
      /\ \A j \in Slots \ {i} : y.slots[j] = x.slots[j]
  BY WithSlotFields DEF Sound
<1> HIDE DEF y
<1>2. /\ InUse(y, i) <=> s.phase # "free"
      /\ \A j \in Slots \ {i} : InUse(y, j) <=> InUse(x, j)
  BY <1>1 DEF InUse
<1>3. Apart(y)
  <2> SUFFICES ASSUME NEW j \in Slots, NEW k \in Slots, j # k, InUse(y, j), InUse(y, k)
               PROVE  ~Overlap(Extent(y.slots[j]), Extent(y.slots[k]))
    BY DEF Apart
  <2>1. CASE j # i /\ k # i
    BY <1>1, <1>2, <2>1 DEF Sound, SlotsSound, Apart
  <2>2. CASE j = i
    BY <1>1, <1>2, <2>2
  <2>3. CASE k = i
    <3>1. ~Overlap(Extent(y.slots[k]), Extent(y.slots[j]))
      BY <1>1, <1>2, <2>3
    <3> QED BY <3>1 DEF Overlap
  <2> QED BY <2>1, <2>2, <2>3
<1>4. SlotsSound(y)
  BY <1>1, <1>3 DEF Sound, SlotsSound
<1>5. RangesSound(y)
  BY <1>1 DEF Sound, RangesSound, SameButSlots
<1>6. ASSUME ~bad PROVE Written(y)
  <2>1. ASSUME NEW j \in Slots, InUse(y, j) PROVE Received(y.slots[j]) \subseteq y.temp
    BY <1>1, <1>2, <1>6, <2>1 DEF Sound, Written
  <2> QED BY <1>1, <1>6, <2>1 DEF Sound, Written, SameButSlots
<1>7. Modes(y)
  <2>1. y.step = "stream" => \A j \in Slots : ~InUse(y, j)
    BY <1>1, <1>2 DEF Sound, Modes, SameButSlots
  <2> QED BY <1>1, <2>1 DEF Sound, Modes, SameButSlots
<1>8. Sound(y, bad, fell)
  BY <1>1, <1>4, <1>5, <1>6, <1>7 DEF Sound, SameButSlots
<1> QED BY <1>8 DEF y

LEMMA InUseChunk ==
    ASSUME NEW x, NEW bad, NEW fell, Sound(x, bad, fell), NEW i \in Slots, InUse(x, i)
    PROVE  x.step = "chunk"
BY DEF Sound, Modes, LooseJob

LEMMA FreeSlotSound == FreeSlot \in Slot /\ SlotSound(FreeSlot) /\ FreeSlot.phase = "free"
<1>1. 0 \in File /\ 0 \in 0..Total
  BY Sizes DEF File
<1> QED BY <1>1 DEF FreeSlot, Slot, SlotSound

LEMMA ReleaseSound ==
    ASSUME NEW x, NEW bad, NEW fell, Sound(x, bad, fell), NEW i \in Slots
    PROVE  /\ Sound(Release(x, i), bad, fell)
           /\ SameButSlots(x, Release(x, i))
           /\ Release(x, i).temp = x.temp
<1>1. x \in LooseJob /\ x.temp \in SUBSET File
  BY DEF Sound, LooseJob
<1>2. Release(x, i) = WithSlot(x, i, FreeSlot, x.temp)
  BY <1>1, FreeSlotSound, WithSlotFields DEF Release
<1> QED BY <1>1, <1>2, FreeSlotSound, WithSlotFields, WithSlotSound

(* What the other slots hold, as a set of ranges. *)
LEMMA InFlightRanges ==
    ASSUME NEW x \in LooseJob, NEW i \in Nat
    PROVE  /\ \A r \in InFlight(x, i) : r.start \in Int /\ r.end \in Int
           /\ \A j \in Slots : j # i /\ InUse(x, j) => Extent(x.slots[j]) \in InFlight(x, i)
           /\ \A r \in InFlight(x, i) : \E j \in Slots : j # i /\ InUse(x, j) /\ r = Extent(x.slots[j])
BY SlotFields DEF InFlight, Extent

(* A request for a range that no other connection holds. *)
LEMMA RequestSound ==
    ASSUME NEW x, NEW bad, NEW fell, Sound(x, bad, fell), NEW i \in Slots, x.step = "chunk",
           NEW range \in Ranges, range.start <= range.end, range.end < Total,
           \A j \in Slots \ {i} : InUse(x, j) => ~Overlap(range, Extent(x.slots[j])),
           NEW keep \in BOOLEAN, NEW wire \in {0}
    PROVE  /\ Sound(Request(x, i, range, keep, wire), bad, fell)
           /\ SameButSlots(x, Request(x, i, range, keep, wire))
           /\ Request(x, i, range, keep, wire).temp = x.temp
           /\ InUse(Request(x, i, range, keep, wire), i)
           /\ Extent(Request(x, i, range, keep, wire).slots[i]) = range
           /\ \A j \in Slots \ {i} : Request(x, i, range, keep, wire).slots[j] = x.slots[j]
<1> DEFINE s == [FreeSlot EXCEPT !.phase = "sent", !.start = range.start, !.end = range.end,
                                 !.keep = keep, !.wire = wire]
<1>1. x \in LooseJob /\ x.temp \in SUBSET File
  BY DEF Sound, LooseJob
<1>2. /\ range.start \in File /\ range.end \in File /\ range.start \in Nat /\ range.end \in Nat
      /\ range = [start |-> range.start, end |-> range.end]
      /\ 0 \in 0..Total
  BY Sizes DEF Ranges, File
<1>3. FreeSlot \in Slot /\ FreeSlot.received = 0
  BY FreeSlotSound DEF FreeSlot
<1>4. s \in Slot /\ s.phase = "sent" /\ s.start = range.start /\ s.end = range.end
      /\ s.received = 0 /\ s.wire = 0
  <2> HIDE DEF FreeSlot
  <2> QED BY <1>2, <1>3 DEF Slot
<1>5. Request(x, i, range, keep, wire) = [x EXCEPT !.slots[i] = s]
  BY DEF Request
<1> HIDE DEF s
<1>6. SlotSound(s) /\ Received(s) = {} /\ Extent(s) = range
  BY <1>2, <1>4 DEF SlotSound, Received, Extent
<1>7. Request(x, i, range, keep, wire) = WithSlot(x, i, s, x.temp)
  BY <1>1, <1>4, <1>5, WithSlotFields
<1>8. Sound(WithSlot(x, i, s, x.temp), bad, fell)
  BY <1>1, <1>4, <1>6, WithSlotSound
<1> QED BY <1>1, <1>4, <1>6, <1>7, <1>8, WithSlotFields DEF InUse

-----------------------------------------------------------------------------
(* A connection reserves on, and writes what it has reserved. *)

(* The job with a longer reservation of one slot. *)
WithEnd(x, i, end) == WithSlot(x, i, [x.slots[i] EXCEPT !.end = end], x.temp)

LEMMA WithEndFields ==
    ASSUME NEW x \in LooseJob, NEW i \in Slots, NEW end \in File
    PROVE  /\ [x.slots[i] EXCEPT !.end = end] \in Slot
           /\ WithEnd(x, i, end) \in LooseJob
           /\ WithEnd(x, i, end).slots[i] = [x.slots[i] EXCEPT !.end = end]
           /\ WithEnd(x, i, end).temp = x.temp
           /\ SameButSlots(x, WithEnd(x, i, end))
           /\ \A j \in Slots \ {i} : WithEnd(x, i, end).slots[j] = x.slots[j]
           /\ \A e \in File : WithEnd(WithEnd(x, i, end), i, e) = WithEnd(x, i, e)
<1> DEFINE s(e) == [x.slots[i] EXCEPT !.end = e]
<1>1. x.slots[i] \in Slot /\ x.temp \in SUBSET File
  BY SlotFields DEF LooseJob
<1>2. \A e \in File : s(e) \in Slot
  BY <1>1 DEF Slot
<1>3. /\ WithEnd(x, i, end) \in LooseJob
      /\ WithEnd(x, i, end).slots[i] = s(end)
      /\ WithEnd(x, i, end).temp = x.temp
      /\ SameButSlots(x, WithEnd(x, i, end))
      /\ \A j \in Slots \ {i} : WithEnd(x, i, end).slots[j] = x.slots[j]
      /\ WithEnd(x, i, end) = [x EXCEPT !.slots[i] = s(end)]
  <2> HIDE DEF s
  <2> QED BY <1>1, <1>2, WithSlotFields DEF WithEnd, s
<1>4. ASSUME NEW e \in File PROVE WithEnd(WithEnd(x, i, end), i, e) = WithEnd(x, i, e)
  <2> DEFINE y == WithEnd(x, i, end)
  <2>1. y = [x EXCEPT !.slots = [x.slots EXCEPT ![i] = s(end)]]
    BY <1>3
  <2>2. y.temp = x.temp /\ y.slots[i] = s(end)
    BY <1>3
  <2>3. [s(end) EXCEPT !.end = e] = s(e)
    BY <1>1 DEF Slot
  <2>4. WithEnd(y, i, e) = WithSlot(y, i, s(e), x.temp)
    <3> HIDE DEF y
    <3> QED BY <2>2, <2>3 DEF WithEnd
  <2>5. WithSlot(y, i, s(e), x.temp)
          = [y EXCEPT !.slots = [y.slots EXCEPT ![i] = s(e)], !.temp = x.temp]
    BY DEF WithSlot
  <2>6. y.slots = [x.slots EXCEPT ![i] = s(end)] /\ x.slots \in [Slots -> Slot]
    BY <2>1 DEF LooseJob
  <2>7. [y.slots EXCEPT ![i] = s(e)] = [x.slots EXCEPT ![i] = s(e)]
    BY <2>6
  <2>8. [y EXCEPT !.slots = [x.slots EXCEPT ![i] = s(e)], !.temp = x.temp]
          = [x EXCEPT !.slots = [x.slots EXCEPT ![i] = s(e)], !.temp = x.temp]
    BY <2>1 DEF LooseJob
  <2> QED BY <2>4, <2>5, <2>7, <2>8 DEF WithEnd, WithSlot
<1> QED BY <1>2, <1>3, <1>4

(* The jobs in which slot i has reserved as much, or more. *)
Grown(x, i, bad, fell) ==
    {y \in LooseJob :
        \E e \in File : e >= x.slots[i].end /\ y = WithEnd(x, i, e) /\ Sound(y, bad, fell)}

LEMMA ExtendSound ==
    ASSUME NEW x, NEW bad, NEW fell, Sound(x, bad, fell), NEW i \in Slots, InUse(x, i)
    PROVE  Extend(x, i) \in Grown(x, i, bad, fell)
<1> DEFINE s == x.slots[i]
           inFlight == InFlight(x, i)
           next == NextReserveEnd(x.done, Total, Chunk, inFlight, s.end)
           t == [s EXCEPT !.end = next]
<1>1. x \in LooseJob /\ s \in Slot /\ SlotSound(s) /\ i \in Nat /\ x.temp \in SUBSET File
  BY Sizes, SlotFields DEF Sound, SlotsSound, LooseJob
<1>2. /\ s.start \in Nat /\ s.end \in Nat /\ s.end < Total /\ s.received \in Nat
      /\ s.start + s.received <= s.end + 1
  BY <1>1, SlotFields DEF SlotSound
<1>3. x.done \in Seq(Ranges) /\ Canonical(x.done)
  BY DEF Sound, RangesSound, LooseJob
<1>4. \A r \in inFlight : r.start \in Int /\ r.end \in Int
  BY <1>1, InFlightRanges
<1> HIDE DEF s, inFlight
<1>5. /\ next \in s.end..(s.end + Chunk) /\ next < Total
      /\ \A r \in inFlight : ((s.end + 1)..next) \cap (r.start..r.end) = {}
  <2>1. next \in {NextReserveEnd(x.done, Total, Chunk, inFlight, s.end)}
    OBVIOUS
  <2> HIDE DEF next
  <2>2. /\ Total \in Nat /\ Chunk \in Nat \ {0} /\ s.end \in Nat /\ s.end < Total
        /\ x.done \in Seq(Ranges) /\ Canonical(x.done)
    BY <1>2, <1>3, Sizes
  <2> QED BY <1>4, <2>1, <2>2, ReserveEndIsSound
<1>6. next \in File /\ next \in Nat /\ next >= s.end
  <2> HIDE DEF next
  <2> QED BY <1>2, <1>5, Sizes DEF File
<1>7. Extend(x, i) = [x EXCEPT !.slots[i] = t]
  BY DEF Extend, s, inFlight
<1> HIDE DEF next
<1>8. t \in Slot /\ t.start = s.start /\ t.end = next /\ t.received = s.received
      /\ t.phase = s.phase /\ t.wire = s.wire /\ t.keep = s.keep /\ t.remaining = s.remaining
  BY <1>1, <1>6 DEF Slot
<1> HIDE DEF t
<1>9. Extend(x, i) = WithEnd(x, i, next)
  <2>1. WithSlot(x, i, t, x.temp) = [x EXCEPT !.slots[i] = t]
    BY <1>1, <1>8, WithSlotFields
  <2> QED BY <1>7, <2>1 DEF WithEnd, t, s
<1>10. SlotSound(t)
  BY <1>1, <1>2, <1>6, <1>8 DEF SlotSound
<1>11. ASSUME NEW j \in Slots \ {i}, InUse(x, j)
       PROVE  ~Overlap(Extent(t), Extent(x.slots[j]))
  <2> DEFINE r == Extent(x.slots[j])
  <2>1. r \in inFlight
    BY <1>1, <1>11, InFlightRanges DEF inFlight
  <2>2. r.start \in Nat /\ r.end \in Nat
    BY <1>1, SlotFields DEF Extent
  <2>3. ((s.end + 1)..next) \cap (r.start..r.end) = {}
    BY <1>5, <2>1
  <2>4. ~Overlap(Extent(s), r)
    BY <1>11 DEF Sound, SlotsSound, Apart, s
  <2>5. /\ Extent(s).start = s.start /\ Extent(s).end = s.end
        /\ Extent(t).start = s.start /\ Extent(t).end = next
    BY <1>8 DEF Extent
  <2> HIDE DEF r
  <2>6. SUFFICES ASSUME s.start <= next, r.start <= r.end, s.start <= r.end, r.start <= next
                 PROVE  FALSE
    BY <2>5 DEF Overlap, r
  <2>7. CASE s.start <= s.end
    <3>1. r.start > s.end
      BY <1>2, <2>2, <2>4, <2>5, <2>6, <2>7 DEF Overlap
    <3>2. r.start \in (s.end + 1)..next /\ r.start \in r.start..r.end
      BY <1>2, <1>6, <2>2, <2>6, <3>1
    <3> QED BY <2>3, <3>2
  <2>8. CASE s.start > s.end
    <3>1. PICK b \in {s.start, r.start} : b >= s.start /\ b >= r.start
      BY <1>2, <2>2
    <3>2. b \in (s.end + 1)..next /\ b \in r.start..r.end
      BY <1>2, <1>6, <2>2, <2>6, <2>8, <3>1
    <3> QED BY <2>3, <3>2
  <2> QED BY <1>2, <2>7, <2>8
<1>12. ASSUME ~bad PROVE Received(t) \subseteq x.temp
  BY <1>8, <1>12 DEF Sound, Written, Received, s
<1>13. Sound(WithSlot(x, i, t, x.temp), bad, fell)
  BY <1>1, <1>8, <1>10, <1>11, <1>12, InUseChunk, WithSlotSound
<1>14. Sound(WithEnd(x, i, next), bad, fell)
  BY <1>13 DEF WithEnd, t, s
<1>15. Extend(x, i) \in LooseJob
  BY <1>9, <1>14 DEF Sound
<1> QED BY <1>6, <1>9, <1>14, <1>15 DEF Grown, s

LEMMA GrownProperties ==
    ASSUME NEW x, NEW bad, NEW fell, Sound(x, bad, fell), NEW i \in Slots
    PROVE  /\ x \in Grown(x, i, bad, fell)
           /\ \A y \in Grown(x, i, bad, fell) :
                 /\ Sound(y, bad, fell) /\ SameButSlots(x, y) /\ y.temp = x.temp
                 /\ y.slots[i] = [x.slots[i] EXCEPT !.end = y.slots[i].end]
                 /\ y.slots[i].end >= x.slots[i].end
                 /\ \A j \in Slots \ {i} : y.slots[j] = x.slots[j]
<1>1. x \in LooseJob /\ x.slots[i] \in Slot
  BY SlotFields DEF Sound
<1>2. x \in Grown(x, i, bad, fell)
  <2> DEFINE e == x.slots[i].end
  <2>1. e \in File /\ e >= e
    BY <1>1, Sizes DEF Slot, File
  <2>2. [x.slots[i] EXCEPT !.end = e] = x.slots[i]
    BY <1>1 DEF Slot
  <2>3. [x.slots EXCEPT ![i] = x.slots[i]] = x.slots
    BY <1>1 DEF LooseJob
  <2>4. WithSlot(x, i, x.slots[i], x.temp) = x
    <3>1. [x EXCEPT !.slots = x.slots, !.temp = x.temp] = x
      BY <1>1 DEF LooseJob
    <3> QED BY <2>3, <3>1 DEF WithSlot
  <2>5. WithEnd(x, i, e) = x
    BY <2>2, <2>4 DEF WithEnd
  <2> HIDE DEF e
  <2>6. e \in File /\ e >= x.slots[i].end
    BY <2>1 DEF e
  <2> QED BY <1>1, <2>5, <2>6 DEF Grown
<1>3. ASSUME NEW y \in Grown(x, i, bad, fell)
      PROVE  /\ Sound(y, bad, fell) /\ SameButSlots(x, y) /\ y.temp = x.temp
             /\ y.slots[i] = [x.slots[i] EXCEPT !.end = y.slots[i].end]
             /\ y.slots[i].end >= x.slots[i].end
             /\ \A j \in Slots \ {i} : y.slots[j] = x.slots[j]
  <2>1. PICK e \in File : e >= x.slots[i].end /\ y = WithEnd(x, i, e) /\ Sound(y, bad, fell)
    BY DEF Grown
  <2>2. /\ SameButSlots(x, y) /\ y.temp = x.temp
        /\ y.slots[i] = [x.slots[i] EXCEPT !.end = e]
        /\ \A j \in Slots \ {i} : y.slots[j] = x.slots[j]
    BY <1>1, <2>1, WithEndFields
  <2>3. y.slots[i].end = e
    BY <1>1, <2>2 DEF Slot
  <2> QED BY <2>1, <2>2, <2>3
<1> QED BY <1>2, <1>3

(* One round of the loop of slot_prepare_write. *)
More(y, i, pos, len) == IF y.slots[i].end - pos + 1 >= len THEN y ELSE Extend(y, i)

LEMMA MoreGrows ==
    ASSUME NEW x, NEW bad, NEW fell, Sound(x, bad, fell), NEW i \in Slots, InUse(x, i),
           NEW pos, NEW len, NEW y \in Grown(x, i, bad, fell)
    PROVE  More(y, i, pos, len) \in Grown(x, i, bad, fell)
<1>1. CASE More(y, i, pos, len) = y
  BY <1>1
<1>2. CASE More(y, i, pos, len) = Extend(y, i)
  <2>1. x \in LooseJob /\ x.slots[i] \in Slot
    BY SlotFields DEF Sound
  <2>2. PICK e \in File : e >= x.slots[i].end /\ y = WithEnd(x, i, e) /\ Sound(y, bad, fell)
    BY DEF Grown
  <2>3. y.slots[i] = [x.slots[i] EXCEPT !.end = e]
    BY <2>1, <2>2, WithEndFields
  <2>4. InUse(y, i) /\ y.slots[i].end = e
    BY <2>1, <2>3 DEF Slot, InUse
  <2>5. Extend(y, i) \in Grown(y, i, bad, fell)
    BY <2>2, <2>4, ExtendSound
  <2>6. PICK f \in File : /\ f >= e /\ Extend(y, i) = WithEnd(y, i, f)
                          /\ Sound(Extend(y, i), bad, fell) /\ Extend(y, i) \in LooseJob
    BY <2>4, <2>5 DEF Grown
  <2>7. WithEnd(y, i, f) = WithEnd(x, i, f)
    BY <2>1, <2>2, WithEndFields
  <2>8. f >= x.slots[i].end
    BY <2>1, <2>2, <2>6, Sizes, SlotFields DEF File
  <2> QED BY <1>2, <2>6, <2>7, <2>8 DEF Grown
<1> QED BY <1>1, <1>2 DEF More

(* slot_prepare_write keeps off what the others have reserved. *)
LEMMA ReserveSound ==
    ASSUME NEW x, NEW bad, NEW fell, Sound(x, bad, fell), NEW i \in Slots, InUse(x, i), NEW len
    PROVE  Reserve(x, i, len) \in Grown(x, i, bad, fell)
<1> DEFINE pos == x.slots[i].start + x.slots[i].received
           Step(f) == [n \in 0..Total |->
                         IF n = 0 THEN x
                         ELSE LET y == f[n - 1]
                              IN  IF y.slots[i].end - pos + 1 >= len THEN y ELSE Extend(y, i)]
           grown == CHOOSE f : f = Step(f)
           G == Grown(x, i, bad, fell)
           F == [n \in 1..Total |-> [y \in G |-> More(y, i, pos, len)]]
<1>1. Reserve(x, i, len) = IF pos > x.slots[i].end THEN x ELSE grown[Total]
  BY DEF Reserve
<1>2. \A f : Step(f) = [n \in 0..Total |-> IF n = 0 THEN x ELSE More(f[n - 1], i, pos, len)]
  BY DEF More
<1>3. x \in G
  BY GrownProperties
<1>4. Total \in Nat /\ Total \in 0..Total
  BY Sizes
<1> HIDE DEF pos
<1>5. \A y \in G : More(y, i, pos, len) \in G
  BY MoreGrows
<1> HIDE DEF G
<1>6. \E f : f = Step(f)
  <2>1. F \in [1..Total -> [G -> G]]
    BY <1>5
  <2> HIDE DEF F
  <2>2. PICK g : IsLoop(g, Total, G, x, F)
    BY <1>3, <1>4, <2>1, LoopExists
  <2>3. ASSUME NEW n \in 0..Total
        PROVE  g[n] = IF n = 0 THEN x ELSE More(g[n - 1], i, pos, len)
    <3>1. n # 0 => n \in 1..Total /\ n - 1 \in 0..Total
      BY <1>4
    <3> QED BY <2>2, <3>1 DEF F, IsLoop
  <2>4. g = Step(g)
    <3> HIDE DEF Step
    <3> QED BY <1>2, <2>2, <2>3 DEF IsLoop
  <2> QED BY <2>4
<1>7. grown = Step(grown)
  <2> HIDE DEF Step
  <2> QED BY <1>6, Zenon
<1> HIDE DEF grown
<1>8. \A n \in 0..Total : grown[n] = IF n = 0 THEN x ELSE More(grown[n - 1], i, pos, len)
  <2> HIDE DEF Step
  <2> QED BY <1>2, <1>7
<1>9. \A n \in 0..Total : grown[n] \in G
  <2> DEFINE Fails == {n \in 0..Total : grown[n] \notin G}
  <2>1. ASSUME NEW n \in Fails PROVE n # 0 /\ n - 1 \in Fails
    <3>1. n # 0
      BY <1>3, <1>8
    <3>2. n - 1 \in 0..Total
      BY <1>4, <3>1
    <3> QED BY <1>5, <1>8, <3>1, <3>2
  <2>2. Fails \in SUBSET (0..Total)
    OBVIOUS
  <2>3. Fails = {}
    <3> HIDE DEF Fails
    <3> QED BY <1>4, <2>1, <2>2, NoFirstFailure
  <2> QED BY <2>3
<1> QED BY <1>1, <1>3, <1>4, <1>9 DEF G

LEMMA SmallestOfTwo ==
    ASSUME NEW a \in Int, NEW b \in Int
    PROVE  Smallest({a, b}) = IF a <= b THEN a ELSE b
<1>1. CASE a <= b
  <2>1. {a, b} \in SUBSET Int /\ a \in {a, b} /\ \A y \in {a, b} : a <= y
    BY <1>1
  <2> QED BY <1>1, <2>1, SmallestIs
<1>2. CASE ~(a <= b)
  <2>1. {a, b} \in SUBSET Int /\ b \in {a, b} /\ \A y \in {a, b} : b <= y
    BY <1>2
  <2> QED BY <1>2, <2>1, SmallestIs
<1> QED BY <1>1, <1>2

LEMMA LargestOfTwo ==
    ASSUME NEW a \in Int, NEW b \in Int
    PROVE  Largest({a, b}) = IF b <= a THEN a ELSE b
<1>1. CASE b <= a
  <2>1. {a, b} \in SUBSET Int /\ a \in {a, b} /\ \A y \in {a, b} : y <= a
    BY <1>1
  <2> QED BY <1>1, <2>1, LargestIs
<1>2. CASE ~(b <= a)
  <2>1. {a, b} \in SUBSET Int /\ b \in {a, b} /\ \A y \in {a, b} : y <= b
    BY <1>2
  <2> QED BY <1>2, <2>1, LargestIs
<1> QED BY <1>1, <1>2

(* What a write to slot i leaves as it is; it may fail the job. *)
Wrote(x, w, i) ==
    /\ w.run \in {x.run, "failed"}
    /\ w.step = x.step /\ w.stream = x.stream /\ w.deferred = x.deferred
    /\ w.errors = x.errors /\ w.status = x.status /\ w.saved = x.saved
    /\ w.slots[i].phase = x.slots[i].phase /\ w.slots[i].keep = x.slots[i].keep
    /\ w.slots[i].wire = x.slots[i].wire

(* slot_write_body: a byte is written by the connection that holds it, and  *)
(* a connection that is kept never counts more bytes than are still to come. *)
LEMMA WriteBodySound ==
    ASSUME NEW x, NEW bad, NEW fell, Sound(x, bad, fell), x.run # "none",
           NEW i \in Slots, InUse(x, i), NEW len \in Nat,
           x.slots[i].keep => x.slots[i].wire + len <= x.slots[i].remaining
    PROVE  Sound(WriteBody(x, i, len), bad, fell) /\ Wrote(x, WriteBody(x, i, len), i)
<1> DEFINE y == Reserve(x, i, len)
           s == y.slots[i]
           pos == s.start + s.received
           n == Smallest({len, s.end - pos + 1})
           t == [s EXCEPT !.received = @ + n, !.remaining = Largest({0, @ - n})]
           bytes == y.temp \cup pos..(pos + n - 1)
<1>1. WriteBody(x, i, len)
        = IF n <= 0 THEN y ELSE IF y.broken THEN SetError(y)
          ELSE [y EXCEPT !.temp = bytes, !.slots[i] = t]
  BY DEF WriteBody
<1>2. /\ Sound(y, bad, fell) /\ SameButSlots(x, y) /\ y.temp = x.temp
      /\ s = [x.slots[i] EXCEPT !.end = s.end]
  BY ReserveSound, GrownProperties
<1>3. x \in LooseJob /\ x.slots[i] \in Slot /\ y \in LooseJob /\ s \in Slot
  BY <1>2, SlotFields DEF Sound
<1> HIDE DEF y
<1>4. /\ s.phase = x.slots[i].phase /\ s.keep = x.slots[i].keep /\ s.wire = x.slots[i].wire
      /\ s.remaining = x.slots[i].remaining
  <2> HIDE DEF s
  <2> QED BY <1>2, <1>3 DEF Slot
<1>5. /\ s.start \in Nat /\ s.end \in Nat /\ s.end < Total /\ s.received \in Nat
      /\ s.wire \in Nat /\ s.remaining \in 0..Total /\ s.remaining \in Nat
      /\ SlotSound(s) /\ s.start + s.received <= s.end + 1
  BY <1>2, <1>3, SlotFields DEF Sound, SlotsSound, SlotSound, Slot
<1> HIDE DEF s
<1>6. pos \in Nat /\ pos <= s.end + 1
  BY <1>5
<1>7. n \in Int /\ n <= len /\ n <= s.end - pos + 1
  <2>1. n = IF len <= s.end - pos + 1 THEN len ELSE s.end - pos + 1
    BY <1>5, <1>6, SmallestOfTwo
  <2> QED BY <1>5, <1>6, <2>1
<1> HIDE DEF n
<1>8. CASE n <= 0
  <2>1. Wrote(x, y, i)
    BY <1>2, <1>4 DEF Wrote, SameButSlots, s
  <2> QED BY <1>1, <1>2, <1>8, <2>1 DEF y
<1>9. CASE n > 0 /\ y.broken
  <2>1. WriteBody(x, i, len) = SetError(y)
    BY <1>1, <1>7, <1>9
  <2>2. y.run # "none"
    BY <1>2 DEF SameButSlots
  <2>3. Sound(SetError(y), bad, fell)
    BY <1>2, <2>2, SetErrorSound
  <2>4. /\ SetError(y).run = "failed"
        /\ SetError(y).step = y.step /\ SetError(y).stream = y.stream
        /\ SetError(y).deferred = y.deferred /\ SetError(y).errors = y.errors
        /\ SetError(y).status = y.status /\ SetError(y).saved = y.saved
        /\ SetError(y).slots = y.slots
    BY <1>3 DEF SetError, LooseJob
  <2>5. Wrote(x, SetError(y), i)
    BY <1>2, <1>4, <2>4 DEF Wrote, SameButSlots, s
  <2> QED BY <2>1, <2>3, <2>5
<1>10. CASE n > 0 /\ ~y.broken
  <2> DEFINE received == s.received + n
             left == Largest({0, s.remaining - n})
  <2>1. received \in 0..Total /\ s.start + received <= s.end + 1
    <3> HIDE DEF t, bytes
    <3>1. n <= s.end - (s.start + s.received) + 1 /\ n > 0 /\ n \in Int
      BY <1>7, <1>10
    <3>2. \A a, b, c \in Nat : a + b <= c + 1 /\ n <= c - (a + b) + 1 /\ c < Total =>
             b + n \in 0..Total /\ a + (b + n) <= c + 1
      BY <3>1, Sizes
    <3> QED BY <1>5, <3>1, <3>2
  <2>2. left \in 0..Total /\ left >= s.remaining - n
    <3>1. left = IF s.remaining - n <= 0 THEN 0 ELSE s.remaining - n
      BY <1>5, <1>7, LargestOfTwo
    <3> QED BY <1>5, <1>7, <1>10, <3>1, Sizes
  <2>3. t = [s EXCEPT !.received = received, !.remaining = left]
    OBVIOUS
  <2> HIDE DEF received, left, t
  <2>4. /\ t \in Slot /\ t.start = s.start /\ t.end = s.end /\ t.received = received
        /\ t.phase = s.phase /\ t.wire = s.wire /\ t.keep = s.keep /\ t.remaining = left
    BY <1>3, <2>1, <2>2, <2>3 DEF Slot
  <2>5. t.keep => t.wire <= t.remaining
    BY <1>4, <1>5, <1>7, <2>2, <2>4 DEF left
  <2>6. SlotSound(t)
    BY <1>5, <2>1, <2>4, <2>5 DEF SlotSound
  <2>7. pos..(pos + n - 1) \subseteq File
    <3> HIDE DEF t, bytes, pos
    <3>1. pos + n <= Total
      BY <1>5, <1>6, <1>7, Sizes
    <3> QED BY <1>6, <1>7, <3>1, SpanInside
  <2>8. bytes \in SUBSET File /\ y.temp \subseteq bytes
    BY <1>3, <2>7 DEF LooseJob
  <2>9. InUse(y, i) /\ y.step = "chunk"
    BY <1>2, <1>4, InUseChunk DEF InUse, s
  <2>10. ASSUME ~bad PROVE Received(t) \subseteq bytes
    <3>1. Received(s) \subseteq y.temp
      BY <1>2, <2>9, <2>10 DEF Sound, Written, s
    <3>2. \A b \in Received(t) : b \in Received(s) \/ b \in pos..(pos + n - 1)
      BY <1>5, <1>6, <1>7, <2>4 DEF Received, received, pos
    <3> QED BY <3>1, <3>2
  <2>11. ASSUME NEW j \in Slots \ {i}, InUse(y, j)
         PROVE  ~Overlap(Extent(t), Extent(y.slots[j]))
    <3>1. Extent(t) = Extent(s)
      BY <2>4 DEF Extent
    <3> QED BY <1>2, <2>9, <2>11, <3>1 DEF Sound, SlotsSound, Apart, s
  <2> HIDE DEF bytes
  <2>12. Sound(WithSlot(y, i, t, bytes), bad, fell)
    BY <1>2, <2>4, <2>6, <2>8, <2>9, <2>10, <2>11, WithSlotSound
  <2>13. WriteBody(x, i, len) = WithSlot(y, i, t, bytes)
    <3>1. WriteBody(x, i, len) = [y EXCEPT !.temp = bytes, !.slots[i] = t]
      BY <1>1, <1>7, <1>10
    <3>2. [y EXCEPT !.temp = bytes, !.slots[i] = t] = [y EXCEPT !.slots[i] = t, !.temp = bytes]
      BY <1>3 DEF LooseJob
    <3> QED BY <3>1, <3>2 DEF WithSlot
  <2>14. /\ SameButSlots(y, WithSlot(y, i, t, bytes))
         /\ WithSlot(y, i, t, bytes).slots[i] = t
    BY <1>3, <2>4, <2>8, WithSlotFields
  <2>15. Wrote(x, WithSlot(y, i, t, bytes), i)
    BY <1>2, <1>4, <2>4, <2>14 DEF Wrote, SameButSlots
  <2> QED BY <2>12, <2>13, <2>15
<1> QED BY <1>7, <1>8, <1>9, <1>10

-----------------------------------------------------------------------------
(* The segments selected for the connections that are free. *)

Choices(x, i, sel, n) ==
    /\ n \in Nat
    /\ sel \in [1..n -> Ranges]
    /\ \A k \in 1..n :
          /\ sel[k].start <= sel[k].end /\ sel[k].end < Total
          /\ \A j \in Slots : j # i /\ InUse(x, j) => ~Overlap(sel[k], Extent(x.slots[j]))
    /\ \A k, l \in 1..n : k # l => ~Overlap(sel[k], sel[l])

Eligibles(x, i) == Eligible(x.done, Total, Chunk, InFlight(x, i))

(* A segment is chosen once, and only when no connection holds a byte of it. *)
LEMMA SelectSound ==
    ASSUME NEW x, NEW bad, NEW fell, Sound(x, bad, fell), NEW i \in Nat, NEW max \in Nat
    PROVE  /\ Choices(x, i, Select(x, i, max), Few(Eligibles(x, i), max))
           /\ IsFiniteSet(Eligibles(x, i))
<1> DEFINE E == Eligibles(x, i)
           n == Few(E, max)
           picked == SelectChunks("balanced", x.done, Total, Chunk, InFlight(x, i), Concurrency, max)
           Seg(k) == SegmentRange(Total, Chunk, k)
           sel == Select(x, i, max)
<1>1. x \in LooseJob /\ x.done \in Seq(Ranges) /\ Canonical(x.done)
  BY DEF Sound, RangesSound, LooseJob
<1>2. \A r \in InFlight(x, i) : r.start \in Int /\ r.end \in Int
  BY <1>1, InFlightRanges
<1>3. E \in SUBSET Nat /\ IsFiniteSet(E) /\ Picks(picked, E, max)
  BY <1>1, <1>2, Sizes, SelectionPicks DEF Eligibles
<1>4. /\ n \in Nat /\ picked \in [1..n -> E]
      /\ \A k, l \in 1..n : k # l => picked[k] # picked[l]
  BY <1>3 DEF Picks
<1>5. sel = [k \in DOMAIN picked |-> Seg(picked[k])]
  BY DEF Select
<1>6. \A e \in E : /\ e \in 0..((Total - 1) \div Chunk)
                   /\ \A r \in InFlight(x, i) : (Seg(e).start..Seg(e).end) \cap (r.start..r.end) = {}
  BY DEF Eligibles, Eligible, Missing
<1> HIDE DEF E, picked, n, sel
<1>7. ASSUME NEW e \in 0..((Total - 1) \div Chunk)
      PROVE  /\ Seg(e) \in Ranges /\ Seg(e).start <= Seg(e).end /\ Seg(e).end < Total
             /\ \A f \in 0..((Total - 1) \div Chunk) : e # f => ~Overlap(Seg(e), Seg(f))
  <2>1. Seg(e).start \in Nat /\ Seg(e).end \in Nat
        /\ Seg(e).start <= Seg(e).end /\ Seg(e).end < Total
    BY Sizes, SegmentInside
  <2>2. Seg(e) = [start |-> Seg(e).start, end |-> Seg(e).end]
    BY DEF SegmentRange
  <2>3. \A f \in 0..((Total - 1) \div Chunk) : e # f => ~Overlap(Seg(e), Seg(f))
    BY Sizes, SegmentsApart
  <2> HIDE DEF Seg
  <2>4. Seg(e) \in Ranges
    BY <2>1, <2>2 DEF Ranges
  <2> QED BY <2>1, <2>3, <2>4
<1> HIDE DEF Seg
<1>8. sel = [k \in 1..n |-> Seg(picked[k])]
  BY <1>4, <1>5
<1>9. sel \in [1..n -> Ranges]
  BY <1>4, <1>6, <1>7, <1>8
<1>10. ASSUME NEW k \in 1..n
       PROVE  sel[k].start <= sel[k].end /\ sel[k].end < Total
  BY <1>4, <1>6, <1>7, <1>8
<1>11. ASSUME NEW k \in 1..n, NEW j \in Slots, j # i, InUse(x, j)
       PROVE  ~Overlap(sel[k], Extent(x.slots[j]))
  <2> DEFINE r == Extent(x.slots[j])
             s == sel[k]
  <2>1. r \in InFlight(x, i)
    BY <1>1, <1>11, InFlightRanges
  <2>2. r.start \in Nat /\ r.end \in Nat
    BY <1>1, SlotFields DEF Extent
  <2>3. s.start \in Nat /\ s.end \in Nat
    BY <1>9 DEF Ranges
  <2>4. (s.start..s.end) \cap (r.start..r.end) = {}
    BY <1>4, <1>6, <1>8, <2>1
  <2> HIDE DEF r, s
  <2>5. SUFFICES ASSUME s.start <= s.end, r.start <= r.end, s.start <= r.end, r.start <= s.end
                 PROVE  FALSE
    BY DEF Overlap, r, s
  <2>6. PICK b \in {s.start, r.start} : b >= s.start /\ b >= r.start
    BY <2>2, <2>3
  <2>7. b \in s.start..s.end /\ b \in r.start..r.end
    BY <2>2, <2>3, <2>5, <2>6
  <2> QED BY <2>4, <2>7
<1>12. ASSUME NEW k \in 1..n, NEW l \in 1..n, k # l PROVE ~Overlap(sel[k], sel[l])
  BY <1>4, <1>6, <1>7, <1>8, <1>12
<1>13. Choices(x, i, sel, n)
  BY <1>4, <1>9, <1>10, <1>11, <1>12 DEF Choices
<1> QED BY <1>3, <1>13 DEF E, n, sel

(* slot_mark_segment_done: what the slot has received is done, and saved    *)
(* after the writer has been waited for.                                    *)
LEMMA MarkSegmentKeeps ==
    ASSUME NEW x, NEW bad, NEW fell, Sound(x, bad, fell), x.run # "none",
           NEW i \in Slots, InUse(x, i), x.slots[i].received # 0
    PROVE  /\ Keeps(x, MarkSegmentDone(x, i))
           /\ Sound(MarkSegmentDone(x, i), bad, fell)
           /\ MarkSegmentDone(x, i).status = x.status
           /\ Stays(x, MarkSegmentDone(x, i), fell)
<1> DEFINE s == x.slots[i]
           last == s.start + s.received - 1
           rs == MarkRangeDone(x.done, Total, s.start, last)
           slots == [x.slots EXCEPT ![i].persisted = s.received]
           m == [x EXCEPT !.done = rs, !.slots[i].persisted = s.received]
           y == MarkSegmentDone(x, i)
<1>1. x \in LooseJob /\ s \in Slot /\ Canonical(x.done) /\ Bytes(x.done) \subseteq File
  BY SlotFields DEF Sound, RangesSound
<1>2. y = IF IsRangeDone(x.done, s.start, last) THEN x
          ELSE IF m.broken THEN m ELSE [m EXCEPT !.os = m.temp, !.saved = m.done]
  BY DEF MarkSegmentDone, DrainAndSave
<1>3. CASE IsRangeDone(x.done, s.start, last)
  <2>1. y = x
    BY <1>2, <1>3
  <2>2. \A k \in Slots : x.slots[k] = [x.slots[k] EXCEPT !.persisted = x.slots[k].persisted]
    BY <1>1, SlotFields DEF Slot
  <2>3. Keeps(x, x)
    BY <2>2 DEF Keeps
  <2> QED BY <2>1, <2>3 DEF Stays
<1>4. CASE ~IsRangeDone(x.done, s.start, last)
  <2>1. /\ s.start \in Nat /\ s.received \in Nat /\ s.received > 0 /\ s.end \in Nat
        /\ s.end < Total /\ s.start + s.received <= s.end + 1 /\ s.received \in 0..Total
    BY <1>1, SlotFields DEF Sound, SlotsSound, SlotSound, Slot
  <2> HIDE DEF s
  <2>2. last \in Nat /\ s.start <= last /\ last < Total /\ s.start..last \subseteq File
    BY <2>1, Sizes DEF File
  <2>3. /\ rs \in Seq(Ranges) /\ Canonical(rs)
        /\ \A b : b \in Bytes(rs) <=>
              b \in Bytes(x.done) \/ (b \in s.start..last /\ (Total = 0 \/ b < Total))
    <3>1. x.done \in Seq(Ranges)
      BY <1>1 DEF LooseJob
    <3> HIDE DEF last
    <3> QED BY <1>1, <2>1, <2>2, <3>1, Sizes, MarkIsExact
  <2>4. m = [x EXCEPT !.done = rs, !.slots = slots]
    OBVIOUS
  <2>5. /\ slots \in [Slots -> Slot]
        /\ \A k \in Slots : slots[k] = [x.slots[k] EXCEPT !.persisted = slots[k].persisted]
    <3>1. x.slots \in [Slots -> Slot] /\ \A k \in Slots : x.slots[k] \in Slot
      BY <1>1 DEF LooseJob
    <3>2. [x.slots[i] EXCEPT !.persisted = s.received] \in Slot
      BY <2>1, <3>1 DEF Slot
    <3>3. ASSUME NEW k \in Slots
          PROVE  slots[k] = [x.slots[k] EXCEPT !.persisted = slots[k].persisted]
      <4>1. CASE k = i
        BY <3>1, <3>2, <4>1 DEF Slot
      <4>2. CASE k # i
        <5>1. slots[k] = x.slots[k]
          BY <3>1, <4>2
        <5> QED BY <3>1, <5>1 DEF Slot
      <4> QED BY <4>1, <4>2
    <3> QED BY <3>1, <3>2, <3>3
  <2> HIDE DEF m, rs, slots, y, last
  <2>6. /\ m \in LooseJob /\ m.done = rs /\ m.slots = slots /\ m.broken = x.broken
        /\ m.temp = x.temp /\ m.os = x.os /\ m.saved = x.saved /\ m.status = x.status
        /\ m.run = x.run /\ m.step = x.step /\ m.stream = x.stream
        /\ m.deferred = x.deferred /\ m.errors = x.errors /\ m.unsupported = x.unsupported
        /\ m.synced = x.synced
    BY <1>1, <2>3, <2>4, <2>5 DEF LooseJob
  <2>7. /\ y \in LooseJob
        /\ y.done = rs /\ y.slots = slots /\ y.broken = x.broken
        /\ y.temp = x.temp /\ y.status = x.status
        /\ y.run = x.run /\ y.step = x.step /\ y.stream = x.stream
        /\ y.deferred = x.deferred /\ y.errors = x.errors /\ y.unsupported = x.unsupported
        /\ y.synced = x.synced
        /\ y.os = IF x.broken THEN x.os ELSE x.temp
        /\ y.saved = IF x.broken THEN x.saved ELSE rs
    BY <1>2, <1>4, <2>6 DEF LooseJob
  <2>8. Bytes(rs) \subseteq File /\ Bytes(x.done) \subseteq Bytes(rs)
    BY <1>1, <2>2, <2>3
  <2>9. Keeps(x, y)
    BY <2>5, <2>7, <2>8 DEF Keeps
  <2>10. ASSUME ~bad PROVE Bytes(y.done) \subseteq y.os
    <3>1. /\ ~x.broken /\ Bytes(x.done) \subseteq x.os /\ x.os \subseteq x.temp
          /\ s.start..last \subseteq x.temp
      BY <2>10 DEF Sound, Written, RangesSound, Received, s, last
    <3> QED BY <2>3, <2>7, <3>1
  <2>11. Sound(y, bad, fell)
    BY <2>3, <2>7, <2>8, <2>9, <2>10, KeepsSound
  <2>12. Stays(x, y, fell)
    BY <2>7, <2>8 DEF Stays, Sound
  <2> QED BY <2>7, <2>9, <2>11, <2>12 DEF y
<1> QED BY <1>3, <1>4

-----------------------------------------------------------------------------
(* A connection has all it can have of its response. *)

LEMMA StaysOn ==
    ASSUME NEW x, NEW y, NEW z, NEW fell, Stays(x, y, fell), Stays(y, z, fell)
    PROVE  Stays(x, z, fell)
BY DEF Stays

LEMMA StillActive ==
    ASSUME NEW x, NEW y, NEW n \in Nat, NEW bad, NEW fell, Active(x, n, bad, fell),
           Sound(y, bad, fell)
    PROVE  /\ Keeps(x, y) /\ y.status # "completed" => Active(y, n, bad, fell)
           /\ SameButSlots(x, y) => Active(y, n, bad, fell) /\ Stays(x, y, fell)
BY DEF Active, Keeps, SameButSlots, Stays

LEMMA DeferGood ==
    ASSUME NEW x, NEW n \in Nat, NEW bad, NEW fell, Active(x, n, bad, fell)
    PROVE  /\ Good([x EXCEPT !.deferred = TRUE], n, bad, fell)
           /\ Stays(x, [x EXCEPT !.deferred = TRUE], fell)
<1> DEFINE y == [x EXCEPT !.deferred = TRUE]
<1>1. Sound(x, bad, fell) /\ x.run = "running" /\ x.status # "completed"
      /\ x.errors < MaxRetries + n /\ x \in LooseJob
  BY DEF Active, Sound
<1>2. /\ y \in LooseJob
      /\ y.done = x.done /\ y.slots = x.slots /\ y.broken = x.broken
      /\ y.temp = x.temp /\ y.status = x.status /\ y.os = x.os /\ y.saved = x.saved
      /\ y.run = x.run /\ y.step = x.step /\ y.stream = x.stream
      /\ y.deferred = TRUE /\ y.errors = x.errors
  BY <1>1 DEF LooseJob
<1> HIDE DEF y
<1>3. SlotsSound(y) /\ RangesSound(y) /\ Modes(y) /\ (~bad => Written(y))
  BY <1>1, <1>2 DEF Sound, SlotsSound, Apart, InUse, RangesSound, Modes, Written
<1>4. Sound(y, bad, fell)
  BY <1>1, <1>2, <1>3 DEF Sound
<1>5. Active(y, n, bad, fell) /\ Stays(x, y, fell)
  BY <1>1, <1>2, <1>4 DEF Active, Stays
<1>6. Good(y, n, bad, fell)
  BY <1>2, <1>5, ActiveIsGood
<1> QED BY <1>5, <1>6 DEF y

(* slot_finish_continuous *)
LEMMA FinishContinuousGood ==
    ASSUME NEW x, NEW n \in Nat, NEW bad, NEW fell, Active(x, n, bad, fell),
           NEW i \in Slots, x.slots[i].phase \in {"streaming", "draining"},
           x.slots[i].keep => x.slots[i].remaining = 0, NEW now
    PROVE  /\ Good(FinishContinuous(x, i, now), n, bad, fell)
           /\ Stays(x, FinishContinuous(x, i, now), fell)
<1> DEFINE s == x.slots[i]
           after == MarkSegmentDone(x, i)
           m == [after EXCEPT !.slots[i].received = 0, !.slots[i].remaining = 0]
           y == Throttled(m, now)
           next == Select(y, i, 1)
           out == FinishContinuous(x, i, now)
<1>1. Sound(x, bad, fell) /\ x.run = "running" /\ x.status # "completed" /\ InUse(x, i)
      /\ x \in LooseJob /\ s \in Slot /\ SlotSound(s) /\ i \in Nat
  BY Sizes, SlotFields DEF Active, InUse, Sound, SlotsSound
<1>2. out = IF s.received = 0 THEN NoteFailure(Release(x, i))
            ELSE IF AllChunksDone(y.done, Total) THEN Finalize(Release(y, i))
            ELSE IF s.keep /\ next # <<>> THEN Request(y, i, next[1], TRUE, s.wire)
            ELSE [Release(y, i) EXCEPT !.deferred = TRUE]
  BY DEF FinishContinuous
<1>3. CASE s.received = 0
  <2> DEFINE r == Release(x, i)
  <2>1. Sound(r, bad, fell) /\ SameButSlots(x, r)
    BY <1>1, ReleaseSound
  <2> HIDE DEF r
  <2>2. Active(r, n, bad, fell) /\ Stays(x, r, fell)
    BY <2>1, StillActive
  <2>3. Good(NoteFailure(r), n, bad, fell) /\ Stays(r, NoteFailure(r), fell)
    BY <2>2, NoteFailureGood
  <2>4. Stays(x, NoteFailure(r), fell)
    BY <2>2, <2>3, StaysOn
  <2> QED BY <1>2, <1>3, <2>3, <2>4 DEF r
<1>4. CASE s.received # 0
  <2>1. /\ Keeps(x, after) /\ Sound(after, bad, fell) /\ after.status = x.status
        /\ Stays(x, after, fell)
    BY <1>1, <1>4, MarkSegmentKeeps
  <2> HIDE DEF after
  <2>2. Active(after, n, bad, fell) /\ after \in LooseJob
    BY <1>1, <2>1, StillActive DEF Sound
  <2> DEFINE ms == after.slots[i]
             t == [ms EXCEPT !.received = 0, !.remaining = 0]
  <2>3. /\ ms.phase = s.phase /\ ms.wire = s.wire /\ ms.keep = s.keep
        /\ ms.start = s.start /\ ms.end = s.end /\ InUse(after, i)
    BY <1>1, <2>1, <2>2, KeepsSlots
  <2>4. ms \in Slot /\ SlotSound(ms) /\ ms.start \in Nat /\ ms.end \in Nat
        /\ ms.received \in Nat
    BY <2>1, <2>2, SlotFields DEF Sound, SlotsSound
  <2>5. m = [after EXCEPT !.slots[i] = t]
    <3>1. after.slots \in [Slots -> Slot]
      BY <2>2 DEF LooseJob
    <3> QED BY <2>2, <3>1 DEF LooseJob
  <2> HIDE DEF ms, s
  <2>6. /\ t \in Slot /\ t.phase = ms.phase /\ t.start = ms.start /\ t.end = ms.end
        /\ t.received = 0 /\ t.remaining = 0 /\ t.wire = ms.wire /\ t.keep = ms.keep
    <3>1. 0 \in 0..Total
      BY Sizes
    <3> QED BY <2>4, <3>1 DEF Slot
  <2>7. s.keep => s.wire = 0
    BY <1>1, SlotFields DEF SlotSound, s
  <2>8. SlotSound(t) /\ Received(t) = {} /\ Extent(t) = Extent(ms)
    BY <2>3, <2>4, <2>6, <2>7 DEF SlotSound, Received, Extent
  <2> HIDE DEF t, m
  <2>9. after.temp \in SUBSET File
    BY <2>2 DEF LooseJob
  <2>10. ASSUME NEW j \in Slots \ {i}, InUse(after, j)
         PROVE  ~Overlap(Extent(t), Extent(after.slots[j]))
    BY <2>1, <2>3, <2>8, <2>10 DEF Sound, SlotsSound, Apart, ms
  <2>11. m = WithSlot(after, i, t, after.temp)
    BY <2>2, <2>5, <2>6, <2>9, WithSlotFields
  <2>12. after.step = "chunk"
    BY <2>1, <2>3, InUseChunk
  <2>13. Sound(m, bad, fell)
    BY <2>1, <2>6, <2>8, <2>9, <2>10, <2>11, <2>12, WithSlotSound
  <2>14. SameButSlots(after, m)
    BY <2>2, <2>6, <2>9, <2>11, WithSlotFields
  <2>15. Active(m, n, bad, fell) /\ Stays(after, m, fell)
    BY <2>2, <2>13, <2>14, StillActive
  <2>16. /\ Keeps(m, y) /\ Sound(y, bad, fell) /\ y.status \in {m.status, "downloading"}
         /\ Stays(m, y, fell)
    <3>1. m.run # "none"
      BY <2>15 DEF Active
    <3> QED BY <2>13, <3>1, ThrottledKeeps
  <2> HIDE DEF y
  <2>17. Active(y, n, bad, fell)
    <3>1. m.status # "completed"
      BY <2>15 DEF Active
    <3> QED BY <2>15, <2>16, <3>1, StillActive
  <2>18. Stays(x, y, fell)
    BY <2>1, <2>15, <2>16, StaysOn
  <2>19. y.step = "chunk"
    BY <2>12, <2>14, <2>16 DEF SameButSlots, Keeps
  <2> DEFINE r == Release(y, i)
  <2>20. Sound(r, bad, fell) /\ SameButSlots(y, r)
    BY <2>16, ReleaseSound
  <2> HIDE DEF r
  <2>21. Active(r, n, bad, fell) /\ Stays(x, r, fell)
    BY <2>17, <2>18, <2>20, StillActive, StaysOn
  <2>22. CASE AllChunksDone(y.done, Total)
    <3>1. AllChunksDone(r.done, Total)
      BY <2>20, <2>22 DEF SameButSlots
    <3>2. Good(Finalize(r), n, bad, fell) /\ Stays(r, Finalize(r), fell)
      BY <2>21, <3>1, FinalizeGood
    <3>3. out = Finalize(r)
      BY <1>2, <1>4, <2>22 DEF r, s
    <3> QED BY <2>21, <3>2, <3>3, StaysOn
  <2>23. CASE ~AllChunksDone(y.done, Total) /\ s.keep /\ next # <<>>
    <3> DEFINE k == Few(Eligibles(y, i), 1)
               q == Request(y, i, next[1], TRUE, s.wire)
    <3>1. Choices(y, i, next, k)
      BY <1>1, <2>16, SelectSound
    <3> HIDE DEF next, k
    <3>2. k \in Nat /\ next \in [1..k -> Ranges]
      BY <3>1 DEF Choices
    <3>3. k # 0
      BY <2>23, <3>2
    <3>4. 1 \in 1..k
      BY <3>2, <3>3
    <3>5. /\ next[1] \in Ranges /\ next[1].start <= next[1].end /\ next[1].end < Total
          /\ \A j \in Slots \ {i} : InUse(y, j) => ~Overlap(next[1], Extent(y.slots[j]))
      BY <3>1, <3>4 DEF Choices
    <3>6. s.wire \in {0}
      BY <2>7, <2>23
    <3>7. Sound(q, bad, fell) /\ SameButSlots(y, q) /\ InUse(q, i)
      BY <2>16, <2>19, <3>5, <3>6, RequestSound
    <3> HIDE DEF q
    <3>8. Active(q, n, bad, fell) /\ Stays(y, q, fell)
      BY <2>17, <3>7, StillActive
    <3>9. Good(q, n, bad, fell)
      BY <3>7, <3>8, ActiveIsGood
    <3>10. out = q
      BY <1>2, <1>4, <2>23 DEF q, s
    <3> QED BY <2>18, <3>8, <3>9, <3>10, StaysOn
  <2>24. CASE ~AllChunksDone(y.done, Total) /\ ~(s.keep /\ next # <<>>)
    <3>1. out = [r EXCEPT !.deferred = TRUE]
      BY <1>2, <1>4, <2>24 DEF r, s
    <3>2. Good(out, n, bad, fell) /\ Stays(r, out, fell)
      BY <2>21, <3>1, DeferGood
    <3> QED BY <2>21, <3>2, StaysOn
  <2> QED BY <2>22, <2>23, <2>24
<1> QED BY <1>3, <1>4

LEMMA FinishOrScheduleGood ==
    ASSUME NEW x, NEW n \in Nat, NEW bad, NEW fell, Active(x, n, bad, fell)
    PROVE  /\ Good(FinishOrSchedule(x), n, bad, fell)
           /\ Stays(x, FinishOrSchedule(x), fell)
<1>1. CASE AllChunksDone(x.done, Total)
  <2>1. FinishOrSchedule(x) = Finalize(x)
    BY <1>1 DEF FinishOrSchedule
  <2> QED BY <1>1, <2>1, FinalizeGood
<1>2. CASE ~AllChunksDone(x.done, Total)
  <2>1. FinishOrSchedule(x) = [x EXCEPT !.deferred = TRUE]
    BY <1>2 DEF FinishOrSchedule
  <2> QED BY <2>1, DeferGood
<1> QED BY <1>1, <1>2

(* on_connection_closed, for the connection of a slot *)
LEMMA ConnectionClosedGood ==
    ASSUME NEW x, NEW n \in Nat, NEW bad, NEW fell, Active(x, n, bad, fell),
           NEW i \in Slots, InUse(x, i), NEW now
    PROVE  /\ Good(ConnectionClosed(x, i, now), n, bad, fell)
           /\ Stays(x, ConnectionClosed(x, i, now), fell)
<1> DEFINE s == x.slots[i]
           last == s.start + s.received - 1
           r == Release(x, i)
           after == MarkSegmentDone(x, i)
           f == Release(after, i)
           y == Throttled(f, now)
           out == ConnectionClosed(x, i, now)
<1>1. Sound(x, bad, fell) /\ x.run = "running" /\ x.status # "completed"
  BY DEF Active
<1>2. \/ s.received = 0 /\ out = NoteFailure(r)
      \/ AllChunksDone(x.done, Total) /\ out = Finalize(r)
      \/ out = FinishOrSchedule(r)
      \/ s.received # 0 /\ out = FinishOrSchedule(y)
  BY DEF ConnectionClosed
<1>3. Sound(r, bad, fell) /\ SameButSlots(x, r)
  BY <1>1, ReleaseSound
<1> HIDE DEF s, r, y, out
<1>4. Active(r, n, bad, fell) /\ Stays(x, r, fell)
  BY <1>3, StillActive
<1>5. CASE out = NoteFailure(r)
  BY <1>4, <1>5, NoteFailureGood, StaysOn DEF out
<1>6. CASE AllChunksDone(x.done, Total) /\ out = Finalize(r)
  <2>1. AllChunksDone(r.done, Total)
    BY <1>3, <1>6 DEF SameButSlots
  <2>2. Good(Finalize(r), n, bad, fell) /\ Stays(r, Finalize(r), fell)
    BY <1>4, <2>1, FinalizeGood
  <2> QED BY <1>4, <1>6, <2>2, StaysOn DEF out
<1>7. CASE out = FinishOrSchedule(r)
  BY <1>4, <1>7, FinishOrScheduleGood, StaysOn DEF out
<1>8. CASE s.received # 0 /\ out = FinishOrSchedule(y)
  <2>1. /\ Keeps(x, after) /\ Sound(after, bad, fell) /\ after.status = x.status
        /\ Stays(x, after, fell)
    BY <1>1, <1>8, MarkSegmentKeeps DEF s
  <2> HIDE DEF after
  <2>2. Active(after, n, bad, fell)
    BY <1>1, <2>1, StillActive
  <2>3. Sound(f, bad, fell) /\ SameButSlots(after, f)
    BY <2>1, ReleaseSound
  <2> HIDE DEF f
  <2>4. Active(f, n, bad, fell) /\ Stays(x, f, fell) /\ f.run # "none" /\ f.status # "completed"
    BY <2>1, <2>2, <2>3, StillActive, StaysOn DEF Active
  <2>5. /\ Keeps(f, y) /\ Sound(y, bad, fell) /\ y.status \in {f.status, "downloading"}
        /\ Stays(f, y, fell)
    BY <2>3, <2>4, ThrottledKeeps DEF y
  <2>6. Active(y, n, bad, fell) /\ Stays(x, y, fell)
    BY <2>4, <2>5, StillActive, StaysOn
  <2> QED BY <1>8, <2>6, FinishOrScheduleGood, StaysOn DEF out
<1> QED BY <1>2, <1>5, <1>6, <1>7, <1>8

-----------------------------------------------------------------------------
(* The free slots are given the segments selected. *)

FreeSlots(x) == {i \in Slots : ~InUse(x, i)}

(* What one round of the loop of schedule_pending_chunks does. *)
Asked(y, free, sel, n) == Request(y, free[n], sel[n], TRUE, 0)

(* A slot in use was in use, or has been given one of the first n ranges. *)
Given(x, y, sel, n) ==
    \A j \in Slots : InUse(y, j) =>
        \/ InUse(x, j) /\ y.slots[j] = x.slots[j]
        \/ \E k \in 1..n : Extent(y.slots[j]) = sel[k]

LEMMA AskedSound ==
    ASSUME NEW x, NEW y, NEW bad, NEW fell, Sound(y, bad, fell), y.step = "chunk",
           NEW m \in Nat, NEW sel, Choices(x, 0, sel, m), NEW n \in 1..m,
           NEW free, free[n] \in Slots, SameButSlots(x, y), y.temp = x.temp,
           Given(x, y, sel, n - 1)
    PROVE  /\ Sound(Asked(y, free, sel, n), bad, fell)
           /\ SameButSlots(x, Asked(y, free, sel, n)) /\ Asked(y, free, sel, n).temp = x.temp
           /\ Given(x, Asked(y, free, sel, n), sel, n)
           /\ InUse(Asked(y, free, sel, n), free[n])
<1> DEFINE i == free[n]
           range == sel[n]
           z == Asked(y, free, sel, n)
<1>1. /\ range \in Ranges /\ range.start <= range.end /\ range.end < Total
      /\ \A j \in Slots : InUse(x, j) => ~Overlap(range, Extent(x.slots[j]))
      /\ \A k \in 1..(n - 1) : k \in 1..m /\ ~Overlap(range, sel[k])
  <2>1. \A j \in Slots : j # 0
    BY Sizes
  <2>2. \A k \in 1..(n - 1) : k \in 1..m /\ k # n
    OBVIOUS
  <2> QED BY <2>1, <2>2 DEF Choices
<1>2. i \in Slots
  OBVIOUS
<1>3. z = Request(y, i, range, TRUE, 0)
  BY DEF Asked
<1> HIDE DEF i, range, z
<1>4. ASSUME NEW j \in Slots \ {i}, InUse(y, j) PROVE ~Overlap(range, Extent(y.slots[j]))
  <2>1. CASE InUse(x, j) /\ y.slots[j] = x.slots[j]
    BY <1>1, <2>1
  <2>2. CASE \E k \in 1..(n - 1) : Extent(y.slots[j]) = sel[k]
    BY <1>1, <2>2
  <2> QED BY <1>4, <2>1, <2>2 DEF Given
<1>5. /\ Sound(z, bad, fell) /\ SameButSlots(y, z) /\ z.temp = y.temp
      /\ InUse(z, i) /\ Extent(z.slots[i]) = range
      /\ \A j \in Slots \ {i} : z.slots[j] = y.slots[j]
  <2>1. PICK keep \in BOOLEAN, wire \in {0} : z = Request(y, i, range, keep, wire)
    BY <1>3
  <2>2. range \in Ranges /\ range.start <= range.end /\ range.end < Total
    BY <1>1
  <2>3. \A j \in Slots \ {i} : InUse(y, j) => ~Overlap(range, Extent(y.slots[j]))
    BY <1>4
  <2> QED BY <1>2, <2>1, <2>2, <2>3, RequestSound
<1>6. SameButSlots(x, z) /\ z.temp = x.temp
  BY <1>5 DEF SameButSlots
<1>7. Given(x, z, sel, n)
  <2> SUFFICES ASSUME NEW j \in Slots, InUse(z, j)
               PROVE  \/ InUse(x, j) /\ z.slots[j] = x.slots[j]
                      \/ \E k \in 1..n : Extent(z.slots[j]) = sel[k]
    BY DEF Given
  <2>1. CASE j = i
    BY <1>5, <2>1 DEF range
  <2>2. CASE j # i
    <3>1. z.slots[j] = y.slots[j] /\ InUse(y, j)
      BY <1>5, <2>2 DEF InUse
    <3>2. \A k \in 1..(n - 1) : k \in 1..n
      OBVIOUS
    <3> QED BY <3>1, <3>2 DEF Given
  <2> QED BY <2>1, <2>2
<1> QED BY <1>5, <1>6, <1>7 DEF z, i

LEMMA SlotsCount ==
    Slots \in SUBSET Nat /\ IsFiniteSet(Slots) /\ Cardinality(Slots) = Concurrency
<1>1. \A n \in Nat : IsFiniteSet(1..n) /\ Cardinality(1..n) = n
  BY FS_Interval
<1> QED BY <1>1, Sizes

LEMMA ConnectSound ==
    ASSUME NEW x, NEW bad, NEW fell, Sound(x, bad, fell), x.step = "chunk",
           NEW m \in Nat, NEW sel, Choices(x, 0, sel, m), Len(sel) = m,
           m <= Cardinality(FreeSlots(x))
    PROVE  /\ Sound(Connect(x, sel), bad, fell)
           /\ SameButSlots(x, Connect(x, sel))
           /\ m = 0 => Connect(x, sel) = x
           /\ m > 0 => \E i \in Slots : InUse(Connect(x, sel), i)
<1> DEFINE free == Ascending(FreeSlots(x), Concurrency)
           Step(f) == [n \in 0..Len(sel) |->
                         IF n = 0 THEN x ELSE Request(f[n - 1], free[n], sel[n], TRUE, 0)]
           connected == CHOOSE f : f = Step(f)
<1>1. Connect(x, sel) = connected[Len(sel)]
  BY DEF Connect, FreeSlots
<1>2. \A f : Step(f) = [n \in 0..m |-> IF n = 0 THEN x ELSE Asked(f[n - 1], free, sel, n)]
  BY DEF Asked
<1>3. x \in LooseJob
  BY DEF Sound
<1>4. \A n \in 1..m : free[n] \in Slots
  <2>1. Slots \in SUBSET Nat /\ IsFiniteSet(Slots) /\ Cardinality(Slots) = Concurrency
    BY SlotsCount
  <2>2. FreeSlots(x) \in SUBSET Slots
    BY DEF FreeSlots
  <2>3. IsFiniteSet(FreeSlots(x)) /\ Cardinality(FreeSlots(x)) <= Concurrency
        /\ Cardinality(FreeSlots(x)) \in Nat
    BY <2>1, <2>2, FS_Subset, FS_CardinalityType
  <2>4. free \in [1..Few(FreeSlots(x), Concurrency) -> FreeSlots(x)]
    <3>1. FreeSlots(x) \in SUBSET Nat
      BY <2>1, <2>2
    <3> QED BY <2>3, <3>1, Sizes, AscendingProperties
  <2>5. Few(FreeSlots(x), Concurrency) = Cardinality(FreeSlots(x))
    BY <2>3, Sizes DEF Few
  <2> HIDE DEF free
  <2>6. \A n \in 1..m : n \in 1..Cardinality(FreeSlots(x))
    BY <2>3
  <2> QED BY <2>2, <2>4, <2>5, <2>6
<1> HIDE DEF free
<1>5. \E f : f = Step(f)
  <2> DEFINE F == [n \in 1..m |-> [y \in LooseJob |-> Asked(y, free, sel, n)]]
  <2>1. ASSUME NEW n \in 1..m, NEW y \in LooseJob PROVE Asked(y, free, sel, n) \in LooseJob
    <3> DEFINE s == [FreeSlot EXCEPT !.phase = "sent", !.start = sel[n].start,
                                     !.end = sel[n].end, !.keep = TRUE, !.wire = 0]
    <3>1. sel[n] \in Ranges /\ sel[n].start <= sel[n].end /\ sel[n].end < Total
      BY DEF Choices
    <3>2. sel[n].start \in File /\ sel[n].end \in File /\ 0 \in 0..Total
      BY <3>1, Sizes DEF Ranges, File
    <3>3. FreeSlot \in Slot
      BY FreeSlotSound
    <3>4. s \in Slot
      <4> HIDE DEF FreeSlot
      <4> QED BY <3>2, <3>3 DEF Slot
    <3>5. Asked(y, free, sel, n) = [y EXCEPT !.slots = [y.slots EXCEPT ![free[n]] = s]]
      BY DEF Asked, Request
    <3> HIDE DEF s
    <3>6. [y.slots EXCEPT ![free[n]] = s] \in [Slots -> Slot]
      BY <1>4, <3>4 DEF LooseJob
    <3> QED BY <3>5, <3>6 DEF LooseJob
  <2>2. F \in [1..m -> [LooseJob -> LooseJob]]
    BY <2>1
  <2> HIDE DEF F
  <2>3. PICK g : IsLoop(g, m, LooseJob, x, F)
    BY <1>3, <2>2, LoopExists
  <2>4. ASSUME NEW n \in 0..m
        PROVE  g[n] = IF n = 0 THEN x ELSE Asked(g[n - 1], free, sel, n)
    <3>1. n # 0 => n \in 1..m /\ n - 1 \in 0..m
      OBVIOUS
    <3> QED BY <2>3, <3>1 DEF F, IsLoop
  <2>5. g = Step(g)
    <3> HIDE DEF Step
    <3> QED BY <1>2, <2>3, <2>4 DEF IsLoop
  <2> QED BY <2>5
<1>6. connected = Step(connected)
  <2> HIDE DEF Step
  <2> QED BY <1>5, Zenon
<1> HIDE DEF connected
<1>7. \A n \in 0..m : connected[n] = IF n = 0 THEN x ELSE Asked(connected[n - 1], free, sel, n)
  <2> HIDE DEF Step
  <2> QED BY <1>2, <1>6
<1> DEFINE Holds(y, n) == /\ Sound(y, bad, fell) /\ SameButSlots(x, y) /\ y.temp = x.temp
                          /\ Given(x, y, sel, n)
                          /\ n # 0 => InUse(y, free[n])
           Fails == {n \in 0..m : ~Holds(connected[n], n)}
<1>8. Fails = {}
  <2>1. ASSUME NEW n \in Fails PROVE n # 0 /\ n - 1 \in Fails
    <3>1. Holds(x, 0)
      BY DEF Given, SameButSlots
    <3>2. n # 0
      BY <1>7, <3>1
    <3>3. n \in 1..m /\ n - 1 \in 0..m
      BY <3>2
    <3>4. connected[n] = Asked(connected[n - 1], free, sel, n)
      BY <1>7, <3>2
    <3>5. SUFFICES ASSUME Holds(connected[n - 1], n - 1) PROVE Holds(connected[n], n)
      BY <3>2, <3>3
    <3>6. connected[n - 1].step = "chunk"
      BY <3>5 DEF SameButSlots
    <3> QED BY <1>4, <3>2, <3>3, <3>4, <3>5, <3>6, AskedSound
  <2>2. Fails \in SUBSET (0..m)
    OBVIOUS
  <2> HIDE DEF Fails
  <2> QED BY <2>1, <2>2, NoFirstFailure
<1>9. Holds(connected[m], m)
  BY <1>8
<1>10. m = 0 => connected[m] = x
  BY <1>7
<1> QED BY <1>1, <1>4, <1>9, <1>10

(* With no connection at work, a file with a byte missing has a segment to  *)
(* ask for.                                                                 *)
LEMMA MissingSegment ==
    ASSUME NEW x, NEW bad, NEW fell, Sound(x, bad, fell), Bytes(x.done) # File,
           \A i \in Slots : ~InUse(x, i)
    PROVE  Eligibles(x, 0) # {}
<1>1. Bytes(x.done) \subseteq File /\ x \in LooseJob
  BY DEF Sound, RangesSound
<1>2. PICK b \in File : b \notin Bytes(x.done)
  BY <1>1
<1>3. PICK i \in 0..((Total - 1) \div Chunk) :
        /\ SegmentRange(Total, Chunk, i).start <= b
        /\ b <= SegmentRange(Total, Chunk, i).end
  BY Sizes, SegmentsCover DEF File
<1>4. SegmentRange(Total, Chunk, i).start \in Nat /\ SegmentRange(Total, Chunk, i).end \in Nat
  BY Sizes, SegmentInside
<1>5. b \in Missing(Total, Chunk, i)
  <2>1. b \in Nat
    BY Sizes DEF File
  <2> QED BY <1>3, <1>4, <2>1 DEF Missing
<1>6. InFlight(x, 0) = {}
  BY DEF InFlight
<1>7. i \in Eligibles(x, 0)
  BY <1>2, <1>5, <1>6 DEF Eligibles, Eligible
<1> QED BY <1>7

(* schedule_pending_chunks: it finishes a whole file, and otherwise leaves  *)
(* a connection at work.                                                    *)
LEMMA SchedulePendingChunksGood ==
    ASSUME NEW x, NEW n \in Nat, NEW bad, NEW fell, Active(x, n, bad, fell), x.step = "chunk"
    PROVE  /\ Good(SchedulePendingChunks(x), n, bad, fell)
           /\ Stays(x, SchedulePendingChunks(x), fell)
<1> DEFINE Used == {i \in Slots : InUse(x, i)}
           active == Cardinality(Used)
           max == Concurrency - active
           sel == Select(x, 0, max)
           E == Eligibles(x, 0)
           m == Few(E, max)
           out == SchedulePendingChunks(x)
<1>1. out = IF AllChunksDone(x.done, Total) THEN Finalize(x)
            ELSE IF active >= Concurrency THEN x ELSE Connect(x, sel)
  BY DEF SchedulePendingChunks
<1>2. Sound(x, bad, fell)
  BY DEF Active
<1>3. /\ IsFiniteSet(Used) /\ active \in Nat
      /\ IsFiniteSet(FreeSlots(x)) /\ Cardinality(FreeSlots(x)) \in Nat
      /\ Concurrency = active + Cardinality(FreeSlots(x))
  <2>1. /\ Used \in SUBSET Slots /\ FreeSlots(x) \in SUBSET Slots
        /\ Slots = Used \cup FreeSlots(x) /\ Used \cap FreeSlots(x) = {}
    BY DEF FreeSlots
  <2> HIDE DEF Used
  <2>2. IsFiniteSet(Used) /\ IsFiniteSet(FreeSlots(x))
    BY <2>1, SlotsCount, FS_Subset
  <2>3. Cardinality(Used) \in Nat /\ Cardinality(FreeSlots(x)) \in Nat
    BY <2>2, FS_CardinalityType
  <2>4. Cardinality(Slots) = Cardinality(Used) + Cardinality(FreeSlots(x)) - Cardinality({})
    BY <2>1, <2>2, FS_Union
  <2> QED BY <2>2, <2>3, <2>4, FS_EmptySet, SlotsCount
<1>4. Used = {} <=> \A i \in Slots : ~InUse(x, i)
  OBVIOUS
<1>5. active = 0 <=> Used = {}
  <2> HIDE DEF Used
  <2> QED BY <1>3, FS_EmptySet
<1> HIDE DEF Used, active, out
<1>6. CASE AllChunksDone(x.done, Total)
  BY <1>1, <1>6, FinalizeGood DEF out
<1>7. CASE ~AllChunksDone(x.done, Total) /\ active >= Concurrency
  <2>1. out = x
    BY <1>1, <1>7
  <2>2. \E i \in Slots : InUse(x, i)
    BY <1>3, <1>4, <1>5, <1>7, Sizes, SizesAssumption
  <2> QED BY <2>1, <2>2, ActiveIsGood DEF out, Stays
<1>8. CASE ~AllChunksDone(x.done, Total) /\ ~(active >= Concurrency)
  <2>1. out = Connect(x, sel)
    BY <1>1, <1>8
  <2>2. max \in Nat /\ max # 0 /\ max = Cardinality(FreeSlots(x))
    BY <1>3, <1>8, Sizes
  <2>3. Choices(x, 0, sel, m) /\ IsFiniteSet(E)
    <3> HIDE DEF max
    <3> QED BY <1>2, <2>2, SelectSound
  <2> HIDE DEF sel, max, E, m
  <2>4. m \in Nat /\ sel \in [1..m -> Ranges]
    BY <2>3 DEF Choices
  <2>5. Len(sel) = m
    BY <2>4, FunctionIsSequence
  <2>6. m <= Cardinality(FreeSlots(x)) /\ (m = 0 => E = {})
    <3>1. Cardinality(E) \in Nat /\ (Cardinality(E) = 0 <=> E = {})
      BY <2>3, FS_CardinalityType, FS_EmptySet
    <3> QED BY <1>3, <2>2, <3>1 DEF m, Few
  <2>7. /\ Sound(Connect(x, sel), bad, fell) /\ SameButSlots(x, Connect(x, sel))
        /\ m = 0 => Connect(x, sel) = x
        /\ m > 0 => \E i \in Slots : InUse(Connect(x, sel), i)
    BY <1>2, <2>3, <2>4, <2>5, <2>6, ConnectSound
  <2>8. Active(out, n, bad, fell) /\ Stays(x, out, fell)
    BY <2>1, <2>7, StillActive
  <2>9. \E i \in Slots : InUse(out, i)
    <3>1. CASE m > 0
      BY <2>1, <2>7, <3>1
    <3>2. CASE m = 0
      <4>1. Bytes(x.done) # File
        BY <1>2, <1>8, AllDoneIsExact
      <4>2. E = {}
        BY <2>6, <3>2
      <4>3. \E i \in Slots : InUse(x, i)
        BY <1>2, <4>1, <4>2, MissingSegment DEF E
      <4> QED BY <2>1, <2>7, <3>2, <4>3
    <3> QED BY <2>4, <3>1, <3>2
  <2>10. Good(out, n, bad, fell)
    BY <2>8, <2>9, ActiveIsGood
  <2> QED BY <2>8, <2>10 DEF out
<1> QED BY <1>6, <1>7, <1>8

-----------------------------------------------------------------------------
(* The steps of the event loop, the writer and the process. *)

(* Nothing that Sound looks at is different, but for the end of the run. *)
Alike(x, y) ==
    /\ y \in LooseJob
    /\ y.done = x.done /\ y.slots = x.slots /\ y.broken = x.broken
    /\ y.temp = x.temp /\ y.os = x.os /\ y.saved = x.saved
    /\ y.step = x.step /\ y.stream = x.stream

LEMMA AlikeSound ==
    ASSUME NEW x, NEW y, NEW bad, NEW fell, Sound(x, bad, fell), Alike(x, y),
           x.run = "none" => y.run = "none"
    PROVE  Sound(y, bad, fell) /\ Stays(x, y, fell)
<1>1. SlotsSound(y) /\ RangesSound(y) /\ Modes(y) /\ (~bad => Written(y))
  BY DEF Alike, Sound, SlotsSound, Apart, InUse, RangesSound, Modes, Written
<1> QED BY <1>1 DEF Alike, Sound, Stays

LEMMA RunningIsActive ==
    ASSUME NEW n \in Nat, NEW bad, NEW fell, Good(d, n, bad, fell), Running
    PROVE  Active(d, n, bad, fell)
BY DEF Good, Settled, Errors, Active, Running

(* What a step establishes, from a job that is Good. *)
StepGood ==
    /\ Good(d', runs', diskFailed', fellBack')
    /\ Stays(d, d', fellBack')

Before == Good(d, runs, diskFailed, fellBack) /\ runs \in Nat

FreeSlots0 == [i \in Slots |-> FreeSlot]

LEMMA AllFree ==
    /\ FreeSlots0 \in [Slots -> Slot]
    /\ \A i \in Slots : FreeSlots0[i] = FreeSlot
    /\ FreeSlot.phase = "free" /\ SlotSound(FreeSlot)
BY FreeSlotSound DEF FreeSlots0

(* The size of the temp file. *)
LEMMA FileSizeInside ==
    ASSUME NEW bytes \in SUBSET File
    PROVE  FileSize(bytes) \in 0..Total
<1>1. CASE bytes = {}
  BY <1>1, Sizes DEF FileSize
<1>2. CASE bytes # {}
  <2> DEFINE T == {m \in Nat : m <= Total /\ Total - m \in bytes}
  <2>1. T \in SUBSET Nat /\ T # {}
    <3>1. PICK b \in bytes : TRUE
      BY <1>2
    <3>2. Total - b \in Nat /\ Total - b <= Total /\ Total - (Total - b) = b
      BY <3>1, Sizes DEF File
    <3>3. Total - b \in T
      BY <3>1, <3>2
    <3> QED BY <3>3
  <2>2. PICK m \in T : \A k \in T : m <= k
    <3> HIDE DEF T
    <3> QED BY <2>1, SmallestProperties
  <2>3. Total - m \in bytes /\ \A b \in bytes : b <= Total - m
    <3>1. ASSUME NEW b \in bytes PROVE b <= Total - m
      <4>1. b \in Nat /\ b < Total /\ Total - b \in Nat /\ Total - b <= Total
            /\ Total - (Total - b) = b
        BY Sizes DEF File
      <4>2. Total - b \in T
        BY <4>1
      <4>3. m \in Nat /\ m <= Total - b
        BY <2>2, <4>2
      <4> QED BY <4>1, <4>3, Sizes
    <3> QED BY <3>1
  <2>4. Largest(bytes) = Total - m
    <3>1. bytes \in SUBSET Int
      BY Sizes DEF File
    <3> QED BY <2>3, <3>1, LargestIs
  <2> QED BY <1>2, <2>3, <2>4, Sizes DEF FileSize, File
<1> QED BY <1>1, <1>2

(* download_run *)
LEMMA StartGood == Before /\ Start => StepGood
<1> SUFFICES ASSUME Before, Start PROVE StepGood
  OBVIOUS
<1> DEFINE bad == diskFailed
           fell == fellBack
           whole == AllChunksDone(d.saved, Total)
           size == IF whole THEN FileSize(d.os) ELSE 0
           y == d'
<1>1. /\ Sound(d, bad, fell) /\ d \in LooseJob /\ d.run = "none" /\ d.status # "completed"
      /\ \A i \in Slots : ~InUse(d, i)
      /\ d.errors \in Nat /\ d.errors <= MaxRetries + runs /\ runs \in Nat
  BY DEF Before, Good, Sound, Settled, Errors, Start, LooseJob
<1>2. /\ runs' = runs + 1 /\ fellBack' = fell /\ diskFailed' = bad
  BY DEF Start
<1>3. /\ d.saved \in Seq(Ranges) /\ Canonical(d.saved) /\ Bytes(d.saved) \subseteq File
      /\ d.os \in SUBSET File
  BY <1>1 DEF Sound, RangesSound, LooseJob
<1>4. LoadDoneRanges(d.saved, Total) = d.saved
  <2>1. \A b \in Bytes(d.saved) : b < Total
    BY <1>3, Sizes DEF File
  <2> QED BY <1>3, <2>1, Sizes, LoadIsExact
<1>5. size \in 0..Total
  BY <1>3, FileSizeInside, Sizes
<1>6. d' = [d EXCEPT !.run = "running", !.status = "downloading",
                     !.done = LoadDoneRanges(d.saved, Total),
                     !.step = IF whole THEN "stream" ELSE "chunk",
                     !.stream = [NoStream EXCEPT !.received = size],
                     !.deferred = TRUE]
  BY DEF Start
<1>7. [NoStream EXCEPT !.received = size] = [phase |-> "idle", received |-> size, wire |-> 0]
  BY DEF NoStream
<1>8. whole <=> Bytes(d.saved) = File
  BY <1>3, WholeIsExact
<1> HIDE DEF size, whole, y
<1>9. [NoStream EXCEPT !.received = size] \in Stream
  BY <1>5, <1>7, Sizes DEF Stream
<1>10. /\ y \in LooseJob
       /\ y.done = d.saved /\ y.slots = d.slots /\ y.broken = d.broken
       /\ y.temp = d.temp /\ y.os = d.os /\ y.saved = d.saved
       /\ y.step = (IF whole THEN "stream" ELSE "chunk")
       /\ y.stream = [NoStream EXCEPT !.received = size]
       /\ y.run = "running" /\ y.status = "downloading" /\ y.deferred = TRUE
       /\ y.errors = d.errors
  BY <1>1, <1>3, <1>4, <1>6, <1>9 DEF LooseJob, y
<1>11. /\ y.stream.phase = "idle" /\ y.stream.received = size /\ y.stream.wire = 0
  BY <1>7, <1>10
<1>12. \A i \in Slots : ~InUse(y, i)
  BY <1>1, <1>10 DEF InUse
<1>13. SlotsSound(y) /\ RangesSound(y)
  BY <1>1, <1>3, <1>10 DEF Sound, SlotsSound, Apart, InUse, RangesSound
<1>14. ~bad => Written(y)
  BY <1>1, <1>10, <1>12 DEF Sound, Written
<1>15. Modes(y)
  BY <1>5, <1>11, <1>12, Sizes DEF Modes
<1>16. Sound(y, bad, fell)
  BY <1>8, <1>10, <1>13, <1>14, <1>15 DEF Sound
<1>17. PICK n \in Nat : n = runs + 1
  BY <1>1
<1>18. Active(y, n, bad, fell)
  BY <1>1, <1>10, <1>16, <1>17, Sizes DEF Active
<1>19. Good(y, n, bad, fell)
  BY <1>10, <1>18, ActiveIsGood
<1> QED BY <1>2, <1>10, <1>17, <1>19 DEF StepGood, Stays, y

LEMMA NoHistoryStep ==
    ASSUME NoHistory, NEW y, d' = y, Good(y, runs, diskFailed, fellBack), Stays(d, y, fellBack)
    PROVE  StepGood
BY DEF NoHistory, StepGood

(* A job that ends, and is neither the first to complete nor running. *)
LEMMA EndedGood ==
    ASSUME NEW x, NEW y, NEW n \in Nat, NEW bad, NEW fell, Sound(x, bad, fell), Alike(x, y),
           x.run # "none", y.run \in {"ended", "failed"}, y.status # "completed",
           y.errors <= MaxRetries + n
    PROVE  Good(y, n, bad, fell) /\ Stays(x, y, fell)
BY AlikeSound, FailedIsGood

(* schedule_next *)
LEMMA ScheduleNextGood == Before /\ ScheduleNext => StepGood
<1> SUFFICES ASSUME Before, ScheduleNext PROVE StepGood
  OBVIOUS
<1> DEFINE bad == diskFailed
           fell == fellBack
           x == [d EXCEPT !.deferred = FALSE]
<1>1. Active(d, runs, bad, fell) /\ runs \in Nat /\ d.deferred /\ NoHistory
  BY RunningIsActive DEF Before, ScheduleNext
<1>2. Sound(d, bad, fell) /\ d \in LooseJob /\ d.run = "running"
  BY <1>1 DEF Active, Sound
<1>3. \/ x.step = "chunk" /\ d' = SchedulePendingChunks(x)
      \/ x.step # "chunk" /\ d' = [x EXCEPT !.stream.phase = "sent"]
      \/ d' = SetError(x)
  BY DEF ScheduleNext
<1>4. Alike(d, x) /\ x.run = d.run /\ x.status = d.status /\ x.errors = d.errors
  BY <1>2 DEF Alike, LooseJob
<1> HIDE DEF x
<1>5. Sound(x, bad, fell) /\ Stays(d, x, fell)
  BY <1>2, <1>4, AlikeSound
<1>6. Active(x, runs, bad, fell) /\ x \in LooseJob
  BY <1>1, <1>4, <1>5 DEF Active, Sound
<1>7. CASE x.step = "chunk" /\ d' = SchedulePendingChunks(x)
  <2>1. Good(d', runs, bad, fell) /\ Stays(x, d', fell)
    BY <1>1, <1>6, <1>7, SchedulePendingChunksGood
  <2>2. Stays(d, d', fell)
    BY <1>5, <2>1, StaysOn
  <2> QED BY <1>1, <2>1, <2>2, NoHistoryStep
<1>8. CASE x.step # "chunk" /\ d' = [x EXCEPT !.stream.phase = "sent"]
  <2> DEFINE st == [x.stream EXCEPT !.phase = "sent"]
             y == [x EXCEPT !.stream = st]
  <2>1. d' = y
    BY <1>8
  <2>2. st \in Stream /\ st.phase = "sent" /\ st.received = x.stream.received
        /\ st.wire = x.stream.wire
    BY <1>6 DEF LooseJob, Stream
  <2> HIDE DEF st
  <2>3. /\ y \in LooseJob
        /\ y.done = x.done /\ y.slots = x.slots /\ y.broken = x.broken
        /\ y.temp = x.temp /\ y.os = x.os /\ y.saved = x.saved
        /\ y.step = x.step /\ y.stream = st /\ y.run = x.run /\ y.status = x.status
        /\ y.errors = x.errors /\ y.deferred = x.deferred
    BY <1>6, <2>2 DEF LooseJob
  <2> HIDE DEF y
  <2>4. SlotsSound(y) /\ RangesSound(y) /\ Modes(y) /\ (~bad => Written(y))
    BY <1>5, <1>8, <2>2, <2>3 DEF Sound, SlotsSound, Apart, InUse, RangesSound, Modes, Written
  <2>5. Sound(y, bad, fell)
    BY <1>5, <2>3, <2>4 DEF Sound
  <2>6. Active(y, runs, bad, fell) /\ y.stream.phase # "idle"
    BY <1>6, <2>2, <2>3, <2>5 DEF Active
  <2>7. Good(y, runs, bad, fell)
    BY <1>1, <2>6, ActiveIsGood
  <2>8. Stays(d, y, fell)
    BY <1>5, <2>3 DEF Stays
  <2> QED BY <1>1, <2>1, <2>7, <2>8, NoHistoryStep
<1>9. CASE d' = SetError(x)
  <2> DEFINE y == SetError(x)
  <2>1. x.run # "none"
    BY <1>6 DEF Active
  <2>2. /\ Sound(y, bad, fell) /\ y.run = "failed" /\ y.status = x.status
        /\ y.errors = x.errors /\ Stays(x, y, fell)
    BY <1>5, <2>1, SetErrorSound
  <2> HIDE DEF y
  <2>3. y.errors <= MaxRetries + runs /\ y.status # "completed"
    <3>1. y.errors \in Nat
      BY <2>2 DEF Sound, LooseJob
    <3> QED BY <1>1, <1>6, <2>2, <3>1, Sizes DEF Active
  <2>4. Good(y, runs, bad, fell)
    BY <1>1, <2>2, <2>3, FailedIsGood
  <2>5. Stays(d, y, fell)
    BY <1>5, <2>2, StaysOn
  <2> QED BY <1>1, <1>9, <2>4, <2>5, NoHistoryStep DEF y
<1> QED BY <1>3, <1>7, <1>8, <1>9

(* cancel_requested and pause_requested *)
LEMMA StopOrPauseGood ==
    ASSUME NEW status \in {"stopped", "paused"}, Before, StopOrPause(status)
    PROVE  StepGood
<1> DEFINE bad == diskFailed
           fell == fellBack
           u == Upsert(d, status)
           y == [u EXCEPT !.run = "ended"]
<1>1. Active(d, runs, bad, fell) /\ runs \in Nat /\ d' = y /\ NoHistory
  BY RunningIsActive DEF Before, StopOrPause
<1>2. Sound(d, bad, fell) /\ d.run = "running" /\ d.errors < MaxRetries + runs
  BY <1>1 DEF Active
<1>3. Keeps(d, u) /\ Sound(u, bad, fell) /\ u.status = status /\ Stays(d, u, fell)
  BY <1>2, UpsertKeeps
<1> HIDE DEF u
<1>4. u \in LooseJob /\ u.errors \in Nat /\ u.errors = d.errors /\ u.run = "running"
  BY <1>2, <1>3 DEF Sound, LooseJob, Keeps
<1>5. Alike(u, y) /\ y.run = "ended" /\ y.status = u.status /\ y.errors = u.errors
  BY <1>4 DEF Alike, LooseJob
<1> HIDE DEF y
<1>6. y.errors <= MaxRetries + runs
  BY <1>1, <1>2, <1>4, <1>5, Sizes
<1>7. Good(y, runs, bad, fell) /\ Stays(u, y, fell)
  BY <1>1, <1>3, <1>4, <1>5, <1>6, EndedGood
<1>8. Stays(d, y, fell)
  BY <1>3, <1>7, StaysOn
<1> QED BY <1>1, <1>7, <1>8, NoHistoryStep

(* What is left of a job when it has been freed, or its process has died. *)
LEMMA GoneGood ==
    ASSUME NEW x, NEW y, NEW n \in Nat, NEW bad, NEW fell, Good(x, n, bad, fell),
           y = [x EXCEPT !.run = "none", !.slots = FreeSlots0, !.stream = NoStream,
                         !.deferred = FALSE, !.done = <<>>]
    PROVE  Good(y, n, bad, fell) /\ Stays(x, y, fell)
<1>1. Sound(x, bad, fell) /\ x \in LooseJob /\ x.errors <= MaxRetries + n
  BY DEF Good, Sound, Errors
<1>2. NoStream \in Stream /\ NoStream.phase = "idle"
      /\ NoStream.received = 0 /\ NoStream.wire = 0
  <2>1. 0 \in 0..Total
    BY Sizes
  <2> QED BY <2>1 DEF NoStream, Stream
<1>3. /\ <<>> \in Seq(Ranges) /\ Canonical(<<>>)
      /\ Bytes(<<>>) \subseteq File /\ \A S : Bytes(<<>>) \subseteq S
  BY DEF Canonical, Bytes
<1> HIDE DEF NoStream
<1>4. /\ y \in LooseJob
      /\ y.run = "none" /\ y.slots = FreeSlots0 /\ y.stream = NoStream
      /\ y.deferred = FALSE /\ y.done = <<>>
      /\ y.step = x.step /\ y.errors = x.errors /\ y.temp = x.temp /\ y.os = x.os
      /\ y.synced = x.synced /\ y.broken = x.broken /\ y.saved = x.saved
      /\ y.status = x.status
  BY <1>1, <1>2, <1>3, AllFree DEF LooseJob
<1>5. \A i \in Slots : ~InUse(y, i) /\ SlotSound(y.slots[i])
  BY <1>4, AllFree DEF InUse
<1>6. SlotsSound(y) /\ Modes(y)
  BY <1>2, <1>4, <1>5, Sizes DEF SlotsSound, Apart, Modes
<1>7. RangesSound(y) /\ (~bad => Written(y))
  BY <1>1, <1>3, <1>4, <1>5 DEF Sound, RangesSound, Written
<1>8. Sound(y, bad, fell)
  BY <1>4, <1>6, <1>7 DEF Sound
<1>9. Settled(y, bad, fell) /\ Errors(y, n)
  BY <1>1, <1>2, <1>4, <1>5 DEF Good, Settled, Errors
<1> QED BY <1>4, <1>8, <1>9 DEF Good, Stays

(* job_free *)
LEMMA JobFreeGood == Before /\ JobFree => StepGood
<1> SUFFICES ASSUME Before, JobFree PROVE StepGood
  OBVIOUS
<1> DEFINE bad == diskFailed
           fell == fellBack
           x == CloseFile(d)
           y == [x EXCEPT !.run = "none", !.slots = FreeSlots0, !.stream = NoStream,
                          !.deferred = FALSE, !.done = <<>>]
<1>1. /\ Good(d, runs, bad, fell) /\ Sound(d, bad, fell) /\ runs \in Nat
      /\ NoHistory /\ d.run \in {"ended", "failed"} /\ d' = y
  BY DEF Before, Good, JobFree, FreeSlots0
<1>2. /\ Sound(x, bad, fell) /\ Closed(d, x)
      /\ ~bad => x.os = d.temp /\ x.temp = d.temp /\ x.synced = d.temp
  BY <1>1, CloseFileSound
<1> HIDE DEF x
<1>3. d.os \subseteq d.temp /\ d.temp \subseteq File
  BY <1>1 DEF Sound, RangesSound, LooseJob
<1>4. Settled(x, bad, fell) /\ Errors(x, runs)
  <2>1. ASSUME d.status = "completed", ~fell, ~bad PROVE x.os = File /\ x.synced = File
    <3>1. d.os = File
      BY <1>1, <2>1 DEF Good, Settled
    <3> QED BY <1>2, <1>3, <2>1, <3>1
  <2> QED BY <1>1, <1>2, <2>1 DEF Good, Settled, Errors, Closed
<1>5. Good(x, runs, bad, fell) /\ Stays(d, x, fell)
  BY <1>2, <1>4 DEF Good, Stays, Closed
<1>6. Good(y, runs, bad, fell) /\ Stays(x, y, fell)
  BY <1>1, <1>5, GoneGood
<1> HIDE DEF y
<1>7. Stays(d, y, fell)
  BY <1>5, <1>6, StaysOn
<1> QED BY <1>1, <1>6, <1>7, NoHistoryStep

(* The process dies, at any moment. *)
LEMMA CrashGood == Before /\ Crash => StepGood
<1> SUFFICES ASSUME Before, Crash PROVE StepGood
  OBVIOUS
<1> DEFINE bad == diskFailed
           fell == fellBack
           x == [d EXCEPT !.run = "none", !.slots = FreeSlots0, !.stream = NoStream,
                          !.deferred = FALSE, !.done = <<>>]
           y == [x EXCEPT !.temp = x.os, !.broken = FALSE]
<1>1. /\ Good(d, runs, bad, fell) /\ d \in LooseJob /\ runs \in Nat /\ NoHistory
  BY DEF Before, Good, Crash, Sound
<1>2. d' = y
  <2>1. d' = [d EXCEPT !.run = "none", !.slots = FreeSlots0, !.stream = NoStream,
                       !.deferred = FALSE, !.done = <<>>, !.temp = d.os, !.broken = FALSE]
    BY DEF Crash, FreeSlots0
  <2> QED BY <1>1, <2>1 DEF LooseJob
<1>3. Good(x, runs, bad, fell) /\ Stays(d, x, fell)
  BY <1>1, GoneGood
<1>4. /\ x.run = "none" /\ x.slots = FreeSlots0 /\ x.stream = NoStream
      /\ x.done = <<>>
  BY <1>1 DEF LooseJob
<1> HIDE DEF x
<1>5. Sound(x, bad, fell) /\ x \in LooseJob /\ Errors(x, runs)
  BY <1>3 DEF Good, Sound
<1>6. /\ y \in LooseJob /\ y.temp = x.os /\ y.broken = FALSE
      /\ y.run = x.run /\ y.slots = x.slots /\ y.stream = x.stream /\ y.done = x.done
      /\ y.step = x.step /\ y.errors = x.errors /\ y.os = x.os
      /\ y.synced = x.synced /\ y.saved = x.saved /\ y.status = x.status
  BY <1>5 DEF LooseJob
<1> HIDE DEF y
<1>7. \A i \in Slots : ~InUse(y, i)
  BY <1>4, <1>6, AllFree DEF InUse
<1>8. SlotsSound(y) /\ RangesSound(y) /\ Modes(y)
  BY <1>5, <1>6 DEF Sound, SlotsSound, Apart, InUse, RangesSound, Modes
<1>9. ~bad => Written(y)
  BY <1>5, <1>6, <1>7 DEF Sound, Written
<1>10. Sound(y, bad, fell)
  BY <1>4, <1>6, <1>8, <1>9 DEF Sound
<1>11. Settled(y, bad, fell) /\ Errors(y, runs)
  BY <1>3, <1>4, <1>5, <1>6, <1>7 DEF Good, Settled, Errors, InUse
<1>12. Good(y, runs, bad, fell) /\ Stays(d, y, fell)
  BY <1>3, <1>6, <1>10, <1>11 DEF Good, Stays
<1> QED BY <1>1, <1>2, <1>12, NoHistoryStep

(* The worker of the asynchronous file. *)
LEMMA WriterFlushGood == Before /\ WriterFlush => StepGood
<1> SUFFICES ASSUME Before, WriterFlush PROVE StepGood
  OBVIOUS
<1> DEFINE bad == diskFailed
           fell == fellBack
           y == [d EXCEPT !.os = d.temp]
<1>1. /\ Good(d, runs, bad, fell) /\ Sound(d, bad, fell) /\ d \in LooseJob
      /\ runs \in Nat /\ NoHistory /\ d' = y
  BY DEF Before, Good, WriterFlush, Sound
<1>2. /\ y \in LooseJob /\ y.os = d.temp /\ y.temp = d.temp /\ y.broken = d.broken
      /\ y.run = d.run /\ y.slots = d.slots /\ y.stream = d.stream /\ y.done = d.done
      /\ y.step = d.step /\ y.errors = d.errors /\ y.deferred = d.deferred
      /\ y.synced = d.synced /\ y.saved = d.saved /\ y.status = d.status
  BY <1>1 DEF LooseJob
<1> HIDE DEF y
<1>3. d.os \subseteq d.temp /\ d.temp \subseteq File
  BY <1>1 DEF Sound, RangesSound, LooseJob
<1>4. SlotsSound(y) /\ RangesSound(y) /\ Modes(y)
  BY <1>1, <1>2 DEF Sound, SlotsSound, Apart, InUse, RangesSound, Modes
<1>5. ~bad => Written(y)
  BY <1>1, <1>2, <1>3 DEF Sound, Written, InUse
<1>6. Sound(y, bad, fell)
  BY <1>1, <1>2, <1>4, <1>5 DEF Sound
<1>7. Settled(y, bad, fell) /\ Errors(y, runs)
  <2>1. ASSUME d.status = "completed", ~fell, ~bad PROVE y.os = File /\ y.synced = File
    <3>1. d.os = File /\ d.synced = File
      BY <1>1, <2>1 DEF Good, Settled
    <3> QED BY <1>2, <1>3, <3>1
  <2> QED BY <1>1, <1>2, <2>1 DEF Good, Settled, Errors, InUse
<1>8. Good(y, runs, bad, fell) /\ Stays(d, y, fell)
  BY <1>2, <1>6, <1>7 DEF Good, Stays
<1> QED BY <1>1, <1>8, NoHistoryStep

LEMMA WriterFailGood == Before /\ WriterFail => StepGood
<1> SUFFICES ASSUME Before, WriterFail PROVE StepGood
  OBVIOUS
<1> DEFINE fell == fellBack
           y == [d EXCEPT !.broken = TRUE]
<1>1. /\ Good(d, runs, diskFailed, fell) /\ Sound(d, diskFailed, fell) /\ d \in LooseJob
      /\ runs \in Nat /\ runs' = runs /\ fellBack' = fell /\ diskFailed' = TRUE /\ d' = y
  BY DEF Before, Good, WriterFail, Sound
<1>2. /\ y \in LooseJob /\ y.os = d.os /\ y.temp = d.temp
      /\ y.run = d.run /\ y.slots = d.slots /\ y.stream = d.stream /\ y.done = d.done
      /\ y.step = d.step /\ y.errors = d.errors /\ y.deferred = d.deferred
      /\ y.synced = d.synced /\ y.saved = d.saved /\ y.status = d.status
  BY <1>1 DEF LooseJob
<1> HIDE DEF y
<1>3. SlotsSound(y) /\ RangesSound(y) /\ Modes(y)
  BY <1>1, <1>2 DEF Sound, SlotsSound, Apart, InUse, RangesSound, Modes
<1>4. Sound(y, TRUE, fell)
  BY <1>1, <1>2, <1>3 DEF Sound
<1>5. Settled(y, TRUE, fell) /\ Errors(y, runs)
  BY <1>1, <1>2 DEF Good, Settled, Errors, InUse
<1> QED BY <1>1, <1>2, <1>4, <1>5 DEF StepGood, Good, Stays

-----------------------------------------------------------------------------
(* The steps of the connections of the segments. *)

(* A slot that keeps its range and what it has received. *)
LEMMA TweakSound ==
    ASSUME NEW x, NEW bad, NEW fell, Sound(x, bad, fell), NEW i \in Slots, InUse(x, i),
           NEW t \in Slot, t.phase \in {"streaming", "draining"},
           t.start = x.slots[i].start, t.end = x.slots[i].end,
           t.received = x.slots[i].received, t.keep => t.wire <= t.remaining
    PROVE  /\ Sound(WithSlot(x, i, t, x.temp), bad, fell)
           /\ SameButSlots(x, WithSlot(x, i, t, x.temp))
           /\ WithSlot(x, i, t, x.temp).slots[i] = t
           /\ InUse(WithSlot(x, i, t, x.temp), i)
<1>1. x \in LooseJob /\ x.temp \in SUBSET File /\ SlotSound(x.slots[i]) /\ x.step = "chunk"
  BY InUseChunk DEF Sound, LooseJob, SlotsSound
<1>2. SlotSound(t)
  BY <1>1 DEF SlotSound
<1>3. ASSUME ~bad PROVE Received(t) \subseteq x.temp
  BY <1>3 DEF Sound, Written, Received
<1>4. ASSUME NEW j \in Slots \ {i}, InUse(x, j) PROVE ~Overlap(Extent(t), Extent(x.slots[j]))
  BY <1>4 DEF Sound, SlotsSound, Apart, Extent
<1> DEFINE y == WithSlot(x, i, t, x.temp)
<1>5. Sound(y, bad, fell)
  BY <1>1, <1>2, <1>3, <1>4, WithSlotSound
<1>6. SameButSlots(x, y) /\ y.slots[i] = t
  BY <1>1, WithSlotFields
<1> HIDE DEF y
<1>7. InUse(y, i)
  BY <1>6 DEF InUse
<1> QED BY <1>5, <1>6, <1>7 DEF y

(* handle_response_headers, begin_chunk_body *)
LEMMA PartialContentGood ==
    ASSUME NEW i \in Slots, NEW k \in 0..Total, NEW keep \in BOOLEAN,
           Before, PartialContent(i, k, keep)
    PROVE  StepGood
<1> DEFINE bad == diskFailed
           fell == fellBack
           s == d.slots[i]
           left == Total - s.start
           t == [s EXCEPT !.phase = "streaming", !.keep = s.keep /\ keep,
                          !.remaining = left, !.wire = left - k]
           w == WithSlot(d, i, t, d.temp)
           x == [w EXCEPT !.errors = 0]
           y == WriteBody(x, i, k)
           u == Upsert(y, "downloading")
<1>1. /\ Active(d, runs, bad, fell) /\ runs \in Nat /\ NoHistory /\ s.phase = "sent"
      /\ k <= left
  BY RunningIsActive DEF Before, PartialContent
<1>2. Sound(d, bad, fell) /\ d.run = "running" /\ d.status # "completed" /\ d \in LooseJob
      /\ InUse(d, i) /\ s \in Slot
  BY <1>1, SlotFields DEF Active, Sound, InUse
<1>3. d' = IF y.run = "failed" THEN y ELSE u
  <2> DEFINE x1 == [d EXCEPT !.errors = 0, !.slots[i] = t]
  <2>1. d' = IF WriteBody(x1, i, k).run = "failed" THEN WriteBody(x1, i, k)
             ELSE Upsert(WriteBody(x1, i, k), "downloading")
    BY DEF PartialContent
  <2>2. x1 = x
    <3>1. w = [d EXCEPT !.slots[i] = t, !.temp = d.temp]
      BY DEF WithSlot
    <3> HIDE DEF t, w
    <3> QED BY <1>2, <3>1 DEF LooseJob
  <2> HIDE DEF x1, x
  <2> QED BY <2>1, <2>2
<1>4. s.start \in Nat /\ s.start < Total /\ left \in 0..Total /\ left - k \in 0..Total
  <2>1. s.start \in Nat /\ s.start < Total
    BY <1>2, SlotFields
  <2> HIDE DEF s
  <2> QED BY <1>1, <2>1, Sizes
<1>5. (s.keep /\ keep) \in BOOLEAN
  OBVIOUS
<1> HIDE DEF s, left
<1>6. /\ t \in Slot /\ t.phase = "streaming" /\ t.start = s.start /\ t.end = s.end
      /\ t.received = s.received /\ t.remaining = left /\ t.wire = left - k
  BY <1>2, <1>4, <1>5 DEF Slot
<1> HIDE DEF t
<1>7. t.wire <= t.remaining /\ t.wire + k <= t.remaining
  BY <1>4, <1>6, Sizes
<1>8. Sound(w, bad, fell) /\ SameButSlots(d, w) /\ w.slots[i] = t
  <2>1. /\ t.phase \in {"streaming", "draining"} /\ t.start = d.slots[i].start
        /\ t.end = d.slots[i].end /\ t.received = d.slots[i].received
        /\ (t.keep => t.wire <= t.remaining)
    BY <1>6, <1>7 DEF s
  <2>2. InUse(d, i) /\ t \in Slot /\ Sound(d, bad, fell)
    BY <1>2, <1>6
  <2> HIDE DEF bad, fell
  <2> QED BY <2>1, <2>2, TweakSound
<1> HIDE DEF w
<1>9. w \in LooseJob
  BY <1>8 DEF Sound
<1>10. /\ Alike(w, x) /\ x.run = w.run /\ x.status = w.status /\ x.errors = 0
       /\ x.slots = w.slots
  <2>1. 0 \in Nat
    OBVIOUS
  <2> QED BY <1>9, <2>1 DEF Alike, LooseJob
<1> HIDE DEF x
<1>11. Sound(x, bad, fell) /\ Stays(w, x, fell)
  BY <1>8, <1>10, AlikeSound
<1>12. Active(x, runs, bad, fell) /\ InUse(x, i) /\ Stays(d, x, fell)
  <2>1. 0 < MaxRetries + runs
    BY <1>1, Sizes
  <2> QED BY <1>2, <1>6, <1>8, <1>10, <1>11, <2>1 DEF Active, SameButSlots, InUse, Stays
<1>13. x.slots[i].wire + k <= x.slots[i].remaining /\ k \in Nat
  BY <1>7, <1>8, <1>10
<1>14. Sound(y, bad, fell) /\ Wrote(x, y, i)
  <2>1. x.run # "none"
    BY <1>12 DEF Active
  <2> QED BY <1>11, <1>12, <1>13, <2>1, WriteBodySound
<1> HIDE DEF y
<1>15. Stays(d, y, fell)
  BY <1>12, <1>14 DEF Stays, Wrote
<1>16. CASE y.run = "failed"
  <2>1. y.status # "completed" /\ y.errors <= MaxRetries + runs
    BY <1>1, <1>10, <1>12, <1>14, Sizes DEF Active, Wrote
  <2>2. Good(y, runs, bad, fell)
    BY <1>1, <1>14, <1>16, <2>1, FailedIsGood
  <2> QED BY <1>1, <1>3, <1>15, <1>16, <2>2, NoHistoryStep
<1>17. CASE y.run # "failed"
  <2>1. Active(y, runs, bad, fell) /\ InUse(y, i)
    BY <1>12, <1>14, <1>17 DEF Active, Wrote, InUse
  <2>2. /\ Keeps(y, u) /\ Sound(u, bad, fell) /\ u.status = "downloading" /\ Stays(y, u, fell)
    <3>1. y.run # "none"
      BY <2>1 DEF Active
    <3> QED BY <1>14, <3>1, UpsertKeeps
  <2> HIDE DEF u
  <2>3. Active(u, runs, bad, fell) /\ Stays(d, u, fell)
    BY <1>1, <1>15, <2>1, <2>2, StillActive, StaysOn
  <2>4. InUse(u, i)
    <3>1. y \in LooseJob /\ u \in LooseJob
      BY <1>14, <2>2 DEF Sound
    <3> QED BY <2>1, <2>2, <3>1, KeepsSlots
  <2>5. Good(u, runs, bad, fell)
    BY <1>1, <2>3, <2>4, ActiveIsGood
  <2> QED BY <1>1, <1>3, <1>17, <2>3, <2>5, NoHistoryStep
<1> QED BY <1>16, <1>17

(* disable_segment_mode *)
LEMMA FallBackGood ==
    ASSUME NEW i \in Slots, Before, FallBack(i)
    PROVE  StepGood
<1> DEFINE bad == diskFailed
           x == CloseFile(d)
           st == [NoStream EXCEPT !.received = FileSize(x.os)]
           y == [x EXCEPT !.step = "stream", !.done = <<>>, !.deferred = TRUE,
                          !.slots = FreeSlots0, !.stream = st]
<1>1. /\ Active(d, runs, bad, fellBack) /\ runs \in Nat /\ d' = y
      /\ runs' = runs /\ diskFailed' = bad /\ fellBack' = TRUE
  BY RunningIsActive DEF Before, FallBack, FreeSlots0
<1>2. Sound(d, bad, fellBack) /\ d.run = "running" /\ d.status # "completed"
      /\ d.errors < MaxRetries + runs
  BY <1>1 DEF Active
<1>3. /\ Sound(x, bad, fellBack) /\ Closed(d, x)
  BY <1>2, CloseFileSound
<1> HIDE DEF x
<1>4. x \in LooseJob /\ x.os \in SUBSET File
  BY <1>3 DEF Sound, LooseJob
<1>5. FileSize(x.os) \in 0..Total
  BY <1>4, FileSizeInside
<1>6. st \in Stream /\ st.phase = "idle" /\ st.received \in 0..Total /\ st.wire = 0
  <2>1. 0 \in 0..Total
    BY Sizes
  <2> QED BY <1>5, <2>1 DEF NoStream, Stream
<1>7. /\ <<>> \in Seq(Ranges) /\ Canonical(<<>>)
      /\ Bytes(<<>>) \subseteq File /\ \A S : Bytes(<<>>) \subseteq S
  BY DEF Canonical, Bytes
<1> HIDE DEF st
<1>8. /\ y \in LooseJob
      /\ y.run = x.run /\ y.slots = FreeSlots0 /\ y.stream = st
      /\ y.deferred = TRUE /\ y.done = <<>>
      /\ y.step = "stream" /\ y.errors = x.errors /\ y.temp = x.temp /\ y.os = x.os
      /\ y.broken = x.broken /\ y.saved = x.saved /\ y.status = x.status
  BY <1>4, <1>6, <1>7, AllFree DEF LooseJob
<1> HIDE DEF y
<1>9. \A j \in Slots : ~InUse(y, j) /\ SlotSound(y.slots[j])
  BY <1>8, AllFree DEF InUse
<1>10. SlotsSound(y) /\ Modes(y)
  BY <1>6, <1>8, <1>9, Sizes DEF SlotsSound, Apart, Modes
<1>11. RangesSound(y) /\ (~bad => Written(y))
  BY <1>3, <1>7, <1>8, <1>9 DEF Sound, RangesSound, Written
<1>12. Sound(y, bad, TRUE)
  BY <1>8, <1>10, <1>11 DEF Sound
<1>13. Active(y, runs, bad, TRUE)
  BY <1>2, <1>3, <1>8, <1>12 DEF Active, Closed
<1>14. Good(y, runs, bad, TRUE)
  BY <1>1, <1>8, <1>13, ActiveIsGood
<1> QED BY <1>1, <1>14 DEF StepGood, Stays


(* What the handlers of MG_EV_READ change of a slot, besides what they write. *)
Consumed(x, i, k) == [x EXCEPT !.slots[i].wire = @ - k]
BeginDraining(x, i) == [x EXCEPT !.slots[i].phase = "draining"]
Drained(x, i, k) == [x EXCEPT !.slots[i].wire = @ - k, !.slots[i].remaining = Largest({0, @ - k})]

LEMMA TweaksAreWithSlot ==
    ASSUME NEW x \in LooseJob, NEW i \in Slots, NEW k
    PROVE  /\ CutOff(x, i) = WithSlot(x, i, [x.slots[i] EXCEPT !.keep = FALSE], x.temp)
           /\ BeginDraining(x, i)
                = WithSlot(x, i, [x.slots[i] EXCEPT !.phase = "draining"], x.temp)
           /\ Consumed(x, i, k)
                = WithSlot(x, i, [x.slots[i] EXCEPT !.wire = x.slots[i].wire - k], x.temp)
           /\ Drained(x, i, k)
                = WithSlot(x, i, [x.slots[i] EXCEPT
                                    !.wire = x.slots[i].wire - k,
                                    !.remaining = Largest({0, x.slots[i].remaining - k})], x.temp)
<1>1. x.slots \in [Slots -> Slot] /\ x.slots[i] \in Slot
  BY DEF LooseJob
<1>2. \A s : WithSlot(x, i, s, x.temp) = [x EXCEPT !.slots = [x.slots EXCEPT ![i] = s]]
  BY DEF WithSlot, LooseJob
<1>3. CutOff(x, i)
        = [x EXCEPT !.slots = [x.slots EXCEPT ![i] = [x.slots[i] EXCEPT !.keep = FALSE]]]
  BY DEF CutOff
<1>4. BeginDraining(x, i)
        = [x EXCEPT !.slots = [x.slots EXCEPT ![i] = [x.slots[i] EXCEPT !.phase = "draining"]]]
  BY DEF BeginDraining
<1>5. Consumed(x, i, k)
        = [x EXCEPT !.slots = [x.slots EXCEPT ![i] =
              [x.slots[i] EXCEPT !.wire = x.slots[i].wire - k]]]
  BY DEF Consumed
<1>6. Drained(x, i, k)
        = [x EXCEPT !.slots = [x.slots EXCEPT ![i] =
              [x.slots[i] EXCEPT !.wire = x.slots[i].wire - k,
                                 !.remaining = Largest({0, x.slots[i].remaining - k})]]]
  BY <1>1 DEF Drained, LooseJob, Slot
<1> QED BY <1>2, <1>3, <1>4, <1>5, <1>6

(* A job at work, of which one slot is changed so. *)
LEMMA TweakActive ==
    ASSUME NEW x, NEW n \in Nat, NEW bad, NEW fell, Active(x, n, bad, fell),
           NEW i \in Slots, InUse(x, i),
           NEW t \in Slot, t.phase \in {"streaming", "draining"},
           t.start = x.slots[i].start, t.end = x.slots[i].end,
           t.received = x.slots[i].received, t.keep => t.wire <= t.remaining
    PROVE  /\ Active(WithSlot(x, i, t, x.temp), n, bad, fell)
           /\ Stays(x, WithSlot(x, i, t, x.temp), fell)
           /\ WithSlot(x, i, t, x.temp).slots[i] = t
           /\ InUse(WithSlot(x, i, t, x.temp), i)
<1>1. Sound(x, bad, fell)
  BY DEF Active
<1>2. /\ Sound(WithSlot(x, i, t, x.temp), bad, fell)
      /\ SameButSlots(x, WithSlot(x, i, t, x.temp))
      /\ WithSlot(x, i, t, x.temp).slots[i] = t
      /\ InUse(WithSlot(x, i, t, x.temp), i)
  BY <1>1, TweakSound
<1> QED BY <1>2, StillActive

(* The slot has all that its reservation can hold. *)
LEMMA FullSlotGood ==
    ASSUME NEW y, NEW n \in Nat, NEW bad, NEW fell, Active(y, n, bad, fell),
           NEW i \in Slots, y.slots[i].phase = "streaming", NEW now
    PROVE  /\ Good(FinishContinuous(CutOff(y, i), i, now), n, bad, fell)
           /\ Stays(y, FinishContinuous(CutOff(y, i), i, now), fell)
           /\ Good(BeginDraining(y, i), n, bad, fell)
           /\ Stays(y, BeginDraining(y, i), fell)
<1> DEFINE s == y.slots[i]
           cut == [s EXCEPT !.keep = FALSE]
           drain == [s EXCEPT !.phase = "draining"]
           c == WithSlot(y, i, cut, y.temp)
           b == WithSlot(y, i, drain, y.temp)
<1>1. y \in LooseJob /\ s \in Slot /\ InUse(y, i) /\ SlotSound(s) /\ s.phase = "streaming"
  BY SlotFields DEF Active, Sound, InUse, SlotsSound
<1>2. CutOff(y, i) = c /\ BeginDraining(y, i) = b
  <2>1. CutOff(y, i) = WithSlot(y, i, [y.slots[i] EXCEPT !.keep = FALSE], y.temp)
    BY <1>1, TweaksAreWithSlot
  <2>2. BeginDraining(y, i) = WithSlot(y, i, [y.slots[i] EXCEPT !.phase = "draining"], y.temp)
    BY <1>1, TweaksAreWithSlot
  <2> QED BY <2>1, <2>2
<1>3. /\ cut \in Slot /\ cut.phase = "streaming" /\ cut.start = s.start /\ cut.end = s.end
      /\ cut.received = s.received /\ cut.keep = FALSE
  BY <1>1 DEF Slot
<1>4. /\ drain \in Slot /\ drain.phase = "draining" /\ drain.start = s.start /\ drain.end = s.end
      /\ drain.received = s.received /\ (drain.keep => drain.wire <= drain.remaining)
  BY <1>1 DEF Slot, SlotSound
<1> HIDE DEF cut, drain
<1>5. Active(c, n, bad, fell) /\ Stays(y, c, fell) /\ c.slots[i] = cut
  BY <1>1, <1>3, TweakActive
<1>6. Active(b, n, bad, fell) /\ Stays(y, b, fell) /\ InUse(b, i)
  BY <1>1, <1>4, TweakActive
<1> HIDE DEF c, b
<1>7. /\ Good(FinishContinuous(c, i, now), n, bad, fell)
      /\ Stays(c, FinishContinuous(c, i, now), fell)
  BY <1>3, <1>5, FinishContinuousGood
<1>8. Good(b, n, bad, fell)
  BY <1>6, ActiveIsGood
<1> QED BY <1>2, <1>5, <1>6, <1>7, <1>8, StaysOn


(* Publishing the progress of a connection at work. *)
LEMMA ThrottledGood ==
    ASSUME NEW x, NEW n \in Nat, NEW bad, NEW fell, Active(x, n, bad, fell), NEW now,
           x.deferred \/ x.stream.phase # "idle" \/ \E i \in Slots : InUse(x, i)
    PROVE  Good(Throttled(x, now), n, bad, fell) /\ Stays(x, Throttled(x, now), fell)
<1> DEFINE u == Throttled(x, now)
<1>1. Sound(x, bad, fell) /\ x.run = "running" /\ x.status # "completed"
  BY DEF Active
<1>2. /\ Keeps(x, u) /\ Sound(u, bad, fell) /\ u.status \in {x.status, "downloading"}
      /\ Stays(x, u, fell)
  BY <1>1, ThrottledKeeps
<1> HIDE DEF u
<1>3. Active(u, n, bad, fell)
  BY <1>1, <1>2, StillActive
<1>4. u.deferred \/ u.stream.phase # "idle" \/ \E i \in Slots : InUse(u, i)
  <2>1. x \in LooseJob /\ u \in LooseJob
    BY <1>1, <1>2 DEF Sound
  <2>2. \A i \in Slots : InUse(u, i) <=> InUse(x, i)
    BY <1>2, <2>1, KeepsSlots
  <2> QED BY <1>2, <2>2 DEF Keeps
<1>5. Good(u, n, bad, fell)
  BY <1>3, <1>4, ActiveIsGood
<1> QED BY <1>2, <1>5 DEF u

(* A slot that goes on, with its reservation grown where it was used up. *)
LEMMA GrowingSlotGood ==
    ASSUME NEW y, NEW n \in Nat, NEW bad, NEW fell, Active(y, n, bad, fell),
           NEW i \in Slots, y.slots[i].phase = "streaming", NEW now,
           NEW z \in {y, Extend(y, i)}
    PROVE  /\ y.slots[i].remaining = 0 =>
                 /\ Good(FinishContinuous(z, i, now), n, bad, fell)
                 /\ Stays(y, FinishContinuous(z, i, now), fell)
           /\ Good(Throttled(z, now), n, bad, fell)
           /\ Stays(y, Throttled(z, now), fell)
<1> DEFINE s == y.slots[i]
<1>1. Sound(y, bad, fell) /\ y \in LooseJob /\ InUse(y, i) /\ s \in Slot
  BY SlotFields DEF Active, Sound, InUse
<1>2. z \in Grown(y, i, bad, fell)
  BY <1>1, ExtendSound, GrownProperties
<1>3. Sound(z, bad, fell) /\ SameButSlots(y, z) /\ z.slots[i] = [s EXCEPT !.end = z.slots[i].end]
  BY <1>1, <1>2, GrownProperties
<1>4. Active(z, n, bad, fell) /\ Stays(y, z, fell)
  BY <1>3, StillActive
<1>5. /\ z.slots[i].phase = "streaming" /\ z.slots[i].remaining = s.remaining
      /\ InUse(z, i)
  BY <1>1, <1>3 DEF Slot, InUse
<1>6. Good(Throttled(z, now), n, bad, fell) /\ Stays(z, Throttled(z, now), fell)
  BY <1>4, <1>5, ThrottledGood
<1>7. ASSUME s.remaining = 0
      PROVE  /\ Good(FinishContinuous(z, i, now), n, bad, fell)
             /\ Stays(z, FinishContinuous(z, i, now), fell)
  BY <1>4, <1>5, <1>7, FinishContinuousGood
<1> QED BY <1>4, <1>6, <1>7, StaysOn

(* The handler of MG_EV_READ writes, then decides how the slot goes on. *)
LEMMA ReadBodyGood ==
    ASSUME NEW i \in Slots, NEW k \in 1..Total, NEW now \in BOOLEAN,
           Before, ReadBody(i, k, now)
    PROVE  StepGood
<1> DEFINE bad == diskFailed
           fell == fellBack
           s == d.slots[i]
           t == [s EXCEPT !.wire = s.wire - k]
           x == WithSlot(d, i, t, d.temp)
           y == WriteBody(x, i, k)
           full == y.slots[i].start + y.slots[i].received = y.slots[i].end + 1
           z == IF full THEN Extend(y, i) ELSE y
<1>1. /\ Active(d, runs, bad, fell) /\ runs \in Nat /\ NoHistory /\ s.phase = "streaming"
      /\ k <= s.wire
  BY RunningIsActive DEF Before, ReadBody
<1>2. d \in LooseJob /\ InUse(d, i) /\ s \in Slot /\ SlotSound(s) /\ k \in Nat
  BY <1>1, SlotFields DEF Active, Sound, InUse, SlotsSound
<1>3. d' = IF y.run = "failed" THEN y
           ELSE IF full /\ ~CanExtend(y, i)
           THEN IF y.slots[i].remaining > DrainMax
                THEN FinishContinuous(CutOff(y, i), i, now)
                ELSE BeginDraining(y, i)
           ELSE IF y.slots[i].remaining = 0 /\ y.slots[i].received > 0
                THEN FinishContinuous(z, i, now)
                ELSE Throttled(z, now)
  <2>1. Consumed(d, i, k) = x
    <3>1. Consumed(d, i, k)
            = WithSlot(d, i, [d.slots[i] EXCEPT !.wire = d.slots[i].wire - k], d.temp)
      BY <1>2, TweaksAreWithSlot
    <3> QED BY <3>1
  <2> DEFINE c == Consumed(d, i, k)
             w == WriteBody(c, i, k)
             full1 == w.slots[i].start + w.slots[i].received = w.slots[i].end + 1
  <2>2. d' = IF w.run = "failed" THEN w
             ELSE IF full1 /\ ~CanExtend(w, i)
             THEN IF w.slots[i].remaining > DrainMax
                  THEN FinishContinuous(CutOff(w, i), i, now)
                  ELSE BeginDraining(w, i)
             ELSE IF w.slots[i].remaining = 0 /\ w.slots[i].received > 0
                  THEN FinishContinuous(IF full1 THEN Extend(w, i) ELSE w, i, now)
                  ELSE Throttled(IF full1 THEN Extend(w, i) ELSE w, now)
    BY DEF ReadBody, Consumed, BeginDraining
  <2>3. w = y
    BY <2>1
  <2> HIDE DEF w, y
  <2> QED BY <2>2, <2>3
<1>4. /\ t \in Slot /\ t.phase = "streaming" /\ t.start = s.start /\ t.end = s.end
      /\ t.received = s.received /\ t.keep = s.keep /\ t.remaining = s.remaining
      /\ t.wire = s.wire - k
  <2>1. s.wire - k \in 0..Total
    <3>1. s.wire \in Nat /\ s.wire <= Total
      BY <1>2, Sizes DEF Slot
    <3> HIDE DEF s
    <3> QED BY <1>1, <1>2, <3>1, Sizes
  <2> HIDE DEF s
  <2> QED BY <1>1, <1>2, <2>1 DEF Slot
<1>5. t.keep => t.wire + k <= t.remaining /\ t.wire <= t.remaining
  <2>1. s.wire \in Nat /\ s.remaining \in Nat /\ (s.keep => s.wire <= s.remaining)
    BY <1>1, <1>2, Sizes DEF Slot, SlotSound
  <2> HIDE DEF s, t
  <2> QED BY <1>2, <1>4, <2>1
<1> HIDE DEF t
<1>6. Active(x, runs, bad, fell) /\ Stays(d, x, fell) /\ x.slots[i] = t /\ InUse(x, i)
  <2>1. /\ t.phase \in {"streaming", "draining"} /\ t.start = d.slots[i].start
        /\ t.end = d.slots[i].end /\ t.received = d.slots[i].received
    BY <1>4
  <2> HIDE DEF bad, fell
  <2> QED BY <1>1, <1>2, <1>4, <1>5, <2>1, TweakActive
<1> HIDE DEF x
<1>7. Sound(y, bad, fell) /\ Wrote(x, y, i)
  <2>1. Sound(x, bad, fell) /\ x.run # "none"
    BY <1>6 DEF Active
  <2> QED BY <1>2, <1>5, <1>6, <2>1, WriteBodySound
<1> HIDE DEF y
<1>8. Stays(d, y, fell)
  BY <1>6, <1>7 DEF Stays, Wrote
<1>9. CASE y.run = "failed"
  <2>1. y.status # "completed" /\ y.errors <= MaxRetries + runs
    <3>1. y.errors \in Nat /\ y.errors < MaxRetries + runs /\ MaxRetries \in Nat
      BY <1>6, <1>7, Sizes DEF Active, Wrote, Sound, LooseJob
    <3> QED BY <1>1, <1>6, <1>7, <3>1 DEF Active, Wrote
  <2>2. Good(y, runs, bad, fell)
    BY <1>1, <1>7, <1>9, <2>1, FailedIsGood
  <2> QED BY <1>1, <1>3, <1>8, <1>9, <2>2, NoHistoryStep
<1>10. CASE y.run # "failed"
  <2>1. Active(y, runs, bad, fell) /\ y.slots[i].phase = "streaming"
    BY <1>4, <1>6, <1>7, <1>10 DEF Active, Wrote
  <2>2. z \in {y, Extend(y, i)}
    OBVIOUS
  <2> HIDE DEF z, full
  <2>3. /\ Good(FinishContinuous(CutOff(y, i), i, now), runs, bad, fell)
        /\ Stays(y, FinishContinuous(CutOff(y, i), i, now), fell)
        /\ Good(BeginDraining(y, i), runs, bad, fell)
        /\ Stays(y, BeginDraining(y, i), fell)
    BY <1>1, <2>1, FullSlotGood
  <2>4. /\ y.slots[i].remaining = 0 =>
              /\ Good(FinishContinuous(z, i, now), runs, bad, fell)
              /\ Stays(y, FinishContinuous(z, i, now), fell)
        /\ Good(Throttled(z, now), runs, bad, fell)
        /\ Stays(y, Throttled(z, now), fell)
    BY <1>1, <2>1, <2>2, GrowingSlotGood
  <2>5. PICK u : d' = u /\ Good(u, runs, bad, fell) /\ Stays(y, u, fell)
    BY <1>3, <1>10, <2>3, <2>4
  <2>6. Stays(d, u, fell)
    BY <1>8, <2>5, StaysOn
  <2> QED BY <1>1, <2>5, <2>6, NoHistoryStep
<1> QED BY <1>9, <1>10


(* MG_EV_READ on a segment that discards the rest of its response. *)
LEMMA DrainBodyGood ==
    ASSUME NEW i \in Slots, NEW k \in 1..Total, NEW now \in BOOLEAN,
           Before, DrainBody(i, k, now)
    PROVE  StepGood
<1> DEFINE bad == diskFailed
           fell == fellBack
           s == d.slots[i]
           left == Largest({0, s.remaining - k})
           t == [s EXCEPT !.wire = s.wire - k, !.remaining = left]
           y == WithSlot(d, i, t, d.temp)
<1>1. /\ Active(d, runs, bad, fell) /\ runs \in Nat /\ NoHistory /\ s.phase = "draining"
      /\ k <= s.wire
  BY RunningIsActive DEF Before, DrainBody
<1>2. d \in LooseJob /\ InUse(d, i) /\ s \in Slot /\ SlotSound(s) /\ k \in Nat
  BY <1>1, SlotFields DEF Active, Sound, InUse, SlotsSound
<1>3. d' = IF y.slots[i].remaining = 0 THEN FinishContinuous(y, i, now) ELSE y
  <2>1. Drained(d, i, k) = y
    <3>1. Drained(d, i, k)
            = WithSlot(d, i, [d.slots[i] EXCEPT
                                !.wire = d.slots[i].wire - k,
                                !.remaining = Largest({0, d.slots[i].remaining - k})], d.temp)
      BY <1>2, TweaksAreWithSlot
    <3> QED BY <3>1
  <2> DEFINE w == Drained(d, i, k)
  <2>2. d' = IF w.slots[i].remaining = 0 THEN FinishContinuous(w, i, now) ELSE w
    BY DEF DrainBody, Drained
  <2> HIDE DEF w, y
  <2> QED BY <2>1, <2>2 DEF w
<1>4. s.wire \in 0..Total /\ s.remaining \in 0..Total
  BY <1>2 DEF Slot
<1>5. /\ left \in 0..Total /\ s.wire - k \in 0..Total
      /\ (s.wire <= s.remaining => s.wire - k <= left)
  <2> HIDE DEF s
  <2>1. s.remaining - k \in Int /\ s.wire - k \in 0..Total
    BY <1>1, <1>2, <1>4, Sizes
  <2>2. left \in Int /\ left >= 0 /\ left >= s.remaining - k /\ left \in {0, s.remaining - k}
    BY <2>1, LargestOfTwo
  <2> HIDE DEF left
  <2> QED BY <1>2, <1>4, <2>1, <2>2, Sizes
<1> HIDE DEF left
<1>6. /\ t \in Slot /\ t.phase = "draining" /\ t.start = s.start /\ t.end = s.end
      /\ t.received = s.received /\ t.keep = s.keep /\ t.remaining = left
      /\ t.wire = s.wire - k
  <2> HIDE DEF s
  <2> QED BY <1>1, <1>2, <1>5 DEF Slot
<1>7. t.keep => t.wire <= t.remaining
  <2>1. s.keep => s.wire <= s.remaining
    BY <1>1, <1>2 DEF SlotSound
  <2> HIDE DEF s, t
  <2> QED BY <1>5, <1>6, <2>1
<1> HIDE DEF t
<1>8. Active(y, runs, bad, fell) /\ Stays(d, y, fell) /\ y.slots[i] = t /\ InUse(y, i)
  <2>1. /\ t.phase \in {"streaming", "draining"} /\ t.start = d.slots[i].start
        /\ t.end = d.slots[i].end /\ t.received = d.slots[i].received
    BY <1>6
  <2> HIDE DEF bad, fell
  <2> QED BY <1>1, <1>2, <1>6, <1>7, <2>1, TweakActive
<1> HIDE DEF y
<1>9. CASE y.slots[i].remaining = 0
  <2>1. y.slots[i].phase \in {"streaming", "draining"}
    BY <1>6, <1>8
  <2>2. /\ Good(FinishContinuous(y, i, now), runs, bad, fell)
        /\ Stays(y, FinishContinuous(y, i, now), fell)
    BY <1>1, <1>8, <1>9, <2>1, FinishContinuousGood
  <2>3. Stays(d, FinishContinuous(y, i, now), fell)
    BY <1>8, <2>2, StaysOn
  <2> QED BY <1>1, <1>3, <1>9, <2>2, <2>3, NoHistoryStep
<1>10. CASE y.slots[i].remaining # 0
  <2>1. Good(y, runs, bad, fell)
    BY <1>1, <1>8, ActiveIsGood
  <2> QED BY <1>1, <1>3, <1>8, <1>10, <2>1, NoHistoryStep
<1> QED BY <1>9, <1>10

(* on_connection_closed, on an error, an early close or an idle timeout *)
LEMMA ClosedSlotGood ==
    ASSUME NEW i \in Slots, NEW now \in BOOLEAN, Before, Drop(i, now) \/ Idle(i, now)
    PROVE  StepGood
<1> DEFINE bad == diskFailed
           fell == fellBack
<1>1. /\ Active(d, runs, bad, fell) /\ runs \in Nat /\ NoHistory /\ InUse(d, i)
      /\ d' = ConnectionClosed(d, i, now)
  BY RunningIsActive DEF Before, Drop, Idle, InUse
<1>2. /\ Good(ConnectionClosed(d, i, now), runs, bad, fell)
      /\ Stays(d, ConnectionClosed(d, i, now), fell)
  BY <1>1, ConnectionClosedGood
<1> QED BY <1>1, <1>2, NoHistoryStep

-----------------------------------------------------------------------------
(* The steps of the stream. *)

(* A job whose stream goes on: the stream has no slots beside it. *)
WithStream(x, st, bytes, errors) ==
    [x EXCEPT !.stream = st, !.temp = bytes, !.errors = errors]

LEMMA StreamSound ==
    ASSUME NEW x, NEW bad, NEW fell, Sound(x, bad, fell), x.step = "stream",
           NEW st \in Stream, st.received + st.wire <= Total,
           NEW bytes \in SUBSET File, x.temp \subseteq bytes, NEW errors \in Nat
    PROVE  /\ Sound(WithStream(x, st, bytes, errors), bad, fell)
           /\ Stays(x, WithStream(x, st, bytes, errors), fell)
           /\ WithStream(x, st, bytes, errors).run = x.run
           /\ WithStream(x, st, bytes, errors).status = x.status
           /\ WithStream(x, st, bytes, errors).errors = errors
           /\ WithStream(x, st, bytes, errors).stream = st
<1> DEFINE y == WithStream(x, st, bytes, errors)
<1>1. x \in LooseJob /\ \A i \in Slots : ~InUse(x, i)
  BY DEF Sound, Modes
<1>2. /\ y \in LooseJob /\ y.run = x.run /\ y.step = "stream" /\ y.slots = x.slots
      /\ y.stream = st /\ y.errors = errors /\ y.done = x.done /\ y.temp = bytes
      /\ y.os = x.os /\ y.broken = x.broken /\ y.saved = x.saved /\ y.status = x.status
  BY <1>1 DEF LooseJob, WithStream
<1> HIDE DEF y
<1>3. \A i \in Slots : ~InUse(y, i)
  BY <1>1, <1>2 DEF InUse
<1>4. SlotsSound(y) /\ Modes(y)
  BY <1>2, <1>3 DEF Sound, SlotsSound, Apart, Modes
<1>5. RangesSound(y) /\ (~bad => Written(y))
  BY <1>2, <1>3 DEF Sound, RangesSound, Written
<1>6. Sound(y, bad, fell) /\ Stays(x, y, fell)
  BY <1>2, <1>4, <1>5 DEF Sound, Stays
<1> QED BY <1>2, <1>6 DEF y


LEMMA StreamingStep ==
    ASSUME NEW x, NEW bad, NEW fell, Sound(x, bad, fell), x.stream.phase # "idle"
    PROVE  x.step = "stream" /\ x.stream \in Stream /\ x.stream.received + x.stream.wire <= Total
BY DEF Sound, Modes, LooseJob

(* A write that fails, an answer that is an error: job_set_error. *)
LEMMA SetErrorGood ==
    ASSUME NEW x, NEW n \in Nat, NEW bad, NEW fell, Active(x, n, bad, fell)
    PROVE  Good(SetError(x), n, bad, fell) /\ Stays(x, SetError(x), fell)
<1>1. Sound(x, bad, fell) /\ x.run # "none" /\ x.status # "completed" /\ x.errors \in Nat
      /\ x.errors < MaxRetries + n
  BY DEF Active, Sound, LooseJob
<1>2. /\ Sound(SetError(x), bad, fell) /\ SetError(x).run = "failed"
      /\ SetError(x).status = x.status /\ SetError(x).errors = x.errors
      /\ Stays(x, SetError(x), fell)
  BY <1>1, SetErrorSound
<1>3. SetError(x).status # "completed" /\ SetError(x).errors <= MaxRetries + n
  BY <1>1, <1>2, Sizes
<1>4. Good(SetError(x), n, bad, fell)
  BY <1>2, <1>3, FailedIsGood
<1> QED BY <1>2, <1>4

LEMMA ResumeUnsupportedGood ==
    ASSUME NEW x, NEW n \in Nat, NEW bad, NEW fell, Active(x, n, bad, fell)
    PROVE  Good(ResumeUnsupported(x), n, bad, fell) /\ Stays(x, ResumeUnsupported(x), fell)
<1> DEFINE c == CloseFile(x)
           u == Upsert(c, "stopped")
           y == [u EXCEPT !.run = "ended", !.unsupported = TRUE]
<1>1. Sound(x, bad, fell) /\ x.run = "running" /\ x.errors < MaxRetries + n
  BY DEF Active
<1>2. Sound(c, bad, fell) /\ Closed(x, c)
  BY <1>1, CloseFileSound
<1> HIDE DEF c
<1>3. Keeps(c, u) /\ Sound(u, bad, fell) /\ u.status = "stopped" /\ Stays(c, u, fell)
  <2>1. c.run # "none"
    BY <1>1, <1>2 DEF Closed
  <2> QED BY <1>2, <2>1, UpsertKeeps
<1> HIDE DEF u
<1>4. /\ u \in LooseJob /\ u.errors \in Nat /\ u.errors = x.errors /\ u.run = "running"
      /\ Stays(x, u, fell)
  BY <1>1, <1>2, <1>3 DEF Sound, LooseJob, Keeps, Closed, Stays
<1>5. Alike(u, y) /\ y.run = "ended" /\ y.status = u.status /\ y.errors = u.errors
  BY <1>4 DEF Alike, LooseJob
<1> HIDE DEF y
<1>6. y.errors <= MaxRetries + n /\ y.status # "completed"
  BY <1>1, <1>3, <1>4, <1>5, Sizes
<1>7. Good(y, n, bad, fell) /\ Stays(u, y, fell)
  BY <1>3, <1>4, <1>5, <1>6, EndedGood
<1>8. Stays(x, y, fell)
  BY <1>4, <1>7, StaysOn
<1>9. ResumeUnsupported(x) = y
  BY DEF ResumeUnsupported, y, u, c
<1> QED BY <1>7, <1>8, <1>9

(* handle_response_headers, for the stream *)
LEMMA StreamAnswerGood == Before /\ StreamAnswer => StepGood
<1> SUFFICES ASSUME Before, StreamAnswer PROVE StepGood
  OBVIOUS
<1> DEFINE bad == diskFailed
           fell == fellBack
           u == Upsert(d, "downloading")
           y == [u EXCEPT !.errors = 0, !.stream.phase = "body",
                          !.stream.wire = Total - d.stream.received]
<1>1. /\ Active(d, runs, bad, fell) /\ runs \in Nat /\ NoHistory /\ d.stream.phase = "sent"
  BY RunningIsActive DEF Before, StreamAnswer, NoHistory
<1>2. /\ Sound(d, bad, fell) /\ d.run = "running" /\ d.step = "stream" /\ d.stream \in Stream
      /\ d.status # "completed"
  BY <1>1, StreamingStep DEF Active
<1>3. CASE d.stream.received < Total /\ d' = y
  <2> DEFINE st == [u.stream EXCEPT !.phase = "body", !.wire = Total - d.stream.received]
             w == WithStream(u, st, u.temp, 0)
  <2>1. Keeps(d, u) /\ Sound(u, bad, fell) /\ u.status = "downloading" /\ Stays(d, u, fell)
    BY <1>2, UpsertKeeps
  <2> HIDE DEF u
  <2>2. u \in LooseJob /\ u.stream = d.stream /\ u.temp \in SUBSET File /\ u.step = "stream"
        /\ u.run = "running"
    BY <1>2, <2>1 DEF Sound, LooseJob, Keeps
  <2>3. /\ st \in Stream /\ st.phase = "body" /\ st.received = d.stream.received
        /\ st.wire = Total - d.stream.received
    <3>1. d.stream.received \in 0..Total
      BY <1>2 DEF Stream
    <3>2. Total - d.stream.received \in 0..Total
      BY <3>1, Sizes
    <3> QED BY <1>2, <2>2, <3>2 DEF Stream
  <2>4. y = w
    <3>1. u.stream \in Stream /\ u.temp = u.temp
      BY <1>2, <2>2
    <3> QED BY <2>2, <3>1 DEF WithStream, LooseJob, Stream
  <2> HIDE DEF st, y
  <2>5. st.received + st.wire <= Total
    <3>1. d.stream.received \in Nat
      BY <1>2, Sizes DEF Stream
    <3> QED BY <2>3, <3>1, Sizes
  <2>6. PICK errors \in {0} : w = WithStream(u, st, u.temp, errors)
    OBVIOUS
  <2>7. /\ Sound(w, bad, fell) /\ Stays(u, w, fell) /\ w.run = u.run /\ w.status = u.status
        /\ w.errors = 0 /\ w.stream = st
    <3>1. errors \in Nat /\ errors = 0 /\ u.temp \subseteq u.temp
      OBVIOUS
    <3>2. /\ Sound(WithStream(u, st, u.temp, errors), bad, fell)
          /\ Stays(u, WithStream(u, st, u.temp, errors), fell)
          /\ WithStream(u, st, u.temp, errors).run = u.run
          /\ WithStream(u, st, u.temp, errors).status = u.status
          /\ WithStream(u, st, u.temp, errors).errors = errors
          /\ WithStream(u, st, u.temp, errors).stream = st
      BY <2>1, <2>2, <2>3, <2>5, <3>1, StreamSound
    <3> HIDE DEF w
    <3> QED BY <2>6, <3>1, <3>2
  <2> HIDE DEF w
  <2>8. Active(w, runs, bad, fell) /\ Stays(d, w, fell)
    <3>1. 0 < MaxRetries + runs
      BY <1>1, Sizes
    <3> QED BY <2>1, <2>2, <2>7, <3>1, StaysOn DEF Active
  <2>9. Good(w, runs, bad, fell)
    BY <1>1, <2>3, <2>7, <2>8, ActiveIsGood
  <2> QED BY <1>1, <1>3, <2>4, <2>8, <2>9, NoHistoryStep
<1>4. CASE d' = ResumeUnsupported(d)
  <2>1. Good(ResumeUnsupported(d), runs, bad, fell) /\ Stays(d, ResumeUnsupported(d), fell)
    BY <1>1, ResumeUnsupportedGood
  <2> QED BY <1>1, <1>4, <2>1, NoHistoryStep
<1>5. CASE d' = SetError(d)
  <2>1. Good(SetError(d), runs, bad, fell) /\ Stays(d, SetError(d), fell)
    BY <1>1, SetErrorGood
  <2> QED BY <1>1, <1>5, <2>1, NoHistoryStep
<1> QED BY <1>3, <1>4, <1>5 DEF StreamAnswer


(* append_stream *)
LEMMA StreamReadGood ==
    ASSUME NEW k \in 1..Total, NEW now \in BOOLEAN, Before, StreamRead(k, now)
    PROVE  StepGood
<1> DEFINE bad == diskFailed
           fell == fellBack
           pos == d.stream.received
           st == [d.stream EXCEPT !.received = @ + k, !.wire = @ - k]
           bytes == d.temp \cup pos..(pos + k - 1)
           x == WithStream(d, st, bytes, d.errors)
<1>1. /\ Active(d, runs, bad, fell) /\ runs \in Nat /\ NoHistory /\ d.stream.phase = "body"
      /\ k <= d.stream.wire /\ k \in Nat
  BY RunningIsActive DEF Before, StreamRead
<1>2. /\ Sound(d, bad, fell) /\ d \in LooseJob /\ d.step = "stream" /\ d.stream \in Stream
      /\ d.stream.received + d.stream.wire <= Total /\ d.errors \in Nat
      /\ d.temp \in SUBSET File
  <2>1. Sound(d, bad, fell) /\ d.stream.phase # "idle"
    BY <1>1 DEF Active
  <2> QED BY <2>1, StreamingStep DEF Sound, LooseJob
<1>3. d' = IF d.broken THEN SetError(d) ELSE Throttled(x, now)
  <2>1. x = [d EXCEPT !.stream.received = @ + k, !.stream.wire = @ - k,
                      !.temp = @ \cup pos..(pos + k - 1)]
    BY <1>2 DEF WithStream, LooseJob, Stream
  <2> HIDE DEF x
  <2> QED BY <2>1 DEF StreamRead
<1>4. /\ st.phase = "body" /\ st.received = pos + k /\ st.wire = d.stream.wire - k
  BY <1>1, <1>2 DEF Stream
<1>5. /\ pos \in 0..Total /\ d.stream.wire \in 0..Total
      /\ pos + k \in 0..Total /\ d.stream.wire - k \in 0..Total
      /\ (pos + k) + (d.stream.wire - k) <= Total
  <2>1. PICK w : w = d.stream.wire
    OBVIOUS
  <2>2. pos \in 0..Total /\ w \in 0..Total
    BY <1>2, <2>1 DEF Stream
  <2>3. k \in Nat /\ k <= w /\ pos + w <= Total
    BY <1>1, <1>2, <2>1
  <2> HIDE DEF st, bytes, x, pos
  <2> QED BY <2>1, <2>2, <2>3, Sizes
<1>6. st \in Stream /\ st.received + st.wire <= Total
  <2>1. st \in Stream
    BY <1>1, <1>2, <1>5 DEF Stream
  <2> HIDE DEF st
  <2> QED BY <1>4, <1>5, <2>1
<1>7. bytes \in SUBSET File /\ d.temp \subseteq bytes
  <2>1. pos..(pos + k - 1) \in SUBSET File
    <3> HIDE DEF bytes, st, x, pos
    <3>1. pos \in Nat /\ k \in Int /\ pos + k <= Total
      BY <1>1, <1>5, Sizes
    <3> QED BY <3>1, SpanInside
  <2> QED BY <1>2, <2>1 DEF LooseJob
<1> HIDE DEF st, bytes
<1>8. /\ Sound(x, bad, fell) /\ Stays(d, x, fell) /\ x.run = d.run /\ x.status = d.status
      /\ x.errors = d.errors /\ x.stream = st
  BY <1>2, <1>6, <1>7, StreamSound
<1> HIDE DEF x
<1>9. CASE d.broken
  <2>1. Good(SetError(d), runs, bad, fell) /\ Stays(d, SetError(d), fell)
    BY <1>1, SetErrorGood
  <2> QED BY <1>1, <1>3, <1>9, <2>1, NoHistoryStep
<1>10. CASE ~d.broken
  <2>1. Active(x, runs, bad, fell)
    BY <1>1, <1>8 DEF Active
  <2>2. Good(Throttled(x, now), runs, bad, fell) /\ Stays(x, Throttled(x, now), fell)
    BY <1>1, <1>4, <1>8, <2>1, ThrottledGood
  <2>3. Stays(d, Throttled(x, now), fell)
    BY <1>8, <2>2, StaysOn
  <2> QED BY <1>1, <1>3, <1>10, <2>2, <2>3, NoHistoryStep
<1> QED BY <1>9, <1>10

(* on_connection_closed, for the stream *)
LEMMA StreamClosedGood == Before /\ StreamClosed => StepGood
<1> SUFFICES ASSUME Before, StreamClosed PROVE StepGood
  OBVIOUS
<1> DEFINE bad == diskFailed
           fell == fellBack
           e == SetError(d)
           u == Upsert(e, "failed")
<1>1. /\ Active(d, runs, bad, fell) /\ runs \in Nat /\ NoHistory
      /\ d.stream.phase # "idle" /\ d' \in {u, Finalize(d)}
  BY RunningIsActive DEF Before, StreamClosed
<1>2. /\ Sound(d, bad, fell) /\ d.run # "none" /\ d.step = "stream" /\ d.errors \in Nat
      /\ d.errors < MaxRetries + runs
  BY <1>1, StreamingStep DEF Active, Sound, LooseJob
<1>3. CASE d' = u
  <2>1. /\ Sound(e, bad, fell) /\ e.run = "failed" /\ e.errors = d.errors /\ Stays(d, e, fell)
    BY <1>2, SetErrorSound
  <2> HIDE DEF e
  <2>2. Keeps(e, u) /\ Sound(u, bad, fell) /\ u.status = "failed" /\ Stays(e, u, fell)
    BY <2>1, UpsertKeeps
  <2> HIDE DEF u
  <2>3. u.run = "failed" /\ u.errors <= MaxRetries + runs
    BY <1>1, <1>2, <2>1, <2>2, Sizes DEF Keeps
  <2>4. Good(u, runs, bad, fell) /\ Stays(d, u, fell)
    BY <1>1, <2>1, <2>2, <2>3, FailedIsGood, StaysOn
  <2> QED BY <1>1, <1>3, <2>4, NoHistoryStep
<1>4. CASE d' = Finalize(d)
  <2>1. Good(Finalize(d), runs, bad, fell) /\ Stays(d, Finalize(d), fell)
    BY <1>1, <1>2, FinalizeGood
  <2> QED BY <1>1, <1>4, <2>1, NoHistoryStep
<1> QED BY <1>1, <1>3, <1>4

-----------------------------------------------------------------------------
(* The invariant is inductive. *)

LEMMA InitGood == Init => IInv
<1> SUFFICES ASSUME Init PROVE IInv
  OBVIOUS
<1> USE Sizes
<1>1. /\ d = [run |-> "none", step |-> "chunk", slots |-> FreeSlots0,
              stream |-> NoStream, deferred |-> FALSE, errors |-> 0, done |-> <<>>,
              temp |-> {}, os |-> {}, synced |-> {}, broken |-> FALSE,
              saved |-> <<>>, unsupported |-> FALSE, status |-> "queued"]
      /\ faults = 0 /\ runs = 0 /\ fellBack = FALSE /\ diskFailed = FALSE
  BY DEF Init, FreeSlots0
<1>2. NoStream \in Stream /\ NoStream.phase = "idle" /\ NoStream.received = 0 /\ NoStream.wire = 0
  <2>1. 0 \in 0..Total
    OBVIOUS
  <2> QED BY <2>1 DEF NoStream, Stream
<1>3. <<>> \in Seq(Ranges) /\ Canonical(<<>>) /\ Bytes(<<>>) = {}
  BY DEF Canonical, Bytes
<1>4. d \in LooseJob
  <2> HIDE DEF Sizes
  <2> QED BY <1>1, <1>2, <1>3, AllFree DEF LooseJob
<1>5. /\ d.run = "none" /\ d.step = "chunk" /\ d.slots = FreeSlots0 /\ d.stream = NoStream
      /\ d.errors = 0 /\ d.done = <<>> /\ d.saved = <<>> /\ d.temp = {} /\ d.os = {}
      /\ d.broken = FALSE /\ d.status = "queued"
  BY <1>1
<1>6. \A i \in Slots : ~InUse(d, i) /\ SlotSound(d.slots[i])
  BY <1>5, AllFree DEF InUse
<1>7. SlotsSound(d) /\ Modes(d)
  BY <1>2, <1>5, <1>6 DEF SlotsSound, Apart, Modes
<1>8. RangesSound(d) /\ Written(d)
  BY <1>3, <1>5, <1>6 DEF RangesSound, Written
<1>9. Sound(d, diskFailed, fellBack)
  <2>1. d.run = "none"
    BY <1>5
  <2> QED BY <1>4, <1>7, <1>8, <2>1 DEF Sound
<1>11. Settled(d, diskFailed, fellBack) /\ Errors(d, runs)
  <2>1. /\ d.run = "none" /\ d.status = "queued" /\ d.stream.phase = "idle"
        /\ d.errors = 0 /\ runs = 0 /\ \A i \in Slots : ~InUse(d, i)
    BY <1>1, <1>2, <1>5, <1>6
  <2>2. d.errors <= MaxRetries + runs
    BY <2>1
  <2> QED BY <2>1, <2>2 DEF Settled, Errors
<1>10. faults \in 0..MaxFaults /\ runs \in 0..MaxRuns /\ {diskFailed, fellBack} \subseteq BOOLEAN
  <2>1. faults = 0 /\ runs = 0 /\ fellBack = FALSE /\ diskFailed = FALSE
    BY <1>1
  <2>2. MaxFaults \in Nat /\ MaxRuns \in Nat
    BY SizesAssumption
  <2>3. faults \in 0..MaxFaults /\ runs \in 0..MaxRuns
    BY <2>1, <2>2
  <2>4. {diskFailed, fellBack} \subseteq BOOLEAN
    BY <2>1, Zenon
  <2> QED BY <2>3, <2>4
<1> QED BY <1>9, <1>10, <1>11 DEF IInv

(* The bounds and the histories. *)
LEMMA CountersStep ==
    ASSUME IInv, Next
    PROVE  /\ faults' \in 0..MaxFaults /\ runs' \in 0..MaxRuns
           /\ {diskFailed', fellBack'} \subseteq BOOLEAN
           /\ fellBack => fellBack'
<1>1. faults \in 0..MaxFaults /\ runs \in 0..MaxRuns /\ {diskFailed, fellBack} \subseteq BOOLEAN
  BY DEF IInv
<1>2. MaxFaults \in Nat /\ MaxRuns \in Nat
  BY SizesAssumption
<1>3. faults' \in 0..MaxFaults
  <2>1. CASE Start \/ ScheduleNext \/ JobFree \/ Crash \/ WriterFlush \/ WriterFail
    BY <1>1, <1>2, <2>1 DEF Start, ScheduleNext, JobFree, Crash, WriterFlush, WriterFail,
                            Fault, NoFault
  <2>2. CASE StreamAnswer \/ StreamClosed
    BY <1>1, <1>2, <2>2 DEF StreamAnswer, StreamClosed, Fault, NoFault
  <2>3. ASSUME NEW status \in {"stopped", "paused"}, StopOrPause(status) PROVE faults' = faults
    BY <2>3 DEF StopOrPause
  <2>4. ASSUME NEW k \in 1..Total, NEW now \in BOOLEAN, StreamRead(k, now) PROVE faults' = faults
    BY <2>4 DEF StreamRead, NoFault
  <2>5. ASSUME NEW i \in Slots, SlotStep(i) PROVE faults' \in 0..MaxFaults
    <3>1. ASSUME NEW k, NEW keep, PartialContent(i, k, keep) PROVE faults' = faults
      BY <3>1 DEF PartialContent, NoFault
    <3>2. ASSUME NEW k, NEW now, ReadBody(i, k, now) \/ DrainBody(i, k, now)
          PROVE  faults' = faults
      BY <3>2 DEF ReadBody, DrainBody, NoFault
    <3>3. ASSUME NEW now, Drop(i, now) \/ Idle(i, now)
          PROVE  faults' \in 0..MaxFaults
      BY <1>1, <1>2, <3>3 DEF Drop, Idle, Fault, NoFault
    <3>4. CASE FallBack(i)
      BY <1>1, <1>2, <3>4 DEF FallBack, Fault
    <3> QED BY <1>1, <2>5, <3>1, <3>2, <3>3, <3>4 DEF SlotStep
  <2> QED BY <1>1, <2>1, <2>2, <2>3, <2>4, <2>5 DEF Next
<1>4. ASSUME NoHistory
      PROVE  runs' = runs /\ fellBack' = fellBack /\ diskFailed' = diskFailed
  BY <1>4 DEF NoHistory
<1>5. CASE Start
  BY <1>1, <1>2, <1>3, <1>5 DEF Start
<1>6. CASE WriterFail
  BY <1>1, <1>3, <1>6 DEF WriterFail
<1>7. CASE \E i \in Slots : FallBack(i)
  BY <1>1, <1>3, <1>7 DEF FallBack
<1>8. CASE NoHistory
  BY <1>1, <1>3, <1>4, <1>8
<1>9. \/ Start \/ WriterFail \/ NoHistory
      \/ \E i \in Slots : FallBack(i)
  <2>1. CASE ScheduleNext \/ JobFree \/ Crash \/ WriterFlush
    BY <2>1 DEF ScheduleNext, JobFree, Crash, WriterFlush
  <2>2. CASE StreamAnswer \/ StreamClosed
    BY <2>2 DEF StreamAnswer, StreamClosed, NoHistory
  <2>3. ASSUME NEW status \in {"stopped", "paused"}, StopOrPause(status) PROVE NoHistory
    BY <2>3 DEF StopOrPause
  <2>4. ASSUME NEW k \in 1..Total, NEW now \in BOOLEAN, StreamRead(k, now) PROVE NoHistory
    BY <2>4 DEF StreamRead
  <2>5. ASSUME NEW i \in Slots, SlotStep(i) PROVE FallBack(i) \/ NoHistory
    <3>1. ASSUME NEW k, NEW keep, PartialContent(i, k, keep) PROVE NoHistory
      BY <3>1 DEF PartialContent
    <3>2. ASSUME NEW k, NEW now, ReadBody(i, k, now) \/ DrainBody(i, k, now) PROVE NoHistory
      BY <3>2 DEF ReadBody, DrainBody
    <3>3. ASSUME NEW now, Drop(i, now) \/ Idle(i, now) PROVE NoHistory
      BY <3>3 DEF Drop, Idle
    <3> QED BY <2>5, <3>1, <3>2, <3>3 DEF SlotStep
  <2> QED BY <2>1, <2>2, <2>3, <2>4, <2>5 DEF Next
<1> QED BY <1>5, <1>6, <1>7, <1>8, <1>9

LEMMA StepIsGood == Before /\ Next => StepGood
<1> SUFFICES ASSUME Before, Next PROVE StepGood
  OBVIOUS
<1>1. CASE Start \/ ScheduleNext
  BY <1>1, StartGood, ScheduleNextGood
<1>2. ASSUME NEW status \in {"stopped", "paused"}, StopOrPause(status) PROVE StepGood
  BY <1>2, StopOrPauseGood
<1>3. CASE JobFree \/ Crash
  BY <1>3, JobFreeGood, CrashGood
<1>4. CASE WriterFlush \/ WriterFail
  BY <1>4, WriterFlushGood, WriterFailGood
<1>5. ASSUME NEW i \in Slots, SlotStep(i) PROVE StepGood
  <2>1. ASSUME NEW k \in 0..Total, NEW keep \in BOOLEAN, PartialContent(i, k, keep)
        PROVE  StepGood
    BY <2>1, PartialContentGood
  <2>2. CASE FallBack(i)
    BY <2>2, FallBackGood
  <2>3. ASSUME NEW now \in BOOLEAN, NEW k \in 1..Total, ReadBody(i, k, now) \/ DrainBody(i, k, now)
        PROVE  StepGood
    BY <2>3, ReadBodyGood, DrainBodyGood
  <2>4. ASSUME NEW now \in BOOLEAN, Drop(i, now) \/ Idle(i, now)
        PROVE  StepGood
    BY <2>4, ClosedSlotGood
  <2> QED BY <1>5, <2>1, <2>2, <2>3, <2>4 DEF SlotStep
<1>6. CASE StreamAnswer \/ StreamClosed
  BY <1>6, StreamAnswerGood, StreamClosedGood
<1>7. ASSUME NEW k \in 1..Total, NEW now \in BOOLEAN, StreamRead(k, now) PROVE StepGood
  BY <1>7, StreamReadGood
<1> QED BY <1>1, <1>2, <1>3, <1>4, <1>5, <1>6, <1>7 DEF Next

LEMMA InvariantStep == IInv /\ [Next]_vars => IInv'
<1> SUFFICES ASSUME IInv, [Next]_vars PROVE IInv'
  OBVIOUS
<1>1. CASE Next
  <2>1. Before
    BY SizesAssumption DEF IInv, Before, Good
  <2>2. Good(d', runs', diskFailed', fellBack')
    BY <1>1, <2>1, StepIsGood DEF StepGood
  <2>3. /\ faults' \in 0..MaxFaults /\ runs' \in 0..MaxRuns
        /\ {diskFailed', fellBack'} \subseteq BOOLEAN
    BY <1>1, CountersStep
  <2>4. /\ Sound(d', diskFailed', fellBack') /\ Settled(d', diskFailed', fellBack')
        /\ Errors(d', runs')
    BY <2>2 DEF Good
  <2> QED BY <2>3, <2>4 DEF IInv
<1>2. CASE UNCHANGED vars
  BY <1>2 DEF vars, IInv
<1> QED BY <1>1, <1>2


LEMMA Invariance == Spec => []IInv
BY InitGood, InvariantStep, PTL DEF Spec

-----------------------------------------------------------------------------
(* What the invariant says of the download. *)

LEMMA JobTyped == IInv => TypeOK
<1> SUFFICES ASSUME IInv PROVE TypeOK
  OBVIOUS
<1>1. d \in LooseJob /\ RangesSound(d) /\ Errors(d, runs) /\ runs \in Nat /\ runs <= MaxRuns
  BY SizesAssumption DEF IInv, Sound
<1>2. /\ d.done \in Seq([start : File, end : File])
      /\ d.saved \in Seq([start : File, end : File])
  <2>1. /\ d.done \in Seq(Ranges) /\ Canonical(d.done) /\ Bytes(d.done) \subseteq File
        /\ d.saved \in Seq(Ranges) /\ Canonical(d.saved) /\ Bytes(d.saved) \subseteq File
    BY <1>1 DEF RangesSound, LooseJob
  <2> QED BY <2>1, RangesTyped
<1>3. d.errors \in 0..(MaxRetries + MaxRuns)
  <2>1. d.errors \in Nat /\ d.errors <= MaxRetries + runs
    BY <1>1 DEF LooseJob, Errors
  <2> QED BY <1>1, <2>1, SizesAssumption
<1>4. d \in Job
  BY <1>1, <1>2, <1>3 DEF LooseJob, Job, Slot, Stream, File
<1>5. faults \in 0..MaxFaults /\ runs \in 0..MaxRuns /\ {fellBack, diskFailed} \subseteq BOOLEAN
  BY DEF IInv
<1> QED BY <1>4, <1>5 DEF TypeOK

LEMMA WritersApart == IInv => OneWriterPerByte
<1> SUFFICES ASSUME IInv, NEW i \in Slots, InUse(d, i)
             PROVE  /\ d.slots[i].start + d.slots[i].received <= d.slots[i].end + 1
                    /\ d.slots[i].end < Total
                    /\ Free(Extent(d.slots[i]), InFlight(d, i))
  BY DEF OneWriterPerByte, Extent
<1>1. d \in LooseJob /\ SlotsSound(d)
  BY DEF IInv, Sound
<1>2. d.slots[i].end < Total
  BY <1>1, SlotFields
<1>3. d.slots[i].start + d.slots[i].received <= d.slots[i].end + 1
  BY <1>1 DEF SlotsSound, SlotSound
<1>4. ASSUME NEW r \in InFlight(d, i) PROVE ~Overlap(Extent(d.slots[i]), r)
  <2>1. i \in Nat
    BY Sizes
  <2>2. PICK j \in Slots : j # i /\ InUse(d, j) /\ r = Extent(d.slots[j])
    BY <1>1, <2>1, InFlightRanges
  <2> QED BY <1>1, <2>2 DEF SlotsSound, Apart
<1> QED BY <1>2, <1>3, <1>4 DEF Free

(* The slots of the job (schedule_idle_chunk_slots, slot_write_body,        *)
(* slot_begin_draining): every variable keeps its type, no two connections  *)
(* own the same byte and none writes past its reservation, a request goes   *)
(* only over a connection that has nothing more to send, and the event loop *)
(* of a running job always has a connection to poll or one to schedule.     *)
THEOREM ConnectionsAreSound == Spec => []SlotsAreSound
<1>1. IInv => CleanReuse
  BY DEF IInv, Sound, SlotsSound, SlotSound, CleanReuse
<1>2. IInv => NeverIdle
  BY DEF IInv, Settled, NeverIdle
<1>3. IInv => SlotsAreSound
  BY <1>1, <1>2, JobTyped, WritersApart DEF SlotsAreSound
<1> QED BY <1>3, Invariance, PTL

(* The order of drain_temp_file and download_state_save: as long as the     *)
(* writer has not failed, the ranges in state.json are in the temp file,    *)
(* whenever the process is killed.                                          *)
THEOREM StateIsTrue == Spec => []ContentBeforeState
<1>1. IInv => ContentBeforeState
  BY DEF IInv, Sound, Written, ContentBeforeState
<1> QED BY <1>1, Invariance, PTL

(* finalize_download completes a segmented download only when every byte of *)
(* it has reached the disk.                                                 *)
THEOREM CompletedIsOnDisk == Spec => []CompletedSegmentsAreWhole
<1>1. IInv => CompletedSegmentsAreWhole
  BY DEF IInv, Settled, CompletedSegmentsAreWhole, File
<1> QED BY <1>1, Invariance, PTL

(* What state.json says is done stays done, through restarts, failures and  *)
(* stops, until disable_segment_mode gives the ranges up.                   *)
THEOREM ProgressStays == Spec => SavedProgressStays
<1>1. ASSUME IInv, [Next]_vars
      PROVE  [fellBack' \/ Bytes(d.saved) \subseteq Bytes(d.saved)']_vars
  <2>1. CASE Next
    <3>1. Before
      BY <1>1, SizesAssumption DEF IInv, Before, Good
    <3>2. StepGood
      BY <2>1, <3>1, StepIsGood
    <3> QED BY <3>2 DEF StepGood, Stays, Bytes
  <2>2. CASE UNCHANGED vars
    BY <2>2
  <2> QED BY <1>1, <2>1, <2>2
<1> QED BY <1>1, Invariance, PTL DEF Spec, SavedProgressStays
=============================================================================
