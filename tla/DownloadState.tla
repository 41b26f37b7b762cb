--------------------------- MODULE DownloadState ----------------------------
(***************************************************************************)
(* The progress part of a download's state file: download_state.c keeps it *)
(* in memory, one job at a time, and everything the engine decides to      *)
(* request next is computed from it.                                       *)
(*                                                                         *)
(* The bytes of a download of unknown size are marked as one prefix; when  *)
(* the size is announced, or announced again by another answer, the ranges *)
(* are clipped to it.                                                      *)
(***************************************************************************)
EXTENDS DoneRanges

CONSTANTS MaxByte,    \* a bound: byte offsets are 0 .. MaxByte
          ChunkSizes  \* the chunk sizes of the configuration

ASSUME MaxByteAssumption == MaxByte \in Nat
ASSUME ChunkSizesAssumption == ChunkSizes \subseteq Nat \ {0}

VARIABLES total_size,       \* 0 until the server has said it
          done_ranges,
          bytes_downloaded, \* the counter kept beside the ranges
          marked            \* history: the bytes marked and inside the file

stateVars == <<total_size, done_ranges, bytes_downloaded, marked>>

ByteRange == [start : 0..MaxByte, end : 0..MaxByte]

(* download_state_create *)
StateInit ==
    /\ total_size = 0
    /\ done_ranges = <<>>
    /\ bytes_downloaded = 0
    /\ marked = {}

(* download_state_mark_range_done by the engine, with the counter refreshed *)
(* as persist_buffered_progress does.                                       *)
Mark(start, end) ==
    /\ start <= end
    /\ done_ranges' = MarkRangeDone(done_ranges, total_size, start, end)
    /\ marked' = marked \cup {b \in start..end : total_size = 0 \/ b < total_size}
    /\ bytes_downloaded' = BytesDone(done_ranges', bytes_downloaded)
    /\ UNCHANGED total_size

(* download_state_init_chunks *)
InitChunks(total) ==
    /\ total > 0
    /\ total_size' = total
    /\ done_ranges' = ClipRanges(done_ranges, total)
    /\ marked' = {b \in marked : b < total}
    /\ UNCHANGED bytes_downloaded

StateNext ==
    \/ \E start, end \in 0..MaxByte : Mark(start, end)
    \/ \E total \in 1..(MaxByte + 1) : InitChunks(total)

StateSpec == StateInit /\ [][StateNext]_stateVars

-----------------------------------------------------------------------------
StateTypeOK ==
    /\ total_size \in 0..(MaxByte + 1)
    /\ done_ranges \in Seq(ByteRange)
    /\ bytes_downloaded \in 0..(MaxByte + 1)
    /\ marked \subseteq 0..MaxByte

(* The array is sorted, its ranges do not touch, and they say exactly which *)
(* bytes were marked: the representation every reader of the array relies  *)
(* on (download_state.c:35-178).                                           *)
ExactRanges ==
    /\ Canonical(done_ranges)
    /\ Bytes(done_ranges) = marked

(* download_state_is_range_done answers yes to a range exactly when every  *)
(* byte of it has been marked, whatever order the bytes came in.           *)
DoneMeansEveryByte ==
    \A start, end \in 0..MaxByte :
        IsRangeDone(done_ranges, start, end) <=> start <= end /\ start..end \subseteq marked

(* Reading back the array that was saved gives the same array, so that a   *)
(* restart neither loses nor invents a byte (load_done_ranges).            *)
LoadRestores == LoadDoneRanges(done_ranges, total_size) = done_ranges

(* What the engine can have in flight beside a connection: nothing, or a   *)
(* range inside the file.                                                  *)
InFlightSets ==
    {{}} \cup {{[start |-> start, end |-> end]} :
                 start \in 0..(total_size - 1), end \in 0..(total_size - 1)}

(* What a scheduling round promises (segment_select_chunks): the segments  *)
(* it hands out are distinct, none is done, none shares a byte with a      *)
(* range in flight, and as many are handed out as there are connections to *)
(* feed and segments to give.                                              *)
SelectionSound ==
    total_size > 0 =>
    \A chunk \in ChunkSizes, inFlight \in InFlightSets,
       strategy \in {"balanced", "left-heavy"}, concurrency \in 1..3 :
    \A max \in 0..concurrency :
       LET picked == SelectChunks(strategy, done_ranges, total_size, chunk,
                                  inFlight, concurrency, max)
           missing(i) == SegmentRange(total_size, chunk, i).start
                           .. SegmentRange(total_size, chunk, i).end
           eligible == {i \in 0..((total_size - 1) \div chunk) :
                          /\ ~(missing(i) \subseteq marked)
                          /\ \A r \in inFlight : missing(i) \cap (r.start..r.end) = {}}
           chosen == {picked[k] : k \in DOMAIN picked}
       IN  /\ Cardinality(chosen) = Len(picked)
           /\ chosen \subseteq eligible
           /\ Len(picked) = Smallest({max, Cardinality(eligible)})

(* A connection that reserves on takes at most one chunk more, stays inside *)
(* the file and off the bytes of the others (segment_next_reserve_end).    *)
ReservationSound ==
    total_size > 0 =>
    \A chunk \in ChunkSizes, inFlight \in InFlightSets, end \in 0..(total_size - 1) :
       LET next == NextReserveEnd(done_ranges, total_size, chunk, inFlight, end)
       IN  /\ next \in end..(end + chunk)
           /\ next < total_size
           /\ \A r \in inFlight : ((end + 1)..next) \cap (r.start..r.end) = {}
           /\ next > end => ~(((end + 1)..next) \subseteq marked)
=============================================================================
