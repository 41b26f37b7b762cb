--------------------------- MODULE SegmentEngine ----------------------------
(***************************************************************************)
(* One segmented download (the DownloadJob of download.c): the connections *)
(* of its event loop, the temp file they write through the asynchronous    *)
(* writer, and the state file and list entry that outlive the process.     *)
(*                                                                         *)
(* Every connection asks for "bytes=<start>-", open-ended, and writes only *)
(* what it has reserved; a reservation grows while the next chunk is free. *)
(* What is left of a response after the reservation ends is drained, so    *)
(* that the connection can be used again, or cut off when it is too long.  *)
(* When a server stops honouring ranges the job falls back to one stream.  *)
(*                                                                         *)
(* The event loop is one thread, so a handler is one step; what runs at    *)
(* the same time is the writer, the servers and whoever stops, kills or    *)
(* restarts the job.  Handlers call one another, so each function of the C *)
(* code is written as a function from a job to a job.                      *)
(***************************************************************************)
EXTENDS DoneRanges

CONSTANTS Total,       \* bytes of the file, known from the state file
          Chunk,       \* seg_cfg.chunk_size
          Concurrency, \* seg_cfg.concurrency, more than one in segment mode
          DrainMax,    \* DL_DRAIN_MAX_BYTES
          MaxRetries,  \* resolve_max_retries
          MaxFaults,   \* a bound: faults of servers, disk and process
          MaxRuns      \* a bound: times the download is started

ASSUME SizesAssumption ==
    /\ Total \in Nat \ {0}
    /\ Chunk \in Nat \ {0}
    /\ Concurrency \in Nat \ {0, 1}
    /\ DrainMax \in Nat
    /\ MaxRetries \in Nat \ {0}
    /\ MaxFaults \in Nat /\ MaxRuns \in Nat

VARIABLES d,          \* the job, its file and what is on the disk
          faults,     \* faults so far
          runs,       \* runs so far
          fellBack,   \* history: segment mode has been given up
          diskFailed  \* history: the writer has lost bytes

vars == <<d, faults, runs, fellBack, diskFailed>>

Slots == 1..Concurrency

FreeSlot == [phase |-> "free", start |-> 0, end |-> 0, received |-> 0,
             persisted |-> 0, remaining |-> 0, wire |-> 0, keep |-> FALSE]

NoStream == [phase |-> "idle", received |-> 0, wire |-> 0]

Job == [run : {"none", "running", "ended", "failed"}, \* done and failed flags
        step : {"chunk", "stream"},
        slots : [Slots -> [phase : {"free", "sent", "streaming", "draining"},
                           start : 0..(Total-1), end : 0..(Total-1),
                           received : 0..Total, persisted : 0..Total,
                           remaining : 0..Total,  \* response_remaining
                           wire : 0..Total,       \* bytes the server still sends
                           keep : BOOLEAN]],      \* keep_alive
        stream : [phase : {"idle", "sent", "body"},
                  received : 0..Total, wire : 0..Total],
        deferred : BOOLEAN,                       \* schedule_deferred
        errors : 0..(MaxRetries + MaxRuns),       \* error_count
        done : Seq([start : 0..(Total-1), end : 0..(Total-1)]),
        temp : SUBSET (0..(Total-1)),             \* bytes given to the writer
        os : SUBSET (0..(Total-1)),               \* of them, in the file
        synced : SUBSET (0..(Total-1)),           \* of them, on the disk
        broken : BOOLEAN,                         \* the open file has failed
        saved : Seq([start : 0..(Total-1), end : 0..(Total-1)]), \* state.json
        unsupported : BOOLEAN,   \* the description says resume is unsupported
        status : {"queued", "downloading", "stopped", "paused", "completed", "failed"}]

Init ==
    /\ d = [run |-> "none", step |-> "chunk", slots |-> [i \in Slots |-> FreeSlot],
            stream |-> NoStream, deferred |-> FALSE, errors |-> 0, done |-> <<>>,
            temp |-> {}, os |-> {}, synced |-> {}, broken |-> FALSE,
            saved |-> <<>>, unsupported |-> FALSE, status |-> "queued"]
    /\ faults = 0
    /\ runs = 0
    /\ fellBack = FALSE
    /\ diskFailed = FALSE

-----------------------------------------------------------------------------
(* Progress and its publication. *)

InUse(x, i) == x.slots[i].phase # "free"

Pending(s) == s.phase = "streaming" /\ s.received > s.persisted

FileSize(bytes) == IF bytes = {} THEN 0 ELSE Largest(bytes) + 1

(* A mutant: the ranges are saved without waiting for the writer. *)
SaveUndrained(x) == IF x.broken THEN x ELSE [x EXCEPT !.saved = x.done]

(* drain_temp_file, and the save that it allows. *)
DrainAndSave(x) ==
    IF x.broken THEN x ELSE [x EXCEPT !.os = x.temp, !.saved = x.done]

(* persist_buffered_progress, forced.  The array of slots exists in stream *)
(* mode too, and then it has nothing to persist.                           *)
Persist(x) ==
    LET marked[n \in 0..Concurrency] ==
          IF n = 0 THEN x.done
          ELSE LET s == x.slots[n]
               IN  IF ~Pending(s) THEN marked[n - 1]
                   ELSE MarkRangeDone(marked[n - 1], Total, s.start + s.persisted,
                                      s.start + s.received - 1)
        persisted == [i \in Slots |->
                        IF ~Pending(x.slots[i]) THEN x.slots[i]
                        ELSE [x.slots[i] EXCEPT !.persisted = x.slots[i].received]]
    IN  IF \A i \in Slots : ~Pending(x.slots[i]) THEN x
        ELSE DrainAndSave([x EXCEPT !.done = marked[Concurrency], !.slots = persisted])

(* dm_item_upsert: sync_state_metadata saves whether or not the drain that *)
(* Persist made has succeeded.                                             *)
Upsert(x, status) ==
    LET y == Persist(x) IN [y EXCEPT !.saved = y.done, !.status = status]

(* dm_item_upsert_throttled publishes at most once a second. *)
Throttled(x, now) == IF now THEN Upsert(x, "downloading") ELSE x

SetError(x) == [x EXCEPT !.run = "failed"]

(* close_file: drains, syncs and closes. *)
CloseFile(x) ==
    IF x.broken THEN [x EXCEPT !.temp = x.os, !.broken = FALSE]
    ELSE [x EXCEPT !.os = x.temp, !.synced = x.temp]

(* finalize_download.  The move to the destination is taken to succeed;    *)
(* when it fails the job ends as it does when the close fails.             *)
Finalize(x) ==
    LET y == Persist(x)
        z == CloseFile(y)
        bytes == IF y.step = "stream" THEN y.stream.received ELSE RangeBytes(y.done)
    IN  IF y.broken \/ bytes < Total THEN SetError(z)
        ELSE [Upsert(z, "completed") EXCEPT !.run = "ended"]

(* A mutant: the failed range is not scheduled again. *)
NoteFailureQuiet(x) ==
    LET y == [x EXCEPT !.errors = @ + 1]
    IN  IF y.errors >= MaxRetries THEN Upsert(SetError(y), "failed")
        ELSE Upsert(y, "downloading")

(* record_recoverable_error, called by note_segment_failure *)
NoteFailure(x) ==
    LET y == [x EXCEPT !.errors = @ + 1]
    IN  IF y.errors >= MaxRetries THEN Upsert(SetError(y), "failed")
        ELSE [Upsert(y, "downloading") EXCEPT !.deferred = TRUE]

-----------------------------------------------------------------------------
(* Reservations and slots. *)

(* What the other slots hold: slot_collect_in_flight. *)
InFlight(x, i) ==
    {[start |-> x.slots[j].start, end |-> x.slots[j].end] :
        j \in {k \in Slots : k # i /\ InUse(x, k)}}

(* slot_try_extend_reservation *)
Extend(x, i) ==
    [x EXCEPT !.slots[i].end = NextReserveEnd(x.done, Total, Chunk, InFlight(x, i), @)]

CanExtend(x, i) == Extend(x, i).slots[i].end > x.slots[i].end

(* slot_prepare_write: the reservation grows until it holds len bytes or   *)
(* cannot grow.                                                            *)
Reserve(x, i, len) ==
    LET pos == x.slots[i].start + x.slots[i].received
        grown[n \in 0..Total] ==
          IF n = 0 THEN x
          ELSE LET y == grown[n - 1]
               IN  IF y.slots[i].end - pos + 1 >= len THEN y ELSE Extend(y, i)
    IN  IF pos > x.slots[i].end THEN x ELSE grown[Total]

(* A mutant: the over-read clamp is missing. *)
WriteBodyUnclamped(x, i, len) ==
    LET s == x.slots[i]
        pos == s.start + s.received
    IN  IF x.broken THEN SetError(x)
        ELSE [x EXCEPT !.temp = @ \cup pos..(pos + len - 1),
                       !.slots[i] = [s EXCEPT !.received = @ + len,
                                              !.remaining = Largest({0, @ - len})]]

(* slot_write_body: writes what the reservation holds and drops the rest. *)
WriteBody(x, i, len) ==
    LET y == Reserve(x, i, len)
        s == y.slots[i]
        pos == s.start + s.received
        n == Smallest({len, s.end - pos + 1})
    IN  IF n <= 0 THEN y
        ELSE IF y.broken THEN SetError(y)
        ELSE [y EXCEPT !.temp = @ \cup pos..(pos + n - 1),
                       !.slots[i] = [s EXCEPT !.received = @ + n,
                                              !.remaining = Largest({0, @ - n})]]

Release(x, i) == [x EXCEPT !.slots[i] = FreeSlot]

(* The request of a slot: what it had received is counted from there. *)
Request(x, i, range, keep, wire) ==
    [x EXCEPT !.slots[i] =
        [FreeSlot EXCEPT !.phase = "sent", !.start = range.start, !.end = range.end,
                         !.keep = keep, !.wire = wire]]

Select(x, i, max) ==
    LET picked == SelectChunks("balanced", x.done, Total, Chunk,
                               InFlight(x, i), Concurrency, max)
    IN  [k \in DOMAIN picked |-> SegmentRange(Total, Chunk, picked[k])]

(* A mutant: the whole reservation is marked, not what was received. *)
MarkReservationDone(x, i) ==
    LET s == x.slots[i]
    IN  DrainAndSave([x EXCEPT !.done = MarkRangeDone(@, Total, s.start, s.end),
                               !.slots[i].persisted = s.received])

(* slot_mark_segment_done, for a slot that has received something. *)
MarkSegmentDone(x, i) ==
    LET s == x.slots[i]
        last == s.start + s.received - 1
    IN  IF IsRangeDone(x.done, s.start, last) THEN x
        ELSE DrainAndSave([x EXCEPT !.done = MarkRangeDone(@, Total, s.start, last),
                                    !.slots[i].persisted = s.received])

(* slot_finish_continuous: the slot has all it can have of this response.  *)
(* The connection goes on with another segment, or is given up.            *)
FinishContinuous(x, i, now) ==
    LET s == x.slots[i]
        marked == MarkSegmentDone(x, i)
        y == Throttled([marked EXCEPT !.slots[i].received = 0,
                                      !.slots[i].remaining = 0], now)
        next == Select(y, i, 1)
    IN  IF s.received = 0 THEN NoteFailure(Release(x, i))
        ELSE IF AllChunksDone(y.done, Total) THEN Finalize(Release(y, i))
        ELSE IF s.keep /\ next # <<>> THEN Request(y, i, next[1], TRUE, s.wire)
        ELSE [Release(y, i) EXCEPT !.deferred = TRUE]

(* The end of on_connection_closed for a slot. *)
FinishOrSchedule(x) ==
    IF AllChunksDone(x.done, Total) THEN Finalize(x) ELSE [x EXCEPT !.deferred = TRUE]

(* on_connection_closed for the connection of slot i; complete_chunk_slot  *)
(* keeps what the slot has received.                                       *)
ConnectionClosed(x, i, now) ==
    LET s == x.slots[i]
        last == s.start + s.received - 1
    IN  IF s.phase = "sent" /\ AllChunksDone(x.done, Total) THEN Finalize(Release(x, i))
        ELSE IF s.received = 0 THEN NoteFailure(Release(x, i))
        ELSE IF IsRangeDone(x.done, s.start, last) THEN FinishOrSchedule(Release(x, i))
        ELSE FinishOrSchedule(Throttled(Release(MarkSegmentDone(x, i), i), now))

-----------------------------------------------------------------------------
(* Starting, scheduling, stopping. *)

Running == d.run = "running"

Fault == faults < MaxFaults /\ faults' = faults + 1

NoFault == UNCHANGED faults

NoHistory == UNCHANGED <<runs, fellBack, diskFailed>>

(* A mutant: the job that starts forgets what the last one saved. *)
StartAfresh ==
    /\ d.run = "none"
    /\ d.status # "completed"
    /\ runs < MaxRuns
    /\ runs' = runs + 1
    /\ d' = [d EXCEPT !.run = "running", !.status = "downloading", !.done = <<>>,
                      !.saved = <<>>, !.step = "chunk", !.stream = NoStream,
                      !.deferred = TRUE]
    /\ UNCHANGED <<faults, fellBack, diskFailed>>

(* download_run for the item: the state is loaded, the item is published   *)
(* as downloading and prepare_chunk_download decides how to go on.  With   *)
(* nothing missing it chooses the stream, from the size of the temp file.  *)
Start ==
    /\ d.run = "none"
    /\ d.status # "completed"
    /\ runs < MaxRuns
    /\ runs' = runs + 1
    /\ LET whole == AllChunksDone(d.saved, Total)
       IN  d' = [d EXCEPT !.run = "running", !.status = "downloading",
                          !.done = LoadDoneRanges(d.saved, Total),
                          !.step = IF whole THEN "stream" ELSE "chunk",
                          !.stream = [NoStream EXCEPT !.received =
                                        IF whole THEN FileSize(d.os) ELSE 0],
                          !.deferred = TRUE]
    /\ UNCHANGED <<faults, fellBack, diskFailed>>

(* The k-th range selected goes to the k-th free slot. *)
Connect(x, ranges) ==
    LET free == Ascending({i \in Slots : ~InUse(x, i)}, Concurrency)
        connected[n \in 0..Len(ranges)] ==
          IF n = 0 THEN x
          ELSE Request(connected[n - 1], free[n], ranges[n], TRUE, 0)
    IN  connected[Len(ranges)]

(* schedule_pending_chunks *)
SchedulePendingChunks(x) ==
    LET active == Cardinality({i \in Slots : InUse(x, i)})
    IN  IF AllChunksDone(x.done, Total) THEN Finalize(x)
        ELSE IF active >= Concurrency THEN x
        ELSE Connect(x, Select(x, 0, Concurrency - active))

(* The loop of run_download_inner after a poll: schedule_next.  A          *)
(* connection that cannot even be created fails the job.                   *)
ScheduleNext ==
    /\ Running
    /\ d.deferred
    /\ LET x == [d EXCEPT !.deferred = FALSE]
       IN  \/ /\ d' = IF x.step = "chunk" THEN SchedulePendingChunks(x)
                      ELSE [x EXCEPT !.stream.phase = "sent"]
              /\ NoFault
           \/ d' = SetError(x) /\ Fault
    /\ NoHistory

(* cancel_requested and pause_requested, seen between two polls. *)
StopOrPause(status) ==
    /\ Running
    /\ d' = [Upsert(d, status) EXCEPT !.run = "ended"]
    /\ UNCHANGED faults
    /\ NoHistory

(* job_free, when the loop has ended. *)
JobFree ==
    /\ d.run \in {"ended", "failed"}
    /\ d' = [CloseFile(d) EXCEPT !.run = "none", !.slots = [i \in Slots |-> FreeSlot],
                                 !.stream = NoStream, !.deferred = FALSE, !.done = <<>>]
    /\ UNCHANGED faults
    /\ NoHistory

(* The process dies: the bytes its writer still had are lost. *)
Crash ==
    /\ d.run # "none"
    /\ Fault
    /\ d' = [d EXCEPT !.run = "none", !.slots = [i \in Slots |-> FreeSlot],
                      !.stream = NoStream, !.deferred = FALSE, !.done = <<>>,
                      !.temp = d.os, !.broken = FALSE]
    /\ NoHistory

(* The worker of the asynchronous file hands bytes to the system, or fails *)
(* and accepts no more.                                                    *)
WriterFlush ==
    /\ d.run # "none"
    /\ ~d.broken
    /\ d.os # d.temp
    /\ d' = [d EXCEPT !.os = d.temp]
    /\ UNCHANGED faults
    /\ NoHistory

WriterFail ==
    /\ d.run # "none"
    /\ ~d.broken
    /\ d.os # d.temp
    /\ Fault
    /\ d' = [d EXCEPT !.broken = TRUE]
    /\ diskFailed' = TRUE
    /\ UNCHANGED <<runs, fellBack>>

-----------------------------------------------------------------------------
(* The connections of the segments. *)

(* handle_response_headers and begin_chunk_body: 206, with the first k     *)
(* bytes of the body, from a server that may want to close afterwards.     *)
PartialContent(i, k, keep) ==
    /\ Running
    /\ d.step = "chunk"
    /\ d.slots[i].phase = "sent"
    /\ LET s == d.slots[i]
           left == Total - s.start
           x == [d EXCEPT !.errors = 0,
                          !.slots[i] = [s EXCEPT !.phase = "streaming",
                                                 !.keep = s.keep /\ keep,
                                                 !.remaining = left,
                                                 !.wire = left - k]]
           y == WriteBody(x, i, k)
       IN  /\ k <= left
           /\ d' = IF y.run = "failed" THEN y ELSE Upsert(y, "downloading")
    /\ NoFault
    /\ NoHistory

(* disable_segment_mode, on a status other than 206 or a chunked body: the *)
(* job goes on with one stream, from the size of the temp file.            *)
FallBack(i) ==
    /\ Running
    /\ d.step = "chunk"
    /\ d.slots[i].phase = "sent"
    /\ Fault
    /\ LET x == CloseFile(d)
       IN  d' = [x EXCEPT !.step = "stream", !.done = <<>>, !.deferred = TRUE,
                          !.slots = [j \in Slots |-> FreeSlot],
                          !.stream = [NoStream EXCEPT !.received = FileSize(x.os)]]
    /\ fellBack' = TRUE
    /\ UNCHANGED <<runs, diskFailed>>

(* A mutant: the request that follows the cut goes over the connection cut. *)
CutOffKept(x, i) == x

(* A response whose rest is too long to drain takes its connection along.  *)
CutOff(x, i) == [x EXCEPT !.slots[i].keep = FALSE]

(* MG_EV_READ on a segment that is being written. *)
ReadBody(i, k, now) ==
    /\ Running
    /\ d.slots[i].phase = "streaming"
    /\ k <= d.slots[i].wire
    /\ LET y == WriteBody([d EXCEPT !.slots[i].wire = @ - k], i, k)
           s == y.slots[i]
           full == s.start + s.received = s.end + 1
       IN  d' = IF y.run = "failed" THEN y
                ELSE IF full /\ ~CanExtend(y, i)
                THEN IF s.remaining > DrainMax
                     THEN FinishContinuous(CutOff(y, i), i, now)
                     ELSE [y EXCEPT !.slots[i].phase = "draining"]
                ELSE LET z == IF full THEN Extend(y, i) ELSE y
                     IN  IF s.remaining = 0 /\ s.received > 0
                         THEN FinishContinuous(z, i, now)
                         ELSE Throttled(z, now)
    /\ NoFault
    /\ NoHistory

(* MG_EV_READ on a segment that discards the rest of its response. *)
DrainBody(i, k, now) ==
    /\ Running
    /\ d.slots[i].phase = "draining"
    /\ k <= d.slots[i].wire
    /\ LET y == [d EXCEPT !.slots[i].wire = @ - k,
                          !.slots[i].remaining = Largest({0, @ - k})]
       IN  d' = IF y.slots[i].remaining = 0 THEN FinishContinuous(y, i, now) ELSE y
    /\ NoFault
    /\ NoHistory

(* The connection breaks, or the server closes it early. *)
Drop(i, now) ==
    /\ Running
    /\ InUse(d, i)
    /\ Fault
    /\ d' = ConnectionClosed(d, i, now)
    /\ NoHistory

(* DL_IDLE_TIMEOUT_MS, or the server's own timeout: nothing comes any more. *)
Idle(i, now) ==
    /\ Running
    /\ d.slots[i].phase \in {"streaming", "draining"}
    /\ d.slots[i].wire = 0
    /\ d' = ConnectionClosed(d, i, now)
    /\ NoFault
    /\ NoHistory

-----------------------------------------------------------------------------
(* The stream the job falls back to. *)

ResumeUnsupported(x) ==
    [Upsert(CloseFile(x), "stopped") EXCEPT !.run = "ended", !.unsupported = TRUE]

(* The answer to "bytes=<received>-", or to no range for an empty file. *)
StreamAnswer ==
    /\ Running
    /\ d.stream.phase = "sent"
    /\ \/ /\ d.stream.received < Total
          /\ d' = [Upsert(d, "downloading") EXCEPT
                      !.errors = 0, !.stream.phase = "body",
                      !.stream.wire = Total - d.stream.received]
          /\ UNCHANGED faults
       \/ /\ d.stream.received >= Total            \* 416
          /\ d' = ResumeUnsupported(d)
          /\ UNCHANGED faults
       \/ /\ d.stream.received > 0                 \* 200: the server ignores ranges
          /\ Fault
          /\ d' = ResumeUnsupported(d)
       \/ /\ d' = SetError(d)                      \* 4xx, 5xx
          /\ Fault
    /\ UNCHANGED <<runs, fellBack, diskFailed>>

(* append_stream *)
StreamRead(k, now) ==
    /\ Running
    /\ d.stream.phase = "body"
    /\ k <= d.stream.wire
    /\ LET pos == d.stream.received
           x == [d EXCEPT !.stream.received = @ + k, !.stream.wire = @ - k,
                          !.temp = @ \cup pos..(pos + k - 1)]
       IN  d' = IF d.broken THEN SetError(d) ELSE Throttled(x, now)
    /\ NoFault
    /\ NoHistory

(* on_connection_closed in stream mode: at the end of the body, or early;  *)
(* before the headers a stream that has bytes is taken to be finished.     *)
StreamClosed ==
    /\ Running
    /\ d.stream.phase # "idle"
    /\ d' = IF \/ (d.stream.phase = "body" /\ d.stream.received < Total)
                \/ d.stream.received = 0
            THEN Upsert(SetError(d), "failed")
            ELSE Finalize(d)
    /\ IF (d.stream.phase = "body" /\ d.stream.wire = 0) THEN NoFault ELSE Fault
    /\ NoHistory

SlotStep(i) ==
    \/ \E k \in 0..Total, keep \in BOOLEAN : PartialContent(i, k, keep)
    \/ FallBack(i)
    \/ \E now \in BOOLEAN :
         \/ \E k \in 1..Total : ReadBody(i, k, now) \/ DrainBody(i, k, now)
         \/ Drop(i, now)
         \/ Idle(i, now)

Next ==
    \/ Start
    \/ ScheduleNext
    \/ \E status \in {"stopped", "paused"} : StopOrPause(status)
    \/ JobFree
    \/ Crash
    \/ WriterFlush
    \/ WriterFail
    \/ \E i \in Slots : SlotStep(i)
    \/ StreamAnswer
    \/ \E k \in 1..Total, now \in BOOLEAN : StreamRead(k, now)
    \/ StreamClosed

SlotWork(i) ==
    \/ \E k \in 0..Total, keep \in BOOLEAN : PartialContent(i, k, keep)
    \/ \E now \in BOOLEAN :
         \/ \E k \in 1..Total : ReadBody(i, k, now) \/ DrainBody(i, k, now)
         \/ Idle(i, now)

StreamWork ==
    \/ StreamAnswer
    \/ \E k \in 1..Total, now \in BOOLEAN : StreamRead(k, now)
    \/ d.stream.wire = 0 /\ d.stream.phase = "body" /\ StreamClosed

(* The loop runs, servers answer and send on, and a silent connection is   *)
(* given up in the end; nobody has to stop, kill or start a job.  This is  *)
(* WF_vars(ScheduleNext), WF_vars(SlotWork(i)) and WF_vars(StreamWork)     *)
(* with ENABLED written out: each of them always has a step, and a step    *)
(* that changes d, when the job runs and has that work to do.              *)
Fairness ==
    /\ []<>~(Running /\ d.deferred) \/ []<><<ScheduleNext>>_vars
    /\ \A i \in Slots : []<>~(Running /\ InUse(d, i)) \/ []<><<SlotWork(i)>>_vars
    /\ []<>~(Running /\ d.stream.phase # "idle") \/ []<><<StreamWork>>_vars

Spec == Init /\ [][Next]_vars /\ Fairness

-----------------------------------------------------------------------------
TypeOK ==
    /\ d \in Job
    /\ faults \in 0..MaxFaults
    /\ runs \in 0..MaxRuns
    /\ {fellBack, diskFailed} \subseteq BOOLEAN

(* Two connections never own the same byte, and neither writes a byte it   *)
(* does not own, however the responses overlap (DESIGN.md, "no byte range  *)
(* is ever written by two operations").                                    *)
OneWriterPerByte ==
    d.run = "running" =>
    \A i \in Slots : InUse(d, i) =>
        /\ d.slots[i].start + d.slots[i].received <= d.slots[i].end + 1
        /\ d.slots[i].end < Total
        /\ Free([start |-> d.slots[i].start, end |-> d.slots[i].end], InFlight(d, i))

(* A connection is used for another request only when the response before  *)
(* it has been consumed to its last byte (the drain policy of DESIGN.md).  *)
CleanReuse == \A i \in Slots : d.slots[i].phase = "sent" => d.slots[i].wire = 0

(* What state.json claims is in the file, as long as the disk works:       *)
(* killing the process at any moment loses bytes, never the truth.         *)
ContentBeforeState == ~diskFailed => Bytes(d.saved) \subseteq d.os

(* A completed download is complete, and on the disk, whatever its         *)
(* connections went through, as long as it stayed in segment mode and the  *)
(* disk worked.                                                            *)
CompletedSegmentsAreWhole ==
    d.status = "completed" /\ ~fellBack /\ ~diskFailed => d.synced = 0..(Total - 1)

(* While a segmented job runs, a connection is at work or one is about to  *)
(* be scheduled: no path through the handlers leaves the loop polling      *)
(* nothing for ever.                                                       *)
NeverIdle ==
    d.run = "running" =>
        \/ d.deferred
        \/ d.stream.phase # "idle"
        \/ \E i \in Slots : InUse(d, i)

(* The slots are sound: what they hold has its type, no byte has two       *)
(* owners, no connection is used too early, and the loop never waits for    *)
(* nothing (schedule_idle_chunk_slots, slot_begin_draining).                *)
SlotsAreSound == TypeOK /\ OneWriterPerByte /\ CleanReuse /\ NeverIdle

(* Progress that was saved is never lost again, by a restart, a failure or *)
(* a stop, until ranges are given up for a stream.                         *)
SavedProgressStays ==
    [][fellBack' \/ Bytes(d.saved) \subseteq Bytes(d.saved)']_vars

(* A job ends: completed, stopped, or failed when the retries are used up. *)
JobEnds == (d.run = "running") ~> (d.run # "running")

-----------------------------------------------------------------------------
(* What the documents promise and the code does not do. *)

(* A fall-back to one stream completes the file (the integration test of a *)
(* refused range compares it byte by byte).  The stream goes on from the   *)
(* size of the temp file, which has holes below it.                        *)
CompletedIsWhole == d.status = "completed" /\ ~diskFailed => d.os = 0..(Total - 1)
=============================================================================
