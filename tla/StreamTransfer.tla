--------------------------- MODULE StreamTransfer ---------------------------
(* A download on one connection (download.c without slots): the stream of   *)
(* a file whose size is not known yet, the sequential ranges of one whose   *)
(* size is, redirects, the switch to segments (where SegmentEngine begins), *)
(* the fall-back from ranges, restarts from a saved state.                  *)
(*                                                                          *)
(* A response is its remaining bytes on the wire, the last one followed by  *)
(* EndOfChunks when it is chunked; byte i of the body is the number i, a    *)
(* wrong byte or a hole of the file is 0.  A connection that is told to     *)
(* drain closes before anything else happens, as in mongoose; what it still *)
(* holds is then looked at once more.                                       *)
EXTENDS DoneRanges

CONSTANTS
    Total,          \* the size of the body
    ChunkSize,      \* of a sequential range
    MaxRedirects,   \* DL_MAX_REDIRECTS
    MaxFaults,      \* connections lost, servers failing
    MaxRuns         \* jobs of this download

(* What an instance has to give these constants. *)
StreamAssumption ==
    /\ {Total, ChunkSize, MaxRuns} \subseteq Nat \ {0}
    /\ {MaxRedirects, MaxFaults} \subseteq Nat

VARIABLES
    server,      \* how the server answers
    segmentable, \* concurrency and size are enough for segments
    run,         \* the job: none, running, over, or handed to SegmentEngine
    j,           \* the fields of DownloadJob
    net,         \* the connection: what it is doing, what is on the wire
    file,        \* the temp file: on the disk, and what the writer still has
    saved,       \* state.json: total_size and done_ranges
    status,      \* the status of the entry
    dest,        \* the file in the download directory
    faults, runs,
    spoilt,      \* history: a redirect's body was taken for a range, or the
                 \* answer to a range for that of a stream
    blind        \* history: a job ended well without ever knowing the size

vars == <<server, segmentable, run, j, net, file, saved, status, dest, faults, runs, spoilt, blind>>

Framings == {"length", "chunked", "close"}
Servers == [ranges : {"yes", "ignored", "refused"}, framing : Framings, keeps : BOOLEAN,
            hop : {"none", "empty", "body", "partial"}]

Job0 == [step |-> "stream", deferred |-> FALSE, rescheduled |-> FALSE, segments |-> FALSE,
         headers |-> FALSE, streaming |-> FALSE, redirects |-> 0, hopped |-> FALSE,
         useRanges |-> TRUE, disabled |-> FALSE, keep |-> TRUE,
         received |-> 0, expected |-> 0, chunked |-> FALSE, complete |-> FALSE,
         range |-> [start |-> 0, end |-> 0], got |-> 0, want |-> 0,
         total |-> 0, done |-> <<>>]
Down == [at |-> "none", wire |-> <<>>, left |-> "nothing"]
Closing(left) == [at |-> "draining", wire |-> <<>>, left |-> left]
Holding(left, answer) == [Closing(left) EXCEPT !.wire = answer]

Init == /\ server \in Servers
        /\ segmentable \in BOOLEAN
        /\ run = "none"
        /\ j = Job0
        /\ net = Down
        /\ file = [os |-> <<>>, pending |-> <<>>]
        /\ saved = [total |-> 0, done |-> <<>>]
        /\ status = "queued"
        /\ dest = <<>>
        /\ faults = 0 /\ runs = 0
        /\ spoilt = FALSE /\ blind = FALSE

Fault == faults < MaxFaults /\ faults' = faults + 1
Running == run = "running"
history == <<runs, spoilt, blind>>
world == <<server, segmentable>>

---------------------------------------------------------------------------
(* The temp file.  A write goes to an offset, or to the end of the file when
   it was opened to append; bytes below it that were never written are holes. *)
Length(f, n) == Largest({Len(f.os)} \cup {f.pending[k].at : k \in 1..n})
Writes(f, n, i) == {k \in 1..n : f.pending[k].at = i}
Written(f, n) ==
    [i \in 1..Length(f, n) |->
        IF Writes(f, n, i) # {} THEN f.pending[Largest(Writes(f, n, i))].byte
        ELSE IF i <= Len(f.os) THEN f.os[i] ELSE 0]
Given(f) == Written(f, Len(f.pending))
Write(f, at, bytes) ==
    [f EXCEPT !.pending = @ \o [i \in 1..Len(bytes) |-> [at |-> at + i, byte |-> bytes[i]]]]
(* close_file *)
Flushed(f) == [os |-> Given(f), pending |-> <<>>]

(* The writer passes some of its bytes to the system. *)
Flush == /\ file.pending # <<>>
         /\ \E n \in 1..Len(file.pending) :
               file' = [os |-> Written(file, n), pending |-> SubSeq(file.pending, n + 1, Len(file.pending))]
         /\ UNCHANGED <<world, run, j, net, saved, status, dest, faults, history>>

(* download_state_save and _load: the ranges are cut to a size that is known,
   and merged. *)
Stored(x) == [total |-> x.total, done |-> x.done]
Restored(s) == [Job0 EXCEPT !.total = s.total, !.done = LoadDoneRanges(s.done, s.total)]

(* dm_item_upsert, which saves the state without draining the writer. *)
Upsert(x, s) == status' = s /\ saved' = Stored(x)
(* The job is done; publishing that is up to the caller. *)
End(x) == /\ run' = "over"
          /\ j' = [x EXCEPT !.deferred = FALSE]
          /\ net' = Down
Publish(x, s) == End(x) /\ Upsert(x, s)
(* set_error alone: the entry keeps the status it had. *)
SetError(x) == End(x) /\ UNCHANGED <<status, saved>>
ResumeUnsupported(x) ==
    /\ Publish(x, "stopped")
    /\ file' = Flushed(file)
    /\ UNCHANGED <<dest, blind>>

(* Mutant: the size is compared only for ranges. *)
EnoughOfRanges(x) ==
    x.total = 0 \/ x.step = "stream" \/ RangeBytes(x.done) >= x.total

Enough(x) ==
    x.total = 0 \/ (IF x.step = "stream" THEN x.received ELSE RangeBytes(x.done)) >= x.total

(* finalize_download: the file is closed, its size compared when it is
   known, and moved. *)
Finalize(x, f) ==
    /\ IF Enough(x)
       THEN /\ Publish(x, "completed")
            /\ dest' = Given(f)
            /\ file' = [os |-> <<>>, pending |-> <<>>]
            /\ blind' = (blind \/ (x.total = 0 /\ ~x.chunked))
       ELSE SetError(x) /\ file' = Flushed(f) /\ UNCHANGED <<dest, blind>>

---------------------------------------------------------------------------
(* The start and the end of a job. *)

(* Mutant: the first range is pending for ever. *)
PendingAll(x) == 0..SegmentCount(x.total, ChunkSize) - 1

(* next_pending_segment *)
Pending(x) == {i \in 0..SegmentCount(x.total, ChunkSize) - 1 :
                  ~IsSegmentDone(x.done, x.total, ChunkSize, i)}
Take(x) == [x EXCEPT !.range = SegmentRange(x.total, ChunkSize, Smallest(Pending(x)))]

(* run_download_for_item_id, prepare_chunk_download and run_download_inner
   up to its first request. *)
Start ==
    /\ run = "none" /\ runs < MaxRuns /\ status # "completed"
    /\ runs' = runs + 1
    /\ LET x == Restored(saved)
           ranges == x.total > 0 /\ ~AllChunksDone(x.done, x.total)
       IN \/ /\ ranges /\ segmentable
             /\ run' = "segments" /\ j' = x /\ UNCHANGED net
          \/ /\ ranges /\ ~segmentable
             /\ run' = "running" /\ j' = Take([x EXCEPT !.step = "chunk"])
             /\ net' = [Down EXCEPT !.at = "connecting"]
          \/ /\ ~ranges
             /\ run' = "running" /\ j' = [x EXCEPT !.received = Len(file.os)]
             /\ net' = [Down EXCEPT !.at = "connecting"]
    /\ status' = "downloading"
    /\ UNCHANGED <<world, file, saved, dest, faults, spoilt, blind>>

(* schedule_next, from the loop of the job. *)
Fresh(x) == [x EXCEPT !.deferred = FALSE, !.headers = FALSE, !.streaming = FALSE,
                      !.got = 0, !.want = 0]
Schedule ==
    /\ Running /\ j.deferred /\ net.at # "draining"
    /\ IF j.step = "chunk" /\ Pending(j) = {}
       THEN Finalize(Fresh(j), file)
       ELSE /\ j' = IF j.step = "chunk" THEN Take(Fresh(j)) ELSE Fresh(j)
            /\ net' = [Down EXCEPT !.at = "connecting"]
            /\ UNCHANGED <<run, file, saved, status, dest, blind>>
    /\ UNCHANGED <<world, faults, runs, spoilt>>

(* A stop or a pause, seen by the loop. *)
StopOrPause == /\ Running /\ net.at # "draining"
               /\ \E s \in {"stopped", "paused"} : Publish(j, s)
               /\ UNCHANGED <<world, file, dest, faults, history>>

(* job_free *)
JobFree == /\ run = "over"
         /\ run' = "none" /\ j' = Job0
         /\ file' = Flushed(file)
         /\ UNCHANGED <<world, net, saved, status, dest, faults, history>>

(* The process dies: what the writer had is lost. *)
Crash == /\ run \in {"running", "over"}
         /\ Fault
         /\ run' = "none" /\ j' = Job0 /\ net' = Down
         /\ file' = [file EXCEPT !.pending = <<>>]
         /\ UNCHANGED <<world, saved, status, dest, history>>

---------------------------------------------------------------------------
(* The answer. *)

(* MG_EV_CONNECT and send_request_for_slot. *)
Connected == /\ Running /\ net.at = "connecting" /\ ~j.deferred
             /\ net' = [net EXCEPT !.at = "asked"]
             /\ j' = [j EXCEPT !.headers = FALSE, !.streaming = FALSE]
             /\ UNCHANGED <<world, run, file, saved, status, dest, faults, history>>

(* Where the requested part of the body begins and ends; a server without
   ranges sends all of it. *)
EndOfChunks == 0
Part(x) == IF server.ranges # "yes" THEN [start |-> 0, end |-> Total - 1]
           ELSE IF x.step = "chunk" THEN x.range
           ELSE [start |-> x.received, end |-> Total - 1]
Body(x) == [i \in 1..Part(x).end - Part(x).start + 1 |-> Part(x).start + i]
             \o (IF server.framing = "chunked" THEN <<EndOfChunks>> ELSE <<>>)
Partial == server.ranges = "yes"

(* Mutant: one redirect more than the limit. *)
TooManyLate(x) == x.redirects > MaxRedirects

TooMany(x) == x.redirects >= MaxRedirects

(* handle_redirect; the answer is looked at again when the connection closes
   with it. *)
Redirect(x) ==
    IF TooMany(x)
    THEN SetError(x) /\ UNCHANGED <<file, dest, spoilt, blind>>
    ELSE LET y == [x EXCEPT !.redirects = @ + 1, !.hopped = TRUE, !.headers = FALSE,
                            !.streaming = FALSE, !.rescheduled = TRUE]
         IN /\ j' = y
            /\ net' = Closing(IF server.hop = "partial" /\ net.left = "nothing"
                              THEN "redirect" ELSE "seen")
            /\ UNCHANGED <<run, file, saved, status, dest, spoilt, blind>>

(* MG_EV_HTTP_MSG after a redirect in the middle of ranges: its body is
   written where the range was to go, and the range marked. *)
RedirectBody ==
    /\ Running /\ net.at = "asked" /\ ~j.hopped
    /\ server.hop = "body" /\ j.step = "chunk" /\ ~TooMany(j)
    /\ LET x == [j EXCEPT !.redirects = @ + 1, !.hopped = TRUE, !.headers = FALSE,
                          !.rescheduled = TRUE]
           y == [x EXCEPT !.done = MarkRangeDone(@, x.total, x.range.start, x.range.start)]
           f == Write(file, x.range.start, <<0>>)
       IN \/ /\ AllChunksDone(y.done, y.total)
             /\ Finalize(y, f)
          \/ /\ ~AllChunksDone(y.done, y.total)
             /\ j' = y
             /\ file' = f
             /\ net' = Closing("seen")
             /\ UNCHANGED <<run, dest, blind>>
             /\ Upsert(y, "downloading") \/ UNCHANGED <<status, saved>>
    /\ spoilt' = TRUE
    /\ UNCHANGED <<world, faults, runs>>

RedirectAnswer ==
    /\ Running /\ net.at = "asked" /\ ~j.hopped /\ server.hop # "none"
    /\ ~(server.hop = "body" /\ j.step = "chunk")
    /\ Redirect(j)
    /\ UNCHANGED <<world, faults, runs>>

(* disable_segment_mode: on with a stream, from the size of the temp file.  An
   answer that came as a whole has been taken off the connection; of any other
   the connection holds what it has. *)
Disabled(x, f) == [x EXCEPT !.step = "stream", !.useRanges = FALSE, !.disabled = TRUE,
                            !.deferred = TRUE, !.done = <<>>, !.received = Len(Given(f)),
                            !.expected = 0, !.got = 0, !.want = 0, !.headers = FALSE,
                            !.streaming = FALSE]
FallBack(x, held) ==
    /\ j' = Disabled(x, file)
    /\ file' = Flushed(file)
    /\ net' \in {held, Closing("seen")}
    /\ UNCHANGED <<run, saved, status, dest, blind>>

(* An error status. *)
ErrorAnswer ==
    /\ Running /\ net.at = "asked"
    /\ Fault
    /\ IF j.step = "chunk"
       THEN FallBack(j, Closing("error"))
       ELSE SetError(j) /\ UNCHANGED <<file, dest, blind>>
    /\ UNCHANGED <<world, runs, spoilt>>

(* What the headers tell: Accept-Ranges, Content-Range, Content-Length. *)
Told(x) ==
    LET y == [x EXCEPT
                !.headers = TRUE,
                !.keep = @ /\ server.keeps,
                !.useRanges = IF x.disabled THEN @ ELSE server.ranges # "refused",
                !.chunked = IF x.step = "stream" THEN server.framing = "chunked" ELSE @,
                !.complete = FALSE]
        z == [y EXCEPT !.total = IF @ = 0 /\ Partial /\ x.received > 0 THEN Total ELSE @]
        len == Part(x).end - Part(x).start + 1
    IN IF server.framing # "length" THEN [z EXCEPT !.want = x.range.end - x.range.start + 1]
       ELSE IF x.step = "chunk" THEN [z EXCEPT !.want = len]
       ELSE IF x.expected # 0 THEN z
       ELSE [z EXCEPT !.expected = x.received + len,
                      !.total = IF @ = 0 THEN x.received + len ELSE @]

(* can_enable_segment_mode *)
CanSegment(x) == /\ segmentable /\ x.useRanges /\ ~x.disabled
                 /\ x.received = 0 /\ x.total > 0

(* append_stream, or write_at_offset for a range.  Only a stream that has
   received nothing looks at the size of the file. *)
Place(x, f) == IF x.step = "chunk" THEN x.range.start + x.got
               ELSE IF x.received = 0 THEN Len(Given(f)) ELSE x.received
Whole(bytes) == bytes # <<>> /\ bytes[Len(bytes)] = EndOfChunks
Payload(bytes) == IF Whole(bytes) THEN SubSeq(bytes, 1, Len(bytes) - 1) ELSE bytes
Counted(x, f, n) == IF n = 0 THEN x
                    ELSE IF x.step = "chunk" THEN [x EXCEPT !.got = @ + n]
                    ELSE [x EXCEPT !.received = Place(x, f) + n]
Consume(x, f, bytes) ==
    [job |-> Counted([x EXCEPT !.complete = @ \/ Whole(bytes)], f, Len(Payload(bytes))),
     file |-> Write(f, Place(x, f), Payload(bytes))]

(* A resumed stream that is sent nothing (416) or everything (200). *)
Rejected(x) == x.step = "stream" /\ x.received > 0 /\ (~Partial \/ x.received >= Total)

(* Mutant: whatever comes is written where the range begins. *)
UnusableChunked(x) == x.step = "chunk" /\ server.framing = "chunked"

(* A range that is sent as a whole file or without its length. *)
Unusable(x) == x.step = "chunk" /\ (~Partial \/ server.framing = "chunked")

(* handle_response_headers, for an answer that is neither a redirect nor an
   error, with the first n bytes of its body: begin_stream_body and
   begin_chunk_body.  No more can come of a connection that has closed. *)
Headers(x, body, n, open) ==
    LET y == Told(x)
        switch == x.step = "stream" /\ CanSegment(y)
        read == Consume([y EXCEPT !.streaming = open], file, SubSeq(body, 1, n))
    IN \/ Rejected(x) /\ ResumeUnsupported(x)
       \/ Unusable(x) /\ FallBack(x, Holding("answer", body))
       \/ /\ ~Rejected(x) /\ switch
          /\ j' = [y EXCEPT !.segments = TRUE, !.deferred = TRUE]
          /\ net' = Closing("seen")
          /\ UNCHANGED <<run, file, saved, status, dest, blind>>
       \/ /\ ~Rejected(x) /\ ~Unusable(x) /\ ~switch
          /\ j' = read.job /\ file' = read.file
          /\ net' = IF open THEN [at |-> "body", wire |-> SubSeq(body, n + 1, Len(body)), left |-> "nothing"]
                    ELSE Closing("seen")
          /\ Upsert(read.job, "downloading")
          /\ UNCHANGED <<run, dest, blind>>

Answer == /\ Running /\ net.at = "asked"
          /\ j.hopped \/ server.hop = "none"
          /\ \E n \in {0, 1} : Headers(j, Body(j), n, TRUE)
          /\ UNCHANGED <<world, faults, runs, spoilt>>

(* MG_EV_READ: a piece of the body; a chunked one that is complete closes. *)
Read ==
    /\ Running /\ net.at = "body" /\ net.wire # <<>>
    /\ LET read == Consume(j, file, <<Head(net.wire)>>)
       IN j' = read.job /\ file' = read.file
    /\ net' = IF Head(net.wire) = EndOfChunks THEN Closing("seen") ELSE [net EXCEPT !.wire = Tail(@)]
    /\ UNCHANGED <<world, run, saved, status, dest, faults, history>>

---------------------------------------------------------------------------
(* The end of the connection: on_connection_closed. *)

(* Mutant: a range is saved whatever the writer still has. *)
DrainNothing(f) == f

(* drain_temp_file *)
Drain(f) == [os |-> Given(f), pending |-> <<>>]

(* Mutant: nothing asks for the next range. *)
RangeDoneIdle(x) ==
    [x EXCEPT !.done = MarkRangeDone(@, x.total, x.range.start, x.range.end),
              !.streaming = FALSE, !.got = 0, !.want = 0]

RangeDone(x) ==
    [x EXCEPT !.done = MarkRangeDone(@, x.total, x.range.start, x.range.end),
              !.streaming = FALSE, !.got = 0, !.want = 0, !.deferred = TRUE]

(* A range has come: it is marked, drained and saved. *)
RangeClosed ==
    IF j.got < j.want
    THEN Publish(j, "failed") /\ UNCHANGED <<file, dest, blind>>
    ELSE LET x == RangeDone(j)
         IN IF AllChunksDone(x.done, x.total)
            THEN Finalize(x, file)
            ELSE /\ j' = x
                 /\ net' = Down
                 /\ file' = Drain(file)
                 /\ saved' = Stored(x)
                 /\ UNCHANGED <<run, status, dest, blind>>

StreamClosed ==
    IF /\ j.chunked => j.complete
       /\ j.chunked \/ j.expected = 0 \/ j.received >= j.expected
    THEN Finalize(j, file)
    ELSE Publish(j, "failed") /\ UNCHANGED <<file, dest, blind>>

OnConnectionClosed ==
    \/ /\ j.rescheduled
       /\ j' = [j EXCEPT !.rescheduled = FALSE, !.deferred = TRUE]
       /\ net' = Down
       /\ UNCHANGED <<run, file, saved, status, dest, blind>>
    \/ /\ ~j.rescheduled /\ j.step = "chunk" /\ j.headers /\ j.streaming
       /\ RangeClosed
    \/ /\ ~j.rescheduled /\ j.step = "stream" /\ (j.streaming \/ j.received > 0)
       /\ StreamClosed
    \/ /\ ~j.rescheduled /\ j.step = "stream" /\ ~j.streaming /\ j.received = 0 /\ j.segments
       /\ run' = "segments" /\ j' = [j EXCEPT !.segments = FALSE, !.deferred = FALSE] /\ net' = Down
       /\ UNCHANGED <<file, saved, status, dest, blind>>
    \/ /\ ~j.rescheduled /\ j.step = "chunk" /\ ~(j.headers /\ j.streaming)
       /\ j' = [j EXCEPT !.deferred = TRUE] /\ net' = Down
       /\ UNCHANGED <<run, file, saved, status, dest, blind>>
    \/ /\ ~j.rescheduled /\ j.step = "stream" /\ ~j.streaming /\ j.received = 0 /\ ~j.segments
       /\ Publish(j, "failed")
       /\ UNCHANGED <<file, dest, blind>>

(* The server ends a response by closing, or closes a connection it has kept
   open; the other end of a connection that drains. *)
Closed ==
    /\ Running
    /\ \/ net.at = "body" /\ net.wire = <<>>
       \/ net.at = "draining" /\ net.left = "seen"
    /\ OnConnectionClosed
    /\ UNCHANGED <<world, faults, runs, spoilt>>

(* try_parse_pending_response, from the close of a connection that still
   holds an answer: a redirect is followed again, and what was the answer to
   a range is taken for the stream's, wherever that is.  What else it makes
   the job do, it does next; an error without a byte is published. *)
Misplaced(x, body) == ~Rejected(x) /\ body[1] # x.received + 1
ClosedAgain ==
    /\ Running /\ net.at = "draining"
    /\ \/ net.left = "redirect" /\ Redirect(j)
       \/ /\ net.left = "answer"
          /\ \E n \in 0..Len(net.wire) : Headers(j, net.wire, n, FALSE)
          /\ spoilt' = (spoilt \/ Misplaced(j, net.wire))
       \/ /\ net.left = "error"
          /\ IF j.received = 0 THEN Publish(j, "failed") ELSE SetError(j)
          /\ UNCHANGED <<file, dest, spoilt, blind>>
    /\ UNCHANGED <<world, faults, runs>>

(* The connection breaks with the end of the stream: no error is reported. *)
Dropped == /\ Running /\ net.at \in {"asked", "body"}
           /\ Fault
           /\ OnConnectionClosed
           /\ UNCHANGED <<world, runs, spoilt>>

(* MG_EV_ERROR: no connection, a reset, or 120 seconds without a byte. *)
Broken == /\ Running /\ net.at \in {"connecting", "asked", "body"}
          /\ \/ Fault
             \/ net.at = "body" /\ net.wire = <<>> /\ server.keeps /\ UNCHANGED faults
          /\ Publish(j, "failed")
          /\ UNCHANGED <<world, file, dest, history>>

Transfer == \/ Schedule \/ Connected \/ RedirectAnswer \/ RedirectBody \/ Answer \/ Read
            \/ Closed \/ ClosedAgain \/ JobFree

Next == Transfer \/ Start \/ Flush \/ StopOrPause \/ Crash \/ ErrorAnswer \/ Dropped \/ Broken

Spec == Init /\ [][Next]_vars /\ WF_vars(Transfer)

---------------------------------------------------------------------------
(* The types of the variables: no job follows more redirects than the limit,
   a size that is known is the right one, and no job keeps ranges that touch or
   of a file without a size. *)
Spans == {r \in [start : 0..Total - 1, end : 0..Total - 1] : r.start <= r.end}
DoneOf(x) == /\ x.total \in {0, Total} /\ x.done \in Seq(Spans)
             /\ Canonical(x.done) /\ (x.total = 0 => x.done = <<>>)
Jobs == [step : {"stream", "chunk"}, deferred : BOOLEAN, rescheduled : BOOLEAN,
         segments : BOOLEAN, headers : BOOLEAN, streaming : BOOLEAN,
         redirects : 0..MaxRedirects, hopped : BOOLEAN,
         useRanges : BOOLEAN, disabled : BOOLEAN, keep : BOOLEAN,
         received : Nat, expected : Nat, chunked : BOOLEAN, complete : BOOLEAN,
         range : Spans, got : Nat, want : Nat, total : {0, Total}, done : Seq(Spans)]
Nets == [at : {"none", "connecting", "asked", "body", "draining"}, wire : Seq(0..Total),
         left : {"nothing", "redirect", "answer", "error", "seen"}]
Pendings == [at : Nat \ {0}, byte : 0..Total]
TypeOK ==
    /\ server \in Servers /\ segmentable \in BOOLEAN
    /\ run \in {"none", "running", "over", "segments"}
    /\ j \in Jobs /\ DoneOf(j) /\ (j.step = "chunk" => j.total = Total)
    /\ net \in Nets
    /\ file \in [os : Seq(0..Total), pending : Seq(Pendings)] /\ dest \in Seq(0..Total)
    /\ saved \in [total : {0, Total}, done : Seq(Spans)] /\ DoneOf(saved)
    /\ status \in {"queued", "downloading", "stopped", "paused", "failed", "completed"}
    /\ faults \in 0..MaxFaults /\ runs \in 0..MaxRuns
    /\ {spoilt, blind} \subseteq BOOLEAN

(* A completed download is the whole file, unless its size was never known, a
   redirect came with a body or the answer to a range was taken for the
   stream's (finalize_download, handle_response_headers). *)
WholeWhenDone ==
    status = "completed" /\ ~spoilt /\ ~blind => dest = [i \in 1..Total |-> i]

(* What state.json calls done is on the disk: a job that starts from it has
   nothing to ask again (on_connection_closed, drain_temp_file). *)
SavedIsThere ==
    status # "completed" /\ ~spoilt =>
        \A i \in Bytes(saved.done) : i < Len(file.os) /\ file.os[i + 1] = i + 1

(* A job that runs has a connection or is about to open one: nothing else
   would ever end its loop (run_download_inner, schedule_next). *)
NeverIdle == Running => net.at # "none" \/ j.deferred

RightBytesStay ==
    status' # "completed" /\ ~spoilt' =>
        \A i \in DOMAIN file.os :
            file.os[i] = i => i \in DOMAIN file'.os /\ file'.os[i] = i

(* No byte of the temp file that is right becomes wrong, whatever restarts,
   falls back or is asked twice (append_stream, write_at_offset). *)
RightStaysRight == [][RightBytesStay]_vars

(* The inductive invariant.  While nothing is spoilt the file is a beginning of
   the body, and so is what the writer makes of it by and by; what came and
   what is on the wire follow each other; what the job has as done is on the
   disk; the end of the chunks is the end of the body. *)
Beginning(content) == \A i \in DOMAIN content : content[i] = i
InPlace(f) ==
    /\ Beginning(f.os)
    /\ \A k \in DOMAIN f.pending :
          /\ f.pending[k].byte = f.pending[k].at
          /\ \A i \in Len(f.os) + 1..f.pending[k].at - 1 : \E m \in 1..k - 1 : f.pending[m].at = i
Follows(wire, at, to) ==
    \A k \in DOMAIN wire :
        \/ wire[k] = at + k /\ wire[k] <= to
        \/ wire[k] = EndOfChunks /\ k = Len(wire) /\ at + k = to + 1
OnDisk(ranges, f) == \A i \in Bytes(ranges) : i < Len(f.os)
JobInPlace ==
    /\ j.step = "stream" => j.received = Len(Given(file))
    /\ j.step = "stream" /\ j.complete /\ j.total = 0 => j.received = Total
    /\ j.step = "chunk" => j.range.start + j.got <= Len(Given(file))
    /\ j.step = "chunk" /\ j.headers /\ j.streaming => j.want = j.range.end - j.range.start + 1
    /\ net.at \in {"connecting", "asked"} => j.got = 0
    /\ net.at = "body" => net.left = "nothing"
    /\ net.at = "body" => IF j.step = "stream" THEN Follows(net.wire, j.received, Total)
                         ELSE \E to \in 0..Total : Follows(net.wire, j.range.start + j.got, to)
    /\ OnDisk(j.done, file)
Answered == /\ j.total = Total /\ j.step = "stream" /\ net.wire # <<>> /\ net.wire[1] # EndOfChunks
            /\ \E to \in 0..Total : Follows(net.wire, net.wire[1] - 1, to)
IInv ==
    /\ TypeOK
    /\ run = "none" => file.pending = <<>>
    /\ ~spoilt => /\ InPlace(file)
                  /\ Running => JobInPlace /\ (net.left = "answer" => Answered)
                  /\ status # "completed" => OnDisk(saved.done, file)
                  /\ WholeWhenDone

(* A job comes to its end, or to segments, if the network fails finitely often
   (run_download_inner). *)
JobEnds == Running ~> ~Running
=============================================================================
