# Avar: TLA+ models of a download manager

Avar is a download manager written in C23: a command-line program that can run
a transfer itself or hand it to a daemon, with a segmented HTTP engine,
persistent queues, resumable state files, JSON-RPC front ends and a bridge for
browser extensions. This directory holds TLA+ modules for the parts of the
program whose correctness depends on what happens in which order, the TLC
configurations that check them on small instances, and TLAPS proofs for the
parts that are proved for every instance. Paths below are relative to the
repository's root; `download.c` and the like are under `src/`.

## 1. The system

| Part | Code | State it keeps | Operations | Talks to |
|---|---|---|---|---|
| Asynchronous file writer | `file_async.c` | two swap buffers, the one handed over, `worker_queued`, a sticky error | open, write, drain, sync, close, error; the pool task | the I/O pool, stdio |
| Thread pool | `thread_pool.c` | linked work list, `shutdown`, workers; two process-wide pools | create, submit, destroy; the worker loop | download jobs, file writer |
| Done ranges and state file | `download_state.c`, `download_io.c` | sorted list of byte ranges, `state.json` in the item's work directory | mark, query, load, save | both engines |
| Segment selection | `download_segment.c` | none | next reservation, select left-heavy, select balanced, chunks | segment engine |
| Segment engine | `download.c` (1551-3787) | slots, reservations, received bytes, error counters | connect, headers, body, close, error, timeouts, retries | file writer, state file |
| Stream engine | `download.c` (same handlers, no slots) | one connection, the chunked decoder, sequential ranges, redirects | first request, body, fall-back, switch to segments | file writer, state file |
| HLS and lists of pieces | `stream_hls.c` | none beyond the job | fetch a playlist, its keys, its pieces | HTTP client, list of items |
| Proxies and probe | `http_proxy.c`, `download_probe.c` | handshake state of a connection, the saved proxy | choose a proxy, CONNECT, SOCKS5, HEAD then GET | both engines |
| Finished files | `download.c`, `file-system.c` | the download directory | find a free name, rename or copy, sync | every job |
| Work directories | `file-system.c`, `download.c` | a directory for all jobs, one for each item | make, save into, open, remove | every job |
| Item lifecycle | `download.c` (4089-5722) | `dm.items`, the active-job registry, pause and cancel flags | enqueue, start, pause, resume, stop, restart, remove, startup resume | pool, queues, engines |
| Queues and entries | `queue.c`, `download.c` | `dm.queues`, the queue and URL of each entry, here and in its state file | add, edit, remove, start, stop, dispatch, move, set URL, list | item lifecycle |
| Identifiers | `download.c` (`download_generate_id`) | last millisecond and sequence | make an id, look for it in the list | item lifecycle |
| Configuration store | `config.c`, `file-system.c` | the JSON document in memory and on disk | get, set, append, update, remove, replace, save, load | everything |
| Bookmarks | `bookmark.c` | `bookmarks.json` | add, remove, list | RPC |
| Daemon process | `daemon/daemon.c` | pid file, sockets, runtime flags | start, stop, restart, reload, shutdown | transports, lifecycle |
| Embedded daemon with a window | `cli/gui_launch.c`, `cli/electron_embed.c` | the cache of the unpacked program, a thread beside the daemon's | unpack, wait for the port, open, ask the daemon to end | daemon process |
| Transports and RPC | `daemon/daemon_transport.c`, `daemon/daemon_rpc.c` | IPC thread, HTTP loop, the method lock, `_force_local` | accept, dispatch, answer, stop; broadcast of snapshots | sessions, lifecycle |
| Sessions of commands | `daemon/daemon_session.c` | transport order | ping, delegate a command, or run it here | command line, daemon |
| Log ring and console | `daemon/daemon_rpc.c`, `gui-qt` console | ring of lines; offset and entries of the console | append, poll, clear | Qt client |
| Qt client | `gui-qt/src` | last snapshot, polls under way, sessions, bridge process | follow the stream, reconnect, poll, switch the daemon | RPC, bridge |
| Extension bridge | `extensions/daemon/src` | `enabled`, `extension_seen`, one connection | settings, status, ping, forward a message | extensions, daemon |

### How the parts interact

A command arrives on the command line or over RPC and reaches the functions of
`download.c` and `queue.c`, which read and change two lists in the
configuration, `dm.items` and `dm.queues`. To start an item they submit a task
to the download pool. The task loads the item's `state.json`, publishes the
item as `downloading`, and runs one event loop (Mongoose) until the transfer
ends. The loop writes through an asynchronous file, whose own tasks run on a
second pool, so that a transfer that waits for the disk never holds up the
writer it waits for. Everything the job reports goes through one function,
`dm_item_upsert`: it saves `state.json`, changes the entry in `dm.items`, and
lets the queue start the next item.

A daemon has one thread for its main loop, which polls HTTP, and one for the
IPC channel; both execute methods under one lock. A command of another process
tries the transports in turn, and a download that no transport takes is run by
that process itself. Graphical clients receive snapshots over a stream, poll
when it is down, and ask for the log in batches.

Three kinds of state are shared inside a process. The configuration is
protected call by call: nothing is held from a lookup to the update that
follows it. The table of active jobs hands out pointers through which a command
sets a flag of a job. The two buffers of a file belong to the producer and to
the pool task in turn. Between processes the pid file, the port, the path of
the IPC channel, the configuration file and the state files are shared by name.

### What is hard

- *Interleaving.* The writer copies into one buffer while a task writes the
  other; workers sleep on a condition that submitters and a destroy signal;
  workers and commands interleave between any two calls into the
  configuration; two threads execute methods; daemons start while others leave.
- *Ordering.* Bytes must be in the file before `state.json` claims them; a
  response must be consumed before its connection is used again; posts of the
  Qt client overtake each other; a poll's answer comes after a newer snapshot.
- *Failure.* Connections break with any part of a body received, servers stop
  honouring ranges, the disk fails after a write was accepted, a save fails
  between two changes of a document, the process or the machine dies between
  any two steps.
- *Timeouts and retries.* A deadline passes while a request is being executed,
  and the next transport is tried; a broken range is asked for again.
- *Progress.* A job ends in about twenty places; each of them has to leave
  something to wait for, or to end the job, and to give its queue slot away.

### What makes each part correct

| Part | Correct when |
|---|---|
| Asynchronous file | bytes reach the file once and in order; the two sides never share a buffer; a success that is reported is true; calls return |
| Thread pool | a task runs once, in order, to its end; no submission goes unnoticed; destroy drops nothing |
| Done ranges, selection | the array is canonical and says exactly what was marked; what is handed out is missing, inside the file, and owned by nobody |
| Segment engine | one owner per byte; no stale response; saved progress is true and stays; a completed file is whole; a job ends |
| Stream engine | a completed file is whole; what is saved is on the disk; right bytes stay right; a job ends |
| Lists of pieces | the pieces are in order and deciphered with their own key; a job ends |
| Proxies and probe | one request per connection; the size of a successful answer is the file's; one proxy for all runs of a download |
| Finished files | a finished file is always somewhere in one piece; files of others are left alone |
| Work directories | a job has its directory; a start is refused only for another that makes the same directory; a removed item leaves nothing |
| Lifecycle and queues | one entry per item, unless a save failed or it was removed from under two jobs; no entry waits for nobody; a queued item of a started queue is started; a queue that is gone leaves no item in it; the records of an item agree |
| Identifiers | no two entries share an id |
| Configuration, bookmarks | the file on disk is one of the documents that were written; success is said only of what is stored |
| Daemon process | a daemon can be found; two processes never download one item; commands return; nothing is left behind |
| Transports and sessions | a command is executed once; the flags of one command are not seen by another; a shutdown ends |
| Embedded daemon with a window | what is marked as unpacked is whole; a window or a browser opens; the daemon ends with its window |
| Clients and bridge | views converge; the console shows one daemon's lines in order; an error was not executed; the client talks to the session that was chosen |

## 2. The modules

| Module | What it is | Uses |
|---|---|---|
| `OrderedWriter` | what an asynchronous file promises: an ordered log | |
| `AsyncFile` | `file_async.c` | implements `OrderedWriter` |
| `ThreadPool` | `thread_pool.c`, one pool | |
| `DoneRanges` | the range arithmetic of `download_state.c` and `download_segment.c`, as operators | |
| `DownloadState` | the progress record and its operations | `DoneRanges` |
| `SegmentEngine` | one segmented download, its file, its state file | `DoneRanges` |
| `StreamTransfer` | one download on one connection | `DoneRanges` |
| `SegmentList` | HLS playlists and lists of pieces | |
| `ProxyRequest`, `ProxyRoute` | a request through a proxy; the choice of the proxy | |
| `FinishedFiles` | how finished files get their names | |
| `WorkDirectories` | the directories jobs work in | |
| `DownloadLifecycle` | the list of items, the commands, one queue, the workers | |
| `Catalogue` | several queues, the entries and their state files | |
| `Identifiers` | the generator of ids and the look into the list | |
| `DurableDocument` | what the callers of `config.h` may count on | |
| `ConfigTree`, `ConfigStore` | the JSON tree, as operators; `config.c` | implements `DurableDocument` |
| `Bookmarks` | `bookmark.c` | |
| `DaemonProcess` | daemons starting, stopping, restarting | |
| `EmbeddedGui` | `avar gui`: the window, its program, and the daemon in one process | |
| `DaemonService` | one daemon's two threads and its callers | |
| `LiveUpdates` | the stream of snapshots and the clients that follow it | |
| `LiveLog` | the log ring and the console | |
| `ExtensionBridge` | the bridge and the client that runs it | |
| `SessionSwitch` | the sessions of the Qt client | |
| `DoneRangesProofs` | what the operators of `DoneRanges` compute: tests, marks, loads, counts, reservations, the choice of segments | `DoneRanges`, `TLAPS` |
| `SegmentEngineProofs` | proofs about `DownloadState` and `SegmentEngine` | `DownloadState`, `SegmentEngine`, `DoneRangesProofs` |
| `TransferPartsProofs` | eleven parts of `MCTransfer`: the choice of a proxy, ids, directories, requests, the log, the bridge, sessions, the window, finished files, bookmarks, lists of pieces | `MCTransfer`, `DoneRangesProofs` |
| `MCTransferProofs` | the stream, and all twelve parts together | `TransferPartsProofs` |
| `AsyncFileProofs`, `CatalogueProofs` | proofs of two modules each that share no name | `AsyncFile` and `ThreadPool`, `Catalogue` and `ConfigStore`, `TLAPS` |
| `DownloadLifecycleProofs`, `MCDaemonProofs` | proofs | the module of the name, `TLAPS` |
| `MCConfigStore`, `MCCatalogue`, `MCLifecycle` | instances | `ConfigStore`, `Catalogue`, `DownloadLifecycle` |
| `MCPoolAndFile` | instances of the pool and, while it rests, the writer | `ThreadPool`, `AsyncFile` |
| `MCSegmentRecovery` | instances of the ranges and, as long as none is marked, the job | `DownloadState`, `SegmentEngine` |
| `MCDaemon` | instances of the daemon's three modules | `DaemonService`, `DaemonProcess`, `LiveUpdates` |
| `MCTransfer` | instances of twelve modules | `StreamTransfer`, `SegmentList`, `ProxyRequest`, `ProxyRoute`, `Identifiers`, `FinishedFiles`, `WorkDirectories`, `Bookmarks`, `LiveLog`, `ExtensionBridge`, `SessionSwitch`, `EmbeddedGui` |

How they fit together: `SegmentEngine` takes the writer as `AsyncFile` proves
it and the ranges as `DoneRanges` computes them; `StreamTransfer` hands a
download to `SegmentEngine` at `prepare_chunk_download`; both say of a job what
`DownloadLifecycle` assumes of it, that it ends (`JobEnds`); `Catalogue` and
`DownloadLifecycle` change the configuration by calls that are the steps of
`DurableDocument`; `DaemonProcess` starts and ends what `DaemonService` serves.

The definitions that a comment introduces as "Mutant" are faulty variants that
no specification uses. Each stands before the definition it would replace; they
record which mistake the properties are able to see.

`MCDaemon` and `MCTransfer` put modules that share no state into one
configuration: a behaviour is one of the part chosen at the start, the others
keep their first state. Their properties are conjunctions over the parts, of
properties that each module states and explains. What the parts need to know
(proxies, pages, jobs, sessions, ...) are constants of `MCTransfer` that its
configuration gives values, so that the proofs hold for any.

### AsyncFile

The variables are the fields of `AvarAsyncFile` (`bufs`, `active`, `pending`,
`worker_queued`, `failed`), the mutex across actions, the places of the two
threads, and three logs. An action is the code between two points where the
lock changes hands. `fwrite`, which runs without the lock in the task, moves one
byte at a time, so that a buffer the producer could still reach would be seen
changing. A byte is a pair of offset and identity: two writes to one offset are
told apart and their order matters.

`WriteCall`, `DrainCall` start the API calls; `WriteLoop`, `MustSwap`,
`CopyByte` are the loop of `avar_async_file_write`; the `Submit` actions are the
branches of `async_file_submit_locked`, with the pool accepting the task or
refusing it (`InlineByte`, `InlineDone`); `Wait` and `Resume` are the condition
variable, with spurious wake-ups; `WorkerTake`, `WorkerByte`, `WorkerDone` are
the task. `DrainDone`, `Fsync`, `FsyncFailed`, `CloseFree`, `Open` complete the
interface. Short writes may happen at any byte, and then the buffer fails.

`OrderedWriter` has a log of accepted bytes of which a prefix is written and a
prefix of that is synced. Calls return what is true of those prefixes. The
refinement maps the abstract call to the operation in progress and keeps the
logs as they are (`Abstract`, `ImplementsOrderedWriter`).

Left out: the offset stored in an empty buffer, which is never read, and what
stdio keeps after a failed write, which the sticky error makes unobservable.

### ThreadPool

The linked list is a map `next` with `head` and `tail`, as in the code, and not
a sequence: that the two agree is the property `Fifo`. A worker tests the list,
decides to sleep, sleeps, wakes, takes a task and runs it in separate steps,
because `thread_pool_destroy` stores `shutdown` without the mutex and can act
between any of them; a submitter holds the mutex and cannot act between the
test and the sleep. Creation may fail half-way, and then the pool destroys
itself. Submission is possible from the owner and from running tasks. The
specification bears the pool's name (`PoolInit`, `PoolNext`, ...), since the
proofs take the module together with `AsyncFile`.

### DoneRanges and DownloadState

`IsRangeDone`, `MarkRangeDone`, `ClipRanges`, `LoadDoneRanges`, `SelectChunks`
and `NextReserveEnd` translate the functions whose names they bear. The loops
are written as the index they stop at, and the `memmove` as the sequence it
leaves. `Coalesce`, `LoadDoneRanges` and `RangeBytes` are recursive functions
over the array. The operators of `DownloadState` bear its name (`StateInit`,
`StateNext`, ...), since the proofs about the engine take both modules.
`DownloadState` marks ranges in any order and announces the size
of the file any number of times; its history variable `marked` is the set of
bytes that the array is supposed to represent, and the reference definitions of
the properties are sets of bytes.

### SegmentEngine

The event loop is one thread, so a handler runs to its end in one step. The
handlers call one another and change the job as they go; each C function is an
operator from a job to a job (`FinishContinuous`, `ConnectionClosed`,
`Finalize`, `NoteFailure`, `Persist`, `Upsert`, ...), and an action applies them
to `d`. `d` is the job (`slots`, `stream`, `deferred`, `errors`, `done`) with
what outlives it: the bytes given to the writer (`temp`), those in the file
(`os`), those on the disk (`synced`), the ranges in the state file (`saved`) and
the published `status`.

A slot is free, has sent a request, is streaming, or drains the rest of its
response; `wire` is what the server still has to send on it. Requests are
open-ended ("bytes=start-"), as in the code, and the reservation of a slot grows
chunk by chunk, so that responses overlap and the reservation decides who
writes what. Deliveries are of any length. `now` tells whether the second of
`dm_item_upsert_throttled` has passed.

The environment: `PartialContent` (206, which may close afterwards), `FallBack`
(any other answer, after which the job continues as a stream), `Drop`, `Idle`
(the 120-second limit), `WriterFlush`, `WriterFail`, `StopOrPause`, `Crash`,
`Start`. The size of the file is known from the state file.

Taken as given: the writer, as proved in `AsyncFile` (bytes reach `os` in time
or the file breaks); the move to the destination succeeds (`FinishedFiles` has
it); a save of the state file is atomic, being a rename. A crash is one of the
process: what is in `os` stays.

### StreamTransfer

The handlers of `SegmentEngine` again, for a job without slots. A response is
what is left of it on the wire: the bytes of the body, each known by its
number, and the end marker of a chunked body. `net` is the connection, `j` the
fields of `DownloadJob` that matter, `file` what is on the disk and what the
writer still holds. The server is chosen at the start (it gives a length or
not, honours ranges or not, chunks or not), and redirects, with and without a
body, are answers of their own. A connection that is told to drain is closed by
the library and what it still holds is looked at once more, which is how the
code reads an answer a second time. A byte of the file is its number when it is
the right one and 0 when it is not, or when nothing was ever written there;
`Given` is the file that the writer makes of what it still has.

Three behaviours are kept as history and excluded in the properties, because the
code does them: a redirect whose complete body arrives with its headers in the
sequential-range mode is written as data (`spoilt`, `RedirectBody`); an answer to
a range that still lies on its connection when the job has become a stream is
read again as that stream's, from wherever the stream is (`spoilt`, `Misplaced`,
`download.c:2832`; it takes a restart after a restart, which the third run of
the instance is for); and a resumed stream of unknown size that is closed before
its headers is finalised as completed (`blind`). The other facts of this code seen while modelling: `set_error` alone
does not publish; a sequential range on a kept-alive connection waits for the
server's close, or for the idle limit; sequential reconnects have no budget.

### SegmentList

One job fetches the playlist, the variant of the highest bandwidth, each key
and each piece in turn. A piece comes out right when it was deciphered with its
key and its vector (derived from the sequence number, or given). The job is not
in the table of active jobs: a pause only changes the status and a resume
starts a second job on the same file, which the module has
(`overlapped`); an answer that is framed by the close of its connection and cut
is taken for whole (`cut`). Of a playlist the constants say that its lines are
of the kinds the parser knows and that no piece stands in it twice; the list of a
page is not empty.

### ProxyRequest and ProxyRoute

`ProxyRequest` follows one connection of a probe or of a download through
CONNECT or the SOCKS5 stages. What was sent is a sequence of names, the peer
has dealt with a prefix of it, and answers stay in the buffer until a handler
consumes them, as in the code. The handlers of `MG_EV_WRITE` are actions: after
a greeting or a CONNECT they send the request before the tunnel stands, so a
tunnelled request never gets an answer, and the 200 of a forward proxy is taken
for an answer to CONNECT. An answer is a success, a redirect or an error, of the
server or of the proxy, each with a length of its body or without; `SizeIn` reads
the length of all of them, as `probe_extract_size` does, and one byte stands for
every length that is not the file's. The properties say what holds all the same: a
connection asks once, a probe that is answered with success reports the size of
the file or none (a range that is answered with "*" instead of the total is
excluded, it is reported as 1), and every request comes to an end. That any size
that is reported is the file's, `ReportedSizeIsTheFiles`, does not hold (section 5).

`ProxyRoute` is the choice among a given proxy, the environment and the
configuration with their lists of direct hosts, the proxy saved with a
download, and changes and restarts between runs.

### FinishedFiles, WorkDirectories, Identifiers, Bookmarks

`FinishedFiles`: jobs of one file name look for a free name and then rename or
copy; the look and the rename are two steps, and a rename replaces what is
there, so that a job can overwrite what another finished in between (`raced`).
`WorkDirectories`: a job looks for each directory and makes it in two steps
(`Look`, `MakeRoot`, `MakeOwn`), an added one minding the first result and one
that runs again not; a removal goes through the entries it has listed while the
job it asked to end still saves its state in two steps (`Save`, `Saved`) or opens
its file (`Open`). `raced` and `busy` record whom that has hurt.
`Identifiers`: clocks that are set back, a sequence that overflows and waits,
processes that start again; the mixing of the three numbers is left out because
it is invertible. `Bookmarks`: read, change, write, sync, rename, with failures
and deaths at each.

### DownloadLifecycle

`list` and `started` are the configuration in memory, `saved` the same in the
file; `tasks` is the queue of the pool; `proc` has for each thread its place, what
it goes on with when the queue is settled (`next`), and for a worker the item, the
flags and whether it is registered. `moved` are the items whose state file has
lost its `temp_path`, which finalisation clears.

A call into the configuration is one step: it holds the lock, changes what is in
memory, and saves all of it (`Saved`) or does not (`NotSaved`), in which case the
change stays and the call fails. Between calls the threads interleave. So
`dm_item_upsert` is two steps, `Upsert`, which updates the first entry of the
item, and `AppendEntry`, which follows when there was none or when the update
was not saved, as `download.c:1286-1288` does not tell the two apart. An item can
therefore have two entries: after an update that was not saved, and when it is
removed from under two jobs, each of which finds no entry and appends one. The
history variable `unsure` records these two ways, and a third to a wrong entry: a
restart that puts back what it had read, and is not saved, so that it starts no
job. After a success follow the dispatch, the look at the list and the clearing of
the flag (`Dispatch`, `Sync`, `Unstart`), executed by whatever thread made the
update. `Restart` is two steps as well, `Restart` and `Reset`, since
it reads the entry in one call and puts it back in another.

`Add` adds a new item or queues one again that is in the list and not completed
(`find_resumable_item_id`). `Check`, `Loaded`, `Register`, `Finish`, `Free` are the
life of a job; `Stopping` and `Resuming` walk through a list that changes under
them, by position, up to the length it had at the beginning. `Die` is the
`strdup(NULL)` of a completed item that is started again, and `Crash` a killed
daemon; both lose what was not saved and start the next daemon with
`download_resume_interrupted`.

Assumed: one thread executes commands (methods run under one lock,
`DaemonService`); a dispatch and the lookup at the beginning of a task are one
step each; so is a change of a status by a command
(`update_download_item_status`), whose two calls read and replace one entry and
write nothing of it but the status that the command asks for; all items are in
one queue; a save of a state file succeeds unless it is refused, and the file that
holds the URL can be loaded. `WriteAllowed` is the rule that only a thread inside a
job writes state files while any job runs. `Restart` meets it: what it resets is
not saved then.

### Catalogue

`mem` and `disk` are the lists of entries and queues in memory and as stored
last, `saved` is the state file of each entry. A command is a sequence of calls
into the store, each of which succeeds, fails after changing memory, or is the
last before the process dies: `QueueAdd`, `QueueEdit`, `QueueRemove` with
`Detach`, `Purge` and `Drop`, `SetQueue` with `Move` and `Moved`, `Enqueue`,
`SetUrl`, `List` with its reconciliation entry by entry. A job of another entry
may be running (`OtherJob`), which refuses every write of a state file by the
thread of the commands. An entry may have been there before the daemon began,
written by a version that kept no state file (`LegacyEntry`). `Outside` is the
loop that takes the entries of a queue out of the list. The ids of queues are a second and a random number, and
collide in small instances as they can in the code.

### ConfigTree, ConfigStore, DurableDocument

`ConfigTree` has the operations on the tree: a document maps paths to nodes,
and creating missing parents, refusing a path through a scalar, pruning empty
objects on removal are operators. `ConfigStore` has the calls: a thread takes
the lock, loads what is stored when nothing is loaded yet (a file that is
missing or unreadable counts as empty, and is replaced), changes memory, and
writes a temporary file, syncs it and renames it in four steps, each of which
can fail; `Killed` and `PowerLoss` can come at any of them, and a power failure
keeps of an unsynced file what it likes. Changes for which the code does not
return the failure, or changes memory and then fails to save, are like that
here. The specification is called `ConfigSpec`, with `ConfigInit` and
`ConfigNext`, since the proofs take the module together with `Catalogue`.

`DurableDocument` is what remains for a caller: one document in memory, one on
disk that is only ever replaced whole by the one in memory, success only for
what is stored, and a version that a power failure cannot take back.

### DaemonProcess, DaemonService, LiveUpdates

`DaemonProcess`: each command is a process; its place is between two system
calls on what is shared. A pid file is created, written, looked at and removed
in steps of their own, by path, whoever made it. Signals kill before the
handlers are installed. `alone`, `killed` and `late` are history: no two
daemons started or left at once, one was killed, a shutdown stopped waiting for
its downloads.

`DaemonService`: `main` and `ipc` are the two threads, `lock` the lock of the
methods, `backlog` and `requests` what waits for each. A caller (`cl`) connects,
waits, and goes on to the next transport when its deadline passes, which it may
at any moment; the request it leaves behind is still executed. `StopIpc`, `Join`
and `Check` are `pipe_stop` against `ipc_server_loop`. The commands are a
download, a delegated command line, one whose output fills the pipe it is
captured in and keeps the lock, one with bad parameters, and a client that
sends nothing.

`LiveUpdates`: content is a version number; the sender compares fingerprints
and sends to those attached; a client attaches, receives, loses its connection,
polls while it is down, and shows whatever answer comes.

### EmbeddedGui

`main` is the main thread of each process inside `daemon_start`, with the flags
`running` and `active` (`_daemon_loop_active`); `ui` is the thread of the window.
`Reach` is the wait for the port, `Resolve` to `Mark` the way to the program of
the window, with the archive, the bundle and the marker in one `cache` for all
processes, `Ask` the request to end. The pid file is taken and given back in one
step here; `DaemonProcess` has the steps.

### LiveLog, ExtensionBridge, SessionSwitch

`LiveLog` has the ring with its indices, and the console with its offset and
its epoch, which a clear advances; polls overlap. `ExtensionBridge` has the
bridge's process, its two flags and the one connection it serves, the posts of
the Qt client on connections that overtake each other, and requests that are
forwarded to the daemon and answered, refused or cut. `SessionSwitch` has the
sessions, the options of the client and the refreshes under way, each of which
asks twice, the daemon of that moment.

## 3. The runs

| Run | Instance | Distinct states | Shows |
|---|---|---|---|
| `pool_and_file` | 3 workers, 3 tasks; buffers of 2 bytes, offsets 0 and 3, calls of up to 3 bytes, 5 bytes per opening | 158 thousand | of the pool `Fifo`, `WorkIsNoticed`, `NothingDropped`, `TasksFinish`; of the writer no byte lost, doubled or reordered (`NothingLost`), no shared buffer, truthful results, no use after close, calls return, refinement of `OrderedWriter` |
| `segment_transfer` | 5 bytes in 3 segments (the last one short), 2 connections, 1 fault, 2 runs of the download | 400 thousand | `SlotsAreSound` (one owner per byte, no stale response, always something to wait for), `CompletedSegmentsAreWhole` |
| `segment_recovery` | offsets 0 to 5, chunks of 1, 2 and 4; 4 bytes in 2 segments, 2 connections, 2 faults, 2 runs | 146 thousand | of the ranges: the array is exact, loads back, and selection and reservation agree with their reference; of the job: `ContentBeforeState`, `SavedProgressStays`, `JobEnds` |
| `segment_fallback_whole` | the job of `segment_recovery` | violation | a fall-back to a stream can complete a file with holes |
| `lifecycle` | 2 items, one of them present at the start, 2 workers, limit 1, all nine commands, 3 calls (2 once the other item is added), 1 crash, 1 save that fails, 1 progress report per job, up to symmetry | 5.2 million | `ListIsSound`: an item has two entries only after an unsaved update or a removal from under two jobs; no other entry says `downloading` with nobody to change it |
| `lifecycle_progress` | 2 items present, 2 workers, limit 1, queue start and stop and item stop, 2 calls, 1 crash | 742 thousand | a queued item of a started queue is started; a download ends |
| `lifecycle_survive` | 1 item, 1 worker, start and restart, 2 calls, 1 crash | violation | a restart during a completion leaves an entry that ends every daemon |
| `config_store` | 2 threads, a path of three levels, an array, a path through a scalar, 2 values, 3 calls | 402 thousand | `FileIsWhole`, refinement of `DurableDocument`, documents stay trees |
| `catalogue` | 2 entries, 2 names, up to 2 queues of 2 random numbers in 1 second, 2 faults, up to symmetry | 5.1 million | `NoOrphans`, and `RecordsAgree`: names of queues differ, a list makes the records agree, a URL stays as it was given |
| `daemon` | 2 processes and 3 commands; 2 callers with every kind of command; 2 viewers, 2 versions, 1 fault | 929 thousand | `OneDaemon`, `OnceUnlessLost`, `ForcedExactlyInside`, `QuietAfterStop`, `EverythingReturns`, `ViewsConverge` |
| `transfer` | twelve modules, instances in `MCTransfer` | 555 thousand | see the next table |
| `probe_size` | `ProxyRequest` alone, a file of 2 bytes | violation | the length of the page of a redirect or an error is reported as the size |

The properties of `transfer`, by part:

| Property | Parts |
|---|---|
| `FinishedIsWhole` | a completed stream is the whole body; a list's pieces are in order and deciphered; a finished file is somewhere in one piece while it gets its name; a bundle that is marked is complete |
| `StoredIsTrue` | what a stream saves as done is on the disk; the file of the bookmarks is never in pieces; a job has its directory, and a removed item has none; types |
| `OneOfEach` | a connection asks once; the size a probe finds in a successful answer is the file's; all runs use one proxy; no two entries share an id; one of two jobs is refused that make a directory at once |
| `ClientsAreRight` | the console's lines are in order, leave out only what had left the ring, and stay cleared; the bridge is as the last settings it got and has not executed what it calls an error; the client talks to the chosen session |
| `NothingIsSpoilt` | right bytes stay right; an id is made once; files of others are left alone; a bookmark stays until it is removed |
| `TransfersEnd` | jobs, jobs on lists, and requests come to an end |
| `ClientsCatchUp` | the console comes to the last line, the bridge gets free, the button shows how the bridge is, the lists become those of one daemon; a window or a browser opens, and the daemon ends with its window |

### Why the bounds are enough

*File writer.* A buffer of two bytes is the least that can be partly full; three
bytes in a call cross a buffer boundary at every phase; five bytes fill both
buffers and one byte more, so that the producer has to wait; two offsets three
apart give contiguous and non-contiguous calls. `BufferSize = 2` is checked and
every size is proved.

*Pool.* Three tasks are needed for a list with a middle; three workers for a
wake-up that reaches the wrong one while another still works.

*Ranges.* Six bytes hold three ranges that do not touch, so that a merge can
swallow one, two or all of them. Every subset of every file size arises, and
selection is compared with the reference in every one of the states for every
chunk size, strategy, range in flight and number of connections up to three.

*Engine.* Three segments on two connections is the least instance in which a
finished slot has to choose, a reservation can grow into a segment that is free
and be stopped by one that is not, and the last segment is short. `DrainMax = 1`
makes both the draining and the cutting of a response happen. Two retries are
the least with which an error can be recoverable. Two runs give a restart from
whatever the first run left. One fault beside every interleaving of the
transfer, and two of them in the smaller instance, cover an error in the wake
of an error; the faults are broken connections, answers other than 206, disk
errors and crashes.

*Stream.* Three bytes in ranges of two: a full range and a short one; one
redirect is the limit and one more is refused; one fault and three runs give
every restart from a saved state, and one more from what the second run saved.

*Lifecycle.* Two workers and a limit of one make the pool larger than the queue
allows, which is where the limit matters. Three commands suffice for the longest
sequences a command needs to interfere (start twice, act; start the queue, act, act
again). They are given while one item is alone (the constraint `LastIsForOne`),
whose two jobs, entries and lost updates are what three commands can bring about;
two commands bring in the other item and the limit. One save that fails puts a
failure at any of the calls; a crash adds the restart in any of the intermediate
states, also in those in which memory and file differ. The run reaches items with
two entries. In `lifecycle_progress` two commands start a queue and stop it or an
item of it; there no save fails, as a failed save excuses `QueuedIsStarted`.

*Pool, file, ranges, job.* Two pairs of modules that share no variable run in one
instance each. The file is used while every worker of the pool waits for its first
task, when no step of the pool is due, so that the fairness of each holds beside
the other; the ranges and the job take turns at their initial states.

*Catalogue and store.* Two entries in two queues: one is moved or taken out
while the other stays; two faults put a failure in the wake of a failure, or a
death after one. Three calls of two threads: a change, a change whose save
fails, and a third that shows what the second left.

*Daemon.* Two processes and three commands: a daemon, a second start, and a
stop that meets either; three processes were found to add no behaviour that two
with reused identifiers have not. Two callers occupy both threads at once.

*Clients.* A ring of three lines with five lines written wraps; a batch of two
is less than the ring; two calls overlap. Two addresses and three changes switch
a session, edit it and switch back.

*Directories and window.* One item is enough for two jobs to make both the
common directory and the item's at once. Two starts of `avar gui` are two
processes side by side or one after the other.

In `transfer` what must happen is stated as what holds from some time on, or
again and again, where a part's `~>` would say the same: its counters are
bounded, and what has begun there begins once. One fair action joins those of
different parts for the same reason.

Bounds are conjuncts of guards (`MaxBytes`, `MaxLen`, `MaxTasks`, `MaxFaults`,
`MaxRuns`, `MaxCalls`, `MaxCrashes`, `MaxFailures`, `MaxProgress`, `MaxCommands`, `MaxContent`,
`MaxChanges`, `MaxSteps`, `MaxTime`, `MaxSecond`, `MaxQueues`, `MaxUpsets`,
`MaxLines`, `MaxName`, `MaxTries`, `MaxStarts`). A system that has used them up may stop, and a
destroyed pool, a finished download or an idle daemon really stops; deadlock
checking is off for those runs; that a call of the writer never hangs is
`CallsReturn`, that a task is never stuck is `TasksFinish`.

### Fairness

- `AsyncFile`: weak fairness of the producer inside a call and of the pool task.
  Threads are scheduled; the pool runs what it accepts (`TasksFinish`). No
  caller has to call.
- `ThreadPool`: weak fairness of every worker and of the owner once it has begun
  to destroy; strong fairness of taking the mutex, since a worker that is
  woken competes for it with submitters. No submission, no spurious wake-up and
  no destroy is forced.
- `SegmentEngine`: the loop runs what is deferred; a connection in use is
  answered, delivers, or is given up by the idle timeout; so is the stream.
  These are three weak fairness conditions, with `ENABLED` written out, because
  TLC takes long to evaluate it for actions with this many choices. No fault,
  stop, crash or start is forced.
- `DownloadLifecycle`: weak fairness of every thread, a worker or that of the
  command in progress, for the workers with `ENABLED` written out. That
  `Finish` is taken in the end rests on `JobEnds`; progress reports are outside
  the fair steps, so they are neither forced nor able to put the end off for
  ever in number (`MaxProgress`).
- `ConfigStore`: a thread inside a call goes on.
- `StreamTransfer`, `SegmentList`, `ProxyRequest`: the loop of the job runs, and
  a peer that stays silent is given up by a timeout, which is a step of the loop.
- `DaemonProcess`: a process runs. No signal and no command is forced.
- `DaemonService`: both threads run; the deadline of a caller passes when
  nothing else happens to it.
- `LiveUpdates`: the sender's tick, a client's poll timer and what has arrived
  are handled; strong fairness of attaching, since the connection may break
  again before (finitely often, `MaxFaults`).
- `EmbeddedGui`: both threads of a process run. No window is closed.
- `LiveLog`, `ExtensionBridge`, `SessionSwitch`: the timer of the console, of the
  status and of the refresh fire, the daemon and the bridge answer what they
  have taken. Nothing a user does is forced.

## 4. What is proved

The proof modules prove, for all values of the constants that satisfy the named
assumptions, what the runs check on an instance. The assumptions are that a
buffer holds at least one byte, that offsets, bounds and chunk sizes are natural
numbers (chunks not empty), that there is at least one worker, that no thread is
called "nobody", that `Nobody` is no client and no process, that there are
finitely many processes, none of which is called "another program", and that keys
are not empty.

*File writer.* `NothingLost` is not inductive. Three things are missing: which
thread can be where, what the hand-over flags say about each other, and where
each accepted byte is. `ControlInv` says the first two: the task exists exactly
when `worker_queued`, a buffer is pending exactly when a task has it or the
producer writes it in line, and it is never the active one. `LogInv` says the
third byte by byte, by position in the accepted log: first what is written, then
what is left of the pending buffer, then the active buffer. `IInv` adds the
types and `ReturnIsTrue`, which each return step needs to know of the fsync that
went before. Each action has its lemma (`CopyByteIInv`, `SubmitSwapIInv`,
`MoveByteIInv`, ...), and `NextIInv` joins them. From `IInv` follow
`TypeCorrect`, `RaceFreedom`, `OrderedDelivery`, `ReturnsAreTrue`, `FreedSafely`
and, as an action property, `StickyErrors`. `Refinement` maps every step to a
step of `OrderedWriter` or to a stutter; a byte copied in is an `Accept`, a byte
moved a `Flush`, a swap nothing.

*Pool.* `PoolIInv` is the conjunction of the checked invariants with `PoolControlInv`:
who holds the mutex, which workers exist, how far the owner has come, and that
nothing is accepted before creation has succeeded. `NoLostSubmission` is the
delicate one: a worker that leaves the state in which it was going to look
either holds the mutex, and saw an empty list, or takes a task. From the same
invariant follow `PoolTypeCorrect`, `FirstInFirstOut`, `NeverTwice` and
`DestroyRunsEverything`.

*Done ranges.* `MarkKeepsExactRanges`: a mark of any range, in an array of any
length, leaves the array canonical and standing for the bytes that it stood for
and those of the range inside the file. The argument follows the code.
`StopAtProperties` says where a loop stops; `RunProperties` derives from it that
the ranges before `lo` end short of the new one, that those of the run reach it,
and that those from `hi` on lie beyond all that was swallowed; `ReplaceIsExact`
says what the `memmove` leaves; `MergeIsExact` joins them, with the extremes of
the run taken at its two ends, and shows for the empty run that
`insert_sorted_range` finds the place `lo` again.

The loops that clip, coalesce, load and count are recursive functions over the
array. Instead of an induction theorem, each lemma about one of them names a
function that solves the recursion and then takes the first index at which a
solution could differ (`NoFirstFailure`, from the well-foundedness of the
naturals). So `CoalesceKeeps`: nothing is left to coalesce in a canonical array;
`KeepsFront`: clipping keeps a front of it; `ClipIsExact`: the bytes that stay
are those inside the file; `MarkAppends` and `LoadIsExact`: loading a canonical
array marks its ranges one behind the other; `RangeBytesBounded`: the count
fits. These are in `DoneRangesProofs`, where the proofs about the stream find
them too. `StateIInv` adds `InsideFile`, that nothing is marked beyond the size: without
it a saved array would be cut when it is loaded. `Invariant` has one lemma for
each action, and from it follow `TypeCorrect`, `ArrayIsExact`, `TestIsExact`,
`RestartKeepsRanges` and `ReservationsAreSound`.

*Selection.* `SchedulingIsSound` concludes `SelectionSound` from the same
invariant. `AscendingProperties` ranks the members of a finite set, an injection
into as many numbers and therefore onto them; `TwoPasses` counts what the second
pass of the balanced strategy gives beside the first; `CandidatesAreEligible`
says that a segment the code accepts is one with a byte missing that shares none
with what is in flight, which needs that every segment begins inside the file
(`SegmentInside`). With this every property of `DownloadState` that is checked holds
for files, segments and chunks of every size.

*Segment engine.* Four theorems, for files and chunks of every size, any number
of connections, retries and faults: `ConnectionsAreSound`, `StateIsTrue`,
`CompletedIsOnDisk` and the action property `ProgressStays`. None of their
properties is inductive. The handlers are functions from a job to a job, so the
invariant is a predicate of a job, `Good`, and each function of the code has a
lemma that says what it keeps of it (`UpsertKeeps`, `WriteBodySound`,
`FinishContinuousGood`, `ConnectionClosedGood`, ...); the lemma of an action puts
those of the functions it calls together. `Good` has three parts.

- `Sound` is about what the job holds. `SlotsSound`: the extents of the slots in
  use share no byte, and a slot whose connection may be used again has no more
  on the wire than it still expects of the response (`SlotSound`) - that is what
  makes `CleanReuse` hold once the remainder is zero. `RangesSound`: both arrays
  are canonical and inside the file, without which `MarkIsExact` and `LoadIsExact`
  say nothing of them. `Written`: while the writer has not failed, the ranges
  marked and those saved are in the file, and what a slot has received has been
  given to the writer; `Between` carries this through the loop of
  `persist_buffered_progress`, in which each array lies between what was marked
  and that with all that was received. `Modes`: a job in stream mode has no slot in
  use, and a stream never counts beyond the size. Last, while ranges are not given
  up, what is saved is marked, so that a save never loses any of it, and a stream
  is entered with nothing missing.
- `Settled` is about where the loop can be: a job that runs has something to poll
  or to schedule (`NeverIdle`), one that is gone has neither, and a status
  `completed` stays true. For `Finalize` it takes `WholeIsExact`: a count of bytes
  equal to the size, or every range done, leaves no byte missing.
- `Errors` bounds the counter by the retries and the number of runs, as a run
  that goes on after its budget does not exist.

`ExtendSound` and `ReserveSound` give the reservations (with `ReserveEndIsSound`),
`ConnectSound` the k-th range selected for the k-th free slot (with
`SelectSound`), `MissingSegment` that a job with a byte missing and nothing in
flight is given a segment, without which it would wait for nothing. The loops of
`Reserve`, `Connect` and `Persist` are recursive functions and are treated as
those over the array.

*Lifecycle.* `ListSound` proves `ListIsSound` for any number of downloads,
workers, commands and failed saves. Neither half of it is inductive.

That an item has one entry has to be known while a thread is between the update
that found none and the appending. `SoleInv` says it of each such thread: as long
as the item is not in `unsure`, nobody else works on it in a way that could append
an entry, and it has no entry. `Remove` is where this could be lost, and `unsure`
is set there exactly if two workers will still publish the item. That an entry
found for a new item cannot be there rests on `AddedInv`, that what is listed, in
memory or in the file, or anywhere in a thread or a task, has been added.
`UpsertSound` and `AppendSound` are the two halves of an update, each with a save
that succeeds and one that does not.

That somebody works on every entry that says `downloading`: a task that is going to
be a job may be turned away when it is looked at, because the item has a job in the
table or is stopped. `EveryHeld` therefore asks for more: either a job that has
published and will publish again, or an item with no job in the table for which a
task, a worker before its first publication or the resumption at startup is still to
come. The look at the item then finds nothing that turns it away, as its status is
`downloading`; and a job enters the table only after it has published. `ResetSound`
is the case of a restart: what it puts back may say `downloading`, and the task that
it submits in the same step is forced. A death empties the table, and
`ResumingSound` hands each entry from the walk through the list to the task that it
submits. `WorkerGoes` and `WorkerRestates` cover the steps of a job that leave or
change its entry, `ControlGoes` and `ControlRestates` those of a command. That a
dispatch takes no task away is a statement about a loop, proved as those over the
array are.

*Catalogue.* `RecordsAlwaysAgree` and `NothingIsOrphaned` (an action property),
for any number of entries, queues and faults. Neither property is inductive. An
entry, its state file and its queue change in different calls, any of which can
fail or be the last, so the invariant says what is true between any two calls of
any command. `DocOK` says of the lists in memory and of those on disk that no id
is listed twice and no name borne twice. `UrlKnown` is `UrlStays` for both copies,
since after a death the one on disk is what counts. `Backed` says of each entry in
memory that its queue exists, or is gone from the disk too, or is the one its
state file names: a queue that is dropped can take no entry with it, as the drop
comes after the entries were taken out. `CmdInv` says of each place of a command
what its earlier calls have reached: which entries the loop of a list or a
removal has passed and how it left them, that at the drop nobody names the
queue, that a moved entry is listed and where it is. The loop of a purge is a
function over the list (`Outside`); `OutsideIs` says what it leaves, by the
first position at which that could fail, as for the ranges.

*Configuration.* `FileIsWhole` is not inductive: a rename makes the file what
the temporary file was, so one has to know what that is. `LockInv` says that
only the holder of the lock is in a call, and `DiskInv` what each place of
`persist_config` implies: after the sync the temporary file is the document in
memory, whole and synced, and what is under the name of the configuration is
whole and synced at every moment. `CallIsOneStep` and the lemmas of the actions
give `ConfigNextIInv`; from it `NeverTorn`, and `Refinement`, in which a change in
memory is a `Change`, a rename a `Store`, a return with success an
`Acknowledge`, a death a `Die`, and everything else a stutter.

`DocumentsAreTrees` proves `ConfigTypeOK`, which says of the document in
memory and of those in the files that nothing hangs below a scalar, an array or
nothing. `Begins` is the order of keys that the prefixes of the model come down to
(`AboveIs`, `PrefixIs`, `BeginsIsOrder`); over it each operator of `ConfigTree`
has a lemma: making what is missing (`WithObjectsIs`), a node that replaces all
below it (`PutIs`), cutting (`CutIs`), and pruning (`PruneIs`), where an object
that stays keeps what is above it because that has the object below it.
`CallLeavesTree` puts them together for every call. The given keys are assumed to
be sequences of strings and not empty, as a key without a part is refused.

*Daemon.* `OnceUnlessLost` counts executions; what makes it inductive is where
a call can be. `OneCall` says of a client that has lost no answer: its call is
in the queue of the channel, with the IPC thread, among the requests of HTTP or
with the main thread, in one place only and on the transport the client waits
at, and as long as it is there, or its connection is not made yet, nothing has
been executed. `Fate` says what an answer means and that nothing is executed
here before the command ends. `MethodInv` says who has the lock and that the
IPC thread goes before the main thread. `Kept` covers every step that moves a
request on or loses it, `Nowhere` a client whose call is over, and
`PerformsInv` both ends of a method. From the invariant follow `ExecutedOnce`,
`ForcedInside` and `QuietOnceGone`, an action property.

`OneDaemonAlways` is about the processes, any number of them with identifiers used
again and signals at any moment. Its invariant `ProcessInv` has two halves. What
each process holds is true in whatever order they come and go: a daemon past its
bind has the port, when there is one, and the port is nobody else's (`PortHeld`);
an endpoint is that of a process whose IPC thread answers (`EndpointHeld`); who
downloads is past its bind and has not closed its channels (`JobsHeld`, unless a
shutdown stopped waiting); and, while nothing was killed, a pid file belongs to a
process that will remove it (`FileClaimed`). From this `OneDownloader` follows, as
resuming needs the port. The second half, `Sole`, holds while nobody has started
or left beside another (`alone`): at most one process moves (`OneMoves`), none
gets past its first look while a daemon is there (`NobodyPasses`), and the file,
the endpoint and the port tell how far the one that moves has come (`Tells`). It
is needed for `SoleIsReachable` and `CleanExit`, and it is lost for good with
`alone`, which is why it is a second half and not more of the first. Each system
call has its lemma (`CreateKeeps`, `BindKeeps`, `UnlinkKeeps`, ...).
`ChangesAreNotHidden` proves, for any number of clients, versions and faults, the
part of `ViewsConverge` that is no liveness: the fingerprint that is noted is
not newer than what was sent.

*Transfer.* Five theorems: `OneOfEachAlways`, `ClientsAreRightAlways`,
`FinishedIsWholeAlways`, `StoredIsTrueAlways` and, as an action property,
`NothingIsSpoiltAlways`. They are about all twelve parts, each with an invariant
`IInv` that its module states; as a behaviour is one of the part it starts in
(`TransferStep`), the invariants together are one of the whole (`TransferInv`,
`TransferNextInv`).

- Of a request: before its mark is set nothing that was sent is a request, after it
  one, and without a proxy nothing else is sent (`SayOnce`, `WordIsOne`); a size
  that is reported of a successful answer is the file's or comes with a total that
  was not told (`AnswerIsResult`, `ReadingEnds`).
- Of the choice of a proxy: what was applied is no proxy or the one that is saved,
  which is the given one, so that a restart applies it again (`AppliedIsKept`).
- Of the ids: an id that a process has made carries its bits and is behind its
  count, and of the ids that are saved a process knows those with its bits; what it
  makes next is therefore new (`MadeIsNew`), also under a clock set back.
- Of the directories: what a job has looked at is still so unless another job was
  faster (`Looked`), and a removal of an item without jobs meets nothing that comes
  after it (`Quiet`); the step of a removal is about one directory (`WorkRemoval`).
- Of the console: the ring holds its last lines in order (`RingAppend`, which
  follows each line to its place when the ring turns), an answer is a row of lines
  without a gap that begins after the offset that was asked for, or at what was the
  first line of the ring or before what is now (`GivenIs`, by the first index at
  which the loop of `daemon_rpc_logs_fetch` could differ; `AnswerIs`). As the first
  line only moves on, this stays true while the answer is on its way. While calls
  do not overlap, the one under way asks from the last line of this daemon that is
  shown, or moves the cursor of a console that shows nothing (`OneAtATime`,
  `InLives`); so a row that is appended goes on from what is shown (`OrderedJoin`),
  also when the oldest entries are dropped (`OrderedShift`).
- Of the bridge: the post that was sent last carries the settings as they are
  (`LastPost`), also after posts were lost, copied or overtaken; an error stands for
  a request that ended unexecuted (`Undone`).
- Of the sessions: ids are different, the active one is among them, and what is
  stored is what there is, so that a start finds the same one.
- Of the window: unless two processes unpacked at once, nobody unpacks what is
  marked, one process at most unpacks at all, and who is about to mark has unpacked
  everything or been told so (`OneUnpacks`).
- Of the finished files: a job is never at the name of a file of others; as long as
  nobody took a name from another, what stands under the name of a job from its
  copy on is its own, and whole before its temporary file goes (`OwnName`).
- Of the bookmarks: the file is whole and synced, and so is what is about to
  replace it (`OnDisk`); what a method has made of the file has no address twice
  and lacks nothing but what the method removes (`InHand`).
- Of the lists of pieces: which step of a job can be where (`InTurn`), that the list
  is the one of the playlist that is meant (`ListIsMeant`) and that the file is the
  first pieces of it (`FrontIsWritten`). The parser carries the key, the vector
  and the number along from line to line (`Parse`); the standard says of a piece
  what the lines before it mean (`Sealed`, `Vector`), and the list that is meant is
  `Pieces`. That they agree is proved by the first line at which they could differ,
  as for the ranges.
- Of the stream: while nothing is spoilt, the file is a beginning of the body, and so
  is what the writer makes of it (`InPlace`): writes go to any place, so that this
  says of each write that all before it is on the disk or is written earlier. What
  a job has received ends where what is on the wire begins (`JobInPlace`,
  `Follows`); an answer that was left on its connection is known by its first byte
  (`Answered`); and what the job and the state file call done is on the disk
  (`OnDisk`). The handlers are functions from a job to a job as in
  `SegmentEngine`, and each has its lemma: `StreamConsume` takes bytes off the
  wire, `StreamHeaders` is the reading of an answer with its refusals,
  `StreamFinalized` the end of a job, `StreamConnectionClosed` every way a
  connection can end, `StreamHeldAnswer` the second look at it. What a mark, a load
  and a count do comes from `DoneRangesProofs`.

`NothingIsSpoilt` is about steps. The lemma of a step of the stream, of the ids, of
the finished files and of the bookmarks proves with the invariant what that step
may not do (`StreamNextInv`, `IdsNextInv`, `FilesNextInv`, `MarksNextInv`).

The assumptions are those that each module names for its constants: sizes, chunks
and runs that are not zero, and a file of more than one byte where a probe asks for
its first; a ring, a batch, a console and a number of calls that are not zero; at
least one item; machine bits that differ between processes; no piece twice in a
playlist and a list of a page that is not empty; the address of the local daemon
among the addresses; and names for nobody, for other people's files, no address and
no proxy that are not those of something.

Model-checked only: every liveness property (`CallsReturn`, `TasksFinish`,
`JobEnds`, `EverythingReturns`, `ViewsConverge`, `TransfersEnd`, `ClientsCatchUp`
and the like), as the prover has neither fairness nor `ENABLED`. Every invariant,
every action property and both refinements that passing runs check are theorems;
of `ViewsConverge` the part that is about steps is one (`BroadcastIsNoted`).

## 5. Where the code and its documents differ

Three runs end in a violation.

- `segment_fallback_whole`, `CompletedIsWhole` (`download.c:1936`): after a
  fall-back the stream goes on from the size of the temp file. If a later segment
  had been written, the holes before it are never fetched, and the byte count that
  decides on completion is that size plus what came after.
- `lifecycle_survive`, `DownloadsSurvive` (`download.c:5503`): a restart reads the
  entry and puts it back in another call. If the job completes in between, the
  entry says `downloading` again while its state file has lost `temp_path`, and the
  reset of that file is refused because a job runs. The job that is started then
  copies the missing path (`download.c:4670`), which ends the process, and so does
  every daemon that resumes what was interrupted, where
  `docs/architecture/README.md:27` promises that downloads survive restarts.
- `probe_size`, `ReportedSizeIsTheFiles` (`download_probe.c:265`): the length of
  any answer, of a redirect or an error as well, is reported as the size with
  success, where `download_probe.h:13` speaks of the size of the resource. The
  clients compare it with the saved total (`gui/src/lib/downloadSizeCheck.ts:48`)
  without a look at the status.

The properties of the passing runs hold because the models state the following
as conditions or history variables. They are listed because a reader of the code
would want to know.

*Engine and writer.* A worker that has found the list empty and not yet begun to
wait misses the broadcast of a destroy, which is made without the mutex
(`thread_pool.c:177`), and the join waits for ever. With every range done and
the file not yet moved, a restarted job asks beyond the end, gets 416 and stops
as not resumable (`download.c:3587`). `sync_state_metadata` saves after a failed
drain; ranges are saved after a flush and not after the fsync that
`download_state.h` mentions; a partly saved segment is fetched again from its
first byte; a response that ends with its reservation is noticed only by the
idle timeout; `set_error` publishes nothing, so an item can say `downloading`
for ever.

*Lifecycle.* A spawned item says `queued` until its worker publishes it, and the
next dispatch spawns it again, so the limit can be exceeded (`queue.c:507`). The
last report of a job whose item was removed appends the entry again
(`download.c:1287`), and two jobs of such an item append two. An update that was
not saved is followed by an appending all the same (`download.c:1286`,
`config.c:731`), so that an item has two entries of one id from then on; commands
and jobs find the first of them, and what the second says stays. A download that is
added again after its job has published its end, and before that job has left the
table, is queued; the dispatch of `queue_start` finds it active and skips it
(`download.c:4815`), and nothing dispatches when the job leaves the table, although
`queue.h:63` has `queue_start` begin the queued items. `QueuedIsStarted` is checked
without the command that adds for this reason. Entries that lost their queue come back to it from their
state file (`download.c:5319`). `download_remove` does not dispatch. A restart
during another transfer removes the temp file and cannot reset the state file
that describes it. `queue_purge_items` leaves state files and running jobs.

*Lists, proxies, files.* A job on a list is not in the table of active jobs and
cannot be stopped; a tag `METHOD` other than AES-128 is written as it is;
`EXT-X-BYTERANGE` and `EXT-X-ENDLIST` are ignored. A tunnelled request is sent
before the tunnel stands (`download.c:3316`). A proxy once saved is kept over
changes of the configuration and of the lists of direct hosts; the entry
".example.com" matches only "example.com", where `gui/docs/en/settings.md:64`
speaks of domains; `docs/architecture/download-engine.md:93` has the environment
respected only without a configuration, and the code prefers it. Two jobs of one
name can overwrite each other's file (`raced`); a temp file is not synced before
its rename. Ids of bookmarks are seconds. Of two downloads that are added at once
while the temp directory does not exist one may be refused, as `make_dirs_in_path`
takes a directory that has come there since its look for an error
(`file-system.c:102`). A job that is removed while it runs can save its state or
open its file after its directory was listed; the directory then stays, and
nothing removes it later (`download.c:5613`).

*Daemon and clients.* A second release of an old daemon can remove the pid file
of its successor; without HTTP two daemons can run; a signal before the handlers
kills. A delegated command whose output exceeds the pipe keeps the lock for
ever, and one that calls the daemon again waits for itself and is executed again
over the next transport. A response of 256 KiB and more is refused by the pipe
client and asked for again over HTTP. A ping takes any HTTP answer for a daemon.
Two first starts of `avar gui` unpack into one directory, and the second can leave
half a bundle under the first one's marker (`electron_embed.c:261`); the result of
closing the archive is not looked at (211). A window that was opened because the
wait was over, or that closed before the daemon had begun, cannot end it
(`daemon.c:685`).
`daemon logs --follow` asks without an offset and shows the oldest lines each
time, where `docs/cli/daemon.md` promises the like of `tail -f`. The first line
of the log is never shown, and after a restart of the daemon the console is
silent until the numbers pass its offset. An attach builds its snapshot before
the fingerprint is noted, which hides a change from the other clients until the
resync. A post of the settings that is lost, overtaken or read in part is not
repaired; `extension_seen` is set by a message no extension sends; the bridge
answers 501 to a message for which the extension has already cancelled the
browser's download. Editing the active session does not change the client, and
toggling the extension sets it back to the first address.

## 6. What is not modelled

- Watchers of progress: `download_progress_is_watched` has no callers, and what a
  notification publishes is an upsert as `DownloadLifecycle` has it.
- The repair of damaged records, attached downloads of the command line, the
  creation of the process-wide pools.
- Environment overrides and the Windows variant of the configuration store, the
  Windows service and pipes, the WebSocket variant of the stream.
- TLS beyond a step of connecting; proxies that are reached by TLS.
- Time. Timeouts are choices of the model or steps of a loop; nothing says how
  long.
- Power loss in the engines, except as the difference between `os` and `synced`.
- In `DownloadLifecycle`: several queues; a save of a state file that fails; the
  window between reading and replacing an entry in the commands other than restart.
  `download_set_queue` (`download.c:5666-5694`) and the few others that put back a
  whole entry can overwrite what a job has said meanwhile, as a restart can.
- In `SegmentEngine` every answer to a slot other than the expected ones starts the
  fall-back: 416, which stops the job as not resumable (`download.c:3093`), and a
  redirect, which is followed (3033-3068), are among them.
- In `StreamTransfer`: disk errors, which `AsyncFile` and `SegmentEngine` have; 416
  to a sequential range is dealt with as any other refusal is.
- In `Catalogue`: an enqueue that finds a resumable entry (`download.c:690-720`, it
  is in `DownloadLifecycle`), a queue whose name is not found (3946), and the flag of
  a queue, which a worker reads and replaces in two calls (`queue.c:230-266`).
- In `EmbeddedGui`: a `tar` that outlives the process that began it
  (`electron_embed.c:149`) ends with it in the model, and a bundle that fails goes to
  the browser without the search for an installed window (`gui_launch.c:335-342`).
- In `Identifiers`: the limit on the attempts at an id that is not listed yet.
- In `ProxyRequest`: " 200" and " 201" are looked for in the first bytes of an answer
  to CONNECT, whatever line they are in; the model takes them for the status.
- Formats: JSON, HTTP headers, playlists, file names, log lines; digests.
- The mutex wrapper, settings with defaults, logging, string functions, argument
  parsing, other windows and settings pages, the React and Electron clients, the
  extensions in the browser, installers and vendored code: data, presentation,
  or libraries of what is described here.

## 7. Plan

1. Restart in `SegmentEngine`: two jobs of one temp file, and a reset that is
   refused. `ContentBeforeState` is the property.
2. Two queues in `DownloadLifecycle`, with the calls of `Catalogue` between its
   steps, so that a move meets a dispatch.
3. Composition: `DownloadLifecycle` over `DurableDocument`, in place of its own
   `Saved` and `NotSaved`.
4. The switch to segments as one behaviour: what `StreamTransfer` hands over is a
   state from which `SegmentEngine` starts.
