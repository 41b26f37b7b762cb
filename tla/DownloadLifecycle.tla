------------------------- MODULE DownloadLifecycle --------------------------
(***************************************************************************)
(* The list of downloads of the daemon and the jobs that work on it: the   *)
(* commands of download.c, one queue with its scheduler (queue.c), the     *)
(* tasks of the download pool and the table of active jobs.                *)
(*                                                                         *)
(* The list, dm.items, is in the configuration, as is the queue's started  *)
(* flag: both survive the process.  A call into the configuration holds    *)
(* its lock, changes what is in memory and saves all of it; when the save  *)
(* fails the change stays in memory and the call fails.  Nothing is held   *)
(* from one call to the next, so a worker and the thread of the commands   *)
(* interleave between the update of an entry, the appending of one that    *)
(* could not be updated, and what follows.  What a transfer does is in     *)
(* SegmentEngine; here a job publishes its progress and ends.              *)
(***************************************************************************)
EXTENDS Naturals, Sequences, FiniteSets

CONSTANTS Items,         \* the downloads that may be added, all to one queue
          NoItem,
          Preset,        \* those that are in the list when the daemon starts
          Workers,       \* the threads of the download pool
          MaxConcurrent, \* maxConcurrentDownloads of the queue
          Calls,         \* the commands that are given
          MaxCalls,      \* a bound: commands given
          MaxCrashes,    \* a bound: times the daemon is killed
          MaxFailures,   \* a bound: saves of the configuration that fail
          MaxProgress    \* a bound: times a job publishes its progress

ASSUME ItemsAssumption ==
    NoItem \notin Items /\ Preset \subseteq Items /\ IsFiniteSet(Preset)
ASSUME WorkersAssumption == "control" \notin Workers
ASSUME LimitAssumption == MaxConcurrent \in Nat \ {0}

VARIABLES list,    \* dm.items, in order: an item and its status in each entry
          started, \* the queue's flag
          saved,   \* the two as they are in the file
          added,   \* the items that have been given an id
          moved,   \* items whose state.json has lost its temp_path
          tasks,   \* the queue of the pool
          proc,    \* the threads
          calls, crashes, failures,
          quiet,   \* history: a job has ended by set_error alone
          unsure   \* history: items whose entries may be wrong (see Upsert,
                   \* Reset and Remove)

vars == <<list, started, saved, added, moved, tasks, proc, calls, crashes, failures, quiet, unsure>>

Entry(i, s) == [item |-> i, status |-> s]
Listed == {list[n].item : n \in DOMAIN list}

(* find_download_item_index: the first entry of item i. *)
Finds(i, n) == list[n].item = i /\ \A m \in 1..(n - 1) : list[m].item # i
Says(i, s) == \E n \in DOMAIN list : Finds(i, n) /\ list[n].status = s

(* The workers, and the thread that executes the daemon's commands. *)
Procs == Workers \cup {"control"}

Resting == [pc |-> "idle", next |-> "idle", item |-> NoItem, say |-> "none", force |-> FALSE,
            reg |-> FALSE, cancel |-> FALSE, pause |-> FALSE, at |-> 0, last |-> 0]

(* The daemon starts with a list, in any order since the items are alike,  *)
(* and continues what was interrupted: the thread of the commands walks    *)
(* through the list.                                                       *)
Starting(n) == [Resting EXCEPT !.pc = "resuming", !.at = 1, !.last = n]

Init ==
    /\ list = CHOOSE l \in [1..Cardinality(Preset) -> {Entry(i, "queued") : i \in Preset}] :
                  {l[n].item : n \in DOMAIN l} = Preset
    /\ started = FALSE
    /\ saved = [list |-> list, started |-> started]
    /\ added = Preset
    /\ moved = {}
    /\ tasks = <<>>
    /\ proc = [p \in Procs |-> IF p = "control" THEN Starting(Len(list)) ELSE Resting]
    /\ calls = 0
    /\ crashes = 0
    /\ failures = 0
    /\ quiet = FALSE
    /\ unsure = {}

-----------------------------------------------------------------------------
(* persist_config, at the end of every call that changes the configuration. *)
Saved == saved' = [list |-> list', started |-> started'] /\ failures' = failures

NotSaved == failures < MaxFailures /\ failures' = failures + 1 /\ saved' = saved

(* active_jobs_find *)
Registered(i) == {w \in Workers : proc[w].reg /\ proc[w].item = i}

Task(i, force) == [item |-> i, force |-> force]

(* spawn_download_by_id: the task is submitted, unless a job is active. *)
Spawned(queue, i, force) ==
    IF ~force /\ Registered(i) # {} THEN queue ELSE Append(queue, Task(i, force))

Go(p, pc) == [proc EXCEPT ![p].pc = pc]

(* What follows the settling of the queue; the end, for a command. *)
Return(p) ==
    LET t == proc[p]
    IN  [proc EXCEPT ![p] = IF t.next = "idle" THEN Resting
                            ELSE [t EXCEPT !.pc = t.next, !.next = "idle", !.say = "none"]]

(* A mutant: an entry is appended without a look at the list. *)
UpsertAppends(p, t, s) ==
    /\ moved' = IF s = "completed" THEN moved \cup {t.item} ELSE moved \ {t.item}
    /\ list' = list
    /\ proc' = [proc EXCEPT ![p] = [t EXCEPT !.pc = "append", !.say = s]]
    /\ UNCHANGED <<started, saved, failures, tasks, unsure>>

(* A mutant: a freed slot is given to nobody. *)
UpsertAlone(p, t, s) ==
    /\ UNCHANGED <<started, tasks>>
    /\ moved' = IF s = "completed" THEN moved \cup {t.item} ELSE moved \ {t.item}
    /\ \E n \in DOMAIN list :
          /\ Finds(t.item, n)
          /\ list' = [list EXCEPT ![n].status = s]
          /\ proc' = [proc EXCEPT ![p] = [t EXCEPT !.pc = t.next, !.next = "idle"]]
          /\ Saved /\ unsure' = unsure

(* The first half of dm_item_upsert, for the item of t: state.json is saved *)
(* and the entry updated.  If there is none, or if the configuration cannot *)
(* be saved, an entry is to be appended.                                    *)
Upsert(p, t, s) ==
    /\ UNCHANGED <<started, tasks>>
    /\ moved' = IF s = "completed" THEN moved \cup {t.item} ELSE moved \ {t.item}
    /\ \/ \E n \in DOMAIN list :
            /\ Finds(t.item, n)
            /\ list' = [list EXCEPT ![n].status = s]
            /\ \/ /\ proc' = [proc EXCEPT ![p] = [t EXCEPT !.pc = "dispatch"]]
                  /\ Saved /\ unsure' = unsure
               \/ /\ proc' = [proc EXCEPT ![p] = [t EXCEPT !.pc = "append", !.say = s]]
                  /\ NotSaved /\ unsure' = unsure \cup {t.item}
       \/ /\ t.item \notin Listed
          /\ list' = list
          /\ proc' = [proc EXCEPT ![p] = [t EXCEPT !.pc = "append", !.say = s]]
          /\ UNCHANGED <<saved, failures, unsure>>

(* Its second half.  Then the queue is dispatched and its flag brought up  *)
(* to date, unless this was not saved either.                              *)
AppendEntry(p) ==
    /\ proc[p].pc = "append"
    /\ UNCHANGED <<started, added, moved, tasks, unsure>>
    /\ list' = Append(list, Entry(proc[p].item, proc[p].say))
    /\ \/ proc' = [proc EXCEPT ![p].pc = "dispatch", ![p].say = "none"] /\ Saved
       \/ proc' = Return(p) /\ NotSaved

(* update_download_item_status, by a command that found no active job; t is *)
(* what the thread is to go on with.                                        *)
UpdateStatus(i, s, t) ==
    /\ UNCHANGED <<started, added, moved, tasks, unsure>>
    /\ \E n \in DOMAIN list : Finds(i, n) /\ list' = [list EXCEPT ![n].status = s]
    /\ \/ /\ proc' = [proc EXCEPT !["control"] = [t EXCEPT !.pc = "dispatch", !.next = t.pc]]
          /\ Saved
       \/ proc' = [proc EXCEPT !["control"] = t] /\ NotSaved

Downloading == {n \in DOMAIN list : list[n].status = "downloading"}

(* queue_dispatch: every queued item of a started queue, in the order of   *)
(* the list, until as many are spawned or downloading as the queue allows. *)
Dispatched ==
    LET pass[n \in 0..Len(list)] ==
          IF n = 0 THEN [queue |-> tasks, active |-> Cardinality(Downloading)]
          ELSE LET so == pass[n - 1]
               IN  IF /\ so.active < MaxConcurrent
                      /\ list[n].status = "queued" /\ Says(list[n].item, "queued")
                   THEN [queue |-> Spawned(so.queue, list[n].item, FALSE),
                         active |-> so.active + 1]
                   ELSE so
    IN  IF started THEN pass[Len(list)].queue ELSE tasks

Config == <<list, started, saved, failures, added, unsure>>

Dispatch(p) ==
    /\ proc[p].pc = "dispatch"
    /\ tasks' = Dispatched
    /\ proc' = Go(p, "sync")
    /\ UNCHANGED <<Config, moved>>

(* queue_sync_started_state: no work is left, the flag will be cleared. *)
Sync(p) ==
    /\ proc[p].pc = "sync"
    /\ proc' = IF /\ started
                  /\ \A n \in DOMAIN list : list[n].status \notin {"downloading", "queued"}
               THEN Go(p, "unstart") ELSE Return(p)
    /\ UNCHANGED <<Config, moved, tasks>>

(* queue_set_started(id, false) *)
Unstart(p) ==
    /\ proc[p].pc = "unstart"
    /\ started' = FALSE
    /\ list' = list
    /\ Saved \/ NotSaved
    /\ proc' = Return(p)
    /\ UNCHANGED <<added, moved, tasks, unsure>>

-----------------------------------------------------------------------------
(* A worker. *)

Take(w) ==
    /\ proc[w].pc = "idle"
    /\ tasks # <<>>
    /\ tasks' = Tail(tasks)
    /\ proc' = [proc EXCEPT ![w] = [Resting EXCEPT !.pc = "check",
                    !.item = Head(tasks).item, !.force = Head(tasks).force]]
    /\ UNCHANGED <<Config, moved>>

(* download_scheduler_spawn_blocked *)
Blocked(i) == Says(i, "stopped") \/ (Says(i, "queued") /\ ~started)

(* The process is gone.  Its successor reads the list from the file and    *)
(* begins with download_resume_interrupted.                                *)
Die ==
    /\ list' = saved.list
    /\ started' = saved.started
    /\ tasks' = <<>>
    /\ proc' = [p \in Procs |->
                  IF p = "control" THEN Starting(Len(saved.list)) ELSE Resting]
    /\ UNCHANGED <<saved, failures, added, moved, unsure>>

(* The first part of run_download_for_item_id: what the task finds decides *)
(* whether it goes on.  The state of a completed download has no temp_path *)
(* any more, and copying it ends the process.                              *)
Check(w) ==
    LET i == proc[w].item
        goes == /\ i \in Listed
                /\ proc[w].force \/ (Registered(i) = {} /\ ~Blocked(i))
    IN  /\ proc[w].pc = "check"
        /\ IF goes /\ i \in moved THEN Die
           ELSE /\ proc' = IF goes THEN Go(w, "loaded") ELSE [proc EXCEPT ![w] = Resting]
                /\ UNCHANGED <<Config, moved, tasks>>

Loaded(w) ==
    /\ proc[w].pc = "loaded"
    /\ Upsert(w, [proc[w] EXCEPT !.next = "register", !.force = FALSE], "downloading")
    /\ UNCHANGED added

(* active_jobs_register, after the first request has been scheduled. *)
Register(w) ==
    /\ proc[w].pc = "register"
    /\ proc' = [proc EXCEPT ![w].pc = "run", ![w].reg = TRUE]
    /\ UNCHANGED <<Config, moved, tasks>>

Progress(w) ==
    /\ proc[w].pc = "run"
    /\ proc[w].at < MaxProgress
    /\ Upsert(w, [proc[w] EXCEPT !.next = "run", !.at = @ + 1], "downloading")
    /\ UNCHANGED added

(* How the loop of run_download_inner may end.  A stop is also how a job   *)
(* ends whose server does not support to resume it.                        *)
Outcomes(w) ==
    {"completed", "failed", "stopped"}
        \cup {s \in {"paused"} : proc[w].pause /\ ~proc[w].cancel}

Finish(w) ==
    /\ proc[w].pc = "run"
    /\ \/ \E s \in Outcomes(w) :
            /\ Upsert(w, [proc[w] EXCEPT !.next = "free"], s)
            /\ UNCHANGED <<added, quiet>>
       \/ /\ proc' = Go(w, "free")
          /\ quiet' = TRUE
          /\ UNCHANGED <<Config, moved, tasks>>

(* job_free, and the end of the task. *)
Free(w) ==
    /\ proc[w].pc = "free"
    /\ proc' = [proc EXCEPT ![w] = Resting]
    /\ UNCHANGED <<Config, moved, tasks>>

-----------------------------------------------------------------------------
(* The commands.  One that finds an active job sets a flag of the first of *)
(* them in the table.                                                      *)

Idle == proc["control"].pc = "idle"

Unchanged == UNCHANGED <<Config, moved, tasks>>

Flagged(i, flag) ==
    \E w \in Registered(i) :
        proc' = IF flag = "cancel" THEN [proc EXCEPT ![w].cancel = TRUE]
                                   ELSE [proc EXCEPT ![w].pause = TRUE]

(* download_enqueue_ex: an item that is in the list and not completed is   *)
(* queued again (find_resumable_item_id); there is nothing to take up of   *)
(* one whose state has lost its temp_path, and copying it ends the process. *)
Add(i) ==
    \/ /\ i \notin added \/ (i \notin moved /\ \E n \in DOMAIN list :
                                list[n].item = i /\ list[n].status # "completed")
       /\ added' = added \cup {i}
       /\ Upsert("control", [Resting EXCEPT !.item = i], "queued")
    \/ /\ i \in moved
       /\ \E n \in DOMAIN list : list[n].item = i /\ list[n].status # "completed"
       /\ Die

Pause(i) ==
    \/ Flagged(i, "pause") /\ Unchanged
    \/ /\ Registered(i) = {}
       /\ Says(i, "downloading")
       /\ UpdateStatus(i, "paused", Resting)

Spawn(i) ==
    /\ tasks' = Spawned(tasks, i, TRUE)
    /\ UNCHANGED <<Config, moved, proc>>

Resume(i) == Says(i, "paused") /\ Spawn(i)

Start(i) == (\E s \in {"queued", "paused", "failed", "stopped"} : Says(i, s)) /\ Spawn(i)

Stop(i) ==
    \/ Flagged(i, "cancel") /\ Unchanged
    \/ Registered(i) = {} /\ UpdateStatus(i, "stopped", Resting)

(* download_io_state_write_allowed, for the thread of the commands: while  *)
(* any job runs, nobody else writes a state.json.                          *)
WriteAllowed ==
    \A w \in Workers : proc[w].pc \in {"idle", "check", "loaded"}

(* download_restart: the state is reset while the job cancelled may still  *)
(* be running, and the file keeps what it had if the save is refused.  The *)
(* entry is read,                                                          *)
Restart(i) ==
    /\ \E n \in DOMAIN list :
          /\ Finds(i, n)
          /\ LET t == [Resting EXCEPT !.pc = "resetting", !.item = i, !.at = n,
                                      !.say = list[n].status]
             IN  \/ \E w \in Registered(i) :
                       proc' = [proc EXCEPT ![w].cancel = TRUE, !["control"] = t]
                 \/ Registered(i) = {} /\ proc' = [proc EXCEPT !["control"] = t]
    /\ moved' = IF WriteAllowed THEN moved \ {i} ELSE moved
    /\ UNCHANGED <<Config, tasks>>

(* and put back with the status that was read, whatever a job has said     *)
(* meanwhile.  Then the job is started.                                    *)
Reset ==
    LET t == proc["control"]
    IN  /\ t.pc = "resetting"
        /\ UNCHANGED <<started, added, moved>>
        /\ list' = [list EXCEPT ![t.at].status = t.say]
        /\ \/ /\ tasks' = Spawned(tasks, t.item, TRUE)
              /\ Saved /\ unsure' = unsure
           \/ /\ unsure' = IF list' = list THEN unsure ELSE unsure \cup {t.item}
              /\ NotSaved /\ tasks' = tasks
        /\ proc' = [proc EXCEPT !["control"] = Resting]

(* The list without its entry number n. *)
Without(n) == [k \in 1..(Len(list) - 1) |-> IF k < n THEN list[k] ELSE list[k + 1]]

(* The workers that will look for an entry of item i to update it. *)
Publishers(i) ==
    {w \in Workers :
        /\ proc[w].item = i
        /\ \/ proc[w].pc \in {"loaded", "register", "run", "append"}
           \/ proc[w].next \in {"register", "run"}}

(* download_remove.  The entry is found again by each job that has not     *)
(* ended, and appended if it is not there.                                 *)
Remove(i) ==
    /\ UNCHANGED <<started, added, tasks>>
    /\ \/ Flagged(i, "cancel")
       \/ Registered(i) = {} /\ UNCHANGED proc
    /\ \E n \in DOMAIN list : Finds(i, n) /\ list' = Without(n)
    /\ Saved \/ NotSaved
    /\ moved' = moved \ {i}
    /\ unsure' = IF \E v, w \in Publishers(i) : v # w THEN unsure \cup {i} ELSE unsure

(* queue_start: the flag, then a dispatch. *)
QueueStart ==
    /\ started' = TRUE
    /\ list' = list
    /\ \/ proc' = Go("control", "scheduling") /\ Saved
       \/ proc' = proc /\ NotSaved
    /\ UNCHANGED <<added, moved, tasks, unsure>>

Scheduling ==
    /\ proc["control"].pc = "scheduling"
    /\ tasks' = Dispatched
    /\ proc' = Go("control", "idle")
    /\ UNCHANGED <<Config, moved>>

(* queue_stop: the items first, one after the other, the flag at the end. *)
QueueStop ==
    /\ proc' = [proc EXCEPT !["control"] =
                   [Resting EXCEPT !.pc = "stopping", !.at = 1, !.last = Len(list)]]
    /\ Unchanged

(* The entry at a position of the list that was counted when the loop began. *)
Here == IF proc["control"].at \in DOMAIN list THEN {list[proc["control"].at]} ELSE {}

Onward == [proc["control"] EXCEPT !.at = @ + 1]

Stopping ==
    /\ proc["control"].pc = "stopping"
    /\ IF proc["control"].at > proc["control"].last
       THEN /\ proc' = [proc EXCEPT !["control"] = [Resting EXCEPT !.pc = "unstart"]]
            /\ Unchanged
       ELSE \/ /\ \A e \in Here : e.status \notin {"downloading", "paused"}
               /\ proc' = [proc EXCEPT !["control"] = Onward]
               /\ Unchanged
            \/ \E e \in Here :
                 /\ e.status \in {"downloading", "paused"}
                 /\ \/ \E w \in Registered(e.item) :
                         /\ proc' = [proc EXCEPT !["control"] = Onward, ![w].cancel = TRUE]
                         /\ Unchanged
                    \/ /\ Registered(e.item) = {}
                       /\ UpdateStatus(e.item, "stopped", Onward)

(* A mutant: what was downloading is left to the user. *)
ResumesQueued(s) == s = "queued" /\ started

(* download_should_resume_on_startup *)
Resumes(s) == s = "downloading" \/ (s = "queued" /\ started)

(* download_resume_interrupted *)
Resuming ==
    /\ proc["control"].pc = "resuming"
    /\ IF proc["control"].at > proc["control"].last
       THEN /\ proc' = [proc EXCEPT !["control"] = Resting]
            /\ UNCHANGED tasks
       ELSE /\ proc' = [proc EXCEPT !["control"] = Onward]
            /\ tasks' = IF \E e \in Here : Resumes(e.status)
                        THEN Spawned(tasks, list[proc["control"].at].item, FALSE) ELSE tasks
    /\ UNCHANGED <<Config, moved>>

Command ==
    /\ Idle
    /\ calls < MaxCalls
    /\ calls' = calls + 1
    /\ \/ \E i \in Items :
            \/ "add" \in Calls /\ Add(i)
            \/ "pause" \in Calls /\ Pause(i)
            \/ "resume" \in Calls /\ Resume(i)
            \/ "start" \in Calls /\ Start(i)
            \/ "stop" \in Calls /\ Stop(i)
            \/ "restart" \in Calls /\ Restart(i)
            \/ "remove" \in Calls /\ Remove(i)
       \/ "queue_start" \in Calls /\ QueueStart
       \/ "queue_stop" \in Calls /\ QueueStop
    /\ UNCHANGED <<crashes, quiet>>

Crash ==
    /\ crashes < MaxCrashes
    /\ crashes' = crashes + 1
    /\ Die
    /\ UNCHANGED <<calls, quiet>>

-----------------------------------------------------------------------------
WorkerStep(w) ==
    /\ \/ Take(w) /\ UNCHANGED quiet
       \/ Check(w) /\ UNCHANGED quiet
       \/ Loaded(w) /\ UNCHANGED quiet
       \/ Register(w) /\ UNCHANGED quiet
       \/ Finish(w)
       \/ Free(w) /\ UNCHANGED quiet
    /\ UNCHANGED <<calls, crashes>>

Settle(p) ==
    /\ AppendEntry(p) \/ Dispatch(p) \/ Sync(p) \/ Unstart(p)
    /\ UNCHANGED <<calls, crashes, quiet>>

ControlStep ==
    /\ Reset \/ Scheduling \/ Stopping \/ Resuming
    /\ UNCHANGED <<calls, crashes, quiet>>

Next ==
    \/ \E w \in Workers : WorkerStep(w) \/ (Progress(w) /\ UNCHANGED <<calls, crashes, quiet>>)
    \/ \E p \in Procs : Settle(p)
    \/ ControlStep
    \/ Command
    \/ Crash

(* The threads run and a transfer comes to an end (JobEnds in              *)
(* SegmentEngine); nobody has to give a command.  The first conjunct is    *)
(* weak fairness of each worker, with ENABLED written out: one that has    *)
(* begun, or finds a task, always has a step, and a step that changes its  *)
(* record.  What else changes it, flags and reports of progress, is        *)
(* bounded.                                                                *)
Fairness ==
    /\ \A w \in Workers : \/ []<>(proc[w].pc = "idle" /\ tasks = <<>>)
                          \/ []<><<proc'[w] # proc[w]>>_vars
    /\ WF_vars(ControlStep \/ Settle("control"))

Spec == Init /\ [][Next]_vars /\ Fairness

-----------------------------------------------------------------------------
Pcs == {"idle", "check", "loaded", "register", "run", "free", "append", "dispatch", "sync",
        "unstart", "resetting", "scheduling", "stopping", "resuming"}

Statuses == {"queued", "downloading", "paused", "stopped", "completed", "failed"}

Entries == [item : Items, status : Statuses]

Tasks == [item : Items, force : BOOLEAN]

Threads == [pc : Pcs, next : {"idle", "register", "run", "free", "stopping"},
            item : Items \cup {NoItem}, say : Statuses \cup {"none"},
            force : BOOLEAN, reg : BOOLEAN, cancel : BOOLEAN, pause : BOOLEAN,
            at : Nat, last : Nat]

TypeOK ==
    /\ list \in Seq(Entries)
    /\ started \in BOOLEAN
    /\ saved \in [list : Seq(Entries), started : BOOLEAN]
    /\ added \subseteq Items /\ moved \subseteq Items /\ unsure \subseteq Items
    /\ tasks \in Seq(Tasks)
    /\ proc \in [Procs -> Threads]
    /\ quiet \in BOOLEAN

(* One entry for each item, in memory and in the file, although            *)
(* dm_item_upsert (download.c:1286) looks for the entry in one call and    *)
(* appends it in another: an item has two only after an update of its      *)
(* entry that could not be saved, or after its removal from under two jobs *)
(* that had still to publish it.                                           *)
Once(l) == \A m, n \in DOMAIN l : m # n /\ l[m].item = l[n].item => l[m].item \in unsure
OneEntryEach == Once(list) /\ Once(saved.list)

(* A worker that will publish item i at least once more. *)
AtWork(w, i) ==
    /\ proc[w].item = i
    /\ \/ proc[w].pc \in {"check", "loaded", "register", "run"}
       \/ proc[w].next \in {"register", "run"}

(* An entry of the list that says "downloading" has somebody who will      *)
(* change it: a job, a task that is going to be one, or the resumption of  *)
(* interrupted downloads that has yet to reach it.  Without that the entry *)
(* would fill a place of its queue for ever; the ways to such an entry are *)
(* a job that ends without a word (set_error, see SegmentEngine), and the  *)
(* second entry of an item, or a restart that put back what it had read    *)
(* and could not save it.                                                  *)
SomebodyDownloads ==
    ~quiet => \A n \in DOMAIN list :
        list[n].status = "downloading" /\ list[n].item \notin unsure =>
            \/ \E w \in Workers : AtWork(w, list[n].item)
            \/ \E k \in DOMAIN tasks : tasks[k].item = list[n].item
            \/ proc["control"].pc = "resuming" /\ proc["control"].at <= n

(* The list is sound: one entry for each item (dm_item_upsert), and none    *)
(* that says it downloads while nobody does.                                *)
ListIsSound == TypeOK /\ OneEntryEach /\ SomebodyDownloads

(* The scheduler forgets nobody: an item that waits in a started queue is  *)
(* started, unless the queue is stopped (queue.h, "the next queued item    *)
(* picks up a freed slot").  Three things can make it forget: a job that   *)
(* ends without a word, the removal of an item, after which nothing is     *)
(* dispatched, and a save that failed, after which nothing is either.  A   *)
(* fourth is an item that is queued again before its last job has left the *)
(* table, if queue_start comes just then: it holds without "add" in Calls. *)
QueuedIsStarted ==
    \A i \in Items : (started /\ Says(i, "queued"))
                       ~> \/ ~started
                          \/ ~Says(i, "queued")
                          \/ quiet
                          \/ failures > 0
                          \/ added \ Listed # {}

(* What downloads comes to an end, through crashes and restarts, so that   *)
(* whoever waits for it (wait_for_download_item) is answered; unless some  *)
(* entry is wrong, which can end the process at every start.               *)
DownloadingEnds ==
    \A i \in Items : Says(i, "downloading") ~> (quiet \/ unsure # {} \/ ~Says(i, "downloading"))

(* "Downloads and queues survive restarts" (docs/architecture/README.md),  *)
(* with no excuse for wrong entries: what says it downloads is resumed by  *)
(* the next daemon and ends.                                               *)
DownloadsSurvive ==
    \A i \in Items : Says(i, "downloading") ~> (quiet \/ ~Says(i, "downloading"))
=============================================================================
