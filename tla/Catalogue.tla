------------------------------ MODULE Catalogue ------------------------------
(***************************************************************************)
(* The lists that the daemon keeps: queues and download entries in the     *)
(* configuration, and the state file beside each entry, which repeats its  *)
(* queue and holds its URL.                                                *)
(*                                                                         *)
(* One thread runs the commands.  A command is a sequence of calls into    *)
(* the store: each takes effect in memory, is written or fails to be (the  *)
(* DurableDocument that ConfigStore implements), and the process can die   *)
(* between any two.  The jobs of these entries are DownloadLifecycle's;    *)
(* here a job of some other entry may be running, which forbids this       *)
(* thread every write of a state file.                                     *)
(***************************************************************************)
EXTENDS Integers, Sequences, FiniteSets, SequencesExt

CONSTANTS Ids,         \* the ids of entries
          Names,       \* the names of queues
          Urls,
          Rands,       \* what rand() gives
          OldUrl,      \* the URL of an entry of an older version
          MaxFaults,   \* a bound: writes that fail and deaths of the process
          MaxSecond,   \* a bound: time() is 1 .. MaxSecond, in seconds
          MaxQueues    \* a bound on their list

ASSUME CatalogueAssumption ==
    /\ IsFiniteSet(Ids)
    /\ MaxSecond \in Nat /\ MaxFaults \in Nat /\ MaxQueues \in Nat /\ Rands \subseteq Nat \ {0}
    /\ "none" \notin Urls \cup {OldUrl}

VARIABLES mem,     \* the entries and queues in memory
          disk,    \* the same lists, as they were stored last
          saved,   \* the state file of each entry
          scope,   \* a job of another entry is running
          cmd,     \* the command that is running
          faults,
          wanted,  \* history: the URL each entry was last given
          clean    \* history: no call of this command has failed

storeVars == <<mem, disk>>
vars == <<mem, disk, saved, scope, cmd, faults, wanted, clean>>

NoQueue == <<0, 0>>
NoUrl == "none"
NoState == [exists |-> FALSE, queue |-> NoQueue, url |-> NoUrl]
Idle == [op |-> "idle", item |-> "none", queue |-> NoQueue, pos |-> 0]

QueueIds == (1 .. MaxSecond) \X (Rands \cup {0})
IdsOf(queues) == {queues[k].id : k \in DOMAIN queues}
NamesOf(queues) == {queues[k].name : k \in DOMAIN queues}

(* find_download_item_index, queue_find_index: the first match, 0 for none. *)
ItemIndex(doc, i) == SelectInSeq(doc.items, LAMBDA e : e.id = i)
QueueIndex(doc, q) == SelectInSeq(doc.queues, LAMBDA e : e.id = q)

Listed(i) == ItemIndex(mem, i) # 0
QueueOf(i) == mem.items[ItemIndex(mem, i)].queue

(* An entry of an older version has its URL in the configuration and no    *)
(* state file yet; a start finds one or none.                              *)
LegacyEntry(i) == [id |-> i, queue |-> NoQueue, url |-> OldUrl]

Init ==
    /\ \E items \in {<<>>} \cup {<<LegacyEntry(i)>> : i \in Ids} :
          /\ mem = [items |-> items, queues |-> <<>>]
          /\ wanted = [i \in Ids |-> IF items = <<LegacyEntry(i)>> THEN OldUrl ELSE NoUrl]
    /\ disk = mem
    /\ saved = [i \in Ids |-> NoState]
    /\ scope = FALSE
    /\ cmd = Idle
    /\ faults = 0
    /\ clean = TRUE

(* One call into the store that changes the document. *)
Fault == faults < MaxFaults /\ faults' = faults + 1

Stored(doc) == mem' = doc /\ disk' = doc /\ UNCHANGED <<clean, faults>>
Unstored(doc) == Fault /\ mem' = doc /\ disk' = disk /\ clean' = FALSE

(* download_state_save by the thread that runs commands, which has no scope *)
(* of its own: download_io_state_write_allowed.                             *)
SaveState(i, state) ==
    \/ /\ ~scope
       /\ saved' = [saved EXCEPT ![i] = state]
       /\ UNCHANGED <<clean, faults>>
    \/ UNCHANGED <<saved, faults>> /\ scope /\ clean' = FALSE
    \/ UNCHANGED saved /\ Fault /\ clean' = FALSE

Goto(op, item, queue, pos) == cmd' = [op |-> op, item |-> item, queue |-> queue, pos |-> pos]
Done == cmd' = Idle

Begin == cmd = Idle /\ clean' = TRUE
At(op) == cmd.op = op

-----------------------------------------------------------------------------
(* queue.c *)

(* queue_generate_id: the second, and a random number when that is taken;  *)
(* the second attempt is not looked up.                                    *)
GeneratedIds(second) ==
    IF QueueIndex(mem, <<second, 0>>) = 0 THEN {<<second, 0>>} ELSE {second} \X Rands

QueueAdd(name) ==
    /\ cmd = Idle
    /\ name \notin NamesOf(mem.queues)
    /\ Len(mem.queues) < MaxQueues
    /\ \E id \in UNION {GeneratedIds(second) : second \in 1 .. MaxSecond} :
          LET doc == [mem EXCEPT !.queues = Append(@, [id |-> id, name |-> name])]
          IN  Stored(doc) \/ Unstored(doc)
    /\ UNCHANGED <<saved, scope, cmd, wanted>>

(* Mutant: the name is not looked up. *)
QueueEditUnchecked(q, name) ==
    LET k == QueueIndex(mem, q)
        doc == [mem EXCEPT !.queues[k].name = name]
    IN  /\ cmd = Idle
        /\ k # 0
        /\ Stored(doc) \/ Unstored(doc)
        /\ UNCHANGED <<saved, scope, cmd, wanted>>

(* queue_edit; the settings of a queue besides its name are left out. *)
QueueEdit(q, name) ==
    LET k == QueueIndex(mem, q)
        doc == [mem EXCEPT !.queues[k].name = name]
    IN  /\ cmd = Idle
        /\ k # 0
        /\ \A other \in DOMAIN mem.queues \ {k} : mem.queues[other].name # name
        /\ Stored(doc) \/ Unstored(doc)
        /\ UNCHANGED <<saved, scope, cmd, wanted>>

(* Mutant: the queue goes before its entries are taken out. *)
QueueRemoveDropsFirst(q, purge) ==
    /\ Begin
    /\ QueueIndex(mem, q) # 0
    /\ Goto("drop", "none", q, 1)
    /\ UNCHANGED <<mem, disk, saved, scope, wanted, faults>>

(* queue_remove: the entries first, then the queue. *)
QueueRemove(q, purge) ==
    /\ Begin
    /\ QueueIndex(mem, q) # 0
    /\ Goto(IF purge THEN "purge" ELSE "detach", "none", q, 1)
    /\ UNCHANGED <<mem, disk, saved, scope, wanted, faults>>

(* queue_detach_items: one entry after the other, and no further after a   *)
(* failure.                                                                *)
Detach ==
    LET k == cmd.pos
        here == k \in DOMAIN mem.items /\ mem.items[k].queue = cmd.queue
        doc == [mem EXCEPT !.items[k].queue = NoQueue]
        on == Goto("detach", "none", cmd.queue, k + 1)
    IN  /\ At("detach")
        /\ \/ k > Len(mem.items) /\ Goto("drop", "none", cmd.queue, 0) /\ UNCHANGED <<mem, disk, clean, faults>>
           \/ k <= Len(mem.items) /\ ~here /\ on /\ UNCHANGED <<mem, disk, clean, faults>>
           \/ here /\ Stored(doc) /\ on
           \/ here /\ Unstored(doc) /\ Done
        /\ UNCHANGED <<saved, scope, wanted>>

(* remove_config_array_items_where: the entries that are not in queue q. *)
Outside(items, q) ==
    LET left[n \in 0 .. Len(items)] ==
            IF n = 0 THEN <<>>
            ELSE IF items[n].queue = q THEN left[n - 1]
            ELSE Append(left[n - 1], items[n])
    IN  left[Len(items)]

(* queue_purge_items: their state files stay. *)
Purge ==
    LET doc == [mem EXCEPT !.items = Outside(mem.items, cmd.queue)]
    IN  /\ At("purge")
        /\ \/ doc = mem /\ UNCHANGED <<mem, disk, clean, faults>> /\ Goto("drop", "none", cmd.queue, 0)
           \/ doc # mem /\ Stored(doc) /\ Goto("drop", "none", cmd.queue, 0)
           \/ doc # mem /\ Unstored(doc) /\ Done
        /\ UNCHANGED <<saved, scope, wanted>>

Drop ==
    LET doc == [mem EXCEPT !.queues = RemoveAt(@, QueueIndex(mem, cmd.queue))]
    IN  /\ At("drop")
        /\ Stored(doc) \/ Unstored(doc)
        /\ Done
        /\ UNCHANGED <<saved, scope, wanted>>

-----------------------------------------------------------------------------
(* The queue of an entry: download.c and downloads.list of daemon_rpc.c.    *)

WithQueue(i, q) == [mem EXCEPT !.items[ItemIndex(mem, i)].queue = q]

(* Mutant: a state file that disagrees is left alone. *)
ReconcileFillsOnly(i) ==
    LET q == QueueOf(i)
        s == saved[i].queue
        doc == WithQueue(i, s)
    IN  \/ /\ ~saved[i].exists \/ q # NoQueue \/ s = NoQueue
           /\ UNCHANGED <<mem, disk, saved, clean, faults>>
        \/ /\ saved[i].exists /\ q = NoQueue /\ s # NoQueue
           /\ Stored(doc) \/ Unstored(doc)
           /\ UNCHANGED saved

(* download_item_reconcile_queue_membership: the configuration prevails     *)
(* unless it names no queue; then the state file does.                      *)
Reconcile(i) ==
    LET q == QueueOf(i)
        s == saved[i].queue
        doc == WithQueue(i, s)
    IN  \/ /\ ~saved[i].exists \/ q = s
           /\ UNCHANGED <<mem, disk, saved, clean, faults>>
        \/ /\ saved[i].exists /\ q = NoQueue /\ s # NoQueue
           /\ Stored(doc) \/ Unstored(doc)
           /\ UNCHANGED saved
        \/ /\ saved[i].exists /\ q # NoQueue /\ q # s
           /\ SaveState(i, [saved[i] EXCEPT !.queue = q])
           /\ UNCHANGED storeVars

(* handle_downloads_list and enrich_download_entry_from_disk *)
List ==
    /\ Begin
    /\ Goto("list", "none", NoQueue, 1)
    /\ UNCHANGED <<mem, disk, saved, scope, wanted, faults>>

ListEntry ==
    /\ At("list")
    /\ \/ /\ cmd.pos \in DOMAIN mem.items
          /\ Reconcile(mem.items[cmd.pos].id)
          /\ Goto("list", "none", NoQueue, cmd.pos + 1)
       \/ /\ cmd.pos \notin DOMAIN mem.items
          /\ Goto("listed", "none", NoQueue, 0)
          /\ UNCHANGED <<mem, disk, saved, clean, faults>>
    /\ UNCHANGED <<scope, wanted>>

ListAnswer ==
    /\ At("listed")
    /\ Done
    /\ UNCHANGED <<mem, disk, saved, scope, wanted, clean, faults>>

(* download_set_queue: reconcile, then the configuration, then the state    *)
(* file, whose failure is ignored.                                          *)
SetQueue(i, q) ==
    /\ cmd = Idle
    /\ Listed(i)
    /\ Reconcile(i)
    /\ Goto("move", i, q, 0)
    /\ UNCHANGED <<scope, wanted>>

Move ==
    LET i == cmd.item
        doc == WithQueue(i, cmd.queue)
        known == cmd.queue = NoQueue \/ QueueIndex(mem, cmd.queue) # 0
    IN  /\ At("move")
        /\ \/ (~known \/ QueueOf(i) = cmd.queue) /\ Done /\ UNCHANGED <<mem, disk, clean, faults>>
           \/ known /\ QueueOf(i) # cmd.queue /\ Stored(doc) /\ Goto("moved", i, cmd.queue, 0)
           \/ known /\ QueueOf(i) # cmd.queue /\ Unstored(doc) /\ Done
        /\ UNCHANGED <<saved, scope, wanted>>

Moved ==
    /\ At("moved")
    /\ \/ ~saved[cmd.item].exists /\ UNCHANGED <<saved, clean, faults>>
       \/ saved[cmd.item].exists /\ SaveState(cmd.item, [saved[cmd.item] EXCEPT !.queue = cmd.queue])
    /\ Done
    /\ UNCHANGED <<mem, disk, scope, wanted>>

-----------------------------------------------------------------------------
(* Mutant: an id that is in use is given out again. *)
EnqueueKnown(i, q, u) ==
    /\ Begin
    /\ QueueIndex(mem, q) # 0 \/ q = NoQueue
    /\ saved' = [saved EXCEPT ![i] = [exists |-> TRUE, queue |-> q, url |-> u]]
    /\ Goto("append", i, q, 0)
    /\ UNCHANGED <<mem, disk, scope, wanted, faults>>

(* download_enqueue: the state file, under a scope of this entry, then the  *)
(* entry.  A queue that is not found is taken as it was given.              *)
Enqueue(i, q, u) ==
    /\ Begin
    /\ wanted[i] = NoUrl /\ ~saved[i].exists   \* ids are not used twice
    /\ QueueIndex(mem, q) # 0 \/ q = NoQueue
    /\ saved' = [saved EXCEPT ![i] = [exists |-> TRUE, queue |-> q, url |-> u]]
    /\ Goto("append", i, q, 0)
    /\ UNCHANGED <<mem, disk, scope, wanted, faults>>

EnqueueEntry ==
    LET entry == [id |-> cmd.item, queue |-> saved[cmd.item].queue, url |-> NoUrl]
        doc == [mem EXCEPT !.items = Append(@, entry)]
    IN  /\ At("append")
        /\ Stored(doc) \/ Unstored(doc)
        /\ Done
        /\ wanted' = [wanted EXCEPT ![cmd.item] = saved[cmd.item].url]
        /\ UNCHANGED <<saved, scope>>

(* Mutant: the entry is asked before the state file. *)
LookupUrlInEntry(doc, i) ==
    LET url == doc.items[ItemIndex(doc, i)].url
    IN  IF url # NoUrl THEN url ELSE saved[i].url

(* download_item_load_url *)
LookupUrl(doc, i) ==
    IF saved[i].exists THEN saved[i].url ELSE doc.items[ItemIndex(doc, i)].url

(* download_set_url, download_set_source: the state file, and then the URL  *)
(* of the entry goes.                                                       *)
SetUrl(i, u) ==
    /\ Begin
    /\ Listed(i)
    /\ saved[i].exists
    /\ ~scope
    /\ saved' = [saved EXCEPT ![i].url = u]
    /\ wanted' = [wanted EXCEPT ![i] = u]
    /\ Goto("strip", i, NoQueue, 0)
    /\ UNCHANGED <<mem, disk, scope, faults>>

(* download_item_strip_config_url *)
StripUrl ==
    LET doc == [mem EXCEPT !.items[ItemIndex(mem, cmd.item)].url = NoUrl]
    IN  /\ At("strip")
        /\ \/ doc = mem /\ UNCHANGED <<mem, disk, clean, faults>>
           \/ doc # mem /\ (Stored(doc) \/ Unstored(doc))
        /\ Done
        /\ UNCHANGED <<saved, scope, wanted>>

(* The first state file of an old entry, by a job of its own                 *)
(* (run_download_for_item_id): the URL is looked up, the queue is the one of *)
(* the entry.                                                                *)
FirstState(i) ==
    /\ Listed(i)
    /\ ~saved[i].exists
    /\ saved' = [saved EXCEPT ![i] = [exists |-> TRUE, queue |-> QueueOf(i),
                                      url |-> LookupUrl(mem, i)]]
    /\ UNCHANGED <<mem, disk, scope, cmd, wanted, clean, faults>>

-----------------------------------------------------------------------------
OtherJob ==
    /\ scope' = ~scope
    /\ UNCHANGED <<mem, disk, saved, cmd, wanted, clean, faults>>

(* The process dies and its successor loads what was stored. *)
Crash ==
    /\ Fault
    /\ mem' = disk
    /\ cmd' = Idle
    /\ scope' = FALSE
    /\ UNCHANGED <<disk, saved, wanted, clean>>

Step == Detach \/ Purge \/ Drop \/ ListEntry \/ ListAnswer \/ Move \/ Moved
        \/ EnqueueEntry \/ StripUrl

Next ==
    \/ \E name \in Names : QueueAdd(name) \/ \E q \in QueueIds : QueueEdit(q, name)
    \/ \E q \in QueueIds, purge \in BOOLEAN : QueueRemove(q, purge)
    \/ \E i \in Ids, q \in QueueIds \cup {NoQueue} : SetQueue(i, q)
    \/ \E i \in Ids, q \in QueueIds \cup {NoQueue}, u \in Urls : Enqueue(i, q, u)
    \/ \E i \in Ids, u \in Urls : SetUrl(i, u)
    \/ \E i \in Ids : FirstState(i)
    \/ List
    \/ Step
    \/ OtherJob
    \/ Crash

Spec == Init /\ [][Next]_vars

-----------------------------------------------------------------------------
Docs == {mem, disk}

Entry == [id : Ids, queue : QueueIds \cup {NoQueue}, url : Urls \cup {OldUrl, NoUrl}]

TypeOK ==
    /\ \A doc \in Docs :
          /\ \A k \in DOMAIN doc.items : doc.items[k] \in Entry
          /\ \A k, m \in DOMAIN doc.items : k # m => doc.items[k].id # doc.items[m].id
          /\ \A k \in DOMAIN doc.queues : doc.queues[k] \in [id : QueueIds, name : Names]
          /\ Len(doc.queues) <= MaxQueues
    /\ saved \in [Ids -> [exists : BOOLEAN, queue : QueueIds \cup {NoQueue}, url : Urls \cup {OldUrl, NoUrl}]]
    /\ scope \in BOOLEAN /\ clean \in BOOLEAN
    /\ faults \in 0 .. MaxFaults
    /\ cmd.pos \in 0 .. Cardinality(Ids) + 1
    /\ wanted \in [Ids -> Urls \cup {OldUrl, NoUrl}]

(* queue_add, queue_edit: no two queues have one name, in memory or on      *)
(* disk.                                                                    *)
NamesDiffer ==
    \A doc \in Docs : \A k, m \in DOMAIN doc.queues :
        k # m => doc.queues[k].name # doc.queues[m].name

(* queue_remove takes the entries out before it drops the queue, and stops  *)
(* at the first failure: whatever fails and wherever it dies, when a queue  *)
(* is gone from the disk no entry there names it, except one whose state    *)
(* file has put it back.                                                    *)
NoOrphans ==
    [][\A q \in IdsOf(disk.queues) \ IdsOf(disk'.queues) : \A k \in DOMAIN disk'.items :
          LET e == disk'.items[k] IN e.queue = q => saved[e.id].queue = q]_vars

(* downloads.list: when nothing failed and no job forbade it, every state   *)
(* file says what the configuration says.                                   *)
ListSettles ==
    At("listed") /\ clean =>
        \A k \in DOMAIN mem.items :
            LET e == mem.items[k] IN saved[e.id].exists => saved[e.id].queue = e.queue

(* download_set_url: the URL that an entry was given last is the one its    *)
(* next job will use, through failures and restarts, although an old entry  *)
(* also keeps one in the configuration.                                     *)
UrlStays ==
    \A i \in Ids : Listed(i) => LookupUrl(mem, i) = wanted[i]

(* The records agree: types, one queue of a name, and what the state files  *)
(* and the configuration say of an entry (download_item_reconcile...,       *)
(* download_set_url).                                                       *)
RecordsAgree == TypeOK /\ NamesDiffer /\ ListSettles /\ UrlStays
=============================================================================
