---------------------------- MODULE ConfigStore ----------------------------
(***************************************************************************)
(* The configuration of one process: config.c keeps the document in        *)
(* memory, loads it at the first call, and writes the whole of it to a     *)
(* temporary file that it syncs and renames after every change.  Every     *)
(* call holds one lock from its first look at the document to its return,  *)
(* the write included, so a call changes memory in one step and then       *)
(* persists in several, at each of which it can fail and the process or    *)
(* the machine can die.                                                    *)
(*                                                                         *)
(* The build for Windows, which removes the file before it renames the     *)
(* temporary one, is left out.                                             *)
(***************************************************************************)
EXTENDS ConfigTree, Integers

CONSTANTS Threads,     \* the threads of the process
          ScalarPaths, \* paths scalars are set at
          ArrayPaths,  \* paths the calls on arrays are given
          BadParents,  \* what lies before the empty part of a malformed key
          Values,      \* what scalars and fields hold
          MaxCalls     \* a bound: calls that can change the document

ASSUME MaxCallsAssumption == MaxCalls \in Nat
ASSUME ThreadsAssumption == "nobody" \notin Threads
ASSUME PathsAssumption ==
    \A p \in ScalarPaths \cup ArrayPaths \cup BadParents : p \in Seq(STRING) /\ p # <<>>

VARIABLES root,     \* _config.root
          ready,    \* _config.initialized
          holder,   \* the thread in g_config_lock, or "nobody"
          pc,       \* where each thread is in its call
          target,   \* the file that the call in the lock writes
          rc,       \* what the last call of each thread returned
          file,     \* the file of each name
          tmp,      \* the temporary file beside it
          settled,  \* the configuration file a power failure cannot take back
          calls,
          acked     \* history: the last change has been stored and reported

memoryVars == <<root, ready>>
diskVars == <<file, tmp, settled>>
configVars == <<root, ready, holder, pc, target, rc, file, tmp, settled, calls, acked>>

Targets == {"config", "export"}   \* _config.path, and the path save_config gets
NoFile == [is |-> "none", doc |-> Empty, synced |-> TRUE]
Torn == [is |-> "torn", doc |-> Empty, synced |-> FALSE]
Whole(doc, synced) == [is |-> "whole", doc |-> doc, synced |-> synced]

ConfigInit ==
    /\ root = Empty
    /\ ready = FALSE
    /\ holder = "nobody"
    /\ pc = [t \in Threads |-> "idle"]
    /\ target = "config"
    /\ rc = [t \in Threads |-> 0]
    /\ file = [f \in Targets |-> NoFile]
    /\ tmp = [f \in Targets |-> NoFile]
    /\ settled = NoFile
    /\ calls = 0
    /\ acked = FALSE

(* load_json_file: a file that is missing or does not parse gives nothing, *)
(* and ensure_initialized takes an empty object instead.                   *)
Parsed(f) == IF file[f].is = "whole" THEN file[f].doc ELSE Empty
Loaded == IF ready THEN root ELSE Parsed("config")

(* config_lock and ensure_initialized *)
Enter(t) ==
    /\ holder = "nobody"
    /\ pc[t] = "idle"
    /\ calls < MaxCalls
    /\ calls' = calls + 1
    /\ holder' = t
    /\ ready' = TRUE

(* The document is changed and will be written. *)
Persist(t, doc, f) ==
    /\ Enter(t)
    /\ root' = doc
    /\ target' = f
    /\ pc' = [pc EXCEPT ![t] = "open"]
    /\ acked' = (acked /\ doc = Loaded)
    /\ UNCHANGED <<rc, file, tmp, settled>>

(* The call ends without a write. *)
Answer(t, doc, code) ==
    /\ Enter(t)
    /\ root' = doc
    /\ target' = "nothing"
    /\ pc' = [pc EXCEPT ![t] = "return"]
    /\ rc' = [rc EXCEPT ![t] = code]
    /\ acked' = (acked /\ doc = Loaded)
    /\ UNCHANGED <<file, tmp, settled>>

-----------------------------------------------------------------------------
(* get_config, get_config_array_size, ..._field and ..._json: they only     *)
(* load; what they return is Get and Items of the document.                 *)
Read(t) ==
    /\ ~ready
    /\ holder = "nobody"
    /\ pc[t] = "idle"
    /\ root' = Loaded
    /\ ready' = TRUE
    /\ UNCHANGED <<holder, pc, target, rc, file, tmp, settled, calls, acked>>

(* set_config *)
Set(t, p, v) == Persist(t, Put(Loaded, p, Scalar(v)), "config")

(* set_config with a key like "a.b." : resolve_parent makes the objects on  *)
(* the way and then finds the empty part; nothing is written.               *)
SetMalformed(t, p) == Answer(t, WithObjects(Loaded, Above(p) \cup {p}), -1)

(* reset_config *)
Reset(t, p) ==
    \/ /\ Reachable(Loaded, p)
       /\ p \in DOMAIN Loaded
       /\ Persist(t, Prune(Cut(Loaded, p), p), "config")
    \/ /\ ~(Reachable(Loaded, p) /\ p \in DOMAIN Loaded)
       /\ Answer(t, Loaded, -1)

(* reset_all_config *)
ResetAll(t) == Persist(t, Empty, "config")

(* save_config: the same document, to another file. *)
Save(t) == Persist(t, Loaded, "export")

(* load_config *)
Import(t) ==
    \/ /\ file["export"].is = "whole"
       /\ Persist(t, file["export"].doc, "config")
    \/ /\ file["export"].is # "whole"
       /\ Answer(t, Loaded, -1)

(* append_config_array_item *)
AppendItem(t, p, item) ==
    Persist(t, Put(Loaded, p, Array(Append(Items(Loaded, p), item))), "config")

(* update_config_array_item *)
UpdateItem(t, p, item) ==
    LET i == IndexOf(Items(Loaded, p), item.id)
    IN  \/ /\ i # 0
           /\ Persist(t, WithItems(Loaded, p, [Items(Loaded, p) EXCEPT ![i] = item]), "config")
        \/ /\ i = 0
           /\ Answer(t, Loaded, -1)

(* replace_config_array_item_at; positions are counted from 1 here. *)
ReplaceItem(t, p, i, item) ==
    \/ /\ i \in DOMAIN Items(Loaded, p)
       /\ Persist(t, WithItems(Loaded, p, [Items(Loaded, p) EXCEPT ![i] = item]), "config")
    \/ /\ i \notin DOMAIN Items(Loaded, p)
       /\ Answer(t, Loaded, -1)

(* remove_config_array_item *)
RemoveItem(t, p, id) ==
    LET i == IndexOf(Items(Loaded, p), id)
    IN  \/ /\ i # 0
           /\ Persist(t, WithItems(Loaded, p, RemoveAt(Items(Loaded, p), i)), "config")
        \/ /\ i = 0
           /\ Answer(t, Loaded, -1)

(* remove_config_array_items_where: nothing is written when none matches. *)
RemoveWhere(t, p, v) ==
    LET left == Left(Items(Loaded, p), v)
    IN  \/ /\ left # Items(Loaded, p)
           /\ Persist(t, WithItems(Loaded, p, left), "config")
        \/ /\ left = Items(Loaded, p)
           /\ Answer(t, Loaded, 0)

-----------------------------------------------------------------------------
(* persist_config.  fopen truncates the temporary file. *)
Open(t) ==
    /\ pc[t] = "open"
    /\ \/ /\ tmp' = [tmp EXCEPT ![target] = Torn]
          /\ pc' = [pc EXCEPT ![t] = "write"]
          /\ UNCHANGED rc
       \/ /\ pc' = [pc EXCEPT ![t] = "return"]
          /\ rc' = [rc EXCEPT ![t] = -1]
          /\ UNCHANGED tmp
    /\ UNCHANGED <<root, ready, holder, target, file, settled, calls, acked>>

Write(t) ==
    /\ pc[t] = "write"
    /\ \E complete \in BOOLEAN :
          tmp' = [tmp EXCEPT ![target] = IF complete THEN Whole(root, FALSE) ELSE Torn]
    /\ pc' = [pc EXCEPT ![t] = "sync"]
    /\ UNCHANGED <<root, ready, holder, target, rc, file, settled, calls, acked>>

(* Mutant: the data is flushed to the system and not synced. *)
SyncFlushes(t) ==
    /\ pc[t] = "sync"
    /\ pc' = [pc EXCEPT ![t] = IF tmp[target].is = "whole" THEN "rename" ELSE "remove"]
    /\ UNCHANGED <<root, ready, holder, target, rc, file, tmp, settled, calls, acked>>

(* file_sync_to_disk is called after a short write, too. *)
Sync(t) ==
    /\ pc[t] = "sync"
    /\ \/ /\ tmp[target].is = "whole"
          /\ tmp' = [tmp EXCEPT ![target] = Whole(tmp[target].doc, TRUE)]
          /\ pc' = [pc EXCEPT ![t] = "rename"]
       \/ pc' = [pc EXCEPT ![t] = "remove"] /\ UNCHANGED tmp
    /\ UNCHANGED <<root, ready, holder, target, rc, file, settled, calls, acked>>

(* Mutant: the answer of rename is not looked at. *)
RenameUnchecked(t) ==
    /\ pc[t] = "rename"
    /\ \/ /\ file' = [file EXCEPT ![target] = tmp[target]]
          /\ tmp' = [tmp EXCEPT ![target] = NoFile]
       \/ UNCHANGED <<file, tmp>>
    /\ pc' = [pc EXCEPT ![t] = "return"]
    /\ rc' = [rc EXCEPT ![t] = 0]
    /\ UNCHANGED <<root, ready, holder, target, settled, calls, acked>>

Rename(t) ==
    /\ pc[t] = "rename"
    /\ \/ /\ file' = [file EXCEPT ![target] = tmp[target]]
          /\ tmp' = [tmp EXCEPT ![target] = NoFile]
          /\ pc' = [pc EXCEPT ![t] = "return"]
          /\ rc' = [rc EXCEPT ![t] = 0]
       \/ pc' = [pc EXCEPT ![t] = "remove"] /\ UNCHANGED <<rc, file, tmp>>
    /\ UNCHANGED <<root, ready, holder, target, settled, calls, acked>>

(* Mutant: this error path returns without config_unlock. *)
RemoveTmpKeepsLock(t) ==
    /\ pc[t] = "remove"
    /\ tmp' = [tmp EXCEPT ![target] = NoFile]
    /\ pc' = [pc EXCEPT ![t] = "idle"]
    /\ rc' = [rc EXCEPT ![t] = -1]
    /\ UNCHANGED <<root, ready, holder, target, file, settled, calls, acked>>

RemoveTmp(t) ==
    /\ pc[t] = "remove"
    /\ tmp' = [tmp EXCEPT ![target] = NoFile]
    /\ pc' = [pc EXCEPT ![t] = "return"]
    /\ rc' = [rc EXCEPT ![t] = -1]
    /\ UNCHANGED <<root, ready, holder, target, file, settled, calls, acked>>

(* config_unlock *)
Return(t) ==
    /\ pc[t] = "return"
    /\ pc' = [pc EXCEPT ![t] = "idle"]
    /\ holder' = "nobody"
    /\ acked' = (acked \/ (rc[t] = 0 /\ target = "config"))
    /\ UNCHANGED <<root, ready, target, rc, file, tmp, settled, calls>>

-----------------------------------------------------------------------------
(* The directory entry that a rename made is not synced by the program: the *)
(* system writes it when it likes.                                          *)
Settle ==
    /\ settled # file["config"]
    /\ settled' = file["config"]
    /\ UNCHANGED <<root, ready, holder, pc, target, rc, file, tmp, calls, acked>>

Restart ==
    /\ root' = Empty
    /\ ready' = FALSE
    /\ holder' = "nobody"
    /\ pc' = [t \in Threads |-> "idle"]
    /\ acked' = FALSE
    /\ UNCHANGED <<target, rc, calls>>

(* The process is killed: what it wrote stays with the system. *)
Killed ==
    /\ ready
    /\ Restart
    /\ UNCHANGED diskVars

(* What a power failure leaves of a file that was never synced. *)
AfterPowerLoss(content) == IF content.synced THEN content ELSE Torn

PowerLoss ==
    /\ ready
    /\ Restart
    /\ \E kept \in {file["config"], settled} :
          file' = [f \in Targets |-> AfterPowerLoss(IF f = "config" THEN kept ELSE file[f])]
    /\ tmp' = [f \in Targets |-> AfterPowerLoss(tmp[f])]
    /\ UNCHANGED settled

Item == [id : Values, value : Values]

Call(t) ==
    \/ \E p \in ScalarPaths, v \in Values : Set(t, p, v)
    \/ \E p \in BadParents : SetMalformed(t, p)
    \/ \E p \in ScalarPaths \cup ArrayPaths : Reset(t, p)
    \/ ResetAll(t)
    \/ Save(t)
    \/ Import(t)
    \/ \E p \in ArrayPaths :
          \/ \E item \in Item : AppendItem(t, p, item)
          \/ \E item \in Item : UpdateItem(t, p, item)
          \/ \E i \in 1 .. MaxCalls, item \in Item : ReplaceItem(t, p, i, item)
          \/ \E id \in Values : RemoveItem(t, p, id)
          \/ \E v \in Values : RemoveWhere(t, p, v)

Continue(t) == Open(t) \/ Write(t) \/ Sync(t) \/ Rename(t) \/ RemoveTmp(t) \/ Return(t)

ConfigNext ==
    \/ \E t \in Threads : Read(t) \/ Call(t) \/ Continue(t)
    \/ Settle
    \/ Killed
    \/ PowerLoss

ConfigSpec == ConfigInit /\ [][ConfigNext]_configVars

(* A thread that is in a call goes on. *)
FairConfigSpec == ConfigSpec /\ \A t \in Threads : WF_configVars(Continue(t))

-----------------------------------------------------------------------------
Paths ==
    LET given == ScalarPaths \cup ArrayPaths \cup BadParents
    IN  given \cup UNION {Above(p) : p \in given}

IsNode(node) ==
    \/ node = Object
    \/ node.kind = "scalar" /\ node.value \in Values
    \/ node.kind = "array" /\ node.items \in Seq(Item)

(* The variables have their types, every document is a tree of objects (no *)
(* node hangs below a scalar, an array or nothing), and the thread that is *)
(* in a call is the one in the lock.                                       *)
IsDocument(doc) ==
    /\ DOMAIN doc \subseteq Paths
    /\ \A p \in DOMAIN doc : IsNode(doc[p]) /\ Reachable(doc, p)

IsContent(content) ==
    /\ content.is \in {"none", "torn", "whole"}
    /\ IsDocument(content.doc)
    /\ content.synced \in BOOLEAN

ConfigTypeOK ==
    /\ IsDocument(root)
    /\ ready \in BOOLEAN
    /\ holder \in Threads \cup {"nobody"}
    /\ pc \in [Threads -> {"idle", "open", "write", "sync", "rename", "remove", "return"}]
    /\ \A t \in Threads : pc[t] # "idle" <=> holder = t
    /\ target \in Targets \cup {"nothing"}
    /\ rc \in [Threads -> {-1, 0}]
    /\ DOMAIN file = Targets /\ DOMAIN tmp = Targets
    /\ \A f \in Targets : IsContent(file[f]) /\ IsContent(tmp[f])
    /\ IsContent(settled)
    /\ calls \in 0 .. MaxCalls
    /\ acked \in BOOLEAN

(* persist_config: whatever fails and whenever the process or the machine  *)
(* dies, the configuration file is missing or a whole document, never the  *)
(* beginning of one, which ensure_initialized would take for an empty      *)
(* configuration and overwrite.                                            *)
FileIsWhole == file["config"].is # "torn" /\ settled.is # "torn"

(* config.c implements the document its callers count on. *)
Durable == INSTANCE DurableDocument WITH
    Blank <- Empty,
    memory <- root,
    running <- ready,
    stored <- Parsed("config"),
    safe <- IF settled.is = "whole" THEN settled.doc ELSE Empty

ImplementsDurableDocument == Durable!Spec
-----------------------------------------------------------------------------
(* The inductive invariant behind FileIsWhole and the refinement. *)
Steps == {"open", "write", "sync", "rename", "remove"}   \* of persist_config

(* Who is in a call has the lock, and writes what was loaded. *)
LockInv ==
    /\ pc \in [Threads -> Steps \cup {"idle", "return"}]
    /\ \A t \in Threads : pc[t] # "idle" => holder = t /\ ready
    /\ \A t \in Threads : pc[t] \in Steps => target \in Targets
    /\ rc \in [Threads -> {-1, 0}]
    /\ ready \in BOOLEAN /\ acked \in BOOLEAN

(* What may be found under the name of the configuration after a power      *)
(* failure: nothing, or a whole document that was synced.                   *)
Lasts(content) == content.is \in {"none", "whole"} /\ content.synced = TRUE

(* What has been written so far is the document in memory. *)
DiskInv ==
    /\ DOMAIN file = Targets /\ DOMAIN tmp = Targets
    /\ Lasts(file["config"]) /\ Lasts(settled)
    /\ \A t \in Threads :
          /\ pc[t] = "sync" /\ tmp[target].is = "whole" => tmp[target].doc = root
          /\ pc[t] = "rename" => tmp[target] = Whole(root, TRUE)
          /\ pc[t] = "return" /\ rc[t] = 0 /\ target = "config" =>
                file["config"] = Whole(root, TRUE)

ConfigIInv == LockInv /\ DiskInv
=============================================================================
