----------------------------- MODULE Bookmarks -----------------------------
(* The bookmarks of bookmark.c: every call reads the whole file, changes the *)
(* document and puts a synced copy in its place.  The methods of one daemon  *)
(* run one at a time; the process may die, and the machine lose what was not *)
(* synced, at every step.  Titles and link counts are left out, and the      *)
(* clock of time(NULL) is a number that ids are made of.                     *)
EXTENDS Naturals, Sequences, Functions

CONSTANTS Urls,
          MaxCalls,   \* bound: calls that change the bookmarks
          MaxFaults   \* bound: reads and writes that fail, deaths

(* What an instance has to give these constants. *)
BookmarksAssumption == {MaxCalls, MaxFaults} \subseteq Nat

VARIABLES file,    \* bookmarks.json: its entries, and whether it parses
          tmp,     \* the temporary file
          call,    \* the method that is being executed
          clock,
          used,    \* calls so far
          faults,
          unread   \* history: a file that could not be read was taken for none

vars == <<file, tmp, call, clock, used, faults, unread>>

Stored(entries) == [entries |-> entries, whole |-> TRUE, synced |-> TRUE]
NoTmp == [entries |-> <<>>, whole |-> FALSE, synced |-> FALSE]
Idle == [at |-> "idle", root |-> <<>>, removes |-> <<>>]

Init == /\ file = Stored(<<>>)
        /\ tmp = NoTmp
        /\ call = Idle
        /\ clock = 0
        /\ used = 0
        /\ faults = 0
        /\ unread = FALSE

Fault == faults < MaxFaults /\ faults' = faults + 1

(* load_json_file: what cannot be read or parsed is an empty document. *)
Loads(root) ==
    \/ /\ root = IF file.whole THEN file.entries ELSE <<>>
       /\ UNCHANGED <<faults, unread>>
    \/ /\ Fault
       /\ root = <<>>
       /\ unread' = (unread \/ file.entries # <<>>)

(* find_bookmark_index_by_field *)
IndexOf(root, field, value) ==
    {i \in DOMAIN root : root[i][field] = value
                         /\ \A k \in 1..i - 1 : root[k][field] # value}

Enter == call = Idle /\ used < MaxCalls /\ used' = used + 1
Persist(root, removes) ==
    call' = [at |-> "open", root |-> root, removes |-> removes]
Return == call' = Idle

(* bookmark_add: the id is the second it is made in. *)
Add(url) ==
    /\ Enter
    /\ \E root \in {file.entries, <<>>} :
          /\ Loads(root)
          /\ IF IndexOf(root, "url", url) # {}
             THEN Persist(root, <<>>)
             ELSE Persist(Append(root, [id |-> clock, url |-> url]), <<>>)
    /\ UNCHANGED <<file, tmp, clock>>

(* Mutant: the count from one end is taken for one from the other. *)
WithoutMirrored(root, i) == SubSeq(root, 1, Len(root) - i) \o SubSeq(root, Len(root) + 2 - i, Len(root))

Without(root, i) == SubSeq(root, 1, i - 1) \o SubSeq(root, i + 1, Len(root))

(* bookmark_remove, of the first entry with the address or the id *)
Delete(field, value) ==
    /\ Enter
    /\ \E root \in {file.entries, <<>>} :
          /\ Loads(root)
          /\ \/ /\ IndexOf(root, field, value) = {}
                /\ Return
             \/ \E i \in IndexOf(root, field, value) :
                   Persist(Without(root, i), <<root[i]>>)
    /\ UNCHANGED <<file, tmp, clock>>

(* persist_json_file: open, write, sync, replace. *)
Open == /\ call.at = "open"
        /\ tmp' = NoTmp
        /\ call' = [call EXCEPT !.at = "write"]
        /\ UNCHANGED <<file, clock, used, faults, unread>>

Write == /\ call.at = "write"
         /\ tmp' = [entries |-> call.root, whole |-> TRUE, synced |-> FALSE]
         /\ call' = [call EXCEPT !.at = "sync"]
         /\ UNCHANGED <<file, clock, used, faults, unread>>

(* Mutant: nothing waits for the disk. *)
SyncedLater(t) == t

(* file_sync_to_disk *)
Synced(t) == [t EXCEPT !.synced = TRUE]

Sync == /\ call.at = "sync"
        /\ tmp' = Synced(tmp)
        /\ call' = [call EXCEPT !.at = "replace"]
        /\ UNCHANGED <<file, clock, used, faults, unread>>

(* move_file_atomic *)
Replace == /\ call.at = "replace"
           /\ file' = tmp
           /\ tmp' = NoTmp
           /\ Return
           /\ UNCHANGED <<clock, used, faults, unread>>

(* A write, the sync or the rename fails: the temporary file is removed. *)
Fails == /\ call.at \in {"write", "sync", "replace"}
         /\ Fault
         /\ tmp' = NoTmp
         /\ Return
         /\ UNCHANGED <<file, clock, used, unread>>

(* The process dies, or the machine: what was not synced is torn. *)
Die == /\ Fault
       /\ Return
       /\ \/ UNCHANGED <<file, tmp>>
          \/ /\ file' = IF file.synced THEN file ELSE [file EXCEPT !.whole = FALSE]
             /\ tmp' = NoTmp
       /\ UNCHANGED <<clock, used, unread>>

Tick == /\ clock < MaxCalls
        /\ clock' = clock + 1
        /\ UNCHANGED <<file, tmp, call, used, faults, unread>>

Next == \/ \E url \in Urls : Add(url) \/ Delete("url", url)
        \/ \E id \in 0..MaxCalls : Delete("id", id)
        \/ Open \/ Write \/ Sync \/ Replace \/ Fails \/ Die \/ Tick

Spec == Init /\ [][Next]_vars

---------------------------------------------------------------------------
Entries == [id : 0..MaxCalls, url : Urls]

(* The types of the variables; no address is there twice. *)
TypeOK == /\ file.entries \in Seq(Entries) /\ call.root \in Seq(Entries)
          /\ call.at \in {"idle", "open", "write", "sync", "replace"}
          /\ clock \in 0..MaxCalls /\ used \in 0..MaxCalls /\ faults \in 0..MaxFaults
          /\ \A i, k \in DOMAIN file.entries :
                file.entries[i].url = file.entries[k].url => i = k

(* The file is never in pieces, whenever the process or the machine dies
   (persist_json_file). *)
AlwaysWhole == file.whole

GoneIsRemoved ==
    ~unread => \A i \in DOMAIN file.entries :
        \/ file.entries[i] \in Range(file'.entries)
        \/ file.entries[i] \in Range(call.removes)

(* A bookmark that is stored goes only when its removal is, unless the file
   could not be read for a moment (load_json_file, bookmark_remove). *)
KeptUntilRemoved == [][GoneIsRemoved]_vars

(* The inductive invariant: the file is on the disk, what is to take its place
   is whole before it does, no address is twice in what a method has made of
   the file, and nothing is missing there but what it removes. *)
Document == [entries : Seq(Entries), whole : BOOLEAN, synced : BOOLEAN]
Calls == [at : {"idle", "open", "write", "sync", "replace"}, root : Seq(Entries),
          removes : Seq(Entries)]
OnceEach(s) == \A i, k \in DOMAIN s : s[i].url = s[k].url => i = k
OnDisk == /\ file.whole /\ file.synced
          /\ call.at \in {"sync", "replace"} => tmp.entries = call.root /\ tmp.whole
          /\ call.at = "replace" => tmp.synced
Kept == \A i \in DOMAIN file.entries :
            file.entries[i] \in Range(call.root) \cup Range(call.removes)
InHand == call.at # "idle" => OnceEach(call.root) /\ (unread \/ Kept)

IInv == /\ TypeOK
        /\ file \in Document /\ tmp \in Document /\ call \in Calls /\ unread \in BOOLEAN
        /\ OnDisk /\ InHand
=============================================================================
