--------------------------- MODULE FinishedFiles ---------------------------
(* How finished downloads come into the download directory: a free name is   *)
(* looked for (resolve_unique_dest_path) and the temp file moved there, by   *)
(* renaming it or, to another file system, by a copy that is synced before   *)
(* the original goes (move_file_atomic).  Jobs of the same file name run     *)
(* side by side, and the process may die at any step.                        *)
EXTENDS Naturals

CONSTANTS Jobs,
          Others,     \* of a file that was there before
          Nobody,     \* of no file
          MaxName,    \* the last name that is tried: "file (n).ext"
          MaxFaults   \* crashes, copies that fail

(* What an instance has to give these constants. *)
FinishedAssumption == /\ Others # Nobody /\ {Others, Nobody} \cap Jobs = {}
                     /\ {MaxName, MaxFaults} \subseteq Nat

VARIABLES dir,      \* name -> the file in the download directory
          temp,     \* the temp file of each job, or "gone"
          pc,       \* where each job is in finalize_download
          name,     \* the name it found
          across,   \* the directory is on another file system
          faults,
          raced     \* history: jobs whose name another took after they looked

vars == <<dir, temp, pc, name, across, faults, raced>>

Names == 0..MaxName
NoFile == [of |-> Nobody, whole |-> FALSE]
Steps == {"ready", "look", "move", "copy", "sync", "drop", "done", "failed"}

Init == /\ dir \in [Names -> {NoFile, [of |-> Others, whole |-> TRUE]}]
        /\ temp = [j \in Jobs |-> "whole"]
        /\ pc = [j \in Jobs |-> "ready"]
        /\ name = [j \in Jobs |-> 0]
        /\ across \in BOOLEAN
        /\ faults = 0
        /\ raced = {}

Fault == faults < MaxFaults /\ faults' = faults + 1
Go(j, step) == pc' = [pc EXCEPT ![j] = step]
Is(j, step) == pc[j] = step
Fill(n, file) == dir' = [dir EXCEPT ![n] = file]
Taking(j) == raced' = IF dir[name[j]].of \in {Nobody, j} THEN raced ELSE raced \cup {j}

Begin(j) == /\ Is(j, "ready")
            /\ Go(j, "look")
            /\ name' = [name EXCEPT ![j] = 0]
            /\ UNCHANGED <<dir, temp, across, faults, raced>>

(* Mutant: the first name that is not the original one will do. *)
FreeAfterFirst(n) == n > 0 \/ dir[n] = NoFile

(* file_exists *)
Free(n) == dir[n] = NoFile

(* resolve_unique_dest_path looks at one name after the other. *)
Look(j) == /\ Is(j, "look")
           /\ \/ /\ Free(name[j])
                 /\ Go(j, "move")
                 /\ UNCHANGED name
              \/ /\ ~Free(name[j])
                 /\ IF name[j] < MaxName
                    THEN name' = [name EXCEPT ![j] = @ + 1] /\ UNCHANGED pc
                    ELSE Go(j, "failed") /\ UNCHANGED name
           /\ UNCHANGED <<dir, temp, across, faults, raced>>

(* rename, which takes the place of a file that has come there since *)
Rename(j) == /\ Is(j, "move") /\ ~across
             /\ Fill(name[j], [of |-> j, whole |-> TRUE])
             /\ temp' = [temp EXCEPT ![j] = "gone"]
             /\ Taking(j)
             /\ Go(j, "done")
             /\ UNCHANGED <<name, across, faults>>

(* EXDEV: the file is made anew under its name, and bytes of it stay in the
   buffer until file_sync_to_disk. *)
Open(j) == /\ Is(j, "move") /\ across
           /\ Fill(name[j], [of |-> j, whole |-> FALSE])
           /\ Taking(j)
           /\ Go(j, "copy")
           /\ UNCHANGED <<temp, name, across, faults>>

(* Mutant: the original goes once all of it has been read. *)
CopiedAndDropped(j) ==
    Go(j, "done") /\ temp' = [temp EXCEPT ![j] = "gone"]

Copied(j) == Go(j, "sync") /\ UNCHANGED temp
Copy(j) == /\ Is(j, "copy")
           /\ Copied(j)
           /\ UNCHANGED <<dir, name, across, faults, raced>>

(* A write or the sync fails: what was written is removed. *)
CopyFails(j) == /\ pc[j] \in {"copy", "sync"}
                /\ Fault
                /\ Fill(name[j], NoFile)
                /\ Go(j, "failed")
                /\ raced' = IF dir[name[j]].of = j THEN raced ELSE raced \cup {j}
                /\ UNCHANGED <<temp, name, across>>

Sync(j) == /\ Is(j, "sync")
           /\ dir' = IF dir[name[j]].of = j
                     THEN [dir EXCEPT ![name[j]].whole = TRUE]
                     ELSE dir
           /\ Go(j, "drop")
           /\ UNCHANGED <<temp, name, across, faults, raced>>

Drop(j) == /\ Is(j, "drop")
           /\ temp' = [temp EXCEPT ![j] = "gone"]
           /\ Go(j, "done")
           /\ UNCHANGED <<dir, name, across, faults, raced>>

(* A download that failed here is started again. *)
Retry(j) == /\ Is(j, "failed")
            /\ Go(j, "ready")
            /\ UNCHANGED <<dir, temp, name, across, faults, raced>>

(* The process dies; the jobs that have a temp file begin again. *)
Crash == /\ Fault
         /\ pc' = [j \in Jobs |-> IF temp[j] = "gone" THEN pc[j] ELSE "ready"]
         /\ UNCHANGED <<dir, temp, name, across, raced>>

Step(j) == \/ Begin(j) \/ Look(j) \/ Rename(j) \/ Open(j) \/ Copy(j) \/ CopyFails(j)
           \/ Sync(j) \/ Drop(j) \/ Retry(j)
Next == Crash \/ \E j \in Jobs : Step(j)

Spec == Init /\ [][Next]_vars

---------------------------------------------------------------------------
(* The types of the variables. *)
TypeOK == /\ \A n \in Names : dir[n].of \in Jobs \cup {Others, Nobody}
          /\ temp \in [Jobs -> {"whole", "gone"}]
          /\ pc \in [Jobs -> Steps] /\ name \in [Jobs -> Names]
          /\ across \in BOOLEAN /\ faults \in 0..MaxFaults /\ raced \subseteq Jobs

(* A finished download is somewhere in one piece, whatever fails and whenever
   the process dies, unless another took its name (move_file_atomic). *)
AlwaysSomewhere ==
    \A j \in Jobs :
        \/ temp[j] = "whole"
        \/ \E n \in Names : dir[n].of = j /\ dir[n].whole
        \/ raced # {}

OthersUntouched == \A n \in Names : dir[n].of = Others => dir'[n] = dir[n]

(* A file of somebody else is never written over or removed
   (resolve_unique_dest_path). *)
OthersStay == [][OthersUntouched]_vars

(* The inductive invariant: a job is never at the name of a file of others, and
   as long as nobody has taken a name from another what a job has made under
   its name is its own. *)
OwnName(j) ==
    /\ pc[j] \in {"move", "copy", "sync", "drop"} => dir[name[j]].of # Others
    /\ temp[j] = "gone" => pc[j] = "done"
    /\ raced = {} =>
          /\ pc[j] \in {"copy", "sync", "drop"} \/ temp[j] = "gone" => dir[name[j]].of = j
          /\ pc[j] = "drop" \/ temp[j] = "gone" => dir[name[j]].whole

IInv == /\ TypeOK
        /\ dir \in [Names -> [of : Jobs \cup {Others, Nobody}, whole : BOOLEAN]]
        /\ \A j \in Jobs : OwnName(j)
=============================================================================
