--------------------------- MODULE WorkDirectories ---------------------------
(* The directories downloads work in: a directory for all of them and one of *)
(* its own for each, made component by component when a job begins           *)
(* (make_dirs_in_path) and removed with what is in it when the item is       *)
(* removed (remove_directory_recursive).  Nothing serialises two jobs that   *)
(* begin at once, nor a removal and the job it has cancelled, which goes on  *)
(* to save its state and may open its file anew.                             *)
EXTENDS Naturals

CONSTANTS Items, Jobs,
          MaxFaults   \* directories that cannot be made, deaths of the process

(* What an instance has to give these constants. *)
WorkAssumption == Items # {} /\ "all" \notin Items /\ MaxFaults \in Nat

VARIABLES root,      \* the common directory is there
          dir,       \* item -> the files in its directory, or that there is none
          job,       \* where each job is, for which item
          removal,   \* the removal that runs
          removed,   \* the items removed
          busy,      \* history: items with a job when they were removed
          raced,     \* history: jobs that lost a directory to another between
                     \* looking and making
          faults

vars == <<root, dir, job, removal, removed, busy, raced, faults>>

None == {"none"}
Files == {"state", "tmp", "data"}
Steps == {"idle", "look", "make", "enter", "remake", "own", "mine", "runs", "saves",
          "refused", "ended"}
Idle == [at |-> "idle", item |-> CHOOSE i \in Items : TRUE, adds |-> FALSE, opened |-> FALSE]

Init == /\ root \in BOOLEAN
        /\ dir = [i \in Items |-> None]
        /\ job = [j \in Jobs |-> Idle]
        /\ removal = [at |-> "none", item |-> Idle.item, list |-> {}]
        /\ removed = {}
        /\ busy = {}
        /\ raced = {}
        /\ faults = 0

Fault == faults < MaxFaults /\ faults' = faults + 1
At(j, step) == job[j].at = step
Goes(j, step) == job' = [job EXCEPT ![j].at = step]
Mine(j) == job[j].item
Has(i) == dir[i] # None
Works(i) == \E j \in Jobs : Mine(j) = i /\ job[j].at \notin {"idle", "refused", "ended"}
Removing(i) == removal.at # "none" /\ removal.item = i

Begin(j) == /\ At(j, "idle")
            /\ \E i \in Items \ removed, adds \in BOOLEAN :
                 /\ job' = [job EXCEPT ![j].at = "look", ![j].item = i, ![j].adds = adds]
                 /\ busy' = IF Removing(i) THEN busy \cup {i} ELSE busy
            /\ UNCHANGED <<root, dir, removal, removed, raced, faults>>

---------------------------------------------------------------------------
(* make_dirs_in_path *)

(* Mutant: it is made without a look. *)
ThereNever(exists) == FALSE

There(exists) == exists

(* The common directory, on its own first: only an added download minds
   whether that succeeds; and again as a part of the path of the job's. *)
Look(j) == \/ /\ At(j, "look")
              /\ Goes(j, IF There(root) THEN "enter" ELSE "make")
              /\ UNCHANGED <<root, dir, removal, removed, busy, raced, faults>>
           \/ /\ At(j, "enter")
              /\ Goes(j, IF There(root) THEN "own" ELSE "remake")
              /\ UNCHANGED <<root, dir, removal, removed, busy, raced, faults>>
           \/ /\ At(j, "own")
              /\ Goes(j, IF There(root /\ Has(Mine(j))) THEN "runs" ELSE "mine")
              /\ UNCHANGED <<root, dir, removal, removed, busy, raced, faults>>

(* The others that have seen that it was not there. *)
Losing(j, steps, i) ==
    {k \in Jobs \ {j} : job[k].at \in steps /\ (i \in Items => Mine(k) = i)}

(* mkdir says so when the directory is there by now. *)
MakeRoot(j) ==
    /\ job[j].at \in {"make", "remake"}
    /\ LET failed == IF At(j, "make") /\ ~job[j].adds THEN "enter" ELSE "refused"
           made == IF At(j, "make") THEN "enter" ELSE "own"
       IN \/ root /\ Goes(j, failed) /\ UNCHANGED <<root, raced, faults>>
          \/ /\ ~root /\ root' = TRUE
             /\ Goes(j, made)
             /\ raced' = raced \cup Losing(j, {"make", "remake"}, "all")
             /\ UNCHANGED faults
          \/ Fault /\ Goes(j, failed) /\ UNCHANGED <<root, raced>>
    /\ UNCHANGED <<dir, removal, removed, busy>>

(* Mutant: the last component is left out. *)
MadeNot(i) == dir

Made(i) == [dir EXCEPT ![i] = {}]

MakeOwn(j) ==
    /\ At(j, "mine")
    /\ \/ /\ ~root \/ Has(Mine(j))
          /\ Goes(j, "refused")
          /\ UNCHANGED <<dir, raced, faults>>
       \/ /\ root /\ ~Has(Mine(j))
          /\ dir' = Made(Mine(j))
          /\ Goes(j, "runs")
          /\ raced' = raced \cup Losing(j, {"mine"}, Mine(j))
          /\ UNCHANGED faults
       \/ Fault /\ Goes(j, "refused") /\ UNCHANGED <<dir, raced>>
    /\ UNCHANGED <<root, removal, removed, busy>>

---------------------------------------------------------------------------
(* The work of a job there. *)

(* download_state_save writes a file beside and renames it; a save that
   cannot is given up. *)
Save(j) == /\ At(j, "runs")
           /\ Has(Mine(j))
           /\ dir' = [dir EXCEPT ![Mine(j)] = @ \cup {"tmp"}]
           /\ Goes(j, "saves")
           /\ UNCHANGED <<root, removal, removed, busy, raced, faults>>

Saved(j) == /\ At(j, "saves")
            /\ dir' = IF "tmp" \in dir[Mine(j)]
                      THEN [dir EXCEPT ![Mine(j)] = (@ \ {"tmp"}) \cup {"state"}]
                      ELSE dir
            /\ Goes(j, "runs")
            /\ UNCHANGED <<root, removal, removed, busy, raced, faults>>

(* open_temp_file makes the directories once more. *)
Open(j) == /\ At(j, "runs") /\ ~job[j].opened
           /\ job' = [job EXCEPT ![j].opened = TRUE]
           /\ root' = TRUE
           /\ dir' = [dir EXCEPT ![Mine(j)] = (@ \ None) \cup {"data"}]
           /\ raced' = raced \cup (IF root THEN {} ELSE Losing(j, {"make", "remake"}, "all"))
                            \cup (IF Has(Mine(j)) THEN {} ELSE Losing(j, {"mine"}, Mine(j)))
           /\ UNCHANGED <<removal, removed, busy, faults>>

End(j) == /\ At(j, "runs")
          /\ Goes(j, "ended")
          /\ UNCHANGED <<root, dir, removal, removed, busy, raced, faults>>

(* The process dies in the middle of a save, and leaves the file it wrote. *)
Die(j) == /\ At(j, "saves")
          /\ Fault
          /\ removal' = [removal EXCEPT !.at = "none", !.list = {}]
          /\ job' = [k \in Jobs |-> IF At(k, "idle") THEN job[k] ELSE [job[k] EXCEPT !.at = "ended"]]
          /\ UNCHANGED <<root, dir, removed, busy, raced>>

---------------------------------------------------------------------------
(* download_remove asks the job to end and does not wait for it;
   cleanup_download_artifacts removes the file the state names first. *)
Remove(i) ==
    /\ removal.at = "none" /\ i \notin removed
    /\ removal' = [removal EXCEPT !.at = "open", !.item = i]
    /\ dir' = IF "state" \in dir[i] THEN [dir EXCEPT ![i] = @ \ {"data"}] ELSE dir
    /\ busy' = IF Works(i) THEN busy \cup {i} ELSE busy
    /\ UNCHANGED <<root, job, removed, raced, faults>>

OpenDir == /\ removal.at = "open"
           /\ removal' = IF Has(removal.item)
                         THEN [removal EXCEPT !.at = "list", !.list = dir[removal.item]]
                         ELSE [removal EXCEPT !.at = "forget"]
           /\ UNCHANGED <<root, dir, job, removed, busy, raced, faults>>

(* Mutant: the first entry is taken for all. *)
RestNone(list, f) == {}

Rest(list, f) == list \ {f}

(* An entry that is no longer there ends the removal. *)
Entry == /\ removal.at = "list"
         /\ \E f \in removal.list :
              IF f \in dir[removal.item]
              THEN /\ dir' = [dir EXCEPT ![removal.item] = @ \ {f}]
                   /\ removal' = [removal EXCEPT !.list = Rest(@, f)]
              ELSE /\ removal' = [removal EXCEPT !.at = "forget", !.list = {}]
                   /\ UNCHANGED dir
         /\ UNCHANGED <<root, job, removed, busy, raced, faults>>

(* rmdir removes what is empty. *)
Rmdir == /\ removal.at = "list" /\ removal.list = {}
         /\ dir' = IF dir[removal.item] = {} THEN [dir EXCEPT ![removal.item] = None] ELSE dir
         /\ removal' = [removal EXCEPT !.at = "forget"]
         /\ UNCHANGED <<root, job, removed, busy, raced, faults>>

(* The entry goes from the list whatever came of the files. *)
Forget == /\ removal.at = "forget"
          /\ removal' = [removal EXCEPT !.at = "none"]
          /\ removed' = removed \cup {removal.item}
          /\ UNCHANGED <<root, dir, job, busy, raced, faults>>

Step(j) == \/ Begin(j) \/ Look(j) \/ MakeRoot(j) \/ MakeOwn(j)
           \/ Save(j) \/ Saved(j) \/ Open(j) \/ End(j) \/ Die(j)
Removal == (\E i \in Items : Remove(i)) \/ OpenDir \/ Entry \/ Rmdir \/ Forget
Next == Removal \/ \E j \in Jobs : Step(j)

Spec == Init /\ [][Next]_vars

---------------------------------------------------------------------------
(* The types of the variables. *)
TypeOK == /\ root \in BOOLEAN
          /\ dir \in [Items -> (SUBSET Files) \cup {None}]
          /\ job \in [Jobs -> [at : Steps, item : Items, adds : BOOLEAN, opened : BOOLEAN]]
          /\ removal \in [at : {"none", "open", "list", "forget"}, item : Items,
                          list : SUBSET Files]
          /\ removed \subseteq Items /\ busy \subseteq Items /\ raced \subseteq Jobs
          /\ faults \in 0..MaxFaults

(* A job is refused for want of a directory only if another made it at that
   moment or it could not be made (make_dirs_in_path). *)
RefusedIfRaced == \A j \in Jobs : At(j, "refused") => j \in raced \/ faults > 0

(* A job that runs has its directory until its item is removed
   (run_download). *)
HasDirectory ==
    \A j \in Jobs : job[j].at \in {"runs", "saves"}
        => Has(Mine(j)) \/ Mine(j) \in removed \/ Removing(Mine(j))

(* Nothing is left of an item that no job was at when it was removed
   (cleanup_download_artifacts, remove_directory_recursive). *)
RemovedIsGone == \A i \in removed : ~Has(i) \/ i \in busy

(* What a job has seen still holds, unless another was faster. *)
Looked ==
    \A j \in Jobs :
        /\ job[j].at \in {"make", "remake"} => ~root \/ j \in raced
        /\ job[j].at \in {"own", "mine", "runs", "saves"} => root
        /\ At(j, "mine") => ~Has(Mine(j)) \/ j \in raced

(* An item without jobs while it is removed: the removal has listed what there
   is, and nothing comes after it. *)
Quiet ==
    \A i \in Items \ busy :
        /\ i \in removed \/ Removing(i) => ~Works(i)
        /\ i \in removed => ~Has(i)
        /\ Removing(i) /\ removal.at = "list" => dir[i] = removal.list
        /\ Removing(i) /\ removal.at = "forget" => ~Has(i)

(* The inductive invariant. *)
IInv == TypeOK /\ RefusedIfRaced /\ HasDirectory /\ Looked /\ Quiet
=============================================================================
