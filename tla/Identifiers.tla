---------------------------- MODULE Identifiers ----------------------------
(* The ids of downloads: a time in milliseconds, some bits of the process id *)
(* and a count within the millisecond, made under a lock by one thread at a  *)
(* time and then looked for in the list (download_snowflake_next,            *)
(* download_generate_id).  The clock is the one of the library and can go    *)
(* back: it is set, or it starts again with the machine.                     *)
(* What the three numbers are mixed to is left out: the mixing is invertible *)
(* on 64 bits, so that ids are the same exactly when the numbers are.        *)
(* The lock is there from the start: two threads that find none and make one *)
(* each are left out.                                                        *)
EXTENDS Naturals, FiniteSets

CONSTANTS Processes,
          Machine,     \* the bits of the process id that are kept
          SequenceMask,
          MaxTime,     \* bound: milliseconds of the clock
          MaxSteps     \* bound: steps of the clock back, starts of a process

(* What an instance has to give these constants. *)
IdentifiersAssumption ==
    /\ Machine \in [Processes -> Nat]
    /\ \A p, q \in Processes : p # q => Machine[p] # Machine[q]
    /\ {SequenceMask, MaxSteps} \subseteq Nat /\ MaxTime \in Nat \ {0}

VARIABLES clock,
          last,     \* g_download_snowflake.last_ms and .sequence of each process
          waits,    \* processes in download_snowflake_wait_next_ms
          handed,   \* ids a process has made since it started
          known,    \* the ids of the list each process has in memory
          saved,    \* the ids in the configuration
          entries,  \* entries ever made
          fresh,    \* the id a process looks for in its list, or none
          steps

list == <<known, saved, entries>>
vars == <<clock, last, waits, handed, list, fresh, steps>>

NoId == [time |-> 0, machine |-> 0, sequence |-> 0]
Init == /\ clock = 1
        /\ last = [p \in Processes |-> [ms |-> 0, sequence |-> 0]]
        /\ waits = {}
        /\ handed = [p \in Processes |-> {}]
        /\ known = [p \in Processes |-> {}]
        /\ saved = {}
        /\ entries = 0
        /\ fresh = [p \in Processes |-> NoId]
        /\ steps = 0

Stepped == steps < MaxSteps /\ steps' = steps + 1

(* Mutant: the clock is believed. *)
NowOfClock(p) == clock

(* A clock that was set back stands still. *)
Now(p) == IF clock < last[p].ms THEN last[p].ms ELSE clock

Raw(p, ms, sequence) == [time |-> ms, machine |-> Machine[p], sequence |-> sequence]

Made(p, ms, sequence) ==
    /\ last' = [last EXCEPT ![p] = [ms |-> ms, sequence |-> sequence]]
    /\ fresh' = [fresh EXCEPT ![p] = Raw(p, ms, sequence)]
    /\ handed' = [handed EXCEPT ![p] = @ \cup {Raw(p, ms, sequence)}]

Overflows(sequence) == sequence > SequenceMask

(* download_snowflake_next *)
Generate(p) ==
    /\ fresh[p] = NoId /\ p \notin waits
    /\ LET now == Now(p)
           sequence == IF now = last[p].ms THEN last[p].sequence + 1 ELSE 0
       IN \/ /\ ~Overflows(sequence)
             /\ Made(p, now, sequence)
             /\ UNCHANGED waits
          \/ /\ Overflows(sequence)
             /\ waits' = waits \cup {p}
             /\ UNCHANGED <<last, fresh, handed>>
    /\ UNCHANGED <<clock, list, steps>>

Waited(p) == clock > last[p].ms

Waits(p) == /\ p \in waits /\ Waited(p)
            /\ waits' = waits \ {p}
            /\ Made(p, clock, 0)
            /\ UNCHANGED <<clock, list, steps>>

(* Mutant: the list is not asked. *)
IsNewAnyway(p) == TRUE

IsNew(p) == fresh[p] \notin known[p]

(* download_generate_id, and the entry that is made of it *)
Use(p) == /\ fresh[p] # NoId
          /\ IsNew(p)
          /\ fresh' = [fresh EXCEPT ![p] = NoId]
          /\ known' = [known EXCEPT ![p] = @ \cup {fresh[p]}]
          /\ saved' = saved \cup {fresh[p]}
          /\ entries' = entries + 1
          /\ UNCHANGED <<clock, last, waits, handed, steps>>

(* download_generate_id: an id of the list is dropped and another is made. *)
TryAgain(p) == /\ fresh[p] # NoId
               /\ ~IsNew(p)
               /\ fresh' = [fresh EXCEPT ![p] = NoId]
               /\ UNCHANGED <<clock, last, waits, handed, list, steps>>

Tick == /\ clock < MaxTime
        /\ clock' = clock + 1
        /\ UNCHANGED <<last, waits, handed, list, fresh, steps>>

SetBack == /\ Stepped
           /\ clock > 1
           /\ clock' = clock - 1
           /\ UNCHANGED <<last, waits, handed, list, fresh>>

(* A process ends, and another of the same bits starts and reads the list. *)
StartAgain(p) == /\ Stepped
                 /\ last' = [last EXCEPT ![p] = [ms |-> 0, sequence |-> 0]]
                 /\ waits' = waits \ {p}
                 /\ handed' = [handed EXCEPT ![p] = {}]
                 /\ fresh' = [fresh EXCEPT ![p] = NoId]
                 /\ known' = [known EXCEPT ![p] = saved]
                 /\ UNCHANGED <<clock, saved, entries>>

Next == \/ Tick \/ SetBack
        \/ \E p \in Processes : Generate(p) \/ Waits(p) \/ Use(p) \/ TryAgain(p) \/ StartAgain(p)

Spec == Init /\ [][Next]_vars /\ \A p \in Processes : WF_vars(Waits(p))

(* The types of the variables; the count keeps to its bits. *)
TypeOK == /\ clock \in 1..MaxTime /\ waits \subseteq Processes /\ steps \in 0..MaxSteps
          /\ \A p \in Processes :
                /\ last[p].ms \in 0..MaxTime /\ last[p].sequence \in 0..SequenceMask
                /\ fresh[p] # NoId => fresh[p] \in handed[p]

MadeAnew == \A p \in Processes :
                fresh'[p] # fresh[p] /\ fresh'[p] # NoId => fresh'[p] \notin handed[p]

(* A process never makes the same id twice, however its clock is set
   (download_snowflake_next). *)
NeverTwice == [][MadeAnew]_vars

(* No two entries have the same id, though a process that starts again counts
   from the first again and the clock may have been set back
   (download_generate_id, find_download_item_index). *)
OneEntryPerId == Cardinality(saved) = entries

Ids == [time : Nat, machine : Nat, sequence : Nat]

(* An id that is not later than what its process has counted up to. *)
Counted(p, id) == \/ id.time < last[p].ms
                  \/ id.time = last[p].ms /\ id.sequence <= last[p].sequence

(* The inductive invariant: what a process has made is behind its count, and
   of the ids that are saved it knows those of its own bits. *)
IInv ==
    /\ TypeOK
    /\ last \in [Processes -> [ms : Nat, sequence : Nat]]
    /\ fresh \in [Processes -> Ids]
    /\ handed \in [Processes -> SUBSET Ids] /\ known \in [Processes -> SUBSET Ids]
    /\ saved \subseteq Ids /\ IsFiniteSet(saved) /\ entries = Cardinality(saved)
    /\ \A p \in Processes :
          /\ \A id \in handed[p] : id.machine = Machine[p] /\ Counted(p, id)
          /\ \A id \in saved : id.machine = Machine[p] => id \in known[p]
=============================================================================
