------------------------ MODULE DownloadLifecycleProofs ------------------------
(***************************************************************************)
(* The list of downloads is sound, for any number of downloads, workers,   *)
(* commands, failed saves and deaths: one entry for each item, and none    *)
(* that says it downloads while nobody does, unless a save has failed at   *)
(* the wrong moment or an entry was removed from under two jobs.           *)
(***************************************************************************)
EXTENDS DownloadLifecycle, TLAPS, FiniteSetTheorems

Settling == {"append", "dispatch", "sync", "unstart"}

(* Everything that is worked on has been added. *)
AddedInv ==
    /\ \A n \in DOMAIN list : list[n].item \in added
    /\ \A n \in DOMAIN saved.list : saved.list[n].item \in added
    /\ \A k \in DOMAIN tasks : tasks[k].item \in added

(* Where a thread can be, and where it goes after it has settled the queue. *)
WorkerInv(w) ==
    /\ proc[w].pc \in {"idle", "check", "loaded", "register", "run", "free"} \cup Settling
    /\ proc[w].pc # "idle" => proc[w].item \in added
    /\ proc[w].next \in IF proc[w].pc \in Settling THEN {"register", "run", "free"} ELSE {"idle"}
    /\ proc[w].pc = "append" =>
          /\ proc[w].say \in Statuses
          /\ proc[w].say = "downloading" => proc[w].next \in {"register", "run"}

ControlInv ==
    /\ proc["control"].pc \in
          {"idle", "resetting", "scheduling", "stopping", "resuming"} \cup Settling
    /\ proc["control"].next \in {"idle", "stopping"}
    /\ proc["control"].pc = "append" =>
          proc["control"].item \in added /\ proc["control"].say = "queued"
    /\ proc["control"].pc = "resetting" =>
          /\ proc["control"].at \in DOMAIN list
          /\ list[proc["control"].at].item = proc["control"].item
          /\ proc["control"].say \in Statuses

ThreadInv == (\A w \in Workers : WorkerInv(w)) /\ ControlInv

(* Thread p is about to append an entry of item i. *)
Appends(p, i) == proc[p].pc = "append" /\ proc[p].item = i

(* Who is about to append an entry of item i is alone: there is no entry,  *)
(* and nobody else who could append one.                                   *)
Sole(i) ==
    /\ i \notin Listed => \A v, w \in Publishers(i) : v = w
    /\ \A p \in Procs : Appends(p, i) => i \notin Listed
    /\ Appends("control", i) => Publishers(i) = {}

SoleInv == \A i \in Items \ unsure : Sole(i)

(* A worker that will say of item i that it downloads, or has said so and  *)
(* will say how that ends.                                                 *)
Sure(w, i) ==
    /\ proc[w].item = i
    /\ \/ proc[w].pc \in {"loaded", "register", "run"}
       \/ proc[w].pc = "check" /\ proc[w].force
       \/ proc[w].next \in {"register", "run"}

Busy(i) ==
    \/ \E w \in Workers : Sure(w, i)
    \/ \E k \in DOMAIN tasks : tasks[k].item = i /\ tasks[k].force

(* Somebody is going to look whether item i wants a job. *)
Coming(i) ==
    \/ \E w \in Workers : proc[w].item = i /\ proc[w].pc = "check"
    \/ \E k \in DOMAIN tasks : tasks[k].item = i
    \/ /\ proc["control"].pc = "resuming"
       /\ \E n \in DOMAIN list :
             list[n].item = i /\ proc["control"].at <= n /\ n <= proc["control"].last

(* Who comes for an item that says it downloads will not be turned away:   *)
(* the item has a job that is not over, or is in the table with none.      *)
Held(i) == Busy(i) \/ (Registered(i) = {} /\ Coming(i))

Downloads(i) == \E n \in DOMAIN list : list[n].item = i /\ list[n].status = "downloading"

EveryHeld == ~quiet => \A i \in Items \ unsure : Downloads(i) => Held(i)

IInv == TypeOK /\ AddedInv /\ ThreadInv /\ OneEntryEach /\ SoleInv /\ EveryHeld

-----------------------------------------------------------------------------
(* r goes on from the queue of tasks q. *)
Extends(r, q) ==
    /\ r \in Seq(Tasks)
    /\ \A k \in DOMAIN r : r[k].item \in added
    /\ \A k \in DOMAIN q : k \in DOMAIN r /\ r[k] = q[k]

LEMMA SpawnedExtends ==
    ASSUME TypeOK, NEW q, Extends(q, q), NEW i \in added, NEW force \in BOOLEAN
    PROVE  /\ Extends(Spawned(q, i, force), q)
           /\ force \/ Registered(i) = {} =>
                 \E k \in DOMAIN Spawned(q, i, force) :
                    Spawned(q, i, force)[k].item = i /\ Spawned(q, i, force)[k].force = force
<1>1. Task(i, force) \in Tasks /\ Task(i, force).item = i /\ Task(i, force).force = force
  BY DEF Task, Tasks, TypeOK
<1> DEFINE r == Append(q, Task(i, force))
<1>3. /\ r \in Seq(Tasks) /\ Len(q) + 1 \in DOMAIN r
      /\ r[Len(q) + 1] = Task(i, force)
      /\ \A k \in DOMAIN q : k \in DOMAIN r /\ r[k] = q[k]
      /\ \A k \in DOMAIN r : k \in DOMAIN q \/ k = Len(q) + 1
  BY <1>1 DEF Extends
<1>4. CASE ~force /\ Registered(i) # {}
  BY <1>4 DEF Spawned
<1>5. CASE ~(~force /\ Registered(i) # {})
  <2>1. Spawned(q, i, force) = r
    BY <1>5 DEF Spawned
  <2> HIDE DEF r
  <2>2. \A k \in DOMAIN r : r[k].item \in added
    BY <1>1, <1>3 DEF Extends
  <2> QED BY <1>1, <1>3, <2>1, <2>2 DEF Extends
<1> QED BY <1>4, <1>5

(* A property that the step of a loop hands on holds at every index: the    *)
(* indices at which it fails have no smallest one.                          *)
LEMMA NoFirstFailure ==
    ASSUME NEW len \in Nat, NEW Fails \in SUBSET (0..len),
           \A n \in Fails : n # 0 /\ n - 1 \in Fails
    PROVE  Fails = {}
<1> SUFFICES ASSUME Fails # {} PROVE FALSE
  OBVIOUS
<1>1. Fails \in SUBSET Nat
  OBVIOUS
<1>2. PICK n \in Fails : \A y \in Fails : ~(<<y, n>> \in OpToRel(<, Nat))
  BY <1>1, WFMin, NatLessThanWellFounded
<1>3. n \in Nat /\ n - 1 \in Fails /\ n - 1 \in Nat
  BY <1>1
<1>4. n - 1 < n
  BY <1>3
<1> QED BY <1>2, <1>3, <1>4 DEF OpToRel

(* queue_dispatch adds tasks and takes none away. *)
LEMMA DispatchedExtends ==
    ASSUME TypeOK, AddedInv PROVE Extends(Dispatched, tasks)
<1> DEFINE Value(f, n) ==
             IF n = 0 THEN [queue |-> tasks, active |-> Cardinality(Downloading)]
             ELSE LET so == f[n - 1]
                  IN  IF /\ so.active < MaxConcurrent
                         /\ list[n].status = "queued" /\ Says(list[n].item, "queued")
                      THEN [queue |-> Spawned(so.queue, list[n].item, FALSE),
                            active |-> so.active + 1]
                      ELSE so
           Step(f) == [n \in 0..Len(list) |-> Value(f, n)]
           pass == CHOOSE f : f = Step(f)
           Solves(g, n) == g = [i \in 0..n |-> Value(g, i)]
<1>1. Dispatched = IF started THEN pass[Len(list)].queue ELSE tasks
  BY DEF Dispatched
<1>2. /\ Len(list) \in Nat /\ Len(list) \in 0..Len(list)
      /\ \A n \in 0..Len(list) : n = 0 \/ (n \in 1..Len(list) /\ n - 1 \in 0..Len(list))
      /\ \A n \in 1..Len(list) : list[n].item \in added
      /\ tasks \in Seq(Tasks)
  BY DEF TypeOK, AddedInv, Entries
<1>3. \E g : Solves(g, Len(list))
  <2> DEFINE Fails == {n \in 0..Len(list) : ~\E g : Solves(g, n)}
  <2>1. ASSUME NEW n \in Fails PROVE n # 0 /\ n - 1 \in Fails
    <3>1. n # 0
      <4> SUFFICES ASSUME n = 0 PROVE FALSE
        OBVIOUS
      <4> DEFINE h == [i \in 0..0 |-> [queue |-> tasks, active |-> Cardinality(Downloading)]]
      <4>1. \A i \in 0..0 : Value(h, i) = [queue |-> tasks, active |-> Cardinality(Downloading)]
        OBVIOUS
      <4> HIDE DEF Value
      <4>2. Solves(h, 0)
        BY <4>1
      <4> QED BY <2>1, <4>2
    <3>2. n \in Nat /\ n - 1 \in 0..Len(list)
      BY <1>2, <3>1
    <3>3. ASSUME NEW g, Solves(g, n - 1) PROVE FALSE
      <4> DEFINE h == [i \in 0..n |-> Value(g, i)]
      <4>1. \A i \in 0..(n - 1) : g[i] = Value(g, i)
        BY <3>3
      <4>2. ASSUME NEW i \in 0..n PROVE Value(h, i) = Value(g, i)
        <5>1. CASE i = 0
          BY <5>1
        <5>2. CASE i # 0
          <6>1. i - 1 \in 0..n /\ i - 1 \in 0..(n - 1)
            BY <3>2, <5>2
          <6>2. h[i - 1] = g[i - 1]
            <7> HIDE DEF Value
            <7> QED BY <4>1, <6>1
          <6> HIDE DEF h
          <6> QED BY <6>2
        <5> QED BY <5>1, <5>2
      <4>3. Solves(h, n)
        <5> HIDE DEF Value
        <5> QED BY <4>2
      <4> QED BY <2>1, <4>3
    <3> HIDE DEF Solves
    <3> QED BY <3>1, <3>2, <3>3
  <2>2. Fails \in SUBSET (0..Len(list))
    OBVIOUS
  <2>3. Fails = {}
    <3> HIDE DEF Fails
    <3> QED BY <1>2, <2>1, <2>2, NoFirstFailure
  <2> HIDE DEF Solves
  <2> QED BY <1>2, <2>3
<1>4. pass = Step(pass)
  <2>1. \E f : f = Step(f)
    <3> HIDE DEF Value
    <3> QED BY <1>3
  <2> HIDE DEF Step
  <2> QED BY <2>1, Zenon
<1> HIDE DEF pass
<1> DEFINE Wanted(n) == /\ pass[n - 1].active < MaxConcurrent
                        /\ list[n].status = "queued" /\ Says(list[n].item, "queued")
<1>5. /\ \A n \in 0..Len(list) : pass[n] = Value(pass, n)
      /\ pass[0].queue = tasks
  <2>1. Value(pass, 0).queue = tasks
    OBVIOUS
  <2> HIDE DEF Value
  <2> QED BY <1>2, <1>4, <2>1
<1>6. \A n \in 1..Len(list) :
        \/ pass[n] = pass[n - 1]
        \/ pass[n].queue = Spawned(pass[n - 1].queue, list[n].item, FALSE)
  <2> TAKE n \in 1..Len(list)
  <2>1. n \in 0..Len(list) /\ n # 0
    BY <1>2
  <2>2. Value(pass, n) =
          IF Wanted(n)
          THEN [queue |-> Spawned(pass[n - 1].queue, list[n].item, FALSE),
                active |-> pass[n - 1].active + 1]
          ELSE pass[n - 1]
    BY <2>1, Zenon
  <2>3. pass[n] = Value(pass, n)
    BY ONLY <1>5, <2>1
  <2> HIDE DEF Value
  <2>4. CASE Wanted(n)
    <3>1. pass[n] = [queue |-> Spawned(pass[n - 1].queue, list[n].item, FALSE),
                     active |-> pass[n - 1].active + 1]
      BY ONLY <2>2, <2>3, <2>4, Zenon
    <3> QED BY ONLY <3>1
  <2>5. CASE ~Wanted(n)
    <3> QED BY ONLY <2>2, <2>3, <2>5, Zenon
  <2> QED BY <2>4, <2>5, Zenon
<1>7. \A n \in 0..Len(list) : Extends(pass[n].queue, tasks)
  <2> DEFINE Fails == {n \in 0..Len(list) : ~Extends(pass[n].queue, tasks)}
  <2>1. ASSUME NEW n \in Fails PROVE n # 0 /\ n - 1 \in Fails
    <3>1. Extends(tasks, tasks)
      BY <1>2 DEF Extends, AddedInv
    <3>2. n # 0
      BY ONLY <1>5, <2>1, <3>1
    <3>3. n \in 1..Len(list) /\ n - 1 \in 0..Len(list) /\ list[n].item \in added
      BY <1>2, <3>2
    <3>4. \/ pass[n] = pass[n - 1]
          \/ pass[n].queue = Spawned(pass[n - 1].queue, list[n].item, FALSE)
      BY <1>6, <3>3
    <3>5. ASSUME Extends(pass[n - 1].queue, tasks) PROVE FALSE
      <4> DEFINE so == pass[n - 1].queue
      <4>1. Extends(Spawned(so, list[n].item, FALSE), so)
        <5>1. PICK q : q = so
          OBVIOUS
        <5>2. Extends(q, q)
          BY <3>5, <5>1 DEF Extends
        <5>3. Extends(Spawned(q, list[n].item, FALSE), q)
          BY ONLY <3>3, <5>2, TypeOK, FALSE \in BOOLEAN, SpawnedExtends
        <5> QED BY ONLY <5>1, <5>3
      <4>2. Extends(Spawned(pass[n - 1].queue, list[n].item, FALSE), tasks)
        BY <3>5, <4>1 DEF Extends
      <4> QED BY <2>1, <3>4, <3>5, <4>2
    <3> QED BY <3>2, <3>3, <3>5
  <2>2. Fails \in SUBSET (0..Len(list))
    OBVIOUS
  <2>3. Fails = {}
    <3> HIDE DEF Fails
    <3> QED BY <1>2, <2>1, <2>2, NoFirstFailure
  <2> QED BY <2>3
<1>8. Extends(tasks, tasks)
  BY <1>2 DEF Extends, AddedInv
<1> QED BY <1>1, <1>2, <1>7, <1>8

-----------------------------------------------------------------------------
(* The daemon starts with a sound list, none of whose entries says that it  *)
(* downloads.                                                               *)
LEMMA InitSound == Init => IInv
<1> SUFFICES ASSUME Init PROVE IInv
  OBVIOUS
<1> DEFINE size == Cardinality(Preset)
           Queued == {Entry(i, "queued") : i \in Preset}
           Orders == [1..size -> Queued]
           IsOrder(l) == {l[n].item : n \in DOMAIN l} = Preset
<1>1. size \in Nat /\ ExistsBijection(1..size, Preset)
  BY ItemsAssumption, FS_CardinalityType
<1>2. \E l \in Orders : IsOrder(l)
  <2>1. PICK f \in Bijection(1..size, Preset) : TRUE
    BY <1>1 DEF ExistsBijection
  <2>2. /\ \A n \in 1..size : f[n] \in Preset
        /\ \A i \in Preset : \E n \in 1..size : f[n] = i
    BY <2>1 DEF Bijection, Surjection
  <2> DEFINE l == [n \in 1..size |-> Entry(f[n], "queued")]
  <2>3. l \in Orders
    BY <2>2
  <2>4. \A n \in 1..size : l[n].item = f[n]
    BY DEF Entry
  <2>5. IsOrder(l)
    <3>1. DOMAIN l = 1..size
      OBVIOUS
    <3> HIDE DEF l
    <3> QED BY <2>2, <2>4, <3>1
  <2> QED BY <2>3, <2>5
<1>3. list \in Orders /\ IsOrder(list)
  <2>1. list = CHOOSE l \in Orders : IsOrder(l)
    BY DEF Init
  <2> HIDE DEF Orders, IsOrder
  <2> QED BY <1>2, <2>1
<1>4. \A e \in Queued : e \in Entries /\ e.item \in Preset /\ e.status = "queued"
  BY ItemsAssumption DEF Entry, Entries, Statuses
<1>5. /\ list \in Seq(Entries) /\ Len(list) = size /\ DOMAIN list = 1..size
      /\ \A n \in 1..size : list[n].item \in Preset /\ list[n].status = "queued"
  <2> HIDE DEF Queued
  <2> QED BY <1>1, <1>3, <1>4
<1>6. Once(list)
  <2> DEFINE f == [n \in 1..size |-> list[n].item]
  <2>1. f \in Surjection(1..size, Preset)
    BY <1>3, <1>5 DEF Surjection
  <2>2. IsFiniteSet(1..size) /\ Cardinality(1..size) = size
    BY <1>1, FS_Interval
  <2>3. f \in Injection(1..size, Preset)
    <3> HIDE DEF f
    <3> QED BY <2>1, <2>2, FS_Surjection
  <2>4. \A m, n \in 1..size : list[m].item = list[n].item => m = n
    BY <2>3 DEF Injection, IsInjective
  <2> QED BY <1>5, <2>4 DEF Once
<1>7. /\ proc \in [Procs -> Threads]
      /\ proc["control"] = Starting(size)
      /\ \A w \in Workers : proc[w] = Resting
  BY <1>1, <1>5, WorkersAssumption DEF Init, Procs, Threads, Pcs, Starting, Resting
<1>8. /\ saved.list = list /\ saved \in [list : Seq(Entries), started : BOOLEAN]
      /\ added = Preset /\ Preset \subseteq Items
      /\ moved \subseteq Items /\ unsure \subseteq Items
      /\ started \in BOOLEAN /\ quiet \in BOOLEAN
      /\ tasks = <<>> /\ tasks \in Seq(Tasks)
  <2>1. /\ saved = [list |-> list, started |-> started] /\ started = FALSE
        /\ added = Preset /\ moved = {} /\ unsure = {} /\ quiet = FALSE /\ tasks = <<>>
    BY DEF Init
  <2>2. saved.list = list /\ saved \in [list : Seq(Entries), started : BOOLEAN]
    BY ONLY <1>5, <2>1
  <2>3. Preset \subseteq Items
    BY ItemsAssumption
  <2>4. tasks \in Seq(Tasks)
    BY ONLY <2>1
  <2> QED BY ONLY <2>1, <2>2, <2>3, <2>4
<1>9. TypeOK
  BY ONLY <1>5, <1>7, <1>8 DEF TypeOK
<1>10. AddedInv
  BY <1>5, <1>8 DEF AddedInv
<1>11. ThreadInv
  BY <1>7 DEF ThreadInv, WorkerInv, ControlInv, Starting, Resting, Settling
<1>12. OneEntryEach
  BY <1>6, <1>8 DEF OneEntryEach
<1>13. SoleInv
  <2>1. \A p \in Procs : proc[p].pc # "append"
    <3>1. proc["control"].pc = "resuming" /\ \A w \in Workers : proc[w].pc = "idle"
      BY <1>7 DEF Starting, Resting
    <3> QED BY <3>1 DEF Procs
  <2>2. \A i \in Items : Publishers(i) = {}
    BY <1>7 DEF Publishers, Resting
  <2>3. "control" \in Procs
    BY DEF Procs
  <2> QED BY <2>1, <2>2, <2>3 DEF SoleInv, Sole, Appends
<1>14. EveryHeld
  BY <1>5 DEF EveryHeld, Downloads
<1> QED BY <1>9, <1>10, <1>11, <1>12, <1>13, <1>14 DEF IInv

-----------------------------------------------------------------------------
(* An entry is given another status. *)
LEMMA Restated ==
    ASSUME IInv, NEW n \in DOMAIN list, NEW s \in Statuses, unsure \subseteq unsure',
           list' = [list EXCEPT ![n].status = s]
    PROVE  /\ list' \in Seq(Entries) /\ DOMAIN list' = DOMAIN list /\ Once(list)'
           /\ \A m \in DOMAIN list : list'[m].item = list[m].item
           /\ \A m \in DOMAIN list \ {n} : list'[m] = list[m]
           /\ list'[n].status = s
           /\ Listed' = Listed
<1>1. list \in Seq(Entries) /\ list[n] \in Entries
  BY DEF IInv, TypeOK
<1>2. PICK e : e = [list[n] EXCEPT !.status = s]
  OBVIOUS
<1>3. e \in Entries /\ e.item = list[n].item /\ e.status = s
  BY <1>1, <1>2 DEF Entries
<1>4. list' = [list EXCEPT ![n] = e]
  BY <1>1, <1>2
<1>5. /\ list' \in Seq(Entries) /\ DOMAIN list' = DOMAIN list
      /\ \A m \in DOMAIN list \ {n} : list'[m] = list[m]
      /\ list'[n] = e
  BY <1>1, <1>3, <1>4
<1>6. \A m \in DOMAIN list : list'[m].item = list[m].item
  BY <1>3, <1>5
<1>7. Once(list)'
  BY <1>5, <1>6 DEF IInv, OneEntryEach, Once
<1>8. Listed' = Listed
  BY <1>5, <1>6 DEF Listed
<1> QED BY <1>3, <1>5, <1>6, <1>7, <1>8

(* An entry is appended, of an item that has none or that is unsure. *)
LEMMA Appended ==
    ASSUME IInv, NEW i \in added, NEW s \in Statuses, unsure' = unsure,
           list' = Append(list, Entry(i, s)), i \in unsure \/ i \notin Listed
    PROVE  /\ list' \in Seq(Entries) /\ Once(list)'
           /\ \A n \in DOMAIN list : n \in DOMAIN list' /\ list'[n] = list[n]
           /\ \A n \in DOMAIN list' :
                 n \in DOMAIN list \/ (list'[n].item = i /\ list'[n].status = s)
           /\ \A n \in DOMAIN list' : list'[n].item \in added
<1>1. list \in Seq(Entries) /\ i \in Items /\ \A n \in DOMAIN list : list[n].item \in added
  BY DEF IInv, TypeOK, AddedInv
<1>2. PICK e : e = Entry(i, s)
  OBVIOUS
<1>3. e \in Entries /\ e.item = i /\ e.status = s
  BY <1>1, <1>2 DEF Entry, Entries
<1>4. /\ list' \in Seq(Entries)
      /\ \A n \in DOMAIN list : n \in DOMAIN list' /\ list'[n] = list[n]
      /\ \A n \in DOMAIN list' : n \in DOMAIN list \/ (n = Len(list) + 1 /\ list'[n] = e)
  BY <1>1, <1>2, <1>3
<1>5. Once(list)'
  <2> SUFFICES ASSUME NEW m \in DOMAIN list', NEW n \in DOMAIN list',
                      m # n, list'[m].item = list'[n].item
               PROVE  list'[m].item \in unsure
    BY DEF Once
  <2>1. CASE m \in DOMAIN list /\ n \in DOMAIN list
    BY <1>4, <2>1 DEF IInv, OneEntryEach, Once
  <2>2. CASE m \in DOMAIN list /\ n \notin DOMAIN list
    <3>1. list'[m] = list[m] /\ list'[n] = e
      BY <1>4, <2>2
    <3> QED BY <1>3, <2>2, <3>1 DEF Listed
  <2>3. CASE m \notin DOMAIN list /\ n \in DOMAIN list
    <3>1. list'[n] = list[n] /\ list'[m] = e
      BY <1>4, <2>3
    <3> QED BY <1>3, <2>3, <3>1 DEF Listed
  <2>4. CASE m \notin DOMAIN list /\ n \notin DOMAIN list
    BY <1>4, <2>4
  <2> QED BY <2>1, <2>2, <2>3, <2>4
<1> QED BY <1>1, <1>3, <1>4, <1>5

(* What a step makes of the types, of the items in use and of the file     *)
(* follows from what it makes of the list.                                 *)
LEMMA PartsSound ==
    ASSUME IInv, list' \in Seq(Entries), Once(list)', unsure \subseteq unsure',
           unsure' \subseteq Items, added \subseteq added', added' \subseteq Items,
           moved' \subseteq Items, started' \in BOOLEAN, quiet' \in BOOLEAN,
           \A n \in DOMAIN list' : list'[n].item \in added',
           saved' = saved \/ saved' = [list |-> list', started |-> started'],
           proc' \in [Procs -> Threads],
           tasks' \in Seq(Tasks), \A k \in DOMAIN tasks' : tasks'[k].item \in added'
    PROVE  TypeOK' /\ AddedInv' /\ OneEntryEach'
<1>1. saved' \in [list : Seq(Entries), started : BOOLEAN]
  BY DEF IInv, TypeOK
<1>2. \A n \in DOMAIN saved'.list : saved'.list[n].item \in added'
  BY DEF IInv, AddedInv
<1>3. Once(saved.list)'
  BY DEF IInv, OneEntryEach, Once
<1> QED BY <1>1, <1>2, <1>3 DEF TypeOK, AddedInv, OneEntryEach

-----------------------------------------------------------------------------
(* What a step leaves of a thread, as far as the invariant looks at it. *)
Alike(w) ==
    /\ proc'[w].pc = proc[w].pc /\ proc'[w].next = proc[w].next
    /\ proc'[w].item = proc[w].item /\ proc'[w].say = proc[w].say
    /\ proc'[w].force = proc[w].force /\ proc'[w].reg = proc[w].reg

(* What a step that assigns one entry of proc does to the threads. *)
LEMMA OneThreadMoves ==
    ASSUME proc \in [Procs -> Threads], NEW p \in Procs, NEW u \in Threads,
           proc' = [proc EXCEPT ![p] = u]
    PROVE  /\ proc' \in [Procs -> Threads]
           /\ proc'[p] = u
           /\ \A q \in Procs \ {p} : proc'[q] = proc[q] /\ Alike(q)
  BY DEF Alike

(* A worker that publishes item i is at work on an item that was added. *)
LEMMA PublishersAdded ==
    ASSUME IInv, NEW i, NEW w \in Publishers(i)
    PROVE  w \in Workers /\ proc[w].item = i /\ i \in added
  BY DEF Publishers, IInv, ThreadInv, WorkerInv, Settling

(* A step of worker w, whose record becomes u, that takes no entry from    *)
(* the list and no task from the queue, and changes entries of its own     *)
(* item i alone.  It may append an entry only if it was a publisher of its *)
(* item, and it may leave the item that its entry says downloads only if   *)
(* others hold it.                                                         *)
LEMMA WorkerGoes ==
    ASSUME IInv, TypeOK', AddedInv', OneEntryEach',
           NEW w \in Workers, NEW u \in Threads, proc' = [proc EXCEPT ![w] = u],
           NEW i, proc[w].item = i, u.item \in {i, NoItem}, WorkerInv(w)',
           added' = added, unsure \subseteq unsure', quiet => quiet',
           Extends(tasks', tasks),
           \A n \in DOMAIN list : n \in DOMAIN list' /\ list'[n].item = list[n].item,
           \A n \in DOMAIN list' :
              (n \in DOMAIN list /\ list'[n] = list[n]) \/ list'[n].item = i,
           i \in Listed' => i \in Listed \/ w \in Publishers(i),
           w \in Publishers(i)' => w \in Publishers(i) \/ i \in Listed',
           u.pc = "append" => i \in unsure' \/ (i \notin Listed' /\ w \in Publishers(i)),
           \/ quiet' \/ i \in unsure' \/ Sure(w, i)'
           \/ \A n \in DOMAIN list' : list'[n].item = i => list'[n].status # "downloading"
           \/ /\ list' = list /\ ~Sure(w, i) /\ (u.reg => proc[w].reg)
              /\ proc[w].pc # "check" \/ Registered(i) # {}
    PROVE  IInv'
<1>1. /\ proc \in [Procs -> Threads] /\ w \in Procs /\ "control" \in Procs \ {w}
      /\ unsure' \subseteq Items /\ NoItem \notin Items /\ added \subseteq Items
  BY WorkersAssumption, ItemsAssumption DEF IInv, TypeOK, Procs
<1>2. /\ proc'[w] = u /\ proc'["control"] = proc["control"]
      /\ \A p \in Procs \ {w} : Alike(p)
      /\ \A v \in Workers \ {w} : v \in Procs \ {w}
  BY <1>1, OneThreadMoves DEF Procs
<1>3. ThreadInv'
  <2>1. \A v \in Workers \ {w} : WorkerInv(v)'
    BY <1>2 DEF IInv, ThreadInv, WorkerInv, Alike
  <2>2. ControlInv'
    BY <1>2 DEF IInv, ThreadInv, ControlInv
  <2> QED BY <2>1, <2>2 DEF ThreadInv
<1>4. SoleInv'
  <2> SUFFICES ASSUME NEW j \in Items, j \notin unsure' PROVE Sole(j)'
    BY DEF SoleInv
  <2>1. Sole(j)
    BY DEF IInv, SoleInv
  <2>2. /\ \A v \in Workers \ {w} : v \in Publishers(j)' <=> v \in Publishers(j)
        /\ Publishers(j) \subseteq Workers /\ Publishers(j)' \subseteq Workers
        /\ \A p \in Procs \ {w} : Appends(p, j)' <=> Appends(p, j)
    BY <1>2 DEF Publishers, Appends, Alike
  <2>3. Listed \subseteq Listed' /\ Listed' \subseteq Listed \cup {i}
    BY DEF Listed
  <2>4. \A v \in Workers : Appends(v, j) => v \in Publishers(j)
    BY DEF Appends, Publishers
  <2>5. CASE j # i
    <3>1. w \notin Publishers(j)' /\ ~Appends(w, j)'
      BY <1>1, <1>2, <2>5 DEF Publishers, Appends
    <3> QED BY <1>1, <2>1, <2>2, <2>3, <2>5, <3>1 DEF Sole
  <2>6. CASE j = i
    <3>1. \A p \in Procs \ {w} : Appends(p, i) => w \notin Publishers(i) /\ i \notin Listed
      BY <1>1, <2>1, <2>4, <2>6 DEF Sole, Procs
    <3>2. \A p \in Procs : Appends(p, i)' => i \notin Listed'
      BY <1>1, <1>2, <2>2, <2>6, <3>1 DEF Appends
    <3>3. Appends("control", i)' => Publishers(i)' = {}
      <4> SUFFICES ASSUME Appends("control", i)' PROVE Publishers(i)' = {}
        OBVIOUS
      <4>1. Publishers(i) = {} /\ i \notin Listed'
        BY <1>1, <2>1, <2>2, <2>6, <3>2 DEF Sole
      <4> QED BY <2>2, <2>6, <4>1
    <3>4. i \notin Listed' => \A v, x \in Publishers(i)' : v = x
      BY <2>1, <2>2, <2>3, <2>6 DEF Sole
    <3> QED BY <2>6, <3>2, <3>3, <3>4 DEF Sole
  <2> QED BY <2>5, <2>6
<1>5. EveryHeld'
  <2> SUFFICES ASSUME ~quiet', NEW j \in Items, j \notin unsure', Downloads(j)'
               PROVE  Held(j)'
    BY DEF EveryHeld
  <2>1. PICK n \in DOMAIN list' : list'[n].item = j /\ list'[n].status = "downloading"
    BY DEF Downloads
  <2>2. /\ \A v \in Workers \ {w} : Sure(v, j) => Sure(v, j)'
        /\ \A k \in DOMAIN tasks : k \in DOMAIN tasks' /\ tasks'[k] = tasks[k]
    BY <1>2 DEF Sure, Alike, Extends
  <2>3. Busy(j) /\ ~Sure(w, j) => Busy(j)'
    BY <2>2 DEF Busy
  <2>4. ASSUME Coming(j), proc[w].item = j => proc[w].pc # "check" PROVE Coming(j)'
    <3>1. ASSUME NEW v \in Workers, proc[v].item = j, proc[v].pc = "check" PROVE Coming(j)'
      BY <1>2, <2>4, <3>1 DEF Coming, Alike
    <3>2. ASSUME NEW k \in DOMAIN tasks, tasks[k].item = j PROVE Coming(j)'
      BY <2>2, <3>2 DEF Coming
    <3>3. ASSUME proc["control"].pc = "resuming", NEW m \in DOMAIN list, list[m].item = j,
                 proc["control"].at <= m, m <= proc["control"].last
          PROVE  Coming(j)'
      BY <1>2, <3>3 DEF Coming
    <3> QED BY <2>4, <3>1, <3>2, <3>3 DEF Coming
  <2>5. \A v \in Workers \ {w} : v \in Registered(j)' => v \in Registered(j)
    BY <1>2 DEF Registered, Alike
  <2>6. CASE j # i
    <3>1. Held(j)
      BY <2>1, <2>6 DEF IInv, EveryHeld, Downloads
    <3>2. ~Sure(w, j)
      BY <2>6 DEF Sure
    <3>3. w \notin Registered(j)'
      BY <1>1, <1>2, <2>6 DEF Registered
    <3>4. Registered(j) = {} => Registered(j)' = {}
      BY <2>5, <3>3 DEF Registered
    <3> QED BY <2>3, <2>4, <2>6, <3>1, <3>2, <3>4 DEF Held
  <2>7. CASE j = i
    <3>1. CASE Sure(w, i)'
      BY <2>7, <3>1 DEF Held, Busy
    <3>2. CASE /\ list' = list /\ ~Sure(w, i) /\ (u.reg => proc[w].reg)
               /\ proc[w].pc # "check" \/ Registered(i) # {}
      <4>1. Held(i)
        BY <2>1, <2>7, <3>2 DEF IInv, EveryHeld, Downloads
      <4>2. w \in Registered(i)' => w \in Registered(i)
        BY <1>2, <3>2 DEF Registered
      <4>3. Registered(i) = {} => Registered(i)' = {}
        BY <2>5, <2>7, <4>2 DEF Registered
      <4> QED BY <2>3, <2>4, <2>7, <3>2, <4>1, <4>3 DEF Held
    <3> QED BY <2>1, <2>7, <3>1, <3>2
  <2> QED BY <2>6, <2>7
<1> QED BY <1>3, <1>4, <1>5 DEF IInv

(* A job that will publish its item again. *)
Promises(u, i) ==
    u.item = i /\ (u.pc \in {"loaded", "register", "run"} \/ u.next \in {"register", "run"})

(* The same for a step that leaves every entry its place and its item. *)
LEMMA WorkerRestates ==
    ASSUME IInv,
           NEW w \in Workers, NEW u \in Threads, proc' = [proc EXCEPT ![w] = u],
           NEW i \in added, proc[w].item = i, u.item \in {i, NoItem},
           u.pc # "idle" => u.item = i,
           u.pc \in {"idle", "check", "loaded", "register", "run", "free"} \cup Settling,
           u.next \in IF u.pc \in Settling THEN {"register", "run", "free"} ELSE {"idle"},
           u.pc = "append" =>
              /\ u.say \in Statuses
              /\ u.say = "downloading" => u.next \in {"register", "run"}
              /\ i \in unsure' \/ (i \notin Listed /\ w \in Publishers(i)),
           u.pc = "append" \/ Promises(u, i) => w \in Publishers(i) \/ i \in Listed,
           list' \in Seq(Entries), Once(list)', DOMAIN list' = DOMAIN list,
           \A n \in DOMAIN list : /\ list'[n].item = list[n].item
                                  /\ list'[n] = list[n] \/ list[n].item = i,
           added' = added, unsure \subseteq unsure', unsure' \subseteq Items,
           moved' \subseteq Items, started' \in BOOLEAN, quiet' \in BOOLEAN, quiet => quiet',
           saved' = saved \/ saved' = [list |-> list', started |-> started'],
           Extends(tasks', tasks),
           \/ quiet' \/ i \in unsure' \/ Promises(u, i)
           \/ \A n \in DOMAIN list' : list'[n].item = i => list'[n].status # "downloading"
           \/ /\ list' = list /\ ~Sure(w, i) /\ (u.reg => proc[w].reg)
              /\ proc[w].pc # "check" \/ Registered(i) # {}
    PROVE  IInv'
<1>1. proc \in [Procs -> Threads] /\ w \in Procs /\ added \subseteq Items
  BY DEF IInv, TypeOK, Procs
<1>2. proc' \in [Procs -> Threads] /\ proc'[w] = u
  BY <1>1, OneThreadMoves
<1>3. Listed' = Listed
  BY DEF Listed
<1>4. TypeOK' /\ AddedInv' /\ OneEntryEach'
  <2>1. \A n \in DOMAIN list' : list'[n].item \in added'
    BY DEF IInv, AddedInv
  <2>2. tasks' \in Seq(Tasks) /\ \A k \in DOMAIN tasks' : tasks'[k].item \in added'
    BY DEF Extends
  <2> QED BY ONLY IInv, list' \in Seq(Entries), Once(list)', unsure \subseteq unsure',
            unsure' \subseteq Items, added' = added, moved' \subseteq Items,
            started' \in BOOLEAN, quiet' \in BOOLEAN,
            saved' = saved \/ saved' = [list |-> list', started |-> started'],
            <1>1, <1>2, <2>1, <2>2, PartsSound
<1>5. WorkerInv(w)'
  BY <1>2, ItemsAssumption DEF WorkerInv, Settling
<1>6. Promises(u, i) => Sure(w, i)'
  BY <1>2 DEF Promises, Sure
<1>7. w \in Publishers(i)' => w \in Publishers(i) \/ i \in Listed'
  BY <1>2, <1>3 DEF Publishers, Promises
<1>8. /\ \A n \in DOMAIN list : n \in DOMAIN list' /\ list'[n].item = list[n].item
      /\ \A n \in DOMAIN list' :
            (n \in DOMAIN list /\ list'[n] = list[n]) \/ list'[n].item = i
      /\ i \in Listed' => i \in Listed \/ w \in Publishers(i)
      /\ u.pc = "append" => i \in unsure' \/ (i \notin Listed' /\ w \in Publishers(i))
  BY <1>3
<1> QED BY <1>4, <1>5, <1>6, <1>7, <1>8, WorkerGoes

(* A worker that is at work is at work on an item that was added. *)
LEMMA WorkerFacts ==
    ASSUME IInv, NEW w \in Workers, proc[w].pc # "idle"
    PROVE  /\ proc[w] \in Threads /\ proc[w].item \in added /\ WorkerInv(w)
           /\ list \in Seq(Entries) /\ Once(list) /\ Extends(tasks, tasks)
           /\ unsure \subseteq Items /\ moved \subseteq Items /\ started \in BOOLEAN
           /\ added \subseteq Items /\ quiet \in BOOLEAN
<1>1. WorkerInv(w) /\ TypeOK /\ AddedInv /\ Once(list)
  BY DEF IInv, ThreadInv, OneEntryEach
<1> QED BY <1>1 DEF TypeOK, AddedInv, WorkerInv, Extends, Procs

(* A job publishes status s of its item. *)
LEMMA UpsertSound ==
    ASSUME IInv, NEW w \in Workers, proc[w].pc \in {"loaded", "run"},
           NEW t \in Threads, t.item = proc[w].item, t.reg = proc[w].reg,
           t.next \in {"register", "run", "free"},
           NEW s \in Statuses, s = "downloading" => t.next \in {"register", "run"},
           Upsert(w, t, s), added' = added, quiet' = quiet
    PROVE  IInv'
<1>0. PICK i : i = proc[w].item
  OBVIOUS
<1>1. /\ i \in added /\ list \in Seq(Entries) /\ Once(list) /\ Extends(tasks, tasks)
      /\ unsure \subseteq Items /\ moved \subseteq Items /\ started \in BOOLEAN
      /\ added \subseteq Items /\ quiet \in BOOLEAN
  BY <1>0, WorkerFacts
<1>2. w \in Publishers(i)
  BY <1>0 DEF Publishers
<1>3. started' = started /\ tasks' = tasks /\ moved' \subseteq Items /\ Extends(tasks', tasks)
  <2>1. started' = started /\ tasks' = tasks
    BY DEF Upsert
  <2>2. moved' = moved \cup {i} \/ moved' = moved \ {i}
    BY <1>0 DEF Upsert
  <2> QED BY <1>1, <2>1, <2>2
<1>4. PICK d : d = [t EXCEPT !.pc = "dispatch"]
  OBVIOUS
<1>5. /\ d \in Threads /\ d.pc = "dispatch" /\ d.next = t.next /\ d.item = i
      /\ d.pc \in Settling
  BY <1>0, <1>4 DEF Threads, Pcs, Settling
<1>6. PICK a : a = [t EXCEPT !.pc = "append", !.say = s]
  OBVIOUS
<1>7. /\ a \in Threads /\ a.pc = "append" /\ a.next = t.next /\ a.item = i /\ a.say = s
      /\ a.pc \in Settling
  BY <1>0, <1>6 DEF Threads, Pcs, Settling
<1>8. CASE i \notin Listed /\ list' = list /\ proc' = [proc EXCEPT ![w] = a]
           /\ UNCHANGED <<saved, failures, unsure>>
  <2>1. Once(list)' /\ \A n \in DOMAIN list' : list'[n].item # i
    BY <1>1, <1>8 DEF Once, Listed
  <2> QED BY <1>0, <1>1, <1>2, <1>3, <1>7, <1>8, <2>1, WorkerRestates
<1>9. ASSUME NEW n \in DOMAIN list, Finds(i, n), list' = [list EXCEPT ![n].status = s],
             \/ proc' = [proc EXCEPT ![w] = d] /\ Saved /\ unsure' = unsure
             \/ /\ proc' = [proc EXCEPT ![w] = a]
                /\ NotSaved /\ unsure' = unsure \cup {i}
      PROVE  IInv'
  <2>1. unsure \subseteq unsure' /\ unsure' \subseteq Items
    BY <1>1, <1>9
  <2>2. /\ list' \in Seq(Entries) /\ DOMAIN list' = DOMAIN list /\ Once(list)'
        /\ \A m \in DOMAIN list : list'[m].item = list[m].item
        /\ \A m \in DOMAIN list \ {n} : list'[m] = list[m]
        /\ list'[n].status = s
    BY ONLY <1>9, <2>1, IInv, s \in Statuses, Restated
  <2>3. list[n].item = i /\ i \in Listed
    BY <1>9 DEF Finds, Listed
  <2>4. \A m \in DOMAIN list : list'[m].item = list[m].item
                               /\ (list'[m] = list[m] \/ list[m].item = i)
    BY <2>2, <2>3
  <2>5. saved' = saved \/ saved' = [list |-> list', started |-> started']
    BY <1>9 DEF Saved, NotSaved
  <2>6. CASE proc' = [proc EXCEPT ![w] = d] /\ unsure' = unsure
    <3>1. \/ i \in unsure' \/ Promises(d, i)
          \/ \A m \in DOMAIN list' : list'[m].item = i => list'[m].status # "downloading"
      <4>1. CASE s = "downloading"
        BY <1>5, <4>1 DEF Promises
      <4>2. CASE s # "downloading" /\ i \notin unsure
        <5>1. \A m \in DOMAIN list' : list'[m].item = i => m = n
          BY <1>1, <2>2, <2>3, <4>2 DEF Once
        <5> QED BY <2>2, <4>2, <5>1
      <4> QED BY <2>6, <4>1, <4>2
    <3>2. /\ d.item \in {i, NoItem} /\ (d.pc # "idle" => d.item = i)
          /\ d.pc \in {"idle", "check", "loaded", "register", "run", "free"} \cup Settling
          /\ d.next \in IF d.pc \in Settling THEN {"register", "run", "free"} ELSE {"idle"}
          /\ d.pc # "append"
      BY <1>5
    <3> QED BY ONLY <1>0, <1>1, <1>2, <1>3, <1>5, <2>1, <2>2, <2>4, <2>5, <2>6, <3>1, <3>2,
          IInv, w \in Workers, added' = added, quiet' = quiet, WorkerRestates
  <2>7. CASE proc' = [proc EXCEPT ![w] = a] /\ unsure' = unsure \cup {i}
    <3>1. i \in unsure'
      BY <2>7
    <3>2. /\ a.item \in {i, NoItem} /\ (a.pc # "idle" => a.item = i)
          /\ a.pc \in {"idle", "check", "loaded", "register", "run", "free"} \cup Settling
          /\ a.next \in IF a.pc \in Settling THEN {"register", "run", "free"} ELSE {"idle"}
          /\ a.say \in Statuses
          /\ a.say = "downloading" => a.next \in {"register", "run"}
      BY <1>7
    <3> QED BY ONLY <1>0, <1>1, <1>2, <1>3, <1>7, <2>1, <2>2, <2>4, <2>5, <2>7, <3>1, <3>2,
          IInv, w \in Workers, added' = added, quiet' = quiet, WorkerRestates
  <2> QED BY <1>9, <2>6, <2>7
<1> QED BY <1>0, <1>4, <1>6, <1>8, <1>9 DEF Upsert

(* Worker w goes on after it has settled the queue, or with settling it. *)
GoesOn(u, t) ==
    /\ u \in Threads /\ u.item = t.item /\ u.reg = t.reg
    /\ \/ u.pc \in Settling \ {"append"} /\ u.next = t.next
       \/ u.pc = t.next /\ u.next = "idle"

LEMMA ReturnGoesOn ==
    ASSUME IInv, NEW w \in Workers, proc[w].pc \in Settling
    PROVE  \E u : GoesOn(u, proc[w]) /\ Return(w) = [proc EXCEPT ![w] = u]
<1>1. proc[w] \in Threads /\ proc[w].next \in {"register", "run", "free"}
  BY WorkerFacts DEF WorkerInv, Settling
<1>2. PICK t : t = proc[w]
  OBVIOUS
<1> DEFINE u == [t EXCEPT !.pc = t.next, !.next = "idle", !.say = "none"]
<1>3. GoesOn(u, t)
  BY <1>1, <1>2 DEF GoesOn, Threads, Pcs
<1>4. Return(w) = [proc EXCEPT ![w] = u]
  BY <1>1, <1>2 DEF Return
<1> QED BY <1>2, <1>3, <1>4

LEMMA GoGoesOn ==
    ASSUME IInv, NEW w \in Workers, proc[w].pc \in Settling, NEW pc \in Settling \ {"append"}
    PROVE  \E u : GoesOn(u, proc[w]) /\ Go(w, pc) = [proc EXCEPT ![w] = u]
<1>1. proc[w] \in Threads
  BY WorkerFacts DEF Settling
<1>2. PICK t : t = proc[w]
  OBVIOUS
<1> DEFINE u == [t EXCEPT !.pc = pc]
<1>3. GoesOn(u, t)
  BY <1>1, <1>2 DEF GoesOn, Threads, Pcs, Settling
<1>4. Go(w, pc) = [proc EXCEPT ![w] = u]
  BY <1>1, <1>2 DEF Go
<1> QED BY <1>2, <1>3, <1>4

(* A worker settles the queue, or has settled it: the list is as it was. *)
LEMMA SettledSound ==
    ASSUME IInv, NEW w \in Workers, proc[w].pc \in {"dispatch", "sync", "unstart"},
           NEW u, GoesOn(u, proc[w]), proc' = [proc EXCEPT ![w] = u],
           list' = list, started' \in BOOLEAN, UNCHANGED <<added, moved, unsure, quiet>>,
           saved' = saved \/ saved' = [list |-> list', started |-> started'],
           Extends(tasks', tasks)
    PROVE  IInv'
<1>1. PICK i : i = proc[w].item
  OBVIOUS
<1>2. /\ i \in added /\ WorkerInv(w) /\ list \in Seq(Entries) /\ Once(list)
      /\ unsure \subseteq Items /\ moved \subseteq Items /\ quiet \in BOOLEAN
  BY <1>1, WorkerFacts
<1>3. proc[w].next \in {"register", "run", "free"} /\ proc[w].pc \in Settling \ {"append"}
  BY <1>2 DEF WorkerInv, Settling
<1>4. /\ u \in Threads /\ u.item = i /\ u.reg = proc[w].reg /\ u.pc \notin {"append", "idle"}
      /\ u.pc \in {"idle", "check", "loaded", "register", "run", "free"} \cup Settling
      /\ u.next \in IF u.pc \in Settling THEN {"register", "run", "free"} ELSE {"idle"}
  BY <1>1, <1>3 DEF GoesOn, Settling
<1>5. /\ Promises(u, i) => w \in Publishers(i)
      /\ Promises(u, i) \/ ~Sure(w, i)
  BY <1>1, <1>3, <1>4 DEF GoesOn, Promises, Publishers, Sure, Settling
<1>6. Once(list)' /\ proc[w].pc # "check"
  BY <1>2, <1>3 DEF Once, Settling
<1>7. quiet' \in BOOLEAN /\ (quiet => quiet') /\ added' = added /\ moved' \subseteq Items
      /\ unsure \subseteq unsure' /\ unsure' \subseteq Items /\ list' \in Seq(Entries)
      /\ DOMAIN list' = DOMAIN list
      /\ \A n \in DOMAIN list : /\ list'[n].item = list[n].item
                                /\ list'[n] = list[n] \/ list[n].item = i
  BY <1>2
<1> QED BY ONLY <1>1, <1>2, <1>4, <1>5, <1>6, <1>7, IInv, w \in Workers, Extends(tasks', tasks),
           proc' = [proc EXCEPT ![w] = u], list' = list, started' \in BOOLEAN,
           saved' = saved \/ saved' = [list |-> list', started |-> started'], WorkerRestates

(* A job appends an entry for its item. *)
LEMMA AppendSound ==
    ASSUME IInv, NEW w \in Workers, AppendEntry(w), quiet' = quiet PROVE IInv'
<1>1. PICK i : i = proc[w].item
  OBVIOUS
<1>2. PICK s : s = proc[w].say
  OBVIOUS
<1>3. proc[w].pc = "append" /\ proc[w].pc \in Settling
  BY DEF AppendEntry, Settling
<1>4. /\ i \in added /\ proc[w] \in Threads /\ proc[w].next \in {"register", "run", "free"}
      /\ s \in Statuses /\ (s = "downloading" => proc[w].next \in {"register", "run"})
      /\ Extends(tasks, tasks) /\ added \subseteq Items /\ unsure \subseteq Items
      /\ started \in BOOLEAN /\ quiet \in BOOLEAN /\ moved \subseteq Items
  BY <1>1, <1>2, <1>3, WorkerFacts DEF WorkerInv
<1>5. /\ list' = Append(list, Entry(i, s))
      /\ UNCHANGED <<started, added, moved, tasks, unsure>>
      /\ saved' = saved \/ saved' = [list |-> list', started |-> started']
      /\ \/ proc' = [proc EXCEPT ![w].pc = "dispatch", ![w].say = "none"]
         \/ proc' = Return(w)
  BY <1>1, <1>2 DEF AppendEntry, Saved, NotSaved
<1>6. i \in unsure \/ i \notin Listed
  <2>1. Appends(w, i) /\ w \in Procs
    BY <1>1, <1>3 DEF Appends, Procs
  <2> QED BY <1>4, <2>1 DEF IInv, SoleInv, Sole
<1>7. /\ list' \in Seq(Entries) /\ Once(list)'
      /\ \A n \in DOMAIN list : n \in DOMAIN list' /\ list'[n] = list[n]
      /\ \A n \in DOMAIN list' :
            n \in DOMAIN list \/ (list'[n].item = i /\ list'[n].status = s)
      /\ \A n \in DOMAIN list' : list'[n].item \in added
  BY ONLY <1>4, <1>5, <1>6, IInv, Appended
<1>8. PICK u : /\ proc' = [proc EXCEPT ![w] = u] /\ u \in Threads
               /\ u.item = i /\ u.pc \in Pcs \ {"append", "idle"}
               /\ u.pc \in {"loaded", "register", "run", "free"} \cup Settling
               /\ u.next \in IF u.pc \in Settling THEN {"register", "run", "free"} ELSE {"idle"}
               /\ s = "downloading" => Promises(u, i)
  <2>1. CASE proc' = [proc EXCEPT ![w].pc = "dispatch", ![w].say = "none"]
    <3>1. PICK t : t = proc[w]
      OBVIOUS
    <3>2. PICK u : u = [t EXCEPT !.pc = "dispatch", !.say = "none"]
      OBVIOUS
    <3>3. /\ u \in Threads /\ u.item = i /\ u.pc = "dispatch" /\ u.next = t.next
          /\ u.pc \in Settling /\ u.pc \in Pcs
      BY <1>1, <1>4, <3>1, <3>2 DEF Threads, Pcs, Settling
    <3>4. proc' = [proc EXCEPT ![w] = u]
      BY <1>4, <2>1, <3>1, <3>2
    <3>5. s = "downloading" => Promises(u, i)
      BY <1>4, <3>1, <3>3 DEF Promises
    <3> QED BY ONLY <1>4, <3>1, <3>3, <3>4, <3>5
  <2>2. CASE proc' = Return(w)
    <3>1. PICK u : GoesOn(u, proc[w]) /\ Return(w) = [proc EXCEPT ![w] = u]
      BY <1>3, ReturnGoesOn
    <3>2. /\ u \in Threads /\ u.item = i /\ u.pc \in Pcs \ {"append", "idle"}
          /\ u.pc \in {"loaded", "register", "run", "free"} \cup Settling
          /\ u.next \in IF u.pc \in Settling THEN {"register", "run", "free"} ELSE {"idle"}
          /\ s = "downloading" => Promises(u, i)
      BY <1>1, <1>4, <3>1 DEF GoesOn, Promises, Settling, Pcs
    <3> QED BY <2>2, <3>1, <3>2
  <2> QED BY <1>5, <2>1, <2>2
<1>9. /\ proc \in [Procs -> Threads] /\ w \in Procs
      /\ proc' \in [Procs -> Threads] /\ proc'[w] = u
  <2>1. proc \in [Procs -> Threads] /\ w \in Procs
    BY DEF IInv, TypeOK, Procs
  <2> QED BY <1>8, <2>1, OneThreadMoves
<1>10. TypeOK' /\ AddedInv' /\ OneEntryEach'
  <2>1. tasks' \in Seq(Tasks) /\ \A k \in DOMAIN tasks' : tasks'[k].item \in added'
    BY <1>4, <1>5 DEF Extends
  <2>2. unsure \subseteq unsure' /\ unsure' \subseteq Items /\ added \subseteq added'
        /\ added' \subseteq Items /\ moved' \subseteq Items /\ started' \in BOOLEAN
        /\ quiet' \in BOOLEAN /\ \A n \in DOMAIN list' : list'[n].item \in added'
    BY <1>4, <1>5, <1>7
  <2> QED BY ONLY <1>5, <1>7, <1>9, <2>1, <2>2, IInv, PartsSound
<1>11. WorkerInv(w)'
  BY <1>4, <1>5, <1>8, <1>9 DEF WorkerInv, Settling
<1>12. w \in Publishers(i)
  BY <1>1, <1>3 DEF Publishers
<1>13. i \in unsure' \/ Sure(w, i)'
       \/ \A n \in DOMAIN list' : list'[n].item = i => list'[n].status # "downloading"
  <2>1. CASE s = "downloading"
    BY <1>8, <1>9, <2>1 DEF Promises, Sure
  <2>2. CASE s # "downloading" /\ i \notin unsure
    BY <1>6, <1>7, <2>2 DEF Listed
  <2> QED BY <1>5, <2>1, <2>2
<1>14. /\ \A n \in DOMAIN list : n \in DOMAIN list' /\ list'[n].item = list[n].item
       /\ \A n \in DOMAIN list' :
             (n \in DOMAIN list /\ list'[n] = list[n]) \/ list'[n].item = i
       /\ added' = added /\ unsure \subseteq unsure' /\ Extends(tasks', tasks)
  BY <1>4, <1>5, <1>7
<1> QED BY ONLY <1>1, <1>8, <1>10, <1>11, <1>12, <1>13, <1>14, IInv, w \in Workers, quiet' = quiet,
           WorkerGoes

(* The process is gone: whatever the file says downloads is resumed by the *)
(* next one.                                                               *)
LEMMA DieSound == ASSUME IInv, Die, quiet' = quiet PROVE IInv'
<1> DEFINE c == Starting(Len(saved.list))
<1>1. /\ saved \in [list : Seq(Entries), started : BOOLEAN] /\ "control" \in Procs
      /\ TypeOK /\ AddedInv /\ Once(saved.list)
  BY DEF IInv, TypeOK, Procs, OneEntryEach
<1>2. /\ list' = saved.list /\ started' = saved.started /\ saved' = saved /\ tasks' = <<>>
      /\ UNCHANGED <<added, moved, unsure>>
      /\ proc' = [p \in Procs |-> IF p = "control" THEN c ELSE Resting]
  BY DEF Die
<1>3. /\ Resting \in Threads /\ Resting.pc = "idle" /\ Resting.next = "idle"
      /\ Resting.item = NoItem /\ Resting.reg = FALSE
  BY DEF Resting, Threads, Pcs
<1>4. /\ c \in Threads /\ c.pc = "resuming" /\ c.next = "idle" /\ c.at = 1
      /\ c.last = Len(saved.list)
  <2>1. Len(saved.list) \in Nat
    BY <1>1
  <2> QED BY <2>1 DEF Starting, Resting, Threads, Pcs
<1> HIDE DEF c
<1>5. /\ proc' \in [Procs -> Threads] /\ proc'["control"] = c
      /\ \A w \in Workers : proc'[w] = Resting
  BY <1>1, <1>2, <1>3, <1>4, WorkersAssumption DEF Procs
<1>6. /\ list' \in Seq(Entries) /\ started' \in BOOLEAN /\ tasks' \in Seq(Tasks)
      /\ Once(list)' /\ Once(saved.list)'
  BY <1>1, <1>2 DEF Once
<1>7. TypeOK'
  BY <1>1, <1>2, <1>5, <1>6 DEF TypeOK
<1>8. AddedInv'
  BY <1>1, <1>2 DEF AddedInv
<1>9. ThreadInv'
  BY <1>3, <1>4, <1>5 DEF ThreadInv, WorkerInv, ControlInv, Settling
<1>10. SoleInv'
  <2>1. /\ \A i \in Items : Publishers(i)' = {}
        /\ \A p \in Procs : proc'[p].pc # "append"
    BY <1>3, <1>4, <1>5 DEF Publishers, Procs
  <2> QED BY <1>1, <2>1 DEF SoleInv, Sole, Appends
<1>11. EveryHeld'
  <2> SUFFICES ASSUME NEW i \in Items, Downloads(i)' PROVE Held(i)'
    BY DEF EveryHeld
  <2>1. PICK n \in DOMAIN list' : list'[n].item = i
    BY DEF Downloads
  <2>2. 1 <= n /\ n <= Len(saved.list)
    BY <1>1, <1>2, <2>1
  <2>3. Coming(i)'
    BY <1>4, <1>5, <2>1, <2>2 DEF Coming
  <2>4. Registered(i)' = {}
    BY <1>3, <1>5 DEF Registered
  <2> QED BY <2>3, <2>4 DEF Held
<1> QED BY <1>6, <1>7, <1>8, <1>9, <1>10, <1>11 DEF IInv, OneEntryEach

(* A worker takes a task: it holds the item as the task did. *)
LEMMA TakeSound == ASSUME IInv, NEW w \in Workers, Take(w), quiet' = quiet PROVE IInv'
<1> DEFINE h == Head(tasks)
           u == [Resting EXCEPT !.pc = "check", !.item = h.item, !.force = h.force]
<1>1. /\ tasks \in Seq(Tasks) /\ tasks # <<>> /\ tasks' = Tail(tasks)
      /\ proc' = [proc EXCEPT ![w] = u] /\ proc[w].pc = "idle"
      /\ UNCHANGED <<list, started, saved, added, moved, unsure>>
      /\ TypeOK /\ AddedInv /\ OneEntryEach
  BY DEF Take, Config, IInv, TypeOK
<1>2. /\ h = tasks[1] /\ 1 \in DOMAIN tasks /\ h \in Tasks /\ tasks' \in Seq(Tasks)
      /\ \A k \in DOMAIN tasks' : k + 1 \in DOMAIN tasks /\ tasks'[k] = tasks[k + 1]
      /\ \A k \in DOMAIN tasks : k = 1 \/ (k - 1 \in DOMAIN tasks' /\ tasks'[k - 1] = tasks[k])
  BY <1>1
<1>3. h.item \in added /\ h.item \in Items /\ h.force \in BOOLEAN
  BY <1>1, <1>2 DEF AddedInv, Tasks
<1> HIDE DEF h
<1>4. /\ u \in Threads /\ u.pc = "check" /\ u.next = "idle" /\ u.item = h.item
      /\ u.force = h.force /\ u.reg = FALSE
  BY <1>3 DEF Resting, Threads, Pcs
<1> HIDE DEF u
<1>5. /\ proc \in [Procs -> Threads] /\ w \in Procs /\ "control" \in Procs \ {w}
      /\ \A v \in Workers \ {w} : v \in Procs \ {w}
  BY <1>1, WorkersAssumption DEF TypeOK, Procs
<1>6. /\ proc' \in [Procs -> Threads] /\ proc'[w] = u
      /\ \A p \in Procs \ {w} : proc'[p] = proc[p] /\ Alike(p)
  BY <1>1, <1>4, <1>5, OneThreadMoves
<1>7. proc[w].next = "idle"
  BY <1>1 DEF IInv, ThreadInv, WorkerInv, Settling
<1>8. AddedInv'
  BY <1>1, <1>2 DEF AddedInv
<1>9. TypeOK' /\ OneEntryEach'
  <2>1. Once(list)' /\ Once(saved.list)'
    BY <1>1 DEF OneEntryEach, Once
  <2> QED BY <1>1, <1>2, <1>6, <2>1 DEF TypeOK, OneEntryEach
<1>10. ThreadInv'
  <2>1. WorkerInv(w)'
    BY <1>1, <1>3, <1>4, <1>6 DEF WorkerInv, Settling
  <2>2. \A v \in Workers \ {w} : WorkerInv(v)'
    BY <1>1, <1>5, <1>6 DEF IInv, ThreadInv, WorkerInv, Alike
  <2>3. ControlInv'
    BY <1>1, <1>5, <1>6 DEF IInv, ThreadInv, ControlInv
  <2> QED BY <2>1, <2>2, <2>3 DEF ThreadInv
<1>11. SoleInv'
  <2> SUFFICES ASSUME NEW i \in Items, i \notin unsure PROVE Sole(i)'
    BY <1>1 DEF SoleInv
  <2>1. Publishers(i)' = Publishers(i)
    <3>1. \A v \in Workers : v \in Publishers(i)' <=> v \in Publishers(i)
      BY <1>1, <1>4, <1>5, <1>6, <1>7 DEF Publishers, Alike
    <3> QED BY <3>1 DEF Publishers
  <2>2. \A p \in Procs : Appends(p, i)' <=> Appends(p, i)
    BY <1>1, <1>4, <1>5, <1>6 DEF Appends, Alike
  <2>3. Listed' = Listed
    BY <1>1 DEF Listed
  <2>4. Sole(i)
    BY DEF IInv, SoleInv
  <2> QED BY <1>5, <2>1, <2>2, <2>3, <2>4 DEF Sole
<1>12. EveryHeld'
  <2> SUFFICES ASSUME ~quiet, NEW i \in Items, i \notin unsure, Downloads(i)' PROVE Held(i)'
    BY <1>1 DEF EveryHeld
  <2>1. Held(i)
    BY <1>1 DEF IInv, EveryHeld, Downloads
  <2>2. Busy(i) => Busy(i)'
    <3>1. ASSUME NEW v \in Workers, Sure(v, i) PROVE Sure(v, i)'
      BY <1>1, <1>5, <1>6, <1>7, <3>1 DEF Sure, Alike
    <3>2. ASSUME NEW k \in DOMAIN tasks, tasks[k].item = i, tasks[k].force PROVE Busy(i)'
      <4>1. CASE k = 1
        BY <1>2, <1>4, <1>6, <3>2, <4>1 DEF Busy, Sure
      <4>2. CASE k # 1
        BY <1>2, <3>2, <4>2 DEF Busy
      <4> QED BY <4>1, <4>2
    <3> QED BY <3>1, <3>2 DEF Busy
  <2>3. Coming(i) => Coming(i)'
    <3>1. ASSUME NEW v \in Workers, proc[v].item = i, proc[v].pc = "check" PROVE Coming(i)'
      BY <1>1, <1>5, <1>6, <3>1 DEF Coming, Alike
    <3>2. ASSUME NEW k \in DOMAIN tasks, tasks[k].item = i PROVE Coming(i)'
      <4>1. CASE k = 1
        BY <1>2, <1>4, <1>6, <3>2, <4>1 DEF Coming
      <4>2. CASE k # 1
        BY <1>2, <3>2, <4>2 DEF Coming
      <4> QED BY <4>1, <4>2
    <3>3. ASSUME proc["control"].pc = "resuming", NEW n \in DOMAIN list, list[n].item = i,
                 proc["control"].at <= n, n <= proc["control"].last
          PROVE  Coming(i)'
      BY <1>1, <1>5, <1>6, <3>3 DEF Coming
    <3> QED BY <3>1, <3>2, <3>3 DEF Coming
  <2>4. Registered(i) = {} => Registered(i)' = {}
    BY <1>4, <1>5, <1>6 DEF Registered, Alike
  <2> QED BY <2>1, <2>2, <2>3, <2>4 DEF Held
<1> QED BY <1>8, <1>9, <1>10, <1>11, <1>12 DEF IInv

(* A step of a worker that changes nothing but its own record. *)
LEMMA WorkerAlone ==
    ASSUME IInv, NEW w \in Workers, proc[w].pc # "idle",
           NEW u \in Threads, proc' = [proc EXCEPT ![w] = u],
           NEW i, i = proc[w].item, u.item \in {i, NoItem}, u.pc # "idle" => u.item = i,
           u.pc \in {"idle", "loaded", "run", "free"}, u.next = "idle",
           Promises(u, i) => w \in Publishers(i) \/ i \in Listed,
           UNCHANGED <<list, started, saved, added, moved, unsure, tasks>>,
           quiet' \in BOOLEAN, quiet => quiet',
           \/ quiet' \/ i \in unsure \/ Promises(u, i)
           \/ \A n \in DOMAIN list : list[n].item = i => list[n].status # "downloading"
           \/ /\ ~Sure(w, i) /\ (u.reg => proc[w].reg)
              /\ proc[w].pc # "check" \/ Registered(i) # {}
    PROVE  IInv'
<1>1. /\ i \in added /\ list \in Seq(Entries) /\ Once(list) /\ Extends(tasks, tasks)
      /\ unsure \subseteq Items /\ moved \subseteq Items /\ started \in BOOLEAN
  BY WorkerFacts
<1>2. /\ list' \in Seq(Entries) /\ DOMAIN list' = DOMAIN list /\ Extends(tasks', tasks)
      /\ unsure \subseteq unsure' /\ unsure' \subseteq Items /\ moved' \subseteq Items
      /\ started' \in BOOLEAN
      /\ \A n \in DOMAIN list : /\ list'[n].item = list[n].item
                                /\ list'[n] = list[n] \/ list[n].item = i
  BY <1>1
<1>3. Once(list)'
  BY <1>1 DEF Once
<1>4. /\ u.pc \in {"idle", "check", "loaded", "register", "run", "free"} \cup Settling
      /\ u.next \in IF u.pc \in Settling THEN {"register", "run", "free"} ELSE {"idle"}
      /\ u.pc # "append"
  BY DEF Settling
<1>5. \/ quiet' \/ i \in unsure' \/ Promises(u, i)
      \/ \A n \in DOMAIN list' : list'[n].item = i => list'[n].status # "downloading"
      \/ /\ list' = list /\ ~Sure(w, i) /\ (u.reg => proc[w].reg)
         /\ proc[w].pc # "check" \/ Registered(i) # {}
  OBVIOUS
<1> QED BY <1>1, <1>2, <1>3, <1>4, <1>5, WorkerRestates

(* A task becomes a job, or is turned away: nothing downloads, or another  *)
(* job does.                                                               *)
LEMMA CheckSound == ASSUME IInv, NEW w \in Workers, Check(w), quiet' = quiet PROVE IInv'
<1>1. PICK i : i = proc[w].item
  OBVIOUS
<1>2. /\ proc[w].pc = "check" /\ proc[w] \in Threads /\ WorkerInv(w) /\ i \in added
      /\ list \in Seq(Entries) /\ Once(list) /\ quiet \in BOOLEAN
  <2>1. proc[w].pc = "check"
    BY DEF Check
  <2> QED BY <1>1, <2>1, WorkerFacts
<1>3. proc[w].next = "idle"
  BY <1>2 DEF WorkerInv, Settling
<1> DEFINE goes == /\ i \in Listed
                   /\ proc[w].force \/ (Registered(i) = {} /\ ~Blocked(i))
<1>4. CASE goes /\ i \in moved
  BY <1>1, <1>4, DieSound DEF Check
<1>5. CASE goes /\ i \notin moved
  <2> DEFINE u == [proc[w] EXCEPT !.pc = "loaded"]
  <2>1. u \in Threads /\ u.item = i /\ u.pc = "loaded" /\ u.next = "idle"
    BY <1>1, <1>2, <1>3 DEF Threads, Pcs
  <2>2. proc' = [proc EXCEPT ![w] = u] /\ Unchanged
    BY <1>1, <1>5 DEF Check, Go, Unchanged
  <2> HIDE DEF u
  <2>3. Promises(u, i) /\ i \in Listed /\ UNCHANGED <<list, started, saved, added, moved, unsure, tasks>>
    BY <1>5, <2>1, <2>2 DEF Promises, Unchanged, Config
  <2>4. quiet' \in BOOLEAN /\ (quiet => quiet') /\ proc[w].pc # "idle"
    BY <1>2
  <2> QED BY ONLY <1>1, <2>1, <2>2, <2>3, <2>4, IInv, w \in Workers, WorkerAlone
<1>6. CASE ~goes
  <2>1. /\ Resting \in Threads /\ Resting.pc = "idle" /\ Resting.next = "idle"
        /\ Resting.item = NoItem /\ Resting.reg = FALSE
    BY DEF Resting, Threads, Pcs
  <2>2. proc' = [proc EXCEPT ![w] = Resting] /\ Unchanged
    BY <1>1, <1>6 DEF Check, Unchanged
  <2>3. UNCHANGED <<list, started, saved, added, moved, unsure, tasks>>
    BY <2>2 DEF Unchanged, Config
  <2>4. ~Promises(Resting, i)
    BY <2>1 DEF Promises
  <2>5. \/ i \in unsure
        \/ \A n \in DOMAIN list : list[n].item = i => list[n].status # "downloading"
        \/ ~Sure(w, i) /\ Registered(i) # {}
    <3>1. CASE i \notin Listed
      BY <3>1 DEF Listed
    <3>2. CASE ~proc[w].force /\ Registered(i) # {}
      BY <1>2, <1>3, <3>2 DEF Sure
    <3>3. CASE Blocked(i) /\ i \notin unsure
      <4>1. PICK n \in DOMAIN list : list[n].item = i /\ list[n].status \in {"stopped", "queued"}
        BY <3>3 DEF Blocked, Says, Finds
      <4> QED BY <1>2, <3>3, <4>1 DEF Once
    <3> QED BY <1>6, <3>1, <3>2, <3>3
  <2>6. quiet' \in BOOLEAN /\ (quiet => quiet') /\ proc[w].pc # "idle"
    BY <1>2
  <2> QED BY ONLY <1>1, <2>1, <2>2, <2>3, <2>4, <2>5, <2>6, IInv, w \in Workers, WorkerAlone
<1> QED BY <1>4, <1>5, <1>6

LEMMA RegisterSound == ASSUME IInv, NEW w \in Workers, Register(w), quiet' = quiet PROVE IInv'
<1>1. PICK i : i = proc[w].item
  OBVIOUS
<1>2. proc[w].pc = "register" /\ Unchanged
  BY DEF Register, Unchanged
<1>3. proc[w] \in Threads /\ WorkerInv(w) /\ quiet \in BOOLEAN
  BY <1>2, WorkerFacts
<1>4. PICK t : t = proc[w]
  OBVIOUS
<1> DEFINE u == [t EXCEPT !.pc = "run", !.reg = TRUE]
<1>5. u \in Threads /\ u.item = i /\ u.pc = "run" /\ u.next = "idle"
  BY <1>1, <1>2, <1>3, <1>4 DEF Threads, Pcs, WorkerInv, Settling
<1>6. proc' = [proc EXCEPT ![w] = u]
  BY <1>3, <1>4 DEF Register
<1> HIDE DEF u
<1>7. /\ Promises(u, i) /\ w \in Publishers(i) /\ proc[w].pc # "idle"
      /\ UNCHANGED <<list, started, saved, added, moved, unsure, tasks>>
      /\ quiet' \in BOOLEAN /\ (quiet => quiet')
  BY <1>1, <1>2, <1>3, <1>5 DEF Promises, Publishers, Unchanged, Config
<1> QED BY ONLY <1>1, <1>5, <1>6, <1>7, IInv, w \in Workers, WorkerAlone

LEMMA FreeSound == ASSUME IInv, NEW w \in Workers, Free(w), quiet' = quiet PROVE IInv'
<1>1. PICK i : i = proc[w].item
  OBVIOUS
<1>2. proc[w].pc = "free" /\ Unchanged /\ proc' = [proc EXCEPT ![w] = Resting]
  BY DEF Free, Unchanged
<1>3. WorkerInv(w) /\ quiet \in BOOLEAN
  BY <1>2, WorkerFacts
<1>4. /\ Resting \in Threads /\ Resting.pc = "idle" /\ Resting.next = "idle"
      /\ Resting.item = NoItem /\ Resting.reg = FALSE
  BY DEF Resting, Threads, Pcs
<1>5. /\ ~Promises(Resting, i) /\ ~Sure(w, i) /\ proc[w].pc \notin {"idle", "check"}
      /\ UNCHANGED <<list, started, saved, added, moved, unsure, tasks>>
      /\ quiet' \in BOOLEAN /\ (quiet => quiet')
  BY <1>2, <1>3, <1>4 DEF Promises, Sure, Unchanged, Config, WorkerInv, Settling
<1> QED BY ONLY <1>1, <1>2, <1>4, <1>5, IInv, w \in Workers, WorkerAlone

(* A job ends and publishes how, or ends without a word. *)
LEMMA FinishSound == ASSUME IInv, NEW w \in Workers, Finish(w) PROVE IInv'
<1>1. proc[w].pc = "run"
  BY DEF Finish
<1>2. proc[w] \in Threads /\ WorkerInv(w) /\ quiet \in BOOLEAN
  BY <1>1, WorkerFacts
<1>3. PICK r : r = proc[w]
  OBVIOUS
<1>4. ASSUME NEW s \in Outcomes(w), Upsert(w, [proc[w] EXCEPT !.next = "free"], s),
             UNCHANGED <<added, quiet>>
      PROVE  IInv'
  <2>1. s \in Statuses /\ s # "downloading"
    BY DEF Outcomes, Statuses
  <2>2. PICK t : t = [r EXCEPT !.next = "free"]
    OBVIOUS
  <2>3. t \in Threads /\ t.item = r.item /\ t.reg = r.reg /\ t.next = "free"
    BY <1>2, <1>3, <2>2 DEF Threads
  <2>4. Upsert(w, t, s)
    BY <1>3, <1>4, <2>2
  <2> QED BY ONLY <1>1, <1>3, <1>4, <2>1, <2>3, <2>4, IInv, w \in Workers, UpsertSound
<1>5. ASSUME proc' = Go(w, "free"), quiet' = TRUE, UNCHANGED <<Config, moved, tasks>>
      PROVE  IInv'
  <2>1. PICK i : i = r.item
    OBVIOUS
  <2> DEFINE u == [r EXCEPT !.pc = "free"]
  <2>2. u \in Threads /\ u.item = i /\ u.pc = "free" /\ u.next = "idle"
    BY <1>1, <1>2, <1>3, <2>1 DEF Threads, Pcs, WorkerInv, Settling
  <2>3. proc' = [proc EXCEPT ![w] = u]
    BY <1>2, <1>3, <1>5 DEF Go
  <2> HIDE DEF u
  <2>4. /\ ~Promises(u, i) /\ proc[w].pc # "idle" /\ quiet' = TRUE /\ i = proc[w].item
        /\ UNCHANGED <<list, started, saved, added, moved, unsure, tasks>>
    BY <1>1, <1>3, <1>5, <2>1, <2>2 DEF Promises, Config
  <2> QED BY ONLY <2>2, <2>3, <2>4, IInv, w \in Workers, WorkerAlone
<1> QED BY <1>4, <1>5 DEF Finish

(* A job publishes that it downloads, at its start and while it runs. *)
LEMMA LoadedSound == ASSUME IInv, NEW w \in Workers, Loaded(w), quiet' = quiet PROVE IInv'
<1>1. PICK r : r = proc[w]
  OBVIOUS
<1>2. proc[w].pc = "loaded" /\ r \in Threads
  <2>1. proc[w].pc = "loaded"
    BY DEF Loaded
  <2> QED BY <1>1, <2>1, WorkerFacts
<1>3. PICK t : t = [r EXCEPT !.next = "register", !.force = FALSE]
  OBVIOUS
<1>4. t \in Threads /\ t.item = r.item /\ t.reg = r.reg /\ t.next = "register"
  BY <1>2, <1>3 DEF Threads
<1>5. Upsert(w, t, "downloading") /\ added' = added
  BY <1>1, <1>3 DEF Loaded
<1>6. "downloading" \in Statuses
  BY DEF Statuses
<1> QED BY ONLY <1>1, <1>2, <1>4, <1>5, <1>6, IInv, w \in Workers, quiet' = quiet, UpsertSound

LEMMA ProgressSound == ASSUME IInv, NEW w \in Workers, Progress(w), quiet' = quiet PROVE IInv'
<1>1. PICK r : r = proc[w]
  OBVIOUS
<1>2. proc[w].pc = "run" /\ r \in Threads
  <2>1. proc[w].pc = "run"
    BY DEF Progress
  <2> QED BY <1>1, <2>1, WorkerFacts
<1>3. PICK t : t = [r EXCEPT !.next = "run", !.at = @ + 1]
  OBVIOUS
<1>4. t \in Threads /\ t.item = r.item /\ t.reg = r.reg /\ t.next = "run"
  <2>1. r.at + 1 \in Nat
    BY <1>2 DEF Threads
  <2>2. t = [r EXCEPT !.next = "run", !.at = r.at + 1]
    BY <1>3
  <2> QED BY ONLY <1>2, <2>1, <2>2 DEF Threads
<1>5. Upsert(w, t, "downloading") /\ added' = added
  BY <1>1, <1>3 DEF Progress
<1>6. "downloading" \in Statuses
  BY DEF Statuses
<1> QED BY ONLY <1>1, <1>2, <1>4, <1>5, <1>6, IInv, w \in Workers, quiet' = quiet, UpsertSound

LEMMA WorkerSound == ASSUME IInv, NEW w \in Workers, WorkerStep(w) PROVE IInv'
  BY TakeSound, CheckSound, LoadedSound, RegisterSound, FinishSound, FreeSound DEF WorkerStep

(* A worker settles its queue. *)
LEMMA WorkerSettles ==
    ASSUME IInv, NEW w \in Workers, Dispatch(w) \/ Sync(w) \/ Unstart(w), quiet' = quiet
    PROVE  IInv'
<1>1. /\ TypeOK /\ AddedInv /\ started \in BOOLEAN /\ tasks \in Seq(Tasks)
      /\ Extends(tasks, tasks)
  BY DEF IInv, TypeOK, AddedInv, Extends
<1>2. CASE Dispatch(w)
  <2>1. /\ proc[w].pc = "dispatch" /\ proc' = Go(w, "sync")
        /\ UNCHANGED <<list, started, saved, added, moved, unsure>>
    BY <1>2 DEF Dispatch, Config
  <2>2. Extends(tasks', tasks)
    BY <1>1, <1>2, DispatchedExtends DEF Dispatch
  <2>3. PICK u : GoesOn(u, proc[w]) /\ Go(w, "sync") = [proc EXCEPT ![w] = u]
    BY <2>1, GoGoesOn DEF Settling
  <2> QED BY <1>1, <2>1, <2>2, <2>3, SettledSound
<1>3. CASE Sync(w)
  <2>1. /\ proc[w].pc = "sync" /\ (proc' = Go(w, "unstart") \/ proc' = Return(w))
        /\ UNCHANGED <<list, started, saved, added, moved, unsure, tasks>>
    BY <1>3 DEF Sync, Config
  <2>2. PICK u : GoesOn(u, proc[w]) /\ proc' = [proc EXCEPT ![w] = u]
    BY <2>1, GoGoesOn, ReturnGoesOn DEF Settling
  <2> QED BY <1>1, <2>1, <2>2, SettledSound
<1>4. CASE Unstart(w)
  <2>1. /\ proc[w].pc = "unstart" /\ proc' = Return(w) /\ started' = FALSE
        /\ UNCHANGED <<list, added, moved, unsure, tasks>>
        /\ saved' = saved \/ saved' = [list |-> list', started |-> started']
    BY <1>4 DEF Unstart, Saved, NotSaved
  <2>2. PICK u : GoesOn(u, proc[w]) /\ proc' = [proc EXCEPT ![w] = u]
    BY <2>1, ReturnGoesOn DEF Settling
  <2> QED BY <1>1, <2>1, <2>2, SettledSound
<1> QED BY <1>2, <1>3, <1>4

-----------------------------------------------------------------------------
(* What a step of the thread of the commands does to the threads, if it     *)
(* sets no flag, and if it sets one.                                        *)
LEMMA ControlMoves ==
    ASSUME proc \in [Procs -> Threads], NEW u \in Threads,
           proc' = [proc EXCEPT !["control"] = u]
    PROVE  /\ proc' \in [Procs -> Threads] /\ proc'["control"] = u
           /\ \A w \in Workers : Alike(w)
<1>1. "control" \in Procs /\ \A w \in Workers : w \in Procs \ {"control"}
  BY WorkersAssumption DEF Procs
<1> QED BY <1>1, OneThreadMoves

LEMMA FlagMoves ==
    ASSUME proc \in [Procs -> Threads], NEW w \in Workers, NEW u \in Threads,
           \/ proc' = [proc EXCEPT ![w].cancel = TRUE, !["control"] = u]
           \/ proc' = [proc EXCEPT !["control"] = u, ![w].cancel = TRUE]
           \/ proc["control"] = u /\ proc' = [proc EXCEPT ![w].cancel = TRUE]
           \/ proc["control"] = u /\ proc' = [proc EXCEPT ![w].pause = TRUE]
    PROVE  /\ proc' \in [Procs -> Threads] /\ proc'["control"] = u
           /\ \A v \in Workers : Alike(v)
<1>1. /\ "control" \in Procs /\ w \in Procs /\ w # "control" /\ proc[w] \in Threads
      /\ \A v \in Workers : v \in Procs \ {"control"}
  BY WorkersAssumption DEF Procs
<1>2. PICK t : t = proc[w]
  OBVIOUS
<1>3. PICK f : f = [t EXCEPT !.cancel = TRUE] \/ f = [t EXCEPT !.pause = TRUE]
  OBVIOUS
<1> DEFINE Flags(f1) == /\ f1 \in Threads /\ f1.pc = t.pc /\ f1.next = t.next /\ f1.item = t.item
                        /\ f1.say = t.say /\ f1.force = t.force /\ f1.reg = t.reg
<1>4. Flags([t EXCEPT !.cancel = TRUE]) /\ Flags([t EXCEPT !.pause = TRUE])
  BY <1>1, <1>2 DEF Threads
<1>5. \E f1 : /\ f1 = [t EXCEPT !.cancel = TRUE] \/ f1 = [t EXCEPT !.pause = TRUE]
              /\ proc' = [p \in Procs |-> IF p = w THEN f1
                                          ELSE IF p = "control" THEN u ELSE proc[p]]
  <2>1. CASE \/ proc' = [proc EXCEPT ![w].cancel = TRUE, !["control"] = u]
             \/ proc' = [proc EXCEPT !["control"] = u, ![w].cancel = TRUE]
             \/ proc["control"] = u /\ proc' = [proc EXCEPT ![w].cancel = TRUE]
    <3> WITNESS [t EXCEPT !.cancel = TRUE]
    <3> QED BY <1>1, <1>2, <2>1
  <2>2. CASE proc["control"] = u /\ proc' = [proc EXCEPT ![w].pause = TRUE]
    <3> WITNESS [t EXCEPT !.pause = TRUE]
    <3> QED BY <1>1, <1>2, <2>2
  <2> QED BY <2>1, <2>2
<1>6. PICK g : /\ g = [t EXCEPT !.cancel = TRUE] \/ g = [t EXCEPT !.pause = TRUE]
               /\ proc' = [p \in Procs |-> IF p = w THEN g
                                           ELSE IF p = "control" THEN u ELSE proc[p]]
  BY <1>5
<1>7. Flags(g)
  BY <1>4, <1>6
<1> HIDE DEF Flags
<1>8. /\ proc'["control"] = u /\ proc'[w] = g
      /\ \A v \in Workers \ {w} : proc'[v] = proc[v]
  BY <1>1, <1>6
<1>9. proc' \in [Procs -> Threads]
  BY <1>1, <1>6, <1>7 DEF Flags
<1>10. \A v \in Workers : Alike(v)
  BY <1>2, <1>7, <1>8 DEF Flags, Alike
<1> QED BY <1>8, <1>9, <1>10

(* A step of the thread of the commands, but for the resumption of what was *)
(* interrupted: what downloads after it did so before it, or is busy.       *)
LEMMA ControlGoes ==
    ASSUME IInv, TypeOK', AddedInv', OneEntryEach', ControlInv',
           added \subseteq added', unsure \subseteq unsure', quiet' = quiet,
           \A w \in Workers : Alike(w), proc["control"].pc # "resuming",
           Extends(tasks', tasks),
           \A j \in Items \ unsure' :
              /\ j \in Listed => j \in Listed' \/ \A v, x \in Publishers(j) : v = x
              /\ j \in Listed' => j \in Listed \/ Publishers(j) = {}
              /\ Appends("control", j)' => j \notin Listed' /\ Publishers(j) = {}
              /\ Downloads(j)' => Downloads(j) \/ Busy(j)'
    PROVE  IInv'
<1>1. ThreadInv'
  <2>1. \A w \in Workers : WorkerInv(w)'
    BY DEF IInv, ThreadInv, WorkerInv, Alike
  <2> QED BY <2>1 DEF ThreadInv
<1>2. SoleInv'
  <2> SUFFICES ASSUME NEW j \in Items, j \notin unsure' PROVE Sole(j)'
    BY DEF SoleInv
  <2>1. Sole(j)
    BY DEF IInv, SoleInv
  <2>2. Publishers(j)' = Publishers(j)
    <3>1. \A w \in Workers : w \in Publishers(j)' <=> w \in Publishers(j)
      BY DEF Publishers, Alike
    <3> QED BY <3>1 DEF Publishers
  <2>3. \A w \in Workers : Appends(w, j)' => Appends(w, j) /\ w \in Publishers(j)
    BY DEF Appends, Publishers, Alike
  <2>4. \A p \in Procs : Appends(p, j)' => j \notin Listed'
    BY <2>1, <2>3 DEF Sole, Procs
  <2> QED BY <2>1, <2>2, <2>4 DEF Sole
<1>3. EveryHeld'
  <2> SUFFICES ASSUME ~quiet', NEW j \in Items, j \notin unsure', Downloads(j)' PROVE Held(j)'
    BY DEF EveryHeld
  <2>1. CASE Busy(j)'
    BY <2>1 DEF Held
  <2>2. CASE Downloads(j)
    <3>1. Held(j)
      BY <2>2 DEF IInv, EveryHeld
    <3>2. Busy(j) => Busy(j)'
      BY DEF Busy, Sure, Alike, Extends
    <3>3. Coming(j) => Coming(j)'
      BY DEF Coming, Alike, Extends
    <3>4. Registered(j)' = Registered(j)
      BY DEF Registered, Alike
    <3> QED BY <3>1, <3>2, <3>3, <3>4 DEF Held
  <2> QED BY <2>1, <2>2
<1> QED BY <1>1, <1>2, <1>3 DEF IInv

(* The same for a step that leaves every entry its place and its item. *)
LEMMA ControlRestates ==
    ASSUME IInv, ControlInv', proc["control"].pc # "resuming",
           proc' \in [Procs -> Threads], \A w \in Workers : Alike(w),
           list' \in Seq(Entries), Once(list)', DOMAIN list' = DOMAIN list,
           \A n \in DOMAIN list : list'[n].item = list[n].item,
           added \subseteq added', added' \subseteq Items,
           unsure \subseteq unsure', unsure' \subseteq Items,
           moved' \subseteq Items, started' \in BOOLEAN, quiet' = quiet,
           saved' = saved \/ saved' = [list |-> list', started |-> started'],
           Extends(tasks', tasks),
           \A j \in Items \ unsure' :
              /\ Appends("control", j)' => j \notin Listed /\ Publishers(j) = {}
              /\ Downloads(j)' => Downloads(j) \/ Busy(j)'
    PROVE  IInv'
<1>1. Listed' = Listed
  BY DEF Listed
<1>2. \A n \in DOMAIN list' : list'[n].item \in added'
  BY DEF IInv, AddedInv
<1>3. quiet' \in BOOLEAN /\ tasks' \in Seq(Tasks) /\ \A k \in DOMAIN tasks' : tasks'[k].item \in added'
  BY DEF Extends, IInv, TypeOK
<1>4. TypeOK' /\ AddedInv' /\ OneEntryEach'
  BY <1>2, <1>3, PartsSound
<1> QED BY <1>1, <1>4, ControlGoes

(* What the thread of the commands does when it is not in the list. *)
LEMMA ControlFacts ==
    ASSUME IInv
    PROVE  /\ TypeOK /\ AddedInv /\ list \in Seq(Entries) /\ Once(list)
           /\ proc \in [Procs -> Threads] /\ proc["control"] \in Threads /\ "control" \in Procs
           /\ Extends(tasks, tasks) /\ ControlInv
           /\ unsure \subseteq Items /\ moved \subseteq Items /\ started \in BOOLEAN
           /\ added \subseteq Items /\ quiet \in BOOLEAN
  BY DEF IInv, TypeOK, AddedInv, ThreadInv, OneEntryEach, Extends, Procs

(* The thread of the commands goes on without a look at the list. *)
LEMMA ControlAlone ==
    ASSUME IInv, proc["control"].pc # "resuming",
           proc' \in [Procs -> Threads], \A w \in Workers : Alike(w),
           NEW u, proc'["control"] = u,
           u.pc \in {"idle", "scheduling", "stopping"} \cup (Settling \ {"append"}),
           u.next \in {"idle", "stopping"},
           list' = list, added' = added, unsure' = unsure, quiet' = quiet,
           moved' \subseteq Items, started' \in BOOLEAN,
           saved' = saved \/ saved' = [list |-> list', started |-> started'],
           Extends(tasks', tasks)
    PROVE  IInv'
<1>1. ControlInv'
  BY DEF ControlInv, Settling
<1>2. \A j \in Items \ unsure' :
         /\ Appends("control", j)' => j \notin Listed /\ Publishers(j) = {}
         /\ Downloads(j)' => Downloads(j) \/ Busy(j)'
  BY DEF Appends, Downloads, Settling
<1>3. Once(list)' /\ list' \in Seq(Entries) /\ added \subseteq added' /\ added' \subseteq Items
      /\ unsure \subseteq unsure' /\ unsure' \subseteq Items
  BY ControlFacts DEF Once
<1> QED BY <1>1, <1>2, <1>3, ControlRestates

LEMMA TellSound ==
    ASSUME IInv, Idle, quiet' = quiet, Unchanged, NEW i,
           Flagged(i, "cancel") \/ Flagged(i, "pause")
    PROVE  IInv'
<1>1. PICK c : c = proc["control"]
  OBVIOUS
<1>2. PICK w \in Workers : \/ proc' = [proc EXCEPT ![w].cancel = TRUE]
                           \/ proc' = [proc EXCEPT ![w].pause = TRUE]
  BY DEF Flagged, Registered
<1>3. /\ proc \in [Procs -> Threads] /\ c \in Threads /\ c.pc = "idle"
      /\ c.next \in {"idle", "stopping"} /\ Extends(tasks, tasks)
      /\ moved \subseteq Items /\ started \in BOOLEAN
  BY <1>1, ControlFacts DEF Idle, ControlInv
<1>4. /\ proc' \in [Procs -> Threads] /\ proc'["control"] = c
      /\ \A v \in Workers : Alike(v)
  BY ONLY <1>1, <1>2, <1>3, FlagMoves
<1>5. UNCHANGED <<list, started, saved, added, moved, unsure, tasks>>
  BY DEF Unchanged, Config
<1> QED BY <1>1, <1>3, <1>4, <1>5, ControlAlone

LEMMA SpawnSound ==
    ASSUME IInv, Idle, quiet' = quiet, NEW i \in Listed, Spawn(i) PROVE IInv'
<1>1. PICK c : c = proc["control"]
  OBVIOUS
<1>2. /\ proc \in [Procs -> Threads] /\ c.pc = "idle" /\ c.next \in {"idle", "stopping"}
      /\ Extends(tasks, tasks) /\ TypeOK /\ AddedInv
      /\ moved \subseteq Items /\ started \in BOOLEAN
  BY <1>1, ControlFacts DEF Idle, ControlInv
<1>3. /\ UNCHANGED <<list, started, saved, added, moved, unsure, proc>>
      /\ tasks' = Spawned(tasks, i, TRUE)
  BY DEF Spawn, Config
<1>4. i \in added
  BY <1>2 DEF Listed, AddedInv
<1>5. Extends(tasks', tasks)
  <2>1. Extends(Spawned(tasks, i, TRUE), tasks)
    BY ONLY <1>2, <1>4, TRUE \in BOOLEAN, SpawnedExtends
  <2> QED BY <1>3, <2>1
<1>6. proc' \in [Procs -> Threads] /\ proc'["control"] = c /\ \A w \in Workers : Alike(w)
  BY <1>1, <1>2, <1>3 DEF Alike
<1> QED BY <1>1, <1>2, <1>3, <1>5, <1>6, ControlAlone

(* A command states another status, and goes on with t. *)
LEMMA UpdateStatusSound ==
    ASSUME IInv, quiet' = quiet, proc["control"].pc # "resuming", NEW i,
           NEW s \in {"paused", "stopped"},
           NEW t \in Threads, t.pc \in {"idle", "stopping"}, t.next \in {"idle", "stopping"},
           UpdateStatus(i, s, t)
    PROVE  IInv'
<1>1. /\ list \in Seq(Entries) /\ proc \in [Procs -> Threads] /\ Extends(tasks, tasks)
      /\ unsure \subseteq Items /\ moved \subseteq Items /\ started \in BOOLEAN
      /\ added \subseteq Items
  BY ControlFacts
<1>2. PICK d : d = [t EXCEPT !.pc = "dispatch", !.next = t.pc]
  OBVIOUS
<1>3. d \in Threads /\ d.pc = "dispatch" /\ d.next \in {"idle", "stopping"}
  BY <1>2 DEF Threads, Pcs
<1>4. PICK n \in DOMAIN list : list' = [list EXCEPT ![n].status = s]
  BY DEF UpdateStatus
<1>5. PICK u \in {d, t} : proc' = [proc EXCEPT !["control"] = u]
  BY <1>2 DEF UpdateStatus
<1>6. /\ UNCHANGED <<started, added, moved, tasks, unsure>>
      /\ saved' = saved \/ saved' = [list |-> list', started |-> started']
  BY DEF UpdateStatus, Saved, NotSaved
<1>7. s \in Statuses /\ s # "downloading" /\ unsure \subseteq unsure'
  BY <1>6 DEF Statuses
<1>8. /\ list' \in Seq(Entries) /\ DOMAIN list' = DOMAIN list /\ Once(list)'
      /\ \A m \in DOMAIN list : list'[m].item = list[m].item
      /\ \A m \in DOMAIN list \ {n} : list'[m] = list[m]
      /\ list'[n].status = s
  BY ONLY <1>4, <1>7, IInv, Restated
<1>9. /\ proc' \in [Procs -> Threads] /\ proc'["control"] = u
      /\ \A w \in Workers : Alike(w)
  BY <1>1, <1>3, <1>5, ControlMoves
<1>10. ControlInv'
  BY <1>3, <1>9 DEF ControlInv, Settling
<1>11. \A j \in Items : ~Appends("control", j)' /\ (Downloads(j)' => Downloads(j))
  BY <1>3, <1>7, <1>8, <1>9 DEF Appends, Downloads
<1> QED BY <1>1, <1>6, <1>8, <1>9, <1>10, <1>11, ControlRestates

(* The first half of a restart: the entry is read. *)
LEMMA RestartSound == ASSUME IInv, Idle, quiet' = quiet, NEW i, Restart(i) PROVE IInv'
<1>1. /\ list \in Seq(Entries) /\ Once(list) /\ proc \in [Procs -> Threads]
      /\ Extends(tasks, tasks) /\ AddedInv
      /\ unsure \subseteq Items /\ moved \subseteq Items /\ started \in BOOLEAN
      /\ added \subseteq Items
  BY ControlFacts
<1>2. PICK n \in DOMAIN list :
        /\ Finds(i, n)
        /\ LET t == [Resting EXCEPT !.pc = "resetting", !.item = i, !.at = n,
                                    !.say = list[n].status]
           IN  \/ \E w \in Registered(i) :
                     proc' = [proc EXCEPT ![w].cancel = TRUE, !["control"] = t]
               \/ Registered(i) = {} /\ proc' = [proc EXCEPT !["control"] = t]
  BY DEF Restart
<1>3. PICK t : t = [Resting EXCEPT !.pc = "resetting", !.item = i, !.at = n,
                                   !.say = list[n].status]
  OBVIOUS
<1>4. /\ n \in Nat /\ list[n].item = i /\ i \in Items /\ list[n].status \in Statuses
  <2>1. n \in Nat /\ list[n] \in Entries
    BY <1>1
  <2>2. list[n].item = i
    BY <1>2 DEF Finds
  <2> QED BY <2>1, <2>2 DEF Entries
<1>5. /\ t \in Threads /\ t.pc = "resetting" /\ t.item = i /\ t.at = n
      /\ t.say = list[n].status /\ t.next = "idle"
  BY <1>3, <1>4 DEF Resting, Threads, Pcs
<1>6. /\ proc' \in [Procs -> Threads] /\ proc'["control"] = t
      /\ \A w \in Workers : Alike(w)
  <2>1. CASE proc' = [proc EXCEPT !["control"] = t]
    BY <1>1, <1>5, <2>1, ControlMoves
  <2>2. ASSUME NEW w \in Workers, proc' = [proc EXCEPT ![w].cancel = TRUE, !["control"] = t]
        PROVE  /\ proc' \in [Procs -> Threads] /\ proc'["control"] = t
               /\ \A v \in Workers : Alike(v)
    BY <1>1, <1>5, <2>2, FlagMoves
  <2> QED BY <1>2, <1>3, <2>1, <2>2 DEF Registered
<1>7. UNCHANGED <<list, started, saved, added, unsure, tasks>> /\ moved' \subseteq Items
  BY <1>1 DEF Restart, Config
<1>8. ControlInv'
  BY <1>2, <1>4, <1>5, <1>6, <1>7 DEF ControlInv
<1>9. \A j \in Items : ~Appends("control", j)' /\ (Downloads(j)' => Downloads(j))
  BY <1>5, <1>6, <1>7 DEF Appends, Downloads
<1>10. Once(list)' /\ proc["control"].pc # "resuming"
  BY <1>1, <1>7 DEF Once, Idle
<1> QED BY <1>1, <1>6, <1>7, <1>8, <1>9, <1>10, ControlRestates

(* The second half: the entry is put back and its job started, or the item *)
(* is unsure.                                                              *)
LEMMA ResetSound == ASSUME IInv, Reset, quiet' = quiet PROVE IInv'
<1>1. /\ TypeOK /\ AddedInv /\ list \in Seq(Entries) /\ proc \in [Procs -> Threads]
      /\ Extends(tasks, tasks) /\ ControlInv
      /\ unsure \subseteq Items /\ moved \subseteq Items /\ started \in BOOLEAN
      /\ added \subseteq Items
  BY ControlFacts
<1>2. PICK i, n, s : i = proc["control"].item /\ n = proc["control"].at
                     /\ s = proc["control"].say
  OBVIOUS
<1>3. /\ proc["control"].pc = "resetting" /\ list' = [list EXCEPT ![n].status = s]
      /\ UNCHANGED <<started, added, moved>> /\ proc' = [proc EXCEPT !["control"] = Resting]
      /\ saved' = saved \/ saved' = [list |-> list', started |-> started']
      /\ \/ tasks' = Spawned(tasks, i, TRUE) /\ unsure' = unsure
         \/ /\ unsure' = IF list' = list THEN unsure ELSE unsure \cup {i}
            /\ tasks' = tasks
  BY <1>2 DEF Reset, Saved, NotSaved
<1>4. n \in DOMAIN list /\ list[n].item = i /\ s \in Statuses
  BY <1>1, <1>2, <1>3 DEF ControlInv
<1>5. i \in added
  BY <1>1, <1>4 DEF AddedInv
<1>6. unsure \subseteq unsure' /\ unsure' \subseteq Items
  BY <1>1, <1>3, <1>5
<1>7. /\ list' \in Seq(Entries) /\ DOMAIN list' = DOMAIN list /\ Once(list)'
      /\ \A m \in DOMAIN list : list'[m].item = list[m].item
      /\ \A m \in DOMAIN list \ {n} : list'[m] = list[m]
      /\ list'[n].status = s
  BY ONLY <1>3, <1>4, <1>6, IInv, Restated
<1>8. Resting \in Threads /\ Resting.pc = "idle" /\ Resting.next = "idle"
  BY DEF Resting, Threads, Pcs
<1>9. /\ proc' \in [Procs -> Threads] /\ proc'["control"] = Resting
      /\ \A w \in Workers : Alike(w)
  BY <1>1, <1>3, <1>8, ControlMoves
<1>10. ControlInv'
  BY <1>8, <1>9 DEF ControlInv
<1>11. Extends(tasks', tasks) /\ (i \in unsure' \/ list' = list \/ Busy(i)')
  <2>1. CASE tasks' = Spawned(tasks, i, TRUE)
    <3>1. /\ Extends(Spawned(tasks, i, TRUE), tasks)
          /\ \E k \in DOMAIN Spawned(tasks, i, TRUE) :
                /\ Spawned(tasks, i, TRUE)[k].item = i
                /\ Spawned(tasks, i, TRUE)[k].force = TRUE
      BY ONLY <1>1, <1>5, TRUE \in BOOLEAN, SpawnedExtends
    <3> QED BY <2>1, <3>1 DEF Busy
  <2>2. CASE /\ unsure' = IF list' = list THEN unsure ELSE unsure \cup {i}
             /\ tasks' = tasks
    BY <1>1, <2>2
  <2> QED BY <1>3, <2>1, <2>2
<1>12. \A j \in Items \ unsure' :
          /\ Appends("control", j)' => j \notin Listed /\ Publishers(j) = {}
          /\ Downloads(j)' => Downloads(j) \/ Busy(j)'
  <2>1. \A j \in Items : ~Appends("control", j)'
    BY <1>8, <1>9 DEF Appends
  <2>2. ASSUME NEW j \in Items \ unsure', Downloads(j)' PROVE Downloads(j) \/ Busy(j)'
    <3>1. CASE j = i
      <4>1. list' = list => Downloads(j)
        BY <2>2 DEF Downloads
      <4> QED BY <1>11, <2>2, <3>1, <4>1
    <3>2. CASE j # i
      BY <1>4, <1>7, <2>2, <3>2 DEF Downloads
    <3> QED BY <3>1, <3>2
  <2> QED BY <2>1, <2>2
<1> QED BY <1>1, <1>3, <1>6, <1>7, <1>9, <1>10, <1>11, <1>12, ControlRestates

(* An entry is taken from the list. *)
LEMMA Removed ==
    ASSUME IInv, NEW n \in DOMAIN list, list' = Without(n), unsure \subseteq unsure'
    PROVE  /\ list' \in Seq(Entries) /\ Once(list)'
           /\ \A k \in DOMAIN list' : \E m \in DOMAIN list : list'[k] = list[m]
           /\ \A m \in DOMAIN list \ {n} : \E k \in DOMAIN list' : list'[k] = list[m]
<1> DEFINE from(k) == IF k < n THEN k ELSE k + 1
           len == Len(list)
<1>1. /\ list \in Seq(Entries) /\ Once(list) /\ len \in Nat /\ len - 1 \in Nat
      /\ n \in 1..len /\ DOMAIN list = 1..len
  BY ControlFacts
<1>2. \A k \in 1..(len - 1) : from(k) \in DOMAIN list
  BY <1>1
<1>3. list' = [k \in 1..(len - 1) |-> list[from(k)]]
  BY <1>1 DEF Without
<1>4. /\ list' \in Seq(Entries) /\ DOMAIN list' = 1..(len - 1)
      /\ \A k \in 1..(len - 1) : list'[k] = list[from(k)]
  <2> HIDE DEF from, len
  <2>1. \A e \in DOMAIN list : list[e] \in Entries
    BY <1>1
  <2> QED BY <1>1, <1>2, <1>3, <2>1
<1>5. \A j, k \in 1..(len - 1) : from(j) = from(k) => j = k
  BY <1>1
<1>6. Once(list)'
  <2> SUFFICES ASSUME NEW j \in DOMAIN list', NEW k \in DOMAIN list', j # k,
                      list'[j].item = list'[k].item
               PROVE  list'[j].item \in unsure'
    BY DEF Once
  <2>1. from(j) # from(k) /\ from(j) \in DOMAIN list /\ from(k) \in DOMAIN list
        /\ list'[j] = list[from(j)] /\ list'[k] = list[from(k)]
    BY <1>2, <1>4, <1>5
  <2> HIDE DEF from
  <2> QED BY <1>1, <2>1 DEF Once
<1>7. \A m \in DOMAIN list \ {n} : \E k \in 1..(len - 1) : from(k) = m
  <2> TAKE m \in DOMAIN list \ {n}
  <2>1. CASE m < n
    <3>1. m \in 1..(len - 1) /\ from(m) = m
      BY <1>1, <2>1
    <3> HIDE DEF from
    <3> QED BY <3>1
  <2>2. CASE ~(m < n)
    <3>1. m - 1 \in 1..(len - 1) /\ from(m - 1) = m
      BY <1>1, <2>2
    <3> HIDE DEF from
    <3> QED BY <3>1
  <2> QED BY <2>1, <2>2
<1> HIDE DEF from
<1> QED BY <1>2, <1>4, <1>6, <1>7

LEMMA RemoveSound == ASSUME IInv, Idle, quiet' = quiet, NEW i \in Items, Remove(i) PROVE IInv'
<1>1. PICK c : c = proc["control"]
  OBVIOUS
<1>2. /\ TypeOK /\ AddedInv /\ list \in Seq(Entries) /\ proc \in [Procs -> Threads]
      /\ Extends(tasks, tasks) /\ c \in Threads /\ c.pc = "idle"
      /\ c.next \in {"idle", "stopping"}
      /\ unsure \subseteq Items /\ moved \subseteq Items /\ started \in BOOLEAN
      /\ added \subseteq Items /\ quiet \in BOOLEAN
  BY <1>1, ControlFacts DEF Idle, ControlInv
<1>3. /\ UNCHANGED <<started, added, tasks>> /\ moved' \subseteq Items
      /\ saved' = saved \/ saved' = [list |-> list', started |-> started']
      /\ unsure' = IF \E v, w \in Publishers(i) : v # w THEN unsure \cup {i} ELSE unsure
      /\ Flagged(i, "cancel") \/ proc' = proc
  BY <1>2 DEF Remove, Saved, NotSaved
<1>4. PICK n \in DOMAIN list : list[n].item = i /\ list' = Without(n)
  BY DEF Remove, Finds
<1>5. unsure \subseteq unsure' /\ unsure' \subseteq Items
  BY <1>2, <1>3
<1>6. /\ list' \in Seq(Entries) /\ Once(list)'
      /\ \A k \in DOMAIN list' : \E m \in DOMAIN list : list'[k] = list[m]
      /\ \A m \in DOMAIN list \ {n} : \E k \in DOMAIN list' : list'[k] = list[m]
  BY ONLY <1>4, <1>5, IInv, Removed
<1>7. /\ proc' \in [Procs -> Threads] /\ proc'["control"] = c
      /\ \A v \in Workers : Alike(v)
  <2>1. CASE proc' = proc
    BY <1>1, <1>2, <2>1 DEF Alike
  <2>2. CASE Flagged(i, "cancel")
    <3>1. PICK w \in Workers : proc' = [proc EXCEPT ![w].cancel = TRUE]
      BY <2>2 DEF Flagged, Registered
    <3> QED BY ONLY <1>1, <1>2, <3>1, FlagMoves
  <2> QED BY <1>3, <2>1, <2>2
<1>8. TypeOK' /\ AddedInv' /\ OneEntryEach'
  <2>1. \A k \in DOMAIN list' : list'[k].item \in added'
    BY <1>2, <1>3, <1>6 DEF AddedInv
  <2>2. tasks' \in Seq(Tasks) /\ \A k \in DOMAIN tasks' : tasks'[k].item \in added'
    BY <1>2, <1>3 DEF Extends
  <2>3. added \subseteq added' /\ added' \subseteq Items /\ started' \in BOOLEAN
        /\ quiet' \in BOOLEAN /\ moved' \subseteq Items
    BY <1>2, <1>3
  <2> QED BY ONLY <1>3, <1>5, <1>6, <1>7, <2>1, <2>2, <2>3, IInv, PartsSound
<1>9. ControlInv'
  BY <1>2, <1>7 DEF ControlInv
<1>10. \A j \in Items \ unsure' :
          /\ j \in Listed => j \in Listed' \/ \A v, x \in Publishers(j) : v = x
          /\ j \in Listed' => j \in Listed \/ Publishers(j) = {}
          /\ Appends("control", j)' => j \notin Listed' /\ Publishers(j) = {}
          /\ Downloads(j)' => Downloads(j) \/ Busy(j)'
  <2> TAKE j \in Items \ unsure'
  <2>1. j \in Listed => j \in Listed' \/ \A v, x \in Publishers(j) : v = x
    <3>1. CASE j = i
      BY <1>3, <3>1
    <3>2. CASE j # i
      BY <1>4, <1>6, <3>2 DEF Listed
    <3> QED BY <3>1, <3>2
  <2>2. j \in Listed' => j \in Listed
    BY <1>6 DEF Listed
  <2>3. ~Appends("control", j)'
    BY <1>2, <1>7 DEF Appends
  <2>4. Downloads(j)' => Downloads(j)
    BY <1>6 DEF Downloads
  <2> QED BY <2>1, <2>2, <2>3, <2>4
<1>11. added \subseteq added' /\ Extends(tasks', tasks) /\ proc["control"].pc # "resuming"
  BY <1>1, <1>2, <1>3
<1> QED BY ONLY <1>5, <1>7, <1>8, <1>9, <1>10, <1>11, IInv, quiet' = quiet, ControlGoes

(* An item is added, or queued again. *)
LEMMA AddSound == ASSUME IInv, Idle, quiet' = quiet, NEW i \in Items, Add(i) PROVE IInv'
<1>1. /\ TypeOK /\ AddedInv /\ list \in Seq(Entries) /\ Once(list)
      /\ proc \in [Procs -> Threads] /\ Extends(tasks, tasks)
      /\ unsure \subseteq Items /\ moved \subseteq Items /\ started \in BOOLEAN
      /\ added \subseteq Items
  BY ControlFacts
<1>2. CASE Die
  BY <1>2, DieSound
<1>3. CASE /\ i \notin added \/ \E n \in DOMAIN list : list[n].item = i
           /\ added' = added \cup {i}
           /\ Upsert("control", [Resting EXCEPT !.item = i], "queued")
  <2>1. PICK t : t = [Resting EXCEPT !.item = i]
    OBVIOUS
  <2>2. PICK d : d = [t EXCEPT !.pc = "dispatch"]
    OBVIOUS
  <2>3. PICK a : a = [t EXCEPT !.pc = "append", !.say = "queued"]
    OBVIOUS
  <2>4. /\ t.item = i
        /\ d \in Threads /\ d.pc = "dispatch" /\ d.next = "idle"
        /\ a \in Threads /\ a.pc = "append" /\ a.next = "idle" /\ a.item = i
        /\ a.say = "queued"
    BY <2>1, <2>2, <2>3 DEF Resting, Threads, Pcs, Statuses
  <2>5. Upsert("control", t, "queued")
    BY <1>3, <2>1
  <2>6. /\ UNCHANGED <<started, tasks>> /\ moved' \subseteq Items
        /\ added \subseteq added' /\ added' \subseteq Items /\ i \in added'
        /\ started' \in BOOLEAN /\ Extends(tasks', tasks)
    <3>1. moved' = moved \cup {i} \/ moved' = moved \ {i}
      BY <2>4, <2>5 DEF Upsert
    <3>2. UNCHANGED <<started, tasks>>
      BY <2>5 DEF Upsert
    <3> QED BY <1>1, <1>3, <3>1, <3>2
  <2>7. ASSUME NEW n \in DOMAIN list, Finds(i, n), list' = [list EXCEPT ![n].status = "queued"],
               \/ proc' = [proc EXCEPT !["control"] = d] /\ Saved /\ unsure' = unsure
               \/ /\ proc' = [proc EXCEPT !["control"] = a]
                  /\ NotSaved /\ unsure' = unsure \cup {i}
        PROVE  IInv'
    <3>1. unsure \subseteq unsure' /\ unsure' \subseteq Items
      BY <1>1, <2>7
    <3>2. "queued" \in Statuses
      BY DEF Statuses
    <3>3. /\ list' \in Seq(Entries) /\ DOMAIN list' = DOMAIN list /\ Once(list)'
          /\ \A m \in DOMAIN list : list'[m].item = list[m].item
          /\ \A m \in DOMAIN list \ {n} : list'[m] = list[m]
          /\ list'[n].status = "queued"
      BY ONLY <2>7, <3>1, <3>2, IInv, Restated
    <3>4. saved' = saved \/ saved' = [list |-> list', started |-> started']
      BY <2>7 DEF Saved, NotSaved
    <3>5. \A j \in Items : Downloads(j)' => Downloads(j)
      BY <3>3 DEF Downloads
    <3>6. PICK u \in {d, a} : /\ proc' = [proc EXCEPT !["control"] = u]
                              /\ u = a => i \in unsure'
      <4>1. CASE proc' = [proc EXCEPT !["control"] = d] /\ unsure' = unsure
        <5>1. d # a
          BY <2>4
        <5> QED BY <4>1, <5>1
      <4>2. CASE proc' = [proc EXCEPT !["control"] = a] /\ unsure' = unsure \cup {i}
        BY <4>2
      <4> QED BY <2>7, <4>1, <4>2
    <3>7. /\ proc' \in [Procs -> Threads] /\ proc'["control"] = u
          /\ \A w \in Workers : Alike(w)
      BY <1>1, <2>4, <3>6, ControlMoves
    <3>8. ControlInv'
      BY <2>4, <2>6, <3>6, <3>7 DEF ControlInv, Settling
    <3>9. \A j \in Items \ unsure' :
             /\ Appends("control", j)' => j \notin Listed /\ Publishers(j) = {}
             /\ Downloads(j)' => Downloads(j) \/ Busy(j)'
      <4>1. \A j \in Items \ unsure' : ~Appends("control", j)'
        BY <2>4, <3>6, <3>7 DEF Appends
      <4> QED BY <3>5, <4>1
    <3>10. proc["control"].pc # "resuming"
      BY DEF Idle
    <3> QED BY ONLY <2>6, <3>1, <3>3, <3>4, <3>7, <3>8, <3>9, <3>10, IInv, quiet' = quiet,
               ControlRestates
  <2>8. CASE /\ i \notin Listed /\ list' = list /\ proc' = [proc EXCEPT !["control"] = a]
             /\ UNCHANGED <<saved, failures, unsure>>
    <3>1. i \notin added
      BY <1>3, <2>8 DEF Listed
    <3>2. Publishers(i) = {}
      BY <3>1, PublishersAdded
    <3>3. /\ proc' \in [Procs -> Threads] /\ proc'["control"] = a
          /\ \A w \in Workers : Alike(w)
      BY <1>1, <2>4, <2>8, ControlMoves
    <3>4. ControlInv'
      BY <2>4, <2>6, <3>3 DEF ControlInv, Settling
    <3>5. \A j \in Items \ unsure' :
             /\ Appends("control", j)' => j \notin Listed /\ Publishers(j) = {}
             /\ Downloads(j)' => Downloads(j) \/ Busy(j)'
      BY <2>4, <2>8, <3>2, <3>3 DEF Appends, Downloads
    <3>6. /\ list' \in Seq(Entries) /\ Once(list)' /\ DOMAIN list' = DOMAIN list
          /\ \A n \in DOMAIN list : list'[n].item = list[n].item
          /\ unsure \subseteq unsure' /\ unsure' \subseteq Items
          /\ saved' = saved /\ proc["control"].pc # "resuming"
      BY <1>1, <2>8 DEF Once, Idle
    <3> QED BY ONLY <2>6, <3>3, <3>4, <3>5, <3>6, IInv, quiet' = quiet, ControlRestates
  <2> QED BY <2>2, <2>3, <2>4, <2>5, <2>7, <2>8 DEF Upsert
<1> QED BY <1>2, <1>3 DEF Add

(* What follows the settling of the queue by a command. *)
LEMMA ControlReturns ==
    ASSUME IInv, proc["control"].pc \in Settling
    PROVE  \E u \in Threads : /\ Return("control") = [proc EXCEPT !["control"] = u]
                              /\ u.pc \in {"idle", "stopping"} /\ u.next = "idle"
<1>1. PICK t : t = proc["control"]
  OBVIOUS
<1>2. t \in Threads /\ t.next \in {"idle", "stopping"} /\ proc \in [Procs -> Threads]
      /\ "control" \in Procs
  BY <1>1, ControlFacts DEF ControlInv
<1>3. CASE t.next = "idle"
  <2>1. Resting \in Threads /\ Resting.pc = "idle" /\ Resting.next = "idle"
    BY DEF Resting, Threads, Pcs
  <2>2. Return("control") = [proc EXCEPT !["control"] = Resting]
    BY <1>1, <1>3 DEF Return
  <2> QED BY <2>1, <2>2
<1>4. CASE t.next = "stopping"
  <2> DEFINE u == [t EXCEPT !.pc = t.next, !.next = "idle", !.say = "none"]
  <2>1. u \in Threads /\ u.pc = "stopping" /\ u.next = "idle"
    BY <1>2, <1>4 DEF Threads, Pcs
  <2>2. Return("control") = [proc EXCEPT !["control"] = u]
    BY <1>1, <1>4 DEF Return
  <2> HIDE DEF u
  <2> QED BY <2>1, <2>2
<1> QED BY <1>2, <1>3, <1>4

(* A command appends an entry, for an item that nobody else publishes. *)
LEMMA ControlAppends ==
    ASSUME IInv, AppendEntry("control"), quiet' = quiet PROVE IInv'
<1>1. PICK c : c = proc["control"]
  OBVIOUS
<1>2. PICK i : i = c.item
  OBVIOUS
<1>3. /\ TypeOK /\ AddedInv /\ list \in Seq(Entries) /\ proc \in [Procs -> Threads]
      /\ "control" \in Procs /\ Extends(tasks, tasks) /\ c \in Threads /\ ControlInv
      /\ unsure \subseteq Items /\ moved \subseteq Items /\ started \in BOOLEAN
      /\ added \subseteq Items /\ quiet \in BOOLEAN
  BY <1>1, ControlFacts
<1>4. c.pc = "append" /\ c.pc \in Settling /\ c.pc # "resuming"
  BY <1>1 DEF AppendEntry, Settling
<1>5. c.next \in {"idle", "stopping"} /\ i \in added /\ c.say = "queued"
  BY <1>1, <1>2, <1>3, <1>4 DEF ControlInv
<1>6. /\ list' = Append(list, Entry(i, "queued"))
      /\ UNCHANGED <<started, added, moved, tasks, unsure>>
      /\ saved' = saved \/ saved' = [list |-> list', started |-> started']
      /\ \/ proc' = [proc EXCEPT !["control"].pc = "dispatch", !["control"].say = "none"]
         \/ proc' = Return("control")
  BY <1>1, <1>2, <1>5 DEF AppendEntry, Saved, NotSaved
<1>7. i \in unsure \/ (i \notin Listed /\ Publishers(i) = {})
  <2>1. Appends("control", i)
    BY <1>1, <1>2, <1>4 DEF Appends
  <2> QED BY <1>3, <1>5, <2>1 DEF IInv, SoleInv, Sole
<1>8. "queued" \in Statuses /\ (i \in unsure \/ i \notin Listed) /\ unsure' = unsure
  BY <1>6, <1>7 DEF Statuses
<1>9. /\ list' \in Seq(Entries) /\ Once(list)'
      /\ \A n \in DOMAIN list : n \in DOMAIN list' /\ list'[n] = list[n]
      /\ \A n \in DOMAIN list' :
            n \in DOMAIN list \/ (list'[n].item = i /\ list'[n].status = "queued")
      /\ \A n \in DOMAIN list' : list'[n].item \in added
  BY ONLY <1>5, <1>6, <1>8, IInv, Appended
<1>10. PICK u \in Threads : /\ proc' = [proc EXCEPT !["control"] = u]
                            /\ u.pc \in {"idle", "stopping", "dispatch"}
                            /\ u.next \in {"idle", "stopping"}
  <2>1. CASE proc' = [proc EXCEPT !["control"].pc = "dispatch", !["control"].say = "none"]
    <3>1. PICK u : u = [c EXCEPT !.pc = "dispatch", !.say = "none"]
      OBVIOUS
    <3>2. u \in Threads /\ u.pc = "dispatch" /\ u.next = c.next
      BY <1>3, <3>1 DEF Threads, Pcs
    <3>3. proc' = [proc EXCEPT !["control"] = u]
      BY <1>1, <1>3, <2>1, <3>1
    <3> QED BY <1>5, <3>2, <3>3
  <2>2. CASE proc' = Return("control")
    BY <1>1, <1>4, <2>2, ControlReturns
  <2> QED BY <1>6, <2>1, <2>2
<1>11. /\ proc' \in [Procs -> Threads] /\ proc'["control"] = u
       /\ \A w \in Workers : Alike(w)
  BY <1>3, <1>10, ControlMoves
<1>12. TypeOK' /\ AddedInv' /\ OneEntryEach'
  <2>1. tasks' \in Seq(Tasks) /\ \A k \in DOMAIN tasks' : tasks'[k].item \in added'
    BY <1>3, <1>6 DEF Extends
  <2>2. unsure \subseteq unsure' /\ unsure' \subseteq Items /\ added \subseteq added'
        /\ added' \subseteq Items /\ moved' \subseteq Items /\ started' \in BOOLEAN
        /\ quiet' \in BOOLEAN /\ \A n \in DOMAIN list' : list'[n].item \in added'
    BY <1>3, <1>6, <1>9
  <2> QED BY ONLY <1>6, <1>9, <1>11, <2>1, <2>2, IInv, PartsSound
<1>13. ControlInv'
  BY <1>10, <1>11 DEF ControlInv, Settling
<1>14. \A j \in Items \ unsure' :
          /\ j \in Listed => j \in Listed' \/ \A v, x \in Publishers(j) : v = x
          /\ j \in Listed' => j \in Listed \/ Publishers(j) = {}
          /\ Appends("control", j)' => j \notin Listed' /\ Publishers(j) = {}
          /\ Downloads(j)' => Downloads(j) \/ Busy(j)'
  <2> TAKE j \in Items \ unsure'
  <2>1. j \in Listed => j \in Listed'
    BY <1>9 DEF Listed
  <2>2. j \in Listed' => j \in Listed \/ Publishers(j) = {}
    BY <1>6, <1>7, <1>9 DEF Listed
  <2>3. ~Appends("control", j)'
    BY <1>10, <1>11 DEF Appends
  <2>4. Downloads(j)' => Downloads(j)
    BY <1>9 DEF Downloads
  <2> QED BY <2>1, <2>2, <2>3, <2>4
<1>15. added \subseteq added' /\ unsure \subseteq unsure' /\ Extends(tasks', tasks)
       /\ proc["control"].pc # "resuming"
  BY <1>1, <1>3, <1>4, <1>6
<1> QED BY ONLY <1>11, <1>12, <1>13, <1>14, <1>15, IInv, quiet' = quiet, ControlGoes

(* A command settles the queue, or starts it. *)
LEMMA ControlSettles ==
    ASSUME IInv, Dispatch("control") \/ Sync("control") \/ Unstart("control") \/ Scheduling,
           quiet' = quiet
    PROVE  IInv'
<1>1. PICK c : c = proc["control"]
  OBVIOUS
<1>2. /\ TypeOK /\ AddedInv /\ proc \in [Procs -> Threads] /\ c \in Threads
      /\ "control" \in Procs /\ Extends(tasks, tasks) /\ c.next \in {"idle", "stopping"}
      /\ moved \subseteq Items /\ started \in BOOLEAN
  BY <1>1, ControlFacts DEF ControlInv
<1>3. \A pc \in {"sync", "unstart", "idle"} :
         \E u \in Threads : /\ Go("control", pc) = [proc EXCEPT !["control"] = u]
                            /\ u.pc = pc /\ u.next = c.next
  <2> TAKE pc \in {"sync", "unstart", "idle"}
  <2>1. PICK u : u = [c EXCEPT !.pc = pc]
    OBVIOUS
  <2>2. u \in Threads /\ u.pc = pc /\ u.next = c.next
    BY <1>2, <2>1 DEF Threads, Pcs
  <2>3. Go("control", pc) = [proc EXCEPT !["control"] = u]
    BY <1>1, <1>2, <2>1 DEF Go
  <2> QED BY <2>2, <2>3
<1>4. /\ c.pc \in {"dispatch", "sync", "unstart", "scheduling"}
      /\ c.pc # "scheduling" => c.pc \in Settling
      /\ \/ c.pc # "scheduling" /\ proc' = Return("control")
         \/ \E pc \in {"sync", "unstart", "idle"} : proc' = Go("control", pc)
  BY <1>1 DEF Dispatch, Sync, Unstart, Scheduling, Settling
<1>5. PICK u \in Threads : /\ proc' = [proc EXCEPT !["control"] = u]
                           /\ u.pc \in {"idle", "stopping", "sync", "unstart"}
                           /\ u.next \in {"idle", "stopping"}
  BY <1>1, <1>2, <1>3, <1>4, ControlReturns
<1>6. /\ proc' \in [Procs -> Threads] /\ proc'["control"] = u
      /\ \A w \in Workers : Alike(w)
  BY <1>2, <1>5, ControlMoves
<1>7. Extends(tasks', tasks)
  <2>1. tasks' = tasks \/ tasks' = Dispatched
    BY DEF Dispatch, Sync, Unstart, Scheduling
  <2> QED BY <1>2, <2>1, DispatchedExtends
<1>8. /\ UNCHANGED <<list, added, moved, unsure>> /\ started' \in BOOLEAN
      /\ saved' = saved \/ saved' = [list |-> list', started |-> started']
  BY <1>2 DEF Dispatch, Sync, Unstart, Scheduling, Config, Saved, NotSaved
<1>9. u.pc \in {"idle", "scheduling", "stopping"} \cup (Settling \ {"append"})
      /\ proc["control"].pc # "resuming" /\ moved' \subseteq Items
  BY <1>1, <1>2, <1>4, <1>5, <1>8 DEF Settling
<1> QED BY ONLY <1>5, <1>6, <1>7, <1>8, <1>9, IInv, quiet' = quiet, ControlAlone

LEMMA QueueStartSound == ASSUME IInv, Idle, quiet' = quiet, QueueStart PROVE IInv'
<1>1. PICK c : c = proc["control"]
  OBVIOUS
<1>2. /\ proc \in [Procs -> Threads] /\ c \in Threads /\ c.pc = "idle"
      /\ "control" \in Procs /\ Extends(tasks, tasks) /\ c.next \in {"idle", "stopping"}
      /\ moved \subseteq Items
  BY <1>1, ControlFacts DEF ControlInv, Idle
<1>3. PICK g : g = [c EXCEPT !.pc = "scheduling"]
  OBVIOUS
<1>4. g \in Threads /\ g.pc = "scheduling" /\ g.next = c.next
  BY <1>2, <1>3 DEF Threads, Pcs
<1>5. proc' = [proc EXCEPT !["control"] = g] \/ proc' = [proc EXCEPT !["control"] = c]
  BY <1>1, <1>2, <1>3 DEF QueueStart, Go
<1>6. PICK u \in {g, c} : proc' = [proc EXCEPT !["control"] = u]
  BY <1>5
<1>7. /\ proc' \in [Procs -> Threads] /\ proc'["control"] = u
      /\ \A w \in Workers : Alike(w)
  BY <1>2, <1>4, <1>6, ControlMoves
<1>8. /\ UNCHANGED <<list, added, moved, tasks, unsure>> /\ started' \in BOOLEAN
      /\ saved' = saved \/ saved' = [list |-> list', started |-> started']
  BY DEF QueueStart, Saved, NotSaved
<1>9. /\ u.pc \in {"idle", "scheduling", "stopping"} \cup (Settling \ {"append"})
      /\ u.next \in {"idle", "stopping"} /\ proc["control"].pc # "resuming"
      /\ moved' \subseteq Items /\ Extends(tasks', tasks)
  BY <1>1, <1>2, <1>4, <1>6, <1>8
<1> QED BY ONLY <1>7, <1>8, <1>9, IInv, quiet' = quiet, ControlAlone

LEMMA QueueStopSound == ASSUME IInv, Idle, quiet' = quiet, QueueStop PROVE IInv'
<1>1. /\ proc \in [Procs -> Threads] /\ Extends(tasks, tasks) /\ list \in Seq(Entries)
      /\ moved \subseteq Items /\ started \in BOOLEAN
  BY ControlFacts
<1> DEFINE u == [Resting EXCEPT !.pc = "stopping", !.at = 1, !.last = Len(list)]
<1>2. u \in Threads /\ u.pc = "stopping" /\ u.next = "idle"
  <2>1. PICK len : len = Len(list)
    OBVIOUS
  <2>2. len \in Nat
    BY <1>1, <2>1
  <2> QED BY ONLY <2>1, <2>2 DEF Resting, Threads, Pcs
<1>3. proc' = [proc EXCEPT !["control"] = u] /\ Unchanged
  BY DEF QueueStop
<1> HIDE DEF u
<1>4. /\ proc' \in [Procs -> Threads] /\ proc'["control"] = u
      /\ \A w \in Workers : Alike(w)
  BY <1>1, <1>2, <1>3, ControlMoves
<1>5. /\ UNCHANGED <<list, started, saved, added, moved, unsure, tasks>>
      /\ moved' \subseteq Items /\ started' \in BOOLEAN /\ Extends(tasks', tasks)
      /\ proc["control"].pc # "resuming"
  BY <1>1, <1>3 DEF Unchanged, Config, Idle
<1> QED BY <1>2, <1>4, <1>5, ControlAlone

(* The walk through the list goes on to the next position. *)
LEMMA OnwardMoves ==
    ASSUME IInv
    PROVE  /\ Onward \in Threads
           /\ Onward.pc = proc["control"].pc /\ Onward.next = proc["control"].next
           /\ Onward.at = proc["control"].at + 1 /\ Onward.last = proc["control"].last
<1>1. PICK c : c = proc["control"]
  OBVIOUS
<1>2. c \in Threads /\ c.at + 1 \in Nat
  BY <1>1, ControlFacts DEF Threads
<1>3. PICK at : at = c.at + 1
  OBVIOUS
<1>4. Onward = [c EXCEPT !.at = at]
  BY <1>1, <1>2, <1>3 DEF Onward, Threads
<1> QED BY ONLY <1>1, <1>2, <1>3, <1>4 DEF Threads

LEMMA StoppingSound == ASSUME IInv, Stopping, quiet' = quiet PROVE IInv'
<1>1. /\ proc["control"].pc = "stopping" /\ proc \in [Procs -> Threads]
      /\ proc["control"].next \in {"idle", "stopping"} /\ Extends(tasks, tasks)
      /\ moved \subseteq Items /\ started \in BOOLEAN
  BY ControlFacts DEF Stopping, ControlInv
<1>2. PICK on : on = Onward
  OBVIOUS
<1>3. on \in Threads /\ on.pc = "stopping" /\ on.next \in {"idle", "stopping"}
  BY <1>1, <1>2, OnwardMoves
<1>4. ASSUME NEW u \in Threads, u.pc \in {"idle", "stopping", "unstart"},
             u.next \in {"idle", "stopping"},
             \/ proc' = [proc EXCEPT !["control"] = u]
             \/ \E w \in Workers : proc' = [proc EXCEPT !["control"] = u, ![w].cancel = TRUE],
             Unchanged
      PROVE  IInv'
  <2>1. /\ proc' \in [Procs -> Threads] /\ proc'["control"] = u
        /\ \A w \in Workers : Alike(w)
    <3>1. CASE proc' = [proc EXCEPT !["control"] = u]
      BY <1>1, <1>4, <3>1, ControlMoves
    <3>2. ASSUME NEW w \in Workers, proc' = [proc EXCEPT !["control"] = u, ![w].cancel = TRUE]
          PROVE  /\ proc' \in [Procs -> Threads] /\ proc'["control"] = u
                 /\ \A v \in Workers : Alike(v)
      BY <1>1, <1>4, <3>2, FlagMoves
    <3> QED BY <1>4, <3>1, <3>2
  <2>2. /\ UNCHANGED <<list, started, saved, added, moved, unsure, tasks>>
        /\ moved' \subseteq Items /\ started' \in BOOLEAN /\ Extends(tasks', tasks)
        /\ proc["control"].pc # "resuming"
        /\ u.pc \in {"idle", "scheduling", "stopping"} \cup (Settling \ {"append"})
    BY <1>1, <1>4 DEF Unchanged, Config, Settling
  <2> QED BY ONLY <1>4, <2>1, <2>2, IInv, quiet' = quiet, ControlAlone
<1>5. CASE /\ proc' = [proc EXCEPT !["control"] = [Resting EXCEPT !.pc = "unstart"]]
           /\ Unchanged
  <2> DEFINE u == [Resting EXCEPT !.pc = "unstart"]
  <2>1. u \in Threads /\ u.pc = "unstart" /\ u.next = "idle"
    BY DEF Resting, Threads, Pcs
  <2>2. proc' = [proc EXCEPT !["control"] = u] /\ Unchanged
    BY <1>5
  <2> HIDE DEF u
  <2> QED BY <1>4, <2>1, <2>2
<1>6. CASE proc' = [proc EXCEPT !["control"] = on] /\ Unchanged
  BY <1>3, <1>4, <1>6
<1>7. ASSUME NEW w \in Workers, proc' = [proc EXCEPT !["control"] = on, ![w].cancel = TRUE],
             Unchanged
      PROVE  IInv'
  BY <1>3, <1>4, <1>7
<1>8. ASSUME NEW e, UpdateStatus(e.item, "stopped", on) PROVE IInv'
  <2>1. PICK i : i = e.item
    OBVIOUS
  <2>2. UpdateStatus(i, "stopped", on) /\ proc["control"].pc # "resuming"
    BY <1>1, <1>8, <2>1
  <2> QED BY ONLY <1>3, <2>2, IInv, quiet' = quiet, UpdateStatusSound
<1> QED BY <1>2, <1>5, <1>6, <1>7, <1>8, Zenon DEF Stopping, Registered

(* The resumption of interrupted downloads reaches the next entry: if it    *)
(* says that it downloads, a task takes over from the resumption.           *)
LEMMA ResumingSound == ASSUME IInv, Resuming, quiet' = quiet PROVE IInv'
<1>1. PICK c : c = proc["control"]
  OBVIOUS
<1>2. /\ TypeOK /\ AddedInv /\ list \in Seq(Entries) /\ Once(list)
      /\ proc \in [Procs -> Threads] /\ "control" \in Procs /\ Extends(tasks, tasks)
      /\ c \in Threads /\ c.next \in {"idle", "stopping"} /\ c.pc = "resuming"
      /\ c.at \in Nat /\ c.last \in Nat /\ quiet \in BOOLEAN
  <2>1. c \in Threads /\ c.at \in Nat /\ c.last \in Nat
    BY <1>1, ControlFacts DEF Threads
  <2> QED BY <1>1, <2>1, ControlFacts DEF ControlInv, Resuming
<1>3. UNCHANGED <<list, started, saved, failures, added, moved, unsure>>
  BY DEF Resuming, Config
<1> DEFINE wanted == \E e \in Here : Resumes(e.status)
<1>4. \/ /\ c.at > c.last /\ tasks' = tasks
         /\ proc' = [proc EXCEPT !["control"] = Resting]
      \/ /\ c.at <= c.last /\ proc' = [proc EXCEPT !["control"] = Onward]
         /\ tasks' = IF wanted THEN Spawned(tasks, list[c.at].item, FALSE) ELSE tasks
  <2>1. CASE c.at > c.last
    BY <1>1, <2>1 DEF Resuming
  <2>2. CASE ~(c.at > c.last)
    <3>1. c.at <= c.last
      BY <1>2, <2>2
    <3> QED BY <1>1, <2>2, <3>1, Zenon DEF Resuming
  <2> QED BY <2>1, <2>2
<1>5. /\ Extends(tasks', tasks)
      /\ c.at <= c.last /\ wanted /\ Registered(list[c.at].item) = {} =>
            \E k \in DOMAIN tasks' : tasks'[k].item = list[c.at].item
  <2>1. CASE c.at <= c.last /\ wanted
    <3>1. PICK i : i = list[c.at].item
      OBVIOUS
    <3>2. i \in added
      BY <1>1, <1>2, <2>1, <3>1 DEF Here, AddedInv
    <3>3. tasks' = Spawned(tasks, i, FALSE)
      <4>1. ~(c.at > c.last)
        BY <1>2, <2>1
      <4> HIDE DEF wanted
      <4> QED BY ONLY <1>4, <2>1, <3>1, <4>1
    <3>4. PICK f \in BOOLEAN : f = FALSE
      OBVIOUS
    <3>5. /\ Extends(Spawned(tasks, i, f), tasks)
          /\ f \/ Registered(i) = {} =>
                \E k \in DOMAIN Spawned(tasks, i, f) :
                   Spawned(tasks, i, f)[k].item = i /\ Spawned(tasks, i, f)[k].force = f
      BY ONLY <1>2, <3>2, SpawnedExtends
    <3> HIDE DEF wanted
    <3> QED BY ONLY <3>1, <3>3, <3>4, <3>5
  <2>2. CASE ~(c.at <= c.last /\ wanted)
    BY <1>2, <1>4, <2>2
  <2> QED BY <2>1, <2>2
<1>6. PICK u \in Threads :
        /\ proc' = [proc EXCEPT !["control"] = u]
        /\ u.next \in {"idle", "stopping"}
        /\ \/ c.at > c.last /\ u.pc = "idle"
           \/ /\ c.at <= c.last /\ u.pc = "resuming"
              /\ u.at = c.at + 1 /\ u.last = c.last
  <2>1. Resting \in Threads /\ Resting.pc = "idle" /\ Resting.next = "idle"
    BY DEF Resting, Threads, Pcs
  <2>2. /\ Onward \in Threads /\ Onward.pc = c.pc /\ Onward.next = c.next
        /\ Onward.at = c.at + 1 /\ Onward.last = c.last
    BY <1>1, OnwardMoves
  <2>3. CASE c.at > c.last /\ proc' = [proc EXCEPT !["control"] = Resting]
    BY <2>1, <2>3
  <2>4. CASE c.at <= c.last /\ proc' = [proc EXCEPT !["control"] = Onward]
    BY <1>2, <2>2, <2>4
  <2> QED BY <1>4, <2>3, <2>4
<1>7. /\ proc' \in [Procs -> Threads] /\ proc'["control"] = u
      /\ \A w \in Workers : Alike(w)
  BY <1>2, <1>6, ControlMoves
<1>8. TypeOK' /\ AddedInv' /\ OneEntryEach'
  <2>1. Once(list)' /\ list' \in Seq(Entries) /\ \A n \in DOMAIN list' : list'[n].item \in added'
    BY <1>2, <1>3 DEF Once, AddedInv
  <2>2. tasks' \in Seq(Tasks) /\ \A k \in DOMAIN tasks' : tasks'[k].item \in added'
    BY <1>3, <1>5 DEF Extends
  <2>3. unsure \subseteq unsure' /\ unsure' \subseteq Items /\ added \subseteq added'
        /\ added' \subseteq Items /\ moved' \subseteq Items /\ started' \in BOOLEAN
        /\ quiet' \in BOOLEAN /\ saved' = saved
    BY <1>2, <1>3 DEF TypeOK
  <2> QED BY ONLY <1>7, <2>1, <2>2, <2>3, IInv, PartsSound
<1>9. ThreadInv'
  <2>1. \A w \in Workers : WorkerInv(w)'
    BY <1>3, <1>7 DEF IInv, ThreadInv, WorkerInv, Alike
  <2>2. ControlInv'
    BY <1>6, <1>7 DEF ControlInv
  <2> QED BY <2>1, <2>2 DEF ThreadInv
<1>10. SoleInv'
  <2> SUFFICES ASSUME NEW j \in Items, j \notin unsure PROVE Sole(j)'
    BY <1>3 DEF SoleInv
  <2>1. Publishers(j)' = Publishers(j)
    <3>1. \A w \in Workers : w \in Publishers(j)' <=> w \in Publishers(j)
      BY <1>7 DEF Publishers, Alike
    <3> QED BY <3>1 DEF Publishers
  <2>2. \A p \in Procs : Appends(p, j)' => Appends(p, j)
    BY <1>6, <1>7 DEF Appends, Alike, Procs
  <2>3. Sole(j) /\ Listed' = Listed
    BY <1>3 DEF IInv, SoleInv, Listed
  <2> QED BY <1>2, <2>1, <2>2, <2>3 DEF Sole
<1>11. EveryHeld'
  <2> SUFFICES ASSUME ~quiet, NEW j \in Items, j \notin unsure, Downloads(j)' PROVE Held(j)'
    BY <1>3 DEF EveryHeld
  <2>1. PICK m \in DOMAIN list : list[m].item = j /\ list[m].status = "downloading"
    BY <1>3 DEF Downloads
  <2>2. Held(j)
    BY <2>1 DEF IInv, EveryHeld, Downloads
  <2>3. Busy(j) => Busy(j)'
    BY <1>5, <1>7 DEF Busy, Sure, Alike, Extends
  <2>4. Registered(j)' = Registered(j)
    BY <1>7 DEF Registered, Alike
  <2>5. ASSUME Registered(j) = {}, Coming(j) PROVE Coming(j)'
    <3>1. ASSUME NEW w \in Workers, proc[w].item = j, proc[w].pc = "check" PROVE Coming(j)'
      BY <1>7, <3>1 DEF Coming, Alike
    <3>2. ASSUME NEW k \in DOMAIN tasks, tasks[k].item = j PROVE Coming(j)'
      BY <1>5, <3>2 DEF Coming, Extends
    <3>3. ASSUME NEW n \in DOMAIN list, list[n].item = j, c.at <= n, n <= c.last
          PROVE  Coming(j)'
      <4>1. n \in Nat /\ c.at <= c.last /\ n = m
        <5>1. n = m
          BY <1>2, <2>1, <3>3 DEF Once
        <5>2. n \in Nat
          BY <1>2
        <5> QED BY <1>2, <3>3, <5>1, <5>2
      <4>2. CASE n = c.at
        <5>1. list[n] \in Here /\ Resumes(list[n].status)
          BY <1>1, <2>1, <4>1, <4>2 DEF Here, Resumes
        <5> QED BY <1>5, <2>5, <3>3, <4>1, <4>2, <5>1 DEF Coming
      <4>3. CASE n # c.at
        <5>1. c.at + 1 <= n
          BY <1>2, <3>3, <4>1, <4>3
        <5>2. u.pc = "resuming" /\ u.at <= n /\ n <= u.last
          BY <1>2, <1>6, <3>3, <4>1, <5>1
        <5> QED BY <1>3, <1>7, <3>3, <5>2 DEF Coming
      <4> QED BY <4>2, <4>3
    <3> QED BY <1>1, <2>5, <3>1, <3>2, <3>3 DEF Coming
  <2> QED BY <2>2, <2>3, <2>4, <2>5 DEF Held
<1> QED BY <1>8, <1>9, <1>10, <1>11 DEF IInv

LEMMA CommandSound == ASSUME IInv, Command PROVE IInv'
<1>1. Idle /\ quiet' = quiet
  BY DEF Command
<1>2. /\ proc["control"].pc # "resuming" /\ Resting \in Threads /\ Resting.pc = "idle"
      /\ Resting.next = "idle"
  BY <1>1 DEF Idle, Resting, Threads, Pcs
<1>3. ASSUME NEW i \in Items, Pause(i) PROVE IInv'
  <2>1. CASE Flagged(i, "pause") /\ Unchanged
    BY <1>1, <2>1, TellSound
  <2>2. CASE UpdateStatus(i, "paused", Resting)
    BY <1>1, <1>2, <2>2, UpdateStatusSound
  <2> QED BY <1>3, <2>1, <2>2 DEF Pause
<1>4. ASSUME NEW i \in Items, Stop(i) PROVE IInv'
  <2>1. CASE Flagged(i, "cancel") /\ Unchanged
    BY <1>1, <2>1, TellSound
  <2>2. CASE UpdateStatus(i, "stopped", Resting)
    BY <1>1, <1>2, <2>2, UpdateStatusSound
  <2> QED BY <1>4, <2>1, <2>2 DEF Stop
<1>5. ASSUME NEW i \in Items, Resume(i) \/ Start(i) PROVE IInv'
  <2>1. Spawn(i) /\ i \in Listed
    BY <1>5 DEF Resume, Start, Says, Finds, Listed
  <2> QED BY <1>1, <2>1, SpawnSound
<1> QED BY <1>1, <1>3, <1>4, <1>5, AddSound, RestartSound, RemoveSound, QueueStartSound,
           QueueStopSound DEF Command

-----------------------------------------------------------------------------
LEMMA StepSound == ASSUME IInv, [Next]_vars PROVE IInv'
<1>1. ASSUME NEW w \in Workers, WorkerStep(w) PROVE IInv'
  BY <1>1, WorkerSound
<1>2. ASSUME NEW w \in Workers, Progress(w), UNCHANGED <<calls, crashes, quiet>> PROVE IInv'
  BY <1>2, ProgressSound
<1>3. ASSUME NEW p \in Procs, Settle(p) PROVE IInv'
  <2>1. quiet' = quiet /\ (AppendEntry(p) \/ Dispatch(p) \/ Sync(p) \/ Unstart(p))
    BY <1>3 DEF Settle
  <2>2. CASE p \in Workers
    BY <2>1, <2>2, AppendSound, WorkerSettles
  <2>3. CASE p = "control"
    BY <2>1, <2>3, ControlAppends, ControlSettles
  <2> QED BY <2>2, <2>3 DEF Procs
<1>4. CASE ControlStep
  BY <1>4, ResetSound, ControlSettles, StoppingSound, ResumingSound DEF ControlStep
<1>5. CASE Command
  BY <1>5, CommandSound
<1>6. CASE Crash
  BY <1>6, DieSound DEF Crash
<1>7. CASE UNCHANGED vars
  <2>1. TypeOK' /\ AddedInv' /\ OneEntryEach'
    BY <1>7 DEF vars, IInv, TypeOK, AddedInv, OneEntryEach, Once
  <2>2. ThreadInv'
    BY <1>7 DEF vars, IInv, ThreadInv, WorkerInv, ControlInv
  <2>3. SoleInv'
    BY <1>7 DEF vars, IInv, SoleInv, Sole, Appends, Publishers, Listed
  <2>4. EveryHeld'
    BY <1>7 DEF vars, IInv, EveryHeld, Downloads, Held, Busy, Coming, Sure, Registered
  <2> QED BY <2>1, <2>2, <2>3, <2>4 DEF IInv
<1> QED BY <1>1, <1>2, <1>3, <1>4, <1>5, <1>6, <1>7 DEF Next

(* The invariant of the list and of the threads that work on it. *)
THEOREM Invariant == Spec => []IInv
  BY InitSound, StepSound, PTL DEF Spec

(* The list is sound (ListIsSound), for any downloads, any number of threads *)
(* and commands, of saves that fail and of deaths, although an entry is      *)
(* looked for in one call and appended in another (dm_item_upsert,           *)
(* download.c:1286): an item has two entries only after its update could not *)
(* be saved or its entry was removed from under two jobs, and none says that *)
(* it downloads while nobody does or will, unless a job has ended without a  *)
(* word or the item has come to be unsure.                                   *)
THEOREM ListSound == Spec => []ListIsSound
<1>1. IInv => ListIsSound
  <2> SUFFICES ASSUME IInv PROVE ListIsSound
    OBVIOUS
  <2>1. TypeOK /\ OneEntryEach /\ Once(list) /\ list \in Seq(Entries)
    BY ControlFacts DEF IInv
  <2>2. SomebodyDownloads
    <3> SUFFICES ASSUME ~quiet, NEW n \in DOMAIN list, list[n].status = "downloading",
                        list[n].item \notin unsure
                 PROVE  \/ \E w \in Workers : AtWork(w, list[n].item)
                        \/ \E k \in DOMAIN tasks : tasks[k].item = list[n].item
                        \/ proc["control"].pc = "resuming" /\ proc["control"].at <= n
      BY DEF SomebodyDownloads
    <3>1. PICK i : i = list[n].item
      OBVIOUS
    <3>2. i \in Items /\ Downloads(i)
      <4>1. list[n] \in Entries
        BY <2>1
      <4> QED BY <3>1, <4>1 DEF Downloads, Entries
    <3>3. Held(i)
      BY <3>1, <3>2 DEF IInv, EveryHeld
    <3>4. \A w \in Workers : Sure(w, i) => AtWork(w, i)
      BY DEF Sure, AtWork
    <3>5. \A m \in DOMAIN list : list[m].item = i => m = n
      BY <2>1, <3>1 DEF Once
    <3> QED BY <3>1, <3>3, <3>4, <3>5 DEF Held, Busy, Coming, AtWork
  <2> QED BY <2>1, <2>2 DEF ListIsSound
<1> QED BY <1>1, Invariant, PTL
=============================================================================
