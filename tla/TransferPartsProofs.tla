------------------------- MODULE TransferPartsProofs -------------------------
(***************************************************************************)
(* Proofs about parts of MCTransfer, for every value of their constants:   *)
(* the choice of the proxy, the ids, the directories of jobs, requests,    *)
(* the log and the console, the bridge, the sessions, the window, the      *)
(* finished files, the bookmarks and the lists of pieces.  Each has an     *)
(* inductive invariant of its own, that its module states; here it is      *)
(* shown to hold at the start, to be kept by every step, and to say what   *)
(* is claimed of the part.                                                 *)
(***************************************************************************)
EXTENDS MCTransfer, DoneRangesProofs, SequenceTheorems

-----------------------------------------------------------------------------
(* The choice of the proxy. *)

LEMMA RouteInitInv == Route!Init => Route!IInv
<1> SUFFICES ASSUME Route!Init PROVE Route!IInv
  OBVIOUS
<1>1. v8 = <<>> /\ DOMAIN v8 = {}
  BY DEF Route!Init
<1>2. Route!TypeOK
  BY <1>1, ConstantsAssumption DEF Route!Init, Route!TypeOK, Route!Choice, Route!ProxyRouteAssumption
<1> QED BY <1>1, <1>2 DEF Route!IInv

(* apply_proxy_to_state: what is applied is kept, and what was kept is       *)
(* applied again.                                                            *)
LEMMA AppliedIsKept ==
    ASSUME Route!IInv, NEW override \in Route!Choice, NEW x, x = Route!Applied(override)
    PROVE  /\ x \in Route!Choice
           /\ override # Direct => x \in {Direct, override}
           /\ override = Direct /\ v7 # Direct => x = v7
BY DEF Route!Applied, Route!Resolved, Route!Choice, Route!IInv, Route!TypeOK

LEMMA RouteNextInv == Route!IInv /\ [Route!Next]_(Route!vars) => Route!IInv'
<1> SUFFICES ASSUME Route!IInv, [Route!Next]_(Route!vars) PROVE Route!IInv'
  OBVIOUS
<1>n. v8 \in Seq(Route!Choice) /\ Len(v8) \in Nat /\ DOMAIN v8 = 1 .. Len(v8)
  BY LenProperties DEF Route!IInv, Route!TypeOK
<1>1. ASSUME NEW x \in Route!Choice, v8' = Append(v8, x)
      PROVE  /\ v8' \in Seq(Route!Choice) /\ v8' # <<>> /\ DOMAIN v8' = 1 .. Len(v8) + 1
             /\ \A i \in 1 .. Len(v8) : v8'[i] = v8[i]
             /\ v8'[Len(v8) + 1] = x
  BY <1>1, <1>n, AppendProperties
<1>2. CASE Route!Add
  <2>1. PICK override \in Route!Choice : v6' = override /\ Route!Ran(override)
    BY <1>2 DEF Route!Add
  <2>2. PICK x : x = Route!Applied(override)
    OBVIOUS
  <2>3. /\ v7' = x /\ v8' = Append(v8, x) /\ v8 = <<>> /\ Len(v8) = 0
        /\ UNCHANGED <<v1, v2, v3, v4, v5, v9>>
    BY <1>2, <2>1, <2>2, EmptySeq DEF Route!Add, Route!Ran
  <2>4. x \in Route!Choice /\ (override # Direct => x \in {Direct, override})
    BY <2>2, AppliedIsKept
  <2> QED BY <1>1, <2>1, <2>3, <2>4 DEF Route!IInv, Route!TypeOK
<1>3. CASE Route!RunAgain
  <2>1. PICK x : x = Route!Applied(Direct)
    OBVIOUS
  <2>2. /\ v7' = x /\ v8' = Append(v8, x) /\ v8 # <<>>
        /\ UNCHANGED <<v1, v2, v3, v4, v5, v6, v9>>
    BY <1>3, <2>1 DEF Route!RunAgain, Route!Ran
  <2>3. Direct \in Route!Choice
    BY DEF Route!Choice
  <2>4. x \in Route!Choice /\ (v7 # Direct => x = v7)
    BY <2>1, <2>3, AppliedIsKept
  <2>5. Len(v8) # 0
    BY <1>n, <2>2, EmptySeq
  <2>6. \A i \in DOMAIN v8' : v8'[i] \in {Direct, v7'}
    BY <1>n, <1>1, <2>2, <2>4 DEF Route!IInv
  <2>7. v8'[1] # Direct => /\ \A i \in DOMAIN v8' : v8'[i] = v7'
                           /\ v6' # Direct => v7' = v6'
    BY <1>n, <1>1, <2>2, <2>4, <2>5 DEF Route!IInv
  <2> QED BY <1>1, <2>2, <2>4, <2>6, <2>7 DEF Route!IInv, Route!TypeOK
<1>4. CASE Route!Configure \/ Route!StartAgain
  <2>1. /\ UNCHANGED <<v1, v6, v7, v8>> /\ v2' \in Route!Choice /\ v4' \in Route!Choice
        /\ v9' \in 0..MaxChanges
    BY <1>4, ConstantsAssumption DEF Route!Configure, Route!StartAgain, Route!Change, Route!IInv,
       Route!TypeOK, Route!ProxyRouteAssumption
  <2> QED BY <2>1 DEF Route!IInv, Route!TypeOK
<1>5. CASE UNCHANGED Route!vars
  BY <1>5 DEF Route!vars, Route!IInv, Route!TypeOK
<1> QED BY <1>2, <1>3, <1>4, <1>5 DEF Route!Next

LEMMA RouteShows == Route!IInv => Route!TypeOK /\ Route!OneProxyForAll
BY DEF Route!IInv, Route!OneProxyForAll


-----------------------------------------------------------------------------
(* The ids of downloads. *)

LEMMA IdsConstants ==
    /\ Machine \in [Processes -> Nat]
    /\ \A p, q \in Processes : p # q => Machine[p] # Machine[q]
    /\ SequenceMask \in Nat /\ MaxSteps \in Nat /\ MaxTime \in Nat /\ MaxTime >= 1
BY ConstantsAssumption DEF Ids!IdentifiersAssumption

LEMMA CountIs ==
    \A S : Ids!IsFiniteSet(S) = IsFiniteSet(S) /\ Ids!Cardinality(S) = Cardinality(S)
BY DEF Ids!IsFiniteSet, IsFiniteSet, Ids!Cardinality, Cardinality

LEMMA IdsInitInv == Ids!Init => Ids!IInv
<1> SUFFICES ASSUME Ids!Init PROVE Ids!IInv
  OBVIOUS
<1>1. Ids!TypeOK
  BY IdsConstants DEF Ids!Init, Ids!TypeOK, Ids!NoId
<1>2. Ids!IsFiniteSet({}) /\ Ids!Cardinality({}) = 0
  BY FS_EmptySet, CountIs
<1> QED BY <1>1, <1>2 DEF Ids!Init, Ids!IInv, Ids!NoId, Ids!Ids

(* What a process makes is later than all it has made, and becomes its count. *)
LEMMA MadeIsNew ==
    ASSUME Ids!IInv, NEW p \in Processes, NEW ms \in 1 .. MaxTime, NEW sequence \in 0 .. SequenceMask,
           ms > v2[p].ms \/ (ms = v2[p].ms /\ sequence > v2[p].sequence),
           Ids!Made(p, ms, sequence), UNCHANGED <<v1, v5, v6, v7, v9>>, v3' \subseteq Processes
    PROVE  Ids!IInv' /\ v8'[p] \notin v4[p] /\ \A q \in Processes \ {p} : v8'[q] = v8[q]
<1> USE IdsConstants DEF Ids!IInv
<1>1. PICK id : id = Ids!Raw(p, ms, sequence)
  OBVIOUS
<1>2. id \in Ids!Ids /\ id.machine = Machine[p] /\ id.time = ms /\ id.sequence = sequence
  BY <1>1 DEF Ids!Raw, Ids!Ids
<1>3. /\ v2' = [v2 EXCEPT ![p] = [ms |-> ms, sequence |-> sequence]]
      /\ v8' = [v8 EXCEPT ![p] = id]
      /\ v4' = [v4 EXCEPT ![p] = @ \cup {id}]
  BY <1>1 DEF Ids!Made
<1>4. id \notin v4[p]
  <2>1. SUFFICES ASSUME id \in v4[p] PROVE FALSE
    OBVIOUS
  <2>2. Ids!Counted(p, id)
    BY <2>1
  <2>3. v2[p].ms \in Nat /\ v2[p].sequence \in Nat
    OBVIOUS
  <2> QED BY <1>2, <2>2, <2>3 DEF Ids!Counted
<1>5. /\ v2' \in [Processes -> [ms : Nat, sequence : Nat]]
      /\ v8' \in [Processes -> Ids!Ids]
      /\ v4' \in [Processes -> SUBSET Ids!Ids]
  <2>1. v2' \in [Processes -> [ms : Nat, sequence : Nat]]
    BY <1>3
  <2>2. v8' \in [Processes -> Ids!Ids]
    BY <1>2, <1>3
  <2>3. v4' \in [Processes -> SUBSET Ids!Ids]
    BY <1>2, <1>3
  <2> QED BY <2>1, <2>2, <2>3
<1>6. Ids!TypeOK'
  <2>1. ASSUME NEW q \in Processes
        PROVE  /\ v2'[q].ms \in 0..MaxTime /\ v2'[q].sequence \in 0..SequenceMask
               /\ v8'[q] # Ids!NoId => v8'[q] \in v4'[q]
    <3>1. CASE q = p
      BY <1>3, <3>1
    <3>2. CASE q # p
      BY <1>3, <3>2 DEF Ids!TypeOK
    <3> QED BY <3>1, <3>2
  <2> QED BY <2>1 DEF Ids!TypeOK
<1>7. ASSUME NEW q \in Processes, NEW d \in v4'[q]
      PROVE  d.machine = Machine[q] /\ Ids!Counted(q, d)'
  <2>1. CASE q # p
    BY <1>3, <1>7, <2>1 DEF Ids!Counted
  <2>2. CASE q = p /\ d = id
    BY <1>2, <1>3, <2>2 DEF Ids!Counted
  <2>3. CASE q = p /\ d \in v4[p]
    <3>1. /\ v2'[p].ms = ms /\ v2'[p].sequence = sequence /\ Ids!Counted(p, d)
          /\ v2[p].ms \in Nat /\ v2[p].sequence \in Nat /\ d \in Ids!Ids /\ d.machine = Machine[p]
      BY <1>3, <2>3
    <3> QED BY <2>3, <3>1 DEF Ids!Counted, Ids!Ids
  <2> QED BY <1>3, <1>7, <2>1, <2>2, <2>3
<1>8. \A q \in Processes \ {p} : v8'[q] = v8[q]
  BY <1>3
<1>9. v8'[p] \notin v4[p]
  BY <1>3, <1>4
<1> QED BY <1>5, <1>6, <1>7, <1>8, <1>9

LEMMA IdsNextInv ==
    Ids!IInv /\ [Ids!Next]_(Ids!vars) => Ids!IInv' /\ [Ids!MadeAnew]_(Ids!vars)
<1> SUFFICES ASSUME Ids!IInv, [Ids!Next]_(Ids!vars) PROVE Ids!IInv' /\ Ids!MadeAnew
  OBVIOUS
<1> USE IdsConstants
<1>1. ASSUME NEW p \in Processes, Ids!Generate(p) PROVE Ids!IInv' /\ Ids!MadeAnew
  <2>1. PICK now : now = Ids!Now(p)
    OBVIOUS
  <2>2. PICK sequence : sequence = IF now = v2[p].ms THEN v2[p].sequence + 1 ELSE 0
    OBVIOUS
  <2>3. /\ now \in 1 .. MaxTime /\ now >= v2[p].ms /\ v2[p].ms \in Nat /\ v2[p].sequence \in Nat
        /\ sequence \in Nat
    BY <2>1, <2>2 DEF Ids!Now, Ids!IInv, Ids!TypeOK
  <2>4. CASE ~Ids!Overflows(sequence) /\ Ids!Made(p, now, sequence) /\ UNCHANGED v3
    <3>1. sequence \in 0 .. SequenceMask
      BY <2>3, <2>4 DEF Ids!Overflows
    <3>2. now > v2[p].ms \/ (now = v2[p].ms /\ sequence > v2[p].sequence)
      BY <2>2, <2>3
    <3>3. UNCHANGED <<v1, v5, v6, v7, v9>> /\ v3' \subseteq Processes
      BY <1>1, <2>4 DEF Ids!Generate, Ids!list, Ids!IInv, Ids!TypeOK
    <3>4. Ids!IInv' /\ v8'[p] \notin v4[p] /\ \A q \in Processes \ {p} : v8'[q] = v8[q]
      BY <2>3, <2>4, <3>1, <3>2, <3>3, MadeIsNew
    <3> QED BY <3>4 DEF Ids!MadeAnew
  <2>5. CASE v3' = v3 \cup {p} /\ UNCHANGED <<v2, v8, v4>>
    <3>1. UNCHANGED <<v1, v2, v4, v5, v6, v7, v8, v9>> /\ v3' \subseteq Processes
      BY <1>1, <2>5 DEF Ids!Generate, Ids!list, Ids!IInv, Ids!TypeOK
    <3> QED BY <3>1 DEF Ids!IInv, Ids!TypeOK, Ids!Counted, Ids!MadeAnew
  <2> QED BY <1>1, <2>1, <2>2, <2>4, <2>5 DEF Ids!Generate
<1>2. ASSUME NEW p \in Processes, Ids!Waits(p) PROVE Ids!IInv' /\ Ids!MadeAnew
  <2>1. v1 \in 1 .. MaxTime /\ 0 \in 0 .. SequenceMask /\ v1 > v2[p].ms
    BY <1>2 DEF Ids!Waits, Ids!Waited, Ids!IInv, Ids!TypeOK
  <2>2. Ids!Made(p, v1, 0) /\ UNCHANGED <<v1, v5, v6, v7, v9>> /\ v3' \subseteq Processes
    BY <1>2 DEF Ids!Waits, Ids!list, Ids!IInv, Ids!TypeOK
  <2>3. Ids!IInv' /\ v8'[p] \notin v4[p] /\ \A q \in Processes \ {p} : v8'[q] = v8[q]
    BY <2>1, <2>2, MadeIsNew
  <2> QED BY <2>3 DEF Ids!MadeAnew
<1>3. ASSUME NEW p \in Processes, Ids!Use(p) PROVE Ids!IInv' /\ Ids!MadeAnew
  <2>1. PICK id \in Ids!Ids : id = v8[p]
    BY DEF Ids!IInv
  <2>2. /\ v8' = [v8 EXCEPT ![p] = Ids!NoId]
        /\ v5' = [v5 EXCEPT ![p] = @ \cup {id}]
        /\ v6' = v6 \cup {id} /\ v7' = v7 + 1
        /\ UNCHANGED <<v1, v2, v3, v4, v9>>
        /\ id # Ids!NoId /\ id \notin v5[p]
    BY <1>3, <2>1 DEF Ids!Use, Ids!IsNew
  <2>3. id.machine = Machine[p]
    BY <2>1, <2>2 DEF Ids!IInv, Ids!TypeOK
  <2>4. id \notin v6
    BY <2>2, <2>3 DEF Ids!IInv
  <2>5. Ids!IsFiniteSet(v6') /\ v7' = Ids!Cardinality(v6')
    <3>1. IsFiniteSet(v6) /\ v7 = Cardinality(v6)
      BY CountIs DEF Ids!IInv
    <3>2. IsFiniteSet(v6') /\ v7' = Cardinality(v6')
      BY <2>2, <2>4, <3>1, FS_AddElement
    <3> QED BY <3>2, CountIs
  <2>6. Ids!NoId \in Ids!Ids
    BY DEF Ids!NoId, Ids!Ids
  <2>7. v8' \in [Processes -> Ids!Ids] /\ v5' \in [Processes -> SUBSET Ids!Ids] /\ v6' \subseteq Ids!Ids
    BY <2>2, <2>6 DEF Ids!IInv
  <2>8. ASSUME NEW q \in Processes, NEW d \in v6', d.machine = Machine[q] PROVE d \in v5'[q]
    BY <2>2, <2>3, <2>8 DEF Ids!IInv
  <2>9. \A q \in Processes : v8'[q] # Ids!NoId => v8'[q] = v8[q]
    BY <2>2 DEF Ids!IInv
  <2>10. Ids!TypeOK' /\ Ids!MadeAnew
    BY <2>2, <2>9 DEF Ids!IInv, Ids!TypeOK, Ids!MadeAnew
  <2> QED BY <2>2, <2>5, <2>7, <2>8, <2>10 DEF Ids!IInv, Ids!Counted
<1>4. ASSUME NEW p \in Processes, Ids!TryAgain(p) PROVE Ids!IInv' /\ Ids!MadeAnew
  <2>1. Ids!NoId \in Ids!Ids
    BY DEF Ids!NoId, Ids!Ids
  <2>2. v8' = [v8 EXCEPT ![p] = Ids!NoId] /\ UNCHANGED <<v1, v2, v3, v4, v5, v6, v7, v9>>
    BY <1>4 DEF Ids!TryAgain, Ids!list
  <2>3. v8' \in [Processes -> Ids!Ids] /\ \A q \in Processes : v8'[q] # Ids!NoId => v8'[q] = v8[q]
    BY <2>1, <2>2 DEF Ids!IInv
  <2> QED BY <2>2, <2>3 DEF Ids!IInv, Ids!TypeOK, Ids!Counted, Ids!MadeAnew
<1>5. ASSUME NEW p \in Processes, Ids!StartAgain(p) PROVE Ids!IInv' /\ Ids!MadeAnew
  <2>1. Ids!NoId \in Ids!Ids
    BY DEF Ids!NoId, Ids!Ids
  <2>2. /\ v2' = [v2 EXCEPT ![p] = [ms |-> 0, sequence |-> 0]]
        /\ v3' = v3 \ {p} /\ v4' = [v4 EXCEPT ![p] = {}]
        /\ v8' = [v8 EXCEPT ![p] = Ids!NoId] /\ v5' = [v5 EXCEPT ![p] = v6]
        /\ v9' \in 0 .. MaxSteps /\ UNCHANGED <<v1, v6, v7>>
    BY <1>5 DEF Ids!StartAgain, Ids!Stepped, Ids!IInv, Ids!TypeOK
  <2>3. v8' \in [Processes -> Ids!Ids] /\ \A q \in Processes : v8'[q] # Ids!NoId => v8'[q] = v8[q] /\ q # p
    BY <2>1, <2>2 DEF Ids!IInv
  <2>4. /\ v2' \in [Processes -> [ms : Nat, sequence : Nat]]
        /\ v4' \in [Processes -> SUBSET Ids!Ids] /\ v5' \in [Processes -> SUBSET Ids!Ids]
    BY <2>2 DEF Ids!IInv
  <2>5. ASSUME NEW q \in Processes, NEW d \in v4'[q] PROVE d.machine = Machine[q] /\ Ids!Counted(q, d)'
    BY <2>2, <2>5 DEF Ids!IInv, Ids!Counted
  <2>6. ASSUME NEW q \in Processes, NEW d \in v6', d.machine = Machine[q] PROVE d \in v5'[q]
    BY <2>2, <2>6 DEF Ids!IInv
  <2>7. ASSUME NEW q \in Processes
        PROVE  /\ v2'[q].ms \in 0..MaxTime /\ v2'[q].sequence \in 0..SequenceMask
               /\ v8'[q] # Ids!NoId => v8'[q] \in v4'[q]
    BY <2>2, <2>3 DEF Ids!IInv, Ids!TypeOK
  <2> QED BY <2>2, <2>3, <2>4, <2>5, <2>6, <2>7 DEF Ids!IInv, Ids!TypeOK, Ids!MadeAnew
<1>6. CASE Ids!Tick \/ Ids!SetBack
  <2>1. /\ v1' \in 1 .. MaxTime /\ v9' \in 0 .. MaxSteps
        /\ UNCHANGED <<v2, v3, v4, v5, v6, v7, v8>>
    BY <1>6 DEF Ids!Tick, Ids!SetBack, Ids!Stepped, Ids!list, Ids!IInv, Ids!TypeOK
  <2> QED BY <2>1 DEF Ids!IInv, Ids!TypeOK, Ids!Counted, Ids!MadeAnew
<1>7. CASE UNCHANGED Ids!vars
  BY <1>7 DEF Ids!vars, Ids!list, Ids!IInv, Ids!TypeOK, Ids!Counted, Ids!MadeAnew
<1> QED BY <1>1, <1>2, <1>3, <1>4, <1>5, <1>6, <1>7 DEF Ids!Next

LEMMA IdsShows == Ids!IInv => Ids!TypeOK /\ Ids!OneEntryPerId
BY DEF Ids!IInv, Ids!OneEntryPerId


-----------------------------------------------------------------------------
(* The directories of jobs. *)

WorkJob == [at : Work!Steps, item : Items, adds : BOOLEAN, opened : BOOLEAN]

LEMMA WorkConstants == Items # {} /\ "all" \notin Items /\ MaxFaults \in Nat
BY ConstantsAssumption DEF Work!WorkAssumption

LEMMA WorkInitInv == Work!Init => Work!IInv
<1> SUFFICES ASSUME Work!Init PROVE Work!IInv
  OBVIOUS
<1> USE WorkConstants
<1>1. PICK i \in Items : i = CHOOSE k \in Items : TRUE
  OBVIOUS
<1>2. Work!Idle = [at |-> "idle", item |-> i, adds |-> FALSE, opened |-> FALSE]
  BY <1>1 DEF Work!Idle
<1>3. Work!Idle \in WorkJob /\ Work!Idle.item = i /\ Work!Idle.at = "idle"
  BY <1>2 DEF WorkJob, Work!Steps
<1>4. /\ v3 = [j \in FileJobs |-> Work!Idle] /\ v2 = [k \in Items |-> Work!None]
      /\ v4 = [at |-> "none", item |-> i, list |-> {}]
      /\ v1 \in BOOLEAN /\ v5 = {} /\ v6 = {} /\ v7 = {} /\ v8 = 0
  BY <1>3 DEF Work!Init
<1>5. Work!TypeOK
  BY <1>3, <1>4 DEF Work!TypeOK, WorkJob
<1>6. \A j \in FileJobs : v3[j].at = "idle"
  BY <1>3, <1>4
<1> QED BY <1>4, <1>5, <1>6 DEF Work!IInv, Work!RefusedIfRaced, Work!HasDirectory, Work!Looked,
                       Work!Quiet, Work!At, Work!Removing, Work!Works

(* What a step of a job leaves as it is. *)
LEMMA WorkGoes ==
    ASSUME Work!TypeOK, NEW j \in FileJobs, NEW step \in Work!Steps, Work!Goes(j, step)
    PROVE  /\ v3' \in [FileJobs -> WorkJob]
           /\ v3'[j].at = step /\ v3'[j].item = v3[j].item
           /\ \A k \in FileJobs \ {j} : v3'[k] = v3[k]
           /\ \A k \in FileJobs : v3'[k].item = v3[k].item
BY DEF Work!Goes, Work!TypeOK, WorkJob


LEMMA WorkBegin == ASSUME Work!IInv, NEW j \in FileJobs, Work!Begin(j) PROVE Work!IInv'
<1> USE WorkConstants
<1>1. PICK i \in Items \ v5, adds \in BOOLEAN :
         /\ v3' = [v3 EXCEPT ![j].at = "look", ![j].item = i, ![j].adds = adds]
         /\ v6' = IF Work!Removing(i) THEN v6 \cup {i} ELSE v6
  BY DEF Work!Begin
<1>2. v3[j].at = "idle" /\ UNCHANGED <<v1, v2, v4, v5, v7, v8>>
  BY DEF Work!Begin, Work!At
<1>3. /\ v3' \in [FileJobs -> WorkJob] /\ v3'[j].at = "look" /\ v3'[j].item = i
      /\ \A k \in FileJobs \ {j} : v3'[k] = v3[k]
  <2>1. v3 \in [FileJobs -> WorkJob] /\ v3[j] \in WorkJob /\ i \in Items
    BY DEF Work!IInv, Work!TypeOK, WorkJob
  <2>2. PICK w : w = [v3[j] EXCEPT !.at = "look", !.item = i, !.adds = adds]
    OBVIOUS
  <2>3. w = [at |-> "look", item |-> i, adds |-> adds, opened |-> v3[j].opened]
    BY <2>1, <2>2 DEF WorkJob
  <2>4. w \in WorkJob /\ w.at = "look" /\ w.item = i
    BY <2>1, <2>3 DEF WorkJob, Work!Steps
  <2>5. v3' = [v3 EXCEPT ![j] = w]
    BY <1>1, <2>2
  <2> QED BY <2>1, <2>4, <2>5
<1>4. Work!TypeOK'
  BY <1>1, <1>2, <1>3 DEF Work!IInv, Work!TypeOK, WorkJob
<1>5. Work!RefusedIfRaced' /\ Work!HasDirectory' /\ Work!Looked'
  BY <1>2, <1>3 DEF Work!IInv, Work!RefusedIfRaced, Work!HasDirectory, Work!Looked, Work!At,
     Work!Mine, Work!Has, Work!Removing
<1>6. Work!Quiet'
  <2> SUFFICES ASSUME NEW q \in Items \ v6'
               PROVE  /\ q \in v5' \/ Work!Removing(q)' => ~Work!Works(q)'
                      /\ q \in v5' => ~Work!Has(q)'
                      /\ Work!Removing(q)' /\ v4'.at = "list" => v2'[q] = v4'.list
                      /\ Work!Removing(q)' /\ v4'.at = "forget" => ~Work!Has(q)'
    BY DEF Work!Quiet
  <2>1. q \in Items \ v6 /\ (Work!Removing(q)' <=> Work!Removing(q)) /\ (Work!Has(q)' <=> Work!Has(q))
    BY <1>1, <1>2 DEF Work!Removing, Work!Has
  <2>2. q \in v5 \/ Work!Removing(q) => ~Work!Works(q)
    BY <2>1 DEF Work!IInv, Work!Quiet
  <2>3. q \in v5 \/ Work!Removing(q) => ~Work!Works(q)'
    BY <1>1, <1>3, <2>2 DEF Work!Works, Work!Mine
  <2> QED BY <1>2, <2>1, <2>3 DEF Work!IInv, Work!Quiet
<1> QED BY <1>4, <1>5, <1>6 DEF Work!IInv

(* A job that does not begin leaves a removal alone if it leaves the          *)
(* directories alone.                                                         *)
LEMMA WorkStaysQuiet ==
    ASSUME Work!IInv, NEW j \in FileJobs, NEW step \in Work!Steps, Work!Goes(j, step),
           v3[j].at \notin {"idle", "refused", "ended"}, UNCHANGED <<v4, v5, v6>>,
           \A i \in Items \ {v3[j].item} : v2'[i] = v2[i],
           v2' = v2 \/ v3[j].item \notin Items \ v6 \/ (v3[j].item \notin v5 /\ ~Work!Removing(v3[j].item))
    PROVE  Work!Quiet'
<1> SUFFICES ASSUME NEW q \in Items \ v6'
             PROVE  /\ q \in v5' \/ Work!Removing(q)' => ~Work!Works(q)'
                    /\ q \in v5' => ~Work!Has(q)'
                    /\ Work!Removing(q)' /\ v4'.at = "list" => v2'[q] = v4'.list
                    /\ Work!Removing(q)' /\ v4'.at = "forget" => ~Work!Has(q)'
  BY DEF Work!Quiet
<1>1. /\ \A k \in FileJobs \ {j} : v3'[k] = v3[k]
      /\ v3'[j].item = v3[j].item
  BY WorkGoes DEF Work!IInv
<1>2. q \in Items \ v6 /\ (Work!Removing(q)' <=> Work!Removing(q))
  BY DEF Work!Removing
<1>3. q \in v5 \/ Work!Removing(q) => ~Work!Works(q)
  BY <1>2 DEF Work!IInv, Work!Quiet
<1>4. q \in v5 \/ Work!Removing(q) => ~Work!Works(q)'
  BY <1>1, <1>3 DEF Work!Works, Work!Mine
<1>5. q \in v5 \/ Work!Removing(q) => v2'[q] = v2[q]
  BY <1>2
<1> QED BY <1>2, <1>4, <1>5 DEF Work!IInv, Work!Quiet, Work!Has

LEMMA WorkLook == ASSUME Work!IInv, NEW j \in FileJobs, Work!Look(j) PROVE Work!IInv'
<1> USE WorkConstants DEF Work!At, Work!Mine
<1>1. PICK step \in {"enter", "make", "own", "remake", "runs", "mine"} :
         /\ Work!Goes(j, step)
         /\ v3[j].at \in {"look", "enter", "own"}
         /\ step \in {"make", "remake"} => ~v1
         /\ step \in {"own", "runs"} => v1
         /\ step = "mine" => v3[j].at = "own" /\ ~(v1 /\ Work!Has(v3[j].item))
         /\ step = "runs" => Work!Has(v3[j].item)
  BY DEF Work!Look, Work!There
<1>2. UNCHANGED <<v1, v2, v4, v5, v6, v7, v8>>
  BY DEF Work!Look
<1>3. step \in Work!Steps
  BY DEF Work!Steps
<1>4. /\ v3' \in [FileJobs -> WorkJob] /\ v3'[j].at = step /\ v3'[j].item = v3[j].item
      /\ \A k \in FileJobs \ {j} : v3'[k] = v3[k]
  BY <1>1, <1>3, WorkGoes DEF Work!IInv
<1>5. Work!TypeOK'
  BY <1>2, <1>4 DEF Work!IInv, Work!TypeOK, WorkJob
<1>6. Work!RefusedIfRaced' /\ Work!HasDirectory' /\ Work!Looked'
  BY <1>1, <1>2, <1>4 DEF Work!IInv, Work!RefusedIfRaced, Work!HasDirectory, Work!Looked,
     Work!Has, Work!Removing
<1>7. Work!Quiet'
  BY <1>1, <1>2, <1>3, WorkStaysQuiet
<1> QED BY <1>5, <1>6, <1>7 DEF Work!IInv

LEMMA WorkMakeRoot == ASSUME Work!IInv, NEW j \in FileJobs, Work!MakeRoot(j) PROVE Work!IInv'
<1> USE WorkConstants DEF Work!At, Work!Mine
<1>1. v3[j].at \in {"make", "remake"} /\ UNCHANGED <<v2, v4, v5, v6>>
  BY DEF Work!MakeRoot
<1>2. PICK step \in {"enter", "refused", "own"} :
         /\ Work!Goes(j, step)
         /\ \/ v1 /\ step # "own" /\ UNCHANGED <<v1, v7, v8>>
            \/ /\ ~v1 /\ v1' = TRUE /\ step # "refused" /\ UNCHANGED v8
               /\ v7' = v7 \cup Work!Losing(j, {"make", "remake"}, "all")
            \/ step # "own" /\ Work!Fault /\ UNCHANGED <<v1, v7>>
  BY DEF Work!MakeRoot
<1>3. step \in Work!Steps
  BY DEF Work!Steps
<1>4. /\ v3' \in [FileJobs -> WorkJob] /\ v3'[j].at = step /\ v3'[j].item = v3[j].item
      /\ \A k \in FileJobs \ {j} : v3'[k] = v3[k]
  BY <1>2, <1>3, WorkGoes DEF Work!IInv
<1>5. Work!Losing(j, {"make", "remake"}, "all") =
         {k \in FileJobs \ {j} : v3[k].at \in {"make", "remake"}}
  BY DEF Work!Losing
<1>6. /\ v7 \subseteq v7' /\ v7' \subseteq FileJobs /\ v8' \in 0 .. MaxFaults /\ v8' >= v8 /\ v8 \in Nat
      /\ v1' \in BOOLEAN
  <2>1. v7 \subseteq v7' /\ v7' \subseteq FileJobs
    BY <1>2, <1>5 DEF Work!IInv, Work!TypeOK
  <2>2. v8' \in 0 .. MaxFaults /\ v8' >= v8 /\ v8 \in Nat
    BY <1>2 DEF Work!IInv, Work!TypeOK, Work!Fault
  <2>3. v1' \in BOOLEAN
    BY <1>2 DEF Work!IInv, Work!TypeOK
  <2> QED BY <2>1, <2>2, <2>3
<1>7. Work!TypeOK'
  BY <1>1, <1>4, <1>6 DEF Work!IInv, Work!TypeOK, WorkJob
<1>8. Work!RefusedIfRaced'
  <2>1. step = "refused" => j \in v7' \/ v8' > 0
    BY <1>1, <1>2, <1>6 DEF Work!IInv, Work!Looked, Work!Fault
  <2> QED BY <1>4, <1>6, <2>1 DEF Work!IInv, Work!RefusedIfRaced
<1>9. Work!Looked'
  BY <1>1, <1>2, <1>4, <1>5, <1>6 DEF Work!IInv, Work!Looked, Work!Has
<1>10. Work!HasDirectory'
  BY <1>1, <1>2, <1>4 DEF Work!IInv, Work!HasDirectory, Work!Has, Work!Removing
<1>11. Work!Quiet'
  BY <1>1, <1>2, <1>3, WorkStaysQuiet
<1> QED BY <1>7, <1>8, <1>9, <1>10, <1>11 DEF Work!IInv


LEMMA WorkMakeOwn == ASSUME Work!IInv, NEW j \in FileJobs, Work!MakeOwn(j) PROVE Work!IInv'
<1> USE WorkConstants DEF Work!At, Work!Mine
<1>1. v3[j].at = "mine" /\ UNCHANGED <<v1, v4, v5, v6>> /\ v3[j].item \in Items /\ v1
  BY DEF Work!MakeOwn, Work!IInv, Work!TypeOK, Work!Looked
<1>2. PICK step \in {"refused", "runs"} :
         /\ Work!Goes(j, step)
         /\ \/ Work!Has(v3[j].item) /\ step = "refused" /\ UNCHANGED <<v2, v7, v8>>
            \/ /\ ~Work!Has(v3[j].item) /\ v2' = Work!Made(v3[j].item) /\ step = "runs" /\ UNCHANGED v8
               /\ v7' = v7 \cup Work!Losing(j, {"mine"}, v3[j].item)
            \/ step = "refused" /\ Work!Fault /\ UNCHANGED <<v2, v7>>
  BY <1>1 DEF Work!MakeOwn
<1>3. step \in Work!Steps
  BY DEF Work!Steps
<1>4. /\ v3' \in [FileJobs -> WorkJob] /\ v3'[j].at = step /\ v3'[j].item = v3[j].item
      /\ \A k \in FileJobs \ {j} : v3'[k] = v3[k]
  BY <1>2, <1>3, WorkGoes DEF Work!IInv
<1>5. Work!Losing(j, {"mine"}, v3[j].item) =
         {k \in FileJobs \ {j} : v3[k].at = "mine" /\ v3[k].item = v3[j].item}
  BY <1>1 DEF Work!Losing
<1>6. v7 \subseteq v7' /\ v7' \subseteq FileJobs
  BY <1>2, <1>5 DEF Work!IInv, Work!TypeOK
<1>7. v8' \in 0 .. MaxFaults /\ v8' >= v8 /\ v8 \in Nat
  BY <1>2 DEF Work!IInv, Work!TypeOK, Work!Fault
<1>8. /\ v2' \in [Items -> (SUBSET Work!Files) \cup {Work!None}]
      /\ \A i \in Items \ {v3[j].item} : v2'[i] = v2[i]
      /\ \A i \in Items : Work!Has(i) => v2'[i] = v2[i]
      /\ step = "runs" => v2'[v3[j].item] # Work!None
  <2>1. {} # Work!None
    BY DEF Work!None
  <2>2. CASE UNCHANGED v2 /\ step = "refused"
    BY <2>2 DEF Work!IInv, Work!TypeOK
  <2>3. CASE v2' = [v2 EXCEPT ![v3[j].item] = {}] /\ ~Work!Has(v3[j].item)
    BY <1>1, <2>1, <2>3 DEF Work!IInv, Work!TypeOK, Work!Has
  <2> QED BY <1>2, <2>2, <2>3 DEF Work!Made
<1>9. Work!TypeOK'
  BY <1>1, <1>4, <1>6, <1>7, <1>8 DEF Work!IInv, Work!TypeOK, WorkJob
<1>10. Work!RefusedIfRaced'
  <2>1. step = "refused" => j \in v7' \/ v8' > 0
    BY <1>1, <1>2, <1>6, <1>7 DEF Work!IInv, Work!Looked, Work!Fault
  <2> QED BY <1>4, <1>6, <1>7, <2>1 DEF Work!IInv, Work!RefusedIfRaced
<1>11. Work!Looked'
  <2> SUFFICES ASSUME NEW k \in FileJobs
               PROVE  /\ v3'[k].at \in {"make", "remake"} => ~v1' \/ k \in v7'
                      /\ v3'[k].at \in {"own", "mine", "runs", "saves"} => v1'
                      /\ v3'[k].at = "mine" => ~Work!Has(v3[k].item)' \/ k \in v7'
    BY DEF Work!Looked
  <2>1. CASE k = j
    BY <1>1, <1>4, <2>1
  <2>2. CASE k # j
    <3>1. /\ v3'[k] = v3[k] /\ v3[k].item \in Items
          /\ v3[k].at \in {"make", "remake"} => ~v1 \/ k \in v7
          /\ v3[k].at = "mine" => ~Work!Has(v3[k].item) \/ k \in v7
      BY <1>4, <2>2 DEF Work!IInv, Work!TypeOK, Work!Looked
    <3>2. v3[k].at = "mine" /\ v3[k].item = v3[j].item => k \in v7' \/ UNCHANGED v2
      BY <1>2, <1>5, <2>2
    <3>3. v3'[k].at = "mine" => ~Work!Has(v3[k].item)' \/ k \in v7'
      BY <1>6, <1>8, <3>1, <3>2 DEF Work!Has
    <3> QED BY <1>1, <1>6, <3>1, <3>3
  <2> QED BY <2>1, <2>2
<1>12. Work!HasDirectory'
  <2> SUFFICES ASSUME NEW k \in FileJobs, v3'[k].at \in {"runs", "saves"}
               PROVE  \/ Work!Has(v3[k].item)' \/ v3'[k].item \in v5'
                      \/ Work!Removing(v3[k].item)'
    BY DEF Work!HasDirectory
  <2>1. CASE k = j
    BY <1>4, <1>8, <2>1 DEF Work!Has
  <2>2. CASE k # j
    <3>1. /\ v3'[k] = v3[k] /\ v3[k].item \in Items
          /\ Work!Has(v3[k].item) \/ v3[k].item \in v5 \/ Work!Removing(v3[k].item)
      BY <1>4, <2>2 DEF Work!IInv, Work!TypeOK, Work!HasDirectory
    <3> QED BY <1>1, <1>8, <3>1 DEF Work!Has, Work!Removing
  <2> QED BY <2>1, <2>2
<1>13. v3[j].item \notin Items \ v6 \/ (v3[j].item \notin v5 /\ ~Work!Removing(v3[j].item))
  BY <1>1 DEF Work!IInv, Work!Quiet, Work!Works
<1>14. Work!Quiet'
  BY <1>1, <1>2, <1>3, <1>8, <1>13, WorkStaysQuiet
<1> QED BY <1>9, <1>10, <1>11, <1>12, <1>14 DEF Work!IInv

(* Saving, opening and ending: the directory stays, or is made again. *)
LEMMA WorkRuns ==
    ASSUME Work!IInv, NEW j \in FileJobs, NEW step \in {"runs", "saves", "ended"},
           v3[j].at \in {"runs", "saves"},
           v3' \in [FileJobs -> WorkJob], v3'[j].at = step, v3'[j].item = v3[j].item,
           \A k \in FileJobs \ {j} : v3'[k] = v3[k],
           v1' = TRUE, UNCHANGED <<v4, v5, v6, v8>>,
           v2' \in [Items -> (SUBSET Work!Files) \cup {Work!None}],
           \A i \in Items \ {v3[j].item} : v2'[i] = v2[i],
           v2[v3[j].item] # Work!None => v2'[v3[j].item] # Work!None,
           v7 \subseteq v7', v7' \subseteq FileJobs,
           v2[v3[j].item] = Work!None /\ v2'[v3[j].item] # Work!None =>
               \A k \in FileJobs \ {j} : v3[k].at = "mine" /\ v3[k].item = v3[j].item => k \in v7'
    PROVE  Work!IInv'
<1> USE WorkConstants DEF Work!At, Work!Mine
<1>1. v1 /\ v3[j].item \in Items
  BY DEF Work!IInv, Work!Looked, Work!TypeOK
<1>2. Work!TypeOK'
  BY <1>1 DEF Work!IInv, Work!TypeOK, WorkJob
<1>3. Work!RefusedIfRaced'
  BY DEF Work!IInv, Work!RefusedIfRaced
<1>4. Work!Looked'
  <2> SUFFICES ASSUME NEW k \in FileJobs
               PROVE  /\ v3'[k].at \in {"make", "remake"} => ~v1' \/ k \in v7'
                      /\ v3'[k].at \in {"own", "mine", "runs", "saves"} => v1'
                      /\ v3'[k].at = "mine" => ~Work!Has(v3[k].item)' \/ k \in v7'
    BY DEF Work!Looked
  <2>1. CASE k = j
    BY <2>1
  <2>2. CASE k # j
    <3>1. /\ v3'[k] = v3[k] /\ v3[k].item \in Items
          /\ v3[k].at \in {"make", "remake"} => ~v1 \/ k \in v7
          /\ v3[k].at = "mine" => ~Work!Has(v3[k].item) \/ k \in v7
      BY <2>2 DEF Work!IInv, Work!TypeOK, Work!Looked
    <3>3. v3'[k].at = "mine" => ~Work!Has(v3[k].item)' \/ k \in v7'
      BY <2>2, <3>1 DEF Work!Has
    <3> QED BY <1>1, <3>1, <3>3
  <2> QED BY <2>1, <2>2
<1>5. Work!HasDirectory'
  <2> SUFFICES ASSUME NEW k \in FileJobs, v3'[k].at \in {"runs", "saves"}
               PROVE  \/ Work!Has(v3[k].item)' \/ v3'[k].item \in v5'
                      \/ Work!Removing(v3[k].item)'
    BY DEF Work!HasDirectory
  <2>1. /\ v3[k].at \in {"runs", "saves"} /\ v3'[k].item = v3[k].item /\ v3[k].item \in Items
    BY DEF Work!IInv, Work!TypeOK
  <2>2. Work!Has(v3[k].item) \/ v3[k].item \in v5 \/ Work!Removing(v3[k].item)
    BY <2>1 DEF Work!IInv, Work!HasDirectory
  <2> QED BY <2>1, <2>2 DEF Work!Has, Work!Removing
<1>6. Work!Quiet'
  <2> SUFFICES ASSUME NEW q \in Items \ v6'
               PROVE  /\ q \in v5' \/ Work!Removing(q)' => ~Work!Works(q)'
                      /\ q \in v5' => ~Work!Has(q)'
                      /\ Work!Removing(q)' /\ v4'.at = "list" => v2'[q] = v4'.list
                      /\ Work!Removing(q)' /\ v4'.at = "forget" => ~Work!Has(q)'
    BY DEF Work!Quiet
  <2>1. q \in Items \ v6 /\ (Work!Removing(q)' <=> Work!Removing(q))
    BY DEF Work!Removing
  <2>2. q \in v5 \/ Work!Removing(q) => ~Work!Works(q)
    BY <2>1 DEF Work!IInv, Work!Quiet
  <2>3. q \in v5 \/ Work!Removing(q) => q # v3[j].item
    BY <2>2 DEF Work!Works
  <2>4. q \in v5 \/ Work!Removing(q) => ~Work!Works(q)' /\ v2'[q] = v2[q]
    BY <2>2, <2>3 DEF Work!Works
  <2> QED BY <2>1, <2>4 DEF Work!IInv, Work!Quiet, Work!Has
<1> QED BY <1>2, <1>3, <1>4, <1>5, <1>6 DEF Work!IInv

LEMMA WorkSave ==
    ASSUME Work!IInv, NEW j \in FileJobs, Work!Save(j) \/ Work!Saved(j) \/ Work!Open(j) \/ Work!End(j)
    PROVE  Work!IInv'
<1> USE DEF Work!At, Work!Mine
<1>t. /\ v3 \in [FileJobs -> WorkJob] /\ v2 \in [Items -> (SUBSET Work!Files) \cup {Work!None}]
      /\ v3[j].item \in Items /\ v7 \subseteq FileJobs
  BY DEF Work!IInv, Work!TypeOK, WorkJob
<1>f. /\ \A S \in SUBSET Work!Files : S # Work!None
      /\ "tmp" \in Work!Files /\ "state" \in Work!Files /\ "data" \in Work!Files
      /\ "tmp" \notin Work!None
  BY DEF Work!Files, Work!None
<1>1. ASSUME v3[j].at \in {"runs", "saves"}
      PROVE  v1 = TRUE
  BY <1>1 DEF Work!IInv, Work!Looked, Work!TypeOK
<1>2. CASE Work!Save(j)
  <2>1. /\ v3[j].at = "runs" /\ Work!Goes(j, "saves")
        /\ v2' = [v2 EXCEPT ![v3[j].item] = @ \cup {"tmp"}]
        /\ v2[v3[j].item] # Work!None /\ UNCHANGED <<v1, v4, v5, v6, v7, v8>>
    BY <1>2 DEF Work!Save, Work!Has
  <2>2. "saves" \in Work!Steps
    BY DEF Work!Steps
  <2>3. /\ v3' \in [FileJobs -> WorkJob] /\ v3'[j].at = "saves" /\ v3'[j].item = v3[j].item
        /\ \A k \in FileJobs \ {j} : v3'[k] = v3[k]
    BY <2>1, <2>2, WorkGoes DEF Work!IInv
  <2>4. v2[v3[j].item] \in SUBSET Work!Files
    BY <1>t, <2>1
  <2>5. v2'[v3[j].item] \in SUBSET Work!Files /\ v2'[v3[j].item] # Work!None
    BY <1>t, <1>f, <2>1, <2>4
  <2>6. /\ v2' \in [Items -> (SUBSET Work!Files) \cup {Work!None}]
        /\ \A i \in Items \ {v3[j].item} : v2'[i] = v2[i]
    BY <1>t, <2>1, <2>5
  <2> QED BY <1>t, <1>1, <2>1, <2>3, <2>5, <2>6, WorkRuns
<1>3. CASE Work!Saved(j)
  <2>1. /\ v3[j].at = "saves" /\ Work!Goes(j, "runs")
        /\ v2' = IF "tmp" \in v2[v3[j].item]
                 THEN [v2 EXCEPT ![v3[j].item] = (@ \ {"tmp"}) \cup {"state"}] ELSE v2
        /\ UNCHANGED <<v1, v4, v5, v6, v7, v8>>
    BY <1>3 DEF Work!Saved
  <2>2. "runs" \in Work!Steps
    BY DEF Work!Steps
  <2>3. /\ v3' \in [FileJobs -> WorkJob] /\ v3'[j].at = "runs" /\ v3'[j].item = v3[j].item
        /\ \A k \in FileJobs \ {j} : v3'[k] = v3[k]
    BY <2>1, <2>2, WorkGoes DEF Work!IInv
  <2>4. CASE "tmp" \in v2[v3[j].item]
    <3>1. v2[v3[j].item] \in SUBSET Work!Files
      BY <1>t, <1>f, <2>4
    <3>2. v2'[v3[j].item] \in SUBSET Work!Files /\ v2'[v3[j].item] # Work!None
      BY <1>t, <1>f, <2>1, <2>4, <3>1
    <3>3. /\ v2' \in [Items -> (SUBSET Work!Files) \cup {Work!None}]
          /\ \A i \in Items \ {v3[j].item} : v2'[i] = v2[i]
      BY <1>t, <2>1, <2>4, <3>2
    <3>4. v2[v3[j].item] # Work!None
      BY <1>f, <3>1
    <3> QED BY <1>t, <1>1, <2>1, <2>3, <3>2, <3>3, <3>4, WorkRuns
  <2>5. CASE "tmp" \notin v2[v3[j].item]
    <3>1. v2' = v2
      BY <2>1, <2>5
    <3> QED BY <1>t, <1>1, <2>1, <2>3, <3>1, WorkRuns
  <2> QED BY <2>4, <2>5
<1>4. CASE Work!Open(j)
  <2>1. /\ v3[j].at = "runs" /\ v3' = [v3 EXCEPT ![j].opened = TRUE] /\ v1' = TRUE
        /\ v2' = [v2 EXCEPT ![v3[j].item] = (@ \ Work!None) \cup {"data"}]
        /\ v7' = v7 \cup (IF v1 THEN {} ELSE Work!Losing(j, {"make", "remake"}, "all"))
                    \cup (IF v2[v3[j].item] # Work!None THEN {} ELSE Work!Losing(j, {"mine"}, v3[j].item))
        /\ UNCHANGED <<v4, v5, v6, v8>>
    BY <1>4 DEF Work!Open, Work!Has
  <2>2. /\ v3' \in [FileJobs -> WorkJob] /\ v3'[j].at = "runs" /\ v3'[j].item = v3[j].item
        /\ \A k \in FileJobs \ {j} : v3'[k] = v3[k]
    BY <1>t, <2>1 DEF WorkJob
  <2>3. Work!Losing(j, {"mine"}, v3[j].item) =
           {k \in FileJobs \ {j} : v3[k].at = "mine" /\ v3[k].item = v3[j].item}
    BY <1>t DEF Work!Losing
  <2>4. Work!Losing(j, {"make", "remake"}, "all") \subseteq FileJobs
    BY DEF Work!Losing
  <2>5. v7 \subseteq v7' /\ v7' \subseteq FileJobs
    BY <1>t, <2>1, <2>3, <2>4
  <2>6. v2[v3[j].item] \ Work!None \in SUBSET Work!Files
    BY <1>t
  <2>7. v2'[v3[j].item] \in SUBSET Work!Files /\ v2'[v3[j].item] # Work!None
    BY <1>t, <1>f, <2>1, <2>6
  <2>8. /\ v2' \in [Items -> (SUBSET Work!Files) \cup {Work!None}]
        /\ \A i \in Items \ {v3[j].item} : v2'[i] = v2[i]
    BY <1>t, <2>1, <2>7
  <2>9. v2[v3[j].item] = Work!None =>
           \A k \in FileJobs \ {j} : v3[k].at = "mine" /\ v3[k].item = v3[j].item => k \in v7'
    BY <2>1, <2>3
  <2> QED BY <2>1, <2>2, <2>5, <2>7, <2>8, <2>9, WorkRuns
<1>5. CASE Work!End(j)
  <2>1. v3[j].at = "runs" /\ Work!Goes(j, "ended") /\ UNCHANGED <<v1, v2, v4, v5, v6, v7, v8>>
    BY <1>5 DEF Work!End
  <2>2. "ended" \in Work!Steps
    BY DEF Work!Steps
  <2>3. /\ v3' \in [FileJobs -> WorkJob] /\ v3'[j].at = "ended" /\ v3'[j].item = v3[j].item
        /\ \A k \in FileJobs \ {j} : v3'[k] = v3[k]
    BY <2>1, <2>2, WorkGoes DEF Work!IInv
  <2> QED BY <1>t, <1>1, <2>1, <2>3, WorkRuns
<1> QED BY <1>2, <1>3, <1>4, <1>5

(* After the death of the process no job is under way. *)
LEMMA WorkDie == ASSUME Work!IInv, NEW j \in FileJobs, Work!Die(j) PROVE Work!IInv'
<1> USE WorkConstants DEF Work!At
<1>1. /\ v4' = [v4 EXCEPT !.at = "none", !.list = {}]
      /\ v3' = [k \in FileJobs |-> IF v3[k].at = "idle" THEN v3[k] ELSE [v3[k] EXCEPT !.at = "ended"]]
      /\ UNCHANGED <<v1, v2, v5, v6, v7>> /\ v8 < MaxFaults /\ v8' = v8 + 1
  BY DEF Work!Die, Work!Fault
<1>2. v8' \in 0 .. MaxFaults
  BY <1>1 DEF Work!IInv, Work!TypeOK
<1>3. v3 \in [FileJobs -> WorkJob] /\ "ended" \in Work!Steps
  BY DEF Work!IInv, Work!TypeOK, WorkJob, Work!Steps
<1>4. ASSUME NEW k \in FileJobs
      PROVE  v3'[k] \in WorkJob /\ v3'[k].at \in {"idle", "ended"} /\ v3'[k].item = v3[k].item
  <2>1. v3[k] \in WorkJob
    BY <1>3
  <2>2. CASE v3[k].at = "idle"
    BY <1>1, <2>1, <2>2
  <2>3. CASE v3[k].at # "idle"
    BY <1>1, <1>3, <2>1, <2>3 DEF WorkJob
  <2> QED BY <2>2, <2>3
<1>5. v3' \in [FileJobs -> WorkJob]
  BY <1>1, <1>4
<1>6. /\ v4' \in [at : {"none", "open", "list", "forget"}, item : Items, list : SUBSET Work!Files]
      /\ v4'.at = "none"
  BY <1>1 DEF Work!IInv, Work!TypeOK
<1>7. Work!TypeOK'
  BY <1>1, <1>2, <1>5, <1>6 DEF Work!IInv, Work!TypeOK, WorkJob
<1>8. Work!RefusedIfRaced' /\ Work!HasDirectory' /\ Work!Looked'
  BY <1>4 DEF Work!RefusedIfRaced, Work!HasDirectory, Work!Looked
<1>9. Work!Quiet'
  BY <1>1, <1>4, <1>6 DEF Work!IInv, Work!Quiet, Work!Works, Work!Removing, Work!Has
<1> QED BY <1>7, <1>8, <1>9 DEF Work!IInv

LEMMA WorkRemove == ASSUME Work!IInv, NEW i \in Items, Work!Remove(i) PROVE Work!IInv'
<1> USE WorkConstants DEF Work!At, Work!Mine
<1>1. /\ v4.at = "none" /\ i \notin v5 /\ v4' = [v4 EXCEPT !.at = "open", !.item = i]
      /\ v2' = IF "state" \in v2[i] THEN [v2 EXCEPT ![i] = @ \ {"data"}] ELSE v2
      /\ v6' = IF Work!Works(i) THEN v6 \cup {i} ELSE v6
      /\ UNCHANGED <<v1, v3, v5, v7, v8>>
  BY DEF Work!Remove
<1>2. /\ v4' \in [at : {"none", "open", "list", "forget"}, item : Items, list : SUBSET Work!Files]
      /\ v4'.at = "open" /\ v4'.item = i
  BY <1>1 DEF Work!IInv, Work!TypeOK
<1>3. /\ v2' \in [Items -> (SUBSET Work!Files) \cup {Work!None}]
      /\ \A k \in Items \ {i} : v2'[k] = v2[k]
      /\ \A k \in Items : v2'[k] = Work!None <=> v2[k] = Work!None
  <2>1. v2 \in [Items -> (SUBSET Work!Files) \cup {Work!None}]
    BY DEF Work!IInv, Work!TypeOK
  <2>2. CASE "state" \notin v2[i]
    BY <1>1, <2>1, <2>2
  <2>3. CASE "state" \in v2[i]
    <3>1. "state" \notin Work!None /\ \A S \in SUBSET Work!Files : S # Work!None
      BY DEF Work!None, Work!Files
    <3>2. v2[i] \in SUBSET Work!Files /\ v2[i] \ {"data"} \in SUBSET Work!Files
      BY <2>1, <2>3, <3>1
    <3>3. v2' = [v2 EXCEPT ![i] = @ \ {"data"}]
      BY <1>1, <2>3
    <3> QED BY <2>1, <3>1, <3>2, <3>3
  <2> QED BY <2>2, <2>3
<1>4. v6 \subseteq v6' /\ v6' \subseteq Items /\ (Work!Works(i) => i \in v6')
  BY <1>1 DEF Work!IInv, Work!TypeOK
<1>5. Work!TypeOK'
  BY <1>1, <1>2, <1>3, <1>4 DEF Work!IInv, Work!TypeOK
<1>6. Work!RefusedIfRaced'
  BY <1>1 DEF Work!IInv, Work!RefusedIfRaced
<1>7. \A j \in FileJobs : v3[j].item \in Items
  BY DEF Work!IInv, Work!TypeOK
<1>8. Work!HasDirectory' /\ Work!Looked'
  BY <1>1, <1>2, <1>3, <1>7 DEF Work!IInv, Work!HasDirectory, Work!Looked, Work!Has, Work!Removing
<1>9. Work!Quiet'
  <2> SUFFICES ASSUME NEW q \in Items \ v6'
               PROVE  /\ q \in v5' \/ Work!Removing(q)' => ~Work!Works(q)'
                      /\ q \in v5' => ~Work!Has(q)'
                      /\ Work!Removing(q)' /\ v4'.at = "list" => v2'[q] = v4'.list
                      /\ Work!Removing(q)' /\ v4'.at = "forget" => ~Work!Has(q)'
    BY DEF Work!Quiet
  <2>1. q \in Items \ v6 /\ (Work!Removing(q)' <=> q = i) /\ (Work!Works(q)' <=> Work!Works(q))
    BY <1>1, <1>2, <1>4 DEF Work!Removing, Work!Works
  <2>2. q = i => ~Work!Works(q)
    BY <1>4
  <2>3. q \in v5 => ~Work!Works(q) /\ ~Work!Has(q)
    BY <2>1 DEF Work!IInv, Work!Quiet
  <2> QED BY <1>1, <1>2, <1>3, <2>1, <2>2, <2>3 DEF Work!Has
<1> QED BY <1>5, <1>6, <1>8, <1>9 DEF Work!IInv

(* A step of the removal touches one directory, and leaves the jobs alone. *)
LEMMA WorkRemoval ==
    ASSUME Work!IInv, Work!OpenDir \/ Work!Entry \/ Work!Rmdir \/ Work!Forget PROVE Work!IInv'
<1> USE WorkConstants DEF Work!At, Work!Mine
<1>1. PICK i \in Items : i = v4.item
  BY DEF Work!IInv, Work!TypeOK
<1>t. /\ v2 \in [Items -> (SUBSET Work!Files) \cup {Work!None}] /\ v4.list \in SUBSET Work!Files
      /\ v4 \in [at : {"none", "open", "list", "forget"}, item : Items, list : SUBSET Work!Files]
      /\ \A S \in SUBSET Work!Files : S # Work!None
      /\ i \notin v6 /\ v4.at # "none" => ~Work!Works(i)
      /\ i \notin v6 /\ v4.at = "list" => v2[i] = v4.list
      /\ i \notin v6 /\ v4.at = "forget" => v2[i] = Work!None
  BY <1>1 DEF Work!IInv, Work!TypeOK, Work!Quiet, Work!Removing, Work!Has, Work!Files, Work!None
<1>2. /\ v4.at # "none" /\ v4'.item = i /\ UNCHANGED <<v1, v3, v6, v7, v8>>
      /\ v4' \in [at : {"none", "open", "list", "forget"}, item : Items, list : SUBSET Work!Files]
      /\ v2' \in [Items -> (SUBSET Work!Files) \cup {Work!None}]
      /\ \A k \in Items \ {i} : v2'[k] = v2[k]
      /\ v2[i] = Work!None => v2'[i] = Work!None
      /\ \/ v5' = v5 /\ v4'.at \in {"list", "forget"}
         \/ v4'.at = "none" /\ v5' = v5 \cup {i} /\ v4.at = "forget" /\ v2' = v2
      /\ i \notin v6 /\ v4'.at = "list" => v2'[i] = v4'.list
      /\ i \notin v6 /\ v4'.at = "forget" => v2'[i] = Work!None
  <2>1. CASE Work!OpenDir
    <3>1. /\ v4.at = "open" /\ UNCHANGED <<v1, v2, v3, v5, v6, v7, v8>>
          /\ v4' = IF v2[i] # Work!None THEN [v4 EXCEPT !.at = "list", !.list = v2[i]]
                   ELSE [v4 EXCEPT !.at = "forget"]
      BY <1>1, <2>1 DEF Work!OpenDir, Work!Has
    <3> QED BY <1>1, <1>t, <3>1
  <2>2. CASE Work!Entry
    <3>1. PICK f \in v4.list :
            IF f \in v2[i]
            THEN /\ v2' = [v2 EXCEPT ![i] = @ \ {f}]
                 /\ v4' = [v4 EXCEPT !.list = @ \ {f}]
            ELSE v4' = [v4 EXCEPT !.at = "forget", !.list = {}] /\ v2' = v2
      BY <1>1, <2>2 DEF Work!Entry, Work!Rest
    <3>2. v4.at = "list" /\ UNCHANGED <<v1, v3, v5, v6, v7, v8>>
      BY <2>2 DEF Work!Entry
    <3>3. CASE f \notin v2[i]
      BY <1>1, <1>t, <3>1, <3>2, <3>3
    <3>4. CASE f \in v2[i]
      <4>1. f \notin Work!None
        BY <1>t, <3>1 DEF Work!Files, Work!None
      <4>2. v2[i] \in SUBSET Work!Files /\ v2[i] \ {f} \in SUBSET Work!Files
        BY <1>t, <3>4, <4>1
      <4>3. /\ v2' \in [Items -> (SUBSET Work!Files) \cup {Work!None}]
            /\ \A k \in Items \ {i} : v2'[k] = v2[k]
            /\ v2'[i] = v2[i] \ {f} /\ v2[i] # Work!None
        BY <1>t, <3>1, <3>4, <4>2
      <4>4. /\ v4' \in [at : {"none", "open", "list", "forget"}, item : Items, list : SUBSET Work!Files]
            /\ v4'.item = i /\ v4'.at = "list" /\ v4'.list = v4.list \ {f}
        BY <1>1, <1>t, <3>1, <3>2, <3>4
      <4> QED BY <1>t, <3>2, <4>3, <4>4
    <3> QED BY <3>3, <3>4
  <2>3. CASE Work!Rmdir
    <3>1. /\ v4.at = "list" /\ v4.list = {} /\ UNCHANGED <<v1, v3, v5, v6, v7, v8>>
          /\ v2' = IF v2[i] = {} THEN [v2 EXCEPT ![i] = Work!None] ELSE v2
          /\ v4' = [v4 EXCEPT !.at = "forget"]
      BY <1>1, <2>3 DEF Work!Rmdir
    <3>2. /\ v4' \in [at : {"none", "open", "list", "forget"}, item : Items, list : SUBSET Work!Files]
          /\ v4'.item = i /\ v4'.at = "forget"
      BY <1>1, <1>t, <3>1
    <3>3. /\ v2' \in [Items -> (SUBSET Work!Files) \cup {Work!None}]
          /\ \A k \in Items \ {i} : v2'[k] = v2[k]
          /\ v2[i] = Work!None => v2'[i] = Work!None
          /\ v2[i] = {} => v2'[i] = Work!None
      BY <1>t, <3>1
    <3> QED BY <1>t, <3>1, <3>2, <3>3
  <2>4. CASE Work!Forget
    <3>1. /\ v4.at = "forget" /\ v4' = [v4 EXCEPT !.at = "none"]
          /\ v5' = v5 \cup {i} /\ UNCHANGED <<v1, v2, v3, v6, v7, v8>>
      BY <1>1, <2>4 DEF Work!Forget
    <3> QED BY <1>1, <1>t, <3>1
  <2> QED BY <2>1, <2>2, <2>3, <2>4
<1>3. Work!TypeOK'
  BY <1>2 DEF Work!IInv, Work!TypeOK
<1>4. Work!RefusedIfRaced'
  BY <1>2 DEF Work!IInv, Work!RefusedIfRaced
<1>5. Work!Looked'
  BY <1>2 DEF Work!IInv, Work!TypeOK, Work!Looked, Work!Has
<1>6. Work!HasDirectory'
  <2> SUFFICES ASSUME NEW k \in FileJobs, v3[k].at \in {"runs", "saves"}
               PROVE  \/ Work!Has(v3[k].item)' \/ v3[k].item \in v5'
                      \/ Work!Removing(v3[k].item)'
    BY <1>2 DEF Work!HasDirectory
  <2>1. /\ v3[k].item \in Items
        /\ Work!Has(v3[k].item) \/ v3[k].item \in v5 \/ Work!Removing(v3[k].item)
    BY DEF Work!IInv, Work!TypeOK, Work!HasDirectory
  <2>2. CASE v3[k].item = i
    BY <1>2, <2>2 DEF Work!Removing
  <2>3. CASE v3[k].item # i
    BY <1>1, <1>2, <2>1, <2>3 DEF Work!Removing, Work!Has
  <2> QED BY <2>2, <2>3
<1>7. Work!Quiet'
  <2> SUFFICES ASSUME NEW q \in Items \ v6'
               PROVE  /\ q \in v5' \/ Work!Removing(q)' => ~Work!Works(q)'
                      /\ q \in v5' => ~Work!Has(q)'
                      /\ Work!Removing(q)' /\ v4'.at = "list" => v2'[q] = v4'.list
                      /\ Work!Removing(q)' /\ v4'.at = "forget" => ~Work!Has(q)'
    BY DEF Work!Quiet
  <2>1. /\ q \in Items \ v6 /\ (Work!Removing(q)' => q = i) /\ (Work!Works(q)' <=> Work!Works(q))
        /\ q \in v5' => q \in v5 \/ q = i
    BY <1>2 DEF Work!Removing, Work!Works
  <2>2. q \in v5 => ~Work!Works(q) /\ v2[q] = Work!None
    BY <2>1 DEF Work!IInv, Work!Quiet, Work!Has
  <2>3. q = i => ~Work!Works(q)
    BY <1>t, <1>2, <2>1
  <2>4. q \in v5' => v2'[q] = Work!None
    BY <1>t, <1>2, <2>1, <2>2
  <2> QED BY <1>2, <2>1, <2>2, <2>3, <2>4 DEF Work!Has
<1> QED BY <1>3, <1>4, <1>5, <1>6, <1>7 DEF Work!IInv

LEMMA WorkNextInv == Work!IInv /\ [Work!Next]_(Work!vars) => Work!IInv'
<1> SUFFICES ASSUME Work!IInv, [Work!Next]_(Work!vars) PROVE Work!IInv'
  OBVIOUS
<1>1. ASSUME NEW j \in FileJobs, Work!Step(j) PROVE Work!IInv'
  BY <1>1, WorkBegin, WorkLook, WorkMakeRoot, WorkMakeOwn, WorkSave, WorkDie DEF Work!Step
<1>2. ASSUME Work!Removal PROVE Work!IInv'
  BY <1>2, WorkRemove, WorkRemoval DEF Work!Removal
<1>3. CASE UNCHANGED Work!vars
  BY <1>3 DEF Work!vars, Work!IInv, Work!TypeOK, Work!RefusedIfRaced, Work!HasDirectory, Work!Looked,
     Work!Quiet, Work!At, Work!Mine, Work!Has, Work!Works, Work!Removing
<1> QED BY <1>1, <1>2, <1>3 DEF Work!Next

LEMMA WorkShows ==
    Work!IInv => Work!TypeOK /\ Work!RefusedIfRaced /\ Work!HasDirectory /\ Work!RemovedIsGone
BY DEF Work!IInv, Work!Quiet, Work!TypeOK, Work!RemovedIsGone

-----------------------------------------------------------------------------
(* One request through a proxy or without. *)

RequestResult == [done : BOOLEAN, failed : BOOLEAN, status : Request!Replies \cup {"none"},
                   size : {0, 1, Size}]

LEMMA SizeStays ==
    ASSUME Request!SizeIsTheFiles, UNCHANGED <<v1, v15>>
    PROVE  Request!SizeIsTheFiles'
BY DEF Request!SizeIsTheFiles

LEMMA SizeIsNone == ASSUME v15'.size = 0 PROVE Request!SizeIsTheFiles'
BY DEF Request!SizeIsTheFiles

LEMMA RequestInitInv == Request!Init => Request!IInv
<1> SUFFICES ASSUME Request!Init PROVE Request!IInv
  OBVIOUS
<1>1. v10 = <<>> /\ v12 = <<>>
  BY DEF Request!Init
<1>2. v10 \in Seq(Request!Words) /\ Len(v10) = 0 /\ v12 \in Seq(Request!Replies)
  BY <1>1
<1>3. v15 = [done |-> FALSE, failed |-> FALSE, status |-> "none", size |-> 0]
  BY DEF Request!Init, Request!Pending
<1>4. v15 \in RequestResult /\ v15.size = 0
  BY <1>3 DEF RequestResult
<1>5. v5 = "none" /\ v6 = "no" /\ v7 = "none" /\ v9 = FALSE /\ v11 = 0
  BY DEF Request!Init
<1>6. Request!TypeOK /\ Request!SizeIsTheFiles
  BY <1>2, <1>4, <1>5 DEF Request!TypeOK, Request!SizeIsTheFiles
<1>7. \A i \in 1 .. Len(v10) : FALSE
  BY <1>2
<1>8. Request!SaidOnce
  BY <1>2, <1>5, <1>7 DEF Request!SaidOnce, Request!AsksOnce
<1> QED BY <1>2, <1>4, <1>6, <1>8 DEF Request!IInv, RequestResult

(* One more word: not a request, or the first. *)
LEMMA SayOnce ==
    ASSUME Request!SaidOnce, NEW w \in Request!Words, v10' = Append(v10, w), v3' = v3,
           \/ w # "request" /\ v9' = v9 /\ v3 # "none"
           \/ w = "request" /\ ~v9 /\ v9' = TRUE
    PROVE  Request!SaidOnce' /\ Len(v10) \in Nat /\ Len(v10') = Len(v10) + 1
<1>1. v10 \in Seq(Request!Words) /\ Len(v10) \in Nat
  BY LenProperties DEF Request!SaidOnce
<1>2. /\ v10' \in Seq(Request!Words) /\ Len(v10') = Len(v10) + 1
      /\ \A i \in 1 .. Len(v10) : v10'[i] = v10[i]
      /\ v10'[Len(v10) + 1] = w
  BY <1>1, AppendProperties
<1>3. \A i \in 1 .. Len(v10') : i \in 1 .. Len(v10) \/ i = Len(v10) + 1
  BY <1>1, <1>2
<1>4. Request!AsksOnce'
  <2>1. SUFFICES ASSUME NEW i \in 1 .. Len(v10'), NEW j \in 1 .. Len(v10'),
                        v10'[i] = "request", v10'[j] = "request"
                 PROVE  i = j
    BY DEF Request!AsksOnce
  <2>2. CASE i \in 1 .. Len(v10) /\ j \in 1 .. Len(v10)
    BY <1>2, <2>1, <2>2 DEF Request!SaidOnce, Request!AsksOnce
  <2>3. CASE i \in 1 .. Len(v10) /\ j = Len(v10) + 1
    BY <1>2, <2>1, <2>3 DEF Request!SaidOnce
  <2>4. CASE i = Len(v10) + 1 /\ j \in 1 .. Len(v10)
    BY <1>2, <2>1, <2>4 DEF Request!SaidOnce
  <2> QED BY <1>3, <2>2, <2>3, <2>4
<1>5. ~v9' => \A i \in 1 .. Len(v10') : v10'[i] # "request"
  BY <1>2, <1>3 DEF Request!SaidOnce
<1>6. v3' = "none" => \A i \in 1 .. Len(v10') : v10'[i] = "request"
  BY <1>2, <1>3 DEF Request!SaidOnce
<1> QED BY <1>1, <1>2, <1>4, <1>5, <1>6 DEF Request!SaidOnce

(* The request is one more word, if it is due. *)
LEMMA RequestIsOne ==
    ASSUME Request!SaidOnce, v3' = v3, Request!Request
    PROVE  Request!SaidOnce' /\ Len(v10) \in Nat /\ Len(v10') >= Len(v10) /\ Len(v10') \in Nat
<1>1. v10 \in Seq(Request!Words) /\ Len(v10) \in Nat /\ "request" \in Request!Words
  BY LenProperties DEF Request!SaidOnce, Request!Words
<1>2. CASE ~v9
  <2>1. v9' = TRUE /\ v10' = v10 \o <<"request">>
    BY <1>2 DEF Request!Request, Request!MayRequest, Request!Say
  <2>2. v10' = Append(v10, "request")
    BY <1>1, <2>1, AppendIsConcat
  <2>3. Request!SaidOnce' /\ Len(v10') = Len(v10) + 1
    BY <1>1, <1>2, <2>1, <2>2, SayOnce
  <2> QED BY <1>1, <2>3
<1>3. CASE v9
  <2>1. UNCHANGED <<v9, v10>>
    BY <1>3 DEF Request!Request, Request!MayRequest
  <2> QED BY <1>1, <2>1 DEF Request!SaidOnce, Request!AsksOnce
<1> QED BY <1>2, <1>3

(* A word of the handshake with a proxy. *)
LEMMA WordIsOne ==
    ASSUME Request!SaidOnce, v3' = v3, v9' = v9, v3 # "none",
           NEW w \in {"greeting", "user", "target", "connect"}, Request!Say(<<w>>)
    PROVE  Request!SaidOnce' /\ Len(v10) \in Nat /\ Len(v10') >= Len(v10) /\ Len(v10') \in Nat
<1>1. v10 \in Seq(Request!Words) /\ Len(v10) \in Nat /\ w \in Request!Words /\ w # "request"
  BY LenProperties DEF Request!SaidOnce, Request!Words
<1>2. v10' = Append(v10, w)
  BY <1>1, AppendIsConcat DEF Request!Say
<1>3. Request!SaidOnce' /\ Len(v10') = Len(v10) + 1
  BY <1>1, <1>2, SayOnce
<1> QED BY <1>1, <1>3

(* What is left of the invariant when what was said and what came back are in *)
(* order.                                                                     *)
LEMMA RequestHolds ==
    ASSUME Request!IInv, UNCHANGED <<v1, v3>>, Request!SaidOnce',
           v5' \in {"none", "connecting", "open", "closed"},
           v6' \in {"no", "handshake", "up"},
           v7' \in {"none", "greeting", "user", "target", "done", "failed"},
           v11' \in 0 .. Len(v10'), v12' \in Seq(Request!Replies), v15' \in RequestResult,
           Request!SizeIsTheFiles'
    PROVE  Request!IInv'
<1>1. Request!TypeOK'
  BY DEF Request!TypeOK, RequestResult
<1> QED BY <1>1 DEF Request!IInv, RequestResult

LEMMA RequestTypes ==
    ASSUME Request!IInv
    PROVE  /\ v5 \in {"none", "connecting", "open", "closed"}
           /\ v6 \in {"no", "handshake", "up"}
           /\ v7 \in {"none", "greeting", "user", "target", "done", "failed"}
           /\ v10 \in Seq(Request!Words) /\ Len(v10) \in Nat
           /\ v11 \in Nat /\ v11 <= Len(v10)
           /\ v12 \in Seq(Request!Replies) /\ v15 \in RequestResult
           /\ Request!SaidOnce
           /\ Request!SizeIsTheFiles
<1>1. v10 \in Seq(Request!Words) /\ Len(v10) \in Nat
  BY LenProperties DEF Request!IInv, Request!SaidOnce
<1>2. v11 \in Nat /\ v11 <= Len(v10)
  BY <1>1 DEF Request!IInv, Request!TypeOK
<1> QED BY <1>1, <1>2 DEF Request!IInv, Request!TypeOK, Request!SizeIsTheFiles, RequestResult

(* A failure keeps what was found. *)
LEMMA FailureIsResult ==
    ASSUME Request!IInv, v1' = v1, v15' = Request!Failure
    PROVE  /\ v15' \in RequestResult
           /\ Request!SizeIsTheFiles'
<1>1. v15' = [v15 EXCEPT !.done = TRUE, !.failed = TRUE] /\ v15 \in RequestResult
  BY RequestTypes DEF Request!Failure
<1>2. v15' \in RequestResult /\ v15'.status = v15.status /\ v15'.size = v15.size
  BY <1>1 DEF RequestResult
<1> QED BY <1>2, RequestTypes DEF Request!SizeIsTheFiles

(* A successful answer gives a size that is the file's, but for a total that is *)
(* not told.                                                                    *)
LEMMA AnswerIsResult ==
    ASSUME Request!IInv, v1' = v1, NEW answer \in Request!Replies, Request!Answered(answer)
    PROVE  /\ v15' \in RequestResult
           /\ Request!SizeIsTheFiles'
<1>1. PICK size : size = IF v1 = "probe" THEN Request!SizeOf(answer) ELSE 0
  OBVIOUS
<1>2. v15' = [done |-> TRUE, failed |-> FALSE, status |-> answer, size |-> size]
  BY <1>1 DEF Request!Answered, Request!Done
<1>3. /\ size \in {0, 1, Size}
      /\ answer \in Request!Successful \ {"206-star"} => size \in {0, Size}
  BY <1>1 DEF Request!SizeOf, Request!SizeIn, Request!Successful
<1>4. v15' \in RequestResult /\ v15'.status = answer /\ v15'.size = size
  BY <1>2, <1>3 DEF RequestResult
<1> QED BY <1>3, <1>4 DEF Request!SizeIsTheFiles

(* The handlers, but for that of an answer. *)
LEMMA RequestEvents ==
    ASSUME Request!IInv,
           \/ Request!Connect \/ Request!Connected \/ Request!HandshakeDone \/ Request!WriteDone
           \/ Request!Unheard \/ Request!Error \/ Request!Close \/ Request!Expire
           \/ Request!ProbeAgain
    PROVE  Request!IInv'
<1>t. /\ v5 \in {"none", "connecting", "open", "closed"} /\ v6 \in {"no", "handshake", "up"}
      /\ v7 \in {"none", "greeting", "user", "target", "done", "failed"}
      /\ v10 \in Seq(Request!Words) /\ Len(v10) \in Nat /\ v11 \in Nat /\ v11 <= Len(v10)
      /\ v12 \in Seq(Request!Replies) /\ v15 \in RequestResult /\ Request!SaidOnce
      /\ Request!SizeIsTheFiles
  BY RequestTypes
<1>a. ASSUME UNCHANGED <<v3, v9, v10>>
      PROVE  Request!SaidOnce' /\ Len(v10') = Len(v10)
  BY <1>a, <1>t DEF Request!SaidOnce, Request!AsksOnce
<1>b. /\ [done |-> FALSE, failed |-> FALSE, status |-> "none", size |-> 0] \in RequestResult
      /\ [done |-> TRUE, failed |-> FALSE, status |-> "none", size |-> 0] \in RequestResult
  BY DEF RequestResult
<1>1. CASE Request!Connect
  <2>1. /\ v5' = "connecting" /\ v6' = "no" /\ v7' = "none" /\ v9' = FALSE
        /\ v10' = <<>> /\ v11' = 0 /\ v12' = <<>> /\ UNCHANGED <<v1, v3, v15>>
    BY <1>1 DEF Request!Connect, Request!kinds
  <2>2. v10' \in Seq(Request!Words) /\ Len(v10') = 0 /\ v12' \in Seq(Request!Replies)
    BY <2>1
  <2>3. \A i \in 1 .. Len(v10') : FALSE
    BY <2>2
  <2>4. Request!SaidOnce'
    BY <2>1, <2>2, <2>3 DEF Request!SaidOnce, Request!AsksOnce
  <2>5. v11' \in 0 .. Len(v10')
    BY <2>1, <2>2
  <2> QED BY <1>t, <2>1, <2>2, <2>4, <2>5, SizeStays, RequestHolds
<1>2. CASE Request!Connected
  <2>1. /\ v5' = "open" /\ UNCHANGED <<v1, v3, v11, v12, v15>>
        /\ v6' \in {"no", "handshake", "up"}
        /\ v7' \in {"none", "greeting", "user", "target", "done", "failed"}
    BY <1>2, <1>t DEF Request!Connected, Request!kinds
  <2>2. \/ v3 # "none" /\ Request!Say(<<"greeting">>) /\ v9' = v9
        \/ v3 # "none" /\ Request!Say(<<"connect">>) /\ v9' = v9
        \/ UNCHANGED <<v9, v10>>
        \/ Request!Request
    BY <1>2 DEF Request!Connected
  <2>3. Request!SaidOnce' /\ Len(v10') \in Nat /\ Len(v10') >= Len(v10)
    <3>1. CASE v3 # "none" /\ Request!Say(<<"greeting">>) /\ v9' = v9
      BY <1>t, <2>1, <3>1, WordIsOne
    <3>2. CASE v3 # "none" /\ Request!Say(<<"connect">>) /\ v9' = v9
      BY <1>t, <2>1, <3>2, WordIsOne
    <3>3. CASE UNCHANGED <<v9, v10>>
      BY <1>a, <1>t, <2>1, <3>3
    <3>4. CASE Request!Request
      BY <1>t, <2>1, <3>4, RequestIsOne
    <3> QED BY <2>2, <3>1, <3>2, <3>3, <3>4
  <2>4. v11' \in 0 .. Len(v10')
    BY <1>t, <2>1, <2>3
  <2> QED BY <1>t, <2>1, <2>3, <2>4, SizeStays, RequestHolds
<1>3. CASE Request!HandshakeDone
  <2>1. v6' = "up" /\ Request!Request /\ UNCHANGED <<v1, v3, v5, v7, v11, v12, v15>>
    BY <1>3 DEF Request!HandshakeDone, Request!kinds
  <2>2. Request!SaidOnce' /\ Len(v10') \in Nat /\ Len(v10') >= Len(v10)
    BY <1>t, <2>1, RequestIsOne
  <2>3. v11' \in 0 .. Len(v10')
    BY <1>t, <2>1, <2>2
  <2> QED BY <1>t, <2>1, <2>2, <2>3, SizeStays, RequestHolds
<1>4. CASE Request!WriteDone
  <2>1. /\ UNCHANGED <<v1, v3, v5, v6, v7, v11, v12, v15>>
        /\ \/ UNCHANGED <<v9, v10>>
           \/ ~v9 /\ v9' = TRUE /\ v10' = Append(v10, "request")
    BY <1>4 DEF Request!WriteDone, Request!kinds, Request!MayRequest
  <2>2. Request!SaidOnce' /\ Len(v10') \in Nat /\ Len(v10') >= Len(v10)
    <3>1. CASE UNCHANGED <<v9, v10>>
      BY <1>a, <1>t, <2>1, <3>1
    <3>2. CASE ~v9 /\ v9' = TRUE /\ v10' = Append(v10, "request")
      <4>1. "request" \in Request!Words
        BY DEF Request!Words
      <4>2. Request!SaidOnce' /\ Len(v10') = Len(v10) + 1
        BY <1>t, <2>1, <3>2, <4>1, SayOnce
      <4> QED BY <1>t, <4>2
    <3> QED BY <2>1, <3>1, <3>2
  <2>3. v11' \in 0 .. Len(v10')
    BY <1>t, <2>1, <2>2
  <2> QED BY <1>t, <2>1, <2>2, <2>3, SizeStays, RequestHolds
<1>5. CASE Request!Unheard
  <2>1. /\ UNCHANGED <<v1, v3, v5, v6, v7, v9, v10, v12, v15>>
        /\ v11 < Len(v10) /\ v11' = v11 + 1
    BY <1>5 DEF Request!Unheard, Request!kinds
  <2>2. Request!SaidOnce' /\ v11' \in 0 .. Len(v10')
    BY <1>a, <1>t, <2>1
  <2> QED BY <1>t, <2>1, <2>2, SizeStays, RequestHolds
<1>6. CASE Request!Error \/ Request!Expire
  <2>1. /\ UNCHANGED <<v1, v3, v6, v7, v9, v10, v11, v12>> /\ v5' = "closed"
        /\ v15' = Request!Failure
    BY <1>6 DEF Request!Error, Request!Expire, Request!kinds
  <2>2. Request!SaidOnce' /\ v11' \in 0 .. Len(v10')
    BY <1>a, <1>t, <2>1
  <2> QED BY <1>t, <2>1, <2>2, FailureIsResult, RequestHolds
<1>7. CASE Request!Close
  <2>1. /\ UNCHANGED <<v1, v3, v6, v7, v9, v10, v11, v12>> /\ v5' = "closed"
        /\ \/ v15' = [done |-> TRUE, failed |-> FALSE, status |-> "none", size |-> 0]
           \/ v15' = Request!Failure
    BY <1>7 DEF Request!Close, Request!kinds, Request!Done
  <2>2. Request!SaidOnce' /\ v11' \in 0 .. Len(v10')
    BY <1>a, <1>t, <2>1
  <2>3. /\ v15' \in RequestResult
        /\ Request!SizeIsTheFiles'
    <3>1. CASE v15' = [done |-> TRUE, failed |-> FALSE, status |-> "none", size |-> 0]
      <4>1. v15' \in RequestResult /\ v15'.size = 0
        BY <1>b, <3>1
      <4> QED BY <4>1, SizeIsNone
    <3>2. CASE v15' = Request!Failure
      BY <2>1, <3>2, FailureIsResult
    <3> QED BY <2>1, <3>1, <3>2
  <2> QED BY <1>t, <2>1, <2>2, <2>3, RequestHolds
<1>8. CASE Request!ProbeAgain
  <2>1. /\ UNCHANGED <<v1, v3, v6, v7, v9, v10, v11, v12>> /\ v5' = "none"
        /\ v15' = [done |-> FALSE, failed |-> FALSE, status |-> "none", size |-> 0]
    BY <1>8 DEF Request!ProbeAgain, Request!kinds, Request!Pending
  <2>2. Request!SaidOnce' /\ v11' \in 0 .. Len(v10')
    BY <1>a, <1>t, <2>1
  <2>3. v15' \in RequestResult /\ v15'.size = 0
    BY <1>b, <2>1
  <2> QED BY <1>t, <2>1, <2>2, <2>3, SizeIsNone, RequestHolds
<1> QED BY <1>1, <1>2, <1>3, <1>4, <1>5, <1>6, <1>7, <1>8

(* The tunnel stands. *)
LEMMA TunnelIsUp ==
    ASSUME Request!IInv, UNCHANGED <<v1, v3, v5, v15>>, Request!TunnelDone,
           v7' \in {"none", "greeting", "user", "target", "done", "failed"},
           v11 < Len(v10), v11' = v11 + 1
    PROVE  Request!IInv'
<1>t. /\ v5 \in {"none", "connecting", "open", "closed"} /\ v6 \in {"no", "handshake", "up"}
      /\ Len(v10) \in Nat /\ v11 \in Nat /\ v15 \in RequestResult /\ Request!SaidOnce
      /\ Request!SizeIsTheFiles
  BY RequestTypes
<1>1. v12' = <<>> /\ v6' \in {"no", "handshake", "up"}
  BY <1>t DEF Request!TunnelDone
<1>2. v12' \in Seq(Request!Replies)
  BY <1>1
<1>3. Request!Request \/ UNCHANGED <<v9, v10>>
  BY DEF Request!TunnelDone
<1>4. Request!SaidOnce' /\ Len(v10') \in Nat /\ Len(v10') >= Len(v10)
  <2>1. CASE UNCHANGED <<v9, v10>>
    BY <1>t, <2>1 DEF Request!SaidOnce, Request!AsksOnce
  <2>2. CASE Request!Request
    BY <1>t, <2>2, RequestIsOne
  <2> QED BY <1>3, <2>1, <2>2
<1>5. v11' \in 0 .. Len(v10')
  BY <1>t, <1>4
<1> QED BY <1>t, <1>1, <1>2, <1>4, <1>5, SizeStays, RequestHolds

(* The end of the request by what was read. *)
LEMMA ReadingEnds ==
    ASSUME Request!IInv, UNCHANGED <<v1, v3, v6, v9, v10>>, v5' = "closed",
           v7' \in {"none", "greeting", "user", "target", "done", "failed"},
           v11 < Len(v10), v11' = v11 + 1, v12' \in Seq(Request!Replies),
           \/ v15' = Request!Failure
           \/ \E reply \in Request!Replies : Request!Answered(reply)
    PROVE  Request!IInv'
<1>t. v6 \in {"no", "handshake", "up"} /\ Len(v10) \in Nat /\ v11 \in Nat /\ Request!SaidOnce
  BY RequestTypes
<1>1. /\ v15' \in RequestResult
      /\ Request!SizeIsTheFiles'
  BY FailureIsResult, AnswerIsResult
<1>2. Request!SaidOnce' /\ Len(v10') = Len(v10)
  BY <1>t DEF Request!SaidOnce, Request!AsksOnce
<1>3. v11' \in 0 .. Len(v10')
  BY <1>t, <1>2
<1> QED BY <1>t, <1>1, <1>2, <1>3, RequestHolds

LEMMA RequestAnswer == ASSUME Request!IInv, Request!Answer PROVE Request!IInv'
<1>t. /\ v5 \in {"none", "connecting", "open", "closed"} /\ v6 \in {"no", "handshake", "up"}
      /\ v7 \in {"none", "greeting", "user", "target", "done", "failed"}
      /\ v10 \in Seq(Request!Words) /\ Len(v10) \in Nat /\ v11 \in Nat /\ v11 <= Len(v10)
      /\ v12 \in Seq(Request!Replies) /\ v15 \in RequestResult /\ Request!SaidOnce
      /\ Request!SizeIsTheFiles
  BY RequestTypes
<1>1. /\ v11 < Len(v10) /\ v11' = v11 + 1 /\ UNCHANGED <<v1, v2, v3, v4, v14>>
      /\ v11 + 1 \in 1 .. Len(v10)
  BY <1>t DEF Request!Answer, Request!kinds
<1>2. PICK word \in Request!Words : word = v10[v11 + 1]
  BY <1>t, <1>1, ElementOfSeq
<1>3. PICK answer \in Request!Answers(word) : Request!Read(answer)
  BY <1>2 DEF Request!Answer
<1>4. answer \in Request!Replies
  BY <1>3 DEF Request!Answers, Request!Successful, Request!Replies, Request!Words
<1>5. PICK b : b = Append(v12, answer)
  OBVIOUS
<1>6. b \in Seq(Request!Replies) /\ b[1] \in Request!Replies
  <2>1. b \in Seq(Request!Replies) /\ Len(b) = Len(v12) + 1 /\ Len(v12) \in Nat
    BY <1>t, <1>4, <1>5, AppendProperties, LenProperties
  <2>2. 1 \in 1 .. Len(b)
    BY <2>1
  <2> QED BY <2>1, <2>2, ElementOfSeq
<1>7. \/ Request!SocksRead(b) /\ v3 # "none"
      \/ Request!TunnelDone /\ UNCHANGED <<v5, v7, v15>>
      \/ Request!NotOk(b) /\ v3 # "none"
      \/ Request!Answered(answer) /\ v12' = b
  BY <1>3, <1>5 DEF Request!Read
<1>8. CASE Request!SocksRead(b) /\ v3 # "none"
  <2>1. \/ /\ Request!Say(<<"user">>) \/ Request!Say(<<"target">>)
           /\ v12' = b /\ v7' \in {"user", "target"} /\ UNCHANGED <<v5, v6, v9, v15>>
        \/ Request!TunnelDone /\ v7' = "done" /\ UNCHANGED <<v5, v15>>
        \/ Request!Gone
    BY <1>8 DEF Request!SocksRead, Request!NotYet
  <2>2. CASE /\ Request!Say(<<"user">>) \/ Request!Say(<<"target">>)
             /\ v12' = b /\ v7' \in {"user", "target"} /\ UNCHANGED <<v5, v6, v9, v15>>
    <3>1. Request!SaidOnce' /\ Len(v10') \in Nat /\ Len(v10') >= Len(v10)
      <4>1. CASE Request!Say(<<"user">>)
        BY <1>t, <1>1, <1>8, <2>2, <4>1, WordIsOne
      <4>2. CASE Request!Say(<<"target">>)
        BY <1>t, <1>1, <1>8, <2>2, <4>2, WordIsOne
      <4> QED BY <2>2, <4>1, <4>2
    <3>2. v11' \in 0 .. Len(v10')
      BY <1>t, <1>1, <3>1
    <3> QED BY <1>t, <1>1, <1>6, <2>2, <3>1, <3>2, SizeStays, RequestHolds
  <2>3. CASE Request!TunnelDone /\ v7' = "done" /\ UNCHANGED <<v5, v15>>
    BY <1>1, <2>3, TunnelIsUp
  <2>4. CASE Request!Gone
    <3>1. /\ v7' = "failed" /\ v15' = Request!Failure /\ v5' = "closed"
          /\ UNCHANGED <<v6, v9, v10, v12>>
      BY <2>4 DEF Request!Gone, Request!NotYet
    <3> QED BY <1>t, <1>1, <3>1, ReadingEnds
  <2> QED BY <2>1, <2>2, <2>3, <2>4
<1>9. CASE Request!TunnelDone /\ UNCHANGED <<v5, v7, v15>>
  BY <1>t, <1>1, <1>9, TunnelIsUp
<1>10. CASE Request!NotOk(b) /\ v3 # "none"
  <2>1. PICK first \in Request!Replies : first = b[1]
    BY <1>6
  <2>2. /\ v12' = b /\ v5' = "closed" /\ UNCHANGED <<v6, v7, v9, v10>>
        /\ v15' = Request!Failure \/ Request!Answered(first)
    BY <1>10, <2>1 DEF Request!NotOk, Request!Answered, Request!NotYet
  <2> QED BY <1>t, <1>1, <1>6, <1>10, <2>1, <2>2, ReadingEnds
<1>11. CASE Request!Answered(answer) /\ v12' = b
  <2>1. v5' = "closed" /\ UNCHANGED <<v6, v7, v9, v10>>
    BY <1>11 DEF Request!Answered, Request!NotYet
  <2> QED BY <1>t, <1>1, <1>4, <1>6, <1>11, <2>1, ReadingEnds
<1> QED BY <1>7, <1>8, <1>9, <1>10, <1>11

LEMMA RequestNextInv == Request!IInv /\ [Request!Next]_(Request!vars) => Request!IInv'
<1> SUFFICES ASSUME Request!IInv, [Request!Next]_(Request!vars) PROVE Request!IInv'
  OBVIOUS
<1>1. CASE UNCHANGED Request!vars
  BY <1>1 DEF Request!vars, Request!kinds, Request!IInv, Request!TypeOK, Request!SaidOnce,
     Request!AsksOnce, Request!SizeIsTheFiles
<1> QED BY <1>1, RequestEvents, RequestAnswer DEF Request!Next, Request!Loop

LEMMA RequestShows == Request!IInv => Request!TypeOK /\ Request!AsksOnce /\ Request!SizeIsTheFiles
BY DEF Request!IInv, Request!SaidOnce

-----------------------------------------------------------------------------
(* The log of a daemon and the console. *)

(* daemon_rpc_logs_fetch: of lines that follow each other without a gap, what *)
(* is given is the first of those after the offset.                           *)
Numbered(r, n, first) == \A i \in 1..n : Log!Lines(r)[i] = first + i - 1
FirstAfter(g, since, n, first) ==
    \E m \in 0..n : \E from \in Nat :
       /\ g = [k \in 1..m |-> from + k - 1]
       /\ m > 0 => /\ from > since /\ from >= first /\ from + m <= first + n
                   /\ from = since + 1 \/ from <= first

LEMMA GivenIs ==
    ASSUME NEW r, NEW n \in Nat, r.count = n, NEW first \in Nat, NEW since \in Nat, Batch \in Nat \ {0},
           Numbered(r, n, first)
    PROVE  FirstAfter(Log!Given(r, since), since, n, first)
<1> DEFINE from == IF since + 1 < first THEN first ELSE since + 1
           behind(i) == IF first + i > from THEN first + i - from ELSE 0
           size(i) == IF behind(i) < Batch THEN behind(i) ELSE Batch
           upto(m) == [k \in 1..m |-> from + k - 1]
           Next1(s, i) == IF Log!Later(Log!Lines(r)[i], since) /\ Len(s) < Batch
                          THEN Append(s, Log!Lines(r)[i]) ELSE s
           Step1(f) == [i \in 0..r.count |-> IF i = 0 THEN <<>>
                          ELSE IF Log!Later(Log!Lines(r)[i], since) /\ Len(f[i - 1]) < Batch
                               THEN Append(f[i - 1], Log!Lines(r)[i]) ELSE f[i - 1]]
           fetch == CHOOSE f : f = Step1(f)
<1>1. Log!Given(r, since) = fetch[n]
  BY DEF Log!Given
<1>2. \A f : Step1(f) = [i \in 0..n |-> IF i = 0 THEN <<>> ELSE Next1(f[i - 1], i)]
  OBVIOUS
<1> HIDE DEF Step1
<1>3. from \in Nat /\ from > since /\ from >= first /\ (from = since + 1 \/ from = first)
  OBVIOUS
<1>4. \A m \in Nat : /\ upto(m) \in Seq(Nat) /\ Len(upto(m)) = m
                     /\ Append(upto(m), from + m) = upto(m + 1)
  <2> TAKE m \in Nat
  <2> HIDE DEF from
  <2>1. upto(m) \in Seq(Nat) /\ Len(upto(m)) = m /\ upto(m + 1) \in Seq(Nat) /\ Len(upto(m + 1)) = m + 1
    BY <1>3
  <2>2. from + m \in Nat
    BY <1>3
  <2>3. PICK a : a = Append(upto(m), from + m)
    OBVIOUS
  <2>4. a \in Seq(Nat) /\ Len(a) = m + 1 /\ a[m + 1] = from + m /\ \A k \in 1..m : a[k] = upto(m)[k]
    BY <2>1, <2>2, <2>3, AppendProperties
  <2>5. \A k \in 1..m + 1 : a[k] = upto(m + 1)[k]
    <3> TAKE k \in 1..m + 1
    <3>1. upto(m + 1)[k] = from + k - 1
      OBVIOUS
    <3>2. CASE k \in 1..m
      <4>1. a[k] = upto(m)[k] /\ upto(m)[k] = from + k - 1
        BY <3>2, <2>4
      <4> QED BY <4>1, <3>1
    <3>3. CASE k = m + 1
      <4>1. from + k - 1 = from + m
        BY <3>3, <1>3
      <4>2. a[k] = from + m
        BY <3>3, <2>4
      <4> QED BY <3>1, <4>1, <4>2
    <3> QED BY <3>2, <3>3
  <2>6. a = upto(m + 1)
    BY <2>1, <2>4, <2>5, SeqEqual
  <2> QED BY <2>1, <2>3, <2>6
<1>5. upto(0) = <<>>
  OBVIOUS
<1>6. ASSUME NEW i \in 1..n PROVE Next1(upto(size(i - 1)), i) = upto(size(i))
  <2>1. Log!Lines(r)[i] = first + i - 1
    BY DEF Numbered
  <2>2. size(i - 1) \in Nat /\ size(i) \in Nat
    BY <1>3
  <2>3. Len(upto(size(i - 1))) = size(i - 1)
    BY <2>2, <1>4
  <2>4. CASE first + i - 1 > since /\ size(i - 1) < Batch
    <3>1. first + i - 1 = from + size(i - 1) /\ size(i) = size(i - 1) + 1
      BY <2>4, <1>3
    <3>2. Next1(upto(size(i - 1)), i) = Append(upto(size(i - 1)), from + size(i - 1))
      <4> HIDE DEF upto, size
      <4> QED BY <2>1, <2>3, <2>4, <3>1 DEF Log!Later
    <3>3. Append(upto(size(i - 1)), from + size(i - 1)) = upto(size(i - 1) + 1)
      <4> HIDE DEF upto, size
      <4> QED BY <2>2, <1>4
    <3> QED BY <3>1, <3>2, <3>3
  <2>5. CASE ~(first + i - 1 > since /\ size(i - 1) < Batch)
    <3>1. size(i) = size(i - 1)
      BY <2>5, <1>3
    <3>2. Next1(upto(size(i - 1)), i) = upto(size(i - 1))
      <4> HIDE DEF upto, size
      <4> QED BY <2>1, <2>3, <2>5 DEF Log!Later
    <3> QED BY <3>1, <3>2
  <2> QED BY <2>4, <2>5
<1>7. size(0) = 0
  BY <1>3
<1>8. \E f : f = Step1(f)
  <2> DEFINE g == [i \in 0..n |-> upto(size(i))]
  <2>1. \A i \in 0..n : g[i] = IF i = 0 THEN <<>> ELSE Next1(g[i - 1], i)
    <3> TAKE i \in 0..n
    <3>1. CASE i = 0
      <4> HIDE DEF size, upto
      <4> QED BY <3>1, <1>5, <1>7
    <3>2. CASE i # 0
      <4>1. i \in 1..n /\ i - 1 \in 0..n
        BY <3>2
      <4> HIDE DEF size, upto, Next1
      <4> QED BY <4>1, <3>2, <1>6
    <3> QED BY <3>1, <3>2
  <2>2. g = [i \in 0..n |-> IF i = 0 THEN <<>> ELSE Next1(g[i - 1], i)]
    <3> HIDE DEF size, upto, Next1
    <3>1. g = [i \in 0..n |-> g[i]]
      OBVIOUS
    <3> HIDE DEF g
    <3> QED BY <2>1, <3>1
  <2> HIDE DEF g
  <2> QED BY <2>2, <1>2
<1>9. fetch = Step1(fetch)
  BY <1>8, Zenon
<1> HIDE DEF fetch
<1>10. \A i \in 0..n : fetch[i] = IF i = 0 THEN <<>> ELSE Next1(fetch[i - 1], i)
  <2> HIDE DEF Next1
  <2> QED BY <1>2, <1>9
<1>11. \A i \in 0..n : fetch[i] = upto(size(i))
  <2> HIDE DEF upto, size, Next1
  <2> DEFINE Fails == {i \in 0..n : fetch[i] # upto(size(i))}
  <2>1. ASSUME NEW i \in Fails PROVE i # 0 /\ i - 1 \in Fails
    <3>1. i # 0
      BY <1>5, <1>7, <1>10
    <3>2. i \in 1..n /\ i - 1 \in 0..n
      BY <3>1
    <3> QED BY <1>6, <1>10, <3>1, <3>2
  <2>2. Fails \in SUBSET (0..n)
    OBVIOUS
  <2>3. Fails = {}
    <3> HIDE DEF Fails
    <3> QED BY <2>1, <2>2, NoFirstFailure
  <2> QED BY <2>3
<1>12. Log!Given(r, since) = upto(size(n))
  <2> HIDE DEF upto, size
  <2> QED BY <1>1, <1>11
<1>13. size(n) \in 0..n /\ (size(n) > 0 => from + size(n) <= first + n)
  BY <1>3
<1> QED BY <1>3, <1>12, <1>13 DEF FirstAfter

LEMMA ModIs ==
    ASSUME NEW n \in Nat \ {0}, NEW x \in 0..2 * n - 1
    PROVE  x % n = IF x < n THEN x ELSE x - n
<1>1. CASE x < n
  BY <1>1
<1>2. CASE ~(x < n)
  <2>1. x - n \in 0..n - 1
    BY <1>2
  <2>2. ((x - n) + n) % n = x - n
    BY <2>1
  <2>3. (x - n) + n = x
    OBVIOUS
  <2> QED BY <1>2, <2>2, <2>3
<1> QED BY <1>1, <1>2

(* Where a ring whose head is at h has the i-th of its c lines. *)
Place(h, c, i) == IF h - c + i - 1 < 0 THEN h + Cap - c + i - 1 ELSE h - c + i - 1

(* The parts of a ring, and those after one more line. *)
IsRing(r, s, h, c) == r.seq = s /\ r.head = h /\ r.count = c
GoesOn(h, c, h2, c2) == /\ h2 = IF h + 1 < Cap THEN h + 1 ELSE 0
                        /\ c2 = IF c < Cap THEN c + 1 ELSE Cap
Writes(s, s2, h, n) == s2[h] = n /\ \A x \in 0..Cap - 1 : x # h => s2[x] = s[x]
EndsWith(r, c, n) == \A k \in 1..c : Log!Lines(r)[k] = n - c + k - 1
Keeps(h, c, h2, c2, i) ==
    /\ Place(h2, c2, i) \in 0..Cap - 1
    /\ i = c2 => Place(h2, c2, i) = h
    /\ i # c2 => /\ Place(h2, c2, i) # h
                 /\ \E k \in 1..c : k - c = i + 1 - c2 /\ Place(h2, c2, i) = Place(h, c, k)

LEMMA LineIsAt ==
    ASSUME Cap \in Nat \ {0}, NEW h \in 0..Cap - 1, NEW c \in 0..Cap, NEW s, NEW r, IsRing(r, s, h, c),
           NEW i \in 1..c
    PROVE  Log!Lines(r)[i] = s[Place(h, c, i)]
<1>0. r.seq = s /\ r.head = h /\ r.count = c
  BY DEF IsRing
<1>1. PICK x \in 0..2 * Cap - 1 : x = h + Cap - c + i - 1
  OBVIOUS
<1>2. x % Cap = IF x < Cap THEN x ELSE x - Cap
  BY ModIs
<1>3. x % Cap = Place(h, c, i)
  BY <1>1, <1>2 DEF Place
<1>4. Log!Lines(r)[i] = s[x % Cap]
  BY <1>0, <1>1 DEF Log!Lines
<1> QED BY <1>3, <1>4

(* A line that is appended goes to the head, and the others keep their places. *)
LEMMA Places ==
    ASSUME Cap \in Nat \ {0}, NEW h \in 0..Cap - 1, NEW c \in 0..Cap,
           NEW h2 \in 0..Cap - 1,
           NEW c2 \in 0..Cap, GoesOn(h, c, h2, c2),
           NEW i \in 1..c2
    PROVE  Keeps(h, c, h2, c2, i)
<1>0. /\ h2 = IF h + 1 < Cap THEN h + 1 ELSE 0
      /\ c2 = IF c < Cap THEN c + 1 ELSE Cap
  BY DEF GoesOn
<1>1. /\ Place(h2, c2, i) \in 0..Cap - 1
      /\ i = c2 => Place(h2, c2, i) = h
      /\ i # c2 => Place(h2, c2, i) # h
  BY <1>0 DEF Place
<1>2. ASSUME i # c2
      PROVE  \E k \in 1..c : k - c = i + 1 - c2 /\ Place(h2, c2, i) = Place(h, c, k)
  <2>1. PICK k \in 1..c : k = IF c < Cap THEN i ELSE i + 1
    BY <1>0, <1>2
  <2>2. k - c = i + 1 - c2
    BY <1>0, <2>1
  <2>3. Place(h2, c2, i) = Place(h, c, k)
    BY <1>0, <1>2, <2>1 DEF Place
  <2> QED BY <2>2, <2>3
<1> QED BY <1>1, <1>2 DEF Keeps

(* What the lines of a ring are after one more has been written. *)
LEMMA LinesMove ==
    ASSUME Cap \in Nat \ {0}, NEW n \in Nat,
           NEW h \in 0..Cap - 1, NEW c \in 0..Cap, NEW s,
           NEW h2 \in 0..Cap - 1, NEW c2 \in 0..Cap, GoesOn(h, c, h2, c2),
           NEW s2, Writes(s, s2, h, n),
           NEW q, IsRing(q, s, h, c), NEW r, IsRing(r, s2, h2, c2), EndsWith(q, c, n)
    PROVE  EndsWith(r, c2, n + 1)
<1> SUFFICES ASSUME NEW i \in 1..c2
             PROVE  Log!Lines(r)[i] = n + 1 - c2 + i - 1
  BY DEF EndsWith
<1>9. Keeps(h, c, h2, c2, i)
  BY Places
<1>0. /\ Place(h2, c2, i) \in 0..Cap - 1
      /\ i = c2 => Place(h2, c2, i) = h
      /\ i # c2 => /\ Place(h2, c2, i) # h
                   /\ \E k \in 1..c : k - c = i + 1 - c2 /\ Place(h2, c2, i) = Place(h, c, k)
  BY <1>9 DEF Keeps
<1>1. PICK x : x = Place(h2, c2, i)
  OBVIOUS
<1>2. Log!Lines(r)[i] = s2[x]
  <2>1. Log!Lines(r)[i] = s2[Place(h2, c2, i)]
    BY LineIsAt
  <2> QED BY <2>1, <1>1
<1>3. CASE i = c2
  <2>1. x = h
    BY <1>0, <1>1, <1>3
  <2>2. s2[x] = n
    BY <2>1 DEF Writes
  <2>3. n + 1 - c2 + i - 1 = n
    BY <1>3
  <2> QED BY <1>2, <2>2, <2>3
<1>4. CASE i # c2
  <2>1. x \in 0..Cap - 1 /\ x # h
    BY <1>0, <1>1, <1>4
  <2>2. PICK k \in 1..c : k - c = i + 1 - c2 /\ Place(h2, c2, i) = Place(h, c, k)
    BY <1>0, <1>4
  <2>3. Log!Lines(q)[k] = s[x]
    <3>1. Log!Lines(q)[k] = s[Place(h, c, k)]
      BY LineIsAt
    <3> QED BY <3>1, <2>2, <1>1
  <2>4. s2[x] = s[x]
    BY <2>1 DEF Writes
  <2>5. Log!Lines(q)[k] = n - c + k - 1
    BY DEF EndsWith
  <2>6. n - c + k - 1 = n + 1 - c2 + i - 1
    BY <2>2
  <2> QED BY <1>2, <2>3, <2>4, <2>5, <2>6
<1> QED BY <1>3, <1>4

(* daemon_rpc_log_append: the ring holds its last lines in order. *)
LEMMA RingAppend ==
    ASSUME Cap \in Nat \ {0}, MaxLines \in Nat, NEW q \in Log!Ring, NEW r, r = Log!Append1(q),
           q.count <= q.next /\ q.next < MaxLines /\ Log!InOrder(q)
    PROVE  /\ r \in Log!Ring /\ r.count <= r.next /\ r.next = q.next + 1
           /\ r.next - r.count >= q.next - q.count
           /\ Log!InOrder(r)
<1>1. PICK s \in [0..Cap - 1 -> Nat], h \in 0..Cap - 1, c \in 0..Cap, n \in 0..MaxLines :
         s = q.seq /\ h = q.head /\ c = q.count /\ n = q.next
  BY DEF Log!Ring
<1>a. c <= n /\ n < MaxLines /\ n + 1 \in 0..MaxLines /\ n \in Nat
  BY <1>1
<1>2. PICK h2 \in 0..Cap - 1 : h2 = IF h + 1 < Cap THEN h + 1 ELSE 0
  OBVIOUS
<1>m. h2 = (h + 1) % Cap
  <2>1. PICK x \in 0..2 * Cap - 1 : x = h + 1
    OBVIOUS
  <2>2. x % Cap = IF x < Cap THEN x ELSE x - Cap
    BY ModIs
  <2> QED BY <1>2, <2>1, <2>2
<1>3. PICK c2 \in 0..Cap : c2 = IF c < Cap THEN c + 1 ELSE Cap
  OBVIOUS
<1>4. PICK s2 \in [0..Cap - 1 -> Nat] : s2 = [s EXCEPT ![h] = n]
  BY <1>a
<1>5. r = [seq |-> s2, head |-> h2, count |-> c2, next |-> n + 1]
  BY <1>1, <1>m, <1>3, <1>4 DEF Log!Append1
<1>f. r.seq = s2 /\ r.head = h2 /\ r.count = c2 /\ r.next = n + 1
  BY <1>5
<1>6. r \in Log!Ring
  <2>1. PICK w \in 0..MaxLines : w = n + 1
    BY <1>a
  <2>2. r = [seq |-> s2, head |-> h2, count |-> c2, next |-> w]
    BY <1>5, <2>1
  <2>3. [seq |-> s2, head |-> h2, count |-> c2, next |-> w] \in Log!Ring
    BY DEF Log!Ring
  <2> QED BY <2>2, <2>3
<1>b. c2 <= n + 1 /\ n + 1 - c2 >= n - c
  BY <1>a, <1>3
<1>7. r.count <= r.next /\ r.next = q.next + 1 /\ r.next - r.count >= q.next - q.count
  <2>1. q.next = n /\ q.count = c
    BY <1>1
  <2>2. r.count <= r.next
    BY <1>b, <1>f
  <2>3. r.next = q.next + 1
    BY <2>1, <1>f
  <2>4. r.next - r.count >= q.next - q.count
    BY <2>1, <1>b, <1>f
  <2> QED BY <2>2, <2>3, <2>4
<1>8. \A i \in 1..c2 : Log!Lines(r)[i] = n + 1 - c2 + i - 1
  <2>1. EndsWith(q, c, n)
    BY <1>1 DEF Log!InOrder, EndsWith
  <2>2. Writes(s, s2, h, n) /\ n \in Nat
    BY <1>4, <1>a DEF Writes
  <2>3. IsRing(q, s, h, c) /\ IsRing(r, s2, h2, c2)
    BY <1>1, <1>f DEF IsRing
  <2>4. GoesOn(h, c, h2, c2)
    BY <1>2, <1>3 DEF GoesOn
  <2>5. EndsWith(r, c2, n + 1)
    BY <2>1, <2>2, <2>3, <2>4, LinesMove
  <2> QED BY <2>5 DEF EndsWith
<1>9. Log!InOrder(r)
  BY <1>8, <1>f DEF Log!InOrder
<1> QED BY <1>6, <1>7, <1>9

(* What holds of the entries of a console: they are of this daemon or of one  *)
(* before it and of this epoch; and, while calls do not overlap, they are in  *)
(* order, and a line of this daemon that is missing is before f, the first    *)
(* one of the ring.                                                           *)
Fits(e, l, ep) == \A i \in 1..Len(e) : e[i].life <= l /\ e[i].epoch = ep
Ordered(e, l, o, f) ==
    /\ \A i, k \in 1..Len(e) : i < k => e[i].life <= e[k].life
    /\ \A i, k \in 1..Len(e) : i < k /\ e[i].life = e[k].life => e[i].line < e[k].line
    /\ \A i \in 1..Len(e) : i = Len(e) /\ e[i].life = l => e[i].line = o
    /\ \A i \in 1..Len(e) - 1 : e[i].life = l /\ e[i + 1].life = l =>
          \A n \in e[i].line + 1..e[i + 1].line - 1 : n < f

LEMMA EntryIs ==
    ASSUME NEW e \in Seq(Log!Entry)
    PROVE  /\ Len(e) \in Nat /\ DOMAIN e = 1..Len(e)
           /\ \A i \in 1..Len(e) : e[i].life \in Nat /\ e[i].line \in Nat /\ e[i].epoch \in Nat
<1>1. \A i \in 1..Len(e) : e[i] \in Log!Entry
  OBVIOUS
<1> QED BY <1>1 DEF Log!Entry

(* As lines leave the ring, and when the daemon is started again. *)
LEMMA OrderedLater ==
    ASSUME NEW e \in Seq(Log!Entry), NEW l, NEW o, NEW f \in Nat, NEW g \in Nat, f <= g,
           Ordered(e, l, o, f)
    PROVE  Ordered(e, l, o, g)
<1>1. \A i \in 1..Len(e) - 1 : e[i].life = l /\ e[i + 1].life = l =>
         \A n \in e[i].line + 1..e[i + 1].line - 1 : n < g
  <2> SUFFICES ASSUME NEW i \in 1..Len(e) - 1, e[i].life = l, e[i + 1].life = l,
                      NEW n \in e[i].line + 1..e[i + 1].line - 1
               PROVE  n < g
    OBVIOUS
  <2>1. n < f
    BY DEF Ordered
  <2>2. n \in Int
    OBVIOUS
  <2> QED BY <2>1, <2>2
<1> QED BY <1>1 DEF Ordered

LEMMA OrderedAgain ==
    ASSUME NEW e \in Seq(Log!Entry), NEW l \in Nat, NEW ep, NEW o, NEW f \in Nat, NEW g \in Nat,
           Fits(e, l, ep)
    PROVE  /\ Fits(e, l + 1, ep)
           /\ Ordered(e, l, o, f) => Ordered(e, l + 1, o, g)
<1>1. \A i \in 1..Len(e) : e[i].life <= l + 1 /\ e[i].life # l + 1 /\ e[i].epoch = ep
  <2> TAKE i \in 1..Len(e)
  <2>1. e[i].life \in Nat /\ e[i].life <= l /\ e[i].epoch = ep
    BY EntryIs DEF Fits
  <2> QED BY <2>1
<1>2. Fits(e, l + 1, ep)
  BY <1>1 DEF Fits
<1>3. \A i \in 1..Len(e) - 1 : i \in 1..Len(e)
  BY EntryIs
<1> QED BY <1>1, <1>2, <1>3 DEF Ordered

(* ConsoleStore keeps the last entries. *)
LEMMA OrderedShift ==
    ASSUME NEW s \in Seq(Log!Entry), NEW t \in Seq(Log!Entry), NEW d \in 0..Len(s), Len(t) = Len(s) - d,
           \A i \in 1..Len(t) : t[i] = s[d + i], NEW l, NEW ep, NEW o, NEW f
    PROVE  /\ Fits(s, l, ep) => Fits(t, l, ep)
           /\ Ordered(s, l, o, f) => Ordered(t, l, o, f)
<1>0. PICK n \in Nat, m \in Nat : n = Len(s) /\ m = Len(t)
  BY EntryIs
<1>1. \A i \in 1..m : d + i \in 1..n /\ t[i] = s[d + i]
  BY <1>0
<1>2. Fits(s, l, ep) => Fits(t, l, ep)
  BY <1>0, <1>1 DEF Fits
<1>3. ASSUME Ordered(s, l, o, f) PROVE Ordered(t, l, o, f)
  <2>1. ASSUME NEW i \in 1..m, NEW k \in 1..m, i < k
        PROVE  t[i].life <= t[k].life /\ (t[i].life = t[k].life => t[i].line < t[k].line)
    <3>1. PICK a \in 1..n, b \in 1..n : a = d + i /\ b = d + k
      BY <1>1
    <3>2. a < b /\ t[i] = s[a] /\ t[k] = s[b]
      BY <2>1, <3>1, <1>1
    <3> QED BY <3>2, <1>3, <1>0 DEF Ordered
  <2>2. ASSUME NEW i \in 1..m, i = m, t[i].life = l PROVE t[i].line = o
    <3>1. d + m = n /\ n \in 1..n
      BY <1>0, <2>2
    <3>2. t[i] = s[n]
      BY <3>1, <2>2, <1>1
    <3> QED BY <3>1, <3>2, <2>2, <1>3, <1>0 DEF Ordered
  <2>3. ASSUME NEW i \in 1..m - 1, t[i].life = l, t[i + 1].life = l,
               NEW x \in t[i].line + 1..t[i + 1].line - 1
        PROVE  x < f
    <3>1. PICK a \in 1..n - 1 : a = d + i
      BY <1>0
    <3>2. i \in 1..m /\ i + 1 \in 1..m /\ d + (i + 1) = a + 1
      BY <3>1
    <3>3. t[i] = s[a] /\ t[i + 1] = s[a + 1]
      BY <3>1, <3>2, <1>1
    <3> QED BY <3>3, <2>3, <1>3, <1>0 DEF Ordered
  <2> QED BY <2>1, <2>2, <2>3, <1>0 DEF Ordered
<1> QED BY <1>2, <1>3

(* appendDaemonLines: n entries, and m lines that go on from the offset. *)
Begins(s, e, n, l) == \A i \in 1..n : s[i] = e[i] /\ s[i].life <= l
Continues(s, n, m, l, from) ==
    \A i \in n + 1..n + m : s[i].life = l /\ s[i].line = from + (i - n) - 1
Resumes(o, from, f) == from > o /\ (from = o + 1 \/ from <= f)

LEMMA OrderedJoin ==
    ASSUME NEW e \in Seq(Log!Entry), NEW s \in Seq(Log!Entry), NEW n \in Nat, NEW m \in Nat \ {0},
           NEW p \in Nat, p = n + m, Len(e) = n, Len(s) = p,
           NEW l \in Nat, NEW o \in Nat, NEW f \in Nat, NEW from \in Nat, NEW top \in Nat, top = from + m - 1,
           Begins(s, e, n, l), Continues(s, n, m, l, from), Ordered(e, l, o, f), Resumes(o, from, f)
    PROVE  Ordered(s, l, top, f)
<1>t. \A i \in 1..p : s[i].life \in Nat /\ s[i].line \in Nat
  BY EntryIs
<1>1. ASSUME NEW i \in 1..n, s[i].life = l PROVE s[i].line <= o
  <2>1. n \in 1..n /\ i \in 1..p /\ n \in 1..p /\ s[i] = e[i] /\ s[n] = e[n]
    BY DEF Begins
  <2>2. PICK a \in Nat, b \in Nat : a = s[i].line /\ b = s[n].line
    BY <2>1, <1>t
  <2>3. PICK c \in Nat : c = s[n].life
    BY <2>1, <1>t
  <2>4. c <= l
    BY <2>1, <2>3 DEF Begins
  <2>5. i < n => l <= c
    BY <2>1, <2>3, <1>1 DEF Ordered
  <2>6. i = n => c = l
    BY <2>3, <1>1
  <2>7. c = l
    BY <2>4, <2>5, <2>6
  <2>8. b = o
    BY <2>1, <2>2, <2>3, <2>7 DEF Ordered
  <2>9. i < n => a < b
    BY <2>1, <2>2, <2>3, <2>7, <1>1 DEF Ordered
  <2>10. i = n => a = b
    BY <2>2
  <2>11. a <= o
    BY <2>8, <2>9, <2>10
  <2> QED BY <2>2, <2>11
<1>4. \A i \in 1..p : i \in 1..n \/ i \in n + 1..n + m
  OBVIOUS
<1>o. from > o
  BY DEF Resumes
<1>2. ASSUME NEW i \in 1..p, NEW k \in 1..p, i < k
      PROVE  s[i].life <= s[k].life /\ (s[i].life = s[k].life => s[i].line < s[k].line)
  <2>1. CASE k \in 1..n
    <3>1. i \in 1..n
      BY <1>2, <2>1
    <3>2. s[i] = e[i] /\ s[k] = e[k]
      BY <2>1, <3>1 DEF Begins
    <3> QED BY <3>1, <3>2, <2>1, <1>2 DEF Ordered
  <2>2. CASE k \in n + 1..n + m /\ i \in 1..n
    <3>1. s[k].life = l /\ s[k].line = from + (k - n) - 1 /\ s[i].life <= l
      BY <2>2 DEF Begins, Continues
    <3>2. PICK a \in Nat, b \in Nat : a = s[i].line /\ b = s[k].line
      BY <1>t
    <3>3. b > o
      BY <3>1, <3>2, <2>2, <1>o
    <3>4. s[i].life = l => a <= o
      BY <3>2, <2>2, <1>1
    <3>5. s[i].life = l => a < b
      BY <3>3, <3>4
    <3> QED BY <3>1, <3>2, <3>5
  <2>3. CASE k \in n + 1..n + m /\ i \in n + 1..n + m
    <3>1. /\ s[k].life = l /\ s[k].line = from + (k - n) - 1
          /\ s[i].life = l /\ s[i].line = from + (i - n) - 1
      BY <2>3 DEF Continues
    <3>2. from + (i - n) - 1 < from + (k - n) - 1
      BY <1>2
    <3> QED BY <3>1, <3>2
  <2> QED BY <2>1, <2>2, <2>3, <1>2, <1>4
<1>3. s[p].line = top
  <2>1. p \in n + 1..n + m /\ from + (p - n) - 1 = top
    OBVIOUS
  <2> QED BY <2>1 DEF Continues
<1>5. ASSUME NEW i \in 1..p - 1, s[i].life = l, s[i + 1].life = l, NEW a \in Nat, NEW b \in Nat,
             a = s[i].line, b = s[i + 1].line, NEW x \in Int, a < x, x < b
      PROVE  x < f
  <2>1. CASE i + 1 \in 1..n
    <3>1. i \in 1..n - 1 /\ i \in 1..n
      BY <2>1
    <3>2. s[i] = e[i] /\ s[i + 1] = e[i + 1]
      BY <3>1, <2>1 DEF Begins
    <3>3. a = e[i].line /\ b = e[i + 1].line /\ e[i].life = l /\ e[i + 1].life = l
      BY <3>2, <1>5
    <3>4. \A k \in 1..n - 1 : e[k].life = l /\ e[k + 1].life = l =>
             \A y \in e[k].line + 1..e[k + 1].line - 1 : y < f
      BY DEF Ordered
    <3>5. e[i].life = l /\ e[i + 1].life = l =>
             \A y \in e[i].line + 1..e[i + 1].line - 1 : y < f
      BY <3>1, <3>4
    <3>6. \A y \in a + 1..b - 1 : y < f
      BY <3>3, <3>5
    <3>7. x \in a + 1..b - 1
      <4>1. a < x /\ x < b
        BY <1>5, Zenon
      <4> QED BY <4>1
    <3> QED BY <3>6, <3>7
  <2>2. CASE i = n
    <3>1. i \in 1..n /\ i + 1 \in n + 1..n + m /\ from + ((i + 1) - n) - 1 = from
      BY <2>2
    <3>2. b = from
      BY <3>1, <1>5 DEF Continues
    <3>3. a = o
      BY <3>1, <2>2, <1>5 DEF Begins, Ordered
    <3>4. x > o /\ x < from
      BY <1>5, <3>2, <3>3
    <3>5. from = o + 1 \/ from <= f
      BY DEF Resumes
    <3> QED BY <3>4, <3>5
  <2>3. CASE i \in n + 1..n + m
    <3>1. i + 1 \in n + 1..n + m
      BY <2>3
    <3>2. s[i].line = from + (i - n) - 1 /\ s[i + 1].line = from + ((i + 1) - n) - 1
      BY <2>3, <3>1 DEF Continues
    <3>3. a = from + (i - n) - 1 /\ b = from + ((i + 1) - n) - 1
      BY <3>2, <1>5
    <3>4. b = a + 1
      BY <3>3
    <3> QED BY <3>4, <1>5
  <2>4. i + 1 \in 1..n \/ i = n \/ i \in n + 1..n + m
    OBVIOUS
  <2> QED BY <2>1, <2>2, <2>3, <2>4
<1>6. \A i, k \in 1..p : i < k => s[i].life <= s[k].life
  BY <1>2
<1>7. \A i, k \in 1..p : i < k /\ s[i].life = s[k].life => s[i].line < s[k].line
  BY <1>2
<1>8. \A i \in 1..p - 1 : s[i].life = l /\ s[i + 1].life = l =>
         \A x \in s[i].line + 1..s[i + 1].line - 1 : x < f
  <2> SUFFICES ASSUME NEW i \in 1..p - 1, s[i].life = l, s[i + 1].life = l
               PROVE  \A x \in s[i].line + 1..s[i + 1].line - 1 : x < f
    OBVIOUS
  <2>1. i \in 1..p /\ i + 1 \in 1..p
    OBVIOUS
  <2>2. PICK a \in Nat, b \in Nat : a = s[i].line /\ b = s[i + 1].line
    BY <2>1, <1>t
  <2>3. ASSUME NEW x \in a + 1..b - 1 PROVE x < f
    <3>1. x \in Int /\ a < x /\ x < b
      OBVIOUS
    <3> QED BY <3>1, <2>2, <1>5
  <2> QED BY <2>2, <2>3
<1> QED BY <1>3, <1>6, <1>7, <1>8 DEF Ordered

IsJoin(s, e, g) == s = e \o g
Shows(g, l, from, ep) ==
    Len(g) > 0 /\ \A i \in 1..Len(g) : g[i] = [life |-> l, line |-> from + i - 1, epoch |-> ep]

LEMMA OrderedMore ==
    ASSUME NEW e \in Seq(Log!Entry), NEW g \in Seq(Log!Entry), NEW s \in Seq(Log!Entry), IsJoin(s, e, g),
           NEW l \in Nat, NEW ep \in Nat, NEW o \in Nat, NEW f \in Nat, NEW from \in Nat,
           Shows(g, l, from, ep), Fits(e, l, ep)
    PROVE  /\ Fits(s, l, ep)
           /\ Ordered(e, l, o, f) /\ Resumes(o, from, f) => Ordered(s, l, from + Len(g) - 1, f)
<1>0. PICK n \in Nat, m \in Nat \ {0} : n = Len(e) /\ m = Len(g)
  BY EntryIs DEF Shows
<1>1. /\ Len(s) = n + m
      /\ \A i \in 1..n + m : s[i] = IF i <= n THEN e[i] ELSE g[i - n]
  BY <1>0, ConcatProperties DEF IsJoin
<1>2. \A i \in 1..n : s[i] = e[i] /\ s[i].life \in Nat /\ s[i].line \in Nat /\ s[i].life <= l /\ s[i].epoch = ep
  <2> TAKE i \in 1..n
  <2>1. i \in 1..n + m /\ i <= n
    OBVIOUS
  <2> QED BY <2>1, <1>0, <1>1, EntryIs DEF Fits
<1>3. \A i \in n + 1..n + m : s[i].life = l /\ s[i].line = from + (i - n) - 1 /\ s[i].epoch = ep
  <2> TAKE i \in n + 1..n + m
  <2>1. i \in 1..n + m /\ ~(i <= n)
    OBVIOUS
  <2>2. PICK j \in 1..m : j = i - n
    OBVIOUS
  <2>3. s[i] = g[j]
    BY <2>1, <2>2, <1>1
  <2>4. g[j] = [life |-> l, line |-> from + j - 1, epoch |-> ep]
    BY <1>0 DEF Shows
  <2>5. from + j - 1 = from + (i - n) - 1
    BY <2>2
  <2> QED BY <2>3, <2>4, <2>5
<1>4. \A i \in 1..n + m : i \in 1..n \/ i \in n + 1..n + m
  OBVIOUS
<1>a. ASSUME NEW i \in 1..n + m PROVE s[i].life <= l /\ s[i].epoch = ep
  <2>1. CASE i \in 1..n
    BY <2>1, <1>2
  <2>2. CASE i \in n + 1..n + m
    <3>1. s[i].life = l /\ s[i].epoch = ep
      BY <2>2, <1>3
    <3> QED BY <3>1
  <2> QED BY <2>1, <2>2, <1>4
<1>5. Fits(s, l, ep)
  <2>1. PICK q \in Nat : q = n + m /\ q = Len(s)
    BY <1>1
  <2>2. \A i \in 1..q : s[i].life <= l /\ s[i].epoch = ep
    BY <2>1, <1>a
  <2> QED BY <2>1, <2>2 DEF Fits
<1>p. PICK p \in Nat : p = n + m
  OBVIOUS
<1>q. PICK top \in Nat : top = from + m - 1
  OBVIOUS
<1>6. p = n + m /\ p = Len(s) /\ top = from + m - 1 /\ m \in Nat \ {0}
  BY <1>1, <1>p, <1>q
<1>7. Begins(s, e, n, l)
  BY <1>2 DEF Begins
<1>8. Continues(s, n, m, l, from)
  BY <1>3 DEF Continues
<1>9. Ordered(e, l, o, f) /\ Resumes(o, from, f) => Ordered(s, l, top, f)
  <2>1. p = n + m /\ Len(e) = n /\ Len(s) = p /\ top = from + m - 1
    BY <1>0, <1>6
  <2>2. ASSUME Ordered(e, l, o, f), Resumes(o, from, f) PROVE Ordered(s, l, top, f)
    BY <2>1, <2>2, <1>7, <1>8, OrderedJoin
  <2> QED BY <2>2
<1> QED BY <1>0, <1>5, <1>6, <1>9

(* The parts of the inductive invariant of the log.                           *)
RingOK(r) == r \in Log!Ring /\ r.count <= r.next /\ Log!InOrder(r)
Times(l, up) == l \in Nat /\ l <= up /\ {l, up} \subseteq 0..MaxUpsets
Answered(c, f, n) ==
    c.answered =>
        /\ \A i \in DOMAIN c.lines : c.lines[i] = c.lines[1] + i - 1
        /\ IF c.lines = <<>> THEN c.next = c.since
           ELSE /\ c.lines[1] > c.since /\ (c.lines[1] = c.since + 1 \/ c.lines[1] <= f)
                /\ c.next = c.lines[Len(c.lines)] /\ c.next < n
CallsOK(cs, f, n) == /\ cs \subseteq Log!Asked /\ IsFiniteSet(cs) /\ Cardinality(cs) <= MaxCalls
                     /\ \A c \in cs : Answered(c, f, n)
Right(c, e, o, ep) == IF c.kind = "poll" THEN c.since = o /\ c.epoch = ep ELSE e = <<>>
One(cs, e, o, ep) == (\A c, d \in cs : c = d) /\ \A c \in cs : Right(c, e, o, ep)
ConsoleOK(e, o, ep, op) == /\ e \in Seq(Log!Entry) /\ Len(e) <= MaxEntries /\ o \in 0..MaxLines
                           /\ ep \in Nat /\ op \in BOOLEAN
IsConsole(v, e, o, ep, op) == v = [entries |-> e, offset |-> o, epoch |-> ep, open |-> op]

(* The instance's operators on finite sets are those the theorems are about. *)
LEMMA LogSetsAre ==
    \A S : Log!IsFiniteSet(S) = IsFiniteSet(S) /\ Log!Cardinality(S) = Cardinality(S)
BY DEF Log!IsFiniteSet, IsFiniteSet, Log!Cardinality, Cardinality

LEMMA LogPartsAre ==
    ASSUME Log!IInv
    PROVE  \E e, o, ep, op :
              /\ IsConsole(v4, e, o, ep, op) /\ ConsoleOK(e, o, ep, op)
              /\ RingOK(v1) /\ Times(v2, v5) /\ CallsOK(v3, Log!First(v1), v1.next) /\ v6 \in BOOLEAN
              /\ Fits(e, v2, ep)
              /\ ~v6 => One(v3, e, o, ep) /\ Ordered(e, v2, o, Log!First(v1))
<1>1. PICK e \in Seq(Log!Entry), o \in 0..MaxLines, ep \in Nat, op \in BOOLEAN : IsConsole(v4, e, o, ep, op)
  BY DEF Log!IInv, IsConsole
<1>2. v4.entries = e /\ v4.offset = o /\ v4.epoch = ep
  BY <1>1 DEF IsConsole
<1>3. ConsoleOK(e, o, ep, op)
  BY <1>2 DEF Log!IInv, Log!TypeOK, ConsoleOK
<1>4. RingOK(v1) /\ Times(v2, v5) /\ v6 \in BOOLEAN
  BY DEF Log!IInv, Log!TypeOK, RingOK, Times
<1>5. CallsOK(v3, Log!First(v1), v1.next)
  <2>1. \A c \in v3 : Answered(c, Log!First(v1), v1.next)
    BY DEF Log!IInv, Answered, Log!Answers
  <2> QED BY <2>1, LogSetsAre DEF Log!IInv, Log!TypeOK, CallsOK
<1>d. DOMAIN e = 1..Len(e)
  BY EntryIs
<1>6. Fits(e, v2, ep)
  BY <1>2, <1>d DEF Log!IInv, Log!ClearedStaysCleared, Fits
<1>7. ASSUME ~v6 PROVE One(v3, e, o, ep) /\ Ordered(e, v2, o, Log!First(v1))
  <2>1. One(v3, e, o, ep)
    BY <1>7, <1>2 DEF Log!IInv, Log!OneAtATime, One, Right
  <2>2. /\ \A i, k \in 1..Len(e) : i < k => e[i].life <= e[k].life
        /\ \A i \in 1..Len(e) : i = Len(e) /\ e[i].life = v2 => e[i].line = o
    BY <1>7, <1>2, <1>d DEF Log!IInv, Log!InLives
  <2>3. \A i, k \in 1..Len(e) : i < k /\ e[i].life = e[k].life => e[i].line < e[k].line
    BY <1>7, <1>2, <1>d DEF Log!IInv, Log!ShownInOrder
  <2>4. \A i \in 1..Len(e) - 1 : e[i].life = v2 /\ e[i + 1].life = v2 =>
           \A n \in e[i].line + 1..e[i + 1].line - 1 : n < Log!First(v1)
    BY <1>7, <1>2 DEF Log!IInv, Log!NothingSkipped, Log!First
  <2> QED BY <2>1, <2>2, <2>3, <2>4 DEF Ordered
<1> QED BY <1>1, <1>3, <1>4, <1>5, <1>6, <1>7

LEMMA LogFrom ==
    ASSUME NEW e, NEW o, NEW ep, NEW op, IsConsole(v4', e, o, ep, op), ConsoleOK(e, o, ep, op),
           RingOK(v1'), Times(v2', v5'), CallsOK(v3', Log!First(v1'), v1'.next), v6' \in BOOLEAN,
           Fits(e, v2', ep), ~v6' => One(v3', e, o, ep) /\ Ordered(e, v2', o, Log!First(v1'))
    PROVE  Log!IInv'
<1>2. v4'.entries = e /\ v4'.offset = o /\ v4'.epoch = ep
  BY DEF IsConsole
<1>3. v4' \in [entries : Seq(Log!Entry), offset : 0..MaxLines, epoch : Nat, open : BOOLEAN]
  BY DEF IsConsole, ConsoleOK
<1>4. v1'.head \in 0..Cap - 1 /\ v1'.count \in 0..Cap
  BY DEF RingOK, Log!Ring
<1>5. Log!TypeOK'
  <2>1. Log!InOrder(v1)'
    BY DEF RingOK, Log!InOrder, Log!Lines
  <2>2. (Log!Cardinality(v3) <= MaxCalls)'
    BY LogSetsAre DEF CallsOK
  <2>3. Len(v4'.entries) <= MaxEntries /\ v4'.offset \in 0..MaxLines
    BY <1>2 DEF ConsoleOK
  <2> QED BY <1>4, <2>1, <2>2, <2>3 DEF Log!TypeOK, Times
<1>6. v3' \subseteq Log!Asked /\ Log!IsFiniteSet(v3)' /\ (\A c \in v3' : Log!Answers(c)')
  <2>1. Log!IsFiniteSet(v3)'
    BY LogSetsAre DEF CallsOK
  <2>2. \A c \in v3' : Answered(c, Log!First(v1'), v1'.next)
    BY DEF CallsOK
  <2>3. \A c \in v3' : Log!Answers(c)'
    BY <2>2 DEF Answered, Log!Answers, Log!First
  <2> QED BY <2>1, <2>3 DEF CallsOK
<1>d. DOMAIN e = 1..Len(e)
  BY EntryIs DEF ConsoleOK
<1>7. /\ \A i \in DOMAIN v4'.entries : v4'.entries[i].life <= v2'
      /\ Log!ClearedStaysCleared'
  BY <1>2, <1>d DEF Fits, Log!ClearedStaysCleared
<1>8. ASSUME ~v6' PROVE Log!OneAtATime' /\ Log!InLives'
  BY <1>2, <1>d, <1>8 DEF One, Right, Ordered, Log!OneAtATime, Log!InLives
<1>9. Log!ShownInOrder' /\ Log!NothingSkipped'
  BY <1>2, <1>d DEF Ordered, Log!ShownInOrder, Log!NothingSkipped, Log!First
<1>10. /\ v1' \in Log!Ring /\ v1'.count <= v1'.next
       /\ v2' \in Nat /\ v2' <= v5'
  BY DEF RingOK, Times
<1> QED BY <1>3, <1>5, <1>6, <1>7, <1>8, <1>9, <1>10 DEF Log!IInv

(* A call is made, goes on, or is over. *)
LEMMA CallsLater ==
    ASSUME NEW cs, NEW f \in Nat, NEW n \in Nat, NEW f2 \in Nat, NEW n2 \in Nat, f <= f2 /\ n <= n2,
           CallsOK(cs, f, n)
    PROVE  CallsOK(cs, f2, n2)
<1>1. ASSUME NEW c \in cs PROVE Answered(c, f2, n2)
  <2> SUFFICES ASSUME c.answered PROVE Answered(c, f2, n2)
    BY DEF Answered
  <2>1. c \in Log!Asked /\ Answered(c, f, n)
    BY DEF CallsOK
  <2>2. c.lines \in Seq(Nat) /\ c.next \in Nat
    BY <2>1 DEF Log!Asked
  <2>3. CASE c.lines = <<>>
    BY <2>1, <2>3 DEF Answered
  <2>4. CASE c.lines # <<>>
    <3>1. PICK x \in Nat : x = c.lines[1]
      BY <2>2, <2>4
    <3>2. x <= f => x <= f2
      BY <3>1
    <3>3. c.next < n2
      <4>1. c.next < n
        BY <2>1, <2>4 DEF Answered
      <4> QED BY <4>1, <2>2
    <3> QED BY <2>1, <2>4, <3>1, <3>2, <3>3 DEF Answered
  <2> QED BY <2>3, <2>4
<1> QED BY <1>1 DEF CallsOK

LEMMA CallsLess ==
    ASSUME MaxCalls \in Nat, NEW cs, NEW c, NEW f, NEW n, CallsOK(cs, f, n)
    PROVE  /\ CallsOK(cs \ {c}, f, n)
           /\ \A e, o, ep : One(cs, e, o, ep) => One(cs \ {c}, e, o, ep)
<1>1. IsFiniteSet(cs) /\ Cardinality(cs) <= MaxCalls
  BY DEF CallsOK
<1>2. /\ IsFiniteSet(cs \ {c}) /\ Cardinality(cs \ {c}) <= Cardinality(cs)
      /\ Cardinality(cs) \in Nat /\ Cardinality(cs \ {c}) \in Nat
  BY <1>1, FS_Subset, FS_CardinalityType
<1>3. Cardinality(cs \ {c}) <= MaxCalls
  BY <1>1, <1>2
<1> QED BY <1>2, <1>3 DEF CallsOK, One

LEMMA CallsMore ==
    ASSUME MaxCalls \in Nat, NEW cs, NEW d \in Log!Asked, NEW f, NEW n, CallsOK(cs, f, n),
           Answered(d, f, n), Cardinality(cs) < MaxCalls
    PROVE  CallsOK(cs \cup {d}, f, n)
<1>1. IsFiniteSet(cs) /\ IsFiniteSet(cs \cup {d})
  BY FS_AddElement DEF CallsOK
<1>2. Cardinality(cs) \in Nat
  BY <1>1, FS_CardinalityType
<1>3. Cardinality(cs \cup {d}) = IF d \in cs THEN Cardinality(cs) ELSE Cardinality(cs) + 1
  BY <1>1, FS_AddElement
<1>4. Cardinality(cs \cup {d}) <= MaxCalls
  BY <1>2, <1>3
<1> QED BY <1>1, <1>4 DEF CallsOK

LEMMA CallsSwap ==
    ASSUME MaxCalls \in Nat, NEW cs, NEW c \in cs, NEW d \in Log!Asked, NEW f, NEW n, CallsOK(cs, f, n),
           Answered(d, f, n)
    PROVE  /\ CallsOK((cs \ {c}) \cup {d}, f, n)
           /\ \A e, o, ep : One(cs, e, o, ep) /\ Right(d, e, o, ep) => One((cs \ {c}) \cup {d}, e, o, ep)
<1>1. IsFiniteSet(cs) /\ Cardinality(cs) <= MaxCalls
  BY DEF CallsOK
<1>2. /\ IsFiniteSet(cs \ {c}) /\ Cardinality(cs \ {c}) = Cardinality(cs) - 1 /\ Cardinality(cs) \in Nat
  BY <1>1, FS_RemoveElement, FS_CardinalityType
<1>3. Cardinality(cs \ {c}) < MaxCalls
  BY <1>1, <1>2
<1>4. CallsOK(cs \ {c}, f, n)
  BY CallsLess
<1>5. CallsOK((cs \ {c}) \cup {d}, f, n)
  BY <1>3, <1>4, CallsMore
<1>6. ASSUME NEW e, NEW o, NEW ep, One(cs, e, o, ep), Right(d, e, o, ep)
      PROVE  One((cs \ {c}) \cup {d}, e, o, ep)
  <2>1. cs \ {c} = {}
    BY <1>6 DEF One
  <2> QED BY <2>1, <1>6 DEF One
<1> QED BY <1>5, <1>6

LEMMA EmptyRing ==
    ASSUME Cap \in Nat \ {0}, MaxLines \in Nat
    PROVE  RingOK(Log!Empty) /\ Log!First(Log!Empty) = 0 /\ Log!Empty.next = 0
<1>1. Log!Empty \in Log!Ring
  BY DEF Log!Empty, Log!Ring
<1>2. Log!Empty.count = 0 /\ Log!Empty.next = 0
  BY DEF Log!Empty
<1>3. Log!InOrder(Log!Empty)
  BY <1>2 DEF Log!InOrder
<1> QED BY <1>1, <1>2, <1>3 DEF RingOK, Log!First

LEMMA FirstIs ==
    ASSUME Cap \in Nat \ {0}, MaxLines \in Nat, NEW r, RingOK(r)
    PROVE  /\ Log!First(r) \in Nat /\ r.next \in 0..MaxLines /\ r.count \in 0..Cap
           /\ r.next = Log!First(r) + r.count
           /\ \A i \in 1..r.count : Log!Lines(r)[i] = Log!First(r) + i - 1
<1>1. r.next \in 0..MaxLines /\ r.count \in 0..Cap /\ r.count <= r.next
  BY DEF RingOK, Log!Ring
<1>2. \A i \in 1..r.count : Log!Lines(r)[i] = Log!First(r) + i - 1
  BY DEF RingOK, Log!InOrder, Log!First
<1>3. Log!First(r) \in Nat /\ r.next = Log!First(r) + r.count
  <2>1. PICK x \in 0..MaxLines, y \in 0..Cap : x = r.next /\ y = r.count
    BY <1>1
  <2>2. y <= x
    BY <1>1, <2>1
  <2>3. x - y \in Nat /\ x = (x - y) + y
    BY <2>2
  <2> QED BY <2>1, <2>3 DEF Log!First
<1> QED BY <1>1, <1>2, <1>3

(* handle_logs_get: a call that is answered. *)
IsAnswer(d, c, r) ==
    d = [c EXCEPT !.answered = TRUE, !.lines = Log!Given(r, c.since),
                  !.next = IF Log!NextOffset(r, c.since) > 0 THEN Log!NextOffset(r, c.since) ELSE c.since]

LEMMA AnswerIs ==
    ASSUME Cap \in Nat \ {0}, Batch \in Nat \ {0}, MaxLines \in Nat, NEW r, RingOK(r), NEW c \in Log!Asked,
           NEW d, IsAnswer(d, c, r)
    PROVE  /\ d \in Log!Asked /\ Answered(d, Log!First(r), r.next)
           /\ d.kind = c.kind /\ d.since = c.since /\ d.epoch = c.epoch
<1>0. PICK first \in Nat, n \in 0..Cap : first = Log!First(r) /\ n = r.count
  BY FirstIs
<1>1. PICK since \in 0..MaxLines : since = c.since
  BY DEF Log!Asked
<1>2. r.next = first + n /\ first + n \in 0..MaxLines
  BY <1>0, FirstIs
<1>3. Numbered(r, n, first)
  BY <1>0, FirstIs DEF Numbered
<1>4. PICK m \in 0..n, from \in Nat :
         /\ Log!Given(r, since) = [k \in 1..m |-> from + k - 1]
         /\ m > 0 => /\ from > since /\ from >= first /\ from + m <= first + n
                     /\ from = since + 1 \/ from <= first
  <2>1. n \in Nat /\ since \in Nat /\ r.count = n
    BY <1>0
  <2>2. FirstAfter(Log!Given(r, since), since, n, first)
    BY <2>1, <1>3, GivenIs
  <2> QED BY <2>2 DEF FirstAfter
<1>5. PICK g : g = Log!Given(r, since)
  OBVIOUS
<1>6. /\ g \in Seq(Nat) /\ Len(g) = m /\ DOMAIN g = 1..m
      /\ \A k \in 1..m : g[k] = from + k - 1
  <2>1. g = [k \in 1..m |-> from + k - 1] /\ m \in Nat
    BY <1>4, <1>5
  <2>2. \A k \in 1..m : from + k - 1 \in Nat
    OBVIOUS
  <2>3. g \in [1..m -> Nat] /\ \A k \in 1..m : g[k] = from + k - 1
    BY <2>1, <2>2
  <2> QED BY <2>1, <2>3
<1>7. PICK x : x = IF Log!NextOffset(r, since) > 0 THEN Log!NextOffset(r, since) ELSE since
  OBVIOUS
<1>8. d.lines = g /\ d.next = x /\ d.answered = TRUE /\ d.kind = c.kind /\ d.since = since /\ d.epoch = c.epoch
  BY <1>1, <1>5, <1>7 DEF Log!Asked, IsAnswer
<1>9. CASE m = 0
  <2>1. g = <<>>
    BY <1>6, <1>9
  <2>2. Log!NextOffset(r, since) = since
    BY <2>1, <1>5 DEF Log!NextOffset
  <2>3. x = since
    BY <2>2, <1>7
  <2>4. d \in Log!Asked
    BY <1>1, <1>5, <1>6, <1>7, <2>3 DEF Log!Asked, IsAnswer
  <2>5. Answered(d, Log!First(r), r.next)
    BY <1>8, <1>6, <1>9, <2>1, <2>3 DEF Answered
  <2> QED BY <1>1, <1>8, <2>4, <2>5
<1>10. CASE m # 0
  <2>1. g # <<>> /\ m \in 1..m /\ 1 \in 1..m
    BY <1>6, <1>10
  <2>2. g[1] = from /\ g[m] = from + m - 1
    BY <2>1, <1>6
  <2>3. Log!NextOffset(r, since) = from + m - 1
    BY <2>1, <2>2, <1>5, <1>6 DEF Log!NextOffset
  <2>4. from > since /\ from + m <= first + n /\ (from = since + 1 \/ from <= first)
    BY <1>4, <2>1
  <2>5. x = from + m - 1 /\ x \in 0..MaxLines /\ x < first + n
    <3>1. from + m - 1 > 0 /\ from + m - 1 \in 0..MaxLines /\ from + m - 1 < first + n
      BY <2>1, <2>4, <1>2
    <3> QED BY <3>1, <2>3, <1>7
  <2>6. d \in Log!Asked
    BY <1>1, <1>5, <1>6, <1>7, <2>5 DEF Log!Asked, IsAnswer
  <2>7. \A i \in DOMAIN g : g[i] = g[1] + i - 1
    BY <1>6, <2>2
  <2>8. Answered(d, first, first + n)
    BY <1>8, <1>6, <2>1, <2>2, <2>4, <2>5, <2>7 DEF Answered
  <2> QED BY <1>0, <1>1, <1>2, <1>8, <2>6, <2>8
<1> QED BY <1>9, <1>10

LEMMA TrimmedIs ==
    ASSUME MaxEntries \in Nat \ {0}, NEW s \in Seq(Log!Entry)
    PROVE  \E d \in 0..Len(s) : /\ Log!Trimmed(s) \in Seq(Log!Entry)
                                /\ Len(Log!Trimmed(s)) = Len(s) - d
                                /\ \A i \in 1..Len(Log!Trimmed(s)) : Log!Trimmed(s)[i] = s[d + i]
                                /\ Len(Log!Trimmed(s)) <= MaxEntries
<1>0. PICK n \in Nat : n = Len(s)
  BY EntryIs
<1>1. CASE n <= MaxEntries
  <2>1. Log!Trimmed(s) = s
    BY <1>0, <1>1 DEF Log!Trimmed
  <2>2. 0 \in 0..n /\ n = n - 0 /\ \A i \in 1..n : s[i] = s[0 + i]
    OBVIOUS
  <2> QED BY <1>0, <1>1, <2>1, <2>2
<1>2. CASE ~(n <= MaxEntries)
  <2>1. PICK t : t = SubSeq(s, n - MaxEntries + 1, n)
    OBVIOUS
  <2>2. Log!Trimmed(s) = t
    BY <1>0, <1>2, <2>1 DEF Log!Trimmed
  <2>3. PICK a \in 1..n : a = n - MaxEntries + 1
    BY <1>2
  <2>4. \A i \in a..n : s[i] \in Log!Entry
    BY <1>0, ElementOfSeq
  <2>5. /\ t \in Seq(Log!Entry) /\ Len(t) = IF a <= n THEN n - a + 1 ELSE 0
        /\ \A i \in 1..n - a + 1 : t[i] = s[a + i - 1]
    BY <2>1, <2>3, <2>4, SubSeqProperties
  <2>6. PICK d \in 0..n : d = n - MaxEntries
    BY <1>2
  <2>7. n - a + 1 = MaxEntries /\ n - d = MaxEntries /\ a <= n /\ MaxEntries <= MaxEntries
    BY <2>3, <2>6
  <2>8. Len(t) = MaxEntries
    BY <2>5, <2>7
  <2>9. \A i \in 1..MaxEntries : t[i] = s[d + i]
    <3> TAKE i \in 1..MaxEntries
    <3>1. t[i] = s[a + i - 1]
      BY <2>5, <2>7
    <3>2. a + i - 1 = d + i
      BY <2>3, <2>6
    <3> QED BY <3>1, <3>2
  <2>10. Len(t) = n - d /\ Len(t) <= MaxEntries /\ \A i \in 1..Len(t) : t[i] = s[d + i]
    BY <2>7, <2>8, <2>9
  <2> QED BY <1>0, <2>2, <2>5, <2>6, <2>10
<1> QED BY <1>1, <1>2

(* appendDaemonLines: what the console shows of an answer. *)
IsShown(t, e, c) == t = Log!Trimmed(e \o Log!Entries(c))

LEMMA ShowIs ==
    ASSUME MaxEntries \in Nat \ {0}, NEW c \in Log!Asked, c.answered, NEW f \in Nat, NEW n, Answered(c, f, n),
           v2 \in Nat, NEW e \in Seq(Log!Entry), NEW ep \in Nat, NEW o \in Nat, Fits(e, v2, ep),
           c.lines # <<>>, c.epoch = ep,
           NEW t, IsShown(t, e, c)
    PROVE  /\ t \in Seq(Log!Entry) /\ Len(t) <= MaxEntries /\ Fits(t, v2, ep)
           /\ Ordered(e, v2, o, f) /\ c.since = o => Ordered(t, v2, c.next, f)
<1>1. c.lines \in Seq(Nat) /\ c.since \in Nat /\ c.next \in Nat
  BY DEF Log!Asked
<1>2. PICK m \in Nat \ {0} : m = Len(c.lines) /\ DOMAIN c.lines = 1..m
  <2>1. Len(c.lines) \in Nat \ {0} /\ DOMAIN c.lines = 1..Len(c.lines)
    BY <1>1, EmptySeq, LenProperties
  <2> QED BY <2>1
<1>3. PICK from \in Nat : from = c.lines[1]
  BY <1>1, <1>2
<1>4. /\ \A i \in 1..m : c.lines[i] = from + i - 1
      /\ Resumes(c.since, from, f) /\ c.next = c.lines[m]
  BY <1>2, <1>3 DEF Answered, Resumes
<1>5. c.next = from + m - 1
  BY <1>4
<1>6. PICK g : g = Log!Entries(c)
  OBVIOUS
<1>7. g = [i \in 1..m |-> [life |-> v2, line |-> c.lines[i], epoch |-> c.epoch]]
  BY <1>2, <1>6 DEF Log!Entries
<1>8. \A i \in 1..m : g[i] = [life |-> v2, line |-> from + i - 1, epoch |-> ep] /\ g[i] \in Log!Entry
  BY <1>4, <1>7 DEF Log!Entry
<1>9. g \in Seq(Log!Entry) /\ Len(g) = m
  <2>1. g \in [1..m -> Log!Entry] /\ m \in Nat
    BY <1>7, <1>8
  <2> QED BY <2>1
<1>10. Shows(g, v2, from, ep)
  BY <1>8, <1>9 DEF Shows
<1>11. PICK s \in Seq(Log!Entry) : IsJoin(s, e, g)
  BY <1>9, ConcatProperties DEF IsJoin
<1>12. /\ Fits(s, v2, ep)
       /\ Ordered(e, v2, o, f) /\ Resumes(o, from, f) => Ordered(s, v2, from + Len(g) - 1, f)
  BY <1>9, <1>10, <1>11, OrderedMore
<1>13. from + Len(g) - 1 = c.next
  BY <1>5, <1>9
<1>14. t = Log!Trimmed(s)
  BY <1>6, <1>11 DEF IsJoin, IsShown
<1>15. PICK d \in 0..Len(s) : /\ t \in Seq(Log!Entry) /\ Len(t) = Len(s) - d
                              /\ \A i \in 1..Len(t) : t[i] = s[d + i]
                              /\ Len(t) <= MaxEntries
  BY <1>14, TrimmedIs
<1>16. Fits(s, v2, ep) => Fits(t, v2, ep)
  BY <1>15, OrderedShift
<1>17. Ordered(s, v2, c.next, f) => Ordered(t, v2, c.next, f)
  BY <1>15, OrderedShift
<1> QED BY <1>4, <1>12, <1>13, <1>15, <1>16, <1>17

LEMMA OrderedEmpty ==
    ASSUME NEW l, NEW o, NEW f, NEW ep
    PROVE  Ordered(<<>>, l, o, f) /\ Fits(<<>>, l, ep) /\ <<>> \in Seq(Log!Entry) /\ Len(<<>>) = 0
<1>1. Len(<<>>) = 0 /\ <<>> \in Seq(Log!Entry)
  OBVIOUS
<1>2. 1..0 = {} /\ 1..0 - 1 = {}
  OBVIOUS
<1> QED BY <1>1, <1>2 DEF Ordered, Fits

LEMMA CallsNone ==
    ASSUME MaxCalls \in Nat, NEW f, NEW n
    PROVE  CallsOK({}, f, n) /\ \A e, o, ep : One({}, e, o, ep)
BY FS_EmptySet DEF CallsOK, One

LEMMA LogInitInv == Log!Init => Log!IInv
<1> SUFFICES ASSUME Log!Init PROVE Log!IInv
  OBVIOUS
<1>1. Cap \in Nat \ {0} /\ MaxLines \in Nat /\ MaxCalls \in Nat /\ MaxUpsets \in Nat /\ MaxEntries \in Nat
  BY ConstantsAssumption DEF Log!LiveLogAssumption
<1>2. /\ v1 \in Log!Ring /\ v1.head \in 0..Cap - 1 /\ v1.count = 0 /\ v1.next = 0
      /\ Log!InOrder(v1)
  BY <1>1 DEF Log!Init, Log!Empty, Log!Ring, Log!InOrder
<1>3. v3 = {} /\ Log!IsFiniteSet(v3) /\ Log!Cardinality(v3) = 0
  BY FS_EmptySet, LogSetsAre DEF Log!Init
<1>4. v2 = 0 /\ v5 = 0 /\ v6 = FALSE
  BY DEF Log!Init
<1>5. v4 \in [entries : Seq(Log!Entry), offset : 0..MaxLines, epoch : Nat, open : BOOLEAN]
  BY <1>1 DEF Log!Init
<1>6. v4.entries = <<>> /\ Len(v4.entries) = 0 /\ DOMAIN v4.entries = {} /\ v4.offset = 0
  BY DEF Log!Init
<1>7. Log!TypeOK
  <2>1. v1.count \in 0..Cap /\ v4.offset \in 0..MaxLines
    BY <1>1, <1>2, <1>6
  <2>2. Log!Cardinality(v3) <= MaxCalls /\ Len(v4.entries) <= MaxEntries
    BY <1>1, <1>3, <1>6
  <2>3. {v2, v5} \subseteq 0..MaxUpsets
    BY <1>1, <1>4
  <2> QED BY <1>2, <1>4, <2>1, <2>2, <2>3 DEF Log!TypeOK
<1>8. Log!OneAtATime /\ Log!InLives /\ Log!ShownInOrder /\ Log!ClearedStaysCleared
  BY <1>3, <1>6 DEF Log!OneAtATime, Log!InLives, Log!ShownInOrder, Log!ClearedStaysCleared
<1>9. Log!NothingSkipped
  <2>1. 1..Len(v4.entries) - 1 = {}
    BY <1>6
  <2> QED BY <2>1 DEF Log!NothingSkipped
<1> QED BY <1>1, <1>2, <1>3, <1>4, <1>5, <1>6, <1>7, <1>8, <1>9 DEF Log!IInv

LEMMA LogNextInv == Log!IInv /\ [Log!Next]_(Log!vars) => Log!IInv'
<1> SUFFICES ASSUME Log!IInv, [Log!Next]_(Log!vars) PROVE Log!IInv'
  OBVIOUS
<1>c. /\ Cap \in Nat \ {0} /\ Batch \in Nat \ {0} /\ MaxEntries \in Nat \ {0} /\ MaxCalls \in Nat
      /\ MaxLines \in Nat /\ MaxUpsets \in Nat /\ 0 <= MaxEntries /\ 0 \in 0..MaxLines
  BY ConstantsAssumption DEF Log!LiveLogAssumption
<1>0. PICK e, o, ep, op :
         /\ IsConsole(v4, e, o, ep, op) /\ ConsoleOK(e, o, ep, op)
         /\ RingOK(v1) /\ Times(v2, v5) /\ CallsOK(v3, Log!First(v1), v1.next) /\ v6 \in BOOLEAN
         /\ Fits(e, v2, ep)
         /\ ~v6 => One(v3, e, o, ep) /\ Ordered(e, v2, o, Log!First(v1))
  BY LogPartsAre
<1>f. PICK f \in Nat, n \in 0..MaxLines : f = Log!First(v1) /\ n = v1.next
  BY <1>0, <1>c, FirstIs
<1>t. v2 \in Nat /\ v5 \in 0..MaxUpsets /\ v2 <= v5
  BY <1>0 DEF Times
<1>u. ASSUME Log!Upset PROVE Times(v2, v5') /\ Times(v2 + 1, v5')
  <2>1. v5' = v5 + 1 /\ v5 < MaxUpsets
    BY <1>u DEF Log!Upset
  <2>2. v5 + 1 \in 0..MaxUpsets /\ v2 <= v5 + 1 /\ v2 + 1 <= v5 + 1 /\ v2 + 1 \in 0..MaxUpsets
        /\ v2 \in 0..MaxUpsets
    BY <2>1, <1>t, <1>c
  <2> QED BY <2>1, <2>2, <1>t DEF Times
<1>e. /\ e \in Seq(Log!Entry) /\ Len(e) <= MaxEntries /\ o \in 0..MaxLines /\ o \in Nat /\ ep \in Nat
      /\ op \in BOOLEAN
      /\ v4.entries = e /\ v4.offset = o /\ v4.epoch = ep /\ v4.open = op
  BY <1>0 DEF ConsoleOK, IsConsole
<1>a. \A c \in v3 : c \in Log!Asked /\ Answered(c, f, n)
  BY <1>0, <1>f DEF CallsOK
<1>1. CASE Log!Log
  <2>1. /\ v1.next < MaxLines /\ v1' = Log!Append1(v1)
        /\ v2' = v2 /\ v3' = v3 /\ v4' = v4 /\ v5' = v5 /\ v6' = v6
    BY <1>1 DEF Log!Log
  <2>2. v1 \in Log!Ring /\ (v1.count <= v1.next /\ v1.next < MaxLines /\ Log!InOrder(v1))
    BY <2>1, <1>0 DEF RingOK
  <2>3. RingOK(v1') /\ v1'.next = v1.next + 1 /\ v1'.next - v1'.count >= v1.next - v1.count
    BY <2>1, <2>2, <1>c, RingAppend DEF RingOK
  <2>4. PICK f2 \in Nat, n2 \in Nat : f2 = Log!First(v1') /\ n2 = v1'.next
    BY <2>3, <1>c, FirstIs
  <2>5. f <= f2 /\ n <= n2
    BY <2>3, <2>4, <1>f DEF Log!First
  <2>6. CallsOK(v3, f2, n2)
    BY <2>5, <1>0, <1>f, CallsLater
  <2>7. ~v6 => Ordered(e, v2, o, f2)
    BY <2>5, <1>0, <1>e, <1>f, OrderedLater
  <2> QED BY <2>1, <2>3, <2>4, <2>6, <2>7, <1>0, LogFrom
<1>2. CASE Log!Restart
  <2>1. Log!Upset /\ v1' = Log!Empty /\ v2' = v2 + 1 /\ v3' = {} /\ v4' = v4 /\ v6' = v6
    BY <1>2 DEF Log!Restart
  <2>2. RingOK(v1') /\ Log!First(v1') = 0 /\ v1'.next = 0
    BY <2>1, <1>c, EmptyRing
  <2>3. PICK z \in Nat : z = 0
    OBVIOUS
  <2>4. Fits(e, v2 + 1, ep) /\ (Ordered(e, v2, o, f) => Ordered(e, v2 + 1, o, z))
    BY <1>0, <1>e, <1>t, OrderedAgain
  <2>5. CallsOK(v3', Log!First(v1'), v1'.next) /\ One(v3', e, o, ep)
    BY <2>1, <1>c, CallsNone
  <2>6. Times(v2', v5')
    BY <2>1, <1>u
  <2>7. IsConsole(v4', e, o, ep, op) /\ v6' \in BOOLEAN /\ Fits(e, v2', ep)
    BY <2>1, <2>4, <1>0
  <2>8. ~v6' => One(v3', e, o, ep) /\ Ordered(e, v2', o, Log!First(v1'))
    BY <2>1, <2>2, <2>3, <2>4, <2>5, <1>0, <1>f
  <2> QED BY <2>2, <2>5, <2>6, <2>7, <2>8, <1>0, LogFrom
<1>3. CASE Log!Poll
  <2>1. /\ v1' = v1 /\ v2' = v2 /\ v4' = v4 /\ v5' = v5
        /\ Log!Cardinality(v3) < MaxCalls /\ v3' = v3 \cup {Log!Ask("poll", v4.offset)}
        /\ v6' = (v6 \/ v3 # {})
    BY <1>3 DEF Log!Poll, Log!Call
  <2>2. PICK d : d = Log!Ask("poll", v4.offset)
    OBVIOUS
  <2>3. d = [kind |-> "poll", since |-> o, epoch |-> ep, answered |-> FALSE, lines |-> <<>>, next |-> 0]
    BY <2>1, <2>2, <1>e DEF Log!Ask
  <2>4. d \in Log!Asked
    BY <2>3, <1>e, <1>c DEF Log!Asked
  <2>5. Answered(d, f, n) /\ Right(d, e, o, ep)
    BY <2>3 DEF Answered, Right
  <2>6. Cardinality(v3) < MaxCalls
    BY <2>1, LogSetsAre
  <2>7. CallsOK(v3', Log!First(v1'), v1'.next)
    BY <2>1, <2>2, <2>4, <2>5, <2>6, <1>0, <1>c, <1>f, CallsMore
  <2>8. ~v6' => One(v3', e, o, ep) /\ ~v6
    BY <2>1, <2>2, <2>5, <1>0 DEF One
  <2>9. v6' \in BOOLEAN
    BY <2>1
  <2> QED BY <2>1, <2>7, <2>8, <2>9, <1>0, LogFrom
<1>4. CASE Log!Serve
  <2>1. PICK c \in v3 :
           v3' = (v3 \ {c}) \cup
                    {[c EXCEPT !.answered = TRUE, !.lines = Log!Given(v1, c.since),
                               !.next = IF Log!NextOffset(v1, c.since) > 0
                                        THEN Log!NextOffset(v1, c.since) ELSE c.since]}
    BY <1>4 DEF Log!Serve
  <2>2. v1' = v1 /\ v2' = v2 /\ v4' = v4 /\ v5' = v5 /\ v6' = v6
    BY <1>4 DEF Log!Serve
  <2>3. PICK d : IsAnswer(d, c, v1)
    BY DEF IsAnswer
  <2>4. v3' = (v3 \ {c}) \cup {d}
    BY <2>1, <2>3 DEF IsAnswer
  <2>5. /\ d \in Log!Asked /\ Answered(d, f, n)
        /\ d.kind = c.kind /\ d.since = c.since /\ d.epoch = c.epoch
    BY <2>3, <1>0, <1>a, <1>c, <1>f, AnswerIs
  <2>6. /\ CallsOK(v3', f, n)
        /\ One(v3, e, o, ep) /\ Right(d, e, o, ep) => One(v3', e, o, ep)
    BY <2>4, <2>5, <1>0, <1>c, <1>f, CallsSwap
  <2>7. One(v3, e, o, ep) => Right(d, e, o, ep)
    BY <2>5 DEF One, Right
  <2> QED BY <2>2, <2>6, <2>7, <1>0, <1>f, LogFrom
<1>5. CASE Log!Show
  <2>1. PICK c \in v3 :
           /\ c.kind = "poll" /\ c.answered /\ v3' = v3 \ {c}
           /\ v4' = [v4 EXCEPT !.entries = IF Log!Taken(c) THEN Log!Trimmed(@ \o Log!Entries(c)) ELSE @,
                               !.offset = IF Log!Moved(c) THEN c.next ELSE @]
    BY <1>5 DEF Log!Show
  <2>2. v1' = v1 /\ v2' = v2 /\ v5' = v5 /\ v6' = v6
    BY <1>5 DEF Log!Show
  <2>a. CallsOK(v3 \ {c}, f, n)
    BY <1>0, <1>c, <1>f, CallsLess
  <2>b. CallsOK(v3', Log!First(v1'), v1'.next)
    BY <2>a, <2>1, <2>2, <1>f
  <2>c. \A x, y, z : One(v3, x, y, z) => v3' = {}
    BY <2>1 DEF One
  <2>3. /\ CallsOK(v3', Log!First(v1'), v1'.next)
        /\ \A x, y, z : One(v3, x, y, z) => v3' = {}
    BY <2>b, <2>c
  <2>4. ASSUME ~v6 PROVE One(v3, e, o, ep) /\ c.since = o /\ c.epoch = ep /\ v3' = {}
    BY <2>1, <2>3, <2>4, <1>0 DEF One, Right
  <2>5. c \in Log!Asked /\ Answered(c, f, n)
    BY <1>a
  <2>6. PICK t : t = IF Log!Taken(c) THEN Log!Trimmed(e \o Log!Entries(c)) ELSE e
    OBVIOUS
  <2>7. PICK q : q = IF Log!Moved(c) THEN c.next ELSE o
    OBVIOUS
  <2>8. IsConsole(v4', t, q, ep, op)
    BY <2>1, <2>6, <2>7, <1>0, <1>e DEF IsConsole
  <2>9. q \in 0..MaxLines
    BY <2>5, <2>7, <1>e DEF Log!Asked
  <2>10. /\ t \in Seq(Log!Entry) /\ Len(t) <= MaxEntries /\ Fits(t, v2, ep)
         /\ ~v6 => Ordered(t, v2, q, f)
    <3>1. CASE c.lines = <<>>
      <4>1. t = e
        BY <3>1, <2>6 DEF Log!Taken
      <4>2. c.next = c.since /\ c.since \in Nat
        BY <3>1, <2>1, <2>5 DEF Answered, Log!Asked
      <4>3. q = o
        BY <4>2, <2>7 DEF Log!Moved
      <4> QED BY <4>1, <4>3, <1>0, <1>e, <1>f
    <3>2. CASE c.lines # <<>> /\ c.epoch # ep
      <4>1. t = e /\ v6
        BY <3>2, <2>4, <2>6, <1>0, <1>e DEF Log!Taken
      <4> QED BY <4>1, <1>0, <1>e
    <3>3. CASE c.lines # <<>> /\ c.epoch = ep
      <4>1. IsShown(t, e, c)
        BY <3>3, <2>6, <1>e DEF Log!Taken, IsShown
      <4>2. /\ t \in Seq(Log!Entry) /\ Len(t) <= MaxEntries /\ Fits(t, v2, ep)
            /\ Ordered(e, v2, o, f) /\ c.since = o => Ordered(t, v2, c.next, f)
        BY <4>1, <3>3, <2>1, <2>5, <1>0, <1>c, <1>e, <1>t, ShowIs
      <4>3. c.next > c.since
        <5>1. PICK x \in Seq(Nat) : x = c.lines /\ x # <<>>
          BY <3>3, <2>5 DEF Log!Asked
        <5>2. PICK m \in Nat \ {0} : m = Len(x) /\ DOMAIN x = 1..m
          BY <5>1, EmptySeq, LenProperties
        <5>3. m \in 1..m /\ 1 \in 1..m /\ x[1] \in Nat /\ x[m] \in Nat
          BY <5>2
        <5>4. x[m] = x[1] + m - 1 /\ x[1] > c.since /\ c.next = x[m]
          BY <5>1, <5>2, <5>3, <2>1, <2>5 DEF Answered
        <5>5. c.since \in Nat
          BY <2>5 DEF Log!Asked
        <5> QED BY <5>3, <5>4, <5>5
      <4>4. q = c.next
        BY <4>3, <2>7 DEF Log!Moved
      <4> QED BY <4>2, <4>4, <2>4, <1>0, <1>f
    <3> QED BY <3>1, <3>2, <3>3
  <2>11. ConsoleOK(t, q, ep, op)
    BY <2>9, <2>10, <1>e DEF ConsoleOK
  <2>12. ~v6 => One(v3', t, q, ep)
    BY <2>4, <1>c, CallsNone
  <2> QED BY <2>2, <2>3, <2>8, <2>10, <2>11, <2>12, <1>0, <1>f, LogFrom
<1>6. CASE Log!Clear
  <2>1. /\ Log!Upset /\ v4' = [v4 EXCEPT !.entries = <<>>, !.epoch = @ + 1]
        /\ Log!Cardinality(v3) < MaxCalls /\ v3' = v3 \cup {Log!Ask("skip", v4.offset)}
        /\ v6' = (v6 \/ v3 # {}) /\ v1' = v1 /\ v2' = v2
    BY <1>6 DEF Log!Clear, Log!Call
  <2>2. PICK d : d = Log!Ask("skip", v4.offset)
    OBVIOUS
  <2>3. PICK k \in Nat : k = ep + 1
    BY <1>e
  <2>e. PICK s \in Seq(Log!Entry) : s = <<>> /\ Len(s) <= MaxEntries
    BY <1>c, OrderedEmpty
  <2>4. IsConsole(v4', s, o, k, op)
    BY <2>1, <2>3, <2>e, <1>0 DEF IsConsole
  <2>5. d = [kind |-> "skip", since |-> o, epoch |-> k, answered |-> FALSE, lines |-> <<>>, next |-> 0]
    BY <2>2, <2>4, <1>e DEF Log!Ask, IsConsole
  <2>6. d \in Log!Asked
    BY <2>5, <1>e, <1>c DEF Log!Asked
  <2>7. Answered(d, f, n) /\ Right(d, s, o, k)
    BY <2>5, <2>e DEF Answered, Right
  <2>8. Cardinality(v3) < MaxCalls
    BY <2>1, LogSetsAre
  <2>9. CallsOK(v3', Log!First(v1'), v1'.next)
    BY <2>1, <2>2, <2>6, <2>7, <2>8, <1>0, <1>c, <1>f, CallsMore
  <2>10. ~v6' => One(v3', s, o, k)
    BY <2>1, <2>2, <2>7 DEF One
  <2>11. v6' \in BOOLEAN
    BY <2>1
  <2>12. ConsoleOK(s, o, k, op)
    BY <2>e, <1>e DEF ConsoleOK
  <2>13. Fits(s, v2', k) /\ Ordered(s, v2', o, Log!First(v1'))
    BY <2>e, OrderedEmpty
  <2>14. RingOK(v1') /\ Times(v2', v5')
    BY <2>1, <1>0, <1>u
  <2> QED BY <2>4, <2>9, <2>10, <2>11, <2>12, <2>13, <2>14, LogFrom
<1>7. CASE Log!Skip
  <2>1. PICK c \in v3 :
           /\ c.kind = "skip" /\ c.answered
           /\ \/ /\ v3' = (v3 \ {c}) \cup
                             {[c EXCEPT !.answered = FALSE, !.since = c.next, !.lines = <<>>, !.next = 0]}
                 /\ v4' = v4
              \/ v3' = v3 \ {c} /\ v4' = [v4 EXCEPT !.offset = c.next]
    BY <1>7 DEF Log!Skip
  <2>2. v1' = v1 /\ v2' = v2 /\ v5' = v5 /\ v6' = v6
    BY <1>7 DEF Log!Skip
  <2>3. c \in Log!Asked
    BY <1>a
  <2>4. CASE /\ v3' = (v3 \ {c}) \cup
                         {[c EXCEPT !.answered = FALSE, !.since = c.next, !.lines = <<>>, !.next = 0]}
             /\ v4' = v4
    <3>1. PICK d : d = [c EXCEPT !.answered = FALSE, !.since = c.next, !.lines = <<>>, !.next = 0]
      OBVIOUS
    <3>2. d \in Log!Asked /\ d.kind = "skip" /\ d.answered = FALSE
      <4>1. PICK q \in 0..MaxLines, x \in Nat : q = c.next /\ x = c.epoch
        BY <2>3 DEF Log!Asked
      <4>2. d = [kind |-> "skip", since |-> q, epoch |-> x, answered |-> FALSE, lines |-> <<>>, next |-> 0]
        BY <4>1, <3>1, <2>1, <2>3 DEF Log!Asked
      <4> QED BY <4>2, <1>c DEF Log!Asked
    <3>3. Answered(d, f, n)
      BY <3>2 DEF Answered
    <3>4. One(v3, e, o, ep) => Right(d, e, o, ep)
      BY <3>2, <2>1 DEF One, Right
    <3>5. v3' = (v3 \ {c}) \cup {d}
      BY <3>1, <2>4
    <3>6. /\ CallsOK(v3', f, n)
          /\ One(v3, e, o, ep) /\ Right(d, e, o, ep) => One(v3', e, o, ep)
      BY <3>2, <3>3, <3>5, <1>0, <1>c, <1>f, CallsSwap
    <3> QED BY <3>4, <3>6, <2>2, <2>4, <1>0, <1>f, LogFrom
  <2>5. CASE v3' = v3 \ {c} /\ v4' = [v4 EXCEPT !.offset = c.next]
    <3>1. PICK q \in 0..MaxLines : q = c.next
      BY <2>3 DEF Log!Asked
    <3>2. IsConsole(v4', e, q, ep, op)
      BY <3>1, <2>5, <1>0 DEF IsConsole
    <3>3. ConsoleOK(e, q, ep, op)
      BY <3>1, <1>e DEF ConsoleOK
    <3>4. CallsOK(v3', Log!First(v1'), v1'.next)
      BY <2>2, <2>5, <1>0, <1>c, CallsLess
    <3>5. ASSUME ~v6 PROVE One(v3', e, q, ep) /\ Ordered(e, v2, q, f)
      <4>1. One(v3, e, o, ep)
        BY <3>5, <1>0
      <4>2. v3' = {} /\ e = <<>>
        BY <4>1, <2>1, <2>5 DEF One, Right
      <4> QED BY <4>2, <1>c, CallsNone, OrderedEmpty
    <3> QED BY <3>2, <3>3, <3>4, <3>5, <2>2, <1>0, <1>f, LogFrom
  <2> QED BY <2>1, <2>4, <2>5
<1>8. CASE Log!Fail
  <2>1. PICK c \in v3 : v3' = v3 \ {c}
    BY <1>8 DEF Log!Fail
  <2>2. Log!Upset /\ v1' = v1 /\ v2' = v2 /\ v4' = v4 /\ v6' = v6
    BY <1>8 DEF Log!Fail
  <2>3. CallsOK(v3', Log!First(v1'), v1'.next) /\ (One(v3, e, o, ep) => One(v3', e, o, ep))
    BY <2>1, <2>2, <1>0, <1>c, CallsLess
  <2>4. Times(v2', v5')
    BY <2>2, <1>u
  <2> QED BY <2>2, <2>3, <2>4, <1>0, LogFrom
<1>9. CASE Log!Toggle
  <2>1. (Log!Upset \/ v5' = v5) /\ v1' = v1 /\ v2' = v2 /\ v3' = v3 /\ v6' = v6
        /\ v4' = [v4 EXCEPT !.open = ~@]
    BY <1>9 DEF Log!Toggle
  <2>2. PICK b \in BOOLEAN : b = ~op
    OBVIOUS
  <2>3. IsConsole(v4', e, o, ep, b) /\ ConsoleOK(e, o, ep, b)
    BY <2>1, <2>2, <1>0 DEF IsConsole, ConsoleOK
  <2>4. Times(v2', v5')
    BY <2>1, <1>0, <1>u
  <2> QED BY <2>1, <2>3, <2>4, <1>0, LogFrom
<1>10. CASE UNCHANGED Log!vars
  <2>1. v1' = v1 /\ v2' = v2 /\ v3' = v3 /\ v4' = v4 /\ v5' = v5 /\ v6' = v6
    BY <1>10 DEF Log!vars
  <2> QED BY <2>1, <1>0, LogFrom
<1> QED BY <1>1, <1>2, <1>3, <1>4, <1>5, <1>6, <1>7, <1>8, <1>9, <1>10 DEF Log!Next

-----------------------------------------------------------------------------
(* The bridge of the browser extensions. *)

LEMMA BridgeInitInv == Bridge!Init => Bridge!IInv
<1> SUFFICES ASSUME Bridge!Init PROVE Bridge!IInv
  OBVIOUS
<1>1. Bridge!TypeOK
  <2>1. v1 \in [process : {"off", "starting", "up"}, enabled : BOOLEAN, seen : BOOLEAN,
                serves : Requests \cup {Nobody}]
    BY DEF Bridge!Init, Bridge!Off
  <2>2. v2 \in [enabled : BOOLEAN, suspended : BOOLEAN, awaits : BOOLEAN, starts : Nat,
                reachable : BOOLEAN, connected : BOOLEAN]
    <3>1. v2 \in [enabled : BOOLEAN, suspended : BOOLEAN, awaits : {FALSE}, starts : {0},
                  reachable : {FALSE}, connected : {FALSE}]
      BY DEF Bridge!Init
    <3>2. /\ v2.awaits = FALSE /\ v2.starts = 0 /\ v2.reachable = FALSE /\ v2.connected = FALSE
          /\ v2.enabled \in BOOLEAN /\ v2.suspended \in BOOLEAN
      BY <3>1
    <3>3. v2.starts \in Nat
      BY <3>2
    <3> QED BY <3>1, <3>2, <3>3
  <2>3. v3 = {} /\ v4 = 0 /\ v5 = 0
    BY DEF Bridge!Init
  <2>4. v6 = [r \in Requests |-> [at |-> "new", heard |-> "nothing", executed |-> 0]]
    BY DEF Bridge!Init
  <2>5. v7 = [i \in Bridge!Checks |-> [at |-> "none", seen |-> FALSE]]
    BY DEF Bridge!Init
  <2> QED BY <2>1, <2>2, <2>3, <2>4, <2>5 DEF Bridge!TypeOK
<1> QED BY <1>1 DEF Bridge!IInv, Bridge!Init, Bridge!Off, Bridge!LastPost, Bridge!Undone,
      Bridge!FollowsSettings, Bridge!ErrorsAreHarmless

(* syncSettings: what is posted carries the settings of the client, and has the *)
(* last number.                                                                 *)
LEMMA SyncedPosts ==
    ASSUME Bridge!IInv, NEW g, g = v2', NEW n \in Nat, Bridge!Synced(g, n),
           g \in [enabled : BOOLEAN, suspended : BOOLEAN, awaits : BOOLEAN, starts : Nat,
                  reachable : BOOLEAN, connected : BOOLEAN],
           n = 0 => Bridge!Effective(g) = Bridge!Effective(v2)
    PROVE  /\ v4' \in Nat /\ v4' >= v4 /\ (n > 0 => v4' > v4)
           /\ v3' \subseteq [n : 1..v4', enabled : BOOLEAN, copies : Nat \ {0}]
           /\ \A p \in v3' : p.n = v4' => p.enabled = Bridge!Effective(v2')
<1>i. v4 \in Nat /\ v3 \subseteq [n : 1..v4, enabled : BOOLEAN, copies : Nat \ {0}]
      /\ \A p \in v3 : p.n = v4 => p.enabled = Bridge!Effective(v2)
  BY DEF Bridge!IInv, Bridge!TypeOK, Bridge!LastPost
<1>1. CASE n = 0
  BY <1>1, <1>i DEF Bridge!Synced
<1>2. CASE n # 0
  <2>1. PICK q : q = [n |-> v4 + 1, enabled |-> Bridge!Effective(g), copies |-> n]
    OBVIOUS
  <2>2. v3' = v3 \cup {q} /\ v4' = v4 + 1
    BY <1>2, <2>1 DEF Bridge!Synced
  <2>3. Bridge!Effective(g) \in BOOLEAN
    BY DEF Bridge!Effective
  <2>4. v4 + 1 \in 1..v4 + 1 /\ n \in Nat \ {0}
    BY <1>2, <1>i
  <2>5. q \in [n : 1..v4 + 1, enabled : BOOLEAN, copies : Nat \ {0}]
    BY <2>1, <2>3, <2>4
  <2>6. \A p \in v3 : p.n <= v4 /\ p.n \in Int /\ p \in [n : 1..v4 + 1, enabled : BOOLEAN, copies : Nat \ {0}]
    <3> TAKE p \in v3
    <3>1. p \in [n : 1..v4, enabled : BOOLEAN, copies : Nat \ {0}]
      BY <1>i
    <3>2. p.n \in 1..v4 + 1 /\ p.n <= v4 /\ p.n \in Int
      BY <3>1, <1>i
    <3> QED BY <3>1, <3>2
  <2>7. \A p \in v3' : p.n = v4' => p.enabled = Bridge!Effective(g)
    BY <2>1, <2>2, <2>6, <1>i
  <2>8. v3' \subseteq [n : 1..v4 + 1, enabled : BOOLEAN, copies : Nat \ {0}]
    BY <2>2, <2>5, <2>6
  <2> QED BY <2>2, <2>7, <2>8, <1>i
<1> QED BY <1>1, <1>2

(* Without leaves the numbers and the settings of the posts as they are. *)
LEMMA WithoutPost ==
    ASSUME Bridge!IInv, NEW p \in v3, v3' = Bridge!Without(p), v4' = v4, v2' = v2
    PROVE  /\ v3' \subseteq [n : 1..v4', enabled : BOOLEAN, copies : Nat \ {0}]
           /\ \A q \in v3' : q.n = v4' => q.enabled = Bridge!Effective(v2')
<1>i. v4 \in Nat /\ v3 \subseteq [n : 1..v4, enabled : BOOLEAN, copies : Nat \ {0}]
      /\ \A q \in v3 : q.n = v4 => q.enabled = Bridge!Effective(v2)
  BY DEF Bridge!IInv, Bridge!TypeOK, Bridge!LastPost
<1>1. CASE p.copies = 1
  BY <1>1, <1>i DEF Bridge!Without
<1>2. CASE p.copies # 1
  <2>1. PICK q : q = [p EXCEPT !.copies = @ - 1]
    OBVIOUS
  <2>2. v3' = (v3 \ {p}) \cup {q}
    BY <1>2, <2>1 DEF Bridge!Without
  <2>p. p \in [n : 1..v4, enabled : BOOLEAN, copies : Nat \ {0}]
    BY <1>i
  <2>3. p.copies - 1 \in Nat \ {0}
    BY <1>2, <2>p
  <2>4. q \in [n : 1..v4, enabled : BOOLEAN, copies : Nat \ {0}] /\ q.n = p.n /\ q.enabled = p.enabled
    BY <2>p, <2>1, <2>3
  <2> QED BY <2>2, <2>4, <1>i
<1> QED BY <1>1, <1>2

(* A request that is told something: what it heard first stays. *)
LEMMA HearsKeeps ==
    ASSUME Bridge!IInv, NEW r \in Requests, NEW what \in {"ok", "error", "unreachable"},
           NEW x, x = Bridge!Hears(r, what),
           what = "error" => v6[r].at \in {"new", "sent", "forwarded"}
    PROVE  /\ x \in [Requests ->
                       [at : {"new", "sent", "forwarded", "said", "cut", "answered"},
                        heard : {"nothing", "ok", "error", "unreachable"}, executed : {0, 1}]]
           /\ \A o \in Requests \ {r} : x[o] = v6[o]
           /\ x[r].at = "answered" /\ x[r].executed = v6[r].executed
           /\ x[r].heard = "error" => x[r].executed = 0
<1>i. /\ v6 \in [Requests ->
                       [at : {"new", "sent", "forwarded", "said", "cut", "answered"},
                        heard : {"nothing", "ok", "error", "unreachable"}, executed : {0, 1}]]
      /\ Bridge!Undone /\ Bridge!ErrorsAreHarmless
  BY DEF Bridge!IInv, Bridge!TypeOK
<1>0. v6[r] \in [at : {"new", "sent", "forwarded", "said", "cut", "answered"},
                  heard : {"nothing", "ok", "error", "unreachable"}, executed : {0, 1}]
  BY <1>i
<1>1. PICK z : z = [v6 EXCEPT ![r].at = "answered"]
  OBVIOUS
<1>2. /\ z[r] = [at |-> "answered", heard |-> v6[r].heard, executed |-> v6[r].executed]
      /\ DOMAIN z = Requests /\ \A o \in Requests \ {r} : z[o] = v6[o]
  BY <1>1, <1>0, <1>i
<1>3. PICK h : h = IF v6[r].heard = "nothing" THEN what ELSE v6[r].heard
  OBVIOUS
<1>4. /\ h \in {"nothing", "ok", "error", "unreachable"} /\ v6[r].executed \in {0, 1}
      /\ h = "error" => v6[r].executed = 0
  BY <1>0, <1>3, <1>i DEF Bridge!Undone, Bridge!ErrorsAreHarmless
<1>5. PICK y : y = [at |-> "answered", heard |-> h, executed |-> v6[r].executed]
  OBVIOUS
<1>6. x = [z EXCEPT ![r].heard = h]
  BY <1>1, <1>3, <1>i DEF Bridge!Hears
<1>7. y = [z[r] EXCEPT !.heard = h]
  BY <1>2, <1>5
<1>8. x = [z EXCEPT ![r] = y]
  BY <1>6, <1>7
<1>9. y \in [at : {"new", "sent", "forwarded", "said", "cut", "answered"},
             heard : {"nothing", "ok", "error", "unreachable"}, executed : {0, 1}]
  BY <1>5, <1>4
<1>10. y.at = "answered" /\ y.executed = v6[r].executed /\ (y.heard = "error" => y.executed = 0)
  BY <1>5, <1>4
<1> QED BY <1>2, <1>8, <1>9, <1>10, <1>i

(* The settings change, or are sent again, while the bridge stays as it is, or, *)
(* where there is none, is started.                                             *)
LEMMA PostsFollow ==
    ASSUME Bridge!IInv, NEW g, NEW n \in Nat, v2' = g, Bridge!Synced(g, n), UNCHANGED <<v5, v6, v7>>,
           g \in [enabled : BOOLEAN, suspended : BOOLEAN, awaits : BOOLEAN, starts : Nat,
                  reachable : BOOLEAN, connected : BOOLEAN],
           n = 0 => Bridge!Effective(g) = Bridge!Effective(v2),
           v1' = v1 \/ (v1.process = "off" /\ v1' = [Bridge!Off EXCEPT !.process = "starting"])
    PROVE  Bridge!IInv'
<1>1. /\ v4' \in Nat /\ v4' >= v4 /\ (n > 0 => v4' > v4)
      /\ v3' \subseteq [n : 1..v4', enabled : BOOLEAN, copies : Nat \ {0}]
      /\ \A p \in v3' : p.n = v4' => p.enabled = Bridge!Effective(v2')
  BY SyncedPosts
<1>2. v1' \in [process : {"off", "starting", "up"}, enabled : BOOLEAN, seen : BOOLEAN,
               serves : Requests \cup {Nobody}]
  BY DEF Bridge!IInv, Bridge!TypeOK, Bridge!Off
<1>i. /\ v4 \in Nat /\ v5 \in 0..v4
      /\ v1.process # "up" => v5 = 0
      /\ v5 > 0 /\ v5 = v4 => v1.enabled = Bridge!Effective(v2)
  BY DEF Bridge!IInv, Bridge!TypeOK, Bridge!LastPost, Bridge!FollowsSettings
<1>3. v5' \in 0..v4'
  BY <1>1, <1>i
<1>4. Bridge!TypeOK'
  BY <1>1, <1>2, <1>3 DEF Bridge!IInv, Bridge!TypeOK, Bridge!Checks
<1>5. v1'.process # "up" => v5' = 0
  BY <1>i DEF Bridge!Off
<1>6. Bridge!LastPost'
  BY <1>1, <1>5 DEF Bridge!LastPost, Bridge!Effective
<1>7. Bridge!FollowsSettings'
  <2>1. CASE n > 0
    BY <2>1, <1>1, <1>i DEF Bridge!FollowsSettings
  <2>2. CASE n = 0
    <3>1. v4' = v4 /\ Bridge!Effective(v2') = Bridge!Effective(v2)
      BY <2>2 DEF Bridge!Synced
    <3>2. v1' = v1 \/ v5 = 0
      BY <1>i
    <3> QED BY <3>1, <3>2, <1>i DEF Bridge!FollowsSettings, Bridge!Effective
  <2> QED BY <2>1, <2>2
<1>8. Bridge!Undone' /\ Bridge!ErrorsAreHarmless'
  BY DEF Bridge!IInv, Bridge!Undone, Bridge!ErrorsAreHarmless
<1> QED BY <1>1, <1>4, <1>6, <1>7, <1>8 DEF Bridge!IInv

(* ensureBridgeProcess *)
LEMMA EnsuredFollows ==
    ASSUME Bridge!IInv, NEW g, NEW n \in Nat, Bridge!Ensured(g, n), UNCHANGED <<v5, v6, v7>>,
           g \in [enabled : BOOLEAN, suspended : BOOLEAN, awaits : BOOLEAN, starts : Nat,
                  reachable : BOOLEAN, connected : BOOLEAN],
           n = 0 => Bridge!Effective(g) = Bridge!Effective(v2)
    PROVE  Bridge!IInv'
<1>1. CASE v1.process # "off"
  <2>1. n + 1 \in Nat /\ n + 1 # 0
    OBVIOUS
  <2>2. v2' = g /\ Bridge!Synced(g, n + 1) /\ v1' = v1
    BY <1>1 DEF Bridge!Ensured
  <2>3. PICK m : m = n + 1
    OBVIOUS
  <2>4. m \in Nat /\ m # 0 /\ Bridge!Synced(g, m)
    BY <2>1, <2>2, <2>3
  <2> QED BY <2>2, <2>4, PostsFollow
<1>2. CASE v1.process = "off"
  <2>1. PICK h : h = [g EXCEPT !.awaits = TRUE, !.starts = @ + 1]
    OBVIOUS
  <2>2. g.starts + 1 \in Nat
    OBVIOUS
  <2>3. /\ h \in [enabled : BOOLEAN, suspended : BOOLEAN, awaits : BOOLEAN, starts : Nat,
                  reachable : BOOLEAN, connected : BOOLEAN]
        /\ Bridge!Effective(h) = Bridge!Effective(g)
    BY <2>1, <2>2 DEF Bridge!Effective
  <2>4. v2' = h /\ v1' = [Bridge!Off EXCEPT !.process = "starting"] /\ Bridge!Synced(g, n)
    BY <1>2, <2>1 DEF Bridge!Ensured
  <2>5. Bridge!Synced(h, n)
    BY <2>3, <2>4 DEF Bridge!Synced
  <2> QED BY <1>2, <2>3, <2>4, <2>5, PostsFollow
<1> QED BY <1>1, <1>2

(* What an extension hears. *)
LEMMA RequestsInv ==
    ASSUME Bridge!IInv, UNCHANGED <<v2, v3, v4, v5, v7>>,
           v1' \in [process : {"off", "starting", "up"}, enabled : BOOLEAN, seen : BOOLEAN,
                    serves : Requests \cup {Nobody}],
           v1'.process = v1.process, v1'.enabled = v1.enabled,
           v6' \in [Requests ->
                       [at : {"new", "sent", "forwarded", "said", "cut", "answered"},
                        heard : {"nothing", "ok", "error", "unreachable"}, executed : {0, 1}]],
           \A r \in Requests :
               /\ v6'[r].at \in {"new", "sent", "forwarded"} => v6'[r].executed = 0
               /\ v6'[r].heard = "error" => v6'[r].at = "answered" /\ v6'[r].executed = 0
    PROVE  Bridge!IInv'
<1>1. Bridge!TypeOK'
  BY DEF Bridge!IInv, Bridge!TypeOK, Bridge!Checks
<1>2. Bridge!LastPost' /\ Bridge!FollowsSettings' /\ v4' \in Nat
  BY DEF Bridge!IInv, Bridge!LastPost, Bridge!FollowsSettings, Bridge!Effective
<1>3. Bridge!Undone' /\ Bridge!ErrorsAreHarmless'
  BY DEF Bridge!Undone, Bridge!ErrorsAreHarmless
<1> QED BY <1>1, <1>2, <1>3 DEF Bridge!IInv

LEMMA BridgeNextInv == Bridge!IInv /\ [Bridge!Next]_(Bridge!vars) => Bridge!IInv'
<1> SUFFICES ASSUME Bridge!IInv, [Bridge!Next]_(Bridge!vars) PROVE Bridge!IInv'
  OBVIOUS
<1>i. /\ v1 \in [process : {"off", "starting", "up"}, enabled : BOOLEAN, seen : BOOLEAN,
                  serves : Requests \cup {Nobody}]
      /\ v2 \in [enabled : BOOLEAN, suspended : BOOLEAN, awaits : BOOLEAN, starts : Nat,
                  reachable : BOOLEAN, connected : BOOLEAN]
      /\ v4 \in Nat /\ v5 \in 0..v4
      /\ v3 \subseteq [n : 1..v4, enabled : BOOLEAN, copies : Nat \ {0}]
      /\ v6 \in [Requests ->
                       [at : {"new", "sent", "forwarded", "said", "cut", "answered"},
                        heard : {"nothing", "ok", "error", "unreachable"}, executed : {0, 1}]]
      /\ \A r \in Requests :
            /\ v6[r].at \in {"new", "sent", "forwarded"} => v6[r].executed = 0
            /\ v6[r].heard = "error" => v6[r].at = "answered" /\ v6[r].executed = 0
  BY DEF Bridge!IInv, Bridge!TypeOK, Bridge!Undone, Bridge!ErrorsAreHarmless
<1>1. CASE Bridge!Begin
  <2>1. Bridge!Ensured(v2, 0) /\ UNCHANGED <<v5, v6, v7>>
    BY <1>1 DEF Bridge!Begin
  <2>2. PICK z \in Nat : z = 0
    OBVIOUS
  <2> QED BY <2>1, <2>2, <1>i, EnsuredFollows
<1>2. CASE Bridge!Started
  <2>1. PICK g : g = [v2 EXCEPT !.awaits = FALSE]
    OBVIOUS
  <2>2. /\ g \in [enabled : BOOLEAN, suspended : BOOLEAN, awaits : BOOLEAN, starts : Nat,
                  reachable : BOOLEAN, connected : BOOLEAN]
        /\ Bridge!Effective(g) = Bridge!Effective(v2)
    BY <2>1, <1>i DEF Bridge!Effective
  <2>3. v2.starts \in Nat
    BY <1>i
  <2>4. v2' = g /\ Bridge!Synced(v2, v2.starts) /\ UNCHANGED <<v1, v5, v6, v7>>
    BY <1>2, <2>1 DEF Bridge!Started
  <2>5. Bridge!Synced(g, v2.starts)
    BY <2>2, <2>4 DEF Bridge!Synced
  <2>6. PICK n : n = v2.starts
    OBVIOUS
  <2>7. n \in Nat /\ Bridge!Synced(g, n)
    BY <2>3, <2>5, <2>6
  <2> QED BY <2>2, <2>4, <2>7, PostsFollow
<1>3. CASE Bridge!Change
  <2>u. UNCHANGED <<v5, v6, v7>>
    BY <1>3 DEF Bridge!Change
  <2>n. PICK one, two, three \in Nat : one = 1 /\ two = 2 /\ three = 3
    OBVIOUS
  <2>1. CASE Bridge!Other
    <3>1. v2' = v2 /\ Bridge!Synced(v2, one) /\ v1' = v1
      BY <2>1, <2>n DEF Bridge!Other
    <3> QED BY <3>1, <2>u, <2>n, <1>i, PostsFollow
  <2>2. CASE Bridge!Toggle
    <3>1. PICK g : g = [v2 EXCEPT !.enabled = ~@]
      OBVIOUS
    <3>2. v2' = g /\ Bridge!Synced(g, three) /\ v1' = v1
      BY <2>2, <2>n, <3>1 DEF Bridge!Toggle
    <3>3. (~v2.enabled) \in BOOLEAN
      OBVIOUS
    <3>4. g \in [enabled : BOOLEAN, suspended : BOOLEAN, awaits : BOOLEAN, starts : Nat,
                 reachable : BOOLEAN, connected : BOOLEAN]
      BY <3>1, <3>3, <1>i
    <3> QED BY <3>2, <3>4, <2>u, <2>n, PostsFollow
  <2>3. ASSUME NEW place, Bridge!Suspend(place) \/ Bridge!Resume(place)
        PROVE  Bridge!IInv'
    <3>0. PICK k \in {one, two} : k = Bridge!Posts(place)
      BY <2>n DEF Bridge!Posts
    <3>k. k \in Nat /\ k # 0
      BY <2>n
    <3>1. CASE Bridge!Suspend(place)
      <4>1. PICK g : g = [v2 EXCEPT !.suspended = TRUE]
        OBVIOUS
      <4>2. v2' = g /\ Bridge!Synced(g, k) /\ v1' = v1
        BY <3>1, <3>0, <4>1 DEF Bridge!Suspend
      <4>3. g \in [enabled : BOOLEAN, suspended : BOOLEAN, awaits : BOOLEAN, starts : Nat,
                   reachable : BOOLEAN, connected : BOOLEAN]
        BY <4>1, <1>i
      <4> QED BY <4>2, <4>3, <3>k, <2>u, PostsFollow
    <3>2. CASE Bridge!Resume(place)
      <4>1. PICK g : g = [v2 EXCEPT !.suspended = FALSE]
        OBVIOUS
      <4>2. g \in [enabled : BOOLEAN, suspended : BOOLEAN, awaits : BOOLEAN, starts : Nat,
                   reachable : BOOLEAN, connected : BOOLEAN]
        BY <4>1, <1>i
      <4>3. (v2' = g /\ Bridge!Synced(g, k) /\ v1' = v1) \/ Bridge!Ensured(g, k)
        BY <3>2, <3>0, <4>1 DEF Bridge!Resume
      <4>4. CASE v2' = g /\ Bridge!Synced(g, k) /\ v1' = v1
        BY <4>2, <4>4, <3>k, <2>u, PostsFollow
      <4>5. CASE Bridge!Ensured(g, k)
        BY <4>2, <4>5, <3>k, <2>u, EnsuredFollows
      <4> QED BY <4>3, <4>4, <4>5
    <3> QED BY <2>3, <3>1, <3>2
  <2> QED BY <1>3, <2>1, <2>2, <2>3 DEF Bridge!Change
<1>4. CASE Bridge!Listens
  <2>1. v1' = [v1 EXCEPT !.process = "up"] /\ UNCHANGED <<v2, v3, v4, v5, v6, v7>>
        /\ v1.process = "starting"
    BY <1>4 DEF Bridge!Listens
  <2>2. v1' \in [process : {"off", "starting", "up"}, enabled : BOOLEAN, seen : BOOLEAN,
                  serves : Requests \cup {Nobody}]
        /\ v1'.process = "up" /\ v1'.enabled = v1.enabled
    BY <2>1, <1>i
  <2>3. v5 = 0
    BY <2>1 DEF Bridge!IInv, Bridge!LastPost
  <2> QED BY <2>1, <2>2, <2>3 DEF Bridge!IInv, Bridge!TypeOK, Bridge!LastPost, Bridge!Undone,
        Bridge!FollowsSettings, Bridge!ErrorsAreHarmless, Bridge!Effective, Bridge!Checks
<1>5. CASE Bridge!Dies
  <2>1. /\ v1' = Bridge!Off /\ v5' = 0 /\ UNCHANGED <<v2, v3, v4, v7>>
        /\ v6' = [r \in Requests |->
                     IF v6[r].at \in {"new", "answered"} THEN v6[r]
                     ELSE Bridge!Hears(r, "unreachable")[r]]
    BY <1>5 DEF Bridge!Dies
  <2>2. v1' \in [process : {"off", "starting", "up"}, enabled : BOOLEAN, seen : BOOLEAN,
                 serves : Requests \cup {Nobody}]
        /\ v1'.process = "off"
    BY <2>1 DEF Bridge!Off
  <2>3. ASSUME NEW r \in Requests
        PROVE  /\ v6'[r] \in [at : {"new", "sent", "forwarded", "said", "cut", "answered"},
                               heard : {"nothing", "ok", "error", "unreachable"}, executed : {0, 1}]
               /\ v6'[r].at \in {"new", "sent", "forwarded"} => v6'[r].executed = 0
               /\ v6'[r].heard = "error" => v6'[r].at = "answered" /\ v6'[r].executed = 0
    <3>1. PICK what \in {"ok", "error", "unreachable"} : what = "unreachable"
      OBVIOUS
    <3>2. PICK x : x = Bridge!Hears(r, what)
      OBVIOUS
    <3>3. what # "error"
      BY <3>1
    <3>4. /\ x \in [Requests ->
                       [at : {"new", "sent", "forwarded", "said", "cut", "answered"},
                        heard : {"nothing", "ok", "error", "unreachable"}, executed : {0, 1}]]
          /\ x[r].at = "answered" /\ x[r].executed = v6[r].executed
          /\ x[r].heard = "error" => x[r].executed = 0
      BY <3>2, <3>3, HearsKeeps
    <3>5. v6'[r] = v6[r] \/ v6'[r] = x[r]
      BY <2>1, <3>1, <3>2
    <3> QED BY <3>4, <3>5, <1>i
  <2>4. v6' \in [Requests ->
                       [at : {"new", "sent", "forwarded", "said", "cut", "answered"},
                        heard : {"nothing", "ok", "error", "unreachable"}, executed : {0, 1}]]
    BY <2>1, <2>3
  <2> QED BY <2>1, <2>2, <2>3, <2>4 DEF Bridge!IInv, Bridge!TypeOK, Bridge!LastPost, Bridge!Undone,
        Bridge!FollowsSettings, Bridge!ErrorsAreHarmless, Bridge!Effective, Bridge!Checks
<1>6. ASSUME NEW p \in v3, Bridge!Settings(p) \/ Bridge!Refused(p) PROVE Bridge!IInv'
  <2>1. /\ v3' = Bridge!Without(p) /\ UNCHANGED <<v2, v4, v6, v7>>
        /\ \/ UNCHANGED <<v1, v5>>
           \/ v1.process = "up" /\ v1' = [v1 EXCEPT !.enabled = p.enabled] /\ v5' = p.n
    BY <1>6 DEF Bridge!Settings, Bridge!Refused, Bridge!Free, Bridge!Up
  <2>2. /\ v3' \subseteq [n : 1..v4', enabled : BOOLEAN, copies : Nat \ {0}]
        /\ \A q \in v3' : q.n = v4' => q.enabled = Bridge!Effective(v2')
    BY <2>1, WithoutPost
  <2>3. p.n \in 1..v4 /\ p.enabled \in BOOLEAN /\ (p.n = v4 => p.enabled = Bridge!Effective(v2))
    BY <1>i DEF Bridge!IInv, Bridge!LastPost
  <2>4. /\ v1' \in [process : {"off", "starting", "up"}, enabled : BOOLEAN, seen : BOOLEAN,
                     serves : Requests \cup {Nobody}]
        /\ v1'.process = v1.process /\ v5' \in 0..v4
        /\ v1.process # "up" => v5' = v5
        /\ v5' > 0 /\ v5' = v4 => v1'.enabled = Bridge!Effective(v2)
    BY <2>1, <2>3, <1>i DEF Bridge!IInv, Bridge!FollowsSettings
  <2> QED BY <2>1, <2>2, <2>4, <1>i DEF Bridge!IInv, Bridge!TypeOK, Bridge!LastPost, Bridge!Undone,
        Bridge!FollowsSettings, Bridge!ErrorsAreHarmless, Bridge!Effective, Bridge!Checks
<1>7. ASSUME NEW r \in Requests, \/ Bridge!Ask(r) \/ Bridge!GiveUp(r) \/ Bridge!Message(r)
                                 \/ Bridge!Daemon(r) \/ Bridge!Answer(r)
      PROVE  Bridge!IInv'
  <2>r. v6[r] \in [at : {"new", "sent", "forwarded", "said", "cut", "answered"},
                   heard : {"nothing", "ok", "error", "unreachable"}, executed : {0, 1}]
    BY <1>i
  <2>u. UNCHANGED <<v2, v3, v4, v5, v7>>
    BY <1>7 DEF Bridge!Ask, Bridge!GiveUp, Bridge!Message, Bridge!Daemon, Bridge!Answer
  <2>v. /\ v1' \in [process : {"off", "starting", "up"}, enabled : BOOLEAN, seen : BOOLEAN,
                     serves : Requests \cup {Nobody}]
        /\ v1'.process = v1.process /\ v1'.enabled = v1.enabled
    <3>1. CASE Bridge!Message(r)
      <4>1. \/ v1' = v1 \/ v1' = [v1 EXCEPT !.serves = r]
            \/ \E kind \in Bridge!Kinds : v1' = [v1 EXCEPT !.seen = v1.seen \/ kind = "ping"]
        BY <3>1 DEF Bridge!Message
      <4>2. CASE v1' = v1 \/ v1' = [v1 EXCEPT !.serves = r]
        BY <4>2, <1>i
      <4>3. ASSUME NEW kind, v1' = [v1 EXCEPT !.seen = v1.seen \/ kind = "ping"]
            PROVE  /\ v1' \in [process : {"off", "starting", "up"}, enabled : BOOLEAN, seen : BOOLEAN,
                                serves : Requests \cup {Nobody}]
                   /\ v1'.process = v1.process /\ v1'.enabled = v1.enabled
        <5>1. PICK b \in BOOLEAN : b = (v1.seen \/ kind = "ping")
          OBVIOUS
        <5>2. v1' = [v1 EXCEPT !.seen = b]
          BY <4>3, <5>1
        <5> QED BY <5>2, <1>i
      <4> QED BY <4>1, <4>2, <4>3
    <3>2. CASE Bridge!Answer(r)
      BY <3>2, <1>i DEF Bridge!Answer
    <3>3. CASE v1' = v1
      BY <3>3, <1>i
    <3> QED BY <1>7, <3>1, <3>2, <3>3 DEF Bridge!Ask, Bridge!GiveUp, Bridge!Daemon
  <2>1. ASSUME NEW what \in {"ok", "error", "unreachable"}, v6' = Bridge!Hears(r, what),
               what = "error" => v6[r].at \in {"new", "sent", "forwarded"}
        PROVE  Bridge!IInv'
    <3>1. PICK x : x = Bridge!Hears(r, what)
      OBVIOUS
    <3>2. /\ x \in [Requests ->
                       [at : {"new", "sent", "forwarded", "said", "cut", "answered"},
                        heard : {"nothing", "ok", "error", "unreachable"}, executed : {0, 1}]]
          /\ \A o \in Requests \ {r} : x[o] = v6[o]
          /\ x[r].at = "answered" /\ x[r].executed = v6[r].executed
          /\ x[r].heard = "error" => x[r].executed = 0
      BY <2>1, <3>1, HearsKeeps
    <3>3. v6' = x
      BY <2>1, <3>1
    <3>4. \A o \in Requests :
             /\ v6'[o].at \in {"new", "sent", "forwarded"} => v6'[o].executed = 0
             /\ v6'[o].heard = "error" => v6'[o].at = "answered" /\ v6'[o].executed = 0
      BY <3>2, <3>3, <1>i
    <3> QED BY <2>u, <2>v, <3>2, <3>3, <3>4, RequestsInv
  <2>2. ASSUME NEW y \in [at : {"new", "sent", "forwarded", "said", "cut", "answered"},
                          heard : {"nothing", "ok", "error", "unreachable"}, executed : {0, 1}],
               v6' = [v6 EXCEPT ![r] = y],
               y.at \in {"new", "sent", "forwarded"} => y.executed = 0,
               y.heard = "error" => y.at = "answered" /\ y.executed = 0
        PROVE  Bridge!IInv'
    <3>1. v6' \in [Requests ->
                       [at : {"new", "sent", "forwarded", "said", "cut", "answered"},
                        heard : {"nothing", "ok", "error", "unreachable"}, executed : {0, 1}]]
      BY <2>2, <1>i
    <3>2. \A o \in Requests :
             /\ v6'[o].at \in {"new", "sent", "forwarded"} => v6'[o].executed = 0
             /\ v6'[o].heard = "error" => v6'[o].at = "answered" /\ v6'[o].executed = 0
      BY <2>2, <1>i
    <3> QED BY <2>u, <2>v, <3>1, <3>2, RequestsInv
  <2>3. CASE Bridge!Ask(r)
    <3>1. \/ v6' = [v6 EXCEPT ![r].at = "sent"] /\ v6[r].at = "new"
          \/ v6' = Bridge!Hears(r, "unreachable")
      BY <2>3 DEF Bridge!Ask
    <3>2. PICK y : y = [v6[r] EXCEPT !.at = "sent"]
      OBVIOUS
    <3>3. CASE v6' = [v6 EXCEPT ![r].at = "sent"] /\ v6[r].at = "new"
      <4>1. /\ y \in [at : {"new", "sent", "forwarded", "said", "cut", "answered"},
                          heard : {"nothing", "ok", "error", "unreachable"}, executed : {0, 1}]
            /\ y.executed = 0 /\ y.heard # "error"
        BY <3>2, <3>3, <2>r, <1>i
      <4>2. v6' = [v6 EXCEPT ![r] = y]
        BY <3>2, <3>3, <1>i
      <4> QED BY <4>1, <4>2, <2>2
    <3>4. CASE v6' = Bridge!Hears(r, "unreachable")
      BY <3>4, <2>1
    <3> QED BY <3>1, <3>3, <3>4
  <2>4. CASE Bridge!GiveUp(r)
    <3>1. v6' = [v6 EXCEPT ![r].heard = "unreachable"]
      BY <2>4 DEF Bridge!GiveUp
    <3>2. PICK y : y = [v6[r] EXCEPT !.heard = "unreachable"]
      OBVIOUS
    <3>3. /\ y \in [at : {"new", "sent", "forwarded", "said", "cut", "answered"},
                          heard : {"nothing", "ok", "error", "unreachable"}, executed : {0, 1}]
          /\ y.at = v6[r].at /\ y.executed = v6[r].executed /\ y.heard = "unreachable"
      BY <3>2, <2>r
    <3>4. v6' = [v6 EXCEPT ![r] = y]
      BY <3>1, <3>2, <1>i
    <3> QED BY <3>3, <3>4, <1>i, <2>2
  <2>5. CASE Bridge!Message(r)
    <3>1. /\ v6[r].at = "sent"
          /\ \/ v6' = Bridge!Hears(r, "error") \/ v6' = Bridge!Hears(r, "ok")
             \/ v6' = [v6 EXCEPT ![r].at = "forwarded"]
      BY <2>5 DEF Bridge!Message
    <3>2. PICK y : y = [v6[r] EXCEPT !.at = "forwarded"]
      OBVIOUS
    <3>3. CASE v6' = [v6 EXCEPT ![r].at = "forwarded"]
      <4>1. /\ y \in [at : {"new", "sent", "forwarded", "said", "cut", "answered"},
                          heard : {"nothing", "ok", "error", "unreachable"}, executed : {0, 1}]
            /\ y.executed = 0 /\ y.heard # "error"
        BY <3>1, <3>2, <2>r, <1>i
      <4>2. v6' = [v6 EXCEPT ![r] = y]
        BY <3>2, <3>3, <1>i
      <4> QED BY <4>1, <4>2, <2>2
    <3> QED BY <3>1, <3>3, <2>1
  <2>6. CASE Bridge!Daemon(r)
    <3>1. PICK at \in {"said", "cut"}, e \in {v6[r].executed, v6[r].executed + 1} :
             v6' = [v6 EXCEPT ![r].at = at, ![r].executed = e]
      BY <2>6 DEF Bridge!Daemon
    <3>2. v6[r].at = "forwarded" /\ v6[r].executed = 0 /\ v6[r].heard # "error" /\ e \in {0, 1}
      BY <2>6, <1>i DEF Bridge!Daemon
    <3>3. PICK y : y = [at |-> at, heard |-> v6[r].heard, executed |-> e]
      OBVIOUS
    <3>4. /\ y \in [at : {"new", "sent", "forwarded", "said", "cut", "answered"},
                     heard : {"nothing", "ok", "error", "unreachable"}, executed : {0, 1}]
          /\ y.at \notin {"new", "sent", "forwarded"} /\ y.heard # "error"
      BY <3>2, <3>3, <2>r
    <3>5. PICK z : z = [v6 EXCEPT ![r].at = at]
      OBVIOUS
    <3>6. v6' = [z EXCEPT ![r].executed = e]
      BY <3>1, <3>5
    <3>7. z[r] = [at |-> at, heard |-> v6[r].heard, executed |-> v6[r].executed]
          /\ DOMAIN z = Requests /\ \A o \in Requests \ {r} : z[o] = v6[o]
      BY <3>5, <2>r, <1>i
    <3>8. y = [z[r] EXCEPT !.executed = e]
      BY <3>3, <3>7
    <3>9. v6' = [z EXCEPT ![r] = y]
      BY <3>6, <3>8
    <3>10. v6' = [v6 EXCEPT ![r] = y]
      BY <3>7, <3>9, <1>i
    <3> QED BY <3>4, <3>10, <2>2
  <2>7. CASE Bridge!Answer(r)
    <3>1. v6' = Bridge!Hears(r, "ok")
      BY <2>7 DEF Bridge!Answer, Bridge!AnswerOf
    <3> QED BY <3>1, <2>1
  <2> QED BY <1>7, <2>3, <2>4, <2>5, <2>6, <2>7
<1>8. ASSUME NEW i \in Bridge!Checks, Bridge!Round(i) PROVE Bridge!IInv'
  <2>1. UNCHANGED <<v1, v3, v4, v5, v6>>
    BY <1>8 DEF Bridge!Round
  <2>2. v7 \in [Bridge!Checks -> [at : {"none", "status", "ping"}, seen : BOOLEAN]]
    BY DEF Bridge!IInv, Bridge!TypeOK
  <2>s. v7[i].seen \in BOOLEAN /\ v1.seen \in BOOLEAN
    BY <2>2, <1>i
  <2>3. \/ v2' = v2
        \/ v2' = [v2 EXCEPT !.reachable = FALSE, !.connected = FALSE]
        \/ v2' = [v2 EXCEPT !.reachable = TRUE, !.connected = v7[i].seen]
    BY <1>8 DEF Bridge!Round, Bridge!Check, Bridge!Status, Bridge!Ping, Bridge!Shown, Bridge!Unreachable
  <2>4. /\ v2' \in [enabled : BOOLEAN, suspended : BOOLEAN, awaits : BOOLEAN, starts : Nat,
                     reachable : BOOLEAN, connected : BOOLEAN]
        /\ Bridge!Effective(v2') = Bridge!Effective(v2)
    BY <2>3, <2>s, <1>i DEF Bridge!Effective
  <2>5. \E y \in [at : {"none", "status", "ping"}, seen : BOOLEAN] : v7' = [v7 EXCEPT ![i] = y]
    <3>1. CASE Bridge!Check(i)
      <4>1. [v7[i] EXCEPT !.at = "status"] \in [at : {"none", "status", "ping"}, seen : BOOLEAN]
        BY <2>2
      <4> QED BY <3>1, <4>1, <2>2 DEF Bridge!Check
    <3>2. CASE Bridge!Status(i)
      <4>1. [v7[i] EXCEPT !.at = "none"] \in [at : {"none", "status", "ping"}, seen : BOOLEAN]
        BY <2>2
      <4>2. [at |-> "ping", seen |-> v1.seen] \in [at : {"none", "status", "ping"}, seen : BOOLEAN]
        BY <2>s
      <4> QED BY <3>2, <4>1, <4>2, <2>2 DEF Bridge!Status
    <3>3. CASE Bridge!Ping(i)
      <4>1. [at |-> "none", seen |-> FALSE] \in [at : {"none", "status", "ping"}, seen : BOOLEAN]
        OBVIOUS
      <4> QED BY <3>3, <4>1, <2>2 DEF Bridge!Ping
    <3> QED BY <1>8, <3>1, <3>2, <3>3 DEF Bridge!Round
  <2>6. v7' \in [Bridge!Checks -> [at : {"none", "status", "ping"}, seen : BOOLEAN]]
    BY <2>2, <2>5
  <2> QED BY <2>1, <2>4, <2>6 DEF Bridge!IInv, Bridge!TypeOK, Bridge!LastPost, Bridge!Undone,
        Bridge!FollowsSettings, Bridge!ErrorsAreHarmless, Bridge!Effective, Bridge!Checks
<1>9. CASE UNCHANGED Bridge!vars
  BY <1>9 DEF Bridge!vars, Bridge!IInv, Bridge!TypeOK, Bridge!LastPost, Bridge!Undone,
     Bridge!FollowsSettings, Bridge!ErrorsAreHarmless, Bridge!Effective, Bridge!Checks
<1>10. CASE Bridge!Next
  BY <1>10, <1>1, <1>2, <1>3, <1>4, <1>5, <1>6, <1>7, <1>8 DEF Bridge!Next, Bridge!Serve
<1> QED BY <1>9, <1>10

-----------------------------------------------------------------------------
(* The sessions of the Qt client. *)

LEMMA FoundIs ==
    ASSUME NEW list, NEW id, Len(list) \in Nat,
           DOMAIN list = 1..Len(list), NEW i \in 1..Len(list), list[i].id = id,
           \A k \in 1..Len(list) : list[k].id = id => k = i
    PROVE  Switch!Found(list, id) = i
<1>1. Switch!Places(list, id) = {i}
  BY DEF Switch!Places
<1> QED BY <1>1 DEF Switch!Found

LEMMA NotFoundIs ==
    ASSUME NEW list, NEW id, DOMAIN list = 1..Len(list), \A k \in 1..Len(list) : list[k].id # id
    PROVE  Switch!Found(list, id) = 0
BY DEF Switch!Found, Switch!Places

(* activeSession: the one of this id. *)
LEMMA ActiveIs ==
    ASSUME NEW list \in Seq(Switch!Session), Switch!OneEach(list), NEW i \in 1..Len(list)
    PROVE  Switch!ActiveOf(list, list[i].id) = list[i]
<1>1. Len(list) \in Nat /\ DOMAIN list = 1..Len(list) /\ i # 0
  OBVIOUS
<1>2. PICK id : id = list[i].id
  OBVIOUS
<1>3. \A k \in 1..Len(list) : list[k].id = id => k = i
  BY <1>1, <1>2 DEF Switch!OneEach
<1>4. Switch!Found(list, id) = i
  BY <1>1, <1>2, <1>3, FoundIs
<1> QED BY <1>1, <1>2, <1>4 DEF Switch!ActiveOf

LEMMA SwitchInitInv == Switch!Init => Switch!IInv
<1> SUFFICES ASSUME Switch!Init PROVE Switch!IInv
  OBVIOUS
<1>1. PICK id \in SessionIds : /\ v1 = <<Switch!First(id)>> /\ v2 = id
                               /\ v3 = [sessions |-> v1, active |-> v2] /\ v4 = Local /\ v5 = {}
                               /\ v6 = [downloads |-> Nothing, queues |-> Nothing]
  BY DEF Switch!Init
<1>2. Local \in Addresses
  BY ConstantsAssumption DEF Switch!SessionAssumption
<1>3. PICK f \in Switch!Session : f = Switch!First(id) /\ f.id = id /\ f.address = Local
  <2>1. PICK f : f = [id |-> id, address |-> Local]
    OBVIOUS
  <2>2. f \in Switch!Session
    BY <1>2, <2>1 DEF Switch!Session
  <2> QED BY <2>1, <2>2 DEF Switch!First
<1>4. v1 \in Seq(Switch!Session) /\ Len(v1) = 1 /\ DOMAIN v1 = 1..1 /\ v1[1] = f /\ v1 # <<>>
  BY <1>1, <1>3
<1>5. Switch!OneEach(v1)
  BY <1>4 DEF Switch!OneEach
<1>6. 1 \in 1..Len(v1) /\ v1[1].id = v2
  BY <1>1, <1>3, <1>4
<1>7. Switch!ActiveOf(v1, v1[1].id) = v1[1]
  BY <1>4, <1>5, <1>6, ActiveIs
<1>8. Switch!ClientFollows
  BY <1>1, <1>3, <1>4, <1>6, <1>7 DEF Switch!ClientFollows
<1>9. Switch!TypeOK
  BY <1>1, <1>2, <1>4, <1>5 DEF Switch!TypeOK
<1> QED BY <1>1, <1>4, <1>6, <1>8, <1>9 DEF Switch!IInv

(* What every change of the sessions has to leave: the ids are each one's own,  *)
(* the active session is there, the client follows it, and all is stored.       *)
LEMMA SessionsInv ==
    ASSUME Switch!IInv, NEW list \in Seq(Switch!Session), v1' = list, Switch!OneEach(list),
           NEW i \in 1..Len(list), v2' = list[i].id,
           v3' = [sessions |-> v1', active |-> v2'],
           v4' \in Addresses, ~v8' => v4' = list[i].address,
           v5' \subseteq v5 \/ Switch!TypeOK',
           v6' \in [downloads : Addresses \cup {Nothing}, queues : Addresses \cup {Nothing}]
    PROVE  Switch!IInv'
<1>0. list # <<>> /\ DOMAIN list = 1..Len(list) /\ list[i] \in Switch!Session
  OBVIOUS
<1>1. list[i].id \in SessionIds
  BY <1>0 DEF Switch!Session
<1>2. Switch!ActiveOf(list, list[i].id) = list[i]
  BY ActiveIs
<1>3. Switch!ClientFollows'
  BY <1>2 DEF Switch!ClientFollows, Switch!ActiveOf, Switch!Found, Switch!Places
<1>4. Switch!TypeOK'
  BY <1>0, <1>1 DEF Switch!IInv, Switch!TypeOK, Switch!OneEach, Switch!Session, Switch!Numbers
<1> QED BY <1>0, <1>3, <1>4 DEF Switch!IInv

(* A sequence without one of its members. *)
WithoutOne(s, k) == SubSeq(s, 1, k - 1) \o SubSeq(s, k + 1, Len(s))

LEMMA WithoutOneIs ==
    ASSUME NEW T, NEW s \in Seq(T), NEW k \in 1..Len(s)
    PROVE  /\ WithoutOne(s, k) \in Seq(T) /\ Len(WithoutOne(s, k)) = Len(s) - 1
           /\ \A j \in 1..Len(s) - 1 :
                 WithoutOne(s, k)[j] = IF j < k THEN s[j] ELSE s[j + 1]
<1> DEFINE a == SubSeq(s, 1, k - 1)
           b == SubSeq(s, k + 1, Len(s))
<1>1. Len(s) \in Nat /\ k \in Nat /\ k - 1 \in Nat
  OBVIOUS
<1>2. a \in Seq(T) /\ Len(a) = k - 1 /\ \A j \in 1..(k - 1) : a[j] = s[j]
  BY <1>1
<1>3. b \in Seq(T) /\ Len(b) = Len(s) - k /\ \A j \in 1..(Len(s) - k) : b[j] = s[k + j]
  BY <1>1
<1>4. WithoutOne(s, k) = a \o b
  BY DEF WithoutOne
<1> HIDE DEF a, b
<1>5. a \o b \in Seq(T) /\ Len(a \o b) = Len(s) - 1
  <2>1. a \o b \in Seq(T) /\ Len(a \o b) = Len(a) + Len(b)
    BY <1>2, <1>3, ConcatProperties
  <2> QED BY <1>1, <1>2, <1>3, <2>1
<1>6. ASSUME NEW j \in 1..Len(s) - 1
      PROVE  (a \o b)[j] = IF j < k THEN s[j] ELSE s[j + 1]
  <2>1. CASE j < k
    BY <1>1, <1>2, <1>3, <2>1
  <2>2. CASE ~(j < k)
    <3>1. j - (k - 1) \in 1..(Len(s) - k) /\ k + (j - (k - 1)) = j + 1
      BY <1>1, <2>2
    <3>2. (a \o b)[j] = b[j - (k - 1)]
      BY <1>1, <1>2, <1>3, <2>2
    <3> QED BY <1>3, <2>2, <3>1, <3>2
  <2> QED BY <2>1, <2>2
<1> QED BY <1>4, <1>5, <1>6

LEMMA SwitchNextInv == Switch!IInv /\ [Switch!Next]_(Switch!vars) => Switch!IInv'
<1> SUFFICES ASSUME Switch!IInv, [Switch!Next]_(Switch!vars) PROVE Switch!IInv'
  OBVIOUS
<1>i. /\ v1 \in Seq(Switch!Session) /\ Len(v1) \in Nat /\ DOMAIN v1 = 1..Len(v1)
      /\ Switch!OneEach(v1) /\ v1 # <<>> /\ Len(v1) > 0 /\ v2 \in SessionIds
      /\ v4 \in Addresses /\ v6 \in [downloads : Addresses \cup {Nothing}, queues : Addresses \cup {Nothing}]
      /\ v3 = [sessions |-> v1, active |-> v2]
      /\ Local \in Addresses
  BY ConstantsAssumption DEF Switch!IInv, Switch!TypeOK, Switch!SessionAssumption
<1>k. PICK j \in 1..Len(v1) : v1[j].id = v2
  BY <1>i DEF Switch!IInv
<1>j. Switch!ActiveOf(v1, v2) = v1[j]
  BY <1>i, <1>k, ActiveIs
<1>c. ~v8 => v4 = v1[j].address
  BY <1>j DEF Switch!IInv, Switch!ClientFollows
<1>e. \A n \in 1..Len(v1) : v1[n] \in Switch!Session /\ v1[n].address \in Addresses
  <2> TAKE n \in 1..Len(v1)
  <2>1. v1[n] \in Switch!Session
    BY <1>i
  <2> QED BY <2>1 DEF Switch!Session
<1>1. CASE Switch!SetActive
  <2>1. PICK n \in 1..Len(v1) : /\ v2' = v1[n].id
                                /\ Switch!Save(v1, v1[n].id) /\ Switch!Apply(v1, v1[n].id)
    BY <1>1, <1>i DEF Switch!SetActive
  <2>2. UNCHANGED <<v1, v5, v6>>
    BY <1>1 DEF Switch!SetActive
  <2>3. Switch!ActiveOf(v1, v1[n].id) = v1[n]
    BY <1>i, ActiveIs
  <2>4. v4' = v1[n].address /\ v3' = [sessions |-> v1', active |-> v2']
    BY <2>1, <2>2, <2>3 DEF Switch!Save, Switch!Apply
  <2> QED BY <2>1, <2>2, <2>4, <1>i, <1>e, SessionsInv
<1>2. CASE Switch!Upsert
  <2>1. PICK id \in SessionIds, a \in Addresses :
           /\ v1' = IF Switch!Found(v1, id) = 0 THEN Append(v1, [id |-> id, address |-> a])
                    ELSE [v1 EXCEPT ![Switch!Found(v1, id)] = [id |-> id, address |-> a]]
           /\ v8' = (v8 \/ id = v2)
    BY <1>2 DEF Switch!Upsert
  <2>2. UNCHANGED <<v2, v4, v5, v6>> /\ v3' = [sessions |-> v1', active |-> v2']
    BY <1>2 DEF Switch!Upsert, Switch!Save
  <2>3. PICK s \in Switch!Session : s = [id |-> id, address |-> a]
    BY DEF Switch!Session
  <2>4. CASE \A k \in 1..Len(v1) : v1[k].id # id
    <3>1. v1' = Append(v1, s)
      BY <2>1, <2>3, <2>4, NotFoundIs
    <3>2. PICK list \in Seq(Switch!Session) :
             /\ v1' = list /\ Len(list) = Len(v1) + 1 /\ DOMAIN list = 1..Len(v1) + 1
             /\ \A k \in 1..Len(v1) : list[k] = v1[k]
             /\ list[Len(v1) + 1] = s
      BY <3>1, <1>i, AppendProperties
    <3>3. Switch!OneEach(list)
      BY <3>2, <2>3, <2>4, <1>i DEF Switch!OneEach
    <3>4. j \in 1..Len(list) /\ list[j] = v1[j]
      BY <3>2, <1>i, <1>k
    <3> QED BY <2>1, <2>2, <3>2, <3>3, <3>4, <1>i, <1>k, <1>c, SessionsInv
  <2>5. ASSUME NEW n \in 1..Len(v1), v1[n].id = id PROVE Switch!IInv'
    <3>1. Switch!Found(v1, id) = n
      BY <2>5, <1>i, FoundIs DEF Switch!OneEach
    <3>2. v1' = [v1 EXCEPT ![n] = s] /\ n # 0
      BY <2>1, <2>3, <3>1
    <3>3. PICK list \in Seq(Switch!Session) :
             /\ v1' = list /\ Len(list) = Len(v1) /\ DOMAIN list = 1..Len(v1)
             /\ \A k \in 1..Len(v1) : list[k] = IF k = n THEN s ELSE v1[k]
      <4>1. PICK t : t = [v1 EXCEPT ![n] = s]
        OBVIOUS
      <4>2. /\ t \in Seq(Switch!Session) /\ Len(t) = Len(v1)
            /\ \A k \in 1..Len(v1) : t[k] = IF k = n THEN s ELSE v1[k]
        BY <4>1, <1>i, ExceptSeq
      <4>3. DOMAIN t = 1..Len(v1)
        BY <4>2
      <4> QED BY <3>2, <4>1, <4>2, <4>3
    <3>4. \A k \in 1..Len(v1) : list[k].id = v1[k].id
      BY <3>3, <2>3, <2>5
    <3>5. Switch!OneEach(list)
      BY <3>3, <3>4, <1>i DEF Switch!OneEach
    <3>6. ~v8' => v4' = list[j].address
      BY <2>1, <2>2, <2>5, <3>3, <1>c, <1>k
    <3> QED BY <2>2, <3>3, <3>4, <3>5, <3>6, <1>i, <1>k, SessionsInv
  <2> QED BY <2>4, <2>5
<1>3. CASE Switch!RemoveOne
  <2>0. Len(v1) > 1 /\ UNCHANGED <<v5, v6>>
    BY <1>3 DEF Switch!RemoveOne
  <2>1. PICK n \in 1..Len(v1) :
           /\ v1' = WithoutOne(v1, n)
           /\ Switch!AfterRemoval(WithoutOne(v1, n), v1[n].id)
           /\ v3' = [sessions |-> v1', active |-> v2']
    BY <1>3, <1>i DEF Switch!RemoveOne, Switch!Save, WithoutOne
  <2>2. PICK list \in Seq(Switch!Session) :
           /\ list = WithoutOne(v1, n) /\ Len(list) = Len(v1) - 1
           /\ \A k \in 1..Len(v1) - 1 : list[k] = IF k < n THEN v1[k] ELSE v1[k + 1]
    <3>1. PICK t : t = WithoutOne(v1, n)
      OBVIOUS
    <3>2. /\ t \in Seq(Switch!Session) /\ Len(t) = Len(v1) - 1
          /\ \A k \in 1..Len(v1) - 1 : t[k] = IF k < n THEN v1[k] ELSE v1[k + 1]
      BY <3>1, <1>i, WithoutOneIs
    <3> QED BY <3>1, <3>2
  <2>3. DOMAIN list = 1..Len(v1) - 1 /\ Len(v1) - 1 \in Nat
    BY <2>2, <2>0, <1>i
  <2>4. Switch!OneEach(list)
    <3> SUFFICES ASSUME NEW a \in 1..Len(v1) - 1, NEW b \in 1..Len(v1) - 1, list[a].id = list[b].id
                 PROVE  a = b
      BY <2>3 DEF Switch!OneEach
    <3>1. PICK p \in 1..Len(v1) : p = IF a < n THEN a ELSE a + 1
      BY <2>3, <1>i
    <3>2. PICK q \in 1..Len(v1) : q = IF b < n THEN b ELSE b + 1
      BY <2>3, <1>i
    <3>3. list[a] = v1[p] /\ list[b] = v1[q]
      BY <2>2, <3>1, <3>2
    <3>4. p = q
      BY <3>3, <1>i DEF Switch!OneEach
    <3> QED BY <3>1, <3>2, <3>4
  <2>5. CASE v1[n].id = v2
    <3>1. v2' = list[1].id /\ v4' = Switch!ActiveOf(list, list[1].id).address
      BY <2>1, <2>2, <2>5 DEF Switch!AfterRemoval, Switch!Apply
    <3>2. 1 \in 1..Len(list)
      BY <2>0, <2>2, <2>3, <1>i
    <3>3. Switch!ActiveOf(list, list[1].id) = list[1]
      BY <2>4, <3>2, ActiveIs
    <3>4. v4' = list[1].address /\ v4' \in Addresses
      <4>1. list[1] \in Switch!Session
        BY <3>2
      <4> QED BY <3>1, <3>3, <4>1 DEF Switch!Session
    <3> QED BY <2>0, <2>1, <2>2, <2>4, <3>1, <3>2, <3>4, <1>i, SessionsInv
  <2>6. CASE v1[n].id # v2
    <3>1. UNCHANGED <<v2, v4, v8>>
      BY <2>1, <2>6 DEF Switch!AfterRemoval
    <3>2. j # n
      BY <2>6, <1>k
    <3>3. PICK k \in 1..Len(list) : list[k] = v1[j]
      <4>1. CASE j < n
        BY <4>1, <2>2, <2>3, <1>i
      <4>2. CASE j > n
        <5>1. j - 1 \in 1..Len(v1) - 1 /\ ~(j - 1 < n) /\ (j - 1) + 1 = j
          BY <4>2, <1>i
        <5>2. list[j - 1] = v1[(j - 1) + 1]
          BY <5>1, <2>2
        <5> QED BY <5>1, <5>2, <2>2
      <4> QED BY <3>2, <4>1, <4>2, <1>i
    <3> QED BY <2>0, <2>1, <2>2, <2>4, <3>1, <3>3, <1>i, <1>k, <1>c, SessionsInv
  <2> QED BY <2>5, <2>6
<1>4. CASE Switch!ConfigChanged
  <2>1. v4' = Local /\ v8' = TRUE /\ UNCHANGED <<v1, v2, v3, v5, v6>>
    BY <1>4 DEF Switch!ConfigChanged
  <2> QED BY <2>1, <1>i, <1>k, SessionsInv
<1>5. CASE Switch!StartAgain
  <2>1. v3.sessions = v1 /\ v3.active = v2
    BY <1>i
  <2>2. /\ v1' = v1 /\ v2' = v2 /\ Switch!Apply(v1, v2) /\ v5' = {} /\ v3' = v3
        /\ v6' = [downloads |-> Nothing, queues |-> Nothing]
    BY <1>5, <2>1, <1>i DEF Switch!StartAgain
  <2>3. v4' = v1[j].address /\ v4' \in Addresses
    BY <2>2, <1>j, <1>e DEF Switch!Apply
  <2> QED BY <2>2, <2>3, <1>i, <1>k, SessionsInv
<1>6. CASE UNCHANGED <<v1, v2, v3, v4, v8>> /\ Switch!TypeOK'
  <2>1. v1' = v1 /\ v2' = v2 /\ v3' = v3 /\ v4' = v4 /\ v8' = v8
    BY <1>6
  <2>2. v6' \in [downloads : Addresses \cup {Nothing}, queues : Addresses \cup {Nothing}]
    BY <1>6 DEF Switch!TypeOK
  <2> QED BY <1>6, <2>1, <2>2, <1>i, <1>k, <1>c, SessionsInv
<1>7. CASE Switch!Poll
  <2>1. PICK n \in Switch!Numbers :
           v5' = v5 \cup {[n |-> n, asks |-> "downloads", to |-> v4, downloads |-> Nothing]}
    BY <1>7 DEF Switch!Poll, Switch!Target
  <2>2. UNCHANGED <<v1, v2, v3, v4, v6, v8>>
    BY <1>7 DEF Switch!Poll
  <2> QED BY <2>1, <2>2, <1>6, <1>i DEF Switch!IInv, Switch!TypeOK, Switch!OneEach, Switch!Numbers, Switch!Session
<1>8. CASE Switch!Refresh
  <2>1. PICK c \in v5 : Switch!Downloads(c) \/ Switch!Show(c)
    BY <1>8 DEF Switch!Refresh
  <2>2. c \in [n : Switch!Numbers, asks : {"downloads", "queues"}, to : Addresses,
               downloads : Addresses \cup {Nothing}]
    BY DEF Switch!IInv, Switch!TypeOK
  <2>u. UNCHANGED <<v1, v2, v3, v4, v8>>
    BY <2>1 DEF Switch!Downloads, Switch!Show
  <2>3. CASE Switch!Downloads(c)
    <3>1. PICK ok \in BOOLEAN :
             v5' = (v5 \ {c}) \cup {[c EXCEPT !.asks = "queues", !.to = v4,
                                              !.downloads = Switch!Came(c, ok)]}
      BY <2>3 DEF Switch!Downloads, Switch!Target
    <3>2. PICK d : d = [c EXCEPT !.asks = "queues", !.to = v4, !.downloads = Switch!Came(c, ok)]
      OBVIOUS
    <3>3. Switch!Came(c, ok) \in Addresses \cup {Nothing}
      BY <2>2 DEF Switch!Came
    <3>4. d \in [n : Switch!Numbers, asks : {"downloads", "queues"}, to : Addresses,
                 downloads : Addresses \cup {Nothing}]
      BY <2>2, <3>2, <3>3, <1>i
    <3>5. v6' = v6
      BY <2>3 DEF Switch!Downloads
    <3> QED BY <3>1, <3>2, <3>4, <3>5, <2>u, <1>6, <1>i
         DEF Switch!IInv, Switch!TypeOK, Switch!OneEach, Switch!Numbers, Switch!Session
  <2>4. CASE Switch!Show(c)
    <3>1. PICK ok \in BOOLEAN : v6' = [downloads |-> c.downloads, queues |-> Switch!Came(c, ok)]
      BY <2>4 DEF Switch!Show
    <3>2. Switch!Came(c, ok) \in Addresses \cup {Nothing} /\ c.downloads \in Addresses \cup {Nothing}
      BY <2>2 DEF Switch!Came
    <3>3. v5' \subseteq v5
      BY <2>4 DEF Switch!Show
    <3> QED BY <3>1, <3>2, <3>3, <2>u, <1>6, <1>i
         DEF Switch!IInv, Switch!TypeOK, Switch!OneEach, Switch!Numbers, Switch!Session
  <2> QED BY <2>1, <2>3, <2>4
<1>9. CASE UNCHANGED Switch!vars
  <2>1. UNCHANGED <<v1, v2, v3, v4, v5, v6, v8>>
    BY <1>9 DEF Switch!vars
  <2> QED BY <2>1, <1>6 DEF Switch!IInv, Switch!TypeOK, Switch!OneEach, Switch!Numbers, Switch!Session
<1> QED BY <1>1, <1>2, <1>3, <1>4, <1>5, <1>7, <1>8, <1>9 DEF Switch!Next

-----------------------------------------------------------------------------
(* The window of an embedded daemon. *)

LEMMA GuiConstants ==
    Nobody \notin Guis /\ MaxTries \in Nat /\ MaxStarts \in Nat /\ MaxFaults \in Nat
BY ConstantsAssumption DEF Gui!EmbeddedGuiAssumption

LEMMA GuiInitInv == Gui!Init => Gui!IInv
<1> SUFFICES ASSUME Gui!Init PROVE Gui!IInv
  OBVIOUS
<1> USE GuiConstants
<1>1. Gui!Off \in [at : Gui!MainSteps, running : BOOLEAN, active : BOOLEAN] /\ Gui!Off.at = "ended"
  BY DEF Gui!MainSteps, Gui!Off
<1>2. Gui!NoUi \in [at : Gui!UiSteps, tries : 0..MaxTries,
                    shows : Guis \cup {Nobody, "another program"}]
  BY DEF Gui!UiSteps, Gui!NoUi
<1> USE DEF Gui!Init
<1>3. /\ v1 \in [Guis -> [at : Gui!MainSteps, running : BOOLEAN, active : BOOLEAN]]
      /\ v2 \in [Guis -> [at : Gui!UiSteps, tries : 0..MaxTries,
                          shows : Guis \cup {Nobody, "another program"}]]
      /\ \A g \in Guis : v1[g].at = "ended"
  BY <1>1, <1>2
<1>4. /\ v5 = [archive |-> "none", bundle |-> "none", marked |-> FALSE]
      /\ v3 \in {Nobody, "another program"} /\ v4 = Nobody
      /\ v7 = 0 /\ v8 = 0
      /\ v6 \in {"embedded", "beside", "unreachable"} /\ v9 = FALSE /\ v10 \in BOOLEAN
  OBVIOUS
<1> HIDE DEF Gui!Init
<1>5. Gui!TypeOK
  <2>1. 0 \in 0..MaxStarts /\ 0 \in 0..MaxFaults
    OBVIOUS
  <2>2. v9 \in BOOLEAN
    BY <1>4
  <2> QED BY <1>3, <1>4, <2>1, <2>2 DEF Gui!TypeOK
<1>6. Gui!OneUnpacks /\ Gui!MarkedIsWhole
  BY <1>3, <1>4 DEF Gui!OneUnpacks, Gui!Unpacks, Gui!UiAt, Gui!Lives, Gui!MarkedIsWhole
<1> QED BY <1>5, <1>6 DEF Gui!IInv

(* The fields of a thread that has waited. *)
LEMMA GuiResolves ==
    ASSUME NEW A, NEW B, NEW C, NEW u \in [at : A, tries : B, shows : C],
           NEW a \in A, NEW b \in B, NEW c \in C
    PROVE  /\ [u EXCEPT !.at = a, !.shows = c, !.tries = b] \in [at : A, tries : B, shows : C]
           /\ [u EXCEPT !.at = a, !.shows = c, !.tries = b].at = a
           /\ [u EXCEPT !.at = a, !.tries = b] \in [at : A, tries : B, shows : C]
           /\ [u EXCEPT !.at = a, !.tries = b].at = a
OBVIOUS

LEMMA GuiFaults == ASSUME Gui!IInv, Gui!Fault PROVE v8' \in 0..MaxFaults
<1>1. PICK n \in 0..MaxFaults : n = v8
  BY DEF Gui!IInv, Gui!TypeOK
<1>2. n < MaxFaults /\ v8' = n + 1
  BY <1>1 DEF Gui!Fault
<1> QED BY <1>1, <1>2, GuiConstants

(* The daemon of one process goes on, the others stay. *)
LEMMA GuiMain ==
    ASSUME Gui!IInv, NEW g \in Guis,
           NEW m \in [at : Gui!MainSteps, running : BOOLEAN, active : BOOLEAN],
           v1' = [v1 EXCEPT ![g] = m]
    PROVE  /\ v1' \in [Guis -> [at : Gui!MainSteps, running : BOOLEAN, active : BOOLEAN]]
           /\ v1'[g] = m /\ \A o \in Guis \ {g} : v1'[o] = v1[o]
<1>1. v1 \in [Guis -> [at : Gui!MainSteps, running : BOOLEAN, active : BOOLEAN]]
  BY DEF Gui!IInv, Gui!TypeOK
<1> QED BY <1>1

(* The thread of one process goes on, the others stay. *)
LEMMA GuiGoes ==
    ASSUME Gui!IInv, NEW g \in Guis, NEW step \in Gui!UiSteps, Gui!UiGoes(g, step)
    PROVE  /\ v2' \in [Guis -> [at : Gui!UiSteps, tries : 0..MaxTries,
                                shows : Guis \cup {Nobody, "another program"}]]
           /\ v2'[g].at = step /\ \A o \in Guis \ {g} : v2'[o].at = v2[o].at
<1> HIDE DEF Gui!UiSteps
<1>1. v2 \in [Guis -> [at : Gui!UiSteps, tries : 0..MaxTries,
                       shows : Guis \cup {Nobody, "another program"}]]
  BY DEF Gui!IInv, Gui!TypeOK
<1>2. v2' = [v2 EXCEPT ![g].at = step]
  BY DEF Gui!UiGoes
<1> QED BY <1>1, <1>2

(* A process ends. *)
LEMMA GuiOver ==
    ASSUME Gui!IInv, NEW g \in Guis, Gui!Over(g)
    PROVE  /\ v1' \in [Guis -> [at : Gui!MainSteps, running : BOOLEAN, active : BOOLEAN]]
           /\ v2' \in [Guis -> [at : Gui!UiSteps, tries : 0..MaxTries,
                                shows : Guis \cup {Nobody, "another program"}]]
           /\ v3' \in Guis \cup {Nobody, "another program"}
           /\ v2'[g].at = "none"
           /\ \A o \in Guis \ {g} : v1'[o] = v1[o] /\ v2'[o] = v2[o]
<1>1. /\ v1 \in [Guis -> [at : Gui!MainSteps, running : BOOLEAN, active : BOOLEAN]]
      /\ v2 \in [Guis -> [at : Gui!UiSteps, tries : 0..MaxTries,
                          shows : Guis \cup {Nobody, "another program"}]]
      /\ v3 \in Guis \cup {Nobody, "another program"}
  BY DEF Gui!IInv, Gui!TypeOK
<1>2. Gui!Off \in [at : Gui!MainSteps, running : BOOLEAN, active : BOOLEAN]
  BY DEF Gui!MainSteps, Gui!Off
<1>3. /\ Gui!NoUi \in [at : Gui!UiSteps, tries : 0..MaxTries,
                       shows : Guis \cup {Nobody, "another program"}]
      /\ Gui!NoUi.at = "none"
  BY GuiConstants DEF Gui!UiSteps, Gui!NoUi
<1>4. /\ v1' = [v1 EXCEPT ![g] = Gui!Off] /\ v2' = [v2 EXCEPT ![g] = Gui!NoUi]
      /\ v3' = IF v3 = g THEN Nobody ELSE v3
  BY DEF Gui!Over
<1> QED BY <1>1, <1>2, <1>3, <1>4

(* A step that leaves the bundle alone, and in which nobody begins to unpack   *)
(* or gets on with it.                                                         *)
LEMMA GuiQuiet ==
    ASSUME Gui!IInv, Gui!TypeOK', v5' = v5, v9' = v9, v10' = v10,
           \A g \in Guis : v1'[g].at # "ended" /\ v2'[g].at \in Gui!Unpacking =>
               v1[g].at # "ended" /\ v2'[g].at = v2[g].at
    PROVE  Gui!IInv'
<1>1. Gui!MarkedIsWhole'
  BY DEF Gui!IInv, Gui!MarkedIsWhole
<1>2. Gui!OneUnpacks'
  <2>1. ASSUME NEW g \in Guis, Gui!Unpacks(g)' PROVE Gui!Unpacks(g)
    BY <2>1 DEF Gui!Unpacks, Gui!Lives
  <2>2. ASSUME NEW g \in Guis, Gui!UiAt(g, "mark")' PROVE Gui!UiAt(g, "mark")
    BY <2>2 DEF Gui!UiAt, Gui!Lives, Gui!Unpacking
  <2> QED BY <2>1, <2>2 DEF Gui!IInv, Gui!OneUnpacks
<1> QED BY <1>1, <1>2 DEF Gui!IInv

LEMMA GuiNextInv == Gui!IInv /\ [Gui!Next]_(Gui!vars) => Gui!IInv'
<1> SUFFICES ASSUME Gui!IInv, [Gui!Next]_(Gui!vars) PROVE Gui!IInv'
  OBVIOUS
<1> USE GuiConstants
<1>0. /\ v1 \in [Guis -> [at : Gui!MainSteps, running : BOOLEAN, active : BOOLEAN]]
      /\ v2 \in [Guis -> [at : Gui!UiSteps, tries : 0..MaxTries,
                          shows : Guis \cup {Nobody, "another program"}]]
      /\ v3 \in Guis \cup {Nobody, "another program"}
      /\ v4 \in Guis \cup {Nobody}
      /\ v5 \in [archive : {"none", "part", "whole"}, bundle : {"none", "part", "whole"},
                 marked : BOOLEAN]
      /\ v6 \in {"embedded", "beside", "unreachable"}
      /\ v7 \in 0..MaxStarts /\ v8 \in 0..MaxFaults /\ v9 \in BOOLEAN /\ v10 \in BOOLEAN
  BY DEF Gui!IInv, Gui!TypeOK
<1>a. Gui!OneUnpacks /\ Gui!MarkedIsWhole
  BY DEF Gui!IInv
(* A process starts, or ends. *)
<1>1. ASSUME NEW g \in Guis, Gui!Start(g) PROVE Gui!IInv'
  <2>1. /\ v1' = [v1 EXCEPT ![g].at = "begin"] /\ v2' = [v2 EXCEPT ![g].at = "wait"]
        /\ v7' \in 0..MaxStarts /\ UNCHANGED <<v3, v4, v5, v6, v8, v9, v10>>
    <3>1. PICK n \in 0..MaxStarts : n = v7
      BY <1>0
    <3>2. n < MaxStarts /\ v7' = n + 1
      BY <1>1, <3>1 DEF Gui!Start
    <3>3. v7' \in 0..MaxStarts
      BY <3>1, <3>2
    <3> QED BY <1>1, <3>3 DEF Gui!Start, Gui!MainGoes
  <2>2. /\ v1' \in [Guis -> [at : Gui!MainSteps, running : BOOLEAN, active : BOOLEAN]]
        /\ \A o \in Guis \ {g} : v1'[o] = v1[o]
    <3>1. "begin" \in Gui!MainSteps
      BY DEF Gui!MainSteps
    <3> QED BY <1>0, <2>1, <3>1
  <2>3. "wait" \in Gui!UiSteps /\ "wait" \notin Gui!Unpacking
    BY DEF Gui!UiSteps, Gui!Unpacking
  <2>4. /\ v2' \in [Guis -> [at : Gui!UiSteps, tries : 0..MaxTries,
                             shows : Guis \cup {Nobody, "another program"}]]
        /\ v2'[g].at = "wait" /\ \A o \in Guis \ {g} : v2'[o].at = v2[o].at
    BY <2>1, <2>3, GuiGoes DEF Gui!UiGoes
  <2>5. Gui!TypeOK'
    BY <1>0, <2>1, <2>2, <2>4 DEF Gui!TypeOK
  <2> QED BY <2>1, <2>2, <2>3, <2>4, <2>5, GuiQuiet
<1>2. ASSUME NEW g \in Guis, Gui!Over(g), v4' \in Guis \cup {Nobody}, v8' \in 0..MaxFaults,
             UNCHANGED <<v5, v6, v7, v9, v10>>
      PROVE  Gui!IInv'
  <2>1. "none" \notin Gui!Unpacking
    BY DEF Gui!Unpacking
  <2>2. Gui!TypeOK'
    BY <1>0, <1>2, GuiOver DEF Gui!TypeOK
  <2> QED BY <1>2, <2>1, <2>2, GuiOver, GuiQuiet
(* The daemon goes on; the thread does not. *)
<1>3. ASSUME NEW g \in Guis, v1[g].at # "ended",
             v1' \in [Guis -> [at : Gui!MainSteps, running : BOOLEAN, active : BOOLEAN]],
             \A o \in Guis \ {g} : v1'[o] = v1[o],
             v3' \in Guis \cup {Nobody, "another program"}, v4' \in Guis \cup {Nobody},
             UNCHANGED <<v2, v5, v6, v7, v8, v9, v10>>
      PROVE  Gui!IInv'
  <2>1. Gui!TypeOK'
    BY <1>0, <1>3 DEF Gui!TypeOK
  <2> QED BY <1>3, <2>1, GuiQuiet
<1>4. ASSUME NEW g \in Guis, Gui!Begin(g) PROVE Gui!IInv'
  <2>1. CASE Gui!Over(g) /\ UNCHANGED <<v4, v5, v6, v7, v8, v9, v10>>
    BY <1>0, <1>2, <2>1
  <2>2. CASE /\ v1' = [v1 EXCEPT ![g].at = "flag", ![g].running = TRUE]
             /\ v1[g].at # "ended"
             /\ UNCHANGED <<v2, v3, v4, v5, v6, v7, v8, v9, v10>>
    <3>1. "flag" \in Gui!MainSteps
      BY DEF Gui!MainSteps
    <3>2. /\ v1' \in [Guis -> [at : Gui!MainSteps, running : BOOLEAN, active : BOOLEAN]]
          /\ \A o \in Guis \ {g} : v1'[o] = v1[o]
      BY <1>0, <2>2, <3>1
    <3> QED BY <1>0, <1>3, <2>2, <3>2
  <2> QED BY <1>4, <2>1, <2>2 DEF Gui!Begin, Gui!MainAt, Gui!Lives
<1>5. ASSUME NEW g \in Guis, Gui!Flag(g) PROVE Gui!IInv'
  <2>1. CASE Gui!Over(g) /\ UNCHANGED <<v4, v5, v6, v7, v8, v9, v10>>
    BY <1>0, <1>2, <2>1
  <2>2. CASE /\ v1' = [v1 EXCEPT ![g] = Gui!Begun(g)] /\ v4' = g
             /\ v1[g].at # "ended"
             /\ UNCHANGED <<v2, v3, v5, v6, v7, v8, v9, v10>>
    <3>1. Gui!Begun(g) \in [at : Gui!MainSteps, running : BOOLEAN, active : BOOLEAN]
      <4>1. "bind" \in Gui!MainSteps
        BY DEF Gui!MainSteps
      <4>2. PICK m \in [at : Gui!MainSteps, running : BOOLEAN, active : BOOLEAN] : m = v1[g]
        BY <1>0
      <4> QED BY <4>1, <4>2 DEF Gui!Begun
    <3>2. PICK m \in [at : Gui!MainSteps, running : BOOLEAN, active : BOOLEAN] : m = Gui!Begun(g)
      BY <3>1
    <3>3. v1' = [v1 EXCEPT ![g] = m]
      BY <2>2, <3>2
    <3> QED BY <1>0, <1>3, <2>2, <3>3, GuiMain
  <2> QED BY <1>5, <2>1, <2>2 DEF Gui!Flag, Gui!MainAt, Gui!Lives
<1>6. ASSUME NEW g \in Guis, Gui!Bind(g) PROVE Gui!IInv'
  <2>1. CASE Gui!Over(g) /\ v4' = Nobody /\ UNCHANGED <<v5, v6, v7, v8, v9, v10>>
    BY <1>0, <1>2, <2>1
  <2>2. CASE /\ v1' = [v1 EXCEPT ![g].at = "loop"] /\ v3' = g
             /\ v1[g].at # "ended"
             /\ UNCHANGED <<v2, v4, v5, v6, v7, v8, v9, v10>>
    <3>1. "loop" \in Gui!MainSteps
      BY DEF Gui!MainSteps
    <3>2. /\ v1' \in [Guis -> [at : Gui!MainSteps, running : BOOLEAN, active : BOOLEAN]]
          /\ \A o \in Guis \ {g} : v1'[o] = v1[o]
      BY <1>0, <2>2, <3>1
    <3> QED BY <1>0, <1>3, <2>2, <3>2
  <2> QED BY <1>6, <2>1, <2>2 DEF Gui!Bind, Gui!MainAt, Gui!Lives, Gui!MainGoes
<1>7. ASSUME NEW g \in Guis, Gui!Told(g) \/ Gui!Leave(g) PROVE Gui!IInv'
  <2>1. PICK m : m = v1'[g]
    OBVIOUS
  <2>2. /\ v1' \in [Guis -> [at : Gui!MainSteps, running : BOOLEAN, active : BOOLEAN]]
        /\ \A o \in Guis \ {g} : v1'[o] = v1[o]
    <3>1. "drain" \in Gui!MainSteps
      BY DEF Gui!MainSteps
    <3>2. \/ v1' = [v1 EXCEPT ![g].running = FALSE]
          \/ v1' = [v1 EXCEPT ![g].at = "drain", ![g].active = FALSE]
      BY <1>7 DEF Gui!Told, Gui!Leave
    <3>3. CASE v1' = [v1 EXCEPT ![g].running = FALSE]
      BY <1>0, <3>3
    <3>4. CASE v1' = [v1 EXCEPT ![g].at = "drain", ![g].active = FALSE]
      BY <1>0, <3>1, <3>4
    <3> QED BY <3>2, <3>3, <3>4
  <2>3. /\ v1[g].at # "ended" /\ v4' \in Guis \cup {Nobody}
        /\ UNCHANGED <<v2, v3, v5, v6, v7, v8, v9, v10>>
    BY <1>0, <1>7 DEF Gui!Told, Gui!Leave, Gui!MainAt, Gui!Lives, Gui!UiStuff
  <2> QED BY <1>0, <1>3, <2>2, <2>3
<1>8. ASSUME NEW g \in Guis, Gui!Return(g) \/ Gui!Kill(g) PROVE Gui!IInv'
  <2>1. /\ Gui!Over(g) /\ v8' \in 0..MaxFaults /\ v4' = v4 /\ UNCHANGED <<v5, v6, v7, v9, v10>>
    <3>1. v8' \in 0..MaxFaults
      BY <1>0, <1>8, GuiFaults DEF Gui!Return, Gui!Kill
    <3> QED BY <1>8, <3>1 DEF Gui!Return, Gui!Kill
  <2> QED BY <1>0, <1>2, <2>1
(* The thread goes on, and does not unpack. *)
<1>9. ASSUME NEW g \in Guis,
             v2' \in [Guis -> [at : Gui!UiSteps, tries : 0..MaxTries,
                              shows : Guis \cup {Nobody, "another program"}]],
             v2'[g].at \notin Gui!Unpacking, \A o \in Guis \ {g} : v2'[o].at = v2[o].at,
             UNCHANGED <<v1, v3, v4, v5, v6, v7, v8, v9, v10>>
      PROVE  Gui!IInv'
  <2>1. Gui!TypeOK'
    BY <1>0, <1>9 DEF Gui!TypeOK
  <2> QED BY <1>9, <2>1, GuiQuiet
<1>10. ASSUME NEW g \in Guis, Gui!Reach(g) PROVE Gui!IInv'
  <2>1. /\ v2' \in [Guis -> [at : Gui!UiSteps, tries : 0..MaxTries,
                             shows : Guis \cup {Nobody, "another program"}]]
        /\ v2'[g].at \in {"resolve", v2[g].at} /\ \A o \in Guis \ {g} : v2'[o].at = v2[o].at
    <3>1. "resolve" \in Gui!UiSteps
      BY DEF Gui!UiSteps
    <3>0. 0 \in 0..MaxTries
      OBVIOUS
    <3>2. CASE v2' = [v2 EXCEPT ![g].at = "resolve", ![g].shows = v3, ![g].tries = 0]
      <4>1. PICK u \in [at : Gui!UiSteps, tries : 0..MaxTries,
                        shows : Guis \cup {Nobody, "another program"}] : u = v2[g]
        BY <1>0
      <4>2. PICK a \in Gui!UiSteps, b \in 0..MaxTries,
                 c \in Guis \cup {Nobody, "another program"} :
               a = "resolve" /\ b = 0 /\ c = v3
        BY <1>0, <3>0, <3>1
      <4>3. PICK t : t = [u EXCEPT !.at = a, !.shows = c, !.tries = b]
        OBVIOUS
      <4>4. /\ t \in [at : Gui!UiSteps, tries : 0..MaxTries,
                      shows : Guis \cup {Nobody, "another program"}]
            /\ t.at = a
        BY <4>3, GuiResolves
      <4>5. v2' = [v2 EXCEPT ![g] = t]
        BY <3>2, <4>1, <4>2, <4>3
      <4> QED BY <1>0, <4>2, <4>4, <4>5
    <3>3. CASE v2' = [v2 EXCEPT ![g].tries = IF @ < MaxTries THEN @ + 1 ELSE @]
      <4>1. PICK n \in 0..MaxTries : n = IF v2[g].tries < MaxTries THEN v2[g].tries + 1 ELSE v2[g].tries
        <5>1. PICK t \in 0..MaxTries : t = v2[g].tries
          BY <1>0
        <5> QED BY <5>1
      <4>2. v2' = [v2 EXCEPT ![g].tries = n]
        BY <3>3, <4>1
      <4> QED BY <1>0, <4>2
    <3>4. CASE v2' = [v2 EXCEPT ![g].at = "resolve", ![g].tries = 0]
      <4>1. PICK u \in [at : Gui!UiSteps, tries : 0..MaxTries,
                        shows : Guis \cup {Nobody, "another program"}] : u = v2[g]
        BY <1>0
      <4>2. PICK a \in Gui!UiSteps, b \in 0..MaxTries,
                 c \in Guis \cup {Nobody, "another program"} :
               a = "resolve" /\ b = 0 /\ c = v3
        BY <1>0, <3>0, <3>1
      <4>3. PICK t : t = [u EXCEPT !.at = a, !.tries = b]
        OBVIOUS
      <4>4. /\ t \in [at : Gui!UiSteps, tries : 0..MaxTries,
                      shows : Guis \cup {Nobody, "another program"}]
            /\ t.at = a
        BY <4>3, GuiResolves
      <4>5. v2' = [v2 EXCEPT ![g] = t]
        BY <3>4, <4>1, <4>2, <4>3
      <4> QED BY <1>0, <4>2, <4>4, <4>5
    <3> QED BY <1>10, <3>2, <3>3, <3>4 DEF Gui!Reach
  <2>2. v2[g].at = "wait" /\ "wait" \notin Gui!Unpacking /\ "resolve" \notin Gui!Unpacking
    BY <1>10 DEF Gui!Reach, Gui!UiAt, Gui!Unpacking
  <2>3. UNCHANGED <<v1, v3, v4, v5, v6, v7, v8, v9, v10>>
    BY <1>10 DEF Gui!Reach, Gui!MainStuff
  <2> QED BY <1>9, <2>1, <2>2, <2>3
<1>11. ASSUME NEW g \in Guis, NEW step \in Gui!UiSteps \ Gui!Unpacking, Gui!UiGoes(g, step),
              UNCHANGED <<v1, v3, v4, v5, v6, v7, v8, v9, v10>>
       PROVE  Gui!IInv'
  BY <1>9, <1>11, GuiGoes
<1>12. {"spawn", "browse", "window", "ask"} \subseteq Gui!UiSteps \ Gui!Unpacking
  BY DEF Gui!UiSteps, Gui!Unpacking
<1>13. ASSUME NEW g \in Guis, Gui!Spawn(g) \/ Gui!Close(g) PROVE Gui!IInv'
  <2>1. UNCHANGED <<v1, v3, v4, v5, v6, v7, v8, v9, v10>>
    BY <1>13 DEF Gui!Spawn, Gui!Close, Gui!MainStuff
  <2>2. Gui!UiGoes(g, "window") \/ Gui!UiGoes(g, "browse") \/ Gui!UiGoes(g, "ask")
    BY <1>13 DEF Gui!Spawn, Gui!Close
  <2> QED BY <1>11, <1>12, <2>1, <2>2
<1>14. ASSUME NEW g \in Guis, Gui!UiIsOver(g)
       PROVE  /\ v2' \in [Guis -> [at : Gui!UiSteps, tries : 0..MaxTries,
                                   shows : Guis \cup {Nobody, "another program"}]]
              /\ v2'[g].at \notin Gui!Unpacking /\ \A o \in Guis \ {g} : v2'[o].at = v2[o].at
  <2>1. /\ Gui!NoUi \in [at : Gui!UiSteps, tries : 0..MaxTries,
                         shows : Guis \cup {Nobody, "another program"}]
        /\ Gui!NoUi.at \notin Gui!Unpacking
    BY DEF Gui!UiSteps, Gui!NoUi, Gui!Unpacking
  <2>2. v2' = [v2 EXCEPT ![g] = Gui!NoUi]
    BY <1>14 DEF Gui!UiIsOver
  <2> QED BY <1>0, <2>1, <2>2
<1>15. ASSUME NEW g \in Guis, Gui!Browse(g) PROVE Gui!IInv'
  <2>1. UNCHANGED <<v1, v3, v4, v5, v6, v7, v8, v9, v10>>
    BY <1>15 DEF Gui!Browse, Gui!MainStuff
  <2>2. Gui!UiIsOver(g) \/ Gui!UiGoes(g, "ask")
    BY <1>15 DEF Gui!Browse
  <2> QED BY <1>9, <1>11, <1>12, <1>14, <2>1, <2>2
<1>16. ASSUME NEW g \in Guis, Gui!Ask(g) PROVE Gui!IInv'
  <2>1. /\ Gui!UiIsOver(g) /\ UNCHANGED <<v3, v4, v5, v6, v7, v8, v9, v10>>
        /\ v1' = [v1 EXCEPT ![g].running = FALSE] \/ v1' = v1
    BY <1>16 DEF Gui!Ask
  <2>2. /\ v1' \in [Guis -> [at : Gui!MainSteps, running : BOOLEAN, active : BOOLEAN]]
        /\ \A o \in Guis : v1'[o].at = v1[o].at
    <3>1. CASE v1' = [v1 EXCEPT ![g].running = FALSE]
      BY <1>0, <3>1
    <3> QED BY <1>0, <2>1, <3>1
  <2>3. Gui!TypeOK'
    BY <1>0, <1>14, <2>1, <2>2 DEF Gui!TypeOK
  <2> QED BY <1>14, <2>1, <2>2, <2>3, GuiQuiet
<1>17. ASSUME NEW g \in Guis, Gui!Resolve(g) PROVE Gui!IInv'
  <2>1. UNCHANGED <<v1, v3, v4, v5, v6, v7, v8, v9, v10>>
    BY <1>17 DEF Gui!Resolve, Gui!MainStuff
  <2>2. Gui!UiGoes(g, "spawn") \/ Gui!UiGoes(g, "slice") \/ Gui!UiGoes(g, "browse")
    BY <1>17 DEF Gui!Resolve, Gui!Unpacked
  <2>3. "slice" \in Gui!UiSteps \ Gui!Unpacking
    BY DEF Gui!UiSteps, Gui!Unpacking
  <2> QED BY <1>11, <1>12, <2>1, <2>2, <2>3
(* A process begins to unpack: nobody else does, or it is noted. *)
<1>18. ASSUME NEW g \in Guis, Gui!Slice(g) PROVE Gui!IInv'
  <2>1. /\ Gui!UiGoes(g, "slicing") /\ v1[g].at # "ended"
        /\ UNCHANGED <<v1, v3, v4, v6, v7, v8, v10>>
    BY <1>18 DEF Gui!Slice, Gui!MainStuff, Gui!UiAt, Gui!Lives
  <2>2. /\ v5' \in [archive : {"none", "part", "whole"}, bundle : {"none", "part", "whole"},
                    marked : BOOLEAN]
        /\ v5'.bundle = v5.bundle /\ v5'.marked = v5.marked
    BY <1>0, <1>18 DEF Gui!Slice
  <2>3. v9' \in BOOLEAN /\ (~v9' => ~v9 /\ ~v5.marked /\ \A o \in Guis \ {g} : ~Gui!Unpacks(o))
    BY <1>18 DEF Gui!Slice, Gui!Unpacks
  <2>4. "slicing" \in Gui!UiSteps /\ "slicing" # "mark"
    BY DEF Gui!UiSteps, Gui!Unpacking
  <2>5. /\ v2' \in [Guis -> [at : Gui!UiSteps, tries : 0..MaxTries,
                             shows : Guis \cup {Nobody, "another program"}]]
        /\ v2'[g].at = "slicing" /\ \A o \in Guis \ {g} : v2'[o].at = v2[o].at
    BY <2>1, <2>4, GuiGoes
  <2>6. Gui!TypeOK'
    BY <1>0, <2>1, <2>2, <2>3, <2>5 DEF Gui!TypeOK
  <2>7. \A o \in Guis \ {g} : Gui!Unpacks(o)' => Gui!Unpacks(o)
    BY <2>1, <2>5 DEF Gui!Unpacks, Gui!Lives
  <2>8. \A o \in Guis : Gui!UiAt(o, "mark")' => o # g /\ Gui!Unpacks(o)'
    BY <2>4, <2>5 DEF Gui!UiAt, Gui!Unpacks, Gui!Unpacking, Gui!Lives
  <2>9. Gui!OneUnpacks'
    BY <2>2, <2>3, <2>7, <2>8 DEF Gui!OneUnpacks
  <2>10. Gui!MarkedIsWhole'
    BY <1>a, <2>2, <2>3 DEF Gui!MarkedIsWhole
  <2> QED BY <2>6, <2>9, <2>10 DEF Gui!IInv
(* It goes on with it: the bundle is whole before it is marked. *)
<1>19. ASSUME NEW g \in Guis, Gui!Unpacks(g), NEW step \in Gui!UiSteps, Gui!UiGoes(g, step),
              UNCHANGED <<v1, v3, v4, v6, v7, v9>>,
              v5' \in [archive : {"none", "part", "whole"}, bundle : {"none", "part", "whole"},
                      marked : BOOLEAN],
              v8' \in 0..MaxFaults, v10' \in BOOLEAN,
              v5'.marked /\ ~v5.marked => step \notin Gui!Unpacking,
              ~v9 /\ ~v10' /\ ((v5'.marked /\ ~v5.marked) \/ step = "mark") => v5'.bundle = "whole"
       PROVE  Gui!IInv'
  <2>1. /\ v2' \in [Guis -> [at : Gui!UiSteps, tries : 0..MaxTries,
                             shows : Guis \cup {Nobody, "another program"}]]
        /\ v2'[g].at = step /\ \A o \in Guis \ {g} : v2'[o].at = v2[o].at
    BY <1>19, GuiGoes
  <2>2. Gui!TypeOK'
    BY <1>0, <1>19, <2>1 DEF Gui!TypeOK
  <2>3. ~v9 => ~v5.marked /\ \A o \in Guis : Gui!Unpacks(o) => o = g
    BY <1>a, <1>19 DEF Gui!OneUnpacks
  <2>4. \A o \in Guis : Gui!Unpacks(o)' => Gui!Unpacks(o) /\ (o = g => step \in Gui!Unpacking)
    BY <1>19, <2>1 DEF Gui!Unpacks, Gui!Lives
  <2>5. \A o \in Guis : Gui!UiAt(o, "mark")' => Gui!Unpacks(o)' /\ (o = g => step = "mark")
    BY <2>1 DEF Gui!UiAt, Gui!Unpacks, Gui!Unpacking, Gui!Lives
  <2>6. Gui!OneUnpacks'
    BY <1>19, <2>3, <2>4, <2>5 DEF Gui!OneUnpacks
  <2>7. Gui!MarkedIsWhole'
    BY <1>19, <2>3 DEF Gui!MarkedIsWhole
  <2> QED BY <2>2, <2>6, <2>7 DEF Gui!IInv
<1>20. {"untar", "untarring", "mark", "browse", "spawn"} \subseteq Gui!UiSteps
  BY DEF Gui!UiSteps, Gui!Unpacking
<1>21. ASSUME NEW g \in Guis, Gui!Sliced(g) PROVE Gui!IInv'
  <2>1. Gui!Unpacks(g) /\ UNCHANGED <<v1, v3, v4, v6, v7, v9, v10>>
    BY <1>21 DEF Gui!Sliced, Gui!MainStuff, Gui!UiAt, Gui!Unpacks, Gui!Unpacking
  <2>2. PICK step \in {"untar", "browse"} : Gui!UiGoes(g, step)
    BY <1>21 DEF Gui!Sliced
  <2>3. v8' \in 0..MaxFaults
    BY <1>0, <1>21, GuiFaults DEF Gui!Sliced
  <2>4. /\ v5' \in [archive : {"none", "part", "whole"}, bundle : {"none", "part", "whole"},
                    marked : BOOLEAN]
        /\ v5'.marked = v5.marked
    BY <1>0, <1>21 DEF Gui!Sliced
  <2> QED BY <1>0, <1>19, <1>20, <2>1, <2>2, <2>3, <2>4
<1>22. ASSUME NEW g \in Guis, Gui!Untar(g) PROVE Gui!IInv'
  <2>1. Gui!Unpacks(g) /\ UNCHANGED <<v1, v3, v4, v6, v7, v8, v9, v10>>
    BY <1>22 DEF Gui!Untar, Gui!MainStuff, Gui!UiAt, Gui!Unpacks, Gui!Unpacking
  <2>2. PICK step \in {"untarring", "browse"} : Gui!UiGoes(g, step)
    BY <1>22 DEF Gui!Untar
  <2>3. /\ v5' \in [archive : {"none", "part", "whole"}, bundle : {"none", "part", "whole"},
                    marked : BOOLEAN]
        /\ v5'.marked = v5.marked
    BY <1>0, <1>22 DEF Gui!Untar
  <2> QED BY <1>0, <1>19, <1>20, <2>1, <2>2, <2>3
<1>23. ASSUME NEW g \in Guis, Gui!Untarred(g) PROVE Gui!IInv'
  <2>1. Gui!Unpacks(g) /\ UNCHANGED <<v1, v3, v4, v6, v7, v9>>
    BY <1>23 DEF Gui!Untarred, Gui!MainStuff, Gui!UiAt, Gui!Unpacks, Gui!Unpacking
  <2>2. v8' \in 0..MaxFaults /\ v10' \in BOOLEAN
    BY <1>0, <1>23, GuiFaults DEF Gui!Untarred
  <2>3. /\ v5' \in [archive : {"none", "part", "whole"}, bundle : {"none", "part", "whole"},
                    marked : BOOLEAN]
        /\ v5'.marked = v5.marked
    BY <1>0, <1>23 DEF Gui!Untarred
  <2>4. PICK step \in {"mark", "browse"} :
            Gui!UiGoes(g, step) /\ (step = "mark" => v5'.bundle = "whole" \/ v10')
    BY <1>0, <1>23 DEF Gui!Untarred, Gui!TarTold
  <2> QED BY <1>0, <1>19, <1>20, <2>1, <2>2, <2>3, <2>4
<1>24. ASSUME NEW g \in Guis, Gui!Mark(g) PROVE Gui!IInv'
  <2>1. Gui!Unpacks(g) /\ Gui!UiAt(g, "mark") /\ UNCHANGED <<v1, v3, v4, v6, v7, v9, v10>>
    BY <1>24 DEF Gui!Mark, Gui!MainStuff, Gui!UiAt, Gui!Unpacks, Gui!Unpacking
  <2>2. v8' \in 0..MaxFaults
    BY <1>0, <1>24, GuiFaults DEF Gui!Mark
  <2>3. /\ v5' \in [archive : {"none", "part", "whole"}, bundle : {"none", "part", "whole"},
                    marked : BOOLEAN]
        /\ v5'.bundle = v5.bundle
    BY <1>0, <1>24 DEF Gui!Mark
  <2>4. PICK step \in {"spawn", "browse"} : Gui!UiGoes(g, step)
    BY <1>24 DEF Gui!Mark, Gui!Unpacked
  <2>5. ~v9 => v5.bundle = "whole" \/ v10
    BY <1>a, <2>1 DEF Gui!OneUnpacks
  <2> QED BY <1>0, <1>12, <1>19, <1>20, <2>1, <2>2, <2>3, <2>4, <2>5
<1>25. CASE UNCHANGED Gui!vars
  BY <1>25 DEF Gui!vars, Gui!IInv, Gui!TypeOK, Gui!OneUnpacks, Gui!Unpacks, Gui!UiAt, Gui!Lives,
     Gui!MarkedIsWhole
<1> QED BY <1>1, <1>4, <1>5, <1>6, <1>7, <1>8, <1>10, <1>13, <1>15, <1>16, <1>17, <1>18, <1>21, <1>22,
        <1>23, <1>24, <1>25 DEF Gui!Next, Gui!Daemon, Gui!Window

-----------------------------------------------------------------------------
(* The names of finished files. *)

LEMMA FilesConstants ==
    /\ Others # Nobody /\ Others \notin FileJobs /\ Nobody \notin FileJobs
    /\ MaxName \in Nat /\ MaxFileFaults \in Nat
BY ConstantsAssumption DEF Files!FinishedAssumption

LEMMA FilesInitInv == Files!Init => Files!IInv
<1> SUFFICES ASSUME Files!Init PROVE Files!IInv
  OBVIOUS
<1>1. /\ v1 \in [Files!Names -> {Files!NoFile, [of |-> Others, whole |-> TRUE]}]
      /\ v2 = [j \in FileJobs |-> "whole"] /\ v3 = [j \in FileJobs |-> "ready"]
      /\ v4 = [j \in FileJobs |-> 0] /\ v5 \in BOOLEAN /\ v6 = 0 /\ v7 = {}
  BY DEF Files!Init
<1>2. v1 \in [Files!Names -> [of : FileJobs \cup {Others, Nobody}, whole : BOOLEAN]]
  <2>1. {Files!NoFile, [of |-> Others, whole |-> TRUE]}
            \subseteq [of : FileJobs \cup {Others, Nobody}, whole : BOOLEAN]
    BY DEF Files!NoFile
  <2>2. PICK S : S = {Files!NoFile, [of |-> Others, whole |-> TRUE]}
    OBVIOUS
  <2> QED BY <1>1, <2>1, <2>2
<1>3. 0 \in Files!Names /\ 0 \in 0..MaxFileFaults
  BY FilesConstants DEF Files!Names
<1>4. "ready" \in Files!Steps
  BY DEF Files!Steps
<1>5. /\ v2 \in [FileJobs -> {"whole", "gone"}] /\ v3 \in [FileJobs -> Files!Steps]
      /\ v4 \in [FileJobs -> Files!Names]
  BY <1>1, <1>3, <1>4
<1>6. Files!TypeOK
  BY <1>1, <1>2, <1>3, <1>5 DEF Files!TypeOK
<1>7. \A j \in FileJobs : Files!OwnName(j)
  BY <1>1 DEF Files!OwnName
<1> QED BY <1>2, <1>6, <1>7 DEF Files!IInv

(* What a step of one job has to leave: the names of the others are theirs,     *)
(* unless it is noted that one was taken.                                       *)
LEMMA FilesStep ==
    ASSUME Files!IInv, NEW j \in FileJobs,
           v1' \in [Files!Names -> [of : FileJobs \cup {Others, Nobody}, whole : BOOLEAN]],
           v2' \in [FileJobs -> {"whole", "gone"}], v3' \in [FileJobs -> Files!Steps],
           v4' \in [FileJobs -> Files!Names], v5' = v5, v6' \in 0..MaxFileFaults,
           v7 \subseteq v7', v7' \subseteq FileJobs,
           \A k \in FileJobs \ {j} : v2'[k] = v2[k] /\ v3'[k] = v3[k] /\ v4'[k] = v4[k],
           \A n \in Files!Names :
               /\ v1[n].of = Others => v1'[n] = v1[n]
               /\ v1'[n].of = Others => v1[n].of = Others
               /\ v7' = {} => \A k \in FileJobs \ {j} : v1[n].of = k => v1'[n] = v1[n],
           Files!OwnName(j)'
    PROVE  Files!IInv' /\ Files!OthersUntouched
<1>1. Files!TypeOK'
  BY DEF Files!IInv, Files!TypeOK
<1>2. ASSUME NEW k \in FileJobs, k # j PROVE Files!OwnName(k)'
  <2>1. /\ Files!OwnName(k) /\ v4[k] \in Files!Names
        /\ v2'[k] = v2[k] /\ v3'[k] = v3[k] /\ v4'[k] = v4[k]
    BY <1>2 DEF Files!IInv, Files!TypeOK
  <2>2. PICK n \in Files!Names : n = v4[k] /\ n = v4'[k]
    BY <2>1
  <2>3. /\ v1'[n].of = Others => v1[n].of = Others
        /\ v7' = {} => v7 = {} /\ (v1[n].of = k => v1'[n] = v1[n])
    BY <1>2
  <2> QED BY <2>1, <2>2, <2>3 DEF Files!OwnName
<1>3. Files!OthersUntouched
  BY DEF Files!OthersUntouched
<1> QED BY <1>1, <1>2, <1>3 DEF Files!IInv

(* The file of a job. *)
LEMMA FileOf ==
    ASSUME NEW j \in FileJobs
    PROVE  /\ \E f \in [of : FileJobs \cup {Nobody}, whole : BOOLEAN] :
                 f = [of |-> j, whole |-> TRUE] /\ f.of = j /\ f.whole
           /\ \E f \in [of : FileJobs \cup {Nobody}, whole : BOOLEAN] :
                 f = [of |-> j, whole |-> FALSE] /\ f.of = j
<1>1. /\ [of |-> j, whole |-> TRUE] \in [of : FileJobs \cup {Nobody}, whole : BOOLEAN]
      /\ [of |-> j, whole |-> FALSE] \in [of : FileJobs \cup {Nobody}, whole : BOOLEAN]
  OBVIOUS
<1>2. [of |-> j, whole |-> TRUE].of = j /\ [of |-> j, whole |-> TRUE].whole
  OBVIOUS
<1>3. [of |-> j, whole |-> FALSE].of = j
  OBVIOUS
<1> QED BY <1>1, <1>2, <1>3, Zenon

LEMMA FilesNextInv ==
    Files!IInv /\ [Files!Next]_(Files!vars) => Files!IInv' /\ [Files!OthersUntouched]_(Files!vars)
<1> SUFFICES ASSUME Files!IInv, [Files!Next]_(Files!vars) PROVE Files!IInv' /\ Files!OthersUntouched
  OBVIOUS
<1> USE FilesConstants
<1>0. /\ v1 \in [Files!Names -> [of : FileJobs \cup {Others, Nobody}, whole : BOOLEAN]]
      /\ v2 \in [FileJobs -> {"whole", "gone"}] /\ v3 \in [FileJobs -> Files!Steps]
      /\ v4 \in [FileJobs -> Files!Names] /\ v6 \in 0..MaxFileFaults /\ v7 \subseteq FileJobs
      /\ \A j \in FileJobs : Files!OwnName(j)
  BY DEF Files!IInv, Files!TypeOK
<1>s. Files!Steps = {"ready", "look", "move", "copy", "sync", "drop", "done", "failed"}
  BY DEF Files!Steps
<1>f. ASSUME Files!Fault PROVE v6' \in 0..MaxFileFaults
  <2>1. PICK n \in 0..MaxFileFaults : n = v6
    BY <1>0
  <2>2. n < MaxFileFaults /\ v6' = n + 1
    BY <1>f, <2>1 DEF Files!Fault
  <2> QED BY <2>1, <2>2
(* Where a job goes; its temp file goes or stays. *)
<1>g. ASSUME NEW j \in FileJobs, NEW step \in Files!Steps, Files!Go(j, step)
      PROVE  /\ v3' \in [FileJobs -> Files!Steps] /\ v3'[j] = step
             /\ \A k \in FileJobs \ {j} : v3'[k] = v3[k]
  BY <1>0, <1>g DEF Files!Go
<1>d. ASSUME NEW j \in FileJobs, v2' = [v2 EXCEPT ![j] = "gone"]
      PROVE  /\ v2' \in [FileJobs -> {"whole", "gone"}] /\ v2'[j] = "gone"
             /\ \A k \in FileJobs \ {j} : v2'[k] = v2[k]
  BY <1>0, <1>d
(* A step that leaves the directory alone. *)
<1>1. ASSUME NEW j \in FileJobs, v1' = v1, v5' = v5, v7' = v7, v6' \in 0..MaxFileFaults,
             v2' \in [FileJobs -> {"whole", "gone"}], v4' \in [FileJobs -> Files!Names],
             NEW step \in Files!Steps, Files!Go(j, step),
             \A k \in FileJobs \ {j} : v2'[k] = v2[k] /\ v4'[k] = v4[k],
             Files!OwnName(j)'
      PROVE  Files!IInv' /\ Files!OthersUntouched
  BY <1>0, <1>1, <1>g, FilesStep
<1>2. ASSUME NEW j \in FileJobs, Files!Begin(j) \/ Files!Retry(j)
      PROVE  Files!IInv' /\ Files!OthersUntouched
  <2>1. v2[j] # "gone"
    BY <1>0, <1>2 DEF Files!Begin, Files!Retry, Files!Is, Files!OwnName
  <2>2. PICK step \in {"look", "ready"} : Files!Go(j, step)
    BY <1>2 DEF Files!Begin, Files!Retry
  <2>3. v4' \in [FileJobs -> Files!Names] /\ \A k \in FileJobs \ {j} : v4'[k] = v4[k]
    <3>1. 0 \in Files!Names
      BY DEF Files!Names
    <3> QED BY <1>0, <1>2, <3>1 DEF Files!Begin, Files!Retry
  <2>4. v1' = v1 /\ v2' = v2 /\ v5' = v5 /\ v6' = v6 /\ v7' = v7
    BY <1>2 DEF Files!Begin, Files!Retry
  <2>5. v3'[j] = step
    BY <1>s, <1>g, <2>2
  <2>6. Files!OwnName(j)'
    BY <2>1, <2>4, <2>5 DEF Files!OwnName
  <2> QED BY <1>0, <1>1, <1>s, <2>2, <2>3, <2>4, <2>6
<1>3. ASSUME NEW j \in FileJobs, Files!Look(j) PROVE Files!IInv' /\ Files!OthersUntouched
  <2>1. v2[j] # "gone" /\ v3[j] = "look" /\ v1' = v1 /\ v2' = v2 /\ v5' = v5 /\ v6' = v6 /\ v7' = v7
    BY <1>0, <1>3 DEF Files!Look, Files!Is, Files!OwnName
  <2>2. CASE Files!Free(v4[j]) /\ Files!Go(j, "move") /\ v4' = v4
    <3>1. v3'[j] = "move" /\ v1[v4[j]].of # Others
      BY <1>s, <1>g, <2>2 DEF Files!Free, Files!NoFile
    <3>2. Files!OwnName(j)'
      BY <2>1, <2>2, <3>1 DEF Files!OwnName
    <3> QED BY <1>0, <1>1, <1>s, <2>1, <2>2, <3>2
  <2>3. CASE v4[j] < MaxName /\ v4' = [v4 EXCEPT ![j] = @ + 1] /\ v3' = v3
    <3>1. PICK n \in 0..MaxName : n = v4[j]
      BY <1>0 DEF Files!Names
    <3>2. PICK m \in Files!Names : m = n + 1
      BY <2>3, <3>1 DEF Files!Names
    <3>3. v4' = [v4 EXCEPT ![j] = m]
      BY <2>3, <3>1, <3>2
    <3>4. v4' \in [FileJobs -> Files!Names] /\ \A k \in FileJobs \ {j} : v4'[k] = v4[k]
      BY <1>0, <3>3
    <3>5. Files!Go(j, "look")
      BY <1>0, <2>1, <2>3 DEF Files!Go
    <3>6. Files!OwnName(j)'
      BY <2>1, <2>3 DEF Files!OwnName
    <3> QED BY <1>0, <1>1, <1>s, <2>1, <3>4, <3>5, <3>6
  <2>4. CASE Files!Go(j, "failed") /\ v4' = v4
    <3>1. v3'[j] = "failed"
      BY <1>s, <1>g, <2>4
    <3>2. Files!OwnName(j)'
      BY <2>1, <3>1 DEF Files!OwnName
    <3> QED BY <1>0, <1>1, <1>s, <2>1, <2>4, <3>2
  <2> QED BY <1>3, <2>2, <2>3, <2>4 DEF Files!Look
(* A step that writes what is under the name of the job. *)
<1>4. ASSUME NEW j \in FileJobs, NEW f \in [of : FileJobs \cup {Nobody}, whole : BOOLEAN],
             Files!Fill(v4[j], f), v4' = v4, v5' = v5,
             v6' \in 0..MaxFileFaults, v2' \in [FileJobs -> {"whole", "gone"}],
             \A k \in FileJobs \ {j} : v2'[k] = v2[k],
             NEW step \in Files!Steps, Files!Go(j, step), v3[j] \in {"move", "copy", "sync"},
             v7 \subseteq v7', v7' \subseteq FileJobs,
             v1[v4[j]].of \notin {Nobody, j} => v7' # {},
             v1'[v4[j]] = f => Files!OwnName(j)'
      PROVE  Files!IInv' /\ Files!OthersUntouched
  <2>1. PICK n \in Files!Names : n = v4[j]
    BY <1>0
  <2>2. v1[n].of # Others
    BY <1>0, <1>4, <2>1 DEF Files!OwnName
  <2>3. f \in [of : FileJobs \cup {Others, Nobody}, whole : BOOLEAN]
    BY <1>4
  <2>4. v1' = [v1 EXCEPT ![n] = f]
    BY <1>4, <2>1 DEF Files!Fill
  <2>5. /\ v1' \in [Files!Names -> [of : FileJobs \cup {Others, Nobody}, whole : BOOLEAN]]
        /\ v1'[n] = f /\ \A m \in Files!Names \ {n} : v1'[m] = v1[m]
    BY <1>0, <2>3, <2>4
  <2>6. f.of # Others
    BY <1>4
  <2>7. ASSUME NEW m \in Files!Names
        PROVE  /\ v1[m].of = Others => v1'[m] = v1[m]
               /\ v1'[m].of = Others => v1[m].of = Others
               /\ v7' = {} => \A k \in FileJobs \ {j} : v1[m].of = k => v1'[m] = v1[m]
    BY <1>4, <2>1, <2>2, <2>5, <2>6
  <2>8. Files!OwnName(j)'
    BY <1>4, <2>1, <2>5
  <2> QED BY <1>0, <1>4, <1>g, <2>5, <2>7, <2>8, FilesStep
<1>t. ASSUME NEW j \in FileJobs, Files!Taking(j)
      PROVE  /\ v7 \subseteq v7' /\ v7' \subseteq FileJobs
             /\ v1[v4[j]].of \notin {Nobody, j} => v7' # {}
  BY <1>0, <1>t DEF Files!Taking
<1>5. ASSUME NEW j \in FileJobs, Files!Rename(j) PROVE Files!IInv' /\ Files!OthersUntouched
  <2>1. /\ v3[j] = "move" /\ v2' = [v2 EXCEPT ![j] = "gone"] /\ Files!Taking(j)
        /\ Files!Go(j, "done") /\ v4' = v4 /\ v5' = v5 /\ v6' = v6
        /\ Files!Fill(v4[j], [of |-> j, whole |-> TRUE])
    BY <1>5 DEF Files!Rename, Files!Is
  <2>2. PICK f \in [of : FileJobs \cup {Nobody}, whole : BOOLEAN] :
            f = [of |-> j, whole |-> TRUE] /\ f.of = j /\ f.whole
    BY FileOf, Zenon
  <2>3. v3'[j] = "done" /\ v2'[j] = "gone" /\ v2' \in [FileJobs -> {"whole", "gone"}]
    BY <1>s, <1>g, <1>d, <2>1
  <2>4. v1'[v4[j]] = f => Files!OwnName(j)'
    BY <2>1, <2>2, <2>3 DEF Files!OwnName
  <2> QED BY <1>0, <1>4, <1>s, <1>t, <1>d, <2>1, <2>2, <2>3, <2>4
<1>6. ASSUME NEW j \in FileJobs, Files!Open(j) PROVE Files!IInv' /\ Files!OthersUntouched
  <2>1. /\ v3[j] = "move" /\ v2' = v2 /\ Files!Taking(j)
        /\ Files!Go(j, "copy") /\ v4' = v4 /\ v5' = v5 /\ v6' = v6
        /\ Files!Fill(v4[j], [of |-> j, whole |-> FALSE])
    BY <1>6 DEF Files!Open, Files!Is
  <2>2. PICK f \in [of : FileJobs \cup {Nobody}, whole : BOOLEAN] :
            f = [of |-> j, whole |-> FALSE] /\ f.of = j
    BY FileOf, Zenon
  <2>3. v3'[j] = "copy" /\ v2[j] # "gone"
    BY <1>0, <1>s, <1>g, <2>1 DEF Files!OwnName
  <2>4. v1'[v4[j]] = f => Files!OwnName(j)'
    BY <2>1, <2>2, <2>3 DEF Files!OwnName
  <2> QED BY <1>0, <1>4, <1>s, <1>t, <2>1, <2>2, <2>3, <2>4
<1>7. ASSUME NEW j \in FileJobs, Files!Copy(j) PROVE Files!IInv' /\ Files!OthersUntouched
  <2>1. /\ v3[j] = "copy" /\ Files!Go(j, "sync") /\ v2' = v2
        /\ UNCHANGED <<v1, v4, v5, v6, v7>>
    BY <1>7 DEF Files!Copy, Files!Copied, Files!Is
  <2>2. v3'[j] = "sync"
    BY <1>s, <1>g, <2>1
  <2>3. Files!OwnName(j)'
    BY <1>0, <2>1, <2>2 DEF Files!OwnName
  <2> QED BY <1>0, <1>1, <1>s, <2>1, <2>3
<1>8. ASSUME NEW j \in FileJobs, Files!CopyFails(j) PROVE Files!IInv' /\ Files!OthersUntouched
  <2>1. /\ v3[j] \in {"copy", "sync"} /\ Files!Go(j, "failed") /\ v2' = v2 /\ v4' = v4 /\ v5' = v5
        /\ Files!Fill(v4[j], Files!NoFile)
        /\ v7' = IF v1[v4[j]].of = j THEN v7 ELSE v7 \cup {j}
    BY <1>8 DEF Files!CopyFails
  <2>2. PICK f \in [of : FileJobs \cup {Nobody}, whole : BOOLEAN] : f = Files!NoFile
    BY DEF Files!NoFile
  <2>3. v3'[j] = "failed" /\ v2[j] # "gone"
    BY <1>0, <1>s, <1>g, <2>1 DEF Files!OwnName
  <2>4. Files!OwnName(j)'
    BY <2>1, <2>3 DEF Files!OwnName
  <2>5. v6' \in 0..MaxFileFaults
    BY <1>8, <1>f DEF Files!CopyFails
  <2>6. /\ v7 \subseteq v7' /\ v7' \subseteq FileJobs
        /\ v1[v4[j]].of \notin {Nobody, j} => v7' # {}
    BY <1>0, <2>1
  <2> QED BY <1>0, <1>4, <1>s, <2>1, <2>2, <2>4, <2>5, <2>6
<1>9. ASSUME NEW j \in FileJobs, Files!Sync(j) PROVE Files!IInv' /\ Files!OthersUntouched
  <2>1. /\ v3[j] = "sync" /\ Files!Go(j, "drop") /\ UNCHANGED <<v2, v4, v5, v6, v7>>
        /\ v1' = IF v1[v4[j]].of = j THEN [v1 EXCEPT ![v4[j]].whole = TRUE] ELSE v1
    BY <1>9 DEF Files!Sync, Files!Is
  <2>2. v3'[j] = "drop" /\ v2[j] # "gone"
    BY <1>0, <1>s, <1>g, <2>1 DEF Files!OwnName
  <2>3. CASE v1[v4[j]].of = j
    <3>1. PICK n \in Files!Names : n = v4[j]
      BY <1>0
    <3>2. PICK f \in [of : FileJobs \cup {Nobody}, whole : BOOLEAN] :
              f = [of |-> j, whole |-> TRUE] /\ f.of = j /\ f.whole
      BY FileOf, Zenon
    <3>3. v1[n] \in [of : FileJobs \cup {Others, Nobody}, whole : BOOLEAN] /\ v1[n].of = j
      BY <1>0, <2>3, <3>1
    <3>4. [v1[n] EXCEPT !.whole = TRUE] = f
      BY <3>2, <3>3
    <3>5. Files!Fill(v4[j], f)
      BY <2>1, <2>3, <3>1, <3>4 DEF Files!Fill
    <3>6. v1'[v4[j]] = f => Files!OwnName(j)'
      BY <1>0, <2>1, <2>2, <3>2 DEF Files!OwnName
    <3> QED BY <1>0, <1>4, <1>s, <2>1, <2>2, <2>3, <3>5, <3>6
  <2>4. CASE v1[v4[j]].of # j
    <3>1. Files!OwnName(j)'
      BY <1>0, <2>1, <2>2, <2>4 DEF Files!OwnName
    <3> QED BY <1>0, <1>1, <1>s, <2>1, <2>4, <3>1
  <2> QED BY <2>3, <2>4
<1>10. ASSUME NEW j \in FileJobs, Files!Drop(j) PROVE Files!IInv' /\ Files!OthersUntouched
  <2>1. /\ v3[j] = "drop" /\ Files!Go(j, "done") /\ UNCHANGED <<v1, v4, v5, v6, v7>>
        /\ v2' = [v2 EXCEPT ![j] = "gone"]
    BY <1>10 DEF Files!Drop, Files!Is
  <2>2. v3'[j] = "done" /\ v2'[j] = "gone" /\ v2' \in [FileJobs -> {"whole", "gone"}]
    BY <1>s, <1>g, <1>d, <2>1
  <2>3. Files!OwnName(j)'
    BY <1>0, <2>1, <2>2 DEF Files!OwnName
  <2> QED BY <1>0, <1>1, <1>s, <1>d, <2>1, <2>2, <2>3
<1>11. CASE Files!Crash
  <2>1. /\ v3' = [j \in FileJobs |-> IF v2[j] = "gone" THEN v3[j] ELSE "ready"]
        /\ UNCHANGED <<v1, v2, v4, v5, v7>>
    BY <1>11 DEF Files!Crash
  <2>2. v6' \in 0..MaxFileFaults
    BY <1>11, <1>f DEF Files!Crash
  <2>3. v3' \in [FileJobs -> Files!Steps]
    BY <1>0, <1>s, <2>1
  <2>4. ASSUME NEW j \in FileJobs PROVE Files!OwnName(j)'
    BY <1>0, <2>1 DEF Files!OwnName
  <2>5. Files!TypeOK'
    BY <2>1, <2>2, <2>3 DEF Files!IInv, Files!TypeOK
  <2> QED BY <1>0, <2>1, <2>4, <2>5 DEF Files!IInv, Files!OthersUntouched
<1>12. CASE UNCHANGED Files!vars
  BY <1>12 DEF Files!vars, Files!IInv, Files!TypeOK, Files!OwnName, Files!OthersUntouched
<1> QED BY <1>2, <1>3, <1>5, <1>6, <1>7, <1>8, <1>9, <1>10, <1>11, <1>12 DEF Files!Next, Files!Step

LEMMA FilesShows == Files!IInv => Files!TypeOK /\ Files!AlwaysSomewhere
BY DEF Files!IInv, Files!TypeOK, Files!OwnName, Files!AlwaysSomewhere

-----------------------------------------------------------------------------
(* The bookmarks. *)

LEMMA MarksConstants == MaxEdits \in Nat /\ MaxFileFaults \in Nat
BY ConstantsAssumption DEF Marks!BookmarksAssumption

LEMMA MarksFaults == ASSUME Marks!IInv, Marks!Fault PROVE v6' \in 0..MaxFileFaults
<1>1. PICK n \in 0..MaxFileFaults : n = v6
  BY DEF Marks!IInv, Marks!TypeOK
<1>2. n < MaxFileFaults /\ v6' = n + 1
  BY <1>1 DEF Marks!Fault
<1> QED BY <1>1, <1>2, MarksConstants

LEMMA InRange ==
    ASSUME NEW s, NEW x
    PROVE  x \in Marks!Range(s) <=> \E k \in DOMAIN s : s[k] = x
BY DEF Marks!Range

LEMMA EmptyDocument ==
    /\ <<>> \in Seq(Marks!Entries) /\ DOMAIN <<>> = {} /\ Marks!OnceEach(<<>>)
<1>1. DOMAIN <<>> = {} /\ <<>> \in Seq(Marks!Entries)
  OBVIOUS
<1> QED BY <1>1 DEF Marks!OnceEach

LEMMA MarksInitInv == Marks!Init => Marks!IInv
<1> SUFFICES ASSUME Marks!Init PROVE Marks!IInv
  OBVIOUS
<1> USE MarksConstants
<1>1. PICK s : s = <<>>
  OBVIOUS
<1>2. s \in Seq(Marks!Entries) /\ Marks!OnceEach(s) /\ DOMAIN s = {}
  BY <1>1, EmptyDocument
<1>3. /\ v1 = [entries |-> s, whole |-> TRUE, synced |-> TRUE]
      /\ v2 = [entries |-> s, whole |-> FALSE, synced |-> FALSE]
      /\ v3 = [at |-> "idle", root |-> s, removes |-> s]
      /\ v4 = 0 /\ v5 = 0 /\ v6 = 0 /\ v7 \in BOOLEAN
  BY <1>1 DEF Marks!Init, Marks!Stored, Marks!NoTmp, Marks!Idle
<1>4. v1 \in Marks!Document /\ v1.entries = s /\ v1.whole /\ v1.synced
  BY <1>2, <1>3 DEF Marks!Document
<1>5. v2 \in Marks!Document
  BY <1>2, <1>3 DEF Marks!Document
<1>6. v3 \in Marks!Calls /\ v3.at = "idle" /\ v3.root = s /\ v3.removes = s
  BY <1>2, <1>3 DEF Marks!Calls
<1>7. 0 \in 0..MaxEdits /\ 0 \in 0..MaxFileFaults
  OBVIOUS
<1>8. Marks!TypeOK
  BY <1>2, <1>3, <1>4, <1>6, <1>7 DEF Marks!TypeOK
<1>9. Marks!OnDisk /\ Marks!InHand
  BY <1>4, <1>6 DEF Marks!OnDisk, Marks!InHand
<1> QED BY <1>2, <1>3, <1>4, <1>5, <1>6, <1>8, <1>9 DEF Marks!IInv

(* load_json_file: the document of the file, or nothing, and then it is noted. *)
LEMMA MarksLoads ==
    ASSUME Marks!IInv, NEW root, Marks!Loads(root)
    PROVE  /\ root \in Seq(Marks!Entries) /\ Marks!OnceEach(root)
           /\ v6' \in 0..MaxFileFaults /\ v7' \in BOOLEAN
           /\ v7' \/ root = v1.entries
<1>1. /\ v1 \in Marks!Document /\ v1.whole /\ v7 \in BOOLEAN /\ v6 \in 0..MaxFileFaults
      /\ Marks!OnceEach(v1.entries) /\ v1.entries \in Seq(Marks!Entries)
  BY DEF Marks!IInv, Marks!TypeOK, Marks!OnDisk, Marks!OnceEach
<1>2. CASE root = v1.entries /\ v6' = v6 /\ v7' = v7
  BY <1>1, <1>2
<1>3. CASE Marks!Fault /\ root = <<>> /\ v7' = (v7 \/ v1.entries # <<>>)
  BY <1>1, <1>3, EmptyDocument, MarksFaults
<1> QED BY <1>1, <1>2, <1>3 DEF Marks!Loads

(* What a step that leaves the file has to keep. *)
LEMMA MarksStep ==
    ASSUME Marks!IInv, v1' = v1, v2' \in Marks!Document, v3' \in Marks!Calls,
           v4' \in 0..MaxEdits, v5' \in 0..MaxEdits, v6' \in 0..MaxFileFaults, v7' \in BOOLEAN,
           v3'.at \in {"sync", "replace"} => v2'.entries = v3'.root /\ v2'.whole,
           v3'.at = "replace" => v2'.synced,
           Marks!InHand'
    PROVE  Marks!IInv' /\ Marks!GoneIsRemoved
<1>1. Marks!TypeOK'
  BY DEF Marks!IInv, Marks!TypeOK, Marks!Calls, Marks!Document
<1>2. Marks!OnDisk'
  BY DEF Marks!IInv, Marks!OnDisk
<1>3. Marks!GoneIsRemoved
  BY InRange DEF Marks!GoneIsRemoved
<1> QED BY <1>1, <1>2, <1>3 DEF Marks!IInv

(* A method that has changed the document goes on to write it. *)
LEMMA MarksPersist ==
    ASSUME Marks!IInv, Marks!Enter, UNCHANGED <<v1, v2, v4>>,
           NEW root \in Seq(Marks!Entries), NEW removes \in Seq(Marks!Entries),
           Marks!Persist(root, removes), Marks!OnceEach(root),
           v6' \in 0..MaxFileFaults, v7' \in BOOLEAN,
           v7' \/ \A i \in DOMAIN v1.entries :
                      \/ \E k \in DOMAIN root : root[k] = v1.entries[i]
                      \/ \E k \in DOMAIN removes : removes[k] = v1.entries[i]
    PROVE  Marks!IInv' /\ Marks!GoneIsRemoved
<1>1. v3' = [at |-> "open", root |-> root, removes |-> removes]
  BY DEF Marks!Persist
<1>2. v3' \in Marks!Calls /\ v3'.at = "open" /\ v3'.root = root /\ v3'.removes = removes
  BY <1>1 DEF Marks!Calls
<1>3. v5' \in 0..MaxEdits
  <2>1. PICK n \in 0..MaxEdits : n = v5
    BY DEF Marks!IInv, Marks!TypeOK
  <2>2. n < MaxEdits /\ v5' = n + 1
    BY <2>1 DEF Marks!Enter
  <2> QED BY <2>1, <2>2, MarksConstants
<1>4. v7' \/ Marks!Kept'
  BY <1>2, InRange DEF Marks!Kept
<1>5. Marks!InHand'
  BY <1>2, <1>4 DEF Marks!InHand
<1>6. v2' \in Marks!Document /\ v4' \in 0..MaxEdits
  BY DEF Marks!IInv, Marks!TypeOK
<1> QED BY <1>2, <1>3, <1>5, <1>6, MarksStep

(* find_bookmark_index_by_field: no index, no entry. *)
LEMMA NotFoundAnywhere ==
    ASSUME NEW root \in Seq(Marks!Entries), NEW url, Marks!IndexOf(root, "url", url) = {}
    PROVE  \A k \in DOMAIN root : root[k].url # url
<1> DEFINE Fails == {n \in 0..Len(root) : \E k \in 1..n : root[k].url = url}
<1>1. Len(root) \in Nat /\ DOMAIN root = 1..Len(root)
  OBVIOUS
<1>2. ASSUME NEW n \in Fails PROVE n # 0 /\ n - 1 \in Fails
  <2>1. n \in 1..Len(root)
    BY <1>1
  <2>2. PICK k \in 1..n : root[k].url = url
    OBVIOUS
  <2>3. CASE \E m \in 1..(n - 1) : root[m].url = url
    BY <1>1, <2>1, <2>3
  <2>4. CASE \A m \in 1..(n - 1) : root[m].url # url
    <3>1. k = n
      BY <2>1, <2>2, <2>4
    <3>2. n \in Marks!IndexOf(root, "url", url)
      BY <1>1, <2>1, <2>2, <2>4, <3>1 DEF Marks!IndexOf
    <3> QED BY <3>2
  <2> QED BY <2>3, <2>4
<1>3. Fails \in SUBSET (0..Len(root))
  OBVIOUS
<1> HIDE DEF Fails
<1>4. Fails = {}
  BY <1>1, <1>2, <1>3, NoFirstFailure
<1>5. Len(root) \notin Fails
  BY <1>4
<1> QED BY <1>1, <1>5 DEF Fails

(* A document without one of its entries. *)
LEMMA WithoutIs ==
    ASSUME NEW root \in Seq(Marks!Entries), Marks!OnceEach(root), NEW i \in DOMAIN root,
           NEW r, r = Marks!Without(root, i)
    PROVE  /\ r \in Seq(Marks!Entries) /\ Marks!OnceEach(r)
           /\ \A m \in DOMAIN root : m = i \/ \E k \in DOMAIN r : r[k] = root[m]
<1>1. Len(root) \in Nat /\ DOMAIN root = 1..Len(root) /\ i \in 1..Len(root)
  OBVIOUS
<1>2. r = WithoutOne(root, i)
  BY DEF Marks!Without, WithoutOne
<1>3. /\ r \in Seq(Marks!Entries) /\ Len(r) = Len(root) - 1
      /\ \A j \in 1..(Len(root) - 1) : r[j] = IF j < i THEN root[j] ELSE root[j + 1]
  BY <1>1, <1>2, WithoutOneIs
<1>4. DOMAIN r = 1..(Len(root) - 1)
  BY <1>3
<1>5. Marks!OnceEach(r)
  <2>1. ASSUME NEW a \in 1..(Len(root) - 1), NEW b \in 1..(Len(root) - 1), r[a].url = r[b].url
        PROVE  a = b
    <3>1. PICK c \in 1..Len(root) : c = (IF a < i THEN a ELSE a + 1) /\ r[a] = root[c]
      BY <1>1, <1>3
    <3>2. PICK d \in 1..Len(root) : d = (IF b < i THEN b ELSE b + 1) /\ r[b] = root[d]
      BY <1>1, <1>3
    <3>3. c = d
      BY <1>1, <2>1, <3>1, <3>2 DEF Marks!OnceEach
    <3> QED BY <1>1, <3>1, <3>2, <3>3
  <2> QED BY <1>4, <2>1 DEF Marks!OnceEach
<1>6. ASSUME NEW m \in 1..Len(root), m # i PROVE \E k \in 1..(Len(root) - 1) : r[k] = root[m]
  <2>1. CASE m < i
    BY <1>1, <1>3, <2>1
  <2>2. CASE m > i
    <3>1. m - 1 \in 1..(Len(root) - 1) /\ ~(m - 1 < i) /\ (m - 1) + 1 = m
      BY <1>1, <2>2
    <3> QED BY <1>3, <3>1
  <2> QED BY <1>1, <1>6, <2>1, <2>2
<1> QED BY <1>1, <1>3, <1>4, <1>5, <1>6

LEMMA MarksAdd == ASSUME Marks!IInv, NEW url \in Urls, Marks!Add(url)
                  PROVE  Marks!IInv' /\ Marks!GoneIsRemoved
<1>1. Marks!Enter /\ UNCHANGED <<v1, v2, v4>>
  BY DEF Marks!Add
<1>2. PICK root : /\ Marks!Loads(root)
                  /\ IF Marks!IndexOf(root, "url", url) # {}
                     THEN Marks!Persist(root, <<>>)
                     ELSE Marks!Persist(Append(root, [id |-> v4, url |-> url]), <<>>)
  BY DEF Marks!Add
<1>3. /\ root \in Seq(Marks!Entries) /\ Marks!OnceEach(root)
      /\ v6' \in 0..MaxFileFaults /\ v7' \in BOOLEAN /\ (v7' \/ root = v1.entries)
  BY <1>2, MarksLoads
<1>4. PICK none \in Seq(Marks!Entries) : none = <<>>
  BY EmptyDocument
<1>5. CASE Marks!Persist(root, none)
  <2>1. v7' \/ \A i \in DOMAIN v1.entries :
                    \/ \E k \in DOMAIN root : root[k] = v1.entries[i]
                    \/ \E k \in DOMAIN none : none[k] = v1.entries[i]
    BY <1>3
  <2> QED BY <1>1, <1>3, <1>5, <2>1, MarksPersist
<1>6. CASE Marks!IndexOf(root, "url", url) = {}
           /\ Marks!Persist(Append(root, [id |-> v4, url |-> url]), none)
  <2>1. PICK e \in Marks!Entries : e = [id |-> v4, url |-> url] /\ e.url = url
    <3>1. PICK now \in 0..MaxEdits : now = v4
      BY DEF Marks!IInv, Marks!TypeOK
    <3>2. [id |-> now, url |-> url] \in Marks!Entries /\ [id |-> now, url |-> url].url = url
      BY DEF Marks!Entries
    <3> QED BY <3>1, <3>2, Zenon
  <2>2. PICK r : r = Append(root, e)
    OBVIOUS
  <2>3. /\ r \in Seq(Marks!Entries) /\ Len(r) = Len(root) + 1
        /\ \A i \in 1..Len(root) : r[i] = root[i]
        /\ r[Len(root) + 1] = e
    BY <1>3, <2>1, <2>2
  <2>4. DOMAIN r = 1..(Len(root) + 1) /\ DOMAIN root = 1..Len(root) /\ Len(root) \in Nat
    BY <1>3, <2>3
  <2>5. \A k \in 1..Len(root) : root[k].url # url
    BY <1>3, <1>6, <2>4, NotFoundAnywhere
  <2>6. Marks!OnceEach(r)
    <3>1. ASSUME NEW a \in 1..(Len(root) + 1), NEW b \in 1..(Len(root) + 1), r[a].url = r[b].url
          PROVE  a = b
      <4>1. CASE a \in 1..Len(root) /\ b \in 1..Len(root)
        BY <1>3, <2>3, <2>4, <3>1, <4>1 DEF Marks!OnceEach
      <4>2. CASE a = Len(root) + 1 /\ b \in 1..Len(root)
        BY <2>1, <2>3, <2>5, <3>1, <4>2
      <4>3. CASE b = Len(root) + 1 /\ a \in 1..Len(root)
        BY <2>1, <2>3, <2>5, <3>1, <4>3
      <4>4. CASE a = Len(root) + 1 /\ b = Len(root) + 1
        BY <4>4
      <4> QED BY <2>4, <4>1, <4>2, <4>3, <4>4
    <3> QED BY <2>4, <3>1 DEF Marks!OnceEach
  <2>7. v7' \/ \A i \in DOMAIN v1.entries :
                    \/ \E k \in DOMAIN r : r[k] = v1.entries[i]
                    \/ \E k \in DOMAIN none : none[k] = v1.entries[i]
    <3>1. CASE root = v1.entries
      <4>1. \A i \in DOMAIN root : i \in DOMAIN r /\ r[i] = root[i]
        BY <2>3, <2>4
      <4> QED BY <3>1, <4>1
    <3> QED BY <1>3, <3>1
  <2>8. Marks!Persist(r, none)
    BY <1>6, <2>1, <2>2
  <2> QED BY <1>1, <1>3, <2>3, <2>6, <2>7, <2>8, MarksPersist
<1> QED BY <1>2, <1>4, <1>5, <1>6

LEMMA MarksDelete == ASSUME Marks!IInv, NEW field, NEW value, Marks!Delete(field, value)
                     PROVE  Marks!IInv' /\ Marks!GoneIsRemoved
<1>1. Marks!Enter /\ UNCHANGED <<v1, v2, v4>>
  BY DEF Marks!Delete
<1>2. PICK root : /\ Marks!Loads(root)
                  /\ \/ Marks!IndexOf(root, field, value) = {} /\ Marks!Return
                     \/ \E i \in Marks!IndexOf(root, field, value) :
                            Marks!Persist(Marks!Without(root, i), <<root[i]>>)
  BY DEF Marks!Delete
<1>3. /\ root \in Seq(Marks!Entries) /\ Marks!OnceEach(root)
      /\ v6' \in 0..MaxFileFaults /\ v7' \in BOOLEAN /\ (v7' \/ root = v1.entries)
  BY <1>2, MarksLoads
<1>4. CASE Marks!Return
  <2>1. PICK s : s = <<>>
    OBVIOUS
  <2>2. s \in Seq(Marks!Entries)
    BY <2>1, EmptyDocument
  <2>3. v3' = [at |-> "idle", root |-> s, removes |-> s]
    BY <1>4, <2>1 DEF Marks!Return, Marks!Idle
  <2>4. v3' \in Marks!Calls /\ v3'.at = "idle"
    BY <2>2, <2>3 DEF Marks!Calls
  <2>5. v5' \in 0..MaxEdits
    <3>1. PICK n \in 0..MaxEdits : n = v5
      BY DEF Marks!IInv, Marks!TypeOK
    <3>2. n < MaxEdits /\ v5' = n + 1
      BY <1>1, <3>1 DEF Marks!Enter
    <3> QED BY <3>1, <3>2, MarksConstants
  <2>6. Marks!InHand'
    BY <2>4 DEF Marks!InHand
  <2>7. v2' \in Marks!Document /\ v4' \in 0..MaxEdits
    BY <1>1 DEF Marks!IInv, Marks!TypeOK
  <2> QED BY <1>1, <1>3, <2>4, <2>5, <2>6, <2>7, MarksStep
<1>5. ASSUME NEW i \in Marks!IndexOf(root, field, value),
             Marks!Persist(Marks!Without(root, i), <<root[i]>>)
      PROVE  Marks!IInv' /\ Marks!GoneIsRemoved
  <2>1. i \in DOMAIN root /\ root[i] \in Marks!Entries
    BY <1>3, <1>5 DEF Marks!IndexOf
  <2>2. PICK r : r = Marks!Without(root, i)
    OBVIOUS
  <2>3. /\ r \in Seq(Marks!Entries) /\ Marks!OnceEach(r)
        /\ \A m \in DOMAIN root : m = i \/ \E k \in DOMAIN r : r[k] = root[m]
    BY <1>3, <2>1, <2>2, WithoutIs
  <2>4. PICK gone : gone = <<root[i]>>
    OBVIOUS
  <2>5. gone \in Seq(Marks!Entries) /\ 1 \in DOMAIN gone /\ gone[1] = root[i]
    BY <2>1, <2>4
  <2>6. v7' \/ \A m \in DOMAIN v1.entries :
                    \/ \E k \in DOMAIN r : r[k] = v1.entries[m]
                    \/ \E k \in DOMAIN gone : gone[k] = v1.entries[m]
    BY <1>3, <2>3, <2>5
  <2>7. Marks!Persist(r, gone)
    BY <1>5, <2>2, <2>4
  <2> QED BY <1>1, <1>3, <2>3, <2>5, <2>6, <2>7, MarksPersist
<1> QED BY <1>2, <1>4, <1>5

LEMMA MarksNextInv ==
    Marks!IInv /\ [Marks!Next]_(Marks!vars) => Marks!IInv' /\ [Marks!GoneIsRemoved]_(Marks!vars)
<1> SUFFICES ASSUME Marks!IInv, [Marks!Next]_(Marks!vars) PROVE Marks!IInv' /\ Marks!GoneIsRemoved
  OBVIOUS
<1> USE MarksConstants
<1>0. /\ v1 \in Marks!Document /\ v2 \in Marks!Document /\ v3 \in Marks!Calls /\ v7 \in BOOLEAN
      /\ v4 \in 0..MaxEdits /\ v5 \in 0..MaxEdits /\ v6 \in 0..MaxFileFaults
      /\ v1.whole /\ v1.synced
      /\ v3.at \in {"sync", "replace"} => v2.entries = v3.root /\ v2.whole
      /\ v3.at = "replace" => v2.synced
      /\ Marks!InHand
  BY DEF Marks!IInv, Marks!TypeOK, Marks!OnDisk
<1>1. PICK none : none = Marks!NoTmp
  OBVIOUS
<1>2. none \in Marks!Document
  BY <1>1, EmptyDocument DEF Marks!NoTmp, Marks!Document
<1>3. PICK idle : idle = Marks!Idle
  OBVIOUS
<1>4. idle \in Marks!Calls /\ idle.at = "idle"
  BY <1>3, EmptyDocument DEF Marks!Idle, Marks!Calls
(* A call that goes on: where it is, and nothing of what it is about. *)
<1>5. ASSUME NEW at \in {"write", "sync", "replace"}, v3.at # "idle", v3' = [v3 EXCEPT !.at = at],
             UNCHANGED <<v1, v4, v5, v6, v7>>, v2' \in Marks!Document,
             at \in {"sync", "replace"} => v2'.entries = v3.root /\ v2'.whole,
             at = "replace" => v2'.synced
      PROVE  Marks!IInv' /\ Marks!GoneIsRemoved
  <2>1. v3' \in Marks!Calls /\ v3'.at = at /\ v3'.root = v3.root /\ v3'.removes = v3.removes
    BY <1>0, <1>5 DEF Marks!Calls
  <2>2. Marks!InHand'
    BY <1>0, <1>5, <2>1, InRange DEF Marks!InHand, Marks!Kept
  <2> QED BY <1>0, <1>5, <2>1, <2>2, MarksStep
(* A call that is over, with the file as it was. *)
<1>6. ASSUME v1' = v1, v2' \in Marks!Document, Marks!Return, UNCHANGED <<v4, v5, v7>>,
             v6' \in 0..MaxFileFaults
      PROVE  Marks!IInv' /\ Marks!GoneIsRemoved
  <2>1. v3' = idle
    BY <1>3, <1>6 DEF Marks!Return
  <2>2. Marks!InHand'
    BY <1>4, <2>1 DEF Marks!InHand
  <2> QED BY <1>0, <1>4, <1>6, <2>1, <2>2, MarksStep
<1>7. CASE Marks!Open
  <2>1. v3.at = "open" /\ v2' = none /\ v3' = [v3 EXCEPT !.at = "write"] /\ UNCHANGED <<v1, v4, v5, v6, v7>>
    BY <1>1, <1>7 DEF Marks!Open
  <2> QED BY <1>2, <1>5, <2>1
<1>8. CASE Marks!Write
  <2>1. /\ v3.at = "write" /\ v2' = [entries |-> v3.root, whole |-> TRUE, synced |-> FALSE]
        /\ v3' = [v3 EXCEPT !.at = "sync"] /\ UNCHANGED <<v1, v4, v5, v6, v7>>
    BY <1>8 DEF Marks!Write
  <2>2. v2' \in Marks!Document /\ v2'.entries = v3.root /\ v2'.whole
    BY <1>0, <2>1 DEF Marks!Document, Marks!Calls
  <2> QED BY <1>5, <2>1, <2>2
<1>9. CASE Marks!Sync
  <2>1. /\ v3.at = "sync" /\ v2' = [v2 EXCEPT !.synced = TRUE]
        /\ v3' = [v3 EXCEPT !.at = "replace"] /\ UNCHANGED <<v1, v4, v5, v6, v7>>
    BY <1>9 DEF Marks!Sync, Marks!Synced
  <2>2. v2' \in Marks!Document /\ v2'.entries = v2.entries /\ v2'.whole = v2.whole /\ v2'.synced
    BY <1>0, <2>1 DEF Marks!Document
  <2> QED BY <1>0, <1>5, <2>1, <2>2
<1>10. CASE Marks!Replace
  <2>1. v3.at = "replace" /\ v1' = v2 /\ v2' = none /\ v3' = idle /\ UNCHANGED <<v4, v5, v6, v7>>
    BY <1>1, <1>3, <1>10 DEF Marks!Replace, Marks!Return
  <2>2. /\ v1'.entries = v3.root /\ v1'.whole /\ v1'.synced /\ v3.root \in Seq(Marks!Entries)
        /\ Marks!OnceEach(v3.root) /\ (v7 \/ Marks!Kept)
    BY <1>0, <2>1 DEF Marks!InHand, Marks!Calls
  <2>3. Marks!TypeOK'
    <3>1. v1'.entries \in Seq(Marks!Entries) /\ Marks!OnceEach(v1'.entries)
      BY <2>2
    <3>2. v3'.root \in Seq(Marks!Entries) /\ v3'.at = "idle"
      BY <1>4, <2>1 DEF Marks!Calls
    <3> QED BY <1>0, <2>1, <3>1, <3>2 DEF Marks!TypeOK, Marks!OnceEach
  <2>4. Marks!OnDisk' /\ Marks!InHand'
    BY <1>4, <2>1, <2>2 DEF Marks!OnDisk, Marks!InHand
  <2>5. Marks!GoneIsRemoved
    BY <2>2 DEF Marks!GoneIsRemoved, Marks!Kept
  <2> QED BY <1>0, <1>2, <1>4, <2>1, <2>3, <2>4, <2>5 DEF Marks!IInv
<1>11. CASE Marks!Fails
  <2>1. v1' = v1 /\ v2' = none /\ Marks!Return /\ UNCHANGED <<v4, v5, v7>> /\ v6' \in 0..MaxFileFaults
    BY <1>1, <1>11, MarksFaults DEF Marks!Fails
  <2> QED BY <1>2, <1>6, <2>1
<1>12. CASE Marks!Die
  <2>1. Marks!Return /\ UNCHANGED <<v4, v5, v7>> /\ v6' \in 0..MaxFileFaults
    BY <1>12, MarksFaults DEF Marks!Die
  <2>2. v1' = v1 /\ (v2' = v2 \/ v2' = none)
    BY <1>0, <1>1, <1>12 DEF Marks!Die
  <2> QED BY <1>0, <1>2, <1>6, <2>1, <2>2
<1>13. CASE Marks!Tick
  <2>1. v4 < MaxEdits /\ v4' = v4 + 1 /\ UNCHANGED <<v1, v2, v3, v5, v6, v7>>
    BY <1>13 DEF Marks!Tick
  <2>2. v4' \in 0..MaxEdits
    <3>1. PICK n \in 0..MaxEdits : n = v4
      BY <1>0
    <3> QED BY <2>1, <3>1
  <2>3. Marks!InHand'
    BY <1>0, <2>1 DEF Marks!InHand, Marks!Kept
  <2> QED BY <1>0, <2>1, <2>2, <2>3, MarksStep
<1>14. CASE UNCHANGED Marks!vars
  <2>1. UNCHANGED <<v1, v2, v3, v4, v5, v6, v7>>
    BY <1>14 DEF Marks!vars
  <2>2. Marks!InHand'
    BY <1>0, <2>1 DEF Marks!InHand, Marks!Kept
  <2> QED BY <1>0, <2>1, <2>2, MarksStep
<1> QED BY <1>7, <1>8, <1>9, <1>10, <1>11, <1>12, <1>13, <1>14, MarksAdd, MarksDelete DEF Marks!Next

LEMMA MarksShows == Marks!IInv => Marks!TypeOK /\ Marks!AlwaysWhole
BY DEF Marks!IInv, Marks!OnDisk, Marks!AlwaysWhole

-----------------------------------------------------------------------------
(* Lists of pieces: what the loop over the lines of a playlist makes of them. *)

LEMMA ListLine ==
    ASSUME NEW l \in List!Line
    PROVE  /\ l.is \in {"sequence", "key", "piece", "variant"}
           /\ l.is = "sequence" => l.n \in Nat
           /\ l.is = "key" => /\ l.method \in List!Attributes /\ l.key \in List!Attributes
                              /\ l.iv \in Nat \cup {List!NoVector}
           /\ l.is = "piece" => l.n \in Nat /\ l.n # List!Wrong /\ l = [is |-> "piece", n |-> l.n]
           /\ l.is = "variant" => l.bandwidth \in Nat /\ l.address \in DOMAIN Text
BY DEF List!Line

ParseState == [sequence : Nat, method : List!Attributes, key : List!Attributes,
               iv : Nat \cup {List!NoVector}, list : Seq(List!Item)]
ParseStart == [sequence |-> 0, method |-> "none", key |-> "none", iv |-> List!NoVector,
               list |-> <<>>]

(* The item that a line with a piece adds. *)
NextItem(p, l) ==
    [piece |-> l.n, encrypted |-> p.method = "AES-128", key |-> p.key,
     iv |-> IF p.iv # List!NoVector THEN p.iv ELSE p.sequence + Len(p.list)]

LEMMA ListParseStep ==
    ASSUME NEW p \in ParseState, NEW l \in List!Line, NEW q, q = List!ParseLine(p, l)
    PROVE  /\ q \in ParseState
           /\ q.sequence = IF l.is = "sequence" THEN l.n ELSE p.sequence
           /\ l.is = "key" => q.method = l.method /\ q.key = l.key /\ q.iv = l.iv
           /\ l.is # "key" => q.method = p.method /\ q.key = p.key /\ q.iv = p.iv
           /\ l.is = "piece" => NextItem(p, l) \in List!Item /\ q.list = Append(p.list, NextItem(p, l))
           /\ l.is # "piece" => q.list = p.list
<1>1. /\ l.is \in {"sequence", "key", "piece", "variant"}
      /\ l.is = "sequence" => l.n \in Nat
      /\ l.is = "key" => /\ l.method \in List!Attributes /\ l.key \in List!Attributes
                         /\ l.iv \in Nat \cup {List!NoVector}
      /\ l.is = "piece" => l.n \in Nat
  BY ListLine
<1>2. /\ p.sequence \in Nat /\ p.method \in List!Attributes /\ p.key \in List!Attributes
      /\ p.iv \in Nat \cup {List!NoVector} /\ p.list \in Seq(List!Item) /\ Len(p.list) \in Nat
  BY LenProperties DEF ParseState
<1>3. CASE l.is = "sequence"
  <2>1. q = [p EXCEPT !.sequence = l.n]
    BY <1>3 DEF List!ParseLine
  <2> QED BY <1>1, <1>3, <2>1 DEF ParseState
<1>4. CASE l.is = "key"
  <2>1. q = [p EXCEPT !.method = l.method, !.key = l.key, !.iv = l.iv]
    BY <1>4 DEF List!ParseLine
  <2> QED BY <1>1, <1>4, <2>1 DEF ParseState
<1>5. CASE l.is = "piece"
  <2>1. q = [p EXCEPT !.list = Append(@, NextItem(p, l))]
    BY <1>5 DEF List!ParseLine, NextItem, List!Derived
  <2>2. PICK x : x = NextItem(p, l)
    OBVIOUS
  <2>3. p.sequence + Len(p.list) \in Nat
    BY <1>2
  <2>4. x \in List!Item
    <3>1. PICK iv \in Nat \cup {List!NoVector} :
             iv = IF p.iv # List!NoVector THEN p.iv ELSE p.sequence + Len(p.list)
      BY <1>2, <2>3
    <3>2. PICK e \in BOOLEAN : e = (p.method = "AES-128")
      OBVIOUS
    <3>3. x = [piece |-> l.n, encrypted |-> e, key |-> p.key, iv |-> iv]
      BY <2>2, <3>1, <3>2, Zenon DEF NextItem
    <3> QED BY <1>1, <1>2, <1>5, <3>3 DEF List!Item
  <2>5. Append(p.list, x) \in Seq(List!Item)
    BY <1>2, <2>4, AppendProperties
  <2> QED BY <1>5, <2>1, <2>2, <2>4, <2>5 DEF ParseState
<1>6. CASE l.is = "variant"
  <2>1. q = p
    BY <1>6 DEF List!ParseLine
  <2> QED BY <1>6, <2>1
<1> QED BY <1>1, <1>3, <1>4, <1>5, <1>6

(* hls_parse_media_playlist reads the lines one by one. *)
LEMMA ListParsed ==
    ASSUME NEW lines \in Seq(List!Line)
    PROVE  \E p \in [0..Len(lines) -> ParseState] :
              /\ p[0] = ParseStart
              /\ \A n \in 1..Len(lines) : p[n] = List!ParseLine(p[n - 1], lines[n])
              /\ List!Parse(lines) = p[Len(lines)].list
<1> DEFINE Value(f, n) == IF n = 0 THEN ParseStart ELSE List!ParseLine(f[n - 1], lines[n])
           Round(f) == [n \in 0..Len(lines) |-> Value(f, n)]
           parsed == CHOOSE f : f = Round(f)
           F == [n \in 1..Len(lines) |-> [p \in ParseState |-> List!ParseLine(p, lines[n])]]
<1>1. List!Parse(lines) = parsed[Len(lines)].list
  BY DEF List!Parse, ParseStart, List!None
<1>2. /\ Len(lines) \in Nat /\ \A n \in 1..Len(lines) : lines[n] \in List!Line
      /\ \A n \in 0..Len(lines) : n = 0 \/ (n \in 1..Len(lines) /\ n - 1 \in 0..Len(lines))
      /\ \A n \in 1..Len(lines) : n \in 0..Len(lines) /\ n # 0 /\ n - 1 \in 0..Len(lines)
      /\ 0 \in 0..Len(lines)
  OBVIOUS
<1>3. ParseStart \in ParseState
  <2>1. <<>> \in Seq(List!Item)
    OBVIOUS
  <2>3. "none" \in List!Attributes
    BY DEF List!Attributes, List!None
  <2>2. List!NoVector \in Nat \cup {List!NoVector} /\ 0 \in Nat
    OBVIOUS
  <2> QED BY <2>1, <2>2, <2>3 DEF ParseStart, ParseState
<1>4. F \in [1..Len(lines) -> [ParseState -> ParseState]]
  BY <1>2, ListParseStep
<1>5. PICK g : IsLoop(g, Len(lines), ParseState, ParseStart, F)
  <2> HIDE DEF F
  <2> QED BY <1>2, <1>3, <1>4, LoopExists
<1>6. g \in [0..Len(lines) -> ParseState] /\ \A n \in 0..Len(lines) : g[n] = Value(g, n)
  <2>1. /\ g \in [0..Len(lines) -> ParseState] /\ g[0] = ParseStart
        /\ \A n \in 1..Len(lines) : g[n] = F[n][g[n - 1]]
    <3> HIDE DEF F
    <3> QED BY <1>5 DEF IsLoop
  <2>2. ASSUME NEW n \in 1..Len(lines) PROVE g[n] = List!ParseLine(g[n - 1], lines[n])
    BY <1>2, <2>1
  <2> QED BY <1>2, <2>1, <2>2
<1>7. g = Round(g)
  <2> HIDE DEF Value
  <2> QED BY <1>6
<1>8. parsed = Round(parsed)
  <2> HIDE DEF Round
  <2> QED BY <1>7, Zenon
<1> HIDE DEF parsed
<1>9. \A n \in 0..Len(lines) : parsed[n] = Value(parsed, n)
  <2> HIDE DEF Value
  <2> QED BY <1>8
<1>10. \A n \in 0..Len(lines) : parsed[n] = g[n]
  <2> DEFINE Fails == {n \in 0..Len(lines) : parsed[n] # g[n]}
  <2>1. ASSUME NEW n \in Fails PROVE n # 0 /\ n - 1 \in Fails
    <3>1. n # 0
      BY <1>2, <1>6, <1>9
    <3>2. n \in 1..Len(lines) /\ n - 1 \in 0..Len(lines)
      BY <1>2, <3>1
    <3>3. parsed[n] = List!ParseLine(parsed[n - 1], lines[n]) /\ g[n] = List!ParseLine(g[n - 1], lines[n])
      BY <1>2, <1>6, <1>9, <3>1
    <3> QED BY <3>1, <3>2, <3>3
  <2>2. Fails \in SUBSET (0..Len(lines))
    OBVIOUS
  <2>3. Fails = {}
    <3> HIDE DEF Fails
    <3> QED BY <1>2, <2>1, <2>2, NoFirstFailure
  <2> QED BY <2>3
<1>11. parsed[Len(lines)] = g[Len(lines)]
  BY <1>2, <1>10
<1>12. \A n \in 1..Len(lines) : g[n] = List!ParseLine(g[n - 1], lines[n])
  BY <1>2, <1>6
<1>13. g[0] = ParseStart
  BY <1>2, <1>6
<1> HIDE DEF F
<1> QED BY <1>1, <1>6, <1>11, <1>12, <1>13

(* And so does what counts its pieces. *)
LEMMA ListPieces ==
    ASSUME NEW lines \in Seq(List!Line)
    PROVE  \E p \in [0..Len(lines) -> Seq(Nat)] :
              /\ p[0] = <<>>
              /\ \A n \in 1..Len(lines) :
                    p[n] = IF lines[n].is = "piece" THEN Append(p[n - 1], lines[n].n) ELSE p[n - 1]
              /\ List!Pieces(lines) = p[Len(lines)]
<1> DEFINE Next1(l, s) == IF l.is = "piece" THEN Append(s, l.n) ELSE s
           Value(f, n) == IF n = 0 THEN <<>> ELSE Next1(lines[n], f[n - 1])
           Round(f) == [n \in 0..Len(lines) |-> Value(f, n)]
           front == CHOOSE f : f = Round(f)
           F == [n \in 1..Len(lines) |-> [s \in Seq(Nat) |-> Next1(lines[n], s)]]
<1>1. List!Pieces(lines) = front[Len(lines)]
  BY DEF List!Pieces
<1>2. /\ Len(lines) \in Nat /\ \A n \in 1..Len(lines) : lines[n] \in List!Line
      /\ \A n \in 0..Len(lines) : n = 0 \/ (n \in 1..Len(lines) /\ n - 1 \in 0..Len(lines))
      /\ \A n \in 1..Len(lines) : n \in 0..Len(lines) /\ n # 0 /\ n - 1 \in 0..Len(lines)
      /\ 0 \in 0..Len(lines)
  OBVIOUS
<1>3. <<>> \in Seq(Nat)
  OBVIOUS
<1>4. F \in [1..Len(lines) -> [Seq(Nat) -> Seq(Nat)]]
  <2>1. ASSUME NEW n \in 1..Len(lines), NEW s \in Seq(Nat) PROVE Next1(lines[n], s) \in Seq(Nat)
    BY <1>2, ListLine, AppendProperties
  <2> HIDE DEF Next1
  <2> QED BY <2>1
<1>5. PICK g : IsLoop(g, Len(lines), Seq(Nat), <<>>, F)
  <2> HIDE DEF F
  <2> QED BY <1>2, <1>3, <1>4, LoopExists
<1> HIDE DEF Next1
<1>6. g \in [0..Len(lines) -> Seq(Nat)] /\ \A n \in 0..Len(lines) : g[n] = Value(g, n)
  <2>1. /\ g \in [0..Len(lines) -> Seq(Nat)] /\ g[0] = <<>>
        /\ \A n \in 1..Len(lines) : g[n] = F[n][g[n - 1]]
    <3> HIDE DEF F
    <3> QED BY <1>5 DEF IsLoop
  <2>2. ASSUME NEW n \in 1..Len(lines) PROVE g[n] = Next1(lines[n], g[n - 1])
    BY <1>2, <2>1
  <2> QED BY <1>2, <2>1, <2>2
<1>7. g = Round(g)
  <2> HIDE DEF Value
  <2> QED BY <1>6
<1>8. front = Round(front)
  <2> HIDE DEF Round
  <2> QED BY <1>7, Zenon
<1> HIDE DEF front
<1>9. \A n \in 0..Len(lines) : front[n] = Value(front, n)
  <2> HIDE DEF Value
  <2> QED BY <1>8
<1>10. \A n \in 0..Len(lines) : front[n] = g[n]
  <2> DEFINE Fails == {n \in 0..Len(lines) : front[n] # g[n]}
  <2>1. ASSUME NEW n \in Fails PROVE n # 0 /\ n - 1 \in Fails
    <3>1. n # 0
      BY <1>2, <1>6, <1>9
    <3>2. n \in 1..Len(lines) /\ n - 1 \in 0..Len(lines)
      BY <1>2, <3>1
    <3>3. front[n] = Next1(lines[n], front[n - 1]) /\ g[n] = Next1(lines[n], g[n - 1])
      BY <1>2, <1>6, <1>9, <3>1
    <3> QED BY <3>1, <3>2, <3>3
  <2>2. Fails \in SUBSET (0..Len(lines))
    OBVIOUS
  <2>3. Fails = {}
    <3> HIDE DEF Fails
    <3> QED BY <1>2, <2>1, <2>2, NoFirstFailure
  <2> QED BY <2>3
<1>11. front[Len(lines)] = g[Len(lines)]
  BY <1>2, <1>10
<1>12. \A n \in 1..Len(lines) : g[n] = Next1(lines[n], g[n - 1])
  BY <1>2, <1>6
<1>13. g[0] = <<>>
  BY <1>2, <1>6
<1> HIDE DEF F
<1> QED BY <1>1, <1>6, <1>11, <1>12, <1>13 DEF Next1

-----------------------------------------------------------------------------
(* What the standard says of a line, and that the loop finds the same. *)

(* The lines of a kind before line i. *)
LinesOf(lines, is, i) == {j \in 1..(i - 1) : lines[j].is = is}
FirstNumber(lines, i) ==
    IF LinesOf(lines, "sequence", i) = {} THEN 0
    ELSE lines[List!Max(LinesOf(lines, "sequence", i))].n
LastKey(lines, i) == lines[List!Max(LinesOf(lines, "key", i))]

(* The item is what the standard makes of the line of its piece. *)
IsPlain(lines, item) ==
    \E i \in DOMAIN lines :
        /\ lines[i].is = "piece" /\ lines[i].n = item.piece
        /\ item.encrypted <=> List!Sealed(lines, i)
        /\ item.encrypted => item.iv = List!Vector(lines, i) /\ item.key = LastKey(lines, i).key

LEMMA ListCardinality == \A S : List!Cardinality(S) = Cardinality(S)
BY DEF List!IsFiniteSet, IsFiniteSet, List!Cardinality, Cardinality

LEMMA ListMaxIsLast ==
    ASSUME NEW n \in Nat, NEW S \in SUBSET (1..(n - 1))
    PROVE  List!Max(S \cup {n}) = n
<1>1. \A y \in S \cup {n} : n >= y
  OBVIOUS
<1>2. ASSUME NEW x \in S \cup {n}, \A y \in S \cup {n} : x >= y PROVE x = n
  <2>1. x >= n /\ x <= n /\ x \in Int
    BY <1>1, <1>2
  <2> QED BY <2>1
<1>3. n \in S \cup {n}
  OBVIOUS
<1> QED BY <1>1, <1>2, <1>3 DEF List!Max

LEMMA ListLinesGrow ==
    ASSUME NEW lines, NEW n \in Nat \ {0}, NEW is
    PROVE  /\ lines[n].is = is =>
                 /\ LinesOf(lines, is, n + 1) = LinesOf(lines, is, n) \cup {n}
                 /\ LinesOf(lines, is, n + 1) # {}
                 /\ List!Max(LinesOf(lines, is, n + 1)) = n
           /\ lines[n].is # is => LinesOf(lines, is, n + 1) = LinesOf(lines, is, n)
           /\ n \notin LinesOf(lines, is, n)
           /\ IsFiniteSet(LinesOf(lines, is, n))
<1> DEFINE S == LinesOf(lines, is, n)
           T == LinesOf(lines, is, n + 1)
<1>1. S \in SUBSET (1..(n - 1)) /\ n \notin 1..(n - 1)
  BY DEF LinesOf
<1>2. (n + 1) - 1 = n /\ \A j \in 1..n : j = n \/ j \in 1..(n - 1)
  OBVIOUS
<1>3. T = {j \in 1..n : lines[j].is = is}
  BY <1>2 DEF LinesOf
<1>4. lines[n].is = is => T = S \cup {n}
  BY <1>2, <1>3 DEF LinesOf
<1>5. lines[n].is # is => T = S
  BY <1>2, <1>3 DEF LinesOf
<1>6. IsFiniteSet(S)
  <2>1. IsFiniteSet(1..(n - 1))
    BY FS_Interval
  <2> QED BY <1>1, <2>1, FS_Subset
<1>7. List!Max(S \cup {n}) = n
  BY <1>1, ListMaxIsLast
<1> HIDE DEF S, T
<1>8. S \cup {n} # {}
  OBVIOUS
<1> QED BY <1>1, <1>4, <1>5, <1>6, <1>7, <1>8 DEF S, T

LEMMA ListKindsGrow ==
    ASSUME NEW lines, NEW n \in Nat \ {0}, NEW l, l = lines[n]
    PROVE  \A is \in {"sequence", "key", "piece"} :
              /\ l.is = is =>
                    /\ LinesOf(lines, is, n + 1) = LinesOf(lines, is, n) \cup {n}
                    /\ LinesOf(lines, is, n + 1) # {}
                    /\ List!Max(LinesOf(lines, is, n + 1)) = n
              /\ l.is # is => LinesOf(lines, is, n + 1) = LinesOf(lines, is, n)
              /\ n \notin LinesOf(lines, is, n)
              /\ IsFiniteSet(LinesOf(lines, is, n))
<1> TAKE is \in {"sequence", "key", "piece"}
<1>1. /\ lines[n].is = is =>
            /\ LinesOf(lines, is, n + 1) = LinesOf(lines, is, n) \cup {n}
            /\ LinesOf(lines, is, n + 1) # {}
            /\ List!Max(LinesOf(lines, is, n + 1)) = n
      /\ lines[n].is # is => LinesOf(lines, is, n + 1) = LinesOf(lines, is, n)
      /\ n \notin LinesOf(lines, is, n)
      /\ IsFiniteSet(LinesOf(lines, is, n))
  BY ListLinesGrow
<1>2. l.is = lines[n].is
  OBVIOUS
<1> QED BY <1>1, <1>2

LEMMA AppendFields ==
    ASSUME NEW S, NEW s \in Seq(S), NEW m \in Nat, m = Len(s), NEW e \in S, NEW t, t = Append(s, e)
    PROVE  Len(t) = m + 1 /\ t[m + 1] = e /\ \A k \in 1..m : t[k] = s[k]
BY AppendProperties

(* What the loop keeps is what the lines before the next one say. *)
IsFront(lines, i, q, s) ==
    /\ q.sequence = FirstNumber(lines, i)
    /\ LinesOf(lines, "key", i) = {} => q.method = "none"
    /\ LinesOf(lines, "key", i) # {} =>
          /\ q.method = LastKey(lines, i).method /\ q.key = LastKey(lines, i).key
          /\ q.iv = LastKey(lines, i).iv
    /\ Len(q.list) = List!PiecesBefore(lines, i) /\ Len(s) = Len(q.list)
    /\ \A k \in 1..Len(s) : /\ q.list[k].piece = s[k] /\ s[k] # List!Wrong
                            /\ IsPlain(lines, q.list[k])

LEMMA ListNextItem ==
    ASSUME NEW lines \in Seq(List!Line), NEW n \in 1..Len(lines), NEW q \in ParseState, NEW s,
           IsFront(lines, n, q, s), lines[n].is = "piece"
    PROVE  IsPlain(lines, NextItem(q, lines[n]))
<1>1. n \in DOMAIN lines
  OBVIOUS
<1>2. PICK x : x = NextItem(q, lines[n])
  OBVIOUS
<1>3. x.piece = lines[n].n /\ x.key = q.key
  BY <1>2 DEF NextItem
<1>4. x.encrypted <=> q.method = "AES-128"
  BY <1>2 DEF NextItem
<1>5. x.iv = IF q.iv # List!NoVector THEN q.iv ELSE q.sequence + Len(q.list)
  BY <1>2 DEF NextItem
<1>6. List!KeyLines(lines, n) = LinesOf(lines, "key", n)
  BY DEF List!KeyLines, LinesOf
<1>7. x.encrypted <=> List!Sealed(lines, n)
  <2>1. CASE LinesOf(lines, "key", n) = {}
    BY <1>4, <1>6, <2>1 DEF IsFront, List!Sealed
  <2>2. CASE LinesOf(lines, "key", n) # {}
    BY <1>4, <1>6, <2>2 DEF IsFront, List!Sealed, LastKey
  <2> QED BY <2>1, <2>2
<1>8. ASSUME x.encrypted PROVE x.iv = List!Vector(lines, n) /\ x.key = LastKey(lines, n).key
  <2>1. LinesOf(lines, "key", n) # {}
    BY <1>4, <1>8 DEF IsFront
  <2>2. q.iv = LastKey(lines, n).iv /\ q.key = LastKey(lines, n).key
    BY <2>1 DEF IsFront
  <2>3. List!Vector(lines, n) = IF LastKey(lines, n).iv # List!NoVector THEN LastKey(lines, n).iv
                                ELSE FirstNumber(lines, n) + List!PiecesBefore(lines, n)
    BY <1>6 DEF List!Vector, LastKey, FirstNumber, LinesOf
  <2>4. q.sequence = FirstNumber(lines, n) /\ Len(q.list) = List!PiecesBefore(lines, n)
    BY DEF IsFront
  <2> QED BY <1>3, <1>5, <2>2, <2>3, <2>4
<1>9. IsPlain(lines, x)
  BY <1>1, <1>3, <1>7, <1>8 DEF IsPlain
<1> QED BY <1>2, <1>9

NextPieces(s, l) == IF l.is = "piece" THEN Append(s, l.n) ELSE s

LEMMA ListFrontGrows ==
    ASSUME NEW lines \in Seq(List!Line), NEW n \in 1..Len(lines),
           NEW q \in ParseState, NEW s \in Seq(Nat), IsFront(lines, n, q, s),
           NEW l \in List!Line, l = lines[n],
           NEW r, r = List!ParseLine(q, l), NEW t, t = NextPieces(s, l)
    PROVE  IsFront(lines, n + 1, r, t)
<1>1. lines[n] \in List!Line /\ n \in Nat \ {0}
  OBVIOUS
<1>3. /\ r.sequence = IF l.is = "sequence" THEN l.n ELSE q.sequence
      /\ l.is = "key" => r.method = l.method /\ r.key = l.key /\ r.iv = l.iv
      /\ l.is # "key" => r.method = q.method /\ r.key = q.key /\ r.iv = q.iv
      /\ l.is = "piece" => NextItem(q, l) \in List!Item /\ r.list = Append(q.list, NextItem(q, l))
      /\ l.is # "piece" => r.list = q.list
  BY ListParseStep
<1>10. \A is \in {"sequence", "key", "piece"} :
          /\ l.is = is =>
                /\ LinesOf(lines, is, n + 1) = LinesOf(lines, is, n) \cup {n}
                /\ LinesOf(lines, is, n + 1) # {}
                /\ List!Max(LinesOf(lines, is, n + 1)) = n
          /\ l.is # is => LinesOf(lines, is, n + 1) = LinesOf(lines, is, n)
          /\ n \notin LinesOf(lines, is, n)
          /\ IsFiniteSet(LinesOf(lines, is, n))
  BY <1>1, ListKindsGrow
<1>4. r.sequence = FirstNumber(lines, n + 1)
  <2>1. /\ l.is = "sequence" => LinesOf(lines, "sequence", n + 1) # {}
                                /\ List!Max(LinesOf(lines, "sequence", n + 1)) = n
        /\ l.is # "sequence" => LinesOf(lines, "sequence", n + 1) = LinesOf(lines, "sequence", n)
    BY <1>10
  <2>2. q.sequence = FirstNumber(lines, n)
    BY DEF IsFront
  <2> QED BY <1>3, <2>1, <2>2 DEF FirstNumber
<1>5. /\ LinesOf(lines, "key", n + 1) = {} => r.method = "none"
      /\ LinesOf(lines, "key", n + 1) # {} =>
            /\ r.method = LastKey(lines, n + 1).method /\ r.key = LastKey(lines, n + 1).key
            /\ r.iv = LastKey(lines, n + 1).iv
  <2>1. /\ l.is = "key" => LinesOf(lines, "key", n + 1) # {}
                           /\ List!Max(LinesOf(lines, "key", n + 1)) = n
        /\ l.is # "key" => LinesOf(lines, "key", n + 1) = LinesOf(lines, "key", n)
    BY <1>10
  <2>2. CASE l.is = "key"
    BY <1>3, <2>1, <2>2 DEF LastKey
  <2>3. CASE l.is # "key"
    BY <1>3, <2>1, <2>3 DEF LastKey, IsFront
  <2> QED BY <2>2, <2>3
<1>6. List!PiecesBefore(lines, n + 1) = IF l.is = "piece" THEN List!PiecesBefore(lines, n) + 1
                                        ELSE List!PiecesBefore(lines, n)
  <2>1. \A i : List!PiecesBefore(lines, i) = Cardinality(LinesOf(lines, "piece", i))
    BY ListCardinality DEF List!PiecesBefore, LinesOf
  <2>2. /\ l.is = "piece" =>
              LinesOf(lines, "piece", n + 1) = LinesOf(lines, "piece", n) \cup {n}
        /\ l.is # "piece" => LinesOf(lines, "piece", n + 1) = LinesOf(lines, "piece", n)
        /\ n \notin LinesOf(lines, "piece", n)
        /\ IsFiniteSet(LinesOf(lines, "piece", n))
    BY <1>10
  <2>3. Cardinality(LinesOf(lines, "piece", n) \cup {n}) = Cardinality(LinesOf(lines, "piece", n)) + 1
    BY <2>2, FS_AddElement
  <2> QED BY <2>1, <2>2, <2>3
<1>7. /\ q.list \in Seq(List!Item) /\ Len(q.list) = List!PiecesBefore(lines, n) /\ Len(s) = Len(q.list)
      /\ \A k \in 1..Len(s) : /\ q.list[k].piece = s[k] /\ s[k] # List!Wrong
                              /\ IsPlain(lines, q.list[k])
  BY DEF IsFront, ParseState
<1>8. CASE l.is = "piece"
  <2>1. PICK x \in List!Item : x = NextItem(q, l)
    BY <1>3, <1>8
  <2>2. IsPlain(lines, x)
    BY <1>8, <2>1, ListNextItem
  <2>3. x.piece = l.n /\ l.n # List!Wrong /\ l.n \in Nat
    BY <1>8, <2>1, ListLine DEF NextItem
  <2>4. PICK m \in Nat : m = Len(s) /\ m = Len(q.list)
    BY <1>7, LenProperties
  <2>5. /\ Len(r.list) = m + 1 /\ r.list[m + 1] = x
        /\ \A k \in 1..m : r.list[k] = q.list[k]
    <3>1. r.list = Append(q.list, x)
      BY <1>3, <1>8, <2>1
    <3> QED BY <1>7, <2>1, <2>4, <3>1, AppendFields
  <2>6. /\ Len(t) = m + 1 /\ t[m + 1] = l.n
        /\ \A k \in 1..m : t[k] = s[k]
    <3>1. t = Append(s, l.n)
      BY <1>8 DEF NextPieces
    <3>2. PICK e \in Nat : e = l.n
      BY <2>3
    <3>3. t = Append(s, e) /\ m = Len(s)
      BY <2>4, <3>1, <3>2
    <3>4. Len(t) = m + 1 /\ t[m + 1] = e /\ \A k \in 1..m : t[k] = s[k]
      <4>1. /\ Len(Append(s, e)) = Len(s) + 1 /\ Append(s, e)[Len(s) + 1] = e
            /\ \A k \in 1..Len(s) : Append(s, e)[k] = s[k]
        BY AppendProperties
      <4> QED BY <3>3, <4>1
    <3> QED BY <3>2, <3>4
  <2>7. \A k \in 1..Len(t) : k = m + 1 \/ k \in 1..m
    BY <2>4, <2>6
  <2>8. \A k \in 1..Len(t) : /\ r.list[k].piece = t[k] /\ t[k] # List!Wrong
                             /\ IsPlain(lines, r.list[k])
    <3> SUFFICES ASSUME NEW k \in 1..Len(t)
                 PROVE  /\ r.list[k].piece = t[k] /\ t[k] # List!Wrong
                        /\ IsPlain(lines, r.list[k])
      OBVIOUS
    <3>1. CASE k = m + 1
      BY <2>2, <2>3, <2>5, <2>6, <3>1
    <3>2. CASE k \in 1..m
      BY <1>7, <2>4, <2>5, <2>6, <3>2
    <3> QED BY <2>7, <3>1, <3>2
  <2>9. Len(r.list) = List!PiecesBefore(lines, n + 1) /\ Len(t) = Len(r.list)
    BY <1>6, <1>7, <1>8, <2>4, <2>5, <2>6
  <2> QED BY <1>4, <1>5, <2>8, <2>9 DEF IsFront
<1>9. CASE l.is # "piece"
  <2>1. r.list = q.list /\ t = s /\ List!PiecesBefore(lines, n + 1) = List!PiecesBefore(lines, n)
    BY <1>3, <1>6, <1>9 DEF NextPieces
  <2> QED BY <1>4, <1>5, <1>7, <2>1 DEF IsFront
<1> QED BY <1>8, <1>9

(* hls_parse_media_playlist gives every piece the key and the vector of the
   standard, in the order of the playlist. *)
LEMMA ListIsPlain ==
    ASSUME NEW lines \in Seq(List!Line)
    PROVE  /\ List!Parse(lines) \in Seq(List!Item) /\ List!Pieces(lines) \in Seq(Nat)
           /\ Len(List!Parse(lines)) = Len(List!Pieces(lines))
           /\ \A k \in 1..Len(List!Parse(lines)) :
                 /\ List!Parse(lines)[k].piece = List!Pieces(lines)[k]
                 /\ List!Pieces(lines)[k] # List!Wrong
                 /\ IsPlain(lines, List!Parse(lines)[k])
<1>1. PICK p \in [0..Len(lines) -> ParseState] :
              /\ p[0] = ParseStart
              /\ \A n \in 1..Len(lines) : p[n] = List!ParseLine(p[n - 1], lines[n])
              /\ List!Parse(lines) = p[Len(lines)].list
  BY ListParsed
<1>2. PICK s \in [0..Len(lines) -> Seq(Nat)] :
              /\ s[0] = <<>>
              /\ \A n \in 1..Len(lines) :
                    s[n] = IF lines[n].is = "piece" THEN Append(s[n - 1], lines[n].n) ELSE s[n - 1]
              /\ List!Pieces(lines) = s[Len(lines)]
  BY ListPieces
<1>3. PICK m \in Nat : m = Len(lines)
  BY LenProperties
<1> DEFINE Fails == {n \in 0..m : ~IsFront(lines, n + 1, p[n], s[n])}
<1>4. 0 \notin Fails
  <2>1. \A is : LinesOf(lines, is, 0 + 1) = {}
    BY DEF LinesOf
  <2>2. List!PiecesBefore(lines, 0 + 1) = 0
    BY <2>1, ListCardinality, FS_EmptySet DEF List!PiecesBefore, LinesOf
  <2>3. p[0] = ParseStart /\ s[0] = <<>>
    BY <1>1, <1>2
  <2>4. ParseStart.sequence = 0 /\ ParseStart.method = "none" /\ ParseStart.list = <<>>
    BY DEF ParseStart
  <2>5. Len(<<>>) = 0 /\ 1..0 = {}
    OBVIOUS
  <2> QED BY <2>1, <2>2, <2>3, <2>4, <2>5 DEF IsFront, FirstNumber
<1>5. ASSUME NEW n \in Fails PROVE n # 0 /\ n - 1 \in Fails
  <2>1. n \in 1..m /\ n - 1 \in 0..m /\ n \in 0..m /\ (n - 1) + 1 = n
    BY <1>4
  <2>2. p[n - 1] \in ParseState /\ s[n - 1] \in Seq(Nat)
    BY <1>1, <1>2, <1>3, <2>1
  <2>3. ASSUME IsFront(lines, n, p[n - 1], s[n - 1]) PROVE IsFront(lines, n + 1, p[n], s[n])
    <3>1. PICK l \in List!Line : l = lines[n]
      BY <1>3, <2>1
    <3>2. p[n] = List!ParseLine(p[n - 1], l) /\ s[n] = NextPieces(s[n - 1], l)
      BY <1>1, <1>2, <1>3, <2>1, <3>1 DEF NextPieces
    <3>3. n \in 1..Len(lines)
      BY <1>3, <2>1
    <3> QED BY <2>2, <2>3, <3>1, <3>2, <3>3, ListFrontGrows
  <2> QED BY <2>1, <2>3
<1>6. Fails = {}
  <2>1. Fails \in SUBSET (0..m)
    OBVIOUS
  <2> HIDE DEF Fails
  <2> QED BY <1>3, <1>5, <2>1, NoFirstFailure
<1>7. m \in 0..m
  BY <1>3
<1>8. IsFront(lines, m + 1, p[m], s[m]) /\ p[m] \in ParseState /\ s[m] \in Seq(Nat)
  BY <1>1, <1>2, <1>3, <1>6, <1>7
<1>9. p[m].list \in Seq(List!Item)
  BY <1>8 DEF ParseState
<1> QED BY <1>1, <1>2, <1>3, <1>8, <1>9 DEF IsFront

(* What the cipher makes of such an item is its piece, when no piece is twice
   in the playlist. *)
LEMMA ListPlain ==
    ASSUME NEW lines \in Seq(List!Line), NEW item, IsPlain(lines, item), v1 = "hls",
           \A i, k \in DOMAIN lines : lines[i].is = "piece" /\ lines[k] = lines[i] => k = i
    PROVE  List!Plain(item, lines) = item.piece
<1>1. PICK i \in DOMAIN lines :
        /\ lines[i].is = "piece" /\ lines[i].n = item.piece
        /\ item.encrypted <=> List!Sealed(lines, i)
        /\ item.encrypted => item.iv = List!Vector(lines, i) /\ item.key = LastKey(lines, i).key
  BY DEF IsPlain
<1> DEFINE Holds(k) == lines[k].is = "piece" /\ lines[k].n = item.piece
<1>2. ASSUME NEW k \in DOMAIN lines, Holds(k) PROVE k = i
  <2>1. lines[k] \in List!Line /\ lines[i] \in List!Line
    OBVIOUS
  <2>2. lines[k] = [is |-> "piece", n |-> item.piece]
    BY <1>2, <2>1, ListLine
  <2>3. lines[i] = [is |-> "piece", n |-> item.piece]
    BY <1>1, <2>1, ListLine
  <2> QED BY <1>1, <2>2, <2>3
<1>3. (CHOOSE k \in DOMAIN lines : lines[k].is = "piece" /\ lines[k].n = item.piece) = i
  BY <1>1, <1>2
<1>4. LastKey(lines, i) = lines[List!Max(List!KeyLines(lines, i))]
  BY DEF LastKey, LinesOf, List!KeyLines
<1> HIDE DEF Holds
<1> QED BY <1>1, <1>3, <1>4 DEF List!Plain

-----------------------------------------------------------------------------
(* The playlists of the instance, and the list of the page. *)

LEMMA BestExists ==
    ASSUME NEW m \in Nat, NEW S \in SUBSET (1..m), S # {}, NEW b \in [1..m -> Int]
    PROVE  \E i \in S : \A k \in S : b[i] >= b[k]
<1> DEFINE Best(n) == \E i \in S : i <= n /\ \A k \in S : k <= n => b[i] >= b[k]
           Fails == {n \in 0..m : (\E i \in S : i <= n) /\ ~Best(n)}
<1>1. \A k \in S : k \in 1..m /\ b[k] \in Int
  OBVIOUS
<1>2. ASSUME NEW n \in Fails PROVE n # 0 /\ n - 1 \in Fails
  <2>1. PICK i \in S : i <= n
    OBVIOUS
  <2>2. n \in 1..m /\ n - 1 \in 0..m
    BY <1>1, <2>1
  <2>3. n # 0
    BY <2>2
  <2>4. CASE n \notin S
    <3>1. \A k \in S : k <= n <=> k <= n - 1
      <4> SUFFICES ASSUME NEW k \in S PROVE k <= n <=> k <= n - 1
        OBVIOUS
      <4>1. k # n
        BY <2>4
      <4>2. k \in Int /\ n \in Int
        BY <1>1, <2>2
      <4> HIDE DEF Fails, Best
      <4> QED BY <4>1, <4>2
    <3> QED BY <2>1, <2>2, <2>3, <3>1
  <2>5. CASE n \in S
    <3>1. ASSUME ~\E k \in S : k <= n - 1 PROVE FALSE
      <4>1. \A k \in S : k <= n => k = n
        BY <1>1, <2>2, <3>1
      <4>2. b[n] >= b[n] /\ n <= n
        BY <1>1, <2>5
      <4> QED BY <2>5, <4>1, <4>2
    <3>2. ASSUME Best(n - 1) PROVE FALSE
      <4>1. PICK k \in S : k <= n - 1 /\ \A l \in S : l <= n - 1 => b[k] >= b[l]
        BY <3>2
      <4>2. \A l \in S : l <= n => l = n \/ l <= n - 1
        BY <1>1, <2>2
      <4>3. CASE b[n] >= b[k]
        <5>1. \A l \in S : l <= n => b[n] >= b[l]
          <6> SUFFICES ASSUME NEW l \in S, l <= n PROVE b[n] >= b[l]
            OBVIOUS
          <6>1. b[n] \in Int /\ b[k] \in Int /\ b[l] \in Int
            BY <1>1, <2>5
          <6>2. l = n \/ b[k] >= b[l]
            BY <4>1, <4>2
          <6> HIDE DEF Fails, Best
          <6>3. CASE l = n
            BY <6>1, <6>3
          <6>4. CASE b[k] >= b[l]
            BY <4>3, <6>1, <6>4
          <6> QED BY <6>2, <6>3, <6>4
        <5> QED BY <1>1, <2>5, <5>1
      <4>4. CASE ~(b[n] >= b[k])
        <5>1. b[k] >= b[n] /\ k <= n
          BY <1>1, <2>5, <4>1, <4>4
        <5>2. \A l \in S : l <= n => b[k] >= b[l]
          BY <4>1, <4>2, <5>1
        <5> QED BY <5>1, <5>2
      <4> QED BY <4>3, <4>4
    <3> QED BY <2>2, <2>3, <3>1, <3>2
  <2> QED BY <2>4, <2>5
<1>3. Fails = {}
  <2>1. Fails \in SUBSET (0..m)
    OBVIOUS
  <2> HIDE DEF Fails
  <2> QED BY <1>2, <2>1, NoFirstFailure
<1>4. Best(m)
  <2> HIDE DEF Best
  <2>3. PICK i \in S : TRUE
    OBVIOUS
  <2>4. i \in 1..m /\ m \in 0..m
    OBVIOUS
  <2>1. m \in 0..m /\ \E k \in S : k <= m
    BY <2>3, <2>4
  <2>2. m \notin Fails
    BY <1>3
  <2> QED BY <2>1, <2>2
<1> QED BY <1>1, <1>4

LEMMA ListMaxIs ==
    ASSUME NEW S, \E x \in S : \A y \in S : x >= y
    PROVE  List!Max(S) \in S
BY Zenon DEF List!Max

LEMMA ListVariant ==
    ASSUME NEW lines \in Seq(List!Line), List!IsMaster(lines)
    PROVE  List!PickVariant(lines) \in DOMAIN Text
<1>1. PICK m \in Nat : m = Len(lines)
  BY LenProperties
<1>2. PICK V : V = List!Variants(lines)
  OBVIOUS
<1>3. V \in SUBSET (1..m) /\ V # {} /\ \A i \in V : lines[i].is = "variant"
  BY <1>1, <1>2 DEF List!IsMaster, List!Variants
<1>4. \A i \in V : lines[i].bandwidth \in Nat /\ lines[i].address \in DOMAIN Text
  <2> SUFFICES ASSUME NEW i \in V
               PROVE  lines[i].bandwidth \in Nat /\ lines[i].address \in DOMAIN Text
    OBVIOUS
  <2>1. lines[i] \in List!Line /\ lines[i].is = "variant"
    BY <1>1, <1>3
  <2> QED BY <2>1, ListLine
<1>5. PICK b \in [1..m -> Int] : \A i \in V : b[i] = lines[i].bandwidth
  <2> DEFINE f == [i \in 1..m |-> IF i \in V THEN lines[i].bandwidth ELSE 0]
  <2>1. f \in [1..m -> Int]
    BY <1>4
  <2>2. \A i \in V : f[i] = lines[i].bandwidth
    BY <1>3
  <2> HIDE DEF f
  <2> QED BY <2>1, <2>2
<1>6. PICK i \in V : \A k \in V : b[i] >= b[k]
  BY <1>3, BestExists
<1>7. PICK B : B = {lines[k].bandwidth : k \in V}
  OBVIOUS
<1>8. List!Max(B) \in B
  <2>1. lines[i].bandwidth \in B /\ \A y \in B : lines[i].bandwidth >= y
    BY <1>5, <1>6, <1>7
  <2> QED BY <2>1, ListMaxIs
<1>9. PICK M : M = {k \in V : lines[k].bandwidth = List!Max(B)}
  OBVIOUS
<1>10. M # {} /\ M \in SUBSET (1..m)
  BY <1>3, <1>7, <1>8, <1>9
<1>11. List!Max(M) \in M
  <2>1. [k \in 1..m |-> k] \in [1..m -> Int]
    OBVIOUS
  <2>2. \E x \in M : \A y \in M : [k \in 1..m |-> k][x] >= [k \in 1..m |-> k][y]
    BY <1>10, <2>1, BestExists
  <2>3. \E x \in M : \A y \in M : x >= y
    BY <1>10, <2>2
  <2> QED BY <2>3, ListMaxIs
<1>12. List!PickVariant(lines) = lines[List!Max(M)].address
  BY <1>2, <1>7, <1>9 DEF List!PickVariant
<1> QED BY <1>4, <1>9, <1>11, <1>12

LEMMA ListConstants ==
    /\ Root \in DOMAIN Text /\ List!None \notin DOMAIN Text
    /\ \A address \in DOMAIN Text :
          /\ Text[address] \in Seq(List!Line)
          /\ \A i, k \in DOMAIN Text[address] :
                Text[address][i].is = "piece" /\ Text[address][k] = Text[address][i] => k = i
    /\ PageList \in Seq(Nat) /\ PageList # <<>>
    /\ MaxFaults \in Nat
BY ConstantsAssumption DEF List!SegmentListAssumption

LEMMA ListMedia ==
    /\ List!IsMaster(Text[Root]) => List!PickVariant(Text[Root]) \in DOMAIN Text
    /\ \E address \in DOMAIN Text : List!Media = Text[address]
BY ListConstants, ListVariant DEF List!Media

LEMMA ListGiven ==
    /\ List!GivenList \in Seq(List!Item)
    /\ Len(List!GivenList) = Len(PageList)
    /\ List!GivenList # <<>>
    /\ \A k \in 1..Len(PageList) : List!GivenList[k].piece = PageList[k] /\ ~List!GivenList[k].encrypted
<1>1. PICK m \in Nat : m = Len(PageList) /\ m # 0
  BY ListConstants, EmptySeq, LenProperties
<1>2. DOMAIN PageList = 1..m /\ \A k \in 1..m : PageList[k] \in Nat
  BY <1>1, ListConstants
<1>3. "none" \in List!Attributes
  BY DEF List!Attributes, List!None
<1>4. \A k \in 1..m : [piece |-> PageList[k], encrypted |-> FALSE, key |-> "none",
                       iv |-> List!NoVector] \in List!Item
  BY <1>2, <1>3 DEF List!Item
<1>5. List!GivenList = [k \in 1..m |-> [piece |-> PageList[k], encrypted |-> FALSE, key |-> "none",
                                        iv |-> List!NoVector]]
  BY <1>2 DEF List!GivenList, List!None
<1>6. List!GivenList \in Seq(List!Item) /\ Len(List!GivenList) = m
  BY <1>1, <1>4, <1>5
<1>7. List!GivenList # <<>>
  BY <1>1, <1>6
<1> QED BY <1>1, <1>5, <1>6, <1>7

(* The pieces of the whole, by the kind of the download. *)
WholeOf(kind) == IF kind = "ts-sequence" THEN PageList ELSE List!Pieces(List!Media)
ListOf(kind) == IF kind = "ts-sequence" THEN List!GivenList ELSE List!Parse(List!Media)

LEMMA ListWhole ==
    ASSUME v1 \in {"hls", "ts-sequence"}
    PROVE  /\ List!Whole = WholeOf(v1) /\ WholeOf(v1) \in Seq(Nat)
           /\ ListOf(v1) \in Seq(List!Item) /\ Len(ListOf(v1)) = Len(WholeOf(v1))
           /\ \A k \in 1..Len(ListOf(v1)) :
                 /\ ListOf(v1)[k].piece = WholeOf(v1)[k]
                 /\ List!Plain(ListOf(v1)[k], List!Media) = WholeOf(v1)[k]
                 /\ ListOf(v1)[k].encrypted => v1 = "hls" /\ WholeOf(v1)[k] # List!Wrong
<1>1. List!Whole = WholeOf(v1)
  BY DEF List!Whole, WholeOf
<1>2. CASE v1 = "ts-sequence"
  <2>1. WholeOf(v1) = PageList /\ ListOf(v1) = List!GivenList
    BY <1>2 DEF WholeOf, ListOf
  <2>2. \A item : List!Plain(item, List!Media) = item.piece
    BY <1>2 DEF List!Plain
  <2> QED BY <1>1, <2>1, <2>2, ListConstants, ListGiven
<1>3. CASE v1 = "hls"
  <2>1. PICK lines : lines = List!Media
    OBVIOUS
  <2>2. /\ lines \in Seq(List!Line)
        /\ \A i, k \in DOMAIN lines : lines[i].is = "piece" /\ lines[k] = lines[i] => k = i
    BY <2>1, ListMedia, ListConstants
  <2>3. WholeOf(v1) = List!Pieces(lines) /\ ListOf(v1) = List!Parse(lines)
    BY <1>3, <2>1 DEF WholeOf, ListOf
  <2>4. /\ List!Parse(lines) \in Seq(List!Item) /\ List!Pieces(lines) \in Seq(Nat)
        /\ Len(List!Parse(lines)) = Len(List!Pieces(lines))
        /\ \A k \in 1..Len(List!Parse(lines)) :
              /\ List!Parse(lines)[k].piece = List!Pieces(lines)[k]
              /\ List!Pieces(lines)[k] # List!Wrong
              /\ IsPlain(lines, List!Parse(lines)[k])
    BY <2>2, ListIsPlain
  <2>5. \A item : IsPlain(lines, item) => List!Plain(item, lines) = item.piece
    BY <1>3, <2>2, ListPlain
  <2> QED BY <1>1, <1>3, <2>1, <2>3, <2>4, <2>5
<1> QED BY <1>2, <1>3

-----------------------------------------------------------------------------
(* The inductive invariant of the lists, job by job. *)

ListStages == {"idle", "playlist", "media", "open", "piece", "key", "finish", "ended"}
ListRecord == [at : ListStages, media : {List!None} \cup DOMAIN Text, list : Seq(List!Item),
               next : Nat \ {0}, file : {0} \cup List!Jobs, silent : BOOLEAN, body : Nat]

ListBusy(x) == x.at \notin {"idle", "ended"}
ListWriting(x) == x.at \in {"piece", "key", "finish"}
ListServer(x) == Text[IF x.media = List!None THEN Root ELSE x.media]

ListFits(x, kind) ==
    /\ x \in ListRecord
    /\ x.next \in 1..(Len(x.list) + 1)
    /\ x.silent => x.at \in {"playlist", "media", "piece", "key", "ended"}
    /\ x.at = "idle" => x = List!Idle
    /\ x.at \in {"playlist", "media"} => kind = "hls" /\ x.next = 1
    /\ x.at = "playlist" => x.media = List!None
    /\ x.at = "media" => x.media \in DOMAIN Text
    /\ x.at = "open" => x.next = 1 /\ x.list # <<>>
    /\ x.at \in {"piece", "key"} => x.next <= Len(x.list)
    /\ x.at = "key" => x.list[x.next].encrypted
    /\ x.at = "finish" => x.next = Len(x.list) + 1
    /\ ListWriting(x) => x.file \in List!Jobs

ListMeans(x, kind) ==
    /\ x.at = "media" => List!IsMaster(Text[Root]) /\ x.media = List!PickVariant(Text[Root])
    /\ x.at = "open" \/ ListWriting(x) =>
          /\ x.list = ListOf(kind)
          /\ kind = "hls" => ListServer(x) = List!Media
    /\ x.at = "key" => x.body = x.list[x.next].piece

ListFront(x, kind, temp, data, cut) ==
    ListWriting(x) =>
        /\ temp = x.file
        /\ ~cut => data[temp] = SubSeq(WholeOf(kind), 1, x.next - 1)

ListInv(kind, job, status, temp, dests, data, cut, overlapped, faults) ==
    /\ kind \in {"hls", "ts-sequence"}
    /\ job \in [List!Jobs -> ListRecord]
    /\ \A k \in List!Jobs : ListFits(job[k], kind)
    /\ job[1].at = "idle" => job[2].at = "idle"
    /\ status \in {"paused", "downloading", "failed", "completed"}
    /\ temp \in {0} \cup List!Jobs /\ dests \in SUBSET List!Jobs
    /\ data \in [List!Jobs -> Seq(Nat)]
    /\ cut \in BOOLEAN /\ overlapped \in BOOLEAN
    /\ faults \in 0..MaxFaults
    /\ ~overlapped => ~(ListBusy(job[1]) /\ ListBusy(job[2]))
    /\ ~cut => \A k \in List!Jobs : ListMeans(job[k], kind)
    /\ ~overlapped => /\ dests # {} => /\ status = "completed"
                                       /\ \A k \in List!Jobs : ~ListBusy(job[k])
                      /\ \A k \in List!Jobs : ListFront(job[k], kind, temp, data, cut)
    /\ ~cut /\ ~overlapped => \A f \in dests : data[f] = WholeOf(kind)

LEMMA ListInvIs == List!IInv <=> ListInv(v1, v2, v3, v4, v5, v6, v7, v8, v9)
<1>1. List!Jobs = {1, 2}
  BY DEF List!Jobs
<1>2. List!Whole = WholeOf(v1)
  BY DEF List!Whole, WholeOf
<1>3. ASSUME List!IInv PROVE ListInv(v1, v2, v3, v4, v5, v6, v7, v8, v9)
  <2>1. List!TypeOK /\ List!InTurn /\ List!ListIsMeant /\ List!FrontIsWritten /\ List!PiecesInOrder
    BY <1>3 DEF List!IInv
  <2>2. v2 \in [List!Jobs -> ListRecord]
    BY <2>1 DEF List!TypeOK, ListRecord, ListStages
  <2>3. \A k \in List!Jobs : ListFits(v2[k], v1)
    BY <2>1, <2>2 DEF List!TypeOK, List!InTurn, ListFits, ListWriting, List!Writes
  <2>4. v2[1].at = "idle" => v2[2].at = "idle"
    BY <2>1 DEF List!InTurn
  <2>5. /\ v1 \in {"hls", "ts-sequence"}
        /\ v3 \in {"paused", "downloading", "failed", "completed"}
        /\ v4 \in {0} \cup List!Jobs /\ v5 \in SUBSET List!Jobs
        /\ v6 \in [List!Jobs -> Seq(Nat)]
        /\ v9 \in 0..MaxFaults
    BY <2>1 DEF List!TypeOK
  <2>6. v7 \in BOOLEAN /\ v8 \in BOOLEAN
    BY <2>1 DEF List!TypeOK
  <2>7. ~v8 => ~(ListBusy(v2[1]) /\ ListBusy(v2[2]))
    BY <2>1 DEF List!InTurn, ListBusy, List!Runs
  <2>8. ~v7 => \A k \in List!Jobs : ListMeans(v2[k], v1)
    BY <2>1, <2>5 DEF List!ListIsMeant, ListMeans, ListWriting, List!Writes, ListOf, ListServer, List!Server
  <2>9. ~v8 => /\ v5 # {} => /\ v3 = "completed"
                             /\ \A k \in List!Jobs : ~ListBusy(v2[k])
               /\ \A k \in List!Jobs : ListFront(v2[k], v1, v4, v6, v7)
    BY <1>1, <1>2, <2>1 DEF List!FrontIsWritten, ListFront, ListBusy, List!Runs, ListWriting, List!Writes
  <2>10. ~v7 /\ ~v8 => \A f \in v5 : v6[f] = WholeOf(v1)
    BY <1>2, <2>1 DEF List!PiecesInOrder
  <2> QED BY <2>2, <2>3, <2>4, <2>5, <2>6, <2>7, <2>8, <2>9, <2>10 DEF ListInv
<1>4. ASSUME ListInv(v1, v2, v3, v4, v5, v6, v7, v8, v9) PROVE List!IInv
  <2>1. /\ v1 \in {"hls", "ts-sequence"}
        /\ v2 \in [List!Jobs -> ListRecord]
        /\ \A k \in List!Jobs : ListFits(v2[k], v1)
        /\ v2[1].at = "idle" => v2[2].at = "idle"
        /\ v3 \in {"paused", "downloading", "failed", "completed"}
        /\ v4 \in {0} \cup List!Jobs /\ v5 \in SUBSET List!Jobs
        /\ v6 \in [List!Jobs -> Seq(Nat)]
        /\ v7 \in BOOLEAN /\ v8 \in BOOLEAN
        /\ v9 \in 0..MaxFaults
    BY <1>4 DEF ListInv
  <2>2. /\ ~v8 => ~(ListBusy(v2[1]) /\ ListBusy(v2[2]))
        /\ ~v7 => \A k \in List!Jobs : ListMeans(v2[k], v1)
        /\ ~v8 => /\ v5 # {} => /\ v3 = "completed"
                                /\ \A k \in List!Jobs : ~ListBusy(v2[k])
                  /\ \A k \in List!Jobs : ListFront(v2[k], v1, v4, v6, v7)
        /\ ~v7 /\ ~v8 => \A f \in v5 : v6[f] = WholeOf(v1)
    BY <1>4 DEF ListInv
  <2>3. List!TypeOK
    BY <2>1 DEF List!TypeOK, ListRecord, ListStages, ListFits
  <2>4. List!InTurn
    BY <2>1, <2>2 DEF List!InTurn, ListFits, ListWriting, List!Writes, ListBusy, List!Runs
  <2>5. List!ListIsMeant
    BY <2>1, <2>2 DEF List!ListIsMeant, ListMeans, ListWriting, List!Writes, ListOf, ListServer, List!Server
  <2>6. List!FrontIsWritten
    BY <1>1, <1>2, <2>2 DEF List!FrontIsWritten, ListFront, ListBusy, List!Runs, ListWriting, List!Writes
  <2>7. List!PiecesInOrder
    BY <1>2, <2>2 DEF List!PiecesInOrder
  <2> QED BY <2>3, <2>4, <2>5, <2>6, <2>7 DEF List!IInv
<1> QED BY <1>3, <1>4

LEMMA ListInvNext ==
    ASSUME ListInv(v1', v2', v3', v4', v5', v6', v7', v8', v9')
    PROVE  List!IInv'
<1>1. /\ v1' \in {"hls", "ts-sequence"}
      /\ v2' \in [List!Jobs -> ListRecord]
      /\ \A k \in List!Jobs : ListFits(v2'[k], v1')
      /\ v2'[1].at = "idle" => v2'[2].at = "idle"
      /\ v3' \in {"paused", "downloading", "failed", "completed"}
      /\ v4' \in {0} \cup List!Jobs /\ v5' \in SUBSET List!Jobs
      /\ v6' \in [List!Jobs -> Seq(Nat)]
      /\ v7' \in BOOLEAN /\ v8' \in BOOLEAN
      /\ v9' \in 0..MaxFaults
  BY DEF ListInv
<1>2. /\ ~v8' => ~(ListBusy(v2'[1]) /\ ListBusy(v2'[2]))
      /\ ~v7' => \A k \in List!Jobs : ListMeans(v2'[k], v1')
      /\ ~v8' => /\ v5' # {} => /\ v3' = "completed"
                                /\ \A k \in List!Jobs : ~ListBusy(v2'[k])
                 /\ \A k \in List!Jobs : ListFront(v2'[k], v1', v4', v6', v7')
      /\ ~v7' /\ ~v8' => \A f \in v5' : v6'[f] = WholeOf(v1')
  BY DEF ListInv
<1>3. List!Whole' = WholeOf(v1')
  BY DEF List!Whole, WholeOf
<1>4. List!Jobs = {1, 2}
  BY DEF List!Jobs
<1>5. List!TypeOK'
  BY <1>1 DEF List!TypeOK, ListRecord, ListStages, ListFits
<1>6. List!InTurn'
  BY <1>1, <1>2 DEF List!InTurn, ListFits, ListWriting, List!Writes, ListBusy, List!Runs
<1>7. List!ListIsMeant'
  BY <1>1, <1>2 DEF List!ListIsMeant, ListMeans, ListWriting, List!Writes, ListOf, ListServer, List!Server
<1>8. List!FrontIsWritten'
  BY <1>2, <1>3, <1>4 DEF List!FrontIsWritten, ListFront, ListBusy, List!Runs, ListWriting, List!Writes
<1>9. List!PiecesInOrder'
  BY <1>2, <1>3 DEF List!PiecesInOrder
<1> QED BY <1>5, <1>6, <1>7, <1>8, <1>9 DEF List!IInv

(* A step of a job that writes nothing, and its end. *)
LEMMA ListMove ==
    ASSUME ListInv(v1, v2, v3, v4, v5, v6, v7, v8, v9), NEW j \in List!Jobs, ListBusy(v2[j]),
           NEW x, ListFits(x, v1), x.at # "idle",
           ListWriting(x) => ListWriting(v2[j]) /\ x.file = v2[j].file /\ x.next = v2[j].next,
           v2' = [v2 EXCEPT ![j] = x],
           v3' \in {"paused", "downloading", "failed", "completed"},
           v7' \in BOOLEAN, ~v7' => ~v7 /\ ListMeans(x, v1),
           v9' \in 0..MaxFaults,
           v1' = v1, v4' = v4, v5' = v5, v6' = v6, v8' = v8
    PROVE  List!IInv'
<1>1. /\ v1 \in {"hls", "ts-sequence"}
      /\ v2 \in [List!Jobs -> ListRecord]
      /\ \A k \in List!Jobs : ListFits(v2[k], v1)
      /\ v4 \in {0} \cup List!Jobs /\ v5 \in SUBSET List!Jobs
      /\ v6 \in [List!Jobs -> Seq(Nat)]
      /\ v7 \in BOOLEAN /\ v8 \in BOOLEAN
  BY DEF ListInv
<1>2. /\ v2[1].at = "idle" => v2[2].at = "idle"
      /\ ~v8 => ~(ListBusy(v2[1]) /\ ListBusy(v2[2]))
      /\ ~v7 => \A k \in List!Jobs : ListMeans(v2[k], v1)
      /\ ~v8 => /\ v5 # {} => \A k \in List!Jobs : ~ListBusy(v2[k])
                /\ \A k \in List!Jobs : ListFront(v2[k], v1, v4, v6, v7)
  BY DEF ListInv
<1>3. /\ v2' \in [List!Jobs -> ListRecord] /\ v2'[j] = x
      /\ \A k \in List!Jobs : k # j => v2'[k] = v2[k]
  <2>1. x \in ListRecord
    BY DEF ListFits
  <2> QED BY <1>1, <2>1
<1>4. 1 \in List!Jobs /\ 2 \in List!Jobs /\ \A k \in List!Jobs : k = 1 \/ k = 2
  BY DEF List!Jobs
<1>5. \A k \in List!Jobs : ListFits(v2'[k], v1)
  BY <1>1, <1>3
<1>6. v2'[1].at = "idle" => v2'[2].at = "idle"
  <2>1. v2[j].at # "idle"
    BY DEF ListBusy
  <2> QED BY <1>2, <1>3, <1>4, <2>1
<1>7. \A k \in List!Jobs : ListBusy(v2'[k]) => ListBusy(v2[k])
  BY <1>3
<1>8. ~v8 => ~(ListBusy(v2'[1]) /\ ListBusy(v2'[2])) /\ v5 = {}
  BY <1>2, <1>4, <1>7
<1>9. ~v7' => \A k \in List!Jobs : ListMeans(v2'[k], v1)
  BY <1>2, <1>3
<1>10. ~v8 => \A k \in List!Jobs : ListFront(v2'[k], v1, v4, v6, v7')
  <2> SUFFICES ASSUME ~v8, NEW k \in List!Jobs
               PROVE  ListFront(v2'[k], v1, v4, v6, v7')
    OBVIOUS
  <2>1. ListFront(v2[k], v1, v4, v6, v7)
    BY <1>2
  <2>2. CASE k = j
    BY <1>3, <2>1, <2>2 DEF ListFront
  <2>3. CASE k # j
    BY <1>3, <2>1, <2>3 DEF ListFront
  <2> QED BY <2>2, <2>3
<1>11. ~v8 => \A f \in v5 : v6[f] = WholeOf(v1)
  BY <1>8
<1>12. ListInv(v1', v2', v3', v4', v5', v6', v7', v8', v9')
  BY <1>1, <1>3, <1>5, <1>6, <1>8, <1>9, <1>10, <1>11 DEF ListInv
<1> QED BY <1>12, ListInvNext

(* One piece more in the file. *)
LEMMA PutNext ==
    ASSUME NEW W \in Seq(Nat), NEW m \in Nat \ {0}, m <= Len(W), NEW n \in Nat
    PROVE  /\ \A content \in Seq(Nat) : List!Put(content, m, n) \in Seq(Nat)
           /\ n = W[m] => List!Put(SubSeq(W, 1, m - 1), m, n) = SubSeq(W, 1, m)
<1>1. ASSUME NEW a \in Nat, NEW b \in Nat
      PROVE  List!Max({a, b}) \in Nat /\ List!Max({a, b}) >= b /\ (b <= a => List!Max({a, b}) = a)
  <2>1. \E x \in {a, b} : \A y \in {a, b} : x >= y
    <3>1. a >= b \/ b >= a
      OBVIOUS
    <3>2. a >= a /\ b >= b
      OBVIOUS
    <3> QED BY <3>1, <3>2
  <2>2. List!Max({a, b}) \in {a, b} /\ \A y \in {a, b} : List!Max({a, b}) >= y
    BY <2>1, Zenon DEF List!Max
  <2>3. PICK x \in Nat : x = List!Max({a, b})
    BY <2>2
  <2>4. x \in {a, b} /\ x >= a /\ x >= b
    BY <2>2, <2>3
  <2> QED BY <2>3, <2>4
<1>2. ASSUME NEW content \in Seq(Nat) PROVE List!Put(content, m, n) \in Seq(Nat)
  <2>1. PICK l \in Nat : l = Len(content)
    BY LenProperties
  <2>2. PICK x \in Nat : x = List!Max({m, Len(content)})
    BY <1>1, <2>1
  <2>3. \A i \in 1..x : (IF i = m THEN n ELSE IF i <= Len(content) THEN content[i] ELSE List!Wrong) \in Nat
    BY <2>1 DEF List!Wrong
  <2>4. List!Put(content, m, n) = [i \in 1..x |-> IF i = m THEN n ELSE IF i <= Len(content)
                                                  THEN content[i] ELSE List!Wrong]
    BY <2>2 DEF List!Put
  <2> QED BY <2>3, <2>4
<1>3. ASSUME n = W[m] PROVE List!Put(SubSeq(W, 1, m - 1), m, n) = SubSeq(W, 1, m)
  <2>1. PICK l \in Nat : l = Len(W) /\ m <= l
    BY LenProperties
  <2>2. \A i \in 1..l : W[i] \in Nat
    BY <2>1
  <2>3. PICK front : front = SubSeq(W, 1, m - 1)
    OBVIOUS
  <2>4. Len(front) = m - 1 /\ \A i \in 1..(m - 1) : front[i] = W[i]
    BY <2>1, <2>2, <2>3, SubSeqProperties
  <2>5. PICK whole : whole = SubSeq(W, 1, m)
    OBVIOUS
  <2>6. Len(whole) = m /\ whole \in Seq(Nat) /\ \A i \in 1..m : whole[i] = W[i]
    BY <2>1, <2>2, <2>5, SubSeqProperties
  <2>7. List!Max({m, m - 1}) = m
    BY <1>1
  <2>8. List!Put(front, m, n) = [i \in 1..m |-> IF i = m THEN n ELSE IF i <= m - 1
                                                THEN front[i] ELSE List!Wrong]
    BY <2>4, <2>7 DEF List!Put
  <2>9. \A i \in 1..m : (IF i = m THEN n ELSE IF i <= m - 1 THEN front[i] ELSE List!Wrong) = W[i]
    BY <1>3, <2>4
  <2>10. whole = [i \in 1..m |-> W[i]]
    BY <2>6
  <2>11. List!Put(front, m, n) = [i \in 1..m |-> W[i]]
    BY <2>8, <2>9
  <2> QED BY <2>3, <2>5, <2>10, <2>11
<1> QED BY <1>2, <1>3

(* hls_write_segment *)
LEMMA ListWrite ==
    ASSUME ListInv(v1, v2, v3, v4, v5, v6, v7, v8, v9), NEW j \in List!Jobs,
           NEW me, me = v2[j], me.at \in {"piece", "key"}, ~me.silent,
           NEW n \in Nat,
           v7' \in BOOLEAN, ~v7' => ~v7 /\ n = WholeOf(v1)[me.next],
           v9' \in 0..MaxFaults,
           WholeOf(v1) \in Seq(Nat), Len(ListOf(v1)) = Len(WholeOf(v1)),
           NEW x, x = [me EXCEPT !.next = @ + 1, !.at = IF me.next = Len(me.list) THEN "finish" ELSE "piece"],
           NEW content, content = List!Put(v6[me.file], me.next, n),
           v2' = [v2 EXCEPT ![j] = x], v6' = [v6 EXCEPT ![me.file] = content],
           v1' = v1, v3' = v3, v4' = v4, v5' = v5, v8' = v8
    PROVE  List!IInv'
<1>1. /\ v1 \in {"hls", "ts-sequence"}
      /\ v2 \in [List!Jobs -> ListRecord]
      /\ \A k \in List!Jobs : ListFits(v2[k], v1)
      /\ v3 \in {"paused", "downloading", "failed", "completed"}
      /\ v4 \in {0} \cup List!Jobs /\ v5 \in SUBSET List!Jobs
      /\ v6 \in [List!Jobs -> Seq(Nat)]
      /\ v7 \in BOOLEAN /\ v8 \in BOOLEAN
  BY DEF ListInv
<1>2. /\ v2[1].at = "idle" => v2[2].at = "idle"
      /\ ~v8 => ~(ListBusy(v2[1]) /\ ListBusy(v2[2]))
      /\ ~v7 => \A k \in List!Jobs : ListMeans(v2[k], v1)
      /\ ~v8 => /\ v5 # {} => \A k \in List!Jobs : ~ListBusy(v2[k])
                /\ \A k \in List!Jobs : ListFront(v2[k], v1, v4, v6, v7)
  BY DEF ListInv
<1>3. /\ me \in ListRecord /\ me.file \in List!Jobs /\ me.next <= Len(me.list)
      /\ me.next \in Nat \ {0} /\ Len(me.list) \in Nat
  <2>1. me \in ListRecord /\ me.file \in List!Jobs /\ me.next <= Len(me.list)
    BY <1>1 DEF ListFits, ListWriting
  <2>2. me.next \in Nat \ {0} /\ me.list \in Seq(List!Item)
    BY <2>1 DEF ListRecord
  <2> QED BY <2>1, <2>2, LenProperties
<1>4. /\ x \in ListRecord /\ x.next = me.next + 1 /\ x.list = me.list /\ x.media = me.media
      /\ x.file = me.file /\ x.silent = me.silent
      /\ x.at = IF me.next = Len(me.list) THEN "finish" ELSE "piece"
  <2>1. PICK at \in {"finish", "piece"} : at = IF me.next = Len(me.list) THEN "finish" ELSE "piece"
    OBVIOUS
  <2>2. PICK next \in Nat \ {0} : next = me.next + 1
    BY <1>3
  <2>3. x = [me EXCEPT !.next = next, !.at = at]
    BY <2>1, <2>2
  <2> QED BY <1>3, <2>1, <2>2, <2>3 DEF ListRecord, ListStages
<1>5. ListFits(x, v1) /\ ListWriting(x) /\ x.at # "idle"
  <2>1. x.at \in {"finish", "piece"}
    BY <1>4
  <2>2. x.next \in 1..(Len(x.list) + 1)
    BY <1>3, <1>4
  <2>3. x.at = "piece" => x.next <= Len(x.list)
    <3>1. x.at = "piece" => me.next # Len(me.list)
      BY <1>4
    <3> QED BY <1>3, <1>4, <3>1
  <2>4. x.at = "finish" => x.next = Len(x.list) + 1
    <3>1. x.at = "finish" => me.next = Len(me.list)
      BY <1>4
    <3> QED BY <1>4, <3>1
  <2> QED BY <1>3, <1>4, <2>1, <2>2, <2>3, <2>4 DEF ListFits, ListWriting
<1>6. /\ v2' \in [List!Jobs -> ListRecord] /\ v2'[j] = x
      /\ \A k \in List!Jobs : k # j => v2'[k] = v2[k]
  BY <1>1, <1>4
<1>7. 1 \in List!Jobs /\ 2 \in List!Jobs /\ \A k \in List!Jobs : k = 1 \/ k = 2
  BY DEF List!Jobs
<1>8. \A k \in List!Jobs : ListFits(v2'[k], v1)
  BY <1>1, <1>5, <1>6
<1>9. v2'[1].at = "idle" => v2'[2].at = "idle"
  <2>1. v2[j].at # "idle"
    OBVIOUS
  <2> QED BY <1>2, <1>5, <1>6, <1>7, <2>1
<1>10. ListBusy(v2[j]) /\ \A k \in List!Jobs : ListBusy(v2'[k]) => ListBusy(v2[k])
  <2>1. ListBusy(v2[j])
    BY DEF ListBusy
  <2> QED BY <1>6, <2>1
<1>11. ~v8 => ~(ListBusy(v2'[1]) /\ ListBusy(v2'[2])) /\ v5 = {}
  BY <1>2, <1>7, <1>10
<1>12. v6' \in [List!Jobs -> Seq(Nat)] /\ v6'[me.file] = content
       /\ \A k \in List!Jobs : k # me.file => v6'[k] = v6[k]
  <2>1. content \in Seq(Nat)
    <3>1. PICK m \in Nat \ {0} : m = me.next
      BY <1>3
    <3>2. PICK c \in Seq(Nat) : c = v6[me.file]
      BY <1>1, <1>3
    <3>3. List!Put(c, m, n) \in Seq(Nat)
      <4>1. m \in Nat /\ [i \in 1..m |-> 0] \in [1..m -> Nat]
        OBVIOUS
      <4>5. PICK F \in [1..m -> Nat] : TRUE
        BY <4>1
      <4>2. PICK W \in Seq(Nat) : Len(W) = m
        <5>1. F \in Seq(Nat) /\ Len(F) = m
          BY <4>1, FunctionIsSequence
        <5> QED BY <5>1
      <4>3. m <= Len(W)
        BY <4>2
      <4>4. \A d \in Seq(Nat) : List!Put(d, m, n) \in Seq(Nat)
        BY <4>2, <4>3, PutNext, Zenon
      <4> QED BY <4>4
    <3> QED BY <3>1, <3>2, <3>3
  <2> QED BY <1>1, <1>3, <2>1
<1>13. ~v7' => \A k \in List!Jobs : ListMeans(v2'[k], v1)
  <2>1. ASSUME ~v7' PROVE ListMeans(x, v1)
    <3>1. ListMeans(me, v1)
      BY <1>2, <2>1
    <3>2. ListWriting(me) /\ x.at # "media" /\ x.at # "key" /\ ListServer(x) = ListServer(me)
      BY <1>4 DEF ListWriting, ListServer
    <3> QED BY <1>4, <3>1, <3>2 DEF ListMeans
  <2> QED BY <1>2, <1>6, <2>1
<1>14. ~v8 => \A k \in List!Jobs : ListFront(v2'[k], v1, v4, v6', v7')
  <2> SUFFICES ASSUME ~v8, NEW k \in List!Jobs
               PROVE  ListFront(v2'[k], v1, v4, v6', v7')
    OBVIOUS
  <2>1. CASE k # j
    <3>1. ~ListBusy(v2[k])
      BY <1>2, <1>7, <1>10, <2>1
    <3>2. ~ListWriting(v2[k])
      BY <3>1 DEF ListWriting, ListBusy
    <3> QED BY <1>6, <2>1, <3>2 DEF ListFront
  <2>2. CASE k = j
    <3>1. ListFront(me, v1, v4, v6, v7) /\ ListWriting(me)
      <4>1. ListFront(v2[j], v1, v4, v6, v7)
        BY <1>2
      <4> QED BY <4>1 DEF ListWriting
    <3>2. v4 = me.file
      BY <3>1 DEF ListFront
    <3>3. ASSUME ~v7' PROVE content = SubSeq(WholeOf(v1), 1, me.next)
      <4>1. v6[me.file] = SubSeq(WholeOf(v1), 1, me.next - 1)
        BY <3>1, <3>2, <3>3 DEF ListFront
      <4>2. me.list = ListOf(v1)
        BY <1>2, <3>1, <3>3 DEF ListMeans
      <4>3. PICK m \in Nat \ {0} : m = me.next
        BY <1>3
      <4>4. m <= Len(WholeOf(v1)) /\ n = WholeOf(v1)[m]
        BY <1>3, <3>3, <4>2, <4>3
      <4>5. List!Put(SubSeq(WholeOf(v1), 1, m - 1), m, n) = SubSeq(WholeOf(v1), 1, m)
        BY <4>4, PutNext
      <4> QED BY <4>1, <4>3, <4>5
    <3>4. x.next - 1 = me.next
      BY <1>3, <1>4
    <3> QED BY <1>4, <1>6, <1>12, <2>2, <3>2, <3>3, <3>4 DEF ListFront
  <2> QED BY <2>1, <2>2
<1>15. ~v8 => \A f \in v5 : v6'[f] = WholeOf(v1)
  BY <1>11
<1>16. ~v8 => (v5 # {} => /\ v3 = "completed" /\ \A k \in List!Jobs : ~ListBusy(v2'[k]))
  BY <1>11
<1>17. ListInv(v1', v2', v3', v4', v5', v6', v7', v8', v9')
  BY <1>1, <1>6, <1>8, <1>9, <1>11, <1>12, <1>13, <1>14, <1>15, <1>16 DEF ListInv
<1> QED BY <1>17, ListInvNext

-----------------------------------------------------------------------------
(* The steps of the lists. *)

LEMMA ListInitInv == List!Init => List!IInv
<1> SUFFICES ASSUME List!Init PROVE List!IInv
  OBVIOUS
<1>1. List!Idle \in ListRecord
  BY DEF List!Idle, ListRecord, ListStages, List!Wrong
<1>2. ListFits(List!Idle, v1)
  <2>1. Len(<<>>) = 0
    OBVIOUS
  <2> QED BY <1>1, <2>1 DEF ListFits, List!Idle, ListWriting
<1>3. /\ v1 \in {"hls", "ts-sequence"} /\ v2 = [k \in List!Jobs |-> List!Idle]
      /\ v3 = "paused" /\ v4 = 0 /\ v5 = {} /\ v6 = [f \in List!Jobs |-> <<>>]
      /\ v7 = FALSE /\ v8 = FALSE /\ v9 = 0
  BY DEF List!Init
<1>4. List!Idle.at = "idle"
  BY DEF List!Idle
<1>5. /\ ~ListBusy(List!Idle) /\ ListMeans(List!Idle, v1)
      /\ ListFront(List!Idle, v1, v4, v6, v7)
  BY <1>4 DEF ListBusy, ListMeans, ListFront, ListWriting
<1>6. 1 \in List!Jobs /\ 2 \in List!Jobs
  BY DEF List!Jobs
<1>7. v6 \in [List!Jobs -> Seq(Nat)] /\ v9 \in 0..MaxFaults
  BY <1>3, ListConstants
<1>8. \A k \in List!Jobs : v2[k] = List!Idle
  BY <1>3
<1>9. v2 \in [List!Jobs -> ListRecord]
  BY <1>1, <1>3
<1>10. ListInv(v1, v2, v3, v4, v5, v6, v7, v8, v9)
  BY <1>2, <1>3, <1>4, <1>5, <1>6, <1>7, <1>8, <1>9 DEF ListInv
<1> QED BY <1>10, ListInvIs

(* What is true of the job that takes a step. *)
LEMMA ListJob ==
    ASSUME List!IInv, NEW j \in List!Jobs
    PROVE  /\ ListInv(v1, v2, v3, v4, v5, v6, v7, v8, v9)
           /\ v1 \in {"hls", "ts-sequence"}
           /\ v2 \in [List!Jobs -> ListRecord] /\ v2[j] \in ListRecord /\ ListFits(v2[j], v1)
           /\ v3 \in {"paused", "downloading", "failed", "completed"}
           /\ v7 \in BOOLEAN /\ v9 \in 0..MaxFaults
           /\ ~v7 => ListMeans(v2[j], v1)
BY ListInvIs DEF ListInv

LEMMA ListFaults ==
    ASSUME NEW f \in 0..MaxFaults, f = v9, List!Fault
    PROVE  v9' \in 0..MaxFaults
<1>1. f < MaxFaults /\ v9' = f + 1 /\ MaxFaults \in Nat
  BY ListConstants DEF List!Fault
<1> QED BY <1>1

(* Changes of the record of a job. *)
LEMMA ListSet ==
    ASSUME NEW job \in [List!Jobs -> ListRecord], NEW j \in List!Jobs
    PROVE  /\ [job EXCEPT ![j].at = "ended"] = [job EXCEPT ![j] = [job[j] EXCEPT !.at = "ended"]]
           /\ [job EXCEPT ![j].silent = TRUE] = [job EXCEPT ![j] = [job[j] EXCEPT !.silent = TRUE]]
OBVIOUS

LEMMA ListFails ==
    ASSUME List!IInv, NEW j \in List!Jobs, ListBusy(v2[j]), List!Failed(j),
           v7' \in BOOLEAN, ~v7' => ~v7, v9' \in 0..MaxFaults,
           v1' = v1, v4' = v4, v5' = v5, v6' = v6, v8' = v8
    PROVE  List!IInv'
<1>1. PICK x : x = [v2[j] EXCEPT !.at = "ended"]
  OBVIOUS
<1>2. v2[j] \in ListRecord /\ v2 \in [List!Jobs -> ListRecord] /\ ListFits(v2[j], v1)
      /\ ListInv(v1, v2, v3, v4, v5, v6, v7, v8, v9)
  BY ListJob
<1>3. v2' = [v2 EXCEPT ![j] = x] /\ v3' = "failed"
  BY <1>1, <1>2, ListSet DEF List!Failed
<1>4. /\ x \in ListRecord /\ x.at = "ended" /\ x.next = v2[j].next /\ x.list = v2[j].list
      /\ x.silent = v2[j].silent
  BY <1>1, <1>2 DEF ListRecord, ListStages
<1>5. ListFits(x, v1) /\ ~ListWriting(x) /\ ListMeans(x, v1)
  <2>1. ~ListWriting(x)
    BY <1>4 DEF ListWriting
  <2>2. ListMeans(x, v1)
    BY <1>4, <2>1 DEF ListMeans
  <2>3. x.next \in 1..(Len(x.list) + 1)
    BY <1>2, <1>4 DEF ListFits
  <2> QED BY <1>4, <2>1, <2>2, <2>3 DEF ListFits
<1> QED BY <1>2, <1>3, <1>4, <1>5, ListMove

LEMMA ListRefusedInv ==
    ASSUME List!IInv, NEW j \in List!Jobs, List!Refused(j) PROVE List!IInv'
<1>1. /\ List!Failed(j) /\ List!Fault /\ v1' = v1 /\ v4' = v4 /\ v5' = v5 /\ v6' = v6
      /\ v7' = v7 /\ v8' = v8
  BY DEF List!Refused
<1>2. ListBusy(v2[j])
  BY DEF List!Refused, List!Fetching, ListBusy
<1>3. v7 \in BOOLEAN /\ v9 \in 0..MaxFaults
  BY ListJob
<1>4. v9' \in 0..MaxFaults
  BY <1>1, <1>3, ListFaults
<1> QED BY <1>1, <1>2, <1>3, <1>4, ListFails

LEMMA ListExpireInv ==
    ASSUME List!IInv, NEW j \in List!Jobs, List!Expire(j) PROVE List!IInv'
<1>1. /\ List!Failed(j) /\ v1' = v1 /\ v4' = v4 /\ v5' = v5 /\ v6' = v6
      /\ v7' = v7 /\ v8' = v8 /\ v9' = v9 /\ v2[j].silent /\ v2[j].at # "ended"
  BY DEF List!Expire, List!TimeIsUp
<1>2. ListFits(v2[j], v1) /\ v7 \in BOOLEAN /\ v9 \in 0..MaxFaults
  BY ListJob
<1>3. ListBusy(v2[j])
  BY <1>1, <1>2 DEF ListFits, ListBusy
<1> QED BY <1>1, <1>2, <1>3, ListFails

LEMMA ListSilentInv ==
    ASSUME List!IInv, NEW j \in List!Jobs, List!Silent(j) PROVE List!IInv'
<1>1. PICK x : x = [v2[j] EXCEPT !.silent = TRUE]
  OBVIOUS
<1>2. v2[j] \in ListRecord /\ v2 \in [List!Jobs -> ListRecord] /\ ListFits(v2[j], v1)
      /\ ListInv(v1, v2, v3, v4, v5, v6, v7, v8, v9)
      /\ v3 \in {"paused", "downloading", "failed", "completed"}
      /\ v7 \in BOOLEAN /\ v9 \in 0..MaxFaults /\ (~v7 => ListMeans(v2[j], v1))
  BY ListJob
<1>3. /\ v2' = [v2 EXCEPT ![j].silent = TRUE]
      /\ v1' = v1 /\ v3' = v3 /\ v4' = v4 /\ v5' = v5 /\ v6' = v6 /\ v7' = v7 /\ v8' = v8
      /\ List!Fault /\ v2[j].at \in {"playlist", "media", "piece", "key"}
  BY DEF List!Silent, List!Fetching
<1>4. v2' = [v2 EXCEPT ![j] = x]
  BY <1>1, <1>2, <1>3, ListSet
<1>5. v9' \in 0..MaxFaults
  BY <1>2, <1>3, ListFaults
<1>6. /\ x \in ListRecord /\ x.at = v2[j].at /\ x.next = v2[j].next /\ x.list = v2[j].list
      /\ x.media = v2[j].media /\ x.file = v2[j].file /\ x.body = v2[j].body
  BY <1>1, <1>2 DEF ListRecord
<1>7. ListFits(x, v1)
  BY <1>2, <1>3, <1>6 DEF ListFits, ListWriting
<1>8. ~v7 => ListMeans(x, v1)
  <2>1. ListServer(x) = ListServer(v2[j])
    BY <1>6 DEF ListServer
  <2> QED BY <1>2, <1>6, <2>1 DEF ListMeans, ListWriting
<1>9. ListBusy(v2[j]) /\ x.at # "idle" /\ (ListWriting(x) => ListWriting(v2[j]))
  BY <1>3, <1>6 DEF ListBusy, ListWriting
<1> QED BY <1>2, <1>3, <1>4, <1>5, <1>6, <1>7, <1>8, <1>9, ListMove

LEMMA ListPauseInv == ASSUME List!IInv, List!Pause PROVE List!IInv'
<1>1. /\ v3 = "downloading" /\ v3' = "paused" /\ v1' = v1 /\ v2' = v2 /\ v4' = v4 /\ v5' = v5
      /\ v6' = v6 /\ v7' = v7 /\ v8' = v8 /\ v9' = v9
  BY DEF List!Pause
<1>2. ListInv(v1, v2, v3, v4, v5, v6, v7, v8, v9)
  BY ListInvIs
<1>3. ~v8 => v5 = {}
  BY <1>1, <1>2 DEF ListInv
<1>4. ListInv(v1, v2, "paused", v4, v5, v6, v7, v8, v9)
  BY <1>2, <1>3 DEF ListInv
<1> QED BY <1>1, <1>4, ListInvNext

LEMMA ListStartInv ==
    ASSUME List!IInv, NEW j \in List!Jobs, List!Start(j) PROVE List!IInv'
<1>1. /\ ListInv(v1, v2, v3, v4, v5, v6, v7, v8, v9)
      /\ v2 \in [List!Jobs -> ListRecord] /\ v2[j] \in ListRecord /\ ListFits(v2[j], v1)
      /\ v1 \in {"hls", "ts-sequence"}
  BY ListJob
<1>2. /\ v2[j].at = "idle" /\ v3 \in {"paused", "failed"}
      /\ j = 2 => v2[1].at # "idle"
      /\ v3' = "downloading"
      /\ v8' = (v8 \/ \E k \in List!Jobs : v2[k].at \notin {"idle", "ended"})
      /\ v1' = v1 /\ v4' = v4 /\ v5' = v5 /\ v6' = v6 /\ v7' = v7 /\ v9' = v9
  BY DEF List!Start
<1>3. PICK x : x = IF v1 = "hls" THEN [v2[j] EXCEPT !.at = "playlist"]
                   ELSE [v2[j] EXCEPT !.at = "open", !.list = List!GivenList]
  OBVIOUS
<1>4. v2' = [v2 EXCEPT ![j] = x]
  <2>1. IF v1 = "hls"
        THEN v2' = [v2 EXCEPT ![j].at = "playlist"]
        ELSE v2' = [v2 EXCEPT ![j].at = "open", ![j].list = List!GivenList]
    BY DEF List!Start
  <2> QED BY <1>1, <1>3, <2>1
<1>5. v2[j] = List!Idle
  BY <1>1, <1>2 DEF ListFits
<1>6. /\ v2[j].media = List!None /\ v2[j].next = 1 /\ v2[j].file = 0 /\ v2[j].silent = FALSE
      /\ v2[j].list = <<>>
  BY <1>5 DEF List!Idle
<1>7. /\ x \in ListRecord /\ x.next = 1 /\ x.silent = FALSE /\ x.media = List!None
      /\ v1 = "hls" => x.at = "playlist" /\ x.list = <<>>
      /\ v1 # "hls" => x.at = "open" /\ x.list = List!GivenList
  <2>1. CASE v1 = "hls"
    BY <1>1, <1>3, <1>6, <2>1 DEF ListRecord, ListStages
  <2>2. CASE v1 # "hls"
    BY <1>1, <1>3, <1>6, <2>2, ListGiven DEF ListRecord, ListStages
  <2> QED BY <2>1, <2>2
<1>8. ListFits(x, v1) /\ ~ListWriting(x) /\ ListMeans(x, v1) /\ x.at # "idle"
  <2>1. Len(x.list) \in Nat
    BY <1>7, LenProperties DEF ListRecord
  <2>2. CASE v1 = "hls"
    BY <1>7, <2>1, <2>2 DEF ListFits, ListWriting, ListMeans
  <2>3. CASE v1 # "hls"
    <3>1. x.list = ListOf(v1) /\ x.list # <<>>
      BY <1>1, <1>7, <2>3, ListGiven DEF ListOf
    <3> QED BY <1>7, <2>1, <2>3, <3>1 DEF ListFits, ListWriting, ListMeans
  <2> QED BY <2>2, <2>3
<1>9. /\ \A k \in List!Jobs : ListFits(v2[k], v1)
      /\ v2[1].at = "idle" => v2[2].at = "idle"
      /\ v4 \in {0} \cup List!Jobs /\ v5 \in SUBSET List!Jobs
      /\ v6 \in [List!Jobs -> Seq(Nat)]
      /\ v7 \in BOOLEAN /\ v8 \in BOOLEAN
      /\ v9 \in 0..MaxFaults
      /\ ~v7 => \A k \in List!Jobs : ListMeans(v2[k], v1)
      /\ ~v8 /\ v5 # {} => v3 = "completed"
  BY <1>1 DEF ListInv
<1>10. /\ v2' \in [List!Jobs -> ListRecord] /\ v2'[j] = x
       /\ \A k \in List!Jobs : k # j => v2'[k] = v2[k]
  BY <1>1, <1>4, <1>7
<1>11. 1 \in List!Jobs /\ 2 \in List!Jobs /\ \A k \in List!Jobs : k = 1 \/ k = 2
  BY DEF List!Jobs
<1>12. \A k \in List!Jobs : ListFits(v2'[k], v1)
  BY <1>8, <1>9, <1>10
<1>13. v2'[1].at = "idle" => v2'[2].at = "idle"
  BY <1>2, <1>8, <1>9, <1>10, <1>11
<1>14. v8' \in BOOLEAN /\ (~v8' => ~v8 /\ \A k \in List!Jobs : ~ListBusy(v2[k]))
  BY <1>2, <1>9 DEF ListBusy
<1>15. ~v8' => ~(ListBusy(v2'[1]) /\ ListBusy(v2'[2])) /\ v5 = {}
  <2> SUFFICES ASSUME ~v8' PROVE ~(ListBusy(v2'[1]) /\ ListBusy(v2'[2])) /\ v5 = {}
    OBVIOUS
  <2>1. v5 = {}
    BY <1>2, <1>9, <1>14
  <2>2. \A k \in List!Jobs : k # j => ~ListBusy(v2'[k])
    BY <1>10, <1>14
  <2> QED BY <1>11, <2>1, <2>2
<1>16. ~v7 => \A k \in List!Jobs : ListMeans(v2'[k], v1)
  BY <1>8, <1>9, <1>10
<1>17. ~v8' => \A k \in List!Jobs : ListFront(v2'[k], v1, v4, v6, v7)
  <2>1. ~v8' => \A k \in List!Jobs : ~ListWriting(v2'[k])
    <3>1. \A k \in List!Jobs : ListWriting(v2[k]) => ListBusy(v2[k])
      BY DEF ListWriting, ListBusy
    <3> QED BY <1>8, <1>10, <1>14, <3>1
  <2> QED BY <2>1 DEF ListFront
<1>18. v3' \in {"paused", "downloading", "failed", "completed"}
  BY <1>2
<1>19. ListInv(v1', v2', v3', v4', v5', v6', v7', v8', v9')
  BY <1>1, <1>2, <1>9, <1>10, <1>12, <1>13, <1>14, <1>15, <1>16, <1>17, <1>18 DEF ListInv
<1> QED BY <1>19, ListInvNext

(* The lines that an answer brings. *)
LEMMA ListLines ==
    ASSUME NEW address \in DOMAIN Text, NEW lines,
           \E n \in 1..Len(Text[address]) : lines = SubSeq(Text[address], 1, n),
           List!Lines(address, lines), v7 \in BOOLEAN, v9 \in 0..MaxFaults
    PROVE  /\ lines \in Seq(List!Line) /\ v7' \in BOOLEAN /\ v9' \in 0..MaxFaults
           /\ ~v7' => ~v7 /\ lines = Text[address]
<1>1. lines \in Seq(List!Line)
  <2>1. Text[address] \in Seq(List!Line)
    BY ListConstants
  <2>2. PICK n \in 1..Len(Text[address]) : lines = SubSeq(Text[address], 1, n)
    OBVIOUS
  <2>3. \A i \in 1..n : Text[address][i] \in List!Line
    BY <2>1
  <2>4. n \in Int /\ 1 \in Int
    BY <2>1
  <2> QED BY <2>2, <2>3, <2>4, SubSeqProperties
<1>2. CASE lines = Text[address] /\ v7' = v7 /\ v9' = v9
  BY <1>1, <1>2
<1>3. CASE v7' = TRUE /\ List!Fault
  <2>1. v9' \in 0..MaxFaults
    BY <1>3, ListFaults
  <2> QED BY <1>1, <1>3, <2>1
<1> QED BY <1>2, <1>3 DEF List!Lines

(* What a job makes of the lines of a media playlist. *)
LEMMA ListListed ==
    ASSUME List!IInv, NEW j \in List!Jobs, v2[j].at \in {"playlist", "media"}, ~v2[j].silent,
           NEW lines \in Seq(List!Line), List!Listed(j, lines),
           v7' \in BOOLEAN, v9' \in 0..MaxFaults,
           ~v7' => ~v7 /\ lines = List!Media /\ ListServer(v2[j]) = List!Media,
           v1' = v1, v4' = v4, v5' = v5, v6' = v6, v8' = v8
    PROVE  List!IInv'
<1>1. /\ ListInv(v1, v2, v3, v4, v5, v6, v7, v8, v9)
      /\ v2 \in [List!Jobs -> ListRecord] /\ v2[j] \in ListRecord /\ ListFits(v2[j], v1)
      /\ v1 \in {"hls", "ts-sequence"} /\ v3 \in {"paused", "downloading", "failed", "completed"}
  BY ListJob
<1>2. ListBusy(v2[j])
  BY DEF ListBusy
<1>3. CASE List!Parse(lines) = <<>>
  <2>1. List!Failed(j)
    BY <1>3 DEF List!Listed
  <2> QED BY <1>2, <2>1, ListFails
<1>4. CASE List!Parse(lines) # <<>>
  <2>1. PICK list : list = List!Parse(lines)
    OBVIOUS
  <2>2. list \in Seq(List!Item) /\ list # <<>> /\ Len(list) \in Nat
    BY <1>4, <2>1, ListIsPlain, LenProperties
  <2>3. PICK x : x = [v2[j] EXCEPT !.at = "open", !.list = list]
    OBVIOUS
  <2>4. v2' = [v2 EXCEPT ![j] = x] /\ v3' = v3
    <3>1. v2' = [v2 EXCEPT ![j].at = "open", ![j].list = list] /\ v3' = v3
      BY <1>4, <2>1 DEF List!Listed
    <3> QED BY <1>1, <2>3, <3>1
  <2>5. /\ x \in ListRecord /\ x.at = "open" /\ x.list = list /\ x.next = v2[j].next
        /\ x.silent = v2[j].silent /\ x.media = v2[j].media
    BY <1>1, <2>2, <2>3 DEF ListRecord, ListStages
  <2>6. v1 = "hls" /\ v2[j].next = 1
    BY <1>1 DEF ListFits
  <2>7. ListFits(x, v1) /\ ~ListWriting(x) /\ x.at # "idle"
    BY <2>2, <2>5, <2>6 DEF ListFits, ListWriting
  <2>8. ~v7' => ~v7 /\ ListMeans(x, v1)
    <3> SUFFICES ASSUME ~v7' PROVE ListMeans(x, v1)
      OBVIOUS
    <3>1. x.list = ListOf(v1)
      BY <2>1, <2>5, <2>6 DEF ListOf
    <3>2. ListServer(x) = List!Media
      BY <2>5 DEF ListServer
    <3> QED BY <2>5, <2>7, <3>1, <3>2 DEF ListMeans
  <2> QED BY <1>1, <1>2, <2>4, <2>7, <2>8, ListMove
<1> QED BY <1>3, <1>4

LEMMA ListPlaylistInv ==
    ASSUME List!IInv, NEW j \in List!Jobs, List!Playlist(j) PROVE List!IInv'
<1>1. PICK lines : /\ \E n \in 1..Len(Text[Root]) : lines = SubSeq(Text[Root], 1, n)
                   /\ List!Lines(Root, lines)
                   /\ IF List!IsMaster(lines)
                      THEN /\ v2' = [v2 EXCEPT ![j].at = "media", ![j].media = List!PickVariant(lines)]
                           /\ v3' = v3
                      ELSE List!Listed(j, lines)
  BY DEF List!Playlist
<1>2. /\ v2[j].at = "playlist" /\ ~v2[j].silent
      /\ v1' = v1 /\ v4' = v4 /\ v5' = v5 /\ v6' = v6 /\ v8' = v8
  BY DEF List!Playlist, List!Fetching
<1>3. /\ ListInv(v1, v2, v3, v4, v5, v6, v7, v8, v9)
      /\ v2 \in [List!Jobs -> ListRecord] /\ v2[j] \in ListRecord /\ ListFits(v2[j], v1)
      /\ v3 \in {"paused", "downloading", "failed", "completed"}
      /\ v7 \in BOOLEAN /\ v9 \in 0..MaxFaults
  BY ListJob
<1>4. /\ lines \in Seq(List!Line) /\ v7' \in BOOLEAN /\ v9' \in 0..MaxFaults
      /\ ~v7' => ~v7 /\ lines = Text[Root]
  <2>1. Root \in DOMAIN Text
    BY ListConstants
  <2> QED BY <1>1, <1>3, <2>1, ListLines
<1>5. v1 = "hls" /\ v2[j].next = 1 /\ v2[j].media = List!None
  BY <1>2, <1>3 DEF ListFits
<1>6. ListBusy(v2[j])
  BY <1>2 DEF ListBusy
<1>7. CASE List!IsMaster(lines)
  <2>1. PICK media \in DOMAIN Text : media = List!PickVariant(lines)
    BY <1>4, <1>7, ListVariant
  <2>2. PICK x : x = [v2[j] EXCEPT !.at = "media", !.media = media]
    OBVIOUS
  <2>3. v2' = [v2 EXCEPT ![j] = x] /\ v3' = v3
    BY <1>1, <1>3, <1>7, <2>1, <2>2
  <2>4. /\ x \in ListRecord /\ x.at = "media" /\ x.media = media /\ x.next = v2[j].next
        /\ x.list = v2[j].list
    BY <1>3, <2>2 DEF ListRecord, ListStages
  <2>5. ListFits(x, v1) /\ ~ListWriting(x) /\ x.at # "idle"
    <3>1. x.next \in 1..(Len(x.list) + 1)
      BY <1>3, <2>4 DEF ListFits
    <3> QED BY <1>5, <2>4, <3>1 DEF ListFits, ListWriting
  <2>6. ~v7' => ~v7 /\ ListMeans(x, v1)
    BY <1>4, <1>7, <2>1, <2>4, <2>5 DEF ListMeans
  <2> QED BY <1>2, <1>3, <1>4, <1>6, <2>3, <2>5, <2>6, ListMove
<1>8. CASE ~List!IsMaster(lines)
  <2>1. ~v7' => ~v7 /\ lines = List!Media /\ ListServer(v2[j]) = List!Media
    BY <1>4, <1>5, <1>8 DEF List!Media, ListServer
  <2>2. List!Listed(j, lines)
    BY <1>1, <1>8
  <2>3. v2[j].at \in {"playlist", "media"}
    BY <1>2
  <2> QED BY <1>2, <1>4, <2>1, <2>2, <2>3, ListListed
<1> QED BY <1>7, <1>8

LEMMA ListMediaInv ==
    ASSUME List!IInv, NEW j \in List!Jobs, List!MediaPlaylist(j) PROVE List!IInv'
<1>1. PICK address : address = v2[j].media
  OBVIOUS
<1>2. PICK lines : /\ \E n \in 1..Len(Text[address]) : lines = SubSeq(Text[address], 1, n)
                   /\ List!Lines(address, lines) /\ List!Listed(j, lines)
  BY <1>1 DEF List!MediaPlaylist
<1>3. /\ v2[j].at = "media" /\ ~v2[j].silent
      /\ v1' = v1 /\ v4' = v4 /\ v5' = v5 /\ v6' = v6 /\ v8' = v8
  BY DEF List!MediaPlaylist, List!Fetching
<1>4. /\ ListFits(v2[j], v1) /\ v7 \in BOOLEAN /\ v9 \in 0..MaxFaults
      /\ ~v7 => ListMeans(v2[j], v1)
  BY ListJob
<1>5. address \in DOMAIN Text /\ address # List!None
  BY <1>1, <1>3, <1>4, ListConstants DEF ListFits
<1>6. /\ lines \in Seq(List!Line) /\ v7' \in BOOLEAN /\ v9' \in 0..MaxFaults
      /\ ~v7' => ~v7 /\ lines = Text[address]
  BY <1>2, <1>4, <1>5, ListLines
<1>7. ~v7 => List!Media = Text[address]
  BY <1>1, <1>3, <1>4 DEF ListMeans, List!Media
<1>8. ~v7' => ~v7 /\ lines = List!Media /\ ListServer(v2[j]) = List!Media
  BY <1>1, <1>5, <1>6, <1>7 DEF ListServer
<1>9. v2[j].at \in {"playlist", "media"}
  BY <1>3
<1> QED BY <1>2, <1>3, <1>6, <1>8, <1>9, ListListed

LEMMA ListOpenInv ==
    ASSUME List!IInv, NEW j \in List!Jobs, List!Open(j) PROVE List!IInv'
<1>1. /\ ListInv(v1, v2, v3, v4, v5, v6, v7, v8, v9)
      /\ v2 \in [List!Jobs -> ListRecord] /\ v2[j] \in ListRecord /\ ListFits(v2[j], v1)
      /\ v1 \in {"hls", "ts-sequence"} /\ (~v7 => ListMeans(v2[j], v1))
  BY ListJob
<1>2. PICK f : f = IF v4 # 0 THEN v4 ELSE j
  OBVIOUS
<1>3. /\ v2[j].at = "open" /\ v4' = f /\ v6' = [v6 EXCEPT ![f] = <<>>]
      /\ v2' = [v2 EXCEPT ![j].at = "piece", ![j].file = f]
      /\ v1' = v1 /\ v3' = v3 /\ v5' = v5 /\ v7' = v7 /\ v8' = v8 /\ v9' = v9
  BY <1>2 DEF List!Open
<1>4. /\ \A k \in List!Jobs : ListFits(v2[k], v1)
      /\ v2[1].at = "idle" => v2[2].at = "idle"
      /\ v3 \in {"paused", "downloading", "failed", "completed"}
      /\ v4 \in {0} \cup List!Jobs /\ v5 \in SUBSET List!Jobs
      /\ v6 \in [List!Jobs -> Seq(Nat)]
      /\ v7 \in BOOLEAN /\ v8 \in BOOLEAN
      /\ v9 \in 0..MaxFaults
      /\ ~v8 => ~(ListBusy(v2[1]) /\ ListBusy(v2[2]))
      /\ ~v7 => \A k \in List!Jobs : ListMeans(v2[k], v1)
      /\ ~v8 /\ v5 # {} => \A k \in List!Jobs : ~ListBusy(v2[k])
  BY <1>1 DEF ListInv
<1>5. f \in List!Jobs
  BY <1>2, <1>4
<1>6. PICK x : x = [v2[j] EXCEPT !.at = "piece", !.file = f]
  OBVIOUS
<1>7. v2' = [v2 EXCEPT ![j] = x]
  BY <1>1, <1>3, <1>6
<1>8. /\ x \in ListRecord /\ x.at = "piece" /\ x.file = f /\ x.next = v2[j].next
      /\ x.list = v2[j].list /\ x.media = v2[j].media
  BY <1>1, <1>5, <1>6 DEF ListRecord, ListStages
<1>9. x.next = 1 /\ x.list \in Seq(List!Item) /\ x.list # <<>>
  BY <1>1, <1>3, <1>8 DEF ListFits, ListRecord
<1>10. Len(x.list) \in Nat /\ Len(x.list) # 0
  BY <1>9, LenProperties, EmptySeq
<1>11. ListFits(x, v1) /\ ListWriting(x) /\ ListBusy(v2[j])
  BY <1>3, <1>5, <1>8, <1>9, <1>10 DEF ListFits, ListWriting, ListBusy
<1>12. ~v7 => ListMeans(x, v1)
  <2>1. ListServer(x) = ListServer(v2[j])
    BY <1>8 DEF ListServer
  <2> QED BY <1>1, <1>3, <1>8, <2>1 DEF ListMeans
<1>13. /\ v2' \in [List!Jobs -> ListRecord] /\ v2'[j] = x
       /\ \A k \in List!Jobs : k # j => v2'[k] = v2[k]
  BY <1>1, <1>7, <1>8
<1>14. /\ v6' \in [List!Jobs -> Seq(Nat)] /\ v6'[f] = <<>>
       /\ \A k \in List!Jobs : k # f => v6'[k] = v6[k]
  <2>1. <<>> \in Seq(Nat)
    OBVIOUS
  <2> QED BY <1>3, <1>4, <1>5, <2>1
<1>15. 1 \in List!Jobs /\ 2 \in List!Jobs /\ \A k \in List!Jobs : k = 1 \/ k = 2
  BY DEF List!Jobs
<1>16. \A k \in List!Jobs : ListFits(v2'[k], v1)
  BY <1>4, <1>11, <1>13
<1>17. v2'[1].at = "idle" => v2'[2].at = "idle"
  BY <1>3, <1>4, <1>8, <1>13, <1>15
<1>18. \A k \in List!Jobs : ListBusy(v2'[k]) => ListBusy(v2[k])
  BY <1>11, <1>13
<1>19. ~v8 => ~(ListBusy(v2'[1]) /\ ListBusy(v2'[2])) /\ v5 = {}
  BY <1>4, <1>11, <1>15, <1>18
<1>20. ~v7 => \A k \in List!Jobs : ListMeans(v2'[k], v1)
  BY <1>4, <1>12, <1>13
<1>21. ~v8 => \A k \in List!Jobs : ListFront(v2'[k], v1, v4', v6', v7)
  <2> SUFFICES ASSUME ~v8, NEW k \in List!Jobs PROVE ListFront(v2'[k], v1, v4', v6', v7)
    OBVIOUS
  <2>1. CASE k = j
    <3>1. SubSeq(WholeOf(v1), 1, x.next - 1) = <<>>
      <4>1. \A W : SubSeq(W, 1, 0) = <<>>
        BY SubSeqEmpty
      <4> QED BY <1>9, <4>1
    <3> QED BY <1>3, <1>8, <1>13, <1>14, <2>1, <3>1 DEF ListFront
  <2>2. CASE k # j
    <3>1. ~ListBusy(v2[k])
      BY <1>4, <1>11, <1>15, <2>2
    <3> QED BY <1>13, <2>2, <3>1 DEF ListFront, ListWriting, ListBusy
  <2> QED BY <2>1, <2>2
<1>22. ListInv(v1', v2', v3', v4', v5', v6', v7', v8', v9')
  BY <1>1, <1>3, <1>4, <1>5, <1>13, <1>14, <1>16, <1>17, <1>19, <1>20, <1>21 DEF ListInv
<1> QED BY <1>22, ListInvNext

(* What the next item of a job is, and what can be made of it. *)
LEMMA ListItem ==
    ASSUME List!IInv, NEW j \in List!Jobs, v2[j].at \in {"piece", "key"}, NEW item,
           item = v2[j].list[v2[j].next]
    PROVE  /\ item \in List!Item /\ List!Plain(item, List!Server(j)) \in Nat
           /\ ~v7 => /\ item.piece = WholeOf(v1)[v2[j].next]
                     /\ List!Plain(item, List!Server(j)) = WholeOf(v1)[v2[j].next]
                     /\ item.encrypted => item.piece # List!Wrong
<1>1. /\ v2[j] \in ListRecord /\ ListFits(v2[j], v1)
      /\ v1 \in {"hls", "ts-sequence"} /\ (~v7 => ListMeans(v2[j], v1))
  BY ListJob
<1>2. v2[j].list \in Seq(List!Item) /\ v2[j].next \in 1..Len(v2[j].list)
  <2>1. v2[j].list \in Seq(List!Item) /\ v2[j].next \in Nat \ {0} /\ v2[j].next <= Len(v2[j].list)
    BY <1>1 DEF ListFits, ListRecord
  <2> QED BY <2>1
<1>3. item \in List!Item /\ item.piece \in Nat
  <2>1. item \in List!Item
    BY <1>2
  <2> QED BY <2>1 DEF List!Item
<1>4. List!Plain(item, List!Server(j)) \in Nat
  <2>1. \A lines : List!Plain(item, lines) = item.piece \/ List!Plain(item, lines) = List!Wrong
    BY DEF List!Plain
  <2> QED BY <1>3, <2>1 DEF List!Wrong
<1>5. ASSUME ~v7
      PROVE  /\ item.piece = WholeOf(v1)[v2[j].next]
             /\ List!Plain(item, List!Server(j)) = WholeOf(v1)[v2[j].next]
             /\ item.encrypted => item.piece # List!Wrong
  <2>1. v2[j].list = ListOf(v1) /\ (v1 = "hls" => ListServer(v2[j]) = List!Media)
    BY <1>1, <1>5 DEF ListMeans, ListWriting
  <2>2. v2[j].next \in 1..Len(ListOf(v1)) /\ item = ListOf(v1)[v2[j].next]
    BY <1>2, <2>1
  <2>3. /\ item.piece = WholeOf(v1)[v2[j].next]
        /\ List!Plain(item, List!Media) = WholeOf(v1)[v2[j].next]
        /\ item.encrypted => WholeOf(v1)[v2[j].next] # List!Wrong
    BY <1>1, <2>2, ListWhole
  <2>4. List!Server(j) = ListServer(v2[j])
    BY DEF List!Server, ListServer
  <2>5. v1 = "ts-sequence" => List!Plain(item, List!Server(j)) = List!Plain(item, List!Media)
    BY DEF List!Plain
  <2> QED BY <1>1, <2>1, <2>3, <2>4, <2>5
<1> QED BY <1>3, <1>4, <1>5

(* A piece is written. *)
LEMMA ListWritten ==
    ASSUME List!IInv, NEW j \in List!Jobs, v2[j].at \in {"piece", "key"}, ~v2[j].silent,
           NEW n \in Nat, List!Written(j, n),
           v7' \in BOOLEAN, ~v7' => ~v7 /\ n = WholeOf(v1)[v2[j].next],
           v9' \in 0..MaxFaults, v1' = v1, v3' = v3, v4' = v4, v5' = v5, v8' = v8
    PROVE  List!IInv'
<1>1. /\ ListInv(v1, v2, v3, v4, v5, v6, v7, v8, v9)
      /\ v2 \in [List!Jobs -> ListRecord] /\ v2[j] \in ListRecord
      /\ v1 \in {"hls", "ts-sequence"}
  BY ListJob
<1>2. PICK me : me = v2[j]
  OBVIOUS
<1>3. PICK x : x = [me EXCEPT !.next = @ + 1, !.at = IF me.next = Len(me.list) THEN "finish" ELSE "piece"]
  OBVIOUS
<1>4. PICK content : content = List!Put(v6[me.file], me.next, n)
  OBVIOUS
<1>5. /\ v6' = [v6 EXCEPT ![me.file] = List!Put(@, me.next, n)]
      /\ v2' = [v2 EXCEPT ![j].next = @ + 1,
                          ![j].at = IF me.next = Len(me.list) THEN "finish" ELSE "piece"]
  BY <1>2 DEF List!Written
<1>6. v2' = [v2 EXCEPT ![j] = x]
  BY <1>1, <1>2, <1>3, <1>5
<1>7. v6' = [v6 EXCEPT ![me.file] = content]
  BY <1>4, <1>5
<1>8. WholeOf(v1) \in Seq(Nat) /\ Len(ListOf(v1)) = Len(WholeOf(v1))
  BY <1>1, ListWhole
<1>9. me.at \in {"piece", "key"} /\ ~me.silent /\ (~v7' => ~v7 /\ n = WholeOf(v1)[me.next])
  BY <1>2
<1> QED BY <1>1, <1>2, <1>3, <1>4, <1>6, <1>7, <1>8, <1>9, ListWrite

LEMMA ListKeyInv ==
    ASSUME List!IInv, NEW j \in List!Jobs, List!Key(j) PROVE List!IInv'
<1>1. PICK item : item = v2[j].list[v2[j].next]
  OBVIOUS
<1>2. PICK n : n = IF v2[j].body = List!Wrong THEN List!Wrong ELSE List!Plain(item, List!Server(j))
  OBVIOUS
<1>3. /\ v2[j].at = "key" /\ ~v2[j].silent /\ List!Written(j, n)
      /\ v1' = v1 /\ v3' = v3 /\ v4' = v4 /\ v5' = v5 /\ v7' = v7 /\ v8' = v8 /\ v9' = v9
  BY <1>1, <1>2 DEF List!Key, List!Fetching
<1>4. /\ item \in List!Item /\ List!Plain(item, List!Server(j)) \in Nat
      /\ ~v7 => /\ item.piece = WholeOf(v1)[v2[j].next]
                /\ List!Plain(item, List!Server(j)) = WholeOf(v1)[v2[j].next]
                /\ item.encrypted => item.piece # List!Wrong
  <2>1. v2[j].at \in {"piece", "key"}
    BY <1>3
  <2> QED BY <1>1, <2>1, ListItem
<1>5. /\ v7 \in BOOLEAN /\ v9 \in 0..MaxFaults /\ ListFits(v2[j], v1)
      /\ ~v7 => ListMeans(v2[j], v1)
  BY ListJob
<1>6. n \in Nat
  BY <1>2, <1>4 DEF List!Wrong
<1>7. ~v7 => n = WholeOf(v1)[v2[j].next]
  <2> SUFFICES ASSUME ~v7 PROVE n = WholeOf(v1)[v2[j].next]
    OBVIOUS
  <2>1. item.encrypted
    BY <1>1, <1>3, <1>5 DEF ListFits
  <2>2. v2[j].body = item.piece
    BY <1>1, <1>3, <1>5 DEF ListMeans
  <2> QED BY <1>2, <1>4, <2>1, <2>2
<1>8. v2[j].at \in {"piece", "key"} /\ v7' \in BOOLEAN /\ v9' \in 0..MaxFaults
      /\ (~v7' => ~v7 /\ n = WholeOf(v1)[v2[j].next])
  BY <1>3, <1>5, <1>7
<1> QED BY <1>3, <1>6, <1>8, ListWritten

(* The piece is here, its key is not. *)
LEMMA ListAsksKey ==
    ASSUME List!IInv, NEW j \in List!Jobs, v2[j].at = "piece", ~v2[j].silent,
           v2[j].list[v2[j].next].encrypted, NEW body \in Nat,
           v2' = [v2 EXCEPT ![j].at = "key", ![j].body = body],
           v7' \in BOOLEAN, ~v7' => ~v7 /\ body = v2[j].list[v2[j].next].piece,
           v9' \in 0..MaxFaults,
           v1' = v1, v3' = v3, v4' = v4, v5' = v5, v6' = v6, v8' = v8
    PROVE  List!IInv'
<1>1. /\ ListInv(v1, v2, v3, v4, v5, v6, v7, v8, v9)
      /\ v2 \in [List!Jobs -> ListRecord] /\ v2[j] \in ListRecord /\ ListFits(v2[j], v1)
      /\ v3 \in {"paused", "downloading", "failed", "completed"}
      /\ ~v7 => ListMeans(v2[j], v1)
  BY ListJob
<1>2. PICK x : x = [v2[j] EXCEPT !.at = "key", !.body = body]
  OBVIOUS
<1>3. v2' = [v2 EXCEPT ![j] = x]
  BY <1>1, <1>2
<1>4. /\ x \in ListRecord /\ x.at = "key" /\ x.body = body /\ x.next = v2[j].next
      /\ x.list = v2[j].list /\ x.media = v2[j].media /\ x.file = v2[j].file
      /\ x.silent = v2[j].silent
  BY <1>1, <1>2 DEF ListRecord, ListStages
<1>5. ListFits(x, v1)
  BY <1>1, <1>4 DEF ListFits, ListWriting
<1>6. /\ ListWriting(x) => ListWriting(v2[j]) /\ x.file = v2[j].file /\ x.next = v2[j].next
      /\ ListBusy(v2[j]) /\ x.at # "idle"
  BY <1>4 DEF ListWriting, ListBusy
<1>7. ~v7' => ~v7 /\ ListMeans(x, v1)
  <2>1. ListServer(x) = ListServer(v2[j])
    BY <1>4 DEF ListServer
  <2> QED BY <1>1, <1>4, <2>1 DEF ListMeans, ListWriting
<1> QED BY <1>1, <1>3, <1>5, <1>6, <1>7, ListMove

LEMMA ListPieceInv ==
    ASSUME List!IInv, NEW j \in List!Jobs, List!Piece(j) PROVE List!IInv'
<1>1. PICK item : item = v2[j].list[v2[j].next]
  OBVIOUS
<1>2. /\ v2[j].at = "piece" /\ ~v2[j].silent
      /\ v1' = v1 /\ v4' = v4 /\ v5' = v5 /\ v8' = v8
  BY DEF List!Piece, List!Fetching
<1>3. \/ /\ item.encrypted
         /\ v2' = [v2 EXCEPT ![j].at = "key", ![j].body = item.piece]
         /\ v3' = v3 /\ v6' = v6 /\ v7' = v7 /\ v9' = v9
      \/ /\ ~item.encrypted
         /\ List!Written(j, List!Plain(item, List!Server(j)))
         /\ v3' = v3 /\ v7' = v7 /\ v9' = v9
      \/ /\ List!Fault /\ v7' = TRUE
         /\ \/ /\ item.encrypted
               /\ v2' = [v2 EXCEPT ![j].at = "key", ![j].body = List!Wrong]
               /\ v3' = v3 /\ v6' = v6
            \/ List!Failed(j) /\ v6' = v6
            \/ List!Written(j, List!Wrong) /\ v3' = v3
  BY <1>1 DEF List!Piece
<1>4. /\ item \in List!Item /\ List!Plain(item, List!Server(j)) \in Nat
      /\ ~v7 => /\ item.piece = WholeOf(v1)[v2[j].next]
                /\ List!Plain(item, List!Server(j)) = WholeOf(v1)[v2[j].next]
  <2>1. v2[j].at \in {"piece", "key"}
    BY <1>2
  <2> QED BY <1>1, <2>1, ListItem
<1>5. v7 \in BOOLEAN /\ v9 \in 0..MaxFaults /\ v2[j].at \in {"piece", "key"} /\ ListBusy(v2[j])
  BY <1>2, ListJob DEF ListBusy
<1>6. item.piece \in Nat /\ List!Wrong \in Nat
  BY <1>4 DEF List!Item, List!Wrong
<1>7. CASE /\ item.encrypted
           /\ v2' = [v2 EXCEPT ![j].at = "key", ![j].body = item.piece]
           /\ v3' = v3 /\ v6' = v6 /\ v7' = v7 /\ v9' = v9
  <2>1. ~v7' => ~v7 /\ item.piece = v2[j].list[v2[j].next].piece
    BY <1>1, <1>7
  <2>2. v2[j].list[v2[j].next].encrypted
    BY <1>1, <1>7
  <2> QED BY <1>2, <1>5, <1>6, <1>7, <2>1, <2>2, ListAsksKey
<1>8. CASE /\ ~item.encrypted
           /\ List!Written(j, List!Plain(item, List!Server(j)))
           /\ v3' = v3 /\ v7' = v7 /\ v9' = v9
  <2>1. PICK n \in Nat : n = List!Plain(item, List!Server(j))
    BY <1>4
  <2>2. List!Written(j, n) /\ (~v7' => ~v7 /\ n = WholeOf(v1)[v2[j].next])
    BY <1>4, <1>8, <2>1
  <2> QED BY <1>2, <1>5, <1>8, <2>2, ListWritten
<1>9. ASSUME List!Fault, v7' = TRUE PROVE v9' \in 0..MaxFaults /\ v7' \in BOOLEAN /\ v7'
  BY <1>5, <1>9, ListFaults
<1>10. CASE /\ List!Fault /\ v7' = TRUE /\ item.encrypted
            /\ v2' = [v2 EXCEPT ![j].at = "key", ![j].body = List!Wrong]
            /\ v3' = v3 /\ v6' = v6
  <2>1. v2[j].list[v2[j].next].encrypted
    BY <1>1, <1>10
  <2> QED BY <1>2, <1>6, <1>9, <1>10, <2>1, ListAsksKey
<1>11. CASE List!Fault /\ v7' = TRUE /\ List!Failed(j) /\ v6' = v6
  BY <1>2, <1>5, <1>9, <1>11, ListFails
<1>12. CASE List!Fault /\ v7' = TRUE /\ List!Written(j, List!Wrong) /\ v3' = v3
  BY <1>2, <1>5, <1>6, <1>9, <1>12, ListWritten
<1> QED BY <1>3, <1>7, <1>8, <1>10, <1>11, <1>12

LEMMA ListFinishInv ==
    ASSUME List!IInv, NEW j \in List!Jobs, List!Finish(j) PROVE List!IInv'
<1>1. /\ ListInv(v1, v2, v3, v4, v5, v6, v7, v8, v9)
      /\ v2 \in [List!Jobs -> ListRecord] /\ v2[j] \in ListRecord /\ ListFits(v2[j], v1)
      /\ v1 \in {"hls", "ts-sequence"} /\ v9 \in 0..MaxFaults /\ (~v7 => ListMeans(v2[j], v1))
  BY ListJob
<1>2. /\ v2[j].at = "finish" /\ v2' = [v2 EXCEPT ![j].at = "ended"]
      /\ v1' = v1 /\ v6' = v6 /\ v7' = v7 /\ v8' = v8
      /\ \/ /\ v4 # 0
            /\ v5' = v5 \cup {v4} /\ v4' = 0 /\ v3' = "completed" /\ v9' = v9
         \/ /\ v4 = 0
            /\ v4' = v4 /\ v5' = v5 /\ v3' = v3 /\ v9' = v9
         \/ /\ v4 # 0 /\ List!Fault
            /\ v4' = v4 /\ v5' = v5 /\ v3' = v3
  BY DEF List!Finish
<1>3. /\ \A k \in List!Jobs : ListFits(v2[k], v1)
      /\ v2[1].at = "idle" => v2[2].at = "idle"
      /\ v3 \in {"paused", "downloading", "failed", "completed"}
      /\ v4 \in {0} \cup List!Jobs /\ v5 \in SUBSET List!Jobs
      /\ v6 \in [List!Jobs -> Seq(Nat)]
      /\ v7 \in BOOLEAN /\ v8 \in BOOLEAN
      /\ ~v8 => ~(ListBusy(v2[1]) /\ ListBusy(v2[2]))
      /\ ~v7 => \A k \in List!Jobs : ListMeans(v2[k], v1)
      /\ ~v8 /\ v5 # {} => \A k \in List!Jobs : ~ListBusy(v2[k])
      /\ ~v8 => \A k \in List!Jobs : ListFront(v2[k], v1, v4, v6, v7)
  BY <1>1 DEF ListInv
<1>4. PICK x : x = [v2[j] EXCEPT !.at = "ended"]
  OBVIOUS
<1>5. v2' = [v2 EXCEPT ![j] = x]
  BY <1>1, <1>2, <1>4, ListSet
<1>6. /\ x \in ListRecord /\ x.at = "ended" /\ x.next = v2[j].next /\ x.list = v2[j].list
      /\ x.silent = v2[j].silent
  BY <1>1, <1>4 DEF ListRecord, ListStages
<1>7. ListFits(x, v1) /\ ~ListWriting(x) /\ ~ListBusy(x) /\ ListMeans(x, v1)
  <2>1. ~ListWriting(x) /\ ~ListBusy(x)
    BY <1>6 DEF ListWriting, ListBusy
  <2>2. ListMeans(x, v1)
    BY <1>6, <2>1 DEF ListMeans
  <2>3. x.next \in 1..(Len(x.list) + 1)
    BY <1>1, <1>6 DEF ListFits
  <2> QED BY <1>6, <2>1, <2>2, <2>3 DEF ListFits
<1>8. /\ v2' \in [List!Jobs -> ListRecord] /\ v2'[j] = x
      /\ \A k \in List!Jobs : k # j => v2'[k] = v2[k]
  BY <1>1, <1>5, <1>6
<1>9. 1 \in List!Jobs /\ 2 \in List!Jobs /\ \A k \in List!Jobs : k = 1 \/ k = 2
  BY DEF List!Jobs
<1>10. \A k \in List!Jobs : ListFits(v2'[k], v1)
  BY <1>3, <1>7, <1>8
<1>11. v2'[1].at = "idle" => v2'[2].at = "idle"
  BY <1>2, <1>3, <1>6, <1>8, <1>9
<1>12. ListBusy(v2[j]) /\ ListWriting(v2[j])
  BY <1>2 DEF ListBusy, ListWriting
<1>13. ~v8 => v5 = {} /\ \A k \in List!Jobs : ~ListBusy(v2'[k])
  <2> SUFFICES ASSUME ~v8 PROVE v5 = {} /\ \A k \in List!Jobs : ~ListBusy(v2'[k])
    OBVIOUS
  <2>1. v5 = {}
    BY <1>3, <1>12
  <2>2. \A k \in List!Jobs : k # j => ~ListBusy(v2[k])
    BY <1>3, <1>9, <1>12
  <2> QED BY <1>7, <1>8, <2>1, <2>2
<1>14. ~v7 => \A k \in List!Jobs : ListMeans(v2'[k], v1)
  BY <1>3, <1>7, <1>8
<1>15. ~v8 => \A k \in List!Jobs : ListFront(v2'[k], v1, v4', v6', v7')
  <2>1. \A k \in List!Jobs : ListWriting(v2'[k]) => ListBusy(v2'[k])
    BY DEF ListWriting, ListBusy
  <2> QED BY <1>13, <2>1 DEF ListFront
<1>16. ~v7 /\ ~v8 => v4 \in List!Jobs /\ v6[v4] = WholeOf(v1)
  <2> SUFFICES ASSUME ~v7, ~v8 PROVE v4 \in List!Jobs /\ v6[v4] = WholeOf(v1)
    OBVIOUS
  <2>1. v4 = v2[j].file /\ v6[v4] = SubSeq(WholeOf(v1), 1, v2[j].next - 1)
    <3>1. ListFront(v2[j], v1, v4, v6, v7)
      BY <1>3
    <3> QED BY <1>12, <3>1 DEF ListFront
  <2>2. v4 \in List!Jobs /\ v2[j].next = Len(v2[j].list) + 1
    BY <1>1, <1>2, <1>12, <2>1 DEF ListFits
  <2>3. v2[j].list = ListOf(v1)
    BY <1>1, <1>12 DEF ListMeans
  <2>4. WholeOf(v1) \in Seq(Nat) /\ Len(ListOf(v1)) = Len(WholeOf(v1))
    BY <1>1, ListWhole
  <2>5. PICK m \in Nat : m = Len(WholeOf(v1))
    BY <2>4, LenProperties
  <2>6. SubSeq(WholeOf(v1), 1, m) = WholeOf(v1)
    BY <2>4, <2>5
  <2>7. v2[j].next - 1 = m
    BY <2>2, <2>3, <2>4, <2>5
  <2> QED BY <2>1, <2>2, <2>6, <2>7
<1>17. /\ v3' \in {"paused", "downloading", "failed", "completed"}
       /\ v4' \in {0} \cup List!Jobs /\ v5' \in SUBSET List!Jobs /\ v9' \in 0..MaxFaults
       /\ ~v8 /\ v5' # {} => v3' = "completed"
       /\ ~v7 /\ ~v8 => \A f \in v5' : v6[f] = WholeOf(v1)
  <2>1. CASE v4 # 0 /\ v5' = v5 \cup {v4} /\ v4' = 0 /\ v3' = "completed" /\ v9' = v9
    BY <1>1, <1>3, <1>13, <1>16, <2>1
  <2>2. CASE v4' = v4 /\ v5' = v5 /\ v3' = v3 /\ (v9' = v9 \/ List!Fault)
    <3>1. v9' \in 0..MaxFaults
      BY <1>1, <2>2, ListFaults
    <3> QED BY <1>3, <1>13, <2>2, <3>1
  <2> QED BY <1>2, <2>1, <2>2
<1>18. ~v8 => ~(ListBusy(v2'[1]) /\ ListBusy(v2'[2]))
  BY <1>9, <1>13
<1>19. ListInv(v1', v2', v3', v4', v5', v6', v7', v8', v9')
  BY <1>1, <1>2, <1>3, <1>8, <1>10, <1>11, <1>13, <1>14, <1>15, <1>17, <1>18 DEF ListInv
<1> QED BY <1>19, ListInvNext

LEMMA ListStepInv == ASSUME List!IInv, List!Next PROVE List!IInv'
<1>1. CASE List!Pause
  BY <1>1, ListPauseInv
<1>2. ASSUME NEW j \in List!Jobs,
             List!Start(j) \/ List!Step(j) \/ List!Refused(j) \/ List!Silent(j)
      PROVE  List!IInv'
  <2>1. CASE List!Start(j)
    BY <2>1, ListStartInv
  <2>2. CASE List!Refused(j)
    BY <2>2, ListRefusedInv
  <2>3. CASE List!Silent(j)
    BY <2>3, ListSilentInv
  <2>4. CASE List!Playlist(j)
    BY <2>4, ListPlaylistInv
  <2>5. CASE List!MediaPlaylist(j)
    BY <2>5, ListMediaInv
  <2>6. CASE List!Open(j)
    BY <2>6, ListOpenInv
  <2>7. CASE List!Piece(j)
    BY <2>7, ListPieceInv
  <2>8. CASE List!Key(j)
    BY <2>8, ListKeyInv
  <2>9. CASE List!Finish(j)
    BY <2>9, ListFinishInv
  <2>10. CASE List!Expire(j)
    BY <2>10, ListExpireInv
  <2> QED BY <1>2, <2>1, <2>2, <2>3, <2>4, <2>5, <2>6, <2>7, <2>8, <2>9, <2>10 DEF List!Step
<1> QED BY <1>1, <1>2 DEF List!Next

LEMMA ListStutterInv == ASSUME List!IInv, UNCHANGED List!vars PROVE List!IInv'
<1>1. /\ v1' = v1 /\ v2' = v2 /\ v3' = v3 /\ v4' = v4 /\ v5' = v5 /\ v6' = v6 /\ v7' = v7
      /\ v8' = v8 /\ v9' = v9
  BY DEF List!vars
<1>2. ListInv(v1', v2', v3', v4', v5', v6', v7', v8', v9')
  BY <1>1, ListInvIs
<1> QED BY <1>2, ListInvNext

LEMMA ListNextInv == ASSUME List!IInv, [List!Next]_(List!vars) PROVE List!IInv'
BY ListStepInv, ListStutterInv

LEMMA ListShows == List!IInv => List!TypeOK /\ List!PiecesInOrder
BY DEF List!IInv

=============================================================================
