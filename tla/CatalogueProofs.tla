--------------------------- MODULE CatalogueProofs ---------------------------
(***************************************************************************)
(* The records of Catalogue agree, and no entry is left in a queue that is *)
(* gone, for all entries, queues, URLs and failures.                       *)
(*                                                                         *)
(* The invariant says of both copies of the lists that no id and no name   *)
(* occurs twice and that the URL a lookup in them gives is the one that    *)
(* was wanted last; of the two copies together, that an entry which names  *)
(* a queue that only the disk still has is backed by its state file; and   *)
(* of the command that is running, what its earlier calls have reached.    *)
(***************************************************************************)
EXTENDS Catalogue, ConfigStore, TLAPS, WellFoundedInduction, FiniteSetTheorems, SequenceTheorems

Queue == [id : QueueIds, name : Names]
Document == [items : Seq(Entry), queues : Seq(Queue)]

(* The operators on lists. *)

(* A nonempty set of naturals has a smallest member. *)
LEMMA MinProperties ==
    ASSUME NEW S \in SUBSET Nat, S # {}
    PROVE  Min(S) \in S /\ \A y \in S : Min(S) <= y
<1>1. PICK x \in S : \A y \in S : ~(<<y, x>> \in OpToRel(<, Nat))
  BY WFMin, NatLessThanWellFounded
<1>2. \A y \in S : x <= y
  <2>1. TAKE y \in S
  <2>2. ~(y < x)
    BY <1>1, <2>1 DEF OpToRel
  <2> QED BY <2>2
<1> QED BY <1>1, <1>2 DEF Min

(* A property that a step hands on holds at every index of a loop: the      *)
(* indices at which it fails have no smallest one.                          *)
LEMMA NoFirstFailure ==
    ASSUME NEW len \in Nat, NEW Fails \in SUBSET (0..len),
           \A n \in Fails : n # 0 /\ n - 1 \in Fails
    PROVE  Fails = {}
<1> SUFFICES ASSUME Fails # {} PROVE FALSE
  OBVIOUS
<1>1. Fails \in SUBSET Nat
  OBVIOUS
<1>2. Min(Fails) \in Fails /\ \A y \in Fails : Min(Fails) <= y
  BY <1>1, MinProperties
<1>3. Min(Fails) \in Nat /\ Min(Fails) - 1 \in Fails
  BY <1>1, <1>2
<1>4. Min(Fails) <= Min(Fails) - 1
  BY <1>2, <1>3
<1> QED BY <1>3, <1>4

(* find_download_item_index finds an entry if there is one. *)
LEMMA ItemIndexIs ==
    ASSUME NEW doc \in Document, NEW i
    PROVE  \/ /\ ItemIndex(doc, i) \in DOMAIN doc.items
              /\ doc.items[ItemIndex(doc, i)].id = i
           \/ /\ ItemIndex(doc, i) = 0
              /\ \A k \in DOMAIN doc.items : doc.items[k].id # i
<1> DEFINE I == {k \in 1..Len(doc.items) : doc.items[k].id = i}
<1>1. ItemIndex(doc, i) = IF I # {} THEN Min(I) ELSE 0
  BY DEF ItemIndex, SelectInSeq
<1>2. doc.items \in Seq(Entry) /\ DOMAIN doc.items = 1..Len(doc.items) /\ Len(doc.items) \in Nat
  BY DEF Document
<1>3. I \in SUBSET Nat
  OBVIOUS
<1>4. I # {} => Min(I) \in I
  BY <1>3, MinProperties
<1> QED BY <1>1, <1>2, <1>4

LEMMA QueueIndexIs ==
    ASSUME NEW doc \in Document, NEW q
    PROVE  \/ /\ QueueIndex(doc, q) \in DOMAIN doc.queues
              /\ doc.queues[QueueIndex(doc, q)].id = q
           \/ /\ QueueIndex(doc, q) = 0
              /\ \A k \in DOMAIN doc.queues : doc.queues[k].id # q
<1> DEFINE I == {k \in 1..Len(doc.queues) : doc.queues[k].id = q}
<1>1. QueueIndex(doc, q) = IF I # {} THEN Min(I) ELSE 0
  BY DEF QueueIndex, SelectInSeq
<1>2. doc.queues \in Seq(Queue) /\ DOMAIN doc.queues = 1..Len(doc.queues) /\ Len(doc.queues) \in Nat
  BY DEF Document
<1>3. I \in SUBSET Nat
  OBVIOUS
<1>4. I # {} => Min(I) \in I
  BY <1>3, MinProperties
<1> QED BY <1>1, <1>2, <1>4

LEMMA RemoveAtIs ==
    ASSUME NEW T, NEW s \in Seq(T), NEW k \in 1..Len(s)
    PROVE  /\ RemoveAt(s, k) \in Seq(T) /\ Len(RemoveAt(s, k)) = Len(s) - 1
           /\ \A j \in 1..Len(s) - 1 :
                 RemoveAt(s, k)[j] = IF j < k THEN s[j] ELSE s[j + 1]
<1> DEFINE a == SubSeq(s, 1, k - 1)
           b == SubSeq(s, k + 1, Len(s))
<1>1. Len(s) \in Nat /\ k \in Nat /\ k - 1 \in Nat
  OBVIOUS
<1>2. a \in Seq(T) /\ Len(a) = k - 1 /\ \A j \in 1..(k - 1) : a[j] = s[j]
  BY <1>1
<1>3. b \in Seq(T) /\ Len(b) = Len(s) - k /\ \A j \in 1..(Len(s) - k) : b[j] = s[k + j]
  BY <1>1
<1>4. RemoveAt(s, k) = a \o b
  BY DEF RemoveAt
<1> HIDE DEF a, b
<1>5. a \o b \in Seq(T) /\ Len(a \o b) = Len(s) - 1
  <2>1. a \o b \in Seq(T) /\ Len(a \o b) = Len(a) + Len(b)
    BY <1>2, <1>3, ConcatProperties
  <2> QED BY <1>1, <1>2, <1>3, <2>1
<1>6. ASSUME NEW j \in 1..Len(s) - 1
      PROVE  (a \o b)[j] = IF j < k THEN s[j] ELSE s[j + 1]
  <2>1. CASE j < k
    BY <1>1, <1>2, <1>3, <2>1
  <2>2. CASE ~(j < k)
    <3>1. j - (k - 1) \in 1..(Len(s) - k) /\ k + (j - (k - 1)) = j + 1
      BY <1>1, <2>2
    <3>2. (a \o b)[j] = b[j - (k - 1)]
      BY <1>1, <1>2, <1>3, <2>2
    <3> QED BY <1>3, <2>2, <3>1, <3>2
  <2> QED BY <2>1, <2>2
<1> QED BY <1>4, <1>5, <1>6


(* A loop that computes one value from the one before, each of them in S,   *)
(* has a solution: it is made index by index.                               *)
IsLoop(g, N, S, a, F) ==
    g \in [0..N -> S] /\ g[0] = a /\ \A n \in 1..N : g[n] = F[n][g[n - 1]]

LEMMA LoopExists ==
    ASSUME NEW N \in Nat, NEW S, NEW a \in S, NEW F \in [1..N -> [S -> S]]
    PROVE  \E g : IsLoop(g, N, S, a, F)
<1> DEFINE Solves(g, m) == /\ g \in [0..m -> S] /\ g[0] = a
                           /\ \A n \in 1..m : g[n] = F[n][g[n - 1]]
           Fails == {m \in 0..N : ~\E g : Solves(g, m)}
<1>1. ASSUME NEW m \in Fails PROVE m # 0 /\ m - 1 \in Fails
  <2>1. m # 0
    <3> SUFFICES ASSUME m = 0 PROVE FALSE
      OBVIOUS
    <3>1. Solves([i \in 0..0 |-> a], 0)
      OBVIOUS
    <3> QED BY <1>1, <3>1
  <2>2. m \in 1..N /\ m - 1 \in 0..N /\ m - 1 \in Nat /\ m \in Nat
    BY <1>1, <2>1
  <2>3. ASSUME NEW g, Solves(g, m - 1) PROVE FALSE
    <3> DEFINE last == F[m][g[m - 1]]
               h == [i \in 0..m |-> IF i = m THEN last ELSE g[i]]
    <3>1. g[m - 1] \in S /\ last \in S
      BY <2>2, <2>3
    <3>2. h \in [0..m -> S] /\ h[0] = a /\ h[m] = last
      <4> HIDE DEF last
      <4> QED BY <2>2, <2>3, <3>1
    <3>3. ASSUME NEW n \in 1..m PROVE h[n] = F[n][h[n - 1]]
      <4>1. h[n - 1] = g[n - 1]
        BY <2>2
      <4>2. CASE n = m
        BY <3>2, <4>1, <4>2
      <4>3. CASE n # m
        <5>1. n \in 1..(m - 1) /\ h[n] = g[n]
          BY <2>2, <4>3
        <5> HIDE DEF h, last
        <5> QED BY <2>3, <4>1, <5>1
      <4> QED BY <4>2, <4>3
    <3>4. Solves(h, m)
      <4> HIDE DEF h, last
      <4> QED BY <3>2, <3>3
    <3> QED BY <1>1, <3>4
  <2> HIDE DEF Solves
  <2> QED BY <2>1, <2>2, <2>3
<1>2. Fails = {}
  <2> HIDE DEF Solves
  <2>1. Fails \in SUBSET (0..N)
    OBVIOUS
  <2> HIDE DEF Fails
  <2> QED BY <1>1, <2>1, NoFirstFailure
<1>3. \E g : Solves(g, N)
  <2> SUFFICES ASSUME ~\E g : Solves(g, N) PROVE FALSE
    OBVIOUS
  <2>1. N \in 0..N
    OBVIOUS
  <2> HIDE DEF Solves
  <2>2. N \in Fails
    BY <2>1
  <2> QED BY <1>2, <2>2
<1> QED BY <1>3 DEF IsLoop

(* remove_config_array_items_where: what is left are entries that were      *)
(* there, none twice, and none of them in the queue.                        *)
LEMMA OutsideIs ==
    ASSUME NEW items \in Seq(Entry), NEW q,
           \A k, m \in DOMAIN items : k # m => items[k].id # items[m].id
    PROVE  /\ Outside(items, q) \in Seq(Entry)
           /\ \A k \in DOMAIN Outside(items, q) : \E m \in DOMAIN items :
                 Outside(items, q)[k] = items[m] /\ items[m].queue # q
           /\ \A k, m \in DOMAIN Outside(items, q) :
                 k # m => Outside(items, q)[k].id # Outside(items, q)[m].id
<1> DEFINE N == Len(items)
           Next1(r, n) == IF items[n].queue = q THEN r ELSE Append(r, items[n])
           Step1(f) == [n \in 0..N |->
                          IF n = 0 THEN <<>>
                          ELSE IF items[n].queue = q THEN f[n - 1]
                          ELSE Append(f[n - 1], items[n])]
           left == CHOOSE f : f = Step1(f)
           Kept(r, n) == /\ r \in Seq(Entry)
                         /\ \A k \in DOMAIN r : \E m \in 1..n :
                               r[k] = items[m] /\ items[m].queue # q
                         /\ \A k, m \in DOMAIN r : k # m => r[k].id # r[m].id
<1>1. Outside(items, q) = left[N]
  BY DEF Outside
<1>2. N \in Nat /\ DOMAIN items = 1..N /\ N \in 0..N /\ \A n \in 1..N : items[n] \in Entry
  OBVIOUS
<1>3. \A f : Step1(f) = [n \in 0..N |-> IF n = 0 THEN <<>> ELSE Next1(f[n - 1], n)]
  OBVIOUS
<1> HIDE DEF N
<1>4. \E f : f = Step1(f)
  <2> DEFINE F == [n \in 1..N |-> [r \in Seq(Entry) |-> Next1(r, n)]]
  <2>1. F \in [1..N -> [Seq(Entry) -> Seq(Entry)]]
    BY <1>2
  <2> HIDE DEF F
  <2>2. <<>> \in Seq(Entry)
    OBVIOUS
  <2>3. PICK g : IsLoop(g, N, Seq(Entry), <<>>, F)
    BY <1>2, <2>1, <2>2, LoopExists
  <2>4. ASSUME NEW n \in 0..N
        PROVE  g[n] = IF n = 0 THEN <<>> ELSE Next1(g[n - 1], n)
    <3>1. n # 0 => n \in 1..N /\ n - 1 \in 0..N
      BY <1>2
    <3> HIDE DEF Next1
    <3> QED BY <2>3, <3>1 DEF F, IsLoop
  <2>5. g = Step1(g)
    <3> HIDE DEF Step1
    <3> HIDE DEF Next1
    <3> QED BY <1>3, <2>3, <2>4 DEF IsLoop
  <2> QED BY <2>5
<1>5. left = Step1(left)
  <2> HIDE DEF Step1
  <2> QED BY <1>4, Zenon
<1> HIDE DEF left
<1>6. \A n \in 0..N : left[n] = IF n = 0 THEN <<>> ELSE Next1(left[n - 1], n)
  <2> HIDE DEF Step1
  <2> HIDE DEF Next1
  <2> QED BY <1>3, <1>5
<1> HIDE DEF Step1
<1>7. ASSUME NEW n \in 1..N, NEW r, Kept(r, n - 1) PROVE Kept(Next1(r, n), n)
  <2>1. n \in Nat /\ n - 1 \in Nat /\ n \in 1..n /\ 1..(n - 1) \subseteq 1..n
        /\ 1..n \subseteq 1..N /\ n \notin 1..(n - 1)
    BY <1>2
  <2>2. CASE items[n].queue = q
    BY <1>7, <2>1, <2>2
  <2>3. CASE items[n].queue # q
    <3> DEFINE a == Append(r, items[n])
    <3>1. Next1(r, n) = a
      BY <2>3
    <3>2. /\ a \in Seq(Entry) /\ Len(r) \in Nat /\ DOMAIN r = 1..Len(r) /\ DOMAIN a = 1..(Len(r) + 1)
          /\ a[Len(r) + 1] = items[n] /\ \A k \in DOMAIN r : a[k] = r[k]
      BY <1>2, <1>7
    <3> HIDE DEF a
    <3>3. ASSUME NEW k \in DOMAIN a PROVE k = Len(r) + 1 \/ k \in DOMAIN r
      BY <3>2
    <3>4. ASSUME NEW k \in DOMAIN a PROVE \E m \in 1..n : a[k] = items[m] /\ items[m].queue # q
      BY <1>7, <2>1, <2>3, <3>2, <3>3
    <3>5. ASSUME NEW k \in DOMAIN r PROVE r[k].id # items[n].id
      <4>1. PICK m \in 1..(n - 1) : r[k] = items[m]
        BY <1>7
      <4> QED BY <1>2, <2>1, <4>1
    <3>6. ASSUME NEW k \in DOMAIN a, NEW m \in DOMAIN a, k # m PROVE a[k].id # a[m].id
      BY <1>7, <3>2, <3>3, <3>5, <3>6
    <3> QED BY <3>1, <3>2, <3>4, <3>6
  <2> QED BY <2>2, <2>3
<1>8. Kept(<<>>, 0)
  OBVIOUS
<1>9. \A n \in 0..N : Kept(left[n], n)
  <2> HIDE DEF Kept
  <2> HIDE DEF Next1
  <2> DEFINE Fails == {n \in 0..N : ~Kept(left[n], n)}
  <2>1. ASSUME NEW n \in Fails PROVE n # 0 /\ n - 1 \in Fails
    <3>1. n # 0
      BY <1>6, <1>8
    <3>2. n \in 1..N /\ n - 1 \in 0..N
      BY <1>2, <3>1
    <3>3. left[n] = Next1(left[n - 1], n)
      BY <1>6, <3>1
    <3> QED BY <1>7, <3>1, <3>2, <3>3
  <2>2. Fails \in SUBSET (0..N)
    OBVIOUS
  <2>3. Fails = {}
    <3> HIDE DEF Fails
    <3> QED BY <1>2, <2>1, <2>2, NoFirstFailure
  <2> QED BY <2>3
<1>10. Kept(left[N], N)
  <2> HIDE DEF Kept
  <2> QED BY <1>2, <1>9
<1> QED BY <1>1, <1>2, <1>10

-----------------------------------------------------------------------------
(* The inductive invariant. *)

Clear(doc) == \A k, m \in DOMAIN doc.items : k # m => doc.items[k].id # doc.items[m].id

DocOK(doc) ==
    /\ doc \in Document
    /\ Clear(doc)
    /\ \A k, m \in DOMAIN doc.queues : k # m => doc.queues[k].name # doc.queues[m].name
    /\ Len(doc.queues) <= MaxQueues

(* A lookup of the URL of an entry gives the one that was wanted. *)
UrlKnown(doc, sv, w) ==
    \A k \in DOMAIN doc.items :
        LET e == doc.items[k]
        IN  w[e.id] # NoUrl /\ w[e.id] = IF sv[e.id].exists THEN sv[e.id].url ELSE e.url

(* An entry is in a queue that exists, or in one that is gone from the disk *)
(* too, or where its state file has put it.                                 *)
Backed(doc, dk, sv) ==
    \A k \in DOMAIN doc.items :
        LET e == doc.items[k]
        IN  \/ e.queue \in IdsOf(doc.queues)
            \/ e.queue \notin IdsOf(dk.queues)
            \/ sv[e.id].queue = e.queue

Settled(e, sv) == sv[e.id].exists => sv[e.id].queue = e.queue

DataInv ==
    /\ DocOK(mem) /\ DocOK(disk)
    /\ saved \in [Ids -> [exists : BOOLEAN, queue : QueueIds \cup {NoQueue},
                          url : Urls \cup {OldUrl, NoUrl}]]
    /\ wanted \in [Ids -> Urls \cup {OldUrl, NoUrl}]
    /\ UrlKnown(mem, saved, wanted) /\ UrlKnown(disk, saved, wanted)
    /\ Backed(mem, disk, saved)

Ops == {"idle", "detach", "purge", "drop", "list", "listed", "move", "moved", "append", "strip"}

CmdType ==
    /\ cmd \in [op : Ops, item : Ids \cup {"none"}, queue : QueueIds \cup {NoQueue}, pos : Nat]
    /\ cmd.op \in {"detach", "list"} => cmd.pos \in 1..(Len(mem.items) + 1)
    /\ cmd.op \notin {"detach", "list"} => cmd.pos \in 0..1
    /\ cmd.op \in {"detach", "purge", "drop"} =>
          cmd.queue \in QueueIds /\ QueueIndex(mem, cmd.queue) # 0
    /\ cmd.op \in {"move", "moved", "append", "strip"} => cmd.item \in Ids

(* What the earlier calls of the command have reached. *)
CmdInv ==
    /\ cmd.op = "detach" =>
          \A k \in DOMAIN mem.items : k < cmd.pos => mem.items[k].queue # cmd.queue
    /\ cmd.op = "drop" => \A k \in DOMAIN mem.items : mem.items[k].queue # cmd.queue
    /\ cmd.op = "list" /\ clean =>
          \A k \in DOMAIN mem.items : k < cmd.pos => Settled(mem.items[k], saved)
    /\ cmd.op = "listed" /\ clean => \A k \in DOMAIN mem.items : Settled(mem.items[k], saved)
    /\ cmd.op \in {"move", "moved", "strip"} => Listed(cmd.item)
    /\ cmd.op = "moved" => QueueOf(cmd.item) = cmd.queue
    /\ cmd.op = "strip" => saved[cmd.item].exists
    /\ cmd.op = "append" =>
          /\ saved[cmd.item].exists /\ saved[cmd.item].url \in Urls
          /\ ~Listed(cmd.item) /\ ItemIndex(disk, cmd.item) = 0

FlagsInv == scope \in BOOLEAN /\ clean \in BOOLEAN /\ faults \in 0..MaxFaults

IInv == DataInv /\ CmdType /\ CmdInv /\ FlagsInv

-----------------------------------------------------------------------------
(* What the calls make of a list. *)

LEMMA QueueTypes ==
    /\ NoQueue \notin QueueIds
    /\ MaxQueues \in Nat /\ MaxFaults \in Nat
    /\ NoUrl \notin Urls \cup {OldUrl}
<1>1. ASSUME NoQueue \in QueueIds PROVE FALSE
  <2>1. PICK a \in 1..MaxSecond, b \in Rands \cup {0} : NoQueue = <<a, b>>
    BY <1>1 DEF QueueIds
  <2>2. a = 0
    BY <2>1 DEF NoQueue
  <2> QED BY <2>2, CatalogueAssumption
<1> QED BY <1>1, CatalogueAssumption DEF NoUrl

(* A call that changes one field of one entry. *)
Alike(d, doc, k) ==
    /\ d \in Document /\ d.queues = doc.queues /\ DOMAIN d.items = DOMAIN doc.items
    /\ Len(d.items) = Len(doc.items)
    /\ \A m \in DOMAIN doc.items : d.items[m].id = doc.items[m].id
    /\ \A m \in DOMAIN doc.items : m # k => d.items[m] = doc.items[m]

LEMMA FieldOfQueue ==
    ASSUME NEW doc \in Document, NEW k \in DOMAIN doc.items, NEW q \in QueueIds \cup {NoQueue}
    PROVE  /\ Alike([doc EXCEPT !.items[k].queue = q], doc, k)
           /\ [doc EXCEPT !.items[k].queue = q].items[k].queue = q
           /\ [doc EXCEPT !.items[k].queue = q].items[k].url = doc.items[k].url
<1> DEFINE e == [doc.items[k] EXCEPT !.queue = q]
           s == [doc.items EXCEPT ![k] = e]
           d == [doc EXCEPT !.items = s]
<1>1. doc.items \in Seq(Entry) /\ doc.items[k] \in Entry
  BY DEF Document
<1>2. e \in Entry /\ e.id = doc.items[k].id /\ e.queue = q /\ e.url = doc.items[k].url
  BY <1>1 DEF Entry
<1>3. [doc EXCEPT !.items[k].queue = q] = d
  OBVIOUS
<1> HIDE DEF e
<1>4. /\ s \in Seq(Entry) /\ Len(s) = Len(doc.items) /\ DOMAIN s = DOMAIN doc.items
      /\ s[k] = e /\ \A m \in DOMAIN doc.items : m # k => s[m] = doc.items[m]
  BY <1>1, <1>2
<1> HIDE DEF s
<1>5. d \in Document /\ d.items = s /\ d.queues = doc.queues
  BY <1>4 DEF Document
<1> HIDE DEF d
<1> QED BY <1>2, <1>3, <1>4, <1>5 DEF Alike

LEMMA FieldOfUrl ==
    ASSUME NEW doc \in Document, NEW k \in DOMAIN doc.items
    PROVE  /\ Alike([doc EXCEPT !.items[k].url = NoUrl], doc, k)
           /\ [doc EXCEPT !.items[k].url = NoUrl].items[k].queue = doc.items[k].queue
<1> DEFINE e == [doc.items[k] EXCEPT !.url = NoUrl]
           s == [doc.items EXCEPT ![k] = e]
           d == [doc EXCEPT !.items = s]
<1>1. doc.items \in Seq(Entry) /\ doc.items[k] \in Entry
  BY DEF Document
<1>2. e \in Entry /\ e.id = doc.items[k].id /\ e.queue = doc.items[k].queue
  BY <1>1 DEF Entry
<1>3. [doc EXCEPT !.items[k].url = NoUrl] = d
  OBVIOUS
<1> HIDE DEF e
<1>4. /\ s \in Seq(Entry) /\ Len(s) = Len(doc.items) /\ DOMAIN s = DOMAIN doc.items
      /\ s[k] = e /\ \A m \in DOMAIN doc.items : m # k => s[m] = doc.items[m]
  BY <1>1, <1>2
<1> HIDE DEF s
<1>5. d \in Document /\ d.items = s /\ d.queues = doc.queues
  BY <1>4 DEF Document
<1> HIDE DEF d
<1> QED BY <1>2, <1>3, <1>4, <1>5 DEF Alike

LEMMA AlikeIsOK ==
    ASSUME NEW d, NEW doc, NEW k, Alike(d, doc, k), DocOK(doc) PROVE DocOK(d)
BY DEF Alike, DocOK, Clear

(* Ids are found again where they were. *)
LEMMA AlikeIndex ==
    ASSUME NEW d, NEW doc \in Document, NEW k, Alike(d, doc, k), NEW i
    PROVE  ItemIndex(d, i) = ItemIndex(doc, i)
<1>1. DOMAIN d.items = 1..Len(d.items) /\ DOMAIN doc.items = 1..Len(doc.items)
  BY DEF Alike, Document
<1>2. {m \in 1..Len(d.items) : d.items[m].id = i} = {m \in 1..Len(doc.items) : doc.items[m].id = i}
  BY <1>1 DEF Alike
<1> QED BY <1>2 DEF ItemIndex, SelectInSeq

LEMMA IndexOfEntry ==
    ASSUME NEW doc \in Document, Clear(doc), NEW k \in DOMAIN doc.items
    PROVE  ItemIndex(doc, doc.items[k].id) = k /\ doc.items[k] \in Entry /\ k # 0
BY ItemIndexIs DEF Clear, Document

LEMMA FewItems ==
    ASSUME NEW doc \in Document, Clear(doc)
    PROVE  Len(doc.items) \in Nat /\ Len(doc.items) <= Cardinality(Ids)
<1> DEFINE f == [k \in 1..Len(doc.items) |-> doc.items[k].id]
<1>1. doc.items \in Seq(Entry) /\ DOMAIN doc.items = 1..Len(doc.items) /\ Len(doc.items) \in Nat
  BY DEF Document
<1>2. f \in Injection(1..Len(doc.items), Ids)
  <2>1. ASSUME NEW k \in 1..Len(doc.items) PROVE doc.items[k].id \in Ids
    <3>1. doc.items[k] \in Entry
      BY <1>1
    <3> QED BY <3>1 DEF Entry
  <2>2. f \in [1..Len(doc.items) -> Ids]
    BY <2>1
  <2>3. \A a, b \in 1..Len(doc.items) : f[a] = f[b] => a = b
    BY <1>1 DEF Clear
  <2> HIDE DEF f
  <2>4. IsInjective(f)
    BY <2>2, <2>3 DEF IsInjective
  <2> QED BY <2>2, <2>4 DEF Injection
<1>3. Cardinality(1..Len(doc.items)) <= Cardinality(Ids)
  BY <1>2, CatalogueAssumption, FS_Injection
<1>4. Cardinality(1..Len(doc.items)) = Len(doc.items)
  <2>1. PICK n \in Nat : n = Len(doc.items)
    BY <1>1
  <2>2. Cardinality(1..n) = IF 1 > n THEN 0 ELSE n - 1 + 1
    BY FS_Interval
  <2> QED BY <2>1, <2>2
<1> QED BY <1>1, <1>3, <1>4


-----------------------------------------------------------------------------
(* One call, and what it has to see to. *)

OrphanFree ==
    \A q \in IdsOf(disk.queues) \ IdsOf(disk'.queues) : \A k \in DOMAIN disk'.items :
        LET e == disk'.items[k] IN e.queue = q => saved[e.id].queue = q

State == [exists : BOOLEAN, queue : QueueIds \cup {NoQueue}, url : Urls \cup {OldUrl, NoUrl}]

LEMMA StoreKeeps ==
    ASSUME DataInv, NEW doc, DocOK(doc), UrlKnown(doc, saved, wanted),
           Backed(doc, disk, saved), Stored(doc) \/ Unstored(doc),
           UNCHANGED <<saved, wanted>>
    PROVE  DataInv' /\ OrphanFree
<1>1. mem' = doc /\ disk' \in {doc, disk} /\ saved' = saved /\ wanted' = wanted
  BY DEF Stored, Unstored
<1>2. Backed(doc, disk', saved)
  BY <1>1 DEF Backed
<1>3. DocOK(disk') /\ UrlKnown(disk', saved, wanted)
  BY <1>1 DEF DataInv
<1>4. OrphanFree
  BY <1>1 DEF Backed, OrphanFree
<1>5. DataInv'
  <2>1. /\ saved \in [Ids -> [exists : BOOLEAN, queue : QueueIds \cup {NoQueue},
                          url : Urls \cup {OldUrl, NoUrl}]]
        /\ wanted \in [Ids -> Urls \cup {OldUrl, NoUrl}]
    BY DEF DataInv
  <2>2. DocOK(mem)' /\ DocOK(disk)'
    BY <1>1, <1>3 DEF DocOK, Document, Clear
  <2>3. UrlKnown(mem, saved, wanted)' /\ UrlKnown(disk, saved, wanted)' /\ Backed(mem, disk, saved)'
    BY <1>1, <1>2, <1>3 DEF UrlKnown, Backed
  <2> QED BY <1>1, <2>1, <2>2, <2>3 DEF DataInv
<1> QED BY <1>4, <1>5

LEMMA NothingKeeps ==
    ASSUME DataInv, UNCHANGED <<mem, disk, saved, wanted>>
    PROVE  DataInv' /\ OrphanFree
<1>1. OrphanFree
  BY DEF OrphanFree
<1>2. DataInv'
  BY DEF DataInv, DocOK, Document, Clear, UrlKnown, Backed, IdsOf
<1> QED BY <1>1, <1>2

(* A state file that is written for entry i, whose URL is u from then on. *)
LEMMA SavedKeeps ==
    ASSUME DataInv, UNCHANGED <<mem, disk>>, NEW i \in Ids, NEW st \in State,
           NEW u \in Urls \cup {OldUrl, NoUrl},
           saved' \in [Ids -> State], saved'[i] = st, wanted' \in [Ids -> Urls \cup {OldUrl, NoUrl}],
           wanted'[i] = u, \A j \in Ids : j # i => saved'[j] = saved[j] /\ wanted'[j] = wanted[j],
           Listed(i) \/ ItemIndex(disk, i) # 0 => u # NoUrl /\ st.exists /\ st.url = u,
           Listed(i) => \/ st.queue = QueueOf(i)
                        \/ QueueOf(i) \in IdsOf(mem.queues)
                        \/ QueueOf(i) \notin IdsOf(disk.queues)
    PROVE  DataInv' /\ OrphanFree
<1>0. /\ \A doc \in {mem, disk} : \A k \in DOMAIN doc.items :
            doc.items[k].id = i => u # NoUrl /\ st.exists /\ st.url = u
      /\ \A k \in DOMAIN mem.items : mem.items[k].id = i =>
            Listed(i) /\ QueueOf(i) = mem.items[k].queue
  <2>1. \A doc \in {mem, disk} : \A k \in DOMAIN doc.items :
           /\ doc \in Document /\ ItemIndex(doc, doc.items[k].id) = k /\ k # 0
    BY IndexOfEntry DEF DataInv, DocOK
  <2> QED BY <2>1 DEF Listed, QueueOf
<1>1. OrphanFree
  BY DEF OrphanFree
<1>2. ASSUME NEW doc \in {mem, disk} PROVE UrlKnown(doc, saved', wanted')
  <2>1. ASSUME NEW k \in DOMAIN doc.items
        PROVE  LET e == doc.items[k]
               IN  /\ wanted'[e.id] # NoUrl
                   /\ wanted'[e.id] = IF saved'[e.id].exists THEN saved'[e.id].url ELSE e.url
    <3>1. UrlKnown(doc, saved, wanted) /\ doc.items \in Seq(Entry)
      BY DEF DataInv, DocOK, Document
    <3>2. doc.items[k] \in Entry
      BY <3>1
    <3>3. doc.items[k].id \in Ids
      BY <3>2 DEF Entry
    <3>4. CASE doc.items[k].id = i
      BY <1>0, <3>4
    <3>5. CASE doc.items[k].id # i
      BY <3>1, <3>3, <3>5 DEF UrlKnown
    <3> QED BY <3>4, <3>5
  <2> QED BY <2>1 DEF UrlKnown
<1>3. Backed(mem, disk, saved')
  <2>1. ASSUME NEW k \in DOMAIN mem.items
        PROVE  LET e == mem.items[k]
               IN  \/ e.queue \in IdsOf(mem.queues)
                   \/ e.queue \notin IdsOf(disk.queues)
                   \/ saved'[e.id].queue = e.queue
    <3>1. Backed(mem, disk, saved) /\ mem.items \in Seq(Entry)
      BY DEF DataInv, DocOK, Document
    <3>2. mem.items[k] \in Entry
      BY <3>1
    <3>3. mem.items[k].id \in Ids
      BY <3>2 DEF Entry
    <3>4. CASE mem.items[k].id = i
      BY <1>0, <3>4
    <3>5. CASE mem.items[k].id # i
      BY <3>1, <3>3, <3>5 DEF Backed
    <3> QED BY <3>4, <3>5
  <2> QED BY <2>1 DEF Backed
<1>4. DataInv'
  <2>1. DocOK(mem)' /\ DocOK(disk)'
    BY DEF DataInv, DocOK, Document, Clear
  <2>2. UrlKnown(mem, saved, wanted)' /\ UrlKnown(disk, saved, wanted)' /\ Backed(mem, disk, saved)'
    BY <1>2, <1>3 DEF UrlKnown, Backed
  <2> QED BY <2>1, <2>2 DEF DataInv, State
<1> QED BY <1>1, <1>4


LEMMA FlagsKeep ==
    ASSUME FlagsInv, scope' \in BOOLEAN, clean' \in {clean, TRUE, FALSE},
           UNCHANGED faults \/ Fault
    PROVE  FlagsInv'
<1>1. faults' \in 0..MaxFaults
  BY QueueTypes DEF FlagsInv, Fault
<1>2. clean' \in BOOLEAN
  BY Zenon DEF FlagsInv
<1> QED BY <1>1, <1>2 DEF FlagsInv

LEMMA IdleIsFine ==
    ASSUME cmd' = Idle PROVE CmdType' /\ CmdInv'
<1>1. cmd' = [op |-> "idle", item |-> "none", queue |-> NoQueue, pos |-> 0]
  BY DEF Idle
<1>2. CmdType'
  BY <1>1 DEF CmdType, Ops
<1>3. CmdInv'
  BY <1>1 DEF CmdInv
<1> QED BY <1>2, <1>3

(* The queues of a document give their indices. *)
LEMMA SameQueues ==
    ASSUME NEW d, NEW doc, d.queues = doc.queues, NEW q
    PROVE  QueueIndex(d, q) = QueueIndex(doc, q) /\ IdsOf(d.queues) = IdsOf(doc.queues)
BY DEF QueueIndex

-----------------------------------------------------------------------------
(* queue.c *)

LEMMA QueueAddIInv ==
    ASSUME IInv, NEW name \in Names, QueueAdd(name) PROVE IInv' /\ OrphanFree
<1>0. PICK second \in 1..MaxSecond : \E id \in GeneratedIds(second) :
         LET doc == [mem EXCEPT !.queues = Append(@, [id |-> id, name |-> name])]
         IN  Stored(doc) \/ Unstored(doc)
  BY DEF QueueAdd
<1>1. PICK id \in GeneratedIds(second) :
         LET doc == [mem EXCEPT !.queues = Append(@, [id |-> id, name |-> name])]
         IN  Stored(doc) \/ Unstored(doc)
  BY <1>0
<1> DEFINE new == [id |-> id, name |-> name]
           qs == Append(mem.queues, new)
           doc == [mem EXCEPT !.queues = qs]
<1>2. id \in QueueIds
  BY <1>1, CatalogueAssumption DEF GeneratedIds, QueueIds
<1>3. /\ DataInv /\ DocOK(mem) /\ mem \in Document /\ mem.queues \in Seq(Queue)
      /\ Len(mem.queues) < MaxQueues /\ Len(mem.queues) \in Nat /\ MaxQueues \in Nat
      /\ DOMAIN mem.queues = 1..Len(mem.queues)
      /\ \A k \in DOMAIN mem.queues : mem.queues[k].name # name
  BY QueueTypes DEF IInv, DataInv, DocOK, Document, QueueAdd, NamesOf
<1>4. new \in Queue /\ new.name = name
  BY <1>2 DEF Queue
<1> HIDE DEF new
<1>5. /\ qs \in Seq(Queue) /\ Len(qs) = Len(mem.queues) + 1 /\ DOMAIN qs = 1..(Len(mem.queues) + 1)
      /\ qs[Len(mem.queues) + 1] = new /\ \A k \in DOMAIN mem.queues : qs[k] = mem.queues[k]
  BY <1>3, <1>4
<1> HIDE DEF qs
<1>6. doc \in Document /\ doc.queues = qs /\ doc.items = mem.items
  BY <1>3, <1>5 DEF Document
<1>7. Stored(doc) \/ Unstored(doc)
  BY <1>1 DEF new, qs
<1> HIDE DEF doc
<1>8. \A k \in DOMAIN qs : k = Len(mem.queues) + 1 \/ k \in DOMAIN mem.queues
  BY <1>3, <1>5
<1>9. \A k, m \in DOMAIN qs : k # m => qs[k].name # qs[m].name
  BY <1>3, <1>4, <1>5, <1>8 DEF DocOK
<1>10. DocOK(doc)
  BY <1>3, <1>5, <1>6, <1>9 DEF DocOK, Clear
<1>11. UrlKnown(doc, saved, wanted)
  BY <1>6 DEF IInv, DataInv, UrlKnown
<1>12. IdsOf(mem.queues) \subseteq IdsOf(doc.queues)
  <2>1. \A k \in DOMAIN mem.queues : k \in DOMAIN qs /\ qs[k] = mem.queues[k]
    BY <1>3, <1>5
  <2> QED BY <1>6, <2>1 DEF IdsOf
<1>13. Backed(doc, disk, saved)
  BY <1>6, <1>12 DEF IInv, DataInv, Backed
<1>14. DataInv' /\ OrphanFree
  BY <1>3, <1>7, <1>10, <1>11, <1>13, StoreKeeps DEF QueueAdd
<1>15. CmdType' /\ CmdInv'
  BY IdleIsFine DEF QueueAdd
<1>16. FlagsInv'
  BY <1>7, FlagsKeep DEF IInv, FlagsInv, QueueAdd, Stored, Unstored
<1> QED BY <1>14, <1>15, <1>16 DEF IInv

LEMMA QueueEditIInv ==
    ASSUME IInv, NEW q \in QueueIds, NEW name \in Names, QueueEdit(q, name)
    PROVE  IInv' /\ OrphanFree
<1> DEFINE k == QueueIndex(mem, q)
           new == [mem.queues[k] EXCEPT !.name = name]
           qs == [mem.queues EXCEPT ![k] = new]
           doc == [mem EXCEPT !.queues = qs]
<1>1. /\ DataInv /\ DocOK(mem) /\ mem \in Document /\ mem.queues \in Seq(Queue)
  BY DEF IInv, DataInv, DocOK, Document
<1>2. k \in DOMAIN mem.queues
  BY <1>1, QueueIndexIs DEF QueueEdit
<1>3. \A other \in DOMAIN mem.queues \ {k} : mem.queues[other].name # name
  BY DEF QueueEdit
<1>4. Stored(doc) \/ Unstored(doc)
  BY DEF QueueEdit
<1> HIDE DEF k
<1>5. mem.queues[k] \in Queue
  BY <1>1, <1>2
<1>6. new \in Queue /\ new.name = name /\ new.id = mem.queues[k].id
  BY <1>5 DEF Queue
<1> HIDE DEF new
<1>7. /\ qs \in Seq(Queue) /\ Len(qs) = Len(mem.queues) /\ DOMAIN qs = DOMAIN mem.queues
      /\ qs[k] = new /\ \A m \in DOMAIN mem.queues : m # k => qs[m] = mem.queues[m]
  BY <1>1, <1>2, <1>6
<1> HIDE DEF qs
<1>8. doc \in Document /\ doc.queues = qs /\ doc.items = mem.items
  BY <1>1, <1>7 DEF Document
<1> HIDE DEF doc
<1>9. \A a, b \in DOMAIN qs : a # b => qs[a].name # qs[b].name
  BY <1>1, <1>2, <1>3, <1>6, <1>7 DEF DocOK
<1>10. DocOK(doc)
  BY <1>1, <1>7, <1>8, <1>9 DEF DocOK, Clear
<1>11. UrlKnown(doc, saved, wanted)
  BY <1>8 DEF IInv, DataInv, UrlKnown
<1>12. IdsOf(mem.queues) \subseteq IdsOf(doc.queues)
  <2>1. \A m \in DOMAIN mem.queues : m \in DOMAIN qs /\ qs[m].id = mem.queues[m].id
    BY <1>6, <1>7
  <2> QED BY <1>8, <2>1 DEF IdsOf
<1>13. Backed(doc, disk, saved)
  BY <1>8, <1>12 DEF IInv, DataInv, Backed
<1>14. DataInv' /\ OrphanFree
  BY <1>1, <1>4, <1>10, <1>11, <1>13, StoreKeeps DEF QueueEdit
<1>15. CmdType' /\ CmdInv'
  BY IdleIsFine DEF QueueEdit
<1>16. FlagsInv'
  BY <1>4, FlagsKeep DEF IInv, FlagsInv, QueueEdit, Stored, Unstored
<1> QED BY <1>14, <1>15, <1>16 DEF IInv


(* What a change of one field of one entry has to see to. *)
LEMMA AlikeKeeps ==
    ASSUME DataInv, NEW doc, NEW k \in DOMAIN mem.items, Alike(doc, mem, k),
           doc.items[k].url = mem.items[k].url \/ saved[mem.items[k].id].exists,
           \/ doc.items[k].queue \in IdsOf(mem.queues)
           \/ doc.items[k].queue \notin IdsOf(disk.queues)
           \/ doc.items[k].queue = saved[mem.items[k].id].queue
           \/ doc.items[k].queue = mem.items[k].queue
    PROVE  DocOK(doc) /\ UrlKnown(doc, saved, wanted) /\ Backed(doc, disk, saved)
<1>1. DocOK(mem) /\ UrlKnown(mem, saved, wanted) /\ Backed(mem, disk, saved)
  BY DEF DataInv
<1>2. DocOK(doc)
  BY <1>1, AlikeIsOK
<1>3. UrlKnown(doc, saved, wanted)
  <2>1. ASSUME NEW m \in DOMAIN doc.items
        PROVE  LET e == doc.items[m]
               IN  /\ wanted[e.id] # NoUrl
                   /\ wanted[e.id] = IF saved[e.id].exists THEN saved[e.id].url ELSE e.url
    <3>1. m \in DOMAIN mem.items /\ doc.items[m].id = mem.items[m].id
      BY DEF Alike
    <3>2. /\ wanted[mem.items[m].id] # NoUrl
          /\ wanted[mem.items[m].id] = IF saved[mem.items[m].id].exists
                                       THEN saved[mem.items[m].id].url ELSE mem.items[m].url
      BY <1>1, <3>1 DEF UrlKnown
    <3>3. CASE m = k
      BY <3>1, <3>2, <3>3
    <3>4. CASE m # k
      <4>1. doc.items[m] = mem.items[m]
        BY <3>1, <3>4 DEF Alike
      <4> QED BY <3>2, <4>1
    <3> QED BY <3>3, <3>4
  <2> QED BY <2>1 DEF UrlKnown
<1>4. Backed(doc, disk, saved)
  <2>1. ASSUME NEW m \in DOMAIN doc.items
        PROVE  LET e == doc.items[m]
               IN  \/ e.queue \in IdsOf(doc.queues)
                   \/ e.queue \notin IdsOf(disk.queues)
                   \/ saved[e.id].queue = e.queue
    <3>1. m \in DOMAIN mem.items /\ doc.items[m].id = mem.items[m].id
      BY DEF Alike
    <3>2. \/ mem.items[m].queue \in IdsOf(mem.queues)
          \/ mem.items[m].queue \notin IdsOf(disk.queues)
          \/ saved[mem.items[m].id].queue = mem.items[m].queue
      BY <1>1, <3>1 DEF Backed
    <3>3. IdsOf(doc.queues) = IdsOf(mem.queues)
      BY DEF Alike
    <3>4. CASE m = k
      BY <3>1, <3>2, <3>3, <3>4
    <3>5. CASE m # k
      <4>1. doc.items[m] = mem.items[m]
        BY <3>1, <3>5 DEF Alike
      <4> QED BY <3>2, <3>3, <4>1
    <3> QED BY <3>4, <3>5
  <2> QED BY <2>1 DEF Backed
<1> QED BY <1>2, <1>3, <1>4

LEMMA IdsAreIds ==
    ASSUME NEW qs \in Seq(Queue) PROVE IdsOf(qs) \subseteq QueueIds /\ NoQueue \notin IdsOf(qs)
<1>1. \A k \in DOMAIN qs : qs[k] \in Queue
  OBVIOUS
<1>2. \A k \in DOMAIN qs : qs[k].id \in QueueIds
  BY <1>1 DEF Queue
<1> QED BY <1>2, QueueTypes DEF IdsOf

LEMMA QueueRemoveIInv ==
    ASSUME IInv, NEW q \in QueueIds, NEW purge \in BOOLEAN, QueueRemove(q, purge)
    PROVE  IInv' /\ OrphanFree
<1>1. DataInv' /\ OrphanFree
  BY NothingKeeps DEF IInv, QueueRemove
<1>2. /\ cmd' = [op |-> IF purge THEN "purge" ELSE "detach", item |-> "none", queue |-> q, pos |-> 1]
      /\ mem' = mem /\ QueueIndex(mem, q) # 0
  BY DEF QueueRemove, Goto
<1>3. mem \in Document /\ Len(mem.items) \in Nat
  BY DEF IInv, DataInv, DocOK, Document
<1>4. 1 \in 1..(Len(mem.items) + 1) /\ 1 \in 0..1 /\ 1 \in Nat
  BY <1>3
<1>5. QueueIndex(mem', q) # 0
  BY <1>2
<1>6. CmdType'
  BY <1>2, <1>4, <1>5 DEF CmdType, Ops
<1>7. CmdInv'
  <2>1. \A k \in DOMAIN mem.items : ~(k < 1)
    BY <1>3 DEF Document
  <2> QED BY <1>2, <2>1 DEF CmdInv
<1>8. FlagsInv'
  BY FlagsKeep DEF QueueRemove, Begin, IInv, FlagsInv
<1> QED BY <1>1, <1>6, <1>7, <1>8 DEF IInv

LEMMA DetachIInv ==
    ASSUME IInv, Detach PROVE IInv' /\ OrphanFree
<1> DEFINE k == cmd.pos
           here == k \in DOMAIN mem.items /\ mem.items[k].queue = cmd.queue
           doc == [mem EXCEPT !.items[k].queue = NoQueue]
<1>1. /\ cmd.op = "detach" /\ DataInv /\ CmdType /\ CmdInv /\ FlagsInv
      /\ UNCHANGED <<saved, scope, wanted>>
  BY DEF IInv, Detach, At
<1>2. /\ mem \in Document /\ Len(mem.items) \in Nat /\ DOMAIN mem.items = 1..Len(mem.items)
      /\ k \in 1..(Len(mem.items) + 1) /\ cmd.queue \in QueueIds
      /\ QueueIndex(mem, cmd.queue) # 0 /\ NoQueue \notin QueueIds
      /\ IdsOf(disk.queues) \subseteq QueueIds
  <2>1. disk.queues \in Seq(Queue)
    BY <1>1 DEF DataInv, DocOK, Document
  <2>2. IdsOf(disk.queues) \subseteq QueueIds
    BY <2>1, IdsAreIds
  <2> QED BY <1>1, <2>2, QueueTypes DEF DataInv, DocOK, Document, CmdType
<1>3. \A m \in DOMAIN mem.items : m < k => mem.items[m].queue # cmd.queue
  BY <1>1 DEF CmdInv
<1>4. CASE UNCHANGED <<mem, disk, clean, faults>> /\ k > Len(mem.items)
            /\ Goto("drop", "none", cmd.queue, 0)
  <2>1. DataInv' /\ OrphanFree
    BY <1>1, <1>4, NothingKeeps
  <2>2. cmd' = [op |-> "drop", item |-> "none", queue |-> cmd.queue, pos |-> 0]
    BY <1>4 DEF Goto
  <2>3. 0 \in 0..1 /\ 0 \in Nat
    OBVIOUS
  <2>4. CmdType'
    BY <1>2, <1>4, <2>2, <2>3 DEF CmdType, Ops
  <2>5. \A m \in DOMAIN mem.items : m < k
    BY <1>2, <1>4
  <2>6. CmdInv'
    BY <1>3, <1>4, <2>2, <2>5 DEF CmdInv
  <2>7. FlagsInv'
    BY <1>1, <1>4 DEF FlagsInv
  <2> QED BY <2>1, <2>4, <2>6, <2>7 DEF IInv
<1>5. CASE UNCHANGED <<mem, disk, clean, faults>> /\ k <= Len(mem.items) /\ ~here
            /\ Goto("detach", "none", cmd.queue, k + 1)
  <2>1. DataInv' /\ OrphanFree
    BY <1>1, <1>5, NothingKeeps
  <2>2. cmd' = [op |-> "detach", item |-> "none", queue |-> cmd.queue, pos |-> k + 1]
    BY <1>5 DEF Goto
  <2>3. k + 1 \in 1..(Len(mem.items) + 1) /\ k + 1 \in Nat
    BY <1>2, <1>5
  <2>4. CmdType'
    BY <1>2, <1>5, <2>2, <2>3 DEF CmdType, Ops
  <2>5. \A m \in DOMAIN mem.items : m < k + 1 => mem.items[m].queue # cmd.queue
    BY <1>2, <1>3, <1>5
  <2>6. CmdInv'
    BY <1>5, <2>2, <2>5 DEF CmdInv
  <2>7. FlagsInv'
    BY <1>1, <1>5 DEF FlagsInv
  <2> QED BY <2>1, <2>4, <2>6, <2>7 DEF IInv
<1>6. CASE here /\ (Stored(doc) \/ Unstored(doc))
            /\ (Goto("detach", "none", cmd.queue, k + 1) \/ Done)
  <2>1. /\ Alike(doc, mem, k) /\ doc.items[k].queue = NoQueue
        /\ doc.items[k].url = mem.items[k].url /\ k \in DOMAIN mem.items
    BY <1>2, <1>6, FieldOfQueue
  <2>2. mem' = doc
    BY <1>6 DEF Stored, Unstored
  <2> HIDE DEF doc
  <2>3. DocOK(doc) /\ UrlKnown(doc, saved, wanted) /\ Backed(doc, disk, saved)
    BY <1>1, <1>2, <2>1, AlikeKeeps
  <2>4. DataInv' /\ OrphanFree
    BY <1>1, <1>6, <2>3, StoreKeeps
  <2>5. FlagsInv'
    BY <1>1, <1>6, FlagsKeep DEF FlagsInv, Stored, Unstored
  <2>6. CASE Done
    BY <2>4, <2>5, <2>6, IdleIsFine DEF Done, IInv
  <2>7. CASE Goto("detach", "none", cmd.queue, k + 1)
    <3>1. cmd' = [op |-> "detach", item |-> "none", queue |-> cmd.queue, pos |-> k + 1]
      BY <2>7 DEF Goto
    <3>2. Len(doc.items) = Len(mem.items) /\ doc.queues = mem.queues /\ DOMAIN doc.items = DOMAIN mem.items
      BY <2>1 DEF Alike
    <3>3. k + 1 \in 1..(Len(doc.items) + 1) /\ k + 1 \in Nat
      BY <1>2, <2>1, <3>2
    <3>4. QueueIndex(doc, cmd.queue) # 0
      BY <1>2, <3>2, SameQueues
    <3>5. CmdType'
      BY <1>2, <2>2, <3>1, <3>3, <3>4 DEF CmdType, Ops
    <3>6. ASSUME NEW m \in DOMAIN doc.items, m < k + 1 PROVE doc.items[m].queue # cmd.queue
      <4>1. CASE m = k
        BY <1>2, <2>1, <4>1
      <4>2. CASE m # k
        <5>1. m < k /\ m \in DOMAIN mem.items
          BY <1>2, <3>2, <3>6, <4>2
        <5>2. doc.items[m] = mem.items[m]
          BY <2>1, <4>2, <5>1 DEF Alike
        <5> QED BY <1>3, <5>1, <5>2
      <4> QED BY <4>1, <4>2
    <3>7. CmdInv'
      BY <2>2, <3>1, <3>6 DEF CmdInv
    <3> QED BY <2>4, <2>5, <3>5, <3>7 DEF IInv
  <2> QED BY <1>6, <2>6, <2>7
<1> QED BY <1>4, <1>5, <1>6 DEF Detach


LEMMA PurgeIInv ==
    ASSUME IInv, Purge PROVE IInv' /\ OrphanFree
<1> DEFINE left == Outside(mem.items, cmd.queue)
           doc == [mem EXCEPT !.items = left]
<1>1. /\ cmd.op = "purge" /\ DataInv /\ CmdType /\ CmdInv /\ FlagsInv
      /\ UNCHANGED <<saved, scope, wanted>>
      /\ \/ doc = mem /\ UNCHANGED <<mem, disk, clean, faults>> /\ Goto("drop", "none", cmd.queue, 0)
         \/ Stored(doc) /\ Goto("drop", "none", cmd.queue, 0)
         \/ Unstored(doc) /\ Done
  BY DEF IInv, Purge, At
<1>2. /\ mem \in Document /\ mem.items \in Seq(Entry) /\ Clear(mem)
      /\ cmd.queue \in QueueIds /\ QueueIndex(mem, cmd.queue) # 0
  BY <1>1 DEF DataInv, DocOK, Document, CmdType
<1>3. /\ left \in Seq(Entry)
      /\ \A k \in DOMAIN left : \E m \in DOMAIN mem.items :
            left[k] = mem.items[m] /\ mem.items[m].queue # cmd.queue
      /\ \A k, m \in DOMAIN left : k # m => left[k].id # left[m].id
  BY <1>2, OutsideIs DEF Clear
<1> HIDE DEF left
<1>4. doc \in Document /\ doc.items = left /\ doc.queues = mem.queues
  BY <1>2, <1>3 DEF Document
<1> HIDE DEF doc
<1>5. DocOK(doc)
  BY <1>1, <1>3, <1>4 DEF DataInv, DocOK, Clear
<1>6. UrlKnown(doc, saved, wanted)
  BY <1>1, <1>3, <1>4 DEF DataInv, UrlKnown
<1>7. Backed(doc, disk, saved)
  BY <1>1, <1>3, <1>4 DEF DataInv, Backed
<1>8. DataInv' /\ OrphanFree
  <2>1. CASE UNCHANGED <<mem, disk>>
    BY <1>1, <2>1, NothingKeeps
  <2>2. CASE Stored(doc) \/ Unstored(doc)
    BY <1>1, <1>5, <1>6, <1>7, <2>2, StoreKeeps
  <2> QED BY <1>1, <2>1, <2>2
<1>9. FlagsInv'
  BY <1>1, FlagsKeep DEF FlagsInv, Stored, Unstored
<1>10. CASE Done
  BY <1>8, <1>9, <1>10, IdleIsFine DEF Done, IInv
<1>11. CASE mem' = doc /\ Goto("drop", "none", cmd.queue, 0)
  <2>1. cmd' = [op |-> "drop", item |-> "none", queue |-> cmd.queue, pos |-> 0]
    BY <1>11 DEF Goto
  <2>2. 0 \in 0..1 /\ 0 \in Nat
    OBVIOUS
  <2>3. QueueIndex(doc, cmd.queue) # 0
    BY <1>2, <1>4, SameQueues
  <2>4. CmdType'
    BY <1>2, <1>11, <2>1, <2>2, <2>3 DEF CmdType, Ops
  <2>5. \A k \in DOMAIN doc.items : doc.items[k].queue # cmd.queue
    BY <1>3, <1>4
  <2>6. CmdInv'
    BY <1>11, <2>1, <2>5 DEF CmdInv
  <2> QED BY <1>8, <1>9, <2>4, <2>6 DEF IInv
<1> QED BY <1>1, <1>10, <1>11 DEF Stored

LEMMA DropIInv ==
    ASSUME IInv, Drop PROVE IInv' /\ OrphanFree
<1> DEFINE k == QueueIndex(mem, cmd.queue)
           qs == RemoveAt(mem.queues, k)
           doc == [mem EXCEPT !.queues = qs]
<1>1. /\ cmd.op = "drop" /\ DataInv /\ CmdType /\ CmdInv /\ FlagsInv
      /\ UNCHANGED <<saved, scope, wanted>> /\ Done /\ (Stored(doc) \/ Unstored(doc))
  BY DEF IInv, Drop, At
<1>2. /\ mem \in Document /\ mem.queues \in Seq(Queue) /\ DOMAIN mem.queues = 1..Len(mem.queues)
      /\ Len(mem.queues) \in Nat /\ cmd.queue \in QueueIds /\ Len(mem.queues) <= MaxQueues
  BY <1>1 DEF DataInv, DocOK, Document, CmdType
<1>3. k \in 1..Len(mem.queues) /\ mem.queues[k].id = cmd.queue
  BY <1>1, <1>2, QueueIndexIs DEF CmdType
<1> HIDE DEF k
<1>4. /\ qs \in Seq(Queue) /\ Len(qs) = Len(mem.queues) - 1
      /\ \A j \in 1..Len(mem.queues) - 1 :
            qs[j] = IF j < k THEN mem.queues[j] ELSE mem.queues[j + 1]
  BY <1>2, <1>3, RemoveAtIs
<1> HIDE DEF qs
<1>5. DOMAIN qs = 1..(Len(mem.queues) - 1)
  BY <1>4
<1>6. doc \in Document /\ doc.queues = qs /\ doc.items = mem.items
  BY <1>2, <1>4 DEF Document
<1> HIDE DEF doc
<1>7. ASSUME NEW a \in DOMAIN qs, NEW b \in DOMAIN qs, a # b PROVE qs[a].name # qs[b].name
  <2> DEFINE at(j) == IF j < k THEN j ELSE j + 1
  <2>1. at(a) # at(b) /\ at(a) \in DOMAIN mem.queues /\ at(b) \in DOMAIN mem.queues
    BY <1>2, <1>3, <1>5, <1>7
  <2>2. qs[a] = mem.queues[at(a)] /\ qs[b] = mem.queues[at(b)]
    BY <1>4, <1>5
  <2> HIDE DEF at
  <2> QED BY <1>1, <2>1, <2>2 DEF DataInv, DocOK
<1>8. MaxQueues \in Nat /\ Len(qs) <= MaxQueues
  BY <1>2, <1>4, QueueTypes
<1>9. DocOK(doc)
  BY <1>1, <1>6, <1>7, <1>8 DEF DataInv, DocOK, Clear
<1>10. UrlKnown(doc, saved, wanted)
  BY <1>1, <1>6 DEF DataInv, UrlKnown
<1>11. ASSUME NEW q \in IdsOf(mem.queues), q # cmd.queue PROVE q \in IdsOf(qs)
  <2>1. PICK m \in DOMAIN mem.queues : mem.queues[m].id = q
    BY DEF IdsOf
  <2>2. m # k
    BY <1>3, <1>11, <2>1
  <2>3. CASE m < k
    <3>1. m \in DOMAIN qs /\ qs[m] = mem.queues[m]
      BY <1>2, <1>3, <1>4, <1>5, <2>3
    <3> QED BY <2>1, <3>1 DEF IdsOf
  <2>4. CASE m > k
    <3>1. m - 1 \in DOMAIN qs /\ qs[m - 1] = mem.queues[m]
      BY <1>2, <1>3, <1>4, <1>5, <2>4
    <3> QED BY <2>1, <3>1 DEF IdsOf
  <2> QED BY <1>2, <1>3, <2>2, <2>3, <2>4
<1>12. \A m \in DOMAIN mem.items : mem.items[m].queue # cmd.queue
  BY <1>1 DEF CmdInv
<1>13. Backed(doc, disk, saved)
  BY <1>1, <1>6, <1>11, <1>12 DEF DataInv, Backed
<1>14. DataInv' /\ OrphanFree
  BY <1>1, <1>9, <1>10, <1>13, StoreKeeps
<1>15. FlagsInv'
  BY <1>1, FlagsKeep DEF FlagsInv, Stored, Unstored
<1> QED BY <1>1, <1>14, <1>15, IdleIsFine DEF Done, IInv

-----------------------------------------------------------------------------
(* The queue of an entry. *)

LEMMA SaveStateIs ==
    ASSUME NEW i, NEW st, SaveState(i, st)
    PROVE  /\ \/ saved' = saved /\ clean' = FALSE
              \/ saved' = [saved EXCEPT ![i] = st] /\ clean' = clean
           /\ clean' \in {clean, FALSE} /\ (UNCHANGED faults \/ Fault)
BY DEF SaveState

(* An entry that is listed is in one place, with its queue there. *)
LEMMA ListedIs ==
    ASSUME DataInv, NEW i, Listed(i)
    PROVE  /\ ItemIndex(mem, i) \in DOMAIN mem.items
           /\ mem.items[ItemIndex(mem, i)].id = i
           /\ \A k \in DOMAIN mem.items : mem.items[k].id = i => k = ItemIndex(mem, i)
           /\ QueueOf(i) = mem.items[ItemIndex(mem, i)].queue
           /\ QueueOf(i) \in QueueIds \cup {NoQueue}
           /\ i \in Ids
<1>1. mem \in Document /\ Clear(mem) /\ mem.items \in Seq(Entry)
  BY DEF DataInv, DocOK, Document
<1>2. /\ ItemIndex(mem, i) \in DOMAIN mem.items
      /\ mem.items[ItemIndex(mem, i)].id = i
  BY <1>1, ItemIndexIs DEF Listed
<1>3. mem.items[ItemIndex(mem, i)] \in Entry
  BY <1>1, <1>2
<1> QED BY <1>1, <1>2, <1>3 DEF Clear, Entry, QueueOf


(* A state file that gets another queue and keeps its URL. *)
LEMMA QueueSaved ==
    ASSUME DataInv, NEW i, Listed(i), saved[i].exists, NEW q \in QueueIds \cup {NoQueue},
           QueueOf(i) = q, UNCHANGED <<mem, disk, wanted>>,
           saved' = [saved EXCEPT ![i] = [saved[i] EXCEPT !.queue = q]]
    PROVE  /\ DataInv' /\ OrphanFree
           /\ saved'[i].queue = q /\ saved'[i].exists = saved[i].exists /\ saved'[i].url = saved[i].url
           /\ \A j \in Ids : j # i => saved'[j] = saved[j]
<1> DEFINE st == [saved[i] EXCEPT !.queue = q]
<1>1. i \in Ids /\ saved \in [Ids -> State] /\ wanted \in [Ids -> Urls \cup {OldUrl, NoUrl}]
  BY ListedIs DEF DataInv, State
<1>2. st \in State /\ st.queue = q /\ st.exists = saved[i].exists /\ st.url = saved[i].url
  BY <1>1 DEF State
<1>3. saved' = [saved EXCEPT ![i] = st]
  OBVIOUS
<1> HIDE DEF st
<1>4. PICK u \in Urls \cup {OldUrl, NoUrl} : u = wanted[i]
  BY <1>1
<1>5. /\ saved' \in [Ids -> State] /\ saved'[i] = st /\ wanted'[i] = u /\ UNCHANGED <<mem, disk>>
      /\ wanted' \in [Ids -> Urls \cup {OldUrl, NoUrl}]
      /\ \A j \in Ids : j # i => saved'[j] = saved[j] /\ wanted'[j] = wanted[j]
  BY <1>1, <1>2, <1>3, <1>4
<1>6. u # NoUrl /\ st.exists /\ st.url = u
  <2>1. /\ ItemIndex(mem, i) \in DOMAIN mem.items /\ mem.items[ItemIndex(mem, i)].id = i
        /\ UrlKnown(mem, saved, wanted)
    BY ListedIs DEF DataInv
  <2> QED BY <1>2, <1>4, <2>1 DEF UrlKnown
<1>7. DataInv' /\ OrphanFree
  BY <1>1, <1>2, <1>5, <1>6, SavedKeeps
<1> QED BY <1>2, <1>5, <1>7

(* What a reconciliation leaves. *)
LEMMA ReconcileKeeps ==
    ASSUME IInv, NEW i, Listed(i), Reconcile(i), UNCHANGED <<scope, wanted>>
    PROVE  /\ DataInv' /\ OrphanFree /\ FlagsInv'
           /\ clean' \in {clean, FALSE}
           /\ mem'.queues = mem.queues /\ Len(mem'.items) = Len(mem.items)
           /\ DOMAIN mem'.items = DOMAIN mem.items
           /\ \A j : ItemIndex(mem', j) = ItemIndex(mem, j)
           /\ \A k \in DOMAIN mem.items : k # ItemIndex(mem, i) => mem'.items[k] = mem.items[k]
           /\ \A j \in Ids : j # i => saved'[j] = saved[j]
           /\ clean' = TRUE => Settled(mem'.items[ItemIndex(mem, i)], saved')
<1> DEFINE k == ItemIndex(mem, i)
           s == saved[i].queue
           q == QueueOf(i)
           doc == [mem EXCEPT !.items[k].queue = s]
<1>1. DataInv /\ FlagsInv /\ mem \in Document /\ saved \in [Ids -> State]
  BY DEF IInv, DataInv, DocOK, State
<1>2. /\ k \in DOMAIN mem.items /\ mem.items[k].id = i /\ i \in Ids /\ q = mem.items[k].queue
      /\ q \in QueueIds \cup {NoQueue} /\ s \in QueueIds \cup {NoQueue}
  BY <1>1, ListedIs DEF State
<1>3. CASE /\ ~saved[i].exists \/ q = s
           /\ UNCHANGED <<mem, disk, saved, clean, faults>>
  <2>1. DataInv' /\ OrphanFree
    BY <1>1, <1>3, NothingKeeps
  <2>2. FlagsInv'
    BY <1>1, <1>3 DEF FlagsInv
  <2>3. Settled(mem'.items[k], saved')
    BY <1>2, <1>3 DEF Settled
  <2> QED BY <1>3, <2>1, <2>2, <2>3
<1>4. CASE /\ saved[i].exists /\ q = NoQueue /\ s # NoQueue
           /\ Stored(doc) \/ Unstored(doc)
           /\ UNCHANGED saved
  <2>1. Alike(doc, mem, k) /\ doc.items[k].queue = s /\ doc.items[k].url = mem.items[k].url
    BY <1>1, <1>2, FieldOfQueue
  <2> HIDE DEF doc
  <2>2. DocOK(doc) /\ UrlKnown(doc, saved, wanted) /\ Backed(doc, disk, saved)
    BY <1>1, <1>2, <2>1, AlikeKeeps
  <2>3. DataInv' /\ OrphanFree
    BY <1>1, <1>4, <2>2, StoreKeeps
  <2>4. FlagsInv'
    BY <1>1, <1>4, FlagsKeep DEF FlagsInv, Stored, Unstored
  <2>5. mem' = doc /\ clean' \in {clean, FALSE}
    BY <1>4 DEF Stored, Unstored
  <2>6. doc.items[k].id = i
    BY <1>2, <2>1 DEF Alike
  <2>7. Settled(mem'.items[k], saved')
    BY <1>4, <2>1, <2>5, <2>6 DEF Settled
  <2>8. \A j : ItemIndex(doc, j) = ItemIndex(mem, j)
    BY <1>1, <2>1, AlikeIndex
  <2> QED BY <1>4, <2>1, <2>3, <2>4, <2>5, <2>7, <2>8 DEF Alike
<1>5. CASE /\ saved[i].exists /\ q # NoQueue /\ q # s
           /\ SaveState(i, [saved[i] EXCEPT !.queue = q])
           /\ UNCHANGED storeVars
  <2>1. clean' \in {clean, FALSE} /\ (UNCHANGED faults \/ Fault) /\ mem' = mem /\ disk' = disk
    BY <1>5, SaveStateIs DEF storeVars
  <2>2. FlagsInv'
    BY <1>1, <2>1, FlagsKeep DEF FlagsInv
  <2>3. CASE saved' = saved /\ clean' = FALSE
    <3>1. DataInv' /\ OrphanFree
      BY <1>1, <2>1, <2>3, NothingKeeps
    <3> QED BY <2>1, <2>2, <2>3, <3>1
  <2>4. CASE saved' = [saved EXCEPT ![i] = [saved[i] EXCEPT !.queue = q]]
    <3>1. /\ DataInv' /\ OrphanFree /\ saved'[i].queue = q
          /\ \A j \in Ids : j # i => saved'[j] = saved[j]
      BY <1>1, <1>2, <1>5, <2>1, <2>4, QueueSaved
    <3>2. Settled(mem'.items[k], saved')
      BY <1>2, <2>1, <3>1 DEF Settled
    <3> QED BY <2>1, <2>2, <3>1, <3>2
  <2> QED BY <1>5, <2>3, <2>4, SaveStateIs
<1> QED BY <1>3, <1>4, <1>5 DEF Reconcile, WithQueue


LEMMA ListIInv ==
    ASSUME IInv, List \/ ListAnswer PROVE IInv' /\ OrphanFree
<1>1. UNCHANGED <<mem, disk, saved, scope, wanted, faults>> /\ clean' \in {clean, TRUE}
  BY DEF List, ListAnswer, Begin
<1>2. DataInv' /\ OrphanFree
  BY <1>1, NothingKeeps DEF IInv
<1>3. FlagsInv'
  BY <1>1, FlagsKeep DEF IInv, FlagsInv
<1>4. CASE ListAnswer
  BY <1>2, <1>3, <1>4, IdleIsFine DEF ListAnswer, Done, IInv
<1>5. CASE List
  <2>1. cmd' = [op |-> "list", item |-> "none", queue |-> NoQueue, pos |-> 1]
    BY <1>5 DEF List, Goto
  <2>2. mem \in Document /\ Len(mem.items) \in Nat /\ DOMAIN mem.items = 1..Len(mem.items)
    BY DEF IInv, DataInv, DocOK, Document
  <2>3. 1 \in 1..(Len(mem.items) + 1) /\ 1 \in Nat
    BY <2>2
  <2>4. CmdType'
    BY <1>1, <2>1, <2>3 DEF CmdType, Ops
  <2>5. \A k \in DOMAIN mem.items : ~(k < 1)
    BY <2>2
  <2>6. CmdInv'
    BY <1>1, <2>1, <2>5 DEF CmdInv
  <2> QED BY <1>2, <1>3, <2>4, <2>6 DEF IInv
<1> QED BY <1>4, <1>5

LEMMA ListEntryIInv ==
    ASSUME IInv, ListEntry PROVE IInv' /\ OrphanFree
<1> DEFINE p == cmd.pos
<1>1. /\ cmd.op = "list" /\ DataInv /\ CmdType /\ CmdInv /\ FlagsInv
      /\ UNCHANGED <<scope, wanted>>
  BY DEF IInv, ListEntry, At
<1>2. /\ mem \in Document /\ Clear(mem) /\ Len(mem.items) \in Nat
      /\ DOMAIN mem.items = 1..Len(mem.items) /\ p \in 1..(Len(mem.items) + 1)
      /\ mem.items \in Seq(Entry)
  BY <1>1 DEF DataInv, DocOK, Document, CmdType
<1>3. clean => \A k \in DOMAIN mem.items : k < p => Settled(mem.items[k], saved)
  BY <1>1 DEF CmdInv
<1>4. CASE /\ p \in DOMAIN mem.items /\ Reconcile(mem.items[p].id)
           /\ Goto("list", "none", NoQueue, p + 1)
  <2> DEFINE i == mem.items[p].id
  <2>1. ItemIndex(mem, i) = p /\ p # 0
    BY <1>2, <1>4, IndexOfEntry
  <2>2. Listed(i)
    BY <2>1 DEF Listed
  <2>3. Reconcile(i)
    BY <1>4
  <2>4. \A k \in DOMAIN mem.items : mem.items[k] \in Entry
    BY <1>2
  <2>5. \A k \in DOMAIN mem.items : k # p => mem.items[k].id \in Ids /\ mem.items[k].id # i
    BY <1>2, <1>4, <2>4 DEF Clear, Entry
  <2> HIDE DEF i
  <2>6. /\ DataInv' /\ OrphanFree /\ FlagsInv'
        /\ clean' \in {clean, FALSE}
        /\ mem'.queues = mem.queues /\ Len(mem'.items) = Len(mem.items)
        /\ DOMAIN mem'.items = DOMAIN mem.items
        /\ \A k \in DOMAIN mem.items : k # p => mem'.items[k] = mem.items[k]
        /\ \A j \in Ids : j # i => saved'[j] = saved[j]
        /\ clean' = TRUE => Settled(mem'.items[p], saved')
    BY <1>1, <2>1, <2>2, <2>3, ReconcileKeeps
  <2>7. cmd' = [op |-> "list", item |-> "none", queue |-> NoQueue, pos |-> p + 1]
    BY <1>4 DEF Goto
  <2>8. p + 1 \in 1..(Len(mem'.items) + 1) /\ p + 1 \in Nat
    BY <1>2, <1>4, <2>6
  <2>9. CmdType'
    BY <2>7, <2>8 DEF CmdType, Ops
  <2>10. ASSUME clean', NEW k \in DOMAIN mem'.items, k < p + 1
         PROVE  Settled(mem'.items[k], saved')
    <3>1. clean' = TRUE /\ clean = TRUE
      BY <2>6, <2>10, <1>1, Zenon DEF FlagsInv
    <3>2. CASE k = p
      BY <2>6, <3>1, <3>2
    <3>3. CASE k # p
      <4>1. k < p /\ k \in DOMAIN mem.items
        BY <1>2, <2>6, <2>10, <3>3
      <4>2. mem'.items[k] = mem.items[k] /\ saved'[mem.items[k].id] = saved[mem.items[k].id]
        BY <2>5, <2>6, <3>3, <4>1
      <4> QED BY <1>3, <3>1, <4>1, <4>2 DEF Settled
    <3> QED BY <3>2, <3>3
  <2>11. CmdInv'
    BY <2>7, <2>10 DEF CmdInv
  <2> QED BY <2>6, <2>9, <2>11 DEF IInv
<1>5. CASE /\ p \notin DOMAIN mem.items /\ Goto("listed", "none", NoQueue, 0)
           /\ UNCHANGED <<mem, disk, saved, clean, faults>>
  <2>1. DataInv' /\ OrphanFree
    BY <1>1, <1>5, NothingKeeps
  <2>2. FlagsInv'
    BY <1>1, <1>5 DEF FlagsInv
  <2>3. cmd' = [op |-> "listed", item |-> "none", queue |-> NoQueue, pos |-> 0]
    BY <1>5 DEF Goto
  <2>4. 0 \in 0..1 /\ 0 \in Nat
    OBVIOUS
  <2>5. CmdType'
    BY <2>3, <2>4 DEF CmdType, Ops
  <2>6. \A k \in DOMAIN mem.items : k < p
    BY <1>2, <1>5
  <2>7. CmdInv'
    BY <1>3, <1>5, <2>3, <2>6 DEF CmdInv
  <2> QED BY <2>1, <2>2, <2>5, <2>7 DEF IInv
<1> QED BY <1>4, <1>5 DEF ListEntry

LEMMA SetQueueIInv ==
    ASSUME IInv, NEW i \in Ids, NEW q \in QueueIds \cup {NoQueue}, SetQueue(i, q)
    PROVE  IInv' /\ OrphanFree
<1>1. /\ Listed(i) /\ Reconcile(i) /\ UNCHANGED <<scope, wanted>>
      /\ cmd' = [op |-> "move", item |-> i, queue |-> q, pos |-> 0]
  BY DEF SetQueue, Goto
<1>2. /\ DataInv' /\ OrphanFree /\ FlagsInv'
      /\ ItemIndex(mem', i) = ItemIndex(mem, i)
  BY <1>1, ReconcileKeeps
<1>3. 0 \in 0..1 /\ 0 \in Nat
  OBVIOUS
<1>4. CmdType'
  BY <1>1, <1>3 DEF CmdType, Ops
<1>5. CmdInv'
  BY <1>1, <1>2 DEF CmdInv, Listed
<1> QED BY <1>2, <1>4, <1>5 DEF IInv

LEMMA MoveIInv ==
    ASSUME IInv, Move PROVE IInv' /\ OrphanFree
<1> DEFINE i == cmd.item
           k == ItemIndex(mem, i)
           doc == [mem EXCEPT !.items[k].queue = cmd.queue]
<1>1. /\ cmd.op = "move" /\ DataInv /\ CmdType /\ CmdInv /\ FlagsInv
      /\ UNCHANGED <<saved, scope, wanted>>
  BY DEF IInv, Move, At
<1>2. /\ mem \in Document /\ Listed(i) /\ i \in Ids /\ cmd.queue \in QueueIds \cup {NoQueue}
  BY <1>1 DEF DataInv, DocOK, CmdType, CmdInv
<1>3. k \in DOMAIN mem.items /\ mem.items[k].id = i
  BY <1>1, <1>2, ListedIs
<1>4. CASE Done /\ UNCHANGED <<mem, disk, clean, faults>>
  <2>1. DataInv' /\ OrphanFree
    BY <1>1, <1>4, NothingKeeps
  <2>2. FlagsInv'
    BY <1>1, <1>4 DEF FlagsInv
  <2> QED BY <1>4, <2>1, <2>2, IdleIsFine DEF Done, IInv
<1>5. CASE /\ cmd.queue = NoQueue \/ QueueIndex(mem, cmd.queue) # 0
           /\ Stored(doc) \/ Unstored(doc)
           /\ Done \/ Goto("moved", i, cmd.queue, 0)
  <2>1. /\ Alike(doc, mem, k) /\ doc.items[k].queue = cmd.queue
        /\ doc.items[k].url = mem.items[k].url
    BY <1>2, <1>3, FieldOfQueue
  <2>2. mem' = doc
    BY <1>5 DEF Stored, Unstored
  <2> HIDE DEF doc
  <2>3. cmd.queue \in IdsOf(mem.queues) \/ cmd.queue \notin IdsOf(disk.queues)
    <3>1. CASE cmd.queue = NoQueue
      BY <1>1, <3>1, IdsAreIds DEF DataInv, DocOK, Document
    <3>2. CASE QueueIndex(mem, cmd.queue) # 0
      BY <1>2, <3>2, QueueIndexIs DEF IdsOf
    <3> QED BY <1>5, <3>1, <3>2
  <2>4. DocOK(doc) /\ UrlKnown(doc, saved, wanted) /\ Backed(doc, disk, saved)
    BY <1>1, <1>3, <2>1, <2>3, AlikeKeeps
  <2>5. DataInv' /\ OrphanFree
    BY <1>1, <1>5, <2>4, StoreKeeps
  <2>6. FlagsInv'
    BY <1>1, <1>5, FlagsKeep DEF FlagsInv, Stored, Unstored
  <2>7. CASE Done
    BY <2>5, <2>6, <2>7, IdleIsFine DEF Done, IInv
  <2>8. CASE Goto("moved", i, cmd.queue, 0)
    <3>1. cmd' = [op |-> "moved", item |-> i, queue |-> cmd.queue, pos |-> 0]
      BY <2>8 DEF Goto
    <3>2. 0 \in 0..1 /\ 0 \in Nat
      OBVIOUS
    <3>3. CmdType'
      BY <1>2, <3>1, <3>2 DEF CmdType, Ops
    <3>4. ItemIndex(mem', i) = k
      BY <1>2, <2>1, <2>2, AlikeIndex
    <3>5. k # 0
      BY <1>2 DEF Listed
    <3>6. CmdInv'
      BY <2>1, <2>2, <3>1, <3>4, <3>5 DEF CmdInv, Listed, QueueOf
    <3> QED BY <2>5, <2>6, <3>3, <3>6 DEF IInv
  <2> QED BY <1>5, <2>7, <2>8
<1> QED BY <1>4, <1>5 DEF Move, WithQueue

LEMMA MovedIInv ==
    ASSUME IInv, Moved PROVE IInv' /\ OrphanFree
<1> DEFINE i == cmd.item
<1>1. /\ cmd.op = "moved" /\ DataInv /\ CmdType /\ CmdInv /\ FlagsInv
      /\ UNCHANGED <<mem, disk, scope, wanted>> /\ Done
  BY DEF IInv, Moved, At
<1>2. Listed(i) /\ QueueOf(i) = cmd.queue /\ cmd.queue \in QueueIds \cup {NoQueue}
  BY <1>1 DEF CmdType, CmdInv
<1>3. CASE UNCHANGED <<saved, clean, faults>>
  <2>1. DataInv' /\ OrphanFree
    BY <1>1, <1>3, NothingKeeps
  <2>2. FlagsInv'
    BY <1>1, <1>3 DEF FlagsInv
  <2> QED BY <1>1, <2>1, <2>2, IdleIsFine DEF Done, IInv
<1>4. CASE saved[i].exists /\ SaveState(i, [saved[i] EXCEPT !.queue = cmd.queue])
  <2>1. DataInv' /\ OrphanFree
    <3>1. CASE saved' = saved
      BY <1>1, <3>1, NothingKeeps
    <3>2. CASE saved' = [saved EXCEPT ![i] = [saved[i] EXCEPT !.queue = cmd.queue]]
      BY <1>1, <1>2, <1>4, <3>2, QueueSaved
    <3> QED BY <1>4, <3>1, <3>2, SaveStateIs
  <2>2. FlagsInv'
    BY <1>1, <1>4, SaveStateIs, FlagsKeep DEF FlagsInv
  <2> QED BY <1>1, <2>1, <2>2, IdleIsFine DEF Done, IInv
<1> QED BY <1>3, <1>4 DEF Moved


-----------------------------------------------------------------------------
(* Entries and their URLs. *)

LEMMA EnqueueIInv ==
    ASSUME IInv, NEW i \in Ids, NEW q \in QueueIds \cup {NoQueue}, NEW u \in Urls, Enqueue(i, q, u)
    PROVE  IInv' /\ OrphanFree
<1> DEFINE st == [exists |-> TRUE, queue |-> q, url |-> u]
<1>1. /\ DataInv /\ FlagsInv /\ wanted[i] = NoUrl /\ ~saved[i].exists
      /\ saved' = [saved EXCEPT ![i] = st] /\ UNCHANGED <<mem, disk>> /\ wanted' = wanted
      /\ saved \in [Ids -> State] /\ wanted \in [Ids -> Urls \cup {OldUrl, NoUrl}]
      /\ cmd' = [op |-> "append", item |-> i, queue |-> q, pos |-> 0]
  BY DEF IInv, Enqueue, DataInv, State, Goto
<1>2. ~Listed(i) /\ ItemIndex(disk, i) = 0
  <2>1. ASSUME NEW doc \in {mem, disk} PROVE ItemIndex(doc, i) = 0
    <3>1. doc \in Document /\ UrlKnown(doc, saved, wanted)
      BY <1>1 DEF DataInv, DocOK
    <3>2. SUFFICES ASSUME NEW k \in DOMAIN doc.items, doc.items[k].id = i PROVE FALSE
      BY <3>1, ItemIndexIs
    <3> QED BY <1>1, <3>1, <3>2 DEF UrlKnown
  <2> QED BY <2>1 DEF Listed
<1>3. st \in State /\ st.exists = TRUE /\ st.url = u
  BY DEF State
<1> HIDE DEF st
<1>4. PICK w \in Urls \cup {OldUrl, NoUrl} : w = wanted[i]
  BY <1>1
<1>5. /\ saved' \in [Ids -> State] /\ saved'[i] = st /\ wanted'[i] = w /\ UNCHANGED <<mem, disk>>
      /\ wanted' \in [Ids -> Urls \cup {OldUrl, NoUrl}]
      /\ \A j \in Ids : j # i => saved'[j] = saved[j] /\ wanted'[j] = wanted[j]
  BY <1>1, <1>3, <1>4
<1>6. DataInv' /\ OrphanFree
  BY <1>1, <1>2, <1>3, <1>5, SavedKeeps
<1>7. FlagsInv'
  BY <1>1, FlagsKeep DEF FlagsInv, Enqueue, Begin
<1>8. 0 \in 0..1 /\ 0 \in Nat
  OBVIOUS
<1>9. CmdType'
  BY <1>1, <1>8 DEF CmdType, Ops
<1>10. CmdInv'
  BY <1>1, <1>2, <1>3, <1>5 DEF CmdInv, Listed
<1> QED BY <1>6, <1>7, <1>9, <1>10 DEF IInv

LEMMA EnqueueEntryIInv ==
    ASSUME IInv, EnqueueEntry PROVE IInv' /\ OrphanFree
<1> DEFINE i == cmd.item
           entry == [id |-> i, queue |-> saved[i].queue, url |-> NoUrl]
           items == Append(mem.items, entry)
           doc == [mem EXCEPT !.items = items]
<1>1. /\ cmd.op = "append" /\ DataInv /\ CmdType /\ CmdInv /\ FlagsInv
      /\ Stored(doc) \/ Unstored(doc)
      /\ Done /\ wanted' = [wanted EXCEPT ![i] = saved[i].url] /\ saved' = saved /\ scope' = scope
  BY DEF IInv, EnqueueEntry, At
<1>2. /\ i \in Ids /\ saved[i].exists /\ saved[i].url \in Urls
      /\ ~Listed(i) /\ ItemIndex(disk, i) = 0
  BY <1>1 DEF CmdType, CmdInv
<1>3. /\ mem \in Document /\ mem.items \in Seq(Entry) /\ Len(mem.items) \in Nat
      /\ DOMAIN mem.items = 1..Len(mem.items)
      /\ disk \in Document /\ disk.items \in Seq(Entry)
      /\ saved \in [Ids -> State] /\ wanted \in [Ids -> Urls \cup {OldUrl, NoUrl}]
  BY <1>1 DEF DataInv, DocOK, Document, State
<1>4. entry \in Entry /\ entry.id = i /\ entry.queue = saved[i].queue
  BY <1>2, <1>3 DEF Entry, State
<1> HIDE DEF entry
<1>5. /\ items \in Seq(Entry) /\ Len(items) = Len(mem.items) + 1
      /\ DOMAIN items = 1..(Len(mem.items) + 1)
      /\ items[Len(mem.items) + 1] = entry /\ \A k \in DOMAIN mem.items : items[k] = mem.items[k]
  BY <1>3, <1>4
<1> HIDE DEF items
<1>6. doc \in Document /\ doc.items = items /\ doc.queues = mem.queues
  BY <1>3, <1>5 DEF Document
<1> HIDE DEF doc
<1>7. \A k \in DOMAIN items : k = Len(mem.items) + 1 \/ k \in DOMAIN mem.items
  BY <1>3, <1>5
<1>8. /\ \A k \in DOMAIN mem.items : mem.items[k].id # i
      /\ \A k \in DOMAIN disk.items : disk.items[k].id # i
  <2>1. ASSUME NEW d \in {mem, disk}, NEW k \in DOMAIN d.items, d.items[k].id = i PROVE FALSE
    <3>1. d \in Document /\ Clear(d) /\ ItemIndex(d, i) = 0
      BY <1>1, <1>2 DEF DataInv, DocOK, Listed
    <3> QED BY <2>1, <3>1, IndexOfEntry
  <2> QED BY <2>1
<1>9. DocOK(doc)
  <2>1. \A k, m \in DOMAIN items : k # m => items[k].id # items[m].id
    BY <1>1, <1>4, <1>5, <1>7, <1>8 DEF DataInv, DocOK, Clear
  <2> QED BY <1>1, <1>6, <2>1 DEF DataInv, DocOK, Clear
<1>10. /\ wanted' \in [Ids -> Urls \cup {OldUrl, NoUrl}] /\ wanted'[i] = saved[i].url
       /\ \A j \in Ids : j # i => wanted'[j] = wanted[j]
  BY <1>1, <1>2, <1>3
<1>11. ASSUME NEW d \in {mem, disk} PROVE UrlKnown(d, saved, wanted')
  <2>1. ASSUME NEW k \in DOMAIN d.items
        PROVE  d.items[k].id \in Ids /\ wanted'[d.items[k].id] = wanted[d.items[k].id]
    <3>1. d.items[k] \in Entry /\ d.items[k].id # i
      BY <1>3, <1>8
    <3> QED BY <1>10, <3>1 DEF Entry
  <2>2. UrlKnown(d, saved, wanted)
    BY <1>1 DEF DataInv
  <2> QED BY <2>1, <2>2 DEF UrlKnown
<1>12. UrlKnown(doc, saved, wanted')
  <2>1. wanted'[i] # NoUrl
    BY <1>2, <1>10, QueueTypes
  <2>2. ASSUME NEW k \in DOMAIN doc.items
        PROVE  LET e == doc.items[k]
               IN  /\ wanted'[e.id] # NoUrl
                   /\ wanted'[e.id] = IF saved[e.id].exists THEN saved[e.id].url ELSE e.url
    <3>1. CASE k \in DOMAIN mem.items
      <4>1. doc.items[k] = mem.items[k]
        BY <1>5, <1>6, <3>1
      <4> QED BY <1>11, <3>1, <4>1 DEF UrlKnown
    <3>2. CASE k = Len(mem.items) + 1
      <4>1. doc.items[k] = entry
        BY <1>5, <1>6, <3>2
      <4> QED BY <1>2, <1>4, <1>10, <2>1, <4>1
    <3> QED BY <1>6, <1>7, <3>1, <3>2
  <2> QED BY <2>2 DEF UrlKnown
<1>13. Backed(doc, disk, saved)
  <2>1. ASSUME NEW k \in DOMAIN doc.items
        PROVE  LET e == doc.items[k]
               IN  \/ e.queue \in IdsOf(doc.queues)
                   \/ e.queue \notin IdsOf(disk.queues)
                   \/ saved[e.id].queue = e.queue
    <3>1. CASE k \in DOMAIN mem.items
      <4>1. doc.items[k] = mem.items[k] /\ doc.queues = mem.queues /\ Backed(mem, disk, saved)
        BY <1>1, <1>5, <1>6, <3>1 DEF DataInv
      <4> QED BY <3>1, <4>1 DEF Backed
    <3>2. CASE k = Len(mem.items) + 1
      <4>1. doc.items[k] = entry
        BY <1>5, <1>6, <3>2
      <4> QED BY <1>4, <4>1
    <3> QED BY <1>6, <1>7, <3>1, <3>2
  <2> QED BY <2>1 DEF Backed
<1>14. mem' = doc /\ disk' \in {doc, disk}
  BY <1>1 DEF Stored, Unstored
<1>15. OrphanFree
  BY <1>13, <1>14 DEF Backed, OrphanFree
<1>16. DataInv'
  <2>1. Backed(doc, disk', saved)
    BY <1>13, <1>14 DEF Backed
  <2>2. DocOK(disk') /\ UrlKnown(disk', saved, wanted')
    BY <1>1, <1>9, <1>11, <1>12, <1>14 DEF DataInv
  <2>3. DocOK(mem)' /\ DocOK(disk)'
    BY <1>9, <1>14, <2>2 DEF DocOK, Document, Clear
  <2>4. UrlKnown(mem, saved, wanted)' /\ UrlKnown(disk, saved, wanted)' /\ Backed(mem, disk, saved)'
    BY <1>1, <1>12, <1>14, <2>1, <2>2 DEF UrlKnown, Backed
  <2> QED BY <1>1, <1>3, <1>10, <2>3, <2>4 DEF DataInv, State
<1>17. FlagsInv'
  BY <1>1, FlagsKeep DEF FlagsInv, Stored, Unstored
<1> QED BY <1>1, <1>15, <1>16, <1>17, IdleIsFine DEF Done, IInv


LEMMA SetUrlIInv ==
    ASSUME IInv, NEW i \in Ids, NEW u \in Urls, SetUrl(i, u) PROVE IInv' /\ OrphanFree
<1> DEFINE st == [saved[i] EXCEPT !.url = u]
<1>1. /\ DataInv /\ FlagsInv /\ Listed(i) /\ saved[i].exists
      /\ saved' = [saved EXCEPT ![i] = st] /\ wanted' = [wanted EXCEPT ![i] = u]
      /\ UNCHANGED <<mem, disk>>
      /\ saved \in [Ids -> State] /\ wanted \in [Ids -> Urls \cup {OldUrl, NoUrl}]
      /\ cmd' = [op |-> "strip", item |-> i, queue |-> NoQueue, pos |-> 0]
  BY DEF IInv, SetUrl, DataInv, State, Goto
<1>2. /\ st \in State /\ st.exists = saved[i].exists /\ st.url = u /\ st.queue = saved[i].queue
  BY <1>1 DEF State
<1> HIDE DEF st
<1>3. u # NoUrl /\ u \in Urls \cup {OldUrl, NoUrl}
  BY QueueTypes
<1>4. \/ st.queue = QueueOf(i)
      \/ QueueOf(i) \in IdsOf(mem.queues)
      \/ QueueOf(i) \notin IdsOf(disk.queues)
  BY <1>1, <1>2, ListedIs DEF DataInv, Backed
<1>5. /\ saved' \in [Ids -> State] /\ saved'[i] = st /\ wanted'[i] = u
      /\ wanted' \in [Ids -> Urls \cup {OldUrl, NoUrl}]
      /\ \A j \in Ids : j # i => saved'[j] = saved[j] /\ wanted'[j] = wanted[j]
  BY <1>1, <1>2, <1>3
<1>6. DataInv' /\ OrphanFree
  BY <1>1, <1>2, <1>3, <1>4, <1>5, SavedKeeps
<1>7. FlagsInv'
  BY <1>1, FlagsKeep DEF FlagsInv, SetUrl, Begin
<1>8. 0 \in 0..1 /\ 0 \in Nat
  OBVIOUS
<1>9. CmdType'
  BY <1>1, <1>8 DEF CmdType, Ops
<1>10. CmdInv'
  BY <1>1, <1>2, <1>5 DEF CmdInv, Listed
<1> QED BY <1>6, <1>7, <1>9, <1>10 DEF IInv

LEMMA StripUrlIInv ==
    ASSUME IInv, StripUrl PROVE IInv' /\ OrphanFree
<1> DEFINE i == cmd.item
           k == ItemIndex(mem, i)
           doc == [mem EXCEPT !.items[k].url = NoUrl]
<1>1. /\ cmd.op = "strip" /\ DataInv /\ CmdType /\ CmdInv /\ FlagsInv
      /\ UNCHANGED <<saved, scope, wanted>> /\ Done
      /\ \/ UNCHANGED <<mem, disk, clean, faults>>
         \/ Stored(doc) \/ Unstored(doc)
  BY DEF IInv, StripUrl, At
<1>2. /\ mem \in Document /\ Listed(i) /\ saved[i].exists
  BY <1>1 DEF DataInv, DocOK, CmdInv
<1>3. k \in DOMAIN mem.items /\ mem.items[k].id = i
  BY <1>1, <1>2, ListedIs
<1>4. Alike(doc, mem, k) /\ doc.items[k].queue = mem.items[k].queue
  BY <1>2, <1>3, FieldOfUrl
<1> HIDE DEF doc
<1>5. DocOK(doc) /\ UrlKnown(doc, saved, wanted) /\ Backed(doc, disk, saved)
  BY <1>1, <1>2, <1>3, <1>4, AlikeKeeps
<1>6. DataInv' /\ OrphanFree
  <2>1. CASE UNCHANGED <<mem, disk, clean, faults>>
    BY <1>1, <2>1, NothingKeeps
  <2>2. CASE Stored(doc) \/ Unstored(doc)
    BY <1>1, <1>5, <2>2, StoreKeeps
  <2> QED BY <1>1, <2>1, <2>2
<1>7. FlagsInv'
  BY <1>1, FlagsKeep DEF FlagsInv, Stored, Unstored
<1> QED BY <1>1, <1>6, <1>7, IdleIsFine DEF Done, IInv

LEMMA FirstStateIInv ==
    ASSUME IInv, NEW i \in Ids, FirstState(i) PROVE IInv' /\ OrphanFree
<1> DEFINE st == [exists |-> TRUE, queue |-> QueueOf(i), url |-> LookupUrl(mem, i)]
           k == ItemIndex(mem, i)
<1>1. /\ DataInv /\ CmdType /\ CmdInv /\ FlagsInv /\ Listed(i) /\ ~saved[i].exists
      /\ saved' = [saved EXCEPT ![i] = st] /\ wanted' = wanted /\ cmd' = cmd /\ clean' = clean
      /\ UNCHANGED <<mem, disk>> /\ faults' = faults /\ scope' = scope
      /\ saved \in [Ids -> State] /\ wanted \in [Ids -> Urls \cup {OldUrl, NoUrl}]
  BY DEF IInv, FirstState, DataInv, State
<1>2. /\ k \in DOMAIN mem.items /\ mem.items[k].id = i /\ QueueOf(i) \in QueueIds \cup {NoQueue}
      /\ QueueOf(i) = mem.items[k].queue
  BY <1>1, ListedIs
<1>3. LookupUrl(mem, i) = wanted[i] /\ wanted[i] # NoUrl /\ wanted[i] \in Urls \cup {OldUrl, NoUrl}
  BY <1>1, <1>2 DEF DataInv, UrlKnown, LookupUrl
<1>4. st \in State /\ st.exists = TRUE /\ st.url = wanted[i] /\ st.queue = QueueOf(i)
  BY <1>2, <1>3 DEF State
<1> HIDE DEF st
<1>5. PICK u \in Urls \cup {OldUrl, NoUrl} : u = wanted[i]
  BY <1>3
<1>6. /\ saved' \in [Ids -> State] /\ saved'[i] = st /\ wanted'[i] = u
      /\ wanted' \in [Ids -> Urls \cup {OldUrl, NoUrl}]
      /\ \A j \in Ids : j # i => saved'[j] = saved[j] /\ wanted'[j] = wanted[j]
  BY <1>1, <1>4, <1>5
<1>7. u # NoUrl /\ st.exists /\ st.url = u
  BY <1>3, <1>4, <1>5
<1>8. DataInv' /\ OrphanFree
  BY <1>1, <1>4, <1>6, <1>7, SavedKeeps
<1>9. FlagsInv'
  BY <1>1 DEF FlagsInv
<1>10. CmdType'
  BY <1>1 DEF CmdType
<1>11. \A m \in DOMAIN mem.items : Settled(mem.items[m], saved) => Settled(mem.items[m], saved')
  <2>1. TAKE m \in DOMAIN mem.items
  <2>2. mem.items \in Seq(Entry)
    BY <1>1 DEF DataInv, DocOK, Document
  <2>3. mem.items[m] \in Entry
    BY <2>2
  <2>4. mem.items[m].id \in Ids
    BY <2>3 DEF Entry
  <2>5. CASE mem.items[m].id = i
    <3>1. m = k
      BY <1>1, <2>5, ListedIs
    <3> QED BY <1>2, <1>4, <1>6, <3>1 DEF Settled
  <2>6. CASE mem.items[m].id # i
    BY <1>6, <2>4, <2>6 DEF Settled
  <2> QED BY <2>5, <2>6
<1>12. \A j \in Ids : saved[j].exists => saved'[j] = saved[j]
  BY <1>1, <1>6
<1>13. CmdInv'
  <2>1. cmd.op = "list" /\ clean =>
           \A m \in DOMAIN mem.items : m < cmd.pos => Settled(mem.items[m], saved')
    BY <1>1, <1>11 DEF CmdInv
  <2>2. cmd.op = "listed" /\ clean => \A m \in DOMAIN mem.items : Settled(mem.items[m], saved')
    BY <1>1, <1>11 DEF CmdInv
  <2>3. cmd.op = "strip" => saved'[cmd.item].exists
    BY <1>1, <1>12 DEF CmdInv, CmdType
  <2>4. cmd.op = "append" =>
          /\ saved'[cmd.item].exists /\ saved'[cmd.item].url \in Urls
          /\ ~Listed(cmd.item) /\ ItemIndex(disk, cmd.item) = 0
    BY <1>1, <1>12 DEF CmdInv, CmdType
  <2>5. /\ cmd' = cmd /\ mem' = mem /\ disk' = disk /\ clean' = clean
        /\ (\A j : Listed(j)' <=> Listed(j)) /\ (\A j : QueueOf(j)' = QueueOf(j))
    BY <1>1 DEF Listed, QueueOf
  <2>6. /\ cmd.op = "detach" =>
             \A m \in DOMAIN mem.items : m < cmd.pos => mem.items[m].queue # cmd.queue
        /\ cmd.op = "drop" => \A m \in DOMAIN mem.items : mem.items[m].queue # cmd.queue
        /\ cmd.op \in {"move", "moved", "strip"} => Listed(cmd.item)
        /\ cmd.op = "moved" => QueueOf(cmd.item) = cmd.queue
    BY <1>1 DEF CmdInv
  <2> QED BY <2>1, <2>2, <2>3, <2>4, <2>5, <2>6 DEF CmdInv
<1> QED BY <1>8, <1>9, <1>10, <1>13 DEF IInv

-----------------------------------------------------------------------------
LEMMA CrashIInv ==
    ASSUME IInv, Crash PROVE IInv' /\ OrphanFree
<1>1. /\ DataInv /\ mem' = disk /\ disk' = disk /\ saved' = saved /\ wanted' = wanted
      /\ cmd' = Idle /\ clean' = clean /\ scope' = FALSE /\ Fault /\ FlagsInv
  BY DEF IInv, Crash
<1>2. OrphanFree
  BY <1>1 DEF OrphanFree
<1>3. DataInv'
  <2>1. DocOK(mem)' /\ DocOK(disk)'
    BY <1>1 DEF DataInv, DocOK, Document, Clear
  <2>2. UrlKnown(mem, saved, wanted)' /\ UrlKnown(disk, saved, wanted)' /\ Backed(mem, disk, saved)'
    BY <1>1 DEF DataInv, UrlKnown, Backed
  <2> QED BY <1>1, <2>1, <2>2 DEF DataInv
<1>4. FlagsInv'
  BY <1>1, FlagsKeep
<1> QED BY <1>1, <1>2, <1>3, <1>4, IdleIsFine DEF IInv

LEMMA StutterIInv ==
    ASSUME IInv, OtherJob \/ UNCHANGED vars PROVE IInv' /\ OrphanFree
<1>1. /\ DataInv /\ CmdType /\ CmdInv /\ FlagsInv
      /\ UNCHANGED <<mem, disk, saved, cmd, wanted, clean, faults>> /\ scope' \in BOOLEAN
  BY DEF IInv, FlagsInv, OtherJob, vars
<1>2. DataInv' /\ OrphanFree
  BY <1>1, NothingKeeps
<1>3. FlagsInv'
  BY <1>1 DEF FlagsInv
<1>4. CmdType'
  BY <1>1 DEF CmdType
<1>5. (\A j : Listed(j)' <=> Listed(j)) /\ (\A j : QueueOf(j)' = QueueOf(j))
  BY <1>1 DEF Listed, QueueOf
<1>6. CmdInv'
  BY <1>1, <1>5 DEF CmdInv
<1> QED BY <1>2, <1>3, <1>4, <1>6 DEF IInv

LEMMA InitIInv == Init => IInv
<1> SUFFICES ASSUME Init PROVE IInv
  OBVIOUS
<1>1. PICK items \in {<<>>} \cup {<<LegacyEntry(i)>> : i \in Ids} :
         /\ mem = [items |-> items, queues |-> <<>>]
         /\ wanted = [i \in Ids |-> IF items = <<LegacyEntry(i)>> THEN OldUrl ELSE NoUrl]
  BY DEF Init
<1>2. /\ disk = mem /\ saved = [i \in Ids |-> NoState] /\ scope = FALSE /\ cmd = Idle
      /\ faults = 0 /\ clean = TRUE
  BY DEF Init
<1>3. \A i \in Ids : LegacyEntry(i) \in Entry /\ LegacyEntry(i).id = i /\ LegacyEntry(i).url = OldUrl
  BY DEF LegacyEntry, Entry
<1>4. items \in Seq(Entry) /\ Len(items) <= 1 /\ DOMAIN items \subseteq {1}
  <2>1. CASE items = <<>>
    BY <2>1
  <2>2. CASE items # <<>>
    <3>1. PICK i \in Ids : items = <<LegacyEntry(i)>>
      BY <1>1, <2>2
    <3> QED BY <1>3, <3>1
  <2> QED BY <2>1, <2>2
<1>5. mem \in Document /\ mem.items = items /\ mem.queues = <<>> /\ Len(mem.queues) = 0
      /\ DOMAIN mem.queues = {}
  BY <1>1, <1>4 DEF Document
<1>6. DocOK(mem)
  BY <1>4, <1>5, QueueTypes DEF DocOK, Clear
<1>7. saved \in [Ids -> State]
  BY <1>2 DEF State, NoState
<1>8. wanted \in [Ids -> Urls \cup {OldUrl, NoUrl}]
  BY <1>1
<1>9. UrlKnown(mem, saved, wanted)
  <2>1. ASSUME NEW k \in DOMAIN mem.items
        PROVE  LET e == mem.items[k]
               IN  /\ wanted[e.id] # NoUrl
                   /\ wanted[e.id] = IF saved[e.id].exists THEN saved[e.id].url ELSE e.url
    <3>1. items # <<>> /\ k = 1
      BY <1>4, <1>5, <2>1
    <3>2. PICK i \in Ids : items = <<LegacyEntry(i)>>
      BY <1>1, <3>1
    <3>3. mem.items[k] = LegacyEntry(i)
      BY <1>5, <3>1, <3>2
    <3>4. wanted[i] = OldUrl
      BY <1>1, <3>2
    <3>5. saved[i].exists = FALSE
      BY <1>2 DEF NoState
    <3> QED BY <1>3, <3>3, <3>4, <3>5, QueueTypes
  <2> QED BY <2>1 DEF UrlKnown
<1>10. Backed(mem, disk, saved)
  BY <1>2, <1>5 DEF Backed, IdsOf
<1>11. DataInv
  BY <1>2, <1>6, <1>7, <1>8, <1>9, <1>10 DEF DataInv, State
<1>12. 0 \in 0..MaxFaults /\ 0 \in 0..1 /\ 0 \in Nat
  BY QueueTypes
<1>13. cmd = [op |-> "idle", item |-> "none", queue |-> NoQueue, pos |-> 0]
  BY <1>2 DEF Idle
<1>14. CmdType /\ CmdInv
  BY <1>12, <1>13 DEF CmdType, CmdInv, Ops
<1>15. FlagsInv
  BY <1>2, <1>12 DEF FlagsInv
<1> QED BY <1>11, <1>14, <1>15 DEF IInv

LEMMA NextIInv ==
    ASSUME IInv, [Next]_vars PROVE IInv' /\ OrphanFree
<1>1. ASSUME NEW name \in Names, QueueAdd(name) \/ \E q \in QueueIds : QueueEdit(q, name)
      PROVE  IInv' /\ OrphanFree
  BY <1>1, QueueAddIInv, QueueEditIInv
<1>2. ASSUME NEW q \in QueueIds, NEW purge \in BOOLEAN, QueueRemove(q, purge)
      PROVE  IInv' /\ OrphanFree
  BY <1>2, QueueRemoveIInv
<1>3. ASSUME NEW i \in Ids, NEW q \in QueueIds \cup {NoQueue}, SetQueue(i, q)
      PROVE  IInv' /\ OrphanFree
  BY <1>3, SetQueueIInv
<1>4. ASSUME NEW i \in Ids, NEW q \in QueueIds \cup {NoQueue}, NEW u \in Urls, Enqueue(i, q, u)
      PROVE  IInv' /\ OrphanFree
  BY <1>4, EnqueueIInv
<1>5. ASSUME NEW i \in Ids, NEW u \in Urls, SetUrl(i, u) PROVE IInv' /\ OrphanFree
  BY <1>5, SetUrlIInv
<1>6. ASSUME NEW i \in Ids, FirstState(i) PROVE IInv' /\ OrphanFree
  BY <1>6, FirstStateIInv
<1>7. ASSUME List \/ Step PROVE IInv' /\ OrphanFree
  BY <1>7, DetachIInv, PurgeIInv, DropIInv, ListIInv, ListEntryIInv, MoveIInv, MovedIInv,
     EnqueueEntryIInv, StripUrlIInv DEF Step
<1>8. ASSUME OtherJob \/ Crash \/ UNCHANGED vars PROVE IInv' /\ OrphanFree
  BY <1>8, CrashIInv, StutterIInv
<1> QED BY <1>1, <1>2, <1>3, <1>4, <1>5, <1>6, <1>7, <1>8 DEF Next

(* The inductive invariant, and what follows from it. *)
THEOREM AlwaysIInv == Spec => []IInv
<1>1. IInv /\ [Next]_vars => IInv'
  BY NextIInv
<1> QED BY <1>1, InitIInv, PTL DEF Spec

LEMMA IInvAgrees == IInv => RecordsAgree
<1> SUFFICES ASSUME IInv PROVE RecordsAgree
  OBVIOUS
<1>1. DataInv /\ CmdType /\ CmdInv /\ FlagsInv
  BY DEF IInv
<1>2. ASSUME NEW doc \in Docs
      PROVE  /\ \A k \in DOMAIN doc.items : doc.items[k] \in Entry
             /\ \A k, m \in DOMAIN doc.items : k # m => doc.items[k].id # doc.items[m].id
             /\ \A k \in DOMAIN doc.queues : doc.queues[k] \in [id : QueueIds, name : Names]
             /\ Len(doc.queues) <= MaxQueues
             /\ \A k, m \in DOMAIN doc.queues : k # m => doc.queues[k].name # doc.queues[m].name
  <2>1. DocOK(doc) /\ doc.items \in Seq(Entry) /\ doc.queues \in Seq(Queue)
    BY <1>1 DEF Docs, DataInv, DocOK, Document
  <2>2. /\ \A k \in DOMAIN doc.items : doc.items[k] \in Entry
        /\ \A k \in DOMAIN doc.queues : doc.queues[k] \in Queue
    BY <2>1
  <2> QED BY <2>1, <2>2 DEF DocOK, Clear, Queue
<1>3. cmd.pos \in 0..Cardinality(Ids) + 1
  <2>1. /\ mem \in Document /\ Clear(mem) /\ Cardinality(Ids) \in Nat
    BY <1>1, CatalogueAssumption, FS_CardinalityType DEF DataInv, DocOK
  <2>2. Len(mem.items) \in Nat /\ Len(mem.items) <= Cardinality(Ids)
    BY <2>1, FewItems
  <2>3. cmd.pos \in 1..(Len(mem.items) + 1) \/ cmd.pos \in 0..1
    BY <1>1 DEF CmdType
  <2> QED BY <2>1, <2>2, <2>3
<1>4. TypeOK
  BY <1>1, <1>2, <1>3 DEF TypeOK, DataInv, FlagsInv
<1>5. NamesDiffer
  BY <1>2 DEF NamesDiffer
<1>6. ListSettles
  BY <1>1 DEF ListSettles, At, CmdInv, Settled
<1>7. UrlStays
  BY <1>1, ListedIs DEF UrlStays, DataInv, UrlKnown, LookupUrl
<1> QED BY <1>4, <1>5, <1>6, <1>7 DEF RecordsAgree

(* Whatever fails and wherever the process dies, between any two calls of   *)
(* any command: the lists in memory and on disk are well formed, no two     *)
(* queues have one name, a list command that met no failure leaves the      *)
(* state files and the configuration of one mind, and a lookup of the URL   *)
(* of an entry gives the one it was given last.                             *)
THEOREM RecordsAlwaysAgree == Spec => []RecordsAgree
BY AlwaysIInv, IInvAgrees, PTL

(* queue_remove: when a queue is gone from the disk, no entry there names   *)
(* it, unless the state file of the entry does.                             *)
THEOREM NothingIsOrphaned == Spec => NoOrphans
<1>1. IInv /\ [Next]_vars => [OrphanFree]_vars
  BY NextIInv
<1>2. Spec => [][OrphanFree]_vars
  BY <1>1, AlwaysIInv, PTL DEF Spec
<1> QED BY <1>2 DEF NoOrphans, OrphanFree

-----------------------------------------------------------------------------
(***************************************************************************)
(* The proofs about ConfigStore, which keeps the configuration the queues  *)
(* are part of, for every set of threads, keys and values and any number   *)
(* of calls.  For the file and the refinement it is left open what the     *)
(* calls make of the document: a call is a step that replaces it and will  *)
(* write it, or one that replaces it and returns.  That they make a tree   *)
(* of a tree is proved after that.                                         *)
(***************************************************************************)
LEMMA ConfigInitIInv == ConfigInit => ConfigIInv
<1> SUFFICES ASSUME ConfigInit PROVE ConfigIInv
  OBVIOUS
<1>1. LockInv
  BY DEF ConfigInit, LockInv, Steps
<1>2. DOMAIN file = Targets /\ DOMAIN tmp = Targets
  BY DEF ConfigInit
<1>3. file["config"] = NoFile /\ settled = NoFile
  BY DEF ConfigInit, Targets
<1>4. Lasts(file["config"]) /\ Lasts(settled)
  BY <1>3 DEF Lasts, NoFile
<1>5. \A t \in Threads : pc[t] = "idle"
  BY DEF ConfigInit
<1> QED
  BY <1>1, <1>2, <1>4, <1>5 DEF ConfigIInv, DiskInv

(* Whatever a call does, it is one of the two. *)
LEMMA CallIsOneStep ==
  ASSUME NEW t \in Threads, Call(t)
  PROVE  \/ \E doc : \E f \in Targets : Persist(t, doc, f)
         \/ \E doc : \E code \in {-1, 0} : Answer(t, doc, code)
<1> USE DEF Targets
<1>1. ASSUME NEW p, NEW v, Set(t, p, v)
      PROVE  \E doc : \E f \in Targets : Persist(t, doc, f)
  BY <1>1 DEF Set
<1>2. ASSUME NEW p, SetMalformed(t, p)
      PROVE  \E doc : \E code \in {-1, 0} : Answer(t, doc, code)
  BY <1>2 DEF SetMalformed
<1>3. ASSUME NEW p, Reset(t, p)
      PROVE  \/ \E doc : \E f \in Targets : Persist(t, doc, f)
             \/ \E doc : \E code \in {-1, 0} : Answer(t, doc, code)
  BY <1>3 DEF Reset
<1>4. ASSUME ResetAll(t) \/ Save(t)
      PROVE  \E doc : \E f \in Targets : Persist(t, doc, f)
  BY <1>4 DEF ResetAll, Save
<1>5. ASSUME Import(t)
      PROVE  \/ \E doc : \E f \in Targets : Persist(t, doc, f)
             \/ \E doc : \E code \in {-1, 0} : Answer(t, doc, code)
  BY <1>5 DEF Import
<1>6. ASSUME NEW p, NEW item, AppendItem(t, p, item)
      PROVE  \E doc : \E f \in Targets : Persist(t, doc, f)
  BY <1>6 DEF AppendItem
<1>7. ASSUME NEW p, NEW item, UpdateItem(t, p, item)
      PROVE  \/ \E doc : \E f \in Targets : Persist(t, doc, f)
             \/ \E doc : \E code \in {-1, 0} : Answer(t, doc, code)
  BY <1>7 DEF UpdateItem
<1>8. ASSUME NEW p, NEW i, NEW item, ReplaceItem(t, p, i, item)
      PROVE  \/ \E doc : \E f \in Targets : Persist(t, doc, f)
             \/ \E doc : \E code \in {-1, 0} : Answer(t, doc, code)
  BY <1>8 DEF ReplaceItem
<1>9. ASSUME NEW p, NEW id, RemoveItem(t, p, id)
      PROVE  \/ \E doc : \E f \in Targets : Persist(t, doc, f)
             \/ \E doc : \E code \in {-1, 0} : Answer(t, doc, code)
  BY <1>9 DEF RemoveItem
<1>10. ASSUME NEW p, NEW v, RemoveWhere(t, p, v)
       PROVE  \/ \E doc : \E f \in Targets : Persist(t, doc, f)
              \/ \E doc : \E code \in {-1, 0} : Answer(t, doc, code)
  BY <1>10 DEF RemoveWhere
<1> QED
  BY <1>1, <1>2, <1>3, <1>4, <1>5, <1>6, <1>7, <1>8, <1>9, <1>10 DEF Call

(* Nobody else is in a call while one thread enters. *)
LEMMA OthersAreIdle ==
  ASSUME ConfigIInv, NEW t \in Threads, Enter(t)
  PROVE  \A u \in Threads : pc[u] = "idle"
  BY ThreadsAssumption DEF ConfigIInv, LockInv, Enter

LEMMA PersistIInv ==
  ASSUME ConfigIInv, NEW t \in Threads, NEW doc, NEW f \in Targets, Persist(t, doc, f)
  PROVE  ConfigIInv'
<1>1. \A u \in Threads : pc[u] = "idle"
  BY OthersAreIdle DEF Persist
<1>2. LockInv'
  BY <1>1 DEF ConfigIInv, LockInv, Persist, Enter, Steps
<1>3. DiskInv'
  BY <1>1 DEF ConfigIInv, LockInv, DiskInv, Persist, Enter, Lasts, Whole
<1> QED
  BY <1>2, <1>3 DEF ConfigIInv

LEMMA AnswerIInv ==
  ASSUME ConfigIInv, NEW t \in Threads, NEW doc, NEW code \in {-1, 0}, Answer(t, doc, code)
  PROVE  ConfigIInv'
<1>1. \A u \in Threads : pc[u] = "idle"
  BY OthersAreIdle DEF Answer
<1>2. LockInv'
  BY <1>1 DEF ConfigIInv, LockInv, Answer, Enter, Steps
<1>3. DiskInv'
  BY <1>1 DEF ConfigIInv, LockInv, DiskInv, Answer, Enter, Lasts, Whole
<1> QED
  BY <1>2, <1>3 DEF ConfigIInv

(* While a thread is in a call, every other one is idle. *)
LEMMA AloneInCall ==
  ASSUME LockInv, NEW t \in Threads, pc[t] # "idle"
  PROVE  \A u \in Threads : u # t => pc[u] = "idle"
  BY DEF LockInv

LEMMA ContinueIInv ==
  ASSUME ConfigIInv, NEW t \in Threads, Continue(t)
  PROVE  ConfigIInv'
<1> USE DEF ConfigIInv
<1>1. pc[t] # "idle" /\ (pc[t] \in Steps => target \in Targets)
  BY DEF Continue, Open, Write, Sync, Rename, RemoveTmp, Return, LockInv, Steps
<1>2. \A u \in Threads : u # t => pc[u] = "idle"
  BY <1>1, AloneInCall
<1>3. LockInv'
  BY <1>1, <1>2 DEF Continue, Open, Write, Sync, Rename, RemoveTmp, Return, LockInv, Steps
<1>4. CASE Open(t)
  <2>1. DiskInv'
    BY <1>1, <1>2, <1>4 DEF Open, DiskInv, LockInv, Lasts, Whole, Torn, Steps
  <2> QED BY <1>3, <2>1
<1>5. CASE Write(t)
  <2>1. DiskInv'
    BY <1>1, <1>2, <1>5 DEF Write, DiskInv, LockInv, Lasts, Whole, Torn, Steps
  <2> QED BY <1>3, <2>1
<1>6. CASE Sync(t)
  <2>1. DiskInv'
    BY <1>1, <1>2, <1>6 DEF Sync, DiskInv, LockInv, Lasts, Whole, Steps
  <2> QED BY <1>3, <2>1
<1>7. CASE Rename(t)
  <2>1. /\ target \in Targets /\ tmp[target] = Whole(root, TRUE)
        /\ UNCHANGED <<root, target, settled>>
        /\ DOMAIN file = Targets /\ DOMAIN tmp = Targets
        /\ DOMAIN file' = Targets /\ DOMAIN tmp' = Targets
    BY <1>1, <1>7 DEF Rename, DiskInv, Steps
  <2>2. CASE pc'[t] = "return"
    <3>1. file' = [file EXCEPT ![target] = Whole(root, TRUE)]
      BY <1>7, <2>1, <2>2 DEF Rename, LockInv
    <3>2. target = "config" => file'["config"] = Whole(root, TRUE)
      BY <2>1, <3>1
    <3>3. target # "config" => file'["config"] = file["config"]
      BY <2>1, <3>1 DEF Targets
    <3>4. Lasts(file'["config"]) /\ Lasts(settled')
      BY <2>1, <3>2, <3>3 DEF DiskInv, Lasts, Whole
    <3>5. \A u \in Threads : pc'[u] \notin {"sync", "rename"}
      BY <1>2, <1>7, <2>2 DEF Rename, LockInv
    <3> QED BY <1>3, <2>1, <3>2, <3>4, <3>5 DEF DiskInv, Lasts
  <2>3. CASE pc'[t] # "return"
    <3>1. UNCHANGED <<file, tmp>>
      BY <1>7, <2>3 DEF Rename, LockInv
    <3>2. \A u \in Threads : pc'[u] \notin {"sync", "rename", "return"}
      BY <1>2, <1>7, <2>3 DEF Rename, LockInv
    <3> QED BY <1>3, <2>1, <3>1, <3>2 DEF DiskInv, Lasts
  <2> QED BY <2>2, <2>3
<1>8. CASE RemoveTmp(t)
  <2>1. DiskInv'
    BY <1>1, <1>2, <1>8 DEF RemoveTmp, DiskInv, LockInv, Lasts, Whole, NoFile, Steps
  <2> QED BY <1>3, <2>1
<1>9. CASE Return(t)
  <2>1. DiskInv'
    BY <1>1, <1>2, <1>9 DEF Return, DiskInv, LockInv, Lasts, Whole, Steps
  <2> QED BY <1>3, <2>1
<1> QED
  BY <1>4, <1>5, <1>6, <1>7, <1>8, <1>9 DEF Continue

(* A death takes every thread out of its call. *)
LEMMA RestartLock ==
  ASSUME ConfigIInv, Restart
  PROVE  LockInv' /\ \A t \in Threads : pc'[t] = "idle"
  BY DEF ConfigIInv, LockInv, Restart, Steps

LEMMA ConfigNextIInv == ConfigIInv /\ [ConfigNext]_configVars => ConfigIInv'
<1> SUFFICES ASSUME ConfigIInv, [ConfigNext]_configVars PROVE ConfigIInv'
  OBVIOUS
<1>1. ASSUME NEW t \in Threads, Read(t) PROVE ConfigIInv'
  <2>1. \A u \in Threads : pc[u] = "idle"
    BY <1>1, ThreadsAssumption DEF ConfigIInv, LockInv, Read
  <2>2. LockInv'
    BY <1>1, <2>1 DEF ConfigIInv, LockInv, Read, Steps
  <2>3. DiskInv'
    BY <1>1, <2>1 DEF ConfigIInv, DiskInv, Read, Lasts, Whole
  <2> QED BY <2>2, <2>3 DEF ConfigIInv
<1>2. ASSUME NEW t \in Threads, Call(t) PROVE ConfigIInv'
  BY <1>2, CallIsOneStep, PersistIInv, AnswerIInv
<1>3. ASSUME NEW t \in Threads, Continue(t) PROVE ConfigIInv'
  BY <1>3, ContinueIInv
<1>4. CASE Settle
  BY <1>4 DEF ConfigIInv, LockInv, DiskInv, Settle, Lasts, Whole, Steps
<1>5. CASE Killed
  <2>1. DiskInv'
    BY <1>5, RestartLock DEF ConfigIInv, DiskInv, Killed, diskVars, Lasts
  <2> QED BY <1>5, <2>1, RestartLock DEF ConfigIInv, Killed
<1>6. CASE PowerLoss
  <2>1. DiskInv'
    BY <1>6, RestartLock DEF ConfigIInv, DiskInv, PowerLoss, AfterPowerLoss, Lasts, Targets
  <2> QED BY <1>6, <2>1, RestartLock DEF ConfigIInv, PowerLoss
<1>7. CASE UNCHANGED configVars
  BY <1>7 DEF configVars, ConfigIInv, LockInv, DiskInv, Lasts, Whole, Steps
<1> QED
  BY <1>1, <1>2, <1>3, <1>4, <1>5, <1>6, <1>7 DEF ConfigNext

(* The inductive invariant: the lock has one holder, who is in its section, *)
(* and what is on disk and in memory follows from the steps it has taken.   *)
THEOREM ConfigAlwaysIInv == ConfigSpec => []ConfigIInv
<1> QED
  BY ConfigInitIInv, ConfigNextIInv, PTL DEF ConfigSpec

(* persist_config: the configuration file is missing or whole, after any    *)
(* failure, and any death of the process or the machine.                    *)
THEOREM NeverTorn == ConfigSpec => []FileIsWhole
<1>1. ConfigIInv => FileIsWhole
  BY DEF ConfigIInv, DiskInv, FileIsWhole, Lasts
<1> QED
  BY <1>1, ConfigAlwaysIInv, PTL

(* Where the abstract document stands, and what the lock lets a step of it  *)
(* rely on.                                                                 *)
LEMMA PersistRefines ==
  ASSUME ConfigIInv, NEW t \in Threads, NEW doc, NEW f \in Targets, Persist(t, doc, f)
  PROVE  Durable!Next \/ UNCHANGED Durable!vars
<1> USE DEF ConfigIInv, LockInv, Persist, Enter, Parsed, Loaded
<1>1. CASE ready /\ doc = Loaded
  BY <1>1 DEF Durable!vars
<1>2. CASE ready /\ doc # Loaded
  BY <1>2 DEF Durable!Change, Durable!Next
<1>3. CASE ~ready /\ doc = Loaded
  BY <1>3 DEF Durable!Load, Durable!Next
<1>4. CASE ~ready /\ doc # Loaded
  BY <1>4 DEF Durable!LoadAndChange, Durable!Next
<1> QED
  BY <1>1, <1>2, <1>3, <1>4

LEMMA AnswerRefines ==
  ASSUME ConfigIInv, NEW t \in Threads, NEW doc, NEW code \in {-1, 0}, Answer(t, doc, code)
  PROVE  Durable!Next \/ UNCHANGED Durable!vars
<1> USE DEF ConfigIInv, LockInv, Answer, Enter, Parsed, Loaded
<1>1. CASE ready /\ doc = Loaded
  BY <1>1 DEF Durable!vars
<1>2. CASE ready /\ doc # Loaded
  BY <1>2 DEF Durable!Change, Durable!Next
<1>3. CASE ~ready /\ doc = Loaded
  BY <1>3 DEF Durable!Load, Durable!Next
<1>4. CASE ~ready /\ doc # Loaded
  BY <1>4 DEF Durable!LoadAndChange, Durable!Next
<1> QED
  BY <1>1, <1>2, <1>3, <1>4

LEMMA ContinueRefines ==
  ASSUME ConfigIInv, NEW t \in Threads, Continue(t)
  PROVE  Durable!Next \/ UNCHANGED Durable!vars
<1> USE DEF ConfigIInv
<1>1. ready /\ (pc[t] \in Steps => target \in Targets)
  BY DEF Continue, Open, Write, Sync, Rename, RemoveTmp, Return, LockInv, Steps
<1>2. CASE Open(t) \/ Write(t) \/ Sync(t) \/ RemoveTmp(t)
  BY <1>2 DEF Open, Write, Sync, RemoveTmp, Durable!vars, Parsed
<1>3. CASE Rename(t)
  <2>1. /\ target \in Targets /\ tmp[target] = Whole(root, TRUE) /\ DOMAIN file = Targets
        /\ UNCHANGED <<root, ready, settled, acked>>
    BY <1>1, <1>3 DEF Rename, DiskInv, Steps
  <2>2. CASE UNCHANGED file
    BY <2>1, <2>2 DEF Durable!vars, Parsed
  <2>3. CASE file' = [file EXCEPT ![target] = Whole(root, TRUE)] /\ target = "config"
    <3>1. file'["config"] = Whole(root, TRUE)
      BY <2>1, <2>3
    <3>2. Parsed("config")' = root
      BY <3>1 DEF Parsed, Whole
    <3> QED BY <1>1, <2>1, <3>2 DEF Durable!Store, Durable!Next
  <2>4. CASE file' = [file EXCEPT ![target] = Whole(root, TRUE)] /\ target = "export"
    <3>1. file'["config"] = file["config"]
      BY <2>1, <2>4
    <3> QED BY <2>1, <3>1 DEF Durable!vars, Parsed
  <2> QED BY <1>3, <2>1, <2>2, <2>3, <2>4 DEF Rename, Targets
<1>4. CASE Return(t)
  <2>1. CASE rc[t] = 0 /\ target = "config"
    <3>1. Parsed("config") = root
      BY <1>4, <2>1 DEF Return, DiskInv, Parsed, Whole
    <3>2. acked' = TRUE /\ UNCHANGED <<root, ready, file, settled>>
      BY <1>4, <2>1 DEF Return
    <3> QED BY <1>1, <3>1, <3>2 DEF Durable!Acknowledge, Durable!Next, Parsed
  <2>2. CASE ~(rc[t] = 0 /\ target = "config")
    <3>1. acked' = acked
      BY <1>4, <2>2 DEF Return, LockInv
    <3> QED BY <1>4, <3>1 DEF Return, Durable!vars, Parsed
  <2> QED BY <2>1, <2>2
<1> QED
  BY <1>2, <1>3, <1>4 DEF Continue

LEMMA PowerLossRefines ==
  ASSUME ConfigIInv, PowerLoss
  PROVE  Durable!Die
<1>1. PICK kept \in {file["config"], settled} :
         file' = [f \in Targets |-> AfterPowerLoss(IF f = "config" THEN kept ELSE file[f])]
  BY DEF PowerLoss
<1>2. kept.is \in {"none", "whole"} /\ kept.synced = TRUE
  BY DEF ConfigIInv, DiskInv, Lasts
<1>3. file'["config"] = kept
  BY <1>1, <1>2 DEF AfterPowerLoss, Targets
<1>4. Parsed("config")' \in {Parsed("config"), IF settled.is = "whole" THEN settled.doc ELSE Empty}
  BY <1>3 DEF Parsed
<1>5. ready' = FALSE /\ root' = Empty /\ acked' = FALSE /\ UNCHANGED settled
  BY DEF PowerLoss, Restart
<1> QED
  BY <1>4, <1>5 DEF Durable!Die

(* config.c implements the document that its callers count on: success is   *)
(* said only of what is on disk, and a death leaves the version stored last *)
(* or, after a power failure, the one before.                               *)
THEOREM Refinement == ConfigSpec => ImplementsDurableDocument
<1>1. ConfigInit => Durable!Init
  <2> SUFFICES ASSUME ConfigInit PROVE Durable!Init
    OBVIOUS
  <2>1. file["config"] = NoFile /\ settled = NoFile
    BY DEF ConfigInit, Targets
  <2>2. Parsed("config") = Empty /\ (IF settled.is = "whole" THEN settled.doc ELSE Empty) = Empty
    BY <2>1 DEF Parsed, NoFile
  <2> QED BY <2>2 DEF ConfigInit, Durable!Init
<1>2. ConfigIInv /\ [ConfigNext]_configVars => [Durable!Next]_(Durable!vars)
  <2> SUFFICES ASSUME ConfigIInv, [ConfigNext]_configVars
               PROVE  Durable!Next \/ UNCHANGED Durable!vars
    OBVIOUS
  <2>1. ASSUME NEW t \in Threads, Read(t) PROVE Durable!Next
    BY <2>1 DEF Read, Loaded, Parsed, Durable!Load, Durable!Next
  <2>2. ASSUME NEW t \in Threads, Call(t) PROVE Durable!Next \/ UNCHANGED Durable!vars
    BY <2>2, CallIsOneStep, PersistRefines, AnswerRefines
  <2>3. ASSUME NEW t \in Threads, Continue(t) PROVE Durable!Next \/ UNCHANGED Durable!vars
    BY <2>3, ContinueRefines
  <2>4. CASE Settle
    BY <2>4 DEF Settle, Parsed, Durable!Settle, Durable!Next
  <2>5. CASE Killed
    BY <2>5 DEF Killed, Restart, diskVars, Parsed, Durable!Die, Durable!Next
  <2>6. CASE PowerLoss
    BY <2>6, PowerLossRefines DEF Durable!Next
  <2>7. CASE UNCHANGED configVars
    BY <2>7 DEF configVars, Parsed, Durable!vars
  <2> QED BY <2>1, <2>2, <2>3, <2>4, <2>5, <2>6, <2>7 DEF ConfigNext
<1> QED
  BY <1>1, <1>2, ConfigAlwaysIInv, PTL DEF ConfigSpec, ImplementsDurableDocument, Durable!Spec

-----------------------------------------------------------------------------
(* Every document is a tree. *)

(* The keys, and which one continues which. *)
Keys == {p \in Seq(STRING) : p # <<>>}
Begins(q, p) == Len(q) < Len(p) /\ \A i \in 1 .. Len(q) : q[i] = p[i]

LEMMA KeyIs ==
    ASSUME NEW p \in Keys
    PROVE  p \in Seq(STRING) /\ Len(p) \in Nat /\ Len(p) >= 1 /\ DOMAIN p = 1 .. Len(p)
<1>1. p \in Seq(STRING) /\ p # <<>>
  BY DEF Keys
<1>2. Len(p) # 0
  BY <1>1, EmptySeq
<1> QED BY <1>1, <1>2

LEMMA SameKey ==
    ASSUME NEW p \in Seq(STRING), NEW q \in Seq(STRING), Len(p) = Len(q),
           \A i \in 1 .. Len(p) : p[i] = q[i]
    PROVE  p = q
BY SeqEqual

LEMMA AboveIs ==
    ASSUME NEW p \in Keys, NEW q
    PROVE  q \in Above(p) <=> q \in Keys /\ Begins(q, p)
<1>1. p \in Seq(STRING) /\ Len(p) \in Nat
  BY KeyIs
<1>2. ASSUME NEW n \in 1 .. Len(p) - 1
      PROVE  /\ SubSeq(p, 1, n) \in Seq(STRING) /\ Len(SubSeq(p, 1, n)) = n
             /\ \A i \in 1 .. n : SubSeq(p, 1, n)[i] = p[i]
  BY <1>1
<1>3. ASSUME q \in Above(p) PROVE q \in Keys /\ Begins(q, p)
  <2>1. PICK n \in 1 .. Len(p) - 1 : q = SubSeq(p, 1, n)
    BY <1>3 DEF Above
  <2>2. n \in Nat /\ n < Len(p) /\ n # 0
    BY <1>1
  <2>3. q \in Seq(STRING) /\ Len(q) = n /\ \A i \in 1 .. n : q[i] = p[i]
    BY <1>2, <2>1
  <2>4. q # <<>>
    BY <2>2, <2>3
  <2> QED BY <2>2, <2>3, <2>4 DEF Keys, Begins
<1>4. ASSUME q \in Keys, Begins(q, p) PROVE q \in Above(p)
  <2>1. Len(q) \in 1 .. Len(p) - 1 /\ q \in Seq(STRING)
    BY <1>1, <1>4, KeyIs DEF Begins
  <2>2. PICK n \in 1 .. Len(p) - 1 : n = Len(q)
    BY <2>1
  <2>3. PICK r : r = SubSeq(p, 1, n)
    OBVIOUS
  <2>4. r \in Seq(STRING) /\ Len(r) = n /\ \A i \in 1 .. n : r[i] = p[i]
    BY <1>2, <2>3
  <2>5. q = r
    BY <1>4, <2>1, <2>2, <2>4, SameKey DEF Begins
  <2> QED BY <2>3, <2>5 DEF Above
<1> QED BY <1>3, <1>4

LEMMA PrefixIs ==
    ASSUME NEW p \in Keys, NEW q \in Keys
    PROVE  /\ IsPrefix(q, p) <=> Begins(q, p) \/ q = p
           /\ IsStrictPrefix(q, p) <=> Begins(q, p)
<1>1. /\ p \in Seq(STRING) /\ Len(p) \in Nat /\ q \in Seq(STRING) /\ Len(q) \in Nat
      /\ Len(q) >= 1
  BY KeyIs
<1>2. ASSUME Len(q) <= Len(p)
      PROVE  SubSeq(q, 1, Len(q)) = SubSeq(p, 1, Len(q)) <=> \A i \in 1 .. Len(q) : q[i] = p[i]
  <2>1. PICK a : a = SubSeq(q, 1, Len(q))
    OBVIOUS
  <2>2. PICK b : b = SubSeq(p, 1, Len(q))
    OBVIOUS
  <2>3. a \in Seq(STRING) /\ Len(a) = Len(q) /\ \A i \in 1 .. Len(q) : a[i] = q[i]
    BY <1>1, <2>1
  <2>4. b \in Seq(STRING) /\ Len(b) = Len(q) /\ \A i \in 1 .. Len(q) : b[i] = p[i]
    BY <1>1, <1>2, <2>2
  <2>5. (\A i \in 1 .. Len(q) : q[i] = p[i]) => a = b
    BY <2>3, <2>4, SameKey
  <2>6. a = b => \A i \in 1 .. Len(q) : q[i] = p[i]
    BY <2>3, <2>4
  <2> QED BY <2>1, <2>2, <2>5, <2>6
<1>3. IsPrefix(q, p) <=> Len(q) <= Len(p) /\ \A i \in 1 .. Len(q) : q[i] = p[i]
  BY <1>2 DEF IsPrefix
<1>4. Len(q) = Len(p) /\ (\A i \in 1 .. Len(q) : q[i] = p[i]) => q = p
  BY <1>1, SameKey
<1>5. IsPrefix(q, p) <=> Begins(q, p) \/ q = p
  BY <1>1, <1>3, <1>4 DEF Begins
<1>6. Begins(q, p) => q # p
  BY <1>1 DEF Begins
<1> QED BY <1>5, <1>6 DEF IsStrictPrefix

LEMMA BeginsIsOrder ==
    ASSUME NEW p \in Keys, NEW q \in Keys, NEW r \in Keys
    PROVE  /\ ~Begins(p, p)
           /\ Begins(p, q) /\ Begins(q, r) => Begins(p, r)
<1>1. Len(p) \in Nat /\ Len(q) \in Nat /\ Len(r) \in Nat
  BY KeyIs
<1>2. ~Begins(p, p)
  BY <1>1 DEF Begins
<1>3. ASSUME Begins(p, q), Begins(q, r) PROVE Begins(p, r)
  <2>1. Len(p) < Len(q) /\ Len(q) < Len(r)
    BY <1>3 DEF Begins
  <2>2. ASSUME NEW i \in 1 .. Len(p) PROVE p[i] = r[i]
    <3>1. i \in 1 .. Len(q)
      BY <1>1, <2>1
    <3> QED BY <1>3, <3>1 DEF Begins
  <2> QED BY <1>1, <2>1, <2>2 DEF Begins
<1> QED BY <1>2, <1>3


LEMMA PathsAreKeys == Paths \subseteq Keys /\ \A p \in Paths : Above(p) \subseteq Paths
<1> DEFINE given == ScalarPaths \cup ArrayPaths \cup BadParents
<1>1. given \subseteq Keys
  BY PathsAssumption DEF Keys
<1>2. \A p \in Paths : p \in given \/ \E g \in given : p \in Above(g)
  BY DEF Paths
<1>3. \A g \in given : g \in Paths /\ Above(g) \subseteq Paths
  BY DEF Paths
<1> HIDE DEF given
<1>4. ASSUME NEW p \in Paths PROVE p \in Keys /\ Above(p) \subseteq Paths
  <2>1. CASE p \in given
    BY <1>1, <1>3, <2>1
  <2>2. CASE p \notin given
    <3>1. PICK g \in given : p \in Above(g)
      BY <1>2, <2>2
    <3>2. g \in Keys
      BY <1>1
    <3>3. p \in Keys /\ Begins(p, g)
      BY <3>1, <3>2, AboveIs
    <3>4. ASSUME NEW q \in Above(p) PROVE q \in Above(g)
      <4>1. q \in Keys /\ Begins(q, p)
        BY <3>3, <3>4, AboveIs
      <4>2. Begins(q, g)
        BY <3>2, <3>3, <4>1, BeginsIsOrder
      <4> QED BY <3>2, <4>1, <4>2, AboveIs
    <3> QED BY <1>3, <3>3, <3>4
  <2> QED BY <2>1, <2>2
<1> QED BY <1>4

LEMMA KindOfNode ==
    ASSUME NEW node, IsNode(node)
    PROVE  /\ node.kind = "array" => node.items \in Seq(Item)
           /\ node.kind = "scalar" => node.value \in Values
BY DEF IsNode, Object

LEMMA NodesAre ==
    /\ IsNode(Object) /\ Object.kind = "object"
    /\ \A v \in Values : IsNode(Scalar(v)) /\ Scalar(v).kind # "object"
    /\ \A items \in Seq(Item) : IsNode(Array(items)) /\ Array(items).kind # "object"
BY DEF IsNode, Object, Scalar, Array

LEMMA EmptyIs == IsDocument(Empty)
BY DEF IsDocument, Empty

(* resolve_parent: with what lies above it made, a set of keys is in the tree. *)
LEMMA WithObjectsIs ==
    ASSUME NEW doc, IsDocument(doc), NEW steps \in SUBSET Paths,
           \A p \in steps : Above(p) \subseteq steps
    PROVE  /\ IsDocument(WithObjects(doc, steps))
           /\ DOMAIN WithObjects(doc, steps) = DOMAIN doc \cup steps
           /\ \A p \in steps : IsObject(WithObjects(doc, steps), p)
<1> DEFINE new == WithObjects(doc, steps)
<1>1. /\ DOMAIN new = DOMAIN doc \cup steps
      /\ \A q \in DOMAIN doc \cup steps :
            new[q] = IF q \in steps /\ ~IsObject(doc, q) THEN Object ELSE doc[q]
  BY DEF WithObjects
<1> HIDE DEF new
<1>2. ASSUME NEW p \in steps PROVE IsObject(new, p)
  BY <1>1, NodesAre DEF IsObject
<1>3. ASSUME NEW q \in DOMAIN new PROVE IsNode(new[q])
  BY <1>1, NodesAre DEF IsDocument, IsObject
<1>4. ASSUME NEW q \in DOMAIN new, NEW r \in Above(q) PROVE IsObject(new, r)
  <2>1. CASE q \in steps
    BY <1>2, <1>4, <2>1
  <2>2. CASE q \notin steps
    <3>1. IsObject(doc, r)
      BY <1>1, <1>4, <2>2 DEF IsDocument, Reachable
    <3> QED BY <1>1, <3>1 DEF IsObject
  <2> QED BY <2>1, <2>2
<1>5. IsDocument(new)
  BY <1>1, <1>3, <1>4 DEF IsDocument, Reachable
<1> QED BY <1>1, <1>2, <1>5 DEF new

(* A tree stays one without a set of nodes of which none is above another node. *)
LEMMA WithoutIs ==
    ASSUME NEW doc, IsDocument(doc), NEW gone,
           \A q \in DOMAIN doc \ gone : \A r \in Above(q) : r \notin gone
    PROVE  /\ IsDocument(Without(doc, gone))
           /\ DOMAIN Without(doc, gone) = DOMAIN doc \ gone
           /\ \A q \in DOMAIN doc \ gone : Without(doc, gone)[q] = doc[q]
BY DEF Without, IsDocument, Reachable, IsObject

(* What is at a key or below it can be taken out. *)
LEMMA BelowIsClosed ==
    ASSUME NEW doc, IsDocument(doc), NEW p \in Keys,
           NEW q \in DOMAIN doc \ AtOrBelow(doc, p), NEW r \in Above(q)
    PROVE  r \notin AtOrBelow(doc, p)
<1>1. q \in Keys /\ r \in Keys /\ Begins(r, q)
  BY PathsAreKeys, AboveIs DEF IsDocument
<1> SUFFICES ASSUME r \in AtOrBelow(doc, p) PROVE FALSE
  OBVIOUS
<1>2. Begins(p, r) \/ p = r
  BY <1>1, PrefixIs DEF AtOrBelow
<1>3. Begins(p, q)
  BY <1>1, <1>2, BeginsIsOrder
<1> QED BY <1>1, <1>3, PrefixIs DEF AtOrBelow

LEMMA CutIs ==
    ASSUME NEW doc, IsDocument(doc), NEW p \in Keys
    PROVE  IsDocument(Cut(doc, p))
<1>1. PICK gone : gone = AtOrBelow(doc, p)
  OBVIOUS
<1>2. \A q \in DOMAIN doc \ gone : \A r \in Above(q) : r \notin gone
  BY <1>1, BelowIsClosed
<1> QED BY <1>1, <1>2, WithoutIs DEF Cut

(* prune_empty_parents *)
LEMMA PruneIs ==
    ASSUME NEW doc, IsDocument(doc), NEW p \in Keys
    PROVE  IsDocument(Prune(doc, p))
<1>1. PICK gone : gone = {q \in Above(p) : Below(doc, q) \subseteq Above(p)}
  OBVIOUS
<1>2. ASSUME NEW q \in DOMAIN doc \ gone, NEW r \in Above(q) PROVE r \notin gone
  <2>1. q \in Keys /\ r \in Keys /\ Begins(r, q)
    BY PathsAreKeys, AboveIs DEF IsDocument
  <2> SUFFICES ASSUME r \in gone PROVE FALSE
    OBVIOUS
  <2>2. Below(doc, r) \subseteq Above(p)
    BY <1>1
  <2>3. q \in Above(p)
    BY <2>1, <2>2, PrefixIs DEF Below
  <2>4. ASSUME NEW s \in Below(doc, q) PROVE s \in Above(p)
    <3>1. s \in DOMAIN doc /\ s \in Keys /\ IsStrictPrefix(q, s)
      BY PathsAreKeys DEF Below, IsDocument
    <3>2. Begins(q, s)
      BY <2>1, <3>1, PrefixIs
    <3>3. Begins(r, s)
      BY <2>1, <3>1, <3>2, BeginsIsOrder
    <3>4. s \in Below(doc, r)
      BY <2>1, <3>1, <3>3, PrefixIs DEF Below
    <3> QED BY <2>2, <3>4
  <2> QED BY <1>1, <2>3, <2>4
<1> QED BY <1>1, <1>2, WithoutIs DEF Prune

LEMMA PutIs ==
    ASSUME NEW doc, IsDocument(doc), NEW p \in Paths, NEW node, IsNode(node)
    PROVE  IsDocument(Put(doc, p, node))
<1>0. p \in Keys /\ Above(p) \subseteq Paths
  BY PathsAreKeys
<1>1. PICK above : above = WithObjects(doc, Above(p))
  OBVIOUS
<1>2. \A q \in Above(p) : Above(q) \subseteq Above(p)
  <2>1. ASSUME NEW q \in Above(p), NEW r \in Above(q) PROVE r \in Above(p)
    <3>1. q \in Keys /\ Begins(q, p)
      BY <1>0, AboveIs
    <3>2. r \in Keys /\ Begins(r, q)
      BY <2>1, <3>1, AboveIs
    <3>3. Begins(r, p)
      BY <1>0, <3>1, <3>2, BeginsIsOrder
    <3> QED BY <1>0, <3>2, <3>3, AboveIs
  <2> QED BY <2>1
<1>3. IsDocument(above) /\ \A q \in Above(p) : IsObject(above, q)
  BY <1>0, <1>1, <1>2, WithObjectsIs
<1>4. PICK gone : gone = AtOrBelow(above, p)
  OBVIOUS
<1>5. \A q \in DOMAIN above \ gone : \A r \in Above(q) : r \notin gone
  BY <1>0, <1>3, <1>4, BelowIsClosed
<1>6. PICK kept : kept = Without(above, gone)
  OBVIOUS
<1>7. /\ IsDocument(kept) /\ DOMAIN kept = DOMAIN above \ gone
      /\ \A q \in DOMAIN kept : kept[q] = above[q]
  <2>1. /\ IsDocument(Without(above, gone))
        /\ DOMAIN Without(above, gone) = DOMAIN above \ gone
        /\ \A q \in DOMAIN above \ gone : Without(above, gone)[q] = above[q]
    BY <1>3, <1>5, WithoutIs
  <2> QED BY <1>6, <2>1
<1>8. PICK new : new = [q \in DOMAIN kept \cup {p} |-> IF q = p THEN node ELSE kept[q]]
  OBVIOUS
<1>9. Put(doc, p, node) = new
  BY <1>1, <1>4, <1>6, <1>8 DEF Put
<1>10. p \notin DOMAIN kept
  <2>1. p \in DOMAIN above => p \in gone
    BY <1>0, <1>4, PrefixIs DEF AtOrBelow
  <2> QED BY <1>7, <2>1
<1>11. ASSUME NEW q \in Above(p) PROVE IsObject(kept, q)
  <2>1. q \in DOMAIN above /\ IsObject(above, q)
    BY <1>3 DEF IsObject
  <2>2. q \in Keys /\ Begins(q, p)
    BY <1>0, AboveIs
  <2>3. ~Begins(p, q) /\ p # q
    BY <1>0, <2>2, BeginsIsOrder
  <2>4. q \notin gone
    BY <1>0, <1>4, <2>2, <2>3, PrefixIs DEF AtOrBelow
  <2> QED BY <1>7, <2>1, <2>4 DEF IsObject
<1>12. ASSUME NEW q, IsObject(kept, q) PROVE IsObject(new, q)
  BY <1>8, <1>10, <1>12 DEF IsObject
<1>13. ASSUME NEW q \in DOMAIN new PROVE q \in Paths /\ IsNode(new[q]) /\ Reachable(new, q)
  <2>1. CASE q = p
    BY <1>8, <1>11, <1>12, <2>1 DEF Reachable
  <2>2. CASE q # p
    <3>1. q \in DOMAIN kept /\ new[q] = kept[q]
      BY <1>8, <2>2
    <3>2. q \in Paths /\ IsNode(kept[q]) /\ Reachable(kept, q)
      BY <1>7, <3>1 DEF IsDocument
    <3> QED BY <1>12, <3>1, <3>2 DEF Reachable
  <2> QED BY <2>1, <2>2
<1> QED BY <1>9, <1>13 DEF IsDocument

(* The calls on arrays. *)
LEMMA ItemsAre ==
    ASSUME NEW doc, IsDocument(doc), NEW p
    PROVE  /\ Items(doc, p) \in Seq(Item)
           /\ Items(doc, p) # <<>> => IsArray(doc, p)
<1>1. IsArray(doc, p) => doc[p].items \in Seq(Item)
  BY KindOfNode DEF IsArray, IsDocument
<1> QED BY <1>1 DEF Items

LEMMA WithItemsIs ==
    ASSUME NEW doc, IsDocument(doc), NEW p, IsArray(doc, p), NEW items \in Seq(Item)
    PROVE  IsDocument(WithItems(doc, p, items))
<1>1. PICK node : node = Array(items)
  OBVIOUS
<1>2. IsNode(node)
  BY <1>1, NodesAre
<1>3. PICK new : new = [doc EXCEPT ![p] = node]
  OBVIOUS
<1>4. /\ DOMAIN new = DOMAIN doc
      /\ \A q \in DOMAIN doc : new[q] = IF q = p THEN node ELSE doc[q]
  BY <1>3
<1>5. ASSUME NEW q, IsObject(doc, q) PROVE IsObject(new, q)
  BY <1>4, <1>5 DEF IsObject, IsArray
<1>6. IsDocument(new)
  BY <1>2, <1>4, <1>5 DEF IsDocument, Reachable
<1> QED BY <1>1, <1>3, <1>6 DEF WithItems

(* remove_config_array_items_where: what is left are items of the array. *)
LEMMA LeftIs ==
    ASSUME NEW items \in Seq(Item), NEW v
    PROVE  Left(items, v) \in Seq(Item) /\ (items = <<>> => Left(items, v) = <<>>)
<1> DEFINE N == Len(items)
           Next1(r, n) == IF items[n].value = v THEN r ELSE Append(r, items[n])
           Step1(f) == [n \in 0..N |->
                          IF n = 0 THEN <<>>
                          ELSE IF items[n].value = v THEN f[n - 1]
                          ELSE Append(f[n - 1], items[n])]
           left == CHOOSE f : f = Step1(f)
<1>1. Left(items, v) = left[N]
  BY DEF Left
<1>2. N \in Nat /\ DOMAIN items = 1..N /\ N \in 0..N /\ \A n \in 1..N : items[n] \in Item
  OBVIOUS
<1>3. \A f : Step1(f) = [n \in 0..N |-> IF n = 0 THEN <<>> ELSE Next1(f[n - 1], n)]
  OBVIOUS
<1> HIDE DEF N
<1>4. \E f : f = Step1(f)
  <2> DEFINE F == [n \in 1..N |-> [r \in Seq(Item) |-> Next1(r, n)]]
  <2>1. F \in [1..N -> [Seq(Item) -> Seq(Item)]]
    BY <1>2
  <2> HIDE DEF F
  <2>2. <<>> \in Seq(Item)
    OBVIOUS
  <2>3. PICK g : IsLoop(g, N, Seq(Item), <<>>, F)
    BY <1>2, <2>1, <2>2, LoopExists
  <2>4. ASSUME NEW n \in 0..N
        PROVE  g[n] = IF n = 0 THEN <<>> ELSE Next1(g[n - 1], n)
    <3>1. n # 0 => n \in 1..N /\ n - 1 \in 0..N
      BY <1>2
    <3> HIDE DEF Next1
    <3> QED BY <2>3, <3>1 DEF F, IsLoop
  <2>5. g = Step1(g)
    <3> HIDE DEF Step1
    <3> HIDE DEF Next1
    <3> QED BY <1>3, <2>3, <2>4 DEF IsLoop
  <2> QED BY <2>5
<1>5. left = Step1(left)
  <2> HIDE DEF Step1
  <2> QED BY <1>4, Zenon
<1> HIDE DEF left
<1>6. \A n \in 0..N : left[n] = IF n = 0 THEN <<>> ELSE Next1(left[n - 1], n)
  <2> HIDE DEF Step1
  <2> HIDE DEF Next1
  <2> QED BY <1>3, <1>5
<1> HIDE DEF Step1
<1>7. ASSUME NEW n \in 1..N, NEW r \in Seq(Item) PROVE Next1(r, n) \in Seq(Item)
  BY <1>2
<1> HIDE DEF Next1
<1>8. \A n \in 0..N : left[n] \in Seq(Item)
  <2> DEFINE Fails == {n \in 0..N : left[n] \notin Seq(Item)}
  <2>1. ASSUME NEW n \in Fails PROVE n # 0 /\ n - 1 \in Fails
    <3>1. n # 0
      <4>1. left[0] = <<>> /\ <<>> \in Seq(Item)
        BY <1>2, <1>6
      <4> QED BY <4>1
    <3>2. n \in 1..N /\ n - 1 \in 0..N
      BY <1>2, <3>1
    <3>3. left[n] = Next1(left[n - 1], n)
      BY <1>6, <3>1
    <3> QED BY <1>7, <3>1, <3>2, <3>3
  <2>2. Fails \in SUBSET (0..N)
    OBVIOUS
  <2>3. Fails = {}
    <3> HIDE DEF Fails
    <3> QED BY <1>2, <2>1, <2>2, NoFirstFailure
  <2> QED BY <2>3
<1>9. items = <<>> => left[N] = <<>>
  <2>1. items = <<>> => N = 0
    BY DEF N
  <2> QED BY <1>2, <1>6, <2>1
<1> QED BY <1>1, <1>2, <1>8, <1>9

(* find_item_index: 0, or the place of an item. *)
LEMMA IndexOfIs ==
    ASSUME NEW items \in Seq(Item), NEW id
    PROVE  IndexOf(items, id) # 0 => IndexOf(items, id) \in DOMAIN items
<1> DEFINE S == {i \in DOMAIN items : items[i].id = id}
<1>1. CASE S = {}
  BY <1>1 DEF IndexOf
<1>2. CASE S # {}
  <2>1. DOMAIN items = 1 .. Len(items) /\ Len(items) \in Nat /\ S \in SUBSET Nat
    OBVIOUS
  <2>2. PICK m \in S : \A y \in S : m <= y
    <3> HIDE DEF S
    <3> QED BY <1>2, <2>1, MinProperties
  <2>3. \A j \in 1 .. m - 1 : items[j].id # id
    <3> SUFFICES ASSUME NEW j \in 1 .. m - 1, items[j].id = id PROVE FALSE
      OBVIOUS
    <3>1. m \in 1 .. Len(items)
      BY <2>1
    <3>2. j \in S /\ j < m
      BY <2>1, <3>1
    <3> QED BY <2>2, <3>1, <3>2
  <2>4. \E i \in DOMAIN items : items[i].id = id /\ \A j \in 1 .. i - 1 : items[j].id # id
    BY <2>3
  <2>5. \E i \in DOMAIN items : items[i].id = id
    BY <2>4
  <2> QED BY <2>4, <2>5 DEF IndexOf
<1> QED BY <1>1, <1>2


-----------------------------------------------------------------------------
(* A step of a call that leaves trees. *)
Leaves(t, doc) ==
    IsDocument(doc) /\ ((\E f \in Targets : Persist(t, doc, f))
                        \/ (\E code \in {-1, 0} : Answer(t, doc, code)))

LEMMA LoadedIs == ConfigTypeOK => IsDocument(Loaded)
<1> SUFFICES ASSUME ConfigTypeOK PROVE IsDocument(Loaded)
  OBVIOUS
<1>1. IsDocument(file["config"].doc)
  BY DEF ConfigTypeOK, IsContent, Targets
<1> QED BY <1>1, EmptyIs DEF ConfigTypeOK, Loaded, Parsed

(* Each call makes a tree of the tree. *)
LEMMA CallLeavesTree ==
    ASSUME ConfigTypeOK, NEW t \in Threads, Call(t)
    PROVE  \E doc : Leaves(t, doc)
<1>0. PICK doc : doc = Loaded
  OBVIOUS
<1>1. IsDocument(doc) /\ "config" \in Targets /\ "export" \in Targets
  BY <1>0, LoadedIs DEF Targets
<1>2. (ScalarPaths \cup ArrayPaths \cup BadParents) \subseteq Paths
  BY DEF Paths
<1>3. ASSUME NEW p \in ScalarPaths, NEW v \in Values, Set(t, p, v)
      PROVE  \E new : Leaves(t, new)
  <2>1. IsDocument(Put(doc, p, Scalar(v)))
    BY <1>1, <1>2, NodesAre, PutIs
  <2> QED BY <1>0, <1>1, <1>3, <2>1 DEF Set, Leaves
<1>4. ASSUME NEW p \in BadParents, SetMalformed(t, p)
      PROVE  \E new : Leaves(t, new)
  <2>1. p \in Paths /\ p \in Keys /\ Above(p) \subseteq Paths
    BY <1>2, PathsAreKeys
  <2>2. PICK steps \in SUBSET Paths : steps = Above(p) \cup {p}
    BY <2>1
  <2>3. \A q \in steps : Above(q) \subseteq steps
    <3>1. ASSUME NEW q \in Above(p), NEW r \in Above(q) PROVE r \in Above(p)
      <4>1. q \in Keys /\ Begins(q, p)
        BY <2>1, AboveIs
      <4>2. r \in Keys /\ Begins(r, q)
        BY <3>1, <4>1, AboveIs
      <4>3. Begins(r, p)
        BY <2>1, <4>1, <4>2, BeginsIsOrder
      <4> QED BY <2>1, <4>2, <4>3, AboveIs
    <3> QED BY <2>2, <3>1
  <2>4. IsDocument(WithObjects(doc, steps))
    BY <1>1, <2>3, WithObjectsIs
  <2> QED BY <1>0, <1>4, <2>2, <2>4 DEF SetMalformed, Leaves
<1>5. ASSUME NEW p \in ScalarPaths \cup ArrayPaths, Reset(t, p)
      PROVE  \E new : Leaves(t, new)
  <2>1. p \in Keys
    BY <1>2, PathsAreKeys
  <2>2. PICK cut : cut = Cut(doc, p)
    OBVIOUS
  <2>3. IsDocument(cut)
    BY <1>1, <2>1, <2>2, CutIs
  <2>4. IsDocument(Prune(cut, p))
    BY <2>1, <2>3, PruneIs
  <2> QED BY <1>0, <1>1, <1>5, <2>2, <2>4 DEF Reset, Leaves
<1>6. ASSUME ResetAll(t) \/ Save(t)
      PROVE  \E new : Leaves(t, new)
  BY <1>0, <1>1, <1>6, EmptyIs DEF ResetAll, Save, Leaves
<1>7. ASSUME Import(t)
      PROVE  \E new : Leaves(t, new)
  <2>1. IsDocument(file["export"].doc)
    BY <1>1 DEF ConfigTypeOK, IsContent
  <2> QED BY <1>0, <1>1, <1>7, <2>1 DEF Import, Leaves
<1>8. ASSUME NEW p \in ArrayPaths, NEW item \in Item, AppendItem(t, p, item)
      PROVE  \E new : Leaves(t, new)
  <2>1. PICK items : items = Append(Items(doc, p), item)
    OBVIOUS
  <2>2. items \in Seq(Item)
    BY <1>1, <2>1, ItemsAre
  <2>3. IsDocument(Put(doc, p, Array(items)))
    BY <1>1, <1>2, <2>2, NodesAre, PutIs
  <2> QED BY <1>0, <1>1, <1>8, <2>1, <2>3 DEF AppendItem, Leaves
<1>9. ASSUME NEW p \in ArrayPaths, NEW items \in Seq(Item), IsArray(doc, p),
             Persist(t, WithItems(doc, p, items), "config")
      PROVE  \E new : Leaves(t, new)
  BY <1>1, <1>9, WithItemsIs DEF Leaves
<1>10. ASSUME NEW p, NEW i \in DOMAIN Items(doc, p), NEW item \in Item
       PROVE  IsArray(doc, p) /\ [Items(doc, p) EXCEPT ![i] = item] \in Seq(Item)
  <2>1. PICK items \in Seq(Item) : items = Items(doc, p)
    BY <1>1, ItemsAre
  <2>2. items # <<>> /\ [items EXCEPT ![i] = item] \in Seq(Item)
    BY <1>10, <2>1
  <2> QED BY <1>1, <2>1, <2>2, ItemsAre
<1>11. ASSUME NEW code \in {-1, 0}, Answer(t, doc, code)
       PROVE  \E new : Leaves(t, new)
  BY <1>1, <1>11 DEF Leaves
<1>12. ASSUME NEW p \in ArrayPaths, NEW item \in Item, UpdateItem(t, p, item)
       PROVE  \E new : Leaves(t, new)
  <2>1. PICK i : i = IndexOf(Items(doc, p), item.id)
    OBVIOUS
  <2>2. i # 0 => i \in DOMAIN Items(doc, p)
    BY <1>1, <2>1, ItemsAre, IndexOfIs
  <2>3. CASE i # 0
    <3>1. IsArray(doc, p) /\ [Items(doc, p) EXCEPT ![i] = item] \in Seq(Item)
      BY <1>10, <2>2, <2>3
    <3> QED BY <1>0, <1>9, <1>12, <2>1, <2>3, <3>1 DEF UpdateItem
  <2>4. CASE i = 0
    BY <1>0, <1>11, <1>12, <2>1, <2>4 DEF UpdateItem
  <2> QED BY <2>3, <2>4
<1>13. ASSUME NEW p \in ArrayPaths, NEW i, NEW item \in Item, ReplaceItem(t, p, i, item)
       PROVE  \E new : Leaves(t, new)
  <2>1. CASE i \in DOMAIN Items(doc, p)
    <3>1. IsArray(doc, p) /\ [Items(doc, p) EXCEPT ![i] = item] \in Seq(Item)
      BY <1>10, <2>1
    <3> QED BY <1>0, <1>9, <1>13, <2>1, <3>1 DEF ReplaceItem
  <2>2. CASE i \notin DOMAIN Items(doc, p)
    BY <1>0, <1>11, <1>13, <2>2 DEF ReplaceItem
  <2> QED BY <2>1, <2>2
<1>14. ASSUME NEW p \in ArrayPaths, NEW id, RemoveItem(t, p, id)
       PROVE  \E new : Leaves(t, new)
  <2>1. PICK items \in Seq(Item) : items = Items(doc, p)
    BY <1>1, ItemsAre
  <2>2. PICK i : i = IndexOf(items, id)
    OBVIOUS
  <2>3. CASE i # 0
    <3>1. i \in DOMAIN items /\ DOMAIN items = 1 .. Len(items) /\ items # <<>>
      BY <2>1, <2>2, <2>3, IndexOfIs
    <3>2. RemoveAt(items, i) \in Seq(Item)
      BY <3>1, RemoveAtIs
    <3>3. IsArray(doc, p)
      BY <1>1, <2>1, <3>1, ItemsAre
    <3> QED BY <1>0, <1>9, <1>14, <2>1, <2>2, <2>3, <3>2, <3>3 DEF RemoveItem
  <2>4. CASE i = 0
    BY <1>0, <1>11, <1>14, <2>1, <2>2, <2>4 DEF RemoveItem
  <2> QED BY <2>3, <2>4
<1>15. ASSUME NEW p \in ArrayPaths, NEW v, RemoveWhere(t, p, v)
       PROVE  \E new : Leaves(t, new)
  <2>1. PICK items \in Seq(Item) : items = Items(doc, p)
    BY <1>1, ItemsAre
  <2>2. PICK left \in Seq(Item) : left = Left(items, v)
    BY LeftIs
  <2>3. CASE items = <<>>
    <3>1. left = <<>>
      BY <2>2, <2>3, LeftIs
    <3> QED BY <1>0, <1>11, <1>15, <2>1, <2>2, <2>3, <3>1 DEF RemoveWhere
  <2>4. CASE items # <<>> /\ left # items
    <3>1. IsArray(doc, p)
      BY <1>1, <2>1, <2>4, ItemsAre
    <3> QED BY <1>0, <1>9, <1>15, <2>1, <2>2, <2>4, <3>1 DEF RemoveWhere
  <2>5. CASE left = items
    BY <1>0, <1>11, <1>15, <2>1, <2>2, <2>5 DEF RemoveWhere
  <2> QED BY <2>3, <2>4, <2>5
<1> QED
  BY <1>3, <1>4, <1>5, <1>6, <1>7, <1>8, <1>12, <1>13, <1>14, <1>15 DEF Call


LEMMA ContentIs ==
    /\ IsContent(NoFile) /\ IsContent(Torn)
    /\ \A doc : IsDocument(doc) => \A b \in BOOLEAN : IsContent(Whole(doc, b))
    /\ \A content : IsContent(content) => IsContent(AfterPowerLoss(content))
BY EmptyIs DEF IsContent, NoFile, Torn, Whole, AfterPowerLoss

(* The lock has one holder, the thread that is in a call. *)
HolderInv == \A t \in Threads : pc[t] # "idle" <=> holder = t

LEMMA LeavesTypeOK ==
    ASSUME ConfigTypeOK, NEW t \in Threads, NEW doc, Leaves(t, doc)
    PROVE  ConfigTypeOK'
<1>1. /\ Enter(t) /\ root' = doc /\ UNCHANGED <<file, tmp, settled>> /\ IsDocument(doc)
      /\ \E place \in {"open", "return"} : pc' = [pc EXCEPT ![t] = place]
      /\ target' \in Targets \cup {"nothing"}
      /\ \/ rc' = rc
         \/ \E code \in {-1, 0} : rc' = [rc EXCEPT ![t] = code]
      /\ acked' = (acked /\ doc = Loaded)
  BY DEF Leaves, Persist, Answer
<1>2. IsDocument(root)' /\ (\A f \in Targets : IsContent(file[f]) /\ IsContent(tmp[f]))'
      /\ IsContent(settled)' /\ (DOMAIN file = Targets /\ DOMAIN tmp = Targets)'
  BY <1>1 DEF ConfigTypeOK
<1>3. calls' \in 0 .. MaxCalls /\ ready' \in BOOLEAN /\ acked' \in BOOLEAN
  BY <1>1, MaxCallsAssumption DEF Enter, ConfigTypeOK
<1>4. pc' \in [Threads -> {"idle", "open", "write", "sync", "rename", "remove", "return"}]
      /\ rc' \in [Threads -> {-1, 0}] /\ holder' \in Threads \cup {"nobody"}
  BY <1>1 DEF Enter, ConfigTypeOK
<1>5. HolderInv'
  BY <1>1, ThreadsAssumption DEF Enter, ConfigTypeOK, HolderInv
<1> QED BY <1>1, <1>2, <1>3, <1>4, <1>5 DEF ConfigTypeOK, HolderInv

(* What persist_config does with the files and the places. *)
LEMMA ContinueTypeOK ==
    ASSUME ConfigTypeOK, ConfigIInv, NEW t \in Threads, Continue(t)
    PROVE  ConfigTypeOK'
<1>1. pc[t] \in Steps => target \in Targets
  BY DEF ConfigIInv, LockInv
<1>2. UNCHANGED <<root, ready, settled, target, calls>>
  BY DEF Continue, Open, Write, Sync, Rename, RemoveTmp, Return
<1>3. /\ \E place \in {"idle", "write", "sync", "rename", "remove", "return"} :
            /\ pc' = [pc EXCEPT ![t] = place]
            /\ IF place = "idle" THEN holder' = "nobody" ELSE holder' = holder
      /\ rc' = rc \/ \E code \in {-1, 0} : rc' = [rc EXCEPT ![t] = code]
      /\ pc[t] # "idle" /\ acked' \in BOOLEAN
  BY DEF Continue, Open, Write, Sync, Rename, RemoveTmp, Return, ConfigTypeOK
<1>4. /\ \A f \in Targets : IsContent(file[f]) /\ IsContent(tmp[f])
      /\ DOMAIN file = Targets /\ DOMAIN tmp = Targets /\ IsDocument(root)
  BY DEF ConfigTypeOK
<1>5. /\ tmp' = tmp \/ \E content : /\ IsContent(content)
                                    /\ tmp' = [tmp EXCEPT ![target] = content]
      /\ file' = file \/ \E content : /\ IsContent(content)
                                      /\ file' = [file EXCEPT ![target] = content]
  <2>1. CASE Open(t)
    BY <2>1, ContentIs DEF Open
  <2>2. CASE Write(t)
    <3>1. PICK complete \in BOOLEAN :
            tmp' = [tmp EXCEPT ![target] = IF complete THEN Whole(root, FALSE) ELSE Torn]
      BY <2>2 DEF Write
    <3>2. PICK content : content = IF complete THEN Whole(root, FALSE) ELSE Torn
      OBVIOUS
    <3>3. IsContent(content)
      BY <1>4, <3>2, ContentIs
    <3> QED BY <2>2, <3>1, <3>2, <3>3 DEF Write
  <2>3. CASE Sync(t)
    <3>1. tmp' = tmp \/ tmp' = [tmp EXCEPT ![target] = Whole(tmp[target].doc, TRUE)]
      BY <2>3 DEF Sync
    <3>2. IsDocument(tmp[target].doc)
      BY <1>1, <1>4, <2>3 DEF Sync, Steps, IsContent
    <3> QED BY <2>3, <3>1, <3>2, ContentIs DEF Sync
  <2>4. CASE Rename(t)
    <3>1. IsContent(tmp[target])
      BY <1>1, <1>4, <2>4 DEF Rename, Steps
    <3> QED BY <2>4, <3>1, ContentIs DEF Rename
  <2>5. CASE RemoveTmp(t)
    BY <2>5, ContentIs DEF RemoveTmp
  <2>6. CASE Return(t)
    BY <2>6 DEF Return
  <2> QED BY <2>1, <2>2, <2>3, <2>4, <2>5, <2>6 DEF Continue
<1>6. /\ \A f \in Targets : IsContent(file'[f]) /\ IsContent(tmp'[f])
      /\ DOMAIN file' = Targets /\ DOMAIN tmp' = Targets
  BY <1>4, <1>5
<1>7. IsDocument(root') /\ IsContent(settled')
  BY <1>2 DEF ConfigTypeOK
<1>8. HolderInv'
  BY <1>3, ThreadsAssumption DEF ConfigTypeOK, HolderInv
<1>9. pc' \in [Threads -> {"idle", "open", "write", "sync", "rename", "remove", "return"}]
      /\ rc' \in [Threads -> {-1, 0}] /\ holder' \in Threads \cup {"nobody"}
  BY <1>3 DEF ConfigTypeOK
<1> QED BY <1>2, <1>3, <1>6, <1>7, <1>8, <1>9 DEF ConfigTypeOK, HolderInv

LEMMA RestartTypeOK ==
    ASSUME ConfigTypeOK, Restart,
           \A f \in Targets : IsContent(file'[f]) /\ IsContent(tmp'[f]),
           DOMAIN file' = Targets /\ DOMAIN tmp' = Targets, IsContent(settled')
    PROVE  ConfigTypeOK'
<1>1. HolderInv'
  BY ThreadsAssumption DEF Restart, HolderInv
<1> QED BY <1>1, EmptyIs DEF ConfigTypeOK, Restart, HolderInv

LEMMA NextTypeOK == ConfigTypeOK /\ ConfigIInv /\ [ConfigNext]_configVars => ConfigTypeOK'
<1> SUFFICES ASSUME ConfigTypeOK, ConfigIInv, [ConfigNext]_configVars PROVE ConfigTypeOK'
  OBVIOUS
<1>1. ASSUME NEW t \in Threads, Read(t) PROVE ConfigTypeOK'
  BY <1>1, LoadedIs DEF Read, ConfigTypeOK
<1>2. ASSUME NEW t \in Threads, Call(t) PROVE ConfigTypeOK'
  BY <1>2, CallLeavesTree, LeavesTypeOK
<1>3. ASSUME NEW t \in Threads, Continue(t) PROVE ConfigTypeOK'
  BY <1>3, ContinueTypeOK
<1>4. CASE Settle
  BY <1>4 DEF Settle, ConfigTypeOK, Targets
<1>5. CASE Killed
  <2>1. UNCHANGED <<file, tmp, settled>> /\ Restart
    BY <1>5 DEF Killed, diskVars
  <2> QED BY <2>1, RestartTypeOK DEF ConfigTypeOK
<1>6. CASE PowerLoss
  <2>1. PICK kept \in {file["config"], settled} :
          file' = [f \in Targets |-> AfterPowerLoss(IF f = "config" THEN kept ELSE file[f])]
    BY <1>6 DEF PowerLoss
  <2>2. IsContent(kept)
    BY DEF ConfigTypeOK, Targets
  <2>3. ASSUME NEW f \in Targets PROVE IsContent(file'[f]) /\ IsContent(tmp'[f])
    <3>1. PICK content : content = IF f = "config" THEN kept ELSE file[f]
      OBVIOUS
    <3>2. IsContent(content) /\ IsContent(tmp[f])
      BY <2>2, <3>1 DEF ConfigTypeOK
    <3>3. file'[f] = AfterPowerLoss(content) /\ tmp'[f] = AfterPowerLoss(tmp[f])
      BY <1>6, <2>1, <3>1 DEF PowerLoss
    <3> QED BY <3>2, <3>3, ContentIs
  <2>4. DOMAIN file' = Targets /\ DOMAIN tmp' = Targets /\ UNCHANGED settled /\ Restart
    BY <1>6, <2>1 DEF PowerLoss
  <2> QED BY <2>3, <2>4, RestartTypeOK DEF ConfigTypeOK
<1>7. CASE UNCHANGED configVars
  BY <1>7 DEF configVars, ConfigTypeOK
<1> QED BY <1>1, <1>2, <1>3, <1>4, <1>5, <1>6, <1>7 DEF ConfigNext

(* config.c: through every call, for keys of any depth and values of any     *)
(* number, with any failure and any death, the document in memory and those  *)
(* in the files are trees: no node hangs below a scalar, an array or nothing *)
(* (resolve_parent, prune_empty_parents), arrays hold items, and the thread  *)
(* in a call is the one that has the lock.                                   *)
THEOREM DocumentsAreTrees == ConfigSpec => []ConfigTypeOK
<1>1. ConfigInit => ConfigTypeOK
  <2> SUFFICES ASSUME ConfigInit PROVE ConfigTypeOK
    OBVIOUS
  <2>1. \A f \in Targets : IsContent(file[f]) /\ IsContent(tmp[f])
    BY ContentIs DEF ConfigInit
  <2>2. IsContent(settled) /\ IsDocument(root)
    BY ContentIs, EmptyIs DEF ConfigInit
  <2>3. HolderInv
    BY ThreadsAssumption DEF ConfigInit, HolderInv
  <2>4. DOMAIN file = Targets /\ DOMAIN tmp = Targets /\ target \in Targets \cup {"nothing"}
    BY DEF ConfigInit, Targets
  <2>5. /\ pc \in [Threads -> {"idle", "open", "write", "sync", "rename", "remove", "return"}]
        /\ rc \in [Threads -> {-1, 0}] /\ holder \in Threads \cup {"nobody"}
    BY DEF ConfigInit
  <2>6. calls \in 0 .. MaxCalls /\ ready \in BOOLEAN /\ acked \in BOOLEAN
    <3>1. 0 \in 0 .. MaxCalls
      BY MaxCallsAssumption
    <3>2. calls = 0 /\ ready = FALSE /\ acked = FALSE
      BY DEF ConfigInit
    <3> QED BY <3>1, <3>2
  <2> QED BY <2>1, <2>2, <2>3, <2>4, <2>5, <2>6 DEF ConfigTypeOK, HolderInv
<1> QED
  BY <1>1, NextTypeOK, ConfigAlwaysIInv, PTL DEF ConfigSpec
=============================================================================
