-------------------------- MODULE MCTransferProofs --------------------------
(***************************************************************************)
(* Proofs about the stream, for every value of its constants, and about    *)
(* all the parts of a transfer together: what is finished is whole, what   *)
(* is stored is true, there is one of each, the clients are right, and     *)
(* nothing is spoilt.                                                      *)
(***************************************************************************)
EXTENDS TransferPartsProofs

-----------------------------------------------------------------------------
(* The stream: the one that a file of unknown size is, and the ranges of one   *)
(* whose size is known.                                                        *)

LEMMA StreamConstants ==
    /\ Total \in Nat \ {0} /\ ChunkSize \in Nat \ {0} /\ MaxRuns \in Nat \ {0}
    /\ MaxRedirects \in Nat /\ MaxFaults \in Nat
<1>1. {Total, ChunkSize, MaxRuns} \subseteq Nat \ {0} /\ {MaxRedirects, MaxFaults} \subseteq Nat
  BY ConstantsAssumption DEF Stream!StreamAssumption
<1> QED BY <1>1

(* The arithmetic of ranges is that of DoneRanges. *)
LEMMA StreamRanges ==
    /\ \A rs : Stream!Bytes(rs) = Bytes(rs)
    /\ \A rs : Stream!Canonical(rs) <=> Canonical(rs)
    /\ \A rs, start, end : Stream!IsRangeDone(rs, start, end) <=> IsRangeDone(rs, start, end)
<1>1. ASSUME NEW rs PROVE Stream!Bytes(rs) = Bytes(rs)
  BY DEF Stream!Bytes, Bytes
<1>2. ASSUME NEW rs PROVE Stream!Canonical(rs) <=> Canonical(rs)
  BY DEF Stream!Canonical, Canonical
<1>3. ASSUME NEW rs, NEW start, NEW end
      PROVE  Stream!IsRangeDone(rs, start, end) <=> IsRangeDone(rs, start, end)
  BY DEF Stream!IsRangeDone, IsRangeDone
<1> QED BY <1>1, <1>2, <1>3

LEMMA StreamMark ==
    \A rs, total, start, end :
        Stream!MarkRangeDone(rs, total, start, end) = MarkRangeDone(rs, total, start, end)
<1>1. ASSUME NEW rs, NEW total, NEW start, NEW end
      PROVE  Stream!MarkRangeDone(rs, total, start, end) = MarkRangeDone(rs, total, start, end)
  BY DEF Stream!MarkRangeDone, MarkRangeDone, Stream!LastByte, LastByte, Stream!IsRangeDone, IsRangeDone,
     Stream!MergeRange, MergeRange, Stream!Lo, Lo, Stream!Hi, Hi, Stream!StopAt, StopAt,
     Stream!Smallest, Smallest, Stream!Largest, Largest, Stream!Starts, Starts, Stream!Ends, Ends,
     Stream!ReplaceRun, ReplaceRun, Stream!InsertSorted, InsertSorted
<1> QED BY <1>1

LEMMA StreamLoad ==
    \A rs, total : Stream!LoadDoneRanges(rs, total) = LoadDoneRanges(rs, total)
<1> SUFFICES ASSUME NEW rs, NEW total
             PROVE  Stream!LoadDoneRanges(rs, total) = LoadDoneRanges(rs, total)
  OBVIOUS
<1>1. \A s : Stream!KeepInside(s, total) = KeepInside(s, total)
  BY DEF Stream!KeepInside, KeepInside
<1>2. ASSUME NEW s PROVE Stream!Coalesce(s) = Coalesce(s)
  BY DEF Stream!Coalesce, Coalesce, Stream!Largest, Largest
<1>3. ASSUME NEW s PROVE Stream!ClipRanges(s, total) = ClipRanges(s, total)
  <2>1. \A r : Stream!CutRange(r, total) = CutRange(r, total)
    BY DEF Stream!CutRange, CutRange, Stream!LastByte, LastByte
  <2>2. PICK cut : cut = [i \in 1..Len(s) |-> CutRange(s[i], total)]
    OBVIOUS
  <2>3. cut = [i \in 1..Len(s) |-> Stream!CutRange(s[i], total)]
    BY <2>1, <2>2
  <2>4. ClipRanges(s, total) = Coalesce(KeepInside(cut, total))
    BY <2>2 DEF ClipRanges
  <2>5. Stream!ClipRanges(s, total) = Stream!Coalesce(Stream!KeepInside(cut, total))
    BY <2>3 DEF Stream!ClipRanges
  <2> QED BY <1>1, <1>2, <2>4, <2>5
<1> DEFINE Loads(f) == [n \in 0..Len(rs) |->
                          IF n = 0 THEN <<>>
                          ELSE MarkRangeDone(f[n - 1], total, rs[n].start, rs[n].end)]
           There(f) == [n \in 0..Len(rs) |->
                          IF n = 0 THEN <<>>
                          ELSE Stream!MarkRangeDone(f[n - 1], total, rs[n].start, rs[n].end)]
<1>4. LoadDoneRanges(rs, total) = ClipRanges((CHOOSE f : f = Loads(f))[Len(rs)], total)
  BY DEF LoadDoneRanges
<1>5. Stream!LoadDoneRanges(rs, total) = Stream!ClipRanges((CHOOSE f : f = There(f))[Len(rs)], total)
  BY DEF Stream!LoadDoneRanges
<1>6. \A f : There(f) = Loads(f)
  BY StreamMark
<1> HIDE DEF Loads, There
<1>7. (CHOOSE f : f = There(f)) = (CHOOSE f : f = Loads(f))
  BY <1>6, Zenon
<1> QED BY <1>3, <1>4, <1>5, <1>7, Zenon

LEMMA StreamSegments ==
    /\ \A total, chunk : Stream!SegmentCount(total, chunk) = SegmentCount(total, chunk)
    /\ \A total, chunk, i : Stream!SegmentRange(total, chunk, i) = SegmentRange(total, chunk, i)
    /\ \A rs, total, chunk, i : Stream!IsSegmentDone(rs, total, chunk, i)
                                  <=> IsSegmentDone(rs, total, chunk, i)
    /\ \A rs, total : Stream!AllChunksDone(rs, total) <=> AllChunksDone(rs, total)
    /\ \A S : Stream!Smallest(S) = Smallest(S) /\ Stream!Largest(S) = Largest(S)
<1>1. ASSUME NEW total, NEW chunk PROVE Stream!SegmentCount(total, chunk) = SegmentCount(total, chunk)
  BY DEF Stream!SegmentCount, SegmentCount
<1>2. ASSUME NEW total, NEW chunk, NEW i
      PROVE  Stream!SegmentRange(total, chunk, i) = SegmentRange(total, chunk, i)
  BY DEF Stream!SegmentRange, SegmentRange, Stream!LastByte, LastByte
<1>3. ASSUME NEW rs, NEW total, NEW chunk, NEW i
      PROVE  Stream!IsSegmentDone(rs, total, chunk, i) <=> IsSegmentDone(rs, total, chunk, i)
  BY DEF Stream!IsSegmentDone, IsSegmentDone, Stream!SegmentRange, SegmentRange, Stream!LastByte, LastByte,
     Stream!IsRangeDone, IsRangeDone
<1>4. ASSUME NEW rs, NEW total PROVE Stream!AllChunksDone(rs, total) <=> AllChunksDone(rs, total)
  BY DEF Stream!AllChunksDone, AllChunksDone, Stream!IsRangeDone, IsRangeDone
<1>5. ASSUME NEW S PROVE Stream!Smallest(S) = Smallest(S) /\ Stream!Largest(S) = Largest(S)
  BY DEF Stream!Smallest, Smallest, Stream!Largest, Largest
<1> QED BY <1>1, <1>2, <1>3, <1>4, <1>5

(* The temp file. *)
StreamFiles == [os : Seq(0..Total), pending : Seq(Stream!Pendings)]

(* The last of some writes, and how far they reach. *)
LEMMA LastWrite ==
    ASSUME NEW m \in Nat, NEW S \in SUBSET (1..m), S # {}
    PROVE  Stream!Largest(S) \in S
<1>1. [k \in 1..m |-> k] \in [1..m -> Int]
  OBVIOUS
<1>2. \E x \in S : \A y \in S : [k \in 1..m |-> k][x] >= [k \in 1..m |-> k][y]
  BY <1>1, BestExists
<1>3. \E x \in S : \A y \in S : y <= x
  BY <1>2
<1> QED BY <1>3, Zenon DEF Stream!Largest

LEMMA FarthestWrite ==
    ASSUME NEW l \in Nat, NEW m \in Nat, NEW at \in [1..m -> Nat],
           NEW S, S = {l} \cup {at[k] : k \in 1..m}
    PROVE  /\ Stream!Largest(S) \in S /\ Stream!Largest(S) \in Nat
           /\ l <= Stream!Largest(S) /\ \A k \in 1..m : at[k] <= Stream!Largest(S)
<1>1. \E x \in S : \A y \in S : y <= x
  <2>1. CASE m = 0
    <3>1. S = {l}
      BY <2>1
    <3>2. l <= l
      OBVIOUS
    <3> QED BY <3>1, <3>2
  <2>2. CASE m # 0
    <3>0. at \in [1..m -> Int]
      OBVIOUS
    <3>1. 1..m # {} /\ at \in [1..m -> Int] /\ 1..m \in SUBSET (1..m)
      BY <2>2, <3>0
    <3>2. PICK i \in 1..m : \A k \in 1..m : at[i] >= at[k]
      BY <3>1, BestExists
    <3>3. at[i] \in Nat /\ at[i] \in S
      OBVIOUS
    <3>4. PICK a \in Nat : a = at[i]
      BY <3>3
    <3>5. \A y \in S : y = l \/ y <= a
      BY <3>2, <3>4
    <3>6. l <= a => \A y \in S : y <= a
      BY <3>5
    <3>7. a < l => \A y \in S : y <= l
      <4> SUFFICES ASSUME a < l, NEW y \in S PROVE y <= l
        OBVIOUS
      <4>1. y \in Nat
        OBVIOUS
      <4> QED BY <3>5, <4>1
    <3>8. l \in S /\ a \in S /\ (l <= a \/ a < l)
      BY <3>3, <3>4
    <3> QED BY <3>6, <3>7, <3>8
  <2> QED BY <2>1, <2>2
<1>2. PICK x : x = Stream!Largest(S)
  OBVIOUS
<1>3. x \in S /\ \A y \in S : y <= x
  BY <1>1, <1>2, Zenon DEF Stream!Largest
<1>4. l \in S /\ \A k \in 1..m : at[k] \in S
  OBVIOUS
<1>5. S \in SUBSET Nat
  OBVIOUS
<1> QED BY <1>2, <1>3, <1>4, <1>5

(* What the file is when the writer has passed on its first n bytes. *)
LEMMA StreamWritten ==
    ASSUME NEW f \in StreamFiles, NEW n \in 0..Len(f.pending), NEW c, c = Stream!Written(f, n)
    PROVE  /\ c \in Seq(0..Total) /\ Len(f.os) <= Len(c)
           /\ \A k \in 1..n : f.pending[k].at <= Len(c)
           /\ Len(c) = Len(f.os) \/ \E k \in 1..n : f.pending[k].at = Len(c)
           /\ Stream!InPlace(f) => Stream!Beginning(c)
<1>1. PICK l \in Nat : l = Len(f.os)
  BY LenProperties DEF StreamFiles
<1>2. PICK m \in Nat : m = Len(f.pending)
  BY LenProperties DEF StreamFiles
<1>3. n \in Nat /\ n <= m
  BY <1>2
<1>q. f.os \in Seq(0..Total) /\ f.pending \in Seq(Stream!Pendings)
  BY DEF StreamFiles
<1>4. \A k \in 1..m : f.pending[k].at \in Nat \ {0} /\ f.pending[k].byte \in 0..Total
  <2>1. \A k \in 1..m : f.pending[k] \in Stream!Pendings
    BY <1>2, <1>q, ElementOfSeq
  <2> QED BY <2>1 DEF Stream!Pendings
<1>5. \A i \in 1..l : f.os[i] \in 0..Total
  BY <1>1, <1>q, ElementOfSeq
<1>6. PICK at \in [1..n -> Nat] : \A k \in 1..n : at[k] = f.pending[k].at
  <2> DEFINE g == [k \in 1..n |-> f.pending[k].at]
  <2>1. g \in [1..n -> Nat] /\ \A k \in 1..n : g[k] = f.pending[k].at
    BY <1>3, <1>4
  <2> HIDE DEF g
  <2> QED BY <2>1
<1>7. PICK S : S = {l} \cup {at[k] : k \in 1..n}
  OBVIOUS
<1>8. S = {Len(f.os)} \cup {f.pending[k].at : k \in 1..n}
  BY <1>1, <1>6, <1>7
<1>9. PICK len \in Nat : len = Stream!Length(f, n) /\ len \in S /\ l <= len /\ \A k \in 1..n : at[k] <= len
  BY <1>3, <1>7, <1>8, FarthestWrite DEF Stream!Length
<1>10. ASSUME NEW i, Stream!Writes(f, n, i) # {}
       PROVE  \E k \in 1..n : k = Stream!Largest(Stream!Writes(f, n, i)) /\ f.pending[k].at = i
  <2>1. PICK W \in SUBSET (1..n) : W = Stream!Writes(f, n, i)
    BY DEF Stream!Writes
  <2>2. Stream!Largest(W) \in W
    BY <1>3, <1>10, <2>1, LastWrite
  <2> QED BY <2>1, <2>2 DEF Stream!Writes
<1> DEFINE byte(i) == IF Stream!Writes(f, n, i) # {}
                      THEN f.pending[Stream!Largest(Stream!Writes(f, n, i))].byte
                      ELSE IF i <= Len(f.os) THEN f.os[i] ELSE 0
<1>11. ASSUME NEW i \in 1..len PROVE byte(i) \in 0..Total
  <2>1. CASE Stream!Writes(f, n, i) # {}
    <3>1. PICK k \in 1..n : k = Stream!Largest(Stream!Writes(f, n, i))
      BY <1>10, <2>1
    <3> QED BY <1>3, <1>4, <2>1, <3>1
  <2>2. CASE Stream!Writes(f, n, i) = {}
    <3>1. 0 \in 0..Total
      BY StreamConstants
    <3> QED BY <1>1, <1>5, <2>2, <3>1
  <2> QED BY <2>1, <2>2
<1>12. c = [i \in 1..len |-> byte(i)]
  BY <1>9 DEF Stream!Written
<1>13. ASSUME Stream!InPlace(f), NEW i \in 1..len PROVE byte(i) = i
  <2>1. CASE Stream!Writes(f, n, i) # {}
    <3>1. PICK k \in 1..n : k = Stream!Largest(Stream!Writes(f, n, i)) /\ f.pending[k].at = i
      BY <1>10, <2>1
    <3>2. k \in DOMAIN f.pending
      BY <1>2, <1>3 DEF StreamFiles
    <3> QED BY <1>13, <2>1, <3>1, <3>2 DEF Stream!InPlace
  <2>2. CASE Stream!Writes(f, n, i) = {}
    <3>1. i \in 1..l
      <4> SUFFICES ASSUME i > l PROVE FALSE
        BY <1>9
      <4>1. PICK k \in 1..n : at[k] = len
        BY <1>7, <1>9
      <4>2. k \in DOMAIN f.pending /\ f.pending[k].at = len /\ k \in Nat
        BY <1>2, <1>3, <1>6, <4>1 DEF StreamFiles
      <4>3. CASE i = len
        BY <1>6, <2>2, <4>1, <4>3 DEF Stream!Writes
      <4>4. CASE i # len
        <5>1. i \in Len(f.os) + 1..f.pending[k].at - 1
          BY <1>1, <1>9, <4>2, <4>4
        <5>2. PICK q \in 1..k - 1 : f.pending[q].at = i
          BY <1>13, <4>2, <5>1 DEF Stream!InPlace
        <5>3. q \in 1..n
          BY <4>2
        <5> QED BY <2>2, <5>2, <5>3 DEF Stream!Writes
      <4> QED BY <4>3, <4>4
    <3>2. f.os[i] = i
      <4>1. i \in DOMAIN f.os
        BY <1>1, <3>1 DEF StreamFiles
      <4> QED BY <1>13, <4>1 DEF Stream!InPlace, Stream!Beginning
    <3> QED BY <1>1, <2>2, <3>1, <3>2
  <2> QED BY <2>1, <2>2
<1> HIDE DEF byte
<1>14. c \in Seq(0..Total) /\ Len(c) = len /\ DOMAIN c = 1..len
  BY <1>11, <1>12
<1>15. Stream!InPlace(f) => Stream!Beginning(c)
  BY <1>12, <1>13, <1>14 DEF Stream!Beginning
<1> QED BY <1>1, <1>6, <1>7, <1>9, <1>14, <1>15

LEMMA FileFields ==
    ASSUME NEW f \in StreamFiles
    PROVE  /\ f.os \in Seq(0..Total) /\ f.pending \in Seq(Stream!Pendings)
           /\ Len(f.os) \in Nat /\ DOMAIN f.os = 1..Len(f.os)
           /\ Len(f.pending) \in Nat /\ DOMAIN f.pending = 1..Len(f.pending)
           /\ \A k \in 1..Len(f.pending) :
                 f.pending[k].at \in Nat \ {0} /\ f.pending[k].byte \in 0..Total
<1>1. f.os \in Seq(0..Total) /\ f.pending \in Seq(Stream!Pendings)
  BY DEF StreamFiles
<1>2. \A k \in 1..Len(f.pending) : f.pending[k] \in Stream!Pendings
  BY <1>1, ElementOfSeq
<1> QED BY <1>1, <1>2, LenProperties DEF Stream!Pendings

(* The file with all that the writer has. *)
LEMMA StreamGiven ==
    ASSUME NEW f \in StreamFiles, NEW c, c = Stream!Given(f)
    PROVE  /\ c \in Seq(0..Total) /\ Len(c) \in Nat /\ Len(f.os) <= Len(c)
           /\ \A k \in 1..Len(f.pending) : f.pending[k].at <= Len(c)
           /\ Len(c) = Len(f.os) \/ \E k \in 1..Len(f.pending) : f.pending[k].at = Len(c)
           /\ Stream!InPlace(f) => Stream!Beginning(c) /\ Len(c) <= Total
           /\ Stream!InPlace(f) /\ Total <= Len(c) => c = [i \in 1..Total |-> i]
<1>1. Len(f.pending) \in 0..Len(f.pending) /\ c = Stream!Written(f, Len(f.pending))
  BY FileFields DEF Stream!Given
<1>2. /\ c \in Seq(0..Total) /\ Len(f.os) <= Len(c)
      /\ \A k \in 1..Len(f.pending) : f.pending[k].at <= Len(c)
      /\ Len(c) = Len(f.os) \/ \E k \in 1..Len(f.pending) : f.pending[k].at = Len(c)
      /\ Stream!InPlace(f) => Stream!Beginning(c)
  BY <1>1, StreamWritten
<1>3. PICK l \in Nat : l = Len(c) /\ DOMAIN c = 1..l
  BY <1>2, LenProperties
<1>4. PICK t \in Nat : t = Total
  BY StreamConstants
<1>5. ASSUME Stream!Beginning(c) PROVE l <= t
  <2> SUFFICES ASSUME l # 0 PROVE l <= t
    BY <1>4
  <2>1. l \in 1..Len(c)
    BY <1>3
  <2>2. c[l] \in 0..t /\ c[l] = l
    BY <1>2, <1>3, <1>4, <1>5, <2>1, ElementOfSeq DEF Stream!Beginning
  <2> QED BY <2>2
<1>6. ASSUME Stream!Beginning(c), t <= l PROVE c = [i \in 1..t |-> i]
  <2>1. l = t
    BY <1>5, <1>6
  <2>2. \A i \in 1..t : c[i] = i
    BY <1>3, <1>6, <2>1 DEF Stream!Beginning
  <2>3. c \in [1..t -> 0..Total]
    BY <1>2, <1>3, <2>1, LenProperties
  <2> QED BY <2>2, <2>3
<1> QED BY <1>2, <1>3, <1>4, <1>5, <1>6

LEMMA StreamNothing ==
    ASSUME NEW f \in StreamFiles, f.pending = <<>>
    PROVE  Len(Stream!Given(f)) = Len(f.os)
<1>1. Len(f.pending) = 0 /\ 1..0 = {}
  OBVIOUS
<1> QED BY <1>1, StreamGiven

(* close_file, drain_temp_file *)
LEMMA StreamFlushed ==
    ASSUME NEW f \in StreamFiles, NEW g, g = Stream!Flushed(f)
    PROVE  /\ g \in StreamFiles /\ g.pending = <<>> /\ Stream!Drain(f) = g
           /\ Len(g.os) = Len(Stream!Given(f)) /\ Len(f.os) <= Len(g.os)
           /\ Len(Stream!Given(g)) = Len(g.os)
           /\ Stream!InPlace(f) => Stream!InPlace(g)
<1>1. PICK c : c = Stream!Given(f)
  OBVIOUS
<1>2. g = [os |-> c, pending |-> <<>>]
  BY <1>1 DEF Stream!Flushed
<1>3. c \in Seq(0..Total) /\ Len(f.os) <= Len(c) /\ (Stream!InPlace(f) => Stream!Beginning(c))
  BY <1>1, StreamGiven
<1>4. <<>> \in Seq(Stream!Pendings)
  BY EmptySeq
<1>5. g \in StreamFiles
  BY <1>2, <1>3, <1>4 DEF StreamFiles
<1>6. g.os = c /\ g.pending = <<>> /\ DOMAIN g.pending = {}
  BY <1>2
<1>7. Stream!InPlace(f) => Stream!InPlace(g)
  BY <1>3, <1>6 DEF Stream!InPlace
<1>8. Stream!Drain(f) = g
  BY <1>1, <1>2 DEF Stream!Drain
<1> QED BY <1>1, <1>3, <1>5, <1>6, <1>7, <1>8, StreamNothing

(* The writer passes on some of its bytes. *)
LEMMA StreamFlush ==
    ASSUME NEW f \in StreamFiles, NEW n \in 1..Len(f.pending),
           NEW g, g = [os |-> Stream!Written(f, n),
                       pending |-> SubSeq(f.pending, n + 1, Len(f.pending))]
    PROVE  /\ g \in StreamFiles /\ Len(f.os) <= Len(g.os)
           /\ Len(Stream!Given(g)) = Len(Stream!Given(f))
           /\ Stream!InPlace(f) => Stream!InPlace(g)
<1>1. PICK c : c = Stream!Written(f, n)
  OBVIOUS
<1>2. PICK m \in Nat : m = Len(f.pending)
  BY FileFields
<1>3. n \in 0..Len(f.pending) /\ n \in Nat /\ n <= m
  BY <1>2
<1>4. /\ c \in Seq(0..Total) /\ Len(f.os) <= Len(c)
      /\ \A k \in 1..n : f.pending[k].at <= Len(c)
      /\ Len(c) = Len(f.os) \/ \E k \in 1..n : f.pending[k].at = Len(c)
      /\ Stream!InPlace(f) => Stream!Beginning(c)
  BY <1>1, <1>3, StreamWritten
<1>5. PICK p : p = SubSeq(f.pending, n + 1, m)
  OBVIOUS
<1>6. /\ p \in Seq(Stream!Pendings) /\ Len(p) = m - n /\ DOMAIN p = 1..(m - n)
      /\ \A k \in 1..(m - n) : p[k] = f.pending[n + k]
  <2>1. f.pending \in Seq(Stream!Pendings)
    BY FileFields
  <2>2. \A k \in (n + 1)..m : f.pending[k] \in Stream!Pendings
    BY <1>2, <1>3, <2>1
  <2>3. p \in Seq(Stream!Pendings) /\ Len(p) = (IF n + 1 <= m THEN m - (n + 1) + 1 ELSE 0)
    BY <1>2, <1>3, <1>5, <2>2, SubSeqProperties
  <2>4. Len(p) = m - n
    BY <1>2, <1>3, <2>3
  <2>5. \A k \in 1..(m - n) : p[k] = f.pending[n + k]
    BY <1>2, <1>3, <1>5, <2>1
  <2> QED BY <2>3, <2>4, <2>5
<1>7. g = [os |-> c, pending |-> p]
  BY <1>1, <1>2, <1>5
<1>8. g \in StreamFiles /\ g.os = c /\ g.pending = p
  <2>1. c \in Seq(0..Total) /\ p \in Seq(Stream!Pendings)
    BY <1>4, <1>6
  <2>2. g \in StreamFiles
    BY <1>7, <2>1 DEF StreamFiles
  <2> QED BY <1>7, <2>2
<1>9. PICK a \in Nat : a = Len(c)
  BY <1>4, LenProperties
<1>10. PICK u \in Nat : u = Len(Stream!Given(f))
  BY StreamGiven
<1>11. PICK w \in Nat : w = Len(Stream!Given(g))
  BY <1>8, StreamGiven
<1>12. PICK l \in Nat : l = Len(f.os)
  BY FileFields
<1>13. /\ l <= u /\ (\A k \in 1..m : f.pending[k].at <= u)
       /\ u = l \/ \E k \in 1..m : f.pending[k].at = u
  BY <1>2, <1>10, <1>12, StreamGiven
<1>14. /\ a <= w /\ (\A k \in 1..(m - n) : f.pending[n + k].at <= w)
       /\ w = a \/ \E k \in 1..(m - n) : f.pending[n + k].at = w
  <2>1. /\ a <= w /\ (\A k \in 1..(m - n) : p[k].at <= w)
        /\ w = a \/ \E k \in 1..(m - n) : p[k].at = w
    <3>1. Len(g.pending) = m - n /\ g.pending = p /\ Len(g.os) = a
      BY <1>6, <1>8, <1>9
    <3>2. PICK h : h = Stream!Given(g)
      OBVIOUS
    <3>3. /\ Len(g.os) <= Len(h) /\ \A k \in 1..Len(g.pending) : g.pending[k].at <= Len(h)
          /\ Len(h) = Len(g.os) \/ \E k \in 1..Len(g.pending) : g.pending[k].at = Len(h)
      BY <1>8, <3>2, StreamGiven
    <3>4. Len(h) = w
      BY <1>11, <3>2
    <3> QED BY <3>1, <3>3, <3>4
  <2>2. \A k \in 1..(m - n) : p[k] = f.pending[n + k]
    BY <1>6
  <2> QED BY <2>1, <2>2
<1>15. /\ l <= a /\ (\A k \in 1..n : f.pending[k].at <= a)
       /\ a = l \/ \E k \in 1..n : f.pending[k].at = a
  BY <1>4, <1>9, <1>12
<1>16. PICK at \in [1..m -> Nat] : \A k \in 1..m : at[k] = f.pending[k].at
  <2> DEFINE h == [k \in 1..m |-> f.pending[k].at]
  <2>1. h \in [1..m -> Nat] /\ \A k \in 1..m : h[k] = f.pending[k].at
    BY <1>2, FileFields
  <2> HIDE DEF h
  <2> QED BY <2>1
<1>17. \A k \in 1..(m - n) : n + k \in 1..m
  BY <1>3
<1>18. w <= u
  <2>1. a <= u
    <3>1. CASE a = l
      BY <1>13, <3>1
    <3>2. CASE \E k \in 1..n : f.pending[k].at = a
      BY <1>3, <1>13, <3>2
    <3> QED BY <1>15, <3>1, <3>2
  <2>2. CASE w = a
    BY <2>1, <2>2
  <2>3. CASE \E k \in 1..(m - n) : f.pending[n + k].at = w
    BY <1>13, <1>17, <2>3
  <2> QED BY <1>14, <2>2, <2>3
<1>19. u <= w
  <2>1. CASE u = l
    BY <1>14, <1>15, <2>1
  <2>2. ASSUME NEW k \in 1..m, f.pending[k].at = u PROVE u <= w
    <3>1. CASE k <= n
      <4>1. k \in 1..n
        BY <3>1
      <4>2. u <= a
        BY <1>15, <2>2, <4>1
      <4> QED BY <1>14, <4>2
    <3>2. CASE k > n
      <4>1. k - n \in 1..(m - n) /\ n + (k - n) = k
        BY <1>3, <3>2
      <4> QED BY <1>14, <2>2, <4>1
    <3> QED BY <1>3, <3>1, <3>2
  <2> QED BY <1>13, <2>1, <2>2
<1>20. ASSUME Stream!InPlace(f) PROVE Stream!InPlace(g)
  <2>1. Stream!Beginning(g.os)
    BY <1>4, <1>8, <1>20
  <2>2. ASSUME NEW k \in 1..(m - n)
        PROVE  /\ p[k].byte = p[k].at
               /\ \A i \in a + 1..p[k].at - 1 : \E q \in 1..k - 1 : p[q].at = i
    <3>1. n + k \in DOMAIN f.pending /\ p[k] = f.pending[n + k]
      BY <1>2, <1>6, <1>17, FileFields
    <3>2. f.pending[n + k].byte = f.pending[n + k].at
      BY <1>20, <3>1 DEF Stream!InPlace
    <3>3. ASSUME NEW i \in a + 1..p[k].at - 1 PROVE \E q \in 1..k - 1 : p[q].at = i
      <4>1. PICK e \in Nat : e = p[k].at /\ e = f.pending[n + k].at
        BY <1>2, <1>17, <3>1, FileFields
      <4>5. i \in a + 1..e - 1 /\ l <= a
        BY <1>15, <4>1
      <4>2. i \in l + 1..e - 1 /\ i > a /\ i \in Int
        BY <4>5
      <4>3. PICK q \in 1..(n + k) - 1 : f.pending[q].at = i
        BY <1>12, <1>20, <3>1, <4>1, <4>2 DEF Stream!InPlace
      <4>4. q \notin 1..n
        <5> SUFFICES ASSUME q \in 1..n PROVE FALSE
          OBVIOUS
        <5>1. i <= a
          BY <1>15, <4>3
        <5> QED BY <4>2, <5>1
      <4>6. q - n \in 1..k - 1 /\ q - n \in 1..(m - n) /\ n + (q - n) = q
        BY <1>3, <4>3, <4>4
      <4>7. p[q - n].at = i
        BY <1>6, <4>3, <4>6
      <4> QED BY <4>6, <4>7
    <3> QED BY <3>1, <3>2, <3>3
  <2>3. DOMAIN g.pending = 1..(m - n) /\ g.pending = p /\ Len(g.os) = a
    BY <1>6, <1>8, <1>9
  <2>4. ASSUME NEW k \in DOMAIN g.pending
        PROVE  /\ g.pending[k].byte = g.pending[k].at
               /\ \A i \in Len(g.os) + 1..g.pending[k].at - 1 : \E q \in 1..k - 1 : g.pending[q].at = i
    <3>1. k \in 1..(m - n)
      BY <2>3
    <3>2. /\ p[k].byte = p[k].at
          /\ \A i \in a + 1..p[k].at - 1 : \E q \in 1..k - 1 : p[q].at = i
      BY <2>2, <3>1
    <3>3. g.pending = p /\ Len(g.os) = a
      BY <2>3
    <3> QED BY <3>2, <3>3
  <2> QED BY <2>1, <2>4 DEF Stream!InPlace
<1>21. w = u
  BY <1>18, <1>19
<1> QED BY <1>4, <1>8, <1>10, <1>11, <1>20, <1>21

(* write_at_offset, append_stream: bytes that follow what the file has. *)
LEMMA StreamWrite ==
    ASSUME NEW f \in StreamFiles, NEW at \in Nat, NEW bytes \in Seq(0..Total),
           NEW g, g = Stream!Write(f, at, bytes)
    PROVE  /\ g \in StreamFiles /\ g.os = f.os
           /\ Len(Stream!Given(f)) <= Len(Stream!Given(g))
           /\ at = Len(Stream!Given(f)) => Len(Stream!Given(g)) = at + Len(bytes)
           /\ bytes # <<>> => at + Len(bytes) <= Len(Stream!Given(g))
           /\ /\ Stream!InPlace(f) /\ at <= Len(Stream!Given(f))
              /\ \A k \in 1..Len(bytes) : bytes[k] = at + k
              => Stream!InPlace(g)
<1>1. PICK m \in Nat : m = Len(f.pending)
  BY FileFields
<1>2. PICK b \in Nat : b = Len(bytes)
  BY LenProperties
<1>3. \A k \in 1..b : bytes[k] \in 0..Total
  BY <1>2, ElementOfSeq
<1>4. PICK new : new = [i \in 1..b |-> [at |-> at + i, byte |-> bytes[i]]]
  OBVIOUS
<1>5. new \in Seq(Stream!Pendings) /\ Len(new) = b /\ \A i \in 1..b : new[i].at = at + i /\ new[i].byte = bytes[i]
  <2>1. \A i \in 1..b : [at |-> at + i, byte |-> bytes[i]] \in Stream!Pendings
    <3> SUFFICES ASSUME NEW i \in 1..b PROVE [at |-> at + i, byte |-> bytes[i]] \in Stream!Pendings
      OBVIOUS
    <3>1. PICK a \in Nat \ {0} : a = at + i
      OBVIOUS
    <3> QED BY <1>3, <3>1 DEF Stream!Pendings
  <2>2. new \in [1..b -> Stream!Pendings]
    BY <1>4, <2>1
  <2> QED BY <1>4, <2>2
<1>6. PICK p : p = f.pending \o new
  OBVIOUS
<1>7. /\ p \in Seq(Stream!Pendings) /\ Len(p) = m + b /\ DOMAIN p = 1..(m + b)
      /\ \A k \in 1..m : p[k] = f.pending[k]
      /\ \A k \in (m + 1)..(m + b) : p[k].at = at + (k - m) /\ p[k].byte = bytes[k - m]
  <2>1. f.pending \in Seq(Stream!Pendings)
    BY FileFields
  <2>2. /\ p \in Seq(Stream!Pendings) /\ Len(p) = m + b
        /\ \A k \in 1..(m + b) : p[k] = IF k <= m THEN f.pending[k] ELSE new[k - m]
    <3>1. Len(f.pending) + Len(new) = m + b /\ Len(f.pending) = m
      BY <1>1, <1>5
    <3> QED BY <1>5, <1>6, <2>1, <3>1, ConcatProperties
  <2>3. \A k \in (m + 1)..(m + b) : k - m \in 1..b /\ p[k] = new[k - m]
    BY <2>2
  <2>4. \A k \in 1..m : p[k] = f.pending[k]
    BY <2>2
  <2> QED BY <1>5, <2>2, <2>3, <2>4
<1>8. g = [f EXCEPT !.pending = p]
  BY <1>2, <1>4, <1>6 DEF Stream!Write
<1>9. g \in StreamFiles /\ g.os = f.os /\ g.pending = p
  BY <1>7, <1>8 DEF StreamFiles
<1>10. PICK u \in Nat : u = Len(Stream!Given(f))
  BY StreamGiven
<1>11. PICK w \in Nat : w = Len(Stream!Given(g))
  BY <1>9, StreamGiven
<1>12. PICK l \in Nat : l = Len(f.os)
  BY FileFields
<1>13. /\ l <= u /\ (\A k \in 1..m : f.pending[k].at <= u)
       /\ u = l \/ \E k \in 1..m : f.pending[k].at = u
  BY <1>1, <1>10, <1>12, StreamGiven
<1>14. /\ l <= w /\ (\A k \in 1..(m + b) : p[k].at <= w)
       /\ w = l \/ \E k \in 1..(m + b) : p[k].at = w
  BY <1>7, <1>9, <1>11, <1>12, StreamGiven
<1>15. u <= w
  <2>1. CASE \E k \in 1..m : f.pending[k].at = u
    <3>1. PICK k \in 1..m : f.pending[k].at = u
      BY <2>1
    <3>2. k \in 1..(m + b) /\ p[k].at = u
      BY <1>7, <3>1
    <3> QED BY <1>14, <3>2
  <2> QED BY <1>13, <1>14, <2>1
<1>16. b # 0 => at + b <= w
  <2> SUFFICES ASSUME b # 0 PROVE at + b <= w
    OBVIOUS
  <2>1. m + b \in (m + 1)..(m + b) /\ m + b \in 1..(m + b) /\ (m + b) - m = b
    OBVIOUS
  <2> QED BY <1>7, <1>14, <2>1
<1>17. ASSUME at = u PROVE w = at + b
  <2>1. w <= at + b
    <3>1. CASE w = l
      BY <1>13, <1>17, <3>1
    <3>2. ASSUME NEW k \in 1..(m + b), p[k].at = w PROVE w <= at + b
      <4>1. CASE k <= m
        <5>1. k \in 1..m /\ f.pending[k].at = w
          BY <1>7, <3>2, <4>1
        <5>2. w <= u
          BY <1>13, <5>1
        <5> QED BY <1>17, <5>2
      <4>2. CASE k > m
        <5>1. k \in (m + 1)..(m + b)
          BY <4>2
        <5>2. w = at + (k - m)
          BY <1>7, <3>2, <5>1
        <5> QED BY <5>1, <5>2
      <4> QED BY <4>1, <4>2
    <3> QED BY <1>14, <3>1, <3>2
  <2>2. CASE b = 0
    BY <1>15, <1>17, <2>1, <2>2
  <2>3. CASE b # 0
    BY <1>16, <2>1, <2>3
  <2> QED BY <2>2, <2>3
<1>18. ASSUME Stream!InPlace(f), at <= u, \A k \in 1..b : bytes[k] = at + k PROVE Stream!InPlace(g)
  <2>1. Stream!Beginning(g.os)
    BY <1>9, <1>18 DEF Stream!InPlace
  <2>2. ASSUME NEW k \in 1..(m + b)
        PROVE  /\ p[k].byte = p[k].at
               /\ \A i \in l + 1..p[k].at - 1 : \E q \in 1..k - 1 : p[q].at = i
    <3>1. CASE k <= m
      <4>1. k \in DOMAIN f.pending /\ k \in 1..m /\ p[k] = f.pending[k]
        BY <1>1, <1>7, <3>1, FileFields
      <4>2. /\ p[k].byte = p[k].at
            /\ \A i \in l + 1..p[k].at - 1 : \E q \in 1..k - 1 : f.pending[q].at = i
        BY <1>12, <1>18, <4>1 DEF Stream!InPlace
      <4>3. \A q \in 1..k - 1 : q \in 1..m
        BY <4>1
      <4> QED BY <1>7, <4>2, <4>3
    <3>2. CASE k > m
      <4>1. PICK d \in 1..b : d = k - m /\ k \in (m + 1)..(m + b)
        BY <3>2
      <4>2. p[k].at = at + d /\ p[k].byte = bytes[d] /\ bytes[d] = at + d
        BY <1>7, <1>18, <4>1
      <4>3. ASSUME NEW i \in l + 1..at + d - 1 PROVE \E q \in 1..k - 1 : p[q].at = i
        <5>1. CASE i > at
          <6>1. i - at \in 1..(d - 1) /\ m + (i - at) \in (m + 1)..(m + b) /\ m + (i - at) \in 1..k - 1
            BY <4>1, <5>1
          <6>2. p[m + (i - at)].at = at + ((m + (i - at)) - m)
            BY <1>7, <6>1
          <6>3. at + ((m + (i - at)) - m) = i
            OBVIOUS
          <6> QED BY <6>1, <6>2, <6>3
        <5>2. CASE i <= at
          <6>1. u # l
            BY <1>13, <1>18, <5>2
          <6>2. PICK e \in 1..m : f.pending[e].at = u
            BY <1>13, <6>1
          <6>3. CASE i = u
            <7>1. e \in 1..k - 1 /\ p[e].at = i
              BY <1>7, <4>1, <6>2, <6>3
            <7> QED BY <7>1
          <6>4. CASE i # u
            <7>1. i \in l + 1..f.pending[e].at - 1 /\ e \in DOMAIN f.pending
              BY <1>1, <1>18, <5>2, <6>2, <6>4, FileFields
            <7>2. PICK q \in 1..e - 1 : f.pending[q].at = i
              BY <1>12, <1>18, <7>1 DEF Stream!InPlace
            <7>3. q \in 1..m /\ q \in 1..k - 1
              BY <4>1, <7>2
            <7> QED BY <1>7, <7>2, <7>3
          <6> QED BY <6>3, <6>4
        <5> QED BY <5>1, <5>2
      <4> QED BY <4>2, <4>3
    <3> QED BY <3>1, <3>2
  <2>3. DOMAIN g.pending = 1..(m + b) /\ g.pending = p /\ Len(g.os) = l
    BY <1>7, <1>9, <1>12
  <2> QED BY <2>1, <2>2, <2>3 DEF Stream!InPlace
<1>19. bytes # <<>> => b # 0
  BY <1>2, EmptySeq
<1> QED BY <1>2, <1>9, <1>10, <1>11, <1>15, <1>16, <1>17, <1>18, <1>19

-----------------------------------------------------------------------------
(* What the invariant says of a job, of its connection and of its file, with *)
(* what it says of them as long as nothing is spoilt.                        *)
StreamJob(x) ==
    x \in Stream!Jobs /\ Stream!DoneOf(x) /\ (x.step = "chunk" => x.total = Total)
StreamSaved(s) == s \in [total : {0, Total}, done : Seq(Stream!Spans)] /\ Stream!DoneOf(s)
StreamRuns == {"none", "running", "over", "segments"}
StreamStatuses == {"queued", "downloading", "stopped", "paused", "failed", "completed"}

JobPlace(x, n, f) ==
    /\ x.step = "stream" => x.received = Len(Stream!Given(f))
    /\ x.step = "stream" /\ x.complete /\ x.total = 0 => x.received = Total
    /\ x.step = "chunk" => x.range.start + x.got <= Len(Stream!Given(f))
    /\ x.step = "chunk" /\ x.headers /\ x.streaming => x.want = x.range.end - x.range.start + 1
    /\ n.at \in {"connecting", "asked"} => x.got = 0
    /\ n.at = "body" => n.left = "nothing"
    /\ n.at = "body" => IF x.step = "stream" THEN Stream!Follows(n.wire, x.received, Total)
                        ELSE \E to \in 0..Total : Stream!Follows(n.wire, x.range.start + x.got, to)
    /\ Stream!OnDisk(x.done, f)
AnswerPlace(x, n) ==
    /\ x.total = Total /\ x.step = "stream" /\ n.wire # <<>> /\ n.wire[1] # Stream!EndOfChunks
    /\ \E to \in 0..Total : Stream!Follows(n.wire, n.wire[1] - 1, to)
WholeFile == [i \in 1..Total |-> i]
StreamClean(run, x, n, f, s, status, dest, blind) ==
    /\ Stream!InPlace(f)
    /\ run = "running" => JobPlace(x, n, f) /\ (n.left = "answer" => AnswerPlace(x, n))
    /\ status # "completed" => Stream!OnDisk(s.done, f)
    /\ status = "completed" /\ ~blind => dest = WholeFile

LEMMA StreamIs ==
    ASSUME Stream!IInv
    PROVE  /\ v1 \in Stream!Servers /\ v2 \in BOOLEAN /\ v3 \in StreamRuns
           /\ StreamJob(v4) /\ v5 \in Stream!Nets /\ v6 \in StreamFiles
           /\ StreamSaved(v7) /\ v8 \in StreamStatuses /\ v9 \in Seq(0..Total)
           /\ v10 \in 0..MaxFaults /\ v11 \in 0..MaxRuns /\ v12 \in BOOLEAN /\ v13 \in BOOLEAN
           /\ v3 = "none" => v6.pending = <<>>
           /\ ~v12 => StreamClean(v3, v4, v5, v6, v7, v8, v9, v13)
<1>1. Stream!TypeOK /\ (v3 = "none" => v6.pending = <<>>)
  BY DEF Stream!IInv
<1>2. /\ v1 \in Stream!Servers /\ v2 \in BOOLEAN /\ v3 \in StreamRuns
      /\ v5 \in Stream!Nets /\ v6 \in StreamFiles /\ v9 \in Seq(0..Total)
      /\ v8 \in StreamStatuses /\ v10 \in 0..MaxFaults /\ v11 \in 0..MaxRuns
      /\ v12 \in BOOLEAN /\ v13 \in BOOLEAN
  BY <1>1 DEF Stream!TypeOK, StreamRuns, StreamStatuses, StreamFiles
<1>3. StreamJob(v4) /\ StreamSaved(v7)
  BY <1>1 DEF Stream!TypeOK, StreamJob, StreamSaved
<1>4. ASSUME ~v12 PROVE StreamClean(v3, v4, v5, v6, v7, v8, v9, v13)
  <2>1. /\ Stream!InPlace(v6) /\ (v8 # "completed" => Stream!OnDisk(v7.done, v6))
        /\ Stream!WholeWhenDone
        /\ v3 = "running" => Stream!JobInPlace /\ (v5.left = "answer" => Stream!Answered)
    BY <1>4 DEF Stream!IInv, Stream!Running
  <2>2. Stream!JobInPlace => JobPlace(v4, v5, v6)
    BY DEF Stream!JobInPlace, JobPlace
  <2>3. Stream!Answered => AnswerPlace(v4, v5)
    BY DEF Stream!Answered, AnswerPlace
  <2>4. v8 = "completed" /\ ~v13 => v9 = WholeFile
    BY <1>4, <2>1 DEF Stream!WholeWhenDone, WholeFile
  <2> QED BY <2>1, <2>2, <2>3, <2>4 DEF StreamClean
<1> QED BY <1>1, <1>2, <1>3, <1>4

(* A step that leads to such values keeps the invariant, and no byte of the   *)
(* file that is right becomes wrong.                                          *)
LEMMA StreamMove ==
    ASSUME Stream!IInv, v1' = v1, v2' = v2, NEW r \in StreamRuns, v3' = r,
           NEW y, v4' = y, StreamJob(y), NEW n \in Stream!Nets, v5' = n,
           NEW g \in StreamFiles, v6' = g, NEW s, v7' = s, StreamSaved(s),
           NEW t \in StreamStatuses, v8' = t, NEW d \in Seq(0..Total), v9' = d,
           v10' \in 0..MaxFaults, v11' \in 0..MaxRuns,
           NEW q \in BOOLEAN, v12' = q, NEW b \in BOOLEAN, v13' = b,
           r = "none" => g.pending = <<>>,
           ~q => /\ ~v12 /\ StreamClean(r, y, n, g, s, t, d, b)
                 /\ t = "completed" \/ Len(v6.os) <= Len(g.os)
    PROVE  Stream!IInv' /\ Stream!RightBytesStay
<1>1. Stream!TypeOK'
  <2>1. v1' \in Stream!Servers /\ v2' \in BOOLEAN
    BY StreamIs
  <2>2. v6' \in [os : Seq(0..Total), pending : Seq(Stream!Pendings)]
    BY DEF StreamFiles
  <2>3. v4' \in Stream!Jobs /\ Stream!DoneOf(v4)' /\ (v4'.step = "chunk" => v4'.total = Total)
    BY DEF StreamJob, Stream!DoneOf
  <2>4. v7' \in [total : {0, Total}, done : Seq(Stream!Spans)] /\ Stream!DoneOf(v7)'
    BY DEF StreamSaved, Stream!DoneOf
  <2> QED BY <2>1, <2>2, <2>3, <2>4 DEF Stream!TypeOK, StreamRuns, StreamStatuses
<1>2. ASSUME ~q PROVE /\ Stream!InPlace(v6)' /\ Stream!WholeWhenDone'
                      /\ v8' # "completed" => Stream!OnDisk(v7.done, v6)'
                      /\ Stream!Running' => Stream!JobInPlace' /\ (v5'.left = "answer" => Stream!Answered')
  <2>1. /\ Stream!InPlace(g) /\ (t # "completed" => Stream!OnDisk(s.done, g))
        /\ t = "completed" /\ ~b => d = WholeFile
        /\ r = "running" => JobPlace(y, n, g) /\ (n.left = "answer" => AnswerPlace(y, n))
    BY <1>2 DEF StreamClean
  <2>2. Stream!InPlace(v6)'
    BY <2>1 DEF Stream!InPlace, Stream!Beginning
  <2>3. Stream!WholeWhenDone'
    BY <2>1 DEF Stream!WholeWhenDone, WholeFile
  <2>4. v8' # "completed" => Stream!OnDisk(v7.done, v6)'
    BY <2>1 DEF Stream!OnDisk
  <2>5. JobPlace(y, n, g) => Stream!JobInPlace'
    BY DEF JobPlace, Stream!JobInPlace, Stream!OnDisk
  <2>6. AnswerPlace(y, n) => Stream!Answered'
    BY DEF AnswerPlace, Stream!Answered
  <2> QED BY <2>1, <2>2, <2>3, <2>4, <2>5, <2>6 DEF Stream!Running
<1>3. Stream!IInv'
  BY <1>1, <1>2 DEF Stream!IInv
<1>4. Stream!RightBytesStay
  <2> SUFFICES ASSUME t # "completed", ~q, NEW i \in DOMAIN v6.os PROVE i \in DOMAIN g.os /\ g.os[i] = i
    BY DEF Stream!RightBytesStay
  <2>1. v6 \in StreamFiles /\ Len(v6.os) <= Len(g.os) /\ Stream!InPlace(g)
    BY StreamIs DEF StreamClean
  <2>2. PICK k \in Nat : k = Len(v6.os) /\ DOMAIN v6.os = 1..k
    BY <2>1, FileFields
  <2>3. PICK l \in Nat : l = Len(g.os) /\ DOMAIN g.os = 1..l
    BY FileFields
  <2>4. i \in DOMAIN g.os
    BY <2>1, <2>2, <2>3
  <2> QED BY <2>1, <2>4 DEF Stream!InPlace, Stream!Beginning
<1> QED BY <1>3, <1>4

(* Bytes of marked ranges, and where they are. *)
LEMMA StreamBytes ==
    ASSUME NEW rs \in Seq(Stream!Spans)
    PROVE  /\ rs \in Seq(Ranges) /\ Bytes(rs) \subseteq 0..Total - 1
           /\ (Stream!Canonical(rs) <=> Canonical(rs)) /\ Stream!Bytes(rs) = Bytes(rs)
<1>1. Stream!Spans \subseteq Ranges
  BY StreamConstants DEF Stream!Spans, Ranges
<1>2. rs \in Seq(Ranges)
  BY <1>1, SeqMonotonic
<1>3. Bytes(rs) \subseteq 0..Total - 1
  <2> SUFFICES ASSUME NEW b \in Bytes(rs) PROVE b \in 0..Total - 1
    OBVIOUS
  <2>1. PICK i \in DOMAIN rs : b \in rs[i].start..rs[i].end
    BY DEF Bytes
  <2>2. rs[i] \in Stream!Spans
    BY LenProperties, ElementOfSeq
  <2>3. PICK s, e \in 0..Total - 1 : s = rs[i].start /\ e = rs[i].end
    BY <2>2 DEF Stream!Spans
  <2> QED BY <2>1, <2>3, StreamConstants
<1> QED BY <1>2, <1>3, StreamRanges

LEMMA OnDiskGrows ==
    ASSUME NEW rs \in Seq(Stream!Spans), NEW f \in StreamFiles, NEW g \in StreamFiles,
           Stream!OnDisk(rs, f), Len(f.os) <= Len(g.os)
    PROVE  Stream!OnDisk(rs, g)
<1>1. PICK k, l \in Nat : k = Len(f.os) /\ l = Len(g.os)
  BY FileFields
<1>2. \A i \in Bytes(rs) : i < k /\ i \in Int
  <2>1. \A i \in Bytes(rs) : i < k
    BY <1>1, StreamBytes DEF Stream!OnDisk
  <2>2. \A i \in Bytes(rs) : i \in 0..Total - 1
    BY StreamBytes
  <2> QED BY <2>1, <2>2
<1>3. \A i \in Bytes(rs) : i < l
  BY <1>1, <1>2
<1> QED BY <1>1, <1>3, StreamBytes DEF Stream!OnDisk

LEMMA StoredIs ==
    ASSUME NEW x, StreamJob(x), NEW s, s = Stream!Stored(x)
    PROVE  StreamSaved(s) /\ s.done = x.done /\ s.done \in Seq(Stream!Spans)
<1>1. x.total \in {0, Total} /\ x.done \in Seq(Stream!Spans)
  BY DEF StreamJob, Stream!Jobs
<1>2. s = [total |-> x.total, done |-> x.done]
  BY DEF Stream!Stored
<1>3. s \in [total : {0, Total}, done : Seq(Stream!Spans)] /\ s.total = x.total /\ s.done = x.done
  BY <1>1, <1>2
<1>4. Stream!DoneOf(s)
  BY <1>3 DEF StreamJob, Stream!DoneOf
<1> QED BY <1>1, <1>3, <1>4 DEF StreamSaved

LEMMA DownIs == Stream!Down \in Stream!Nets /\ Stream!Down.at = "none" /\ Stream!Down.left = "nothing"
<1>1. <<>> \in Seq(0..Total)
  BY EmptySeq
<1> QED BY <1>1 DEF Stream!Down, Stream!Nets

LEMMA StreamDeferred ==
    ASSUME NEW x, StreamJob(x), NEW a \in BOOLEAN, NEW y, y = [x EXCEPT !.deferred = a]
    PROVE  StreamJob(y)
<1>1. x \in Stream!Jobs
  BY DEF StreamJob
<1>2. y \in Stream!Jobs /\ y.step = x.step /\ y.total = x.total /\ y.done = x.done
  BY <1>1 DEF Stream!Jobs
<1> QED BY <1>2 DEF StreamJob, Stream!DoneOf

(* A job is over. *)
LEMMA StreamOver ==
    ASSUME Stream!IInv, v1' = v1, v2' = v2, NEW x, StreamJob(x), Stream!End(x),
           NEW g \in StreamFiles, v6' = g, NEW s, v7' = s, StreamSaved(s),
           NEW t \in StreamStatuses, v8' = t, NEW d \in Seq(0..Total), v9' = d,
           v10' \in 0..MaxFaults, v11' \in 0..MaxRuns,
           NEW q \in BOOLEAN, v12' = q, NEW b \in BOOLEAN, v13' = b,
           ~q => /\ ~v12 /\ Stream!InPlace(g)
                 /\ t # "completed" => Stream!OnDisk(s.done, g) /\ Len(v6.os) <= Len(g.os)
                 /\ t = "completed" /\ ~b => d = WholeFile
    PROVE  Stream!IInv' /\ Stream!RightBytesStay
<1>1. PICK y : y = [x EXCEPT !.deferred = FALSE]
  OBVIOUS
<1>2. v3' = "over" /\ v4' = y /\ v5' = Stream!Down
  BY <1>1 DEF Stream!End
<1>3. StreamJob(y)
  BY <1>1, StreamDeferred
<1>4. PICK n \in Stream!Nets : v5' = n
  BY <1>2, DownIs
<1>5. PICK r \in StreamRuns : r = "over"
  BY DEF StreamRuns
<1>6. ~q => /\ ~v12 /\ StreamClean(r, y, n, g, s, t, d, b)
            /\ t = "completed" \/ Len(v6.os) <= Len(g.os)
  BY <1>5 DEF StreamClean
<1> QED BY <1>2, <1>3, <1>4, <1>5, <1>6, StreamMove

(* set_error: the file may have been closed. *)
LEMMA StreamFailed ==
    ASSUME Stream!IInv, v1' = v1, v2' = v2, NEW x, StreamJob(x), Stream!SetError(x),
           NEW g \in StreamFiles, v6' = g, v9' = v9,
           v10' \in 0..MaxFaults, v11' \in 0..MaxRuns,
           NEW q \in BOOLEAN, v12' = q, v13' = v13,
           ~q => ~v12 /\ Stream!InPlace(g) /\ Len(v6.os) <= Len(g.os)
    PROVE  Stream!IInv' /\ Stream!RightBytesStay
<1>1. Stream!End(x) /\ v7' = v7 /\ v8' = v8
  BY DEF Stream!SetError
<1>2. PICK s, t, d, b, f : s = v7 /\ t = v8 /\ d = v9 /\ b = v13 /\ f = v6
  OBVIOUS
<1>3. /\ StreamSaved(s) /\ t \in StreamStatuses /\ d \in Seq(0..Total) /\ b \in BOOLEAN
      /\ f \in StreamFiles
      /\ ~v12 => StreamClean(v3, v4, v5, f, s, t, d, b)
  BY <1>2, StreamIs
<1>4. ~q => /\ ~v12 /\ Stream!InPlace(g)
            /\ t # "completed" => Stream!OnDisk(s.done, g) /\ Len(v6.os) <= Len(g.os)
            /\ t = "completed" /\ ~b => d = WholeFile
  <2> SUFFICES ASSUME ~q
               PROVE  /\ t # "completed" => Stream!OnDisk(s.done, g)
                      /\ t = "completed" /\ ~b => d = WholeFile
    OBVIOUS
  <2>1. /\ t # "completed" => Stream!OnDisk(s.done, f)
        /\ t = "completed" /\ ~b => d = WholeFile
    BY <1>3 DEF StreamClean
  <2>2. s.done \in Seq(Stream!Spans)
    BY <1>3 DEF StreamSaved
  <2> QED BY <1>2, <1>3, <2>1, <2>2, OnDiskGrows
<1> QED BY <1>1, <1>2, <1>3, <1>4, StreamOver

(* The end of a job is published, with what it has. *)
LEMMA StreamPublished ==
    ASSUME Stream!IInv, v1' = v1, v2' = v2, NEW x, StreamJob(x),
           NEW t \in StreamStatuses \ {"completed"}, Stream!Publish(x, t),
           v6' \in {v6, Stream!Flushed(v6)}, v9' = v9,
           v10' \in 0..MaxFaults, v11' \in 0..MaxRuns,
           NEW q \in BOOLEAN, v12' = q, v13' = v13,
           ~q => ~v12 /\ Stream!OnDisk(x.done, v6)
    PROVE  Stream!IInv' /\ Stream!RightBytesStay
<1>1. Stream!End(x) /\ v7' = Stream!Stored(x) /\ v8' = t
  BY DEF Stream!Publish, Stream!Upsert
<1>2. PICK s : s = Stream!Stored(x)
  OBVIOUS
<1>3. PICK d, b, f, g : d = v9 /\ b = v13 /\ f = v6 /\ g = v6'
  OBVIOUS
<1>4. d \in Seq(0..Total) /\ b \in BOOLEAN /\ f \in StreamFiles /\ (~v12 => Stream!InPlace(f))
  BY <1>3, StreamIs DEF StreamClean
<1>5. g \in StreamFiles /\ Len(f.os) <= Len(g.os) /\ (Stream!InPlace(f) => Stream!InPlace(g))
  <2>1. CASE g = f
    BY <1>4, <2>1, FileFields
  <2>2. CASE g = Stream!Flushed(f)
    BY <1>4, <2>2, StreamFlushed
  <2> QED BY <1>3, <2>1, <2>2
<1>6. StreamSaved(s) /\ s.done = x.done /\ s.done \in Seq(Stream!Spans)
  BY <1>2, StoredIs
<1>7. ~q => /\ ~v12 /\ Stream!InPlace(g)
            /\ t # "completed" => Stream!OnDisk(s.done, g) /\ Len(v6.os) <= Len(g.os)
            /\ t = "completed" /\ ~b => d = WholeFile
  BY <1>3, <1>4, <1>5, <1>6, OnDiskGrows
<1> QED BY <1>1, <1>2, <1>3, <1>4, <1>5, <1>6, <1>7, StreamOver

(* finalize_download: the file is closed, and is whole if it is kept. *)
LEMMA StreamFinalized ==
    ASSUME Stream!IInv, v1' = v1, v2' = v2, NEW x, StreamJob(x), NEW f \in StreamFiles,
           Stream!Finalize(x, f), v10' \in 0..MaxFaults, v11' \in 0..MaxRuns,
           NEW q \in BOOLEAN, v12' = q,
           ~q => /\ ~v12 /\ Stream!InPlace(f) /\ Len(v6.os) <= Len(Stream!Given(f))
                 /\ x.step = "chunk" => Total <= Len(Stream!Given(f))
                 /\ x.step = "stream" => x.received = Len(Stream!Given(f))
                 /\ x.step = "stream" /\ x.total = 0 /\ x.chunked => x.received = Total
    PROVE  Stream!IInv' /\ Stream!RightBytesStay
<1>1. CASE Stream!Enough(x)
  <2>1. /\ Stream!End(x) /\ v7' = Stream!Stored(x) /\ v8' = "completed"
        /\ v9' = Stream!Given(f) /\ v6' = [os |-> <<>>, pending |-> <<>>]
        /\ v13' = (v13 \/ (x.total = 0 /\ ~x.chunked))
    BY <1>1 DEF Stream!Finalize, Stream!Publish, Stream!Upsert
  <2>2. PICK s : s = Stream!Stored(x)
    OBVIOUS
  <2>3. PICK d : d = Stream!Given(f)
    OBVIOUS
  <2>4. PICK b : b = v13'
    OBVIOUS
  <2>5. PICK g : g = [os |-> <<>>, pending |-> <<>>]
    OBVIOUS
  <2>6. StreamSaved(s)
    BY <2>2, StoredIs
  <2>7. d \in Seq(0..Total) /\ Len(d) \in Nat
    BY <2>3, StreamGiven
  <2>8. b \in BOOLEAN
    BY <2>1, <2>4
  <2>9. g \in StreamFiles
    <3>1. <<>> \in Seq(0..Total) /\ <<>> \in Seq(Stream!Pendings)
      BY EmptySeq
    <3> QED BY <2>5, <3>1 DEF StreamFiles
  <2>10. Stream!InPlace(g)
    <3>1. DOMAIN g.os = {} /\ DOMAIN g.pending = {}
      BY <2>5
    <3> QED BY <3>1 DEF Stream!InPlace, Stream!Beginning
  <2>11. ASSUME ~q, ~b PROVE d = WholeFile
    <3>1. x \in Stream!Jobs /\ (x.step = "chunk" => x.total = Total) /\ Total \in Nat \ {0}
      BY StreamConstants DEF StreamJob
    <3>2. x.step \in {"stream", "chunk"} /\ x.received \in Nat /\ x.total \in {0, Total}
      BY <3>1 DEF Stream!Jobs
    <3>3. x.total # 0 \/ x.chunked
      BY <2>1, <2>4, <2>11
    <3>4. Total <= Len(d)
      <4>1. CASE x.step = "chunk"
        BY <2>3, <2>11, <4>1
      <4>2. CASE x.step = "stream" /\ x.total = 0
        <5>1. x.received = Total /\ x.received = Len(d)
          BY <2>3, <2>11, <3>3, <4>2
        <5> QED BY <3>1, <5>1
      <4>3. CASE x.step = "stream" /\ x.total # 0
        <5>1. x.received >= x.total /\ x.total = Total
          BY <1>1, <3>2, <4>3 DEF Stream!Enough
        <5> QED BY <2>3, <2>11, <4>3, <5>1
      <4> QED BY <3>2, <4>1, <4>2, <4>3
    <3> QED BY <2>3, <2>11, <3>4, StreamGiven DEF WholeFile
  <2>12. PICK t \in StreamStatuses : t = "completed"
    BY DEF StreamStatuses
  <2>13. ~q => /\ ~v12 /\ Stream!InPlace(g)
               /\ t # "completed" => Stream!OnDisk(s.done, g) /\ Len(v6.os) <= Len(g.os)
               /\ t = "completed" /\ ~b => d = WholeFile
    BY <2>10, <2>11, <2>12
  <2> QED BY <2>1, <2>2, <2>3, <2>4, <2>5, <2>6, <2>7, <2>8, <2>9, <2>12, <2>13, StreamOver
<1>2. CASE ~Stream!Enough(x)
  <2>1. Stream!SetError(x) /\ v6' = Stream!Flushed(f) /\ v9' = v9 /\ v13' = v13
    BY <1>2 DEF Stream!Finalize
  <2>2. PICK g : g = Stream!Flushed(f)
    OBVIOUS
  <2>3. /\ g \in StreamFiles /\ Len(g.os) = Len(Stream!Given(f))
        /\ Stream!InPlace(f) => Stream!InPlace(g)
    BY <2>2, StreamFlushed
  <2> QED BY <2>1, <2>2, <2>3, StreamFailed
<1> QED BY <1>1, <1>2

(* A step that leaves the entry and what is saved as they are. *)
LEMMA StreamKept ==
    ASSUME Stream!IInv, v1' = v1, v2' = v2, NEW r \in StreamRuns, v3' = r,
           NEW y, v4' = y, StreamJob(y), NEW n \in Stream!Nets, v5' = n,
           NEW g \in StreamFiles, v6' = g, v7' = v7, v8' = v8, v9' = v9,
           v10' \in 0..MaxFaults, v11' \in 0..MaxRuns, NEW q \in BOOLEAN, v12' = q, v13' = v13,
           r = "none" => g.pending = <<>>,
           ~q => /\ ~v12 /\ Stream!InPlace(g) /\ Len(v6.os) <= Len(g.os)
                 /\ r = "running" => JobPlace(y, n, g) /\ (n.left = "answer" => AnswerPlace(y, n))
    PROVE  Stream!IInv' /\ Stream!RightBytesStay
<1>1. PICK s, t, d, b, f : s = v7 /\ t = v8 /\ d = v9 /\ b = v13 /\ f = v6
  OBVIOUS
<1>2. /\ StreamSaved(s) /\ t \in StreamStatuses /\ d \in Seq(0..Total) /\ b \in BOOLEAN
      /\ f \in StreamFiles
      /\ ~v12 => StreamClean(v3, v4, v5, f, s, t, d, b)
  BY <1>1, StreamIs
<1>3. ~q => /\ ~v12 /\ StreamClean(r, y, n, g, s, t, d, b)
            /\ t = "completed" \/ Len(v6.os) <= Len(g.os)
  <2> SUFFICES ASSUME ~q PROVE StreamClean(r, y, n, g, s, t, d, b)
    OBVIOUS
  <2>1. /\ t # "completed" => Stream!OnDisk(s.done, f)
        /\ t = "completed" /\ ~b => d = WholeFile
    BY <1>2 DEF StreamClean
  <2>2. s.done \in Seq(Stream!Spans)
    BY <1>2 DEF StreamSaved
  <2>3. t # "completed" => Stream!OnDisk(s.done, g)
    BY <1>1, <1>2, <2>1, <2>2, OnDiskGrows
  <2> QED BY <2>1, <2>3 DEF StreamClean
<1> QED BY <1>1, <1>2, <1>3, StreamMove

(* dm_item_upsert, of a job that goes on. *)
LEMMA StreamUpserted ==
    ASSUME Stream!IInv, v1' = v1, v2' = v2, v3 = "running", v3' = v3,
           NEW y, v4' = y, StreamJob(y), NEW n \in Stream!Nets, v5' = n,
           NEW g \in StreamFiles, v6' = g, v7' = Stream!Stored(y), v8' \in {v8, "downloading"}, v9' = v9,
           v10' \in 0..MaxFaults, v11' \in 0..MaxRuns, NEW q \in BOOLEAN, v12' = q, v13' = v13,
           ~q => /\ ~v12 /\ Stream!InPlace(g) /\ Len(v6.os) <= Len(g.os)
                 /\ JobPlace(y, n, g) /\ (n.left = "answer" => AnswerPlace(y, n))
    PROVE  Stream!IInv' /\ Stream!RightBytesStay
<1>1. PICK s, t, d, b : s = Stream!Stored(y) /\ t = v8' /\ d = v9 /\ b = v13
  OBVIOUS
<1>2. /\ t \in StreamStatuses /\ d \in Seq(0..Total) /\ b \in BOOLEAN
      /\ ~v12 => StreamClean(v3, v4, v5, v6, v7, v8, d, b)
  BY <1>1, StreamIs DEF StreamStatuses
<1>3. StreamSaved(s) /\ s.done = y.done
  BY <1>1, StoredIs
<1>4. PICK r \in StreamRuns : r = "running"
  BY DEF StreamRuns
<1>5. ~q => /\ ~v12 /\ StreamClean(r, y, n, g, s, t, d, b)
            /\ t = "completed" \/ Len(v6.os) <= Len(g.os)
  <2> SUFFICES ASSUME ~q PROVE StreamClean(r, y, n, g, s, t, d, b)
    OBVIOUS
  <2>1. Stream!OnDisk(s.done, g)
    BY <1>3 DEF JobPlace
  <2>2. t = "completed" /\ ~b => d = WholeFile
    <3>1. t = "completed" => v8 = "completed"
      BY <1>1
    <3> QED BY <1>2, <3>1 DEF StreamClean
  <2> QED BY <2>1, <2>2 DEF StreamClean
<1> QED BY <1>1, <1>2, <1>3, <1>4, <1>5, StreamMove

LEMMA StreamFaults == ASSUME Stream!IInv, Stream!Fault PROVE v10' \in 0..MaxFaults
<1>1. PICK n \in 0..MaxFaults : n = v10
  BY StreamIs
<1>2. n < MaxFaults /\ v10' = n + 1
  BY <1>1 DEF Stream!Fault
<1> QED BY <1>1, <1>2, StreamConstants

LEMMA EmptyRanges ==
    /\ <<>> \in Seq(Stream!Spans) /\ Stream!Canonical(<<>>) /\ Stream!Bytes(<<>>) = {}
    /\ \A f : Stream!OnDisk(<<>>, f)
<1>1. <<>> \in Seq(Stream!Spans) /\ DOMAIN <<>> = {}
  BY EmptySeq
<1>2. Stream!Bytes(<<>>) = {}
  BY <1>1 DEF Stream!Bytes
<1> QED BY <1>1, <1>2 DEF Stream!Canonical, Stream!OnDisk

LEMMA Job0Is ==
    /\ StreamJob(Stream!Job0) /\ Stream!Job0.step = "stream" /\ Stream!Job0.received = 0
    /\ Stream!Job0.complete = FALSE /\ Stream!Job0.got = 0 /\ Stream!Job0.done = <<>>
    /\ Stream!Job0.total = 0 /\ Stream!Job0.headers = FALSE /\ Stream!Job0.streaming = FALSE
<1>1. 0 \in 0..MaxRedirects /\ 0 \in {0, Total} /\ 0 \in Nat /\ 0 \in 0..Total - 1
  BY StreamConstants
<1>2. [start |-> 0, end |-> 0] \in Stream!Spans
  <2>1. [start |-> 0, end |-> 0] \in [start : 0..Total - 1, end : 0..Total - 1]
    BY <1>1
  <2>2. [start |-> 0, end |-> 0].start <= [start |-> 0, end |-> 0].end
    OBVIOUS
  <2> QED BY <2>1, <2>2 DEF Stream!Spans
<1>3. Stream!Job0 \in Stream!Jobs
  BY <1>1, <1>2, EmptyRanges DEF Stream!Job0, Stream!Jobs
<1>4. /\ Stream!Job0.step = "stream" /\ Stream!Job0.received = 0
      /\ Stream!Job0.complete = FALSE /\ Stream!Job0.got = 0 /\ Stream!Job0.done = <<>>
      /\ Stream!Job0.total = 0 /\ Stream!Job0.headers = FALSE /\ Stream!Job0.streaming = FALSE
  BY DEF Stream!Job0
<1>5. Stream!DoneOf(Stream!Job0)
  BY <1>1, <1>4, EmptyRanges DEF Stream!DoneOf
<1> QED BY <1>3, <1>4, <1>5 DEF StreamJob

LEMMA StreamInitInv == Stream!Init => Stream!IInv
<1> SUFFICES ASSUME Stream!Init PROVE Stream!IInv
  OBVIOUS
<1>1. /\ v1 \in Stream!Servers /\ v2 \in BOOLEAN /\ v3 = "none" /\ v4 = Stream!Job0
      /\ v5 = Stream!Down /\ v6 = [os |-> <<>>, pending |-> <<>>]
      /\ v7 = [total |-> 0, done |-> <<>>] /\ v8 = "queued" /\ v9 = <<>> /\ v10 = 0 /\ v11 = 0
      /\ v12 = FALSE /\ v13 = FALSE
  BY DEF Stream!Init
<1>2. <<>> \in Seq(0..Total) /\ <<>> \in Seq(Stream!Pendings) /\ DOMAIN <<>> = {}
  BY EmptySeq
<1>3. v6 \in [os : Seq(0..Total), pending : Seq(Stream!Pendings)] /\ v9 \in Seq(0..Total)
  BY <1>1, <1>2
<1>4. v4 \in Stream!Jobs /\ Stream!DoneOf(v4) /\ (v4.step = "chunk" => v4.total = Total)
  BY <1>1, Job0Is DEF StreamJob
<1>5. v7 \in [total : {0, Total}, done : Seq(Stream!Spans)] /\ v7.done = <<>> /\ v7.total = 0
  BY <1>1, EmptyRanges
<1>6. Stream!DoneOf(v7)
  BY <1>5, EmptyRanges DEF Stream!DoneOf
<1>7. v10 \in 0..MaxFaults /\ v11 \in 0..MaxRuns
  BY <1>1, StreamConstants
<1>8. Stream!TypeOK
  BY <1>1, <1>3, <1>4, <1>5, <1>6, <1>7, DownIs DEF Stream!TypeOK
<1>9. Stream!InPlace(v6)
  <2>1. DOMAIN v6.os = {} /\ DOMAIN v6.pending = {}
    BY <1>1, <1>2
  <2> QED BY <2>1 DEF Stream!InPlace, Stream!Beginning
<1>10. v6.pending = <<>>
  BY <1>1
<1>11. Stream!OnDisk(v7.done, v6)
  BY <1>5, EmptyRanges
<1> QED BY <1>1, <1>8, <1>9, <1>10, <1>11 DEF Stream!IInv, Stream!WholeWhenDone, Stream!Running

(* The place of a job, when its file holds as much and its connection brings  *)
(* nothing.                                                                   *)
LEMMA SamePlace ==
    ASSUME NEW x, StreamJob(x), NEW m, NEW f \in StreamFiles, JobPlace(x, m, f),
           NEW n, n = m \/ n.at \in {"none", "draining"} \/ (n.at \in {"connecting", "asked"} /\ x.got = 0),
           NEW g \in StreamFiles, Len(f.os) <= Len(g.os),
           Len(Stream!Given(g)) = Len(Stream!Given(f))
    PROVE  JobPlace(x, n, g)
<1>1. x.done \in Seq(Stream!Spans)
  BY DEF StreamJob, Stream!Jobs
<1>2. Stream!OnDisk(x.done, g)
  BY <1>1, OnDiskGrows DEF JobPlace
<1> QED BY <1>2 DEF JobPlace

LEMMA StreamFlushInv == ASSUME Stream!IInv, Stream!Flush PROVE Stream!IInv' /\ Stream!RightBytesStay
<1>1. PICK f : f = v6
  OBVIOUS
<1>2. PICK n \in 1..Len(f.pending) :
          v6' = [os |-> Stream!Written(f, n), pending |-> SubSeq(f.pending, n + 1, Len(f.pending))]
  BY <1>1 DEF Stream!Flush
<1>3. /\ f.pending # <<>> /\ v1' = v1 /\ v2' = v2 /\ v3' = v3 /\ v4' = v4 /\ v5' = v5 /\ v7' = v7
      /\ v8' = v8 /\ v9' = v9 /\ v10' = v10 /\ v11' = v11 /\ v12' = v12 /\ v13' = v13
  BY <1>1 DEF Stream!Flush, Stream!world, Stream!history
<1>4. PICK g : g = v6'
  OBVIOUS
<1>5. f \in StreamFiles
  BY <1>1, StreamIs
<1>6. /\ g \in StreamFiles /\ Len(f.os) <= Len(g.os)
      /\ Len(Stream!Given(g)) = Len(Stream!Given(f))
      /\ Stream!InPlace(f) => Stream!InPlace(g)
  BY <1>2, <1>4, <1>5, StreamFlush
<1>7. PICK r, y, m, q : r = v3 /\ y = v4 /\ m = v5 /\ q = v12
  OBVIOUS
<1>8. /\ r \in StreamRuns /\ r # "none" /\ StreamJob(y) /\ m \in Stream!Nets /\ q \in BOOLEAN
      /\ v10 \in 0..MaxFaults /\ v11 \in 0..MaxRuns
      /\ ~q => StreamClean(r, y, m, f, v7, v8, v9, v13)
  BY <1>1, <1>3, <1>7, StreamIs
<1>9. ~q => /\ Stream!InPlace(g)
            /\ r = "running" => JobPlace(y, m, g) /\ (m.left = "answer" => AnswerPlace(y, m))
  <2> SUFFICES ASSUME ~q
               PROVE  /\ Stream!InPlace(g)
                      /\ r = "running" => JobPlace(y, m, g) /\ (m.left = "answer" => AnswerPlace(y, m))
    OBVIOUS
  <2>1. Stream!InPlace(f) /\ (r = "running" => JobPlace(y, m, f) /\ (m.left = "answer" => AnswerPlace(y, m)))
    BY <1>8 DEF StreamClean
  <2>2. ASSUME JobPlace(y, m, f) PROVE JobPlace(y, m, g)
    <3>1. /\ StreamJob(y) /\ f \in StreamFiles /\ g \in StreamFiles /\ Len(f.os) <= Len(g.os)
          /\ Len(Stream!Given(g)) = Len(Stream!Given(f))
      BY <1>5, <1>6, <1>8
    <3> QED BY <2>2, <3>1, SamePlace, Zenon
  <2> QED BY <1>6, <2>1, <2>2
<1> QED BY <1>1, <1>3, <1>4, <1>6, <1>7, <1>8, <1>9, StreamKept

LEMMA NetsOf ==
    /\ \A left \in {"nothing", "redirect", "answer", "error", "seen"} :
          /\ Stream!Closing(left) \in Stream!Nets /\ Stream!Closing(left).at = "draining"
          /\ Stream!Closing(left).left = left
          /\ \A answer \in Seq(0..Total) :
                /\ Stream!Holding(left, answer) \in Stream!Nets
                /\ Stream!Holding(left, answer).at = "draining"
                /\ Stream!Holding(left, answer).left = left
                /\ Stream!Holding(left, answer).wire = answer
    /\ \A n \in Stream!Nets, at \in {"none", "connecting", "asked", "body", "draining"} :
          /\ [n EXCEPT !.at = at] \in Stream!Nets
          /\ [n EXCEPT !.at = at].at = at /\ [n EXCEPT !.at = at].left = n.left
<1>1. <<>> \in Seq(0..Total)
  BY EmptySeq
<1>2. ASSUME NEW left \in {"nothing", "redirect", "answer", "error", "seen"}
      PROVE  /\ Stream!Closing(left) \in Stream!Nets /\ Stream!Closing(left).at = "draining"
             /\ Stream!Closing(left).left = left
             /\ \A answer \in Seq(0..Total) :
                   /\ Stream!Holding(left, answer) \in Stream!Nets
                   /\ Stream!Holding(left, answer).at = "draining"
                   /\ Stream!Holding(left, answer).left = left
                   /\ Stream!Holding(left, answer).wire = answer
  BY <1>1, <1>2 DEF Stream!Closing, Stream!Holding, Stream!Nets
<1>3. ASSUME NEW n \in Stream!Nets, NEW at \in {"none", "connecting", "asked", "body", "draining"}
      PROVE  /\ [n EXCEPT !.at = at] \in Stream!Nets
             /\ [n EXCEPT !.at = at].at = at /\ [n EXCEPT !.at = at].left = n.left
  BY <1>3 DEF Stream!Nets
<1> QED BY <1>2, <1>3

(* What the actions of a running job find. *)
LEMMA StreamRunning ==
    ASSUME Stream!IInv, Stream!Running, NEW x, x = v4, NEW n, n = v5, NEW f, f = v6
    PROVE  /\ StreamJob(x) /\ n \in Stream!Nets /\ f \in StreamFiles /\ v3 = "running"
           /\ v12 \in BOOLEAN /\ v10 \in 0..MaxFaults /\ v11 \in 0..MaxRuns
           /\ ~v12 => /\ Stream!InPlace(f) /\ JobPlace(x, n, f) /\ Stream!OnDisk(x.done, f)
                      /\ n.left = "answer" => AnswerPlace(x, n)
<1>1. ~v12 => StreamClean(v3, x, n, f, v7, v8, v9, v13)
  BY StreamIs
<1>2. v3 = "running"
  BY DEF Stream!Running
<1>3. ~v12 => /\ Stream!InPlace(f) /\ JobPlace(x, n, f)
              /\ n.left = "answer" => AnswerPlace(x, n)
  BY <1>1, <1>2 DEF StreamClean
<1>4. JobPlace(x, n, f) => Stream!OnDisk(x.done, f)
  BY DEF JobPlace
<1> QED BY <1>2, <1>3, <1>4, StreamIs

(* The end of a running job is published as its connection ends. *)
LEMMA StreamGivesUp ==
    ASSUME Stream!IInv, Stream!Running, v1' = v1, v2' = v2,
           NEW t \in StreamStatuses \ {"completed"}, Stream!Publish(v4, t),
           v6' \in {v6, Stream!Flushed(v6)}, v9' = v9,
           v10' \in 0..MaxFaults, v11' = v11, NEW q \in BOOLEAN, v12' = q, ~q => ~v12, v13' = v13
    PROVE  Stream!IInv' /\ Stream!RightBytesStay
<1>1. PICK x, n, f : x = v4 /\ n = v5 /\ f = v6
  OBVIOUS
<1>2. StreamJob(x) /\ v11 \in 0..MaxRuns /\ (~v12 => Stream!OnDisk(x.done, f))
  BY <1>1, StreamRunning
<1>3. Stream!Publish(x, t)
  BY <1>1
<1> QED BY <1>1, <1>2, <1>3, StreamPublished

LEMMA StreamStopInv ==
    ASSUME Stream!IInv, Stream!StopOrPause PROVE Stream!IInv' /\ Stream!RightBytesStay
<1>1. PICK t \in {"stopped", "paused"} : Stream!Publish(v4, t)
  BY DEF Stream!StopOrPause
<1>2. t \in StreamStatuses \ {"completed"}
  BY DEF StreamStatuses
<1>3. /\ Stream!Running /\ v1' = v1 /\ v2' = v2 /\ v6' = v6 /\ v9' = v9 /\ v10' = v10
      /\ v11' = v11 /\ v12' = v12 /\ v13' = v13
  BY DEF Stream!StopOrPause, Stream!world, Stream!history
<1>4. v10 \in 0..MaxFaults /\ v12 \in BOOLEAN
  BY StreamIs
<1>5. PICK q \in BOOLEAN : v12' = q
  BY <1>3, <1>4
<1> QED BY <1>1, <1>2, <1>3, <1>4, <1>5, StreamGivesUp

LEMMA StreamJobFreeInv ==
    ASSUME Stream!IInv, Stream!JobFree PROVE Stream!IInv' /\ Stream!RightBytesStay
<1>1. /\ v1' = v1 /\ v2' = v2 /\ v3' = "none" /\ v4' = Stream!Job0 /\ v5' = v5
      /\ v6' = Stream!Flushed(v6) /\ v7' = v7 /\ v8' = v8 /\ v9' = v9 /\ v10' = v10
      /\ v11' = v11 /\ v12' = v12 /\ v13' = v13
  BY DEF Stream!JobFree, Stream!world, Stream!history
<1>2. PICK f, g, n, q : f = v6 /\ g = Stream!Flushed(v6) /\ n = v5 /\ q = v12
  OBVIOUS
<1>3. /\ f \in StreamFiles /\ n \in Stream!Nets /\ v10 \in 0..MaxFaults /\ v11 \in 0..MaxRuns
      /\ q \in BOOLEAN /\ (~q => StreamClean(v3, v4, v5, f, v7, v8, v9, v13))
  BY <1>2, StreamIs
<1>4. /\ g \in StreamFiles /\ g.pending = <<>> /\ Len(f.os) <= Len(g.os)
      /\ Stream!InPlace(f) => Stream!InPlace(g)
  BY <1>2, <1>3, StreamFlushed
<1>5. ~q => Stream!InPlace(g)
  BY <1>3, <1>4 DEF StreamClean
<1>6. PICK r \in StreamRuns : r = "none"
  BY DEF StreamRuns
<1>7. PICK y : y = Stream!Job0 /\ StreamJob(y)
  BY Job0Is
<1> QED BY <1>1, <1>2, <1>3, <1>4, <1>5, <1>6, <1>7, StreamKept

LEMMA StreamCrashInv ==
    ASSUME Stream!IInv, Stream!Crash PROVE Stream!IInv' /\ Stream!RightBytesStay
<1>1. /\ v1' = v1 /\ v2' = v2 /\ v3' = "none" /\ v4' = Stream!Job0 /\ v5' = Stream!Down
      /\ v6' = [v6 EXCEPT !.pending = <<>>] /\ v7' = v7 /\ v8' = v8 /\ v9' = v9
      /\ Stream!Fault /\ v11' = v11 /\ v12' = v12 /\ v13' = v13
  BY DEF Stream!Crash, Stream!world, Stream!history
<1>2. PICK f, g, n, q : f = v6 /\ g = [v6 EXCEPT !.pending = <<>>] /\ n = Stream!Down /\ q = v12
  OBVIOUS
<1>3. /\ f \in StreamFiles /\ v11 \in 0..MaxRuns
      /\ q \in BOOLEAN /\ (~q => StreamClean(v3, v4, v5, f, v7, v8, v9, v13))
  BY <1>2, StreamIs
<1>4. g \in StreamFiles /\ g.pending = <<>> /\ g.os = f.os /\ Len(f.os) <= Len(g.os)
  <2>1. <<>> \in Seq(Stream!Pendings)
    BY EmptySeq
  <2>2. f.os \in Seq(0..Total) /\ Len(f.os) \in Nat
    BY <1>3, FileFields
  <2>3. g \in StreamFiles /\ g.pending = <<>> /\ g.os = f.os
    BY <1>2, <1>3, <2>1 DEF StreamFiles
  <2> QED BY <2>2, <2>3
<1>5. ~q => Stream!InPlace(g)
  <2>1. DOMAIN g.pending = {}
    BY <1>4
  <2> QED BY <1>3, <1>4, <2>1 DEF StreamClean, Stream!InPlace
<1>6. PICK r \in StreamRuns : r = "none"
  BY DEF StreamRuns
<1>7. PICK y : y = Stream!Job0 /\ StreamJob(y)
  BY Job0Is
<1> QED BY <1>1, <1>2, <1>3, <1>4, <1>5, <1>6, <1>7, DownIs, StreamFaults, StreamKept

(* A running job that goes on with the same file. *)
LEMMA StreamGoesOn ==
    ASSUME Stream!IInv, Stream!Running, v1' = v1, v2' = v2, v3' = v3,
           NEW y, v4' = y, StreamJob(y), NEW n \in Stream!Nets, v5' = n,
           v6' = v6, v7' = v7, v8' = v8, v9' = v9, v10' \in 0..MaxFaults, v11' = v11,
           v12' = v12, v13' = v13,
           ~v12 => \A f \in StreamFiles :
               JobPlace(v4, v5, f) => JobPlace(y, n, f) /\ (n.left = "answer" => AnswerPlace(y, n))
    PROVE  Stream!IInv' /\ Stream!RightBytesStay
<1>1. PICK x, m, f, q : x = v4 /\ m = v5 /\ f = v6 /\ q = v12
  OBVIOUS
<1>2. /\ f \in StreamFiles /\ v11 \in 0..MaxRuns /\ q \in BOOLEAN
      /\ ~q => Stream!InPlace(f) /\ JobPlace(v4, v5, f)
  BY <1>1, StreamRunning
<1>3. Len(f.os) <= Len(f.os)
  BY <1>2, FileFields
<1>4. PICK r \in StreamRuns : r = "running"
  BY DEF StreamRuns
<1> QED BY <1>1, <1>2, <1>3, <1>4, StreamKept DEF Stream!Running

LEMMA StreamConnectedInv ==
    ASSUME Stream!IInv, Stream!Connected PROVE Stream!IInv' /\ Stream!RightBytesStay
<1>1. /\ Stream!Running /\ v5.at = "connecting" /\ v5' = [v5 EXCEPT !.at = "asked"]
      /\ v4' = [v4 EXCEPT !.headers = FALSE, !.streaming = FALSE]
      /\ v1' = v1 /\ v2' = v2 /\ v3' = v3 /\ v6' = v6 /\ v7' = v7 /\ v8' = v8 /\ v9' = v9
      /\ v10' = v10 /\ v11' = v11 /\ v12' = v12 /\ v13' = v13
  BY DEF Stream!Connected, Stream!world, Stream!history
<1>2. PICK x, y, m, n : /\ x = v4 /\ y = [v4 EXCEPT !.headers = FALSE, !.streaming = FALSE]
                        /\ m = v5 /\ n = [v5 EXCEPT !.at = "asked"]
  OBVIOUS
<1>3. StreamJob(x) /\ m \in Stream!Nets /\ v10 \in 0..MaxFaults
  BY <1>1, <1>2, StreamRunning
<1>4. /\ y \in Stream!Jobs /\ y.step = x.step /\ y.total = x.total /\ y.done = x.done
      /\ y.received = x.received /\ y.complete = x.complete /\ y.range = x.range /\ y.got = x.got
      /\ y.headers = FALSE
  BY <1>2, <1>3 DEF StreamJob, Stream!Jobs
<1>5. StreamJob(y)
  BY <1>3, <1>4 DEF StreamJob, Stream!DoneOf
<1>6. n \in Stream!Nets /\ n.at = "asked" /\ n.left = m.left /\ n.wire = m.wire
  BY <1>2, <1>3 DEF Stream!Nets
<1>7. ASSUME ~v12, NEW f \in StreamFiles, JobPlace(x, m, f)
      PROVE  JobPlace(y, n, f) /\ (n.left = "answer" => AnswerPlace(y, n))
  <2>1. JobPlace(y, n, f)
    BY <1>1, <1>2, <1>4, <1>6, <1>7 DEF JobPlace
  <2>2. m.left = "answer" => AnswerPlace(x, m)
    BY <1>1, <1>2, <1>7, StreamRunning
  <2> QED BY <1>4, <1>6, <2>1, <2>2 DEF AnswerPlace
<1> QED BY <1>1, <1>2, <1>3, <1>5, <1>6, <1>7, StreamGoesOn

(* handle_redirect *)
LEMMA StreamRedirect ==
    ASSUME Stream!IInv, Stream!Running, v1' = v1, v2' = v2, Stream!Redirect(v4),
           v10' = v10, v11' = v11
    PROVE  Stream!IInv' /\ Stream!RightBytesStay
<1>1. PICK x, m, f, q : x = v4 /\ m = v5 /\ f = v6 /\ q = v12
  OBVIOUS
<1>2. /\ StreamJob(x) /\ f \in StreamFiles /\ q \in BOOLEAN /\ (~q => Stream!InPlace(f))
      /\ v10 \in 0..MaxFaults /\ v11 \in 0..MaxRuns
  BY <1>1, StreamRunning
<1>3. CASE Stream!TooMany(x)
  <2>1. Stream!SetError(x) /\ v6' = v6 /\ v9' = v9 /\ v12' = v12 /\ v13' = v13
    BY <1>1, <1>3 DEF Stream!Redirect
  <2>2. Len(f.os) <= Len(f.os)
    BY <1>2, FileFields
  <2> QED BY <1>1, <1>2, <2>1, <2>2, StreamFailed
<1>4. CASE ~Stream!TooMany(x)
  <2>1. PICK y : y = [x EXCEPT !.redirects = @ + 1, !.hopped = TRUE, !.headers = FALSE,
                               !.streaming = FALSE, !.rescheduled = TRUE]
    OBVIOUS
  <2>2. PICK left \in {"redirect", "seen"} :
            left = IF v1.hop = "partial" /\ v5.left = "nothing" THEN "redirect" ELSE "seen"
    OBVIOUS
  <2>3. /\ v4' = y /\ v5' = Stream!Closing(left) /\ v3' = v3 /\ v6' = v6 /\ v7' = v7 /\ v8' = v8
        /\ v9' = v9 /\ v12' = v12 /\ v13' = v13
    BY <1>1, <1>4, <2>1, <2>2 DEF Stream!Redirect
  <2>4. x.redirects + 1 \in 0..MaxRedirects
    BY <1>2, <1>4, StreamConstants DEF StreamJob, Stream!Jobs, Stream!TooMany
  <2>5. /\ y \in Stream!Jobs /\ y.step = x.step /\ y.total = x.total /\ y.done = x.done
        /\ y.received = x.received /\ y.complete = x.complete /\ y.range = x.range /\ y.got = x.got
        /\ y.headers = FALSE
    BY <1>2, <2>1, <2>4 DEF StreamJob, Stream!Jobs
  <2>6. StreamJob(y)
    BY <1>2, <2>5 DEF StreamJob, Stream!DoneOf
  <2>7. PICK n \in Stream!Nets : n = Stream!Closing(left) /\ n.at = "draining" /\ n.left # "answer"
    BY NetsOf
  <2>8. ASSUME NEW g \in StreamFiles, JobPlace(x, m, g) PROVE JobPlace(y, n, g)
    BY <2>5, <2>7, <2>8 DEF JobPlace
  <2> QED BY <1>1, <1>2, <2>3, <2>6, <2>7, <2>8, StreamGoesOn
<1> QED BY <1>3, <1>4

LEMMA StreamRedirectAnswerInv ==
    ASSUME Stream!IInv, Stream!RedirectAnswer PROVE Stream!IInv' /\ Stream!RightBytesStay
<1>1. /\ Stream!Running /\ Stream!Redirect(v4) /\ v1' = v1 /\ v2' = v2 /\ v10' = v10 /\ v11' = v11
  BY DEF Stream!RedirectAnswer, Stream!world
<1> QED BY <1>1, StreamRedirect

(* The bytes that a job has: all of them are on the disk when nothing is left *)
(* to ask for, and those before the next range are.                           *)
LEMMA StreamSpan ==
    ASSUME NEW r \in Stream!Spans PROVE r \in Ranges /\ r.start <= r.end /\ r.end < Total
BY StreamConstants DEF Stream!Spans, Ranges
LEMMA SpanIs ==
    ASSUME NEW r \in Ranges, r.start <= r.end, r.end < Total PROVE r \in Stream!Spans
BY StreamConstants DEF Stream!Spans, Ranges
LEMMA StreamHas ==
    ASSUME NEW rs \in Seq(Stream!Spans), NEW n \in Nat, 0..n - 1 \subseteq Bytes(rs),
           NEW f \in StreamFiles, Stream!OnDisk(rs, f)
    PROVE  n <= Len(f.os)
<1>1. CASE n = 0
  BY <1>1, FileFields
<1>2. CASE n # 0
  <2>1. n - 1 \in Bytes(rs) /\ n - 1 \in Nat
    BY <1>2
  <2>2. n - 1 < Len(f.os)
    BY <2>1, StreamBytes DEF Stream!OnDisk
  <2> QED BY <2>2, FileFields
<1> QED BY <1>1, <1>2
LEMMA StreamAll ==
    ASSUME NEW x, StreamJob(x)
    PROVE  /\ Stream!AllChunksDone(x.done, x.total) =>
                 x.total = Total /\ 0..Total - 1 \subseteq Bytes(x.done)
           /\ x.total = Total /\ 0..Total - 1 \subseteq Bytes(x.done) =>
                 Stream!AllChunksDone(x.done, x.total)
<1>1. /\ x.total \in {0, Total} /\ x.done \in Seq(Ranges) /\ Canonical(x.done)
      /\ x.done \in Seq(Stream!Spans)
  BY StreamBytes DEF StreamJob, Stream!DoneOf
<1>2. Stream!AllChunksDone(x.done, x.total) <=> x.total > 0 /\ IsRangeDone(x.done, 0, x.total - 1)
  BY StreamSegments DEF AllChunksDone
<1>3. Total \in Nat /\ Total > 0 /\ Total - 1 \in Nat /\ 0 <= Total - 1
  BY StreamConstants
<1>4. IsRangeDone(x.done, 0, Total - 1) <=> 0..Total - 1 \subseteq Bytes(x.done)
  BY <1>1, <1>3, RangeDoneIsExact
<1> QED BY <1>1, <1>2, <1>3, <1>4
LEMMA StreamPending ==
    ASSUME NEW x, StreamJob(x), x.total = Total, NEW p, p = Stream!Pending(x)
    PROVE  /\ p = {} => 0..Total - 1 \subseteq Bytes(x.done)
           /\ p # {} => LET r == Stream!SegmentRange(Total, ChunkSize, Stream!Smallest(p))
                        IN  r \in Stream!Spans /\ 0..r.start - 1 \subseteq Bytes(x.done)
<1>1. x.done \in Seq(Ranges) /\ Canonical(x.done)
  BY StreamBytes DEF StreamJob, Stream!DoneOf
<1>2. Total \in Nat /\ Total > 0 /\ ChunkSize \in Nat \ {0}
  BY StreamConstants
<1>3. PICK last : last = (Total - 1) \div ChunkSize
  OBVIOUS
<1>4. last \in Nat /\ SegmentCount(Total, ChunkSize) - 1 = last
  BY <1>2, <1>3, LastSegment
<1>5. p = {i \in 0..last : ~IsSegmentDone(x.done, Total, ChunkSize, i)}
  BY <1>4, StreamSegments DEF Stream!Pending
<1>6. ASSUME NEW i \in 0..last
      PROVE  /\ SegmentRange(Total, ChunkSize, i) \in Ranges
             /\ SegmentRange(Total, ChunkSize, i).start <= SegmentRange(Total, ChunkSize, i).end
             /\ SegmentRange(Total, ChunkSize, i).end < Total
             /\ SegmentRange(Total, ChunkSize, i).start = i * ChunkSize
             /\ i \notin p => SegmentRange(Total, ChunkSize, i).start..SegmentRange(Total, ChunkSize, i).end
                                \subseteq Bytes(x.done)
  <2>1. PICK r : r = SegmentRange(Total, ChunkSize, i)
    OBVIOUS
  <2>2. r.start \in Nat /\ r.end \in Nat /\ r.start <= r.end /\ r.end < Total
    BY <1>2, <1>3, <2>1, SegmentInside
  <2>3. r \in Ranges /\ r.start = i * ChunkSize
    BY <2>1, <2>2 DEF SegmentRange, Ranges
  <2>4. i \notin p => IsRangeDone(x.done, r.start, r.end)
    BY <1>5, <2>1 DEF IsSegmentDone
  <2>5. IsRangeDone(x.done, r.start, r.end) => r.start..r.end \subseteq Bytes(x.done)
    BY <1>1, <2>2, RangeDoneIsExact
  <2> QED BY <2>1, <2>2, <2>3, <2>4, <2>5
<1>7. ASSUME NEW b \in 0..Total - 1
      PROVE  \E i \in 0..last : SegmentRange(Total, ChunkSize, i).start <= b
                                  /\ b <= SegmentRange(Total, ChunkSize, i).end
  BY <1>2, <1>3, SegmentsCover
<1>8. ASSUME p = {} PROVE 0..Total - 1 \subseteq Bytes(x.done)
  <2>1. SUFFICES ASSUME NEW b \in 0..Total - 1 PROVE b \in Bytes(x.done)
    OBVIOUS
  <2>2. PICK i \in 0..last : SegmentRange(Total, ChunkSize, i).start <= b
                               /\ b <= SegmentRange(Total, ChunkSize, i).end
    BY <1>7
  <2> QED BY <1>6, <1>8, <2>2 DEF Ranges
<1>9. ASSUME p # {}
      PROVE  LET r == Stream!SegmentRange(Total, ChunkSize, Stream!Smallest(p))
             IN  r \in Stream!Spans /\ 0..r.start - 1 \subseteq Bytes(x.done)
  <2>1. p \in SUBSET Nat
    BY <1>4, <1>5
  <2>2. PICK i, r : i = Smallest(p) /\ r = SegmentRange(Total, ChunkSize, i)
    OBVIOUS
  <2>3. i \in p /\ \A k \in p : i <= k
    BY <1>9, <2>1, <2>2, SmallestProperties
  <2>4. i \in 0..last
    BY <1>5, <2>3
  <2>5. r \in Stream!Spans /\ r.start = i * ChunkSize /\ r.start \in Nat /\ r.start < Total
    <3>1. r \in Ranges /\ r.start <= r.end /\ r.end < Total /\ r.start = i * ChunkSize
      BY <1>6, <2>2, <2>4
    <3> QED BY <1>2, <3>1, SpanIs DEF Ranges
  <2>6. ASSUME NEW b \in 0..r.start - 1 PROVE b \in Bytes(x.done)
    <3>1. b \in 0..Total - 1
      BY <1>2, <2>5
    <3>2. PICK k \in 0..last : SegmentRange(Total, ChunkSize, k).start <= b
                                 /\ b <= SegmentRange(Total, ChunkSize, k).end
      BY <1>7, <3>1
    <3>3. k * ChunkSize < i * ChunkSize
      BY <1>2, <1>4, <1>6, <2>4, <2>5, <3>1, <3>2
    <3>4. k < i
      BY <1>2, <1>4, <2>4, <3>3
    <3>5. k \notin p
      BY <1>4, <2>3, <2>4, <3>4
    <3> QED BY <1>6, <3>1, <3>2, <3>5 DEF Ranges
  <2> QED BY <2>2, <2>5, <2>6, StreamSegments
<1> QED BY <1>8, <1>9

(* next_pending_segment *)
LEMMA StreamTake ==
    ASSUME NEW x, StreamJob(x), x.total = Total, Stream!Pending(x) # {}, NEW y, y = Stream!Take(x)
    PROVE  /\ StreamJob(y) /\ y.step = x.step /\ y.total = x.total /\ y.done = x.done
           /\ y.received = x.received /\ y.complete = x.complete /\ y.got = x.got
           /\ y.headers = x.headers
           /\ \A f \in StreamFiles : Stream!OnDisk(x.done, f) => y.range.start <= Len(f.os)
<1>1. PICK p, r : p = Stream!Pending(x) /\ r = Stream!SegmentRange(Total, ChunkSize, Stream!Smallest(p))
  OBVIOUS
<1>2. r \in Stream!Spans /\ 0..r.start - 1 \subseteq Bytes(x.done)
  BY <1>1, StreamPending
<1>3. y = [x EXCEPT !.range = r]
  BY <1>1 DEF Stream!Take
<1>4. x \in Stream!Jobs
  BY DEF StreamJob
<1>5. /\ y \in Stream!Jobs /\ y.step = x.step /\ y.total = x.total /\ y.done = x.done
      /\ y.received = x.received /\ y.complete = x.complete /\ y.got = x.got
      /\ y.headers = x.headers /\ y.range = r
  BY <1>2, <1>3, <1>4 DEF Stream!Jobs
<1>6. StreamJob(y)
  BY <1>5 DEF StreamJob, Stream!DoneOf
<1>7. ASSUME NEW f \in StreamFiles, Stream!OnDisk(x.done, f) PROVE r.start <= Len(f.os)
  <2>1. r.start \in Nat
    BY <1>2, StreamSpan DEF Ranges
  <2>2. x.done \in Seq(Stream!Spans)
    BY DEF StreamJob, Stream!DoneOf
  <2> QED BY <1>2, <1>7, <2>1, <2>2, StreamHas
<1> QED BY <1>5, <1>6, <1>7

LEMMA Connecting ==
    ASSUME NEW n, n = [Stream!Down EXCEPT !.at = "connecting"]
    PROVE  n \in Stream!Nets /\ n.at = "connecting" /\ n.left = "nothing"
<1>1. <<>> \in Seq(0..Total)
  BY EmptySeq
<1> QED BY <1>1 DEF Stream!Down, Stream!Nets
LEMMA FreshIs ==
    ASSUME NEW x, StreamJob(x), NEW y, y = Stream!Fresh(x)
    PROVE  /\ StreamJob(y) /\ y.step = x.step /\ y.total = x.total /\ y.done = x.done
           /\ y.received = x.received /\ y.complete = x.complete /\ y.got = 0 /\ y.headers = FALSE
           /\ y.range = x.range /\ y.chunked = x.chunked
<1>1. /\ y \in Stream!Jobs /\ y.step = x.step /\ y.total = x.total /\ y.done = x.done
      /\ y.received = x.received /\ y.complete = x.complete /\ y.got = 0 /\ y.headers = FALSE
      /\ y.range = x.range /\ y.chunked = x.chunked
  BY DEF StreamJob, Stream!Jobs, Stream!Fresh
<1> QED BY <1>1 DEF StreamJob, Stream!DoneOf

LEMMA StreamScheduleInv ==
    ASSUME Stream!IInv, Stream!Schedule PROVE Stream!IInv' /\ Stream!RightBytesStay
<1>1. /\ Stream!Running /\ v1' = v1 /\ v2' = v2 /\ v10' = v10 /\ v11' = v11 /\ v12' = v12
  BY DEF Stream!Schedule, Stream!world
<1>2. PICK x, m, f, q, y : x = v4 /\ m = v5 /\ f = v6 /\ q = v12 /\ y = Stream!Fresh(v4)
  OBVIOUS
<1>3. /\ StreamJob(x) /\ f \in StreamFiles /\ v10 \in 0..MaxFaults /\ v11 \in 0..MaxRuns
      /\ q \in BOOLEAN /\ v3 = "running"
      /\ ~q => Stream!InPlace(f) /\ JobPlace(x, m, f) /\ Stream!OnDisk(x.done, f)
  BY <1>1, <1>2, StreamRunning
<1>4. /\ StreamJob(y) /\ y.step = x.step /\ y.total = x.total /\ y.done = x.done
      /\ y.received = x.received /\ y.complete = x.complete /\ y.got = 0 /\ y.headers = FALSE
      /\ y.range = x.range /\ y.chunked = x.chunked
  BY <1>2, <1>3, FreshIs
<1>5. Len(f.os) \in Nat /\ Len(Stream!Given(f)) \in Nat /\ Len(f.os) <= Len(Stream!Given(f))
      /\ Len(f.os) <= Len(f.os)
  BY <1>3, FileFields, StreamGiven
<1>6. Stream!Pending(y) = Stream!Pending(x)
  BY <1>4 DEF Stream!Pending
<1>7. CASE x.step = "chunk" /\ Stream!Pending(x) = {}
  <2>1. Stream!Finalize(y, f)
    BY <1>2, <1>7 DEF Stream!Schedule
  <2>2. x.total = Total /\ x.done \in Seq(Stream!Spans)
    BY <1>3, <1>7 DEF StreamJob, Stream!DoneOf
  <2>3. 0..Total - 1 \subseteq Bytes(x.done)
    BY <1>3, <1>7, <2>2, StreamPending
  <2>4. ~q => Total <= Len(f.os)
    BY <1>3, <2>2, <2>3, StreamHas, StreamConstants
  <2>5. ~q => Total <= Len(Stream!Given(f))
    BY <1>5, <2>4, StreamConstants
  <2> QED BY <1>1, <1>2, <1>3, <1>4, <1>5, <1>7, <2>1, <2>5, StreamFinalized
<1>8. CASE ~(x.step = "chunk" /\ Stream!Pending(x) = {})
  <2>1. PICK z, n : z = (IF x.step = "chunk" THEN Stream!Take(y) ELSE y)
                    /\ n = [Stream!Down EXCEPT !.at = "connecting"]
    OBVIOUS
  <2>2. /\ v4' = z /\ v5' = n /\ v3' = v3 /\ v6' = f /\ v7' = v7 /\ v8' = v8 /\ v9' = v9 /\ v13' = v13
    BY <1>2, <1>8, <2>1 DEF Stream!Schedule
  <2>3. n \in Stream!Nets /\ n.at = "connecting" /\ n.left = "nothing"
    BY <2>1, Connecting
  <2>4. /\ StreamJob(z) /\ z.step = x.step /\ z.total = x.total /\ z.done = x.done
        /\ z.received = x.received /\ z.complete = x.complete /\ z.got = 0 /\ z.headers = FALSE
        /\ z.step = "chunk" /\ ~q => z.range.start <= Len(f.os)
    <3>1. CASE x.step = "chunk"
      <4>1. y.total = Total /\ Stream!Pending(y) # {} /\ z = Stream!Take(y)
        BY <1>3, <1>4, <1>6, <1>8, <2>1, <3>1 DEF StreamJob
      <4> QED BY <1>3, <1>4, <4>1, StreamTake
    <3>2. CASE x.step # "chunk"
      BY <1>4, <2>1, <3>2
    <3> QED BY <3>1, <3>2
  <2>5. ~q => JobPlace(z, n, f)
    <3> SUFFICES ASSUME ~q PROVE JobPlace(z, n, f)
      OBVIOUS
    <3>1. z.step = "chunk" => z.range.start + z.got <= Len(Stream!Given(f))
      <4>1. z.range.start \in Nat
        BY <2>4, StreamSpan DEF StreamJob, Stream!Jobs, Ranges
      <4> QED BY <1>5, <2>4, <4>1
    <3> QED BY <1>3, <2>3, <2>4, <3>1 DEF JobPlace
  <2>6. PICK r \in StreamRuns : r = "running"
    BY DEF StreamRuns
  <2> QED BY <1>1, <1>2, <1>3, <1>5, <2>2, <2>3, <2>4, <2>5, <2>6, StreamKept
<1> QED BY <1>7, <1>8

(* A job starts from what is saved. *)
LEMMA RestoredIs ==
    ASSUME NEW s, StreamSaved(s), NEW x, x = Stream!Restored(s)
    PROVE  /\ StreamJob(x) /\ x.step = "stream" /\ x.total = s.total /\ x.done = s.done
           /\ x.complete = FALSE /\ x.got = 0 /\ x.headers = FALSE
<1>1. s.total \in {0, Total} /\ s.done \in Seq(Stream!Spans) /\ Stream!DoneOf(s)
  BY DEF StreamSaved
<1>2. /\ s.done \in Seq(Ranges) /\ Canonical(s.done) /\ Bytes(s.done) \subseteq 0..Total - 1
  BY <1>1, StreamBytes DEF Stream!DoneOf
<1>3. s.total \in Nat /\ (s.total > 0 => \A b \in Bytes(s.done) : b < s.total)
  BY <1>1, <1>2, StreamConstants
<1>4. Stream!LoadDoneRanges(s.done, s.total) = s.done
  BY <1>2, <1>3, LoadIsExact, StreamLoad
<1>5. x = [Stream!Job0 EXCEPT !.total = s.total, !.done = s.done]
  BY <1>4 DEF Stream!Restored
<1>6. Stream!Job0 \in Stream!Jobs
  BY Job0Is DEF StreamJob
<1>7. PICK z : z = Stream!Job0
  OBVIOUS
<1>8. /\ z.step = "stream" /\ z.complete = FALSE /\ z.got = 0 /\ z.headers = FALSE
  BY <1>7, Job0Is
<1>9. /\ x \in Stream!Jobs /\ x.total = s.total /\ x.done = s.done /\ x.step = "stream"
      /\ x.complete = FALSE /\ x.got = 0 /\ x.headers = FALSE
  BY <1>1, <1>5, <1>6, <1>7, <1>8 DEF Stream!Jobs
<1> QED BY <1>1, <1>9 DEF StreamJob, Stream!DoneOf

LEMMA StreamStartInv ==
    ASSUME Stream!IInv, Stream!Start PROVE Stream!IInv' /\ Stream!RightBytesStay
<1>1. PICK x, f, q, m, s : x = Stream!Restored(v7) /\ f = v6 /\ q = v12 /\ m = v5 /\ s = v7
  OBVIOUS
<1>2. /\ StreamSaved(s) /\ f \in StreamFiles /\ v10 \in 0..MaxFaults /\ v11 \in 0..MaxRuns
      /\ q \in BOOLEAN /\ m \in Stream!Nets /\ v9 \in Seq(0..Total) /\ v13 \in BOOLEAN
      /\ v3 = "none" => f.pending = <<>>
      /\ ~q => StreamClean(v3, v4, v5, f, s, v8, v9, v13)
  BY <1>1, StreamIs
<1>3. /\ v1' = v1 /\ v2' = v2 /\ v3 = "none" /\ v6' = f /\ v7' = s /\ v8' = "downloading" /\ v9' = v9
      /\ v10' = v10 /\ v12' = q /\ v13' = v13 /\ v8 # "completed"
      /\ v11' = v11 + 1 /\ v11 < MaxRuns
  BY <1>1 DEF Stream!Start, Stream!world
<1>4. v11' \in 0..MaxRuns
  BY <1>2, <1>3, StreamConstants
<1>5. /\ StreamJob(x) /\ x.step = "stream" /\ x.total = s.total /\ x.done = s.done
      /\ x.complete = FALSE /\ x.got = 0 /\ x.headers = FALSE
  BY <1>1, <1>2, RestoredIs
<1>6. Len(f.os) \in Nat /\ Len(Stream!Given(f)) = Len(f.os) /\ Len(f.os) <= Len(f.os)
  BY <1>2, <1>3, FileFields, StreamNothing
<1>7. ~q => Stream!InPlace(f) /\ Stream!OnDisk(s.done, f)
  BY <1>2, <1>3 DEF StreamClean
<1>8. PICK t \in StreamStatuses : t = "downloading"
  BY DEF StreamStatuses
<1>9. ASSUME NEW r \in StreamRuns, v3' = r, r # "none", NEW y, v4' = y, StreamJob(y),
             NEW n \in Stream!Nets, v5' = n,
             ~q /\ r = "running" => JobPlace(y, n, f) /\ n.left # "answer"
      PROVE  Stream!IInv' /\ Stream!RightBytesStay
  <2>1. ~q => StreamClean(r, y, n, f, s, t, v9, v13)
    BY <1>7, <1>8, <1>9 DEF StreamClean
  <2>2. ~q => ~v12 /\ StreamClean(r, y, n, f, s, t, v9, v13) /\ Len(v6.os) <= Len(f.os)
    BY <1>1, <1>6, <2>1
  <2>3. v9 \in Seq(0..Total) /\ v13 \in BOOLEAN /\ v8' = t
    BY <1>2, <1>3, <1>8
  <2>4. PICK d \in Seq(0..Total), b \in BOOLEAN : d = v9 /\ b = v13
    BY <2>3
  <2> QED BY <1>2, <1>3, <1>4, <1>9, <2>2, <2>3, <2>4, StreamMove
<1>10. PICK n : n = [Stream!Down EXCEPT !.at = "connecting"]
  OBVIOUS
<1>11. n \in Stream!Nets /\ n.at = "connecting" /\ n.left = "nothing"
  BY <1>10, Connecting
<1>12. PICK a \in StreamRuns, b \in StreamRuns : a = "running" /\ b = "segments"
  BY DEF StreamRuns
<1>13. CASE x.total > 0 /\ ~Stream!AllChunksDone(x.done, x.total) /\ v2
  <2>1. v3' = b /\ v4' = x /\ v5' = m
    BY <1>1, <1>12, <1>13 DEF Stream!Start
  <2> QED BY <1>2, <1>5, <1>9, <1>12, <2>1
<1>14. CASE x.total > 0 /\ ~Stream!AllChunksDone(x.done, x.total) /\ ~v2
  <2>1. PICK z, y : z = [x EXCEPT !.step = "chunk"] /\ y = Stream!Take(z)
    OBVIOUS
  <2>2. v3' = a /\ v4' = y /\ v5' = n
    BY <1>1, <1>10, <1>12, <1>14, <2>1 DEF Stream!Start
  <2>3. /\ z \in Stream!Jobs /\ z.step = "chunk" /\ z.total = x.total /\ z.done = x.done
        /\ z.complete = FALSE /\ z.got = 0 /\ z.headers = FALSE
    BY <1>5, <2>1 DEF StreamJob, Stream!Jobs
  <2>4. x.total = Total
    BY <1>5, <1>14, StreamConstants DEF StreamJob, Stream!DoneOf
  <2>5. StreamJob(z) /\ z.total = Total
    BY <1>5, <2>3, <2>4 DEF StreamJob, Stream!DoneOf
  <2>6. Stream!Pending(z) # {}
    BY <1>5, <1>14, <2>3, <2>4, <2>5, StreamPending, StreamAll
  <2>7. /\ StreamJob(y) /\ y.step = z.step /\ y.done = z.done /\ y.got = z.got /\ y.headers = z.headers
        /\ Stream!OnDisk(z.done, f) => y.range.start <= Len(f.os)
    BY <1>2, <2>1, <2>5, <2>6, StreamTake
  <2>8. y.range.start \in Nat
    BY <2>7, StreamSpan DEF StreamJob, Stream!Jobs, Ranges
  <2>9. ~q => y.range.start + y.got <= Len(Stream!Given(f))
    BY <1>5, <1>6, <1>7, <2>3, <2>7, <2>8
  <2>10. ~q => JobPlace(y, n, f)
    BY <1>5, <1>7, <1>11, <2>3, <2>7, <2>9 DEF JobPlace
  <2> QED BY <1>9, <1>11, <1>12, <2>2, <2>7, <2>10
<1>15. CASE ~(x.total > 0 /\ ~Stream!AllChunksDone(x.done, x.total))
  <2>1. PICK y : y = [x EXCEPT !.received = Len(f.os)]
    OBVIOUS
  <2>2. v3' = a /\ v4' = y /\ v5' = n
    BY <1>1, <1>10, <1>12, <1>15, <2>1 DEF Stream!Start
  <2>3. /\ y \in Stream!Jobs /\ y.step = "stream" /\ y.total = x.total /\ y.done = x.done
        /\ y.complete = FALSE /\ y.got = 0 /\ y.headers = FALSE /\ y.received = Len(f.os)
    BY <1>5, <1>6, <2>1 DEF StreamJob, Stream!Jobs
  <2>4. StreamJob(y)
    BY <1>5, <2>3 DEF StreamJob, Stream!DoneOf
  <2>5. ~q => JobPlace(y, n, f)
    BY <1>5, <1>6, <1>7, <1>11, <2>3 DEF JobPlace
  <2> QED BY <1>9, <1>11, <1>12, <2>2, <2>4, <2>5
<1> QED BY <1>13, <1>14, <1>15, <1>2, StreamIs

(* A range of the file that a job marks. *)
LEMMA StreamMarked ==
    ASSUME NEW x, StreamJob(x), x.step = "chunk", NEW start \in Nat, NEW end \in Nat,
           start <= end, end < Total, NEW rs, rs = Stream!MarkRangeDone(x.done, x.total, start, end)
    PROVE  /\ rs \in Seq(Stream!Spans) /\ Stream!Canonical(rs)
           /\ Bytes(rs) = Bytes(x.done) \cup start..end
<1>1. /\ x.total = Total /\ x.done \in Seq(Stream!Spans) /\ x.done \in Seq(Ranges) /\ Canonical(x.done)
      /\ Bytes(x.done) \subseteq 0..Total - 1
  BY StreamBytes DEF StreamJob, Stream!DoneOf
<1>2. Total \in Nat /\ Total > 0
  BY StreamConstants
<1>3. rs = MarkRangeDone(x.done, Total, start, end)
  BY <1>1, StreamMark
<1>4. /\ rs \in Seq(Ranges) /\ Canonical(rs)
      /\ \A b : b \in Bytes(rs) <=> (b \in Bytes(x.done) \/ (b \in start..end /\ (Total = 0 \/ b < Total)))
  BY <1>1, <1>2, <1>3, MarkIsExact
<1>5. ASSUME NEW b PROVE b \in Bytes(rs) <=> b \in Bytes(x.done) \cup start..end
  BY <1>2, <1>4
<1>6. Bytes(rs) = Bytes(x.done) \cup start..end
  BY <1>5
<1>7. Bytes(rs) \subseteq 0..Total - 1
  BY <1>1, <1>2, <1>6
<1>8. rs \in Seq([start : 0..Total - 1, end : 0..Total - 1])
  BY <1>4, <1>7, RangesTyped
<1>9. ASSUME NEW i \in 1..Len(rs) PROVE rs[i] \in Stream!Spans
  <2>1. rs[i] \in [start : 0..Total - 1, end : 0..Total - 1]
    <3>1. PICK T : T = [start : 0..Total - 1, end : 0..Total - 1]
      OBVIOUS
    <3>2. rs \in Seq(T)
      BY <1>8, <3>1
    <3>3. rs[i] \in T
      BY <1>9, <3>2, ElementOfSeq
    <3> QED BY <3>1, <3>3
  <2>2. rs[i].start <= rs[i].end
    BY <1>4, <1>9 DEF Canonical
  <2> QED BY <2>1, <2>2 DEF Stream!Spans
<1>10. Len(rs) \in Nat /\ rs \in [1..Len(rs) -> Stream!Spans]
  BY <1>8, <1>9
<1>11. rs \in Seq(Stream!Spans)
  BY <1>10, FunctionIsSequence
<1> QED BY <1>4, <1>6, <1>11, StreamRanges

LEMMA StreamRedirectBodyInv ==
    ASSUME Stream!IInv, Stream!RedirectBody PROVE Stream!IInv' /\ Stream!RightBytesStay
<1>1. /\ Stream!Running /\ v4.step = "chunk" /\ ~Stream!TooMany(v4)
      /\ v1' = v1 /\ v2' = v2 /\ v10' = v10 /\ v11' = v11 /\ v12' = TRUE
  BY DEF Stream!RedirectBody, Stream!world
<1>2. PICK j, m, f, q : j = v4 /\ m = v5 /\ f = v6 /\ q = TRUE
  OBVIOUS
<1>3. /\ StreamJob(j) /\ f \in StreamFiles /\ v10 \in 0..MaxFaults /\ v11 \in 0..MaxRuns
      /\ q \in BOOLEAN /\ v3 = "running"
  BY <1>1, <1>2, StreamRunning
<1>4. PICK x : x = [j EXCEPT !.redirects = @ + 1, !.hopped = TRUE, !.headers = FALSE,
                             !.rescheduled = TRUE]
  OBVIOUS
<1>5. j.redirects + 1 \in 0..MaxRedirects
  BY <1>1, <1>2, <1>3, StreamConstants DEF StreamJob, Stream!Jobs, Stream!TooMany
<1>6. x \in Stream!Jobs /\ x.step = j.step /\ x.total = j.total /\ x.done = j.done /\ x.range = j.range
  BY <1>3, <1>4, <1>5 DEF StreamJob, Stream!Jobs
<1>7. StreamJob(x) /\ x.step = "chunk" /\ x.total = Total
  BY <1>1, <1>2, <1>3, <1>6 DEF StreamJob, Stream!DoneOf
<1>8. x.range.start \in Nat /\ x.range.start < Total /\ x.range.start <= x.range.start
  <2>1. x.range \in Stream!Spans
    BY <1>6 DEF Stream!Jobs
  <2> QED BY <2>1, StreamConstants DEF Stream!Spans
<1>9. PICK rs, y : /\ rs = Stream!MarkRangeDone(x.done, x.total, x.range.start, x.range.start)
                   /\ y = [x EXCEPT !.done = rs]
  OBVIOUS
<1>10. rs \in Seq(Stream!Spans) /\ Stream!Canonical(rs)
  BY <1>7, <1>8, <1>9, StreamMarked
<1>11. y \in Stream!Jobs /\ y.step = "chunk" /\ y.total = Total /\ y.done = rs
  BY <1>6, <1>7, <1>9, <1>10 DEF Stream!Jobs
<1>12. StreamJob(y)
  BY <1>10, <1>11, StreamConstants DEF StreamJob, Stream!DoneOf
<1>13. PICK g : g = Stream!Write(f, x.range.start, <<0>>)
  OBVIOUS
<1>14. g \in StreamFiles
  <2>1. PICK zero : zero = <<0>>
    OBVIOUS
  <2>2. 0 \in 0..Total
    BY StreamConstants
  <2>3. zero \in Seq(0..Total)
    BY <2>1, <2>2
  <2> QED BY <1>3, <1>8, <1>13, <2>1, <2>3, StreamWrite
<1>15. /\ Stream!AllChunksDone(y.done, y.total) => Stream!Finalize(y, g)
       /\ ~Stream!AllChunksDone(y.done, y.total) =>
             /\ v4' = y /\ v6' = g /\ v5' = Stream!Closing("seen") /\ v3' = v3 /\ v9' = v9 /\ v13' = v13
             /\ Stream!Upsert(y, "downloading") \/ (v7' = v7 /\ v8' = v8)
  BY <1>2, <1>4, <1>9, <1>13 DEF Stream!RedirectBody
<1>16. PICK n \in Stream!Nets : n = Stream!Closing("seen")
  BY NetsOf
<1>17. CASE Stream!AllChunksDone(y.done, y.total)
  BY <1>1, <1>2, <1>3, <1>12, <1>14, <1>15, <1>17, StreamFinalized
<1>18. CASE ~Stream!AllChunksDone(y.done, y.total) /\ Stream!Upsert(y, "downloading")
  <2>1. v7' = Stream!Stored(y) /\ v8' \in {v8, "downloading"}
    BY <1>18 DEF Stream!Upsert
  <2> QED BY <1>1, <1>2, <1>3, <1>12, <1>14, <1>15, <1>16, <1>18, <2>1, StreamUpserted
<1>19. CASE ~Stream!AllChunksDone(y.done, y.total) /\ ~Stream!Upsert(y, "downloading")
  <2>1. PICK r \in StreamRuns : r = "running"
    BY DEF StreamRuns
  <2> QED BY <1>1, <1>2, <1>3, <1>12, <1>14, <1>15, <1>16, <1>19, <2>1, StreamKept
<1> QED BY <1>17, <1>18, <1>19

(* disable_segment_mode *)
LEMMA DisabledIs ==
    ASSUME NEW x, StreamJob(x), NEW f \in StreamFiles, NEW y, y = Stream!Disabled(x, f)
    PROVE  /\ StreamJob(y) /\ y.step = "stream" /\ y.received = Len(Stream!Given(f)) /\ y.done = <<>>
           /\ y.total = x.total /\ y.complete = x.complete /\ y.got = 0 /\ y.headers = FALSE
<1>1. Len(Stream!Given(f)) \in Nat
  BY StreamGiven
<1>2. /\ y \in Stream!Jobs /\ y.step = "stream" /\ y.received = Len(Stream!Given(f)) /\ y.done = <<>>
      /\ y.total = x.total /\ y.complete = x.complete /\ y.got = 0 /\ y.headers = FALSE
  BY <1>1, EmptyRanges DEF StreamJob, Stream!Jobs, Stream!Disabled
<1> QED BY <1>2, EmptyRanges DEF StreamJob, Stream!DoneOf
LEMMA StreamFallBack ==
    ASSUME Stream!IInv, Stream!Running, v4.step = "chunk", v1' = v1, v2' = v2, NEW held \in Stream!Nets,
           Stream!FallBack(v4, held), v10' \in 0..MaxFaults, v11' = v11, v12' = v12,
           held.at = "draining",
           ~v12 /\ held.left = "answer" =>
               /\ held.wire # <<>> /\ held.wire[1] # Stream!EndOfChunks
               /\ \E to \in 0..Total : Stream!Follows(held.wire, held.wire[1] - 1, to)
    PROVE  Stream!IInv' /\ Stream!RightBytesStay
<1>1. PICK x, m, f, q, y, g : /\ x = v4 /\ m = v5 /\ f = v6 /\ q = v12
                              /\ y = Stream!Disabled(v4, v6) /\ g = Stream!Flushed(v6)
  OBVIOUS
<1>2. /\ StreamJob(x) /\ f \in StreamFiles /\ v11 \in 0..MaxRuns
      /\ q \in BOOLEAN /\ v3 = "running"
      /\ ~q => Stream!InPlace(f) /\ JobPlace(x, m, f)
  BY <1>1, StreamRunning
<1>3. /\ StreamJob(y) /\ y.step = "stream" /\ y.received = Len(Stream!Given(f)) /\ y.done = <<>>
      /\ y.total = x.total /\ y.complete = x.complete /\ y.got = 0 /\ y.headers = FALSE
  BY <1>1, <1>2, DisabledIs
<1>4. x.total = Total /\ Total # 0
  BY <1>1, <1>2, StreamConstants DEF StreamJob
<1>5. /\ g \in StreamFiles /\ Len(g.os) = Len(Stream!Given(f)) /\ Len(f.os) <= Len(g.os)
      /\ Len(Stream!Given(g)) = Len(g.os) /\ (Stream!InPlace(f) => Stream!InPlace(g))
  BY <1>1, <1>2, StreamFlushed
<1>6. v4' = y /\ v6' = g /\ v5' \in {held, Stream!Closing("seen")} /\ v3' = v3 /\ v7' = v7 /\ v8' = v8
      /\ v9' = v9 /\ v13' = v13
  BY <1>1 DEF Stream!FallBack
<1>7. PICK n \in Stream!Nets : n = v5' /\ n.at = "draining" /\ (n.left = "answer" => n = held)
  BY <1>6, NetsOf
<1>8. ~q => JobPlace(y, n, g)
  BY <1>3, <1>4, <1>5, <1>7, EmptyRanges DEF JobPlace
<1>9. ~q /\ n.left = "answer" => AnswerPlace(y, n)
  BY <1>1, <1>3, <1>4, <1>7 DEF AnswerPlace
<1>10. PICK r \in StreamRuns : r = "running"
  BY DEF StreamRuns
<1>11. ~q => ~v12 /\ Stream!InPlace(g) /\ Len(v6.os) <= Len(g.os)
  BY <1>1, <1>2, <1>5
<1>12. r # "none"
  BY <1>10
<1> QED BY <1>1, <1>2, <1>3, <1>5, <1>6, <1>7, <1>8, <1>9, <1>10, <1>11, <1>12, StreamKept

LEMMA StreamErrorAnswerInv ==
    ASSUME Stream!IInv, Stream!ErrorAnswer PROVE Stream!IInv' /\ Stream!RightBytesStay
<1>1. /\ Stream!Running /\ v1' = v1 /\ v2' = v2 /\ Stream!Fault /\ v11' = v11 /\ v12' = v12
  BY DEF Stream!ErrorAnswer, Stream!world
<1>2. v10' \in 0..MaxFaults
  BY <1>1, StreamFaults
<1>3. CASE v4.step = "chunk"
  <2>1. PICK held \in Stream!Nets : held = Stream!Closing("error") /\ held.at = "draining" /\ held.left = "error"
    BY NetsOf
  <2>2. Stream!FallBack(v4, held)
    BY <1>3, <2>1 DEF Stream!ErrorAnswer
  <2> QED BY <1>1, <1>2, <1>3, <2>1, <2>2, StreamFallBack
<1>4. CASE v4.step # "chunk"
  <2>1. PICK x, f, q : x = v4 /\ f = v6 /\ q = v12
    OBVIOUS
  <2>2. Stream!SetError(x) /\ v6' = f /\ v9' = v9 /\ v13' = v13
    BY <1>4, <2>1 DEF Stream!ErrorAnswer
  <2>3. /\ StreamJob(x) /\ f \in StreamFiles /\ v11 \in 0..MaxRuns
        /\ q \in BOOLEAN /\ (~q => Stream!InPlace(f))
    BY <1>1, <2>1, StreamRunning
  <2>4. Len(f.os) <= Len(f.os)
    BY <2>3, FileFields
  <2> QED BY <1>1, <1>2, <2>1, <2>2, <2>3, <2>4, StreamFailed
<1> QED BY <1>3, <1>4

(* The first bytes of what follows, and what is left of it. *)
Wires == Seq(0..Total)
StartOf(b, w) == /\ b \in Wires /\ w \in Wires /\ Len(b) <= Len(w)
                 /\ \A k \in 1..Len(b) : b[k] = w[k]
RestOf(r, w, n) == /\ r \in Wires /\ w \in Wires /\ n \in 0..Len(w) /\ Len(r) = Len(w) - n
                   /\ \A k \in 1..Len(r) : r[k] = w[n + k]
(* Bytes that come where they are due. *)
Due(p, at) == \A k \in 1..Len(p) : p[k] = at + k
EndAt(p, at, to) == at + Len(p) = to
LEMMA WiresAre ==
    ASSUME NEW w \in Wires
    PROVE  Len(w) \in Nat /\ DOMAIN w = 1..Len(w) /\ (w # <<>> <=> Len(w) > 0)
<1>1. PICK S : S = 0..Total
  OBVIOUS
<1>2. w \in Seq(S)
  BY <1>1 DEF Wires
<1> QED BY <1>2, LenProperties, EmptySeq
LEMMA WireParts ==
    ASSUME NEW w \in Wires, NEW n \in 0..Len(w),
           NEW b, b = SubSeq(w, 1, n), NEW r, r = SubSeq(w, n + 1, Len(w))
    PROVE  StartOf(b, w) /\ Len(b) = n /\ RestOf(r, w, n)
<1>1. PICK S : S = 0..Total
  OBVIOUS
<1>2. w \in Seq(S) /\ Len(w) \in Nat /\ n \in Nat /\ n <= Len(w)
  BY <1>1, WiresAre DEF Wires
<1>3. b \in Seq(S) /\ Len(b) = n /\ \A k \in 1..n : b[k] = w[k]
  BY <1>2, SubSeqProperties
<1>4. r \in Seq(S) /\ Len(r) = Len(w) - n /\ \A k \in 1..Len(r) : r[k] = w[n + k]
  BY <1>2, SubSeqProperties
<1>5. b \in Wires /\ r \in Wires
  BY <1>1, <1>3, <1>4 DEF Wires
<1>6. StartOf(b, w)
  BY <1>2, <1>3, <1>5 DEF StartOf
<1>7. RestOf(r, w, n)
  BY <1>2, <1>4, <1>5 DEF RestOf
<1> QED BY <1>3, <1>6, <1>7
LEMMA PayloadIs ==
    ASSUME NEW b \in Wires, NEW p, p = Stream!Payload(b)
    PROVE  StartOf(p, b) /\ Len(p) = IF Stream!Whole(b) THEN Len(b) - 1 ELSE Len(b)
<1>1. Len(b) \in Nat /\ (b # <<>> <=> Len(b) > 0)
  BY WiresAre
<1>2. CASE Stream!Whole(b)
  <2>1. Len(b) > 0
    BY <1>1, <1>2 DEF Stream!Whole
  <2>2. PICK n \in 0..Len(b) : n = Len(b) - 1
    BY <1>1, <2>1
  <2>3. p = SubSeq(b, 1, n)
    BY <1>2, <2>2 DEF Stream!Payload
  <2>4. StartOf(p, b) /\ Len(p) = n
    BY <2>3, WireParts
  <2> QED BY <1>2, <2>2, <2>4
<1>3. CASE ~Stream!Whole(b)
  BY <1>1, <1>3 DEF Stream!Payload, StartOf
<1> QED BY <1>2, <1>3
LEMMA FollowsAt ==
    ASSUME NEW w \in Wires, NEW at \in Nat, NEW to \in Nat, Stream!Follows(w, at, to),
           NEW k \in 1..Len(w)
    PROVE  \/ w[k] = at + k /\ w[k] <= to /\ w[k] # 0
           \/ w[k] = 0 /\ k = Len(w) /\ at + k = to + 1
<1>1. Len(w) \in Nat /\ DOMAIN w = 1..Len(w)
  BY WiresAre
<1>2. k \in Nat /\ k >= 1
  BY <1>1
<1>3. at + k # 0
  BY <1>2
<1>4. \/ w[k] = at + k /\ w[k] <= to
      \/ w[k] = 0 /\ k = Len(w) /\ at + k = to + 1
  BY <1>1 DEF Stream!Follows, Stream!EndOfChunks
<1> QED BY <1>3, <1>4
(* The bytes before the last are those that are due, and so is the last one  *)
(* unless it is the end of the chunks, which ends them.                      *)
LEMMA FollowsStart ==
    ASSUME NEW w, NEW at \in Nat, NEW to \in Nat, Stream!Follows(w, at, to),
           NEW b, StartOf(b, w), NEW p, p = Stream!Payload(b)
    PROVE  /\ Due(p, at)
           /\ Stream!Whole(b) => Len(b) = Len(w) /\ at + Len(p) = to
<1>1. /\ b \in Wires /\ w \in Wires /\ Len(b) <= Len(w)
      /\ \A k \in 1..Len(b) : b[k] = w[k]
  BY DEF StartOf
<1>2. StartOf(p, b) /\ Len(p) = IF Stream!Whole(b) THEN Len(b) - 1 ELSE Len(b)
  BY <1>1, PayloadIs
<1>3. p \in Wires /\ \A k \in 1..Len(p) : p[k] = b[k]
  BY <1>2 DEF StartOf
<1>4. PICK n, m : n = Len(b) /\ m = Len(p)
  OBVIOUS
<1>5. Len(w) \in Nat /\ n \in Nat /\ n <= Len(w) /\ m \in Nat /\ (b # <<>> <=> n > 0)
  BY <1>1, <1>3, <1>4, WiresAre
<1>6. Stream!Whole(b) <=> n > 0 /\ b[n] = 0
  BY <1>4, <1>5 DEF Stream!Whole, Stream!EndOfChunks
<1>7. ASSUME NEW k \in 1..n
      PROVE  /\ k \in 1..Len(w) /\ b[k] = w[k] /\ k \in Nat
             /\ \/ b[k] = at + k /\ b[k] # 0
                \/ b[k] = 0 /\ k = Len(w) /\ at + k = to + 1
  <2>1. k \in 1..Len(w) /\ b[k] = w[k] /\ k \in Nat
    BY <1>1, <1>4, <1>5
  <2> QED BY <1>1, <2>1, FollowsAt
<1>8. CASE Stream!Whole(b)
  <2>1. n \in 1..n /\ b[n] = 0
    BY <1>5, <1>6, <1>8
  <2>2. n = Len(w) /\ at + n = to + 1
    BY <1>7, <2>1
  <2>3. m = n - 1
    BY <1>2, <1>4, <1>8
  <2>4. ASSUME NEW k \in 1..m PROVE p[k] = at + k
    <3>1. k \in 1..n /\ k # Len(w)
      BY <1>5, <2>2, <2>3
    <3>2. b[k] = at + k
      BY <1>7, <3>1
    <3> QED BY <1>3, <1>4, <3>2
  <2>5. at + m = to
    BY <1>5, <2>2, <2>3
  <2> QED BY <1>4, <2>2, <2>4, <2>5 DEF Due
<1>9. CASE ~Stream!Whole(b)
  <2>1. m = n
    BY <1>2, <1>4, <1>9
  <2>2. ASSUME NEW k \in 1..m PROVE p[k] = at + k
    <3>1. k \in 1..n
      BY <2>1
    <3>2. b[k] # 0
      <4>1. CASE k = n
        BY <1>5, <1>6, <1>9, <3>1, <4>1
      <4>2. CASE k # n
        <5>1. k # Len(w)
          BY <1>5, <3>1, <4>2
        <5> QED BY <1>7, <3>1, <5>1
      <4> QED BY <4>1, <4>2
    <3>3. b[k] = at + k
      BY <1>7, <3>1, <3>2
    <3> QED BY <1>3, <1>4, <3>3
  <2> QED BY <1>4, <1>9, <2>2 DEF Due
<1> QED BY <1>8, <1>9
LEMMA FollowsRest ==
    ASSUME NEW w, NEW at \in Nat, NEW to \in Nat, Stream!Follows(w, at, to),
           NEW n, NEW r, RestOf(r, w, n), NEW m, m = n \/ n = Len(w)
    PROVE  Stream!Follows(r, at + m, to)
<1>1. /\ r \in Wires /\ w \in Wires /\ n \in 0..Len(w) /\ Len(r) = Len(w) - n
      /\ \A k \in 1..Len(r) : r[k] = w[n + k]
  BY DEF RestOf
<1>2. Len(w) \in Nat /\ n \in Nat /\ n <= Len(w) /\ DOMAIN r = 1..Len(r)
  BY <1>1, WiresAre
<1>3. CASE n = Len(w)
  <2>1. DOMAIN r = {}
    BY <1>1, <1>2, <1>3
  <2> QED BY <2>1 DEF Stream!Follows
<1>4. CASE m = n
  <2>1. ASSUME NEW k \in 1..Len(r)
        PROVE  \/ r[k] = at + m + k /\ r[k] <= to
               \/ r[k] = 0 /\ k = Len(r) /\ at + m + k = to + 1
    <3>1. n + k \in 1..Len(w) /\ r[k] = w[n + k] /\ k \in Nat
      BY <1>1, <1>2
    <3>2. PICK i \in 1..Len(w) : i = n + k
      BY <3>1
    <3>3. \/ w[i] = at + i /\ w[i] <= to
          \/ w[i] = 0 /\ i = Len(w) /\ at + i = to + 1
      <4>1. w \in Wires
        BY <1>1
      <4> QED BY <3>2, <4>1, FollowsAt
    <3>4. r[k] = w[i] /\ at + m + k = at + i /\ (i = Len(w) => k = Len(r))
      BY <1>1, <1>2, <1>4, <3>1, <3>2
    <3> QED BY <3>3, <3>4
  <2> QED BY <1>2, <2>1 DEF Stream!Follows, Stream!EndOfChunks
<1> QED BY <1>3, <1>4
LEMMA StreamPayload ==
    ASSUME NEW w, NEW at \in Nat, NEW to \in Nat, Stream!Follows(w, at, to),
           NEW b, StartOf(b, w), NEW p, p = Stream!Payload(b), NEW r, RestOf(r, w, Len(b))
    PROVE  /\ Due(p, at) /\ Stream!Follows(r, at + Len(p), to)
           /\ Stream!Whole(b) => EndAt(p, at, to)
<1>1. Due(p, at) /\ (Stream!Whole(b) => Len(b) = Len(w) /\ at + Len(p) = to)
  BY FollowsStart
<1>2. PICK m, n : m = Len(p) /\ n = Len(b)
  OBVIOUS
<1>3. b \in Wires
  BY DEF StartOf
<1>4. m = n \/ n = Len(w)
  BY <1>1, <1>2, <1>3, PayloadIs
<1>5. Stream!Follows(r, at + m, to)
  BY <1>2, <1>4, FollowsRest
<1> QED BY <1>1, <1>2, <1>5 DEF EndAt

(* append_stream, write_at_offset *)
LEMMA StreamConsume ==
    ASSUME NEW x, StreamJob(x), NEW f \in StreamFiles, NEW b \in Wires,
           NEW y, NEW g, y = Stream!Consume(x, f, b).job, g = Stream!Consume(x, f, b).file,
           NEW p, p = Stream!Payload(b)
    PROVE  /\ StreamJob(y) /\ g \in StreamFiles /\ g.os = f.os
           /\ y.step = x.step /\ y.total = x.total /\ y.done = x.done /\ y.range = x.range
           /\ y.want = x.want /\ (y.complete <=> (x.complete \/ Stream!Whole(b)))
           /\ Stream!InPlace(f) /\ x.step = "stream" /\ x.received = Len(Stream!Given(f))
                /\ Due(p, x.received)
              => /\ Stream!InPlace(g) /\ EndAt(p, x.received, y.received)
                 /\ y.received = Len(Stream!Given(g))
           /\ Stream!InPlace(f) /\ x.step = "chunk" /\ x.range.start + x.got <= Len(Stream!Given(f))
                /\ Due(p, x.range.start + x.got)
              => /\ Stream!InPlace(g) /\ EndAt(p, x.range.start + x.got, y.range.start + y.got)
                 /\ y.range.start + y.got <= Len(Stream!Given(g))
<1>1. p \in Seq(0..Total) /\ Len(p) \in Nat /\ (Len(p) = 0 <=> p = <<>>)
  <2>1. p \in Wires
    BY PayloadIs DEF StartOf
  <2> QED BY <2>1, WiresAre DEF Wires
<1>2. /\ x \in Stream!Jobs /\ x.received \in Nat /\ x.got \in Nat /\ x.range \in Stream!Spans
      /\ x.complete \in BOOLEAN /\ x.step \in {"stream", "chunk"}
  BY DEF StreamJob, Stream!Jobs
<1>3. x.range.start \in Nat
  BY <1>2, StreamSpan DEF Ranges
<1>4. Len(Stream!Given(f)) \in Nat
  BY StreamGiven
<1>5. PICK at : at = Stream!Place(x, f)
  OBVIOUS
<1>6. at \in Nat
  BY <1>2, <1>3, <1>4, <1>5 DEF Stream!Place
<1>7. PICK w : w = Stream!Whole(b)
  OBVIOUS
<1>8. w \in BOOLEAN
  BY <1>7 DEF Stream!Whole
<1>9. PICK z : z = [x EXCEPT !.complete = @ \/ w]
  OBVIOUS
<1>10. /\ z \in Stream!Jobs /\ z.step = x.step /\ z.total = x.total /\ z.done = x.done
       /\ z.range = x.range /\ z.want = x.want /\ z.received = x.received /\ z.got = x.got
  <2>1. PICK c \in BOOLEAN : c = (x.complete \/ w)
    BY <1>2, <1>8
  <2>2. z = [x EXCEPT !.complete = c]
    BY <1>9, <2>1
  <2> QED BY <1>2, <2>2 DEF Stream!Jobs
<1>11. z.complete <=> (x.complete \/ w)
  BY <1>2, <1>9 DEF Stream!Jobs
<1>12. Stream!Place(z, f) = at
  BY <1>5, <1>10 DEF Stream!Place
<1>13. y = Stream!Counted(z, f, Len(p)) /\ g = Stream!Write(f, at, p)
  BY <1>5, <1>7, <1>9 DEF Stream!Consume
<1>14. /\ y \in Stream!Jobs /\ y.step = z.step /\ y.total = z.total /\ y.done = z.done
       /\ y.range = z.range /\ y.want = z.want /\ y.complete = z.complete
       /\ Len(p) = 0 => y.received = z.received /\ y.got = z.got
       /\ Len(p) # 0 /\ x.step = "stream" => y.received = at + Len(p)
       /\ x.step = "chunk" => y.got = z.got + Len(p)
  <2>1. CASE Len(p) = 0
    <3>1. y = z
      BY <1>13, <2>1 DEF Stream!Counted
    <3> QED BY <1>2, <1>10, <2>1, <3>1
  <2>2. CASE Len(p) # 0 /\ x.step = "chunk"
    <3>1. PICK c \in Nat : c = z.got + Len(p)
      BY <1>1, <1>2, <1>10
    <3>2. y = [z EXCEPT !.got = c]
      BY <1>10, <1>13, <2>2, <3>1 DEF Stream!Counted
    <3> QED BY <1>10, <2>2, <3>1, <3>2 DEF Stream!Jobs
  <2>3. CASE Len(p) # 0 /\ x.step = "stream"
    <3>1. PICK c \in Nat : c = at + Len(p)
      BY <1>1, <1>6
    <3>2. y = [z EXCEPT !.received = c]
      BY <1>10, <1>12, <1>13, <2>3, <3>1 DEF Stream!Counted
    <3> QED BY <1>10, <2>3, <3>1, <3>2 DEF Stream!Jobs
  <2> QED BY <1>2, <2>1, <2>2, <2>3
<1>15. StreamJob(y)
  BY <1>10, <1>14 DEF StreamJob, Stream!DoneOf
<1>16. /\ g \in StreamFiles /\ g.os = f.os
       /\ Len(Stream!Given(f)) <= Len(Stream!Given(g))
       /\ at = Len(Stream!Given(f)) => Len(Stream!Given(g)) = at + Len(p)
       /\ p # <<>> => at + Len(p) <= Len(Stream!Given(g))
       /\ /\ Stream!InPlace(f) /\ at <= Len(Stream!Given(f)) /\ Due(p, at)
          => Stream!InPlace(g)
  <2>1. g = Stream!Write(f, at, p)
    BY <1>13
  <2>2. p \in Seq(0..Total)
    BY <1>1
  <2>3. /\ g \in StreamFiles /\ g.os = f.os
        /\ Len(Stream!Given(f)) <= Len(Stream!Given(g))
    BY <1>6, <2>1, <2>2, StreamWrite
  <2>4. at = Len(Stream!Given(f)) => Len(Stream!Given(g)) = at + Len(p)
    <3> SUFFICES ASSUME at = Len(Stream!Given(f)) PROVE Len(Stream!Given(g)) = at + Len(p)
      OBVIOUS
    <3> QED BY <1>6, <2>1, <2>2, StreamWrite
  <2>5. p # <<>> => at + Len(p) <= Len(Stream!Given(g))
    BY <1>6, <2>1, <2>2, StreamWrite
  <2>6. /\ Stream!InPlace(f) /\ at <= Len(Stream!Given(f)) /\ Due(p, at)
        => Stream!InPlace(g)
    BY <1>6, <2>1, <2>2, StreamWrite DEF Due
  <2> QED BY <2>3, <2>4, <2>5, <2>6
<1>17. ASSUME Stream!InPlace(f), x.step = "stream", x.received = Len(Stream!Given(f)),
              Due(p, x.received)
       PROVE  /\ Stream!InPlace(g) /\ EndAt(p, x.received, y.received)
              /\ y.received = Len(Stream!Given(g))
  <2>1. at = x.received
    BY <1>5, <1>17 DEF Stream!Place
  <2>2. Stream!InPlace(g) /\ Len(Stream!Given(g)) = at + Len(p)
    BY <1>4, <1>16, <1>17, <2>1
  <2>3. y.received = x.received + Len(p)
    BY <1>2, <1>10, <1>14, <1>17, <2>1
  <2> QED BY <2>1, <2>2, <2>3 DEF EndAt
<1>18. ASSUME Stream!InPlace(f), x.step = "chunk", x.range.start + x.got <= Len(Stream!Given(f)),
              Due(p, x.range.start + x.got)
       PROVE  /\ Stream!InPlace(g) /\ EndAt(p, x.range.start + x.got, y.range.start + y.got)
              /\ y.range.start + y.got <= Len(Stream!Given(g))
  <2>1. at = x.range.start + x.got
    BY <1>5, <1>18 DEF Stream!Place
  <2>2. Stream!InPlace(g)
    BY <1>16, <1>18, <2>1
  <2>3. y.got = x.got + Len(p) /\ y.range = x.range
    BY <1>10, <1>14, <1>18
  <2>4. at + Len(p) <= Len(Stream!Given(g))
    <3>1. Len(Stream!Given(g)) \in Nat
      BY <1>16, StreamGiven
    <3> QED BY <1>1, <1>4, <1>6, <1>16, <1>18, <2>1, <3>1
  <2>5. y.range.start + y.got = x.range.start + x.got + Len(p)
    BY <1>1, <1>2, <1>3, <2>3
  <2> QED BY <2>1, <2>2, <2>4, <2>5 DEF EndAt
<1>19. y.complete <=> (x.complete \/ Stream!Whole(b))
  BY <1>7, <1>11, <1>14
<1> QED BY <1>10, <1>14, <1>15, <1>16, <1>17, <1>18, <1>19

LEMMA PartIs ==
    ASSUME NEW x, StreamJob(x), ~Stream!Rejected(x), NEW r, r = Stream!Part(x)
    PROVE  /\ r.start \in Nat /\ r.end \in Nat /\ r.start <= r.end /\ r.end < Total
           /\ x.step = "stream" => r.start = x.received /\ r.end = Total - 1
           /\ x.step = "chunk" /\ ~Stream!Unusable(x) => r = x.range
<1>1. /\ x.step \in {"stream", "chunk"} /\ x.received \in Nat /\ x.range \in Stream!Spans
  BY DEF StreamJob, Stream!Jobs
<1>2. x.range \in Ranges /\ x.range.start <= x.range.end /\ x.range.end < Total
  BY <1>1, StreamSpan
<1>3. Total \in Nat /\ Total > 0
  BY StreamConstants
<1>4. x.range.start \in Nat /\ x.range.end \in Nat
  BY <1>2 DEF Ranges
<1>5. CASE v1.ranges # "yes"
  <2>1. r = [start |-> 0, end |-> Total - 1]
    BY <1>5 DEF Stream!Part
  <2>2. x.step = "stream" => x.received = 0
    BY <1>1, <1>5 DEF Stream!Rejected, Stream!Partial
  <2>3. x.step = "chunk" => Stream!Unusable(x)
    BY <1>5 DEF Stream!Unusable, Stream!Partial
  <2>4. r.start = 0 /\ r.end = Total - 1
    BY <2>1
  <2> QED BY <1>3, <2>2, <2>3, <2>4
<1>6. CASE v1.ranges = "yes" /\ x.step = "chunk"
  <2>1. r = x.range
    BY <1>6 DEF Stream!Part
  <2> QED BY <1>2, <1>4, <1>6, <2>1
<1>7. CASE v1.ranges = "yes" /\ x.step = "stream"
  <2>1. r = [start |-> x.received, end |-> Total - 1]
    BY <1>7 DEF Stream!Part
  <2>2. x.received < Total
    <3>1. ~(x.received > 0 /\ x.received >= Total)
      BY <1>7 DEF Stream!Rejected
    <3> QED BY <1>1, <1>3, <3>1
  <2>3. r.start = x.received /\ r.end = Total - 1
    BY <2>1
  <2> QED BY <1>1, <1>3, <1>7, <2>2, <2>3
<1> QED BY <1>1, <1>5, <1>6, <1>7

(* What the server sends. *)
LEMMA BodyIs ==
    ASSUME NEW x, StreamJob(x), ~Stream!Rejected(x), NEW b, b = Stream!Body(x),
           NEW r, r = Stream!Part(x)
    PROVE  /\ b \in Wires /\ b # <<>> /\ b[1] = r.start + 1 /\ b[1] # Stream!EndOfChunks
           /\ Stream!Follows(b, r.start, r.end + 1) /\ r.end + 1 \in 0..Total
<1>1. r.start \in Nat /\ r.end \in Nat /\ r.start <= r.end /\ r.end < Total
  BY PartIs
<1>2. Total \in Nat
  BY StreamConstants
<1>3. PICK m, S : m = r.end - r.start + 1 /\ S = 0..Total
  OBVIOUS
<1>4. m \in Nat /\ m >= 1 /\ r.start + m = r.end + 1
  BY <1>1, <1>3
<1>5. PICK a : a = [i \in 1..m |-> r.start + i]
  OBVIOUS
<1>6. a \in [1..m -> S] /\ \A i \in 1..m : a[i] = r.start + i
  <2>1. ASSUME NEW i \in 1..m PROVE r.start + i \in S
    BY <1>1, <1>2, <1>3, <1>4
  <2> QED BY <1>5, <2>1
<1>7. a \in Seq(S) /\ Len(a) = m
  BY <1>4, <1>6, FunctionIsSequence
<1>8. PICK c : c = IF v1.framing = "chunked" THEN <<Stream!EndOfChunks>> ELSE <<>>
  OBVIOUS
<1>9. c \in Seq(S) /\ Len(c) \in {0, 1} /\ (Len(c) = 1 => c[1] = 0)
  <2>1. 0 \in S
    BY <1>2, <1>3
  <2>2. CASE v1.framing = "chunked"
    BY <1>8, <2>1, <2>2 DEF Stream!EndOfChunks
  <2>3. CASE v1.framing # "chunked"
    BY <1>8, <2>3, EmptySeq
  <2> QED BY <2>2, <2>3
<1>10. b = a \o c
  BY <1>3, <1>5, <1>8 DEF Stream!Body
<1>11. /\ b \in Seq(S) /\ Len(b) = m + Len(c)
       /\ \A i \in 1..Len(b) : b[i] = IF i <= m THEN a[i] ELSE c[i - m]
  BY <1>7, <1>9, <1>10, ConcatProperties
<1>12. b \in Wires
  BY <1>3, <1>11 DEF Wires
<1>13. Len(b) \in Nat /\ DOMAIN b = 1..Len(b) /\ b # <<>>
  BY <1>4, <1>9, <1>11, <1>12, WiresAre
<1>14. b[1] = r.start + 1
  BY <1>4, <1>6, <1>9, <1>11
<1>15. ASSUME NEW k \in 1..Len(b)
       PROVE  \/ b[k] = r.start + k /\ b[k] <= r.end + 1
              \/ b[k] = 0 /\ k = Len(b) /\ r.start + k = r.end + 1 + 1
  <2>1. CASE k <= m
    <3>1. b[k] = r.start + k
      BY <1>4, <1>6, <1>11, <1>13, <2>1
    <3>2. k \in Nat /\ r.start + k <= r.end + 1
      BY <1>1, <1>4, <1>13, <2>1
    <3> QED BY <3>1, <3>2
  <2>2. CASE ~(k <= m)
    <3>1. Len(c) = 1 /\ k = m + 1
      BY <1>4, <1>9, <1>11, <1>13, <2>2
    <3>2. b[k] = c[k - m] /\ k - m = 1
      BY <1>4, <1>11, <2>2, <3>1
    <3>3. b[k] = 0
      BY <1>9, <3>1, <3>2
    <3>4. k = Len(b) /\ r.start + k = r.end + 1 + 1
      BY <1>1, <1>4, <1>11, <3>1
    <3> QED BY <3>3, <3>4
  <2> QED BY <2>1, <2>2
<1>16. Stream!Follows(b, r.start, r.end + 1)
  BY <1>13, <1>15 DEF Stream!Follows, Stream!EndOfChunks
<1>17. b[1] # Stream!EndOfChunks /\ r.end + 1 \in 0..Total
  BY <1>1, <1>2, <1>14 DEF Stream!EndOfChunks
<1> QED BY <1>12, <1>13, <1>14, <1>16, <1>17

(* What the headers tell. *)
LEMMA ToldFields ==
    ASSUME NEW x \in Stream!Jobs, NEW keep \in BOOLEAN, NEW use \in BOOLEAN, NEW chunked \in BOOLEAN
    PROVE  [x EXCEPT !.headers = TRUE, !.keep = keep, !.useRanges = use,
                     !.chunked = chunked, !.complete = FALSE] \in Stream!Jobs
BY DEF Stream!Jobs
LEMMA ToldIs ==
    ASSUME Stream!IInv, NEW x, StreamJob(x), ~Stream!Rejected(x), NEW w, w = Stream!Told(x)
    PROVE  /\ StreamJob(w) /\ w.step = x.step /\ w.done = x.done /\ w.received = x.received
           /\ w.range = x.range /\ w.got = x.got /\ w.complete = FALSE
           /\ x.total = Total => w.total = Total
           /\ x.step = "chunk" /\ ~Stream!Unusable(x) => w.want = w.range.end - w.range.start + 1
<1>1. v1 \in Stream!Servers
  BY StreamIs
<1>2. /\ x \in Stream!Jobs /\ x.step \in {"stream", "chunk"} /\ x.received \in Nat
      /\ x.range \in Stream!Spans /\ x.total \in {0, Total} /\ x.expected \in Nat
      /\ x.keep \in BOOLEAN /\ x.useRanges \in BOOLEAN /\ x.disabled \in BOOLEAN /\ x.chunked \in BOOLEAN
  BY DEF StreamJob, Stream!Jobs
<1>3. Total \in Nat /\ Total > 0
  BY StreamConstants
<1>4. PICK r, len : r = Stream!Part(x) /\ len = Stream!Part(x).end - Stream!Part(x).start + 1
  OBVIOUS
<1>5. /\ r.start \in Nat /\ r.end \in Nat /\ r.start <= r.end /\ r.end < Total
      /\ x.step = "stream" => r.start = x.received /\ r.end = Total - 1
      /\ x.step = "chunk" /\ ~Stream!Unusable(x) => r = x.range
  BY <1>4, PartIs
<1>6. len \in Nat /\ (x.step = "stream" => x.received + len = Total)
  BY <1>2, <1>3, <1>4, <1>5
<1>7. PICK span : span = x.range.end - x.range.start + 1
  OBVIOUS
<1>8. span \in Nat
  <2>1. x.range \in Ranges /\ x.range.start <= x.range.end
    BY <1>2, StreamSpan
  <2> QED BY <1>7, <2>1 DEF Ranges
<1>9. PICK keep \in BOOLEAN : keep = (x.keep /\ v1.keeps)
  BY <1>1, <1>2 DEF Stream!Servers
<1>10. PICK use \in BOOLEAN : use = IF x.disabled THEN x.useRanges ELSE v1.ranges # "refused"
  BY <1>2
<1>11. PICK chunked \in BOOLEAN : chunked = IF x.step = "stream" THEN v1.framing = "chunked" ELSE x.chunked
  BY <1>2
<1>12. PICK t \in {0, Total} :
          t = IF x.total = 0 /\ Stream!Partial /\ x.received > 0 THEN Total ELSE x.total
  BY <1>2
<1>130. PICK y : y = [x EXCEPT !.headers = TRUE, !.keep = keep, !.useRanges = use,
                              !.chunked = chunked, !.complete = FALSE]
  OBVIOUS
<1>13. PICK z : z = [y EXCEPT !.total = t]
  OBVIOUS
<1>14. /\ y \in Stream!Jobs /\ y.step = x.step /\ y.done = x.done /\ y.received = x.received
       /\ y.range = x.range /\ y.got = x.got /\ y.complete = FALSE /\ y.total = x.total
       /\ y.expected = x.expected
  <2>1. y \in Stream!Jobs
    BY <1>2, <1>130, ToldFields
  <2>2. /\ y.step = x.step /\ y.done = x.done /\ y.received = x.received
        /\ y.range = x.range /\ y.got = x.got /\ y.complete = FALSE /\ y.total = x.total
        /\ y.expected = x.expected
    BY <1>2, <1>130 DEF Stream!Jobs
  <2> QED BY <2>1, <2>2
<1>15. /\ z \in Stream!Jobs /\ z.step = x.step /\ z.done = x.done /\ z.received = x.received
       /\ z.range = x.range /\ z.got = x.got /\ z.complete = FALSE /\ z.total = t
       /\ z.expected = x.expected
  BY <1>13, <1>14 DEF Stream!Jobs
<1>16. z = [y EXCEPT !.total = IF @ = 0 /\ Stream!Partial /\ x.received > 0 THEN Total ELSE @]
  BY <1>12, <1>13, <1>14
<1>17. y = [x EXCEPT
                !.headers = TRUE,
                !.keep = @ /\ v1.keeps,
                !.useRanges = IF x.disabled THEN @ ELSE v1.ranges # "refused",
                !.chunked = IF x.step = "stream" THEN v1.framing = "chunked" ELSE @,
                !.complete = FALSE]
  BY <1>9, <1>10, <1>11, <1>130
<1>18. w = IF v1.framing # "length" THEN [z EXCEPT !.want = x.range.end - x.range.start + 1]
           ELSE IF x.step = "chunk" THEN [z EXCEPT !.want = len]
           ELSE IF x.expected # 0 THEN z
           ELSE [z EXCEPT !.expected = x.received + len,
                          !.total = IF @ = 0 THEN x.received + len ELSE @]
  BY <1>4, <1>16, <1>17 DEF Stream!Told
<1>19. /\ w \in Stream!Jobs /\ w.step = x.step /\ w.done = x.done /\ w.received = x.received
       /\ w.range = x.range /\ w.got = x.got /\ w.complete = FALSE
       /\ w.total \in {0, Total} /\ (t = Total => w.total = Total)
       /\ x.step = "chunk" => w.want = (IF v1.framing # "length" THEN span ELSE len)
  <2>1. CASE v1.framing # "length"
    <3>1. w = [z EXCEPT !.want = span]
      BY <1>7, <1>18, <2>1
    <3> QED BY <1>8, <1>12, <1>15, <2>1, <3>1 DEF Stream!Jobs
  <2>2. CASE v1.framing = "length" /\ x.step = "chunk"
    <3>1. w = [z EXCEPT !.want = len]
      BY <1>18, <2>2
    <3> QED BY <1>6, <1>12, <1>15, <2>2, <3>1 DEF Stream!Jobs
  <2>3. CASE v1.framing = "length" /\ x.step # "chunk" /\ x.expected # 0
    <3>1. w = z
      BY <1>18, <2>3
    <3> QED BY <1>12, <1>15, <2>3, <3>1
  <2>4. CASE v1.framing = "length" /\ x.step # "chunk" /\ x.expected = 0
    <3>1. x.received + len = Total
      BY <1>2, <1>6, <2>4
    <3>2. PICK u : u = IF t = 0 THEN Total ELSE t
      OBVIOUS
    <3>3. w = [z EXCEPT !.expected = Total, !.total = u]
      BY <1>15, <1>18, <2>4, <3>1, <3>2
    <3>4. u = Total
      BY <1>12, <3>2
    <3> QED BY <1>3, <1>15, <2>4, <3>3, <3>4 DEF Stream!Jobs
  <2> QED BY <2>1, <2>2, <2>3, <2>4
<1>20. x.total = Total => t = Total
  BY <1>3, <1>12
<1>21. Stream!DoneOf(w)
  <2>1. x.done \in Seq(Stream!Spans) /\ Stream!Canonical(x.done) /\ (x.total = 0 => x.done = <<>>)
    BY DEF StreamJob, Stream!DoneOf
  <2>2. w.total = 0 => x.total = 0
    BY <1>2, <1>3, <1>19, <1>20
  <2> QED BY <1>19, <2>1, <2>2 DEF Stream!DoneOf
<1>22. x.step = "chunk" => x.total = Total
  BY DEF StreamJob
<1>23. StreamJob(w)
  BY <1>19, <1>20, <1>21, <1>22 DEF StreamJob
<1>24. x.step = "chunk" /\ ~Stream!Unusable(x) => len = span
  BY <1>4, <1>5, <1>7
<1>25. x.step = "chunk" /\ ~Stream!Unusable(x) => w.want = w.range.end - w.range.start + 1
  BY <1>7, <1>19, <1>24
<1> QED BY <1>19, <1>20, <1>23, <1>25

(* Where the next byte of a job goes. *)
NextByte(x) == IF x.step = "stream" THEN x.received ELSE x.range.start + x.got
(* Bytes that come where they are due leave a job in its place. *)
LEMMA StreamTakes ==
    ASSUME NEW x, StreamJob(x), NEW m, NEW f \in StreamFiles, Stream!InPlace(f), JobPlace(x, m, f),
           NEW u, StreamJob(u), u.step = x.step, u.done = x.done, u.received = x.received,
           u.range = x.range, u.got = x.got,
           u.step = "chunk" /\ u.headers /\ u.streaming => u.want = u.range.end - u.range.start + 1,
           NEW w, NEW to \in 0..Total, Stream!Follows(w, NextByte(x), to),
           u.step = "stream" /\ u.total = 0 => to = Total,
           u.step = "stream" /\ u.complete /\ u.total = 0 => u.received = Total,
           NEW b, StartOf(b, w), NEW r, RestOf(r, w, Len(b)),
           NEW y, NEW g, y = Stream!Consume(u, f, b).job, g = Stream!Consume(u, f, b).file,
           y.headers = u.headers, y.streaming = u.streaming,
           NEW n, n.at = "draining" \/ (n.at = "body" /\ n.left = "nothing" /\ n.wire = r
                                                /\ (x.step = "stream" => to = Total))
    PROVE  Stream!InPlace(g) /\ JobPlace(y, n, g)
<1>1. b \in Wires
  BY DEF StartOf
<1>2. PICK p : p = Stream!Payload(b)
  OBVIOUS
<1>3. p \in Wires
  BY <1>1, <1>2, PayloadIs DEF StartOf
<1>4. PICK l, at : l = Len(p) /\ at = NextByte(x)
  OBVIOUS
<1>5. l \in Nat
  BY <1>3, <1>4, WiresAre
<1>6. x.step \in {"stream", "chunk"} /\ x.received \in Nat /\ x.got \in Nat /\ x.range \in Stream!Spans
  BY DEF StreamJob, Stream!Jobs
<1>7. x.range.start \in Nat
  BY <1>6, StreamSpan DEF Ranges
<1>8. at \in Nat /\ to \in Nat
  BY <1>4, <1>6, <1>7, StreamConstants DEF NextByte
<1>9. Stream!Follows(w, at, to)
  BY <1>4
<1>10. Due(p, at) /\ Stream!Follows(r, at + Len(p), to) /\ (Stream!Whole(b) => at + Len(p) = to)
  <2>1. Due(p, at)
    BY <1>2, <1>8, <1>9, StreamPayload
  <2>2. Stream!Follows(r, at + Len(p), to)
    BY <1>2, <1>8, <1>9, StreamPayload
  <2>3. Stream!Whole(b) => EndAt(p, at, to)
    BY <1>2, <1>8, <1>9, StreamPayload
  <2> QED BY <2>1, <2>2, <2>3 DEF EndAt
<1>11. /\ StreamJob(y) /\ g \in StreamFiles /\ g.os = f.os
       /\ y.step = u.step /\ y.total = u.total /\ y.done = u.done /\ y.range = u.range
       /\ y.want = u.want /\ (y.complete <=> (u.complete \/ Stream!Whole(b)))
  BY <1>1, <1>2, StreamConsume
<1>12. Stream!OnDisk(y.done, g)
  BY <1>11 DEF JobPlace, Stream!OnDisk
<1>13. CASE x.step = "stream"
  <2>1. u.received = Len(Stream!Given(f)) /\ at = u.received
    BY <1>4, <1>13 DEF JobPlace, NextByte
  <2>2. Stream!InPlace(g) /\ y.received = u.received + Len(p) /\ y.received = Len(Stream!Given(g))
    <3>1. Stream!InPlace(f) /\ u.step = "stream" /\ u.received = Len(Stream!Given(f)) /\ Due(p, u.received)
      BY <1>10, <1>13, <2>1
    <3>2. Stream!InPlace(g)
      BY <1>1, <1>2, <3>1, StreamConsume
    <3>3. EndAt(p, u.received, y.received)
      BY <1>1, <1>2, <3>1, StreamConsume
    <3>4. y.received = Len(Stream!Given(g))
      BY <1>1, <1>2, <3>1, StreamConsume
    <3> QED BY <3>2, <3>3, <3>4 DEF EndAt
  <2>3. y.complete /\ y.total = 0 => y.received = Total
    <3> SUFFICES ASSUME y.complete, y.total = 0 PROVE y.received = Total
      OBVIOUS
    <3>1. to = Total
      BY <1>11, <1>13
    <3>2. CASE Stream!Whole(b)
      BY <1>10, <2>1, <2>2, <3>1, <3>2
    <3>3. CASE ~Stream!Whole(b)
      <4>1. u.received = Total
        BY <1>11, <1>13, <3>3
      <4>2. Len(Stream!Given(g)) <= Total
        BY <1>11, <2>2, StreamGiven
      <4> QED BY <1>4, <1>5, <2>2, <4>1, <4>2, StreamConstants
    <3> QED BY <3>2, <3>3
  <2>4. n.at = "body" => Stream!Follows(n.wire, y.received, Total)
    BY <1>10, <1>13, <2>1, <2>2
  <2> QED BY <1>11, <1>12, <1>13, <2>2, <2>3, <2>4 DEF JobPlace
<1>14. CASE x.step = "chunk"
  <2>1. u.range.start + u.got <= Len(Stream!Given(f)) /\ at = u.range.start + u.got
    BY <1>4, <1>14 DEF JobPlace, NextByte
  <2>2. /\ Stream!InPlace(g) /\ y.range.start + y.got = at + Len(p)
        /\ y.range.start + y.got <= Len(Stream!Given(g))
    <3>1. /\ Stream!InPlace(f) /\ u.step = "chunk" /\ u.range.start + u.got <= Len(Stream!Given(f))
          /\ Due(p, u.range.start + u.got)
      BY <1>10, <1>14, <2>1
    <3>2. Stream!InPlace(g)
      BY <1>1, <1>2, <3>1, StreamConsume
    <3>3. EndAt(p, u.range.start + u.got, y.range.start + y.got)
      BY <1>1, <1>2, <3>1, StreamConsume
    <3>4. y.range.start + y.got <= Len(Stream!Given(g))
      BY <1>1, <1>2, <3>1, StreamConsume
    <3> QED BY <2>1, <3>2, <3>3, <3>4 DEF EndAt
  <2>3. n.at = "body" => \E e \in 0..Total : Stream!Follows(n.wire, y.range.start + y.got, e)
    BY <1>10, <1>14, <2>2
  <2>4. y.headers /\ y.streaming => y.want = y.range.end - y.range.start + 1
    BY <1>11, <1>14
  <2> QED BY <1>11, <1>12, <1>14, <2>2, <2>3, <2>4 DEF JobPlace
<1> QED BY <1>6, <1>13, <1>14

(* handle_response_headers *)
LEMMA StreamHeaders ==
    ASSUME Stream!IInv, Stream!Running, v1' = v1, v2' = v2,
           NEW body \in Wires, NEW n \in 0..Len(body), NEW open \in BOOLEAN,
           Stream!Headers(v4, body, n, open), v10' = v10, v11' = v11,
           NEW q \in BOOLEAN, v12' = q, ~q => ~v12,
           Stream!Unusable(v4) =>
               /\ v12' = v12
               /\ ~v12 => /\ body # <<>> /\ body[1] # Stream!EndOfChunks
                          /\ \E to \in 0..Total : Stream!Follows(body, body[1] - 1, to),
           ~q /\ ~Stream!Rejected(v4) /\ ~Stream!Unusable(v4) =>
               \E to \in 0..Total :
                   /\ Stream!Follows(body, NextByte(v4), to)
                   /\ v4.step = "stream" => to = Total \/ (v4.total = Total /\ ~open)
    PROVE  Stream!IInv' /\ Stream!RightBytesStay
<1>1. PICK x, m, f : x = v4 /\ m = v5 /\ f = v6
  OBVIOUS
<1>2. /\ StreamJob(x) /\ m \in Stream!Nets /\ f \in StreamFiles /\ v3 = "running"
      /\ v10 \in 0..MaxFaults /\ v11 \in 0..MaxRuns
      /\ ~v12 => /\ Stream!InPlace(f) /\ JobPlace(x, m, f) /\ Stream!OnDisk(x.done, f)
  BY <1>1, StreamRunning
<1>3. CASE Stream!Rejected(x) /\ Stream!ResumeUnsupported(x)
  <2>1. Stream!Publish(v4, "stopped") /\ v6' = Stream!Flushed(v6) /\ v9' = v9 /\ v13' = v13
    BY <1>1, <1>3 DEF Stream!ResumeUnsupported
  <2>2. PICK t \in StreamStatuses \ {"completed"} : t = "stopped"
    BY DEF StreamStatuses
  <2> QED BY <1>1, <1>2, <2>1, <2>2, StreamGivesUp
<1>4. CASE Stream!Unusable(x) /\ Stream!FallBack(x, Stream!Holding("answer", body))
  <2>1. PICK held : held = Stream!Holding("answer", body)
    OBVIOUS
  <2>2. held \in Stream!Nets /\ held.at = "draining" /\ held.left = "answer" /\ held.wire = body
    BY <2>1, NetsOf DEF Wires
  <2>3. v4.step = "chunk" /\ v12' = v12
    BY <1>1, <1>4 DEF Stream!Unusable
  <2>4. Stream!FallBack(v4, held)
    BY <1>1, <1>4, <2>1
  <2>5. ~v12 => /\ held.wire # <<>> /\ held.wire[1] # Stream!EndOfChunks
                /\ \E to \in 0..Total : Stream!Follows(held.wire, held.wire[1] - 1, to)
    BY <1>1, <1>4, <2>2
  <2>6. v10' \in 0..MaxFaults
    BY <1>2
  <2> QED BY <2>2, <2>3, <2>4, <2>5, <2>6, StreamFallBack
<1>5. PICK y : y = Stream!Told(x)
  OBVIOUS
<1>6. PICK switch : switch = (x.step = "stream" /\ Stream!CanSegment(y))
  OBVIOUS
<1>7. PICK b, r : b = SubSeq(body, 1, n) /\ r = SubSeq(body, n + 1, Len(body))
  OBVIOUS
<1>8. StartOf(b, body) /\ Len(b) = n /\ RestOf(r, body, n)
  BY <1>7, WireParts
<1>9. PICK u : u = [y EXCEPT !.streaming = open]
  OBVIOUS
<1>10. PICK z, g : z = Stream!Consume(u, f, b).job /\ g = Stream!Consume(u, f, b).file
  OBVIOUS
<1>11. PICK t \in StreamRuns : t = "running"
  BY DEF StreamRuns
<1>12. CASE ~Stream!Rejected(x) /\ switch /\ v4' = [y EXCEPT !.segments = TRUE, !.deferred = TRUE]
            /\ v5' = Stream!Closing("seen") /\ v3' = v3 /\ v6' = v6 /\ v7' = v7 /\ v8' = v8
            /\ v9' = v9 /\ v13' = v13
  <2>1. /\ StreamJob(y) /\ y.step = x.step /\ y.done = x.done /\ y.received = x.received
        /\ y.complete = FALSE
    BY <1>2, <1>5, <1>12, ToldIs
  <2>2. PICK c : c = [y EXCEPT !.segments = TRUE, !.deferred = TRUE]
    OBVIOUS
  <2>3. /\ c \in Stream!Jobs /\ c.step = y.step /\ c.done = y.done /\ c.received = y.received
        /\ c.complete = FALSE /\ c.total = y.total
    BY <2>1, <2>2 DEF StreamJob, Stream!Jobs
  <2>4. StreamJob(c)
    BY <2>1, <2>3 DEF StreamJob, Stream!DoneOf
  <2>5. PICK k \in Stream!Nets : k = Stream!Closing("seen") /\ k.at = "draining" /\ k.left = "seen"
    BY NetsOf
  <2>6. ~q => JobPlace(c, k, f)
    BY <1>2, <1>6, <1>12, <2>1, <2>3, <2>5 DEF JobPlace
  <2>7. Len(f.os) <= Len(f.os)
    BY <1>2, FileFields
  <2> QED BY <1>1, <1>2, <1>11, <1>12, <2>2, <2>4, <2>5, <2>6, <2>7, StreamKept
<1>13. CASE ~Stream!Rejected(x) /\ ~Stream!Unusable(x) /\ ~switch /\ v4' = z /\ v6' = g
            /\ v5' = (IF open THEN [at |-> "body", wire |-> r, left |-> "nothing"]
                      ELSE Stream!Closing("seen"))
            /\ Stream!Upsert(z, "downloading") /\ v3' = v3 /\ v9' = v9 /\ v13' = v13
  <2>1. /\ StreamJob(y) /\ y.step = x.step /\ y.done = x.done /\ y.received = x.received
        /\ y.range = x.range /\ y.got = x.got /\ y.complete = FALSE
        /\ x.total = Total => y.total = Total
        /\ x.step = "chunk" => y.want = y.range.end - y.range.start + 1
    BY <1>2, <1>5, <1>13, ToldIs
  <2>2. /\ u \in Stream!Jobs /\ u.step = y.step /\ u.done = y.done /\ u.received = y.received
        /\ u.range = y.range /\ u.got = y.got /\ u.complete = y.complete /\ u.total = y.total
        /\ u.want = y.want
    BY <1>9, <2>1 DEF StreamJob, Stream!Jobs
  <2>3. StreamJob(u)
    BY <2>1, <2>2 DEF StreamJob, Stream!DoneOf
  <2>4. b \in Wires /\ r \in Wires
    BY <1>8 DEF StartOf, RestOf
  <2>5. StreamJob(z) /\ g \in StreamFiles /\ g.os = f.os
    BY <1>2, <1>10, <2>3, <2>4, StreamConsume
  <2>6. z.headers = u.headers /\ z.streaming = u.streaming
    BY <1>10, <2>2, <2>3 DEF Stream!Jobs, Stream!Consume, Stream!Counted
  <2>7. PICK k \in Stream!Nets : /\ k = v5' /\ k.left # "answer"
                                 /\ \/ k.at = "draining"
                                    \/ k.at = "body" /\ k.left = "nothing" /\ k.wire = r /\ open
    <3>1. CASE open
      <4>1. PICK k : k = [at |-> "body", wire |-> r, left |-> "nothing"]
        OBVIOUS
      <4>2. k.at = "body" /\ k.wire = r /\ k.left = "nothing"
        BY <4>1
      <4>3. k \in Stream!Nets
        BY <2>4, <4>1 DEF Stream!Nets, Wires
      <4> QED BY <1>13, <3>1, <4>1, <4>2, <4>3
    <3>2. CASE ~open
      BY <1>13, <3>2, NetsOf
    <3> QED BY <3>1, <3>2
  <2>8. ~q => Stream!InPlace(g) /\ JobPlace(z, k, g)
    <3> SUFFICES ASSUME ~q PROVE Stream!InPlace(g) /\ JobPlace(z, k, g)
      OBVIOUS
    <3>1. PICK to \in 0..Total : /\ Stream!Follows(body, NextByte(x), to)
                                 /\ x.step = "stream" => to = Total \/ (x.total = Total /\ ~open)
      BY <1>1, <1>13
    <3>2. Stream!InPlace(f) /\ JobPlace(x, m, f)
      BY <1>2
    <3>3. u.step = "chunk" /\ u.headers /\ u.streaming => u.want = u.range.end - u.range.start + 1
      BY <2>1, <2>2
    <3>4. u.step = "stream" /\ u.total = 0 => to = Total
      BY <2>1, <2>2, <3>1, StreamConstants
    <3>5. u.step = "stream" /\ u.complete /\ u.total = 0 => u.received = Total
      BY <2>1, <2>2
    <3>6. \/ k.at = "draining"
          \/ k.at = "body" /\ k.left = "nothing" /\ k.wire = r /\ (x.step = "stream" => to = Total)
      BY <2>7, <3>1
    <3>7. RestOf(r, body, Len(b))
      BY <1>8
    <3>8. u.step = x.step /\ u.done = x.done /\ u.received = x.received /\ u.range = x.range /\ u.got = x.got
      BY <2>1, <2>2
    <3> QED BY <1>2, <1>8, <1>10, <2>3, <2>6, <3>1, <3>2, <3>3, <3>4, <3>5, <3>6, <3>7, <3>8, StreamTakes
  <2>9. Len(f.os) <= Len(g.os)
    BY <1>2, <2>5, FileFields
  <2>10. v7' = Stream!Stored(z) /\ v8' \in {v8, "downloading"}
    BY <1>13 DEF Stream!Upsert
  <2>11. v10' \in 0..MaxFaults /\ v11' \in 0..MaxRuns
    BY <1>2
  <2> QED BY <1>1, <1>2, <1>13, <2>5, <2>7, <2>8, <2>9, <2>10, <2>11, StreamUpserted
<1>14. \/ Stream!Rejected(x) /\ Stream!ResumeUnsupported(x)
       \/ Stream!Unusable(x) /\ Stream!FallBack(x, Stream!Holding("answer", body))
       \/ /\ ~Stream!Rejected(x) /\ switch /\ v4' = [y EXCEPT !.segments = TRUE, !.deferred = TRUE]
          /\ v5' = Stream!Closing("seen") /\ v3' = v3 /\ v6' = v6 /\ v7' = v7 /\ v8' = v8
          /\ v9' = v9 /\ v13' = v13
       \/ /\ ~Stream!Rejected(x) /\ ~Stream!Unusable(x) /\ ~switch /\ v4' = z /\ v6' = g
          /\ v5' = (IF open THEN [at |-> "body", wire |-> r, left |-> "nothing"]
                    ELSE Stream!Closing("seen"))
          /\ Stream!Upsert(z, "downloading") /\ v3' = v3 /\ v9' = v9 /\ v13' = v13
  BY <1>1, <1>5, <1>6, <1>7, <1>9, <1>10 DEF Stream!Headers
<1> QED BY <1>3, <1>4, <1>12, <1>13, <1>14

LEMMA StreamAnswerInv ==
    ASSUME Stream!IInv, Stream!Answer PROVE Stream!IInv' /\ Stream!RightBytesStay
<1>1. PICK n \in {0, 1} : Stream!Headers(v4, Stream!Body(v4), n, TRUE)
  BY DEF Stream!Answer
<1>2. /\ Stream!Running /\ v5.at = "asked" /\ v1' = v1 /\ v2' = v2 /\ v10' = v10 /\ v11' = v11
      /\ v12' = v12
  BY DEF Stream!Answer, Stream!world
<1>3. PICK x, m, f, q, b, r : /\ x = v4 /\ m = v5 /\ f = v6 /\ q = v12
                              /\ b = Stream!Body(v4) /\ r = Stream!Part(v4)
  OBVIOUS
<1>4. /\ StreamJob(x) /\ m \in Stream!Nets /\ f \in StreamFiles /\ q \in BOOLEAN
      /\ v10 \in 0..MaxFaults
      /\ ~q => JobPlace(x, m, f)
  BY <1>2, <1>3, StreamRunning
<1>5. CASE Stream!Rejected(x)
  <2>1. Stream!ResumeUnsupported(x)
    BY <1>1, <1>3, <1>5 DEF Stream!Headers, Stream!Unusable, Stream!Rejected
  <2>2. Stream!Publish(v4, "stopped") /\ v6' = Stream!Flushed(v6) /\ v9' = v9 /\ v13' = v13
    BY <1>3, <2>1 DEF Stream!ResumeUnsupported
  <2>3. PICK t \in StreamStatuses \ {"completed"} : t = "stopped"
    BY DEF StreamStatuses
  <2> QED BY <1>2, <1>3, <1>4, <2>2, <2>3, StreamGivesUp
<1>6. CASE ~Stream!Rejected(x)
  <2>1. /\ b \in Wires /\ b # <<>> /\ b[1] = r.start + 1 /\ b[1] # Stream!EndOfChunks
        /\ Stream!Follows(b, r.start, r.end + 1) /\ r.end + 1 \in 0..Total
    BY <1>3, <1>4, <1>6, BodyIs
  <2>2. /\ r.start \in Nat /\ r.end \in Nat
        /\ x.step = "stream" => r.start = x.received /\ r.end = Total - 1
        /\ x.step = "chunk" /\ ~Stream!Unusable(x) => r = x.range
    BY <1>3, <1>4, <1>6, PartIs
  <2>3. n \in 0..Len(b)
    BY <2>1, WiresAre
  <2>4. b[1] - 1 = r.start
    BY <2>1, <2>2
  <2>5. \E to \in 0..Total : Stream!Follows(b, b[1] - 1, to)
    BY <2>1, <2>4
  <2>6. ~q /\ ~Stream!Unusable(x) =>
               \E to \in 0..Total :
                   /\ Stream!Follows(b, NextByte(x), to)
                   /\ x.step = "stream" => to = Total
    <3> SUFFICES ASSUME ~q, ~Stream!Unusable(x)
                 PROVE  /\ Stream!Follows(b, NextByte(x), r.end + 1)
                        /\ x.step = "stream" => r.end + 1 = Total
      BY <2>1
    <3>1. x.got = 0 /\ x.step \in {"stream", "chunk"}
      BY <1>2, <1>3, <1>4 DEF JobPlace, StreamJob, Stream!Jobs
    <3>2. NextByte(x) = r.start
      BY <2>2, <3>1 DEF NextByte
    <3> QED BY <2>1, <2>2, <3>2, StreamConstants
  <2>7. PICK open \in BOOLEAN : open = TRUE
    OBVIOUS
  <2>8. Stream!Headers(v4, b, n, open)
    BY <1>1, <1>3, <2>7
  <2> QED BY <1>2, <1>3, <1>4, <2>1, <2>3, <2>5, <2>6, <2>8, StreamHeaders
<1> QED BY <1>5, <1>6

LEMMA StreamReadInv ==
    ASSUME Stream!IInv, Stream!Read PROVE Stream!IInv' /\ Stream!RightBytesStay
<1>1. /\ Stream!Running /\ v5.at = "body" /\ v5.wire # <<>>
      /\ v4' = Stream!Consume(v4, v6, <<Head(v5.wire)>>).job
      /\ v6' = Stream!Consume(v4, v6, <<Head(v5.wire)>>).file
      /\ v5' = IF Head(v5.wire) = Stream!EndOfChunks THEN Stream!Closing("seen")
               ELSE [v5 EXCEPT !.wire = Tail(@)]
      /\ v1' = v1 /\ v2' = v2 /\ v3' = v3 /\ v7' = v7 /\ v8' = v8 /\ v9' = v9 /\ v10' = v10
      /\ v11' = v11 /\ v12' = v12 /\ v13' = v13
  BY DEF Stream!Read, Stream!world, Stream!history
<1>2. PICK x, m, f, q, w : x = v4 /\ m = v5 /\ f = v6 /\ q = v12 /\ w = v5.wire
  OBVIOUS
<1>3. /\ StreamJob(x) /\ m \in Stream!Nets /\ f \in StreamFiles /\ q \in BOOLEAN
      /\ v10 \in 0..MaxFaults /\ v11 \in 0..MaxRuns
      /\ ~q => Stream!InPlace(f) /\ JobPlace(x, m, f) /\ (m.left = "answer" => AnswerPlace(x, m))
  BY <1>1, <1>2, StreamRunning
<1>4. w \in Wires /\ w = m.wire /\ m.at = "body" /\ w # <<>>
  BY <1>1, <1>2, <1>3 DEF Stream!Nets, Wires
<1>5. Len(w) \in Nat /\ Len(w) > 0
  BY <1>4, WiresAre
<1>6. PICK one \in 0..Len(w) : one = 1
  BY <1>5
<1>7. PICK b, r : b = SubSeq(w, 1, one) /\ r = SubSeq(w, one + 1, Len(w))
  OBVIOUS
<1>8. StartOf(b, w) /\ Len(b) = one /\ RestOf(r, w, one)
  <2>0. one \in 0..Len(w) /\ w \in Wires
    BY <1>4, <1>6
  <2>1. StartOf(b, w)
    BY <2>0, <1>7, WireParts
  <2>2. Len(b) = one
    BY <2>0, <1>7, WireParts
  <2>3. RestOf(r, w, one)
    BY <2>0, <1>7, WireParts
  <2> QED BY <2>1, <2>2, <2>3
<1>9. b = <<Head(w)>> /\ r = Tail(w)
  <2>1. PICK S : S = 0..Total
    OBVIOUS
  <2>2. w \in Seq(S) /\ b \in Seq(S) /\ r \in Seq(S)
    BY <1>4, <1>8, <2>1 DEF StartOf, RestOf, Wires
  <2>3. Len(b) = 1 /\ b[1] = w[1] /\ Len(r) = Len(w) - 1 /\ \A k \in 1..Len(r) : r[k] = w[1 + k]
    BY <1>6, <1>8 DEF StartOf, RestOf
  <2>4. b = <<Head(w)>>
    BY <2>2, <2>3
  <2>5. r = Tail(w)
    BY <1>5, <2>2, <2>3
  <2> QED BY <2>4, <2>5
<1>10. PICK y, g : y = Stream!Consume(x, f, b).job /\ g = Stream!Consume(x, f, b).file
  OBVIOUS
<1>11. v4' = y /\ v6' = g
  BY <1>1, <1>2, <1>9, <1>10
<1>12. b \in Wires /\ r \in Wires
  BY <1>8 DEF StartOf, RestOf
<1>13. StreamJob(y) /\ g \in StreamFiles /\ g.os = f.os
  BY <1>3, <1>10, <1>12, StreamConsume
<1>14. y.headers = x.headers /\ y.streaming = x.streaming
  BY <1>3, <1>10 DEF StreamJob, Stream!Jobs, Stream!Consume, Stream!Counted
<1>15. PICK n \in Stream!Nets : /\ n = v5' /\ (~q => n.left # "answer")
                                /\ \/ n.at = "draining"
                                   \/ n.at = "body" /\ n.left = m.left /\ n.wire = r
  <2>1. CASE Head(w) = Stream!EndOfChunks
    <3>1. v5' = Stream!Closing("seen")
      BY <1>1, <1>2, <2>1
    <3> QED BY <3>1, NetsOf
  <2>2. CASE Head(w) # Stream!EndOfChunks
    <3>1. PICK k : k = [m EXCEPT !.wire = r]
      OBVIOUS
    <3>2. k \in Stream!Nets /\ k.wire = r /\ k.at = m.at /\ k.left = m.left
      BY <1>3, <1>12, <3>1 DEF Stream!Nets, Wires
    <3>3. v5' = k
      BY <1>1, <1>2, <1>4, <1>9, <2>2, <3>1
    <3>4. ~q => k.left # "answer"
      BY <1>3, <1>4, <3>2 DEF JobPlace
    <3> QED BY <1>4, <3>2, <3>3, <3>4
  <2> QED BY <2>1, <2>2
<1>16. ~q => Stream!InPlace(g) /\ JobPlace(y, n, g)
  <2> SUFFICES ASSUME ~q PROVE Stream!InPlace(g) /\ JobPlace(y, n, g)
    OBVIOUS
  <2>1. Stream!InPlace(f) /\ JobPlace(x, m, f)
    BY <1>3
  <2>2. PICK to \in 0..Total : /\ Stream!Follows(w, NextByte(x), to)
                               /\ x.step = "stream" => to = Total
    <3>1. Total \in 0..Total
      BY StreamConstants
    <3>2. CASE x.step = "stream"
      BY <1>4, <2>1, <3>1, <3>2 DEF JobPlace, NextByte
    <3>3. CASE x.step # "stream"
      BY <1>4, <2>1, <3>3 DEF JobPlace, NextByte
    <3> QED BY <3>2, <3>3
  <2>3. x.step = "chunk" /\ x.headers /\ x.streaming => x.want = x.range.end - x.range.start + 1
    BY <2>1 DEF JobPlace
  <2>4. x.step = "stream" /\ x.complete /\ x.total = 0 => x.received = Total
    BY <2>1 DEF JobPlace
  <2>5. \/ n.at = "draining"
        \/ n.at = "body" /\ n.left = "nothing" /\ n.wire = r /\ (x.step = "stream" => to = Total)
    BY <1>4, <1>15, <2>1, <2>2 DEF JobPlace
  <2>6. RestOf(r, w, Len(b))
    BY <1>8
  <2> QED BY <1>3, <1>8, <1>10, <1>14, <2>1, <2>2, <2>3, <2>4, <2>5, <2>6, StreamTakes
<1>17. Len(f.os) <= Len(g.os)
  BY <1>3, <1>13, FileFields
<1>18. PICK t \in StreamRuns : t = "running"
  BY DEF StreamRuns
<1> QED BY <1>1, <1>2, <1>3, <1>11, <1>13, <1>15, <1>16, <1>17, <1>18, StreamKept DEF Stream!Running

(* A range has come and is marked. *)
LEMMA RangeDoneIs ==
    ASSUME NEW x, StreamJob(x), x.step = "chunk", NEW y, y = Stream!RangeDone(x)
    PROVE  /\ StreamJob(y) /\ y.step = "chunk" /\ y.total = Total /\ y.range = x.range
           /\ y.got = 0 /\ y.streaming = FALSE
           /\ Bytes(y.done) = Bytes(x.done) \cup x.range.start..x.range.end
<1>1. x \in Stream!Jobs /\ x.range \in Stream!Spans /\ x.total = Total /\ Total # 0
  BY StreamConstants DEF StreamJob, Stream!Jobs
<1>2. x.range.start \in Nat /\ x.range.end \in Nat /\ x.range.start <= x.range.end /\ x.range.end < Total
  BY <1>1, StreamSpan DEF Ranges
<1>3. PICK rs : rs = Stream!MarkRangeDone(x.done, x.total, x.range.start, x.range.end)
  OBVIOUS
<1>4. /\ rs \in Seq(Stream!Spans) /\ Stream!Canonical(rs)
      /\ Bytes(rs) = Bytes(x.done) \cup x.range.start..x.range.end
  BY <1>2, <1>3, StreamMarked
<1>5. y = [x EXCEPT !.done = rs, !.streaming = FALSE, !.got = 0, !.want = 0, !.deferred = TRUE]
  BY <1>3 DEF Stream!RangeDone
<1>6. /\ y \in Stream!Jobs /\ y.step = x.step /\ y.total = x.total /\ y.range = x.range
      /\ y.got = 0 /\ y.streaming = FALSE /\ y.done = rs
  <2>1. x \in Stream!Jobs
    BY <1>1
  <2>2. rs \in Seq(Stream!Spans)
    BY <1>4
  <2>3. 0 \in Nat
    OBVIOUS
  <2>4. PICK u : u = [x EXCEPT !.done = rs, !.got = 0, !.want = 0]
    OBVIOUS
  <2>5. u \in Stream!Jobs /\ u.step = x.step /\ u.total = x.total /\ u.range = x.range
        /\ u.got = 0 /\ u.done = rs
    BY <2>1, <2>2, <2>3, <2>4 DEF Stream!Jobs
  <2>6. y = [u EXCEPT !.streaming = FALSE, !.deferred = TRUE]
    BY <1>5, <2>1, <2>4 DEF Stream!Jobs
  <2>7. y \in Stream!Jobs /\ y.step = u.step /\ y.total = u.total /\ y.range = u.range
        /\ y.got = u.got /\ y.streaming = FALSE /\ y.done = u.done
    BY <2>5, <2>6 DEF Stream!Jobs
  <2> QED BY <2>5, <2>7
<1>7. StreamJob(y)
  BY <1>1, <1>4, <1>6 DEF StreamJob, Stream!DoneOf
<1> QED BY <1>1, <1>4, <1>6, <1>7
LEMMA StreamRangeClosed ==
    ASSUME Stream!IInv, Stream!Running, v4.step = "chunk", v4.headers, v4.streaming, Stream!RangeClosed,
           v1' = v1, v2' = v2, v10' \in 0..MaxFaults, v11' = v11, v12' = v12
    PROVE  Stream!IInv' /\ Stream!RightBytesStay
<1>1. PICK x, m, f, q, y, g : /\ x = v4 /\ m = v5 /\ f = v6 /\ q = v12
                              /\ y = Stream!RangeDone(v4) /\ g = Stream!Flushed(v6)
  OBVIOUS
<1>2. /\ StreamJob(x) /\ f \in StreamFiles /\ v3 = "running" /\ q \in BOOLEAN /\ v11 \in 0..MaxRuns
      /\ ~q => Stream!InPlace(f) /\ JobPlace(x, m, f) /\ Stream!OnDisk(x.done, f)
  BY <1>1, StreamRunning
<1>3. CASE x.got < x.want
  <2>1. PICK t \in StreamStatuses \ {"completed"} : t = "failed"
    BY DEF StreamStatuses
  <2>2. Stream!Publish(v4, t) /\ v6' = v6 /\ v9' = v9 /\ v13' = v13
    BY <1>1, <1>3, <2>1 DEF Stream!RangeClosed
  <2> QED BY <1>1, <1>2, <2>1, <2>2, StreamGivesUp
<1>4. CASE ~(x.got < x.want)
  <2>1. /\ StreamJob(y) /\ y.step = "chunk" /\ y.total = Total /\ y.range = x.range
        /\ y.got = 0 /\ y.streaming = FALSE
        /\ Bytes(y.done) = Bytes(x.done) \cup x.range.start..x.range.end
    BY <1>1, <1>2, RangeDoneIs
  <2>2. x.range.start \in Nat /\ x.range.end \in Nat /\ x.got \in Nat /\ x.want \in Nat
    <3>1. x.range \in Stream!Spans /\ x.got \in Nat /\ x.want \in Nat
      BY <1>2 DEF StreamJob, Stream!Jobs
    <3> QED BY <3>1, StreamSpan DEF Ranges
  <2>3. /\ g \in StreamFiles /\ Len(g.os) = Len(Stream!Given(f)) /\ Len(f.os) <= Len(g.os)
        /\ Len(Stream!Given(g)) = Len(g.os) /\ Stream!Drain(f) = g
        /\ (Stream!InPlace(f) => Stream!InPlace(g))
    BY <1>1, <1>2, StreamFlushed
  <2>4. Len(g.os) \in Nat /\ Len(f.os) \in Nat
    BY <1>2, <2>3, FileFields
  <2>5. x.done \in Seq(Stream!Spans) /\ y.done \in Seq(Stream!Spans)
    BY <1>2, <2>1 DEF StreamJob, Stream!DoneOf
  <2>6. Bytes(x.done) \subseteq 0..Total - 1
    BY <2>5, StreamBytes
  <2>7. ~q => x.range.end < Len(g.os) /\ x.range.start <= Len(g.os)
    <3> SUFFICES ASSUME ~q PROVE x.range.end < Len(g.os) /\ x.range.start <= Len(g.os)
      OBVIOUS
    <3>1. x.range.start + x.got <= Len(g.os) /\ x.want = x.range.end - x.range.start + 1
      BY <1>1, <1>2, <2>3 DEF JobPlace
    <3> QED BY <1>4, <2>2, <2>4, <3>1
  <2>8. ~q => Stream!OnDisk(y.done, g)
    <3> SUFFICES ASSUME ~q, NEW i \in Bytes(y.done) PROVE i < Len(g.os)
      BY <2>5, StreamBytes DEF Stream!OnDisk
    <3>1. CASE i \in Bytes(x.done)
      <4>1. i < Len(f.os) /\ i \in Int
        BY <1>2, <2>5, <2>6, <3>1, StreamBytes DEF Stream!OnDisk
      <4> QED BY <2>3, <2>4, <4>1
    <3>2. CASE i \in x.range.start..x.range.end
      BY <2>2, <2>4, <2>7, <3>2
    <3> QED BY <2>1, <3>1, <3>2
  <2>9. CASE Stream!AllChunksDone(y.done, y.total)
    <3>1. Stream!Finalize(y, f)
      BY <1>1, <1>4, <2>9 DEF Stream!RangeClosed
    <3>2. 0..Total - 1 \subseteq Bytes(y.done)
      BY <2>1, <2>9, StreamAll
    <3>3. ~q => Total <= Len(Stream!Given(f))
      <4>1. ~q => Total <= Len(g.os)
        BY <2>3, <2>5, <2>8, <3>2, StreamHas, StreamConstants
      <4> QED BY <2>3, <4>1
    <3>4. Len(f.os) <= Len(Stream!Given(f))
      BY <2>3
    <3> QED BY <1>1, <1>2, <2>1, <3>1, <3>3, <3>4, StreamFinalized
  <2>10. CASE ~Stream!AllChunksDone(y.done, y.total)
    <3>1. v4' = y /\ v5' = Stream!Down /\ v6' = g /\ v7' = Stream!Stored(y) /\ v3' = v3 /\ v8' = v8
          /\ v9' = v9 /\ v13' = v13
      BY <1>1, <1>4, <2>3, <2>10 DEF Stream!RangeClosed
    <3>2. PICK n \in Stream!Nets : n = Stream!Down /\ n.at = "none" /\ n.left = "nothing"
      BY DownIs
    <3>3. ~q => y.range.start + y.got <= Len(Stream!Given(g))
      BY <2>1, <2>2, <2>3, <2>4, <2>7
    <3>4. ~q => JobPlace(y, n, g)
      BY <2>1, <2>8, <3>2, <3>3 DEF JobPlace
    <3>5. v8' \in {v8, "downloading"}
      BY <3>1
    <3> QED BY <1>1, <1>2, <2>1, <2>3, <3>1, <3>2, <3>4, <3>5, StreamUpserted
  <2> QED BY <2>9, <2>10
<1> QED BY <1>3, <1>4

LEMMA StreamClosedInv ==
    ASSUME Stream!IInv, Stream!Running, v4.step = "stream", Stream!StreamClosed,
           v1' = v1, v2' = v2, v10' \in 0..MaxFaults, v11' = v11, v12' = v12
    PROVE  Stream!IInv' /\ Stream!RightBytesStay
<1>1. PICK x, m, f, q : x = v4 /\ m = v5 /\ f = v6 /\ q = v12
  OBVIOUS
<1>2. /\ StreamJob(x) /\ f \in StreamFiles /\ q \in BOOLEAN /\ v11 \in 0..MaxRuns
      /\ ~q => Stream!InPlace(f) /\ JobPlace(x, m, f)
  BY <1>1, StreamRunning
<1>3. CASE (x.chunked => x.complete) /\ Stream!Finalize(x, f)
  <2>1. Len(f.os) <= Len(Stream!Given(f))
    BY <1>2, StreamGiven
  <2>2. ~q /\ x.total = 0 /\ x.chunked => x.received = Total
    BY <1>1, <1>2, <1>3 DEF JobPlace
  <2>3. ~q => x.received = Len(Stream!Given(f))
    BY <1>1, <1>2 DEF JobPlace
  <2> QED BY <1>1, <1>2, <1>3, <2>1, <2>2, <2>3, StreamFinalized
<1>4. CASE Stream!Publish(x, "failed") /\ v6' = v6 /\ v9' = v9 /\ v13' = v13
  <2>1. PICK t \in StreamStatuses \ {"completed"} : t = "failed"
    BY DEF StreamStatuses
  <2>2. Stream!Publish(v4, t)
    BY <1>1, <1>4, <2>1
  <2> QED BY <1>1, <1>2, <1>4, <2>2, StreamGivesUp
<1> QED BY <1>1, <1>3, <1>4 DEF Stream!StreamClosed

(* on_connection_closed *)
LEMMA StreamConnectionClosed ==
    ASSUME Stream!IInv, Stream!Running, Stream!OnConnectionClosed,
           v1' = v1, v2' = v2, v10' \in 0..MaxFaults, v11' = v11, v12' = v12
    PROVE  Stream!IInv' /\ Stream!RightBytesStay
<1>1. PICK x, m, f, q : x = v4 /\ m = v5 /\ f = v6 /\ q = v12
  OBVIOUS
<1>2. /\ StreamJob(x) /\ f \in StreamFiles /\ v3 = "running" /\ q \in BOOLEAN /\ v11 \in 0..MaxRuns
      /\ ~q => Stream!InPlace(f) /\ JobPlace(x, m, f)
  BY <1>1, StreamRunning
<1>3. PICK n \in Stream!Nets : n = Stream!Down /\ n.at = "none" /\ n.left = "nothing"
  BY DownIs
<1>4. Len(f.os) <= Len(f.os)
  BY <1>2, FileFields
(* The job goes on, or hands over, as it is. *)
<1>5. ASSUME NEW y, v4' = y, y \in Stream!Jobs, y.step = x.step, y.total = x.total, y.done = x.done,
             y.received = x.received, y.complete = x.complete, y.range = x.range, y.got = x.got,
             y.headers = x.headers, y.streaming = x.streaming, y.want = x.want,
             NEW r \in StreamRuns \ {"none"}, v3' = r, v5' = Stream!Down, v6' = v6, v7' = v7, v8' = v8,
             v9' = v9, v13' = v13
      PROVE  Stream!IInv' /\ Stream!RightBytesStay
  <2>1. StreamJob(y)
    BY <1>2, <1>5 DEF StreamJob, Stream!DoneOf
  <2>2. ~q => JobPlace(y, n, f)
    BY <1>2, <1>3, <1>5 DEF JobPlace
  <2>3. r \in StreamRuns /\ r # "none"
    BY <1>5
  <2>4. ~q => ~v12 /\ Stream!InPlace(f) /\ Len(v6.os) <= Len(f.os)
    BY <1>1, <1>2, <1>4
  <2> QED BY <1>1, <1>2, <1>3, <1>5, <2>1, <2>2, <2>3, <2>4, StreamKept
<1>6. PICK a \in StreamRuns \ {"none"}, b \in StreamRuns \ {"none"} : a = "running" /\ b = "segments"
  BY DEF StreamRuns
<1>7. CASE v4' = [x EXCEPT !.rescheduled = FALSE, !.deferred = TRUE] /\ v5' = Stream!Down
           /\ v3' = v3 /\ v6' = v6 /\ v7' = v7 /\ v8' = v8 /\ v9' = v9 /\ v13' = v13
  <2>1. PICK y : y = [x EXCEPT !.rescheduled = FALSE, !.deferred = TRUE]
    OBVIOUS
  <2>2. /\ y \in Stream!Jobs /\ y.step = x.step /\ y.total = x.total /\ y.done = x.done
        /\ y.received = x.received /\ y.complete = x.complete /\ y.range = x.range /\ y.got = x.got
        /\ y.headers = x.headers /\ y.streaming = x.streaming /\ y.want = x.want
    BY <1>2, <2>1 DEF StreamJob, Stream!Jobs
  <2> QED BY <1>2, <1>5, <1>6, <1>7, <2>1, <2>2
<1>8. CASE v3' = "segments" /\ v4' = [x EXCEPT !.segments = FALSE, !.deferred = FALSE]
           /\ v5' = Stream!Down
           /\ v6' = v6 /\ v7' = v7 /\ v8' = v8 /\ v9' = v9 /\ v13' = v13
  <2>1. PICK y : y = [x EXCEPT !.segments = FALSE, !.deferred = FALSE]
    OBVIOUS
  <2>2. /\ y \in Stream!Jobs /\ y.step = x.step /\ y.total = x.total /\ y.done = x.done
        /\ y.received = x.received /\ y.complete = x.complete /\ y.range = x.range /\ y.got = x.got
        /\ y.headers = x.headers /\ y.streaming = x.streaming /\ y.want = x.want
    BY <1>2, <2>1 DEF StreamJob, Stream!Jobs
  <2> QED BY <1>2, <1>5, <1>6, <1>8, <2>1, <2>2
<1>9. CASE v4' = [x EXCEPT !.deferred = TRUE] /\ v5' = Stream!Down
           /\ v3' = v3 /\ v6' = v6 /\ v7' = v7 /\ v8' = v8 /\ v9' = v9 /\ v13' = v13
  <2>1. PICK y : y = [x EXCEPT !.deferred = TRUE]
    OBVIOUS
  <2>2. /\ y \in Stream!Jobs /\ y.step = x.step /\ y.total = x.total /\ y.done = x.done
        /\ y.received = x.received /\ y.complete = x.complete /\ y.range = x.range /\ y.got = x.got
        /\ y.headers = x.headers /\ y.streaming = x.streaming /\ y.want = x.want
    BY <1>2, <2>1 DEF StreamJob, Stream!Jobs
  <2> QED BY <1>2, <1>5, <1>6, <1>9, <2>1, <2>2
<1>10. CASE Stream!Publish(x, "failed") /\ v6' = v6 /\ v9' = v9 /\ v13' = v13
  <2>1. PICK t \in StreamStatuses \ {"completed"} : t = "failed"
    BY DEF StreamStatuses
  <2>2. Stream!Publish(v4, t)
    BY <1>1, <1>10, <2>1
  <2> QED BY <1>1, <1>2, <1>10, <2>2, StreamGivesUp
<1>11. CASE v4.step = "chunk" /\ v4.headers /\ v4.streaming /\ Stream!RangeClosed
  BY <1>11, StreamRangeClosed
<1>12. CASE v4.step = "stream" /\ Stream!StreamClosed
  BY <1>12, StreamClosedInv
<1>13. \/ /\ v4' = [x EXCEPT !.rescheduled = FALSE, !.deferred = TRUE] /\ v5' = Stream!Down
          /\ v3' = v3 /\ v6' = v6 /\ v7' = v7 /\ v8' = v8 /\ v9' = v9 /\ v13' = v13
       \/ v4.step = "chunk" /\ v4.headers /\ v4.streaming /\ Stream!RangeClosed
       \/ v4.step = "stream" /\ Stream!StreamClosed
       \/ /\ v3' = "segments" /\ v4' = [x EXCEPT !.segments = FALSE, !.deferred = FALSE]
          /\ v5' = Stream!Down
          /\ v6' = v6 /\ v7' = v7 /\ v8' = v8 /\ v9' = v9 /\ v13' = v13
       \/ /\ v4' = [x EXCEPT !.deferred = TRUE] /\ v5' = Stream!Down
          /\ v3' = v3 /\ v6' = v6 /\ v7' = v7 /\ v8' = v8 /\ v9' = v9 /\ v13' = v13
       \/ Stream!Publish(x, "failed") /\ v6' = v6 /\ v9' = v9 /\ v13' = v13
  BY <1>1 DEF Stream!OnConnectionClosed
<1> QED BY <1>7, <1>8, <1>9, <1>10, <1>11, <1>12, <1>13

(* try_parse_pending_response *)
LEMMA StreamHeldAnswer ==
    ASSUME Stream!IInv, Stream!Running, v5.left = "answer", v1' = v1, v2' = v2, v10' = v10, v11' = v11,
           NEW n \in 0..Len(v5.wire), Stream!Headers(v4, v5.wire, n, FALSE),
           v12' = (v12 \/ Stream!Misplaced(v4, v5.wire))
    PROVE  Stream!IInv' /\ Stream!RightBytesStay
<1>1. PICK x, m, f, p, w : x = v4 /\ m = v5 /\ f = v6 /\ p = v12 /\ w = v5.wire
  OBVIOUS
<1>2. /\ StreamJob(x) /\ m \in Stream!Nets /\ f \in StreamFiles /\ p \in BOOLEAN
      /\ ~p => JobPlace(x, m, f) /\ AnswerPlace(x, m)
  BY <1>1, StreamRunning
<1>3. w \in Wires /\ w = m.wire
  BY <1>1, <1>2 DEF Stream!Nets, Wires
<1>4. PICK q \in BOOLEAN : q = (p \/ Stream!Misplaced(x, w))
  <2>1. (p \/ Stream!Misplaced(x, w)) \in BOOLEAN
    BY Zenon
  <2> QED BY <2>1
<1>5. v12' = q
  BY <1>1, <1>4
<1>6. ~q => ~v12
  BY <1>1, <1>4
<1>7. PICK open \in BOOLEAN : open = FALSE
  OBVIOUS
<1>8. n \in 0..Len(w) /\ Stream!Headers(v4, w, n, open)
  BY <1>1, <1>7
<1>9. Stream!Unusable(x) => q = p
  <2>1. ~p => ~Stream!Unusable(x)
    BY <1>2 DEF AnswerPlace, Stream!Unusable
  <2> QED BY <1>2, <1>4, <2>1
<1>10. Stream!Unusable(v4) =>
           /\ v12' = v12
           /\ ~v12 => /\ w # <<>> /\ w[1] # Stream!EndOfChunks
                      /\ \E to \in 0..Total : Stream!Follows(w, w[1] - 1, to)
  BY <1>1, <1>2, <1>3, <1>5, <1>9 DEF AnswerPlace
<1>11. ~q /\ ~Stream!Rejected(v4) =>
           \E to \in 0..Total :
               /\ Stream!Follows(w, NextByte(v4), to)
               /\ v4.step = "stream" => to = Total \/ (v4.total = Total /\ ~open)
  <2> SUFFICES ASSUME ~q, ~Stream!Rejected(x)
               PROVE  \E to \in 0..Total : Stream!Follows(w, NextByte(x), to) /\ x.total = Total
    BY <1>1, <1>7
  <2>1. JobPlace(x, m, f) /\ AnswerPlace(x, m) /\ ~Stream!Misplaced(x, w)
    BY <1>2, <1>4
  <2>2. x.total = Total /\ x.step = "stream"
    BY <2>1 DEF AnswerPlace
  <2>3. w[1] = x.received + 1
    BY <2>1 DEF Stream!Misplaced
  <2>4. x.received \in Nat
    BY <1>2 DEF StreamJob, Stream!Jobs
  <2>5. w[1] - 1 = NextByte(x)
    BY <2>2, <2>3, <2>4 DEF NextByte
  <2>6. \E to \in 0..Total : Stream!Follows(w, w[1] - 1, to)
    BY <1>3, <2>1 DEF AnswerPlace
  <2> QED BY <2>2, <2>5, <2>6
<1> QED BY <1>3, <1>5, <1>6, <1>8, <1>10, <1>11, StreamHeaders

LEMMA StreamClosedAgainInv ==
    ASSUME Stream!IInv, Stream!ClosedAgain PROVE Stream!IInv' /\ Stream!RightBytesStay
<1>1. Stream!Running /\ v1' = v1 /\ v2' = v2 /\ v10' = v10 /\ v11' = v11
  BY DEF Stream!ClosedAgain, Stream!world
<1>2. PICK x, f, q : x = v4 /\ f = v6 /\ q = v12
  OBVIOUS
<1>3. /\ StreamJob(x) /\ f \in StreamFiles /\ q \in BOOLEAN /\ v10 \in 0..MaxFaults /\ v11 \in 0..MaxRuns
      /\ (~q => Stream!InPlace(f))
  BY <1>1, <1>2, StreamRunning
<1>4. CASE v5.left = "redirect" /\ Stream!Redirect(v4)
  BY <1>1, <1>4, StreamRedirect
<1>5. CASE /\ v5.left = "answer"
           /\ \E n \in 0..Len(v5.wire) : Stream!Headers(v4, v5.wire, n, FALSE)
           /\ v12' = (v12 \/ Stream!Misplaced(v4, v5.wire))
  BY <1>1, <1>5, StreamHeldAnswer
<1>6. CASE /\ IF v4.received = 0 THEN Stream!Publish(v4, "failed") ELSE Stream!SetError(v4)
           /\ v6' = v6 /\ v9' = v9 /\ v12' = v12 /\ v13' = v13
  <2>1. CASE Stream!Publish(v4, "failed")
    <3>1. PICK t \in StreamStatuses \ {"completed"} : t = "failed"
      BY DEF StreamStatuses
    <3>2. Stream!Publish(v4, t)
      BY <2>1, <3>1
    <3> QED BY <1>1, <1>2, <1>3, <1>6, <3>2, StreamGivesUp
  <2>2. CASE Stream!SetError(v4)
    <3>1. Len(f.os) <= Len(f.os)
      BY <1>3, FileFields
    <3>2. Stream!SetError(x) /\ v6' = f
      BY <1>2, <1>6, <2>2
    <3> QED BY <1>1, <1>2, <1>3, <1>6, <3>1, <3>2, StreamFailed
  <2> QED BY <1>6, <2>1, <2>2
<1>7. \/ v5.left = "redirect" /\ Stream!Redirect(v4)
      \/ /\ v5.left = "answer"
         /\ \E n \in 0..Len(v5.wire) : Stream!Headers(v4, v5.wire, n, FALSE)
         /\ v12' = (v12 \/ Stream!Misplaced(v4, v5.wire))
      \/ /\ IF v4.received = 0 THEN Stream!Publish(v4, "failed") ELSE Stream!SetError(v4)
         /\ v6' = v6 /\ v9' = v9 /\ v12' = v12 /\ v13' = v13
  BY DEF Stream!ClosedAgain
<1> QED BY <1>4, <1>5, <1>6, <1>7

LEMMA StreamEndsInv ==
    ASSUME Stream!IInv, Stream!Closed \/ Stream!Dropped \/ Stream!Broken
    PROVE  Stream!IInv' /\ Stream!RightBytesStay
<1>1. PICK f, q : f = v6 /\ q = v12
  OBVIOUS
<1>2. /\ Stream!Running /\ v1' = v1 /\ v2' = v2 /\ v11' = v11 /\ v12' = v12
      /\ Stream!Fault \/ v10' = v10
      /\ \/ Stream!OnConnectionClosed
         \/ Stream!Publish(v4, "failed") /\ v6' = v6 /\ v9' = v9 /\ v13' = v13
  BY DEF Stream!Closed, Stream!Dropped, Stream!Broken, Stream!world, Stream!history
<1>3. q \in BOOLEAN /\ v10 \in 0..MaxFaults
  BY <1>1, <1>2, StreamRunning
<1>4. v10' \in 0..MaxFaults
  BY <1>2, <1>3, StreamFaults
<1>5. CASE Stream!OnConnectionClosed
  BY <1>2, <1>4, <1>5, StreamConnectionClosed
<1>6. CASE Stream!Publish(v4, "failed") /\ v6' = v6 /\ v9' = v9 /\ v13' = v13
  <2>1. PICK t \in StreamStatuses \ {"completed"} : t = "failed"
    BY DEF StreamStatuses
  <2>2. Stream!Publish(v4, t)
    BY <1>6, <2>1
  <2> QED BY <1>1, <1>2, <1>3, <1>4, <1>6, <2>2, StreamGivesUp
<1> QED BY <1>2, <1>5, <1>6

LEMMA StreamNextInv ==
    Stream!IInv /\ [Stream!Next]_(Stream!vars) => Stream!IInv' /\ [Stream!RightBytesStay]_(Stream!vars)
<1> SUFFICES ASSUME Stream!IInv, [Stream!Next]_(Stream!vars)
             PROVE  Stream!IInv' /\ [Stream!RightBytesStay]_(Stream!vars)
  OBVIOUS
<1>1. CASE UNCHANGED Stream!vars
  BY <1>1 DEF Stream!IInv, Stream!TypeOK, Stream!WholeWhenDone, Stream!JobInPlace, Stream!Answered,
              Stream!vars, Stream!Running
<1>2. CASE Stream!Next
  <2>1. CASE Stream!Start
    BY <2>1, StreamStartInv
  <2>2. CASE Stream!Schedule
    BY <2>2, StreamScheduleInv
  <2>3. CASE Stream!Connected
    BY <2>3, StreamConnectedInv
  <2>4. CASE Stream!RedirectAnswer
    BY <2>4, StreamRedirectAnswerInv
  <2>5. CASE Stream!RedirectBody
    BY <2>5, StreamRedirectBodyInv
  <2>6. CASE Stream!Answer
    BY <2>6, StreamAnswerInv
  <2>7. CASE Stream!Read
    BY <2>7, StreamReadInv
  <2>8. CASE Stream!Closed \/ Stream!Dropped \/ Stream!Broken
    BY <2>8, StreamEndsInv
  <2>9. CASE Stream!ClosedAgain
    BY <2>9, StreamClosedAgainInv
  <2>10. CASE Stream!JobFree
    BY <2>10, StreamJobFreeInv
  <2>11. CASE Stream!Flush
    BY <2>11, StreamFlushInv
  <2>12. CASE Stream!StopOrPause
    BY <2>12, StreamStopInv
  <2>13. CASE Stream!Crash
    BY <2>13, StreamCrashInv
  <2>14. CASE Stream!ErrorAnswer
    BY <2>14, StreamErrorAnswerInv
  <2> QED BY <1>2, <2>1, <2>2, <2>3, <2>4, <2>5, <2>6, <2>7, <2>8, <2>9, <2>10, <2>11, <2>12, <2>13, <2>14
             DEF Stream!Next, Stream!Transfer
<1> QED BY <1>1, <1>2

(* What the parts say to TransferInv. *)
LEMMA StreamShows == Stream!IInv => Stream!TypeOK /\ Stream!SavedIsThere /\ Stream!WholeWhenDone
<1> SUFFICES ASSUME Stream!IInv PROVE Stream!TypeOK /\ Stream!SavedIsThere /\ Stream!WholeWhenDone
  OBVIOUS
<1>1. Stream!TypeOK
  BY DEF Stream!IInv
<1>2. Stream!WholeWhenDone
  <2>1. CASE v12
    BY <2>1 DEF Stream!WholeWhenDone
  <2>2. CASE ~v12
    BY <2>2 DEF Stream!IInv
  <2> QED BY <2>1, <2>2
<1>3. Stream!SavedIsThere
  <2> SUFFICES ASSUME v8 # "completed", ~v12, NEW i \in Stream!Bytes(v7.done)
               PROVE  i < Len(v6.os) /\ v6.os[i + 1] = i + 1
    BY DEF Stream!SavedIsThere
  <2>1. PICK f, s : f = v6 /\ s = v7
    OBVIOUS
  <2>2. f \in StreamFiles /\ StreamSaved(s)
    BY <2>1, StreamIs
  <2>3. s.done \in Seq(Stream!Spans)
    BY <2>2 DEF StreamSaved
  <2>4. Stream!OnDisk(s.done, f) /\ Stream!InPlace(f)
    BY <2>1 DEF Stream!IInv
  <2>5. i < Len(f.os)
    BY <2>1, <2>4 DEF Stream!OnDisk
  <2>6. i \in Nat
    BY <2>1, <2>3, StreamBytes, StreamConstants
  <2>7. f.os \in Seq(0..Total)
    BY <2>2 DEF StreamFiles
  <2>8. i + 1 \in DOMAIN f.os
    <3>1. Len(f.os) \in Nat /\ DOMAIN f.os = 1..Len(f.os)
      BY <2>7, WiresAre DEF Wires
    <3> QED BY <2>5, <2>6, <3>1
  <2>9. f.os[i + 1] = i + 1
    BY <2>4, <2>8 DEF Stream!InPlace, Stream!Beginning
  <2> QED BY <2>1, <2>5, <2>9
<1> QED BY <1>1, <1>2, <1>3

-----------------------------------------------------------------------------
(* The parts together. *)

(* The inductive invariant: that of the part that runs. *)
TransferInv ==
    /\ part = "stream" => Stream!IInv
    /\ part = "list" => List!IInv
    /\ part = "request" => Request!IInv
    /\ part = "route" => Route!IInv
    /\ part = "ids" => Ids!IInv
    /\ part = "files" => Files!IInv
    /\ part = "marks" => Marks!IInv
    /\ part = "log" => Log!IInv
    /\ part = "bridge" => Bridge!IInv
    /\ part = "switch" => Switch!IInv
    /\ part = "work" => Work!IInv
    /\ part = "gui" => Gui!IInv

LEMMA TransferInitInv == Init => TransferInv
<1> SUFFICES ASSUME Init PROVE TransferInv
  OBVIOUS
<1>1. /\ part = "stream" => Stream!Init
      /\ part = "list" => List!Init
      /\ part = "request" => Request!Init
      /\ part = "route" => Route!Init
      /\ part = "ids" => Ids!Init
      /\ part = "files" => Files!Init
      /\ part = "marks" => Marks!Init
      /\ part = "log" => Log!Init
      /\ part = "bridge" => Bridge!Init
      /\ part = "switch" => Switch!Init
      /\ part = "work" => Work!Init
      /\ part = "gui" => Gui!Init
  BY DEF Init
<1> QED BY <1>1, RequestInitInv, RouteInitInv, IdsInitInv, LogInitInv, BridgeInitInv, SwitchInitInv,
        WorkInitInv, FilesInitInv, MarksInitInv, GuiInitInv, ListInitInv, StreamInitInv DEF TransferInv

(* The part stays, and a step is one of it. *)
LEMMA TransferStep ==
    ASSUME [Next]_vars
    PROVE  /\ part' = part
           /\ part = "stream" => [Stream!Next]_(Stream!vars)
           /\ part = "list" => [List!Next]_(List!vars)
           /\ part = "request" => [Request!Next]_(Request!vars)
           /\ part = "route" => [Route!Next]_(Route!vars)
           /\ part = "ids" => [Ids!Next]_(Ids!vars)
           /\ part = "files" => [Files!Next]_(Files!vars)
           /\ part = "marks" => [Marks!Next]_(Marks!vars)
           /\ part = "log" => [Log!Next]_(Log!vars)
           /\ part = "bridge" => [Bridge!Next]_(Bridge!vars)
           /\ part = "switch" => [Switch!Next]_(Switch!vars)
           /\ part = "work" => [Work!Next]_(Work!vars)
           /\ part = "gui" => [Gui!Next]_(Gui!vars)
<1>1. CASE Next
  BY <1>1 DEF Next, StreamOnly, ListOnly, RequestOnly, RouteOnly, IdsOnly, FilesOnly, MarksOnly,
     LogOnly, BridgeOnly, SwitchOnly, WorkOnly, GuiOnly
<1>2. CASE UNCHANGED vars
  BY <1>2 DEF vars, Request!vars, Request!kinds, Route!vars, Ids!vars, Ids!list, Log!vars, Bridge!vars,
     Switch!vars, Work!vars, Files!vars, Marks!vars, Gui!vars, List!vars, Stream!vars
<1> QED BY <1>1, <1>2

LEMMA TransferNextInv == TransferInv /\ [Next]_vars => TransferInv'
<1> SUFFICES ASSUME TransferInv, [Next]_vars PROVE TransferInv'
  OBVIOUS
<1>1. CASE part = "request"
  BY <1>1, TransferStep, RequestNextInv DEF TransferInv
<1>2. CASE part = "route"
  BY <1>2, TransferStep, RouteNextInv DEF TransferInv
<1>3. CASE part = "ids"
  BY <1>3, TransferStep, IdsNextInv DEF TransferInv
<1>4. CASE part = "log"
  BY <1>4, TransferStep, LogNextInv DEF TransferInv
<1>5. CASE part = "bridge"
  BY <1>5, TransferStep, BridgeNextInv DEF TransferInv
<1>6. CASE part = "switch"
  BY <1>6, TransferStep, SwitchNextInv DEF TransferInv
<1>7. CASE part = "work"
  BY <1>7, TransferStep, WorkNextInv DEF TransferInv
<1>8. CASE part = "files"
  BY <1>8, TransferStep, FilesNextInv DEF TransferInv
<1>9. CASE part = "marks"
  BY <1>9, TransferStep, MarksNextInv DEF TransferInv
<1>10. CASE part = "gui"
  BY <1>10, TransferStep, GuiNextInv DEF TransferInv
<1>11. CASE part = "list"
  BY <1>11, TransferStep, ListNextInv DEF TransferInv
<1>12. CASE part = "stream"
  BY <1>12, TransferStep, StreamNextInv DEF TransferInv
<1>13. CASE part \notin {"stream", "list", "request", "route", "ids", "log", "bridge", "switch", "work",
                        "files", "marks", "gui"}
  BY <1>13, TransferStep DEF TransferInv
<1> QED BY <1>1, <1>2, <1>3, <1>4, <1>5, <1>6, <1>7, <1>8, <1>9, <1>10, <1>11, <1>12, <1>13

(* A connection asks once whatever comes between, and reports the size of the  *)
(* file (probe_send_request, probe_extract_size); a download keeps to one proxy *)
(* (apply_proxy_to_state); no two entries share an id, across processes and     *)
(* restarts and under a clock that is set back (download_generate_id); and a    *)
(* job is refused its directory only if another made it at that moment or it    *)
(* cannot be made (make_dirs_in_path).                                          *)
THEOREM OneOfEachAlways == Spec => []OneOfEach
<1>1. TransferInv => OneOfEach
  BY RequestShows, RouteShows, IdsShows, WorkShows DEF TransferInv, OneOfEach
<1> QED BY <1>1, TransferInitInv, TransferNextInv, PTL DEF Spec

(* As long as its calls do not overlap, the console shows the lines of a daemon *)
(* in their order, none twice, and none left out that the daemon still has; and *)
(* never one that was cleared (appendDaemonLines, daemon_rpc_logs_fetch).  The  *)
(* bridge is enabled exactly when the client wants it to be, if the post that   *)
(* was sent last is also the last that was taken (syncSettings), and a request  *)
(* that it calls an error was not executed (handle_v1_message).  The client     *)
(* talks to the active session, unless a setting was changed aside              *)
(* (applySession, removeSession).                                               *)
THEOREM ClientsAreRightAlways == Spec => []ClientsAreRight
<1>1. Log!IInv => Log!ShownInOrder /\ Log!NothingSkipped /\ Log!ClearedStaysCleared
  BY DEF Log!IInv
<1>2. Bridge!IInv => Bridge!FollowsSettings /\ Bridge!ErrorsAreHarmless
  BY DEF Bridge!IInv
<1>3. Switch!IInv => Switch!ClientFollows
  BY DEF Switch!IInv
<1>4. TransferInv => ClientsAreRight
  BY <1>1, <1>2, <1>3 DEF TransferInv, ClientsAreRight
<1> QED BY <1>4, TransferInitInv, TransferNextInv, PTL DEF Spec

(* A completed download is the whole file, unless its size was never known or  *)
(* a redirect came with a body (finalize_download, handle_response_headers);    *)
(* the pieces of a list are there in order and deciphered, as far as they were  *)
(* written (hls_parse_media_playlist, http_fetch_body); a finished file is      *)
(* somewhere in one piece while it gets its name, whatever fails on the way     *)
(* (move_file_atomic); and an archive that is marked was extracted as a whole   *)
(* (extract_archive_to_cache).                                                  *)
THEOREM FinishedIsWholeAlways == Spec => []FinishedIsWhole
<1>1. Gui!IInv => Gui!MarkedIsWhole
  BY DEF Gui!IInv
<1>2. TransferInv => FinishedIsWhole
  BY <1>1, StreamShows, ListShows, FilesShows DEF TransferInv, FinishedIsWhole
<1> QED BY <1>2, TransferInitInv, TransferNextInv, PTL DEF Spec

(* What state.json calls done is on the disk (save_stream_progress,             *)
(* drain_temp_file); the file of the bookmarks is whole at every moment         *)
(* (persist_json_file); a job that runs has its directory, and what is removed  *)
(* keeps none (make_dirs_in_path, remove_directory_recursive); and every part   *)
(* keeps its types.                                                             *)
THEOREM StoredIsTrueAlways == Spec => []StoredIsTrue
<1>1. Log!IInv => Log!TypeOK
  BY DEF Log!IInv
<1>2. Bridge!IInv => Bridge!TypeOK
  BY DEF Bridge!IInv
<1>3. Switch!IInv => Switch!TypeOK
  BY DEF Switch!IInv
<1>4. Gui!IInv => Gui!TypeOK
  BY DEF Gui!IInv
<1>5. TransferInv => TypeOK
  BY <1>1, <1>2, <1>3, <1>4, StreamShows, ListShows, RequestShows, RouteShows, IdsShows, FilesShows,
     MarksShows, WorkShows DEF TransferInv, TypeOK
<1>6. TransferInv => StoredIsTrue
  BY <1>5, StreamShows, MarksShows, WorkShows DEF TransferInv, StoredIsTrue
<1> QED BY <1>6, TransferInitInv, TransferNextInv, PTL DEF Spec

(* No byte of the temp file that is right becomes wrong, whatever restarts,     *)
(* falls back or is asked twice (append_stream, write_at_offset); an id that is *)
(* made is a new one (download_snowflake_next); no file of another is touched   *)
(* (resolve_unique_dest_path); and no bookmark goes but the one that is removed *)
(* (bookmark_remove).                                                           *)
THEOREM NothingIsSpoiltAlways == Spec => NothingIsSpoilt
<1>1. TransferInv /\ [Next]_vars =>
        [/\ part = "stream" => Stream!RightBytesStay
         /\ part = "ids" => Ids!MadeAnew
         /\ part = "files" => Files!OthersUntouched
         /\ part = "marks" => Marks!GoneIsRemoved]_vars
  <2> SUFFICES ASSUME TransferInv, [Next]_vars
               PROVE  [/\ part = "stream" => Stream!RightBytesStay
                       /\ part = "ids" => Ids!MadeAnew
                       /\ part = "files" => Files!OthersUntouched
                       /\ part = "marks" => Marks!GoneIsRemoved]_vars
    OBVIOUS
  <2>1. CASE UNCHANGED vars
    BY <2>1
  <2>2. CASE Next
    <3>1. /\ part = "stream" => UNCHANGED <<part, After13>>
          /\ part = "ids" => UNCHANGED <<part, After9>>
          /\ part \in {"files", "marks"} => UNCHANGED <<part, After7>>
      BY <2>2 DEF Next, StreamOnly, ListOnly, RequestOnly, RouteOnly, IdsOnly,
           FilesOnly, MarksOnly, LogOnly, BridgeOnly, SwitchOnly, WorkOnly, GuiOnly
    <3>2. CASE part = "stream"
      <4>1. [Stream!RightBytesStay]_(Stream!vars)
        BY <3>2, TransferStep, StreamNextInv DEF TransferInv
      <4>2. UNCHANGED Stream!vars => UNCHANGED vars
        BY <3>1, <3>2 DEF Stream!vars, vars, After13
      <4> QED BY <3>2, <4>1, <4>2
    <3>3. CASE part = "ids"
      <4>1. [Ids!MadeAnew]_(Ids!vars)
        BY <3>3, TransferStep, IdsNextInv DEF TransferInv
      <4>2. UNCHANGED Ids!vars => UNCHANGED vars
        BY <3>1, <3>3 DEF Ids!vars, Ids!list, vars, After9
      <4> QED BY <3>3, <4>1, <4>2
    <3>4. CASE part = "files"
      <4>1. [Files!OthersUntouched]_(Files!vars)
        BY <3>4, TransferStep, FilesNextInv DEF TransferInv
      <4>2. UNCHANGED Files!vars => UNCHANGED vars
        BY <3>1, <3>4 DEF Files!vars, vars, After7
      <4> QED BY <3>4, <4>1, <4>2
    <3>5. CASE part = "marks"
      <4>1. [Marks!GoneIsRemoved]_(Marks!vars)
        BY <3>5, TransferStep, MarksNextInv DEF TransferInv
      <4>2. UNCHANGED Marks!vars => UNCHANGED vars
        BY <3>1, <3>5 DEF Marks!vars, vars, After7
      <4> QED BY <3>5, <4>1, <4>2
    <3>6. CASE part \notin {"stream", "ids", "files", "marks"}
      BY <3>6
    <3> QED BY <3>2, <3>3, <3>4, <3>5, <3>6
  <2> QED BY <2>1, <2>2
<1> QED BY <1>1, TransferInitInv, TransferNextInv, PTL DEF Spec, NothingIsSpoilt
=============================================================================
