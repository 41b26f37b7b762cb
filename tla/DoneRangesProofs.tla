-------------------------- MODULE DoneRangesProofs --------------------------
(***************************************************************************)
(* What the arithmetic of DoneRanges computes, for arrays of every length, *)
(* files of every size and chunks of every size: a test of a range answers *)
(* for its bytes, a mark adds the bytes marked, a saved array loads back   *)
(* as it was, a reservation keeps off the bytes of the others, and the     *)
(* segments chosen are missing, free and different.                        *)
(*                                                                         *)
(* A loop is a recursive function over the array.  Each of its lemmas      *)
(* gives a function that solves the recursion, so that there is one, and   *)
(* then shows that any solution agrees with it: otherwise there would be a *)
(* first index at which it does not.                                       *)
(***************************************************************************)
EXTENDS DoneRanges, TLAPS, WellFoundedInduction, FiniteSetTheorems

Ranges == [start : Nat, end : Nat]

(* A nonempty set of naturals has a smallest member. *)
LEMMA SmallestProperties ==
    ASSUME NEW S \in SUBSET Nat, S # {}
    PROVE  Smallest(S) \in S /\ \A y \in S : Smallest(S) <= y
<1>1. \E x \in S : \A y \in S : ~(<<y, x>> \in OpToRel(<, Nat))
  BY WFMin, NatLessThanWellFounded
<1>2. PICK x \in S : \A y \in S : ~(<<y, x>> \in OpToRel(<, Nat))
  BY <1>1
<1>3. \A y \in S : x <= y
  <2>1. TAKE y \in S
  <2>2. ~(y < x)
    BY <1>2, <2>1 DEF OpToRel
  <2> QED BY <2>2
<1> QED BY <1>2, <1>3 DEF Smallest

(* A member of a set of integers with no smaller one is its smallest. *)
LEMMA SmallestIs ==
    ASSUME NEW S \in SUBSET Int, NEW x \in S, \A y \in S : x <= y
    PROVE  Smallest(S) = x
<1>1. \E z \in S : \A y \in S : z <= y
  OBVIOUS
<1>2. Smallest(S) \in S /\ \A y \in S : Smallest(S) <= y
  BY <1>1, Zenon DEF Smallest
<1>3. Smallest(S) <= x /\ x <= Smallest(S)
  BY <1>2
<1>4. Smallest(S) \in Int /\ x \in Int
  BY <1>2
<1> QED BY <1>3, <1>4

LEMMA LargestIs ==
    ASSUME NEW S \in SUBSET Int, NEW x \in S, \A y \in S : y <= x
    PROVE  Largest(S) = x
<1>1. \E z \in S : \A y \in S : y <= z
  OBVIOUS
<1>2. Largest(S) \in S /\ \A y \in S : y <= Largest(S)
  BY <1>1, Zenon DEF Largest
<1>3. Largest(S) <= x /\ x <= Largest(S)
  BY <1>2
<1>4. Largest(S) \in Int /\ x \in Int
  BY <1>2
<1> QED BY <1>3, <1>4

(* A loop stops at the first index of its set, or after the last range. *)
LEMMA StopAtProperties ==
    ASSUME NEW rs \in Seq(Ranges), NEW S \in SUBSET DOMAIN rs
    PROVE  /\ StopAt(rs, S) \in 1..(Len(rs) + 1)
           /\ StopAt(rs, S) # Len(rs) + 1 => StopAt(rs, S) \in S
           /\ \A i \in DOMAIN rs : i < StopAt(rs, S) => i \notin S
<1> DEFINE T == S \cup {Len(rs) + 1}
<1>1. Len(rs) \in Nat /\ DOMAIN rs = 1..Len(rs)
  OBVIOUS
<1>2. T \in SUBSET Nat /\ T # {} /\ \A i \in T : i \in 1..(Len(rs) + 1)
  BY <1>1
<1>3. Smallest(T) \in T /\ \A y \in T : Smallest(T) <= y
  BY <1>2, SmallestProperties
<1>4. StopAt(rs, S) = Smallest(T)
  BY DEF StopAt
<1> HIDE DEF T
<1>5. \A i \in T : i \in S \/ i = Len(rs) + 1
  BY DEF T
<1>6. S \subseteq T
  BY DEF T
<1>7. PICK m \in T : m = StopAt(rs, S) /\ \A y \in T : m <= y
  BY <1>3, <1>4
<1>8. m \in 1..(Len(rs) + 1) /\ (m # Len(rs) + 1 => m \in S)
  BY <1>2, <1>5
<1>9. \A i \in DOMAIN rs : i < m => i \notin S
  BY <1>1, <1>6, <1>7, <1>8
<1> QED BY <1>7, <1>8, <1>9

LEMMA RangeFields ==
    ASSUME NEW rs \in Seq(Ranges), NEW k \in DOMAIN rs
    PROVE  rs[k].start \in Nat /\ rs[k].end \in Nat
<1>1. rs[k] \in Ranges
  OBVIOUS
<1> QED BY <1>1 DEF Ranges

-----------------------------------------------------------------------------
(* The test of a range answers for its bytes. *)

LEMMA RangeDoneIsExact ==
    ASSUME NEW rs \in Seq(Ranges), Canonical(rs), NEW start \in Nat, NEW end \in Nat
    PROVE  IsRangeDone(rs, start, end) <=> start <= end /\ start..end \subseteq Bytes(rs)
<1>1. ASSUME IsRangeDone(rs, start, end)
      PROVE  start <= end /\ start..end \subseteq Bytes(rs)
  <2>1. PICK i \in DOMAIN rs : rs[i].start <= start /\ rs[i].end >= end
    BY <1>1 DEF IsRangeDone
  <2>2. rs[i].start \in Nat /\ rs[i].end \in Nat
    BY RangeFields
  <2>3. start..end \subseteq rs[i].start..rs[i].end
    BY <2>1, <2>2
  <2> QED BY <1>1, <2>3 DEF IsRangeDone, Bytes
<1>2. ASSUME start <= end, start..end \subseteq Bytes(rs)
      PROVE  IsRangeDone(rs, start, end)
  <2>1. PICK i \in DOMAIN rs : start \in rs[i].start..rs[i].end
    BY <1>2 DEF Bytes
  <2>2. \A k \in DOMAIN rs : rs[k].start \in Nat /\ rs[k].end \in Nat
    BY RangeFields
  <2>3. rs[i].end >= end
    <3> SUFFICES ASSUME rs[i].end < end PROVE FALSE
      BY <2>2
    <3>1. rs[i].end + 1 \in start..end
      BY <2>1, <2>2
    <3>2. PICK j \in DOMAIN rs : rs[i].end + 1 \in rs[j].start..rs[j].end
      BY <1>2, <3>1 DEF Bytes
    <3>3. j # i
      BY <3>2, <2>2
    <3>4. CASE i < j
      BY <3>4, <3>2, <2>2 DEF Canonical
    <3>5. CASE j < i
      <4>1. rs[j].end + 1 < rs[i].start
        BY <3>5 DEF Canonical
      <4> QED BY <4>1, <3>2, <2>2, <2>1
    <3> QED BY <3>3, <3>4, <3>5
  <2>4. \A j \in 1..(i-1) : rs[j].end < start
    <3> SUFFICES ASSUME NEW j \in 1..(i-1) PROVE rs[j].end < start
      OBVIOUS
    <3>1. j \in DOMAIN rs /\ j < i
      OBVIOUS
    <3>2. rs[j].end + 1 < rs[i].start
      BY <3>1 DEF Canonical
    <3> QED BY <3>1, <3>2, <2>1, <2>2
  <2> QED BY <1>2, <2>1, <2>2, <2>3, <2>4 DEF IsRangeDone
<1> QED BY <1>1, <1>2

-----------------------------------------------------------------------------
(* Marking a range. *)

(* A range put in the place of a run of others, apart from what stays. *)
LEMMA ReplaceIsExact ==
    ASSUME NEW rs \in Seq(Ranges), Canonical(rs),
           NEW lo \in 1..(Len(rs) + 1), NEW hi \in lo..(Len(rs) + 1),
           NEW r \in Ranges, r.start <= r.end,
           \A i \in DOMAIN rs : i < lo => rs[i].end + 1 < r.start,
           \A i \in DOMAIN rs : i >= hi => r.end + 1 < rs[i].start
    PROVE  /\ ReplaceRun(rs, lo, hi, r) \in Seq(Ranges)
           /\ Canonical(ReplaceRun(rs, lo, hi, r))
           /\ \A b : b \in Bytes(ReplaceRun(rs, lo, hi, r)) <=>
                      \/ b \in r.start..r.end
                      \/ \E i \in DOMAIN rs : (i < lo \/ i >= hi) /\ b \in rs[i].start..rs[i].end
<1> DEFINE n == Len(rs) - (hi - lo) + 1
           out == ReplaceRun(rs, lo, hi, r)
<1>1. Len(rs) \in Nat /\ DOMAIN rs = 1..Len(rs) /\ lo \in Nat /\ hi \in Nat /\ n \in Nat /\ lo <= n
  OBVIOUS
<1>2. DOMAIN out = 1..n /\ \A i \in 1..n :
        out[i] = IF i < lo THEN rs[i] ELSE IF i = lo THEN r ELSE rs[i + hi - lo - 1]
  BY DEF ReplaceRun
<1>3. \A i \in 1..n : /\ i < lo => i \in DOMAIN rs /\ out[i] = rs[i]
                      /\ i = lo => out[i] = r
                      /\ i > lo => /\ i + hi - lo - 1 \in DOMAIN rs
                                   /\ i + hi - lo - 1 >= hi
                                   /\ out[i] = rs[i + hi - lo - 1]
  <2> TAKE i \in 1..n
  <2>1. i < lo => i \in DOMAIN rs
    BY <1>1
  <2>2. i > lo => i + hi - lo - 1 \in DOMAIN rs /\ i + hi - lo - 1 >= hi
    BY <1>1
  <2>3. out[i] = IF i < lo THEN rs[i] ELSE IF i = lo THEN r ELSE rs[i + hi - lo - 1]
    BY <1>2
  <2>4. i \in Nat
    BY <1>1
  <2> HIDE DEF out, n
  <2>5. i < lo => out[i] = rs[i]
    BY <2>3
  <2>6. i = lo => out[i] = r
    BY <2>3, <2>4, <1>1
  <2>7. i > lo => out[i] = rs[i + hi - lo - 1]
    BY <2>3, <2>4, <1>1
  <2> QED BY <2>1, <2>2, <2>5, <2>6, <2>7
<1>4. r.start \in Nat /\ r.end \in Nat
  BY DEF Ranges
<1>5. \A k \in DOMAIN rs : rs[k] \in Ranges /\ rs[k].start \in Nat /\ rs[k].end \in Nat
  BY RangeFields
<1>6. out \in Seq(Ranges)
  <2>1. \A i \in 1..n : out[i] \in Ranges
    BY <1>1, <1>3, <1>5
  <2>2. out = [i \in 1..n |-> out[i]]
    BY DEF ReplaceRun
  <2> HIDE DEF out
  <2> QED BY <1>1, <2>1, <2>2
<1>7. Canonical(out)
  <2> HIDE DEF out
  <2>1. ASSUME NEW i \in 1..n PROVE out[i].start <= out[i].end
    <3>1. CASE i < lo
      BY <3>1, <1>3 DEF Canonical
    <3>2. CASE i = lo
      BY <3>2, <1>3
    <3>3. CASE i > lo
      BY <3>3, <1>3 DEF Canonical
    <3>4. i \in Int /\ lo \in Int
      BY <1>1
    <3> QED BY <3>1, <3>2, <3>3, <3>4
  <2>2. ASSUME NEW i \in 1..n, NEW j \in 1..n, i < j
        PROVE  out[i].end + 1 < out[j].start
    <3>1. CASE j < lo
      <4>1. i < lo
        BY <3>1, <2>2, <1>1
      <4>2. out[i] = rs[i] /\ out[j] = rs[j] /\ i \in DOMAIN rs /\ j \in DOMAIN rs
        BY <3>1, <4>1, <1>3
      <4> QED BY <2>2, <4>2 DEF Canonical
    <3>2. CASE j = lo
      BY <3>2, <2>2, <1>1, <1>3
    <3>3. CASE i = lo
      BY <3>3, <2>2, <1>1, <1>3
    <3>4. CASE i < lo /\ j > lo
      <4>1. out[i] = rs[i] /\ out[j] = rs[j + hi - lo - 1]
        BY <3>4, <1>3
      <4>2. i \in DOMAIN rs /\ j + hi - lo - 1 \in DOMAIN rs
        BY <3>4, <1>3
      <4>3. i < j + hi - lo - 1
        BY <3>4, <1>1
      <4> QED BY <4>1, <4>2, <4>3 DEF Canonical
    <3>5. CASE i > lo
      <4>1. j > lo
        BY <3>5, <2>2, <1>1
      <4>2. out[i] = rs[i + hi - lo - 1] /\ i + hi - lo - 1 \in DOMAIN rs
        BY <3>5, <1>3
      <4>3. out[j] = rs[j + hi - lo - 1] /\ j + hi - lo - 1 \in DOMAIN rs
        BY <4>1, <1>3
      <4>4. i + hi - lo - 1 < j + hi - lo - 1
        BY <2>2, <1>1
      <4> QED BY <4>2, <4>3, <4>4 DEF Canonical
    <3> QED BY <3>1, <3>2, <3>3, <3>4, <3>5, <2>2, <1>1
  <2> QED BY <1>2, <2>1, <2>2 DEF Canonical
<1>8. ASSUME NEW b, b \in Bytes(out)
      PROVE  \/ b \in r.start..r.end
             \/ \E i \in DOMAIN rs : (i < lo \/ i >= hi) /\ b \in rs[i].start..rs[i].end
  <2> HIDE DEF out
  <2>1. PICK i \in 1..n : b \in out[i].start..out[i].end
    BY <1>8, <1>2 DEF Bytes
  <2>2. CASE i < lo
    BY <2>1, <2>2, <1>3
  <2>3. CASE i = lo
    BY <2>1, <2>3, <1>3
  <2>4. CASE i > lo
    BY <2>1, <2>4, <1>3
  <2> QED BY <2>2, <2>3, <2>4, <1>1
<1>9. ASSUME NEW b, b \in r.start..r.end PROVE b \in Bytes(out)
  <2> HIDE DEF out
  <2>1. lo \in 1..n /\ out[lo] = r
    BY <1>1, <1>3
  <2> QED BY <1>2, <1>9, <2>1 DEF Bytes
<1>10. ASSUME NEW b, NEW i \in DOMAIN rs, i < lo \/ i >= hi, b \in rs[i].start..rs[i].end
       PROVE  b \in Bytes(out)
  <2> HIDE DEF out
  <2>1. CASE i < lo
    <3>1. i \in 1..n /\ out[i] = rs[i]
      BY <2>1, <1>1, <1>3
    <3> QED BY <1>2, <1>10, <3>1 DEF Bytes
  <2>2. CASE i >= hi
    <3> DEFINE j == i + lo + 1 - hi
    <3>1. j \in 1..n /\ j > lo /\ j + hi - lo - 1 = i
      <4>1. i \in Nat /\ i <= Len(rs) /\ hi <= i /\ lo \in Nat /\ hi \in Nat /\ Len(rs) \in Nat
        BY <2>2, <1>1
      <4> QED BY <4>1
    <3>2. out[j] = rs[i]
      BY <3>1, <1>3
    <3> HIDE DEF j
    <3> QED BY <1>2, <1>10, <3>1, <3>2 DEF Bytes
  <2> QED BY <1>10, <2>1, <2>2
<1> HIDE DEF out
<1>11. \A b : b \in Bytes(out) <=>
                 \/ b \in r.start..r.end
                 \/ \E i \in DOMAIN rs : (i < lo \/ i >= hi) /\ b \in rs[i].start..rs[i].end
  BY <1>8, <1>9, <1>10
<1> QED BY <1>6, <1>7, <1>11 DEF out

(* The ranges a new one reaches are lo .. hi-1: those before lo end short of *)
(* it, those from hi on begin beyond it and beyond what it has swallowed.   *)
LEMMA RunProperties ==
    ASSUME NEW rs \in Seq(Ranges), Canonical(rs),
           NEW start \in Nat, NEW end \in Nat, start <= end,
           NEW lo, lo = Lo(rs, start), NEW hi, hi = Hi(rs, lo, end)
    PROVE  /\ lo \in 1..(Len(rs) + 1)
           /\ hi \in lo..(Len(rs) + 1)
           /\ \A i \in DOMAIN rs : i < lo => rs[i].end + 1 < start
           /\ \A i \in DOMAIN rs : i >= lo => rs[i].end + 1 >= start
           /\ \A i \in DOMAIN rs : lo <= i /\ i < hi => rs[i].start <= end + 1
           /\ \A i \in DOMAIN rs : i >= hi =>
                 /\ end + 1 < rs[i].start
                 /\ \A k \in lo..(hi - 1) : rs[k].end + 1 < rs[i].start
<1> DEFINE L == {i \in DOMAIN rs : rs[i].end + 1 >= start}
           H == {i \in DOMAIN rs :
                  i >= lo /\ \A x \in Ends(rs, lo, i, end) : rs[i].start > x + 1}
<1>1. Len(rs) \in Nat /\ DOMAIN rs = 1..Len(rs)
  OBVIOUS
<1>2. \A k \in DOMAIN rs : rs[k].start \in Nat /\ rs[k].end \in Nat
  BY RangeFields
<1>3. lo = StopAt(rs, L) /\ hi = StopAt(rs, H)
  BY DEF Lo, Hi
<1>4. L \in SUBSET DOMAIN rs /\ H \in SUBSET DOMAIN rs
  OBVIOUS
<1>5. /\ lo \in 1..(Len(rs) + 1)
      /\ lo # Len(rs) + 1 => lo \in L
      /\ \A i \in DOMAIN rs : i < lo => i \notin L
  <2> HIDE DEF L
  <2> QED BY <1>3, <1>4, StopAtProperties
<1>6. /\ hi \in 1..(Len(rs) + 1)
      /\ hi # Len(rs) + 1 => hi \in H
      /\ \A i \in DOMAIN rs : i < hi => i \notin H
  <2> HIDE DEF L, H
  <2>1. H \in SUBSET DOMAIN rs
    BY <1>4
  <2>2. /\ StopAt(rs, H) \in 1..(Len(rs) + 1)
        /\ StopAt(rs, H) # Len(rs) + 1 => StopAt(rs, H) \in H
        /\ \A i \in DOMAIN rs : i < StopAt(rs, H) => i \notin H
    BY <2>1, StopAtProperties
  <2>3. hi = StopAt(rs, H)
    BY <1>3
  <2> QED BY <2>2, <2>3
<1>7. hi \in lo..(Len(rs) + 1)
  BY <1>1, <1>5, <1>6
<1>8. ASSUME NEW i \in DOMAIN rs, i < lo PROVE rs[i].end + 1 < start
  BY <1>2, <1>5, <1>8
<1>9. ASSUME NEW i \in DOMAIN rs, i >= lo PROVE rs[i].end + 1 >= start
  <2>1. lo \in DOMAIN rs /\ rs[lo].end + 1 >= start
    BY <1>1, <1>5, <1>9
  <2>2. CASE i = lo
    BY <2>1, <2>2
  <2>3. CASE lo < i
    <3>1. rs[lo].end + 1 < rs[i].start /\ rs[i].start <= rs[i].end
      BY <2>1, <2>3 DEF Canonical
    <3> QED BY <1>2, <2>1, <3>1
  <2> QED BY <1>1, <1>5, <1>9, <2>2, <2>3
<1>10. ASSUME NEW i \in DOMAIN rs, lo <= i, i < hi PROVE rs[i].start <= end + 1
  <2>1. i \notin H
    BY <1>6, <1>10
  <2>2. PICK x \in Ends(rs, lo, i, end) : ~(rs[i].start > x + 1)
    BY <1>10, <2>1
  <2>3. CASE x = end
    BY <1>2, <2>2, <2>3
  <2>4. CASE \E k \in lo..(i-1) : x = rs[k].end
    <3>1. PICK k \in lo..(i-1) : x = rs[k].end
      BY <2>4
    <3>2. k \in DOMAIN rs /\ k < i
      BY <1>1, <1>5
    <3>3. rs[k].end + 1 < rs[i].start
      BY <3>2 DEF Canonical
    <3>4. rs[i].start \in Nat /\ rs[k].end \in Nat
      BY <1>2, <3>2
    <3>5. ~(rs[i].start > rs[k].end + 1)
      BY <2>2, <3>1
    <3> QED BY <3>3, <3>4, <3>5
  <2> QED BY <2>3, <2>4 DEF Ends
<1>11. ASSUME NEW i \in DOMAIN rs, i >= hi
       PROVE  /\ end + 1 < rs[i].start
              /\ \A k \in lo..(hi - 1) : rs[k].end + 1 < rs[i].start
  <2>1. hi \in DOMAIN rs /\ \A x \in Ends(rs, lo, hi, end) : rs[hi].start > x + 1
    BY <1>1, <1>6, <1>11
  <2>2. rs[hi].start > end + 1
    BY <2>1 DEF Ends
  <2>3. ASSUME NEW k \in lo..(hi - 1) PROVE rs[k].end + 1 < rs[i].start
    <3>1. k \in DOMAIN rs /\ k < i
      BY <1>1, <1>5, <1>6, <1>11
    <3> QED BY <3>1 DEF Canonical
  <2>4. CASE i = hi
    BY <1>2, <2>1, <2>2, <2>3, <2>4
  <2>5. CASE hi < i
    <3>1. rs[hi].end + 1 < rs[i].start /\ rs[hi].start <= rs[hi].end
      BY <2>1, <2>5 DEF Canonical
    <3> QED BY <1>2, <2>1, <2>2, <2>3, <3>1
  <2> QED BY <1>1, <1>6, <1>11, <2>4, <2>5
<1> HIDE DEF L, H
<1> QED BY <1>5, <1>7, <1>8, <1>9, <1>10, <1>11

LEMMA MergeIsExact ==
    ASSUME NEW rs \in Seq(Ranges), Canonical(rs),
           NEW start \in Nat, NEW end \in Nat, start <= end
    PROVE  /\ MergeRange(rs, start, end) \in Seq(Ranges)
           /\ Canonical(MergeRange(rs, start, end))
           /\ Bytes(MergeRange(rs, start, end)) = Bytes(rs) \cup (start..end)
<1>1. Len(rs) \in Nat /\ DOMAIN rs = 1..Len(rs)
  OBVIOUS
<1>2. \A k \in DOMAIN rs : rs[k].start \in Nat /\ rs[k].end \in Nat
  BY RangeFields
<1>3. PICK lo, hi : lo = Lo(rs, start) /\ hi = Hi(rs, lo, end)
  OBVIOUS
<1>4. /\ lo \in 1..(Len(rs) + 1)
      /\ hi \in lo..(Len(rs) + 1)
      /\ \A i \in DOMAIN rs : i < lo => rs[i].end + 1 < start
      /\ \A i \in DOMAIN rs : i >= lo => rs[i].end + 1 >= start
      /\ \A i \in DOMAIN rs : lo <= i /\ i < hi => rs[i].start <= end + 1
      /\ \A i \in DOMAIN rs : i >= hi =>
            /\ end + 1 < rs[i].start
            /\ \A k \in lo..(hi - 1) : rs[k].end + 1 < rs[i].start
  BY <1>3, RunProperties
<1>5. ASSUME NEW r \in Ranges, r.start <= r.end,
             \A i \in DOMAIN rs : i < lo => rs[i].end + 1 < r.start,
             \A i \in DOMAIN rs : i >= hi => r.end + 1 < rs[i].start,
             MergeRange(rs, start, end) = ReplaceRun(rs, lo, hi, r),
             \A b : b \in r.start..r.end <=>
                      \/ b \in start..end
                      \/ \E i \in DOMAIN rs : lo <= i /\ i < hi /\ b \in rs[i].start..rs[i].end
      PROVE  /\ MergeRange(rs, start, end) \in Seq(Ranges)
             /\ Canonical(MergeRange(rs, start, end))
             /\ Bytes(MergeRange(rs, start, end)) = Bytes(rs) \cup (start..end)
  <2>1. /\ MergeRange(rs, start, end) \in Seq(Ranges)
        /\ Canonical(MergeRange(rs, start, end))
        /\ \A b : b \in Bytes(MergeRange(rs, start, end)) <=>
                   \/ b \in r.start..r.end
                   \/ \E i \in DOMAIN rs : (i < lo \/ i >= hi) /\ b \in rs[i].start..rs[i].end
    BY <1>4, <1>5, ReplaceIsExact
  <2>2. \A i \in DOMAIN rs : i < lo \/ i >= hi \/ (lo <= i /\ i < hi)
    BY <1>1, <1>4
  <2>3. \A b : b \in Bytes(rs) <=> \E i \in DOMAIN rs : b \in rs[i].start..rs[i].end
    BY DEF Bytes
  <2>4. \A b : b \in Bytes(MergeRange(rs, start, end)) <=> b \in Bytes(rs) \/ b \in start..end
    BY <1>5, <2>1, <2>2, <2>3
  <2> QED BY <2>1, <2>4
<1> DEFINE merged == [start |-> Smallest(Starts(rs, lo, hi, start)),
                      end   |-> Largest(Ends(rs, lo, hi, end))]
<1>6. MergeRange(rs, start, end) = IF hi > lo THEN ReplaceRun(rs, lo, hi, merged)
                                              ELSE InsertSorted(rs, merged)
  BY <1>3 DEF MergeRange
<1>7. CASE hi = lo
  <2>1. Starts(rs, lo, hi, start) = {start} /\ Ends(rs, lo, hi, end) = {end}
    BY <1>1, <1>4, <1>7 DEF Starts, Ends
  <2>2. merged = [start |-> start, end |-> end]
    <3>1. Smallest({start}) = start
      <4>1. {start} \in SUBSET Int /\ start \in {start} /\ \A y \in {start} : start <= y
        OBVIOUS
      <4> QED BY <4>1, SmallestIs, Zenon
    <3>2. Largest({end}) = end
      <4>1. {end} \in SUBSET Int /\ end \in {end} /\ \A y \in {end} : y <= end
        OBVIOUS
      <4> QED BY <4>1, LargestIs, Zenon
    <3> QED BY <2>1, <3>1, <3>2
  <2> DEFINE P == {i \in DOMAIN rs : rs[i].start >= start}
  <2>3. \A i \in DOMAIN rs : i < lo <=> i \notin P
    <3> SUFFICES ASSUME NEW i \in DOMAIN rs PROVE i < lo <=> i \notin P
      OBVIOUS
    <3>1. ASSUME i < lo PROVE rs[i].start < start
      <4>1. rs[i].start <= rs[i].end /\ rs[i].end + 1 < start
        BY <1>4, <3>1 DEF Canonical
      <4> QED BY <1>2, <4>1
    <3>2. ASSUME ~(i < lo) PROVE rs[i].start >= start
      <4>1. i >= hi
        BY <1>1, <1>4, <1>7, <3>2
      <4>2. end + 1 < rs[i].start
        BY <1>4, <4>1
      <4> QED BY <1>2, <4>2
    <3>3. rs[i].start \in Int
      BY <1>2
    <3> QED BY <3>1, <3>2, <3>3
  <2>4. PICK at : at = StopAt(rs, P)
    OBVIOUS
  <2>5. /\ at \in 1..(Len(rs) + 1)
        /\ at # Len(rs) + 1 => at \in P
        /\ \A i \in DOMAIN rs : i < at => i \notin P
    <3>1. P \in SUBSET DOMAIN rs
      OBVIOUS
    <3> HIDE DEF P
    <3> QED BY <2>4, <3>1, StopAtProperties
  <2>6. at = lo
    <3>1. P \subseteq DOMAIN rs
      OBVIOUS
    <3> HIDE DEF P
    <3>2. ~(at < lo)
      <4> SUFFICES ASSUME at < lo PROVE FALSE
        OBVIOUS
      <4>1. at \in P
        BY <1>1, <1>4, <2>5
      <4> QED BY <2>3, <3>1, <4>1
    <3>3. ~(lo < at)
      <4> SUFFICES ASSUME lo < at PROVE FALSE
        OBVIOUS
      <4>1. lo \in DOMAIN rs
        BY <1>1, <1>4, <2>5
      <4>2. lo \notin P
        BY <2>5, <4>1
      <4>3. lo < lo
        BY <2>3, <4>1, <4>2
      <4> QED BY <1>4, <4>3
    <3> QED BY <1>4, <2>5, <3>2, <3>3
  <2>7. MergeRange(rs, start, end) = ReplaceRun(rs, lo, hi, merged)
    <3>1. InsertSorted(rs, merged) = ReplaceRun(rs, at, at, merged)
      BY <2>2, <2>4 DEF InsertSorted
    <3> QED BY <1>4, <1>6, <1>7, <2>6, <3>1
  <2>8. merged \in Ranges /\ merged.start = start /\ merged.end = end
    BY <2>2 DEF Ranges
  <2>9. ~\E i \in DOMAIN rs : lo <= i /\ i < hi
    BY <1>1, <1>4, <1>7
  <2> HIDE DEF merged
  <2> QED BY <1>4, <1>5, <2>7, <2>8, <2>9
<1>8. CASE hi > lo
  <2> DEFINE first == rs[lo].start
             last  == rs[hi - 1].end
  <2>1. /\ lo \in DOMAIN rs /\ hi - 1 \in DOMAIN rs
        /\ \A k : k \in lo..(hi - 1) <=> k \in DOMAIN rs /\ lo <= k /\ k < hi
    BY <1>1, <1>4, <1>8
  <2>2. ASSUME NEW k \in lo..(hi - 1)
        PROVE  /\ k \in DOMAIN rs
               /\ first <= rs[k].start
               /\ rs[k].end <= last
               /\ rs[k].start <= end + 1
               /\ start <= rs[k].end + 1
    <3>1. k \in DOMAIN rs /\ lo <= k /\ k < hi /\ k <= hi - 1
      BY <2>1, <1>4
    <3>2. first <= rs[k].start
      <4>1. CASE k = lo
        BY <4>1, <1>2, <3>1
      <4>2. CASE lo < k
        <5>1. rs[lo].end + 1 < rs[k].start /\ rs[lo].start <= rs[lo].end
          BY <2>1, <3>1, <4>2 DEF Canonical
        <5> QED BY <5>1, <1>2, <2>1, <3>1
      <4> QED BY <4>1, <4>2, <3>1, <1>4
    <3>3. rs[k].end <= last
      <4>1. CASE k = hi - 1
        BY <4>1, <1>2, <3>1
      <4>2. CASE k < hi - 1
        <5>1. rs[k].end + 1 < rs[hi - 1].start /\ rs[hi - 1].start <= rs[hi - 1].end
          BY <2>1, <3>1, <4>2 DEF Canonical
        <5> QED BY <5>1, <1>2, <2>1, <3>1
      <4> QED BY <4>1, <4>2, <3>1, <1>4
    <3>4. rs[k].start <= end + 1 /\ rs[k].end + 1 >= start
      BY <3>1, <1>4
    <3> QED BY <3>1, <3>2, <3>3, <3>4, <1>2
  <2>3. first \in Nat /\ last \in Nat
    BY <1>2, <2>1
  <2>4. lo \in lo..(hi - 1) /\ hi - 1 \in lo..(hi - 1)
    BY <1>4, <1>8
  <2> HIDE DEF first, last
  <2>5. PICK s \in Nat : s = Smallest(Starts(rs, lo, hi, start)) /\ s <= start /\ s <= first
                        /\ (s = start \/ s = first)
    <3> DEFINE SS == Starts(rs, lo, hi, start)
    <3>1. SS \in SUBSET Int /\ start \in SS /\ first \in SS
      BY <1>2, <2>2, <2>4 DEF Starts, first
    <3>2. \A y \in SS : y = start \/ first <= y
      BY <2>2 DEF Starts
    <3> HIDE DEF SS
    <3>3. CASE start <= first
      <4>1. \A y \in SS : start <= y
        BY <3>1, <3>2, <3>3, <2>3
      <4>2. Smallest(SS) = start
        BY <3>1, <4>1, SmallestIs
      <4> QED BY <3>3, <4>2 DEF SS
    <3>4. CASE first <= start
      <4>1. \A y \in SS : first <= y
        BY <3>2, <3>4, <2>3
      <4>2. Smallest(SS) = first
        BY <3>1, <4>1, SmallestIs
      <4> QED BY <2>3, <3>4, <4>2 DEF SS
    <3> QED BY <3>3, <3>4, <2>3
  <2>6. PICK e \in Nat : e = Largest(Ends(rs, lo, hi, end)) /\ end <= e /\ last <= e
                        /\ (e = end \/ e = last)
    <3> DEFINE EE == Ends(rs, lo, hi, end)
    <3>1. EE \in SUBSET Int /\ end \in EE /\ last \in EE
      BY <1>2, <2>2, <2>4 DEF Ends, last
    <3>2. \A y \in EE : y = end \/ y <= last
      BY <2>2 DEF Ends
    <3> HIDE DEF EE
    <3>3. CASE last <= end
      <4>1. \A y \in EE : y <= end
        BY <3>1, <3>2, <3>3, <2>3
      <4>2. Largest(EE) = end
        BY <3>1, <4>1, LargestIs
      <4> QED BY <3>3, <4>2 DEF EE
    <3>4. CASE end <= last
      <4>1. \A y \in EE : y <= last
        BY <3>2, <3>4, <2>3
      <4>2. Largest(EE) = last
        BY <3>1, <4>1, LargestIs
      <4> QED BY <2>3, <3>4, <4>2 DEF EE
    <3> QED BY <3>3, <3>4, <2>3
  <2>7. merged = [start |-> s, end |-> e]
    BY <2>5, <2>6
  <2>8. merged \in Ranges /\ merged.start = s /\ merged.end = e
    BY <2>7 DEF Ranges
  <2>9. MergeRange(rs, start, end) = ReplaceRun(rs, lo, hi, merged)
    BY <1>6, <1>8
  <2> HIDE DEF merged
  <2>10. ASSUME NEW i \in DOMAIN rs, i < lo PROVE rs[i].end + 1 < s
    <3>1. rs[i].end + 1 < start
      BY <1>4, <2>10
    <3>2. rs[i].end + 1 < first
      BY <2>1, <2>10 DEF Canonical, first
    <3> QED BY <2>5, <3>1, <3>2
  <2>11. ASSUME NEW i \in DOMAIN rs, i >= hi PROVE e + 1 < rs[i].start
    <3>1. end + 1 < rs[i].start
      BY <1>4, <2>11
    <3>2. last + 1 < rs[i].start
      BY <1>4, <2>4, <2>11 DEF last
    <3> QED BY <2>6, <3>1, <3>2
  <2>12. ASSUME NEW b, b \in s..e
         PROVE  \/ b \in start..end
                \/ \E i \in DOMAIN rs : lo <= i /\ i < hi /\ b \in rs[i].start..rs[i].end
    <3>1. b \in Int /\ s <= b /\ b <= e
      BY <2>12
    <3>2. CASE b < start
      <4>1. b \in rs[lo].start..rs[lo].end
        <5>1. start <= rs[lo].end + 1
          BY <2>2, <2>4
        <5>2. first <= b
          BY <3>1, <3>2, <2>5
        <5> QED BY <5>1, <5>2, <3>1, <3>2, <1>2, <2>1 DEF first
      <4> QED BY <4>1, <2>1, <2>4
    <3>3. CASE b > end
      <4>1. b \in rs[hi - 1].start..rs[hi - 1].end
        <5>1. rs[hi - 1].start <= end + 1
          BY <2>2, <2>4
        <5>2. b <= last
          BY <3>1, <3>3, <2>6
        <5> QED BY <5>1, <5>2, <3>1, <3>3, <1>2, <2>1 DEF last
      <4> QED BY <4>1, <2>1, <2>4
    <3> QED BY <3>1, <3>2, <3>3
  <2>13. ASSUME NEW b, b \in start..end PROVE b \in s..e
    BY <2>5, <2>6, <2>13
  <2>14. ASSUME NEW b, NEW i \in DOMAIN rs, lo <= i, i < hi, b \in rs[i].start..rs[i].end
         PROVE  b \in s..e
    <3>1. i \in lo..(hi - 1)
      BY <2>1, <2>14
    <3>2. first <= rs[i].start /\ rs[i].end <= last
      BY <2>2, <3>1
    <3>3. rs[i].start \in Nat /\ rs[i].end \in Nat
      BY <1>2
    <3> QED BY <2>3, <2>5, <2>6, <2>14, <3>2, <3>3
  <2>15. \A b : b \in merged.start..merged.end <=>
                  \/ b \in start..end
                  \/ \E i \in DOMAIN rs : lo <= i /\ i < hi /\ b \in rs[i].start..rs[i].end
    BY <2>8, <2>12, <2>13, <2>14
  <2>16. merged.start <= merged.end
    BY <2>5, <2>6, <2>8
  <2> QED BY <1>5, <2>8, <2>9, <2>10, <2>11, <2>15, <2>16
<1> QED BY <1>4, <1>7, <1>8

(* A mark leaves the array sorted and apart, and adds to it the bytes of the *)
(* range that lie inside the file and no others, whichever ranges it touches *)
(* or swallows (download_state_mark_range_done).                             *)
LEMMA MarkIsExact ==
    ASSUME NEW rs \in Seq(Ranges), Canonical(rs), NEW total \in Nat,
           NEW start \in Nat, NEW end \in Nat, start <= end
    PROVE  /\ MarkRangeDone(rs, total, start, end) \in Seq(Ranges)
           /\ Canonical(MarkRangeDone(rs, total, start, end))
           /\ \A b : b \in Bytes(MarkRangeDone(rs, total, start, end)) <=>
                      \/ b \in Bytes(rs)
                      \/ b \in start..end /\ (total = 0 \/ b < total)
<1> DEFINE last == LastByte(total, end)
           added == {b \in start..end : total = 0 \/ b < total}
           out == MarkRangeDone(rs, total, start, end)
<1>4. CASE total > 0 /\ start >= total
  <2>1. added = {}
    BY <1>4
  <2>2. out = rs
    BY <1>4 DEF MarkRangeDone
  <2> HIDE DEF out
  <2>3. Bytes(rs) = Bytes(rs) \cup added
    BY <2>1
  <2>4. out \in Seq(Ranges) /\ Canonical(out) /\ Bytes(out) = Bytes(rs) \cup added
    BY <2>2, <2>3
  <2> QED BY <2>4 DEF out
<1>5. CASE ~(total > 0 /\ start >= total)
  <2>1. last \in Nat /\ start <= last /\ added = start..last
    BY <1>5 DEF LastByte
  <2>2. out = IF IsRangeDone(rs, start, last) THEN rs ELSE MergeRange(rs, start, last)
    BY <1>5 DEF MarkRangeDone
  <2> HIDE DEF added, last
  <2>3. CASE IsRangeDone(rs, start, last)
    <3>1. start..last \subseteq Bytes(rs)
      BY <2>1, <2>3, RangeDoneIsExact
    <3> HIDE DEF out
    <3> QED BY <2>1, <2>2, <2>3, <3>1 DEF out, added
  <2>4. CASE ~IsRangeDone(rs, start, last)
    <3>1. out = MergeRange(rs, start, last)
      BY <2>2, <2>4
    <3>2. /\ MergeRange(rs, start, last) \in Seq(Ranges)
          /\ Canonical(MergeRange(rs, start, last))
          /\ Bytes(MergeRange(rs, start, last)) = Bytes(rs) \cup (start..last)
      BY <2>1, MergeIsExact
    <3> QED BY <2>1, <3>1, <3>2 DEF added
  <2> QED BY <2>3, <2>4
<1> QED BY <1>4, <1>5

(* A connection that reserves on stays inside the file, takes at most a     *)
(* chunk, keeps off the ranges of the others and does not take bytes that   *)
(* are all done (segment_next_reserve_end).                                 *)
LEMMA ReserveEndIsSound ==
    ASSUME NEW rs \in Seq(Ranges), Canonical(rs), NEW total \in Nat, NEW chunk \in Nat \ {0},
           NEW inFlight, \A r \in inFlight : r.start \in Int /\ r.end \in Int,
           NEW end \in Nat, end < total,
           NEW next \in {NextReserveEnd(rs, total, chunk, inFlight, end)}
    PROVE  /\ next \in end..(end + chunk)
           /\ next < total
           /\ \A r \in inFlight : ((end + 1)..next) \cap (r.start..r.end) = {}
           /\ next > end => ~(((end + 1)..next) \subseteq Bytes(rs))
<1>1. chunk \in Nat /\ chunk > 0
  OBVIOUS
<1>4. CASE next = end
  <2>1. (end + 1)..next = {}
    BY <1>1, <1>4
  <2> QED BY <1>1, <1>4, <2>1
<1>5. CASE next # end
  <2> DEFINE want == [start |-> end + 1, end |-> LastByte(total, end + chunk)]
  <2>1. next = IF \/ total = 0
                  \/ end >= total - 1
                  \/ IsRangeDone(rs, want.start, want.end)
                  \/ ~Free(want, inFlight)
               THEN end ELSE want.end
    BY DEF NextReserveEnd
  <2>2. want.start = end + 1 /\ want.end = LastByte(total, end + chunk)
    OBVIOUS
  <2> HIDE DEF want
  <2>3. /\ next = LastByte(total, end + chunk)
        /\ end < total - 1
        /\ ~IsRangeDone(rs, end + 1, next)
        /\ Free(want, inFlight)
    <3>1. /\ ~(end >= total - 1)
          /\ ~IsRangeDone(rs, want.start, want.end)
          /\ Free(want, inFlight)
          /\ next = want.end
      BY <1>5, <2>1
    <3>2. end < total - 1
      BY <1>1, <3>1
    <3> QED BY <2>2, <3>1, <3>2
  <2>4. next \in Nat /\ end < next /\ next <= end + chunk /\ next < total
    BY <1>1, <2>3 DEF LastByte
  <2>5. ~((end + 1)..next \subseteq Bytes(rs))
    <3>1. end + 1 \in Nat /\ end + 1 <= next /\ next \in Nat
      BY <2>4
    <3> QED BY <2>3, <3>1, RangeDoneIsExact
  <2>6. ASSUME NEW r \in inFlight
        PROVE  ((end + 1)..next) \cap (r.start..r.end) = {}
    <3>1. ~Overlap(want, r)
      BY <2>3 DEF Free
    <3>2. want.start = end + 1 /\ want.end = next
      BY <2>3, <2>2
    <3> QED BY <1>1, <2>4, <3>1, <3>2 DEF Overlap
  <2> QED BY <1>1, <2>4, <2>5, <2>6
<1> QED BY <1>4, <1>5

-----------------------------------------------------------------------------
(* The loops over the array. *)


(* A property that a step hands on holds at every index of a loop: the      *)
(* indices at which it fails have no smallest one.                          *)
LEMMA NoFirstFailure ==
    ASSUME NEW len \in Nat, NEW Fails \in SUBSET (0..len),
           \A n \in Fails : n # 0 /\ n - 1 \in Fails
    PROVE  Fails = {}
<1> SUFFICES ASSUME Fails # {} PROVE FALSE
  OBVIOUS
<1>1. Fails \in SUBSET Nat
  OBVIOUS
<1>2. PICK n \in Fails : \A y \in Fails : n <= y
  BY <1>1, SmallestProperties
<1>3. n \in Nat /\ n - 1 \in Fails
  BY <1>1, <1>2
<1>4. n <= n - 1
  BY <1>2, <1>3
<1> QED BY <1>3, <1>4

(* A loop that computes one value from the one before, each of them in S,   *)
(* has a solution: it is made index by index.                               *)
IsLoop(g, N, S, a, F) ==
    g \in [0..N -> S] /\ g[0] = a /\ \A n \in 1..N : g[n] = F[n][g[n - 1]]

LEMMA LoopExists ==
    ASSUME NEW N \in Nat, NEW S, NEW a \in S, NEW F \in [1..N -> [S -> S]]
    PROVE  \E g : IsLoop(g, N, S, a, F)
<1> DEFINE Solves(g, m) == /\ g \in [0..m -> S] /\ g[0] = a
                           /\ \A n \in 1..m : g[n] = F[n][g[n - 1]]
           Fails == {m \in 0..N : ~\E g : Solves(g, m)}
<1>1. ASSUME NEW m \in Fails PROVE m # 0 /\ m - 1 \in Fails
  <2>1. m # 0
    <3> SUFFICES ASSUME m = 0 PROVE FALSE
      OBVIOUS
    <3>1. Solves([i \in 0..0 |-> a], 0)
      OBVIOUS
    <3> QED BY <1>1, <3>1
  <2>2. m \in 1..N /\ m - 1 \in 0..N /\ m - 1 \in Nat /\ m \in Nat
    BY <1>1, <2>1
  <2>3. ASSUME NEW g, Solves(g, m - 1) PROVE FALSE
    <3> DEFINE last == F[m][g[m - 1]]
               h == [i \in 0..m |-> IF i = m THEN last ELSE g[i]]
    <3>1. g[m - 1] \in S /\ last \in S
      BY <2>2, <2>3
    <3>2. h \in [0..m -> S] /\ h[0] = a /\ h[m] = last
      <4> HIDE DEF last
      <4> QED BY <2>2, <2>3, <3>1
    <3>3. ASSUME NEW n \in 1..m PROVE h[n] = F[n][h[n - 1]]
      <4>1. h[n - 1] = g[n - 1]
        BY <2>2
      <4>2. CASE n = m
        BY <3>2, <4>1, <4>2
      <4>3. CASE n # m
        <5>1. n \in 1..(m - 1) /\ h[n] = g[n]
          BY <2>2, <4>3
        <5> HIDE DEF h, last
        <5> QED BY <2>3, <4>1, <5>1
      <4> QED BY <4>2, <4>3
    <3>4. Solves(h, m)
      <4> HIDE DEF h, last
      <4> QED BY <3>2, <3>3
    <3> QED BY <1>1, <3>4
  <2> HIDE DEF Solves
  <2> QED BY <2>1, <2>2, <2>3
<1>2. Fails = {}
  <2> HIDE DEF Solves
  <2>1. Fails \in SUBSET (0..N)
    OBVIOUS
  <2> HIDE DEF Fails
  <2> QED BY <1>1, <2>1, NoFirstFailure
<1>3. \E g : Solves(g, N)
  <2> SUFFICES ASSUME ~\E g : Solves(g, N) PROVE FALSE
    OBVIOUS
  <2>1. N \in 0..N
    OBVIOUS
  <2> HIDE DEF Solves
  <2>2. N \in Fails
    BY <2>1
  <2> QED BY <1>2, <2>2
<1> QED BY <1>3 DEF IsLoop

(* The beginning of an array that is still to be continued. *)
LEMMA AppendNext ==
    ASSUME NEW rs \in Seq(Ranges), NEW n \in 1..Len(rs)
    PROVE  /\ SubSeq(rs, 1, n - 1) \in Seq(Ranges)
           /\ Len(SubSeq(rs, 1, n - 1)) = n - 1
           /\ \A i \in 1..(n - 1) : SubSeq(rs, 1, n - 1)[i] = rs[i]
           /\ Append(SubSeq(rs, 1, n - 1), rs[n]) = SubSeq(rs, 1, n)
<1>1. Len(rs) \in Nat /\ n - 1 \in 0..Len(rs) /\ n - 1 \in Nat
  OBVIOUS
<1>2. /\ SubSeq(rs, 1, n - 1) \in Seq(Ranges)
      /\ Len(SubSeq(rs, 1, n - 1)) = n - 1
      /\ \A i \in 1..(n - 1) : SubSeq(rs, 1, n - 1)[i] = rs[i]
  BY <1>1
<1>3. /\ SubSeq(rs, 1, n) \in Seq(Ranges)
      /\ Len(SubSeq(rs, 1, n)) = n
      /\ \A i \in 1..n : SubSeq(rs, 1, n)[i] = rs[i]
  BY <1>1
<1>4. Append(SubSeq(rs, 1, n - 1), rs[n]) = SubSeq(rs, 1, n)
  <2>1. rs[n] \in Ranges
    BY <1>1
  <2> DEFINE p == SubSeq(rs, 1, n - 1)
             q == SubSeq(rs, 1, n)
  <2> HIDE DEF p, q
  <2>2. p \in Seq(Ranges) /\ Len(p) = n - 1 /\ \A i \in 1..(n - 1) : p[i] = rs[i]
    BY <1>2 DEF p
  <2>3. q \in Seq(Ranges) /\ Len(q) = n /\ \A i \in 1..n : q[i] = rs[i]
    BY <1>3 DEF q
  <2>4. Append(p, rs[n]) \in Seq(Ranges) /\ Len(Append(p, rs[n])) = n
    BY <2>1, <2>2, <1>1
  <2>5. \A i \in 1..n : Append(p, rs[n])[i] = q[i]
    BY <2>1, <2>2, <2>3, <1>1
  <2>6. Append(p, rs[n]) = q
    BY <2>3, <2>4, <2>5
  <2> QED BY <2>6 DEF p, q
<1> QED BY <1>2, <1>4

(* coalesce_done_ranges has nothing to do in an array whose ranges do not  *)
(* touch.                                                                  *)
LEMMA CoalesceKeeps ==
    ASSUME NEW rs \in Seq(Ranges), Canonical(rs)
    PROVE  Coalesce(rs) = rs
<1> DEFINE Step(f) ==
      [n \in 0..Len(rs) |->
         IF n = 0 THEN <<>>
         ELSE LET out  == f[n - 1]
                  last == out[Len(out)]
              IN  IF n > 1 /\ rs[n].start <= last.end + 1
                  THEN [out EXCEPT ![Len(out)].end = Largest({@, rs[n].end})]
                  ELSE Append(out, rs[n])]
      absorbed == CHOOSE f : f = Step(f)
      front == [n \in 0..Len(rs) |-> SubSeq(rs, 1, n)]
<1>1. Coalesce(rs) = absorbed[Len(rs)]
  BY DEF Coalesce
<1>2. Len(rs) \in Nat
  OBVIOUS
<1>3. ASSUME NEW f, NEW n \in 1..Len(rs), f[n - 1] = SubSeq(rs, 1, n - 1)
      PROVE  Step(f)[n] = SubSeq(rs, 1, n)
  <2>1. /\ Len(f[n - 1]) = n - 1
        /\ \A i \in 1..(n - 1) : f[n - 1][i] = rs[i]
        /\ Append(f[n - 1], rs[n]) = SubSeq(rs, 1, n)
    BY <1>3, AppendNext
  <2>2. ~(n > 1 /\ rs[n].start <= f[n - 1][Len(f[n - 1])].end + 1)
    <3> SUFFICES ASSUME n > 1 PROVE ~(rs[n].start <= f[n - 1][Len(f[n - 1])].end + 1)
      OBVIOUS
    <3>1. n - 1 \in 1..(n - 1) /\ n - 1 \in DOMAIN rs /\ n \in DOMAIN rs /\ n - 1 < n
      BY <1>2
    <3>2. f[n - 1][Len(f[n - 1])] = rs[n - 1]
      BY <2>1, <3>1
    <3>3. rs[n - 1].end + 1 < rs[n].start
      BY <3>1 DEF Canonical
    <3>4. rs[n - 1].end \in Nat /\ rs[n].start \in Nat
      BY <3>1, RangeFields
    <3> QED BY <3>2, <3>3, <3>4
  <2>3. n \in 0..Len(rs) /\ n # 0
    BY <1>2
  <2> QED BY <2>1, <2>2, <2>3
<1>4. ASSUME NEW f
      PROVE  /\ Step(f)[0] = <<>>
             /\ Step(f) = [n \in 0..Len(rs) |-> Step(f)[n]]
  <2>1. Step(f)[0] = <<>>
    BY <1>2
  <2>2. \E g : Step(f) = [n \in 0..Len(rs) |-> g[n]] /\ g = Step(f)
    BY Zenon
  <2> HIDE DEF Step
  <2> QED BY <2>1, <2>2
<1>5. SubSeq(rs, 1, 0) = <<>> /\ SubSeq(rs, 1, Len(rs)) = rs /\ Len(rs) \in 0..Len(rs)
  OBVIOUS
<1>6. front = Step(front)
  <2>1. ASSUME NEW n \in 1..Len(rs) PROVE Step(front)[n] = front[n]
    <3>1. front[n - 1] = SubSeq(rs, 1, n - 1) /\ front[n] = SubSeq(rs, 1, n)
      BY <1>2
    <3> HIDE DEF Step, front
    <3> QED BY <1>3, <3>1
  <2>2. front[0] = <<>>
    BY <1>2, <1>5
  <2>3. \A n \in 0..Len(rs) : n = 0 \/ n \in 1..Len(rs)
    BY <1>2
  <2>4. front = [n \in 0..Len(rs) |-> front[n]]
    OBVIOUS
  <2> HIDE DEF Step, front
  <2> QED BY <1>4, <2>1, <2>2, <2>3, <2>4
<1>7. absorbed = Step(absorbed)
  <2> HIDE DEF Step, front
  <2> QED BY <1>6, Zenon
<1>8. \A n \in 0..Len(rs) : absorbed[n] = SubSeq(rs, 1, n)
  <2> DEFINE Fails == {n \in 0..Len(rs) : absorbed[n] # SubSeq(rs, 1, n)}
  <2> HIDE DEF Step, absorbed
  <2>1. ASSUME NEW n \in Fails PROVE n # 0 /\ n - 1 \in Fails
    <3>1. n # 0
      BY <1>4, <1>5, <1>7
    <3>2. n \in 1..Len(rs) /\ n - 1 \in 0..Len(rs)
      BY <1>2, <3>1
    <3>3. absorbed[n - 1] # SubSeq(rs, 1, n - 1)
      BY <1>3, <1>7, <3>2
    <3> QED BY <3>1, <3>2, <3>3
  <2>2. Fails \in SUBSET (0..Len(rs))
    OBVIOUS
  <2>3. Fails = {}
    <3> HIDE DEF Fails
    <3> QED BY <1>2, <2>1, <2>2, NoFirstFailure
  <2> QED BY <2>3
<1> HIDE DEF absorbed
<1> QED BY <1>1, <1>5, <1>8

(* The loop of clip_done_ranges keeps the first k ranges when these are     *)
(* the ones inside the file.                                                *)
LEMMA KeepsFront ==
    ASSUME NEW rs \in Seq(Ranges), NEW total \in Nat, NEW k \in 0..Len(rs),
           \A i \in DOMAIN rs :
              i <= k <=> /\ total = 0 \/ rs[i].start < total
                         /\ rs[i].start <= rs[i].end
    PROVE  KeepInside(rs, total) = SubSeq(rs, 1, k)
<1> DEFINE Step(f) ==
      [n \in 0..Len(rs) |->
         IF n = 0 THEN <<>>
         ELSE IF /\ total = 0 \/ rs[n].start < total
                 /\ rs[n].start <= rs[n].end
         THEN Append(f[n - 1], rs[n])
         ELSE f[n - 1]]
      kept == CHOOSE f : f = Step(f)
      Front(n) == SubSeq(rs, 1, IF n <= k THEN n ELSE k)
      front == [n \in 0..Len(rs) |-> Front(n)]
<1>1. KeepInside(rs, total) = kept[Len(rs)]
  BY DEF KeepInside
<1>2. Len(rs) \in Nat /\ k \in Nat
  OBVIOUS
<1>3. ASSUME NEW f, NEW n \in 1..Len(rs), f[n - 1] = Front(n - 1)
      PROVE  Step(f)[n] = Front(n)
  <2>1. n \in 0..Len(rs) /\ n # 0 /\ n \in DOMAIN rs
    BY <1>2
  <2>2. CASE n <= k
    <3>1. Step(f)[n] = Append(f[n - 1], rs[n])
      BY <2>1, <2>2
    <3>2. Front(n - 1) = SubSeq(rs, 1, n - 1) /\ Front(n) = SubSeq(rs, 1, n)
      BY <1>2, <2>1, <2>2
    <3> HIDE DEF Step, Front
    <3> QED BY <1>3, <3>1, <3>2, AppendNext
  <2>3. CASE ~(n <= k)
    <3>1. Step(f)[n] = f[n - 1]
      BY <2>1, <2>3
    <3>2. Front(n - 1) = Front(n)
      <4>1. k <= n - 1
        BY <1>2, <2>1, <2>3
      <4> QED BY <1>2, <2>1, <2>3, <4>1
    <3> HIDE DEF Step, Front
    <3> QED BY <1>3, <3>1, <3>2
  <2> HIDE DEF Step, Front
  <2> QED BY <2>2, <2>3
<1>4. ASSUME NEW f
      PROVE  /\ Step(f)[0] = <<>>
             /\ Step(f) = [n \in 0..Len(rs) |-> Step(f)[n]]
  <2>1. Step(f)[0] = <<>>
    BY <1>2
  <2>2. \E g : Step(f) = [n \in 0..Len(rs) |-> g[n]] /\ g = Step(f)
    BY Zenon
  <2> HIDE DEF Step
  <2> QED BY <2>1, <2>2
<1>5. /\ Front(0) = <<>>
      /\ Front(Len(rs)) = SubSeq(rs, 1, k)
      /\ Len(rs) \in 0..Len(rs)
      /\ \A n \in 0..Len(rs) : n = 0 \/ (n \in 1..Len(rs) /\ n - 1 \in 0..Len(rs))
  BY <1>2
<1> HIDE DEF Front
<1>6. front = Step(front)
  <2>1. ASSUME NEW n \in 1..Len(rs) PROVE Step(front)[n] = front[n]
    <3>1. front[n - 1] = Front(n - 1) /\ front[n] = Front(n)
      BY <1>2
    <3> HIDE DEF Step, front
    <3> QED BY <1>3, <3>1
  <2>2. front[0] = <<>> /\ front = [n \in 0..Len(rs) |-> front[n]]
    BY <1>2, <1>5
  <2> HIDE DEF Step, front
  <2> QED BY <1>4, <1>5, <2>1, <2>2
<1>7. kept = Step(kept)
  <2> HIDE DEF Step, front
  <2> QED BY <1>6, Zenon
<1>8. \A n \in 0..Len(rs) : kept[n] = Front(n)
  <2> DEFINE Fails == {n \in 0..Len(rs) : kept[n] # Front(n)}
  <2> HIDE DEF Step, kept
  <2>1. ASSUME NEW n \in Fails PROVE n # 0 /\ n - 1 \in Fails
    <3>1. n # 0
      BY <1>4, <1>5, <1>7
    <3>2. n \in 1..Len(rs) /\ n - 1 \in 0..Len(rs)
      BY <1>2, <3>1
    <3>3. kept[n - 1] # Front(n - 1)
      BY <1>3, <1>7, <3>2
    <3> QED BY <3>1, <3>2, <3>3
  <2>2. Fails \in SUBSET (0..Len(rs))
    OBVIOUS
  <2>3. Fails = {}
    <3> HIDE DEF Fails
    <3> QED BY <1>2, <2>1, <2>2, NoFirstFailure
  <2> QED BY <2>3
<1> HIDE DEF kept
<1> QED BY <1>1, <1>5, <1>8

(* clip_done_ranges: what lies beyond the end of the file goes, a range     *)
(* that crosses it is cut, and the array stays canonical.                   *)
LEMMA ClipIsExact ==
    ASSUME NEW rs \in Seq(Ranges), Canonical(rs), NEW total \in Nat, total > 0
    PROVE  /\ ClipRanges(rs, total) \in Seq(Ranges)
           /\ Canonical(ClipRanges(rs, total))
           /\ Bytes(ClipRanges(rs, total)) = {b \in Bytes(rs) : b < total}
<1> DEFINE cut == [i \in 1..Len(rs) |-> CutRange(rs[i], total)]
           beyond == {i \in DOMAIN rs : rs[i].start >= total}
<1>1. Len(rs) \in Nat /\ DOMAIN rs = 1..Len(rs)
  OBVIOUS
<1>2. \A i \in DOMAIN rs : /\ rs[i].start \in Nat
                          /\ rs[i].end \in Nat
                          /\ rs[i].start <= rs[i].end
  BY RangeFields DEF Canonical
<1>3. \A i \in DOMAIN rs : /\ cut[i] \in Ranges
                          /\ cut[i].start = rs[i].start
                          /\ cut[i].end = LastByte(total, rs[i].end)
                          /\ cut[i].end = IF rs[i].end >= total THEN total - 1 ELSE rs[i].end
  BY <1>1, <1>2 DEF CutRange, LastByte, Ranges
<1>4. cut \in Seq(Ranges) /\ Len(cut) = Len(rs) /\ DOMAIN cut = DOMAIN rs
  <2>1. DOMAIN cut = 1..Len(rs) /\ \A i \in 1..Len(rs) : cut[i] \in Ranges
    BY <1>1, <1>3
  <2>2. cut = [i \in 1..Len(rs) |-> cut[i]]
    OBVIOUS
  <2> HIDE DEF cut
  <2> QED BY <1>1, <2>1, <2>2
<1>5. PICK at \in 1..(Len(rs) + 1) : /\ at # Len(rs) + 1 => at \in beyond
                                     /\ \A i \in DOMAIN rs : i < at => i \notin beyond
  <2>1. beyond \in SUBSET DOMAIN rs
    OBVIOUS
  <2> HIDE DEF beyond
  <2> QED BY <2>1, StopAtProperties
<1>6. \A i \in DOMAIN rs : i < at <=> rs[i].start < total
  <2> SUFFICES ASSUME NEW i \in DOMAIN rs PROVE i < at <=> rs[i].start < total
    OBVIOUS
  <2>1. CASE i < at
    BY <1>2, <1>5, <2>1
  <2>2. CASE i = at
    BY <1>1, <1>2, <1>5, <2>2
  <2>3. CASE i > at
    <3>1. at \in DOMAIN rs /\ rs[at].start >= total
      BY <1>1, <1>5, <2>3
    <3>2. rs[at].end + 1 < rs[i].start
      BY <2>3, <3>1 DEF Canonical
    <3> QED BY <1>2, <2>3, <3>1, <3>2
  <2> QED BY <1>1, <1>5, <2>1, <2>2, <2>3
<1> DEFINE k == at - 1
<1>7. k \in 0..Len(rs) /\ \A i \in DOMAIN rs : i <= k <=> i < at
  BY <1>1, <1>5
<1> HIDE DEF cut
<1>8. \A i \in DOMAIN cut : i <= k <=> /\ total = 0 \/ cut[i].start < total
                                       /\ cut[i].start <= cut[i].end
  BY <1>2, <1>3, <1>4, <1>6, <1>7
<1> HIDE DEF k
<1> DEFINE front == SubSeq(cut, 1, k)
<1>9. /\ front \in Seq(Ranges) /\ DOMAIN front = 1..k
      /\ \A i \in 1..k : i \in DOMAIN rs /\ front[i] = cut[i]
  BY <1>1, <1>4, <1>7
<1>10. Canonical(front)
  <2>1. \A i \in 1..k : front[i].start <= front[i].end
    BY <1>4, <1>8, <1>9
  <2>2. ASSUME NEW i \in 1..k, NEW j \in 1..k, i < j
        PROVE  front[i].end + 1 < front[j].start
    <3>1. i \in DOMAIN rs /\ j \in DOMAIN rs /\ rs[i].end + 1 < rs[j].start
      BY <1>9, <2>2 DEF Canonical
    <3>2. rs[j].start < total
      BY <1>6, <1>7, <2>2, <3>1
    <3>3. front[i].end = rs[i].end /\ front[j].start = rs[j].start
      BY <1>2, <1>3, <1>9, <3>1, <3>2
    <3> QED BY <3>1, <3>3
  <2> QED BY <1>9, <2>1, <2>2 DEF Canonical
<1>11. ClipRanges(rs, total) = front
  <2>1. KeepInside(cut, total) = front
    BY <1>4, <1>7, <1>8, KeepsFront
  <2>2. Coalesce(front) = front
    <3> HIDE DEF front
    <3> QED BY <1>9, <1>10, CoalesceKeeps
  <2> QED BY <2>1, <2>2 DEF ClipRanges, cut
<1>12. Bytes(front) = {b \in Bytes(rs) : b < total}
  <2>1. ASSUME NEW b \in Bytes(front) PROVE b \in Bytes(rs) /\ b < total
    <3>1. PICK i \in 1..k : b \in front[i].start..front[i].end
      BY <1>9, <2>1 DEF Bytes
    <3>2. i \in DOMAIN rs /\ front[i].start = rs[i].start
          /\ front[i].end = IF rs[i].end >= total THEN total - 1 ELSE rs[i].end
      BY <1>3, <1>9
    <3>3. /\ rs[i].start \in Nat /\ rs[i].end \in Nat
          /\ b \in rs[i].start..(IF rs[i].end >= total THEN total - 1 ELSE rs[i].end)
      BY <1>2, <3>1, <3>2
    <3>4. b \in rs[i].start..rs[i].end /\ b < total
      BY <3>3
    <3> QED BY <3>2, <3>4 DEF Bytes
  <2>2. ASSUME NEW b \in Bytes(rs), b < total PROVE b \in Bytes(front)
    <3>1. PICK i \in DOMAIN rs : b \in rs[i].start..rs[i].end
      BY DEF Bytes
    <3>2. i \in 1..k
      <4>1. rs[i].start \in Nat /\ rs[i].end \in Nat
        BY <1>2
      <4>2. rs[i].start < total
        BY <2>2, <3>1, <4>1
      <4>3. i <= k
        BY <1>6, <1>7, <4>2
      <4> QED BY <1>1, <1>7, <4>3
    <3>3. b \in front[i].start..front[i].end
      <4>1. rs[i].start \in Nat /\ rs[i].end \in Nat
        BY <1>2
      <4>2. /\ front[i] = cut[i] /\ cut[i].start = rs[i].start
            /\ cut[i].end = IF rs[i].end >= total THEN total - 1 ELSE rs[i].end
        BY <1>3, <1>9, <3>2
      <4> HIDE DEF front
      <4>3. /\ front[i].start = rs[i].start
            /\ front[i].end = IF rs[i].end >= total THEN total - 1 ELSE rs[i].end
        BY <4>2
      <4>4. b \in rs[i].start..(IF rs[i].end >= total THEN total - 1 ELSE rs[i].end)
        BY <2>2, <3>1, <4>1
      <4> QED BY <4>3, <4>4
    <3> QED BY <1>9, <3>2, <3>3 DEF Bytes
  <2> QED BY <2>1, <2>2
<1> QED BY <1>9, <1>10, <1>11, <1>12

(* A loop that skips every range stops behind the last one. *)
LEMMA StopsBehind ==
    ASSUME NEW rs \in Seq(Ranges) PROVE StopAt(rs, {}) = Len(rs) + 1
<1>1. /\ {Len(rs) + 1} \in SUBSET Int /\ Len(rs) + 1 \in {Len(rs) + 1}
      /\ \A y \in {Len(rs) + 1} : Len(rs) + 1 <= y
      /\ {} \cup {Len(rs) + 1} = {Len(rs) + 1}
  OBVIOUS
<1>2. Smallest({Len(rs) + 1}) = Len(rs) + 1
  BY <1>1, SmallestIs, Zenon
<1> QED BY <1>1, <1>2 DEF StopAt

(* load_done_ranges marks the ranges of a canonical array in their order,   *)
(* and every mark appends the range it marks.                               *)
LEMMA MarkAppends ==
    ASSUME NEW rs \in Seq(Ranges), Canonical(rs), NEW n \in 1..Len(rs), NEW total \in Nat,
           total > 0 => rs[n].end < total
    PROVE  MarkRangeDone(SubSeq(rs, 1, n - 1), total, rs[n].start, rs[n].end)
             = SubSeq(rs, 1, n)
<1> DEFINE p == SubSeq(rs, 1, n - 1)
           start == rs[n].start
           end == rs[n].end
           merged == [start |-> Smallest(Starts(p, n, n, start)),
                      end   |-> Largest(Ends(p, n, n, end))]
<1>1. /\ p \in Seq(Ranges) /\ Len(p) = n - 1 /\ DOMAIN p = 1..(n - 1)
      /\ \A i \in 1..(n - 1) : p[i] = rs[i]
      /\ Append(p, rs[n]) = SubSeq(rs, 1, n)
  BY AppendNext
<1>2. /\ rs[n] \in Ranges /\ start \in Nat /\ end \in Nat /\ start <= end
      /\ rs[n] = [start |-> start, end |-> end]
  <2>1. n \in DOMAIN rs /\ rs[n] \in Ranges
    OBVIOUS
  <2> QED BY <2>1 DEF Ranges, Canonical
<1>3. \A i \in 1..(n - 1) : /\ p[i].start \in Nat /\ p[i].end \in Nat
                           /\ p[i].end + 1 < start
                           /\ p[i].start <= p[i].end
  <2> TAKE i \in 1..(n - 1)
  <2>1. i \in DOMAIN rs /\ n \in DOMAIN rs /\ i < n
    OBVIOUS
  <2> QED BY <1>1, <2>1, RangeFields DEF Canonical
<1> HIDE DEF p, start, end
<1>4. LastByte(total, end) = end
  BY <1>2 DEF LastByte, end
<1>5. ~IsRangeDone(p, start, end)
  BY <1>1, <1>2, <1>3 DEF IsRangeDone
<1>6. ~(total > 0 /\ start >= total)
  BY <1>2 DEF end
<1>7. Lo(p, start) = n
  <2>1. {i \in DOMAIN p : p[i].end + 1 >= start} = {}
    BY <1>1, <1>2, <1>3
  <2>2. Lo(p, start) = Len(p) + 1
    BY <1>1, <2>1, StopsBehind DEF Lo
  <2> QED BY <1>1, <2>2
<1>8. Hi(p, n, end) = n
  <2>1. {i \in DOMAIN p :
           i >= n /\ \A x \in Ends(p, n, i, end) : p[i].start > x + 1} = {}
    BY <1>1
  <2>2. Hi(p, n, end) = Len(p) + 1
    BY <1>1, <2>1, StopsBehind DEF Hi
  <2> QED BY <1>1, <2>2
<1>9. merged = rs[n]
  <2>1. Starts(p, n, n, start) = {start} /\ Ends(p, n, n, end) = {end}
    BY DEF Starts, Ends
  <2>2. Smallest({start}) = start
    <3>1. {start} \in SUBSET Int /\ start \in {start} /\ \A y \in {start} : start <= y
      BY <1>2
    <3> QED BY <3>1, SmallestIs, Zenon
  <2>3. Largest({end}) = end
    <3>1. {end} \in SUBSET Int /\ end \in {end} /\ \A y \in {end} : y <= end
      BY <1>2
    <3> QED BY <3>1, LargestIs, Zenon
  <2> QED BY <1>2, <2>1, <2>2, <2>3
<1> HIDE DEF merged
<1>10. InsertSorted(p, merged) = Append(p, rs[n])
  <2>1. {i \in DOMAIN p : p[i].start >= merged.start} = {}
    BY <1>1, <1>2, <1>3, <1>9
  <2>2. StopAt(p, {i \in DOMAIN p : p[i].start >= merged.start}) = n
    <3>1. StopAt(p, {}) = n
      BY <1>1, StopsBehind
    <3> QED BY <2>1, <3>1, Zenon
  <2>3. InsertSorted(p, merged) = ReplaceRun(p, n, n, merged)
    BY <2>2 DEF InsertSorted
  <2>4. ReplaceRun(p, n, n, merged)
          = [i \in 1..n |-> IF i < n THEN p[i] ELSE merged]
    BY <1>1 DEF ReplaceRun
  <2>5. [i \in 1..n |-> IF i < n THEN p[i] ELSE rs[n]] = Append(p, rs[n])
    BY <1>1, <1>2
  <2> QED BY <1>9, <2>3, <2>4, <2>5
<1>11. MarkRangeDone(p, total, start, end) = InsertSorted(p, merged)
  <2>1. MergeRange(p, start, end) = InsertSorted(p, merged)
    BY <1>7, <1>8 DEF MergeRange, merged
  <2> QED BY <1>2, <1>4, <1>5, <1>6, <2>1 DEF MarkRangeDone
<1> QED BY <1>1, <1>10, <1>11 DEF p, start, end

(* A canonical array that lies inside the file is loaded as it was saved. *)
LEMMA LoadIsExact ==
    ASSUME NEW rs \in Seq(Ranges), Canonical(rs), NEW total \in Nat,
           total > 0 => \A b \in Bytes(rs) : b < total
    PROVE  LoadDoneRanges(rs, total) = rs
<1> DEFINE Step(f) ==
      [n \in 0..Len(rs) |->
         IF n = 0 THEN <<>>
         ELSE MarkRangeDone(f[n - 1], total, rs[n].start, rs[n].end)]
      loaded == CHOOSE f : f = Step(f)
      front == [n \in 0..Len(rs) |-> SubSeq(rs, 1, n)]
<1>1. LoadDoneRanges(rs, total) = ClipRanges(loaded[Len(rs)], total)
  BY DEF LoadDoneRanges
<1>2. /\ Len(rs) \in Nat
      /\ SubSeq(rs, 1, 0) = <<>> /\ SubSeq(rs, 1, Len(rs)) = rs /\ Len(rs) \in 0..Len(rs)
      /\ \A n \in 0..Len(rs) : n = 0 \/ (n \in 1..Len(rs) /\ n - 1 \in 0..Len(rs))
  OBVIOUS
<1>3. ASSUME NEW n \in DOMAIN rs, total > 0 PROVE rs[n].end < total
  <2>1. rs[n].start \in Nat /\ rs[n].end \in Nat /\ rs[n].start <= rs[n].end
    BY RangeFields DEF Canonical
  <2>2. rs[n].end \in Bytes(rs)
    BY <2>1 DEF Bytes
  <2> QED BY <1>3, <2>2
<1>4. ASSUME NEW f, NEW n \in 1..Len(rs), f[n - 1] = SubSeq(rs, 1, n - 1)
      PROVE  Step(f)[n] = SubSeq(rs, 1, n)
  <2>1. n \in 0..Len(rs) /\ n # 0 /\ n \in DOMAIN rs
    BY <1>2
  <2>2. Step(f)[n] = MarkRangeDone(SubSeq(rs, 1, n - 1), total, rs[n].start, rs[n].end)
    BY <1>4, <2>1
  <2> HIDE DEF Step
  <2> QED BY <1>3, <2>1, <2>2, MarkAppends
<1>5. ASSUME NEW f
      PROVE  /\ Step(f)[0] = <<>>
             /\ Step(f) = [n \in 0..Len(rs) |-> Step(f)[n]]
  <2>1. Step(f)[0] = <<>>
    BY <1>2
  <2>2. \E g : Step(f) = [n \in 0..Len(rs) |-> g[n]] /\ g = Step(f)
    BY Zenon
  <2> HIDE DEF Step
  <2> QED BY <2>1, <2>2
<1>6. front = Step(front)
  <2>1. ASSUME NEW n \in 1..Len(rs) PROVE Step(front)[n] = front[n]
    <3>1. front[n - 1] = SubSeq(rs, 1, n - 1) /\ front[n] = SubSeq(rs, 1, n)
      BY <1>2
    <3> HIDE DEF Step, front
    <3> QED BY <1>4, <3>1
  <2>2. front[0] = <<>> /\ front = [n \in 0..Len(rs) |-> front[n]]
    BY <1>2
  <2> HIDE DEF Step, front
  <2> QED BY <1>2, <1>5, <2>1, <2>2
<1>7. loaded = Step(loaded)
  <2> HIDE DEF Step, front
  <2> QED BY <1>6, Zenon
<1> HIDE DEF Step, loaded
<1>8. loaded[Len(rs)] = rs
  <2> DEFINE Fails == {n \in 0..Len(rs) : loaded[n] # SubSeq(rs, 1, n)}
  <2>1. ASSUME NEW n \in Fails PROVE n # 0 /\ n - 1 \in Fails
    BY <1>2, <1>4, <1>5, <1>7
  <2>2. Fails \in SUBSET (0..Len(rs))
    OBVIOUS
  <2>3. Fails = {}
    <3> HIDE DEF Fails
    <3> QED BY <1>2, <2>1, <2>2, NoFirstFailure
  <2> QED BY <1>2, <2>3
<1>9. ClipRanges(rs, total) = rs
  <2> DEFINE cut == [i \in 1..Len(rs) |-> CutRange(rs[i], total)]
  <2>1. ASSUME NEW i \in DOMAIN rs PROVE CutRange(rs[i], total) = rs[i]
    <3>1. rs[i] \in Ranges
      OBVIOUS
    <3>2. LastByte(total, rs[i].end) = rs[i].end
      BY <1>3, <3>1 DEF LastByte, Ranges
    <3> QED BY <3>1, <3>2 DEF CutRange, Ranges
  <2>2. cut = rs
    BY <1>2, <2>1
  <2>3. KeepInside(rs, total) = rs
    <3>1. \A i \in DOMAIN rs : i <= Len(rs) <=> /\ total = 0 \/ rs[i].start < total
                                               /\ rs[i].start <= rs[i].end
      <4> TAKE i \in DOMAIN rs
      <4>1. rs[i].start \in Nat /\ rs[i].end \in Nat /\ rs[i].start <= rs[i].end
        BY RangeFields DEF Canonical
      <4>2. i <= Len(rs)
        BY <1>2
      <4> QED BY <1>3, <4>1, <4>2
    <3> QED BY <1>2, <3>1, KeepsFront
  <2> QED BY <2>2, <2>3, CoalesceKeeps DEF ClipRanges
<1> QED BY <1>1, <1>8, <1>9

(* download_state_bytes_done counts no more bytes than fit up to the last   *)
(* one.  The sum has no closed form, so that a solution of the recursion is *)
(* made index by index.                                                     *)
LEMMA RangeBytesBounded ==
    ASSUME NEW rs \in Seq(Ranges), Canonical(rs), NEW m \in Nat, Bytes(rs) \subseteq 0..m
    PROVE  RangeBytes(rs) \in 0..(m + 1)
<1> DEFINE Value(f, n) == IF n = 0 THEN 0 ELSE f[n - 1] + rs[n].end - rs[n].start + 1
           Step(f) == [n \in 0..Len(rs) |-> Value(f, n)]
           sum == CHOOSE f : f = Step(f)
           Solves(g, n) == g \in [0..n -> Int] /\ \A i \in 0..n : g[i] = Value(g, i)
           Last(n) == IF n = 0 THEN 0 ELSE rs[n].end + 1
<1>1. RangeBytes(rs) = sum[Len(rs)]
  BY DEF RangeBytes
<1>2. /\ Len(rs) \in Nat /\ DOMAIN rs = 1..Len(rs) /\ Len(rs) \in 0..Len(rs)
      /\ \A n \in 0..Len(rs) : n = 0 \/ (n \in 1..Len(rs) /\ n - 1 \in 0..Len(rs))
  OBVIOUS
<1>3. \A n \in 1..Len(rs) : /\ rs[n].start \in Nat
                           /\ rs[n].end \in Nat
                           /\ rs[n].start <= rs[n].end
  BY <1>2, RangeFields DEF Canonical
<1>4. \E g : Solves(g, Len(rs))
  <2> DEFINE Fails == {n \in 0..Len(rs) : ~\E g : Solves(g, n)}
  <2>1. ASSUME NEW n \in Fails PROVE n # 0 /\ n - 1 \in Fails
    <3>1. n # 0
      <4> SUFFICES ASSUME n = 0 PROVE FALSE
        OBVIOUS
      <4>1. Solves([i \in 0..0 |-> 0], 0)
        OBVIOUS
      <4> QED BY <2>1, <4>1
    <3>2. n \in 1..Len(rs) /\ n - 1 \in 0..Len(rs) /\ n - 1 \in Nat
      BY <1>2, <3>1
    <3>3. ASSUME NEW g, Solves(g, n - 1) PROVE FALSE
      <4> DEFINE h == [i \in 0..n |-> IF i = n THEN Value(g, n) ELSE g[i]]
      <4>1. Value(g, n) \in Int
        BY <1>3, <3>2, <3>3
      <4>2. h \in [0..n -> Int]
        <5>1. ASSUME NEW i \in 0..n, i # n PROVE g[i] \in Int
          <6>1. i \in 0..(n - 1)
            BY <3>2, <5>1
          <6> QED BY <3>3, <6>1
        <5> HIDE DEF Value
        <5> QED BY <4>1, <5>1
      <4>3. ASSUME NEW i \in 0..n PROVE h[i] = Value(h, i)
        <5>1. CASE i = n
          <6>1. h[n - 1] = g[n - 1] /\ h[n] = Value(g, n)
            BY <3>2
          <6>2. Value(h, n) = Value(g, n)
            BY <3>2, <6>1
          <6> HIDE DEF Value, h
          <6> QED BY <5>1, <6>1, <6>2
        <5>2. CASE i # n
          <6>1. i \in 0..(n - 1) /\ (i = 0 \/ i - 1 \in 0..(n - 1))
            BY <3>2, <5>2
          <6>2. h[i] = g[i] /\ g[i] = Value(g, i)
            BY <3>2, <3>3, <5>2, <6>1
          <6>3. i # 0 => h[i - 1] = g[i - 1]
            BY <3>2, <6>1
          <6>4. Value(h, i) = Value(g, i)
            <7> HIDE DEF h
            <7> QED BY <6>3
          <6> HIDE DEF Value, h
          <6> QED BY <6>2, <6>4
        <5> QED BY <5>1, <5>2
      <4>4. Solves(h, n)
        <5> HIDE DEF h, Value
        <5> QED BY <4>2, <4>3
      <4> QED BY <2>1, <4>4
    <3> HIDE DEF Solves
    <3> QED BY <3>1, <3>2, <3>3
  <2>2. Fails \in SUBSET (0..Len(rs))
    OBVIOUS
  <2>3. Fails = {}
    <3> HIDE DEF Fails
    <3> QED BY <1>2, <2>1, <2>2, NoFirstFailure
  <2> HIDE DEF Solves
  <2> QED BY <1>2, <2>3
<1>5. \E f : f = Step(f)
  <2>1. PICK g : Solves(g, Len(rs))
    BY <1>4
  <2> HIDE DEF Value
  <2>2. g = Step(g)
    BY <2>1
  <2> QED BY <2>2
<1>6. sum = Step(sum)
  <2> HIDE DEF Step
  <2> QED BY <1>5, Zenon
<1> HIDE DEF sum
<1>7. \A n \in 0..Len(rs) : sum[n] = Value(sum, n)
  <2> HIDE DEF Value
  <2> QED BY <1>6
<1>8. \A n \in 0..Len(rs) : sum[n] \in 0..Last(n)
  <2> DEFINE Fails == {n \in 0..Len(rs) : sum[n] \notin 0..Last(n)}
  <2>1. ASSUME NEW n \in Fails PROVE n # 0 /\ n - 1 \in Fails
    <3>1. n # 0
      BY <1>7
    <3>2. n \in 1..Len(rs) /\ n - 1 \in 0..Len(rs)
      BY <1>2, <3>1
    <3>3. sum[n] = sum[n - 1] + rs[n].end - rs[n].start + 1
      BY <1>7, <3>1, <3>2
    <3>4. Last(n) = rs[n].end + 1 /\ Last(n - 1) \in Nat /\ Last(n - 1) <= rs[n].start
      <4>1. CASE n = 1
        BY <1>3, <3>2, <4>1
      <4>2. CASE n # 1
        <5>1. n - 1 \in DOMAIN rs /\ n \in DOMAIN rs /\ n - 1 < n /\ n - 1 # 0
          BY <1>2, <3>2, <4>2
        <5>2. rs[n - 1].end + 1 < rs[n].start
          BY <5>1 DEF Canonical
        <5> QED BY <1>2, <1>3, <5>1, <5>2
      <4> QED BY <4>1, <4>2
    <3>5. ASSUME sum[n - 1] \in 0..Last(n - 1) PROVE FALSE
      <4> HIDE DEF Last
      <4>1. rs[n].start \in Nat /\ rs[n].end \in Nat /\ rs[n].start <= rs[n].end
        BY <1>3, <3>2
      <4>2. \A s, l, a, b \in Nat : s <= l /\ l <= a /\ a <= b => s + b - a + 1 \in 0..(b + 1)
        OBVIOUS
      <4>3. sum[n - 1] \in Nat /\ sum[n - 1] <= Last(n - 1)
        BY ONLY <3>4, <3>5
      <4>4. sum[n] \in 0..Last(n)
        BY ONLY <3>3, <3>4, <4>1, <4>2, <4>3
      <4> QED BY <4>4, <2>1
    <3> QED BY <3>1, <3>2, <3>5
  <2>2. Fails \in SUBSET (0..Len(rs))
    OBVIOUS
  <2>3. Fails = {}
    <3> HIDE DEF Fails
    <3> QED BY <1>2, <2>1, <2>2, NoFirstFailure
  <2> HIDE DEF Last
  <2> QED BY <2>3
<1>9. Last(Len(rs)) \in 0..(m + 1)
  <2>1. CASE Len(rs) = 0
    BY <2>1
  <2>2. CASE Len(rs) # 0
    <3>1. Len(rs) \in DOMAIN rs /\ Len(rs) \in 1..Len(rs)
      BY <1>2, <2>2
    <3>2. rs[Len(rs)].end \in Bytes(rs)
      BY <1>3, <3>1 DEF Bytes
    <3>3. rs[Len(rs)].end \in 0..m
      BY <3>2
    <3> QED BY <2>2, <3>3
  <2> QED BY <2>1, <2>2
<1>10. sum[Len(rs)] \in 0..Last(Len(rs))
  BY <1>2, <1>8
<1> HIDE DEF Last
<1> QED BY <1>1, <1>9, <1>10


-----------------------------------------------------------------------------
(* The segments chosen. *)

(* As many members as are asked for, or all there are. *)
Few(S, max) == IF Cardinality(S) < max THEN Cardinality(S) ELSE max

(* The members of a finite set are ranked from one to their number: with k  *)
(* of them asked for, ascending gives k different ones, or all.             *)
LEMMA AscendingProperties ==
    ASSUME NEW S \in SUBSET Nat, IsFiniteSet(S), NEW max \in Nat
    PROVE  /\ Few(S, max) \in Nat
           /\ Ascending(S, max) \in [1..Few(S, max) -> S]
           /\ \A i, j \in 1..Few(S, max) :
                 i # j => Ascending(S, max)[i] # Ascending(S, max)[j]
<1> DEFINE few == Few(S, max)
           Below(x) == {y \in S : y <= x}
           rank == [x \in S |-> Cardinality(Below(x))]
           size == Cardinality(S)
<1>1. size \in Nat /\ few \in Nat /\ few <= max /\ few <= size
  BY FS_CardinalityType DEF Few
<1> HIDE DEF few
<1>2. ASSUME NEW x \in S
      PROVE  /\ Below(x) \in SUBSET S
             /\ IsFiniteSet(Below(x))
             /\ rank[x] = Cardinality(Below(x))
             /\ rank[x] \in 1..size
  <2>1. Below(x) \in SUBSET S /\ x \in Below(x)
    BY <1>2
  <2>2. IsFiniteSet(Below(x)) /\ Cardinality(Below(x)) <= size
    BY <2>1, FS_Subset
  <2>3. Cardinality(Below(x)) \in Nat
    BY <2>2, FS_CardinalityType
  <2>4. Cardinality(Below(x)) # 0
    BY <2>1, <2>2, FS_EmptySet
  <2> QED BY <1>1, <2>1, <2>2, <2>3, <2>4
<1>3. ASSUME NEW x \in S, NEW y \in S, x < y PROVE rank[x] # rank[y]
  <2>1. Below(x) \in SUBSET Below(y) /\ y \in Below(y) /\ y \notin Below(x)
    <3>1. x \in Nat /\ y \in Nat /\ \A z \in S : z \in Nat
      OBVIOUS
    <3>2. \A z \in S : z <= x => z <= y
      BY <1>3, <3>1
    <3>3. \A z : z \in Below(x) => z \in Below(y)
      BY <3>2
    <3>4. y \in Below(y) /\ y \notin Below(x)
      BY <1>3, <3>1
    <3> HIDE DEF Below
    <3> QED BY <3>3, <3>4
  <2>2. Cardinality(Below(y)) # Cardinality(Below(x))
    BY <1>2, <2>1, FS_Subset
  <2> QED BY <1>2, <2>2
<1>4. rank \in Injection(S, 1..size)
  <2>1. rank \in [S -> 1..size]
    <3> HIDE DEF Below
    <3> QED BY <1>2
  <2>2. ASSUME NEW x \in S, NEW y \in S, rank[x] = rank[y] PROVE x = y
    <3>1. x \in Nat /\ y \in Nat
      OBVIOUS
    <3>2. ~(x < y) /\ ~(y < x)
      BY <1>3, <2>2
    <3> QED BY <3>1, <3>2
  <2> HIDE DEF rank
  <2> QED BY <2>1, <2>2 DEF Injection, IsInjective
<1>5. \A k \in 1..size : \E x \in S : rank[x] = k
  <2>1. IsFiniteSet(1..size) /\ Cardinality(1..size) = size
    BY <1>1, FS_Interval
  <2>2. rank \in Surjection(S, 1..size)
    <3> HIDE DEF rank
    <3> QED BY <1>4, <2>1, FS_Injection
  <2> HIDE DEF rank
  <2> QED BY <2>2 DEF Surjection
<1> DEFINE a == Ascending(S, max)
           At(k) == CHOOSE x \in S : rank[x] = k
<1>6. a = [k \in 1..few |-> CHOOSE x \in S : Cardinality(Below(x)) = k]
  BY DEF Ascending, few, Few
<1>7. \A k \in 1..few : a[k] \in S /\ rank[a[k]] = k
  <2> TAKE k \in 1..few
  <2>1. k \in 1..size
    BY <1>1
  <2>2. a[k] = CHOOSE x \in S : Cardinality(Below(x)) = k
    BY <1>6
  <2>3. \E x \in S : Cardinality(Below(x)) = k
    BY <1>2, <1>5, <2>1
  <2>4. a[k] \in S /\ Cardinality(Below(a[k])) = k
    <3> HIDE DEF Below, a
    <3> QED BY <2>2, <2>3, Zenon
  <2> HIDE DEF a
  <2> QED BY <1>2, <2>4
<1>8. a \in [1..few -> S]
  <2>1. DOMAIN a = 1..few /\ a = [k \in 1..few |-> a[k]]
    <3> HIDE DEF Below
    <3> QED BY <1>6
  <2> HIDE DEF a
  <2> QED BY <1>7, <2>1
<1>9. \A i, j \in 1..few : i # j => a[i] # a[j]
  <2> HIDE DEF a, rank
  <2> QED BY <1>7
<1> QED BY <1>1, <1>8, <1>9 DEF few

(* The number of the last segment, counted from zero. *)
LEMMA LastSegment ==
    ASSUME NEW total \in Nat, total > 0, NEW chunk \in Nat \ {0}
    PROVE  /\ SegmentCount(total, chunk) - 1 = (total - 1) \div chunk
           /\ (total - 1) \div chunk \in Nat
<1>1. (total + chunk - 1) \div chunk = (total - 1) \div chunk + 1
  OBVIOUS
<1> QED BY <1>1 DEF SegmentCount

(* The members of a segment: it begins inside the file, is not empty and    *)
(* stays inside.                                                            *)
LEMMA SegmentInside ==
    ASSUME NEW total \in Nat, total > 0, NEW chunk \in Nat \ {0},
           NEW i \in 0..((total - 1) \div chunk)
    PROVE  LET r == SegmentRange(total, chunk, i)
           IN  r.start \in Nat /\ r.end \in Nat /\ r.start <= r.end /\ r.end < total
<1>1. i * chunk \in Nat /\ i * chunk <= total - 1
  <2> DEFINE q == (total - 1) \div chunk
  <2>1. q \in Nat /\ q * chunk <= total - 1 /\ i \in 0..q
    OBVIOUS
  <2>2. i * chunk <= q * chunk /\ i * chunk \in Nat /\ q * chunk \in Nat
    <3> HIDE DEF q
    <3>1. i \in Nat /\ i <= q
      BY <2>1
    <3> QED BY <2>1, <3>1
  <2> HIDE DEF q
  <2> QED BY <2>1, <2>2
<1>2. PICK start \in Nat : start = i * chunk /\ start <= total - 1
  BY <1>1
<1>3. (i + 1) * chunk - 1 = start + chunk - 1
  BY <1>2
<1>4. SegmentRange(total, chunk, i)
        = [start |-> start, end |-> LastByte(total, start + chunk - 1)]
  BY <1>2, <1>3 DEF SegmentRange
<1> QED BY <1>2, <1>4 DEF LastByte

(* Different segments share no byte, and every byte lies in one. *)
LEMMA SegmentsApart ==
    ASSUME NEW total \in Nat, total > 0, NEW chunk \in Nat \ {0},
           NEW i \in 0..((total - 1) \div chunk), NEW j \in 0..((total - 1) \div chunk), i # j
    PROVE  ~Overlap(SegmentRange(total, chunk, i), SegmentRange(total, chunk, j))
<1> DEFINE a(k) == k * chunk
           b(k) == (k + 1) * chunk
<1>1. i \in Nat /\ j \in Nat
  OBVIOUS
<1>2. \A k, l \in Nat : k < l => b(k) <= a(l)
  <2> SUFFICES ASSUME NEW k \in Nat, NEW l \in Nat, k < l PROVE b(k) <= a(l)
    OBVIOUS
  <2>1. PICK e \in Nat : l = (k + 1) + e
    BY l - (k + 1) \in Nat
  <2>2. l * chunk = (k + 1) * chunk + e * chunk /\ e * chunk \in Nat
    BY <2>1
  <2>3. (k + 1) * chunk \in Nat
    OBVIOUS
  <2> QED BY <2>2, <2>3
<1>3. \A k \in Nat : /\ a(k) \in Nat /\ b(k) \in Nat
                     /\ SegmentRange(total, chunk, k).start = a(k)
                     /\ SegmentRange(total, chunk, k).end = LastByte(total, b(k) - 1)
  BY DEF SegmentRange
<1>4. \A e \in Int : LastByte(total, e) <= e
  BY DEF LastByte
<1> HIDE DEF a, b
<1>5. \A k, l \in Nat : k < l => ~(a(l) <= LastByte(total, b(k) - 1))
  BY <1>2, <1>3, <1>4 DEF LastByte
<1>6. i < j \/ j < i
  BY <1>1
<1> QED BY <1>1, <1>3, <1>5, <1>6 DEF Overlap

LEMMA SegmentsCover ==
    ASSUME NEW total \in Nat, total > 0, NEW chunk \in Nat \ {0}, NEW byte \in 0..(total - 1)
    PROVE  \E i \in 0..((total - 1) \div chunk) :
              /\ SegmentRange(total, chunk, i).start <= byte
              /\ byte <= SegmentRange(total, chunk, i).end
<1> DEFINE i == byte \div chunk
<1>1. i \in Nat /\ i * chunk <= byte /\ byte < i * chunk + chunk
  OBVIOUS
<1>2. i <= (total - 1) \div chunk /\ (total - 1) \div chunk \in Nat
  OBVIOUS
<1> HIDE DEF i
<1>3. PICK start \in Nat : start = i * chunk
  BY <1>1
<1>4. SegmentRange(total, chunk, i)
        = [start |-> start, end |-> LastByte(total, start + chunk - 1)]
  <2>1. (i + 1) * chunk - 1 = start + chunk - 1
    BY <1>1, <1>3
  <2> QED BY <1>3, <2>1 DEF SegmentRange
<1>5. start <= byte /\ byte <= LastByte(total, start + chunk - 1)
  BY <1>1, <1>3 DEF LastByte
<1> QED BY <1>1, <1>2, <1>4, <1>5

(* A sequence of different members has as many members as places. *)
LEMMA DistinctCount ==
    ASSUME NEW n \in Nat, NEW T, NEW f \in Surjection(1..n, T), f \in Injection(1..n, T)
    PROVE  Cardinality(T) = n
<1>1. IsFiniteSet(1..n) /\ Cardinality(1..n) = n
  BY FS_Interval
<1>2. Cardinality(T) = Cardinality(1..n)
  BY <1>1, FS_Surjection
<1> QED BY <1>1, <1>2

LEMMA FunctionIsSequence ==
    ASSUME NEW n \in Nat, NEW S, NEW f \in [1..n -> S]
    PROVE  f \in Seq(S) /\ Len(f) = n /\ DOMAIN f = 1..n
OBVIOUS

(* What both strategies make of the candidates. *)
Picks(picked, candidates, max) ==
    LET n == Few(candidates, max)
    IN  /\ n \in Nat
        /\ picked \in [1..n -> candidates]
        /\ \A i, j \in 1..n : i # j => picked[i] # picked[j]

LEMMA LeftHeavyPicks ==
    ASSUME NEW S \in SUBSET Nat, IsFiniteSet(S), NEW max \in Nat
    PROVE  Picks(SelectLeftHeavy(S, max), S, max)
BY AscendingProperties DEF SelectLeftHeavy, Picks

(* The second pass gives what the first one left, and no more than there   *)
(* are connections.                                                        *)
LEMMA TwoPasses ==
    ASSUME NEW S \in SUBSET Nat, IsFiniteSet(S), NEW max \in Nat, NEW L \in SUBSET S,
           NEW first, first = Ascending(L, max),
           NEW rest, rest = S \ {first[k] : k \in DOMAIN first}
    PROVE  Picks(first \o Ascending(rest, max - Len(first)), S, max)
<1>1. L \in SUBSET Nat /\ IsFiniteSet(L) /\ Cardinality(L) <= Cardinality(S)
  BY FS_Subset
<1> DEFINE n == Few(L, max)
<1>2. n = IF Cardinality(L) < max THEN Cardinality(L) ELSE max
  BY DEF Few
<1>3. /\ n \in Nat /\ n <= max /\ n <= Cardinality(L) /\ Cardinality(L) \in Nat
      /\ first \in [1..n -> L]
      /\ \A i, j \in 1..n : i # j => first[i] # first[j]
  <2>1. Cardinality(L) \in Nat
    BY <1>1, FS_CardinalityType
  <2>2. /\ n \in Nat
        /\ first \in [1..n -> L]
        /\ \A i, j \in 1..n : i # j => first[i] # first[j]
    BY <1>1, AscendingProperties
  <2> HIDE DEF n
  <2> QED BY <1>2, <2>1, <2>2
<1> HIDE DEF n
<1>4. Cardinality(S) \in Nat
  BY FS_CardinalityType
<1>5. DOMAIN first = 1..n /\ Len(first) = n /\ first \in [1..n -> S] /\ first \in Seq(S)
  <2>1. first \in [1..n -> S]
    BY <1>3
  <2> QED BY <1>3, <2>1, FunctionIsSequence
<1> DEFINE T == {first[k] : k \in DOMAIN first}
<1>6. T \in SUBSET S /\ Cardinality(T) = n
  <2>1. \A x : x \in T <=> \E k \in 1..n : x = first[k]
    BY <1>5
  <2> HIDE DEF T
  <2>2. Cardinality(T) = n
    <3>1. first \in [1..n -> T] /\ \A x \in T : \E k \in 1..n : x = first[k]
      BY <1>5, <2>1
    <3>2. first \in Surjection(1..n, T) /\ first \in Injection(1..n, T)
      BY <1>3, <3>1 DEF Surjection, Injection, IsInjective
    <3> QED BY <1>3, <3>2, DistinctCount
  <2>3. \A k \in 1..n : first[k] \in S
    BY <1>5
  <2> QED BY <2>1, <2>2, <2>3
<1>7. rest \in SUBSET Nat /\ IsFiniteSet(rest) /\ Cardinality(rest) = Cardinality(S) - n
  <2> HIDE DEF T
  <2>1. rest = S \ T
    BY DEF T
  <2>2. S \cap T = T
    BY <1>6
  <2>3. IsFiniteSet(S \ T) /\ Cardinality(S \ T) = Cardinality(S) - Cardinality(S \cap T)
    BY FS_Difference
  <2> QED BY <1>6, <2>1, <2>2, <2>3
<1>8. max - n \in Nat
  BY <1>3
<1> DEFINE m == Few(rest, max - n)
           second == Ascending(rest, max - n)
<1>9. m = IF Cardinality(rest) < max - n THEN Cardinality(rest) ELSE max - n
  BY DEF Few
<1>10. /\ m \in Nat
       /\ second \in [1..m -> rest]
       /\ \A i, j \in 1..m : i # j => second[i] # second[j]
  BY <1>7, <1>8, AscendingProperties
<1> HIDE DEF second, m
<1>11. second \in Seq(S) /\ Len(second) = m
  BY <1>10
<1> DEFINE picked == first \o second
<1>12. n + m = IF Cardinality(S) < max THEN Cardinality(S) ELSE max
  BY <1>1, <1>2, <1>3, <1>4, <1>7, <1>9
<1>13. /\ picked \in [1..(n + m) -> S]
       /\ \A i \in 1..n : picked[i] = first[i]
       /\ \A i \in (n + 1)..(n + m) : picked[i] = second[i - n] /\ i - n \in 1..m
  <2>1. picked \in Seq(S) /\ Len(picked) = n + m
    BY <1>5, <1>11
  <2>2. picked \in [1..(n + m) -> S]
    <3> HIDE DEF picked
    <3> QED BY <2>1
  <2>3. ASSUME NEW i \in 1..n PROVE picked[i] = first[i]
    BY <1>3, <1>5, <1>10, <1>11
  <2>4. ASSUME NEW i \in (n + 1)..(n + m) PROVE picked[i] = second[i - n] /\ i - n \in 1..m
    BY <1>3, <1>5, <1>10, <1>11
  <2> QED BY <2>2, <2>3, <2>4
<1>14. ASSUME NEW i \in 1..(n + m), NEW j \in 1..(n + m), i < j
       PROVE  picked[i] # picked[j]
  <2> HIDE DEF picked
  <2>1. CASE j <= n
    <3>1. i \in 1..n /\ j \in 1..n /\ i # j
      BY <1>3, <1>10, <1>14, <2>1
    <3> QED BY <1>3, <1>13, <3>1
  <2>2. CASE i <= n /\ n < j
    <3>1. i \in 1..n /\ j \in (n + 1)..(n + m)
      BY <1>3, <1>10, <2>2
    <3>2. picked[i] \in T /\ picked[j] \in rest
      BY <1>5, <1>10, <1>13, <3>1
    <3> QED BY <3>2
  <2>3. CASE n < i
    <3>1. i \in (n + 1)..(n + m) /\ j \in (n + 1)..(n + m) /\ i - n # j - n
      BY <1>3, <1>10, <1>14, <2>3
    <3> QED BY <1>10, <1>13, <3>1
  <2> QED BY <1>3, <1>10, <1>14, <2>1, <2>2, <2>3
<1>15. \A i, j \in 1..(n + m) : i # j => picked[i] # picked[j]
  <2> HIDE DEF picked
  <2> TAKE i, j \in 1..(n + m)
  <2>1. i \in Int /\ j \in Int
    BY <1>3, <1>10
  <2> QED BY <1>14, <2>1
<1>16. n + m \in Nat
  BY <1>3, <1>10
<1> HIDE DEF picked
<1>17. Picks(picked, S, max)
  BY <1>12, <1>13, <1>15, <1>16 DEF Picks, Few
<1> QED BY <1>5, <1>17 DEF picked, second

LEMMA BalancedPicks ==
    ASSUME NEW S \in SUBSET Nat, IsFiniteSet(S), NEW max \in Nat, NEW count, NEW concurrency
    PROVE  Picks(SelectBalanced(S, count, concurrency, max), S, max)
<1> DEFINE buckets == IF concurrency < count THEN concurrency ELSE count
           size == (count + buckets - 1) \div buckets
           inBucket(b) == {i \in S : b * size <= i /\ i < (b + 1) * size}
           leaders == {Smallest(inBucket(b)) :
                         b \in {c \in 0..(buckets - 1) : inBucket(c) # {}}}
           first == Ascending(leaders, max)
           rest == S \ {first[k] : k \in DOMAIN first}
<1>1. SelectBalanced(S, count, concurrency, max) = first \o Ascending(rest, max - Len(first))
  BY DEF SelectBalanced
<1>2. leaders \in SUBSET S
  <2>1. ASSUME NEW b, inBucket(b) # {} PROVE Smallest(inBucket(b)) \in S
    <3>1. inBucket(b) \in SUBSET S /\ inBucket(b) \in SUBSET Nat
      OBVIOUS
    <3> HIDE DEF inBucket
    <3> QED BY <2>1, <3>1, SmallestProperties
  <2> HIDE DEF inBucket, buckets
  <2> QED BY <2>1
<1> HIDE DEF leaders
<1>3. PICK f, r : f = first /\ r = rest
  OBVIOUS
<1>4. f = Ascending(leaders, max) /\ r = S \ {f[k] : k \in DOMAIN f}
  BY <1>3
<1> HIDE DEF first, rest
<1>5. Picks(f \o Ascending(r, max - Len(f)), S, max)
  BY <1>2, <1>4, TwoPasses
<1> QED BY <1>1, <1>3, <1>5

(* The segments with a byte missing that share none with what is in flight. *)
Missing(total, chunk, i) ==
    SegmentRange(total, chunk, i).start .. SegmentRange(total, chunk, i).end

Eligible(rs, total, chunk, inFlight) ==
    {i \in 0..((total - 1) \div chunk) :
        /\ ~(Missing(total, chunk, i) \subseteq Bytes(rs))
        /\ \A r \in inFlight : Missing(total, chunk, i) \cap (r.start..r.end) = {}}

LEMMA CandidatesAreEligible ==
    ASSUME NEW rs \in Seq(Ranges), Canonical(rs), NEW total \in Nat, total > 0,
           NEW chunk \in Nat \ {0}, NEW inFlight, \A r \in inFlight : r.start \in Int /\ r.end \in Int
    PROVE  Candidates(rs, total, chunk, inFlight) = Eligible(rs, total, chunk, inFlight)
<1> DEFINE missing(i) == SegmentRange(total, chunk, i).start
                           .. SegmentRange(total, chunk, i).end
<1>2. SegmentCount(total, chunk) - 1 = (total - 1) \div chunk
  BY LastSegment
<1>3. ASSUME NEW i \in 0..((total - 1) \div chunk)
      PROVE  /\ IsSegmentDone(rs, total, chunk, i) <=> missing(i) \subseteq Bytes(rs)
             /\ Free(SegmentRange(total, chunk, i), inFlight)
                  <=> \A r \in inFlight : missing(i) \cap (r.start..r.end) = {}
  <2> DEFINE s == SegmentRange(total, chunk, i)
  <2>1. s.start \in Nat /\ s.end \in Nat /\ s.start <= s.end
    BY SegmentInside
  <2>2. missing(i) = s.start..s.end
    OBVIOUS
  <2> HIDE DEF s, missing
  <2>3. IsRangeDone(rs, s.start, s.end) <=> missing(i) \subseteq Bytes(rs)
    BY <2>1, <2>2, RangeDoneIsExact
  <2>4. ASSUME NEW r \in inFlight
        PROVE  Overlap(s, r) <=> missing(i) \cap (r.start..r.end) # {}
    <3>1. r.start \in Int /\ r.end \in Int
      BY <2>4
    <3>2. ASSUME Overlap(s, r) PROVE missing(i) \cap (r.start..r.end) # {}
      <4>1. r.start <= r.end /\ s.start <= r.end /\ r.start <= s.end
        BY <3>2 DEF Overlap
      <4>2. CASE s.start <= r.start
        <5>1. r.start \in s.start..s.end /\ r.start \in r.start..r.end
          BY <2>1, <3>1, <4>1, <4>2
        <5> QED BY <2>2, <5>1
      <4>3. CASE r.start < s.start
        <5>1. s.start \in s.start..s.end /\ s.start \in r.start..r.end
          BY <2>1, <3>1, <4>1, <4>3
        <5> QED BY <2>2, <5>1
      <4> QED BY <2>1, <3>1, <4>2, <4>3
    <3>3. ASSUME NEW b \in missing(i) \cap (r.start..r.end) PROVE Overlap(s, r)
      <4>1. b \in s.start..s.end /\ b \in r.start..r.end
        BY <2>2, <3>3
      <4> QED BY <2>1, <3>1, <4>1 DEF Overlap
    <3> QED BY <3>2, <3>3
  <2> QED BY <2>3, <2>4 DEF IsSegmentDone, Free, s
<1> QED BY <1>2, <1>3 DEF Candidates, Eligible, Missing
(* segment_select_chunks: whichever strategy, different segments out of     *)
(* these, and as many as are asked for or there.                            *)
LEMMA SelectionPicks ==
    ASSUME NEW rs \in Seq(Ranges), Canonical(rs), NEW total \in Nat, total > 0,
           NEW chunk \in Nat \ {0}, NEW inFlight, \A r \in inFlight : r.start \in Int /\ r.end \in Int,
           NEW strategy, NEW concurrency, NEW max \in Nat
    PROVE  /\ Eligible(rs, total, chunk, inFlight) \in SUBSET Nat
           /\ IsFiniteSet(Eligible(rs, total, chunk, inFlight))
           /\ Picks(SelectChunks(strategy, rs, total, chunk, inFlight, concurrency, max),
                    Eligible(rs, total, chunk, inFlight), max)
<1> DEFINE picked == SelectChunks(strategy, rs, total, chunk, inFlight, concurrency, max)
           S == Candidates(rs, total, chunk, inFlight)
           n == Few(S, max)
<1>2. S = Eligible(rs, total, chunk, inFlight)
  BY CandidatesAreEligible
<1>3. S \in SUBSET Nat /\ IsFiniteSet(S)
  <2>1. (total - 1) \div chunk \in Nat
    BY LastSegment
  <2>2. S \in SUBSET (0..((total - 1) \div chunk))
    <3> HIDE DEF S
    <3> QED BY <1>2 DEF Eligible
  <2>3. IsFiniteSet(0..((total - 1) \div chunk))
    BY <2>1, FS_Interval
  <2> HIDE DEF S
  <2>4. IsFiniteSet(S)
    BY <2>2, <2>3, FS_Subset
  <2> QED BY <2>2, <2>4
<1>4. Picks(picked, S, max)
  <2>1. CASE max = 0
    <3>1. Cardinality(S) \in Nat
      BY <1>3, FS_CardinalityType
    <3>2. n = 0 /\ picked = <<>>
      BY <2>1, <3>1 DEF Few, SelectChunks
    <3> HIDE DEF S
    <3> QED BY <3>2 DEF Picks
  <2>2. CASE max # 0 /\ strategy = "left-heavy"
    <3>1. picked = SelectLeftHeavy(S, max)
      BY <2>2 DEF SelectChunks
    <3> HIDE DEF S
    <3> QED BY <1>3, <3>1, LeftHeavyPicks
  <2>3. CASE max # 0 /\ strategy # "left-heavy"
    <3>1. picked = SelectBalanced(S, SegmentCount(total, chunk), concurrency, max)
      BY <2>3 DEF SelectChunks
    <3> HIDE DEF S
    <3> QED BY <1>3, <3>1, BalancedPicks
  <2> QED BY <2>1, <2>2, <2>3
<1> QED BY <1>2, <1>3, <1>4

(* A canonical array of marked bytes has the type of the program's array. *)
LEMMA RangesTyped ==
    ASSUME NEW rs \in Seq(Ranges), Canonical(rs), NEW S, Bytes(rs) \subseteq S
    PROVE  rs \in Seq([start : S, end : S])
<1>1. Len(rs) \in Nat /\ DOMAIN rs = 1..Len(rs)
  OBVIOUS
<1> DEFINE T == [start : S, end : S]
<1>2. ASSUME NEW i \in 1..Len(rs) PROVE rs[i] \in T
  <2>1. rs[i] \in Ranges /\ rs[i].start <= rs[i].end
    BY <1>1 DEF Canonical
  <2>2. rs[i].start \in Bytes(rs) /\ rs[i].end \in Bytes(rs)
    <3>1. i \in DOMAIN rs /\ rs[i].start \in Nat /\ rs[i].end \in Nat
      BY <1>1, RangeFields
    <3>2. rs[i].start \in rs[i].start..rs[i].end /\ rs[i].end \in rs[i].start..rs[i].end
      BY <2>1, <3>1
    <3> QED BY <3>1, <3>2 DEF Bytes
  <2> QED BY <2>1, <2>2 DEF Ranges
<1> HIDE DEF T
<1>3. rs \in Seq(T)
  BY <1>1, <1>2
<1> QED BY <1>3 DEF T
=============================================================================
