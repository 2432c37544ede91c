------------------------- MODULE RangeQueriesProofs -------------------------
(***************************************************************************)
(* Proofs about the range queries, for every history, every range and      *)
(* every date of the calendar:                                             *)
(*   - the frames a query lists follow each other on the calendar, without *)
(*     a gap, also over the end of a month, and stay inside of the range   *)
(*     (the inductive invariant),                                          *)
(*   - their aggregates therefore count no log twice and none from outside *)
(*     of the range,                                                       *)
(*   - within one enclosing frame they count exactly the logs of the       *)
(*     range, as the scans of the history do but at its ends,              *)
(*   - and three frames in a row have the logs that the scan by the        *)
(*     timestamps of the transactions finds.                               *)
(***************************************************************************)
EXTENDS RangeQueries, SumTheorems, SequenceTheorems

-----------------------------------------------------------------------------
(***************************************************************************)
(* Dates, and the frames cut from them.                                    *)
(***************************************************************************)

\* The order of dates, component by component.
Earlier(t, u) ==
  \/ t[1] < u[1]
  \/ t[1] = u[1] /\ t[2] < u[2]
  \/ t[1] = u[1] /\ t[2] = u[2] /\ t[3] < u[3]
  \/ t[1] = u[1] /\ t[2] = u[2] /\ t[3] = u[3] /\ t[4] < u[4]
  \/ t[1] = u[1] /\ t[2] = u[2] /\ t[3] = u[3] /\ t[4] = u[4] /\ t[5] < u[5]
  \/ t[1] = u[1] /\ t[2] = u[2] /\ t[3] = u[3] /\ t[4] = u[4] /\ t[5] = u[5] /\ t[6] < u[6]

\* This is Before.
LEMMA BeforeIsEarlier ==
  ASSUME NEW t, NEW u
  PROVE  Before(t, u) <=> Earlier(t, u)
<1> DEFINE At(i) == t[i] < u[i] /\ \A j \in 1 .. i - 1 : t[j] = u[j]
<1>1. Before(t, u) <=> At(1) \/ At(2) \/ At(3) \/ At(4) \/ At(5) \/ At(6)
  <2>1. \A i : i \in 1 .. 6 <=> i = 1 \/ i = 2 \/ i = 3 \/ i = 4 \/ i = 5 \/ i = 6
    OBVIOUS
  <2>2. Before(t, u) <=> \E i \in 1 .. 6 : At(i)
    BY DEF Before
  <2> HIDE DEF At
  <2> QED
    BY <2>1, <2>2
<1>2. At(1) <=> t[1] < u[1]
  OBVIOUS
<1>3. At(2) <=> t[2] < u[2] /\ t[1] = u[1]
  OBVIOUS
<1>4. At(3) <=> t[3] < u[3] /\ t[1] = u[1] /\ t[2] = u[2]
  OBVIOUS
<1>5. At(4) <=> t[4] < u[4] /\ t[1] = u[1] /\ t[2] = u[2] /\ t[3] = u[3]
  OBVIOUS
<1>6. At(5) <=> t[5] < u[5] /\ t[1] = u[1] /\ t[2] = u[2] /\ t[3] = u[3] /\ t[4] = u[4]
  OBVIOUS
<1>7. At(6) <=> /\ t[6] < u[6] /\ t[1] = u[1] /\ t[2] = u[2] /\ t[3] = u[3] /\ t[4] = u[4]
                /\ t[5] = u[5]
  OBVIOUS
<1> HIDE DEF At
<1> QED
  BY <1>1, <1>2, <1>3, <1>4, <1>5, <1>6, <1>7 DEF Earlier

\* What a date consists of.
LEMMA Components ==
  ASSUME NEW t, IsDate(t)
  PROVE  /\ t \in Seq(Nat) /\ Len(t) = 6 /\ DOMAIN t = 1 .. 6
         /\ t[1] \in Nat /\ t[2] \in Nat /\ t[3] \in Nat /\ t[4] \in Nat /\ t[5] \in Nat
         /\ t[6] \in Nat
         /\ \A i \in 1 .. 6 : t[i] \in Nat
         /\ \A i \in 1 .. 5 : t[i] \in Nat
         /\ t[2] >= 1 /\ t[2] <= 12 /\ t[3] >= 1 /\ t[3] <= DaysIn(t[1], t[2])
         /\ t[4] <= 23 /\ t[5] <= 59 /\ t[6] <= 59
         /\ DaysIn(t[1], t[2]) \in 28 .. 31
         /\ t[2] = 12 => DaysIn(t[1], t[2]) = 31
<1>1. t \in [1 .. 6 -> Nat] /\ t[2] \in 1 .. 12 /\ t[3] \in 1 .. DaysIn(t[1], t[2])
      /\ t[4] \in 0 .. 23 /\ t[5] \in 0 .. 59 /\ t[6] \in 0 .. 59
  BY DEF IsDate
<1>2. t \in Seq(Nat)
  BY <1>1, SeqDef
<1>3. Len(t) = 6
  <2>1. Len(t) \in Nat /\ DOMAIN t = 1 .. Len(t) /\ DOMAIN t = 1 .. 6
    BY <1>1, <1>2, LenProperties
  <2> DEFINE l == Len(t)
  <2>2. l \in Nat /\ 1 .. l = 1 .. 6
    BY <2>1
  <2> HIDE DEF l
  <2>3. 6 \in 1 .. l /\ l \in 1 .. 6
    <3>1. 6 \in 1 .. l
      BY <2>2
    <3>2. l \in 1 .. l
      BY <2>2, <3>1
    <3> QED
      BY <2>2, <3>1, <3>2
  <2>4. l = 6
    BY <2>2, <2>3
  <2> QED
    BY <2>4 DEF l
<1>4. DaysIn(t[1], t[2]) \in 28 .. 31
  BY DEF DaysIn
<1>5. t[2] = 12 => DaysIn(t[1], t[2]) = 31
  BY DEF DaysIn
<1>6. \A i \in 1 .. 6 : t[i] \in Nat
  BY <1>1
<1>7. /\ DOMAIN t = 1 .. 6
      /\ t[1] \in Nat /\ t[2] \in Nat /\ t[3] \in Nat /\ t[4] \in Nat /\ t[5] \in Nat
      /\ t[6] \in Nat
  BY <1>1, <1>6
<1>8. t[2] >= 1 /\ t[2] <= 12 /\ t[4] <= 23 /\ t[5] <= 59 /\ t[6] <= 59
  BY <1>1
<1>9. t[3] >= 1 /\ t[3] <= DaysIn(t[1], t[2])
  <2> DEFINE d == DaysIn(t[1], t[2])
  <2>1. t[3] \in 1 .. d /\ d \in 28 .. 31
    BY <1>1, <1>4
  <2> HIDE DEF d
  <2>2. t[3] >= 1 /\ t[3] <= d
    BY <2>1
  <2> QED
    BY <2>2 DEF d
<1>10. \A i \in 1 .. 5 : t[i] \in Nat
  BY <1>6
<1> QED
  BY <1>2, <1>3, <1>4, <1>5, <1>6, <1>7, <1>8, <1>9, <1>10

\* No unit smaller than the k-th.
Begins(t, k) == \A j \in k + 1 .. 6 : t[j] = Zero[j]

\* The date a frame begins with, and the frame that date is cut to.
LEMMA Frames ==
  ASSUME NEW t, IsDate(t), NEW k \in 1 .. 5
  PROVE  /\ Len(Cut(t, k)) = k
         /\ IsDate(parseTime(Cut(t, k)))
         /\ Begins(parseTime(Cut(t, k)), k)
         /\ \A i \in 1 .. k : parseTime(Cut(t, k))[i] = t[i]
<1> DEFINE c == Cut(t, k)
           p == parseTime(c)
<1>1. Len(c) = k /\ \A i \in 1 .. k : c[i] = t[i]
  <2>1. t \in Seq(Nat) /\ Len(t) = 6
    BY Components
  <2> QED
    BY <2>1 DEF Cut
<1> HIDE DEF c
<1>2. \A i \in 1 .. 6 : p[i] = IF i <= k THEN c[i] ELSE Zero[i]
  BY <1>1 DEF parseTime
<1>3. \A i \in 1 .. k : p[i] = t[i]
  BY <1>1, <1>2
<1>4. Begins(p, k)
  <2>1. \A i \in k + 1 .. 6 : i \in 1 .. 6 /\ ~(i <= k)
    OBVIOUS
  <2> HIDE DEF p
  <2> QED
    BY <1>2, <2>1 DEF Begins
<1>5. p \in [1 .. 6 -> Nat]
  <2>1. p = [i \in 1 .. 6 |-> IF i <= k THEN c[i] ELSE Zero[i]]
    BY <1>1 DEF parseTime
  <2>2. \A i \in 1 .. 6 : p[i] \in Nat
    <3>0. \A i \in 1 .. 6 : t[i] \in Nat
      BY Components
    <3>1. ASSUME NEW i \in 1 .. 6, i <= k PROVE p[i] \in Nat
      <4>1. i \in 1 .. k
        BY <3>1
      <4> HIDE DEF p
      <4> QED
        BY <1>3, <3>0, <4>1
    <3>2. ASSUME NEW i \in 1 .. 6, ~(i <= k) PROVE p[i] \in Nat
      BY <1>2, <3>2 DEF Zero
    <3> HIDE DEF p
    <3> QED
      BY <3>1, <3>2
  <2> QED
    BY <2>1, <2>2
<1>6. IsDate(p)
  <2> HIDE DEF p
  <2>1. (k >= 1 => p[1] = t[1]) /\ (k >= 2 => p[2] = t[2]) /\ (k >= 3 => p[3] = t[3])
        /\ (k >= 4 => p[4] = t[4]) /\ (k >= 5 => p[5] = t[5])
    BY <1>3
  <2>2. (k < 2 => p[2] = 1) /\ (k < 3 => p[3] = 1) /\ (k < 4 => p[4] = 0)
        /\ (k < 5 => p[5] = 0) /\ p[6] = 0
    <3>1. (k < 2 => p[2] = Zero[2]) /\ (k < 3 => p[3] = Zero[3]) /\ (k < 4 => p[4] = Zero[4])
          /\ (k < 5 => p[5] = Zero[5]) /\ p[6] = Zero[6]
      BY <1>2
    <3> QED
      BY <3>1 DEF Zero
  <2>3. p[2] \in 1 .. 12 /\ p[4] \in 0 .. 23 /\ p[5] \in 0 .. 59 /\ p[6] \in 0 .. 59
    <3>1. t[2] \in 1 .. 12 /\ t[4] \in 0 .. 23 /\ t[5] \in 0 .. 59 /\ t[6] \in 0 .. 59
      BY DEF IsDate
    <3> QED
      BY <2>1, <2>2, <3>1
  <2>4. p[3] \in 1 .. DaysIn(p[1], p[2])
    <3>1. CASE k >= 3
      <4>1. p[1] = t[1] /\ p[2] = t[2] /\ p[3] = t[3]
        BY <2>1, <3>1
      <4> QED
        BY <4>1 DEF IsDate
    <3>2. CASE k < 3
      <4>1. p[3] = 1
        BY <2>2, <3>2
      <4>2. DaysIn(p[1], p[2]) \in 28 .. 31
        BY DEF DaysIn
      <4> QED
        BY <4>1, <4>2
    <3> QED
      BY <3>1, <3>2
  <2> QED
    BY <1>5, <2>3, <2>4 DEF IsDate
<1> QED
  BY <1>1, <1>3, <1>4, <1>6 DEF c

\* Two dates have the same frame when they agree as far as the frame goes.
LEMMA SameFrame ==
  ASSUME NEW t, NEW u, IsDate(t), IsDate(u), NEW k \in 1 .. 5
  PROVE  Cut(t, k) = Cut(u, k) <=> \A i \in 1 .. k : t[i] = u[i]
<1>1. /\ t \in Seq(Nat) /\ Len(t) = 6 /\ u \in Seq(Nat) /\ Len(u) = 6
  BY Components
<1>2. /\ Cut(t, k) = [i \in 1 .. k |-> t[i]] /\ Cut(u, k) = [i \in 1 .. k |-> u[i]]
  <2> SUFFICES ASSUME NEW v \in Seq(Nat), Len(v) = 6, \A i \in 1 .. 6 : v[i] \in Nat
               PROVE  Cut(v, k) = [i \in 1 .. k |-> v[i]]
    BY <1>1, Components
  <2>1. Cut(v, k) \in Seq(Nat)
    <3>1. \A i \in 1 .. k : v[i] \in Nat
      OBVIOUS
    <3> QED
      BY <3>1, SubSeqProperties DEF Cut
  <2>2. Len(Cut(v, k)) = k
    BY DEF Cut
  <2>3. \A i \in 1 .. k : Cut(v, k)[i] = v[i]
    BY DEF Cut
  <2> QED
    BY <2>1, <2>2, <2>3
<1> QED
  BY <1>2

\* The date a frame begins with says which frame it is.
LEMMA FrameOfBegin ==
  ASSUME NEW t, IsDate(t), NEW k \in 1 .. 5, Begins(t, k)
  PROVE  parseTime(Cut(t, k)) = t
<1> DEFINE p == parseTime(Cut(t, k))
<1>1. /\ IsDate(p) /\ Begins(p, k) /\ \A i \in 1 .. k : p[i] = t[i]
  BY Frames
<1> HIDE DEF p
<1>2. \A i \in 1 .. 6 : p[i] = t[i]
  <2>1. \A i \in 1 .. 6 : i \in 1 .. k \/ i \in k + 1 .. 6
    OBVIOUS
  <2> QED
    BY <1>1, <2>1 DEF Begins
<1>3. p \in [1 .. 6 -> Nat] /\ t \in [1 .. 6 -> Nat]
  BY <1>1 DEF IsDate
<1>4. p = t
  BY <1>2, <1>3
<1> QED
  BY <1>4 DEF p

-----------------------------------------------------------------------------
(***************************************************************************)
(* The order of dates, and the frame after a frame.                        *)
(***************************************************************************)

\* Of two dates one comes first, unless they are the same.
LEMMA Ordered ==
  ASSUME NEW t, NEW u, IsDate(t), IsDate(u)
  PROVE  /\ Before(t, u) => ~Before(u, t) /\ t # u
         /\ ~Before(t, u) /\ ~Before(u, t) => t = u
<1>1. /\ t[1] \in Nat /\ t[2] \in Nat /\ t[3] \in Nat /\ t[4] \in Nat /\ t[5] \in Nat
      /\ t[6] \in Nat
      /\ u[1] \in Nat /\ u[2] \in Nat /\ u[3] \in Nat /\ u[4] \in Nat /\ u[5] \in Nat
      /\ u[6] \in Nat
  BY Components
<1>2. (Before(t, u) <=> Earlier(t, u)) /\ (Before(u, t) <=> Earlier(u, t))
  BY BeforeIsEarlier
<1>3. Earlier(t, u) => ~Earlier(u, t)
  BY <1>1 DEF Earlier
<1>4. ASSUME t = u PROVE ~Earlier(t, u)
  BY <1>1, <1>4 DEF Earlier
<1>5. ASSUME ~Earlier(t, u), ~Earlier(u, t) PROVE t = u
  <2>1. t[1] = u[1] /\ t[2] = u[2] /\ t[3] = u[3] /\ t[4] = u[4] /\ t[5] = u[5] /\ t[6] = u[6]
    BY <1>1, <1>5 DEF Earlier
  <2>2. \A i \in 1 .. 6 : i = 1 \/ i = 2 \/ i = 3 \/ i = 4 \/ i = 5 \/ i = 6
    OBVIOUS
  <2>3. \A i \in 1 .. 6 : t[i] = u[i]
    BY <2>1, <2>2
  <2>4. t \in [1 .. 6 -> Nat] /\ u \in [1 .. 6 -> Nat]
    BY DEF IsDate
  <2> QED
    BY <2>3, <2>4
<1> QED
  BY <1>2, <1>3, <1>4, <1>5

\* The order is transitive.
LEMMA InOrder ==
  ASSUME NEW t, NEW u, NEW v, IsDate(t), IsDate(u), IsDate(v)
  PROVE  /\ Before(t, u) /\ Before(u, v) => Before(t, v)
         /\ ~Before(u, t) /\ Before(u, v) => Before(t, v)
         /\ Before(t, u) /\ ~Before(v, u) => Before(t, v)
<1>1. /\ t[1] \in Nat /\ t[2] \in Nat /\ t[3] \in Nat /\ t[4] \in Nat /\ t[5] \in Nat
      /\ t[6] \in Nat
      /\ u[1] \in Nat /\ u[2] \in Nat /\ u[3] \in Nat /\ u[4] \in Nat /\ u[5] \in Nat
      /\ u[6] \in Nat
      /\ v[1] \in Nat /\ v[2] \in Nat /\ v[3] \in Nat /\ v[4] \in Nat /\ v[5] \in Nat
      /\ v[6] \in Nat
  BY Components
<1>2. /\ (Before(t, u) <=> Earlier(t, u)) /\ (Before(u, t) <=> Earlier(u, t))
      /\ (Before(u, v) <=> Earlier(u, v)) /\ (Before(v, u) <=> Earlier(v, u))
      /\ (Before(t, v) <=> Earlier(t, v))
  BY BeforeIsEarlier
<1>3. Earlier(t, u) /\ Earlier(u, v) => Earlier(t, v)
  BY <1>1 DEF Earlier
<1>4. ~Earlier(u, t) /\ Earlier(u, v) => Earlier(t, v)
  BY <1>1 DEF Earlier
<1>5. Earlier(t, u) /\ ~Earlier(v, u) => Earlier(t, v)
  BY <1>1 DEF Earlier
<1> QED
  BY <1>2, <1>3, <1>4, <1>5

\* What Begins says of the components.
LEMMA Beginning ==
  ASSUME NEW t, NEW k \in 1 .. 5, Begins(t, k)
  PROVE  /\ k <= 1 => t[2] = 1
         /\ k <= 2 => t[3] = 1
         /\ k <= 3 => t[4] = 0
         /\ k <= 4 => t[5] = 0
         /\ t[6] = 0
<1>1. /\ k <= 1 => t[2] = Zero[2]
      /\ k <= 2 => t[3] = Zero[3]
      /\ k <= 3 => t[4] = Zero[4]
      /\ k <= 4 => t[5] = Zero[5]
      /\ t[6] = Zero[6]
  BY DEF Begins
<1> QED
  BY <1>1 DEF Zero

\* A date comes before a frame begins when its own frame does.
LEMMA FrameBefore ==
  ASSUME NEW t, NEW u, IsDate(t), IsDate(u), NEW k \in 1 .. 5, Begins(u, k)
  PROVE  /\ Before(parseTime(Cut(t, k)), u) <=> Before(t, u)
         /\ ~Before(t, parseTime(Cut(t, k)))
<1> DEFINE f == parseTime(Cut(t, k))
<1>1. IsDate(f) /\ Begins(f, k) /\ \A i \in 1 .. k : f[i] = t[i]
  BY Frames
<1> HIDE DEF f
<1>2. /\ (k >= 1 => f[1] = t[1]) /\ (k >= 2 => f[2] = t[2]) /\ (k >= 3 => f[3] = t[3])
      /\ (k >= 4 => f[4] = t[4]) /\ (k >= 5 => f[5] = t[5])
  BY <1>1
<1>3. /\ (k <= 1 => f[2] = 1) /\ (k <= 2 => f[3] = 1) /\ (k <= 3 => f[4] = 0)
      /\ (k <= 4 => f[5] = 0) /\ f[6] = 0
  BY <1>1, Beginning
<1>4. /\ (k <= 1 => u[2] = 1) /\ (k <= 2 => u[3] = 1) /\ (k <= 3 => u[4] = 0)
      /\ (k <= 4 => u[5] = 0) /\ u[6] = 0
  BY Beginning
<1>5. /\ t[1] \in Nat /\ t[2] \in Nat /\ t[3] \in Nat /\ t[4] \in Nat /\ t[5] \in Nat
      /\ t[6] \in Nat
      /\ u[1] \in Nat /\ u[2] \in Nat /\ u[3] \in Nat /\ u[4] \in Nat /\ u[5] \in Nat
      /\ u[6] \in Nat
      /\ f[1] \in Nat /\ f[2] \in Nat /\ f[3] \in Nat /\ f[4] \in Nat /\ f[5] \in Nat
      /\ f[6] \in Nat
      /\ t[2] >= 1 /\ t[3] >= 1
  BY <1>1, Components
<1>6. Earlier(f, u) <=> Earlier(t, u)
  BY <1>2, <1>3, <1>4, <1>5 DEF Earlier
<1>7. ~Earlier(t, f)
  BY <1>2, <1>3, <1>5 DEF Earlier
<1> QED
  BY <1>6, <1>7, BeforeIsEarlier DEF f

\* The frame after a frame, on the way to a later date: no date lies between them, and
\* the later date is not passed, also when the last day of a month carries.
LEMMA NextFrame ==
  ASSUME NEW b, NEW t, IsDate(b), IsDate(t), NEW k \in 1 .. 5, Begins(b, k), b[k] < t[k]
  PROVE  LET a == Add(b, k)
         IN  /\ IsDate(a) /\ Begins(a, k) /\ Before(b, a)
             /\ ~Before(t, b) => ~Before(t, a)
             /\ \A f : IsDate(f) /\ Begins(f, k) => ~(Before(b, f) /\ Before(f, a))
             /\ ((\A i \in 1 .. k - 1 : b[i] = t[i]) =>
                   /\ a[k] = b[k] + 1 /\ a[k] <= t[k] /\ \A i \in 1 .. k - 1 : a[i] = t[i])
<1> DEFINE a == Add(b, k)
           carries == k = 3 /\ b[3] = DaysIn(b[1], b[2])
<1>1. b \in [1 .. 6 -> Nat] /\ \A i \in 1 .. 6 : b[i] \in Nat
  BY Components DEF IsDate
<1>2. /\ a \in [1 .. 6 -> Nat]
      /\ carries => /\ a[1] = b[1] /\ a[2] = b[2] + 1 /\ a[3] = 1
                     /\ a[4] = b[4] /\ a[5] = b[5] /\ a[6] = b[6]
      /\ ~carries => \A i \in 1 .. 6 : a[i] = IF i = k THEN b[k] + 1 ELSE b[i]
  <2>1. CASE carries
    <3>1. a = [b EXCEPT ![2] = @ + 1, ![3] = 1]
      BY <2>1 DEF Add
    <3> QED
      BY <1>1, <2>1, <3>1
  <2>2. CASE ~carries
    <3>1. a = [b EXCEPT ![k] = @ + 1]
      BY <2>2 DEF Add
    <3> QED
      BY <1>1, <2>2, <3>1
  <2> QED
    BY <2>1, <2>2
<1> HIDE DEF a
<1>3. /\ b[1] \in Nat /\ b[2] \in 1 .. 12 /\ b[4] \in 0 .. 23 /\ b[5] \in 0 .. 59
      /\ b[6] \in 0 .. 59
      /\ b[3] \in Nat /\ b[3] >= 1 /\ b[3] <= DaysIn(b[1], b[2])
      /\ DaysIn(b[1], b[2]) \in 28 .. 31 /\ (b[2] = 12 => DaysIn(b[1], b[2]) = 31)
      /\ t[1] \in Nat /\ t[2] \in 1 .. 12 /\ t[4] \in 0 .. 23 /\ t[5] \in 0 .. 59
      /\ t[6] \in 0 .. 59
      /\ t[3] \in Nat /\ t[3] >= 1 /\ t[3] <= DaysIn(t[1], t[2])
      /\ DaysIn(t[1], t[2]) \in 28 .. 31
  BY Components DEF IsDate
<1>4. /\ (k <= 1 => b[2] = 1) /\ (k <= 2 => b[3] = 1) /\ (k <= 3 => b[4] = 0)
      /\ (k <= 4 => b[5] = 0) /\ b[6] = 0
  BY Beginning
<1>5. k = 1 \/ k = 2 \/ k = 3 \/ k = 4 \/ k = 5
  OBVIOUS
<1>6. ~carries => /\ a[1] = (IF k = 1 THEN b[1] + 1 ELSE b[1])
                  /\ a[2] = (IF k = 2 THEN b[2] + 1 ELSE b[2])
                  /\ a[3] = (IF k = 3 THEN b[3] + 1 ELSE b[3])
                  /\ a[4] = (IF k = 4 THEN b[4] + 1 ELSE b[4])
                  /\ a[5] = (IF k = 5 THEN b[5] + 1 ELSE b[5])
                  /\ a[6] = b[6]
  BY <1>2
<1>7. carries => b[2] < 12
  BY <1>3
<1>8. a[2] \in 1 .. 12 /\ a[4] \in 0 .. 23 /\ a[5] \in 0 .. 59 /\ a[6] \in 0 .. 59
  <2>1. CASE carries
    BY <1>2, <1>3, <1>7, <2>1
  <2>2. CASE ~carries
    BY <1>3, <1>5, <1>6, <2>2
  <2> QED
    BY <2>1, <2>2
<1>9. a[3] \in 1 .. DaysIn(a[1], a[2])
  <2>1. DaysIn(a[1], a[2]) \in 28 .. 31
    BY DEF DaysIn
  <2>2. CASE carries
    BY <1>2, <2>1, <2>2
  <2>3. CASE ~carries /\ k = 3
    <3>1. a[1] = b[1] /\ a[2] = b[2] /\ a[3] = b[3] + 1 /\ b[3] # DaysIn(b[1], b[2])
      BY <1>6, <2>3
    <3> QED
      BY <1>3, <3>1
  <2>4. CASE ~carries /\ k > 3
    <3>1. a[1] = b[1] /\ a[2] = b[2] /\ a[3] = b[3]
      BY <1>6, <2>4
    <3> QED
      BY <1>3, <3>1
  <2>5. CASE ~carries /\ k < 3
    <3>1. a[3] = 1
      BY <1>4, <1>6, <2>5
    <3> QED
      BY <2>1, <3>1
  <2> QED
    BY <2>2, <2>3, <2>4, <2>5
<1>10. IsDate(a)
  BY <1>2, <1>8, <1>9 DEF IsDate
<1>11. /\ (k <= 1 => a[2] = 1) /\ (k <= 2 => a[3] = 1) /\ (k <= 3 => a[4] = 0)
       /\ (k <= 4 => a[5] = 0) /\ a[6] = 0
  <2>1. CASE carries
    BY <1>2, <1>4, <2>1
  <2>2. CASE ~carries
    BY <1>4, <1>6, <2>2
  <2> QED
    BY <2>1, <2>2
<1>12. Begins(a, k)
  <2> SUFFICES ASSUME NEW j \in k + 1 .. 6 PROVE a[j] = Zero[j]
    BY DEF Begins
  <2>1. (j = 2 /\ k <= 1) \/ (j = 3 /\ k <= 2) \/ (j = 4 /\ k <= 3) \/ (j = 5 /\ k <= 4) \/ j = 6
    BY <1>5
  <2> QED
    BY <1>11, <2>1 DEF Zero
<1>13. /\ a[1] \in Nat /\ a[2] \in Nat /\ a[3] \in Nat /\ a[4] \in Nat /\ a[5] \in Nat
       /\ a[6] \in Nat
  BY <1>2
<1>14. Earlier(b, a)
  <2>1. CASE carries
    BY <1>2, <1>3, <2>1 DEF Earlier
  <2>2. CASE ~carries
    BY <1>3, <1>5, <1>6, <2>2 DEF Earlier
  <2> QED
    BY <2>1, <2>2
<1>15. ~Earlier(t, b) => ~Earlier(t, a)
  <2>1. CASE carries
    <3>1. ~(t[1] = b[1] /\ t[2] = b[2])
      BY <1>3, <2>1
    <3>2. /\ a[1] = b[1] /\ a[2] = b[2] + 1 /\ a[3] = 1 /\ a[4] = 0 /\ a[5] = 0 /\ a[6] = 0
      BY <1>2, <1>4, <2>1
    <3> QED
      BY <1>3, <3>1, <3>2 DEF Earlier
  <2>2. CASE ~carries
    <3>1. CASE k = 1
      BY <1>3, <1>4, <1>6, <2>2, <3>1 DEF Earlier
    <3>2. CASE k = 2
      BY <1>3, <1>4, <1>6, <2>2, <3>2 DEF Earlier
    <3>3. CASE k = 3
      BY <1>3, <1>4, <1>6, <2>2, <3>3 DEF Earlier
    <3>4. CASE k = 4
      BY <1>3, <1>4, <1>6, <2>2, <3>4 DEF Earlier
    <3>5. CASE k = 5
      BY <1>3, <1>4, <1>6, <2>2, <3>5 DEF Earlier
    <3> QED
      BY <1>5, <3>1, <3>2, <3>3, <3>4, <3>5
  <2> QED
    BY <2>1, <2>2
<1>16. ASSUME NEW f, IsDate(f), Begins(f, k) PROVE ~(Earlier(b, f) /\ Earlier(f, a))
  <2>1. /\ f[1] \in Nat /\ f[2] \in Nat /\ f[3] \in Nat /\ f[4] \in Nat /\ f[5] \in Nat
        /\ f[6] \in Nat
        /\ f[2] >= 1 /\ f[3] >= 1 /\ f[3] <= DaysIn(f[1], f[2])
        /\ DaysIn(f[1], f[2]) \in 28 .. 31
    BY <1>16, Components
  <2>2. /\ (k <= 1 => f[2] = 1) /\ (k <= 2 => f[3] = 1) /\ (k <= 3 => f[4] = 0)
        /\ (k <= 4 => f[5] = 0) /\ f[6] = 0
    BY <1>16, Beginning
  <2>3. CASE carries
    <3>1. /\ a[1] = b[1] /\ a[2] = b[2] + 1 /\ a[3] = 1 /\ a[4] = 0 /\ a[5] = 0 /\ a[6] = 0
          /\ b[4] = 0 /\ b[5] = 0 /\ b[6] = 0
          /\ f[4] = 0 /\ f[5] = 0 /\ f[6] = 0 /\ b[3] = DaysIn(b[1], b[2])
      BY <1>2, <1>4, <2>2, <2>3
    <3>2. f[1] = b[1] /\ f[2] = b[2] => f[3] <= b[3]
      BY <2>1, <3>1
    <3> QED
      BY <1>3, <2>1, <3>1, <3>2 DEF Earlier
  <2>4. CASE ~carries
    <3>1. CASE k = 1
      BY <1>3, <1>4, <1>6, <2>1, <2>2, <2>4, <3>1 DEF Earlier
    <3>2. CASE k = 2
      BY <1>3, <1>4, <1>6, <2>1, <2>2, <2>4, <3>2 DEF Earlier
    <3>3. CASE k = 3
      BY <1>3, <1>4, <1>6, <2>1, <2>2, <2>4, <3>3 DEF Earlier
    <3>4. CASE k = 4
      BY <1>3, <1>4, <1>6, <2>1, <2>2, <2>4, <3>4 DEF Earlier
    <3>5. CASE k = 5
      BY <1>3, <1>4, <1>6, <2>1, <2>2, <2>4, <3>5 DEF Earlier
    <3> QED
      BY <1>5, <3>1, <3>2, <3>3, <3>4, <3>5
  <2> QED
    BY <2>3, <2>4
<1>17. ASSUME \A i \in 1 .. k - 1 : b[i] = t[i]
       PROVE  a[k] = b[k] + 1 /\ a[k] <= t[k] /\ \A i \in 1 .. k - 1 : a[i] = t[i]
  <2>1. ~carries
    <3> SUFFICES ASSUME carries PROVE FALSE
      OBVIOUS
    <3>1. b[1] = t[1] /\ b[2] = t[2]
      BY <1>17
    <3> QED
      BY <1>3, <3>1
  <2>2. \A i \in 1 .. k - 1 : i \in 1 .. 6 /\ i # k
    BY <1>5
  <2>3. a[k] = b[k] + 1 /\ \A i \in 1 .. k - 1 : a[i] = b[i]
    BY <1>2, <2>1, <2>2
  <2>4. b[k] \in Nat /\ t[k] \in Nat
    BY <1>1, Components
  <2> QED
    BY <1>17, <2>3, <2>4
<1> QED
  BY <1>10, <1>12, <1>14, <1>15, <1>16, <1>17, BeforeIsEarlier DEF a

-----------------------------------------------------------------------------
(***************************************************************************)
(* The inductive invariant: the list of frames, of length k, of a range    *)
(* that begins at the date f and ends at the date t.                       *)
(***************************************************************************)

\* The bounds are frames cut from dates.
Bounds == \E k, l \in 1 .. 5, first, last \in Bound :
            createdFrom = Cut(first, k) /\ createdTo = Cut(last, l)

\* What is listed are frames of one length, and the loop has got to the last one.
Date(list, i) == parseTime(list[i])

Listed(list, k, f, b) ==
  /\ list \in Seq(Seq(Nat)) /\ Len(list) >= 1
  /\ \A i \in 1 .. Len(list) :
       IsDate(Date(list, i)) /\ Begins(Date(list, i), k) /\ list[i] = Cut(Date(list, i), k)
  /\ Date(list, 1) = f /\ Date(list, Len(list)) = b

\* The date e comes after d, and no frame begins between them.
FollowedBy(d, e, k) ==
  Before(d, e) /\ \A g : IsDate(g) /\ Begins(g, k) => ~(Before(d, g) /\ Before(g, e))

\* The next frame on the list is the next one on the calendar, and the list stays in the
\* range.
Consecutive(list, k, f, t) ==
  /\ \A i \in 1 .. Len(list) - 1 : FollowedBy(Date(list, i), Date(list, i + 1), k)
  /\ ~Before(t, f) => \A i \in 1 .. Len(list) : ~Before(t, Date(list, i))

\* In a range that does not leave the frame its bounds are part of, the list counts up.
SameAbove(k, f, t) == \A j \in 1 .. k - 1 : f[j] = t[j]

CountsUp(list, k, f, t) ==
  SameAbove(k, f, t) /\ ~Before(t, f) =>
    \A i \in 1 .. Len(list) :
      /\ Date(list, i)[k] = f[k] + (i - 1) /\ Date(list, i)[k] <= t[k]
      /\ \A j \in 1 .. k - 1 : Date(list, i)[j] = f[j]

InList(list, k, f, t, b) ==
  Listed(list, k, f, b) /\ Consecutive(list, k, f, t) /\ CountsUp(list, k, f, t)

IInv ==
  /\ Bounds /\ InList(timeFrames, n, from, to, base)
  /\ pc \in {"loop", "done"}
  /\ pc = "done" => base[n] >= to[n]

\* The two dates of the range.
LEMMA RangeIs ==
  ASSUME Bounds
  PROVE  /\ n \in 1 .. 5 /\ IsDate(from) /\ Begins(from, n) /\ createdFrom = Cut(from, n)
         /\ Len(createdTo) \in 1 .. 5 /\ IsDate(to) /\ Begins(to, Len(createdTo))
         /\ createdTo = Cut(to, Len(createdTo))
<1>1. PICK k \in 1 .. 5, l \in 1 .. 5, first \in Bound, last \in Bound :
        createdFrom = Cut(first, k) /\ createdTo = Cut(last, l)
  BY DEF Bounds
<1>2. IsDate(first) /\ IsDate(last)
  BY DatesAssumption
<1>3. /\ n = k /\ IsDate(from) /\ Begins(from, k) /\ \A i \in 1 .. k : from[i] = first[i]
  BY <1>1, <1>2, Frames DEF n, from
<1>4. /\ Len(createdTo) = l /\ IsDate(to) /\ Begins(to, l)
      /\ \A i \in 1 .. l : to[i] = last[i]
  BY <1>1, <1>2, Frames DEF to
<1>5. Cut(from, k) = Cut(first, k) /\ Cut(to, l) = Cut(last, l)
  <2> DEFINE f == from
             t == to
  <2>1. IsDate(f) /\ IsDate(t) /\ (\A i \in 1 .. k : f[i] = first[i])
        /\ (\A i \in 1 .. l : t[i] = last[i])
    BY <1>3, <1>4
  <2> HIDE DEF f, t
  <2>2. Cut(f, k) = Cut(first, k) /\ Cut(t, l) = Cut(last, l)
    BY <1>2, <2>1, SameFrame
  <2> QED
    BY <2>2 DEF f, t
<1>6. createdFrom = Cut(from, k) /\ createdTo = Cut(to, l)
  BY <1>1, <1>5
<1>7. /\ n \in 1 .. 5 /\ IsDate(from) /\ Begins(from, n) /\ createdFrom = Cut(from, n)
  BY <1>3, <1>6
<1>8. /\ Len(createdTo) \in 1 .. 5 /\ IsDate(to) /\ Begins(to, Len(createdTo))
      /\ createdTo = Cut(to, Len(createdTo))
  BY <1>4, <1>6
<1> QED
  BY <1>7, <1>8

\* The list begins with the first frame.
LEMMA FirstListed ==
  ASSUME NEW k \in 1 .. 5, NEW f, NEW t, IsDate(f), IsDate(t), Begins(f, k)
  PROVE  InList(<<Cut(f, k)>>, k, f, t, f)
<1> DEFINE c == Cut(f, k)
           list == <<c>>
<1>1. c \in Seq(Nat) /\ parseTime(c) = f
  <2>1. (\A i \in 1 .. 6 : f[i] \in Nat) /\ f \in Seq(Nat) /\ Len(f) = 6
    BY Components
  <2>2. SubSeq(f, 1, k) \in Seq(Nat)
    BY <2>1, SubSeqProperties
  <2> QED
    BY <2>2, FrameOfBegin DEF Cut
<1> HIDE DEF c
<1>2. list \in Seq(Seq(Nat)) /\ Len(list) = 1 /\ list[1] = c /\ Date(list, 1) = f
  BY <1>1 DEF Date
<1> HIDE DEF list
<1>3. \A i \in 1 .. Len(list) : i = 1
  BY <1>2
<1>4. Listed(list, k, f, f)
  BY <1>2, <1>3 DEF Listed, c
<1>5. Consecutive(list, k, f, t)
  BY <1>2, <1>3 DEF Consecutive
<1>6. CountsUp(list, k, f, t)
  <2> SUFFICES ASSUME SameAbove(k, f, t), ~Before(t, f)
               PROVE  f[k] = f[k] + (1 - 1) /\ f[k] <= t[k]
    BY <1>2, <1>3 DEF CountsUp
  <2>1. f[k] \in Nat /\ t[k] \in Nat
    BY Components
  <2>2. t[k] < f[k] => Before(t, f)
    <3>1. SameAbove(k, f, t) => \A j \in 1 .. k - 1 : t[j] = f[j]
      BY DEF SameAbove
    <3> QED
      BY <3>1 DEF Before
  <2> QED
    BY <2>1, <2>2
<1> QED
  BY <1>4, <1>5, <1>6 DEF InList, list, c

\* One more frame.
LEMMA OneMoreListed ==
  ASSUME NEW list, NEW k \in 1 .. 5, NEW f, NEW t, NEW b, IsDate(f), IsDate(t),
         InList(list, k, f, t, b), b[k] < t[k]
  PROVE  InList(Append(list, Cut(Add(b, k), k)), k, f, t, Add(b, k))
<1> DEFINE m == Len(list)
           a == Add(b, k)
           c == Cut(a, k)
           longer == Append(list, c)
<1>1. /\ list \in Seq(Seq(Nat)) /\ m \in Nat /\ m >= 1 /\ m \in 1 .. m
      /\ Date(list, m) = b /\ Date(list, 1) = f
  BY DEF InList, Listed
<1>2. /\ \A i \in 1 .. m : /\ IsDate(Date(list, i)) /\ Begins(Date(list, i), k)
                           /\ list[i] = Cut(Date(list, i), k)
      /\ \A i \in 1 .. m - 1 : FollowedBy(Date(list, i), Date(list, i + 1), k)
      /\ ~Before(t, f) => \A i \in 1 .. m : ~Before(t, Date(list, i))
      /\ SameAbove(k, f, t) /\ ~Before(t, f) =>
           \A i \in 1 .. m :
             /\ Date(list, i)[k] = f[k] + (i - 1) /\ Date(list, i)[k] <= t[k]
             /\ \A j \in 1 .. k - 1 : Date(list, i)[j] = f[j]
  BY DEF InList, Listed, Consecutive, CountsUp
<1>3. IsDate(b) /\ Begins(b, k)
  BY <1>1, <1>2
<1>4. /\ IsDate(a) /\ Begins(a, k)
      /\ FollowedBy(b, a, k)
      /\ ~Before(t, b) => ~Before(t, a)
      /\ ((\A i \in 1 .. k - 1 : b[i] = t[i]) =>
            /\ a[k] = b[k] + 1 /\ a[k] <= t[k] /\ \A i \in 1 .. k - 1 : a[i] = t[i])
  BY <1>3, NextFrame, SMTT(30) DEF FollowedBy
<1> HIDE DEF a
<1>5. c \in Seq(Nat) /\ parseTime(c) = a
  <2>1. (\A i \in 1 .. 6 : a[i] \in Nat) /\ a \in Seq(Nat) /\ Len(a) = 6
    BY <1>4, Components
  <2>2. SubSeq(a, 1, k) \in Seq(Nat)
    BY <2>1, SubSeqProperties
  <2> QED
    BY <1>4, <2>2, FrameOfBegin DEF Cut
<1> HIDE DEF c, m
<1>6. /\ longer \in Seq(Seq(Nat)) /\ Len(longer) = m + 1
      /\ \A i \in 1 .. m : longer[i] = list[i]
      /\ longer[m + 1] = c
  BY <1>1, <1>5 DEF m
<1> HIDE DEF longer
<1>7. /\ \A i \in 1 .. m : Date(longer, i) = Date(list, i)
      /\ Date(longer, m + 1) = a
  BY <1>5, <1>6 DEF Date
<1>8. \A i \in 1 .. m + 1 : i \in 1 .. m \/ i = m + 1
  BY <1>1
<1>9. Listed(longer, k, f, a)
  <2>1. ASSUME NEW i \in 1 .. m + 1
        PROVE  /\ IsDate(Date(longer, i)) /\ Begins(Date(longer, i), k)
               /\ longer[i] = Cut(Date(longer, i), k)
    <3>1. CASE i \in 1 .. m
      BY <1>2, <1>6, <1>7, <3>1
    <3>2. CASE i = m + 1
      BY <1>4, <1>6, <1>7, <3>2 DEF c
    <3> QED
      BY <1>8, <3>1, <3>2
  <2>2. Date(longer, 1) = f
    <3>1. 1 \in 1 .. m
      BY <1>1
    <3> QED
      BY <1>1, <1>7, <3>1
  <2>3. m + 1 >= 1
    BY <1>1
  <2> QED
    BY <1>6, <1>7, <2>1, <2>2, <2>3 DEF Listed
<1>10. Consecutive(longer, k, f, t)
  <2>1. ASSUME NEW i \in 1 .. m PROVE FollowedBy(Date(longer, i), Date(longer, i + 1), k)
    <3>1. CASE i = m
      BY <1>1, <1>4, <1>7, <3>1
    <3>2. CASE i # m
      <4>1. i \in 1 .. m - 1 /\ i + 1 \in 1 .. m
        BY <1>1, <3>2
      <4> QED
        BY <1>2, <1>7, <4>1
    <3> QED
      BY <3>1, <3>2
  <2>2. ASSUME ~Before(t, f), NEW i \in 1 .. m + 1 PROVE ~Before(t, Date(longer, i))
    <3>1. CASE i \in 1 .. m
      BY <1>2, <1>7, <2>2, <3>1
    <3>2. CASE i = m + 1
      BY <1>1, <1>2, <1>4, <1>7, <2>2, <3>2
    <3> QED
      BY <1>8, <3>1, <3>2
  <2>3. (m + 1) - 1 = m
    BY <1>1
  <2> QED
    BY <1>6, <2>1, <2>2, <2>3 DEF Consecutive
<1>11. CountsUp(longer, k, f, t)
  <2> SUFFICES ASSUME SameAbove(k, f, t), ~Before(t, f), NEW i \in 1 .. m + 1
               PROVE  /\ Date(longer, i)[k] = f[k] + (i - 1) /\ Date(longer, i)[k] <= t[k]
                      /\ \A j \in 1 .. k - 1 : Date(longer, i)[j] = f[j]
    BY <1>6 DEF CountsUp
  <2>1. CASE i \in 1 .. m
    BY <1>2, <1>7, <2>1
  <2>2. CASE i = m + 1
    <3>1. /\ b[k] = f[k] + (m - 1) /\ \A j \in 1 .. k - 1 : b[j] = f[j]
      BY <1>1, <1>2
    <3>2. \A j \in 1 .. k - 1 : b[j] = t[j]
      BY <3>1 DEF SameAbove
    <3>3. /\ a[k] = b[k] + 1 /\ a[k] <= t[k] /\ \A j \in 1 .. k - 1 : a[j] = t[j]
      BY <1>4, <3>2
    <3>4. f[k] \in Nat
      BY Components
    <3>5. b[k] + 1 = f[k] + (i - 1)
      BY <1>1, <2>2, <3>1, <3>4
    <3>6. \A j \in 1 .. k - 1 : a[j] = f[j]
      BY <3>3 DEF SameAbove
    <3> QED
      BY <1>7, <2>2, <3>3, <3>5, <3>6
  <2> QED
    BY <1>8, <2>1, <2>2
<1> QED
  BY <1>9, <1>10, <1>11 DEF InList, longer, c, a

\* The first state.
LEMMA IInvInit == Init => IInv
<1> SUFFICES ASSUME Init PROVE IInv
  OBVIOUS
<1>1. Bounds /\ base = from /\ timeFrames = <<createdFrom>> /\ pc = "loop"
  BY DEF Init, Bounds, from
<1>2. /\ n \in 1 .. 5 /\ IsDate(from) /\ Begins(from, n) /\ createdFrom = Cut(from, n)
      /\ IsDate(to)
  BY <1>1, RangeIs
<1>3. InList(<<Cut(from, n)>>, n, from, to, from)
  BY <1>2, FirstListed
<1> QED
  BY <1>1, <1>2, <1>3 DEF IInv

\* Every step of the loop keeps the list in order.
LEMMA IInvStep == IInv /\ [Next]_vars => IInv'
<1> SUFFICES ASSUME IInv, [Next]_vars PROVE IInv'
  OBVIOUS
<1>1. UNCHANGED <<createdFrom, createdTo>>
  BY DEF Next, Enumerate, Return, vars
<1>2. n' = n /\ from' = from /\ to' = to /\ Bounds'
  BY <1>1 DEF n, from, to, IInv, Bounds
<1>3. CASE Enumerate
  <2>1. n \in 1 .. 5 /\ IsDate(from) /\ IsDate(to)
    BY RangeIs DEF IInv
  <2>2. base[n] < to[n] /\ InList(timeFrames, n, from, to, base) /\ pc = "loop" /\ pc' = pc
        /\ base' = Add(base, n) /\ timeFrames' = Append(timeFrames, Cut(Add(base, n), n))
    BY <1>3 DEF Enumerate, IInv
  <2>3. InList(timeFrames', n, from, to, base')
    BY <2>1, <2>2, OneMoreListed
  <2> QED
    BY <1>2, <2>2, <2>3 DEF IInv
<1>4. CASE Return \/ UNCHANGED vars
  <2>1. /\ UNCHANGED <<base, timeFrames>> /\ pc' \in {"loop", "done"}
        /\ pc' = "done" => base[n] >= to[n]
    BY <1>4 DEF IInv, Return, vars
  <2> QED
    BY <1>2, <2>1 DEF IInv
<1> QED
  BY <1>3, <1>4 DEF Next

\* The list is made of frames that follow each other on the calendar.
THEOREM Invariance == Spec => []IInv
<1>1. IInv /\ [Next]_vars => IInv'
  BY IInvStep
<1> QED
  BY <1>1, IInvInit, PTL DEF Spec

-----------------------------------------------------------------------------
(***************************************************************************)
(* What the aggregates of the listed frames count.                         *)
(***************************************************************************)

\* The listed frames are in order: least counterexample.
LEMMA Increasing ==
  ASSUME NEW list, NEW k \in 1 .. 5, NEW f, NEW t, NEW b, InList(list, k, f, t, b),
         NEW i \in 1 .. Len(list), NEW j \in 1 .. Len(list), i < j
  PROVE  Before(Date(list, i), Date(list, j))
<1> DEFINE m == Len(list)
           Wrong == {d \in Nat : i + d + 1 <= m /\ ~Before(Date(list, i), Date(list, i + d + 1))}
<1>1. /\ m \in Nat /\ i \in 1 .. m /\ j \in 1 .. m
      /\ \A p \in 1 .. m : IsDate(Date(list, p))
      /\ \A p \in 1 .. m - 1 : Before(Date(list, p), Date(list, p + 1))
  BY DEF InList, Listed, Consecutive, FollowedBy
<1> HIDE DEF m
<1>2. Wrong = {}
  <2> SUFFICES ASSUME Wrong # {} PROVE FALSE
    OBVIOUS
  <2>1. Wrong \in SUBSET Nat
    OBVIOUS
  <2> HIDE DEF Wrong
  <2>2. PICK d \in Wrong : \A e \in Wrong : d <= e
    BY <2>1, LeastNumber
  <2>3. d \in Nat /\ i + d + 1 <= m /\ ~Before(Date(list, i), Date(list, i + d + 1))
    BY <2>2 DEF Wrong
  <2>4. CASE d = 0
    <3>1. i \in 1 .. m - 1 /\ i + d + 1 = i + 1
      BY <1>1, <2>3, <2>4
    <3> QED
      BY <1>1, <2>3, <3>1
  <2>5. CASE d # 0
    <3> DEFINE q == i + d
    <3>1. d - 1 \in Nat /\ i + (d - 1) + 1 = q /\ q <= m /\ ~(d <= d - 1)
          /\ q \in 1 .. m /\ q + 1 \in 1 .. m /\ q \in 1 .. m - 1 /\ i + d + 1 = q + 1
      BY <1>1, <2>3, <2>5
    <3> HIDE DEF q
    <3>2. d - 1 \notin Wrong
      BY <2>2, <3>1
    <3>3. Before(Date(list, i), Date(list, q))
      BY <3>1, <3>2 DEF Wrong
    <3>4. Before(Date(list, q), Date(list, q + 1))
      BY <1>1, <3>1
    <3>5. Before(Date(list, i), Date(list, q + 1))
      BY <1>1, <3>1, <3>3, <3>4, InOrder
    <3> QED
      BY <2>3, <3>1, <3>5
  <2> QED
    BY <2>4, <2>5
<1>3. j - i - 1 \in Nat /\ i + (j - i - 1) + 1 = j /\ j <= m
  BY <1>1
<1>4. j - i - 1 \notin Wrong
  BY <1>2
<1> QED
  BY <1>3, <1>4

\* No frame is listed twice.
LEMMA Distinct ==
  ASSUME NEW list, NEW k \in 1 .. 5, NEW f, NEW t, NEW b, InList(list, k, f, t, b),
         NEW i \in 1 .. Len(list), NEW j \in 1 .. Len(list), list[i] = list[j]
  PROVE  i = j
<1>1. /\ i \in Nat /\ j \in Nat /\ Date(list, i) = Date(list, j)
      /\ IsDate(Date(list, i)) /\ IsDate(Date(list, j))
  BY DEF Date, InList, Listed
<1>2. ~Before(Date(list, i), Date(list, j)) /\ ~Before(Date(list, j), Date(list, i))
  BY <1>1, Ordered
<1>3. ~(i < j) /\ ~(j < i)
  BY <1>2, Increasing
<1> QED
  BY <1>1, <1>3

\* The logs of the listed frames.
Found(list, k) == {log \in Logged : \E i \in 1 .. Len(list) : Cut(log.created, k) = list[i]}

\* The counts add up to them, because no frame is listed twice.
LEMMA CountOfList ==
  ASSUME NEW list, NEW k \in 2 .. 5, NEW f, NEW t, NEW b, InList(list, k, f, t, b)
  PROVE  /\ SumFunction([i \in DOMAIN list |-> Count(list[i])]) = Cardinality(Found(list, k))
         /\ \A i \in 1 .. Len(list) : Len(list[i]) = k
<1> DEFINE m == Len(list)
           found == Found(list, k)
           class == [log \in found |-> CHOOSE i \in 1 .. m : Cut(log.created, k) = list[i]]
           counts == [i \in DOMAIN list |-> Count(list[i])]
           sizes == [i \in 1 .. m |-> Cardinality({log \in found : class[log] = i})]
<1>1. /\ m \in Nat /\ DOMAIN list = 1 .. m /\ k \in 1 .. 5 /\ k # 1
      /\ \A i \in 1 .. m : IsDate(Date(list, i)) /\ list[i] = Cut(Date(list, i), k)
  BY DEF InList, Listed
<1>2. ASSUME NEW i \in 1 .. m PROVE Len(list[i]) = k
  <2> DEFINE d == Date(list, i)
  <2>1. IsDate(d) /\ list[i] = Cut(d, k)
    BY <1>1
  <2> HIDE DEF d
  <2>2. Len(Cut(d, k)) = k
    BY <1>1, <2>1, Frames
  <2> QED
    BY <2>1, <2>2
<1>3. \A log \in found : class[log] \in 1 .. m /\ Cut(log.created, k) = list[class[log]]
  BY DEF Found
<1>4. IsFiniteSet(found) /\ IsFiniteSet(1 .. m)
  <2>1. found \in SUBSET Logged
    BY DEF Found
  <2> QED
    BY <1>1, <2>1, LoggedAssumption, FS_Subset, FS_Interval
<1>5. ASSUME NEW i \in 1 .. m
      PROVE  {log \in found : class[log] = i} = {log \in Logged : Cut(log.created, k) = list[i]}
  <2>1. ASSUME NEW log \in found, class[log] = i
        PROVE  log \in Logged /\ Cut(log.created, k) = list[i]
    BY <1>3, <2>1 DEF Found
  <2>2. ASSUME NEW log \in Logged, Cut(log.created, k) = list[i]
        PROVE  log \in found /\ class[log] = i
    <3>1. log \in found
      BY <2>2 DEF Found
    <3>2. class[log] \in 1 .. m /\ list[class[log]] = list[i]
      BY <1>3, <2>2, <3>1
    <3> HIDE DEF class, found
    <3> QED
      BY <1>1, <3>1, <3>2, Distinct
  <2> HIDE DEF class, found
  <2> QED
    BY <2>1, <2>2
<1>6. \A i \in 1 .. m :
        Count(list[i]) = Cardinality({log \in Logged : Cut(log.created, k) = list[i]})
  BY <1>1, <1>2 DEF Count
<1>7. counts = sizes
  <2> HIDE DEF class, found
  <2>1. \A i \in 1 .. m : Count(list[i]) = Cardinality({log \in found : class[log] = i})
    BY <1>5, <1>6
  <2> QED
    BY <1>1, <2>1
<1>8. SumFunctionOnSet(sizes, 1 .. m) = Cardinality(found)
  <2> HIDE DEF class, found, m
  <2> QED
    BY <1>3, <1>4, SumOfClasses
<1>9. SumFunction(counts) = SumFunctionOnSet(counts, 1 .. m)
  <2>1. DOMAIN counts = 1 .. m
    BY <1>1
  <2> HIDE DEF counts
  <2> QED
    BY <2>1 DEF SumFunction
<1> QED
  BY <1>2, <1>7, <1>8, <1>9

\* They are logs of the range.
LEMMA FoundAreInRange ==
  ASSUME NEW list, NEW k \in 1 .. 5, NEW f, NEW t, NEW b, InList(list, k, f, t, b),
         ~Before(t, f), NEW log \in Found(list, k)
  PROVE  ~Before(parseTime(Cut(log.created, k)), f) /\ ~Before(t, parseTime(Cut(log.created, k)))
<1>1. PICK i \in 1 .. Len(list) : Cut(log.created, k) = list[i]
  BY DEF Found
<1>2. /\ Len(list) \in Nat /\ 1 \in 1 .. Len(list) /\ Date(list, 1) = f
      /\ IsDate(Date(list, i)) /\ IsDate(f)
      /\ ~Before(t, Date(list, i))
  BY DEF InList, Listed, Consecutive
<1>3. ~Before(Date(list, i), f)
  <2>1. CASE i = 1
    BY <1>2, <2>1, Ordered
  <2>2. CASE i # 1
    <3>1. 1 < i
      BY <2>2
    <3>2. Before(f, Date(list, i))
      BY <1>2, <3>1, Increasing
    <3> QED
      BY <1>2, <3>2, Ordered
  <2> QED
    BY <2>1, <2>2
<1> QED
  BY <1>1, <1>2, <1>3 DEF Date

\* What lies between two dates that agree but for the k-th unit and smaller ones agrees with
\* them.
LEMMA Between ==
  ASSUME NEW f, NEW g, NEW t, IsDate(f), IsDate(g), IsDate(t), NEW k \in 1 .. 5,
         SameAbove(k, f, t), ~Before(g, f), ~Before(t, g)
  PROVE  (\A j \in 1 .. k - 1 : g[j] = f[j]) /\ f[k] <= g[k] /\ g[k] <= t[k]
<1>1. /\ t[1] \in Nat /\ t[2] \in Nat /\ t[3] \in Nat /\ t[4] \in Nat /\ t[5] \in Nat
      /\ t[6] \in Nat
      /\ g[1] \in Nat /\ g[2] \in Nat /\ g[3] \in Nat /\ g[4] \in Nat /\ g[5] \in Nat
      /\ g[6] \in Nat
      /\ f[1] \in Nat /\ f[2] \in Nat /\ f[3] \in Nat /\ f[4] \in Nat /\ f[5] \in Nat
      /\ f[6] \in Nat
  BY Components
<1>2. ~Earlier(g, f) /\ ~Earlier(t, g)
  BY BeforeIsEarlier
<1>3. /\ k > 1 => f[1] = t[1]
      /\ k > 2 => f[2] = t[2]
      /\ k > 3 => f[3] = t[3]
      /\ k > 4 => f[4] = t[4]
  BY DEF SameAbove
<1>4. k = 1 \/ k = 2 \/ k = 3 \/ k = 4 \/ k = 5
  OBVIOUS
<1>5. /\ k > 1 => g[1] = f[1]
      /\ k > 2 => g[2] = f[2]
      /\ k > 3 => g[3] = f[3]
      /\ k > 4 => g[4] = f[4]
  BY <1>1, <1>2, <1>3, <1>4 DEF Earlier
<1>6. f[k] <= g[k] /\ g[k] <= t[k]
  <2>1. CASE k = 1
    BY <1>1, <1>2, <2>1 DEF Earlier
  <2>2. CASE k = 2
    BY <1>1, <1>2, <1>3, <1>5, <2>2 DEF Earlier
  <2>3. CASE k = 3
    BY <1>1, <1>2, <1>3, <1>5, <2>3 DEF Earlier
  <2>4. CASE k = 4
    BY <1>1, <1>2, <1>3, <1>5, <2>4 DEF Earlier
  <2>5. CASE k = 5
    BY <1>1, <1>2, <1>3, <1>5, <2>5 DEF Earlier
  <2> QED
    BY <1>4, <2>1, <2>2, <2>3, <2>4, <2>5
<1>7. ASSUME NEW j \in 1 .. k - 1 PROVE g[j] = f[j]
  <2>1. (j = 1 /\ k > 1) \/ (j = 2 /\ k > 2) \/ (j = 3 /\ k > 3) \/ (j = 4 /\ k > 4)
    BY <1>4
  <2> QED
    BY <1>5, <2>1
<1> QED
  BY <1>6, <1>7

\* Frames that begin at the same date as far as they go are the same.
LEMMA SameBegin ==
  ASSUME NEW g, NEW h, IsDate(g), IsDate(h), NEW k \in 1 .. 5, Begins(g, k), Begins(h, k),
         \A i \in 1 .. k : g[i] = h[i]
  PROVE  g = h
<1>1. Cut(g, k) = Cut(h, k)
  BY SameFrame
<1>2. parseTime(Cut(g, k)) = g /\ parseTime(Cut(h, k)) = h
  BY FrameOfBegin
<1> QED
  BY <1>1, <1>2

\* A list that counts up to the end has every frame of the range.
LEMMA AllAreListed ==
  ASSUME NEW list, NEW k \in 1 .. 5, NEW f, NEW t, NEW b, InList(list, k, f, t, b),
         IsDate(f), IsDate(t), SameAbove(k, f, t), ~Before(t, f), b[k] >= t[k],
         NEW g, IsDate(g), Begins(g, k), ~Before(g, f), ~Before(t, g)
  PROVE  \E i \in 1 .. Len(list) : list[i] = Cut(g, k)
<1> DEFINE m == Len(list)
           i == g[k] - f[k] + 1
<1>1. /\ m \in Nat /\ m >= 1 /\ m \in 1 .. m /\ Date(list, m) = b
      /\ \A p \in 1 .. m : /\ IsDate(Date(list, p)) /\ Begins(Date(list, p), k)
                           /\ list[p] = Cut(Date(list, p), k)
                           /\ Date(list, p)[k] = f[k] + (p - 1)
                           /\ \A j \in 1 .. k - 1 : Date(list, p)[j] = f[j]
  BY DEF InList, Listed, CountsUp
<1> HIDE DEF m
<1>2. (\A j \in 1 .. k - 1 : g[j] = f[j]) /\ f[k] <= g[k] /\ g[k] <= t[k]
  BY Between
<1>3. f[k] \in Nat /\ g[k] \in Nat /\ t[k] \in Nat
  BY Components
<1>4. b[k] = f[k] + (m - 1)
  BY <1>1
<1>5. i \in 1 .. m /\ f[k] + (i - 1) = g[k]
  <2> DEFINE x == f[k]
             y == g[k]
             z == t[k]
  <2>1. x \in Nat /\ y \in Nat /\ z \in Nat /\ x <= y /\ y <= z /\ x + (m - 1) >= z
        /\ i = y - x + 1
    BY <1>2, <1>3, <1>4
  <2> HIDE DEF x, y, z, i
  <2>2. i \in 1 .. m /\ x + (i - 1) = y
    BY <1>1, <2>1
  <2> QED
    BY <2>2 DEF x, y
<1> HIDE DEF i
<1>6. \A j \in 1 .. k : Date(list, i)[j] = g[j]
  <2>1. \A j \in 1 .. k : j \in 1 .. k - 1 \/ j = k
    OBVIOUS
  <2> QED
    BY <1>1, <1>2, <1>5, <2>1
<1>7. Date(list, i) = g
  BY <1>1, <1>5, <1>6, SameBegin
<1> QED
  BY <1>1, <1>5, <1>7 DEF m

-----------------------------------------------------------------------------
(***************************************************************************)
(* The answers.                                                            *)
(***************************************************************************)

\* The logs of the range.
Ranged == {log \in Logged : InRange(log)}

\* What the invariant says of a proper range.
LEMMA AnswerCounts ==
  ASSUME IInv, Proper
  PROVE  /\ n \in 2 .. 5 /\ IsDate(from) /\ IsDate(to) /\ Begins(from, n)
         /\ InList(timeFrames, n, from, to, base) /\ ~Before(to, from)
         /\ Get4Agg = Cardinality(Found(timeFrames, n))
         /\ \A i \in 1 .. Len(timeFrames) : Len(timeFrames[i]) = n
         /\ Found(timeFrames, n) \in SUBSET Ranged
<1> DEFINE k == n
           f == from
           t == to
<1>1. /\ k \in 1 .. 5 /\ IsDate(f) /\ IsDate(t) /\ Begins(f, k)
  BY RangeIs DEF IInv
<1>2. k \in 2 .. 5 /\ ~Before(t, f)
  BY <1>1 DEF Proper
<1>3. InList(timeFrames, k, f, t, base)
  BY DEF IInv
<1>4. Get4Agg = SumFunction([i \in DOMAIN timeFrames |-> Count(timeFrames[i])])
  BY DEF Get4Agg
<1>5. ASSUME NEW log \in Found(timeFrames, k) PROVE log \in Logged /\ InRange(log)
  <2>1. log \in Logged
    BY <1>5 DEF Found
  <2> HIDE DEF k, f, t
  <2>2. ~Before(parseTime(Cut(log.created, k)), f) /\ ~Before(t, parseTime(Cut(log.created, k)))
    BY <1>1, <1>2, <1>3, <1>5, FoundAreInRange
  <2>3. InRange(log)
    BY <2>2 DEF InRange, k, f, t
  <2> QED
    BY <2>1, <2>3
<1>6. Found(timeFrames, k) \in SUBSET Ranged
  <2> HIDE DEF k, f, t
  <2> QED
    BY <1>5 DEF Ranged
<1> HIDE DEF k, f, t
<1>7. /\ Get4Agg = Cardinality(Found(timeFrames, k))
      /\ \A i \in 1 .. Len(timeFrames) : Len(timeFrames[i]) = k
  BY <1>1, <1>2, <1>3, <1>4, CountOfList
<1> QED
  BY <1>1, <1>2, <1>3, <1>6, <1>7 DEF k, f, t

\* No answer counts more than the range has: what is listed is in order, without a gap
\* and inside of the range, and the frames on the list have different logs.
THEOREM NeverMoreCorrect == Spec => []NeverMoreThanTheRange
<1>1. IInv => NeverMoreThanTheRange
  <2> SUFFICES ASSUME IInv, Proper PROVE NeverMoreThanTheRange
    BY DEF NeverMoreThanTheRange
  <2> DEFINE found == Found(timeFrames, n)
             m == Len(timeFrames)
  <2>1. /\ n \in 2 .. 5 /\ IsDate(from) /\ IsDate(to) /\ Begins(from, n)
        /\ InList(timeFrames, n, from, to, base) /\ ~Before(to, from)
        /\ Get4Agg = Cardinality(found) /\ found \in SUBSET Ranged
    BY AnswerCounts
  <2>2. Get4Agg <= Cardinality(Ranged)
    <3>1. IsFiniteSet(Ranged)
      <4>1. Ranged \in SUBSET Logged
        BY DEF Ranged
      <4> QED
        BY <4>1, LoggedAssumption, FS_Subset
    <3> DEFINE a == Cardinality(Ranged)
               b == Cardinality(found)
               c == Cardinality(Ranged \ found)
    <3>2. a = b + c /\ b \in Nat /\ c \in Nat
      BY <2>1, <3>1, CardinalityOfParts
    <3> HIDE DEF a, b, c
    <3>3. b <= a
      BY <3>2
    <3> QED
      BY <2>1, <3>3 DEF a, b
  <2>3. ASSUME NEW i \in 1 .. m - 1
        PROVE  /\ Before(Date(timeFrames, i), Date(timeFrames, i + 1))
               /\ ~Before(to, Date(timeFrames, i + 1))
               /\ \A time \in Bound \cup {log.created : log \in Logged} :
                    LET frame == parseTime(Cut(time, n))
                    IN  ~(/\ Before(Date(timeFrames, i), frame)
                          /\ Before(frame, Date(timeFrames, i + 1)))
    <3>1. m \in Nat /\ i + 1 \in 1 .. m
      BY <2>1 DEF InList, Listed
    <3>2. FollowedBy(Date(timeFrames, i), Date(timeFrames, i + 1), n)
      BY <2>1 DEF InList, Consecutive
    <3>3. ~Before(to, Date(timeFrames, i + 1))
      BY <2>1, <3>1 DEF InList, Consecutive
    <3>4. ASSUME NEW time \in Bound \cup {log.created : log \in Logged}
          PROVE  IsDate(parseTime(Cut(time, n))) /\ Begins(parseTime(Cut(time, n)), n)
      <4> DEFINE k == n
      <4>1. IsDate(time) /\ k \in 1 .. 5
        BY <2>1, DatesAssumption DEF IsLog
      <4> HIDE DEF k
      <4>2. IsDate(parseTime(Cut(time, k))) /\ Begins(parseTime(Cut(time, k)), k)
        BY <4>1, Frames
      <4> QED
        BY <4>2 DEF k
    <3> QED
      BY <3>2, <3>3, <3>4 DEF FollowedBy
  <2> QED
    BY <2>2, <2>3 DEF NeverMoreThanTheRange, Date, Ranged
<1> QED
  BY <1>1, Invariance, PTL

\* Within the frame the bounds are part of, the list has the whole range.
LEMMA WholeRangeFound ==
  ASSUME IInv, Proper, pc = "done", Cut(from, n - 1) = Cut(to, n - 1)
  PROVE  Found(timeFrames, n) = Ranged
<1> DEFINE k == n
           f == from
           t == to
<1>1. /\ k \in 2 .. 5 /\ IsDate(f) /\ IsDate(t) /\ Begins(f, k) /\ ~Before(t, f)
      /\ InList(timeFrames, k, f, t, base) /\ Found(timeFrames, k) \in SUBSET Ranged
  BY AnswerCounts
<1>2. base[k] >= t[k]
  BY DEF IInv
<1>3. Cut(f, k - 1) = Cut(t, k - 1)
  OBVIOUS
<1>4. ASSUME NEW log \in Ranged
      PROVE  /\ log \in Logged
             /\ ~Before(parseTime(Cut(log.created, k)), f)
             /\ ~Before(t, parseTime(Cut(log.created, k)))
  BY <1>4 DEF Ranged, InRange
<1> HIDE DEF k, f, t
<1>5. SameAbove(k, f, t)
  <2>1. k - 1 \in 1 .. 5
    BY <1>1
  <2>2. \A i \in 1 .. k - 1 : f[i] = t[i]
    BY <1>1, <1>3, <2>1, SameFrame
  <2> QED
    BY <2>2 DEF SameAbove
<1>6. ASSUME NEW log \in Ranged PROVE log \in Found(timeFrames, k)
  <2> DEFINE g == parseTime(Cut(log.created, k))
  <2>1. IsDate(log.created) /\ k \in 1 .. 5
    BY <1>1, <1>4, DatesAssumption DEF IsLog
  <2>2. IsDate(g) /\ Begins(g, k) /\ \A i \in 1 .. k : g[i] = log.created[i]
    BY <2>1, Frames
  <2>3. ~Before(g, f) /\ ~Before(t, g)
    BY <1>4
  <2> HIDE DEF g
  <2>4. Cut(g, k) = Cut(log.created, k)
    BY <2>1, <2>2, SameFrame
  <2>5. \E i \in 1 .. Len(timeFrames) : timeFrames[i] = Cut(g, k)
    BY <1>1, <1>2, <1>5, <2>1, <2>2, <2>3, AllAreListed
  <2> QED
    BY <1>4, <2>4, <2>5 DEF Found
<1>7. Found(timeFrames, k) = Ranged
  BY <1>1, <1>6
<1> QED
  BY <1>7 DEF k

\* Within the frame its bounds are part of, an answer counts exactly the logs of the
\* range: nothing is left out at the end of a month.
THEOREM AgreesCorrect == Spec => []AgreesWithinOneFrame
<1>1. IInv => AgreesWithinOneFrame
  <2> SUFFICES ASSUME IInv, pc = "done", Proper, InOneFrame
               PROVE  Get4Agg = Cardinality(Ranged)
    BY DEF AgreesWithinOneFrame, Ranged
  <2> QED
    BY AnswerCounts, WholeRangeFound DEF InOneFrame
<1> QED
  BY <1>1, Invariance, PTL

-----------------------------------------------------------------------------
(***************************************************************************)
(* The calendar and the clock: later dates are later instants.             *)
(***************************************************************************)

\* The months.
LEMMA Months ==
  ASSUME NEW y, NEW m \in 1 .. 12
  PROVE  LET leap == IF Leap(y) THEN 1 ELSE 0
         IN  /\ DaysBefore(y, m) \in Nat /\ DaysIn(y, m) \in 28 .. 31
             /\ DaysBefore(y, m) + DaysIn(y, m) <= 365 + leap
             /\ m < 12 => DaysBefore(y, m) + DaysIn(y, m) = DaysBefore(y, m + 1)
<1>1. m = 1 \/ m = 2 \/ m = 3 \/ m = 4 \/ m = 5 \/ m = 6 \/ m = 7 \/ m = 8 \/ m = 9 \/ m = 10
      \/ m = 11 \/ m = 12
  OBVIOUS
<1> QED
  BY <1>1, SMTT(60) DEF DaysBefore, DaysIn

\* The months of a year follow each other.
LEMMA MonthsInOrder ==
  ASSUME NEW y, NEW m \in 1 .. 12, NEW l \in 1 .. 12, m < l
  PROVE  DaysBefore(y, m) + DaysIn(y, m) <= DaysBefore(y, l)
<1> DEFINE before == [p \in 1 .. 12 |-> DaysBefore(y, p)]
           in == [p \in 1 .. 12 |-> DaysIn(y, p)]
<1>1. /\ \A p \in 1 .. 12 : before[p] \in Nat /\ in[p] \in Nat
      /\ \A p \in 1 .. 11 : before[p] + in[p] = before[p + 1]
  <2>1. \A p \in 1 .. 11 : p \in 1 .. 12 /\ p + 1 \in 1 .. 12 /\ p < 12
    OBVIOUS
  <2> QED
    BY <2>1, Months
<1>2. before[m] + in[m] = DaysBefore(y, m) + DaysIn(y, m) /\ before[l] = DaysBefore(y, l)
  OBVIOUS
<1> HIDE DEF before, in
<1>3. /\ before[2] <= before[3] /\ before[3] <= before[4] /\ before[4] <= before[5]
      /\ before[5] <= before[6] /\ before[6] <= before[7] /\ before[7] <= before[8]
      /\ before[8] <= before[9] /\ before[9] <= before[10] /\ before[10] <= before[11]
      /\ before[11] <= before[12]
  <2>1. \A p \in 1 .. 11 : before[p] <= before[p + 1]
    BY <1>1
  <2> QED
    BY <2>1
<1>4. before[m] + in[m] = before[m + 1]
  BY <1>1
<1>5. \A p \in 2 .. 12 : before[p] \in Nat
  BY <1>1
<1>6. before[m + 1] <= before[l]
  <2> DEFINE q == m + 1
  <2>1. q \in 2 .. 12 /\ l \in 2 .. 12 /\ q <= l
    OBVIOUS
  <2> HIDE DEF q
  <2>2. \A p \in 2 .. 12 : p = 2 \/ p = 3 \/ p = 4 \/ p = 5 \/ p = 6 \/ p = 7 \/ p = 8 \/ p = 9
                           \/ p = 10 \/ p = 11 \/ p = 12
    OBVIOUS
  <2>3. before[q] <= before[l]
    BY <1>3, <1>5, <2>1, <2>2, SMTT(60)
  <2> QED
    BY <2>3 DEF q
<1> QED
  BY <1>2, <1>4, <1>6

\* So do the years.
LEMMA YearsInOrder ==
  ASSUME NEW y \in Nat, NEW z \in Nat, y < z
  PROVE  /\ LeapsBefore(y) \in Int /\ LeapsBefore(z) \in Int
         /\ LeapsBefore(y) + (IF Leap(y) THEN 1 ELSE 0) <= LeapsBefore(z)
  BY SMTT(60) DEF LeapsBefore, Leap

\* The days to a date, and the seconds of its day.
DaysTo(t) == 365 * (t[1] - 1970) + (LeapsBefore(t[1]) - LeapsBefore(1970))
               + DaysBefore(t[1], t[2]) + (t[3] - 1)

SecondsOf(t) == 3600 * t[4] + 60 * t[5] + t[6]

\* What they consist of.
LEMMA UnixParts ==
  ASSUME NEW t, IsDate(t)
  PROVE  /\ DaysTo(t) \in Int /\ SecondsOf(t) \in Nat /\ SecondsOf(t) < 86400
         /\ Unix(t) = 86400 * DaysTo(t) + SecondsOf(t) /\ Unix(t) \in Int
<1>1. /\ t[1] \in Nat /\ t[2] \in 1 .. 12 /\ t[3] \in Nat
      /\ t[4] \in 0 .. 23 /\ t[5] \in 0 .. 59 /\ t[6] \in 0 .. 59
  BY Components DEF IsDate
<1>2. LeapsBefore(t[1]) \in Int /\ LeapsBefore(1970) \in Int /\ DaysBefore(t[1], t[2]) \in Int
  BY <1>1, Months DEF LeapsBefore
<1>3. DaysTo(t) \in Int
  BY <1>1, <1>2 DEF DaysTo
<1>4. SecondsOf(t) \in Nat /\ SecondsOf(t) < 86400
  <2> DEFINE h == t[4]
             i == t[5]
             s == t[6]
  <2>1. h \in 0 .. 23 /\ i \in 0 .. 59 /\ s \in 0 .. 59
    BY <1>1
  <2> HIDE DEF h, i, s
  <2>2. 3600 * h + 60 * i + s \in Nat /\ 3600 * h + 60 * i + s < 86400
    BY <2>1
  <2> QED
    BY <2>2 DEF SecondsOf, h, i, s
<1>5. Unix(t) = 86400 * DaysTo(t) + SecondsOf(t)
  <2> DEFINE d == 86400 * DaysTo(t)
             h == 3600 * t[4]
             i == 60 * t[5]
             s == t[6]
  <2>1. d \in Int /\ h \in Int /\ i \in Int /\ s \in Int
    BY <1>1, <1>3
  <2>2. Unix(t) = d + h + i + s /\ SecondsOf(t) = h + i + s
    BY DEF Unix, DaysTo, SecondsOf
  <2> HIDE DEF d, h, i, s
  <2>3. Unix(t) = d + SecondsOf(t)
    BY <2>1, <2>2
  <2> QED
    BY <2>3 DEF d
<1>6. Unix(t) \in Int
  <2> DEFINE d == DaysTo(t)
             s == SecondsOf(t)
  <2>1. d \in Int /\ s \in Nat
    BY <1>3, <1>4
  <2> HIDE DEF d, s
  <2>2. 86400 * d + s \in Int
    BY <2>1
  <2> QED
    BY <1>5, <2>2 DEF d, s
<1> QED
  BY <1>3, <1>4, <1>5, <1>6

\* Of two days of the calendar, the later one is later on the clock.
LEMMA DaysInOrder ==
  ASSUME NEW t, NEW u, IsDate(t), IsDate(u)
  PROVE  /\ t[1] < u[1] => DaysTo(t) < DaysTo(u)
         /\ t[1] = u[1] /\ t[2] < u[2] => DaysTo(t) < DaysTo(u)
         /\ t[1] = u[1] /\ t[2] = u[2] /\ t[3] < u[3] => DaysTo(t) < DaysTo(u)
         /\ t[1] = u[1] /\ t[2] = u[2] /\ t[3] = u[3] => DaysTo(t) = DaysTo(u)
<1> DEFINE lt == LeapsBefore(t[1])
           lu == LeapsBefore(u[1])
           l0 == LeapsBefore(1970)
           dt == DaysBefore(t[1], t[2])
           du == DaysBefore(u[1], u[2])
           it == DaysIn(t[1], t[2])
           one == IF Leap(t[1]) THEN 1 ELSE 0
<1>1. /\ t[1] \in Nat /\ t[2] \in 1 .. 12 /\ t[3] \in Nat /\ t[3] >= 1 /\ t[3] <= it
      /\ u[1] \in Nat /\ u[2] \in 1 .. 12 /\ u[3] \in Nat /\ u[3] >= 1
  BY Components DEF IsDate
<1>2. /\ lt \in Int /\ lu \in Int /\ l0 \in Int /\ dt \in Nat /\ du \in Nat /\ it \in Nat
      /\ one \in {0, 1} /\ dt + it <= 365 + one
  BY <1>1, Months DEF LeapsBefore
<1>3. /\ DaysTo(t) = 365 * (t[1] - 1970) + (lt - l0) + dt + (t[3] - 1)
      /\ DaysTo(u) = 365 * (u[1] - 1970) + (lu - l0) + du + (u[3] - 1)
  BY DEF DaysTo
<1>4. t[1] < u[1] => lt + one <= lu
  BY <1>1, YearsInOrder
<1>5. t[1] = u[1] => lt = lu
  OBVIOUS
<1>6. t[1] = u[1] /\ t[2] < u[2] => dt + it <= du
  BY <1>1, MonthsInOrder
<1>7. t[1] = u[1] /\ t[2] = u[2] => dt = du
  OBVIOUS
<1> HIDE DEF lt, lu, l0, dt, du, it, one
<1>8. t[1] < u[1] => DaysTo(t) < DaysTo(u)
  BY <1>1, <1>2, <1>3, <1>4
<1>9. t[1] = u[1] => (DaysTo(t) < DaysTo(u) <=> dt + t[3] < du + u[3])
  BY <1>1, <1>2, <1>3, <1>5
<1>10. t[1] = u[1] /\ t[2] = u[2] /\ t[3] = u[3] => DaysTo(t) = DaysTo(u)
  BY <1>3, <1>5, <1>7
<1> QED
  BY <1>1, <1>2, <1>6, <1>7, <1>8, <1>9, <1>10

\* The order of dates is that of instants.
LEMMA UnixInOrder ==
  ASSUME NEW t, NEW u, IsDate(t), IsDate(u)
  PROVE  /\ Before(t, u) <=> Unix(t) < Unix(u)
         /\ Unix(t) \in Int /\ Unix(u) \in Int
<1>1. ASSUME NEW v, NEW w, IsDate(v), IsDate(w), Before(v, w) PROVE Unix(v) < Unix(w)
  <2>1. Earlier(v, w)
    BY <1>1, BeforeIsEarlier
  <2>2. /\ DaysTo(v) \in Int /\ SecondsOf(v) \in Nat /\ SecondsOf(v) < 86400
        /\ Unix(v) = 86400 * DaysTo(v) + SecondsOf(v)
        /\ DaysTo(w) \in Int /\ SecondsOf(w) \in Nat /\ SecondsOf(w) < 86400
        /\ Unix(w) = 86400 * DaysTo(w) + SecondsOf(w)
    BY <1>1, UnixParts
  <2>3. \/ DaysTo(v) < DaysTo(w)
        \/ DaysTo(v) = DaysTo(w) /\ SecondsOf(v) < SecondsOf(w)
    <3>1. /\ v[4] \in 0 .. 23 /\ v[5] \in 0 .. 59 /\ v[6] \in 0 .. 59
          /\ w[4] \in 0 .. 23 /\ w[5] \in 0 .. 59 /\ w[6] \in 0 .. 59
      BY <1>1 DEF IsDate
    <3>2. CASE v[1] = w[1] /\ v[2] = w[2] /\ v[3] = w[3]
      <4>1. DaysTo(v) = DaysTo(w)
        BY <1>1, <3>2, DaysInOrder
      <4>2. \/ v[4] < w[4]
            \/ v[4] = w[4] /\ v[5] < w[5]
            \/ v[4] = w[4] /\ v[5] = w[5] /\ v[6] < w[6]
        <5>1. v[1] \in Nat /\ v[2] \in Nat /\ v[3] \in Nat
          BY <1>1, Components
        <5> QED
          BY <2>1, <3>2, <5>1 DEF Earlier
      <4>3. SecondsOf(v) < SecondsOf(w)
        <5> DEFINE h == v[4]
                   i == v[5]
                   s == v[6]
                   hh == w[4]
                   ii == w[5]
                   ss == w[6]
        <5>1. /\ h \in 0 .. 23 /\ i \in 0 .. 59 /\ s \in 0 .. 59
              /\ hh \in 0 .. 23 /\ ii \in 0 .. 59 /\ ss \in 0 .. 59
              /\ h < hh \/ (h = hh /\ i < ii) \/ (h = hh /\ i = ii /\ s < ss)
          BY <3>1, <4>2
        <5> HIDE DEF h, i, s, hh, ii, ss
        <5>2. 3600 * h + 60 * i + s < 3600 * hh + 60 * ii + ss
          BY <5>1
        <5> QED
          BY <5>2 DEF SecondsOf, h, i, s, hh, ii, ss
      <4> QED
        BY <4>1, <4>3
    <3>3. CASE ~(v[1] = w[1] /\ v[2] = w[2] /\ v[3] = w[3])
      <4>1. \/ v[1] < w[1]
            \/ v[1] = w[1] /\ v[2] < w[2]
            \/ v[1] = w[1] /\ v[2] = w[2] /\ v[3] < w[3]
        BY <2>1, <3>3 DEF Earlier
      <4> QED
        BY <1>1, <4>1, DaysInOrder
    <3> QED
      BY <3>2, <3>3
  <2> DEFINE x == DaysTo(v)
             y == DaysTo(w)
             p == SecondsOf(v)
             q == SecondsOf(w)
  <2>4. /\ x \in Int /\ y \in Int /\ p \in Nat /\ p < 86400 /\ q \in Nat /\ q < 86400
        /\ x < y \/ (x = y /\ p < q)
    BY <2>2, <2>3
  <2> HIDE DEF x, y, p, q
  <2>5. 86400 * x + p < 86400 * y + q
    BY <2>4
  <2> QED
    BY <2>2, <2>5 DEF x, y, p, q
<1>2. Unix(t) \in Int /\ Unix(u) \in Int
  BY UnixParts
<1>3. ASSUME ~Before(t, u) PROVE ~(Unix(t) < Unix(u))
  <2>1. t = u \/ Before(u, t)
    BY <1>3, Ordered
  <2>2. t = u \/ Unix(u) < Unix(t)
    BY <1>1, <2>1
  <2> QED
    BY <1>2, <2>2
<1> QED
  BY <1>1, <1>2, <1>3

-----------------------------------------------------------------------------
(***************************************************************************)
(* The scans of the history.                                               *)
(***************************************************************************)

\* A frame is not after the end when its logs were created before the end, or when it is
\* the one the end lies in.
LEMMA RangeByTime ==
  ASSUME NEW c, NEW t, IsDate(c), IsDate(t), NEW k \in 1 .. 5
  PROVE  LET frame == parseTime(Cut(c, k))
         IN  /\ ~Before(t, frame) <=> Before(c, t) \/ Cut(c, k) = Cut(t, k)
             /\ Before(t, frame) => Before(t, c)
<1> DEFINE g == parseTime(Cut(c, k))
           h == parseTime(Cut(t, k))
<1>1. /\ IsDate(g) /\ Begins(g, k) /\ ~Before(c, g)
      /\ IsDate(h) /\ Begins(h, k) /\ ~Before(t, h)
      /\ \A i \in 1 .. k : g[i] = c[i] /\ h[i] = t[i]
  <2>1. /\ IsDate(g) /\ Begins(g, k) /\ \A i \in 1 .. k : g[i] = c[i]
        /\ IsDate(h) /\ Begins(h, k) /\ \A i \in 1 .. k : h[i] = t[i]
    BY Frames
  <2>2. ~Before(c, g) /\ ~Before(t, h)
    BY <2>1, FrameBefore
  <2> QED
    BY <2>1, <2>2
<1>2. /\ Before(h, g) <=> Before(t, g)
      /\ Before(g, h) <=> Before(c, h)
  BY <1>1, FrameBefore
<1>3. Cut(c, k) = Cut(t, k) => g = h
  OBVIOUS
<1>4. g = h => Cut(c, k) = Cut(t, k)
  <2> SUFFICES ASSUME g = h PROVE Cut(c, k) = Cut(t, k)
    OBVIOUS
  <2>1. \A i \in 1 .. k : c[i] = t[i]
    BY <1>1
  <2> QED
    BY <2>1, SameFrame
<1> HIDE DEF g, h
<1>5. Before(t, g) => Before(t, c)
  BY <1>1, InOrder
<1>6. Before(c, t) => ~Before(t, g)
  BY <1>5, Ordered
<1>7. ASSUME ~Before(t, g), g # h PROVE Before(c, t)
  <2>1. Before(g, h)
    BY <1>1, <1>2, <1>7, Ordered
  <2>2. Before(c, h)
    BY <1>2, <2>1
  <2> QED
    BY <1>1, <2>2, InOrder
<1>8. ~Before(t, g) <=> Before(c, t) \/ Cut(c, k) = Cut(t, k)
  BY <1>1, <1>3, <1>4, <1>6, <1>7
<1> QED
  BY <1>5, <1>8 DEF g

\* What a log of the aggregates is, by the clock of its client.
LEMMA CountedByTime ==
  ASSUME IInv, Proper, pc = "done", InOneFrame, NEW log \in Logged
  PROVE  /\ log \in Counted <=>
              /\ Unix(from) <= Unix(log.created)
              /\ Unix(log.created) < Unix(to) \/ Cut(log.created, n) = Cut(to, n)
         /\ log \notin Counted => Unix(log.created) < Unix(from) \/ Before(to, log.created)
         /\ Unix(from) \in Int /\ Unix(to) \in Int /\ Unix(log.created) \in Int
<1> DEFINE k == n
           f == from
           t == to
           c == log.created
           g == parseTime(Cut(c, k))
<1>1. k \in 1 .. 5 /\ IsDate(f) /\ IsDate(t) /\ Begins(f, k) /\ IsDate(c)
  BY AnswerCounts, DatesAssumption DEF IsLog
<1>2. log \in Counted <=> log \in Found(timeFrames, k)
  <2>1. DOMAIN timeFrames = 1 .. Len(timeFrames)
    BY DEF IInv, InList, Listed
  <2> QED
    BY <2>1 DEF Counted, Found
<1>3. log \in Found(timeFrames, k) <=> ~Before(g, f) /\ ~Before(t, g)
  BY WholeRangeFound DEF Ranged, InRange, InOneFrame
<1> HIDE DEF k, f, t, c
<1>4. Before(g, f) <=> Before(c, f)
  BY <1>1, FrameBefore
<1>5. /\ ~Before(t, g) <=> Before(c, t) \/ Cut(c, k) = Cut(t, k)
      /\ Before(t, g) => Before(t, c)
  BY <1>1, RangeByTime
<1>6. /\ Before(c, f) <=> Unix(c) < Unix(f)
      /\ Before(c, t) <=> Unix(c) < Unix(t)
      /\ Unix(c) \in Int /\ Unix(f) \in Int /\ Unix(t) \in Int
  BY <1>1, UnixInOrder
<1>7. Unix(f) <= Unix(c) <=> ~Before(c, f)
  BY <1>6
<1> QED
  BY <1>2, <1>3, <1>4, <1>5, <1>6, <1>7 DEF k, f, t, c

\* The history scans and the aggregates differ in no log but those that their client's
\* clock shows near a bound, as near as its offset from UTC.
THEOREM ScansCorrect == Spec => []ScansDifferByTheOffset
<1>1. IInv => ScansDifferByTheOffset
  <2> DEFINE near(log, bound) ==
               LET past == Unix(log.created) - Unix(bound)
               IN  past \in 0 .. log.offset \/ past \in log.offset .. 0
  <2> SUFFICES ASSUME IInv, pc = "done", Proper, InOneFrame, NEW log \in Logged
               PROVE  /\ (log \in Counted) # (log \in Get3) =>
                           \/ near(log, from) \/ near(log, to)
                           \/ Cut(log.created, n) = Cut(to, n)
                      /\ (log \in Counted) # (log \in Get4) =>
                           near(log, from) \/ Before(to, log.created)
    BY DEF ScansDifferByTheOffset
  <2> DEFINE f == Unix(from)
             t == Unix(to)
             c == Unix(log.created)
             o == log.offset
             counted == log \in Counted
             scanned == log \in Get3
             after == log \in Get4
             last == Cut(log.created, n) = Cut(to, n)
             past == Before(to, log.created)
  <2>1. /\ counted <=> f <= c /\ (c < t \/ last)
        /\ ~counted => c < f \/ past
        /\ f \in Int /\ t \in Int /\ c \in Int
    BY CountedByTime
  <2>2. /\ scanned <=> f < c - o /\ c - o < t
        /\ after <=> f < c - o
    BY DEF Get3, Get4, CreatedAt
  <2>3. o \in Int
    BY DatesAssumption DEF IsLog
  <2>4. /\ near(log, from) <=> c - f \in 0 .. o \/ c - f \in o .. 0
        /\ near(log, to) <=> c - t \in 0 .. o \/ c - t \in o .. 0
    OBVIOUS
  <2> HIDE DEF near, f, t, c, o, counted, scanned, after, last, past
  <2>5. /\ near(log, from) <=> (0 <= c - f /\ c - f <= o) \/ (o <= c - f /\ c - f <= 0)
        /\ near(log, to) <=> (0 <= c - t /\ c - t <= o) \/ (o <= c - t /\ c - t <= 0)
    BY <2>1, <2>3, <2>4
  <2>6. (counted # scanned) => near(log, from) \/ near(log, to) \/ last
    <3>1. ASSUME counted, ~scanned, ~last PROVE near(log, from) \/ near(log, to)
      BY <2>1, <2>2, <2>3, <2>5, <3>1
    <3>2. ASSUME ~counted, scanned, ~last PROVE near(log, from) \/ near(log, to)
      BY <2>1, <2>2, <2>3, <2>5, <3>2
    <3> QED
      BY <3>1, <3>2 DEF counted, scanned
  <2>7. (counted # after) => near(log, from) \/ past
    <3>1. ASSUME counted, ~after PROVE near(log, from)
      BY <2>1, <2>2, <2>3, <2>5, <3>1
    <3>2. ASSUME ~counted, after, ~past PROVE near(log, from)
      BY <2>1, <2>2, <2>3, <2>5, <3>2
    <3> QED
      BY <3>1, <3>2 DEF counted, after
  <2> QED
    BY <2>6, <2>7 DEF counted, scanned, after, last, past
<1> QED
  BY <1>1, Invariance, PTL

-----------------------------------------------------------------------------
(***************************************************************************)
(* The scan by the timestamps of the transactions.                         *)
(***************************************************************************)

\* No frame lies between the first and the third of three in a row but the second one.
LEMMA NoneBetween ==
  ASSUME NEW list, NEW k \in 1 .. 5, NEW f, NEW t, NEW b, InList(list, k, f, t, b),
         Len(list) = 3, NEW g, IsDate(g), Begins(g, k),
         g # Date(list, 1), g # Date(list, 2), g # Date(list, 3)
  PROVE  ~(Before(Date(list, 1), g) /\ Before(g, Date(list, 3)))
<1>1. /\ IsDate(Date(list, 1)) /\ IsDate(Date(list, 2)) /\ IsDate(Date(list, 3))
      /\ FollowedBy(Date(list, 1), Date(list, 2), k) /\ FollowedBy(Date(list, 2), Date(list, 3), k)
  <2>1. /\ \A i \in 1 .. 3 : IsDate(Date(list, i))
        /\ \A i \in 1 .. 2 : FollowedBy(Date(list, i), Date(list, i + 1), k)
    BY DEF InList, Listed, Consecutive
  <2> QED
    BY <2>1
<1>2. /\ ~(Before(Date(list, 1), g) /\ Before(g, Date(list, 2)))
      /\ ~(Before(Date(list, 2), g) /\ Before(g, Date(list, 3)))
  BY <1>1 DEF FollowedBy
<1>3. Before(g, Date(list, 2)) \/ Before(Date(list, 2), g)
  BY <1>1, Ordered
<1> QED
  BY <1>2, <1>3

\* Where a log lies in three frames in a row, by two of its dates of which the first is
\* not after the second.
LEMMA LateLogs ==
  ASSUME NEW list, NEW k \in 1 .. 5, NEW f, NEW t, NEW b, InList(list, k, f, t, b),
         Len(list) = 3, NEW c, NEW m, IsDate(c), IsDate(m), ~Before(m, c)
  PROVE  LET created == \E i \in 1 .. 3 : Cut(c, k) = list[i]
             made == \E i \in 1 .. 3 : Cut(m, k) = list[i]
         IN  /\ created /\ ~made => Before(Date(list, 3), parseTime(Cut(m, k)))
             /\ made /\ ~created => Before(c, f)
<1> DEFINE g == parseTime(Cut(c, k))
           h == parseTime(Cut(m, k))
           D(i) == Date(list, i)
<1>1. /\ IsDate(g) /\ Begins(g, k) /\ IsDate(h) /\ Begins(h, k)
      /\ Cut(g, k) = Cut(c, k) /\ Cut(h, k) = Cut(m, k)
  <2>1. /\ IsDate(g) /\ Begins(g, k) /\ \A i \in 1 .. k : g[i] = c[i]
        /\ IsDate(h) /\ Begins(h, k) /\ \A i \in 1 .. k : h[i] = m[i]
    BY Frames
  <2> HIDE DEF g, h
  <2> QED
    BY <2>1, SameFrame
<1>2. ~Before(h, g)
  <2>1. ~Before(c, g) /\ (Before(h, g) <=> Before(m, g))
    BY <1>1, FrameBefore
  <2> HIDE DEF g, h
  <2>2. Before(m, g) => Before(m, c)
    BY <1>1, <2>1, InOrder
  <2> QED
    BY <2>1, <2>2
<1>3. Before(g, f) => Before(c, f)
  <2>1. IsDate(f) /\ Begins(f, k)
    <3>1. 1 \in 1 .. Len(list) /\ Date(list, 1) = f
      BY DEF InList, Listed
    <3> QED
      BY <3>1 DEF InList, Listed
  <2> QED
    BY <2>1, FrameBefore
<1>4. /\ \A i \in 1 .. 3 : IsDate(D(i)) /\ list[i] = Cut(D(i), k)
      /\ D(1) = f
  BY DEF InList, Listed
<1>5. \A i \in 1 .. 3 : (Cut(c, k) = list[i] => g = D(i)) /\ (Cut(m, k) = list[i] => h = D(i))
  BY DEF Date
<1> HIDE DEF g, h
<1>6. \A i \in 1 .. 3 : (Cut(c, k) = list[i] <=> g = D(i)) /\ (Cut(m, k) = list[i] <=> h = D(i))
  BY <1>1, <1>4, <1>5
<1>7. Before(D(1), D(2)) /\ Before(D(2), D(3)) /\ Before(D(1), D(3))
  <2>1. 1 \in 1 .. Len(list) /\ 2 \in 1 .. Len(list) /\ 3 \in 1 .. Len(list)
    OBVIOUS
  <2> QED
    BY <2>1, Increasing
<1>8. IsDate(D(1)) /\ IsDate(D(2)) /\ IsDate(D(3))
  BY <1>4
<1>9. \A i \in 1 .. 3 : i = 1 \/ i = 2 \/ i = 3
  OBVIOUS
<1>10. ASSUME NEW i \in 1 .. 3, g = D(i), h # D(1), h # D(2), h # D(3) PROVE Before(D(3), h)
  <2>1. ~Before(D(1), h) \/ ~Before(h, D(3))
    BY <1>1, <1>10, NoneBetween
  <2>2. Before(D(1), h)
    <3>1. Before(g, h)
      BY <1>1, <1>2, <1>10, Ordered
    <3>2. g = D(1) \/ Before(D(1), g)
      BY <1>7, <1>9, <1>10
    <3> HIDE DEF D
    <3> QED
      BY <1>1, <1>8, <3>1, <3>2, InOrder
  <2> HIDE DEF D
  <2> QED
    BY <1>1, <1>8, <1>10, <2>1, <2>2, Ordered
<1>11. ASSUME NEW i \in 1 .. 3, h = D(i), g # D(1), g # D(2), g # D(3) PROVE Before(g, D(1))
  <2>1. ~Before(D(1), g) \/ ~Before(g, D(3))
    BY <1>1, <1>11, NoneBetween
  <2>2. Before(g, D(3))
    <3>1. Before(g, h)
      BY <1>1, <1>2, <1>11, Ordered
    <3>2. h = D(3) \/ Before(h, D(3))
      BY <1>7, <1>9, <1>11
    <3> HIDE DEF D
    <3> QED
      BY <1>1, <1>8, <3>1, <3>2, InOrder
  <2> HIDE DEF D
  <2> QED
    BY <1>1, <1>8, <1>11, <2>1, <2>2, Ordered
<1>12. ASSUME \E i \in 1 .. 3 : Cut(c, k) = list[i], ~\E i \in 1 .. 3 : Cut(m, k) = list[i]
       PROVE  Before(D(3), h)
  <2>1. PICK i \in 1 .. 3 : g = D(i)
    BY <1>6, <1>12
  <2>2. h # D(1) /\ h # D(2) /\ h # D(3)
    BY <1>6, <1>12
  <2> QED
    BY <1>10, <2>1, <2>2
<1>13. ASSUME \E i \in 1 .. 3 : Cut(m, k) = list[i], ~\E i \in 1 .. 3 : Cut(c, k) = list[i]
       PROVE  Before(c, f)
  <2>1. PICK i \in 1 .. 3 : h = D(i)
    BY <1>6, <1>13
  <2>2. g # D(1) /\ g # D(2) /\ g # D(3)
    BY <1>6, <1>13
  <2> QED
    BY <1>3, <1>4, <1>11, <2>1, <2>2
<1> QED
  BY <1>12, <1>13 DEF h

\* Three frames in a row miss no log that is on its way from one of them to another.
THEOREM Get1Correct == Spec => []Get1MissesOnlyLateLogs
<1>1. IInv => Get1MissesOnlyLateLogs
  <2> DEFINE found == Get1(timeFrames[1], timeFrames[2], timeFrames[3])
  <2> SUFFICES ASSUME IInv, Proper, Len(timeFrames) = 3, NEW log \in Logged, log.offset <= Zone
               PROVE  /\ log \in Counted \ found =>
                           Before(parseTime(timeFrames[3]), parseTime(Cut(log.made, n)))
                      /\ log \in found \ Counted => Before(log.created, from)
    BY DEF Get1MissesOnlyLateLogs
  <2> DEFINE k == n
             f == from
             t == to
             c == log.created
             m == log.made
  <2>1. /\ k \in 1 .. 5 /\ InList(timeFrames, k, f, t, base)
        /\ Len(timeFrames[1]) = k /\ Len(timeFrames[2]) = k /\ Len(timeFrames[3]) = k
    <3>1. /\ k \in 2 .. 5 /\ InList(timeFrames, k, f, t, base)
          /\ \A i \in 1 .. 3 : Len(timeFrames[i]) = k
      BY AnswerCounts
    <3> QED
      BY <3>1
  <2>2. IsDate(c) /\ IsDate(m) /\ log.offset \in Int /\ Zone \in Int
    BY DatesAssumption DEF IsLog
  <2>3. ~Before(m, c)
    <3> DEFINE x == Unix(c)
               y == Unix(m)
               o == log.offset
    <3>1. x - o <= y - Zone /\ o <= Zone /\ o \in Int /\ Zone \in Int
      BY <2>2, TimestampsAssumption DEF CreatedAt, MadeAt
    <3>2. (Before(m, c) <=> y < x) /\ x \in Int /\ y \in Int
      BY <2>2, UnixInOrder
    <3> HIDE DEF x, y, o
    <3>3. ~(y < x)
      BY <3>1, <3>2
    <3> QED
      BY <3>2, <3>3
  <2>4. log \in Counted <=> \E i \in 1 .. 3 : Cut(c, k) = timeFrames[i]
    <3>1. DOMAIN timeFrames = 1 .. 3
      BY <2>1 DEF InList, Listed
    <3> QED
      BY <3>1 DEF Counted
  <2>5. log \in found <=> \E i \in 1 .. 3 : Cut(m, k) = timeFrames[i]
    <3>1. log \in found <=> \/ Cut(m, k) = timeFrames[1] \/ Cut(m, k) = timeFrames[2]
                            \/ Cut(m, k) = timeFrames[3]
      BY <2>1 DEF Get1
    <3>2. \A i : i \in 1 .. 3 <=> i = 1 \/ i = 2 \/ i = 3
      OBVIOUS
    <3> HIDE DEF found, k, m
    <3> QED
      BY <3>1, <3>2
  <2> HIDE DEF k, f, t, c, m
  <2>6. LET created == \E i \in 1 .. 3 : Cut(c, k) = timeFrames[i]
            made == \E i \in 1 .. 3 : Cut(m, k) = timeFrames[i]
        IN  /\ created /\ ~made => Before(Date(timeFrames, 3), parseTime(Cut(m, k)))
            /\ made /\ ~created => Before(c, f)
    BY <2>1, <2>2, <2>3, LateLogs
  <2> HIDE DEF found
  <2> QED
    BY <2>4, <2>5, <2>6 DEF Date, k, f, c, m
<1> QED
  BY <1>1, Invariance, PTL
=============================================================================
