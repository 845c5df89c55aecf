----------------------------- MODULE TrackerProofs -----------------------------
(***************************************************************************)
(* What the tracker keeps for every scene, every threshold, every motion   *)
(* that the filters believe in, and every way the assignment breaks ties.  *)
(***************************************************************************)
EXTENDS Baratas, CameraLoopProofs, AssignmentProofs

-------------------------------------------------------------------------------
(* Counting.                                                                *)

(* A function that is one to one and onto keeps the size of a finite set.   *)
LEMMA SameSize ==
  ASSUME NEW S, NEW T, IsFiniteSet(S), NEW f \in [S -> T],
         \A x, y \in S : f[x] = f[y] => x = y,
         \A t \in T : \E x \in S : f[x] = t
  PROVE  IsFiniteSet(T) /\ Cardinality(T) = Cardinality(S)
<1>1. f \in Bijection(S, T)
  BY DEF Bijection, Injection, Surjection, IsInjective
<1> QED
  BY <1>1, FS_Bijection DEF ExistsBijection

(* A finite set of numbers can be put in order.                             *)
LEMMA OrderExists ==
  ASSUME NEW K \in SUBSET Nat, IsFiniteSet(K)
  PROVE  \E f \in [1 .. Cardinality(K) -> K] : \A i, j \in DOMAIN f : i < j => f[i] < f[j]
<1> DEFINE n        == Cardinality(K)
           Below(k) == {j \in K : j < k}
           rank     == [k \in K |-> Cardinality(Below(k))]
<1>1. n \in Nat
  BY FS_CardinalityType
<1>2. ASSUME NEW k \in K
      PROVE  rank[k] \in 0 .. n - 1
  <2>1. IsFiniteSet(K \ {k}) /\ Cardinality(K \ {k}) = n - 1
    BY <1>2, FS_RemoveElement
  <2>2. Below(k) \in SUBSET (K \ {k})
    OBVIOUS
  <2>3. IsFiniteSet(Below(k)) /\ Cardinality(Below(k)) <= n - 1
    BY <2>1, <2>2, FS_Subset
  <2>4. Cardinality(Below(k)) \in Nat
    BY <2>3, FS_CardinalityType
  <2> QED
    BY <1>1, <2>3, <2>4
<1>3. ASSUME NEW k \in K, NEW l \in K, k < l
      PROVE  rank[k] < rank[l]
  <2>1. IsFiniteSet(Below(l)) /\ IsFiniteSet(Below(k))
    BY FS_Subset
  <2>2. Below(k) \in SUBSET Below(l)
    <3>1. \A j \in K : j < k => j < l
      BY <1>3
    <3> QED
      BY <3>1
  <2>3. k \in Below(l) /\ k \notin Below(k)
    BY <1>3
  <2>4. Cardinality(Below(k)) <= Cardinality(Below(l))
        /\ Cardinality(Below(k)) # Cardinality(Below(l))
    BY <2>1, <2>2, <2>3, FS_Subset
  <2>5. Cardinality(Below(k)) \in Nat /\ Cardinality(Below(l)) \in Nat
    BY <2>1, FS_CardinalityType
  <2> QED
    BY <2>4, <2>5
<1> HIDE DEF rank
<1>4. rank \in Injection(K, 0 .. n - 1)
  <2>1. rank \in [K -> 0 .. n - 1]
    BY <1>2 DEF rank
  <2>2. \A k, l \in K : rank[k] = rank[l] => k = l
    <3> SUFFICES ASSUME NEW k \in K, NEW l \in K, rank[k] = rank[l], k # l PROVE FALSE
      OBVIOUS
    <3>1. k < l \/ l < k
      OBVIOUS
    <3>2. rank[k] \in Int /\ rank[l] \in Int
      BY <1>2
    <3> QED
      BY <1>3, <3>1, <3>2
  <2> QED
    BY <2>1, <2>2 DEF Injection, IsInjective
<1>5. rank \in Surjection(K, 0 .. n - 1)
  <2> HIDE DEF n
  <2>1. 0 \in Int /\ n - 1 \in Int
    BY <1>1
  <2>2. IsFiniteSet(0 .. n - 1) /\ Cardinality(0 .. n - 1) = IF 0 > n - 1 THEN 0 ELSE n - 1 - 0 + 1
    BY <2>1, FS_Interval
  <2>3. Cardinality(0 .. n - 1) = n
    BY <1>1, <2>2
  <2> USE DEF n
  <2> QED
    BY <1>4, <2>2, <2>3, FS_Injection
<1> DEFINE f == [i \in 1 .. n |-> CHOOSE k \in K : rank[k] = i - 1]
<1>6. ASSUME NEW i \in 1 .. n
      PROVE  f[i] \in K /\ rank[f[i]] = i - 1
  <2>1. i - 1 \in 0 .. n - 1
    BY <1>1
  <2>2. \E k \in K : rank[k] = i - 1
    BY <1>5, <2>1 DEF Surjection
  <2> QED
    BY <2>2
<1>7. ASSUME NEW i \in 1 .. n, NEW j \in 1 .. n, i < j
      PROVE  f[i] < f[j]
  <2> HIDE DEF f
  <2>1. f[i] \in K /\ f[j] \in K /\ rank[f[i]] = i - 1 /\ rank[f[j]] = j - 1
    BY <1>6
  <2>2. f[i] = f[j] \/ f[j] < f[i] \/ f[i] < f[j]
    <3>1. f[i] \in Nat /\ f[j] \in Nat
      BY <2>1
    <3> QED
      BY <3>1
  <2>3. f[i] # f[j]
    BY <1>1, <1>7, <2>1
  <2>4. ~(f[j] < f[i])
    <3> SUFFICES ASSUME f[j] < f[i] PROVE FALSE
      OBVIOUS
    <3>1. rank[f[j]] < rank[f[i]]
      BY <1>3, <2>1
    <3>2. j - 1 < i - 1
      BY <2>1, <3>1
    <3> HIDE DEF n
    <3> QED
      BY <1>1, <1>7, <3>2
  <2> QED
    BY <2>2, <2>3, <2>4
<1>8. f \in [1 .. n -> K]
  BY <1>6
<1> HIDE DEF f
<1> QED
  BY <1>7, <1>8

(* InOrder lists every member of a finite set of numbers once.              *)
LEMMA InOrderLists ==
  ASSUME NEW K \in SUBSET Nat, IsFiniteSet(K)
  PROVE  /\ Cardinality(K) \in Nat
         /\ InOrder(K) \in [1 .. Cardinality(K) -> K]
         /\ \A i, j \in 1 .. Cardinality(K) : InOrder(K)[i] = InOrder(K)[j] => i = j
         /\ \A k \in K : \E i \in 1 .. Cardinality(K) : InOrder(K)[i] = k
<1> DEFINE n == Cardinality(K)
<1>1. n \in Nat
  BY FS_CardinalityType
<1>2. /\ InOrder(K) \in [1 .. n -> K]
      /\ \A i, j \in DOMAIN InOrder(K) : i < j => InOrder(K)[i] < InOrder(K)[j]
  BY OrderExists DEF InOrder
<1> DEFINE f == InOrder(K)
<1> HIDE DEF f
<1>3. \A i, j \in 1 .. n : f[i] = f[j] => i = j
  <2> SUFFICES ASSUME NEW i \in 1 .. n, NEW j \in 1 .. n, f[i] = f[j], i # j PROVE FALSE
    OBVIOUS
  <2>1. i < j \/ j < i
    BY <1>1
  <2>2. f \in [1 .. n -> K] /\ f[i] \in Nat /\ f[j] \in Nat
    BY <1>2 DEF f
  <2> QED
    BY <1>2, <2>1, <2>2 DEF f
<1>4. f \in Injection(1 .. n, K)
  BY <1>2, <1>3 DEF f, Injection, IsInjective
<1>5. IsFiniteSet(1 .. n) /\ Cardinality(1 .. n) = n
  BY <1>1, FS_Interval
<1>6. f \in Surjection(1 .. n, K)
  BY <1>4, <1>5, FS_Injection
<1> QED
  BY <1>1, <1>2, <1>3, <1>6 DEF f, Surjection

(* The places in s of the objects that were not seen for v frames.          *)
Aged(s, v) == {k \in DOMAIN s : s[k].unseen = v}

(* What is picked comes from the places it is picked from.                  *)
LEMMA PickedPlaces ==
  ASSUME NEW s, NEW K \in SUBSET Nat, IsFiniteSet(K)
  PROVE  /\ Cardinality(K) \in Nat
         /\ DOMAIN Picked(s, K) = 1 .. Cardinality(K)
         /\ \A i \in 1 .. Cardinality(K) : \E k \in K : Picked(s, K)[i] = s[k]
<1> DEFINE f == InOrder(K)
           n == Cardinality(K)
<1>1. n \in Nat /\ f \in [1 .. n -> K]
  BY InOrderLists
<1>2. Picked(s, K) = [i \in 1 .. n |-> s[f[i]]]
  BY DEF Picked
<1> HIDE DEF f, n
<1>3. \A i \in 1 .. n : f[i] \in K /\ Picked(s, K)[i] = s[f[i]]
  BY <1>1, <1>2
<1> QED
  BY <1>1, <1>2, <1>3 DEF n

(* Picking keeps the number of objects of an age.                           *)
LEMMA CountPicked ==
  ASSUME NEW s, NEW K \in SUBSET Nat, IsFiniteSet(K), NEW v
  PROVE  Cardinality(Aged(Picked(s, K), v)) = Cardinality({k \in K : s[k].unseen = v})
<1> DEFINE n == Cardinality(K)
           f == InOrder(K)
           t == Picked(s, K)
           Of == {k \in K : s[k].unseen = v}
<1>3. /\ n \in Nat
      /\ f \in [1 .. n -> K]
      /\ \A i, j \in 1 .. n : f[i] = f[j] => i = j
      /\ \A k \in K : \E i \in 1 .. n : f[i] = k
  BY InOrderLists
<1>4. t = [i \in 1 .. n |-> s[f[i]]]
  BY DEF Picked
<1>5. IsFiniteSet(Aged(t, v))
  <2>1. IsFiniteSet(1 .. n)
    BY <1>3, FS_Interval
  <2>2. Aged(t, v) \in SUBSET (1 .. n)
    BY <1>4 DEF Aged
  <2> QED
    BY <2>1, <2>2, FS_Subset
<1> HIDE DEF t, f, n
<1> DEFINE g == [i \in Aged(t, v) |-> f[i]]
<1>6. \A i \in Aged(t, v) : i \in 1 .. n /\ t[i] = s[f[i]] /\ t[i].unseen = v
  BY <1>4 DEF Aged
<1>7. g \in [Aged(t, v) -> Of]
  <2> SUFFICES ASSUME NEW i \in Aged(t, v) PROVE f[i] \in Of
    OBVIOUS
  <2>1. f[i] \in K /\ s[f[i]].unseen = v
    BY <1>3, <1>6
  <2> QED
    BY <2>1
<1>8. \A i, j \in Aged(t, v) : g[i] = g[j] => i = j
  BY <1>3, <1>6
<1>9. \A k \in Of : \E i \in Aged(t, v) : g[i] = k
  <2> SUFFICES ASSUME NEW k \in Of PROVE \E i \in Aged(t, v) : g[i] = k
    OBVIOUS
  <2>1. PICK i \in 1 .. n : f[i] = k
    BY <1>3
  <2>2. i \in Aged(t, v)
    BY <1>4, <2>1 DEF Aged
  <2> QED
    BY <2>1, <2>2
<1>10. Cardinality(Of) = Cardinality(Aged(t, v))
  <2> HIDE DEF g, Of
  <2> QED
    BY <1>5, <1>7, <1>8, <1>9, SameSize
<1> QED
  BY <1>10 DEF t

(* The objects of an age in two sequences, one after the other.             *)
LEMMA CountConcat ==
  ASSUME NEW S, NEW s \in Seq(S), NEW t \in Seq(S), NEW v
  PROVE  /\ IsFiniteSet(Aged(s, v)) /\ IsFiniteSet(Aged(t, v))
         /\ Cardinality(Aged(s \o t, v)) = Cardinality(Aged(s, v)) + Cardinality(Aged(t, v))
<1> DEFINE m == Len(s)
           n == Len(t)
           u == s \o t
           A == Aged(s, v)
           B == Aged(t, v)
           C == {m + k : k \in B}
<1>1. m \in Nat /\ n \in Nat /\ DOMAIN s = 1 .. m /\ DOMAIN t = 1 .. n /\ DOMAIN u = 1 .. m + n
  OBVIOUS
<1>2. \A k \in 1 .. m : u[k] = s[k]
  OBVIOUS
<1>3. \A k \in 1 .. n : u[m + k] = t[k]
  OBVIOUS
<1> HIDE DEF m, n, u
<1>4. IsFiniteSet(A) /\ IsFiniteSet(B)
  <2>1. IsFiniteSet(1 .. m) /\ IsFiniteSet(1 .. n)
    BY <1>1, FS_Interval
  <2>2. A \in SUBSET (1 .. m) /\ B \in SUBSET (1 .. n)
    BY <1>1 DEF Aged
  <2> QED
    BY <2>1, <2>2, FS_Subset
<1>5. IsFiniteSet(C) /\ Cardinality(C) = Cardinality(B)
  <2> DEFINE g == [k \in B |-> m + k]
  <2>1. \A k \in B : k \in Nat
    BY <1>1 DEF Aged
  <2>2. g \in [B -> C]
    OBVIOUS
  <2>3. \A k, l \in B : g[k] = g[l] => k = l
    BY <1>1, <2>1
  <2>4. \A c \in C : \E k \in B : g[k] = c
    OBVIOUS
  <2> HIDE DEF g, C, B
  <2> QED
    BY <1>4, <2>2, <2>3, <2>4, SameSize
<1>6. Aged(u, v) = A \cup C
  <2>1. ASSUME NEW k \in Aged(u, v)
        PROVE  k \in A \cup C
    <3>1. k \in 1 .. m + n /\ u[k].unseen = v
      BY <1>1 DEF Aged
    <3>2. CASE k <= m
      BY <1>1, <1>2, <3>1, <3>2 DEF Aged
    <3>3. CASE k > m
      <4>1. k - m \in 1 .. n /\ k = m + (k - m)
        BY <1>1, <3>1, <3>3
      <4>2. k - m \in B
        BY <1>1, <1>3, <3>1, <4>1 DEF Aged
      <4> QED
        BY <4>1, <4>2
    <3> QED
      BY <1>1, <3>1, <3>2, <3>3
  <2>2. ASSUME NEW k \in A
        PROVE  k \in Aged(u, v)
    BY <1>1, <1>2 DEF Aged
  <2>3. ASSUME NEW k \in B
        PROVE  m + k \in Aged(u, v)
    <3>1. k \in 1 .. n /\ t[k].unseen = v
      BY <1>1 DEF Aged
    <3>2. m + k \in 1 .. m + n
      BY <1>1, <3>1
    <3> QED
      BY <1>1, <1>3, <3>1, <3>2 DEF Aged
  <2> QED
    BY <2>1, <2>2, <2>3
<1>7. A \cap C = {}
  <2>1. \A k \in A : k <= m
    BY <1>1 DEF Aged
  <2>2. \A k \in B : k \in Nat /\ k > 0
    BY <1>1 DEF Aged
  <2>3. \A c \in C : c > m
    BY <1>1, <2>2
  <2>4. \A k \in A : k \in Nat
    BY <1>1 DEF Aged
  <2>5. ASSUME NEW k \in A, k \in C
        PROVE  FALSE
    <3>1. k \in Nat /\ k <= m /\ k > m
      BY <2>1, <2>3, <2>4, <2>5
    <3> QED
      BY <1>1, <3>1
  <2> QED
    BY <2>5
<1>8. Cardinality(A \cup C) = Cardinality(A) + Cardinality(C)
  <2>1. Cardinality(A \cup C) = Cardinality(A) + Cardinality(C) - Cardinality(A \cap C)
    BY <1>4, <1>5, FS_Union
  <2>2. Cardinality(A) \in Nat /\ Cardinality(C) \in Nat
    BY <1>4, <1>5, FS_CardinalityType
  <2>3. Cardinality(A \cap C) = 0
    BY <1>7, FS_EmptySet
  <2> QED
    BY <2>1, <2>2, <2>3
<1> QED
  BY <1>4, <1>5, <1>6, <1>8 DEF u

-------------------------------------------------------------------------------
(* Types.                                                                   *)

(* An object between prediction and erasure: it may be one frame too old.   *)
Aging ==
  [last : Int, fresh : BOOLEAN, unseen : 0 .. MaxUnseen + 1,
   pre : Int, post : Int, vel : Int, blind : BOOLEAN]

LEMMA TruncateType == ASSUME NEW p \in Int PROVE Truncate(p) \in Int
<1>1. PixelUnits \in Nat \ {0}
  BY TrackerAssumption
<1>2. p \div PixelUnits \in Int /\ (-p) \div PixelUnits \in Int
  BY <1>1
<1>3. \A d \in Int : d * PixelUnits \in Int /\ -d \in Int
  BY <1>1
<1> QED
  BY <1>2, <1>3 DEF Truncate

LEMMA NewObjType == ASSUME NEW p \in Nat PROVE NewObj(p) \in TrackObj /\ NewObj(p).unseen = 0
  BY TruncateType, TrackerAssumption DEF NewObj, TrackObj

LEMMA PredictType ==
  ASSUME NEW o \in TrackObj
  PROVE  Predict(o) \in Aging /\ Predict(o).unseen = o.unseen + 1
<1>1. MaxUnseen \in Nat
  BY TrackerAssumption
<1>2. CASE o.fresh
  <2>1. Predict(o) = [o EXCEPT !.fresh = FALSE, !.unseen = @ + 1]
    BY <1>2 DEF Predict
  <2>2. Predict(o) = [last |-> o.last, fresh |-> FALSE, unseen |-> o.unseen + 1,
                      pre |-> o.pre, post |-> o.post, vel |-> o.vel, blind |-> o.blind]
    BY <2>1 DEF TrackObj
  <2> QED
    BY <1>1, <2>2 DEF TrackObj, Aging
<1>3. CASE ~o.fresh
  <2> DEFINE p == o.post + o.vel
  <2>1. p \in Int
    BY DEF TrackObj
  <2>2. Truncate(p) \in Int
    BY <2>1, TruncateType
  <2>3. Predict(o) = [o EXCEPT !.last = Truncate(p), !.pre = p, !.post = p, !.blind = FALSE,
                               !.unseen = @ + 1]
    BY <1>3 DEF Predict
  <2> HIDE DEF p
  <2>4. Predict(o) = [last |-> Truncate(p), fresh |-> o.fresh, unseen |-> o.unseen + 1,
                      pre |-> p, post |-> p, vel |-> o.vel, blind |-> FALSE]
    BY <2>3 DEF TrackObj
  <2> QED
    BY <1>1, <2>1, <2>2, <2>4 DEF TrackObj, Aging
<1> QED
  BY <1>2, <1>3

LEMMA CorrectedType ==
  ASSUME NEW o \in Aging, NEW q \in Nat, NEW c \in Corrected(o, q)
  PROVE  c \in TrackObj /\ c.unseen = 0
<1>1. MaxUnseen \in Nat /\ Speeds \subseteq Int
  BY TrackerAssumption
<1>2. \A p, v \in Int : Sighted(o, p, v) \in TrackObj /\ Sighted(o, p, v).unseen = 0
  <2> SUFFICES ASSUME NEW p \in Int, NEW v \in Int
               PROVE  Sighted(o, p, v) \in TrackObj /\ Sighted(o, p, v).unseen = 0
    OBVIOUS
  <2>1. Sighted(o, p, v) = [o EXCEPT !.post = p, !.vel = v, !.unseen = 0]
    BY DEF Sighted
  <2>2. Sighted(o, p, v) = [last |-> o.last, fresh |-> o.fresh, unseen |-> 0,
                            pre |-> o.pre, post |-> p, vel |-> v, blind |-> o.blind]
    BY <2>1 DEF Aging
  <2> QED
    BY <1>1, <2>2 DEF Aging, TrackObj
<1>3. o.pre \in Int /\ 0 \in Int /\ Between(o.pre, q) \subseteq Int
  BY DEF Aging, Between
<1>4. \E p, v \in Int : c = Sighted(o, p, v)
  BY <1>1, <1>3 DEF Corrected
<1> QED
  BY <1>2, <1>4

(* What findBlobs may find.                                                 *)
LEMMA SceneType ==
  ASSUME NEW ms \in Scenes
  PROVE  /\ Len(ms) \in 0 .. MaxBlobs /\ Len(ms) \in Nat
         /\ DOMAIN ms = 1 .. Len(ms)
         /\ \A i \in DOMAIN ms : ms[i] \in Nat
<1>1. PICK n \in 0 .. MaxBlobs : ms \in [1 .. n -> Spots]
  BY DEF Scenes
<1>2. ms \in Seq(Nat) /\ Len(ms) = n
  <2>1. ms \in [1 .. n -> Nat] /\ n \in Nat
    <3>1. Spots \subseteq Nat /\ MaxBlobs \in Nat
      BY TrackerAssumption
    <3>2. n \in Nat
      BY <3>1
    <3>3. \A i \in 1 .. n : ms[i] \in Nat
      BY <1>1, <3>1
    <3> QED
      BY <1>1, <3>2, <3>3
  <2> QED
    BY <2>1
<1> QED
  <2>1. MaxBlobs \in Nat /\ Spots \subseteq Nat
    BY TrackerAssumption
  <2>2. DOMAIN ms = 1 .. n /\ Len(ms) = n /\ n \in Nat
    BY <1>1, <1>2, <2>1
  <2> QED
    BY <1>1, <2>1, <2>2

(* The assignment gives every row a column of its own.                      *)
LEMMA AssignmentType ==
  ASSUME NEW ms \in Scenes, NEW predicted \in Seq(Aging),
         NEW a \in MaxCostAssignments(DistanceMatrix(ms, predicted))
  PROVE  LET n == Larger(Len(ms), Len(predicted))
         IN  a \in [1 .. n -> 1 .. n] /\ \A i, j \in 1 .. n : a[i] = a[j] => i = j
<1> DEFINE n == Larger(Len(ms), Len(predicted))
<1>1. DOMAIN DistanceMatrix(ms, predicted) = 1 .. n
  BY DEF DistanceMatrix
<1>2. a \in Injection(1 .. n, 1 .. n)
  BY <1>1 DEF MaxCostAssignments
<1> QED
  BY <1>2 DEF Injection, IsInjective

-------------------------------------------------------------------------------
(* What a frame does to the objects.                                        *)

(* Every blob of a frame either is the sighting of one object or is left    *)
(* over: the objects sighted are as many as the blobs that are not left.    *)
LEMMA SightingsMatch ==
  ASSUME NEW ms \in Scenes, NEW predicted \in Seq(Aging),
         NEW a \in MaxCostAssignments(DistanceMatrix(ms, predicted))
  PROVE  LET near    == {i \in DOMAIN ms : Near(ms, predicted, a, i)}
             left    == LeftOver(ms, predicted, a)
             sighted == {a[i] : i \in near}
         IN  /\ sighted \subseteq DOMAIN predicted
             /\ IsFiniteSet(sighted) /\ Cardinality(sighted) \in Nat
             /\ left \in SUBSET (1 .. Len(ms))
             /\ IsFiniteSet(left) /\ Cardinality(left) \in Nat
             /\ Cardinality(sighted) + Cardinality(left) = Len(ms)
<1> DEFINE n       == Len(ms)
           size    == Larger(n, Len(predicted))
           near    == {i \in DOMAIN ms : Near(ms, predicted, a, i)}
           left    == LeftOver(ms, predicted, a)
           sighted == {a[i] : i \in near}
           g       == [i \in near |-> a[i]]
<1>1. n \in Nat /\ DOMAIN ms = 1 .. n /\ Len(predicted) \in Nat /\ DOMAIN predicted = 1 .. Len(predicted)
  BY SceneType
<1>2. a \in [1 .. size -> 1 .. size] /\ \A i, j \in 1 .. size : a[i] = a[j] => i = j
  BY AssignmentType
<1> HIDE DEF n
<1>3. size \in Nat /\ 1 .. n \subseteq 1 .. size
  BY <1>1 DEF Larger
<1> HIDE DEF size
<1>4. left = (1 .. n) \ near /\ near \in SUBSET (1 .. n) /\ left \in SUBSET (1 .. n)
  BY <1>1 DEF LeftOver
<1>5. \A i \in near : i \in 1 .. size /\ a[i] \in 1 .. Len(predicted)
  <2> SUFFICES ASSUME NEW i \in near PROVE i \in 1 .. size /\ a[i] \in 1 .. Len(predicted)
    OBVIOUS
  <2>1. i \in 1 .. size /\ a[i] <= Len(predicted)
    BY <1>1, <1>3 DEF Near
  <2>2. a[i] \in 1 .. size
    BY <1>2, <2>1
  <2> QED
    BY <1>1, <1>3, <2>1, <2>2
<1>6. IsFiniteSet(1 .. n) /\ Cardinality(1 .. n) = n
  BY <1>1, FS_Interval
<1> HIDE DEF near, left
<1>7. IsFiniteSet(near) /\ IsFiniteSet(left)
  BY <1>4, <1>6, FS_Subset
<1>8. IsFiniteSet(sighted) /\ Cardinality(sighted) = Cardinality(near)
  <2>1. g \in [near -> sighted]
    OBVIOUS
  <2>2. \A i, j \in near : g[i] = g[j] => i = j
    BY <1>2, <1>5
  <2>3. \A k \in sighted : \E i \in near : g[i] = k
    OBVIOUS
  <2> HIDE DEF g, sighted
  <2> QED
    BY <1>7, <2>1, <2>2, <2>3, SameSize
<1>9. Cardinality(near) + Cardinality(left) = n
  <2>1. near \cup left = 1 .. n /\ near \cap left = {}
    BY <1>4
  <2>2. Cardinality(near \cup left) = Cardinality(near) + Cardinality(left) - Cardinality(near \cap left)
    BY <1>7, FS_Union
  <2>3. Cardinality(near) \in Nat /\ Cardinality(left) \in Nat
    BY <1>7, FS_CardinalityType
  <2>4. Cardinality(near \cap left) = 0
    BY <2>1, FS_EmptySet
  <2>5. Cardinality(near \cup left) = n
    BY <1>6, <2>1
  <2> QED
    BY <1>1, <2>2, <2>3, <2>4, <2>5
<1>10. Cardinality(sighted) \in Nat /\ Cardinality(left) \in Nat
  BY <1>7, <1>8, FS_CardinalityType
<1>11. sighted \subseteq DOMAIN predicted
  BY <1>1, <1>5
<1> QED
  BY <1>4, <1>7, <1>8, <1>9, <1>10, <1>11 DEF n, near, left

(* An object is as it was sighted, or one frame older.                      *)
LEMMA OutcomeCases ==
  ASSUME NEW ms \in Scenes, NEW predicted \in Seq(Aging), NEW a,
         NEW k \in DOMAIN predicted, NEW c \in Outcomes(ms, predicted, a, k)
  PROVE  IF k \in {a[i] : i \in {i \in DOMAIN ms : Near(ms, predicted, a, i)}}
         THEN c \in TrackObj /\ c.unseen = 0
         ELSE c = predicted[k]
<1> DEFINE sightings == {i \in DOMAIN ms : a[i] = k /\ Near(ms, predicted, a, i)}
<1>1. CASE sightings = {}
  BY <1>1 DEF Outcomes
<1>2. CASE sightings # {}
  <2>1. PICK i \in sightings : c \in Corrected(predicted[k], ms[i])
    BY <1>2 DEF Outcomes
  <2>2. predicted[k] \in Aging /\ ms[i] \in Nat
    BY SceneType
  <2>3. c \in TrackObj /\ c.unseen = 0
    BY <2>1, <2>2, CorrectedType
  <2> QED
    BY <1>2, <2>3
<1> QED
  BY <1>1, <1>2

(* Track, as what it does to the number of objects of every age.            *)
LEMMA TrackStep ==
  ASSUME TypeOK, NEW ms \in Scenes, Track(ms)
  PROVE  \E sighted \in SUBSET DOMAIN objects :
           /\ IsFiniteSet(sighted) /\ Cardinality(sighted) <= Len(ms)
           /\ objects' \in Seq(TrackObj)
           /\ \A i \in DOMAIN assignments' : assignments'[i] \in DOMAIN assignments'
           /\ Cardinality(Aged(objects', 0)) = Len(ms)
           /\ \A v \in 1 .. MaxUnseen :
                Cardinality(Aged(objects', v)) = Cardinality(Aged(objects, v - 1) \ sighted)
<1> DEFINE m         == Len(objects)
           predicted == [k \in DOMAIN objects |-> Predict(objects[k])]
           out(a)    == [k \in DOMAIN objects |-> Outcomes(ms, predicted, a, k)]
<1>0. PICK a \in MaxCostAssignments(DistanceMatrix(ms, predicted)) :
        \E after \in [DOMAIN objects -> UNION Range(out(a))] :
           /\ \A k \in DOMAIN objects : after[k] \in out(a)[k]
           /\ objects' = Survivors(after) \o Newborn(ms, LeftOver(ms, predicted, a))
           /\ assignments' = a
  BY Zenon DEF Track
<1>1. PICK after \in [DOMAIN objects -> UNION Range(out(a))] :
        /\ \A k \in DOMAIN objects : after[k] \in out(a)[k]
        /\ objects' = Survivors(after) \o Newborn(ms, LeftOver(ms, predicted, a))
        /\ assignments' = a
  BY <1>0
<1> DEFINE near    == {i \in DOMAIN ms : Near(ms, predicted, a, i)}
           left    == LeftOver(ms, predicted, a)
           sighted == {a[i] : i \in near}
           K       == {k \in DOMAIN after : ~ObjectIsLost(after[k])}
<1>2. m \in Nat /\ DOMAIN objects = 1 .. m /\ \A k \in 1 .. m : objects[k] \in TrackObj
  BY DEF TypeOK
<1>3. /\ predicted \in Seq(Aging) /\ DOMAIN predicted = 1 .. m
      /\ \A k \in 1 .. m : predicted[k] \in Aging /\ predicted[k].unseen = objects[k].unseen + 1
  <2>1. \A k \in 1 .. m : predicted[k] \in Aging /\ predicted[k].unseen = objects[k].unseen + 1
    BY <1>2, PredictType
  <2> QED
    BY <1>2, <2>1
<1>range. \A k \in 1 .. m : objects[k].unseen \in 0 .. MaxUnseen /\ predicted[k].unseen \in 1 .. MaxUnseen + 1
  <2>1. \A k \in 1 .. m : objects[k].unseen \in 0 .. MaxUnseen
    BY <1>2 DEF TrackObj
  <2> QED
    BY <1>3, <2>1, TrackerAssumption
<1>4. \A k \in 1 .. m : after[k] \in Outcomes(ms, predicted, a, k)
  BY <1>1, <1>2
<1>5. DOMAIN after = 1 .. m /\ K \in SUBSET (1 .. m)
  BY <1>1, <1>2
<1> HIDE DEF m, predicted
<1>6. /\ sighted \subseteq 1 .. m
      /\ IsFiniteSet(sighted) /\ Cardinality(sighted) \in Nat
      /\ left \in SUBSET (1 .. Len(ms))
      /\ IsFiniteSet(left) /\ Cardinality(left) \in Nat
      /\ Cardinality(sighted) + Cardinality(left) = Len(ms)
  BY <1>1, <1>3, SightingsMatch
<1>7. \A k \in 1 .. m : IF k \in sighted THEN after[k] \in TrackObj /\ after[k].unseen = 0
                                      ELSE after[k] = predicted[k]
  <2> SUFFICES ASSUME NEW k \in 1 .. m
               PROVE  IF k \in sighted THEN after[k] \in TrackObj /\ after[k].unseen = 0
                                      ELSE after[k] = predicted[k]
    OBVIOUS
  <2>1. k \in DOMAIN predicted /\ predicted \in Seq(Aging) /\ after[k] \in Outcomes(ms, predicted, a, k)
    BY <1>3, <1>4
  <2> QED
    BY <2>1, OutcomeCases
<1>8. a \in [DOMAIN a -> DOMAIN a]
  <2>1. a \in [1 .. Larger(Len(ms), Len(predicted)) -> 1 .. Larger(Len(ms), Len(predicted))]
    BY <1>1, <1>3, AssignmentType
  <2> QED
    BY <2>1
<1> HIDE DEF near, left, sighted
<1>9. \A k \in 1 .. m : k \in K <=> after[k].unseen <= MaxUnseen
  <2>1. \A k \in 1 .. m : after[k].unseen \in Int
    BY <1>7, <1>range, TrackerAssumption
  <2> QED
    BY <1>5, <2>1, TrackerAssumption DEF ObjectIsLost
<1>10. \A k \in K : after[k] \in TrackObj
  <2> SUFFICES ASSUME NEW k \in K PROVE after[k] \in TrackObj
    OBVIOUS
  <2>1. CASE k \in sighted
    BY <1>5, <1>7, <2>1
  <2>2. CASE k \notin sighted
    <3>1. after[k] \in Aging /\ after[k].unseen <= MaxUnseen
      <4>1. k \in 1 .. m /\ after[k] = predicted[k]
        BY <1>5, <1>7, <2>2
      <4>2. predicted[k] \in Aging
        BY <1>3, <4>1
      <4> HIDE DEF K
      <4> QED
        BY <1>9, <4>1, <4>2
    <3> QED
      BY <3>1, TrackerAssumption DEF Aging, TrackObj
  <2> QED
    BY <2>1, <2>2
<1> DEFINE old == Survivors(after)
           new == Newborn(ms, left)
<1>11. old \in Seq(TrackObj)
       /\ \A v : Cardinality(Aged(old, v)) = Cardinality({k \in K : after[k].unseen = v})
  <2>1. old = Picked(after, K)
    BY DEF Survivors
  <2> HIDE DEF K, old
  <2>2. /\ Cardinality(K) \in Nat
        /\ DOMAIN Picked(after, K) = 1 .. Cardinality(K)
        /\ \A i \in 1 .. Cardinality(K) : \E k \in K : Picked(after, K)[i] = after[k]
        /\ \A v : Cardinality(Aged(Picked(after, K), v)) = Cardinality({k \in K : after[k].unseen = v})
    <3>1. IsFiniteSet(1 .. m)
      BY <1>2, FS_Interval
    <3>2. IsFiniteSet(K)
      BY <1>5, <3>1, FS_Subset
    <3>3. K \in SUBSET Nat
      <4>1. \A k \in K : k \in Nat
        BY <1>5
      <4> QED
        BY <4>1
    <3>4. ASSUME NEW v
          PROVE  Cardinality(Aged(Picked(after, K), v)) = Cardinality({k \in K : after[k].unseen = v})
      BY <3>2, <3>3, CountPicked
    <3> QED
      BY <3>2, <3>3, <3>4, PickedPlaces
  <2>3. old = [i \in 1 .. Cardinality(K) |-> old[i]]
    BY <2>1 DEF Picked
  <2>4. \A i \in 1 .. Cardinality(K) : old[i] \in TrackObj
    BY <1>10, <2>1, <2>2
  <2>5. old \in Seq(TrackObj)
    BY <2>2, <2>3, <2>4
  <2> QED
    BY <2>1, <2>2, <2>5
<1>12. new \in Seq(TrackObj)
       /\ Cardinality(Aged(new, 0)) = Cardinality(left)
       /\ \A v \in 1 .. MaxUnseen : Cardinality(Aged(new, v)) = 0
  <2> DEFINE found == Picked(ms, left)
             c     == Cardinality(left)
  <2>1. DOMAIN found = 1 .. c /\ \A i \in 1 .. c : found[i] \in Nat
    <3>1. Len(ms) \in Nat /\ \A i \in 1 .. Len(ms) : ms[i] \in Nat
      BY SceneType
    <3>2. \A i \in 1 .. c : \E k \in left : found[i] = ms[k]
      <4> HIDE DEF c, found
      <4>1. \A i \in 1 .. Cardinality(left) : \E k \in left : Picked(ms, left)[i] = ms[k]
        <5>1. \A i \in left : i \in Nat
          BY <1>6
        <5>2. left \in SUBSET Nat
          BY <5>1
        <5>3. IsFiniteSet(left)
          BY <1>6
        <5> QED
          BY <5>2, <5>3, PickedPlaces
      <4> QED
        BY <4>1 DEF c, found
    <3>3. DOMAIN found = 1 .. c
      BY DEF Picked
    <3> QED
      BY <1>6, <3>1, <3>2, <3>3
  <2>2. new = [i \in 1 .. c |-> NewObj(found[i])]
    BY <2>1 DEF Newborn
  <2>3. \A i \in 1 .. c : NewObj(found[i]) \in TrackObj /\ NewObj(found[i]).unseen = 0
    BY <2>1, NewObjType
  <2> HIDE DEF found, c, new
  <2>4. new \in Seq(TrackObj)
    BY <1>6, <2>2, <2>3 DEF c
  <2>5. Aged(new, 0) = 1 .. c /\ \A v \in 1 .. MaxUnseen : Aged(new, v) = {}
    BY <2>2, <2>3 DEF Aged
  <2>6. Cardinality(1 .. c) = c
    BY <1>6, FS_Interval DEF c
  <2> QED
    BY <2>4, <2>5, <2>6, FS_EmptySet DEF c
<1>13. \A v : Cardinality(Aged(objects', v)) = Cardinality(Aged(old, v)) + Cardinality(Aged(new, v))
               /\ IsFiniteSet(Aged(old, v))
  BY <1>1, <1>11, <1>12, CountConcat DEF left
<1>14. objects' \in Seq(TrackObj)
  BY <1>1, <1>11, <1>12 DEF left
<1> HIDE DEF old, new
<1>15. {k \in K : after[k].unseen = 0} = sighted
  <2>1. \A k \in 1 .. m : k \in sighted => k \in K /\ after[k].unseen = 0
    BY <1>7, <1>9, TrackerAssumption
  <2>2. \A k \in 1 .. m : k \notin sighted => after[k].unseen # 0
    BY <1>7, <1>range, TrackerAssumption
  <2> HIDE DEF K
  <2> QED
    BY <1>5, <1>6, <2>1, <2>2
<1>16. Cardinality(Aged(objects', 0)) = Len(ms)
  BY <1>6, <1>11, <1>12, <1>13, <1>15
<1>17. ASSUME NEW v \in 1 .. MaxUnseen
       PROVE  Cardinality(Aged(objects', v)) = Cardinality(Aged(objects, v - 1) \ sighted)
  <2>1. {k \in K : after[k].unseen = v} = Aged(objects, v - 1) \ sighted
    <3>1. \A k \in 1 .. m : k \in sighted => after[k].unseen # v
      BY <1>7
    <3>2. \A k \in 1 .. m : k \notin sighted =>
            (k \in K /\ after[k].unseen = v <=> objects[k].unseen = v - 1)
      <4> SUFFICES ASSUME NEW k \in 1 .. m, k \notin sighted
                   PROVE  k \in K /\ after[k].unseen = v <=> objects[k].unseen = v - 1
        OBVIOUS
      <4> HIDE DEF K
      <4>1. objects[k].unseen \in Int /\ after[k].unseen = objects[k].unseen + 1
        <5>1. after[k] = predicted[k] /\ predicted[k].unseen = objects[k].unseen + 1
          BY <1>3, <1>7
        <5>2. objects[k].unseen \in 0 .. MaxUnseen
          BY <1>2 DEF TrackObj
        <5> QED
          BY <5>1, <5>2
      <4> QED
        BY <1>9, <4>1, TrackerAssumption
    <3> HIDE DEF K
    <3> QED
      BY <1>2, <1>5, <3>1, <3>2 DEF Aged
  <2>2. Cardinality(Aged(old, v)) \in Nat
    BY <1>13, FS_CardinalityType
  <2> QED
    BY <1>11, <1>12, <1>13, <2>1, <2>2
<1>18. Cardinality(sighted) <= Len(ms)
  BY <1>6
<1> QED
  BY <1>1, <1>2, <1>6, <1>8, <1>14, <1>16, <1>17, <1>18

-------------------------------------------------------------------------------
(* The invariant: types, nothing before init, and no age with more objects  *)
(* than a frame has blobs.                                                  *)
TrackerInv ==
  /\ TypeOK
  /\ ~initialized => objects = <<>>
  /\ EveryBlobIsOneObject
  /\ \A v \in 0 .. MaxUnseen : Cardinality(Aged(objects, v)) <= MaxBlobs

(* Tracker::init is a frame in which every object is new.                   *)
LEMMA InitStep ==
  ASSUME TrackerInv, NEW ms \in Scenes, InitObjects(ms)
  PROVE  /\ objects = <<>> /\ objects' \in Seq(TrackObj)
         /\ Cardinality(Aged(objects', 0)) = Len(ms)
         /\ \A v \in 1 .. MaxUnseen : Cardinality(Aged(objects', v)) = 0
<1> DEFINE n == Len(ms)
<1>1. n \in Nat /\ DOMAIN ms = 1 .. n /\ \A i \in 1 .. n : ms[i] \in Nat
  BY SceneType
<1>2. objects = <<>>
  BY DEF TrackerInv, InitObjects
<1>3. objects' = [i \in 1 .. n |-> NewObj(ms[i])]
  BY <1>1 DEF InitObjects
<1>4. \A i \in 1 .. n : NewObj(ms[i]) \in TrackObj /\ NewObj(ms[i]).unseen = 0
  BY <1>1, NewObjType
<1> HIDE DEF n
<1>5. objects' \in Seq(TrackObj)
  BY <1>1, <1>3, <1>4
<1>6. Aged(objects', 0) = 1 .. n /\ \A v \in 1 .. MaxUnseen : Aged(objects', v) = {}
  BY <1>3, <1>4 DEF Aged
<1>7. Cardinality(1 .. n) = n
  BY <1>1, FS_Interval
<1> QED
  BY <1>2, <1>5, <1>6, <1>7, FS_EmptySet DEF n

(* Any frame, as what it does to the number of objects of every age.        *)
LEMMA FrameStep ==
  ASSUME TrackerInv, NEW ms \in Scenes, InitObjects(ms) \/ Track(ms)
  PROVE  /\ \E sighted \in SUBSET DOMAIN objects :
              /\ IsFiniteSet(sighted) /\ Cardinality(sighted) <= Len(ms)
              /\ \A v \in 1 .. MaxUnseen :
                   Cardinality(Aged(objects', v)) = Cardinality(Aged(objects, v - 1) \ sighted)
         /\ objects' \in Seq(TrackObj)
         /\ \A i \in DOMAIN assignments' : assignments'[i] \in DOMAIN assignments'
         /\ Cardinality(Aged(objects', 0)) = Len(ms)
<1>1. CASE InitObjects(ms)
  <2>1. IsFiniteSet({}) /\ Cardinality({}) = 0 /\ Len(ms) \in Nat
    BY FS_EmptySet, SceneType
  <2>2. /\ objects = <<>> /\ objects' \in Seq(TrackObj)
        /\ Cardinality(Aged(objects', 0)) = Len(ms)
        /\ \A v \in 1 .. MaxUnseen : Cardinality(Aged(objects', v)) = 0
    BY <1>1, InitStep
  <2>3. \A v : Aged(objects, v - 1) \ {} = {}
    BY <2>2 DEF Aged
  <2>4. \A i \in DOMAIN assignments' : assignments'[i] \in DOMAIN assignments'
    BY <1>1 DEF InitObjects, TrackerInv, TypeOK
  <2>5. \A v \in 1 .. MaxUnseen : Cardinality(Aged(objects', v)) = Cardinality(Aged(objects, v - 1) \ {})
    BY <2>1, <2>2, <2>3
  <2>6. {} \in SUBSET DOMAIN objects /\ Cardinality({}) <= Len(ms)
    BY <2>1
  <2> QED
    BY <2>1, <2>2, <2>4, <2>5, <2>6
<1>2. CASE Track(ms)
  BY <1>2, TrackStep DEF TrackerInv
<1> QED
  BY <1>1, <1>2

LEMMA AgedFinite ==
  ASSUME NEW s \in Seq(TrackObj), NEW v
  PROVE  IsFiniteSet(Aged(s, v)) /\ Cardinality(Aged(s, v)) \in Nat
<1>1. IsFiniteSet(1 .. Len(s)) /\ Aged(s, v) \in SUBSET (1 .. Len(s))
  BY FS_Interval DEF Aged
<1>2. IsFiniteSet(Aged(s, v))
  BY <1>1, FS_Subset
<1> QED
  BY <1>2, FS_CardinalityType

LEMMA InvInit == Init => TrackerInv
<1> SUFFICES ASSUME Init PROVE TrackerInv
  OBVIOUS
<1>1. <<>> \in Scenes
  <2>1. <<>> \in [1 .. 0 -> Spots] /\ 0 \in 0 .. MaxBlobs
    BY TrackerAssumption
  <2> QED
    BY <2>1 DEF Scenes
<1>2. TypeOK
  <2>1. <<>> \in Seq(TrackObj) /\ \A i \in DOMAIN assignments : FALSE
    BY DEF Init
  <2> QED
    BY <1>1, <2>1 DEF Init, TypeOK
<1>3. \A v : Aged(objects, v) = {}
  BY DEF Init, Aged
<1>4. EveryBlobIsOneObject
  <2>1. {k \in DOMAIN objects : objects[k].unseen = 0} = {}
    BY DEF Init
  <2> QED
    BY <2>1, FS_EmptySet DEF Init, EveryBlobIsOneObject
<1>5. \A v : Cardinality(Aged(objects, v)) <= MaxBlobs
  BY <1>3, FS_EmptySet, TrackerAssumption
<1> QED
  BY <1>2, <1>4, <1>5 DEF Init, TrackerInv

LEMMA InvStep == TrackerInv /\ [Next]_vars => TrackerInv'
<1>1. ASSUME TrackerInv, NEW ms \in Scenes, InitObjects(ms) \/ Track(ms)
      PROVE  TrackerInv'
  <2>1. /\ objects' \in Seq(TrackObj)
        /\ \A i \in DOMAIN assignments' : assignments'[i] \in DOMAIN assignments'
        /\ Cardinality(Aged(objects', 0)) = Len(ms)
    BY <1>1, FrameStep
  <2>2. initialized' = TRUE /\ scene' = ms /\ steady' \in BOOLEAN
    BY <1>1 DEF InitObjects, Track, Observe, TrackerInv, TypeOK
  <2>3. Len(ms) \in 0 .. MaxBlobs /\ MaxBlobs \in Nat /\ MaxUnseen \in Nat
    BY SceneType, TrackerAssumption
  <2>4. PICK sighted \in SUBSET DOMAIN objects :
          \A v \in 1 .. MaxUnseen :
            Cardinality(Aged(objects', v)) = Cardinality(Aged(objects, v - 1) \ sighted)
    BY <1>1, FrameStep
  <2>5. ASSUME NEW v \in 1 .. MaxUnseen
        PROVE  Cardinality(Aged(objects', v)) <= MaxBlobs
    <3>1. v - 1 \in 0 .. MaxUnseen
      BY <2>3
    <3>2. Cardinality(Aged(objects, v - 1)) <= MaxBlobs
      BY <1>1, <3>1 DEF TrackerInv
    <3>3. IsFiniteSet(Aged(objects, v - 1)) /\ Cardinality(Aged(objects, v - 1)) \in Nat
      BY <1>1, AgedFinite DEF TrackerInv, TypeOK
    <3>4. Aged(objects, v - 1) \ sighted \in SUBSET Aged(objects, v - 1)
      OBVIOUS
    <3>5. /\ Cardinality(Aged(objects, v - 1) \ sighted) <= Cardinality(Aged(objects, v - 1))
          /\ IsFiniteSet(Aged(objects, v - 1) \ sighted)
      BY <3>3, <3>4, FS_Subset
    <3>6. Cardinality(Aged(objects, v - 1) \ sighted) \in Nat
      BY <3>5, FS_CardinalityType
    <3>7. Cardinality(Aged(objects', v)) = Cardinality(Aged(objects, v - 1) \ sighted)
      BY <2>4
    <3> QED
      BY <2>3, <3>2, <3>3, <3>5, <3>6, <3>7
  <2>6. \A v \in 0 .. MaxUnseen : Cardinality(Aged(objects', v)) <= MaxBlobs
    <3> SUFFICES ASSUME NEW v \in 0 .. MaxUnseen PROVE Cardinality(Aged(objects', v)) <= MaxBlobs
      OBVIOUS
    <3>1. v = 0 \/ v \in 1 .. MaxUnseen
      BY <2>3
    <3> QED
      BY <2>1, <2>3, <2>5, <3>1
  <2>7. TypeOK'
    BY <2>1, <2>2 DEF TypeOK
  <2>8. EveryBlobIsOneObject'
    BY <2>1, <2>2 DEF EveryBlobIsOneObject, Aged
  <2> QED
    BY <2>2, <2>6, <2>7, <2>8 DEF TrackerInv, Aged
<1>2. ASSUME TrackerInv, UNCHANGED vars
      PROVE  TrackerInv'
  BY <1>2 DEF TrackerInv, vars, TypeOK, EveryBlobIsOneObject, Aged
<1> QED
  BY <1>1, <1>2 DEF Next

(* The invariant holds in every state.                                      *)
THEOREM TrackerInvariant == Spec => []TrackerInv
  BY InvInit, InvStep, PTL DEF Spec

(* Every object stays well-formed: in particular none that survives a frame *)
(* has gone unseen for longer than the erasure allows.                      *)
THEOREM TrackerTyped == Spec => []TypeOK
<1>1. TrackerInv => TypeOK
  BY DEF TrackerInv
<1> QED
  BY <1>1, TrackerInvariant, PTL

(* After every frame exactly as many objects are sighted as there are blobs.*)
THEOREM TrackerOneObjectPerBlob == Spec => []EveryBlobIsOneObject
<1>1. TrackerInv => EveryBlobIsOneObject
  BY DEF TrackerInv
<1> QED
  BY <1>1, TrackerInvariant, PTL

-------------------------------------------------------------------------------
(* The members of a finite set can be numbered.                             *)
LEMMA Numbering ==
  ASSUME NEW S, IsFiniteSet(S)
  PROVE  \E f \in [S -> 1 .. Cardinality(S)] : \A x, y \in S : f[x] = f[y] => x = y
<1> DEFINE n == Cardinality(S)
<1>1. n \in Nat /\ ExistsBijection(1 .. n, S)
  BY FS_CardinalityType
<1> HIDE DEF n
<1>2. PICK b \in Bijection(1 .. n, S) : TRUE
  BY <1>1 DEF ExistsBijection
<1>3. b \in [1 .. n -> S] /\ \A x \in S : \E i \in 1 .. n : b[i] = x
  BY <1>2 DEF Bijection, Surjection, Injection
<1> DEFINE f == [x \in S |-> CHOOSE i \in 1 .. n : b[i] = x]
<1>4. \A x \in S : f[x] \in 1 .. n /\ b[f[x]] = x
  BY <1>3
<1>5. f \in [S -> 1 .. n]
  BY <1>4
<1> HIDE DEF f
<1>6. \A x, y \in S : f[x] = f[y] => x = y
  BY <1>4
<1> QED
  BY <1>5, <1>6 DEF n

(* Every object can be given a number that no object of its age shares.     *)
LEMMA Naming ==
  ASSUME NEW s \in Seq(TrackObj)
  PROVE  \E num \in [DOMAIN s -> Nat] :
           /\ \A k \in DOMAIN s : num[k] \in 1 .. Cardinality(Aged(s, s[k].unseen))
           /\ \A j, k \in DOMAIN s : s[j].unseen = s[k].unseen /\ num[j] = num[k] => j = k
<1> DEFINE Numbers(v, f) ==
             /\ f \in [Aged(s, v) -> 1 .. Cardinality(Aged(s, v))]
             /\ \A x, y \in Aged(s, v) : f[x] = f[y] => x = y
           number == [v \in 0 .. MaxUnseen |-> CHOOSE f : Numbers(v, f)]
           num    == [k \in DOMAIN s |-> number[s[k].unseen][k]]
<1>1. ASSUME NEW v \in 0 .. MaxUnseen
      PROVE  Numbers(v, number[v])
  <2>1. \E f : Numbers(v, f)
    BY AgedFinite, Numbering
  <2>2. number[v] = CHOOSE f : Numbers(v, f)
    OBVIOUS
  <2> HIDE DEF Numbers, number
  <2> QED
    BY <2>1, <2>2
<1>2. \A k \in DOMAIN s : s[k].unseen \in 0 .. MaxUnseen /\ k \in Aged(s, s[k].unseen)
  <2>1. \A k \in DOMAIN s : s[k] \in TrackObj
    OBVIOUS
  <2> QED
    BY <2>1 DEF TrackObj, Aged
<1> HIDE DEF number
<1>3. \A k \in DOMAIN s : num[k] \in 1 .. Cardinality(Aged(s, s[k].unseen))
  BY <1>1, <1>2
<1>4. \A v : Cardinality(Aged(s, v)) \in Nat
  BY AgedFinite
<1>5. num \in [DOMAIN s -> Nat]
  <2>1. \A k \in DOMAIN s : num[k] \in Nat
    BY <1>3, <1>4
  <2> QED
    BY <2>1
<1>6. ASSUME NEW j \in DOMAIN s, NEW k \in DOMAIN s, s[j].unseen = s[k].unseen, num[j] = num[k]
      PROVE  j = k
  <2> DEFINE v == s[k].unseen
  <2>1. v \in 0 .. MaxUnseen /\ j \in Aged(s, v) /\ k \in Aged(s, v)
    BY <1>2, <1>6
  <2>2. number[v][j] = number[v][k]
    BY <1>6
  <2> QED
    BY <1>1, <2>1, <2>2
<1> HIDE DEF num
<1> QED
  BY <1>3, <1>5, <1>6

(* There are no more objects than ages and blobs of a frame: an object is   *)
(* told by its age and its number among the objects of that age.            *)
LEMMA InvBounds == ASSUME TrackerInv PROVE ObjectsBounded
<1>1. objects \in Seq(TrackObj) /\ MaxBlobs \in Nat /\ MaxUnseen \in Nat
  BY TrackerAssumption DEF TrackerInv, TypeOK
<1>2. PICK num \in [DOMAIN objects -> Nat] :
        /\ \A k \in DOMAIN objects : num[k] \in 1 .. Cardinality(Aged(objects, objects[k].unseen))
        /\ \A j, k \in DOMAIN objects :
             objects[j].unseen = objects[k].unseen /\ num[j] = num[k] => j = k
  BY <1>1, Naming
<1> DEFINE Names == (0 .. MaxUnseen) \X (1 .. MaxBlobs)
           name  == [k \in DOMAIN objects |-> <<objects[k].unseen, num[k]>>]
<1>3. \A k \in DOMAIN objects : objects[k].unseen \in 0 .. MaxUnseen /\ num[k] \in 1 .. MaxBlobs
  <2> SUFFICES ASSUME NEW k \in DOMAIN objects
               PROVE  objects[k].unseen \in 0 .. MaxUnseen /\ num[k] \in 1 .. MaxBlobs
    OBVIOUS
  <2>1. objects[k].unseen \in 0 .. MaxUnseen
    <3>1. objects[k] \in TrackObj
      BY <1>1
    <3> QED
      BY <3>1 DEF TrackObj
  <2>2. Cardinality(Aged(objects, objects[k].unseen)) <= MaxBlobs
    BY <2>1 DEF TrackerInv
  <2>3. Cardinality(Aged(objects, objects[k].unseen)) \in Nat
    BY <1>1, AgedFinite
  <2> QED
    BY <1>1, <1>2, <2>1, <2>2, <2>3
<1>4. name \in [DOMAIN objects -> Names]
  BY <1>3
<1>5. \A j, k \in DOMAIN objects : name[j] = name[k] => j = k
  BY <1>2
<1>6. IsFiniteSet(0 .. MaxUnseen) /\ Cardinality(0 .. MaxUnseen) = MaxUnseen + 1
  BY <1>1, FS_Interval
<1>7. IsFiniteSet(1 .. MaxBlobs) /\ Cardinality(1 .. MaxBlobs) = MaxBlobs
  BY <1>1, FS_Interval
<1>8. IsFiniteSet(Names) /\ Cardinality(Names) = (MaxUnseen + 1) * MaxBlobs
  <2>1. /\ IsFiniteSet(Names)
        /\ Cardinality(Names) = Cardinality(0 .. MaxUnseen) * Cardinality(1 .. MaxBlobs)
    BY <1>6, <1>7, FS_Product
  <2> QED
    BY <1>6, <1>7, <2>1
<1> HIDE DEF Names, name
<1>9. name \in Injection(DOMAIN objects, Names)
  BY <1>4, <1>5 DEF Injection, IsInjective
<1>10. Cardinality(DOMAIN objects) <= Cardinality(Names)
  BY <1>8, <1>9, FS_Injection
<1>11. Cardinality(DOMAIN objects) = Len(objects)
  BY <1>1, FS_Interval
<1> QED
  BY <1>8, <1>10, <1>11 DEF ObjectsBounded

(* The vector never holds more than MaxBlobs objects of every age.          *)
THEOREM TrackerBounded == Spec => []ObjectsBounded
<1>1. TrackerInv => ObjectsBounded
  BY InvBounds
<1> QED
  BY <1>1, TrackerInvariant, PTL

-------------------------------------------------------------------------------
(***************************************************************************)
(* A scene where nothing moves.  The predictions are then the places of    *)
(* the blobs, up to the fractions of a pixel that a prediction loses.      *)
(***************************************************************************)
(* Whole pixels of a number that is not negative.                           *)
LEMMA WholePixels ==
  ASSUME NEW p \in Nat
  PROVE  /\ Truncate(p) \in Nat
         /\ Truncate(p) <= p
         /\ p - Truncate(p) < PixelUnits
         /\ \E d \in Nat : Truncate(p) = d * PixelUnits /\ d = p \div PixelUnits
<1>1. PixelUnits \in Nat \ {0}
  BY TrackerAssumption
<1>2. PICK d \in Nat, r \in 0 .. PixelUnits - 1 : d = p \div PixelUnits /\ p = PixelUnits * d + r
  BY <1>1, DivMod
<1>3. Truncate(p) = d * PixelUnits
  BY <1>2 DEF Truncate
<1>4. PICK t \in Nat : t = PixelUnits * d
  BY <1>1, <1>2
<1>5. d * PixelUnits = PixelUnits * d
  BY <1>1
<1>6. p = t + r
  BY <1>2, <1>4
<1>7. t <= p /\ p - t < PixelUnits
  BY <1>1, <1>6
<1> QED
  BY <1>2, <1>3, <1>4, <1>5, <1>7

(* Truncation keeps the order, and keeps what is whole already.             *)
LEMMA TruncateMonotone ==
  ASSUME NEW p \in Nat, NEW q \in Nat, p <= q
  PROVE  Truncate(p) <= Truncate(q)
<1>1. PixelUnits \in Nat \ {0}
  BY TrackerAssumption
<1>2. PICK d \in Nat : Truncate(p) = d * PixelUnits /\ d = p \div PixelUnits
  BY WholePixels
<1>3. PICK e \in Nat : Truncate(q) = e * PixelUnits /\ e = q \div PixelUnits
  BY WholePixels
<1>4. d <= e
  BY <1>1, <1>2, <1>3
<1>5. \A u \in Nat : d * u <= e * u
  <2> SUFFICES ASSUME NEW u \in Nat PROVE d * u <= e * u
    OBVIOUS
  <2>1. PICK k \in Nat : e = d + k
    <3>1. e - d \in Nat /\ e = d + (e - d)
      BY <1>4
    <3> QED
      BY <3>1
  <2>2. e * u = d * u + k * u /\ k * u \in Nat /\ d * u \in Nat
    BY <2>1
  <2> QED
    BY <2>2
<1> QED
  BY <1>1, <1>2, <1>3, <1>5

LEMMA TruncateTwice ==
  ASSUME NEW p \in Nat
  PROVE  Truncate(Truncate(p)) = Truncate(p)
<1> DEFINE P == PixelUnits
           t == Truncate(p)
<1>1. P \in Nat \ {0}
  BY TrackerAssumption
<1>2. PICK d \in Nat : t = d * P
  BY WholePixels
<1>3. t \in Nat
  BY WholePixels
<1>4. PICK e \in Nat : Truncate(t) = e * P /\ e = t \div P
  BY <1>3, WholePixels
<1> HIDE DEF P, t
<1>5. e = d
  BY <1>1, <1>2, <1>4
<1> QED
  BY <1>2, <1>4, <1>5 DEF t

(* The cost of a distance, and when it is the difference of two labels.     *)
LEMMA DistanceCost ==
  ASSUME NEW u \in Nat \ {0}, NEW x \in Int, NEW y \in Int
  PROVE  /\ -(u * AbsDiff(x, y)) \in Int /\ -(u * x) \in Int /\ u * y \in Int
         /\ -(u * AbsDiff(x, y)) <= -(u * x) + u * y
         /\ -(u * AbsDiff(x, y)) = -(u * x) + u * y <=> y <= x
<1>1. \A d \in Int : u * d \in Int
  OBVIOUS
<1>2. u * (y - x) = u * y - u * x /\ u * (x - y) = u * x - u * y
  OBVIOUS
<1>3. CASE x < y
  <2>1. AbsDiff(x, y) = y - x
    BY <1>3 DEF AbsDiff
  <2>2. PICK d \in Nat \ {0} : d = y - x
    BY <1>3
  <2>3. u * d \in Nat \ {0}
    BY <2>2
  <2>4. u * AbsDiff(x, y) = u * d /\ u * y - u * x = u * d
    BY <1>2, <2>1, <2>2
  <2> QED
    BY <1>1, <1>3, <2>3, <2>4
<1>4. CASE y <= x
  <2>1. AbsDiff(x, y) = x - y
    BY <1>4 DEF AbsDiff
  <2>2. u * AbsDiff(x, y) = u * x - u * y
    BY <1>2, <2>1
  <2> QED
    BY <1>1, <1>4, <2>2
<1> QED
  BY <1>3, <1>4

(***************************************************************************)
(* The pairing of a scene where nothing moved.  If blob i can be paired    *)
(* with a prediction at goal[i], not beyond the blob, and no prediction    *)
(* lies between the two, then the pairing of least distance puts every     *)
(* blob to a prediction at its goal.                                       *)
(***************************************************************************)
Distances(ms, q, D) == [i \in D |-> [k \in D |-> -(UnitCost * AbsDiff(ms[i], q[k]))]]

LEMMA StillPairing ==
  ASSUME NEW D, IsFiniteSet(D), UnitCost \in Nat \ {0},
         NEW ms \in [D -> Int], NEW q \in [D -> Int], NEW goal \in [D -> Int],
         NEW b \in Injection(D, D),
         \A i \in D : q[b[i]] = goal[i] /\ goal[i] <= ms[i],
         \A i, k \in D : q[k] <= ms[i] => q[k] <= goal[i],
         NEW a \in MaxCostAssignments(Distances(ms, q, D))
  PROVE  \A i \in D : q[a[i]] = goal[i]
<1> DEFINE cost == Distances(ms, q, D)
           lx   == [i \in D |-> -(UnitCost * ms[i])]
           ly   == [k \in D |-> UnitCost * q[k]]
<1>1. ASSUME NEW i \in D, NEW k \in D
      PROVE  /\ cost[i][k] = -(UnitCost * AbsDiff(ms[i], q[k]))
             /\ cost[i][k] \in Int /\ lx[i] \in Int /\ ly[k] \in Int
             /\ cost[i][k] <= lx[i] + ly[k]
             /\ cost[i][k] = lx[i] + ly[k] <=> q[k] <= ms[i]
  <2>1. cost[i][k] = -(UnitCost * AbsDiff(ms[i], q[k])) /\ lx[i] = -(UnitCost * ms[i]) /\ ly[k] = UnitCost * q[k]
    BY DEF Distances
  <2>2. ms[i] \in Int /\ q[k] \in Int
    OBVIOUS
  <2>3. /\ -(UnitCost * AbsDiff(ms[i], q[k])) \in Int
        /\ -(UnitCost * ms[i]) \in Int /\ UnitCost * q[k] \in Int
        /\ -(UnitCost * AbsDiff(ms[i], q[k])) <= -(UnitCost * ms[i]) + UnitCost * q[k]
        /\ -(UnitCost * AbsDiff(ms[i], q[k])) = -(UnitCost * ms[i]) + UnitCost * q[k] <=> q[k] <= ms[i]
    BY <2>2, DistanceCost
  <2> HIDE DEF cost, lx, ly
  <2> QED
    BY <2>1, <2>3, Zenon
<1>2. cost \in [D -> [D -> Int]] /\ DOMAIN cost = D /\ lx \in [D -> Int] /\ ly \in [D -> Int]
  <2>1. \A i \in D, k \in D : -(UnitCost * AbsDiff(ms[i], q[k])) \in Int /\ -(UnitCost * ms[i]) \in Int /\ UnitCost * q[k] \in Int
    BY DistanceCost
  <2> QED
    BY <2>1 DEF Distances
<1> HIDE DEF cost, lx, ly
<1>3. Feasible(cost, lx, ly, D)
  BY <1>1 DEF Feasible
<1>4. PICK m, n : IsSum(m, lx, D) /\ IsSum(n, ly, D)
  BY <1>2, SumExists
<1>5. ASSUME NEW c \in Injection(D, D)
      PROVE  /\ Total(cost, c) \in Int /\ Total(cost, c) <= m[D] + n[D]
             /\ Total(cost, c) = m[D] + n[D] <=> Tight(cost, lx, ly, c, D)
  <2>1. PICK C, u, v : C = cost /\ u = lx /\ v = ly
    OBVIOUS
  <2>2. C \in [D -> [D -> Int]] /\ u \in [D -> Int] /\ v \in [D -> Int]
    BY <1>2, <2>1
  <2>3. IsSum(m, u, D) /\ IsSum(n, v, D) /\ Feasible(C, u, v, D)
    BY <1>3, <1>4, <2>1
  <2>4. /\ Total(C, c) \in Int
        /\ Total(C, c) <= m[D] + n[D]
        /\ Total(C, c) = m[D] + n[D] <=> Tight(C, u, v, c, D)
    BY <2>2, <2>3, TotalInLabels
  <2> QED
    BY <2>1, <2>4
<1>6. a \in [D -> D] /\ b \in [D -> D] /\ (\A i, j \in D : a[i] = a[j] => i = j) /\ (\A i, j \in D : b[i] = b[j] => i = j)
      /\ a \in Injection(D, D)
  <2>1. a \in Injection(D, D)
    BY <1>2 DEF MaxCostAssignments, cost
  <2> QED
    BY <2>1 DEF Injection, IsInjective
<1>7. Tight(cost, lx, ly, b, D)
  BY <1>1, <1>6 DEF Tight
<1>8. Total(cost, b) = m[D] + n[D]
  BY <1>5, <1>7
<1>9. Total(cost, a) = Total(cost, b)
  <2>1. \A c \in Injection(DOMAIN cost, DOMAIN cost) : Total(cost, c) \in Int /\ Total(cost, c) <= Total(cost, b)
    BY <1>2, <1>5, <1>8
  <2>2. b \in Injection(DOMAIN cost, DOMAIN cost)
    BY <1>2
  <2>3. MaxCostAssignments(cost) = {c \in Injection(DOMAIN cost, DOMAIN cost) : Total(cost, c) = Total(cost, b)}
    BY <2>1, <2>2, BestTotal
  <2>4. a \in MaxCostAssignments(cost)
    BY DEF cost
  <2> QED
    BY <2>3, <2>4
<1>10. Tight(cost, lx, ly, a, D)
  BY <1>5, <1>6, <1>8, <1>9
<1>11. \A i \in D : q[a[i]] <= goal[i]
  <2> SUFFICES ASSUME NEW i \in D PROVE q[a[i]] <= goal[i]
    OBVIOUS
  <2>1. a[i] \in D
    BY <1>6
  <2>2. cost[i][a[i]] = lx[i] + ly[a[i]]
    BY <1>10 DEF Tight
  <2> QED
    BY <1>1, <2>1, <2>2
<1> DEFINE qa   == [i \in D |-> q[a[i]]]
           zero == [i \in D |-> 0]
           none == [s \in SUBSET D |-> 0]
<1>12. qa \in [D -> Int] /\ zero \in [D -> Int] /\ IsSum(none, zero, D)
  <2>1. IsSum(none, zero, D)
    BY DEF IsSum
  <2> QED
    BY <1>6, <2>1
<1>13. PICK t : IsSum(t, q, D)
  BY SumExists
<1>14. ASSUME NEW c \in Injection(D, D), NEW terms, \A i \in D : terms[i] = q[c[i]]
       PROVE  /\ IsSum(PairedSum(none, t, c, D), terms, D)
              /\ PairedSum(none, t, c, D)[D] = t[D]
  <2>1. c \in [D -> D] /\ \A i, j \in D : c[i] = c[j] => i = j
    BY DEF Injection, IsInjective
  <2>2. \A i \in D : terms[i] = zero[i] + q[c[i]]
    BY <1>14, <2>1
  <2>3. IsSum(PairedSum(none, t, c, D), terms, D)
    <3> HIDE DEF zero, none
    <3> QED
      BY <1>12, <1>13, <2>1, <2>2, SumPaired
  <2>4. {c[i] : i \in D} = D
    <3>1. c \in Surjection(D, D)
      BY FS_Injection
    <3> QED
      BY <3>1 DEF Surjection
  <2>5. PairedSum(none, t, c, D)[D] = none[D] + t[{c[i] : i \in D}]
    BY DEF PairedSum
  <2>6. none[D] = 0 /\ t[D] \in Int
    BY <1>13 DEF IsSum
  <2>7. PairedSum(none, t, c, D)[D] = none[D] + t[D]
    BY <2>4, <2>5, Zenon
  <2> QED
    BY <2>3, <2>6, <2>7
<1> DEFINE sa == PairedSum(none, t, a, D)
           sb == PairedSum(none, t, b, D)
<1>15. IsSum(sa, qa, D) /\ IsSum(sb, goal, D) /\ sa[D] = t[D] /\ sb[D] = t[D] /\ t[D] \in Int
  <2>1. \A i \in D : goal[i] = q[b[i]]
    OBVIOUS
  <2>2. \A i \in D : qa[i] = q[a[i]]
    OBVIOUS
  <2>3. t[D] \in Int
    BY <1>13 DEF IsSum
  <2> HIDE DEF qa, none
  <2> QED
    BY <1>6, <1>14, <2>1, <2>2, <2>3
<1>16. sb[D] <= sa[D]
  BY <1>15
<1>17. \A i \in D : qa[i] <= goal[i]
  BY <1>11
<1> HIDE DEF sa, sb
<1>18. \A i \in D : qa[i] = goal[i]
  <2> HIDE DEF qa
  <2> QED
    BY <1>12, <1>15, <1>16, <1>17, SumsEqual
<1> QED
  BY <1>18

(* A pairing can be read in both directions.                                *)
LEMMA BijectionInverse ==
  ASSUME NEW A, NEW B, NEW f \in Bijection(A, B)
  PROVE  \E h \in Bijection(B, A) : (\A x \in A : h[f[x]] = x) /\ (\A y \in B : f[h[y]] = y)
<1> DEFINE h == [y \in B |-> CHOOSE x \in A : f[x] = y]
<1>1. /\ f \in [A -> B] /\ \A i, j \in A : f[i] = f[j] => i = j
      /\ \A y \in B : \E x \in A : f[x] = y
  BY DEF Bijection, Injection, Surjection, IsInjective
<1>2. \A y \in B : h[y] \in A /\ f[h[y]] = y
  BY <1>1
<1>3. h \in [B -> A]
  BY <1>2
<1> HIDE DEF h
<1>4. \A x \in A : h[f[x]] = x
  BY <1>1, <1>2
<1>5. h \in Bijection(B, A)
  BY <1>1, <1>2, <1>3, <1>4 DEF Bijection, Injection, Surjection, IsInjective
<1> QED
  BY <1>2, <1>4, <1>5

(* One pairing after another is a pairing.                                  *)
LEMMA BijectionChain ==
  ASSUME NEW A, NEW B, NEW C, NEW f \in Bijection(A, B), NEW g \in Bijection(B, C)
  PROVE  \E h \in Bijection(A, C) : \A x \in A : h[x] = g[f[x]]
<1> DEFINE h == [x \in A |-> g[f[x]]]
<1>1. /\ f \in [A -> B] /\ \A i, j \in A : f[i] = f[j] => i = j
      /\ \A y \in B : \E x \in A : f[x] = y
  BY DEF Bijection, Injection, Surjection, IsInjective
<1>2. /\ g \in [B -> C] /\ \A i, j \in B : g[i] = g[j] => i = j
      /\ \A y \in C : \E x \in B : g[x] = y
  BY DEF Bijection, Injection, Surjection, IsInjective
<1>3. h \in [A -> C] /\ \A x \in A : h[x] = g[f[x]]
  BY <1>1, <1>2
<1> HIDE DEF h
<1>4. \A y \in C : \E x \in A : h[x] = y
  <2> SUFFICES ASSUME NEW y \in C PROVE \E x \in A : h[x] = y
    OBVIOUS
  <2>1. PICK z \in B : g[z] = y
    BY <1>2
  <2>2. PICK x \in A : f[x] = z
    BY <1>1, <2>1
  <2> QED
    BY <1>3, <2>1, <2>2
<1>5. \A i, j \in A : h[i] = h[j] => i = j
  BY <1>1, <1>2, <1>3
<1>6. h \in Bijection(A, C)
  BY <1>3, <1>4, <1>5 DEF Bijection, Injection, Surjection, IsInjective
<1> QED
  BY <1>3, <1>6

(* Scenes with the same centroids are one another in a different order.     *)
LEMMA SameSceneMatching ==
  ASSUME scene \in Scenes, NEW ms \in Scenes, SameScene(ms)
  PROVE  \E s \in Bijection(DOMAIN ms, DOMAIN scene) : \A i \in DOMAIN ms : scene[s[i]] = ms[i]
<1> DEFINE At(sc, p) == {i \in DOMAIN sc : sc[i] = p}
           h == [p \in Spots |-> CHOOSE f : f \in Bijection(At(ms, p), At(scene, p))]
           s == [i \in DOMAIN ms |-> h[ms[i]][i]]
<1>1. \A sc \in Scenes : /\ IsFiniteSet(DOMAIN sc)
                         /\ \A i \in DOMAIN sc : sc[i] \in Spots
  <2> SUFFICES ASSUME NEW sc \in Scenes
               PROVE IsFiniteSet(DOMAIN sc) /\ \A i \in DOMAIN sc : sc[i] \in Spots
    OBVIOUS
  <2>1. PICK n \in 0 .. MaxBlobs : sc \in [1 .. n -> Spots]
    BY DEF Scenes
  <2>2. n \in Nat
    BY TrackerAssumption
  <2> QED
    BY <2>1, <2>2, FS_Interval
<1>2. \A p \in Spots : h[p] \in Bijection(At(ms, p), At(scene, p))
  <2> SUFFICES ASSUME NEW p \in Spots PROVE h[p] \in Bijection(At(ms, p), At(scene, p))
    OBVIOUS
  <2>1. IsFiniteSet(At(ms, p)) /\ IsFiniteSet(At(scene, p))
    BY <1>1, FS_Subset
  <2>2. Cardinality(At(ms, p)) = Cardinality(At(scene, p))
    BY DEF SameScene, Occurrences
  <2> HIDE DEF At
  <2>3. ExistsBijection(At(ms, p), At(scene, p))
    BY <2>1, <2>2, FS_SameCardinalityBij
  <2> QED
    BY <2>3 DEF ExistsBijection
<1> HIDE DEF h
<1>3. \A p \in Spots :
        /\ \A i \in At(ms, p) : h[p][i] \in At(scene, p)
        /\ \A i, j \in At(ms, p) : h[p][i] = h[p][j] => i = j
        /\ \A t \in At(scene, p) : \E i \in At(ms, p) : h[p][i] = t
  <2> SUFFICES ASSUME NEW p \in Spots
               PROVE /\ \A i \in At(ms, p) : h[p][i] \in At(scene, p)
                     /\ \A i, j \in At(ms, p) : h[p][i] = h[p][j] => i = j
                     /\ \A t \in At(scene, p) : \E i \in At(ms, p) : h[p][i] = t
    OBVIOUS
  <2>1. h[p] \in Bijection(At(ms, p), At(scene, p))
    BY <1>2
  <2> HIDE DEF At
  <2> QED
    BY <2>1 DEF Bijection, Injection, Surjection, IsInjective
<1>4. \A i \in DOMAIN ms : i \in At(ms, ms[i]) /\ ms[i] \in Spots
  BY <1>1
<1>5. \A i \in DOMAIN ms : s[i] \in DOMAIN scene /\ scene[s[i]] = ms[i]
  BY <1>3, <1>4
<1>6. \A i, j \in DOMAIN ms : s[i] = s[j] => i = j
  <2> SUFFICES ASSUME NEW i \in DOMAIN ms, NEW j \in DOMAIN ms, s[i] = s[j] PROVE i = j
    OBVIOUS
  <2>1. ms[i] = ms[j]
    BY <1>5
  <2>2. i \in At(ms, ms[i]) /\ j \in At(ms, ms[i]) /\ ms[i] \in Spots
    BY <1>4, <2>1
  <2>3. h[ms[i]][i] = h[ms[i]][j]
    BY <2>1
  <2> HIDE DEF At, s
  <2> QED
    BY <1>3, <2>2, <2>3
<1>7. \A t \in DOMAIN scene : \E i \in DOMAIN ms : s[i] = t
  <2> SUFFICES ASSUME NEW t \in DOMAIN scene PROVE \E i \in DOMAIN ms : s[i] = t
    OBVIOUS
  <2>1. scene[t] \in Spots /\ t \in At(scene, scene[t])
    BY <1>1
  <2>2. PICK i \in At(ms, scene[t]) : h[scene[t]][i] = t
    BY <1>3, <2>1
  <2> QED
    BY <2>2
<1>8. s \in [DOMAIN ms -> DOMAIN scene]
  BY <1>5
<1> HIDE DEF s
<1>9. s \in Bijection(DOMAIN ms, DOMAIN scene)
  BY <1>6, <1>7, <1>8 DEF Bijection, Injection, Surjection, IsInjective
<1> QED
  BY <1>5, <1>9

(* An object of a scene where nothing moves: it is at a place p, and its    *)
(* filter, too, once the filter is asked.                                   *)
OnPlace(o, p) ==
  /\ o.unseen = 0 /\ o.vel = 0
  /\ IF o.fresh THEN o.last = p /\ o.pre = Truncate(p) /\ o.blind
                ELSE o.post \in Nat /\ Truncate(o.post) = Truncate(p)

(* Where the object is then predicted.                                      *)
Foreseen(fresh, p) == IF fresh THEN p ELSE Truncate(p)

LEMMA ForeseenBelow ==
  ASSUME NEW fresh \in BOOLEAN, NEW p \in Nat
  PROVE  /\ Foreseen(fresh, p) \in Nat /\ Foreseen(fresh, p) <= p
         /\ p - Foreseen(fresh, p) < PixelUnits
         /\ \A r \in Nat : Foreseen(fresh, r) <= p => Foreseen(fresh, r) <= Foreseen(fresh, p)
<1>1. PixelUnits \in Nat \ {0}
  BY TrackerAssumption
<1>2. CASE fresh
  BY <1>1, <1>2 DEF Foreseen
<1>3. CASE ~fresh
  <2>1. Truncate(p) \in Nat /\ Truncate(p) <= p /\ p - Truncate(p) < PixelUnits
    BY WholePixels
  <2>2. ASSUME NEW r \in Nat, Truncate(r) <= p PROVE Truncate(r) <= Truncate(p)
    <3>1. Truncate(r) \in Nat
      BY WholePixels
    <3>2. Truncate(Truncate(r)) <= Truncate(p)
      BY <2>2, <3>1, TruncateMonotone
    <3> QED
      BY <3>2, TruncateTwice
  <2> QED
    BY <1>3, <2>1, <2>2 DEF Foreseen
<1> QED
  BY <1>2, <1>3

LEMMA StillPrediction ==
  ASSUME NEW o \in TrackObj, NEW p \in Nat, OnPlace(o, p)
  PROVE  /\ Predict(o).last = Foreseen(o.fresh, p) /\ Predict(o).vel = 0
         /\ ~Predict(o).fresh
         /\ o.fresh => Predict(o).blind /\ Predict(o).pre = Truncate(p)
         /\ ~o.fresh => /\ ~Predict(o).blind /\ Predict(o).pre \in Nat
                        /\ Truncate(Predict(o).pre) = Truncate(p)
<1>1. CASE o.fresh
  BY <1>1 DEF OnPlace, Predict, Foreseen, TrackObj
<1>2. CASE ~o.fresh
  <2>1. o.post + o.vel = o.post /\ o.post \in Nat /\ Truncate(o.post) = Truncate(p)
    BY <1>2 DEF OnPlace
  <2> QED
    BY <1>2, <2>1 DEF OnPlace, Predict, Foreseen, TrackObj
<1> QED
  BY <1>1, <1>2

(* What can be said of a filter when nothing moves: that it estimates no    *)
(* motion, or that places are whole pixels.                                 *)
Restful == Speeds = {0} \/ PixelUnits = 1

LEMMA StillCorrection ==
  ASSUME Restful, NEW o \in TrackObj, NEW p \in Nat, OnPlace(o, p),
         NEW m \in Nat, Foreseen(o.fresh, m) = Foreseen(o.fresh, p),
         NEW c \in Corrected(Predict(o), m)
  PROVE  OnPlace(c, m) /\ ~c.fresh /\ c \in TrackObj
<1> DEFINE w == Predict(o)
<1>1. w \in Aging
  BY PredictType
<1>2. c \in TrackObj /\ c.unseen = 0
  BY <1>1, CorrectedType
<1>3. \A x, v : LET s == Sighted(w, x, v) IN s.post = x /\ s.vel = v /\ s.unseen = 0 /\ s.fresh = w.fresh
  BY <1>1 DEF Sighted, Aging
<1>4. ~w.fresh /\ w.vel = 0
  BY StillPrediction
<1>5. CASE o.fresh
  <2>1. w.blind /\ w.pre = Truncate(m)
    BY <1>5, StillPrediction DEF Foreseen
  <2> HIDE DEF w
  <2>2. c = Sighted(w, Truncate(m), 0)
    BY <2>1 DEF Corrected, w
  <2>3. Truncate(m) \in Nat /\ Truncate(Truncate(m)) = Truncate(m)
    BY WholePixels, TruncateTwice
  <2> QED
    BY <1>2, <1>3, <1>4, <2>2, <2>3 DEF OnPlace
<1>6. CASE ~o.fresh
  <2>1. ~w.blind /\ w.pre \in Nat /\ Truncate(w.pre) = Truncate(m)
    BY <1>6, StillPrediction DEF Foreseen
  <2> HIDE DEF w
  <2>2. PICK x \in Between(w.pre, m), v \in Speeds \cap Between(w.vel, w.vel + m - w.pre) : c = Sighted(w, x, v)
    BY <2>1 DEF Corrected, w
  <2>3. x \in Nat /\ ((w.pre <= x /\ x <= m) \/ (m <= x /\ x <= w.pre))
    BY <2>1 DEF Between
  <2>4. Truncate(x) = Truncate(m)
    <3>1. Truncate(w.pre) \in Nat /\ Truncate(x) \in Nat /\ Truncate(m) \in Nat
      BY <2>1, <2>3, WholePixels
    <3>2. CASE w.pre <= x /\ x <= m
      <4>1. Truncate(w.pre) <= Truncate(x) /\ Truncate(x) <= Truncate(m)
        BY <2>1, <2>3, <3>2, TruncateMonotone
      <4> QED
        BY <2>1, <3>1, <4>1
    <3>3. CASE m <= x /\ x <= w.pre
      <4>1. Truncate(m) <= Truncate(x) /\ Truncate(x) <= Truncate(w.pre)
        BY <2>1, <2>3, <3>3, TruncateMonotone
      <4> QED
        BY <2>1, <3>1, <4>1
    <3> QED
      BY <2>3, <3>2, <3>3
  <2>5. v = 0
    <3>1. CASE Speeds = {0}
      BY <2>2, <3>1
    <3>2. CASE PixelUnits = 1
      <4>1. /\ Truncate(w.pre) <= w.pre /\ w.pre - Truncate(w.pre) < PixelUnits /\ Truncate(w.pre) \in Nat
            /\ Truncate(m) <= m /\ m - Truncate(m) < PixelUnits
        BY <2>1, WholePixels
      <4>2. w.pre = m
        BY <2>1, <3>2, <4>1
      <4>3. w.vel + m - w.pre = 0
        BY <1>4, <2>1, <4>2 DEF w
      <4> QED
        BY <1>4, <2>2, <4>3 DEF Between, w
    <3> QED
      BY <3>1, <3>2 DEF Restful
  <2> QED
    BY <1>2, <1>3, <1>4, <2>2, <2>3, <2>4, <2>5 DEF OnPlace
<1> QED
  BY <1>5, <1>6

(* As many blobs as predictions: there are distances only in the matrix.    *)
LEMMA SquareDistances ==
  ASSUME NEW n \in Nat, NEW ms, NEW predicted, Len(ms) = n, Len(predicted) = n
  PROVE  DistanceMatrix(ms, predicted) = Distances(ms, [k \in 1 .. n |-> predicted[k].last], 1 .. n)
<1>1. Larger(n, n) = n
  BY DEF Larger
<1>2. \A i, j \in 1 .. n : ~(i > n \/ j > n)
  OBVIOUS
<1> QED
  BY <1>1, <1>2 DEF DistanceMatrix, Distances

(* Nothing is left over when every blob is near: no object is new.          *)
LEMMA NoneNewborn ==
  ASSUME NEW ms
  PROVE  Newborn(ms, {}) = <<>>
<1>1. IsFiniteSet({}) /\ Cardinality({}) = 0 /\ {} \in SUBSET Nat
  BY FS_EmptySet
<1>2. DOMAIN Picked(ms, {}) = 1 .. 0
  BY <1>1, PickedPlaces
<1>3. 1 .. 0 = {}
  OBVIOUS
<1> QED
  BY <1>2, <1>3 DEF Newborn

(* Nobody is lost when everybody was sighted: the order is all that changes.*)
LEMMA AllSurvive ==
  ASSUME NEW n \in Nat, NEW after, DOMAIN after = 1 .. n,
         \A k \in 1 .. n : after[k] \in TrackObj
  PROVE  /\ Survivors(after) \in Seq(TrackObj) /\ DOMAIN Survivors(after) = 1 .. n
         /\ \E f \in Bijection(1 .. n, 1 .. n) : \A i \in 1 .. n : Survivors(after)[i] = after[f[i]]
<1>1. {k \in DOMAIN after : ~ObjectIsLost(after[k])} = 1 .. n
  <2>1. \A k \in 1 .. n : after[k].unseen \in 0 .. MaxUnseen
    BY DEF TrackObj
  <2> QED
    BY <2>1, TrackerAssumption DEF ObjectIsLost
<1>2. IsFiniteSet(1 .. n) /\ Cardinality(1 .. n) = n /\ 1 .. n \in SUBSET Nat
  BY FS_Interval
<1> DEFINE f == InOrder(1 .. n)
<1>3. /\ f \in [1 .. n -> 1 .. n]
      /\ \A i, j \in 1 .. n : f[i] = f[j] => i = j
      /\ \A k \in 1 .. n : \E i \in 1 .. n : f[i] = k
  BY <1>2, InOrderLists
<1>4. Survivors(after) = [i \in 1 .. n |-> after[f[i]]]
  BY <1>1, <1>2 DEF Survivors, Picked
<1> HIDE DEF f
<1>5. f \in Bijection(1 .. n, 1 .. n)
  BY <1>3 DEF Bijection, Injection, Surjection, IsInjective
<1>6. \A i \in 1 .. n : after[f[i]] \in TrackObj
  BY <1>3
<1> QED
  BY <1>4, <1>5, <1>6

LEMMA StillTrack ==
  ASSUME Restful, UnitCost # 0, PixelUnits - 1 <= Tresh,
         TypeOK, NEW ms \in Scenes, Track(ms), NEW fresh \in BOOLEAN,
         NEW g \in Bijection(DOMAIN objects, DOMAIN ms),
         \A k \in DOMAIN objects : objects[k].fresh = fresh /\ OnPlace(objects[k], ms[g[k]])
  PROVE  \E f \in Bijection(DOMAIN objects', DOMAIN ms) :
           \A k \in DOMAIN objects' : ~objects'[k].fresh /\ OnPlace(objects'[k], ms[f[k]])
<1>0. PICK n \in Nat : n = Len(objects)
  BY DEF TypeOK
<1> DEFINE D         == 1 .. n
           predicted == [k \in DOMAIN objects |-> Predict(objects[k])]
           out(a)    == [k \in DOMAIN objects |-> Outcomes(ms, predicted, a, k)]
           q         == [k \in D |-> predicted[k].last]
           goal      == [i \in D |-> Foreseen(fresh, ms[i])]
<1>1. PICK a \in MaxCostAssignments(DistanceMatrix(ms, predicted)) :
        \E after \in [DOMAIN objects -> UNION Range(out(a))] :
           /\ \A k \in DOMAIN objects : after[k] \in out(a)[k]
           /\ objects' = Survivors(after) \o Newborn(ms, LeftOver(ms, predicted, a))
           /\ assignments' = a
  BY Zenon DEF Track
<1>2. PICK after \in [DOMAIN objects -> UNION Range(out(a))] :
        /\ \A k \in DOMAIN objects : after[k] \in out(a)[k]
        /\ objects' = Survivors(after) \o Newborn(ms, LeftOver(ms, predicted, a))
  BY <1>1
<1>3. DOMAIN objects = D /\ \A k \in D : objects[k] \in TrackObj
  BY <1>0 DEF TypeOK
<1>4. IsFiniteSet(D) /\ Cardinality(D) = n
  BY FS_Interval
<1>5. Len(ms) = n /\ DOMAIN ms = D /\ \A i \in D : ms[i] \in Nat
  <2>1. PICK m \in Nat : m = Len(ms) /\ DOMAIN ms = 1 .. m /\ \A i \in 1 .. m : ms[i] \in Nat
    BY SceneType
  <2>2. IsFiniteSet(1 .. m) /\ Cardinality(1 .. m) = m
    BY FS_Interval
  <2>3. ExistsBijection(D, 1 .. m)
    BY <1>3, <2>1 DEF ExistsBijection
  <2>4. Cardinality(1 .. m) = Cardinality(D)
    BY <1>4, <2>3, FS_Bijection
  <2> QED
    BY <1>4, <2>1, <2>2, <2>4
<1>6. /\ DOMAIN predicted = D /\ Len(predicted) = n
      /\ \A k \in D : predicted[k] = Predict(objects[k])
  BY <1>0, <1>3
<1>7. a \in MaxCostAssignments(Distances(ms, q, D))
  <2>1. PICK P : P = predicted
    OBVIOUS
  <2>2. Len(ms) = n /\ Len(P) = n
    BY <1>5, <1>6, <2>1
  <2>3. DistanceMatrix(ms, P) = Distances(ms, [k \in 1 .. n |-> P[k].last], 1 .. n)
    BY <2>2, SquareDistances
  <2> QED
    BY <2>1, <2>3
<1>g. g \in Bijection(D, D)
  BY <1>3, <1>5
<1>8. PICK b \in Bijection(D, D) : (\A k \in D : b[g[k]] = k) /\ (\A i \in D : g[b[i]] = i)
  <2> HIDE DEF D
  <2> QED
    BY <1>g, BijectionInverse
<1>9. /\ g \in [D -> D] /\ b \in [D -> D] /\ b \in Injection(D, D)
  BY <1>3, <1>5, <1>8 DEF Bijection, Injection
<1>10. \A k \in D : q[k] = Foreseen(fresh, ms[g[k]])
  <2> SUFFICES ASSUME NEW k \in D PROVE predicted[k].last = Foreseen(fresh, ms[g[k]])
    OBVIOUS
  <2>1. objects[k] \in TrackObj /\ ms[g[k]] \in Nat /\ OnPlace(objects[k], ms[g[k]]) /\ objects[k].fresh = fresh
    BY <1>3, <1>5, <1>9
  <2> QED
    BY <1>6, <2>1, StillPrediction
<1> HIDE DEF predicted
<1>11. ms \in [D -> Int] /\ q \in [D -> Int] /\ goal \in [D -> Int]
  <2>1. \A i \in D : Foreseen(fresh, ms[i]) \in Int
    BY <1>5, ForeseenBelow
  <2>2. \A k \in D : q[k] \in Int
    BY <1>9, <1>10, <2>1
  <2>3. ms = [i \in D |-> ms[i]]
    BY <1>5 DEF Scenes
  <2>4. \A i \in D : ms[i] \in Int
    BY <1>5
  <2> QED
    BY <2>1, <2>2, <2>3, <2>4
<1>12. \A i \in D : q[b[i]] = goal[i] /\ goal[i] <= ms[i]
  <2> SUFFICES ASSUME NEW i \in D PROVE q[b[i]] = goal[i] /\ goal[i] <= ms[i]
    OBVIOUS
  <2>1. b[i] \in D /\ g[b[i]] = i /\ ms[i] \in Nat
    BY <1>5, <1>8, <1>9
  <2>2. q[b[i]] = Foreseen(fresh, ms[i])
    BY <1>10, <2>1
  <2> QED
    BY <2>1, <2>2, ForeseenBelow
<1>13. \A i, k \in D : q[k] <= ms[i] => q[k] <= goal[i]
  <2> SUFFICES ASSUME NEW i \in D, NEW k \in D, q[k] <= ms[i] PROVE q[k] <= goal[i]
    OBVIOUS
  <2>1. ms[i] \in Nat /\ ms[g[k]] \in Nat
    BY <1>5, <1>9
  <2>2. q[k] = Foreseen(fresh, ms[g[k]])
    BY <1>10
  <2> HIDE DEF q
  <2> QED
    BY <2>1, <2>2, ForeseenBelow
<1>14. UnitCost \in Nat \ {0}
  BY TrackerAssumption
<1>15. \A i \in D : q[a[i]] = goal[i]
  <2>1. PICK E, Q, G : E = D /\ Q = q /\ G = goal
    OBVIOUS
  <2> HIDE DEF q, goal, D
  <2>2. IsFiniteSet(E) /\ ms \in [E -> Int] /\ Q \in [E -> Int] /\ G \in [E -> Int] /\ b \in Injection(E, E)
    BY <1>4, <1>9, <1>11, <2>1
  <2>3. \A i \in E : Q[b[i]] = G[i] /\ G[i] <= ms[i]
    BY <1>12, <2>1
  <2>4. \A i, k \in E : Q[k] <= ms[i] => Q[k] <= G[i]
    BY <1>13, <2>1
  <2>5. a \in MaxCostAssignments(Distances(ms, Q, E))
    BY <1>7, <2>1
  <2>6. \A i \in E : Q[a[i]] = G[i]
    BY <1>14, <2>2, <2>3, <2>4, <2>5, StillPairing
  <2> QED
    BY <2>1, <2>6
<1>16. a \in [D -> D] /\ (\A i, j \in D : a[i] = a[j] => i = j)
  <2>1. DOMAIN Distances(ms, q, D) = D
    BY DEF Distances
  <2>2. a \in Injection(D, D)
    BY <1>7, <2>1 DEF MaxCostAssignments
  <2> QED
    BY <2>2 DEF Injection, IsInjective
<1>17. a \in Bijection(D, D)
  <2>1. a \in Injection(D, D)
    BY <1>16 DEF Injection, IsInjective
  <2> HIDE DEF D
  <2>2. a \in Surjection(D, D)
    BY <1>4, <2>1, FS_Injection
  <2> QED
    BY <2>1, <2>2 DEF Bijection
<1>18. PICK ia \in Bijection(D, D) : (\A i \in D : ia[a[i]] = i) /\ (\A k \in D : a[ia[k]] = k)
  <2> HIDE DEF D
  <2> QED
    BY <1>17, BijectionInverse
<1>19. ia \in [D -> D]
  BY <1>18 DEF Bijection, Injection
<1>20. \A i \in D : Near(ms, predicted, a, i)
  <2> SUFFICES ASSUME NEW i \in D PROVE Near(ms, predicted, a, i)
    OBVIOUS
  <2>1. a[i] \in D /\ ms[i] \in Nat
    BY <1>5, <1>16
  <2>2. predicted[a[i]].last = Foreseen(fresh, ms[i])
    BY <1>15, <2>1
  <2>3. a[i] <= Len(predicted)
    BY <1>3, <1>6, <2>1
  <2>4. AbsDiff(predicted[a[i]].last, ms[i]) <= Tresh
    <3>1. PixelUnits \in Nat /\ Tresh \in Nat
      BY TrackerAssumption
    <3>2. PICK v \in Nat : v = Foreseen(fresh, ms[i]) /\ v <= ms[i] /\ ms[i] - v < PixelUnits
      BY <2>1, ForeseenBelow
    <3>3. AbsDiff(v, ms[i]) <= Tresh
      BY <2>1, <3>1, <3>2 DEF AbsDiff
    <3> QED
      BY <2>2, <3>2, <3>3
  <2> QED
    BY <2>3, <2>4 DEF Near
<1>21. LeftOver(ms, predicted, a) = {}
  BY <1>5, <1>20 DEF LeftOver
<1>22. ASSUME NEW k \in D
       PROVE  OnPlace(after[k], ms[ia[k]]) /\ ~after[k].fresh /\ after[k] \in TrackObj
  <2>1. after[k] \in Outcomes(ms, predicted, a, k)
    BY <1>2, <1>3
  <2>2. {i \in DOMAIN ms : a[i] = k /\ Near(ms, predicted, a, i)} = {ia[k]}
    <3>1. ia[k] \in DOMAIN ms /\ a[ia[k]] = k /\ Near(ms, predicted, a, ia[k])
      BY <1>5, <1>18, <1>19, <1>20
    <3>2. \A i \in DOMAIN ms : a[i] = k => i = ia[k]
      BY <1>5, <1>18
    <3> QED
      BY <3>1, <3>2
  <2>3. after[k] \in Corrected(predicted[k], ms[ia[k]])
    BY <2>1, <2>2 DEF Outcomes
  <2>4. /\ objects[k] \in TrackObj /\ ms[g[k]] \in Nat /\ OnPlace(objects[k], ms[g[k]])
        /\ objects[k].fresh = fresh /\ predicted[k] = Predict(objects[k]) /\ ms[ia[k]] \in Nat
    BY <1>3, <1>5, <1>6, <1>9, <1>19
  <2>5. Foreseen(fresh, ms[ia[k]]) = Foreseen(fresh, ms[g[k]])
    <3>1. ia[k] \in D /\ a[ia[k]] = k
      BY <1>18, <1>19
    <3>2. q[k] = goal[ia[k]]
      BY <1>15, <3>1
    <3> HIDE DEF q
    <3> QED
      BY <1>10, <3>1, <3>2
  <2> QED
    BY <2>3, <2>4, <2>5, StillCorrection
<1>23. DOMAIN after = D
  BY <1>2, <1>3
<1>24. PICK h \in Bijection(D, D) :
         /\ Survivors(after) \in Seq(TrackObj) /\ DOMAIN Survivors(after) = D
         /\ \A i \in D : Survivors(after)[i] = after[h[i]]
  <2>1. \A k \in 1 .. n : after[k] \in TrackObj
    BY <1>22
  <2>2. DOMAIN after = 1 .. n
    BY <1>23
  <2> QED
    BY <2>1, <2>2, AllSurvive
<1>25. objects' = Survivors(after)
  BY <1>2, <1>21, <1>24, NoneNewborn
<1>26. PICK f \in Bijection(D, D) : \A i \in D : f[i] = ia[h[i]]
  <2> HIDE DEF D
  <2> QED
    BY <1>18, <1>24, BijectionChain
<1>27. h \in [D -> D]
  BY <1>24 DEF Bijection, Injection
<1>28. \A k \in D : ~objects'[k].fresh /\ OnPlace(objects'[k], ms[f[k]])
  <2> HIDE DEF D
  <2> QED
    BY <1>22, <1>24, <1>25, <1>26, <1>27
<1>29. DOMAIN objects' = D /\ DOMAIN ms = D
  BY <1>5, <1>24, <1>25
<1> QED
  <2> HIDE DEF D
  <2> QED
    BY <1>26, <1>28, <1>29

(***************************************************************************)
(* The invariant of a scene where nothing moves: the objects are at the    *)
(* places of the blobs, one each, and have all had their first frame or    *)
(* all have not.                                                           *)
(***************************************************************************)
StillInv ==
  steady /\ initialized =>
    \E fresh \in BOOLEAN, f \in Bijection(DOMAIN objects, DOMAIN scene) :
      \A k \in DOMAIN objects : objects[k].fresh = fresh /\ OnPlace(objects[k], scene[f[k]])

LEMMA StillStep ==
  ASSUME Restful, UnitCost # 0, PixelUnits - 1 <= Tresh, TrackerInv, StillInv, [Next]_vars
  PROVE  StillInv'
<1>1. CASE UNCHANGED vars
  BY <1>1 DEF vars, StillInv
<1>2. ASSUME NEW ms \in Scenes, InitObjects(ms) PROVE StillInv'
  <2>1. scene' = ms /\ objects' = [i \in DOMAIN ms |-> NewObj(ms[i])]
    BY <1>2 DEF InitObjects, Observe
  <2> DEFINE f == [i \in DOMAIN ms |-> i]
  <2>2. f \in Bijection(DOMAIN objects', DOMAIN scene')
    BY <2>1 DEF Bijection, Injection, Surjection, IsInjective
  <2>3. \A k \in DOMAIN objects' : objects'[k].fresh = TRUE /\ OnPlace(objects'[k], scene'[f[k]])
    BY <2>1 DEF NewObj, OnPlace
  <2> HIDE DEF f
  <2> QED
    BY <2>2, <2>3 DEF StillInv
<1>3. ASSUME NEW ms \in Scenes, Track(ms) PROVE StillInv'
  <2> SUFFICES ASSUME steady' PROVE StillInv'
    BY DEF StillInv
  <2>1. scene' = ms /\ steady /\ initialized /\ SameScene(ms)
    BY <1>3 DEF Track, Observe
  <2>2. TypeOK /\ scene \in Scenes
    BY DEF TrackerInv, TypeOK
  <2>3. PICK fresh \in BOOLEAN, f \in Bijection(DOMAIN objects, DOMAIN scene) :
          \A k \in DOMAIN objects : objects[k].fresh = fresh /\ OnPlace(objects[k], scene[f[k]])
    BY <2>1 DEF StillInv
  <2>4. PICK s \in Bijection(DOMAIN ms, DOMAIN scene) : \A i \in DOMAIN ms : scene[s[i]] = ms[i]
    BY <2>1, <2>2, SameSceneMatching
  <2>5. PICK r \in Bijection(DOMAIN scene, DOMAIN ms) : \A t \in DOMAIN scene : s[r[t]] = t
    BY <2>4, BijectionInverse
  <2>6. PICK g \in Bijection(DOMAIN objects, DOMAIN ms) : \A k \in DOMAIN objects : g[k] = r[f[k]]
    BY <2>3, <2>5, BijectionChain
  <2>7. \A k \in DOMAIN objects : ms[g[k]] = scene[f[k]]
    <3>1. f \in [DOMAIN objects -> DOMAIN scene] /\ r \in [DOMAIN scene -> DOMAIN ms]
      BY <2>3, <2>5 DEF Bijection, Injection
    <3> QED
      BY <2>4, <2>5, <2>6, <3>1
  <2>8. PICK f1 \in Bijection(DOMAIN objects', DOMAIN ms) :
          \A k \in DOMAIN objects' : ~objects'[k].fresh /\ OnPlace(objects'[k], ms[f1[k]])
    <3>1. \A k \in DOMAIN objects : objects[k].fresh = fresh /\ OnPlace(objects[k], ms[g[k]])
      BY <2>3, <2>7
    <3> QED
      BY <1>3, <2>2, <2>6, <3>1, StillTrack
  <2>9. objects' \in Seq(TrackObj)
    BY <1>3, FrameStep
  <2>10. \A k \in DOMAIN objects' : objects'[k].fresh = FALSE
    BY <2>8, <2>9 DEF TrackObj
  <2> QED
    BY <2>1, <2>8, <2>10 DEF StillInv
<1> QED
  BY <1>1, <1>2, <1>3 DEF Next

(***************************************************************************)
(* In a scene where nothing moves no object is lost or found, however the  *)
(* blobs are ordered and the ties are broken.  The filter's gain is any    *)
(* number in the model, so this needs a filter that does not come to       *)
(* believe in a motion: one without a velocity, or places in whole pixels, *)
(* where what is predicted is what is measured.  A distance must cost      *)
(* something (100 in the code), and a fraction of a pixel must be near     *)
(* (100 pixels are).                                                       *)
(***************************************************************************)
THEOREM TrackerStillScene ==
  ASSUME Speeds = {0} \/ PixelUnits = 1, UnitCost # 0, PixelUnits - 1 <= Tresh
  PROVE  Spec => []StillSceneIsKept
<1>1. Init => StillInv
  BY DEF Init, StillInv
<1>2. TrackerInv /\ StillInv /\ [Next]_vars => StillInv'
  BY StillStep DEF Restful
<1>3. TrackerInv /\ StillInv => StillSceneIsKept
  <2> SUFFICES ASSUME TrackerInv, StillInv, steady, initialized
               PROVE  Len(objects) = Len(scene) /\ \A k \in DOMAIN objects : objects[k].unseen = 0
    BY DEF StillSceneIsKept
  <2>1. PICK f \in Bijection(DOMAIN objects, DOMAIN scene) :
          \A k \in DOMAIN objects : OnPlace(objects[k], scene[f[k]])
    BY DEF StillInv
  <2>2. PICK m \in Nat, n \in Nat :
          /\ m = Len(objects) /\ DOMAIN objects = 1 .. m
          /\ n = Len(scene) /\ DOMAIN scene = 1 .. n
    BY SceneType DEF TrackerInv, TypeOK
  <2>3. /\ IsFiniteSet(1 .. m) /\ Cardinality(1 .. m) = m
        /\ IsFiniteSet(1 .. n) /\ Cardinality(1 .. n) = n
    BY FS_Interval
  <2>4. ExistsBijection(1 .. m, 1 .. n)
    BY <2>1, <2>2 DEF ExistsBijection
  <2>5. m = n
    BY <2>3, <2>4, FS_Bijection
  <2> QED
    BY <2>1, <2>2, <2>5 DEF OnPlace
<1> QED
  BY <1>1, <1>2, <1>3, TrackerInvariant, PTL DEF Spec

-------------------------------------------------------------------------------
(* The refinement: a frame of the tracker is a frame of its promise.        *)

(* The ages of the promise are those of the objects.                        *)
CountOf == [a \in 0 .. MaxUnseen |-> Cardinality({k \in DOMAIN objects : objects[k].unseen = a})]

LEMMA CountOfAges == \A a \in 0 .. MaxUnseen : CountOf[a] = Cardinality(Aged(objects, a))
  BY DEF CountOf, Aged

(* The promise counts as the tracker does.                                  *)
LEMMA PromiseCounts == \A S : Promise!Cardinality(S) = Cardinality(S)
  BY DEF Promise!Cardinality, Cardinality

LEMMA PromiseInit == Init => Promise!Init
<1> SUFFICES ASSUME Init PROVE Promise!Init
  OBVIOUS
<1>1. Len(scene) = 0
  BY DEF Init
<1>2. CountOf = [a \in 0 .. MaxUnseen |-> 0]
  <2>1. \A a : {k \in DOMAIN objects : objects[k].unseen = a} = {}
    BY DEF Init
  <2> QED
    BY <2>1, FS_EmptySet DEF CountOf
<1> QED
  BY <1>1, <1>2 DEF Promise!Init, Promise!Ages, CountOf

(* The sightings of a frame, each told by the age of its object and the     *)
(* object's number at that age.                                             *)
LEMMA PromiseStep ==
  ASSUME TrackerInv, NEW ms \in Scenes, InitObjects(ms) \/ Track(ms)
  PROVE  Promise!Next
<1>1. objects \in Seq(TrackObj) /\ MaxUnseen \in Nat /\ MaxBlobs \in Nat
  BY TrackerAssumption DEF TrackerInv, TypeOK
<1>2. PICK sighted \in SUBSET DOMAIN objects :
        /\ IsFiniteSet(sighted) /\ Cardinality(sighted) <= Len(ms)
        /\ \A v \in 1 .. MaxUnseen :
             Cardinality(Aged(objects', v)) = Cardinality(Aged(objects, v - 1) \ sighted)
  BY FrameStep
<1>3. Cardinality(Aged(objects', 0)) = Len(ms)
  BY FrameStep
<1>4. PICK num \in [DOMAIN objects -> Nat] :
        /\ \A k \in DOMAIN objects : num[k] \in 1 .. Cardinality(Aged(objects, objects[k].unseen))
        /\ \A j, k \in DOMAIN objects :
             objects[j].unseen = objects[k].unseen /\ num[j] = num[k] => j = k
  BY <1>1, Naming
<1> DEFINE name == [k \in sighted |-> <<objects[k].unseen, num[k]>>]
           W    == {name[k] : k \in sighted}
<1>5. \A k \in sighted : objects[k].unseen \in 0 .. MaxUnseen
  <2>1. \A k \in sighted : objects[k] \in TrackObj
    BY <1>1
  <2> QED
    BY <2>1 DEF TrackObj
<1>6. /\ \A k \in sighted : name[k] = <<objects[k].unseen, num[k]>> /\ name[k][1] = objects[k].unseen
      /\ \A j, k \in sighted : name[j] = name[k] => j = k
  BY <1>4
<1>7. W \in SUBSET Promise!Known
  <2> SUFFICES ASSUME NEW k \in sighted PROVE name[k] \in Promise!Known
    OBVIOUS
  <2> DEFINE a == objects[k].unseen
  <2>1. a \in 0 .. MaxUnseen /\ num[k] \in 1 .. CountOf[a]
    BY <1>4, <1>5, CountOfAges
  <2>2. <<a, num[k]>> \in {a} \X (1 .. CountOf[a])
    BY <2>1
  <2>3. name[k] = <<a, num[k]>>
    BY <1>6
  <2> HIDE DEF a, name
  <2>4. \E b \in 0 .. MaxUnseen : name[k] \in {b} \X (1 .. CountOf[b])
    BY <2>1, <2>2, <2>3
  <2> QED
    BY <2>4 DEF Promise!Known, Promise!Ages, CountOf
<1> HIDE DEF name
<1>8. Cardinality(W) = Cardinality(sighted)
  <2>1. name \in [sighted -> W]
    BY DEF name
  <2>2. \A t \in W : \E k \in sighted : name[k] = t
    OBVIOUS
  <2>3. IsFiniteSet(sighted) /\ \A j, k \in sighted : name[j] = name[k] => j = k
    BY <1>2, <1>6
  <2> HIDE DEF W
  <2> QED
    BY <2>1, <2>2, <2>3, SameSize
<1>9. ASSUME NEW v \in 0 .. MaxUnseen
      PROVE  Promise!OfAge(W, v) = Cardinality(Aged(objects, v) \cap sighted)
  <2> DEFINE S == Aged(objects, v) \cap sighted
             T == {o \in W : o[1] = v}
             g == [k \in S |-> name[k]]
  <2>1. IsFiniteSet(S)
    BY <1>2, FS_Intersection
  <2>2. g \in [S -> T]
    <3>1. \A k \in S : name[k] \in T
      BY <1>6 DEF Aged
    <3> HIDE DEF T, S
    <3> QED
      BY <3>1
  <2>3. \A x, y \in S : g[x] = g[y] => x = y
    BY <1>6
  <2>4. \A t \in T : \E x \in S : g[x] = t
    <3> SUFFICES ASSUME NEW k \in sighted, name[k][1] = v PROVE \E x \in S : g[x] = name[k]
      OBVIOUS
    <3>1. k \in S
      BY <1>6 DEF Aged
    <3> QED
      BY <3>1
  <2> HIDE DEF S, T, g
  <2>5. Cardinality(T) = Cardinality(S)
    BY <2>1, <2>2, <2>3, <2>4, SameSize
  <2>6. Promise!OfAge(W, v) = Cardinality(T)
    BY PromiseCounts DEF Promise!OfAge, T
  <2> QED
    BY <2>5, <2>6 DEF S
<1>10. ASSUME NEW v \in 1 .. MaxUnseen
       PROVE  Cardinality(Aged(objects', v)) = CountOf[v - 1] - Promise!OfAge(W, v - 1)
  <2>1. v - 1 \in 0 .. MaxUnseen
    BY <1>1
  <2>2. CountOf[v - 1] = Cardinality(Aged(objects, v - 1))
    BY <2>1, CountOfAges
  <2>3. Promise!OfAge(W, v - 1) = Cardinality(Aged(objects, v - 1) \cap sighted)
    BY <1>9, <2>1
  <2>4. Cardinality(Aged(objects, v - 1) \ sighted)
          = Cardinality(Aged(objects, v - 1)) - Cardinality(Aged(objects, v - 1) \cap sighted)
    BY <1>1, AgedFinite, FS_Difference
  <2> QED
    BY <1>2, <2>2, <2>3, <2>4
<1> HIDE DEF W
<1>11. CountOf' = [a \in 0 .. MaxUnseen |->
                     IF a = 0 THEN Len(ms) ELSE CountOf[a - 1] - Promise!OfAge(W, a - 1)]
  <2>1. ASSUME NEW a \in 0 .. MaxUnseen
        PROVE  Cardinality({k \in DOMAIN objects' : objects'[k].unseen = a})
                 = IF a = 0 THEN Len(ms) ELSE CountOf[a - 1] - Promise!OfAge(W, a - 1)
    <3>1. {k \in DOMAIN objects' : objects'[k].unseen = a} = Aged(objects', a)
      BY DEF Aged
    <3>2. CASE a = 0
      BY <1>3, <3>1, <3>2
    <3>3. CASE a # 0
      <4>1. a \in 1 .. MaxUnseen
        BY <1>1, <3>3
      <4> QED
        BY <1>10, <3>1, <3>3, <4>1
    <3> QED
      BY <3>2, <3>3
  <2>2. CountOf' = [a \in 0 .. MaxUnseen |-> Cardinality({k \in DOMAIN objects' : objects'[k].unseen = a})]
    BY DEF CountOf
  <2> QED
    BY <2>1, <2>2
<1>12. Len(scene') = Len(ms) /\ Len(ms) \in 0 .. MaxBlobs
  BY SceneType DEF InitObjects, Track, Observe
<1>13. Promise!Frame(Len(ms), W)
  <2>1. Cardinality(W) <= Len(ms)
    BY <1>2, <1>8
  <2>2. Promise!Frame(Len(ms), W) <=>
          /\ Cardinality(W) <= Len(ms)
          /\ Len(scene') = Len(ms)
          /\ CountOf' = [a \in 0 .. MaxUnseen |->
                           IF a = 0 THEN Len(ms) ELSE CountOf[a - 1] - Promise!OfAge(W, a - 1)]
    BY PromiseCounts DEF Promise!Frame, Promise!Ages, CountOf
  <2> QED
    BY <1>11, <1>12, <2>1, <2>2
<1> QED
  BY <1>7, <1>12, <1>13 DEF Promise!Next

(* Whatever the tracker does with the positions, it keeps the promise of    *)
(* Census about the objects.                                                *)
THEOREM TrackerKept == Spec => Kept
<1>1. TrackerInv /\ [Next]_vars => [Promise!Next]_(Promise!vars)
  <2>1. ASSUME TrackerInv, NEW ms \in Scenes, InitObjects(ms) \/ Track(ms)
        PROVE  Promise!Next
    BY <2>1, PromiseStep
  <2>2. ASSUME UNCHANGED vars
        PROVE  UNCHANGED Promise!vars
    BY <2>2 DEF vars, Promise!vars
  <2> QED
    BY <2>1, <2>2 DEF Next
<1> QED
  BY <1>1, PromiseInit, TrackerInvariant, PTL DEF Spec, Kept, Promise!Spec

-------------------------------------------------------------------------------
(***************************************************************************)
(* The trajectory program (baratas.cpp): the tracker in the loop.  What it *)
(* learns from is told by the invariant of the loop.                       *)
(***************************************************************************)
BaratasInv ==
  /\ LoopTypeOK({"process"})
  /\ LoopInv
  /\ FrozenWhileProcessing
  /\ BackgroundNotStale
  /\ pc = "process" => camAdapted

(* The program's next-state relation: a step of the loop, a frame, the      *)
(* passing of time, or nothing.                                             *)
AnyFrame == FirstFrame \/ LaterFrame

LEMMA BaratasSteps ==
  ASSUME [BaratasNext]_baratasVars
  PROVE  \/ LoopStep("process", "key") /\ UNCHANGED vars
         \/ AnyFrame
         \/ (Tick \/ SetClockBack) /\ UNCHANGED vars
         \/ UNCHANGED baratasVars
  BY DEF BaratasNext, Program, AnyFrame, Ended, baratasVars

LEMMA AnyFrameSteps ==
  ASSUME AnyFrame
  PROVE  /\ FindBlobs /\ pc' \in {"grab", "key"}
         /\ \E ms \in Scenes : InitObjects(ms) \/ Track(ms)
  BY DEF AnyFrame, FirstFrame, LaterFrame

(* On a camera that obeys and whatever the clock does, the invariant of the *)
(* loop holds here too, and only a calibrated camera gets to the step       *)
(* "process" (baratas.cpp 52-73).                                           *)
THEOREM BaratasInvariant ==
  ASSUME ObedientCamera
  PROVE  BaratasSpec => []BaratasInv
<1>1. BaratasInit => BaratasInv
  BY LoopTypeInit, LoopInvInit
  DEF BaratasInit, BaratasInv, LoopInit, FrozenWhileProcessing, BackgroundNotStale
<1>2. BaratasInv /\ [BaratasNext]_baratasVars => BaratasInv'
  <2> SUFFICES ASSUME BaratasInv, [BaratasNext]_baratasVars PROVE BaratasInv'
    OBVIOUS
  <2> USE DEF BaratasInv
  <2>1. CASE LoopStep("process", "key")
    <3>1. LoopTypeOK({"process"})' /\ LoopInv' /\ FrozenWhileProcessing' /\ BackgroundNotStale'
      BY <2>1, LoopTypeStep, LoopInvStep, FrozenStep, BackgroundStep
    <3>2. pc' = "process" => camAdapted'
      BY <2>1 DEF LoopStep, OpenCamera, Grab, CameraLost, EndCalibration, AwaitCalibration,
                  ShowCountdown, KeyOther, KeyEscape, KeySpace, NoteStart, cameraVars
    <3> QED
      BY <3>1, <3>2
  <2>2. CASE AnyFrame
    <3>1. FindBlobs /\ pc' \in {"grab", "key"}
      BY <2>2, AnyFrameSteps
    <3>2. LoopTypeOK({"process"})'
      BY <3>1, LoopAssumption DEF FindBlobs, LoopTypeOK, Step, Learn, Backgrounds
    <3>3. LoopInv' /\ FrozenWhileProcessing' /\ BackgroundNotStale'
      BY <3>1 DEF FindBlobs, LoopInv, Step, Learn,
                  CalibratedLongEnough, FrozenWhileProcessing, BackgroundNotStale
    <3> QED
      BY <3>1, <3>2, <3>3
  <2>3. CASE Tick \/ SetClockBack
    <3>1. UNCHANGED <<pc, cameraVars>>
      BY <2>3 DEF Tick, SetClockBack
    <3> QED
      BY <2>3, <3>1, LoopTypeTime, LoopInvTime
      DEF cameraVars, FrozenWhileProcessing, BackgroundNotStale
  <2>4. CASE UNCHANGED baratasVars
    BY <2>4 DEF baratasVars, loopVars, timeVars, cameraVars, LoopTypeOK, LoopInv,
                CalibratedLongEnough, FrozenWhileProcessing, BackgroundNotStale
  <2> QED
    BY <2>1, <2>2, <2>3, <2>4, BaratasSteps
<1> QED
  BY <1>1, <1>2, PTL DEF BaratasSpec

(***************************************************************************)
(* The tracker only learns from frames of a camera that had its time to    *)
(* adapt (less the start-up delay, the first time), is frozen, and is      *)
(* compared with a background of its last calibration, however often it    *)
(* was calibrated before and the clock was set back.                       *)
(***************************************************************************)
THEOREM BaratasTracksCalibratedFrames ==
  ASSUME ObedientCamera
  PROVE  BaratasSpec => TracksCalibratedFrames
<1> DEFINE Learned ==
      objects' # objects =>
        /\ lead + adapting > AdaptationTime * QuantaPerSec
        /\ \A c \in Controls : ~autoAdjust[c]
        /\ background' = "current"
<1>1. BaratasInv /\ [BaratasNext]_baratasVars => [Learned]_baratasVars
  <2> SUFFICES ASSUME BaratasInv, [BaratasNext]_baratasVars, objects' # objects
               PROVE  /\ lead + adapting > AdaptationTime * QuantaPerSec
                      /\ \A c \in Controls : ~autoAdjust[c]
                      /\ background' = "current"
    OBVIOUS
  <2>1. AnyFrame
    BY BaratasSteps DEF vars, baratasVars
  <2>2. pc = "process" /\ background' = Learn(background)
    BY <2>1, AnyFrameSteps DEF FindBlobs
  <2>3. background # "stale" /\ background \in Backgrounds
    BY <2>2 DEF BaratasInv, BackgroundNotStale, LoopTypeOK
  <2> QED
    BY <2>2, <2>3
    DEF BaratasInv, LoopInv, CalibratedLongEnough, FrozenWhileProcessing, Learn, Backgrounds
<1> QED
  BY <1>1, BaratasInvariant, PTL DEF BaratasSpec, TracksCalibratedFrames

(***************************************************************************)
(* The loop leaves the tracker alone except in its frames, so the tracker  *)
(* behaves in it as it does alone: every promise of the tracker holds in   *)
(* the program, whatever the camera and the clock do.                      *)
(***************************************************************************)
THEOREM BaratasTracks == BaratasSpec => Spec
<1>1. [BaratasNext]_baratasVars => [Next]_vars
  BY BaratasSteps, AnyFrameSteps DEF Next, baratasVars
<1> QED
  BY <1>1, PTL DEF BaratasSpec, BaratasInit, Spec
===============================================================================
