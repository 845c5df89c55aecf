--------------------------- MODULE AssignmentProofs ---------------------------
(***************************************************************************)
(* Facts about sums over finite sets, and about the assignments of largest *)
(* total cost.  Total is a fold, which picks the members of its set in an  *)
(* order that nothing is known of; the first two lemmas replace it by a    *)
(* sum that any member may be taken out of.                                *)
(***************************************************************************)
EXTENDS Assignment, TLAPS, FiniteSetTheorems

(* m[s] is the sum of g over s, for every subset s of D.                    *)
IsSum(m, g, D) ==
  /\ m \in [SUBSET D -> Int]
  /\ m[{}] = 0
  /\ \A s \in SUBSET D : \A e \in s : m[s] = g[e] + m[s \ {e}]

(* Where some subsets of a finite set are bad, one of them has no bad       *)
(* subset that lacks one of its members: induction over finite sets.        *)
LEMMA SmallestBadSet ==
  ASSUME NEW D, IsFiniteSet(D), NEW Bad \in SUBSET SUBSET D, Bad # {}
  PROVE  \E s \in Bad : \A e \in s : s \ {e} \notin Bad
<1>1. IsWellFoundedOn(StrictSubsetOrdering(D), SUBSET D)
  BY FS_StrictSubsetOrderingWellFounded, FS_FiniteSubsetsOfFinite
<1>2. PICK s \in Bad : \A t \in Bad : ~ (<<t, s>> \in StrictSubsetOrdering(D))
  BY <1>1, WFMin
<1>3. ASSUME NEW e \in s, s \ {e} \in Bad
      PROVE  FALSE
  <2>1. <<s \ {e}, s>> \in StrictSubsetOrdering(D)
    BY <1>3 DEF StrictSubsetOrdering
  <2> QED
    BY <1>2, <1>3, <2>1
<1> QED
  BY <1>3

(* Every function on a finite set has a sum.                                *)
LEMMA SumExists ==
  ASSUME NEW D, IsFiniteSet(D), NEW g \in [D -> Int]
  PROVE  \E m : IsSum(m, g, D)
<1> DEFINE Bad == {E \in SUBSET D : ~ \E m : IsSum(m, g, E)}
<1> SUFFICES ASSUME Bad # {} PROVE FALSE
  OBVIOUS
<1>1. PICK E \in Bad : \A e \in E : E \ {e} \notin Bad
  <2> HIDE DEF Bad
  <2>1. Bad \in SUBSET SUBSET D
    BY DEF Bad
  <2> QED
    BY <2>1, SmallestBadSet
<1>2. CASE E = {}
  <2>1. IsSum([s \in SUBSET E |-> 0], g, E)
    BY <1>2 DEF IsSum
  <2> QED
    BY <1>1, <2>1
<1>3. CASE E # {}
  <2>1. PICK d \in E : TRUE
    BY <1>3
  <2>2. PICK m : IsSum(m, g, E \ {d})
    BY <1>1, <2>1
  <2> DEFINE share(s) == IF d \in s THEN g[d] ELSE 0
             n        == [s \in SUBSET E |-> m[s \ {d}] + share(s)]
  <2>3. ASSUME NEW s \in SUBSET E
        PROVE  s \ {d} \in SUBSET (E \ {d}) /\ m[s \ {d}] \in Int /\ share(s) \in Int
    BY <2>2 DEF IsSum
  <2>4. ASSUME NEW s \in SUBSET E, NEW e \in s
        PROVE  n[s] = g[e] + n[s \ {e}]
    <3>1. s \ {e} \in SUBSET E /\ g[e] \in Int
      BY <1>1
    <3>2. n[s] = m[s \ {d}] + share(s) /\ n[s \ {e}] = m[(s \ {e}) \ {d}] + share(s \ {e})
      BY <3>1
    <3>3. m[s \ {d}] \in Int /\ m[(s \ {e}) \ {d}] \in Int
      BY <2>3, <3>1
    <3> HIDE DEF n
    <3>4. CASE e = d
      <4>1. (s \ {e}) \ {d} = s \ {d}
        BY <3>4
      <4>2. m[(s \ {e}) \ {d}] = m[s \ {d}]
        BY <4>1, Zenon
      <4>3. share(s) = g[e] /\ share(s \ {e}) = 0
        BY <3>4
      <4> HIDE DEF share
      <4> QED
        BY <3>1, <3>2, <3>3, <4>2, <4>3
    <3>5. CASE e # d
      <4>1. (s \ {e}) \ {d} = (s \ {d}) \ {e}
        BY <3>5
      <4>2. m[s \ {d}] = g[e] + m[(s \ {d}) \ {e}]
        BY <2>2, <2>3, <3>5 DEF IsSum
      <4>3. m[s \ {d}] = g[e] + m[(s \ {e}) \ {d}]
        BY <4>1, <4>2, Zenon
      <4>4. share(s \ {e}) = share(s) /\ share(s) \in Int
        BY <2>3, <3>5
      <4> HIDE DEF share
      <4> QED
        BY <3>1, <3>2, <3>3, <4>3, <4>4
    <3> QED
      BY <3>4, <3>5
  <2>5. n \in [SUBSET E -> Int]
    <3>1. ASSUME NEW s \in SUBSET E PROVE m[s \ {d}] + share(s) \in Int
      <4>1. m[s \ {d}] \in Int /\ share(s) \in Int
        BY <2>3
      <4> HIDE DEF share
      <4> QED
        BY <4>1
    <3> HIDE DEF share
    <3> QED
      BY <3>1
  <2>6. n[{}] = 0
    <3>1. {} \ {d} = {} /\ share({}) = 0 /\ {} \in SUBSET E
      OBVIOUS
    <3> QED
      BY <3>1, <2>2 DEF IsSum
  <2>7. IsSum(n, g, E)
    <3> HIDE DEF n
    <3> QED
      BY <2>4, <2>5, <2>6 DEF IsSum
  <2> QED
    BY <1>1, <2>7
<1> QED
  BY <1>2, <1>3

(* The fold that Total is agrees with the sum.                              *)
LEMMA TotalIsSum ==
  ASSUME NEW cost, IsFiniteSet(DOMAIN cost), NEW a, NEW m,
         IsSum(m, [i \in DOMAIN cost |-> cost[i][a[i]]], DOMAIN cost)
  PROVE  Total(cost, a) = m[DOMAIN cost]
<1> DEFINE D       == DOMAIN cost
           pick(s) == CHOOSE e \in s : TRUE
           Folds(f) == f = [s \in SUBSET D |->
                              IF s = {} THEN 0 ELSE cost[pick(s)][a[pick(s)]] + f[s \ {pick(s)}]]
           iter    == CHOOSE f : Folds(f)
<1>1. Total(cost, a) = iter[D]
  BY DEF Total, MapThenSumSet, MapThenFoldSet
<1>2. Folds(m)
  <2>1. m = [s \in SUBSET D |-> m[s]]
    BY DEF IsSum
  <2>2. ASSUME NEW s \in SUBSET D
        PROVE  m[s] = IF s = {} THEN 0 ELSE cost[pick(s)][a[pick(s)]] + m[s \ {pick(s)}]
    <3>1. CASE s = {}
      BY <3>1 DEF IsSum
    <3>2. CASE s # {}
      <4>1. pick(s) \in s
        BY <3>2
      <4>2. [i \in D |-> cost[i][a[i]]][pick(s)] = cost[pick(s)][a[pick(s)]]
        BY <4>1
      <4> QED
        BY <3>2, <4>1, <4>2 DEF IsSum
    <3> QED
      BY <3>1, <3>2
  <2> QED
    BY <2>1, <2>2
<1>3. Folds(iter)
  BY <1>2, Zenon
<1> DEFINE Bad == {s \in SUBSET D : iter[s] # m[s]}
<1> HIDE DEF iter
<1>4. Bad = {}
  <2> SUFFICES ASSUME Bad # {} PROVE FALSE
    OBVIOUS
  <2>1. PICK s \in Bad : \A e \in s : s \ {e} \notin Bad
    <3> HIDE DEF Bad
    <3>1. Bad \in SUBSET SUBSET D
      BY DEF Bad
    <3> QED
      BY <3>1, SmallestBadSet
  <2>2. iter[s] = IF s = {} THEN 0 ELSE cost[pick(s)][a[pick(s)]] + iter[s \ {pick(s)}]
    BY <1>3, <2>1
  <2>3. m[s] = IF s = {} THEN 0 ELSE cost[pick(s)][a[pick(s)]] + m[s \ {pick(s)}]
    BY <1>2, <2>1
  <2>4. s # {} => iter[s \ {pick(s)}] = m[s \ {pick(s)}]
    <3>1. s # {} => pick(s) \in s
      OBVIOUS
    <3>2. s \ {pick(s)} \in SUBSET D
      BY <2>1
    <3> QED
      BY <2>1, <3>1, <3>2
  <2>5. iter[s] # m[s]
    BY <2>1
  <2> HIDE DEF pick
  <2> QED
    BY <2>2, <2>3, <2>4, <2>5
<1> QED
  <2>1. D \in SUBSET D
    OBVIOUS
  <2> QED
    BY <1>1, <1>4, <2>1

-------------------------------------------------------------------------------
(* Larger terms have a larger sum.                                          *)
LEMMA SumMonotone ==
  ASSUME NEW D, IsFiniteSet(D), NEW g \in [D -> Int], NEW h \in [D -> Int],
         NEW m, IsSum(m, g, D), NEW n, IsSum(n, h, D),
         \A e \in D : g[e] <= h[e]
  PROVE  \A s \in SUBSET D : m[s] <= n[s]
<1> DEFINE Bad == {s \in SUBSET D : ~(m[s] <= n[s])}
<1> SUFFICES ASSUME Bad # {} PROVE FALSE
  OBVIOUS
<1>1. PICK s \in Bad : \A e \in s : s \ {e} \notin Bad
  <2> HIDE DEF Bad
  <2>1. Bad \in SUBSET SUBSET D
    BY DEF Bad
  <2> QED
    BY <2>1, SmallestBadSet
<1>2. s # {}
  <2> SUFFICES ASSUME s = {} PROVE FALSE
    OBVIOUS
  <2>1. m[s] = 0 /\ n[s] = 0
    BY Zenon DEF IsSum
  <2> QED
    BY <1>1, <2>1
<1>3. PICK e \in s : TRUE
  BY <1>2
<1>4. m[s] = g[e] + m[s \ {e}] /\ n[s] = h[e] + n[s \ {e}]
  BY <1>1 DEF IsSum
<1>5. s \ {e} \in SUBSET D /\ e \in D
  BY <1>1
<1>6. m[s \ {e}] \in Int /\ n[s \ {e}] \in Int /\ g[e] \in Int /\ h[e] \in Int
  BY <1>5 DEF IsSum
<1>7. m[s \ {e}] <= n[s \ {e}]
  BY <1>1, <1>5
<1> QED
  BY <1>1, <1>4, <1>5, <1>6, <1>7

(* If terms that are no larger have the same sum, they are the same.        *)
LEMMA SumsEqual ==
  ASSUME NEW D, IsFiniteSet(D), NEW g \in [D -> Int], NEW h \in [D -> Int],
         NEW m, IsSum(m, g, D), NEW n, IsSum(n, h, D),
         \A e \in D : g[e] <= h[e],
         n[D] <= m[D]
  PROVE  \A e \in D : g[e] = h[e]
<1> SUFFICES ASSUME NEW e \in D PROVE g[e] = h[e]
  OBVIOUS
<1>1. D \in SUBSET D /\ D \ {e} \in SUBSET D
  OBVIOUS
<1>2. m[D] = g[e] + m[D \ {e}] /\ n[D] = h[e] + n[D \ {e}]
  BY <1>1 DEF IsSum
<1>3. m[D \ {e}] <= n[D \ {e}]
  BY <1>1, SumMonotone
<1>4. m[D \ {e}] \in Int /\ n[D \ {e}] \in Int
  BY <1>1 DEF IsSum
<1>5. g[e] \in Int /\ h[e] \in Int /\ g[e] <= h[e]
  OBVIOUS
<1> QED
  BY <1>2, <1>3, <1>4, <1>5

(* Terms over D and terms over E, paired by a function that is one to one,  *)
(* add up to the sums of both.                                              *)
PairedSum(m, n, a, D) == [s \in SUBSET D |-> m[s] + n[{a[i] : i \in s}]]

LEMMA SumPaired ==
  ASSUME NEW D, NEW E, NEW a \in [D -> E], \A i, j \in D : a[i] = a[j] => i = j,
         NEW g \in [D -> Int], NEW h \in [E -> Int],
         NEW m, IsSum(m, g, D), NEW n, IsSum(n, h, E),
         NEW terms, \A i \in D : terms[i] = g[i] + h[a[i]]
  PROVE  IsSum(PairedSum(m, n, a, D), terms, D)
<1> DEFINE both == PairedSum(m, n, a, D)
<1>0. both = [s \in SUBSET D |-> m[s] + n[{a[i] : i \in s}]]
  BY DEF PairedSum
<1> HIDE DEF both
<1> DEFINE image(s) == {a[i] : i \in s}
<1>1. ASSUME NEW s \in SUBSET D
      PROVE  image(s) \in SUBSET E /\ m[s] \in Int /\ n[image(s)] \in Int
  <2>1. image(s) \in SUBSET E
    OBVIOUS
  <2> QED
    BY <2>1 DEF IsSum
<1>2. both \in [SUBSET D -> Int]
  <2>1. ASSUME NEW s \in SUBSET D PROVE m[s] + n[{a[i] : i \in s}] \in Int
    <3>1. m[s] \in Int /\ n[image(s)] \in Int
      BY <1>1
    <3> QED
      BY <3>1
  <2> HIDE DEF image
  <2> QED
    BY <1>0, <2>1
<1>3. both[{}] = 0
  <2>1. image({}) = {} /\ {} \in SUBSET D
    OBVIOUS
  <2>2. m[{}] = 0 /\ n[{}] = 0
    BY DEF IsSum
  <2>3. both[{}] = m[{}] + n[image({})]
    BY <1>0, <2>1
  <2>4. both[{}] = m[{}] + n[{}]
    BY <2>1, <2>3, Zenon
  <2> HIDE DEF image
  <2> QED
    BY <2>2, <2>4
<1>4. ASSUME NEW s \in SUBSET D, NEW e \in s
      PROVE  both[s] = terms[e] + both[s \ {e}]
  <2>1. image(s \ {e}) = image(s) \ {a[e]}
    OBVIOUS
  <2>2. s \ {e} \in SUBSET D /\ e \in D /\ a[e] \in image(s) /\ a[e] \in E
    OBVIOUS
  <2>3. m[s] = g[e] + m[s \ {e}]
    BY DEF IsSum
  <2>4. n[image(s)] = h[a[e]] + n[image(s) \ {a[e]}]
    BY <1>1, <2>2 DEF IsSum
  <2>5. g[e] \in Int /\ h[a[e]] \in Int
    BY <2>2
  <2>6. both[s] = m[s] + n[image(s)] /\ both[s \ {e}] = m[s \ {e}] + n[image(s \ {e})]
    BY <1>0, <2>2
  <2>7. terms[e] = g[e] + h[a[e]]
    BY <2>2
  <2>8. m[s \ {e}] \in Int /\ n[image(s \ {e})] \in Int
    BY <1>1, <2>2
  <2> HIDE DEF image
  <2>9. n[image(s)] = h[a[e]] + n[image(s \ {e})]
    BY <2>1, <2>4, Zenon
  <2> QED
    BY <2>3, <2>5, <2>6, <2>7, <2>8, <2>9
<1>5. IsSum(both, terms, D)
  BY <1>2, <1>3, <1>4 DEF IsSum
<1> QED
  BY <1>5 DEF both

-------------------------------------------------------------------------------
(* No edge costs more than the labels of its ends; the edges of a cost as   *)
(* much.                                                                    *)
Feasible(cost, lx, ly, D) == \A r, c \in D : cost[r][c] <= lx[r] + ly[c]
Tight(cost, lx, ly, a, D) == \A r \in D : cost[r][a[r]] = lx[r] + ly[a[r]]

(* Total is a number, and a bijection's total is bounded by the labels.     *)
LEMMA TotalInLabels ==
  ASSUME NEW D, IsFiniteSet(D), NEW cost \in [D -> [D -> Int]],
         NEW lx \in [D -> Int], NEW ly \in [D -> Int],
         NEW m, IsSum(m, lx, D), NEW n, IsSum(n, ly, D),
         NEW a \in Injection(D, D),
         Feasible(cost, lx, ly, D)
  PROVE  /\ Total(cost, a) \in Int
         /\ Total(cost, a) <= m[D] + n[D]
         /\ Total(cost, a) = m[D] + n[D] <=> Tight(cost, lx, ly, a, D)
<1> DEFINE g == [r \in D |-> cost[r][a[r]]]
           h == [r \in D |-> lx[r] + ly[a[r]]]
           bound == PairedSum(m, n, a, D)
<1>1. a \in [D -> D] /\ \A i, j \in D : a[i] = a[j] => i = j
  BY DEF Injection, IsInjective
<1>2. g \in [D -> Int] /\ h \in [D -> Int] /\ \A r \in D : g[r] <= h[r]
  BY <1>1 DEF Feasible
<1>3. IsSum(bound, h, D)
  <2>1. \A i \in D : h[i] = lx[i] + ly[a[i]]
    OBVIOUS
  <2> HIDE DEF h
  <2> QED
    BY <1>1, <2>1, SumPaired
<1>4. {a[i] : i \in D} = D
  <2>1. a \in Surjection(D, D)
    BY FS_Injection
  <2> QED
    BY <2>1 DEF Surjection
<1>5. bound[D] = m[D] + n[D]
  <2>1. D \in SUBSET D
    OBVIOUS
  <2>2. bound[D] = m[D] + n[{a[i] : i \in D}]
    BY <2>1 DEF PairedSum
  <2> QED
    BY <1>4, <2>2, Zenon
<1>6. PICK sum : IsSum(sum, g, D)
  BY <1>2, SumExists
<1>7. Total(cost, a) = sum[D]
  <2>1. DOMAIN cost = D
    OBVIOUS
  <2> QED
    BY <1>6, <2>1, TotalIsSum
<1> HIDE DEF g, h, bound
<1>8. sum[D] \in Int /\ bound[D] \in Int /\ sum[D] <= bound[D]
  <2>1. D \in SUBSET D
    OBVIOUS
  <2>2. sum[D] <= bound[D]
    BY <1>2, <1>3, <1>6, <2>1, SumMonotone
  <2> QED
    BY <1>3, <1>6, <2>1, <2>2 DEF IsSum
<1>9. sum[D] = bound[D] <=> \A r \in D : g[r] = h[r]
  <2>1. ASSUME sum[D] = bound[D] PROVE \A r \in D : g[r] = h[r]
    <3>1. bound[D] <= sum[D]
      BY <1>8, <2>1
    <3> QED
      BY <1>2, <1>3, <1>6, <3>1, SumsEqual
  <2>2. ASSUME \A r \in D : g[r] = h[r] PROVE sum[D] = bound[D]
    <3>1. \A r \in D : h[r] <= g[r]
      BY <1>2, <2>2
    <3>2. D \in SUBSET D
      OBVIOUS
    <3>3. bound[D] <= sum[D]
      BY <1>2, <1>3, <1>6, <3>1, <3>2, SumMonotone
    <3>4. sum[D] \in Int /\ bound[D] \in Int /\ sum[D] <= bound[D]
      BY <1>8
    <3>5. \A i, j \in Int : i <= j /\ j <= i => i = j
      OBVIOUS
    <3> QED
      BY <3>3, <3>4, <3>5, Zenon
  <2> QED
    BY <2>1, <2>2
<1> QED
  BY <1>5, <1>7, <1>8, <1>9 DEF g, h, Tight

(* Where one assignment has the largest total, the best assignments are     *)
(* those of that total.                                                     *)
LEMMA BestTotal ==
  ASSUME NEW cost, NEW b \in Injection(DOMAIN cost, DOMAIN cost),
         \A a \in Injection(DOMAIN cost, DOMAIN cost) :
           Total(cost, a) \in Int /\ Total(cost, a) <= Total(cost, b)
  PROVE  MaxCostAssignments(cost)
           = {a \in Injection(DOMAIN cost, DOMAIN cost) : Total(cost, a) = Total(cost, b)}
<1> DEFINE all    == Injection(DOMAIN cost, DOMAIN cost)
           totals == {Total(cost, a) : a \in all}
<1>1. Total(cost, b) \in totals /\ \A t \in totals : t \in Int /\ Total(cost, b) >= t
  OBVIOUS
<1> HIDE DEF totals
<1>2. Max(totals) \in totals /\ \A t \in totals : Max(totals) >= t
  <2> DEFINE Top(t) == t \in totals /\ \A u \in totals : t >= u
  <2>1. Top(Total(cost, b))
    BY <1>1
  <2>2. Max(totals) = CHOOSE t \in totals : \A u \in totals : t >= u
    BY DEF Max
  <2> QED
    BY <2>1, <2>2, Zenon
<1>3. Max(totals) = Total(cost, b)
  BY <1>1, <1>2
<1> QED
  BY <1>3, Zenon DEF totals, MaxCostAssignments
===============================================================================
