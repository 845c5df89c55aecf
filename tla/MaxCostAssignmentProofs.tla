------------------------ MODULE MaxCostAssignmentProofs ------------------------
(***************************************************************************)
(* The documented invariants of the Hungarian algorithm, for matrices of   *)
(* every size and cost, and the certificate its result comes with: a       *)
(* perfect matching of tight edges under feasible labels.                  *)
(***************************************************************************)
EXTENDS MaxCostAssignment, AssignmentProofs, WellFoundedInduction

LEMMA LeastNumber ==
  ASSUME NEW A \in SUBSET Nat, A # {}
  PROVE  Min(A) \in A /\ \A a \in A : Min(A) <= a
<1> DEFINE R == {ss \in Nat \X Nat : ss[1] < ss[2]}
<1>1. IsWellFoundedOn(R, Nat)
  BY NatLessThanWellFounded DEF OpToRel
<1> HIDE DEF R
<1>2. \E a \in A : \A b \in A : <<b, a>> \notin R
  BY <1>1, WFMin, Zenon
<1>3. \A a, b \in Nat : <<b, a>> \notin R => a <= b
  BY DEF R
<1>4. \E a \in A : \A b \in A : a <= b
  BY <1>2, <1>3
<1> QED
  BY <1>4 DEF Min

(* A row of numbers has a largest one.                                      *)
LEMMA LargestOfRow ==
  ASSUME NEW n \in Nat \ {0}, NEW f \in [1 .. n -> Int]
  PROVE  \E m \in 1 .. n : \A i \in 1 .. n : f[m] >= f[i]
<1> DEFINE Has(k) == \E m \in 1 .. k : \A i \in 1 .. k : f[m] >= f[i]
           Bad    == {k \in 1 .. n : ~Has(k)}
<1>1. CASE Bad = {}
  <2>1. n \in 1 .. n
    OBVIOUS
  <2> HIDE DEF Has
  <2>2. Has(n)
    BY <1>1, <2>1
  <2> QED
    BY <2>2 DEF Has
<1>2. CASE Bad # {}
  <2>1. PICK k \in Bad : \A j \in Bad : k <= j
    <3>1. Bad \in SUBSET Nat
      OBVIOUS
    <3> HIDE DEF Bad
    <3> QED
      BY <1>2, <3>1, LeastNumber
  <2>2. k # 1
    BY <2>1
  <2>3. k - 1 \in 1 .. n /\ Has(k - 1)
    <3>1. k \in 1 .. n /\ k - 1 \in 1 .. n /\ ~(k <= k - 1)
      BY <2>1, <2>2
    <3>2. k - 1 \notin Bad
      BY <2>1, <3>1
    <3> QED
      BY <3>1, <3>2
  <2>4. PICK m \in 1 .. k - 1 : \A i \in 1 .. k - 1 : f[m] >= f[i]
    BY <2>3
  <2>5. \A i \in 1 .. k : i = k \/ i \in 1 .. k - 1
    BY <2>1
  <2>6. Has(k)
    <3>1. CASE f[m] >= f[k]
      BY <2>1, <2>4, <2>5, <3>1
    <3>2. CASE f[m] < f[k]
      BY <2>1, <2>4, <2>5, <3>2
    <3> QED
      BY <2>1, <2>4, <3>1, <3>2
  <2> QED
    BY <2>1, <2>6
<1> QED
  BY <1>1, <1>2

LEMMA LargestCost ==
  ASSUME NEW n \in Nat \ {0}, NEW f \in [1 .. n -> Int]
  PROVE  /\ Max({f[i] : i \in 1 .. n}) \in Int
         /\ \A i \in 1 .. n : Max({f[j] : j \in 1 .. n}) >= f[i]
<1> DEFINE A == {f[i] : i \in 1 .. n}
<1>1. \E a \in A : \A b \in A : a >= b
  BY LargestOfRow
<1>2. Max(A) \in A /\ \A b \in A : Max(A) >= b
  BY <1>1 DEF Max
<1> QED
  BY <1>2

-------------------------------------------------------------------------------
(***************************************************************************)
(* The inductive invariant.  The two arrays describe one matching at all   *)
(* times, but for the column y that a path being flipped is about to take  *)
(* from the row it belonged to.                                            *)
(***************************************************************************)
MatchInv ==
  /\ \A r \in Rows : xy[r] # None => yx[xy[r]] = r /\ Gap(r, xy[r]) = 0
  /\ \A c \in Cols : yx[c] # None => xy[yx[c]] = c \/ (pc = "flip" /\ c = y)
  /\ Cardinality(Rows \ Unmatched) = match_size

(* Row r is the root of the tree, or its column hangs on its parent by a    *)
(* tight edge; rank makes parents come before children.                     *)
Linked(rank, r) ==
  IF xy[r] = None
    THEN aug_path[r] = None
    ELSE /\ aug_path[r] \in S
         /\ rank[aug_path[r]] < rank[r]
         /\ Gap(aug_path[r], xy[r]) = 0

(* While the tree grows: its columns are those its rows are matched with,   *)
(* the slacks are the least gaps between its rows and the other columns.    *)
TreeInv ==
  /\ \E r \in S : xy[r] = None
  /\ \A c \in T : yx[c] # None /\ yx[c] \in S
  /\ \A r \in S : xy[r] # None => xy[r] \in T
  /\ \A c \in Cols : slackx[c] \in S /\ slack[c] = Gap(slackx[c], c)
  /\ \A r \in S, c \in Cols \ T : slack[c] <= Gap(r, c)
  /\ \A i \in 1 .. Len(q) : q[i] \in S
  /\ \E rank \in [Rows -> Nat] : \A r \in S : Linked(rank, r)
  /\ pc = "scan" => x \in S
  /\ pc # "search" => y \in Cols

(* While the path is flipped: the edge (x, y) is tight, no row has column y *)
(* any more, and what lies between x and the root was not touched yet.      *)
PathInv ==
  /\ x \in S /\ y \in Cols
  /\ Gap(x, y) = 0
  /\ \A r \in Rows : xy[r] # y
  /\ \E rank \in [Rows -> Nat] : \A r \in S : rank[r] <= rank[x] => Linked(rank, r)

HungarianInv ==
  /\ TypeOK
  /\ LabelsFeasible
  /\ MatchInv
  /\ pc \in {"search", "scan", "tight"} => TreeInv
  /\ pc = "flip" => PathInv
  /\ pc = "done" => match_size = N

LEMMA CostsAreNumbers ==
  ASSUME TypeOK
  PROVE  /\ \A r \in Rows, c \in Cols : cost[r][c] \in Int
         /\ \A r \in Rows, c \in Cols : Gap(r, c) \in Int
<1>1. cost \in [Rows -> [Cols -> Int]]
  BY CostAssumption DEF TypeOK
<1> QED
  BY <1>1 DEF TypeOK, Gap

(* Nothing is matched and labels are the largest costs of their rows.       *)
LEMMA HungarianInit ==
  ASSUME Init
  PROVE  HungarianInv
<1>1. cost \in [Rows -> [Cols -> Int]]
  BY CostAssumption DEF Init
<1>2. \A r \in Rows : lx[r] \in Int /\ \A c \in Cols : lx[r] >= cost[r][c]
  <2> SUFFICES ASSUME NEW r \in Rows
               PROVE  lx[r] \in Int /\ \A c \in Cols : lx[r] >= cost[r][c]
    OBVIOUS
  <2>1. N \in Nat \ {0} /\ cost[r] \in [1 .. N -> Int]
    BY <1>1, CostAssumption DEF Rows, Cols
  <2>2. lx[r] = Max({cost[r][c] : c \in 1 .. N})
    BY DEF Init, Cols
  <2> QED
    BY <2>1, <2>2, LargestCost DEF Cols
<1>3. lx \in [Rows -> Int]
  <2>1. lx = [r \in Rows |-> lx[r]]
    BY DEF Init
  <2> QED
    BY <1>2, <2>1
<1>4. TypeOK
  <2>1. 0 \in 0 .. N + 1 /\ 0 \in 0 .. N
    BY CostAssumption
  <2> QED
    BY <1>3, <2>1 DEF Init, TypeOK, None
<1>5. LabelsFeasible
  <2> SUFFICES ASSUME NEW r \in Rows, NEW c \in Cols PROVE Gap(r, c) >= 0
    BY DEF LabelsFeasible
  <2>1. ly[c] = 0 /\ cost[r][c] \in Int
    BY <1>1 DEF Init
  <2> QED
    BY <1>2, <2>1 DEF Gap
<1>6. MatchInv
  <2>1. Rows \ Unmatched = {}
    BY DEF Init, Unmatched
  <2> QED
    BY <2>1, FS_EmptySet DEF Init, MatchInv
<1> QED
  BY <1>4, <1>5, <1>6 DEF HungarianInv, Init

-------------------------------------------------------------------------------
(* There are N rows and N columns.                                          *)
LEMMA SquareMatrix ==
  /\ IsFiniteSet(Rows) /\ Cardinality(Rows) = N
  /\ IsFiniteSet(Cols) /\ Cardinality(Cols) = N
<1>1. N \in Nat
  BY CostAssumption
<1>2. IsFiniteSet(1 .. N) /\ Cardinality(1 .. N) = N
  BY <1>1, FS_Interval
<1> QED
  BY <1>2 DEF Rows, Cols

(* As long as a row is unmatched, so is a column.                           *)
LEMMA FreeColumn ==
  ASSUME HungarianInv, pc \in {"search", "scan", "tight"}
  PROVE  Cols \ T # {}
<1> SUFFICES ASSUME Cols \ T = {} PROVE FALSE
  OBVIOUS
<1>1. PICK root \in S : xy[root] = None
  BY DEF HungarianInv, TreeInv
<1>2. root \in Rows
  BY DEF HungarianInv, TypeOK
<1>3. \A c \in Cols : yx[c] \in Rows \ {root} /\ xy[yx[c]] = c
  <2> SUFFICES ASSUME NEW c \in Cols PROVE yx[c] \in Rows \ {root} /\ xy[yx[c]] = c
    OBVIOUS
  <2>1. c \in T
    OBVIOUS
  <2>2. yx[c] # None /\ yx[c] \in Rows /\ xy[yx[c]] = c
    BY <2>1 DEF HungarianInv, TypeOK, TreeInv, MatchInv
  <2>3. c # None
    BY DEF Cols, None
  <2> QED
    BY <1>1, <2>2, <2>3
<1>4. yx \in [Cols -> Rows \ {root}]
  BY <1>3 DEF HungarianInv, TypeOK
<1>5. IsFiniteSet(Rows \ {root}) /\ Cardinality(Rows \ {root}) = N - 1
  BY <1>2, SquareMatrix, FS_RemoveElement
<1>6. N - 1 < N
  BY CostAssumption
<1>7. \E a, b \in Cols : a # b /\ yx[a] = yx[b]
  BY <1>4, <1>5, <1>6, SquareMatrix, FS_PigeonHole
<1> QED
  BY <1>3, <1>7

-------------------------------------------------------------------------------
(* The actions that leave labels and matching alone keep what is said of    *)
(* them.                                                                    *)
LEMMA LabelsKept ==
  ASSUME HungarianInv, UNCHANGED <<cost, labels, matching>>, pc # "flip", pc' # "done"
  PROVE  /\ \A r \in Rows, c \in Cols : Gap(r, c)' = Gap(r, c)
         /\ LabelsFeasible'
         /\ MatchInv'
         /\ Unmatched' = Unmatched
<1> USE DEF labels, matching
<1>1. \A r \in Rows, c \in Cols : Gap(r, c)' = Gap(r, c)
  BY DEF Gap
<1>2. LabelsFeasible'
  BY <1>1 DEF HungarianInv, LabelsFeasible
<1>3. Unmatched' = Unmatched
  BY DEF Unmatched
<1>4. MatchInv'
  <2>1. \A r \in Rows : xy[r] # None => xy[r] \in Cols
    BY DEF HungarianInv, TypeOK
  <2> QED
    BY <1>1, <1>3, <2>1 DEF HungarianInv, MatchInv
<1> QED
  BY <1>1, <1>2, <1>3, <1>4

LEMMA BeginStageKeeps ==
  ASSUME HungarianInv, BeginStage
  PROVE  HungarianInv'
<1> DEFINE root == Min(Unmatched)
<1>1. Unmatched # {}
  <2> SUFFICES ASSUME Unmatched = {} PROVE FALSE
    OBVIOUS
  <2>1. Rows \ Unmatched = Rows
    OBVIOUS
  <2>2. N = match_size
    BY <2>1, SquareMatrix DEF HungarianInv, MatchInv
  <2> QED
    BY <2>2, CostAssumption DEF BeginStage
<1>2. root \in Rows /\ xy[root] = None
  <2>1. Unmatched \in SUBSET Nat
    BY DEF Unmatched, Rows
  <2> QED
    BY <1>1, <2>1, LeastNumber DEF Unmatched
<1>3. /\ pc = "stage" /\ pc' = "search"
      /\ S' = {root} /\ T' = {} /\ q' = <<root>>
      /\ slack' = [c \in Cols |-> Gap(root, c)]
      /\ slackx' = [c \in Cols |-> root]
      /\ aug_path' = [r \in Rows |-> None]
      /\ UNCHANGED <<cost, labels, matching, x, y>>
  BY DEF BeginStage
<1> HIDE DEF root
<1>4. /\ \A r \in Rows, c \in Cols : Gap(r, c)' = Gap(r, c)
      /\ LabelsFeasible' /\ MatchInv'
  BY <1>3, LabelsKept
<1>5. \A c \in Cols : Gap(root, c) \in Nat
  BY <1>2, CostsAreNumbers DEF HungarianInv, LabelsFeasible
<1>6. TypeOK'
  BY <1>2, <1>3, <1>5 DEF HungarianInv, TypeOK, labels, matching
<1>7. TreeInv'
  <2>1. xy' = xy
    BY <1>3 DEF matching
  <2>2. \A c \in Cols : slackx'[c] \in S' /\ slack'[c] = Gap(slackx[c], c)'
    BY <1>2, <1>3, <1>4
  <2>3. \A r \in S', c \in Cols \ T' : slack'[c] <= Gap(r, c)'
    BY <1>2, <1>3, <1>4, <1>5
  <2>4. \E rank \in [Rows -> Nat] : \A r \in S' : Linked(rank, r)'
    <3> WITNESS [r \in Rows |-> 0] \in [Rows -> Nat]
    <3> QED
      BY <1>2, <1>3, <2>1 DEF Linked
  <2> QED
    BY <1>2, <1>3, <2>1, <2>2, <2>3, <2>4 DEF TreeInv
<1> QED
  BY <1>3, <1>4, <1>6, <1>7 DEF HungarianInv

LEMMA ReturnKeeps ==
  ASSUME HungarianInv, Return
  PROVE  HungarianInv'
<1>1. \A r \in Rows, c \in Cols : Gap(r, c)' = Gap(r, c)
  BY DEF Gap, Return, labels
<1>2. LabelsFeasible'
  BY <1>1 DEF HungarianInv, LabelsFeasible
<1>3. MatchInv'
  <2>1. \A r \in Rows : xy[r] # None => xy[r] \in Cols
    BY DEF HungarianInv, TypeOK
  <2> QED
    BY <1>1, <2>1 DEF HungarianInv, MatchInv, Return, matching, Unmatched
<1>4. TypeOK'
  BY DEF HungarianInv, TypeOK, Return, labels, matching, tree
<1> QED
  BY <1>2, <1>3, <1>4 DEF HungarianInv, Return, matching

(* A step on the way through the tree that changes neither it nor its queue *)
(* but for the front.                                                       *)
LEMMA TreeStays ==
  ASSUME HungarianInv, pc \in {"search", "scan", "tight"}, pc' \in {"search", "scan", "tight"},
         UNCHANGED <<cost, labels, matching, S, T, slack, slackx, aug_path>>,
         q' \in Seq(Rows), \A i \in 1 .. Len(q') : q'[i] \in S,
         x' \in Rows \cup {None}, y' \in 0 .. N + 1,
         pc' = "scan" => x' \in S,
         pc' # "search" => y' \in Cols
  PROVE  HungarianInv'
<1>1. /\ \A r \in Rows, c \in Cols : Gap(r, c)' = Gap(r, c)
      /\ LabelsFeasible' /\ MatchInv'
  BY LabelsKept
<1>2. TypeOK'
  BY DEF HungarianInv, TypeOK, labels, matching
<1>3. S \subseteq Rows /\ xy' = xy /\ yx' = yx /\ \A r \in Rows : xy[r] # None => xy[r] \in Cols
  BY DEF HungarianInv, TypeOK, matching
<1>4. TreeInv'
  <2>1. TreeInv
    BY DEF HungarianInv
  <2>2. \E rank \in [Rows -> Nat] : \A r \in S' : Linked(rank, r)'
    <3>1. PICK rank \in [Rows -> Nat] : \A r \in S : Linked(rank, r)
      BY <2>1 DEF TreeInv
    <3>2. \A r \in S' : Linked(rank, r)'
      BY <1>1, <1>3, <3>1 DEF Linked
    <3> QED
      BY <3>2
  <2>3. \A c \in Cols : slackx'[c] \in S' /\ slack'[c] = Gap(slackx[c], c)'
    BY <1>1, <1>3, <2>1 DEF TreeInv
  <2>4. \A r \in S', c \in Cols \ T' : slack'[c] <= Gap(r, c)'
    BY <1>1, <1>3, <2>1 DEF TreeInv
  <2> QED
    BY <1>3, <2>1, <2>2, <2>3, <2>4 DEF TreeInv
<1> QED
  BY <1>1, <1>2, <1>4 DEF HungarianInv

LEMMA QueueInTree ==
  ASSUME HungarianInv, pc \in {"search", "scan", "tight"}
  PROVE  q \in Seq(Rows) /\ \A i \in 1 .. Len(q) : q[i] \in S
  BY DEF HungarianInv, TypeOK, TreeInv

LEMMA TakeRowKeeps ==
  ASSUME HungarianInv, TakeRow
  PROVE  HungarianInv'
<1>1. pc = "search" /\ pc' = "scan" /\ q # <<>> /\ x' = Head(q) /\ q' = Tail(q) /\ y' = 1
  BY DEF TakeRow
<1>2. q \in Seq(Rows) /\ \A i \in 1 .. Len(q) : q[i] \in S
  BY <1>1, QueueInTree
<1>3. x' \in S /\ q' \in Seq(Rows) /\ \A i \in 1 .. Len(q') : q'[i] \in S
  BY <1>1, <1>2
<1>4. 1 \in Cols /\ S \subseteq Rows
  BY <1>1, FreeColumn, CostAssumption DEF Cols, HungarianInv, TypeOK
<1>5. 1 \in 0 .. N + 1
  BY CostAssumption
<1> QED
  BY <1>1, <1>3, <1>4, <1>5, TreeStays DEF TakeRow

LEMMA NextColumnFacts ==
  ASSUME NEW loop \in {"scan", "tight"}, HungarianInv, pc = loop, NextColumn(loop)
  PROVE  /\ y' \in 0 .. N + 1
         /\ pc' \in {"search", loop}
         /\ pc' # "search" => y' \in Cols
<1>1. y \in 1 .. N /\ N \in Nat
  BY CostAssumption DEF HungarianInv, TreeInv, Cols
<1> QED
  BY <1>1 DEF NextColumn, Cols

LEMMA NothingKeeps ==
  ASSUME HungarianInv, ScanNothing \/ TightNothing
  PROVE  HungarianInv'
<1>1. PICK loop \in {"scan", "tight"} :
        pc = loop /\ NextColumn(loop) /\ UNCHANGED <<cost, labels, matching, tree, x>>
  BY DEF ScanNothing, TightNothing
<1>2. /\ y' \in 0 .. N + 1
      /\ pc' \in {"search", loop}
      /\ pc' # "search" => y' \in Cols
  BY <1>1, NextColumnFacts
<1>3. q \in Seq(Rows) /\ \A i \in 1 .. Len(q) : q[i] \in S
  BY <1>1, QueueInTree
<1>4. x \in Rows \cup {None} /\ (pc = "scan" => x \in S)
  BY <1>1 DEF HungarianInv, TypeOK, TreeInv
<1> QED
  BY <1>1, <1>2, <1>3, <1>4, TreeStays DEF tree

-------------------------------------------------------------------------------
(* A matched column enters the tree, and with it the row it is matched      *)
(* with, which was not there.                                               *)
LEMMA PartnerIsNew ==
  ASSUME HungarianInv, pc \in {"scan", "tight"}, y \notin T, yx[y] # None
  PROVE  /\ y \in Cols /\ yx[y] \in Rows \ S
         /\ xy[yx[y]] = y
<1>1. y \in Cols
  BY DEF HungarianInv, TreeInv
<1>2. yx[y] \in Rows /\ xy[yx[y]] = y
  BY <1>1 DEF HungarianInv, TypeOK, MatchInv
<1>3. yx[y] \notin S
  <2>1. y # None
    BY <1>1 DEF Cols, None
  <2>2. \A r \in S : xy[r] # None => xy[r] \in T
    BY DEF HungarianInv, TreeInv
  <2> QED
    BY <1>2, <2>1, <2>2
<1> QED
  BY <1>1, <1>2, <1>3

LEMMA JoinKeeps ==
  ASSUME NEW loop \in {"scan", "tight"}, HungarianInv, pc = loop,
         NEW parent \in S, y \notin T, yx[y] # None, Gap(parent, y) = 0,
         T' = T \cup {y}, Join(yx[y], parent), NextColumn(loop),
         UNCHANGED <<cost, labels, matching, x>>
  PROVE  HungarianInv'
<1>0. PICK new \in Rows, col \in Cols : new = yx[y] /\ col = y
  BY PartnerIsNew
<1>1. /\ new \notin S /\ xy[new] = col
      /\ col \notin T /\ Gap(parent, col) = 0 /\ T' = T \cup {col}
  BY <1>0, PartnerIsNew
<1>2. /\ S' = S \cup {new} /\ q' = Append(q, new)
      /\ aug_path' = [aug_path EXCEPT ![new] = parent]
      /\ slack' = [c \in Cols |-> IF Gap(new, c) < slack[c] THEN Gap(new, c) ELSE slack[c]]
      /\ slackx' = [c \in Cols |-> IF Gap(new, c) < slack[c] THEN new ELSE slackx[c]]
  BY <1>0 DEF Join
<1>3. /\ y' \in 0 .. N + 1
      /\ pc' \in {"search", loop}
      /\ pc' # "search" => y' \in Cols
  BY NextColumnFacts
<1>4. /\ \A r \in Rows, c \in Cols : Gap(r, c)' = Gap(r, c)
      /\ LabelsFeasible' /\ MatchInv'
  BY <1>3, LabelsKept
<1>5. /\ xy' = xy /\ yx' = yx /\ S \subseteq Rows /\ T \subseteq Cols
      /\ aug_path \in [Rows -> Rows \cup {None}]
      /\ slack \in [Cols -> Nat] /\ slackx \in [Cols -> Rows \cup {None}]
      /\ \A r \in Rows : xy[r] # None => xy[r] \in Cols
  BY DEF HungarianInv, TypeOK, matching
<1>6. \A c \in Cols : Gap(new, c) \in Nat
  BY <1>1, CostsAreNumbers DEF HungarianInv, LabelsFeasible
<1>7. q' \in Seq(Rows) /\ \A i \in 1 .. Len(q') : q'[i] \in S'
  <2>1. q \in Seq(Rows) /\ \A i \in 1 .. Len(q) : q[i] \in S
    BY QueueInTree
  <2>2. q' \in Seq(Rows)
    BY <1>1, <1>2, <2>1
  <2>3. \A i \in 1 .. Len(q') : q'[i] = new \/ (i \in 1 .. Len(q) /\ q'[i] = q[i])
    BY <1>1, <1>2, <2>1
  <2> QED
    BY <1>2, <2>1, <2>2, <2>3
<1>8. TypeOK'
  <2>1. slack' \in [Cols -> Nat] /\ slackx' \in [Cols -> Rows \cup {None}]
    BY <1>1, <1>2, <1>5, <1>6
  <2>2. aug_path' \in [Rows -> Rows \cup {None}] /\ S' \in SUBSET Rows /\ T' \in SUBSET Cols
    BY <1>1, <1>2, <1>5
  <2> QED
    BY <1>3, <1>7, <2>1, <2>2 DEF HungarianInv, TypeOK, labels, matching
<1>9. TreeInv'
  <2>1. TreeInv
    BY DEF HungarianInv
  <2>2. \A c \in Cols : slackx'[c] \in S' /\ slack'[c] = Gap(slackx[c], c)'
    BY <1>1, <1>2, <1>4, <1>5, <2>1 DEF TreeInv
  <2>3. \A r \in S', c \in Cols \ T' : slack'[c] <= Gap(r, c)'
    <3> SUFFICES ASSUME NEW r \in S', NEW c \in Cols \ T'
                 PROVE  slack'[c] <= Gap(r, c)'
      OBVIOUS
    <3>1. slack'[c] <= slack[c] /\ slack'[c] <= Gap(new, c)
      BY <1>2, <1>5, <1>6
    <3>2. r = new \/ (r \in S /\ slack[c] <= Gap(r, c))
      BY <1>2, <2>1 DEF TreeInv
    <3>3. r \in Rows /\ Gap(r, c) \in Int /\ slack'[c] \in Int /\ slack[c] \in Int
      BY <1>1, <1>2, <1>5, <1>6, <3>2, CostsAreNumbers DEF HungarianInv
    <3> QED
      BY <1>4, <3>1, <3>2, <3>3
  <2>4. \E rank \in [Rows -> Nat] : \A r \in S' : Linked(rank, r)'
    <3>1. PICK rank \in [Rows -> Nat] : \A r \in S : Linked(rank, r)
      BY <2>1 DEF TreeInv
    <3> DEFINE longer == [rank EXCEPT ![new] = rank[parent] + 1]
    <3>2. longer \in [Rows -> Nat] /\ rank[parent] \in Nat
      BY <1>5, <3>1
    <3>3. longer[new] = rank[parent] + 1 /\ \A r \in S : longer[r] = rank[r]
      BY <1>1, <1>5, <3>1
    <3> HIDE DEF longer
    <3>4. \A r \in S : Linked(longer, r)'
      BY <1>1, <1>2, <1>4, <1>5, <3>1, <3>3 DEF Linked
    <3>5. Linked(longer, new)'
      <4>1. aug_path'[new] = parent /\ parent \in S' /\ col # None
        BY <1>1, <1>2, <1>5 DEF Cols, None
      <4>2. Gap(parent, col)' = 0
        BY <1>1, <1>4, <1>5
      <4>3. longer[parent] < longer[new]
        BY <1>5, <3>2, <3>3
      <4> QED
        BY <1>1, <1>4, <1>5, <4>1, <4>2, <4>3 DEF Linked
    <3> QED
      BY <1>2, <3>2, <3>4, <3>5
  <2>5. \A c \in T' : yx'[c] # None /\ yx'[c] \in S'
    BY <1>0, <1>1, <1>2, <1>5, <2>1 DEF TreeInv
  <2>6. \A r \in S' : xy'[r] # None => xy'[r] \in T'
    BY <1>1, <1>2, <1>5, <2>1 DEF TreeInv
  <2>7. (\E r \in S' : xy'[r] = None) /\ (pc' = "scan" => x' \in S')
    BY <1>2, <1>3, <1>5, <2>1 DEF TreeInv
  <2> QED
    BY <1>3, <1>7, <2>2, <2>3, <2>4, <2>5, <2>6, <2>7 DEF TreeInv
<1> QED
  BY <1>3, <1>4, <1>8, <1>9 DEF HungarianInv

LEMMA MatchedKeeps ==
  ASSUME HungarianInv, ScanMatched \/ TightMatched
  PROVE  HungarianInv'
<1>1. CASE ScanMatched
  <2>1. x \in S
    BY <1>1 DEF ScanMatched, HungarianInv, TreeInv
  <2> QED
    BY <1>1, <2>1, JoinKeeps DEF ScanMatched, Reachable
<1>2. CASE TightMatched
  <2>1. yx[y] \notin S /\ y \in Cols
    BY <1>2, PartnerIsNew DEF TightMatched, NowTight
  <2>2. slackx[y] \in S /\ Gap(slackx[y], y) = 0
    BY <1>2, <2>1 DEF TightMatched, NowTight, HungarianInv, TreeInv
  <2>3. Join(yx[y], slackx[y])
    BY <1>2, <2>1 DEF TightMatched
  <2> QED
    BY <1>2, <2>2, <2>3, JoinKeeps DEF TightMatched, NowTight
<1> QED
  BY <1>1, <1>2

-------------------------------------------------------------------------------
(* An unmatched column that a row of S reaches by a tight edge.             *)
LEMMA PathFound ==
  ASSUME HungarianInv, pc \in {"scan", "tight"}, pc' = "flip",
         NEW end \in S, x' = end, Gap(end, y) = 0, yx[y] = None,
         UNCHANGED <<cost, labels, matching, tree, y>>
  PROVE  HungarianInv'
<1>1. PICK col \in Cols : col = y
  BY DEF HungarianInv, TreeInv
<1>2. /\ \A r \in Rows, c \in Cols : Gap(r, c)' = Gap(r, c)
      /\ LabelsFeasible' /\ MatchInv'
  BY LabelsKept
<1>3. TypeOK'
  BY DEF HungarianInv, TypeOK, labels, matching, tree
<1>4. /\ S \subseteq Rows /\ xy' = xy /\ S' = S /\ aug_path' = aug_path /\ y' = col
      /\ \A r \in Rows : xy[r] # None => xy[r] \in Cols
  BY <1>1 DEF HungarianInv, TypeOK, matching, tree
<1>5. PathInv'
  <2>1. Gap(end, col)' = 0
    BY <1>1, <1>2, <1>4
  <2>2. \A r \in Rows : xy[r] # col
    <3> SUFFICES ASSUME NEW r \in Rows, xy[r] = col PROVE FALSE
      OBVIOUS
    <3>1. col # None /\ r # None
      BY DEF Rows, Cols, None
    <3>2. yx[col] = r
      BY <3>1 DEF HungarianInv, MatchInv
    <3> QED
      BY <1>1, <3>1, <3>2
  <2>3. PICK rank \in [Rows -> Nat] : \A r \in S : Linked(rank, r)
    BY DEF HungarianInv, TreeInv
  <2>4. \A r \in S' : Linked(rank, r)'
    BY <1>2, <1>4, <2>3 DEF Linked
  <2>5. Gap(x, y)' = 0
    BY <1>4, <2>1 DEF Gap
  <2> QED
    BY <1>1, <1>4, <2>2, <2>4, <2>5 DEF PathInv
<1> QED
  BY <1>2, <1>3, <1>5 DEF HungarianInv

LEMMA FreeKeeps ==
  ASSUME HungarianInv, ScanFree \/ TightFree
  PROVE  HungarianInv'
<1>1. CASE ScanFree
  <2>1. PICK end \in S : end = x
    BY <1>1 DEF ScanFree, HungarianInv, TreeInv
  <2> QED
    BY <1>1, <2>1, PathFound DEF ScanFree, Reachable
<1>2. CASE TightFree
  <2>1. y \in Cols
    BY <1>2 DEF TightFree, HungarianInv, TreeInv
  <2>2. PICK end \in S : end = slackx[y] /\ Gap(end, y) = 0
    BY <1>2, <2>1 DEF TightFree, NowTight, HungarianInv, TreeInv
  <2> QED
    BY <1>2, <2>2, PathFound DEF TightFree
<1> QED
  BY <1>1, <1>2

-------------------------------------------------------------------------------
(* The least slack is a number, and no more than that of any column out of  *)
(* the tree.                                                                *)
LEMMA DeltaIsLeast ==
  ASSUME HungarianInv, pc \in {"search", "scan", "tight"}
  PROVE  Delta \in Nat /\ \A c \in Cols \ T : Delta <= slack[c]
<1> DEFINE A == {slack[c] : c \in Cols \ T}
<1>1. A \in SUBSET Nat /\ A # {}
  BY FreeColumn DEF HungarianInv, TypeOK
<1>2. Min(A) \in A /\ \A a \in A : Min(A) <= a
  BY <1>1, LeastNumber
<1> QED
  BY <1>1, <1>2 DEF Delta

(* Between the tree and the rest, gaps shrink by the least slack; inside    *)
(* the tree and outside of it they stay; the others grow.                   *)
LEMMA ImproveKeeps ==
  ASSUME HungarianInv, ImproveLabels
  PROVE  HungarianInv'
<1>1. PICK D \in Nat : D = Delta /\ \A c \in Cols \ T : D <= slack[c]
  BY DeltaIsLeast DEF ImproveLabels
<1>2. /\ pc = "search" /\ pc' = "tight" /\ y' = 1 /\ x' = x
      /\ lx' = [r \in Rows |-> IF r \in S THEN lx[r] - D ELSE lx[r]]
      /\ ly' = [c \in Cols |-> IF c \in T THEN ly[c] + D ELSE ly[c]]
      /\ slack' = [c \in Cols |-> IF c \in T THEN slack[c] ELSE slack[c] - D]
      /\ cost' = cost /\ xy' = xy /\ yx' = yx /\ match_size' = match_size
      /\ S' = S /\ T' = T /\ slackx' = slackx /\ aug_path' = aug_path /\ q' = q
  BY <1>1 DEF ImproveLabels, matching
<1>3. /\ lx \in [Rows -> Int] /\ ly \in [Cols -> Nat] /\ slack \in [Cols -> Nat]
      /\ S \subseteq Rows /\ T \subseteq Cols
      /\ \A r \in Rows : xy[r] # None => xy[r] \in Cols
  BY DEF HungarianInv, TypeOK
<1>4. TreeInv /\ MatchInv
  BY <1>2 DEF HungarianInv
<1>5. 1 \in Cols /\ 1 \in 0 .. N + 1
  BY <1>2, FreeColumn, CostAssumption DEF Cols
<1>6. \A r \in Rows, c \in Cols : Gap(r, c) \in Nat
  BY CostsAreNumbers DEF HungarianInv, LabelsFeasible
<1>7. \A r \in S, c \in Cols \ T : Gap(r, c)' = Gap(r, c) - D
  BY <1>2, <1>3, CostsAreNumbers DEF Gap, HungarianInv
<1>8. \A r \in S, c \in T : Gap(r, c)' = Gap(r, c)
  BY <1>2, <1>3, CostsAreNumbers DEF Gap, HungarianInv
<1>9. \A r \in Rows \ S, c \in Cols \ T : Gap(r, c)' = Gap(r, c)
  BY <1>2, <1>3, CostsAreNumbers DEF Gap, HungarianInv
<1>10. \A r \in Rows \ S, c \in T : Gap(r, c)' = Gap(r, c) + D
  BY <1>2, <1>3, CostsAreNumbers DEF Gap, HungarianInv
<1>11. \A r \in S, c \in Cols \ T : D <= Gap(r, c)
  BY <1>1, <1>3, <1>4, <1>6 DEF TreeInv
<1>12. LabelsFeasible'
  <2> SUFFICES ASSUME NEW r \in Rows, NEW c \in Cols PROVE Gap(r, c)' >= 0
    BY DEF LabelsFeasible
  <2>1. Gap(r, c) \in Nat
    BY <1>6
  <2>2. CASE r \in S /\ c \notin T
    <3>1. Gap(r, c)' = Gap(r, c) - D /\ D <= Gap(r, c)
      BY <1>7, <1>11, <2>2
    <3> QED
      BY <2>1, <3>1
  <2>3. CASE r \in S /\ c \in T
    BY <1>8, <2>1, <2>3
  <2>4. CASE r \notin S /\ c \notin T
    BY <1>9, <2>1, <2>4
  <2>5. CASE r \notin S /\ c \in T
    BY <1>10, <2>1, <2>5
  <2> QED
    BY <2>2, <2>3, <2>4, <2>5
<1>13. MatchInv'
  <2>1. \A r \in Rows : xy'[r] # None => yx'[xy'[r]] = r /\ Gap(r, xy[r])' = 0
    <3> SUFFICES ASSUME NEW r \in Rows, NEW c \in Cols, xy[r] = c, c # None
                 PROVE  yx'[c] = r /\ Gap(r, c)' = 0
      BY <1>2, <1>3 DEF Gap
    <3>1. yx[c] = r /\ Gap(r, c) = 0
      BY <1>4 DEF MatchInv
    <3>2. r \in S <=> c \in T
      BY <1>4, <3>1 DEF TreeInv
    <3> QED
      BY <1>2, <1>8, <1>9, <3>1, <3>2
  <2>2. \A c \in Cols : yx'[c] # None => xy'[yx'[c]] = c
    BY <1>2, <1>4 DEF MatchInv
  <2> QED
    BY <1>2, <1>4, <2>1, <2>2 DEF MatchInv, Unmatched
<1>14. \A c \in Cols \ T : slack'[c] = slack[c] - D /\ slack'[c] \in Nat
  BY <1>1, <1>2, <1>3
<1>15. \A c \in T : slack'[c] = slack[c]
  BY <1>2, <1>3
<1>16. TypeOK'
  <2>1. lx' \in [Rows -> Int] /\ ly' \in [Cols -> Nat]
    BY <1>2, <1>3
  <2>2. slack' \in [Cols -> Nat]
    BY <1>2, <1>3, <1>14, <1>15
  <2> QED
    BY <1>2, <1>5, <2>1, <2>2 DEF HungarianInv, TypeOK
<1>17. TreeInv'
  <2>1. \A c \in Cols : slackx'[c] \in S' /\ slack'[c] = Gap(slackx[c], c)'
    <3> SUFFICES ASSUME NEW c \in Cols
                 PROVE  slackx[c] \in S /\ slack'[c] = Gap(slackx[c], c)'
      BY <1>2
    <3>1. PICK r \in S : r = slackx[c] /\ slack[c] = Gap(r, c)
      BY <1>4 DEF TreeInv
    <3>2. slack'[c] = Gap(r, c)'
      BY <1>7, <1>8, <1>14, <1>15, <3>1
    <3>3. Gap(slackx[c], c)' = Gap(r, c)'
      BY <1>2, <3>1 DEF Gap
    <3> QED
      BY <3>1, <3>2, <3>3
  <2>2. \A r \in S', c \in Cols \ T' : slack'[c] <= Gap(r, c)'
    <3> SUFFICES ASSUME NEW r \in S, NEW c \in Cols \ T
                 PROVE  slack'[c] <= Gap(r, c)'
      BY <1>2
    <3>1. slack[c] <= Gap(r, c) /\ slack[c] \in Nat /\ Gap(r, c) \in Nat
      BY <1>3, <1>4, <1>6 DEF TreeInv
    <3>2. Gap(r, c)' = Gap(r, c) - D /\ slack'[c] = slack[c] - D
      BY <1>7, <1>14
    <3> QED
      BY <3>1, <3>2
  <2>3. PICK rank \in [Rows -> Nat] : \A r \in S : Linked(rank, r)
    BY <1>4 DEF TreeInv
  <2>4. \A r \in S' : Linked(rank, r)'
    <3> SUFFICES ASSUME NEW r \in S PROVE Linked(rank, r)'
      BY <1>2
    <3>1. CASE xy[r] = None
      BY <1>2, <2>3, <3>1 DEF Linked
    <3>2. CASE xy[r] # None
      <4>1. PICK up \in S, c \in T : up = aug_path[r] /\ c = xy[r]
        BY <1>4, <2>3, <3>2 DEF TreeInv, Linked
      <4>2. rank[up] < rank[r] /\ Gap(up, c) = 0
        BY <2>3, <3>2, <4>1 DEF Linked
      <4>3. Gap(up, c)' = 0
        BY <1>8, <4>2
      <4>4. Gap(aug_path[r], xy[r])' = Gap(up, c)'
        BY <1>2, <4>1 DEF Gap
      <4> QED
        BY <1>2, <3>2, <4>1, <4>2, <4>3, <4>4 DEF Linked
    <3> QED
      BY <3>1, <3>2
  <2> QED
    BY <1>2, <1>4, <1>5, <2>1, <2>2, <2>4 DEF TreeInv
<1> QED
  BY <1>2, <1>12, <1>13, <1>16, <1>17 DEF HungarianInv

-------------------------------------------------------------------------------
(* Flipping one edge of the path: row x takes column y and leaves its old   *)
(* one to its parent; at the root there is none to leave.                   *)
LEMMA FlipKeeps ==
  ASSUME HungarianInv, Flip
  PROVE  HungarianInv'
<1>1. PICK row \in S, col \in Cols : row = x /\ col = y
  BY DEF Flip, HungarianInv, PathInv
<1>2. /\ pc = "flip" /\ x' = aug_path[row] /\ y' = xy[row]
      /\ yx' = [yx EXCEPT ![col] = row] /\ xy' = [xy EXCEPT ![row] = col]
      /\ cost' = cost /\ lx' = lx /\ ly' = ly
      /\ S' = S /\ T' = T /\ slack' = slack /\ slackx' = slackx
      /\ aug_path' = aug_path /\ q' = q
  BY <1>1 DEF Flip, labels, tree
<1>3. /\ aug_path[row] = None => match_size' = match_size + 1 /\ pc' = "stage"
      /\ aug_path[row] # None => match_size' = match_size /\ pc' = "flip"
  BY <1>1 DEF Flip
<1>4. /\ xy \in [Rows -> Cols \cup {None}] /\ yx \in [Cols -> Rows \cup {None}]
      /\ aug_path \in [Rows -> Rows \cup {None}] /\ S \subseteq Rows
      /\ row \in Rows /\ match_size \in 0 .. N
  BY <1>1 DEF HungarianInv, TypeOK
<1>5. None \notin Rows /\ None \notin Cols
  BY DEF None, Rows, Cols
<1>6. /\ Gap(row, col) = 0 /\ \A r \in Rows : xy[r] # col
  BY <1>1, <1>2 DEF HungarianInv, PathInv
<1>7. PICK rank \in [Rows -> Nat] : \A r \in S : rank[r] <= rank[row] => Linked(rank, r)
  BY <1>1, <1>2 DEF HungarianInv, PathInv
<1>8. Linked(rank, row)
  BY <1>4, <1>7
<1>9. \A r \in Rows, c \in Cols : Gap(r, c)' = Gap(r, c)
  BY <1>2 DEF Gap
<1>10. LabelsFeasible'
  BY <1>9 DEF HungarianInv, LabelsFeasible
<1>11. /\ \A r \in Rows : xy[r] # None => yx[xy[r]] = r /\ Gap(r, xy[r]) = 0
       /\ \A c \in Cols : yx[c] # None => xy[yx[c]] = c \/ c = col
       /\ Cardinality(Rows \ Unmatched) = match_size
  BY <1>1 DEF HungarianInv, MatchInv
<1>12. /\ xy'[row] = col /\ \A r \in Rows \ {row} : xy'[r] = xy[r]
       /\ yx'[col] = row /\ \A c \in Cols \ {col} : yx'[c] = yx[c]
  BY <1>2, <1>4
<1>13. \A r \in Rows : xy'[r] # None => yx'[xy'[r]] = r /\ Gap(r, xy[r])' = 0
  <2> SUFFICES ASSUME NEW r \in Rows, xy'[r] # None
               PROVE  yx'[xy'[r]] = r /\ Gap(r, xy[r])' = 0
    OBVIOUS
  <2>1. CASE r = row
    <3>1. Gap(row, xy[row])' = Gap(row, col)'
      BY <1>12 DEF Gap
    <3> QED
      BY <1>4, <1>6, <1>9, <1>12, <2>1, <3>1
  <2>2. CASE r # row
    <3>1. PICK c \in Cols : c = xy[r] /\ c # col /\ yx[c] = r /\ Gap(r, c) = 0
      BY <1>4, <1>6, <1>11, <1>12, <2>2
    <3>2. xy'[r] = c
      BY <1>12, <2>2, <3>1
    <3>3. Gap(r, xy[r])' = Gap(r, c)'
      BY <3>2 DEF Gap
    <3> QED
      BY <1>9, <1>12, <3>1, <3>2, <3>3
  <2> QED
    BY <2>1, <2>2
<1>14. \A c \in Cols : yx'[c] # None => xy'[yx'[c]] = c \/ (pc' = "flip" /\ c = y')
  <2> SUFFICES ASSUME NEW c \in Cols, yx'[c] # None, c # col
               PROVE  xy'[yx'[c]] = c \/ (pc' = "flip" /\ c = y')
    BY <1>12
  <2>1. PICK r \in Rows : r = yx[c] /\ r = yx'[c] /\ xy[r] = c
    BY <1>4, <1>11, <1>12
  <2>2. CASE r = row
    <3>1. aug_path[row] \in S
      BY <1>5, <1>8, <2>1, <2>2 DEF Linked
    <3> QED
      BY <1>2, <1>3, <1>4, <1>5, <2>1, <2>2, <3>1
  <2>3. CASE r # row
    BY <1>12, <2>1, <2>3
  <2> QED
    BY <2>2, <2>3
<1>15. Cardinality(Rows \ Unmatched') = match_size' /\ match_size' \in 0 .. N
  <2>1. CASE xy[row] = None
    <3>1. match_size' = match_size + 1
      BY <1>3, <1>8, <2>1 DEF Linked
    <3>2. /\ Rows \ Unmatched' = (Rows \ Unmatched) \cup {row}
          /\ row \notin Rows \ Unmatched
      BY <1>4, <1>5, <1>12, <2>1 DEF Unmatched
    <3>3. IsFiniteSet(Rows \ Unmatched) /\ IsFiniteSet(Rows \ Unmatched')
      BY SquareMatrix, FS_Subset
    <3>4. Cardinality(Rows \ Unmatched') = match_size + 1
      BY <1>11, <3>2, <3>3, FS_AddElement
    <3>5. Cardinality(Rows \ Unmatched') <= N
      BY SquareMatrix, FS_Subset
    <3> QED
      BY <1>4, <3>1, <3>4, <3>5, CostAssumption
  <2>2. CASE xy[row] # None
    <3>1. match_size' = match_size
      BY <1>3, <1>4, <1>5, <1>8, <2>2 DEF Linked
    <3>2. Unmatched' = Unmatched
      BY <1>4, <1>5, <1>12, <2>2 DEF Unmatched
    <3> QED
      BY <1>4, <1>11, <3>1, <3>2
  <2> QED
    BY <2>1, <2>2
<1>16. MatchInv'
  BY <1>13, <1>14, <1>15 DEF MatchInv
<1>17. TypeOK'
  <2>1. xy' \in [Rows -> Cols \cup {None}] /\ yx' \in [Cols -> Rows \cup {None}]
    BY <1>2, <1>4
  <2>2. x' \in Rows \cup {None} /\ y' \in 0 .. N + 1
    <3>1. xy[row] \in Cols \cup {None} /\ aug_path[row] \in Rows \cup {None}
      BY <1>4
    <3>2. \A c \in Cols \cup {None} : c \in 0 .. N + 1
      BY CostAssumption DEF Cols, None
    <3> QED
      BY <1>2, <3>1, <3>2
  <2>3. pc' \in {"stage", "flip"}
    BY <1>3
  <2> QED
    BY <1>2, <1>15, <2>1, <2>2, <2>3 DEF HungarianInv, TypeOK
<1>18. ASSUME pc' = "flip" PROVE PathInv'
  <2>1. PICK up \in S, old \in Cols : up = aug_path[row] /\ old = xy[row]
    BY <1>3, <1>4, <1>8, <1>18 DEF Linked
  <2>2. rank[up] < rank[row] /\ Gap(up, old) = 0
    BY <1>5, <1>8, <2>1 DEF Linked
  <2>3. x' = up /\ y' = old
    BY <1>2, <2>1
  <2>4. Gap(x, y)' = 0
    <3>1. Gap(x, y)' = Gap(up, old)'
      BY <2>3 DEF Gap
    <3> QED
      BY <1>4, <1>9, <2>2, <3>1
  <2>5. \A r \in Rows : xy'[r] # y'
    <3>1. \A r \in Rows \ {row} : xy[r] # old
      BY <1>4, <1>5, <1>11, <2>1
    <3> QED
      BY <1>4, <1>6, <1>12, <2>1, <2>3, <3>1
  <2>6. \A r \in S' : rank[r] <= rank[up] => Linked(rank, r)'
    <3> SUFFICES ASSUME NEW r \in S, rank[r] <= rank[up] PROVE Linked(rank, r)'
      BY <1>2
    <3>1. rank[r] \in Nat /\ rank[up] \in Nat /\ rank[row] \in Nat /\ r \in Rows
      BY <1>4, <1>7
    <3>2. r # row /\ rank[r] <= rank[row]
      BY <2>2, <3>1
    <3>3. Linked(rank, r) /\ xy'[r] = xy[r]
      BY <1>7, <1>12, <3>1, <3>2
    <3>4. CASE xy[r] = None
      BY <1>2, <3>3, <3>4 DEF Linked
    <3>5. CASE xy[r] # None
      <4>1. PICK p \in S, c \in Cols : p = aug_path[r] /\ c = xy[r]
        BY <1>4, <3>1, <3>3, <3>5 DEF Linked
      <4>2. rank[p] < rank[r] /\ Gap(p, c) = 0
        BY <3>3, <3>5, <4>1 DEF Linked
      <4>3. Gap(aug_path[r], xy[r])' = Gap(p, c)'
        BY <1>2, <3>3, <4>1 DEF Gap
      <4> QED
        BY <1>2, <1>4, <1>9, <3>3, <3>5, <4>1, <4>2, <4>3 DEF Linked
    <3> QED
      BY <3>4, <3>5
  <2> QED
    BY <1>2, <1>7, <2>1, <2>3, <2>4, <2>5, <2>6 DEF PathInv
<1> QED
  BY <1>3, <1>10, <1>16, <1>17, <1>18 DEF HungarianInv

-------------------------------------------------------------------------------
LEMMA StutterKeeps ==
  ASSUME HungarianInv, UNCHANGED vars
  PROVE  HungarianInv'
<1> USE DEF vars, labels, matching, tree
<1>1. \A r, c : Gap(r, c)' = Gap(r, c)
  BY DEF Gap
<1>2. TypeOK' /\ LabelsFeasible'
  BY <1>1 DEF HungarianInv, TypeOK, LabelsFeasible
<1>3. MatchInv'
  BY <1>1 DEF HungarianInv, MatchInv, Unmatched
<1>4. TreeInv' <=> TreeInv
  BY <1>1 DEF TreeInv, Linked
<1>5. PathInv' <=> PathInv
  BY <1>1 DEF PathInv, Linked
<1> QED
  BY <1>2, <1>3, <1>4, <1>5 DEF HungarianInv

(***************************************************************************)
(* HungarianInv holds in every reachable state, for a matrix of every size *)
(* and of every cost.                                                      *)
(***************************************************************************)
THEOREM HungarianInvariant == Spec => []HungarianInv
<1>1. Init => HungarianInv
  BY HungarianInit
<1>2. HungarianInv /\ [Next]_vars => HungarianInv'
  <2> SUFFICES ASSUME HungarianInv, [Next]_vars PROVE HungarianInv'
    OBVIOUS
  <2>1. CASE BeginStage
    BY <2>1, BeginStageKeeps
  <2>2. CASE Return
    BY <2>2, ReturnKeeps
  <2>3. CASE TakeRow
    BY <2>3, TakeRowKeeps
  <2>4. CASE ScanFree \/ TightFree
    BY <2>4, FreeKeeps
  <2>5. CASE ScanMatched \/ TightMatched
    BY <2>5, MatchedKeeps
  <2>6. CASE ScanNothing \/ TightNothing
    BY <2>6, NothingKeeps
  <2>7. CASE ImproveLabels
    BY <2>7, ImproveKeeps
  <2>8. CASE Flip
    BY <2>8, FlipKeeps
  <2>9. CASE UNCHANGED vars
    BY <2>9, StutterKeeps
  <2> QED
    BY <2>1, <2>2, <2>3, <2>4, <2>5, <2>6, <2>7, <2>8, <2>9 DEF Next, Step, Ended
<1> QED
  BY <1>1, <1>2, PTL DEF Spec

(***************************************************************************)
(* The slacks are never negative, and the indices stay inside the arrays   *)
(* (the slack updates of lines 62-69 and 230-235).                         *)
(***************************************************************************)
THEOREM HungarianTyped == Spec => []TypeOK
<1>1. HungarianInv => TypeOK
  BY DEF HungarianInv
<1> QED
  BY <1>1, HungarianInvariant, PTL

(***************************************************************************)
(* The labels are feasible at all times (comment at lines 131-133).        *)
(***************************************************************************)
THEOREM HungarianLabels == Spec => []LabelsFeasible
<1>1. HungarianInv => LabelsFeasible
  BY DEF HungarianInv
<1> QED
  BY <1>1, HungarianInvariant, PTL

(***************************************************************************)
(* slack and slackx agree while a tree grows (comment at lines 153-157).   *)
(***************************************************************************)
THEOREM HungarianSlack == Spec => []SlackIsGap
<1>1. HungarianInv => SlackIsGap
  BY DEF HungarianInv, TreeInv, SlackIsGap
<1> QED
  BY <1>1, HungarianInvariant, PTL

(***************************************************************************)
(* xy and yx describe one matching of tight edges, with an edge for every  *)
(* stage completed (comment at lines 120-128, lines 265-274).              *)
(***************************************************************************)
THEOREM HungarianMatching == Spec => []OneMatching
<1>1. HungarianInv => OneMatching
  BY DEF HungarianInv, MatchInv, OneMatching
<1> QED
  BY <1>1, HungarianInvariant, PTL

(***************************************************************************)
(* What the function returns is a perfect matching, along edges that cost  *)
(* exactly what the labels of their ends add up to, while no edge costs    *)
(* more: the labels certify that no assignment has a larger total.         *)
(***************************************************************************)
Certified ==
  /\ xy \in Bijection(Rows, Cols)
  /\ \A r \in Rows : cost[r][xy[r]] = lx[r] + ly[xy[r]]
  /\ \A r \in Rows, c \in Cols : cost[r][c] <= lx[r] + ly[c]

LEMMA DoneCertified ==
  ASSUME HungarianInv, pc = "done"
  PROVE  Certified
<1>1. Unmatched = {}
  <2>1. Cardinality(Rows \ Unmatched) = Cardinality(Rows)
    BY SquareMatrix DEF HungarianInv, MatchInv
  <2>2. Rows \ Unmatched = Rows
    <3>1. Rows \ Unmatched \in SUBSET Rows
      OBVIOUS
    <3> QED
      BY <2>1, <3>1, SquareMatrix, FS_Subset
  <2> QED
    BY <2>2 DEF Unmatched
<1>2. \A r \in Rows : xy[r] \in Cols /\ yx[xy[r]] = r /\ Gap(r, xy[r]) = 0
  BY <1>1 DEF Unmatched, HungarianInv, TypeOK, MatchInv
<1>3. xy \in Injection(Rows, Cols)
  BY <1>2 DEF HungarianInv, TypeOK, Injection, IsInjective
<1>4. ASSUME NEW c \in Cols PROVE \E r \in Rows : xy[r] = c
  <2> SUFFICES ASSUME \A r \in Rows : xy[r] # c PROVE FALSE
    OBVIOUS
  <2>1. xy \in [Rows -> Cols \ {c}]
    BY <1>2 DEF HungarianInv, TypeOK
  <2>2. /\ IsFiniteSet(Cols \ {c}) /\ Cardinality(Cols \ {c}) = N - 1
        /\ N - 1 < N
    <3>1. IsFiniteSet(Cols \ {c}) /\ Cardinality(Cols \ {c}) = N - 1
      BY SquareMatrix, FS_RemoveElement
    <3>2. N - 1 < N
      BY CostAssumption
    <3> QED
      BY <3>1, <3>2
  <2>3. \E a, b \in Rows : a # b /\ xy[a] = xy[b]
    BY <2>1, <2>2, SquareMatrix, FS_PigeonHole
  <2> QED
    BY <1>2, <2>3
<1>5. xy \in Bijection(Rows, Cols)
  BY <1>3, <1>4 DEF Injection, Surjection, Bijection
<1>6. lx \in [Rows -> Int] /\ ly \in [Cols -> Nat]
  BY DEF HungarianInv, TypeOK
<1>7. \A r \in Rows : cost[r][xy[r]] = lx[r] + ly[xy[r]]
  <2> SUFFICES ASSUME NEW r \in Rows PROVE cost[r][xy[r]] = lx[r] + ly[xy[r]]
    OBVIOUS
  <2>1. PICK c \in Cols : c = xy[r] /\ Gap(r, c) = 0
    BY <1>2
  <2>2. cost[r][c] \in Int /\ lx[r] \in Int /\ ly[c] \in Int
    BY <1>6, CostsAreNumbers DEF HungarianInv
  <2> QED
    BY <2>1, <2>2 DEF Gap
<1>8. \A r \in Rows, c \in Cols : cost[r][c] <= lx[r] + ly[c]
  BY <1>6, CostsAreNumbers DEF HungarianInv, LabelsFeasible, Gap
<1> QED
  BY <1>5, <1>7, <1>8 DEF Certified

THEOREM HungarianCertificate == Spec => [](pc = "done" => Certified)
<1>1. HungarianInv => (pc = "done" => Certified)
  BY DoneCertified
<1> QED
  BY <1>1, HungarianInvariant, PTL

(***************************************************************************)
(* The function keeps its contract: what it returns is an assignment of    *)
(* the largest total cost (max_cost_assignment_abstract.h lines 46-52).    *)
(* The labels bound the total of every assignment, and the tight edges of  *)
(* the result reach that bound.                                            *)
(***************************************************************************)
THEOREM HungarianOptimal == Spec => []ResultIsBest
<1>1. ASSUME HungarianInv, pc = "done" PROVE xy \in MaxCostAssignments(cost)
  <2>1. /\ IsFiniteSet(Rows) /\ Cols = Rows
        /\ cost \in [Rows -> [Rows -> Int]]
        /\ DOMAIN cost = Rows
        /\ lx \in [Rows -> Int] /\ ly \in [Rows -> Int]
    <3>1. cost \in [Rows -> [Cols -> Int]]
      BY <1>1, CostAssumption DEF HungarianInv, TypeOK
    <3>2. Cols = Rows
      BY DEF Rows, Cols
    <3> QED
      BY <1>1, <3>1, <3>2, SquareMatrix DEF HungarianInv, TypeOK
  <2>2. xy \in Injection(Rows, Rows) /\ Feasible(cost, lx, ly, Rows) /\ Tight(cost, lx, ly, xy, Rows)
    BY <1>1, <2>1, DoneCertified DEF Certified, Bijection, Feasible, Tight
  <2>3. PICK m : IsSum(m, lx, Rows)
    BY <2>1, SumExists
  <2>4. PICK n : IsSum(n, ly, Rows)
    BY <2>1, SumExists
  <2>5. ASSUME NEW a \in Injection(Rows, Rows)
        PROVE  /\ Total(cost, a) \in Int
               /\ Total(cost, a) <= m[Rows] + n[Rows]
               /\ Total(cost, a) = m[Rows] + n[Rows] <=> Tight(cost, lx, ly, a, Rows)
    <3>1. PICK C, u, v : C = cost /\ u = lx /\ v = ly
      OBVIOUS
    <3>2. C \in [Rows -> [Rows -> Int]] /\ u \in [Rows -> Int] /\ v \in [Rows -> Int]
      BY <2>1, <3>1
    <3>3. IsSum(m, u, Rows) /\ IsSum(n, v, Rows) /\ Feasible(C, u, v, Rows)
      BY <2>2, <2>3, <2>4, <3>1
    <3>5. IsFiniteSet(Rows)
      BY <2>1
    <3>4. /\ Total(C, a) \in Int
          /\ Total(C, a) <= m[Rows] + n[Rows]
          /\ Total(C, a) = m[Rows] + n[Rows] <=> Tight(C, u, v, a, Rows)
      BY <3>2, <3>3, <3>5, TotalInLabels, Zenon
    <3> QED
      BY <3>1, <3>4, Zenon
  <2>6. Total(cost, xy) = m[Rows] + n[Rows]
    BY <2>2, <2>5
  <2>7. \A a \in Injection(Rows, Rows) :
          Total(cost, a) \in Int /\ Total(cost, a) <= Total(cost, xy)
    BY <2>5, <2>6
  <2> QED
    BY <2>1, <2>2, <2>7, BestTotal
<1>2. HungarianInv => ResultIsBest
  BY <1>1 DEF ResultIsBest
<1> QED
  BY <1>2, HungarianInvariant, PTL
===============================================================================
