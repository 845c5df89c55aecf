---------------------------- MODULE MaxCostAssignment ----------------------------
(***************************************************************************)
(* dlib::max_cost_assignment (dlib/optimization/max_cost_assignment.h),    *)
(* the Hungarian algorithm by which the tracker assigns blobs to objects.  *)
(*                                                                         *)
(* Rows x and columns y carry labels; an edge is tight when the labels of  *)
(* its ends add up to its cost.  A stage grows a tree of alternating tight *)
(* edges from an unmatched row, S and T being the rows and columns in it.  *)
(* When the tree cannot grow the labels are improved; when it reaches an   *)
(* unmatched column, the edges of the path to it are flipped, which adds   *)
(* one edge to the matching.  After as many stages as there are rows, all  *)
(* are matched.                                                            *)
(***************************************************************************)
EXTENDS Assignment

CONSTANTS
  N,        \* rows and columns of the matrix
  Costs     \* the matrices of costs that may be asked for

Rows == 1 .. N
Cols == 1 .. N
None == 0     \* -1 in the code, which numbers from 0

ASSUME CostAssumption ==
  /\ N \in Nat
  /\ Costs \subseteq [Rows -> [Cols -> Int]]

VARIABLES
  cost,         \* the matrix
  lx, ly,       \* the labels
  xy, yx,       \* the matching: the column of a row, the row of a column
  S, T,         \* the rows and columns of the tree
  slack,        \* per column, what keeps it from being tight with a row of S
  slackx,       \* that row
  aug_path,     \* the row before a row on the way from the root
  q,            \* the rows of the tree that were not looked at yet
  x, y,         \* the edge that is looked at, or flipped
  match_size,   \* stages completed
  pc

labels   == <<lx, ly>>
matching == <<xy, yx, match_size>>
tree     == <<S, T, slack, slackx, aug_path, q>>
vars     == <<cost, labels, matching, tree, x, y, pc>>

Gap(r, c) == lx[r] + ly[c] - cost[r][c]

Unmatched == {r \in Rows : xy[r] = None}

(* Nothing is matched; a row's label is the largest of its costs (118-137). *)
Init ==
  /\ cost \in Costs
  /\ lx = [r \in Rows |-> Max({cost[r][c] : c \in Cols})]
  /\ ly = [c \in Cols |-> 0]
  /\ xy = [r \in Rows |-> None]
  /\ yx = [c \in Cols |-> None]
  /\ S = {} /\ T = {}
  /\ slack = [c \in Cols |-> 0]
  /\ slackx = [c \in Cols |-> None]
  /\ aug_path = [r \in Rows |-> None]
  /\ q = <<>>
  /\ x = None /\ y = None
  /\ match_size = 0
  /\ pc = "stage"

(* A new tree from the first unmatched row; compute_slack lowers every      *)
(* slack, for each is the largest int before (lines 141-173).               *)
BeginStage ==
  /\ pc = "stage"
  /\ match_size < N
  /\ LET root == Min(Unmatched)
     IN  /\ S' = {root}
         /\ q' = <<root>>
         /\ slack' = [c \in Cols |-> Gap(root, c)]
         /\ slackx' = [c \in Cols |-> root]
  /\ T' = {}
  /\ aug_path' = [r \in Rows |-> None]
  /\ pc' = "search"
  /\ UNCHANGED <<cost, labels, matching, x, y>>

Return ==
  /\ pc = "stage"
  /\ match_size = N
  /\ pc' = "done"
  /\ UNCHANGED <<cost, labels, matching, tree, x, y>>

-------------------------------------------------------------------------------
(* Mutated form: the slacks are not computed.                               *)
JoinBlind(r, parent) ==
  /\ q' = Append(q, r)
  /\ aug_path' = [aug_path EXCEPT ![r] = parent]
  /\ S' = S \cup {r}
  /\ UNCHANGED <<slack, slackx>>

(* Row r joins the tree behind row parent, with compute_slack (lines 201-   *)
(* 205, 254-258; 54-71).                                                    *)
Join(r, parent) ==
  /\ q' = Append(q, r)
  /\ aug_path' = [aug_path EXCEPT ![r] = parent]
  /\ S' = S \cup {r}
  /\ slack' = [c \in Cols |-> IF Gap(r, c) < slack[c] THEN Gap(r, c) ELSE slack[c]]
  /\ slackx' = [c \in Cols |-> IF Gap(r, c) < slack[c] THEN r ELSE slackx[c]]

(* The next row of the queue (lines 183-187).                               *)
TakeRow ==
  /\ pc = "search"
  /\ q # <<>>
  /\ x' = Head(q)
  /\ q' = Tail(q)
  /\ y' = 1
  /\ pc' = "scan"
  /\ UNCHANGED <<cost, labels, matching, S, T, slack, slackx, aug_path>>

(* On to the next column, or past the last one.                             *)
NextColumn(loop) ==
  /\ y' = y + 1
  /\ pc' = IF y = N THEN "search" ELSE loop

(* Mutated form: any column that is not in the tree will do.                *)
ReachableAny == y \notin T

(* The test of line 189.                                                    *)
Reachable == Gap(x, y) = 0 /\ y \notin T

(* The edge from row x to column y (lines 187-206): a tight one to an       *)
(* unmatched column ends the search, one to another column brings that and  *)
(* the row it is matched with into the tree.                                *)
ScanFree ==
  /\ pc = "scan"
  /\ Reachable
  /\ yx[y] = None
  /\ pc' = "flip"
  /\ UNCHANGED <<cost, labels, matching, tree, x, y>>

ScanMatched ==
  /\ pc = "scan"
  /\ Reachable
  /\ yx[y] # None
  /\ T' = T \cup {y}
  /\ Join(yx[y], x)
  /\ NextColumn("scan")
  /\ UNCHANGED <<cost, labels, matching, x>>

ScanNothing ==
  /\ pc = "scan"
  /\ ~Reachable
  /\ NextColumn("scan")
  /\ UNCHANGED <<cost, labels, matching, tree, x>>

-------------------------------------------------------------------------------
(* Mutated forms: the least slack of all columns, the one of the first.     *)
DeltaOfAll == Min({slack[c] : c \in Cols})

DeltaOfFirst == slack[Min(Cols \ T)]

(* The least slack of the columns out of the tree (lines 217-222).          *)
Delta == Min({slack[c] : c \in Cols \ T})

(* Mutated form: the slacks stay.                                           *)
ImproveLabelsOnly ==
  /\ pc = "search"
  /\ q = <<>>
  /\ lx' = [r \in Rows |-> IF r \in S THEN lx[r] - Delta ELSE lx[r]]
  /\ ly' = [c \in Cols |-> IF c \in T THEN ly[c] + Delta ELSE ly[c]]
  /\ y' = 1
  /\ pc' = "tight"
  /\ UNCHANGED <<cost, matching, tree, x>>

(* The tree cannot grow: improve the labels (lines 214-236).  The queue is  *)
(* empty already.                                                           *)
ImproveLabels ==
  /\ pc = "search"
  /\ q = <<>>
  /\ lx' = [r \in Rows |-> IF r \in S THEN lx[r] - Delta ELSE lx[r]]
  /\ ly' = [c \in Cols |-> IF c \in T THEN ly[c] + Delta ELSE ly[c]]
  /\ slack' = [c \in Cols |-> IF c \in T THEN slack[c] ELSE slack[c] - Delta]
  /\ y' = 1
  /\ pc' = "tight"
  /\ UNCHANGED <<cost, matching, S, T, slackx, aug_path, q, x>>

(* Column y after that (lines 237-262).                                     *)
NowTight == y \notin T /\ slack[y] = 0

TightFree ==
  /\ pc = "tight"
  /\ NowTight
  /\ yx[y] = None
  /\ x' = slackx[y]
  /\ pc' = "flip"
  /\ UNCHANGED <<cost, labels, matching, tree, y>>

TightMatched ==
  /\ pc = "tight"
  /\ NowTight
  /\ yx[y] # None
  /\ T' = T \cup {y}
  /\ IF yx[y] \in S THEN UNCHANGED <<S, slack, slackx, aug_path, q>>
                    ELSE Join(yx[y], slackx[y])
  /\ NextColumn("tight")
  /\ UNCHANGED <<cost, labels, matching, x>>

TightNothing ==
  /\ pc = "tight"
  /\ ~NowTight
  /\ NextColumn("tight")
  /\ UNCHANGED <<cost, labels, matching, tree, x>>

-------------------------------------------------------------------------------
(* Mutated form: the path ends one row early.                               *)
FlipShort ==
  /\ pc = "flip"
  /\ yx' = [yx EXCEPT ![y] = x]
  /\ xy' = [xy EXCEPT ![x] = y]
  /\ match_size' = match_size + 1
  /\ pc' = "stage"
  /\ UNCHANGED <<cost, labels, tree, x, y>>

(* One edge of the path, from its end to the root (lines 267-274).          *)
Flip ==
  /\ pc = "flip"
  /\ yx' = [yx EXCEPT ![y] = x]
  /\ xy' = [xy EXCEPT ![x] = y]
  /\ x' = aug_path[x]
  /\ y' = xy[x]
  /\ IF x' = None
       THEN match_size' = match_size + 1 /\ pc' = "stage"
       ELSE UNCHANGED <<match_size, pc>>
  /\ UNCHANGED <<cost, labels, tree>>

Ended == pc = "done" /\ UNCHANGED vars

Step ==
  \/ BeginStage
  \/ Return
  \/ TakeRow
  \/ ScanFree
  \/ ScanMatched
  \/ ScanNothing
  \/ ImproveLabels
  \/ TightFree
  \/ TightMatched
  \/ TightNothing
  \/ Flip

Next == Step \/ Ended

Spec == Init /\ [][Next]_vars

(* It is a function: it runs on until it returns.                           *)
FairSpec == Spec /\ WF_vars(Step)

(* The slacks in particular are never negative.                             *)
TypeOK ==
  /\ cost \in Costs
  /\ lx \in [Rows -> Int] /\ ly \in [Cols -> Nat]
  /\ xy \in [Rows -> Cols \cup {None}] /\ yx \in [Cols -> Rows \cup {None}]
  /\ S \in SUBSET Rows /\ T \in SUBSET Cols
  /\ slack \in [Cols -> Nat]
  /\ slackx \in [Cols -> Rows \cup {None}]
  /\ aug_path \in [Rows -> Rows \cup {None}]
  /\ q \in Seq(Rows)
  /\ x \in Rows \cup {None} /\ y \in 0 .. N + 1
  /\ match_size \in 0 .. N
  /\ pc \in {"stage", "search", "scan", "tight", "flip", "done"}

-------------------------------------------------------------------------------
(***************************************************************************)
(* "In the following code we will always have: for all valid x and y:      *)
(* lx[x] + ly[y] >= cost(x,y)" (lines 131-133).                            *)
(***************************************************************************)
LabelsFeasible == \A r \in Rows, c \in Cols : Gap(r, c) >= 0

(***************************************************************************)
(* "slack and slackx are maintained such that we always have: for all y:   *)
(* let x == slackx[y]; slack[y] == lx[x] + ly[y] - cost(x,y)" (153-157),   *)
(* and that row is one of S.                                               *)
(***************************************************************************)
SlackIsGap ==
  pc \in {"search", "scan", "tight"} =>
    \A c \in Cols : slackx[c] \in S /\ slack[c] = Gap(slackx[c], c)

(***************************************************************************)
(* "Vertex x is matched to vertex xy[x] and vertex y is matched to vertex  *)
(* yx[y]" (lines 120-128): the two arrays describe one matching of tight   *)
(* edges, as many as there were stages, whenever no path is being flipped. *)
(***************************************************************************)
OneMatching ==
  pc # "flip" =>
    /\ \A r \in Rows : xy[r] # None => yx[xy[r]] = r /\ Gap(r, xy[r]) = 0
    /\ \A c \in Cols : yx[c] # None => xy[yx[c]] = c
    /\ Cardinality(Rows \ Unmatched) = match_size

(***************************************************************************)
(* The result keeps the contract: an assignment of the largest total cost  *)
(* (max_cost_assignment_abstract.h lines 46-52).                           *)
(***************************************************************************)
ResultIsBest == pc = "done" => xy \in MaxCostAssignments(cost)

(***************************************************************************)
(* The search for an augmenting path always ends, and so does the function *)
(* (lines 181-263): every improvement makes an edge tight that was not.    *)
(***************************************************************************)
Returns == <>(pc = "done")
===============================================================================
