----------------------------- MODULE BoardProofs -----------------------------
(***************************************************************************)
(* Theorems about PriorityBoard and the score: for every set of            *)
(* applications, contents, patches, workers, readers and queries.          *)
(***************************************************************************)
EXTENDS PriorityBoard, CollectionFacts

-----------------------------------------------------------------------------
(* The score.                                                                *)

LEMMA PointsAreIntegers ==
    ASSUME NEW option
    PROVE  /\ Points(DeadlinePoints, option) \in Int
           /\ Points(SizePoints, option) \in Int
           /\ Points(ScopePoints, option) \in Int
           /\ Points(TypePoints, option) \in Int
           /\ Points(NichePoints, option) \in Int
           /\ Points(RolePoints, option) \in Int
<1>1. Points(DeadlinePoints, option) \in Int BY DEF Points, DeadlinePoints
<1>2. Points(SizePoints, option) \in Int BY DEF Points, SizePoints
<1>3. Points(ScopePoints, option) \in Int BY DEF Points, ScopePoints
<1>4. Points(TypePoints, option) \in Int BY DEF Points, TypePoints
<1>5. Points(NichePoints, option) \in Int BY DEF Points, NichePoints
<1>6. Points(RolePoints, option) \in Int BY DEF Points, RolePoints
<1>7. QED BY <1>1, <1>2, <1>3, <1>4, <1>5, <1>6

LEMMA BudgetPointsInteger ==
    ASSUME NEW b \in Nat
    PROVE  BudgetPoints(b) \in Int
<1> DEFINE cleared == {i \in 1 .. Len(BudgetTiers) : b >= BudgetTiers[i][1]}
           first == CHOOSE i \in cleared : \A j \in cleared : i <= j
<1>1. Len(BudgetTiers) = 4 BY DEF BudgetTiers
<1>2. CASE cleared = {} BY <1>2 DEF BudgetPoints
<1>3. CASE cleared # {}
  <2>1. cleared \subseteq 1 .. 4 BY <1>1
  <2>2. \E i \in cleared : \A j \in cleared : i <= j
    <3>1. CASE 1 \in cleared BY <2>1, <3>1
    <3>2. CASE 1 \notin cleared /\ 2 \in cleared BY <2>1, <3>2
    <3>3. CASE 1 \notin cleared /\ 2 \notin cleared /\ 3 \in cleared BY <2>1, <3>3
    <3>4. CASE 1 \notin cleared /\ 2 \notin cleared /\ 3 \notin cleared
      <4>1. \A i \in cleared : i = 4 BY <2>1, <3>4
      <4>2. QED BY <4>1, <1>3
    <3>5. QED BY <3>1, <3>2, <3>3, <3>4
  <2>3. first \in cleared BY <2>2
  <2>4. \A i \in 1 .. 4 : BudgetTiers[i][2] \in Int BY DEF BudgetTiers
  <2>5. BudgetTiers[first][2] \in Int BY <2>1, <2>3, <2>4
  <2>6. QED BY <1>3, <2>5 DEF BudgetPoints
<1>4. QED BY <1>2, <1>3

(* Every application scores between 0 and 100, what ApplicationPriorityRead  *)
(* demands of a response.                                                    *)
THEOREM ScoreInRange ==
    ASSUME NEW a \in Application
    PROVE  Score(a) \in MinScore .. MaxScore
<1>1. BudgetPoints(a.budget) \in Int BY BudgetPointsInteger DEF Application
<1>2. UrgencyPoints(a) \in Int BY DEF UrgencyPoints
<1>3. RawScore(a) \in Int BY <1>1, <1>2, PointsAreIntegers DEF RawScore
<1>4. QED BY <1>3 DEF Score, MinScore, MaxScore

(* A score lies in the band of its level and in no other, for every score.   *)
THEOREM BandsPartition ==
    ASSUME NEW s \in MinScore .. MaxScore, NEW level \in Levels
    PROVE  InBand(s, level) <=> level = Level(s)
BY DEF InBand, Bounds, Level, Levels, MinScore, MaxScore, HotThreshold, MediumThreshold

\* The first tier that is cleared, written out.
LEMMA BudgetPointsByTier ==
    ASSUME NEW b \in Nat
    PROVE  BudgetPoints(b) = IF b >= 50 THEN 20 ELSE IF b >= 25 THEN 15
                             ELSE IF b >= 15 THEN 10 ELSE IF b >= 8 THEN 5 ELSE 0
<1> DEFINE cleared == {i \in 1 .. Len(BudgetTiers) : b >= BudgetTiers[i][1]}
           first == CHOOSE i \in cleared : \A j \in cleared : i <= j
<1>1. /\ Len(BudgetTiers) = 4
      /\ BudgetTiers[1] = <<50, 20>> /\ BudgetTiers[2] = <<25, 15>>
      /\ BudgetTiers[3] = <<15, 10>> /\ BudgetTiers[4] = <<8, 5>>
  BY DEF BudgetTiers
<1>2. /\ cleared \subseteq 1 .. 4
      /\ 1 \in cleared <=> b >= 50
      /\ 2 \in cleared <=> b >= 25
      /\ 3 \in cleared <=> b >= 15
      /\ 4 \in cleared <=> b >= 8
  BY <1>1
<1>3. BudgetPoints(b) = IF cleared = {} THEN 0 ELSE BudgetTiers[first][2]
  BY DEF BudgetPoints
<1> HIDE DEF cleared
<1>4. ASSUME NEW i \in 1 .. 4, i \in cleared, \A j \in cleared : i <= j
      PROVE  first = i /\ cleared # {}
  <2>1. first \in cleared /\ \A j \in cleared : first <= j
    BY <1>4
  <2>2. first \in 1 .. 4 /\ first <= i /\ i <= first
    BY <1>2, <1>4, <2>1
  <2> HIDE DEF first
  <2> QED BY <1>4, <2>2
<1> HIDE DEF first
<1>5. CASE b >= 50
  <2>1. first = 1 /\ cleared # {}
    BY <1>2, <1>4, <1>5
  <2> QED BY <1>1, <1>3, <1>5, <2>1
<1>6. CASE b < 50 /\ b >= 25
  <2>1. first = 2 /\ cleared # {}
    BY <1>2, <1>4, <1>6
  <2> QED BY <1>1, <1>3, <1>6, <2>1
<1>7. CASE b < 25 /\ b >= 15
  <2>1. first = 3 /\ cleared # {}
    BY <1>2, <1>4, <1>7
  <2> QED BY <1>1, <1>3, <1>7, <2>1
<1>8. CASE b < 15 /\ b >= 8
  <2>1. first = 4 /\ cleared # {}
    BY <1>2, <1>4, <1>8
  <2> QED BY <1>1, <1>3, <1>8, <2>1
<1>9. CASE b < 8
  <2>1. \A i \in 1 .. 4 : i \notin cleared
    BY <1>2, <1>9
  <2>2. cleared = {}
    BY <1>2, <2>1
  <2> QED BY <1>3, <1>9, <2>2
<1> QED BY <1>5, <1>6, <1>7, <1>8, <1>9

\* More points before the cut are no fewer after it.
LEMMA CutKeepsOrder ==
    ASSUME NEW a \in Application, NEW b \in Application, RawScore(b) >= RawScore(a)
    PROVE  Score(b) >= Score(a)
<1>1. BudgetPoints(a.budget) \in Int /\ BudgetPoints(b.budget) \in Int
  BY BudgetPointsInteger DEF Application
<1>2. UrgencyPoints(a) \in Int /\ UrgencyPoints(b) \in Int
  BY DEF UrgencyPoints
<1>3. RawScore(a) \in Int /\ RawScore(b) \in Int
  BY <1>1, <1>2, PointsAreIntegers DEF RawScore
<1> QED BY <1>3 DEF Score, MinScore, MaxScore

\* The points of the answers that no table holds.
LEMMA OtherPoints ==
    ASSUME NEW a \in Application
    PROVE  /\ BudgetPoints(a.budget) \in Int /\ UrgencyPoints(a) \in Int
           /\ (IF a.complete THEN 5 ELSE 0) \in Int
BY BudgetPointsInteger DEF UrgencyPoints, Application

(* An answer worth as much or more never costs points, the personal manager  *)
(* or the fleet team, for any application, any answer and any budget.        *)
THEOREM BetterAnswers ==
    ASSUME NEW a \in Application, NEW b \in Improved(a)
    PROVE  /\ b \in Application /\ Score(b) >= Score(a)
           /\ NeedsManager(a) => NeedsManager(b)
           /\ Team(a) = "fleets" => Team(b) = "fleets"
<1>1. a = [deadline |-> a.deadline, size |-> a.size, scope |-> a.scope, type |-> a.type,
           niche |-> a.niche, role |-> a.role, budget |-> a.budget,
           markers |-> a.markers, complete |-> a.complete]
      /\ a.deadline \in Deadlines /\ a.size \in Sizes /\ a.scope \in Scopes
      /\ a.type \in Types /\ a.niche \in Niches /\ a.role \in Roles /\ a.budget \in Nat
      /\ a.markers \in SUBSET Markers /\ a.complete \in BOOLEAN
  BY DEF Application
<1> DEFINE Fits == /\ b \in Application /\ RawScore(b) >= RawScore(a)
                   /\ (a.scope = "fleet" => b.scope = "fleet")
                   /\ (a.size \in FleetSizes => b.size \in FleetSizes)
                   /\ (a.niche = "fleet" => b.niche = "fleet")
                   /\ a.scope = "regular" /\ a.niche \in CorporateNiches =>
                         \/ b.scope = "fleet"
                         \/ b.scope = "regular" /\ b.niche \in CorporateNiches
<1>2. ASSUME \E o \in AtLeast(DeadlinePoints, Deadlines, a.deadline) : b = [a EXCEPT !.deadline = o]
      PROVE  Fits
  <2>1. PICK o \in Deadlines : /\ Points(DeadlinePoints, o) >= Points(DeadlinePoints, a.deadline)
                               /\ b = [a EXCEPT !.deadline = o]
    BY <1>2 DEF AtLeast
  <2>2. /\ b.deadline = o /\ b.size = a.size /\ b.scope = a.scope /\ b.type = a.type
        /\ b.niche = a.niche /\ b.role = a.role /\ b.budget = a.budget
        /\ b.markers = a.markers /\ b.complete = a.complete /\ b \in Application
    BY <1>1, <2>1 DEF Application
  <2>3. UrgencyPoints(b) = UrgencyPoints(a)
    BY <2>2 DEF UrgencyPoints
  <2>4. RawScore(b) >= RawScore(a)
    BY <2>1, <2>2, <2>3, PointsAreIntegers, OtherPoints DEF RawScore
  <2> QED BY <2>2, <2>4
<1>3. ASSUME \E o \in AtLeast(SizePoints, Sizes, a.size) : b = [a EXCEPT !.size = o]
      PROVE  Fits
  <2>1. PICK o \in Sizes : /\ Points(SizePoints, o) >= Points(SizePoints, a.size)
                           /\ b = [a EXCEPT !.size = o]
    BY <1>3 DEF AtLeast
  <2>2. /\ b.deadline = a.deadline /\ b.size = o /\ b.scope = a.scope /\ b.type = a.type
        /\ b.niche = a.niche /\ b.role = a.role /\ b.budget = a.budget
        /\ b.markers = a.markers /\ b.complete = a.complete /\ b \in Application
    BY <1>1, <2>1 DEF Application
  <2>3. UrgencyPoints(b) = UrgencyPoints(a)
    BY <2>2 DEF UrgencyPoints
  <2>4. RawScore(b) >= RawScore(a)
    BY <2>1, <2>2, <2>3, PointsAreIntegers, OtherPoints DEF RawScore
  <2>5. a.size \in FleetSizes => o \in FleetSizes
    BY <2>1 DEF Points, SizePoints, Sizes, FleetSizes
  <2> QED BY <2>2, <2>4, <2>5
<1>4. ASSUME \E o \in AtLeast(ScopePoints, Scopes, a.scope) : b = [a EXCEPT !.scope = o]
      PROVE  Fits
  <2>1. PICK o \in Scopes : /\ Points(ScopePoints, o) >= Points(ScopePoints, a.scope)
                            /\ b = [a EXCEPT !.scope = o]
    BY <1>4 DEF AtLeast
  <2>2. /\ b.deadline = a.deadline /\ b.size = a.size /\ b.scope = o /\ b.type = a.type
        /\ b.niche = a.niche /\ b.role = a.role /\ b.budget = a.budget
        /\ b.markers = a.markers /\ b.complete = a.complete /\ b \in Application
    BY <1>1, <2>1 DEF Application
  <2>3. UrgencyPoints(b) = UrgencyPoints(a)
    BY <2>2 DEF UrgencyPoints
  <2>4. RawScore(b) >= RawScore(a)
    BY <2>1, <2>2, <2>3, PointsAreIntegers, OtherPoints DEF RawScore
  <2>5. /\ a.scope = "fleet" => o = "fleet"
        /\ a.scope = "regular" => o = "fleet" \/ o = "regular"
    BY <2>1 DEF Points, ScopePoints, Scopes
  <2> QED BY <2>2, <2>4, <2>5
<1>5. ASSUME \E o \in AtLeast(NichePoints, Niches, a.niche) : b = [a EXCEPT !.niche = o]
      PROVE  Fits
  <2>1. PICK o \in Niches : /\ Points(NichePoints, o) >= Points(NichePoints, a.niche)
                            /\ b = [a EXCEPT !.niche = o]
    BY <1>5 DEF AtLeast
  <2>2. /\ b.deadline = a.deadline /\ b.size = a.size /\ b.scope = a.scope /\ b.type = a.type
        /\ b.niche = o /\ b.role = a.role /\ b.budget = a.budget
        /\ b.markers = a.markers /\ b.complete = a.complete /\ b \in Application
    BY <1>1, <2>1 DEF Application
  <2>3. UrgencyPoints(b) = UrgencyPoints(a)
    BY <2>2 DEF UrgencyPoints
  <2>4. RawScore(b) >= RawScore(a)
    BY <2>1, <2>2, <2>3, PointsAreIntegers, OtherPoints DEF RawScore
  <2>5. /\ a.niche = "fleet" => o = "fleet"
        /\ a.niche \in CorporateNiches => o \in CorporateNiches
    BY <2>1 DEF Points, NichePoints, Niches, CorporateNiches
  <2> QED BY <2>2, <2>4, <2>5
<1>6. ASSUME \E o \in AtLeast(RolePoints, Roles, a.role) : b = [a EXCEPT !.role = o]
      PROVE  Fits
  <2>1. PICK o \in Roles : /\ Points(RolePoints, o) >= Points(RolePoints, a.role)
                           /\ b = [a EXCEPT !.role = o]
    BY <1>6 DEF AtLeast
  <2>2. /\ b.deadline = a.deadline /\ b.size = a.size /\ b.scope = a.scope /\ b.type = a.type
        /\ b.niche = a.niche /\ b.role = o /\ b.budget = a.budget
        /\ b.markers = a.markers /\ b.complete = a.complete /\ b \in Application
    BY <1>1, <2>1 DEF Application
  <2>3. UrgencyPoints(b) = UrgencyPoints(a)
    BY <2>2 DEF UrgencyPoints
  <2>4. RawScore(b) >= RawScore(a)
    BY <2>1, <2>2, <2>3, PointsAreIntegers, OtherPoints DEF RawScore
  <2> QED BY <2>2, <2>4
<1>7. ASSUME \E t \in DOMAIN BudgetTiers :
                 /\ BudgetTiers[t][1] \notin 0 .. a.budget - 1
                 /\ b = [a EXCEPT !.budget = BudgetTiers[t][1]]
      PROVE  Fits
  <2>1. PICK t \in DOMAIN BudgetTiers : /\ BudgetTiers[t][1] \notin 0 .. a.budget - 1
                                        /\ b = [a EXCEPT !.budget = BudgetTiers[t][1]]
    BY <1>7
  <2> DEFINE o == BudgetTiers[t][1]
  <2>0. o \in Nat
    BY DEF BudgetTiers
  <2> HIDE DEF o
  <2>2. /\ b.deadline = a.deadline /\ b.size = a.size /\ b.scope = a.scope /\ b.type = a.type
        /\ b.niche = a.niche /\ b.role = a.role /\ b.budget = o
        /\ b.markers = a.markers /\ b.complete = a.complete /\ b \in Application
    BY <1>1, <2>0, <2>1 DEF Application, o
  <2>3. UrgencyPoints(b) = UrgencyPoints(a)
    BY <2>2 DEF UrgencyPoints
  <2>4. a.budget <= o
    BY <1>1, <2>0, <2>1 DEF o
  <2>5. BudgetPoints(o) >= BudgetPoints(a.budget)
    BY <1>1, <2>0, <2>4, BudgetPointsByTier
  <2>6. RawScore(b) >= RawScore(a)
    BY <2>0, <2>2, <2>3, <2>5, PointsAreIntegers, BudgetPointsInteger, OtherPoints DEF RawScore
  <2> QED BY <2>2, <2>6
<1>8. Fits
  BY <1>2, <1>3, <1>4, <1>5, <1>6, <1>7 DEF Improved
<1>9. Score(b) >= Score(a)
  BY <1>8, CutKeepsOrder
<1>10. Score(a) \in Int /\ Score(b) \in Int
  BY <1>8, ScoreInRange DEF MinScore, MaxScore
<1>11. NeedsManager(a) => NeedsManager(b)
  BY <1>8, <1>9, <1>10 DEF NeedsManager, HotThreshold
<1>12. Team(a) = "fleets" => Team(b) = "fleets"
  BY <1>8 DEF Team
<1> QED BY <1>8, <1>9, <1>11, <1>12

-----------------------------------------------------------------------------
(* The board.                                                                *)

LEMMA OverwriteType ==
    ASSUME NEW data \in Application, NEW cols, NEW val \in Application
    PROVE  Overwrite(data, cols, val) \in Application
BY DEF Overwrite, Application, Columns

LEMMA OverwriteChanged ==
    ASSUME NEW data \in Application, NEW j \in Patches
    PROVE  Overwrite(data, Changed(data, j), j.val) = Overwrite(data, j.cols, j.val)
BY PatchesAssumption DEF Overwrite, Changed, Patch, Columns

\* What the proofs need to know of the types.
BoardTyped == board \in [Ids -> Row] /\ worker \in [Workers -> Worker]

THEOREM BoardTypes == BoardSpec => []BoardTyped
<1>1. BoardInit => BoardTyped
  <2> SUFFICES ASSUME BoardInit PROVE BoardTyped OBVIOUS
  <2>1. PICK status \in [Ids -> {"none", "live", "gone"}], data \in [Ids -> Contents] :
          board = Filled(status, data)
    BY DEF BoardInit
  <2>2. \A i \in Ids : data[i] \in Application BY ContentsAssumption
  <2>3. \A i \in Ids : Score(data[i]) \in MinScore .. MaxScore BY <2>2, ScoreInRange
  <2>4. MinScore \in MinScore .. MaxScore BY DEF MinScore, MaxScore
  <2>5. board \in [Ids -> Row] BY <2>1, <2>2, <2>3, <2>4 DEF Row, Filled
  <2>6. worker \in [Workers -> Worker] BY DEF BoardInit, Worker
  <2>7. QED BY <2>5, <2>6 DEF BoardTyped
<1>2. BoardTyped /\ [BoardNext]_boardVars => BoardTyped'
  <2> SUFFICES ASSUME BoardTyped, [BoardNext]_boardVars PROVE BoardTyped' OBVIOUS
  <2> USE DEF BoardTyped
  <2>1. ASSUME NEW i \in Ids, Insert(i) PROVE BoardTyped'
    <3>1. board[i].data \in Application BY DEF Row
    <3>2. Score(board[i].data) \in MinScore .. MaxScore BY <3>1, ScoreInRange
    <3>3. QED BY <2>1, <3>2 DEF Insert, Row
  <2>2. ASSUME NEW w \in Workers, LoadPatch(w) PROVE BoardTyped'
    <3>1. PICK j \in Patches : worker' = [worker EXCEPT ![w] =
                                  [pc |-> "flush", job |-> j, copy |-> board[j.id]]]
      BY <2>2 DEF LoadPatch
    <3>2. board[j.id] \in Row BY PatchesAssumption DEF Patch
    <3>3. [pc |-> "flush", job |-> j, copy |-> board[j.id]] \in Worker
      BY <3>2 DEF Worker
    <3>4. QED BY <2>2, <3>1, <3>3 DEF LoadPatch
  <2>3. ASSUME NEW w \in Workers, FlushPatch(w) PROVE BoardTyped'
    <3> DEFINE j == worker[w].job
               copy == worker[w].copy
    <3>1. j \in Patches /\ copy \in Row BY <2>3 DEF FlushPatch, Worker, Idle
    <3>2. j.id \in Ids /\ j.val \in Application BY <3>1, PatchesAssumption DEF Patch
    <3>3. copy.data \in Application /\ board[j.id].data \in Application
      BY <3>1, <3>2 DEF Row
    <3>4. Overwrite(copy.data, j.cols, j.val) \in Application BY <3>2, <3>3, OverwriteType
    <3>5. SyncedScore(copy, j) \in MinScore .. MaxScore BY <3>4, ScoreInRange DEF SyncedScore
    <3>6. Overwrite(board[j.id].data, Changed(copy.data, j), j.val) \in Application
      BY <3>2, <3>3, OverwriteType
    <3>7. board' \in [Ids -> Row] BY <2>3, <3>2, <3>5, <3>6 DEF FlushPatch, Row
    <3>8. worker' \in [Workers -> Worker] BY <2>3 DEF FlushPatch, Worker
    <3>9. QED BY <3>7, <3>8
  <2>4. ASSUME NEW w \in Workers, FailPatch(w) PROVE BoardTyped'
    BY <2>4 DEF FailPatch, Worker
  <2>5. ASSUME NEW w \in Workers, NEW i \in Ids, Delete(w, i) PROVE BoardTyped'
    BY <2>5 DEF Delete, Row
  <2>6. ASSUME NEW r \in Readers, Count(r) \/ Page(r) PROVE BoardTyped'
    BY <2>6 DEF Count, Page
  <2>7. CASE UNCHANGED boardVars BY <2>7 DEF boardVars
  <2>8. QED BY <2>1, <2>2, <2>3, <2>4, <2>5, <2>6, <2>7 DEF BoardNext
<1>3. QED BY <1>1, <1>2, PTL DEF BoardSpec

(* The filter by level and the badge agree on every row.                     *)
THEOREM BandsMatch == BoardSpec => []BandsMatchLevels
<1>1. BoardTyped => BandsMatchLevels
  <2> SUFFICES ASSUME BoardTyped, NEW i \in Ids, NEW level \in Levels
               PROVE  InBand(Score(board[i].data), level) <=> level = Level(Score(board[i].data))
    BY DEF BandsMatchLevels
  <2>1. board[i].data \in Application BY DEF BoardTyped, Row
  <2>2. QED BY <2>1, ScoreInRange, BandsPartition
<1>2. QED BY <1>1, BoardTypes, PTL

(* No application loses points, manager or fleet team by a better answer.    *)
THEOREM BetterAnswersPay == BoardSpec => []BetterAnswersNeverCost
<1>1. BoardTyped => BetterAnswersNeverCost
  <2> SUFFICES ASSUME BoardTyped, NEW i \in Ids, NEW b \in Improved(board[i].data)
               PROVE  /\ Score(b) >= Score(board[i].data)
                      /\ NeedsManager(board[i].data) => NeedsManager(b)
                      /\ Team(board[i].data) = "fleets" => Team(b) = "fleets"
    BY DEF BetterAnswersNeverCost
  <2>1. board[i].data \in Application BY DEF BoardTyped, Row
  <2>2. QED BY <2>1, BetterAnswers
<1>2. QED BY <1>1, BoardTypes, PTL

(* "Before sale" in the text of a preparation for sale is not paid, whatever *)
(* else the application says.                                                *)
THEOREM SalePaidOnce == BoardSpec => []SaleNotPaidTwice
<1>1. BoardTyped => SaleNotPaidTwice
  <2> SUFFICES ASSUME BoardTyped, NEW i \in Ids, board[i].data.type = "presale"
               PROVE  LET a == board[i].data IN
                      RawScore(a) = RawScore([a EXCEPT !.markers = @ \ {"beforeSale"}])
    BY DEF SaleNotPaidTwice
  <2> DEFINE a == board[i].data
             b == [a EXCEPT !.markers = a.markers \ {"beforeSale"}]
  <2>1. a \in Application BY DEF BoardTyped, Row
  <2>2. /\ b.deadline = a.deadline /\ b.size = a.size /\ b.scope = a.scope /\ b.type = a.type
        /\ b.niche = a.niche /\ b.role = a.role /\ b.budget = a.budget
        /\ b.markers = a.markers \ {"beforeSale"} /\ b.complete = a.complete
    BY <2>1 DEF Application
  <2> HIDE DEF a, b
  <2>3. a.type = "presale" BY DEF a
  <2>4. b.markers \ {"beforeSale"} = a.markers \ {"beforeSale"} BY <2>2
  <2>5. UrgencyPoints(b) = UrgencyPoints(a) BY <2>2, <2>3, <2>4 DEF UrgencyPoints
  <2>6. RawScore(b) = RawScore(a) BY <2>2, <2>5 DEF RawScore
  <2> QED BY <2>6 DEF a, b
<1>2. QED BY <1>1, BoardTypes, PTL

(* A PATCH whose copy is still the row when it is flushed leaves the right   *)
(* score behind, whatever the score was before.                              *)
LEMMA QuietFlush ==
    ASSUME BoardTyped, NEW w \in Workers, FlushPatch(w), Live(worker[w].job.id),
           worker[w].copy = board[worker[w].job.id]
    PROVE  board'[worker[w].job.id].score = Score(board'[worker[w].job.id].data)
<1> DEFINE j == worker[w].job
           copy == worker[w].copy
<1>1. j \in Patches BY DEF FlushPatch, BoardTyped, Worker, Idle
<1>2. j.id \in Ids BY <1>1, PatchesAssumption DEF Patch
<1>3. board \in [Ids -> Row] /\ copy.data \in Application BY <1>2 DEF BoardTyped, Row
<1>4. board'[j.id].data = Overwrite(copy.data, j.cols, j.val)
  BY <1>1, <1>2, <1>3, OverwriteChanged DEF FlushPatch, Row
<1>5. board'[j.id].score = SyncedScore(copy, j) BY <1>2, <1>3 DEF FlushPatch, Row
<1>6. QED BY <1>4, <1>5 DEF SyncedScore

THEOREM QuietPatchesHeal == BoardSpec => QuietPatchHeals
<1>1. BoardTyped /\ [BoardNext]_boardVars =>
        [\A w \in Workers :
          (FlushPatch(w) /\ Live(worker[w].job.id)
             /\ worker[w].copy = board[worker[w].job.id]) =>
             LET i == worker[w].job.id IN
             board'[i].score = Score(board'[i].data)]_boardVars
  BY QuietFlush
<1>2. QED BY <1>1, BoardTypes, PTL DEF BoardSpec, QuietPatchHeals

\* A PATCH under way has loaded the row as it still is.
CopiesFresh ==
    \A w \in Workers : worker[w].pc = "flush" =>
        LET i == worker[w].job.id IN
        board[i].status # "none" /\ (Live(i) => worker[w].copy = board[i])

(* With one worker, the stored score is always the score of the row.         *)
THEOREM OneWorkerStaysInSync ==
    ASSUME \A v, w \in Workers : v = w
    PROVE  BoardSpec => []ScoreInSync
<1> DEFINE Inv == ScoreInSync /\ CopiesFresh
<1>1. BoardInit => Inv
  <2> SUFFICES ASSUME BoardInit PROVE Inv OBVIOUS
  <2>1. ScoreInSync BY DEF BoardInit, Filled, ScoreInSync, Live
  <2>2. CopiesFresh BY DEF BoardInit, CopiesFresh, Idle
  <2>3. QED BY <2>1, <2>2
<1>2. BoardTyped /\ Inv /\ [BoardNext]_boardVars => Inv'
  <2> SUFFICES ASSUME BoardTyped, Inv, [BoardNext]_boardVars PROVE Inv' OBVIOUS
  <2>t. /\ board \in [Ids -> Row] /\ worker \in [Workers -> Worker]
        /\ \A w \in Workers : worker[w].pc = "flush" => worker[w].job.id \in Ids
    BY PatchesAssumption DEF BoardTyped, Worker, Idle, Patch
  <2>1. ASSUME NEW i \in Ids, Insert(i) PROVE Inv'
    <3>1. ScoreInSync' BY <2>1, <2>t DEF Insert, ScoreInSync, Live, Row
    <3>2. CopiesFresh' BY <2>1, <2>t DEF Insert, CopiesFresh, Live, Row
    <3>3. QED BY <3>1, <3>2
  <2>2. ASSUME NEW w \in Workers, LoadPatch(w) PROVE Inv'
    <3>1. ScoreInSync' BY <2>2 DEF LoadPatch, ScoreInSync, Live
    <3>2. CopiesFresh'
      BY <2>2, <2>t DEF LoadPatch, CopiesFresh, Live
    <3>3. QED BY <3>1, <3>2
  <2>3. ASSUME NEW w \in Workers, FlushPatch(w) PROVE Inv'
    <3> DEFINE i == worker[w].job.id
    <3>1. i \in Ids /\ (Live(i) => worker[w].copy = board[i])
      BY <2>3, <2>t DEF FlushPatch, CopiesFresh
    <3>2. ScoreInSync'
      <4>1. CASE ~Live(i) BY <2>3, <4>1 DEF FlushPatch, ScoreInSync, Live
      <4>2. CASE Live(i)
        <5>1. board'[i].score = Score(board'[i].data) BY <2>3, <3>1, <4>2, QuietFlush
        <5>2. \A k \in Ids \ {i} : board'[k] = board[k]
          BY <2>3, <2>t DEF FlushPatch
        <5>3. QED BY <5>1, <5>2, <2>t DEF ScoreInSync, Live
      <4>3. QED BY <4>1, <4>2
    <3>3. CopiesFresh'
      <4>1. \A v \in Workers : worker'[v] = Idle BY <2>3, <2>t DEF FlushPatch
      <4>2. QED BY <4>1 DEF CopiesFresh, Idle
    <3>4. QED BY <3>2, <3>3
  <2>4. ASSUME NEW w \in Workers, FailPatch(w) PROVE Inv'
    <3>1. ScoreInSync' BY <2>4 DEF FailPatch, ScoreInSync, Live
    <3>2. CopiesFresh' BY <2>4, <2>t DEF FailPatch, CopiesFresh, Idle, Live
    <3>3. QED BY <3>1, <3>2
  <2>5. ASSUME NEW w \in Workers, NEW i \in Ids, Delete(w, i) PROVE Inv'
    <3>1. ScoreInSync' BY <2>5, <2>t DEF Delete, ScoreInSync, Live, Row
    <3>2. CopiesFresh' BY <2>5, <2>t DEF Delete, CopiesFresh, Live, Row
    <3>3. QED BY <3>1, <3>2
  <2>6. ASSUME NEW r \in Readers, Count(r) \/ Page(r) PROVE Inv'
    BY <2>6 DEF Count, Page, ScoreInSync, CopiesFresh, Live
  <2>7. CASE UNCHANGED boardVars
    BY <2>7 DEF boardVars, ScoreInSync, CopiesFresh, Live
  <2>8. QED BY <2>1, <2>2, <2>3, <2>4, <2>5, <2>6, <2>7 DEF BoardNext
<1>3. QED BY <1>1, <1>2, BoardTypes, PTL DEF BoardSpec
-----------------------------------------------------------------------------
(* The list.                                                                 *)

\* The rows a query selects are finitely many applications.
LEMMA SelectedFinite ==
    ASSUME NEW q
    PROVE  /\ Selected(q) \in SUBSET Ids /\ IsFiniteSet(Selected(q))
           /\ Cardinality(Selected(q)) \in 0 .. Cardinality(Ids)
<1>1. Selected(q) \in SUBSET Ids
  BY DEF Selected
<1>2. /\ IsFiniteSet(Selected(q)) /\ Cardinality(Selected(q)) <= Cardinality(Ids)
      /\ Cardinality(Selected(q)) \in Nat /\ Cardinality(Ids) \in Nat
  BY <1>1, IdsAssumption, FS_Subset, FS_CardinalityType
<1> QED BY <1>1, <1>2

\* The order of the list.
OutrankPairs(rows) == {p \in rows \X rows : Outranks(p[1], p[2])}

LEMMA OutranksOrders ==
    ASSUME board \in [Ids -> Row], NEW rows \in SUBSET Ids
    PROVE  Orders(OutrankPairs(rows), rows)
<1>1. \A i \in rows : i \in Int /\ board[i].score \in Int
  BY IdsAssumption DEF Row, MinScore, MaxScore
<1>2. \A i, k \in rows : <<i, k>> \in OutrankPairs(rows) <=> Outranks(i, k)
  BY DEF OutrankPairs
<1>3. \A i \in rows : ~ Outranks(i, i)
  BY <1>1 DEF Outranks
<1>4. \A i, k \in rows : i = k \/ Outranks(i, k) \/ Outranks(k, i)
  BY <1>1 DEF Outranks
<1>5. \A i, k, l \in rows : Outranks(i, k) /\ Outranks(k, l) => Outranks(i, l)
  BY <1>1 DEF Outranks
<1> QED BY <1>2, <1>3, <1>4, <1>5 DEF Orders

\* A page lists selected rows, each once; those that are left out of a first page
\* come after all that are on it.
LEMMA PageFacts ==
    ASSUME board \in [Ids -> Row], NEW q \in Queries
    PROVE  /\ \E size \in Nat : DOMAIN PageOf(q) = 1 .. size /\ size <= q.limit
           /\ \A n \in DOMAIN PageOf(q) : PageOf(q)[n] \in Selected(q)
           /\ q.skip = 0 =>
                 \A n \in DOMAIN PageOf(q) : \A i \in Selected(q) :
                    \/ \E m \in DOMAIN PageOf(q) : PageOf(q)[m] = i
                    \/ Outranks(PageOf(q)[n], i)
<1> DEFINE rows == Selected(q)
           R == OutrankPairs(rows)
           Rank(i) == Cardinality(Before(R, rows, i))
           all == Cardinality(rows)
           last == IF q.skip + q.limit < all THEN q.skip + q.limit ELSE all
           page == PageOf(q)
<1>1. q.skip \in Nat /\ q.limit \in Nat
  BY QueriesAssumption DEF Query
<1>2. rows \in SUBSET Ids /\ IsFiniteSet(rows) /\ all \in Nat
  BY SelectedFinite, FS_CardinalityType
<1>3. Orders(R, rows)
  BY <1>2, OutranksOrders
<1>4. /\ \A i \in rows : Rank(i) \in 0 .. all - 1
      /\ \A i, k \in rows : Rank(i) = Rank(k) => i = k
      /\ \A n \in 0 .. all - 1 : \E i \in rows : Rank(i) = n
  BY <1>2, <1>3, RankFacts
<1>5. \A i \in rows : Cardinality({k \in rows : Outranks(k, i)}) = Rank(i)
  <2> SUFFICES ASSUME NEW i \in rows PROVE {k \in rows : Outranks(k, i)} = Before(R, rows, i)
    OBVIOUS
  <2> QED BY DEF Before, OutrankPairs
<1>6. last \in Nat /\ last <= all /\ last <= q.skip + q.limit
  BY <1>1, <1>2
<1>7. page = [n \in 1 .. last - q.skip |-> CHOOSE i \in rows :
                  Cardinality({k \in rows : Outranks(k, i)}) = q.skip + n - 1]
  BY DEF PageOf
<1>8. ASSUME NEW n \in 1 .. last - q.skip
      PROVE  page[n] \in rows /\ Rank(page[n]) = q.skip + n - 1
  <2>1. q.skip + n - 1 \in 0 .. all - 1
    BY <1>1, <1>2, <1>6
  <2>2. \E i \in rows : Cardinality({k \in rows : Outranks(k, i)}) = q.skip + n - 1
    BY <1>4, <1>5, <2>1
  <2>3. page[n] = CHOOSE i \in rows :
                     Cardinality({k \in rows : Outranks(k, i)}) = q.skip + n - 1
    BY <1>7
  <2> HIDE DEF rows, page
  <2>4. page[n] \in rows /\ Cardinality({k \in rows : Outranks(k, page[n])}) = q.skip + n - 1
    BY <2>2, <2>3
  <2> QED BY <1>5, <2>4
<1> HIDE DEF rows, R, last, page, Rank, all
<1>9. DOMAIN page = 1 .. last - q.skip
  BY <1>7
<1>10. \E size \in Nat : DOMAIN page = 1 .. size /\ size <= q.limit
  <2>1. CASE last >= q.skip
    BY <1>1, <1>6, <1>9, <2>1
  <2>2. CASE last < q.skip
    BY <1>1, <1>6, <1>9, <2>2
  <2> QED BY <1>1, <1>6, <2>1, <2>2
<1>11. ASSUME q.skip = 0
       PROVE  \A n \in DOMAIN page : \A i \in rows :
                 (\E m \in DOMAIN page : page[m] = i) \/ Outranks(page[n], i)
  <2>1. DOMAIN page = 1 .. last /\ last \in Nat
    BY <1>6, <1>9, <1>11
  <2>2. \A n \in 1 .. last : page[n] \in rows /\ Cardinality(Before(R, rows, page[n])) = n - 1
    BY <1>6, <1>8, <1>11 DEF Rank
  <2>3. \A n \in 1 .. last, i \in rows :
           (\E m \in 1 .. last : page[m] = i) \/ <<page[n], i>> \in R
    BY <1>2, <1>3, <2>1, <2>2, RankedList
  <2>4. \A i, k \in rows : <<i, k>> \in R => Outranks(i, k)
    BY DEF R, OutrankPairs
  <2> QED BY <2>1, <2>2, <2>3, <2>4
<1> QED BY <1>8, <1>9, <1>10, <1>11 DEF rows, page

\* A counted list is a query under way, a page done one that was counted.
LEMMA CountType ==
    ASSUME NEW q \in Queries
    PROVE  [pc |-> "page", query |-> q, total |-> Cardinality(Selected(q))] \in Reader
<1>1. Cardinality(Selected(q)) \in 0 .. Cardinality(Ids)
  BY SelectedFinite
<1> QED BY <1>1 DEF Reader

LEMMA PageType ==
    ASSUME board \in [Ids -> Row], NEW q \in Queries, NEW total \in 0 .. Cardinality(Ids)
    PROVE  [pc |-> "done", query |-> q, total |-> total,
            items |-> [n \in DOMAIN PageOf(q) |->
                          [id |-> PageOf(q)[n], data |-> board[PageOf(q)[n]].data]]] \in Reader
<1> DEFINE page == PageOf(q)
           items == [n \in DOMAIN page |-> [id |-> page[n], data |-> board[page[n]].data]]
<1>1. PICK size \in Nat : DOMAIN page = 1 .. size
  BY PageFacts
<1>2. \A n \in DOMAIN page : page[n] \in Ids
  BY PageFacts, SelectedFinite
<1> HIDE DEF page
<1>3. \A n \in 1 .. size : items[n] \in Listed
  BY <1>1, <1>2 DEF Listed, Row
<1>4. items \in [1 .. size -> Listed]
  BY <1>1, <1>3
<1>5. items \in Seq(Listed)
  BY <1>4
<1> HIDE DEF items
<1>6. [pc |-> "done", query |-> q, total |-> total, items |-> items] \in Reader
  BY <1>5 DEF Reader
<1> QED BY <1>6 DEF items, page

ReadersTyped == reader \in [Readers -> Reader]

\* Only a COUNT and the SELECT of a page show a reader anything.
LEMMA ReadersMove ==
    ASSUME [BoardNext]_boardVars
    PROVE  UNCHANGED reader \/ \E r \in Readers : Count(r) \/ Page(r)
BY DEF BoardNext, boardVars, Insert, LoadPatch, FlushPatch, FailPatch, Delete

(* Every variable keeps its type.                                            *)
THEOREM BoardTypesOK == BoardSpec => []BoardTypeOK
<1>1. BoardInit => ReadersTyped
  BY DEF BoardInit, Reader, ReadersTyped
<1>2. BoardTyped /\ ReadersTyped /\ [BoardNext]_boardVars
        => ReadersTyped'
  <2> SUFFICES ASSUME BoardTyped, ReadersTyped, [BoardNext]_boardVars
               PROVE  ReadersTyped'
    OBVIOUS
  <2>1. ASSUME NEW r \in Readers, Count(r) PROVE ReadersTyped'
    <3>1. PICK q \in Queries : reader' = [reader EXCEPT ![r] =
                [pc |-> "page", query |-> q, total |-> Cardinality(Selected(q))]]
      BY <2>1 DEF Count
    <3> QED BY <3>1, CountType DEF ReadersTyped
  <2>2. ASSUME NEW r \in Readers, Page(r) PROVE ReadersTyped'
    <3> DEFINE q == reader[r].query
               total == reader[r].total
               done == [pc |-> "done", query |-> q, total |-> total,
                        items |-> [n \in DOMAIN PageOf(q) |->
                           [id |-> PageOf(q)[n], data |-> board[PageOf(q)[n]].data]]]
    <3>1. q \in Queries /\ total \in 0 .. Cardinality(Ids)
      BY <2>2 DEF Page, Reader, Idle, ReadersTyped
    <3>2. reader' = [reader EXCEPT ![r] = done]
      BY <2>2 DEF Page
    <3>3. done \in Reader
      BY <3>1, PageType DEF BoardTyped
    <3> HIDE DEF done
    <3> QED BY <3>2, <3>3 DEF ReadersTyped
  <2>3. ASSUME UNCHANGED reader PROVE ReadersTyped'
    BY <2>3 DEF ReadersTyped
  <2> QED BY <2>1, <2>2, <2>3, ReadersMove
<1>3. BoardTyped /\ ReadersTyped => BoardTypeOK
  BY DEF BoardTyped, ReadersTyped, BoardTypeOK
<1> QED BY <1>1, <1>2, <1>3, BoardTypes, PTL DEF BoardSpec

(* None that the first page leaves out beats one that it shows, unless the   *)
(* stored score of one of the two is out of sync.                            *)
THEOREM PagesShowTop == BoardSpec => PageShowsTop
<1>1. ASSUME BoardTypeOK, [BoardNext]_boardVars, NEW r \in Readers,
             reader[r].pc = "page", reader[r].query.skip = 0, reader'[r].pc = "done",
             NEW i \in {reader'[r].items[n].id : n \in DOMAIN reader'[r].items},
             NEW k \in Selected(reader[r].query)
                          \ {reader'[r].items[n].id : n \in DOMAIN reader'[r].items},
             InSync(i), InSync(k)
      PROVE  Score(board[i].data) >= Score(board[k].data)
  <2> DEFINE q == reader[r].query
             page == PageOf(q)
  <2>1. Page(r)
    <3>1. ASSUME NEW s \in Readers, Count(s) PROVE FALSE
      BY <1>1, <3>1 DEF Count, BoardTypeOK
    <3>2. ASSUME NEW s \in Readers, s # r, Page(s) PROVE FALSE
      BY <1>1, <3>2 DEF Page, BoardTypeOK
    <3>3. reader' # reader
      BY <1>1
    <3> QED BY <1>1, <3>1, <3>2, <3>3, ReadersMove
  <2>2. board \in [Ids -> Row] /\ q \in Queries
    BY <1>1 DEF BoardTypeOK, Reader, Idle
  <2>3. /\ DOMAIN reader'[r].items = DOMAIN page
        /\ \A n \in DOMAIN page : reader'[r].items[n].id = page[n]
    BY <1>1, <2>1 DEF Page, BoardTypeOK
  <2>4. PICK n \in DOMAIN page : page[n] = i
    BY <1>1, <2>3
  <2>5. ~ \E m \in DOMAIN page : page[m] = k
    BY <1>1, <2>3
  <2>6. Outranks(i, k)
    <3> HIDE DEF q, page
    <3>1. \A m \in DOMAIN page : \A j \in Selected(q) :
              (\E l \in DOMAIN page : page[l] = j) \/ Outranks(page[m], j)
      BY <1>1, <2>2, PageFacts DEF page, q
    <3>2. k \in Selected(q)
      BY <1>1 DEF q
    <3> QED BY <2>4, <2>5, <3>1, <3>2
  <2>7. i \in Ids /\ k \in Ids
    BY <2>2, <2>4, <1>1, PageFacts, SelectedFinite
  <2>8. board[i].score \in Int /\ board[k].score \in Int
    BY <2>2, <2>7 DEF Row, MinScore, MaxScore
  <2>9. board[i].score >= board[k].score
    BY <2>6, <2>8 DEF Outranks
  <2> QED BY <1>1, <2>9 DEF InSync
<1>2. BoardTypeOK /\ [BoardNext]_boardVars =>
        [\A r \in Readers :
          (reader[r].pc = "page" /\ reader[r].query.skip = 0 /\ reader'[r].pc = "done") =>
             LET shown == {reader'[r].items[n].id : n \in DOMAIN reader'[r].items} IN
             \A i \in shown, k \in Selected(reader[r].query) \ shown :
                InSync(i) /\ InSync(k) => Score(board[i].data) >= Score(board[k].data)]_boardVars
  BY <1>1
<1> QED BY <1>2, BoardTypesOK, PTL DEF BoardSpec, PageShowsTop
=============================================================================
