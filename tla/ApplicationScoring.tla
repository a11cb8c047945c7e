------------------------- MODULE ApplicationScoring -------------------------
(***************************************************************************)
(* The priority score of an application                                    *)
(* (backend/app/services/application_scoring.py): a pure function from the *)
(* answers of the form to points, a level, a team and a manager.  The      *)
(* recommended action is the level in other words.                         *)
(*                                                                         *)
(* An option of a select field is named by an English word; a word that is *)
(* in no table is an option worth nothing ("other") or a value from before *)
(* the options were closed.  Budgets are in thousands.  `markers` is what  *)
(* the regular expressions find in the three free texts: "beforeSale" is   *)
(* the phrase that repeats the task type, "urgent" any other.  `complete`  *)
(* says that no required answer is blank.                                  *)
(***************************************************************************)
EXTENDS Integers, Sequences

DeadlinePoints == [asap |-> 25, days3 |-> 20, week |-> 12, weeks2 |-> 6,
                   month |-> 2, whenever |-> 0]
SizePoints == [over20 |-> 18, upTo20 |-> 12, upTo5 |-> 6, one |-> 0]
ScopePoints == [fleet |-> 18, regular |-> 12, complex |-> 10, advice |-> 4, once |-> 3]
TypePoints == [repair |-> 15, restore |-> 10, presale |-> 8, protect |-> 7,
               season |-> 5, care |-> 3, consult |-> 1, other |-> 0]
NichePoints == [fleet |-> 12, taxi |-> 10, dealer |-> 10, service |-> 5,
                private |-> 0, family |-> 0]
RolePoints == [fleetManager |-> 8, company |-> 6, dealer |-> 6, owner |-> 2]

\* Highest threshold first: the first tier the budget clears wins.
BudgetTiers == << <<50, 20>>, <<25, 15>>, <<15, 10>>, <<8, 5>> >>

Deadlines == DOMAIN DeadlinePoints
Sizes == DOMAIN SizePoints
Scopes == DOMAIN ScopePoints
Types == DOMAIN TypePoints
Niches == DOMAIN NichePoints \union {"other"}
Roles == DOMAIN RolePoints \union {"trustee", "other"}
Markers == {"beforeSale", "urgent"}

Application == [deadline : Deadlines, size : Sizes, scope : Scopes, type : Types,
                niche : Niches, role : Roles, budget : Nat,
                markers : SUBSET Markers, complete : BOOLEAN]

Points(table, option) == IF option \in DOMAIN table THEN table[option] ELSE 0

\* _budget_reason.
BudgetPoints(b) ==
    LET cleared == {i \in 1 .. Len(BudgetTiers) : b >= BudgetTiers[i][1]} IN
    IF cleared = {} THEN 0
    ELSE BudgetTiers[CHOOSE i \in cleared : \A j \in cleared : i <= j][2]

\* _urgency_marker_reason: "before sale" says nothing new about a task that is a
\* preparation for sale; another marker still counts.
UrgencyPoints(a) ==
    LET news == a.markers \ (IF a.type = "presale" THEN {"beforeSale"} ELSE {}) IN
    IF news = {} THEN 0 ELSE 10

RawScore(a) ==
    Points(DeadlinePoints, a.deadline) + BudgetPoints(a.budget)
    + Points(SizePoints, a.size) + Points(ScopePoints, a.scope)
    + Points(TypePoints, a.type) + Points(NichePoints, a.niche)
    + Points(RolePoints, a.role) + UrgencyPoints(a) + (IF a.complete THEN 5 ELSE 0)

MinScore == 0
MaxScore == 100
HotThreshold == 70
MediumThreshold == 40

\* score_application(...).score.
Score(a) ==
    LET raw == RawScore(a) IN
    IF raw < MinScore THEN MinScore ELSE IF raw > MaxScore THEN MaxScore ELSE raw

\* Mutant: `>` for `>=`.
LevelAbove(s) ==
    IF s > HotThreshold THEN "hot" ELSE IF s > MediumThreshold THEN "medium" ELSE "low"

\* _priority_level.
Level(s) ==
    IF s >= HotThreshold THEN "hot" ELSE IF s >= MediumThreshold THEN "medium" ELSE "low"

Levels == {"hot", "medium", "low"}

\* priority_score_bounds.
Bounds(level) ==
    IF level = "hot" THEN <<HotThreshold, MaxScore>>
    ELSE IF level = "medium" THEN <<MediumThreshold, HotThreshold - 1>>
    ELSE <<MinScore, MediumThreshold - 1>>

\* Mutant: the largest fleets forgotten.
FleetSizesOne == {"upTo20"}

FleetSizes == {"upTo20", "over20"}
CorporateNiches == {"fleet", "taxi", "dealer", "service"}
CorporateRoles == {"company", "dealer"}

\* _recommend_team: the signs of a fleet come first.
Team(a) ==
    IF a.scope = "fleet" \/ a.size \in FleetSizes \/ a.niche = "fleet" THEN "fleets"
    ELSE IF a.niche \in CorporateNiches \/ a.role \in CorporateRoles THEN "corporate"
    ELSE IF a.type = "repair" THEN "service"
    ELSE "detailing"

\* score_application(...).requires_personal_manager.
NeedsManager(a) ==
    \/ Score(a) >= HotThreshold
    \/ a.scope = "fleet" \/ a.size \in FleetSizes
    \/ a.scope = "regular" /\ a.niche \in CorporateNiches

\* The filter of GET /applications/prioritized on the stored score.
InBand(s, level) == Bounds(level)[1] <= s /\ s <= Bounds(level)[2]
=============================================================================
