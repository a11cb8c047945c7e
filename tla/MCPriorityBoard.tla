--------------------------- MODULE MCPriorityBoard --------------------------
(***************************************************************************)
(* Instances of PriorityBoard for TLC: applications whose scores lie on    *)
(* both sides of the borders between the levels, and one application with  *)
(* every combination of answers that the scoring rules tell apart.         *)
(***************************************************************************)
EXTENDS PriorityBoard

CONSTANTS w1, w2, q1

App(deadline, size, scope, budget) ==
    [deadline |-> deadline, size |-> size, scope |-> scope, type |-> "other",
     niche |-> "private", role |-> "owner", budget |-> budget,
     markers |-> {}, complete |-> TRUE]

\* 37 points, low; with an earlier deadline or a higher budget medium, with both
\* hot, at 70.
Modest == App("week", "upTo5", "regular", 0)
MCContents == {Modest, [Modest EXCEPT !.deadline = "asap", !.budget = 50]}

P(i, cols, val) == [id |-> i, cols |-> cols, val |-> val]

\* Two admins each improve one answer, or send it again.
Improvements == {P(1, {"deadline"}, [Modest EXCEPT !.deadline = "asap"]),
                 P(1, {"budget"}, [Modest EXCEPT !.budget = 50])}
\* One takes points away, as a rule, and one adds some.
SomePatches == {P(1, {"deadline", "size"}, Modest),
                P(1, {"budget"}, [Modest EXCEPT !.budget = 50])}

Q(level, skip, limit) == [level |-> level, skip |-> skip, limit |-> limit]
MCQueries == {Q("all", 0, 1), Q("hot", 0, 2), Q("medium", 1, 1)}
OneQuery == {Q("all", 0, 2)}

\* The answers at both ends of the tables, and those that other rules look at.
Answers(size, scope, niche) ==
    [deadline : {"asap", "whenever"}, size : {size}, scope : {scope},
     type : {"presale", "care"}, niche : {niche}, role : {"owner"}, budget : {24, 50},
     markers : SUBSET Markers, complete : BOOLEAN]
EveryContent ==
    Answers("over20", "fleet", "fleet") \union Answers("one", "once", "other")
    \union {[Modest EXCEPT !.size = "upTo20"], [Modest EXCEPT !.niche = "dealer"]}
AllContents == EveryContent \union MCContents

\* A few contents on a board of two applications, every content on a board where
\* the other one was deleted.
MCInit ==
    /\ \/ \E status \in [Ids -> {"none", "live"}], data \in [Ids -> MCContents] :
             board = Filled(status, data)
       \/ \E a \in EveryContent :
             board = Filled(<<"live", "gone">>, <<a, Modest>>)
    /\ worker = [w \in Workers |-> Idle]
    /\ reader = [r \in Readers |-> Idle]

MCBoardSpec == MCInit /\ [][BoardNext]_boardVars
=============================================================================
