--------------------------- MODULE AnalyticsProofs ---------------------------
(***************************************************************************)
(* Theorems about AnalyticsReports, for any number of applications and     *)
(* metrics, any contents and any interleaving with the changes beside it.  *)
(*                                                                         *)
(* The two reads of an overview belong together: an application that was   *)
(* read keeps its created_at and is never placed again; a metric older     *)
(* than the end of the period was sent before the overview was asked for,  *)
(* so its order was there at the first read unless it is older than the    *)
(* period.  The figures: the totals by name are natural numbers over       *)
(* finitely many names, a ranking lists the names of the first ranks, and  *)
(* what holds of sums goes by induction over finite sets.                  *)
(***************************************************************************)
EXTENDS AnalyticsReports, CollectionFacts

(* Consecutive periods of one length cover every instant of their union once.*)
THEOREM PeriodsPartition ==
    ASSUME NEW t \in Int, NEW now \in Int
    PROVE  /\ ~ (InPeriod(t, now) /\ InPeriod(t, now - Period))
           /\ now - 2 * Period <= t /\ t < now =>
                 InPeriod(t, now) \/ InPeriod(t, now - Period)
BY PeriodAssumption DEF InPeriod

\* The rows of the database, each metric beside its order, no order of the future.
RowsOK ==
    /\ order \in [Applications -> Order] /\ metric = [a \in Applications |-> metric[a]]
    /\ \A a \in Applications :
          /\ metric[a] = [status |-> metric[a].status, at |-> metric[a].at,
                          content |-> metric[a].content]
          /\ WellPlaced(order[a], metric[a]) /\ order[a].at <= clock

\* The record of the overview request.
OverviewOK ==
    /\ overview = [pc |-> overview.pc, now |-> overview.now, apps |-> overview.apps,
                   rows |-> overview.rows, report |-> overview.report]
    /\ detail = [pc |-> detail.pc, about |-> detail.about, reply |-> detail.reply,
                 rows |-> detail.rows, report |-> detail.report]
    /\ overview.now <= clock

\* What was read keeps its order; what the second read may find belongs to it.
ReadsFit ==
    /\ overview.pc \in {"metrics", "done"} =>
          \A a \in overview.apps :
              order[a].status # "none" /\ overview.now - Period <= order[a].at
    /\ overview.pc = "metrics" =>
          \A a \in Applications :
              (/\ metric[a].status \in {"sending", "live"} /\ metric[a].at < overview.now
               /\ overview.now - Period <= order[a].at) => a \in overview.apps
    /\ overview.pc = "done" =>
          \A a \in DOMAIN overview.rows :
              /\ order[a].status # "none"
              /\ a \in overview.apps \/ order[a].at < overview.now - Period

AnalyticsInv == AnalyticsTypeOK /\ RowsOK /\ OverviewOK /\ ReadsFit

LEMMA InitReports == AnalyticsInit => AnalyticsInv
<1> SUFFICES ASSUME AnalyticsInit PROVE AnalyticsInv
  OBVIOUS
<1>1. PICK d \in Databases : clock = d.clock /\ order = d.order /\ metric = d.metric
  BY DEF AnalyticsInit
<1>2. PICK s \in Subjects :
        detail = [pc |-> "idle", about |-> s, reply |-> "none", rows |-> NoRows,
                  report |-> Detail(NoRows)]
  BY DEF AnalyticsInit
<1> DEFINE none == Overview({}, NoRows)
<1>3. overview = [pc |-> "idle", now |-> 0, apps |-> {}, rows |-> NoRows, report |-> none]
      /\ changes = 0 /\ DOMAIN NoRows = {}
  BY DEF AnalyticsInit, NoOverview, NoRows
<1> HIDE DEF none
<1>4. RowsOK /\ clock \in 0 .. MaxTime
  BY <1>1, DatabasesAssumption DEF RowsOK
<1>5. OverviewOK
  <2>1. 0 <= clock
    BY <1>4, LimitsAssumption
  <2>2. overview.now = 0
    BY <1>3
  <2> QED BY <1>2, <1>3, <2>1, <2>2 DEF OverviewOK
<1>6. AnalyticsTypeOK
  <2>1. 0 \in 0 .. MaxTime /\ 0 \in 0 .. MaxChanges
    BY LimitsAssumption
  <2> QED BY <1>2, <1>3, <1>4, <2>1, ApplicationsAssumption DEF AnalyticsTypeOK, RowsOK
<1>7. ReadsFit
  BY <1>3 DEF ReadsFit
<1> QED BY <1>4, <1>5, <1>6, <1>7 DEF AnalyticsInv

\* What a change of application `a` may be.
ChangeOf(a) ==
    \/ Place(a) \/ CommitOrder(a) \/ Submit(a) \/ CommitMetric(a)
    \/ Revise(a) \/ DeleteMetric(a) \/ DeleteOrder(a)

(* A change keeps the rows in shape, the created_at of what is there and the *)
(* past of the metrics: a new one is of now.                                 *)
LEMMA ChangeLeaves ==
    ASSUME RowsOK, clock \in 0 .. MaxTime, changes \in 0 .. MaxChanges,
           NEW a \in Applications, ChangeOf(a)
    PROVE  /\ RowsOK'
           /\ UNCHANGED <<clock, overview, detail>> /\ changes' \in 0 .. MaxChanges
           /\ \A b \in Applications : order[b].status # "none" =>
                 order'[b].status # "none" /\ order'[b].at = order[b].at
           /\ \A b \in Applications : metric'[b].status \in {"sending", "live"} =>
                 \/ metric'[b].at = clock
                 \/ /\ metric[b].status \in {"sending", "live"}
                    /\ metric'[b].at = metric[b].at
<1> USE DEF RowsOK
<1> DEFINE o == order[a]
           m == metric[a]
<1>0. /\ o = [status |-> o.status, at |-> o.at] /\ o.at \in 0 .. MaxTime
      /\ o.status \in {"none", "placing", "live", "gone"}
      /\ m = [status |-> m.status, at |-> m.at, content |-> m.content]
      /\ m.at \in 0 .. MaxTime /\ m.status \in {"none", "sending", "live", "gone"}
      /\ WellPlaced(o, m) /\ o.at <= clock
  <2>1. o \in Order /\ [status |-> m.status, at |-> m.at] \in Metric
    BY DEF WellPlaced
  <2> QED BY <2>1 DEF Order, Metric
<1>1. changes' \in 0 .. MaxChanges
  BY LimitsAssumption DEF ChangeOf, Change, Place, CommitOrder, Submit, CommitMetric,
      Revise, DeleteMetric, DeleteOrder
<1>2. UNCHANGED <<clock, overview, detail>>
  BY DEF ChangeOf, Change, Place, CommitOrder, Submit, CommitMetric, Revise, DeleteMetric,
      DeleteOrder
\* The rows of the one application, before and after.
<1>3. ASSUME NEW p, NEW q, order' = [order EXCEPT ![a] = p], metric' = [metric EXCEPT ![a] = q],
             q = [status |-> q.status, at |-> q.at, content |-> q.content],
             WellPlaced(p, q), p.at <= clock,
             o.status # "none" => p.status # "none" /\ p.at = o.at,
             q.status \in {"sending", "live"} =>
                 q.at = clock \/ (m.status \in {"sending", "live"} /\ q.at = m.at)
      PROVE  /\ RowsOK'
             /\ \A b \in Applications : order[b].status # "none" =>
                   order'[b].status # "none" /\ order'[b].at = order[b].at
             /\ \A b \in Applications : metric'[b].status \in {"sending", "live"} =>
                   \/ metric'[b].at = clock
                   \/ /\ metric[b].status \in {"sending", "live"}
                      /\ metric'[b].at = metric[b].at
  <2>1. p \in Order
    BY <1>3 DEF WellPlaced
  <2>2. order' \in [Applications -> Order] /\ metric' = [b \in Applications |-> metric'[b]]
    BY <1>3, <2>1
  <2>3. /\ order'[a] = p /\ metric'[a] = q
        /\ \A b \in Applications \ {a} : order'[b] = order[b] /\ metric'[b] = metric[b]
    BY <1>3
  <2>4. RowsOK'
    <3>1. \A b \in Applications :
             /\ metric'[b] = [status |-> metric'[b].status, at |-> metric'[b].at,
                              content |-> metric'[b].content]
             /\ WellPlaced(order'[b], metric'[b]) /\ order'[b].at <= clock'
      BY <1>2, <1>3, <2>3
    <3> QED BY <2>2, <3>1
  <2> QED BY <1>3, <2>3, <2>4
<1>4. order = [order EXCEPT ![a] = o] /\ metric = [metric EXCEPT ![a] = m]
  <2>1. order = [order EXCEPT ![a] = o]
    OBVIOUS
  <2> DEFINE f == metric
  <2>2. f = [b \in Applications |-> f[b]]
    OBVIOUS
  <2> HIDE DEF f
  <2>3. f = [f EXCEPT ![a] = f[a]]
    BY ONLY <2>2, a \in Applications
  <2> QED BY <2>1, <2>3 DEF f
<1>5. CASE Place(a)
  <2> DEFINE p == [status |-> "placing", at |-> clock]
  <2>1. p \in Order /\ p.at <= clock /\ p.status = "placing"
    BY DEF Order
  <2>2. o.status = "none" /\ m.status = "none"
    BY <1>0, <1>5 DEF Place, WellPlaced
  <2>3. WellPlaced(p, m)
    BY <1>0, <2>1, <2>2 DEF WellPlaced
  <2>4. order' = [order EXCEPT ![a] = p] /\ metric' = [metric EXCEPT ![a] = m]
    BY <1>4, <1>5 DEF Place
  <2> HIDE DEF o, m, p
  <2> QED BY <1>0, <1>1, <1>2, <1>3, <2>1, <2>2, <2>3, <2>4
<1>6. CASE CommitOrder(a)
  <2> DEFINE p == [status |-> "live", at |-> o.at]
  <2>1. p \in Order
    BY <1>0 DEF Order
  <2>2. o.status = "placing"
    BY <1>6 DEF CommitOrder
  <2>3. m.status = "none"
    BY <1>0, <2>2 DEF WellPlaced
  <2>4. WellPlaced(p, m)
    BY <1>0, <2>1, <2>3 DEF WellPlaced
  <2>5. order' = [order EXCEPT ![a] = p] /\ metric' = [metric EXCEPT ![a] = m]
    <3>1. order' = [order EXCEPT ![a] = [o EXCEPT !.status = "live"]] /\ UNCHANGED metric
      BY <1>6 DEF CommitOrder
    <3>2. [o EXCEPT !.status = "live"] = p
      BY <1>0
    <3> QED BY <1>4, <3>1, <3>2
  <2>6. p.status = "live" /\ p.at = o.at
    OBVIOUS
  <2> HIDE DEF o, m, p
  <2> QED BY <1>0, <1>1, <1>2, <1>3, <2>3, <2>4, <2>5, <2>6
<1>7. CASE Submit(a)
  <2>1. PICK c \in Contents :
          metric' = [metric EXCEPT ![a] = [status |-> "sending", at |-> clock, content |-> c]]
    BY <1>7 DEF Submit
  <2> DEFINE q == [status |-> "sending", at |-> clock, content |-> c]
  <2>2. [status |-> q.status, at |-> q.at] \in Metric
    BY DEF Metric
  <2>3. o.status = "live" /\ order' = [order EXCEPT ![a] = o]
    BY <1>4, <1>7 DEF Submit
  <2>4. WellPlaced(o, q)
    BY <1>0, <2>2, <2>3 DEF WellPlaced
  <2>5. q.at = clock /\ q = [status |-> q.status, at |-> q.at, content |-> q.content]
    OBVIOUS
  <2> HIDE DEF o, m, q
  <2>6. metric' = [metric EXCEPT ![a] = q]
    BY <2>1 DEF q
  <2> QED BY <1>0, <1>1, <1>2, <1>3, <2>3, <2>4, <2>5, <2>6
<1>8. ASSUME NEW q, UNCHANGED order, metric' = [metric EXCEPT ![a] = q],
             q = [status |-> q.status, at |-> m.at, content |-> q.content],
             m.status \in {"sending", "live"}, q.status \in {"live", "gone"}
      PROVE  /\ RowsOK'
             /\ \A b \in Applications : order[b].status # "none" =>
                   order'[b].status # "none" /\ order'[b].at = order[b].at
             /\ \A b \in Applications : metric'[b].status \in {"sending", "live"} =>
                   \/ metric'[b].at = clock
                   \/ /\ metric[b].status \in {"sending", "live"}
                      /\ metric'[b].at = metric[b].at
  <2>1. q.at = m.at /\ q = [status |-> q.status, at |-> q.at, content |-> q.content]
    BY <1>8
  <2>2. [status |-> q.status, at |-> q.at] \in Metric
    BY <1>0, <1>8, <2>1 DEF Metric
  <2>3. WellPlaced(o, q)
    BY <1>0, <1>8, <2>1, <2>2 DEF WellPlaced
  <2>4. order' = [order EXCEPT ![a] = o]
    BY <1>4, <1>8
  <2> HIDE DEF o, m
  <2> QED BY <1>0, <1>3, <1>8, <2>1, <2>3, <2>4
<1>9. CASE CommitMetric(a)
  <2> DEFINE q == [status |-> "live", at |-> m.at, content |-> m.content]
  <2>1. metric' = [metric EXCEPT ![a] = [m EXCEPT !.status = "live"]]
        /\ UNCHANGED order /\ m.status = "sending"
    BY <1>9 DEF CommitMetric
  <2>2. [m EXCEPT !.status = "live"] = q
    BY <1>0
  <2> QED BY <1>1, <1>2, <1>8, <2>1, <2>2
<1>10. CASE Revise(a)
  <2>1. PICK c \in Contents : metric' = [metric EXCEPT ![a] = [m EXCEPT !.content = c]]
    BY <1>10 DEF Revise
  <2> DEFINE q == [status |-> m.status, at |-> m.at, content |-> c]
  <2>2. UNCHANGED order /\ m.status = "live"
    BY <1>10 DEF Revise
  <2>3. [m EXCEPT !.content = c] = q
    BY <1>0
  <2> QED BY <1>1, <1>2, <1>8, <2>1, <2>2, <2>3
<1> DEFINE gone == [status |-> "gone", at |-> m.at, content |-> m.content]
<1>11. [m EXCEPT !.status = "gone"] = gone
  BY <1>0
<1>12. CASE DeleteMetric(a)
  <2>1. metric' = [metric EXCEPT ![a] = [m EXCEPT !.status = "gone"]]
        /\ UNCHANGED order /\ m.status = "live"
    BY <1>12 DEF DeleteMetric
  <2> QED BY <1>1, <1>2, <1>8, <1>11, <2>1
<1>13. CASE DeleteOrder(a)
  <2> DEFINE p == [status |-> "gone", at |-> o.at]
             q == IF m.status = "live" THEN gone ELSE m
  <2>1. o.status = "live" /\ m.status # "sending"
    BY <1>13 DEF DeleteOrder
  <2>2. order' = [order EXCEPT ![a] = p]
    <3>1. order' = [order EXCEPT ![a] = [o EXCEPT !.status = "gone"]]
      BY <1>13 DEF DeleteOrder
    <3>2. [o EXCEPT !.status = "gone"] = p
      BY <1>0
    <3> QED BY <3>1, <3>2
  <2>3. metric' = [metric EXCEPT ![a] = q]
    <3>1. metric' = [metric EXCEPT ![a] =
                        [m EXCEPT !.status = IF m.status = "live" THEN "gone" ELSE m.status]]
      BY <1>13 DEF DeleteOrder
    <3>2. [m EXCEPT !.status = IF m.status = "live" THEN "gone" ELSE m.status] = q
      BY <1>0
    <3> QED BY <3>1, <3>2
  <2>4. q.at = m.at /\ q.status \in {"none", "gone"}
        /\ q = [status |-> q.status, at |-> q.at, content |-> q.content]
    BY <1>0, <2>1
  <2>5. p \in Order /\ [status |-> q.status, at |-> q.at] \in Metric
    BY <1>0, <2>4 DEF Order, Metric
  <2>6. WellPlaced(p, q)
    BY <2>4, <2>5 DEF WellPlaced
  <2>7. p.status = "gone" /\ p.at = o.at
    OBVIOUS
  <2> HIDE DEF o, m, p, q, gone
  <2> QED BY <1>0, <1>1, <1>2, <1>3, <2>2, <2>3, <2>4, <2>6, <2>7
<1> QED BY <1>5, <1>6, <1>7, <1>9, <1>10, <1>12, <1>13 DEF ChangeOf

\* The figures of a report that count applications.
LEMMA OverviewCounts ==
    ASSUME NEW apps \in SUBSET Applications, NEW rows
    PROVE  /\ Overview(apps, rows).with = Cardinality(apps \intersect DOMAIN rows)
           /\ Overview(apps, rows).with \in Nat
           /\ Overview(apps, rows).without \in Nat
<1> DEFINE both == apps \intersect DOMAIN rows
           report == Overview(apps, rows)
<1>1. IsFiniteSet(apps)
  BY ApplicationsAssumption, FS_Subset
<1>2. IsFiniteSet(both) /\ Cardinality(both) <= Cardinality(apps)
  BY <1>1, FS_Subset
<1>3. Cardinality(both) \in Nat /\ Cardinality(apps) \in Nat
  BY <1>1, <1>2, FS_CardinalityType
<1>4. report.with = Cardinality(both) /\ report.without = Cardinality(apps) - Cardinality(both)
  BY DEF Overview, WithMetrics
<1> HIDE DEF report, both
<1>5. report.with \in Nat /\ report.without \in Nat
  BY <1>2, <1>3, <1>4
<1> QED BY <1>4, <1>5 DEF report, both

\* The types of what the properties compare.
LEMMA RowTypes ==
    ASSUME RowsOK, NEW a \in Applications
    PROVE  /\ order[a].at \in Int /\ metric[a].at \in Int
           /\ order[a].status \in {"none", "placing", "live", "gone"}
           /\ metric[a].status \in {"none", "sending", "live", "gone"}
           /\ metric[a].status \in {"sending", "live"} =>
                 order[a].status = "live" /\ order[a].at <= metric[a].at
           /\ metric[a].status # "none" => order[a].status # "none"
<1>1. /\ order[a] \in Order /\ [status |-> metric[a].status, at |-> metric[a].at] \in Metric
      /\ WellPlaced(order[a], metric[a])
  BY DEF RowsOK, WellPlaced
<1>2. order[a].at \in 0 .. MaxTime /\ order[a].status \in {"none", "placing", "live", "gone"}
  BY <1>1 DEF Order
<1>3. metric[a].at \in 0 .. MaxTime /\ metric[a].status \in {"none", "sending", "live", "gone"}
  BY <1>1 DEF Metric
<1> QED BY <1>1, <1>2, <1>3, LimitsAssumption DEF WellPlaced

\* Changes beside the reports keep what the reads found together.
LEMMA ChangeStep ==
    ASSUME AnalyticsInv, NEW a \in Applications, ChangeOf(a)
    PROVE  AnalyticsInv'
<1> USE DEF AnalyticsInv
<1>1. clock \in 0 .. MaxTime /\ changes \in 0 .. MaxChanges
  BY DEF AnalyticsTypeOK
<1>2. /\ RowsOK'
      /\ UNCHANGED <<clock, overview, detail>> /\ changes' \in 0 .. MaxChanges
      /\ \A b \in Applications : order[b].status # "none" =>
            order'[b].status # "none" /\ order'[b].at = order[b].at
      /\ \A b \in Applications : metric'[b].status \in {"sending", "live"} =>
            \/ metric'[b].at = clock
            \/ /\ metric[b].status \in {"sending", "live"}
               /\ metric'[b].at = metric[b].at
  BY <1>1, ChangeLeaves
<1>3. AnalyticsTypeOK'
  BY <1>2 DEF AnalyticsTypeOK, RowsOK
<1>4. OverviewOK'
  BY <1>2 DEF OverviewOK
<1>5. overview.now \in Int /\ clock \in Int /\ overview.now <= clock
  BY <1>1, LimitsAssumption DEF AnalyticsTypeOK, OverviewOK
<1>6. overview.apps \subseteq Applications /\ DOMAIN overview.rows \subseteq Applications
  BY DEF AnalyticsTypeOK
<1>7. ReadsFit'
  <2>1. overview.pc \in {"metrics", "done"} =>
          \A b \in overview.apps :
              order'[b].status # "none" /\ overview.now - Period <= order'[b].at
    BY <1>2, <1>6 DEF ReadsFit
  <2>2. ASSUME overview.pc = "metrics", NEW b \in Applications,
               metric'[b].status \in {"sending", "live"}, metric'[b].at < overview.now,
               overview.now - Period <= order'[b].at
        PROVE  b \in overview.apps
    <3>1. metric[b].status \in {"sending", "live"} /\ metric'[b].at = metric[b].at
      BY <1>2, <1>5, <2>2
    <3>2. order[b].status = "live"
      BY <3>1, RowTypes
    <3>3. order'[b].at = order[b].at
      BY <1>2, <3>2
    <3> QED BY <2>2, <3>1, <3>3 DEF ReadsFit
  <2>3. overview.pc = "done" =>
          \A b \in DOMAIN overview.rows :
              /\ order'[b].status # "none"
              /\ b \in overview.apps \/ order'[b].at < overview.now - Period
    BY <1>2, <1>6 DEF ReadsFit
  <2> QED BY <1>2, <2>1, <2>2, <2>3 DEF ReadsFit
<1> QED BY <1>2, <1>3, <1>4, <1>7

LEMMA TickStep ==
    ASSUME AnalyticsInv, Tick
    PROVE  AnalyticsInv'
<1> USE DEF AnalyticsInv, Tick
<1>1. clock \in 0 .. MaxTime /\ clock' \in 0 .. MaxTime /\ clock <= clock'
  BY LimitsAssumption DEF AnalyticsTypeOK
<1>2. AnalyticsTypeOK'
  BY <1>1 DEF AnalyticsTypeOK
<1>3. RowsOK'
  <2>1. \A a \in Applications : order[a].at \in Int
    BY RowTypes
  <2>2. \A a \in Applications : order[a].at <= clock'
    BY <1>1, <2>1, LimitsAssumption DEF RowsOK
  <2> QED BY <2>2 DEF RowsOK
<1>4. OverviewOK'
  <2>1. overview.now \in Int /\ overview.now <= clock
    BY LimitsAssumption DEF AnalyticsTypeOK, OverviewOK
  <2>2. overview'.now <= clock'
    BY <1>1, <2>1, LimitsAssumption
  <2> QED BY <2>2 DEF OverviewOK
<1>5. ReadsFit'
  BY DEF ReadsFit
<1> QED BY <1>2, <1>3, <1>4, <1>5

\* The time is taken.
LEMMA AskStep ==
    ASSUME AnalyticsInv, AskOverview
    PROVE  AnalyticsInv'
<1> USE DEF AnalyticsInv
<1>1. /\ overview' = [pc |-> "applications", now |-> clock, apps |-> overview.apps,
                      rows |-> overview.rows, report |-> overview.report]
      /\ UNCHANGED <<clock, order, metric, detail, changes>>
  BY DEF AskOverview, OverviewOK
<1>2. clock \in 0 .. MaxTime /\ clock <= clock
  BY LimitsAssumption DEF AnalyticsTypeOK
<1>3. AnalyticsTypeOK'
  BY <1>1, <1>2 DEF AnalyticsTypeOK
<1>4. RowsOK'
  BY <1>1 DEF RowsOK
<1>5. OverviewOK'
  BY <1>1, <1>2 DEF OverviewOK
<1>6. ReadsFit'
  BY <1>1 DEF ReadsFit
<1> QED BY <1>3, <1>4, <1>5, <1>6

(* The first read: a metric of before the period's end has its order by now, *)
(* because its transaction began after that of the order had committed.      *)
LEMMA ApplicationsStep ==
    ASSUME AnalyticsInv, ReadApplications
    PROVE  AnalyticsInv'
<1> USE DEF AnalyticsInv
<1> DEFINE apps == OrdersBetween(overview.now)
<1>1. /\ overview' = [pc |-> "metrics", now |-> overview.now, apps |-> apps,
                      rows |-> overview.rows, report |-> overview.report]
      /\ UNCHANGED <<clock, order, metric, detail, changes>>
  BY DEF ReadApplications, OverviewOK
<1>2. \A a \in Applications :
        a \in apps <=> /\ order[a].status = "live"
                       /\ overview.now - Period <= order[a].at /\ order[a].at < overview.now
  BY DEF OrdersBetween, InPeriod
<1>3. apps \subseteq Applications
  BY DEF OrdersBetween
<1> HIDE DEF apps
<1>4. AnalyticsTypeOK'
  BY <1>1, <1>3 DEF AnalyticsTypeOK
<1>5. RowsOK'
  BY <1>1 DEF RowsOK
<1>6. OverviewOK'
  BY <1>1 DEF OverviewOK
<1>7. overview.now \in Int
  BY LimitsAssumption DEF AnalyticsTypeOK
<1>8. ReadsFit'
  <2>1. ASSUME NEW a \in Applications,
               metric[a].status \in {"sending", "live"}, metric[a].at < overview.now,
               overview.now - Period <= order[a].at
        PROVE  a \in apps
    <3>1. order[a].status = "live" /\ order[a].at < overview.now
      BY <1>7, <2>1, RowTypes
    <3> QED BY <1>2, <2>1, <3>1
  <2>2. \A a \in apps : order[a].status # "none" /\ overview.now - Period <= order[a].at
    BY <1>2, <1>3
  <2> QED BY <1>1, <2>1, <2>2 DEF ReadsFit
<1> QED BY <1>4, <1>5, <1>6, <1>8

\* The second read, seen from the state before it.
LEMMA SecondRead ==
    ASSUME AnalyticsInv, ReadMetrics
    PROVE  LET rows == MetricsBetween(overview.now) IN
           /\ overview' = [pc |-> "done", now |-> overview.now, apps |-> overview.apps,
                           rows |-> rows, report |-> Overview(overview.apps, rows)]
           /\ UNCHANGED <<clock, order, metric, detail, changes>>
           /\ DOMAIN rows \subseteq Applications
           /\ \A a \in Applications :
                 a \in DOMAIN rows <=> /\ metric[a].status = "live"
                                       /\ overview.now - Period <= metric[a].at
                                       /\ metric[a].at < overview.now
<1> DEFINE rows == MetricsBetween(overview.now)
<1>1. DOMAIN rows = {a \in Applications : /\ metric[a].status = "live"
                                          /\ InPeriod(metric[a].at, overview.now)}
  BY DEF MetricsBetween, Rows
<1> HIDE DEF rows
<1> DEFINE report == Overview(overview.apps, rows)
<1>2. /\ overview' = [overview EXCEPT !.pc = "done", !.rows = rows, !.report = report]
      /\ UNCHANGED <<clock, order, metric, detail, changes>>
  BY DEF ReadMetrics, PeriodEnd, rows
<1> HIDE DEF report
<1>3. overview' = [pc |-> "done", now |-> overview.now, apps |-> overview.apps,
                   rows |-> rows, report |-> report]
  BY <1>2 DEF AnalyticsInv, OverviewOK
<1>4. DOMAIN rows \subseteq Applications
  BY <1>1
<1>5. \A a \in Applications :
        a \in DOMAIN rows <=> /\ metric[a].status = "live"
                              /\ overview.now - Period <= metric[a].at
                              /\ metric[a].at < overview.now
  BY <1>1 DEF InPeriod
<1> QED BY <1>2, <1>3, <1>4, <1>5 DEF rows, report

LEMMA MetricsStep ==
    ASSUME AnalyticsInv, ReadMetrics
    PROVE  AnalyticsInv'
<1> DEFINE rows == MetricsBetween(overview.now)
           report == Overview(overview.apps, rows)
<1>1. /\ overview' = [pc |-> "done", now |-> overview.now, apps |-> overview.apps,
                      rows |-> rows, report |-> report]
      /\ UNCHANGED <<clock, order, metric, detail, changes>>
      /\ DOMAIN rows \subseteq Applications
      /\ \A a \in Applications :
            a \in DOMAIN rows <=> /\ metric[a].status = "live"
                                  /\ overview.now - Period <= metric[a].at
                                  /\ metric[a].at < overview.now
  BY SecondRead
<1>2. report.with \in Nat /\ report.without \in Nat
  <2>1. overview.apps \in SUBSET Applications
    BY DEF AnalyticsInv, AnalyticsTypeOK
  <2> HIDE DEF rows
  <2> QED BY <2>1, OverviewCounts
<1> HIDE DEF rows, report
<1> USE DEF AnalyticsInv
<1>3. AnalyticsTypeOK'
  BY <1>1, <1>2 DEF AnalyticsTypeOK
<1>4. RowsOK'
  BY <1>1 DEF RowsOK
<1>5. OverviewOK'
  BY <1>1 DEF OverviewOK
<1>6. overview.now \in Int /\ Period \in Int
  BY LimitsAssumption, PeriodAssumption DEF AnalyticsTypeOK
<1>7. ReadsFit'
  <2>1. ASSUME NEW a \in DOMAIN rows
        PROVE  /\ order[a].status # "none"
               /\ a \in overview.apps \/ order[a].at < overview.now - Period
    <3>1. a \in Applications /\ metric[a].status = "live" /\ metric[a].at < overview.now
      BY <1>1, <2>1
    <3>2. order[a].status = "live" /\ order[a].at \in Int
      BY <3>1, RowTypes
    <3>3. overview.pc = "metrics"
      BY DEF ReadMetrics
    <3>4. overview.now - Period <= order[a].at => a \in overview.apps
      BY <3>1, <3>3 DEF ReadsFit
    <3> QED BY <1>6, <3>2, <3>4
  <2>2. \A a \in overview.apps :
          order[a].status # "none" /\ overview.now - Period <= order[a].at
    BY DEF ReadsFit, ReadMetrics
  <2> QED BY <1>1, <2>1, <2>2 DEF ReadsFit
<1> QED BY <1>3, <1>4, <1>5, <1>7

\* The detail reads beside.
LEMMA DetailStep ==
    ASSUME AnalyticsInv, FindApplication \/ ReadDetail
    PROVE  AnalyticsInv'
<1> USE DEF AnalyticsInv
<1>1. PICK pc \in {"metrics", "done"} : \E reply, rows, report :
        /\ detail' = [pc |-> pc, about |-> detail.about, reply |-> reply,
                      rows |-> rows, report |-> report]
        /\ UNCHANGED <<clock, order, metric, overview, changes>>
  <2>1. CASE FindApplication
    BY <2>1 DEF FindApplication, OverviewOK
  <2>2. CASE ReadDetail
    <3> DEFINE rows == Rows({a \in {detail.about} : metric[a].status = "live"})
               report == Detail(rows)
    <3>1. /\ detail' = [detail EXCEPT !.pc = "done", !.reply = "ok", !.rows = rows,
                                      !.report = report]
          /\ UNCHANGED <<clock, order, metric, overview, changes>>
      BY <2>2 DEF ReadDetail
    <3> HIDE DEF rows, report
    <3> QED BY <3>1 DEF OverviewOK
  <2> QED BY <2>1, <2>2
<1>2. AnalyticsTypeOK'
  BY <1>1 DEF AnalyticsTypeOK
<1>3. RowsOK'
  BY <1>1 DEF RowsOK
<1>4. OverviewOK'
  BY <1>1 DEF OverviewOK
<1>5. ReadsFit'
  BY <1>1 DEF ReadsFit
<1> QED BY <1>2, <1>3, <1>4, <1>5

LEMMA ReportSteps ==
    ASSUME AnalyticsInv, [AnalyticsNext]_reportVars
    PROVE  AnalyticsInv'
<1>1. CASE Tick
  BY <1>1, TickStep
<1>2. CASE \E a \in Applications : ChangeOf(a)
  BY <1>2, ChangeStep
<1>3. CASE AskOverview
  BY <1>3, AskStep
<1>4. CASE ReadApplications
  BY <1>4, ApplicationsStep
<1>5. CASE ReadMetrics
  BY <1>5, MetricsStep
<1>6. CASE FindApplication \/ ReadDetail
  BY <1>6, DetailStep
<1>7. CASE UNCHANGED reportVars
  BY <1>7 DEF reportVars, AnalyticsInv, AnalyticsTypeOK, RowsOK, OverviewOK, ReadsFit
<1> QED BY <1>1, <1>2, <1>3, <1>4, <1>5, <1>6, <1>7 DEF AnalyticsNext, ReportsDone, ChangeOf

(* The overview, the rows and what was read of them keep their types and stay*)
(* related as AnalyticsInv says.                                             *)
THEOREM ReportsInvariance == AnalyticsSpec => []AnalyticsInv
<1>1. AnalyticsInit => AnalyticsInv
  BY InitReports
<1>2. AnalyticsInv /\ [AnalyticsNext]_reportVars => AnalyticsInv'
  BY ReportSteps
<1> QED BY <1>1, <1>2, PTL DEF AnalyticsSpec

(* The counts of an overview are natural numbers: the applications without   *)
(* metrics are never fewer than none.                                        *)
THEOREM ReportsTypes == AnalyticsSpec => []AnalyticsTypeOK
<1>1. AnalyticsInv => AnalyticsTypeOK
  BY DEF AnalyticsInv
<1> QED BY <1>1, ReportsInvariance, PTL

(* No metric is counted without its application, for any number of orders    *)
(* and metrics and any interleaving with the two reads.                      *)
THEOREM MetricsHaveOrders == AnalyticsSpec => []CountedMetricHasOrder
<1>1. AnalyticsInv => CountedMetricHasOrder
  BY DEF AnalyticsInv, ReadsFit, CountedMetricHasOrder
<1> QED BY <1>1, ReportsInvariance, PTL

(* An application that is counted is one with metrics exactly if its metric  *)
(* is there at the second read and was sent before the overview was asked    *)
(* for: its metric cannot be older than the period, since the order is not.  *)
THEOREM OrdersHaveMetrics == AnalyticsSpec => CountedOrderHasMetric
<1> DEFINE counted == {a \in overview.apps :
                          metric[a].status = "live" /\ metric[a].at < overview.now}
           Counts == overview.pc = "metrics" /\ overview'.pc = "done" =>
                        overview'.report.with = Cardinality(counted)
<1>1. ASSUME AnalyticsInv, [AnalyticsNext]_reportVars, overview.pc = "metrics",
             overview'.pc = "done"
      PROVE  overview'.report.with = Cardinality(counted)
  <2>1. ReadMetrics
    <3>1. overview' # overview
      BY <1>1
    <3>2. \A a \in Applications : ~ ChangeOf(a)
      BY <3>1 DEF ChangeOf, Change, Place, CommitOrder, Submit, CommitMetric, Revise,
          DeleteMetric, DeleteOrder
    <3>3. ~ Tick /\ ~ FindApplication /\ ~ ReadDetail /\ ~ ReportsDone
      BY <3>1 DEF Tick, FindApplication, ReadDetail, ReportsDone, reportVars
    <3>4. ~ AskOverview /\ ~ ReadApplications
      BY <1>1 DEF AskOverview, ReadApplications
    <3>5. ~ UNCHANGED reportVars
      BY <3>1 DEF reportVars
    <3> QED BY <1>1, <3>2, <3>3, <3>4, <3>5 DEF AnalyticsNext, ChangeOf
  <2> DEFINE rows == MetricsBetween(overview.now)
             report == Overview(overview.apps, rows)
  <2>2. /\ overview' = [pc |-> "done", now |-> overview.now, apps |-> overview.apps,
                        rows |-> rows, report |-> report]
        /\ \A a \in Applications :
              a \in DOMAIN rows <=> /\ metric[a].status = "live"
                                    /\ overview.now - Period <= metric[a].at
                                    /\ metric[a].at < overview.now
    BY <1>1, <2>1, SecondRead
  <2>3. overview.apps \in SUBSET Applications
    BY <1>1 DEF AnalyticsInv, AnalyticsTypeOK
  <2> HIDE DEF rows
  <2>4. report.with = Cardinality(overview.apps \intersect DOMAIN rows)
    BY <2>3, OverviewCounts
  <2> HIDE DEF report
  <2>5. ASSUME NEW a \in overview.apps, metric[a].status = "live"
        PROVE  overview.now - Period <= metric[a].at
    <3>1. a \in Applications /\ overview.now - Period <= order[a].at
      BY <1>1, <2>3, <2>5 DEF AnalyticsInv, ReadsFit
    <3>2. order[a].at \in Int /\ metric[a].at \in Int /\ order[a].at <= metric[a].at
      BY <1>1, <2>5, <3>1, RowTypes DEF AnalyticsInv
    <3>3. overview.now - Period \in Int
      BY <1>1, LimitsAssumption, PeriodAssumption DEF AnalyticsInv, AnalyticsTypeOK
    <3> QED BY <3>1, <3>2, <3>3
  <2>6. overview.apps \intersect DOMAIN rows = counted
    BY <2>2, <2>3, <2>5
  <2> QED BY <2>2, <2>4, <2>6
<1>2. AnalyticsInv /\ [AnalyticsNext]_reportVars => [Counts]_reportVars
  BY <1>1
<1> QED BY <1>2, ReportsInvariance, PTL DEF AnalyticsSpec, CountedOrderHasMetric
-----------------------------------------------------------------------------
(* The figures: what the operators of BehaviorAnalytics return.              *)

\* A weight for each of finitely many names.
IsWeight(w) == IsFiniteSet(DOMAIN w) /\ \A n \in DOMAIN w : n \in Nat /\ w[n] \in Nat

\* Contents of finitely many metrics.
AreRows(rows) == IsFiniteSet(DOMAIN rows) /\ \A a \in DOMAIN rows : rows[a] \in Content

LEMMA RangeFinite ==
    ASSUME NEW f, IsFiniteSet(DOMAIN f)
    PROVE  IsFiniteSet(Range(f))
<1> DEFINE g == [x \in DOMAIN f |-> f[x]]
<1>1. g \in Surjection(DOMAIN f, Range(f))
  BY DEF Surjection, Range
<1> HIDE DEF g
<1> QED BY <1>1, FS_Surjection

LEMMA ByNameWeight ==
    ASSUME NEW names, IsFiniteSet(DOMAIN names), NEW amounts,
           \A i \in DOMAIN names : names[i] \in Nat /\ amounts[i] \in Nat,
           DOMAIN amounts = DOMAIN names
    PROVE  IsWeight(ByName(names, amounts))
<1>1. IsFiniteSet(Range(names)) /\ \A n \in Range(names) : n \in Nat
  BY RangeFinite DEF Range
<1>2. ASSUME NEW n \in Range(names)
      PROVE  SumFunctionOnSet(amounts, {i \in DOMAIN names : names[i] = n}) \in Nat
  <2> DEFINE T == {i \in DOMAIN names : names[i] = n}
  <2>1. IsFiniteSet(T) /\ \A i \in T : amounts[i] \in Nat
    BY FS_Subset
  <2> HIDE DEF T
  <2>2. SumFunctionOnSet(amounts, T) \in Nat
    BY <2>1, SumNatural
  <2> QED BY <2>2 DEF T
<1>3. DOMAIN ByName(names, amounts) = Range(names)
      /\ \A n \in Range(names) : ByName(names, amounts)[n]
             = SumFunctionOnSet(amounts, {i \in DOMAIN names : names[i] = n})
  BY DEF ByName
<1> QED BY <1>1, <1>2, <1>3 DEF IsWeight

LEMMA ItemOf == ASSUME NEW S, NEW s \in Seq(S), NEW i \in DOMAIN s PROVE s[i] \in S
OBVIOUS

LEMMA ButtonCountsWeight ==
    ASSUME NEW clicks \in Seq([button : Nat, count : Int])
    PROVE  IsWeight(ButtonCounts(clicks))
<1> DEFINE use == {i \in DOMAIN clicks : Clicked(clicks[i])}
           names == [i \in use |-> clicks[i].button]
           amounts == [i \in use |-> clicks[i].count]
<1>1. IsFiniteSet(use)
  <2>1. DOMAIN clicks = 1 .. Len(clicks) /\ Len(clicks) \in Nat
    OBVIOUS
  <2>2. IsFiniteSet(1 .. Len(clicks))
    BY <2>1, FS_Interval
  <2> QED BY <2>1, <2>2, FS_Subset
<1>2. ASSUME NEW i \in use
      PROVE  clicks[i].button \in Nat /\ clicks[i].count \in Nat
  <2>1. clicks[i] \in [button : Nat, count : Int]
    <3>1. i \in DOMAIN clicks
      OBVIOUS
    <3> QED BY <3>1, ItemOf
  <2> DEFINE item == clicks[i]
  <2> HIDE DEF item
  <2>2. item.button \in Nat /\ item.count \in Int /\ item.count > 0
    BY <2>1 DEF item, Clicked
  <2> QED BY <2>2 DEF item
<1>3. DOMAIN names = use /\ DOMAIN amounts = use
      /\ \A i \in use : names[i] \in Nat /\ amounts[i] \in Nat
  BY <1>2
<1>4. ButtonCounts(clicks) = ByName(names, amounts)
  BY DEF ButtonCounts
<1> HIDE DEF names, amounts, use
<1> QED BY <1>1, <1>3, <1>4, ByNameWeight

LEMMA SectionPartWeight ==
    ASSUME NEW hovers \in Seq([section : Nat, hovers : Int, ms : Int]),
           NEW part \in {"hovers", "ms"}
    PROVE  IsWeight(SectionPart(hovers, part))
<1> DEFINE use == {i \in DOMAIN hovers : Hovered(hovers[i])}
           names == [i \in use |-> hovers[i].section]
           amounts == [i \in use |-> OrZero(hovers[i][part])]
<1>1. IsFiniteSet(use)
  <2>1. DOMAIN hovers = 1 .. Len(hovers) /\ Len(hovers) \in Nat
    OBVIOUS
  <2>2. IsFiniteSet(1 .. Len(hovers))
    BY <2>1, FS_Interval
  <2> QED BY <2>1, <2>2, FS_Subset
<1>2. ASSUME NEW i \in use
      PROVE  hovers[i].section \in Nat /\ OrZero(hovers[i][part]) \in Nat
  <2>0. hovers[i] \in [section : Nat, hovers : Int, ms : Int]
    <3>1. i \in DOMAIN hovers
      OBVIOUS
    <3> QED BY <3>1, ItemOf
  <2>1. hovers[i].section \in Nat /\ hovers[i].hovers \in Int /\ hovers[i].ms \in Int
    BY <2>0
  <2>2. hovers[i][part] \in Int
    <3>1. CASE part = "hovers"
      BY <2>1, <3>1
    <3>2. CASE part = "ms"
      BY <2>1, <3>2
    <3> QED BY <3>1, <3>2
  <2> QED BY <2>1, <2>2 DEF OrZero, Valid
<1>3. DOMAIN names = use /\ DOMAIN amounts = use
      /\ \A i \in use : names[i] \in Nat /\ amounts[i] \in Nat
  BY <1>2
<1>4. SectionPart(hovers, part) = ByName(names, amounts)
  BY DEF SectionPart
<1> HIDE DEF names, amounts, use
<1> QED BY <1>1, <1>3, <1>4, ByNameWeight

\* The rows that have something of name n.
With(parts, n) == {r \in DOMAIN parts : n \in DOMAIN parts[r]}

LEMMA MergedFacts ==
    ASSUME NEW parts, IsFiniteSet(DOMAIN parts), \A r \in DOMAIN parts : IsWeight(parts[r])
    PROVE  /\ IsWeight(Merged(parts))
           /\ \A r \in DOMAIN parts : \A n \in DOMAIN parts[r] :
                 n \in DOMAIN Merged(parts) /\ parts[r][n] <= Merged(parts)[n]
           /\ \A r : DOMAIN parts = {r} =>
                 /\ DOMAIN Merged(parts) = DOMAIN parts[r]
                 /\ \A n \in DOMAIN parts[r] : Merged(parts)[n] = parts[r][n]
<1> DEFINE names == UNION {DOMAIN parts[r] : r \in DOMAIN parts}
           w == Merged(parts)
           Col(n) == [r \in With(parts, n) |-> parts[r][n]]
<1>1. IsFiniteSet(names)
  <2> DEFINE doms == [r \in DOMAIN parts |-> DOMAIN parts[r]]
  <2>1. Range(doms) = {DOMAIN parts[r] : r \in DOMAIN parts} /\ DOMAIN doms = DOMAIN parts
    BY DEF Range
  <2> HIDE DEF doms
  <2>2. IsFiniteSet({DOMAIN parts[r] : r \in DOMAIN parts})
    BY <2>1, RangeFinite
  <2>3. \A T \in {DOMAIN parts[r] : r \in DOMAIN parts} : IsFiniteSet(T)
    BY DEF IsWeight
  <2> QED BY <2>2, <2>3, FS_UNION
<1>2. DOMAIN w = names /\ \A n \in names : w[n] = SumFunctionOnSet(Col(n), With(parts, n))
  BY DEF Merged, SumFunction, With
<1>3. ASSUME NEW n \in names
      PROVE  /\ n \in Nat /\ IsFiniteSet(With(parts, n))
             /\ \A r \in With(parts, n) : Col(n)[r] = parts[r][n] /\ Col(n)[r] \in Nat
             /\ w[n] \in Nat
  <2>1. n \in Nat
    BY DEF IsWeight
  <2>2. IsFiniteSet(With(parts, n))
    BY FS_Subset DEF With
  <2>3. \A r \in With(parts, n) : Col(n)[r] = parts[r][n] /\ Col(n)[r] \in Nat
    BY DEF With, IsWeight
  <2> DEFINE c == Col(n)
             T == With(parts, n)
  <2> HIDE DEF c, T
  <2>4. SumFunctionOnSet(c, T) \in Nat
    <3>1. IsFiniteSet(T) /\ \A r \in T : c[r] \in Nat
      BY <2>2, <2>3 DEF c, T
    <3> QED BY <3>1, SumNatural
  <2>5. w[n] \in Nat
    BY <1>2, <2>4 DEF c, T
  <2> QED BY <2>1, <2>2, <2>3, <2>5
<1>4. ASSUME NEW r \in DOMAIN parts, NEW n \in DOMAIN parts[r]
      PROVE  n \in DOMAIN w /\ parts[r][n] <= w[n]
  <2> DEFINE c == Col(n)
             T == With(parts, n)
  <2>1. n \in names /\ r \in T
    BY DEF With
  <2>2. IsFiniteSet(T) /\ c[r] = parts[r][n] /\ \A q \in T : c[q] \in Nat
    BY <1>3, <2>1
  <2>3. w[n] = SumFunctionOnSet(c, T)
    BY <1>2, <2>1
  <2> HIDE DEF c, T, names, w
  <2>4. SumFunctionOnSet(c, T) = c[r] + SumFunctionOnSet(c, T \ {r})
    BY <2>1, <2>2, SumStep
  <2>5. SumFunctionOnSet(c, T \ {r}) \in Nat
    <3>1. IsFiniteSet(T \ {r}) /\ \A q \in T \ {r} : c[q] \in Nat
      BY <2>2, FS_Subset
    <3> QED BY <3>1, SumNatural
  <2>6. c[r] \in Nat
    BY <2>1, <2>2
  <2>7. parts[r][n] <= w[n]
    BY <2>2, <2>3, <2>4, <2>5, <2>6
  <2> QED BY <1>2, <2>1, <2>7
<1>5. ASSUME NEW r, DOMAIN parts = {r}
      PROVE  /\ DOMAIN w = DOMAIN parts[r]
             /\ \A n \in DOMAIN parts[r] : w[n] = parts[r][n]
  <2>1. names = DOMAIN parts[r]
    BY <1>5
  <2>2. ASSUME NEW n \in DOMAIN parts[r] PROVE w[n] = parts[r][n]
    <3> DEFINE c == Col(n)
    <3>1. With(parts, n) = {r} /\ n \in names
      BY <1>5 DEF With
    <3>2. c[r] = parts[r][n] /\ c[r] \in Nat /\ IsFiniteSet({r})
      BY <1>3, <3>1
    <3>3. w[n] = SumFunctionOnSet(c, {r})
      BY <1>2, <3>1
    <3> HIDE DEF c, w, names
    <3>4. SumFunctionOnSet(c, {r}) = c[r] + SumFunctionOnSet(c, {r} \ {r})
      BY <3>2, SumStep
    <3>5. {r} \ {r} = {}
      OBVIOUS
    <3>6. SumFunctionOnSet(c, {r} \ {r}) = 0
      BY <3>5, SumEmpty
    <3> QED BY <3>2, <3>3, <3>4, <3>6
  <2> QED BY <1>2, <2>1, <2>2
<1>6. IsWeight(w)
  BY <1>1, <1>2, <1>3 DEF IsWeight
<1> HIDE DEF w
<1> QED BY <1>4, <1>5, <1>6 DEF w

\* The totals of the rows are weights, and an entry of each metric is part of them.
LEMMA RowsWeights ==
    ASSUME NEW rows, AreRows(rows)
    PROVE  IsWeight(Buttons(rows)) /\ IsWeight(Durations(rows))
<1>1. \A a \in DOMAIN rows :
        /\ rows[a].clicks \in Seq([button : Nat, count : Int])
        /\ rows[a].hovers \in Seq([section : Nat, hovers : Int, ms : Int])
  BY DEF AreRows, Content
<1> DEFINE clicks == [r \in DOMAIN rows |-> ButtonCounts(rows[r].clicks)]
           ms == [r \in DOMAIN rows |-> SectionPart(rows[r].hovers, "ms")]
<1>2. /\ IsFiniteSet(DOMAIN clicks) /\ IsFiniteSet(DOMAIN ms)
      /\ \A r \in DOMAIN clicks : IsWeight(clicks[r])
      /\ \A r \in DOMAIN ms : IsWeight(ms[r])
  BY <1>1, ButtonCountsWeight, SectionPartWeight DEF AreRows
<1>3. Buttons(rows) = Merged(clicks) /\ Durations(rows) = Merged(ms)
  BY DEF Buttons, Durations
<1> HIDE DEF clicks, ms
<1> QED BY <1>2, <1>3, MergedFacts

\* The order of a ranking.
HeavierPairs(w) == {p \in (DOMAIN w) \X (DOMAIN w) : Heavier(w, p[1], p[2])}

LEMMA HeavierOrders ==
    ASSUME NEW w, IsWeight(w)
    PROVE  Orders(HeavierPairs(w), DOMAIN w)
<1>1. \A n \in DOMAIN w : n \in Int /\ w[n] \in Int
  BY DEF IsWeight
<1>2. \A n, m \in DOMAIN w : <<n, m>> \in HeavierPairs(w) <=> Heavier(w, n, m)
  BY DEF HeavierPairs
<1>3. \A n \in DOMAIN w : ~ Heavier(w, n, n)
  BY <1>1 DEF Heavier
<1>4. \A n, m \in DOMAIN w : n = m \/ Heavier(w, n, m) \/ Heavier(w, m, n)
  BY <1>1 DEF Heavier
<1>5. \A n, m, l \in DOMAIN w : Heavier(w, n, m) /\ Heavier(w, m, l) => Heavier(w, n, l)
  BY <1>1 DEF Heavier
<1> QED BY <1>2, <1>3, <1>4, <1>5 DEF Orders

\* How many names a ranking lists.
Size(w) == IF Cardinality(DOMAIN w) < TopN THEN Cardinality(DOMAIN w) ELSE TopN

LEMMA TopFacts ==
    ASSUME NEW w, IsWeight(w)
    PROVE  /\ Size(w) \in Nat /\ Size(w) <= TopN
           /\ DOMAIN Top(w) = 1 .. Size(w)
           /\ \A k \in 1 .. Size(w) : Top(w)[k] \in DOMAIN w
           /\ \A j, k \in 1 .. Size(w) : Top(w)[j] = Top(w)[k] => j = k
           /\ \A k \in 1 .. Size(w), m \in DOMAIN w :
                 (\E j \in 1 .. Size(w) : Top(w)[j] = m) \/ Heavier(w, Top(w)[k], m)
           /\ Size(w) # TopN => \A m \in DOMAIN w : \E j \in 1 .. Size(w) : Top(w)[j] = m
<1> DEFINE names == DOMAIN w
           R == HeavierPairs(w)
           all == Cardinality(names)
           size == Size(w)
           list == Top(w)
<1>1. IsFiniteSet(names) /\ all \in Nat /\ TopN \in Nat /\ Orders(R, names)
  BY TopNAssumption, HeavierOrders, FS_CardinalityType DEF IsWeight
<1>2. size \in Nat /\ size <= TopN /\ size <= all /\ (size # TopN => size = all)
  BY <1>1 DEF Size
<1>3. \A n \in names : {m \in names : Heavier(w, m, n)} = Before(R, names, n)
  BY DEF Before, HeavierPairs
<1>4. list = [k \in 1 .. size |-> CHOOSE n \in names :
                 Cardinality({m \in names : Heavier(w, m, n)}) = k - 1]
  BY DEF Top, Size
<1>5. ASSUME NEW k \in 1 .. size
      PROVE  list[k] \in names /\ Cardinality(Before(R, names, list[k])) = k - 1
  <2>1. k - 1 \in 0 .. all - 1
    BY <1>1, <1>2
  <2>2. \E n \in names : Cardinality(Before(R, names, n)) = k - 1
    <3> HIDE DEF R, names
    <3>1. \A i \in 0 .. all - 1 : \E n \in names : Cardinality(Before(R, names, n)) = i
      BY <1>1, RankFacts
    <3> QED BY <2>1, <3>1
  <2>3. \E n \in names : Cardinality({m \in names : Heavier(w, m, n)}) = k - 1
    BY <1>3, <2>2
  <2>4. list[k] = CHOOSE n \in names : Cardinality({m \in names : Heavier(w, m, n)}) = k - 1
    BY <1>4
  <2> HIDE DEF names, R, list
  <2>5. list[k] \in names /\ Cardinality({m \in names : Heavier(w, m, list[k])}) = k - 1
    BY <2>3, <2>4
  <2> QED BY <1>3, <2>5
<1>6. DOMAIN list = 1 .. size
  BY <1>4
<1>7. \A n, m \in names : <<n, m>> \in R => Heavier(w, n, m)
  BY DEF HeavierPairs
<1> HIDE DEF names, R, list, size
<1>8. /\ \A j, k \in 1 .. size : list[j] = list[k] => j = k
      /\ \A k \in 1 .. size, m \in names :
            (\E j \in 1 .. size : list[j] = m) \/ <<list[k], m>> \in R
      /\ size = Cardinality(names) => \A m \in names : \E j \in 1 .. size : list[j] = m
  <2>1. \A k \in 1 .. size : list[k] \in names /\ Cardinality(Before(R, names, list[k])) = k - 1
    BY <1>5
  <2> HIDE DEF all
  <2> QED BY <1>1, <1>2, <1>6, <2>1, RankedList
<1>9. \A k \in 1 .. size, m \in names :
        (\E j \in 1 .. size : list[j] = m) \/ Heavier(w, list[k], m)
  BY <1>5, <1>7, <1>8
<1> QED BY <1>2, <1>5, <1>6, <1>8, <1>9 DEF names, list, size

\* A ranking of weights as it is listed, whatever else it says of its names.
Ranks(list, w) ==
    /\ list \in Seq(Range(list)) /\ DOMAIN list = DOMAIN Top(w)
    /\ \A k \in DOMAIN list :
          list[k].name = Top(w)[k] /\ list[k].share = Share(w, Top(w)[k])

LEMMA StatsRank ==
    ASSUME NEW w, IsWeight(w), NEW h
    PROVE  Ranks(ButtonStats(w), w) /\ Ranks(SectionStats(h, w), w)
<1> DEFINE top == Top(w)
<1>1. Size(w) \in Nat /\ DOMAIN top = 1 .. Size(w)
  BY TopFacts
<1> HIDE DEF top
<1>2. ASSUME NEW list, list = [k \in DOMAIN top |-> list[k]]
      PROVE  list \in Seq(Range(list)) /\ DOMAIN list = DOMAIN top
  <2>1. list \in [1 .. Size(w) -> Range(list)]
    BY <1>1, <1>2 DEF Range
  <2> QED BY <1>1, <2>1
<1>3. Ranks(ButtonStats(w), w)
  <2> DEFINE list == ButtonStats(w)
  <2>1. list = [k \in DOMAIN top |-> list[k]]
        /\ \A k \in DOMAIN top : list[k].name = top[k] /\ list[k].share = Share(w, top[k])
    BY DEF ButtonStats, top
  <2> HIDE DEF list
  <2>2. list \in Seq(Range(list)) /\ DOMAIN list = DOMAIN top
    BY <1>2, <2>1
  <2> QED BY <2>1, <2>2 DEF Ranks, list, top
<1>4. Ranks(SectionStats(h, w), w)
  <2> DEFINE list == SectionStats(h, w)
  <2>1. list = [k \in DOMAIN top |-> list[k]]
        /\ \A k \in DOMAIN top : list[k].name = top[k] /\ list[k].share = Share(w, top[k])
    BY DEF SectionStats, top
  <2> HIDE DEF list
  <2>2. list \in Seq(Range(list)) /\ DOMAIN list = DOMAIN top
    BY <1>2, <2>1
  <2> QED BY <2>1, <2>2 DEF Ranks, list, top
<1> QED BY <1>3, <1>4

LEMMA ListFacts ==
    ASSUME NEW w, IsWeight(w), NEW list, Ranks(list, w)
    PROVE  /\ Len(list) = Size(w)
           /\ Listed(list) \in SUBSET DOMAIN w /\ IsFiniteSet(Listed(list))
           /\ Cardinality(Listed(list)) = Len(list)
           /\ \A n \in Listed(list), m \in DOMAIN w \ Listed(list) : Heavier(w, n, m)
           /\ Len(list) # TopN => Listed(list) = DOMAIN w
<1> DEFINE size == Size(w)
           top == Top(w)
           names == Listed(list)
<1>1. /\ size \in Nat /\ size <= TopN
      /\ DOMAIN top = 1 .. size
      /\ \A k \in 1 .. size : top[k] \in DOMAIN w
      /\ \A j, k \in 1 .. size : top[j] = top[k] => j = k
      /\ \A k \in 1 .. size, m \in DOMAIN w :
            (\E j \in 1 .. size : top[j] = m) \/ Heavier(w, top[k], m)
      /\ size # TopN => \A m \in DOMAIN w : \E j \in 1 .. size : top[j] = m
  BY TopFacts
<1>2. /\ list \in Seq(Range(list)) /\ DOMAIN list = 1 .. size
      /\ \A k \in 1 .. size : list[k].name = top[k]
  BY <1>1 DEF Ranks
<1> HIDE DEF size, top
<1>3. Len(list) = size
  BY <1>1, <1>2
<1>4. names = {top[k] : k \in 1 .. size}
  BY <1>2 DEF Listed
<1> HIDE DEF names
<1>5. names \in SUBSET DOMAIN w
  BY <1>1, <1>4
<1>6. IsFiniteSet(names) /\ Cardinality(names) = size
  <2> DEFINE f == [k \in 1 .. size |-> top[k]]
  <2>1. f \in Surjection(1 .. size, names)
    BY <1>4 DEF Surjection
  <2>2. f \in Injection(1 .. size, names)
    BY <1>1, <1>4 DEF Injection, IsInjective
  <2>3. IsFiniteSet(1 .. size) /\ Cardinality(1 .. size) = size
    BY <1>1, FS_Interval
  <2> HIDE DEF f
  <2> QED BY <2>1, <2>2, <2>3, FS_Surjection
<1>7. \A n \in names, m \in DOMAIN w \ names : Heavier(w, n, m)
  BY <1>1, <1>4
<1>8. ASSUME size # TopN PROVE names = DOMAIN w
  <2>1. \A m \in DOMAIN w : m \in names
    BY <1>1, <1>4, <1>8
  <2> QED BY <1>5, <2>1
<1> QED BY <1>3, <1>5, <1>6, <1>7, <1>8 DEF names, size

-----------------------------------------------------------------------------
(* Shares.                                                                   *)

LEMMA DivisionFacts ==
    ASSUME NEW a \in Nat, NEW b \in Nat \ {0}
    PROVE  a \div b \in Nat /\ b * (a \div b) <= a /\ a < b * (a \div b) + b
OBVIOUS

\* A share is rounded to a hundredth of a percent.
LEMMA ShareRounded ==
    ASSUME NEW w, IsWeight(w), NEW n \in DOMAIN w
    PROVE  LET all == SumFunction(w) IN
           /\ all \in Nat /\ Share(w, n) \in Nat
           /\ (2 * all) * Share(w, n) <= 20000 * w[n] + all
           /\ 20000 * w[n] - all <= (2 * all) * Share(w, n)
<1> DEFINE all == SumFunction(w)
           s == Share(w, n)
           v == w[n]
<1>1. IsFiniteSet(DOMAIN w) /\ (\A m \in DOMAIN w : w[m] \in Nat) /\ v \in Nat
  BY DEF IsWeight
<1>2. all \in Nat
  BY <1>1, SumNatural DEF SumFunction
<1>3. v <= all
  <2>1. SumFunctionOnSet(w, DOMAIN w) = w[n] + SumFunctionOnSet(w, DOMAIN w \ {n})
    BY <1>1, SumStep
  <2>2. SumFunctionOnSet(w, DOMAIN w \ {n}) \in Nat
    <3>1. IsFiniteSet(DOMAIN w \ {n}) /\ \A m \in DOMAIN w \ {n} : w[m] \in Nat
      BY <1>1, FS_Subset
    <3> QED BY <3>1, SumNatural
  <2> QED BY <1>1, <2>1, <2>2 DEF SumFunction
<1>4. s = IF all > 0 THEN (200 * (100 * v) + all) \div (2 * all) ELSE 0
  BY DEF Share, Hundredths
<1> DEFINE Near == /\ s \in Nat
                   /\ (2 * all) * s <= 20000 * v + all /\ 20000 * v - all <= (2 * all) * s
<1> HIDE DEF all, s, v
<1>5. ASSUME all = 0 PROVE Near
  <2>1. s = 0 /\ v = 0
    BY <1>1, <1>3, <1>4, <1>5
  <2> QED BY <1>5, <2>1
<1>6. ASSUME all > 0 PROVE Near
  <2> DEFINE a == 200 * (100 * v) + all
             b == 2 * all
  <2>1. a \in Nat /\ b \in Nat \ {0} /\ a = 20000 * v + all
    BY <1>1, <1>2, <1>6
  <2>2. s = a \div b
    BY <1>4, <1>6
  <2> HIDE DEF a, b
  <2>3. s \in Nat /\ b * s <= a /\ a < b * s + b
    BY <2>1, <2>2, DivisionFacts
  <2> DEFINE bs == b * s
  <2>4. bs \in Int /\ bs <= a /\ a < bs + b
    BY <2>1, <2>3
  <2>5. b = 2 * all
    BY DEF b
  <2> HIDE DEF bs
  <2>6. bs <= 20000 * v + all /\ 20000 * v - all <= bs
    BY <1>1, <1>2, <2>1, <2>4, <2>5
  <2> QED BY <1>2, <2>3, <2>5, <2>6 DEF bs
<1>7. Near
  BY <1>2, <1>5, <1>6
<1> QED BY <1>2, <1>7 DEF all, s, v

\* The shares of a list are those of what it lists.
SharesFit(list, w) ==
    LET all == SumFunction(w)
        listed == SumFunctionOnSet(w, Listed(list))
        sum == SumFunction([k \in DOMAIN list |-> list[k].share])
    IN  /\ 2 * all * sum <= 20000 * listed + Len(list) * all
        /\ 2 * all * sum >= 20000 * listed - Len(list) * all

LEMMA SharesAddUp ==
    ASSUME NEW w, IsWeight(w), NEW list, Ranks(list, w)
    PROVE  SharesFit(list, w)
<1> DEFINE all == SumFunction(w)
           listed == SumFunctionOnSet(w, Listed(list))
           share == [k \in DOMAIN list |-> list[k].share]
           part == [k \in DOMAIN list |-> w[list[k].name]]
           name == [k \in DOMAIN list |-> list[k].name]
           size == Size(w)
           S == 1 .. size
<1>1. /\ size \in Nat /\ DOMAIN Top(w) = S
      /\ \A k \in S : Top(w)[k] \in DOMAIN w
      /\ \A j, k \in S : Top(w)[j] = Top(w)[k] => j = k
  BY TopFacts
<1>2. /\ DOMAIN list = S
      /\ \A k \in S : list[k].name = Top(w)[k] /\ list[k].share = Share(w, Top(w)[k])
  BY <1>1 DEF Ranks
<1>3. Len(list) = size /\ Cardinality(S) = size /\ IsFiniteSet(S)
  BY <1>1, ListFacts, FS_Interval
<1>4. \A k \in S : /\ name[k] \in DOMAIN w /\ part[k] = w[name[k]] /\ part[k] \in Nat
                   /\ share[k] = Share(w, name[k])
  BY <1>1, <1>2 DEF IsWeight
<1>5. \A j, k \in S : name[j] = name[k] => j = k
  BY <1>1, <1>2
<1>6. Listed(list) = {name[k] : k \in S}
  BY <1>2 DEF Listed
<1>7. DOMAIN share = S
  BY <1>2
<1> HIDE DEF all, share, part, name, size, S
<1>8. SumFunctionOnSet(part, S) = SumFunctionOnSet(w, {name[k] : k \in S})
  BY <1>3, <1>4, <1>5, SumRenamed
<1>9. \A k \in S : /\ share[k] \in Int /\ part[k] \in Int
                   /\ (2 * all) * share[k] <= 20000 * part[k] + all
                   /\ 20000 * part[k] - all <= (2 * all) * share[k]
  <2> SUFFICES ASSUME NEW k \in S
               PROVE  /\ share[k] \in Int /\ part[k] \in Int
                      /\ (2 * all) * share[k] <= 20000 * part[k] + all
                      /\ 20000 * part[k] - all <= (2 * all) * share[k]
    OBVIOUS
  <2>1. /\ Share(w, name[k]) \in Nat
        /\ (2 * all) * Share(w, name[k]) <= 20000 * w[name[k]] + all
        /\ 20000 * w[name[k]] - all <= (2 * all) * Share(w, name[k])
    BY <1>4, ShareRounded DEF all
  <2> QED BY <1>4, <2>1
<1>10. all \in Int /\ 2 * all \in Int
  <2>1. all \in Nat
    BY SumNatural DEF all, SumFunction, IsWeight
  <2> QED BY <2>1
<1>11. /\ (2 * all) * SumFunctionOnSet(share, S)
              <= 20000 * SumFunctionOnSet(part, S) + Cardinality(S) * all
       /\ 20000 * SumFunctionOnSet(part, S) - Cardinality(S) * all
              <= (2 * all) * SumFunctionOnSet(share, S)
  <2> DEFINE c == 2 * all
             d == 20000
  <2>1. /\ c \in Int /\ d \in Int /\ all \in Int
        /\ \A k \in S : /\ share[k] \in Int /\ part[k] \in Int
                        /\ c * share[k] <= d * part[k] + all /\ d * part[k] - all <= c * share[k]
    BY <1>9, <1>10
  <2> HIDE DEF c, d
  <2>2. /\ c * SumFunctionOnSet(share, S) <= d * SumFunctionOnSet(part, S) + Cardinality(S) * all
        /\ d * SumFunctionOnSet(part, S) - Cardinality(S) * all <= c * SumFunctionOnSet(share, S)
    BY <1>3, <2>1, SumRounded
  <2> QED BY <2>2 DEF c, d
<1>12. SumFunction(share) = SumFunctionOnSet(share, S)
  BY <1>7 DEF SumFunction
<1> DEFINE sum == SumFunction(share)
<1>13. listed = SumFunctionOnSet(part, S)
  BY <1>6, <1>8
<1>14. sum \in Int /\ listed \in Int
  <2>1. \A k \in S : share[k] \in Int /\ part[k] \in Int
    BY <1>9
  <2>2. SumFunctionOnSet(share, S) \in Int /\ SumFunctionOnSet(part, S) \in Int
    BY <1>3, <2>1, SumType
  <2> QED BY <1>12, <1>13, <2>2
<1> HIDE DEF listed, sum
<1>15. /\ (2 * all) * sum <= 20000 * listed + size * all
       /\ 20000 * listed - size * all <= (2 * all) * sum
  BY <1>3, <1>11, <1>12, <1>13 DEF sum
<1>16. size * all \in Int /\ (2 * all) * sum \in Int
  BY <1>1, <1>10, <1>14
<1>17. /\ 2 * all * sum <= 20000 * listed + Len(list) * all
       /\ 2 * all * sum >= 20000 * listed - Len(list) * all
  BY <1>3, <1>14, <1>15, <1>16
<1> QED BY <1>17 DEF SharesFit, all, listed, sum, share

-----------------------------------------------------------------------------
(* The reports show the figures of the rows they were made of.               *)

FiguresInv ==
    /\ \A a \in Applications : metric[a].content \in Content
    /\ AreRows(overview.rows) /\ AreRows(detail.rows)
    /\ DOMAIN detail.rows \subseteq {detail.about}
    /\ \E apps : overview.report = Overview(apps, overview.rows)
    /\ detail.report = Detail(detail.rows)

LEMMA RowsRead ==
    ASSUME FiguresInv, NEW S \in SUBSET Applications
    PROVE  AreRows(Rows(S)) /\ DOMAIN Rows(S) = S
<1>1. IsFiniteSet(S)
  BY ApplicationsAssumption, FS_Subset
<1> QED BY <1>1 DEF FiguresInv, AreRows, Rows

LEMMA InitFigures == AnalyticsInit => FiguresInv
<1> SUFFICES ASSUME AnalyticsInit PROVE FiguresInv
  OBVIOUS
<1>1. \A a \in Applications : metric[a].content \in Content
  BY DatabasesAssumption DEF AnalyticsInit
<1>2. AreRows(NoRows) /\ DOMAIN NoRows = {}
  BY FS_EmptySet DEF AreRows, NoRows
<1>3. overview.rows = NoRows /\ overview.report = Overview({}, NoRows)
  BY DEF AnalyticsInit, NoOverview
<1>4. detail.rows = NoRows /\ detail.report = Detail(NoRows)
  BY DEF AnalyticsInit
<1> QED BY <1>1, <1>2, <1>3, <1>4 DEF FiguresInv

\* What a metric carries comes from the API or was there before.
LEMMA ContentStays ==
    ASSUME AnalyticsInv, FiguresInv, NEW a \in Applications, ChangeOf(a), NEW b \in Applications
    PROVE  metric'[b].content \in Content
<1> DEFINE m == metric[a]
<1>1. /\ metric = [c \in Applications |-> metric[c]]
      /\ m = [status |-> m.status, at |-> m.at, content |-> m.content]
      /\ m.content \in Content /\ metric[b].content \in Content
  BY DEF AnalyticsInv, RowsOK, FiguresInv
<1>2. ASSUME NEW q, metric' = [metric EXCEPT ![a] = q], q.content \in Content
      PROVE  metric'[b].content \in Content
  <2>1. metric'[b] = IF b = a THEN q ELSE metric[b]
    BY <1>1, <1>2
  <2> QED BY <1>1, <1>2, <2>1
<1>3. CASE UNCHANGED metric
  BY <1>1, <1>3
<1>4. CASE Submit(a)
  <2>1. PICK c \in Contents :
          metric' = [metric EXCEPT ![a] = [status |-> "sending", at |-> clock, content |-> c]]
    BY <1>4 DEF Submit
  <2>2. c \in Content
    BY ContentsAssumption
  <2> DEFINE q == [status |-> "sending", at |-> clock, content |-> c]
  <2>3. q.content \in Content /\ metric' = [metric EXCEPT ![a] = q]
    BY <2>1, <2>2
  <2> HIDE DEF q
  <2> QED BY <1>2, <2>3
<1>5. CASE Revise(a)
  <2>1. PICK c \in Contents : metric' = [metric EXCEPT ![a] = [m EXCEPT !.content = c]]
    BY <1>5 DEF Revise
  <2> DEFINE q == [m EXCEPT !.content = c]
  <2>2. q = [status |-> m.status, at |-> m.at, content |-> c]
    BY <1>1
  <2>3. q.content \in Content /\ metric' = [metric EXCEPT ![a] = q]
    BY <2>1, <2>2, ContentsAssumption
  <2> HIDE DEF q
  <2> QED BY <1>2, <2>3
<1>6. ASSUME NEW status, metric' = [metric EXCEPT ![a] = [m EXCEPT !.status = status]]
      PROVE  metric'[b].content \in Content
  <2> DEFINE q == [m EXCEPT !.status = status]
  <2>1. q = [status |-> status, at |-> m.at, content |-> m.content]
    BY <1>1
  <2>2. q.content \in Content
    BY <1>1, <2>1
  <2> HIDE DEF q
  <2>3. metric' = [metric EXCEPT ![a] = q]
    BY <1>6 DEF q
  <2> QED BY <1>2, <2>2, <2>3
<1>7. CASE CommitMetric(a)
  BY <1>6, <1>7 DEF CommitMetric
<1>8. CASE DeleteMetric(a)
  BY <1>6, <1>8 DEF DeleteMetric
<1>9. CASE DeleteOrder(a)
  <2>1. metric' = [metric EXCEPT ![a] =
                      [m EXCEPT !.status = IF m.status = "live" THEN "gone" ELSE m.status]]
    BY <1>9 DEF DeleteOrder
  <2> DEFINE status == IF m.status = "live" THEN "gone" ELSE m.status
  <2>2. metric' = [metric EXCEPT ![a] = [m EXCEPT !.status = status]]
    BY <2>1
  <2> HIDE DEF status, m
  <2> QED BY <1>6, <2>2
<1> QED BY <1>3, <1>4, <1>5, <1>7, <1>8, <1>9 DEF ChangeOf, Place, CommitOrder

LEMMA FiguresStep ==
    ASSUME AnalyticsInv, FiguresInv, [AnalyticsNext]_reportVars
    PROVE  FiguresInv'
<1>1. ASSUME UNCHANGED <<overview, detail>>,
             \A a \in Applications : metric'[a].content \in Content
      PROVE  FiguresInv'
  BY <1>1 DEF FiguresInv, AreRows
<1>2. CASE Tick \/ UNCHANGED reportVars
  <2>1. UNCHANGED <<overview, detail, metric>>
    BY <1>2 DEF Tick, reportVars
  <2> QED BY <1>1, <2>1 DEF FiguresInv
<1>3. ASSUME NEW a \in Applications, ChangeOf(a) PROVE FiguresInv'
  <2>1. UNCHANGED <<overview, detail>>
    BY <1>3 DEF ChangeOf, Change, Place, CommitOrder, Submit, CommitMetric, Revise,
        DeleteMetric, DeleteOrder
  <2>2. \A b \in Applications : metric'[b].content \in Content
    BY <1>3, ContentStays
  <2> QED BY <1>1, <2>1, <2>2
<1>4. CASE AskOverview \/ ReadApplications
  <2>1. overview'.rows = overview.rows /\ overview'.report = overview.report
        /\ UNCHANGED <<metric, detail>>
    BY <1>4 DEF AskOverview, ReadApplications, AnalyticsInv, OverviewOK
  <2> QED BY <2>1 DEF FiguresInv, AreRows
<1>5. CASE ReadMetrics
  <2> DEFINE rows == MetricsBetween(overview.now)
  <2>1. overview'.rows = rows /\ overview'.report = Overview(overview.apps, rows)
        /\ UNCHANGED <<metric, detail>>
    BY <1>5, SecondRead
  <2>2. AreRows(rows)
    BY RowsRead DEF MetricsBetween
  <2> HIDE DEF rows
  <2> QED BY <2>1, <2>2 DEF FiguresInv, AreRows
<1>6. CASE FindApplication
  <2>1. detail'.rows = detail.rows /\ detail'.report = detail.report
        /\ detail'.about = detail.about /\ UNCHANGED <<metric, overview>>
    BY <1>6 DEF FindApplication, AnalyticsInv, OverviewOK
  <2> QED BY <2>1 DEF FiguresInv, AreRows
<1>7. CASE ReadDetail
  <2> DEFINE one == {a \in {detail.about} : metric[a].status = "live"}
             rows == Rows(one)
             report == Detail(rows)
  <2>1. /\ detail' = [detail EXCEPT !.pc = "done", !.reply = "ok", !.rows = rows,
                                    !.report = report]
        /\ UNCHANGED <<metric, overview>>
    BY <1>7 DEF ReadDetail
  <2>2. one \in SUBSET Applications /\ one \subseteq {detail.about}
    BY DEF AnalyticsInv, AnalyticsTypeOK
  <2> HIDE DEF one
  <2>3. AreRows(rows) /\ DOMAIN rows \subseteq {detail.about}
    BY <2>2, RowsRead
  <2> HIDE DEF rows, report
  <2>4. detail'.rows = rows /\ detail'.report = report /\ detail'.about = detail.about
    BY <2>1 DEF AnalyticsInv, OverviewOK
  <2>5. detail'.report = Detail(detail'.rows)
    BY <2>4 DEF report
  <2> QED BY <2>1, <2>3, <2>4, <2>5 DEF FiguresInv, AreRows
<1> QED BY <1>2, <1>3, <1>4, <1>5, <1>6, <1>7 DEF AnalyticsNext, ReportsDone, ChangeOf

(* Every report is that of the rows it was made of, and those are contents.  *)
THEOREM ReportsShowRows == AnalyticsSpec => []FiguresInv
<1>1. AnalyticsInit => FiguresInv
  BY InitFigures
<1>2. AnalyticsInv /\ FiguresInv /\ [AnalyticsNext]_reportVars => FiguresInv'
  BY FiguresStep
<1> QED BY <1>1, <1>2, ReportsInvariance, PTL DEF AnalyticsSpec

\* The four rankings rank the weights of the rows.
LEMMA RankingsRank ==
    ASSUME FiguresInv, NEW i \in DOMAIN Rankings
    PROVE  IsWeight(Rankings[i].weight) /\ Ranks(Rankings[i].list, Rankings[i].weight)
<1>1. PICK apps : overview.report = Overview(apps, overview.rows)
  BY DEF FiguresInv
<1>2. /\ overview.report.popular = ButtonStats(Buttons(overview.rows))
      /\ overview.report.sections
             = SectionStats(Interactions(overview.rows), Durations(overview.rows))
  BY <1>1 DEF Overview
<1>3. /\ detail.report.popular = ButtonStats(Buttons(detail.rows))
      /\ detail.report.sections
             = SectionStats(Interactions(detail.rows), Durations(detail.rows))
  BY DEF FiguresInv, Detail
<1>4. /\ IsWeight(Buttons(overview.rows)) /\ IsWeight(Durations(overview.rows))
      /\ IsWeight(Buttons(detail.rows)) /\ IsWeight(Durations(detail.rows))
  BY RowsWeights DEF FiguresInv
<1>5. /\ Ranks(overview.report.popular, Buttons(overview.rows))
      /\ Ranks(overview.report.sections, Durations(overview.rows))
      /\ Ranks(detail.report.popular, Buttons(detail.rows))
      /\ Ranks(detail.report.sections, Durations(detail.rows))
  BY <1>2, <1>3, <1>4, StatsRank
<1>6. i \in 1 .. 4
  BY DEF Rankings
<1>7. CASE i = 1
  BY <1>4, <1>5, <1>7 DEF Rankings
<1>8. CASE i = 2
  BY <1>4, <1>5, <1>8 DEF Rankings
<1>9. CASE i = 3
  BY <1>4, <1>5, <1>9 DEF Rankings
<1>10. CASE i = 4
  BY <1>4, <1>5, <1>10 DEF Rankings
<1> QED BY <1>6, <1>7, <1>8, <1>9, <1>10

(* Nothing that a ranking leaves out outweighs what it lists, for any number *)
(* of metrics, any contents, and any length of the lists.                    *)
THEOREM TopsDominate == AnalyticsSpec => []TopDominates
<1>1. ASSUME FiguresInv PROVE TopDominates
  <2> SUFFICES ASSUME NEW i \in DOMAIN Rankings
               PROVE  LET r == Rankings[i] IN
                      /\ Cardinality(Listed(r.list)) = Len(r.list)
                      /\ \A n \in Listed(r.list), m \in DOMAIN r.weight \ Listed(r.list) :
                            Heavier(r.weight, n, m)
    BY DEF TopDominates, Heavier
  <2> DEFINE r == Rankings[i]
  <2>1. IsWeight(r.weight) /\ Ranks(r.list, r.weight)
    BY <1>1, RankingsRank
  <2> HIDE DEF r
  <2>2. /\ Cardinality(Listed(r.list)) = Len(r.list)
        /\ \A n \in Listed(r.list), m \in DOMAIN r.weight \ Listed(r.list) :
              Heavier(r.weight, n, m)
    BY <2>1, ListFacts
  <2> QED BY <2>2 DEF r
<1>2. FiguresInv => TopDominates
  BY <1>1
<1> QED BY <1>2, ReportsShowRows, PTL

(* The shares of every list add up to what it lists of the whole.            *)
THEOREM SharesOfAll == AnalyticsSpec => []SharesOfTheWhole
<1>1. ASSUME FiguresInv PROVE SharesOfTheWhole
  <2>1. ASSUME NEW i \in DOMAIN Rankings
        PROVE  SharesFit(Rankings[i].list, Rankings[i].weight)
    BY <1>1, RankingsRank, SharesAddUp
  <2> QED BY <2>1 DEF SharesOfTheWhole, SharesFit
<1>2. FiguresInv => SharesOfTheWhole
  BY <1>1
<1> QED BY <1>2, ReportsShowRows, PTL

\* What is said of the one metric in `one` is part of what is said of `rows`.
LEMMA OneOfTheRows ==
    ASSUME NEW rows, AreRows(rows), NEW one, AreRows(one),
           NEW a \in DOMAIN rows, DOMAIN one = {a}, one[a] = rows[a]
    PROVE  /\ DOMAIN Buttons(one) \subseteq DOMAIN Buttons(rows)
           /\ SumFunction(Buttons(one)) <= SumFunction(Buttons(rows))
<1> DEFINE parts == [r \in DOMAIN rows |-> ButtonCounts(rows[r].clicks)]
           part == [r \in DOMAIN one |-> ButtonCounts(one[r].clicks)]
           w == Buttons(rows)
           v == Buttons(one)
<1>1. \A x, r : AreRows(x) /\ r \in DOMAIN x => IsWeight(ButtonCounts(x[r].clicks))
  <2> SUFFICES ASSUME NEW x, NEW r, AreRows(x), r \in DOMAIN x
               PROVE  IsWeight(ButtonCounts(x[r].clicks))
    OBVIOUS
  <2>1. x[r].clicks \in Seq([button : Nat, count : Int])
    BY DEF AreRows, Content
  <2> QED BY <2>1, ButtonCountsWeight
<1>2. /\ IsFiniteSet(DOMAIN parts) /\ \A r \in DOMAIN parts : IsWeight(parts[r])
      /\ IsFiniteSet(DOMAIN part) /\ \A r \in DOMAIN part : IsWeight(part[r])
  BY <1>1 DEF AreRows
<1>3. DOMAIN part = {a} /\ a \in DOMAIN parts /\ part[a] = parts[a]
  OBVIOUS
<1>4. w = Merged(parts) /\ v = Merged(part)
  BY DEF Buttons
<1> HIDE DEF parts, part, w, v
<1>5. /\ IsWeight(w)
      /\ \A n \in DOMAIN parts[a] : n \in DOMAIN w /\ parts[a][n] <= w[n]
  BY <1>2, <1>3, <1>4, MergedFacts
<1>6. /\ IsWeight(v) /\ DOMAIN v = DOMAIN part[a]
      /\ \A n \in DOMAIN part[a] : v[n] = part[a][n]
  BY <1>2, <1>3, <1>4, MergedFacts
<1>7. DOMAIN v \in SUBSET DOMAIN w /\ \A n \in DOMAIN v : v[n] <= w[n]
  BY <1>3, <1>5, <1>6
<1> DEFINE D == DOMAIN v
           E == DOMAIN w
<1>8. /\ IsFiniteSet(D) /\ IsFiniteSet(E) /\ D \in SUBSET E
      /\ \A n \in E : w[n] \in Nat
      /\ \A n \in D : v[n] \in Int /\ w[n] \in Int /\ v[n] <= w[n]
      /\ \A n \in D : v[n] \in Nat /\ w[n] \in Nat
  BY <1>5, <1>6, <1>7 DEF IsWeight
<1>9. SumFunction(v) = SumFunctionOnSet(v, D) /\ SumFunction(w) = SumFunctionOnSet(w, E)
  BY DEF SumFunction
<1> HIDE DEF D, E
<1>10. SumFunctionOnSet(v, D) <= SumFunctionOnSet(w, D)
  BY <1>8, SumMonotone
<1>11. SumFunctionOnSet(w, D) <= SumFunctionOnSet(w, E)
  BY <1>8, SumOfPart
<1>12. /\ SumFunctionOnSet(v, D) \in Nat /\ SumFunctionOnSet(w, D) \in Nat
       /\ SumFunctionOnSet(w, E) \in Nat
  BY <1>8, SumNatural
<1>13. SumFunction(v) <= SumFunction(w)
  BY <1>9, <1>10, <1>11, <1>12
<1> QED BY <1>7, <1>13 DEF v, w

\* The returns of one metric, if it says any, are among the returns of all.
LEMMA ReturnsOfOne ==
    ASSUME NEW rows, AreRows(rows), NEW one, AreRows(one),
           NEW a \in DOMAIN rows, DOMAIN one = {a}, one[a] = rows[a]
    PROVE  Total(Returns(one)) <= SumFunction(Usable(Returns(rows)))
<1> DEFINE f == Usable(Returns(rows))
           g == Usable(Returns(one))
           n == rows[a].returns
<1>1. DOMAIN f = {r \in DOMAIN rows : rows[r].returns >= 0}
      /\ \A r \in DOMAIN f : f[r] = rows[r].returns
  BY DEF Usable, RestrictValues, Restrict, Valid, Returns
<1>2. DOMAIN g = {r \in {a} : n >= 0} /\ \A r \in DOMAIN g : g[r] = n
  BY DEF Usable, RestrictValues, Restrict, Valid, Returns
<1>3. \A r \in DOMAIN rows : rows[r].returns \in Int
  BY DEF AreRows, Content
<1> HIDE DEF f, g
<1>4. IsFiniteSet(DOMAIN f) /\ \A r \in DOMAIN f : f[r] \in Nat
  BY <1>1, <1>3, FS_Subset DEF AreRows
<1>5. SumFunction(f) \in Nat
  BY <1>4, SumNatural DEF SumFunction
<1>6. CASE n < 0
  <2>1. DOMAIN g = {}
    BY <1>2, <1>3, <1>6
  <2>2. Total(Returns(one)) = -1
    BY <2>1 DEF Total, g, NoFigure
  <2> QED BY <1>5, <2>2 DEF f
<1>7. CASE n >= 0
  <2>1. DOMAIN g = {a} /\ g[a] = n /\ a \in DOMAIN f /\ f[a] = n
    BY <1>1, <1>2, <1>7
  <2>2. n \in Nat
    BY <1>3, <1>7
  <2> HIDE DEF n
  <2>3. SumFunctionOnSet(g, {a}) = n
    <3>1. IsFiniteSet({a}) /\ \A r \in {a} : g[r] \in Int
      BY <2>1, <2>2, FS_Singleton
    <3>2. SumFunctionOnSet(g, {a}) = g[a] + SumFunctionOnSet(g, {a} \ {a})
      BY <3>1, SumStep
    <3>3. {a} \ {a} = {}
      OBVIOUS
    <3>4. SumFunctionOnSet(g, {a} \ {a}) = 0
      BY <3>3, SumEmpty
    <3> QED BY <2>1, <2>2, <3>2, <3>4
  <2>4. SumFunctionOnSet(f, DOMAIN f) = n + SumFunctionOnSet(f, DOMAIN f \ {a})
    <3>1. SumFunctionOnSet(f, DOMAIN f) = f[a] + SumFunctionOnSet(f, DOMAIN f \ {a})
      BY <1>4, <2>1, SumStep
    <3> QED BY <2>1, <3>1
  <2>5. SumFunctionOnSet(f, DOMAIN f \ {a}) \in Nat
    <3>1. IsFiniteSet(DOMAIN f \ {a}) /\ \A r \in DOMAIN f \ {a} : f[r] \in Nat
      BY <1>4, FS_Subset
    <3> QED BY <3>1, SumNatural
  <2>6. Total(Returns(one)) = n
    <3>1. Total(Returns(one)) = SumFunction(g)
      BY <2>1 DEF Total, g
    <3> QED BY <2>1, <2>3, <3>1 DEF SumFunction
  <2>7. n <= SumFunction(f)
    BY <2>2, <2>4, <2>5 DEF SumFunction
  <2> QED BY <2>6, <2>7 DEF f
<1> QED BY <1>3, <1>6, <1>7

(* The detail of an application is contained in every overview that counts   *)
(* the same metric.                                                          *)
THEOREM DetailsWithinOverviews == AnalyticsSpec => []DetailWithinOverview
<1>1. ASSUME FiguresInv, SameRead PROVE
        /\ detail.report.clicks <= overview.report.clicks
        /\ detail.report.returns <= overview.report.returns
        /\ \A n \in Listed(detail.report.popular) :
              n \in Listed(overview.report.popular) \/ Len(overview.report.popular) = TopN
        /\ overview.rows = detail.rows =>
              /\ overview.report.popular = detail.report.popular
              /\ overview.report.sections = detail.report.sections
  <2> DEFINE rows == overview.rows
             one == detail.rows
             a == detail.about
  <2>1. PICK apps : overview.report = Overview(apps, rows)
    BY <1>1 DEF FiguresInv
  <2>2. /\ overview.report.clicks = SumFunction(Buttons(rows))
        /\ overview.report.returns = SumFunction(Usable(Returns(rows)))
        /\ overview.report.popular = ButtonStats(Buttons(rows))
        /\ overview.report.sections = SectionStats(Interactions(rows), Durations(rows))
    BY <2>1 DEF Overview
  <2>3. /\ detail.report.clicks = SumFunction(Buttons(one))
        /\ detail.report.returns = Total(Returns(one))
        /\ detail.report.popular = ButtonStats(Buttons(one))
        /\ detail.report.sections = SectionStats(Interactions(one), Durations(one))
    BY <1>1 DEF FiguresInv, Detail
  <2>4. /\ AreRows(rows) /\ AreRows(one) /\ a \in DOMAIN rows
        /\ DOMAIN one = {a} /\ one[a] = rows[a]
    BY <1>1 DEF FiguresInv, SameRead
  <2> HIDE DEF rows, one, a
  <2>5. /\ DOMAIN Buttons(one) \subseteq DOMAIN Buttons(rows)
        /\ SumFunction(Buttons(one)) <= SumFunction(Buttons(rows))
    BY <2>4, OneOfTheRows
  <2>6. Total(Returns(one)) <= SumFunction(Usable(Returns(rows)))
    BY <2>4, ReturnsOfOne
  <2>7. /\ IsWeight(Buttons(one)) /\ Ranks(ButtonStats(Buttons(one)), Buttons(one))
        /\ IsWeight(Buttons(rows)) /\ Ranks(ButtonStats(Buttons(rows)), Buttons(rows))
    BY <2>4, RowsWeights, StatsRank
  <2>8. ASSUME NEW n \in Listed(ButtonStats(Buttons(one)))
        PROVE  \/ n \in Listed(ButtonStats(Buttons(rows)))
               \/ Len(ButtonStats(Buttons(rows))) = TopN
    <3>1. n \in DOMAIN Buttons(one)
      BY <2>7, ListFacts
    <3>2. \/ Len(ButtonStats(Buttons(rows))) = TopN
          \/ Listed(ButtonStats(Buttons(rows))) = DOMAIN Buttons(rows)
      BY <2>7, ListFacts
    <3> QED BY <2>5, <3>1, <3>2
  <2>9. overview.rows = detail.rows => rows = one
    BY DEF rows, one
  <2> QED BY <2>2, <2>3, <2>5, <2>6, <2>8, <2>9
<1>2. FiguresInv => DetailWithinOverview
  BY <1>1 DEF DetailWithinOverview
<1> QED BY <1>2, ReportsShowRows, PTL
=============================================================================
