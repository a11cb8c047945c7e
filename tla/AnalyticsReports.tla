-------------------------- MODULE AnalyticsReports --------------------------
(***************************************************************************)
(* GET /analytics/overview and GET /analytics/applications/{id}            *)
(* (backend/app/routes/analytics.py) while orders and metrics are placed,  *)
(* edited and deleted.  Each endpoint reads twice, each read with a        *)
(* snapshot of its own (READ COMMITTED); the overview takes the time once, *)
(* before the first read.                                                  *)
(*                                                                         *)
(* created_at is PostgreSQL's now(): the instant a transaction begins, not *)
(* that of its commit.  A metric can be sent only when the order has been  *)
(* committed, since the answer carries the capability.  The containers     *)
(* share the clock of one host.                                            *)
(***************************************************************************)
EXTENDS BehaviorAnalytics

CONSTANTS
    Applications,   \* ids of applications
    Contents,       \* what a metric sent or edited through the API may carry
    Subjects,       \* ids a detail may be asked for
    Databases,      \* databases as a report may find them
    MaxTime,        \* bound: the clock stops here
    MaxChanges      \* bound: changes of the database beside the reports

ASSUME ApplicationsAssumption ==
    Applications \subseteq Nat /\ IsFiniteSet(Applications) /\ Subjects \subseteq Applications
ASSUME ContentsAssumption == Contents \subseteq Content

VARIABLES
    clock,      \* the time of the host
    order,      \* applications: being placed since `at`, committed, deleted
    metric,     \* behavior_metrics by application, likewise
    overview,   \* the overview request
    detail,     \* the request for the detail of one application
    changes     \* changes so far

reportVars == <<clock, order, metric, overview, detail, changes>>

Order == [status : {"none", "placing", "live", "gone"}, at : 0 .. MaxTime]
Metric == [status : {"none", "sending", "live", "gone"}, at : 0 .. MaxTime]

NoOrder == [status |-> "none", at |-> 0]
NoMetric == [status |-> "none", at |-> 0, content |-> NoContent]

\* A metric beside its order in a database.
WellPlaced(o, m) ==
    /\ o \in Order /\ [status |-> m.status, at |-> m.at] \in Metric
    /\ m.status \in {"sending", "live"} => o.status = "live" /\ o.at <= m.at
    /\ m.status = "gone" => o.status \in {"live", "gone"}

\* Every application has a row of each kind, the metric fits the order, and orders
\* are of the past.
ASSUME DatabasesAssumption ==
    \A d \in Databases :
        /\ d.clock \in 0 .. MaxTime
        /\ d.order \in [Applications -> Order]
        /\ d.metric = [a \in Applications |-> d.metric[a]]
        /\ \A a \in Applications :
              /\ d.metric[a] = [status |-> d.metric[a].status, at |-> d.metric[a].at,
                                content |-> d.metric[a].content]
              /\ d.metric[a].content \in Content
              /\ WellPlaced(d.order[a], d.metric[a]) /\ d.order[a].at <= d.clock

ASSUME LimitsAssumption == MaxTime \in Nat /\ MaxChanges \in Nat

AnalyticsTypeOK ==
    /\ clock \in 0 .. MaxTime
    /\ \A a \in Applications : WellPlaced(order[a], metric[a])
    /\ overview.pc \in {"idle", "applications", "metrics", "done"}
    /\ overview.now \in 0 .. MaxTime
    /\ overview.apps \subseteq Applications
    /\ DOMAIN overview.rows \subseteq Applications
    /\ overview.pc = "done" =>
          overview.report.with \in Nat /\ overview.report.without \in Nat
    /\ detail.pc \in {"idle", "metrics", "done"}
    /\ detail.about \in Applications
    /\ changes \in 0 .. MaxChanges

NoRows == [r \in {} |-> NoContent]
NoOverview == [pc |-> "idle", now |-> 0, apps |-> {}, rows |-> NoRows,
               report |-> Overview({}, NoRows)]

AnalyticsInit ==
    /\ \E d \in Databases :
          /\ clock = d.clock /\ order = d.order /\ metric = d.metric
    /\ overview = NoOverview
    /\ \E a \in Subjects :
          detail = [pc |-> "idle", about |-> a, reply |-> "none", rows |-> NoRows,
                    report |-> Detail(NoRows)]
    /\ changes = 0

Tick ==
    /\ clock < MaxTime
    /\ clock' = clock + 1
    /\ UNCHANGED <<order, metric, overview, detail, changes>>

-----------------------------------------------------------------------------
(* What happens meanwhile: see OrderIntake and MetricSubmission.             *)

Change ==
    /\ changes < MaxChanges
    /\ changes' = changes + 1
    /\ UNCHANGED <<clock, overview, detail>>

\* The transaction of an order begins, and commits later.
Place(a) ==
    /\ Change /\ order[a].status = "none"
    /\ order' = [order EXCEPT ![a] = [status |-> "placing", at |-> clock]]
    /\ UNCHANGED metric

CommitOrder(a) ==
    /\ order[a].status = "placing"
    /\ order' = [order EXCEPT ![a].status = "live"]
    /\ UNCHANGED <<clock, metric, overview, detail, changes>>

\* The same of a metric.
Submit(a) ==
    /\ Change /\ order[a].status = "live" /\ metric[a].status = "none"
    /\ \E c \in Contents :
          metric' = [metric EXCEPT ![a] = [status |-> "sending", at |-> clock, content |-> c]]
    /\ UNCHANGED order

CommitMetric(a) ==
    /\ metric[a].status = "sending"
    /\ metric' = [metric EXCEPT ![a].status = "live"]
    /\ UNCHANGED <<clock, order, overview, detail, changes>>

\* PATCH /behavior-metrics/{id} writes the fields it was sent; created_at stays.
Revise(a) ==
    /\ Change /\ metric[a].status = "live"
    /\ \E c \in Contents : metric' = [metric EXCEPT ![a].content = c]
    /\ UNCHANGED order

DeleteMetric(a) ==
    /\ Change /\ metric[a].status = "live"
    /\ metric' = [metric EXCEPT ![a].status = "gone"]
    /\ UNCHANGED order

\* The cascade takes the metric; one that is being sent holds the deletion off.
DeleteOrder(a) ==
    /\ Change /\ order[a].status = "live" /\ metric[a].status # "sending"
    /\ order' = [order EXCEPT ![a].status = "gone"]
    /\ metric' = [metric EXCEPT ![a].status = IF @ = "live" THEN "gone" ELSE @]

-----------------------------------------------------------------------------
(* The reports.                                                              *)

\* get_applications_created_between, and the filter of build_overview.
OrdersBetween(now) == {a \in Applications : order[a].status = "live" /\ InPeriod(order[a].at, now)}

Rows(apps) == [a \in apps |-> metric[a].content]

\* Mutant: an open window.
MetricsBetweenOpen(now) ==
    Rows({a \in Applications : /\ metric[a].status = "live"
                               /\ now - Period < metric[a].at /\ metric[a].at < now})

\* get_behavior_metrics_created_between, and the filter of build_overview.
MetricsBetween(now) ==
    Rows({a \in Applications : metric[a].status = "live" /\ InPeriod(metric[a].at, now)})

AskOverview ==
    /\ overview.pc = "idle"
    /\ overview' = [overview EXCEPT !.pc = "applications", !.now = clock]
    /\ UNCHANGED <<clock, order, metric, detail, changes>>

ReadApplications ==
    /\ overview.pc = "applications"
    /\ overview' = [overview EXCEPT !.pc = "metrics", !.apps = OrdersBetween(overview.now)]
    /\ UNCHANGED <<clock, order, metric, detail, changes>>

\* Mutant: the time taken again for the second read.
PeriodTakenTwice == clock

\* The end of the period for the second read.
PeriodEnd == overview.now

ReadMetrics ==
    /\ overview.pc = "metrics"
    /\ LET rows == MetricsBetween(PeriodEnd) IN
       overview' = [overview EXCEPT !.pc = "done", !.rows = rows,
                                    !.report = Overview(overview.apps, rows)]
    /\ UNCHANGED <<clock, order, metric, detail, changes>>

FindApplication ==
    /\ detail.pc = "idle"
    /\ detail' = IF order[detail.about].status = "live" THEN [detail EXCEPT !.pc = "metrics"]
                 ELSE [detail EXCEPT !.pc = "done", !.reply = "missing"]
    /\ UNCHANGED <<clock, order, metric, overview, changes>>

ReadDetail ==
    /\ detail.pc = "metrics"
    /\ LET rows == Rows({a \in {detail.about} : metric[a].status = "live"}) IN
       detail' = [detail EXCEPT !.pc = "done", !.reply = "ok", !.rows = rows,
                                !.report = Detail(rows)]
    /\ UNCHANGED <<clock, order, metric, overview, changes>>

ReportsDone ==
    /\ overview.pc = "done" /\ detail.pc = "done" /\ clock = MaxTime
    /\ UNCHANGED reportVars

AnalyticsNext ==
    \/ Tick
    \/ \E a \in Applications :
          \/ Place(a) \/ CommitOrder(a) \/ Submit(a) \/ CommitMetric(a)
          \/ Revise(a) \/ DeleteMetric(a) \/ DeleteOrder(a)
    \/ AskOverview \/ ReadApplications \/ ReadMetrics
    \/ FindApplication \/ ReadDetail
    \/ ReportsDone

AnalyticsSpec == AnalyticsInit /\ [][AnalyticsNext]_reportVars

-----------------------------------------------------------------------------
(* Properties.                                                               *)

(* A metric in an overview is one of an application in it, or of one that is *)
(* older than the period: neither a placement, a deletion nor a metric that  *)
(* commits between the two reads leaves a metric without its application.    *)
CountedMetricHasOrder ==
    overview.pc = "done" =>
        \A a \in DOMAIN overview.rows :
            a \in overview.apps \/ order[a].at < overview.now - Period

(* An application in the overview counts as one with metrics exactly if its  *)
(* metric is there at the second read and was sent before the overview was   *)
(* asked for: the window never cuts a counted application from its metric.   *)
CountedOrderHasMetric ==
    [][overview.pc = "metrics" /\ overview'.pc = "done" =>
          overview'.report.with =
              Cardinality({a \in overview.apps :
                              metric[a].status = "live" /\ metric[a].at < overview.now})
      ]_reportVars

\* The rankings of a report with the weights they rank.
Rankings == <<[list |-> overview.report.popular, weight |-> Buttons(overview.rows)],
              [list |-> overview.report.sections, weight |-> Durations(overview.rows)],
              [list |-> detail.report.popular, weight |-> Buttons(detail.rows)],
              [list |-> detail.report.sections, weight |-> Durations(detail.rows)]>>

Listed(list) == {list[k].name : k \in DOMAIN list}

(* Nothing that is left out of a ranking outweighs what is listed, ties go   *)
(* by name, and no name is listed twice.                                     *)
TopDominates ==
    \A i \in DOMAIN Rankings : LET r == Rankings[i] IN
        /\ Cardinality(Listed(r.list)) = Len(r.list)
        /\ \A n \in Listed(r.list), m \in DOMAIN r.weight \ Listed(r.list) :
              r.weight[n] > r.weight[m] \/ (r.weight[n] = r.weight[m] /\ n < m)

(* Shares are of everything that was counted, listed or not: the shares of a *)
(* list add up to what the listed names weigh of the whole, give or take the *)
(* rounding of each, half a hundredth of a percent.                          *)
SharesOfTheWhole ==
    \A i \in DOMAIN Rankings :
        LET r == Rankings[i]
            all == SumFunction(r.weight)
            listed == SumFunctionOnSet(r.weight, Listed(r.list))
            sum == SumFunction([k \in DOMAIN r.list |-> r.list[k].share])
        IN  /\ 2 * all * sum <= 20000 * listed + Len(r.list) * all
            /\ 2 * all * sum >= 20000 * listed - Len(r.list) * all

\* Both endpoints have read the same of the application.
SameRead ==
    /\ overview.pc = "done" /\ detail.pc = "done"
    /\ detail.about \in DOMAIN overview.rows \intersect DOMAIN detail.rows
    /\ detail.rows[detail.about] = overview.rows[detail.about]

(* The two endpoints agree: what the detail says of an application is        *)
(* contained in an overview that counts the same metric, a button is among   *)
(* the popular ones unless the list is full, and an overview of this metric  *)
(* only shows the same lists.                                                *)
DetailWithinOverview ==
    SameRead =>
        /\ detail.report.clicks <= overview.report.clicks
        /\ detail.report.returns <= overview.report.returns
        /\ \A n \in Listed(detail.report.popular) :
              n \in Listed(overview.report.popular) \/ Len(overview.report.popular) = TopN
        /\ overview.rows = detail.rows =>
              /\ overview.report.popular = detail.report.popular
              /\ overview.report.sections = detail.report.sections
=============================================================================
