-------------------------- MODULE BehaviorAnalytics --------------------------
(***************************************************************************)
(* The pure aggregation behind the admin's statistics                      *)
(* (backend/app/services/behavior_analytics.py): the window of a period,   *)
(* what counts of a stored metric, the rankings and the averages.          *)
(*                                                                         *)
(* Button and section names are numbers in their alphabetical order; Blank *)
(* stands for every name that is dropped.  Names are stripped before they  *)
(* are compared, so one name may come several times in one metric.  Every  *)
(* number that is refused (of a wrong type, negative, not finite) is       *)
(* negative.  What is not a list or an object at all counts as an empty    *)
(* one.  Averages and shares are hundredths, rounded; null is NoFigure.    *)
(***************************************************************************)
EXTENDS Integers, FiniteSets, Functions, SequencesExt

CONSTANTS
    Period,     \* the length of a period
    TopN        \* how many names a ranking lists (_TOP_N)

ASSUME PeriodAssumption == Period \in Nat \ {0}
ASSUME TopNAssumption == TopN \in Nat \ {0}

Blank == 0
NoFigure == -1

\* What a row of behavior_metrics carries.
Content ==
    [time : Int, returns : Int, clicks : Seq([button : Nat, count : Int]),
     hovers : Seq([section : Nat, hovers : Int, ms : Int])]
NoContent == [time |-> 0, returns |-> 0, clicks |-> <<>>, hovers |-> <<>>]

\* compute_period_bounds and _in_period: half-open.
InPeriod(t, now) == now - Period <= t /\ t < now

Valid(n) == n >= 0

\* num / den, in hundredths.  Ties go up; Python's go where the binary fraction lies.
Hundredths(num, den) == (200 * num + den) \div (2 * den)

\* The amounts of some items, added up by their names.
ByName(names, amounts) ==
    [n \in Range(names) |-> SumFunctionOnSet(amounts, {i \in DOMAIN names : names[i] = n})]

Clicked(item) == item.button # Blank /\ item.count > 0

\* _extract_button_counts.
ButtonCounts(clicks) ==
    LET use == {i \in DOMAIN clicks : Clicked(clicks[i])} IN
    ByName([i \in use |-> clicks[i].button], [i \in use |-> clicks[i].count])

\* `or 0` of _extract_section_raw.
OrZero(n) == IF Valid(n) THEN n ELSE 0

Hovered(item) ==
    item.section # Blank /\ (OrZero(item.hovers) > 0 \/ OrZero(item.ms) > 0)

\* _extract_section_raw; `part` is which of its two numbers, "hovers" or "ms".
SectionPart(hovers, part) ==
    LET use == {i \in DOMAIN hovers : Hovered(hovers[i])} IN
    ByName([i \in use |-> hovers[i].section], [i \in use |-> OrZero(hovers[i][part])])

\* Mutant: a later row replaces what earlier ones said of a name.
MergedOverwrite(parts) ==
    [n \in UNION {DOMAIN parts[r] : r \in DOMAIN parts} |->
        parts[CHOOSE r \in DOMAIN parts : n \in DOMAIN parts[r] /\
                 \A q \in DOMAIN parts : n \in DOMAIN parts[q] => q <= r][n]]

\* The totals by name over the rows `parts`.
Merged(parts) ==
    [n \in UNION {DOMAIN parts[r] : r \in DOMAIN parts} |->
        SumFunction([r \in {q \in DOMAIN parts : n \in DOMAIN parts[q]} |-> parts[r][n]])]

\* _aggregate_button_counts and _aggregate_sections over the contents `rows`.
Buttons(rows) == Merged([r \in DOMAIN rows |-> ButtonCounts(rows[r].clicks)])
Interactions(rows) == Merged([r \in DOMAIN rows |-> SectionPart(rows[r].hovers, "hovers")])
Durations(rows) == Merged([r \in DOMAIN rows |-> SectionPart(rows[r].hovers, "ms")])

\* Mutant: names in alphabetical order cut off before they are sorted.
TopEarly(weight) ==
    LET names == SetToSortSeq(DOMAIN weight, <)
        first == SubSeq(names, 1, IF Len(names) < TopN THEN Len(names) ELSE TopN)
    IN  SortSeq(first, LAMBDA n, m : weight[n] > weight[m])

\* Sorted by weight, ties in alphabetical order.
Heavier(weight, n, m) == weight[n] > weight[m] \/ (weight[n] = weight[m] /\ n < m)

\* The heaviest names, by how many are heavier.
Top(weight) ==
    LET names == DOMAIN weight
        Ahead(n) == Cardinality({m \in names : Heavier(weight, m, n)})
        size == IF Cardinality(names) < TopN THEN Cardinality(names) ELSE TopN
    IN  [k \in 1 .. size |-> CHOOSE n \in names : Ahead(n) = k - 1]

\* Mutant: the share of what is listed.
ShareOfListed(weight, n) ==
    LET listed == SumFunctionOnSet(weight, Range(Top(weight)))
    IN  IF listed > 0 THEN Hundredths(100 * weight[n], listed) ELSE 0

\* The share of everything, listed or not.
Share(weight, n) ==
    LET all == SumFunction(weight) IN
    IF all > 0 THEN Hundredths(100 * weight[n], all) ELSE 0

\* _build_button_stats.
ButtonStats(weight) ==
    [k \in DOMAIN Top(weight) |-> LET n == Top(weight)[k] IN
        [name |-> n, count |-> weight[n], share |-> Share(weight, n)]]

\* _build_section_stats; `average` is the duration of one interaction.
SectionStats(hovers, ms) ==
    [k \in DOMAIN Top(ms) |-> LET n == Top(ms)[k] IN
        [name |-> n, count |-> hovers[n], total |-> ms[n], share |-> Share(ms, n),
         average |-> IF hovers[n] > 0 THEN Hundredths(ms[n], hovers[n]) ELSE 0]]

\* The valid ones of the numbers f[r].
Usable(f) == RestrictValues(f, Valid)

Mean(f) ==
    LET v == Usable(f) IN
    IF DOMAIN v = {} THEN NoFigure
    ELSE Hundredths(SumFunction(v), Cardinality(DOMAIN v))

Median(f) ==
    LET v == Usable(f)
        ordered == SetToSortSeq(DOMAIN v, LAMBDA r, s : v[r] < v[s])
        n == Len(ordered)
    IN  IF n = 0 THEN NoFigure
        ELSE Hundredths(v[ordered[(n + 1) \div 2]] + v[ordered[n \div 2 + 1]], 2)

Times(rows) == [r \in DOMAIN rows |-> rows[r].time]
Returns(rows) == [r \in DOMAIN rows |-> rows[r].returns]

WithMetrics(apps, rows) == Cardinality(apps \intersect DOMAIN rows)

\* build_overview of the applications `apps` and the contents `rows` of the
\* metrics in the period, by application (application_id is unique).
Overview(apps, rows) ==
    [applications |-> Cardinality(apps), metrics |-> Cardinality(DOMAIN rows),
     with |-> WithMetrics(apps, rows),
     without |-> Cardinality(apps) - WithMetrics(apps, rows),
     meanTime |-> Mean(Times(rows)), medianTime |-> Median(Times(rows)),
     meanReturns |-> Mean(Returns(rows)), returns |-> SumFunction(Usable(Returns(rows))),
     clicks |-> SumFunction(Buttons(rows)), buttons |-> Cardinality(DOMAIN Buttons(rows)),
     popular |-> ButtonStats(Buttons(rows)),
     sections |-> SectionStats(Interactions(rows), Durations(rows))]

Total(f) == IF DOMAIN Usable(f) = {} THEN NoFigure ELSE SumFunction(Usable(f))

\* build_application_detail of the metrics of one application.
Detail(rows) ==
    [has |-> DOMAIN rows # {}, time |-> Total(Times(rows)), returns |-> Total(Returns(rows)),
     clicks |-> SumFunction(Buttons(rows)), popular |-> ButtonStats(Buttons(rows)),
     sections |-> SectionStats(Interactions(rows), Durations(rows))]
=============================================================================
