------------------------- MODULE MCAnalyticsReports -------------------------
(***************************************************************************)
(* Databases for AnalyticsReports: two applications at every stage around  *)
(* the borders of the period, and three whose metrics carry every mixture  *)
(* of contents, rows of before the validation among them.                  *)
(***************************************************************************)
EXTENDS AnalyticsReports

Click(button, count) == [button |-> button, count |-> count]
Hover(section, hovers, ms) == [section |-> section, hovers |-> hovers, ms |-> ms]

Brief == [time |-> 3, returns |-> 1, clicks |-> <<Click(1, 1), Click(3, 2)>>,
          hovers |-> <<Hover(1, 1, 3)>>]
Long == [time |-> 10, returns |-> 2, clicks |-> <<Click(2, 2), Click(1, 0)>>,
         hovers |-> <<Hover(2, 2, 5), Hover(3, 1, 0)>>]

\* Names that are no names, refused numbers, one name several times.
Damaged == [time |-> 4, returns |-> 5,
            clicks |-> <<Click(1, 1), Click(Blank, 4), Click(2, -1), Click(1, 2), Click(3, 1)>>,
            hovers |-> <<Hover(Blank, 1, 9), Hover(1, -1, 2), Hover(2, -1, -1),
                         Hover(1, 2, 1), Hover(3, 1, -1)>>]

ApiContents == {Brief, Long}
StoredContents == ApiContents \union {Damaged, NoContent}

\* An order of time o, with or without a metric of time m.
Alone(status, o) == [order |-> [status |-> status, at |-> o], metric |-> NoMetric]
Both(status, o, m, c) ==
    [order |-> [status |-> "live", at |-> o],
     metric |-> [status |-> status, at |-> m, content |-> c]]

Now == 2
Stages ==
    {[order |-> NoOrder, metric |-> NoMetric]}
    \union {Alone(s, o) : s \in {"placing", "live"}, o \in 0 .. Now}
    \union {Both(s, om[1], om[2], Long) :
              s \in {"sending", "live"},
              om \in {x \in (0 .. Now) \X (0 .. Now) : x[1] <= x[2]}}

OtherStages == {Alone("live", 1), Both("live", 0, 0, Brief)}

Database(s) ==
    [clock |-> Now, order |-> [a \in Applications |-> s[a].order],
     metric |-> [a \in Applications |-> s[a].metric]]

Pairs == {Database([a \in Applications |-> IF a = 1 THEN s ELSE IF a = 2 THEN t
                                           ELSE [order |-> NoOrder, metric |-> NoMetric]]) :
            s \in Stages, t \in OtherStages}

Mixtures == {Database([a \in Applications |-> Both("live", 0, 1, c[a])]) :
                c \in [Applications -> StoredContents]}

MCDatabases == Pairs \union Mixtures
=============================================================================
