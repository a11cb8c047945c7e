--------------------------- MODULE AdminStatistics --------------------------
(***************************************************************************)
(* The statistics tab of the admin panel                                   *)
(* (frontend/src/pages/adminAnalytics.ts): the overview of one period,     *)
(* loaded when the tab is entered, when the period is switched and on      *)
(* request.  A load refuses to start while another one is on its way, so   *)
(* whoever gives a request up must say that nothing is on its way any      *)
(* more.                                                                   *)
(***************************************************************************)
EXTENDS AdminCalls

VARIABLE stats

\* `shown` is the period of the overview on the screen.
StatsTab == [active : BOOLEAN, period : Periods, loading : BOOLEAN, failed : BOOLEAN,
             shown : {<<>>} \union (Periods \X {"overview"})]

FreshStats(first) ==
    [active |-> FALSE, period |-> first, loading |-> FALSE, failed |-> FALSE, shown |-> <<>>]

\* loadOverview up to its await, in state `s` of the tab.
LoadOverview(c, cs, s) ==
    IF s.loading THEN stats' = s /\ calls' = cs
    ELSE /\ IsFree(c)
         /\ stats' = [s EXCEPT !.loading = TRUE, !.failed = FALSE, !.shown = <<>>]
         /\ calls' = With(cs, c, Request("overview", token, <<s.period, "overview">>))

\* The tab after the period was switched.
Switched(p) == [stats EXCEPT !.period = p, !.loading = FALSE]

\* Mutant: the switch leaves the earlier request current.
SwitchPeriodUnbumped(c) ==
    \E p \in Periods \ {stats.period} :
        stats.active /\ LoadOverview(c, calls, Switched(p))

\* A period button: a new activation id, and a load of its own.
SwitchPeriod(c) ==
    \E p \in Periods \ {stats.period} :
        stats.active /\ LoadOverview(c, Bumped(calls, {"overview"}), Switched(p))

RefreshStats(c) ==
    /\ stats.active /\ ~stats.loading
    /\ LoadOverview(c, calls, stats)

\* The rest of loadOverview; a 401 to a load that is still current is
\* SectionExpires.
OverviewArrives(c, answer) ==
    LET call == calls[c] IN
    /\ Arrives(c, {"overview"}, answer)
    /\ answer = "refused" => ~call.current
    /\ calls' = With(calls, c, Free)
    /\ token' = TokenAfter(call, answer)
    /\ stats' = IF ~call.current THEN stats
                ELSE [stats EXCEPT !.loading = FALSE, !.failed = answer = "error",
                        !.shown = IF answer = "ok" THEN call.arg ELSE @]

\* deactivate.
LeftStats(s) == [s EXCEPT !.active = FALSE, !.loading = FALSE]

\* activate.
EnterStats(c, cs) == LoadOverview(c, Bumped(cs, {"overview"}), [stats EXCEPT !.active = TRUE])
=============================================================================
