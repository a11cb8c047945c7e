----------------------------- MODULE AdminPanel -----------------------------
(***************************************************************************)
(* The admin page: the authentication gate, login and logout, the services *)
(* tab and the tabs of AdminApplications and AdminStatistics, and the      *)
(* router that shows the home page instead (frontend/src/pages/admin.ts,   *)
(* main.ts, router.ts).                                                    *)
(*                                                                         *)
(* The services tab reloads its list after each successful edit; what the  *)
(* list holds is left out.  A panel that is left for the home page is no   *)
(* longer on the screen, but its timers run and its calls come back.       *)
(***************************************************************************)
EXTENDS AdminApplications, AdminStatistics

CONSTANTS FirstLevel, EmptyWord, FirstPeriod

ASSUME DefaultsAssumption ==
    FirstLevel \in Levels /\ EmptyWord \in Words /\ FirstPeriod \in Periods

VARIABLES
    page,       \* the page the address bar names
    view,       \* what the root element shows
    owner,      \* the token whose admin the panel greets
    tab         \* the tab that is selected

panelVars == <<calls, token, issued, expired, apps, stats, page, view, owner, tab>>

PanelTypeOK ==
    /\ CallTypeOK
    /\ apps \in AppsTab /\ stats \in StatsTab
    /\ page \in {"home", "admin"}
    /\ view \in {"home", "gate", "failed", "login", "panel"}
    /\ owner \in Tokens \union {NoToken}
    /\ tab \in {"services", "applications", "statistics"}

NoPanel ==
    /\ apps' = FreshApps(FirstLevel, EmptyWord) /\ stats' = FreshStats(FirstPeriod)
    /\ owner' = NoToken /\ tab' = "services"

SamePanel == UNCHANGED <<apps, stats, owner, tab>>

\* beginRender: every flow of an earlier render is stale.
Rendered(cs) == Bumped(cs, Kinds)

-----------------------------------------------------------------------------
(* The gate.                                                                 *)

\* renderAdmin, or the retry button of the gate.
OpenGate(c) ==
    /\ IsFree(c)
    /\ calls' = With(Rendered(calls), c, Request("check", NoToken, <<>>))
    /\ view' = "gate" /\ NoPanel
    /\ UNCHANGED <<token, issued, expired>>

EnterAdmin(c) == page = "home" /\ page' = "admin" /\ OpenGate(c)

RetryGate(c) == view = "failed" /\ OpenGate(c) /\ UNCHANGED page

\* The browser loads the page anew: only sessionStorage is left.
Reload(c) ==
    /\ page = "admin"
    /\ calls' = [s \in Slots |-> IF s = c THEN Request("check", NoToken, <<>>) ELSE Free]
    /\ view' = "gate" /\ NoPanel
    /\ UNCHANGED <<token, issued, expired, page>>

\* The home page replaces whatever is shown; no render of the admin page begins.
Leave ==
    /\ page = "admin"
    /\ page' = "home" /\ view' = "home"
    /\ UNCHANGED <<calls, token, issued, expired>> /\ SamePanel

\* runAuthGate after its first await.
CheckArrives(c, answer) ==
    /\ Arrives(c, {"check"}, answer)
    /\ IF calls[c].current /\ answer = "ok" /\ token # NoToken
       THEN calls' = With(calls, c, Request("me", token, <<>>)) /\ UNCHANGED view
       ELSE /\ calls' = With(calls, c, Free)
            /\ view' = IF ~calls[c].current THEN view
                       ELSE IF answer = "ok" THEN "login" ELSE "failed"
    /\ UNCHANGED <<token, issued, expired, page>> /\ SamePanel

\* handleSessionExpired, from the flow in slot c.
SessionExpired(c) ==
    /\ calls' = Rendered(With(calls, c, Free))
    /\ view' = "login" /\ NoPanel

\* renderAuthenticatedView; the slot of the call that opened it goes to the load of
\* the services.
ShowPanel(c) ==
    /\ calls' = With(calls, c, Request("services", token, <<>>))
    /\ view' = "panel" /\ owner' = calls[c].token /\ tab' = "services"
    /\ apps' = FreshApps(FirstLevel, EmptyWord) /\ stats' = FreshStats(FirstPeriod)

\* runAuthGate after its second await.
MeArrives(c, answer) ==
    LET call == calls[c] IN
    /\ Arrives(c, {"me"}, answer)
    /\ token' = TokenAfter(call, answer)
    /\ \/ ~call.current /\ calls' = With(calls, c, Free) /\ UNCHANGED view /\ SamePanel
       \/ call.current /\ answer = "ok" /\ ShowPanel(c)
       \/ /\ call.current /\ answer = "error"
          /\ calls' = With(calls, c, Free) /\ view' = "failed" /\ SamePanel
       \/ call.current /\ answer = "refused" /\ SessionExpired(c)
    /\ UNCHANGED <<issued, expired, page>>

-----------------------------------------------------------------------------
(* Login and logout.                                                         *)

\* The form; one submission at a time.
SubmitLogin(c) ==
    /\ view = "login" /\ ~Awaited("login") /\ ~Awaited("confirm")
    /\ IsFree(c)
    /\ calls' = With(calls, c, Request("login", NoToken, <<>>))
    /\ UNCHANGED <<token, issued, expired, page, view>> /\ SamePanel

\* Mutant: the token is stored before the render is looked at.
StoredAnyway(call, t) == t

\* saveToken, after a look at the render.
Stored(call, t) == IF call.current THEN t ELSE token

\* handleLogin after its first await: a fresh token is stored, and tried; a wrong
\* password is an error like any other.
LoginArrives(c, answer) ==
    LET call == calls[c] IN
    /\ Arrives(c, {"login"}, answer)
    /\ \/ \E t \in Tokens \ issued :
             /\ answer = "ok"
             /\ issued' = issued \union {t} /\ token' = Stored(call, t)
             /\ calls' = With(calls, c, IF call.current
                                        THEN [Request("confirm", t, <<>>) EXCEPT !.honoured = TRUE]
                                        ELSE Free)
       \/ answer = "error" /\ calls' = With(calls, c, Free) /\ UNCHANGED <<token, issued>>
    /\ UNCHANGED <<expired, page, view>> /\ SamePanel

\* handleLogin after its second await.
ConfirmArrives(c, answer) ==
    LET call == calls[c] IN
    /\ Arrives(c, {"confirm"}, answer)
    /\ \/ /\ ~call.current /\ token' = TokenAfter(call, answer)
          /\ calls' = With(calls, c, Free) /\ UNCHANGED view /\ SamePanel
       \/ call.current /\ answer = "ok" /\ UNCHANGED token /\ ShowPanel(c)
       \/ /\ call.current /\ answer # "ok" /\ token' = NoToken
          /\ calls' = With(calls, c, Free) /\ UNCHANGED view /\ SamePanel
    /\ UNCHANGED <<issued, expired, page>>

\* The logout button.
Logout ==
    /\ view = "panel"
    /\ token' = NoToken /\ calls' = Rendered(calls)
    /\ view' = "login" /\ NoPanel
    /\ UNCHANGED <<issued, expired, page>>

-----------------------------------------------------------------------------
(* The panel.                                                                *)

\* A create, a save, a toggle or a deletion is sent.
SendEdit(c) ==
    /\ view = "panel" /\ tab = "services" /\ IsFree(c)
    /\ calls' = With(calls, c, Request("edit", token, <<>>))
    /\ UNCHANGED <<token, issued, expired, page, view>> /\ SamePanel

\* loadServices after its await, and the handlers of the edits, which load the
\* services again.
ServicesArrive(c, answer) ==
    LET call == calls[c] IN
    /\ Arrives(c, {"services", "edit"}, answer)
    /\ answer = "refused" => ~call.current
    /\ token' = TokenAfter(call, answer)
    /\ calls' = With(calls, c, IF call.current /\ call.kind = "edit" /\ answer = "ok"
                               THEN Request("services", token, <<>>) ELSE Free)
    /\ UNCHANGED <<issued, expired, page, view>> /\ SamePanel

\* A section learns that the session is over; both tabs are disposed of.
SectionExpires(c) ==
    /\ calls[c].current
    /\ Arrives(c, {"services", "edit", "list", "detail", "overview"}, "refused")
    /\ token' = NoToken
    /\ SessionExpired(c)
    /\ UNCHANGED <<issued, expired, page>>

\* selectTab.
SelectTab(c) ==
    /\ view = "panel"
    /\ \E t \in {"services", "applications", "statistics"} \ {tab} :
          /\ tab' = t
          /\ IF t = "applications" THEN EnterApps(c, Bumped(calls, {"overview"})) /\ stats' = LeftStats(stats)
             ELSE IF t = "statistics"
                  THEN EnterStats(c, Bumped(calls, {"list", "detail"})) /\ apps' = LeftApps(apps)
             ELSE /\ calls' = Bumped(calls, {"list", "detail", "overview"})
                  /\ apps' = LeftApps(apps) /\ stats' = LeftStats(stats)
    /\ UNCHANGED <<token, issued, expired, page, view, owner>>

\* A click or a key in the tab of the applications.
UseApps(c) ==
    /\ view = "panel"
    /\ \/ ChooseLevel(c) \/ Type \/ Refresh(c) \/ PreviousPage(c) \/ NextPage(c)
       \/ OpenModal(c) \/ CloseModal \/ RetryDetail(c)
    /\ UNCHANGED <<token, issued, expired, page, view, owner, tab, stats>>

\* A timer runs whatever is on the screen.
SearchTimer(c) == Search(c) /\ UNCHANGED <<token, issued, expired, page, view, owner, tab, stats>>

UseStats(c) ==
    /\ view = "panel"
    /\ SwitchPeriod(c) \/ RefreshStats(c)
    /\ UNCHANGED <<token, issued, expired, page, view, owner, tab, apps>>

TabArrives(c, answer) ==
    /\ \/ (ListArrives(c, answer) \/ DetailArrives(c, answer)) /\ UNCHANGED stats
       \/ OverviewArrives(c, answer) /\ UNCHANGED apps
    /\ UNCHANGED <<issued, expired, page, view, owner, tab>>

-----------------------------------------------------------------------------

\* The page has just been opened, in a tab of the browser that remembers a token
\* or not.
PanelInit ==
    /\ calls = [c \in Slots |-> Free]
    /\ issued \in {{}} \union {{t} : t \in Tokens}
    /\ token \in issued \union {NoToken}
    /\ expired = {}
    /\ apps = FreshApps(FirstLevel, EmptyWord) /\ stats = FreshStats(FirstPeriod)
    /\ page = "home" /\ view = "home" /\ owner = NoToken /\ tab = "services"

PanelNext ==
    \/ Leave \/ Logout
    \/ \E c \in Slots :
          \/ EnterAdmin(c) \/ Reload(c) \/ RetryGate(c)
          \/ SubmitLogin(c) \/ SendEdit(c) \/ SelectTab(c)
          \/ UseApps(c) \/ SearchTimer(c) \/ UseStats(c) \/ SectionExpires(c)
          \/ \E answer \in {"ok", "refused", "error"} :
                \/ CheckArrives(c, answer) \/ MeArrives(c, answer)
                \/ LoginArrives(c, answer) \/ ConfirmArrives(c, answer)
                \/ ServicesArrive(c, answer) \/ TabArrives(c, answer)
    \/ \E t \in Tokens : Expire(t) /\ UNCHANGED <<apps, stats, page, view, owner, tab>>

PanelSpec == PanelInit /\ [][PanelNext]_panelVars

-----------------------------------------------------------------------------
(* Properties.                                                               *)

(* While a panel is shown, the token that its calls carry is the one whose   *)
(* admin the panel greets, or none: a login given up by leaving the page     *)
(* never stores its token under a panel that another login has opened since. *)
PanelShowsOwner == view = "panel" => token \in {owner, NoToken}

(* The rows on the screen were asked for with the filter, the search and the *)
(* page that the controls show, however the answers overtake each other; a   *)
(* search that was typed and not yet sent will replace them.                 *)
ListMatchesControls ==
    (apps.active /\ apps.list # <<>>) =>
        /\ apps.list[1] = apps.level /\ apps.list[3] = apps.skip
        /\ apps.list[2] = apps.word \/ apps.timer

(* The statistics on the screen are those of the period that is selected.    *)
StatisticsMatchPeriod == stats.shown # <<>> => stats.shown[1] = stats.period

(* Who says "loading" has a call on its way whose answer will be applied:    *)
(* no switch of tab, period, page, filter or modal leaves the page waiting   *)
(* for an answer that it will ignore, or refuses the load it needs.          *)
LoadingHasCall ==
    /\ view = "gate" => Awaited("check") \/ Awaited("me")
    /\ apps.loading => Awaited("list")
    /\ apps.detail = "loading" => Awaited("detail")
    /\ stats.loading => Awaited("overview")
    /\ apps.active => apps.loading \/ apps.failed \/ apps.list # <<>>
    /\ stats.active => stats.loading \/ stats.failed \/ stats.shown # <<>>

(* No call of a tab that is hidden, and no timer, is still to change it.     *)
HiddenTabsRest ==
    /\ ~apps.active => ~Awaited("list") /\ ~Awaited("detail") /\ ~apps.timer
    /\ ~stats.active => ~Awaited("overview")

(* Once the home page is shown, no answer that comes late paints over it.    *)
HomeStaysHome == page = "home" => view = "home"
=============================================================================
