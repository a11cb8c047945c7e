---------------------------- MODULE PanelProofs -----------------------------
(***************************************************************************)
(* Proofs about AdminPanel, for any number of calls in flight, tokens,     *)
(* filters, words, applications, periods and pages.                        *)
(***************************************************************************)
EXTENDS AdminPanel, TLAPS

TokenOrNone == Tokens \union {NoToken}
Details == Apps \X {"detail"}
Overviews == Periods \X {"overview"}

\* The flows that decide what the root element shows.
Flows == {"check", "me", "login", "confirm"}
TabCalls == {"list", "detail", "overview"}

FreshTabs == apps = FreshApps(FirstLevel, EmptyWord) /\ stats = FreshStats(FirstPeriod)

\* What is known of a call `x`: what its answer is for and, while its answer will be
\* applied, that the panel has not moved on.
Fits(x) ==
    /\ x.kind = "list" => x.arg \in Criteria
    /\ x.kind = "detail" => x.arg \in Details
    /\ x.kind = "overview" => x.arg \in Overviews
    /\ x.current =>
          /\ x.kind # "free"
          /\ x.kind \in {"check", "me"} => view \in {"gate", "home"}
          /\ x.kind \in {"login", "confirm"} => view \in {"login", "home"}
          /\ x.kind \in {"me", "confirm"} => token \in {x.token, NoToken}
          /\ x.kind \in Flows => FreshTabs
          /\ x.kind = "list" => /\ apps.active
                                /\ x.arg[1] = apps.level /\ x.arg[3] = apps.skip
                                /\ x.arg[2] = apps.word \/ apps.timer
          /\ x.kind = "detail" => apps.active
          /\ x.kind = "overview" => stats.active /\ x.arg[1] = stats.period

CallsFit == \A c \in Slots : Fits(calls[c])

InFlow(c) == calls[c].current /\ calls[c].kind \in Flows
OneFlow == \A c, d \in Slots : InFlow(c) /\ InFlow(d) => c = d

TabsFit ==
    /\ view \in {"gate", "failed", "login"} => FreshTabs
    /\ ~apps.active => ~apps.timer /\ ~apps.loading /\ apps.modal = <<>>
    /\ ~stats.active => ~stats.loading

PanelInv ==
    /\ PanelTypeOK /\ CallsFit /\ OneFlow /\ TabsFit
    /\ PanelShowsOwner /\ ListMatchesControls /\ StatisticsMatchPeriod

-----------------------------------------------------------------------------
(* What the operators on calls do.                                           *)

LEMMA WithFacts ==
    ASSUME NEW cs \in [Slots -> Call], NEW c \in Slots, NEW call \in Call
    PROVE  /\ With(cs, c, call) \in [Slots -> Call]
           /\ With(cs, c, call)[c] = call
           /\ \A d \in Slots \ {c} : With(cs, c, call)[d] = cs[d]
  BY DEF With

LEMMA BumpedFacts ==
    ASSUME NEW cs \in [Slots -> Call], NEW kinds
    PROVE  /\ Bumped(cs, kinds) \in [Slots -> Call]
           /\ \A d \in Slots :
                 /\ Bumped(cs, kinds)[d].kind = cs[d].kind
                 /\ Bumped(cs, kinds)[d].token = cs[d].token
                 /\ Bumped(cs, kinds)[d].arg = cs[d].arg
                 /\ Bumped(cs, kinds)[d].current <=>
                        cs[d].current /\ cs[d].kind \notin kinds
  BY DEF Bumped, Call

LEMMA RequestFacts ==
    ASSUME NEW kind \in Kinds, NEW t \in TokenOrNone, NEW arg \in Arg
    PROVE  /\ Request(kind, t, arg) \in Call
           /\ Request(kind, t, arg).kind = kind
           /\ Request(kind, t, arg).token = t
           /\ Request(kind, t, arg).arg = arg
           /\ Request(kind, t, arg).current
  BY DEF Request, Call, Accepted, TokenOrNone

LEMMA FreeFacts == Free \in Call /\ Free.kind = "free" /\ ~Free.current
  BY DEF Free, Call, Arg

\* A token that is stored, or none.
LEMMA TokenAfterFacts ==
    ASSUME NEW call, NEW answer, token \in TokenOrNone
    PROVE  TokenAfter(call, answer) \in {token, NoToken}
  BY DEF TokenAfter

\* The calls, the token and the tabs, which most actions look at.
Shape ==
    /\ calls \in [Slots -> Call] /\ token \in TokenOrNone
    /\ apps \in AppsTab /\ stats \in StatsTab

LEMMA TypeShape == ASSUME PanelTypeOK PROVE Shape
  BY DEF PanelTypeOK, CallTypeOK, Shape, TokenOrNone

LEMMA FreshFacts ==
    /\ FreshApps(FirstLevel, EmptyWord) \in AppsTab
    /\ FreshStats(FirstPeriod) \in StatsTab
    /\ LET a == FreshApps(FirstLevel, EmptyWord) IN
          /\ ~a.active /\ ~a.timer /\ ~a.loading
          /\ a.modal = <<>> /\ a.list = <<>>
    /\ LET s == FreshStats(FirstPeriod) IN ~s.active /\ ~s.loading /\ s.shown = <<>>
  BY DefaultsAssumption, MaxTotalAssumption DEF FreshApps, FreshStats, AppsTab, StatsTab

\* What a load of the list leaves behind, from the tab `a` and the calls `cs`.
LoadDone(c, cs, a) ==
    /\ calls[c] = Free
    /\ apps' \in AppsTab
    /\ apps'.active = a.active /\ apps'.level = a.level /\ apps'.word = a.word
    /\ apps'.skip = a.skip /\ apps'.total = a.total /\ apps'.timer = a.timer
    /\ apps'.modal = a.modal /\ apps'.detail = a.detail /\ apps'.busy = a.busy
    /\ apps'.list = <<>> /\ apps'.loading /\ ~apps'.failed
    /\ calls' \in [Slots -> Call]
    /\ calls'[c].kind = "list" /\ calls'[c].current /\ calls'[c].token = token
    /\ calls'[c].arg = <<a.level, a.word, a.skip>>
    /\ \A d \in Slots \ {c} :
          /\ calls'[d].kind = cs[d].kind
          /\ calls'[d].token = cs[d].token
          /\ calls'[d].arg = cs[d].arg
          /\ calls'[d].current <=> cs[d].current /\ cs[d].kind # "list"

LEMMA LoadFacts ==
    ASSUME token \in TokenOrNone, NEW c \in Slots, NEW cs \in [Slots -> Call],
           NEW a \in AppsTab, Load(c, cs, a)
    PROVE  LoadDone(c, cs, a)
  <1> DEFINE arg == <<a.level, a.word, a.skip>>
             bumped == Bumped(cs, {"list"})
             call == Request("list", token, arg)
  <1>1. /\ calls[c] = Free
        /\ apps' = [a EXCEPT !.loading = TRUE, !.failed = FALSE, !.list = <<>>]
        /\ calls' = With(bumped, c, call)
    BY DEF Load, IsFree
  <1>2. arg \in Criteria /\ arg \in Arg
    BY DEF AppsTab, Criteria, Arg
  <1>3. /\ call \in Call /\ call.kind = "list" /\ call.token = token
        /\ call.arg = arg /\ call.current
    BY <1>2, RequestFacts DEF Kinds
  <1>4. /\ bumped \in [Slots -> Call]
        /\ \A d \in Slots :
              /\ bumped[d].kind = cs[d].kind
              /\ bumped[d].token = cs[d].token
              /\ bumped[d].arg = cs[d].arg
              /\ bumped[d].current <=> cs[d].current /\ cs[d].kind # "list"
    BY BumpedFacts
  <1>5. /\ apps' \in AppsTab
        /\ apps'.active = a.active /\ apps'.level = a.level /\ apps'.word = a.word
        /\ apps'.skip = a.skip /\ apps'.total = a.total /\ apps'.timer = a.timer
        /\ apps'.modal = a.modal /\ apps'.detail = a.detail /\ apps'.busy = a.busy
        /\ apps'.list = <<>> /\ apps'.loading /\ ~apps'.failed
    BY <1>1 DEF AppsTab
  <1>6. /\ calls' \in [Slots -> Call] /\ calls'[c] = call
        /\ \A d \in Slots \ {c} : calls'[d] = bumped[d]
    <2> HIDE DEF bumped, call
    <2> QED
      BY <1>1, <1>3, <1>4, WithFacts
  <1> HIDE DEF bumped, call, arg
  <1>7. calls'[c].arg = <<a.level, a.word, a.skip>>
    BY <1>3, <1>6 DEF arg
  <1> QED
    BY <1>1, <1>3, <1>4, <1>5, <1>6, <1>7 DEF LoadDone

-----------------------------------------------------------------------------
(* Steps that leave no flow and no tab behind.                               *)

\* No call is current but perhaps a check of the gate in slot c.
AllBumped(c) ==
    /\ calls' \in [Slots -> Call]
    /\ \A d \in Slots :
          /\ calls'[d].kind \in TabCalls =>
                calls'[d].kind = calls[d].kind /\ calls'[d].arg = calls[d].arg
          /\ calls'[d].current => d = c /\ calls'[d].kind = "check"

LEMMA ResetKeeps ==
    ASSUME PanelInv, NEW c, AllBumped(c), NoPanel,
           view' = "gate" \/ (view' = "login" /\ \A d \in Slots : ~calls'[d].current),
           token' \in TokenOrNone, page' \in {"home", "admin"},
           UNCHANGED <<issued, expired>>
    PROVE  PanelInv'
  <1>1. FreshTabs' /\ owner' = NoToken /\ tab' = "services"
    BY DEF NoPanel, FreshTabs
  <1>2. PanelTypeOK'
    BY <1>1, FreshFacts DEF PanelInv, PanelTypeOK, CallTypeOK, AllBumped, FreshTabs, TokenOrNone
  <1>3. CallsFit'
    BY <1>1 DEF PanelInv, CallsFit, Fits, AllBumped, TabCalls, Flows
  <1>4. OneFlow'
    BY DEF OneFlow, InFlow, AllBumped
  <1>5. TabsFit' /\ ListMatchesControls' /\ StatisticsMatchPeriod' /\ PanelShowsOwner'
    BY <1>1, FreshFacts DEF TabsFit, FreshTabs, ListMatchesControls, StatisticsMatchPeriod,
       PanelShowsOwner
  <1> QED
    BY <1>2, <1>3, <1>4, <1>5 DEF PanelInv

LEMMA InitHolds == PanelInit => PanelInv
  <1> SUFFICES ASSUME PanelInit PROVE PanelInv
    OBVIOUS
  <1>1. PanelTypeOK
    BY FreshFacts, FreeFacts DEF PanelInit, PanelTypeOK, CallTypeOK
  <1>2. CallsFit /\ OneFlow
    BY FreeFacts DEF PanelInit, CallsFit, Fits, OneFlow, InFlow
  <1>3. TabsFit /\ ListMatchesControls /\ StatisticsMatchPeriod /\ PanelShowsOwner
    BY FreshFacts DEF PanelInit, TabsFit, ListMatchesControls, StatisticsMatchPeriod,
       PanelShowsOwner
  <1> QED
    BY <1>1, <1>2, <1>3 DEF PanelInv

LEMMA RenderedFacts ==
    ASSUME PanelInv
    PROVE  /\ Rendered(calls) \in [Slots -> Call]
           /\ \A d \in Slots :
                 /\ Rendered(calls)[d].kind = calls[d].kind
                 /\ Rendered(calls)[d].arg = calls[d].arg
                 /\ ~Rendered(calls)[d].current
  <1>1. calls \in [Slots -> Call] /\ \A d \in Slots : calls[d].current => calls[d].kind \in Kinds
    BY TypeShape DEF PanelInv, Shape, CallsFit, Fits, Call, Kinds
  <1> QED
    BY <1>1, BumpedFacts DEF Rendered

LEMMA GateKeeps ==
    ASSUME PanelInv, NEW c \in Slots, OpenGate(c), page' \in {"home", "admin"}
    PROVE  PanelInv'
  <1> DEFINE call == Request("check", NoToken, <<>>)
  <1>1. call \in Call /\ call.kind = "check"
    BY RequestFacts DEF TokenOrNone, Arg, Kinds
  <1>2. calls' = With(Rendered(calls), c, call) /\ view' = "gate" /\ NoPanel
    BY DEF OpenGate
  <1>3. /\ calls' \in [Slots -> Call] /\ calls'[c] = call
        /\ \A d \in Slots \ {c} : calls'[d] = Rendered(calls)[d]
    <2> HIDE DEF call
    <2> QED
      BY <1>1, <1>2, RenderedFacts, WithFacts
  <1> HIDE DEF call
  <1>4. AllBumped(c)
    BY <1>1, <1>3, RenderedFacts DEF AllBumped, TabCalls
  <1>5. token' \in TokenOrNone /\ UNCHANGED <<issued, expired>>
    BY TypeShape DEF OpenGate, PanelInv, Shape
  <1> QED
    BY <1>2, <1>4, <1>5, ResetKeeps

LEMMA ReloadKeeps ==
    ASSUME PanelInv, NEW c \in Slots, Reload(c)
    PROVE  PanelInv'
  <1> DEFINE call == Request("check", NoToken, <<>>)
  <1>1. call \in Call /\ call.kind = "check"
    BY RequestFacts DEF TokenOrNone, Arg, Kinds
  <1>2. calls' = [s \in Slots |-> IF s = c THEN call ELSE Free] /\ view' = "gate" /\ NoPanel
    BY DEF Reload
  <1> HIDE DEF call
  <1>3. AllBumped(c)
    BY <1>1, <1>2, FreeFacts DEF AllBumped, TabCalls
  <1>4. token' \in TokenOrNone /\ UNCHANGED <<issued, expired>> /\ page' \in {"home", "admin"}
    BY TypeShape DEF Reload, PanelInv, Shape, PanelTypeOK
  <1> QED
    BY <1>2, <1>3, <1>4, ResetKeeps

(* A session that is over takes the panel with it.                           *)
LEMMA ExpiryKeeps ==
    ASSUME PanelInv, NEW c \in Slots, SessionExpired(c), token' \in TokenOrNone,
           UNCHANGED <<issued, expired, page>>
    PROVE  PanelInv'
  <1> DEFINE cs == With(calls, c, Free)
  <1>1. /\ cs \in [Slots -> Call]
        /\ cs[c] = Free /\ \A d \in Slots \ {c} : cs[d] = calls[d]
    BY TypeShape, FreeFacts, WithFacts DEF PanelInv, Shape
  <1>2. calls' = Bumped(cs, Kinds)
    BY DEF SessionExpired, Rendered
  <1> HIDE DEF cs
  <1>3. /\ calls' \in [Slots -> Call]
        /\ \A d \in Slots :
              /\ calls'[d].kind = cs[d].kind /\ calls'[d].arg = cs[d].arg
              /\ calls'[d].current <=> cs[d].current /\ cs[d].kind \notin Kinds
    BY <1>1, <1>2, BumpedFacts
  <1>4. \A d \in Slots : cs[d].current => cs[d].kind \in Kinds
    <2>1. \A d \in Slots : calls[d].current => calls[d].kind \in Kinds
      BY TypeShape DEF PanelInv, Shape, CallsFit, Fits, Call, Kinds
    <2> QED
      BY <1>1, <2>1, FreeFacts
  <1>5. AllBumped(c) /\ \A d \in Slots : ~calls'[d].current
    BY <1>1, <1>3, <1>4, FreeFacts DEF AllBumped, TabCalls
  <1> QED
    BY <1>5, ResetKeeps DEF SessionExpired, PanelInv, PanelTypeOK

LEMMA LogoutKeeps ==
    ASSUME PanelInv, Logout
    PROVE  PanelInv'
  <1>1. AllBumped(NoToken) /\ \A d \in Slots : ~calls'[d].current
    BY RenderedFacts DEF Logout, AllBumped, TabCalls
  <1> QED
    BY <1>1, ResetKeeps DEF Logout, PanelInv, PanelTypeOK, TokenOrNone

-----------------------------------------------------------------------------
(* The flows.                                                                *)

\* Slot c changes hands, the others stay.
OneSlot(c) ==
    /\ calls' \in [Slots -> Call]
    /\ \A d \in Slots \ {c} : calls'[d] = calls[d]

LEMMA SlotFacts ==
    ASSUME PanelInv, NEW c \in Slots, NEW call \in Call, calls' = With(calls, c, call)
    PROVE  OneSlot(c) /\ calls'[c] = call
  BY TypeShape, WithFacts DEF PanelInv, Shape, OneSlot

(* A step of a flow, or of nothing that any tab shows: the tabs stay, and    *)
(* what is current in slot c fits the view.                                  *)
LEMMA FlowKeeps ==
    ASSUME PanelInv, NEW c \in Slots, OneSlot(c), SamePanel, Fits(calls[c])',
           \/ /\ view' = view /\ token' \in {token, NoToken}
              /\ InFlow(c)' => InFlow(c) \/ \A d \in Slots : ~InFlow(d)
           \/ /\ InFlow(c) /\ view' \in {view, "login", "failed"}
              /\ token' \in TokenOrNone /\ (view # "panel" \/ token' \in {token, NoToken}),
           page' \in {"home", "admin"},
           issued \subseteq issued' /\ issued' \subseteq Tokens /\ expired' = expired
    PROVE  PanelInv'
  <1> USE DEF PanelInv
  <1>1. /\ apps' = apps /\ stats' = stats /\ owner' = owner /\ tab' = tab
        /\ FreshTabs' <=> FreshTabs
    BY DEF SamePanel, FreshTabs
  <1>2. PanelTypeOK'
    BY <1>1, TypeShape DEF PanelTypeOK, CallTypeOK, OneSlot, TokenOrNone, Shape
  <1>3. OneFlow'
    BY DEF OneFlow, InFlow, OneSlot
  <1>4. ASSUME NEW d \in Slots \ {c} PROVE Fits(calls[d])'
    <2>1. calls'[d] = calls[d] /\ Fits(calls[d])
      BY DEF OneSlot, CallsFit
    <2>2. CASE ~InFlow(d)
      BY <1>1, <2>1, <2>2 DEF Fits, InFlow, Flows
    <2>3. CASE InFlow(d)
      <3>1. ~InFlow(c)
        BY <2>3 DEF OneFlow
      <3> QED
        BY <1>1, <2>1, <3>1 DEF Fits
    <2> QED
      BY <2>2, <2>3
  <1>5. CallsFit'
    BY <1>4 DEF CallsFit
  <1>6. TabsFit'
    BY <1>1 DEF TabsFit, CallsFit, Fits, InFlow
  <1>7. PanelShowsOwner' /\ ListMatchesControls' /\ StatisticsMatchPeriod'
    BY <1>1 DEF PanelShowsOwner, ListMatchesControls, StatisticsMatchPeriod
  <1> QED
    BY <1>2, <1>3, <1>5, <1>6, <1>7

\* A slot that is given up.
LEMMA FreeFits == Fits(Free)
  BY FreeFacts DEF Fits

LEMMA LeaveKeeps ==
    ASSUME PanelInv, Leave
    PROVE  PanelInv'
  <1> USE DEF PanelInv
  <1>1. /\ calls' = calls /\ token' = token /\ apps' = apps /\ stats' = stats
        /\ owner' = owner /\ view' = "home" /\ FreshTabs' = FreshTabs
    BY DEF Leave, SamePanel, FreshTabs
  <1>2. PanelTypeOK'
    BY DEF Leave, SamePanel, PanelTypeOK, CallTypeOK
  <1>3. CallsFit'
    BY <1>1 DEF CallsFit, Fits
  <1>4. OneFlow' /\ TabsFit' /\ PanelShowsOwner'
    BY <1>1 DEF OneFlow, InFlow, TabsFit, PanelShowsOwner
  <1>5. ListMatchesControls' /\ StatisticsMatchPeriod'
    BY <1>1 DEF ListMatchesControls, StatisticsMatchPeriod
  <1> QED
    BY <1>2, <1>3, <1>4, <1>5

(* The panel opens: its slot goes to the load of the services, and no other  *)
(* answer is to be applied any more.                                         *)
LEMMA ShowKeeps ==
    ASSUME PanelInv, NEW c \in Slots, InFlow(c), calls[c].kind \in {"me", "confirm"},
           ShowPanel(c), UNCHANGED <<token, issued, expired, page>>
    PROVE  PanelInv'
  <1> USE DEF PanelInv
  <1> DEFINE call == Request("services", token, <<>>)
  <1>1. call \in Call /\ call.kind = "services"
    BY RequestFacts, TypeShape DEF Shape, Arg, Kinds
  <1>2. calls' = With(calls, c, call)
    BY DEF ShowPanel
  <1> HIDE DEF call
  <1>3. OneSlot(c) /\ calls'[c] = call
    BY <1>1, <1>2, SlotFacts
  <1>4. Fits(calls[c]) /\ calls[c].current
    BY DEF CallsFit, InFlow
  <1>5. FreshTabs /\ FreshTabs' /\ view' = "panel" /\ owner' = calls[c].token /\ tab' = "services"
    BY <1>4 DEF Fits, Flows, ShowPanel, FreshTabs
  <1>6. token \in {calls[c].token, NoToken}
    BY <1>4 DEF Fits
  <1>7. PanelTypeOK'
    <2>1. owner' \in Tokens \union {NoToken}
      BY <1>5, TypeShape DEF Shape, Call
    <2> QED
      BY <1>3, <1>5, <2>1, FreshFacts DEF PanelTypeOK, CallTypeOK, OneSlot, FreshTabs
  <1>8. CallsFit'
    <2>1. Fits(calls[c])'
      BY <1>1, <1>3 DEF Fits, Flows
    <2>2. ASSUME NEW d \in Slots \ {c} PROVE Fits(calls[d])'
      <3>1. calls'[d] = calls[d] /\ Fits(calls[d]) /\ ~InFlow(d)
        BY <1>3, <1>4 DEF OneSlot, CallsFit, OneFlow, InFlow
      <3>2. ~apps.active /\ ~stats.active
        BY <1>5, FreshFacts DEF FreshTabs
      <3> QED
        BY <3>1, <3>2 DEF Fits, InFlow, Flows
    <2> QED
      BY <2>1, <2>2 DEF CallsFit
  <1>9. OneFlow'
    BY <1>1, <1>3 DEF OneFlow, InFlow, OneSlot, Flows
  <1>10. TabsFit' /\ PanelShowsOwner' /\ ListMatchesControls' /\ StatisticsMatchPeriod'
    BY <1>5, <1>6, FreshFacts DEF TabsFit, PanelShowsOwner, ListMatchesControls,
       StatisticsMatchPeriod, FreshTabs
  <1> QED
    BY <1>7, <1>8, <1>9, <1>10

LEMMA CheckKeeps ==
    ASSUME PanelInv, NEW c \in Slots, NEW answer, CheckArrives(c, answer)
    PROVE  PanelInv'
  <1> USE DEF PanelInv
  <1>1. /\ calls[c].kind = "check" /\ SamePanel
        /\ UNCHANGED <<token, issued, expired, page>>
        /\ page \in {"home", "admin"} /\ issued \subseteq Tokens
    BY DEF CheckArrives, Arrives, PanelTypeOK, CallTypeOK
  <1>2. Fits(calls[c])
    BY DEF CallsFit
  <1>3. CASE calls[c].current /\ answer = "ok" /\ token # NoToken
    <2> DEFINE call == Request("me", token, <<>>)
    <2>1. call \in Call /\ call.kind = "me" /\ call.token = token
      BY RequestFacts, TypeShape DEF Shape, Arg, Kinds
    <2>2. calls' = With(calls, c, call) /\ view' = view
      BY <1>3 DEF CheckArrives
    <2> HIDE DEF call
    <2>3. OneSlot(c) /\ calls'[c] = call
      BY <2>1, <2>2, SlotFacts
    <2>4. FreshTabs' /\ view \in {"gate", "home"}
      BY <1>1, <1>2, <1>3 DEF Fits, Flows, SamePanel, FreshTabs
    <2>5. Fits(calls[c])'
      BY <1>1, <2>1, <2>2, <2>3, <2>4 DEF Fits
    <2>6. InFlow(c)
      BY <1>1, <1>3 DEF InFlow, Flows
    <2> QED
      BY <1>1, <2>2, <2>3, <2>5, <2>6, FlowKeeps
  <1>4. CASE ~(calls[c].current /\ answer = "ok" /\ token # NoToken)
    <2>1. calls' = With(calls, c, Free)
      BY <1>4 DEF CheckArrives
    <2>2. OneSlot(c) /\ calls'[c] = Free
      BY <2>1, FreeFacts, SlotFacts
    <2>3. Fits(calls[c])' /\ ~InFlow(c)'
      BY <2>2, FreeFacts DEF Fits, InFlow
    <2>4. \/ view' = view
          \/ InFlow(c) /\ view' \in {"login", "failed"}
      BY <1>1, <1>4 DEF CheckArrives, InFlow, Flows
    <2>5. token' \in {token, NoToken} /\ token' \in TokenOrNone
      BY <1>1, TypeShape DEF Shape
    <2> QED
      BY <1>1, <2>2, <2>3, <2>4, <2>5, FlowKeeps
  <1> QED
    BY <1>3, <1>4

(* The flow in slot c ends, and nothing but the view and the token changes.  *)
LEMMA EndKeeps ==
    ASSUME PanelInv, NEW c \in Slots, calls' = With(calls, c, Free), SamePanel,
           view' = view \/ (InFlow(c) /\ view' = "failed"),
           token' \in {token, NoToken}, UNCHANGED <<issued, expired, page>>
    PROVE  PanelInv'
  <1> USE DEF PanelInv
  <1>1. OneSlot(c) /\ calls'[c] = Free
    BY FreeFacts, SlotFacts
  <1>2. Fits(calls[c])' /\ ~InFlow(c)'
    BY <1>1, FreeFacts DEF Fits, InFlow
  <1>3. token' \in TokenOrNone
    BY TypeShape DEF Shape, TokenOrNone
  <1>4. page' \in {"home", "admin"} /\ issued' \subseteq Tokens
    BY DEF PanelTypeOK, CallTypeOK
  <1> QED
    BY <1>1, <1>2, <1>3, <1>4, FlowKeeps

LEMMA MeKeeps ==
    ASSUME PanelInv, NEW c \in Slots, NEW answer, MeArrives(c, answer)
    PROVE  PanelInv'
  <1> USE DEF PanelInv
  <1>1. /\ calls[c].kind = "me" /\ UNCHANGED <<issued, expired, page>>
        /\ token' = TokenAfter(calls[c], answer)
    BY DEF MeArrives, Arrives
  <1>2. token' \in {token, NoToken} /\ token' \in TokenOrNone
    BY <1>1, TokenAfterFacts, TypeShape DEF Shape, TokenOrNone
  <1>3. CASE ~calls[c].current /\ calls' = With(calls, c, Free) /\ UNCHANGED view /\ SamePanel
    BY <1>1, <1>2, <1>3, EndKeeps
  <1>4. CASE calls[c].current /\ answer = "ok" /\ ShowPanel(c)
    <2>1. token' = token
      BY <1>1, <1>4 DEF TokenAfter
    <2> QED
      BY <1>1, <1>4, <2>1, ShowKeeps DEF InFlow, Flows
  <1>5. CASE /\ calls[c].current /\ answer = "error"
             /\ calls' = With(calls, c, Free) /\ view' = "failed" /\ SamePanel
    BY <1>1, <1>2, <1>5, EndKeeps DEF InFlow, Flows
  <1>6. CASE calls[c].current /\ answer = "refused" /\ SessionExpired(c)
    BY <1>1, <1>2, <1>6, ExpiryKeeps
  <1> QED
    BY <1>3, <1>4, <1>5, <1>6 DEF MeArrives

LEMMA SubmitKeeps ==
    ASSUME PanelInv, NEW c \in Slots, SubmitLogin(c)
    PROVE  PanelInv'
  <1> USE DEF PanelInv
  <1> DEFINE call == Request("login", NoToken, <<>>)
  <1>1. call \in Call /\ call.kind = "login"
    BY RequestFacts DEF TokenOrNone, Arg, Kinds
  <1>2. /\ calls' = With(calls, c, call) /\ view = "login" /\ SamePanel
        /\ UNCHANGED <<token, issued, expired, page, view>>
        /\ ~Awaited("login") /\ ~Awaited("confirm")
    BY DEF SubmitLogin
  <1> HIDE DEF call
  <1>3. OneSlot(c) /\ calls'[c] = call
    BY <1>1, <1>2, SlotFacts
  <1>4. \A d \in Slots : ~InFlow(d)
    BY <1>2 DEF InFlow, Flows, Awaited, CallsFit, Fits
  <1>5. FreshTabs'
    BY <1>2 DEF TabsFit, SamePanel, FreshTabs
  <1>6. Fits(calls[c])'
    BY <1>1, <1>2, <1>3, <1>5 DEF Fits
  <1>7. page' \in {"home", "admin"} /\ issued' \subseteq Tokens
    BY <1>2 DEF PanelTypeOK, CallTypeOK
  <1> QED
    BY <1>2, <1>3, <1>4, <1>6, <1>7, FlowKeeps

LEMMA LoginKeeps ==
    ASSUME PanelInv, NEW c \in Slots, NEW answer, LoginArrives(c, answer)
    PROVE  PanelInv'
  <1> USE DEF PanelInv
  <1>1. calls[c].kind = "login" /\ SamePanel /\ UNCHANGED <<expired, page, view>>
    BY DEF LoginArrives, Arrives
  <1>2. CASE calls' = With(calls, c, Free) /\ UNCHANGED <<token, issued>>
    BY <1>1, <1>2, EndKeeps
  <1>3. ASSUME NEW t \in Tokens \ issued,
               issued' = issued \union {t} /\ token' = Stored(calls[c], t),
               calls' = With(calls, c, IF calls[c].current
                                       THEN [Request("confirm", t, <<>>) EXCEPT !.honoured = TRUE]
                                       ELSE Free)
        PROVE  PanelInv'
    <2>1. /\ page' \in {"home", "admin"} /\ issued \subseteq issued' /\ issued' \subseteq Tokens
          /\ expired' = expired
      BY <1>1, <1>3 DEF PanelTypeOK, CallTypeOK
    <2>2. CASE ~calls[c].current
      <3>1. OneSlot(c) /\ calls'[c] = Free
        BY <1>3, <2>2, FreeFacts, SlotFacts
      <3>2. Fits(calls[c])' /\ ~InFlow(c)' /\ token' = token
        BY <1>3, <2>2, <3>1, FreeFacts DEF Fits, InFlow, Stored
      <3> QED
        BY <1>1, <2>1, <3>1, <3>2, FlowKeeps
    <2>3. CASE calls[c].current
      <3> DEFINE call == [Request("confirm", t, <<>>) EXCEPT !.honoured = TRUE]
      <3>1. call \in Call /\ call.kind = "confirm" /\ call.token = t
        <4> DEFINE sent == Request("confirm", t, <<>>)
        <4>1. sent \in Call /\ sent.kind = "confirm" /\ sent.token = t
          BY RequestFacts DEF TokenOrNone, Arg, Kinds
        <4> HIDE DEF sent
        <4>2. /\ [sent EXCEPT !.honoured = TRUE] \in Call
              /\ [sent EXCEPT !.honoured = TRUE].kind = sent.kind
              /\ [sent EXCEPT !.honoured = TRUE].token = sent.token
          BY <4>1 DEF Call
        <4> QED
          BY <4>1, <4>2 DEF sent
      <3>2. calls' = With(calls, c, call) /\ token' = t
        BY <1>3, <2>3 DEF Stored
      <3> HIDE DEF call
      <3>3. OneSlot(c) /\ calls'[c] = call
        BY <3>1, <3>2, SlotFacts
      <3>4. InFlow(c) /\ view \in {"login", "home"} /\ FreshTabs
        BY <1>1, <2>3 DEF InFlow, Flows, CallsFit, Fits
      <3>5. FreshTabs'
        BY <1>1, <3>4 DEF FreshTabs, SamePanel
      <3>6. Fits(calls[c])'
        BY <1>1, <3>1, <3>2, <3>3, <3>4, <3>5 DEF Fits
      <3>7. token' \in TokenOrNone
        BY <3>2 DEF TokenOrNone
      <3> QED
        BY <1>1, <2>1, <3>3, <3>4, <3>6, <3>7, FlowKeeps
    <2> QED
      BY <2>2, <2>3
  <1> QED
    BY <1>2, <1>3 DEF LoginArrives

LEMMA ConfirmKeeps ==
    ASSUME PanelInv, NEW c \in Slots, NEW answer, ConfirmArrives(c, answer)
    PROVE  PanelInv'
  <1> USE DEF PanelInv
  <1>1. calls[c].kind = "confirm" /\ UNCHANGED <<issued, expired, page>>
    BY DEF ConfirmArrives, Arrives
  <1>2. TokenAfter(calls[c], answer) \in {token, NoToken}
    BY TokenAfterFacts, TypeShape DEF Shape
  <1>3. CASE calls[c].current /\ answer = "ok" /\ UNCHANGED token /\ ShowPanel(c)
    BY <1>1, <1>3, ShowKeeps DEF InFlow, Flows
  <1>4. CASE /\ token' \in {token, NoToken} /\ calls' = With(calls, c, Free)
             /\ UNCHANGED view /\ SamePanel
    BY <1>1, <1>4, EndKeeps
  <1> QED
    BY <1>2, <1>3, <1>4 DEF ConfirmArrives

(* The services tab: its calls are of no flow and of no other tab.           *)
LEMMA ServicesKeep ==
    ASSUME PanelInv, NEW c \in Slots,
           SendEdit(c) \/ \E answer \in {"ok", "refused", "error"} : ServicesArrive(c, answer)
    PROVE  PanelInv'
  <1> USE DEF PanelInv
  <1>1. /\ SamePanel /\ UNCHANGED <<issued, expired, page, view>>
        /\ page' \in {"home", "admin"} /\ issued' \subseteq Tokens
    BY DEF SendEdit, ServicesArrive, PanelTypeOK, CallTypeOK
  <1>2. token' \in {token, NoToken}
    BY TokenAfterFacts, TypeShape DEF SendEdit, ServicesArrive, Shape
  <1>3. PICK call \in {Request("edit", token, <<>>), Request("services", token, <<>>), Free} :
           calls' = With(calls, c, call)
    BY DEF SendEdit, ServicesArrive
  <1>4. call \in Call /\ call.kind \in {"edit", "services", "free"} /\ (call.kind = "free" => ~call.current)
    BY RequestFacts, FreeFacts, TypeShape DEF Shape, Arg, Kinds
  <1>5. OneSlot(c) /\ calls'[c] = call
    BY <1>3, <1>4, SlotFacts
  <1>6. Fits(calls[c])' /\ ~InFlow(c)'
    BY <1>4, <1>5 DEF Fits, InFlow, Flows
  <1> QED
    BY <1>1, <1>2, <1>5, <1>6, FlowKeeps

LEMMA SectionKeeps ==
    ASSUME PanelInv, NEW c \in Slots, SectionExpires(c)
    PROVE  PanelInv'
  <1>1. token' \in TokenOrNone /\ SessionExpired(c) /\ UNCHANGED <<issued, expired, page>>
    BY DEF SectionExpires, TokenOrNone
  <1> QED
    BY <1>1, ExpiryKeeps

-----------------------------------------------------------------------------
(* The tabs.                                                                 *)

\* No flow is on its way and the panel is shown, or left with its tabs in use.
InUse == (\A d \in Slots : ~InFlow(d)) /\ view \notin {"gate", "failed", "login"}

LEMMA UseFacts ==
    ASSUME PanelInv, view = "panel" \/ apps.active \/ stats.active
    PROVE  InUse
  <1>1. CASE view = "panel"
    BY <1>1 DEF PanelInv, InUse, InFlow, Flows, CallsFit, Fits
  <1>2. CASE apps.active \/ stats.active
    <2>1. ~FreshTabs
      BY <1>2, FreshFacts DEF FreshTabs
    <2> QED
      BY <2>1 DEF PanelInv, InUse, InFlow, Flows, CallsFit, Fits, TabsFit
  <1> QED
    BY <1>1, <1>2

\* What a step inside the panel leaves alone.
PanelStays == UNCHANGED <<token, issued, expired, page, view, owner>>

(* A step of the tabs keeps the invariant when the calls and the tabs fit    *)
(* each other after it.                                                      *)
LEMMA TabKeeps ==
    ASSUME PanelInv, InUse,
           token' \in {token, NoToken}, UNCHANGED <<issued, expired, page, view, owner>>,
           calls' \in [Slots -> Call], apps' \in AppsTab, stats' \in StatsTab,
           tab' \in {"services", "applications", "statistics"},
           CallsFit', \A d \in Slots : ~InFlow(d)',
           ~apps'.active => ~apps'.timer /\ ~apps'.loading /\ apps'.modal = <<>>,
           ~stats'.active => ~stats'.loading,
           ListMatchesControls', StatisticsMatchPeriod'
    PROVE  PanelInv'
  <1>1. PanelTypeOK'
    BY TypeShape DEF PanelInv, PanelTypeOK, CallTypeOK, Shape, TokenOrNone
  <1>2. OneFlow' /\ TabsFit' /\ PanelShowsOwner'
    BY DEF OneFlow, TabsFit, InUse, PanelInv, PanelShowsOwner
  <1> QED
    BY <1>1, <1>2 DEF PanelInv

(* A load of the list: the calls `cs` are those of before, perhaps without   *)
(* the overview, whose tab is left.                                          *)
LEMMA ListLoadKeeps ==
    ASSUME PanelInv, InUse, PanelStays, tab' \in {"services", "applications", "statistics"},
           NEW c \in Slots, NEW cs \in [Slots -> Call], NEW a \in AppsTab, a.active,
           Load(c, cs, a),
           \A d \in Slots : /\ cs[d].kind = calls[d].kind /\ cs[d].token = calls[d].token
                            /\ cs[d].arg = calls[d].arg
                            /\ cs[d].current => calls[d].current,
           \/ stats' = stats
           \/ /\ stats' = LeftStats(stats)
              /\ \A d \in Slots : cs[d].kind = "overview" => ~cs[d].current
    PROVE  PanelInv'
  <1> USE DEF PanelInv, PanelStays
  <1>1. LoadDone(c, cs, a)
    BY LoadFacts, TypeShape DEF Shape
  <1>2. stats' \in StatsTab /\ (~stats'.active => ~stats'.loading) /\ StatisticsMatchPeriod'
    BY TypeShape DEF Shape, LeftStats, StatsTab, TabsFit, StatisticsMatchPeriod
  <1>3. ListMatchesControls'
    BY <1>1 DEF LoadDone, ListMatchesControls
  <1>4. Fits(calls[c])'
    <2>1. <<a.level, a.word, a.skip>> \in Criteria
      BY DEF AppsTab, Criteria
    <2> QED
      BY <1>1, <2>1 DEF LoadDone, Fits, Flows
  <1>5. ASSUME NEW d \in Slots \ {c} PROVE Fits(calls[d])' /\ ~InFlow(d)'
    <2>1. Fits(calls[d]) /\ ~InFlow(d)
      BY DEF CallsFit, InUse
    <2>2. /\ calls'[d].kind = calls[d].kind /\ calls'[d].token = calls[d].token
          /\ calls'[d].arg = calls[d].arg
          /\ calls'[d].current => /\ calls[d].current /\ calls[d].kind # "list"
                                  /\ calls[d].kind = "overview" => stats' = stats
      BY <1>1 DEF LoadDone
    <2>3. apps'.active
      BY <1>1 DEF LoadDone
    <2> QED
      BY <2>1, <2>2, <2>3 DEF Fits, InFlow, Flows
  <1>6. CallsFit' /\ \A d \in Slots : ~InFlow(d)'
    BY <1>1, <1>4, <1>5 DEF CallsFit, InFlow, Flows, LoadDone
  <1>7. calls' \in [Slots -> Call] /\ apps' \in AppsTab /\ apps'.active /\ token' \in {token, NoToken}
    BY <1>1 DEF LoadDone
  <1> QED
    BY <1>2, <1>3, <1>6, <1>7, TabKeeps

\* Each call is one of before, given up or not, or ends, or asks for a detail.
CallsThin ==
    \A d \in Slots :
        \/ calls'[d].kind = "free" /\ ~calls'[d].current
        \/ calls'[d].kind = "detail" /\ calls'[d].arg \in Details
        \/ /\ calls'[d].kind = calls[d].kind /\ calls'[d].token = calls[d].token
           /\ calls'[d].arg = calls[d].arg
           /\ calls'[d].current => calls[d].current

(* A step of the applications that sends no load of the list.                *)
LEMMA AppsKeep ==
    ASSUME PanelInv, apps.active, CallsThin,
           token' \in {token, NoToken}, UNCHANGED <<issued, expired, page, view, owner, tab, stats>>,
           calls' \in [Slots -> Call], apps' \in AppsTab,
           apps'.active, apps'.level = apps.level, apps'.skip = apps.skip,
           apps'.timer \/ (apps'.word = apps.word /\ apps'.timer = apps.timer),
           ListMatchesControls'
    PROVE  PanelInv'
  <1> USE DEF PanelInv
  <1>1. InUse
    BY UseFacts
  <1>2. ASSUME NEW d \in Slots PROVE Fits(calls[d])' /\ ~InFlow(d)'
    <2>1. Fits(calls[d]) /\ ~InFlow(d)
      BY <1>1 DEF CallsFit, InUse
    <2>2. CASE calls'[d].kind = "free" /\ ~calls'[d].current
      BY <2>2 DEF Fits, InFlow
    <2>3. CASE calls'[d].kind = "detail" /\ calls'[d].arg \in Details
      BY <2>3 DEF Fits, InFlow, Flows
    <2>4. CASE /\ calls'[d].kind = calls[d].kind /\ calls'[d].token = calls[d].token
               /\ calls'[d].arg = calls[d].arg
               /\ calls'[d].current => calls[d].current
      BY <2>1, <2>4 DEF Fits, InFlow, Flows
    <2> QED
      BY <2>2, <2>3, <2>4 DEF CallsThin
  <1>3. CallsFit' /\ \A d \in Slots : ~InFlow(d)'
    BY <1>2 DEF CallsFit
  <1>4. stats' \in StatsTab /\ (~stats'.active => ~stats'.loading) /\ StatisticsMatchPeriod'
        /\ tab' \in {"services", "applications", "statistics"}
    BY TypeShape DEF Shape, TabsFit, StatisticsMatchPeriod, PanelTypeOK
  <1> QED
    BY <1>1, <1>3, <1>4, TabKeeps

\* The other variables, and those that only an answer changes.
AppsStep == UNCHANGED <<token, issued, expired, page, view, owner, tab, stats>>

(* A click, a key or the timer loads the list anew.                          *)
LEMMA ListStepKeeps ==
    ASSUME PanelInv, AppsStep, NEW c \in Slots,
           ChooseLevel(c) \/ Search(c) \/ Refresh(c) \/ PreviousPage(c) \/ NextPage(c)
    PROVE  PanelInv'
  <1> USE DEF PanelInv
  <1>1. apps \in AppsTab /\ calls \in [Slots -> Call] /\ apps.active
    BY TypeShape DEF Shape, ChooseLevel, Search, Refresh, PreviousPage, NextPage, PagerFree
  <1>0. 0 \in 0 .. MaxTotal
    BY MaxTotalAssumption
  <1>2. InUse
    BY <1>1, UseFacts
  <1>3. PICK a \in AppsTab : a.active /\ Load(c, calls, a)
    <2>1. CASE ChooseLevel(c)
      <3>1. PICK l \in Levels :
                Load(c, calls, [apps EXCEPT !.level = l, !.skip = 0, !.timer = FALSE])
        BY <2>1 DEF ChooseLevel
      <3>2. /\ [apps EXCEPT !.level = l, !.skip = 0, !.timer = FALSE] \in AppsTab
            /\ [apps EXCEPT !.level = l, !.skip = 0, !.timer = FALSE].active
        BY <1>0, <1>1 DEF AppsTab
      <3> QED
        BY <3>1, <3>2
    <2>2. CASE Search(c)
      <3>1. /\ [apps EXCEPT !.skip = 0, !.timer = FALSE] \in AppsTab
            /\ [apps EXCEPT !.skip = 0, !.timer = FALSE].active
        BY <1>0, <1>1 DEF AppsTab
      <3> QED
        BY <2>2, <3>1 DEF Search
    <2>3. CASE Refresh(c)
      BY <1>1, <2>3 DEF Refresh
    <2>4. CASE PreviousPage(c)
      <3>1. apps.skip \in 0 .. MaxTotal /\ apps.skip > 0
        BY <1>1, <2>4 DEF AppsTab, PreviousPage
      <3>2. apps.skip - 1 \in 0 .. MaxTotal
        BY <3>1, MaxTotalAssumption
      <3>3. [apps EXCEPT !.skip = @ - 1] \in AppsTab /\ [apps EXCEPT !.skip = @ - 1].active
        BY <1>1, <3>2 DEF AppsTab
      <3> QED
        BY <2>4, <3>3 DEF PreviousPage
    <2>5. CASE NextPage(c)
      <3>1. apps.skip \in 0 .. MaxTotal /\ apps.total \in 0 .. MaxTotal /\ Rows \in {0, 1}
        BY <1>1 DEF AppsTab, Rows
      <3>2. apps.skip + 1 \in 0 .. MaxTotal
        BY <2>5, <3>1, MaxTotalAssumption DEF NextPage
      <3>3. [apps EXCEPT !.skip = @ + 1] \in AppsTab /\ [apps EXCEPT !.skip = @ + 1].active
        BY <1>1, <3>2 DEF AppsTab
      <3> QED
        BY <2>5, <3>3 DEF NextPage
    <2> QED
      BY <2>1, <2>2, <2>3, <2>4, <2>5
  <1>4. PanelStays /\ stats' = stats /\ tab' \in {"services", "applications", "statistics"}
    BY DEF AppsStep, PanelStays, PanelTypeOK
  <1> QED
    BY <1>1, <1>2, <1>3, <1>4, ListLoadKeeps

LEMMA TypeKeeps ==
    ASSUME PanelInv, AppsStep, Type
    PROVE  PanelInv'
  <1> USE DEF PanelInv
  <1>1. apps \in AppsTab /\ calls \in [Slots -> Call] /\ apps.active
    BY TypeShape DEF Shape, Type
  <1>2. PICK w \in Words : apps' = [apps EXCEPT !.word = w, !.timer = TRUE]
    BY DEF Type
  <1>3. /\ apps' \in AppsTab /\ apps'.active = apps.active /\ apps'.level = apps.level
        /\ apps'.skip = apps.skip /\ apps'.timer /\ apps'.list = apps.list
    BY <1>1, <1>2 DEF AppsTab
  <1>4. ListMatchesControls'
    BY <1>1, <1>3 DEF ListMatchesControls
  <1>5. CallsThin /\ calls' \in [Slots -> Call]
    BY <1>1 DEF Type, CallsThin
  <1> QED
    BY <1>1, <1>3, <1>4, <1>5, AppsKeep DEF AppsStep

LEMMA ResetFacts ==
    ASSUME apps \in AppsTab
    PROVE  LET a == ModalReset(apps) IN
           /\ a \in AppsTab /\ a.active = apps.active /\ a.level = apps.level
           /\ a.skip = apps.skip /\ a.word = apps.word /\ a.timer = apps.timer
           /\ a.list = apps.list /\ ~a.busy
  BY DEF ModalReset, AppsTab

LEMMA LeftFacts ==
    ASSUME apps \in AppsTab
    PROVE  LET a == LeftApps(apps) IN
           /\ a \in AppsTab
           /\ ~a.active /\ ~a.timer /\ ~a.loading /\ a.modal = <<>>
  <1> DEFINE b == ModalReset(apps)
  <1>1. b \in AppsTab /\ b.modal = <<>>
    BY DEF ModalReset, AppsTab
  <1>2. LeftApps(apps) = [b EXCEPT !.active = FALSE, !.loading = FALSE, !.timer = FALSE]
    BY DEF LeftApps
  <1> HIDE DEF b
  <1> QED
    BY <1>1, <1>2 DEF AppsTab

LEMMA ModalKeeps ==
    ASSUME PanelInv, AppsStep, NEW c \in Slots,
           OpenModal(c) \/ CloseModal \/ RetryDetail(c)
    PROVE  PanelInv'
  <1> USE DEF PanelInv
  <1>1. apps \in AppsTab /\ calls \in [Slots -> Call] /\ token \in TokenOrNone
    BY TypeShape DEF Shape
  <1>2. apps.active
    BY DEF OpenModal, CloseModal, RetryDetail, TabsFit
  <1> DEFINE given == Bumped(calls, {"detail"})
  <1>3. /\ given \in [Slots -> Call]
        /\ \A d \in Slots :
              /\ given[d].kind = calls[d].kind /\ given[d].token = calls[d].token
              /\ given[d].arg = calls[d].arg
              /\ given[d].current => calls[d].current
    BY <1>1, BumpedFacts
  <1> DEFINE Same == /\ apps'.active = apps.active /\ apps'.level = apps.level
                     /\ apps'.skip = apps.skip /\ apps'.word = apps.word
                     /\ apps'.timer = apps.timer /\ apps'.list = apps.list
  <1>4. ASSUME NEW x \in Details,
               calls' \in {With(given, c, Request("detail", token, x)),
                           With(calls, c, Request("detail", token, x))}
        PROVE  calls' \in [Slots -> Call] /\ CallsThin
    <2> DEFINE call == Request("detail", token, x)
    <2>1. call \in Call /\ call.kind = "detail" /\ call.arg = x
      BY <1>1, RequestFacts DEF Details, Arg, Kinds
    <2> HIDE DEF call, given
    <2>2. PICK cs \in {given, calls} : calls' = With(cs, c, call)
      BY <1>4 DEF call
    <2>3. cs \in [Slots -> Call]
      BY <1>1, <1>3, <2>2
    <2>4. /\ calls' \in [Slots -> Call] /\ calls'[c] = call
          /\ \A d \in Slots \ {c} : calls'[d] = cs[d]
      BY <2>1, <2>2, <2>3, WithFacts
    <2>5. \A d \in Slots :
             /\ cs[d].kind = calls[d].kind /\ cs[d].token = calls[d].token
             /\ cs[d].arg = calls[d].arg
             /\ cs[d].current => calls[d].current
      BY <1>3, <2>2
    <2> QED
      BY <2>1, <2>4, <2>5 DEF CallsThin
  <1>5. ASSUME calls' = given PROVE CallsThin
    BY <1>3, <1>5 DEF CallsThin
  <1> HIDE DEF given
  <1>6. CASE OpenModal(c)
    <2>1. PICK x \in Apps :
            /\ apps' = [ModalReset(apps) EXCEPT !.modal = <<x, "detail">>,
                           !.detail = "loading", !.busy = TRUE]
            /\ calls' = IF ModalReset(apps).busy THEN given
                        ELSE With(given, c, Request("detail", token, <<x, "detail">>))
      BY <1>6 DEF OpenModal, given
    <2>2. <<x, "detail">> \in Details
      BY DEF Details
    <2>3. calls' \in [Slots -> Call] /\ CallsThin
      BY <1>1, <1>4, <2>1, <2>2, ResetFacts
    <2>4. apps' \in AppsTab /\ Same
      <3> DEFINE a == ModalReset(apps)
      <3>1. /\ a \in AppsTab /\ a.active = apps.active /\ a.level = apps.level
            /\ a.skip = apps.skip /\ a.word = apps.word /\ a.timer = apps.timer
            /\ a.list = apps.list
        BY <1>1, ResetFacts
      <3>2. apps' = [a EXCEPT !.modal = <<x, "detail">>, !.detail = "loading", !.busy = TRUE]
        BY <2>1
      <3> HIDE DEF a
      <3> QED
        BY <3>1, <3>2, <2>2 DEF AppsTab, Details
    <2>5. ListMatchesControls'
      BY <2>4 DEF ListMatchesControls
    <2> QED
      BY <1>2, <2>3, <2>4, <2>5, AppsKeep DEF AppsStep
  <1>7. CASE CloseModal
    <2>1. apps' = ModalReset(apps) /\ calls' = given
      BY <1>7 DEF CloseModal, given
    <2>2. apps' \in AppsTab /\ Same
      BY <1>1, <2>1, ResetFacts
    <2>3. ListMatchesControls' /\ calls' \in [Slots -> Call]
      BY <1>3, <2>1, <2>2 DEF ListMatchesControls
    <2> QED
      BY <1>2, <1>5, <2>1, <2>2, <2>3, AppsKeep DEF AppsStep
  <1>8. CASE RetryDetail(c)
    <2>1. /\ apps' = [apps EXCEPT !.detail = "loading", !.busy = TRUE]
          /\ calls' = With(calls, c, Request("detail", token, apps.modal))
          /\ apps.modal # <<>>
      BY <1>8 DEF RetryDetail
    <2>2. apps.modal \in Details
      BY <1>1, <2>1 DEF AppsTab, Details
    <2>3. calls' \in [Slots -> Call] /\ CallsThin
      BY <1>4, <2>1, <2>2
    <2>4. apps' \in AppsTab /\ Same
      BY <1>1, <2>1 DEF AppsTab
    <2>5. ListMatchesControls'
      BY <2>4 DEF ListMatchesControls
    <2> QED
      BY <1>2, <2>3, <2>4, <2>5, AppsKeep DEF AppsStep
  <1> QED
    BY <1>6, <1>7, <1>8

(* Answers for the applications: an answer to a call that was given up goes  *)
(* unnoticed, any other is for what the controls show.                       *)
LEMMA AppsAnswerKeeps ==
    ASSUME PanelInv, NEW c \in Slots, NEW answer,
           ListArrives(c, answer) \/ DetailArrives(c, answer),
           UNCHANGED <<issued, expired, page, view, owner, tab, stats>>
    PROVE  PanelInv'
  <1> USE DEF PanelInv
  <1>1. apps \in AppsTab /\ calls \in [Slots -> Call]
    BY TypeShape DEF Shape
  <1>2. token' \in {token, NoToken} /\ calls' = With(calls, c, Free)
    BY TokenAfterFacts, TypeShape DEF Shape, ListArrives, DetailArrives
  <1>3. CASE ~calls[c].current
    <2>1. SamePanel
      BY <1>3 DEF ListArrives, DetailArrives, SamePanel
    <2> QED
      BY <1>2, <2>1, EndKeeps
  <1>4. CASE calls[c].current
    <2>1. OneSlot(c) /\ calls'[c] = Free
      BY <1>2, FreeFacts, SlotFacts
    <2>2. CallsThin /\ calls' \in [Slots -> Call]
      BY <2>1, FreeFacts DEF CallsThin, OneSlot
    <2>3. apps.active /\ (calls[c].kind = "list" =>
              /\ calls[c].arg \in Criteria
              /\ calls[c].arg[1] = apps.level /\ calls[c].arg[3] = apps.skip
              /\ calls[c].arg[2] = apps.word \/ apps.timer)
      BY <1>4 DEF CallsFit, Fits, ListArrives, DetailArrives, Arrives
    <2>4. /\ apps' \in AppsTab /\ apps'.active = apps.active /\ apps'.level = apps.level
          /\ apps'.skip = apps.skip /\ apps'.word = apps.word /\ apps'.timer = apps.timer
          /\ apps'.list \in {apps.list, <<>>} \/ (calls[c].kind = "list" /\ apps'.list = calls[c].arg)
      <3>1. CASE DetailArrives(c, answer)
        <4>1. apps' = [apps EXCEPT !.busy = FALSE,
                         !.detail = IF answer = "ok" THEN "shown" ELSE "failed"]
          BY <1>4, <3>1 DEF DetailArrives
        <4> QED
          BY <1>1, <4>1 DEF AppsTab
      <3>2. CASE ListArrives(c, answer) /\ answer = "error"
        <4>1. apps' = [apps EXCEPT !.loading = FALSE, !.failed = TRUE, !.list = <<>>]
          BY <1>4, <3>2 DEF ListArrives
        <4> QED
          BY <1>1, <4>1 DEF AppsTab
      <3>3. CASE ListArrives(c, answer) /\ answer # "error"
        <4>1. PICK n \in 0 .. MaxTotal :
                 apps' = [apps EXCEPT !.loading = FALSE, !.list = calls[c].arg,
                            !.skip = calls[c].arg[3], !.total = n]
          BY <1>4, <3>3 DEF ListArrives
        <4>2. calls[c].kind = "list"
          BY <3>3 DEF ListArrives, Arrives
        <4>3. calls[c].arg \in Criteria /\ calls[c].arg[3] = apps.skip
          BY <2>3, <4>2
        <4> QED
          BY <1>1, <4>1, <4>2, <4>3 DEF AppsTab
      <3> QED
        BY <3>1, <3>2, <3>3
    <2>5. ListMatchesControls'
      BY <2>3, <2>4 DEF ListMatchesControls
    <2> QED
      BY <1>2, <2>2, <2>3, <2>4, <2>5, AppsKeep
  <1> QED
    BY <1>3, <1>4

(* The statistics: a load starts only when none is on its way, and the calls *)
(* `cs` it starts from are those of before, without an earlier overview when *)
(* the period changes, and without the applications when their tab is left.  *)
LEMMA OverviewLoadKeeps ==
    ASSUME PanelInv, InUse, PanelStays, tab' \in {"services", "applications", "statistics"},
           NEW c \in Slots, NEW cs \in [Slots -> Call], NEW s \in StatsTab, s.active,
           LoadOverview(c, cs, s),
           \A d \in Slots : /\ cs[d].kind = calls[d].kind /\ cs[d].token = calls[d].token
                            /\ cs[d].arg = calls[d].arg
                            /\ cs[d].current => calls[d].current,
           \A d \in Slots : cs[d].current /\ cs[d].kind = "overview" => s.period = stats.period,
           s.loading => s.shown = stats.shown /\ s.period = stats.period,
           \/ apps' = apps
           \/ /\ apps' = LeftApps(apps)
              /\ \A d \in Slots : cs[d].kind \in {"list", "detail"} => ~cs[d].current
    PROVE  PanelInv'
  <1> USE DEF PanelInv, PanelStays
  <1>1. apps \in AppsTab /\ stats \in StatsTab /\ calls \in [Slots -> Call] /\ token \in TokenOrNone
    BY TypeShape DEF Shape
  <1>2. /\ apps' \in AppsTab /\ ListMatchesControls'
        /\ ~apps'.active => ~apps'.timer /\ ~apps'.loading /\ apps'.modal = <<>>
    <2>1. CASE apps' = apps
      BY <1>1, <2>1 DEF TabsFit, ListMatchesControls
    <2>2. CASE apps' = LeftApps(apps)
      BY <1>1, <2>2, LeftFacts DEF ListMatchesControls
    <2> QED
      BY <2>1, <2>2
  <1>3. ASSUME NEW d \in Slots, calls'[d] = cs[d], stats'.active, stats'.period = s.period
        PROVE  Fits(calls[d])' /\ ~InFlow(d)'
    <2>1. Fits(calls[d]) /\ ~InFlow(d)
      BY DEF CallsFit, InUse
    <2>2. /\ calls'[d].kind = calls[d].kind /\ calls'[d].token = calls[d].token
          /\ calls'[d].arg = calls[d].arg
          /\ calls'[d].current => /\ calls[d].current
                                  /\ calls[d].kind = "overview" => s.period = stats.period
                                  /\ calls[d].kind \in {"list", "detail"} => apps' = apps
      BY <1>3
    <2> QED
      BY <1>3, <2>1, <2>2 DEF Fits, InFlow, Flows
  <1>4. CASE s.loading
    <2>1. stats' = s /\ calls' = cs
      BY <1>4 DEF LoadOverview
    <2>2. CallsFit' /\ \A d \in Slots : ~InFlow(d)'
      BY <1>3, <2>1 DEF CallsFit
    <2>3. StatisticsMatchPeriod'
      BY <1>4, <2>1 DEF StatisticsMatchPeriod
    <2> QED
      BY <1>2, <2>1, <2>2, <2>3, TabKeeps
  <1>5. CASE ~s.loading
    <2> DEFINE call == Request("overview", token, <<s.period, "overview">>)
    <2>1. /\ <<s.period, "overview">> \in Overviews
          /\ <<s.period, "overview">> \in Arg
      BY DEF StatsTab, Overviews, Arg
    <2>2. /\ call \in Call /\ call.kind = "overview" /\ call.arg = <<s.period, "overview">>
      BY <1>1, <2>1, RequestFacts DEF Kinds
    <2>3. /\ stats' = [s EXCEPT !.loading = TRUE, !.failed = FALSE, !.shown = <<>>]
          /\ calls' = With(cs, c, call)
      BY <1>5 DEF LoadOverview
    <2> HIDE DEF call
    <2>4. /\ calls' \in [Slots -> Call] /\ calls'[c] = call
          /\ \A d \in Slots \ {c} : calls'[d] = cs[d]
      BY <2>2, <2>3, WithFacts
    <2>5. /\ stats' \in StatsTab /\ stats'.active /\ stats'.period = s.period
          /\ stats'.shown = <<>>
      BY <2>3 DEF StatsTab
    <2>6. StatisticsMatchPeriod'
      BY <2>5 DEF StatisticsMatchPeriod
    <2>7. Fits(calls[c])' /\ ~InFlow(c)'
      BY <2>1, <2>2, <2>4, <2>5 DEF Fits, InFlow, Flows
    <2>8. CallsFit' /\ \A d \in Slots : ~InFlow(d)'
      BY <1>3, <2>4, <2>5, <2>7 DEF CallsFit
    <2> QED
      BY <1>2, <2>4, <2>5, <2>6, <2>8, TabKeeps
  <1> QED
    BY <1>4, <1>5

LEMMA StatsStepKeeps ==
    ASSUME PanelInv, PanelStays, UNCHANGED <<tab, apps>>, NEW c \in Slots,
           SwitchPeriod(c) \/ RefreshStats(c)
    PROVE  PanelInv'
  <1> USE DEF PanelInv
  <1>1. stats \in StatsTab /\ calls \in [Slots -> Call] /\ stats.active
    BY TypeShape DEF Shape, SwitchPeriod, RefreshStats
  <1>2. InUse /\ tab' \in {"services", "applications", "statistics"} /\ apps' = apps
    BY <1>1, UseFacts DEF PanelTypeOK
  <1>3. CASE RefreshStats(c)
    <2>1. LoadOverview(c, calls, stats) /\ ~stats.loading
      BY <1>3 DEF RefreshStats
    <2> QED
      BY <1>1, <1>2, <2>1, OverviewLoadKeeps
  <1>4. CASE SwitchPeriod(c)
    <2> DEFINE cs == Bumped(calls, {"overview"})
    <2>1. PICK p \in Periods : LoadOverview(c, cs, Switched(p))
      BY <1>4 DEF SwitchPeriod
    <2>2. Switched(p) \in StatsTab /\ Switched(p).active /\ ~Switched(p).loading
      BY <1>1 DEF Switched, StatsTab
    <2>3. /\ cs \in [Slots -> Call]
          /\ \A d \in Slots :
                /\ cs[d].kind = calls[d].kind /\ cs[d].token = calls[d].token
                /\ cs[d].arg = calls[d].arg
                /\ cs[d].current => calls[d].current /\ cs[d].kind # "overview"
      BY <1>1, BumpedFacts
    <2> HIDE DEF cs
    <2> QED
      BY <1>1, <1>2, <2>1, <2>2, <2>3, OverviewLoadKeeps
  <1> QED
    BY <1>3, <1>4

(* Only an overview of the period that is selected is shown.                 *)
LEMMA OverviewAnswerKeeps ==
    ASSUME PanelInv, NEW c \in Slots, NEW answer, OverviewArrives(c, answer),
           UNCHANGED <<issued, expired, page, view, owner, tab, apps>>
    PROVE  PanelInv'
  <1> USE DEF PanelInv
  <1>1. stats \in StatsTab /\ calls \in [Slots -> Call] /\ apps' \in AppsTab
    BY TypeShape DEF Shape
  <1>2. token' \in {token, NoToken} /\ calls' = With(calls, c, Free)
    BY TokenAfterFacts, TypeShape DEF Shape, OverviewArrives
  <1>3. CASE ~calls[c].current
    <2>1. SamePanel
      BY <1>3 DEF OverviewArrives, SamePanel
    <2> QED
      BY <1>2, <2>1, EndKeeps
  <1>4. CASE calls[c].current
    <2>1. OneSlot(c) /\ calls'[c] = Free
      BY <1>2, FreeFacts, SlotFacts
    <2>2. stats.active /\ calls[c].arg \in Overviews /\ calls[c].arg[1] = stats.period
      BY <1>4 DEF CallsFit, Fits, OverviewArrives, Arrives
    <2>3. /\ stats' \in StatsTab /\ stats'.active /\ stats'.period = stats.period
          /\ stats'.shown \in {stats.shown, calls[c].arg}
      <3>1. CASE answer = "ok"
        <4>1. stats' = [stats EXCEPT !.loading = FALSE, !.failed = FALSE, !.shown = calls[c].arg]
          BY <1>4, <3>1 DEF OverviewArrives
        <4> QED
          BY <1>1, <2>2, <4>1 DEF StatsTab, Overviews
      <3>2. CASE answer = "error"
        <4>1. stats' = [stats EXCEPT !.loading = FALSE, !.failed = TRUE, !.shown = stats.shown]
          BY <1>4, <3>2 DEF OverviewArrives
        <4> QED
          BY <1>1, <2>2, <4>1 DEF StatsTab
      <3> QED
        BY <1>4, <3>1, <3>2 DEF OverviewArrives, Arrives, Answers
    <2>4. StatisticsMatchPeriod' /\ ListMatchesControls'
      BY <2>2, <2>3 DEF StatisticsMatchPeriod, ListMatchesControls
    <2>5. InUse
      BY <2>2, UseFacts
    <2>6. ASSUME NEW d \in Slots PROVE Fits(calls[d])' /\ ~InFlow(d)'
      <3>1. calls'[d] = calls[d] \/ calls'[d] = Free
        BY <2>1 DEF OneSlot
      <3>2. Fits(calls[d]) /\ ~InFlow(d)
        BY <2>5 DEF CallsFit, InUse
      <3> QED
        BY <2>3, <3>1, <3>2, FreeFacts DEF Fits, InFlow, Flows
    <2>7. CallsFit' /\ (\A d \in Slots : ~InFlow(d)') /\ calls' \in [Slots -> Call]
      BY <2>1, <2>6 DEF CallsFit, OneSlot
    <2>8. /\ tab' \in {"services", "applications", "statistics"}
          /\ ~apps'.active => ~apps'.timer /\ ~apps'.loading /\ apps'.modal = <<>>
      BY DEF PanelTypeOK, TabsFit
    <2> QED
      BY <1>1, <1>2, <2>3, <2>4, <2>5, <2>7, <2>8, TabKeeps
  <1> QED
    BY <1>3, <1>4

LEMMA SelectKeeps ==
    ASSUME PanelInv, NEW c \in Slots, SelectTab(c)
    PROVE  PanelInv'
  <1> USE DEF PanelInv
  <1>1. /\ apps \in AppsTab /\ stats \in StatsTab /\ calls \in [Slots -> Call]
        /\ InUse /\ PanelStays /\ tab' \in {"services", "applications", "statistics"}
    BY TypeShape, UseFacts DEF Shape, SelectTab, PanelStays
  <1>2. CASE tab' = "applications"
    <2> DEFINE a == [apps EXCEPT !.active = TRUE, !.skip = 0]
               cs == Bumped(calls, {"overview"})
    <2>1. Load(c, cs, a) /\ stats' = LeftStats(stats)
      BY <1>2 DEF SelectTab, EnterApps
    <2>2. 0 \in 0 .. MaxTotal
      BY MaxTotalAssumption
    <2>3. a \in AppsTab /\ a.active
      BY <1>1, <2>2 DEF AppsTab
    <2>4. /\ cs \in [Slots -> Call]
          /\ \A d \in Slots :
                /\ cs[d].kind = calls[d].kind /\ cs[d].token = calls[d].token
                /\ cs[d].arg = calls[d].arg
                /\ cs[d].current => calls[d].current /\ cs[d].kind # "overview"
      BY <1>1, BumpedFacts
    <2> HIDE DEF a, cs
    <2> QED
      BY <1>1, <2>1, <2>3, <2>4, ListLoadKeeps
  <1>3. CASE tab' = "statistics"
    <2> DEFINE s == [stats EXCEPT !.active = TRUE]
               left == Bumped(calls, {"list", "detail"})
               cs == Bumped(left, {"overview"})
    <2>1. LoadOverview(c, cs, s) /\ apps' = LeftApps(apps)
      BY <1>3 DEF SelectTab, EnterStats
    <2>2. s \in StatsTab /\ s.active /\ s.period = stats.period /\ s.shown = stats.shown
      BY <1>1 DEF StatsTab
    <2>3. /\ left \in [Slots -> Call]
          /\ \A d \in Slots :
                /\ left[d].kind = calls[d].kind /\ left[d].token = calls[d].token
                /\ left[d].arg = calls[d].arg
                /\ left[d].current => calls[d].current /\ left[d].kind \notin {"list", "detail"}
      BY <1>1, BumpedFacts
    <2> HIDE DEF s, left
    <2>4. /\ cs \in [Slots -> Call]
          /\ \A d \in Slots :
                /\ cs[d].kind = left[d].kind /\ cs[d].token = left[d].token
                /\ cs[d].arg = left[d].arg
                /\ cs[d].current => left[d].current
      BY <2>3, BumpedFacts
    <2> HIDE DEF cs
    <2>5. \A d \in Slots :
             /\ cs[d].kind = calls[d].kind /\ cs[d].token = calls[d].token
             /\ cs[d].arg = calls[d].arg
             /\ cs[d].current => calls[d].current /\ cs[d].kind \notin {"list", "detail"}
      BY <2>3, <2>4
    <2> QED
      BY <1>1, <2>1, <2>2, <2>4, <2>5, OverviewLoadKeeps
  <1>4. CASE tab' = "services"
    <2>1. /\ calls' = Bumped(calls, {"list", "detail", "overview"})
          /\ apps' = LeftApps(apps) /\ stats' = LeftStats(stats)
      BY <1>4 DEF SelectTab
    <2>2. /\ apps' \in AppsTab /\ ~apps'.active /\ ~apps'.timer /\ ~apps'.loading
          /\ apps'.modal = <<>>
      BY <1>1, <2>1, LeftFacts
    <2>3. /\ stats' \in StatsTab /\ ~stats'.active /\ ~stats'.loading
          /\ stats'.shown = stats.shown /\ stats'.period = stats.period
      BY <1>1, <2>1 DEF LeftStats, StatsTab
    <2>4. /\ calls' \in [Slots -> Call]
          /\ \A d \in Slots :
                /\ calls'[d].kind = calls[d].kind /\ calls'[d].arg = calls[d].arg
                /\ calls'[d].current => calls[d].current /\ calls[d].kind \notin TabCalls
      BY <1>1, <2>1, BumpedFacts DEF TabCalls
    <2>5. ASSUME NEW d \in Slots PROVE Fits(calls[d])' /\ ~InFlow(d)'
      <3>1. Fits(calls[d]) /\ ~InFlow(d)
        BY <1>1 DEF CallsFit, InUse
      <3> QED
        BY <2>4, <3>1 DEF Fits, InFlow, Flows, TabCalls
    <2>6. CallsFit' /\ \A d \in Slots : ~InFlow(d)'
      BY <2>5 DEF CallsFit
    <2>7. ListMatchesControls' /\ StatisticsMatchPeriod'
      BY <2>2, <2>3 DEF ListMatchesControls, StatisticsMatchPeriod
    <2> QED
      BY <1>1, <2>2, <2>3, <2>4, <2>6, <2>7, TabKeeps DEF PanelStays
  <1> QED
    BY <1>1, <1>2, <1>3, <1>4

LEMMA ExpireKeeps ==
    ASSUME PanelInv, NEW t \in Tokens, Expire(t), UNCHANGED <<apps, stats, page, view, owner, tab>>
    PROVE  PanelInv'
  <1> USE DEF PanelInv
  <1>1. /\ calls' = calls /\ token' = token /\ issued' = issued
        /\ expired' = expired \union {t} /\ t \in issued
    BY DEF Expire
  <1>2. PanelTypeOK'
    BY <1>1 DEF PanelTypeOK, CallTypeOK
  <1>3. CallsFit' /\ OneFlow' /\ TabsFit'
    BY <1>1 DEF CallsFit, Fits, OneFlow, InFlow, TabsFit, FreshTabs
  <1>4. PanelShowsOwner' /\ ListMatchesControls' /\ StatisticsMatchPeriod'
    BY <1>1 DEF PanelShowsOwner, ListMatchesControls, StatisticsMatchPeriod
  <1> QED
    BY <1>2, <1>3, <1>4

-----------------------------------------------------------------------------
(* The theorems.                                                             *)

LEMMA StepKeeps == PanelInv /\ [PanelNext]_panelVars => PanelInv'
  <1> SUFFICES ASSUME PanelInv, [PanelNext]_panelVars PROVE PanelInv'
    OBVIOUS
  <1>1. CASE UNCHANGED panelVars
    BY <1>1 DEF panelVars, PanelInv, PanelTypeOK, CallTypeOK, CallsFit, Fits, OneFlow, InFlow,
       TabsFit, FreshTabs, PanelShowsOwner, ListMatchesControls, StatisticsMatchPeriod
  <1>2. CASE Leave \/ Logout
    BY <1>2, LeaveKeeps, LogoutKeeps
  <1>3. ASSUME NEW c \in Slots, EnterAdmin(c) \/ Reload(c) \/ RetryGate(c)
        PROVE  PanelInv'
    BY <1>3, GateKeeps, ReloadKeeps DEF EnterAdmin, RetryGate, PanelInv, PanelTypeOK
  <1>4. ASSUME NEW c \in Slots, SubmitLogin(c) \/ SendEdit(c) \/ SelectTab(c) \/ SectionExpires(c)
        PROVE  PanelInv'
    BY <1>4, SubmitKeeps, ServicesKeep, SelectKeeps, SectionKeeps
  <1>5. ASSUME NEW c \in Slots, UseApps(c) \/ SearchTimer(c)
        PROVE  PanelInv'
    BY <1>5, ListStepKeeps, TypeKeeps, ModalKeeps DEF UseApps, SearchTimer, AppsStep
  <1>6. ASSUME NEW c \in Slots, UseStats(c)
        PROVE  PanelInv'
    BY <1>6, StatsStepKeeps DEF UseStats, PanelStays
  <1>7. ASSUME NEW c \in Slots, NEW answer \in {"ok", "refused", "error"},
               \/ CheckArrives(c, answer) \/ MeArrives(c, answer)
               \/ LoginArrives(c, answer) \/ ConfirmArrives(c, answer)
        PROVE  PanelInv'
    BY <1>7, CheckKeeps, MeKeeps, LoginKeeps, ConfirmKeeps
  <1>8. ASSUME NEW c \in Slots, NEW answer \in {"ok", "refused", "error"},
               ServicesArrive(c, answer) \/ TabArrives(c, answer)
        PROVE  PanelInv'
    BY <1>8, ServicesKeep, AppsAnswerKeeps, OverviewAnswerKeeps DEF TabArrives
  <1>9. ASSUME NEW t \in Tokens, Expire(t) /\ UNCHANGED <<apps, stats, page, view, owner, tab>>
        PROVE  PanelInv'
    BY <1>9, ExpireKeeps
  <1> QED
    BY <1>1, <1>2, <1>3, <1>4, <1>5, <1>6, <1>7, <1>8, <1>9 DEF PanelNext

(* The panel is well typed, and every answer that is still to be applied     *)
(* fits what the panel shows.                                                *)
THEOREM PanelInvariance == PanelSpec => [](PanelTypeOK /\ CallsFit /\ OneFlow /\ TabsFit)
  <1>1. PanelSpec => []PanelInv
    BY InitHolds, StepKeeps, PTL DEF PanelSpec
  <1> QED
    BY <1>1, PTL DEF PanelInv

(* The calls of a panel never carry the token of another admin than the one  *)
(* it greets (handleLogin, runAuthGate, client.ts).                          *)
THEOREM OwnerShown == PanelSpec => []PanelShowsOwner
  <1>1. PanelSpec => []PanelInv
    BY InitHolds, StepKeeps, PTL DEF PanelSpec
  <1> QED
    BY <1>1, PTL DEF PanelInv

(* However the loads of the list overtake each other, its rows are those     *)
(* that the filter, the search and the pager ask for (loadApplications).     *)
THEOREM ListFollowsControls == PanelSpec => []ListMatchesControls
  <1>1. PanelSpec => []PanelInv
    BY InitHolds, StepKeeps, PTL DEF PanelSpec
  <1> QED
    BY <1>1, PTL DEF PanelInv

(* The statistics are never those of a period that was switched away         *)
(* (loadOverview).                                                           *)
THEOREM StatisticsFollowPeriod == PanelSpec => []StatisticsMatchPeriod
  <1>1. PanelSpec => []PanelInv
    BY InitHolds, StepKeeps, PTL DEF PanelSpec
  <1> QED
    BY <1>1, PTL DEF PanelInv

(* No tab that is hidden waits for an answer or a timer (deactivate).        *)
THEOREM HiddenTabsStayAtRest == PanelSpec => []HiddenTabsRest
  <1>1. CallsFit /\ TabsFit => HiddenTabsRest
    BY DEF CallsFit, Fits, TabsFit, HiddenTabsRest, Awaited
  <1> QED
    BY <1>1, PanelInvariance, PTL

-----------------------------------------------------------------------------
(* Whoever waits is answered.                                                *)

GateWaits == view = "gate" => Awaited("check") \/ Awaited("me")

AppsWait ==
    /\ apps.loading => Awaited("list")
    /\ apps.detail = "loading" => Awaited("detail")
    /\ apps.active => apps.loading \/ apps.failed \/ apps.list # <<>>

\* The tab of the statistics is entered from another one only.
StatsWait ==
    /\ stats.loading => Awaited("overview")
    /\ stats.active => stats.loading \/ stats.failed \/ stats.shown # <<>>
    /\ stats.active => tab = "statistics"

WaitInv == GateWaits /\ AppsWait /\ StatsWait

\* No call of the kind that is current is given up or answered.
Kept(kind) ==
    \A d \in Slots : calls[d].kind = kind /\ calls[d].current =>
                        calls'[d].kind = kind /\ calls'[d].current

LEMMA KeptFacts == ASSUME NEW kind, Kept(kind), Awaited(kind) PROVE Awaited(kind)'
  BY DEF Kept, Awaited

\* Every slot but c keeps its call.
Others(c) == \A d \in Slots \ {c} : calls'[d] = calls[d]

LEMMA SlotGoes ==
    ASSUME PanelInv, NEW c \in Slots, NEW x, calls' = With(calls, c, x)
    PROVE  Others(c) /\ calls'[c] = x
  BY TypeShape DEF PanelInv, Shape, With, Others

LEMMA OthersFacts ==
    ASSUME NEW c \in Slots, Others(c), NEW kind, calls[c].kind # kind \/ ~calls[c].current
    PROVE  Kept(kind)
  BY DEF Others, Kept

\* A slot that is free holds no call that somebody waits for.
LEMMA FreeSlot == ASSUME NEW c \in Slots, IsFree(c) PROVE ~calls[c].current
  BY FreeFacts DEF IsFree

LEMMA FreshWaits ==
    ASSUME PanelInv, FreshTabs', GateWaits'
    PROVE  WaitInv'
  <1>1. FreshApps(FirstLevel, EmptyWord).detail # "loading"
    BY DEF FreshApps
  <1> QED
    BY <1>1, FreshFacts DEF WaitInv, AppsWait, StatsWait, FreshTabs

(* A step that neither tab takes part in.                                    *)
LEMMA SamePanelWaits ==
    ASSUME PanelInv, WaitInv, SamePanel, NEW c \in Slots, Others(c),
           calls[c].current => calls[c].kind \notin TabCalls,
           GateWaits'
    PROVE  WaitInv'
  <1>1. Kept("list") /\ Kept("detail") /\ Kept("overview")
    BY OthersFacts DEF TabCalls
  <1> QED
    BY <1>1, KeptFacts DEF WaitInv, AppsWait, StatsWait, SamePanel

(* The gate waits for what slot c does not hold.                             *)
LEMMA GateStays ==
    ASSUME WaitInv, NEW c \in Slots, Others(c), view' = view,
           calls[c].current => calls[c].kind \notin {"check", "me"}
    PROVE  GateWaits'
  <1>1. Kept("check") /\ Kept("me")
    BY OthersFacts
  <1> QED
    BY <1>1, KeptFacts DEF WaitInv, GateWaits

LEMMA RequestWaits ==
    ASSUME NEW c \in Slots, NEW kind, NEW t, NEW arg, calls'[c] = Request(kind, t, arg)
    PROVE  Awaited(kind)'
  BY DEF Awaited, Request

(* The gate opens, a flow ends, or the panel appears.                        *)
LEMMA GateWaitsOn ==
    ASSUME PanelInv, WaitInv, NEW c \in Slots,
           \/ EnterAdmin(c) \/ Reload(c) \/ RetryGate(c) \/ SectionExpires(c)
           \/ ShowPanel(c) \/ SessionExpired(c)
    PROVE  WaitInv'
  <1>1. CASE OpenGate(c)
    <2>1. calls' = With(Rendered(calls), c, Request("check", NoToken, <<>>))
      BY <1>1 DEF OpenGate
    <2>2. calls'[c] = Request("check", NoToken, <<>>)
      BY <2>1, RenderedFacts DEF With
    <2> QED
      BY <1>1, <2>2, RequestWaits, FreshWaits DEF OpenGate, NoPanel, FreshTabs, GateWaits
  <1>2. CASE Reload(c)
    <2>1. calls'[c] = Request("check", NoToken, <<>>)
      BY <1>2 DEF Reload
    <2> QED
      BY <1>2, <2>1, RequestWaits, FreshWaits DEF Reload, NoPanel, FreshTabs, GateWaits
  <1>3. CASE SectionExpires(c) \/ SessionExpired(c) \/ ShowPanel(c)
    <2>1. FreshTabs' /\ view' \in {"login", "panel"}
      BY <1>3 DEF SectionExpires, SessionExpired, ShowPanel, NoPanel, FreshTabs
    <2> QED
      BY <2>1, FreshWaits DEF GateWaits
  <1> QED
    BY <1>1, <1>2, <1>3 DEF EnterAdmin, RetryGate

LEMMA FlowWaits ==
    ASSUME PanelInv, WaitInv, NEW c \in Slots, NEW answer,
           \/ CheckArrives(c, answer) \/ MeArrives(c, answer)
           \/ LoginArrives(c, answer) \/ ConfirmArrives(c, answer)
    PROVE  WaitInv'
  <1>1. calls[c].kind \in Flows
    BY DEF CheckArrives, MeArrives, LoginArrives, ConfirmArrives, Arrives, Flows
  <1>2. CASE ShowPanel(c) \/ SessionExpired(c)
    BY <1>2, GateWaitsOn
  <1>3. ASSUME NEW x, calls' = With(calls, c, x), SamePanel,
               \/ view' # "gate"
               \/ calls'[c] = Request("me", token, <<>>)
               \/ view' = view /\ (calls[c].current => calls[c].kind \notin {"check", "me"})
        PROVE  WaitInv'
    <2>1. Others(c) /\ calls'[c] = x
      BY <1>3, SlotGoes
    <2>2. GateWaits'
      BY <1>3, <2>1, RequestWaits, GateStays DEF GateWaits
    <2> QED
      BY <1>1, <1>3, <2>1, <2>2, SamePanelWaits DEF Flows, TabCalls
  <1>4. CASE CheckArrives(c, answer)
    <2>1. SamePanel
      BY <1>4 DEF CheckArrives
    <2>2. CASE calls[c].current /\ answer = "ok" /\ token # NoToken
      <3>1. calls' = With(calls, c, Request("me", token, <<>>))
        BY <1>4, <2>2 DEF CheckArrives
      <3> QED
        BY <1>3, <2>1, <3>1, SlotGoes
    <2>3. CASE ~(calls[c].current /\ answer = "ok" /\ token # NoToken)
      <3>1. /\ calls' = With(calls, c, Free)
            /\ view' = IF ~calls[c].current THEN view
                       ELSE IF answer = "ok" THEN "login" ELSE "failed"
        BY <1>4, <2>3 DEF CheckArrives
      <3> QED
        BY <1>3, <2>1, <3>1
    <2> QED
      BY <2>2, <2>3
  <1>5. CASE MeArrives(c, answer)
    BY <1>2, <1>3, <1>5 DEF MeArrives
  <1>6. CASE LoginArrives(c, answer)
    <2>1. calls[c].kind = "login" /\ SamePanel /\ view' = view
      BY <1>6 DEF LoginArrives, Arrives
    <2>2. PICK x : calls' = With(calls, c, x)
      BY <1>6 DEF LoginArrives
    <2> QED
      BY <1>3, <2>1, <2>2
  <1>7. CASE ConfirmArrives(c, answer)
    <2>1. calls[c].kind = "confirm"
      BY <1>7 DEF ConfirmArrives, Arrives
    <2>2. CASE calls' = With(calls, c, Free) /\ UNCHANGED view /\ SamePanel
      BY <1>3, <2>1, <2>2
    <2> QED
      BY <1>2, <1>7, <2>2 DEF ConfirmArrives
  <1> QED
    BY <1>4, <1>5, <1>6, <1>7

(* The panel is left, by logging out or for the home page.                   *)
LEMMA DepartureWaits ==
    ASSUME PanelInv, WaitInv, Leave \/ Logout
    PROVE  WaitInv'
  <1>1. CASE Leave
    BY <1>1 DEF Leave, SamePanel, WaitInv, GateWaits, AppsWait, StatsWait, Awaited
  <1>2. CASE Logout
    BY <1>2, FreshWaits DEF Logout, NoPanel, FreshTabs, GateWaits
  <1> QED
    BY <1>1, <1>2

(* The login form and the services tab.                                      *)
LEMMA QuietWaits ==
    ASSUME PanelInv, WaitInv, NEW c \in Slots,
           \/ SubmitLogin(c) \/ SendEdit(c)
           \/ \E answer \in {"ok", "refused", "error"} : ServicesArrive(c, answer)
    PROVE  WaitInv'
  <1>1. SamePanel /\ view' = view
    BY DEF SubmitLogin, SendEdit, ServicesArrive
  <1>2. PICK x : calls' = With(calls, c, x)
    BY DEF SubmitLogin, SendEdit, ServicesArrive
  <1>3. calls[c].current => calls[c].kind \in {"services", "edit"}
    BY FreeSlot DEF SubmitLogin, SendEdit, ServicesArrive, Arrives
  <1>4. Others(c)
    BY <1>2, SlotGoes
  <1>5. GateWaits'
    BY <1>1, <1>3, <1>4, GateStays
  <1> QED
    BY <1>1, <1>3, <1>4, <1>5, SamePanelWaits DEF TabCalls

(* A load of the list, from the tab `a` and the calls `cs`.                  *)
LEMMA ListLoadWaits ==
    ASSUME PanelInv, WaitInv, view' = view, view # "gate",
           NEW c \in Slots, NEW cs \in [Slots -> Call], NEW a \in AppsTab,
           Load(c, cs, a), a.detail = apps.detail,
           \A d \in Slots : /\ cs[d].kind = calls[d].kind
                            /\ calls[d].kind # "overview" => cs[d].current = calls[d].current,
           \/ /\ stats' = stats /\ tab' = tab
              /\ \A d \in Slots : cs[d].current = calls[d].current
           \/ stats' = LeftStats(stats)
    PROVE  WaitInv'
  <1>1. LoadDone(c, cs, a)
    BY LoadFacts, TypeShape DEF PanelInv, Shape
  <1>2. ~calls[c].current
    BY <1>1, FreeFacts DEF LoadDone
  <1>3. Kept("detail") /\ (stats' = LeftStats(stats) \/ Kept("overview"))
    BY <1>1, <1>2 DEF LoadDone, Kept
  <1>4. AppsWait'
    <2>1. Awaited("list")'
      BY <1>1 DEF LoadDone, Awaited
    <2> QED
      BY <1>1, <1>3, <2>1, KeptFacts DEF LoadDone, WaitInv, AppsWait
  <1>5. StatsWait'
    <2>1. LeftStats(stats).active = FALSE /\ LeftStats(stats).loading = FALSE
      BY TypeShape DEF PanelInv, Shape, LeftStats, StatsTab
    <2> QED
      BY <1>3, <2>1, KeptFacts DEF WaitInv, StatsWait
  <1> QED
    BY <1>4, <1>5 DEF WaitInv, GateWaits

(* A click, a key or the timer of the applications.                          *)
LEMMA AppsStepWaits ==
    ASSUME PanelInv, WaitInv, AppsStep, NEW c \in Slots,
           \/ ChooseLevel(c) \/ Search(c) \/ Refresh(c) \/ PreviousPage(c) \/ NextPage(c)
           \/ Type \/ OpenModal(c) \/ CloseModal \/ RetryDetail(c)
    PROVE  WaitInv'
  <1> USE DEF PanelInv
  <1>1. apps \in AppsTab /\ calls \in [Slots -> Call] /\ token \in TokenOrNone
    BY TypeShape DEF Shape
  <1>0. 0 \in 0 .. MaxTotal
    BY MaxTotalAssumption
  <1>2. apps.active
    BY DEF ChooseLevel, Search, Refresh, PreviousPage, NextPage, PagerFree, Type, OpenModal,
       CloseModal, RetryDetail, TabsFit
  <1>3. view # "gate" /\ view' = view /\ stats' = stats /\ tab' = tab
    BY <1>2, UseFacts DEF InUse, AppsStep
  <1>4. ASSUME Kept("overview"), AppsWait' PROVE WaitInv'
    BY <1>3, <1>4, KeptFacts DEF WaitInv, GateWaits, StatsWait
  <1>5. ASSUME NEW a \in AppsTab, a.detail = apps.detail, Load(c, calls, a) PROVE WaitInv'
    BY <1>1, <1>3, <1>5, ListLoadWaits
  <1> DEFINE Same == /\ apps'.active = apps.active /\ apps'.loading = apps.loading
                     /\ apps'.failed = apps.failed /\ apps'.list = apps.list
  <1>6. CASE ChooseLevel(c)
    <2>1. PICK l \in Levels :
              Load(c, calls, [apps EXCEPT !.level = l, !.skip = 0, !.timer = FALSE])
      BY <1>6 DEF ChooseLevel
    <2>2. /\ [apps EXCEPT !.level = l, !.skip = 0, !.timer = FALSE] \in AppsTab
          /\ [apps EXCEPT !.level = l, !.skip = 0, !.timer = FALSE].detail = apps.detail
      BY <1>0, <1>1 DEF AppsTab
    <2> QED
      BY <1>5, <2>1, <2>2
  <1>7. CASE Search(c)
    <2>1. /\ [apps EXCEPT !.skip = 0, !.timer = FALSE] \in AppsTab
          /\ [apps EXCEPT !.skip = 0, !.timer = FALSE].detail = apps.detail
      BY <1>0, <1>1 DEF AppsTab
    <2> QED
      BY <1>5, <1>7, <2>1 DEF Search
  <1>8. CASE Refresh(c)
    BY <1>1, <1>5, <1>8 DEF Refresh
  <1>9. CASE PreviousPage(c)
    <2>1. apps.skip - 1 \in 0 .. MaxTotal
      BY <1>1, <1>9, MaxTotalAssumption DEF AppsTab, PreviousPage
    <2>2. [apps EXCEPT !.skip = @ - 1] \in AppsTab /\ [apps EXCEPT !.skip = @ - 1].detail = apps.detail
      BY <1>1, <2>1 DEF AppsTab
    <2> QED
      BY <1>5, <1>9, <2>2 DEF PreviousPage
  <1>10. CASE NextPage(c)
    <2>1. apps.skip \in 0 .. MaxTotal /\ apps.total \in 0 .. MaxTotal /\ Rows \in {0, 1}
      BY <1>1 DEF AppsTab, Rows
    <2>2. apps.skip + 1 \in 0 .. MaxTotal
      BY <1>10, <2>1, MaxTotalAssumption DEF NextPage
    <2>3. [apps EXCEPT !.skip = @ + 1] \in AppsTab /\ [apps EXCEPT !.skip = @ + 1].detail = apps.detail
      BY <1>1, <2>2 DEF AppsTab
    <2> QED
      BY <1>5, <1>10, <2>3 DEF NextPage
  <1>11. CASE Type
    <2>1. PICK w \in Words : apps' = [apps EXCEPT !.word = w, !.timer = TRUE]
      BY <1>11 DEF Type
    <2>2. Same /\ apps'.detail = apps.detail
      BY <1>1, <2>1 DEF AppsTab
    <2>3. Kept("list") /\ Kept("detail") /\ Kept("overview")
      BY <1>11 DEF Type, Kept
    <2> QED
      BY <1>4, <2>2, <2>3, KeptFacts DEF WaitInv, AppsWait
  <1> DEFINE given == Bumped(calls, {"detail"})
  <1>12. /\ given \in [Slots -> Call]
         /\ \A d \in Slots :
               /\ given[d].kind = calls[d].kind
               /\ given[d].current <=> calls[d].current /\ calls[d].kind # "detail"
    BY <1>1, BumpedFacts
  <1> HIDE DEF given
  <1>13. /\ ModalReset(apps).loading = apps.loading /\ ModalReset(apps).failed = apps.failed
         /\ ModalReset(apps).detail = "none"
    BY <1>1 DEF ModalReset, AppsTab
  <1>14. ASSUME IsFree(c), NEW x,
                \/ calls' = With(given, c, Request("detail", token, x))
                \/ calls' = With(calls, c, Request("detail", token, x))
         PROVE  Awaited("detail")' /\ Kept("list") /\ Kept("overview")
    <2>1. /\ calls'[c] = Request("detail", token, x)
          /\ \A d \in Slots \ {c} : calls'[d] \in {given[d], calls[d]}
      BY <1>1, <1>12, <1>14 DEF With
    <2>2. ~calls[c].current
      BY <1>14, FreeSlot
    <2>3. ASSUME NEW kind \in {"list", "overview"} PROVE Kept(kind)
      BY <1>12, <2>1, <2>2 DEF Kept
    <2> QED
      BY <2>1, <2>3, RequestWaits
  <1>15. CASE OpenModal(c)
    <2>1. PICK x \in Apps :
            /\ IsFree(c)
            /\ apps' = [ModalReset(apps) EXCEPT !.modal = <<x, "detail">>,
                           !.detail = "loading", !.busy = TRUE]
            /\ calls' = IF ModalReset(apps).busy THEN given
                        ELSE With(given, c, Request("detail", token, <<x, "detail">>))
      BY <1>15 DEF OpenModal, given
    <2>2. Awaited("detail")' /\ Kept("list") /\ Kept("overview")
      BY <1>1, <1>14, <2>1, ResetFacts
    <2>3. Same
      <3> DEFINE a == ModalReset(apps)
      <3>1. /\ a \in AppsTab /\ a.active = apps.active /\ a.list = apps.list
            /\ a.loading = apps.loading /\ a.failed = apps.failed
        BY <1>1, <1>13, ResetFacts
      <3>2. apps' = [a EXCEPT !.modal = <<x, "detail">>, !.detail = "loading", !.busy = TRUE]
        BY <2>1
      <3> HIDE DEF a
      <3> QED
        BY <3>1, <3>2 DEF AppsTab
    <2> QED
      BY <1>4, <2>2, <2>3, KeptFacts DEF WaitInv, AppsWait
  <1>16. CASE CloseModal
    <2>1. apps' = ModalReset(apps) /\ calls' = given
      BY <1>16 DEF CloseModal, given
    <2>2. Same /\ apps'.detail = "none"
      BY <1>1, <1>13, <2>1, ResetFacts
    <2>3. Kept("list") /\ Kept("overview")
      BY <1>12, <2>1 DEF Kept
    <2> QED
      BY <1>4, <2>2, <2>3, KeptFacts DEF WaitInv, AppsWait
  <1>17. CASE RetryDetail(c)
    <2>1. /\ apps' = [apps EXCEPT !.detail = "loading", !.busy = TRUE]
          /\ calls' = With(calls, c, Request("detail", token, apps.modal))
          /\ IsFree(c)
      BY <1>17 DEF RetryDetail
    <2>2. Same
      BY <1>1, <2>1 DEF AppsTab
    <2>3. Awaited("detail")' /\ Kept("list") /\ Kept("overview")
      BY <1>14, <2>1
    <2> QED
      BY <1>4, <2>2, <2>3, KeptFacts DEF WaitInv, AppsWait
  <1> QED
    BY <1>6, <1>7, <1>8, <1>9, <1>10, <1>11, <1>15, <1>16, <1>17

LEMMA NoCriteriaEmpty == <<>> \notin Criteria /\ <<>> \notin Overviews
  <1>1. \A x \in Levels, y \in Words, n \in 0 .. MaxTotal : <<x, y, n>> # <<>>
    OBVIOUS
  <1>2. \A x \in Periods : <<x, "overview">> # <<>>
    OBVIOUS
  <1> QED
    BY <1>1, <1>2 DEF Criteria, Overviews

(* An answer that is applied ends the wait with rows, or with an error.      *)
LEMMA AnswerWaits ==
    ASSUME PanelInv, WaitInv, NEW c \in Slots, NEW answer \in {"ok", "refused", "error"},
           TabArrives(c, answer)
    PROVE  WaitInv'
  <1> USE DEF PanelInv
  <1>1. apps \in AppsTab /\ stats \in StatsTab /\ view' = view /\ tab' = tab
    BY TypeShape DEF Shape, TabArrives
  <1>2. /\ calls[c].kind \in TabCalls /\ Others(c)
        /\ calls[c].current => answer \in {"ok", "error"}
    <2>1. calls' = With(calls, c, Free)
      BY DEF TabArrives, ListArrives, DetailArrives, OverviewArrives
    <2> QED
      BY <2>1, SlotGoes DEF TabArrives, ListArrives, DetailArrives, OverviewArrives, Arrives, TabCalls
  <1>3. GateWaits'
    BY <1>1, <1>2, GateStays DEF TabCalls
  <1>4. CASE ~calls[c].current
    <2>1. apps' = apps /\ stats' = stats
      BY <1>4 DEF TabArrives, ListArrives, DetailArrives, OverviewArrives
    <2>2. Kept("list") /\ Kept("detail") /\ Kept("overview")
      BY <1>2, <1>4, OthersFacts
    <2> QED
      BY <1>1, <1>3, <2>1, <2>2, KeptFacts DEF WaitInv, AppsWait, StatsWait
  <1>5. CASE calls[c].current /\ ListArrives(c, answer) /\ UNCHANGED stats
    <2>1. calls[c].kind = "list" /\ calls[c].arg \in Criteria
      BY <1>5 DEF ListArrives, Arrives, CallsFit, Fits
    <2>2. /\ ~apps'.loading /\ apps'.detail = apps.detail
          /\ apps'.failed \/ apps'.list # <<>>
      <3>1. CASE answer = "error"
        <4>1. apps' = [apps EXCEPT !.loading = FALSE, !.failed = TRUE, !.list = <<>>]
          BY <1>5, <3>1 DEF ListArrives
        <4> QED
          BY <1>1, <4>1 DEF AppsTab
      <3>2. CASE answer = "ok"
        <4>1. PICK n \in 0 .. MaxTotal :
                 apps' = [apps EXCEPT !.loading = FALSE, !.list = calls[c].arg,
                            !.skip = calls[c].arg[3], !.total = n]
          BY <1>5, <3>2 DEF ListArrives
        <4>2. calls[c].arg # <<>>
          BY <2>1, NoCriteriaEmpty
        <4> QED
          BY <1>1, <4>1, <4>2 DEF AppsTab
      <3> QED
        BY <1>2, <1>5, <3>1, <3>2
    <2>3. Kept("detail") /\ Kept("overview")
      BY <1>2, <2>1, OthersFacts
    <2> QED
      BY <1>1, <1>3, <1>5, <2>2, <2>3, KeptFacts DEF WaitInv, AppsWait, StatsWait
  <1>6. CASE calls[c].current /\ DetailArrives(c, answer) /\ UNCHANGED stats
    <2>1. /\ calls[c].kind = "detail"
          /\ apps' = [apps EXCEPT !.busy = FALSE,
                        !.detail = IF answer = "ok" THEN "shown" ELSE "failed"]
      BY <1>6 DEF DetailArrives, Arrives
    <2>2. /\ apps'.active = apps.active /\ apps'.loading = apps.loading
          /\ apps'.failed = apps.failed /\ apps'.list = apps.list
          /\ apps'.detail # "loading"
      BY <1>1, <2>1 DEF AppsTab
    <2>3. Kept("list") /\ Kept("overview")
      BY <1>2, <2>1, OthersFacts
    <2> QED
      BY <1>1, <1>3, <1>6, <2>2, <2>3, KeptFacts DEF WaitInv, AppsWait, StatsWait
  <1>7. CASE calls[c].current /\ OverviewArrives(c, answer) /\ UNCHANGED apps
    <2>1. calls[c].kind = "overview" /\ calls[c].arg \in Overviews
      BY <1>7 DEF OverviewArrives, Arrives, CallsFit, Fits
    <2>2. calls[c].arg # <<>>
      BY <2>1, NoCriteriaEmpty
    <2>3. stats' = [stats EXCEPT !.loading = FALSE, !.failed = answer = "error",
                      !.shown = IF answer = "ok" THEN calls[c].arg ELSE @]
      BY <1>7 DEF OverviewArrives
    <2>4. /\ stats'.active = stats.active /\ ~stats'.loading
          /\ stats'.failed \/ stats'.shown # <<>>
      BY <1>1, <1>2, <1>7, <2>2, <2>3 DEF StatsTab
    <2>5. Kept("list") /\ Kept("detail")
      BY <1>2, <2>1, OthersFacts
    <2> QED
      BY <1>1, <1>3, <1>7, <2>4, <2>5, KeptFacts DEF WaitInv, AppsWait, StatsWait
  <1> QED
    BY <1>4, <1>5, <1>6, <1>7 DEF TabArrives

LEMMA LeftDetail == ASSUME apps \in AppsTab PROVE LeftApps(apps).detail = "none"
  <1> DEFINE b == ModalReset(apps)
  <1>1. b \in AppsTab /\ b.detail = "none"
    BY DEF ModalReset, AppsTab
  <1>2. LeftApps(apps) = [b EXCEPT !.active = FALSE, !.loading = FALSE, !.timer = FALSE]
    BY DEF LeftApps
  <1> HIDE DEF b
  <1> QED
    BY <1>1, <1>2 DEF AppsTab

(* A load of the statistics that does start, from the tab `s` and the calls  *)
(* `cs`.                                                                     *)
LEMMA OverviewLoadWaits ==
    ASSUME PanelInv, WaitInv, view' = view, view # "gate", tab' = "statistics",
           NEW c \in Slots, NEW cs \in [Slots -> Call], NEW s \in StatsTab, ~s.loading,
           LoadOverview(c, cs, s),
           \A d \in Slots : cs[d].kind = calls[d].kind,
           \/ /\ apps' = apps
              /\ \A d \in Slots : calls[d].kind # "overview" => cs[d].current = calls[d].current
           \/ apps' = LeftApps(apps)
    PROVE  WaitInv'
  <1> USE DEF PanelInv
  <1>1. /\ IsFree(c)
        /\ stats' = [s EXCEPT !.loading = TRUE, !.failed = FALSE, !.shown = <<>>]
        /\ calls' = With(cs, c, Request("overview", token, <<s.period, "overview">>))
    BY DEF LoadOverview
  <1>2. /\ calls'[c] = Request("overview", token, <<s.period, "overview">>)
        /\ \A d \in Slots \ {c} : calls'[d] = cs[d]
        /\ ~calls[c].current
    BY <1>1, FreeSlot DEF With
  <1>3. StatsWait'
    <2>1. Awaited("overview")'
      BY <1>2, RequestWaits
    <2>2. stats'.loading
      BY <1>1 DEF StatsTab
    <2> QED
      BY <2>1, <2>2 DEF StatsWait
  <1>4. AppsWait'
    <2>1. CASE apps' = apps /\ \A d \in Slots : calls[d].kind # "overview" => cs[d].current = calls[d].current
      <3>1. Kept("list") /\ Kept("detail")
        BY <1>2, <2>1 DEF Kept
      <3> QED
        BY <2>1, <3>1, KeptFacts DEF WaitInv, AppsWait
    <2>2. CASE apps' = LeftApps(apps)
      <3>1. ~apps'.active /\ ~apps'.loading
        BY <2>2, LeftFacts, TypeShape DEF Shape
      <3>2. apps'.detail = "none"
        BY <2>2, LeftDetail, TypeShape DEF Shape
      <3> QED
        BY <3>1, <3>2 DEF AppsWait
    <2> QED
      BY <2>1, <2>2
  <1> QED
    BY <1>3, <1>4 DEF WaitInv, GateWaits

LEMMA StatsStepWaits ==
    ASSUME PanelInv, WaitInv, NEW c \in Slots, UseStats(c)
    PROVE  WaitInv'
  <1> USE DEF PanelInv
  <1>1. /\ stats \in StatsTab /\ calls \in [Slots -> Call] /\ stats.active
        /\ view = "panel" /\ UNCHANGED <<view, tab, apps>>
    BY TypeShape DEF Shape, UseStats, SwitchPeriod, RefreshStats
  <1>2. tab' = "statistics"
    BY <1>1 DEF WaitInv, StatsWait
  <1>3. CASE RefreshStats(c)
    BY <1>1, <1>2, <1>3, OverviewLoadWaits DEF RefreshStats
  <1>4. CASE SwitchPeriod(c)
    <2> DEFINE cs == Bumped(calls, {"overview"})
    <2>1. PICK p \in Periods : LoadOverview(c, cs, Switched(p))
      BY <1>4 DEF SwitchPeriod
    <2>2. Switched(p) \in StatsTab /\ ~Switched(p).loading
      BY <1>1 DEF Switched, StatsTab
    <2>3. /\ cs \in [Slots -> Call]
          /\ \A d \in Slots : /\ cs[d].kind = calls[d].kind
                              /\ calls[d].kind # "overview" => cs[d].current = calls[d].current
      BY <1>1 DEF Bumped, Call
    <2> HIDE DEF cs
    <2> QED
      BY <1>1, <1>2, <2>1, <2>2, <2>3, OverviewLoadWaits
  <1> QED
    BY <1>3, <1>4 DEF UseStats

LEMMA SelectWaits ==
    ASSUME PanelInv, WaitInv, NEW c \in Slots, SelectTab(c)
    PROVE  WaitInv'
  <1> USE DEF PanelInv
  <1>1. /\ apps \in AppsTab /\ stats \in StatsTab /\ calls \in [Slots -> Call]
        /\ view = "panel" /\ view' = view
        /\ tab' \in {"services", "applications", "statistics"} \ {tab}
    BY TypeShape DEF Shape, SelectTab
  <1>0. 0 \in 0 .. MaxTotal
    BY MaxTotalAssumption
  <1>2. CASE tab' = "applications"
    <2> DEFINE a == [apps EXCEPT !.active = TRUE, !.skip = 0]
               cs == Bumped(calls, {"overview"})
    <2>1. Load(c, cs, a) /\ stats' = LeftStats(stats)
      BY <1>2 DEF SelectTab, EnterApps
    <2>2. a \in AppsTab /\ a.detail = apps.detail
      BY <1>0, <1>1 DEF AppsTab
    <2>3. /\ cs \in [Slots -> Call]
          /\ \A d \in Slots : /\ cs[d].kind = calls[d].kind
                              /\ calls[d].kind # "overview" => cs[d].current = calls[d].current
      BY <1>1 DEF Bumped, Call
    <2> HIDE DEF a, cs
    <2> QED
      BY <1>1, <2>1, <2>2, <2>3, ListLoadWaits
  <1>3. CASE tab' = "statistics"
    <2> DEFINE s == [stats EXCEPT !.active = TRUE]
               left == Bumped(calls, {"list", "detail"})
               cs == Bumped(left, {"overview"})
    <2>1. LoadOverview(c, cs, s) /\ apps' = LeftApps(apps)
      BY <1>3 DEF SelectTab, EnterStats
    <2>2. s \in StatsTab /\ ~s.loading
      BY <1>1, <1>3 DEF StatsTab, TabsFit, WaitInv, StatsWait
    <2>3. left \in [Slots -> Call] /\ \A d \in Slots : left[d].kind = calls[d].kind
      BY <1>1, BumpedFacts
    <2> HIDE DEF s, left
    <2>4. cs \in [Slots -> Call] /\ \A d \in Slots : cs[d].kind = left[d].kind
      BY <2>3, BumpedFacts
    <2> HIDE DEF cs
    <2> QED
      BY <1>1, <1>3, <2>1, <2>2, <2>3, <2>4, OverviewLoadWaits
  <1>4. CASE tab' = "services"
    <2>1. apps' = LeftApps(apps) /\ stats' = LeftStats(stats)
      BY <1>4 DEF SelectTab
    <2>2. ~apps'.active /\ ~apps'.loading /\ apps'.detail = "none"
      BY <1>1, <2>1, LeftFacts, LeftDetail
    <2>3. ~stats'.active /\ ~stats'.loading
      BY <1>1, <2>1 DEF LeftStats, StatsTab
    <2> QED
      BY <1>1, <2>2, <2>3 DEF WaitInv, GateWaits, AppsWait, StatsWait
  <1> QED
    BY <1>1, <1>2, <1>3, <1>4

LEMMA StepWaits == PanelInv /\ WaitInv /\ [PanelNext]_panelVars => WaitInv'
  <1> SUFFICES ASSUME PanelInv, WaitInv, [PanelNext]_panelVars PROVE WaitInv'
    OBVIOUS
  <1>1. CASE UNCHANGED panelVars
    BY <1>1 DEF panelVars, WaitInv, GateWaits, AppsWait, StatsWait, Awaited
  <1>2. CASE Leave \/ Logout
    BY <1>2, DepartureWaits
  <1>3. ASSUME NEW c \in Slots,
               \/ EnterAdmin(c) \/ Reload(c) \/ RetryGate(c)
               \/ SubmitLogin(c) \/ SendEdit(c) \/ SectionExpires(c)
        PROVE  WaitInv'
    BY <1>3, GateWaitsOn, QuietWaits
  <1>4. ASSUME NEW c \in Slots, SelectTab(c) \/ UseApps(c) \/ SearchTimer(c) \/ UseStats(c)
        PROVE  WaitInv'
    BY <1>4, SelectWaits, AppsStepWaits, StatsStepWaits DEF UseApps, SearchTimer, AppsStep
  <1>5. ASSUME NEW c \in Slots, NEW answer \in {"ok", "refused", "error"},
               \/ CheckArrives(c, answer) \/ MeArrives(c, answer)
               \/ LoginArrives(c, answer) \/ ConfirmArrives(c, answer)
               \/ ServicesArrive(c, answer) \/ TabArrives(c, answer)
        PROVE  WaitInv'
    BY <1>5, FlowWaits, QuietWaits, AnswerWaits
  <1>6. ASSUME NEW t \in Tokens, Expire(t) /\ UNCHANGED <<apps, stats, page, view, owner, tab>>
        PROVE  WaitInv'
    BY <1>6 DEF Expire, WaitInv, GateWaits, AppsWait, StatsWait, Awaited
  <1> QED
    BY <1>1, <1>2, <1>3, <1>4, <1>5, <1>6 DEF PanelNext

(* Nobody waits in vain: whatever the page says it is loading, a call is on  *)
(* its way whose answer will be applied (runAuthGate, loadApplications,      *)
(* loadApplicationAnalytics, loadOverview).                                  *)
THEOREM NobodyWaitsInVain == PanelSpec => []LoadingHasCall
  <1>1. PanelInit => WaitInv
    <2>1. FreshApps(FirstLevel, EmptyWord).detail # "loading"
      BY DEF FreshApps
    <2> QED
      BY <2>1, FreshFacts DEF PanelInit, WaitInv, GateWaits, AppsWait, StatsWait
  <1>2. WaitInv => LoadingHasCall
    BY DEF WaitInv, GateWaits, AppsWait, StatsWait, LoadingHasCall
  <1>3. PanelSpec => []PanelInv
    BY InitHolds, StepKeeps, PTL DEF PanelSpec
  <1> QED
    BY <1>1, <1>2, <1>3, StepWaits, PTL DEF PanelSpec
=============================================================================
