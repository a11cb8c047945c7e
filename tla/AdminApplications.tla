-------------------------- MODULE AdminApplications -------------------------
(***************************************************************************)
(* The applications tab of the admin panel: the list with its filter, its  *)
(* debounced search and its pager, and the modal of one application with   *)
(* its statistics (frontend/src/pages/adminApplications.ts).               *)
(*                                                                         *)
(* A page of the list holds one application.  How many pages there are,    *)
(* an answer says; it may say something else each time.  `isActive` of the *)
(* host and the mount counter are part of `current`: a panel mounts the    *)
(* tab once, and a new render of the panel starts with a new tab.          *)
(***************************************************************************)
EXTENDS AdminCalls

VARIABLE apps

\* `list` is what the list shows: the criteria its rows were asked with.  `modal`
\* is the open application, `detail` what its statistics show.
AppsTab == [active : BOOLEAN, level : Levels, word : Words, skip : 0 .. MaxTotal,
            total : 0 .. MaxTotal, list : {<<>>} \union Criteria,
            loading : BOOLEAN, failed : BOOLEAN, timer : BOOLEAN,
            modal : {<<>>} \union (Apps \X {"detail"}),
            detail : {"none", "loading", "shown", "failed"}, busy : BOOLEAN]

\* A tab that was just mounted; "" is the empty search box.
FreshApps(first, empty) ==
    [active |-> FALSE, level |-> first, word |-> empty, skip |-> 0, total |-> 0,
     list |-> <<>>, loading |-> FALSE, failed |-> FALSE, timer |-> FALSE,
     modal |-> <<>>, detail |-> "none", busy |-> FALSE]

\* Items on the page shown.
Rows == IF apps.list # <<>> /\ apps.skip < apps.total THEN 1 ELSE 0

-----------------------------------------------------------------------------
(* The list.                                                                 *)

\* Mutant: a load that leaves the previous one current.
LoadKeepingOthers(c, cs, a) ==
    /\ IsFree(c)
    /\ apps' = [a EXCEPT !.loading = TRUE, !.failed = FALSE, !.list = <<>>]
    /\ calls' = With(cs, c, Request("list", token, <<a.level, a.word, a.skip>>))

\* loadApplications up to its await, in state `a` of the tab: the rows shown are
\* dropped, and an earlier load will not be applied any more.
Load(c, cs, a) ==
    /\ IsFree(c)
    /\ apps' = [a EXCEPT !.loading = TRUE, !.failed = FALSE, !.list = <<>>]
    /\ calls' = With(Bumped(cs, {"list"}), c, Request("list", token, <<a.level, a.word, a.skip>>))

\* A priority chip: the pending search goes along with it.
ChooseLevel(c) ==
    \E l \in Levels \ {apps.level} :
        /\ apps.active
        /\ Load(c, calls, [apps EXCEPT !.level = l, !.skip = 0, !.timer = FALSE])

\* The search box: the load waits for a pause in the typing.
Type ==
    /\ apps.active
    /\ \E w \in Words \ {apps.word} : apps' = [apps EXCEPT !.word = w, !.timer = TRUE]
    /\ UNCHANGED calls

\* The pause is over.
Search(c) ==
    /\ apps.timer /\ apps.active
    /\ Load(c, calls, [apps EXCEPT !.skip = 0, !.timer = FALSE])

\* The refresh button.
Refresh(c) ==
    /\ apps.active /\ ~apps.loading
    /\ Load(c, calls, apps)

\* The pager is hidden while there is nothing to page through.
PagerFree == apps.active /\ ~apps.loading /\ ~apps.failed

PreviousPage(c) ==
    /\ PagerFree /\ apps.skip > 0
    /\ Load(c, calls, [apps EXCEPT !.skip = @ - 1])

NextPage(c) ==
    /\ PagerFree /\ apps.skip + Rows < apps.total
    /\ Load(c, calls, [apps EXCEPT !.skip = @ + 1])

\* The rest of loadApplications; a 401 to a load that is still current is
\* SectionExpires.
ListArrives(c, answer) ==
    LET call == calls[c] IN
    /\ Arrives(c, {"list"}, answer)
    /\ answer = "refused" => ~call.current
    /\ calls' = With(calls, c, Free)
    /\ token' = TokenAfter(call, answer)
    /\ \/ ~call.current /\ UNCHANGED apps
       \/ /\ call.current /\ answer = "error"
          /\ apps' = [apps EXCEPT !.loading = FALSE, !.failed = TRUE, !.list = <<>>]
       \/ /\ call.current /\ answer = "ok"
          /\ \E n \in 0 .. MaxTotal :
                apps' = [apps EXCEPT !.loading = FALSE, !.list = call.arg,
                                     !.skip = call.arg[3], !.total = n]

-----------------------------------------------------------------------------
(* The modal.                                                                *)

\* Mutant: the flag of the request that is given up stays set.
ModalResetBusy(a) == [a EXCEPT !.modal = <<>>, !.detail = "none"]

\* bumpModalGeneration: whatever the modal was waiting for is given up.
ModalReset(a) == [a EXCEPT !.modal = <<>>, !.detail = "none", !.busy = FALSE]

\* openModal for the application on the page, with loadApplicationAnalytics, which
\* refuses a second request while it is busy with one.
OpenModal(c) ==
    LET reset == ModalReset(apps)
        given == Bumped(calls, {"detail"})
    IN
    \E x \in Apps :
        /\ apps.active /\ Rows = 1
        /\ IsFree(c)
        /\ apps' = [reset EXCEPT !.modal = <<x, "detail">>, !.detail = "loading", !.busy = TRUE]
        /\ calls' = IF reset.busy THEN given
                    ELSE With(given, c, Request("detail", token, <<x, "detail">>))

CloseModal ==
    /\ apps.modal # <<>>
    /\ apps' = ModalReset(apps)
    /\ calls' = Bumped(calls, {"detail"})

\* The retry button of a modal whose statistics could not be loaded.
RetryDetail(c) ==
    /\ apps.modal # <<>> /\ apps.detail = "failed" /\ ~apps.busy
    /\ IsFree(c)
    /\ apps' = [apps EXCEPT !.detail = "loading", !.busy = TRUE]
    /\ calls' = With(calls, c, Request("detail", token, apps.modal))

DetailArrives(c, answer) ==
    LET call == calls[c] IN
    /\ Arrives(c, {"detail"}, answer)
    /\ answer = "refused" => ~call.current
    /\ calls' = With(calls, c, Free)
    /\ token' = TokenAfter(call, answer)
    /\ apps' = IF ~call.current THEN apps
               ELSE [apps EXCEPT !.busy = FALSE,
                        !.detail = IF answer = "ok" THEN "shown" ELSE "failed"]

-----------------------------------------------------------------------------
(* The tab becomes visible, or is hidden.                                    *)

\* Mutant: a pending search goes on when the tab is left.
LeftAppsSearching(a) == [ModalReset(a) EXCEPT !.active = FALSE, !.loading = FALSE]

\* deactivate; the calls of the list and of the modal are given up with it.
LeftApps(a) == [ModalReset(a) EXCEPT !.active = FALSE, !.loading = FALSE, !.timer = FALSE]

\* activate: always the first page.
EnterApps(c, cs) == Load(c, cs, [apps EXCEPT !.active = TRUE, !.skip = 0])
=============================================================================
