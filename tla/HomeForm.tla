------------------------------- MODULE HomeForm ------------------------------
(***************************************************************************)
(* The public order form (frontend/src/pages/home.ts) over a network that  *)
(* loses and delays, beside the service catalog and its admins.            *)
(*                                                                         *)
(* One page load.  A submission runs across two awaits, the re-check of    *)
(* the service and the POST; the user can pick a service, move the budget  *)
(* and type during both.  A POST is a try: it may reach the server late or *)
(* never, and its answer may be lost; the page learns an answer or gives   *)
(* up with an error (no connection, a 5xx, the proxy's 504), and a try it  *)
(* has given up on may still be served.  The server treats a try as one    *)
(* step: that is what KeepsContract and AdmittedAtCommit of OrderIntake    *)
(* show, while no order is deleted.                                        *)
(*                                                                         *)
(* A list of services is read and shown in one step: what is shown may be  *)
(* stale by any admin step that follows.                                   *)
(***************************************************************************)
EXTENDS ServiceCatalog

CONSTANTS
    Texts,      \* what the user may type into the other fields
    MaxTries,   \* bound on the POSTs of one page load
    NoCard      \* no service selected

ASSUME TriesAssumption == MaxTries \in Nat
ASSUME CardAssumption == NoCard \notin [sid : Services, min : Amounts, max : Amounts]

Tries == 1 .. MaxTries
Card == [sid : Services, min : Amounts, max : Amounts]
Want == [sid : Services, budget : Amounts, text : Texts]

VARIABLES
    form,       \* HomeState, the fields of the form and its submit handler
    try         \* the POSTs, in the order of their sending

formVars == <<form, try>>
homeVars == <<setting, job, edit, form, try>>

\* `key` is the number of the try a key was generated for, 0 for none; `held` is
\* the service the submit handler has in its hands, `count` the number of tries.
Form == [pc : {"idle", "checking", "sending", "sent"}, cards : SUBSET Card,
         loading : BOOLEAN, pick : Card \union {NoCard}, budget : Amounts, text : Texts,
         key : 0 .. MaxTries, held : Card \union {NoCard}, count : 0 .. MaxTries]
Unsent == [pc |-> "unsent"]
Try == {Unsent}
    \union [pc : {"flight", "served", "told"}, key : Tries, want : Want,
            shown : Card \union {NoCard},
            answer : {"none", "created", "replayed", "refused", "mismatch"}]

\* The budget selected lies in the range on the card, as long as the catalog keeps
\* the two bounds in order.
HomeTypeOK ==
    /\ CatalogTypeOK
    /\ form \in Form
    /\ try \in [Tries -> Try]
    /\ form.pick # NoCard => form.pick.min <= form.budget /\ form.budget <= form.pick.max

Sent(t) == try[t].pc # "unsent"
Placed == {t \in Tries : Sent(t) /\ try[t].answer = "created"}

-----------------------------------------------------------------------------
(* The user.                                                                 *)

\* GET /admin-settings/active.
Offered ==
    {s \in Services : Live(s) /\ setting[s].row.active /\ setting[s].row.named}
Listed == {[sid |-> s, min |-> setting[s].row.min, max |-> setting[s].row.max] :
              s \in Offered}

\* Mutant: the slider trusted.
ClampMissing(b, min, max) == b

ClampToRange(b, min, max) ==
    IF min > max \/ b < min THEN min ELSE IF b > max THEN max ELSE b

\* loadServices, on arrival or after a service was found gone.  An error, or an
\* empty list, leaves the cards as they were.
LoadServices ==
    /\ form.loading
    /\ \/ form' = [form EXCEPT !.loading = FALSE]
       \/ Listed # {} /\ form' = [form EXCEPT !.loading = FALSE, !.cards = Listed]
    /\ UNCHANGED try

\* selectService, and the slider of the selected one: the budget starts and
\* stays in the range on the card.
SelectService(c, b) ==
    /\ c \in (form.cards \union {form.pick}) \ {NoCard}
    /\ form' = [form EXCEPT !.pick = c, !.budget = ClampToRange(b, c.min, c.max)]
    /\ UNCHANGED try

Type(text) == form' = [form EXCEPT !.text = text] /\ UNCHANGED try

-----------------------------------------------------------------------------
(* handleSubmit.                                                             *)

\* The button is disabled until the handler is done with it.
Submit ==
    /\ form.pc = "idle" /\ form.pick # NoCard /\ form.count < MaxTries
    /\ form' = [form EXCEPT !.pc = "checking", !.held = form.pick]
    /\ UNCHANGED try

\* The service is not offered any more, or the list could not be read.
CheckFails ==
    /\ form.pc = "checking"
    /\ form' = [form EXCEPT !.pc = "idle", !.pick = NoCard, !.loading = TRUE]
    /\ UNCHANGED try

\* The key is generated once and used again until it is dropped.
KeyOfTry(t) == IF form.key = 0 THEN t ELSE form.key

\* What is sent: the service held since the click, and the budget and the fields
\* as they are after the await.
Order == [sid |-> form.held.sid,
          budget |-> ClampToRange(form.budget, form.held.min, form.held.max),
          text |-> form.text]

CheckPasses ==
    LET t == form.count + 1 IN
    /\ form.pc = "checking" /\ form.held.sid \in Offered
    /\ try' = [try EXCEPT ![t] = [pc |-> "flight", key |-> KeyOfTry(t), want |-> Order,
                                  shown |-> form.pick, answer |-> "none"]]
    /\ form' = [form EXCEPT !.pc = "sending", !.count = t, !.key = KeyOfTry(t)]

\* Mutant: the key dropped after every failure.
DropsKeyAlways(answer) == TRUE

\* A 422 or a 409 drops the key.
DropsKey(answer) == answer \in {"refused", "mismatch"}

Learn ==
    LET answer == try[form.count].answer IN
    /\ form.pc = "sending" /\ try[form.count].pc = "served"
    /\ form' = [form EXCEPT
          !.pc = IF answer \in {"created", "replayed"} THEN "sent" ELSE "idle",
          !.key = IF DropsKey(answer) THEN 0 ELSE @]
    /\ try' = [try EXCEPT ![form.count].pc = "told"]

\* An error that tells nothing about the order.
GiveUp ==
    /\ form.pc = "sending"
    /\ form' = [form EXCEPT !.pc = "idle", !.key = IF DropsKey("error") THEN 0 ELSE @]
    /\ UNCHANGED try

-----------------------------------------------------------------------------
(* The server.                                                               *)

\* Mutant: a replay that does not compare.
SameOrderAssumed(t, u) == TRUE

SameOrder(t, u) == try[t].want = try[u].want

Admits(want) ==
    /\ want.sid \in Offered
    /\ setting[want.sid].row.min <= want.budget
    /\ want.budget <= setting[want.sid].row.max

\* POST /applications with a key.
Serve(t) ==
    LET holder == {u \in Placed : try[u].key = try[t].key}
        answer == IF holder # {}
                  THEN IF \A u \in holder : SameOrder(t, u) THEN "replayed" ELSE "mismatch"
                  ELSE IF Admits(try[t].want) THEN "created" ELSE "refused"
    IN
    /\ try[t].pc = "flight"
    /\ try' = [try EXCEPT ![t].pc = "served", ![t].answer = answer]
    /\ UNCHANGED form

-----------------------------------------------------------------------------

HomeInit ==
    /\ CatalogInit
    /\ \E text \in Texts :
          form = [pc |-> "idle", cards |-> {}, loading |-> TRUE, pick |-> NoCard,
                  budget |-> 0, text |-> text, key |-> 0, held |-> NoCard, count |-> 0]
    /\ try = [t \in Tries |-> Unsent]

UserStep ==
    \/ LoadServices \/ Submit
    \/ \E c \in form.cards \union {form.pick}, b \in Amounts : SelectService(c, b)
    \/ \E text \in Texts : Type(text)

PageStep == CheckFails \/ CheckPasses \/ Learn \/ GiveUp

\* Admins go on changing the catalog; a service with an order is not deleted.
CatalogStep(e) ==
    \/ EditorStep(e, {}, {try[t].want.sid : t \in Placed}, {})
    \/ FailEdit(e)

HomeNext ==
    \/ (UserStep \/ PageStep \/ \E t \in Tries : Serve(t)) /\ UNCHANGED catalogVars
    \/ \E e \in Editors : CatalogStep(e) /\ UNCHANGED formVars

HomeSpec == HomeInit /\ [][HomeNext]_homeVars

-----------------------------------------------------------------------------

(* Whatever is lost or delayed, sending again does not order again: a page   *)
(* that has placed two orders has been told, between the two, that its key   *)
(* cannot be used for what the form said by then, and what it said was       *)
(* another order than the first.  Admins change the catalog once at most.    *)
ResendingIsSafe ==
    \A t, u \in Placed : t < u =>
        \E c \in t + 1 .. u - 1 :
            /\ try[c].pc = "told" /\ try[c].answer \in {"refused", "mismatch"}
            /\ try[c].key = try[t].key /\ try[c].want # try[t].want

(* "Your application has been sent" is true: the order exists, and it is the *)
(* one of the last POST even when it was placed by an earlier one.           *)
SuccessMeansPlaced ==
    form.pc = "sent" =>
        \E t \in Placed : try[t].want = try[form.count].want

-----------------------------------------------------------------------------

(* From HomeState: the key "is only cleared (forcing a fresh key next time)  *)
(* after a response that proves the server never created anything".          *)
DroppedKeyPlacedNothing ==
    \A t \in Tries : (Sent(t) /\ try[t].key # form.key) => t \notin Placed

(* From applicationSummaryTemplate: the summary "keeps the chosen            *)
(* service/budget in view", so the order that leaves the page is for the     *)
(* service on the summary.                                                   *)
SentAsShown ==
    \A t \in Tries : Sent(t) => try[t].shown # NoCard /\ try[t].want.sid = try[t].shown.sid
=============================================================================
