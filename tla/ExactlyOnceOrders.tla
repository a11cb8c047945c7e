------------------------- MODULE ExactlyOnceOrders --------------------------
(***************************************************************************)
(* What POST /applications promises, without transactions, locks or claim  *)
(* rows: the contract written above create_application_idempotent          *)
(* (backend/app/crud/application.py, "Idempotency-Key support").           *)
(*                                                                         *)
(* Each request carries a key (or none) and an order.  A request places at *)
(* most one order, only before it is answered, and never while an order    *)
(* placed under the same key exists.  An answer tells the truth about the  *)
(* orders that exist at the instant it is given.                           *)
(***************************************************************************)
CONSTANTS Requests, Keys, NoKey, Orders

VARIABLES
    sent,       \* key and order each request carries
    order,      \* the order placed by a request: not placed, there, withdrawn
    answer      \* what a request was told

contractVars == <<sent, order, answer>>

SameKey(r, q) == sent[r].key = sent[q].key /\ sent[r].key # NoKey

ContractInit ==
    /\ sent \in [Requests -> [key : Keys \union {NoKey}, wants : Orders]]
    /\ order = [r \in Requests |-> "none"]
    /\ answer = [r \in Requests |-> "none"]

Tell(r, what) ==
    /\ answer[r] = "none"
    /\ answer' = [answer EXCEPT ![r] = what]
    /\ UNCHANGED <<sent, order>>

Place(r) ==
    /\ order[r] = "none" /\ answer[r] = "none"
    /\ \A q \in Requests : SameKey(r, q) => order[q] # "live"
    /\ order' = [order EXCEPT ![r] = "live"]
    /\ UNCHANGED <<sent, answer>>

Withdraw(r) ==
    /\ order[r] = "live"
    /\ order' = [order EXCEPT ![r] = "gone"]
    /\ UNCHANGED <<sent, answer>>

TellCreated(r) == order[r] = "live" /\ Tell(r, "created")

\* Told that the order already exists: it does, under the same key and the same.
TellReplayed(r) ==
    /\ order[r] = "none"
    /\ \E q \in Requests : /\ SameKey(r, q) /\ order[q] = "live"
                           /\ sent[q].wants = sent[r].wants
    /\ Tell(r, "replayed")

\* Told that the key belongs to another order: one exists, and it differs.
TellMismatch(r) ==
    /\ order[r] = "none"
    /\ \E q \in Requests : /\ SameKey(r, q) /\ order[q] = "live"
                           /\ sent[q].wants # sent[r].wants
    /\ Tell(r, "mismatch")

\* Told to change or to repeat the request: it has placed nothing.
TellRefused(r) == order[r] = "none" /\ Tell(r, "refused")

\* An error says nothing about the order.
TellError(r) == Tell(r, "error")

ContractNext ==
    \E r \in Requests :
        \/ Place(r) \/ Withdraw(r)
        \/ TellCreated(r) \/ TellReplayed(r) \/ TellMismatch(r)
        \/ TellRefused(r) \/ TellError(r)

ContractSpec == ContractInit /\ [][ContractNext]_contractVars
=============================================================================
