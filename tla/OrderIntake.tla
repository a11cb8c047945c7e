---------------------------- MODULE OrderIntake -----------------------------
(***************************************************************************)
(* POST /applications and DELETE /applications/{id}                        *)
(* (backend/app/crud/application.py, backend/app/routes/applications.py)   *)
(* over the service catalog.                                               *)
(*                                                                         *)
(* A request is one HTTP call.  It is cut at the database calls where it   *)
(* can wait for another transaction or where another can step in: the      *)
(* INSERT of the key claim, the SELECT ... FOR UPDATE of the service, the  *)
(* commit, the refresh; and for a key already claimed the SELECT ... FOR   *)
(* UPDATE of the claim, the read of the order, the refresh.  What a        *)
(* transaction has written but not committed shows only in the locks it    *)
(* holds, which follow from where each process stands.                     *)
(*                                                                         *)
(* An order, its capability and its key claim are known by the request     *)
(* that placed them: applications.id is a SERIAL and never reused.         *)
(***************************************************************************)
EXTENDS ServiceCatalog

CONSTANTS
    Requests,   \* POST /applications calls
    Purgers,    \* DELETE /applications/{id} calls
    Keys,       \* well-formed Idempotency-Key values
    NoKey,      \* no header
    BadKey,     \* a header the route refuses
    Nobody,     \* no row
    Asks        \* what a request may carry

\* `spelling` is the way the client's JSON writes the budget: 1000, 1000.00, 1e3.
Ask == [key : Keys \union {NoKey, BadKey}, sid : Services, budget : Amounts,
        spelling : {"plain", "padded"}]

ASSUME AsksAssumption == Asks \subseteq Ask
ASSUME SentinelAssumption ==
    NoKey \notin Keys /\ BadKey \notin Keys /\ NoKey # BadKey /\ Nobody \notin Requests

VARIABLES
    ask,        \* what each request carries; never changes
    req,        \* how far each request has come
    order,      \* applications: the row a request has placed, as committed
    cap,        \* application_behavior_capabilities, by the order they belong to
    claim,      \* application_idempotency_keys: the request whose order holds a key
    aim,        \* the order each purger deletes; never changes
    purge       \* how far each purger has come

orderVars == <<ask, req, order, cap, claim, aim, purge>>
intakeVars == <<setting, job, edit, ask, req, order, cap, claim, aim, purge>>

Replies == {"none", "created", "replayed", "malformed", "refused", "mismatch",
            "retry", "vanished", "error"}
Request == [pc : {"idle", "claim", "service", "commit", "refresh",
                  "replay", "read", "reread", "done"},
            owner : Requests \union {Nobody}, reply : Replies]
Purge == [pc : {"idle", "delete", "row", "capability", "done"},
          reply : {"none", "ok", "missing", "error"}]

IntakeTypeOK ==
    /\ CatalogTypeOK
    /\ ask \in [Requests -> Asks]
    /\ req \in [Requests -> Request]
    /\ order \in [Requests -> {"none", "live", "gone"}]
    /\ cap \in [Requests -> {"none", "fresh", "used"}]
    /\ claim \in [Keys -> Requests \union {Nobody}]
    /\ aim \in [Purgers -> Requests]
    /\ purge \in [Purgers -> Purge]

At(r, pcs) == req[r].pc \in pcs

\* Mutant: the request body hashed as the client spelled it.
RawRequest(a) == [sid |-> a.sid, budget |-> a.budget, spelling |-> a.spelling]

\* _canonical_request_payload: the budget is brought to the column's scale, so
\* the hash no longer depends on how the client wrote the number.
CanonicalRequest(a) == [sid |-> a.sid, budget |-> a.budget]

\* The checks of _create_application_row.
Admits(s, a) ==
    /\ Live(s) /\ setting[s].row.active /\ setting[s].row.named
    /\ setting[s].row.min <= a.budget /\ a.budget <= setting[s].row.max

-----------------------------------------------------------------------------
(* Locks.                                                                    *)

\* Mutant: the service read without FOR UPDATE.
NoServices == {}

\* Services a request holds FOR UPDATE until it commits.
ServicesHeld == {ask[r].sid : r \in {q \in Requests : At(q, {"commit"})}}

\* Mutant: an existence check instead of the unique index.
KeyHeldNever(k) == FALSE

\* Mutant: the refusal leaves its transaction open.
KeyHeldAfterRefusal(k) ==
    \E q \in Requests : /\ ask[q].key = k
                        /\ \/ At(q, {"service", "commit"})
                           \/ req[q].reply = "refused"

\* A key with an uncommitted claim row: the unique index makes others wait.
KeyHeld(k) == \E q \in Requests : ask[q].key = k /\ At(q, {"service", "commit"})

\* A claim row some replay holds FOR UPDATE.
ClaimLocked(k) == \E q \in Requests : ask[q].key = k /\ At(q, {"read"})

\* An application row some purger has deleted and not committed.
RowLocked(r) == \E d \in Purgers : aim[d] = r /\ purge[d].pc \in {"row", "capability"}

\* Mutant: a foreign key that is not checked.
NothingReferenced == {}

\* Services the foreign key of a committed application refers to.
Referenced == {ask[r].sid : r \in {q \in Requests : order[q] = "live" /\ ~RowLocked(q)}}

\* Services only orders under deletion refer to: the check waits for them.
Awaited == {ask[r].sid : r \in {q \in Requests : order[q] = "live" /\ RowLocked(q)}}
              \ Referenced

-----------------------------------------------------------------------------
(* POST /applications.                                                       *)

Stop(r, reply) ==
    req' = [req EXCEPT ![r] = [pc |-> "done", owner |-> @.owner, reply |-> reply]]

Go(r, pc) == req' = [req EXCEPT ![r].pc = pc]

\* The route: the header's format, then the path with or without a key.
Arrive(r) ==
    /\ At(r, {"idle"})
    /\ \/ ask[r].key = BadKey /\ Stop(r, "malformed")
       \/ ask[r].key = NoKey /\ Go(r, "service")
       \/ ask[r].key \in Keys /\ Go(r, "claim")
    /\ UNCHANGED <<order, cap, claim>>

\* Mutant: a claim that does not wait for the other transaction to end.
InsertClaimNoWait(r) ==
    /\ At(r, {"claim"})
    /\ Go(r, IF claim[ask[r].key] = Nobody /\ ~KeyHeld(ask[r].key)
             THEN "service" ELSE "replay")
    /\ UNCHANGED <<order, cap, claim>>

\* INSERT of the claim: waits while another transaction has inserted the same
\* key; a committed one is an IntegrityError, hence a replay.
InsertClaim(r) ==
    /\ At(r, {"claim"})
    /\ ~KeyHeld(ask[r].key)
    /\ Go(r, IF claim[ask[r].key] = Nobody THEN "service" ELSE "replay")
    /\ UNCHANGED <<order, cap, claim>>

\* _create_application_row: the service is locked and checked; a refusal rolls
\* the claim back.
LockService(r) ==
    /\ At(r, {"service"})
    /\ ask[r].sid \notin ServicesHeld
    /\ IF Admits(ask[r].sid, ask[r]) THEN Go(r, "commit") ELSE Stop(r, "refused")
    /\ UNCHANGED <<order, cap, claim>>

\* Mutant: a claim row written whatever the header.
CommitOrderAnyHeader(r) ==
    /\ At(r, {"commit"})
    /\ order' = [order EXCEPT ![r] = "live"]
    /\ cap' = [cap EXCEPT ![r] = "fresh"]
    /\ claim' = [k \in Keys \union {ask[r].key} |-> IF k = ask[r].key THEN r ELSE claim[k]]
    /\ Go(r, "refresh")

\* The application, its capability and its claim become visible together.
CommitOrder(r) ==
    /\ At(r, {"commit"})
    /\ order' = [order EXCEPT ![r] = "live"]
    /\ cap' = [cap EXCEPT ![r] = "fresh"]
    /\ claim' = [k \in Keys |-> IF k = ask[r].key THEN r ELSE claim[k]]
    /\ Go(r, "refresh")

\* db.refresh of the new row, in a transaction of its own.
RefreshOrder(r) ==
    /\ At(r, {"refresh"})
    /\ Stop(r, IF order[r] = "live" THEN "created" ELSE "error")
    /\ UNCHANGED <<order, cap, claim>>

\* _replay_existing_idempotent_request: the claim row is locked and compared.
LockClaim(r) ==
    LET k == ask[r].key
        o == claim[k]
    IN
    /\ At(r, {"replay"})
    /\ ~ClaimLocked(k)
    /\ \/ o = Nobody /\ Stop(r, "retry")
       \/ /\ o # Nobody /\ CanonicalRequest(ask[o]) # CanonicalRequest(ask[r])
          /\ Stop(r, "mismatch")
       \/ /\ o # Nobody /\ CanonicalRequest(ask[o]) = CanonicalRequest(ask[r])
          /\ req' = [req EXCEPT ![r] = [pc |-> "read", owner |-> o, reply |-> "none"]]
    /\ UNCHANGED <<order, cap, claim>>

\* The order the claim points at is read and the transaction ends.
ReadOriginal(r) ==
    /\ At(r, {"read"})
    /\ IF order[req[r].owner] = "live" THEN Go(r, "reread") ELSE Stop(r, "vanished")
    /\ UNCHANGED <<order, cap, claim>>

\* db.refresh of the original order; the answer carries no capability.
RefreshOriginal(r) ==
    /\ At(r, {"reread"})
    /\ Stop(r, IF order[req[r].owner] = "live" THEN "replayed" ELSE "error")
    /\ UNCHANGED <<order, cap, claim>>

\* A database error, a dropped connection or a dying process: the open
\* transaction rolls back and the caller gets a 500 or nothing.
FailRequest(r) ==
    /\ ~At(r, {"idle", "done"})
    /\ Stop(r, "error")
    /\ UNCHANGED <<order, cap, claim>>

RequestStep(r) ==
    \/ Arrive(r)
    \/ InsertClaim(r) \/ LockService(r) \/ CommitOrder(r) \/ RefreshOrder(r)
    \/ LockClaim(r) \/ ReadOriginal(r) \/ RefreshOriginal(r)

-----------------------------------------------------------------------------
(* DELETE /applications/{id}.                                                *)

StopPurge(d, reply) == purge' = [purge EXCEPT ![d] = [pc |-> "done", reply |-> reply]]
GoPurge(d, pc) == purge' = [purge EXCEPT ![d].pc = pc]

LoadOrder(d) ==
    /\ purge[d].pc = "idle"
    /\ IF order[aim[d]] = "live" THEN GoPurge(d, "delete") ELSE StopPurge(d, "missing")
    /\ UNCHANGED <<order, cap, claim>>

\* DELETE of the application row: waits for another purger.  No row left is only
\* a warning.
DeleteRow(d) ==
    /\ purge[d].pc = "delete"
    /\ ~RowLocked(aim[d])
    /\ IF order[aim[d]] = "live" THEN GoPurge(d, "row") ELSE StopPurge(d, "ok")
    /\ UNCHANGED <<order, cap, claim>>

\* ON DELETE CASCADE reaches the capability row, which a submission may hold.
CascadeCapability(d, held) ==
    /\ purge[d].pc = "row"
    /\ aim[d] \notin held
    /\ GoPurge(d, "capability")
    /\ UNCHANGED <<order, cap, claim>>

\* The cascade reaches the claim row, which a replay may hold, and commits.
CommitPurge(d) ==
    /\ purge[d].pc = "capability"
    /\ ~ClaimLocked(ask[aim[d]].key)
    /\ order' = [order EXCEPT ![aim[d]] = "gone"]
    /\ cap' = [cap EXCEPT ![aim[d]] = "none"]
    /\ claim' = [k \in Keys |-> IF claim[k] = aim[d] THEN Nobody ELSE claim[k]]
    /\ StopPurge(d, "ok")

FailPurge(d) ==
    /\ purge[d].pc \in {"delete", "row", "capability"}
    /\ StopPurge(d, "error")
    /\ UNCHANGED <<order, cap, claim>>

PurgeStep(d, held) ==
    \/ LoadOrder(d) \/ DeleteRow(d) \/ CascadeCapability(d, held) \/ CommitPurge(d)

-----------------------------------------------------------------------------

OrderInit ==
    /\ ask \in [Requests -> Asks]
    /\ req = [r \in Requests |-> [pc |-> "idle", owner |-> Nobody, reply |-> "none"]]
    /\ order = [r \in Requests |-> "none"]
    /\ cap = [r \in Requests |-> "none"]
    /\ claim = [k \in Keys |-> Nobody]
    /\ aim \in [Purgers -> Requests]
    /\ purge = [d \in Purgers |-> [pc |-> "idle", reply |-> "none"]]

IntakeInit == CatalogInit /\ OrderInit

ClientStep(r) == RequestStep(r) /\ UNCHANGED <<setting, job, edit, ask, aim, purge>>
ClientFail(r) == FailRequest(r) /\ UNCHANGED <<setting, job, edit, ask, aim, purge>>
PurgerStep(d, held) ==
    PurgeStep(d, held) /\ UNCHANGED <<setting, job, edit, ask, req, aim>>
PurgerFail(d) == FailPurge(d) /\ UNCHANGED <<setting, job, edit, ask, req, aim>>
AdminStep(e) == EditorStep(e, ServicesHeld, Referenced, Awaited) /\ UNCHANGED orderVars
AdminFail(e) == FailEdit(e) /\ UNCHANGED orderVars

\* Every call has been answered.
IntakeTerminating ==
    /\ \A r \in Requests : At(r, {"done"})
    /\ \A d \in Purgers : purge[d].pc = "done"
    /\ \A e \in Editors : EditorQuiet(e)
    /\ UNCHANGED intakeVars

IntakeNext ==
    \/ \E r \in Requests : ClientStep(r) \/ ClientFail(r)
    \/ \E d \in Purgers : PurgerStep(d, {}) \/ PurgerFail(d)
    \/ \E e \in Editors : AdminStep(e) \/ AdminFail(e)
    \/ IntakeTerminating

\* A call in progress goes on; nothing says that a call is ever sent, that it
\* fails, or that it does not.
IntakeFairness ==
    /\ \A r \in Requests : WF_intakeVars(~At(r, {"idle"}) /\ ClientStep(r))
    /\ \A d \in Purgers : WF_intakeVars(purge[d].pc # "idle" /\ PurgerStep(d, {}))
    /\ \A e \in Editors : WF_intakeVars(edit[e].pc # "idle" /\ AdminStep(e))

IntakeSpec == IntakeInit /\ [][IntakeNext]_intakeVars /\ IntakeFairness

-----------------------------------------------------------------------------
(* Properties.                                                               *)

(* However many requests with the same Idempotency-Key run at once, at most  *)
(* one order placed under that key exists.                                   *)
OneLiveOrderPerKey ==
    \A r, q \in Requests :
        (/\ order[r] = "live" /\ order[q] = "live"
         /\ ask[r].key = ask[q].key /\ ask[r].key \in Keys) => r = q

(* A key is taken exactly while an order placed under it exists: neither a   *)
(* refused request nor a deleted order leaves a claim behind, and no order   *)
(* loses its claim to another transaction's commit or cascade.  An order has *)
(* a capability exactly while it exists.                                     *)
ClaimFollowsOrder ==
    /\ \A k \in Keys : claim[k] # Nobody =>
            order[claim[k]] = "live" /\ ask[claim[k]].key = k
    /\ \A r \in Requests :
            order[r] = "live" /\ ask[r].key \in Keys => claim[ask[r].key] = r
    /\ \A r \in Requests : cap[r] # "none" <=> order[r] = "live"

(* The checks made on a service hold when the order is committed, whatever   *)
(* admins do between the check and the commit: _create_application_row's     *)
(* "one coherent DB transaction".                                            *)
AdmittedAtCommit ==
    [][\A r \in Requests :
          (order[r] = "none" /\ order'[r] = "live") =>
             Admits(ask[r].sid, ask[r])]_intakeVars

(* A service with an order is never deleted, even when the DELETE and the    *)
(* order race.                                                               *)
ServiceOfOrderExists == \A r \in Requests : order[r] = "live" => Live(ask[r].sid)

(* A replay always finds the order its claim points at: the 409 "no longer   *)
(* exists" of _replay_existing_idempotent_request is never sent, because a   *)
(* purger cannot commit while the claim row is locked.                       *)
ReplayFindsOrder == \A r \in Requests : req[r].reply # "vanished"

(* "Please retry" is said only when the order under the key has been deleted *)
(* between the failed INSERT and the locking SELECT.                         *)
RetryOnlyAfterDeletion ==
    \A r \in Requests : req[r].reply = "retry" =>
        \E q \in Requests \ {r} : ask[q].key = ask[r].key /\ order[q] = "gone"

(* Every call that has begun is answered: no wait for a row lock or for a    *)
(* key lasts for ever, and no two transactions wait for each other.          *)
RequestsAnswered ==
    /\ \A r \in Requests : ~At(r, {"idle"}) ~> At(r, {"done"})
    /\ \A d \in Purgers : purge[d].pc # "idle" ~> purge[d].pc = "done"
    /\ \A e \in Editors : edit[e].pc # "idle" ~> edit[e].pc = "done"

(* The intake keeps the contract of ExactlyOnceOrders: two budgets are the   *)
(* same order when they are the same amount, however they were written.      *)
Contract == INSTANCE ExactlyOnceOrders WITH
    Orders <- [sid : Services, budget : Amounts],
    sent <- [r \in Requests |->
                [key |-> IF ask[r].key \in Keys THEN ask[r].key ELSE NoKey,
                 wants |-> [sid |-> ask[r].sid, budget |-> ask[r].budget]]],
    answer <- [r \in Requests |->
                IF req[r].reply \in {"malformed", "refused", "retry"} THEN "refused"
                ELSE req[r].reply]

KeepsContract == Contract!ContractSpec

(* Why these hold: the invariant that the proofs of IntakeProofs carry        *)
(* through every step.                                                       *)

\* An uncommitted claim is the only row under its key.
HoldersExclusive ==
    \A r \in Requests : (At(r, {"service", "commit"}) /\ ask[r].key \in Keys) =>
        /\ claim[ask[r].key] = Nobody
        /\ \A q \in Requests :
              At(q, {"service", "commit"}) /\ ask[q].key = ask[r].key => q = r

\* Where a request stands tells whether it has placed its order.
PlacedWhenCommitted ==
    \A r \in Requests :
        /\ order[r] # "none" => At(r, {"refresh", "done"})
        /\ At(r, {"refresh"}) => order[r] # "none"
        /\ req[r].reply # "none" => At(r, {"done"})
        /\ req[r].reply \notin {"none", "created", "error"} => order[r] = "none"

\* The header decides the path.
PathFollowsHeader ==
    \A r \in Requests :
        /\ ask[r].key = BadKey => At(r, {"idle", "done"})
        /\ At(r, {"claim", "replay", "read", "reread"}) => ask[r].key \in Keys

\* A replay that has passed the comparison knows an order of its own key and
\* amount; while it holds the claim row, that order is there.
ReplayKnowsOrder ==
    \A r \in Requests :
        /\ At(r, {"read", "reread"}) =>
              /\ req[r].owner \in Requests
              /\ ask[req[r].owner].key = ask[r].key
              /\ CanonicalRequest(ask[req[r].owner]) = CanonicalRequest(ask[r])
        /\ At(r, {"read"}) => claim[ask[r].key] = req[r].owner
        /\ At(r, {"replay"}) =>
              \E q \in Requests \ {r} : ask[q].key = ask[r].key /\ order[q] # "none"

\* A service that a request holds still admits its order.
HeldServiceAdmits ==
    \A r \in Requests : At(r, {"commit"}) => Admits(ask[r].sid, ask[r])

\* A row under deletion exists, and one transaction deletes it.
DeletionExclusive ==
    \A d \in Purgers : purge[d].pc \in {"row", "capability"} =>
        /\ order[aim[d]] = "live"
        /\ \A c \in Purgers :
              purge[c].pc \in {"row", "capability"} /\ aim[c] = aim[d] => c = d

IntakeInv ==
    /\ ClaimFollowsOrder /\ HoldersExclusive /\ PlacedWhenCommitted
    /\ PathFollowsHeader /\ ReplayKnowsOrder /\ HeldServiceAdmits
    /\ DeletionExclusive /\ ServiceOfOrderExists /\ ReplayFindsOrder
    /\ RetryOnlyAfterDeletion
=============================================================================
