---------------------------- MODULE IntakeProofs ----------------------------
(***************************************************************************)
(* Proofs about OrderIntake and MetricSubmission, for any number of        *)
(* services, admins, requests, purgers, keys and submissions.  Of          *)
(* OrderIntake: its types, its invariant, what follows from it, and that   *)
(* it implements ExactlyOnceOrders: with the mapping of Contract, every    *)
(* step of the intake is a step of the contract or leaves its variables    *)
(* unchanged.  Of MetricSubmission: that the invariant of the intake holds *)
(* beside the submissions, and what they add to it.  Of both: which waits  *)
(* can close, and that no call goes back.                                  *)
(***************************************************************************)
EXTENDS MetricSubmission, CatalogProofs

-----------------------------------------------------------------------------
(* Types.                                                                    *)

(* A request in progress keeps the state well-typed: that the claim a replay *)
(* looks up is one of a real key is where the header's check comes in.       *)
LEMMA RequestType ==
    ASSUME IntakeTypeOK, PathFollowsHeader,
           NEW r \in Requests, ClientStep(r) \/ ClientFail(r)
    PROVE  IntakeTypeOK'
  <1> USE DEF IntakeTypeOK, CatalogTypeOK, Stop, Go, Request, Replies, At
  <1>0. UNCHANGED <<setting, job, edit, ask, aim, purge>>
    BY DEF ClientStep, ClientFail
  <1>1. CASE Arrive(r)
    BY <1>0, <1>1 DEF Arrive
  <1>2. CASE InsertClaim(r)
    BY <1>0, <1>2 DEF InsertClaim
  <1>3. CASE LockService(r)
    BY <1>0, <1>3 DEF LockService
  <1>4. CASE CommitOrder(r)
    BY <1>0, <1>4 DEF CommitOrder
  <1>5. CASE RefreshOrder(r)
    BY <1>0, <1>5 DEF RefreshOrder
  <1>6. CASE LockClaim(r)
    <2>1. ask[r].key \in Keys
      BY <1>6 DEF LockClaim, PathFollowsHeader
    <2>2. claim[ask[r].key] \in Requests \union {Nobody}
      BY <2>1
    <2>3. req' \in [Requests -> Request]
      BY <1>6, <2>2 DEF LockClaim
    <2> QED
      BY <1>0, <1>6, <2>3 DEF LockClaim
  <1>7. CASE ReadOriginal(r)
    BY <1>0, <1>7 DEF ReadOriginal
  <1>8. CASE RefreshOriginal(r)
    BY <1>0, <1>8 DEF RefreshOriginal
  <1>9. CASE FailRequest(r)
    BY <1>0, <1>9 DEF FailRequest
  <1> QED
    BY <1>1, <1>2, <1>3, <1>4, <1>5, <1>6, <1>7, <1>8, <1>9
    DEF ClientStep, ClientFail, RequestStep

(* A deletion in progress keeps the state well-typed.                        *)
LEMMA PurgerType ==
    ASSUME IntakeTypeOK, NEW d \in Purgers, NEW held,
           PurgerStep(d, held) \/ PurgerFail(d)
    PROVE  IntakeTypeOK'
  <1> USE DEF IntakeTypeOK, CatalogTypeOK, StopPurge, GoPurge, Purge
  <1>0. UNCHANGED <<setting, job, edit, ask, req, aim>>
    BY DEF PurgerStep, PurgerFail
  <1>1. CASE LoadOrder(d)
    BY <1>0, <1>1 DEF LoadOrder
  <1>2. CASE DeleteRow(d)
    BY <1>0, <1>2 DEF DeleteRow
  <1>3. CASE CascadeCapability(d, held)
    BY <1>0, <1>3 DEF CascadeCapability
  <1>4. CASE CommitPurge(d)
    BY <1>0, <1>4 DEF CommitPurge
  <1>5. CASE FailPurge(d)
    BY <1>0, <1>5 DEF FailPurge
  <1> QED
    BY <1>1, <1>2, <1>3, <1>4, <1>5 DEF PurgerStep, PurgerFail, PurgeStep

(* So does an admin.                                                         *)
LEMMA AdminType ==
    ASSUME IntakeTypeOK, NEW e \in Editors, AdminStep(e) \/ AdminFail(e)
    PROVE  IntakeTypeOK'
  <1>1. UNCHANGED orderVars /\ CatalogTypeOK
    BY DEF AdminStep, AdminFail, IntakeTypeOK
  <1>2. CatalogTypeOK'
    BY <1>1, EditorKeepsTypes DEF AdminStep, AdminFail
  <1> QED
    BY <1>1, <1>2 DEF orderVars, IntakeTypeOK

(* The path of a request is the one its header calls for.                    *)
LEMMA RequestPath ==
    ASSUME IntakeTypeOK, PathFollowsHeader,
           NEW r \in Requests, ClientStep(r) \/ ClientFail(r)
    PROVE  PathFollowsHeader'
  <1>0. UNCHANGED ask
    BY DEF ClientStep, ClientFail
  <1>1. \A q \in Requests \ {r} : req'[q] = req[q]
    BY DEF ClientStep, ClientFail, RequestStep, FailRequest, Stop, Go, Arrive,
           InsertClaim, LockService, CommitOrder, RefreshOrder, LockClaim,
           ReadOriginal, RefreshOriginal, IntakeTypeOK
  <1>2. /\ ask[r].key = BadKey => req'[r].pc \in {"idle", "done"}
        /\ req'[r].pc \in {"claim", "replay", "read", "reread"} => ask[r].key \in Keys
    <2> USE DEF IntakeTypeOK, PathFollowsHeader, At, Stop, Go, Request
    <2>1. CASE Arrive(r)
      BY <2>1, SentinelAssumption DEF Arrive
    <2>2. CASE InsertClaim(r)
      BY <2>2 DEF InsertClaim
    <2>3. CASE LockClaim(r)
      BY <2>3 DEF LockClaim
    <2>4. CASE ReadOriginal(r)
      BY <2>4 DEF ReadOriginal
    <2>5. CASE LockService(r) \/ CommitOrder(r) \/ RefreshOrder(r)
               \/ RefreshOriginal(r) \/ FailRequest(r)
      BY <2>5 DEF LockService, CommitOrder, RefreshOrder, RefreshOriginal, FailRequest
    <2> QED
      BY <2>1, <2>2, <2>3, <2>4, <2>5 DEF ClientStep, ClientFail, RequestStep
  <1> QED
    BY <1>0, <1>1, <1>2 DEF PathFollowsHeader, At

(* The initial states are well-typed.                                        *)
LEMMA TypeInit == IntakeInit => IntakeTypeOK /\ PathFollowsHeader
  <1> SUFFICES ASSUME IntakeInit PROVE IntakeTypeOK /\ PathFollowsHeader
    OBVIOUS
  <1>1. CatalogTypeOK
    BY DEF IntakeInit, CatalogInit, CatalogTypeOK, Edit
  <1>2. IntakeTypeOK
    BY <1>1 DEF IntakeInit, OrderInit, IntakeTypeOK, Request, Replies, Purge
  <1>3. PathFollowsHeader
    BY DEF IntakeInit, OrderInit, PathFollowsHeader, At
  <1> QED
    BY <1>2, <1>3

(* Every step, of whichever process, keeps it so.                            *)
LEMMA TypeStep ==
    IntakeTypeOK /\ PathFollowsHeader /\ [IntakeNext]_intakeVars
        => (IntakeTypeOK /\ PathFollowsHeader)'
  <1> SUFFICES ASSUME IntakeTypeOK, PathFollowsHeader, [IntakeNext]_intakeVars
               PROVE  IntakeTypeOK' /\ PathFollowsHeader'
    OBVIOUS
  <1>1. ASSUME NEW r \in Requests, ClientStep(r) \/ ClientFail(r)
        PROVE  IntakeTypeOK' /\ PathFollowsHeader'
    BY <1>1, RequestType, RequestPath
  <1>2. ASSUME NEW d \in Purgers, PurgerStep(d, {}) \/ PurgerFail(d)
        PROVE  IntakeTypeOK' /\ PathFollowsHeader'
    <2>1. UNCHANGED <<ask, req>>
      BY <1>2 DEF PurgerStep, PurgerFail
    <2> QED
      BY <1>2, <2>1, PurgerType DEF PathFollowsHeader, At
  <1>3. ASSUME NEW e \in Editors, AdminStep(e) \/ AdminFail(e)
        PROVE  IntakeTypeOK' /\ PathFollowsHeader'
    BY <1>3, AdminType DEF AdminStep, AdminFail, orderVars, PathFollowsHeader, At
  <1>4. CASE UNCHANGED intakeVars
    BY <1>4 DEF intakeVars, IntakeTypeOK, CatalogTypeOK, PathFollowsHeader, At
  <1> QED
    BY <1>1, <1>2, <1>3, <1>4 DEF IntakeNext, IntakeTerminating

(* Every reachable state is well-typed.                                      *)
THEOREM TypeCorrect == IntakeSpec => []IntakeTypeOK
  <1>1. IntakeTypeOK /\ PathFollowsHeader => IntakeTypeOK
    OBVIOUS
  <1> QED
    BY <1>1, TypeInit, TypeStep, PTL DEF IntakeSpec

-----------------------------------------------------------------------------
(* The inductive invariant.                                                  *)

\* What request `r` must satisfy to stand at `x`, the rest being as it is.
MayStand(r, x) ==
    /\ (x.pc \in {"service", "commit"} /\ ask[r].key \in Keys) =>
          \/ At(r, {"service", "commit"})
          \/ claim[ask[r].key] = Nobody /\ ~KeyHeld(ask[r].key)
    /\ order[r] # "none" => x.pc \in {"refresh", "done"}
    /\ x.pc = "refresh" => order[r] # "none"
    /\ x.reply # "none" => x.pc = "done"
    /\ x.reply \notin {"none", "created", "error"} => order[r] = "none"
    /\ ask[r].key = BadKey => x.pc \in {"idle", "done"}
    /\ x.pc \in {"claim", "replay", "read", "reread"} => ask[r].key \in Keys
    /\ x.pc \in {"read", "reread"} =>
          /\ x.owner \in Requests
          /\ ask[x.owner].key = ask[r].key
          /\ CanonicalRequest(ask[x.owner]) = CanonicalRequest(ask[r])
    /\ x.pc = "read" => claim[ask[r].key] = x.owner
    /\ x.pc = "replay" =>
          \E q \in Requests \ {r} : ask[q].key = ask[r].key /\ order[q] # "none"
    /\ x.pc = "commit" => Admits(ask[r].sid, ask[r])
    /\ x.reply # "vanished"
    /\ x.reply = "retry" =>
          \E q \in Requests \ {r} : ask[q].key = ask[r].key /\ order[q] = "gone"

(* A step that only moves one request keeps the invariant if the request may *)
(* stand where it goes.                                                      *)
LEMMA MoveKeeps ==
    ASSUME IntakeTypeOK, IntakeInv, NEW r \in Requests, NEW x \in Request,
           UNCHANGED <<setting, ask, order, cap, claim, aim, purge>>,
           req' = [req EXCEPT ![r] = x], MayStand(r, x)
    PROVE  IntakeInv'
  <1>0. /\ req'[r] = x
        /\ \A q \in Requests \ {r} : req'[q] = req[q]
    BY DEF IntakeTypeOK
  <1> USE <1>0 DEF At, MayStand, IntakeInv
  <1>1. ClaimFollowsOrder' /\ ServiceOfOrderExists' /\ DeletionExclusive'
    BY DEF ClaimFollowsOrder, ServiceOfOrderExists, DeletionExclusive, Live
  <1>2. HoldersExclusive'
    BY DEF HoldersExclusive, KeyHeld
  <1>3. PlacedWhenCommitted' /\ PathFollowsHeader'
    BY DEF PlacedWhenCommitted, PathFollowsHeader
  <1>4. ReplayKnowsOrder'
    BY DEF ReplayKnowsOrder, CanonicalRequest
  <1>5. HeldServiceAdmits'
    BY DEF HeldServiceAdmits, Admits, Live
  <1>6. ReplayFindsOrder' /\ RetryOnlyAfterDeletion'
    BY DEF ReplayFindsOrder, RetryOnlyAfterDeletion
  <1> QED
    BY <1>1, <1>2, <1>3, <1>4, <1>5, <1>6

(* Every step of a request but its commit is such a move.                    *)
LEMMA MovesKeep ==
    ASSUME IntakeTypeOK, IntakeInv, NEW r \in Requests,
           UNCHANGED <<setting, job, edit, ask, aim, purge>>,
           \/ Arrive(r) \/ InsertClaim(r) \/ LockService(r) \/ RefreshOrder(r)
           \/ LockClaim(r) \/ ReadOriginal(r) \/ RefreshOriginal(r) \/ FailRequest(r)
    PROVE  IntakeInv'
  <1>0. /\ UNCHANGED <<order, cap, claim>>
        /\ req[r] \in Request
    BY DEF Arrive, InsertClaim, LockService, RefreshOrder, LockClaim, ReadOriginal,
           RefreshOriginal, FailRequest, IntakeTypeOK
  <1> DEFINE to(pc) == [req[r] EXCEPT !.pc = pc]
             end(reply) == [pc |-> "done", owner |-> req[r].owner, reply |-> reply]
  <1>1. CASE Arrive(r)
    <2>1. CASE ask[r].key = BadKey
      <3>1. MayStand(r, end("malformed"))
        BY <1>1, <2>1 DEF Arrive, MayStand, IntakeInv, PlacedWhenCommitted, At
      <3>2. req' = [req EXCEPT ![r] = end("malformed")]
        BY <1>1, <2>1, SentinelAssumption DEF Arrive, Stop, IntakeTypeOK
      <3> QED
        BY <1>0, <3>1, <3>2, MoveKeeps DEF Request, Replies
    <2>2. CASE ask[r].key # BadKey
      <3>0. PICK pc \in {"service", "claim"} :
              /\ req' = [req EXCEPT ![r] = to(pc)]
              /\ pc = "service" => ask[r].key = NoKey
              /\ pc = "claim" => ask[r].key \in Keys
        BY <1>1, <2>2 DEF Arrive, Go, IntakeTypeOK
      <3>1. MayStand(r, to(pc))
        BY <1>0, <1>1, <2>2, <3>0, SentinelAssumption
        DEF Arrive, MayStand, IntakeInv, PlacedWhenCommitted, At, Request
      <3> QED
        BY <1>0, <3>0, <3>1, MoveKeeps DEF Request
    <2> QED
      BY <2>1, <2>2
  <1>2. CASE InsertClaim(r)
    <2>0. ask[r].key \in Keys /\ order[r] = "none" /\ req[r].reply = "none"
      BY <1>2 DEF InsertClaim, IntakeInv, PathFollowsHeader, PlacedWhenCommitted, At
    <2>1. CASE claim[ask[r].key] = Nobody
      <3>1. MayStand(r, to("service"))
        BY <1>0, <1>2, <2>0, <2>1, SentinelAssumption DEF InsertClaim, MayStand, Request
      <3> QED
        BY <1>0, <1>2, <2>1, <3>1, MoveKeeps DEF InsertClaim, Go, IntakeTypeOK, Request
    <2>2. CASE claim[ask[r].key] # Nobody
      <3>1. /\ claim[ask[r].key] \in Requests \ {r}
            /\ ask[claim[ask[r].key]].key = ask[r].key
            /\ order[claim[ask[r].key]] = "live"
        BY <2>0, <2>2 DEF IntakeTypeOK, IntakeInv, ClaimFollowsOrder
      <3>2. MayStand(r, to("replay"))
        BY <1>0, <2>0, <3>1, SentinelAssumption DEF MayStand, Request
      <3> QED
        BY <1>0, <1>2, <2>2, <3>2, MoveKeeps DEF InsertClaim, Go, IntakeTypeOK, Request
    <2> QED
      BY <2>1, <2>2
  <1>3. CASE LockService(r)
    <2>0. /\ order[r] = "none" /\ req[r].reply = "none" /\ ask[r].key # BadKey
          /\ At(r, {"service"})
      BY <1>3 DEF LockService, IntakeInv, PlacedWhenCommitted, PathFollowsHeader, At
    <2>1. CASE Admits(ask[r].sid, ask[r])
      <3>1. MayStand(r, to("commit"))
        BY <1>0, <2>0, <2>1 DEF MayStand, At, Request
      <3> QED
        BY <1>0, <1>3, <2>1, <3>1, MoveKeeps DEF LockService, Go, IntakeTypeOK, Request
    <2>2. CASE ~Admits(ask[r].sid, ask[r])
      <3>1. MayStand(r, end("refused"))
        BY <1>0, <2>0 DEF MayStand
      <3> QED
        BY <1>0, <1>3, <2>2, <3>1, MoveKeeps
        DEF LockService, Stop, IntakeTypeOK, Request, Replies
    <2> QED
      BY <2>1, <2>2
  <1>4. CASE RefreshOrder(r)
    <2>1. PICK reply \in {"created", "error"} : req' = [req EXCEPT ![r] = end(reply)]
      BY <1>4 DEF RefreshOrder, Stop, IntakeTypeOK
    <2>2. MayStand(r, end(reply))
      BY <2>1 DEF MayStand
    <2> QED
      BY <1>0, <2>1, <2>2, MoveKeeps DEF Request, Replies
  <1>5. CASE LockClaim(r)
    <2>0. /\ ask[r].key \in Keys /\ order[r] = "none" /\ req[r].reply = "none"
          /\ claim[ask[r].key] \in Requests \union {Nobody}
          /\ \E q \in Requests \ {r} : ask[q].key = ask[r].key /\ order[q] # "none"
      BY <1>5 DEF LockClaim, IntakeTypeOK, IntakeInv, PathFollowsHeader,
                  PlacedWhenCommitted, ReplayKnowsOrder, At
    <2>1. CASE claim[ask[r].key] = Nobody
      <3>1. PICK q \in Requests \ {r} : ask[q].key = ask[r].key /\ order[q] # "none"
        BY <2>0
      <3>2. order[q] = "gone"
        BY <2>0, <2>1, <3>1, SentinelAssumption
        DEF IntakeTypeOK, IntakeInv, ClaimFollowsOrder
      <3>3. MayStand(r, end("retry"))
        BY <2>0, <3>1, <3>2 DEF MayStand
      <3> QED
        BY <1>0, <1>5, <2>1, <3>3, MoveKeeps
        DEF LockClaim, Stop, IntakeTypeOK, Request, Replies
    <2>2. CASE claim[ask[r].key] # Nobody
      <3> DEFINE o == claim[ask[r].key]
      <3>0. o \in Requests /\ ask[o].key = ask[r].key
        BY <2>0, <2>2 DEF IntakeInv, ClaimFollowsOrder
      <3>1. CASE CanonicalRequest(ask[o]) # CanonicalRequest(ask[r])
        <4>1. MayStand(r, end("mismatch"))
          BY <2>0 DEF MayStand
        <4> QED
          BY <1>0, <1>5, <2>2, <3>1, <4>1, MoveKeeps
          DEF LockClaim, Stop, IntakeTypeOK, Request, Replies
      <3>2. CASE CanonicalRequest(ask[o]) = CanonicalRequest(ask[r])
        <4>1. MayStand(r, [pc |-> "read", owner |-> o, reply |-> "none"])
          BY <2>0, <3>0, <3>2, SentinelAssumption DEF MayStand
        <4>2. req' = [req EXCEPT ![r] = [pc |-> "read", owner |-> o, reply |-> "none"]]
          BY <1>5, <2>2, <3>2 DEF LockClaim
        <4>3. [pc |-> "read", owner |-> o, reply |-> "none"] \in Request
          BY <3>0 DEF Request, Replies
        <4> HIDE DEF o
        <4> QED
          BY <1>0, <4>1, <4>2, <4>3, MoveKeeps
      <3> QED
        BY <3>1, <3>2
    <2> QED
      BY <2>1, <2>2
  <1>6. CASE ReadOriginal(r)
    <2>0. /\ ask[r].key \in Keys /\ order[r] = "none" /\ req[r].reply = "none"
          /\ req[r].owner \in Requests /\ claim[ask[r].key] = req[r].owner
          /\ ask[req[r].owner].key = ask[r].key
          /\ CanonicalRequest(ask[req[r].owner]) = CanonicalRequest(ask[r])
      BY <1>6 DEF ReadOriginal, IntakeInv, PathFollowsHeader, PlacedWhenCommitted,
                  ReplayKnowsOrder, At
    <2>1. order[req[r].owner] = "live"
      BY <2>0, SentinelAssumption DEF IntakeInv, ClaimFollowsOrder
    <2>2. MayStand(r, to("reread"))
      BY <1>0, <2>0, SentinelAssumption DEF MayStand, Request
    <2> QED
      BY <1>0, <1>6, <2>1, <2>2, MoveKeeps DEF ReadOriginal, Go, IntakeTypeOK, Request
  <1>7. CASE RefreshOriginal(r)
    <2>1. PICK reply \in {"replayed", "error"} : req' = [req EXCEPT ![r] = end(reply)]
      BY <1>7 DEF RefreshOriginal, Stop, IntakeTypeOK
    <2>2. MayStand(r, end(reply))
      BY <1>7, <2>1 DEF MayStand, RefreshOriginal, IntakeInv, PlacedWhenCommitted, At
    <2> QED
      BY <1>0, <2>1, <2>2, MoveKeeps DEF Request, Replies
  <1>8. CASE FailRequest(r)
    <2>1. MayStand(r, end("error"))
      BY DEF MayStand
    <2> QED
      BY <1>0, <1>8, <2>1, MoveKeeps DEF FailRequest, Stop, IntakeTypeOK, Request, Replies
  <1> QED
    BY <1>1, <1>2, <1>3, <1>4, <1>5, <1>6, <1>7, <1>8

(* The commit makes order, capability and claim appear together, under a key *)
(* nobody else holds.                                                        *)
LEMMA CommitKeeps ==
    ASSUME IntakeTypeOK, IntakeInv, NEW r \in Requests, CommitOrder(r),
           UNCHANGED <<setting, job, edit, ask, aim, purge>>
    PROVE  IntakeInv'
  <1>0. /\ At(r, {"commit"}) /\ order[r] = "none" /\ req[r].reply = "none"
        /\ Admits(ask[r].sid, ask[r])
    BY DEF CommitOrder, IntakeInv, PlacedWhenCommitted, HeldServiceAdmits, At
  <1>1. /\ order' = [order EXCEPT ![r] = "live"] /\ cap' = [cap EXCEPT ![r] = "fresh"]
        /\ claim' = [k \in Keys |-> IF k = ask[r].key THEN r ELSE claim[k]]
        /\ req'[r] = [req[r] EXCEPT !.pc = "refresh"]
        /\ \A q \in Requests \ {r} : req'[q] = req[q]
    BY DEF CommitOrder, Go, IntakeTypeOK
  <1> USE <1>0, <1>1 DEF IntakeInv, IntakeTypeOK, At, Request
  <1>2. ClaimFollowsOrder'
    <2>1. ASSUME ask[r].key \in Keys
          PROVE  \A q \in Requests \ {r} : ask[q].key = ask[r].key => order[q] # "live"
      BY <2>1, SentinelAssumption DEF ClaimFollowsOrder, HoldersExclusive
    <2>2. \A k \in Keys : claim'[k] # Nobody =>
              order'[claim'[k]] = "live" /\ ask[claim'[k]].key = k
      BY DEF ClaimFollowsOrder
    <2>3. \A q \in Requests : order'[q] = "live" /\ ask[q].key \in Keys =>
              claim'[ask[q].key] = q
      BY <2>1 DEF ClaimFollowsOrder
    <2>4. \A q \in Requests : cap'[q] # "none" <=> order'[q] = "live"
      BY DEF ClaimFollowsOrder
    <2> QED
      BY <2>2, <2>3, <2>4 DEF ClaimFollowsOrder
  <1>3. HoldersExclusive'
    BY DEF HoldersExclusive
  <1>4. PlacedWhenCommitted' /\ PathFollowsHeader'
    BY DEF PlacedWhenCommitted, PathFollowsHeader
  <1>5. ReplayKnowsOrder'
    <2>1. \A q \in Requests : At(q, {"read"}) => ask[q].key # ask[r].key
      <3> SUFFICES ASSUME NEW q \in Requests, At(q, {"read"}), ask[q].key = ask[r].key
                   PROVE  FALSE
        OBVIOUS
      <3>1. ask[q].key \in Keys /\ claim[ask[q].key] \in Requests
        BY DEF PathFollowsHeader, ReplayKnowsOrder
      <3> QED
        BY <3>1, SentinelAssumption DEF HoldersExclusive
    <2>2. ASSUME NEW q \in Requests, At(q, {"read"})
          PROVE  claim'[ask[q].key] = req[q].owner
      BY <2>1, <2>2 DEF ReplayKnowsOrder, PathFollowsHeader
    <2>3. \A q \in Requests : order[q] # "none" => order'[q] # "none"
      OBVIOUS
    <2> QED
      BY <2>2, <2>3 DEF ReplayKnowsOrder, CanonicalRequest
  <1>6. HeldServiceAdmits' /\ ServiceOfOrderExists'
    BY DEF HeldServiceAdmits, ServiceOfOrderExists, Admits, Live
  <1>7. DeletionExclusive'
    BY DEF DeletionExclusive
  <1>8. ReplayFindsOrder' /\ RetryOnlyAfterDeletion'
    <2>1. \A q \in Requests : req'[q].reply = req[q].reply
      OBVIOUS
    <2>2. \A q \in Requests : order[q] = "gone" => order'[q] = "gone"
      OBVIOUS
    <2>3. UNCHANGED ask
      OBVIOUS
    <2> QED
      BY <2>1, <2>2, <2>3 DEF ReplayFindsOrder, RetryOnlyAfterDeletion
  <1> QED
    BY <1>2, <1>3, <1>4, <1>5, <1>6, <1>7, <1>8

(* A request keeps the invariant.                                            *)
LEMMA ClientKeeps ==
    ASSUME IntakeTypeOK, IntakeInv, NEW r \in Requests, ClientStep(r) \/ ClientFail(r)
    PROVE  IntakeInv'
  BY MovesKeep, CommitKeeps DEF ClientStep, ClientFail, RequestStep

(* A deletion keeps the invariant: it commits only when no replay holds the  *)
(* claim, and it takes the claim with the order.                             *)
LEMMA PurgerKeeps ==
    ASSUME IntakeTypeOK, IntakeInv, NEW d \in Purgers,
           NEW held, PurgerStep(d, held) \/ PurgerFail(d)
    PROVE  IntakeInv'
  <1>0. UNCHANGED <<setting, job, edit, ask, req, aim>>
    BY DEF PurgerStep, PurgerFail
  <1> USE <1>0 DEF IntakeInv, IntakeTypeOK, At, Purge
  <1>1. CASE UNCHANGED <<order, cap, claim>> /\ DeletionExclusive'
    BY <1>1 DEF ClaimFollowsOrder, HoldersExclusive, PlacedWhenCommitted,
       PathFollowsHeader, ReplayKnowsOrder, HeldServiceAdmits, Admits, Live,
       ServiceOfOrderExists, ReplayFindsOrder, RetryOnlyAfterDeletion, CanonicalRequest
  <1>2. CASE LoadOrder(d)
    BY <1>1, <1>2 DEF LoadOrder, GoPurge, StopPurge, DeletionExclusive
  <1>3. CASE DeleteRow(d)
    BY <1>1, <1>3 DEF DeleteRow, RowLocked, GoPurge, StopPurge, DeletionExclusive
  <1>4. CASE CascadeCapability(d, held)
    BY <1>1, <1>4 DEF CascadeCapability, GoPurge, DeletionExclusive
  <1>5. CASE FailPurge(d)
    BY <1>1, <1>5 DEF FailPurge, StopPurge, DeletionExclusive
  <1>6. CASE CommitPurge(d)
    <2> DEFINE o == aim[d]
    <2>0. /\ o \in Requests /\ order[o] = "live" /\ ~ClaimLocked(ask[o].key)
          /\ order' = [order EXCEPT ![o] = "gone"] /\ cap' = [cap EXCEPT ![o] = "none"]
          /\ claim' = [k \in Keys |-> IF claim[k] = o THEN Nobody ELSE claim[k]]
          /\ purge' = [purge EXCEPT ![d] = [pc |-> "done", reply |-> "ok"]]
          /\ purge[d].pc = "capability"
      BY <1>6 DEF CommitPurge, StopPurge, DeletionExclusive
    <2>1. ClaimFollowsOrder'
      BY <2>0, SentinelAssumption DEF ClaimFollowsOrder
    <2>2. HoldersExclusive'
      BY <2>0, SentinelAssumption DEF HoldersExclusive
    <2>3. PlacedWhenCommitted' /\ PathFollowsHeader'
      BY <2>0 DEF PlacedWhenCommitted, PathFollowsHeader
    <2>4. ReplayKnowsOrder'
      <3>1. ASSUME NEW r \in Requests, At(r, {"read"})
            PROVE  claim'[ask[r].key] = req[r].owner
        <4>1. ask[r].key \in Keys /\ claim[ask[r].key] = req[r].owner
          BY <3>1 DEF PathFollowsHeader, ReplayKnowsOrder
        <4>2. ask[r].key # ask[o].key
          BY <2>0, <3>1 DEF ClaimLocked
        <4>3. req[r].owner # o
          BY <3>1, <4>2 DEF ReplayKnowsOrder
        <4> QED
          BY <2>0, <4>1, <4>3
      <3>2. ASSUME NEW q \in Requests, order[q] # "none" PROVE order'[q] # "none"
        BY <2>0, <3>2
      <3> QED
        BY <3>1, <3>2 DEF ReplayKnowsOrder, CanonicalRequest
    <2>5. HeldServiceAdmits' /\ ServiceOfOrderExists'
      BY <2>0 DEF HeldServiceAdmits, ServiceOfOrderExists, Admits, Live
    <2>6. DeletionExclusive'
      BY <2>0 DEF DeletionExclusive
    <2>7. ReplayFindsOrder' /\ RetryOnlyAfterDeletion'
      BY <2>0 DEF ReplayFindsOrder, RetryOnlyAfterDeletion
    <2> QED
      BY <2>1, <2>2, <2>3, <2>4, <2>5, <2>6, <2>7
  <1> QED
    BY <1>2, <1>3, <1>4, <1>5, <1>6 DEF PurgerStep, PurgerFail, PurgeStep

(* An admin keeps the invariant: the row lock of a request and the foreign   *)
(* key keep off the changes that would break it.                             *)
LEMMA AdminKeeps ==
    ASSUME IntakeTypeOK, IntakeInv, NEW e \in Editors, AdminStep(e) \/ AdminFail(e)
    PROVE  IntakeInv'
  <1>0. UNCHANGED orderVars /\ job[e].sid \in Services
    BY JobsAssumption DEF AdminStep, AdminFail, IntakeTypeOK, CatalogTypeOK, Job
  <1>1. ASSUME NEW s \in Services, setting'[s] # setting[s]
        PROVE  /\ s \notin ServicesHeld
               /\ setting[s].status = "live" =>
                     \/ setting'[s].status = "live"
                     \/ s \notin Referenced \union Awaited
    <2> USE <1>1 DEF IntakeTypeOK, CatalogTypeOK, Setting
    <2>1. CASE Create(e)
      <3>1. setting[s].status = "unborn"
        BY <1>0, <2>1 DEF Create
      <3>2. \A r \in Requests : At(r, {"commit"}) => ask[r].sid # s
        BY <3>1 DEF IntakeInv, HeldServiceAdmits, Admits, Live
      <3> QED
        BY <3>1, <3>2 DEF ServicesHeld
    <2>2. CASE FlushPatch(e, ServicesHeld)
      BY <1>0, <2>2 DEF FlushPatch, Matches, Live
    <2>3. CASE FlushDelete(e, ServicesHeld, Referenced, Awaited)
      BY <1>0, <2>3 DEF FlushDelete, Live
    <2>4. CASE LoadPatch(e) \/ LoadDelete(e) \/ Refresh(e) \/ FailEdit(e)
      BY <2>4 DEF LoadPatch, LoadDelete, Refresh, FailEdit
    <2> QED
      BY <2>1, <2>2, <2>3, <2>4 DEF AdminStep, AdminFail, EditorStep
  <1>2. HeldServiceAdmits'
    <2> SUFFICES ASSUME NEW r \in Requests, At(r, {"commit"})
                 PROVE  Admits(ask[r].sid, ask[r])'
      BY <1>0 DEF HeldServiceAdmits, orderVars, At
    <2>1. ask[r].sid \in Services /\ ask[r].sid \in ServicesHeld
      BY AsksAssumption DEF ServicesHeld, IntakeTypeOK, Ask
    <2>2. setting'[ask[r].sid] = setting[ask[r].sid]
      BY <1>1, <2>1
    <2> QED
      BY <1>0, <2>2 DEF IntakeInv, HeldServiceAdmits, Admits, Live, orderVars
  <1>3. ServiceOfOrderExists'
    <2> SUFFICES ASSUME NEW r \in Requests, order[r] = "live"
                 PROVE  Live(ask[r].sid)'
      BY <1>0 DEF ServiceOfOrderExists, orderVars
    <2>1. /\ ask[r].sid \in Services /\ ask[r].sid \in Referenced \union Awaited
          /\ setting[ask[r].sid].status = "live"
      BY AsksAssumption DEF Referenced, Awaited, IntakeTypeOK, Ask,
         IntakeInv, ServiceOfOrderExists, Live
    <2>2. setting'[ask[r].sid] = setting[ask[r].sid] \/ setting'[ask[r].sid].status = "live"
      BY <1>1, <2>1
    <2> QED
      BY <1>0, <2>1, <2>2 DEF Live, orderVars
  <1> QED
    BY <1>0, <1>2, <1>3 DEF orderVars, IntakeInv, ClaimFollowsOrder, HoldersExclusive,
       PlacedWhenCommitted, PathFollowsHeader, ReplayKnowsOrder, DeletionExclusive,
       ReplayFindsOrder, RetryOnlyAfterDeletion, At, CanonicalRequest

(* The invariant holds at the start, before any call has been sent.          *)
LEMMA InvInit == IntakeInit => IntakeInv
  BY SentinelAssumption
  DEF IntakeInit, OrderInit, IntakeInv, ClaimFollowsOrder, HoldersExclusive,
      PlacedWhenCommitted, PathFollowsHeader, ReplayKnowsOrder, HeldServiceAdmits,
      DeletionExclusive, ServiceOfOrderExists, ReplayFindsOrder,
      RetryOnlyAfterDeletion, At

(* Every step of the intake keeps it.                                        *)
LEMMA InvStep ==
    IntakeTypeOK /\ IntakeInv /\ [IntakeNext]_intakeVars => IntakeInv'
  <1> SUFFICES ASSUME IntakeTypeOK, IntakeInv, [IntakeNext]_intakeVars PROVE IntakeInv'
    OBVIOUS
  <1>1. CASE UNCHANGED intakeVars
    BY <1>1 DEF intakeVars, IntakeInv, ClaimFollowsOrder, HoldersExclusive,
       PlacedWhenCommitted, PathFollowsHeader, ReplayKnowsOrder, HeldServiceAdmits,
       DeletionExclusive, ServiceOfOrderExists, ReplayFindsOrder,
       RetryOnlyAfterDeletion, At, CanonicalRequest, Admits, Live
  <1> QED
    BY <1>1, ClientKeeps, PurgerKeeps, AdminKeeps DEF IntakeNext, IntakeTerminating

(* The invariant holds in every reachable state.                             *)
THEOREM Invariance == IntakeSpec => []IntakeInv
  BY TypeCorrect, InvInit, InvStep, PTL DEF IntakeSpec

-----------------------------------------------------------------------------
(* What follows from it.                                                     *)

(* At most one order exists under a key: the claim names it.                 *)
THEOREM AtMostOneOrder == IntakeSpec => []OneLiveOrderPerKey
  <1>1. IntakeInv => OneLiveOrderPerKey
    BY DEF IntakeInv, ClaimFollowsOrder, OneLiveOrderPerKey
  <1> QED
    BY <1>1, Invariance, PTL

(* Keys, orders and capabilities live and die together.                      *)
THEOREM ClaimsFollowOrders == IntakeSpec => []ClaimFollowsOrder
  <1>1. IntakeInv => ClaimFollowsOrder
    BY DEF IntakeInv
  <1> QED
    BY <1>1, Invariance, PTL

(* The answer "no longer exists" is never given.                             *)
THEOREM ReplayNeverFails == IntakeSpec => []ReplayFindsOrder
  <1>1. IntakeInv => ReplayFindsOrder
    BY DEF IntakeInv
  <1> QED
    BY <1>1, Invariance, PTL

(* No service loses its row while an order refers to it.                     *)
THEOREM ServicesKept == IntakeSpec => []ServiceOfOrderExists
  <1>1. IntakeInv => ServiceOfOrderExists
    BY DEF IntakeInv
  <1> QED
    BY <1>1, Invariance, PTL

(* "Please retry" is said only after a deletion.                             *)
THEOREM RetryHasReason == IntakeSpec => []RetryOnlyAfterDeletion
  <1>1. IntakeInv => RetryOnlyAfterDeletion
    BY DEF IntakeInv
  <1> QED
    BY <1>1, Invariance, PTL

(* Only the request at its commit turns its own order from absent to live.   *)
LEMMA PlacingStep ==
    ASSUME IntakeTypeOK, [IntakeNext]_intakeVars, NEW r \in Requests,
           order[r] = "none", order'[r] # "none"
    PROVE  CommitOrder(r) \/ \E d \in Purgers : aim[d] = r /\ CommitPurge(d)
  <1>1. ASSUME NEW q \in Requests, ClientStep(q) \/ ClientFail(q)
        PROVE  CommitOrder(r)
    BY <1>1 DEF ClientStep, ClientFail, RequestStep, FailRequest, Arrive, InsertClaim,
       LockService, CommitOrder, RefreshOrder, LockClaim, ReadOriginal,
       RefreshOriginal, IntakeTypeOK
  <1>2. ASSUME NEW d \in Purgers, PurgerStep(d, {}) \/ PurgerFail(d)
        PROVE  aim[d] = r /\ CommitPurge(d)
    BY <1>2 DEF PurgerStep, PurgerFail, PurgeStep, FailPurge, LoadOrder, DeleteRow,
       CascadeCapability, CommitPurge, IntakeTypeOK
  <1>3. ASSUME NEW e \in Editors, AdminStep(e) \/ AdminFail(e) PROVE FALSE
    BY <1>3 DEF AdminStep, AdminFail, orderVars
  <1> QED
    BY <1>1, <1>2, <1>3 DEF IntakeNext, IntakeTerminating, intakeVars

(* The service admits the order in the very step that commits it.            *)
THEOREM AdmissionChecked == IntakeSpec => AdmittedAtCommit
  <1>1. IntakeTypeOK /\ IntakeInv /\ [IntakeNext]_intakeVars =>
          [\A r \in Requests :
              (order[r] = "none" /\ order'[r] = "live") =>
                 Admits(ask[r].sid, ask[r])]_intakeVars
    <2> SUFFICES ASSUME IntakeTypeOK, IntakeInv, [IntakeNext]_intakeVars,
                        NEW r \in Requests, order[r] = "none", order'[r] = "live"
                 PROVE  Admits(ask[r].sid, ask[r])
      OBVIOUS
    <2>1. CommitOrder(r)
      BY PlacingStep DEF IntakeInv, DeletionExclusive, CommitPurge
    <2> QED
      BY <2>1 DEF CommitOrder, IntakeInv, HeldServiceAdmits
  <1> QED
    BY <1>1, TypeCorrect, Invariance, PTL DEF IntakeSpec, AdmittedAtCommit

-----------------------------------------------------------------------------
(* The contract.                                                             *)

\* The contract's view of a request.
Sent(r) == [key |-> IF ask[r].key \in Keys THEN ask[r].key ELSE NoKey,
            wants |-> [sid |-> ask[r].sid, budget |-> ask[r].budget]]
Told(reply) == IF reply \in {"malformed", "refused", "retry"} THEN "refused" ELSE reply
SentMap == [r \in Requests |-> Sent(r)]
ToldMap == [r \in Requests |-> Told(req[r].reply)]

(* Two requests with the same key, as the contract sees them.                *)
LEMMA SameKeyMeans ==
    ASSUME NEW r \in Requests, NEW q \in Requests
    PROVE  Contract!SameKey(r, q) <=> ask[r].key \in Keys /\ ask[q].key = ask[r].key
  BY SentinelAssumption DEF Contract!SameKey

LEMMA SameOrderMeans ==
    ASSUME NEW r \in Requests, NEW q \in Requests
    PROVE  Sent(q).wants = Sent(r).wants <=> CanonicalRequest(ask[q]) = CanonicalRequest(ask[r])
  BY DEF Sent, CanonicalRequest

(* A request that answers and changes nothing else tells its client.         *)
LEMMA Telling ==
    ASSUME IntakeTypeOK, IntakeInv, NEW r \in Requests, NEW reply \in Replies,
           ~At(r, {"done"}), Stop(r, reply), UNCHANGED <<ask, order>>
    PROVE  Contract!Tell(r, Told(reply))
  <1>1. req[r].reply = "none"
    BY DEF IntakeInv, PlacedWhenCommitted, IntakeTypeOK
  <1>2. req' = [req EXCEPT ![r] = [pc |-> "done", owner |-> req[r].owner, reply |-> reply]]
    BY DEF Stop, IntakeTypeOK
  <1>3. ToldMap[r] = "none"
    BY <1>1 DEF ToldMap, Told
  <1>4. ToldMap' = [ToldMap EXCEPT ![r] = Told(reply)]
    BY <1>2 DEF ToldMap, Told, IntakeTypeOK
  <1>5. UNCHANGED SentMap
    BY DEF SentMap, Sent
  <1> QED
    BY <1>3, <1>4, <1>5 DEF Contract!Tell, ToldMap, Told, SentMap, Sent

(* A request that goes on without answering shows nothing.                   *)
LEMMA Silence ==
    ASSUME IntakeTypeOK, UNCHANGED <<ask, order>>,
           \A r \in Requests : req'[r].reply = req[r].reply
    PROVE  UNCHANGED Contract!contractVars
  BY DEF Contract!contractVars

(* Every step of a request is allowed by the contract.                       *)
LEMMA ClientRefines ==
    ASSUME IntakeTypeOK, IntakeInv, NEW r \in Requests, ClientStep(r) \/ ClientFail(r)
    PROVE  [Contract!ContractNext]_(Contract!contractVars)
  <1>0. UNCHANGED ask
    BY DEF ClientStep, ClientFail
  <1> USE <1>0 DEF At
  <1>s. ASSUME UNCHANGED order, NEW pc, Go(r, pc)
        PROVE  UNCHANGED Contract!contractVars
    BY <1>s, Silence DEF Go, IntakeTypeOK, Request
  <1>1. CASE Arrive(r)
    <2>1. CASE ask[r].key = BadKey
      <3>1. Stop(r, "malformed") /\ UNCHANGED order /\ order[r] = "none"
        BY <1>1, <2>1, SentinelAssumption
        DEF Arrive, IntakeInv, PlacedWhenCommitted
      <3>2. Contract!TellRefused(r)
        BY <1>1, <3>1, Telling DEF Arrive, Replies, Told, Contract!TellRefused
      <3> QED
        BY <3>2 DEF Contract!ContractNext
    <2>2. CASE ask[r].key # BadKey
      BY <1>1, <1>s, <2>2 DEF Arrive
    <2> QED
      BY <2>1, <2>2
  <1>2. CASE InsertClaim(r)
    BY <1>2, <1>s DEF InsertClaim
  <1>3. CASE LockService(r)
    <2>1. CASE Admits(ask[r].sid, ask[r])
      BY <1>3, <1>s, <2>1 DEF LockService
    <2>2. CASE ~Admits(ask[r].sid, ask[r])
      <3>1. Contract!TellRefused(r)
        BY <1>3, <2>2, Telling
        DEF LockService, Replies, Told, Contract!TellRefused, IntakeInv, PlacedWhenCommitted
      <3> QED
        BY <3>1 DEF Contract!ContractNext
    <2> QED
      BY <2>1, <2>2
  <1>4. CASE CommitOrder(r)
    <2>1. order[r] = "none" /\ req[r].reply = "none"
      BY <1>4 DEF CommitOrder, IntakeInv, PlacedWhenCommitted
    <2>2. ASSUME NEW q \in Requests, Contract!SameKey(r, q) PROVE order[q] # "live"
      <3>1. ask[r].key \in Keys /\ ask[q].key = ask[r].key
        BY <2>2, SameKeyMeans
      <3> QED
        BY <1>4, <3>1, SentinelAssumption
        DEF CommitOrder, IntakeInv, HoldersExclusive, ClaimFollowsOrder
    <2>3. UNCHANGED <<SentMap, ToldMap>>
      BY <1>4 DEF CommitOrder, Go, SentMap, ToldMap, Sent, Told, IntakeTypeOK, Request
    <2>4. ToldMap[r] = "none"
      BY <2>1 DEF ToldMap, Told
    <2>5. Contract!Place(r)
      BY <1>4, <2>1, <2>2, <2>3, <2>4
      DEF CommitOrder, Contract!Place, SentMap, ToldMap, Sent, Told
    <2> QED
      BY <2>5 DEF Contract!ContractNext
  <1>5. CASE RefreshOrder(r)
    <2>1. CASE order[r] = "live"
      <3>1. Contract!TellCreated(r)
        BY <1>5, <2>1, Telling DEF RefreshOrder, Replies, Told, Contract!TellCreated
      <3> QED
        BY <3>1 DEF Contract!ContractNext
    <2>2. CASE order[r] # "live"
      <3>1. Contract!TellError(r)
        BY <1>5, <2>2, Telling DEF RefreshOrder, Replies, Told, Contract!TellError
      <3> QED
        BY <3>1 DEF Contract!ContractNext
    <2> QED
      BY <2>1, <2>2
  <1>6. CASE LockClaim(r)
    <2>0. /\ order[r] = "none" /\ ask[r].key \in Keys /\ UNCHANGED order
          /\ claim[ask[r].key] \in Requests \union {Nobody} /\ req[r].reply = "none"
      BY <1>6 DEF LockClaim, IntakeTypeOK, IntakeInv, PlacedWhenCommitted, PathFollowsHeader
    <2>1. CASE claim[ask[r].key] = Nobody
      <3>1. Contract!TellRefused(r)
        BY <1>6, <2>0, <2>1, Telling DEF LockClaim, Replies, Told, Contract!TellRefused
      <3> QED
        BY <3>1 DEF Contract!ContractNext
    <2>2. CASE claim[ask[r].key] # Nobody
      <3> DEFINE o == claim[ask[r].key]
      <3>0. o \in Requests /\ ask[o].key = ask[r].key /\ order[o] = "live"
        BY <2>0, <2>2 DEF IntakeInv, ClaimFollowsOrder
      <3>1. CASE CanonicalRequest(ask[o]) # CanonicalRequest(ask[r])
        <4>1. Stop(r, "mismatch")
          BY <1>6, <2>2, <3>1 DEF LockClaim
        <4>2. Contract!Tell(r, "mismatch")
          BY <1>6, <2>0, <4>1, Telling DEF LockClaim, Replies, Told
        <4>3. Contract!SameKey(r, o) /\ Sent(o).wants # Sent(r).wants
          BY <2>0, <3>0, <3>1, SameKeyMeans, SameOrderMeans
        <4>4. Contract!TellMismatch(r)
          BY <2>0, <3>0, <4>2, <4>3 DEF Contract!TellMismatch, Sent
        <4> QED
          BY <4>4 DEF Contract!ContractNext
      <3>2. CASE CanonicalRequest(ask[o]) = CanonicalRequest(ask[r])
        <4>1. req' = [req EXCEPT ![r] = [pc |-> "read", owner |-> o, reply |-> "none"]]
          BY <1>6, <2>2, <3>2 DEF LockClaim
        <4>2. \A q \in Requests : req'[q].reply = req[q].reply
          BY <2>0, <4>1 DEF IntakeTypeOK
        <4> QED
          BY <2>0, <4>2, Silence
      <3> QED
        BY <3>1, <3>2
    <2> QED
      BY <2>1, <2>2
  <1>7. CASE ReadOriginal(r)
    <2>1. order[req[r].owner] = "live"
      BY <1>7, SentinelAssumption
      DEF ReadOriginal, IntakeInv, ReplayKnowsOrder, PathFollowsHeader, ClaimFollowsOrder
    <2> QED
      BY <1>7, <1>s, <2>1 DEF ReadOriginal
  <1>8. CASE RefreshOriginal(r)
    <2>0. /\ order[r] = "none" /\ ask[r].key \in Keys /\ req[r].owner \in Requests
          /\ ask[req[r].owner].key = ask[r].key
          /\ CanonicalRequest(ask[req[r].owner]) = CanonicalRequest(ask[r])
      BY <1>8 DEF RefreshOriginal, IntakeInv, PlacedWhenCommitted, PathFollowsHeader,
                  ReplayKnowsOrder
    <2>1. CASE order[req[r].owner] = "live"
      <3>1. Contract!Tell(r, "replayed")
        BY <1>8, <2>1, Telling DEF RefreshOriginal, Replies, Told
      <3>2. Contract!SameKey(r, req[r].owner) /\ Sent(req[r].owner).wants = Sent(r).wants
        BY <2>0, SameKeyMeans, SameOrderMeans
      <3>3. Contract!TellReplayed(r)
        BY <2>0, <2>1, <3>1, <3>2 DEF Contract!TellReplayed, Sent
      <3> QED
        BY <3>3 DEF Contract!ContractNext
    <2>2. CASE order[req[r].owner] # "live"
      <3>1. Contract!TellError(r)
        BY <1>8, <2>2, Telling DEF RefreshOriginal, Replies, Told, Contract!TellError
      <3> QED
        BY <3>1 DEF Contract!ContractNext
    <2> QED
      BY <2>1, <2>2
  <1>9. CASE FailRequest(r)
    <2>1. Contract!TellError(r)
      BY <1>9, Telling DEF FailRequest, Replies, Told, Contract!TellError
    <2> QED
      BY <2>1 DEF Contract!ContractNext
  <1> QED
    BY <1>1, <1>2, <1>3, <1>4, <1>5, <1>6, <1>7, <1>8, <1>9
    DEF ClientStep, ClientFail, RequestStep

(* Every step of a deletion is: its commit withdraws the order.              *)
LEMMA PurgerRefines ==
    ASSUME IntakeTypeOK, IntakeInv, NEW d \in Purgers,
           PurgerStep(d, {}) \/ PurgerFail(d)
    PROVE  [Contract!ContractNext]_(Contract!contractVars)
  <1>0. UNCHANGED <<ask, req>>
    BY DEF PurgerStep, PurgerFail
  <1>1. CASE UNCHANGED order
    BY <1>0, <1>1, Silence
  <1>2. CASE CommitPurge(d)
    <2>1. aim[d] \in Requests /\ order[aim[d]] = "live"
      BY <1>2 DEF CommitPurge, IntakeInv, DeletionExclusive, IntakeTypeOK
    <2>2. Contract!Withdraw(aim[d])
      BY <1>0, <1>2, <2>1 DEF CommitPurge, Contract!Withdraw
    <2> QED
      BY <2>1, <2>2 DEF Contract!ContractNext
  <1> QED
    BY <1>1, <1>2 DEF PurgerStep, PurgerFail, PurgeStep, FailPurge, LoadOrder,
       DeleteRow, CascadeCapability

(* The intake's initial states are initial states of the contract.           *)
LEMMA InitRefines == IntakeInit => Contract!ContractInit
  <1> SUFFICES ASSUME IntakeInit PROVE Contract!ContractInit
    OBVIOUS
  <1>1. ASSUME NEW r \in Requests
        PROVE  Sent(r) \in [key : Keys \union {NoKey},
                            wants : [sid : Services, budget : Amounts]]
    BY AsksAssumption DEF IntakeInit, OrderInit, Sent, Ask
  <1>2. SentMap \in [Requests -> [key : Keys \union {NoKey},
                                  wants : [sid : Services, budget : Amounts]]]
    BY <1>1 DEF SentMap
  <1>3. ToldMap = [r \in Requests |-> "none"]
    BY DEF IntakeInit, OrderInit, ToldMap, Told
  <1> QED
    BY <1>2, <1>3 DEF Contract!ContractInit, IntakeInit, OrderInit, SentMap, Sent, ToldMap, Told

(* The intake keeps the contract.                                            *)
THEOREM IntakeKeepsContract == IntakeSpec => KeepsContract
  <1>1. IntakeTypeOK /\ IntakeInv /\ [IntakeNext]_intakeVars
          => [Contract!ContractNext]_(Contract!contractVars)
    <2> SUFFICES ASSUME IntakeTypeOK, IntakeInv, [IntakeNext]_intakeVars
                 PROVE  [Contract!ContractNext]_(Contract!contractVars)
      OBVIOUS
    <2>1. ASSUME NEW e \in Editors, AdminStep(e) \/ AdminFail(e)
          PROVE  UNCHANGED Contract!contractVars
      BY <2>1, Silence DEF AdminStep, AdminFail, orderVars
    <2>2. CASE UNCHANGED intakeVars
      BY <2>2, Silence DEF intakeVars
    <2> QED
      BY <2>1, <2>2, ClientRefines, PurgerRefines DEF IntakeNext, IntakeTerminating
  <1> QED
    BY <1>1, InitRefines, TypeCorrect, Invariance, PTL
    DEF IntakeSpec, KeepsContract, Contract!ContractSpec

-----------------------------------------------------------------------------
(* The submissions of metrics beside the intake: its invariant holds all the *)
(* same, and an order's capability buys one metric.                          *)

\* Everything that is carried through a step.
Carried == MetricTypeOK /\ IntakeInv /\ SubmissionInv

-----------------------------------------------------------------------------
(* Types, and the invariant of the intake.                                   *)

(* The calls of the intake keep its types and its invariant here as well:    *)
(* waiting for a submission is only one more reason to wait.                 *)
LEMMA IntakeCallKeeps ==
    ASSUME IntakeTypeOK, IntakeInv,
           \/ \E r \in Requests : ClientStep(r) \/ ClientFail(r)
           \/ \E e \in Editors : AdminStep(e) \/ AdminFail(e)
           \/ \E d \in Purgers : PurgerStep(d, CapabilitiesHeld) \/ PurgerFail(d)
    PROVE  IntakeTypeOK' /\ IntakeInv'
  BY RequestType, AdminType, PurgerType, ClientKeeps, AdminKeeps, PurgerKeeps
  DEF IntakeInv

(* A submission touches the intake only where it marks a capability.         *)
LEMMA CapabilityKeeps ==
    ASSUME IntakeTypeOK, IntakeInv, NEW r \in Requests, cap[r] # "none",
           UNCHANGED <<setting, job, edit, ask, req, order, claim, aim, purge>>,
           cap' = [cap EXCEPT ![r] = "used"]
    PROVE  IntakeTypeOK' /\ IntakeInv'
  <1>1. IntakeTypeOK'
    BY DEF IntakeTypeOK, CatalogTypeOK
  <1>2. ClaimFollowsOrder'
    BY DEF IntakeTypeOK, IntakeInv, ClaimFollowsOrder
  <1> QED
    BY <1>1, <1>2 DEF IntakeInv, HoldersExclusive, PlacedWhenCommitted,
       PathFollowsHeader, ReplayKnowsOrder, HeldServiceAdmits, DeletionExclusive,
       ServiceOfOrderExists, ReplayFindsOrder, RetryOnlyAfterDeletion, At,
       CanonicalRequest, Admits, Live

(* Nothing that the intake depends on changes.                               *)
LEMMA IntakeStutter ==
    ASSUME IntakeTypeOK, IntakeInv, UNCHANGED intakeVars
    PROVE  IntakeTypeOK' /\ IntakeInv'
  <1>1. IntakeInv'
    BY InvStep
  <1> QED
    BY <1>1 DEF intakeVars, IntakeTypeOK, CatalogTypeOK

(* A submission knows an order that its capability belongs to.               *)
LEMMA InsertFinds ==
    ASSUME Carried, NEW p \in Posts, InsertMetric(p)
    PROVE  LET r == letter[p].about IN
           /\ r \in Requests /\ order[r] = "live" /\ metric[r] = "none"
           /\ cap[r] = "fresh"
           /\ metric' = [metric EXCEPT ![r] = "live"]
           /\ cap' = [cap EXCEPT ![r] = "used"]
           /\ GoPost(p, "refresh")
  <1>1. letter[p].about \in Requests
    BY LettersAssumption DEF Carried, MetricTypeOK, Letter
  <1>2. cap[letter[p].about] = "fresh"
    BY DEF InsertMetric, Carried, SubmissionInv, ConsumersExclusive
  <1>3. order[letter[p].about] = "live" /\ metric[letter[p].about] = "none"
    BY <1>1, <1>2 DEF Carried, IntakeInv, ClaimFollowsOrder, SubmissionInv,
       CapabilityTellsMetric
  <1> QED
    BY <1>1, <1>2, <1>3 DEF InsertMetric

-----------------------------------------------------------------------------
(* Each kind of step.                                                        *)

(* A submission keeps everything.                                            *)
LEMMA SubmitKeeps ==
    ASSUME Carried, NEW p \in Posts, SubmitStep(p) \/ SubmitFail(p)
    PROVE  Carried'
  <1>0. /\ UNCHANGED <<setting, job, edit, ask, req, order, claim, aim, purge>>
        /\ UNCHANGED <<letter, target, clerk>>
    BY DEF SubmitStep, SubmitFail
  <1>1. letter[p].about \in Requests /\ post[p] \in Post
    BY LettersAssumption DEF Carried, MetricTypeOK, Letter
  <1>2. CASE InsertMetric(p)
    <2> DEFINE r == letter[p].about
    <2>1. /\ order[r] = "live" /\ metric[r] = "none" /\ cap[r] = "fresh"
          /\ metric' = [metric EXCEPT ![r] = "live"]
          /\ cap' = [cap EXCEPT ![r] = "used"]
          /\ post' = [post EXCEPT ![p].pc = "refresh"] /\ post[p].pc = "insert"
      BY <1>2, InsertFinds DEF GoPost, InsertMetric
    <2>2. IntakeTypeOK' /\ IntakeInv'
      BY <1>0, <1>1, <2>1, CapabilityKeeps DEF Carried, MetricTypeOK
    <2>3. MetricTypeOK'
      BY <1>0, <1>1, <2>1, <2>2 DEF Carried, MetricTypeOK, Post
    <2>4. ConsumersExclusive'
      BY <1>0, <1>1, <2>1
      DEF Carried, MetricTypeOK, IntakeTypeOK, SubmissionInv, ConsumersExclusive,
          Post, Purging
    <2>5. CapabilityTellsMetric' /\ ConflictNeverAnswered'
      BY <1>0, <1>1, <2>1
      DEF Carried, MetricTypeOK, IntakeTypeOK, SubmissionInv, CapabilityTellsMetric,
          ConflictNeverAnswered, Post
    <2> QED
      BY <2>2, <2>3, <2>4, <2>5 DEF Carried, SubmissionInv
  <1>3. ASSUME UNCHANGED <<cap, metric>>, post' \in [Posts -> Post],
               \A q \in Posts \ {p} : post'[q] = post[q],
               post'[p].reply # "conflict",
               post'[p].pc = "insert" =>
                  /\ Authorizes(p) /\ letter[p].about \notin CapabilitiesHeld
                  /\ ~Purging(letter[p].about, {"capability"})
        PROVE  Carried'
    <2>1. IntakeTypeOK' /\ IntakeInv'
      BY <1>0, <1>3, IntakeStutter DEF intakeVars, Carried, MetricTypeOK
    <2>2. MetricTypeOK' /\ CapabilityTellsMetric' /\ ConflictNeverAnswered'
      BY <1>0, <1>3, <2>1
      DEF Carried, MetricTypeOK, SubmissionInv, CapabilityTellsMetric,
          ConflictNeverAnswered
    <2>3. ConsumersExclusive'
      BY <1>0, <1>3
      DEF Carried, MetricTypeOK, SubmissionInv, ConsumersExclusive, Authorizes,
          CapabilitiesHeld, Purging
    <2> QED
      BY <2>1, <2>2, <2>3 DEF Carried, SubmissionInv
  <1>4. ASSUME UNCHANGED <<cap, metric>>, NEW reply \in {"ok", "denied", "error"},
               EndPost(p, reply)
        PROVE  Carried'
    <2>1. post' \in [Posts -> Post]
      BY <1>4 DEF EndPost, Post, Carried, MetricTypeOK
    <2>2. /\ post'[p] = [pc |-> "done", reply |-> reply]
          /\ \A q \in Posts \ {p} : post'[q] = post[q]
      BY <1>4 DEF EndPost, Carried, MetricTypeOK
    <2> QED
      BY <1>3, <1>4, <2>1, <2>2
  <1>5. ASSUME NEW pc \in {"consume", "insert"}, GoPost(p, pc)
        PROVE  /\ post' \in [Posts -> Post]
               /\ \A q \in Posts \ {p} : post'[q] = post[q]
               /\ post'[p].reply # "conflict" /\ post'[p].pc = pc
    BY <1>1, <1>5 DEF GoPost, Post, Carried, MetricTypeOK, SubmissionInv,
       ConflictNeverAnswered
  <1>6. CASE Send(p) \/ Consume(p)
    <2>1. UNCHANGED <<cap, metric>>
      BY <1>6 DEF Send, Consume
    <2>2. CASE GoPost(p, "consume")
      BY <1>3, <1>5, <2>1, <2>2
    <2>3. CASE GoPost(p, "insert") /\ Consume(p) /\ Authorizes(p)
      BY <1>3, <1>5, <2>1, <2>3 DEF Consume, Authorizes
    <2>4. CASE EndPost(p, "denied")
      BY <1>4, <2>1, <2>4
    <2> QED
      BY <1>6, <2>2, <2>3, <2>4 DEF Send, Consume
  <1>7. CASE RefreshMetric(p)
    BY <1>4, <1>7 DEF RefreshMetric
  <1>8. CASE FailPost(p)
    BY <1>4, <1>8 DEF FailPost
  <1> QED
    BY <1>2, <1>6, <1>7, <1>8 DEF SubmitStep, SubmitFail, PostStep

(* A deletion of the order takes capability and metric together, and only    *)
(* when no submission holds the capability.                                  *)
LEMMA PurgeKeeps ==
    ASSUME Carried, NEW d \in Purgers,
           PurgeOrder(d) \/ (PurgerFail(d) /\ UNCHANGED metricVars)
    PROVE  Carried'
  <1>0. /\ UNCHANGED <<letter, post, target, clerk>>
        /\ UNCHANGED <<setting, job, edit, ask, req, aim>>
        /\ PurgerStep(d, CapabilitiesHeld) \/ PurgerFail(d)
    BY DEF PurgeOrder, PurgerFail, PurgerStep, metricVars
  <1>1. IntakeTypeOK' /\ IntakeInv'
    BY <1>0, IntakeCallKeeps DEF Carried, MetricTypeOK
  <1>2. CASE UNCHANGED <<order, cap, claim>>
    <2>1. UNCHANGED metric
      BY <1>0, <1>2 DEF PurgeOrder, CascadeMetric, metricVars, Carried, MetricTypeOK,
         SubmissionInv, CapabilityTellsMetric
    <2>2. MetricTypeOK' /\ CapabilityTellsMetric' /\ ConflictNeverAnswered'
      BY <1>0, <1>1, <1>2, <2>1
      DEF Carried, MetricTypeOK, SubmissionInv, CapabilityTellsMetric,
          ConflictNeverAnswered
    <2>3. ASSUME NEW c \in Purgers, purge'[c].pc = "capability",
                 aim[c] \in CapabilitiesHeld
          PROVE  purge[c].pc = "capability"
      <3>0. purge \in [Purgers -> Purge]
        BY DEF Carried, MetricTypeOK, IntakeTypeOK
      <3> USE <2>3, <3>0 DEF GoPurge, StopPurge, Purge
      <3>1. CASE LoadOrder(d)
        BY <3>1 DEF LoadOrder
      <3>2. CASE DeleteRow(d)
        BY <3>2 DEF DeleteRow
      <3>3. CASE CascadeCapability(d, CapabilitiesHeld)
        BY <3>3 DEF CascadeCapability
      <3>4. CASE CommitPurge(d)
        BY <3>4 DEF CommitPurge
      <3>5. CASE FailPurge(d)
        BY <3>5 DEF FailPurge
      <3> QED
        BY <1>0, <3>1, <3>2, <3>3, <3>4, <3>5 DEF PurgerStep, PurgerFail, PurgeStep
    <2>4. ConsumersExclusive'
      BY <1>0, <1>2, <2>3
      DEF Carried, SubmissionInv, ConsumersExclusive, CapabilitiesHeld, Purging
    <2> QED
      BY <1>1, <2>2, <2>4 DEF Carried, SubmissionInv
  <1>3. CASE CommitPurge(d)
    <2> DEFINE o == aim[d]
    <2>1. /\ o \in Requests /\ purge[d].pc = "capability"
          /\ order' = [order EXCEPT ![o] = "gone"] /\ cap' = [cap EXCEPT ![o] = "none"]
          /\ purge' = [purge EXCEPT ![d] = [pc |-> "done", reply |-> "ok"]]
      BY <1>3 DEF CommitPurge, StopPurge, Carried, MetricTypeOK, IntakeTypeOK
    <2>2. CascadeMetric
      BY <1>0, <1>3 DEF PurgeOrder, PurgerFail, FailPurge, CommitPurge, StopPurge,
         Carried, MetricTypeOK, IntakeTypeOK, Purge
    <2>3. \A p \in Posts : post[p].pc = "insert" => letter[p].about # o
      BY <2>1 DEF Carried, SubmissionInv, ConsumersExclusive, Purging
    <2>4. MetricTypeOK' /\ ConflictNeverAnswered'
      BY <1>0, <1>1, <2>2 DEF Carried, MetricTypeOK, CascadeMetric, SubmissionInv,
         ConflictNeverAnswered
    <2>5. CapabilityTellsMetric'
      BY <2>1, <2>2 DEF Carried, MetricTypeOK, IntakeTypeOK, SubmissionInv,
         CapabilityTellsMetric, CascadeMetric
    <2>6. ConsumersExclusive'
      BY <1>0, <2>1, <2>3, LettersAssumption
      DEF Carried, MetricTypeOK, IntakeTypeOK, SubmissionInv, ConsumersExclusive,
          Purging, Letter
    <2> QED
      BY <1>1, <2>4, <2>5, <2>6 DEF Carried, SubmissionInv
  <1> QED
    BY <1>0, <1>2, <1>3 DEF PurgerStep, PurgerFail, PurgeStep, FailPurge, LoadOrder,
       DeleteRow, CascadeCapability

(* The other calls of the intake: only a commit touches a capability, of an  *)
(* order that was not there before.                                          *)
LEMMA OtherCallsKeep ==
    ASSUME Carried, UNCHANGED metricVars,
           \/ \E r \in Requests : ClientStep(r) \/ ClientFail(r)
           \/ \E e \in Editors : AdminStep(e) \/ AdminFail(e)
    PROVE  Carried'
  <1>1. IntakeTypeOK' /\ IntakeInv'
    BY IntakeCallKeeps DEF Carried, MetricTypeOK
  <1>2. UNCHANGED <<aim, purge>>
    BY DEF ClientStep, ClientFail, AdminStep, AdminFail, orderVars
  <1>3. MetricTypeOK' /\ ConflictNeverAnswered'
    BY <1>1 DEF metricVars, Carried, MetricTypeOK, SubmissionInv, ConflictNeverAnswered
  <1>4. CASE UNCHANGED <<order, cap>>
    BY <1>1, <1>2, <1>3, <1>4
    DEF metricVars, Carried, SubmissionInv, CapabilityTellsMetric, ConsumersExclusive,
        Purging
  <1>5. CASE \E r \in Requests : CommitOrder(r)
    <2>1. PICK r \in Requests : CommitOrder(r)
      BY <1>5
    <2>2. order[r] = "none" /\ cap[r] = "none" /\ metric[r] = "none"
      BY <2>1 DEF CommitOrder, Carried, IntakeInv, PlacedWhenCommitted, At,
         ClaimFollowsOrder, SubmissionInv, CapabilityTellsMetric, MetricTypeOK,
         IntakeTypeOK
    <2>3. CapabilityTellsMetric'
      BY <2>1, <2>2 DEF CommitOrder, metricVars, Carried, MetricTypeOK, IntakeTypeOK,
         SubmissionInv, CapabilityTellsMetric
    <2>4. ConsumersExclusive'
      BY <1>2, <2>1, <2>2, LettersAssumption
      DEF CommitOrder, metricVars, Carried, MetricTypeOK, IntakeTypeOK, SubmissionInv,
          ConsumersExclusive, Purging, Letter
    <2> QED
      BY <1>1, <1>3, <2>3, <2>4 DEF Carried, SubmissionInv
  <1> QED
    BY <1>4, <1>5 DEF ClientStep, ClientFail, RequestStep, FailRequest, Arrive,
       InsertClaim, LockService, RefreshOrder, LockClaim, ReadOriginal,
       RefreshOriginal, AdminStep, AdminFail, orderVars

(* A clerk only removes metrics, and a broken deadlock only ends a call.     *)
LEMMA ClerkKeeps ==
    ASSUME Carried, NEW c \in Clerks, DeleteMetric(c) \/ DeleteMetricFail(c)
    PROVE  Carried'
  <1>1. UNCHANGED intakeVars /\ UNCHANGED <<letter, post, target>>
    BY DEF DeleteMetric, DeleteMetricFail, intakeVars
  <1>2. IntakeTypeOK' /\ IntakeInv'
    BY <1>1, IntakeStutter DEF Carried, MetricTypeOK
  <1>3. /\ target[c] \in Requests
        /\ clerk' \in [Clerks -> Clerk]
        /\ \/ UNCHANGED metric
           \/ metric' = [metric EXCEPT ![target[c]] = IF @ = "live" THEN "gone" ELSE @]
    BY DEF DeleteMetric, DeleteMetricFail, ClerkStep, FailClerk, Carried, MetricTypeOK,
       Clerk
  <1>4. MetricTypeOK' /\ ConflictNeverAnswered'
    BY <1>1, <1>2, <1>3 DEF Carried, MetricTypeOK, SubmissionInv, ConflictNeverAnswered
  <1>5. CapabilityTellsMetric'
    BY <1>1, <1>3 DEF intakeVars, Carried, MetricTypeOK, SubmissionInv,
       CapabilityTellsMetric
  <1>6. ConsumersExclusive'
    BY <1>1 DEF intakeVars, Carried, SubmissionInv, ConsumersExclusive, Purging
  <1> QED
    BY <1>2, <1>4, <1>5, <1>6 DEF Carried, SubmissionInv

(* Whichever of the two PostgreSQL aborts, nothing it wrote remains.         *)
LEMMA DeadlockKeeps ==
    ASSUME Carried, NEW p \in Posts, NEW d \in Purgers, BreakDeadlock(p, d)
    PROVE  Carried'
  <1>1. CASE AbortPurge(p, d)
    <2>1. PurgerFail(d) /\ UNCHANGED metricVars
      BY <1>1 DEF BreakDeadlock, AbortPurge, Deadlocked, PurgerFail, FailPurge, metricVars
    <2> QED
      BY <2>1, PurgeKeeps
  <1>2. CASE AbortPost(p, d)
    <2>1. UNCHANGED intakeVars /\ UNCHANGED <<letter, metric, target, clerk>>
      BY <1>2 DEF BreakDeadlock, AbortPost, intakeVars
    <2>2. post' = [post EXCEPT ![p] = [pc |-> "done", reply |-> "deadlock"]]
      BY <1>2 DEF AbortPost, EndPost
    <2>3. IntakeTypeOK' /\ IntakeInv'
      BY <2>1, IntakeStutter DEF Carried, MetricTypeOK
    <2>4. MetricTypeOK' /\ CapabilityTellsMetric' /\ ConflictNeverAnswered'
      BY <2>1, <2>2, <2>3 DEF intakeVars, Carried, MetricTypeOK, Post, SubmissionInv,
         CapabilityTellsMetric, ConflictNeverAnswered
    <2>5. ConsumersExclusive'
      BY <2>1, <2>2 DEF intakeVars, Carried, MetricTypeOK, SubmissionInv,
         ConsumersExclusive, Purging
    <2> QED
      BY <2>3, <2>4, <2>5 DEF Carried, SubmissionInv
  <1> QED
    BY <1>1, <1>2 DEF BreakDeadlock

-----------------------------------------------------------------------------
(* Theorems.                                                                 *)

(* It holds before any call has been sent.                                   *)
LEMMA CarriedInit == MetricInit => Carried
  <1> SUFFICES ASSUME MetricInit PROVE Carried
    OBVIOUS
  <1>1. IntakeTypeOK /\ IntakeInv
    BY TypeInit, InvInit DEF MetricInit
  <1>2. MetricTypeOK
    BY <1>1 DEF MetricInit, MetricTypeOK, Post, Clerk
  <1>3. SubmissionInv
    BY DEF MetricInit, IntakeInit, OrderInit, SubmissionInv, ConsumersExclusive,
       CapabilityTellsMetric, ConflictNeverAnswered
  <1> QED
    BY <1>1, <1>2, <1>3 DEF Carried

(* It holds after every step.                                                *)
LEMMA CarriedStep == Carried /\ [MetricNext]_submissionVars => Carried'
  <1> SUFFICES ASSUME Carried, [MetricNext]_submissionVars PROVE Carried'
    OBVIOUS
  <1>1. CASE UNCHANGED submissionVars
    <2>1. UNCHANGED intakeVars /\ UNCHANGED metricVars
      BY <1>1 DEF submissionVars, intakeVars, metricVars
    <2>2. IntakeTypeOK' /\ IntakeInv'
      BY <2>1, IntakeStutter DEF Carried, MetricTypeOK
    <2> QED
      BY <2>1, <2>2 DEF intakeVars, metricVars, Carried, MetricTypeOK, SubmissionInv,
         ConsumersExclusive, CapabilityTellsMetric, ConflictNeverAnswered, Purging
  <1> QED
    BY <1>1, OtherCallsKeep, PurgeKeeps, SubmitKeeps, ClerkKeeps, DeadlockKeeps
    DEF MetricNext, MetricTerminating

(* The invariant of the intake and that of the submissions hold in every     *)
(* reachable state.                                                          *)
THEOREM SubmissionInvariance == MetricSpec => [](MetricTypeOK /\ IntakeInv /\ SubmissionInv)
  <1>1. MetricSpec => []Carried
    BY CarriedInit, CarriedStep, PTL DEF MetricSpec
  <1> QED
    BY <1>1, PTL DEF Carried

(* Types of the submissions, beside those of the intake.                     *)
THEOREM MetricTypes == MetricSpec => []MetricTypeOK
  <1> QED
    BY SubmissionInvariance, PTL

(* The 409 of create_behavior_metric is never sent.                          *)
THEOREM NoConflict == MetricSpec => []ConflictNeverAnswered
  <1>1. SubmissionInv => ConflictNeverAnswered
    BY DEF SubmissionInv
  <1> QED
    BY <1>1, SubmissionInvariance, PTL

(* A capability is used up exactly when a metric has been accepted.          *)
THEOREM CapabilityAndMetric == MetricSpec => []CapabilityTellsMetric
  <1>1. SubmissionInv => CapabilityTellsMetric
    BY DEF SubmissionInv
  <1> QED
    BY <1>1, SubmissionInvariance, PTL

(* A deleted metric never comes back: its capability has been used.          *)
THEOREM OneSubmission == MetricSpec => SubmittedOnce
  <1>1. Carried /\ [MetricNext]_submissionVars =>
          [\A r \in Requests : metric[r] = "gone" => metric'[r] = "gone"]_submissionVars
    <2> SUFFICES ASSUME Carried, MetricNext, NEW r \in Requests, metric[r] = "gone"
                 PROVE  metric'[r] = "gone"
      OBVIOUS
    <2> USE DEF Carried, MetricTypeOK
    <2>1. ASSUME NEW p \in Posts, SubmitStep(p) \/ SubmitFail(p)
          PROVE  metric'[r] = "gone"
      BY <2>1, InsertFinds DEF SubmitStep, SubmitFail, PostStep, Send, Consume,
         RefreshMetric, FailPost
    <2>2. ASSUME NEW d \in Purgers, PurgeOrder(d)
          PROVE  metric'[r] = "gone"
      BY <2>2 DEF PurgeOrder, CascadeMetric
    <2>3. ASSUME NEW c \in Clerks, DeleteMetric(c) \/ DeleteMetricFail(c)
          PROVE  metric'[r] = "gone"
      BY <2>3 DEF DeleteMetric, DeleteMetricFail, ClerkStep, FailClerk
    <2> QED
      BY <2>1, <2>2, <2>3 DEF MetricNext, metricVars, BreakDeadlock, MetricTerminating,
         submissionVars
  <1>2. MetricSpec => []Carried
    BY SubmissionInvariance, PTL DEF Carried
  <1> QED
    BY <1>1, <1>2, PTL DEF MetricSpec, SubmittedOnce

-----------------------------------------------------------------------------
(* Waiting.  Liveness is beyond the prover; here is what makes the liveness  *)
(* properties true: somebody can always go on, and every step of a call      *)
(* brings it closer to its answer.  A call waits while the row or the key it *)
(* needs next is held by another transaction.                                *)

Busy(pc) == pc \notin {"idle", "done"}

RequestWaits(r) ==
    \/ At(r, {"claim"}) /\ KeyHeld(ask[r].key)
    \/ At(r, {"service"}) /\ ask[r].sid \in ServicesHeld
    \/ At(r, {"replay"}) /\ ClaimLocked(ask[r].key)

\* `held`: orders whose capability a submission holds.
PurgerWaits(d, held) ==
    \/ purge[d].pc = "delete" /\ RowLocked(aim[d])
    \/ purge[d].pc = "row" /\ aim[d] \in held
    \/ purge[d].pc = "capability" /\ ClaimLocked(ask[aim[d]].key)

EditorWaits(e) ==
    /\ edit[e].pc = "flush"
    /\ \/ job[e].sid \in ServicesHeld
       \/ job[e].op = "delete" /\ job[e].sid \in Awaited

PostWaits(p) ==
    \/ /\ post[p].pc = "consume" /\ letter[p].token = "right"
       /\ letter[p].about \in CapabilitiesHeld \/ Purging(letter[p].about, {"capability"})
    \/ post[p].pc = "insert" /\ RowLocked(letter[p].about)

ClerkWaits(c) == clerk[c].pc = "delete" /\ RowLocked(target[c])

IntakeBusy ==
    \/ \E r \in Requests : Busy(req[r].pc)
    \/ \E d \in Purgers : Busy(purge[d].pc)
    \/ \E e \in Editors : Busy(edit[e].pc)

IntakeMoves(held) ==
    \/ \E r \in Requests : Busy(req[r].pc) /\ ~RequestWaits(r)
    \/ \E d \in Purgers : Busy(purge[d].pc) /\ ~PurgerWaits(d, held)
    \/ \E e \in Editors : Busy(edit[e].pc) /\ ~EditorWaits(e)

SubmissionsBusy ==
    \/ \E p \in Posts : Busy(post[p].pc)
    \/ \E c \in Clerks : Busy(clerk[c].pc)

SubmissionsMove ==
    \/ \E p \in Posts : Busy(post[p].pc) /\ ~PostWaits(p)
    \/ \E c \in Clerks : Busy(clerk[c].pc) /\ ~ClerkWaits(c)

SomebodyGoesOn == IntakeBusy => IntakeMoves({})

OnlyDeadlock ==
    IntakeBusy \/ SubmissionsBusy =>
        \/ IntakeMoves(CapabilitiesHeld) \/ SubmissionsMove
        \/ \E p \in Posts, d \in Purgers : Deadlocked(p, d)

\* The steps of a call, in the order it takes them.
Stage == [idle |-> 0,
          claim |-> 1, delete |-> 1, flush |-> 1, consume |-> 1,
          service |-> 2, replay |-> 2, row |-> 2, insert |-> 2,
          commit |-> 3, read |-> 3, capability |-> 3,
          refresh |-> 4, reread |-> 4, done |-> 5]

Onward ==
    /\ \A r \in Requests : req'[r] # req[r] => Stage[req[r].pc] < Stage[req'[r].pc]
    /\ \A d \in Purgers : purge'[d] # purge[d] => Stage[purge[d].pc] < Stage[purge'[d].pc]
    /\ \A e \in Editors : edit'[e] # edit[e] => Stage[edit[e].pc] < Stage[edit'[e].pc]
    /\ \A p \in Posts : post'[p] # post[p] => Stage[post[p].pc] < Stage[post'[p].pc]
    /\ \A c \in Clerks : clerk'[c] # clerk[c] => Stage[clerk[c].pc] < Stage[clerk'[c].pc]

LEMMA HoldersMove ==
    ASSUME IntakeTypeOK, NEW held, IntakeBusy, ~IntakeMoves(held)
    PROVE  /\ \A r \in Requests : ~Busy(req[r].pc)
           /\ \E d \in Purgers : purge[d].pc = "row" /\ aim[d] \in held
  <1> USE DEF Busy
  <1>1. /\ \A r \in Requests : req[r].pc \in {"idle", "claim", "service", "commit", "refresh",
                                             "replay", "read", "reread", "done"}
        /\ \A d \in Purgers : purge[d].pc \in {"idle", "delete", "row", "capability", "done"}
        /\ \A e \in Editors : edit[e].pc \in {"idle", "flush", "refresh", "done"}
    BY DEF IntakeTypeOK, CatalogTypeOK, Request, Purge, Edit
  \* Who commits or reads waits for nobody, so nobody waits for him.
  <1>2. \A r \in Requests : ~At(r, {"commit", "refresh", "read", "reread"})
    BY DEF IntakeMoves, RequestWaits, At
  <1>3. ServicesHeld = {} /\ \A k : ~ClaimLocked(k)
    BY <1>2 DEF ServicesHeld, ClaimLocked, At
  <1>4. \A r \in Requests : ~At(r, {"service", "replay"})
    BY <1>3 DEF IntakeMoves, RequestWaits, At
  <1>5. \A k : ~KeyHeld(k)
    BY <1>2, <1>4 DEF KeyHeld, At
  <1>6. \A r \in Requests : ~At(r, {"claim"})
    BY <1>5 DEF IntakeMoves, RequestWaits, At
  <1>7. \A r \in Requests : ~Busy(req[r].pc)
    BY <1>1, <1>2, <1>4, <1>6 DEF At
  <1>8. \A d \in Purgers : purge[d].pc # "capability"
    BY <1>3 DEF IntakeMoves, PurgerWaits
  <1>9. SUFFICES ASSUME \A d \in Purgers : purge[d].pc # "row" PROVE FALSE
    BY <1>7 DEF IntakeMoves, PurgerWaits
  <1>10. (\A r : ~RowLocked(r)) /\ Awaited = {}
    BY <1>8, <1>9 DEF RowLocked, Awaited
  <1>11. \A d \in Purgers : ~Busy(purge[d].pc)
    BY <1>1, <1>8, <1>9, <1>10 DEF IntakeMoves, PurgerWaits
  <1>12. \A e \in Editors : ~Busy(edit[e].pc)
    BY <1>1, <1>3, <1>10 DEF IntakeMoves, EditorWaits
  <1> QED
    BY <1>7, <1>11, <1>12 DEF IntakeBusy

(* Of the orders, deletions and edits that are under way there is always one *)
(* that waits for nobody: no chain of waits closes, for any number of calls  *)
(* and whatever they hold (crud/application.py, crud/admin_setting.py).      *)
THEOREM NoWaitCloses == IntakeSpec => []SomebodyGoesOn
  <1>1. IntakeTypeOK => SomebodyGoesOn
    BY HoldersMove DEF SomebodyGoesOn
  <1> QED
    BY <1>1, TypeCorrect, PTL

(* With the submissions there is one way to close it, the two rows that a    *)
(* submission and a deletion of its order take in opposite order: when all   *)
(* calls wait, such a pair, which the deadlock detector ends, is among them  *)
(* (routes/behavior_metrics.py).                                             *)
THEOREM OnlyOneDeadlock == MetricSpec => []OnlyDeadlock
  <1>1. MetricTypeOK => OnlyDeadlock
    <2> SUFFICES ASSUME MetricTypeOK, IntakeBusy \/ SubmissionsBusy,
                        ~IntakeMoves(CapabilitiesHeld), ~SubmissionsMove
                 PROVE  \E p \in Posts, d \in Purgers : Deadlocked(p, d)
      BY DEF OnlyDeadlock
    <2> USE DEF Busy
    <2>0. /\ \A p \in Posts : post[p].pc \in {"idle", "consume", "insert", "refresh", "done"}
          /\ \A c \in Clerks : clerk[c].pc \in {"idle", "delete", "done"}
          /\ IntakeTypeOK
      BY DEF MetricTypeOK, Post, Clerk
    <2>1. CASE IntakeBusy
      <3>1. PICK d \in Purgers : purge[d].pc = "row" /\ aim[d] \in CapabilitiesHeld
        BY <2>0, <2>1, HoldersMove
      <3>2. PICK p \in Posts : post[p].pc = "insert" /\ letter[p].about = aim[d]
        BY <3>1 DEF CapabilitiesHeld
      <3> QED
        BY <3>1, <3>2 DEF Deadlocked
    <2>2. CASE ~IntakeBusy
      <3>1. (\A r : ~RowLocked(r)) /\ (\A r : ~Purging(r, {"capability"}))
        BY <2>2 DEF IntakeBusy, RowLocked, Purging
      <3>2. \A p \in Posts : post[p].pc # "insert"
        BY <3>1 DEF SubmissionsMove, PostWaits
      <3>3. CapabilitiesHeld = {}
        BY <3>2 DEF CapabilitiesHeld
      <3>4. \A p \in Posts : ~Busy(post[p].pc)
        BY <2>0, <3>1, <3>2, <3>3 DEF SubmissionsMove, PostWaits
      <3>5. \A c \in Clerks : ~Busy(clerk[c].pc)
        BY <2>0, <3>1 DEF SubmissionsMove, ClerkWaits
      <3> QED
        BY <2>2, <3>4, <3>5 DEF SubmissionsBusy
    <2> QED
      BY <2>1, <2>2
  <1> QED
    BY <1>1, MetricTypes, PTL

LEMMA RequestsOnward ==
    ASSUME IntakeTypeOK, NEW r \in Requests, ClientStep(r) \/ ClientFail(r), NEW q \in Requests
    PROVE  req'[q] # req[q] => Stage[req[q].pc] < Stage[req'[q].pc]
  <1>1. req \in [Requests -> Request]
    BY DEF IntakeTypeOK
  <1>2. CASE ClientStep(r)
    BY <1>1, <1>2 DEF ClientStep, RequestStep, Arrive, InsertClaim, LockService, CommitOrder,
       RefreshOrder, LockClaim, ReadOriginal, RefreshOriginal, Stop, Go, At, Stage, Request
  <1>3. CASE ClientFail(r)
    BY <1>1, <1>3 DEF ClientFail, FailRequest, Stop, At, Stage, Request
  <1> QED
    BY <1>2, <1>3

LEMMA PurgersOnward ==
    ASSUME IntakeTypeOK, NEW d \in Purgers, NEW held, PurgerStep(d, held) \/ PurgerFail(d),
           NEW c \in Purgers
    PROVE  purge'[c] # purge[c] => Stage[purge[c].pc] < Stage[purge'[c].pc]
  <1>1. purge \in [Purgers -> Purge]
    BY DEF IntakeTypeOK
  <1> QED
    BY <1>1 DEF PurgerStep, PurgerFail, PurgeStep, LoadOrder, DeleteRow, CascadeCapability,
       CommitPurge, FailPurge, StopPurge, GoPurge, Stage, Purge

LEMMA EditorsOnward ==
    ASSUME IntakeTypeOK, NEW e \in Editors, AdminStep(e) \/ AdminFail(e), NEW d \in Editors
    PROVE  edit'[d] # edit[d] => Stage[edit[d].pc] < Stage[edit'[d].pc]
  <1>1. edit \in [Editors -> Edit]
    BY DEF IntakeTypeOK, CatalogTypeOK
  <1> QED
    BY <1>1 DEF AdminStep, AdminFail, EditorStep, Create, LoadPatch, LoadDelete, FlushPatch,
       FlushDelete, Refresh, FailEdit, Answer, GoOn, Stage, Edit

LEMMA PostsOnward ==
    ASSUME MetricTypeOK, NEW p \in Posts, SubmitStep(p) \/ SubmitFail(p), NEW q \in Posts
    PROVE  post'[q] # post[q] => Stage[post[q].pc] < Stage[post'[q].pc]
  <1>1. post \in [Posts -> Post]
    BY DEF MetricTypeOK
  <1> QED
    BY <1>1 DEF SubmitStep, SubmitFail, PostStep, Send, Consume, InsertMetric, RefreshMetric,
       FailPost, EndPost, GoPost, Stage, Post

LEMMA ClerksOnward ==
    ASSUME MetricTypeOK, NEW c \in Clerks, DeleteMetric(c) \/ DeleteMetricFail(c),
           NEW b \in Clerks
    PROVE  clerk'[b] # clerk[b] => Stage[clerk[b].pc] < Stage[clerk'[b].pc]
  <1>1. clerk \in [Clerks -> Clerk]
    BY DEF MetricTypeOK
  <1> QED
    BY <1>1 DEF DeleteMetric, DeleteMetricFail, ClerkStep, FailClerk, Stage, Clerk

(* No call ever goes back or begins anew: every step it takes, the last of   *)
(* them a failure or the victim of a deadlock, brings it closer to its       *)
(* answer, so a call takes five steps at most.                               *)
THEOREM CallsGoForward == MetricSpec => [][Onward]_submissionVars
  <1>1. MetricTypeOK /\ [MetricNext]_submissionVars => [Onward]_submissionVars
    <2> SUFFICES ASSUME MetricTypeOK, MetricNext PROVE Onward
      OBVIOUS
    <2>0. IntakeTypeOK
      BY DEF MetricTypeOK
    <2>1. ASSUME NEW r \in Requests, ClientStep(r) \/ ClientFail(r), UNCHANGED metricVars
          PROVE  Onward
      BY <2>0, <2>1, RequestsOnward DEF Onward, ClientStep, ClientFail, metricVars
    <2>2. ASSUME NEW e \in Editors, AdminStep(e) \/ AdminFail(e), UNCHANGED metricVars
          PROVE  Onward
      BY <2>0, <2>2, EditorsOnward DEF Onward, AdminStep, AdminFail, orderVars, metricVars
    <2>3. ASSUME NEW d \in Purgers, PurgeOrder(d) \/ (PurgerFail(d) /\ UNCHANGED metricVars)
          PROVE  Onward
      <3>1. PurgerStep(d, CapabilitiesHeld) \/ PurgerFail(d)
        BY <2>3 DEF PurgeOrder
      <3>2. UNCHANGED <<req, edit, post, clerk>>
        BY <2>3 DEF PurgeOrder, PurgerStep, PurgerFail, metricVars
      <3> QED
        BY <2>0, <3>1, <3>2, PurgersOnward DEF Onward
    <2>4. ASSUME NEW p \in Posts, SubmitStep(p) \/ SubmitFail(p)
          PROVE  Onward
      BY <2>4, PostsOnward DEF Onward, SubmitStep, SubmitFail
    <2>5. ASSUME NEW c \in Clerks, DeleteMetric(c) \/ DeleteMetricFail(c)
          PROVE  Onward
      BY <2>5, ClerksOnward DEF Onward, DeleteMetric, DeleteMetricFail
    <2>6. ASSUME NEW p \in Posts, NEW d \in Purgers, BreakDeadlock(p, d)
          PROVE  Onward
      <3>1. post \in [Posts -> Post] /\ purge \in [Purgers -> Purge]
        BY <2>0 DEF MetricTypeOK, IntakeTypeOK
      <3> QED
        BY <2>6, <3>1 DEF Onward, BreakDeadlock, AbortPost, AbortPurge, Deadlocked, EndPost,
           StopPurge, Stage
    <2>7. CASE MetricTerminating
      BY <2>7 DEF MetricTerminating, submissionVars, Onward
    <2> QED
      BY <2>1, <2>2, <2>3, <2>4, <2>5, <2>6, <2>7 DEF MetricNext
  <1> QED
    BY <1>1, MetricTypes, PTL DEF MetricSpec
=============================================================================
