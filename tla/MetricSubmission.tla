-------------------------- MODULE MetricSubmission --------------------------
(***************************************************************************)
(* POST /behavior-metrics, the one submission that the capability of an    *)
(* order authorizes, and DELETE /behavior-metrics/{id}                     *)
(* (backend/app/routes/behavior_metrics.py, crud/behavior_metric.py and    *)
(* crud/application_behavior_capability.py), beside the intake.            *)
(*                                                                         *)
(* A submission consumes the capability and inserts the metric in one      *)
(* transaction: it holds the capability row from the first statement to    *)
(* the commit, and its INSERT waits for the order's row when that is under *)
(* deletion.  A purger takes the two rows the other way round, so here two *)
(* transactions can wait for each other and PostgreSQL ends one of them.   *)
(*                                                                         *)
(* The metric of an order is known by the request that placed the order.   *)
(* PATCH /behavior-metrics/{id} writes the content only and is left out.   *)
(***************************************************************************)
EXTENDS OrderIntake

CONSTANTS
    Posts,      \* POST /behavior-metrics calls
    Clerks,     \* DELETE /behavior-metrics/{id} calls
    Letters     \* what a submission may carry

Letter == [about : Requests, token : {"right", "wrong", "none"}]

ASSUME LettersAssumption == Letters \subseteq Letter

VARIABLES
    letter,     \* what each submission carries; never changes
    post,       \* how far each submission has come
    metric,     \* behavior_metrics, by the order it belongs to, as committed
    target,     \* the metric each clerk deletes, by its order; never changes
    clerk       \* how far each clerk has come

metricVars == <<letter, post, metric, target, clerk>>
submissionVars == <<setting, job, edit, ask, req, order, cap, claim, aim, purge,
                    letter, post, metric, target, clerk>>

Post == [pc : {"idle", "consume", "insert", "refresh", "done"},
         reply : {"none", "ok", "denied", "conflict", "deadlock", "error"}]
Clerk == [pc : {"idle", "delete", "done"}, reply : {"none", "ok", "missing", "error"}]

MetricTypeOK ==
    /\ IntakeTypeOK
    /\ letter \in [Posts -> Letters]
    /\ post \in [Posts -> Post]
    /\ metric \in [Requests -> {"none", "live", "gone"}]
    /\ target \in [Clerks -> Requests]
    /\ clerk \in [Clerks -> Clerk]

\* Mutant: the capability read first and marked as used later.
NoCapabilities == {}

\* Mutant: a failed submission whose session is never closed.
CapabilitiesLeaked ==
    {letter[p].about : p \in {q \in Posts : post[q].pc = "insert" \/ post[q].reply = "error"}}

\* Orders whose capability row an uncommitted submission has marked as used.
CapabilitiesHeld == {letter[p].about : p \in {q \in Posts : post[q].pc = "insert"}}

\* The order a purger holds, with or without the capability.
Purging(r, pcs) == \E d \in Purgers : aim[d] = r /\ purge[d].pc \in pcs

\* Mutant: any live order's capability matches, used or not.
AuthorizesUsed(p) == letter[p].token = "right" /\ cap[letter[p].about] # "none"

\* The WHERE clause of try_consume_capability.
Authorizes(p) == letter[p].token = "right" /\ cap[letter[p].about] = "fresh"

-----------------------------------------------------------------------------
(* POST /behavior-metrics.                                                   *)

EndPost(p, reply) == post' = [post EXCEPT ![p] = [pc |-> "done", reply |-> reply]]
GoPost(p, pc) == post' = [post EXCEPT ![p].pc = pc]

\* Only the answer to the request that placed the order carries its token.
Send(p) ==
    /\ post[p].pc = "idle"
    /\ letter[p].token = "right" => req[letter[p].about].reply = "created"
    /\ IF letter[p].token = "none" THEN EndPost(p, "denied") ELSE GoPost(p, "consume")
    /\ UNCHANGED <<cap, metric>>

\* Mutant: the capability consumed in a transaction of its own.
ConsumeAndCommit(p) ==
    LET r == letter[p].about IN
    /\ post[p].pc = "consume"
    /\ letter[p].token = "right" =>
          r \notin CapabilitiesHeld /\ ~Purging(r, {"capability"})
    /\ IF Authorizes(p)
       THEN GoPost(p, "insert") /\ cap' = [cap EXCEPT ![r] = "used"]
       ELSE EndPost(p, "denied") /\ UNCHANGED cap
    /\ UNCHANGED metric

\* try_consume_capability: an UPDATE that finds no row waits for nobody; one
\* that finds it waits for the submission or the purger that holds it and then
\* looks again.
Consume(p) ==
    LET r == letter[p].about IN
    /\ post[p].pc = "consume"
    /\ letter[p].token = "right" =>
          r \notin CapabilitiesHeld /\ ~Purging(r, {"capability"})
    /\ IF Authorizes(p) THEN GoPost(p, "insert") ELSE EndPost(p, "denied")
    /\ UNCHANGED <<cap, metric>>

\* create_behavior_metric: the foreign key check waits for a purger of the
\* order.  The metric and the mark on the capability become visible together.
InsertMetric(p) ==
    LET r == letter[p].about IN
    /\ post[p].pc = "insert"
    /\ ~RowLocked(r)
    /\ IF order[r] = "live" /\ metric[r] # "live"
       THEN /\ metric' = [metric EXCEPT ![r] = "live"]
            /\ cap' = [cap EXCEPT ![r] = "used"]
            /\ GoPost(p, "refresh")
       ELSE EndPost(p, "conflict") /\ UNCHANGED <<cap, metric>>

\* db.refresh of the new row.
RefreshMetric(p) ==
    /\ post[p].pc = "refresh"
    /\ EndPost(p, IF metric[letter[p].about] = "live" THEN "ok" ELSE "error")
    /\ UNCHANGED <<cap, metric>>

FailPost(p) ==
    /\ post[p].pc \in {"consume", "insert", "refresh"}
    /\ EndPost(p, "error")
    /\ UNCHANGED <<cap, metric>>

PostStep(p) == Send(p) \/ Consume(p) \/ InsertMetric(p) \/ RefreshMetric(p)

-----------------------------------------------------------------------------
(* Deletions.                                                                *)

\* ON DELETE CASCADE takes the metric with its order.
CascadeMetric ==
    metric' = [r \in Requests |->
                  IF order'[r] = "gone" /\ metric[r] = "live" THEN "gone" ELSE metric[r]]

\* delete_behavior_metric: load, then DELETE and COMMIT.  The purger of the
\* order holds the metric's row; no row left is only a warning.
ClerkStep(c) ==
    LET r == target[c] IN
    \/ /\ clerk[c].pc = "idle"
       /\ clerk' = [clerk EXCEPT ![c] =
            IF metric[r] = "live" THEN [pc |-> "delete", reply |-> "none"]
            ELSE [pc |-> "done", reply |-> "missing"]]
       /\ UNCHANGED metric
    \/ /\ clerk[c].pc = "delete"
       /\ ~RowLocked(r)
       /\ metric' = [metric EXCEPT ![r] = IF @ = "live" THEN "gone" ELSE @]
       /\ clerk' = [clerk EXCEPT ![c] = [pc |-> "done", reply |-> "ok"]]

FailClerk(c) ==
    /\ clerk[c].pc = "delete"
    /\ clerk' = [clerk EXCEPT ![c] = [pc |-> "done", reply |-> "error"]]
    /\ UNCHANGED metric

\* A submission waits for the order's row, its purger for the capability:
\* PostgreSQL aborts one of the two, whose caller gets a 500.
Deadlocked(p, d) ==
    /\ post[p].pc = "insert" /\ purge[d].pc = "row" /\ aim[d] = letter[p].about

AbortPost(p, d) == Deadlocked(p, d) /\ EndPost(p, "deadlock") /\ UNCHANGED purge
AbortPurge(p, d) == Deadlocked(p, d) /\ StopPurge(d, "error") /\ UNCHANGED post

BreakDeadlock(p, d) ==
    /\ AbortPost(p, d) \/ AbortPurge(p, d)
    /\ UNCHANGED <<setting, job, edit, ask, req, order, cap, claim, aim,
                   letter, metric, target, clerk>>

-----------------------------------------------------------------------------

MetricInit ==
    /\ IntakeInit
    /\ letter \in [Posts -> Letters]
    /\ post = [p \in Posts |-> [pc |-> "idle", reply |-> "none"]]
    /\ metric = [r \in Requests |-> "none"]
    /\ target \in [Clerks -> Requests]
    /\ clerk = [c \in Clerks |-> [pc |-> "idle", reply |-> "none"]]

SubmitStep(p) ==
    /\ PostStep(p)
    /\ UNCHANGED <<setting, job, edit, ask, req, order, claim, aim, purge,
                   letter, target, clerk>>
SubmitFail(p) ==
    /\ FailPost(p)
    /\ UNCHANGED <<setting, job, edit, ask, req, order, claim, aim, purge,
                   letter, target, clerk>>
PurgeOrder(d) ==
    /\ PurgerStep(d, CapabilitiesHeld) /\ CascadeMetric
    /\ UNCHANGED <<letter, post, target, clerk>>
DeleteMetric(c) ==
    /\ ClerkStep(c)
    /\ UNCHANGED <<setting, job, edit, ask, req, order, cap, claim, aim, purge,
                   letter, post, target>>
DeleteMetricFail(c) ==
    /\ FailClerk(c)
    /\ UNCHANGED <<setting, job, edit, ask, req, order, cap, claim, aim, purge,
                   letter, post, target>>

\* A submission that never got a token is never sent.
MetricTerminating ==
    /\ \A r \in Requests : At(r, {"done"})
    /\ \A d \in Purgers : purge[d].pc = "done"
    /\ \A e \in Editors : EditorQuiet(e)
    /\ \A p \in Posts : post[p].pc \in {"idle", "done"}
    /\ \A c \in Clerks : clerk[c].pc = "done"
    /\ UNCHANGED submissionVars

MetricNext ==
    \/ \E r \in Requests : (ClientStep(r) \/ ClientFail(r)) /\ UNCHANGED metricVars
    \/ \E e \in Editors : (AdminStep(e) \/ AdminFail(e)) /\ UNCHANGED metricVars
    \/ \E d \in Purgers : PurgeOrder(d) \/ (PurgerFail(d) /\ UNCHANGED metricVars)
    \/ \E p \in Posts : SubmitStep(p) \/ SubmitFail(p)
    \/ \E c \in Clerks : DeleteMetric(c) \/ DeleteMetricFail(c)
    \/ \E p \in Posts, d \in Purgers : BreakDeadlock(p, d)
    \/ MetricTerminating

\* Calls in progress go on and the deadlock detector runs; nothing says that a
\* call is sent or fails.
MetricFairness ==
    /\ \A r \in Requests :
          WF_submissionVars(~At(r, {"idle"}) /\ ClientStep(r) /\ UNCHANGED metricVars)
    /\ \A e \in Editors :
          WF_submissionVars(edit[e].pc # "idle" /\ AdminStep(e) /\ UNCHANGED metricVars)
    /\ \A d \in Purgers : WF_submissionVars(purge[d].pc # "idle" /\ PurgeOrder(d))
    /\ \A p \in Posts : WF_submissionVars(post[p].pc # "idle" /\ SubmitStep(p))
    /\ \A c \in Clerks : WF_submissionVars(clerk[c].pc # "idle" /\ DeleteMetric(c))
    /\ \A p \in Posts, d \in Purgers : WF_submissionVars(BreakDeadlock(p, d))

MetricSpec == MetricInit /\ [][MetricNext]_submissionVars /\ MetricFairness

-----------------------------------------------------------------------------
(* Properties.                                                               *)

(* One capability, one metric: after a submission has been accepted no other *)
(* one for the same order ever is, not even when an admin has deleted the    *)
(* metric in between ("a replay of the very first request" fails).           *)
SubmittedOnce ==
    [][\A r \in Requests : metric[r] = "gone" => metric'[r] = "gone"]_submissionVars

(* A capability is marked as used exactly when a metric has been accepted,   *)
(* and no metric outlives its order: neither a failed insert, an aborted     *)
(* transaction nor a cascade separates the two.                              *)
CapabilityTellsMetric ==
    \A r \in Requests :
        /\ cap[r] = "used" => metric[r] # "none"
        /\ cap[r] = "fresh" => metric[r] = "none"
        /\ metric[r] = "live" => order[r] = "live"
        /\ order[r] = "none" => metric[r] = "none"

(* The 409 of create_behavior_metric is never sent: whoever has consumed the *)
(* capability holds off every deletion and every other submission.           *)
ConflictNeverAnswered == \A p \in Posts : post[p].reply # "conflict"

(* Every submission and every deletion that has begun is answered, although  *)
(* the two take their locks in opposite orders.                              *)
MetricCallsAnswered ==
    /\ \A p \in Posts : post[p].pc # "idle" ~> post[p].pc = "done"
    /\ \A d \in Purgers : purge[d].pc # "idle" ~> purge[d].pc = "done"
    /\ \A c \in Clerks : clerk[c].pc # "idle" ~> clerk[c].pc = "done"

\* Who has consumed a capability and not committed is alone and finds the
\* order there.
ConsumersExclusive ==
    \A p \in Posts : post[p].pc = "insert" =>
        /\ letter[p].token = "right" /\ cap[letter[p].about] = "fresh"
        /\ \A q \in Posts :
              post[q].pc = "insert" /\ letter[q].about = letter[p].about => q = p
        /\ ~Purging(letter[p].about, {"capability"})

SubmissionInv == ConsumersExclusive /\ CapabilityTellsMetric /\ ConflictNeverAnswered
=============================================================================
