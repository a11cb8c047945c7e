---------------------------- MODULE MCOrderIntake ---------------------------
(***************************************************************************)
(* Instances of OrderIntake for TLC: one service, one key.                 *)
(***************************************************************************)
EXTENDS OrderIntake

CONSTANTS s1, e1, e2, r1, r2, r3, d1, k1

MCServices == {s1}
MCKeys == {k1}

Asking(key, budget, spelling) ==
    [key |-> key, sid |-> s1, budget |-> budget, spelling |-> spelling]

\* The same order under one key in two spellings, and another order.
Plain == Asking(k1, 1, "plain")
KeyedAsks == {Plain, Asking(k1, 1, "padded"), Asking(k1, 2, "plain")}

\* And orders without a usable header.
Keyless == Asking(NoKey, 2, "plain")
Malformed == Asking(BadKey, 1, "plain")
MCAsks == KeyedAsks \union {Keyless, Malformed}

R(named, active, min, max) ==
    [named |-> named, active |-> active, min |-> min, max |-> max]
Patch(cols, val) == [op |-> "patch", sid |-> s1, cols |-> cols, val |-> val]
Remove == [op |-> "delete", sid |-> s1, cols |-> {}, val |-> R(TRUE, TRUE, 0, 0)]
Add == [op |-> "create", sid |-> s1, cols |-> Columns, val |-> R(TRUE, TRUE, 1, 2)]

\* What an admin may do to a service while orders for it arrive.
OrderTimeJobs == {Remove, Add, Patch({"max"}, R(TRUE, TRUE, 0, 1)),
                  Patch({"min"}, R(TRUE, TRUE, 2, 0)), Patch({"active"}, R(TRUE, FALSE, 0, 0))}

\* What two admins may do to it at once: no PATCH moves the lower bound.
UpperBoundJobs ==
    {Remove, Add, Patch({"max"}, R(TRUE, TRUE, 0, 0)), Patch({"max"}, R(TRUE, TRUE, 0, 2)),
     Patch({"max", "active"}, R(TRUE, FALSE, 0, 1)),
     Patch({"named", "active"}, R(TRUE, TRUE, 0, 0))}

AdminJobs == OrderTimeJobs \union UpperBoundJobs

\* The service as the form offers it, one that is switched off, and one whose
\* name is blank; or not created yet.
Offered == R(TRUE, TRUE, 1, 2)
Rows == {Offered, R(TRUE, TRUE, 1, 1), R(TRUE, FALSE, 1, 2), R(FALSE, TRUE, 1, 2)}

\* The admin requests that have nothing to do while the service is there.
Resting(es) == \A e \in es : job[e] = Add

\* Three orders under the key and no admin: the service is there already.
Rush ==
    /\ setting[s1].row = Offered /\ Resting({e1, e2})
    /\ {ask[r1], ask[r2], ask[r3]} \subseteq KeyedAsks /\ ask[r1] = Plain /\ ask[r2].budget = 1

\* Two orders with or without a key and an admin; the third order is malformed.
Mixed ==
    /\ IF Live(s1) THEN setting[s1].row \in Rows ELSE job[e1] = Add
    /\ job[e1] \in OrderTimeJobs /\ Resting({e2})
    /\ {ask[r1], ask[r2]} \subseteq {Plain, Keyless} /\ ask[r3] = Malformed
    /\ aim[d1] = r1

\* Two admins, and no order but malformed ones.
Admins ==
    /\ Live(s1) => setting[s1].row \in {Offered, R(FALSE, FALSE, 1, 2)}
    /\ {job[e1], job[e2]} \subseteq UpperBoundJobs
    /\ {ask[r1], ask[r2], ask[r3]} = {Malformed} /\ aim[d1] = r1

MCInit == IntakeInit /\ (Rush \/ Mixed \/ Admins)
MCSpec == MCInit /\ [][IntakeNext]_intakeVars /\ IntakeFairness
=============================================================================
