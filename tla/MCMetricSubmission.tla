------------------------- MODULE MCMetricSubmission -------------------------
(***************************************************************************)
(* Instances of MetricSubmission for TLC: one order and the submissions,   *)
(* purgers and clerks that meet on it.                                     *)
(***************************************************************************)
EXTENDS MetricSubmission

CONSTANTS s1, e1, r1, r2, d1, d2, p1, p2, c1

\* Orders without a key, for the only service.
PlainAsks == {[key |-> NoKey, sid |-> s1, budget |-> 1, spelling |-> "plain"]}

\* Submissions with the token of the order, with another one, or with none.
AllLetters == [about : Requests, token : {"right", "wrong", "none"}]

\* Admins leave the service alone here.
NoJobs == {[op |-> "delete", sid |-> s1, cols |-> {},
            val |-> [named |-> TRUE, active |-> TRUE, min |-> 0, max |-> 0]]}

MCMetricInit ==
    /\ MetricInit
    /\ setting[s1] = [status |-> "live",
                      row |-> [named |-> TRUE, active |-> TRUE, min |-> 1, max |-> 2]]

MCMetricSpec == MCMetricInit /\ [][MetricNext]_submissionVars /\ MetricFairness
=============================================================================
