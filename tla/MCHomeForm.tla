----------------------------- MODULE MCHomeForm -----------------------------
(***************************************************************************)
(* Instances of HomeForm for TLC: one service or two, and an admin who     *)
(* narrows the range, switches the service off or deletes it.              *)
(***************************************************************************)
EXTENDS HomeForm

CONSTANTS s1, s2, e1

R(active, min, max) == [named |-> TRUE, active |-> active, min |-> min, max |-> max]
Patch(cols, val) == [op |-> "patch", sid |-> s1, cols |-> cols, val |-> val]
MCJobs == {Patch({"min"}, R(TRUE, 2, 2)), Patch({"active"}, R(FALSE, 0, 0)),
           [op |-> "delete", sid |-> s1, cols |-> {}, val |-> R(TRUE, 0, 0)]}

\* Services from 1 up, each on offer.
MCInit ==
    /\ HomeInit
    /\ \A s \in Services : setting[s] = [status |-> "live", row |-> R(TRUE, 1, 2)]

MCSpec == MCInit /\ [][HomeNext]_homeVars
=============================================================================
