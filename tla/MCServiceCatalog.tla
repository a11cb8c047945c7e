-------------------------- MODULE MCServiceCatalog --------------------------
(***************************************************************************)
(* An instance of ServiceCatalog for TLC: two admins save the form of one  *)
(* service, which sends the whole row, both bounds included.               *)
(***************************************************************************)
EXTENDS ServiceCatalog

CONSTANTS s1, e1, e2

WholeRow(active, min, max) ==
    [op |-> "patch", sid |-> s1, cols |-> Columns,
     val |-> [named |-> TRUE, active |-> active, min |-> min, max |-> max]]

WholeRowJobs == {WholeRow(TRUE, 0, 1), WholeRow(TRUE, 2, 2), WholeRow(FALSE, 0, 2)}
=============================================================================
