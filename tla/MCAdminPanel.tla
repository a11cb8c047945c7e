---------------------------- MODULE MCAdminPanel ----------------------------
(***************************************************************************)
(* Instances of AdminPanel for TLC.                                        *)
(***************************************************************************)
EXTENDS AdminPanel, TLC

CONSTANTS c1, c2, t1, t2, a1

\* A panel in which both tabs were used is looked at, and not followed further.
OneTabUsed == apps = FreshApps(FirstLevel, EmptyWord) \/ stats = FreshStats(FirstPeriod)

MCSymmetry == Permutations(Slots) \union Permutations(Tokens)
=============================================================================
