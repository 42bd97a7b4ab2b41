----------------------------- MODULE MCSession -----------------------------
(***************************************************************************)
(* Sessions and starts on a small instance.                                *)
(***************************************************************************)
EXTENDS Session, TLC

CONSTANTS i1, i2, c1, lot

\* Demoted to a role that edits nothing, or deactivated.
Demotions == {[role |-> "auditor", active |-> TRUE], [role |-> "surveyor", active |-> FALSE]}

TwoSeeds == <<"surveyor", "reviewer">>
=============================================================================
