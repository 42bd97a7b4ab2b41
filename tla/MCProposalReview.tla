-------------------------- MODULE MCProposalReview --------------------------
(***************************************************************************)
(* ProposalReview on small instances.                                      *)
(***************************************************************************)
EXTENDS ProposalReview, TLC

CONSTANTS ann, ray, root,   \* accounts: a surveyor, a reviewer, an administrator
          p1, p2, q1, s1, s2

\* Roles of the two-account instance, and of the one with an administrator.
PairRoles == (ann :> "surveyor") @@ (ray :> "reviewer")
TeamRoles == PairRoles @@ (root :> "admin")

SlotSymmetry == Permutations({s1, s2})
=============================================================================
