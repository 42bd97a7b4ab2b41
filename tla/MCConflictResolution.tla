------------------------ MODULE MCConflictResolution ------------------------
(***************************************************************************)
(* ConflictResolution on small instances.                                  *)
(***************************************************************************)
EXTENDS ConflictResolution, TLC

CONSTANTS gus, ray, rita, root,   \* an analyst, two reviewers, an administrator
          p1, p2, p3, q1, s1, k1, d1, d2

PanelRoles == (gus :> "gis_analyst") @@ (ray :> "reviewer") @@ (rita :> "reviewer")
ChiefRoles == (root :> "admin") @@ (ray :> "reviewer")

RaceSymmetry == Permutations({d1, d2}) \cup Permutations({p1, p2, p3})
=============================================================================
