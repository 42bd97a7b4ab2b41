----------------------- MODULE MCObservationEvidence -----------------------
(***************************************************************************)
(* ObservationEvidence on small instances.                                 *)
(***************************************************************************)
EXTENDS ObservationEvidence, TLC

CONSTANTS ann, o1, o2, o3, q1, q2, s1, s2

OneSurveyor == [a \in Actor |-> "surveyor"]

ObservationSymmetry ==
    Permutations({o1, o2, o3}) \cup Permutations({q1, q2}) \cup Permutations({s1, s2})
=============================================================================
