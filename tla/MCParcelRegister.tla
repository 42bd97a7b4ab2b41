-------------------------- MODULE MCParcelRegister --------------------------
(***************************************************************************)
(* ParcelRegister on small instances.                                      *)
(***************************************************************************)
EXTENDS ParcelRegister, TLC

CONSTANTS p1, p2, n1, name, boundary, old, new, s1, s2

RegisterSymmetry ==
    UNION {Permutations({p1, p2}), Permutations({s1, s2}),
           Permutations({name, boundary}), Permutations({old, new})}
=============================================================================
