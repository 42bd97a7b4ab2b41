---------------------------- MODULE MCDetection ----------------------------
(***************************************************************************)
(* Detection on small instances.                                           *)
(***************************************************************************)
EXTENDS Detection, TLC

CONSTANTS gis, root,        \* accounts
          k1, k2,           \* idempotency keys
          coarse, fine,     \* one proposal, two tolerances
          home, next_door,  \* the proposal's parcel and a neighbour
          c1, c2, c3

OneAccount == [c \in Call |-> gis]
OneKey     == [c \in Call |-> k1]
OneRequest == [c \in Call |-> coarse]
OneSubject == [r \in Request |-> home]

\* Two attempts at one request, and a key reused for another one.
RetryAndReuse == (c1 :> coarse) @@ (c2 :> coarse) @@ (c3 :> fine)

\* One row on the boundaries first read, two when the neighbour has moved,
\* none when the parcel itself has.
CountByVersion(r, v) == IF v[next_door] = 2 THEN 2 ELSE IF v[home] = 1 THEN 1 ELSE 0
=============================================================================
