----------------------------- MODULE Vocabulary -----------------------------
(***************************************************************************)
(* The words the ParcelGraph backend shares between its layers: roles, the *)
(* two review state machines, the observation states, and the rules that   *)
(* decide who may take a step.  Everything here is a constant of the       *)
(* program; no module of the project keeps its own copy.                   *)
(***************************************************************************)

Roles == {"surveyor", "gis_analyst", "reviewer", "auditor", "admin"}

-----------------------------------------------------------------------------
(* Boundary proposals *)

ProposalStates == {"draft", "validated", "submitted", "reviewed",
                   "revision", "accepted", "rejected"}

ProposalTransitions ==
    { <<"draft", "validated">>,    <<"validated", "submitted">>,
      <<"submitted", "reviewed">>, <<"reviewed", "accepted">>,
      <<"reviewed", "rejected">>,  <<"reviewed", "revision">>,
      <<"revision", "draft">> }

\* A target outside the table is refused exactly like a forbidden one (409).
CanProposalTransition(from, to) == <<from, to>> \in ProposalTransitions

\* isProposalReviewTransition: the targets that record a reviewer.
ReviewTargets    == {"reviewed", "accepted", "rejected", "revision"}
AuthoringTargets == {"validated", "submitted", "draft"}

\* Mutant of MayTransitionProposal: the reviewer may be the author.
SelfReviewAllowed(author, to, actor, role) ==
    \/ /\ to \in AuthoringTargets
       /\ actor = author \/ role = "admin"
    \/ /\ to \in ReviewTargets
       /\ role \in {"reviewer", "admin"}

\* authorizeProposalTransition: authoring steps belong to the author or an
\* administrator, review steps to a reviewer or administrator who is not the
\* author.
MayTransitionProposal(author, to, actor, role) ==
    \/ /\ to \in AuthoringTargets
       /\ actor = author \/ role = "admin"
    \/ /\ to \in ReviewTargets
       /\ role \in {"reviewer", "admin"}
       /\ actor # author

-----------------------------------------------------------------------------
(* Topology conflicts *)

ConflictStates == {"detected", "confirmed", "false_positive",
                   "resolution_proposed", "resolved", "closed"}

ConflictTransitions ==
    { <<"detected", "confirmed">>,            <<"detected", "false_positive">>,
      <<"confirmed", "resolution_proposed">>, <<"false_positive", "closed">>,
      <<"resolution_proposed", "resolved">>,  <<"resolved", "closed">> }

CanConflictTransition(from, to) == <<from, to>> \in ConflictTransitions

\* The two targets for which TransitionConflict passes the actor on as
\* resolved_by.
ResolvingTargets == {"resolved", "closed"}

-----------------------------------------------------------------------------
(* Survey observations *)

ObservationStates == {"accepted", "rejected", "superseded"}

CanTransitionObservation(from, to) ==
    \/ from = "accepted" /\ to \in {"rejected", "superseded"}
    \/ from = "rejected" /\ to = "accepted"

-----------------------------------------------------------------------------
(* RBACMiddleware per route: the roles that reach each mutating handler. *)

EditorRoles      == {"surveyor", "gis_analyst", "admin"}
TransitionRoles  == {"surveyor", "gis_analyst", "reviewer", "admin"}
DetectionRoles   == {"gis_analyst", "admin"}
ResolutionRoles  == {"reviewer", "admin"}
=============================================================================
