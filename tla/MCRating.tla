------------------------------ MODULE MCRating ------------------------------
(***************************************************************************)
(* TLC instance of Rating and RatingDecision.  They share no variable: a   *)
(* decision uses of an assessment only that a completed row stays as it    *)
(* is.  Whatever one of them reaches it also reaches with the other still  *)
(* in its initial state, so only those states are explored.                *)
(***************************************************************************)
EXTENDS Rating, RatingDecision

MCInit == Init /\ DecisionInit

MCNext ==
    \/ DecisionInit /\ Next /\ UNCHANGED decisionVars
    \/ Init /\ DecisionNext /\ UNCHANGED vars

MCSpec == MCInit /\ [][MCNext]_<<vars, decisionVars>> /\ Fairness
=============================================================================
