------------------------ MODULE MCPersonalityTraits ------------------------
(* A useful success, a surprising failure, a useless success of a strategy  *)
(* the user rejects, and a report that was never validated.                 *)
EXTENDS PersonalityTraits

CONSTANTS a1, a2

MCAgent == {a1, a2}

Reported(success, usefulness, prediction_correct, user_accepted, validated) ==
  [success |-> success, usefulness |-> usefulness,
   prediction_correct |-> prediction_correct, user_accepted |-> user_accepted,
   validated |-> validated]

MCOutcome == {Reported(TRUE, 90, TRUE, TRUE, TRUE), Reported(FALSE, 20, FALSE, FALSE, TRUE),
              Reported(TRUE, 10, TRUE, FALSE, TRUE), Reported(FALSE, 50, TRUE, TRUE, FALSE)}
=============================================================================
