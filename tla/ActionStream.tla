---------------------------- MODULE ActionStream ----------------------------
(***************************************************************************)
(* What a policy promises the robot, whichever executor serves it.         *)
(*                                                                         *)
(* The engine turns an observation into a chunk: an action for the control *)
(* step the observation was made at, one for the step after it, and so on. *)
(* The policy hands out one action per control step.  The promise is       *)
(* receding-horizon execution: the action handed out at step t comes from  *)
(* a chunk of the same episode, is the element of that chunk meant for     *)
(* step t, is less than MaxAge steps old, and never comes from an older    *)
(* observation than the action before it.                                  *)
(***************************************************************************)
EXTENDS Integers

CONSTANT MaxAge   \* actions are executed fewer than MaxAge steps after their observation

VARIABLES
    episode,     \* number of the current episode, from 1
    served,      \* actions handed out in this episode: the current control step
    delivered    \* the last action handed out, with the step it was executed at

vars == <<episode, served, delivered>>

(* Episode 0 never happens; its members mean "none". *)
Obs     == [episode : Nat, step : Nat]
NoObs   == [episode |-> 0, step |-> 0]
Nothing == [episode |-> 0, step |-> 0, obs |-> NoObs, index |-> 0]

Init ==
    /\ episode = 1
    /\ served = 0
    /\ delivered = Nothing

(* The step of the observation behind the last action of this episode. *)
LastPlan == IF delivered.episode = episode THEN delivered.obs.step ELSE 0

Deliver ==
    \E s \in LastPlan .. served :
        /\ served - s < MaxAge
        /\ delivered' = [episode |-> episode, step  |-> served,
                         obs |-> [episode |-> episode, step |-> s],
                         index |-> served - s]
        /\ served' = served + 1
        /\ UNCHANGED episode

NewEpisode ==
    /\ episode' = episode + 1
    /\ served' = 0
    /\ UNCHANGED delivered

Next == Deliver \/ NewEpisode

Spec == Init /\ [][Next]_vars
=============================================================================
