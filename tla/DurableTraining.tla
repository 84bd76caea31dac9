-------------------------- MODULE DurableTraining ---------------------------
(***************************************************************************)
(* What saving and resuming promise a training run: the run is as good as  *)
(* one whose checkpoints are atomic.  `updates` counts the optimizer       *)
(* updates in the weights, `durable` those a crash cannot take back.       *)
(***************************************************************************)
EXTENDS Integers

VARIABLES updates, durable

vars == <<updates, durable>>

Init == updates = 0 /\ durable = 0

Update ==
    /\ updates' = updates + 1
    /\ UNCHANGED durable

Save ==
    /\ durable' = updates
    /\ UNCHANGED updates

(* Everything since the last save is lost, nothing else is. *)
Crash ==
    /\ updates' = durable
    /\ UNCHANGED durable

Next == Update \/ Save \/ Crash

Spec == Init /\ [][Next]_vars
=============================================================================
