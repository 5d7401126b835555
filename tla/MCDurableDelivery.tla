-------------------------- MODULE MCDurableDelivery --------------------------
(* Small instances of DurableDelivery. *)
EXTENDS DurableDelivery

MCSizeOf == [e \in Events |-> 1]

\* A clock that stands still, and one that reaches past a TTL of one second.
MCStill == {0}
MCTimes == {0, 2000}

MCSymmetry == Permutations(Tasks)
=============================================================================
