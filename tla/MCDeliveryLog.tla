---------------------------- MODULE MCDeliveryLog ----------------------------
(* Small instances of DeliveryLog. *)
EXTENDS DeliveryLog, TLC

\* A small and a large event.
MCSizeOf == [e \in Events |-> IF e = CHOOSE x \in Events : TRUE THEN 1 ELSE 2]

\* 0 s, just short of 2 s, and 2 s: either side of the retention test
\* `(now - ts) / 1000 > 1`.
MCTimes == {0, 1999, 2000}
MCStill == {0}

MCSymmetry == Permutations(Tasks)
=============================================================================
