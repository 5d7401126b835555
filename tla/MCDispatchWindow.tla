--------------------------- MODULE MCDispatchWindow ---------------------------
(* Small instances of DispatchWindow. *)
EXTENDS DispatchWindow

\* A reload switches between a narrow window with a low hang threshold and a
\* wider one.
MCLimits == {[max_in_flight |-> 1, hang_kill_threshold |-> 1],
             [max_in_flight |-> 2, hang_kill_threshold |-> 2]}
=============================================================================
