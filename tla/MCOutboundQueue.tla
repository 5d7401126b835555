--------------------------- MODULE MCOutboundQueue ---------------------------
(* Small instances of OutboundQueue. *)
EXTENDS OutboundQueue

\* Frames that fit, that need evictions, and one over the budget of 3 bytes.
MCSizes == {1, 3, 4}
=============================================================================
