----------------------------- MODULE MCTokenSession -----------------------------
(***************************************************************************)
(* TokenSession for TLC.  Names and slots are numbers so that 0 can stand    *)
(* for none.                                                                *)
(***************************************************************************)
EXTENDS TokenSession

MCClients == {1}
MCConns == {1}
MCAdmins == 1..2
MCNames == 1..2
MCTroubles == {"fault", "reload", "edit", "stop"}
MCNone == {}
=============================================================================
