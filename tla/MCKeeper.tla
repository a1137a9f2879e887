------------------------------- MODULE MCKeeper -------------------------------
(* Module Keeper with two places for clients, each taken again and again.  *)
EXTENDS Keeper

MCClients == {"a", "b"}
=============================================================================
