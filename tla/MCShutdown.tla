---------------------------- MODULE MCShutdown ----------------------------
(***************************************************************************)
(* Shutdown for TLC: two users with one connection each, who only come and *)
(* go, so that nothing but the shutdown can end the server.                *)
(***************************************************************************)
EXTENDS Shutdown, MCHub
=============================================================================
