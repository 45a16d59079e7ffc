---------------------------- MODULE MCPresence ----------------------------
(***************************************************************************)
(* Presence for TLC: two users with one connection each, who only come and *)
(* go, from the beginning or from the time when both are served and each   *)
(* client shows both.                                                      *)
(***************************************************************************)
EXTENDS Presence, MCHub

PServingSpec ==
  /\ InitServing /\ view = [c \in Conns |-> Online]
  /\ [][PNext]_<<vars, view>>
=============================================================================
