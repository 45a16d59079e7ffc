----------------------------- MODULE Presence -----------------------------
(***************************************************************************)
(* Hub together with what the clients make of the online lists they are    *)
(* sent: App.handleIncoming replaces its whole online set by each          *)
(* user_list_resp it receives, so the last one written is what the sidebar *)
(* shows.                                                                  *)
(***************************************************************************)
EXTENDS Hub

VARIABLE view   \* view[c]: the users c's client shows as online

(* c's writer puts a user_list_resp on the wire in this step. *)
WritesList(c) ==
  /\ send[c] # <<>> /\ Head(send[c]).kind = "list"
  /\ send'[c] = Tail(send[c]) /\ writer'[c] = "running"

PInit == Init /\ view = [c \in Conns |-> {}]

PNext ==
  /\ Next
  /\ view' = [c \in Conns |-> IF WritesList(c) THEN Head(send[c]).names ELSE view[c]]

PSpec == PInit /\ [][PNext]_<<vars, view>>

(* Nothing is under way: the hub has emptied its queues, every handler waits *)
(* for its client and every buffer was written out.                          *)
Settled ==
  /\ HubQuiet
  /\ \A c \in Conns : pc[c] \in {"idle", "reading", "done"}
  /\ \A c \in Conns : pc[c] = "reading" => writer[c] = "running" /\ send[c] = <<>>

(* "notify everyone that someone went offline" (client_handler.go:33): when  *)
(* nothing is under way, no client shows a user as online who has left.      *)
OfflineIsAnnounced ==
  Settled => \A c \in Conns : pc[c] = "reading" => view[c] \subseteq Online
=============================================================================
