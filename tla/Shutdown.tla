----------------------------- MODULE Shutdown -----------------------------
(***************************************************************************)
(* Hub together with Server.handleSignals and Server.shutdown: on SIGTERM  *)
(* the main goroutine goes over the map under RLock and starts a goroutine *)
(* per client that offers him the notice; when they are all done it closes *)
(* the listener and the program ends, whatever the others are doing.  The  *)
(* notices are offered with or without RLock held, as the scheduler likes: *)
(* those offered early are the same as if offered right after RUnlock.     *)
(***************************************************************************)
EXTENDS Hub

VARIABLES
  phase,   \* of the main goroutine: "serving", "notifying" or "stopped"
  notices  \* the clients whose notice was not yet offered

shutdownVars == <<phase, notices>>

SInit == Init /\ phase = "serving" /\ notices = {}

(* RLock, the loop, RUnlock. *)
ShutdownLock ==
  /\ phase = "serving" /\ CanRLock
  /\ phase' = "notifying" /\ notices' = Registered(Users)
  /\ UNCHANGED vars

Notify(c) ==
  /\ c \in notices /\ notices' = notices \ {c}
  /\ Offer(c, Notice({}))
  /\ UNCHANGED <<phase, handlerVars, hubVars, wireVars>>

(* wg.Wait returns; nobody waits for the writers. *)
ShutdownReturn ==
  /\ phase = "notifying" /\ notices = {}
  /\ phase' = "stopped"
  /\ UNCHANGED <<notices, vars>>

SNext ==
  \/ phase # "stopped" /\ Next /\ UNCHANGED shutdownVars
  \/ ~panicked /\ (ShutdownLock \/ ShutdownReturn \/ \E c \in Conns : Notify(c))
  \/ phase = "stopped" /\ UNCHANGED <<vars, shutdownVars>>

SSpec == SInit /\ [][SNext]_<<vars, shutdownVars>>

(* "On SIGTERM/SIGINT it sends a shutdown notice to all clients and exits    *)
(* cleanly" (server.go:52): the notices do not crash the server.             *)
ExitsCleanly == phase # "serving" => ~panicked
=============================================================================
