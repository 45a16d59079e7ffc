------------------------------- MODULE MCHub -------------------------------
(***************************************************************************)
(* Hub for TLC: connections and users of small instances.                  *)
(***************************************************************************)
EXTENDS Hub, TLC

CONSTANTS c1, c2, c3, u

(* Every connection is another user's, named like the connection. *)
OwnName == [c \in Conns |-> c]

(* c1 and c2 are two sessions of one user, c3 is another user's. *)
SharedUser == [c \in Conns |-> IF c = c3 THEN c3 ELSE u]

Twins == Permutations({c1, c2})

AllUsersGroup == {Users}

(* How many frames each client sends. *)
TwoFromC1 == [c \in Conns |-> IF c = c1 THEN 2 ELSE 0]
NoFrames  == [c \in Conns |-> 0]

(* Every client has come, is on the map and has read its welcome. *)
InitServing ==
  /\ pc = [c \in Conns |-> "reading"]
  /\ writer = [c \in Conns |-> "running"]
  /\ clients = [v \in Users |-> CHOOSE c \in Conns : UserOf[c] = v]
  /\ hub = AtSelect
  /\ registerQ = <<>> /\ unregisterQ = <<>> /\ routeQ = <<>>
  /\ send = [c \in Conns |-> <<>>]
  /\ closed = [c \in Conns |-> FALSE]
  /\ job = [c \in Conns |-> Notice({})]
  /\ todo = [c \in Conns |-> {}]
  /\ frames = [c \in Conns |-> 0]
  /\ sent = [c \in Conns |-> <<>>]
  /\ got = [c \in Conns |-> [s \in Conns |-> [l \in Lanes |-> <<>>]]]
  /\ panicked = FALSE

ServingSpec == InitServing /\ [][Next]_vars
=============================================================================
