------------------------------ MODULE Accounts ------------------------------
(***************************************************************************)
(* Accounts: the users table, which survives a crash, and the server's     *)
(* index of the usernames that every list of users is made from            *)
(* (Hub.userIndex), which does not.  Here the index is the set of its      *)
(* names; IndexedAccounts has the tree.                                    *)
(*                                                                         *)
(* A session is one connection's handler.  It authenticates with a query   *)
(* of its own, then enters the name into the index; deleting the account   *)
(* marks the row, then takes the name out of the index.  Sessions          *)
(* interleave between these steps, and two may belong to one user.         *)
(***************************************************************************)
CONSTANTS
  Users,     \* usernames
  Sessions   \* connections that are open at the same time

VARIABLES
  row,         \* row[u]: users.is_deleted of u's row, or "none"
  up,          \* the server process runs
  preloaded,   \* its start read the users table
  listed,      \* the names in Hub.userIndex
  session      \* session[s]: what s's handler is doing and for whom

vars == <<row, up, preloaded, listed, session>>

Idle     == [at |-> "idle"]
At(p, u) == [at |-> p, user |-> u]

(* ListUsers. *)
Enabled == {u \in Users : row[u] = "active"}

(* A handler of u is at p, or anywhere. *)
Busy(u, p) == \E s \in Sessions : session[s] = At(p, u)
Serves(u)  == \E s \in Sessions : session[s] # Idle /\ session[s].user = u

Init ==
  /\ row = [u \in Users |-> "none"]
  /\ up = FALSE /\ preloaded = FALSE
  /\ listed = {}
  /\ session = [s \in Sessions |-> Idle]

Move(s, from, to) == session[s] = from /\ session' = [session EXCEPT ![s] = to]

-----------------------------------------------------------------------------
(* Server.Run: RegisterUser for each name ListUsers returns, before any      *)
(* connection is accepted.                                                   *)

(* Variant: without WHERE NOT is_deleted. *)
PreloadAll == {u \in Users : row[u] # "none"}

Preload == Enabled

Start ==
  /\ ~up /\ up' = TRUE
  /\ \/ listed' = Preload /\ preloaded' = TRUE
     \/ listed' = {} /\ preloaded' = FALSE      \* ListUsers failed: ignored
  /\ UNCHANGED <<row, session>>

Crash ==
  /\ up /\ up' = FALSE
  /\ listed' = {} /\ preloaded' = FALSE
  /\ session' = [s \in Sessions |-> Idle]
  /\ UNCHANGED row

(* authenticate with Register set: INSERT, refused while any row has the     *)
(* name, a deleted one too (users.username is UNIQUE).                       *)
CreateUser(s, u) ==
  /\ up /\ Move(s, Idle, At("index", u))
  /\ row[u] = "none"
  /\ row' = [row EXCEPT ![u] = "active"]
  /\ UNCHANGED <<up, preloaded, listed>>

(* Variant: an unknown name passes too. *)
CheckPasswordUnknown(s, u) ==
  /\ up /\ Move(s, Idle, At("index", u))
  /\ row[u] # "deleted"
  /\ UNCHANGED <<row, up, preloaded, listed>>

(* Variant: without AND NOT is_deleted. *)
CheckPasswordAny(s, u) ==
  /\ up /\ Move(s, Idle, At("index", u))
  /\ row[u] # "none"
  /\ UNCHANGED <<row, up, preloaded, listed>>

(* authenticate otherwise: the row must exist and not be deleted. *)
CheckPassword(s, u) ==
  /\ up /\ Move(s, Idle, At("index", u))
  /\ row[u] = "active"
  /\ UNCHANGED <<row, up, preloaded, listed>>

(* s.hub.RegisterUser, the last step of authenticate that matters here. *)
RegisterUser(s, u) ==
  /\ Move(s, At("index", u), At("serving", u))
  /\ listed' = listed \cup {u}
  /\ UNCHANGED <<row, up, preloaded>>

(* handleDeleteAccount: the row first ... *)
SoftDeleteUser(s, u) ==
  /\ Move(s, At("serving", u), At("remove", u))
  /\ row' = [row EXCEPT ![u] = "deleted"]
  /\ UNCHANGED <<up, preloaded, listed>>

(* ... then the index; readLoop returns and the session is over. *)
RemoveUser(s, u) ==
  /\ Move(s, At("remove", u), Idle)
  /\ listed' = listed \ {u}
  /\ UNCHANGED <<row, up, preloaded>>

(* Variant: the index lists who is connected. *)
LogoutRemove(s, u) ==
  /\ Move(s, At("serving", u), Idle)
  /\ listed' = listed \ {u}
  /\ UNCHANGED <<row, up, preloaded>>

(* The client goes, or SoftDeleteUser failed, which ends the session too. *)
Logout(s, u) ==
  /\ Move(s, At("serving", u), Idle)
  /\ UNCHANGED <<row, up, preloaded, listed>>

Next ==
  \/ Start \/ Crash
  \/ \E s \in Sessions, u \in Users :
       \/ CreateUser(s, u) \/ CheckPassword(s, u) \/ RegisterUser(s, u)
       \/ SoftDeleteUser(s, u) \/ RemoveUser(s, u) \/ Logout(s, u)

Spec == Init /\ [][Next]_vars

-----------------------------------------------------------------------------
(* The handlers and the rows are what the code can produce: a handler works  *)
(* for a name that has a row, and takes a name out of the index only after   *)
(* its row is marked; only names with a row are listed, and none while the   *)
(* server is down.                                                           *)
TypeOK ==
  /\ row \in [Users -> {"none", "active", "deleted"}]
  /\ up \in BOOLEAN /\ preloaded \in BOOLEAN
  /\ session \in [Sessions -> {Idle} \cup [at : {"index", "serving", "remove"}, user : Users]]
  /\ \A s \in Sessions : session[s] # Idle => up /\ row[session[s].user] # "none"
  /\ \A u \in Users : Busy(u, "remove") => row[u] = "deleted"
  /\ listed \subseteq {u \in Users : row[u] # "none"}
  /\ ~up => listed = {} /\ ~preloaded

(* "Keep BST index up to date" (client_handler.go:107): a user who can log   *)
(* in is listed, unless the handler that created the account has still to    *)
(* enter it or the server could not read the table when it started.          *)
ActiveListed ==
  up /\ preloaded => \A u \in Enabled : u \in listed \/ Busy(u, "index")

(* A deleted user comes back into the listing only through a login that was  *)
(* checked before the deletion: nothing else, a restart included, lists it.  *)
DeletedStaysOut ==
  [][\A u \in Users :
       row[u] = "deleted" /\ u \notin listed /\ ~Busy(u, "index") => u \notin listed']_vars

(* "Deleted users cannot log in" (db.go:336): once the sessions that a       *)
(* deleted user still has are over, there is never another one, also after a *)
(* restart and also by registering the name anew.                            *)
NoComeback ==
  [][\A u \in Users : row[u] = "deleted" /\ ~Serves(u) => ~Serves(u)']_vars

(* "remove from BST so they vanish from all user lists"                      *)
(* (client_handler.go:510): once no handler is between two of its steps, no  *)
(* deleted user is listed.                                                   *)
DeletedVanish ==
  \A u \in Users :
    row[u] = "deleted" /\ ~Busy(u, "index") /\ ~Busy(u, "remove") => u \notin listed
=============================================================================
