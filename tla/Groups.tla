------------------------------- MODULE Groups -------------------------------
(***************************************************************************)
(* Groups: the tables groups and group_members, the handlers that change   *)
(* them, and the group lists the clients are sent in consequence.  Every   *)
(* list is made by some handler: it reads the addressee's groups, then     *)
(* puts the list into the addressee's buffer, and the client's sidebar     *)
(* shows the last one (App.rebuildUserList).                               *)
(*                                                                         *)
(* A handler's work on one frame is a plan, the phases it has still to go  *)
(* through: "insert" the members of a new group, read the "members",       *)
(* "notify" them or "all" with a list each ("send", under RLock),          *)
(* "announce" the change, make the user's "own" list and "reply" with it.  *)
(* What the plans of different handlers do interleaves.                    *)
(*                                                                         *)
(* The hub is reduced to its map and to what it was asked and has not      *)
(* done.  A user has one session at a time, and logs in again only when    *)
(* the hub is done with the last one (module Hub has overlapping ones).    *)
(***************************************************************************)
EXTENDS Naturals, Sequences

CONSTANTS
  Users, Groups,  \* usernames and names of groups
  NoUser,         \* not a user
  MaxActs         \* bound of the model: frames, logins, logouts and crashes

ASSUME GroupsAssumption == NoUser \notin Users /\ MaxActs \in Nat

VARIABLES
  exists,   \* the table groups
  members,  \* members[g]: the table group_members
  online,   \* the users in Hub.clients
  asked,    \* what the hub was asked to do and has not done
  session,  \* the users whose frames are being read
  plan,     \* plan[u]: the phases u's handler has still to go through
  group,    \* group[u]: the group they are about
  names,    \* names[u]: the member list the handler goes by
  todo,     \* todo[u]: those it has still to insert or to send a list
  out,      \* out[u]: the list it has made and not sent
  shown,    \* shown[u]: the groups u's client shows
  told,     \* told[u]: since u's groups last changed he was sent the new list
  missed,   \* the users a list failed to reach, for a reason the code accepts
  acts

tables      == <<exists, members>>
hubVars     == <<online, asked>>
handlerVars == <<plan, group, names, todo, out>>
clientVars  == <<shown, told, missed>>
vars == <<tables, hubVars, session, handlerVars, clientVars, acts>>

(* GetUserGroups *)
GroupsOf(u) == {g \in Groups : u \in members[g]}

Nothing == [to |-> NoUser, groups |-> {}]

Phase(u) == IF plan[u] = <<>> THEN "none" ELSE Head(plan[u])

(* The handlers that hold Hub.mu.RLock for a whole loop. *)
Readers == {u \in Users : Phase(u) = "send"}

(* When the server has run for a while and no group was created yet. *)
Init ==
  /\ exists = {} /\ members = [g \in Groups |-> {}]
  /\ online \in SUBSET Users /\ asked = {} /\ session = online
  /\ plan = [u \in Users |-> <<>>] /\ group = [u \in Users |-> ""]
  /\ names = [u \in Users |-> {}] /\ todo = [u \in Users |-> {}]
  /\ out = [u \in Users |-> Nothing]
  /\ shown = [u \in Users |-> {}] /\ told = [u \in Users |-> TRUE]
  /\ missed = {} /\ acts = 0

-----------------------------------------------------------------------------
Act == acts < MaxActs /\ acts' = acts + 1

(* handleConn: the newcomer is registered, a list goes to all and to him.    *)
Login(u) ==
  /\ Act /\ u \notin session /\ plan[u] = <<>>
  /\ u \notin online /\ \A k \in {"register", "unregister"} : <<k, u>> \notin asked
  /\ session' = session \cup {u}
  /\ asked' = asked \cup {<<"register", u>>}
  /\ plan' = [plan EXCEPT ![u] = <<"all", "own">>]
  /\ shown' = [shown EXCEPT ![u] = {}] /\ told' = [told EXCEPT ![u] = FALSE]
  /\ missed' = missed \ {u}
  /\ UNCHANGED <<tables, online, group, names, todo, out>>

(* The deferred end of handleConn. *)
Logout(u) ==
  /\ Act /\ u \in session /\ plan[u] = <<>>
  /\ session' = session \ {u}
  /\ asked' = asked \cup {<<"unregister", u>>}
  /\ plan' = [plan EXCEPT ![u] = <<"all">>]
  /\ UNCHANGED <<tables, online, group, names, todo, out, clientVars>>

HubStep ==
  /\ Readers = {}
  /\ \E r \in asked :
       /\ asked' = asked \ {r}
       /\ online' = IF r[1] = "register" THEN online \cup {r[2]} ELSE online \ {r[2]}
  /\ UNCHANGED <<tables, session, handlerVars, clientVars, acts>>

(* The process ends; the tables stay. *)
Crash ==
  /\ Act
  /\ online' = {} /\ asked' = {} /\ session' = {}
  /\ plan' = [u \in Users |-> <<>>] /\ todo' = [u \in Users |-> {}]
  /\ out' = [u \in Users |-> Nothing]
  /\ UNCHANGED <<tables, group, names, clientVars>>

-----------------------------------------------------------------------------
(* readLoop: the frames that have to do with groups.  A frame that is        *)
(* refused (a query fails, an unknown group or user, one that was deleted)   *)
(* earns an error text and changes nothing.                                  *)

Request(u, g, p) ==
  /\ Act /\ u \in session /\ plan[u] = <<>>
  /\ plan' = [plan EXCEPT ![u] = p] /\ group' = [group EXCEPT ![u] = g]
  /\ UNCHANGED <<hubVars, session, out, shown, missed>>

(* The rows of v in group_members become those of a member of g, or not. *)
Row(g, v, in) ==
  /\ members' = [members EXCEPT ![g] = IF in THEN @ \cup {v} ELSE @ \ {v}]
  /\ told' = [told EXCEPT ![v] = @ /\ members' = members]

(* handleCreateGroup: the group goes into the table, its members follow. *)
CreateGroup(u, g, M) ==
  /\ g \notin exists /\ exists' = exists \cup {g}
  /\ Request(u, g, <<"insert", "notify">>)
  /\ names' = [names EXCEPT ![u] = M \cup {u}] /\ todo' = [todo EXCEPT ![u] = M \cup {u}]
  /\ UNCHANGED <<members, told>>

(* The name is taken: the user becomes a member of the group that has it. *)
Rejoin(u, g) ==
  /\ g \in exists /\ Row(g, u, TRUE)
  /\ Request(u, g, <<"members", "announce", "notify">>)
  /\ UNCHANGED <<exists, names, todo>>

(* Variant: without looking the group up first. *)
AddToAnyGroup(u, g, v) ==
  /\ Row(g, v, TRUE)
  /\ Request(u, g, <<"members", "notify", "announce">>)
  /\ UNCHANGED <<exists, names, todo>>

AddToGroup(u, g, v) ==
  /\ g \in exists /\ Row(g, v, TRUE)
  /\ Request(u, g, <<"members", "notify", "announce">>)
  /\ UNCHANGED <<exists, names, todo>>

(* Variant: without the list for the user who leaves. *)
LeaveGroupUntold(u, g) ==
  /\ Row(g, u, FALSE)
  /\ Request(u, g, <<"members", "notify", "announce">>)
  /\ UNCHANGED <<exists, names, todo>>

(* LeaveGroup deletes what rows there are, if any. *)
LeaveGroup(u, g) ==
  /\ Row(g, u, FALSE)
  /\ Request(u, g, <<"members", "notify", "announce", "own">>)
  /\ UNCHANGED <<exists, names, todo>>

UserListReq(u) ==
  /\ Request(u, group[u], <<"own">>)
  /\ UNCHANGED <<tables, names, todo, told>>

-----------------------------------------------------------------------------
(* The phases of a plan. *)

Proceed(u, p) == plan' = [plan EXCEPT ![u] = p \o Tail(@)]

(* The creator is the last of his list; an insertion that fails is skipped. *)
InsertMember(u) ==
  /\ Phase(u) = "insert"
  /\ \E v \in todo[u] :
       /\ v = u => todo[u] = {u}
       /\ todo' = [todo EXCEPT ![u] = @ \ {v}]
       /\ Row(group[u], v, TRUE) \/ UNCHANGED <<members, told>>
  /\ UNCHANGED <<exists, hubVars, session, plan, group, names, out, shown, missed, acts>>

Inserted(u) ==
  /\ Phase(u) = "insert" /\ todo[u] = {} /\ Proceed(u, <<>>)
  /\ UNCHANGED <<tables, hubVars, session, group, names, todo, out, clientVars, acts>>

(* GetGroupMembers, whose error is ignored: it may have read some rows. *)
ReadMembers(u) ==
  /\ Phase(u) = "members" /\ Proceed(u, <<>>)
  /\ \E S \in SUBSET members[group[u]] :
       /\ names' = [names EXCEPT ![u] = S]
       /\ missed' = missed \cup (members[group[u]] \ S)
  /\ UNCHANGED <<tables, hubVars, session, group, todo, out, shown, told, acts>>

(* notifyGroupMembers takes RLock; who is not on the map is passed over. *)
Notify(u) ==
  /\ Phase(u) = "notify" /\ Proceed(u, <<"send">>)
  /\ todo' = [todo EXCEPT ![u] = names[u] \cap online]
  /\ missed' = missed \cup (names[u] \ online)
  /\ UNCHANGED <<tables, hubVars, session, group, names, out, shown, told, acts>>

(* broadcastUserList takes RLock. *)
Broadcast(u) ==
  /\ Phase(u) = "all" /\ Proceed(u, <<"send">>)
  /\ todo' = [todo EXCEPT ![u] = online]
  /\ UNCHANGED <<tables, hubVars, session, group, names, out, clientVars, acts>>

(* The user's own list needs no lock. *)
OwnList(u) ==
  /\ Phase(u) = "own" /\ Proceed(u, <<"reply">>)
  /\ todo' = [todo EXCEPT ![u] = {u}]
  /\ UNCHANGED <<tables, hubVars, session, group, names, out, clientVars, acts>>

(* broadcastSystemMsg: a message to the members, and no list. *)
Announce(u) ==
  /\ Phase(u) = "announce" /\ Proceed(u, <<>>)
  /\ UNCHANGED <<tables, hubVars, session, group, names, todo, out, clientVars, acts>>

Sending(u) == Phase(u) \in {"send", "reply"}

(* An error of GetUserGroups is ignored too. *)
MakeList(u) ==
  /\ Sending(u) /\ out[u] = Nothing
  /\ \E v \in todo[u] : \E S \in SUBSET GroupsOf(v) :
       /\ todo' = [todo EXCEPT ![u] = @ \ {v}]
       /\ out' = [out EXCEPT ![u] = [to |-> v, groups |-> S]]
       /\ missed' = IF S = GroupsOf(v) THEN missed ELSE missed \cup {v}
  /\ UNCHANGED <<tables, hubVars, session, plan, group, names, shown, told, acts>>

(* select { case c.send <- list: default: } *)
SendList(u) ==
  /\ Sending(u) /\ out[u] # Nothing /\ out' = [out EXCEPT ![u] = Nothing]
  /\ LET v == out[u].to IN
       \/ /\ shown' = [shown EXCEPT ![v] = out[u].groups]
          /\ told' = [told EXCEPT ![v] = @ \/ out[u].groups = GroupsOf(v)]
          /\ UNCHANGED missed
       \/ missed' = missed \cup {v} /\ UNCHANGED <<shown, told>>
  /\ UNCHANGED <<tables, hubVars, session, plan, group, names, todo, acts>>

Sent(u) ==
  /\ Sending(u) /\ out[u] = Nothing /\ todo[u] = {} /\ Proceed(u, <<>>)
  /\ UNCHANGED <<tables, hubVars, session, group, names, todo, out, clientVars, acts>>

-----------------------------------------------------------------------------
ClientStep(u) ==
  \/ Login(u) \/ Logout(u) \/ UserListReq(u)
  \/ \E g \in Groups :
       \/ \E M \in SUBSET (Users \ {u}) : CreateGroup(u, g, M)
       \/ Rejoin(u, g) \/ LeaveGroup(u, g)
       \/ \E v \in Users : AddToGroup(u, g, v)

HandlerStep(u) ==
  \/ InsertMember(u) \/ Inserted(u) \/ ReadMembers(u) \/ Notify(u) \/ Broadcast(u)
  \/ OwnList(u) \/ Announce(u) \/ MakeList(u) \/ SendList(u) \/ Sent(u)

Next == HubStep \/ Crash \/ \E u \in Users : ClientStep(u) \/ HandlerStep(u)

Spec == Init /\ [][Next]_vars
-----------------------------------------------------------------------------
(* Properties. *)

Plans ==
  {"insert", "members", "notify", "announce", "all", "own", "send", "reply"}

(* Every variable holds what the code can put there; a handler that is not  *)
(* in a loop has nothing left of one, and members belong to groups that     *)
(* exist, also when a creation was cut short.                               *)
TypeOK ==
  /\ exists \subseteq Groups
  /\ members \in [Groups -> SUBSET Users] /\ \A g \in Groups \ exists : members[g] = {}
  /\ online \subseteq Users /\ asked \subseteq {"register", "unregister"} \X Users
  /\ session \subseteq Users
  /\ plan \in [Users -> Seq(Plans)]
  /\ group \in [Users -> Groups \cup {""}]
  /\ names \in [Users -> SUBSET Users] /\ todo \in [Users -> SUBSET Users]
  /\ \A u \in Users : ~Sending(u) /\ Phase(u) # "insert" => todo[u] = {}
  /\ out \in [Users -> [to : Users, groups : SUBSET Groups] \cup {Nothing}]
  /\ \A u \in Users : ~Sending(u) => out[u] = Nothing
  /\ shown \in [Users -> SUBSET Groups]
  /\ told \in [Users -> BOOLEAN] /\ missed \subseteq Users
  /\ acts \in 0 .. MaxActs

Quiet == asked = {} /\ \A u \in Users : plan[u] = <<>>

(* "sends a fresh UserListResp to each online group member" (client_handler. *)
(* go:330): when the handlers are done, whoever's groups changed was sent    *)
(* the list of the groups he now has, by whichever of them, unless a full    *)
(* buffer, a failed query or the delay of his registration was in the way.   *)
ChangesAreTold == Quiet => \A u \in session : told[u] \/ u \in missed

(* "so their sidebar picks up the new group without manual refresh"          *)
(* (client_handler.go:331): when the handlers are done, the sidebar of who   *)
(* missed nothing shows the groups he has.                                   *)
SidebarCurrent == Quiet => \A u \in session \ missed : shown[u] = GroupsOf(u)
=============================================================================
