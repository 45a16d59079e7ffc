------------------------------ MODULE ChatView ------------------------------
(***************************************************************************)
(* What one user sees: his client's chat view, sidebar and message cache,  *)
(* and the server's side of it, which is the message tables, the handler   *)
(* of his connection, and what others send him.                            *)
(*                                                                         *)
(* A chat is a partner or a group, and a message its chat and the number   *)
(* the table gave it (0: it was not saved, or is an announcement, which is *)
(* sent without its number).  The connection is the two streams of Conn;   *)
(* of its buffers one bound is kept, at which the server drops a frame.  A *)
(* user list is made by some handler at some time, out of the user index   *)
(* and the group tables: here it holds any chats, stale or not.  The       *)
(* listener of the client has at most one closure in the event loop's      *)
(* queue.  A partner is not the user himself, whom the sidebar leaves out  *)
(* (app.go:729) unless he gave his name with blanks around it, which the   *)
(* server trims and the client does not.                                   *)
(***************************************************************************)
EXTENDS Integers, Sequences, Functions

CONSTANTS
  Chats, Groups,  \* the chats, and those among them that are groups
  NoChat,         \* the empty string in currentChat
  HistoryLimit,   \* HistoryReq.Limit (50)
  CacheLimit,     \* MessageCache.limit
  SendCap,        \* frames on the way to the client before the server drops
  MaxActs,        \* bound of the model: what the user does
  MaxNews         \* bound of the model: what others do

ASSUME ChatAssumption ==
  /\ Groups \subseteq Chats /\ NoChat \notin Chats
  /\ {HistoryLimit, CacheLimit, SendCap} \subseteq Nat \ {0}
  /\ MaxActs \in Nat /\ MaxNews \in Nat

VARIABLES
  currentChat, pendingHistoryFor,  \* the App's fields
  view,       \* the messages chatView shows
  items,      \* the chats userList shows
  marked,     \* those that bear the unread dot
  pendingUnread,
  cache,      \* MessageCache.data
  closure,    \* the frame of the closure the event loop is to run, or Idle
  up, down,   \* the frames on the way to and from the server
  handler,    \* the frames handleClient has still to send for its request
  db,         \* the authors of the chat's saved messages, in order
  routed,     \* saved messages of others on the way to this client
  acts, news, \* how much the user and the others did
  dropped     \* "answer": since the chat was opened a frame of the handler was
              \* dropped or a history query failed; "news": a routed message was

appVars    == <<currentChat, pendingHistoryFor, view, items, marked, pendingUnread, cache, closure>>
streamVars == <<up, down>>
othersVars == <<routed, news>>
vars == <<appVars, streamVars, handler, db, othersVars, acts, dropped>>

Message(c, n) == [chat |-> c, no |-> n]
Messages == [chat : Chats, no : Nat]

Idle == [type |-> "none"]
RecvFrame(m)    == [type |-> "recv", msg |-> m]
HistoryFrame(s) == [type |-> "history", msgs |-> s]
ListFrame(S)    == [type |-> "list", chats |-> S]

Request(t, c) == [type |-> t, chat |-> c]

(* The last n elements of s. *)
Recent(s, n) == SubSeq(s, IF Len(s) > n THEN Len(s) - n + 1 ELSE 1, Len(s))

(* GetHistory and GetGroupHistory, without the limit and with it. *)
AllOf(c)     == [i \in 1 .. Len(db[c]) |-> Message(c, i)]
HistoryOf(c) == Recent(AllOf(c), HistoryLimit)

Init ==
  /\ currentChat = NoChat /\ pendingHistoryFor = NoChat
  /\ view = <<>> /\ items = {} /\ marked = {} /\ pendingUnread = {}
  /\ cache = [c \in Chats |-> <<>>] /\ closure = Idle
  /\ up = <<Request("users", NoChat)>> /\ down = <<>> /\ handler = <<>>
  /\ db = [c \in Chats |-> <<>>] /\ routed = {}
  /\ acts = 0 /\ news = 0 /\ dropped = {}

-----------------------------------------------------------------------------
(* The user, in the event loop. *)

Act(r) == acts < MaxActs /\ acts' = acts + 1 /\ up' = Append(up, r)

OpenChat(c) ==
  /\ c \in items /\ Act(Request("history", c))
  /\ currentChat' = c /\ pendingHistoryFor' = c
  /\ marked' = marked \ {c}
  /\ view' = cache[c]
  /\ dropped' = dropped \ {"answer"}
  /\ UNCHANGED <<items, pendingUnread, cache, closure, down, handler, db, othersVars>>

SendCurrentInput ==
  /\ currentChat # NoChat /\ Act(Request("send", currentChat))
  /\ UNCHANGED <<appVars, down, handler, db, othersVars, dropped>>

LeaveCurrentGroup ==
  /\ currentChat \in Groups /\ Act(Request("leave", currentChat))
  /\ currentChat' = NoChat /\ view' = <<>>
  /\ UNCHANGED <<pendingHistoryFor, items, marked, pendingUnread, cache, closure,
                 down, handler, db, othersVars, dropped>>

-----------------------------------------------------------------------------
(* handleClient: it reads the tables for a request, then sends its frames.   *)

Read(t) == /\ handler = <<>> /\ up # <<>> /\ Head(up).type = t
           /\ up' = Tail(up)

Saved(c, author) == db' = [db EXCEPT ![c] = Append(@, author)]

(* handleSendMsg and handleGroupMsg: the echo, whether saved or not.  Over   *)
(* the rate limit, or when the members of the group cannot be read, neither  *)
(* is done and the user is sent an error text only.                          *)
HandleSend ==
  /\ Read("send")
  /\ LET c == Head(up).chat
     IN \/ /\ Saved(c, "me")
           /\ handler' = <<RecvFrame(Message(c, Len(db[c]) + 1))>>
        \/ /\ handler' \in {<<RecvFrame(Message(c, 0))>>, <<>>}
           /\ UNCHANGED db
  /\ UNCHANGED <<appVars, down, othersVars, acts, dropped>>

(* An error of the query, also one after some of its rows, is answered like *)
(* an empty chat.                                                            *)
HandleHistory ==
  /\ Read("history")
  /\ \/ handler' = <<HistoryFrame(HistoryOf(Head(up).chat))>> /\ UNCHANGED dropped
     \/ handler' = <<HistoryFrame(<<>>)>> /\ dropped' = dropped \cup {"answer"}
  /\ UNCHANGED <<appVars, down, db, othersVars, acts>>

HandleUserList ==
  /\ Read("users")
  /\ \E S \in SUBSET Chats : handler' = <<ListFrame(S)>>
  /\ UNCHANGED <<appVars, down, db, othersVars, acts, dropped>>

(* handleLeaveGroup: the row goes, then the announcement is saved, or not,   *)
(* and sent to the leaver too, without the number it got, then his list is   *)
(* made.  When the row cannot be deleted he is sent an error text only.      *)
HandleLeave ==
  /\ Read("leave")
  /\ LET c == Head(up).chat
     IN \/ handler' = <<>> /\ UNCHANGED db
        \/ /\ Saved(c, "system") \/ UNCHANGED db
           /\ \E S \in SUBSET Chats : handler' = <<RecvFrame(Message(c, 0)), ListFrame(S)>>
  /\ UNCHANGED <<appVars, down, othersVars, acts, dropped>>

(* select { case client.send <- frame: default: } *)
Room == Len(down) < SendCap

Reply ==
  /\ handler # <<>> /\ handler' = Tail(handler)
  /\ IF Room
     THEN down' = Append(down, Head(handler)) /\ UNCHANGED dropped
     ELSE dropped' = dropped \cup {"answer"} /\ UNCHANGED down
  /\ UNCHANGED <<appVars, up, db, othersVars, acts>>

-----------------------------------------------------------------------------
(* The others. *)

News == news < MaxNews /\ news' = news + 1

PeerSaves(c) ==
  /\ News /\ Saved(c, "peer")
  /\ routed' = routed \cup {Message(c, Len(db[c]) + 1)}
  /\ UNCHANGED <<appVars, streamVars, handler, acts, dropped>>

(* The hub, or the sender's handler for a group, reaches this client: a      *)
(* partner's messages stay in order, those of a group have several senders.  *)
Deliver(m) ==
  /\ m \in routed
  /\ m.chat \in Groups \/ \A k \in routed : k.chat = m.chat => m.no <= k.no
  /\ routed' = routed \ {m}
  /\ IF Room
     THEN down' = Append(down, RecvFrame(m)) /\ UNCHANGED dropped
     ELSE dropped' = dropped \cup {"news"} /\ UNCHANGED down
  /\ UNCHANGED <<appVars, up, handler, db, news, acts>>

(* broadcastUserList and notifyGroupMembers, in the handlers of others. *)
SendList ==
  /\ News /\ Room
  /\ \E S \in SUBSET Chats : down' = Append(down, ListFrame(S))
  /\ UNCHANGED <<appVars, up, handler, db, routed, acts, dropped>>

-----------------------------------------------------------------------------
(* The listener: it caches what a frame brings and queues a closure. *)

(* Variant: evicts one message too late. *)
AddLate(k, m) == LET s == k[m.chat]
                 IN [k EXCEPT ![m.chat] = Append(IF Len(s) > CacheLimit THEN Tail(s) ELSE s, m)]

(* MessageCache.Add *)
Add(k, m) == LET s == k[m.chat]
             IN [k EXCEPT ![m.chat] = Append(IF Len(s) >= CacheLimit THEN Tail(s) ELSE s, m)]

AddAll(k, s) ==
  LET after[i \in 0 .. Len(s)] == IF i = 0 THEN k ELSE Add(after[i - 1], s[i])
  IN after[Len(s)]

HandleIncoming ==
  /\ closure = Idle /\ down # <<>>
  /\ closure' = Head(down) /\ down' = Tail(down)
  /\ cache' = CASE closure'.type = "recv"    -> Add(cache, closure'.msg)
                [] closure'.type = "history" -> AddAll(cache, closure'.msgs)
                [] closure'.type = "list"    -> cache
  /\ UNCHANGED <<currentChat, pendingHistoryFor, view, items, marked, pendingUnread,
                 up, handler, db, othersVars, acts, dropped>>

-----------------------------------------------------------------------------
(* The closures, in the event loop. *)

MarkUnread(c) ==
  IF c \in items
  THEN marked' = marked \cup {c} /\ UNCHANGED pendingUnread
  ELSE pendingUnread' = pendingUnread \cup {c} /\ UNCHANGED marked

DrawMessage(m) ==
  /\ IF m.chat = currentChat
     THEN view' = Append(view, m) /\ UNCHANGED <<marked, pendingUnread>>
     ELSE MarkUnread(m.chat) /\ UNCHANGED view
  /\ UNCHANGED items

(* Variant: the answer is added to what the cache gave. *)
DrawHistoryBehind(s) ==
  /\ view' = IF pendingHistoryFor = currentChat THEN view \o s ELSE view
  /\ UNCHANGED <<items, marked, pendingUnread>>

(* Variant: without the guard. *)
DrawHistoryAlways(s) == view' = s /\ UNCHANGED <<items, marked, pendingUnread>>

DrawHistory(s) ==
  /\ view' = IF pendingHistoryFor = currentChat THEN s ELSE view
  /\ UNCHANGED <<items, marked, pendingUnread>>

(* Variant: pendingUnread is not reset. *)
RebuildKeepsPending(S) ==
  /\ items' = S
  /\ marked' = (marked \cup pendingUnread) \cap S
  /\ UNCHANGED <<view, pendingUnread>>

(* Variant: the dots are not carried over. *)
RebuildForgets(S) ==
  /\ items' = S
  /\ marked' = pendingUnread \cap S /\ pendingUnread' = {}
  /\ UNCHANGED view

RebuildUserList(S) ==
  /\ items' = S
  /\ marked' = (marked \cup pendingUnread) \cap S /\ pendingUnread' = {}
  /\ UNCHANGED view

Draw ==
  /\ closure # Idle /\ closure' = Idle
  /\ CASE closure.type = "recv"    -> DrawMessage(closure.msg)
       [] closure.type = "history" -> DrawHistory(closure.msgs)
       [] closure.type = "list"    -> RebuildUserList(closure.chats)
  /\ UNCHANGED <<currentChat, pendingHistoryFor, cache, streamVars, handler, db, othersVars,
                 acts, dropped>>

-----------------------------------------------------------------------------
User    == (\E c \in Chats : OpenChat(c)) \/ SendCurrentInput \/ LeaveCurrentGroup
Handle  == HandleSend \/ HandleHistory \/ HandleUserList \/ HandleLeave \/ Reply
Arrive  == \E m \in routed : Deliver(m)
Client  == HandleIncoming \/ Draw

Next ==
  \/ User \/ Handle \/ Arrive \/ Client
  \/ (\E c \in Chats : PeerSaves(c)) \/ SendList

Spec == Init /\ [][Next]_vars
-----------------------------------------------------------------------------
Frames ==
  [type : {"recv"}, msg : Messages]
    \cup [type : {"history"}, msgs : Seq(Messages)]
    \cup [type : {"list"}, chats : SUBSET Chats]

Requests ==
  [type : {"users"}, chat : {NoChat}] \cup [type : {"history", "send", "leave"}, chat : Chats]

(* Every variable holds what the code can put there; no chat's cache exceeds *)
(* its limit, and what the sidebar marks is in it.                           *)
TypeOK ==
  /\ {currentChat, pendingHistoryFor} \subseteq Chats \cup {NoChat}
  /\ view \in Seq(Messages)
  /\ items \in SUBSET Chats /\ marked \in SUBSET items /\ pendingUnread \in SUBSET Chats
  /\ cache \in [Chats -> Seq(Messages)] /\ \A c \in Chats : Len(cache[c]) <= CacheLimit
  /\ closure \in Frames \cup {Idle}
  /\ up \in Seq(Requests) /\ down \in Seq(Frames) /\ Len(down) <= SendCap
  /\ handler \in Seq(Frames)
  /\ db \in [Chats -> Seq({"me", "peer", "system"})]
  /\ routed \in SUBSET Messages
  /\ acts \in 0 .. MaxActs /\ news \in 0 .. MaxNews /\ dropped \in SUBSET {"answer", "news"}

(* The chat that is open bears no unread dot, although a dot may be set for  *)
(* it before it is in the sidebar, and comes back when the sidebar is made   *)
(* anew.                                                                     *)
OpenChatIsRead == currentChat \notin marked

(* "Preserve unread markers across rebuild" (app.go:719): a dot goes when    *)
(* its chat is opened or leaves the sidebar, never otherwise.                *)
DotsKept ==
  [][\A c \in marked \ marked' : c = currentChat' \/ c \notin items']_vars

(* Once the user waits for the client and the server to be done, the view is *)
(* of the chat that is open, whatever he opened before and however slowly it *)
(* was answered, and shows what he wrote there once and in order: all of it  *)
(* but what is older than the history goes and than all of his that it shows. *)
Settled == up = <<>> /\ handler = <<>> /\ down = <<>> /\ closure = Idle

(* The numbers of the user's own messages. *)
Mine(c) == {n \in 1 .. Len(db[c]) : db[c][n] = "me"}

ViewSettles ==
  Settled /\ "answer" \notin dropped /\ currentChat # NoChat =>
    LET mine == Mine(currentChat)
    IN /\ \A i \in DOMAIN view : view[i].chat = currentChat
       /\ \A i, j \in DOMAIN view :
            i < j /\ view[i].no \in mine /\ view[j].no \in mine => view[i].no < view[j].no
       /\ \A n \in mine :
            \/ \E i \in DOMAIN view : view[i].no = n
            \/ /\ n <= Len(db[currentChat]) - HistoryLimit
               /\ \A i \in DOMAIN view : view[i].no \in mine => n < view[i].no

(* After the user has left a group nothing is drawn until he opens a chat,  *)
(* although answers and messages for the group go on arriving.               *)
LeftIsBlank == currentChat = NoChat => view = <<>>

(* "Only apply if this is still the chat we requested history for. Prevents  *)
(* stale responses from overwriting the current view." (app.go:454-455)      *)
NoStaleHistory == currentChat # NoChat => \A m \in Range(view) : m.chat = currentChat

(* "pendingUnread holds chats that received a message before the user list   *)
(* was populated - applied in rebuildUserList when the items exist."         *)
(* (app.go:70-71): what leaves it turns into a dot.                          *)
PendingIsApplied == [][pendingUnread \ pendingUnread' \subseteq marked']_vars
=============================================================================
