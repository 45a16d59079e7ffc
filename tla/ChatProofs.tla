----------------------------- MODULE ChatProofs -----------------------------
(***************************************************************************)
(* What the sidebar, the cache and the view keep to whatever lists,        *)
(* answers and messages arrive, for any chats, limits and buffers.         *)
(***************************************************************************)
EXTENDS ChatView, SequenceTheorems, Induction

(* The steps that leave what the user sees alone. *)
Unseen ==
  SendCurrentInput \/ Handle \/ Arrive \/ HandleIncoming
    \/ (\E c \in Chats : PeerSaves(c)) \/ SendList \/ UNCHANGED vars

LEMMA UnseenSteps ==
  Unseen => UNCHANGED <<currentChat, pendingHistoryFor, view, items, marked, pendingUnread>>
BY DEF Unseen, SendCurrentInput, Handle, HandleSend, HandleHistory, HandleUserList, HandleLeave,
   Reply, Arrive, Deliver, HandleIncoming, PeerSaves, SendList, vars, appVars

LEMMA Steps ==
  [Next]_vars =>
    Unseen \/ (\E c \in Chats : OpenChat(c)) \/ LeaveCurrentGroup \/ Draw
BY DEF Next, User, Client, Unseen

(* The closure that Draw runs is of one of three kinds. *)
LEMMA DrawKinds ==
  Draw /\ closure.type \in {"recv", "history", "list"} =>
    \/ closure.type = "recv" /\ DrawMessage(closure.msg)
    \/ closure.type = "history" /\ DrawHistory(closure.msgs)
    \/ closure.type = "list" /\ RebuildUserList(closure.chats)
BY DEF Draw

-----------------------------------------------------------------------------
(* What is on the way.  R is a set of requests and F one of frames. *)

Carried(R, F) ==
  /\ up \in Seq(R) /\ handler \in Seq(F) /\ down \in Seq(F) /\ closure \in F \cup {Idle}

ListRequests == [type : {"users"}, chat : {NoChat}]

Recvs == [type : {"recv"}, msg : Messages]
Lists == [type : {"list"}, chats : SUBSET Chats]
Histories == [type : {"history"}, msgs : Seq(Messages)]

Types ==
  /\ Carried(Requests, Frames)
  /\ currentChat \in Chats \cup {NoChat} /\ pendingHistoryFor \in Chats \cup {NoChat}
  /\ db \in [Chats -> Seq({"me", "peer", "system"})] /\ routed \subseteq Messages

(* Before the first chat is opened there is no history to wait for. *)
Unasked ==
  pendingHistoryFor = NoChat =>
    Carried(ListRequests, Recvs \cup Lists) /\ currentChat = NoChat

LEMMA Kinds ==
  /\ Frames = Recvs \cup Histories \cup Lists
  /\ \A f \in Frames \cup {Idle} : f # Idle => f.type \in {"recv", "history", "list"}
  /\ \A f \in Frames : f.type = "recv" => f.msg \in Messages
  /\ \A f \in Recvs \cup Lists \cup {Idle} : f.type # "history"
  /\ \A m \in Messages : RecvFrame(m) \in Recvs
  /\ \A S \in SUBSET Chats : ListFrame(S) \in Lists
  /\ \A s \in Seq(Messages) : HistoryFrame(s) \in Histories
<1>1. Frames = Recvs \cup Histories \cup Lists
  BY DEF Frames, Recvs, Histories, Lists
<1>2. \A f \in Frames \cup {Idle} : f # Idle => f.type \in {"recv", "history", "list"}
  BY <1>1 DEF Recvs, Histories, Lists
<1>3. \A f \in Frames : f.type = "recv" => f.msg \in Messages
  BY <1>1 DEF Recvs, Histories, Lists
<1>4. \A f \in Recvs \cup Lists \cup {Idle} : f.type # "history"
  BY DEF Recvs, Lists, Idle
<1>5. /\ \A m \in Messages : RecvFrame(m) \in Recvs
      /\ \A S \in SUBSET Chats : ListFrame(S) \in Lists
      /\ \A s \in Seq(Messages) : HistoryFrame(s) \in Histories
  BY DEF Recvs, Lists, Histories, RecvFrame, ListFrame, HistoryFrame
<1> QED BY <1>1, <1>2, <1>3, <1>4, <1>5

LEMMA MessageType == \A c \in Chats, n \in Nat : Message(c, n) \in Messages
BY DEF Message, Messages

LEMMA HistoryType ==
  ASSUME db \in [Chats -> Seq({"me", "peer", "system"})], NEW c \in Chats
  PROVE  HistoryOf(c) \in Seq(Messages)
<1>1. Len(db[c]) \in Nat
  OBVIOUS
<1>2. AllOf(c) \in Seq(Messages) /\ Len(AllOf(c)) = Len(db[c])
  <2>1. AllOf(c) \in [1 .. Len(db[c]) -> Messages]
    BY <1>1, MessageType DEF AllOf
  <2> QED BY <1>1, <2>1, IsASeq
<1> DEFINE s == AllOf(c)
           n == Len(s)
           m == IF n > HistoryLimit THEN n - HistoryLimit + 1 ELSE 1
<1>3. HistoryLimit \in Nat /\ n \in Nat
  BY <1>1, <1>2, ChatAssumption
<1>4. m \in Int /\ m >= 1
  BY <1>3
<1>5. \A i \in m .. n : s[i] \in Messages
  <2> SUFFICES ASSUME NEW i \in m .. n PROVE s[i] \in Messages
    OBVIOUS
  <2>1. i \in 1 .. n
    BY <1>3, <1>4
  <2> QED BY <1>2, <2>1, ElementOfSeq
<1> HIDE DEF s, m, n
<1>6. SubSeq(s, m, n) \in Seq(Messages)
  BY <1>3, <1>4, <1>5, SubSeqProperties
<1> QED BY <1>6 DEF HistoryOf, Recent, s, m, n
-----------------------------------------------------------------------------
(* How each kind of step moves what is on the way. *)

LEMMA OneOrTwo ==
  ASSUME NEW S, NEW a \in S, NEW b \in S
  PROVE  <<a>> \in Seq(S) /\ <<a, b>> \in Seq(S)
OBVIOUS

LEMMA Moves ==
  ASSUME NEW R, NEW F, Carried(R, F), Idle \notin F
  PROVE  /\ Reply \/ HandleIncoming \/ Draw \/ UNCHANGED vars => Carried(R, F)'
         /\ \A t : Read(t) /\ handler' \in Seq(F) /\ UNCHANGED <<down, closure>> =>
              Carried(R, F)' /\ Head(up) \in R
         /\ \A f \in F : down' \in {down, Append(down, f)} /\ UNCHANGED <<up, handler, closure>> =>
              Carried(R, F)'
         /\ \A r \in R : Act(r) /\ UNCHANGED <<down, handler, closure>> => Carried(R, F)'
<1>1. Reply => Carried(R, F)'
  <2> SUFFICES ASSUME Reply PROVE Carried(R, F)'
    OBVIOUS
  <2>1. /\ handler # <<>> /\ handler' = Tail(handler) /\ UNCHANGED <<up, closure>>
        /\ down' = Append(down, Head(handler)) \/ down' = down
    BY DEF Reply, appVars
  <2>2. Head(handler) \in F /\ Tail(handler) \in Seq(F)
    BY <2>1, HeadTailProperties DEF Carried
  <2>3. down \in Seq(F) /\ Append(down, Head(handler)) \in Seq(F)
    BY <2>2, AppendProperties DEF Carried
  <2> QED BY <2>1, <2>2, <2>3 DEF Carried
<1>2. HandleIncoming => Carried(R, F)'
  <2> SUFFICES ASSUME HandleIncoming PROVE Carried(R, F)'
    OBVIOUS
  <2>1. /\ down # <<>> /\ down' = Tail(down) /\ closure' = Head(down) /\ UNCHANGED <<up, handler>>
    BY DEF HandleIncoming
  <2>2. Head(down) \in F /\ Tail(down) \in Seq(F)
    BY <2>1, HeadTailProperties DEF Carried
  <2> QED BY <2>1, <2>2 DEF Carried
<1>3. Draw \/ UNCHANGED vars => Carried(R, F)'
  BY DEF Draw, vars, streamVars, appVars, Carried
<1>4. ASSUME NEW t, Read(t), handler' \in Seq(F), UNCHANGED <<down, closure>>
      PROVE  Carried(R, F)' /\ Head(up) \in R
  <2>1. up # <<>> /\ up' = Tail(up)
    BY <1>4 DEF Read
  <2>2. Head(up) \in R /\ Tail(up) \in Seq(R)
    BY <2>1, HeadTailProperties DEF Carried
  <2> QED BY <1>4, <2>1, <2>2 DEF Carried
<1>5. ASSUME NEW f \in F, down' \in {down, Append(down, f)}, UNCHANGED <<up, handler, closure>>
      PROVE  Carried(R, F)'
  <2>1. Append(down, f) \in Seq(F)
    BY AppendProperties DEF Carried
  <2> QED BY <1>5, <2>1 DEF Carried
<1>6. ASSUME NEW r \in R, Act(r), UNCHANGED <<down, handler, closure>>
      PROVE  Carried(R, F)'
  <2>1. Append(up, r) \in Seq(R)
    BY AppendProperties DEF Carried
  <2> QED BY <1>6, <2>1 DEF Act, Carried
<1> QED BY <1>1, <1>2, <1>3, <1>4, <1>5, <1>6

LEMMA NoIdle == Idle \notin Frames /\ Idle \notin Recvs \cup Lists
<1>1. \A f \in Frames : f.type \in {"recv", "history", "list"}
  BY Kinds DEF Recvs, Histories, Lists
<1>2. Idle.type = "none"
  BY DEF Idle
<1> QED BY <1>1, <1>2, Kinds

(* A message that is saved has its place in the table as its number. *)
LEMMA SavedType ==
  ASSUME db \in [Chats -> Seq({"me", "peer", "system"})], NEW c \in Chats,
         NEW a \in {"me", "peer", "system"}
  PROVE  /\ Saved(c, a) => db' \in [Chats -> Seq({"me", "peer", "system"})]
         /\ Message(c, Len(db[c]) + 1) \in Messages /\ Message(c, 0) \in Messages
<1>1. db[c] \in Seq({"me", "peer", "system"}) /\ Len(db[c]) \in Nat
  OBVIOUS
<1>2. Append(db[c], a) \in Seq({"me", "peer", "system"})
  BY <1>1, AppendProperties
<1>3. Saved(c, a) => db' \in [Chats -> Seq({"me", "peer", "system"})]
  BY <1>2 DEF Saved
<1> QED BY <1>1, <1>3, MessageType

LEMMA InitTypes == Init => Types /\ Unasked
<1> SUFFICES ASSUME Init PROVE Types /\ Unasked
  OBVIOUS
<1>1. Request("users", NoChat) \in ListRequests /\ ListRequests \subseteq Requests
  BY DEF Request, ListRequests, Requests
<1>2. <<Request("users", NoChat)>> \in Seq(ListRequests) /\ <<Request("users", NoChat)>> \in Seq(Requests)
  BY <1>1, OneOrTwo
<1>3. \A S : <<>> \in Seq(S)
  OBVIOUS
<1>4. /\ up = <<Request("users", NoChat)>> /\ handler = <<>> /\ down = <<>> /\ closure = Idle
      /\ currentChat = NoChat /\ pendingHistoryFor = NoChat /\ routed = {}
      /\ db = [c \in Chats |-> <<>>]
  BY DEF Init
<1>5. Carried(ListRequests, Recvs \cup Lists) /\ Carried(Requests, Frames)
  BY <1>2, <1>3, <1>4 DEF Carried
<1>6. db \in [Chats -> Seq({"me", "peer", "system"})]
  BY <1>3, <1>4
<1> QED BY <1>4, <1>5, <1>6 DEF Types, Unasked

LEMMA RequestTypes ==
  /\ \A r \in Requests : r.type # "users" => r.chat \in Chats
  /\ \A r \in ListRequests : r.type = "users"
  /\ \A t \in {"history", "send", "leave"}, c \in Chats : Request(t, c) \in Requests
BY DEF Requests, ListRequests, Request

LEMMA NextTypes == Types /\ [Next]_vars => Types'
<1> SUFFICES ASSUME Types, [Next]_vars PROVE Types'
  OBVIOUS
<1> DEFINE C == Carried(Requests, Frames)
           D == db \in [Chats -> Seq({"me", "peer", "system"})]
           P == currentChat \in Chats \cup {NoChat} /\ pendingHistoryFor \in Chats \cup {NoChat}
<1>a. C /\ Idle \notin Frames /\ D /\ P /\ routed \subseteq Messages
  BY NoIdle DEF Types
<1>1. ASSUME NEW c \in Chats, OpenChat(c) PROVE Types'
  <2>1. Request("history", c) \in Requests
    BY RequestTypes
  <2>2. C'
    BY <1>1, <1>a, <2>1, Moves DEF OpenChat
  <2> QED BY <1>1, <1>a, <2>2 DEF OpenChat, othersVars, Types
<1>2. CASE SendCurrentInput
  <2>1. Request("send", currentChat) \in Requests
    BY <1>2, <1>a, RequestTypes DEF SendCurrentInput
  <2>2. C'
    BY <1>2, <1>a, <2>1, Moves DEF SendCurrentInput, appVars
  <2> QED BY <1>2, <1>a, <2>2 DEF SendCurrentInput, appVars, othersVars, Types
<1>3. CASE LeaveCurrentGroup
  <2>1. Request("leave", currentChat) \in Requests
    BY <1>3, RequestTypes, ChatAssumption DEF LeaveCurrentGroup
  <2>2. C'
    BY <1>3, <1>a, <2>1, Moves DEF LeaveCurrentGroup
  <2> QED BY <1>3, <1>a, <2>2 DEF LeaveCurrentGroup, othersVars, Types
<1>4. CASE HandleSend
  <2>1. Head(up).type = "send" /\ Head(up) \in Requests
    <3>1. up # <<>> /\ up \in Seq(Requests)
      BY <1>4, <1>a DEF HandleSend, Read, Carried
    <3> QED BY <1>4, <3>1, HeadTailProperties DEF HandleSend, Read
  <2>2. Head(up).chat \in Chats
    BY <2>1, RequestTypes
  <2> DEFINE c == Head(up).chat
  <2>3. /\ RecvFrame(Message(c, Len(db[c]) + 1)) \in Frames
        /\ RecvFrame(Message(c, 0)) \in Frames
    BY <1>a, <2>2, SavedType, Kinds
  <2>4. handler' \in Seq(Frames)
    <3>1. CASE handler' = <<>>
      BY <3>1
    <3>2. ASSUME NEW f \in Frames, handler' = <<f>> PROVE handler' \in Seq(Frames)
      BY <3>2, OneOrTwo
    <3> QED BY <1>4, <2>3, <3>1, <3>2 DEF HandleSend
  <2>5. C'
    BY <1>4, <1>a, <2>4, Moves DEF HandleSend, appVars
  <2>6. D'
    BY <1>4, <1>a, <2>2, SavedType DEF HandleSend
  <2> QED BY <1>4, <1>a, <2>5, <2>6 DEF HandleSend, appVars, othersVars, Types
<1>5. CASE HandleHistory
  <2>1. Head(up).type = "history" /\ Head(up) \in Requests
    <3>1. up # <<>> /\ up \in Seq(Requests)
      BY <1>5, <1>a DEF HandleHistory, Read, Carried
    <3> QED BY <1>5, <3>1, HeadTailProperties DEF HandleHistory, Read
  <2>2. Head(up).chat \in Chats
    BY <2>1, RequestTypes
  <2>3. HistoryFrame(HistoryOf(Head(up).chat)) \in Frames /\ HistoryFrame(<<>>) \in Frames
    <3>1. <<>> \in Seq(Messages)
      OBVIOUS
    <3> QED BY <1>a, <2>2, <3>1, HistoryType, Kinds
  <2>4. handler' \in Seq(Frames)
    BY <1>5, <2>3, OneOrTwo DEF HandleHistory
  <2>5. C'
    BY <1>5, <1>a, <2>4, Moves DEF HandleHistory, appVars
  <2> QED BY <1>5, <1>a, <2>5 DEF HandleHistory, appVars, othersVars, Types
<1>6. CASE HandleUserList
  <2>1. handler' \in Seq(Frames)
    BY <1>6, Kinds, OneOrTwo DEF HandleUserList
  <2>2. C'
    BY <1>6, <1>a, <2>1, Moves DEF HandleUserList, appVars
  <2> QED BY <1>6, <1>a, <2>2 DEF HandleUserList, appVars, othersVars, Types
<1>7. CASE HandleLeave
  <2>1. Head(up).type = "leave" /\ Head(up) \in Requests
    <3>1. up # <<>> /\ up \in Seq(Requests)
      BY <1>7, <1>a DEF HandleLeave, Read, Carried
    <3> QED BY <1>7, <3>1, HeadTailProperties DEF HandleLeave, Read
  <2>2. Head(up).chat \in Chats
    BY <2>1, RequestTypes
  <2> DEFINE c == Head(up).chat
  <2>3. RecvFrame(Message(c, 0)) \in Frames /\ \A S \in SUBSET Chats : ListFrame(S) \in Frames
    BY <1>a, <2>2, SavedType, Kinds
  <2>4. handler' \in Seq(Frames)
    <3>1. CASE handler' = <<>>
      BY <3>1
    <3>2. ASSUME NEW S \in SUBSET Chats, handler' = <<RecvFrame(Message(c, 0)), ListFrame(S)>>
          PROVE  handler' \in Seq(Frames)
      BY <2>3, <3>2, OneOrTwo
    <3> QED BY <1>7, <3>1, <3>2 DEF HandleLeave
  <2>5. C'
    BY <1>7, <1>a, <2>4, Moves DEF HandleLeave, appVars
  <2>6. D'
    BY <1>7, <1>a, <2>2, SavedType DEF HandleLeave
  <2> QED BY <1>7, <1>a, <2>5, <2>6 DEF HandleLeave, appVars, othersVars, Types
<1>8. CASE Reply \/ HandleIncoming \/ Draw \/ UNCHANGED vars
  <2>1. C'
    BY <1>8, <1>a, Moves
  <2> QED BY <1>8, <1>a, <2>1 DEF Reply, HandleIncoming, Draw, vars, appVars, othersVars, Types
<1>9. ASSUME NEW m \in routed, Deliver(m) PROVE Types'
  <2>1. RecvFrame(m) \in Frames
    BY <1>a, Kinds
  <2>2. C'
    BY <1>9, <1>a, <2>1, Moves DEF Deliver, appVars
  <2> QED BY <1>9, <1>a, <2>2 DEF Deliver, appVars, Types
<1>10. ASSUME NEW c \in Chats, PeerSaves(c) PROVE Types'
  <2>1. C'
    BY <1>10, <1>a DEF PeerSaves, Carried, streamVars, appVars
  <2>2. D' /\ routed' \subseteq Messages
    BY <1>10, <1>a, SavedType DEF PeerSaves
  <2> QED BY <1>10, <1>a, <2>1, <2>2 DEF PeerSaves, appVars, Types
<1>11. CASE SendList
  <2>1. PICK S \in SUBSET Chats : down' = Append(down, ListFrame(S))
    BY <1>11 DEF SendList
  <2>2. C'
    BY <1>11, <1>a, <2>1, Kinds, Moves DEF SendList, appVars
  <2> QED BY <1>11, <1>a, <2>2 DEF SendList, appVars, Types
<1> QED BY <1>1, <1>2, <1>3, <1>4, <1>5, <1>6, <1>7, <1>8, <1>9, <1>10, <1>11
        DEF Next, User, Handle, Arrive, Client
LEMMA DrawTypes ==
  ASSUME Types, Draw
  PROVE  \/ closure.type = "recv" /\ closure.msg \in Messages /\ DrawMessage(closure.msg)
         \/ closure.type = "history" /\ DrawHistory(closure.msgs)
         \/ closure.type = "list" /\ RebuildUserList(closure.chats)
<1>1. closure \in Frames /\ closure.type \in {"recv", "history", "list"}
  BY Kinds DEF Draw, Types, Carried
<1> QED BY <1>1, Kinds, DrawKinds

LEMMA NextUnasked == Types /\ Unasked /\ [Next]_vars => Unasked'
<1> SUFFICES ASSUME Types, Unasked, [Next]_vars, pendingHistoryFor' = NoChat
             PROVE  Carried(ListRequests, Recvs \cup Lists)' /\ currentChat' = NoChat
  BY DEF Unasked
<1> DEFINE F == Recvs \cup Lists
           C == Carried(ListRequests, F)
<1>1. ~ \E c \in Chats : OpenChat(c)
  BY ChatAssumption DEF OpenChat
<1>2. pendingHistoryFor = NoChat
  BY <1>1, Steps, UnseenSteps DEF LeaveCurrentGroup, Draw
<1>3. C /\ Idle \notin F /\ currentChat = NoChat
  BY <1>2, NoIdle DEF Unasked
<1>4. ~SendCurrentInput /\ ~LeaveCurrentGroup
  BY <1>3, ChatAssumption DEF SendCurrentInput, LeaveCurrentGroup
<1>5. currentChat' = NoChat
  BY <1>1, <1>3, <1>4, Steps, UnseenSteps DEF Draw
<1>6. ~HandleSend /\ ~HandleHistory /\ ~HandleLeave
  <2> SUFFICES ASSUME up # <<>> PROVE Head(up).type = "users"
    BY DEF HandleSend, HandleHistory, HandleLeave, Read
  <2>1. Head(up) \in ListRequests
    BY <1>3, HeadTailProperties DEF Carried
  <2> QED BY <2>1, RequestTypes
<1>7. CASE HandleUserList
  <2>1. handler' \in Seq(F)
    BY <1>7, Kinds, OneOrTwo DEF HandleUserList
  <2>2. C'
    BY <1>7, <1>3, <2>1, Moves DEF HandleUserList, appVars
  <2> QED BY <1>5, <2>2
<1>8. CASE Reply \/ HandleIncoming \/ Draw \/ UNCHANGED vars
  BY <1>8, <1>3, <1>5, Moves
<1>9. ASSUME NEW m \in routed, Deliver(m) PROVE C'
  <2>1. RecvFrame(m) \in F
    BY Kinds DEF Types
  <2> QED BY <1>9, <1>3, <2>1, Moves DEF Deliver, appVars
<1>10. ASSUME NEW c \in Chats, PeerSaves(c) PROVE C'
  BY <1>10, <1>3 DEF PeerSaves, Carried, streamVars, appVars
<1>11. CASE SendList
  <2>1. PICK S \in SUBSET Chats : down' = Append(down, ListFrame(S))
    BY <1>11 DEF SendList
  <2>2. C'
    BY <1>11, <1>3, <2>1, Kinds, Moves DEF SendList, appVars
  <2> QED BY <1>5, <2>2
<1> QED BY <1>1, <1>4, <1>5, <1>6, <1>7, <1>8, <1>9, <1>10, <1>11
        DEF Next, User, Handle, Arrive, Client

LEMMA TypesAlways == Spec => [](Types /\ Unasked)
BY InitTypes, NextTypes, NextUnasked, PTL DEF Spec

-----------------------------------------------------------------------------
(* The sidebar. *)

Sidebar ==
  /\ marked \subseteq items /\ pendingUnread \cap items = {}
  /\ NoChat \notin marked \cup pendingUnread
  /\ currentChat \notin marked \cup pendingUnread

LEMMA NextSidebar == Types /\ Sidebar /\ [Next]_vars => Sidebar'
<1> SUFFICES ASSUME Types, Sidebar, [Next]_vars PROVE Sidebar'
  OBVIOUS
<1>1. CASE Unseen
  BY <1>1, UnseenSteps DEF Sidebar
<1>2. ASSUME NEW c \in Chats, OpenChat(c) PROVE Sidebar'
  BY <1>2 DEF OpenChat, Sidebar
<1>3. CASE LeaveCurrentGroup
  BY <1>3 DEF LeaveCurrentGroup, Sidebar
<1>4. CASE Draw
  <2>1. UNCHANGED currentChat
    BY <1>4 DEF Draw
  <2>2. CASE closure.msg \in Messages /\ DrawMessage(closure.msg)
    <3>1. closure.msg.chat # NoChat
      BY <2>2, ChatAssumption DEF Messages
    <3> QED BY <2>1, <2>2, <3>1 DEF DrawMessage, MarkUnread, Sidebar
  <2>3. CASE DrawHistory(closure.msgs)
    BY <2>1, <2>3 DEF DrawHistory, Sidebar
  <2>4. CASE RebuildUserList(closure.chats)
    BY <2>1, <2>4 DEF RebuildUserList, Sidebar
  <2> QED BY <1>4, <2>2, <2>3, <2>4, DrawTypes
<1> QED BY <1>1, <1>2, <1>3, <1>4, Steps

(* No dot at the chat that is open: a chat can be opened only from the       *)
(* sidebar, and what is in the sidebar is not pending.                       *)
THEOREM OpenChatBearsNoDot == Spec => []OpenChatIsRead
<1>1. Init => Sidebar
  BY DEF Init, Sidebar
<1>2. Sidebar => OpenChatIsRead
  BY DEF Sidebar, OpenChatIsRead
<1> QED BY <1>1, <1>2, NextSidebar, TypesAlways, PTL DEF Spec

(* A dot goes when its chat is opened or leaves the sidebar. *)
THEOREM DotsAreKept == Spec => DotsKept
<1>1. Types /\ [Next]_vars =>
        [\A c \in marked \ marked' : c = currentChat' \/ c \notin items']_vars
  <2> SUFFICES ASSUME Types, [Next]_vars, NEW c \in marked \ marked'
               PROVE  c = currentChat' \/ c \notin items'
    OBVIOUS
  <2>1. CASE Unseen \/ LeaveCurrentGroup
    BY <2>1, UnseenSteps DEF LeaveCurrentGroup
  <2>2. CASE \E d \in Chats : OpenChat(d)
    BY <2>2 DEF OpenChat
  <2>3. CASE Draw
    BY <2>3, DrawTypes DEF DrawMessage, MarkUnread, DrawHistory, RebuildUserList
  <2> QED BY <2>1, <2>2, <2>3, Steps
<1> QED BY <1>1, TypesAlways, PTL DEF Spec, DotsKept

-----------------------------------------------------------------------------
(* Nothing is drawn for a group the user has left. *)

LEMMA NextBlank == Types /\ Unasked /\ LeftIsBlank /\ [Next]_vars => LeftIsBlank'
<1> SUFFICES ASSUME Types, Unasked, LeftIsBlank, [Next]_vars, currentChat' = NoChat
             PROVE  view' = <<>>
  BY DEF LeftIsBlank
<1>1. CASE Unseen
  BY <1>1, UnseenSteps DEF LeftIsBlank
<1>2. CASE LeaveCurrentGroup
  BY <1>2 DEF LeaveCurrentGroup
<1>3. CASE \E c \in Chats : OpenChat(c)
  BY <1>3, ChatAssumption DEF OpenChat
<1>4. CASE Draw
  <2>1. currentChat = NoChat /\ view = <<>>
    BY <1>4 DEF Draw, LeftIsBlank
  <2>2. CASE closure.msg \in Messages /\ DrawMessage(closure.msg)
    <3>1. closure.msg.chat # NoChat
      BY <2>2, ChatAssumption DEF Messages
    <3> QED BY <2>1, <2>2, <3>1 DEF DrawMessage
  <2>3. CASE closure.type = "history" /\ DrawHistory(closure.msgs)
    <3>1. pendingHistoryFor # NoChat
      BY <2>3, Kinds DEF Unasked, Carried
    <3> QED BY <2>1, <2>3, <3>1 DEF DrawHistory
  <2>4. CASE RebuildUserList(closure.chats)
    BY <2>1, <2>4 DEF RebuildUserList
  <2> QED BY <1>4, <2>2, <2>3, <2>4, DrawTypes
<1> QED BY <1>1, <1>2, <1>3, <1>4, Steps

(* The guard of app.go:465 keeps the view blank: the field it compares with  *)
(* holds a chat from the first question for a history on.                    *)
THEOREM LeftGroupStaysBlank == Spec => []LeftIsBlank
<1>1. Init => LeftIsBlank
  BY DEF Init, LeftIsBlank
<1> QED BY <1>1, NextBlank, TypesAlways, PTL DEF Spec

-----------------------------------------------------------------------------
(* The cache. *)

Caches == {k \in [Chats -> Seq(Messages)] : \A c \in Chats : Len(k[c]) <= CacheLimit}

LEMMA AddType ==
  ASSUME NEW k \in Caches, NEW m \in Messages
  PROVE  Add(k, m) \in Caches
<1> DEFINE s == k[m.chat]
           t == IF Len(s) >= CacheLimit THEN Tail(s) ELSE s
<1>1. m.chat \in Chats /\ s \in Seq(Messages) /\ Len(s) <= CacheLimit /\ k \in [Chats -> Seq(Messages)]
  BY DEF Messages, Caches
<1>2. CacheLimit \in Nat \ {0} /\ Len(s) \in Nat
  BY <1>1, ChatAssumption
<1> HIDE DEF s
<1>3. t \in Seq(Messages) /\ Len(t) < CacheLimit
  <2>1. CASE Len(s) >= CacheLimit
    <3>1. s # <<>>
      BY <1>2, <2>1
    <3> QED BY <1>1, <1>2, <2>1, <3>1, HeadTailProperties
  <2>2. CASE ~(Len(s) >= CacheLimit)
    BY <1>1, <1>2, <2>2
  <2> QED BY <2>1, <2>2
<1> HIDE DEF t
<1>4. Append(t, m) \in Seq(Messages) /\ Len(Append(t, m)) <= CacheLimit
  BY <1>2, <1>3, AppendProperties
<1>5. Add(k, m) = [k EXCEPT ![m.chat] = Append(t, m)]
  BY DEF Add, s, t
<1> QED BY <1>1, <1>4, <1>5 DEF Caches

(* The loop of the listener over an answer defines a cache after each of its *)
(* messages, and each keeps to the limit.                                    *)
LEMMA AddAllType ==
  ASSUME NEW k \in Caches, NEW s \in Seq(Messages)
  PROVE  AddAll(k, s) \in Caches
<1> DEFINE Fills(n) == {f \in [0 .. n -> Caches] :
                         \A i \in 0 .. n : f[i] = IF i = 0 THEN k ELSE Add(f[i - 1], s[i])}
           N == {n \in Nat : n <= Len(s) => Fills(n) # {}}
<1>1. Len(s) \in Nat /\ \A i \in 1 .. Len(s) : s[i] \in Messages
  BY ElementOfSeq
<1>2. 0 \in N
  <2>1. [i \in 0 .. 0 |-> k] \in Fills(0)
    OBVIOUS
  <2> QED BY <2>1
<1>3. ASSUME NEW n \in N PROVE n + 1 \in N
  <2> SUFFICES ASSUME n + 1 <= Len(s) PROVE Fills(n + 1) # {}
    OBVIOUS
  <2>1. PICK f \in Fills(n) : TRUE
    BY <1>1
  <2> DEFINE g == [i \in 0 .. n + 1 |-> IF i <= n THEN f[i] ELSE Add(f[n], s[n + 1])]
  <2>2. f[n] \in Caches /\ s[n + 1] \in Messages
    BY <1>1
  <2>3. Add(f[n], s[n + 1]) \in Caches
    BY <2>2, AddType
  <2>4. g \in [0 .. n + 1 -> Caches]
    BY <2>3
  <2>5. \A i \in 0 .. n + 1 : g[i] = IF i = 0 THEN k ELSE Add(g[i - 1], s[i])
    <3> TAKE i \in 0 .. n + 1
    <3>1. CASE i = n + 1
      BY <3>1
    <3>2. CASE i <= n
      BY <3>2
    <3> QED BY <3>1, <3>2
  <2> QED BY <2>4, <2>5
<1>4. Fills(Len(s)) # {}
  <2> HIDE DEF N
  <2>1. Len(s) \in N
    BY <1>1, <1>2, <1>3, NumbersBySteps
  <2> HIDE DEF Fills
  <2> QED BY <1>1, <2>1 DEF N
<1> DEFINE F(f) == [i \in 0 .. Len(s) |-> IF i = 0 THEN k ELSE Add(f[i - 1], s[i])]
           after == CHOOSE f : f = F(f)
<1>5. PICK f \in Fills(Len(s)) : TRUE
  BY <1>4
<1>6. f = F(f)
  OBVIOUS
<1>7. after = F(after)
  BY <1>6
<1>8. AddAll(k, s) = after[Len(s)]
  BY DEF AddAll
<1> HIDE DEF after
<1>9. \A i \in 0 .. Len(s) : after[i] = IF i = 0 THEN k ELSE Add(after[i - 1], s[i])
  BY <1>7
<1> DEFINE A == {n \in Nat : n <= Len(s) => after[n] \in Caches}
<1>10. 0 \in A
  BY <1>1, <1>9
<1>11. ASSUME NEW n \in Nat, n \in A PROVE n + 1 \in A
  <2> SUFFICES ASSUME n + 1 <= Len(s) PROVE after[n + 1] \in Caches
    OBVIOUS
  <2>1. after[n] \in Caches /\ s[n + 1] \in Messages
    BY <1>1, <1>11
  <2>2. after[n + 1] = Add(after[n], s[n + 1])
    BY <1>1, <1>9
  <2> QED BY <2>1, <2>2, AddType
<1>12. Nat \subseteq A
  <2> HIDE DEF A
  <2> QED BY <1>10, <1>11, NumbersBySteps
<1> QED BY <1>1, <1>8, <1>12

-----------------------------------------------------------------------------
(* Type correctness. *)

(* What Types and Sidebar do not say. *)
Rest ==
  /\ view \in Seq(Messages) /\ cache \in Caches
  /\ items \subseteq Chats /\ pendingUnread \subseteq Chats
  /\ Len(down) <= SendCap
  /\ acts \in 0 .. MaxActs /\ news \in 0 .. MaxNews /\ dropped \subseteq {"answer", "news"}

LEMMA FrameParts ==
  ASSUME NEW f \in Frames
  PROVE  /\ f.type = "recv" => f.msg \in Messages
         /\ f.type = "history" => f.msgs \in Seq(Messages)
         /\ f.type = "list" => f.chats \subseteq Chats
BY Kinds DEF Recvs, Histories, Lists

LEMMA NextRest == Types /\ Rest /\ [Next]_vars => Rest'
<1> SUFFICES ASSUME Types, Rest, [Next]_vars PROVE Rest'
  OBVIOUS
<1>a. /\ MaxActs \in Nat /\ MaxNews \in Nat /\ SendCap \in Nat \ {0}
      /\ acts \in 0 .. MaxActs /\ news \in 0 .. MaxNews
      /\ down \in Seq(Frames) /\ Len(down) \in Nat /\ Len(down) <= SendCap
  BY ChatAssumption DEF Rest, Types, Carried
<1>1. acts' \in 0 .. MaxActs /\ news' \in 0 .. MaxNews
  <2>1. acts' \in {acts, acts + 1} /\ (acts' = acts + 1 => acts < MaxActs \/ acts' = acts)
    BY DEF Next, User, Handle, Arrive, Client, OpenChat, SendCurrentInput, LeaveCurrentGroup, Act,
           HandleSend, HandleHistory, HandleUserList, HandleLeave, Reply, PeerSaves, Deliver,
           SendList, HandleIncoming, Draw, vars
  <2>2. news' \in {news, news + 1} /\ (news' = news + 1 => news < MaxNews \/ news' = news)
    BY DEF Next, User, Handle, Arrive, Client, OpenChat, SendCurrentInput, LeaveCurrentGroup, othersVars,
           HandleSend, HandleHistory, HandleUserList, HandleLeave, Reply, PeerSaves, Deliver, News,
           SendList, HandleIncoming, Draw, vars
  <2> QED BY <1>a, <2>1, <2>2
<1>2. dropped' \subseteq {"answer", "news"}
  <2>1. dropped' \subseteq dropped \cup {"answer", "news"}
    BY DEF Next, User, Handle, Arrive, Client, OpenChat, SendCurrentInput, LeaveCurrentGroup,
           HandleSend, HandleHistory, HandleUserList, HandleLeave, Reply, PeerSaves, Deliver,
           SendList, HandleIncoming, Draw, vars
  <2> QED BY <2>1 DEF Rest
<1>3. Len(down') <= SendCap
  <2>1. \A f : Len(Append(down, f)) = Len(down) + 1
    BY <1>a
  <2>2. down # <<>> => Len(Tail(down)) = Len(down) - 1
    BY <1>a, HeadTailProperties
  <2>3. CASE UNCHANGED down
    BY <1>a, <2>3
  <2>4. CASE down # <<>> /\ down' = Tail(down)
    BY <1>a, <2>2, <2>4
  <2>5. ASSUME NEW f, down' = Append(down, f), Room PROVE Len(down') <= SendCap
    BY <1>a, <2>1, <2>5 DEF Room
  <2> QED
    BY <2>3, <2>4, <2>5
    DEF Next, User, Handle, Arrive, Client, OpenChat, SendCurrentInput, LeaveCurrentGroup,
        HandleSend, HandleHistory, HandleUserList, HandleLeave, Reply, PeerSaves, Deliver,
        SendList, HandleIncoming, Draw, vars, streamVars
<1>4. cache' \in Caches
  <2>1. CASE HandleIncoming
    <3>1. Head(down) \in Frames /\ closure' = Head(down)
      BY <2>1, <1>a, HeadTailProperties DEF HandleIncoming
    <3>2. closure'.type \in {"recv", "history", "list"}
      BY <3>1, Kinds DEF Recvs, Histories, Lists
    <3>3. CASE closure'.type = "recv"
      <4>1. cache' = Add(cache, closure'.msg)
        BY <2>1, <3>3 DEF HandleIncoming
      <4> QED BY <3>1, <3>3, <4>1, FrameParts, AddType DEF Rest
    <3>4. CASE closure'.type = "history"
      <4>1. cache' = AddAll(cache, closure'.msgs)
        BY <2>1, <3>4 DEF HandleIncoming
      <4> QED BY <3>1, <3>4, <4>1, FrameParts, AddAllType DEF Rest
    <3>5. CASE closure'.type = "list"
      BY <2>1, <3>5 DEF HandleIncoming, Rest
    <3> QED BY <3>2, <3>3, <3>4, <3>5
  <2>2. CASE ~HandleIncoming
    BY <2>2
    DEF Rest, Next, User, Handle, Arrive, Client, OpenChat, SendCurrentInput, LeaveCurrentGroup,
        HandleSend, HandleHistory, HandleUserList, HandleLeave, Reply, PeerSaves, Deliver,
        SendList, Draw, vars, appVars
  <2> QED BY <2>1, <2>2
<1>5. view' \in Seq(Messages) /\ items' \subseteq Chats /\ pendingUnread' \subseteq Chats
  <2>1. CASE Unseen
    BY <2>1, UnseenSteps DEF Rest
  <2>2. ASSUME NEW c \in Chats, OpenChat(c) PROVE view' \in Seq(Messages) /\ UNCHANGED <<items, pendingUnread>>
    BY <2>2 DEF OpenChat, Rest, Caches
  <2>3. CASE LeaveCurrentGroup
    BY <2>3 DEF LeaveCurrentGroup, Rest
  <2>4. CASE Draw
    <3>1. closure \in Frames
      BY <2>4 DEF Draw, Types, Carried
    <3>2. CASE closure.type = "recv" /\ closure.msg \in Messages /\ DrawMessage(closure.msg)
      <4>1. Append(view, closure.msg) \in Seq(Messages) /\ closure.msg.chat \in Chats
        BY <3>2, AppendProperties DEF Rest, Messages
      <4> QED BY <3>2, <4>1 DEF DrawMessage, MarkUnread, Rest
    <3>3. CASE closure.type = "history" /\ DrawHistory(closure.msgs)
      BY <3>1, <3>3, FrameParts DEF DrawHistory, Rest
    <3>4. CASE closure.type = "list" /\ RebuildUserList(closure.chats)
      BY <3>1, <3>4, FrameParts DEF RebuildUserList, Rest
    <3> QED BY <2>4, <3>2, <3>3, <3>4, DrawTypes
  <2> QED BY <2>1, <2>2, <2>3, <2>4, Steps DEF Rest
<1> QED BY <1>1, <1>2, <1>3, <1>4, <1>5 DEF Rest

LEMMA InitRest == Init => Rest /\ Sidebar
<1> SUFFICES ASSUME Init PROVE Rest /\ Sidebar
  OBVIOUS
<1>1. /\ currentChat = NoChat /\ view = <<>> /\ items = {} /\ marked = {} /\ pendingUnread = {}
      /\ cache = [c \in Chats |-> <<>>] /\ down = <<>> /\ acts = 0 /\ news = 0 /\ dropped = {}
  BY DEF Init
<1>2. <<>> \in Seq(Messages) /\ Len(<<>>) = 0
  OBVIOUS
<1>3. {CacheLimit, SendCap} \subseteq Nat /\ MaxActs \in Nat /\ MaxNews \in Nat
  BY ChatAssumption
<1>4. cache \in Caches
  BY <1>1, <1>2, <1>3 DEF Caches
<1>5. acts \in 0 .. MaxActs /\ news \in 0 .. MaxNews /\ Len(down) <= SendCap
  BY <1>1, <1>2, <1>3
<1> QED BY <1>1, <1>2, <1>4, <1>5 DEF Rest, Sidebar

(* Every variable holds what the code can put there: no chat's cache exceeds *)
(* its limit, and what the sidebar marks is in it.                           *)
THEOREM TypeCorrect == Spec => []TypeOK
<1>1. Types /\ Sidebar /\ Rest => TypeOK
  BY DEF Types, Carried, Sidebar, Rest, Caches, TypeOK
<1> QED BY <1>1, InitRest, NextRest, NextSidebar, TypesAlways, PTL DEF Spec

-----------------------------------------------------------------------------
(* What the view will be.  Line is what is to be drawn: the view itself, as  *)
(* if it were an answer, and the frames on their way.                        *)

Closing == IF closure = Idle THEN <<>> ELSE <<closure>>
Front   == (<<HistoryFrame(view)>> \o Closing) \o down
Line    == Front \o handler

Later(L, j) == j + 1 .. Len(L)

(* f brings a message to the chat c, whose number is in M. *)
Brings(f, c, M) == f.type = "recv" /\ f.msg.chat = c /\ f.msg.no \in M

(* f shows nothing of what is in M. *)
Dull(f, c, M, n) ==
  f.type # "history" /\ ~Brings(f, c, M) /\ (Brings(f, c, Nat) => f.msg.no <= n)

(* The answer at place j of L is the last.  It and what comes after it are   *)
(* the chat c's, whose table has n messages, and show those in M once, in    *)
(* order and back to the history's window.                                   *)
Shows(L, j, c, M, n) ==
  LET s == L[j].msgs IN
  /\ j \in 1 .. Len(L) /\ L[j].type = "history"
  /\ \A k \in Later(L, j) : L[k].type # "history" /\ (Brings(L[k], c, Nat) => L[k].msg.no <= n)
  /\ \A i \in DOMAIN s : s[i].chat = c /\ s[i].no \in 0 .. n
  /\ \A i, i2 \in DOMAIN s : i < i2 /\ s[i].no \in M /\ s[i2].no \in M => s[i].no < s[i2].no
  /\ \A i \in DOMAIN s, k \in Later(L, j) :
       s[i].no \in M /\ Brings(L[k], c, M) => s[i].no < L[k].msg.no
  /\ \A k, k2 \in Later(L, j) :
       k < k2 /\ Brings(L[k], c, M) /\ Brings(L[k2], c, M) => L[k].msg.no < L[k2].msg.no
  /\ \A x \in M :
       \/ \E i \in DOMAIN s : s[i].no = x
       \/ \E k \in Later(L, j) : Brings(L[k], c, M) /\ L[k].msg.no = x
       \/ /\ x <= n - HistoryLimit
          /\ \A i \in DOMAIN s : s[i].no \in M => x < s[i].no
          /\ \A k \in Later(L, j) : Brings(L[k], c, M) => x < L[k].msg.no

(* The numbers of the user's own messages in a table. *)
Own(t) == {n \in 1 .. Len(t) : t[n] = "me"}

Sound(L, c, M, n) == \E j \in 1 .. Len(L) : Shows(L, j, c, M, n)
Good(L) == Sound(L, currentChat, Own(db[currentChat]), Len(db[currentChat]))

NoQuestion == \A i \in 1 .. Len(up) : up[i].type # "history"

(* The last question for a history is for the open chat. *)
Waiting ==
  \E i \in 1 .. Len(up) :
    /\ up[i].type = "history" /\ up[i].chat = currentChat
    /\ \A k \in i + 1 .. Len(up) : up[k].type # "history"

Settling ==
  currentChat # NoChat =>
    /\ pendingHistoryFor = currentChat
    /\ "answer" \notin dropped => Waiting \/ (NoQuestion /\ Good(Line))

(* What others wrote is not taken for the user's own. *)
Peers == \A m \in routed : m.no \in 1 .. Len(db[m.chat]) /\ db[m.chat][m.no] # "me"

-----------------------------------------------------------------------------
(* Operations on a line. *)

(* R is L with dull frames taken out, put in, or moved to another place: h   *)
(* says where a place of R behind the answer was in L.                       *)
Rearranges(L, j, R, i, h, c, M, n) ==
  /\ Len(L) \in Nat /\ Len(R) \in Nat
  /\ i \in 1 .. Len(R) /\ R[i] = L[j]
  /\ h \in [Later(R, i) -> Int]
  /\ \A k \in Later(R, i) : Dull(R[k], c, M, n) \/ (h[k] \in Later(L, j) /\ R[k] = L[h[k]])
  /\ \A k, k2 \in Later(R, i) :
       k < k2 /\ Brings(R[k], c, M) /\ Brings(R[k2], c, M) => h[k] < h[k2]
  /\ \A k \in Later(L, j) : Brings(L[k], c, M) => \E k2 \in Later(R, i) : h[k2] = k /\ R[k2] = L[k]

LEMMA Rearranged ==
  ASSUME NEW L, NEW j, NEW R, NEW i, NEW h, NEW c, NEW M, NEW n,
         Shows(L, j, c, M, n), Rearranges(L, j, R, i, h, c, M, n)
  PROVE  Shows(R, i, c, M, n)
<1> USE DEF Rearranges
<1> DEFINE s == L[j].msgs
<1>1. R[i].msgs = s /\ R[i].type = "history"
  BY DEF Shows
<1>2. ASSUME NEW k \in Later(R, i)
      PROVE  R[k].type # "history" /\ (Brings(R[k], c, Nat) => R[k].msg.no <= n)
  BY <1>2 DEF Shows, Dull
<1>3. ASSUME NEW k \in Later(R, i), Brings(R[k], c, M)
      PROVE  h[k] \in Later(L, j) /\ R[k] = L[h[k]]
  BY <1>3 DEF Dull
<1>4. ASSUME NEW a \in DOMAIN s, NEW k \in Later(R, i), s[a].no \in M, Brings(R[k], c, M)
      PROVE  s[a].no < R[k].msg.no
  BY <1>3, <1>4 DEF Shows
<1>5. ASSUME NEW k \in Later(R, i), NEW k2 \in Later(R, i), k < k2,
             Brings(R[k], c, M), Brings(R[k2], c, M)
      PROVE  R[k].msg.no < R[k2].msg.no
  BY <1>3, <1>5 DEF Shows
<1>6. ASSUME NEW x \in M
      PROVE  \/ \E a \in DOMAIN s : s[a].no = x
             \/ \E k \in Later(R, i) : Brings(R[k], c, M) /\ R[k].msg.no = x
             \/ /\ x <= n - HistoryLimit
                /\ \A a \in DOMAIN s : s[a].no \in M => x < s[a].no
                /\ \A k \in Later(R, i) : Brings(R[k], c, M) => x < R[k].msg.no
  <2>1. CASE \E k \in Later(L, j) : Brings(L[k], c, M) /\ L[k].msg.no = x
    BY <2>1
  <2>2. CASE /\ x <= n - HistoryLimit
             /\ \A a \in DOMAIN s : s[a].no \in M => x < s[a].no
             /\ \A k \in Later(L, j) : Brings(L[k], c, M) => x < L[k].msg.no
    BY <1>3, <2>2
  <2> QED BY <2>1, <2>2 DEF Shows
<1>7. /\ \A a \in DOMAIN s : s[a].chat = c /\ s[a].no \in 0 .. n
      /\ \A a, a2 \in DOMAIN s :
           a < a2 /\ s[a].no \in M /\ s[a2].no \in M => s[a].no < s[a2].no
  BY DEF Shows
<1>8. /\ \A k \in Later(R, i) : R[k].type # "history" /\ (Brings(R[k], c, Nat) => R[k].msg.no <= n)
      /\ \A a \in DOMAIN s, k \in Later(R, i) :
           s[a].no \in M /\ Brings(R[k], c, M) => s[a].no < R[k].msg.no
      /\ \A k, k2 \in Later(R, i) :
           k < k2 /\ Brings(R[k], c, M) /\ Brings(R[k2], c, M) => R[k].msg.no < R[k2].msg.no
  BY <1>2, <1>4, <1>5
<1> QED BY <1>1, <1>6, <1>7, <1>8 DEF Shows

LEMMA Grown ==
  ASSUME NEW L, NEW j, NEW c, NEW M \in SUBSET Nat, NEW n \in Nat, NEW n2 \in Nat, n <= n2,
         Shows(L, j, c, M, n)
  PROVE  Shows(L, j, c, M, n2)
<1>1. HistoryLimit \in Nat
  BY ChatAssumption
<1>2. \A x \in Nat : (x <= n => x <= n2) /\ (x <= n - HistoryLimit => x <= n2 - HistoryLimit)
  BY <1>1
<1>3. \A x : x \in 0 .. n => x \in 0 .. n2
  OBVIOUS
<1>4. \A k \in Later(L, j) : Brings(L[k], c, Nat) => L[k].msg.no \in Nat
  BY DEF Brings
<1> QED BY <1>2, <1>3, <1>4 DEF Shows

(* R is L with f put in behind its first a frames. *)
Inserts(L, R, a, f) ==
  /\ a \in Nat /\ Len(L) \in Nat /\ a <= Len(L) /\ Len(R) = Len(L) + 1
  /\ \A k \in 1 .. a : R[k] = L[k]
  /\ R[a + 1] = f
  /\ \A k \in a + 1 .. Len(L) : R[k + 1] = L[k]

LEMMA Inserted ==
  ASSUME NEW L, NEW R, NEW a, NEW f, Inserts(L, R, a, f),
         NEW j, NEW c, NEW M, NEW n, Shows(L, j, c, M, n), Dull(f, c, M, n)
  PROVE  \E i \in 1 .. Len(R) : Shows(R, i, c, M, n)
<1> USE DEF Inserts
<1>a. j \in 1 .. Len(L)
  BY DEF Shows
<1> DEFINE i == IF j <= a THEN j ELSE j + 1
           h == [k \in Later(R, i) |-> IF k <= a THEN k ELSE k - 1]
<1>1. i \in 1 .. Len(R) /\ R[i] = L[j] /\ Len(R) \in Nat
  BY <1>a
<1>2. h \in [Later(R, i) -> Int]
  BY <1>a DEF Later
<1>3. ASSUME NEW k \in Later(R, i), k # a + 1
      PROVE  h[k] \in Later(L, j) /\ R[k] = L[h[k]]
  <2>1. k \in 1 .. Len(R) /\ k > i
    BY <1>a DEF Later
  <2>2. CASE k <= a
    BY <1>a, <2>1, <2>2 DEF Later
  <2>3. CASE k > a
    <3>1. h[k] = k - 1 /\ k - 1 \in Later(L, j) /\ k - 1 \in a + 1 .. Len(L)
      BY <1>a, <1>3, <2>1, <2>3 DEF Later
    <3> QED BY <2>1, <3>1
  <2> QED BY <2>1, <2>2, <2>3
<1>4. ASSUME NEW k \in Later(R, i)
      PROVE  Dull(R[k], c, M, n) \/ (h[k] \in Later(L, j) /\ R[k] = L[h[k]])
  BY <1>3
<1>5. ASSUME NEW k \in Later(R, i), NEW k2 \in Later(R, i), k < k2,
             Brings(R[k], c, M), Brings(R[k2], c, M)
      PROVE  h[k] < h[k2]
  <2>1. k # a + 1 /\ k2 # a + 1
    BY <1>5 DEF Dull
  <2> QED BY <1>a, <1>5, <2>1 DEF Later
<1>6. ASSUME NEW k \in Later(L, j)
      PROVE  \E k2 \in Later(R, i) : h[k2] = k /\ R[k2] = L[k]
  <2> DEFINE k2 == IF k <= a THEN k ELSE k + 1
  <2>1. k2 \in Later(R, i)
    BY <1>a DEF Later
  <2>2. h[k2] = k
    BY <1>a, <2>1 DEF Later
  <2>3. R[k2] = L[k]
    BY <1>a DEF Later
  <2> QED BY <2>1, <2>2, <2>3
<1> HIDE DEF i, h
<1>7. Rearranges(L, j, R, i, h, c, M, n)
  BY <1>1, <1>2, <1>4, <1>5, <1>6 DEF Rearranges
<1> QED BY <1>1, <1>7, Rearranged

LEMMA InsertDull ==
  ASSUME NEW A \in Seq(Frames), NEW B \in Seq(Frames), NEW f \in Frames,
         NEW j \in 1 .. Len(A \o B), NEW c, NEW M \in SUBSET Nat, NEW n \in Nat,
         Shows(A \o B, j, c, M, n), Dull(f, c, M, n)
  PROVE  \E i \in 1 .. Len(Append(A, f) \o B) : Shows(Append(A, f) \o B, i, c, M, n)
<1> DEFINE L == A \o B
           A2 == Append(A, f)
           R == A2 \o B
           a == Len(A)
<1>1. /\ a \in Nat /\ Len(B) \in Nat /\ Len(L) = a + Len(B)
      /\ \A k \in 1 .. a + Len(B) : L[k] = IF k <= a THEN A[k] ELSE B[k - a]
  BY ConcatProperties
<1>2. /\ A2 \in Seq(Frames) /\ Len(A2) = a + 1
      /\ A2[a + 1] = f /\ \A k \in 1 .. a : A2[k] = A[k]
  BY AppendProperties
<1>3. Shows(L, j, c, M, n) /\ j \in 1 .. Len(L)
  OBVIOUS
<1> HIDE DEF L, A2, a
<1>4. /\ Len(R) = a + 1 + Len(B)
      /\ \A k \in 1 .. a + 1 + Len(B) : R[k] = IF k <= a + 1 THEN A2[k] ELSE B[k - (a + 1)]
  BY <1>1, <1>2, ConcatProperties
<1> HIDE DEF R
<1>5. ASSUME NEW k \in 1 .. a PROVE R[k] = L[k]
  <2>1. k \in 1 .. a + 1 + Len(B) /\ k <= a + 1 /\ k \in 1 .. a + Len(B) /\ k <= a
    BY <1>1
  <2> QED BY <1>1, <1>2, <1>4, <2>1
<1>6. R[a + 1] = f
  <2>1. a + 1 \in 1 .. a + 1 + Len(B) /\ a + 1 <= a + 1
    BY <1>1
  <2> QED BY <1>2, <1>4, <2>1
<1>7. ASSUME NEW k \in a + 1 .. Len(L) PROVE R[k + 1] = L[k]
  <2>1. /\ k + 1 \in 1 .. a + 1 + Len(B) /\ ~(k + 1 <= a + 1) /\ (k + 1) - (a + 1) = k - a
        /\ k \in 1 .. a + Len(B) /\ ~(k <= a)
    BY <1>1
  <2>2. R[k + 1] = B[(k + 1) - (a + 1)]
    BY <1>4, <2>1
  <2> QED BY <1>1, <2>1, <2>2
<1>8. Inserts(L, R, a, f)
  BY <1>1, <1>4, <1>5, <1>6, <1>7 DEF Inserts
<1>9. \E i \in 1 .. Len(R) : Shows(R, i, c, M, n)
  BY <1>3, <1>8, Inserted
<1> QED BY <1>9 DEF R, A2

(* The echo of the message that was just saved goes to the end. *)
LEMMA AppendOwn ==
  ASSUME NEW L \in Seq(Frames), NEW j, NEW c \in Chats, NEW n \in Nat, NEW M \in SUBSET (1 .. n),
         Shows(L, j, c, M, n)
  PROVE  Shows(Append(L, RecvFrame(Message(c, n + 1))), j, c, M \cup {n + 1}, n + 1)
<1> DEFINE f == RecvFrame(Message(c, n + 1))
           R == Append(L, f)
           s == L[j].msgs
           M2 == M \cup {n + 1}
<1>1. f.type = "recv" /\ f.msg.chat = c /\ f.msg.no = n + 1
  BY DEF RecvFrame, Message
<1>2. /\ Len(L) \in Nat /\ Len(R) = Len(L) + 1
      /\ R[Len(L) + 1] = f /\ \A k \in 1 .. Len(L) : R[k] = L[k]
  BY AppendProperties
<1>3. j \in 1 .. Len(L) /\ L[j].type = "history"
  BY DEF Shows
<1> HIDE DEF f, R
<1>4. R[j] = L[j] /\ j \in 1 .. Len(R)
  BY <1>2, <1>3
<1>5. \A k \in Later(R, j) : (k \in Later(L, j) /\ R[k] = L[k]) \/ (k = Len(L) + 1 /\ R[k] = f)
  BY <1>2, <1>3 DEF Later
<1>6. \A k \in Later(L, j) : k \in Later(R, j) /\ R[k] = L[k] /\ k < Len(L) + 1
  BY <1>2, <1>3 DEF Later
<1>7. Len(L) + 1 \in Later(R, j)
  BY <1>2, <1>3 DEF Later
<1>8. /\ \A k \in Later(L, j) : L[k].type # "history" /\ (Brings(L[k], c, Nat) => L[k].msg.no <= n)
      /\ \A i \in DOMAIN s : s[i].chat = c /\ s[i].no \in 0 .. n
  BY DEF Shows
<1>9. \A k \in Later(L, j) : Brings(L[k], c, M2) => Brings(L[k], c, M)
  BY <1>8 DEF Brings
<1>10. \A i \in DOMAIN s : s[i].no \in M2 => s[i].no \in M
  BY <1>8
<1>11. \A k \in Later(R, j) : R[k].type # "history" /\ (Brings(R[k], c, Nat) => R[k].msg.no <= n + 1)
  <2> TAKE k \in Later(R, j)
  <2>1. CASE k \in Later(L, j) /\ R[k] = L[k]
    BY <1>8, <2>1 DEF Brings
  <2>2. CASE R[k] = f
    BY <1>1, <2>2
  <2> QED BY <1>5, <2>1, <2>2
<1>12. \A i \in DOMAIN s, k \in Later(R, j) :
         s[i].no \in M2 /\ Brings(R[k], c, M2) => s[i].no < R[k].msg.no
  <2> SUFFICES ASSUME NEW i \in DOMAIN s, NEW k \in Later(R, j), s[i].no \in M2, Brings(R[k], c, M2)
               PROVE  s[i].no < R[k].msg.no
    OBVIOUS
  <2>1. CASE k \in Later(L, j) /\ R[k] = L[k]
    <3>1. s[i].no \in M /\ Brings(L[k], c, M)
      BY <1>9, <1>10, <2>1
    <3> QED BY <2>1, <3>1 DEF Shows
  <2>2. CASE R[k] = f
    BY <1>1, <1>8, <2>2
  <2> QED BY <1>5, <2>1, <2>2
<1>13. \A k, k2 \in Later(R, j) :
         k < k2 /\ Brings(R[k], c, M2) /\ Brings(R[k2], c, M2) => R[k].msg.no < R[k2].msg.no
  <2> SUFFICES ASSUME NEW k \in Later(R, j), NEW k2 \in Later(R, j), k < k2,
                      Brings(R[k], c, M2), Brings(R[k2], c, M2)
               PROVE  R[k].msg.no < R[k2].msg.no
    OBVIOUS
  <2>1. k \in Later(L, j) /\ R[k] = L[k]
    <3>1. k # Len(L) + 1
      BY <1>2 DEF Later
    <3> QED BY <1>5, <3>1
  <2>2. Brings(L[k], c, M)
    BY <1>9, <2>1
  <2>3. CASE k2 \in Later(L, j) /\ R[k2] = L[k2]
    <3>1. Brings(L[k2], c, M)
      BY <1>9, <2>3
    <3> QED BY <2>1, <2>2, <2>3, <3>1 DEF Shows
  <2>4. CASE R[k2] = f
    BY <1>1, <2>1, <2>2, <2>4 DEF Brings
  <2> QED BY <1>5, <2>3, <2>4
<1>14. ASSUME NEW x \in M2
       PROVE  \/ \E i \in DOMAIN s : s[i].no = x
              \/ \E k \in Later(R, j) : Brings(R[k], c, M2) /\ R[k].msg.no = x
              \/ /\ x <= (n + 1) - HistoryLimit
                 /\ \A i \in DOMAIN s : s[i].no \in M2 => x < s[i].no
                 /\ \A k \in Later(R, j) : Brings(R[k], c, M2) => x < R[k].msg.no
  <2>1. CASE x = n + 1
    BY <1>1, <1>2, <1>7, <2>1 DEF Brings
  <2>2. CASE x \in M
    <3>1. CASE \E k \in Later(L, j) : Brings(L[k], c, M) /\ L[k].msg.no = x
      BY <1>6, <2>2, <3>1 DEF Brings
    <3>2. CASE /\ x <= n - HistoryLimit
               /\ \A i \in DOMAIN s : s[i].no \in M => x < s[i].no
               /\ \A k \in Later(L, j) : Brings(L[k], c, M) => x < L[k].msg.no
      <4>1. x <= (n + 1) - HistoryLimit
        BY <2>2, <3>2, ChatAssumption
      <4>2. \A k \in Later(R, j) : Brings(R[k], c, M2) => x < R[k].msg.no
        BY <1>1, <1>5, <1>9, <2>2, <3>2
      <4> QED BY <1>10, <3>2, <4>1, <4>2
    <3> QED BY <2>2, <3>1, <3>2 DEF Shows
  <2> QED BY <2>1, <2>2
<1>15. \A i, i2 \in DOMAIN s : i < i2 /\ s[i].no \in M2 /\ s[i2].no \in M2 => s[i].no < s[i2].no
  BY <1>10 DEF Shows
<1>16. \A i \in DOMAIN s : s[i].chat = c /\ s[i].no \in 0 .. n + 1
  BY <1>8
<1> HIDE DEF M2
<1>17. Shows(R, j, c, M2, n + 1)
  BY <1>3, <1>4, <1>11, <1>12, <1>13, <1>14, <1>15, <1>16 DEF Shows
<1> QED BY <1>17 DEF R, f, M2

(* What the history's window holds. *)
LEMMA HistoryWindow ==
  ASSUME db \in [Chats -> Seq({"me", "peer", "system"})], NEW c \in Chats
  PROVE  \E m \in 1 .. Len(db[c]) + 1 :
           /\ m = 1 \/ m = (Len(db[c]) - HistoryLimit) + 1
           /\ Len(HistoryOf(c)) = (Len(db[c]) + 1) - m
           /\ \A i \in 1 .. Len(HistoryOf(c)) : HistoryOf(c)[i] = Message(c, (m + i) - 1)
<1> DEFINE n == Len(db[c])
           s == AllOf(c)
           m == IF Len(s) > HistoryLimit THEN Len(s) - HistoryLimit + 1 ELSE 1
<1>1. n \in Nat /\ HistoryLimit \in Nat \ {0}
  BY ChatAssumption
<1>2. s \in Seq(Messages) /\ Len(s) = n /\ \A i \in 1 .. n : s[i] = Message(c, i)
  <2>1. s \in [1 .. n -> Messages]
    BY <1>1, MessageType DEF AllOf
  <2> QED BY <1>1, <2>1, IsASeq DEF AllOf
<1>3. m \in 1 .. n + 1 /\ (m = 1 \/ m = (n - HistoryLimit) + 1)
  BY <1>1, <1>2
<1>4. HistoryOf(c) = SubSeq(s, m, Len(s))
  BY DEF HistoryOf, Recent
<1> HIDE DEF s, m, n
<1>5. /\ Len(SubSeq(s, m, n)) = (n + 1) - m
      /\ \A i \in 1 .. (n + 1) - m : SubSeq(s, m, n)[i] = s[(m + i) - 1]
  <2>1. \A i \in m .. n : s[i] \in Messages
    BY <1>1, <1>2, <1>3, ElementOfSeq
  <2>2. /\ Len(SubSeq(s, m, n)) = IF m <= n THEN (n - m) + 1 ELSE 0
        /\ \A i \in 1 .. (n - m) + 1 : SubSeq(s, m, n)[i] = s[(m + i) - 1]
    BY <1>1, <1>2, <1>3, <2>1, SubSeqProperties
  <2> QED BY <1>1, <1>3, <2>2
<1>6. \A i \in 1 .. (n + 1) - m : (m + i) - 1 \in 1 .. n
  BY <1>1, <1>3
<1>7. /\ Len(HistoryOf(c)) = (n + 1) - m
      /\ \A i \in 1 .. (n + 1) - m : HistoryOf(c)[i] = Message(c, (m + i) - 1)
  BY <1>2, <1>4, <1>5, <1>6
<1> QED BY <1>3, <1>7 DEF n

(* The answer to the last question shows what the table holds. *)
LEMMA AppendHistory ==
  ASSUME db \in [Chats -> Seq({"me", "peer", "system"})], NEW c \in Chats, NEW L \in Seq(Frames)
  PROVE  Shows(Append(L, HistoryFrame(HistoryOf(c))), Len(L) + 1, c, Own(db[c]), Len(db[c]))
<1> DEFINE f == HistoryFrame(HistoryOf(c))
           R == Append(L, f)
           j == Len(L) + 1
           s == HistoryOf(c)
           n == Len(db[c])
           M == Own(db[c])
<1>1. f.type = "history" /\ f.msgs = s
  BY DEF HistoryFrame
<1>2. Len(L) \in Nat /\ Len(R) = Len(L) + 1 /\ R[Len(L) + 1] = f
  BY AppendProperties
<1>3. n \in Nat /\ HistoryLimit \in Nat \ {0} /\ M \subseteq 1 .. n
  BY ChatAssumption DEF Own
<1>4. s \in Seq(Messages) /\ DOMAIN s = 1 .. Len(s)
  BY HistoryType, LenProperties
<1>5. PICK m \in 1 .. n + 1 :
        /\ m = 1 \/ m = (n - HistoryLimit) + 1
        /\ Len(s) = (n + 1) - m
        /\ \A i \in 1 .. Len(s) : s[i] = Message(c, (m + i) - 1)
  BY HistoryWindow
<1> HIDE DEF f, R, s, n, M
<1>6. \A i \in DOMAIN s : s[i].chat = c /\ s[i].no = (m + i) - 1
  BY <1>4, <1>5 DEF Message
<1>7. Later(R, j) = {}
  BY <1>2 DEF Later
<1>8. ASSUME NEW i \in DOMAIN s PROVE s[i].chat = c /\ s[i].no \in 0 .. n
  <2>1. i \in 1 .. (n + 1) - m
    BY <1>4, <1>5
  <2>2. (m + i) - 1 \in 0 .. n
    BY <1>3, <2>1
  <2> QED BY <1>6, <2>2
<1>9. \A i, i2 \in DOMAIN s : i < i2 => s[i].no < s[i2].no
  BY <1>3, <1>4, <1>5, <1>6
<1>10. ASSUME NEW x \in M
       PROVE  (\E i \in DOMAIN s : s[i].no = x) \/ (x <= n - HistoryLimit /\ \A i \in DOMAIN s : x < s[i].no)
  <2>1. CASE x < m
    BY <1>3, <1>4, <1>5, <1>6, <2>1
  <2>2. CASE x >= m
    <3>1. (x - m) + 1 \in DOMAIN s
      BY <1>3, <1>4, <1>5, <2>2
    <3>2. s[(x - m) + 1].no = x
      BY <1>3, <1>6, <3>1
    <3> QED BY <3>1, <3>2
  <2> QED BY <1>3, <2>1, <2>2
<1>11. j \in 1 .. Len(R) /\ R[j] = f
  BY <1>2
<1> HIDE DEF j
<1>12. Shows(R, j, c, M, n)
  BY <1>1, <1>7, <1>8, <1>9, <1>10, <1>11 DEF Shows
<1> QED BY <1>12 DEF R, f, M, n, j

-----------------------------------------------------------------------------
(* Drawing. *)

(* A line whose first two frames become one: a, f, ... turns into b, ...    *)
Joins(L, R) ==
  /\ Len(L) \in Nat /\ Len(R) \in Nat /\ Len(L) = Len(R) + 1 /\ Len(R) >= 1
  /\ \A k \in 2 .. Len(R) : R[k] = L[k + 1]

(* What comes behind an answer that is still to be drawn is as before. *)
LEMMA DrawBefore ==
  ASSUME NEW L, NEW R, Joins(L, R), NEW j, NEW c, NEW M, NEW n, Shows(L, j, c, M, n),
         \/ j > 1 /\ R[j - 1] = L[j]
         \/ j = 1 /\ R[1] = L[1] /\ ~Brings(L[2], c, M)
  PROVE  \E i \in 1 .. Len(R) : Shows(R, i, c, M, n)
<1> USE DEF Joins
<1> DEFINE i == IF j = 1 THEN 1 ELSE j - 1
           h == [k \in Later(R, i) |-> k + 1]
<1>1. j \in 1 .. Len(L)
  BY DEF Shows
<1>2. i \in 1 .. Len(R) /\ R[i] = L[j]
  BY <1>1
<1>3. h \in [Later(R, i) -> Int]
  BY <1>2 DEF Later
<1>4. \A k \in Later(R, i) : h[k] \in Later(L, j) /\ R[k] = L[h[k]]
  BY <1>1, <1>2 DEF Later
<1>5. \A k, k2 \in Later(R, i) : k < k2 => h[k] < h[k2]
  BY <1>1, <1>2 DEF Later
<1>6. ASSUME NEW k \in Later(L, j), Brings(L[k], c, M)
      PROVE  \E k2 \in Later(R, i) : h[k2] = k /\ R[k2] = L[k]
  <2>1. k # 2 \/ j # 1
    BY <1>6
  <2>2. k - 1 \in Later(R, i)
    BY <1>1, <2>1 DEF Later
  <2>3. h[k - 1] = k
    BY <1>1, <2>2 DEF Later
  <2>4. R[k - 1] = L[k]
    BY <1>4, <2>2, <2>3
  <2> QED BY <2>2, <2>3, <2>4
<1> HIDE DEF i, h
<1>7. Rearranges(L, j, R, i, h, c, M, n)
  BY <1>2, <1>3, <1>4, <1>5, <1>6 DEF Rearranges
<1> QED BY <1>2, <1>7, Rearranged

(* A message for the open chat goes from the front of the line to the view. *)
LEMMA DrawFirst ==
  ASSUME NEW L, NEW R, Joins(L, R), NEW c, NEW M, NEW n \in Nat, Shows(L, 1, c, M, n),
         NEW s \in Seq(Messages), NEW m \in Messages, m.chat = c,
         L[1].msgs = s, L[2] = RecvFrame(m), R[1] = HistoryFrame(Append(s, m))
  PROVE  Shows(R, 1, c, M, n)
<1> DEFINE v == Append(s, m)
<1>1. R[1].type = "history" /\ R[1].msgs = v
  BY DEF HistoryFrame
<1>2. L[2].type = "recv" /\ L[2].msg = m /\ m.no \in Nat
  BY DEF RecvFrame, Messages
<1>3. /\ Len(s) \in Nat /\ Len(v) = Len(s) + 1 /\ DOMAIN s = 1 .. Len(s) /\ DOMAIN v = 1 .. Len(v)
      /\ v[Len(s) + 1] = m /\ \A k \in 1 .. Len(s) : v[k] = s[k]
  BY AppendProperties, LenProperties
<1> HIDE DEF v
<1>4. 2 \in Later(L, 1) /\ 1 \in 1 .. Len(R)
  BY DEF Joins, Later
<1>5. \A k \in Later(R, 1) : k + 1 \in Later(L, 1) /\ R[k] = L[k + 1] /\ 2 < k + 1
  BY DEF Joins, Later
<1>6. \A k \in Later(L, 1) : k = 2 \/ (k - 1 \in Later(R, 1) /\ R[k - 1] = L[k] /\ 2 < k)
  BY DEF Joins, Later
<1>7. \A i \in DOMAIN v : (i \in DOMAIN s /\ v[i] = s[i]) \/ (i = Len(s) + 1 /\ v[i] = m)
  BY <1>3
<1>8. m.no \in M => Brings(L[2], c, M)
  BY <1>2 DEF Brings
<1>9. m.no \in 0 .. n
  <2>1. Brings(L[2], c, Nat)
    BY <1>2 DEF Brings
  <2> QED BY <1>2, <1>4, <2>1 DEF Shows
<1>10. \A k \in Later(R, 1) : R[k].type # "history" /\ (Brings(R[k], c, Nat) => R[k].msg.no <= n)
  BY <1>5 DEF Shows
<1>11. \A i \in DOMAIN v : v[i].chat = c /\ v[i].no \in 0 .. n
  BY <1>7, <1>9 DEF Shows
<1>12. ASSUME NEW i \in DOMAIN v, NEW i2 \in DOMAIN v, i < i2, v[i].no \in M, v[i2].no \in M
       PROVE  v[i].no < v[i2].no
  <2>1. i \in DOMAIN s /\ v[i] = s[i]
    BY <1>3, <1>7, <1>12
  <2>2. CASE i2 \in DOMAIN s /\ v[i2] = s[i2]
    BY <1>12, <2>1, <2>2 DEF Shows
  <2>3. CASE v[i2] = m
    BY <1>2, <1>4, <1>8, <1>12, <2>1, <2>3 DEF Shows
  <2> QED BY <1>7, <2>2, <2>3
<1>13. ASSUME NEW i \in DOMAIN v, NEW k \in Later(R, 1), v[i].no \in M, Brings(R[k], c, M)
       PROVE  v[i].no < R[k].msg.no
  <2>1. k + 1 \in Later(L, 1) /\ R[k] = L[k + 1] /\ 2 < k + 1
    BY <1>5
  <2>2. CASE i \in DOMAIN s /\ v[i] = s[i]
    BY <1>13, <2>1, <2>2 DEF Shows
  <2>3. CASE v[i] = m
    BY <1>2, <1>4, <1>8, <1>13, <2>1, <2>3 DEF Shows
  <2> QED BY <1>7, <2>2, <2>3
<1>14. ASSUME NEW k \in Later(R, 1), NEW k2 \in Later(R, 1), k < k2, Brings(R[k], c, M), Brings(R[k2], c, M)
       PROVE  R[k].msg.no < R[k2].msg.no
  <2>1. k + 1 < k2 + 1
    BY <1>14 DEF Joins, Later
  <2> QED BY <1>5, <1>14, <2>1 DEF Shows
<1>15. ASSUME NEW x \in M
       PROVE  \/ \E i \in DOMAIN v : v[i].no = x
              \/ \E k \in Later(R, 1) : Brings(R[k], c, M) /\ R[k].msg.no = x
              \/ /\ x <= n - HistoryLimit
                 /\ \A i \in DOMAIN v : v[i].no \in M => x < v[i].no
                 /\ \A k \in Later(R, 1) : Brings(R[k], c, M) => x < R[k].msg.no
  <2>1. CASE \E i \in DOMAIN s : s[i].no = x
    BY <1>3, <2>1
  <2>2. CASE \E k \in Later(L, 1) : Brings(L[k], c, M) /\ L[k].msg.no = x
    <3>1. PICK k \in Later(L, 1) : Brings(L[k], c, M) /\ L[k].msg.no = x
      BY <2>2
    <3>2. CASE k = 2
      <4>1. Len(s) + 1 \in DOMAIN v /\ v[Len(s) + 1].no = x
        BY <1>2, <1>3, <3>1, <3>2
      <4> QED BY <4>1
    <3>3. CASE k - 1 \in Later(R, 1) /\ R[k - 1] = L[k]
      BY <3>1, <3>3
    <3> QED BY <1>6, <3>2, <3>3
  <2>3. CASE /\ x <= n - HistoryLimit
             /\ \A i \in DOMAIN s : s[i].no \in M => x < s[i].no
             /\ \A k \in Later(L, 1) : Brings(L[k], c, M) => x < L[k].msg.no
    <3>1. \A k \in Later(R, 1) : Brings(R[k], c, M) => x < R[k].msg.no
      BY <1>5, <2>3
    <3>2. \A i \in DOMAIN v : v[i].no \in M => x < v[i].no
      BY <1>2, <1>4, <1>7, <1>8, <2>3
    <3> QED BY <2>3, <3>1, <3>2
  <2> QED BY <2>1, <2>2, <2>3 DEF Shows
<1> QED BY <1>1, <1>4, <1>10, <1>11, <1>12, <1>13, <1>14, <1>15 DEF Shows

-----------------------------------------------------------------------------
(* How each kind of step moves the line. *)

(* r is s with t behind it, s of n elements. *)
Joined(r, s, t, n) ==
  /\ Len(r) = n + Len(t)
  /\ \A i \in 1 .. n + Len(t) : r[i] = IF i <= n THEN s[i] ELSE t[i - n]

LEMMA Concatenated ==
  ASSUME NEW S, NEW s \in Seq(S), NEW t \in Seq(S)
  PROVE  s \o t \in Seq(S) /\ Joined(s \o t, s, t, Len(s))
BY ConcatProperties DEF Joined

LEMMA ConcatAppend ==
  ASSUME NEW S, NEW s \in Seq(S), NEW t \in Seq(S), NEW f \in S
  PROVE  s \o Append(t, f) = Append(s \o t, f)
<1> DEFINE l == s \o Append(t, f)
           r == Append(s \o t, f)
<1>1. /\ Append(t, f) \in Seq(S) /\ Len(Append(t, f)) = Len(t) + 1
      /\ Append(t, f)[Len(t) + 1] = f /\ \A i \in 1 .. Len(t) : Append(t, f)[i] = t[i]
  BY AppendProperties
<1>2. /\ s \o t \in Seq(S) /\ Len(s \o t) = Len(s) + Len(t)
      /\ \A i \in 1 .. Len(s) + Len(t) : (s \o t)[i] = IF i <= Len(s) THEN s[i] ELSE t[i - Len(s)]
  BY ConcatProperties
<1>3. /\ l \in Seq(S) /\ Len(l) = Len(s) + (Len(t) + 1)
      /\ \A i \in 1 .. Len(s) + (Len(t) + 1) :
           l[i] = IF i <= Len(s) THEN s[i] ELSE Append(t, f)[i - Len(s)]
  BY <1>1, ConcatProperties
<1>4. /\ r \in Seq(S) /\ Len(r) = (Len(s) + Len(t)) + 1
      /\ r[(Len(s) + Len(t)) + 1] = f /\ \A i \in 1 .. Len(s) + Len(t) : r[i] = (s \o t)[i]
  BY <1>2, AppendProperties
<1>5. Len(s) \in Nat /\ Len(t) \in Nat
  OBVIOUS
<1> HIDE DEF l, r
<1>6. ASSUME NEW i \in 1 .. Len(l) PROVE l[i] = r[i]
  <2>1. CASE i <= Len(s)
    <3>1. i \in 1 .. Len(s) + (Len(t) + 1) /\ i \in 1 .. Len(s) + Len(t)
      BY <1>3, <1>5, <2>1
    <3> QED BY <1>2, <1>3, <1>4, <2>1, <3>1
  <2>2. CASE i > Len(s) /\ i <= Len(s) + Len(t)
    <3>1. i - Len(s) \in 1 .. Len(t)
      BY <1>5, <2>2
    <3> QED BY <1>1, <1>2, <1>3, <1>4, <1>5, <2>2, <3>1
  <2>3. CASE i = (Len(s) + Len(t)) + 1
    <3>1. i - Len(s) = Len(t) + 1 /\ ~(i <= Len(s))
      BY <1>5, <2>3
    <3>2. i \in 1 .. Len(s) + (Len(t) + 1)
      BY <1>3
    <3>3. l[i] = Append(t, f)[i - Len(s)]
      BY <1>3, <3>1, <3>2
    <3> QED BY <1>1, <1>4, <2>3, <3>1, <3>3
  <2>4. i <= Len(s) \/ (i > Len(s) /\ i <= Len(s) + Len(t)) \/ i = (Len(s) + Len(t)) + 1
    <3>1. Len(l) = Len(s) + (Len(t) + 1)
      BY <1>3
    <3> QED BY <1>5, <3>1
  <2> QED BY <2>1, <2>2, <2>3, <2>4
<1>7. Len(l) = Len(r)
  BY <1>3, <1>4, <1>5
<1>8. l = r
  BY <1>3, <1>4, <1>6, <1>7, SeqEqual
<1> QED BY <1>8 DEF l, r

LEMMA ConcatHead ==
  ASSUME NEW S, NEW s \in Seq(S), NEW t \in Seq(S), t # <<>>
  PROVE  Append(s, Head(t)) \o Tail(t) = s \o t
<1>1. /\ Head(t) \in S /\ Tail(t) \in Seq(S) /\ t = <<Head(t)>> \o Tail(t)
  <2>1. /\ Head(t) \in S /\ Tail(t) \in Seq(S) /\ Head(t) = t[1]
        /\ Len(Tail(t)) = Len(t) - 1 /\ \A i \in 1 .. Len(Tail(t)) : Tail(t)[i] = t[i + 1]
    BY HeadTailProperties
  <2> DEFINE u == <<Head(t)>>
             r == u \o Tail(t)
  <2>2. u \in Seq(S) /\ Len(u) = 1 /\ u[1] = t[1]
    BY <2>1
  <2> HIDE DEF u
  <2>3. /\ r \in Seq(S) /\ Len(r) = 1 + Len(Tail(t))
        /\ \A i \in 1 .. 1 + Len(Tail(t)) : r[i] = IF i <= 1 THEN u[i] ELSE Tail(t)[i - 1]
    <3>1. r \in Seq(S) /\ Joined(r, u, Tail(t), 1)
      BY <2>1, <2>2, Concatenated
    <3> QED BY <3>1 DEF Joined
  <2> HIDE DEF r
  <2>4. Len(t) \in Nat
    OBVIOUS
  <2>5. ASSUME NEW i \in 1 .. Len(t) PROVE r[i] = t[i]
    <3>1. CASE i = 1
      BY <2>1, <2>2, <2>3, <2>4, <3>1
    <3>2. CASE i > 1
      <4>1. i - 1 \in 1 .. Len(Tail(t)) /\ (i - 1) + 1 = i
        BY <2>1, <2>4, <3>2
      <4>2. r[i] = Tail(t)[i - 1]
        BY <2>1, <2>3, <2>4, <3>2
      <4> QED BY <2>1, <4>1, <4>2
    <3> QED BY <2>4, <3>1, <3>2
  <2>6. r = t
    BY <2>1, <2>3, <2>4, <2>5, SeqEqual
  <2> QED BY <2>1, <2>6 DEF r, u
<1>2. Append(s, Head(t)) = s \o <<Head(t)>>
  BY <1>1, AppendIsConcat
<1>3. <<Head(t)>> \in Seq(S)
  BY <1>1
<1>4. (s \o <<Head(t)>>) \o Tail(t) = s \o (<<Head(t)>> \o Tail(t))
  BY <1>1, <1>3, ConcatAssociative
<1> QED BY <1>1, <1>2, <1>4

(* The closure and the frames behind it. *)
LEMMA LineParts ==
  ASSUME Types, view \in Seq(Messages)
  PROVE  /\ HistoryFrame(view) \in Frames /\ closure \in Frames \cup {Idle}
         /\ Closing \in Seq(Frames) /\ down \in Seq(Frames) /\ handler \in Seq(Frames)
         /\ <<HistoryFrame(view)>> \in Seq(Frames)
         /\ <<HistoryFrame(view)>> \o Closing \in Seq(Frames)
         /\ Front \in Seq(Frames) /\ Line \in Seq(Frames)
<1>1. /\ closure \in Frames \cup {Idle} /\ down \in Seq(Frames) /\ handler \in Seq(Frames)
  BY DEF Types, Carried
<1>2. HistoryFrame(view) \in Frames
  BY Kinds
<1>3. <<HistoryFrame(view)>> \in Seq(Frames)
  BY <1>2, OneOrTwo
<1>4. Closing \in Seq(Frames)
  <2>1. CASE closure = Idle
    BY <2>1 DEF Closing
  <2>2. CASE closure # Idle
    BY <1>1, <2>2, OneOrTwo DEF Closing
  <2> QED BY <2>1, <2>2
<1>5. <<HistoryFrame(view)>> \o Closing \in Seq(Frames)
  BY <1>3, <1>4, ConcatProperties
<1>6. Front \in Seq(Frames)
  BY <1>1, <1>5, ConcatProperties DEF Front
<1>7. Line \in Seq(Frames)
  BY <1>1, <1>6, ConcatProperties DEF Line
<1> QED BY <1>1, <1>2, <1>3, <1>4, <1>5, <1>6, <1>7

LEMMA ReplyLine ==
  ASSUME Types, view \in Seq(Messages), Reply, "answer" \notin dropped'
  PROVE  Line' = Line
<1>1. /\ handler # <<>> /\ handler' = Tail(handler) /\ down' = Append(down, Head(handler))
      /\ UNCHANGED <<view, closure>>
  BY DEF Reply, appVars
<1>2. Head(handler) \in Frames
  BY <1>1, LineParts, HeadTailProperties
<1> DEFINE P == <<HistoryFrame(view)>> \o Closing
<1>3. Front = P \o down /\ Front' = P \o down'
  BY <1>1 DEF Front, Closing
<1>4. P \in Seq(Frames) /\ down \in Seq(Frames) /\ Front \in Seq(Frames) /\ handler \in Seq(Frames)
  BY LineParts
<1> HIDE DEF P
<1>5. Front' = Append(Front, Head(handler))
  BY <1>1, <1>2, <1>3, <1>4, ConcatAppend
<1> QED BY <1>1, <1>4, <1>5, ConcatHead DEF Line

LEMMA IncomingLine ==
  ASSUME Types, view \in Seq(Messages), HandleIncoming
  PROVE  Line' = Line
<1> DEFINE H == <<HistoryFrame(view)>>
<1>1. /\ closure = Idle /\ down # <<>> /\ closure' = Head(down) /\ down' = Tail(down)
      /\ UNCHANGED <<view, handler>>
  BY DEF HandleIncoming
<1>2. Head(down) \in Frames
  BY <1>1, LineParts, HeadTailProperties
<1>3. Closing = <<>> /\ Closing' = <<Head(down)>>
  BY <1>1, <1>2, NoIdle DEF Closing
<1>4. H \in Seq(Frames) /\ down \in Seq(Frames)
  BY LineParts
<1>5. Front = H \o down
  BY <1>3, <1>4, ConcatEmptySeq DEF Front
<1>6. H \o <<Head(down)>> = Append(H, Head(down))
  BY <1>2, <1>4, AppendIsConcat
<1>7. Front' = Append(H, Head(down)) \o Tail(down)
  BY <1>1, <1>3, <1>6 DEF Front
<1> QED BY <1>1, <1>4, <1>5, <1>7, ConcatHead DEF Line

(* A frame that others send goes before those the handler has still to send. *)
LEMMA DeliverLine ==
  ASSUME Types, view \in Seq(Messages), NEW f \in Frames, down' = Append(down, f),
         UNCHANGED <<view, closure, handler>>
  PROVE  Line' = Append(Front, f) \o handler
<1>1. Front' = Append(Front, f)
  BY LineParts, ConcatAppend DEF Front, Closing
<1> QED BY <1>1 DEF Line

LEMMA HandleLine ==
  ASSUME Types, view \in Seq(Messages), handler = <<>>, UNCHANGED <<view, closure, down>>
  PROVE  /\ Line = Front
         /\ handler' = <<>> => Line' = Line
         /\ \A f \in Frames : handler' = <<f>> => Line' = Append(Line, f)
         /\ \A f, g \in Frames : handler' = <<f, g>> => Line' = Append(Append(Line, f), g)
<1>1. Line = Front /\ Front' = Front /\ Front \in Seq(Frames)
  BY LineParts, ConcatEmptySeq DEF Line, Front, Closing
<1>2. ASSUME NEW f \in Frames PROVE Front \o <<f>> = Append(Front, f)
  BY <1>1, AppendIsConcat
<1>3. ASSUME NEW f \in Frames, NEW g \in Frames PROVE Front \o <<f, g>> = Append(Append(Front, f), g)
  <2>1. <<f>> \in Seq(Frames) /\ <<f, g>> = Append(<<f>>, g)
    OBVIOUS
  <2> QED BY <1>1, <1>2, <2>1, ConcatAppend
<1> QED BY <1>1, <1>2, <1>3 DEF Line

LEMMA DrawLine ==
  ASSUME Types, view \in Seq(Messages), view' \in Seq(Messages), Draw
  PROVE  /\ Joins(Line, Line')
         /\ Line[1] = HistoryFrame(view) /\ Line[2] = closure /\ Line'[1] = HistoryFrame(view')
<1> DEFINE H == <<HistoryFrame(view)>>
           G == <<HistoryFrame(view)>>'
           D == down \o handler
<1>1. /\ closure # Idle /\ closure' = Idle /\ UNCHANGED <<down, handler>>
  BY DEF Draw, streamVars
<1>2. Closing = <<closure>> /\ Closing' = <<>>
  BY <1>1 DEF Closing
<1>3. HistoryFrame(view) \in Frames /\ HistoryFrame(view') \in Frames /\ closure \in Frames
  BY <1>1, LineParts, Kinds
<1>4. /\ H \in Seq(Frames) /\ G \in Seq(Frames) /\ <<closure>> \in Seq(Frames)
      /\ down \in Seq(Frames) /\ handler \in Seq(Frames) /\ D \in Seq(Frames) /\ Len(D) \in Nat
  BY <1>3, OneOrTwo, LineParts, ConcatProperties
<1> DEFINE E == H \o <<closure>>
<1>5. E \in Seq(Frames) /\ Len(E) = 2 /\ E[1] = HistoryFrame(view) /\ E[2] = closure
  <2> DEFINE a == HistoryFrame(view)
  <2> HIDE DEF a
  <2>1. <<a>> \o <<closure>> = Append(<<a>>, closure)
    BY <1>3, <1>4, AppendIsConcat DEF a
  <2>2. <<a, closure>> = Append(<<a>>, closure)
    OBVIOUS
  <2>3. E = <<HistoryFrame(view), closure>>
    BY <2>1, <2>2 DEF a
  <2> QED BY <1>3, <2>3, OneOrTwo
<1>6. Line = E \o D
  BY <1>2, <1>4, <1>5, ConcatAssociative DEF Line, Front
<1>7. Line' = G \o D
  BY <1>1, <1>2, <1>4, ConcatEmptySeq, ConcatAssociative DEF Line, Front
<1>8. Len(G) = 1 /\ G[1] = HistoryFrame(view')
  OBVIOUS
<1> HIDE DEF E, D, G
<1>9. /\ Len(E \o D) = 2 + Len(D)
      /\ \A i \in 1 .. 2 + Len(D) : (E \o D)[i] = IF i <= 2 THEN E[i] ELSE D[i - 2]
  <2>1. Joined(E \o D, E, D, 2)
    BY <1>4, <1>5, Concatenated
  <2> QED BY <2>1 DEF Joined
<1>10. /\ Len(G \o D) = 1 + Len(D)
       /\ \A i \in 1 .. 1 + Len(D) : (G \o D)[i] = IF i <= 1 THEN G[i] ELSE D[i - 1]
  <2>1. Joined(G \o D, G, D, 1)
    BY <1>4, <1>8, Concatenated
  <2> QED BY <2>1 DEF Joined
<1> DEFINE l == E \o D
           r == G \o D
<1> HIDE DEF l, r
<1>11. ASSUME NEW i \in 2 .. Len(r) PROVE r[i] = l[i + 1]
  <2>1. i \in 1 .. 1 + Len(D) /\ ~(i <= 1) /\ i + 1 \in 1 .. 2 + Len(D) /\ ~(i + 1 <= 2) /\ (i + 1) - 2 = i - 1
    BY <1>4, <1>10 DEF r
  <2>2. r[i] = D[i - 1]
    BY <1>10, <2>1 DEF r
  <2>3. l[i + 1] = D[(i + 1) - 2]
    BY <1>9, <2>1 DEF l
  <2> QED BY <2>1, <2>2, <2>3
<1>12. Joins(l, r)
  BY <1>4, <1>9, <1>10, <1>11 DEF l, r, Joins
<1>13. l[1] = HistoryFrame(view) /\ l[2] = closure /\ r[1] = HistoryFrame(view')
  <2>1. {1, 2} \subseteq 1 .. 2 + Len(D) /\ 1 \in 1 .. 1 + Len(D)
    BY <1>4
  <2> QED BY <1>5, <1>8, <1>9, <1>10, <2>1 DEF l, r
<1> QED BY <1>6, <1>7, <1>12, <1>13 DEF l, r

-----------------------------------------------------------------------------
(* The line stays sound. *)

LEMMA SoundInsert ==
  ASSUME NEW A \in Seq(Frames), NEW B \in Seq(Frames), NEW f \in Frames,
         NEW c, NEW M \in SUBSET Nat, NEW n \in Nat, Sound(A \o B, c, M, n), Dull(f, c, M, n)
  PROVE  Sound(Append(A, f) \o B, c, M, n)
<1>1. PICK j \in 1 .. Len(A \o B) : Shows(A \o B, j, c, M, n)
  BY DEF Sound
<1>2. \E i \in 1 .. Len(Append(A, f) \o B) : Shows(Append(A, f) \o B, i, c, M, n)
  BY <1>1, InsertDull
<1> QED BY <1>2 DEF Sound

LEMMA SoundAppend ==
  ASSUME NEW L \in Seq(Frames), NEW f \in Frames,
         NEW c, NEW M \in SUBSET Nat, NEW n \in Nat, Sound(L, c, M, n), Dull(f, c, M, n)
  PROVE  Append(L, f) \in Seq(Frames) /\ Sound(Append(L, f), c, M, n)
<1>1. Append(L, f) \in Seq(Frames)
  BY AppendProperties
<1>2. L \o <<>> = L /\ Append(L, f) \o <<>> = Append(L, f)
  BY <1>1, ConcatEmptySeq
<1>3. <<>> \in Seq(Frames)
  OBVIOUS
<1>4. Sound(L \o <<>>, c, M, n)
  BY <1>2
<1>5. Sound(Append(L, f) \o <<>>, c, M, n)
  BY <1>3, <1>4, SoundInsert
<1> QED BY <1>1, <1>2, <1>5

LEMMA SoundGrown ==
  ASSUME NEW L, NEW c, NEW M \in SUBSET Nat, NEW n \in Nat, NEW n2 \in Nat, n <= n2, Sound(L, c, M, n)
  PROVE  Sound(L, c, M, n2)
BY Grown DEF Sound

LEMMA SavedPlaces ==
  ASSUME db \in [Chats -> Seq({"me", "peer", "system"})], NEW d \in Chats,
         NEW a \in {"me", "peer", "system"}, Saved(d, a)
  PROVE  /\ Len(db'[d]) = Len(db[d]) + 1 /\ db'[d][Len(db[d]) + 1] = a
         /\ \A c \in Chats : /\ c # d => db'[c] = db[c]
                             /\ \A i \in 1 .. Len(db[c]) : db'[c][i] = db[c][i]
                             /\ Len(db[c]) \in Nat /\ Len(db'[c]) \in Nat /\ Len(db[c]) <= Len(db'[c])
<1>1. /\ db'[d] = Append(db[d], a) /\ \A c \in Chats : c # d => db'[c] = db[c]
  BY DEF Saved
<1>2. \A c \in Chats : db[c] \in Seq({"me", "peer", "system"}) /\ Len(db[c]) \in Nat
  OBVIOUS
<1>3. /\ Len(db'[d]) = Len(db[d]) + 1 /\ db'[d][Len(db[d]) + 1] = a
      /\ \A i \in 1 .. Len(db[d]) : db'[d][i] = db[d][i]
  BY <1>1, <1>2, AppendProperties
<1>4. ASSUME NEW c \in Chats
      PROVE  /\ \A i \in 1 .. Len(db[c]) : db'[c][i] = db[c][i]
             /\ Len(db[c]) \in Nat /\ Len(db'[c]) \in Nat /\ Len(db[c]) <= Len(db'[c])
  <2>1. CASE c = d
    BY <1>2, <1>3, <2>1
  <2>2. CASE c # d
    BY <1>1, <1>2, <2>2
  <2> QED BY <2>1, <2>2
<1> QED BY <1>1, <1>3, <1>4

LEMMA MineType ==
  ASSUME db \in [Chats -> Seq({"me", "peer", "system"})], NEW c \in Chats
  PROVE  Own(db[c]) \in SUBSET (1 .. Len(db[c])) /\ Own(db[c]) \in SUBSET Nat /\ Len(db[c]) \in Nat
BY DEF Own

LEMMA SavedMine ==
  ASSUME db \in [Chats -> Seq({"me", "peer", "system"})], NEW d \in Chats,
         NEW a \in {"me", "peer", "system"}, Saved(d, a), NEW c \in Chats
  PROVE  Own(db'[c]) = IF c = d /\ a = "me" THEN Own(db[c]) \cup {Len(db[c]) + 1} ELSE Own(db[c])
<1>1. CASE c # d
  <2>1. db'[c] = db[c]
    BY <1>1, SavedPlaces
  <2> QED BY <1>1, <2>1 DEF Own
<1>2. CASE c = d
  <2> DEFINE n == Len(db[c])
  <2>1. /\ n \in Nat /\ Len(db'[c]) = n + 1 /\ db'[c][n + 1] = a
        /\ \A i \in 1 .. n : db'[c][i] = db[c][i]
    BY <1>2, SavedPlaces
  <2> HIDE DEF n
  <2>2. \A x : x \in 1 .. n + 1 <=> x \in 1 .. n \/ x = n + 1
    BY <2>1
  <2>3. Own(db'[c]) = {x \in 1 .. n + 1 : db'[c][x] = "me"} /\ Own(db[c]) = {x \in 1 .. n : db[c][x] = "me"}
    BY <2>1 DEF Own, n
  <2> QED BY <1>2, <2>1, <2>2, <2>3 DEF n
<1> QED BY <1>1, <1>2

LEMMA DullFrames ==
  ASSUME NEW c, NEW n \in Nat, NEW M \in SUBSET (1 .. n)
  PROVE  /\ \A S : Dull(ListFrame(S), c, M, n)
         /\ \A d : Dull(RecvFrame(Message(d, 0)), c, M, n)
         /\ \A m : m.chat # c => Dull(RecvFrame(m), c, M, n)
         /\ \A m : m.no \notin M /\ m.no <= n => Dull(RecvFrame(m), c, M, n)
<1>1. 0 \notin M /\ 0 <= n
  OBVIOUS
<1> QED BY <1>1 DEF Dull, Brings, ListFrame, RecvFrame, Message

(* What is saved, by the user or by others, is of no account to a line in    *)
(* which nothing of the user's own is missing.                               *)
LEMMA SoundSaved ==
  ASSUME Types, NEW d \in Chats, NEW a \in {"me", "peer", "system"}, Saved(d, a),
         NEW c \in Chats, NEW L, Sound(L, c, Own(db[c]), Len(db[c])), d # c \/ a # "me"
  PROVE  Sound(L, c, Own(db'[c]), Len(db'[c]))
<1>1. Own(db'[c]) = Own(db[c]) /\ Len(db[c]) \in Nat /\ Len(db'[c]) \in Nat /\ Len(db[c]) <= Len(db'[c])
  BY SavedMine, SavedPlaces DEF Types
<1>2. Own(db[c]) \in SUBSET Nat
  BY MineType DEF Types
<1> QED BY <1>1, <1>2, SoundGrown

LEMMA GoodNext ==
  currentChat' = currentChat =>
    (Good(Line)' <=> Sound(Line', currentChat, Own(db'[currentChat]), Len(db'[currentChat])))
BY DEF Good, Sound

-----------------------------------------------------------------------------
(* The questions for a history. *)

LEMMA Asks ==
  ASSUME Types, NEW r, Act(r), r.type # "history", currentChat' = currentChat
  PROVE  (Waiting => Waiting') /\ (NoQuestion => NoQuestion')
<1> DEFINE n == Len(up)
<1>1. /\ n \in Nat /\ Len(up') = n + 1 /\ up'[n + 1] = r /\ \A i \in 1 .. n : up'[i] = up[i]
  <2>1. up \in Seq(Requests \cup {r}) /\ up' = Append(up, r)
    <3>1. up \in Seq(Requests)
      BY DEF Types, Carried
    <3> QED BY <3>1, SeqMonotonic DEF Act
  <2> QED BY <2>1, AppendProperties
<1>2. \A i \in 1 .. n + 1 : i \in 1 .. n \/ i = n + 1
  BY <1>1
<1> HIDE DEF n
<1>3. NoQuestion => NoQuestion'
  BY <1>1, <1>2 DEF NoQuestion, n
<1>4. ASSUME Waiting PROVE Waiting'
  <2>1. PICK i \in 1 .. n : /\ up[i].type = "history" /\ up[i].chat = currentChat
                            /\ \A k \in i + 1 .. n : up[k].type # "history"
    BY <1>4 DEF Waiting, n
  <2>2. \A k \in i + 1 .. n + 1 : k \in i + 1 .. n \/ k = n + 1
    BY <1>1
  <2>3. i \in 1 .. n + 1 /\ \A k \in i + 1 .. n : k \in 1 .. n
    BY <1>1
  <2> QED BY <1>1, <2>1, <2>2, <2>3 DEF Waiting
<1> QED BY <1>3, <1>4

LEMMA OpensWaiting ==
  ASSUME Types, NEW c \in Chats, OpenChat(c)
  PROVE  Waiting'
<1> DEFINE n == Len(up)
           r == Request("history", c)
<1>1. r \in Requests /\ r.type = "history" /\ r.chat = c
  BY RequestTypes DEF Request
<1>2. n \in Nat /\ Len(up') = n + 1 /\ up'[n + 1] = r
  <2>1. up \in Seq(Requests) /\ up' = Append(up, r)
    BY DEF Types, Carried, OpenChat, Act
  <2> QED BY <1>1, <2>1, AppendProperties
<1>3. n + 1 \in 1 .. Len(up') /\ (n + 1) + 1 .. Len(up') = {}
  BY <1>2
<1> QED BY <1>1, <1>2, <1>3 DEF Waiting, OpenChat

LEMMA Reads ==
  ASSUME Types, NEW t, Read(t), currentChat' = currentChat
  PROVE  /\ t # "history" => (Waiting => Waiting') /\ (NoQuestion => NoQuestion')
         /\ t = "history" =>
              /\ ~NoQuestion
              /\ Waiting => Waiting' \/ (NoQuestion' /\ Head(up).chat = currentChat)
<1> DEFINE n == Len(up)
<1>1. /\ up \in Seq(Requests) /\ up # <<>> /\ up' = Tail(up) /\ Head(up).type = t
  BY DEF Read, Types, Carried
<1>2. /\ n \in Nat \ {0} /\ Len(up') = n - 1 /\ \A i \in 1 .. n - 1 : up'[i] = up[i + 1]
      /\ up[1] = Head(up)
  BY <1>1, HeadTailProperties, EmptySeq
<1> HIDE DEF n
<1>3. \A i \in 1 .. n - 1 : i + 1 \in 1 .. n
  BY <1>2
<1>4. NoQuestion => NoQuestion' /\ t # "history"
  <2>1. 1 \in 1 .. n
    BY <1>2
  <2> QED BY <1>1, <1>2, <1>3, <2>1 DEF NoQuestion, n
<1>5. ASSUME Waiting
      PROVE  \/ Waiting'
             \/ t = "history" /\ NoQuestion' /\ Head(up).chat = currentChat
  <2>1. PICK i \in 1 .. n : /\ up[i].type = "history" /\ up[i].chat = currentChat
                            /\ \A k \in i + 1 .. n : up[k].type # "history"
    BY <1>5 DEF Waiting, n
  <2>2. CASE i = 1
    <3>1. \A k \in 1 .. n - 1 : k + 1 \in i + 1 .. n
      BY <1>2, <2>2
    <3>2. NoQuestion'
      BY <1>2, <2>1, <3>1 DEF NoQuestion
    <3> QED BY <1>1, <1>2, <2>1, <2>2, <3>2
  <2>3. CASE i # 1
    <3> DEFINE j == i - 1
    <3>1. j \in 1 .. n - 1 /\ j + 1 = i /\ \A k \in j + 1 .. n - 1 : k \in 1 .. n - 1 /\ k + 1 \in i + 1 .. n
      BY <1>2, <2>3
    <3> HIDE DEF j
    <3>2. up'[j] = up[i] /\ \A k \in j + 1 .. n - 1 : up'[k] = up[k + 1]
      BY <1>2, <3>1
    <3>3. j \in 1 .. Len(up') /\ Len(up') = n - 1
      BY <1>2, <3>1
    <3> QED BY <2>1, <3>1, <3>2, <3>3 DEF Waiting
  <2> QED BY <2>2, <2>3
<1> QED BY <1>4, <1>5

-----------------------------------------------------------------------------
(* The invariant. *)

(* The steps that do not touch the tables, and those that save. *)
LEMMA Tables ==
  ASSUME Types, [Next]_vars
  PROVE  /\ \/ UNCHANGED db
            \/ \E d \in Chats, a \in {"me", "peer", "system"} : Saved(d, a)
         /\ \/ routed' \subseteq routed
            \/ \E d \in Chats : Saved(d, "peer") /\ routed' = routed \cup {Message(d, Len(db[d]) + 1)}
<1>1. ASSUME NEW t \in {"send", "leave"}, Read(t) PROVE Head(up).chat \in Chats
  <2>1. up # <<>> /\ up \in Seq(Requests) /\ Head(up).type = t
    BY <1>1 DEF Types, Carried, Read
  <2>2. Head(up) \in Requests
    BY <2>1, HeadTailProperties
  <2> QED BY <2>1, <2>2, RequestTypes
<1>2. CASE HandleSend
  BY <1>1, <1>2 DEF HandleSend, othersVars
<1>3. CASE HandleLeave
  BY <1>1, <1>3 DEF HandleLeave, othersVars
<1>4. ASSUME NEW d \in Chats, PeerSaves(d)
      PROVE  Saved(d, "peer") /\ routed' = routed \cup {Message(d, Len(db[d]) + 1)}
  BY <1>4 DEF PeerSaves
<1>5. CASE /\ ~HandleSend /\ ~HandleLeave /\ ~(\E d \in Chats : PeerSaves(d))
  <2>1. UNCHANGED db
    BY <1>5 DEF Next, User, Handle, Arrive, Client, OpenChat, SendCurrentInput, LeaveCurrentGroup,
        HandleHistory, HandleUserList, Reply, Deliver, SendList, HandleIncoming, Draw, vars
  <2>2. routed' \subseteq routed
    BY <1>5 DEF Next, User, Handle, Arrive, Client, OpenChat, SendCurrentInput, LeaveCurrentGroup,
        HandleHistory, HandleUserList, Reply, Deliver, SendList, HandleIncoming, Draw, vars, othersVars
  <2> QED BY <2>1, <2>2
<1> QED BY <1>2, <1>3, <1>4, <1>5

LEMMA NextPeers == Types /\ Peers /\ [Next]_vars => Peers'
<1> SUFFICES ASSUME Types, Peers, [Next]_vars, NEW m \in routed'
             PROVE  m.no \in 1 .. Len(db'[m.chat]) /\ db'[m.chat][m.no] # "me"
  BY DEF Peers
<1>1. \A k \in routed : k.chat \in Chats
  BY DEF Types, Messages
<1>2. db \in [Chats -> Seq({"me", "peer", "system"})]
  BY DEF Types
<1>3. CASE m \in routed
  <2>1. m.chat \in Chats /\ m.no \in 1 .. Len(db[m.chat]) /\ db[m.chat][m.no] # "me"
    BY <1>1, <1>3 DEF Peers
  <2>2. CASE UNCHANGED db
    BY <2>1, <2>2
  <2>3. ASSUME NEW d \in Chats, NEW a \in {"me", "peer", "system"}, Saved(d, a)
        PROVE  m.no \in 1 .. Len(db'[m.chat]) /\ db'[m.chat][m.no] # "me"
    <3>1. /\ \A i \in 1 .. Len(db[m.chat]) : db'[m.chat][i] = db[m.chat][i]
          /\ Len(db[m.chat]) \in Nat /\ Len(db'[m.chat]) \in Nat /\ Len(db[m.chat]) <= Len(db'[m.chat])
      BY <1>2, <2>1, <2>3, SavedPlaces
    <3> QED BY <2>1, <3>1
  <2> QED BY <2>2, <2>3, Tables
<1>4. CASE m \notin routed
  <2>1. PICK d \in Chats : Saved(d, "peer") /\ m = Message(d, Len(db[d]) + 1)
    BY <1>4, Tables
  <2>2. m.chat = d /\ m.no = Len(db[d]) + 1
    BY <2>1 DEF Message
  <2>3. Len(db'[d]) = Len(db[d]) + 1 /\ db'[d][Len(db[d]) + 1] = "peer" /\ Len(db[d]) \in Nat
    BY <1>2, <2>1, SavedPlaces
  <2> QED BY <2>2, <2>3
<1> QED BY <1>3, <1>4

(* What the client does not ask and the handler does not read leaves the     *)
(* questions as they are.                                                    *)
LEMMA SameQuestions ==
  UNCHANGED <<up, currentChat>> => (Waiting => Waiting') /\ (NoQuestion => NoQuestion')
BY DEF Waiting, NoQuestion

LEMMA DrawGood ==
  ASSUME Types, view \in Seq(Messages), view' \in Seq(Messages), Draw,
         currentChat \in Chats, pendingHistoryFor = currentChat, Good(Line)
  PROVE  Good(Line)'
<1> DEFINE c == currentChat
           M == Own(db[c])
           n == Len(db[c])
           L == Line
           R == Line'
<1>1. Joins(L, R) /\ L[1] = HistoryFrame(view) /\ L[2] = closure /\ R[1] = HistoryFrame(view')
  BY DrawLine
<1>2. currentChat' = currentChat /\ db' = db /\ Own(db'[currentChat]) = M
  BY DEF Draw, Own
<1>3. n \in Nat
  BY MineType DEF Types
<1>4. PICK j \in 1 .. Len(L) : Shows(L, j, c, M, n)
  BY DEF Good, Sound
<1>5. closure \in Frames
  BY DEF Draw, Types, Carried
<1>6. /\ closure.type = "recv" => closure = RecvFrame(closure.msg)
      /\ closure.type = "history" => closure = HistoryFrame(closure.msgs)
  BY <1>5, Kinds DEF Recvs, Histories, Lists, RecvFrame, HistoryFrame
<1> HIDE DEF L, R, M, n, c
<1>7. Len(L) \in Nat /\ 2 \in 1 .. Len(L) /\ (j > 2 => j - 1 \in 2 .. Len(R) /\ (j - 1) + 1 = j)
  BY <1>1 DEF Joins
<1>8. j > 2 => R[j - 1] = L[j] /\ j > 1
  BY <1>1, <1>7 DEF Joins
<1>9. j = 1 => L[2].type # "history"
  <2>1. j = 1 => 2 \in Later(L, j)
    BY <1>7 DEF Later
  <2> QED BY <1>4, <2>1 DEF Shows
<1>10. j = 2 => closure.type = "history"
  BY <1>1, <1>4 DEF Shows
<1>11. j = 1 \/ j = 2 \/ j > 2
  OBVIOUS
<1>12. \/ \E i \in 1 .. Len(R) : Shows(R, i, c, M, n)
       \/ Shows(R, 1, c, M, n) /\ 1 \in 1 .. Len(R)
  <2>1. CASE closure.type = "recv" /\ closure.msg \in Messages /\ DrawMessage(closure.msg)
    <3>1. CASE j = 1 /\ closure.msg.chat = c
      <4>1. view' = Append(view, closure.msg)
        BY <2>1, <3>1 DEF DrawMessage, c
      <4>2. L[1].msgs = view
        BY <1>1 DEF HistoryFrame
      <4>3. Shows(R, 1, c, M, n)
        BY <1>1, <1>3, <1>4, <1>6, <2>1, <3>1, <4>1, <4>2, DrawFirst
      <4> QED BY <1>1, <4>3 DEF Joins
    <3>2. CASE j = 1 /\ closure.msg.chat # c
      <4>1. R[1] = L[1] /\ ~Brings(L[2], c, M)
        BY <1>1, <2>1, <3>2 DEF DrawMessage, Brings, c
      <4> QED BY <1>1, <1>4, <3>2, <4>1, DrawBefore
    <3>3. CASE j > 2
      BY <1>1, <1>4, <1>8, <3>3, DrawBefore
    <3> QED BY <1>10, <1>11, <2>1, <3>1, <3>2, <3>3
  <2>2. CASE closure.type = "history" /\ DrawHistory(closure.msgs)
    <3>1. CASE j = 2
      <4>1. view' = closure.msgs
        BY <2>2 DEF DrawHistory
      <4>2. R[1] = L[2] /\ 2 - 1 = 1 /\ 2 > 1
        BY <1>1, <1>6, <2>2, <4>1
      <4>3. j > 1 /\ R[j - 1] = L[j]
        BY <3>1, <4>2
      <4> QED BY <1>1, <1>4, <4>3, DrawBefore
    <3>2. CASE j > 2
      BY <1>1, <1>4, <1>8, <3>2, DrawBefore
    <3> QED BY <1>1, <1>9, <1>11, <2>2, <3>1, <3>2
  <2>3. CASE closure.type = "list" /\ RebuildUserList(closure.chats)
    <3>1. R[1] = L[1] /\ ~Brings(L[2], c, M)
      BY <1>1, <2>3 DEF RebuildUserList, Brings
    <3> QED BY <1>1, <1>4, <1>8, <1>10, <1>11, <2>3, <3>1, DrawBefore
  <2> QED BY <2>1, <2>2, <2>3, DrawTypes
<1>13. Sound(R, c, M, n)
  BY <1>12 DEF Sound
<1> QED BY <1>2, <1>13, GoodNext DEF R, c, M, n

(* What the handler answers the open chat's line with. *)
LEMMA SendGood ==
  ASSUME Types, view \in Seq(Messages), HandleSend, currentChat \in Chats, Good(Line)
  PROVE  Good(Line)'
<1> DEFINE c == currentChat
           d == Head(up).chat
           M == Own(db[c])
           n == Len(db[c])
<1>1. /\ handler = <<>> /\ UNCHANGED <<currentChat, view, closure, down>>
      /\ Head(up).type = "send" /\ Head(up) \in Requests
  <2>1. up # <<>> /\ up \in Seq(Requests)
    BY DEF HandleSend, Read, Types, Carried
  <2> QED BY <2>1, HeadTailProperties DEF HandleSend, Read, appVars
<1>2. d \in Chats /\ db \in [Chats -> Seq({"me", "peer", "system"})]
  BY <1>1, RequestTypes DEF Types
<1>3. M \in SUBSET (1 .. n) /\ M \in SUBSET Nat /\ n \in Nat /\ Line \in Seq(Frames) /\ Sound(Line, c, M, n)
  BY <1>2, MineType, LineParts DEF Good
<1>4. \A k \in Nat : RecvFrame(Message(d, k)) \in Frames
  BY <1>2, MessageType, Kinds
<1>5. CASE Saved(d, "me") /\ handler' = <<RecvFrame(Message(d, Len(db[d]) + 1))>>
  <2> DEFINE f == RecvFrame(Message(d, Len(db[d]) + 1))
  <2>1. Len(db[d]) \in Nat /\ f \in Frames
    BY <1>2, <1>4
  <2>2. Line' = Append(Line, f)
    BY <1>1, <1>5, <2>1, HandleLine
  <2>3. CASE d = c
    <3>1. PICK j \in 1 .. Len(Line) : Shows(Line, j, c, M, n)
      BY <1>3 DEF Sound
    <3>2. Shows(Append(Line, f), j, c, M \cup {n + 1}, n + 1)
      BY <1>3, <2>3, <3>1, AppendOwn
    <3>3. Own(db'[c]) = M \cup {n + 1}
      BY <1>2, <1>5, <2>3, SavedMine
    <3>4. Len(db'[c]) = n + 1
      BY <1>2, <1>5, <2>3, SavedPlaces
    <3>5. j \in 1 .. Len(Append(Line, f))
      BY <3>2 DEF Shows
    <3>6. Sound(Line', c, Own(db'[c]), Len(db'[c]))
      BY <2>2, <3>2, <3>3, <3>4, <3>5 DEF Sound
    <3> QED BY <1>1, <3>6, GoodNext
  <2>4. CASE d # c
    <3>1. Dull(f, c, M, n)
      <4>1. Message(d, Len(db[d]) + 1).chat # c
        BY <2>4 DEF Message
      <4> QED BY <1>3, <4>1, DullFrames
    <3>2. Sound(Line', c, M, n)
      BY <1>3, <2>1, <2>2, <3>1, SoundAppend
    <3>3. Sound(Line', c, Own(db'[c]), Len(db'[c]))
      BY <1>2, <1>5, <2>4, <3>2, SoundSaved
    <3> QED BY <1>1, <3>3, GoodNext
  <2> QED BY <2>3, <2>4
<1>6. CASE handler' = <<RecvFrame(Message(d, 0))>> /\ UNCHANGED db
  <2> DEFINE f == RecvFrame(Message(d, 0))
  <2>1. f \in Frames /\ Dull(f, c, M, n)
    BY <1>3, <1>4, DullFrames
  <2>2. Line' = Append(Line, f)
    BY <1>1, <1>6, <2>1, HandleLine
  <2>3. Sound(Line', c, M, n)
    BY <1>3, <2>1, <2>2, SoundAppend
  <2>4. Own(db'[c]) = M /\ Len(db'[c]) = n
    BY <1>1, <1>6 DEF Own
  <2> QED BY <1>1, <2>3, <2>4, GoodNext
<1>7. CASE handler' = <<>> /\ UNCHANGED db
  <2>1. Line' = Line
    BY <1>1, <1>3, <1>7, HandleLine
  <2>2. Own(db'[c]) = M /\ Len(db'[c]) = n
    BY <1>1, <1>7 DEF Own
  <2> QED BY <1>1, <1>3, <2>1, <2>2, GoodNext
<1> QED BY <1>5, <1>6, <1>7 DEF HandleSend

LEMMA LeaveGood ==
  ASSUME Types, view \in Seq(Messages), HandleLeave, currentChat \in Chats, Good(Line)
  PROVE  Good(Line)'
<1> DEFINE c == currentChat
           d == Head(up).chat
           M == Own(db[c])
           n == Len(db[c])
<1>1. /\ handler = <<>> /\ UNCHANGED <<currentChat, view, closure, down>>
      /\ Head(up).type = "leave" /\ Head(up) \in Requests
  <2>1. up # <<>> /\ up \in Seq(Requests)
    BY DEF HandleLeave, Read, Types, Carried
  <2> QED BY <2>1, HeadTailProperties DEF HandleLeave, Read, appVars
<1>2. d \in Chats /\ db \in [Chats -> Seq({"me", "peer", "system"})]
  BY <1>1, RequestTypes DEF Types
<1>3. M \in SUBSET (1 .. n) /\ M \in SUBSET Nat /\ n \in Nat /\ Line \in Seq(Frames) /\ Sound(Line, c, M, n)
  BY <1>2, MineType, LineParts DEF Good
<1>4. Sound(Line', c, M, n)
  <2>1. CASE handler' = <<>>
    BY <1>1, <1>3, <2>1, HandleLine
  <2>2. ASSUME NEW S \in SUBSET Chats, handler' = <<RecvFrame(Message(d, 0)), ListFrame(S)>>
        PROVE  Sound(Line', c, M, n)
    <3> DEFINE f == RecvFrame(Message(d, 0))
               g == ListFrame(S)
    <3>1. f \in Frames /\ Dull(f, c, M, n)
      BY <1>2, <1>3, MessageType, Kinds, DullFrames
    <3>2. g \in Frames /\ Dull(g, c, M, n)
      BY <1>3, Kinds, DullFrames
    <3>3. Line' = Append(Append(Line, f), g)
      BY <1>1, <2>2, <3>1, <3>2, HandleLine
    <3> HIDE DEF f, g
    <3>4. Append(Line, f) \in Seq(Frames) /\ Sound(Append(Line, f), c, M, n)
      BY <1>3, <3>1, SoundAppend
    <3> QED BY <1>3, <3>2, <3>3, <3>4, SoundAppend
  <2> QED BY <2>1, <2>2 DEF HandleLeave
<1>5. CASE UNCHANGED db
  <2>1. Own(db'[c]) = M /\ Len(db'[c]) = n
    BY <1>1, <1>5 DEF Own
  <2> QED BY <1>1, <1>4, <2>1, GoodNext
<1>6. CASE Saved(d, "system")
  <2>1. Sound(Line', c, Own(db'[c]), Len(db'[c]))
    BY <1>2, <1>4, <1>6, SoundSaved
  <2> QED BY <1>1, <2>1, GoodNext
<1> QED BY <1>5, <1>6 DEF HandleLeave

LEMMA HistoryGood ==
  ASSUME Types, view \in Seq(Messages), HandleHistory, "answer" \notin dropped',
         currentChat \in Chats, Head(up).chat = currentChat
  PROVE  Good(Line)'
<1> DEFINE c == currentChat
           f == HistoryFrame(HistoryOf(c))
<1>1. handler = <<>> /\ handler' = <<f>> /\ UNCHANGED <<currentChat, view, closure, down, db>>
  BY DEF HandleHistory, Read, appVars
<1>2. db \in [Chats -> Seq({"me", "peer", "system"})] /\ Line \in Seq(Frames)
  BY LineParts DEF Types
<1>3. f \in Frames
  BY <1>2, HistoryType, Kinds
<1>4. Line' = Append(Line, f)
  BY <1>1, <1>3, HandleLine
<1>5. Shows(Append(Line, f), Len(Line) + 1, c, Own(db[c]), Len(db[c]))
  BY <1>2, AppendHistory
<1>6. Len(Line) + 1 \in 1 .. Len(Append(Line, f))
  BY <1>5 DEF Shows
<1>7. Sound(Line', c, Own(db[c]), Len(db[c]))
  BY <1>4, <1>5, <1>6 DEF Sound
<1>8. Own(db'[c]) = Own(db[c]) /\ Len(db'[c]) = Len(db[c])
  BY <1>1 DEF Own
<1> QED BY <1>1, <1>7, <1>8, GoodNext

(* What others send goes before what the handler has still to send. *)
LEMMA OthersGood ==
  ASSUME Types, view \in Seq(Messages), currentChat \in Chats, Good(Line),
         UNCHANGED <<currentChat, view, closure, handler, db>>,
         NEW f \in Frames, down' \in {down, Append(down, f)},
         Dull(f, currentChat, Own(db[currentChat]), Len(db[currentChat]))
  PROVE  Good(Line)'
<1> DEFINE c == currentChat
           M == Own(db[c])
           n == Len(db[c])
<1>1. M \in SUBSET Nat /\ n \in Nat /\ Sound(Line, c, M, n)
  BY MineType DEF Good, Types
<1>2. CASE down' = down
  BY <1>2 DEF Good, Line, Front, Closing, Own
<1>3. CASE down' = Append(down, f)
  <2>1. Line' = Append(Front, f) \o handler
    BY <1>3, DeliverLine
  <2>2. Front \in Seq(Frames) /\ handler \in Seq(Frames) /\ Line = Front \o handler
    BY LineParts DEF Line
  <2>3. Sound(Line', c, M, n)
    BY <1>1, <2>1, <2>2, SoundInsert
  <2>4. Own(db'[c]) = M /\ Len(db'[c]) = n
    BY DEF Own
  <2> QED BY <2>3, <2>4, GoodNext
<1> QED BY <1>2, <1>3

LEMMA NextSettling == Types /\ Rest /\ Peers /\ Settling /\ [Next]_vars => Settling'
<1> SUFFICES ASSUME Types, Rest, Peers, Settling, [Next]_vars PROVE Settling'
  OBVIOUS
<1> DEFINE Asked  == Waiting \/ (NoQuestion /\ Good(Line))
           Stays  == UNCHANGED <<currentChat, pendingHistoryFor>>
           Quiet  == "answer" \notin dropped' => "answer" \notin dropped
<1>a. view \in Seq(Messages) /\ view' \in Seq(Messages)
  BY NextRest DEF Rest
<1>b. currentChat # NoChat => currentChat \in Chats
  BY DEF Types
<1>c. ASSUME Stays, Quiet, currentChat # NoChat /\ "answer" \notin dropped' /\ Asked => Asked'
      PROVE  Settling'
  BY <1>c DEF Settling
<1> HIDE DEF Asked
<1>1. ASSUME NEW c \in Chats, OpenChat(c) PROVE Settling'
  <2>1. Waiting'
    BY <1>1, OpensWaiting
  <2> QED BY <1>1, <2>1 DEF OpenChat, Settling
<1>2. CASE LeaveCurrentGroup
  BY <1>2 DEF LeaveCurrentGroup, Settling
<1>3. CASE SendCurrentInput
  <2>1. Act(Request("send", currentChat)) /\ Request("send", currentChat).type # "history"
        /\ UNCHANGED <<appVars, down, handler, db, dropped>>
    BY <1>3 DEF SendCurrentInput, Request
  <2>2. (Waiting => Waiting') /\ (NoQuestion => NoQuestion')
    BY <2>1, Asks DEF appVars
  <2>3. Good(Line) => Good(Line)'
    BY <2>1 DEF Good, Line, Front, Closing, appVars
  <2> QED BY <1>c, <2>1, <2>2, <2>3 DEF Asked, appVars
<1>4. CASE HandleSend
  <2>1. (Waiting => Waiting') /\ (NoQuestion => NoQuestion') /\ Stays /\ UNCHANGED dropped
    BY <1>4, Reads DEF HandleSend, appVars
  <2>2. currentChat # NoChat /\ Good(Line) => Good(Line)'
    BY <1>4, <1>a, <1>b, SendGood
  <2> QED BY <1>c, <2>1, <2>2 DEF Asked
<1>5. CASE HandleLeave
  <2>1. (Waiting => Waiting') /\ (NoQuestion => NoQuestion') /\ Stays /\ UNCHANGED dropped
    BY <1>5, Reads DEF HandleLeave, appVars
  <2>2. currentChat # NoChat /\ Good(Line) => Good(Line)'
    BY <1>5, <1>a, <1>b, LeaveGood
  <2> QED BY <1>c, <2>1, <2>2 DEF Asked
<1>6. CASE HandleHistory
  <2>1. Stays /\ Quiet /\ Read("history")
    BY <1>6 DEF HandleHistory, appVars
  <2>2. ~NoQuestion /\ (Waiting => Waiting' \/ (NoQuestion' /\ Head(up).chat = currentChat))
    BY <2>1, Reads
  <2>3. currentChat # NoChat /\ "answer" \notin dropped' /\ Head(up).chat = currentChat => Good(Line)'
    BY <1>6, <1>a, <1>b, HistoryGood
  <2> QED BY <1>c, <2>1, <2>2, <2>3 DEF Asked
<1>7. CASE HandleUserList
  <2>1. /\ (Waiting => Waiting') /\ (NoQuestion => NoQuestion') /\ Stays
        /\ UNCHANGED <<dropped, db, view, closure, down>> /\ handler = <<>>
    BY <1>7, Reads DEF HandleUserList, appVars, Read
  <2>2. PICK S \in SUBSET Chats : handler' = <<ListFrame(S)>>
    BY <1>7 DEF HandleUserList
  <2>3. ListFrame(S) \in Frames
    BY Kinds
  <2>4. Line = Front /\ Line' = Append(Line, ListFrame(S)) /\ Line \in Seq(Frames)
    BY <1>a, <2>1, <2>2, <2>3, HandleLine, LineParts
  <2>5. ASSUME currentChat # NoChat, Good(Line) PROVE Good(Line)'
    <3> DEFINE M == Own(db[currentChat])
               n == Len(db[currentChat])
    <3>1. M \in SUBSET (1 .. n) /\ M \in SUBSET Nat /\ n \in Nat
      BY <1>b, <2>5, MineType DEF Types
    <3>2. Sound(Line, currentChat, M, n) /\ Dull(ListFrame(S), currentChat, M, n)
      BY <2>5, <3>1, DullFrames DEF Good
    <3>3. Sound(Line', currentChat, M, n)
      BY <2>3, <2>4, <3>1, <3>2, SoundAppend
    <3> QED BY <2>1, <3>3, GoodNext
  <2> QED BY <1>c, <2>1, <2>5 DEF Asked
<1>8. CASE Reply \/ HandleIncoming
  <2>1. Stays /\ Quiet /\ UNCHANGED <<up, db>>
    BY <1>8 DEF Reply, HandleIncoming, appVars
  <2>2. "answer" \notin dropped' => Line' = Line
    BY <1>8, <1>a, ReplyLine, IncomingLine
  <2>3. "answer" \notin dropped' /\ Good(Line) => Good(Line)'
    BY <2>1, <2>2 DEF Good
  <2> QED BY <1>c, <2>1, <2>3, SameQuestions DEF Asked
<1>9. CASE Draw
  <2>1. Stays /\ UNCHANGED <<up, dropped>>
    BY <1>9 DEF Draw, streamVars
  <2>2. currentChat # NoChat /\ Good(Line) => Good(Line)'
    BY <1>9, <1>a, <1>b, DrawGood DEF Settling
  <2> QED BY <1>c, <2>1, <2>2, SameQuestions DEF Asked
<1>10. ASSUME NEW m \in routed, Deliver(m) PROVE Settling'
  <2>1. /\ Stays /\ UNCHANGED <<up, view, closure, handler, db>> /\ Quiet
        /\ down' \in {down, Append(down, RecvFrame(m))}
    BY <1>10 DEF Deliver, appVars
  <2>2. m \in Messages /\ m.chat \in Chats /\ m.no \in 1 .. Len(db[m.chat]) /\ db[m.chat][m.no] # "me"
    BY DEF Types, Messages, Peers
  <2>3. ASSUME currentChat # NoChat, Good(Line) PROVE Good(Line)'
    <3> DEFINE M == Own(db[currentChat])
               n == Len(db[currentChat])
    <3>1. M \in SUBSET (1 .. n) /\ n \in Nat
      BY <1>b, <2>3, MineType DEF Types
    <3>2. m.chat = currentChat => m.no \notin M /\ m.no <= n
      BY <2>2, <3>1 DEF Own
    <3>3. Dull(RecvFrame(m), currentChat, M, n)
      <4> HIDE DEF M, n
      <4> QED BY <3>1, <3>2, DullFrames
    <3>4. RecvFrame(m) \in Frames
      BY <2>2, Kinds
    <3> QED BY <1>a, <1>b, <2>1, <2>3, <3>3, <3>4, OthersGood
  <2> QED BY <1>c, <2>1, <2>3, SameQuestions DEF Asked
<1>11. ASSUME NEW c \in Chats, PeerSaves(c) PROVE Settling'
  <2>1. /\ Stays /\ UNCHANGED <<up, view, closure, down, handler, dropped>> /\ Saved(c, "peer")
    BY <1>11 DEF PeerSaves, appVars, streamVars
  <2>2. ASSUME currentChat # NoChat, Good(Line) PROVE Good(Line)'
    <3>1. Line' = Line
      BY <2>1 DEF Line, Front, Closing
    <3>2. Sound(Line, currentChat, Own(db'[currentChat]), Len(db'[currentChat]))
      BY <1>b, <2>1, <2>2, SoundSaved DEF Good
    <3> QED BY <2>1, <3>1, <3>2, GoodNext
  <2> QED BY <1>c, <2>1, <2>2, SameQuestions DEF Asked
<1>12. CASE SendList
  <2>1. PICK S \in SUBSET Chats : down' = Append(down, ListFrame(S))
    BY <1>12 DEF SendList
  <2>2. Stays /\ UNCHANGED <<up, view, closure, handler, db, dropped>>
    BY <1>12 DEF SendList, appVars
  <2>3. ASSUME currentChat # NoChat, Good(Line) PROVE Good(Line)'
    <3>1. Dull(ListFrame(S), currentChat, Own(db[currentChat]), Len(db[currentChat]))
      BY <1>b, <2>3, MineType, DullFrames DEF Types
    <3>2. ListFrame(S) \in Frames
      BY Kinds
    <3> QED BY <1>a, <1>b, <2>1, <2>2, <2>3, <3>1, <3>2, OthersGood
  <2> QED BY <1>c, <2>2, <2>3, SameQuestions DEF Asked
<1>13. CASE UNCHANGED vars
  <2>1. Stays /\ UNCHANGED <<up, view, closure, down, handler, db, dropped>>
    BY <1>13 DEF vars, appVars, streamVars
  <2>2. Good(Line) => Good(Line)'
    BY <2>1 DEF Good, Line, Front, Closing
  <2> QED BY <1>c, <2>1, <2>2, SameQuestions DEF Asked
<1> QED BY <1>1, <1>2, <1>3, <1>4, <1>5, <1>6, <1>7, <1>8, <1>9, <1>10, <1>11, <1>12, <1>13
        DEF Next, User, Handle, Arrive, Client

LEMMA SettledShows == Types /\ Rest /\ Settling => ViewSettles
<1> SUFFICES ASSUME Types, Rest, Settling, Settled, "answer" \notin dropped, currentChat # NoChat
             PROVE  LET mine == Mine(currentChat)
                    IN /\ \A i \in DOMAIN view : view[i].chat = currentChat
                       /\ \A i, j \in DOMAIN view :
                            i < j /\ view[i].no \in mine /\ view[j].no \in mine => view[i].no < view[j].no
                       /\ \A n \in mine :
                            \/ \E i \in DOMAIN view : view[i].no = n
                            \/ /\ n <= Len(db[currentChat]) - HistoryLimit
                               /\ \A i \in DOMAIN view : view[i].no \in mine => n < view[i].no
  BY DEF ViewSettles
<1> DEFINE H == <<HistoryFrame(view)>>
<1>1. Len(up) = 0
  BY DEF Settled
<1>2. Good(Line)
  BY <1>1 DEF Settling, Waiting
<1>3. H \in Seq(Frames) /\ Closing = <<>> /\ down = <<>> /\ handler = <<>>
  BY LineParts DEF Settled, Closing, Rest
<1>4. Line = H
  BY <1>3, ConcatEmptySeq DEF Line, Front
<1>5. Len(H) = 1 /\ H[1].msgs = view
  BY DEF HistoryFrame
<1>6. PICK j \in 1 .. 1 : Shows(H, j, currentChat, Own(db[currentChat]), Len(db[currentChat]))
  BY <1>2, <1>4, <1>5 DEF Good, Sound
<1>7. j = 1 /\ Later(H, j) = {}
  BY <1>5, <1>6 DEF Later
<1>8. Mine(currentChat) = Own(db[currentChat])
  BY DEF Mine, Own
<1> HIDE DEF H
<1> QED BY <1>5, <1>6, <1>7, <1>8 DEF Shows

LEMMA InitSettling == Init => Peers /\ Settling
BY DEF Init, Peers, Settling

(* Once the user waits for the client and the server to be done, the view is *)
(* of the chat that is open, whatever he opened before and however slowly it *)
(* was answered, and shows what he wrote there once and in order: all of it  *)
(* but what is older than the history goes and than all of his that it shows. *)
THEOREM ViewComesRight == Spec => []ViewSettles
<1>1. Init => Types /\ Rest /\ Peers /\ Settling
  BY InitTypes, InitRest, InitSettling
<1>2. Types /\ Rest /\ Peers /\ Settling /\ [Next]_vars => (Types /\ Rest /\ Peers /\ Settling)'
  BY NextTypes, NextRest, NextPeers, NextSettling
<1> QED BY <1>1, <1>2, SettledShows, PTL DEF Spec
=============================================================================
