------------------------------- MODULE Hub -------------------------------
(***************************************************************************)
(* The server's central router and the goroutines around it:               *)
(*                                                                         *)
(*   hub      Hub.Run, one goroutine: it selects on the register,          *)
(*            unregister and route channels and owns the map clients.      *)
(*   handler  Server.handleConn, one goroutine per connection: it          *)
(*            registers, runs the read loop, unregisters and tells the     *)
(*            others.                                                      *)
(*   writer   the goroutine a handler starts to drain its connection's     *)
(*            send channel to the wire.                                    *)
(*                                                                         *)
(* A connection (a *clientConn) lives once: a user who logs in again gets  *)
(* another connection, and UserOf says whose each one is.  Handlers read   *)
(* the map under Hub.mu.RLock, the hub changes it under Hub.mu.Lock.       *)
(* Every send into a send channel is a Go select with a default branch: it *)
(* appends, or drops the envelope when the buffer is full, and it panics   *)
(* when the channel is closed.                                             *)
(***************************************************************************)
EXTENDS Naturals, Sequences, FiniteSets, Functions

CONSTANTS
  Conns,          \* the connections that authenticate during a behaviour
  Users,          \* usernames
  UserOf,         \* the username each connection authenticated as
  Groups,         \* the member lists the database may return for a group
  NoConn,         \* not a connection: a username that is not in the map
  RegisterCap,    \* capacity of Hub.register (8 in the code)
  UnregisterCap,  \* capacity of Hub.unregister (8)
  RouteCap,       \* capacity of Hub.route (256)
  SendCap,        \* capacity of clientConn.send (64)
  Requests,       \* the kinds of frame the clients of an instance send
  MaxFrames,      \* bound of the model: how many frames each client sends
  Endless         \* the clients that bound does not hold for: they never have
                  \* to stop, and what they send and are sent is not told apart

ASSUME HubAssumption ==
  /\ UserOf \in [Conns -> Users]
  /\ Groups \subseteq SUBSET Users
  /\ NoConn \notin Conns
  /\ Requests \subseteq {"dm", "group", "typing", "list", "answer"}
  /\ {RegisterCap, UnregisterCap, RouteCap, SendCap} \subseteq Nat \ {0}
  /\ MaxFrames \in [Conns -> Nat]
  /\ Endless \subseteq Conns

VARIABLES
  pc,          \* pc[c]: where c's handler goroutine is
  writer,      \* writer[c]: c's writer goroutine
  hub,         \* what the hub goroutine has taken from a channel and not applied
  registerQ,   \* Hub.register
  unregisterQ, \* Hub.unregister
  routeQ,      \* Hub.route
  clients,     \* Hub.clients: username -> connection, or NoConn
  send,        \* send[c]: the buffer of c's send channel
  closed,      \* closed[c]: whether c's send channel was closed
  job,         \* job[c]: the envelope c's handler is passing on
  todo,        \* todo[c]: the connections c's handler has still to offer it to
  frames,      \* frames[c]: how many frames c's read loop has decoded
  sent,        \* sent[c]: the chat messages c's client has sent, in order
  got,         \* got[c][s][l]: the messages of s written to c's wire on lane l
  panicked     \* a goroutine sent on a closed channel: the process is gone

handlerVars == <<pc, job, todo, frames, sent>>
hubVars     == <<hub, registerQ, unregisterQ, routeQ, clients>>
wireVars    == <<writer, got>>
sendVars    == <<send, closed, panicked>>
vars == <<handlerVars, hubVars, wireVars, sendVars>>

-----------------------------------------------------------------------------
(* Envelopes.  The payload is abstracted to what the properties tell apart:  *)
(* who sent it and in which order, and the usernames that go with it (the    *)
(* online list of a user_list_resp, the addressees of a message).  A chat    *)
(* message reaches a client on one of three lanes: as the sender's echo, as  *)
(* a direct message that went through the hub, or from a loop over a group.  *)
(* A notice is a typing notification, an error text, a page of history, or   *)
(* whatever an endless client sends or is sent.                              *)

ChatKinds == {"dm", "group"}
Lanes     == ChatKinds \cup {"echo"}
Kinds     == Lanes \cup {"list", "notice"}
Envelope  == [kind : Kinds, from : Conns \cup {NoConn}, seq : Nat, names : SUBSET Users]

List(S)   == [kind |-> "list", from |-> NoConn, seq |-> 0, names |-> S]
Notice(S) == [kind |-> "notice", from |-> NoConn, seq |-> 0, names |-> S]
Chat(l, c, S) ==
  IF c \in Endless
  THEN Notice(S)
  ELSE [kind |-> l, from |-> c, seq |-> Len(sent[c]) + 1, names |-> S]

(* The critical sections of Hub.mu, by the handlers that hold it for reading. *)
Sending == {"helloSend", "groupSend", "goodbyeSend"}
Readers == {c \in Conns : pc[c] \in Sending}

PcValues == Sending \cup
  {"idle", "register", "hello", "welcome", "reading", "listing", "routing",
   "group", "unregister", "goodbye", "done"}

(* No new RLock is granted while the hub waits for Lock. *)
CanRLock == ~hub.locking

(* The hub at its select. *)
AtSelect == [op |-> "idle", conn |-> NoConn, locking |-> FALSE]

Online     == {u \in Users : clients[u] # NoConn}
Registered(S) == {clients[u] : u \in S} \ {NoConn}

AsSent(d, e) == IF d \in Endless THEN Notice({}) ELSE e

(* Variant: the buffer grows instead of dropping. *)
OfferUnbounded(d, e) ==
  /\ panicked' = closed[d]
  /\ send' = IF ~closed[d]
             THEN [send EXCEPT ![d] = Append(@, AsSent(d, e))]
             ELSE send
  /\ UNCHANGED closed

(* select { case d.send <- e: default: } *)
Offer(d, e) ==
  /\ panicked' = closed[d]
  /\ send' = IF ~closed[d] /\ Len(send[d]) < SendCap
             THEN [send EXCEPT ![d] = Append(@, AsSent(d, e))]
             ELSE send
  /\ UNCHANGED closed

Goto(c, from, to) ==
  /\ pc[c] = from
  /\ pc' = [pc EXCEPT ![c] = to]

(* The envelope is a local of the function that passes it on. *)
Passed(c) == job' = [job EXCEPT ![c] = Notice({})]

Init ==
  /\ pc = [c \in Conns |-> "idle"]
  /\ writer = [c \in Conns |-> "none"]
  /\ hub = AtSelect
  /\ registerQ = <<>> /\ unregisterQ = <<>> /\ routeQ = <<>>
  /\ clients = [u \in Users |-> NoConn]
  /\ send = [c \in Conns |-> <<>>]
  /\ closed = [c \in Conns |-> FALSE]
  /\ job = [c \in Conns |-> Notice({})]
  /\ todo = [c \in Conns |-> {}]
  /\ frames = [c \in Conns |-> 0]
  /\ sent = [c \in Conns |-> <<>>]
  /\ got = [c \in Conns |-> [s \in Conns |-> [l \in Lanes |-> <<>>]]]
  /\ panicked = FALSE

-----------------------------------------------------------------------------
(* handleConn: from authentication to the read loop. *)

Login(c) ==
  /\ Goto(c, "idle", "register")
  /\ UNCHANGED <<job, todo, frames, sent, hubVars, wireVars, sendVars>>

(* Variant: a default branch, so a full register channel loses the client. *)
RegisterOrSkip(c) ==
  /\ Goto(c, "register", "hello")
  /\ registerQ' = IF Len(registerQ) < RegisterCap THEN Append(registerQ, c) ELSE registerQ
  /\ UNCHANGED <<job, todo, frames, sent, hub, unregisterQ, routeQ, clients, wireVars, sendVars>>

(* s.hub.register <- client *)
Register(c) ==
  /\ Goto(c, "register", "hello")
  /\ Len(registerQ) < RegisterCap
  /\ registerQ' = Append(registerQ, c)
  /\ UNCHANGED <<job, todo, frames, sent, hub, unregisterQ, routeQ, clients, wireVars, sendVars>>

(* broadcastUserList takes the read lock and its snapshot of the map; a     *)
(* newcomer adds itself to the online set, for the hub may not know it yet. *)
BroadcastUserList(c, from, to, newcomer) ==
  /\ Goto(c, from, to)
  /\ CanRLock
  /\ job' = [job EXCEPT ![c] = List(Online \cup newcomer)]
  /\ todo' = [todo EXCEPT ![c] = Registered(Users)]
  /\ UNCHANGED <<frames, sent, hubVars, wireVars, sendVars>>

Hello(c)   == BroadcastUserList(c, "hello", "helloSend", {UserOf[c]})
Goodbye(c) == BroadcastUserList(c, "goodbye", "goodbyeSend", {})

(* One iteration of a loop over the registered clients, under the read lock. *)
Fanout(c) ==
  /\ pc[c] \in Sending
  /\ \E d \in todo[c] :
       /\ Offer(d, job[c])
       /\ todo' = [todo EXCEPT ![c] = @ \ {d}]
  /\ UNCHANGED <<pc, job, frames, sent, hubVars, wireVars>>

(* RUnlock, and on with the handler.  After the farewell the deferred        *)
(* conn.Close runs and the handler is done.                                  *)
FanoutDone(c) ==
  /\ todo[c] = {}
  /\ \/ Goto(c, "helloSend", "welcome") /\ UNCHANGED job
     \/ Goto(c, "groupSend", "reading") /\ Passed(c)
     \/ Goto(c, "goodbyeSend", "done") /\ Passed(c)
  /\ UNCHANGED <<todo, frames, sent, hubVars, wireVars, sendVars>>

(* The newcomer's own copy, sent after RUnlock; then the writer is started. *)
Welcome(c) ==
  /\ Goto(c, "welcome", "reading")
  /\ Offer(c, job[c])
  /\ Passed(c)
  /\ writer' = [writer EXCEPT ![c] = "running"]
  /\ UNCHANGED <<todo, frames, sent, hubVars, got>>

-----------------------------------------------------------------------------
(* readLoop: one frame of the client each. *)

Decode(c, r, to) ==
  /\ r \in Requests
  /\ Goto(c, "reading", to)
  /\ \/ /\ c \in Endless
        /\ UNCHANGED frames
     \/ /\ c \notin Endless /\ frames[c] < MaxFrames[c]
        /\ frames' = [frames EXCEPT ![c] = @ + 1]

(* A frame that only earns an answer: handleHistoryReq, or an error for a    *)
(* message over the rate limit (consumeToken is FALSE) or an invalid payload. *)
AnswerOnly(c) ==
  /\ Decode(c, "answer", "reading")
  /\ Offer(c, Notice({}))
  /\ UNCHANGED <<job, todo, sent, hubVars, wireVars>>

(* A client of c sends a message of kind k to the users S: the handler stamps *)
(* it and echoes it into its own send channel.                               *)
Echo(c, k, S) ==
  /\ sent' = IF c \in Endless
             THEN sent
             ELSE [sent EXCEPT ![c] = Append(@, [kind |-> k, to |-> S])]
  /\ job' = [job EXCEPT ![c] = Chat(k, c, S)]
  /\ Offer(c, Chat("echo", c, S))

(* handleSendMsg up to the echo.  Any user may be the addressee, the sender *)
(* himself too: then the hub brings him back what he was echoed.            *)
SendMsg(c, u) ==
  /\ Decode(c, "dm", "routing")
  /\ Echo(c, "dm", {u})
  /\ UNCHANGED <<todo, hubVars, wireVars>>

(* s.hub.route <- routeMsg{...}, which blocks while the channel is full. *)
Route(c) ==
  /\ Goto(c, "routing", "reading")
  /\ Len(routeQ) < RouteCap
  /\ routeQ' = Append(routeQ, job[c])
  /\ Passed(c)
  /\ UNCHANGED <<todo, frames, sent, hub, registerQ, unregisterQ, clients, wireVars, sendVars>>

(* handleGroupMsg up to the echo.  The members G are the database's answer. *)
GroupMsg(c, G) ==
  /\ Decode(c, "group", "group")
  /\ Echo(c, "group", G)
  /\ UNCHANGED <<todo, hubVars, wireVars>>

(* handleTyping towards a group: no echo. *)
TypingGroup(c, G) ==
  /\ Decode(c, "typing", "group")
  /\ job' = [job EXCEPT ![c] = Notice(G)]
  /\ UNCHANGED <<todo, sent, hubVars, wireVars, sendVars>>

(* RLock for the loop over the members, which skips the sender. *)
GroupLock(c) ==
  /\ Goto(c, "group", "groupSend")
  /\ CanRLock
  /\ todo' = [todo EXCEPT ![c] = Registered(job[c].names \ {UserOf[c]})]
  /\ UNCHANGED <<job, frames, sent, hubVars, wireVars, sendVars>>

(* handleTyping towards a user: lookup and send in one read lock. *)
Typing(c, u) ==
  /\ Decode(c, "typing", "reading")
  /\ CanRLock
  /\ \/ clients[u] = NoConn /\ UNCHANGED sendVars
     \/ clients[u] # NoConn /\ Offer(clients[u], Notice({u}))
  /\ UNCHANGED <<job, todo, sent, hubVars, wireVars>>

(* handleUserListReq: OnlineUsers under the lock, the answer after it. *)
UserListReq(c) ==
  /\ Decode(c, "list", "listing")
  /\ CanRLock
  /\ job' = [job EXCEPT ![c] = List(Online)]
  /\ UNCHANGED <<todo, sent, hubVars, wireVars, sendVars>>

UserListResp(c) ==
  /\ Goto(c, "listing", "reading")
  /\ Offer(c, job[c])
  /\ Passed(c)
  /\ UNCHANGED <<todo, frames, sent, hubVars, wireVars>>

(* Variant: the handler unregisters here and again in its defer. *)
LeaveUnregister(c) ==
  /\ Goto(c, "reading", "unregister")
  /\ Len(unregisterQ) < UnregisterCap
  /\ unregisterQ' = Append(unregisterQ, c)
  /\ UNCHANGED <<job, todo, frames, sent, hub, registerQ, routeQ, clients, wireVars, sendVars>>

(* The read loop ends: the connection broke, or the account was deleted. *)
Leave(c) ==
  /\ Goto(c, "reading", "unregister")
  /\ UNCHANGED <<job, todo, frames, sent, hubVars, wireVars, sendVars>>

(* The deferred s.hub.unregister <- client. *)
Unregister(c) ==
  /\ Goto(c, "unregister", "goodbye")
  /\ Len(unregisterQ) < UnregisterCap
  /\ unregisterQ' = Append(unregisterQ, c)
  /\ UNCHANGED <<job, todo, frames, sent, hub, registerQ, routeQ, clients, wireVars, sendVars>>

-----------------------------------------------------------------------------
(* Hub.Run: select receives from any channel that is ready. *)

(* Variant: the hub empties the route channel first, and whoever waits to    *)
(* send on it has his message in it at once.                                 *)
HubTakeRegisterLast ==
  /\ hub.op = "idle" /\ registerQ # <<>> /\ routeQ = <<>>
  /\ \A c \in Conns : pc[c] # "routing"
  /\ hub' = [op |-> "register", conn |-> Head(registerQ), locking |-> FALSE]
  /\ registerQ' = Tail(registerQ)
  /\ UNCHANGED <<unregisterQ, routeQ, clients, handlerVars, wireVars, sendVars>>

HubTakeRegister ==
  /\ hub.op = "idle" /\ registerQ # <<>>
  /\ hub' = [op |-> "register", conn |-> Head(registerQ), locking |-> FALSE]
  /\ registerQ' = Tail(registerQ)
  /\ UNCHANGED <<unregisterQ, routeQ, clients, handlerVars, wireVars, sendVars>>

HubTakeUnregister ==
  /\ hub.op = "idle" /\ unregisterQ # <<>>
  /\ hub' = [op |-> "unregister", conn |-> Head(unregisterQ), locking |-> FALSE]
  /\ unregisterQ' = Tail(unregisterQ)
  /\ UNCHANGED <<registerQ, routeQ, clients, handlerVars, wireVars, sendVars>>

(* h.mu.Lock is called while handlers hold RLock, and has to wait. *)
HubLock ==
  /\ hub.op # "idle" /\ ~hub.locking /\ Readers # {}
  /\ hub' = [hub EXCEPT !.locking = TRUE]
  /\ UNCHANGED <<registerQ, unregisterQ, routeQ, clients, handlerVars, wireVars, sendVars>>

(* Lock is granted when no handler holds RLock, at once if none does. *)
Locked(op) == hub.op = op /\ Readers = {}

HubRegister ==
  /\ Locked("register")
  /\ clients' = [clients EXCEPT ![UserOf[hub.conn]] = hub.conn]
  /\ hub' = AtSelect
  /\ UNCHANGED <<registerQ, unregisterQ, routeQ, handlerVars, wireVars, sendVars>>

(* Variant: mu.Lock is missing. *)
HubUnregisterUnlocked ==
  /\ hub.op = "unregister"
  /\ hub' = AtSelect
  /\ \/ /\ clients[UserOf[hub.conn]] = NoConn
        /\ UNCHANGED <<clients, closed, panicked>>
     \/ /\ clients[UserOf[hub.conn]] # NoConn
        /\ clients' = [clients EXCEPT ![UserOf[hub.conn]] = NoConn]
        /\ panicked' = closed[hub.conn]
        /\ closed' = [closed EXCEPT ![hub.conn] = TRUE]
  /\ UNCHANGED <<registerQ, unregisterQ, routeQ, handlerVars, wireVars, send>>

(* Variant: the entry is not deleted from the map. *)
HubUnregisterKeep ==
  /\ Locked("unregister")
  /\ hub' = AtSelect
  /\ \/ /\ clients[UserOf[hub.conn]] = NoConn
        /\ UNCHANGED <<clients, closed, panicked>>
     \/ /\ clients[UserOf[hub.conn]] # NoConn
        /\ UNCHANGED clients
        /\ panicked' = closed[hub.conn]
        /\ closed' = [closed EXCEPT ![hub.conn] = TRUE]
  /\ UNCHANGED <<registerQ, unregisterQ, routeQ, handlerVars, wireVars, send>>

(* Variant: returning early for a name that is not on the map, the hub      *)
(* keeps the lock, and whoever locks next waits for ever.                   *)
HubUnregisterLocked ==
  /\ Locked("unregister")
  /\ hub' = AtSelect
  /\ clients[UserOf[hub.conn]] # NoConn
  /\ clients' = [clients EXCEPT ![UserOf[hub.conn]] = NoConn]
  /\ panicked' = closed[hub.conn]
  /\ closed' = [closed EXCEPT ![hub.conn] = TRUE]
  /\ UNCHANGED <<registerQ, unregisterQ, routeQ, handlerVars, wireVars, send>>

(* Whatever connection the map holds under the name goes; the channel that *)
(* is closed is the one of the connection that unregisters.                *)
HubUnregister ==
  /\ Locked("unregister")
  /\ hub' = AtSelect
  /\ \/ /\ clients[UserOf[hub.conn]] = NoConn
        /\ UNCHANGED <<clients, closed, panicked>>
     \/ /\ clients[UserOf[hub.conn]] # NoConn
        /\ clients' = [clients EXCEPT ![UserOf[hub.conn]] = NoConn]
        /\ panicked' = closed[hub.conn]
        /\ closed' = [closed EXCEPT ![hub.conn] = TRUE]
  /\ UNCHANGED <<registerQ, unregisterQ, routeQ, handlerVars, wireVars, send>>

(* Variant: go h.deliver(msg), so that a later message may overtake. *)
HubDeliverAny ==
  /\ hub.op = "idle"
  /\ \E i \in DOMAIN routeQ : \E u \in routeQ[i].names :
       /\ routeQ' = SubSeq(routeQ, 1, i - 1) \o SubSeq(routeQ, i + 1, Len(routeQ))
       /\ \/ /\ clients[u] = NoConn
             /\ UNCHANGED sendVars
          \/ /\ clients[u] # NoConn
             /\ Offer(clients[u], routeQ[i])
  /\ UNCHANGED <<hub, registerQ, unregisterQ, clients, handlerVars, wireVars>>

(* deliver: look the addressee up, offer the message, or drop it. *)
HubDeliver ==
  /\ hub.op = "idle" /\ routeQ # <<>>
  /\ routeQ' = Tail(routeQ)
  /\ \E u \in Head(routeQ).names :
       \/ /\ clients[u] = NoConn
          /\ UNCHANGED sendVars
       \/ /\ clients[u] # NoConn
          /\ Offer(clients[u], Head(routeQ))
  /\ UNCHANGED <<hub, registerQ, unregisterQ, clients, handlerVars, wireVars>>

-----------------------------------------------------------------------------
(* The writer goroutine: for env := range client.send { Encode(conn, env) }. *)

(* Encode succeeds while the handler has not closed the connection.  TCP is  *)
(* lossless and ordered, so what is written is what the client gets.         *)
WriterWrite(c) ==
  /\ writer[c] = "running" /\ send[c] # <<>> /\ pc[c] # "done"
  /\ send' = [send EXCEPT ![c] = Tail(@)]
  /\ LET e == Head(send[c]) IN
       got' = IF e.kind \in Lanes
              THEN [got EXCEPT ![c][e.from][e.kind] = Append(@, e.seq)]
              ELSE got
  /\ UNCHANGED <<writer, closed, panicked, handlerVars, hubVars>>

(* Encode fails (the peer is gone, the payload is too large, the connection  *)
(* was closed): the writer returns, the handler does not notice.             *)
WriterFail(c) ==
  /\ writer[c] = "running" /\ send[c] # <<>>
  /\ writer' = [writer EXCEPT ![c] = "stopped"]
  /\ send' = [send EXCEPT ![c] = Tail(@)]
  /\ UNCHANGED <<closed, panicked, got, handlerVars, hubVars>>

(* The channel is closed and drained: the range loop ends. *)
WriterEnd(c) ==
  /\ writer[c] = "running" /\ send[c] = <<>> /\ closed[c]
  /\ writer' = [writer EXCEPT ![c] = "stopped"]
  /\ UNCHANGED <<got, handlerVars, hubVars, sendVars>>

-----------------------------------------------------------------------------
HubStep ==
  \/ HubTakeRegister \/ HubTakeUnregister \/ HubDeliver
  \/ HubLock \/ HubRegister \/ HubUnregister

(* What a handler does without its client: none of it waits for the peer. *)
HandlerStep(c) ==
  \/ Register(c) \/ Hello(c) \/ Fanout(c) \/ FanoutDone(c) \/ Welcome(c)
  \/ Route(c) \/ GroupLock(c) \/ UserListResp(c) \/ Unregister(c) \/ Goodbye(c)

(* What the client at the other end makes its handler do. *)
ClientStep(c) ==
  \/ Login(c) \/ Leave(c) \/ AnswerOnly(c) \/ UserListReq(c)
  \/ \E u \in Users : SendMsg(c, u) \/ Typing(c, u)
  \/ \E G \in Groups : GroupMsg(c, G) \/ TypingGroup(c, G)

WriterStep(c) == WriterWrite(c) \/ WriterFail(c) \/ WriterEnd(c)

(* Every connection that came is over and nothing is left to do. *)
Finished ==
  /\ \A c \in Conns :
       /\ pc[c] \in {"idle", "done"}
       /\ writer[c] = "running" => send[c] = <<>> /\ ~closed[c]
  /\ hub.op = "idle" /\ registerQ = <<>> /\ unregisterQ = <<>> /\ routeQ = <<>>

(* A panic ends the process, and with it every goroutine. *)
Terminated == (Finished \/ panicked) /\ UNCHANGED vars

Next ==
  \/ ~panicked /\ HubStep
  \/ \E c \in Conns : ~panicked /\ (HandlerStep(c) \/ ClientStep(c) \/ WriterStep(c))
  \/ Terminated

(* Go runs every goroutine that can run, and decides fairly who goes first:  *)
(*   - select picks at random among the channels that are ready, so that one *)
(*     that is ready time and again is received from, whatever the others    *)
(*     hold;                                                                 *)
(*   - whoever waits to send on a full channel waits in a queue, and so does *)
(*     whoever waits for RLock: another who comes later does not overtake.   *)
(* Both are strong fairness: the step is not enabled all the time.  Lock     *)
(* needs no more than weak fairness, for no RLock is granted while the hub   *)
(* waits.  Nothing is assumed of the clients, who may send without end, nor  *)
(* of the writers, which a slow peer may block for ever.                     *)
Fairness ==
  /\ SF_vars(~panicked /\ HubTakeRegister)
  /\ SF_vars(~panicked /\ HubTakeUnregister)
  /\ SF_vars(~panicked /\ HubDeliver)
  /\ WF_vars(~panicked /\ (HubLock \/ HubRegister \/ HubUnregister))
  /\ \A c \in Conns : SF_vars(~panicked /\ HandlerStep(c))

Spec     == Init /\ [][Next]_vars
FairSpec == Spec /\ Fairness

(* A session is alive until its handler has sent the unregistration and the  *)
(* hub has forgotten it: nothing of it is queued, in hand or on the map.     *)
Alive(c) ==
  \/ pc[c] \notin {"idle", "goodbye", "goodbyeSend", "done"}
  \/ c \in Range(registerQ) \cup Range(unregisterQ) \cup {hub.conn}
  \/ clients[UserOf[c]] = c

(* The users, and not the server, see to it that a user who logs in again    *)
(* does so when his last session is not alive any more.                      *)
SessionsApart ==
  \A c, d \in Conns : UserOf[c] = UserOf[d] /\ Alive(c) /\ Alive(d) => c = d

OrderlySpec == Init /\ [][Next /\ SessionsApart']_vars
-----------------------------------------------------------------------------
(* Properties. *)

Message == [kind : ChatKinds, to : SUBSET Users]

HandlerTypeOK ==
  /\ pc \in [Conns -> PcValues]
  /\ job \in [Conns -> Envelope]
  /\ todo \in [Conns -> SUBSET Conns]
  /\ frames \in [Conns -> Nat] /\ \A c \in Conns : frames[c] <= MaxFrames[c]
  /\ sent \in [Conns -> Seq(Message)]

HubTypeOK ==
  /\ hub \in [op : {"idle", "register", "unregister"}, conn : Conns \cup {NoConn},
              locking : BOOLEAN]
  /\ hub.op # "idle" <=> hub.conn \in Conns
  /\ registerQ \in Seq(Conns) /\ Len(registerQ) <= RegisterCap
  /\ unregisterQ \in Seq(Conns) /\ Len(unregisterQ) <= UnregisterCap
  /\ routeQ \in Seq(Envelope) /\ Len(routeQ) <= RouteCap
  /\ clients \in [Users -> Conns \cup {NoConn}]

WireTypeOK ==
  /\ writer \in [Conns -> {"none", "running", "stopped"}]
  /\ got \in [Conns -> [Conns -> [Lanes -> Seq(Nat)]]]

SendTypeOK ==
  /\ send \in [Conns -> Seq(Envelope)] /\ \A c \in Conns : Len(send[c]) <= SendCap
  /\ closed \in [Conns -> BOOLEAN]
  /\ panicked \in BOOLEAN

(* Every variable holds what the code can put there, and no buffer exceeds  *)
(* the capacity its channel was made with.                                  *)
TypeOK == HandlerTypeOK /\ HubTypeOK /\ WireTypeOK /\ SendTypeOK

(* No goroutine sends on a closed channel, which would end the server: a     *)
(* handler or the hub offers an envelope to a connection it found in the map *)
(* (or to its own), and Run closes a channel when it takes it off the map.   *)
NoSendOnClosed == ~panicked

(* c's register was applied and its unregister was not. *)
SessionEstablished(c) ==
  /\ pc[c] \in PcValues \ {"idle", "register", "goodbye", "goodbyeSend", "done"}
  /\ c \notin Range(registerQ)
  /\ hub.op = "register" => hub.conn # c

(* "OnlineUsers returns a snapshot of currently connected usernames"         *)
(* (hub.go:145): once the hub has handled a session's registration, its user *)
(* is in the map as long as the session's client is being read.              *)
ConnectedUserOnline ==
  \A c \in Conns : pc[c] = "reading" /\ SessionEstablished(c) => UserOf[c] \in Online

(* Whatever the sessions of other users do to each other, a session whose    *)
(* user has no other one is on the map as long as it is served.              *)
SoleSession(c) == \A d \in Conns : UserOf[d] = UserOf[c] => d = c
SoleSessionOnline ==
  \A c \in Conns : SoleSession(c) /\ SessionEstablished(c) => clients[UserOf[c]] = c

(* While a handler goes over the clients it found, the hub cannot take one   *)
(* of them off the map nor close its channel: RLock spans the whole loop.    *)
FanoutTargetsLive ==
  \A c \in Readers : \A d \in todo[c] : clients[UserOf[d]] = d /\ ~closed[d]

(* Two clean-ups for one session would close its channel twice: a connection *)
(* is queued for unregistering at most once, and not while the hub has it in *)
(* hand, and its channel is still open then.                                 *)
OneCleanup ==
  /\ \A i, j \in DOMAIN unregisterQ : unregisterQ[i] = unregisterQ[j] => i = j
  /\ hub.op = "unregister" => hub.conn \notin Range(unregisterQ) /\ ~closed[hub.conn]
  /\ \A c \in Range(unregisterQ) : ~closed[c]

(* What the clients are shown is what Delivery promises: on each lane, only  *)
(* those it is for, at most once, in the order of each sender.               *)
Abstract  == INSTANCE Delivery WITH Conns <- Conns, Users <- Users, UserOf <- UserOf,
                                    sent <- sent, got <- got
Delivered == Abstract!Spec

(* A handler always comes back to its client or ends, whatever the peers do: *)
(* full buffers drop instead of blocking, and the hub always empties its     *)
(* queues.  No handler is away from its client for ever.  (A panic ends      *)
(* every goroutine.)                                                         *)
HandlerNeverWedged ==
  \A c \in Conns : []<>(pc[c] \in {"idle", "reading", "done"} \/ panicked)

(* c's client is being served: its registration was sent, and it stays. *)
Served(c) == pc[c] \in {"reading", "listing", "routing", "group", "groupSend"}

(* A session that stays gets onto the map, though the clients never stop     *)
(* sending: its registration is not starved by the route channel.  No client *)
(* is served for ever without being on the map.                              *)
EventuallyOnline ==
  \A c \in Conns : []<>(clients[UserOf[c]] = c \/ ~Served(c) \/ panicked)

(* All the hub's queues are empty and it is idle. *)
HubQuiet == hub.op = "idle" /\ registerQ = <<>> /\ unregisterQ = <<>> /\ routeQ = <<>>

(* "expected empty online list after unregister" (hub_test.go:26): when the  *)
(* hub has handled everything, no user is online through a session that is   *)
(* over.                                                                     *)
OfflineAfterLeave ==
  HubQuiet => \A u \in Online : pc[clients[u]] # "done"
=============================================================================
