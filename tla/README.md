# Verification of go_messenger_ng

TLA+ models, TLC runs and TLAPS proofs for the chat server and client in this
repository.  `PROJECT.json` lists the runs, the mutants that show each
property can fail, the source lines behind every definition, the hazards and
the theorems.

## The system

| Component | State | Operations | Talks to |
|---|---|---|---|
| **Hub** `server/hub.go` | `clients` (username to connection) under an RWMutex; channels `register` (8), `unregister` (8), `route` (256) | `Run`: one goroutine selects on the three channels; `deliver`, `OnlineUsers` | handlers through the channels and, read-only, through `mu` and `clients` |
| **Handler** `server/client_handler.go`, one goroutine per connection | its `clientConn`: `send` (64), rate limiter | authenticate, register, broadcast the lists, read loop (one function per frame type), unregister, broadcast again | hub, database, other connections' `send` |
| **Writer**, one goroutine per connection | - | drains `send` to the wire; returns at the first failed write | the client |
| **Rate limiter** `consumeToken` | tokens, last refill | one call per chat message | read loop only |
| **User index** `util/bst.go` | a binary search tree of usernames under its own lock | Insert, Search, Delete, InOrder, Len | accounts, every list of users |
| **Accounts** `authenticate`, `handleDeleteAccount`, `db.go` | users table with `is_deleted` | register, log in, delete softly, preload the index at start | database, user index |
| **Groups** | groups and members tables | create (or rejoin), add, leave, message, list | database, fan-out |
| **History** `db.go` | messages table | save, read a page | handlers, UI |
| **Wire protocol** `protocol/types.go` | - | Encode, Decode (7-byte header, JSON) | everything |
| **Client connection** `client/conn.go` | two channels, `done`, two goroutines | Auth, Send, Incoming, Close | server, UI |
| **Message cache** `client/cache.go` | bounded list per conversation | Add, Get | UI |
| **TUI** `ui/app.go` | open chat, pending history, online set, unread marks | open a chat, send, handle each incoming frame | connection, cache |
| **Shutdown, signals** `server.go`, `signals_*.go` | - | notice to all, close the listener | hub map, `send` |
| Log, TLS, configuration, programs | - | start-up and inserts | - |

The hard behaviours are in the server's concurrency.  Registration and
unregistration are *asynchronous*: a handler queues its connection and goes
on, and tells the others before the hub has acted.  The map has one entry per
*username*, while a user may have several connections.  Every send into a
`send` channel drops when the buffer is full and panics when the channel is
closed, so what may be closed when matters.  Readers of the map hold `RLock`
over whole loops (with database queries in them), while the hub, the only
goroutine that empties the queues, waits for `Lock`.  Direct messages pass
through the hub and group messages do not.  Accounts live both in the
database and in an index in memory, changed in two steps.

What makes each part correct:

* Hub and handlers: nothing is sent on a closed channel; each session is
  cleaned up once; whoever is served is on the map and nobody else; no
  goroutine waits for ever; messages reach only their addressees, once, in
  order.
* Presence: once things settle, no client shows a user who has left.
* Rate limiter: never more than the documented rate, never refusing a client
  who waited.
* Accounts and index: the index is a sorted set; who can log in is in it and
  who was deleted is not.
* Groups: members belong to groups that exist, and whoever's groups change is
  told.
* Client connection: each direction is a stream; nobody waits for ever; the
  end of the connection is noticed and leaves nothing running.
* Chat view: it settles on the chat that is open; unread dots mark what was
  not opened.
* Shutdown: everybody is told and the server exits.

## Modules

| Module | Models |
|---|---|
| `Hub` | hub, handlers, writers: the core |
| `Delivery` | abstract specification of the message service, which `Hub` implements |
| `Presence` | `Hub` with the online set each client shows |
| `Shutdown` | `Hub` with the server's shutdown |
| `RateLimiter` | `consumeToken` |
| `Accounts` | users table and index (as a set), sessions, start and crash |
| `BST`, `IndexedAccounts` | the tree's functions, recursive as in the code; `Accounts` with the tree that its set stands for |
| `Groups` | group tables, the handlers that change them, the lists that follow |
| `Conn` | the client's goroutines on one connection |
| `Stream` | abstract specification of one direction, which `Conn` implements twice |
| `ChatView` | one user's view, sidebar and cache against the message tables |
| `HubProofs`, `DeliveryProofs`, `RateProofs`, `AccountsProofs`, `ConnProofs`, `ChatProofs`, `GroupsProofs` | theorems |
| `Induction` | induction over the natural numbers, for the proofs |
| `MCHub`, `MCPresence`, `MCShutdown`, `MCRate`, `MCAccounts` | instances for TLC |

Operators whose comment begins with *Variant* are the mutated forms named in
`PROJECT.json`; no specification uses them.

The modules meet at the buffers.  `Hub` ends where the server writes to the
wire, `Conn` begins there and ends at the event loop, and `ChatView` takes
both connections for the streams that `Conn` was shown to implement and adds
what the two ends make of the frames.  `Groups` keeps of `Hub` only its map and
what the hub was asked to do.

### Hub

`pc[c]` is where a connection's handler is.  The path of a session is

    idle -Login-> register -Register-> hello -Hello-> helloSend -FanoutDone->
    welcome -Welcome-> reading ... -Leave-> unregister -Unregister->
    goodbye -Goodbye-> goodbyeSend -FanoutDone-> done

and each frame decoded in `reading` is one of `SendMsg`/`Route` (a direct
message: echo, then the route channel), `GroupMsg`/`GroupLock` (echo, then the
fan-out under `RLock`), `Typing`, `TypingGroup`, `UserListReq`/`UserListResp`
and `AnswerOnly` (a history request, or a refusal).  Between the steps of one
handler every other goroutine may run.  A frame whose payload the handlers
ignore changes nothing and is left out.

A critical section of `mu` is several steps when it contains a loop over the
clients (`Sending`), and one step otherwise.  When the hub has received a
connection it takes `Lock`: at once if no handler is in `Sending`, and otherwise
after waiting for them (`HubLock`).  While it waits no new `RLock` is granted,
as in Go's RWMutex; between the receive and `Lock` handlers may still get one.

A connection is never used again, so a user who reconnects is another
connection with the same `UserOf`.  Envelopes carry sender, sequence number
and the usernames they are about, the text being irrelevant.  The members of
a group are any set of `Groups`, since they come from the database, and the
addressee of a direct message is any user, the sender included, since the server
does not look.  (The sidebar leaves the user himself out, but by the name he
gave, which `cmd/client/main.go:64` does not trim and the server does.)

Real clients send without end, and a model that counts messages cannot.  The
clients in `Endless` do send without end: the messages they send and those in
their own buffers are not told apart, so that the states stay finitely many.
The other clients send `MaxFrames` frames, each with its number in `sent`.

`Alive(c)` holds as long as anything is left of session `c`: its handler before
the unregistration was sent, an entry in a queue or in the hub's hand, or the
map's entry.  `OrderlySpec` is `Spec` with the proviso `SessionsApart`, that a
user logs in again only when none of his sessions is alive.  This is a condition
on users, which `authenticate` does not enforce; what happens without it is said
under *Sessions of one user* below.
`panicked` records a send on, or a second close of, a closed channel; it ends
the process.  A writer may fail at any write; it then drains nothing more, and
its handler does not notice until the read loop ends.

### Delivery

`sent[s]` is the log of what connection `s` sent; `got[r][s][l]` lists the
messages of `s` that `r` was shown on lane `l`.  There are three lanes: the
sender's echo, direct messages through the hub, and messages to a group.  A
message may be lost; on each lane it is shown only to those the lane is for, at
most once, and in the order of its sender.  Between lanes the code has no order,
and `Delivery` promises none.  So a message is shown once, but for a direct
message to one's own name, which is echoed (`client_handler.go:194-198`) and
then brought back by the hub (`hub.go:116-122`).  `Hub` has both variables, so
the refinement mapping is the identity: `Delivered == Abstract!Spec`.

### Presence

Adds `view[c]`, the online set the client shows: the last `user_list_resp`
that `c`'s writer put on the wire, as `App.handleIncoming` replaces the whole
set each time.  `OfflineIsAnnounced` fails in two ways, and each has an instance
in which it is the shortest: `PServingSpec` begins when both users are served and
show each other, `PSpec` at the start of the server.

### RateLimiter

Time is an integer; `TokenTime` units make one token (200 ms), so
`int(elapsed * 5.0)` is an integer division.  What floating point does when
`elapsed` is within rounding of an exact multiple is not modelled.  `exact` is
a history variable, an ideal bucket of the documented size and rate, which pays
for each admitted message; `admitted` is when the last one was admitted.

### Shutdown

Adds the main goroutine: `ShutdownLock` goes over the map and starts the
notice goroutines, each `Notify(c)` is one of them, and `ShutdownReturn` ends
the program when all are done.

### Accounts

The users table survives `Crash`; the index and the sessions do not.  `Start`
preloads the index, or leaves it empty when the query fails, as the code does.
Registering, logging in and deleting are two steps each, one in the database
and one in the index.  A session may be any user's.  A password is either
right or the attempt changes nothing.  The names are entered at start in the
order of the database's collation, which need not be that of Go's comparison;
`IStart` takes any order.  `IndexedAccounts` repeats each step that
changes the set with the tree operation the code calls; `TreeIsSet` ties the
two together.  A function in TLA+ has a domain, and that of the tree's functions
is the trees, sorted or not, whose height is at most the number of users
(`Trees`); Go's functions have no such bound.  That the server's tree never
leaves this set, although it may be a chain, is part of what is proved.

### Groups

A handler's work on one frame is a plan: the list of phases it has still to go
through, each of them a query, a critical section or a send of the code, in the
code's order.  `CreateGroup` starts `<<"insert", "notify">>`, `LeaveGroup`
starts `<<"members", "notify", "announce", "own">>`, and so on; `"notify"` and
`"all"` lead to `"send"`, the loop under `RLock`, in which each list is read
and then sent.  Every query may fail where the code ignores the error, and then it may have
given some of its rows: `ReadMembers` and `MakeList` take any part of them.
Creating a group is not a transaction: each member is inserted by a step of its
own, and a crash may come in between.

`told[u]` says whether, since `u`'s groups last changed, `u` was sent the list
of the groups he then had; `missed` collects the users whom a list did not
reach for a reason the code accepts (a full buffer, a failed query, a
registration the hub has not handled yet).  A user has one session at a time,
the overlapping ones being `Hub`'s subject.

The comment at `client_handler.go:262` calls the path for an existing name
"rejoin after leave"; it adds anyone who names an existing group
(`Rejoin`).

### Conn

Four goroutines: the event loop (`ui`), `writeLoop`, `readLoop` and
`listenIncoming`, with the two channels between them, the wire in each
direction, and `Close`, which closes the socket and then `done`.  Where `select`
has two ready branches, both are taken.  `QueueUpdateDraw` makes the listener
wait for the event loop, which `Send` may be holding up.  A frame is its number.
`Cut` is the end of the connection from outside: what is on its way to the
server is lost, and of what is on its way to the client any part.

### Stream

One direction of a connection: the receiver hears a prefix of what was said,
in order.  `UpIsStream` maps `said` to the calls of `Send` and `heard` to what
the server decoded; `DownIsStream` maps them to what the server wrote and what
the event loop was given.

### ChatView

One user's client, the part of the server that serves it, and others who send
to it.  `up` and `down` are the streams; the handler of the connection reads
the tables for one request at a time and then sends its frames, dropping them
when `down` is full.  The listener caches what a frame brings and queues a
closure; the event loop draws it later, and the user may have opened another
chat in between.  Messages of others are saved first and arrive later
(`routed`); those of a group may overtake each other.  A message may be refused
(over the rate limit, or the group's members cannot be read): then it is neither
saved nor echoed.  A user list may name any
chats, since it is made elsewhere and may be stale.  `dropped` records what
failed to arrive since the chat was opened, and only for the reasons the code
accepts.  A partner is another user: a client whose user gave his name with
blanks around it could open a chat with himself, and would file his own echoes
under the trimmed name (`app.go:404-406`).

## Runs

| Run | Expect | Checks |
|---|---|---|
| `hub_safety` | pass | `NoSendOnClosed`, `FanoutTargetsLive`, `OneCleanup`, `Delivered` |
| `hub_liveness` | pass | `TypeOK`, `NoSendOnClosed`, `FanoutTargetsLive`, `SoleSessionOnline`, `HandlerNeverWedged`, `EventuallyOnline` |
| `conn` | pass | `TypeOK`, `UpIsStream`, `DownIsStream`, `SendReturns`, `LossIsReported`, `CloseStopsAll` |
| `chat` | pass | `TypeOK`, `OpenChatIsRead`, `ViewSettles`, `LeftIsBlank`, `DotsKept` |
| `groups` | pass | `TypeOK`, `ChangesAreTold` |
| `rate` | pass | `TypeOK`, `WithinBucket`, `RetryIsServed` |
| `accounts` | pass | `TypeOK`, `TreeIsSet`, `ActiveListed`, `DeletedStaysOut`, `NoComeback` |
| `hub_two_sessions` | violation | `ConnectedUserOnline` |
| `hub_ghost` | violation | `OfflineAfterLeave` |
| `presence_stale` | violation | `OfflineIsAnnounced` |
| `accounts_deleted` | violation | `DeletedVanish` |
| `shutdown` | violation | `ExitsCleanly` |

Four more configurations violate one property each and are kept for whoever
repairs the lists and the client: `PresenceWelcome.cfg` (`OfflineIsAnnounced`, of
`MCPresence`, in another way than `presence_stale`), `ChatStale.cfg`
(`NoStaleHistory`) and `ChatUnread.cfg` (`PendingIsApplied`) for `ChatView`,
`GroupsStale.cfg` (`SidebarCurrent`) for `Groups`.  One more passes:
`HubRelogin.cfg` (of `MCHub`) checks `NoSendOnClosed`, `FanoutTargetsLive` and
`OneCleanup` for a user who logs in again, under `OrderlySpec`; it is the small
instance of what `ServerDoesNotPanic` and `FanoutIsSafe` prove.

Deadlock is checked except in `chat` and `groups`, whose bounds on what users
do let everything come to rest.  Elsewhere a state without a step would be a
goroutine stuck for good.  (`Terminated`, and the stopped clock of
`RateLimiter`, are steps.)

**Bounds.**

* `hub_safety`: two clients, of which one sends two frames (`TwoFromC1`): direct
  and group messages, typing notices, requests for the list.  The route channel,
  the unregister channel and the buffers hold two, so that both messages can be
  in the same buffer, or one in the route channel while the next overtakes it, is
  echoed, or is itself routed, and both clients can be queued for unregistering.
  It begins when both clients are served (`InitServing`, a state that two logins
  lead to), for the logins are in `hub_liveness`.
* `hub_liveness`: two endless clients from the start of the server, and
  capacities of one, so that every channel can be full time and again.  Small
  capacities make every full-queue and full-buffer case happen, which 8, 64 and
  256 only make rarer.  The clients send direct messages, for these are what goes
  through the hub, and requests that are only answered.  No symmetry is used,
  since there are liveness properties.
* Two connections of different users make every pair of goroutine kinds
  interact.  Longer queues, more frames, more users and sessions are left to the
  proofs, which cover all of them.
* `HubRelogin.cfg`: two sessions of one user and one of another, all endless
  (typing notices, which need no hub, keep buffers and lock busy).
* The violation runs of `Hub` and `Presence` have clients that only come and go.
  Their traces are the shortest of the instance.
* `conn`: buffers of one, four calls of `Send` and four frames of the server
  (`MaxCalls`, `MaxPushed`), so that every buffer and both wires can be full
  with a frame in each goroutine's hand.
* `chat`: a partner and a group, three acts of the user (`MaxActs`: open a
  chat, open another, write; or open, leave) and two of others (`MaxNews`), a
  history and a cache of two, two frames on their way to the client.  Two
  messages already make a third evict one.
* `groups`: two users, one group, four frames, logins, logouts or crashes
  (`MaxActs`): an invitation against a leave against a creation, with a session
  that begins or ends between.
* `rate`: two fillings of the bucket, after which only differences of time
  matter.
* `accounts`: four users, the fewest for which the successor of a removed node
  is not its right child, and two sessions, which may be one user's.

Symmetry is used only in runs without liveness properties, over connections or
sessions that the instance does not tell apart.

**Fairness.**  `FairSpec` of `Hub` rests on three things that Go does.  `select`
picks at random among the channels that are ready, so a receive that is possible
time and again happens: each of the hub's three receives is strongly fair *by
itself*, and a registration is taken although the route channel never runs dry.
Whoever waits to send on a full channel waits in a first-in-first-out queue, and
whoever waits for `RLock` is let in before the next `Lock`: each handler's own
steps are strongly fair.  `Lock` needs weak fairness only, because no new `RLock`
is granted while the hub waits.  Nothing is assumed of clients, which need not
send or leave and may send for ever, nor of writers, which a peer that does not
read can block for ever.

`FairSpec` of `Conn` assumes weak fairness of the writer, the reader, the
listener, of `Close`, of the event loop getting to the queued closure and out of
`select`, and of the server reading on.  The last is what `HandlerNeverWedged`
shows of the server: its handlers never wait for a client that does not read.
Nothing is assumed of the user, of what the server writes, or of the network.
`SendReturns` fails without the server's part (its mutant is a server that
writes its answer before it reads on).

**What the violations show.**

* `hub_two_sessions` (`hub.go:76`): the end of one session of a user deletes
  whatever entry the user has, also that of another session.  (In the shortest
  trace the ending session's own registration is still queued.)
* `hub_ghost` (`hub.go:67`): `select` may take a session's unregistration
  before its registration, and the entry then stays.
* `presence_stale` (`client_handler.go:33`): the hub has received the
  unregistration and not yet locked; the farewell list is made with the one who
  leaves still on the map, goes to the other, and only then is the entry deleted.
* `PresenceWelcome.cfg` (`client_handler.go:39`): a newcomer's welcome list is made
  before the hub has deleted another's entry; the other's farewell is made after
  that, when the newcomer is not on the map yet, and does not reach him.
* `accounts_deleted` (`client_handler.go:108`): a login checked before the
  deletion enters the name after it.
* `shutdown` (`server.go:157`): a notice is sent on the channel of a client who
  left after `RUnlock`, and the server panics.
* `ChatStale.cfg` (`app.go:465`): the guard compares two fields that `openChat`
  sets together, so an answer for the chat left is drawn into the one opened.
  `ViewSettles` says what holds all the same: the new chat's own answer comes
  last, because both directions are streams.
* `ChatUnread.cfg` (`app.go:756-759`): a pending mark whose chat is not in the
  next list is thrown away.
* `GroupsStale.cfg` (`client_handler.go:342`): a list read before a change may
  be sent after the list that shows it.

**Sessions of one user.**  The entry that is deleted is whatever the map has under
the name, and the channel that is closed is that of the connection that
unregisters (`hub.go:77-78`).  When two sessions overlap, a closed channel can
stay on the map, and the next send to it ends the server.  Even sessions that
follow each other can end so: a short one leaves a ghost entry (`hub_ghost`);
the next one's unregistration, taken before its registration, finds the ghost,
deletes it and closes its own channel; then its registration puts the closed
connection on the map.  No line of the repository says that this cannot happen,
so no run states it.  `NoSendOnClosed` and `FanoutTargetsLive` are checked and
proved where it does not: `OrderlySpec` lets a user come back any number of times,
but not before the hub has forgotten his last session.  The runs check them
for users with one session each, and `HubRelogin.cfg` for one who comes back.

**Other places where words and code differ**, met while modelling and not the
subject of a run: `README.md:32` says that all incoming messages go through
the `route` channel and that one goroutine alone works on the map, as does
`hub.go:32` ("no mutex needed"); in fact only direct messages are routed, and
group messages, typing notices and lists are sent by the handlers, which read
the map under `mu`.  `Delivery` therefore orders direct and group messages
separately.

## Proofs

`tlapm` checks the theorems for all values of the constants, from the
assumptions named in the modules alone (`HubAssumption`, `RateAssumption`,
`ConnAssumption`, `ChatAssumption`, and for the tree `UsernamesOrdered`: there
are finitely many users, numbered in the order of Go's comparison).  All Hub
theorems are about `Spec`, except that `ServerDoesNotPanic` and `FanoutIsSafe` are
about `OrderlySpec`.

*Hub.*  `TypeOK` is inductive.  The safety properties are not: a state in
which a connection is both queued for registration and past its farewell would
break them.  The inductive invariant is `TypeOK`, `RegInv`, `TodoInv` and
`ClosedOut`:

* `RegInv`: a connection waits for registration at most once, in the queue or
  in the hub's hand, and only while its handler is past `Register`
  (`RegisterOnce`); likewise for unregistration, before which its channel is
  open (`UnregisterOnce`); a map entry is under its own username and was
  registered (`MapOK`); a sole session that is established is on the map.
* `TodoInv`: the connections a fan-out still has to serve are on the map,
  because the hub does not touch the map while a handler holds `RLock`.
* `ClosedOut`: a closed connection is not on the map, nor on its way there.

The last holds of orderly sessions only.  What is left of a session is `Alive`,
so under `SessionsApart` the entry the hub deletes is that of the connection that
unregisters, and no registration of a closed connection is pending.

Lemma `Kinds7` sorts the steps by what they do to the registration state:
nothing at all (`Stay`), one of the two queueings, one of the two receives,
one of the two changes of the map.  Each of the lemmas that follow treats
these seven kinds instead of two dozen actions.

*Hub implements Delivery* (`DeliveryProofs`, `ServerDelivers`).  The mapping is
the identity, so what has to be shown is that each `WriterWrite` is a `Show`:
that the message at the head of a send buffer may be shown to its reader on its
lane and is newer than all he was shown there of that sender.  The invariant
`DInv` says so of every place a message can be in:

* `Wires`: every buffered message is for its reader, is in the sender's log, is
  newer than what was shown on its lane, and those of one sender and lane are in
  ascending order.
* `Routed`: so are the direct messages in the route channel and then in the
  handler's hand, and they are newer than any of that sender and lane in a
  buffer.
* `Jobs`: the group message a handler is passing on is the last of its log, and
  the connections it has still to serve do not have it yet.
* `NoneAhead`: nobody was given a message that was not sent.

Endless clients put nothing on a lane (`EndlessStep`).  The proof needs no
assumption on sessions or addressees: two connections of one user are two
senders.  It covers what no run could: any number of messages from any number of
clients, in a route channel and buffers of any capacity.

*Conn implements Stream*, in both directions.  The frames a direction has
handed on and those it still holds (on the wire, in a goroutine's hand, in a
channel), taken in order, are consecutive numbers; those in front of the
receiver are next.  A goroutine that gives up a frame stops for good, so that
nothing behind it is ever heard.

*ChatView.*  `LeftIsBlank` rests on `Unasked`: while `pendingHistoryFor` is
empty no chat is open and no history answer is on its way; afterwards it is never
empty again, so the guard in `DrawHistory` refuses while `currentChat` is empty.
`OpenChatIsRead` rests on `Sidebar`: a chat in `pendingUnread` is not in the
sidebar, hence was not opened, and the open chat is in neither set of dots.

`TypeOK` needs that `AddAll`, the loop that caches an answer, stays among the
bounded caches; that is an induction on the length of the answer.  Induction
over data is not available as a rule (the library's theorems take an operator as
a parameter), but it is as a fact about sets: a set of numbers that holds 0 and,
with each number, the next, holds all of them (`Induction`, from the
well-foundedness of `<`).

`ViewSettles` speaks of a client at rest, and nothing about the view alone is
inductive: an answer for another chat may be drawn at any time.  What is
inductive is what the view *will* be.  `Line` is everything that is to be drawn,
in order: the view, as if it were an answer itself; the closure in the event
loop's queue; the frames on their way down; the frames the handler has still to
send.  `Shows(L, j, c, M, n)` says that the answer at place `j` of a line is its
last one, and that it and the messages behind it are the chat `c`'s and show
those in `M` once, in order, and all that are younger than the history's window.
`Settling` is then: either a question for the open chat is still on its way up,
the last one there (`Waiting`), or there is no question on its way and some
answer in the line `Shows` the user's own messages of the open chat (`Good`).
The two cases correspond to the two streams of `Conn`: questions are answered in
order, so that the last answer is for the last question.  Each step of the model
does one of few things to the line: it takes frames out, puts dull ones in or
moves them (`Rearranged`), appends the user's own newest message (`AppendOwn`)
or the answer read from the table (`AppendHistory`), or draws the frame behind
the view, which either joins the view (`DrawBefore`) or replaces it
(`DrawFirst`).  `Peers` is needed for the messages of others: they are in the
table and are not the user's own when they are drawn, however late.

*Groups.*  `TypeOK` is inductive with `Working`: the phase a handler is in says
what its variables hold, and the plan is `Ordered` (a loop or a read of the
members comes only first in it, and is followed by the notification).
`ChangesAreTold` is not inductive, since it speaks of users whom no handler is
about to tell.  `Owed` is: whoever has a session and was not told of his groups
as they are now, and did not miss a list for a reason the code accepts, is owed
one by some handler (`Owes`), which has his list in its hand, or has him still
in its loop, or has the notification ahead in its plan with him among those it
will be sent to, or is his own and will send him his list at the end.

*Accounts.*  `TypeOK` says, besides the types, that a handler works only for
names with a row and takes a name out of the index only after marking it.  With
that, `TypeOK` and `ActiveListed` are inductive together, and the two action
properties follow from `TypeOK` step by step.

*User index* (`AccountsProofs`, `IndexIsTheSet`).  `Within(t, a, b)` says that `t`
is a tree whose traversal ascends and has only names above `a` and up to `b`.
A node is one exactly if its parts are, on either side of its key (`Splits`,
`Joins`), and such a tree is no higher than `b - a` (`Low`), which is why
inserting never makes the tree too high for its functions.  What each function
does to search trees is then proved by induction on the tree (`Inserts`,
`Searches`, `Least`, `Deletes`, `Counts`): the interesting case is the deletion
of a node with two children, whose successor is the least name on the right and
so lies between the two sides.  The induction is again one over sets: a set of
trees that has the empty tree, and every node whose sides it has, has all of
them (`TreesByNodes`).  Since the functions are recursive, each must first be
shown to be what its definition says, that is, that there is a function which
satisfies it (`InsertDef` and the others).  `Listable` shows that the list
which `IStart` takes always exists.

*RateLimiter.*  The invariant `Inv` adds to `TypeOK` that the counter
together with the time since the last refill (`Worth`) never exceeds what the
exact bucket holds, and that a client which waited a token's time since its
last admitted message will find one.

## Checked by TLC only

* `HandlerNeverWedged`, `EventuallyOnline`, `SendReturns`, `LossIsReported`,
  `CloseStopsAll`: liveness under fairness is beyond the prover.

Every invariant and every safety property of the passing runs has a theorem.

## Not modelled

* The bytes of the wire format: `Conn` has what the goroutines see of `Encode`
  and `Decode`.
* In the TUI: the typing bar with its timer, replies and their quotes, titles
  and status texts, focus, layout and the forms of the dialogs.  The listener's
  unsynchronised reads of the event loop's fields are single steps.
* The names shown for deleted authors, and their cache entries.
* The server log (nothing reads it), TLS and configuration (start-up code;
  `max_connections` is read from the configuration and used nowhere), password
  hashing, `Hub.Broadcast` (no caller), the SIGHUP stub.

## Plan

A model of the header and length limits of the wire format.
