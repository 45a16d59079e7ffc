----------------------------- MODULE HubProofs -----------------------------
(***************************************************************************)
(* Safety of the hub for every set of connections, every assignment of     *)
(* users to them, every buffer size and any number of messages.            *)
(*                                                                         *)
(* 1. the sequences the channels are;                                      *)
(* 2. the type invariant, one lemma per group of variables;                *)
(* 3. what a step can do to a registration (Kinds of step), and from it    *)
(*    the inductive invariant of the register/unregister protocol;         *)
(* 4. the properties that follow.                                          *)
(***************************************************************************)
EXTENDS Hub, SequenceTheorems, TLAPS

-----------------------------------------------------------------------------
(* Channels as sequences. *)

NoDup(q) == \A i, j \in DOMAIN q : q[i] = q[j] => i = j

(* Sending into a channel adds one element and keeps the type. *)
LEMMA AppendFacts ==
  ASSUME NEW S, NEW q \in Seq(S), NEW x \in S
  PROVE  /\ Append(q, x) \in Seq(S)
         /\ Len(Append(q, x)) = Len(q) + 1
         /\ Range(Append(q, x)) = Range(q) \cup {x}
         /\ NoDup(q) /\ x \notin Range(q) => NoDup(Append(q, x))
<1>1. /\ Append(q, x) \in Seq(S)
      /\ Len(Append(q, x)) = Len(q) + 1
      /\ \A i \in 1 .. Len(q) : Append(q, x)[i] = q[i]
      /\ Append(q, x)[Len(q) + 1] = x
  OBVIOUS
<1>2. /\ DOMAIN q = 1 .. Len(q) /\ Len(q) \in Nat
      /\ DOMAIN Append(q, x) = 1 .. (Len(q) + 1)
  BY <1>1
<1>3. Range(Append(q, x)) = Range(q) \cup {x}
  <2>1. ASSUME NEW y \in Range(Append(q, x)) PROVE y \in Range(q) \cup {x}
    <3>1. PICK i \in 1 .. (Len(q) + 1) : y = Append(q, x)[i]
      BY <1>2 DEF Range
    <3> QED BY <1>1, <1>2, <3>1 DEF Range
  <2>2. ASSUME NEW y \in Range(q) PROVE y \in Range(Append(q, x))
    <3>1. PICK i \in 1 .. Len(q) : y = q[i]
      BY <1>2 DEF Range
    <3>2. i \in DOMAIN Append(q, x) /\ Append(q, x)[i] = y
      BY <1>1, <1>2, <3>1
    <3> QED BY <3>2 DEF Range
  <2>3. x \in Range(Append(q, x))
    <3>1. Len(q) + 1 \in DOMAIN Append(q, x)
      BY <1>2
    <3> QED BY <1>1, <3>1 DEF Range
  <2> QED BY <2>1, <2>2, <2>3
<1>4. ASSUME NoDup(q), x \notin Range(q) PROVE NoDup(Append(q, x))
  <2>1. \A i \in 1 .. Len(q) : q[i] # x
    BY <1>2, <1>4 DEF Range
  <2> QED BY <1>1, <1>2, <1>4, <2>1 DEF NoDup
<1> QED BY <1>1, <1>3, <1>4

(* Receiving from a channel takes its first element away. *)
LEMMA TailFacts ==
  ASSUME NEW S, NEW q \in Seq(S), q # <<>>
  PROVE  /\ Tail(q) \in Seq(S)
         /\ Len(Tail(q)) = Len(q) - 1
         /\ Head(q) \in S
         /\ Range(q) = Range(Tail(q)) \cup {Head(q)}
         /\ NoDup(q) => NoDup(Tail(q)) /\ Head(q) \notin Range(Tail(q))
<1>1. /\ Tail(q) \in Seq(S) /\ Len(Tail(q)) = Len(q) - 1
      /\ Head(q) = q[1] /\ Head(q) \in S /\ Len(q) \in Nat /\ Len(q) >= 1
      /\ \A i \in 1 .. (Len(q) - 1) : Tail(q)[i] = q[i + 1]
  OBVIOUS
<1>2. DOMAIN q = 1 .. Len(q) /\ DOMAIN Tail(q) = 1 .. (Len(q) - 1)
  BY <1>1
<1>3. Range(q) = Range(Tail(q)) \cup {Head(q)}
  <2>1. ASSUME NEW y \in Range(q) PROVE y \in Range(Tail(q)) \cup {Head(q)}
    <3>1. PICK i \in 1 .. Len(q) : y = q[i]
      BY <1>2 DEF Range
    <3>2. CASE i = 1
      BY <1>1, <3>1, <3>2
    <3>3. CASE i # 1
      <4>1. i - 1 \in 1 .. (Len(q) - 1) /\ (i - 1) + 1 = i
        BY <1>1, <3>1, <3>3
      <4>2. Tail(q)[i - 1] = y
        BY <1>1, <3>1, <4>1
      <4> QED BY <1>2, <4>1, <4>2 DEF Range
    <3> QED BY <3>2, <3>3
  <2>2. ASSUME NEW y \in Range(Tail(q)) PROVE y \in Range(q)
    <3>1. PICK i \in 1 .. (Len(q) - 1) : y = Tail(q)[i]
      BY <1>2 DEF Range
    <3>2. i + 1 \in DOMAIN q /\ q[i + 1] = y
      BY <1>1, <1>2, <3>1
    <3> QED BY <3>2 DEF Range
  <2>3. Head(q) \in Range(q)
    BY <1>1, <1>2 DEF Range
  <2> QED BY <2>1, <2>2, <2>3
<1>4. ASSUME NoDup(q) PROVE NoDup(Tail(q)) /\ Head(q) \notin Range(Tail(q))
  <2>1. ASSUME NEW i \in DOMAIN Tail(q), NEW j \in DOMAIN Tail(q), Tail(q)[i] = Tail(q)[j]
        PROVE  i = j
    <3>1. q[i + 1] = q[j + 1] /\ i + 1 \in DOMAIN q /\ j + 1 \in DOMAIN q
      BY <1>1, <1>2, <2>1
    <3>2. i + 1 = j + 1
      BY <1>4, <3>1 DEF NoDup
    <3> QED BY <1>1, <1>2, <3>2
  <2>2. ASSUME Head(q) \in Range(Tail(q)) PROVE FALSE
    <3>1. PICK i \in DOMAIN Tail(q) : Head(q) = Tail(q)[i]
      BY <2>2 DEF Range
    <3>2. q[1] = q[i + 1] /\ 1 \in DOMAIN q /\ i + 1 \in DOMAIN q
      BY <1>1, <1>2, <3>1
    <3>3. 1 = i + 1
      BY <1>4, <3>2 DEF NoDup
    <3> QED BY <1>1, <1>2, <3>3
  <2> QED BY <2>1, <2>2 DEF NoDup
<1> QED BY <1>1, <1>3, <1>4

-----------------------------------------------------------------------------
(* Types. *)

(* A step that leaves a group of variables alone leaves its type alone. *)
LEMMA FrameTypes ==
  /\ HandlerTypeOK /\ UNCHANGED handlerVars => HandlerTypeOK'
  /\ HubTypeOK /\ UNCHANGED hubVars => HubTypeOK'
  /\ WireTypeOK /\ UNCHANGED wireVars => WireTypeOK'
  /\ SendTypeOK /\ UNCHANGED sendVars => SendTypeOK'
<1>1. HandlerTypeOK /\ UNCHANGED handlerVars => HandlerTypeOK'
  BY DEF HandlerTypeOK, handlerVars
<1>2. HubTypeOK /\ UNCHANGED hubVars => HubTypeOK'
  BY DEF HubTypeOK, hubVars
<1>3. WireTypeOK /\ UNCHANGED wireVars => WireTypeOK'
  BY DEF WireTypeOK, wireVars
<1>4. SendTypeOK /\ UNCHANGED sendVars => SendTypeOK'
  BY DEF SendTypeOK, sendVars
<1> QED BY <1>1, <1>2, <1>3, <1>4

(* The envelopes the handlers build are envelopes. *)
LEMMA EnvelopeTypes ==
  ASSUME HandlerTypeOK, NEW S \in SUBSET Users
  PROVE  /\ List(S) \in Envelope /\ Notice(S) \in Envelope
         /\ \A l \in Lanes, c \in Conns : Chat(l, c, S) \in Envelope
<1>1. List(S) \in Envelope /\ Notice(S) \in Envelope
  BY DEF List, Notice, Envelope, Kinds
<1>2. ASSUME NEW l \in Lanes, NEW c \in Conns PROVE Chat(l, c, S) \in Envelope
  <2>1. Len(sent[c]) + 1 \in Nat
    BY DEF HandlerTypeOK
  <2> QED BY <1>1, <2>1 DEF Chat, Envelope, Kinds
<1> QED BY <1>1, <1>2

(* A select with a default branch keeps every buffer within its capacity. *)
LEMMA OfferType ==
  ASSUME SendTypeOK, NEW d \in Conns, NEW e \in Envelope, Offer(d, e)
  PROVE  SendTypeOK'
<1> USE HubAssumption
<1>1. SendCap \in Nat
  OBVIOUS
<1>2. closed' \in [Conns -> BOOLEAN] /\ panicked' \in BOOLEAN
  BY DEF SendTypeOK, Offer
<1>a. AsSent(d, e) \in Envelope
  BY DEF AsSent, Notice, Envelope, Kinds
<1>3. CASE Len(send[d]) < SendCap /\ ~closed[d]
  <2>1. send[d] \in Seq(Envelope) /\ Append(send[d], AsSent(d, e)) \in Seq(Envelope)
        /\ Len(Append(send[d], AsSent(d, e))) = Len(send[d]) + 1 /\ Len(send[d]) \in Nat
    BY <1>a, AppendFacts DEF SendTypeOK
  <2>2. send' = [send EXCEPT ![d] = Append(send[d], AsSent(d, e))]
    BY <1>3 DEF Offer
  <2>3. send' \in [Conns -> Seq(Envelope)] /\ \A c \in Conns : Len(send'[c]) <= SendCap
    BY <1>1, <1>3, <2>1, <2>2 DEF SendTypeOK
  <2> QED BY <1>2, <2>3 DEF SendTypeOK
<1>4. CASE ~(Len(send[d]) < SendCap /\ ~closed[d])
  BY <1>2, <1>4 DEF SendTypeOK, Offer
<1> QED BY <1>3, <1>4

(* A handler moves to another place of its program. *)
LEMMA GotoType ==
  ASSUME pc \in [Conns -> PcValues], NEW c \in Conns, NEW f, NEW t \in PcValues, Goto(c, f, t)
  PROVE  pc' \in [Conns -> PcValues]
  BY DEF Goto

(* Whatever a handler does, its own variables keep their types, the channels *)
(* keep their elements and every buffer its bound.                           *)
LEMMA HandlerStepType ==
  ASSUME TypeOK, NEW c \in Conns, HandlerStep(c)
  PROVE  TypeOK'
<1> USE HubAssumption
<1>0. HandlerTypeOK /\ HubTypeOK /\ WireTypeOK /\ SendTypeOK
  BY DEF TypeOK
<1>j. Notice({}) \in Envelope /\ job[c] \in Envelope /\ Passed(c) => job' \in [Conns -> Envelope]
  BY <1>0, EnvelopeTypes DEF HandlerTypeOK, Passed
<1>k. job[c] \in Envelope
  BY <1>0 DEF HandlerTypeOK
<1>l. Notice({}) \in Envelope
  BY <1>0, EnvelopeTypes
<1>m. Passed(c) => job' \in [Conns -> Envelope]
  BY <1>j, <1>k, <1>l
<1>p. {"idle", "register", "hello", "helloSend", "welcome", "reading", "listing", "routing",
       "group", "groupSend", "unregister", "goodbye", "goodbyeSend", "done"} \subseteq PcValues
  BY DEF PcValues, Sending
<1>1. CASE Register(c)
  <2>1. HandlerTypeOK'
    BY <1>0, <1>1, <1>p, GotoType DEF Register, HandlerTypeOK
  <2>2. HubTypeOK'
    <3>1. /\ registerQ' = Append(registerQ, c) /\ Len(registerQ) < RegisterCap
          /\ registerQ \in Seq(Conns)
      BY <1>0, <1>1 DEF Register, HubTypeOK
    <3>2. registerQ' \in Seq(Conns) /\ Len(registerQ') <= RegisterCap
      BY <3>1, AppendFacts
    <3> QED BY <1>0, <1>1, <3>2 DEF Register, HubTypeOK
  <2> QED BY <1>0, <1>1, <2>1, <2>2, FrameTypes DEF Register, TypeOK
<1>2. ASSUME NEW f, NEW t \in PcValues, NEW S \in SUBSET Users, BroadcastUserList(c, f, t, S)
      PROVE  TypeOK'
  <2>1. List(Online \cup S) \in Envelope
    BY <1>0, EnvelopeTypes DEF Online
  <2>2. Registered(Users) \subseteq Conns
    BY <1>0 DEF Registered, HubTypeOK
  <2>3. HandlerTypeOK'
    BY <1>0, <1>2, <2>1, <2>2, GotoType DEF BroadcastUserList, HandlerTypeOK
  <2> QED BY <1>0, <1>2, <2>3, FrameTypes DEF BroadcastUserList, TypeOK
<1>3. CASE Hello(c) \/ Goodbye(c)
  <2>1. {UserOf[c]} \subseteq Users
    OBVIOUS
  <2> QED BY <1>2, <1>3, <1>p, <2>1 DEF Hello, Goodbye
<1>4. CASE Fanout(c)
  <2>1. PICK d \in todo[c] : Offer(d, job[c]) /\ todo' = [todo EXCEPT ![c] = @ \ {d}]
    BY <1>4 DEF Fanout
  <2>2. d \in Conns
    BY <1>0 DEF HandlerTypeOK
  <2>3. SendTypeOK'
    BY <1>0, <1>k, <2>1, <2>2, OfferType
  <2>4. HandlerTypeOK'
    BY <1>0, <1>4, <2>1 DEF Fanout, HandlerTypeOK
  <2> QED BY <1>0, <1>4, <2>3, <2>4, FrameTypes DEF Fanout, TypeOK
<1>5. CASE FanoutDone(c)
  <2>1. job' \in [Conns -> Envelope]
    BY <1>0, <1>5, <1>m DEF FanoutDone, HandlerTypeOK
  <2>2. pc' \in [Conns -> PcValues]
    BY <1>0, <1>5, <1>p, GotoType DEF FanoutDone, HandlerTypeOK
  <2>3. HandlerTypeOK'
    BY <1>0, <1>5, <2>1, <2>2 DEF FanoutDone, HandlerTypeOK
  <2> QED BY <1>0, <1>5, <2>3, FrameTypes DEF FanoutDone, TypeOK
<1>6. CASE Welcome(c)
  <2>1. HandlerTypeOK'
    BY <1>0, <1>6, <1>m, <1>p, GotoType DEF Welcome, HandlerTypeOK
  <2>2. WireTypeOK'
    BY <1>0, <1>6 DEF Welcome, WireTypeOK
  <2>3. SendTypeOK'
    BY <1>0, <1>6, <1>k, OfferType DEF Welcome
  <2> QED BY <1>0, <1>6, <2>1, <2>2, <2>3, FrameTypes DEF Welcome, TypeOK
<1>7. CASE Route(c)
  <2>1. HandlerTypeOK'
    BY <1>0, <1>7, <1>m, <1>p, GotoType DEF Route, HandlerTypeOK
  <2>2. routeQ' \in Seq(Envelope) /\ Len(routeQ') <= RouteCap
    <3>1. routeQ' = Append(routeQ, job[c]) /\ Len(routeQ) < RouteCap /\ routeQ \in Seq(Envelope)
      BY <1>0, <1>7 DEF Route, HubTypeOK
    <3> QED BY <1>k, <3>1, AppendFacts
  <2>3. HubTypeOK'
    BY <1>0, <1>7, <2>2 DEF Route, HubTypeOK
  <2> QED BY <1>0, <1>7, <2>1, <2>3, FrameTypes DEF Route, TypeOK
<1>8. CASE GroupLock(c)
  <2>1. Registered(job[c].names \ {UserOf[c]}) \subseteq Conns
    <3>1. job[c].names \subseteq Users
      BY <1>k DEF Envelope
    <3> QED BY <1>0, <3>1 DEF Registered, HubTypeOK
  <2>2. HandlerTypeOK'
    BY <1>0, <1>8, <1>p, <2>1, GotoType DEF GroupLock, HandlerTypeOK
  <2> QED BY <1>0, <1>8, <2>2, FrameTypes DEF GroupLock, TypeOK
<1>9. CASE UserListResp(c)
  <2>1. HandlerTypeOK'
    BY <1>0, <1>9, <1>m, <1>p, GotoType DEF UserListResp, HandlerTypeOK
  <2>2. SendTypeOK'
    BY <1>0, <1>9, <1>k, OfferType DEF UserListResp
  <2> QED BY <1>0, <1>9, <2>1, <2>2, FrameTypes DEF UserListResp, TypeOK
<1>10. CASE Unregister(c)
  <2>1. HandlerTypeOK'
    BY <1>0, <1>10, <1>p, GotoType DEF Unregister, HandlerTypeOK
  <2>2. HubTypeOK'
    <3>1. /\ unregisterQ' = Append(unregisterQ, c) /\ Len(unregisterQ) < UnregisterCap
          /\ unregisterQ \in Seq(Conns)
      BY <1>0, <1>10 DEF Unregister, HubTypeOK
    <3>2. unregisterQ' \in Seq(Conns) /\ Len(unregisterQ') <= UnregisterCap
      BY <3>1, AppendFacts
    <3> QED BY <1>0, <1>10, <3>2 DEF Unregister, HubTypeOK
  <2> QED BY <1>0, <1>10, <2>1, <2>2, FrameTypes DEF Unregister, TypeOK
<1> QED BY <1>1, <1>3, <1>4, <1>5, <1>6, <1>7, <1>8, <1>9, <1>10 DEF HandlerStep

(* The frames a client sends. *)
LEMMA ClientStepType ==
  ASSUME TypeOK, NEW c \in Conns, ClientStep(c)
  PROVE  TypeOK'
<1> USE HubAssumption
<1>0. HandlerTypeOK /\ HubTypeOK /\ WireTypeOK /\ SendTypeOK
  BY DEF TypeOK
<1>p. {"idle", "register", "reading", "listing", "routing", "group", "unregister"} \subseteq PcValues
  BY DEF PcValues
<1>d. ASSUME NEW r, NEW t \in PcValues, Decode(c, r, t)
      PROVE  /\ pc' \in [Conns -> PcValues]
             /\ frames' \in [Conns -> Nat] /\ \A d \in Conns : frames'[d] <= MaxFrames[d]
  <2>1. pc' \in [Conns -> PcValues]
    BY <1>0, <1>d, GotoType DEF Decode, HandlerTypeOK
  <2>2. frames[c] \in Nat /\ MaxFrames[c] \in Nat
    BY <1>0 DEF HandlerTypeOK
  <2>3. frames' \in [Conns -> Nat] /\ \A d \in Conns : frames'[d] <= MaxFrames[d]
    <3>1. CASE UNCHANGED frames
      BY <1>0, <3>1 DEF HandlerTypeOK
    <3>2. CASE frames[c] < MaxFrames[c] /\ frames' = [frames EXCEPT ![c] = @ + 1]
      BY <1>0, <2>2, <3>2 DEF HandlerTypeOK
    <3> QED BY <1>d, <3>1, <3>2 DEF Decode
  <2> QED BY <2>1, <2>3
<1>e. ASSUME NEW k \in ChatKinds, NEW S \in SUBSET Users, NEW r, NEW t \in PcValues,
             Decode(c, r, t), Echo(c, k, S), UNCHANGED <<todo, hubVars, wireVars>>
      PROVE  TypeOK'
  <2>1. Chat(k, c, S) \in Envelope /\ Chat("echo", c, S) \in Envelope
    BY <1>0, EnvelopeTypes DEF Lanes
  <2>2. SendTypeOK'
    BY <1>0, <1>e, <2>1, OfferType DEF Echo
  <2>3. sent' \in [Conns -> Seq(Message)]
    <3>1. [kind |-> k, to |-> S] \in Message
      BY DEF Message
    <3>2. sent[c] \in Seq(Message) /\ Append(sent[c], [kind |-> k, to |-> S]) \in Seq(Message)
      BY <1>0, <3>1, AppendFacts DEF HandlerTypeOK
    <3> QED BY <1>0, <1>e, <3>2 DEF Echo, HandlerTypeOK
  <2>4. job' \in [Conns -> Envelope]
    BY <1>0, <1>e, <2>1 DEF Echo, HandlerTypeOK
  <2>5. HandlerTypeOK'
    BY <1>0, <1>d, <1>e, <2>3, <2>4 DEF HandlerTypeOK
  <2> QED BY <1>0, <1>e, <2>2, <2>5, FrameTypes DEF TypeOK
<1>1. CASE Login(c) \/ Leave(c)
  <2>1. HandlerTypeOK'
    BY <1>0, <1>1, <1>p, GotoType DEF Login, Leave, HandlerTypeOK
  <2> QED BY <1>0, <1>1, <2>1, FrameTypes DEF Login, Leave, TypeOK
<1>2. CASE AnswerOnly(c)
  <2>1. Notice({}) \in Envelope
    BY <1>0, EnvelopeTypes
  <2>2. SendTypeOK'
    BY <1>0, <1>2, <2>1, OfferType DEF AnswerOnly
  <2>3. HandlerTypeOK'
    BY <1>0, <1>2, <1>d, <1>p DEF AnswerOnly, HandlerTypeOK
  <2> QED BY <1>0, <1>2, <2>2, <2>3, FrameTypes DEF AnswerOnly, TypeOK
<1>3. CASE UserListReq(c)
  <2>1. List(Online) \in Envelope
    BY <1>0, EnvelopeTypes DEF Online
  <2>2. HandlerTypeOK'
    BY <1>0, <1>3, <1>d, <1>p, <2>1 DEF UserListReq, HandlerTypeOK
  <2> QED BY <1>0, <1>3, <2>2, FrameTypes DEF UserListReq, TypeOK
<1>4. ASSUME NEW u \in Users, SendMsg(c, u) PROVE TypeOK'
  <2>1. "dm" \in ChatKinds /\ {u} \in SUBSET Users
    BY DEF ChatKinds
  <2> QED BY <1>4, <1>e, <1>p, <2>1 DEF SendMsg
<1>5. ASSUME NEW u \in Users, Typing(c, u) PROVE TypeOK'
  <2>1. Notice({u}) \in Envelope
    BY <1>0, EnvelopeTypes
  <2>2. clients[u] # NoConn => clients[u] \in Conns
    BY <1>0 DEF HubTypeOK
  <2>3. SendTypeOK'
    <3>1. CASE UNCHANGED sendVars
      BY <1>0, <3>1, FrameTypes
    <3>2. CASE clients[u] # NoConn /\ Offer(clients[u], Notice({u}))
      BY <1>0, <2>1, <2>2, <3>2, OfferType
    <3> QED BY <1>5, <3>1, <3>2 DEF Typing
  <2>4. HandlerTypeOK'
    BY <1>0, <1>5, <1>d, <1>p DEF Typing, HandlerTypeOK
  <2> QED BY <1>0, <1>5, <2>3, <2>4, FrameTypes DEF Typing, TypeOK
<1>6. ASSUME NEW G \in Groups, GroupMsg(c, G) PROVE TypeOK'
  <2>1. "group" \in ChatKinds /\ G \in SUBSET Users
    BY DEF ChatKinds
  <2> QED BY <1>6, <1>e, <1>p, <2>1 DEF GroupMsg
<1>7. ASSUME NEW G \in Groups, TypingGroup(c, G) PROVE TypeOK'
  <2>1. Notice(G) \in Envelope
    BY <1>0, EnvelopeTypes
  <2>2. HandlerTypeOK'
    BY <1>0, <1>7, <1>d, <1>p, <2>1 DEF TypingGroup, HandlerTypeOK
  <2> QED BY <1>0, <1>7, <2>2, FrameTypes DEF TypingGroup, TypeOK
<1> QED BY <1>1, <1>2, <1>3, <1>4, <1>5, <1>6, <1>7 DEF ClientStep

(* The hub goroutine. *)
LEMMA HubStepType ==
  ASSUME TypeOK, HubStep
  PROVE  TypeOK'
<1> USE HubAssumption
<1>0. HandlerTypeOK /\ HubTypeOK /\ WireTypeOK /\ SendTypeOK
  BY DEF TypeOK
<1>1. CASE HubTakeRegister
  <2>1. /\ Tail(registerQ) \in Seq(Conns) /\ Head(registerQ) \in Conns
        /\ Len(Tail(registerQ)) <= RegisterCap
    <3>1. registerQ \in Seq(Conns) /\ registerQ # <<>> /\ Len(registerQ) <= RegisterCap
      BY <1>0, <1>1 DEF HubTakeRegister, HubTypeOK
    <3> QED BY <3>1, TailFacts
  <2>2. HubTypeOK'
    BY <1>0, <1>1, <2>1 DEF HubTakeRegister, HubTypeOK
  <2> QED BY <1>0, <1>1, <2>2, FrameTypes DEF HubTakeRegister, TypeOK
<1>2. CASE HubTakeUnregister
  <2>1. /\ Tail(unregisterQ) \in Seq(Conns) /\ Head(unregisterQ) \in Conns
        /\ Len(Tail(unregisterQ)) <= UnregisterCap
    <3>1. unregisterQ \in Seq(Conns) /\ unregisterQ # <<>> /\ Len(unregisterQ) <= UnregisterCap
      BY <1>0, <1>2 DEF HubTakeUnregister, HubTypeOK
    <3> QED BY <3>1, TailFacts
  <2>2. HubTypeOK'
    BY <1>0, <1>2, <2>1 DEF HubTakeUnregister, HubTypeOK
  <2> QED BY <1>0, <1>2, <2>2, FrameTypes DEF HubTakeUnregister, TypeOK
<1>3. CASE HubRegister
  <2>1. HubTypeOK'
    BY <1>0, <1>3 DEF HubRegister, HubTypeOK, Locked, AtSelect
  <2> QED BY <1>0, <1>3, <2>1, FrameTypes DEF HubRegister, TypeOK
<1>4. CASE HubUnregister
  <2>1. HubTypeOK'
    BY <1>0, <1>4 DEF HubUnregister, HubTypeOK, AtSelect
  <2>2. SendTypeOK'
    BY <1>0, <1>4 DEF HubUnregister, HubTypeOK, SendTypeOK, Locked
  <2> QED BY <1>0, <1>4, <2>1, <2>2, FrameTypes DEF HubUnregister, TypeOK
<1>5. CASE HubDeliver
  <2>1. /\ Tail(routeQ) \in Seq(Envelope) /\ Head(routeQ) \in Envelope
        /\ Len(Tail(routeQ)) <= RouteCap
    <3>1. routeQ \in Seq(Envelope) /\ routeQ # <<>> /\ Len(routeQ) <= RouteCap
      BY <1>0, <1>5 DEF HubDeliver, HubTypeOK
    <3> QED BY <3>1, TailFacts
  <2>2. HubTypeOK'
    BY <1>0, <1>5, <2>1 DEF HubDeliver, HubTypeOK
  <2>3. SendTypeOK'
    <3>1. PICK u \in Head(routeQ).names :
            \/ UNCHANGED sendVars
            \/ clients[u] # NoConn /\ Offer(clients[u], Head(routeQ))
      BY <1>5 DEF HubDeliver
    <3>2. u \in Users
      BY <2>1 DEF Envelope
    <3>3. clients[u] # NoConn => clients[u] \in Conns
      BY <1>0, <3>2 DEF HubTypeOK
    <3> QED BY <1>0, <2>1, <3>1, <3>3, OfferType, FrameTypes
  <2> QED BY <1>0, <1>5, <2>2, <2>3, FrameTypes DEF HubDeliver, TypeOK
<1>6. CASE HubLock
  <2>1. HubTypeOK'
    BY <1>0, <1>6 DEF HubLock, HubTypeOK
  <2> QED BY <1>0, <1>6, <2>1, FrameTypes DEF HubLock, TypeOK
<1> QED BY <1>1, <1>2, <1>3, <1>4, <1>5, <1>6 DEF HubStep

(* The writer goroutine of a connection. *)
LEMMA WriterStepType ==
  ASSUME TypeOK, NEW c \in Conns, WriterStep(c)
  PROVE  TypeOK'
<1>0. HandlerTypeOK /\ HubTypeOK /\ WireTypeOK /\ SendTypeOK
  BY DEF TypeOK
<1>1. ASSUME send[c] # <<>>, send' = [send EXCEPT ![c] = Tail(@)], UNCHANGED <<closed, panicked>>
      PROVE  SendTypeOK'
  <2>1. send[c] \in Seq(Envelope) /\ Len(send[c]) <= SendCap
    BY <1>0 DEF SendTypeOK
  <2>2. Tail(send[c]) \in Seq(Envelope) /\ Len(Tail(send[c])) <= SendCap
    BY <1>1, <2>1, TailFacts, HubAssumption
  <2> QED BY <1>0, <1>1, <2>2 DEF SendTypeOK
<1>2. CASE WriterWrite(c)
  <2>1. SendTypeOK'
    BY <1>1, <1>2 DEF WriterWrite
  <2>2. Head(send[c]) \in Envelope
    BY <1>0, <1>2, TailFacts DEF WriterWrite, SendTypeOK
  <2>3. got' \in [Conns -> [Conns -> [Lanes -> Seq(Nat)]]]
    <3> DEFINE e == Head(send[c])
    <3>1. got \in [Conns -> [Conns -> [Lanes -> Seq(Nat)]]] /\ e.seq \in Nat
      BY <1>0, <2>2 DEF WireTypeOK, Envelope
    <3>2. CASE e.kind \in Lanes /\ e.from \in Conns
      <4> DEFINE row == [got[c][e.from] EXCEPT ![e.kind] = Append(@, e.seq)]
      <4>1. row \in [Lanes -> Seq(Nat)]
        BY <3>1, <3>2
      <4>2. got' = [got EXCEPT ![c] = [@ EXCEPT ![e.from] = row]]
        BY <1>2, <3>1, <3>2 DEF WriterWrite
      <4> QED BY <3>1, <3>2, <4>1, <4>2
    <3>3. CASE e.kind \in Lanes /\ e.from \notin Conns
      BY <1>2, <3>1, <3>3 DEF WriterWrite
    <3>4. CASE e.kind \notin Lanes
      BY <1>2, <3>1, <3>4 DEF WriterWrite
    <3> QED BY <3>2, <3>3, <3>4
  <2>4. WireTypeOK'
    BY <1>0, <1>2, <2>3 DEF WriterWrite, WireTypeOK
  <2> QED BY <1>0, <1>2, <2>1, <2>4, FrameTypes DEF WriterWrite, TypeOK
<1>3. CASE WriterFail(c)
  <2>1. SendTypeOK'
    BY <1>1, <1>3 DEF WriterFail
  <2>2. WireTypeOK'
    BY <1>0, <1>3 DEF WriterFail, WireTypeOK
  <2> QED BY <1>0, <1>3, <2>1, <2>2, FrameTypes DEF WriterFail, TypeOK
<1>4. CASE WriterEnd(c)
  <2>1. WireTypeOK'
    BY <1>0, <1>4 DEF WriterEnd, WireTypeOK
  <2> QED BY <1>0, <1>4, <2>1, FrameTypes DEF WriterEnd, TypeOK
<1> QED BY <1>2, <1>3, <1>4 DEF WriterStep

LEMMA InitType == Init => TypeOK
<1> SUFFICES ASSUME Init PROVE TypeOK
  OBVIOUS
<1>1. HandlerTypeOK
  <2>1. Notice({}) \in Envelope
    BY DEF Notice, Envelope, Kinds
  <2> QED BY <2>1, HubAssumption DEF Init, HandlerTypeOK, PcValues
<1>2. HubTypeOK
  BY HubAssumption DEF Init, HubTypeOK, AtSelect
<1>3. WireTypeOK
  BY DEF Init, WireTypeOK
<1>4. SendTypeOK
  <2>1. panicked \in BOOLEAN
    BY Zenon DEF Init
  <2>2. closed \in [Conns -> BOOLEAN]
    BY Zenon DEF Init
  <2>3. send \in [Conns -> Seq(Envelope)] /\ \A c \in Conns : Len(send[c]) <= SendCap
    BY HubAssumption DEF Init
  <2> QED BY <2>1, <2>2, <2>3 DEF SendTypeOK
<1> QED BY <1>1, <1>2, <1>3, <1>4 DEF TypeOK

LEMMA NextType == TypeOK /\ [Next]_vars => TypeOK'
<1> SUFFICES ASSUME TypeOK, [Next]_vars PROVE TypeOK'
  OBVIOUS
<1>1. CASE UNCHANGED vars
  BY <1>1, FrameTypes DEF vars, TypeOK
<1>2. CASE Next
  BY <1>1, <1>2, HandlerStepType, ClientStepType, HubStepType, WriterStepType DEF Next, Terminated
<1> QED BY <1>1, <1>2

(* Every buffer stays within its capacity and every variable within its type *)
(* for all numbers of connections, groups and messages.                      *)
THEOREM TypeCorrect == Spec => []TypeOK
  BY InitType, NextType, PTL DEF Spec

-----------------------------------------------------------------------------
(* Registrations. *)

Early   == {"idle", "register"}
Gone    == {"goodbye", "goodbyeSend", "done"}

Registering(c)   == c \in Range(registerQ) \/ (hub.op = "register" /\ hub.conn = c)
Unregistering(c) == c \in Range(unregisterQ) \/ (hub.op = "unregister" /\ hub.conn = c)

(* Most steps move no connection through the register/unregister protocol:   *)
(* no channel of it, no map entry, no closing, and no handler passes its     *)
(* first or its last stage.                                                  *)
regVars == <<hub.op, hub.conn, registerQ, unregisterQ, clients, closed>>

Stay ==
  /\ UNCHANGED regVars
  /\ \A c \in Conns : (pc'[c] \in Early <=> pc[c] \in Early) /\ (pc'[c] \in Gone <=> pc[c] \in Gone)

(* Every step is one of the protocol's or stays. *)
LEMMA Kinds7 ==
  ASSUME TypeOK, [Next]_vars
  PROVE  \/ Stay
         \/ \E c \in Conns : Register(c) \/ Unregister(c)
         \/ HubTakeRegister \/ HubTakeUnregister \/ HubRegister \/ HubUnregister
<1>0. pc \in [Conns -> PcValues]
  BY DEF TypeOK, HandlerTypeOK
<1>g. ASSUME NEW c \in Conns, NEW f, NEW t, Goto(c, f, t), UNCHANGED regVars,
             f \in Early <=> t \in Early, f \in Gone <=> t \in Gone
      PROVE  Stay
  BY <1>0, <1>g DEF Goto, Stay
<1>u. ASSUME UNCHANGED pc, UNCHANGED regVars PROVE Stay
  BY <1>u DEF Stay
<1>1. CASE UNCHANGED vars
  BY <1>1, <1>u DEF vars, handlerVars, hubVars, sendVars, regVars
<1>2. ASSUME NEW c \in Conns, HandlerStep(c), ~Register(c), ~Unregister(c) PROVE Stay
  <2>1. CASE Hello(c)
    <3>1. Goto(c, "hello", "helloSend") /\ UNCHANGED regVars
      BY <2>1 DEF Hello, BroadcastUserList, hubVars, sendVars, regVars
    <3> QED BY <1>g, <3>1 DEF Early, Gone
  <2>2. CASE Goodbye(c)
    <3>1. Goto(c, "goodbye", "goodbyeSend") /\ UNCHANGED regVars
      BY <2>2 DEF Goodbye, BroadcastUserList, hubVars, sendVars, regVars
    <3> QED BY <1>g, <3>1 DEF Early, Gone
  <2>3. CASE Fanout(c)
    BY <1>u, <2>3 DEF Fanout, Offer, hubVars, regVars
  <2>4. CASE FanoutDone(c)
    <3>1. UNCHANGED regVars
      BY <2>4 DEF FanoutDone, hubVars, sendVars, regVars
    <3>2. \/ Goto(c, "helloSend", "welcome") \/ Goto(c, "groupSend", "reading")
          \/ Goto(c, "goodbyeSend", "done")
      BY <2>4 DEF FanoutDone
    <3> QED BY <1>g, <3>1, <3>2 DEF Early, Gone
  <2>5. CASE Welcome(c)
    <3>1. Goto(c, "welcome", "reading") /\ UNCHANGED regVars
      BY <2>5 DEF Welcome, Offer, hubVars, regVars
    <3> QED BY <1>g, <3>1 DEF Early, Gone
  <2>6. CASE Route(c)
    <3>1. Goto(c, "routing", "reading") /\ UNCHANGED regVars
      BY <2>6 DEF Route, sendVars, regVars
    <3> QED BY <1>g, <3>1 DEF Early, Gone
  <2>7. CASE GroupLock(c)
    <3>1. Goto(c, "group", "groupSend") /\ UNCHANGED regVars
      BY <2>7 DEF GroupLock, hubVars, sendVars, regVars
    <3> QED BY <1>g, <3>1 DEF Early, Gone
  <2>8. CASE UserListResp(c)
    <3>1. Goto(c, "listing", "reading") /\ UNCHANGED regVars
      BY <2>8 DEF UserListResp, Offer, hubVars, regVars
    <3> QED BY <1>g, <3>1 DEF Early, Gone
  <2> QED BY <1>2, <2>1, <2>2, <2>3, <2>4, <2>5, <2>6, <2>7, <2>8 DEF HandlerStep
<1>3. ASSUME NEW c \in Conns, ClientStep(c) PROVE Stay
  <2>d. ASSUME NEW r, NEW t, Decode(c, r, t), UNCHANGED regVars, t \notin Early, t \notin Gone
        PROVE  Stay
    <3>1. Goto(c, "reading", t)
      BY <2>d DEF Decode
    <3> QED BY <1>g, <2>d, <3>1 DEF Early, Gone
  <2>1. CASE Login(c)
    <3>1. Goto(c, "idle", "register") /\ UNCHANGED regVars
      BY <2>1 DEF Login, hubVars, sendVars, regVars
    <3> QED BY <1>g, <3>1 DEF Early, Gone
  <2>2. CASE Leave(c)
    <3>1. Goto(c, "reading", "unregister") /\ UNCHANGED regVars
      BY <2>2 DEF Leave, hubVars, sendVars, regVars
    <3> QED BY <1>g, <3>1 DEF Early, Gone
  <2>3. CASE AnswerOnly(c)
    BY <2>3, <2>d DEF AnswerOnly, Offer, hubVars, regVars, Early, Gone
  <2>4. CASE UserListReq(c)
    BY <2>4, <2>d DEF UserListReq, hubVars, sendVars, regVars, Early, Gone
  <2>5. ASSUME NEW u \in Users, SendMsg(c, u) \/ Typing(c, u) PROVE Stay
    BY <2>5, <2>d DEF SendMsg, Typing, Echo, Offer, hubVars, sendVars, regVars, Early, Gone
  <2>6. ASSUME NEW G \in Groups, GroupMsg(c, G) \/ TypingGroup(c, G) PROVE Stay
    BY <2>6, <2>d DEF GroupMsg, TypingGroup, Echo, Offer, hubVars, sendVars, regVars, Early, Gone
  <2> QED BY <1>3, <2>1, <2>2, <2>3, <2>4, <2>5, <2>6 DEF ClientStep
<1>4. ASSUME NEW c \in Conns, WriterStep(c) PROVE Stay
  BY <1>4, <1>u DEF WriterStep, WriterWrite, WriterFail, WriterEnd, handlerVars, hubVars, sendVars, regVars
<1>5. ASSUME HubDeliver PROVE Stay
  BY <1>5, <1>u DEF HubDeliver, Offer, handlerVars, sendVars, regVars
<1>6. ASSUME HubLock PROVE Stay
  <2>1. hub'.op = hub.op /\ hub'.conn = hub.conn
    BY <1>6 DEF HubLock, TypeOK, HubTypeOK
  <2> QED BY <1>6, <1>u, <2>1 DEF HubLock, handlerVars, sendVars, regVars
<1> QED BY <1>1, <1>2, <1>3, <1>4, <1>5, <1>6 DEF Next, HubStep, Terminated

(* A connection is registered once, then unregistered once, but the hub may  *)
(* take the two in either order.  Sessions may share a user.                 *)
RegisterOnce ==
  /\ NoDup(registerQ)
  /\ hub.op = "register" => hub.conn \notin Range(registerQ)
  /\ \A c \in Conns : pc[c] \in Early => ~Registering(c)

UnregisterOnce ==
  /\ NoDup(unregisterQ)
  /\ hub.op = "unregister" => hub.conn \notin Range(unregisterQ)
  /\ \A c \in Conns : Unregistering(c) => pc[c] \in Gone
  /\ \A c \in Conns : closed[c] => pc[c] \in Gone /\ ~Unregistering(c)

(* The map holds a connection under its user's name, and only after its      *)
(* registration left the register channel.                                   *)
MapOK ==
  \A v \in Users, c \in Conns : clients[v] = c =>
    UserOf[c] = v /\ ~Registering(c) /\ pc[c] \notin Early

RegInv == RegisterOnce /\ UnregisterOnce /\ MapOK /\ SoleSessionOnline

(* The states of the protocol are those of the handlers it is about. *)
LEMMA StayInv ==
  ASSUME TypeOK, TypeOK', RegInv, Stay
  PROVE  RegInv'
<1> USE HubAssumption
<1>0. /\ pc \in [Conns -> PcValues] /\ pc' \in [Conns -> PcValues]
      /\ clients \in [Users -> Conns \cup {NoConn}]
  BY DEF TypeOK, HandlerTypeOK, HubTypeOK
<1>1. /\ hub'.op = hub.op /\ hub'.conn = hub.conn
      /\ registerQ' = registerQ /\ unregisterQ' = unregisterQ
      /\ clients' = clients /\ closed' = closed
      /\ \A c \in Conns : /\ pc'[c] \in Early <=> pc[c] \in Early
                          /\ pc'[c] \in Gone <=> pc[c] \in Gone
  BY DEF Stay, regVars
<1>2. \A c : (Registering(c)' <=> Registering(c)) /\ (Unregistering(c)' <=> Unregistering(c))
  BY <1>1 DEF Registering, Unregistering
<1>3. RegisterOnce' /\ UnregisterOnce'
  BY <1>1, <1>2 DEF RegInv, RegisterOnce, UnregisterOnce
<1>4. MapOK'
  BY <1>0, <1>1, <1>2 DEF RegInv, MapOK
<1>5. SoleSessionOnline'
  <2>1. ASSUME NEW c \in Conns, SessionEstablished(c)' PROVE SessionEstablished(c)
    BY <1>0, <1>1, <2>1 DEF SessionEstablished, Early, Gone
  <2> QED BY <1>1, <2>1 DEF RegInv, SoleSessionOnline, SoleSession
<1> QED BY <1>3, <1>4, <1>5 DEF RegInv

(* s.hub.register <- client and s.hub.unregister <- client. *)
LEMMA QueueInv ==
  ASSUME TypeOK, TypeOK', RegInv, NEW c \in Conns, Register(c) \/ Unregister(c)
  PROVE  RegInv'
<1> USE HubAssumption
<1>0. /\ pc \in [Conns -> PcValues] /\ clients \in [Users -> Conns \cup {NoConn}]
      /\ registerQ \in Seq(Conns) /\ unregisterQ \in Seq(Conns)
  BY DEF TypeOK, HandlerTypeOK, HubTypeOK
<1>1. CASE Register(c)
  <2>1. /\ pc[c] = "register" /\ pc' = [pc EXCEPT ![c] = "hello"]
        /\ registerQ' = Append(registerQ, c)
        /\ hub' = hub /\ unregisterQ' = unregisterQ /\ clients' = clients /\ closed' = closed
    BY <1>1 DEF Register, Goto, sendVars
  <2>2. ~Registering(c)
    BY <2>1 DEF RegInv, RegisterOnce, Early
  <2>3. NoDup(registerQ') /\ Range(registerQ') = Range(registerQ) \cup {c}
    BY <1>0, <2>1, <2>2, AppendFacts DEF RegInv, RegisterOnce, Registering
  <2>4. RegisterOnce'
    BY <1>0, <2>1, <2>2, <2>3 DEF RegInv, RegisterOnce, Registering, Early
  <2>5. UnregisterOnce'
    BY <1>0, <2>1 DEF RegInv, UnregisterOnce, Unregistering, Gone
  <2>6. MapOK'
    <3>1. \A v \in Users : clients[v] # c
      BY <2>1 DEF RegInv, MapOK, Early
    <3> QED BY <1>0, <2>1, <2>3, <3>1 DEF RegInv, MapOK, Registering
  <2>7. SoleSessionOnline'
    BY <1>0, <2>1, <2>3 DEF RegInv, SoleSessionOnline, SoleSession, SessionEstablished
  <2> QED BY <2>4, <2>5, <2>6, <2>7 DEF RegInv
<1>2. CASE Unregister(c)
  <2>1. /\ pc[c] = "unregister" /\ pc' = [pc EXCEPT ![c] = "goodbye"]
        /\ unregisterQ' = Append(unregisterQ, c)
        /\ hub' = hub /\ registerQ' = registerQ /\ clients' = clients /\ closed' = closed
    BY <1>2 DEF Unregister, Goto, sendVars
  <2>2. ~Unregistering(c) /\ ~closed[c]
    BY <2>1 DEF RegInv, UnregisterOnce, Gone
  <2>3. NoDup(unregisterQ') /\ Range(unregisterQ') = Range(unregisterQ) \cup {c}
    BY <1>0, <2>1, <2>2, AppendFacts DEF RegInv, UnregisterOnce, Unregistering
  <2>4. RegisterOnce'
    BY <1>0, <2>1 DEF RegInv, RegisterOnce, Registering, Early
  <2>5. UnregisterOnce'
    BY <1>0, <2>1, <2>2, <2>3 DEF RegInv, UnregisterOnce, Unregistering, Gone
  <2>6. MapOK'
    BY <1>0, <2>1 DEF RegInv, MapOK, Registering, Early
  <2>7. SoleSessionOnline'
    BY <1>0, <2>1 DEF RegInv, SoleSessionOnline, SoleSession, SessionEstablished
  <2> QED BY <2>4, <2>5, <2>6, <2>7 DEF RegInv
<1> QED BY <1>1, <1>2

(* The hub takes a connection from one of the two channels. *)
LEMMA TakeInv ==
  ASSUME TypeOK, TypeOK', RegInv, HubTakeRegister \/ HubTakeUnregister
  PROVE  RegInv'
<1> USE HubAssumption
<1>0. /\ pc \in [Conns -> PcValues] /\ clients \in [Users -> Conns \cup {NoConn}]
      /\ registerQ \in Seq(Conns) /\ unregisterQ \in Seq(Conns)
  BY DEF TypeOK, HandlerTypeOK, HubTypeOK
<1>1. CASE HubTakeRegister
  <2>1. /\ hub.op = "idle" /\ hub'.op = "register" /\ hub'.conn = Head(registerQ)
        /\ registerQ # <<>> /\ registerQ' = Tail(registerQ)
        /\ pc' = pc /\ unregisterQ' = unregisterQ /\ clients' = clients /\ closed' = closed
    BY <1>1 DEF HubTakeRegister, handlerVars, sendVars
  <2>2. /\ NoDup(registerQ') /\ Head(registerQ) \notin Range(registerQ')
        /\ Range(registerQ) = Range(registerQ') \cup {Head(registerQ)}
    BY <1>0, <2>1, TailFacts DEF RegInv, RegisterOnce
  <2>3. \A d : (Registering(d)' <=> Registering(d)) /\ (Unregistering(d)' <=> Unregistering(d))
    BY <2>1, <2>2 DEF Registering, Unregistering
  <2>4. RegisterOnce' /\ UnregisterOnce'
    BY <2>1, <2>2, <2>3 DEF RegInv, RegisterOnce, UnregisterOnce
  <2>5. MapOK'
    BY <1>0, <2>1, <2>3 DEF RegInv, MapOK
  <2>6. SoleSessionOnline'
    BY <2>1, <2>2 DEF RegInv, SoleSessionOnline, SoleSession, SessionEstablished
  <2> QED BY <2>4, <2>5, <2>6 DEF RegInv
<1>2. CASE HubTakeUnregister
  <2>1. /\ hub.op = "idle" /\ hub'.op = "unregister" /\ hub'.conn = Head(unregisterQ)
        /\ unregisterQ # <<>> /\ unregisterQ' = Tail(unregisterQ)
        /\ pc' = pc /\ registerQ' = registerQ /\ clients' = clients /\ closed' = closed
    BY <1>2 DEF HubTakeUnregister, handlerVars, sendVars
  <2>2. /\ NoDup(unregisterQ') /\ Head(unregisterQ) \notin Range(unregisterQ')
        /\ Range(unregisterQ) = Range(unregisterQ') \cup {Head(unregisterQ)}
    BY <1>0, <2>1, TailFacts DEF RegInv, UnregisterOnce
  <2>3. \A d : (Registering(d)' <=> Registering(d)) /\ (Unregistering(d)' <=> Unregistering(d))
    BY <2>1, <2>2 DEF Registering, Unregistering
  <2>4. RegisterOnce' /\ UnregisterOnce'
    BY <2>1, <2>2, <2>3 DEF RegInv, RegisterOnce, UnregisterOnce
  <2>5. MapOK'
    BY <1>0, <2>1, <2>3 DEF RegInv, MapOK
  <2>6. SoleSessionOnline'
    BY <2>1 DEF RegInv, SoleSessionOnline, SoleSession, SessionEstablished
  <2> QED BY <2>4, <2>5, <2>6 DEF RegInv
<1> QED BY <1>1, <1>2

(* The hub applies what it took, under the write lock. *)
LEMMA ApplyInv ==
  ASSUME TypeOK, TypeOK', RegInv, HubRegister \/ HubUnregister
  PROVE  RegInv'
<1> USE HubAssumption
<1>0. /\ pc \in [Conns -> PcValues] /\ clients \in [Users -> Conns \cup {NoConn}]
      /\ closed \in [Conns -> BOOLEAN]
  BY DEF TypeOK, HandlerTypeOK, HubTypeOK, SendTypeOK
<1>1. CASE HubRegister
  <2>h. PICK h \in Conns : h = hub.conn
    BY <1>1 DEF HubRegister, Locked, TypeOK, HubTypeOK
  <2>1. /\ hub.op = "register" /\ hub'.op = "idle" /\ clients' = [clients EXCEPT ![UserOf[h]] = h]
        /\ pc' = pc /\ registerQ' = registerQ /\ unregisterQ' = unregisterQ /\ closed' = closed
    BY <1>1, <2>h DEF HubRegister, Locked, AtSelect, handlerVars, sendVars
  <2>2. h \in Conns /\ h # NoConn /\ UserOf[h] \in Users
    OBVIOUS
  <2>3. h \notin Range(registerQ) /\ Registering(h) /\ pc[h] \notin Early
    BY <2>h, <2>1, <2>2 DEF RegInv, RegisterOnce, Registering
  <2>4. \A d : (Registering(d)' => Registering(d)) /\ (Unregistering(d)' <=> Unregistering(d))
    BY <2>1 DEF Registering, Unregistering
  <2>5. RegisterOnce' /\ UnregisterOnce'
    BY <2>1, <2>4 DEF RegInv, RegisterOnce, UnregisterOnce
  <2>6. MapOK'
    <3>1. ~Registering(h)'
      BY <2>1, <2>3 DEF Registering
    <3>2. ASSUME NEW v \in Users, NEW c \in Conns, clients'[v] = c
          PROVE  UserOf[c] = v /\ ~Registering(c)' /\ pc'[c] \notin Early
      <4>1. CASE v = UserOf[h]
        <5>1. c = h
          BY <1>0, <2>1, <2>2, <3>2, <4>1
        <5> QED BY <2>1, <2>3, <3>1, <4>1, <5>1
      <4>2. CASE v # UserOf[h]
        <5>1. clients[v] = c
          BY <1>0, <2>1, <3>2, <4>2
        <5> QED BY <2>1, <2>4, <5>1 DEF RegInv, MapOK
      <4> QED BY <4>1, <4>2
    <3> QED BY <3>2 DEF MapOK
  <2>7. SoleSessionOnline'
    <3>1. ASSUME NEW c \in Conns, SoleSession(c), SessionEstablished(c)'
          PROVE  clients'[UserOf[c]] = c
      <4>1. CASE c = h
        BY <1>0, <2>1, <2>2, <4>1
      <4>2. CASE c # h
        <5>1. SessionEstablished(c)
          BY <2>h, <2>1, <3>1, <4>2 DEF SessionEstablished
        <5>2. UserOf[c] # UserOf[h]
          BY <2>2, <3>1, <4>2 DEF SoleSession
        <5> QED BY <1>0, <2>1, <3>1, <5>1, <5>2 DEF RegInv, SoleSessionOnline
      <4> QED BY <4>1, <4>2
    <3> QED BY <3>1 DEF SoleSessionOnline, SoleSession
  <2> QED BY <2>5, <2>6, <2>7 DEF RegInv
<1>2. CASE HubUnregister
  <2>h. PICK h \in Conns : h = hub.conn
    BY <1>2 DEF HubUnregister, Locked, TypeOK, HubTypeOK
  <2>1. /\ hub.op = "unregister" /\ hub'.op = "idle"
        /\ pc' = pc /\ registerQ' = registerQ /\ unregisterQ' = unregisterQ
        /\ clients' = [clients EXCEPT ![UserOf[h]] = NoConn] \/ clients' = clients
        /\ closed' = [closed EXCEPT ![h] = TRUE] \/ closed' = closed
    BY <1>2, <2>h DEF HubUnregister, Locked, AtSelect, handlerVars
  <2>2. h \in Conns /\ UserOf[h] \in Users
    OBVIOUS
  <2>3. Unregistering(h) /\ pc[h] \in Gone /\ h \notin Range(unregisterQ)
    BY <2>h, <2>1, <2>2 DEF RegInv, UnregisterOnce, Unregistering
  <2>4. \A d : (Registering(d)' <=> Registering(d)) /\ (Unregistering(d)' => Unregistering(d))
    BY <2>1 DEF Registering, Unregistering
  <2>5. RegisterOnce'
    BY <2>1, <2>4 DEF RegInv, RegisterOnce
  <2>6. UnregisterOnce'
    <3>1. ~Unregistering(h)'
      BY <2>1, <2>3 DEF Unregistering
    <3>2. ASSUME NEW c \in Conns, closed'[c] PROVE pc'[c] \in Gone /\ ~Unregistering(c)'
      <4>1. CASE c = h
        BY <2>1, <2>3, <3>1, <4>1
      <4>2. CASE c # h
        BY <1>0, <2>1, <2>4, <3>2, <4>2 DEF RegInv, UnregisterOnce
      <4> QED BY <4>1, <4>2
    <3> QED BY <2>1, <2>4, <3>2 DEF RegInv, UnregisterOnce
  <2>7. \A v \in Users, c \in Conns : clients'[v] = c => clients[v] = c
    BY <1>0, <2>1, <2>2
  <2>8. MapOK'
    BY <2>1, <2>4, <2>7 DEF RegInv, MapOK
  <2>9. SoleSessionOnline'
    <3>1. ASSUME NEW c \in Conns, SoleSession(c), SessionEstablished(c)'
          PROVE  clients'[UserOf[c]] = c
      <4>1. SessionEstablished(c) /\ c # h
        BY <2>1, <2>3, <3>1 DEF SessionEstablished, Gone
      <4>2. UserOf[c] # UserOf[h]
        BY <2>2, <3>1, <4>1 DEF SoleSession
      <4> QED BY <1>0, <2>1, <2>2, <3>1, <4>1, <4>2 DEF RegInv, SoleSessionOnline
    <3> QED BY <3>1 DEF SoleSessionOnline, SoleSession
  <2> QED BY <2>5, <2>6, <2>8, <2>9 DEF RegInv
<1> QED BY <1>1, <1>2

LEMMA InitReg == Init => RegInv
<1> SUFFICES ASSUME Init PROVE RegInv
  OBVIOUS
<1> USE HubAssumption
<1>1. Range(registerQ) = {} /\ Range(unregisterQ) = {} /\ NoDup(registerQ) /\ NoDup(unregisterQ)
  BY DEF Init, Range, NoDup
<1>2. RegisterOnce /\ UnregisterOnce
  BY <1>1 DEF Init, AtSelect, RegisterOnce, UnregisterOnce, Registering, Unregistering
<1>3. MapOK
  BY DEF Init, MapOK
<1>4. SoleSessionOnline
  BY DEF Init, SoleSessionOnline, SessionEstablished
<1> QED BY <1>2, <1>3, <1>4 DEF RegInv

LEMMA NextReg == TypeOK /\ RegInv /\ [Next]_vars => RegInv'
  BY NextType, Kinds7, StayInv, QueueInv, TakeInv, ApplyInv

-----------------------------------------------------------------------------
(* What follows. *)

(* A session whose user has no other one is online as long as it is served,  *)
(* whatever the other sessions and the order of the hub's channels do.       *)
THEOREM SoleSessionsAreOnline == Spec => []SoleSessionOnline
<1>1. RegInv => SoleSessionOnline
  BY DEF RegInv
<1> QED BY InitType, NextType, InitReg, NextReg, <1>1, PTL DEF Spec

(* No connection is unregistered twice and none is closed before its turn.   *)
THEOREM CleanupHappensOnce == Spec => []OneCleanup
<1>1. TypeOK /\ RegInv => OneCleanup
  <2> SUFFICES ASSUME TypeOK, RegInv PROVE OneCleanup
    OBVIOUS
  <2>1. Range(unregisterQ) \subseteq Conns
    BY RangeOfSeq DEF TypeOK, HubTypeOK
  <2>2. hub.op = "unregister" => hub.conn \in Conns
    BY DEF TypeOK, HubTypeOK
  <2> QED BY <2>1, <2>2 DEF OneCleanup, RegInv, UnregisterOnce, Unregistering, NoDup
<1> QED BY InitType, NextType, InitReg, NextReg, <1>1, PTL DEF Spec

-----------------------------------------------------------------------------
(* Closed channels. *)

(* What a handler is going over was found in the map and is still there: the *)
(* map does not change while a handler holds the read lock.                  *)
TodoInv ==
  \A c, d \in Conns : d \in todo[c] => pc[c] \in Sending /\ clients[UserOf[d]] = d

(* A connection whose channel is closed is off the map for good. *)
ClosedOut ==
  \A c \in Conns : closed[c] => ~Registering(c) /\ \A v \in Users : clients[v] # c

LEMMA RegisteredTargets ==
  ASSUME TypeOK, RegInv, NEW S \in SUBSET Users, NEW d \in Registered(S)
  PROVE  d \in Conns /\ clients[UserOf[d]] = d
<1>1. PICK v \in S : d = clients[v] /\ d # NoConn
  BY DEF Registered
<1>2. d \in Conns
  BY <1>1 DEF TypeOK, HubTypeOK
<1> QED BY <1>1, <1>2 DEF RegInv, MapOK

LEMMA NextTodo ==
  ASSUME TypeOK, RegInv, TodoInv, [Next]_vars
  PROVE  TodoInv'
<1> USE HubAssumption
<1>0. /\ pc \in [Conns -> PcValues] /\ todo \in [Conns -> SUBSET Conns] /\ job \in [Conns -> Envelope]
  BY DEF TypeOK, HandlerTypeOK
<1>g. ASSUME NEW c \in Conns, NEW f, NEW t, Goto(c, f, t), UNCHANGED <<todo, clients>>, f \notin Sending
      PROVE  TodoInv'
  BY <1>0, <1>g DEF TodoInv, Goto
<1>u. ASSUME UNCHANGED <<pc, todo, clients>> PROVE TodoInv'
  BY <1>u DEF TodoInv
<1>n. ASSUME NEW c \in Conns, NEW f, NEW t \in Sending, Goto(c, f, t), UNCHANGED clients,
             NEW S \in SUBSET Users, todo' = [todo EXCEPT ![c] = Registered(S)]
      PROVE  TodoInv'
  <2>1. ASSUME NEW b \in Conns, NEW d \in Conns, d \in todo'[b]
        PROVE  pc'[b] \in Sending /\ clients'[UserOf[d]] = d
    <3>1. CASE b = c
      <4>1. d \in Registered(S)
        BY <1>0, <1>n, <2>1, <3>1
      <4> QED BY <1>0, <1>n, <3>1, <4>1, RegisteredTargets DEF Goto
    <3>2. CASE b # c
      BY <1>0, <1>n, <2>1, <3>2 DEF TodoInv, Goto
    <3> QED BY <3>1, <3>2
  <2> QED BY <2>1 DEF TodoInv
<1>h. ASSUME Readers = {}, UNCHANGED <<pc, todo>> PROVE TodoInv'
  BY <1>0, <1>h DEF TodoInv, Readers
<1>1. CASE UNCHANGED vars
  BY <1>1, <1>u DEF vars, handlerVars, hubVars
<1>2. CASE HubStep
  <2>1. CASE HubRegister \/ HubUnregister
    BY <1>h, <2>1 DEF HubRegister, HubUnregister, Locked, handlerVars
  <2>2. CASE HubTakeRegister \/ HubTakeUnregister \/ HubDeliver \/ HubLock
    BY <1>u, <2>2 DEF HubTakeRegister, HubTakeUnregister, HubDeliver, HubLock, handlerVars
  <2> QED BY <1>2, <2>1, <2>2 DEF HubStep
<1>3. ASSUME NEW c \in Conns, HandlerStep(c) PROVE TodoInv'
  <2>1. CASE Register(c) \/ Unregister(c)
    BY <1>g, <2>1 DEF Register, Unregister, Sending
  <2>2. CASE Hello(c) \/ Goodbye(c)
    <3>1. Users \in SUBSET Users /\ {"helloSend", "goodbyeSend"} \subseteq Sending
      BY DEF Sending
    <3> QED BY <1>n, <2>2, <3>1 DEF Hello, Goodbye, BroadcastUserList, hubVars
  <2>3. CASE Fanout(c)
    <3>1. UNCHANGED <<pc, clients>> /\ \E d \in todo[c] : todo' = [todo EXCEPT ![c] = @ \ {d}]
      BY <2>3 DEF Fanout, hubVars
    <3> QED BY <1>0, <3>1 DEF TodoInv
  <2>4. CASE FanoutDone(c)
    <3>1. todo[c] = {} /\ UNCHANGED <<todo, clients>> /\ \E t : pc' = [pc EXCEPT ![c] = t]
      BY <2>4 DEF FanoutDone, Goto, hubVars
    <3> QED BY <1>0, <3>1 DEF TodoInv
  <2>5. CASE Welcome(c) \/ Route(c) \/ UserListResp(c)
    BY <1>g, <2>5 DEF Welcome, Route, UserListResp, hubVars, Sending
  <2>6. CASE GroupLock(c)
    <3>1. job[c].names \ {UserOf[c]} \in SUBSET Users /\ "groupSend" \in Sending
      BY <1>0 DEF Envelope, Sending
    <3> QED BY <1>n, <2>6, <3>1 DEF GroupLock, hubVars
  <2> QED BY <1>3, <2>1, <2>2, <2>3, <2>4, <2>5, <2>6 DEF HandlerStep
<1>4. ASSUME NEW c \in Conns, ClientStep(c) PROVE TodoInv'
  <2>0. (\E f, t : Goto(c, f, t) /\ f \notin Sending) \/ (\E r, t : Decode(c, r, t))
    <3>1. CASE Login(c) \/ Leave(c)
      BY <3>1 DEF Login, Leave, Sending
    <3>2. CASE AnswerOnly(c) \/ UserListReq(c)
      BY <3>2 DEF AnswerOnly, UserListReq
    <3>3. CASE \E u \in Users : SendMsg(c, u) \/ Typing(c, u)
      BY <3>3 DEF SendMsg, Typing
    <3>4. CASE \E G \in Groups : GroupMsg(c, G) \/ TypingGroup(c, G)
      BY <3>4 DEF GroupMsg, TypingGroup
    <3> QED BY <1>4, <3>1, <3>2, <3>3, <3>4 DEF ClientStep
  <2>1. PICK f, t : Goto(c, f, t) /\ f \notin Sending
    BY <2>0 DEF Decode, Sending
  <2>2. UNCHANGED <<todo, clients>>
    BY <1>4 DEF ClientStep, Login, Leave, AnswerOnly, UserListReq, SendMsg, Typing, GroupMsg,
                TypingGroup, hubVars
  <2> QED BY <1>g, <2>1, <2>2
<1>5. ASSUME NEW c \in Conns, WriterStep(c) PROVE TodoInv'
  BY <1>u, <1>5 DEF WriterStep, WriterWrite, WriterFail, WriterEnd, handlerVars, hubVars
<1> QED BY <1>1, <1>2, <1>3, <1>4, <1>5 DEF Next, Terminated

LEMMA NextClosed ==
  ASSUME TypeOK, RegInv, ClosedOut, SessionsApart, [Next]_vars
  PROVE  ClosedOut'
<1> USE HubAssumption
<1>0. /\ pc \in [Conns -> PcValues] /\ clients \in [Users -> Conns \cup {NoConn}]
      /\ closed \in [Conns -> BOOLEAN]
      /\ registerQ \in Seq(Conns) /\ unregisterQ \in Seq(Conns)
  BY DEF TypeOK, HandlerTypeOK, HubTypeOK, SendTypeOK
<1>1. CASE Stay
  BY <1>1 DEF ClosedOut, Stay, regVars, Registering
<1>2. ASSUME NEW c \in Conns, Register(c) PROVE ClosedOut'
  <2>1. ~closed[c]
    BY <1>2 DEF Register, Goto, RegInv, UnregisterOnce, Gone
  <2>2. Range(registerQ') = Range(registerQ) \cup {c}
    BY <1>0, <1>2, AppendFacts DEF Register
  <2> QED BY <1>2, <2>1, <2>2 DEF Register, ClosedOut, Registering, sendVars
<1>3. ASSUME NEW c \in Conns, Unregister(c) PROVE ClosedOut'
  BY <1>3 DEF Unregister, ClosedOut, Registering, sendVars
<1>4. CASE HubTakeRegister
  <2>1. Range(registerQ) = Range(Tail(registerQ)) \cup {Head(registerQ)}
    BY <1>0, <1>4, TailFacts DEF HubTakeRegister
  <2> QED BY <1>4, <2>1 DEF HubTakeRegister, ClosedOut, Registering, sendVars
<1>5. CASE HubTakeUnregister
  BY <1>5 DEF HubTakeUnregister, ClosedOut, Registering, sendVars
<1>6. CASE HubRegister
  <2>h. PICK h \in Conns : h = hub.conn
    BY <1>6 DEF HubRegister, Locked, TypeOK, HubTypeOK
  <2>1. /\ hub.op = "register" /\ hub'.op = "idle" /\ clients' = [clients EXCEPT ![UserOf[h]] = h]
        /\ registerQ' = registerQ /\ closed' = closed
    BY <1>6, <2>h DEF HubRegister, Locked, AtSelect, sendVars
  <2>2. ~closed[h]
    BY <2>h, <2>1 DEF ClosedOut, Registering
  <2> QED BY <1>0, <2>1, <2>2 DEF ClosedOut, Registering
<1>7. CASE HubUnregister
  <2>h. PICK h \in Conns : h = hub.conn
    BY <1>7 DEF HubUnregister, Locked, TypeOK, HubTypeOK
  <2>1. hub.op = "unregister" /\ hub'.op = "idle" /\ registerQ' = registerQ
    BY <1>7 DEF HubUnregister, Locked, AtSelect
  <2>2. CASE UNCHANGED <<clients, closed>>
    BY <2>1, <2>2 DEF ClosedOut, Registering
  <2>3. CASE ~UNCHANGED <<clients, closed>>
    <3>1. /\ clients[UserOf[h]] # NoConn /\ clients' = [clients EXCEPT ![UserOf[h]] = NoConn]
          /\ closed' = [closed EXCEPT ![h] = TRUE]
      BY <1>7, <2>h, <2>3 DEF HubUnregister
    <3>2. clients[UserOf[h]] = h
      <4>1. PICK d \in Conns : d = clients[UserOf[h]]
        BY <1>0, <3>1
      <4>2. UserOf[d] = UserOf[h] /\ Alive(d)
        BY <4>1 DEF RegInv, MapOK, Alive
      <4>3. Alive(h)
        BY <2>h DEF Alive
      <4> QED BY <4>1, <4>2, <4>3 DEF SessionsApart
    <3>3. ~Registering(h)
      BY <3>2 DEF RegInv, MapOK
    <3>4. \A v \in Users : clients'[v] # h
      BY <1>0, <3>1 DEF RegInv, MapOK
    <3>5. \A v \in Users, c \in Conns : clients'[v] = c => clients[v] = c
      BY <1>0, <3>1
    <3> QED BY <1>0, <2>1, <3>1, <3>3, <3>4, <3>5 DEF ClosedOut, Registering
  <2> QED BY <2>2, <2>3
<1> QED BY <1>1, <1>2, <1>3, <1>4, <1>5, <1>6, <1>7, Kinds7

(* No step of the hub or of a handler sends on a closed channel or closes    *)
(* one again.                                                                *)
LEMMA NoPanicStep ==
  ASSUME TypeOK, RegInv, TodoInv, ClosedOut, ~panicked, [Next]_vars
  PROVE  ~panicked'
<1> USE HubAssumption
<1>0. /\ pc \in [Conns -> PcValues] /\ todo \in [Conns -> SUBSET Conns]
      /\ clients \in [Users -> Conns \cup {NoConn}] /\ routeQ \in Seq(Envelope)
  BY DEF TypeOK, HandlerTypeOK, HubTypeOK
<1>o. ASSUME NEW d \in Conns, NEW e, ~closed[d], Offer(d, e) PROVE ~panicked'
  BY <1>o DEF Offer
<1>s. ASSUME NEW c \in Conns, pc[c] \notin Gone PROVE ~closed[c]
  BY <1>s DEF RegInv, UnregisterOnce
<1>m. ASSUME NEW v \in Users, clients[v] # NoConn
      PROVE  clients[v] \in Conns /\ ~closed[clients[v]]
  BY <1>0, <1>m DEF ClosedOut
<1>1. CASE UNCHANGED vars
  BY <1>1 DEF vars, sendVars
<1>2. CASE HubStep
  <2>1. CASE HubUnregister
    <3>1. hub.conn \in Conns /\ ~closed[hub.conn]
      BY <2>1 DEF HubUnregister, Locked, TypeOK, HubTypeOK, RegInv, UnregisterOnce, Unregistering
    <3> QED BY <2>1, <3>1 DEF HubUnregister
  <2>2. CASE HubDeliver
    <3>1. PICK v \in Head(routeQ).names :
            UNCHANGED panicked \/ (clients[v] # NoConn /\ Offer(clients[v], Head(routeQ)))
      BY <2>2 DEF HubDeliver, sendVars
    <3>2. Head(routeQ) \in Envelope
      BY <1>0, <2>2, TailFacts DEF HubDeliver
    <3>3. v \in Users
      BY <3>2 DEF Envelope
    <3> QED BY <1>m, <1>o, <3>1, <3>3
  <2>3. CASE HubTakeRegister \/ HubTakeUnregister \/ HubRegister \/ HubLock
    BY <2>3 DEF HubTakeRegister, HubTakeUnregister, HubRegister, HubLock, sendVars
  <2> QED BY <1>2, <2>1, <2>2, <2>3 DEF HubStep
<1>3. ASSUME NEW c \in Conns, HandlerStep(c) PROVE ~panicked'
  <2>1. CASE Fanout(c)
    <3>1. PICK d \in todo[c] : Offer(d, job[c])
      BY <2>1 DEF Fanout
    <3>2. d \in Conns /\ clients[UserOf[d]] = d
      BY <1>0 DEF TodoInv
    <3>3. ~closed[d]
      BY <3>2 DEF ClosedOut
    <3> QED BY <1>o, <3>1, <3>2, <3>3
  <2>2. CASE Welcome(c) \/ UserListResp(c)
    <3>1. pc[c] \notin Gone /\ Offer(c, job[c])
      BY <2>2 DEF Welcome, UserListResp, Goto, Gone
    <3> QED BY <1>o, <1>s, <3>1
  <2>3. CASE \/ Register(c) \/ Hello(c) \/ Goodbye(c) \/ FanoutDone(c) \/ Route(c)
             \/ GroupLock(c) \/ Unregister(c)
    BY <2>3 DEF Register, Hello, Goodbye, BroadcastUserList, FanoutDone, Route, GroupLock,
                Unregister, sendVars
  <2> QED BY <1>3, <2>1, <2>2, <2>3 DEF HandlerStep
<1>4. ASSUME NEW c \in Conns, ClientStep(c) PROVE ~panicked'
  <2>d. ASSUME NEW r, NEW t, Decode(c, r, t) PROVE ~closed[c]
    BY <1>s, <2>d DEF Decode, Goto, Gone
  <2>1. CASE AnswerOnly(c)
    BY <1>o, <2>1, <2>d DEF AnswerOnly
  <2>2. CASE Login(c) \/ Leave(c) \/ UserListReq(c)
    BY <2>2 DEF Login, Leave, UserListReq, sendVars
  <2>3. ASSUME NEW u \in Users, SendMsg(c, u) PROVE ~panicked'
    BY <1>o, <2>3, <2>d DEF SendMsg, Echo
  <2>4. ASSUME NEW u \in Users, Typing(c, u) PROVE ~panicked'
    BY <1>m, <1>o, <2>4 DEF Typing, sendVars
  <2>5. ASSUME NEW G \in Groups, GroupMsg(c, G) PROVE ~panicked'
    BY <1>o, <2>5, <2>d DEF GroupMsg, Echo
  <2>6. ASSUME NEW G \in Groups, TypingGroup(c, G) PROVE ~panicked'
    BY <2>6 DEF TypingGroup, sendVars
  <2> QED BY <1>4, <2>1, <2>2, <2>3, <2>4, <2>5, <2>6 DEF ClientStep
<1>5. ASSUME NEW c \in Conns, WriterStep(c) PROVE ~panicked'
  BY <1>5 DEF WriterStep, WriterWrite, WriterFail, WriterEnd, sendVars
<1> QED BY <1>1, <1>2, <1>3, <1>4, <1>5 DEF Next, Terminated

LEMMA InitClosed == Init => TodoInv /\ ClosedOut /\ ~panicked
  BY DEF Init, TodoInv, ClosedOut

LEMMA InitApart == Init => SessionsApart
<1> SUFFICES ASSUME Init, NEW c \in Conns, NEW d \in Conns PROVE ~Alive(c)
  BY DEF SessionsApart
<1>1. /\ pc[c] = "idle" /\ clients[UserOf[c]] = NoConn /\ hub.conn = NoConn
      /\ registerQ = <<>> /\ unregisterQ = <<>> /\ c # NoConn
  BY HubAssumption DEF Init, AtSelect
<1>2. Range(registerQ) = {} /\ Range(unregisterQ) = {}
  BY <1>1 DEF Range
<1> QED BY <1>1, <1>2 DEF Alive

(* What the last two theorems rest on holds throughout an orderly behaviour. *)
OrderlyInv == TypeOK /\ RegInv /\ TodoInv /\ ClosedOut /\ SessionsApart

LEMMA Orderly == OrderlySpec => []OrderlyInv
<1>1. Init => OrderlyInv
  BY InitType, InitReg, InitClosed, InitApart DEF OrderlyInv
<1>2. OrderlyInv /\ [Next /\ SessionsApart']_vars => OrderlyInv'
  <2> SUFFICES ASSUME OrderlyInv, [Next /\ SessionsApart']_vars PROVE OrderlyInv'
    OBVIOUS
  <2>0. [Next]_vars
    OBVIOUS
  <2>1. TypeOK' /\ RegInv' /\ TodoInv' /\ ClosedOut'
    BY <2>0, NextType, NextReg, NextTodo, NextClosed DEF OrderlyInv
  <2>2. SessionsApart'
    <3>1. CASE UNCHANGED vars
      BY <3>1 DEF OrderlyInv, SessionsApart, Alive, vars, handlerVars, hubVars
    <3> QED BY <3>1
  <2> QED BY <2>1, <2>2 DEF OrderlyInv
<1> QED BY <1>1, <1>2, PTL DEF OrderlySpec

(* However often users come and go: if nobody logs in before the hub has     *)
(* forgotten his last session, no goroutine sends on a closed channel, and   *)
(* the server does not panic.                                                *)
THEOREM ServerDoesNotPanic == OrderlySpec => []NoSendOnClosed
<1>1. Init => ~panicked
  BY InitClosed
<1>2. OrderlyInv /\ ~panicked /\ [Next /\ SessionsApart']_vars => ~panicked'
  BY NoPanicStep DEF OrderlyInv
<1> QED BY <1>1, <1>2, Orderly, PTL DEF OrderlySpec, NoSendOnClosed

(* Then also whoever goes over the clients under the read lock meets only    *)
(* connections that are on the map and open.                                 *)
THEOREM FanoutIsSafe == OrderlySpec => []FanoutTargetsLive
<1>1. OrderlyInv => FanoutTargetsLive
  <2> SUFFICES ASSUME OrderlyInv, NEW c \in Readers, NEW d \in todo[c]
               PROVE  clients[UserOf[d]] = d /\ ~closed[d]
    BY DEF FanoutTargetsLive
  <2>1. c \in Conns /\ d \in Conns /\ UserOf[d] \in Users
    BY HubAssumption DEF Readers, OrderlyInv, TypeOK, HandlerTypeOK
  <2> QED BY <2>1 DEF OrderlyInv, TodoInv, ClosedOut
<1> QED BY <1>1, Orderly, PTL
=============================================================================
