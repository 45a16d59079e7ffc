-------------------------- MODULE DeliveryProofs --------------------------
(***************************************************************************)
(* The hub, the handlers and the writers implement Delivery, for any       *)
(* connections, users, groups and capacities: what a client is shown on a  *)
(* lane was sent to it, is shown there once, and in the order it was sent. *)
(*                                                                         *)
(* A message is on its way in a handler's hands, in the route channel, in  *)
(* the buffers of its receivers, and on the wire.  The invariant says of   *)
(* each receiver that what is there already is older than what is still to *)
(* come (Before), and that nobody gets a message twice on one lane.        *)
(***************************************************************************)
EXTENDS HubProofs

(* A chat envelope is about a message that was sent, to those it names. *)
SoundIn(S, e) ==
  e.kind \in Lanes =>
    /\ e.from \in Conns /\ e.seq \in DOMAIN S[e.from]
    /\ S[e.from][e.seq].to = e.names
    /\ e.kind # "echo" => S[e.from][e.seq].kind = e.kind

(* It is for r: its sender as an echo, and otherwise its addressee. *)
ForIn(S, r, e) ==
  /\ SoundIn(S, e)
  /\ e.kind = "echo" => r = e.from
  /\ e.kind \in {"dm", "group"} => UserOf[r] \in e.names
  /\ e.kind = "group" => UserOf[r] # UserOf[e.from]

(* Of the messages of s on lane k, those shown (g) or buffered (q) are older *)
(* than the n-th.                                                            *)
OlderIn(g, q, s, k, n) ==
  /\ \A i \in DOMAIN g[s][k] : g[s][k][i] < n
  /\ \A j \in DOMAIN q : q[j].from = s /\ q[j].kind = k => q[j].seq < n

(* A buffer holds messages for its client, each once and in order, and none *)
(* that is already on the wire.                                             *)
WireIn(S, g, q, r) ==
  /\ \A j \in DOMAIN q : ForIn(S, r, q[j])
  /\ \A i, j \in DOMAIN q :
       i < j /\ q[i].kind \in Lanes /\ q[i].kind = q[j].kind /\ q[i].from = q[j].from
         => q[i].seq < q[j].seq
  /\ \A j \in DOMAIN q : q[j].kind \in Lanes =>
       \A i \in DOMAIN g[q[j].from][q[j].kind] : g[q[j].from][q[j].kind][i] < q[j].seq

Sound(e)           == SoundIn(sent, e)
Before(r, s, k, n) == OlderIn(got[r], send[r], s, k, n)
WireOK(r)          == WireIn(sent, got[r], send[r], r)

(* Nobody was given a message that was not sent. *)
NoneAhead == \A r, s \in Conns, k \in Lanes : Before(r, s, k, Len(sent[s]) + 1)

(* A direct message that nobody was given, but as an echo. *)
Fresh(e) ==
  e.kind \in Lanes =>
    /\ e.kind = "dm" /\ Sound(e)
    /\ \A r \in Conns : Before(r, e.from, "dm", e.seq)

Routed ==
  /\ \A i \in DOMAIN routeQ : Fresh(routeQ[i])
  /\ \A i, j \in DOMAIN routeQ :
       i < j /\ routeQ[i].kind = "dm" /\ routeQ[j].kind = "dm" /\ routeQ[i].from = routeQ[j].from
         => routeQ[i].seq < routeQ[j].seq

(* What c's handler passes on is newer than whatever its addressees have. *)
JobOK(c) ==
  /\ pc[c] \notin {"routing", "group", "groupSend"} => job[c].kind \notin Lanes
  /\ job[c].kind \in Lanes => job[c].from = c /\ Sound(job[c])
  /\ pc[c] = "routing" =>
       /\ Fresh(job[c])
       /\ job[c].kind \in Lanes => \A i \in DOMAIN routeQ :
            routeQ[i].kind = "dm" /\ routeQ[i].from = c => routeQ[i].seq < job[c].seq
  /\ pc[c] = "group" /\ job[c].kind \in Lanes =>
       job[c].kind = "group" /\ \A r \in Conns : Before(r, c, "group", job[c].seq)
  /\ pc[c] = "groupSend" /\ job[c].kind \in Lanes =>
       /\ job[c].kind = "group"
       /\ \A r \in todo[c] :
            /\ UserOf[r] \in job[c].names /\ UserOf[r] # UserOf[c]
            /\ Before(r, c, "group", job[c].seq)

Wires == \A r \in Conns : WireOK(r)
Jobs  == \A c \in Conns : JobOK(c)

DInv == Wires /\ NoneAhead /\ Routed /\ Jobs

-----------------------------------------------------------------------------
(* One connection's buffer and wire. *)

Shown == [Conns -> [Lanes -> Seq(Nat)]]
Logs  == [Conns -> Seq(Message)]

(* The logs only grow. *)
Grown(S, T) ==
  \A s \in Conns : /\ Len(S[s]) <= Len(T[s])
                   /\ \A n \in DOMAIN S[s] : n \in DOMAIN T[s] /\ T[s][n] = S[s][n]

LEMMA GrownSound ==
  ASSUME NEW S, NEW T, Grown(S, T), NEW e, SoundIn(S, e)
  PROVE  SoundIn(T, e)
  BY DEF Grown, SoundIn

LEMMA GrownWire ==
  ASSUME NEW S, NEW T, Grown(S, T), NEW g, NEW q, NEW r, WireIn(S, g, q, r)
  PROVE  WireIn(T, g, q, r)
<1>1. \A j \in DOMAIN q : ForIn(T, r, q[j])
  BY GrownSound DEF WireIn, ForIn
<1> QED BY <1>1 DEF WireIn

(* An envelope enters a buffer behind everything older. *)
LEMMA BufferOne ==
  ASSUME NEW S, NEW g \in Shown, NEW q \in Seq(Envelope), NEW e \in Envelope, NEW r \in Conns,
         WireIn(S, g, q, r),
         e.kind \in Lanes => ForIn(S, r, e) /\ OlderIn(g, q, e.from, e.kind, e.seq)
  PROVE  /\ WireIn(S, g, Append(q, e), r)
         /\ \A s \in Conns, k \in Lanes, n \in Nat : OlderIn(g, q, s, k, n) /\ (e.from = s /\ e.kind = k => e.seq < n)
                           => OlderIn(g, Append(q, e), s, k, n)
<1> DEFINE p == Append(q, e)
<1>1. /\ p \in Seq(Envelope) /\ Len(p) = Len(q) + 1 /\ Len(q) \in Nat
      /\ \A i \in 1 .. Len(q) : p[i] = q[i]
      /\ p[Len(q) + 1] = e
  OBVIOUS
<1>2. DOMAIN q = 1 .. Len(q) /\ DOMAIN p = 1 .. (Len(q) + 1)
  BY <1>1
<1>3. \A j \in DOMAIN p : (j \in DOMAIN q /\ p[j] = q[j]) \/ (j = Len(q) + 1 /\ p[j] = e)
  BY <1>1, <1>2
<1> HIDE DEF p
<1>4. \A j \in DOMAIN p : ForIn(S, r, p[j])
  <2>1. e.kind \notin Lanes => ForIn(S, r, e)
    BY DEF ForIn, SoundIn, Lanes, ChatKinds
  <2> QED BY <1>3, <2>1 DEF WireIn
<1>5. ASSUME NEW i \in DOMAIN p, NEW j \in DOMAIN p, i < j,
             p[i].kind \in Lanes, p[i].kind = p[j].kind, p[i].from = p[j].from
      PROVE  p[i].seq < p[j].seq
  <2>1. i \in DOMAIN q /\ p[i] = q[i]
    BY <1>1, <1>2, <1>3, <1>5
  <2>2. CASE j \in DOMAIN q /\ p[j] = q[j]
    BY <1>5, <2>1, <2>2 DEF WireIn
  <2>3. CASE j = Len(q) + 1 /\ p[j] = e
    BY <1>5, <2>1, <2>3 DEF OlderIn
  <2> QED BY <1>3, <2>2, <2>3
<1>6. ASSUME NEW j \in DOMAIN p, p[j].kind \in Lanes,
             NEW i \in DOMAIN g[p[j].from][p[j].kind]
      PROVE  g[p[j].from][p[j].kind][i] < p[j].seq
  <2>1. CASE j \in DOMAIN q /\ p[j] = q[j]
    BY <1>6, <2>1 DEF WireIn
  <2>2. CASE p[j] = e
    BY <1>6, <2>2 DEF OlderIn
  <2> QED BY <1>3, <2>1, <2>2
<1>7. ASSUME NEW s \in Conns, NEW k \in Lanes, NEW n \in Nat, OlderIn(g, q, s, k, n), e.from = s /\ e.kind = k => e.seq < n
      PROVE  OlderIn(g, p, s, k, n)
  BY <1>3, <1>7 DEF OlderIn
<1>8. WireIn(S, g, p, r)
  BY <1>4, <1>5, <1>6 DEF WireIn
<1> QED BY <1>7, <1>8 DEF p

(* The writer takes the first envelope, and puts it on the wire or fails. *)
LEMMA UnbufferOne ==
  ASSUME NEW S, NEW g \in Shown, NEW q \in Seq(Envelope), q # <<>>, NEW r \in Conns,
         WireIn(S, g, q, r)
  PROVE  /\ WireIn(S, g, Tail(q), r)
         /\ \A s \in Conns, k \in Lanes, n \in Nat : OlderIn(g, q, s, k, n) => OlderIn(g, Tail(q), s, k, n)
<1>1. /\ Len(q) \in Nat /\ DOMAIN q = 1 .. Len(q) /\ DOMAIN Tail(q) = 1 .. (Len(q) - 1)
      /\ \A j \in 1 .. (Len(q) - 1) : Tail(q)[j] = q[j + 1]
  OBVIOUS
<1>2. \A j \in DOMAIN Tail(q) : j \in Nat /\ j + 1 \in DOMAIN q /\ Tail(q)[j] = q[j + 1]
  BY <1>1
<1> DEFINE t == Tail(q)
<1> HIDE DEF t
<1>3. \A j \in DOMAIN t : j \in Nat /\ j + 1 \in DOMAIN q /\ t[j] = q[j + 1]
  BY <1>2 DEF t
<1>4. WireIn(S, g, t, r)
  <2>1. \A j \in DOMAIN t : ForIn(S, r, t[j])
    BY <1>3 DEF WireIn
  <2>2. ASSUME NEW i \in DOMAIN t, NEW j \in DOMAIN t, i < j,
               t[i].kind \in Lanes, t[i].kind = t[j].kind, t[i].from = t[j].from
        PROVE  t[i].seq < t[j].seq
    <3>1. i + 1 < j + 1
      BY <1>3, <2>2
    <3> QED BY <1>3, <2>2, <3>1 DEF WireIn
  <2>3. ASSUME NEW j \in DOMAIN t, t[j].kind \in Lanes,
               NEW i \in DOMAIN g[t[j].from][t[j].kind]
        PROVE  g[t[j].from][t[j].kind][i] < t[j].seq
    BY <1>3, <2>3 DEF WireIn
  <2> QED BY <2>1, <2>2, <2>3 DEF WireIn
<1>5. \A s \in Conns, k \in Lanes, n \in Nat : OlderIn(g, q, s, k, n) => OlderIn(g, t, s, k, n)
  BY <1>3 DEF OlderIn
<1> QED BY <1>4, <1>5 DEF t

(* What is put on the wire is newer than what is there. *)
LEMMA WireOne ==
  ASSUME NEW S, NEW g \in Shown, NEW q \in Seq(Envelope), q # <<>>, NEW r \in Conns,
         WireIn(S, g, q, r), Head(q).kind \in Lanes,
         NEW h \in Shown,
         h = [g EXCEPT ![Head(q).from][Head(q).kind] = Append(@, Head(q).seq)]
  PROVE  /\ WireIn(S, h, Tail(q), r)
         /\ \A s \in Conns, k \in Lanes, n \in Nat : OlderIn(g, q, s, k, n) => OlderIn(h, Tail(q), s, k, n)
         /\ ForIn(S, r, Head(q))
         /\ \A i \in DOMAIN g[Head(q).from][Head(q).kind] :
              g[Head(q).from][Head(q).kind][i] < Head(q).seq
<1> DEFINE e == Head(q)
<1>1. /\ 1 \in DOMAIN q /\ e = q[1] /\ e \in Envelope /\ e.seq \in Nat
      /\ \A j \in DOMAIN Tail(q) : j + 1 \in DOMAIN q /\ 1 < j + 1 /\ Tail(q)[j] = q[j + 1]
  <2>1. /\ Len(q) \in Nat \ {0} /\ DOMAIN q = 1 .. Len(q) /\ DOMAIN Tail(q) = 1 .. (Len(q) - 1)
        /\ \A j \in 1 .. (Len(q) - 1) : Tail(q)[j] = q[j + 1]
        /\ e = q[1] /\ e \in Envelope
    OBVIOUS
  <2> QED BY <2>1 DEF Envelope
<1>2. ForIn(S, r, e) /\ e.from \in Conns /\ e.kind \in Lanes
  BY <1>1 DEF WireIn, ForIn, SoundIn
<1>3. \A i \in DOMAIN g[e.from][e.kind] : g[e.from][e.kind][i] < e.seq
  BY <1>1, <1>2 DEF WireIn
<1>4. /\ \A s \in Conns, k \in Lanes : s # e.from \/ k # e.kind => h[s][k] = g[s][k]
      /\ h[e.from][e.kind] = Append(g[e.from][e.kind], e.seq)
  BY <1>2 DEF Shown
<1>5. \A i \in DOMAIN h[e.from][e.kind] :
        \/ i \in DOMAIN g[e.from][e.kind] /\ h[e.from][e.kind][i] = g[e.from][e.kind][i]
        \/ h[e.from][e.kind][i] = e.seq
  <2>1. g[e.from][e.kind] \in Seq(Nat)
    BY <1>2 DEF Shown
  <2> QED BY <1>1, <1>4, <2>1
<1> DEFINE t == Tail(q)
<1>6. WireIn(S, g, t, r) /\ \A s \in Conns, k \in Lanes, n \in Nat : OlderIn(g, q, s, k, n) => OlderIn(g, t, s, k, n)
  BY UnbufferOne
<1>7. \A j \in DOMAIN t : t[j].kind = e.kind /\ t[j].from = e.from => e.seq < t[j].seq
  BY <1>1, <1>2 DEF WireIn
<1> HIDE DEF t, e
<1>8. ASSUME NEW j \in DOMAIN t, t[j].kind \in Lanes,
             NEW i \in DOMAIN h[t[j].from][t[j].kind]
      PROVE  h[t[j].from][t[j].kind][i] < t[j].seq
  <2>1. t[j].from \in Conns
    BY <1>6, <1>8 DEF WireIn, ForIn, SoundIn
  <2>2. CASE t[j].from # e.from \/ t[j].kind # e.kind
    <3>1. h[t[j].from][t[j].kind] = g[t[j].from][t[j].kind]
      BY <1>4, <1>8, <2>1, <2>2
    <3> QED BY <1>6, <1>8, <3>1 DEF WireIn
  <2>3. CASE t[j].from = e.from /\ t[j].kind = e.kind
    <3>1. e.seq < t[j].seq
      BY <1>7, <2>3
    <3>2. CASE h[e.from][e.kind][i] = e.seq
      BY <2>3, <3>1, <3>2
    <3>3. CASE i \in DOMAIN g[e.from][e.kind] /\ h[e.from][e.kind][i] = g[e.from][e.kind][i]
      BY <1>6, <1>8, <2>3, <3>3 DEF WireIn
    <3> QED BY <1>5, <1>8, <2>3, <3>2, <3>3
  <2> QED BY <2>2, <2>3
<1>9. WireIn(S, h, t, r)
  BY <1>6, <1>8 DEF WireIn
<1>10. ASSUME NEW s \in Conns, NEW k \in Lanes, NEW n \in Nat, OlderIn(g, q, s, k, n) PROVE OlderIn(h, t, s, k, n)
  <2>1. OlderIn(g, t, s, k, n)
    BY <1>6, <1>10
  <2>2. CASE s = e.from /\ k = e.kind
    <3>1. e.seq < n
      BY <1>1, <1>10, <2>2 DEF OlderIn, e
    <3> QED BY <1>5, <2>1, <2>2, <3>1 DEF OlderIn
  <2>3. CASE ~(s = e.from /\ k = e.kind)
    <3>1. h[s][k] = g[s][k]
      BY <1>4, <2>3
    <3> QED BY <2>1, <3>1 DEF OlderIn
  <2> QED BY <2>2, <2>3
<1> QED BY <1>2, <1>3, <1>9, <1>10 DEF t, e

-----------------------------------------------------------------------------
(* All connections together. *)

OlderNext(r, s, k, n) == OlderIn(got'[r], send'[r], s, k, n)

(* Nothing new reached anybody, or only e reached d. *)
Still == \A r, s \in Conns, k \in Lanes, n \in Nat :
           Before(r, s, k, n) => OlderNext(r, s, k, n)
StillBut(d, e) ==
  \A r, s \in Conns, k \in Lanes, n \in Nat :
    Before(r, s, k, n) /\ (r = d /\ e.from = s /\ e.kind = k => e.seq < n) => OlderNext(r, s, k, n)

LEMMA OlderMono ==
  ASSUME NEW g \in Shown, NEW q \in Seq(Envelope), NEW s \in Conns, NEW k \in Lanes,
         NEW n \in Nat, NEW m \in Nat, n <= m, OlderIn(g, q, s, k, n)
  PROVE  OlderIn(g, q, s, k, m)
<1>1. ASSUME NEW i \in DOMAIN g[s][k] PROVE g[s][k][i] < m
  <2>1. g[s][k] \in Seq(Nat)
    BY DEF Shown
  <2>2. g[s][k][i] \in Nat
    BY <2>1
  <2> QED BY <2>2 DEF OlderIn
<1>2. ASSUME NEW j \in DOMAIN q, q[j].from = s, q[j].kind = k PROVE q[j].seq < m
  <2>1. q[j] \in Envelope
    OBVIOUS
  <2>2. q[j].seq \in Nat
    BY <2>1 DEF Envelope
  <2> QED BY <1>2, <2>2 DEF OlderIn
<1> QED BY <1>1, <1>2 DEF OlderIn

LEMMA WireTypes ==
  ASSUME TypeOK
  PROVE  /\ \A r \in Conns : got[r] \in Shown /\ send[r] \in Seq(Envelope)
         /\ sent \in Logs /\ \A s \in Conns : Len(sent[s]) \in Nat
  BY DEF TypeOK, WireTypeOK, SendTypeOK, HandlerTypeOK, Shown, Logs

LEMMA Unoffered ==
  ASSUME TypeOK, Wires, NoneAhead, UNCHANGED <<send, got, sent>>
  PROVE  Wires' /\ NoneAhead' /\ Still
<1>1. Wires'
  BY DEF Wires, WireOK
<1>2. NoneAhead'
  BY DEF NoneAhead, Before
<1>3. Still
  BY DEF Still, OlderNext, Before
<1> QED BY <1>1, <1>2, <1>3

(* A select with a default branch, whether it sends or not. *)
LEMMA Offered ==
  ASSUME TypeOK, TypeOK', Wires, NoneAhead, Grown(sent, sent'), got' = got,
         NEW d \in Conns, NEW e \in Envelope, Offer(d, e),
         e.kind \in Lanes => ForIn(sent', d, e) /\ Before(d, e.from, e.kind, e.seq)
  PROVE  Wires' /\ NoneAhead' /\ StillBut(d, e)
<1> DEFINE f == AsSent(d, e)
<1>f. /\ f \in Envelope
      /\ f = e \/ f.kind \notin Lanes
  BY EnvelopeTypes DEF AsSent, Notice, Lanes, ChatKinds, TypeOK
<1>1. /\ \A r \in Conns : got[r] \in Shown /\ send[r] \in Seq(Envelope)
      /\ send \in [Conns -> Seq(Envelope)]
      /\ \A s \in Conns : Len(sent[s]) \in Nat /\ Len(sent'[s]) \in Nat
  BY WireTypes DEF TypeOK, SendTypeOK, HandlerTypeOK
<1>2. /\ \A r \in Conns : r # d => send'[r] = send[r]
      /\ send'[d] = send[d] \/ send'[d] = Append(send[d], f)
  BY <1>1 DEF Offer
<1> HIDE DEF f
<1>3. \A r \in Conns : WireIn(sent', got[r], send[r], r)
  BY GrownWire DEF Wires, WireOK
<1>4. /\ WireIn(sent', got[d], Append(send[d], f), d)
      /\ \A s \in Conns, k \in Lanes, n \in Nat :
           Before(d, s, k, n) /\ (e.from = s /\ e.kind = k => e.seq < n)
             => OlderIn(got[d], Append(send[d], f), s, k, n)
  BY <1>f, <1>1, <1>3, BufferOne DEF Before
<1>5. Wires'
  BY <1>2, <1>3, <1>4 DEF Wires, WireOK
<1>6. StillBut(d, e)
  BY <1>2, <1>4 DEF StillBut, OlderNext, Before
<1>7. NoneAhead'
  <2> SUFFICES ASSUME NEW r \in Conns, NEW s \in Conns, NEW k \in Lanes
               PROVE  OlderNext(r, s, k, Len(sent'[s]) + 1)
    BY DEF NoneAhead, Before, OlderNext
  <2>1. Before(r, s, k, Len(sent[s]) + 1)
    BY DEF NoneAhead
  <2>2. Len(sent[s]) + 1 <= Len(sent'[s]) + 1
    BY <1>1 DEF Grown
  <2>3. Before(r, s, k, Len(sent'[s]) + 1)
    BY <1>1, <2>1, <2>2, OlderMono DEF Before
  <2>4. e.from = s /\ e.kind = k => e.seq < Len(sent'[s]) + 1
    <3>1. sent'[s] \in Seq(Message)
      BY DEF TypeOK, HandlerTypeOK
    <3> QED BY <1>1, <3>1 DEF ForIn, SoundIn
  <2> QED BY <1>1, <1>6, <2>3, <2>4 DEF StillBut
<1> QED BY <1>5, <1>6, <1>7

LEMMA RoutedKept ==
  ASSUME TypeOK, Routed, Grown(sent, sent'), routeQ' = routeQ,
         \A r, s \in Conns, n \in Nat :
           Before(r, s, "dm", n) => OlderNext(r, s, "dm", n)
  PROVE  Routed'
<1>1. ASSUME NEW i \in DOMAIN routeQ, routeQ[i].kind \in Lanes
      PROVE  /\ routeQ[i].kind = "dm" /\ SoundIn(sent', routeQ[i])
             /\ \A r \in Conns : OlderNext(r, routeQ[i].from, "dm", routeQ[i].seq)
  <2> DEFINE e == routeQ[i]
  <2>1. e \in Envelope /\ Fresh(e)
    BY DEF Routed, TypeOK, HubTypeOK
  <2>2. e.seq \in Nat /\ e.from \in Conns /\ SoundIn(sent, e) /\ e.kind = "dm"
    BY <1>1, <2>1 DEF Envelope, Fresh, Sound, SoundIn
  <2>3. SoundIn(sent', e)
    BY <2>2, GrownSound
  <2>4. \A r \in Conns : OlderNext(r, e.from, "dm", e.seq)
    BY <1>1, <2>1, <2>2 DEF Fresh
  <2> QED BY <2>2, <2>3, <2>4
<1>2. \A i \in DOMAIN routeQ' : Fresh(routeQ[i])'
  BY <1>1 DEF Fresh, Sound, Before, OlderNext
<1>3. \A i, j \in DOMAIN routeQ' :
       i < j /\ routeQ'[i].kind = "dm" /\ routeQ'[j].kind = "dm" /\ routeQ'[i].from = routeQ'[j].from
         => routeQ'[i].seq < routeQ'[j].seq
  BY DEF Routed
<1> QED BY <1>2, <1>3 DEF Routed

(* What a handler has in its hands stays newer than what its addressees have *)
(* when the step only gives them what comes before it.                       *)
LEMMA JobKept ==
  ASSUME TypeOK, NEW c \in Conns, JobOK(c), Grown(sent, sent'),
         pc'[c] = pc[c], job'[c] = job[c], todo'[c] \subseteq todo[c],
         \A i \in DOMAIN routeQ' : routeQ'[i].kind = "dm" /\ routeQ'[i].from = c =>
           \E j \in DOMAIN routeQ : routeQ[j] = routeQ'[i],
         \A r \in Conns, k \in Lanes :
           /\ job[c].kind = k /\ Before(r, c, k, job[c].seq)
           /\ pc[c] = "groupSend" => r \in todo'[c]
           => OlderNext(r, c, k, job[c].seq)
  PROVE  JobOK(c)'
<1> DEFINE e == job[c]
<1>1. e \in Envelope
  BY DEF TypeOK, HandlerTypeOK
<1>2. e.kind \in Lanes => e.from = c /\ SoundIn(sent', e)
  BY GrownSound DEF JobOK, Sound
<1>3. pc[c] \notin {"routing", "group", "groupSend"} => e.kind \notin Lanes
  BY DEF JobOK
<1>4. ASSUME pc[c] = "routing", e.kind \in Lanes
      PROVE  /\ e.kind = "dm" /\ \A r \in Conns : OlderNext(r, c, "dm", e.seq)
             /\ \A i \in DOMAIN routeQ' :
                  routeQ'[i].kind = "dm" /\ routeQ'[i].from = c => routeQ'[i].seq < e.seq
  <2>1. /\ Fresh(e)
        /\ \A i \in DOMAIN routeQ :
             routeQ[i].kind = "dm" /\ routeQ[i].from = c => routeQ[i].seq < e.seq
    BY <1>4 DEF JobOK
  <2>2. e.kind = "dm" /\ e.from = c
    BY <1>2, <1>4, <2>1 DEF Fresh
  <2> QED BY <1>4, <2>1, <2>2 DEF Fresh
<1>5. ASSUME pc[c] = "group", e.kind \in Lanes
      PROVE  e.kind = "group" /\ \A r \in Conns : OlderNext(r, c, "group", e.seq)
  BY <1>5 DEF JobOK
<1>6. ASSUME pc[c] = "groupSend", e.kind \in Lanes
      PROVE  /\ e.kind = "group"
             /\ \A r \in todo'[c] : /\ UserOf[r] \in e.names /\ UserOf[r] # UserOf[c]
                                    /\ OlderNext(r, c, "group", e.seq)
  <2>1. todo[c] \subseteq Conns
    BY DEF TypeOK, HandlerTypeOK
  <2> QED BY <1>6, <2>1 DEF JobOK
<1> HIDE DEF e
<1>7. job'[c] = e
  BY DEF e
<1> QED BY <1>2, <1>3, <1>4, <1>5, <1>6, <1>7 DEF JobOK, Fresh, Sound, Before, OlderNext

(* A handler that is not passing a message on. *)
LEMMA PlainJob ==
  ASSUME NEW c \in Conns, job'[c].kind \notin Lanes
  PROVE  JobOK(c)'
  BY DEF JobOK, Fresh

-----------------------------------------------------------------------------
(* The steps. *)

Others(c) == \A b \in Conns : b # c => pc'[b] = pc[b] /\ job'[b] = job[b] /\ todo'[b] = todo[b]

(* Nobody is given a message by the step, and only c's handler moves. *)
LEMMA KeptStep ==
  ASSUME TypeOK, DInv, Grown(sent, sent'), routeQ' = routeQ, Wires', NoneAhead', Still,
         NEW c \in Conns, Others(c), JobOK(c)'
  PROVE  DInv'
<1>1. \A r, s \in Conns, k \in Lanes, n \in Nat : Before(r, s, k, n) => OlderNext(r, s, k, n)
  BY DEF Still
<1>2. Routed'
  BY <1>1, RoutedKept DEF DInv, Lanes, ChatKinds
<1>3. ASSUME NEW b \in Conns, b # c PROVE JobOK(b)'
  <2>1. job[b].seq \in Nat
    BY DEF TypeOK, HandlerTypeOK, Envelope
  <2> QED BY <1>1, <1>3, <2>1, JobKept DEF DInv, Jobs, Others
<1> QED BY <1>2, <1>3 DEF DInv, Jobs

(* A handler or the hub moves on without touching a message. *)
LEMMA QuietStep ==
  ASSUME TypeOK, DInv, UNCHANGED <<send, got, sent, routeQ>>,
         NEW c \in Conns, Others(c), JobOK(c)'
  PROVE  DInv'
<1>1. Grown(sent, sent')
  BY WireTypes DEF Grown
<1>2. Wires' /\ NoneAhead' /\ Still
  BY Unoffered DEF DInv
<1> QED BY <1>1, <1>2, KeptStep

(* The same, but an envelope that is not a message is offered to somebody. *)
LEMMA NoticeStep ==
  ASSUME TypeOK, TypeOK', DInv, UNCHANGED <<got, sent, routeQ>>,
         NEW d \in Conns, NEW e \in Envelope, e.kind \notin Lanes, Offer(d, e),
         NEW c \in Conns, Others(c), JobOK(c)'
  PROVE  DInv'
<1>1. Grown(sent, sent')
  BY WireTypes DEF Grown
<1>2. Wires' /\ NoneAhead' /\ StillBut(d, e)
  BY <1>1, Offered DEF DInv
<1>3. Still
  BY <1>2 DEF StillBut, Still
<1> QED BY <1>1, <1>2, <1>3, KeptStep

(* A message is stamped and echoed: its number is one nobody has seen. *)
LEMMA EchoStep ==
  ASSUME TypeOK, TypeOK', DInv, NEW c \in Conns, c \notin Endless, NEW k \in ChatKinds,
         NEW S \in SUBSET Users, Echo(c, k, S), UNCHANGED <<got, routeQ, todo>>,
         pc' = [pc EXCEPT ![c] = IF k = "dm" THEN "routing" ELSE "group"]
  PROVE  DInv'
<1> DEFINE e == Chat(k, c, S)
           f == Chat("echo", c, S)
           n == Len(sent[c]) + 1
<1>a. HandlerTypeOK
  BY DEF TypeOK
<1>b. Lanes = {"dm", "group", "echo"} /\ ChatKinds = {"dm", "group"}
  BY DEF Lanes, ChatKinds
<1>c. e \in Envelope /\ f \in Envelope
  BY <1>a, <1>b, EnvelopeTypes
<1>d. /\ e.kind = k /\ e.from = c /\ e.seq = n /\ e.names = S
      /\ f.kind = "echo" /\ f.from = c /\ f.seq = n /\ f.names = S
  BY DEF Chat
<1>e. n \in Nat
  BY WireTypes
<1>f. job \in [Conns -> Envelope] /\ todo \in [Conns -> SUBSET Conns] /\ pc \in [Conns -> PcValues]
  BY <1>a DEF HandlerTypeOK
<1>1. /\ sent' = [sent EXCEPT ![c] = Append(@, [kind |-> k, to |-> S])]
      /\ job' = [job EXCEPT ![c] = e] /\ Offer(c, f)
  BY DEF Echo
<1>2. Grown(sent, sent') /\ n \in DOMAIN sent'[c] /\ sent'[c][n] = [kind |-> k, to |-> S]
  <2>1. sent \in Logs /\ sent[c] \in Seq(Message) /\ [kind |-> k, to |-> S] \in Message
    BY WireTypes DEF Message, Logs
  <2>2. \A s \in Conns : s # c => sent'[s] = sent[s]
    BY <1>1, <2>1 DEF Logs
  <2>3. sent'[c] = Append(sent[c], [kind |-> k, to |-> S])
    BY <1>1, <2>1 DEF Logs
  <2>4. /\ Len(sent[c]) <= Len(sent'[c])
        /\ \A i \in DOMAIN sent[c] : i \in DOMAIN sent'[c] /\ sent'[c][i] = sent[c][i]
        /\ n \in DOMAIN sent'[c] /\ sent'[c][n] = [kind |-> k, to |-> S]
    BY <2>1, <2>3
  <2>5. \A s \in Conns : Len(sent[s]) \in Nat
    BY WireTypes
  <2> QED BY <2>2, <2>4, <2>5 DEF Grown
<1>4. \A r \in Conns, l \in Lanes : Before(r, c, l, n)
  BY DEF DInv, NoneAhead
<1> HIDE DEF e, f, n
<1>3. SoundIn(sent', e) /\ SoundIn(sent', f)
  BY <1>b, <1>d, <1>2 DEF SoundIn
<1>5. Wires' /\ NoneAhead' /\ StillBut(c, f)
  <2>1. ForIn(sent', c, f) /\ Before(c, f.from, f.kind, f.seq)
    BY <1>b, <1>d, <1>3, <1>4 DEF ForIn
  <2> QED BY <1>c, <1>1, <1>2, <2>1, Offered DEF DInv
<1>6. \A r, s \in Conns, l \in ChatKinds, m \in Nat :
        Before(r, s, l, m) => OlderNext(r, s, l, m)
  BY <1>b, <1>d, <1>5 DEF StillBut
<1>7. Routed'
  BY <1>b, <1>2, <1>6, RoutedKept DEF DInv
<1>8. ASSUME NEW b \in Conns, b # c PROVE JobOK(b)'
  <2>1. job[b].seq \in Nat
    BY <1>f DEF Envelope
  <2>2. pc'[b] = pc[b] /\ job'[b] = job[b] /\ todo'[b] = todo[b]
    BY <1>f, <1>1, <1>8
  <2>3. \A l \in Lanes : job[b].kind = l => l \in ChatKinds
    BY <1>b DEF DInv, Jobs, JobOK, Fresh
  <2> QED BY <1>2, <1>6, <2>1, <2>2, <2>3, JobKept DEF DInv, Jobs
<1>9. JobOK(c)'
  <2>1. job'[c] = e /\ pc'[c] = IF k = "dm" THEN "routing" ELSE "group"
    BY <1>f, <1>1
  <2>2. \A r \in Conns : OlderNext(r, c, k, n)
    BY <1>b, <1>e, <1>4, <1>6
  <2>3. \A i \in DOMAIN routeQ' : routeQ'[i].kind = "dm" /\ routeQ'[i].from = c => routeQ'[i].seq < n
    <3> SUFFICES ASSUME NEW i \in DOMAIN routeQ, routeQ[i].kind = "dm", routeQ[i].from = c
                 PROVE  routeQ[i].seq < n
      OBVIOUS
    <3>1. Fresh(routeQ[i])
      BY DEF DInv, Routed
    <3>2. routeQ[i].seq \in DOMAIN sent[c]
      BY <1>b, <3>1 DEF Fresh, Sound, SoundIn
    <3> QED BY <3>2, WireTypes DEF n, Logs
  <2>4. CASE k = "dm"
    BY <1>b, <1>d, <1>3, <2>1, <2>2, <2>3, <2>4 DEF JobOK, Fresh, Sound, Before, OlderNext
  <2>5. CASE k = "group"
    BY <1>b, <1>d, <1>3, <2>1, <2>2, <2>5 DEF JobOK, Sound, Before, OlderNext
  <2> QED BY <1>b, <2>4, <2>5
<1> QED BY <1>5, <1>7, <1>8, <1>9 DEF DInv, Jobs

(* An endless client's messages are notices. *)
LEMMA EndlessStep ==
  ASSUME TypeOK, TypeOK', DInv, NEW c \in Endless, NEW k \in ChatKinds, NEW S \in SUBSET Users,
         Echo(c, k, S), UNCHANGED <<got, routeQ>>, Others(c)
  PROVE  DInv'
<1>1. c \in Conns
  BY HubAssumption
<1>2. Notice(S) \in Envelope /\ Notice(S).kind \notin Lanes
  BY EnvelopeTypes DEF TypeOK, Notice, Lanes, ChatKinds
<1>3. Offer(c, Notice(S)) /\ UNCHANGED sent /\ job'[c] = Notice(S)
  BY <1>1 DEF Echo, Chat, TypeOK, HandlerTypeOK
<1> QED BY <1>1, <1>2, <1>3, PlainJob, NoticeStep

(* A group message goes to one more member. *)
LEMMA GroupStep ==
  ASSUME TypeOK, TypeOK', DInv, NEW c \in Conns, Fanout(c), job[c].kind \in Lanes
  PROVE  DInv'
<1> DEFINE e == job[c]
<1>0. /\ e \in Envelope /\ todo \in [Conns -> SUBSET Conns]
      /\ e.seq \in Nat /\ Lanes = {"dm", "group", "echo"}
  BY DEF TypeOK, HandlerTypeOK, Envelope, Lanes, ChatKinds
<1>1. PICK d \in todo[c] : Offer(d, e) /\ todo' = [todo EXCEPT ![c] = @ \ {d}]
  BY DEF Fanout
<1>2. d \in Conns /\ UNCHANGED <<pc, job, sent, got, routeQ>>
  BY <1>0 DEF Fanout, hubVars, wireVars
<1>3. /\ pc[c] = "groupSend" /\ e.kind = "group" /\ e.from = c /\ Sound(e)
      /\ \A r \in todo[c] : /\ UserOf[r] \in e.names /\ UserOf[r] # UserOf[c]
                            /\ Before(r, c, "group", e.seq)
  BY DEF Fanout, Sending, DInv, Jobs, JobOK
<1>4. Grown(sent, sent')
  BY <1>2, WireTypes DEF Grown
<1> HIDE DEF e
<1>5. Wires' /\ NoneAhead' /\ StillBut(d, e)
  BY <1>0, <1>1, <1>2, <1>3, <1>4, Offered DEF DInv, ForIn, Sound
<1>6. Routed'
  BY <1>0, <1>2, <1>3, <1>4, <1>5, RoutedKept DEF DInv, StillBut
<1>7. ASSUME NEW b \in Conns PROVE JobOK(b)'
  <2>1. job[b].seq \in Nat /\ job'[b] = job[b] /\ pc'[b] = pc[b]
    BY <1>2 DEF TypeOK, HandlerTypeOK, Envelope
  <2>2. CASE b = c
    <3>1. todo'[b] = todo[b] \ {d}
      BY <1>0, <1>1, <2>2
    <3>2. ASSUME NEW r \in todo'[b], NEW k \in Lanes, Before(r, b, k, e.seq)
          PROVE  OlderNext(r, b, k, e.seq)
      <4>1. r # d /\ r \in Conns
        BY <1>0, <3>1
      <4> QED BY <1>0, <1>5, <3>2, <4>1 DEF StillBut
    <3>3. job[b] = e
      BY <2>2 DEF e
    <3> QED BY <1>2, <1>3, <1>4, <2>1, <2>2, <3>1, <3>2, <3>3, JobKept DEF DInv, Jobs
  <2>3. CASE b # c
    <3>1. todo'[b] = todo[b]
      BY <1>0, <1>1, <2>3
    <3>2. ASSUME NEW r \in Conns, NEW k \in Lanes, Before(r, b, k, job[b].seq)
          PROVE  OlderNext(r, b, k, job[b].seq)
      BY <1>3, <1>5, <2>1, <2>3, <3>2 DEF StillBut
    <3> QED BY <1>2, <1>4, <2>1, <3>1, <3>2, JobKept DEF DInv, Jobs
  <2> QED BY <2>2, <2>3
<1> QED BY <1>5, <1>6, <1>7 DEF DInv, Jobs

FreshNext(e) ==
  e.kind \in Lanes =>
    /\ e.kind = "dm" /\ SoundIn(sent', e)
    /\ \A r \in Conns : OlderNext(r, e.from, "dm", e.seq)

(* A direct message goes from its handler into the route channel. *)
LEMMA RouteStep ==
  ASSUME TypeOK, TypeOK', DInv, NEW c \in Conns, Route(c)
  PROVE  DInv'
<1> DEFINE e == job[c]
<1>0. /\ e \in Envelope /\ routeQ \in Seq(Envelope) /\ job \in [Conns -> Envelope]
      /\ pc \in [Conns -> PcValues]
  BY DEF TypeOK, HandlerTypeOK, HubTypeOK
<1>1. /\ pc[c] = "routing" /\ pc' = [pc EXCEPT ![c] = "reading"]
      /\ job' = [job EXCEPT ![c] = Notice({})] /\ routeQ' = Append(routeQ, e)
      /\ UNCHANGED <<todo, sent, got, send>>
  BY DEF Route, Goto, Passed, wireVars, sendVars
<1>2. /\ Fresh(e) /\ (e.kind \in Lanes => e.from = c) /\ Lanes = {"dm", "group", "echo"}
      /\ e.kind \in Lanes => \A i \in DOMAIN routeQ :
           routeQ[i].kind = "dm" /\ routeQ[i].from = c => routeQ[i].seq < e.seq
  BY <1>1 DEF DInv, Jobs, JobOK, Lanes, ChatKinds
<1> HIDE DEF e
<1>3. /\ \A i \in DOMAIN routeQ' : (i \in DOMAIN routeQ /\ routeQ'[i] = routeQ[i]) \/ (i = Len(routeQ) + 1 /\ routeQ'[i] = e)
      /\ DOMAIN routeQ' = 1 .. (Len(routeQ) + 1) /\ DOMAIN routeQ = 1 .. Len(routeQ) /\ Len(routeQ) \in Nat
  <2>1. /\ routeQ' = Append(routeQ, e) /\ e \in Envelope /\ routeQ \in Seq(Envelope)
    BY <1>0, <1>1
  <2>2. /\ Len(routeQ') = Len(routeQ) + 1 /\ Len(routeQ) \in Nat /\ routeQ' \in Seq(Envelope)
        /\ \A i \in 1 .. Len(routeQ) : routeQ'[i] = routeQ[i]
        /\ routeQ'[Len(routeQ) + 1] = e
    BY <2>1
  <2>3. DOMAIN routeQ' = 1 .. (Len(routeQ) + 1) /\ DOMAIN routeQ = 1 .. Len(routeQ)
    BY <2>1, <2>2
  <2> QED BY <2>2, <2>3
<1>4. Grown(sent, sent') /\ Wires' /\ NoneAhead' /\ Still
  BY <1>1, Unoffered, WireTypes DEF DInv, Grown
<1>5. \A f : Fresh(f) => FreshNext(f)
  BY <1>1 DEF Fresh, FreshNext, Sound, Before, OlderNext
<1>6. Routed'
  <2>1. \A i \in DOMAIN routeQ' : FreshNext(routeQ'[i])
    BY <1>2, <1>3, <1>5 DEF DInv, Routed
  <2>2. ASSUME NEW i \in DOMAIN routeQ', NEW j \in DOMAIN routeQ', i < j,
               routeQ'[i].kind = "dm", routeQ'[j].kind = "dm", routeQ'[i].from = routeQ'[j].from
        PROVE  routeQ'[i].seq < routeQ'[j].seq
    <3>1. i \in DOMAIN routeQ /\ routeQ'[i] = routeQ[i]
      BY <1>3, <2>2
    <3>2. CASE j \in DOMAIN routeQ /\ routeQ'[j] = routeQ[j]
      BY <2>2, <3>1, <3>2 DEF DInv, Routed
    <3>3. CASE routeQ'[j] = e
      BY <1>2, <2>2, <3>1, <3>3
    <3> QED BY <1>3, <3>2, <3>3
  <2> QED BY <2>1, <2>2 DEF Routed, Fresh, FreshNext, Sound, Before, OlderNext
<1>7. ASSUME NEW b \in Conns, b # c PROVE JobOK(b)'
  <2>1. job[b].seq \in Nat
    BY DEF TypeOK, HandlerTypeOK, Envelope
  <2>2. pc'[b] = pc[b] /\ job'[b] = job[b] /\ todo'[b] = todo[b]
    BY <1>0, <1>1, <1>7
  <2>3. \A i \in DOMAIN routeQ' : routeQ'[i].kind = "dm" /\ routeQ'[i].from = b =>
          \E j \in DOMAIN routeQ : routeQ[j] = routeQ'[i]
    BY <1>2, <1>3, <1>7
  <2> QED BY <1>4, <2>1, <2>2, <2>3, JobKept DEF DInv, Jobs, Still
<1>8. JobOK(c)'
  <2>1. job'[c].kind \notin Lanes
    BY <1>0, <1>1 DEF Notice, Lanes, ChatKinds
  <2> QED BY <2>1, PlainJob
<1> QED BY <1>4, <1>6, <1>7, <1>8 DEF DInv, Jobs

(* The hub gives a direct message to its addressee, or drops it. *)
LEMMA DeliverStep ==
  ASSUME TypeOK, TypeOK', RegInv, DInv, HubDeliver
  PROVE  DInv'
<1> DEFINE e == Head(routeQ)
<1>0. /\ routeQ \in Seq(Envelope) /\ routeQ # <<>> /\ clients \in [Users -> Conns \cup {NoConn}]
      /\ routeQ' = Tail(routeQ) /\ UNCHANGED <<pc, job, todo, sent, got>>
  BY DEF HubDeliver, TypeOK, HubTypeOK, handlerVars, wireVars
<1>1. /\ 1 \in DOMAIN routeQ /\ e = routeQ[1] /\ e \in Envelope
      /\ \A i \in DOMAIN routeQ' : i \in Nat /\ i + 1 \in DOMAIN routeQ /\ 1 < i + 1 /\ routeQ'[i] = routeQ[i + 1]
  <2>1. /\ Len(routeQ) \in Nat \ {0} /\ DOMAIN routeQ = 1 .. Len(routeQ)
        /\ DOMAIN Tail(routeQ) = 1 .. (Len(routeQ) - 1)
        /\ \A j \in 1 .. (Len(routeQ) - 1) : Tail(routeQ)[j] = routeQ[j + 1]
        /\ e = routeQ[1] /\ e \in Envelope
    BY <1>0
  <2> QED BY <1>0, <2>1
<1>2. /\ e.seq \in Nat /\ e.names \subseteq Users /\ Lanes = {"dm", "group", "echo"}
      /\ e.kind \in Lanes =>
           /\ e.kind = "dm" /\ e.from \in Conns /\ Sound(e)
           /\ \A r \in Conns : Before(r, e.from, "dm", e.seq)
  BY <1>1 DEF Envelope, DInv, Routed, Fresh, Sound, SoundIn, Lanes, ChatKinds
<1>3. Grown(sent, sent')
  BY <1>0, WireTypes DEF Grown
<1>4. /\ Wires' /\ NoneAhead'
      /\ \A r, s \in Conns, k \in Lanes, n \in Nat :
            Before(r, s, k, n) /\ (e.from = s /\ e.kind = k => e.seq < n) => OlderNext(r, s, k, n)
  <2>1. CASE UNCHANGED sendVars
    <3>1. Wires' /\ NoneAhead' /\ Still
      BY <1>0, <2>1, Unoffered DEF DInv, sendVars
    <3> QED BY <3>1 DEF Still
  <2>2. CASE ~UNCHANGED sendVars
    <3>1. PICK u \in e.names : clients[u] # NoConn /\ Offer(clients[u], e)
      BY <2>2 DEF HubDeliver
    <3>2. PICK d \in Conns : d = clients[u] /\ UserOf[d] = u
      BY <1>0, <1>2, <3>1 DEF RegInv, MapOK
    <3>3. e.kind \in Lanes => Before(d, e.from, e.kind, e.seq)
      BY <1>2
    <3>4. e.kind \in Lanes => ForIn(sent', d, e)
      BY <1>0, <1>2, <3>1, <3>2 DEF ForIn, Sound
    <3>5. Wires' /\ NoneAhead' /\ StillBut(d, e)
      BY <1>0, <1>1, <1>2, <1>3, <3>1, <3>2, <3>3, <3>4, Offered DEF DInv
    <3> QED BY <3>5 DEF StillBut
  <2> QED BY <2>1, <2>2
<1>5. \A i \in DOMAIN routeQ' :
        e.kind = "dm" /\ routeQ'[i].kind = "dm" /\ routeQ'[i].from = e.from => e.seq < routeQ'[i].seq
  BY <1>1 DEF DInv, Routed
<1> HIDE DEF e
<1>6. Routed'
  <2>1. ASSUME NEW i \in DOMAIN routeQ' PROVE FreshNext(routeQ'[i])
    <3> DEFINE f == routeQ'[i]
    <3>0. i + 1 \in DOMAIN routeQ /\ f = routeQ[i + 1]
      BY <1>1
    <3>a. f \in Envelope /\ Fresh(f)
      BY <1>0, <3>0 DEF DInv, Routed
    <3>1. f \in Envelope /\ Fresh(f) /\ f.seq \in Nat
      BY <3>a DEF Envelope
    <3>3. e.kind = "dm" /\ f.kind = "dm" /\ e.from = f.from => e.seq < f.seq
      BY <1>5
    <3> HIDE DEF f
    <3>2. ASSUME f.kind \in Lanes
          PROVE  f.kind = "dm" /\ f.from \in Conns /\ Sound(f)
      BY <3>1, <3>2 DEF Fresh, Sound, SoundIn
    <3>4. ASSUME f.kind \in Lanes, NEW r \in Conns PROVE OlderNext(r, f.from, "dm", f.seq)
      <4>1. Before(r, f.from, "dm", f.seq) /\ "dm" \in Lanes
        BY <1>2, <3>1, <3>4 DEF Fresh
      <4> QED BY <1>4, <3>1, <3>2, <3>3, <3>4, <4>1
    <3>5. FreshNext(f)
      BY <1>0, <3>2, <3>4 DEF FreshNext, Sound
    <3> QED BY <3>5 DEF f
  <2>2. ASSUME NEW i \in DOMAIN routeQ', NEW j \in DOMAIN routeQ', i < j,
               routeQ'[i].kind = "dm", routeQ'[j].kind = "dm", routeQ'[i].from = routeQ'[j].from
        PROVE  routeQ'[i].seq < routeQ'[j].seq
    <3>1. i + 1 < j + 1
      BY <1>1, <2>2
    <3> QED BY <1>1, <2>2, <3>1 DEF DInv, Routed
  <2> QED BY <2>1, <2>2 DEF Routed, Fresh, FreshNext, Sound, Before, OlderNext
<1>7. ASSUME NEW b \in Conns PROVE JobOK(b)'
  <2>1. job[b].seq \in Nat /\ todo[b] \subseteq Conns
    BY DEF TypeOK, HandlerTypeOK, Envelope
  <2>2. ASSUME NEW r \in Conns, NEW k \in Lanes, job[b].kind = k, Before(r, b, k, job[b].seq)
        PROVE  OlderNext(r, b, k, job[b].seq)
    <3>1. CASE pc[b] = "routing"
      <4>1. job[b].kind \in Lanes
        BY <2>2
      <4>2. \A i \in DOMAIN routeQ :
              routeQ[i].kind = "dm" /\ routeQ[i].from = b => routeQ[i].seq < job[b].seq
        BY <3>1, <4>1 DEF DInv, Jobs, JobOK
      <4>3. e.kind = "dm" /\ e.from = b => e.seq < job[b].seq
        BY <1>1, <4>2
      <4>4. e.from = b /\ e.kind = k => e.seq < job[b].seq
        BY <1>2, <2>2, <4>3
      <4> QED BY <1>4, <2>1, <2>2, <4>4
    <3>2. CASE pc[b] # "routing"
      <4>1. k # "dm"
        BY <2>2, <3>2 DEF DInv, Jobs, JobOK
      <4> QED BY <1>2, <1>4, <2>1, <2>2, <4>1
    <3> QED BY <3>1, <3>2
  <2>3. \A i \in DOMAIN routeQ' : \E j \in DOMAIN routeQ : routeQ[j] = routeQ'[i]
    BY <1>1
  <2> QED BY <1>0, <1>3, <2>2, <2>3, JobKept DEF DInv, Jobs
<1> QED BY <1>4, <1>6, <1>7 DEF DInv, Jobs

(* The writer puts an envelope on the wire, or loses it. *)
LEMMA WriterDelivers ==
  ASSUME TypeOK, TypeOK', DInv, NEW c \in Conns, WriterWrite(c) \/ WriterFail(c)
  PROVE  DInv'
<1> DEFINE q == send[c]
           h == got'[c]
<1>0. /\ q \in Seq(Envelope) /\ q # <<>> /\ send \in [Conns -> Seq(Envelope)] /\ got[c] \in Shown
      /\ h \in Shown /\ WireIn(sent, got[c], q, c)
  <2>1. q # <<>>
    BY DEF WriterWrite, WriterFail
  <2>2. WireIn(sent, got[c], q, c) /\ q \in Seq(Envelope) /\ got[c] \in Shown /\ h \in Shown
    BY WireTypes DEF DInv, Wires, WireOK, TypeOK, WireTypeOK, Shown
  <2> QED BY <2>1, <2>2 DEF TypeOK, SendTypeOK
<1>1. /\ send' = [send EXCEPT ![c] = Tail(q)] /\ UNCHANGED <<sent, routeQ, pc, job, todo>>
      /\ \A r \in Conns : r # c => got'[r] = got[r] /\ send'[r] = send[r]
  <2>1. send' = [send EXCEPT ![c] = Tail(q)] /\ UNCHANGED <<sent, routeQ, pc, job, todo>>
    BY DEF WriterWrite, WriterFail, handlerVars, hubVars
  <2>2. \A r \in Conns : r # c => got'[r] = got[r]
    BY DEF WriterWrite, WriterFail, TypeOK, WireTypeOK
  <2> QED BY <1>0, <2>1, <2>2
<1>2. /\ WireIn(sent, h, Tail(q), c)
      /\ \A s \in Conns, k \in Lanes, n \in Nat : OlderIn(got[c], q, s, k, n) => OlderIn(h, Tail(q), s, k, n)
  <2>1. CASE WriterWrite(c) /\ Head(q).kind \in Lanes
    <3>1. Head(q).from \in Conns
      <4>1. 1 \in DOMAIN q /\ Head(q) = q[1]
        BY <1>0
      <4> QED BY <1>0, <2>1, <4>1 DEF WireIn, ForIn, SoundIn
    <3>2. got' = [got EXCEPT ![c][Head(q).from][Head(q).kind] = Append(@, Head(q).seq)]
      BY <2>1 DEF WriterWrite
    <3>3. h = [got[c] EXCEPT ![Head(q).from][Head(q).kind] = Append(@, Head(q).seq)]
      BY <2>1, <3>1, <3>2 DEF TypeOK, WireTypeOK
    <3> HIDE DEF q, h
    <3> QED BY <1>0, <2>1, <3>3, WireOne
  <2>2. CASE ~(WriterWrite(c) /\ Head(q).kind \in Lanes)
    <3>1. h = got[c]
      BY <2>2 DEF WriterWrite, WriterFail
    <3> QED BY <1>0, <3>1, UnbufferOne
  <2> QED BY <2>1, <2>2
<1>3. send'[c] = Tail(q)
  BY <1>0, <1>1
<1>4. Wires' /\ Still
  <2>1. Wires'
    BY <1>1, <1>2, <1>3 DEF DInv, Wires, WireOK
  <2>2. ASSUME NEW r \in Conns, NEW s \in Conns, NEW k \in Lanes, NEW n \in Nat, Before(r, s, k, n)
        PROVE  OlderNext(r, s, k, n)
    BY <1>1, <1>2, <1>3, <2>2 DEF Before, OlderNext
  <2> QED BY <2>1, <2>2 DEF Still
<1>5. NoneAhead'
  <2>1. \A s \in Conns : Len(sent[s]) + 1 \in Nat
    BY WireTypes
  <2>2. \A r, s \in Conns, k \in Lanes : OlderNext(r, s, k, Len(sent[s]) + 1)
    BY <1>4, <2>1 DEF Still, DInv, NoneAhead
  <2> QED BY <1>1, <2>2 DEF NoneAhead, Before, OlderNext
<1>6. Grown(sent, sent')
  BY <1>1, WireTypes DEF Grown
<1>7. JobOK(c)'
  <2>1. job[c].seq \in Nat
    BY DEF TypeOK, HandlerTypeOK, Envelope
  <2> QED BY <1>1, <1>4, <1>6, <2>1, JobKept DEF DInv, Jobs, Still
<1> QED BY <1>1, <1>4, <1>5, <1>6, <1>7, KeptStep DEF Others

(* The members of the group are read under the lock, the sender is skipped. *)
LEMMA GroupLockStep ==
  ASSUME TypeOK, RegInv, DInv, NEW c \in Conns, GroupLock(c)
  PROVE  DInv'
<1> USE HubAssumption
<1>0. /\ job[c] \in Envelope /\ todo \in [Conns -> SUBSET Conns] /\ pc \in [Conns -> PcValues]
      /\ clients \in [Users -> Conns \cup {NoConn}]
  BY DEF TypeOK, HandlerTypeOK, HubTypeOK
<1>1. /\ pc[c] = "group" /\ pc' = [pc EXCEPT ![c] = "groupSend"]
      /\ todo' = [todo EXCEPT ![c] = Registered(job[c].names \ {UserOf[c]})]
      /\ UNCHANGED <<job, sent, got, send, routeQ>>
  BY DEF GroupLock, Goto, hubVars, wireVars, sendVars
<1>2. ASSUME NEW r \in todo'[c] PROVE r \in Conns /\ UserOf[r] # UserOf[c] /\ UserOf[r] \in job[c].names
  <2>1. r \in Registered(job[c].names \ {UserOf[c]})
    BY <1>0, <1>1
  <2>2. PICK u \in job[c].names \ {UserOf[c]} : r = clients[u] /\ r # NoConn
    BY <2>1 DEF Registered
  <2>3. u \in Users
    BY <1>0 DEF Envelope
  <2> QED BY <1>0, <2>2, <2>3 DEF RegInv, MapOK
<1>3. JobOK(c)
  BY DEF DInv, Jobs
<1>4. JobOK(c)'
  <2>1. pc'[c] = "groupSend" /\ job'[c] = job[c]
    BY <1>0, <1>1
  <2>2. job[c].kind \in Lanes => job[c].from = c /\ Sound(job[c])'
    BY <1>1, <1>3 DEF JobOK, Sound
  <2>3. ASSUME job[c].kind \in Lanes
        PROVE  /\ job[c].kind = "group"
               /\ \A r \in todo'[c] :
                    /\ UserOf[r] \in job[c].names /\ UserOf[r] # UserOf[c]
                    /\ OlderNext(r, c, "group", job[c].seq)
    BY <1>1, <1>2, <1>3, <2>3 DEF JobOK, Before, OlderNext
  <2> QED BY <2>1, <2>2, <2>3 DEF JobOK, Before, OlderNext, Sound
<1>5. Others(c)
  BY <1>0, <1>1 DEF Others
<1> QED BY <1>1, <1>4, <1>5, QuietStep

(* The steps that leave the messages and the handlers' hands alone. *)
LEMMA IdleStep ==
  ASSUME DInv, UNCHANGED <<sent, got, send, routeQ, pc, job, todo>>
  PROVE  DInv'
<1>1. Wires' /\ NoneAhead'
  BY DEF DInv, Wires, WireOK, NoneAhead, Before
<1>2. Routed'
  BY DEF DInv, Routed, Fresh, Sound, Before
<1>3. Jobs'
  BY DEF DInv, Jobs, JobOK, Fresh, Sound, Before
<1> QED BY <1>1, <1>2, <1>3 DEF DInv

-----------------------------------------------------------------------------
(* Every step. *)

LEMMA HandlerDelivers ==
  ASSUME TypeOK, TypeOK', RegInv, DInv, NEW c \in Conns, HandlerStep(c)
  PROVE  DInv'
<1>0. /\ job \in [Conns -> Envelope] /\ todo \in [Conns -> SUBSET Conns] /\ pc \in [Conns -> PcValues]
      /\ JobOK(c)
  BY DEF TypeOK, HandlerTypeOK, DInv, Jobs
<1>n. \A S : Notice(S).kind \notin Lanes /\ List(S).kind \notin Lanes
  BY DEF Notice, List, Lanes, ChatKinds
<1>1. CASE Register(c) \/ Unregister(c) \/ Hello(c) \/ Goodbye(c) \/ FanoutDone(c)
  <2>1. UNCHANGED <<send, got, sent, routeQ>>
    BY <1>1 DEF Register, Unregister, Hello, Goodbye, BroadcastUserList, FanoutDone, hubVars,
                wireVars, sendVars
  <2>2. Others(c)
    BY <1>0, <1>1 DEF Register, Unregister, Hello, Goodbye, BroadcastUserList, FanoutDone, Goto,
                      Passed, Others
  <2>4. job'[c].kind \notin Lanes
    <3>1. CASE Register(c) \/ Unregister(c)
      BY <1>0, <3>1 DEF Register, Unregister, Goto, JobOK
    <3>2. CASE Hello(c) \/ Goodbye(c)
      BY <1>0, <1>n, <3>2 DEF Hello, Goodbye, BroadcastUserList
    <3>3. CASE FanoutDone(c)
      BY <1>0, <1>n, <3>3 DEF FanoutDone, Goto, Passed, JobOK
    <3> QED BY <1>1, <3>1, <3>2, <3>3
  <2> QED BY <2>1, <2>2, <2>4, PlainJob, QuietStep
<1>2. CASE Fanout(c)
  <2>1. CASE job[c].kind \in Lanes
    BY <1>2, <2>1, GroupStep
  <2>2. CASE job[c].kind \notin Lanes
    <3>1. PICK d \in todo[c] : Offer(d, job[c]) /\ todo' = [todo EXCEPT ![c] = @ \ {d}]
      BY <1>2 DEF Fanout
    <3>2. d \in Conns /\ job[c] \in Envelope
      BY <1>0
    <3>3. UNCHANGED <<got, sent, routeQ, pc, job>>
      BY <1>2 DEF Fanout, hubVars, wireVars
    <3>4. Others(c) /\ job'[c].kind \notin Lanes
      BY <1>0, <1>2, <2>2, <3>1, <3>3 DEF Others, Fanout, Sending
    <3> QED BY <2>2, <3>1, <3>2, <3>3, <3>4, PlainJob, NoticeStep
  <2> QED BY <2>1, <2>2
<1>3. CASE Welcome(c) \/ UserListResp(c)
  <2>1. /\ Offer(c, job[c]) /\ UNCHANGED <<got, sent, routeQ>> /\ job[c] \in Envelope
        /\ pc[c] \in {"welcome", "listing"}
    BY <1>0, <1>3 DEF Welcome, UserListResp, Goto, hubVars, wireVars
  <2>2. job[c].kind \notin Lanes
    BY <1>0, <2>1 DEF JobOK
  <2>3. Others(c) /\ job'[c].kind \notin Lanes
    BY <1>0, <1>3, <1>n DEF Others, Welcome, UserListResp, Goto, Passed
  <2> QED BY <2>1, <2>2, <2>3, PlainJob, NoticeStep
<1> QED BY <1>1, <1>2, <1>3, RouteStep, GroupLockStep DEF HandlerStep

LEMMA ClientDelivers ==
  ASSUME TypeOK, TypeOK', RegInv, DInv, NEW c \in Conns, ClientStep(c)
  PROVE  DInv'
<1> USE HubAssumption
<1>0. /\ HandlerTypeOK /\ job \in [Conns -> Envelope] /\ todo \in [Conns -> SUBSET Conns]
      /\ pc \in [Conns -> PcValues] /\ clients \in [Users -> Conns \cup {NoConn}] /\ JobOK(c)
  BY DEF TypeOK, HandlerTypeOK, HubTypeOK, DInv, Jobs
<1>n. \A S : Notice(S).kind \notin Lanes /\ List(S).kind \notin Lanes
  BY DEF Notice, List, Lanes, ChatKinds
<1>r. pc[c] = "reading" => job[c].kind \notin Lanes
  BY <1>0 DEF JobOK
<1>1. CASE Login(c) \/ Leave(c)
  <2>1. /\ UNCHANGED <<send, got, sent, routeQ>> /\ Others(c)
        /\ job'[c].kind \notin Lanes
    BY <1>0, <1>1 DEF Login, Leave, Goto, Others, JobOK, hubVars, wireVars, sendVars
  <2> QED BY <2>1, PlainJob, QuietStep
<1>2. CASE AnswerOnly(c)
  <2>1. Notice({}) \in Envelope /\ Notice({}).kind \notin Lanes
    BY <1>0, <1>n, EnvelopeTypes
  <2>2. /\ Offer(c, Notice({})) /\ UNCHANGED <<got, sent, routeQ>> /\ Others(c)
        /\ job'[c].kind \notin Lanes
    BY <1>0, <1>2, <1>r DEF AnswerOnly, Decode, Goto, Others, hubVars, wireVars
  <2> QED BY <2>1, <2>2, PlainJob, NoticeStep
<1>3. CASE UserListReq(c)
  <2>1. /\ UNCHANGED <<send, got, sent, routeQ>> /\ Others(c)
        /\ job'[c].kind \notin Lanes
    BY <1>0, <1>3, <1>n DEF UserListReq, Decode, Goto, Others, hubVars, wireVars, sendVars
  <2> QED BY <2>1, PlainJob, QuietStep
<1>4. ASSUME NEW u \in Users, SendMsg(c, u) PROVE DInv'
  <2>1. /\ Echo(c, "dm", {u}) /\ "dm" \in ChatKinds /\ {u} \in SUBSET Users
        /\ UNCHANGED <<got, routeQ, todo>> /\ pc' = [pc EXCEPT ![c] = "routing"]
    BY <1>4 DEF SendMsg, Decode, Goto, ChatKinds, hubVars, wireVars
  <2>2. pc' = [pc EXCEPT ![c] = IF "dm" = "dm" THEN "routing" ELSE "group"]
    BY <2>1
  <2>3. Others(c)
    BY <1>0, <2>1 DEF Others, Echo
  <2> QED BY <2>1, <2>2, <2>3, EchoStep, EndlessStep
<1>5. ASSUME NEW u \in Users, Typing(c, u) PROVE DInv'
  <2>1. /\ UNCHANGED <<got, sent, routeQ, job>> /\ Others(c)
        /\ job'[c].kind \notin Lanes
    BY <1>0, <1>5, <1>r DEF Typing, Decode, Goto, Others, hubVars, wireVars
  <2>2. CASE UNCHANGED sendVars
    BY <2>1, <2>2, PlainJob, QuietStep DEF sendVars
  <2>3. CASE clients[u] # NoConn /\ Offer(clients[u], Notice({u}))
    <3>1. clients[u] \in Conns /\ Notice({u}) \in Envelope
      BY <1>0, <2>3, EnvelopeTypes
    <3> QED BY <1>n, <2>1, <2>3, <3>1, PlainJob, NoticeStep
  <2> QED BY <1>5, <2>2, <2>3 DEF Typing
<1>6. ASSUME NEW G \in Groups, GroupMsg(c, G) PROVE DInv'
  <2>1. /\ Echo(c, "group", G) /\ "group" \in ChatKinds /\ G \in SUBSET Users
        /\ UNCHANGED <<got, routeQ, todo>> /\ pc' = [pc EXCEPT ![c] = "group"]
    BY <1>6 DEF GroupMsg, Decode, Goto, ChatKinds, hubVars, wireVars
  <2>2. pc' = [pc EXCEPT ![c] = IF "group" = "dm" THEN "routing" ELSE "group"]
    BY <2>1
  <2>3. Others(c)
    BY <1>0, <2>1 DEF Others, Echo
  <2> QED BY <2>1, <2>2, <2>3, EchoStep, EndlessStep
<1>7. ASSUME NEW G \in Groups, TypingGroup(c, G) PROVE DInv'
  <2>1. /\ UNCHANGED <<send, got, sent, routeQ>> /\ Others(c)
        /\ job'[c].kind \notin Lanes
    BY <1>0, <1>7, <1>n DEF TypingGroup, Decode, Goto, Others, hubVars, wireVars, sendVars
  <2> QED BY <2>1, PlainJob, QuietStep
<1> QED BY <1>1, <1>2, <1>3, <1>4, <1>5, <1>6, <1>7 DEF ClientStep

LEMMA NextDelivers == TypeOK /\ RegInv /\ DInv /\ [Next]_vars => DInv'
<1> SUFFICES ASSUME TypeOK, RegInv, DInv, [Next]_vars PROVE DInv'
  OBVIOUS
<1>0. TypeOK'
  BY NextType
<1>1. CASE UNCHANGED vars
  BY <1>1, IdleStep DEF vars, handlerVars, hubVars, wireVars, sendVars
<1>2. CASE HubStep
  <2>1. CASE HubTakeRegister \/ HubTakeUnregister \/ HubLock \/ HubRegister \/ HubUnregister
    BY <2>1, IdleStep DEF HubTakeRegister, HubTakeUnregister, HubLock, HubRegister, HubUnregister,
                          handlerVars, wireVars, sendVars
  <2> QED BY <1>0, <1>2, <2>1, DeliverStep DEF HubStep
<1>3. ASSUME NEW c \in Conns, WriterStep(c) PROVE DInv'
  <2>1. CASE WriterEnd(c)
    BY <2>1, IdleStep DEF WriterEnd, handlerVars, hubVars, sendVars
  <2> QED BY <1>0, <1>3, <2>1, WriterDelivers DEF WriterStep
<1> QED BY <1>0, <1>1, <1>2, <1>3, HandlerDelivers, ClientDelivers DEF Next, Terminated

LEMMA InitDelivers == Init => DInv
<1> SUFFICES ASSUME Init PROVE DInv
  OBVIOUS
<1>1. /\ \A c \in Conns : send[c] = <<>> /\ job[c].kind \notin Lanes /\ pc[c] = "idle"
      /\ \A r, s \in Conns, k \in Lanes : got[r][s][k] = <<>>
      /\ routeQ = <<>> /\ DOMAIN <<>> = {}
  BY DEF Init, Notice, Lanes, ChatKinds
<1>2. Wires
  BY <1>1 DEF Wires, WireOK, WireIn
<1>3. NoneAhead
  BY <1>1 DEF NoneAhead, Before, OlderIn
<1>4. Routed
  BY <1>1 DEF Routed
<1>5. Jobs
  BY <1>1 DEF Jobs, JobOK
<1> QED BY <1>2, <1>3, <1>4, <1>5 DEF DInv

-----------------------------------------------------------------------------
(* The refinement. *)

LEMMA InitMaps == Init => Abstract!Init
  BY DEF Init, Abstract!Init, Abstract!Lanes, Abstract!Kinds, Lanes, ChatKinds

(* What a writer puts on the wire is a Show, what a handler echoes a Send. *)
LEMMA StepMaps == TypeOK /\ DInv /\ [Next]_vars => [Abstract!Next]_<<sent, got>>
<1> SUFFICES ASSUME TypeOK, DInv, [Next]_vars PROVE Abstract!Next \/ UNCHANGED <<sent, got>>
  OBVIOUS
<1>e. ASSUME NEW c \in Conns, NEW k \in ChatKinds, NEW S \in SUBSET Users, Echo(c, k, S), UNCHANGED got
      PROVE  Abstract!Next \/ UNCHANGED <<sent, got>>
  <2>1. [kind |-> k, to |-> S] \in Abstract!Message
    BY DEF Abstract!Message, Abstract!Kinds, ChatKinds
  <2> QED BY <1>e, <2>1 DEF Echo, Abstract!Next, Abstract!Send
<1>1. ASSUME NEW c \in Conns, WriterWrite(c), Head(send[c]).kind \in Lanes
      PROVE  Abstract!Next
  <2> DEFINE q == send[c]
             e == Head(q)
             s == e.from
             m == sent[s][e.seq]
  <2>1. q \in Seq(Envelope) /\ q # <<>> /\ 1 \in DOMAIN q /\ e = q[1]
    BY <1>1 DEF WriterWrite, TypeOK, SendTypeOK
  <2>2. WireIn(sent, got[c], q, c)
    BY DEF DInv, Wires, WireOK
  <2>3. s \in Conns /\ e.seq \in DOMAIN sent[s] /\ ForIn(sent, c, e)
    BY <1>1, <2>1, <2>2 DEF WireIn, ForIn, SoundIn
  <2>4. \A i \in DOMAIN got[c][s][e.kind] : got[c][s][e.kind][i] < e.seq
    BY <1>1, <2>1, <2>2 DEF WireIn
  <2>5. got' = [got EXCEPT ![c][s][e.kind] = Append(@, e.seq)] /\ UNCHANGED sent
    BY <1>1 DEF WriterWrite, handlerVars
  <2>6. Abstract!Entitled(c, s, m, e.kind)
    BY <1>1, <2>3 DEF Abstract!Entitled, ForIn, SoundIn, Lanes, ChatKinds
  <2>7. e.kind \in Abstract!Lanes
    BY <1>1 DEF Abstract!Lanes, Abstract!Kinds, Lanes, ChatKinds
  <2> HIDE DEF q, e, s
  <2>8. Abstract!Show(c, s, e.kind)
    BY <2>3, <2>4, <2>5, <2>6 DEF Abstract!Show
  <2> QED BY <2>3, <2>7, <2>8 DEF Abstract!Next
<1>2. ASSUME NEW c \in Conns, NEW u \in Users, SendMsg(c, u)
      PROVE  Abstract!Next \/ UNCHANGED <<sent, got>>
  BY <1>2, <1>e DEF SendMsg, ChatKinds, wireVars
<1>3. ASSUME NEW c \in Conns, NEW G \in Groups, GroupMsg(c, G)
      PROVE  Abstract!Next \/ UNCHANGED <<sent, got>>
  BY <1>3, <1>e, HubAssumption DEF GroupMsg, ChatKinds, wireVars
<1>4. CASE HubStep
  BY <1>4 DEF HubStep, HubTakeRegister, HubTakeUnregister, HubLock, HubRegister, HubUnregister, HubDeliver,
              handlerVars, wireVars
<1>5. ASSUME NEW c \in Conns, HandlerStep(c) PROVE UNCHANGED <<sent, got>>
  BY <1>5 DEF HandlerStep, Register, Hello, Goodbye, BroadcastUserList, Fanout, FanoutDone, Welcome,
              Route, GroupLock, UserListResp, Unregister, wireVars
<1>6. ASSUME NEW c \in Conns, ClientStep(c) PROVE Abstract!Next \/ UNCHANGED <<sent, got>>
  <2>1. CASE Login(c) \/ Leave(c) \/ AnswerOnly(c) \/ UserListReq(c)
    BY <2>1 DEF Login, Leave, AnswerOnly, UserListReq, wireVars
  <2>2. ASSUME NEW u \in Users, Typing(c, u) PROVE UNCHANGED <<sent, got>>
    BY <2>2 DEF Typing, wireVars
  <2>3. ASSUME NEW G \in Groups, TypingGroup(c, G) PROVE UNCHANGED <<sent, got>>
    BY <2>3 DEF TypingGroup, wireVars
  <2> QED BY <1>2, <1>3, <1>6, <2>1, <2>2, <2>3 DEF ClientStep
<1>7. ASSUME NEW c \in Conns, WriterStep(c) PROVE Abstract!Next \/ UNCHANGED <<sent, got>>
  <2>1. CASE WriterFail(c) \/ WriterEnd(c)
    BY <2>1 DEF WriterFail, WriterEnd, handlerVars
  <2>2. CASE WriterWrite(c) /\ Head(send[c]).kind \notin Lanes
    BY <2>2 DEF WriterWrite, handlerVars
  <2> QED BY <1>1, <1>7, <2>1, <2>2 DEF WriterStep
<1>8. CASE UNCHANGED vars
  BY <1>8 DEF vars, handlerVars, wireVars
<1> QED BY <1>4, <1>5, <1>6, <1>7, <1>8 DEF Next, Terminated

(* Whatever is shown to a client on a lane was sent to it, is shown there    *)
(* once, and in the order of its sender: the server implements Delivery.     *)
THEOREM ServerDelivers == Spec => Delivered
<1> QED
  BY InitType, NextType, InitReg, NextReg, InitDelivers, NextDelivers, InitMaps, StepMaps, PTL
  DEF Spec, Delivered, Abstract!Spec
=============================================================================
