---------------------------- MODULE GroupsProofs ----------------------------
(***************************************************************************)
(* Whoever's groups change is told, for any users, groups and handlers:    *)
(* until he is, some handler owes him a list.                              *)
(***************************************************************************)
EXTENDS Groups, SequenceTheorems, TLAPS

(* Only the phase at hand is a loop or reads members, and a handler that   *)
(* inserts or reads them will notify them.                                 *)
Ordered(p) ==
  /\ p \in Seq(Plans)
  /\ p # <<>> =>
       /\ Range(Tail(p)) \cap {"insert", "members", "send", "reply"} = {}
       /\ Head(p) \in {"insert", "members"} => "notify" \in Range(Tail(p))

(* What a handler works on belongs to its phase. *)
Working ==
  \A u \in Users :
    /\ Ordered(plan[u])
    /\ Phase(u) \in {"insert", "members"} => group[u] \in Groups
    /\ Phase(u) = "insert" => group[u] \in exists /\ todo[u] \subseteq names[u]

Addressees(u) == IF Phase(u) = "members" THEN members[group[u]] ELSE names[u]

(* u's handler will send v the list of the groups v has now. *)
Owes(u, v) ==
  \/ Sending(u) /\ (v \in todo[u] \/ out[u] = [to |-> v, groups |-> GroupsOf(v)])
  \/ "notify" \in Range(plan[u]) /\ v \in Addressees(u)
  \/ u = v /\ "own" \in Range(plan[u])

Owed == \A v \in session : told[v] \/ v \in missed \/ \E u \in Users : Owes(u, v)

-----------------------------------------------------------------------------
(* Plans. *)

LEMMA Singles ==
  /\ \A S : \A x \in S : <<x>> \in Seq(S)
  /\ \A x, t : Range(<<x>>) = {x} /\ Head(<<x>>) = x
  /\ \A S : \A x \in S, t \in Seq(S) :
       <<x>> \o t # <<>> /\ Head(<<x>> \o t) = x /\ Tail(<<x>> \o t) = t
  /\ \A S : <<>> \in Seq(S)
  /\ Range(<<>>) = {}
<1>1. \A x : Range(<<x>>) = {x} /\ Head(<<x>>) = x
  BY DEF Range
<1>2. ASSUME NEW S, NEW x \in S, NEW t \in Seq(S)
      PROVE  <<x>> \o t # <<>> /\ Head(<<x>> \o t) = x /\ Tail(<<x>> \o t) = t
  OBVIOUS
<1> QED BY <1>1, <1>2 DEF Range

LEMMA RangeOfRest ==
  ASSUME NEW S, NEW p \in Seq(S), p # <<>>
  PROVE  Range(p) = {Head(p)} \cup Range(Tail(p))
<1>1. Head(p) \in S /\ Tail(p) \in Seq(S) /\ <<Head(p)>> \in Seq(S)
  BY HeadTailProperties
<1>2. p = <<Head(p)>> \o Tail(p)
  BY <1>1, HeadTailProperties
<1>3. Range(<<Head(p)>> \o Tail(p)) = Range(<<Head(p)>>) \cup Range(Tail(p))
  BY <1>1, RangeConcatenation
<1> QED BY <1>2, <1>3, Singles

(* A phase is done: what it leaves of the plan, behind the loop it starts.  *)
LEMMA Ahead ==
  ASSUME NEW p, Ordered(p), p # <<>>, NEW q \in {<<>>, <<"send">>, <<"reply">>}
  PROVE  /\ Ordered(q \o Tail(p))
         /\ Range(q \o Tail(p)) = Range(q) \cup Range(Tail(p))
         /\ Range(p) = {Head(p)} \cup Range(Tail(p))
         /\ q # <<>> => q \o Tail(p) # <<>> /\ Head(q \o Tail(p)) = Head(q)
         /\ q = <<>> => q \o Tail(p) = Tail(p)
<1> DEFINE t == Tail(p)
           r == q \o t
<1>1. p \in Seq(Plans) /\ t \in Seq(Plans) /\ Head(p) \in Plans
  BY HeadTailProperties DEF Ordered
<1>2. q \in Seq(Plans) /\ Range(q) \subseteq {"send", "reply"}
  BY Singles DEF Plans
<1>4. Range(p) = {Head(p)} \cup Range(t)
  BY <1>1, RangeOfRest
<1>5. r \in Seq(Plans)
  BY <1>1, <1>2, ConcatProperties
<1>5a. Range(r) = Range(q) \cup Range(t)
  <2> HIDE DEF t
  <2> QED BY <1>1, <1>2, RangeConcatenation
<1>6. ASSUME q # <<>> PROVE r # <<>> /\ Head(r) = Head(q) /\ Tail(r) = t
  <2>1. PICK x \in Plans : q = <<x>>
    BY <1>6 DEF Plans
  <2> HIDE DEF t
  <2> QED BY <1>1, <2>1, Singles
<1>7. ASSUME q = <<>> PROVE r = t
  BY <1>1, <1>7, ConcatEmptySeq
<1> HIDE DEF r
<1>8. Ordered(r)
  <2>1. CASE q # <<>>
    <3>1. Head(q) \in {"send", "reply"}
      BY <2>1
    <3> QED BY <1>5, <1>6, <2>1, <3>1 DEF Ordered
  <2>2. CASE q = <<>> /\ t # <<>>
    <3>1. Range(t) = {Head(t)} \cup Range(Tail(t))
      BY <1>1, <2>2, RangeOfRest
    <3> QED BY <1>5, <1>7, <2>2, <3>1 DEF Ordered
  <2>3. CASE q = <<>> /\ t = <<>>
    BY <1>5, <1>7, <2>3 DEF Ordered
  <2> QED BY <2>1, <2>2, <2>3
<1> QED BY <1>4, <1>5a, <1>6, <1>7, <1>8 DEF r

(* The plans the frames make. *)
LEMMA NewPlans ==
  /\ Ordered(<<>>) /\ Ordered(<<"all">>) /\ Ordered(<<"own">>) /\ Ordered(<<"all", "own">>)
  /\ Ordered(<<"insert", "notify">>)
  /\ Ordered(<<"members", "announce", "notify">>) /\ Ordered(<<"members", "notify", "announce">>)
  /\ Ordered(<<"members", "notify", "announce", "own">>)
  /\ "own" \in Range(<<"all", "own">>) /\ "own" \in Range(<<"members", "notify", "announce", "own">>)
  /\ "notify" \in Range(<<"members", "announce", "notify">>)
  /\ "notify" \in Range(<<"members", "notify", "announce">>)
  /\ Range(<<>>) = {}

<1>1. /\ \A a, b : Range(<<a, b>>) = {a, b}
      /\ \A a, b, c : Range(<<a, b, c>>) = {a, b, c}
      /\ \A a, b, c, d : Range(<<a, b, c, d>>) = {a, b, c, d}
  BY DEF Range
<1>2. ASSUME NEW a \in Plans, NEW b \in Plans, NEW c \in Plans, NEW d \in Plans
      PROVE  /\ <<a>> \in Seq(Plans) /\ Tail(<<a>>) = <<>> /\ Head(<<a>>) = a
             /\ <<a, b>> \in Seq(Plans) /\ Tail(<<a, b>>) = <<b>> /\ Head(<<a, b>>) = a
             /\ <<a, b, c>> \in Seq(Plans) /\ Tail(<<a, b, c>>) = <<b, c>> /\ Head(<<a, b, c>>) = a
             /\ <<a, b, c, d>> \in Seq(Plans) /\ Tail(<<a, b, c, d>>) = <<b, c, d>>
             /\ Head(<<a, b, c, d>>) = a
  OBVIOUS
<1>3. ASSUME NEW a \in Plans \ {"insert", "members"} PROVE Ordered(<<a>>)
  BY <1>2, Singles DEF Ordered
<1>4. ASSUME NEW a \in Plans, NEW b \in Plans \ {"insert", "members", "send", "reply"},
             a \in {"insert", "members"} => b = "notify"
      PROVE  Ordered(<<a, b>>)
  <2> DEFINE p == <<a, b>>
  <2>1. p \in Seq(Plans) /\ Tail(p) = <<b>> /\ Head(p) = a
    BY <1>2
  <2>2. Range(Tail(p)) = {b}
    BY Singles, <2>1
  <2> HIDE DEF p
  <2>3. Ordered(p)
    BY <2>1, <2>2, <1>4 DEF Ordered
  <2> QED BY <2>3 DEF p
<1>5. ASSUME NEW a \in Plans, NEW b \in Plans \ {"insert", "members", "send", "reply"},
             NEW c \in Plans \ {"insert", "members", "send", "reply"}, "notify" \in {b, c}
      PROVE  Ordered(<<a, b, c>>)
  <2> DEFINE p == <<a, b, c>>
  <2>1. p \in Seq(Plans) /\ Tail(p) = <<b, c>> /\ Head(p) = a
    BY <1>2
  <2>2. Range(Tail(p)) = {b, c}
    BY <1>1, <2>1
  <2> HIDE DEF p
  <2>3. Ordered(p)
    BY <2>1, <2>2, <1>5 DEF Ordered
  <2> QED BY <2>3 DEF p
<1>6. ASSUME NEW a \in Plans, NEW b \in Plans \ {"insert", "members", "send", "reply"},
             NEW c \in Plans \ {"insert", "members", "send", "reply"},
             NEW d \in Plans \ {"insert", "members", "send", "reply"}, "notify" \in {b, c, d}
      PROVE  Ordered(<<a, b, c, d>>)
  <2> DEFINE p == <<a, b, c, d>>
  <2>1. p \in Seq(Plans) /\ Tail(p) = <<b, c, d>> /\ Head(p) = a
    BY <1>2
  <2>2. Range(Tail(p)) = {b, c, d}
    BY <1>1, <2>1
  <2> HIDE DEF p
  <2>3. Ordered(p)
    BY <2>1, <2>2, <1>6 DEF Ordered
  <2> QED BY <2>3 DEF p
<1>7. Ordered(<<>>)
  BY DEF Ordered
<1>8. Ordered(<<"all">>) /\ Ordered(<<"own">>) /\ Ordered(<<"all", "own">>) /\ Ordered(<<"insert", "notify">>)
  BY <1>3, <1>4 DEF Plans
<1>9. Ordered(<<"members", "announce", "notify">>) /\ Ordered(<<"members", "notify", "announce">>)
  BY <1>5 DEF Plans
<1>10. Ordered(<<"members", "notify", "announce", "own">>)
  BY <1>6 DEF Plans
<1>11. "own" \in Range(<<"all", "own">>)
  BY DEF Range
<1>12. "own" \in Range(<<"members", "notify", "announce", "own">>)
  BY DEF Range
<1>13. "notify" \in Range(<<"members", "announce", "notify">>)
  BY DEF Range
<1>14. "notify" \in Range(<<"members", "notify", "announce">>)
  BY DEF Range
<1> QED BY <1>7, <1>8, <1>9, <1>10, <1>11, <1>12, <1>13, <1>14, Singles

-----------------------------------------------------------------------------
(* Steps. *)

(* u's handler goes on to the next phase. *)
LEMMA Proceeds ==
  ASSUME TypeOK, Working, NEW u \in Users, plan[u] # <<>>,
         NEW q \in {<<>>, <<"send">>, <<"reply">>}, Proceed(u, q)
  PROVE  /\ plan' \in [Users -> Seq(Plans)] /\ \A w \in Users : Ordered(plan'[w])
         /\ \A w \in Users \ {u} : plan'[w] = plan[w] /\ Phase(w)' = Phase(w)
         /\ IF q = <<>> THEN Phase(u)' \notin {"insert", "members", "send", "reply"}
                       ELSE Phase(u)' = Head(q)
         /\ \A x \in Range(plan[u]) : x # Phase(u) => x \in Range(plan'[u])
         /\ Phase(u) \in {"insert", "members"} => "notify" \in Range(plan'[u])
<1> DEFINE p == plan[u]
<1>1. Ordered(p) /\ p # <<>> /\ Phase(u) = Head(p)
  BY DEF Working, Phase
<1>2. plan' = [plan EXCEPT ![u] = q \o Tail(p)] /\ plan \in [Users -> Seq(Plans)]
  BY DEF Proceed, TypeOK
<1>3. plan'[u] = q \o Tail(p)
  BY <1>2
<1>4. \A w \in Users \ {u} : plan'[w] = plan[w] /\ Phase(w)' = Phase(w)
  BY <1>2 DEF Phase
<1>5. Ordered(plan'[u])
  BY <1>1, <1>3, Ahead
<1>6. \A w \in Users : Ordered(plan'[w])
  BY <1>4, <1>5 DEF Working
<1>7. plan' \in [Users -> Seq(Plans)]
  BY <1>2, <1>6 DEF Ordered
<1>a. /\ Range(q \o Tail(p)) = Range(q) \cup Range(Tail(p))
      /\ Range(p) = {Head(p)} \cup Range(Tail(p))
  <2> HIDE DEF p
  <2> QED BY <1>1, Ahead
<1>8. \A x \in Range(p) : x # Head(p) => x \in Range(plan'[u])
  BY <1>3, <1>a
<1>9. Head(p) \in {"insert", "members"} => "notify" \in Range(plan'[u])
  BY <1>1, <1>3, <1>a DEF Ordered
<1>10. CASE q # <<>>
  <2>1. Phase(u)' = Head(q)
    BY <1>1, <1>3, <1>10, Ahead DEF Phase
  <2> QED BY <1>1, <1>4, <1>6, <1>7, <1>8, <1>9, <1>10, <2>1
<1>11. CASE q = <<>>
  <2>1. plan'[u] = Tail(p) /\ Tail(p) \in Seq(Plans)
    BY <1>1, <1>3, <1>11, Ahead, HeadTailProperties DEF Ordered
  <2>2. CASE Tail(p) = <<>>
    <3>1. Phase(u)' = "none"
      BY <2>1, <2>2 DEF Phase
    <3> QED BY <1>1, <1>4, <1>6, <1>7, <1>8, <1>9, <1>11, <3>1
  <2>3. CASE Tail(p) # <<>>
    <3>1. Phase(u)' = Head(Tail(p)) /\ Head(Tail(p)) \in Range(Tail(p))
      <4> HIDE DEF p
      <4> QED BY <2>1, <2>3, RangeOfRest DEF Phase
    <3>2. Phase(u)' \notin {"insert", "members", "send", "reply"}
      BY <1>1, <3>1 DEF Ordered
    <3> QED BY <1>1, <1>4, <1>6, <1>7, <1>8, <1>9, <1>11, <3>2
  <2> QED BY <2>2, <2>3
<1> QED BY <1>10, <1>11

(* A frame is read: u's handler has a plan now. *)
LEMMA Requested ==
  ASSUME TypeOK, Working, NEW u \in Users, NEW g, NEW p, Ordered(p), p # <<>>, Request(u, g, p)
  PROVE  /\ plan' \in [Users -> Seq(Plans)] /\ \A w \in Users : Ordered(plan'[w])
         /\ \A w \in Users \ {u} : plan'[w] = plan[w] /\ Phase(w)' = Phase(w)
         /\ plan'[u] = p /\ Phase(u)' = Head(p) /\ Phase(u) = "none"
         /\ todo[u] = {} /\ out[u] = Nothing
         /\ acts' \in 0 .. MaxActs /\ group' = [group EXCEPT ![u] = g]
<1>1. plan' = [plan EXCEPT ![u] = p] /\ plan \in [Users -> Seq(Plans)] /\ plan[u] = <<>>
  BY DEF Request, TypeOK
<1>2. plan'[u] = p /\ \A w \in Users \ {u} : plan'[w] = plan[w]
  BY <1>1
<1>3. \A w \in Users : Ordered(plan'[w])
  BY <1>2 DEF Working
<1>4. plan' \in [Users -> Seq(Plans)]
  BY <1>1, <1>3 DEF Ordered
<1>5. Phase(u)' = Head(p) /\ Phase(u) = "none" /\ \A w \in Users \ {u} : Phase(w)' = Phase(w)
  BY <1>1, <1>2 DEF Phase
<1>6. todo[u] = {} /\ out[u] = Nothing
  BY <1>5 DEF TypeOK, Sending
<1>7. acts' \in 0 .. MaxActs
  <2>1. acts \in 0 .. MaxActs /\ MaxActs \in Nat
    BY GroupsAssumption DEF TypeOK
  <2> QED BY <2>1 DEF Request, Act
<1> QED BY <1>2, <1>3, <1>4, <1>5, <1>6, <1>7 DEF Request

LEMMA Rows ==
  ASSUME TypeOK, NEW g \in Groups, NEW v \in Users, NEW in \in BOOLEAN, Row(g, v, in),
         in => g \in exists
  PROVE  /\ members' \in [Groups -> SUBSET Users] /\ \A h \in Groups \ exists : members'[h] = {}
         /\ told' \in [Users -> BOOLEAN]
         /\ \A w \in Users \ {v} : told'[w] = told[w] /\ GroupsOf(w)' = GroupsOf(w)
         /\ \A h \in Groups : members[h] \ {v} \subseteq members'[h]
         /\ \A h \in Groups : in => members[h] \subseteq members'[h]
         /\ in => v \in members'[g]
         /\ members' = members => told' = told
<1>1. /\ members \in [Groups -> SUBSET Users] /\ \A h \in Groups \ exists : members[h] = {}
      /\ told \in [Users -> BOOLEAN]
  BY DEF TypeOK
<1>2. /\ members' = [members EXCEPT ![g] = IF in THEN @ \cup {v} ELSE @ \ {v}]
      /\ told' = [told EXCEPT ![v] = @ /\ members' = members]
  BY DEF Row
<1>3. members' \in [Groups -> SUBSET Users] /\ \A h \in Groups \ exists : members'[h] = {}
  BY <1>1, <1>2
<1>4. /\ \A h \in Groups : members[h] \ {v} \subseteq members'[h]
      /\ \A h \in Groups : in => members[h] \subseteq members'[h]
      /\ \A h \in Groups : \A w \in Users \ {v} : w \in members'[h] <=> w \in members[h]
      /\ in => v \in members'[g]
  BY <1>1, <1>2
<1>5. \A w \in Users \ {v} : GroupsOf(w)' = GroupsOf(w)
  BY <1>4 DEF GroupsOf
<1>6. \A w \in Users \ {v} : told'[w] = told[w]
  BY <1>1, <1>2
<1>7. told' \in [Users -> BOOLEAN]
  BY <1>1, <1>2
<1>8. ASSUME members' = members PROVE told' = told
  BY <1>1, <1>2, <1>8
<1> QED BY <1>3, <1>4, <1>5, <1>6, <1>7, <1>8

-----------------------------------------------------------------------------
(* Type correctness. *)

LEMMA InitTypes == Init => TypeOK /\ Working
<1> SUFFICES ASSUME Init PROVE TypeOK /\ Working
  OBVIOUS
<1>1. \A u \in Users : plan[u] = <<>> /\ Phase(u) = "none"
  BY DEF Init, Phase
<1>2. Working
  BY <1>1, NewPlans DEF Working
<1>3. plan \in [Users -> Seq(Plans)]
  BY Singles DEF Init
<1>4. /\ exists \subseteq Groups /\ members \in [Groups -> SUBSET Users]
      /\ \A g \in Groups \ exists : members[g] = {}
      /\ online \subseteq Users /\ asked \subseteq {"register", "unregister"} \X Users
      /\ session \subseteq Users
  BY DEF Init
<1>5. /\ group \in [Users -> Groups \cup {""}]
      /\ names \in [Users -> SUBSET Users] /\ todo \in [Users -> SUBSET Users]
      /\ \A u \in Users : todo[u] = {}
      /\ out \in [Users -> [to : Users, groups : SUBSET Groups] \cup {Nothing}]
      /\ \A u \in Users : out[u] = Nothing
  BY DEF Init
<1>6. /\ shown \in [Users -> SUBSET Groups] /\ told \in [Users -> BOOLEAN]
      /\ missed \subseteq Users
  BY DEF Init
<1>7. acts \in 0 .. MaxActs
  <2>1. acts = 0
    BY DEF Init
  <2> QED BY <2>1, GroupsAssumption
<1> QED BY <1>2, <1>3, <1>4, <1>5, <1>6, <1>7 DEF TypeOK

LEMMA ClientTypes ==
  ASSUME TypeOK, Working, NEW u \in Users, ClientStep(u)
  PROVE  TypeOK' /\ Working'
<1>1. CASE Login(u)
  <2>1. acts \in 0 .. MaxActs /\ MaxActs \in Nat
    BY GroupsAssumption DEF TypeOK
  <2>2. acts' \in 0 .. MaxActs
    BY <1>1, <2>1 DEF Login, Act
  <2>3. plan' = [plan EXCEPT ![u] = <<"all", "own">>] /\ plan \in [Users -> Seq(Plans)]
    BY <1>1 DEF Login, TypeOK
  <2>4. \A w \in Users : Ordered(plan'[w])
    BY <2>3, NewPlans DEF Working
  <2>5. /\ plan' \in [Users -> Seq(Plans)]
        /\ Phase(u)' = "all" /\ Phase(u) = "none"
        /\ \A w \in Users \ {u} : Phase(w)' = Phase(w)
    BY <1>1, <2>3, <2>4 DEF Ordered, Phase, Login
  <2>a. asked' \subseteq {"register", "unregister"} \X Users
    <3>1. <<"register", u>> \in {"register", "unregister"} \X Users
      OBVIOUS
    <3>2. asked' = asked \cup {<<"register", u>>}
      BY <1>1 DEF Login
    <3>3. asked \subseteq {"register", "unregister"} \X Users
      BY DEF TypeOK
    <3> QED BY <3>1, <3>2, <3>3
  <2>b. UNCHANGED <<exists, members, online, group, names, todo, out>>
    BY <1>1 DEF Login, tables
  <2>c. /\ session' \subseteq Users /\ missed' \subseteq Users
        /\ shown' \in [Users -> SUBSET Groups] /\ told' \in [Users -> BOOLEAN]
    BY <1>1 DEF Login, TypeOK
  <2>d. todo[u] = {} /\ out[u] = Nothing
    BY <2>5 DEF TypeOK, Sending
  <2>6. TypeOK'
    BY <2>2, <2>5, <2>a, <2>b, <2>c, <2>d DEF TypeOK, Sending
  <2> QED BY <1>1, <2>4, <2>5, <2>6 DEF Login, Working, tables
<1>2. CASE Logout(u)
  <2>1. acts \in 0 .. MaxActs /\ MaxActs \in Nat
    BY GroupsAssumption DEF TypeOK
  <2>2. acts' \in 0 .. MaxActs
    BY <1>2, <2>1 DEF Logout, Act
  <2>3. plan' = [plan EXCEPT ![u] = <<"all">>] /\ plan \in [Users -> Seq(Plans)]
    BY <1>2 DEF Logout, TypeOK
  <2>4. \A w \in Users : Ordered(plan'[w])
    BY <2>3, NewPlans DEF Working
  <2>5. /\ plan' \in [Users -> Seq(Plans)]
        /\ Phase(u)' = "all" /\ Phase(u) = "none"
        /\ \A w \in Users \ {u} : Phase(w)' = Phase(w)
    BY <1>2, <2>3, <2>4 DEF Ordered, Phase, Logout
  <2>a. asked' \subseteq {"register", "unregister"} \X Users
    <3>1. <<"unregister", u>> \in {"register", "unregister"} \X Users
      OBVIOUS
    <3>2. asked' = asked \cup {<<"unregister", u>>}
      BY <1>2 DEF Logout
    <3>3. asked \subseteq {"register", "unregister"} \X Users
      BY DEF TypeOK
    <3> QED BY <3>1, <3>2, <3>3
  <2>b. UNCHANGED <<exists, members, online, group, names, todo, out, shown, told, missed>>
    BY <1>2 DEF Logout, tables, clientVars
  <2>c. session' \subseteq Users
    BY <1>2 DEF Logout, TypeOK
  <2>d. todo[u] = {} /\ out[u] = Nothing
    BY <2>5 DEF TypeOK, Sending
  <2>6. TypeOK'
    BY <2>2, <2>5, <2>a, <2>b, <2>c, <2>d DEF TypeOK, Sending
  <2> QED BY <1>2, <2>4, <2>5, <2>6 DEF Logout, Working, tables
<1>3. CASE UserListReq(u)
  <2>1. Request(u, group[u], <<"own">>) /\ UNCHANGED <<exists, members, names, todo, told>>
    BY <1>3 DEF UserListReq, tables
  <2>2. group' = group
    BY <2>1 DEF Request, TypeOK
  <2>3. /\ plan' \in [Users -> Seq(Plans)] /\ \A w \in Users : Ordered(plan'[w])
        /\ \A w \in Users \ {u} : Phase(w)' = Phase(w)
        /\ Phase(u)' = "own" /\ Phase(u) = "none" /\ acts' \in 0 .. MaxActs
    BY <2>1, Requested, NewPlans
  <2>4. UNCHANGED <<online, asked, session, out, shown, missed>>
    BY <2>1 DEF Request, hubVars
  <2>5. TypeOK'
    BY <2>1, <2>2, <2>3, <2>4 DEF TypeOK, Sending
  <2> QED BY <2>1, <2>2, <2>3, <2>5 DEF Working
<1>4. ASSUME NEW g \in Groups, NEW M \in SUBSET (Users \ {u}), CreateGroup(u, g, M)
      PROVE  TypeOK' /\ Working'
  <2>1. /\ Request(u, g, <<"insert", "notify">>) /\ UNCHANGED <<members, told>>
        /\ exists' = exists \cup {g}
        /\ names' = [names EXCEPT ![u] = M \cup {u}] /\ todo' = [todo EXCEPT ![u] = M \cup {u}]
    BY <1>4 DEF CreateGroup
  <2>2. /\ plan' \in [Users -> Seq(Plans)] /\ \A w \in Users : Ordered(plan'[w])
        /\ \A w \in Users \ {u} : Phase(w)' = Phase(w)
        /\ Phase(u)' = "insert" /\ Phase(u) = "none" /\ acts' \in 0 .. MaxActs
        /\ group' = [group EXCEPT ![u] = g]
    BY <2>1, Requested, NewPlans
  <2>3. UNCHANGED <<online, asked, session, out, shown, missed>>
    BY <2>1 DEF Request, hubVars
  <2>4. TypeOK'
    BY <2>1, <2>2, <2>3 DEF TypeOK, Sending
  <2>5. /\ group'[u] = g /\ names'[u] = M \cup {u} /\ todo'[u] = M \cup {u}
        /\ \A w \in Users \ {u} : UNCHANGED <<group[w], names[w], todo[w]>>
    BY <2>1, <2>2 DEF TypeOK
  <2> QED BY <2>1, <2>2, <2>4, <2>5 DEF Working
<1>5. ASSUME NEW g \in Groups, NEW v \in Users, NEW in \in BOOLEAN, Row(g, v, in),
             in => g \in exists, UNCHANGED <<exists, names, todo>>,
             NEW p, Ordered(p), p # <<>>, Head(p) = "members", Request(u, g, p)
      PROVE  TypeOK' /\ Working'
  <2>1. /\ members' \in [Groups -> SUBSET Users] /\ \A h \in Groups \ exists : members'[h] = {}
        /\ told' \in [Users -> BOOLEAN]
    BY <1>5, Rows
  <2>2. /\ plan' \in [Users -> Seq(Plans)] /\ \A w \in Users : Ordered(plan'[w])
        /\ \A w \in Users \ {u} : Phase(w)' = Phase(w)
        /\ Phase(u)' = "members" /\ Phase(u) = "none" /\ acts' \in 0 .. MaxActs
        /\ group' = [group EXCEPT ![u] = g]
    BY <1>5, Requested
  <2>3. UNCHANGED <<online, asked, session, out, shown, missed>>
    BY <1>5 DEF Request, hubVars
  <2>4. TypeOK'
    BY <1>5, <2>1, <2>2, <2>3 DEF TypeOK, Sending
  <2>5. group'[u] = g /\ \A w \in Users \ {u} : UNCHANGED group[w]
    BY <2>2 DEF TypeOK
  <2> QED BY <1>5, <2>2, <2>4, <2>5 DEF Working
<1>6. ASSUME NEW g \in Groups, Rejoin(u, g) PROVE TypeOK' /\ Working'
  <2> DEFINE p == <<"members", "announce", "notify">>
  <2>1. Ordered(p) /\ p # <<>> /\ Head(p) = "members"
    BY NewPlans
  <2>2. /\ Request(u, g, p) /\ Row(g, u, TRUE) /\ UNCHANGED <<exists, names, todo>>
        /\ g \in exists
    BY <1>6 DEF Rejoin
  <2> HIDE DEF p
  <2> QED BY <1>5, <2>1, <2>2
<1>7. ASSUME NEW g \in Groups, LeaveGroup(u, g) PROVE TypeOK' /\ Working'
  <2> DEFINE p == <<"members", "notify", "announce", "own">>
  <2>1. Ordered(p) /\ p # <<>> /\ Head(p) = "members"
    BY NewPlans
  <2>2. /\ Request(u, g, p) /\ Row(g, u, FALSE) /\ UNCHANGED <<exists, names, todo>>
        /\ FALSE => g \in exists
    BY <1>7 DEF LeaveGroup
  <2> HIDE DEF p
  <2> QED BY <1>5, <2>1, <2>2
<1>8. ASSUME NEW g \in Groups, NEW v \in Users, AddToGroup(u, g, v) PROVE TypeOK' /\ Working'
  <2> DEFINE p == <<"members", "notify", "announce">>
  <2>1. Ordered(p) /\ p # <<>> /\ Head(p) = "members"
    BY NewPlans
  <2>2. /\ Request(u, g, p) /\ Row(g, v, TRUE) /\ UNCHANGED <<exists, names, todo>>
        /\ g \in exists
    BY <1>8 DEF AddToGroup
  <2> HIDE DEF p
  <2> QED BY <1>5, <2>1, <2>2
<1> QED BY <1>1, <1>2, <1>3, <1>4, <1>6, <1>7, <1>8 DEF ClientStep

LEMMA HandlerTypes ==
  ASSUME TypeOK, Working, NEW u \in Users, HandlerStep(u)
  PROVE  TypeOK' /\ Working'
<1>u. /\ names[u] \subseteq Users /\ todo[u] \subseteq Users /\ Ordered(plan[u])
      /\ plan[u] \in Seq(Plans) /\ (Phase(u) = "none" <=> plan[u] = <<>>)
  <2>1. Ordered(plan[u]) /\ plan[u] \in Seq(Plans)
    BY DEF Working, Ordered
  <2>2. plan[u] # <<>> => Head(plan[u]) \in Plans
    BY <2>1, HeadTailProperties
  <2> QED BY <2>1, <2>2 DEF TypeOK, Phase, Plans
<1>1. CASE InsertMember(u)
  <2>1. PICK v \in todo[u] :
          /\ todo' = [todo EXCEPT ![u] = @ \ {v}]
          /\ Row(group[u], v, TRUE) \/ UNCHANGED <<members, told>>
    BY <1>1 DEF InsertMember
  <2>2. /\ Phase(u) = "insert" /\ group[u] \in Groups /\ group[u] \in exists
        /\ todo[u] \subseteq names[u]
        /\ UNCHANGED <<exists, online, asked, session, plan, group, names, out, shown, missed, acts>>
    BY <1>1 DEF InsertMember, Working, hubVars
  <2>3. /\ members' \in [Groups -> SUBSET Users] /\ \A h \in Groups \ exists : members'[h] = {}
        /\ told' \in [Users -> BOOLEAN]
    <3>1. CASE Row(group[u], v, TRUE)
      BY <1>u, <2>2, <3>1, Rows
    <3>2. CASE UNCHANGED <<members, told>>
      BY <3>2 DEF TypeOK
    <3> QED BY <2>1, <3>1, <3>2
  <2>4. \A w \in Users : Phase(w)' = Phase(w)
    BY <2>2 DEF Phase
  <2>5. /\ todo' \in [Users -> SUBSET Users] /\ todo'[u] \subseteq todo[u]
        /\ \A w \in Users \ {u} : todo'[w] = todo[w]
    BY <2>1 DEF TypeOK
  <2>6. TypeOK'
    BY <2>2, <2>3, <2>4, <2>5 DEF TypeOK, Sending
  <2> QED BY <2>2, <2>4, <2>5, <2>6 DEF Working
<1>2. ASSUME NEW q \in {<<>>, <<"send">>, <<"reply">>}, plan[u] # <<>>, Proceed(u, q),
             UNCHANGED <<exists, members, online, asked, session, group, out, shown, told, acts>>,
             out[u] = Nothing, names' \in [Users -> SUBSET Users],
             todo' \in [Users -> SUBSET Users], missed' \subseteq Users,
             \A w \in Users \ {u} : UNCHANGED <<names[w], todo[w]>>,
             q = <<>> => todo'[u] = {}
      PROVE  TypeOK' /\ Working'
  <2>1. /\ plan' \in [Users -> Seq(Plans)] /\ \A w \in Users : Ordered(plan'[w])
        /\ \A w \in Users \ {u} : Phase(w)' = Phase(w)
        /\ IF q = <<>> THEN Phase(u)' \notin {"insert", "members", "send", "reply"}
                      ELSE Phase(u)' = Head(q)
    BY <1>2, Proceeds
  <2>2. q # <<>> => Phase(u)' \in {"send", "reply"}
    BY <2>1
  <2>3. TypeOK'
    BY <1>2, <2>1, <2>2 DEF TypeOK, Sending
  <2> QED BY <1>2, <2>1, <2>2, <2>3 DEF Working
<1>a. \A f \in [Users -> SUBSET Users], S \in SUBSET Users :
        /\ [f EXCEPT ![u] = S] \in [Users -> SUBSET Users]
        /\ [f EXCEPT ![u] = S][u] = S
        /\ \A w \in Users \ {u} : [f EXCEPT ![u] = S][w] = f[w]
  OBVIOUS
<1>b. /\ names \in [Users -> SUBSET Users] /\ todo \in [Users -> SUBSET Users]
      /\ online \subseteq Users /\ missed \subseteq Users
      /\ members \in [Groups -> SUBSET Users]
      /\ ~Sending(u) => out[u] = Nothing
      /\ ~Sending(u) /\ Phase(u) # "insert" => todo[u] = {}
  BY DEF TypeOK
<1>3. CASE Inserted(u)
  BY <1>2, <1>3, <1>u, <1>b DEF Inserted, Sending, tables, hubVars, clientVars
<1>4. CASE ReadMembers(u)
  <2>1. group[u] \in Groups /\ members[group[u]] \subseteq Users
    BY <1>4, <1>b DEF ReadMembers, Working
  <2>2. /\ Proceed(u, <<>>) /\ Phase(u) = "members"
        /\ UNCHANGED <<exists, members, online, asked, session, group, todo, out, shown, told, acts>>
    BY <1>4 DEF ReadMembers, tables, hubVars
  <2>3. names' \in [Users -> SUBSET Users] /\ \A w \in Users \ {u} : names'[w] = names[w]
    BY <1>4, <2>1, <1>a, <1>b DEF ReadMembers
  <2>4. missed' \subseteq Users
    BY <1>4, <2>1, <1>b DEF ReadMembers
  <2> QED BY <1>2, <1>u, <1>b, <2>2, <2>3, <2>4 DEF Sending
<1>5. CASE Notify(u)
  <2>1. /\ Proceed(u, <<"send">>) /\ Phase(u) = "notify"
        /\ UNCHANGED <<exists, members, online, asked, session, group, names, out, shown, told, acts>>
        /\ missed' \subseteq Users
    BY <1>5, <1>u, <1>b DEF Notify, tables, hubVars
  <2>2. todo' \in [Users -> SUBSET Users] /\ \A w \in Users \ {u} : todo'[w] = todo[w]
    BY <1>5, <1>u, <1>a, <1>b DEF Notify
  <2> QED BY <1>2, <1>u, <1>b, <2>1, <2>2 DEF Sending
<1>6. CASE Broadcast(u)
  <2>1. /\ Proceed(u, <<"send">>) /\ Phase(u) = "all"
        /\ UNCHANGED <<exists, members, online, asked, session, group, names, out, shown, told, missed, acts>>
    BY <1>6 DEF Broadcast, tables, hubVars, clientVars
  <2>2. todo' \in [Users -> SUBSET Users] /\ \A w \in Users \ {u} : todo'[w] = todo[w]
    BY <1>6, <1>a, <1>b DEF Broadcast
  <2> QED BY <1>2, <1>u, <1>b, <2>1, <2>2 DEF Sending
<1>7. CASE OwnList(u)
  <2>1. /\ Proceed(u, <<"reply">>) /\ Phase(u) = "own"
        /\ UNCHANGED <<exists, members, online, asked, session, group, names, out, shown, told, missed, acts>>
    BY <1>7 DEF OwnList, tables, hubVars, clientVars
  <2>2. todo' \in [Users -> SUBSET Users] /\ \A w \in Users \ {u} : todo'[w] = todo[w]
    BY <1>7, <1>a, <1>b DEF OwnList
  <2> QED BY <1>2, <1>u, <1>b, <2>1, <2>2 DEF Sending
<1>8. CASE Announce(u)
  BY <1>2, <1>8, <1>u, <1>b DEF Announce, Sending, tables, hubVars, clientVars
<1>9. CASE Sent(u)
  BY <1>2, <1>9, <1>u, <1>b DEF Sent, Sending, tables, hubVars, clientVars
<1>10. CASE MakeList(u)
  <2>1. PICK v \in todo[u], S \in SUBSET Groups :
          /\ todo' = [todo EXCEPT ![u] = @ \ {v}]
          /\ out' = [out EXCEPT ![u] = [to |-> v, groups |-> S]]
          /\ missed' = IF S = GroupsOf(v) THEN missed ELSE missed \cup {v}
    BY <1>10 DEF MakeList, GroupsOf
  <2>2. /\ Sending(u)
        /\ UNCHANGED <<exists, members, online, asked, session, plan, group, names, shown, told, acts>>
    BY <1>10 DEF MakeList, tables, hubVars
  <2>3. \A G \in SUBSET Groups :
          [to |-> v, groups |-> G] \in [to : Users, groups : SUBSET Groups] \cup {Nothing}
    BY <1>u, <2>1
  <2>5. /\ out' \in [Users -> [to : Users, groups : SUBSET Groups] \cup {Nothing}]
        /\ \A w \in Users \ {u} : out'[w] = out[w]
        /\ missed' \subseteq Users
    <3>1. out \in [Users -> [to : Users, groups : SUBSET Groups] \cup {Nothing}]
      BY DEF TypeOK
    <3> DEFINE L == [to : Users, groups : SUBSET Groups] \cup {Nothing}
    <3>2. PICK x \in L : out' = [out EXCEPT ![u] = x]
      BY <2>1, <2>3
    <3>3. missed' \subseteq Users
      BY <1>u, <1>b, <2>1
    <3> HIDE DEF L
    <3> QED BY <3>1, <3>2, <3>3 DEF L
  <2>6. todo' \in [Users -> SUBSET Users] /\ \A w \in Users \ {u} : todo'[w] = todo[w]
    BY <1>b, <2>1
  <2>7. \A w \in Users : Phase(w)' = Phase(w)
    BY <2>2 DEF Phase
  <2>8. TypeOK'
    BY <2>2, <2>5, <2>6, <2>7 DEF TypeOK, Sending
  <2> QED BY <2>2, <2>6, <2>7, <2>8 DEF Working, Sending
<1>11. CASE SendList(u)
  <2>1. /\ Sending(u) /\ out[u] # Nothing /\ out' = [out EXCEPT ![u] = Nothing]
        /\ UNCHANGED <<exists, members, online, asked, session, plan, group, names, todo, acts>>
    BY <1>11 DEF SendList, tables, hubVars
  <2>2. out[u].to \in Users /\ out[u].groups \in SUBSET Groups
    BY <2>1 DEF TypeOK
  <2>3. /\ shown' \in [Users -> SUBSET Groups] /\ told' \in [Users -> BOOLEAN]
        /\ missed' \subseteq Users
    <3>1. shown \in [Users -> SUBSET Groups] /\ told \in [Users -> BOOLEAN]
      BY DEF TypeOK
    <3> QED BY <1>11, <1>b, <2>2, <3>1 DEF SendList
  <2>4. /\ out' \in [Users -> [to : Users, groups : SUBSET Groups] \cup {Nothing}]
        /\ out'[u] = Nothing /\ \A w \in Users \ {u} : out'[w] = out[w]
    BY <2>1 DEF TypeOK
  <2>5. \A w \in Users : Phase(w)' = Phase(w)
    BY <2>1 DEF Phase
  <2>6. TypeOK'
    BY <2>1, <2>3, <2>4, <2>5 DEF TypeOK, Sending
  <2> QED BY <2>1, <2>5, <2>6 DEF Working
<1> QED BY <1>1, <1>3, <1>4, <1>5, <1>6, <1>7, <1>8, <1>9, <1>10, <1>11 DEF HandlerStep

LEMMA NextTypes == TypeOK /\ Working /\ [Next]_vars => TypeOK' /\ Working'
<1> SUFFICES ASSUME TypeOK, Working, [Next]_vars PROVE TypeOK' /\ Working'
  OBVIOUS
<1>1. CASE HubStep
  <2>1. /\ asked' \subseteq asked /\ online' \subseteq Users
        /\ UNCHANGED <<exists, members, session, plan, group, names, todo, out, shown, told, missed, acts>>
    BY <1>1 DEF HubStep, TypeOK, tables, handlerVars, clientVars
  <2>2. \A w \in Users : Phase(w)' = Phase(w)
    BY <2>1 DEF Phase
  <2> QED BY <2>1, <2>2 DEF TypeOK, Working, Sending
<1>2. CASE Crash
  <2>1. \A w \in Users : plan'[w] = <<>> /\ Phase(w)' = "none" /\ Ordered(plan'[w])
    BY <1>2, NewPlans DEF Crash, Phase
  <2>2. plan' \in [Users -> Seq(Plans)]
    BY <1>2, Singles DEF Crash
  <2>3. acts' \in 0 .. MaxActs
    <3>1. acts \in 0 .. MaxActs /\ MaxActs \in Nat
      BY GroupsAssumption DEF TypeOK
    <3> QED BY <1>2, <3>1 DEF Crash, Act
  <2>4. /\ online' = {} /\ asked' = {} /\ session' = {}
        /\ todo' = [w \in Users |-> {}] /\ out' = [w \in Users |-> Nothing]
        /\ UNCHANGED <<exists, members, group, names, shown, told, missed>>
    BY <1>2 DEF Crash, tables, clientVars
  <2>5. TypeOK'
    BY <2>1, <2>2, <2>3, <2>4 DEF TypeOK, Sending
  <2> QED BY <2>1, <2>5 DEF Working
<1>3. CASE UNCHANGED vars
  BY <1>3 DEF vars, tables, hubVars, handlerVars, clientVars, TypeOK, Working, Sending, Phase
<1> QED BY <1>1, <1>2, <1>3, ClientTypes, HandlerTypes DEF Next

(* Every variable holds what the code can put there, and members belong to  *)
(* groups that exist although creation inserts them one by one.             *)
THEOREM TypeCorrect == Spec => []TypeOK
BY InitTypes, NextTypes, PTL DEF Spec

-----------------------------------------------------------------------------
(* Who is owed a list. *)

(* A handler owes nobody anything when it begins. *)
LEMMA NothingOwed ==
  ASSUME TypeOK, NEW u \in Users, plan[u] = <<>>, NEW v
  PROVE  ~Owes(u, v)
BY Singles DEF Owes, Sending, Phase

LEMMA NotNothing ==
  \A v \in session : TypeOK => [to |-> v, groups |-> GroupsOf(v)] # Nothing
<1> SUFFICES ASSUME NEW v \in session, TypeOK, [to |-> v, groups |-> GroupsOf(v)] = Nothing
             PROVE  FALSE
  OBVIOUS
<1>1. [to |-> v, groups |-> GroupsOf(v)].to = v /\ Nothing.to = NoUser
  BY DEF Nothing
<1> QED BY <1>1, GroupsAssumption DEF TypeOK

(* What w's handler owes v it goes on owing while others work, except when   *)
(* v's own rows change.                                                      *)
LEMMA StillOwed ==
  ASSUME NEW w \in Users, NEW v \in Users, Owes(w, v),
         UNCHANGED <<plan[w], names[w], todo[w], out[w], group[w]>>,
         GroupsOf(v)' = GroupsOf(v),
         Phase(w) = "members" /\ v \in members[group[w]] => v \in members'[group[w]]
  PROVE  Owes(w, v)'
<1>1. Phase(w)' = Phase(w)
  BY DEF Phase
<1>2. (Sending(w) <=> Sending(w)') /\ (v \in Addressees(w) => v \in Addressees(w)')
  BY <1>1 DEF Sending, Addressees
<1>3. CASE Sending(w) /\ (v \in todo[w] \/ out[w] = [to |-> v, groups |-> GroupsOf(v)])
  BY <1>2, <1>3 DEF Owes
<1>4. CASE "notify" \in Range(plan[w]) /\ v \in Addressees(w)
  BY <1>2, <1>4 DEF Owes
<1>5. CASE w = v /\ "own" \in Range(plan[w])
  BY <1>5 DEF Owes
<1> QED BY <1>3, <1>4, <1>5 DEF Owes

(* One handler's step keeps the invariant, when the rows that change are     *)
(* those of somebody it owes a list, and what it no longer owes was sent or  *)
(* failed to reach its addressee.                                            *)
LEMMA OneStep ==
  ASSUME TypeOK, Working, Owed, NEW u \in Users,
         session' \subseteq session,
         \A w \in Users \ {u} : UNCHANGED <<plan[w], names[w], todo[w], out[w], group[w]>>,
         missed \subseteq missed',
         \A v \in session :
           \/ Owes(u, v)' \/ v \in missed' \/ told'[v]
           \/ /\ GroupsOf(v)' = GroupsOf(v) /\ (told[v] => told'[v])
              /\ \A g \in Groups : v \in members[g] => v \in members'[g]
              /\ ~Owes(u, v)
  PROVE  Owed'
<1> SUFFICES ASSUME NEW v \in session, ~told'[v], v \notin missed', ~Owes(u, v)'
             PROVE  \E w \in Users : Owes(w, v)'
  BY DEF Owed
<1>1. /\ GroupsOf(v)' = GroupsOf(v) /\ ~told[v]
      /\ \A g \in Groups : v \in members[g] => v \in members'[g]
      /\ v \notin missed /\ v \in Users
  BY DEF TypeOK
<1>2. PICK w \in Users \ {u} : Owes(w, v)
  BY <1>1 DEF Owed
<1>3. Phase(w) = "members" => group[w] \in Groups
  BY DEF Working
<1>4. Owes(w, v)'
  BY <1>1, <1>2, <1>3, StillOwed
<1> QED BY <1>4

LEMMA ClientOwed ==
  ASSUME TypeOK, Working, Owed, NEW u \in Users, ClientStep(u)
  PROVE  Owed'
<1>1. CASE Login(u)
  <2>1. /\ session' = session \cup {u} /\ plan[u] = <<>> /\ missed' = missed \ {u}
        /\ plan'[u] = <<"all", "own">> /\ \A w \in Users \ {u} : plan'[w] = plan[w]
        /\ \A w \in Users \ {u} : told'[w] = told[w]
        /\ UNCHANGED <<members, names, todo, out, group>>
    BY <1>1 DEF Login, TypeOK, tables
  <2>2. Owes(u, u)'
    BY <2>1, NewPlans DEF Owes
  <2>3. ASSUME NEW v \in session \ {u}, ~told'[v], v \notin missed' PROVE \E w \in Users : Owes(w, v)'
    <3>1. v \in Users /\ ~told[v] /\ v \notin missed
      BY <2>1, <2>3 DEF TypeOK
    <3>2. PICK w \in Users \ {u} : Owes(w, v)
      BY <2>1, <3>1, NothingOwed DEF Owed
    <3>3. GroupsOf(v)' = GroupsOf(v)
      BY <2>1 DEF GroupsOf
    <3> QED BY <2>1, <3>1, <3>2, <3>3, StillOwed
  <2> QED BY <2>1, <2>2, <2>3 DEF Owed
<1>2. ASSUME UNCHANGED <<members, told>>, session' \subseteq session, missed \subseteq missed',
             \A w \in Users \ {u} : UNCHANGED <<plan[w], names[w], todo[w], out[w], group[w]>>,
             plan[u] = <<>>
      PROVE  Owed'
  <2>1. \A v : ~Owes(u, v) /\ GroupsOf(v)' = GroupsOf(v)
    BY <1>2, NothingOwed DEF GroupsOf
  <2> QED BY <1>2, <2>1, OneStep
<1>3. CASE Logout(u)
  BY <1>2, <1>3 DEF Logout, TypeOK, tables, clientVars
<1>4. CASE UserListReq(u)
  BY <1>2, <1>4 DEF UserListReq, Request, TypeOK, tables
<1>5. ASSUME NEW g \in Groups, NEW M \in SUBSET (Users \ {u}), CreateGroup(u, g, M) PROVE Owed'
  BY <1>2, <1>5 DEF CreateGroup, Request, TypeOK
<1>6. ASSUME NEW g \in Groups, NEW v \in Users, NEW in \in BOOLEAN, Row(g, v, in),
             in => g \in exists, UNCHANGED <<names, todo>>,
             NEW p, Request(u, g, p), plan'[u] = p, group'[u] = g, Owes(u, v)'
      PROVE  Owed'
  <2>1. /\ \A w \in Users \ {v} : told'[w] = told[w] /\ GroupsOf(w)' = GroupsOf(w)
        /\ \A h \in Groups : members[h] \ {v} \subseteq members'[h]
    BY <1>6, Rows
  <2>2. \A w \in Users \ {u} : UNCHANGED <<plan[w], names[w], todo[w], out[w], group[w]>>
    BY <1>6 DEF Request, TypeOK
  <2>3. plan[u] = <<>> /\ session' = session /\ missed' = missed
    BY <1>6 DEF Request
  <2>4. \A w \in session : w \in Users /\ ~Owes(u, w)
    BY <2>3, NothingOwed DEF TypeOK
  <2>5. ASSUME NEW w \in session
        PROVE  \/ Owes(u, w)' \/ w \in missed' \/ told'[w]
               \/ /\ GroupsOf(w)' = GroupsOf(w) /\ (told[w] => told'[w])
                  /\ \A h \in Groups : w \in members[h] => w \in members'[h]
                  /\ ~Owes(u, w)
    BY <1>6, <2>1, <2>4
  <2> QED BY <2>2, <2>3, <2>5, OneStep
<1>7. ASSUME NEW g \in Groups, Rejoin(u, g) PROVE Owed'
  <2> DEFINE p == <<"members", "announce", "notify">>
  <2>1. Ordered(p) /\ p # <<>> /\ Head(p) = "members" /\ "notify" \in Range(p)
    BY NewPlans
  <2>2. Request(u, g, p) /\ Row(g, u, TRUE) /\ UNCHANGED <<names, todo>> /\ g \in exists
    BY <1>7 DEF Rejoin
  <2> HIDE DEF p
  <2>3. plan'[u] = p /\ Phase(u)' = "members" /\ group'[u] = g /\ u \in members'[g]
    <3>1. plan'[u] = p /\ Phase(u)' = "members" /\ group' = [group EXCEPT ![u] = g]
      BY <2>1, <2>2, Requested
    <3>2. group \in [Users -> Groups \cup {""}]
      BY DEF TypeOK
    <3>3. u \in members'[g]
      BY <2>2, Rows
    <3> QED BY <3>1, <3>2, <3>3
  <2>4. Owes(u, u)'
    BY <2>1, <2>3 DEF Owes, Addressees
  <2> QED BY <1>6, <2>2, <2>3, <2>4
<1>8. ASSUME NEW g \in Groups, LeaveGroup(u, g) PROVE Owed'
  <2> DEFINE p == <<"members", "notify", "announce", "own">>
  <2>1. Ordered(p) /\ p # <<>> /\ Head(p) = "members" /\ "own" \in Range(p)
    BY NewPlans
  <2>2. Request(u, g, p) /\ Row(g, u, FALSE) /\ UNCHANGED <<names, todo>>
    BY <1>8 DEF LeaveGroup
  <2> HIDE DEF p
  <2>3. plan'[u] = p /\ group'[u] = g
    <3>1. plan'[u] = p /\ group' = [group EXCEPT ![u] = g]
      BY <2>1, <2>2, Requested
    <3>2. group \in [Users -> Groups \cup {""}]
      BY DEF TypeOK
    <3> QED BY <3>1, <3>2
  <2>4. Owes(u, u)'
    BY <2>1, <2>3 DEF Owes
  <2> QED BY <1>6, <2>2, <2>3, <2>4
<1>9. ASSUME NEW g \in Groups, NEW v \in Users, AddToGroup(u, g, v) PROVE Owed'
  <2> DEFINE p == <<"members", "notify", "announce">>
  <2>1. Ordered(p) /\ p # <<>> /\ Head(p) = "members" /\ "notify" \in Range(p)
    BY NewPlans
  <2>2. Request(u, g, p) /\ Row(g, v, TRUE) /\ UNCHANGED <<names, todo>> /\ g \in exists
    BY <1>9 DEF AddToGroup
  <2> HIDE DEF p
  <2>3. plan'[u] = p /\ Phase(u)' = "members" /\ group'[u] = g /\ v \in members'[g]
    <3>1. plan'[u] = p /\ Phase(u)' = "members" /\ group' = [group EXCEPT ![u] = g]
      BY <2>1, <2>2, Requested
    <3>2. group \in [Users -> Groups \cup {""}]
      BY DEF TypeOK
    <3>3. v \in members'[g]
      BY <2>2, Rows
    <3> QED BY <3>1, <3>2, <3>3
  <2>4. Owes(u, v)'
    BY <2>1, <2>3 DEF Owes, Addressees
  <2> QED BY <1>6, <2>2, <2>3, <2>4
<1> QED BY <1>1, <1>3, <1>4, <1>5, <1>7, <1>8, <1>9 DEF ClientStep

LEMMA HandlerOwed ==
  ASSUME TypeOK, Working, Owed, NEW u \in Users, HandlerStep(u)
  PROVE  Owed'
<1>u. plan[u] = <<>> <=> Phase(u) = "none"
  <2>1. plan[u] # <<>> => Head(plan[u]) \in Plans
    BY HeadTailProperties DEF Working, Ordered
  <2> QED BY <2>1 DEF Phase, Plans
<1>1. CASE InsertMember(u)
  <2>1. PICK v \in todo[u] : Row(group[u], v, TRUE) \/ UNCHANGED <<members, told>>
    BY <1>1 DEF InsertMember
  <2>2. /\ Phase(u) = "insert" /\ group[u] \in Groups /\ group[u] \in exists
        /\ v \in Users /\ v \in names[u] /\ Ordered(plan[u])
        /\ UNCHANGED <<session, plan, group, names, out, missed>>
        /\ \A w \in Users \ {u} : todo'[w] = todo[w]
    BY <1>1 DEF InsertMember, Working, TypeOK, hubVars
  <2>3. Phase(u)' = Phase(u) /\ "notify" \in Range(plan[u])
    <3>1. plan[u] # <<>> /\ Head(plan[u]) = "insert"
      BY <1>u, <2>2 DEF Phase
    <3>2. Range(plan[u]) = {Head(plan[u])} \cup Range(Tail(plan[u]))
      BY <2>2, <3>1, RangeOfRest DEF Ordered
    <3>3. Phase(u)' = Phase(u)
      BY <2>2 DEF Phase
    <3> QED BY <2>2, <3>1, <3>2, <3>3 DEF Ordered
  <2>4. \A w \in names[u] : Owes(u, w)'
    BY <2>2, <2>3 DEF Owes, Addressees
  <2>5. \A w : Owes(u, w) => Owes(u, w)'
    BY <2>2, <2>3, <2>4 DEF Owes, Addressees, Sending
  <2>6. CASE Row(group[u], v, TRUE)
    <3>1. \A w \in session \ {v} : /\ GroupsOf(w)' = GroupsOf(w) /\ told'[w] = told[w]
                                   /\ \A g \in Groups : w \in members[g] => w \in members'[g]
      BY <2>2, <2>6, Rows DEF TypeOK
    <3> QED BY <2>2, <2>4, <2>5, <3>1, OneStep
  <2>7. CASE UNCHANGED <<members, told>>
    BY <2>2, <2>5, <2>7, OneStep DEF GroupsOf
  <2> QED BY <2>1, <2>6, <2>7
<1>2. ASSUME UNCHANGED <<members, told, session, group>>, missed \subseteq missed',
             \A w \in Users \ {u} : UNCHANGED <<plan[w], names[w], todo[w], out[w]>>,
             \A v \in session : Owes(u, v) => Owes(u, v)' \/ v \in missed'
      PROVE  Owed'
  BY <1>2, OneStep DEF GroupsOf
<1>3. ASSUME NEW q \in {<<>>, <<"send">>, <<"reply">>}, Proceed(u, q), plan[u] # <<>>,
             UNCHANGED <<members, told, session, group, out>>, missed \subseteq missed',
             \A w \in Users \ {u} : UNCHANGED <<names[w], todo[w]>>,
             ~Sending(u) \/ (out[u] = Nothing /\ todo[u] = {}),
             Phase(u) = "notify" =>
               Sending(u)' /\ \A v \in names[u] : v \in todo'[u] \/ v \in missed',
             \A v \in Addressees(u) : v \in names'[u] \/ v \in missed',
             Phase(u) = "own" => Sending(u)' /\ u \in todo'[u]
      PROVE  Owed'
  <2>1. /\ \A w \in Users \ {u} : plan'[w] = plan[w]
        /\ \A x \in Range(plan[u]) : x # Phase(u) => x \in Range(plan'[u])
        /\ IF q = <<>> THEN Phase(u)' \notin {"insert", "members", "send", "reply"}
                      ELSE Phase(u)' = Head(q)
    BY <1>3, Proceeds
  <2>a. Phase(u)' # "members"
    BY <2>1
  <2>2. \A v \in names'[u] : v \in Addressees(u)'
    BY <2>a DEF Addressees
  <2>3. ASSUME NEW v \in session, Owes(u, v), v \notin missed' PROVE Owes(u, v)'
    <3>1. ~(Sending(u) /\ (v \in todo[u] \/ out[u] = [to |-> v, groups |-> GroupsOf(v)]))
      BY <1>3, NotNothing
    <3>2. CASE "notify" \in Range(plan[u]) /\ v \in Addressees(u)
      <4>1. CASE Phase(u) = "notify"
        BY <1>3, <2>3, <3>2, <4>1 DEF Owes, Addressees
      <4>2. CASE Phase(u) # "notify"
        BY <1>3, <2>1, <2>2, <2>3, <3>2, <4>2 DEF Owes
      <4> QED BY <4>1, <4>2
    <3>3. CASE u = v /\ "own" \in Range(plan[u])
      BY <1>3, <2>1, <3>3 DEF Owes
    <3> QED BY <2>3, <3>1, <3>2, <3>3 DEF Owes
  <2> QED BY <1>2, <1>3, <2>1, <2>3
<1>t. /\ names \in [Users -> SUBSET Users] /\ todo \in [Users -> SUBSET Users]
      /\ Sending(u) <=> Phase(u) \in {"send", "reply"}
  BY DEF TypeOK, Sending
<1>4. CASE Inserted(u)
  BY <1>3, <1>4, <1>u DEF Inserted, Sending, Addressees, tables, hubVars, clientVars
<1>5. CASE ReadMembers(u)
  BY <1>3, <1>5, <1>t, <1>u DEF ReadMembers, Sending, Addressees, tables, hubVars
<1>6. CASE Notify(u)
  <2>1. /\ Proceed(u, <<"send">>) /\ Phase(u) = "notify" /\ plan[u] # <<>> /\ ~Sending(u)
        /\ UNCHANGED <<members, told, session, group, out, names>>
        /\ missed' = missed \cup (names[u] \ online) /\ todo' = [todo EXCEPT ![u] = names[u] \cap online]
    BY <1>6, <1>u DEF Notify, Sending, tables, hubVars
  <2>2. Sending(u)'
    BY <2>1, Proceeds, Singles DEF Sending
  <2> QED BY <1>3, <1>t, <2>1, <2>2 DEF Addressees
<1>7. CASE Broadcast(u)
  BY <1>3, <1>7, <1>t, <1>u DEF Broadcast, Sending, Addressees, tables, hubVars, clientVars
<1>8. CASE OwnList(u)
  <2>1. /\ Proceed(u, <<"reply">>) /\ Phase(u) = "own" /\ plan[u] # <<>> /\ ~Sending(u)
        /\ UNCHANGED <<members, told, session, group, out, names, missed>>
        /\ todo' = [todo EXCEPT ![u] = {u}]
    BY <1>8, <1>u DEF OwnList, Sending, tables, hubVars, clientVars
  <2>2. Sending(u)'
    BY <2>1, Proceeds, Singles DEF Sending
  <2> QED BY <1>3, <1>t, <2>1, <2>2 DEF Addressees
<1>9. CASE Announce(u)
  BY <1>3, <1>9, <1>u DEF Announce, Sending, Addressees, tables, hubVars, clientVars
<1>10. CASE Sent(u)
  <2>1. /\ Proceed(u, <<>>) /\ Phase(u) \in {"send", "reply"} /\ out[u] = Nothing /\ todo[u] = {}
        /\ UNCHANGED <<members, told, session, group, out, names, todo, missed>>
    BY <1>10, <1>t DEF Sent, tables, hubVars, clientVars
  <2> QED BY <1>3, <1>u, <2>1 DEF Addressees
<1>11. CASE MakeList(u)
  <2>1. PICK v \in todo[u], S \in SUBSET Groups :
          /\ todo' = [todo EXCEPT ![u] = @ \ {v}]
          /\ out' = [out EXCEPT ![u] = [to |-> v, groups |-> S]]
          /\ missed' = IF S = GroupsOf(v) THEN missed ELSE missed \cup {v}
    BY <1>11 DEF MakeList, GroupsOf
  <2>2. /\ Sending(u) /\ out[u] = Nothing /\ v \in Users
        /\ UNCHANGED <<members, session, plan, group, names, told>>
        /\ out \in [Users -> [to : Users, groups : SUBSET Groups] \cup {Nothing}]
    BY <1>11 DEF MakeList, TypeOK, tables, hubVars
  <2>3. /\ Sending(u)' /\ Phase(u)' = Phase(u) /\ Addressees(u)' = Addressees(u)
        /\ \A w : GroupsOf(w)' = GroupsOf(w)
    BY <2>2 DEF Sending, Phase, Addressees, GroupsOf
  <2>4. /\ \A w \in Users \ {u} : UNCHANGED <<todo[w], out[w]>>
        /\ todo'[u] = todo[u] \ {v}
        /\ out'[u] = [to |-> v, groups |-> GroupsOf(v)] \/ v \in missed'
        /\ missed \subseteq missed'
    BY <1>t, <2>1, <2>2
  <2>5. ASSUME NEW w \in session, Owes(u, w), w \notin missed' PROVE Owes(u, w)'
    <3>1. w \in Users /\ out[u] # [to |-> w, groups |-> GroupsOf(w)]
      BY <2>2, NotNothing DEF TypeOK
    <3> QED BY <2>2, <2>3, <2>4, <2>5, <3>1 DEF Owes
  <2> QED BY <1>2, <2>2, <2>4, <2>5
<1>12. CASE SendList(u)
  <2>1. /\ Sending(u) /\ out[u] # Nothing /\ out' = [out EXCEPT ![u] = Nothing]
        /\ UNCHANGED <<members, session, plan, group, names, todo>>
        /\ missed \subseteq missed'
    BY <1>12 DEF SendList, tables, hubVars
  <2>2. out[u].to \in Users /\ told \in [Users -> BOOLEAN]
    BY <2>1 DEF TypeOK
  <2>3. \A w \in Users : told[w] => told'[w]
    BY <1>12, <2>2 DEF SendList
  <2>4. ASSUME NEW w, w \in Users, out[u] = [to |-> w, groups |-> GroupsOf(w)]
        PROVE  told'[w] \/ w \in missed'
    <3>1. out[u].to = w /\ out[u].groups = GroupsOf(w)
      BY <2>4
    <3> QED BY <1>12, <2>2, <3>1 DEF SendList
  <2>5. /\ Sending(u)' /\ Addressees(u)' = Addressees(u)
        /\ \A w : GroupsOf(w)' = GroupsOf(w)
    BY <2>1 DEF Sending, Phase, Addressees, GroupsOf
  <2>6. \A w \in session : w \in Users /\ (Owes(u, w) => Owes(u, w)' \/ told'[w] \/ w \in missed')
    BY <2>1, <2>4, <2>5 DEF Owes, TypeOK
  <2>7. \A w \in Users \ {u} : UNCHANGED <<plan[w], names[w], todo[w], out[w], group[w]>>
    BY <2>1 DEF TypeOK
  <2> QED BY <2>1, <2>3, <2>5, <2>6, <2>7, OneStep
<1> QED BY <1>1, <1>4, <1>5, <1>6, <1>7, <1>8, <1>9, <1>10, <1>11, <1>12 DEF HandlerStep

LEMMA NextOwed == TypeOK /\ Working /\ Owed /\ [Next]_vars => Owed'
<1> SUFFICES ASSUME TypeOK, Working, Owed, [Next]_vars PROVE Owed'
  OBVIOUS
<1>1. CASE HubStep \/ UNCHANGED vars
  <2>1. UNCHANGED <<members, session, plan, group, names, todo, out, told, missed>>
    BY <1>1 DEF HubStep, vars, tables, hubVars, handlerVars, clientVars
  <2>2. \A u, v : Owes(u, v)' <=> Owes(u, v)
    BY <2>1 DEF Owes, Sending, Phase, Addressees, GroupsOf
  <2> QED BY <2>1, <2>2 DEF Owed
<1>2. CASE Crash
  BY <1>2 DEF Crash, Owed
<1> QED BY <1>1, <1>2, ClientOwed, HandlerOwed DEF Next

(* "sends a fresh UserListResp to each online group member" (client_handler. *)
(* go:330): when the handlers are done, whoever's groups changed was sent    *)
(* the list of the groups he now has, or missed it for a reason the code     *)
(* accepts.  Until then one of them owes it to him.                          *)
THEOREM ChangesReachTheirMembers == Spec => []ChangesAreTold
<1>1. Init => Owed
  BY DEF Init, Owed
<1>2. Owed /\ TypeOK => ChangesAreTold
  <2> SUFFICES ASSUME Owed, TypeOK, Quiet, NEW u \in session PROVE told[u] \/ u \in missed
    BY DEF ChangesAreTold
  <2>1. \A w \in Users : ~Owes(w, u)
    BY NothingOwed DEF Quiet
  <2> QED BY <2>1 DEF Owed
<1> QED BY <1>1, <1>2, InitTypes, NextTypes, NextOwed, PTL DEF Spec
=============================================================================
