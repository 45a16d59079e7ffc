-------------------------- MODULE AccountsProofs --------------------------
(***************************************************************************)
(* Accounts for any set of users and any number of sessions.  TypeOK and   *)
(* ActiveListed are inductive together; the two action properties follow   *)
(* from TypeOK.  Then the tree: what its functions do to search trees, by  *)
(* induction on the height, and that the server's tree is the set it       *)
(* stands for.                                                             *)
(***************************************************************************)
EXTENDS IndexedAccounts, SequenceTheorems, FiniteSetTheorems, Induction, TLAPS

States == [at : {"index", "serving", "remove"}, user : Users]

(* What Move does to the other sessions, and to who is busy. *)
LEMMA MoveFacts ==
  ASSUME TypeOK, NEW s \in Sessions, NEW from, NEW to \in {Idle} \cup States,
         Move(s, from, to)
  PROVE  /\ session' \in [Sessions -> {Idle} \cup States]
         /\ session'[s] = to
         /\ \A t \in Sessions \ {s} : session'[t] = session[t]
BY DEF TypeOK, Move, States

(* The states of a handler are pairwise different. *)
LEMMA Distinct ==
  ASSUME NEW u \in Users, NEW v \in Users
  PROVE  /\ At("index", u) \in States /\ At("serving", u) \in States
         /\ At("remove", u) \in States
         /\ At("index", u) # Idle /\ At("serving", u) # Idle /\ At("remove", u) # Idle
         /\ At("index", u) # At("remove", v) /\ At("serving", u) # At("remove", v)
         /\ At("index", u) # At("serving", v)
         /\ At("remove", u).user = u /\ At("index", u).user = u /\ At("serving", u).user = u
         /\ At("remove", u) = At("remove", v) => u = v
         /\ At("index", u) = At("index", v) => u = v
BY DEF At, Idle, States

LEMMA InitInv == Init => TypeOK /\ ActiveListed
<1> SUFFICES ASSUME Init PROVE TypeOK /\ ActiveListed
  OBVIOUS
<1>1. \A v \in Users : ~Busy(v, "remove")
  BY Distinct DEF Init, Busy
<1> QED BY <1>1 DEF Init, TypeOK, ActiveListed

(* Who is being removed after a step of s that does not start a removal. *)
LEMMA RemoversStay ==
  ASSUME TypeOK, NEW s \in Sessions, NEW from, NEW to \in {Idle} \cup States,
         Move(s, from, to), \A v \in Users : to # At("remove", v)
  PROVE  \A v \in Users : Busy(v, "remove")' => Busy(v, "remove")
BY MoveFacts DEF Busy, At

LEMMA NextType == TypeOK /\ [Next]_vars => TypeOK'
<1> SUFFICES ASSUME TypeOK, [Next]_vars PROVE TypeOK'
  OBVIOUS
<1>0. ASSUME UNCHANGED vars PROVE TypeOK'
  BY <1>0 DEF vars, TypeOK, Busy
<1>1. ASSUME Start PROVE TypeOK'
  BY <1>1 DEF Start, Preload, Enabled, TypeOK, Busy
<1>2. ASSUME Crash PROVE TypeOK'
  BY <1>2, Distinct DEF Crash, TypeOK, Busy
<1>3. ASSUME NEW s \in Sessions, NEW u \in Users, CreateUser(s, u) PROVE TypeOK'
  BY <1>3, MoveFacts, RemoversStay, Distinct DEF CreateUser, TypeOK, States
<1>4. ASSUME NEW s \in Sessions, NEW u \in Users, CheckPassword(s, u) PROVE TypeOK'
  BY <1>4, MoveFacts, RemoversStay, Distinct DEF CheckPassword, TypeOK, States
<1>5. ASSUME NEW s \in Sessions, NEW u \in Users, RegisterUser(s, u) PROVE TypeOK'
  <2>1. Move(s, At("index", u), At("serving", u))
    BY <1>5 DEF RegisterUser
  <2>2. row[u] # "none"
    BY <2>1, Distinct DEF Move, TypeOK
  <2>3. /\ session' \in [Sessions -> {Idle} \cup States]
        /\ session'[s] = At("serving", u)
        /\ \A t \in Sessions \ {s} : session'[t] = session[t]
    BY <2>1, MoveFacts, Distinct
  <2>4. \A v \in Users : Busy(v, "remove")' => Busy(v, "remove")
    BY <2>1, RemoversStay, Distinct
  <2>5. up /\ \A t \in Sessions : session'[t] # Idle => row[session'[t].user] # "none"
    BY <2>1, <2>2, <2>3, Distinct DEF Move, TypeOK
  <2> QED BY <1>5, <2>2, <2>3, <2>4, <2>5 DEF RegisterUser, TypeOK, States
<1>6. ASSUME NEW s \in Sessions, NEW u \in Users, SoftDeleteUser(s, u) PROVE TypeOK'
  <2>1. Move(s, At("serving", u), At("remove", u))
    BY <1>6 DEF SoftDeleteUser
  <2>2. /\ session' \in [Sessions -> {Idle} \cup States]
        /\ session'[s] = At("remove", u)
        /\ \A t \in Sessions \ {s} : session'[t] = session[t]
    BY <2>1, MoveFacts, Distinct
  <2>3. row' \in [Users -> {"none", "active", "deleted"}] /\ row'[u] = "deleted"
    BY <1>6 DEF SoftDeleteUser, TypeOK
  <2>4. \A v \in Users : row[v] # "none" => row'[v] # "none"
    BY <1>6 DEF SoftDeleteUser, TypeOK
  <2>5. \A v \in Users : Busy(v, "remove")' => row'[v] = "deleted"
    <3> SUFFICES ASSUME NEW v \in Users, NEW t \in Sessions, session'[t] = At("remove", v)
                 PROVE  row'[v] = "deleted"
      BY DEF Busy, At
    <3>1. CASE t = s
      BY <3>1, <2>2, <2>3, Distinct
    <3>2. CASE t # s
      <4>1. session[t] = At("remove", v)
        BY <3>2, <2>2
      <4>2. row[v] = "deleted"
        BY <4>1 DEF TypeOK, Busy
      <4> QED BY <4>2, <1>6 DEF SoftDeleteUser, TypeOK
    <3> QED BY <3>1, <3>2
  <2>6. \A t \in Sessions : session'[t] # Idle => up' /\ row'[session'[t].user] # "none"
    BY <1>6, <2>1, <2>2, <2>3, <2>4, Distinct DEF SoftDeleteUser, Move, TypeOK, States
  <2> QED BY <1>6, <2>2, <2>3, <2>4, <2>5, <2>6 DEF SoftDeleteUser, TypeOK, States
<1>7. ASSUME NEW s \in Sessions, NEW u \in Users, RemoveUser(s, u) PROVE TypeOK'
  BY <1>7, MoveFacts, RemoversStay, Distinct DEF RemoveUser, TypeOK, States
<1>8. ASSUME NEW s \in Sessions, NEW u \in Users, Logout(s, u) PROVE TypeOK'
  BY <1>8, MoveFacts, RemoversStay, Distinct DEF Logout, TypeOK, States
<1> QED BY <1>0, <1>1, <1>2, <1>3, <1>4, <1>5, <1>6, <1>7, <1>8 DEF Next

(* Whatever the sessions do, the table and the handlers stay consistent with *)
(* each other and with the listing.                                          *)
THEOREM TypeCorrect == Spec => []TypeOK
BY InitInv, NextType, PTL DEF Spec

-----------------------------------------------------------------------------
(* Who is on the way into the index after a step of s that comes from        *)
(* elsewhere.                                                                *)
LEMMA EnterersStay ==
  ASSUME TypeOK, NEW s \in Sessions, NEW from, NEW to \in {Idle} \cup States,
         Move(s, from, to), \A v \in Users : from # At("index", v)
  PROVE  \A v \in Users : Busy(v, "index") => Busy(v, "index")'
<1> SUFFICES ASSUME NEW v \in Users, NEW t \in Sessions, session[t] = At("index", v)
             PROVE  session'[t] = At("index", v)
  BY DEF Busy, At
<1>1. t # s
  BY DEF Move
<1> QED BY <1>1, MoveFacts

LEMMA NextActive == TypeOK /\ ActiveListed /\ [Next]_vars => ActiveListed'
<1> SUFFICES ASSUME TypeOK, ActiveListed, [Next]_vars, up', preloaded', NEW u \in Users,
                    row'[u] = "active"
             PROVE  u \in listed' \/ Busy(u, "index")'
  BY DEF ActiveListed, Enabled
<1>0. CASE UNCHANGED vars
  BY <1>0 DEF vars, ActiveListed, Enabled, Busy
<1>1. CASE Start
  BY <1>1 DEF Start, Preload, Enabled
<1>2. CASE Crash
  BY <1>2 DEF Crash
<1>3. ASSUME NEW s \in Sessions, NEW v \in Users, CreateUser(s, v)
      PROVE  u \in listed' \/ Busy(u, "index")'
  <2>1. CASE u = v
    <3>1. session'[s] = At("index", v)
      BY <1>3, MoveFacts, Distinct DEF CreateUser
    <3> QED BY <3>1, <2>1 DEF Busy, At
  <2>2. CASE u # v
    <3>1. u \in listed \/ Busy(u, "index")
      BY <1>3, <2>2 DEF CreateUser, ActiveListed, Enabled, TypeOK
    <3>2. Busy(u, "index") => Busy(u, "index")'
      BY <1>3, EnterersStay, Distinct DEF CreateUser
    <3> QED BY <3>1, <3>2, <1>3 DEF CreateUser
  <2> QED BY <2>1, <2>2
<1>4. ASSUME NEW s \in Sessions, NEW v \in Users, CheckPassword(s, v) \/ Logout(s, v)
      PROVE  u \in listed' \/ Busy(u, "index")'
  <2>1. u \in listed \/ Busy(u, "index")
    BY <1>4 DEF CheckPassword, Logout, ActiveListed, Enabled
  <2>2. CheckPassword(s, v) => (Busy(u, "index") => Busy(u, "index")')
    BY EnterersStay, Distinct DEF CheckPassword
  <2>3. Logout(s, v) => (Busy(u, "index") => Busy(u, "index")')
    BY EnterersStay, Distinct DEF Logout
  <2> QED BY <2>1, <2>2, <2>3, <1>4 DEF CheckPassword, Logout
<1>5. ASSUME NEW s \in Sessions, NEW v \in Users, RegisterUser(s, v)
      PROVE  u \in listed' \/ Busy(u, "index")'
  <2>1. CASE u = v
    BY <1>5, <2>1 DEF RegisterUser
  <2>2. ASSUME u # v, NEW t \in Sessions, session[t] = At("index", u)
        PROVE  session'[t] = At("index", u)
    BY <1>5, <2>2, MoveFacts, Distinct DEF RegisterUser, Move
  <2>3. u \in listed \/ Busy(u, "index")
    BY <1>5 DEF RegisterUser, ActiveListed, Enabled
  <2> QED BY <1>5, <2>1, <2>2, <2>3 DEF RegisterUser, Busy, At
<1>6. ASSUME NEW s \in Sessions, NEW v \in Users, SoftDeleteUser(s, v)
      PROVE  u \in listed' \/ Busy(u, "index")'
  <2>1. u # v /\ row[u] = "active"
    BY <1>6 DEF SoftDeleteUser, TypeOK
  <2>2. u \in listed \/ Busy(u, "index")
    BY <1>6, <2>1 DEF SoftDeleteUser, ActiveListed, Enabled
  <2>3. Busy(u, "index") => Busy(u, "index")'
    BY <1>6, EnterersStay, Distinct DEF SoftDeleteUser
  <2> QED BY <1>6, <2>2, <2>3 DEF SoftDeleteUser
<1>7. ASSUME NEW s \in Sessions, NEW v \in Users, RemoveUser(s, v)
      PROVE  u \in listed' \/ Busy(u, "index")'
  <2>1. row[v] = "deleted" /\ row[u] = "active"
    BY <1>7 DEF RemoveUser, Move, TypeOK, Busy
  <2>2. u \in listed \/ Busy(u, "index")
    BY <1>7, <2>1 DEF RemoveUser, ActiveListed, Enabled
  <2>3. Busy(u, "index") => Busy(u, "index")'
    BY <1>7, EnterersStay, Distinct DEF RemoveUser
  <2> QED BY <1>7, <2>1, <2>2, <2>3 DEF RemoveUser
<1> QED BY <1>0, <1>1, <1>2, <1>3, <1>4, <1>5, <1>6, <1>7 DEF Next

(* Who can log in is listed: deleting and re-entering names by concurrent    *)
(* sessions never loses one.                                                 *)
THEOREM WhoCanLogInIsListed == Spec => []ActiveListed
<1>1. TypeOK /\ ActiveListed /\ [Next]_vars => (TypeOK /\ ActiveListed)'
  BY NextType, NextActive
<1> QED BY <1>1, InitInv, PTL DEF Spec

-----------------------------------------------------------------------------
(* A deleted name enters the index only by a login checked before.           *)
THEOREM DeletedStayOut == Spec => DeletedStaysOut
<1>1. ASSUME TypeOK, [Next]_vars, NEW u \in Users,
             row[u] = "deleted", u \notin listed, ~Busy(u, "index")
      PROVE  u \notin listed'
  <2>1. \A s \in Sessions, v \in Users : RegisterUser(s, v) => u \notin listed'
    BY <1>1 DEF RegisterUser, Move, Busy
  <2>2. CASE UNCHANGED vars \/ Crash
    BY <1>1, <2>2 DEF vars, Crash
  <2>3. CASE Start
    BY <1>1, <2>3 DEF Start, Preload, Enabled
  <2>4. \A s \in Sessions, v \in Users : RemoveUser(s, v) => u \notin listed'
    BY <1>1 DEF RemoveUser
  <2>5. \A s \in Sessions, v \in Users :
          CreateUser(s, v) \/ CheckPassword(s, v) \/ SoftDeleteUser(s, v) \/ Logout(s, v)
            => u \notin listed'
    BY <1>1 DEF CreateUser, CheckPassword, SoftDeleteUser, Logout
  <2> QED BY <1>1, <2>1, <2>2, <2>3, <2>4, <2>5 DEF Next
<1>2. TypeOK /\ [Next]_vars => [\A u \in Users :
        row[u] = "deleted" /\ u \notin listed /\ ~Busy(u, "index") => u \notin listed']_vars
  BY <1>1
<1> QED BY <1>2, TypeCorrect, PTL DEF Spec, DeletedStaysOut

(* A deleted user never gets a new session, over any number of restarts.     *)
THEOREM DeletedUsersCannotLogIn == Spec => NoComeback
<1>1. ASSUME TypeOK, [Next]_vars, NEW u \in Users, row[u] = "deleted", ~Serves(u)
      PROVE  ~Serves(u)'
  <2>0. ASSUME UNCHANGED vars PROVE ~Serves(u)'
    BY <1>1, <2>0 DEF vars, Serves
  <2>1. ASSUME Start PROVE ~Serves(u)'
    BY <1>1, <2>1 DEF Start, Serves
  <2>2. ASSUME Crash PROVE ~Serves(u)'
    BY <2>2 DEF Crash, Serves
  <2>3. ASSUME NEW s \in Sessions, NEW from, NEW to \in {Idle} \cup States,
               Move(s, from, to), to # Idle => to.user # u
        PROVE  ~Serves(u)'
    BY <1>1, <2>3, MoveFacts DEF Serves
  <2>4. ASSUME NEW s \in Sessions, NEW v \in Users, CreateUser(s, v) \/ CheckPassword(s, v)
        PROVE  ~Serves(u)'
    <3>1. v # u
      BY <1>1, <2>4 DEF CreateUser, CheckPassword
    <3> QED BY <2>3, <2>4, <3>1, Distinct DEF CreateUser, CheckPassword
  <2>5. ASSUME NEW s \in Sessions, NEW v \in Users, RegisterUser(s, v) \/ SoftDeleteUser(s, v)
        PROVE  ~Serves(u)'
    <3>1. v # u
      BY <1>1, <2>5, Distinct DEF RegisterUser, SoftDeleteUser, Move, Serves
    <3> QED BY <2>3, <2>5, <3>1, Distinct DEF RegisterUser, SoftDeleteUser
  <2>6. ASSUME NEW s \in Sessions, NEW v \in Users, RemoveUser(s, v) \/ Logout(s, v)
        PROVE  ~Serves(u)'
    BY <2>3, <2>6 DEF RemoveUser, Logout
  <2> QED BY <1>1, <2>0, <2>1, <2>2, <2>4, <2>5, <2>6 DEF Next
<1>2. TypeOK /\ [Next]_vars =>
        [\A u \in Users : row[u] = "deleted" /\ ~Serves(u) => ~Serves(u)']_vars
  BY <1>1
<1> QED BY <1>2, TypeCorrect, PTL DEF Spec, NoComeback

-----------------------------------------------------------------------------
(* The set of trees, and induction over it. *)

Size == Cardinality(Users)
Levels == 0 .. Size

LEMMA Count == Size \in Nat /\ Users = 1 .. Size /\ IsFiniteSet(Users)
BY UsernamesOrdered, FS_CardinalityType DEF Size

(* Tree is the function its definition says: there is one on the first n     *)
(* heights for every n.                                                      *)
LEMMA TreeDef ==
  \A h \in Levels :
    Tree[h] = IF h = 0 THEN {Nil} ELSE {Nil} \cup (Tree[h - 1] \X Users \X Tree[h - 1])
<1> DEFINE B(S)    == {Nil} \cup (S \X Users \X S)
           F(f, n) == [h \in 0 .. n |-> IF h = 0 THEN {Nil} ELSE B(f[h - 1])]
           M == {n \in Nat : \E f : f = F(f, n)}
<1> HIDE DEF B
<1>1. 0 \in M
  <2>1. [h \in 0 .. 0 |-> {Nil}] = F([h \in 0 .. 0 |-> {Nil}], 0)
    OBVIOUS
  <2> QED BY <2>1
<1>2. ASSUME NEW n \in Nat, n \in M PROVE n + 1 \in M
  <2>1. PICK f : f = F(f, n)
    BY <1>2
  <2> DEFINE g == F(f, n + 1)
  <2> DEFINE G(h) == IF h = 0 THEN {Nil} ELSE B(f[h - 1])
  <2>2. \A h \in 0 .. n : f[h] = G(h)
    BY <2>1
  <2>3. \A h \in 0 .. n + 1 : g[h] = G(h)
    OBVIOUS
  <2> HIDE DEF g, G
  <2>4. \A h \in 0 .. n : g[h] = f[h]
    BY <2>2, <2>3
  <2>5. \A h \in 0 .. n + 1 : h # 0 => g[h - 1] = f[h - 1]
    BY <2>4
  <2>6. F(g, n + 1) = F(f, n + 1)
    BY <2>5
  <2> HIDE DEF F
  <2>7. g = F(g, n + 1)
    BY <2>6 DEF g
  <2> QED BY <2>7
<1>3. Size \in M
  <2> HIDE DEF M
  <2> QED BY <1>1, <1>2, Count, NumbersBySteps
<1>4. Tree = CHOOSE f : f = F(f, Size)
  BY DEF Tree, Size, B
<1>5. Tree = F(Tree, Size)
  BY <1>3, <1>4
<1> QED BY <1>5 DEF Levels, B

(* A node and the heights of its parts. *)
LEMMA Parts ==
  ASSUME NEW h \in Levels, NEW n \in Tree[h], n # Nil
  PROVE  /\ h - 1 \in Levels
         /\ Left(n) \in Tree[h - 1] /\ Right(n) \in Tree[h - 1] /\ Key(n) \in Users
         /\ n = Node(Left(n), Key(n), Right(n))
<1>1. h # 0
  BY TreeDef
<1>2. h - 1 \in Levels
  BY <1>1, Count DEF Levels
<1>3. n \in Tree[h - 1] \X Users \X Tree[h - 1]
  BY <1>1, TreeDef
<1> QED BY <1>2, <1>3 DEF Left, Right, Key, Node

LEMMA Nodes ==
  ASSUME NEW l, NEW k, NEW r
  PROVE  /\ Node(l, k, r) # Nil
         /\ Left(Node(l, k, r)) = l /\ Key(Node(l, k, r)) = k /\ Right(Node(l, k, r)) = r
<1>1. Node(l, k, r) # Nil
  <2>1. Len(Node(l, k, r)) = 3 /\ Len(Nil) = 0
    BY DEF Node, Nil
  <2> QED BY <2>1
<1> QED BY <1>1 DEF Left, Right, Key, Node

LEMMA Grows ==
  ASSUME NEW h \in Levels
  PROVE  /\ Nil \in Tree[h]
         /\ h + 1 \in Levels =>
              \A l \in Tree[h], r \in Tree[h], k \in Users : Node(l, k, r) \in Tree[h + 1]
<1>1. Nil \in Tree[h]
  BY TreeDef
<1>2. ASSUME h + 1 \in Levels, NEW l \in Tree[h], NEW r \in Tree[h], NEW k \in Users
      PROVE  Node(l, k, r) \in Tree[h + 1]
  <2>1. h + 1 # 0 /\ (h + 1) - 1 = h
    BY Count DEF Levels
  <2>2. Tree[h + 1] = {Nil} \cup (Tree[h] \X Users \X Tree[h])
    BY TreeDef, <1>2, <2>1
  <2> QED BY <2>2 DEF Node
<1> QED BY <1>1, <1>2

(* A lower tree is one of the higher ones. *)
LEMMA OneHigher ==
  ASSUME NEW h \in Levels, h + 1 \in Levels
  PROVE  Tree[h] \subseteq Tree[h + 1]
<1> DEFINE M == {i \in Nat : i + 1 \in Levels => Tree[i] \subseteq Tree[i + 1]}
<1>1. 0 \in M
  <2> SUFFICES ASSUME 1 \in Levels PROVE Tree[0] \subseteq Tree[1]
    OBVIOUS
  <2>1. 0 \in Levels
    BY Count DEF Levels
  <2> QED BY <2>1, TreeDef
<1>2. ASSUME NEW i \in Nat, i \in M PROVE i + 1 \in M
  <2> SUFFICES ASSUME (i + 1) + 1 \in Levels, NEW n \in Tree[i + 1], n # Nil
               PROVE  n \in Tree[(i + 1) + 1]
    BY Grows
  <2>1. i \in Levels /\ i + 1 \in Levels /\ (i + 1) - 1 = i
    BY Count DEF Levels
  <2>2. /\ Left(n) \in Tree[i] /\ Right(n) \in Tree[i] /\ Key(n) \in Users
        /\ n = Node(Left(n), Key(n), Right(n))
    BY <2>1, Parts
  <2>3. Left(n) \in Tree[i + 1] /\ Right(n) \in Tree[i + 1]
    BY <1>2, <2>1, <2>2
  <2> QED BY <2>1, <2>2, <2>3, Grows
<1>3. h \in M
  <2> HIDE DEF M
  <2> QED BY <1>1, <1>2, NumbersBySteps DEF Levels
<1> QED BY <1>3 DEF Levels

LEMMA Higher ==
  ASSUME NEW h \in Levels, NEW j \in Levels, h <= j
  PROVE  Tree[h] \subseteq Tree[j]
<1> DEFINE M == {d \in Nat : h + d \in Levels => Tree[h] \subseteq Tree[h + d]}
<1>1. 0 \in M
  BY DEF Levels
<1>2. ASSUME NEW d \in Nat, d \in M PROVE d + 1 \in M
  <2> SUFFICES ASSUME h + (d + 1) \in Levels PROVE Tree[h] \subseteq Tree[h + (d + 1)]
    OBVIOUS
  <2>1. h + d \in Levels /\ (h + d) + 1 = h + (d + 1)
    BY Count DEF Levels
  <2> QED BY <1>2, <2>1, OneHigher
<1>3. j - h \in Nat /\ h + (j - h) = j
  BY DEF Levels
<1>4. j - h \in M
  <2> HIDE DEF M
  <2> QED BY <1>1, <1>2, <1>3, NumbersBySteps
<1> QED BY <1>3, <1>4

LEMMA InTrees == \A h \in Levels : Tree[h] \subseteq Trees
BY Higher, Count DEF Trees, Size, Levels

(* How high a node over two low trees is. *)
LEMMA Made ==
  ASSUME NEW a \in Levels, NEW b \in Levels, NEW k \in a + 1 .. b,
         NEW l \in Tree[(k - 1) - a], NEW r \in Tree[b - k]
  PROVE  Node(l, k, r) \in Tree[b - a]
<1> DEFINE h == (b - a) - 1
<1>1. h \in Levels /\ h + 1 \in Levels /\ h + 1 = b - a /\ k \in Users
  BY Count DEF Levels
<1>2. /\ (k - 1) - a \in Levels /\ (k - 1) - a <= h
      /\ b - k \in Levels /\ b - k <= h
  BY Count DEF Levels
<1> HIDE DEF h
<1>3. l \in Tree[h] /\ r \in Tree[h]
  BY <1>1, <1>2, Higher
<1> QED BY <1>1, <1>3, Grows

(* Every set of trees that is closed under the making of nodes has all trees. *)
LEMMA TreesByNodes ==
  ASSUME NEW S, Nil \in S,
         \A n \in Trees : n # Nil /\ Left(n) \in S /\ Right(n) \in S => n \in S
  PROVE  Trees \subseteq S
<1> DEFINE M == {h \in Nat : h \in Levels => Tree[h] \subseteq S}
<1>1. 0 \in M
  BY TreeDef
<1>2. ASSUME NEW h \in Nat, h \in M PROVE h + 1 \in M
  <2> SUFFICES ASSUME h + 1 \in Levels, NEW n \in Tree[h + 1], n # Nil PROVE n \in S
    OBVIOUS
  <2>1. h \in Levels /\ (h + 1) - 1 = h
    BY Count DEF Levels
  <2>2. Left(n) \in Tree[h] /\ Right(n) \in Tree[h]
    BY <2>1, Parts
  <2>3. Left(n) \in S /\ Right(n) \in S
    BY <1>2, <2>1, <2>2
  <2>4. n \in Trees
    BY InTrees
  <2> QED BY <2>3, <2>4
<1>3. Size \in M
  <2> HIDE DEF M
  <2> QED BY <1>1, <1>2, Count, NumbersBySteps
<1> QED BY <1>3, Count DEF Trees, Levels, Size

LEMMA Subtrees ==
  ASSUME NEW n \in Trees, n # Nil
  PROVE  /\ Left(n) \in Trees /\ Right(n) \in Trees /\ Key(n) \in Users
         /\ n = Node(Left(n), Key(n), Right(n))
<1>1. Size \in Levels /\ n \in Tree[Size]
  BY Count DEF Levels, Trees, Size
<1> QED BY <1>1, Parts, InTrees

(* Each of the functions over trees is what its definition says: there is    *)
(* one on the trees of every height, since a node's value takes those of     *)
(* lower trees only.                                                         *)
LEMMA InsertDef ==
  bstInsert =
    [n \in Trees |->
       [key \in Users |->
         IF n = Nil THEN Node(Nil, key, Nil)
         ELSE IF key < Key(n) THEN Node(bstInsert[Left(n)][key], Key(n), Right(n))
         ELSE IF key > Key(n) THEN Node(Left(n), Key(n), bstInsert[Right(n)][key])
         ELSE n]]
<1> DEFINE F(f, T) ==
             [n \in T |->
                [key \in Users |->
                  IF n = Nil THEN Node(Nil, key, Nil)
                  ELSE IF key < Key(n) THEN Node(f[Left(n)][key], Key(n), Right(n))
                  ELSE IF key > Key(n) THEN Node(Left(n), Key(n), f[Right(n)][key])
                  ELSE n]]
           M == {h \in Nat : h \in Levels => \E f : f = F(f, Tree[h])}
<1> HIDE DEF F
<1>1. 0 \in M
  <2> DEFINE f == F(<<>>, {Nil})
  <2>1. f = F(f, {Nil})
    BY DEF F
  <2>2. 0 \in Levels => Tree[0] = {Nil}
    BY TreeDef
  <2> QED BY <2>1, <2>2
<1>2. ASSUME NEW h \in Nat, h \in M PROVE h + 1 \in M
  <2> SUFFICES ASSUME h + 1 \in Levels PROVE \E g : g = F(g, Tree[h + 1])
    OBVIOUS
  <2>1. h \in Levels /\ (h + 1) - 1 = h
    BY Count DEF Levels
  <2>2. PICK f : f = F(f, Tree[h])
    BY <1>2, <2>1
  <2> DEFINE g == F(f, Tree[h + 1])
  <2>3. \A n \in Tree[h] : g[n] = f[n]
    BY <2>1, <2>2, OneHigher DEF F
  <2>4. \A n \in Tree[h + 1] : n # Nil => Left(n) \in Tree[h] /\ Right(n) \in Tree[h]
    BY <2>1, Parts
  <2>5. g = F(g, Tree[h + 1])
    <3> HIDE DEF g
    <3>1. F(g, Tree[h + 1]) = F(f, Tree[h + 1])
      BY <2>3, <2>4 DEF F
    <3> QED BY <3>1 DEF g
  <2> QED BY <2>5
<1>3. Size \in M
  <2> HIDE DEF M
  <2> QED BY <1>1, <1>2, Count, NumbersBySteps
<1>4. bstInsert = CHOOSE f : f = F(f, Trees)
  BY DEF bstInsert, F
<1>5. \E f : f = F(f, Trees)
  BY <1>3, Count DEF Trees, Levels, Size
<1>6. bstInsert = F(bstInsert, Trees)
  BY <1>4, <1>5
<1> QED BY <1>6 DEF F

LEMMA SearchDef ==
  bstSearch =
    [n \in Trees |->
       [key \in Users |->
         /\ n # Nil
         /\ key = Key(n) \/ bstSearch[IF key < Key(n) THEN Left(n) ELSE Right(n)][key]]]
<1> DEFINE F(f, T) ==
             [n \in T |->
                [key \in Users |->
                  /\ n # Nil
                  /\ key = Key(n) \/ f[IF key < Key(n) THEN Left(n) ELSE Right(n)][key]]]
           M == {h \in Nat : h \in Levels => \E f : f = F(f, Tree[h])}
<1> HIDE DEF F
<1>1. 0 \in M
  <2> DEFINE f == F(<<>>, {Nil})
  <2>1. f = F(f, {Nil})
    BY DEF F
  <2>2. 0 \in Levels => Tree[0] = {Nil}
    BY TreeDef
  <2> QED BY <2>1, <2>2
<1>2. ASSUME NEW h \in Nat, h \in M PROVE h + 1 \in M
  <2> SUFFICES ASSUME h + 1 \in Levels PROVE \E g : g = F(g, Tree[h + 1])
    OBVIOUS
  <2>1. h \in Levels /\ (h + 1) - 1 = h
    BY Count DEF Levels
  <2>2. PICK f : f = F(f, Tree[h])
    BY <1>2, <2>1
  <2> DEFINE g == F(f, Tree[h + 1])
  <2>3. \A n \in Tree[h] : g[n] = f[n]
    BY <2>1, <2>2, OneHigher DEF F
  <2>4. \A n \in Tree[h + 1] : n # Nil => Left(n) \in Tree[h] /\ Right(n) \in Tree[h]
    BY <2>1, Parts
  <2>5. g = F(g, Tree[h + 1])
    <3> HIDE DEF g
    <3>1. F(g, Tree[h + 1]) = F(f, Tree[h + 1])
      BY <2>3, <2>4 DEF F
    <3> QED BY <3>1 DEF g
  <2> QED BY <2>5
<1>3. Size \in M
  <2> HIDE DEF M
  <2> QED BY <1>1, <1>2, Count, NumbersBySteps
<1>4. bstSearch = CHOOSE f : f = F(f, Trees)
  BY DEF bstSearch, F
<1>5. \E f : f = F(f, Trees)
  BY <1>3, Count DEF Trees, Levels, Size
<1>6. bstSearch = F(bstSearch, Trees)
  BY <1>4, <1>5
<1> QED BY <1>6 DEF F

LEMMA MinDef ==
  bstMin =
    [n \in Trees \ {Nil} |->
       IF Left(n) = Nil THEN Key(n) ELSE bstMin[Left(n)]]
<1> DEFINE F(f, T) ==
             [n \in T \ {Nil} |->
                IF Left(n) = Nil THEN Key(n) ELSE f[Left(n)]]
           M == {h \in Nat : h \in Levels => \E f : f = F(f, Tree[h])}
<1> HIDE DEF F
<1>1. 0 \in M
  <2> DEFINE f == F(<<>>, {Nil})
  <2>1. f = F(f, {Nil})
    BY DEF F
  <2>2. 0 \in Levels => Tree[0] = {Nil}
    BY TreeDef
  <2> QED BY <2>1, <2>2
<1>2. ASSUME NEW h \in Nat, h \in M PROVE h + 1 \in M
  <2> SUFFICES ASSUME h + 1 \in Levels PROVE \E g : g = F(g, Tree[h + 1])
    OBVIOUS
  <2>1. h \in Levels /\ (h + 1) - 1 = h
    BY Count DEF Levels
  <2>2. PICK f : f = F(f, Tree[h])
    BY <1>2, <2>1
  <2> DEFINE g == F(f, Tree[h + 1])
  <2>3. \A n \in Tree[h] \ {Nil} : g[n] = f[n]
    BY <2>1, <2>2, OneHigher DEF F
  <2>4. \A n \in Tree[h + 1] : n # Nil => Left(n) \in Tree[h] /\ Right(n) \in Tree[h]
    BY <2>1, Parts
  <2>5. g = F(g, Tree[h + 1])
    <3> HIDE DEF g
    <3>1. F(g, Tree[h + 1]) = F(f, Tree[h + 1])
      BY <2>3, <2>4 DEF F
    <3> QED BY <3>1 DEF g
  <2> QED BY <2>5
<1>3. Size \in M
  <2> HIDE DEF M
  <2> QED BY <1>1, <1>2, Count, NumbersBySteps
<1>4. bstMin = CHOOSE f : f = F(f, Trees)
  BY DEF bstMin, F
<1>5. \E f : f = F(f, Trees)
  BY <1>3, Count DEF Trees, Levels, Size
<1>6. bstMin = F(bstMin, Trees)
  BY <1>4, <1>5
<1> QED BY <1>6 DEF F

LEMMA DeleteDef ==
  bstDelete =
    [n \in Trees |->
       [key \in Users |->
         IF n = Nil THEN Nil
         ELSE IF key < Key(n) THEN Node(bstDelete[Left(n)][key], Key(n), Right(n))
         ELSE IF key > Key(n) THEN Node(Left(n), Key(n), bstDelete[Right(n)][key])
         ELSE IF Left(n) = Nil THEN Right(n)
         ELSE IF Right(n) = Nil THEN Left(n)
         ELSE Node(Left(n), bstMin[Right(n)], bstDelete[Right(n)][bstMin[Right(n)]])]]
<1> DEFINE F(f, T) ==
             [n \in T |->
                [key \in Users |->
                  IF n = Nil THEN Nil
                  ELSE IF key < Key(n) THEN Node(f[Left(n)][key], Key(n), Right(n))
                  ELSE IF key > Key(n) THEN Node(Left(n), Key(n), f[Right(n)][key])
                  ELSE IF Left(n) = Nil THEN Right(n)
                  ELSE IF Right(n) = Nil THEN Left(n)
                  ELSE Node(Left(n), bstMin[Right(n)], f[Right(n)][bstMin[Right(n)]])]]
           M == {h \in Nat : h \in Levels => \E f : f = F(f, Tree[h])}
<1> HIDE DEF F
<1>1. 0 \in M
  <2> DEFINE f == F(<<>>, {Nil})
  <2>0. \A x : F(x, {Nil}) = [n \in {Nil} |-> [key \in Users |-> Nil]]
    BY DEF F
  <2>1. f = F(f, {Nil})
    BY <2>0, Zenon
  <2>2. 0 \in Levels => Tree[0] = {Nil}
    BY TreeDef
  <2> QED BY <2>1, <2>2
<1>2. ASSUME NEW h \in Nat, h \in M PROVE h + 1 \in M
  <2> SUFFICES ASSUME h + 1 \in Levels PROVE \E g : g = F(g, Tree[h + 1])
    OBVIOUS
  <2>1. h \in Levels /\ (h + 1) - 1 = h
    BY Count DEF Levels
  <2>2. PICK f : f = F(f, Tree[h])
    BY <1>2, <2>1
  <2> DEFINE g == F(f, Tree[h + 1])
  <2>3. \A n \in Tree[h] : g[n] = f[n]
    BY <2>1, <2>2, OneHigher DEF F
  <2>4. \A n \in Tree[h + 1] : n # Nil => Left(n) \in Tree[h] /\ Right(n) \in Tree[h]
    BY <2>1, Parts
  <2>5. g = F(g, Tree[h + 1])
    <3> HIDE DEF g
    <3>1. F(g, Tree[h + 1]) = F(f, Tree[h + 1])
      BY <2>3, <2>4 DEF F
    <3> QED BY <3>1 DEF g
  <2> QED BY <2>5
<1>3. Size \in M
  <2> HIDE DEF M
  <2> QED BY <1>1, <1>2, Count, NumbersBySteps
<1>4. bstDelete = CHOOSE f : f = F(f, Trees)
  BY DEF bstDelete, F
<1>5. \E f : f = F(f, Trees)
  BY <1>3, Count DEF Trees, Levels, Size
<1>6. bstDelete = F(bstDelete, Trees)
  BY <1>4, <1>5
<1> QED BY <1>6 DEF F

LEMMA InOrderDef ==
  bstInOrder =
    [n \in Trees |->
       IF n = Nil THEN <<>> ELSE bstInOrder[Left(n)] \o <<Key(n)>> \o bstInOrder[Right(n)]]
<1> DEFINE F(f, T) ==
             [n \in T |->
                IF n = Nil THEN <<>> ELSE f[Left(n)] \o <<Key(n)>> \o f[Right(n)]]
           M == {h \in Nat : h \in Levels => \E f : f = F(f, Tree[h])}
<1> HIDE DEF F
<1>1. 0 \in M
  <2> DEFINE f == F(<<>>, {Nil})
  <2>1. f = F(f, {Nil})
    BY DEF F
  <2>2. 0 \in Levels => Tree[0] = {Nil}
    BY TreeDef
  <2> QED BY <2>1, <2>2
<1>2. ASSUME NEW h \in Nat, h \in M PROVE h + 1 \in M
  <2> SUFFICES ASSUME h + 1 \in Levels PROVE \E g : g = F(g, Tree[h + 1])
    OBVIOUS
  <2>1. h \in Levels /\ (h + 1) - 1 = h
    BY Count DEF Levels
  <2>2. PICK f : f = F(f, Tree[h])
    BY <1>2, <2>1
  <2> DEFINE g == F(f, Tree[h + 1])
  <2>3. \A n \in Tree[h] : g[n] = f[n]
    BY <2>1, <2>2, OneHigher DEF F
  <2>4. \A n \in Tree[h + 1] : n # Nil => Left(n) \in Tree[h] /\ Right(n) \in Tree[h]
    BY <2>1, Parts
  <2>5. g = F(g, Tree[h + 1])
    <3> HIDE DEF g
    <3>1. F(g, Tree[h + 1]) = F(f, Tree[h + 1])
      BY <2>3, <2>4 DEF F
    <3> QED BY <3>1 DEF g
  <2> QED BY <2>5
<1>3. Size \in M
  <2> HIDE DEF M
  <2> QED BY <1>1, <1>2, Count, NumbersBySteps
<1>4. bstInOrder = CHOOSE f : f = F(f, Trees)
  BY DEF bstInOrder, F
<1>5. \E f : f = F(f, Trees)
  BY <1>3, Count DEF Trees, Levels, Size
<1>6. bstInOrder = F(bstInOrder, Trees)
  BY <1>4, <1>5
<1> QED BY <1>6 DEF F

LEMMA LenDef ==
  bstLen =
    [n \in Trees |->
       IF n = Nil THEN 0 ELSE 1 + bstLen[Left(n)] + bstLen[Right(n)]]
<1> DEFINE F(f, T) ==
             [n \in T |->
                IF n = Nil THEN 0 ELSE 1 + f[Left(n)] + f[Right(n)]]
           M == {h \in Nat : h \in Levels => \E f : f = F(f, Tree[h])}
<1> HIDE DEF F
<1>1. 0 \in M
  <2> DEFINE f == F(<<>>, {Nil})
  <2>1. f = F(f, {Nil})
    BY DEF F
  <2>2. 0 \in Levels => Tree[0] = {Nil}
    BY TreeDef
  <2> QED BY <2>1, <2>2
<1>2. ASSUME NEW h \in Nat, h \in M PROVE h + 1 \in M
  <2> SUFFICES ASSUME h + 1 \in Levels PROVE \E g : g = F(g, Tree[h + 1])
    OBVIOUS
  <2>1. h \in Levels /\ (h + 1) - 1 = h
    BY Count DEF Levels
  <2>2. PICK f : f = F(f, Tree[h])
    BY <1>2, <2>1
  <2> DEFINE g == F(f, Tree[h + 1])
  <2>3. \A n \in Tree[h] : g[n] = f[n]
    BY <2>1, <2>2, OneHigher DEF F
  <2>4. \A n \in Tree[h + 1] : n # Nil => Left(n) \in Tree[h] /\ Right(n) \in Tree[h]
    BY <2>1, Parts
  <2>5. g = F(g, Tree[h + 1])
    <3> HIDE DEF g
    <3>1. F(g, Tree[h + 1]) = F(f, Tree[h + 1])
      BY <2>3, <2>4 DEF F
    <3> QED BY <3>1 DEF g
  <2> QED BY <2>5
<1>3. Size \in M
  <2> HIDE DEF M
  <2> QED BY <1>1, <1>2, Count, NumbersBySteps
<1>4. bstLen = CHOOSE f : f = F(f, Trees)
  BY DEF bstLen, F
<1>5. \E f : f = F(f, Trees)
  BY <1>3, Count DEF Trees, Levels, Size
<1>6. bstLen = F(bstLen, Trees)
  BY <1>4, <1>5
<1> QED BY <1>6 DEF F

-----------------------------------------------------------------------------
(* Search trees: those whose traversal ascends. *)

Ascending(q) == \A i, j \in DOMAIN q : i < j => q[i] < q[j]
Names(n)     == Range(bstInOrder[n])

(* n is a search tree for keys above a and up to b. *)
Within(n, a, b) == n \in Trees /\ Ascending(bstInOrder[n]) /\ Names(n) \subseteq a + 1 .. b

(* A traversal ascends when both sides do and the key is between them. *)
LEMMA Between ==
  ASSUME NEW q \in Seq(Users), NEW k \in Users, NEW r \in Seq(Users)
  PROVE  /\ q \o <<k>> \o r \in Seq(Users)
         /\ Range(q \o <<k>> \o r) = Range(q) \cup {k} \cup Range(r)
         /\ Len(q \o <<k>> \o r) = Len(q) + 1 + Len(r)
         /\ Ascending(q \o <<k>> \o r) <=>
              /\ Ascending(q) /\ Ascending(r)
              /\ \A x \in Range(q) : x < k
              /\ \A y \in Range(r) : k < y
<1> DEFINE t == q \o <<k>> \o r
           m == Len(q)
<1>1. /\ t \in Seq(Users) /\ m \in Nat /\ Len(r) \in Nat /\ Len(t) = m + 1 + Len(r)
      /\ \A i \in 1 .. m : t[i] = q[i]
      /\ t[m + 1] = k
      /\ \A i \in 1 .. Len(r) : t[(m + 1) + i] = r[i]
  OBVIOUS
<1> HIDE DEF t
<1>2. DOMAIN q = 1 .. m /\ DOMAIN r = 1 .. Len(r) /\ DOMAIN t = 1 .. m + 1 + Len(r)
  BY <1>1
<1>3. \A i \in DOMAIN q : q[i] \in Nat
  BY Count
<1>4. \A i \in DOMAIN r : r[i] \in Nat
  BY Count
<1>5. /\ Range(q) = {q[i] : i \in DOMAIN q} /\ Range(r) = {r[i] : i \in DOMAIN r}
      /\ Range(t) = {t[i] : i \in DOMAIN t}
  BY DEF Range
<1>6. k \in Nat
  BY Count
<1> HIDE DEF m
<1>7. \A i \in DOMAIN t : \/ i \in DOMAIN q \/ i = m + 1
                        \/ (i - (m + 1) \in DOMAIN r /\ t[i] = r[i - (m + 1)])
  BY <1>1, <1>2
<1>8. \A i \in DOMAIN r : (m + 1) + i \in DOMAIN t /\ t[(m + 1) + i] = r[i]
  BY <1>1, <1>2
<1>9. m + 1 \in DOMAIN t /\ \A i \in DOMAIN q : i \in DOMAIN t /\ t[i] = q[i]
  BY <1>1, <1>2
<1>10. Range(t) = Range(q) \cup {k} \cup Range(r)
  <2>1. ASSUME NEW x \in Range(t) PROVE x \in Range(q) \cup {k} \cup Range(r)
    BY <1>1, <1>5, <1>7, <1>9
  <2>2. ASSUME NEW x \in Range(q) \cup {k} \cup Range(r) PROVE x \in Range(t)
    BY <1>1, <1>5, <1>8, <1>9
  <2> QED BY <2>1, <2>2
<1>11. ASSUME Ascending(t)
       PROVE  /\ Ascending(q) /\ Ascending(r)
              /\ \A x \in Range(q) : x < k
              /\ \A y \in Range(r) : k < y
  <2>1. Ascending(q)
    BY <1>2, <1>9, <1>11 DEF Ascending
  <2>2. Ascending(r)
    <3> SUFFICES ASSUME NEW i \in DOMAIN r, NEW j \in DOMAIN r, i < j PROVE r[i] < r[j]
      BY DEF Ascending
    <3>1. (m + 1) + i < (m + 1) + j
      BY <1>1, <1>2
    <3> QED BY <1>8, <1>11, <3>1 DEF Ascending
  <2>3. ASSUME NEW i \in DOMAIN q PROVE q[i] < k
    <3>1. i < m + 1
      BY <1>1, <1>2
    <3> QED BY <1>1, <1>9, <1>11, <3>1 DEF Ascending
  <2>4. ASSUME NEW i \in DOMAIN r PROVE k < r[i]
    <3>1. m + 1 < (m + 1) + i
      BY <1>1, <1>2
    <3> QED BY <1>1, <1>8, <1>9, <1>11, <3>1 DEF Ascending
  <2> QED BY <1>5, <2>1, <2>2, <2>3, <2>4
<1>12. ASSUME Ascending(q), Ascending(r),
              \A x \in Range(q) : x < k, \A y \in Range(r) : k < y
       PROVE  Ascending(t)
  <2> SUFFICES ASSUME NEW i \in DOMAIN t, NEW j \in DOMAIN t, i < j PROVE t[i] < t[j]
    BY DEF Ascending
  <2>1. CASE i \in DOMAIN q /\ j \in DOMAIN q
    BY <1>9, <1>12, <2>1 DEF Ascending
  <2>2. CASE i \in DOMAIN q /\ j = m + 1
    BY <1>1, <1>5, <1>9, <1>12, <2>2
  <2>3. CASE i \in DOMAIN q /\ j - (m + 1) \in DOMAIN r /\ t[j] = r[j - (m + 1)]
    <3>1. t[i] < k /\ k < t[j]
      BY <1>5, <1>9, <1>12, <2>3
    <3>2. t[i] \in Nat /\ t[j] \in Nat
      BY <1>3, <1>4, <1>9, <2>3
    <3> QED BY <1>6, <3>1, <3>2
  <2>4. CASE i = m + 1 /\ j - (m + 1) \in DOMAIN r /\ t[j] = r[j - (m + 1)]
    BY <1>1, <1>5, <1>12, <2>4
  <2>5. CASE /\ i - (m + 1) \in DOMAIN r /\ t[i] = r[i - (m + 1)]
             /\ j - (m + 1) \in DOMAIN r /\ t[j] = r[j - (m + 1)]
    <3>1. i - (m + 1) < j - (m + 1)
      BY <1>1, <1>2
    <3> QED BY <1>12, <2>5, <3>1 DEF Ascending
  <2>6. \/ i \in DOMAIN q
        \/ i = m + 1 /\ j \notin DOMAIN q /\ j # m + 1
        \/ i - (m + 1) \in DOMAIN r /\ t[i] = r[i - (m + 1)] /\ j \notin DOMAIN q /\ j # m + 1
    BY <1>1, <1>2, <1>7
  <2> QED BY <1>7, <2>1, <2>2, <2>3, <2>4, <2>5, <2>6
<1> QED BY <1>1, <1>10, <1>11, <1>12 DEF t, m

LEMMA InOrderType == \A n \in Trees : bstInOrder[n] \in Seq(Users) /\ Len(bstInOrder[n]) = bstLen[n]
<1> DEFINE S == {n \in Trees : bstInOrder[n] \in Seq(Users) /\ Len(bstInOrder[n]) = bstLen[n]}
<1>1. Nil \in S
  <2>1. Nil \in Trees
    BY Grows, Count DEF Trees, Levels, Size
  <2> QED BY <2>1, InOrderDef, LenDef
<1>2. ASSUME NEW n \in Trees, n # Nil, Left(n) \in S, Right(n) \in S PROVE n \in S
  <2> DEFINE q == bstInOrder[Left(n)]
             r == bstInOrder[Right(n)]
  <2>1. bstInOrder[n] = q \o <<Key(n)>> \o r
    BY <1>2, InOrderDef
  <2>2. bstLen[n] = 1 + bstLen[Left(n)] + bstLen[Right(n)]
    BY <1>2, LenDef
  <2>3. /\ q \in Seq(Users) /\ Len(q) = bstLen[Left(n)] /\ Len(q) \in Nat
        /\ r \in Seq(Users) /\ Len(r) = bstLen[Right(n)] /\ Len(r) \in Nat
    BY <1>2
  <2> HIDE DEF q, r
  <2>4. bstInOrder[n] \in Seq(Users) /\ Len(bstInOrder[n]) = Len(q) + 1 + Len(r)
    <3> DEFINE t == q \o <<Key(n)>> \o r
    <3>1. Key(n) \in Users
      BY <1>2, Subtrees
    <3>2. t \in Seq(Users) /\ Len(t) = Len(q) + 1 + Len(r)
      BY <2>3, <3>1, Between
    <3> HIDE DEF t
    <3> QED BY <2>1, <3>2 DEF t
  <2> QED BY <2>2, <2>3, <2>4
<1>3. Trees \subseteq S
  <2> HIDE DEF S
  <2> QED BY <1>1, <1>2, TreesByNodes
<1> QED BY <1>3

(* A search tree and its parts. *)
LEMMA Splits ==
  ASSUME NEW a \in Levels, NEW b \in Levels, NEW n \in Trees, n # Nil, Within(n, a, b)
  PROVE  /\ Key(n) \in a + 1 .. b /\ Key(n) \in Levels /\ Key(n) - 1 \in Levels
         /\ Within(Left(n), a, Key(n) - 1) /\ Within(Right(n), Key(n), b)
         /\ Names(n) = Names(Left(n)) \cup {Key(n)} \cup Names(Right(n))
<1> DEFINE q == bstInOrder[Left(n)]
           k == Key(n)
           r == bstInOrder[Right(n)]
<1>1. Left(n) \in Trees /\ Right(n) \in Trees /\ k \in Users
  BY Subtrees
<1>2. bstInOrder[n] = q \o <<k>> \o r
  BY InOrderDef
<1>3. q \in Seq(Users) /\ r \in Seq(Users)
  BY <1>1, InOrderType
<1>4. Ascending(bstInOrder[n]) /\ Names(n) \subseteq a + 1 .. b
  BY DEF Within
<1>5. Names(Left(n)) = Range(q) /\ Names(Right(n)) = Range(r)
  BY DEF Names
<1> HIDE DEF q, r, k
<1>6. Range(bstInOrder[n]) = Range(q) \cup {k} \cup Range(r)
  BY <1>1, <1>2, <1>3, Between
<1>7. /\ Ascending(q) /\ Ascending(r)
      /\ \A x \in Range(q) : x < k
      /\ \A y \in Range(r) : k < y
  BY <1>1, <1>2, <1>3, <1>4, Between
<1>8. k \in a + 1 .. b /\ Range(q) \subseteq a + 1 .. b /\ Range(r) \subseteq a + 1 .. b
  BY <1>4, <1>6 DEF Names
<1>9. k \in Levels /\ k - 1 \in Levels
  BY <1>1, Count DEF Levels
<1>10. Range(q) \subseteq a + 1 .. k - 1
  BY <1>7, <1>8, <1>9 DEF Levels
<1>11. Range(r) \subseteq k + 1 .. b
  BY <1>7, <1>8, <1>9 DEF Levels
<1>12. Within(Left(n), a, k - 1) /\ Within(Right(n), k, b)
  BY <1>1, <1>5, <1>7, <1>10, <1>11 DEF Within, q, r
<1> QED BY <1>5, <1>6, <1>8, <1>9, <1>12 DEF Names, k

LEMMA NilWithin ==
  ASSUME NEW a, NEW b
  PROVE  Within(Nil, a, b) /\ Names(Nil) = {}
<1>1. Nil \in Trees
  BY Grows, Count DEF Trees, Levels, Size
<1>2. bstInOrder[Nil] = <<>>
  BY <1>1, InOrderDef
<1> QED BY <1>1, <1>2 DEF Within, Names, Ascending, Range

(* A search tree for few keys is low. *)
LEMMA Low ==
  \A n \in Trees : \A a, b \in Levels : a <= b /\ Within(n, a, b) => n \in Tree[b - a]
<1> DEFINE S == {n \in Trees : \A a, b \in Levels : a <= b /\ Within(n, a, b) => n \in Tree[b - a]}
<1>1. Nil \in S
  <2>1. ASSUME NEW a \in Levels, NEW b \in Levels, a <= b PROVE Nil \in Tree[b - a]
    <3>1. b - a \in Levels
      BY <2>1, Count DEF Levels
    <3> QED BY <3>1, Grows
  <2>2. Nil \in Trees
    BY Grows, Count DEF Trees, Levels, Size
  <2> QED BY <2>1, <2>2
<1>2. ASSUME NEW n \in Trees, n # Nil, Left(n) \in S, Right(n) \in S PROVE n \in S
  <2> SUFFICES ASSUME NEW a \in Levels, NEW b \in Levels, a <= b, Within(n, a, b)
               PROVE  n \in Tree[b - a]
    OBVIOUS
  <2>1. /\ Key(n) \in a + 1 .. b /\ Key(n) \in Levels /\ Key(n) - 1 \in Levels
        /\ Within(Left(n), a, Key(n) - 1) /\ Within(Right(n), Key(n), b)
    BY <1>2, Splits
  <2>2. Left(n) \in Tree[(Key(n) - 1) - a] /\ Right(n) \in Tree[b - Key(n)]
    BY <1>2, <2>1 DEF Levels
  <2>3. n = Node(Left(n), Key(n), Right(n)) /\ Key(n) \in Users
    BY <1>2, Subtrees
  <2> QED BY <2>1, <2>2, <2>3, Made
<1>3. Trees \subseteq S
  <2> HIDE DEF S
  <2> QED BY <1>1, <1>2, TreesByNodes
<1> QED BY <1>3

(* Two search trees and a key between them make one, no higher than there    *)
(* are keys for it.                                                          *)
LEMMA Joins ==
  ASSUME NEW a \in Levels, NEW b \in Levels, NEW k \in a + 1 .. b, NEW l, NEW r,
         Within(l, a, k - 1), Within(r, k, b)
  PROVE  /\ Within(Node(l, k, r), a, b)
         /\ Names(Node(l, k, r)) = Names(l) \cup {k} \cup Names(r)
<1>1. k \in Levels /\ k - 1 \in Levels /\ k \in Users /\ a <= k - 1 /\ k <= b
  BY Count DEF Levels
<1>2. l \in Trees /\ r \in Trees
  BY DEF Within
<1>3. l \in Tree[(k - 1) - a] /\ r \in Tree[b - k]
  BY <1>1, <1>2, Low
<1> DEFINE n == Node(l, k, r)
<1>4. n \in Tree[b - a]
  BY <1>1, <1>3, Made
<1>5. n \in Trees
  <2>1. b - a \in Levels
    BY <1>1, Count DEF Levels
  <2> QED BY <1>4, <2>1, InTrees
<1>6. n # Nil /\ Left(n) = l /\ Key(n) = k /\ Right(n) = r
  BY Nodes
<1> HIDE DEF n
<1>7. bstInOrder[n] = bstInOrder[l] \o <<k>> \o bstInOrder[r]
  BY <1>5, <1>6, InOrderDef
<1>8. bstInOrder[l] \in Seq(Users) /\ bstInOrder[r] \in Seq(Users)
  BY <1>2, InOrderType
<1>9. /\ Ascending(bstInOrder[l]) /\ Names(l) \subseteq a + 1 .. k - 1
      /\ Ascending(bstInOrder[r]) /\ Names(r) \subseteq k + 1 .. b
  BY DEF Within
<1>10. Names(n) = Names(l) \cup {k} \cup Names(r)
  BY <1>1, <1>7, <1>8, Between DEF Names
<1>11. Names(n) \subseteq a + 1 .. b
  BY <1>1, <1>9, <1>10 DEF Levels
<1>12. Ascending(bstInOrder[n])
  <2>1. \A x \in Range(bstInOrder[l]) : x < k
    BY <1>1, <1>9 DEF Names, Levels
  <2>2. \A x \in Range(bstInOrder[r]) : k < x
    BY <1>1, <1>9 DEF Names, Levels
  <2> QED BY <1>1, <1>7, <1>8, <1>9, <2>1, <2>2, Between
<1> QED BY <1>5, <1>10, <1>11, <1>12 DEF Within, n

-----------------------------------------------------------------------------
(* What the functions do to search trees. *)

LEMMA Inserts ==
  \A n \in Trees : \A key \in Users, a, b \in Levels :
    Within(n, a, b) /\ key \in a + 1 .. b =>
      /\ Within(bstInsert[n][key], a, b)
      /\ Names(bstInsert[n][key]) = Names(n) \cup {key}
<1> DEFINE Has(n, key, a, b) == /\ Within(bstInsert[n][key], a, b)
                                /\ Names(bstInsert[n][key]) = Names(n) \cup {key}
           S == {n \in Trees : \A key \in Users, a, b \in Levels :
                   Within(n, a, b) /\ key \in a + 1 .. b => Has(n, key, a, b)}
<1>1. Nil \in S
  <2> SUFFICES ASSUME NEW key \in Users, NEW a \in Levels, NEW b \in Levels, key \in a + 1 .. b
               PROVE  Has(Nil, key, a, b)
    BY NilWithin DEF Within
  <2>1. bstInsert[Nil][key] = Node(Nil, key, Nil)
    BY InsertDef, NilWithin DEF Within
  <2>2. Within(Nil, a, key - 1) /\ Within(Nil, key, b) /\ Names(Nil) = {}
    BY NilWithin
  <2>3. /\ Within(Node(Nil, key, Nil), a, b)
        /\ Names(Node(Nil, key, Nil)) = {} \cup {key} \cup {}
    BY <2>2, Joins
  <2> QED BY <2>1, <2>2, <2>3
<1>2. ASSUME NEW n \in Trees, n # Nil, Left(n) \in S, Right(n) \in S PROVE n \in S
  <2> SUFFICES ASSUME NEW key \in Users, NEW a \in Levels, NEW b \in Levels,
                      Within(n, a, b), key \in a + 1 .. b
               PROVE  Has(n, key, a, b)
    OBVIOUS
  <2> DEFINE k == Key(n)
             l == Left(n)
             r == Right(n)
  <2>1. /\ k \in a + 1 .. b /\ k \in Levels /\ k - 1 \in Levels
        /\ Within(l, a, k - 1) /\ Within(r, k, b)
        /\ Names(n) = Names(l) \cup {k} \cup Names(r)
    BY <1>2, Splits
  <2>2. bstInsert[n][key] = IF key < k THEN Node(bstInsert[l][key], k, r)
                            ELSE IF key > k THEN Node(l, k, bstInsert[r][key])
                            ELSE n
    BY <1>2, InsertDef
  <2>3. /\ key \in a + 1 .. k - 1 => Has(l, key, a, k - 1)
        /\ key \in k + 1 .. b => Has(r, key, k, b)
    BY <1>2, <2>1
  <2>4. key \in Nat /\ k \in Nat /\ a \in Nat /\ b \in Nat
    BY <2>1, Count DEF Levels
  <2> HIDE DEF k, l, r
  <2>5. CASE key < k
    <3>1. Has(l, key, a, k - 1)
      BY <2>3, <2>4, <2>5
    <3>2. /\ Within(Node(bstInsert[l][key], k, r), a, b)
          /\ Names(Node(bstInsert[l][key], k, r)) = (Names(l) \cup {key}) \cup {k} \cup Names(r)
      BY <2>1, <3>1, Joins
    <3> QED BY <2>1, <2>2, <2>5, <3>2
  <2>6. CASE key > k
    <3>1. Has(r, key, k, b)
      BY <2>3, <2>4, <2>6
    <3>2. /\ Within(Node(l, k, bstInsert[r][key]), a, b)
          /\ Names(Node(l, k, bstInsert[r][key])) = Names(l) \cup {k} \cup (Names(r) \cup {key})
      BY <2>1, <3>1, Joins
    <3> QED BY <2>1, <2>2, <2>4, <2>6, <3>2
  <2>7. CASE key = k
    BY <2>1, <2>2, <2>4, <2>7
  <2> QED BY <2>4, <2>5, <2>6, <2>7
<1>3. Trees \subseteq S
  <2> HIDE DEF S
  <2> QED BY <1>1, <1>2, TreesByNodes
<1> QED BY <1>3

LEMMA SearchAt ==
  ASSUME NEW n \in Trees, NEW key \in Users
  PROVE  bstSearch[n][key] =
           (n # Nil /\ (key = Key(n) \/ bstSearch[IF key < Key(n) THEN Left(n) ELSE Right(n)][key]))
<1>1. bstSearch[n] =
        [x \in Users |->
          n # Nil /\ (x = Key(n) \/ bstSearch[IF x < Key(n) THEN Left(n) ELSE Right(n)][x])]
  BY SearchDef, Zenon
<1> QED BY <1>1, Zenon

LEMMA Searches ==
  \A n \in Trees : \A key \in Users, a, b \in Levels :
    Within(n, a, b) => (bstSearch[n][key] <=> key \in Names(n))
<1> DEFINE S == {n \in Trees : \A key \in Users, a, b \in Levels :
                   Within(n, a, b) => (bstSearch[n][key] <=> key \in Names(n))}
<1>1. Nil \in S
  <2>1. Nil \in Trees
    BY NilWithin DEF Within
  <2>2. \A key \in Users : bstSearch[Nil][key] = FALSE
    BY <2>1, SearchDef
  <2> QED BY <2>1, <2>2, NilWithin
<1>2. ASSUME NEW n \in Trees, n # Nil, Left(n) \in S, Right(n) \in S PROVE n \in S
  <2> SUFFICES ASSUME NEW key \in Users, NEW a \in Levels, NEW b \in Levels, Within(n, a, b)
               PROVE  bstSearch[n][key] <=> key \in Names(n)
    OBVIOUS
  <2> DEFINE k == Key(n)
             l == Left(n)
             r == Right(n)
  <2>1. /\ k \in a + 1 .. b /\ k \in Levels /\ k - 1 \in Levels
        /\ Within(l, a, k - 1) /\ Within(r, k, b)
        /\ Names(n) = Names(l) \cup {k} \cup Names(r)
    BY <1>2, Splits
  <2>2. bstSearch[n][key] <=> key = k \/ bstSearch[IF key < k THEN l ELSE r][key]
    BY <1>2, SearchAt
  <2>3. /\ bstSearch[l][key] <=> key \in Names(l)
        /\ bstSearch[r][key] <=> key \in Names(r)
    BY <1>2, <2>1
  <2>4. key \in Nat /\ k \in Nat /\ a \in Nat /\ b \in Nat
    BY <2>1, Count DEF Levels
  <2>5. Names(l) \subseteq a + 1 .. k - 1 /\ Names(r) \subseteq k + 1 .. b
    BY <2>1 DEF Within
  <2> HIDE DEF k, l, r
  <2>6. CASE key < k
    <3>1. key # k /\ key \notin Names(r)
      BY <2>4, <2>5, <2>6
    <3> QED BY <2>1, <2>2, <2>3, <2>6, <3>1
  <2>7. CASE key = k
    BY <2>1, <2>2, <2>7
  <2>8. CASE key > k
    <3>1. key # k /\ ~(key < k) /\ key \notin Names(l)
      BY <2>4, <2>5, <2>8
    <3> QED BY <2>1, <2>2, <2>3, <3>1
  <2> QED BY <2>4, <2>6, <2>7, <2>8
<1>3. Trees \subseteq S
  <2> HIDE DEF S
  <2> QED BY <1>1, <1>2, TreesByNodes
<1> QED BY <1>3

(* The leftmost name is the least. *)
LEMMA Least ==
  \A n \in Trees : \A a, b \in Levels :
    Within(n, a, b) /\ n # Nil => /\ bstMin[n] \in Names(n)
                                  /\ \A x \in Names(n) : bstMin[n] <= x
<1> DEFINE S == {n \in Trees : \A a, b \in Levels :
                   Within(n, a, b) /\ n # Nil => /\ bstMin[n] \in Names(n)
                                                 /\ \A x \in Names(n) : bstMin[n] <= x}
<1>1. Nil \in S
  BY NilWithin DEF Within
<1>2. ASSUME NEW n \in Trees, n # Nil, Left(n) \in S PROVE n \in S
  <2> SUFFICES ASSUME NEW a \in Levels, NEW b \in Levels, Within(n, a, b)
               PROVE  bstMin[n] \in Names(n) /\ \A x \in Names(n) : bstMin[n] <= x
    OBVIOUS
  <2> DEFINE k == Key(n)
             l == Left(n)
             r == Right(n)
  <2>1. /\ k \in a + 1 .. b /\ k \in Levels /\ k - 1 \in Levels
        /\ Within(l, a, k - 1) /\ Within(r, k, b)
        /\ Names(n) = Names(l) \cup {k} \cup Names(r)
    BY <1>2, Splits
  <2>2. bstMin[n] = IF l = Nil THEN k ELSE bstMin[l]
    BY <1>2, MinDef
  <2>3. l # Nil => bstMin[l] \in Names(l) /\ \A x \in Names(l) : bstMin[l] <= x
    BY <1>2, <2>1
  <2>4. k \in Nat /\ a \in Nat /\ b \in Nat
    BY <2>1, Count DEF Levels
  <2>5. Names(l) \subseteq a + 1 .. k - 1 /\ Names(r) \subseteq k + 1 .. b
    BY <2>1 DEF Within
  <2>6. l = Nil => Names(l) = {}
    BY NilWithin
  <2> HIDE DEF k, l, r
  <2>7. CASE l = Nil
    BY <2>1, <2>2, <2>4, <2>5, <2>6, <2>7
  <2>8. CASE l # Nil
    BY <2>1, <2>2, <2>3, <2>4, <2>5, <2>8
  <2> QED BY <2>7, <2>8
<1>3. Trees \subseteq S
  <2> HIDE DEF S
  <2> QED BY <1>1, <1>2, TreesByNodes
<1> QED BY <1>3

(* Also when the successor moves up: it is the least of the right side, so   *)
(* that it is between the left side and what is left of the right.           *)
LEMMA Deletes ==
  \A n \in Trees : \A key \in Users, a, b \in Levels :
    Within(n, a, b) =>
      /\ Within(bstDelete[n][key], a, b)
      /\ Names(bstDelete[n][key]) = Names(n) \ {key}
<1> DEFINE Gone(n, key, a, b) == /\ Within(bstDelete[n][key], a, b)
                              /\ Names(bstDelete[n][key]) = Names(n) \ {key}
           S == {n \in Trees : \A key \in Users, a, b \in Levels :
                   Within(n, a, b) => Gone(n, key, a, b)}
<1>1. Nil \in S
  <2>1. Nil \in Trees
    BY NilWithin DEF Within
  <2>2. \A key \in Users : bstDelete[Nil][key] = Nil
    BY <2>1, DeleteDef
  <2> QED BY <2>1, <2>2, NilWithin
<1>2. ASSUME NEW n \in Trees, n # Nil, Left(n) \in S, Right(n) \in S PROVE n \in S
  <2> SUFFICES ASSUME NEW key \in Users, NEW a \in Levels, NEW b \in Levels, Within(n, a, b)
               PROVE  Gone(n, key, a, b)
    OBVIOUS
  <2> DEFINE k == Key(n)
             l == Left(n)
             r == Right(n)
             m == bstMin[r]
  <2>1. /\ k \in a + 1 .. b /\ k \in Levels /\ k - 1 \in Levels
        /\ Within(l, a, k - 1) /\ Within(r, k, b)
        /\ Names(n) = Names(l) \cup {k} \cup Names(r)
    BY <1>2, Splits
  <2>2. bstDelete[n][key] = IF key < k THEN Node(bstDelete[l][key], k, r)
                            ELSE IF key > k THEN Node(l, k, bstDelete[r][key])
                            ELSE IF l = Nil THEN r
                            ELSE IF r = Nil THEN l
                            ELSE Node(l, m, bstDelete[r][m])
    BY <1>2, DeleteDef
  <2>3. \A x \in Users : Gone(l, x, a, k - 1) /\ Gone(r, x, k, b)
    BY <1>2, <2>1
  <2>4. key \in Nat /\ k \in Nat /\ a \in Nat /\ b \in Nat
    BY <2>1, Count DEF Levels
  <2>5. Names(l) \subseteq a + 1 .. k - 1 /\ Names(r) \subseteq k + 1 .. b
    BY <2>1 DEF Within
  <2>6. r # Nil => m \in Names(r) /\ \A x \in Names(r) : m <= x
    BY <2>1, Least DEF Within
  <2>7. /\ l \in Trees /\ Ascending(bstInOrder[l])
        /\ r \in Trees /\ Ascending(bstInOrder[r])
    BY <2>1 DEF Within
  <2> HIDE DEF k, l, r, m
  <2>8. CASE key < k
    <3>1. /\ Within(Node(bstDelete[l][key], k, r), a, b)
          /\ Names(Node(bstDelete[l][key], k, r)) = (Names(l) \ {key}) \cup {k} \cup Names(r)
      BY <2>1, <2>3, Joins
    <3>2. key # k /\ key \notin Names(r)
      BY <2>4, <2>5, <2>8
    <3> QED BY <2>1, <2>2, <2>8, <3>1, <3>2
  <2>9. CASE key > k
    <3>1. /\ Within(Node(l, k, bstDelete[r][key]), a, b)
          /\ Names(Node(l, k, bstDelete[r][key])) = Names(l) \cup {k} \cup (Names(r) \ {key})
      BY <2>1, <2>3, Joins
    <3>2. key # k /\ ~(key < k) /\ key \notin Names(l)
      BY <2>4, <2>5, <2>9
    <3> QED BY <2>1, <2>2, <2>9, <3>1, <3>2
  <2>10. CASE key = k
    <3>1. Names(n) \ {key} = Names(l) \cup Names(r)
      BY <2>1, <2>4, <2>5, <2>10
    <3>2. CASE l = Nil
      <4>1. Names(l) = {}
        BY <3>2, NilWithin
      <4>2. Within(r, a, b)
        BY <2>1, <2>4, <2>5, <2>7 DEF Within
      <4> QED BY <2>2, <2>4, <2>10, <3>1, <3>2, <4>1, <4>2
    <3>3. CASE l # Nil /\ r = Nil
      <4>1. Names(r) = {}
        BY <3>3, NilWithin
      <4>2. Within(l, a, b)
        BY <2>1, <2>4, <2>5, <2>7 DEF Within
      <4> QED BY <2>2, <2>4, <2>10, <3>1, <3>3, <4>1, <4>2
    <3>4. CASE l # Nil /\ r # Nil
      <4>1. m \in k + 1 .. b /\ m \in a + 1 .. b /\ m \in Levels /\ m \in Users
        BY <2>1, <2>4, <2>5, <2>6, <3>4, Count DEF Levels
      <4>2. Within(bstDelete[r][m], k, b) /\ Names(bstDelete[r][m]) = Names(r) \ {m}
        BY <2>3, <4>1
      <4>3. Names(r) \ {m} \subseteq m + 1 .. b
        BY <2>4, <2>5, <2>6, <3>4, <4>1
      <4>4. Within(bstDelete[r][m], m, b)
        BY <4>2, <4>3 DEF Within
      <4>5. Within(l, a, m - 1)
        BY <2>4, <2>5, <2>7, <4>1 DEF Within
      <4>6. /\ Within(Node(l, m, bstDelete[r][m]), a, b)
            /\ Names(Node(l, m, bstDelete[r][m])) = Names(l) \cup {m} \cup (Names(r) \ {m})
        BY <4>1, <4>2, <4>4, <4>5, Joins
      <4>7. bstDelete[n][key] = Node(l, m, bstDelete[r][m])
        BY <2>2, <2>4, <2>10, <3>4
      <4> QED BY <2>6, <3>1, <3>4, <4>6, <4>7
    <3> QED BY <3>2, <3>3, <3>4
  <2> QED BY <2>4, <2>8, <2>9, <2>10
<1>3. Trees \subseteq S
  <2> HIDE DEF S
  <2> QED BY <1>1, <1>2, TreesByNodes
<1> QED BY <1>3

(* No name is counted twice. *)
LEMMA Counts ==
  \A n \in Trees : \A a, b \in Levels :
    Within(n, a, b) => IsFiniteSet(Names(n)) /\ bstLen[n] = Cardinality(Names(n))
<1> DEFINE S == {n \in Trees : \A a, b \in Levels :
                   Within(n, a, b) => IsFiniteSet(Names(n)) /\ bstLen[n] = Cardinality(Names(n))}
<1>1. Nil \in S
  <2>1. Nil \in Trees
    BY NilWithin DEF Within
  <2> QED BY <2>1, NilWithin, LenDef, FS_EmptySet
<1>2. ASSUME NEW n \in Trees, n # Nil, Left(n) \in S, Right(n) \in S PROVE n \in S
  <2> SUFFICES ASSUME NEW a \in Levels, NEW b \in Levels, Within(n, a, b)
               PROVE  IsFiniteSet(Names(n)) /\ bstLen[n] = Cardinality(Names(n))
    OBVIOUS
  <2> DEFINE k == Key(n)
             l == Left(n)
             r == Right(n)
  <2>1. /\ k \in a + 1 .. b /\ k \in Levels /\ k - 1 \in Levels
        /\ Within(l, a, k - 1) /\ Within(r, k, b)
        /\ Names(n) = Names(l) \cup {k} \cup Names(r)
    BY <1>2, Splits
  <2>2. bstLen[n] = 1 + bstLen[l] + bstLen[r]
    BY <1>2, LenDef
  <2>3. /\ IsFiniteSet(Names(l)) /\ bstLen[l] = Cardinality(Names(l))
        /\ IsFiniteSet(Names(r)) /\ bstLen[r] = Cardinality(Names(r))
    BY <1>2, <2>1
  <2>4. k \in Nat
    BY <2>1, Count DEF Levels
  <2>5. Names(l) \subseteq a + 1 .. k - 1 /\ Names(r) \subseteq k + 1 .. b
    BY <2>1 DEF Within
  <2> HIDE DEF k, l, r
  <2>6. k \notin Names(l) /\ (Names(l) \cup {k}) \cap Names(r) = {}
    BY <2>4, <2>5
  <2>7. /\ IsFiniteSet(Names(l) \cup {k})
        /\ Cardinality(Names(l) \cup {k}) = Cardinality(Names(l)) + 1
    BY <2>3, <2>6, FS_AddElement
  <2>8. /\ IsFiniteSet(Names(n))
        /\ Cardinality(Names(n)) =
             Cardinality(Names(l) \cup {k}) + Cardinality(Names(r))
               - Cardinality((Names(l) \cup {k}) \cap Names(r))
    BY <2>1, <2>3, <2>7, FS_Union
  <2>9. Cardinality((Names(l) \cup {k}) \cap Names(r)) = 0
    BY <2>6, FS_EmptySet
  <2>10. Cardinality(Names(l)) \in Nat /\ Cardinality(Names(r)) \in Nat
    BY <2>3, FS_CardinalityType
  <2> QED BY <2>2, <2>3, <2>7, <2>8, <2>9, <2>10
<1>3. Trees \subseteq S
  <2> HIDE DEF S
  <2> QED BY <1>1, <1>2, TreesByNodes
<1> QED BY <1>3

-----------------------------------------------------------------------------
(* The tree of the server: a search tree for the users, of the names in N. *)

Holds(t, N) == Within(t, 0, Size) /\ Names(t) = N

LEMMA InsertHolds ==
  ASSUME NEW t, NEW N, Holds(t, N), NEW u \in Users
  PROVE  Holds(Insert(t, u), N \cup {u})
<1>1. 0 \in Levels /\ Size \in Levels /\ u \in 0 + 1 .. Size /\ t \in Trees
  BY Count DEF Levels, Holds, Within
<1> QED BY <1>1, Inserts DEF Holds, Insert

LEMMA DeleteHolds ==
  ASSUME NEW t, NEW N, Holds(t, N), NEW u \in Users
  PROVE  Holds(Delete(t, u), N \ {u})
<1>1. 0 \in Levels /\ Size \in Levels /\ t \in Trees
  BY Count DEF Levels, Holds, Within
<1> QED BY <1>1, Deletes DEF Holds, Delete

(* The loop over the names at the start makes a search tree of them. *)
LEMMA Entered ==
  ASSUME NEW s \in Seq(Users)
  PROVE  Holds(EnterAll(s), Range(s))
<1> DEFINE First(i) == {s[j] : j \in 1 .. i}
           F(f, n) == [i \in 0 .. n |-> IF i = 0 THEN Nil ELSE Insert(f[i - 1], s[i])]
           M == {n \in Nat : \E f : f = F(f, n)}
           after == CHOOSE f : f = F(f, Len(s))
<1>1. 0 \in M
  <2>1. [i \in 0 .. 0 |-> Nil] = F([i \in 0 .. 0 |-> Nil], 0)
    OBVIOUS
  <2> QED BY <2>1
<1>2. ASSUME NEW n \in Nat, n \in M PROVE n + 1 \in M
  <2>1. PICK f : f = F(f, n)
    BY <1>2
  <2> DEFINE g == F(f, n + 1)
  <2> DEFINE G(i) == IF i = 0 THEN Nil ELSE Insert(f[i - 1], s[i])
  <2>2. \A i \in 0 .. n : f[i] = G(i)
    BY <2>1
  <2>3. \A i \in 0 .. n + 1 : g[i] = G(i)
    OBVIOUS
  <2> HIDE DEF g, G
  <2>4. \A i \in 0 .. n : g[i] = f[i]
    BY <2>2, <2>3
  <2>5. \A i \in 0 .. n + 1 : i # 0 => g[i - 1] = f[i - 1]
    BY <2>4
  <2>6. F(g, n + 1) = F(f, n + 1)
    BY <2>5
  <2> HIDE DEF F
  <2>7. g = F(g, n + 1)
    BY <2>6 DEF g
  <2> QED BY <2>7
<1>3. Len(s) \in Nat /\ \A i \in 1 .. Len(s) : s[i] \in Users
  OBVIOUS
<1>4. Len(s) \in M
  <2> HIDE DEF M
  <2> QED BY <1>1, <1>2, <1>3, NumbersBySteps
<1>5. after = F(after, Len(s))
  BY <1>4
<1>6. EnterAll(s) = after[Len(s)]
  BY DEF EnterAll
<1> HIDE DEF after
<1>7. \A i \in 0 .. Len(s) : after[i] = IF i = 0 THEN Nil ELSE Insert(after[i - 1], s[i])
  BY <1>5
<1> DEFINE A == {n \in Nat : n <= Len(s) => Holds(after[n], First(n))}
<1>8. 0 \in A
  <2>1. after[0] = Nil /\ First(0) = {}
    BY <1>3, <1>7
  <2> QED BY <2>1, NilWithin DEF Holds
<1>9. ASSUME NEW n \in Nat, n \in A PROVE n + 1 \in A
  <2> SUFFICES ASSUME n + 1 <= Len(s) PROVE Holds(after[n + 1], First(n + 1))
    OBVIOUS
  <2>1. Holds(after[n], First(n)) /\ s[n + 1] \in Users
    BY <1>3, <1>9
  <2>2. after[n + 1] = Insert(after[n], s[n + 1])
    BY <1>3, <1>7
  <2>3. First(n + 1) = First(n) \cup {s[n + 1]}
    OBVIOUS
  <2> HIDE DEF First
  <2> QED BY <2>1, <2>2, <2>3, InsertHolds
<1>10. Nat \subseteq A
  <2> HIDE DEF A
  <2> QED BY <1>8, <1>9, NumbersBySteps
<1>11. First(Len(s)) = Range(s)
  BY RangeEquality
<1>12. Holds(after[Len(s)], First(Len(s)))
  <2>1. Len(s) \in A
    <3> HIDE DEF A
    <3> QED BY <1>3, <1>10
  <2> HIDE DEF First
  <2> QED BY <2>1
<1> QED BY <1>6, <1>11, <1>12

LEMMA HoldsSet ==
  ASSUME NEW t, NEW N, Holds(t, N)
  PROVE  /\ N \subseteq Users
         /\ Sorts(bstInOrder[t], N)
         /\ \A u \in Users : Search(t, u) <=> u \in N
         /\ bstLen[t] = Cardinality(N) /\ Len(bstInOrder[t]) = Cardinality(N)
<1>1. 0 \in Levels /\ Size \in Levels /\ t \in Trees /\ Within(t, 0, Size) /\ Names(t) = N
  BY Count DEF Levels, Holds, Within
<1>2. N \subseteq Users
  BY <1>1, Count DEF Within
<1>3. bstInOrder[t] \in Seq(Users) /\ Len(bstInOrder[t]) = bstLen[t]
  BY <1>1, InOrderType
<1>4. Range(bstInOrder[t]) = N /\ bstInOrder[t] \in Seq(N)
  BY <1>1, <1>3, SeqOfRange DEF Names
<1>5. Sorts(bstInOrder[t], N)
  BY <1>1, <1>4 DEF Sorts, Within, Ascending
<1>6. \A u \in Users : Search(t, u) <=> u \in N
  BY <1>1, Searches DEF Search
<1>7. bstLen[t] = Cardinality(N)
  BY <1>1, Counts
<1> QED BY <1>2, <1>3, <1>5, <1>6, <1>7

(* The guard of IStart never keeps the server from starting: any names can   *)
(* be listed once each, for instance sorted, by entering them into a tree.   *)
LEMMA Listable ==
  ASSUME NEW N \in SUBSET Users
  PROVE  \E s \in [1 .. Cardinality(N) -> N] : Range(s) = N
<1>1. IsFiniteSet(N)
  BY Count, FS_Subset
<1>2. PICK n \in Nat : ExistsSurjection(1 .. n, N)
  BY <1>1, FS_NatSurjection
<1>3. PICK f \in Surjection(1 .. n, N) : TRUE
  BY <1>2 DEF ExistsSurjection
<1>4. f \in [1 .. n -> N] /\ \A x \in N : \E i \in 1 .. n : f[i] = x
  BY <1>3 DEF Surjection
<1>5. f \in Seq(Users) /\ Range(f) = N
  BY <1>4 DEF Range
<1> DEFINE s == bstInOrder[EnterAll(f)]
<1>6. Sorts(s, N) /\ Len(s) = Cardinality(N)
  BY <1>5, Entered, HoldsSet
<1>7. s \in [1 .. Cardinality(N) -> N] /\ Range(s) = N
  BY <1>6 DEF Sorts
<1> QED BY <1>7

LEMMA Indexed == [INext]_<<vars, root>> => [Next]_vars
BY DEF INext, IStart, ICrash, IRegisterUser, IRemoveUser, Next, vars

LEMMA NextHolds == TypeOK /\ Holds(root, listed) /\ [INext]_<<vars, root>> => Holds(root, listed)'
<1> SUFFICES ASSUME TypeOK, Holds(root, listed), [INext]_<<vars, root>>
             PROVE  Holds(root', listed')
  BY DEF Holds, Within, Names, Ascending
<1>1. CASE IStart
  <2>1. listed' \subseteq Users
    BY <1>1 DEF IStart, Start, Preload, Enabled
  <2>2. PICK s \in [1 .. Cardinality(listed') -> listed'] :
          Range(s) = listed' /\ root' = EnterAll(s)
    BY <1>1 DEF IStart
  <2>3. Cardinality(listed') \in Nat
    BY <2>1, Count, FS_Subset, FS_CardinalityType
  <2>4. s \in Seq(Users)
    BY <2>1, <2>3
  <2> QED BY <2>2, <2>4, Entered
<1>2. CASE ICrash
  BY <1>2, NilWithin DEF ICrash, Crash, Holds
<1>3. ASSUME NEW s \in Sessions, NEW u \in Users, IRegisterUser(s, u)
      PROVE  Holds(root', listed')
  BY <1>3, InsertHolds DEF IRegisterUser, RegisterUser
<1>4. ASSUME NEW s \in Sessions, NEW u \in Users, IRemoveUser(s, u)
      PROVE  Holds(root', listed')
  BY <1>4, DeleteHolds DEF IRemoveUser, RemoveUser
<1>5. ASSUME NEW s \in Sessions, NEW u \in Users,
             CreateUser(s, u) \/ CheckPassword(s, u) \/ SoftDeleteUser(s, u) \/ Logout(s, u),
             UNCHANGED root
      PROVE  Holds(root', listed')
  BY <1>5 DEF CreateUser, CheckPassword, SoftDeleteUser, Logout
<1>6. CASE UNCHANGED <<vars, root>>
  BY <1>6 DEF vars
<1> QED BY <1>1, <1>2, <1>3, <1>4, <1>5, <1>6 DEF INext

(* The index is a sorted set whatever is inserted and deleted, for any       *)
(* number of users: its listing is sorted and without repetition, Search     *)
(* finds the listed names, and Len counts them.                              *)
THEOREM IndexIsTheSet == ISpec => []TreeIsSet
<1>1. IInit => Holds(root, listed)
  BY NilWithin DEF IInit, Init, Holds
<1>2. ISpec => Spec
  BY Indexed, PTL DEF ISpec, IInit, Spec
<1>3. Holds(root, listed) => TreeIsSet
  <2> SUFFICES ASSUME Holds(root, listed) PROVE TreeIsSet
    OBVIOUS
  <2>1. {u \in Users : Search(root, u)} = listed
    BY HoldsSet
  <2> QED BY <2>1, HoldsSet DEF TreeIsSet
<1> QED BY <1>1, <1>2, <1>3, NextHolds, TypeCorrect, PTL DEF ISpec
=============================================================================
