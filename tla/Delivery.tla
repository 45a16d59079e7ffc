----------------------------- MODULE Delivery -----------------------------
(***************************************************************************)
(* What the chat service promises, seen from the clients: a log of what    *)
(* each connection sent, and what each connection was shown of it.         *)
(*                                                                         *)
(* A client is shown messages on three lanes: its own as echoes, direct    *)
(* messages to its user, and those to a group its user is in.  Messages    *)
(* may be lost (a full buffer, a peer that is gone) and nothing is said    *)
(* about when one arrives.  But on each lane a message is shown only to    *)
(* those the lane is for, never twice, and the messages of one sender are  *)
(* shown in the order in which they were sent.  So a message is shown      *)
(* once, but for a direct message to the sender's own user, which the      *)
(* sender may see twice: as an echo and as an addressee.  Between lanes    *)
(* there is no order: direct messages pass through the hub goroutine, and  *)
(* echoes and group messages do not.                                       *)
(***************************************************************************)
EXTENDS Naturals, Sequences

CONSTANTS Conns, Users, UserOf

VARIABLES
  sent,   \* sent[s]: the messages connection s has sent, in order
  got     \* got[r][s][l]: the numbers in sent[s] of the messages shown to r on
          \*               lane l, in the order they were shown

Kinds   == {"dm", "group"}
Lanes   == Kinds \cup {"echo"}
Message == [kind : Kinds, to : SUBSET Users]

Init ==
  /\ sent = [s \in Conns |-> <<>>]
  /\ got = [r \in Conns |-> [s \in Conns |-> [l \in Lanes |-> <<>>]]]

Send(s) ==
  /\ \E m \in Message : sent' = [sent EXCEPT ![s] = Append(@, m)]
  /\ UNCHANGED got

(* A group message goes to the members without the sender's user, in whose *)
(* session it was echoed.                                                  *)
Entitled(r, s, m, l) ==
  \/ l = "echo" /\ r = s
  \/ l = "dm" /\ m.kind = "dm" /\ UserOf[r] \in m.to
  \/ l = "group" /\ m.kind = "group" /\ UserOf[r] \in m.to \ {UserOf[s]}

Show(r, s, l) ==
  /\ \E n \in DOMAIN sent[s] :
       /\ Entitled(r, s, sent[s][n], l)
       /\ \A i \in DOMAIN got[r][s][l] : got[r][s][l][i] < n
       /\ got' = [got EXCEPT ![r][s][l] = Append(@, n)]
  /\ UNCHANGED sent

Next == \E s \in Conns : Send(s) \/ \E r \in Conns, l \in Lanes : Show(r, s, l)

Spec == Init /\ [][Next]_<<sent, got>>
=============================================================================
