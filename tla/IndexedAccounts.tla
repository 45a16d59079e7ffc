-------------------------- MODULE IndexedAccounts --------------------------
(***************************************************************************)
(* Accounts with the tree that Hub.userIndex is: each step that changes    *)
(* the set of listed names makes the call of util.BST that the code makes. *)
(***************************************************************************)
EXTENDS Accounts, Integers, Sequences, FiniteSets, Functions

INSTANCE BST WITH Keys <- Users

(* Usernames are their numbers in the order of Go's comparison of strings. *)
ASSUME UsernamesOrdered == IsFiniteSet(Users) /\ Users = 1 .. Cardinality(Users)

VARIABLE root   \* Hub.userIndex.root

(* s lists the members of S once, in ascending order. *)
Sorts(s, S) ==
  /\ s \in Seq(S) /\ Range(s) = S
  /\ \A i, j \in DOMAIN s : i < j => s[i] < s[j]

(* The loop of Run over the names. *)
EnterAll(s) ==
  LET after[i \in 0 .. Len(s)] == IF i = 0 THEN Nil ELSE Insert(after[i - 1], s[i])
  IN after[Len(s)]

IInit == Init /\ root = Nil

(* ListUsers gives each name once, in the order of the database's collation, *)
(* which may be any in the eyes of Go: ascending, so that the tree starts as *)
(* a chain, or not.                                                          *)
IStart ==
  /\ Start
  /\ \E s \in [1 .. Cardinality(listed') -> listed'] :
       Range(s) = listed' /\ root' = EnterAll(s)
ICrash == Crash /\ root' = Nil
IRegisterUser(s, u) == RegisterUser(s, u) /\ root' = Insert(root, u)
IRemoveUser(s, u)   == RemoveUser(s, u) /\ root' = Delete(root, u)

INext ==
  \/ IStart \/ ICrash
  \/ \E s \in Sessions, u \in Users :
       \/ IRegisterUser(s, u) \/ IRemoveUser(s, u)
       \/ /\ CreateUser(s, u) \/ CheckPassword(s, u) \/ SoftDeleteUser(s, u) \/ Logout(s, u)
          /\ UNCHANGED root

ISpec == IInit /\ [][INext]_<<vars, root>>

(* The tree is the set, after any history of insertions and deletions, also  *)
(* when a removed node has two children and its successor moves up: the      *)
(* in-order traversal that every user list is made from is the sorted list   *)
(* of the listed names without repetition, Search finds exactly those, and   *)
(* Len counts them.                                                          *)
TreeIsSet ==
  /\ Sorts(bstInOrder[root], listed)
  /\ {u \in Users : Search(root, u)} = listed
  /\ bstLen[root] = Cardinality(listed)
=============================================================================
