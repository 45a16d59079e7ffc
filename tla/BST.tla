-------------------------------- MODULE BST --------------------------------
(***************************************************************************)
(* util.BST, the binary search tree of usernames.  A tree is Nil or the    *)
(* triple of its left subtree, its key and its right subtree; usernames    *)
(* are numbers in their alphabetical order.  Every exported method holds   *)
(* the tree's own lock from end to end, so each is one step.               *)
(***************************************************************************)
EXTENDS Integers, Sequences, FiniteSets

CONSTANT Keys

Nil           == <<>>
Node(l, k, r) == <<l, k, r>>
Left(n)  == n[1]
Key(n)   == n[2]
Right(n) == n[3]

(* The trees of height at most h, sorted or not.  The functions are defined  *)
(* on those no higher than there are keys, as every search tree is.          *)
Tree[h \in 0 .. Cardinality(Keys)] ==
  IF h = 0 THEN {Nil} ELSE {Nil} \cup (Tree[h - 1] \X Keys \X Tree[h - 1])

Trees == Tree[Cardinality(Keys)]

bstInsert[n \in Trees] == [key \in Keys |->
  IF n = Nil THEN Node(Nil, key, Nil)
  ELSE IF key < Key(n) THEN Node(bstInsert[Left(n)][key], Key(n), Right(n))
  ELSE IF key > Key(n) THEN Node(Left(n), Key(n), bstInsert[Right(n)][key])
  ELSE n]

bstSearch[n \in Trees] == [key \in Keys |->
  /\ n # Nil
  /\ key = Key(n) \/ bstSearch[IF key < Key(n) THEN Left(n) ELSE Right(n)][key]]

bstMin[n \in Trees \ {Nil}] == IF Left(n) = Nil THEN Key(n) ELSE bstMin[Left(n)]

(* The recursion of DeleteKeep. *)
bstDeleteKeep[n \in Trees] == [key \in Keys |->
  IF n = Nil THEN Nil
  ELSE IF key < Key(n) THEN Node(bstDeleteKeep[Left(n)][key], Key(n), Right(n))
  ELSE IF key > Key(n) THEN Node(Left(n), Key(n), bstDeleteKeep[Right(n)][key])
  ELSE IF Left(n) = Nil THEN Right(n)
  ELSE IF Right(n) = Nil THEN Left(n)
  ELSE Node(Left(n), bstMin[Right(n)], Right(n))]

bstDelete[n \in Trees] == [key \in Keys |->
  IF n = Nil THEN Nil
  ELSE IF key < Key(n) THEN Node(bstDelete[Left(n)][key], Key(n), Right(n))
  ELSE IF key > Key(n) THEN Node(Left(n), Key(n), bstDelete[Right(n)][key])
  ELSE IF Left(n) = Nil THEN Right(n)
  ELSE IF Right(n) = Nil THEN Left(n)
  ELSE LET least == bstMin[Right(n)] IN Node(Left(n), least, bstDelete[Right(n)][least])]

bstInOrder[n \in Trees] ==
  IF n = Nil THEN <<>> ELSE bstInOrder[Left(n)] \o <<Key(n)>> \o bstInOrder[Right(n)]

bstLen[n \in Trees] == IF n = Nil THEN 0 ELSE 1 + bstLen[Left(n)] + bstLen[Right(n)]

(* The methods; bstInOrder and bstLen are InOrder and Len. *)
Insert(t, key) == bstInsert[t][key]
Search(t, key) == bstSearch[t][key]

(* Variant: the successor stays in the right subtree. *)
DeleteKeep(t, key) == bstDeleteKeep[t][key]

Delete(t, key) == bstDelete[t][key]
=============================================================================
