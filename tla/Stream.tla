------------------------------- MODULE Stream -------------------------------
(***************************************************************************)
(* What one direction of a client's connection promises: the receiver      *)
(* hears a prefix of what was said, each message once and in order.  The   *)
(* rest is lost when the connection ends.                                  *)
(***************************************************************************)
EXTENDS Naturals, Sequences

VARIABLES
  said,   \* how many messages were said: they are 1 .. said
  heard   \* the messages the receiver got, in order

Init == said = 0 /\ heard = <<>>

Say == said' = said + 1 /\ UNCHANGED heard

Hear ==
  /\ Len(heard) < said
  /\ heard' = Append(heard, Len(heard) + 1)
  /\ UNCHANGED said

Next == Say \/ Hear

Spec == Init /\ [][Next]_<<said, heard>>
=============================================================================
