----------------------------- MODULE ConnProofs -----------------------------
(***************************************************************************)
(* The client's connection implements Stream in both directions, for any   *)
(* capacities and any number of frames: the frames that are between one    *)
(* end and the other, wherever they are, carry consecutive numbers.        *)
(***************************************************************************)
EXTENDS Conn, SequenceTheorems, TLAPS

LEMMA QueueFacts ==
  ASSUME NEW q \in Seq(Nat)
  PROVE  /\ Len(q) \in Nat
         /\ \A x \in Nat :
              /\ Append(q, x) \in Seq(Nat) /\ Len(Append(q, x)) = Len(q) + 1
              /\ \A i \in 1 .. Len(q) : Append(q, x)[i] = q[i]
              /\ Append(q, x)[Len(q) + 1] = x
         /\ q # <<>> =>
              /\ Head(q) \in Nat /\ Head(q) = q[1] /\ Len(q) >= 1
              /\ Tail(q) \in Seq(Nat) /\ Len(Tail(q)) = Len(q) - 1
              /\ \A i \in 1 .. Len(q) - 1 : Tail(q)[i] = q[i + 1]
         /\ \A k \in 0 .. Len(q) :
              /\ SubSeq(q, 1, k) \in Seq(Nat) /\ Len(SubSeq(q, 1, k)) = k
              /\ \A i \in 1 .. k : SubSeq(q, 1, k)[i] = q[i]
<1>1. Len(q) \in Nat
  OBVIOUS
<1>2. ASSUME NEW x \in Nat
      PROVE  /\ Append(q, x) \in Seq(Nat) /\ Len(Append(q, x)) = Len(q) + 1
             /\ \A i \in 1 .. Len(q) : Append(q, x)[i] = q[i]
             /\ Append(q, x)[Len(q) + 1] = x
  OBVIOUS
<1>3. ASSUME q # <<>>
      PROVE  /\ Head(q) \in Nat /\ Head(q) = q[1] /\ Len(q) >= 1
             /\ Tail(q) \in Seq(Nat) /\ Len(Tail(q)) = Len(q) - 1
             /\ \A i \in 1 .. Len(q) - 1 : Tail(q)[i] = q[i + 1]
  BY <1>3, EmptySeq
<1>4. ASSUME NEW k \in 0 .. Len(q)
      PROVE  /\ SubSeq(q, 1, k) \in Seq(Nat) /\ Len(SubSeq(q, 1, k)) = k
             /\ \A i \in 1 .. k : SubSeq(q, 1, k)[i] = q[i]
  OBVIOUS
<1> QED BY <1>1, <1>2, <1>3, <1>4

-----------------------------------------------------------------------------
(* Type correctness. *)

LEMMA Caps ==
  /\ OutgoingCap \in Nat /\ OutgoingCap >= 1
  /\ IncomingCap \in Nat /\ IncomingCap >= 1
  /\ WireCap \in Nat /\ WireCap >= 1
BY ConnAssumption

LEMMA InitType == Init => TypeOK
<1> SUFFICES ASSUME Init PROVE TypeOK
  OBVIOUS
<1>1. <<>> \in Seq(Nat) /\ Len(<<>>) = 0
  OBVIOUS
<1>2. /\ writer \in Goroutine({"waiting", "encoding", "closing", "stopped"})
      /\ reader \in Goroutine({"decoding", "pushing", "closing", "stopped"})
      /\ listener \in Goroutine({"waiting", "updating", "reporting", "stopped"})
  BY DEF Init, Goroutine, At
<1>3. /\ socket \in BOOLEAN /\ done \in BOOLEAN /\ (done => socket)
      /\ closes = IF done THEN 1 ELSE 0
  BY DEF Init
<1>4. /\ ui \in {"idle", "sending", "quit", "exited"} /\ calls \in Nat
      /\ peer \in BOOLEAN /\ pushed \in Nat
  BY DEF Init
<1>5. /\ outgoing = <<>> /\ incoming = <<>> /\ up = <<>> /\ down = <<>>
      /\ heard = <<>> /\ shown = <<>>
  BY DEF Init
<1> QED BY <1>1, <1>2, <1>3, <1>4, <1>5, Caps DEF TypeOK

(* A goroutine that moves gets a state of its type. *)
LEMMA GoTypes ==
  ASSUME NEW S, NEW p \in S, NEW n \in Nat
  PROVE  At(p) \in Goroutine(S) /\ With(p, n) \in Goroutine(S)
BY DEF At, With, Goroutine

LEMMA LoopType ==
  ASSUME TypeOK, Send \/ Quit \/ LoopStep \/ Close PROVE TypeOK'
<1>1. CASE Send \/ Quit \/ SendDropped \/ Exit
  BY <1>1 DEF Send, Quit, SendDropped, Exit, TypeOK, upVars, downVars, closeVars, serverVars
<1>2. CASE SendQueued
  <2>1. outgoing' \in Seq(Nat) /\ Len(outgoing') <= OutgoingCap
    BY <1>2, QueueFacts, Caps DEF SendQueued, TypeOK
  <2> QED BY <1>2, <2>1 DEF SendQueued, TypeOK, downVars, closeVars, serverVars
<1>3. CASE Close
  <2>1. socket' \in BOOLEAN /\ done' \in BOOLEAN
    BY <1>3 DEF Close, TypeOK
  <2>2. (done' => socket') /\ closes' = IF done' THEN 1 ELSE 0
    BY <1>3 DEF Close, TypeOK
  <2> QED BY <1>3, <2>1, <2>2 DEF Close, TypeOK, uiVars, upVars, downVars, serverVars
<1> QED BY <1>1, <1>2, <1>3 DEF LoopStep

LEMMA WriterType ==
  ASSUME TypeOK, WriterStep \/ EncodeTooLarge PROVE TypeOK'
<1> DEFINE S == {"waiting", "encoding", "closing", "stopped"}
<1>1. CASE WriterTake
  <2>1. outgoing' \in Seq(Nat) /\ Len(outgoing') <= OutgoingCap /\ Head(outgoing) \in Nat
    BY <1>1, QueueFacts, Caps DEF WriterTake, TypeOK
  <2>2. writer' \in Goroutine(S)
    BY <1>1, <2>1, GoTypes DEF WriterTake
  <2> QED BY <1>1, <2>1, <2>2 DEF WriterTake, TypeOK, uiVars, downVars, closeVars, serverVars
<1>2. CASE Encode
  <2>1. writer.frame \in Nat
    BY DEF TypeOK, Goroutine
  <2>2. up' \in Seq(Nat) /\ Len(up') <= WireCap
    BY <1>2, <2>1, QueueFacts, Caps DEF Encode, TypeOK
  <2>3. writer' \in Goroutine(S)
    BY <1>2, GoTypes DEF Encode
  <2> QED BY <1>2, <2>2, <2>3 DEF Encode, TypeOK, uiVars, downVars, closeVars, serverVars
<1>3. CASE EncodeFails \/ EncodeTooLarge \/ WriterDone \/ WriterReturn
  <2>1. writer' \in Goroutine(S)
    BY <1>3, GoTypes DEF EncodeFails, EncodeTooLarge, WriterDone, WriterReturn
  <2> QED BY <1>3, <2>1
    DEF EncodeFails, EncodeTooLarge, WriterDone, WriterReturn, TypeOK,
        uiVars, downVars, closeVars, serverVars
<1> QED BY <1>1, <1>2, <1>3 DEF WriterStep

LEMMA ReaderType ==
  ASSUME TypeOK, ReaderStep PROVE TypeOK'
<1> DEFINE S == {"decoding", "pushing", "closing", "stopped"}
<1>1. CASE Decode
  <2>1. down' \in Seq(Nat) /\ Len(down') <= WireCap /\ Head(down) \in Nat
    BY <1>1, QueueFacts, Caps DEF Decode, TypeOK
  <2>2. reader' \in Goroutine(S)
    BY <1>1, <2>1, GoTypes DEF Decode
  <2> QED BY <1>1, <2>1, <2>2 DEF Decode, TypeOK, uiVars, upVars, closeVars, serverVars
<1>2. CASE Push
  <2>1. reader.frame \in Nat
    BY DEF TypeOK, Goroutine
  <2>2. incoming' \in Seq(Nat) /\ Len(incoming') <= IncomingCap
    BY <1>2, <2>1, QueueFacts, Caps DEF Push, TypeOK
  <2>3. reader' \in Goroutine(S)
    BY <1>2, GoTypes DEF Push
  <2> QED BY <1>2, <2>2, <2>3 DEF Push, TypeOK, uiVars, upVars, closeVars, serverVars
<1>3. CASE DecodeFails \/ PushDone \/ ReaderReturn
  <2>1. reader' \in Goroutine(S)
    BY <1>3, GoTypes DEF DecodeFails, PushDone, ReaderReturn
  <2> QED BY <1>3, <2>1
    DEF DecodeFails, PushDone, ReaderReturn, TypeOK, uiVars, upVars, closeVars, serverVars
<1> QED BY <1>1, <1>2, <1>3 DEF ReaderStep

LEMMA ListenerType ==
  ASSUME TypeOK, ListenerStep \/ Draw PROVE TypeOK'
<1> DEFINE S == {"waiting", "updating", "reporting", "stopped"}
<1>1. CASE ListenerTake
  <2>1. incoming' \in Seq(Nat) /\ Len(incoming') <= IncomingCap /\ Head(incoming) \in Nat
    BY <1>1, QueueFacts, Caps DEF ListenerTake, TypeOK
  <2>2. listener' \in Goroutine(S)
    BY <1>1, <2>1, GoTypes DEF ListenerTake
  <2> QED BY <1>1, <2>1, <2>2 DEF ListenerTake, TypeOK, uiVars, upVars, closeVars, serverVars
<1>2. CASE ListenerDone
  <2>1. listener' \in Goroutine(S)
    BY <1>2, GoTypes DEF ListenerDone
  <2> QED BY <1>2, <2>1 DEF ListenerDone, TypeOK, uiVars, upVars, closeVars, serverVars
<1>3. CASE Draw
  <2>1. listener' \in Goroutine(S)
    BY <1>3, GoTypes DEF Draw
  <2>2. shown' \in Seq(Nat)
    <3>1. listener.frame \in Nat /\ shown \in Seq(Nat)
      BY DEF TypeOK, Goroutine
    <3> QED BY <1>3, <3>1, QueueFacts DEF Draw
  <2> QED BY <1>3, <2>1, <2>2 DEF Draw, TypeOK, uiVars, upVars, closeVars, serverVars
<1> QED BY <1>1, <1>2, <1>3 DEF ListenerStep

LEMMA ServerType ==
  ASSUME TypeOK, Hear \/ Answer \/ Cut PROVE TypeOK'
<1>1. CASE Hear
  <2>1. up' \in Seq(Nat) /\ Len(up') <= WireCap /\ heard' \in Seq(Nat)
    BY <1>1, QueueFacts, Caps DEF Hear, TypeOK
  <2> QED BY <1>1, <2>1 DEF Hear, TypeOK, uiVars, downVars, closeVars, serverVars
<1>2. CASE Answer
  <2>1. pushed' \in Nat /\ down' \in Seq(Nat) /\ Len(down') <= WireCap
    BY <1>2, QueueFacts, Caps DEF Answer, TypeOK
  <2> QED BY <1>2, <2>1 DEF Answer, TypeOK, uiVars, upVars, closeVars
<1>3. CASE Cut
  <2>1. up' \in Seq(Nat) /\ Len(up') <= WireCap
    BY <1>3, Caps DEF Cut
  <2>2. down' \in Seq(Nat) /\ Len(down') <= WireCap
    BY <1>3, QueueFacts, Caps DEF Cut, TypeOK
  <2> QED BY <1>3, <2>1, <2>2 DEF Cut, TypeOK, uiVars, closeVars
<1> QED BY <1>1, <1>2, <1>3

LEMMA NextType == TypeOK /\ [Next]_vars => TypeOK'
<1> SUFFICES ASSUME TypeOK, [Next]_vars PROVE TypeOK'
  OBVIOUS
<1>1. CASE UNCHANGED vars
  BY <1>1 DEF vars, uiVars, upVars, downVars, closeVars, serverVars, TypeOK
<1>2. CASE Step
  BY <1>2, LoopType, WriterType, ReaderType, ListenerType, ServerType DEF Step
<1> QED BY <1>1, <1>2 DEF Next, Terminated

(* The channels of the client keep to their capacity and done is closed at   *)
(* most once, for any capacities and any number of frames.                   *)
THEOREM TypeCorrect == Spec => []TypeOK
BY InitType, NextType, PTL DEF Spec

-----------------------------------------------------------------------------
(* The frames in q carry the numbers after k. *)
From(k, q) == \A i \in 1 .. Len(q) : q[i] = k + i

LEMMA FromAppend ==
  ASSUME NEW q \in Seq(Nat), NEW k \in Nat, From(k, q)
  PROVE  /\ From(k, Append(q, k + Len(q) + 1))
         /\ Len(Append(q, k + Len(q) + 1)) = Len(q) + 1
<1> DEFINE r == Append(q, k + Len(q) + 1)
<1>1. /\ Len(q) \in Nat /\ Len(r) = Len(q) + 1
      /\ \A i \in 1 .. Len(q) : r[i] = q[i]
      /\ r[Len(q) + 1] = k + Len(q) + 1
  BY QueueFacts
<1> HIDE DEF r
<1>2. From(k, r)
  <2> SUFFICES ASSUME NEW i \in 1 .. Len(r) PROVE r[i] = k + i
    BY DEF From
  <2>1. CASE i \in 1 .. Len(q)
    BY <1>1, <2>1 DEF From
  <2>2. CASE i = Len(q) + 1
    BY <1>1, <2>2
  <2> QED BY <1>1, <2>1, <2>2
<1> QED BY <1>1, <1>2 DEF r

LEMMA FromTail ==
  ASSUME NEW q \in Seq(Nat), NEW k \in Nat, From(k, q), q # <<>>
  PROVE  /\ Head(q) = k + 1 /\ From(k + 1, Tail(q))
         /\ Len(q) >= 1 /\ Len(Tail(q)) = Len(q) - 1
<1>1. /\ Head(q) = q[1] /\ Len(q) \in Nat /\ Len(q) >= 1 /\ Len(Tail(q)) = Len(q) - 1
      /\ \A i \in 1 .. Len(q) - 1 : Tail(q)[i] = q[i + 1]
  BY QueueFacts
<1> QED BY <1>1 DEF From

LEMMA FromSub ==
  ASSUME NEW q \in Seq(Nat), NEW k \in Nat, From(k, q), NEW n \in 0 .. Len(q)
  PROVE  From(k, SubSeq(q, 1, n)) /\ Len(SubSeq(q, 1, n)) = n
BY QueueFacts DEF From

LEMMA FromEmpty == ASSUME NEW k \in Nat PROVE From(k, <<>>)
BY DEF From

-----------------------------------------------------------------------------
(* The way up.  What is on the wire follows what was heard; while the writer *)
(* can still put a frame there, what it holds follows the wire, and what is  *)
(* in the channel follows the writer.                                        *)

Encoding == IF writer.at = "encoding" THEN 1 ELSE 0
Calling  == IF ui = "sending" THEN 1 ELSE 0
Written  == Len(heard) + Len(up)

OnWire == From(Len(heard), up) /\ Written <= calls

Unwritten ==
  /\ writer.at = "encoding" => writer.frame = Written + 1
  /\ From(Written + Encoding, outgoing)
  /\ calls = Written + Encoding + Len(outgoing) + Calling

WriterLives == peer /\ ~socket /\ writer.at \in {"waiting", "encoding"}

UpInv == OnWire /\ (WriterLives => Unwritten)

LEMMA InitUp == Init => UpInv
<1> SUFFICES ASSUME Init PROVE UpInv
  OBVIOUS
<1>1. /\ up = <<>> /\ heard = <<>> /\ outgoing = <<>> /\ Len(<<>>) = 0
      /\ Written = 0 /\ Encoding = 0 /\ Calling = 0 /\ calls = 0 /\ writer.at # "encoding"
  BY DEF Init, Written, Encoding, Calling, At
<1> QED BY <1>1, FromEmpty DEF UpInv, OnWire, Unwritten

LEMMA UpTypes ==
  ASSUME TypeOK
  PROVE  /\ up \in Seq(Nat) /\ heard \in Seq(Nat) /\ outgoing \in Seq(Nat) /\ calls \in Nat
         /\ Len(up) \in Nat /\ Len(heard) \in Nat /\ Len(outgoing) \in Nat
         /\ Written = Len(heard) + Len(up) /\ Written \in Nat
         /\ Encoding \in Nat /\ Calling \in Nat
BY QueueFacts DEF TypeOK, Written, Encoding, Calling

LEMMA NextUp == TypeOK /\ UpInv /\ [Next]_vars => UpInv'
<1> SUFFICES ASSUME TypeOK, UpInv, [Next]_vars PROVE UpInv'
  OBVIOUS
<1> USE UpTypes
<1>1. CASE UNCHANGED vars \/ ReaderStep \/ ListenerStep \/ Draw \/ Close \/ Answer
  <2>1. UNCHANGED <<upVars, uiVars>> /\ (peer' => peer) /\ (~socket' => ~socket)
    BY <1>1 DEF vars, ReaderStep, Decode, DecodeFails, Push, PushDone, ReaderReturn,
       ListenerStep, ListenerTake, ListenerDone, Draw, Close, Answer, closeVars, serverVars
  <2> QED BY <2>1 DEF UpInv, OnWire, Unwritten, Written, WriterLives, Encoding, Calling,
          upVars, uiVars
<1>2. CASE Send
  <2>1. /\ UNCHANGED upVars /\ Written' = Written /\ Encoding' = Encoding
        /\ Calling = 0 /\ Calling' = 1 /\ calls' = calls + 1
        /\ WriterLives' = WriterLives
    BY <1>2 DEF Send, upVars, Written, Encoding, Calling, WriterLives, closeVars, serverVars
  <2> QED BY <2>1 DEF UpInv, OnWire, Unwritten, upVars
<1>3. CASE SendQueued
  <2>1. /\ UNCHANGED <<calls, writer, up, heard>> /\ Written' = Written /\ Encoding' = Encoding
        /\ Calling = 1 /\ Calling' = 0 /\ WriterLives' = WriterLives
        /\ outgoing' = Append(outgoing, calls)
    BY <1>3 DEF SendQueued, Written, Encoding, Calling, WriterLives, closeVars, serverVars
  <2>2. ASSUME Unwritten PROVE Unwritten'
    <3>1. calls = Written + Encoding + Len(outgoing) + 1 /\ From(Written + Encoding, outgoing)
      BY <2>1, <2>2 DEF Unwritten
    <3>2. From(Written + Encoding, outgoing') /\ Len(outgoing') = Len(outgoing) + 1
      <4>1. Written + Encoding \in Nat /\ calls = (Written + Encoding) + Len(outgoing) + 1
        BY <3>1
      <4> QED BY <2>1, <3>1, <4>1, FromAppend
    <3>3. /\ Written' + Encoding' = Written + Encoding
          /\ calls' = Written' + Encoding' + Len(outgoing') + Calling'
      BY <2>1, <3>1, <3>2
    <3>4. writer'.at = "encoding" => writer'.frame = Written' + 1
      BY <2>1, <2>2 DEF Unwritten
    <3> QED BY <3>2, <3>3, <3>4 DEF Unwritten
  <2> QED BY <2>1, <2>2 DEF UpInv, OnWire
<1>4. CASE SendDropped
  <2>1. ~WriterLives' /\ UNCHANGED upVars /\ Written' = Written /\ calls' = calls
    BY <1>4 DEF SendDropped, TypeOK, WriterLives, closeVars, Written, upVars
  <2> QED BY <2>1 DEF UpInv, OnWire, upVars
<1>5. CASE Quit \/ Exit
  <2>1. UNCHANGED <<upVars, closeVars, serverVars, calls>> /\ Calling = 0 /\ Calling' = 0
    BY <1>5 DEF Quit, Exit, Calling
  <2>2. Written' = Written /\ Encoding' = Encoding /\ WriterLives' = WriterLives
    BY <2>1 DEF upVars, closeVars, serverVars, Written, Encoding, WriterLives
  <2> QED BY <2>1, <2>2 DEF UpInv, OnWire, Unwritten, upVars
<1>6. CASE WriterTake
  <2>1. /\ UNCHANGED <<calls, up, heard>> /\ Written' = Written
        /\ Encoding = 0 /\ Encoding' = 1 /\ Calling' = Calling
        /\ WriterLives' = WriterLives /\ outgoing # <<>>
        /\ outgoing' = Tail(outgoing) /\ writer'.frame = Head(outgoing)
    BY <1>6 DEF WriterTake, Written, Encoding, Calling, WriterLives, With, uiVars, closeVars,
       serverVars
  <2>2. ASSUME Unwritten PROVE Unwritten'
    <3>1. From(Written, outgoing)
      BY <2>1, <2>2 DEF Unwritten
    <3>2. /\ writer'.frame = Written + 1 /\ From(Written + 1, outgoing')
          /\ Len(outgoing') = Len(outgoing) - 1
      BY <2>1, <3>1, FromTail
    <3>3. /\ Written' + Encoding' = Written + 1 /\ UNCHANGED <<calls, Calling>>
          /\ Written' + 1 = Written + 1
      BY <2>1
    <3>4. calls' = Written' + Encoding' + Len(outgoing') + Calling'
      BY <2>1, <2>2, <3>2, <3>3 DEF Unwritten
    <3> QED BY <3>2, <3>3, <3>4 DEF Unwritten
  <2> QED BY <2>1, <2>2 DEF UpInv, OnWire
<1>7. CASE Encode
  <2>1. CASE peer
    <3>1. /\ UNCHANGED <<calls, outgoing, heard>> /\ Encoding = 1 /\ Encoding' = 0
          /\ Calling' = Calling /\ writer'.at # "encoding" /\ WriterLives
          /\ up' = Append(up, writer.frame)
      BY <1>7, <2>1 DEF Encode, WriterLives, Encoding, Calling, uiVars, At
    <3>2. Unwritten /\ writer.frame = Len(heard) + Len(up) + 1 /\ From(Len(heard), up)
      BY <1>7, <3>1 DEF UpInv, OnWire, Unwritten, Encode
    <3>3. From(Len(heard), up') /\ Len(up') = Len(up) + 1
      BY <3>1, <3>2, FromAppend
    <3>4. Written' = Written + 1
      BY <3>1, <3>3 DEF Written
    <3>5. OnWire'
      BY <3>1, <3>2, <3>3, <3>4 DEF OnWire, Unwritten
    <3>6. Unwritten'
      <4>1. /\ Written' + Encoding' = Written + Encoding
            /\ UNCHANGED <<calls, outgoing, Calling>> /\ writer'.at # "encoding"
        BY <3>1, <3>4
      <4> QED BY <3>2, <4>1 DEF Unwritten
    <3> QED BY <3>5, <3>6 DEF UpInv
  <2>2. CASE ~peer
    BY <1>7, <2>2 DEF Encode, UpInv, OnWire, Written, WriterLives, serverVars, uiVars
  <2> QED BY <2>1, <2>2
<1>8. CASE EncodeFails \/ EncodeTooLarge \/ WriterDone \/ WriterReturn
  BY <1>8 DEF EncodeFails, EncodeTooLarge, WriterDone, WriterReturn, UpInv, OnWire, Written,
     WriterLives, uiVars, At
<1>9. CASE Hear
  <2>1. /\ UNCHANGED <<calls, outgoing, writer>> /\ Encoding' = Encoding /\ Calling' = Calling
        /\ WriterLives' = WriterLives /\ up # <<>> /\ up' = Tail(up)
        /\ heard' = Append(heard, Head(up)) /\ Head(up) \in Nat
    BY <1>9, QueueFacts DEF Hear, Encoding, Calling, WriterLives, uiVars, closeVars, serverVars
  <2>2. /\ From(Len(heard) + 1, up') /\ Len(up') = Len(up) - 1 /\ Len(heard') = Len(heard) + 1
    BY <2>1, FromTail, QueueFacts DEF UpInv, OnWire
  <2>3. Written' = Written
    BY <2>2 DEF Written
  <2> QED BY <2>1, <2>2, <2>3 DEF UpInv, OnWire, Unwritten
<1>10. CASE Cut
  <2>1. up' = <<>> /\ Len(<<>>) = 0 /\ UNCHANGED <<calls, heard>> /\ ~WriterLives'
    BY <1>10 DEF Cut, WriterLives, uiVars
  <2>2. Written' = Len(heard)
    BY <2>1 DEF Written
  <2> QED BY <2>1, <2>2, FromEmpty DEF UpInv, OnWire
<1> QED BY <1>1, <1>2, <1>3, <1>4, <1>5, <1>6, <1>7, <1>8, <1>9, <1>10
        DEF Next, Step, Terminated, WriterStep, LoopStep

(* The way up implements Stream: a step of the server's Decode hears the     *)
(* next number, every other step at most makes a call.                       *)
THEOREM UpIsAStream == Spec => UpIsStream
<1>1. Init => UpStream!Init
  BY DEF Init, UpStream!Init
<1>2. TypeOK /\ UpInv /\ [Next]_vars => [UpStream!Next]_<<calls, heard>>
  <2> SUFFICES ASSUME TypeOK, UpInv, [Next]_vars PROVE [UpStream!Next]_<<calls, heard>>
    OBVIOUS
  <2>1. CASE Send
    BY <2>1 DEF Send, upVars, UpStream!Next, UpStream!Say
  <2>2. CASE Hear
    <3>1. Head(up) = Len(heard) + 1 /\ Len(heard) < calls
      BY <2>2, UpTypes, FromTail DEF Hear, UpInv, OnWire
    <3> QED BY <2>2, <3>1 DEF Hear, uiVars, UpStream!Next, UpStream!Hear
  <2>3. CASE UNCHANGED vars \/ SendQueued \/ SendDropped \/ Quit \/ Exit \/ Draw \/ Close
             \/ WriterStep \/ EncodeTooLarge \/ ReaderStep \/ ListenerStep \/ Answer \/ Cut
    BY <2>3 DEF vars, SendQueued, SendDropped, Quit, Exit, Draw, Close, WriterStep, WriterTake,
       Encode, EncodeFails, EncodeTooLarge, WriterDone, WriterReturn, ReaderStep, Decode,
       DecodeFails, Push, PushDone, ReaderReturn, ListenerStep, ListenerTake, ListenerDone,
       Answer, Cut, uiVars, upVars
  <2> QED BY <2>1, <2>2, <2>3 DEF Next, Step, Terminated, LoopStep
<1> QED BY <1>1, <1>2, TypeCorrect, InitType, NextType, InitUp, NextUp, PTL
        DEF Spec, UpIsStream, UpStream!Spec
-----------------------------------------------------------------------------
(* The way down.  What the listener holds follows what was shown, what is in *)
(* the channel follows the listener; while the reader reads, what it holds   *)
(* follows the channel, and the wire follows the reader.                     *)

Updating == IF listener.at = "updating" THEN 1 ELSE 0
Pushing  == IF reader.at = "pushing" THEN 1 ELSE 0
Received == Len(shown) + Updating + Len(incoming)

InChannel ==
  /\ listener.at = "updating" => listener.frame = Len(shown) + 1
  /\ From(Len(shown) + Updating, incoming)
  /\ Received <= pushed

Unread ==
  /\ reader.at = "pushing" => reader.frame = Received + 1
  /\ From(Received + Pushing, down)
  /\ Received + Pushing + Len(down) <= pushed
  /\ peer => Received + Pushing + Len(down) = pushed

ReaderLives == reader.at \in {"decoding", "pushing"}

DownInv == InChannel /\ (ReaderLives => Unread)

LEMMA InitDown == Init => DownInv
<1> SUFFICES ASSUME Init PROVE DownInv
  OBVIOUS
<1>1. /\ down = <<>> /\ incoming = <<>> /\ shown = <<>> /\ Len(<<>>) = 0
      /\ Updating = 0 /\ Pushing = 0 /\ pushed = 0
      /\ listener.at # "updating" /\ reader.at # "pushing"
  BY DEF Init, Updating, Pushing, At
<1>2. Received = 0
  BY <1>1 DEF Received
<1> QED BY <1>1, <1>2, FromEmpty DEF DownInv, InChannel, Unread

LEMMA DownTypes ==
  ASSUME TypeOK
  PROVE  /\ down \in Seq(Nat) /\ shown \in Seq(Nat) /\ incoming \in Seq(Nat) /\ pushed \in Nat
         /\ Len(down) \in Nat /\ Len(shown) \in Nat /\ Len(incoming) \in Nat
         /\ Received = Len(shown) + Updating + Len(incoming) /\ Received \in Nat
         /\ Updating \in Nat /\ Pushing \in Nat
BY QueueFacts DEF TypeOK, Received, Updating, Pushing

LEMMA NextDown == TypeOK /\ DownInv /\ [Next]_vars => DownInv'
<1> SUFFICES ASSUME TypeOK, DownInv, [Next]_vars PROVE DownInv'
  OBVIOUS
<1> USE DownTypes
<1>1. CASE \/ UNCHANGED vars \/ Send \/ SendQueued \/ SendDropped \/ Quit \/ Exit \/ Close
           \/ WriterStep \/ EncodeTooLarge \/ Hear
  <2>1. UNCHANGED <<downVars, serverVars>>
    BY <1>1 DEF vars, Send, SendQueued, SendDropped, Quit, Exit, Close, WriterStep, WriterTake,
       Encode, EncodeFails, EncodeTooLarge, WriterDone, WriterReturn, Hear
  <2> QED BY <2>1 DEF DownInv, InChannel, Unread, Received, ReaderLives, Updating, Pushing,
          downVars, serverVars
<1>2. CASE Decode
  <2>1. /\ UNCHANGED <<incoming, listener, shown, peer, pushed>> /\ Updating' = Updating
        /\ Received' = Received /\ Pushing = 0 /\ Pushing' = 1 /\ ReaderLives
        /\ down # <<>> /\ down' = Tail(down) /\ reader'.frame = Head(down)
    BY <1>2 DEF Decode, Updating, Received, Pushing, ReaderLives, With, serverVars
  <2>2. Unread /\ From(Received, down)
    BY <2>1 DEF DownInv, Unread
  <2>3. /\ reader'.frame = Received + 1 /\ From(Received + 1, down')
        /\ Len(down') = Len(down) - 1
    BY <2>1, <2>2, FromTail
  <2>4. Received' + Pushing' = Received + 1 /\ Received' + 1 = Received + 1
    BY <2>1
  <2>5. Received' + Pushing' + Len(down') = Received + Pushing + Len(down)
    BY <2>1, <2>3
  <2>6. Unread'
    BY <2>1, <2>2, <2>3, <2>4, <2>5 DEF Unread
  <2>7. InChannel'
    BY <2>1 DEF DownInv, InChannel
  <2> QED BY <2>6, <2>7 DEF DownInv
<1>3. CASE DecodeFails \/ PushDone \/ ReaderReturn
  <2>1. UNCHANGED <<incoming, listener, shown, pushed>> /\ ~ReaderLives'
    BY <1>3 DEF DecodeFails, PushDone, ReaderReturn, ReaderLives, At, serverVars
  <2>2. Updating' = Updating
    BY <2>1 DEF Updating
  <2>3. Received' = Received
    BY <2>1, <2>2 DEF Received
  <2> QED BY <2>1, <2>2, <2>3 DEF DownInv, InChannel
<1>4. CASE Push
  <2>1. /\ UNCHANGED <<listener, shown, down, peer, pushed>> /\ Updating' = Updating
        /\ Pushing = 1 /\ Pushing' = 0 /\ ReaderLives /\ reader.at = "pushing"
        /\ reader'.at # "pushing" /\ incoming' = Append(incoming, reader.frame)
    BY <1>4 DEF Push, Updating, Pushing, ReaderLives, At, serverVars
  <2>2. Unread /\ reader.frame = Received + 1 /\ InChannel
    BY <2>1 DEF DownInv, Unread
  <2>3. From(Len(shown) + Updating, incoming') /\ Len(incoming') = Len(incoming) + 1
    <3>1. /\ Len(shown) + Updating \in Nat
          /\ reader.frame = (Len(shown) + Updating) + Len(incoming) + 1
      BY <2>2
    <3> QED BY <2>1, <2>2, <3>1, FromAppend DEF InChannel
  <2>4. Received' = Received + 1
    BY <2>1, <2>3 DEF Received
  <2>5. Received' + Pushing' = Received + Pushing
    BY <2>1, <2>4
  <2>6. InChannel'
    BY <2>1, <2>2, <2>3, <2>4 DEF InChannel, Unread
  <2>7. Unread'
    BY <2>1, <2>2, <2>5 DEF Unread
  <2> QED BY <2>6, <2>7 DEF DownInv
<1>5. CASE ListenerTake
  <2>1. /\ UNCHANGED <<reader, shown, down, peer, pushed, Pushing>>
        /\ Updating = 0 /\ Updating' = 1 /\ ReaderLives' = ReaderLives
        /\ incoming # <<>> /\ incoming' = Tail(incoming) /\ listener'.frame = Head(incoming)
    BY <1>5 DEF ListenerTake, Updating, Pushing, ReaderLives, With, serverVars
  <2>2. From(Len(shown), incoming) /\ Received <= pushed
    BY <2>1 DEF DownInv, InChannel
  <2>3. /\ listener'.frame = Len(shown) + 1 /\ From(Len(shown) + 1, incoming')
        /\ Len(incoming') = Len(incoming) - 1
    BY <2>1, <2>2, FromTail
  <2>4. Received' = Received
    BY <2>1, <2>3 DEF Received
  <2>5. Len(shown') + Updating' = Len(shown) + 1
    BY <2>1
  <2>6. InChannel'
    BY <2>1, <2>2, <2>3, <2>4, <2>5 DEF InChannel
  <2>7. Unread => Unread'
    BY <2>1, <2>4 DEF Unread
  <2> QED BY <2>1, <2>6, <2>7 DEF DownInv
<1>6. CASE ListenerDone
  <2>1. /\ UNCHANGED <<incoming, reader, shown, down, peer, pushed, Pushing, Updating>>
        /\ ReaderLives' = ReaderLives /\ listener'.at # "updating"
    BY <1>6 DEF ListenerDone, Updating, Pushing, ReaderLives, At, serverVars
  <2>2. Received' = Received
    BY <2>1 DEF Received
  <2> QED BY <2>1, <2>2 DEF DownInv, InChannel, Unread
<1>7. CASE Draw
  <2>1. CASE listener.at = "updating"
    <3>1. /\ UNCHANGED <<incoming, reader, down, peer, pushed, Pushing>>
          /\ Updating = 1 /\ Updating' = 0 /\ ReaderLives' = ReaderLives
          /\ listener'.at # "updating" /\ shown' = Append(shown, listener.frame)
          /\ listener.frame = Len(shown) + 1
      BY <1>7, <2>1 DEF Draw, Updating, Pushing, ReaderLives, At, serverVars, DownInv, InChannel
    <3>2. Len(shown') = Len(shown) + 1
      BY <3>1, QueueFacts
    <3>3. Len(shown') + Updating' = Len(shown) + Updating /\ Received' = Received
      BY <3>1, <3>2 DEF Received
    <3>4. InChannel'
      BY <3>1, <3>3 DEF DownInv, InChannel
    <3>5. Unread => Unread'
      BY <3>1, <3>3 DEF Unread
    <3> QED BY <3>1, <3>4, <3>5 DEF DownInv
  <2>2. CASE listener.at # "updating"
    <3>1. /\ UNCHANGED <<incoming, reader, shown, down, peer, pushed, Pushing, Updating>>
          /\ ReaderLives' = ReaderLives /\ listener'.at # "updating"
      BY <1>7, <2>2 DEF Draw, Updating, Pushing, ReaderLives, At, serverVars
    <3>2. Received' = Received
      BY <3>1 DEF Received
    <3> QED BY <3>1, <3>2 DEF DownInv, InChannel, Unread
  <2> QED BY <2>1, <2>2
<1>8. CASE Answer
  <2>1. /\ UNCHANGED <<incoming, reader, listener, shown, Pushing, Updating>>
        /\ peer /\ peer' /\ pushed' = pushed + 1
        /\ down' = Append(down, pushed + 1) /\ ReaderLives' = ReaderLives
    BY <1>8 DEF Answer, Updating, Pushing, ReaderLives
  <2>2. Received' = Received
    BY <2>1 DEF Received
  <2>3. InChannel'
    BY <2>1, <2>2 DEF DownInv, InChannel
  <2>4. ASSUME Unread PROVE Unread'
    <3>1. /\ From(Received + Pushing, down) /\ Received + Pushing \in Nat
          /\ pushed + 1 = (Received + Pushing) + Len(down) + 1
      BY <2>1, <2>4 DEF Unread
    <3>2. From(Received + Pushing, down') /\ Len(down') = Len(down) + 1
      BY <2>1, <3>1, FromAppend
    <3>3. Received' + Pushing' = Received + Pushing
      BY <2>1, <2>2
    <3>4. Received' + Pushing' + Len(down') = pushed'
      BY <2>1, <3>1, <3>2, <3>3
    <3>5. pushed' \in Nat
      BY <2>1
    <3> QED BY <2>1, <2>2, <2>4, <3>2, <3>3, <3>4, <3>5 DEF Unread
  <2> QED BY <2>1, <2>3, <2>4 DEF DownInv
<1>9. CASE Cut
  <2>1. /\ UNCHANGED <<incoming, reader, listener, shown, pushed, Pushing, Updating>>
        /\ ~peer' /\ ReaderLives' = ReaderLives
    BY <1>9 DEF Cut, Updating, Pushing, ReaderLives
  <2>2. Received' = Received /\ Received' + Pushing' = Received + Pushing
    BY <2>1 DEF Received
  <2>3. PICK k \in 0 .. Len(down) : down' = SubSeq(down, 1, k)
    BY <1>9 DEF Cut
  <2>4. InChannel'
    BY <2>1, <2>2 DEF DownInv, InChannel
  <2>5. ASSUME Unread PROVE Unread'
    <3>1. From(Received + Pushing, down) /\ Received + Pushing \in Nat
      BY <2>5 DEF Unread
    <3>2. From(Received + Pushing, down') /\ Len(down') = k
      BY <2>3, <3>1, FromSub
    <3>3. Received' + Pushing' + Len(down') <= pushed'
      BY <2>1, <2>2, <2>3, <2>5, <3>2 DEF Unread
    <3> QED BY <2>1, <2>2, <2>5, <3>2, <3>3 DEF Unread
  <2> QED BY <2>1, <2>4, <2>5 DEF DownInv
<1> QED BY <1>1, <1>2, <1>3, <1>4, <1>5, <1>6, <1>7, <1>8, <1>9
        DEF Next, Step, Terminated, ReaderStep, ListenerStep, LoopStep

(* The way down implements Stream: the closure the listener queued hears the *)
(* next number, and only the server's writer says one.                       *)
THEOREM DownIsAStream == Spec => DownIsStream
<1>1. Init => DownStream!Init
  BY DEF Init, DownStream!Init
<1>2. TypeOK /\ DownInv /\ [Next]_vars => [DownStream!Next]_<<pushed, shown>>
  <2> SUFFICES ASSUME TypeOK, DownInv, [Next]_vars PROVE [DownStream!Next]_<<pushed, shown>>
    OBVIOUS
  <2>1. CASE Answer
    BY <2>1 DEF Answer, DownStream!Next, DownStream!Say
  <2>2. CASE Draw /\ listener.at = "updating"
    <3>1. listener.frame = Len(shown) + 1 /\ Len(shown) < pushed
      BY <2>2, DownTypes DEF DownInv, InChannel, Updating
    <3> QED BY <2>2, <3>1 DEF Draw, serverVars, DownStream!Next, DownStream!Hear
  <2>3. CASE Draw /\ listener.at # "updating"
    BY <2>3 DEF Draw, serverVars
  <2>4. CASE \/ UNCHANGED vars \/ Send \/ SendQueued \/ SendDropped \/ Quit \/ Exit \/ Close
             \/ WriterStep \/ EncodeTooLarge \/ ReaderStep \/ ListenerStep \/ Hear \/ Cut
    BY <2>4 DEF vars, Send, SendQueued, SendDropped, Quit, Exit, Close, WriterStep, WriterTake,
       Encode, EncodeFails, EncodeTooLarge, WriterDone, WriterReturn, ReaderStep, Decode,
       DecodeFails, Push, PushDone, ReaderReturn, ListenerStep, ListenerTake, ListenerDone,
       Hear, Cut, downVars, serverVars
  <2> QED BY <2>1, <2>2, <2>3, <2>4 DEF Next, Step, Terminated, LoopStep
<1> QED BY <1>1, <1>2, TypeCorrect, InitType, NextType, InitDown, NextDown, PTL
        DEF Spec, DownIsStream, DownStream!Spec
=============================================================================
