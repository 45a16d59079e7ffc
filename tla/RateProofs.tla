---------------------------- MODULE RateProofs ----------------------------
(***************************************************************************)
(* The limiter's properties for every bucket size, token time and spacing  *)
(* of the calls.                                                           *)
(***************************************************************************)
EXTENDS RateLimiter, TLAPS

(* What makes the bound inductive: between calls the counter is below its    *)
(* maximum, for the call that fills it also spends one, so the tokens and    *)
(* the unspent time together are never worth more than the exact bucket.     *)
Worth == tokens * TokenTime + (now - last)

Inv ==
  /\ TypeOK
  /\ fresh => exact = Size
  /\ ~fresh => tokens < MaxTokens /\ exact >= AtMost(Worth, Size)

(* Integer division by the time of a token, as the provers need it. *)
LEMMA EarnedBounds ==
  ASSUME TypeOK
  PROVE  /\ Earned \in Nat
         /\ Earned * TokenTime <= now - last
         /\ now - last < (Earned + 1) * TokenTime
  BY RateAssumption DEF Earned, TypeOK

(* A counter below its maximum is worth less than the full bucket. *)
LEMMA Monotone ==
  ASSUME NEW i \in Int, NEW j \in Int, NEW t \in Nat, i <= j
  PROVE  i * t <= j * t
  OBVIOUS

LEMMA InitInv == Init => Inv
  BY RateAssumption DEF Init, Inv, TypeOK, Size

LEMMA NextInv == Inv /\ [Next]_vars => Inv'
<1> SUFFICES ASSUME Inv, [Next]_vars PROVE Inv'
  OBVIOUS
<1> USE RateAssumption
<1>s. Size \in Nat /\ Size' = Size
  BY DEF Size
<1>1. CASE Tick
  <2>1. TypeOK'
    BY <1>1, <1>s DEF Inv, TypeOK, Tick, AtMost
  <2>2. (fresh => exact = Size)'
    BY <1>1, <1>s DEF Inv, TypeOK, Tick, AtMost, Size
  <2>3. ASSUME ~fresh PROVE (tokens < MaxTokens /\ exact >= AtMost(Worth, Size))'
    <3>1. tokens * TokenTime \in Int
      BY DEF Inv, TypeOK
    <3>2. Worth \in Int /\ Worth' = Worth + 1 /\ Size' = Size
      BY <1>1, <3>1 DEF Inv, TypeOK, Tick, Worth, Size
    <3> QED
      BY <1>1, <1>s, <2>3, <3>2 DEF Inv, TypeOK, Tick, AtMost
  <2> QED BY <1>1, <2>1, <2>2, <2>3 DEF Inv, Tick
<1>2. CASE ConsumeToken
  <2>1. /\ Earned \in Nat
        /\ Earned * TokenTime <= now - last
        /\ now - last < (Earned + 1) * TokenTime
    BY EarnedBounds DEF Inv
  <2>2. Refilled \in 0 .. MaxTokens
    BY <2>1 DEF Refilled, AtMost, Inv, TypeOK
  <2>3. Refilled * TokenTime + (now - RefillTime) <= exact
    <3>1. CASE fresh
      BY <3>1 DEF Refilled, RefillTime, Inv, TypeOK, Size
    <3>2. CASE ~fresh /\ Earned > 0
      <4>1. Refilled <= MaxTokens /\ Refilled <= tokens + Earned /\ RefillTime = now
        BY <2>1, <3>2 DEF Refilled, RefillTime, AtMost, Inv, TypeOK
      <4>2. Refilled * TokenTime <= Size
        BY <2>2, <4>1, Monotone DEF Size
      <4>3. Refilled * TokenTime <= (tokens + Earned) * TokenTime
        BY <2>1, <2>2, <4>1, Monotone DEF Inv, TypeOK
      <4>4. (tokens + Earned) * TokenTime = tokens * TokenTime + Earned * TokenTime
        BY <2>1 DEF Inv, TypeOK
      <4>5. /\ Refilled * TokenTime \in Int /\ tokens * TokenTime \in Int
            /\ Earned * TokenTime \in Int /\ (tokens + Earned) * TokenTime \in Int
        BY <2>1, <2>2 DEF Inv, TypeOK
      <4>6. exact >= AtMost(tokens * TokenTime + (now - last), Size)
        BY <3>2 DEF Inv, Worth
      <4> HIDE DEF Refilled, Earned
      <4>7. Refilled * TokenTime <= exact
        BY <1>s, <2>1, <4>2, <4>3, <4>4, <4>5, <4>6 DEF AtMost, Inv, TypeOK
      <4> QED BY <4>1, <4>5, <4>7 DEF Inv, TypeOK
    <3>3. CASE ~fresh /\ Earned = 0
      <4>1. Refilled = tokens /\ RefillTime = last
        BY <2>1, <3>3 DEF Refilled, RefillTime, AtMost, Inv, TypeOK
      <4>2. now - last < TokenTime
        BY <2>1, <3>3
      <4>3. tokens * TokenTime <= (MaxTokens - 1) * TokenTime
        BY <3>3, Monotone DEF Inv, TypeOK
      <4>4. (MaxTokens - 1) * TokenTime = Size - TokenTime
        BY DEF Size
      <4>5. tokens * TokenTime \in Int /\ exact >= AtMost(tokens * TokenTime + (now - last), Size)
        BY <3>3 DEF Inv, Worth, TypeOK
      <4>6. tokens * TokenTime + (now - last) <= exact
        BY <1>s, <4>2, <4>3, <4>4, <4>5 DEF AtMost, Inv, TypeOK
      <4> QED BY <4>1, <4>6
    <3> QED BY <2>1, <3>1, <3>2, <3>3
  <2>4. RefillTime \in Nat /\ RefillTime <= now
    BY DEF RefillTime, Inv, TypeOK
  <2>5. CASE Admit
    <3>1. TypeOK'
      <4>1. /\ tokens' = Refilled - 1 /\ exact' = exact - TokenTime /\ verdict' = "sent"
            /\ fresh' = FALSE /\ last' = RefillTime /\ admitted' = now /\ now' = now
        BY <1>2, <2>5 DEF ConsumeToken, Admit
      <4>2. tokens' \in 0 .. MaxTokens
        BY <2>2, <2>5, <4>1 DEF Admit
      <4>3. exact' \in Int /\ exact' <= Size
        BY <1>s, <4>1 DEF Inv, TypeOK
      <4>4. fresh' \in BOOLEAN /\ verdict' \in {"none", "sent", "refused"}
        BY <4>1, Zenon
      <4>5. /\ now' \in Nat /\ last' \in Nat /\ admitted' \in Nat
            /\ last' <= admitted' /\ admitted' <= now'
        BY <2>4, <4>1 DEF Inv, TypeOK
      <4> QED BY <1>s, <4>2, <4>3, <4>4, <4>5, Zenon DEF TypeOK
    <3>2. tokens' < MaxTokens /\ ~fresh'
      BY <1>2, <2>2, <2>5 DEF ConsumeToken, Admit
    <3>3. Worth' = Refilled * TokenTime + (now - RefillTime) - TokenTime
      <4>1. (Refilled - 1) * TokenTime = Refilled * TokenTime - TokenTime
        BY <2>2
      <4>2. Worth' = (Refilled - 1) * TokenTime + (now - RefillTime)
        BY <1>2, <2>5 DEF ConsumeToken, Admit, Worth
      <4>3. Refilled * TokenTime \in Int
        BY <2>2
      <4> QED BY <2>4, <4>1, <4>2, <4>3 DEF Inv, TypeOK
    <3>4. exact' = exact - TokenTime
      BY <2>5 DEF Admit
    <3>5. Refilled * TokenTime \in Int
      BY <2>2
    <3>6. Worth' <= exact' /\ Worth' \in Int
      BY <2>3, <2>4, <3>3, <3>4, <3>5 DEF Inv, TypeOK
    <3>7. (exact >= AtMost(Worth, Size))'
      BY <1>s, <3>1, <3>6 DEF AtMost, Size, TypeOK
    <3> QED BY <3>1, <3>2, <3>7 DEF Inv
  <2>6. CASE Refuse
    <3>1. Refilled = 0 /\ tokens' = 0 /\ exact' = exact
      BY <2>2, <2>6 DEF Refuse
    <3>2. RefillTime = last /\ ~fresh
      BY <2>1, <3>1 DEF Refilled, RefillTime, AtMost, Inv, TypeOK
    <3>3. TypeOK'
      <4>1. /\ tokens' = 0 /\ exact' = exact /\ verdict' = "refused"
            /\ fresh' = FALSE /\ last' = last /\ admitted' = admitted /\ now' = now
        BY <1>2, <2>6, <3>1, <3>2 DEF ConsumeToken, Refuse
      <4>2. fresh' \in BOOLEAN /\ verdict' \in {"none", "sent", "refused"}
        BY <4>1, Zenon
      <4>3. /\ now' \in Nat /\ last' \in Nat /\ admitted' \in Nat
            /\ last' <= admitted' /\ admitted' <= now'
            /\ tokens' \in 0 .. MaxTokens /\ exact' \in Int /\ exact' <= Size
        BY <4>1 DEF Inv, TypeOK
      <4> QED BY <1>s, <4>2, <4>3, Zenon DEF TypeOK
    <3>4. Worth' = now - RefillTime /\ ~fresh'
      BY <1>2, <2>4, <3>1 DEF ConsumeToken, Worth, Inv, TypeOK
    <3>5. now - RefillTime <= exact'
      BY <2>3, <2>4, <3>1 DEF Inv, TypeOK
    <3>6. (exact >= AtMost(Worth, Size))'
      BY <1>s, <2>4, <3>3, <3>4, <3>5 DEF AtMost, Size, TypeOK, Inv
    <3> QED BY <3>1, <3>3, <3>4, <3>6 DEF Inv
  <2> QED BY <1>2, <2>5, <2>6 DEF ConsumeToken
<1>3. CASE UNCHANGED vars
  BY <1>3 DEF vars, Inv, TypeOK, Worth, Size
<1> QED BY <1>1, <1>2, <1>3 DEF Next

(* The exact bucket is never overdrawn once the invariant holds. *)
LEMMA InvBounded == Inv => WithinBucket
  <1> SUFFICES ASSUME Inv PROVE exact >= 0
    BY DEF WithinBucket
  <1> USE RateAssumption
  <1>1. Size \in Nat
    BY DEF Size
  <1>2. tokens * TokenTime \in Nat /\ now - last \in Nat
    BY DEF Inv, TypeOK
  <1> QED BY <1>1, <1>2 DEF Inv, TypeOK, Worth, AtMost

(* The limiter's state is always well formed. *)
THEOREM TypeCorrect == Spec => []TypeOK
<1>1. Inv => TypeOK
  BY DEF Inv
<1> QED BY InitInv, NextInv, <1>1, PTL DEF Spec

(* However a client spaces its messages, no more of them pass than an exact  *)
(* bucket of maxTokens that earns one token per TokenTime would let through. *)
THEOREM NeverTooMany == Spec => []WithinBucket
  BY InitInv, NextInv, InvBounded, PTL DEF Spec

(* A message is let through when the last one was a token's time ago. *)
THEOREM RetriesAreServed == Spec => RetryIsServed
<1>1. Inv /\ [Next]_vars =>
        [ConsumeToken /\ (fresh \/ now - admitted >= TokenTime) => verdict' = "sent"]_vars
  <2> SUFFICES ASSUME Inv, ConsumeToken, fresh \/ now - admitted >= TokenTime
               PROVE  verdict' = "sent"
    OBVIOUS
  <2> USE RateAssumption
  <2>1. Earned \in Nat /\ now - last < (Earned + 1) * TokenTime
    BY EarnedBounds DEF Inv
  <2>2. fresh \/ Earned > 0
    BY <2>1 DEF Inv, TypeOK
  <2>3. Refilled > 0
    BY <2>1, <2>2 DEF Refilled, AtMost, Inv, TypeOK
  <2>4. Refilled \in Int
    BY <2>1 DEF Refilled, AtMost, Inv, TypeOK
  <2>5. ~Refuse
    BY <2>3, <2>4 DEF Refuse
  <2> QED BY <2>5 DEF ConsumeToken, Admit
<1> QED BY InitInv, NextInv, <1>1, PTL DEF Spec, RetryIsServed
=============================================================================
