---------------------------- MODULE RateLimiter ----------------------------
(***************************************************************************)
(* consumeToken: the limiter of the chat messages of one connection.  Only *)
(* the connection's read loop calls it.  Time is counted in units of which *)
(* TokenTime make up the 200 ms one token takes (5 per second), so that    *)
(* int(elapsed * ratePerSec) is elapsed \div TokenTime.                    *)
(*                                                                         *)
(* Beside the code's state runs an exact bucket: it holds at most the time *)
(* of maxTokens tokens, gains one unit per unit of time and pays TokenTime *)
(* for every message the code lets through.  If it never goes below zero,  *)
(* the code admits at most maxTokens + t \div TokenTime messages in any t  *)
(* units of time.                                                          *)
(***************************************************************************)
EXTENDS Integers

CONSTANTS
  MaxTokens,  \* const maxTokens (5)
  TokenTime,  \* units of time per token
  MaxTime     \* bound of the model: when the clock stops

ASSUME RateAssumption ==
  /\ MaxTokens \in Nat \ {0} /\ TokenTime \in Nat \ {0}
  /\ MaxTime \in Nat

VARIABLES
  now,       \* time.Now()
  fresh,     \* lastRefill.IsZero()
  last,      \* clientConn.lastRefill
  tokens,    \* clientConn.msgTokens
  admitted,  \* when a message was last let through
  exact,     \* the exact bucket
  verdict    \* what consumeToken returned last: "none", "sent" or "refused"

vars == <<now, fresh, last, tokens, admitted, exact, verdict>>

Size == MaxTokens * TokenTime

AtMost(x, y) == IF x > y THEN y ELSE x

Init ==
  /\ now = 0 /\ fresh = TRUE /\ last = 0 /\ tokens = 0
  /\ admitted = 0 /\ exact = Size /\ verdict = "none"

Tick ==
  /\ now < MaxTime
  /\ now' = now + 1
  /\ exact' = AtMost(exact + 1, Size)
  /\ UNCHANGED <<fresh, last, tokens, admitted, verdict>>

Earned == (now - last) \div TokenTime

(* Variant: the bucket has no capacity. *)
RefilledUncapped == IF fresh THEN MaxTokens ELSE tokens + Earned

(* The tokens and the refill time a call works with. *)
Refilled == IF fresh THEN MaxTokens ELSE AtMost(tokens + Earned, MaxTokens)

(* Variant: lastRefill stays at the first call. *)
RefillTimeFirst == IF fresh THEN now ELSE last

(* Variant: the time of every call counts as a refill. *)
RefillTimeAlways == now

RefillTime == IF fresh \/ Earned > 0 THEN now ELSE last

Admit ==
  /\ Refilled > 0
  /\ tokens' = Refilled - 1
  /\ exact' = exact - TokenTime
  /\ admitted' = now
  /\ verdict' = "sent"

Refuse ==
  /\ Refilled <= 0
  /\ tokens' = Refilled
  /\ verdict' = "refused"
  /\ UNCHANGED <<admitted, exact>>

ConsumeToken ==
  /\ fresh' = FALSE
  /\ last' = RefillTime
  /\ Admit \/ Refuse
  /\ UNCHANGED now

Next == Tick \/ ConsumeToken \/ (now = MaxTime /\ UNCHANGED vars)

Spec == Init /\ [][Next]_vars

-----------------------------------------------------------------------------
(* The counter stays between zero and maxTokens and no refill is recorded in *)
(* the future.                                                               *)
TypeOK ==
  /\ now \in Nat /\ fresh \in BOOLEAN /\ last \in Nat /\ admitted \in Nat
  /\ tokens \in 0 .. MaxTokens
  /\ exact \in Int /\ exact <= Size
  /\ verdict \in {"none", "sent", "refused"}
  /\ last <= admitted /\ admitted <= now

(* "token-bucket rate limiter (5 msgs/sec burst 5)" (client_handler.go:356): *)
(* however the calls are spaced, consumeToken admits no more than the exact  *)
(* bucket does, although it keeps the time since the last refill when a call *)
(* earns nothing.                                                            *)
WithinBucket == exact >= 0

(* A client gets a message through whenever the time of one token has passed *)
(* since its last one, however hastily it retried in between: a refused call *)
(* must not restart the clock, and truncation must not lose a whole token.   *)
RetryIsServed ==
  [][ConsumeToken /\ (fresh \/ now - admitted >= TokenTime) => verdict' = "sent"]_vars
=============================================================================
