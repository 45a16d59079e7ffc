CONSTANTS
  MaxTokens = 5
  TokenTime = 4
  MaxTime = 40
SPECIFICATION Spec
INVARIANTS TypeOK WithinBucket
PROPERTY RetryIsServed
