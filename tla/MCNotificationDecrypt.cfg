\* Three calls, each of either process and for any envelope, with a lock that may
\* expire at any time.  A run ends when all calls have ended.
CONSTANTS
  r1 = r1  r2 = r2  r3 = r3
  e1 = e1  e2 = e2  copy = copy  hello = hello  other = other
  Receivers = {r1, r2, r3}
  Envelopes = {e1, e2, copy, hello}
  Id <- MCId
  Version <- MCVersion
  Damaged = {copy}
  Chain <- MCChain
  Number <- MCNumber
  Others = {other}
  Seq <- MCSeq
  MaxWalk = 2
  None = None
SPECIFICATION Spec
SYMMETRY Alike
INVARIANTS TypeOK PlaintextIsBound OldestIsFetched NothingIsLost
PROPERTY NeverAdvancedTwice
CHECK_DEADLOCK FALSE
