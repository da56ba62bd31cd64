\* Crossed requests and mutual removals under the fairness of the server.  A run
\* ends when all calls are answered.
CONSTANTS
  Users = {alice, bob}
  Calls = {c1, c2, c3, c4}
  Operations = {"create", "accept", "remove"}
  DbFaults = FALSE
  None = None
SPECIFICATION FairSpec
PROPERTY EveryCallIsAnswered
CHECK_DEADLOCK FALSE
