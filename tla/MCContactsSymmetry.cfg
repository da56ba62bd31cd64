\* The endpoints that the mobile client calls, and the claim that contacts are
\* symmetric.  A run ends when all calls are answered.
CONSTANTS
  Users = {alice, bob}
  Calls = {c1, c2, c3, c4, c5}
  Operations = {"create", "accept", "decline", "cancel", "remove"}
  DbFaults = FALSE
  None = None
SYMMETRY Interchangeable
SPECIFICATION Spec
INVARIANT SymmetricContacts
CHECK_DEADLOCK FALSE
