\* Five calls of two users, each any endpoint, with database errors.  A run ends
\* when all calls are answered.
CONSTANTS
  Users = {alice, bob}
  Calls = {c1, c2, c3, c4, c5}
  Operations = {"add", "create", "accept", "decline", "cancel", "remove"}
  DbFaults = TRUE
  None = None
SYMMETRY Interchangeable
SPECIFICATION Spec
INVARIANTS
  TypeOK
  ResolvedOnce
  ConsentIsRespected
CHECK_DEADLOCK FALSE
