\* bob is connected over WebSocket and connects again over QUIC: registration,
\* replacement, cleanup and one message, under the fairness of the tasks.  The client of
\* b1, the one that is replaced, reads; the others may stop reading.  A run ends
\* when the connections and the message are used up.
CONSTANTS
  alice = alice  bob = bob
  a1 = a1  b1 = b1  b2 = b2
  m1 = m1  m2 = m2
  None = None
  Users = {alice, bob}
  Conns = {a1, b1, b2}
  Msgs = {m1}
  Owner <- MCOwner
  From <- MCFrom
  To <- MCTo
  Online = {a1, b1}
  Quic = {b2}
  Reading = {b1}
  MaxFetch = 1
  NatsFaults = TRUE
  MaxCrashes = 1
SPECIFICATION FairSpec
INVARIANTS NoConnectionForgotten OnlyReplacedIsClosed
PROPERTIES
  QueuedReachesConnected
  ClosedLeavesRegistry
  ReplacedIsClosed
CHECK_DEADLOCK FALSE
