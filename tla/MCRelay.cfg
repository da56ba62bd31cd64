\* Two queued messages, so that a catch-up holds a batch of two and can be cut
\* short between them.  A run ends when the connections and messages are used up.
CONSTANTS
  alice = alice  bob = bob
  a1 = a1  b1 = b1  b2 = b2
  m1 = m1  m2 = m2
  None = None
  Users = {alice, bob}
  Conns = {a1, b1}
  Msgs = {m1, m2}
  Owner <- MCOwner
  From <- MCFrom
  To <- MCTo
  Online = {a1}
  Quic = {b1}
  Reading = {a1, b1}
  MaxFetch = 2
  NatsFaults = TRUE
  MaxCrashes = 1
SPECIFICATION Spec
INVARIANTS TypeOK DeliveryInv NoStrandedMessage AckedIsAccountedFor
PROPERTIES LiveNeverQueued ImplementsMailbox
CHECK_DEADLOCK FALSE
