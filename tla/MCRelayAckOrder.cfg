\* ADR 0008 on the order of the ack and the send to the socket.
CONSTANTS
  alice = alice
  bob = bob
  a1 = a1
  b1 = b1
  b2 = b2
  m1 = m1
  m2 = m2
  None = None
  Users = {alice, bob}
  Conns = {a1, b1}
  Msgs = {m1}
  Owner <- MCOwner
  From <- MCFrom
  To <- MCTo
  Online = {a1}
  Quic = {}
  Reading = {a1, b1}
  MaxFetch = 1
  NatsFaults = FALSE
  MaxCrashes = 0
SPECIFICATION Spec
INVARIANT QueuedSurvivesUntilWritten
CHECK_DEADLOCK FALSE
