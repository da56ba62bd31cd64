CONSTANTS
  u1 = u1  u2 = u2
  e1 = e1  e2 = e2
  d1 = d1
  Anna = Anna  anna = anna  otto = otto
  q1 = q1  q2 = q2  q3 = q3
  None = None
  Ids = {u1, u2}
  Emails = {e1, e2}
  Names = {Anna, anna, otto}
  Lower <- MCLower
  Devices = {d1}
  Requests = {q1, q2, q3}
  Operations = {"signup", "login", "rename", "token", "keys", "delete", "upload_url", "confirm", "get_avatar", "search"}
  First = u1
  MaxSearches = 1
  Faults = TRUE
SPECIFICATION Spec
SYMMETRY Alike
INVARIANTS TypeOK NothingOutlivesItsAccount NamesUnique ImageIsServable SearchBudget
CHECK_DEADLOCK FALSE
