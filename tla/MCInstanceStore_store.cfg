SPECIFICATION Spec
CONSTANTS
  t1 = t1
  t2 = t2
  u1 = u1
  u2 = u2
  c1 = c1
  c2 = c2
  Tasks = {t1, t2}
  Users = {u1, u2}
  NoUser = NoUser
  Clients = {c1, c2}
SYMMETRY Interchangeable
INVARIANTS TypeOK
PROPERTIES CheckedOwner AloneIsRight CompletionCloses
