SPECIFICATION Spec
CONSTANTS
  Users = {u1, u2}
  Bootstrap = u1
  Roles <- MCRoles
  Tokens = {t1, t2}
  Requests = {q1, q2}
  Changes <- MCChanges
  u1 = u1
  u2 = u2
  t1 = t1
  t2 = t2
  q1 = q1
  q2 = q2

INVARIANT LastAdminStays
