\* Two requests at once, users that come, go and change roles, a failing query
\* or a restart.
SPECIFICATION FairSpec
CONSTANTS
  u1 = u1
  u2 = u2
  r1 = r1
  r2 = r2
  admin = admin
  standard = standard
  Ids = {u1, u2}
  Roles = {admin, standard}
  Admins = {admin}
  Standard = standard
  Nobody = Nobody
  Pending = Pending
  Requests = {r1, r2}
  MaxChanges = 1
  MaxFaults = 1
CHECK_DEADLOCK FALSE
INVARIANTS
  LoaderInvariant
  UsersQueriedOnce
  LoadedSinceStart
PROPERTIES
  RequestsAnswered
