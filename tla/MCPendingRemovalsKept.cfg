\* One tenant, one user, one app.
CONSTANTS
  Tenants = {t1}
  Files = {f1}
  Users = {u1}
  Apps = {a1}
  NoOne = nobody
SPECIFICATION PendingSpec
INVARIANT RemovalsKept
CHECK_DEADLOCK FALSE
