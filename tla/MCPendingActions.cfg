\* Two tenants on one host, one pending file, one user, one app.
CONSTANTS
  Tenants = {t1, t2}
  Files = {f1}
  Users = {u1}
  Apps = {a1}
  NoOne = nobody
SPECIFICATION PendingSpec
SYMMETRY Symmetry
PROPERTIES
  OwnResultDropsOnlyDone
  LateRequestsSurvive
CHECK_DEADLOCK FALSE
