SPECIFICATION Spec
CONSTANTS
  Accounts = {a1, a2, a3}
  Emails = {e1, e2, e3}
  Requests = {r1, r2}
  Nobody = Nobody
SYMMETRY Symmetry
INVARIANTS EmailsDistinct BootstrapsBounded
PROPERTIES NoAccidentalReactivation DeactivationTakesUnlessStale
CHECK_DEADLOCK FALSE
