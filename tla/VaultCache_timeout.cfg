\* One task; the reply to a PUT may be lost after the node applied it.
CONSTANTS
  Vaults = {v1, v2}
  Callers = {c1}
  NewStatuses = {"Active", "Claimed", "Revoked"}
  Timeouts = TRUE
  ForeignUpdates = FALSE
  None = None
SPECIFICATION Spec
INVARIANT CacheCoherent
