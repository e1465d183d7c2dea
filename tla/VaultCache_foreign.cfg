\* One task; other clients of the storage node also change vault statuses.
CONSTANTS
  Vaults = {v1, v2}
  Callers = {c1}
  NewStatuses = {"Active", "Claimed", "Revoked"}
  Timeouts = FALSE
  ForeignUpdates = TRUE
  None = None
SPECIFICATION Spec
INVARIANT CacheCoherent
