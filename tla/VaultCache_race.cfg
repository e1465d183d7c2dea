\* Two tasks calling the client concurrently; no Expired, no timeouts.
CONSTANTS
  Vaults = {v1, v2}
  Callers = {c1, c2}
  NewStatuses = {"Active", "Claimed", "Revoked"}
  Timeouts = FALSE
  ForeignUpdates = FALSE
  None = None
SPECIFICATION Spec
INVARIANT CacheCoherent
