\* Two tasks calling the client concurrently, replies to PUTs may be lost,
\* other clients update the node; every VaultStatus an update may write.
CONSTANTS
  Vaults = {v1}
  Callers = {c1, c2}
  NewStatuses = {"Active", "Claimed", "Revoked", "Expired"}
  Timeouts = TRUE
  ForeignUpdates = TRUE
  None = None
SPECIFICATION Spec
INVARIANT TypeOK
