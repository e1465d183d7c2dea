\* One task; update_vault_status(Expired) then get_vault.
CONSTANTS
  Vaults = {v1, v2}
  Callers = {c1}
  NewStatuses = {"Active", "Expired"}
  Timeouts = FALSE
  ForeignUpdates = FALSE
  None = None
SPECIFICATION Spec
INVARIANT CachedStateWasHeld
