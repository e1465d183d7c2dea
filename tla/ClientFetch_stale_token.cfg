\* A fetch_token served from the StorageCache, or a stale fill racing a
\* newer one, returns a token older than the node holds.
CONSTANTS
  Keys = {k1}
  Callers = {c1, c2}
  MaxVersion = 2
  None = None
SPECIFICATION Spec
INVARIANT TokenReadFresh
