\* Two tasks fetching one object of each kind while the node creates
\* objects, a token is written and the StorageCache may drop entries.
CONSTANTS
  Keys = {k1}
  Callers = {c1, c2}
  MaxVersion = 1
  None = None
SPECIFICATION Spec
INVARIANT InvalidatedStateReported
