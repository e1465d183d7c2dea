\* Two tasks calling the client; no entries are posted once it runs.
CONSTANTS
  Recipients = {r1}
  Entries = {e1, e2, e3}
  Callers = {c1, c2}
  Posting = FALSE
  None = None
SPECIFICATION Spec
INVARIANT DeletedNeverReturned
