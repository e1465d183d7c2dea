\* One task calling the client while senders keep posting entries.
CONSTANTS
  Recipients = {r1, r2}
  Entries = {e1, e2, e3}
  Callers = {c1}
  Posting = TRUE
  None = None
SPECIFICATION Spec
INVARIANT DeletedNeverReturned
