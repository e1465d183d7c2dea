----------------------------- MODULE InboxCache -----------------------------
(***************************************************************************)
(* The inbox cache of StorageNodeClient                                    *)
(* (src/dsm/src/communication/storage_client.rs, reqwest build):           *)
(* store_unilateral_transaction posts an entry to a recipient's inbox at   *)
(* the storage node; get_inbox_transactions answers from inbox_cache when  *)
(* it holds the recipient, and otherwise fetches the inbox and caches it;  *)
(* delete_inbox_transaction deletes an entry at the node and then removes  *)
(* it from a cached list.  Each call awaits the node between its steps,    *)
(* so calls of several tasks interleave there.                             *)
(*                                                                         *)
(* An inbox entry is a model value; an inbox is the set of its entries     *)
(* (retain keeps the order of a list, which no property looks at).         *)
(***************************************************************************)
EXTENDS Naturals, FiniteSets

CONSTANTS
  Recipients,   \* recipient genesis hashes
  Entries,      \* inbox entry ids
  Callers,      \* tasks calling the client concurrently
  Posting,      \* TRUE: entries may be posted once the client is running
  None          \* absent: no cached list, no call in progress

VARIABLES
  inbox,    \* recipient -> entries the storage node holds
  posted,   \* entries ever posted (each id is posted once)
  icache,   \* recipient -> cached entry set, or None
  deleted,  \* recipient -> entries whose delete_inbox_transaction returned Ok
  pc,       \* caller -> "idle" or the await it is past
  op,       \* caller -> [rcpt, entry, start, gone] of the call in progress
  resp,     \* caller -> entries get_inbox_transactions received
  last      \* caller -> [ret, kept, gone] of its last get, or None

vars == <<inbox, posted, icache, deleted, pc, op, resp, last>>

NoOp == [rcpt |-> None, entry |-> None, start |-> {}, gone |-> {}]

Idle(c) == pc' = [pc EXCEPT ![c] = "idle"]

(* A get returns ret: recorded with the entries the node held both when   *)
(* the call began and now (kept), and those whose delete had returned      *)
(* before it began (gone).                                                 *)
Return(c, ret) ==
  /\ last' = [last EXCEPT ![c] =
                [ret |-> ret,
                 kept |-> op[c].start \cap inbox[op[c].rcpt],
                 gone |-> op[c].gone]]
  /\ Idle(c)

(* store_unilateral_transaction (or another sender's client): the POST    *)
(* adds the entry to the recipient's inbox at the node; the inbox cache is *)
(* not touched.                                                            *)
StoreUnilateralTransaction(r, e) ==
  /\ Posting
  /\ e \notin posted
  /\ inbox' = [inbox EXCEPT ![r] = @ \cup {e}]
  /\ posted' = posted \cup {e}
  /\ UNCHANGED <<icache, deleted, pc, op, resp, last>>

(* get_inbox_transactions, a cache hit: the cached list is returned.      *)
GetInboxCached(c, r) ==
  /\ pc[c] = "idle"
  /\ icache[r] # None
  /\ last' = [last EXCEPT ![c] =
                [ret |-> icache[r], kept |-> inbox[r], gone |-> deleted[r]]]
  /\ UNCHANGED <<inbox, posted, icache, deleted, pc, op, resp>>

(* get_inbox_transactions, a cache miss: the GET is sent.                 *)
GetInboxTransactions(c, r) ==
  /\ pc[c] = "idle"
  /\ icache[r] = None
  /\ pc' = [pc EXCEPT ![c] = "get_fetch"]
  /\ op' = [op EXCEPT ![c] = [NoOp EXCEPT !.rcpt = r, !.start = inbox[r],
                                          !.gone = deleted[r]]]
  /\ UNCHANGED <<inbox, posted, icache, deleted, resp, last>>

(* The node answers with the recipient's inbox as it is now.              *)
GetInboxResponse(c) ==
  /\ pc[c] = "get_fetch"
  /\ resp' = [resp EXCEPT ![c] = inbox[op[c].rcpt]]
  /\ pc' = [pc EXCEPT ![c] = "get_fill"]
  /\ UNCHANGED <<inbox, posted, icache, deleted, op, last>>

(* A non-success reply, or an entry that does not parse: Err, no caching. *)
GetInboxError(c) ==
  /\ pc[c] = "get_fetch"
  /\ Idle(c)
  /\ UNCHANGED <<inbox, posted, icache, deleted, op, resp, last>>

(* get_inbox_transactions, after conversion: cache.insert(hash, result),  *)
(* then the result is returned.                                            *)
GetInboxFill(c) ==
  /\ pc[c] = "get_fill"
  /\ icache' = [icache EXCEPT ![op[c].rcpt] = resp[c]]
  /\ Return(c, resp[c])
  /\ UNCHANGED <<inbox, posted, deleted, op, resp>>

(* delete_inbox_transaction: the DELETE removes the entry at the node.    *)
(* (An entry the node does not hold gets a non-success reply: Err.)        *)
DeleteInboxTransaction(c, r, e) ==
  /\ pc[c] = "idle"
  /\ e \in inbox[r]
  /\ inbox' = [inbox EXCEPT ![r] = @ \ {e}]
  /\ pc' = [pc EXCEPT ![c] = "delete_cache"]
  /\ op' = [op EXCEPT ![c] = [NoOp EXCEPT !.rcpt = r, !.entry = e]]
  /\ UNCHANGED <<posted, icache, deleted, resp, last>>

(* Fault variant: the retain predicate is inverted.                       *)
RetainInverted(list, e) == list \cap {e}

(* Fault variant: the cached list is left as it was.                      *)
RetainSkipped(list, e) == list

(* entries.retain(|x| x.id != entry_id).                                   *)
Retain(list, e) == list \ {e}

(* delete_inbox_transaction, after the reply: a cached list loses the     *)
(* entry; then the call returns Ok.                                        *)
DeleteInboxCache(c) ==
  /\ pc[c] = "delete_cache"
  /\ LET r == op[c].rcpt IN
       /\ icache' = IF icache[r] = None THEN icache
                    ELSE [icache EXCEPT ![r] = Retain(@, op[c].entry)]
       /\ deleted' = [deleted EXCEPT ![r] = @ \cup {op[c].entry}]
  /\ Idle(c)
  /\ UNCHANGED <<inbox, posted, op, resp, last>>

(* The node may already hold entries posted before the client started.    *)
Init ==
  /\ inbox \in [Recipients -> SUBSET Entries]
  /\ \A r1, r2 \in Recipients : r1 # r2 => inbox[r1] \cap inbox[r2] = {}
  /\ posted = UNION {inbox[r] : r \in Recipients}
  /\ icache = [r \in Recipients |-> None]
  /\ deleted = [r \in Recipients |-> {}]
  /\ pc = [c \in Callers |-> "idle"]
  /\ op = [c \in Callers |-> NoOp]
  /\ resp = [c \in Callers |-> {}]
  /\ last = [c \in Callers |-> None]

Next ==
  \/ \E r \in Recipients, e \in Entries : StoreUnilateralTransaction(r, e)
  \/ \E c \in Callers :
       \/ \E r \in Recipients : GetInboxCached(c, r)
       \/ \E r \in Recipients : GetInboxTransactions(c, r)
       \/ GetInboxResponse(c)
       \/ GetInboxError(c)
       \/ GetInboxFill(c)
       \/ \E r \in Recipients, e \in Entries : DeleteInboxTransaction(c, r, e)
       \/ DeleteInboxCache(c)

Spec == Init /\ [][Next]_vars

-----------------------------------------------------------------------------
(* Every get_inbox_transactions returns each entry that the node held     *)
(* from the moment the call began to the moment it returned: an inbox      *)
(* read never misses a message that was there all along, whether it is    *)
(* answered from inbox_cache or from the node.                             *)
InboxReadFresh ==
  \A c \in Callers : last[c] # None => last[c].kept \subseteq last[c].ret

(* No get_inbox_transactions returns an entry whose                        *)
(* delete_inbox_transaction had returned Ok before the get began: the      *)
(* retain after the DELETE keeps a deleted message from being served again *)
(* out of inbox_cache.                                                     *)
DeletedNeverReturned ==
  \A c \in Callers : last[c] # None => last[c].ret \cap last[c].gone = {}
=============================================================================
