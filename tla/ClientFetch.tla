----------------------------- MODULE ClientFetch -----------------------------
(***************************************************************************)
(* The read-through fetch calls of StorageNodeClient                       *)
(* (src/dsm/src/communication/storage_client.rs, reqwest build):           *)
(* fetch_genesis_state, fetch_token and fetch_invalidation_marker first    *)
(* ask the shared StorageCache, and on a miss (or a cache error) GET the   *)
(* object from the storage node; fetch_checkpoint always GETs.  A fetched  *)
(* object is written to the StorageCache when auto_cache_enabled, and a    *)
(* failed write is only logged.  is_state_invalidated trusts a cached      *)
(* "invalidated" and otherwise calls fetch_invalidation_marker.            *)
(*                                                                         *)
(* An object is reduced to a version number, 0 meaning absent: genesis     *)
(* states, checkpoints and invalidation markers are created once; a token  *)
(* may change.  StorageCache belongs to another part of the dsm crate that *)
(* is not in this repository: it is taken to be a map per kind whose       *)
(* entries may be evicted at any time.                                     *)
(***************************************************************************)
EXTENDS Naturals

CONSTANTS
  Keys,        \* object ids / hashes
  Callers,     \* tasks calling the client concurrently
  MaxVersion,  \* bound on the versions of a token
  None         \* no call recorded

Kinds == {"genesis", "token", "checkpoint", "marker"}

VARIABLES
  node,     \* kind -> key -> version the storage node holds (0: absent)
  scache,   \* kind -> key -> version in the StorageCache (0: absent)
  auto,     \* auto_cache_enabled
  pc,       \* caller -> "idle" or the await it is at
  op,       \* caller -> [fn, kind, key, start] of the call in progress
  resp,     \* caller -> version the node answered with
  last      \* caller -> [fn, key, ret, start] of its last Ok return, or None

vars == <<node, scache, auto, pc, op, resp, last>>

NoOp == [fn |-> None, kind |-> None, key |-> None, start |-> 0]

(* The calls whose results the properties below are about.                 *)
Observed == {"token", "marker", "is_invalidated"}

(* The call returns Ok(ret); ret is a version (0: Ok(None)), and for       *)
(* is_state_invalidated 1 (true) or 0 (false).  The call's locals go out  *)
(* of scope.                                                               *)
Return(c, ret) ==
  /\ last' = IF op[c].fn \in Observed
             THEN [last EXCEPT ![c] = [fn |-> op[c].fn, key |-> op[c].key,
                                       ret |-> ret, start |-> op[c].start]]
             ELSE last
  /\ pc' = [pc EXCEPT ![c] = "idle"]
  /\ op' = [op EXCEPT ![c] = NoOp]
  /\ resp' = [resp EXCEPT ![c] = 0]

(* A call of fn on object (kind, k) begins; start, what the node holds at *)
(* that moment, is kept for the observed calls only.                       *)
Begin(c, fn, kind, k, at) ==
  /\ pc[c] = "idle"
  /\ op' = [op EXCEPT ![c] = [fn |-> fn, kind |-> kind, key |-> k,
              start |-> IF fn \in Observed THEN node[kind][k] ELSE 0]]
  /\ pc' = [pc EXCEPT ![c] = at]

(* The StorageCache lookup: a hit returns the cached object, a miss or an *)
(* error of the cache goes on to the GET.                                  *)
CacheLookup(c) ==
  /\ pc[c] = "lookup"
  /\ LET v == scache[op[c].kind][op[c].key] IN
       IF v # 0 THEN Return(c, IF op[c].fn = "is_invalidated" THEN 1 ELSE v)
       ELSE /\ pc' = [pc EXCEPT ![c] = "send"] /\ UNCHANGED <<op, resp, last>>
  /\ UNCHANGED <<node, scache, auto>>

FetchGenesisState(c, k) ==
  /\ Begin(c, "genesis", "genesis", k, "lookup")
  /\ UNCHANGED <<node, scache, auto, resp, last>>

FetchToken(c, k) ==
  /\ Begin(c, "token", "token", k, "lookup")
  /\ UNCHANGED <<node, scache, auto, resp, last>>

FetchCheckpoint(c, k) ==
  /\ Begin(c, "checkpoint", "checkpoint", k, "send")
  /\ UNCHANGED <<node, scache, auto, resp, last>>

FetchInvalidationMarker(c, k) ==
  /\ Begin(c, "marker", "marker", k, "lookup")
  /\ UNCHANGED <<node, scache, auto, resp, last>>

(* is_state_invalidated answers true at once from a cached marker.       *)
AnswerInvalidated(c, k, ret) ==
  last' = [last EXCEPT ![c] = [fn |-> "is_invalidated", key |-> k,
                               ret |-> ret, start |-> node["marker"][k]]]

(* Fault variant: a cached "not invalidated" is trusted as well.          *)
IsStateInvalidatedTrustsCache(c, k) ==
  /\ pc[c] = "idle"
  /\ AnswerInvalidated(c, k, IF scache["marker"][k] # 0 THEN 1 ELSE 0)
  /\ UNCHANGED <<node, scache, auto, pc, op, resp>>

(* is_state_invalidated: a cached marker answers true; otherwise           *)
(* fetch_invalidation_marker is called, which asks the StorageCache again.*)
IsStateInvalidated(c, k) ==
  /\ pc[c] = "idle"
  /\ IF scache["marker"][k] # 0
       THEN AnswerInvalidated(c, k, 1) /\ UNCHANGED <<pc, op>>
       ELSE Begin(c, "is_invalidated", "marker", k, "lookup") /\ UNCHANGED last
  /\ UNCHANGED <<node, scache, auto, resp>>

(* The GET is answered: 404 returns Ok(None) (false for                    *)
(* is_state_invalidated); a body is read and deserialised.  A failed send, *)
(* another non-success status or a bincode error returns Err.              *)
Reply(c, kind) ==
  /\ pc[c] = "send" /\ op[c].kind = kind
  /\ \/ /\ node[kind][op[c].key] = 0
        /\ Return(c, 0)
     \/ /\ node[kind][op[c].key] # 0
        /\ resp' = [resp EXCEPT ![c] = node[kind][op[c].key]]
        /\ pc' = [pc EXCEPT ![c] = "cache"]
        /\ UNCHANGED <<op, last>>
     \/ /\ pc' = [pc EXCEPT ![c] = "idle"]
        /\ op' = [op EXCEPT ![c] = NoOp]
        /\ UNCHANGED <<resp, last>>
  /\ UNCHANGED <<node, scache, auto>>

(* With auto_cache_enabled the object is written to the StorageCache (or  *)
(* the write fails and is logged); then Ok(Some(object)) is returned,      *)
(* true for is_state_invalidated.                                          *)
Fill(c, kind) ==
  /\ pc[c] = "cache" /\ op[c].kind = kind
  /\ \/ auto /\ scache' = [scache EXCEPT ![kind][op[c].key] = resp[c]]
     \/ UNCHANGED scache
  /\ Return(c, IF op[c].fn = "is_invalidated" THEN 1 ELSE resp[c])
  /\ UNCHANGED <<node, auto>>

FetchGenesisStateReply(c) == Reply(c, "genesis")
FetchTokenReply(c) == Reply(c, "token")
FetchCheckpointReply(c) == Reply(c, "checkpoint")
FetchInvalidationMarkerReply(c) == Reply(c, "marker")

FetchGenesisStateCache(c) == Fill(c, "genesis")
FetchTokenCache(c) == Fill(c, "token")
FetchCheckpointCache(c) == Fill(c, "checkpoint")
FetchInvalidationMarkerCache(c) == Fill(c, "marker")

(* set_auto_cache takes &mut self: no call is in progress.                 *)
SetAutoCache(b) ==
  /\ \A c \in Callers : pc[c] = "idle"
  /\ auto' = b
  /\ UNCHANGED <<node, scache, pc, op, resp, last>>

(* Environment: the node comes to hold an object; a token may change.     *)
NodeStores(kind, k) ==
  /\ node[kind][k] < IF kind = "token" THEN MaxVersion ELSE 1
  /\ node' = [node EXCEPT ![kind][k] = @ + 1]
  /\ UNCHANGED <<scache, auto, pc, op, resp, last>>

(* Environment: the StorageCache drops an entry.                           *)
CacheEvicts(kind, k) ==
  /\ scache[kind][k] # 0
  /\ scache' = [scache EXCEPT ![kind][k] = 0]
  /\ UNCHANGED <<node, auto, pc, op, resp, last>>

(* StorageNodeClient::new: a fresh StorageCache and auto-caching on.  The *)
(* node starts empty; NodeStores reaches every content it may already     *)
(* hold.                                                                   *)
New ==
  /\ node = [kd \in Kinds |-> [k \in Keys |-> 0]]
  /\ scache = [kd \in Kinds |-> [k \in Keys |-> 0]]
  /\ auto = TRUE

(* StorageNodeClient::with_cache: the caller passes a shared StorageCache *)
(* and chooses auto_cache.  Other clients sharing the cache may already   *)
(* have filled it with objects the node held.                              *)
WithCache ==
  /\ node \in [Kinds -> [Keys -> {0, 1}]]
  /\ scache \in {sc \in [Kinds -> [Keys -> {0, 1}]] :
                  \A kd \in Kinds, k \in Keys : sc[kd][k] <= node[kd][k]}
  /\ auto \in BOOLEAN

Init ==
  /\ New \/ WithCache
  /\ pc = [c \in Callers |-> "idle"]
  /\ op = [c \in Callers |-> NoOp]
  /\ resp = [c \in Callers |-> 0]
  /\ last = [c \in Callers |-> None]

Next ==
  \/ \E b \in BOOLEAN : SetAutoCache(b)
  \/ \E kind \in Kinds, k \in Keys : NodeStores(kind, k) \/ CacheEvicts(kind, k)
  \/ \E c \in Callers :
       \/ \E k \in Keys :
            \/ FetchGenesisState(c, k) \/ FetchToken(c, k)
            \/ FetchCheckpoint(c, k) \/ FetchInvalidationMarker(c, k)
            \/ IsStateInvalidated(c, k)
       \/ CacheLookup(c)
       \/ FetchGenesisStateReply(c) \/ FetchTokenReply(c)
       \/ FetchCheckpointReply(c) \/ FetchInvalidationMarkerReply(c)
       \/ FetchGenesisStateCache(c) \/ FetchTokenCache(c)
       \/ FetchCheckpointCache(c) \/ FetchInvalidationMarkerCache(c)

Spec == Init /\ [][Next]_vars

-----------------------------------------------------------------------------
(* A state whose invalidation marker the storage node already held when   *)
(* is_state_invalidated or fetch_invalidation_marker was called is never   *)
(* reported valid: whatever the StorageCache held or dropped, and whatever *)
(* other tasks did meanwhile, an Ok answer says "invalidated".             *)
InvalidatedStateReported ==
  \A c \in Callers :
    /\ last[c] # None
    /\ last[c].fn \in {"marker", "is_invalidated"}
    /\ last[c].start # 0
    => last[c].ret # 0

(* fetch_token never returns Ok(None) or a token older than the one the   *)
(* storage node held when the call began.                                  *)
TokenReadFresh ==
  \A c \in Callers :
    last[c] # None /\ last[c].fn = "token" => last[c].ret >= last[c].start
=============================================================================
