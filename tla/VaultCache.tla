----------------------------- MODULE VaultCache -----------------------------
(***************************************************************************)
(* The vault cache of StorageNodeClient                                    *)
(* (src/dsm/src/communication/storage_client.rs, reqwest build):           *)
(* store_vault, get_vault and update_vault_status each send one HTTP       *)
(* request to the storage node and then, after the await, update the       *)
(* client's vault_cache.  Several tasks may call the client at once; the   *)
(* storage node applies each request atomically when it receives it.       *)
(*                                                                         *)
(* A vault is reduced to its status: the storage node keeps the status     *)
(* string it was last sent, the cache keeps the client's VaultState.       *)
(***************************************************************************)
EXTENDS Naturals, FiniteSets

CONSTANTS
  Vaults,        \* vault ids
  Callers,       \* tasks calling the client concurrently
  NewStatuses,   \* VaultStatus values update_vault_status may be given
  Timeouts,      \* TRUE: a request can reach the node and its reply be lost
  ForeignUpdates, \* TRUE: other clients of the node change vault statuses
  None           \* absent: no vault at the node, no cache entry

VaultStates == {"Limbo", "Claimed", "Invalidated", "Unlocked"}
StatusStrings == {"active", "claimed", "revoked", "unlocked", "expired"}
ASSUME NewStatuses \subseteq {"Active", "Claimed", "Revoked", "Expired"}

(* store_vault: the status string posted for a VaultState.                *)
StatusStr(st) ==
  CASE st = "Limbo" -> "active"
    [] st = "Claimed" -> "claimed"
    [] st = "Invalidated" -> "revoked"
    [] st = "Unlocked" -> "unlocked"

(* update_vault_status: the status_type sent for a VaultStatus.           *)
StatusType(s) ==
  CASE s = "Active" -> "active"
    [] s = "Claimed" -> "claimed"
    [] s = "Revoked" -> "revoked"
    [] s = "Expired" -> "expired"

(* get_vault: the VaultState parsed from the node's status string; an     *)
(* unknown string falls back to Limbo.                                     *)
ParseStatus(str) ==
  CASE str = "claimed" -> "Claimed"
    [] str = "revoked" -> "Invalidated"
    [] str = "unlocked" -> "Unlocked"
    [] OTHER -> "Limbo"

(* Fault variant: a copy-paste slip maps Revoked to Claimed.              *)
CachedStateRevokedAsClaimed(s) ==
  CASE s = "Active" -> "Limbo"
    [] s = "Claimed" -> "Claimed"
    [] s = "Revoked" -> "Claimed"
    [] s = "Expired" -> "Unlocked"

(* update_vault_status: the VaultState written into a cached vault.       *)
CachedState(s) ==
  CASE s = "Active" -> "Limbo"
    [] s = "Claimed" -> "Claimed"
    [] s = "Revoked" -> "Invalidated"
    [] s = "Expired" -> "Unlocked"

VARIABLES
  remote,   \* vault id -> status string held by the storage node, or None
  cache,    \* vault id -> cached VaultState, or None
  pc,       \* caller -> "idle" or the await it is past
  op,       \* caller -> [vault, arg] of the call in progress
  resp,     \* caller -> status string get_vault received
  held      \* vault id -> every status string the node has held (history)

vars == <<remote, cache, pc, op, resp, held>>

(* The node takes status string str for vault v.                           *)
NodeSets(v, str) ==
  /\ remote' = [remote EXCEPT ![v] = str]
  /\ held' = [held EXCEPT ![v] = @ \cup {str}]

Idle(c) == pc' = [pc EXCEPT ![c] = "idle"]

(* store_vault: the POST; on success the node holds the vault.  The node  *)
(* is taken to refuse a second vault under an id it holds (the call then  *)
(* returns Err and changes nothing).                                       *)
StoreVault(c, v, st) ==
  /\ pc[c] = "idle"
  /\ remote[v] = None
  /\ NodeSets(v, StatusStr(st))
  /\ pc' = [pc EXCEPT ![c] = "store_cache"]
  /\ op' = [op EXCEPT ![c] = [vault |-> v, arg |-> st]]
  /\ UNCHANGED <<cache, resp>>

(* store_vault, after the reply: cache.insert(vault.id, vault).           *)
StoreVaultCache(c) ==
  /\ pc[c] = "store_cache"
  /\ cache' = [cache EXCEPT ![op[c].vault] = op[c].arg]
  /\ Idle(c)
  /\ UNCHANGED <<remote, op, resp, held>>

(* get_vault on a cache miss (a hit returns the clone and changes        *)
(* nothing): the GET is sent.                                              *)
GetVault(c, v) ==
  /\ pc[c] = "idle"
  /\ cache[v] = None
  /\ pc' = [pc EXCEPT ![c] = "get_fetch"]
  /\ op' = [op EXCEPT ![c] = [vault |-> v, arg |-> None]]
  /\ UNCHANGED <<remote, cache, resp, held>>

(* The node answers the GET: 404 returns Ok(None) (as does, for the      *)
(* cache, a failed send: Err), otherwise the body carries the status the  *)
(* node holds now.                                                         *)
GetVaultResponse(c) ==
  /\ pc[c] = "get_fetch"
  /\ IF remote[op[c].vault] = None
       THEN Idle(c) /\ UNCHANGED resp
       ELSE /\ resp' = [resp EXCEPT ![c] = remote[op[c].vault]]
            /\ pc' = [pc EXCEPT ![c] = "get_fill"]
  /\ UNCHANGED <<remote, cache, op, held>>

(* Fault variant: the received string is cached without parsing.          *)
GetVaultFillUnparsed(c) ==
  /\ pc[c] = "get_fill"
  /\ cache' = [cache EXCEPT ![op[c].vault] = resp[c]]
  /\ Idle(c)
  /\ UNCHANGED <<remote, op, resp, held>>

(* get_vault, after parsing the body: cache.insert(vault.id, vault).      *)
GetVaultFill(c) ==
  /\ pc[c] = "get_fill"
  /\ cache' = [cache EXCEPT ![op[c].vault] = ParseStatus(resp[c])]
  /\ Idle(c)
  /\ UNCHANGED <<remote, op, resp, held>>

(* update_vault_status: the PUT is applied.  (For a vault the node does   *)
(* not hold, or a failed send, the call returns Err and changes nothing.)  *)
UpdateVaultStatus(c, v, s) ==
  /\ pc[c] = "idle"
  /\ remote[v] # None
  /\ NodeSets(v, StatusType(s))
  /\ pc' = [pc EXCEPT ![c] = "update_cache"]
  /\ op' = [op EXCEPT ![c] = [vault |-> v, arg |-> s]]
  /\ UNCHANGED <<cache, resp>>

(* The PUT reaches the node but the reply is lost (reqwest timeout): the  *)
(* call returns Err before the cache step.                                 *)
UpdateVaultStatusTimeout(c, v, s) ==
  /\ Timeouts
  /\ pc[c] = "idle"
  /\ remote[v] # None
  /\ NodeSets(v, StatusType(s))
  /\ UNCHANGED <<cache, pc, op, resp>>

(* Fault variant: the cache is not touched after the PUT.                 *)
UpdateVaultStatusCacheSkipped(c) ==
  /\ pc[c] = "update_cache"
  /\ Idle(c)
  /\ UNCHANGED <<remote, cache, op, resp, held>>

(* update_vault_status, after the reply: a cached vault gets the state    *)
(* its new status maps to; an uncached one is left uncached.               *)
UpdateVaultStatusCache(c) ==
  /\ pc[c] = "update_cache"
  /\ cache[op[c].vault] # None
       => cache' = [cache EXCEPT ![op[c].vault] = CachedState(op[c].arg)]
  /\ cache[op[c].vault] = None => UNCHANGED cache
  /\ Idle(c)
  /\ UNCHANGED <<remote, op, resp, held>>

(* Environment: another client of the storage node stores vault v.       *)
ForeignStore(v, st) ==
  /\ remote[v] = None
  /\ NodeSets(v, StatusStr(st))
  /\ UNCHANGED <<cache, pc, op, resp>>

(* Environment: another client changes the status of vault v.             *)
ForeignUpdate(v, s) ==
  /\ ForeignUpdates
  /\ remote[v] # None
  /\ NodeSets(v, StatusType(s))
  /\ UNCHANGED <<cache, pc, op, resp>>

Init ==
  /\ remote = [v \in Vaults |-> None]
  /\ cache = [v \in Vaults |-> None]
  /\ pc = [c \in Callers |-> "idle"]
  /\ op = [c \in Callers |-> [vault |-> None, arg |-> None]]
  /\ resp = [c \in Callers |-> None]
  /\ held = [v \in Vaults |-> {}]

Next ==
  \/ \E v \in Vaults, st \in VaultStates : ForeignStore(v, st)
  \/ \E v \in Vaults, s \in NewStatuses : ForeignUpdate(v, s)
  \/ \E c \in Callers :
      \/ \E v \in Vaults, st \in VaultStates : StoreVault(c, v, st)
      \/ StoreVaultCache(c)
      \/ \E v \in Vaults : GetVault(c, v)
      \/ GetVaultResponse(c)
      \/ GetVaultFill(c)
      \/ \E v \in Vaults, s \in NewStatuses : UpdateVaultStatus(c, v, s)
      \/ \E v \in Vaults, s \in NewStatuses : UpdateVaultStatusTimeout(c, v, s)
      \/ UpdateVaultStatusCache(c)

Spec == Init /\ [][Next]_vars

-----------------------------------------------------------------------------
TypeOK ==
  /\ remote \in [Vaults -> StatusStrings \cup {None}]
  /\ cache \in [Vaults -> VaultStates \cup {None}]
  /\ pc \in [Callers -> {"idle", "store_cache", "get_fetch", "get_fill",
                         "update_cache"}]
  /\ resp \in [Callers -> StatusStrings \cup {None}]
  /\ held \in [Vaults -> SUBSET StatusStrings]

Quiescent == \A c \in Callers : pc[c] = "idle"

(* Once every call has returned, each cached vault has the state that     *)
(* get_vault would parse from what the storage node holds: the cache       *)
(* updates after store_vault, get_vault and update_vault_status ("Update   *)
(* cache for consistency") keep vault_cache in step with the node, so a    *)
(* later get_vault served from the cache returns the node's status.        *)
CacheCoherent ==
  Quiescent =>
    \A v \in Vaults :
      cache[v] # None => remote[v] # None /\ cache[v] = ParseStatus(remote[v])

(* Whatever the interleaving of tasks and lost replies, a cached vault's  *)
(* state is one the storage node has held: the cache may lag behind the   *)
(* node, but the state mappings of store_vault, get_vault and             *)
(* update_vault_status never put a state there that get_vault could not   *)
(* have read from the node at some point.                                  *)
CachedStateWasHeld ==
  \A v \in Vaults :
    cache[v] # None => \E str \in held[v] : ParseStatus(str) = cache[v]
=============================================================================
