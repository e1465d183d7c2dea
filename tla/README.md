# TLA+ models of the DSM reward vault engine and storage client

These modules model the storage-node reward engine in
`src/dsm-storage-node/src/staking/rewards.rs` (`RewardVaultManager`) and the
caches of the client side `StorageNodeClient`
(`src/dsm/src/communication/storage_client.rs`). They also inventory the rest
of the code under `src/`. Every definition is translated from the
source. `PROJECT.json` maps each definition to the lines it models. The one
exception is the DLV manager (`dsm::vault::DLVManager`), which is not in this
repository: it is modelled from `spec.md` section 4.3 and marked `spec_modelled`.

## The system and its parts

| Part | Code | State | Operations | Module |
|---|---|---|---|---|
| Ratio | `Ratio`, `apply_to` (rewards.rs 71-96) | none | `(value*raw)/1e6` in u128 | RewardVault (`ApplyTo`) |
| Vault registry | `vault_registry: RwLock<HashMap>` | id -> metadata (status, amount, time, recipients) | `create_reward_vault`, `get_vault`, `update_vault_status` | RewardVault |
| Distribution queue | `distribution_queue: Mutex<Vec>` | pending requests | push on create; drain/partition/restore per tick | RewardVault |
| Distribution scheduler | `start_distribution_processor` (626-678) | a tokio task per `initialize()`, its own queue and manager clone | tick, `process_distribution`, `send().await` | RewardVault |
| Result channel | `mpsc::channel(100)` | up to 100 results; `distribution_rx` never read | `send` awaits capacity | RewardVault |
| DLV manager | `dsm::vault` (not in repo) | vault state limbo/unlocked/claimed | create, post, try_unlock, claim | RewardVault (spec_modelled) |
| Receipt registry | `receipt_registry` | node -> receipts, append only | `process_receipt`, `verify_receipt` | RewardCalc, ReceiptEncoding |
| Rate schedule | `rate_schedule` | current `RateSchedule` | `update_rate_schedule`, `calculate`, `calculate_node_rewards` | RewardCalc |
| Storage client vault cache | storage_client.rs | `vault_cache: RwLock<HashMap>` | `store_vault`, `get_vault`, `update_vault_status` | VaultCache |
| Storage client inbox cache | storage_client.rs | `inbox_cache: RwLock<HashMap>` | `store_unilateral_transaction`, `get_inbox_transactions`, `delete_inbox_transaction` | InboxCache |
| Storage client read-through fetches | storage_client.rs 324-624 | the shared `StorageCache`, `auto_cache_enabled` | `fetch_genesis_state`, `fetch_token`, `fetch_checkpoint`, `fetch_invalidation_marker`, `is_state_invalidated`, `set_auto_cache` | ClientFetch |
| `check_health`, non-reqwest stubs, benches, SDK example | storage_client.rs, `benches/`, `examples/` | none of their own | request/response | not modelled |

How the parts interact:

1. `create_reward_vault` checks the ratio sum.
2. It then seals the content in the DLV (`create_vault`, then `create_vault_post`).
3. It records the metadata and queues a request.
4. Every 60 s a scheduler task drains the queue, keeps back what is not yet due, and calls `process_distribution` on each ready request.
5. `process_distribution` re-reads the clock, unlocks and claims the DLV vault, computes each recipient's `apply_to`, and marks the vault `claimed`.
6. The task sends the result on the channel.

Receipts are independent of vaults. `process_receipt` stores them, and `calculate_node_rewards` prices them against the current rate schedule.

The storage client is a separate crate. Each of its calls sends one HTTP
request to a storage node and, after the `await`, updates a cache the client
holds behind an `RwLock`. Calls of several tasks interleave at the awaits; the
node applies each request atomically.

## Modules

### RewardVault.tla: vault lifecycle and the distribution pipeline

**State**
- `dlv`: the DLV manager's vaults.
- `registries[o]` and `queues[o]`: the vault registry and the queue of owner `o`. Owners are the manager plus one owner per scheduler task.
- `started`: the running tasks.
- Per task: `pc` (looping, or awaiting `send`), `batch` (the ready requests still to process) and `out` (the result being sent).
- `chan`: the result channel.
- `now` and `setbacks`: the wall clock, which may step back `MaxSetBacks` times, because `SystemTime` is not monotonic.

**Constant `SharedState`**
- `FALSE` is the code as written. `start_distribution_processor` builds a new empty queue (line 629), and `self.clone()` copies the registry into a snapshot (lines 680-705).
- `TRUE` is the design of spec section 9: the task works on the manager's queue and registry.

**Actions**

| Code | Action(s) |
|---|---|
| `create_reward_vault` | `CreateRewardVault`, the whole handler; it registers a `VaultMetadata` record and queues a `DistributionRequest`, each reduced to the fields the pipeline reads. `CreateVaultPostFails` covers the failure after `create_vault`. |
| `initialize` | `Initialize` |
| One tick of the loop | `Tick`: drain, then partition on `timestamp <= now`, then restore the pending requests. |
| Outcomes of `process_distribution` | `DistributeNotYet`, `DistributeUnlockError`, `DistributeUnlockDeclined`, `DistributeClaimError`, `DistributeClaimed` |
| `distribution_tx.send(..).await` | `Send`, enabled only while the channel has room |
| Wall clock | `Advance`, `SetBack` |

**DLV faults**
- `DLVFaults` lets the DLV calls fail the way their `Result` types allow.
- Without faults, `try_unlock` returns `Ok(true)` exactly when the time-release condition holds (spec 4.3).

### RewardCalc.tla: receipts, rate schedule and reward calculation

**State:** `receipt_registry`, `rate_schedule`, and `refused`, the
submissions for which `process_receipt` returned Err.

**Actions**
- `ProcessReceipt(r, ord)`: verify, then append under `r.node_id`, or refuse.
  `ord` is the order in which the node's `HashSet` iterates the regions.
- `UpdateRateSchedule`.

**Operators**
- `Calculate` models `RateSchedule::calculate`.
- `CalculateNodeRewards` models `calculate_node_rewards` as a fold over the overlapping receipts.
- Every f64 is an exact rational.
- Every `as u64` cast is a floor, in the code's order: storage, then uptime, then regions.
- `VerifyReceipt` checks both signatures are present and compares
  `receipt_hash` with `HashInput(r, ord)` of ReceiptEncoding, which RewardCalc
  EXTENDS.

### DistributionAbstract.tla and the refinement

`DistributionAbstract` states what the engine promises (spec 4.8-4.9, P6),
with queues, tasks, the DLV and the channel left out. A vault is created
queued with ratios that pass the 1% check. Once the scheduler runs, each queued
vault is resolved once: by a success, only at or after its time and paying each
recipient `apply_to` of the amount, or by a failure. Weak fairness of resolving
says a queued vault does not stay queued forever.

`MC_RewardVault` maps RewardVault (shared state) onto it:
- a vault's abstract status is `claimed` when the manager's registry says so,
  `failed` once a failure result for it has been produced, else `queued`;
- the abstract results are the results produced (being sent or in the channel);
- `running` is "some task has started".

`RefinesDistributionAbstract == Abstract!Spec` is checked as a property of the
pipeline run.

### VaultCache.tla: the client's vault cache

**State**
- `remote`: the status string the node holds per vault.
- `cache`: `vault_cache`, the client's `VaultState` per vault.
- Per caller: `pc` (idle or the await it is past), `op` and `resp`.
- `held`: a history variable of every status the node has held.

**Actions**

| Code | Action(s) |
|---|---|
| `store_vault` | `StoreVault` (POST applied), `StoreVaultCache` (insert after the reply) |
| `get_vault` | `GetVault` (miss; a hit changes nothing), `GetVaultResponse` (404 or body), `GetVaultFill` (parse and insert) |
| `update_vault_status` | `UpdateVaultStatus` (PUT applied), `UpdateVaultStatusCache` (a cached vault gets the mapped state), `UpdateVaultStatusTimeout` (PUT applied, reply lost, Err) |
| other clients of the node | `ForeignStore`, `ForeignUpdate` |

The three string mappings are operators: `StatusStr` (store), `StatusType`
(update), `ParseStatus` (get; unknown strings become Limbo) and `CachedState`
(update's cache step; Expired becomes Unlocked). The node is assumed to refuse
a second vault under an id it holds.

### InboxCache.tla: the client's inbox cache

**State:** `inbox` at the node, `posted`, the client's `icache`, `deleted`
(entries whose delete returned Ok), and per caller `pc`, `op`, `resp` and
`last`, the record of what its last get returned next to what the node held
throughout the call and what had been deleted before it began.

**Actions:** `StoreUnilateralTransaction`; `GetInboxCached`,
`GetInboxTransactions`, `GetInboxResponse`, `GetInboxError`, `GetInboxFill`;
`DeleteInboxTransaction` and `DeleteInboxCache` (the `retain` on a cached list).

### ReceiptEncoding.tla: the receipt hash encoding

A module of operators only, composed into RewardCalc. Strings are byte
sequences. `HashInput(r, ord)` is what `verify_receipt` feeds BLAKE3:
`node_id`, `client_id`, both period bounds as 8 little-endian bytes
(`LeBytes`, recursive), then bincode of `StorageMetrics` (`BincodeMetrics`)
with the regions in the order `ord`. A `HashSet`'s iteration order depends on
its random keys, so each deserialisation may iterate in any order (`Orders`,
all permutations). BLAKE3 is idealised as injective, so a digest is its input.

`CanonicalInput` (`spec_modelled`) is spec section 6's canonical encoding,
regions sorted by `ByteLess`. MC_RewardCalc builds, for every field choice, an
honest receipt hashed canonically, an unsigned one and a forged one.

### ClientFetch.tla: the read-through fetch calls

**State:** `node` (kind -> key -> version the storage node holds, 0 for
absent), `scache` (the shared `StorageCache`, same shape), `auto`
(`auto_cache_enabled`), and per caller `pc`, `op`, `resp`, and `last`, its
last Ok return of an observed call next to what the node held when it began.

**Actions:** one entry action per call (`FetchGenesisState`, `FetchToken`,
`FetchCheckpoint`, `FetchInvalidationMarker`, `IsStateInvalidated`);
`CacheLookup` (a hit returns, a miss or a cache error goes on to the GET);
per call a `...Reply` (404 returns Ok(None), success reads the body, any
failure returns Err) and a `...Cache` (with auto-caching the object is
written, or the write fails and is only logged); `SetAutoCache`, enabled only
when no call is in progress because it takes `&mut self`. The environment's
`NodeStores` creates an object or writes a new token version, and
`CacheEvicts` drops a `StorageCache` entry.

**Initial states:** `Init` is either constructor. `New` is
`StorageNodeClient::new`: a fresh `StorageCache` and auto-caching on.
`WithCache` is `with_cache`: the caller's shared `StorageCache`, which other
clients may already have filled with objects the node held, and `auto_cache`
as the caller chose it.

`StorageCache` (storage_cache.rs) is not in this repository. It is taken to be
a map per kind from key to object in which an entry may be evicted at any time;
the only calls used are get, cache and `is_state_invalidated`.

## Runs

### Passing runs

| Run | What it checks |
|---|---|
| rv_pipeline | Shared state, two tasks, DLV faults, one clock step back. `TypeOK`. `RequestConservation`: every registered vault's request exists exactly once across queues, batches, the sender and the channel. `ClaimRecorded`: a DLV claim, a registry `claimed` status and a success result go together, with at most one success per vault. `DistributionWithinTolerance`: the payout is within the 0.99-1.01 band, minus one unit per recipient. `EveryVaultResolved`: every registered vault's result is eventually sent. `RefinesDistributionAbstract`: the pipeline implements DistributionAbstract. 194,874 distinct states, about 1 minute. |
| rc_earned | Two clients, honest, unsigned and forged receipts, no region or one, at most two submissions. `TypeOK`: only verified receipts are stored, under their own node. `EarnedRewardsNeverShrink`: while the schedule is unchanged, no step lowers any node's reward over any window. 13,106 distinct states. |
| vc_concurrent | Two callers, lost PUT replies, other clients of the node, every `VaultStatus` including Expired. `TypeOK`: every cached vault is a well-formed `VaultState`, whatever the interleaving. 205,592 distinct states. |
| cf_concurrent | Two callers, one key of each kind, the node creating objects and writing a token, the `StorageCache` evicting, auto-caching switched, starting from either constructor. `InvalidatedStateReported`: an Ok answer of `is_state_invalidated` or `fetch_invalidation_marker` about a state whose marker the node held when the call began says "invalidated". 2,318,160 distinct states, about 30 s. |

### Violation runs

Each one is a finding in `PROJECT.json`.

| Run | What it shows |
|---|---|
| rv_as_coded | As coded, the task drains a fresh empty queue, so no vault is ever distributed. |
| rv_channel_full | Nothing reads `distribution_rx`. Once the channel is full, the task blocks in `send` and later vaults are never processed. This run sets `CHECK_DEADLOCK FALSE` because the parked task is the behaviour under examination. |
| rv_not_yet | The tick removes a request it judged ready. If the clock then steps back, `process_distribution` reports "not yet", and the request is lost. Spec 4.9 says it stays queued. |
| vc_race | `CacheCoherent` (once every call returned, each cached vault parses as the node's status) fails: `store_vault` POSTs, another task's `update_vault_status` completes with nothing cached, then `store_vault`'s insert (line 878) caches the stale state for good. |
| ib_new_entry | `InboxReadFresh` (a get returns every entry the node held throughout the call) fails: once an inbox is cached, entries posted later are never returned (line 646). |
| ib_delete_race | A get fetches the inbox, a delete completes with no cached list to retain from, then the get's fill (line 733) caches the deleted entry and every later get returns it. With one caller `DeletedNeverReturned` holds, so InboxCache has no passing run: every property of it that holds with one caller fails with two. |
| rc_regions | A receipt with two regions hashed over sorted regions is refused whenever the node's HashSet iterates them the other way (line 398). |
| rc_collision | `HashIdentifiesReceipt`: node "a" with client "bc" and node "ab" with client "c" feed BLAKE3 the same bytes (line 392), against spec I5. |

### Further reproductions outside the run list

These cfgs reproduce further disagreements met while modelling. They are not
part of the run list, which keeps one run per question:

| Cfg | What TLC reports |
|---|---|
| MC_RewardVault_orphan.cfg | `NoOrphanVault`: a failing `create_vault_post` leaves a sealed DLV vault with no metadata or queue entry. |
| MC_RewardVault_overpay.cfg | `NoOverDistribution`: ratios summing to 1.01 are accepted, and 999 tokens pay out 1008. |
| MC_RewardCalc_split.cfg | `AdditiveOverSplit`: three truncations per receipt break spec P4, with 99 over a day but 33 + 64 over two halves. |
| VaultCache_expired.cfg | `CachedStateWasHeld`: `update_vault_status(Expired)` caches Unlocked (line 1140), a state the node's `"expired"` never parses to (line 974). |
| VaultCache_timeout.cfg | `CacheCoherent`: a PUT applied at the node whose reply is lost leaves the cache with the old state (line 1107). |
| VaultCache_foreign.cfg | `CacheCoherent`: nothing evicts a cached vault, so another client's status change is never seen (line 898). |
| ClientFetch_stale_token.cfg | `TokenReadFresh`: once a token is in the `StorageCache`, `fetch_token` keeps returning it after the node's token changed (line 402), and a slower caller's fill can overwrite a newer cached token (line 452). The code makes no freshness promise for tokens, so this is recorded, not reported. |

### Mutants

Every property of a passing run has a mutant: a plausible bug in the mapped code that TLC catches.

| Property | Mutant |
|---|---|
| RequestConservation | The tick leaves the queue un-drained. |
| ClaimRecorded | The status update is lost. |
| DistributionWithinTolerance | The ratio check has no lower bound. |
| EveryVaultResolved | The ready test is strict. |
| RefinesDistributionAbstract | The tick leaves the queue un-drained. |
| TypeOK (RewardVault) | The post status is wrong. |
| TypeOK (RewardCalc) | Verification skips the hash. |
| EarnedRewardsNeverShrink | `process_receipt` overwrites instead of appending. |
| TypeOK (VaultCache) | `get_vault` caches the string without parsing it. |
| InvalidatedStateReported | `is_state_invalidated` trusts a cached "not invalidated". |

## Bounds and why they suffice

**RewardVault**
- Two vaults and two recipients.
- Times 0..2.
- One clock step back.
- A channel of capacity 2, or 1 in rv_channel_full.
- One or two tasks.

This covers every control path:
- due and not-yet requests in the same tick;
- two tasks racing on one queue;
- each DLV error path;
- a full channel.

Recipient maps include the ratio sums at both ends of the tolerance and just outside it (989,999 and 1,010,000), so the boundary comparisons are exercised. The amount 999 is chosen so that `apply_to` truncates.

**VaultCache**
- One vault and two callers in vc_concurrent; two vaults in the single-caller reproductions.
- Every `VaultState` for stores and three or four `VaultStatus` values for updates, so every mapping is exercised.
- Two callers suffice for every race: each race involves one call past its await and one that runs to completion in between.

**InboxCache**
- Three entries, one or two recipients, one or two callers. A get and a delete of a second caller are enough for the fill race; two recipients with postings give a cached and an uncached inbox at once.

**RewardCalc with ReceiptEncoding**
- One node and at most two submissions; two clients, so that two receipts with
  equal metrics differ in a hashed field.
- Ids of one and two bytes in rc_collision: ids of one length cannot
  collide, so the receipt checks are asked only where they can fail.
- Two regions in rc_regions: two is the least that has two orders.
- Times {0, 30000, 86400}, so day fractions both divide and truncate.
- Uptime 99 and 100.
- A schedule with a 3/2 uptime multiplier and a 1/2 region multiplier.

**ClientFetch**
- One key of each kind: calls on different keys touch disjoint entries.
- Two callers: the races need one call past its await and one other call
  running to completion in between.
- Token versions up to 1 in cf_concurrent, whose property is about markers,
  and up to 2 in the stale-token reproduction, so that a cached token can be
  overtaken twice.

## Fairness

`Spec` of RewardVault assumes weak fairness of:
- `Advance`: time passes, and the tokio `interval` fires every 60 s.
- Each task's `Tick`.
- `ProcessDistribution`.
- `Send`.

A spawned task loops forever and never yields except at the awaits modelled here, so a task that can step eventually does. Creation, `initialize` and clock step-backs are environment actions and get no fairness.

RewardCalc, VaultCache, InboxCache and ClientFetch check only safety and have no fairness.

DistributionAbstract has weak fairness of resolving a queued vault. It is implied
by the fairness of RewardVault, which the refinement check confirms.

## Not modelled, and why

- **u64 overflow** in `calculate` and the reward sums is not modelled. TLC's integers are 32-bit.
- **f64 rounding** is not modelled, including the order-dependent product of region multipliers taken in HashSet order. The model uses exact rationals.
- **Decoding of post content after a claim** is treated as infallible.
- **HTTP transport, the benchmarks and the SDK example** have no state machine of their own.
- **`check_health`** sends one request and touches no client state; `store_unilateral_transaction` is modelled only in InboxCache, where it matters. The non-reqwest build (lines 1157-1333) consists of stubs returning `feature_not_available`.
- **BLAKE3** is idealised as injective: the model compares hash inputs.
- **Receipt signatures** are taken to be present; `verify_receipt` only checks that they are non-empty.
- **StorageCache internals** (capacity, expiry) are not in this repository; ClientFetch lets any entry be evicted at any time.
- **A second `store_vault` of an id the node holds** is assumed refused by the node; the node's code is not in this repository.

## Plan

1. RewardVault: done.
2. RewardCalc: done.
3. ReceiptEncoding, composed into RewardCalc: done.
4. VaultCache: done.
5. InboxCache: done.
6. DistributionAbstract and the refinement: done.
7. ClientFetch: done.
8. Next: the rewards.rs hazards still without a run (orphan vault on a failed post, the split non-additivity); liveness of the client calls under fair scheduling.
