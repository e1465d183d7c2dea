---------------------------- MODULE RewardVault ----------------------------
(***************************************************************************)
(* The custody-and-distribution pipeline of RewardVaultManager             *)
(* (src/dsm-storage-node/src/staking/rewards.rs): vault creation, the      *)
(* distribution queue, the background task spawned by initialize(), the    *)
(* per-request process_distribution handler, and the bounded mpsc result   *)
(* channel.  The DLV manager (dsm::vault, not in this repository) is       *)
(* modelled from its interface in the spec (section 4.3).                  *)
(*                                                                         *)
(* start_distribution_processor() runs the task on a clone of the manager  *)
(* and on a freshly created queue.  SharedState = FALSE models exactly     *)
(* that; SharedState = TRUE models the design of spec section 9, in which  *)
(* the task uses the manager's own queue and registry.  Everything else is *)
(* the same code in both modes.                                            *)
(***************************************************************************)
EXTENDS Integers, Sequences, FiniteSets, Functions, TLC

CONSTANTS
  VaultIds,          \* ids the DLV manager may hand out for new vaults
  Nodes,             \* storage node ids that may appear as recipients
  RecipientChoices,  \* recipient maps (node id -> raw Ratio) callers pass
  Amounts,           \* token amounts callers pass
  MaxTime,           \* largest wall-clock value explored
  MaxSetBacks,       \* how often the wall clock (SystemTime) may step back
  ChanCap,           \* capacity of the result channel (mpsc::channel(100))
  Schedulers,        \* the tasks successive initialize() calls may spawn
  Manager,           \* owner tag of the manager's own queue and registry
  SharedState,       \* does the task use the manager's queue and registry?
  DLVFaults          \* may DLV calls fail or decline?

ASSUME ChanCap \in Nat \ {0}
ASSUME MaxTime \in Nat /\ MaxSetBacks \in Nat
ASSUME Manager \notin Schedulers
ASSUME SharedState \in BOOLEAN /\ DLVFaults \in BOOLEAN
ASSUME \A rcp \in RecipientChoices : DOMAIN rcp \subseteq Nodes
                                     /\ Range(rcp) \subseteq 0..1000000

Owners == {Manager} \cup Schedulers
Times == 0..MaxTime

(* Ratio: fixed point with 6 decimals; apply_to widens to u128.           *)
RatioScale == 1000000
ApplyTo(raw, value) == (value * raw) \div RatioScale

(* Fault variant: only the upper edge of the ratio sum is checked.       *)
ValidRatiosNoLowerBound(rcp) == ~(SumFunction(rcp) > 1010000)

(* The ratio-sum check of create_reward_vault.                             *)
ValidRatios(rcp) ==
  LET sum == SumFunction(rcp) IN ~(sum < 990000 \/ sum > 1010000)

(* Fault variant: the post carries the storage client's name for a       *)
(* sealed vault, "active", rather than "pending".                          *)
PostStatusActive == "active"

(* The status string the DLV's vault post carries into VaultMetadata.      *)
PostStatus == "pending"

(* The per-recipient amounts process_distribution computes from the       *)
(* sealed VaultContent.                                                    *)
Distributions(c) ==
  [n \in DOMAIN c.recipients |-> ApplyTo(c.recipients[n], c.token_amount)]

(* Which owner's queue and registry a spawned task works on.               *)
TaskOwner(s) == IF SharedState THEN Manager ELSE s

VARIABLES
  now,         \* SystemTime::now() in abstract seconds
  setbacks,    \* how often the wall clock has stepped back so far
  dlv,         \* vault id -> sealed vault held by the DLV manager
  registries,  \* owner -> (vault id -> VaultMetadata): vault_registry
  queues,      \* owner -> Seq(DistributionRequest): distribution_queue
  started,     \* tasks spawned by initialize()
  pc,          \* task -> "loop" (tick or next request) | "send" (awaiting send)
  batch,       \* task -> the ready requests of the current tick (to_process)
  out,         \* task -> the result it is sending
  chan         \* the results in the channel; nothing ever receives them

vars == <<now, setbacks, dlv, registries, queues, started, pc, batch, out, chan>>

NoResult == [vault_id |-> "none", success |-> FALSE, error |-> "none",
             details |-> <<>>]

Result(v, ok, err, d) ==
  [vault_id |-> v, success |-> ok, error |-> err, details |-> d]

Failure(v, err) == Result(v, FALSE, err, <<>>)

-----------------------------------------------------------------------------
(* Clock.  The code reads SystemTime, which NTP or an operator may step    *)
(* back; MaxSetBacks bounds how often that happens.                        *)

Advance ==
  /\ now < MaxTime
  /\ now' = now + 1
  /\ UNCHANGED <<setbacks, dlv, registries, queues, started, pc, batch, out, chan>>

SetBack ==
  /\ setbacks < MaxSetBacks /\ now > 0
  /\ now' = now - 1
  /\ setbacks' = setbacks + 1
  /\ UNCHANGED <<dlv, registries, queues, started, pc, batch, out, chan>>

-----------------------------------------------------------------------------
(* create_reward_vault.  The DLV assigns a fresh id; if create_vault fails *)
(* nothing changes (no step).  If create_vault succeeds but                *)
(* create_vault_post (or decoding the post) fails, the error is returned   *)
(* after the DLV already holds the sealed vault.  Otherwise the metadata   *)
(* is inserted and, still under the registry write lock, the request is    *)
(* pushed on the manager's queue.                                          *)

Seal(amt, dt, rcp) ==
  [state |-> "limbo", token_amount |-> amt, recipients |-> rcp,
   unlock_time |-> dt]

(* The VaultMetadata create_reward_vault registers, reduced to the fields *)
(* the pipeline reads.                                                     *)
VaultMetadata(amt, dt, rcp) ==
  [status |-> PostStatus, token_amount |-> amt, distribution_time |-> dt,
   recipients |-> rcp]

(* The DistributionRequest queued for the vault: its id and the            *)
(* distribution time as the request timestamp.                             *)
DistributionRequest(v, dt) == [vault_id |-> v, timestamp |-> dt]

CreateVaultPostFails(v, amt, dt, rcp) ==
  /\ DLVFaults
  /\ v \notin DOMAIN dlv
  /\ ValidRatios(rcp)
  /\ dlv' = dlv @@ (v :> Seal(amt, dt, rcp))
  /\ UNCHANGED <<now, setbacks, registries, queues, started, pc, batch, out, chan>>

CreateRewardVault(v, amt, dt, rcp) ==
  /\ v \notin DOMAIN dlv
  /\ ValidRatios(rcp)
  /\ dlv' = dlv @@ (v :> Seal(amt, dt, rcp))
  /\ registries' = [registries EXCEPT ![Manager] =
                      @ @@ (v :> VaultMetadata(amt, dt, rcp))]
  /\ queues' = [queues EXCEPT ![Manager] = Append(@, DistributionRequest(v, dt))]
  /\ UNCHANGED <<now, setbacks, started, pc, batch, out, chan>>

-----------------------------------------------------------------------------
(* initialize() -> start_distribution_processor(): spawns a task on a      *)
(* clone of the manager (a snapshot of its registry) and a new empty       *)
(* queue.  Calling it twice spawns two tasks.                              *)

Initialize(s) ==
  /\ s \notin started
  /\ started' = started \cup {s}
  /\ registries' = [registries EXCEPT ![s] =
                      IF SharedState THEN @ ELSE registries[Manager]]
  /\ UNCHANGED <<now, setbacks, dlv, queues, pc, batch, out, chan>>

(* Fault variant: a request due exactly now is not ready.                *)
IsReadyStrict(req, t) == req.timestamp < t

(* The partition predicate of the tick.                                    *)
IsReady(req, t) == req.timestamp <= t

(* Fault variant: the ready requests are copied out of the queue rather  *)
(* than drained from it.                                                   *)
TickRestoresAll(s) ==
  LET q == queues[TaskOwner(s)] IN
  /\ s \in started /\ pc[s] = "loop" /\ batch[s] = <<>>
  /\ batch' = [batch EXCEPT ![s] = SelectSeq(q, LAMBDA r : IsReady(r, now))]
  /\ UNCHANGED <<now, setbacks, dlv, registries, queues, started, pc, out, chan>>

(* One interval tick: under the queue lock, drain the queue, keep the      *)
(* ready requests for this tick and put the others back.                   *)
Tick(s) ==
  LET q == queues[TaskOwner(s)] IN
  /\ s \in started /\ pc[s] = "loop" /\ batch[s] = <<>>
  /\ batch' = [batch EXCEPT ![s] = SelectSeq(q, LAMBDA r : IsReady(r, now))]
  /\ queues' = [queues EXCEPT ![TaskOwner(s)] =
                  SelectSeq(q, LAMBDA r : ~IsReady(r, now))]
  /\ UNCHANGED <<now, setbacks, dlv, registries, started, pc, out, chan>>

-----------------------------------------------------------------------------
(* process_distribution(request), one action per outcome.  Each takes the  *)
(* next request of the batch, reads the metadata with get_vault and the    *)
(* clock, and leaves a result to be sent.  get_vault cannot fail here: the *)
(* metadata is inserted before the request is queued, under the same lock. *)

Current(s) == Head(batch[s])

Begin(s) ==
  /\ pc[s] = "loop" /\ batch[s] # <<>>
  /\ Current(s).vault_id \in DOMAIN registries[TaskOwner(s)]

Emit(s, r) ==
  /\ batch' = [batch EXCEPT ![s] = Tail(@)]
  /\ out' = [out EXCEPT ![s] = r]
  /\ pc' = [pc EXCEPT ![s] = "send"]

Meta(s) == registries[TaskOwner(s)][Current(s).vault_id]

(* The DLV accepts a TimeProof once unlock_time has passed.                *)
DueAtDLV(v) == dlv[v].state = "limbo" /\ now >= dlv[v].unlock_time

(* now < metadata.distribution_time: a failure result; the request has    *)
(* already left the queue.                                                 *)
DistributeNotYet(s) ==
  /\ Begin(s)
  /\ now < Meta(s).distribution_time
  /\ Emit(s, Failure(Current(s).vault_id, "not_yet"))
  /\ UNCHANGED <<now, setbacks, dlv, registries, queues, started, chan>>

(* try_unlock_vault returns Err.                                           *)
DistributeUnlockError(s) ==
  LET v == Current(s).vault_id IN
  /\ Begin(s)
  /\ now >= Meta(s).distribution_time
  /\ ~DueAtDLV(v) \/ DLVFaults
  /\ Emit(s, Failure(v, "unlock_error"))
  /\ UNCHANGED <<now, setbacks, dlv, registries, queues, started, chan>>

(* try_unlock_vault returns Ok(false): the DLV declines the proof.         *)
DistributeUnlockDeclined(s) ==
  LET v == Current(s).vault_id IN
  /\ Begin(s)
  /\ now >= Meta(s).distribution_time
  /\ DLVFaults /\ dlv[v].state = "limbo"
  /\ Emit(s, Failure(v, "not_met"))
  /\ UNCHANGED <<now, setbacks, dlv, registries, queues, started, chan>>

(* Ok(true), then claim_vault_content returns Err: the DLV vault stays     *)
(* unlocked and unclaimed.                                                 *)
DistributeClaimError(s) ==
  LET v == Current(s).vault_id IN
  /\ Begin(s)
  /\ now >= Meta(s).distribution_time
  /\ DLVFaults /\ DueAtDLV(v)
  /\ dlv' = [dlv EXCEPT ![v].state = "unlocked"]
  /\ Emit(s, Failure(v, "claim_error"))
  /\ UNCHANGED <<now, setbacks, registries, queues, started, chan>>

(* Fault variant: the status write is lost.                               *)
UpdateVaultStatusLost(reg, v, st) == reg

(* update_vault_status(vault_id, "claimed") on the task's registry.        *)
UpdateVaultStatus(reg, v, st) == [reg EXCEPT ![v].status = st]

(* Ok(true), claim succeeds: compute the amounts from the sealed content,  *)
(* set the status to claimed and produce the success result.               *)
DistributeClaimed(s) ==
  LET v == Current(s).vault_id IN
  /\ Begin(s)
  /\ now >= Meta(s).distribution_time
  /\ DueAtDLV(v)
  /\ dlv' = [dlv EXCEPT ![v].state = "claimed"]
  /\ registries' = [registries EXCEPT ![TaskOwner(s)] =
                      UpdateVaultStatus(@, v, "claimed")]
  /\ Emit(s, Result(v, TRUE, "none", Distributions(dlv[v])))
  /\ UNCHANGED <<now, setbacks, queues, started, chan>>

(* distribution_tx.send(result).await: waits while the channel is full.   *)
Send(s) ==
  /\ pc[s] = "send"
  /\ Len(chan) < ChanCap
  /\ chan' = Append(chan, out[s])
  /\ pc' = [pc EXCEPT ![s] = "loop"]
  /\ out' = [out EXCEPT ![s] = NoResult]
  /\ UNCHANGED <<now, setbacks, dlv, registries, queues, started, batch>>

ProcessDistribution(s) ==
  \/ DistributeNotYet(s)
  \/ DistributeUnlockError(s)
  \/ DistributeUnlockDeclined(s)
  \/ DistributeClaimError(s)
  \/ DistributeClaimed(s)

-----------------------------------------------------------------------------
Init ==
  /\ now = 0
  /\ setbacks = 0
  /\ dlv = <<>>
  /\ registries = [o \in Owners |-> <<>>]
  /\ queues = [o \in Owners |-> <<>>]
  /\ started = {}
  /\ pc = [s \in Schedulers |-> "loop"]
  /\ batch = [s \in Schedulers |-> <<>>]
  /\ out = [s \in Schedulers |-> NoResult]
  /\ chan = <<>>

Next ==
  \/ Advance
  \/ SetBack
  \/ \E v \in VaultIds, amt \in Amounts, dt \in Times, rcp \in RecipientChoices :
       \/ CreateRewardVault(v, amt, dt, rcp)
       \/ CreateVaultPostFails(v, amt, dt, rcp)
  \/ \E s \in Schedulers :
       \/ Initialize(s)
       \/ Tick(s)
       \/ ProcessDistribution(s)
       \/ Send(s)

(* The task is driven by tokio's interval timer and never blocks except   *)
(* on the channel; the wall clock keeps moving.  Callers are not obliged  *)
(* to create vaults or to call initialize().                               *)
Fairness ==
  /\ WF_vars(Advance)
  /\ \A s \in Schedulers :
       WF_vars(Tick(s)) /\ WF_vars(ProcessDistribution(s)) /\ WF_vars(Send(s))

Spec == Init /\ [][Next]_vars /\ Fairness
-----------------------------------------------------------------------------
(* Views of the pipeline used by the properties.                           *)

InFlight == {out[s] : s \in {t \in Schedulers : pc[t] = "send"}}
Published == {chan[i] : i \in 1..Len(chan)}
(* Results produced so far: sent or being sent.                            *)
Produced == Published \cup InFlight

CountIn(seq, v) == Len(SelectSeq(seq, LAMBDA r : r.vault_id = v))

(* How many copies of v's request or result exist anywhere in the          *)
(* pipeline: in any queue, in a tick's batch, being sent, or in the        *)
(* channel.                                                                *)
Copies(v) ==
  LET inQueues == SumFunction([o \in Owners |-> CountIn(queues[o], v)])
      inBatches == SumFunction([s \in Schedulers |-> CountIn(batch[s], v)])
      sending == Cardinality({s \in Schedulers :
                                pc[s] = "send" /\ out[s].vault_id = v})
  IN inQueues + inBatches + sending + CountIn(chan, v)

Resolved(v) == \E r \in Published : r.vault_id = v

Registered(v) == v \in DOMAIN registries[Manager]

TypeOK ==
  /\ now \in Times /\ setbacks \in 0..MaxSetBacks
  /\ DOMAIN dlv \subseteq VaultIds
  /\ \A v \in DOMAIN dlv :
       /\ dlv[v].state \in {"limbo", "unlocked", "claimed"}
       /\ dlv[v].token_amount \in Amounts /\ dlv[v].unlock_time \in Times
       /\ dlv[v].recipients \in RecipientChoices
  /\ \A o \in Owners : \A v \in DOMAIN registries[o] :
       /\ v \in DOMAIN dlv
       /\ registries[o][v].status \in {"pending", "claimed"}
  /\ \A o \in Owners : \A i \in 1..Len(queues[o]) :
       queues[o][i].vault_id \in DOMAIN dlv /\ queues[o][i].timestamp \in Times
  /\ started \subseteq Schedulers
  /\ pc \in [Schedulers -> {"loop", "send"}]
  /\ \A s \in Schedulers : \A i \in 1..Len(batch[s]) :
       batch[s][i].vault_id \in DOMAIN dlv
  /\ \A r \in Produced :
       /\ r.vault_id \in DOMAIN dlv /\ r.success \in BOOLEAN
       /\ r.error \in {"none", "not_yet", "unlock_error", "not_met", "claim_error"}
       /\ DOMAIN r.details \subseteq Nodes /\ Range(r.details) \subseteq Nat
  /\ Len(chan) <= ChanCap

(* Every vault create_reward_vault registered has exactly one request or  *)
(* result in the pipeline: the tick's drain/partition/restore under the    *)
(* queue lock, run by one or two tasks and interleaved with creations,    *)
(* neither loses a request nor processes one twice.                        *)
RequestConservation ==
  \A v \in DOMAIN registries[Manager] : Copies(v) = 1

(* Funds the DLV released are accounted for: a vault is claimed at the    *)
(* DLV exactly when the manager's registry (the authority get_vault reads)*)
(* says "claimed", and exactly when a success result for it was produced; *)
(* at most one success result exists per vault (spec P6).                  *)
ClaimRecorded ==
  \A v \in DOMAIN dlv :
    LET claimed == dlv[v].state = "claimed"
        recorded == Registered(v) /\ registries[Manager][v].status = "claimed"
        successes == {r \in Produced : r.vault_id = v /\ r.success}
    IN  /\ claimed = recorded
        /\ claimed = (successes # {})
        /\ \A i, j \in 1..Len(chan) :
             chan[i].vault_id = v /\ chan[i].success /\ chan[j].success
               /\ chan[j].vault_id = v => i = j

(* A published distribution pays out what the creator's ratios promised,  *)
(* within the 1% tolerance of the ratio check and one unit of truncation  *)
(* per recipient: the sealed content round-trips through the DLV and       *)
(* apply_to never over- or under-shoots beyond that.                       *)
DistributionWithinTolerance ==
  \A r \in Produced :
    r.success =>
      LET amt == registries[Manager][r.vault_id].token_amount
          paid == SumFunction(r.details)
      IN  /\ paid <= (amt * 1010000) \div RatioScale
          /\ paid >= (amt * 990000) \div RatioScale - Cardinality(DOMAIN r.details)

(* Once a task is running, every registered vault eventually has its     *)
(* distribution result (success or failure) sent on distribution_tx.       *)
EveryVaultResolved ==
  \A v \in VaultIds : (Registered(v) /\ started # {}) ~> Resolved(v)

(* Spec 4.9: a request that is not yet due remains in the queue for a     *)
(* future tick.  Checked against process_distribution's not-yet branch.    *)
NotYetStaysQueued ==
  \A r \in Produced :
    r.error = "not_yet" =>
      \E o \in Owners : CountIn(queues[o], r.vault_id) > 0

(* Spec 7: vault creation aborts cleanly with no partial state.  Here:    *)
(* every vault the DLV holds is known to the registry.                     *)
NoOrphanVault == \A v \in DOMAIN dlv : Registered(v)

(* A vault never pays out more than the tokens it was funded with.        *)
NoOverDistribution ==
  \A r \in Produced :
    r.success =>
      SumFunction(r.details) <= registries[Manager][r.vault_id].token_amount
=============================================================================
