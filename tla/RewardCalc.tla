----------------------------- MODULE RewardCalc -----------------------------
(***************************************************************************)
(* Receipt registry, rate schedule and reward calculation of               *)
(* RewardVaultManager (src/dsm-storage-node/src/staking/rewards.rs):       *)
(* process_receipt appends verified receipts per node, update_rate_schedule *)
(* replaces the schedule, and calculate_node_rewards folds the receipts    *)
(* that overlap a query window.                                            *)
(*                                                                         *)
(* The f64 quantities of the code (the day fraction, uptime_multiplier,    *)
(* region multipliers) are exact rationals [num |-> , den |-> ] here, and  *)
(* every `as u64` cast is a floor.  verify_receipt recomputes the receipt  *)
(* hash with the encoding of ReceiptEncoding, the regions serialised in    *)
(* the iteration order of the node's deserialised HashSet.                 *)
(***************************************************************************)
EXTENDS Integers, Sequences, FiniteSets, SequencesExt, ReceiptEncoding

CONSTANTS
  Nodes,            \* storage node ids (byte strings)
  Receipts,         \* receipts clients may submit
  Schedules,        \* rate schedules update_rate_schedule may install
  DefaultSchedule,  \* default_rate_schedule()
  Times,            \* timestamps of receipt periods and query windows
  MaxReceipts       \* bound on the receipts submitted (stored or refused)

ASSUME DefaultSchedule \in Schedules
ASSUME \A r \in Receipts : r.node_id \in Nodes
ASSUME MaxReceipts \in Nat

SecsPerDay == 86400

(* RateSchedule::calculate: storage over the day fraction, cast to u64,   *)
(* plus retrieval_rate * retrievals.                                       *)
Calculate(sch, duration, bytes, retrievals) ==
  (sch.base_rate_per_byte_day * bytes * duration) \div SecsPerDay
    + sch.retrieval_rate * retrievals

(* The product of the multipliers of the receipt's regions that the       *)
(* schedule lists; other regions count as 1.                               *)
RegionMultiplier(sch, regions) ==
  FoldSet(LAMBDA g, acc :
            [num |-> acc.num * sch.region_multipliers[g].num,
             den |-> acc.den * sch.region_multipliers[g].den],
          [num |-> 1, den |-> 1],
          regions \cap DOMAIN sch.region_multipliers)

(* Overlap of the receipt's service period with the query window,          *)
(* saturating at 0.                                                        *)
Overlap(r, a, b) ==
  LET start == IF a > r.start THEN a ELSE r.start
      end == IF b < r.end THEN b ELSE r.end
  IN  IF end > start THEN end - start ELSE 0

(* One iteration of the loop of calculate_node_rewards: storage reward,   *)
(* scaled by uptime, then by the regions, truncating after each step.     *)
ReceiptReward(sch, r, a, b) ==
  LET d == Overlap(r, a, b)
      storage == Calculate(sch, d, r.bytes_stored, r.retrievals)
      scaled == (storage * r.uptime_percentage * sch.uptime_multiplier.num)
                  \div (100 * sch.uptime_multiplier.den)
      g == RegionMultiplier(sch, r.regions)
  IN  IF d = 0 THEN 0 ELSE (scaled * g.num) \div g.den

(* The receipts whose service period overlaps the window.                  *)
Overlapping(rs, a, b) == SelectSeq(rs, LAMBDA r : r.start < b /\ r.end > a)

(* Fault variant: the recomputed hash is not compared.                    *)
VerifyReceiptNoHash(r, ord) == r.client_signed /\ r.node_signed

(* verify_receipt: both signatures present, and the hash recomputed over   *)
(* the regions in order ord equals receipt_hash.                           *)
VerifyReceipt(r, ord) ==
  r.client_signed /\ r.node_signed /\ HashInput(r, ord) = r.receipt_hash

VARIABLES
  receipt_registry,  \* node id -> Seq(StorageReceipt)
  rate_schedule,     \* the current RateSchedule
  refused            \* receipts for which process_receipt returned Err

vars == <<receipt_registry, rate_schedule, refused>>

(* calculate_node_rewards(node_id, period_start, period_end).             *)
CalculateNodeRewards(node, a, b) ==
  IF node \notin DOMAIN receipt_registry THEN 0
  ELSE FoldLeft(LAMBDA total, r : total + ReceiptReward(rate_schedule, r, a, b),
                0, Overlapping(receipt_registry[node], a, b))

Stored == IF DOMAIN receipt_registry = {} THEN 0
          ELSE SumFunction([n \in DOMAIN receipt_registry |->
                              Len(receipt_registry[n])])

Submitted == Stored + Cardinality(refused)

(* Fault variant: the node's list is replaced (insert) rather than        *)
(* appended to.                                                            *)
ProcessReceiptOverwrites(r, ord) ==
  /\ Submitted < MaxReceipts
  /\ IF VerifyReceipt(r, ord)
       THEN /\ receipt_registry' = (r.node_id :> <<r>>) @@ receipt_registry
            /\ UNCHANGED refused
       ELSE /\ refused' = refused \cup {r}
            /\ UNCHANGED receipt_registry
  /\ UNCHANGED rate_schedule

(* process_receipt: verify_receipt on the receipt as deserialised, its     *)
(* regions iterated in order ord; on Err nothing is stored, otherwise the  *)
(* receipt is appended under its node's entry.                             *)
ProcessReceipt(r, ord) ==
  /\ Submitted < MaxReceipts
  /\ IF VerifyReceipt(r, ord)
       THEN /\ receipt_registry' =
                 IF r.node_id \in DOMAIN receipt_registry
                 THEN [receipt_registry EXCEPT ![r.node_id] = Append(@, r)]
                 ELSE receipt_registry @@ (r.node_id :> <<r>>)
            /\ UNCHANGED refused
       ELSE /\ refused' = refused \cup {r}
            /\ UNCHANGED receipt_registry
  /\ UNCHANGED rate_schedule

(* update_rate_schedule: replace the schedule under the write lock.       *)
UpdateRateSchedule(sch) ==
  /\ rate_schedule' = sch
  /\ UNCHANGED <<receipt_registry, refused>>

Init ==
  /\ receipt_registry = <<>>
  /\ rate_schedule = DefaultSchedule
  /\ refused = {}

Next ==
  \/ \E r \in Receipts : \E ord \in Orders(r.regions) : ProcessReceipt(r, ord)
  \/ \E sch \in Schedules : UpdateRateSchedule(sch)

Spec == Init /\ [][Next]_vars

-----------------------------------------------------------------------------
TypeOK ==
  /\ DOMAIN receipt_registry \subseteq Nodes
  /\ \A n \in DOMAIN receipt_registry :
       /\ receipt_registry[n] \in Seq(Receipts)
       /\ \A i \in 1..Len(receipt_registry[n]) :
            LET r == receipt_registry[n][i] IN
              /\ r.node_id = n /\ r.client_signed /\ r.node_signed
              /\ \E ord \in Orders(r.regions) : HashInput(r, ord) = r.receipt_hash
  /\ rate_schedule \in Schedules
  /\ refused \subseteq Receipts
  /\ Submitted <= MaxReceipts

(* While the rate schedule stays the same, no step lowers the reward of  *)
(* any node over any window: a reward already earned is never clawed back *)
(* by a later process_receipt for the same node (receipts are append-only, *)
(* spec I4, and every overlapping receipt adds a non-negative amount).     *)
EarnedRewardsNeverShrink ==
  [][rate_schedule' = rate_schedule =>
       \A n \in Nodes, a, b \in Times :
         a < b => CalculateNodeRewards(n, a, b)' >= CalculateNodeRewards(n, a, b)
    ]_vars

(* Spec P4: for adjacent windows [a,b) and [b,c), the two rewards add up   *)
(* to the reward over [a,c) within one unit per receipt selected.         *)
AdditiveOverSplit ==
  \A n \in Nodes, a, b, c \in Times :
    a < b /\ b < c =>
      LET whole == CalculateNodeRewards(n, a, c)
          parts == CalculateNodeRewards(n, a, b) + CalculateNodeRewards(n, b, c)
          k == IF n \in DOMAIN receipt_registry
               THEN Len(Overlapping(receipt_registry[n], a, c)) ELSE 0
      IN  whole - k <= parts /\ parts <= whole + k
(* The receipt a client issues as spec sections 3 and 6 prescribe: both  *)
(* signatures present and receipt_hash over the canonical encoding.        *)
Honest(r) == r.client_signed /\ r.node_signed /\ r.receipt_hash = CanonicalInput(r)

(* Spec P1 and section 6: process_receipt accepts every receipt a client   *)
(* hashed canonically, whatever order the node's deserialised HashSet      *)
(* iterates its regions in.                                                *)
CanonicalReceiptAccepted == \A r \in refused : ~Honest(r)

(* The fields receipt_hash stands for.                                     *)
HashedFields(r) ==
  Restrict(r, {"node_id", "client_id", "start", "end", "bytes_stored",
               "retrievals", "operations_count", "uptime_percentage", "regions"})

(* Spec I5: receipt_hash identifies the receipt.  No two receipts          *)
(* submitted to process_receipt, differing in node_id, client_id, service  *)
(* period or metrics, have the same hash as verify_receipt computes it,    *)
(* whatever order each HashSet iterates its regions in.                    *)
HashIdentifiesReceipt ==
  LET sub == refused \cup UNION {ToSet(receipt_registry[n]) : n \in DOMAIN receipt_registry}
  IN \A x, y \in sub :
       \A o1 \in Orders(x.regions), o2 \in Orders(y.regions) :
         HashInput(x, o1) = HashInput(y, o2) => HashedFields(x) = HashedFields(y)
=============================================================================
