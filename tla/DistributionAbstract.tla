------------------------ MODULE DistributionAbstract ------------------------
(***************************************************************************)
(* What the reward vault engine promises about distributions (spec.md,     *)
(* sections 4.8-4.9 and P6), with queues, tasks, the DLV and the result    *)
(* channel left out: a vault is created queued with ratios that pass the   *)
(* 1% check; once the scheduler runs, each queued vault is resolved once,  *)
(* either by a success, only at or after its distribution time and paying *)
(* each recipient its share, or by a failure; every result is published.   *)
(***************************************************************************)
EXTENDS Integers, FiniteSets, Functions, TLC

CONSTANTS
  VaultIds,          \* vault ids
  Amounts,           \* token amounts
  Times,             \* wall-clock values
  RecipientChoices,  \* recipient maps node id -> raw ratio
  Errors             \* failure kinds a distribution attempt may report

VARIABLES
  now,       \* the wall clock; it may be stepped in either direction
  vaults,    \* vault id -> [amount, time, recipients, status]
  results,   \* the distribution results published so far
  running    \* has the scheduler been started?

avars == <<now, vaults, results, running>>

(* A recipient's share of amount: raw ratio in millionths, truncated.      *)
Share(raw, amount) == (amount * raw) \div 1000000

Payout(v) ==
  [n \in DOMAIN vaults[v].recipients |->
     Share(vaults[v].recipients[n], vaults[v].amount)]

Create(v, amt, dt, rcp) ==
  /\ v \notin DOMAIN vaults
  /\ SumFunction(rcp) \in 990000..1010000
  /\ vaults' = vaults @@ (v :> [amount |-> amt, time |-> dt,
                                recipients |-> rcp, status |-> "queued"])
  /\ UNCHANGED <<now, results, running>>

Start ==
  /\ ~running
  /\ running' = TRUE
  /\ UNCHANGED <<now, vaults, results>>

Clock ==
  /\ now' \in Times \ {now}
  /\ UNCHANGED <<vaults, results, running>>

Succeed(v) ==
  /\ now >= vaults[v].time
  /\ vaults' = [vaults EXCEPT ![v].status = "claimed"]
  /\ results' = results \cup {[vault_id |-> v, success |-> TRUE,
                               error |-> "none", details |-> Payout(v)]}

Fail(v) ==
  \E err \in Errors :
    /\ vaults' = [vaults EXCEPT ![v].status = "failed"]
    /\ results' = results \cup {[vault_id |-> v, success |-> FALSE,
                                 error |-> err, details |-> <<>>]}

Resolve(v) ==
  /\ running
  /\ v \in DOMAIN vaults /\ vaults[v].status = "queued"
  /\ Succeed(v) \/ Fail(v)
  /\ UNCHANGED <<now, running>>

Init ==
  /\ now = 0
  /\ vaults = <<>>
  /\ results = {}
  /\ running = FALSE

Next ==
  \/ \E v \in VaultIds, amt \in Amounts, dt \in Times, rcp \in RecipientChoices :
       Create(v, amt, dt, rcp)
  \/ Start
  \/ Clock
  \/ \E v \in VaultIds : Resolve(v)

(* While a queued vault exists and the scheduler runs, one is resolved.    *)
Spec == Init /\ [][Next]_avars /\ WF_avars(\E v \in VaultIds : Resolve(v))
=============================================================================
