--------------------------- MODULE MC_RewardVault ---------------------------
(* Instantiation of RewardVault for TLC.                                   *)
EXTENDS RewardVault

CONSTANTS n1, n2

(* Recipient maps around the two edges of the ratio check: sums of exactly *)
(* 1_000_000, 990_000 and 1_010_000 (accepted), 989_999 and 500_000        *)
(* (rejected).                                                             *)
MCRecipients ==
  { (n1 :> 600000) @@ (n2 :> 400000),
    (n1 :> 590000) @@ (n2 :> 400000),
    (n1 :> 610000) @@ (n2 :> 400000),
    (n1 :> 589999) @@ (n2 :> 400000),
    (n1 :> 500000) }

(* 999 tokens: every recipient's share truncates.                          *)
MCAmounts == {999}

-----------------------------------------------------------------------------
(* Refinement mapping onto DistributionAbstract.  A registered vault is   *)
(* claimed when the manager's registry says so, failed once a failure     *)
(* result for it has been produced, and queued otherwise; the published    *)
(* results are those produced (being sent or in the channel).              *)
AbsStatus(v) ==
  IF registries[Manager][v].status = "claimed" THEN "claimed"
  ELSE IF \E r \in Produced : r.vault_id = v THEN "failed"
  ELSE "queued"

AbsVaults ==
  [v \in DOMAIN registries[Manager] |->
     [amount |-> registries[Manager][v].token_amount,
      time |-> registries[Manager][v].distribution_time,
      recipients |-> registries[Manager][v].recipients,
      status |-> AbsStatus(v)]]

Abstract == INSTANCE DistributionAbstract
              WITH vaults <- AbsVaults, results <- Produced,
                   running <- (started # {}),
                   Errors <- {"not_yet", "unlock_error", "not_met", "claim_error"}

(* With the task on the manager's queue and registry, the pipeline        *)
(* implements the abstract promise: every step of create_reward_vault,    *)
(* the tick and process_distribution is a creation, a single resolution   *)
(* of a queued vault (a success only once its distribution_time has come, *)
(* paying apply_to of the sealed content) or invisible, and every queued  *)
(* vault is eventually resolved.                                           *)
RefinesDistributionAbstract == Abstract!Spec
=============================================================================
