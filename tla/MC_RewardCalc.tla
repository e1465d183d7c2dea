---------------------------- MODULE MC_RewardCalc ----------------------------
(* Instantiation of RewardCalc for TLC.  Strings are byte sequences:       *)
(* node "a" = <<1>>, clients "c" = <<3>>, "d" = <<4>>, regions "eu" = <<7>> *)
(* and "us" = <<8>> (one byte each).                                        *)
EXTENDS RewardCalc

Eu == <<7>>
Us == <<8>>

(* Period edges: 30000 s is not a whole fraction of a day, so the storage *)
(* reward truncates.                                                       *)
MCTimes == {0, 30000, 86400}

MCNodes == {<<1>>}

(* default_rate_schedule(), and a schedule with uptime_multiplier 1.5 and *)
(* region eu weighted 0.5.                                                 *)
MCDefault ==
  [base_rate_per_byte_day |-> 100, retrieval_rate |-> 10, operation_rate |-> 5,
   uptime_multiplier |-> [num |-> 1, den |-> 1], region_multipliers |-> <<>>]

MCSchedules ==
  { MCDefault,
    [base_rate_per_byte_day |-> 7, retrieval_rate |-> 3, operation_rate |-> 5,
     uptime_multiplier |-> [num |-> 3, den |-> 2],
     region_multipliers |-> (Eu :> [num |-> 1, den |-> 2])] }

(* A receipt with fields f, as a client hashed it (honest), without its    *)
(* client signature, or with a hash that matches no encoding (forged).     *)
Variants(f) ==
  { [node_id |-> f.node_id, client_id |-> f.client_id, start |-> f.start,
     end |-> f.end, bytes_stored |-> f.bytes_stored, retrievals |-> f.retrievals,
     operations_count |-> f.operations_count,
     uptime_percentage |-> f.uptime_percentage, regions |-> f.regions,
     client_signed |-> v.signed, node_signed |-> TRUE,
     receipt_hash |-> IF v.forged THEN <<>> ELSE CanonicalInput(f)] :
    v \in {[signed |-> TRUE, forged |-> FALSE], [signed |-> FALSE, forged |-> FALSE],
           [signed |-> TRUE, forged |-> TRUE]} }

ReceiptsOver(nodes, clients, retrievals, uptimes, regionSets) ==
  UNION {Variants(f) :
           f \in [node_id : nodes, client_id : clients, start : MCTimes,
                  end : MCTimes, bytes_stored : {1}, retrievals : retrievals,
                  operations_count : {0}, uptime_percentage : uptimes,
                  regions : regionSets]}

(* Any service period over MCTimes (the code does not check start <= end), *)
(* one byte stored, 0 or 2 retrievals, 100% or 99% uptime, no region or   *)
(* region eu, from one client.                                             *)
MCReceipts == ReceiptsOver(MCNodes, {<<3>>}, {0, 2}, {100, 99}, {{}, {Eu}})

(* As MCReceipts with 2 retrievals and 99% uptime, from two clients with  *)
(* one-byte ids.                                                           *)
MCTwoClientReceipts == ReceiptsOver(MCNodes, {<<3>>, <<4>>}, {2}, {99}, {{}, {Eu}})

(* Receipts served in two regions: a HashSet may iterate them either way. *)
MCTwoRegionReceipts == ReceiptsOver(MCNodes, {<<3>>}, {2}, {99}, {{Eu, Us}})

(* Ids of different lengths: node "a" with client "bc" and node "ab" with *)
(* client "c".                                                             *)
MCSplitIdNodes == {<<1>>, <<1, 2>>}
MCSplitIdReceipts == ReceiptsOver(MCSplitIdNodes, {<<2, 3>>, <<3>>}, {2}, {99}, {{}})
=============================================================================
