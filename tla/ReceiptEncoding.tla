--------------------------- MODULE ReceiptEncoding ---------------------------
(***************************************************************************)
(* The bytes RewardVaultManager::verify_receipt                            *)
(* (src/dsm-storage-node/src/staking/rewards.rs) feeds BLAKE3 for a        *)
(* StorageReceipt: node_id, client_id, the two service-period bounds as 8  *)
(* little-endian bytes, then bincode(storage_metrics), whose regions field *)
(* is a HashSet<String> serialised in the set's iteration order.  That     *)
(* order depends on the set's per-instance random hash keys, so it is a    *)
(* choice among all orders each time a set is serialised.                  *)
(*                                                                         *)
(* Strings are sequences of byte values.  BLAKE3 is taken to be            *)
(* collision-free: two digests are equal exactly when the byte strings     *)
(* fed to the hasher are equal, so a receipt_hash is that byte string.     *)
(* A receipt is a record with fields node_id, client_id, start, end,       *)
(* bytes_stored, retrievals, operations_count, uptime_percentage, regions. *)
(***************************************************************************)
EXTENDS Naturals, Sequences, SequencesExt

(* u64::to_le_bytes, k bytes.                                              *)
RECURSIVE LeBytes(_, _)
LeBytes(n, k) == IF k = 0 THEN <<>> ELSE <<n % 256>> \o LeBytes(n \div 256, k - 1)

Le64(n) == LeBytes(n, 8)

(* bincode of a String: u64 length, then the bytes.                        *)
BincodeStr(s) == Le64(Len(s)) \o s

(* bincode of a sequence of strings: u64 length, then the elements.       *)
BincodeStrSeq(ord) ==
  Le64(Len(ord)) \o FlattenSeq([i \in 1..Len(ord) |-> BincodeStr(ord[i])])

(* bincode of StorageMetrics with the regions written in the order ord:   *)
(* the fields in declaration order, a u8 for uptime, then the set.        *)
BincodeMetrics(r, ord) ==
  Le64(r.bytes_stored) \o Le64(r.retrievals) \o Le64(r.operations_count)
    \o <<r.uptime_percentage>> \o BincodeStrSeq(ord)

(* What verify_receipt feeds the hasher, regions serialised in order ord. *)
HashInput(r, ord) ==
  r.node_id \o r.client_id \o Le64(r.start) \o Le64(r.end)
    \o BincodeMetrics(r, ord)

(* The orders in which a HashSet holding S may be iterated.                *)
Orders(S) == SetToSeqs(S)

(* Spec section 6: regions sorted lexicographically by their bytes.        *)
RECURSIVE ByteLess(_, _)
ByteLess(s, t) ==
  IF s = <<>> THEN t # <<>>
  ELSE IF t = <<>> THEN FALSE
  ELSE IF Head(s) # Head(t) THEN Head(s) < Head(t)
  ELSE ByteLess(Tail(s), Tail(t))

(* Spec sections 3 and 6: the byte string a client hashes into            *)
(* receipt_hash, the metrics field-ordered and the regions a               *)
(* length-prefixed sorted sequence of length-prefixed strings.            *)
CanonicalInput(r) ==
  r.node_id \o r.client_id \o Le64(r.start) \o Le64(r.end)
    \o Le64(r.bytes_stored) \o Le64(r.retrievals) \o Le64(r.operations_count)
    \o <<r.uptime_percentage>> \o BincodeStrSeq(SetToSortSeq(r.regions, ByteLess))
=============================================================================
