---------------------------- MODULE IndexContract -----------------------------
(***************************************************************************)
(* What the incremental indexer promises about one Algolia index and the   *)
(* state rows beside it (docs/decisions/0012), with no task, batch, retry  *)
(* or crash in sight:                                                      *)
(*                                                                         *)
(*   - a record that is being replaced never loses its last shard;         *)
(*   - a row is stamped INDEXED only with shards the index hosts, and      *)
(*     stamped REMOVED only when the shards it recorded are gone;          *)
(*   - a failure changes nothing on the row but the failure itself.        *)
(*                                                                         *)
(* IndexBatch implements this under a refinement mapping.                  *)
(***************************************************************************)
EXTENDS IndexingDecision

CONSTANTS
    Key,          \* content keys
    Time          \* the instants a row can be stamped with

VARIABLES
    row,          \* the state row of each key
    hosted,       \* the shards of each key that Algolia hosts
    withdrawing   \* the keys whose shards are being taken out of the index

cvars == <<row, hosted, withdrawing>>

CTypeOK ==
    /\ row \in [Key -> Row]
    /\ hosted \in [Key -> SUBSET Shard]
    /\ withdrawing \in SUBSET Key

CInit ==
    /\ row = [k \in Key |-> EmptyRow]
    /\ hosted \in [Key -> SUBSET Shard]     \* what the legacy reindex left
    /\ withdrawing = {}

(* The indexer makes up its mind about some keys. *)
Reconsider ==
    /\ withdrawing' \in SUBSET Key
    /\ UNCHANGED <<row, hosted>>

Upsert(k, s) ==
    /\ hosted' = [hosted EXCEPT ![k] = @ \union {s}]
    /\ UNCHANGED <<row, withdrawing>>

(* An orphan goes; something of the record stays. *)
Prune(k, s) ==
    /\ hosted[k] \ {s} # {}
    /\ hosted' = [hosted EXCEPT ![k] = @ \ {s}]
    /\ UNCHANGED <<row, withdrawing>>

Withdraw(k, s) ==
    /\ k \in withdrawing
    /\ hosted' = [hosted EXCEPT ![k] = @ \ {s}]
    /\ UNCHANGED <<row, withdrawing>>

StampIndexed(k, ids, at) ==
    /\ k \notin withdrawing
    /\ ids # {} /\ ids \subseteq hosted[k]
    /\ at >= row[k].lastIndexed
    /\ row' = [row EXCEPT ![k] = [lastIndexed |-> at, failed |-> FALSE,
                               removed |-> FALSE, ids |-> ids]]
    /\ UNCHANGED <<hosted, withdrawing>>

StampRemoved(k) ==
    /\ k \in withdrawing
    /\ row[k].ids \intersect hosted[k] = {}
    /\ row' = [row EXCEPT ![k].removed = TRUE]
    /\ UNCHANGED <<hosted, withdrawing>>

StampFailed(k) ==
    /\ row' = [row EXCEPT ![k].failed = TRUE]
    /\ UNCHANGED <<hosted, withdrawing>>

CNext ==
    \/ Reconsider
    \/ \E k \in Key :
        \/ \E s \in Shard : Upsert(k, s) \/ Prune(k, s) \/ Withdraw(k, s)
        \/ \E ids \in SUBSET Shard, at \in Time : StampIndexed(k, ids, at)
        \/ StampRemoved(k)
        \/ StampFailed(k)

CSpec == CInit /\ [][CNext]_cvars
=============================================================================
