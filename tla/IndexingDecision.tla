--------------------------- MODULE IndexingDecision ---------------------------
(***************************************************************************)
(* The pure part of the incremental Algolia indexing tasks: the state row  *)
(* ContentMetadataIndexingState with its mark_as_* transitions             *)
(* (apps/search/models.py) and the function that decides what a batch task *)
(* does with one content record (apps/search/tasks.py,                     *)
(* _resolve_indexing_decision).                                            *)
(*                                                                         *)
(* Times are ticks of a clock that starts at 1; Never stands for NULL.     *)
(* last_failure_at and removed_from_index_at are only ever tested for      *)
(* being set, so a row keeps a Boolean for each.  A record without a row   *)
(* behaves as EmptyRow does: get_or_create_for_content creates that row.   *)
(***************************************************************************)
EXTENDS Naturals

CONSTANT Shard    \* the shards (Algolia objects) one content record can have

Never == 0

Row == [lastIndexed : Nat, failed : BOOLEAN, removed : BOOLEAN, ids : SUBSET Shard]

EmptyRow == [lastIndexed |-> Never, failed |-> FALSE, removed |-> FALSE, ids |-> {}]

-----------------------------------------------------------------------------

\* ContentMetadataIndexingState.mark_as_indexed
MarkAsIndexed(row, ids, at) ==
    [lastIndexed |-> at, failed |-> FALSE, removed |-> FALSE, ids |-> ids]

\* ContentMetadataIndexingState.mark_as_failed
MarkAsFailed(row) == [row EXCEPT !.failed = TRUE]

\* Empties the recorded shard ids by storing a list with a NULL in it.
MarkAsRemoved_NullIds(row) == [row EXCEPT !.removed = TRUE, !.ids = {Never}]

\* ContentMetadataIndexingState.mark_as_removed: the recorded shard ids and the
\* last_indexed_at stamp stay on the row.
MarkAsRemoved(row) == [row EXCEPT !.removed = TRUE]

\* ContentMetadataIndexingState.is_stale
IsStale(row, modified) == row.lastIndexed = Never \/ modified > row.lastIndexed

-----------------------------------------------------------------------------
(* RecordOutcome and IndexingDecision.  The new objects of a decision are   *)
(* the ones its task built, so a decision only carries the shards to delete.*)

Indexed == "indexed"
Skipped == "skipped"
Removed == "removed"
Failed  == "failed"
Outcome == {Indexed, Skipped, Removed, Failed}

Decision == [desired : Outcome, outcome : Outcome, del : SUBSET Shard]

Decide(outcome, del) == [desired |-> outcome, outcome |-> outcome, del |-> del]

\* _existing_shard_ids: the row's ids, or a browse of Algolia when it has none.
ExistingShardIds(row, browsed) == IF row.ids # {} THEN row.ids ELSE browsed

\* Lets a record whose last attempt failed pass for fresh.
Skippable_FailuresToo(row, modified, force) ==
    ~ force /\ row.lastIndexed # Never /\ row.lastIndexed >= modified

\* The early return of _resolve_indexing_decision.
Skippable(row, modified, force) ==
    /\ ~ force
    /\ row.lastIndexed # Never
    /\ row.lastIndexed >= modified
    /\ ~ row.failed

\* Deletes what the new objects replace instead of what they leave behind.
ResolveDecision_NoDifference(row, modified, indexable, new, browsed, force) ==
    LET existing == ExistingShardIds(row, browsed)
    IN  IF ~ indexable THEN Decide(Removed, existing)
        ELSE IF Skippable(row, modified, force) THEN Decide(Skipped, {})
        ELSE IF new = {} THEN Decide(Removed, existing)
        ELSE Decide(Indexed, existing)

\* _resolve_indexing_decision for a record that has a ContentMetadata row.
ResolveDecision(row, modified, indexable, new, browsed, force) ==
    LET existing == ExistingShardIds(row, browsed)
    IN  IF ~ indexable THEN Decide(Removed, existing)
        ELSE IF Skippable(row, modified, force) THEN Decide(Skipped, {})
        ELSE IF new = {} THEN Decide(Removed, existing)
        ELSE Decide(Indexed, existing \ new)
=============================================================================
