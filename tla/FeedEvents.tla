----------------------------- MODULE FeedEvents -----------------------------
(***************************************************************************)
(* The feed_events table: the transactional outbox of feed changes, which  *)
(* the feed worker claims under a lease and drains.                        *)
(*                                                                         *)
(*   storage/src/feed_events.rs, storage/src/sqlite/feed_events.rs,        *)
(*   storage/src/postgres/feed_events.rs                                   *)
(*                                                                         *)
(* Clocks are abstracted to one bit per row, "ripe": the time its status   *)
(* waits for has come.  That is next_attempt_at for a pending row, the end *)
(* of the lease for a claimed one and the end of the retention period for  *)
(* a dead letter; a done row is prunable at once.  Time may make any row   *)
(* ripe at any moment, in any order.                                       *)
(*                                                                         *)
(* A status write names rows by id only: it does not ask what state they   *)
(* are in or who claimed them.                                             *)
(***************************************************************************)
EXTENDS Naturals, FiniteSets

CONSTANTS
    Paths,        \* feed paths
    EventIds,     \* row ids that may be allocated (never reused)
    Corrupt,      \* a stored feed_url that does not decode
    Unused,       \* an id not allocated yet
    Deleted,      \* an id whose row has been deleted
    BatchLimit,   \* rows one claim may take
    PruneLimit    \* rows one retention statement may delete

VARIABLE events   \* id -> row, Unused or Deleted

EventRows ==
    [path: Paths \cup {Corrupt},
     status: {"pending", "claimed", "done", "failed"},
     phase: {"regeneration", "publication"},
     regeneration_attempts: Nat,
     publication_attempts: Nat,
     ripe: BOOLEAN]

EventsTypeOK == events \in [EventIds -> EventRows \cup {Unused, Deleted}]

Stored == {e \in EventIds : events[e] \notin {Unused, Deleted}}

(* A new row, with the defaults of the table.                              *)
NewEvent(p) ==
    [path |-> p, status |-> "pending", phase |-> "regeneration",
     regeneration_attempts |-> 0, publication_attempts |-> 0, ripe |-> TRUE]

(* UPDATE feed_events SET ... WHERE id IN ids                              *)
UpdateRows(ids, Set(_)) ==
    events' = [e \in EventIds |->
                 IF e \in ids \cap Stored THEN Set(events[e]) ELSE events[e]]

DeleteRows(ids) ==
    events' = [e \in EventIds |->
                 IF e \in ids \cap Stored THEN Deleted ELSE events[e]]

------------------------------------------------------------------------------
(* enqueue, enqueue_many, inside the caller's transaction.                 *)
Enqueue(e, p) ==
    /\ events[e] = Unused
    /\ events' = [events EXCEPT ![e] = NewEvent(p)]

(* Mutant of Claimable: the status is not looked at.                       *)
ClaimableAnyStatus == {e \in Stored : events[e].ripe}

Claimable ==
    {e \in Stored : events[e].status \in {"pending", "claimed"} /\ events[e].ripe}

(* The batch a claim returns: eligible rows, up to the limit.              *)
Batch(ids) ==
    /\ ids \subseteq Claimable
    /\ Cardinality(ids) <= BatchLimit
    /\ Cardinality(ids) = BatchLimit \/ ids = Claimable

ClaimRow(row) == [row EXCEPT !.status = "claimed", !.ripe = FALSE]

Decodable(ids) == {e \in ids : events[e].path # Corrupt}

(* claim_pending_batch: rows whose feed_url does not decode are deleted in *)
(* the same transaction, or stay claimed when that delete fails.           *)
ClaimPendingBatch(ids, purged) ==
    /\ Batch(ids)
    /\ purged \in {ids \ Decodable(ids), {}}
    /\ events' = [e \in EventIds |->
                    CASE e \in purged -> Deleted
                      [] e \in ids \ purged -> ClaimRow(events[e])
                      [] OTHER -> events[e]]

------------------------------------------------------------------------------
(* Status writes.                                                          *)

MarkRegenerated(ids) ==
    LET Set(row) == [row EXCEPT !.phase = "publication"]
    IN  UpdateRows(ids, Set)

(* Mutant of MarkPinged: every row of the feed is completed.               *)
MarkPingedByPath(ids) ==
    LET Set(row) == [row EXCEPT !.status = "done", !.ripe = TRUE]
    IN  UpdateRows({e \in Stored :
                      \E i \in ids \cap Stored : events[i].path = events[e].path}, Set)

MarkPinged(ids) ==
    LET Set(row) == [row EXCEPT !.status = "done", !.ripe = TRUE]
    IN  UpdateRows(ids, Set)

(* Mutant of RetryRegeneration: attempts are counted down.                 *)
RetryRegenerationDown(ids) ==
    LET Set(row) == [row EXCEPT !.status = "pending", !.phase = "regeneration",
                                !.regeneration_attempts = @ - 1, !.ripe = FALSE]
    IN  UpdateRows(ids, Set)

RetryRegeneration(ids) ==
    LET Set(row) == [row EXCEPT !.status = "pending", !.phase = "regeneration",
                                !.regeneration_attempts = @ + 1, !.ripe = FALSE]
    IN  UpdateRows(ids, Set)

DeadLetterRegeneration(ids) ==
    LET Set(row) == [row EXCEPT !.status = "failed", !.phase = "regeneration",
                                !.regeneration_attempts = @ + 1, !.ripe = FALSE]
    IN  UpdateRows(ids, Set)

(* Mutant of RetryPublication: the attempt is not counted.                 *)
RetryPublicationFree(ids) ==
    LET Set(row) == [row EXCEPT !.status = "pending", !.phase = "publication",
                                !.ripe = FALSE]
    IN  UpdateRows(ids, Set)

RetryPublication(ids) ==
    LET Set(row) == [row EXCEPT !.status = "pending", !.phase = "publication",
                                !.publication_attempts = @ + 1, !.ripe = FALSE]
    IN  UpdateRows(ids, Set)

DeadLetterPublication(ids) ==
    LET Set(row) == [row EXCEPT !.status = "failed", !.phase = "publication",
                                !.publication_attempts = @ + 1, !.ripe = FALSE]
    IN  UpdateRows(ids, Set)

(* restart_regeneration and reset_regeneration are the same statement: a   *)
(* fresh regeneration budget, due now.  The publication budget is kept.    *)
RestartRegeneration(ids) ==
    LET Set(row) == [row EXCEPT !.status = "pending", !.phase = "regeneration",
                                !.regeneration_attempts = 0, !.ripe = TRUE]
    IN  UpdateRows(ids, Set)

------------------------------------------------------------------------------
(* Operator and maintenance.                                               *)

Redrivable == {e \in Stored : events[e].status = "failed" /\ ~events[e].ripe}

(* redrive_dead_letters: every named id must be a retained dead letter.    *)
RedriveDeadLetters(ids) ==
    /\ ids # {}
    /\ ids \subseteq Redrivable
    /\ LET Set(row) ==
             [row EXCEPT
                !.status = "pending",
                !.regeneration_attempts = IF row.phase = "regeneration" THEN 0 ELSE @,
                !.publication_attempts = IF row.phase = "publication" THEN 0 ELSE @,
                !.ripe = TRUE]
       IN  UpdateRows(ids, Set)

Prunable == {e \in Stored : events[e].status \in {"done", "failed"} /\ events[e].ripe}

(* One statement of prune_terminal_events.                                 *)
PruneTerminalEvents(ids) ==
    /\ ids \subseteq Prunable
    /\ ids # {}
    /\ Cardinality(ids) <= PruneLimit
    /\ Cardinality(ids) = PruneLimit \/ ids = Prunable
    /\ DeleteRows(ids)

(* The clock passes a row's next_attempt_at, lease or retention end.       *)
Elapse(e) ==
    /\ e \in Stored
    /\ ~events[e].ripe
    /\ events' = [events EXCEPT ![e].ripe = TRUE]

==============================================================================
