----------------------------- MODULE FeedWorker -----------------------------
(***************************************************************************)
(* The feed worker: ticks that claim rows of the feed_events queue, take   *)
(* each feed path's rows through the publisher seam and write the outcome  *)
(* back to the queue.  Composes FeedEvents (the queue) and Publisher (the  *)
(* seam).                                                                  *)
(*                                                                         *)
(*   server/src/feed/worker.rs                                             *)
(*                                                                         *)
(* The ticks of one worker may overlap: the scheduler starts one every     *)
(* interval whether or not the last has returned.  A tick keeps the rows   *)
(* as the claim returned them and decides retries from that copy.  Every   *)
(* status write is a transaction of its own that may fail, or commit       *)
(* without being acknowledged; the tick reports it and goes on.            *)
(***************************************************************************)
EXTENDS Publisher, FiniteSets

CONSTANTS
    EventIds, Corrupt, Unused, Deleted, BatchLimit, PruneLimit,  \* the queue's
    RegenBudget,        \* length of REGEN_BACKOFFS_SECS
    PublicationBudget,  \* length of PUBLICATION_BACKOFFS_SECS
    MaxRedrives,        \* bound on operator redrives
    MaxLost             \* bound on claims and status writes that fail

ASSUME QueueAssumption ==
    /\ RegenBudget \in Nat
    /\ PublicationBudget \in Nat
    /\ MaxRedrives \in Nat
    /\ MaxLost \in Nat
    /\ BatchLimit \in Nat \ {0}
    /\ PruneLimit \in Nat \ {0}
    /\ Corrupt \notin Paths

VARIABLES
    events,     \* the queue
    batch,      \* tick -> the rows it has claimed and not finished, as claimed
    todo,       \* tick -> status writes it still has to make
    due,        \* id -> content version the event was enqueued for (history)
    reached,    \* path -> newest version the cache has held (history)
    abandoned,  \* paths that lost a dead letter to retention (history)
    redrives,   \* redrives so far
    lost        \* claims and status writes that failed so far

INSTANCE FeedEvents

ASSUME RowsAssumption ==
    /\ Unused \notin EventRows
    /\ Deleted \notin EventRows
    /\ Unused # Deleted

history == <<due, reached, abandoned>>
queue == <<events, batch, todo, history, redrives, lost>>
allvars == <<vars, queue>>

NoRows == [e \in EventIds |-> Unused]

(* A status write: an operation and the ids it names.                      *)
Ops == {"mark_regenerated", "mark_pinged", "retry_regeneration",
        "dead_letter_regeneration", "retry_publication",
        "dead_letter_publication", "restart_regeneration"}
Writes == [op: Ops, ids: SUBSET EventIds]

WorkerTypeOK ==
    /\ TypeOK
    /\ EventsTypeOK
    /\ batch \in [Workers -> [EventIds -> EventRows \cup {Unused}]]
    /\ todo \in [Workers -> SUBSET Writes]
    /\ due \in [EventIds -> Nat]
    /\ reached \in [Paths -> Nat]
    /\ abandoned \subseteq Paths
    /\ redrives \in Nat
    /\ lost \in Nat

(* The queue starts empty, or with one row an earlier release stored with  *)
(* a path that no longer decodes.                                          *)
WorkerInit ==
    /\ Init
    /\ events \in {NoRows} \cup {[NoRows EXCEPT ![e] = NewEvent(Corrupt)] : e \in EventIds}
    /\ batch = [w \in Workers |-> NoRows]
    /\ todo = [w \in Workers |-> {}]
    /\ due = [e \in EventIds |-> 0]
    /\ reached = [p \in Paths |-> 0]
    /\ abandoned = {}
    /\ redrives = 0
    /\ lost = 0

------------------------------------------------------------------------------
(* The group a tick is working on: the claimed rows of its target path.    *)

Claimed(w) == {e \in EventIds : batch[w][e] # Unused}
GroupOf(w, p) == {e \in Claimed(w) : batch[w][e].path = p}
Group(w) == GroupOf(w, target[w])
Regenerating(w, p) ==
    {e \in GroupOf(w, p) : batch[w][e].phase = "regeneration"}

Write(op, ids) == IF ids = {} THEN {} ELSE {[op |-> op, ids |-> ids]}

(* Mutant of Partition: one retry more than the backoff table has.         *)
PartitionLate(w, ids, attempts, budget, retry, deadLetter) ==
    LET exhausted == {e \in ids : attempts[e] > budget}
        bucket(n) == {e \in ids \ exhausted : attempts[e] = n}
    IN  Write(deadLetter, exhausted)
          \cup UNION {Write(retry, bucket(n)) : n \in {attempts[e] : e \in ids \ exhausted}}

(* partition_retry_attempts: rows whose claimed copy has used the budget   *)
(* become dead letters, the others are retried, one write per attempt      *)
(* count.                                                                  *)
Partition(w, ids, attempts, budget, retry, deadLetter) ==
    LET exhausted == {e \in ids : attempts[e] >= budget}
        bucket(n) == {e \in ids \ exhausted : attempts[e] = n}
    IN  Write(deadLetter, exhausted)
          \cup UNION {Write(retry, bucket(n)) : n \in {attempts[e] : e \in ids \ exhausted}}

RegenerationRetries(w, ids) ==
    Partition(w, ids, [e \in ids |-> batch[w][e].regeneration_attempts],
              RegenBudget, "retry_regeneration", "dead_letter_regeneration")

PublicationRetries(w, ids) ==
    Partition(w, ids, [e \in ids |-> batch[w][e].publication_attempts],
              PublicationBudget, "retry_publication", "dead_letter_publication")

Lose == lost < MaxLost /\ lost' = lost + 1

Settle(w, writes) == todo' = [todo EXCEPT ![w] = writes]

------------------------------------------------------------------------------
(* The outbox: a post mutation and its feed event commit together.         *)
PostMutation(p, e) ==
    /\ PostChange(p)
    /\ Enqueue(e, p)
    /\ due' = [due EXCEPT ![e] = content'[p]]
    /\ UNCHANGED <<batch, todo, reached, abandoned, redrives, lost>>

(* claim_pending_batch, confirmed: the tick owns a copy of the rows.  The  *)
(* claim stands even when the purge of undecodable rows fails.             *)
Claim(w) ==
    /\ pc[w] = "idle"
    /\ Claimed(w) = {}
    /\ \E ids \in SUBSET Claimable, purged \in SUBSET Claimable :
          /\ ClaimPendingBatch(ids, purged)
          /\ IF Decodable(ids) \cup purged = ids THEN UNCHANGED lost ELSE Lose
          /\ batch' = [batch EXCEPT ![w] =
                         [e \in EventIds |->
                            IF e \in Decodable(ids) THEN events'[e] ELSE Unused]]
    /\ UNCHANGED <<vars, todo, history, redrives>>

(* The claim commits without acknowledgement: the tick returns and nobody  *)
(* works on the rows until their leases end.                               *)
ClaimUnconfirmed(w) ==
    /\ pc[w] = "idle"
    /\ Claimed(w) = {}
    /\ Lose
    /\ \E ids \in SUBSET Claimable : ClaimPendingBatch(ids, ids \ Decodable(ids))
    /\ UNCHANGED <<vars, batch, todo, history, redrives>>

(* process_feed_group, for some path of the batch.                         *)
TakeGroup(w, p) ==
    /\ GroupOf(w, p) # {}
    /\ BeginGroup(w, p, Regenerating(w, p) # {})
    /\ UNCHANGED queue

(* Steps through the seam that leave the queue alone.                      *)
SeamStep(w) ==
    /\ ReadSnapshot(w) \/ RepairGate(w) \/ Repair(w) \/ Resnapshot(w)
         \/ Render(w) \/ FinalizationGuard(w)
    /\ UNCHANGED queue

(* snapshot_for_group, load_feed_row and the gate fail: the whole group is *)
(* retried, except that a rendering failure is charged only to the rows    *)
(* that were to be regenerated.                                            *)
SeamFails(w) ==
    /\ ReaderFails(w) \/ RepairUnconfirmed(w) \/ BaseUrlRequired(w)
    /\ Settle(w, RegenerationRetries(w,
                   IF pc[w] = "load" /\ regen[w]
                     THEN Regenerating(w, target[w]) ELSE Group(w)))
    /\ UNCHANGED <<events, batch, history, redrives, lost>>

(* No cached row to republish: regenerate it.                              *)
LoadForPublication(w) ==
    /\ LoadCached(w)
    /\ Settle(w, IF cache[target[w]] = NoRow
                   THEN Write("restart_regeneration", Group(w)) ELSE {})
    /\ UNCHANGED <<events, batch, history, redrives, lost>>

Reach(p) ==
    reached' = [reached EXCEPT
                  ![p] = IF cache'[p] # NoRow /\ cache'[p].version > @
                           THEN cache'[p].version ELSE @]

(* finalize_feed_group.                                                    *)
FinalizeCommitted(w) ==
    /\ CommitCache(w)
    /\ Settle(w, Write("mark_regenerated", Regenerating(w, target[w])))
    /\ Reach(target[w])
    /\ UNCHANGED <<events, batch, due, abandoned, redrives, lost>>

(* Mutant of FinalizeStale: a stale group is published all the same.       *)
FinalizeStalePublishes(w) ==
    /\ pc[w] = "finalize"
    /\ regen[w]
    /\ ~Fenced(w)
    /\ Goto(w, "publish")
    /\ UNCHANGED <<stored, gate, content, locals, faults, queue>>

FinalizeStale(w) ==
    /\ CommitStale(w)
    /\ Settle(w, Write("restart_regeneration", Group(w)))
    /\ UNCHANGED <<events, batch, history, redrives, lost>>

(* Mutant of FinalizeUnconfirmed: an unacknowledged commit counts as done. *)
FinalizeAssumed(w) ==
    /\ CommitUnconfirmed(w)
    /\ Settle(w, Write("mark_pinged", Group(w)))
    /\ Reach(target[w])
    /\ UNCHANGED <<events, batch, due, abandoned, redrives, lost>>

FinalizeUnconfirmed(w) ==
    /\ CommitUnconfirmed(w)
    /\ Settle(w, RegenerationRetries(w, Group(w)))
    /\ Reach(target[w])
    /\ UNCHANGED <<events, batch, due, abandoned, redrives, lost>>

FinalizePublication(w) ==
    /\ CheckCurrent(w)
    /\ Settle(w, IF Fenced(w) THEN {} ELSE Write("restart_regeneration", Group(w)))
    /\ UNCHANGED <<events, batch, history, redrives, lost>>

(* The generation check fails, or mark_regenerated does: in the second     *)
(* case the write may have happened, and the rows stay claimed.            *)
FinalizeFailed(w) ==
    /\ FinalizeFails(w)
    /\ IF pc[w] = "finalize"
         THEN Settle(w, RegenerationRetries(w, Group(w))) /\ UNCHANGED events
         ELSE /\ todo[w] # {}
              /\ Settle(w, {})
              /\ UNCHANGED events \/ MarkRegenerated(Regenerating(w, target[w]))
    /\ UNCHANGED <<batch, history, redrives, lost>>

(* publish_feed, once mark_regenerated has been confirmed.                 *)
PublishFeed(w) ==
    /\ todo[w] = {}
    /\ Publish(w)
    /\ Settle(w, CASE snap[w].config.hub = NoHub -> Write("mark_pinged", Group(w))
                   [] snap[w].config.hub # NoHub /\ snap[w].config.identity = NoBase
                        -> RegenerationRetries(w, Group(w))
                   [] OTHER -> {})
    /\ UNCHANGED <<events, batch, history, redrives, lost>>

(* The answer of the hub: accepted, refused for good, or worth a retry.    *)
Ping(w) ==
    /\ PingReturns(w)
    /\ \E answer \in {"ok", "terminal", "retryable"} :
          Settle(w, CASE answer = "ok" -> Write("mark_pinged", Group(w))
                      [] answer = "terminal" -> Write("dead_letter_publication", Group(w))
                      [] answer = "retryable" -> PublicationRetries(w, Group(w)))
    /\ UNCHANGED <<events, batch, history, redrives, lost>>

------------------------------------------------------------------------------
(* Status writes, at any distance from the claim.                          *)

Perform(wr) ==
    CASE wr.op = "mark_regenerated" -> MarkRegenerated(wr.ids)
      [] wr.op = "mark_pinged" -> MarkPinged(wr.ids)
      [] wr.op = "retry_regeneration" -> RetryRegeneration(wr.ids)
      [] wr.op = "dead_letter_regeneration" -> DeadLetterRegeneration(wr.ids)
      [] wr.op = "retry_publication" -> RetryPublication(wr.ids)
      [] wr.op = "dead_letter_publication" -> DeadLetterPublication(wr.ids)
      [] wr.op = "restart_regeneration" -> RestartRegeneration(wr.ids)

DeadLetters == {"dead_letter_regeneration", "dead_letter_publication"}

(* The write to make next: dead letters come before retries.               *)
NextWrite(w, wr) ==
    /\ wr \in todo[w]
    /\ (\E x \in todo[w] : x.op \in DeadLetters) => wr.op \in DeadLetters

StatusWrite(w) ==
    /\ pc[w] \in {"settle", "publish"}
    /\ \E wr \in todo[w] :
          /\ NextWrite(w, wr)
          /\ Perform(wr)
          /\ Settle(w, todo[w] \ {wr})
    /\ UNCHANGED <<vars, batch, history, redrives, lost>>

(* The write is lost; the tick reports it and goes on.  (A write that is   *)
(* applied but not acknowledged differs only for mark_regenerated.)        *)
StatusWriteFails(w) ==
    /\ pc[w] = "settle"
    /\ Lose
    /\ \E wr \in todo[w] : NextWrite(w, wr) /\ Settle(w, todo[w] \ {wr})
    /\ UNCHANGED <<vars, events, batch, history, redrives>>

FinishGroup(w) ==
    /\ todo[w] = {}
    /\ EndGroup(w)
    /\ batch' = [batch EXCEPT ![w] =
                   [e \in EventIds |-> IF e \in Group(w) THEN Unused ELSE @[e]]]
    /\ UNCHANGED <<events, todo, history, redrives, lost>>

(* A tick dies, wherever it is: its claims stay until their leases end.    *)
TickDies(w) ==
    /\ Abort(w)
    /\ batch' = [batch EXCEPT ![w] = NoRows]
    /\ Settle(w, {})
    /\ UNCHANGED <<events, history, redrives, lost>>

------------------------------------------------------------------------------
(* The rest of the system.                                                 *)

HandlerRuns(h) ==
    /\ ReaderStep(h)
    /\ Reach(target[h])
    /\ UNCHANGED <<events, batch, todo, due, abandoned, redrives, lost>>

HandlerStep(h) ==
    /\ \/ \E p \in Paths : CacheMiss(h, p)
       \/ ReaderFails(h) \/ RepairUnconfirmed(h) \/ CommitUnconfirmed(h) \/ Abort(h)
    /\ Reach(target[h])
    /\ UNCHANGED <<events, batch, todo, due, abandoned, redrives, lost>>

EditStep(e) ==
    /\ \/ \E m \in Edits : RequestEdit(e, m)
       \/ EditorStep(e) \/ MutateUnconfirmed(e) \/ Abort(e)
    /\ UNCHANGED queue

Redrive(ids) ==
    /\ redrives < MaxRedrives
    /\ RedriveDeadLetters(ids)
    /\ redrives' = redrives + 1
    /\ UNCHANGED <<vars, batch, todo, history, lost>>

Prune(ids) ==
    /\ PruneTerminalEvents(ids)
    /\ abandoned' = abandoned \cup
                      ({events[e].path : e \in {i \in ids : events[i].status = "failed"}}
                         \cap Paths)
    /\ UNCHANGED <<vars, batch, todo, due, reached, redrives, lost>>

TimePasses(e) == Elapse(e) /\ UNCHANGED <<vars, batch, todo, history, redrives, lost>>

Outstanding(e) == e \in Stored /\ events[e].status \in {"pending", "claimed"}

TickStep(w) ==
    \/ Claim(w)
    \/ \E p \in Paths : TakeGroup(w, p)
    \/ SeamStep(w) \/ LoadForPublication(w)
    \/ FinalizeCommitted(w) \/ FinalizeStale(w) \/ FinalizePublication(w)
    \/ PublishFeed(w) \/ Ping(w) \/ StatusWrite(w) \/ FinishGroup(w)

TickFault(w) ==
    \/ ClaimUnconfirmed(w) \/ FinalizeUnconfirmed(w) \/ FinalizeFailed(w)
    \/ StatusWriteFails(w) \/ TickDies(w)

WorkerNext ==
    \/ \E p \in Paths, e \in EventIds : PostMutation(p, e)
    \/ \E w \in Workers : TickStep(w)
    \/ \E w \in Workers : SeamFails(w)
    \/ \E w \in Workers : TickFault(w)
    \/ \E h \in Handlers : HandlerRuns(h)
    \/ \E h \in Handlers : HandlerStep(h)
    \/ \E e \in Editors : EditStep(e)
    \/ \E ids \in SUBSET Redrivable : Redrive(ids)
    \/ \E ids \in SUBSET Prunable : Prune(ids)
    \/ \E e \in EventIds : TimePasses(e)

WorkerSpec == WorkerInit /\ [][WorkerNext]_allvars

(* The scheduler keeps starting ticks and the runtime keeps driving them;  *)
(* time passes, so every backoff and every lease comes to its end; gate    *)
(* waiters get the gate.  Nothing is assumed of faults, of retention, of   *)
(* operators or of post authors.                                           *)
WorkerFairness ==
    /\ \A w \in Workers :
          /\ WF_allvars(TickStep(w) \/ (BaseUrlRequired(w) /\ SeamFails(w)))
          /\ SF_allvars(SeamStep(w) /\ gate' = w)
    /\ \A e \in EventIds :
          WF_allvars(Outstanding(e) /\ TimePasses(e))
    /\ \A h \in Handlers :
          /\ WF_allvars(HandlerRuns(h))
          /\ SF_allvars(HandlerRuns(h) /\ gate' = h)
    /\ \A e \in Editors :
          /\ WF_allvars(EditorStep(e) /\ UNCHANGED queue)
          /\ SF_allvars(EditGate(e) /\ UNCHANGED queue)

FairWorkerSpec == WorkerSpec /\ WorkerFairness

------------------------------------------------------------------------------
(* The worker goes through the seam as Publisher describes it, so what is  *)
(* shown of Publisher holds of the whole pipeline.                         *)
ImplementsPublisher == Spec

(* No update is lost: a cached feed that lags behind its posts has an      *)
(* event still to be processed, or a dead letter that an operator can see  *)
(* (or that retention has since removed).                                  *)
NoUpdateIsLost ==
    \A p \in Paths :
        (cache[p] # NoRow /\ cache[p].version < content[p]) =>
            \/ \E e \in Stored : events[e].path = p /\ events[e].status # "done"
            \/ p \in abandoned

(* An event completes only after the cache has held a representation that  *)
(* contains the change it was enqueued for: publication never overtakes    *)
(* regeneration, whichever ticks did the two halves and however stale      *)
(* their copies of the row.                                                *)
DoneMeansRegenerated ==
    \A e \in Stored :
        (events[e].status = "done" /\ events[e].path \in Paths) =>
            reached[events[e].path] >= due[e]

(* Each phase spends its own budget and no more: when ticks do not overlap *)
(* a row is charged at most once beyond the backoff table, and then it is  *)
(* a dead letter of that phase.                                            *)
BudgetsAreKept ==
    \A e \in Stored :
        LET row == events[e]
        IN  /\ row.regeneration_attempts > RegenBudget =>
                  /\ row.regeneration_attempts = RegenBudget + 1
                  /\ row.status = "failed" /\ row.phase = "regeneration"
            /\ row.publication_attempts > PublicationBudget =>
                  row.publication_attempts = PublicationBudget + 1

(* A completed event stays completed until retention deletes it.           *)
DoneIsFinal ==
    [][\A e \in EventIds :
          (e \in Stored /\ events[e].status = "done") =>
              events'[e] = Deleted \/ events'[e].status = "done"]_allvars

(* Every event that is claimable or claimed comes to an end: completed,    *)
(* dead-lettered or deleted.  Lost writes, dead ticks and lost claims only *)
(* delay it until the lease ends.                                          *)
EventsSettle == \A e \in EventIds : Outstanding(e) ~> ~Outstanding(e)

==============================================================================
